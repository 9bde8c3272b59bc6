SPECIFICATION MCSpec
CONSTANTS
  LastCluster = 5
  Root = 2
  MaxDepth = 2
  MaxChain = 3
  BadCluster = 268435447
PROPERTY
  ReadAtMostOnce
