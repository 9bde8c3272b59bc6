SPECIFICATION MCSpec
CONSTANTS
  LastCluster = 5
  Root = 2
  MaxDepth = 2
  MaxChain = 3
  BadCluster = 268435447
INVARIANTS
  TypeOK
  ListedOnce
  RefusalStands
  NoGapMeansAllRead
  NoOrphanMissed
  ListingAgreesWithFat
  OneFindingEach
PROPERTY
  Terminates
