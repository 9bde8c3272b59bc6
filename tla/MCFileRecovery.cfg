SPECIFICATION MCSpec
CONSTANTS
  LastCluster = 4
  ClusterBytes = 4
  SizeLimit = 16
  FatCount = 2
INVARIANTS
  TypeOK
  EveryFileAccounted
  FreeRunsOnly
  NoGapMeansRecovered
