SPECIFICATION MCSpec
CONSTANTS
  SectorSizes <- MCSectorSizes
  ClusterSizes <- MCClusterSizes
  TableSector = 512
  MaxClusterBytes = 33554432
  MinVolumeBytes = 1048576
  U32Max = 2110
INVARIANTS
  TypeOK
  GeometryIsSound
  ReadsInsidePartition
  SearchIsExhaustive
