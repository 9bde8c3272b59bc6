SPECIFICATION MCSpec
CONSTANTS
  Word = 32
  SectorSize = 4
  SectorSizes = {4, 8}
  ClusterSectors = {1, 2, 4}
  MaxClusterBytes = 8
  Fat32Clusters = 3
  EntryBytes = 2
  SlotBytes = 1
INVARIANTS
  TypeOK
  ReadsInsideVolume
  ReadsInItsRegion
  ReadsApart
