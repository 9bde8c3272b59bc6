SPECIFICATION MCSpec
CONSTANTS
  EntryCount = 3
  SectorSize = 4
  Word = 8
  MaxLength = 18
  MaxGaps = 1
INVARIANTS
  TypeOK
  CompleteMeansAnalysed
  StatusTellsNothing
  EveryPartitionReported
  ReadsInsideEvidence
  OverlapsReported
