SPECIFICATION Spec
CONSTANTS
  MaxArgs = 5
  MaxSize = 3
  BufferLen = 2
  MaxPartitions = 2
  MaxEvents = 3
INVARIANTS
  TypeOK
  AcceptedAsAsked
  DigestCoversWhatWasRead
  LineIsUnderItsHeading
  SummaryAgreesWithLines
