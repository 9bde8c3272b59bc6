SPECIFICATION MCSpec
CONSTANTS
  Artifacts = 2
  Length <- MCLength
  MaxRuns = 2
  NoFile = NoFile
PROPERTY
  LeftIsThere
