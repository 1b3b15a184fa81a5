SPECIFICATION Spec
CONSTANTS
  Keys <- KeySet1
  Values = {"a", "big"}
  Chunks <- SomeChunks
  Padded = {}
  MaxLeafKeys = 2
  MaxInternalKeys = 2
  MaxPages = 8
  MaxHeight = 1
  MaxMishaps = 1
  MaxCompacts = 0
  AllocErrors = TRUE
  CommitErrors = FALSE
  IgnoreErrors = FALSE
PROPERTY Implements
