SPECIFICATION Spec
CONSTANTS
  Keys <- KeySet2
  Values = {"a", "big"}
  Chunks <- SomeChunks
  Padded = {}
  MaxLeafKeys = 2
  MaxInternalKeys = 2
  MaxPages = 8
  MaxHeight = 1
  MaxMishaps = 0
  MaxCompacts = 0
  AllocErrors = FALSE
  CommitErrors = FALSE
  IgnoreErrors = FALSE
PROPERTY Implements
