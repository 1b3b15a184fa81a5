SPECIFICATION Spec
CONSTANTS
  Keys <- KeySet1
  Values = {"a", "big"}
  Chunks <- SomeChunks
  Padded = {}
  MaxLeafKeys = 2
  MaxInternalKeys = 2
  MaxPages = 10
  MaxHeight = 1
  MaxMishaps = 0
  MaxCompacts = 1
  AllocErrors = FALSE
  CommitErrors = FALSE
  IgnoreErrors = FALSE
PROPERTY Implements
