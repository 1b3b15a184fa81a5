SPECIFICATION Spec
CONSTANTS
  Keys <- KeySet3
  Values = {"a", "b"}
  Chunks <- NoChunks
  Padded = {}
  MaxLeafKeys = 2
  MaxInternalKeys = 2
  MaxPages = 9
  MaxHeight = 1
  MaxMishaps = 1
  MaxCompacts = 1
  AllocErrors = FALSE
  CommitErrors = TRUE
  IgnoreErrors = FALSE
PROPERTY Implements
