SPECIFICATION Spec
CONSTANTS
  Keys <- KeySet3
  Values = {"a"}
  Chunks <- NoChunks
  Padded = {}
  MaxLeafKeys = 2
  MaxInternalKeys = 2
  MaxPages = 8
  MaxHeight = 2
  MaxMishaps = 1
  MaxCompacts = 0
  AllocErrors = FALSE
  CommitErrors = TRUE
  IgnoreErrors = TRUE
PROPERTY SetIsLocal
