SPECIFICATION Spec
CONSTANTS
  Keys <- KeySet4
  Values = {"a"}
  Chunks <- NoChunks
  Padded = {}
  MaxLeafKeys = 1
  MaxInternalKeys = 2
  MaxPages = 24
  MaxHeight = 3
  MaxMishaps = 0
  MaxCompacts = 1
  AllocErrors = FALSE
  CommitErrors = FALSE
  IgnoreErrors = FALSE
INVARIANT ReadsAgree
