SPECIFICATION Spec
CONSTANTS
  Keys <- KeySet1
  Values = {"a"}
  Chunks <- NoChunks
  Padded = {}
  MaxLeafKeys = 2
  MaxInternalKeys = 2
  MaxPages = 8
  MaxHeight = 1
  MaxMishaps = 1
  MaxCompacts = 0
  AllocErrors = FALSE
  CommitErrors = FALSE
  IgnoreErrors = FALSE
INVARIANT MetaReadable
