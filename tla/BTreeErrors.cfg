SPECIFICATION Spec
CONSTANTS
  Keys <- KeySet2
  Values = {"a", "big"}
  Chunks <- SomeChunks
  Padded = {}
  MaxLeafKeys = 1
  MaxInternalKeys = 2
  MaxPages = 9
  MaxHeight = 2
  MaxMishaps = 1
  MaxCompacts = 1
  AllocErrors = TRUE
  CommitErrors = TRUE
  IgnoreErrors = FALSE
INVARIANTS ReadsAgree OneOwner

