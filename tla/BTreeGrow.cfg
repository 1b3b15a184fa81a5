SPECIFICATION Spec
CONSTANTS
  Keys <- KeySet6
  Values = {"a"}
  Chunks <- NoChunks
  Padded = {}
  MaxLeafKeys = 2
  MaxInternalKeys = 2
  MaxPages = 16
  MaxHeight = 3
  MaxMishaps = 1
  MaxCompacts = 0
  AllocErrors = FALSE
  CommitErrors = FALSE
  IgnoreErrors = FALSE
INVARIANTS ReadsAgree TreeSound CheckAccepts
