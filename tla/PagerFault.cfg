SPECIFICATION Spec
CONSTANTS
    MaxPages = 4
    Values = {7}
    DirectValues = {}
    FreeArgs = {}
    Sentinel = 9
    CheckpointThreshold = 3
    PowerLoss = TRUE
    RollbackFailedCommit = FALSE
    MaxFaults = 1
    MaxTxn = 2
    MaxWal = 4
INVARIANTS
    Recoverable
