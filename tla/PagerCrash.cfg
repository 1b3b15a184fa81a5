SPECIFICATION Spec
CONSTANTS
    MaxPages = 4
    Values = {7, 8}
    DirectValues = {7}
    FreeArgs = {2, 3}
    Sentinel = 9
    CheckpointThreshold = 0
    PowerLoss = FALSE
    RollbackFailedCommit = TRUE
    MaxFaults = 0
    MaxTxn = 2
    MaxWal = 2
INVARIANTS
    HeaderRecoverable
    Recoverable
    ReadsLatest
    FreeListSound
    AllocatedOnce
    RollbackIsFinal
    RefusalIsFreeList
