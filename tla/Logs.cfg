SPECIFICATION Spec
CONSTANTS
    MaxMem = 9
    LocSize = 1
    KeySize = 3
    Writers = {p1}
    Records <- SmallRecords
    PageCap = 2
    Queries <- SmallQueries
    Cutoffs = {2}
    MaxFaults = 1
    MaxEnds = 1
INVARIANTS ScanComplete IndexSound IndexCovers
CHECK_DEADLOCK FALSE
