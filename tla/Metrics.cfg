SPECIFICATION Spec
CONSTANTS
    Writers = {p1}
    WideBits = 16
    Points <- SmallPoints
    PageCap = 1
    RollupCap = 1
    MaxBuckets = 0
    Queries <- SmallQueries
    Passes = {loop, force}
    Resolutions <- SmallResolutions
    MaxFaults = 1
    MaxEnds = 1
SYMMETRY PassSymmetry
INVARIANTS PassSeesPrefix BucketsExact TimestampsReadBack ScanComplete LocatedFinds
CHECK_DEADLOCK FALSE
