SPECIFICATION Spec
CONSTANTS
  Callers = {p1, p2}
  Calls <- AllCalls
  InitStore <- SmallDatabase
  InitMeta = 11
  MaxTx = 13
  MaxId = 4
  MaxFaults = 1
  MaxEnds = 1
INVARIANTS VersionsCovered TxSerial MarkersExact AckDurable
SYMMETRY Symmetry
CHECK_DEADLOCK FALSE
