SPECIFICATION Spec
CONSTANTS
  Callers = {p1}
  Calls <- HalfDropCalls
  InitStore <- SmallDatabase
  InitMeta = 11
  MaxTx = 15
  MaxId = 6
  MaxFaults = 1
  MaxEnds = 1
INVARIANT AckStored
CHECK_DEADLOCK FALSE
