SPECIFICATION Spec
CONSTANTS
  Callers = {p1}
  Calls <- AllCalls
  InitStore <- NewDatabase
  InitMeta = 0
  MaxTx = 3
  MaxId = 3
  MaxFaults = 0
  MaxEnds = 1
INVARIANT AckLoaded
CHECK_DEADLOCK FALSE
