SPECIFICATION Spec
CONSTANTS
    Callers = {p1, p2}
    Registered <- Components
    Workers = {w1}
    Requests = {1, 1000, 1001}
    QueueSize = 1
    Clients = {c1, c2}
    MaxConnections = 1
    MaxFaults = 1
INVARIANTS PrefixRunning StopDrains DrainedAtZero ThrottleExact
PROPERTIES AcceptedProcessed StopTerminates
CHECK_DEADLOCK FALSE
