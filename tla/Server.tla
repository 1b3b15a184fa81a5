------------------------------- MODULE Server -------------------------------
(* The server: the listener, the goroutine that watches the context of Start,  *)
(* the accept loop with its throttle, the sessions, and Stop.                  *)
EXTENDS Integers, FiniteSets

CONSTANTS
    Clients,
    MaxConnections      \* 0 is no limit

ASSUME ServerAssumption == IsFiniteSet(Clients) /\ MaxConnections \in Nat

VARIABLES
    ln, ctxDone,        \* the listener; the context that Start was given
    watcher, loop,      \* the two goroutines of Start
    conn,               \* the connection of each client
    throttle, active,   \* Throttle.active and the WaitGroup
    sstop               \* where Stop is

serverVars == <<ln, ctxDone, watcher, loop, conn, throttle, active, sstop>>

ServerInit ==
    /\ ln = "none" /\ ctxDone = FALSE /\ watcher = "none" /\ loop = "none"
    /\ conn = [c \in Clients |-> "away"]
    /\ throttle = 0 /\ active = 0 /\ sstop = "none"

ServerStart ==
    /\ ln' = "open" /\ watcher' = "waiting" /\ loop' = "accept"
    /\ UNCHANGED <<ctxDone, conn, throttle, active, sstop>>

\* The system resets the connections that nobody accepted.
CloseListener ==
    /\ ln' = "closed"
    /\ conn' = [c \in Clients |-> IF conn[c] = "backlog" THEN "away" ELSE conn[c]]

Watch ==
    /\ watcher = "waiting" /\ ctxDone /\ watcher' = "done"
    /\ CloseListener
    /\ UNCHANGED <<ctxDone, loop, throttle, active, sstop>>

---------------------------------------------------------------------------
(* acceptLoop.  Until the context is done it repeats a failed Accept.          *)

Accept(c) ==
    /\ loop = "accept" /\ ln = "open" /\ conn[c] = "backlog"
    /\ conn' = [conn EXCEPT ![c] = "held"] /\ loop' = "acquire"
    /\ UNCHANGED <<ln, ctxDone, watcher, throttle, active, sstop>>

AcceptFails ==
    /\ loop = "accept" /\ ln = "closed" /\ ctxDone /\ loop' = "exited"
    /\ UNCHANGED <<ln, ctxDone, watcher, conn, throttle, active, sstop>>

\* The first half of TryAcquire: the place is counted before the limit is looked at.
TryAcquire(c) ==
    /\ loop = "acquire" /\ conn[c] = "held"
    /\ throttle' = IF MaxConnections > 0 THEN throttle + 1 ELSE throttle
    /\ loop' = IF MaxConnections > 0 /\ throttle' > MaxConnections THEN "refuse" ELSE "add"
    /\ UNCHANGED <<ln, ctxDone, watcher, conn, active, sstop>>

\* Mutant of Refuse: a refused connection keeps its place.
RefuseKept(c) ==
    /\ loop = "refuse" /\ conn[c] = "held"
    /\ conn' = [conn EXCEPT ![c] = "away"] /\ loop' = "accept"
    /\ UNCHANGED <<ln, ctxDone, watcher, throttle, active, sstop>>

\* The second half: the place is given back; the connection gets an error and is closed.
Refuse(c) ==
    /\ loop = "refuse" /\ conn[c] = "held"
    /\ conn' = [conn EXCEPT ![c] = "away"] /\ loop' = "accept" /\ throttle' = throttle - 1
    /\ UNCHANGED <<ln, ctxDone, watcher, active, sstop>>

AddSession(c) ==
    /\ loop = "add" /\ conn[c] = "held"
    /\ active' = active + 1 /\ conn' = [conn EXCEPT ![c] = "session"] /\ loop' = "accept"
    /\ UNCHANGED <<ln, ctxDone, watcher, throttle, sstop>>

---------------------------------------------------------------------------
(* Clients and sessions.                                                      *)

Dial(c) ==
    /\ ln = "open" /\ conn[c] = "away" /\ conn' = [conn EXCEPT ![c] = "backlog"]
    /\ UNCHANGED <<ln, ctxDone, watcher, loop, throttle, active, sstop>>

\* The client terminates or disconnects: Run returns.
Leave(c) ==
    /\ conn[c] = "session" /\ conn' = [conn EXCEPT ![c] = "over"]
    /\ UNCHANGED <<ln, ctxDone, watcher, loop, throttle, active, sstop>>

\* The deferred calls: Release, then Done.
Release(c) ==
    /\ conn[c] = "over" /\ conn' = [conn EXCEPT ![c] = "released"]
    /\ throttle' = throttle - 1
    /\ UNCHANGED <<ln, ctxDone, watcher, loop, active, sstop>>

\* Mutant of Done: a path on which the WaitGroup is not told.
DoneForgotten(c) ==
    /\ conn[c] = "released" /\ conn' = [conn EXCEPT ![c] = "away"]
    /\ UNCHANGED <<ln, ctxDone, watcher, loop, throttle, active, sstop>>

Done(c) ==
    /\ conn[c] = "released" /\ conn' = [conn EXCEPT ![c] = "away"]
    /\ active' = active - 1
    /\ UNCHANGED <<ln, ctxDone, watcher, loop, throttle, sstop>>

---------------------------------------------------------------------------
ServerStopBegin ==
    /\ sstop = "none" /\ sstop' = "wait"
    /\ CloseListener
    /\ UNCHANGED <<ctxDone, watcher, loop, throttle, active>>

\* active.Wait, which no context ends.
ServerStopReturn ==
    /\ sstop = "wait" /\ active = 0 /\ sstop' = "nil"
    /\ UNCHANGED <<ln, ctxDone, watcher, loop, conn, throttle, active>>

Looping ==
    AcceptFails \/ \E c \in Clients : Accept(c) \/ TryAcquire(c) \/ Refuse(c) \/ AddSession(c)
Ending(c) == Release(c) \/ Done(c)

---------------------------------------------------------------------------
Holding == {c \in Clients : conn[c] \in {"session", "over"}}
           \cup {c \in Clients : conn[c] = "held" /\ loop \in {"add", "refuse"}}

\* The throttle counts the connections that hold a place, through refusals, hang-ups and
\* shutdown, and never more of them than it allows, but for the one being refused.
ThrottleExact ==
    /\ throttle = Cardinality(Holding)
    /\ MaxConnections > 0 => throttle <= MaxConnections + (IF loop = "refuse" THEN 1 ELSE 0)
=============================================================================
