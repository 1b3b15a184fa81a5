--------------------------- MODULE VacuumManager ---------------------------
(* The vacuum manager: a bounded queue of files to remove, the workers that    *)
(* remove them, and Stop.  A call that is refused changes nothing.  A request  *)
(* is the id of the dropped table, which names the file.                       *)
EXTENDS Integers, Sequences, FiniteSets

CONSTANTS Workers, Requests, QueueSize

ASSUME VacuumAssumption ==
    IsFiniteSet(Workers) /\ Workers # {} /\ Requests \subseteq Nat /\ QueueSize \in Nat \ {0}

SystemIDs == 1 .. 999

VARIABLES
    vstate, pending, pendingCount, stopClosed, worker,
    vstop,                \* where Stop is, and how it returned
    accepted, processed   \* history: requests that were queued; those os.Remove was called for

vacuumVars == <<vstate, pending, pendingCount, stopClosed, worker, vstop, accepted, processed>>

Asleep == [pc |-> "none", draining |-> FALSE, req |-> {}]

VacuumInit ==
    /\ vstate = "new" /\ pending = <<>> /\ pendingCount = 0 /\ stopClosed = FALSE
    /\ worker = [w \in Workers |-> Asleep]
    /\ vstop = "none" /\ accepted = {} /\ processed = {}

VacuumStart ==
    /\ vstate = "new" /\ vstate' = "started"
    /\ worker' = [w \in Workers |-> [Asleep EXCEPT !.pc = "select"]]
    /\ UNCHANGED <<pending, pendingCount, stopClosed, vstop, accepted, processed>>

\* Mutant of ScheduleDeletion: the state is not looked at.
ScheduleDeletionAlways(r) ==
    /\ r \notin SystemIDs /\ r \notin accepted
    /\ Len(pending) < QueueSize
    /\ pending' = Append(pending, r) /\ pendingCount' = pendingCount + 1
    /\ accepted' = accepted \cup {r}
    /\ UNCHANGED <<vstate, stopClosed, worker, vstop, processed>>

\* The ids of the system tables are refused; the rest of the call holds the lock.  DROP TABLE
\* ignores the errors.  The catalog counts the ids of user tables from 1, so that the files of
\* the first 999 tables are refused too.
ScheduleDeletion(r) ==
    /\ r \notin SystemIDs /\ r \notin accepted
    /\ vstate = "started" /\ Len(pending) < QueueSize
    /\ pending' = Append(pending, r) /\ pendingCount' = pendingCount + 1
    /\ accepted' = accepted \cup {r}
    /\ UNCHANGED <<vstate, stopClosed, worker, vstop, processed>>

---------------------------------------------------------------------------
(* Workers.                                                                   *)

\* Mutant of Receive: a request is counted out when it is taken.
ReceiveCounted(w) ==
    /\ worker[w].pc = "select" /\ pending # <<>>
    /\ worker' = [worker EXCEPT ![w].pc = "remove", ![w].req = {Head(pending)}]
    /\ pending' = Tail(pending) /\ pendingCount' = pendingCount - 1
    /\ UNCHANGED <<vstate, stopClosed, vstop, accepted, processed>>

\* A receive of either loop; select may take it although stopCh is closed.
Receive(w) ==
    /\ worker[w].pc = "select" /\ pending # <<>>
    /\ worker' = [worker EXCEPT ![w].pc = "remove", ![w].req = {Head(pending)}]
    /\ pending' = Tail(pending)
    /\ UNCHANGED <<vstate, pendingCount, stopClosed, vstop, accepted, processed>>

\* Mutant of SeeStop: the worker returns without draining the queue.
SeeStopExit(w) ==
    /\ worker[w].pc = "select" /\ ~worker[w].draining /\ stopClosed
    /\ worker' = [worker EXCEPT ![w].pc = "exited"]
    /\ UNCHANGED <<vstate, pending, pendingCount, stopClosed, vstop, accepted, processed>>

SeeStop(w) ==
    /\ worker[w].pc = "select" /\ ~worker[w].draining /\ stopClosed
    /\ worker' = [worker EXCEPT ![w].draining = TRUE]
    /\ UNCHANGED <<vstate, pending, pendingCount, stopClosed, vstop, accepted, processed>>

Exit(w) ==
    /\ worker[w].pc = "select" /\ worker[w].draining /\ pending = <<>>
    /\ worker' = [worker EXCEPT ![w].pc = "exited"]
    /\ UNCHANGED <<vstate, pending, pendingCount, stopClosed, vstop, accepted, processed>>

\* process: os.Remove, whose error is dropped (the file may stay), then the count under the lock.
Remove(w) ==
    /\ worker[w].pc = "remove"
    /\ processed' = processed \cup worker[w].req
    /\ worker' = [worker EXCEPT ![w].pc = "count"]
    /\ UNCHANGED <<vstate, pending, pendingCount, stopClosed, vstop, accepted>>

Count(w) ==
    /\ worker[w].pc = "count"
    /\ pendingCount' = pendingCount - 1
    /\ worker' = [worker EXCEPT ![w].pc = "select", ![w].req = {}]
    /\ UNCHANGED <<vstate, pending, stopClosed, vstop, accepted, processed>>

---------------------------------------------------------------------------
(* Stop: the state under the lock, close(stopCh), the wait.                    *)

VacuumStopBegin ==
    /\ vstate = "started" /\ vstate' = "stopped" /\ vstop' = "close"
    /\ UNCHANGED <<pending, pendingCount, stopClosed, worker, accepted, processed>>

CloseStopCh ==
    /\ vstop = "close" /\ stopClosed' = TRUE /\ vstop' = "wait"
    /\ UNCHANGED <<vstate, pending, pendingCount, worker, accepted, processed>>

WorkersDone == \A w \in Workers : worker[w].pc = "exited"

VacuumStopReturn ==
    /\ vstop = "wait" /\ WorkersDone /\ vstop' = "nil"
    /\ UNCHANGED <<vstate, pending, pendingCount, stopClosed, worker, accepted, processed>>

\* ctx.Done is ready as well.
VacuumStopTimeout ==
    /\ vstop = "wait" /\ vstop' = "timeout"
    /\ UNCHANGED <<vstate, pending, pendingCount, stopClosed, worker, accepted, processed>>

---------------------------------------------------------------------------
Working(w) == Receive(w) \/ SeeStop(w) \/ Exit(w) \/ Remove(w) \/ Count(w)

VacuumNext ==
    \/ VacuumStart \/ VacuumStopBegin \/ CloseStopCh \/ VacuumStopReturn \/ VacuumStopTimeout
    \/ \E r \in Requests : ScheduleDeletion(r)
    \/ \E w \in Workers : Working(w)

VacuumSpec == VacuumInit /\ [][VacuumNext]_vacuumVars

---------------------------------------------------------------------------
\* A Stop that returned nil left nothing behind: every request that was accepted,
\* also one that raced with Stop, was processed by a worker.
StopDrains == vstop = "nil" => accepted \subseteq processed

\* pendingCount counts what Drain waits for: at zero os.Remove was called for every file whose
\* deletion was accepted.
DrainedAtZero == pendingCount = 0 => accepted \subseteq processed
=============================================================================
