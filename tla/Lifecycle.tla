----------------------------- MODULE Lifecycle -----------------------------
(* lifecycle.Manager: components start in registration order and stop in       *)
(* reverse.  Start and Stop hold the lock only between components, so that     *)
(* calls of several goroutines interleave there.                               *)
EXTENDS Integers, Sequences

CONSTANTS
    Callers,        \* goroutines that call Start and Stop
    Registered      \* the components, in registration order

\* Register refuses a second component of the same name.
ASSUME LifecycleAssumption ==
    /\ Registered \in Seq(STRING) /\ Registered # <<>>
    /\ \A i, j \in 1 .. Len(Registered) : Registered[i] = Registered[j] => i = j

VARIABLES
    mstate, startedComponents,
    call,           \* what each caller is doing, with its copy of the component list
    running         \* components whose Start succeeded and whose Stop has not returned

lifecycleVars == <<mstate, startedComponents, call, running>>

Idle == [pc |-> "idle", list |-> <<>>, i |-> 0]

LifecycleInit ==
    /\ mstate = "new" /\ startedComponents = <<>>
    /\ call = [p \in Callers |-> Idle] /\ running = {}

Current(p) == call[p].list[call[p].i]

---------------------------------------------------------------------------
(* Start.                                                                     *)

StartCall(p) ==
    /\ call[p].pc = "idle" /\ mstate = "new" /\ mstate' = "starting"
    /\ call' = [call EXCEPT ![p] = [pc |-> "starting", list |-> Registered, i |-> 1]]
    /\ UNCHANGED <<startedComponents, running>>

Starts(p) == call[p].pc = "starting" /\ call[p].i <= Len(call[p].list)

\* The component that started is appended under the lock.
ComponentStarted(p) ==
    /\ Starts(p)
    /\ startedComponents' = Append(startedComponents, Current(p))
    /\ running' = running \cup {Current(p)}
    /\ call' = [call EXCEPT ![p].i = @ + 1]
    /\ UNCHANGED mstate

\* An error or a panic: what did start stays started until Stop.
ComponentFails(p) ==
    /\ Starts(p) /\ mstate' = "failed"
    /\ call' = [call EXCEPT ![p].pc = "return"]
    /\ UNCHANGED <<startedComponents, running>>

StartDone(p) ==
    /\ call[p].pc = "starting" /\ call[p].i > Len(call[p].list) /\ mstate' = "started"
    /\ call' = [call EXCEPT ![p].pc = "return"]
    /\ UNCHANGED <<startedComponents, running>>

---------------------------------------------------------------------------
(* Stop.  In the states starting and stopping it is refused.                   *)

StopNew(p) ==
    /\ call[p].pc = "idle" /\ mstate = "new" /\ mstate' = "stopped"
    /\ UNCHANGED <<startedComponents, call, running>>

\* Mutant of StopCall: Stop also acts on a manager that is starting.
StopCallStarting(p) ==
    /\ call[p].pc = "idle" /\ mstate \in {"starting", "started", "failed"} /\ mstate' = "stopping"
    /\ call' = [call EXCEPT ![p] = [pc |-> "stopping", list |-> startedComponents,
                                    i |-> Len(startedComponents)]]
    /\ startedComponents' = <<>> /\ UNCHANGED running

\* Stop takes the list, so that no second Stop can take it.
StopCall(p) ==
    /\ call[p].pc = "idle" /\ mstate \in {"started", "failed"} /\ mstate' = "stopping"
    /\ call' = [call EXCEPT ![p] = [pc |-> "stopping", list |-> startedComponents,
                                    i |-> Len(startedComponents)]]
    /\ startedComponents' = <<>> /\ UNCHANGED running

Stops(p) == call[p].pc = "stopping" /\ call[p].i > 0

\* The component's Stop has returned; an error or a panic is joined and the loop goes on.
ComponentStopped(p) ==
    /\ Stops(p) /\ running' = running \ {Current(p)}
    /\ call' = [call EXCEPT ![p].i = @ - 1]
    /\ UNCHANGED <<mstate, startedComponents>>

StopDone(p) ==
    /\ call[p].pc = "stopping" /\ call[p].i = 0 /\ mstate' = "stopped"
    /\ call' = [call EXCEPT ![p] = Idle]
    /\ UNCHANGED <<startedComponents, running>>

---------------------------------------------------------------------------
\* A component runs only while every component registered before it runs, also when
\* a Start failed halfway and when Start and Stop are called by several goroutines.
PrefixRunning ==
    \A j \in 1 .. Len(Registered) :
        Registered[j] \in running => \A i \in 1 .. j : Registered[i] \in running
=============================================================================
