------------------------------ MODULE Runtime ------------------------------
(* The runtime: the lifecycle manager starting and stopping storage, the       *)
(* vacuum manager and the server, while clients connect and drop tables.       *)
(* "storage" stands for the components whose Start and Stop spawn nothing      *)
(* (the pagers, the key-value store, the catalog).                             *)
EXTENDS Lifecycle, VacuumManager, Server

CONSTANT MaxFaults      \* bound: component starts that fail

VARIABLES
    faults,
    late        \* history: a statement ran while storage was stopped

vars == <<lifecycleVars, vacuumVars, serverVars, faults, late>>

Init == LifecycleInit /\ VacuumInit /\ ServerInit /\ faults = 0 /\ late = FALSE

---------------------------------------------------------------------------
StartComponent(p) ==
    /\ ComponentStarted(p)
    /\ CASE Current(p) = "vacuum" -> VacuumStart /\ UNCHANGED serverVars
         [] Current(p) = "server" -> ServerStart /\ UNCHANGED vacuumVars
         [] OTHER -> UNCHANGED <<vacuumVars, serverVars>>
    /\ UNCHANGED <<faults, late>>

StartFails(p) ==
    /\ faults < MaxFaults /\ faults' = faults + 1
    /\ ComponentFails(p)
    /\ UNCHANGED <<vacuumVars, serverVars, late>>

\* Runtime.Start returns: the deferred cancel ends the context the components were given.
StartReturn(p) ==
    /\ call[p].pc = "return" /\ call' = [call EXCEPT ![p] = Idle]
    /\ ctxDone' = TRUE
    /\ UNCHANGED <<mstate, startedComponents, running, vacuumVars, ln, watcher, loop, conn,
                   throttle, active, sstop, faults, late>>

\* StartupTimeout ends the same context while Start is still running.
StartupExpires ==
    /\ \E p \in Callers : call[p].pc = "starting"
    /\ ctxDone' = TRUE
    /\ UNCHANGED <<lifecycleVars, vacuumVars, ln, watcher, loop, conn, throttle, active, sstop,
                   faults, late>>

---------------------------------------------------------------------------
\* A component's Stop, up to where it waits.
StopBegin(p) ==
    /\ Stops(p)
    /\ \/ Current(p) = "vacuum" /\ (VacuumStopBegin \/ CloseStopCh) /\ UNCHANGED serverVars
       \/ Current(p) = "server" /\ ServerStopBegin /\ UNCHANGED vacuumVars
    /\ UNCHANGED <<lifecycleVars, faults, late>>

\* The vacuum manager gives up when ShutdownTimeout ends the context; the server does not.
StopReturns(p) ==
    /\ ComponentStopped(p)
    /\ CASE Current(p) = "vacuum" -> (VacuumStopReturn \/ VacuumStopTimeout) /\ UNCHANGED serverVars
         [] Current(p) = "server" -> ServerStopReturn /\ UNCHANGED vacuumVars
         [] OTHER -> UNCHANGED <<vacuumVars, serverVars>>
    /\ UNCHANGED <<faults, late>>

\* A session executes DROP TABLE: the file of the table goes to the vacuum manager.
Statement(c, r) ==
    /\ conn[c] = "session"
    /\ IF "storage" \in running
       THEN ScheduleDeletion(r) /\ UNCHANGED late
       ELSE late' = TRUE /\ UNCHANGED vacuumVars
    /\ UNCHANGED <<lifecycleVars, serverVars, faults>>

---------------------------------------------------------------------------
Calling(p) ==
    \/ (StartCall(p) \/ StartDone(p) \/ StopNew(p) \/ StopCall(p) \/ StopDone(p))
       /\ UNCHANGED <<vacuumVars, serverVars, faults, late>>
    \/ StartComponent(p) \/ StartFails(p) \/ StartReturn(p) \/ StopBegin(p) \/ StopReturns(p)

Serving(A) == A /\ UNCHANGED <<lifecycleVars, vacuumVars, faults, late>>
Vacuuming(w) == Working(w) /\ UNCHANGED <<lifecycleVars, serverVars, faults, late>>

Next ==
    \/ \E p \in Callers : Calling(p)
    \/ StartupExpires
    \/ Serving(Watch) \/ Serving(Looping)
    \/ \E c \in Clients : Serving(Dial(c) \/ Leave(c) \/ Ending(c))
    \/ \E c \in Clients, r \in Requests : Statement(c, r)
    \/ \E w \in Workers : Vacuuming(w)

\* Goroutines that can go on do; clients owe nothing, and nobody has to call Start or Stop.
\* Once Stop gave up on the vacuum workers Run returns and the process may end under them.
Fairness ==
    /\ \A p \in Callers : WF_vars(call[p].pc # "idle" /\ Calling(p))
    /\ WF_vars(Serving(Watch)) /\ WF_vars(Serving(Looping))
    /\ \A c \in Clients : WF_vars(Serving(Ending(c)))
    /\ \A w \in Workers : WF_vars(vstop # "timeout" /\ Vacuuming(w))

Spec == Init /\ [][Next]_vars /\ Fairness

---------------------------------------------------------------------------
\* os.Remove is called for every file whose deletion was accepted, also when Stop is called
\* while it is queued, unless that Stop gives up waiting and the process ends.
AcceptedProcessed ==
    \A r \in Requests : (r \in accepted) ~> (r \in processed \/ vstop = "timeout")

\* The same without the exception: an accepted file is lost when Stop gives up.
AlwaysProcessed == \A r \in Requests : (r \in accepted) ~> (r \in processed)

\* If the clients do not stay connected for ever, a Stop that is under way returns, at any
\* number of sessions, queued files and failed starts.
StopTerminates ==
    []<>(\A c \in Clients : conn[c] # "session") => ((mstate = "stopping") ~> (mstate = "stopped"))

\* What agent/wiring_main.md promises of the stop order: no session is served after the
\* storage below it stopped.  The accept loop adds a connection it holds after Wait returned.
DrainedBeforeStorage == ~late

\* Server.Start "begins listening": once Start returned and until Stop is called the
\* listener stays open.  The context that Start was given is cancelled when it returns.
ListensAfterStart ==
    ("server" \in running /\ \A p \in Callers : call[p].pc # "stopping") => ln = "open"

\* A Stop returns within its timeout whatever the clients do.
StopTimesOut == (mstate = "stopping") ~> (mstate = "stopped")
=============================================================================
