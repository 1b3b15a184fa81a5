--------------------------- MODULE RuntimeProofs ---------------------------
(* Start and stop order, the count of the connections and the vacuum manager,  *)
(* for every list of components, any number of callers, clients and workers,   *)
(* any limit and any queue size.                                               *)
EXTENDS Runtime, FiniteSetTheorems, TLAPS

N == Len(Registered)

\* The first n components, as a list and as a set.
First(n) == [k \in 1 .. n |-> Registered[k]]
Up(n) == {Registered[k] : k \in 1 .. n}

Prefixes == {First(n) : n \in 0 .. N}

CallType == [pc : {"idle", "starting", "return", "stopping"}, list : Prefixes, i : 0 .. N + 1]

Active(p) == call[p].pc \in {"starting", "stopping"}

\* One caller at most is starting or stopping components; how far it got says which of them
\* run.  The list of started components and every copy of it is a prefix of all.
LifecycleInv ==
    /\ mstate \in {"new", "starting", "started", "failed", "stopping", "stopped"}
    /\ call \in [Callers -> CallType]
    /\ startedComponents \in Prefixes
    /\ \E n \in 0 .. N : running = Up(n)
    /\ \A p, q \in Callers : Active(p) /\ Active(q) => p = q
    /\ \A p \in Callers : Active(p) => call[p].pc = mstate
    /\ \A p \in Callers : call[p].pc = "starting" =>
           /\ call[p].list = Registered /\ call[p].i \in 1 .. N + 1
           /\ startedComponents = First(call[p].i - 1) /\ running = Up(call[p].i - 1)
    /\ \A p \in Callers : call[p].pc = "stopping" =>
           call[p].i \in 0 .. Len(call[p].list) /\ running = Up(call[p].i)
    /\ mstate = "new" => running = {} /\ startedComponents = <<>>
    /\ mstate \in {"started", "failed"} => running = Up(Len(startedComponents))

---------------------------------------------------------------------------
(* Prefixes of the list of components.                                        *)

LEMMA Lengths == N \in Nat \ {0} /\ DOMAIN Registered = 1 .. N
  BY LifecycleAssumption DEF N

LEMMA FirstFacts ==
    /\ First(0) = <<>> /\ First(N) = Registered /\ Up(0) = {}
    /\ \A n \in 0 .. N : /\ First(n) \in Seq(STRING) /\ Len(First(n)) = n
                         /\ \A k \in 1 .. n : First(n)[k] = Registered[k]
  <1>1. First(0) = <<>> /\ Up(0) = {}
    BY DEF First, Up
  <1>2. First(N) = Registered
    BY Lengths, LifecycleAssumption DEF First
  <1>3. ASSUME NEW n \in 0 .. N
        PROVE  /\ First(n) \in Seq(STRING) /\ Len(First(n)) = n
               /\ \A k \in 1 .. n : First(n)[k] = Registered[k]
    BY Lengths, LifecycleAssumption DEF First
  <1>4. QED
    BY <1>1, <1>2, <1>3

LEMMA FirstGrows ==
    ASSUME NEW n \in 0 .. N, n < N
    PROVE  Append(First(n), Registered[n + 1]) = First(n + 1)
  <1>1. Registered[n + 1] \in STRING
    BY Lengths, LifecycleAssumption
  <1>2. First(n) \in Seq(STRING) /\ Len(First(n)) = n /\ First(n + 1) \in Seq(STRING) /\ Len(First(n + 1)) = n + 1
    BY FirstFacts, Lengths
  <1>3. \A k \in 1 .. n + 1 : Append(First(n), Registered[n + 1])[k] = First(n + 1)[k]
    BY <1>1, <1>2, Lengths DEF First
  <1>4. QED
    BY <1>1, <1>2, <1>3

LEMMA UpGrows ==
    ASSUME NEW n \in 0 .. N, n < N
    PROVE  /\ Up(n) \cup {Registered[n + 1]} = Up(n + 1)
           /\ Up(n + 1) \ {Registered[n + 1]} = Up(n)
           /\ Registered[n + 1] \notin Up(n)
  BY Lengths, LifecycleAssumption DEF Up, N

LEMMA IdleTyped == Idle \in CallType
  BY FirstFacts, Lengths DEF Idle, CallType, Prefixes

---------------------------------------------------------------------------
(* The steps of the lifecycle manager keep LifecycleInv.                       *)

LEMMA StartCallKeeps ==
    ASSUME LifecycleInv, NEW p \in Callers, StartCall(p) PROVE LifecycleInv'
  <1>1. call'[p] = [pc |-> "starting", list |-> Registered, i |-> 1]
        /\ \A q \in Callers : q # p => call'[q] = call[q]
    BY DEF LifecycleInv, StartCall
  <1>2. call' \in [Callers -> CallType]
    BY FirstFacts, Lengths DEF LifecycleInv, StartCall, CallType, Prefixes
  <1>3. running = Up(0) /\ startedComponents = First(0)
    BY FirstFacts, Zenon DEF LifecycleInv, StartCall
  <1>4. \A q \in Callers : ~Active(q)
    BY DEF LifecycleInv, StartCall, Active
  <1>5. QED
    BY <1>1, <1>2, <1>3, <1>4, Lengths DEF LifecycleInv, StartCall, Active

LEMMA StartedKeeps ==
    ASSUME LifecycleInv, NEW p \in Callers, ComponentStarted(p) PROVE LifecycleInv'
  <1> DEFINE n == call[p].i - 1
  <1>0. call[p].pc = "starting" /\ call[p].i <= Len(call[p].list)
    BY DEF ComponentStarted, Starts
  <1>1. /\ call[p].pc = "starting" /\ call[p].list = Registered /\ n \in 0 .. N /\ n < N
        /\ startedComponents = First(n) /\ running = Up(n) /\ Current(p) = Registered[n + 1]
    BY <1>0, Lengths DEF LifecycleInv, Current, N
  <1>2. startedComponents' = First(n + 1) /\ running' = Up(n + 1)
    BY <1>1, FirstGrows, UpGrows DEF ComponentStarted
  <1>3. /\ call'[p].pc = "starting" /\ call'[p].list = Registered /\ call'[p].i = n + 2
        /\ \A q \in Callers : q # p => call'[q] = call[q]
    BY <1>1 DEF LifecycleInv, ComponentStarted, CallType
  <1>4. call' \in [Callers -> CallType]
    BY <1>1, Lengths DEF LifecycleInv, ComponentStarted, CallType
  <1>5. startedComponents' \in Prefixes /\ \E m \in 0 .. N : running' = Up(m)
    BY <1>1, <1>2, Lengths DEF Prefixes
  <1>6. \A q \in Callers : Active(q) => q = p
    BY <1>1 DEF LifecycleInv, Active
  <1>7. mstate' = mstate /\ mstate = "starting"
    BY <1>1 DEF LifecycleInv, Active, ComponentStarted
  <1>8. \A q \in Callers : Active(q)' => q = p
    BY <1>3, <1>6 DEF Active
  <1>9. \A q \in Callers : q # p => call'[q].pc \notin {"starting", "stopping"}
    BY <1>8 DEF Active
  <1>10. call'[p].i \in 1 .. N + 1 /\ call'[p].i - 1 = n + 1
    BY <1>1, <1>3, Lengths
  <1>11. /\ call'[p].i \in 1 .. N + 1 /\ startedComponents' = First(call'[p].i - 1)
         /\ running' = Up(call'[p].i - 1)
    BY <1>2, <1>10, Zenon
  <1>12. QED
    BY <1>3, <1>4, <1>5, <1>7, <1>8, <1>9, <1>11, Zenon DEF LifecycleInv, Active

LEMMA StartEndsKeeps ==
    ASSUME LifecycleInv, NEW p \in Callers, ComponentFails(p) \/ StartDone(p) PROVE LifecycleInv'
  <1> DEFINE n == call[p].i - 1
  <1>1. /\ call[p].pc = "starting" /\ n \in 0 .. N /\ startedComponents = First(n) /\ running = Up(n)
    BY Lengths DEF LifecycleInv, ComponentFails, StartDone, Starts
  <1>2. running = Up(Len(startedComponents))
    BY <1>1, FirstFacts
  <1>3. call'[p].pc = "return" /\ \A q \in Callers : q # p => call'[q] = call[q]
    BY DEF LifecycleInv, ComponentFails, StartDone, CallType
  <1>4. call' \in [Callers -> CallType]
    BY DEF LifecycleInv, ComponentFails, StartDone, CallType
  <1>5. \A q \in Callers : Active(q) => q = p
    BY <1>1 DEF LifecycleInv, Active
  <1>6. mstate' \in {"started", "failed"} /\ UNCHANGED <<startedComponents, running>>
    BY DEF ComponentFails, StartDone
  <1>7. QED
    BY <1>2, <1>3, <1>4, <1>5, <1>6, Zenon DEF LifecycleInv, Active

LEMMA StopNewKeeps ==
    ASSUME LifecycleInv, NEW p \in Callers, StopNew(p) PROVE LifecycleInv'
  BY DEF LifecycleInv, StopNew, Active

LEMMA StopCallKeeps ==
    ASSUME LifecycleInv, NEW p \in Callers, StopCall(p) PROVE LifecycleInv'
  <1>1. PICK n \in 0 .. N : startedComponents = First(n)
    BY DEF LifecycleInv, Prefixes
  <1>2. Len(startedComponents) = n /\ running = Up(n)
    BY <1>1, FirstFacts DEF LifecycleInv, StopCall
  <1>3. /\ call'[p] = [pc |-> "stopping", list |-> startedComponents, i |-> n]
        /\ \A q \in Callers : q # p => call'[q] = call[q]
    BY <1>2 DEF LifecycleInv, StopCall
  <1>4. call' \in [Callers -> CallType]
    BY <1>2, Lengths DEF LifecycleInv, StopCall, CallType
  <1>5. startedComponents' \in Prefixes
    BY FirstFacts, Lengths DEF StopCall, Prefixes
  <1>6. \A q \in Callers : ~Active(q)
    BY DEF LifecycleInv, StopCall, Active
  <1>7. QED
    BY <1>2, <1>3, <1>4, <1>5, <1>6, Lengths DEF LifecycleInv, StopCall, Active

LEMMA StoppedKeeps ==
    ASSUME LifecycleInv, NEW p \in Callers, ComponentStopped(p) PROVE LifecycleInv'
  <1> DEFINE n == call[p].i - 1
  <1>1. PICK m \in 0 .. N : call[p].list = First(m)
    BY DEF LifecycleInv, CallType, Prefixes
  <1>2. /\ call[p].pc = "stopping" /\ n \in 0 .. m /\ n < m /\ running = Up(n + 1)
        /\ Current(p) = Registered[n + 1]
    BY <1>1, FirstFacts, Lengths DEF LifecycleInv, ComponentStopped, Stops, Current, CallType
  <1>3. running' = Up(n)
    <2>1. n \in 0 .. N /\ n < N
      BY <1>2, Lengths
    <2>2. Up(n + 1) \ {Registered[n + 1]} = Up(n)
      BY <2>1, UpGrows
    <2>3. QED
      BY <1>2, <2>2 DEF ComponentStopped
  <1>4. /\ call'[p].pc = "stopping" /\ call'[p].list = First(m) /\ call'[p].i = n
        /\ \A q \in Callers : q # p => call'[q] = call[q]
    BY <1>1, <1>2 DEF LifecycleInv, ComponentStopped, CallType
  <1>5. call' \in [Callers -> CallType]
    BY <1>2, Lengths DEF LifecycleInv, ComponentStopped, CallType
  <1>6. n \in 0 .. Len(First(m)) /\ \E k \in 0 .. N : running' = Up(k)
    BY <1>2, <1>3, FirstFacts, Lengths
  <1>7. \A q \in Callers : Active(q) => q = p
    BY <1>2 DEF LifecycleInv, Active
  <1>8. mstate' = "stopping" /\ startedComponents' = startedComponents
    BY <1>2 DEF LifecycleInv, Active, ComponentStopped
  <1>9. QED
    BY <1>2, <1>3, <1>4, <1>5, <1>6, <1>7, <1>8, Zenon DEF LifecycleInv, Active

LEMMA StopDoneKeeps ==
    ASSUME LifecycleInv, NEW p \in Callers, StopDone(p) PROVE LifecycleInv'
  <1>1. call[p].pc = "stopping" /\ running = Up(0)
    BY DEF LifecycleInv, StopDone
  <1>2. call'[p] = Idle /\ \A q \in Callers : q # p => call'[q] = call[q]
    BY DEF LifecycleInv, StopDone
  <1>3. call' \in [Callers -> CallType]
    BY IdleTyped DEF LifecycleInv, StopDone
  <1>4. \A q \in Callers : Active(q) => q = p
    BY <1>1 DEF LifecycleInv, Active
  <1>5. QED
    BY <1>1, <1>2, <1>3, <1>4, Lengths DEF LifecycleInv, Active, StopDone, Idle

LEMMA ReturnKeeps ==
    ASSUME LifecycleInv, NEW p \in Callers, call[p].pc = "return",
           call' = [call EXCEPT ![p] = Idle], UNCHANGED <<mstate, startedComponents, running>>
    PROVE  LifecycleInv'
  <1>1. call'[p] = Idle /\ \A q \in Callers : q # p => call'[q] = call[q]
    BY DEF LifecycleInv
  <1>2. call' \in [Callers -> CallType]
    BY IdleTyped DEF LifecycleInv
  <1>3. QED
    BY <1>1, <1>2 DEF LifecycleInv, Active, Idle

LEMMA SameKeeps ==
    ASSUME LifecycleInv, UNCHANGED lifecycleVars PROVE LifecycleInv'
  BY DEF LifecycleInv, Active, lifecycleVars

LEMMA LifecycleInvInit == Init => LifecycleInv
  <1> SUFFICES ASSUME Init PROVE LifecycleInv
    OBVIOUS
  <1>1. call \in [Callers -> CallType] /\ \A p \in Callers : call[p].pc = "idle"
    BY IdleTyped DEF Init, LifecycleInit, Idle
  <1>2. startedComponents \in Prefixes /\ running = Up(0)
    BY FirstFacts, Lengths DEF Init, LifecycleInit, Prefixes
  <1>3. QED
    BY <1>1, <1>2, Lengths DEF Init, LifecycleInit, LifecycleInv, Active

LEMMA LifecycleInvNext == LifecycleInv /\ [Next]_vars => LifecycleInv'
  <1> SUFFICES ASSUME LifecycleInv, [Next]_vars PROVE LifecycleInv'
    OBVIOUS
  <1>1. ASSUME NEW p \in Callers, Calling(p) PROVE LifecycleInv'
    BY <1>1, StartCallKeeps, StartedKeeps, StartEndsKeeps, StopNewKeeps, StopCallKeeps,
       StoppedKeeps, StopDoneKeeps, ReturnKeeps, SameKeeps
       DEF Calling, StartComponent, StartFails, StartReturn, StopBegin, StopReturns
  <1>2. CASE UNCHANGED lifecycleVars
    BY <1>2, SameKeeps
  <1>3. QED
    BY <1>1, <1>2 DEF Next, StartupExpires, Serving, Vacuuming, Statement, vars

LEMMA LifecycleInvariant == Spec => []LifecycleInv
  BY LifecycleInvInit, LifecycleInvNext, PTL DEF Spec

\* At every moment the components that run are the first ones of the registration order,
\* for every list of components, whatever starts fail and however the calls of Start and
\* Stop of any number of goroutines interleave.
THEOREM StopOrder == Spec => []PrefixRunning
  <1>1. LifecycleInv => PrefixRunning
    <2> SUFFICES ASSUME LifecycleInv, NEW j \in 1 .. Len(Registered), Registered[j] \in running,
                        NEW i \in 1 .. j
                 PROVE  Registered[i] \in running
      BY DEF PrefixRunning
    <2>1. PICK n \in 0 .. N : running = Up(n)
      BY DEF LifecycleInv
    <2>2. j <= n
      BY <2>1, Lengths, LifecycleAssumption DEF Up, N
    <2>3. QED
      BY <2>1, <2>2, Lengths DEF Up
  <1>2. QED
    BY <1>1, LifecycleInvariant, PTL

---------------------------------------------------------------------------
(* The throttle.                                                              *)

\* The accept loop holds one connection at most, and only between Accept and the start of its
\* session.  The loop runs only once the lifecycle manager has started the server, and it
\* starts no component twice.
ServerInv ==
    /\ conn \in [Clients -> {"away", "backlog", "held", "session", "over", "released"}]
    /\ loop \in {"none", "accept", "acquire", "add", "refuse", "exited"}
    /\ \A c \in Clients : conn[c] = "held" => loop \in {"acquire", "add", "refuse"}
    /\ \A c, d \in Clients : conn[c] = "held" /\ conn[d] = "held" => c = d
    /\ loop # "none" => mstate # "new" /\ \A p \in Callers : call[p].pc = "starting" => "server" \in running

ThrottleInv ==
    /\ throttle = Cardinality(Holding)
    /\ throttle <= MaxConnections + (IF loop = "refuse" THEN 1 ELSE 0)

LEMMA HoldingFinite == IsFiniteSet(Holding) /\ Cardinality(Holding) \in Nat
  <1>1. IsFiniteSet(Holding)
    BY ServerAssumption, FS_Subset DEF Holding
  <1>2. QED
    BY <1>1, FS_CardinalityType

\* The steps of the accept loop, the sessions and Stop.
LEMMA ServingKeeps ==
    ASSUME MaxConnections > 0, ServerInv, ThrottleInv, UNCHANGED lifecycleVars,
           \/ Watch \/ Looping \/ ServerStopBegin \/ ServerStopReturn
           \/ \E c \in Clients : Dial(c) \/ Leave(c) \/ Ending(c)
    PROVE  ServerInv' /\ ThrottleInv'
  <1>0. UNCHANGED <<mstate, call, running>>
    BY DEF lifecycleVars
  <1> USE DEF ServerInv, Holding
  <1>1. CASE Watch \/ ServerStopBegin \/ ServerStopReturn
    <2>1. /\ ServerInv' /\ Holding' = Holding /\ throttle' = throttle
          /\ (loop' = "refuse") <=> (loop = "refuse")
      BY <1>0, <1>1 DEF Watch, ServerStopBegin, ServerStopReturn, CloseListener
    <2>2. QED
      BY <2>1 DEF ThrottleInv
  <1>2. CASE AcceptFails
    <2>1. /\ ServerInv' /\ Holding' = Holding /\ throttle' = throttle
          /\ (loop' = "refuse") <=> (loop = "refuse")
      BY <1>0, <1>2 DEF AcceptFails
    <2>2. QED
      BY <2>1 DEF ThrottleInv
  <1>3. ASSUME NEW c \in Clients, Accept(c) \/ AddSession(c) \/ Dial(c) \/ Leave(c) \/ Done(c)
        PROVE  ServerInv' /\ ThrottleInv'
    <2>1. /\ ServerInv' /\ Holding' = Holding /\ throttle' = throttle
          /\ (loop' = "refuse") <=> (loop = "refuse")
      BY <1>0, <1>3 DEF Accept, AddSession, Dial, Leave, Done
    <2>2. QED
      BY <2>1 DEF ThrottleInv
  <1>4. ASSUME NEW c \in Clients, TryAcquire(c) PROVE ServerInv' /\ ThrottleInv'
    <2>1. ServerInv' /\ loop' \in {"add", "refuse"}
      BY <1>0, <1>4 DEF TryAcquire
    <2>2. loop = "acquire" /\ conn' = conn /\ conn[c] = "held" /\ throttle' = throttle + 1
      BY <1>4 DEF TryAcquire
    <2>3. loop' = "refuse" \/ throttle' <= MaxConnections
      <3>1. loop' = IF throttle' > MaxConnections THEN "refuse" ELSE "add"
        BY <1>4 DEF TryAcquire
      <3>2. throttle' \in Nat
        BY <2>2, HoldingFinite DEF ThrottleInv
      <3>3. QED
        BY <3>1, <3>2, ServerAssumption
    <2>4. Holding' = Holding \cup {c} /\ c \notin Holding
      BY <2>1, <2>2
    <2> HIDE DEF Holding, ServerInv
    <2>5. Cardinality(Holding') = Cardinality(Holding) + 1
      BY <2>4, HoldingFinite, FS_AddElement
    <2>6. QED
      BY <2>1, <2>2, <2>3, <2>5, HoldingFinite, ServerAssumption DEF ThrottleInv
  <1>5. ASSUME NEW c \in Clients, Release(c) PROVE ServerInv' /\ ThrottleInv'
    <2>1. ServerInv' /\ Holding' = Holding \ {c} /\ c \in Holding /\ throttle' = throttle - 1
      BY <1>0, <1>5 DEF Release
    <2> HIDE DEF Holding, ServerInv
    <2>2. Cardinality(Holding') = Cardinality(Holding) - 1
      BY <2>1, HoldingFinite, FS_RemoveElement
    <2>3. QED
      BY <2>1, <2>2, HoldingFinite, ServerAssumption DEF ThrottleInv
  <1>6. ASSUME NEW c \in Clients, Refuse(c) PROVE ServerInv' /\ ThrottleInv'
    <2>1. ServerInv' /\ throttle' = throttle - 1 /\ loop = "refuse" /\ loop' = "accept"
      BY <1>0, <1>6 DEF Refuse
    <2>2. Holding' = Holding \ {c} /\ c \in Holding
      BY <1>6 DEF Refuse
    <2> HIDE DEF Holding, ServerInv
    <2>3. Cardinality(Holding') = Cardinality(Holding) - 1
      BY <2>2, HoldingFinite, FS_RemoveElement
    <2>4. QED
      BY <2>1, <2>3, HoldingFinite, ServerAssumption DEF ThrottleInv
  <1>7. QED
    BY <1>1, <1>2, <1>3, <1>4, <1>5, <1>6 DEF Looping, Ending

\* A component that starts or stops; the server is started by the first loop only.
LEMMA StartComponentKeeps ==
    ASSUME LifecycleInv, ServerInv, ThrottleInv, NEW p \in Callers, StartComponent(p)
    PROVE  ServerInv' /\ ThrottleInv'
  <1> DEFINE n == call[p].i - 1
  <1>0. call[p].pc = "starting" /\ call[p].i <= Len(call[p].list)
    BY DEF StartComponent, ComponentStarted, Starts
  <1>1. /\ mstate = "starting" /\ n \in 0 .. N /\ n < N
        /\ running = Up(n) /\ Current(p) = Registered[n + 1]
    <2>1. mstate = "starting"
      BY <1>0 DEF LifecycleInv, Active
    <2>2. n \in 0 .. N /\ n < N /\ running = Up(n) /\ Current(p) = Registered[n + 1]
      BY <1>0, Lengths DEF LifecycleInv, Current, N
    <2>3. QED
      BY <2>1, <2>2
  <1>2. Current(p) \notin running
    BY <1>1, UpGrows
  <1>3. /\ running' = running \cup {Current(p)} /\ mstate' = mstate
        /\ \A q \in Callers : call'[q].pc = call[q].pc
    BY DEF StartComponent, ComponentStarted, LifecycleInv, CallType
  <1>4. CASE Current(p) = "server"
    <2>1. ServerStart
      BY <1>4 DEF StartComponent
    <2>2. loop = "none"
      BY <1>0, <1>2, <1>4 DEF ServerInv
    <2>3. /\ ServerInv' /\ Holding' = Holding /\ throttle' = throttle
          /\ (loop' = "refuse") <=> (loop = "refuse")
      BY <1>1, <1>3, <1>4, <2>1, <2>2 DEF ServerInv, ServerStart, Holding
    <2>4. QED
      BY <2>3 DEF ThrottleInv
  <1>5. CASE Current(p) # "server"
    <2>1. UNCHANGED <<conn, loop, throttle>>
      BY <1>5 DEF StartComponent, serverVars
    <2>2. QED
      BY <1>3, <2>1 DEF ServerInv, ThrottleInv, Holding
  <1>6. QED
    BY <1>4, <1>5

LEMMA OtherCallsKeep ==
    ASSUME LifecycleInv, ServerInv, ThrottleInv, NEW p \in Callers,
           \/ StartCall(p) \/ ComponentFails(p) \/ StartDone(p) \/ StopNew(p) \/ StopCall(p)
           \/ StopDone(p) \/ ComponentStopped(p) \/ StartReturn(p),
           UNCHANGED <<conn, loop, throttle>>
    PROVE  ServerInv' /\ ThrottleInv'
  <1>1. CASE StartCall(p)
    BY <1>1 DEF StartCall, ServerInv, ThrottleInv, Holding
  <1>2. CASE ComponentStopped(p)
    <2>1. \A q \in Callers : call[q].pc # "starting"
      BY <1>2 DEF ComponentStopped, Stops, LifecycleInv, Active
    <2>2. mstate' = mstate /\ \A q \in Callers : call'[q].pc = call[q].pc
      BY <1>2 DEF ComponentStopped, LifecycleInv, CallType
    <2>3. QED
      BY <2>1, <2>2 DEF ServerInv, ThrottleInv, Holding
  <1>3. CASE \/ ComponentFails(p) \/ StartDone(p) \/ StopNew(p) \/ StopCall(p) \/ StopDone(p)
             \/ StartReturn(p)
    <2>1. (mstate # "new" => mstate' # "new") /\ running' = running
      BY <1>3 DEF ComponentFails, StartDone, StopNew, StopCall, StopDone, StartReturn
    <2>2. CASE ComponentFails(p) \/ StartDone(p)
      <3>1. \A q \in Callers : call'[q].pc = "starting" => call[q].pc = "starting"
        BY <2>2 DEF ComponentFails, StartDone, LifecycleInv, CallType
      <3>2. QED
        BY <2>1, <3>1 DEF ServerInv, ThrottleInv, Holding
    <2>3. CASE StopNew(p) \/ StopCall(p) \/ StopDone(p) \/ StartReturn(p)
      <3>1. \A q \in Callers : call'[q].pc = "starting" => call[q].pc = "starting"
        <4>1. CASE StopNew(p)
          BY <4>1 DEF StopNew
        <4>2. CASE StopCall(p)
          BY <4>2 DEF StopCall, LifecycleInv
        <4>3. CASE StopDone(p)
          BY <4>3 DEF StopDone, LifecycleInv, Idle
        <4>4. CASE StartReturn(p)
          BY <4>4 DEF StartReturn, LifecycleInv, Idle
        <4>5. QED
          BY <2>3, <4>1, <4>2, <4>3, <4>4
      <3>2. QED
        BY <2>1, <3>1 DEF ServerInv, ThrottleInv, Holding
    <2>4. QED
      BY <1>3, <2>2, <2>3
  <1>4. QED
    BY <1>1, <1>2, <1>3

LEMMA ServerInvInit == MaxConnections > 0 /\ Init => ServerInv /\ ThrottleInv
  <1> SUFFICES ASSUME MaxConnections > 0, Init PROVE ServerInv /\ ThrottleInv
    OBVIOUS
  <1>1. ServerInv
    BY DEF Init, ServerInit, ServerInv
  <1>2. Holding = {} /\ throttle = 0
    BY DEF Init, ServerInit, Holding
  <1>3. QED
    BY <1>1, <1>2, FS_EmptySet, ServerAssumption DEF ThrottleInv

LEMMA ServerInvNext ==
    MaxConnections > 0 /\ LifecycleInv /\ ServerInv /\ ThrottleInv /\ [Next]_vars
        => ServerInv' /\ ThrottleInv'
  <1> SUFFICES ASSUME MaxConnections > 0, LifecycleInv, ServerInv, ThrottleInv, [Next]_vars
               PROVE  ServerInv' /\ ThrottleInv'
    OBVIOUS
  <1>1. CASE UNCHANGED <<lifecycleVars, conn, loop, throttle>>
    BY <1>1 DEF ServerInv, ThrottleInv, Holding, lifecycleVars
  <1>2. ASSUME NEW p \in Callers, Calling(p) PROVE ServerInv' /\ ThrottleInv'
    <2>1. CASE StartComponent(p)
      BY <2>1, StartComponentKeeps
    <2>2. CASE StopBegin(p)
      <3>1. UNCHANGED lifecycleVars /\ (ServerStopBegin \/ UNCHANGED serverVars)
        BY <2>2 DEF StopBegin
      <3>2. QED
        BY <3>1, <1>1, ServingKeeps DEF serverVars
    <2>3. CASE StopReturns(p)
      <3>1. ComponentStopped(p) /\ UNCHANGED <<conn, loop, throttle>>
        BY <2>3 DEF StopReturns, ServerStopReturn, serverVars
      <3>2. QED
        BY <3>1, OtherCallsKeep
    <2>4. CASE Calling(p) /\ ~StartComponent(p) /\ ~StopBegin(p) /\ ~StopReturns(p)
      <3>1. \/ StartCall(p) \/ ComponentFails(p) \/ StartDone(p) \/ StopNew(p) \/ StopCall(p)
            \/ StopDone(p) \/ StartReturn(p)
        BY <2>4 DEF Calling, StartFails
      <3>2. UNCHANGED <<conn, loop, throttle>>
        BY <2>4 DEF Calling, StartFails, StartReturn, serverVars
      <3>3. QED
        BY <3>1, <3>2, OtherCallsKeep
    <2>5. QED
      BY <1>2, <2>1, <2>2, <2>3, <2>4
  <1>3. CASE Serving(Watch) \/ Serving(Looping)
             \/ \E c \in Clients : Serving(Dial(c) \/ Leave(c) \/ Ending(c))
    BY <1>3, ServingKeeps DEF Serving
  <1>4. CASE StartupExpires \/ (\E c \in Clients, r \in Requests : Statement(c, r))
             \/ (\E w \in Workers : Vacuuming(w)) \/ UNCHANGED vars
    BY <1>1, <1>4 DEF StartupExpires, Statement, Vacuuming, vars, serverVars
  <1>5. QED
    BY <1>2, <1>3, <1>4 DEF Next

\* With a limit of one or more, the throttle counts exactly the connections that hold a place
\* and never exceeds the limit but by the connection being refused, for any number of clients,
\* through refusals, hang-ups, failed starts and concurrent calls of Start and Stop.
THEOREM ThrottleCounts == ASSUME MaxConnections > 0 PROVE Spec => []ThrottleExact
  <1>1. Init => ServerInv /\ ThrottleInv
    BY ServerInvInit
  <1>2. LifecycleInv /\ ServerInv /\ ThrottleInv /\ [Next]_vars => (ServerInv /\ ThrottleInv)'
    BY ServerInvNext
  <1>3. ThrottleInv => ThrottleExact
    BY DEF ThrottleInv, ThrottleExact
  <1>4. QED
    BY <1>1, <1>2, <1>3, LifecycleInvariant, PTL DEF Spec

---------------------------------------------------------------------------
(* The vacuum manager drains, for every number of workers and queue size.     *)

WorkerType ==
    [pc : {"none", "select", "remove", "count", "exited"}, draining : BOOLEAN,
     req : SUBSET Requests]

VacuumTypeOK ==
    /\ vstate \in {"new", "started", "stopped"} /\ stopClosed \in BOOLEAN
    /\ vstop \in {"none", "close", "wait", "nil", "timeout"}
    /\ pending \in Seq(Requests) /\ pendingCount \in Int
    /\ worker \in [Workers -> WorkerType]
    /\ accepted \subseteq Requests /\ processed \subseteq Requests

Busy == {w \in Workers : worker[w].pc \in {"remove", "count"}}

Queued(r) == \E i \in 1 .. Len(pending) : pending[i] = r
Taken(r) == \E w \in Workers : worker[w].pc = "remove" /\ worker[w].req = {r}

\* What is accepted is processed, queued or in the hands of a worker, and is counted
\* until then; a worker that has seen stopCh closed finds the queue empty for good.
VacuumInv ==
    /\ VacuumTypeOK
    /\ vstate = "stopped" <=> vstop # "none"
    /\ stopClosed => vstate = "stopped"
    /\ vstate = "new" => \A w \in Workers : worker[w].pc = "none"
    /\ \A w \in Workers : worker[w].draining => stopClosed
    /\ \A w \in Workers : worker[w].pc = "exited" => stopClosed /\ pending = <<>>
    /\ vstop = "nil" => WorkersDone
    /\ \A r \in accepted : r \in processed \/ Queued(r) \/ Taken(r)
    /\ pendingCount = Len(pending) + Cardinality(Busy)

---------------------------------------------------------------------------
(* Busy workers.                                                              *)

LEMMA BusyFinite == IsFiniteSet(Busy) /\ Cardinality(Busy) \in Nat
  <1>1. IsFiniteSet(Busy)
    BY VacuumAssumption, FS_Subset DEF Busy
  <1>2. QED
    BY <1>1, FS_CardinalityType

LEMMA BusySame ==
    ASSUME \A w \in Workers : (worker'[w].pc \in {"remove", "count"})
                                 <=> (worker[w].pc \in {"remove", "count"})
    PROVE  Busy' = Busy
  BY DEF Busy

---------------------------------------------------------------------------
\* The invariant holds before Start.
LEMMA VacuumInvInit == VacuumInit => VacuumInv
  <1> SUFFICES ASSUME VacuumInit PROVE VacuumInv
    OBVIOUS
  <1>0. Asleep \in WorkerType
    BY DEF Asleep, WorkerType
  <1>1. VacuumTypeOK
    <2>1. worker \in [Workers -> WorkerType]
      BY <1>0 DEF VacuumInit
    <2>2. pending \in Seq(Requests) /\ pendingCount \in Int
      BY DEF VacuumInit
    <2>3. accepted \subseteq Requests /\ processed \subseteq Requests
      BY DEF VacuumInit
    <2>4. vstate = "new" /\ stopClosed = FALSE /\ vstop = "none"
      BY DEF VacuumInit
    <2>5. QED
      BY <2>1, <2>2, <2>3, <2>4, Zenon DEF VacuumTypeOK
  <1>2. Busy = {}
    BY DEF VacuumInit, Busy, Asleep
  <1>3. pendingCount = Len(pending) + Cardinality(Busy)
    BY <1>2, FS_EmptySet DEF VacuumInit
  <1>4. QED
    BY <1>1, <1>3 DEF VacuumInit, VacuumInv, Asleep

LEMMA StartKeeps == ASSUME VacuumInv, VacuumStart PROVE VacuumInv'
  <1>1. VacuumTypeOK'
    BY Zenon DEF VacuumInv, VacuumStart, VacuumTypeOK, WorkerType, Asleep
  <1>2. \A w \in Workers : worker[w].pc = "none" /\ worker'[w].pc = "select"
                           /\ worker'[w].draining = FALSE
    BY DEF VacuumInv, VacuumStart, Asleep
  <1>3. Busy' = Busy
    BY <1>2, BusySame
  <1>4. \A r \in accepted' : r \in processed' \/ Queued(r)' \/ Taken(r)'
    BY <1>2 DEF VacuumInv, VacuumStart, Queued, Taken
  <1>5. QED
    BY <1>1, <1>2, <1>3, <1>4, Zenon DEF VacuumInv, VacuumStart, WorkersDone, VacuumTypeOK

LEMMA ScheduleKeeps ==
    ASSUME VacuumInv, NEW r \in Requests, ScheduleDeletion(r) PROVE VacuumInv'
  <1>1. VacuumTypeOK'
    BY DEF VacuumInv, ScheduleDeletion, VacuumTypeOK
  <1>2. Busy' = Busy
    BY BusySame DEF ScheduleDeletion
  <1>3. Len(pending') = Len(pending) + 1 /\ pending'[Len(pending) + 1] = r
        /\ \A i \in 1 .. Len(pending) : pending'[i] = pending[i]
    BY DEF VacuumInv, VacuumTypeOK, ScheduleDeletion
  <1>4. \A s : Queued(s) => Queued(s)'
    BY <1>3 DEF Queued, VacuumInv, VacuumTypeOK
  <1>5. Queued(r)'
    BY <1>3 DEF Queued, VacuumInv, VacuumTypeOK
  <1>6. \A s \in accepted' : s \in processed' \/ Queued(s)' \/ Taken(s)'
    BY <1>4, <1>5 DEF VacuumInv, ScheduleDeletion, Taken
  <1>7. pendingCount' = Len(pending') + Cardinality(Busy')
    BY <1>2, <1>3, BusyFinite DEF VacuumInv, VacuumTypeOK, ScheduleDeletion
  <1>8. \A w \in Workers : worker[w].pc # "exited"
    BY DEF VacuumInv, ScheduleDeletion
  <1>9. QED
    BY <1>1, <1>6, <1>7, <1>8 DEF VacuumInv, ScheduleDeletion, WorkersDone

LEMMA ReceiveKeeps == ASSUME VacuumInv, NEW w \in Workers, Receive(w) PROVE VacuumInv'
  <1>0. [worker[w] EXCEPT !.pc = "remove", !.req = {Head(pending)}] \in WorkerType
    <2>1. Head(pending) \in Requests
      BY DEF VacuumInv, Receive, VacuumTypeOK
    <2>2. worker[w] \in WorkerType /\ {Head(pending)} \in SUBSET Requests
      BY <2>1 DEF VacuumInv, VacuumTypeOK
    <2>3. QED
      BY <2>2, Zenon DEF WorkerType
  <1>1. VacuumTypeOK'
    BY <1>0 DEF VacuumInv, Receive, VacuumTypeOK
  <1>2. Len(pending') = Len(pending) - 1 /\ Len(pending) > 0
        /\ \A i \in 1 .. Len(pending) - 1 : pending'[i] = pending[i + 1]
    BY DEF VacuumInv, VacuumTypeOK, Receive
  <1>h. PICK h : h = pending[1]
    OBVIOUS
  <1>3. worker'[w].pc = "remove" /\ worker'[w].req = {h}
        /\ worker'[w].draining = worker[w].draining
        /\ \A v \in Workers \ {w} : worker'[v] = worker[v]
    BY <1>2, <1>h DEF VacuumInv, VacuumTypeOK, Receive, WorkerType
  <1>4. \A s : Queued(s) => Queued(s)' \/ s = h
    <2> SUFFICES ASSUME NEW s, Queued(s), s # h PROVE Queued(s)'
      OBVIOUS
    <2>1. PICK i \in 1 .. Len(pending) : pending[i] = s
      BY DEF Queued
    <2>2. i - 1 \in 1 .. Len(pending') /\ pending'[i - 1] = s
      BY <1>2, <1>h, <2>1 DEF VacuumInv, VacuumTypeOK
    <2>3. QED
      BY <2>2 DEF Queued
  <1>5. \A s : Taken(s) => Taken(s)'
    BY <1>3, Zenon DEF Taken, Receive
  <1>6. Taken(h)'
    BY <1>3 DEF Taken
  <1>7. \A s \in accepted' : s \in processed' \/ Queued(s)' \/ Taken(s)'
    BY <1>4, <1>5, <1>6 DEF VacuumInv, Receive
  <1>8. Busy' = Busy \cup {w} /\ w \notin Busy
    BY <1>3, Zenon DEF Busy, Receive
  <1>9. Cardinality(Busy') = Cardinality(Busy) + 1
    BY <1>8, BusyFinite, FS_AddElement
  <1>10. pendingCount' = Len(pending') + Cardinality(Busy')
    BY <1>2, <1>9, BusyFinite DEF VacuumInv, VacuumTypeOK, Receive
  <1>11. \A v \in Workers : worker'[v].pc # "exited"
    BY <1>3, Zenon DEF VacuumInv, Receive
  <1>12. QED
    BY <1>1, <1>3, <1>7, <1>10, <1>11 DEF VacuumInv, Receive, WorkersDone, VacuumTypeOK

LEMMA SeeStopKeeps == ASSUME VacuumInv, NEW w \in Workers, SeeStop(w) PROVE VacuumInv'
  <1>1. VacuumTypeOK'
    BY Zenon DEF VacuumInv, SeeStop, VacuumTypeOK, WorkerType
  <1>2. \A v \in Workers : worker'[v].pc = worker[v].pc /\ worker'[v].req = worker[v].req
                           /\ (worker'[v].draining => stopClosed)
    BY DEF VacuumInv, VacuumTypeOK, SeeStop, WorkerType
  <1>3. Busy' = Busy
    BY <1>2, BusySame
  <1>4. \A r \in accepted' : r \in processed' \/ Queued(r)' \/ Taken(r)'
    BY <1>2 DEF VacuumInv, SeeStop, Queued, Taken
  <1>5. QED
    BY <1>1, <1>2, <1>3, <1>4 DEF VacuumInv, SeeStop, WorkersDone

LEMMA ExitKeeps == ASSUME VacuumInv, NEW w \in Workers, Exit(w) PROVE VacuumInv'
  <1>1. VacuumTypeOK'
    BY DEF VacuumInv, Exit, VacuumTypeOK, WorkerType
  <1>2. worker'[w].pc = "exited" /\ worker'[w].draining = worker[w].draining
        /\ \A v \in Workers \ {w} : worker'[v] = worker[v]
    BY Zenon DEF VacuumInv, VacuumTypeOK, Exit, WorkerType
  <1>3. Busy' = Busy
    BY <1>2, BusySame DEF Exit
  <1>4. \A r \in accepted' : r \in processed' \/ Queued(r)' \/ Taken(r)'
    BY <1>2 DEF VacuumInv, Exit, Queued, Taken
  <1>5. QED
    BY <1>1, <1>2, <1>3, <1>4 DEF VacuumInv, Exit, WorkersDone

LEMMA RemoveKeeps == ASSUME VacuumInv, NEW w \in Workers, Remove(w) PROVE VacuumInv'
  <1>1. VacuumTypeOK'
    BY DEF VacuumInv, Remove, VacuumTypeOK, WorkerType
  <1>2. worker'[w].pc = "count" /\ worker'[w].draining = worker[w].draining
        /\ \A v \in Workers \ {w} : worker'[v] = worker[v]
    BY DEF VacuumInv, VacuumTypeOK, Remove, WorkerType
  <1>3. Busy' = Busy
    BY <1>2, BusySame DEF Remove
  <1>4. \A r : Taken(r) => Taken(r)' \/ r \in processed'
    BY <1>2 DEF Taken, Remove
  <1>5. \A r \in accepted' : r \in processed' \/ Queued(r)' \/ Taken(r)'
    BY <1>4 DEF VacuumInv, Remove, Queued
  <1>6. QED
    BY <1>1, <1>2, <1>3, <1>5 DEF VacuumInv, Remove, WorkersDone

LEMMA CountKeeps == ASSUME VacuumInv, NEW w \in Workers, Count(w) PROVE VacuumInv'
  <1>0. [worker[w] EXCEPT !.pc = "select", !.req = {}] \in WorkerType
    <2>1. worker[w] \in WorkerType /\ {} \in SUBSET Requests
      BY DEF VacuumInv, VacuumTypeOK
    <2>2. QED
      BY <2>1, Zenon DEF WorkerType
  <1>1. VacuumTypeOK'
    BY <1>0 DEF VacuumInv, Count, VacuumTypeOK
  <1>2. worker'[w].pc = "select" /\ worker'[w].draining = worker[w].draining
        /\ \A v \in Workers \ {w} : worker'[v] = worker[v]
    BY DEF VacuumInv, VacuumTypeOK, Count, WorkerType
  <1>3. Busy' = Busy \ {w} /\ w \in Busy
    BY <1>2, Zenon DEF Busy, Count
  <1>4. Cardinality(Busy') = Cardinality(Busy) - 1
    BY <1>3, BusyFinite, FS_RemoveElement
  <1>5. pendingCount' = Len(pending') + Cardinality(Busy')
    BY <1>4, BusyFinite DEF VacuumInv, VacuumTypeOK, Count
  <1>6. \A r \in accepted' : r \in processed' \/ Queued(r)' \/ Taken(r)'
    <2>1. \A r : Taken(r) => Taken(r)'
      BY <1>2, Zenon DEF Taken, Count
    <2>2. \A r : Queued(r) => Queued(r)'
      BY DEF Queued, Count
    <2>3. QED
      BY <2>1, <2>2 DEF VacuumInv, Count
  <1>7. QED
    BY <1>1, <1>2, <1>5, <1>6, Zenon DEF VacuumInv, Count, WorkersDone

---------------------------------------------------------------------------
\* Stop changes neither the workers nor the queue.
LEMMA StopKeeps ==
    ASSUME VacuumInv,
           VacuumStopBegin \/ CloseStopCh \/ VacuumStopReturn \/ VacuumStopTimeout
    PROVE  VacuumInv'
  <1> USE DEF VacuumStopBegin, CloseStopCh, VacuumStopReturn, VacuumStopTimeout
  <1>1. VacuumTypeOK'
    BY Zenon DEF VacuumInv, VacuumTypeOK
  <1>2. Busy' = Busy
    BY DEF Busy
  <1>3. \A r \in accepted' : r \in processed' \/ Queued(r)' \/ Taken(r)'
    BY Zenon DEF VacuumInv, Queued, Taken
  <1>4. QED
    BY <1>1, <1>2, <1>3 DEF VacuumInv, WorkersDone, VacuumTypeOK

LEMMA VacuumInvNext == VacuumInv /\ [VacuumNext]_vacuumVars => VacuumInv'
  <1> SUFFICES ASSUME VacuumInv, [VacuumNext]_vacuumVars PROVE VacuumInv'
    OBVIOUS
  <1>1. CASE VacuumNext
    BY <1>1, StartKeeps, ScheduleKeeps, ReceiveKeeps, SeeStopKeeps, ExitKeeps, RemoveKeeps,
       CountKeeps, StopKeeps DEF VacuumNext, Working
  <1>2. CASE UNCHANGED vacuumVars
    BY <1>2, Zenon DEF vacuumVars, VacuumInv, VacuumTypeOK, Busy, Queued, Taken, WorkersDone
  <1>3. QED
    BY <1>1, <1>2

LEMMA VacuumInvariant == VacuumSpec => []VacuumInv
  BY VacuumInvInit, VacuumInvNext, PTL DEF VacuumSpec

---------------------------------------------------------------------------
\* Stop drains: when it returns nil, every file whose deletion ScheduleDeletion accepted
\* was processed, whatever the number of workers and the size of the queue.
THEOREM Drains == VacuumSpec => []StopDrains
  <1>1. VacuumInv => StopDrains
    <2> SUFFICES ASSUME VacuumInv, vstop = "nil" PROVE accepted \subseteq processed
      BY DEF StopDrains
    <2>1. \A w \in Workers : worker[w].pc = "exited"
      BY DEF VacuumInv, WorkersDone
    <2>2. pending = <<>>
      BY <2>1, VacuumAssumption DEF VacuumInv
    <2>3. QED
      BY <2>1, <2>2 DEF VacuumInv, Queued, Taken
  <1>2. QED
    BY <1>1, VacuumInvariant, PTL

\* Drain may trust the counter: at zero os.Remove was called for all that was accepted.
THEOREM CountedOut == VacuumSpec => []DrainedAtZero
  <1>1. VacuumInv => DrainedAtZero
    <2> SUFFICES ASSUME VacuumInv, pendingCount = 0 PROVE accepted \subseteq processed
      BY DEF DrainedAtZero
    <2>1. Len(pending) = 0 /\ Cardinality(Busy) = 0
      BY BusyFinite DEF VacuumInv, VacuumTypeOK
    <2>2. Busy = {}
      BY <2>1, BusyFinite, FS_EmptySet
    <2>3. QED
      BY <2>1, <2>2 DEF VacuumInv, VacuumTypeOK, Busy, Queued, Taken
  <1>2. QED
    BY <1>1, VacuumInvariant, PTL

---------------------------------------------------------------------------
(* The vacuum manager inside the runtime.                                     *)

\* The lifecycle manager and the sessions use the vacuum manager as it expects: every step
\* of the runtime is one of its own, or leaves it alone.
LEMMA VacuumSteps == [Next]_vars => [VacuumNext]_vacuumVars
  <1> SUFFICES ASSUME [Next]_vars PROVE VacuumNext \/ UNCHANGED vacuumVars
    OBVIOUS
  <1>1. ASSUME NEW p \in Callers, Calling(p) PROVE VacuumNext \/ UNCHANGED vacuumVars
    <2>1. CASE StartComponent(p)
      BY <2>1 DEF StartComponent, VacuumNext
    <2>2. CASE StartFails(p) \/ StartReturn(p)
      BY <2>2 DEF StartFails, StartReturn
    <2>3. CASE StopBegin(p)
      BY <2>3 DEF StopBegin, VacuumNext
    <2>4. CASE StopReturns(p)
      BY <2>4 DEF StopReturns, VacuumNext
    <2>5. CASE UNCHANGED <<vacuumVars, serverVars, faults, late>>
      BY <2>5
    <2> QED
      BY <1>1, <2>1, <2>2, <2>3, <2>4, <2>5 DEF Calling
  <1>2. ASSUME NEW c \in Clients, NEW r \in Requests, Statement(c, r)
        PROVE  VacuumNext \/ UNCHANGED vacuumVars
    BY <1>2 DEF Statement, VacuumNext
  <1>3. ASSUME NEW w \in Workers, Vacuuming(w) PROVE VacuumNext
    BY <1>3 DEF Vacuuming, VacuumNext
  <1>4. CASE StartupExpires \/ UNCHANGED vars
    BY <1>4 DEF StartupExpires, vars
  <1> QED
    BY <1>1, <1>2, <1>3, <1>4 DEF Next, Serving

\* The runtime is an implementation of the vacuum manager.
THEOREM RuntimeVacuums == Spec => VacuumSpec
  <1>1. Init => VacuumInit
    BY DEF Init
  <1> QED
    BY <1>1, VacuumSteps, PTL DEF Spec, VacuumSpec

\* Whoever calls Start and Stop, and whatever the sessions do meanwhile: a Stop of the vacuum
\* manager that returned nil left no accepted file unprocessed.
THEOREM RuntimeDrains == Spec => []StopDrains
  BY RuntimeVacuums, Drains, PTL

\* So for the counter that Drain reads.
THEOREM RuntimeCountsOut == Spec => []DrainedAtZero
  BY RuntimeVacuums, CountedOut, PTL
=============================================================================
