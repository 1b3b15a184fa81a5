--------------------------- MODULE CatalogProofs ---------------------------
(* The transaction ids, the pending markers and the acknowledged tables of the *)
(* catalog, for any number of callers, calls and restarts and any database.    *)
EXTENDS Catalog, TLAPS, WellFoundedInduction

Fields == {"pc", "kind", "table", "user", "tx", "id", "row", "todo"}
WritingPcs == {"cascade", "main", "history", "audit", "apply"}

StoreShape ==
    /\ DOMAIN store = SysTables /\ \A t \in SysTables : DOMAIN store[t] = Ids
    /\ \A t \in SysTables, i \in Ids : store[t][i].tx \in Nat
OpShape ==
    /\ DOMAIN op = Callers
    /\ \A p \in Callers : DOMAIN op[p] = Fields /\ op[p].tx \in Nat

\* The inductive invariant: an operation that writes has stored its id, and stored
\* ids only grow.
TxInv ==
    /\ meta \in Nat /\ nextTxID \in Nat /\ StoreShape /\ OpShape
    /\ VersionsCovered /\ TxSerial
    /\ \A p \in Callers : Writing(p) => op[p].tx <= meta

\* An idle record has the fields of an operation and no transaction.
LEMMA IdleShape == DOMAIN Idle = Fields /\ Idle.tx = 0 /\ Idle.pc = "idle"
  BY DEF Idle, Fields

\* A step that replaces the operation of one caller by one that does not write yet.
LEMMA QuietStep ==
  ASSUME TxInv, NEW p \in Callers, NEW o,
         DOMAIN o = Fields, o.tx \in Nat, o.pc \notin WritingPcs,
         op' = [op EXCEPT ![p] = o], UNCHANGED disk, nextTxID' \in Nat
  PROVE  TxInv'
<1>1. \A q \in Callers : op'[q] = IF q = p THEN o ELSE op[q]
  BY DEF TxInv, OpShape
<1>2. OpShape' BY <1>1 DEF TxInv, OpShape
<1>3. \A q \in Callers : Writing(q)' => q # p /\ Writing(q) /\ op'[q] = op[q]
  BY <1>1 DEF Writing, WritingPcs
<1>4. TxSerial' BY <1>3 DEF TxInv, TxSerial
<1>5. \A q \in Callers : Writing(q)' => op'[q].tx <= meta'
  BY <1>3 DEF TxInv, disk
<1> QED BY <1>2, <1>4, <1>5 DEF TxInv, StoreShape, VersionsCovered, disk

\* A step of a caller that writes, under its own id or not at all.
LEMMA WriteStep ==
  ASSUME TxInv, NEW p \in Callers, Writing(p), NEW o,
         DOMAIN o = Fields, o.tx = op[p].tx, o.pc \in WritingPcs,
         op' = [op EXCEPT ![p] = o], UNCHANGED <<meta, nextTxID>>,
         \/ UNCHANGED store
         \/ \E t, i, row : Write(t, i, op[p].tx, row)
  PROVE  TxInv'
<1>1. \A q \in Callers : op'[q] = IF q = p THEN o ELSE op[q]
  BY DEF TxInv, OpShape
<1>2. OpShape' BY <1>1 DEF TxInv, OpShape
<1>3. \A q \in Callers : Writing(q)' => Writing(q) /\ op'[q].tx = op[q].tx
  BY <1>1 DEF Writing, WritingPcs
<1>4. TxSerial' BY <1>3 DEF TxInv, TxSerial
<1>5. \A q \in Callers : Writing(q)' => op'[q].tx <= meta'
  BY <1>3 DEF TxInv
<1>6. op[p].tx \in Nat /\ op[p].tx <= meta BY DEF TxInv, OpShape
<1>7. StoreShape' /\ VersionsCovered'
  <2>1. CASE UNCHANGED store BY <2>1 DEF TxInv, StoreShape, VersionsCovered
  <2>2. CASE \E t, i, row : Write(t, i, op[p].tx, row)
    <3>1. PICK t, i, row : Write(t, i, op[p].tx, row) BY <2>2
    <3>2. \A u \in SysTables, j \in Ids :
            store'[u][j] = IF u = t /\ j = i THEN [tx |-> op[p].tx, row |-> row] ELSE store[u][j]
      BY <3>1 DEF TxInv, StoreShape, Write
    <3>3. DOMAIN store' = SysTables /\ \A u \in SysTables : DOMAIN store'[u] = Ids
      BY <3>1 DEF TxInv, StoreShape, Write
    <3>4. \A u \in SysTables, j \in Ids : store'[u][j].tx \in Nat /\ store'[u][j].tx <= meta
      BY <3>2, <1>6 DEF TxInv, StoreShape, VersionsCovered
    <3> QED BY <3>3, <3>4 DEF StoreShape, VersionsCovered
  <2> QED BY <2>1, <2>2
<1> QED BY <1>2, <1>4, <1>5, <1>7 DEF TxInv

\* Reserving an id, and giving up.
LEMMA ReserveStep ==
  ASSUME TxInv, NEW p \in Callers, NEW o, DOMAIN o = Fields, Reserve(p, o)
  PROVE  TxInv'
<1> DEFINE r == [o EXCEPT !.pc = "meta", !.tx = nextTxID + 1]
<1>1. DOMAIN r = Fields /\ r.tx = nextTxID + 1 /\ r.pc = "meta" BY DEF Fields
<1>2. op' = [op EXCEPT ![p] = r] /\ UNCHANGED disk /\ nextTxID' = nextTxID + 1 BY DEF Reserve
<1>3. r.tx \in Nat /\ nextTxID' \in Nat BY <1>1, <1>2 DEF TxInv
<1>4. r.pc \notin WritingPcs BY <1>1 DEF WritingPcs
<1> HIDE DEF r
<1> QED BY <1>1, <1>2, <1>3, <1>4, QuietStep, Zenon

\* An operation that returns keeps TxInv.
LEMMA ReturnStep ==
  ASSUME TxInv, NEW p \in Callers, op' = [op EXCEPT ![p] = Idle], UNCHANGED <<disk, nextTxID>>
  PROVE  TxInv'
<1>1. Idle.tx \in Nat /\ Idle.pc \notin WritingPcs BY IdleShape DEF WritingPcs
<1> QED BY <1>1, IdleShape, QuietStep, Zenon DEF TxInv

\* A call starts with the fields of an operation and no transaction.
LEMMA CalledShape == ASSUME NEW c PROVE DOMAIN Called(c) = Fields /\ Called(c).tx = 0
  BY DEF Called, Idle, Fields

\* The first step of each operation, up to reserving its ids, keeps TxInv.
LEMMA CallingStep ==
  ASSUME TxInv, NEW p \in Callers, NEW c \in Calls,
         \/ CreateTable(p, c) \/ AllocateTableID(p, c) \/ DropTable(p, c)
         \/ CreateUser(p, c) \/ Authenticate(p, c) \/ CreateRole(p, c) \/ DropRole(p, c)
         \/ AssignRole(p, c) \/ RevokeRole(p, c) \/ Grant(p, c) \/ Revoke(p, c)
  PROVE  TxInv'
<1> DEFINE k == Called(c)
<1>k. DOMAIN k = Fields /\ k.tx = 0 BY CalledShape
<1> HIDE DEF k
<1>1. CASE CreateTable(p, c) \/ DropTable(p, c) \/ CreateUser(p, c) \/ CreateRole(p, c)
           \/ DropRole(p, c) \/ AssignRole(p, c) \/ RevokeRole(p, c) \/ Grant(p, c) \/ Revoke(p, c)
  <2>1. \E o : DOMAIN o = Fields /\ Reserve(p, o)
    <3>1. CASE CreateTable(p, c)
      BY <3>1, <1>k, DOMAIN [k EXCEPT !.table = c.table, !.row = <<c.table>>, !.id = cache.next["tables"]] = Fields DEF CreateTable, k
    <3>2. CASE DropTable(p, c)
      BY <3>2, <1>k, DOMAIN [k EXCEPT !.table = c.table, !.row = <<c.table>>, !.id = cache.tables[c.table]] = Fields DEF DropTable, k
    <3>3. CASE CreateUser(p, c)
      BY <3>3, <1>k, DOMAIN [k EXCEPT !.user = c.user, !.row = <<c.user, "bcrypt">>] = Fields DEF CreateUser, k
    <3>4. CASE CreateRole(p, c)
      BY <3>4, <1>k, DOMAIN [k EXCEPT !.row = <<c.role>>] = Fields DEF CreateRole, k
    <3>5. CASE DropRole(p, c)
      BY <3>5, <1>k, DOMAIN [k EXCEPT !.row = <<c.role>>, !.id = cache.roles[c.role]] = Fields DEF DropRole, k
    <3>6. CASE AssignRole(p, c)
      BY <3>6, <1>k, DOMAIN [k EXCEPT !.row = <<cache.users[c.user], cache.roles[c.role]>>] = Fields DEF AssignRole, k
    <3>7. CASE RevokeRole(p, c)
      BY <3>7, <1>k, \A a : DOMAIN [k EXCEPT !.row = <<cache.users[c.user], cache.roles[c.role]>>, !.id = a.id] = Fields, Zenon DEF RevokeRole, k
    <3>8. CASE Grant(p, c)
      BY <3>8, <1>k, DOMAIN [k EXCEPT !.row = GrantKey(c)] = Fields DEF Grant, k
    <3>9. CASE Revoke(p, c)
      BY <3>9, <1>k, \A g : DOMAIN [k EXCEPT !.row = g.row, !.id = g.id] = Fields, Zenon DEF Revoke, k
    <3> QED BY <1>1, <3>1, <3>2, <3>3, <3>4, <3>5, <3>6, <3>7, <3>8, <3>9
  <2> QED BY <2>1, ReserveStep
<1>2. CASE AllocateTableID(p, c)
  <2> DEFINE o == [k EXCEPT !.pc = "heap", !.row = <<c.table>>, !.id = cache.next["tables"]]
  <2>1. DOMAIN o = Fields /\ o.tx \in Nat /\ o.pc \notin WritingPcs BY <1>k DEF Fields, WritingPcs
  <2>2. op' = [op EXCEPT ![p] = o] /\ UNCHANGED <<disk, nextTxID>> BY <1>2 DEF AllocateTableID, k
  <2> HIDE DEF o
  <2> QED BY <2>1, <2>2, QuietStep, Zenon DEF TxInv
<1>3. CASE Authenticate(p, c)
  <2> DEFINE o == [k EXCEPT !.pc = "migrate", !.id = cache.users[c.user], !.row = <<c.user, "bcrypt">>]
  <2>1. DOMAIN o = Fields /\ o.tx \in Nat /\ o.pc \notin WritingPcs BY <1>k DEF Fields, WritingPcs
  <2>2. op' = [op EXCEPT ![p] = o] /\ UNCHANGED <<disk, nextTxID>> BY <1>3 DEF Authenticate, k, memory
  <2> HIDE DEF o
  <2> QED BY <2>1, <2>2, QuietStep, Zenon DEF TxInv
<1> QED BY <1>1, <1>2, <1>3

\* The meta row takes only ids above every id stored before.
LEMMA MetaStep ==
  ASSUME TxInv, NEW p \in Callers, NEW o, DOMAIN o = Fields, o.tx = op[p].tx,
         op' = [op EXCEPT ![p] = o], op[p].tx > meta, meta' = op[p].tx, UNCHANGED <<store, nextTxID>>
  PROVE  TxInv'
<1>1. \A q \in Callers : op'[q] = IF q = p THEN o ELSE op[q] BY DEF TxInv, OpShape
<1>2. OpShape' BY <1>1 DEF TxInv, OpShape
<1>3. op[p].tx \in Nat /\ meta \in Nat /\ meta' \in Nat /\ meta < meta' BY DEF TxInv, OpShape
<1>4. \A q \in Callers : q # p /\ Writing(q)' => Writing(q) /\ op'[q] = op[q] /\ op[q].tx < meta'
  BY <1>1, <1>3 DEF Writing, TxInv, OpShape
<1>5. op'[p].tx = meta' BY <1>1
<1>6. TxSerial'
  <2> SUFFICES ASSUME NEW q \in Callers, NEW r \in Callers, q # r, Writing(q)', Writing(r)'
               PROVE  op'[q].tx # op'[r].tx
    BY DEF TxSerial
  <2>1. CASE q # p /\ r # p BY <2>1, <1>4 DEF TxInv, TxSerial
  <2>2. CASE q = p BY <2>2, <1>3, <1>4, <1>5 DEF TxInv, OpShape
  <2>3. CASE r = p BY <2>3, <1>3, <1>4, <1>5 DEF TxInv, OpShape
  <2> QED BY <2>1, <2>2, <2>3
<1>7. \A q \in Callers : Writing(q)' => op'[q].tx <= meta'
  BY <1>3, <1>4, <1>5 DEF TxInv, OpShape
<1>8. StoreShape' /\ VersionsCovered' BY <1>3 DEF TxInv, StoreShape, VersionsCovered
<1> QED BY <1>2, <1>3, <1>6, <1>7, <1>8 DEF TxInv

\* Returning an error keeps TxInv: nothing is written.
LEMMA FailStep == ASSUME TxInv, NEW p \in Callers, Fail(p) PROVE TxInv'
  BY ReturnStep, Zenon DEF Fail

\* The writes of an operation keep TxInv: WriteMeta is the step that takes the id.
LEMMA WorkingStep == ASSUME TxInv, NEW p \in Callers, Working(p) PROVE TxInv'
<1> DEFINE o == op[p]
<1>o. DOMAIN o = Fields /\ o.tx \in Nat BY DEF TxInv, OpShape
<1>1. CASE CreateTableHeap(p)
  <2>1. CASE op[p].id \in heaps BY <1>1, <2>1, ReturnStep DEF CreateTableHeap
  <2>2. CASE op[p].id \notin heaps
    <3> DEFINE n == [o EXCEPT !.pc = "register"]
    <3>1. DOMAIN n = Fields /\ n.tx \in Nat /\ n.pc \notin WritingPcs BY <1>o DEF Fields, WritingPcs
    <3>2. op' = [op EXCEPT ![p] = n] /\ UNCHANGED <<disk, nextTxID>> BY <1>1, <2>2 DEF CreateTableHeap, Goto
    <3> HIDE DEF n
    <3> QED BY <3>1, <3>2, QuietStep, Zenon DEF TxInv
  <2> QED BY <2>1, <2>2
<1>2. CASE RegisterTable(p)
  <2> DEFINE n == [op[p] EXCEPT !.table = op[p].row[1]]
  <2>1. DOMAIN n = Fields BY <1>o DEF Fields
  <2>2. \/ Reserve(p, n)
        \/ op' = [op EXCEPT ![p] = Idle] /\ UNCHANGED <<disk, nextTxID>>
    BY <1>2 DEF RegisterTable, memory
  <2> HIDE DEF n
  <2> QED BY <2>1, <2>2, ReserveStep, ReturnStep
<1>3. CASE MigrateLegacyPassword(p)
  <2> DEFINE n == [op[p] EXCEPT !.user = op[p].row[1]]
  <2>1. DOMAIN n = Fields BY <1>o DEF Fields
  <2>2. \/ Reserve(p, n)
        \/ op' = [op EXCEPT ![p] = Idle] /\ UNCHANGED <<disk, nextTxID>>
    BY <1>3 DEF MigrateLegacyPassword, memory
  <2> HIDE DEF n
  <2> QED BY <2>1, <2>2, ReserveStep, ReturnStep
<1>4. CASE WriteMeta(p)
  <2>1. CASE op[p].tx > meta
    <3> DEFINE n == [o EXCEPT !.pc = AfterMeta(o.kind)]
    <3>1. DOMAIN n = Fields /\ n.tx = op[p].tx BY <1>o DEF Fields
    <3>2. op' = [op EXCEPT ![p] = n] /\ meta' = op[p].tx /\ UNCHANGED <<store, nextTxID>>
      BY <1>4, <2>1, Zenon DEF WriteMeta, Goto, memory
    <3> HIDE DEF n
    <3> QED BY <2>1, <3>1, <3>2, MetaStep, Zenon
  <2>2. CASE ~(op[p].tx > meta) BY <1>4, <2>2, FailStep DEF WriteMeta
  <2> QED BY <2>1, <2>2
<1>5. CASE DeleteOrphan(p)
  <2>1. PICK w \in op[p].todo :
          /\ \/ Write(w[1], w[2], op[p].tx, Gone)
             \/ UNCHANGED store
          /\ op' = [op EXCEPT ![p].todo = @ \ {w}]
    BY <1>5, Zenon DEF DeleteOrphan
  <2> DEFINE n == [o EXCEPT !.todo = @ \ {w}]
  <2>2. DOMAIN n = Fields /\ n.tx = op[p].tx /\ n.pc = op[p].pc BY <1>o DEF Fields
  <2>3. op' = [op EXCEPT ![p] = n] /\ UNCHANGED <<meta, nextTxID>> BY <1>5, <2>1, Zenon DEF DeleteOrphan, memory
  <2>4. Writing(p) /\ n.pc \in WritingPcs BY <1>5, <2>2 DEF DeleteOrphan, At, Writing, WritingPcs
  <2> HIDE DEF n
  <2> QED BY <2>1, <2>2, <2>3, <2>4, WriteStep, Zenon
<1>6. CASE WriteMain(p)
  <2> DEFINE t == TableOf(o.kind)
             id == IF TakesNextId(o.kind) THEN cache.next[t] ELSE o.id
             row == IF Removes(o.kind) THEN Gone ELSE o.row
             n == [o EXCEPT !.pc = AfterMain(o.kind), !.id = id]
  <2>1. CASE Fail(p) BY <2>1, FailStep
  <2>2. CASE /\ Write(t, id, o.tx, row) /\ op' = [op EXCEPT ![p].pc = AfterMain(o.kind), ![p].id = id]
             /\ UNCHANGED <<meta, memory, history>>
    <3>1. DOMAIN n = Fields /\ n.tx = op[p].tx /\ n.pc = AfterMain(o.kind) BY <1>o DEF Fields
    <3>2. op' = [op EXCEPT ![p] = n] /\ UNCHANGED <<meta, nextTxID>> BY <2>2, Zenon DEF memory
    <3>3. Writing(p) BY <1>6 DEF WriteMain, At, Writing
    <3>4. n.pc \in WritingPcs BY <3>1 DEF AfterMain, WritingPcs
    <3>5. \E t_, i_, row_ : Write(t_, i_, op[p].tx, row_) BY <2>2
    <3> HIDE DEF n
    <3> QED BY <3>1, <3>2, <3>3, <3>4, <3>5, WriteStep, Zenon
  <2> QED BY <1>6, <2>1, <2>2 DEF WriteMain
<1>7. CASE WriteHistory(p)
  <2> DEFINE n == [o EXCEPT !.pc = "audit"]
  <2>1. CASE Fail(p) BY <2>1, FailStep
  <2>2. CASE /\ Write("history", cache.next["history"], o.tx, <<o.id>>) /\ Goto(p, "audit")
             /\ UNCHANGED <<meta, memory, history>>
    <3>1. DOMAIN n = Fields /\ n.tx = op[p].tx /\ n.pc \in WritingPcs BY <1>o DEF Fields, WritingPcs
    <3>2. op' = [op EXCEPT ![p] = n] /\ UNCHANGED <<meta, nextTxID>> BY <2>2 DEF memory, Goto
    <3>3. Writing(p) BY <1>7 DEF WriteHistory, At, Writing
    <3>4. \E t_, i_, row_ : Write(t_, i_, op[p].tx, row_) BY <2>2
    <3> HIDE DEF n
    <3> QED BY <3>1, <3>2, <3>3, <3>4, WriteStep, Zenon
  <2> QED BY <1>7, <2>1, <2>2, Zenon DEF WriteHistory
<1>8. CASE AuditLog(p)
  <2> DEFINE n == [o EXCEPT !.pc = "apply"]
  <2>1. CASE Fail(p) BY <2>1, FailStep
  <2>2. CASE /\ Write("audit", cache.next["audit"], o.tx, <<o.kind>>) /\ Goto(p, "apply")
             /\ UNCHANGED <<meta, memory, history>>
    <3>1. DOMAIN n = Fields /\ n.tx = op[p].tx /\ n.pc \in WritingPcs BY <1>o DEF Fields, WritingPcs
    <3>2. op' = [op EXCEPT ![p] = n] /\ UNCHANGED <<meta, nextTxID>> BY <2>2 DEF memory, Goto
    <3>3. Writing(p) BY <1>8 DEF AuditLog, At, Writing
    <3>4. \E t_, i_, row_ : Write(t_, i_, op[p].tx, row_) BY <2>2
    <3> HIDE DEF n
    <3> QED BY <3>1, <3>2, <3>3, <3>4, WriteStep, Zenon
  <2> QED BY <1>8, <2>1, <2>2, Zenon DEF AuditLog
<1>9. CASE Apply(p) BY <1>9, ReturnStep, Zenon DEF Apply
<1>10. CASE Cascade(p)
  <2> DEFINE n == [o EXCEPT !.pc = "main", !.todo = Orphans(o)]
  <2>1. DOMAIN n = Fields /\ n.tx = op[p].tx /\ n.pc \in WritingPcs BY <1>o DEF Fields, WritingPcs
  <2>2. op' = [op EXCEPT ![p] = n] /\ UNCHANGED <<store, meta, nextTxID>>
    BY <1>10, Zenon DEF Cascade, memory, disk
  <2>3. Writing(p) BY <1>10 DEF Cascade, At, Writing
  <2> HIDE DEF n
  <2> QED BY <2>1, <2>2, <2>3, WriteStep, Zenon
<1> QED BY <1>1, <1>2, <1>3, <1>4, <1>5, <1>6, <1>7, <1>8, <1>9, <1>10 DEF Working

\* A write that fails keeps TxInv.
LEMMA FaultStep == ASSUME TxInv, NEW p \in Callers, WriteFails(p) PROVE TxInv'
<1>1. CASE op' = [op EXCEPT ![p] = Idle]
  BY <1>1, ReturnStep, Zenon DEF WriteFails
<1>2. CASE \E w \in op[p].todo : op' = [op EXCEPT ![p].todo = @ \ {w}]
  <2>1. PICK w \in op[p].todo : op' = [op EXCEPT ![p].todo = @ \ {w}] BY <1>2, Zenon
  <2> DEFINE n == [op[p] EXCEPT !.todo = @ \ {w}]
  <2>2. DOMAIN n = Fields /\ n.tx = op[p].tx /\ n.pc = op[p].pc /\ n.tx \in Nat
    BY DEF Fields, TxInv, OpShape
  <2>3. op' = [op EXCEPT ![p] = n] /\ UNCHANGED <<disk, nextTxID>> BY <2>1 DEF WriteFails
  <2> HIDE DEF n
  <2>4. CASE op[p].pc = "meta" BY <2>2, <2>3, <2>4, QuietStep, Zenon DEF TxInv, WritingPcs
  <2>5. CASE op[p].pc # "meta"
    <3>1. Writing(p) /\ n.pc \in WritingPcs BY <2>2, <2>5 DEF WriteFails, Writing, WritingPcs
    <3> QED BY <2>2, <2>3, <3>1, WriteStep, Zenon DEF disk
  <2> QED BY <2>4, <2>5
<1> QED BY <1>1, <1>2 DEF WriteFails

\* A database opened for the first time satisfies TxInv.
LEMMA TxInit == Init => TxInv
<1> SUFFICES ASSUME Init PROVE TxInv OBVIOUS
<1>1. StoreShape /\ VersionsCovered /\ meta \in Nat
  <2>1. /\ InitMeta \in Nat /\ DOMAIN InitStore = SysTables /\ \A t \in SysTables : DOMAIN InitStore[t] = Ids
        /\ \A t \in SysTables, i \in Ids : InitStore[t][i].tx \in 0..InitMeta
    BY CatalogAssumption, Zenon
  <2> QED
    BY <2>1 DEF Init, StoreShape, VersionsCovered
<1>2. OpShape /\ \A p \in Callers : ~Writing(p)
  BY IdleShape DEF Init, OpShape, Writing
<1> QED BY <1>1, <1>2 DEF Init, TxInv, TxSerial

\* Every step keeps TxInv.
LEMMA TxNext == TxInv /\ [Next]_vars => TxInv'
<1> SUFFICES ASSUME TxInv, [Next]_vars PROVE TxInv' OBVIOUS
<1>1. CASE Starting
  <2> USE DEF Starting
  <2>0. UNCHANGED <<store, op>>
    BY <1>1 DEF Start, LoadMeta, LoadCache, StartFails, disk
  <2>1. meta' \in Nat /\ meta <= meta' /\ nextTxID' \in Nat
    BY <1>1 DEF Start, LoadMeta, LoadCache, StartFails, disk, TxInv
  <2>2. OpShape' /\ TxSerial' BY <2>0 DEF TxInv, OpShape, TxSerial, Writing
  <2>3. StoreShape' /\ VersionsCovered' BY <2>0, <2>1 DEF TxInv, StoreShape, VersionsCovered
  <2>4. \A p \in Callers : Writing(p)' => op'[p].tx <= meta'
    BY <2>0, <2>1 DEF TxInv, OpShape, Writing
  <2> QED BY <2>1, <2>2, <2>3, <2>4 DEF TxInv
<1>2. CASE Stop
  BY <1>2 DEF Stop, TxInv, StoreShape, OpShape, VersionsCovered, TxSerial, Writing, disk
<1>3. CASE Crash
  <2>1. OpShape' /\ \A p \in Callers : ~Writing(p)' BY <1>3, IdleShape DEF Crash, OpShape, Writing
  <2> QED BY <1>3, <2>1 DEF Crash, TxInv, StoreShape, VersionsCovered, TxSerial, disk
<1>4. CASE \E p \in Callers : Calling(p) BY <1>4, CallingStep DEF Calling
<1>5. CASE \E p \in Callers : Working(p) BY <1>5, WorkingStep
<1>6. CASE \E p \in Callers : WriteFails(p) BY <1>6, FaultStep
<1>7. CASE UNCHANGED vars
  BY <1>7 DEF vars, disk, memory, TxInv, StoreShape, OpShape, VersionsCovered, TxSerial, Writing
<1> QED BY <1>1, <1>2, <1>3, <1>4, <1>5, <1>6, <1>7 DEF Next

\* The meta row is written before any other row, so that the counter that loadCache
\* reads after a crash anywhere covers all that was stored.
THEOREM MetaFirst == Spec => []VersionsCovered
<1>1. TxInv => VersionsCovered BY DEF TxInv
<1> QED BY TxInit, TxNext, <1>1, PTL DEF Spec

\* No two operations write under one transaction id, whatever Stop and Start do to
\* the counter in memory: the version check of the meta row lets one of them through.
THEOREM TxSerialised == Spec => []TxSerial
<1>1. TxInv => TxSerial BY DEF TxInv
<1> QED BY TxInit, TxNext, <1>1, PTL DEF Spec
-----------------------------------------------------------------------------
(* The pending markers. *)

CacheFields == {"tables", "users", "roles", "legacy", "grants", "grantsByKey", "userRoles",
                "assignments", "pendingTables", "pendingUsers", "next"}
CacheShape == DOMAIN cache = CacheFields /\ DOMAIN cache.tables = TableNames

Kinds == Creations \cup {"DropTable", "CreateUser", "Migrate", "CreateRole", "DropRole",
                         "AssignRole", "RevokeRole", "Grant", "Revoke"}
FlyingPcs == {"meta"} \cup WritingPcs
GroundPcs == {"idle", "heap", "register", "migrate"}

\* What an operation carries at each of its steps.
OpOK(o) ==
    /\ DOMAIN o = Fields /\ o.pc \in GroundPcs \cup FlyingPcs
    /\ o.pc \in GroundPcs => o.table = "" /\ o.user = "" /\ o.todo = {}
    /\ o.pc \in {"heap", "register"} =>
         o.kind = "RegisterTable" /\ \E n \in TableNames : o.row = <<n>>
    /\ o.pc = "migrate" => o.kind = "Migrate"
    /\ o.pc \in FlyingPcs => /\ o.kind \in Kinds
                             /\ o.kind \in Creations => o.table \in TableNames /\ o.row = <<o.table>>
                             /\ o.kind = "DropTable" => o.table \in TableNames
    /\ \A w \in o.todo : w[1] # "tables"

Flying == {q \in Callers : InFlight(q)}

NoName == ""

\* The marks P are those of the operations in I, which T names, at most one for each name.
Exact(P, I, T) ==
    /\ \A x \in P : x # NoName /\ \E q \in I : T[q] = x
    /\ \A q \in I : T[q] \in P \/ T[q] = NoName
    /\ \A q, r \in I : q # r => T[q] # T[r] \/ T[q] = NoName

Tables == [q \in Callers |-> op[q].table]
Users == [q \in Callers |-> op[q].user]

MarkInv ==
    /\ CacheShape /\ DOMAIN op = Callers /\ \A p \in Callers : OpOK(op[p])
    /\ Exact(cache.pendingTables, Flying, Tables) /\ Exact(cache.pendingUsers, Flying, Users)
    /\ ~started => cache.pendingTables = {} /\ cache.pendingUsers = {}

\* Q is P with the mark of the name t, if there is one.
Marked(P, Q, t) == t \notin P /\ \A x : x \in Q <=> (x \in P \/ (x = t /\ x # NoName))

\* J is I with the operation p, which takes the names U gives where T gave the old ones.
Joined(I, J, T, U, p) == p \notin I /\ J = I \cup {p} /\ \A q \in I : U[q] = T[q]

\* reserveTx sets the mark of a name that has none.
LEMMA ExactEnter ==
  ASSUME NEW P, NEW I, NEW T, NEW U, Exact(P, I, T), NEW p, NEW t, U[p] = t,
         NEW Q, Marked(P, Q, t), NEW J, Joined(I, J, T, U, p)
  PROVE  Exact(Q, J, U)
<1> USE DEF Marked, Joined
<1>1. (\A x \in Q : x # NoName /\ \E q \in J : U[q] = x) /\ \A q \in J : U[q] \in Q \/ U[q] = NoName
  BY DEF Exact
<1>2. \A q, r \in I : q # r => U[q] # U[r] \/ U[q] = NoName
  BY DEF Exact
<1>3. \A r \in I : t # U[r] \/ t = NoName
  BY DEF Exact
<1>4. \A q, r \in J : q # r => U[q] # U[r] \/ U[q] = NoName
  BY <1>2, <1>3
<1> QED
  BY <1>1, <1>4 DEF Exact

\* The deferred call removes the mark of its own operation and no other.
LEMMA ExactLeave ==
  ASSUME NEW P, NEW I, NEW T, NEW U, Exact(P, I, T), NEW p \in I, \A q \in I \ {p} : U[q] = T[q]
  PROVE  Exact(P \ {T[p]}, I \ {p}, U)
  BY DEF Exact

\* Exactness is a matter of the names of the operations in flight and of nothing else.
LEMMA ExactSame ==
  ASSUME NEW P, NEW I, NEW T, NEW U, Exact(P, I, T), \A q \in I : U[q] = T[q]
  PROVE  Exact(P, I, U)
  BY DEF Exact

\* One operation goes on to its next step: it takes its marks, keeps what it has or gives
\* them back.
Enters(p, o) ==
    /\ ~InFlight(p) /\ o.pc \in FlyingPcs /\ started'
    /\ o.table \notin cache.pendingTables /\ o.user \notin cache.pendingUsers
    /\ cache'.pendingTables = cache.pendingTables \cup ({o.table} \ {""})
    /\ cache'.pendingUsers = cache.pendingUsers \cup ({o.user} \ {""})
Stays(p, o) ==
    /\ (o.pc \in FlyingPcs <=> InFlight(p)) /\ started' = started
    /\ o.table = op[p].table /\ o.user = op[p].user
    /\ cache'.pendingTables = cache.pendingTables /\ cache'.pendingUsers = cache.pendingUsers
Leaves(p, o) ==
    /\ InFlight(p) /\ o.pc \notin FlyingPcs /\ started' = started
    /\ cache'.pendingTables = cache.pendingTables \ {op[p].table}
    /\ cache'.pendingUsers = cache.pendingUsers \ {op[p].user}
Moves(p, o) ==
    /\ op' = [op EXCEPT ![p] = o] /\ OpOK(o) /\ CacheShape'
    /\ Enters(p, o) \/ Stays(p, o) \/ Leaves(p, o)

\* MarkInv is kept by a step that moves one operation and its own marker.
LEMMA MarkStep == ASSUME MarkInv, NEW p \in Callers, NEW o, Moves(p, o) PROVE MarkInv'
<1>1. /\ DOMAIN op' = Callers /\ op'[p] = o /\ \A q \in Callers : q # p => op'[q] = op[q]
  BY DEF MarkInv, Moves
<1>2. \A q \in Callers : OpOK(op'[q])
  BY <1>1 DEF MarkInv, Moves
<1>3. \A q \in Callers : InFlight(q) <=> op[q].pc \in FlyingPcs
  BY DEF InFlight, Writing, FlyingPcs, WritingPcs
<1>4. \A q \in Callers : InFlight(q)' <=> op'[q].pc \in FlyingPcs
  BY DEF InFlight, Writing, FlyingPcs, WritingPcs
<1>5. Flying' = {q \in Callers : op'[q].pc \in FlyingPcs} /\ Flying = {q \in Callers : op[q].pc \in FlyingPcs}
  BY <1>3, <1>4 DEF Flying
<1>6. /\ \A q \in Callers : q # p => Tables'[q] = Tables[q] /\ Users'[q] = Users[q]
      /\ Tables'[p] = o.table /\ Users'[p] = o.user
      /\ Tables[p] = op[p].table /\ Users[p] = op[p].user
  BY <1>1 DEF Tables, Users
<1>7. /\ Exact(cache.pendingTables, Flying, Tables) /\ Exact(cache.pendingUsers, Flying, Users)
      /\ Flying \subseteq Callers
  BY DEF MarkInv, Flying
<1>8. CASE Enters(p, o)
  <2>1. Flying' = Flying \cup {p} /\ p \notin Flying
    <3>1. \A q \in Callers : op'[q].pc \in FlyingPcs <=> op[q].pc \in FlyingPcs \/ q = p
      BY <1>1, <1>8, Zenon DEF Enters
    <3> QED
      BY <1>3, <1>5, <1>8, <3>1, Zenon DEF Enters
  <2>2. \A q \in Flying : Tables'[q] = Tables[q] /\ Users'[q] = Users[q]
    BY <1>6, <1>7, <2>1
  <2>3. Joined(Flying, Flying', Tables, Tables', p) /\ Joined(Flying, Flying', Users, Users', p)
    BY <2>1, <2>2 DEF Joined
  <2>4. /\ Marked(cache.pendingTables, cache'.pendingTables, o.table)
        /\ Marked(cache.pendingUsers, cache'.pendingUsers, o.user)
    BY <1>8, Zenon DEF Marked, NoName, Enters
  <2>5. Exact(cache'.pendingTables, Flying', Tables')
    BY <1>6, <1>7, <2>3, <2>4, ExactEnter
  <2>6. Exact(cache'.pendingUsers, Flying', Users')
    BY <1>6, <1>7, <2>3, <2>4, ExactEnter
  <2> QED
    BY <1>1, <1>2, <1>8, <2>5, <2>6, Zenon DEF MarkInv, Enters, Moves
<1>9. CASE Stays(p, o)
  <2>1. Flying' = Flying
    BY <1>1, <1>3, <1>5, <1>9 DEF Stays
  <2>2. Exact(cache'.pendingTables, Flying', Tables') /\ Exact(cache'.pendingUsers, Flying', Users')
    <3>1. \A q \in Flying : Tables'[q] = Tables[q] /\ Users'[q] = Users[q]
      BY <1>6, <1>7, <1>9 DEF Stays
    <3> QED
      BY <1>7, <1>9, <2>1, <3>1, ExactSame DEF Stays
  <2> QED
    BY <1>1, <1>2, <1>9, <2>2 DEF MarkInv, Stays, Moves
<1>10. CASE Leaves(p, o)
  <2>1. Flying' = Flying \ {p} /\ p \in Flying
    BY <1>1, <1>3, <1>5, <1>10 DEF Leaves
  <2>2. Exact(cache'.pendingTables, Flying', Tables')
    BY <1>6, <1>7, <1>10, <2>1, ExactLeave DEF Leaves
  <2>3. Exact(cache'.pendingUsers, Flying', Users')
    BY <1>6, <1>7, <1>10, <2>1, ExactLeave DEF Leaves
  <2> QED
    BY <1>1, <1>2, <1>10, <2>2, <2>3 DEF MarkInv, Leaves, Moves
<1> QED
  BY <1>8, <1>9, <1>10 DEF Moves

-----------------------------------------------------------------------------
(* What an acknowledged creation is worth. *)

Past(o) == o.pc \in {"history", "audit", "apply"}
Made(o) == o.kind \in Creations /\ Past(o)
Dropping(o) == o.kind = "DropTable" /\ o.pc \in FlyingPcs
Ahead(o) == o.kind = "DropTable" /\ o.pc \in {"meta", "cascade", "main"}
Done(o) == o.kind = "DropTable" /\ Past(o)

\* The rows R of the system table have one of table n under i; where H was dropped by halves.
Names(R, i, n) == i \in Ids /\ R[i].row # Gone /\ R[i].row[1] = n
Stored(R, H, i, n) == i \in Ids /\ (i \notin H => R[i].row = <<n>>)

\* Whoever holds an id, an acknowledgement, the cache or an operation, holds the row of
\* its table, unless the id was dropped by halves or a drop in flight has removed it.
AckedRows(R, H, A) == DOMAIN A = TableNames /\ \A n \in TableNames : A[n] # 0 => Stored(R, H, A[n], n)
CachedRow(R, H, O, i, n) ==
    \/ i \in H \/ Names(R, i, n)
    \/ \E p \in Callers : Done(O[p]) /\ O[p].table = n /\ O[p].id = i
CachedRows(R, H, O, T) == \A n \in TableNames : T[n] # 0 => CachedRow(R, H, O, T[n], n)
OwnRow(R, H, A, o) ==
    /\ Made(o) => Stored(R, H, o.id, o.table)
    /\ Ahead(o) => o.id \in H \/ Names(R, o.id, o.table)
    /\ Dropping(o) => A[o.table] = 0
AckInv ==
    /\ AckedRows(store["tables"], halfDropped, acked)
    /\ CachedRows(store["tables"], halfDropped, op, cache.tables)
    /\ \A p \in Callers : OwnRow(store["tables"], halfDropped, acked, op[p])

\* A step of one operation that touches neither the rows nor the cached ids of tables,
\* and begins no claim on an id.
Quiet(p, o) ==
    /\ acked' = acked /\ cache'.tables = cache.tables /\ store'["tables"] = store["tables"]
    /\ halfDropped \subseteq halfDropped'
    /\ Made(o) => Made(op[p]) /\ o.id = op[p].id /\ o.table = op[p].table
    /\ Ahead(o) => Ahead(op[p]) /\ o.id = op[p].id /\ o.table = op[p].table
    /\ Dropping(o) => Dropping(op[p]) /\ o.table = op[p].table
    /\ Done(op[p]) => \/ Done(o) /\ o.id = op[p].id /\ o.table = op[p].table
                      \/ op[p].id \in halfDropped'

\* A step of one caller leaves the operations of the others alone.
LEMMA OpAfter ==
  ASSUME MarkInv, NEW p \in Callers, NEW o, op' = [op EXCEPT ![p] = o]
  PROVE  op'[p] = o /\ \A q \in Callers : q # p => op'[q] = op[q]
  BY DEF MarkInv

\* AckInv is kept by a step that changes neither the stored tables nor the cached ones.
LEMMA AckQuiet ==
  ASSUME MarkInv, AckInv, NEW p \in Callers, NEW o, op' = [op EXCEPT ![p] = o], Quiet(p, o)
  PROVE  AckInv'
<1>1. op'[p] = o /\ \A q \in Callers : q # p => op'[q] = op[q]
  BY OpAfter, Zenon
<1>2. \A i, n : Stored(store["tables"], halfDropped, i, n) => Stored(store'["tables"], halfDropped', i, n)
  BY DEF Quiet, Stored
<1>3. AckedRows(store'["tables"], halfDropped', acked')
  BY <1>2 DEF Quiet, AckInv, AckedRows
<1>4. CachedRows(store'["tables"], halfDropped', op', cache'.tables)
  <2> SUFFICES ASSUME NEW n \in TableNames, cache.tables[n] # 0, cache.tables[n] \notin halfDropped',
                      ~Names(store["tables"], cache.tables[n], n)
               PROVE  \E q \in Callers : Done(op'[q]) /\ op'[q].table = n /\ op'[q].id = cache.tables[n]
    BY DEF Quiet, CachedRows, CachedRow
  <2>1. PICK q \in Callers : Done(op[q]) /\ op[q].table = n /\ op[q].id = cache.tables[n]
    BY DEF AckInv, CachedRows, CachedRow, Quiet
  <2>2. Done(op'[q]) /\ op'[q].table = n /\ op'[q].id = cache.tables[n]
    BY <1>1, <2>1 DEF Quiet
  <2> QED
    BY <2>2
<1>5. ASSUME NEW q \in Callers PROVE OwnRow(store'["tables"], halfDropped', acked', op'[q])
  <2>1. OwnRow(store["tables"], halfDropped, acked, op[q])
    BY DEF AckInv
  <2>2. CASE q # p
    BY <1>1, <1>2, <2>1, <2>2 DEF Quiet, OwnRow
  <2>3. CASE q = p
    BY <1>1, <1>2, <2>1, <2>3 DEF Quiet, OwnRow
  <2> QED
    BY <2>2, <2>3
<1> QED
  BY <1>3, <1>4, <1>5 DEF AckInv

-----------------------------------------------------------------------------
(* The steps of an operation. *)

\* An idle caller is in none of the stages AckInv speaks of.
LEMMA IdleOK == OpOK(Idle) /\ ~Made(Idle) /\ ~Ahead(Idle) /\ ~Dropping(Idle) /\ ~Done(Idle)
  BY IdleShape, Zenon DEF OpOK, Idle, GroundPcs, FlyingPcs, WritingPcs, Made, Ahead, Dropping, Done, Past, Creations

\* An operation is in flight exactly at these steps.
LEMMA FlyingIs == \A q \in Callers : InFlight(q) <=> op[q].pc \in FlyingPcs
  BY DEF InFlight, Writing, FlyingPcs, WritingPcs

\* A name that is not there is never marked.
LEMMA NoNameNoMark == MarkInv => "" \notin cache.pendingTables /\ "" \notin cache.pendingUsers
  BY Zenon DEF MarkInv, Exact, NoName

\* What an operation must carry to pass reserveTx.
Callable(o) ==
    /\ DOMAIN o = Fields /\ o.kind \in Kinds /\ o.todo = {}
    /\ o.table \notin cache.pendingTables /\ o.user \notin cache.pendingUsers
    /\ o.kind \in Creations => o.table \in TableNames /\ o.row = <<o.table>>
    /\ o.kind = "DropTable" => o.table \in TableNames

\* Reserving ids under the lock sets the marker of the operation.
LEMMA ReserveMoves ==
  ASSUME MarkInv, NEW p \in Callers, op[p].pc \in GroundPcs, NEW o, Callable(o), Reserve(p, o)
  PROVE  /\ Moves(p, [o EXCEPT !.pc = "meta", !.tx = nextTxID + 1])
         /\ o.kind # "DropTable" /\ acked' = acked => Quiet(p, [o EXCEPT !.pc = "meta", !.tx = nextTxID + 1])
<1> DEFINE r == [o EXCEPT !.pc = "meta", !.tx = nextTxID + 1]
<1>1. /\ DOMAIN r = Fields /\ r.pc = "meta" /\ r.kind = o.kind /\ r.table = o.table /\ r.user = o.user
      /\ r.row = o.row /\ r.todo = o.todo
  BY DEF Callable, Fields
<1>2. op' = [op EXCEPT ![p] = r] /\ started' /\ store' = store /\ halfDropped' = halfDropped
  BY DEF Reserve, disk
<1>3. /\ DOMAIN cache' = CacheFields /\ cache'.tables = cache.tables
      /\ cache'.pendingTables = cache.pendingTables \cup ({o.table} \ {""})
      /\ cache'.pendingUsers = cache.pendingUsers \cup ({o.user} \ {""})
  BY DEF Reserve, MarkInv, CacheShape, CacheFields
<1> HIDE DEF r
<1>4. r.pc \in FlyingPcs /\ r.pc \notin GroundPcs /\ ~InFlight(p)
  BY <1>1, FlyingIs DEF FlyingPcs, GroundPcs, WritingPcs
<1>5. OpOK(r)
  BY <1>1, <1>4 DEF OpOK, Callable, GroundPcs
<1>6. CacheShape'
  BY <1>3, Zenon DEF MarkInv, CacheShape
<1>7. Moves(p, r)
  BY <1>1, <1>2, <1>3, <1>4, <1>5, <1>6, Zenon DEF Moves, Enters, Callable
<1>8. ASSUME o.kind # "DropTable", acked' = acked PROVE Quiet(p, r)
  <2>1. ~Made(r) /\ ~Ahead(r) /\ ~Dropping(r)
    BY <1>1, <1>8 DEF Made, Ahead, Dropping, Past
  <2>2. ~Done(op[p])
    BY DEF Done, Past, GroundPcs
  <2> QED
    BY <1>2, <1>3, <1>8, <2>1, <2>2, Zenon DEF Quiet
<1> QED
  BY <1>7, <1>8 DEF r

\* The operation returns an error, after its first phase.
LEMMA ReturnMoves ==
  ASSUME MarkInv, NEW p \in Callers, op[p].pc \in {"meta", "main", "history", "audit"},
         op' = [op EXCEPT ![p] = Idle], cache' = Unmark(cache, op[p]),
         halfDropped' = halfDropped \cup HalfDone(op[p]), UNCHANGED <<store, started, acked>>
  PROVE  Moves(p, Idle) /\ Quiet(p, Idle)
<1>1. /\ DOMAIN cache' = CacheFields /\ cache'.tables = cache.tables
      /\ cache'.pendingTables = cache.pendingTables \ {op[p].table}
      /\ cache'.pendingUsers = cache.pendingUsers \ {op[p].user}
  BY DEF Unmark, MarkInv, CacheShape, CacheFields
<1>2. InFlight(p) /\ Idle.pc \notin FlyingPcs
  BY FlyingIs, IdleShape DEF FlyingPcs, WritingPcs
<1>3. Moves(p, Idle)
  BY <1>1, <1>2, IdleOK DEF Moves, Leaves, MarkInv, CacheShape
<1>4. Done(op[p]) => op[p].id \in halfDropped'
  BY DEF Done, Past, HalfDone
<1>5. Quiet(p, Idle)
  BY <1>1, <1>4, IdleOK DEF Quiet
<1> QED
  BY <1>3, <1>5

\* An operation that goes on, its names and marks the same.
LEMMA StayMoves ==
  ASSUME MarkInv, NEW p \in Callers, NEW o, op' = [op EXCEPT ![p] = o], OpOK(o),
         o.pc \in FlyingPcs <=> op[p].pc \in FlyingPcs, o.table = op[p].table, o.user = op[p].user,
         DOMAIN cache' = CacheFields, cache'.tables = cache.tables,
         cache'.pendingTables = cache.pendingTables, cache'.pendingUsers = cache.pendingUsers,
         UNCHANGED started
  PROVE  Moves(p, o)
<1>1. CacheShape'
  BY DEF MarkInv, CacheShape
<1> QED
  BY <1>1, FlyingIs DEF Moves, Stays

\* A call and its first phase: a move, quiet unless it is a DropTable.
LEMMA CallingMoves ==
  ASSUME MarkInv, NEW p \in Callers, NEW c \in Calls,
         \/ CreateTable(p, c) \/ AllocateTableID(p, c) \/ DropTable(p, c)
         \/ CreateUser(p, c) \/ Authenticate(p, c) \/ CreateRole(p, c) \/ DropRole(p, c)
         \/ AssignRole(p, c) \/ RevokeRole(p, c) \/ Grant(p, c) \/ Revoke(p, c)
  PROVE  \E o : Moves(p, o) /\ (Quiet(p, o) \/ DropTable(p, c))
<1> DEFINE k == Called(c)
<1>k. /\ DOMAIN k = Fields /\ k.kind = c.kind /\ k.table = "" /\ k.user = "" /\ k.todo = {}
      /\ k.pc = "idle"
  BY DEF Called, Idle, Fields
<1> HIDE DEF k
<1>n. c.kind \in Creations \cup {"DropTable"} => c.table \in TableNames
  BY CatalogAssumption, Zenon DEF TableNames
<1>g. op[p].pc = "idle" /\ op[p].pc \in GroundPcs
  BY Zenon DEF CreateTable, AllocateTableID, DropTable, CreateUser, Authenticate, CreateRole, DropRole,
         AssignRole, RevokeRole, Grant, Revoke, At, GroundPcs
<1>i. op[p].table = "" /\ op[p].user = "" /\ op[p].pc \notin FlyingPcs /\ DOMAIN cache = CacheFields
  BY <1>g, Zenon DEF MarkInv, CacheShape, OpOK, FlyingPcs, WritingPcs
<1>1. CASE CreateTable(p, c)
  <2> DEFINE o == [k EXCEPT !.table = c.table, !.row = <<c.table>>, !.id = cache.next["tables"]]
  <2>1. DOMAIN o = Fields /\ o.kind = c.kind /\ o.todo = {} /\ o.table = c.table /\ o.user = "" /\ o.row = <<c.table>>
    BY <1>k, Zenon DEF Fields
  <2>2. Reserve(p, o) /\ c.kind = "CreateTable" /\ acked' = acked
    BY <1>1 DEF CreateTable, k
  <2> HIDE DEF o
  <2>3. Callable(o) /\ o.kind # "DropTable"
    BY <1>1, <1>n, <2>1, <2>2, NoNameNoMark, Zenon DEF CreateTable, Free, Callable, Kinds, Creations
  <2> QED
    BY <1>1, <1>g, <2>2, <2>3, ReserveMoves, Zenon
<1>2. CASE DropTable(p, c)
  <2> DEFINE o == [k EXCEPT !.table = c.table, !.row = <<c.table>>, !.id = cache.tables[c.table]]
  <2>1. DOMAIN o = Fields /\ o.kind = c.kind /\ o.todo = {} /\ o.table = c.table /\ o.user = ""
    BY <1>k, Zenon DEF Fields
  <2>2. Reserve(p, o) /\ c.kind = "DropTable"
    BY <1>2 DEF DropTable, k
  <2> HIDE DEF o
  <2>3. Callable(o)
    BY <1>2, <1>n, <2>1, <2>2, NoNameNoMark, Zenon DEF DropTable, Callable, Kinds, Creations
  <2> QED
    BY <1>2, <1>g, <2>2, <2>3, ReserveMoves, Zenon
<1>3. CASE CreateUser(p, c)
  <2> DEFINE o == [k EXCEPT !.user = c.user, !.row = <<c.user, "bcrypt">>]
  <2>1. DOMAIN o = Fields /\ o.kind = c.kind /\ o.todo = {} /\ o.table = "" /\ o.user = c.user
    BY <1>k, Zenon DEF Fields
  <2>2. Reserve(p, o) /\ c.kind = "CreateUser" /\ acked' = acked
    BY <1>3 DEF CreateUser, k
  <2> HIDE DEF o
  <2>3. Callable(o) /\ o.kind # "DropTable"
    BY <1>3, <1>n, <2>1, <2>2, NoNameNoMark, Zenon DEF CreateUser, Free, Callable, Kinds, Creations
  <2> QED
    BY <1>3, <1>g, <2>2, <2>3, ReserveMoves, Zenon
<1>4. CASE CreateRole(p, c)
  <2> DEFINE o == [k EXCEPT !.row = <<c.role>>]
  <2>1. DOMAIN o = Fields /\ o.kind = c.kind /\ o.todo = {} /\ o.table = "" /\ o.user = ""
    BY <1>k, Zenon DEF Fields
  <2>2. Reserve(p, o) /\ c.kind = "CreateRole" /\ acked' = acked
    BY <1>4 DEF CreateRole, k
  <2> HIDE DEF o
  <2>3. Callable(o) /\ o.kind # "DropTable"
    BY <1>4, <1>n, <2>1, <2>2, NoNameNoMark, Zenon DEF CreateRole, Free, Callable, Kinds, Creations
  <2> QED
    BY <1>4, <1>g, <2>2, <2>3, ReserveMoves, Zenon
<1>5. CASE DropRole(p, c)
  <2> DEFINE o == [k EXCEPT !.row = <<c.role>>, !.id = cache.roles[c.role]]
  <2>1. DOMAIN o = Fields /\ o.kind = c.kind /\ o.todo = {} /\ o.table = "" /\ o.user = ""
    BY <1>k, Zenon DEF Fields
  <2>2. Reserve(p, o) /\ c.kind = "DropRole" /\ acked' = acked
    BY <1>5 DEF DropRole, k
  <2> HIDE DEF o
  <2>3. Callable(o) /\ o.kind # "DropTable"
    BY <1>5, <1>n, <2>1, <2>2, NoNameNoMark, Zenon DEF DropRole, Free, Callable, Kinds, Creations
  <2> QED
    BY <1>5, <1>g, <2>2, <2>3, ReserveMoves, Zenon
<1>6. CASE AssignRole(p, c)
  <2> DEFINE o == [k EXCEPT !.row = <<cache.users[c.user], cache.roles[c.role]>>]
  <2>1. DOMAIN o = Fields /\ o.kind = c.kind /\ o.todo = {} /\ o.table = "" /\ o.user = ""
    BY <1>k, Zenon DEF Fields
  <2>2. Reserve(p, o) /\ c.kind = "AssignRole" /\ acked' = acked
    BY <1>6 DEF AssignRole, k
  <2> HIDE DEF o
  <2>3. Callable(o) /\ o.kind # "DropTable"
    BY <1>6, <1>n, <2>1, <2>2, NoNameNoMark, Zenon DEF AssignRole, Free, Callable, Kinds, Creations
  <2> QED
    BY <1>6, <1>g, <2>2, <2>3, ReserveMoves, Zenon
<1>7. CASE RevokeRole(p, c)
  <2>1. PICK a \in cache.assignments :
          Reserve(p, [k EXCEPT !.row = <<cache.users[c.user], cache.roles[c.role]>>, !.id = a.id])
    BY <1>7, Zenon DEF RevokeRole, k
  <2> DEFINE o == [k EXCEPT !.row = <<cache.users[c.user], cache.roles[c.role]>>, !.id = a.id]
  <2>2. DOMAIN o = Fields /\ o.kind = c.kind /\ o.todo = {} /\ o.table = "" /\ o.user = ""
    BY <1>k, Zenon DEF Fields
  <2>3. Reserve(p, o) /\ c.kind = "RevokeRole" /\ acked' = acked
    BY <1>7, <2>1, Zenon DEF RevokeRole
  <2> HIDE DEF o
  <2>4. Callable(o) /\ o.kind # "DropTable"
    BY <2>2, <2>3, NoNameNoMark, Zenon DEF Callable, Kinds, Creations
  <2> QED
    BY <1>7, <1>g, <2>3, <2>4, ReserveMoves, Zenon
<1>8. CASE Grant(p, c)
  <2> DEFINE o == [k EXCEPT !.row = GrantKey(c)]
  <2>1. DOMAIN o = Fields /\ o.kind = c.kind /\ o.todo = {} /\ o.table = "" /\ o.user = ""
    BY <1>k, Zenon DEF Fields
  <2>2. Reserve(p, o) /\ c.kind = "Grant" /\ acked' = acked
    BY <1>8 DEF Grant, k
  <2> HIDE DEF o
  <2>3. Callable(o) /\ o.kind # "DropTable"
    BY <1>8, <1>n, <2>1, <2>2, NoNameNoMark, Zenon DEF Grant, Free, Callable, Kinds, Creations
  <2> QED
    BY <1>8, <1>g, <2>2, <2>3, ReserveMoves, Zenon
<1>9. CASE Revoke(p, c)
  <2>1. PICK g \in cache.grantsByKey : Reserve(p, [k EXCEPT !.row = g.row, !.id = g.id])
    BY <1>9, Zenon DEF Revoke, k
  <2> DEFINE o == [k EXCEPT !.row = g.row, !.id = g.id]
  <2>2. DOMAIN o = Fields /\ o.kind = c.kind /\ o.todo = {} /\ o.table = "" /\ o.user = ""
    BY <1>k, Zenon DEF Fields
  <2>3. Reserve(p, o) /\ c.kind = "Revoke" /\ acked' = acked
    BY <1>9, <2>1, Zenon DEF Revoke
  <2> HIDE DEF o
  <2>4. Callable(o) /\ o.kind # "DropTable"
    BY <2>2, <2>3, NoNameNoMark, Zenon DEF Callable, Kinds, Creations
  <2> QED
    BY <1>9, <1>g, <2>3, <2>4, ReserveMoves, Zenon
<1>10. CASE AllocateTableID(p, c)
  <2> DEFINE o == [k EXCEPT !.pc = "heap", !.row = <<c.table>>, !.id = cache.next["tables"]]
  <2>1. /\ DOMAIN o = Fields /\ o.kind = c.kind /\ o.pc = "heap" /\ o.table = "" /\ o.user = "" /\ o.todo = {}
        /\ o.row = <<c.table>>
    BY <1>k, Zenon DEF Fields
  <2>2. op' = [op EXCEPT ![p] = o] /\ c.kind = "RegisterTable"
    BY <1>10 DEF AllocateTableID, k
  <2>3. /\ DOMAIN cache' = CacheFields /\ cache'.tables = cache.tables
        /\ cache'.pendingTables = cache.pendingTables /\ cache'.pendingUsers = cache.pendingUsers
    BY <1>10 DEF AllocateTableID, MarkInv, CacheShape, CacheFields
  <2>4. UNCHANGED <<store, started, acked, halfDropped>>
    BY <1>10 DEF AllocateTableID, disk, history
  <2> HIDE DEF o
  <2>5. OpOK(o)
    BY <1>n, <2>1, <2>2, Zenon DEF OpOK, GroundPcs, FlyingPcs, WritingPcs, Creations
  <2>6. Moves(p, o)
    <3>1. o.pc \notin FlyingPcs
      BY <2>1, Zenon DEF FlyingPcs, WritingPcs
    <3> QED
      BY <1>i, <2>1, <2>2, <2>3, <2>4, <2>5, <3>1, StayMoves, Zenon
  <2>7. Quiet(p, o)
    BY <1>g, <2>1, <2>3, <2>4, Zenon DEF Quiet, Made, Ahead, Dropping, Done, Past, FlyingPcs, WritingPcs
  <2> QED
    BY <2>6, <2>7
<1>11. CASE Authenticate(p, c)
  <2> DEFINE o == [k EXCEPT !.pc = "migrate", !.id = cache.users[c.user], !.row = <<c.user, "bcrypt">>]
  <2>1. DOMAIN o = Fields /\ o.kind = c.kind /\ o.pc = "migrate" /\ o.table = "" /\ o.user = "" /\ o.todo = {}
    BY <1>k, Zenon DEF Fields
  <2>2. op' = [op EXCEPT ![p] = o] /\ c.kind = "Migrate"
    BY <1>11 DEF Authenticate, k
  <2>3. UNCHANGED <<store, started, cache, acked, halfDropped>>
    BY <1>11 DEF Authenticate, disk, memory, history
  <2> HIDE DEF o
  <2>4. OpOK(o)
    BY <2>1, <2>2, Zenon DEF OpOK, GroundPcs, FlyingPcs, WritingPcs, Creations
  <2>5. Moves(p, o)
    <3>1. o.pc \notin FlyingPcs
      BY <2>1, Zenon DEF FlyingPcs, WritingPcs
    <3> QED
      BY <1>i, <2>1, <2>2, <2>3, <2>4, <3>1, StayMoves, Zenon
  <2>6. Quiet(p, o)
    BY <1>g, <2>1, <2>3, Zenon DEF Quiet, Made, Ahead, Dropping, Done, Past, FlyingPcs, WritingPcs
  <2> QED
    BY <2>5, <2>6
<1> QED
  BY <1>1, <1>2, <1>3, <1>4, <1>5, <1>6, <1>7, <1>8, <1>9, <1>10, <1>11

OnTables == Creations \cup {"DropTable"}

\* Which operations write to the tables.
LEMMA KindFacts ==
  ASSUME NEW k \in Kinds
  PROVE  /\ k \in OnTables => TableOf(k) = "tables" /\ AfterMain(k) = "history" /\ ~TakesNextId(k)
         /\ k \notin OnTables => TableOf(k) # "tables" /\ AfterMain(k) \in {"audit", "apply"}
         /\ Removes(k) <=> k \in {"DropTable", "DropRole", "RevokeRole", "Revoke"}
<1>1. CASE k \in OnTables
  BY <1>1 DEF OnTables, Creations, TableOf, AfterMain, TakesNextId, Removes
<1>2. CASE k \notin OnTables
  <2>1. TableOf(k) # "tables"
    BY <1>2 DEF OnTables, Creations, Kinds, TableOf
  <2> QED
    BY <1>2, <2>1 DEF AfterMain, Removes
<1> QED
  BY <1>1, <1>2

\* What the last phase of operation o turns cache c into: u.
CacheAfter(c, o, u) ==
    /\ DOMAIN u = CacheFields
    /\ u.pendingTables = c.pendingTables \ {o.table} /\ u.pendingUsers = c.pendingUsers \ {o.user}
    /\ o.kind \in Creations => u.tables = [c.tables EXCEPT ![o.table] = o.id]
    /\ o.kind = "DropTable" => u.tables = [c.tables EXCEPT ![o.table] = 0]
    /\ o.kind \notin OnTables => u.tables = c.tables

\* What the last phase does to the cached tables and the marks.
LEMMA CacheOps ==
  ASSUME NEW c, DOMAIN c = CacheFields, NEW o, o.kind \in Kinds,
         NEW u, u = Unmark(Applied(Advanced(c, o), o), o)
  PROVE  CacheAfter(c, o, u)
<1> DEFINE a == Advanced(c, o)
           b == Applied(a, o)
<1>1. /\ DOMAIN a = CacheFields /\ a.tables = c.tables /\ a.pendingTables = c.pendingTables
      /\ a.pendingUsers = c.pendingUsers
  BY DEF Advanced, CacheFields
<1> HIDE DEF a
<1>2. /\ DOMAIN b = CacheFields /\ b.pendingTables = a.pendingTables /\ b.pendingUsers = a.pendingUsers
      /\ o.kind \in Creations => b.tables = [a.tables EXCEPT ![o.table] = o.id]
      /\ o.kind = "DropTable" => b.tables = [a.tables EXCEPT ![o.table] = 0]
      /\ o.kind \notin OnTables => b.tables = a.tables
  <2>1. CASE o.kind \in Creations
    BY <1>1, <2>1, Zenon DEF Applied, CacheTable, CacheFields, Creations, OnTables
  <2>2. CASE o.kind = "DropTable"
    BY <1>1, <2>2 DEF Applied, CacheDropTable, CacheFields, Creations, OnTables
  <2>3. CASE o.kind = "CreateUser"
    BY <1>1, <2>3 DEF Applied, CacheUser, CacheFields, Creations, OnTables
  <2>4. CASE o.kind = "Migrate"
    BY <1>1, <2>4 DEF Applied, CacheMigrated, CacheFields, Creations, OnTables
  <2>5. CASE o.kind = "CreateRole"
    BY <1>1, <2>5 DEF Applied, CacheRole, CacheFields, Creations, OnTables
  <2>6. CASE o.kind = "DropRole"
    BY <1>1, <2>6, Zenon DEF Applied, CacheDropRole, CacheFields, Creations, OnTables
  <2>7. CASE o.kind = "AssignRole"
    BY <1>1, <2>7, Zenon DEF Applied, CacheAssign, CacheFields, Creations, OnTables
  <2>8. CASE o.kind = "RevokeRole"
    BY <1>1, <2>8, Zenon DEF Applied, CacheUnassign, CacheFields, Creations, OnTables
  <2>9. CASE o.kind = "Grant"
    BY <1>1, <2>9, Zenon DEF Applied, CacheGrant, CacheFields, Creations, OnTables
  <2>10. CASE o.kind = "Revoke"
    BY <1>1, <2>10, Zenon DEF Applied, CacheRevoke, CacheFields, Creations, OnTables
  <2> QED
    BY <2>1, <2>2, <2>3, <2>4, <2>5, <2>6, <2>7, <2>8, <2>9, <2>10, Zenon DEF Kinds
<1> HIDE DEF b
<1>3. u = Unmark(b, o)
  BY DEF a, b
<1>4. /\ DOMAIN u = CacheFields /\ u.tables = b.tables
      /\ u.pendingTables = b.pendingTables \ {o.table} /\ u.pendingUsers = b.pendingUsers \ {o.user}
  BY <1>2, <1>3, Zenon DEF Unmark, CacheFields
<1>5. /\ u.pendingTables = c.pendingTables \ {o.table} /\ u.pendingUsers = c.pendingUsers \ {o.user}
      /\ o.kind \notin OnTables => u.tables = c.tables
  BY <1>1, <1>2, <1>4, Zenon
<1>6. /\ o.kind \in Creations => u.tables = [c.tables EXCEPT ![o.table] = o.id]
      /\ o.kind = "DropTable" => u.tables = [c.tables EXCEPT ![o.table] = 0]
  BY <1>1, <1>2, <1>4, Zenon
<1> QED
  BY <1>4, <1>5, <1>6, Zenon DEF CacheAfter

\* The steps of an operation on tables that its claims are about: the write of the row,
\* and the last phase.
Rewrites(p, o) ==
    /\ op[p].pc = "main" /\ op[p].kind \in OnTables /\ op[p].id \in Ids
    /\ (store["tables"][op[p].id].row # Gone) = (op[p].kind = "DropTable")
    /\ Write("tables", op[p].id, op[p].tx, IF op[p].kind = "DropTable" THEN Gone ELSE op[p].row)
    /\ o.pc = "history" /\ o.kind = op[p].kind /\ o.id = op[p].id /\ o.table = op[p].table
    /\ UNCHANGED <<cache, acked, halfDropped>>
Applies(p, o) == Apply(p) /\ op[p].kind \in OnTables /\ o = Idle

\* Returning an error removes the marker of the operation.
LEMMA FailMoves ==
  ASSUME MarkInv, NEW p \in Callers, op[p].pc \in {"meta", "main", "history", "audit"}, Fail(p)
  PROVE  \E o : Moves(p, o) /\ Quiet(p, o)
<1>1. UNCHANGED <<store, started, acked>>
  BY DEF Fail, disk
<1> QED
  BY <1>1, ReturnMoves, Zenon DEF Fail

\* An operation in flight goes on, and leaves the rows of tables alone.
LEMMA FlyingMoves ==
  ASSUME MarkInv, StoreShape, NEW p \in Callers, op[p].pc \in FlyingPcs,
         NEW o, op' = [op EXCEPT ![p] = o], DOMAIN o = Fields, o.pc \in FlyingPcs,
         o.kind = op[p].kind, o.table = op[p].table, o.user = op[p].user, o.row = op[p].row,
         \A w \in o.todo : w[1] # "tables", UNCHANGED <<memory, acked, halfDropped>>
  PROVE  /\ Moves(p, o)
         /\ /\ \/ op[p].kind \notin OnTables
               \/ o.id = op[p].id /\ (Past(o) <=> Past(op[p]))
            /\ store' = store \/ \E t, i, tx, row : t # "tables" /\ Write(t, i, tx, row)
            => Quiet(p, o)
<1>1. OpOK(op[p]) /\ DOMAIN cache = CacheFields
  BY DEF MarkInv, CacheShape
<1>2. OpOK(o)
  BY <1>1, Zenon DEF OpOK, FlyingPcs, WritingPcs, GroundPcs
<1>3. UNCHANGED <<started, cache>>
  BY DEF memory
<1>4. Moves(p, o)
  BY <1>1, <1>2, <1>3, StayMoves, Zenon
<1>5. ASSUME op[p].kind \notin OnTables \/ (o.id = op[p].id /\ (Past(o) <=> Past(op[p]))),
             store' = store \/ \E t, i, tx, row : t # "tables" /\ Write(t, i, tx, row)
      PROVE  Quiet(p, o)
  <2>1. store'["tables"] = store["tables"]
    BY <1>5 DEF StoreShape, Write, SysTables
  <2>2. Ahead(o) <=> o.kind = "DropTable" /\ ~Past(o)
    BY DEF Ahead, Past, FlyingPcs, WritingPcs
  <2>3. Ahead(op[p]) <=> op[p].kind = "DropTable" /\ ~Past(op[p])
    BY DEF Ahead, Past, FlyingPcs, WritingPcs
  <2> QED
    BY <1>3, <1>5, <2>1, <2>2, <2>3 DEF Quiet, Made, Dropping, Done, OnTables
<1> QED
  BY <1>4, <1>5

\* An operation that holds no mark yet gives up.
LEMMA LandMoves ==
  ASSUME MarkInv, NEW p \in Callers, op[p].pc \notin FlyingPcs, op[p].table = "", op[p].user = "",
         op' = [op EXCEPT ![p] = Idle], UNCHANGED <<store, started, cache, acked, halfDropped>>
  PROVE  Moves(p, Idle) /\ Quiet(p, Idle)
<1>1. Idle.pc \notin FlyingPcs /\ Idle.table = "" /\ Idle.user = ""
  BY Zenon DEF Idle, FlyingPcs, WritingPcs
<1>2. Moves(p, Idle)
  BY <1>1, IdleOK, StayMoves, Zenon DEF MarkInv, CacheShape
<1>3. ~Done(op[p])
  BY Zenon DEF Done, Past, FlyingPcs, WritingPcs
<1> QED
  BY <1>2, <1>3, IdleOK, Zenon DEF Quiet

\* A later step: a move, quiet unless it is one of those that the claims are about.
LEMMA WorkingMoves ==
  ASSUME MarkInv, StoreShape, NEW p \in Callers, Working(p)
  PROVE  \E o : Moves(p, o) /\ (Quiet(p, o) \/ Rewrites(p, o) \/ Applies(p, o))
<1>k. OpOK(op[p]) /\ DOMAIN cache = CacheFields
  BY DEF MarkInv, CacheShape
<1>1. CASE CreateTableHeap(p)
  <2>1. op[p].pc = "heap" /\ op[p].pc \notin FlyingPcs /\ op[p].table = "" /\ op[p].user = ""
    BY <1>1, <1>k, Zenon DEF CreateTableHeap, At, OpOK, GroundPcs, FlyingPcs, WritingPcs
  <2>2. UNCHANGED <<store, started, cache, acked, halfDropped>>
    BY <1>1 DEF CreateTableHeap, disk, history
  <2>3. CASE op[p].id \in heaps
    BY <1>1, <2>1, <2>2, <2>3, LandMoves, Zenon DEF CreateTableHeap
  <2>4. CASE op[p].id \notin heaps
    <3> DEFINE o == [op[p] EXCEPT !.pc = "register"]
    <3>1. /\ op' = [op EXCEPT ![p] = o] /\ DOMAIN o = Fields /\ o.pc = "register" /\ o.kind = op[p].kind
          /\ o.table = op[p].table /\ o.user = op[p].user /\ o.row = op[p].row /\ o.todo = op[p].todo
      BY <1>1, <1>k, <2>4, Zenon DEF CreateTableHeap, Goto, OpOK, Fields
    <3> HIDE DEF o
    <3>2. o.pc \notin FlyingPcs /\ OpOK(o)
      BY <1>k, <2>1, <3>1, Zenon DEF OpOK, GroundPcs, FlyingPcs, WritingPcs
    <3>3. Moves(p, o)
      BY <1>k, <2>1, <2>2, <3>1, <3>2, StayMoves, Zenon
    <3>4. Quiet(p, o)
      BY <2>1, <2>2, <3>1, <3>2, Zenon DEF Quiet, Made, Ahead, Dropping, Done, Past, FlyingPcs, WritingPcs
    <3> QED
      BY <3>3, <3>4
  <2> QED
    BY <2>3, <2>4
<1>2. CASE RegisterTable(p)
  <2> DEFINE o == [op[p] EXCEPT !.table = op[p].row[1]]
  <2>1. op[p].pc \in GroundPcs /\ op[p].pc = "register" /\ acked' = acked
    BY <1>2 DEF RegisterTable, At, GroundPcs
  <2>2. op[p].table = "" /\ op[p].user = "" /\ op[p].pc \notin FlyingPcs /\ op[p].kind = "RegisterTable" /\ \E n \in TableNames : op[p].row = <<n>>
    BY <1>k, <2>1, Zenon DEF OpOK, FlyingPcs, WritingPcs
  <2>3. CASE op' = [op EXCEPT ![p] = Idle] /\ UNCHANGED <<disk, memory, halfDropped>>
    BY <1>k, <2>1, <2>2, <2>3, LandMoves, Zenon DEF disk, memory
  <2>4. CASE started /\ op[p].row[1] \notin cache.pendingTables /\ Reserve(p, o)
    <3>1. /\ DOMAIN o = Fields /\ o.kind = op[p].kind /\ o.todo = op[p].todo /\ o.row = op[p].row
          /\ o.table = op[p].row[1] /\ o.user = ""
      BY <1>k, <2>2, Zenon DEF OpOK, Fields
    <3> HIDE DEF o
    <3>2. op[p].todo = {}
      BY <1>k, <2>1, Zenon DEF OpOK, GroundPcs
    <3>3. op[p].row[1] \in TableNames /\ op[p].row = <<op[p].row[1]>>
      <4>1. PICK n \in TableNames : op[p].row = <<n>>
        BY <2>2, Zenon
      <4>2. op[p].row[1] = n
        BY <4>1
      <4> QED
        BY <4>1, <4>2
    <3>4. Callable(o) /\ o.kind # "DropTable"
      BY <2>2, <2>4, <3>1, <3>2, <3>3, NoNameNoMark, Zenon DEF Callable, Kinds, Creations
    <3> QED
      BY <2>1, <2>4, <3>4, ReserveMoves, Zenon
  <2> QED
    BY <1>2, <2>3, <2>4 DEF RegisterTable, Free
<1>3. CASE MigrateLegacyPassword(p)
  <2> DEFINE o == [op[p] EXCEPT !.user = op[p].row[1]]
  <2>1. op[p].pc \in GroundPcs /\ op[p].pc = "migrate" /\ acked' = acked
    BY <1>3 DEF MigrateLegacyPassword, At, GroundPcs
  <2>2. op[p].table = "" /\ op[p].user = "" /\ op[p].pc \notin FlyingPcs /\ op[p].kind = "Migrate"
    BY <1>k, <2>1, Zenon DEF OpOK, FlyingPcs, WritingPcs
  <2>3. CASE op' = [op EXCEPT ![p] = Idle] /\ UNCHANGED <<disk, memory, halfDropped>>
    BY <1>k, <2>1, <2>2, <2>3, LandMoves, Zenon DEF disk, memory
  <2>4. CASE started /\ op[p].row[1] \notin cache.pendingUsers /\ Reserve(p, o)
    <3>1. /\ DOMAIN o = Fields /\ o.kind = op[p].kind /\ o.todo = op[p].todo /\ o.row = op[p].row
          /\ o.user = op[p].row[1] /\ o.table = ""
      BY <1>k, <2>2, Zenon DEF OpOK, Fields
    <3> HIDE DEF o
    <3>2. op[p].todo = {}
      BY <1>k, <2>1, Zenon DEF OpOK, GroundPcs
    <3>3. Callable(o) /\ o.kind # "DropTable"
      BY <2>2, <2>4, <3>1, <3>2, NoNameNoMark, Zenon DEF Callable, Kinds, Creations
    <3> QED
      BY <2>1, <2>4, <3>3, ReserveMoves, Zenon
  <2> QED
    BY <1>3, <2>3, <2>4 DEF MigrateLegacyPassword, Free
<1>4. CASE WriteMeta(p)
  <2>1. op[p].pc = "meta" /\ op[p].pc \in FlyingPcs
    BY <1>4 DEF WriteMeta, At, FlyingPcs
  <2>2. CASE Fail(p)
    BY <2>1, <2>2, FailMoves
  <2>3. CASE Goto(p, AfterMeta(op[p].kind)) /\ UNCHANGED <<store, memory, history>>
    <3> DEFINE o == [op[p] EXCEPT !.pc = AfterMeta(op[p].kind)]
    <3>1. /\ op' = [op EXCEPT ![p] = o] /\ DOMAIN o = Fields /\ o.pc = AfterMeta(op[p].kind)
          /\ o.kind = op[p].kind /\ o.table = op[p].table /\ o.user = op[p].user
          /\ o.row = op[p].row /\ o.todo = op[p].todo /\ o.id = op[p].id
      BY <1>k, <2>3, Zenon DEF OpOK, Fields, Goto
    <3> HIDE DEF o
    <3>2. \A w \in o.todo : w[1] # "tables"
      BY <1>k, <3>1, Zenon DEF OpOK
    <3>3. o.pc \in FlyingPcs /\ (Past(o) <=> Past(op[p]))
      BY <2>1, <3>1 DEF Past, FlyingPcs, WritingPcs, AfterMeta
    <3>4. UNCHANGED <<memory, acked, halfDropped>> /\ store' = store
      BY <2>3 DEF history
    <3> QED
      BY <2>1, <3>1, <3>2, <3>3, <3>4, FlyingMoves, Zenon
  <2> QED
    BY <1>4, <2>2, <2>3 DEF WriteMeta
<1>5. CASE DeleteOrphan(p)
  <2>1. op[p].pc = "main" /\ op[p].pc \in FlyingPcs
    BY <1>5 DEF DeleteOrphan, At, FlyingPcs, WritingPcs
  <2>2. PICK w \in op[p].todo :
          /\ Write(w[1], w[2], op[p].tx, Gone) \/ UNCHANGED store
          /\ op' = [op EXCEPT ![p].todo = @ \ {w}]
    BY <1>5, Zenon DEF DeleteOrphan
  <2> DEFINE o == [op[p] EXCEPT !.todo = @ \ {w}]
  <2>3. /\ op' = [op EXCEPT ![p] = o] /\ DOMAIN o = Fields /\ o.pc = op[p].pc /\ o.kind = op[p].kind
        /\ o.table = op[p].table /\ o.user = op[p].user /\ o.row = op[p].row /\ o.todo = op[p].todo \ {w}
        /\ o.id = op[p].id
    BY <1>k, <2>2, Zenon DEF OpOK, Fields
  <2> HIDE DEF o
  <2>4. w[1] # "tables" /\ \A v \in o.todo : v[1] # "tables"
    BY <1>k, <2>2, <2>3, Zenon DEF OpOK
  <2>5. UNCHANGED <<memory, acked, halfDropped>> /\ (Past(o) <=> Past(op[p]))
    BY <1>5, <2>3 DEF DeleteOrphan, history, Past
  <2>6. store' = store \/ \E t, i, tx, row : t # "tables" /\ Write(t, i, tx, row)
    BY <2>2, <2>4
  <2> QED
    BY <2>1, <2>3, <2>4, <2>5, <2>6, FlyingMoves, Zenon
<1>6. CASE WriteMain(p)
  <2> DEFINE k == op[p].kind
             t == TableOf(k)
             id == IF TakesNextId(k) THEN cache.next[t] ELSE op[p].id
             row == IF Removes(k) THEN Gone ELSE op[p].row
             o == [op[p] EXCEPT !.pc = AfterMain(k), !.id = id]
  <2>1. op[p].pc = "main" /\ op[p].pc \in FlyingPcs /\ k \in Kinds
    BY <1>6, <1>k, Zenon DEF WriteMain, At, OpOK, FlyingPcs, WritingPcs
  <2>2. CASE Fail(p)
    BY <2>1, <2>2, FailMoves
  <2>3. CASE /\ Accepts(t, id, op[p].tx, Removes(k) \/ k = "Migrate") /\ Write(t, id, op[p].tx, row)
             /\ op' = [op EXCEPT ![p].pc = AfterMain(k), ![p].id = id] /\ id \in Ids
             /\ UNCHANGED <<meta, memory, history>>
    <3>1. /\ op' = [op EXCEPT ![p] = o] /\ DOMAIN o = Fields /\ o.pc = AfterMain(k) /\ o.kind = k
          /\ o.table = op[p].table /\ o.user = op[p].user /\ o.row = op[p].row /\ o.todo = op[p].todo
          /\ o.id = id
      BY <1>k, <2>3, Zenon DEF OpOK, Fields
    <3> HIDE DEF o
    <3>2. o.pc \in FlyingPcs /\ \A w \in o.todo : w[1] # "tables"
      BY <1>k, <2>1, <3>1, Zenon DEF OpOK, AfterMain, FlyingPcs, WritingPcs
    <3>3. UNCHANGED <<memory, acked, halfDropped>>
      BY <2>3 DEF history
    <3>4. Moves(p, o)
      BY <2>1, <3>1, <3>2, <3>3, FlyingMoves, Zenon
    <3>5. CASE k \notin OnTables
      <4>1. \E u, i, tx, r : u # "tables" /\ Write(u, i, tx, r)
        BY <2>1, <2>3, <3>5, KindFacts
      <4> QED
        BY <2>1, <3>1, <3>2, <3>3, <3>5, <4>1, FlyingMoves, Zenon
    <3>6. CASE k \in OnTables
      <4>1. t = "tables" /\ id = op[p].id /\ o.pc = "history"
        BY <2>1, <3>1, <3>6, KindFacts, Zenon
      <4>2. (Removes(k) <=> k = "DropTable") /\ k # "Migrate"
        BY <3>6 DEF Removes, OnTables, Creations
      <4>3. (store["tables"][op[p].id].row # Gone) = (k = "DropTable")
        BY <2>3, <4>1, <4>2 DEF Accepts
      <4>4. Write("tables", op[p].id, op[p].tx, IF k = "DropTable" THEN Gone ELSE op[p].row)
        BY <2>3, <4>1, <4>2
      <4>5. UNCHANGED <<cache, acked, halfDropped>>
        BY <3>3 DEF memory
      <4>6. Rewrites(p, o)
        BY <2>1, <2>3, <3>1, <3>6, <4>1, <4>3, <4>4, <4>5 DEF Rewrites
      <4> QED
        BY <3>4, <4>6
    <3> QED
      BY <3>5, <3>6
  <2> QED
    BY <1>6, <2>2, <2>3 DEF WriteMain
<1>7. CASE WriteHistory(p)
  <2>1. op[p].pc = "history" /\ op[p].pc \in FlyingPcs
    BY <1>7, Zenon DEF WriteHistory, At, FlyingPcs, WritingPcs
  <2>2. CASE Fail(p)
    BY <2>1, <2>2, FailMoves, Zenon
  <2>3. CASE /\ Write("history", cache.next["history"], op[p].tx, <<op[p].id>>) /\ Goto(p, "audit")
             /\ UNCHANGED <<meta, memory, history>>
    <3> DEFINE o == [op[p] EXCEPT !.pc = "audit"]
    <3>1. /\ op' = [op EXCEPT ![p] = o] /\ DOMAIN o = Fields /\ o.pc = "audit" /\ o.kind = op[p].kind
          /\ o.table = op[p].table /\ o.user = op[p].user /\ o.row = op[p].row /\ o.todo = op[p].todo
          /\ o.id = op[p].id
      BY <1>k, <2>3, Zenon DEF Goto, OpOK, Fields
    <3> HIDE DEF o
    <3>2. /\ o.pc \in FlyingPcs /\ (Past(o) <=> Past(op[p])) /\ \A w \in o.todo : w[1] # "tables"
      BY <1>k, <2>1, <3>1, Zenon DEF OpOK, Past, FlyingPcs, WritingPcs
    <3>3. UNCHANGED <<memory, acked, halfDropped>>
      BY <2>3 DEF history
    <3>4. \E t, i, tx, row : t # "tables" /\ Write(t, i, tx, row)
      BY <2>3
    <3> QED
      BY <2>1, <3>1, <3>2, <3>3, <3>4, FlyingMoves, Zenon
  <2> QED
    BY <1>7, <2>2, <2>3, Zenon DEF WriteHistory
<1>8. CASE AuditLog(p)
  <2>1. op[p].pc = "audit" /\ op[p].pc \in FlyingPcs
    BY <1>8, Zenon DEF AuditLog, At, FlyingPcs, WritingPcs
  <2>2. CASE Fail(p)
    BY <2>1, <2>2, FailMoves, Zenon
  <2>3. CASE /\ Write("audit", cache.next["audit"], op[p].tx, <<op[p].kind>>) /\ Goto(p, "apply")
             /\ UNCHANGED <<meta, memory, history>>
    <3> DEFINE o == [op[p] EXCEPT !.pc = "apply"]
    <3>1. /\ op' = [op EXCEPT ![p] = o] /\ DOMAIN o = Fields /\ o.pc = "apply" /\ o.kind = op[p].kind
          /\ o.table = op[p].table /\ o.user = op[p].user /\ o.row = op[p].row /\ o.todo = op[p].todo
          /\ o.id = op[p].id
      BY <1>k, <2>3, Zenon DEF Goto, OpOK, Fields
    <3> HIDE DEF o
    <3>2. /\ o.pc \in FlyingPcs /\ (Past(o) <=> Past(op[p])) /\ \A w \in o.todo : w[1] # "tables"
      BY <1>k, <2>1, <3>1, Zenon DEF OpOK, Past, FlyingPcs, WritingPcs
    <3>3. UNCHANGED <<memory, acked, halfDropped>>
      BY <2>3 DEF history
    <3>4. \E t, i, tx, row : t # "tables" /\ Write(t, i, tx, row)
      BY <2>3
    <3> QED
      BY <2>1, <3>1, <3>2, <3>3, <3>4, FlyingMoves, Zenon
  <2> QED
    BY <1>8, <2>2, <2>3, Zenon DEF AuditLog
<1>9. CASE Apply(p)
  <2>1. op[p].pc = "apply" /\ InFlight(p) /\ op[p].kind \in Kinds
    BY <1>9, <1>k, Zenon DEF Apply, At, OpOK, InFlight, Writing, FlyingPcs, WritingPcs
  <2>2. /\ op' = [op EXCEPT ![p] = Idle] /\ UNCHANGED <<store, started, halfDropped>>
        /\ cache' = Unmark(Applied(Advanced(cache, op[p]), op[p]), op[p])
        /\ op[p].kind \notin Creations => acked' = acked
    BY <1>9 DEF Apply, disk
  <2>3. /\ DOMAIN cache' = CacheFields /\ DOMAIN cache'.tables = DOMAIN cache.tables
        /\ cache'.pendingTables = cache.pendingTables \ {op[p].table}
        /\ cache'.pendingUsers = cache.pendingUsers \ {op[p].user}
        /\ op[p].kind \notin OnTables => cache'.tables = cache.tables
    <3>1. DOMAIN cache = CacheFields /\ op[p].kind \in Kinds
      BY <1>k, <2>1, Zenon
    <3>2. cache' = Unmark(Applied(Advanced(cache, op[p]), op[p]), op[p])
      BY <2>2
    <3>3. CacheAfter(cache, op[p], cache')
      BY <3>1, <3>2, CacheOps, Zenon
    <3>4. DOMAIN cache'.tables = DOMAIN cache.tables
      <4>1. CASE op[p].kind \in Creations
        BY <3>3, <4>1 DEF CacheAfter
      <4>2. CASE op[p].kind = "DropTable"
        BY <3>3, <4>2 DEF CacheAfter
      <4>3. CASE op[p].kind \notin OnTables
        BY <3>3, <4>3, Zenon DEF CacheAfter
      <4> QED
        BY <4>1, <4>2, <4>3, Zenon DEF OnTables
    <3> QED
      BY <3>3, <3>4, Zenon DEF CacheAfter
  <2>4. Moves(p, Idle)
    <3>1. Idle.pc \notin FlyingPcs
      BY DEF Idle, FlyingPcs, WritingPcs
    <3> QED
      BY <2>1, <2>2, <2>3, <3>1, IdleOK, Zenon DEF Moves, Leaves, MarkInv, CacheShape
  <2>5. op[p].kind \notin OnTables => Quiet(p, Idle)
    BY <2>2, <2>3, IdleOK, Zenon DEF Quiet, Done, OnTables
  <2> QED
    BY <1>9, <2>4, <2>5 DEF Applies
<1>10. CASE Cascade(p)
  <2> DEFINE o == [op[p] EXCEPT !.pc = "main", !.todo = Orphans(op[p])]
  <2>1. op[p].pc = "cascade" /\ op[p].pc \in FlyingPcs
    BY <1>10 DEF Cascade, At, FlyingPcs, WritingPcs
  <2>2. /\ op' = [op EXCEPT ![p] = o] /\ DOMAIN o = Fields /\ o.pc = "main"
        /\ o.kind = op[p].kind /\ o.table = op[p].table /\ o.user = op[p].user
        /\ o.row = op[p].row /\ o.todo = Orphans(op[p]) /\ o.id = op[p].id
    BY <1>10, <1>k, Zenon DEF OpOK, Fields, Cascade
  <2> HIDE DEF o
  <2>3. \A w \in Orphans(op[p]) : w[1] # "tables"
    BY DEF Orphans
  <2>4. o.pc \in FlyingPcs /\ (Past(o) <=> Past(op[p]))
    BY <2>1, <2>2 DEF Past, FlyingPcs, WritingPcs
  <2>5. UNCHANGED <<memory, acked, halfDropped>> /\ store' = store
    BY <1>10 DEF Cascade, disk, history
  <2> QED
    BY <2>1, <2>2, <2>3, <2>4, <2>5, FlyingMoves, Zenon
<1> QED
  BY <1>1, <1>2, <1>3, <1>4, <1>5, <1>6, <1>7, <1>8, <1>9, <1>10 DEF Working

\* A fault of the store: the operation returns, or an ignored error of the cascade.
LEMMA FaultMoves ==
  ASSUME MarkInv, StoreShape, NEW p \in Callers, WriteFails(p)
  PROVE  \E o : Moves(p, o) /\ Quiet(p, o)
<1>k. OpOK(op[p])
  BY Zenon DEF MarkInv
<1>1. /\ op[p].pc \in {"meta", "main", "history", "audit"} /\ op[p].pc \in FlyingPcs
      /\ UNCHANGED <<store, started, acked>>
  BY DEF WriteFails, disk, FlyingPcs, WritingPcs
<1>2. CASE /\ op' = [op EXCEPT ![p] = Idle] /\ cache' = Unmark(cache, op[p])
           /\ halfDropped' = halfDropped \cup HalfDone(op[p])
  BY <1>1, <1>2, ReturnMoves, Zenon
<1>3. CASE /\ \E w \in op[p].todo : op' = [op EXCEPT ![p].todo = @ \ {w}]
           /\ UNCHANGED <<cache, halfDropped>>
  <2>1. PICK w \in op[p].todo : op' = [op EXCEPT ![p].todo = @ \ {w}]
    BY <1>3, Zenon
  <2> DEFINE o == [op[p] EXCEPT !.todo = @ \ {w}]
  <2>2. /\ op' = [op EXCEPT ![p] = o] /\ DOMAIN o = Fields /\ o.pc = op[p].pc /\ o.kind = op[p].kind
        /\ o.table = op[p].table /\ o.user = op[p].user /\ o.row = op[p].row /\ o.todo = op[p].todo \ {w}
        /\ o.id = op[p].id
    BY <1>k, <2>1, Zenon DEF OpOK, Fields
  <2> HIDE DEF o
  <2>3. (\A v \in o.todo : v[1] # "tables") /\ (Past(o) <=> Past(op[p]))
    BY <1>k, <2>2, Zenon DEF OpOK, Past
  <2>4. UNCHANGED <<memory, acked, halfDropped>> /\ store' = store
    BY <1>1, <1>3 DEF WriteFails, memory
  <2> QED
    BY <1>1, <2>2, <2>3, <2>4, FlyingMoves, Zenon
<1> QED
  BY <1>2, <1>3 DEF WriteFails

\* A new cache has the shape of a cache and no markers.
LEMMA NewCacheShape ==
  /\ DOMAIN NewCache = CacheFields /\ NewCache.tables = [n \in TableNames |-> 0]
  /\ NewCache.pendingTables = {} /\ NewCache.pendingUsers = {}
  BY Zenon DEF NewCache, CacheFields

\* So has the one that Start loads.
LEMMA LoadedShape ==
  /\ DOMAIN Loaded = CacheFields /\ Loaded.tables = [n \in TableNames |-> IdOf("tables", n)]
  /\ Loaded.pendingTables = {} /\ Loaded.pendingUsers = {}
  BY NewCacheShape, Zenon DEF Loaded, CacheFields

\* With nothing in flight there are no marks.
LEMMA NobodyFlying ==
  ASSUME op = [p \in Callers |-> Idle], cache = NewCache
  PROVE  MarkInv
<1>1. \A p \in Callers : op[p] = Idle
  OBVIOUS
<1>2. Flying = {}
  BY <1>1, FlyingIs, IdleShape DEF Flying, FlyingPcs, WritingPcs
<1>3. Exact({}, {}, Tables) /\ Exact({}, {}, Users)
  BY DEF Exact
<1> QED
  BY <1>1, <1>2, <1>3, IdleOK, NewCacheShape, Zenon DEF MarkInv, CacheShape

\* Every step keeps MarkInv.
LEMMA MarkNext == MarkInv /\ TxInv /\ [Next]_vars => MarkInv'
<1> SUFFICES ASSUME MarkInv, StoreShape, [Next]_vars PROVE MarkInv'
  BY DEF TxInv
<1>1. ASSUME UNCHANGED op, cache'.pendingTables = cache.pendingTables, cache'.pendingUsers = cache.pendingUsers,
             CacheShape', ~started' => cache.pendingTables = {} /\ cache.pendingUsers = {}
      PROVE  MarkInv'
  <2>1. Flying' = Flying /\ Tables' = Tables /\ Users' = Users
    BY <1>1 DEF Flying, InFlight, Writing, Tables, Users
  <2> QED
    BY <1>1, <2>1 DEF MarkInv
<1>2. CASE Starting
  <2>1. cache.pendingTables = {} /\ cache.pendingUsers = {} /\ CacheShape
    BY <1>2, Zenon DEF Starting, MarkInv
  <2>2. UNCHANGED op /\ cache' \in {cache, Loaded}
    BY <1>2, Zenon DEF Starting, Start, LoadMeta, LoadCache, StartFails
  <2>3. CacheShape' /\ cache'.pendingTables = {} /\ cache'.pendingUsers = {}
    BY <2>1, <2>2, LoadedShape DEF CacheShape
  <2> QED
    BY <1>1, <2>1, <2>2, <2>3, Zenon
<1>3. CASE Stop
  <2>1. CacheShape' /\ cache'.pendingTables = {} /\ cache'.pendingUsers = {} /\ UNCHANGED op
    BY <1>3, NewCacheShape DEF Stop, CacheShape
  <2> QED
    BY <1>1, <1>3, <2>1 DEF Stop
<1>4. CASE Crash
  <2>1. (op = [p \in Callers |-> Idle] /\ cache = NewCache)'
    BY <1>4, Zenon DEF Crash, NewCache
  <2> QED
    BY <2>1, NobodyFlying, PTL
<1>5. CASE \E p \in Callers : Calling(p)
  BY <1>5, CallingMoves, MarkStep DEF Calling
<1>6. CASE \E p \in Callers : Working(p)
  BY <1>6, WorkingMoves, MarkStep
<1>7. CASE \E p \in Callers : WriteFails(p)
  BY <1>7, FaultMoves, MarkStep
<1>8. CASE UNCHANGED vars
  BY <1>1, <1>8, Zenon DEF vars, memory, MarkInv, CacheShape
<1> QED
  BY <1>2, <1>3, <1>4, <1>5, <1>6, <1>7, <1>8 DEF Next

\* The pending maps are exact: a mark is there for as long as the operation that made it
\* and no longer, so that no name has two operations, Stop is refused while a table or a
\* user has one, and accepted once they have returned, whichever way they did.
THEOREM PendingMarkersExact == Spec => []MarkersExact
<1>1. Init => MarkInv
  BY NobodyFlying DEF Init
<1>2. MarkInv => MarkersExact
  <2> SUFFICES ASSUME MarkInv PROVE MarkersExact
    OBVIOUS
  <2>1. \A q \in Flying : q \in Callers /\ Tables[q] = op[q].table /\ Users[q] = op[q].user
    BY DEF Flying, Tables, Users
  <2>2. Exact(cache.pendingTables, Flying, Tables) /\ Exact(cache.pendingUsers, Flying, Users)
    BY DEF MarkInv
  <2>3. cache.pendingTables = {op[p].table : p \in Flying} \ {NoName}
    BY <2>1, <2>2 DEF Exact
  <2>4. cache.pendingUsers = {op[p].user : p \in Flying} \ {NoName}
    BY <2>1, <2>2 DEF Exact
  <2>5. \A p, q \in Flying : p # q /\ op[p].table = op[q].table => op[p].table = NoName
    <3> SUFFICES ASSUME NEW p \in Flying, NEW q \in Flying, p # q, op[p].table = op[q].table
                 PROVE  op[p].table = NoName
      OBVIOUS
    <3>1. Tables[p] = Tables[q] /\ Tables[p] = op[p].table
      BY <2>1
    <3>2. Tables[p] = NoName
      BY <2>2, <3>1, Zenon DEF Exact
    <3> QED
      BY <3>1, <3>2
  <2>6. \A p, q \in Flying : p # q /\ op[p].user = op[q].user => op[p].user = NoName
    <3> SUFFICES ASSUME NEW p \in Flying, NEW q \in Flying, p # q, op[p].user = op[q].user
                 PROVE  op[p].user = NoName
      OBVIOUS
    <3>1. Users[p] = Users[q] /\ Users[p] = op[p].user
      BY <2>1
    <3>2. Users[p] = NoName
      BY <2>2, <3>1, Zenon DEF Exact
    <3> QED
      BY <3>1, <3>2
  <2>7. \A p, q \in Callers : p # q /\ InFlight(p) /\ InFlight(q) =>
          /\ op[p].table # op[q].table \/ op[p].table = NoName
          /\ op[p].user # op[q].user \/ op[p].user = NoName
    BY <2>5, <2>6, Zenon DEF Flying
  <2> QED
    BY <2>3, <2>4, <2>7, Zenon DEF MarkersExact, Flying, NoName
<1> QED
  BY <1>1, <1>2, TxInit, TxNext, MarkNext, PTL DEF Spec

-----------------------------------------------------------------------------
(* Acknowledged tables. *)

\* An operation on a table has its name for itself.
LEMMA OneEach ==
  ASSUME MarkInv, NEW p \in Callers, op[p].pc \in FlyingPcs, op[p].kind \in OnTables
  PROVE  /\ op[p].table \in TableNames /\ op[p].table \in cache.pendingTables
         /\ \A q \in Callers : op[q].pc \in FlyingPcs /\ op[q].table = op[p].table => q = p
<1>1. op[p].table \in TableNames /\ op[p].table # NoName
  BY Zenon DEF MarkInv, OpOK, OnTables, TableNames, NoName
<1>2. \A q \in Callers : op[q].pc \in FlyingPcs => q \in Flying /\ Tables[q] = op[q].table
  BY FlyingIs DEF Flying, Tables
<1>3. Exact(cache.pendingTables, Flying, Tables)
  BY DEF MarkInv
<1>4. op[p].table \in cache.pendingTables
  BY <1>1, <1>2, <1>3 DEF Exact
<1>5. ASSUME NEW q \in Callers, op[q].pc \in FlyingPcs, op[q].table = op[p].table, q # p
      PROVE  FALSE
  <2>1. Tables[p] = Tables[q] /\ Tables[p] = op[p].table /\ p \in Flying /\ q \in Flying
    BY <1>2, <1>5
  <2> QED
    BY <1>1, <1>3, <1>5, <2>1, Zenon DEF Exact
<1> QED
  BY <1>1, <1>4, <1>5

\* DropTable takes the id from the cache and withdraws the acknowledgement.
LEMMA AckDrop ==
  ASSUME MarkInv, AckInv, NEW p \in Callers, NEW c \in Calls, DropTable(p, c)
  PROVE  AckInv'
<1> DEFINE o == op'[p]
           i == cache.tables[c.table]
<1>1. /\ o.pc = "meta" /\ o.kind = "DropTable" /\ o.table = c.table /\ o.id = i
      /\ \A q \in Callers : q # p => op'[q] = op[q]
  BY DEF DropTable, Reserve, Called, Idle, MarkInv
<1>2. /\ UNCHANGED <<store, halfDropped>> /\ cache'.tables = cache.tables
      /\ acked' = [acked EXCEPT ![c.table] = 0]
  BY DEF DropTable, Reserve, disk, MarkInv, CacheShape, CacheFields
<1> HIDE DEF o
<1>3. c.table \in TableNames /\ c.table \notin cache.pendingTables /\ i # 0 /\ op[p].pc = "idle"
  BY CatalogAssumption, Zenon DEF DropTable, TableNames, At
<1>4. ~Made(o) /\ ~Done(op[p])
  BY <1>1, <1>3, Zenon DEF Made, Done, Past
<1>5. i \in halfDropped \/ Names(store["tables"], i, c.table)
  <2>1. CachedRow(store["tables"], halfDropped, op, i, c.table)
    BY <1>3 DEF AckInv, CachedRows
  <2>2. ASSUME NEW q \in Callers, Done(op[q]), op[q].table = c.table PROVE FALSE
    <3>1. op[q].pc \in FlyingPcs /\ op[q].kind \in OnTables
      BY <2>2 DEF Done, Past, FlyingPcs, WritingPcs, OnTables
    <3> QED
      BY <1>3, <2>2, <3>1, OneEach
  <2> QED
    BY <2>1, <2>2 DEF CachedRow
<1>6. AckedRows(store'["tables"], halfDropped', acked') /\ acked'[c.table] = 0
  BY <1>2, <1>3 DEF AckInv, AckedRows
<1>7. CachedRows(store'["tables"], halfDropped', op', cache'.tables)
  <2>1. \A q \in Callers : Done(op[q]) => op'[q] = op[q]
    BY <1>1, <1>4
  <2>2. ASSUME NEW n \in TableNames, cache.tables[n] # 0
        PROVE  CachedRow(store["tables"], halfDropped, op', cache.tables[n], n)
    <3>1. CachedRow(store["tables"], halfDropped, op, cache.tables[n], n)
      BY <2>2 DEF AckInv, CachedRows
    <3> QED
      BY <2>1, <3>1 DEF CachedRow
  <2> QED
    BY <1>2, <2>2 DEF CachedRows
<1>8. ASSUME NEW q \in Callers PROVE OwnRow(store'["tables"], halfDropped', acked', op'[q])
  <2>1. CASE q = p
    BY <1>1, <1>2, <1>4, <1>5, <1>6, <2>1 DEF OwnRow, o
  <2>2. CASE q # p
    <3>1. OwnRow(store["tables"], halfDropped, acked, op[q]) /\ op'[q] = op[q]
      BY <1>1, <2>2, Zenon DEF AckInv
    <3>2. Dropping(op[q]) => op[q].table \in TableNames
      BY OneEach DEF Dropping, OnTables
    <3> QED
      BY <1>2, <3>1, <3>2, Zenon DEF OwnRow, AckInv, AckedRows
  <2> QED
    BY <2>1, <2>2
<1> QED
  BY <1>6, <1>7, <1>8 DEF AckInv

\* The write of the row: an insertion needs a free id, and a deletion takes a row that
\* is the one of its table.
LEMMA AckRewrite ==
  ASSUME MarkInv, AckInv, StoreShape, NEW p \in Callers, NEW o, op' = [op EXCEPT ![p] = o], OpOK(op[p]),
         Rewrites(p, o)
  PROVE  AckInv'
<1> DEFINE R == store["tables"]
           S == store'["tables"]
           H == halfDropped
           i == op[p].id
           m == op[p].table
<1>1. op'[p] = o /\ \A q \in Callers : q # p => op'[q] = op[q]
  BY OpAfter, Zenon
<1>2. /\ op[p].pc = "main" /\ op[p].pc \in FlyingPcs /\ op[p].kind \in OnTables /\ i \in Ids
      /\ o.pc = "history" /\ o.kind = op[p].kind /\ o.id = i /\ o.table = m
      /\ UNCHANGED <<cache, acked, halfDropped>>
  BY DEF Rewrites, FlyingPcs, WritingPcs
<1>3. /\ \A j \in Ids : j # i => S[j] = R[j]
      /\ S[i].row = IF op[p].kind = "DropTable" THEN Gone ELSE op[p].row
  BY <1>2 DEF Rewrites, Write, StoreShape, SysTables
<1>4. m \in TableNames /\ \A q \in Callers : op[q].pc \in FlyingPcs /\ op[q].table = m => q = p
  BY <1>2, OneEach
<1> HIDE DEF R, S
<1>5. ~Done(op[p]) /\ ~Made(op[p]) /\ ~Ahead(o)
  BY <1>2 DEF Done, Made, Ahead, Past
<1>6. /\ AckedRows(R, H, acked) /\ CachedRows(R, H, op, cache.tables)
      /\ \A q \in Callers : OwnRow(R, H, acked, op[q])
  BY DEF AckInv, R
<1>7. \A q \in Callers : Done(op[q]) => op'[q] = op[q]
  BY <1>1, <1>5
<1>8. ASSUME AckedRows(S, H, acked), CachedRows(S, H, op', cache.tables),
              \A q \in Callers : OwnRow(S, H, acked, op'[q])
       PROVE  AckInv'
  BY <1>2, <1>8 DEF AckInv, S
<1>9. CASE op[p].kind # "DropTable"
  <2>1. op[p].kind \in Creations /\ R[i].row = Gone /\ S[i].row = <<m>>
    BY <1>2, <1>3, <1>9, Zenon DEF Rewrites, OnTables, OpOK, R
  <2>2. OwnRow(S, H, acked, o)
    BY <1>2, <1>5, <1>9, <2>1, Zenon DEF OwnRow, Dropping, Stored
  <2>3. \A j, n : Names(R, j, n) => Names(S, j, n)
    BY <1>3, <2>1 DEF Names
  <2>4. \A j, n : Stored(R, H, j, n) => Stored(S, H, j, n)
    <3>1. \A n : <<n>> # Gone
      BY DEF Gone
    <3> QED
      BY <1>3, <2>1, <3>1 DEF Stored
  <2>5. CachedRows(S, H, op', cache.tables)
    <3> SUFFICES ASSUME NEW n \in TableNames, CachedRow(R, H, op, cache.tables[n], n)
                 PROVE  CachedRow(S, H, op', cache.tables[n], n)
      BY <1>6, Zenon DEF CachedRows
    <3> QED
      BY <1>7, <2>3 DEF CachedRow
  <2>6. ASSUME NEW q \in Callers, q # p PROVE OwnRow(S, H, acked, op'[q])
    <3>1. OwnRow(R, H, acked, op[q]) /\ op'[q] = op[q]
      BY <1>1, <1>6, <2>6
    <3> QED
      BY <2>3, <2>4, <3>1, Zenon DEF OwnRow
  <2>7. AckedRows(S, H, acked)
    BY <1>6, <2>4 DEF AckedRows
  <2> QED
    BY <1>1, <1>8, <2>2, <2>5, <2>6, <2>7
<1>10. CASE op[p].kind = "DropTable"
  <2>1. Dropping(op[p]) /\ Ahead(op[p]) /\ Done(o) /\ ~Made(o) /\ R[i].row # Gone
    BY <1>2, <1>10 DEF Rewrites, Dropping, Ahead, Done, Made, Past, Creations, R
  <2>2. acked[m] = 0 /\ (i \in H \/ Names(R, i, m))
    BY <1>6, <2>1, Zenon DEF OwnRow
  <2>3. \A j, n : Names(R, j, n) => Names(S, j, n) \/ j \in H \/ (j = i /\ n = m)
    BY <1>3, <2>2 DEF Names
  <2>4. \A j, n : Stored(R, H, j, n) => Stored(S, H, j, n) \/ (j = i /\ n = m)
    <3>1. \A n : <<n>>[1] = n
      OBVIOUS
    <3> QED
      BY <1>3, <2>2, <3>1 DEF Stored, Names
  <2>5. AckedRows(S, H, acked)
    BY <1>6, <2>2, <2>4 DEF AckedRows
  <2>6. CachedRows(S, H, op', cache.tables)
    <3> SUFFICES ASSUME NEW n \in TableNames, CachedRow(R, H, op, cache.tables[n], n)
                 PROVE  CachedRow(S, H, op', cache.tables[n], n)
      BY <1>6, Zenon DEF CachedRows
    <3>1. CASE cache.tables[n] = i /\ n = m
      BY <1>1, <1>2, <2>1, <3>1, Zenon DEF CachedRow
    <3>2. CASE ~(cache.tables[n] = i /\ n = m)
      BY <1>7, <2>3, <3>2 DEF CachedRow
    <3> QED
      BY <3>1, <3>2
  <2>7. ASSUME NEW q \in Callers, q # p PROVE OwnRow(S, H, acked, op'[q])
    <3>1. OwnRow(R, H, acked, op[q]) /\ op'[q] = op[q]
      BY <1>1, <1>6, <2>7
    <3>2. op[q].pc \in FlyingPcs => op[q].table # m
      BY <1>4, <2>7
    <3>3. (Made(op[q]) \/ Ahead(op[q])) => op[q].pc \in FlyingPcs
      BY DEF Made, Ahead, Past, FlyingPcs, WritingPcs
    <3> QED
      BY <2>3, <2>4, <3>1, <3>2, <3>3, Zenon DEF OwnRow
  <2>8. OwnRow(S, H, acked, o)
    BY <1>2, <1>5, <2>1, <2>2, Zenon DEF OwnRow
  <2> QED
    BY <1>1, <1>8, <2>5, <2>6, <2>7, <2>8
<1> QED
  BY <1>9, <1>10

\* The last phase: the cache and the acknowledgement follow the row.
LEMMA AckApply ==
  ASSUME MarkInv, AckInv, NEW p \in Callers, op' = [op EXCEPT ![p] = Idle], Applies(p, Idle)
  PROVE  AckInv'
<1> DEFINE R == store["tables"]
           H == halfDropped
           i == op[p].id
           m == op[p].table
<1>1. op'[p] = Idle /\ \A q \in Callers : q # p => op'[q] = op[q]
  BY OpAfter, Zenon
<1>2. /\ op[p].pc = "apply" /\ op[p].pc \in FlyingPcs /\ op[p].kind \in OnTables /\ op[p].kind \in Kinds
      /\ UNCHANGED <<store, halfDropped>> /\ cache' = Unmark(Applied(Advanced(cache, op[p]), op[p]), op[p])
      /\ acked' = IF op[p].kind \in Creations THEN [acked EXCEPT ![m] = i] ELSE acked
  BY DEF Applies, Apply, At, disk, FlyingPcs, WritingPcs, OnTables, Kinds
<1>3. m \in TableNames /\ \A q \in Callers : op[q].pc \in FlyingPcs /\ op[q].table = m => q = p
  BY <1>2, OneEach, Zenon
<1>4. /\ DOMAIN cache = CacheFields /\ DOMAIN cache.tables = TableNames /\ DOMAIN acked = TableNames
  BY Zenon DEF MarkInv, CacheShape, AckInv, AckedRows
<1>5. /\ op[p].kind \in Creations => cache'.tables = [cache.tables EXCEPT ![m] = i]
      /\ op[p].kind = "DropTable" => cache'.tables = [cache.tables EXCEPT ![m] = 0]
  <2>1. DOMAIN cache = CacheFields /\ op[p].kind \in Kinds
    BY <1>2, <1>4, Zenon
  <2>2. cache' = Unmark(Applied(Advanced(cache, op[p]), op[p]), op[p])
    BY <1>2
  <2>3. CacheAfter(cache, op[p], cache')
    BY <2>1, <2>2, CacheOps, Zenon
  <2> QED
    BY <2>3, Zenon DEF CacheAfter
<1>6. ASSUME NEW q \in Callers, q # p PROVE op'[q] = op[q] /\ OwnRow(R, H, acked, op[q])
  BY <1>1, <1>6 DEF AckInv
<1>7. ASSUME NEW q \in Callers, q # p, Dropping(op[q])
      PROVE  op[q].table # m /\ op[q].table \in TableNames
  <2>1. op[q].pc \in FlyingPcs /\ op[q].kind \in OnTables
    BY <1>7 DEF Dropping, OnTables
  <2> QED
    BY <1>3, <1>7, <2>1, OneEach
<1>8. ASSUME NEW A, \A n \in TableNames : n # m => A[n] = acked[n], NEW q \in Callers
      PROVE  OwnRow(R, H, A, op'[q])
  <2>1. CASE q = p
    BY <1>1, <2>1, IdleOK DEF OwnRow
  <2>2. CASE q # p
    <3>1. op'[q] = op[q] /\ OwnRow(R, H, acked, op[q])
      BY <1>6, <2>2
    <3>2. Dropping(op[q]) => A[op[q].table] = acked[op[q].table]
      BY <1>7, <1>8, <2>2
    <3> QED
      BY <3>1, <3>2, Zenon DEF OwnRow
  <2> QED
    BY <2>1, <2>2
<1>9. ASSUME NEW n \in TableNames, n # m, cache.tables[n] # 0 PROVE CachedRow(R, H, op', cache.tables[n], n)
  <2>1. \A q \in Callers : op[q].table # m => op'[q] = op[q]
    BY <1>1
  <2>2. CachedRow(R, H, op, cache.tables[n], n)
    BY <1>9 DEF AckInv, CachedRows
  <2> QED
    BY <1>9, <2>1, <2>2 DEF CachedRow
<1>10. ASSUME AckedRows(R, H, acked'), CachedRows(R, H, op', cache'.tables),
              \A q \in Callers : OwnRow(R, H, acked', op'[q])
       PROVE  AckInv'
  BY <1>2, <1>10, Zenon DEF AckInv
<1>11. CASE op[p].kind \in Creations
  <2>1. Stored(R, H, i, m)
    BY <1>2, <1>11 DEF AckInv, OwnRow, Made, Past
  <2>2. CachedRow(R, H, op', i, m)
    <3>1. <<m>> # Gone /\ <<m>>[1] = m
      BY DEF Gone
    <3> QED
      BY <2>1, <3>1, Zenon DEF Stored, Names, CachedRow
  <2>3. /\ \A n \in TableNames : cache'.tables[n] = IF n = m THEN i ELSE cache.tables[n]
        /\ \A n \in TableNames : acked'[n] = IF n = m THEN i ELSE acked[n]
        /\ DOMAIN acked' = TableNames
    BY <1>2, <1>4, <1>5, <1>11, Zenon
  <2>4. AckedRows(R, H, acked')
    BY <2>1, <2>3 DEF AckInv, AckedRows
  <2>5. CachedRows(R, H, op', cache'.tables)
    BY <1>9, <2>2, <2>3, Zenon DEF CachedRows
  <2> QED
    BY <1>8, <1>10, <2>3, <2>4, <2>5, Zenon
<1>12. CASE op[p].kind = "DropTable"
  <2>1. acked' = acked /\ \A n \in TableNames : cache'.tables[n] = IF n = m THEN 0 ELSE cache.tables[n]
    BY <1>2, <1>4, <1>5, <1>12 DEF Creations
  <2>2. CachedRows(R, H, op', cache'.tables)
    BY <1>9, <2>1, Zenon DEF CachedRows
  <2>3. AckedRows(R, H, acked')
    BY <2>1 DEF AckInv
  <2> QED
    BY <1>8, <1>10, <2>1, <2>2, <2>3, Zenon
<1> QED
  BY <1>2, <1>11, <1>12 DEF OnTables

\* The largest of some ids and 0 is one of them.
LEMMA LargestId ==
  ASSUME NEW S \in SUBSET Ids, Max({0} \cup S) # 0
  PROVE  Max({0} \cup S) \in S
<1> DEFINE T == {MaxId - j : j \in {0} \cup S}
<1>1. MaxId \in Nat /\ T \in SUBSET Nat /\ T # {}
  <2>1. MaxId \in Nat
    BY CatalogAssumption, Zenon
  <2>2. \A j \in {0} \cup S : MaxId - j \in Nat
    BY <2>1 DEF Ids
  <2>3. MaxId - 0 \in T
    OBVIOUS
  <2> QED
    BY <2>1, <2>2, <2>3
<1>2. PICK x \in T : \A y \in T : ~(<<y, x>> \in OpToRel(<, Nat))
  <2> HIDE DEF T
  <2> QED
    BY <1>1, NatLessThanWellFounded, WFMin, Zenon
<1>3. \A y \in T : ~(y < x)
  <2> HIDE DEF T
  <2> QED
    BY <1>1, <1>2, Zenon DEF OpToRel
<1>4. PICK k \in {0} \cup S : x = MaxId - k
  OBVIOUS
<1>5. ASSUME NEW y \in {0} \cup S PROVE k >= y
  <2>1. MaxId - y \in T
    OBVIOUS
  <2>2. ~(MaxId - y < MaxId - k)
    BY <1>3, <1>4, <2>1
  <2> QED
    BY <1>1, <1>4, <2>2 DEF Ids
<1>6. Max({0} \cup S) \in {0} \cup S
  BY <1>5 DEF Max
<1> QED
  BY <1>6

\* loadCache takes an id from a row that has the name.
LEMMA AckLoad ==
  ASSUME AckInv, LoadCache
  PROVE  AckInv'
<1>1. UNCHANGED <<store, acked, halfDropped, op>> /\ cache'.tables = [n \in TableNames |-> IdOf("tables", n)]
  BY LoadedShape DEF LoadCache, disk, history
<1>2. ASSUME NEW n \in TableNames, IdOf("tables", n) # 0
      PROVE  Names(store["tables"], IdOf("tables", n), n)
  <2> DEFINE S == {i \in Scanned("tables") : store["tables"][i].row[1] = n}
  <2>1. S \in SUBSET Ids /\ \A i \in S : store["tables"][i].row # Gone /\ store["tables"][i].row[1] = n
    BY DEF Scanned
  <2> HIDE DEF S
  <2>2. IdOf("tables", n) \in S
    BY <1>2, <2>1, LargestId, Zenon DEF IdOf, S
  <2> QED
    BY <2>1, <2>2 DEF Names
<1>3. CachedRows(store["tables"], halfDropped, op, cache'.tables)
  BY <1>1, <1>2 DEF CachedRows, CachedRow
<1>4. AckedRows(store["tables"], halfDropped, acked) /\ \A p \in Callers : OwnRow(store["tables"], halfDropped, acked, op[p])
  BY DEF AckInv
<1> QED
  BY <1>1, <1>3, <1>4, Zenon DEF AckInv

\* Every step keeps AckInv.
LEMMA AckNext == AckInv /\ MarkInv /\ TxInv /\ [Next]_vars => AckInv'
<1> SUFFICES ASSUME AckInv, MarkInv, StoreShape, [Next]_vars PROVE AckInv'
  BY DEF TxInv
<1>n. ASSUME NEW T, \A n \in TableNames : T[n] = 0 PROVE CachedRows(store["tables"], halfDropped, op', T)
  BY <1>n DEF CachedRows
<1>a. AckedRows(store["tables"], halfDropped, acked) /\ \A p \in Callers : OwnRow(store["tables"], halfDropped, acked, op[p])
  BY DEF AckInv
<1>1. CASE Stop
  <2>1. UNCHANGED <<store, acked, halfDropped, op>> /\ \A n \in TableNames : cache'.tables[n] = 0
    BY <1>1, NewCacheShape DEF Stop, disk
  <2>2. CachedRows(store["tables"], halfDropped, op', cache'.tables)
    BY <1>n, <2>1
  <2> QED
    BY <1>a, <2>1, <2>2, Zenon DEF AckInv
<1>2. CASE Crash
  <2>1. /\ \A p \in Callers : op'[p] = Idle
        /\ UNCHANGED <<store, acked, halfDropped>> /\ \A n \in TableNames : cache'.tables[n] = 0
    BY <1>2, NewCacheShape DEF Crash, disk
  <2>2. CachedRows(store["tables"], halfDropped, op', cache'.tables)
    BY <1>n, <2>1
  <2>3. \A p \in Callers : OwnRow(store["tables"], halfDropped, acked, op'[p])
    BY <2>1, IdleOK DEF OwnRow
  <2> QED
    BY <1>a, <2>1, <2>2, <2>3, Zenon DEF AckInv
<1>3. ASSUME NEW p \in Callers, NEW o, Moves(p, o), Quiet(p, o) PROVE AckInv'
  BY <1>3, AckQuiet, Zenon DEF Moves
<1>4. CASE \E p \in Callers : Calling(p)
  BY <1>3, <1>4, CallingMoves, AckDrop DEF Calling
<1>5. CASE \E p \in Callers : Working(p)
  <2>1. PICK p \in Callers : Working(p)
    BY <1>5
  <2>2. PICK o : Moves(p, o) /\ (Quiet(p, o) \/ Rewrites(p, o) \/ Applies(p, o))
    BY <2>1, WorkingMoves
  <2>3. CASE Quiet(p, o)
    BY <1>3, <2>2, <2>3
  <2>4. CASE Rewrites(p, o)
    BY <2>2, <2>4, AckRewrite, Zenon DEF Moves, MarkInv
  <2>5. CASE Applies(p, o)
    BY <2>2, <2>5, AckApply, Zenon DEF Moves, Applies
  <2> QED
    BY <2>2, <2>3, <2>4, <2>5
<1>6. CASE \E p \in Callers : WriteFails(p)
  BY <1>3, <1>6, FaultMoves
<1>7. CASE UNCHANGED vars
  BY <1>7, Zenon DEF vars, disk, memory, history, AckInv
<1>8. CASE Start \/ LoadMeta \/ StartFails
  BY <1>8, Zenon DEF Start, LoadMeta, StartFails, disk, history, AckInv
<1> QED
  BY <1>1, <1>2, <1>4, <1>5, <1>6, <1>7, <1>8, AckLoad DEF Next, Starting

\* A table whose creation was acknowledged keeps its row until it is dropped, through
\* every crash, restart, fault and race for an id, but where a DropTable that failed
\* half-way had removed the id before: what such a failure leaves in the cache is the one
\* way in which another table's row is taken.
THEOREM AckedTablesStay == Spec => []AckDurable
<1>1. Init => AckInv
  <2> SUFFICES ASSUME Init PROVE AckInv
    OBVIOUS
  <2>1. \A p \in Callers : op[p] = Idle
    BY DEF Init
  <2>2. AckedRows(store["tables"], halfDropped, acked)
    BY DEF Init, AckedRows
  <2>3. CachedRows(store["tables"], halfDropped, op, cache.tables)
    BY NewCacheShape DEF Init, CachedRows
  <2>4. \A p \in Callers : OwnRow(store["tables"], halfDropped, acked, op[p])
    BY <2>1, IdleOK DEF OwnRow
  <2> QED
    BY <2>2, <2>3, <2>4 DEF AckInv
<1>2. Init => MarkInv
  BY NobodyFlying DEF Init
<1>3. AckInv => AckDurable
  BY Zenon DEF AckInv, AckDurable, AckedRows, Stored
<1> QED
  BY <1>1, <1>2, <1>3, TxInit, TxNext, MarkNext, AckNext, PTL DEF Spec
=============================================================================
