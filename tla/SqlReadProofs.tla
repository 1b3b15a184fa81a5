-------------------------- MODULE SqlReadProofs --------------------------
(* The inductive invariant of SqlEngine, its types, and that the steps of a     *)
(* SELECT keep it.                                                             *)
EXTENDS SqlEngine, HeapProofs

Reading == {"add", "load", "store", "lookup", "plan", "scan", "rows"}

SessType ==
    [pc : {"idle", "lock", "insert"} \cup Reading, id : Nat, rows : Seq(PKs),
     filter : SUBSET PKs, plan : SUBSET PKs, before : SUBSET Versions,
     snap : SUBSET (PKs \X Versions), out : SUBSET (PKs \X Versions)]

LogType == [rows : SUBSET PKs, outcome : {"none", "open", "ok", "conflict", "error"}]

SqlTypeOK ==
    /\ cells \in [PKs -> Row] /\ ~vac.on
    /\ nextRead \in Nat /\ nextWrite \in Nat \ {0} /\ lastWriteTxID \in Nat
    /\ mu \in Sessions \cup {Nobody} /\ cache \subseteq SUBSET PKs
    /\ sess \in [Sessions -> SessType]
    /\ log \in [Versions -> LogType]

\* A key has one version at most, and no tombstone: UPDATE and DELETE find no rows, and an
\* INSERT of a key that is there is refused at any id.  What an INSERT that returned has
\* written is there.
TableInv ==
    /\ \A k \in PKs, v, w \in Versions : cells[k][v] # Missing /\ cells[k][w] # Missing => v = w
    /\ \A k \in PKs, v \in Versions : cells[k][v] # Tombstone
    /\ attached => \A k \in PKs, v \in Versions : cells[k][v] # Missing => v <= nextWrite
    /\ \A w \in Versions : log[w].outcome # "none" => w <= nextWrite
    /\ \A w \in Returned : w <= lastWriteTxID /\ \A k \in log[w].rows : cells[k][w] # Missing

Writer(s) == sess[s].pc \in {"lock", "insert"}
Inserting(w) == \E s \in Sessions : At(s, "insert") /\ sess[s].id = w

\* The session that inserts holds the lock, with an id above that of every INSERT that
\* returned; the rows it is through with are stored.
WriterInv(s) ==
    /\ At(s, "insert") <=> mu = s
    /\ Writer(s) =>
         /\ attached /\ sess[s].id \in Versions /\ sess[s].id <= nextWrite
         /\ log[sess[s].id].outcome = "open"
         /\ \A k \in log[sess[s].id].rows : k \in Elements(sess[s].rows) \/ cells[k][sess[s].id] # Missing
    /\ At(s, "lock") => \A k \in PKs : cells[k][sess[s].id] = Missing
    /\ At(s, "insert") => sess[s].id > lastWriteTxID

\* A reader's id reaches every INSERT that had returned when it began.  If it has seen a row
\* of an INSERT that returned or still holds the lock, no smaller INSERT can return that it
\* has not seen.
ReaderInv(s) ==
    /\ sess[s].pc \in Reading => sess[s].before \subseteq Returned
    /\ sess[s].pc \in {"lookup", "plan", "scan"} => \A w \in sess[s].before : w <= sess[s].id
    /\ At(s, "rows") =>
         /\ sess[s].out = Delivered(sess[s].snap, sess[s].plan)
         /\ \A w \in sess[s].before : \A k \in log[w].rows : <<k, w>> \in sess[s].snap
         /\ \A k \in PKs, v \in Versions : <<k, v>> \in sess[s].snap => cells[k][v] # Missing
         /\ \A k \in PKs, v \in Versions, w \in Returned :
               (<<k, v>> \in sess[s].snap /\ w < v /\ (v \in Returned \/ Inserting(v))) =>
                   \A j \in log[w].rows : <<j, w>> \in sess[s].snap

OwnIds == \A s, t \in Sessions : Writer(s) /\ Writer(t) /\ sess[s].id = sess[t].id => s = t

SqlInv ==
    /\ SqlTypeOK /\ TableInv /\ OwnIds
    /\ \A s \in Sessions : WriterInv(s) /\ ReaderInv(s)

-----------------------------------------------------------------------------
(* Types. *)

\* Transaction ids are natural numbers.
LEMMA VersionsNat == MaxTx \in Nat /\ \A w \in Versions : w \in Nat
<1>1. MaxTx \in Nat
  BY HeapAssumption
<1> QED
  BY <1>1 DEF Versions

\* The first state of a process has the types.
LEMMA SqlTypeInit == SqlInit => SqlTypeOK
  BY HeapAssumption, SqlEngineAssumption
  DEF SqlInit, Init, SqlTypeOK, Quiet, Unused, Idle, SessType, LogType, Row, Cell, Nobody, Versions

\* What the sessions hold between two statements has the type.
LEMMA QuietType == Quiet \in SessType /\ Quiet.pc = "idle"
  BY DEF Quiet, SessType

\* The outcome of an INSERT is recorded in the log.
LEMMA FinishedType ==
    ASSUME SqlTypeOK, NEW w, NEW o \in {"ok", "conflict", "error"}, Finished(w, o)
    PROVE  log' \in [Versions -> LogType]
<1>1. ASSUME NEW v \in Versions PROVE [log[v] EXCEPT !.outcome = o] \in LogType
  BY DEF SqlTypeOK, LogType
<1>2. log' = [log EXCEPT ![w] = [log[w] EXCEPT !.outcome = o]]
  BY DEF Finished
<1> QED
  BY <1>1, <1>2 DEF SqlTypeOK

\* Every step of a session keeps the types.
LEMMA SqlTypeStep ==
    ASSUME SqlTypeOK, SqlNext
    PROVE  SqlTypeOK'
<1> USE QuietType
<1>0. /\ \A s \in Sessions : sess[s] \in SessType
      /\ nextRead + 1 \in Nat /\ nextWrite \in Nat
  BY DEF SqlTypeOK
<1>1. ASSUME NEW s \in Sessions, NEW batch \in Batches, ExecInsert(s, batch) PROVE SqlTypeOK'
  <2>1. nextWrite' \in Versions /\ nextWrite' \in Nat \ {0}
    BY <1>1, HeapAssumption DEF SqlTypeOK, ExecInsert, NextWriteTx, Versions
  <2>2. [Quiet EXCEPT !.pc = "lock", !.id = nextWrite', !.rows = batch] \in SessType
    BY <2>1, SqlEngineAssumption DEF Quiet, SessType
  <2>3. [rows |-> Elements(batch), outcome |-> "open"] \in LogType
    BY SqlEngineAssumption DEF Elements, LogType
  <2> QED
    BY <1>1, <2>1, <2>2, <2>3 DEF SqlTypeOK, ExecInsert, Step, vars
<1>2. ASSUME NEW s \in Sessions, ExecMutation(s) PROVE SqlTypeOK'
  BY <1>2 DEF SqlTypeOK, ExecMutation, NextWriteTx, vars
<1>3. ASSUME NEW s \in Sessions, NEW filter \in Filters, ExecSelect(s, filter) PROVE SqlTypeOK'
  <2>1. [Quiet EXCEPT !.pc = "add", !.filter = filter, !.before = Returned] \in SessType
    BY SqlEngineAssumption DEF Quiet, SessType, Returned, Reading
  <2> QED
    BY <1>3, <2>1 DEF SqlTypeOK, ExecSelect, Step, vars, engine
<1>4. ASSUME NEW s \in Sessions, InsertBatch(s) PROVE SqlTypeOK'
  <2>1. [sess[s] EXCEPT !.pc = "insert"] \in SessType
    BY DEF SqlTypeOK, SessType
  <2> QED
    BY <1>4, <2>1, FinishedType DEF SqlTypeOK, InsertBatch, Step, vars
<1>5. ASSUME NEW s \in Sessions, InsertRow(s) PROVE SqlTypeOK'
  <2>1. sess[s].rows \in Seq(PKs) /\ sess[s].rows # <<>>
    BY <1>5 DEF SqlTypeOK, SessType, InsertRow
  <2>2. Head(sess[s].rows) \in PKs /\ Tail(sess[s].rows) \in Seq(PKs)
    BY <2>1
  <2>3. [sess[s] EXCEPT !.rows = Tail(sess[s].rows)] \in SessType
    BY <2>2 DEF SqlTypeOK, SessType
  <2>4. PICK v \in Values : Insert(Head(sess[s].rows), v, sess[s].id)
    BY <1>5 DEF InsertRow
  <2>5. [cells[Head(sess[s].rows)] EXCEPT ![sess[s].id] = v] \in Row
    BY <2>2 DEF SqlTypeOK, Row, Cell
  <2> QED
    BY <1>5, <2>2, <2>3, <2>4, <2>5 DEF SqlTypeOK, InsertRow, Insert, Put, Step, engine
<1>6. ASSUME NEW s \in Sessions, InsertFails(s) PROVE SqlTypeOK'
  BY <1>6, FinishedType DEF SqlTypeOK, InsertFails, Step, vars
<1>7. ASSUME NEW s \in Sessions, InsertDone(s) PROVE SqlTypeOK'
  <2>1. sess[s].id \in Nat
    BY DEF SqlTypeOK, SessType
  <2> QED
    BY <1>7, <2>1, FinishedType DEF SqlTypeOK, InsertDone, Step, vars
<1>8. ASSUME NEW s \in Sessions, NextReadAdd(s) PROVE SqlTypeOK'
  <2>1. [sess[s] EXCEPT !.pc = "load", !.id = nextRead + 1] \in SessType
    BY <1>0 DEF SessType, Reading
  <2> QED
    BY <1>8, <2>1 DEF SqlTypeOK, NextReadAdd, Step, vars
<1>9. ASSUME NEW s \in Sessions, NextReadLoad(s) PROVE SqlTypeOK'
  <2>1. /\ [sess[s] EXCEPT !.pc = "lookup"] \in SessType
        /\ [sess[s] EXCEPT !.pc = "store", !.id = nextWrite] \in SessType
    BY <1>0 DEF SessType, Reading
  <2> QED
    BY <1>9, <2>1 DEF SqlTypeOK, NextReadLoad, Step, vars, engine
<1>10. ASSUME NEW s \in Sessions, NextReadStore(s) PROVE SqlTypeOK'
  <2>1. [sess[s] EXCEPT !.pc = "add"] \in SessType /\ sess[s].id \in Nat
    BY <1>0 DEF SessType, Reading
  <2> QED
    BY <1>10, <2>1 DEF SqlTypeOK, NextReadStore, Step, vars
<1>11. ASSUME NEW s \in Sessions, Lookup(s) PROVE SqlTypeOK'
  <2>1. \A x \in SUBSET PKs, next \in {"plan", "scan"} :
            [sess[s] EXCEPT !.pc = next, !.plan = x] \in SessType
    BY <1>0 DEF SessType, Reading
  <2>2. PICK next \in SessType : Step(s, next)
    <3>1. sess[s].filter \in SUBSET PKs /\ cache \subseteq SUBSET PKs
      BY <1>0 DEF SqlTypeOK, SessType
    <3> QED
      BY <1>11, <2>1, <3>1 DEF Lookup
  <2> QED
    BY <1>11, <2>2 DEF SqlTypeOK, Lookup, Step, vars, engine
<1>12. ASSUME NEW s \in Sessions, StorePlan(s) PROVE SqlTypeOK'
  <2>1. [sess[s] EXCEPT !.pc = "scan"] \in SessType /\ sess[s].plan \subseteq PKs
    BY <1>0 DEF SessType, Reading
  <2> QED
    BY <1>12, <2>1 DEF SqlTypeOK, StorePlan, Step, vars
<1>13. ASSUME NEW s \in Sessions, Scan(s) PROVE SqlTypeOK'
  <2> DEFINE seen == {j \in PKs : VisibleRow(cells[j], sess[s].id) # Absent}
  <2> DEFINE new == {<<k, Newest(Stored(cells[k], sess[s].id))>> : k \in seen}
  <2> DEFINE out == Delivered(new, sess[s].plan)
  <2>1. ASSUME NEW k \in seen PROVE Newest(Stored(cells[k], sess[s].id)) \in Versions
    <3>1. Stored(cells[k], sess[s].id) \in SUBSET Versions /\ Stored(cells[k], sess[s].id) # {}
      BY DEF Stored, VisibleRow
    <3> QED
      BY <3>1, NewestIsLast
  <2>2. new \in SUBSET (PKs \X Versions) /\ out \subseteq new
    BY <2>1 DEF Delivered
  <2>3. sess' = [sess EXCEPT ![s] = [sess[s] EXCEPT !.pc = "rows", !.snap = new, !.out = out]]
    BY <1>13 DEF Scan, Step
  <2> HIDE DEF new, out
  <2>4. [sess[s] EXCEPT !.pc = "rows", !.snap = new, !.out = out] \in SessType
    <3>1. sess[s] \in SessType /\ new \in SUBSET (PKs \X Versions) /\ out \in SUBSET (PKs \X Versions)
      BY <1>0, <2>2
    <3> QED
      BY <3>1 DEF SessType, Reading
  <2> QED
    BY <1>13, <2>3, <2>4 DEF SqlTypeOK, Scan, vars, engine
<1>14. ASSUME NEW s \in Sessions, ScanRefused(s) \/ CloseRows(s) PROVE SqlTypeOK'
  BY <1>14 DEF SqlTypeOK, ScanRefused, CloseRows, Step, vars, engine
<1>15. CASE Restart
  <2>1. Unused \in LogType
    BY DEF Unused, LogType
  <2> QED
    BY <1>15, <2>1 DEF SqlTypeOK, Restart, vars
<1> QED
  BY <1>1, <1>2, <1>3, <1>4, <1>5, <1>6, <1>7, <1>8, <1>9, <1>10, <1>11, <1>12, <1>13,
     <1>14, <1>15 DEF SqlNext, Run

-----------------------------------------------------------------------------
(* Steps of a SELECT. *)

\* A step that leaves the table, the log and the lock alone disturbs no other session:
\* only what the session itself knows has to be shown.
LEMMA ReadStep ==
    ASSUME SqlInv, SqlTypeOK', NEW s \in Sessions,
           \A t \in Sessions \ {s} : sess'[t] = sess[t],
           UNCHANGED <<cells, log, nextWrite, attached, mu, lastWriteTxID>>,
           ~Writer(s), ~Writer(s)', ReaderInv(s)'
    PROVE  SqlInv'
<1>1. \A t \in Sessions : Writer(t)' => Writer(t) /\ sess'[t] = sess[t]
  BY DEF Writer
<1>2. TableInv'
  BY DEF SqlInv, TableInv, Returned
<1>3. OwnIds'
  BY <1>1 DEF SqlInv, OwnIds
<1>4. \A t \in Sessions : WriterInv(t)'
  <2>1. WriterInv(s)'
    BY DEF SqlInv, WriterInv, Writer, At
  <2>2. ASSUME NEW t \in Sessions \ {s} PROVE WriterInv(t)'
    BY <2>2 DEF SqlInv, WriterInv, Writer, At
  <2> QED
    BY <2>1, <2>2
<1>5. \A v : Inserting(v)' => Inserting(v)
  BY <1>1 DEF Inserting, Writer, At
<1>6. ASSUME NEW t \in Sessions \ {s} PROVE ReaderInv(t)'
  BY <1>5, <1>6 DEF SqlInv, ReaderInv, Returned, At
<1> QED
  BY <1>2, <1>3, <1>4, <1>6 DEF SqlInv

\* A row with one version at most, and no tombstone, is visible from that version on.
LEMMA OneVersion ==
    ASSUME SqlTypeOK, TableInv, NEW k \in PKs, NEW w \in Versions, NEW t \in Nat,
           cells[k][w] # Missing, w <= t
    PROVE  VisibleRow(cells[k], t) # Absent /\ Newest(Stored(cells[k], t)) = w
<1>1. cells[k] \in Row
  BY DEF SqlTypeOK
<1>2. Stored(cells[k], t) = {w}
  BY DEF Stored, TableInv
<1>3. Newest(Stored(cells[k], t)) = w
  <2>1. w <= w
    BY HeapAssumption DEF Versions
  <2> QED
    BY <1>2, <2>1, NewestUnique
<1>4. cells[k][w] \in Values
  BY <1>1 DEF Row, Cell, TableInv
<1> QED
  BY <1>2, <1>3, <1>4, HeapAssumption DEF VisibleRow

\* A row that a SELECT sees is stored at the version it sees, which its id reaches.
LEMMA SeenStored ==
    ASSUME NEW k \in PKs, NEW t \in Nat, VisibleRow(cells[k], t) # Absent
    PROVE  LET v == Newest(Stored(cells[k], t))
           IN v \in Versions /\ v <= t /\ cells[k][v] # Missing
<1>1. Stored(cells[k], t) \in SUBSET Versions /\ Stored(cells[k], t) # {}
  BY DEF Stored, VisibleRow
<1>2. Newest(Stored(cells[k], t)) \in Stored(cells[k], t)
  BY <1>1, NewestIsLast
<1> QED
  BY <1>2 DEF Stored

\* The scan collects every INSERT up to its id.
LEMMA ScanStep ==
    ASSUME SqlInv, SqlTypeOK', NEW s \in Sessions, Scan(s)
    PROVE  SqlInv'
<1> DEFINE t == sess[s].id
           snap == sess'[s].snap
<1>1. /\ sess'[s].pc = "rows" /\ sess'[s].before = sess[s].before
      /\ snap = {<<k, Newest(Stored(cells[k], t))>> :
                    k \in {j \in PKs : VisibleRow(cells[j], t) # Absent}}
      /\ sess'[s].out = Delivered(snap, sess'[s].plan)
      /\ \A u \in Sessions \ {s} : sess'[u] = sess[u]
      /\ UNCHANGED <<cells, log, nextWrite, attached, mu, lastWriteTxID>>
  <2>1. sess \in [Sessions -> SessType]
    BY DEF SqlInv, SqlTypeOK
  <2> DEFINE seen == {<<k, Newest(Stored(cells[k], t))>> :
                        k \in {j \in PKs : VisibleRow(cells[j], t) # Absent}}
             out == Delivered(seen, sess[s].plan)
  <2>2. sess' = [sess EXCEPT ![s] = [sess[s] EXCEPT !.pc = "rows", !.snap = seen, !.out = out]]
    BY DEF Scan, Step
  <2> HIDE DEF t, seen, out
  <2>3. sess'[s] = [sess[s] EXCEPT !.pc = "rows", !.snap = seen, !.out = out]
    BY <2>1, <2>2
  <2>4. sess[s] \in SessType /\ \A u \in Sessions \ {s} : sess'[u] = sess[u]
    BY <2>1, <2>2
  <2>5. UNCHANGED <<cells, log, nextWrite, attached, mu, lastWriteTxID>>
    BY DEF Scan, vars, engine
  <2>6. /\ sess'[s].pc = "rows" /\ sess'[s].before = sess[s].before
        /\ sess'[s].plan = sess[s].plan /\ sess'[s].snap = seen /\ sess'[s].out = out
    BY <2>3, <2>4 DEF SessType
  <2> QED
    BY <2>4, <2>5, <2>6 DEF seen, out
<1>2. t \in Nat /\ sess[s].before \in SUBSET Versions
  BY DEF SqlInv, SqlTypeOK, SessType
<1>3. sess[s].pc = "scan"
  BY DEF Scan, At
<1> HIDE DEF t, snap
<1>4. ASSUME NEW w \in Versions, w \in Returned, w <= t, NEW k \in log[w].rows
      PROVE  <<k, w>> \in snap
  <2>1. k \in PKs /\ cells[k][w] # Missing
    BY <1>4 DEF SqlInv, TableInv, SqlTypeOK, LogType
  <2>2. VisibleRow(cells[k], t) # Absent /\ Newest(Stored(cells[k], t)) = w
    BY <1>2, <1>4, <2>1, OneVersion DEF SqlInv
  <2> QED
    BY <1>1, <2>1, <2>2
<1>5. ASSUME NEW k \in PKs, NEW v \in Versions, <<k, v>> \in snap
      PROVE  v <= t /\ cells[k][v] # Missing
  <2>1. VisibleRow(cells[k], t) # Absent /\ v = Newest(Stored(cells[k], t))
    BY <1>1, <1>5
  <2> QED
    BY <1>2, <2>1, SeenStored
<1>6. \A w \in sess[s].before : w \in Versions /\ w \in Returned /\ w <= t
  BY <1>2, <1>3 DEF SqlInv, ReaderInv, Reading, t
<1>7. Returned' = Returned /\ Returned \subseteq Versions
  BY <1>1 DEF Returned
<1>8. \A v \in Versions, w \in Versions : v <= t /\ w < v => w <= t
  BY <1>2, HeapAssumption DEF Versions
<1>9. ReaderInv(s)'
  <2>1. (sess[s].before \subseteq Returned)'
    BY <1>1, <1>6, <1>7
  <2>2. (\A w \in sess[s].before : \A k \in log[w].rows : <<k, w>> \in sess[s].snap)'
    BY <1>1, <1>4, <1>6 DEF snap
  <2>3. (\A k \in PKs, v \in Versions : <<k, v>> \in sess[s].snap => cells[k][v] # Missing)'
    BY <1>1, <1>5 DEF snap
  <2>4. (\A k \in PKs, v \in Versions, w \in Returned : <<k, v>> \in sess[s].snap /\ w < v =>
            \A j \in log[w].rows : <<j, w>> \in sess[s].snap)'
    BY <1>1, <1>4, <1>5, <1>7, <1>8 DEF snap
  <2>5. (sess[s].out = Delivered(sess[s].snap, sess[s].plan))'
    BY <1>1 DEF snap, Delivered
  <2> QED
    BY <1>1, <2>1, <2>2, <2>3, <2>4, <2>5 DEF ReaderInv, At
<1> QED
  BY <1>1, <1>3, <1>9, ReadStep DEF Writer

\* The id that NextReadTx returns is at least the write counter it has loaded, and so
\* reaches every INSERT that had returned.
LEMMA SelectStep ==
    ASSUME SqlInv, SqlTypeOK', NEW s \in Sessions,
           \/ \E filter \in Filters : ExecSelect(s, filter)
           \/ NextReadAdd(s) \/ NextReadLoad(s) \/ NextReadStore(s)
           \/ Lookup(s) \/ StorePlan(s) \/ ScanRefused(s) \/ CloseRows(s)
    PROVE  SqlInv'
<1>1. /\ \A u \in Sessions \ {s} : sess'[u] = sess[u]
      /\ UNCHANGED <<cells, log, nextWrite, attached, mu, lastWriteTxID>>
      /\ sess \in [Sessions -> SessType]
  BY DEF ExecSelect, NextReadAdd, NextReadLoad, NextReadStore, Lookup, StorePlan, ScanRefused,
         CloseRows, Step, SqlInv, SqlTypeOK, vars, engine
<1>2. Returned' = Returned
  BY <1>1 DEF Returned
<1> USE DEF At, Step
<1>3. ASSUME NEW filter \in Filters, ExecSelect(s, filter) PROVE SqlInv'
  <2>1. sess[s].pc = "idle" /\ sess'[s].pc = "add" /\ sess'[s].before = Returned
    BY <1>1, <1>3 DEF ExecSelect, Quiet
  <2> QED
    BY <1>1, <1>2, <2>1, ReadStep DEF ReaderInv, Writer
<1>4. CASE NextReadAdd(s)
  <2>1. sess[s].pc = "add" /\ sess'[s].pc = "load" /\ sess'[s].before = sess[s].before
    BY <1>1, <1>4 DEF NextReadAdd, SessType
  <2> QED
    BY <1>1, <1>2, <2>1, ReadStep DEF SqlInv, ReaderInv, Writer, Reading
<1>5. CASE NextReadLoad(s)
  <2>1. /\ sess[s].pc = "load" /\ sess'[s].before = sess[s].before
        /\ \/ sess'[s].pc = "store"
           \/ sess'[s].pc = "lookup" /\ sess'[s].id = sess[s].id /\ sess[s].id >= nextWrite
    BY <1>1, <1>5 DEF NextReadLoad, SessType
  <2>2. sess[s].before \subseteq Returned /\ \A w \in Returned : w <= nextWrite
    BY <2>1 DEF SqlInv, ReaderInv, TableInv, Returned, Reading
  <2>3. \A w \in Returned : w \in Nat
    BY VersionsNat DEF Returned
  <2>4. sess[s].id \in Nat /\ nextWrite \in Nat
    BY <1>1 DEF SqlInv, SqlTypeOK, SessType
  <2>5. ReaderInv(s)'
    <3>1. sess'[s].pc = "lookup" => \A w \in sess[s].before : w <= sess'[s].id
      BY <2>1, <2>2, <2>3, <2>4
    <3> QED
      BY <1>2, <2>1, <2>2, <3>1 DEF ReaderInv
  <2> QED
    BY <1>1, <2>1, <2>5, ReadStep DEF Writer
<1>6. CASE NextReadStore(s)
  <2>1. sess[s].pc = "store" /\ sess'[s].pc = "add" /\ sess'[s].before = sess[s].before
    BY <1>1, <1>6 DEF NextReadStore, SessType
  <2> QED
    BY <1>1, <1>2, <2>1, ReadStep DEF SqlInv, ReaderInv, Writer, Reading
<1>7. CASE Lookup(s) \/ StorePlan(s)
  <2>1. /\ sess[s].pc \in {"lookup", "plan"} /\ sess'[s].pc \in {"plan", "scan"}
        /\ sess'[s].before = sess[s].before /\ sess'[s].id = sess[s].id
    <3>1. CASE Lookup(s)
      <4>1. PICK next \in {"plan", "scan"}, x \in {sess[s].filter} \cup cache :
              sess' = [sess EXCEPT ![s] = [sess[s] EXCEPT !.pc = next, !.plan = x]]
        BY <3>1 DEF Lookup, Step
      <4>2. sess[s] \in SessType /\ sess'[s] = [sess[s] EXCEPT !.pc = next, !.plan = x]
        BY <1>1, <4>1
      <4> QED
        BY <3>1, <4>2 DEF Lookup, SessType
    <3>2. CASE StorePlan(s)
      BY <1>1, <3>2 DEF StorePlan, SessType
    <3> QED
      BY <1>7, <3>1, <3>2
  <2> QED
    BY <1>1, <1>2, <2>1, ReadStep DEF SqlInv, ReaderInv, Writer, Reading
<1>8. CASE ScanRefused(s) \/ CloseRows(s)
  <2>1. sess[s].pc \in {"scan", "rows"} /\ sess'[s].pc = "idle"
    <3>1. sess'[s] = Quiet
      BY <1>1, <1>8 DEF ScanRefused, CloseRows
    <3> QED
      BY <1>8, <3>1, QuietType DEF ScanRefused, CloseRows
  <2> QED
    BY <1>1, <2>1, ReadStep DEF ReaderInv, Writer, Reading
<1> QED
  BY <1>3, <1>4, <1>5, <1>6, <1>7, <1>8
=============================================================================
