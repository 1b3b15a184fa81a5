----------------------------- MODULE SqlProofs -----------------------------
(* What a SELECT sees, for any number of sessions, keys and transactions: the   *)
(* steps of an INSERT keep the invariant of SqlReadProofs, and the theorems.    *)
EXTENDS SqlReadProofs

-----------------------------------------------------------------------------
(* Steps of an INSERT. *)

\* An INSERT gets an id that no row and no other INSERT has.
LEMMA BeginStep ==
    ASSUME SqlInv, SqlTypeOK', NEW s \in Sessions, NEW batch \in Batches, ExecInsert(s, batch)
    PROVE  SqlInv'
<1>1. /\ nextWrite' = nextWrite + 1 /\ nextWrite \in Nat /\ nextWrite' \in Versions
      /\ UNCHANGED <<cells, attached, mu, lastWriteTxID>> /\ sess[s].pc = "idle"
      /\ sess \in [Sessions -> SessType] /\ log \in [Versions -> LogType]
  BY HeapAssumption DEF ExecInsert, NextWriteTx, SqlInv, SqlTypeOK, Versions, vars, At
<1>2. \A w \in Versions : w \in Nat
  BY VersionsNat
<1>3. CASE ~attached
  <2>1. UNCHANGED <<sess, log>>
    BY <1>3 DEF ExecInsert
  <2>2. TableInv'
    <3>1. \A w \in Versions : w <= nextWrite => w <= nextWrite'
      BY <1>1, <1>2
    <3>2. Returned' = Returned
      BY <2>1 DEF Returned
    <3> QED
      BY <1>1, <1>3, <2>1, <3>1, <3>2 DEF SqlInv, TableInv
  <2>3. ASSUME NEW t \in Sessions PROVE WriterInv(t)' /\ ReaderInv(t)'
    BY <1>1, <1>3, <2>1 DEF SqlInv, WriterInv, ReaderInv, Writer, Returned, At, Inserting
  <2> QED
    BY <2>1, <2>2, <2>3 DEF SqlInv, OwnIds, Writer
<1>4. CASE attached
  <2> DEFINE new == nextWrite'
  <2>1. /\ sess'[s].pc = "lock" /\ sess'[s].id = new /\ sess'[s].rows = batch
        /\ \A t \in Sessions \ {s} : sess'[t] = sess[t]
    <3>1. /\ sess'[s] = [Quiet EXCEPT !.pc = "lock", !.id = new, !.rows = batch]
          /\ \A t \in Sessions \ {s} : sess'[t] = sess[t]
      BY <1>1, <1>4 DEF ExecInsert, Step
    <3> QED
      BY <3>1 DEF Quiet
  <2>2. /\ log'[new].rows = Elements(batch) /\ log'[new].outcome = "open"
        /\ \A w \in Versions \ {new} : log'[w] = log[w]
    BY <1>1, <1>4 DEF ExecInsert
  <2>3. /\ log[new].outcome = "none"
        /\ \A k \in PKs : cells[k][new] = Missing
        /\ \A t \in Sessions : Writer(t) => sess[t].id # new
    <3>1. ~(new <= nextWrite)
      BY <1>1
    <3>2. log[new].outcome = "none" /\ \A k \in PKs : cells[k][new] = Missing
      BY <1>1, <1>4, <3>1 DEF SqlInv, TableInv
    <3>3. ASSUME NEW t \in Sessions, Writer(t) PROVE sess[t].id # new
      BY <3>1, <3>3 DEF SqlInv, WriterInv
    <3> QED
      BY <3>2, <3>3
  <2>4. Returned' = Returned /\ \A w \in Returned : w \in Versions /\ log'[w] = log[w]
    BY <1>1, <2>2, <2>3 DEF Returned
  <2>5. TableInv'
    <3>1. (\A w \in Versions : log[w].outcome # "none" => w <= nextWrite)'
      <4>1. \A w \in Versions : w <= nextWrite => w <= nextWrite'
        BY <1>1, <1>2
      <4>2. \A w \in Versions : log'[w].outcome # "none" => w = new \/ log[w].outcome # "none"
        BY <2>2
      <4>3. new <= nextWrite'
        BY <1>1, <1>2
      <4> QED
        BY <4>1, <4>2, <4>3 DEF SqlInv, TableInv
    <3>2. (attached => \A k \in PKs, v \in Versions : cells[k][v] # Missing => v <= nextWrite)'
      BY <1>1, <1>2 DEF SqlInv, TableInv
    <3>3. (\A w \in Returned : w <= lastWriteTxID /\ \A k \in log[w].rows : cells[k][w] # Missing)'
      BY <1>1, <2>4 DEF SqlInv, TableInv
    <3> QED
      BY <1>1, <3>1, <3>2, <3>3 DEF SqlInv, TableInv
  <2>6. OwnIds'
    BY <2>1, <2>3 DEF SqlInv, OwnIds, Writer
  <2>7. \A v : Inserting(v)' => Inserting(v)
    BY <2>1 DEF Inserting, At
  <2>8. WriterInv(s)'
    <3>1. mu # s
      BY <1>1 DEF SqlInv, WriterInv, At
    <3>2. new <= nextWrite'
      BY <1>1, VersionsNat
    <3> QED
      BY <1>1, <1>4, <2>1, <2>2, <2>3, <3>1, <3>2 DEF WriterInv, At
  <2>9. ASSUME NEW t \in Sessions \ {s} PROVE WriterInv(t)'
    <3>1. sess'[t] = sess[t] /\ WriterInv(t)
      BY <2>1 DEF SqlInv
    <3>2. Writer(t) => sess[t].id \in Versions /\ log'[sess[t].id] = log[sess[t].id]
      BY <2>2, <2>3, <3>1 DEF WriterInv
    <3>3. Writer(t) => sess[t].id <= nextWrite'
      <4>1. Writer(t) => sess[t].id \in Nat /\ sess[t].id <= nextWrite
        BY <1>2, <3>1, <3>2 DEF WriterInv
      <4> QED
        BY <1>1, <4>1
    <3>4. (At(t, "insert") <=> mu = t)'
      BY <1>1, <3>1 DEF WriterInv, At
    <3>5. (At(t, "lock") => \A k \in PKs : cells[k][sess[t].id] = Missing)'
      BY <1>1, <3>1 DEF WriterInv, At
    <3> QED
      BY <1>1, <3>1, <3>2, <3>3, <3>4, <3>5 DEF WriterInv, Writer, At
  <2>10. ASSUME NEW t \in Sessions PROVE ReaderInv(t)'
    <3>1. CASE t = s
      BY <2>1, <3>1 DEF ReaderInv, Reading, At
    <3>2. CASE t # s
      <4>1. sess'[t] = sess[t] /\ ReaderInv(t)
        BY <2>1, <3>2 DEF SqlInv
      <4>2. sess[t].pc = "rows" => sess[t].before \subseteq Returned
        BY <4>1 DEF ReaderInv, Reading
      <4> QED
        BY <1>1, <2>4, <2>7, <4>1, <4>2 DEF ReaderInv, At
    <3> QED
      BY <3>1, <3>2
  <2> QED
    BY <2>5, <2>6, <2>8, <2>9, <2>10 DEF SqlInv
<1> QED
  BY <1>3, <1>4

\* An INSERT that ends without success gives up its id, and the lock if it had it.
LEMMA AbortStep ==
    ASSUME SqlInv, SqlTypeOK', NEW s \in Sessions,
           (InsertBatch(s) /\ sess[s].id <= lastWriteTxID) \/ InsertFails(s)
    PROVE  SqlInv'
<1> DEFINE x == sess[s].id
<1>1. /\ sess \in [Sessions -> SessType] /\ log \in [Versions -> LogType]
      /\ Writer(s) /\ (mu = Nobody \/ mu = s) /\ Nobody \notin Sessions
  BY SqlEngineAssumption DEF SqlInv, SqlTypeOK, InsertBatch, InsertFails, Writer, WriterInv, At
<1>2. PICK o \in {"conflict", "error"} : Step(s, Quiet) /\ Finished(x, o) /\ mu' = Nobody
  BY <1>1 DEF InsertBatch, InsertFails
<1>3. UNCHANGED <<cells, nextWrite, attached, lastWriteTxID>>
  BY DEF InsertBatch, InsertFails, vars
<1>4. sess'[s].pc = "idle" /\ \A t \in Sessions \ {s} : sess'[t] = sess[t]
  BY <1>1, <1>2 DEF Step, Quiet
<1>5. x \in Versions /\ log[x].outcome = "open"
  BY <1>1 DEF SqlInv, WriterInv
<1>6. log'[x].outcome = o /\ \A w \in Versions \ {x} : log'[w] = log[w]
  BY <1>1, <1>2, <1>5 DEF Finished, LogType
<1> HIDE DEF x
<1>7. Returned' = Returned /\ \A w \in Returned : w \in Versions /\ log'[w] = log[w]
  BY <1>5, <1>6 DEF Returned
<1>8. \A t \in Sessions : Writer(t)' => t # s /\ Writer(t) /\ sess[t].id # x
  BY <1>1, <1>4 DEF SqlInv, OwnIds, Writer, x
<1>9. \A t \in Sessions : sess'[t].pc # "insert"
  BY <1>1, <1>4 DEF SqlInv, WriterInv, At
<1>10. TableInv'
  BY <1>3, <1>5, <1>6, <1>7 DEF SqlInv, TableInv
<1>11. OwnIds'
  BY <1>4, <1>8 DEF SqlInv, OwnIds
<1>12. ASSUME NEW t \in Sessions PROVE WriterInv(t)'
  <2>1. CASE ~Writer(t)'
    BY <1>1, <1>2, <1>9, <2>1 DEF WriterInv, Writer, At
  <2>2. CASE Writer(t)'
    <3>1. sess'[t] = sess[t] /\ Writer(t) /\ WriterInv(t) /\ sess[t].id # x
      BY <1>4, <1>8, <2>2 DEF SqlInv
    <3>2. log'[sess[t].id] = log[sess[t].id]
      BY <1>6, <3>1 DEF WriterInv
    <3>3. mu' # t /\ ~At(t, "insert")'
      BY <1>1, <1>2, <1>9 DEF At
    <3> QED
      BY <1>3, <3>1, <3>2, <3>3 DEF WriterInv, Writer, At
  <2> QED
    BY <2>1, <2>2
<1>13. ASSUME NEW t \in Sessions PROVE ReaderInv(t)'
  <2>1. CASE t = s
    BY <1>4, <2>1 DEF ReaderInv, Reading, At
  <2>2. CASE t # s
    <3>1. sess'[t] = sess[t] /\ ReaderInv(t)
      BY <1>4, <2>2 DEF SqlInv
    <3>2. sess[t].pc = "rows" => sess[t].before \subseteq Returned
      BY <3>1 DEF ReaderInv, Reading
    <3>3. \A v : ~Inserting(v)'
      BY <1>9 DEF Inserting, At
    <3> QED
      BY <1>3, <1>7, <3>1, <3>2, <3>3 DEF ReaderInv, At
  <2> QED
    BY <2>1, <2>2
<1> QED
  BY <1>10, <1>11, <1>12, <1>13 DEF SqlInv

\* The session that takes the lock has stored nothing yet: nobody has seen its rows.
LEMMA LockStep ==
    ASSUME SqlInv, SqlTypeOK', NEW s \in Sessions, InsertBatch(s), ~(sess[s].id <= lastWriteTxID)
    PROVE  SqlInv'
<1>1. /\ sess \in [Sessions -> SessType] /\ sess[s].pc = "lock" /\ Nobody \notin Sessions
      /\ sess[s].id \in Nat /\ lastWriteTxID \in Nat /\ mu = Nobody
  BY SqlEngineAssumption DEF SqlInv, SqlTypeOK, SessType, InsertBatch, At
<1>2. /\ sess'[s].pc = "insert" /\ sess'[s].id = sess[s].id /\ sess'[s].rows = sess[s].rows
      /\ \A t \in Sessions \ {s} : sess'[t] = sess[t]
  BY <1>1 DEF InsertBatch, Step, SessType
<1>3. mu' = s /\ UNCHANGED <<cells, log, nextWrite, attached, lastWriteTxID>>
  BY DEF InsertBatch, vars
<1>4. Returned' = Returned
  BY <1>3 DEF Returned
<1>5. TableInv'
  BY <1>3, <1>4 DEF SqlInv, TableInv
<1>6. \A t \in Sessions : (Writer(t)' <=> Writer(t)) /\ sess'[t].id = sess[t].id
  BY <1>1, <1>2 DEF Writer
<1>7. OwnIds'
  BY <1>6 DEF SqlInv, OwnIds
<1>8. ASSUME NEW t \in Sessions PROVE WriterInv(t)'
  <2>1. CASE t = s
    <3>1. WriterInv(s) /\ Writer(s)
      BY <1>1 DEF SqlInv, Writer
    <3>2. sess[s].id > lastWriteTxID
      BY <1>1
    <3>3. /\ attached /\ sess[s].id \in Versions /\ sess[s].id <= nextWrite
          /\ log[sess[s].id].outcome = "open"
          /\ \A k \in log[sess[s].id].rows :
                k \in Elements(sess[s].rows) \/ cells[k][sess[s].id] # Missing
      BY <3>1 DEF WriterInv
    <3> QED
      BY <1>2, <1>3, <2>1, <3>2, <3>3 DEF WriterInv, At
  <2>2. CASE t # s
    <3>1. WriterInv(t) /\ sess'[t] = sess[t] /\ mu # t
      BY <1>1, <1>2, <2>2 DEF SqlInv
    <3> QED
      BY <1>3, <2>2, <3>1 DEF WriterInv, Writer, At
  <2> QED
    BY <2>1, <2>2
<1>9. ASSUME NEW t \in Sessions PROVE ReaderInv(t)'
  <2>1. CASE t = s
    BY <1>2, <2>1 DEF ReaderInv, Reading, At
  <2>2. CASE t # s
    <3>1. sess'[t] = sess[t] /\ ReaderInv(t)
      BY <1>2, <2>2 DEF SqlInv
    <3>2. \A v : Inserting(v)' => Inserting(v) \/ v = sess[s].id
      BY <1>2 DEF Inserting, At
    <3>3. \A k \in PKs : cells[k][sess[s].id] = Missing
      BY <1>1 DEF SqlInv, WriterInv, At
    <3> QED
      BY <1>3, <1>4, <3>1, <3>2, <3>3 DEF ReaderInv, At
  <2> QED
    BY <2>1, <2>2
<1> QED
  BY <1>5, <1>7, <1>8, <1>9 DEF SqlInv

\* What is left of a batch after its first row.
LEMMA ElementsTail ==
    ASSUME NEW q \in Seq(PKs), q # <<>>, NEW k \in Elements(q)
    PROVE  k = Head(q) \/ k \in Elements(Tail(q))
<1>1. PICK i \in 1..Len(q) : k = q[i]
  BY DEF Elements
<1>2. CASE i = 1
  BY <1>1, <1>2
<1>3. CASE i # 1
  <2>1. i - 1 \in 1..Len(Tail(q)) /\ Tail(q)[i - 1] = q[i]
    BY <1>1, <1>3
  <2> QED
    BY <1>1, <2>1 DEF Elements
<1> QED
  BY <1>2, <1>3

\* table.Insert takes a key only if it has no version at all.
LEMMA FreshKey ==
    ASSUME SqlTypeOK, TableInv, NEW k \in PKs, NEW t \in Versions,
           Monotonic(cells[k], t), VisibleRow(cells[k], t) = Absent
    PROVE  \A v \in Versions : cells[k][v] = Missing
<1> SUFFICES ASSUME NEW v \in Versions, cells[k][v] # Missing PROVE FALSE
  OBVIOUS
<1>1. t \in Nat /\ v \in Nat /\ ~(v >= t)
  BY HeapAssumption DEF Monotonic, Versions
<1>2. v <= t
  BY <1>1
<1> QED
  BY <1>1, <1>2, OneVersion

\* A row is stored under the id of the session that holds the lock.
LEMMA RowStep ==
    ASSUME SqlInv, SqlTypeOK', NEW s \in Sessions, InsertRow(s)
    PROVE  SqlInv'
<1> DEFINE x == sess[s].id
           k == Head(sess[s].rows)
<1>1. /\ sess \in [Sessions -> SessType] /\ sess[s].pc = "insert" /\ cells \in [PKs -> Row]
      /\ sess[s].rows \in Seq(PKs) /\ sess[s].rows # <<>>
  BY DEF SqlInv, SqlTypeOK, SessType, InsertRow, At
<1>2. k \in PKs /\ Writer(s) /\ WriterInv(s) /\ x \in Versions /\ x <= nextWrite /\ attached
  <2>1. k \in PKs
    BY <1>1
  <2>2. Writer(s) /\ WriterInv(s)
    BY <1>1 DEF SqlInv, Writer
  <2> QED
    BY <2>1, <2>2 DEF WriterInv
<1>3. PICK v \in Values : Insert(k, v, x)
  BY DEF InsertRow
<1>4. UNCHANGED <<log, nextWrite, attached, mu, lastWriteTxID>>
  BY DEF InsertRow, engine
<1>5. /\ sess'[s].pc = "insert" /\ sess'[s].id = x /\ sess'[s].rows = Tail(sess[s].rows)
      /\ \A t \in Sessions \ {s} : sess'[t] = sess[t]
  BY <1>1 DEF InsertRow, Step, SessType
<1> HIDE DEF x, k
<1>6. \A w \in Versions : cells[k][w] = Missing
  BY <1>2, <1>3, FreshKey DEF Insert, SqlInv
<1>7. v # Missing /\ v # Tombstone
  BY HeapAssumption
<1>8. /\ cells'[k][x] = v
      /\ \A w \in Versions \ {x} : cells'[k][w] = cells[k][w]
      /\ \A j \in PKs \ {k} : cells'[j] = cells[j]
  BY <1>1, <1>2, <1>3 DEF Insert, Put, Row
<1>9. \A j \in PKs, w \in Versions : cells[j][w] # Missing => cells'[j][w] # Missing
  BY <1>6, <1>8
<1>10. Returned' = Returned /\ \A w \in Returned : w \in Versions /\ log[w].rows \subseteq PKs
  BY <1>4 DEF Returned, SqlInv, SqlTypeOK, LogType
<1>11. TableInv'
  <2>1. (\A j \in PKs, u, w \in Versions : cells[j][u] # Missing /\ cells[j][w] # Missing => u = w)'
    BY <1>2, <1>6, <1>8 DEF SqlInv, TableInv
  <2>2. (\A j \in PKs, w \in Versions : cells[j][w] # Tombstone)'
    BY <1>2, <1>6, <1>7, <1>8 DEF SqlInv, TableInv
  <2>3. (attached => \A j \in PKs, w \in Versions : cells[j][w] # Missing => w <= nextWrite)'
    <3>1. \A j \in PKs, w \in Versions : cells[j][w] # Missing => w <= nextWrite
      BY <1>2 DEF SqlInv, TableInv
    <3> QED
      BY <1>2, <1>4, <1>6, <1>8, <3>1
  <2>4. (\A w \in Returned : w <= lastWriteTxID /\ \A j \in log[w].rows : cells[j][w] # Missing)'
    BY <1>4, <1>9, <1>10 DEF SqlInv, TableInv
  <2> QED
    BY <1>4, <2>1, <2>2, <2>3, <2>4 DEF SqlInv, TableInv
<1>12. \A t \in Sessions : sess'[t].pc = sess[t].pc /\ sess'[t].id = sess[t].id
  BY <1>1, <1>5 DEF x
<1>13. OwnIds'
  BY <1>12 DEF SqlInv, OwnIds, Writer
<1>14. ASSUME NEW t \in Sessions PROVE WriterInv(t)'
  <2>1. WriterInv(t) /\ (Writer(t) => sess[t].id \in Versions /\ log[sess[t].id].rows \subseteq PKs)
    <3>1. WriterInv(t) /\ log \in [Versions -> LogType]
      BY DEF SqlInv, SqlTypeOK
    <3>2. Writer(t) => sess[t].id \in Versions
      BY <3>1 DEF WriterInv
    <3> QED
      BY <3>1, <3>2 DEF LogType
  <2>2. CASE t = s
    <3>1. ASSUME NEW j \in log[x].rows
          PROVE  j \in Elements(sess'[s].rows) \/ cells'[j][x] # Missing
      <4>1. j \in PKs /\ (j \in Elements(sess[s].rows) \/ cells[j][x] # Missing)
        BY <1>2, <2>1, <2>2, <3>1 DEF WriterInv, x
      <4>2. CASE cells[j][x] # Missing
        BY <1>2, <1>9, <4>1, <4>2
      <4>3. CASE j \in Elements(sess[s].rows)
        <5>1. j = k \/ j \in Elements(Tail(sess[s].rows))
          BY <1>1, <4>3, ElementsTail DEF k
        <5> QED
          BY <1>5, <1>7, <1>8, <5>1
      <4> QED
        BY <4>1, <4>2, <4>3
    <3> QED
      BY <1>1, <1>4, <1>5, <2>1, <2>2, <3>1 DEF WriterInv, Writer, At, x
  <2>3. CASE t # s
    <3>1. sess'[t] = sess[t]
      BY <1>5, <2>3
    <3>2. Writer(t) => sess[t].id # x
      BY <1>2, <2>3 DEF SqlInv, OwnIds, x
    <3>3. ASSUME Writer(t), NEW j \in PKs PROVE cells'[j][sess[t].id] = cells[j][sess[t].id]
      BY <1>8, <2>1, <3>2, <3>3
    <3>4. At(t, "lock") => Writer(t)
      BY DEF Writer, At
    <3>5. (At(t, "lock") => \A j \in PKs : cells[j][sess[t].id] = Missing)'
      BY <2>1, <3>1, <3>3, <3>4 DEF WriterInv, At
    <3>6. Writer(t) => \A j \in log[sess[t].id].rows :
                           j \in Elements(sess[t].rows) \/ cells'[j][sess[t].id] # Missing
      BY <2>1, <3>3 DEF WriterInv
    <3> QED
      BY <1>4, <2>1, <3>1, <3>5, <3>6 DEF WriterInv, Writer, At
  <2> QED
    BY <2>2, <2>3
<1>15. ASSUME NEW t \in Sessions PROVE ReaderInv(t)'
  <2>1. CASE t = s
    BY <1>5, <2>1 DEF ReaderInv, Reading, At
  <2>2. CASE t # s
    <3>1. sess'[t] = sess[t] /\ ReaderInv(t)
      BY <1>5, <2>2 DEF SqlInv
    <3>2. \A w : Inserting(w)' => Inserting(w)
      BY <1>12 DEF Inserting, At
    <3> QED
      BY <1>4, <1>9, <1>10, <3>1, <3>2 DEF ReaderInv, At
  <2> QED
    BY <2>1, <2>2
<1> QED
  BY <1>11, <1>13, <1>14, <1>15 DEF SqlInv

\* The INSERT that returns is the newest: a reader that has seen a later one has seen a
\* row of an id that neither returned nor holds the lock.
LEMMA DoneStep ==
    ASSUME SqlInv, SqlTypeOK', NEW s \in Sessions, InsertDone(s)
    PROVE  SqlInv'
<1> DEFINE x == sess[s].id
<1>1. /\ sess \in [Sessions -> SessType] /\ log \in [Versions -> LogType]
      /\ sess[s].pc = "insert" /\ sess[s].rows = <<>> /\ Nobody \notin Sessions
      /\ lastWriteTxID \in Nat
  BY SqlEngineAssumption DEF SqlInv, SqlTypeOK, InsertDone, At
<1>2. /\ Writer(s) /\ WriterInv(s) /\ mu = s
      /\ x \in Versions /\ x <= nextWrite /\ x > lastWriteTxID /\ log[x].outcome = "open"
  BY <1>1 DEF SqlInv, WriterInv, Writer, At
<1>3. \A k \in log[x].rows : cells[k][x] # Missing
  <2>1. Elements(sess[s].rows) = {}
    BY <1>1 DEF Elements
  <2>2. \A k \in log[x].rows : k \in Elements(sess[s].rows) \/ cells[k][x] # Missing
    BY <1>2 DEF WriterInv
  <2> QED
    BY <2>1, <2>2
<1>4. mu' = Nobody /\ lastWriteTxID' = x /\ UNCHANGED <<cells, nextWrite, attached>>
  BY DEF InsertDone, vars
<1>5. sess'[s].pc = "idle" /\ \A t \in Sessions \ {s} : sess'[t] = sess[t]
  BY <1>1 DEF InsertDone, Step, Quiet
<1>6. /\ log'[x].outcome = "ok" /\ log'[x].rows = log[x].rows
      /\ \A w \in Versions \ {x} : log'[w] = log[w]
  BY <1>1, <1>2 DEF InsertDone, Finished, LogType
<1> HIDE DEF x
<1>7. /\ Returned' = Returned \cup {x} /\ x \notin Returned
      /\ \A w \in Returned : w \in Versions /\ log'[w] = log[w]
  BY <1>2, <1>6 DEF Returned
<1>8. \A w \in Returned : w < x
  <2>1. \A w \in Returned : w \in Versions /\ w <= lastWriteTxID
    BY DEF SqlInv, TableInv, Returned
  <2>2. x \in Nat /\ \A w \in Returned : w \in Nat
    BY <1>2, <2>1, VersionsNat
  <2> QED
    BY <1>1, <1>2, <2>1, <2>2
<1>9. \A v \in Versions : v \in Nat
  BY VersionsNat
<1>10. TableInv'
  <2>1. (\A w \in Returned : w <= lastWriteTxID /\ \A k \in log[w].rows : cells[k][w] # Missing)'
    <3>1. \A w \in Returned' : w <= x
      BY <1>2, <1>7, <1>8, <1>9
    <3>2. \A w \in Returned' : \A k \in log'[w].rows : cells[k][w] # Missing
      BY <1>3, <1>6, <1>7 DEF SqlInv, TableInv
    <3> QED
      BY <1>4, <3>1, <3>2
  <2>2. (\A w \in Versions : log[w].outcome # "none" => w <= nextWrite)'
    BY <1>2, <1>4, <1>6 DEF SqlInv, TableInv
  <2> QED
    BY <1>4, <2>1, <2>2 DEF SqlInv, TableInv
<1>11. \A t \in Sessions : sess'[t].pc # "insert"
  BY <1>1, <1>2, <1>5 DEF SqlInv, WriterInv, At
<1>12. \A t \in Sessions : Writer(t)' => t # s /\ Writer(t) /\ sess[t].id # x
  BY <1>2, <1>5 DEF SqlInv, OwnIds, Writer, x
<1>13. OwnIds'
  BY <1>5, <1>12 DEF SqlInv, OwnIds
<1>14. ASSUME NEW t \in Sessions PROVE WriterInv(t)'
  <2>1. mu' # t /\ ~At(t, "insert")'
    BY <1>1, <1>4, <1>11 DEF At
  <2>2. CASE ~Writer(t)'
    BY <2>1, <2>2 DEF WriterInv, Writer, At
  <2>3. CASE Writer(t)'
    <3>1. sess'[t] = sess[t] /\ Writer(t) /\ WriterInv(t) /\ sess[t].id # x
      BY <1>5, <1>12, <2>3 DEF SqlInv
    <3>2. log'[sess[t].id] = log[sess[t].id]
      BY <1>6, <3>1 DEF WriterInv
    <3> QED
      BY <1>4, <2>1, <3>1, <3>2 DEF WriterInv, Writer, At
  <2> QED
    BY <2>2, <2>3
<1>15. ASSUME NEW t \in Sessions PROVE ReaderInv(t)'
  <2>1. CASE t = s
    BY <1>5, <2>1 DEF ReaderInv, Reading, At
  <2>2. CASE t # s
    <3>1. sess'[t] = sess[t] /\ ReaderInv(t)
      BY <1>5, <2>2 DEF SqlInv
    <3>2. \A v : ~Inserting(v)'
      BY <1>11 DEF Inserting, At
    <3>3. Inserting(x)
      BY <1>1 DEF Inserting, At, x
    <3>4. sess[t].pc = "rows" => sess[t].before \subseteq Returned
      BY <3>1 DEF ReaderInv, Reading
    <3>5. ASSUME sess[t].pc = "rows", NEW k \in PKs, NEW v \in Versions, NEW w \in Returned',
                 <<k, v>> \in sess[t].snap, w < v, v \in Returned'
          PROVE  \A j \in log'[w].rows : <<j, w>> \in sess[t].snap
      <4>1. w \in Returned /\ (v \in Returned \/ Inserting(v))
        BY <1>2, <1>7, <1>8, <1>9, <3>3, <3>5
      <4> QED
        BY <1>7, <3>1, <3>5, <4>1 DEF ReaderInv, At
    <3>6. At(t, "rows") => \A w \in sess[t].before : \A k \in log'[w].rows : <<k, w>> \in sess[t].snap
      BY <1>7, <3>1, <3>4 DEF ReaderInv, At
    <3> QED
      BY <1>4, <1>7, <3>1, <3>2, <3>5, <3>6 DEF ReaderInv, At
  <2> QED
    BY <2>1, <2>2
<1> QED
  BY <1>10, <1>13, <1>14, <1>15 DEF SqlInv

-----------------------------------------------------------------------------
(* All steps. *)

\* The invariant holds when the process starts.
LEMMA SqlInvInit == SqlInit => SqlInv
<1> SUFFICES ASSUME SqlInit PROVE SqlInv
  OBVIOUS
<1>1. SqlTypeOK
  BY SqlTypeInit
<1>2. /\ \A w \in Versions : log[w].outcome = "none"
      /\ \A s \in Sessions : sess[s].pc = "idle"
      /\ \A k \in PKs, v \in Versions : cells[k][v] = Missing
      /\ mu \notin Sessions
  BY SqlEngineAssumption DEF SqlInit, Init, Unused, Quiet
<1>3. TableInv
  BY <1>2 DEF TableInv, Returned, Missing, Tombstone
<1>4. \A s \in Sessions : WriterInv(s) /\ ReaderInv(s)
  BY <1>2 DEF WriterInv, ReaderInv, Writer, Reading, At
<1> QED
  BY <1>1, <1>2, <1>3, <1>4 DEF SqlInv, OwnIds, Writer

\* UPDATE and DELETE use up an id.
LEMMA MutationStep ==
    ASSUME SqlInv, SqlTypeOK', NEW s \in Sessions, ExecMutation(s)
    PROVE  SqlInv'
<1>1. /\ UNCHANGED <<cells, attached, mu, lastWriteTxID, sess, log>>
      /\ nextWrite' = nextWrite + 1 /\ nextWrite \in Nat
  BY DEF ExecMutation, NextWriteTx, SqlInv, SqlTypeOK, vars
<1>2. \A w \in Versions : w \in Nat /\ (w <= nextWrite => w <= nextWrite')
  BY <1>1, HeapAssumption DEF Versions
<1>3. TableInv'
  BY <1>1, <1>2 DEF SqlInv, TableInv, Returned
<1>4. ASSUME NEW t \in Sessions PROVE WriterInv(t)'
  BY <1>1, <1>2 DEF SqlInv, WriterInv, Writer, At
<1>5. ASSUME NEW t \in Sessions PROVE ReaderInv(t)'
  BY <1>1 DEF SqlInv, ReaderInv, Returned, Inserting, At
<1> QED
  BY <1>1, <1>3, <1>4, <1>5 DEF SqlInv, OwnIds, Writer

\* A new process knows of no statement and has no adapter for the table.
LEMMA RestartStep ==
    ASSUME SqlInv, SqlTypeOK', Restart
    PROVE  SqlInv'
<1>1. /\ \A w \in Versions : log'[w].outcome = "none"
      /\ \A s \in Sessions : sess'[s].pc = "idle"
      /\ cells' = cells /\ ~attached' /\ mu' \notin Sessions
  BY SqlEngineAssumption DEF Restart, Unused, Quiet, vars
<1>2. TableInv'
  BY <1>1 DEF SqlInv, TableInv, Returned
<1>3. \A s \in Sessions : WriterInv(s)' /\ ReaderInv(s)'
  BY <1>1 DEF WriterInv, ReaderInv, Writer, Reading, At
<1> QED
  BY <1>1, <1>2, <1>3 DEF SqlInv, OwnIds, Writer

\* Every step of SqlEngine keeps the invariant.
LEMMA SqlInvStep == SqlInv /\ [SqlNext]_sqlVars => SqlInv'
<1> SUFFICES ASSUME SqlInv, [SqlNext]_sqlVars PROVE SqlInv'
  OBVIOUS
<1>1. CASE UNCHANGED sqlVars
  <2>1. UNCHANGED <<cells, vac, nextRead, nextWrite, attached, mu, lastWriteTxID, cache, sess, log>>
    BY <1>1 DEF sqlVars, vars, engine
  <2>2. SqlTypeOK' /\ TableInv' /\ OwnIds'
    BY <2>1 DEF SqlInv, SqlTypeOK, TableInv, OwnIds, Writer, Returned
  <2>3. ASSUME NEW s \in Sessions PROVE WriterInv(s)' /\ ReaderInv(s)'
    <3>1. WriterInv(s)'
      BY <2>1 DEF SqlInv, WriterInv, Writer, At
    <3>2. ReaderInv(s)'
      BY <2>1 DEF SqlInv, ReaderInv, Returned, Inserting, At
    <3> QED
      BY <3>1, <3>2
  <2> QED
    BY <2>2, <2>3 DEF SqlInv
<1>2. CASE SqlNext
  <2>1. SqlTypeOK'
    BY <1>2, SqlTypeStep DEF SqlInv
  <2>2. CASE Restart
    BY <2>1, <2>2, RestartStep
  <2>3. ASSUME NEW s \in Sessions, NEW batch \in Batches, ExecInsert(s, batch) PROVE SqlInv'
    BY <2>1, <2>3, BeginStep
  <2>4. ASSUME NEW s \in Sessions, ExecMutation(s) PROVE SqlInv'
    BY <2>1, <2>4, MutationStep
  <2>5. ASSUME NEW s \in Sessions, InsertBatch(s) PROVE SqlInv'
    BY <2>1, <2>5, LockStep, AbortStep
  <2>6. ASSUME NEW s \in Sessions, InsertRow(s) \/ InsertFails(s) \/ InsertDone(s) PROVE SqlInv'
    BY <2>1, <2>6, RowStep, AbortStep, DoneStep
  <2>7. ASSUME NEW s \in Sessions, NEW filter \in Filters, ExecSelect(s, filter) PROVE SqlInv'
    BY <2>1, <2>7, SelectStep
  <2>8. ASSUME NEW s \in Sessions,
               \/ NextReadAdd(s) \/ NextReadLoad(s) \/ NextReadStore(s)
               \/ Lookup(s) \/ StorePlan(s) \/ ScanRefused(s) \/ CloseRows(s)
        PROVE SqlInv'
    BY <2>1, <2>8, SelectStep
  <2>9. ASSUME NEW s \in Sessions, Scan(s) PROVE SqlInv'
    BY <2>1, <2>9, ScanStep
  <2> QED
    BY <1>2, <2>2, <2>3, <2>4, <2>5, <2>6, <2>7, <2>8, <2>9 DEF SqlNext, Run
<1> QED
  BY <1>1, <1>2

\* Of rows that the scan found and the plan asks for, a SELECT loses at most the first.
LEMMA OnlyFirstLost ==
    ASSUME SqlInv, NEW s \in Sessions, At(s, "rows"), NEW ws \in SUBSET Versions,
           \A w \in ws : \A k \in log[w].rows : <<k, w>> \in sess[s].snap
    PROVE  FirstOnly(s, Lost(s, ws))
<1> DEFINE snap == sess[s].snap
           out == sess[s].out
<1>1. /\ snap \in SUBSET (PKs \X Versions) /\ out = Delivered(snap, sess[s].plan)
      /\ PKs \subseteq Nat
  BY SqlEngineAssumption DEF SqlInv, SqlTypeOK, SessType, ReaderInv
<1>2. \A e \in snap : e[1] \in Nat
  BY <1>1
<1> HIDE DEF snap, out
<1>3. ASSUME NEW k \in Lost(s, ws)
      PROVE  /\ \E e \in snap : e[1] = k
             /\ \A e \in snap : ~(e[1] < k)
  <2>1. PICK w \in ws : k \in sess[s].plan /\ k \in log[w].rows /\ <<k, w>> \notin out
    BY DEF Lost, out
  <2>2. <<k, w>> \in snap /\ <<k, w>>[1] = k
    BY <2>1 DEF snap
  <2> QED
    BY <1>1, <2>1, <2>2 DEF Delivered
<1>4. ASSUME NEW k \in Lost(s, ws), NEW j \in Lost(s, ws) PROVE j = k
  <2>1. k \in Nat /\ j \in Nat /\ ~(j < k) /\ ~(k < j)
    BY <1>2, <1>3
  <2> QED
    BY <2>1
<1>5. ASSUME NEW k \in Lost(s, ws), NEW e \in out PROVE k < e[1]
  <2>1. e \in snap /\ \E f \in snap : f[1] < e[1]
    BY <1>1 DEF Delivered
  <2>2. PICK f \in snap : f[1] < e[1]
    BY <2>1
  <2>3. k \in Nat /\ f[1] \in Nat /\ e[1] \in Nat /\ ~(f[1] < k)
    BY <1>2, <1>3, <2>1
  <2> QED
    BY <2>2, <2>3
<1> QED
  BY <1>4, <1>5 DEF FirstOnly, out

\* A SELECT returns every row of every INSERT that had returned before it began, but for
\* the first row of its scan: NextReadTx compares its counter with that of NextWriteTx,
\* whatever the other sessions do.
THEOREM ReadsCommitted == SqlSpec => []CommittedVisible
<1>1. SqlInv => CommittedVisible
  <2> SUFFICES ASSUME SqlInv, NEW s \in Sessions, At(s, "rows")
               PROVE  FirstOnly(s, Lost(s, sess[s].before))
    BY DEF CommittedVisible
  <2>1. sess[s].before \in SUBSET Versions
    BY DEF SqlInv, SqlTypeOK, SessType
  <2>2. \A w \in sess[s].before : \A k \in log[w].rows : <<k, w>> \in sess[s].snap
    BY DEF SqlInv, ReaderInv
  <2> QED
    BY <2>1, <2>2, OnlyFirstLost
<1> QED
  BY <1>1, SqlInvInit, SqlInvStep, PTL DEF SqlSpec

\* A SELECT that returns a row of an INSERT that returned returns all of every INSERT with a
\* smaller id that returned, but for the first row of its scan: the lock and lastWriteTxID
\* order the INSERTs of a table.
THEOREM ReadsPrefix == SqlSpec => []PrefixReads
<1>1. SqlInv => PrefixReads
  <2> SUFFICES ASSUME SqlInv, NEW s \in Sessions, At(s, "rows")
               PROVE  FirstOnly(s, Lost(s, {w \in Returned :
                          \E e \in sess[s].out : e[2] \in Returned /\ w < e[2]}))
    BY DEF PrefixReads
  <2> DEFINE ws == {w \in Returned : \E e \in sess[s].out : e[2] \in Returned /\ w < e[2]}
  <2>1. sess[s].snap \in SUBSET (PKs \X Versions) /\ sess[s].out \subseteq sess[s].snap
    BY DEF SqlInv, SqlTypeOK, SessType, ReaderInv, Delivered
  <2>2. ASSUME NEW w \in ws PROVE \A k \in log[w].rows : <<k, w>> \in sess[s].snap
    <3>1. PICK e \in sess[s].snap : e[2] \in Returned /\ w < e[2] /\ w \in Returned
      BY <2>1
    <3>2. e[1] \in PKs /\ e[2] \in Versions /\ e = <<e[1], e[2]>>
      BY <2>1
    <3> QED
      BY <3>1, <3>2 DEF SqlInv, ReaderInv
  <2>3. ws \in SUBSET Versions
    BY DEF Returned
  <2> HIDE DEF ws
  <2>4. FirstOnly(s, Lost(s, ws))
    BY <2>2, <2>3, OnlyFirstLost
  <2> QED
    BY <2>4 DEF ws
<1> QED
  BY <1>1, SqlInvInit, SqlInvStep, PTL DEF SqlSpec
=============================================================================
