----------------------------- MODULE SqlEngine -----------------------------
(* SQLEngine.Execute on one table: concurrent sessions, the transaction       *)
(* counters, the insert lock of the table adapter, the plan cache, and the     *)
(* rows of Heap underneath.  A statement of a table whose adapter is missing   *)
(* is refused and changes nothing but the write counter.                       *)
EXTENDS Heap, Sequences

CONSTANTS
    Sessions,
    Batches,    \* the VALUES lists of INSERT statements: sequences of primary keys
    Filters,    \* WHERE clauses: sets of primary keys, one per literal
    MaxRead     \* bound on the read counter when a SELECT begins

Nobody == "nobody"

ASSUME SqlEngineAssumption ==
    /\ PKs \subseteq Nat /\ Batches \subseteq Seq(PKs) /\ Filters \subseteq SUBSET PKs
    /\ Nobody \notin Sessions /\ MaxRead \in Nat

VARIABLES
    nextRead, nextWrite,   \* tx.Manager
    attached,              \* heapManager.adapters has the table
    mu, lastWriteTxID,     \* tableHeapAdapter
    cache,                 \* PlanCache: the filter of the cached template, if any
    sess,                  \* the statement each session is executing
    log                    \* history: the rows and the outcome of each INSERT, by id

engine == <<nextRead, nextWrite, attached, mu, lastWriteTxID, cache>>
sqlVars == <<vars, engine, sess, log>>

Quiet == [pc |-> "idle", id |-> 0, rows |-> <<>>, filter |-> {}, plan |-> {},
          before |-> {}, snap |-> {}, out |-> {}]
Unused == [rows |-> {}, outcome |-> "none"]

SqlInit ==
    /\ Init
    /\ nextRead = 1 /\ nextWrite = 1 /\ attached = TRUE /\ mu = Nobody /\ lastWriteTxID = 0
    /\ cache = {} /\ sess = [s \in Sessions |-> Quiet]
    /\ log = [w \in Versions |-> Unused]

Step(s, next) == sess' = [sess EXCEPT ![s] = next]
At(s, pc) == sess[s].pc = pc
Finished(w, outcome) == log' = [log EXCEPT ![w].outcome = outcome]
Elements(q) == {q[i] : i \in 1..Len(q)}

---------------------------------------------------------------------------
(* INSERT, UPDATE, DELETE.                                                    *)

\* Execute allocates the id before it looks at the statement.
NextWriteTx == nextWrite < MaxTx /\ nextWrite' = nextWrite + 1

\* execInsert and execInsertSelect.  A SELECT source is scanned with ReadTxID 0,
\* where no version is visible: its stream has no rows.
ExecInsert(s, batch) ==
    /\ At(s, "idle") /\ NextWriteTx
    /\ IF attached
       THEN /\ Step(s, [Quiet EXCEPT !.pc = "lock", !.id = nextWrite', !.rows = batch])
            /\ log' = [log EXCEPT ![nextWrite'] =
                         [rows |-> Elements(batch), outcome |-> "open"]]
       ELSE UNCHANGED <<sess, log>>
    /\ UNCHANGED <<vars, nextRead, attached, mu, lastWriteTxID, cache>>

\* execUpdate and execDelete collect their rows with ReadTxID 0 as well and find none.
ExecMutation(s) ==
    /\ At(s, "idle") /\ NextWriteTx
    /\ UNCHANGED <<vars, nextRead, attached, mu, lastWriteTxID, cache, sess, log>>

\* Mutant of InsertBatch: ids may come in any order.
InsertBatchUnordered(s) ==
    /\ At(s, "lock") /\ mu = Nobody
    /\ Step(s, [sess[s] EXCEPT !.pc = "insert"]) /\ mu' = s /\ UNCHANGED log
    /\ UNCHANGED <<vars, nextRead, nextWrite, attached, lastWriteTxID, cache>>

\* InsertBatch and BeginInsertStream take the lock and compare the ids.
InsertBatch(s) ==
    /\ At(s, "lock") /\ mu = Nobody
    /\ IF sess[s].id <= lastWriteTxID
       THEN Step(s, Quiet) /\ Finished(sess[s].id, "conflict") /\ UNCHANGED mu
       ELSE Step(s, [sess[s] EXCEPT !.pc = "insert"]) /\ mu' = s /\ UNCHANGED log
    /\ UNCHANGED <<vars, nextRead, nextWrite, attached, lastWriteTxID, cache>>

\* One table.Insert of the batch.
InsertRow(s) ==
    /\ At(s, "insert") /\ sess[s].rows # <<>>
    /\ \E v \in Values : Insert(Head(sess[s].rows), v, sess[s].id)
    /\ Step(s, [sess[s] EXCEPT !.rows = Tail(sess[s].rows)])
    /\ UNCHANGED <<engine, log>>

\* Mutant of InsertFails: the error path keeps the lock.
InsertFailsLocked(s) ==
    /\ At(s, "insert") /\ sess[s].rows # <<>>
    /\ Step(s, Quiet) /\ Finished(sess[s].id, "error")
    /\ UNCHANGED <<vars, engine>>

\* table.Insert returns an error, ErrTxConflict or ErrDuplicateKey where Insert is not
\* enabled, and one of the store or the encoder anywhere: the deferred Unlock or Abort
\* releases the lock.  The rows inserted so far stay.
InsertFails(s) ==
    /\ At(s, "insert") /\ sess[s].rows # <<>>
    /\ Step(s, Quiet) /\ mu' = Nobody /\ Finished(sess[s].id, "error")
    /\ UNCHANGED <<vars, nextRead, nextWrite, attached, lastWriteTxID, cache>>

\* The end of InsertBatch and heapInsertStream.Commit.
InsertDone(s) ==
    /\ At(s, "insert") /\ sess[s].rows = <<>>
    /\ Step(s, Quiet) /\ mu' = Nobody /\ lastWriteTxID' = sess[s].id
    /\ Finished(sess[s].id, "ok")
    /\ UNCHANGED <<vars, nextRead, nextWrite, attached, cache>>

---------------------------------------------------------------------------
(* SELECT.                                                                    *)

Returned == {w \in Versions : log[w].outcome = "ok"}

ExecSelect(s, filter) ==
    /\ At(s, "idle") /\ nextRead < MaxRead
    /\ Step(s, [Quiet EXCEPT !.pc = "add", !.filter = filter, !.before = Returned])
    /\ UNCHANGED <<vars, engine, log>>

\* NextReadTx, one atomic operation at a time.
NextReadAdd(s) ==
    /\ At(s, "add")
    /\ nextRead' = nextRead + 1
    /\ Step(s, [sess[s] EXCEPT !.pc = "load", !.id = nextRead + 1])
    /\ UNCHANGED <<vars, nextWrite, attached, mu, lastWriteTxID, cache, log>>

\* Mutant of NextReadLoad: the read id is not compared with the write counter.
NextReadLoadBlind(s) ==
    /\ At(s, "load")
    /\ Step(s, [sess[s] EXCEPT !.pc = "lookup"])
    /\ UNCHANGED <<vars, engine, log>>

NextReadLoad(s) ==
    /\ At(s, "load")
    /\ Step(s, IF sess[s].id >= nextWrite THEN [sess[s] EXCEPT !.pc = "lookup"]
               ELSE [sess[s] EXCEPT !.pc = "store", !.id = nextWrite])
    /\ UNCHANGED <<vars, engine, log>>

NextReadStore(s) ==
    /\ At(s, "store")
    /\ nextRead' = sess[s].id /\ Step(s, [sess[s] EXCEPT !.pc = "add"])
    /\ UNCHANGED <<vars, nextWrite, attached, mu, lastWriteTxID, cache, log>>

\* The key of the plan cache is the statement with its literals removed, and the
\* schema version: all these SELECTs have the same key.
Lookup(s) ==
    /\ At(s, "lookup")
    /\ IF cache = {} THEN Step(s, [sess[s] EXCEPT !.pc = "plan", !.plan = sess[s].filter])
       ELSE \E hit \in cache : Step(s, [sess[s] EXCEPT !.pc = "scan", !.plan = hit])
    /\ UNCHANGED <<vars, engine, log>>

\* Store keeps the template that is there.
StorePlan(s) ==
    /\ At(s, "plan")
    /\ cache' = IF cache = {} THEN {sess[s].plan} ELSE cache
    /\ Step(s, [sess[s] EXCEPT !.pc = "scan"])
    /\ UNCHANGED <<vars, nextRead, nextWrite, attached, mu, lastWriteTxID, log>>

\* What the client gets of the rows that table.Scan buffered, in the order of their keys:
\* enterpriseRows.Next advances before it returns, so that the first one is never
\* returned; the filter of the plan is applied to the others.
Delivered(snap, plan) == {e \in snap : e[1] \in plan /\ \E f \in snap : f[1] < e[1]}

\* table.Scan buffers the visible rows.
Scan(s) ==
    LET snap == {<<k, Newest(Stored(cells[k], sess[s].id))>> :
                   k \in {j \in PKs : VisibleRow(cells[j], sess[s].id) # Absent}}
    IN /\ At(s, "scan") /\ attached
       /\ Step(s, [sess[s] EXCEPT
                     !.pc = "rows", !.snap = snap, !.out = Delivered(snap, sess[s].plan)])
       /\ UNCHANGED <<vars, engine, log>>

\* GetTableHeap fails.
ScanRefused(s) ==
    /\ At(s, "scan") /\ ~attached /\ Step(s, Quiet) /\ UNCHANGED <<vars, engine, log>>

CloseRows(s) ==
    /\ At(s, "rows") /\ Step(s, Quiet) /\ UNCHANGED <<vars, engine, log>>

---------------------------------------------------------------------------
\* A new process: tx.NewManager(1, 1), an empty plan cache and no adapters.  The
\* statements under way never return.
Restart ==
    /\ nextRead' = 1 /\ nextWrite' = 1 /\ attached' = FALSE /\ mu' = Nobody
    /\ lastWriteTxID' = 0 /\ cache' = {}
    /\ sess' = [s \in Sessions |-> Quiet] /\ log' = [w \in Versions |-> Unused]
    /\ UNCHANGED vars

Run(s) ==
    \/ InsertBatch(s) \/ InsertRow(s) \/ InsertFails(s) \/ InsertDone(s)
    \/ NextReadAdd(s) \/ NextReadLoad(s) \/ NextReadStore(s)
    \/ Lookup(s) \/ StorePlan(s) \/ Scan(s) \/ ScanRefused(s) \/ CloseRows(s)

SqlNext ==
    \/ \E s \in Sessions :
         \/ \E batch \in Batches : ExecInsert(s, batch)
         \/ ExecMutation(s)
         \/ \E filter \in Filters : ExecSelect(s, filter)
         \/ Run(s)
    \/ Restart

\* The Go scheduler runs every goroutine that can run.
SqlSpec == SqlInit /\ [][SqlNext]_sqlVars /\ \A s \in Sessions : WF_sqlVars(Run(s))

---------------------------------------------------------------------------
(* Properties.                                                                *)

\* The rows of the INSERTs in ws that the plan of s asks for and s did not get.
Lost(s, ws) ==
    {k \in sess[s].plan : \E w \in ws : k \in log[w].rows /\ <<k, w>> \notin sess[s].out}

\* At most one row, in front of all that s got: the one that enterpriseRows.Next skips.
FirstOnly(s, ks) ==
    \A k \in ks : (\A j \in ks : j = k) /\ \A e \in sess[s].out : k < e[1]

\* A SELECT returns every row of every INSERT that had returned before it began, whatever
\* the counters of NextReadTx and NextWriteTx did in between, but for one row at most, the
\* first of the scan.
CommittedVisible ==
    \A s \in Sessions : At(s, "rows") => FirstOnly(s, Lost(s, sess[s].before))

\* A SELECT that returns a row of a successful INSERT returns the rows of all successful
\* INSERTs with a smaller id, but for one row at most, the first of the scan: the ids, the lock and
\* lastWriteTxID put the INSERTs of a table in one order.
PrefixReads ==
    \A s \in Sessions : At(s, "rows") =>
        FirstOnly(s, Lost(s, {w \in Returned :
                                \E e \in sess[s].out : e[2] \in Returned /\ w < e[2]}))

\* Every statement returns: no error path keeps the lock of the table, and
\* NextReadTx ends.
StatementsReturn == \A s \in Sessions : ~At(s, "idle") ~> At(s, "idle")

\* A SELECT answers with the rows its own WHERE clause asks for and with no others.
OwnPlan ==
    \A s \in Sessions : At(s, "rows") => \A e \in sess[s].out : e[1] \in sess[s].filter

\* A SELECT returns every row that was committed before it began.
AllReturned == \A s \in Sessions : At(s, "rows") => Lost(s, sess[s].before) = {}

\* The rows of an INSERT appear together: a SELECT sees all of them or none.
BatchAtomic ==
    \A s \in Sessions, w \in Versions : At(s, "rows") =>
        ({e \in sess[s].snap : e[2] = w} # {} =>
            \A k \in log[w].rows : <<k, w>> \in sess[s].snap)
=============================================================================
