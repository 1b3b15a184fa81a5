-------------------------- MODULE PagerLogProofs --------------------------
(* What a crash of the process can do to a file, for the default options:     *)
(* the invariant, and that every step keeps what it says of the methods in     *)
(* progress, the log and the open transaction.  PagerDurableProofs has the     *)
(* free list and the theorems.                                                *)
EXTENDS PagerProofs

DefaultPager ==
    /\ MaxFaults = 0 /\ PowerLoss = FALSE /\ CheckpointThreshold = 0
    /\ MirrorHeaderPageID \notin FreeArgs

DataPages == FirstDataPageID..(MaxPages - 1)

\* No walk from head leaves F, which no caller owns and the log does not write, and the
\* pages that callers own are among the first count.
GuardsIn(F, head, count, owned, b, log) ==
    /\ F \subseteq DataPages \ owned
    /\ \A q \in {head} \cup {b[p] : p \in F} : q \in PageID => q \in F
    /\ \A p \in F : Writes(log, p) = {}
    /\ \A p \in owned : p \in DataPages /\ p < count

Guards(F, h) == GuardsIn(F, h.head, h.count, live, body, wal)

HeaderOf(m) == [count |-> m.count, head |-> m.head, free |-> m.free]

\* IsFreeList with the bodies as a parameter.
ClosedIn(b, S, head) == \A q \in {head} \cup {b[p] : p \in S} : q \in S \cup {Sentinel}

Chain(b, S, head, count) ==
    /\ \A p \in S : p < count
    /\ ClosedIn(b, S, head)
    /\ \A T \in SUBSET S : ClosedIn(b, T, head) => T = S
    /\ Sentinel \in {head} \cup {b[p] : p \in S}

\* freeSet is the free list on disk, as long as freeCount says, and no page of it is in use.
Sound(m, owned, b, log) ==
    /\ Chain(b, m.set, m.head, m.count)
    /\ Cardinality(m.set) = m.free
    /\ GuardsIn(m.set, m.head, m.count, owned, b, log)

MemSound == Sound(mem, live, body, wal)

Changing == {"extend", "reuse", "free"}

\* The headers: the one that the next Open reads guards the pages of the callers, whatever
\* step a method has reached.
FreeInv ==
    /\ pc = "down" /\ ~fresh /\ OpenHeader # NoHeader =>
         \E F \in SUBSET PageID : Guards(F, OpenHeader)
    /\ pc # "down" => MemSound
    /\ pc \notin {"down", "mirror", "primary"} => primary = MemHeader
    /\ pc \in {"body", "mirror", "primary"} /\ op.kind \in Changing =>
         primary = HeaderOf(op.old) /\ Guards(op.old.set, op.old)
    /\ pc = "primary" => mirror = MemHeader
    /\ ~created => live = {}
    /\ fresh => primary = NoHeader /\ mirror = NoHeader
    /\ op.kind = "create" => primary = NoHeader /\ (pc = "mirror" => mirror = NoHeader)

\* What the methods in progress hold.
OpInv ==
    /\ op.kind = "none" <=> pc \in {"down", "idle"}
    /\ op.kind = "create" => pc \in {"mirror", "primary"} /\ live = {}
    /\ op.kind \in {"extend", "reuse", "free"} => pc \in {"body", "mirror", "primary"}
    /\ op.kind = "write" => pc = "body"
    /\ op.kind = "txwrite" => pc = "append"
    /\ op.kind = "commit" => pc \in {"append", "apply", "replay", "truncate"}
    /\ op.kind = "close" => pc \in {"replay", "truncate", "closing"}
    /\ op.kind = "open" => pc \in {"replay", "truncate"}
    /\ op.kind \in Changing =>
         /\ op.page \in DataPages \ live
         /\ pc = "body" => mem = op.old
         /\ pc # "body" => op.page < mem.count
    /\ pc = "body" =>
         /\ op.kind = "write" => op.page \in DataPages \ mem.set
         /\ op.kind = "extend" => op.page = mem.count
         /\ op.kind = "reuse" => op.page = mem.head /\ op.word = body[op.page] /\ op.word # Corrupt
         /\ op.kind = "free" => op.page \notin mem.set /\ op.page < mem.count /\ op.word = mem.head
    /\ pc \in {"mirror", "primary"} /\ op.kind \in {"extend", "reuse"} =>
         op.page \notin mem.set /\ body[op.page] = 0
    /\ op.kind = "txwrite" => op.page \in DataPages \ mem.set
    /\ op.kind = "commit" => op.page = EOT
    /\ op.kind \in {"txwrite"} \/ (op.kind = "commit" /\ pc = "append") => tx.on
    /\ tx.on => op.kind \in {"none", "txwrite", "commit", "close"} /\ (op.kind = "commit" => pc = "append")

\* The log: outside a commit and the replay of an Open it holds no committed transaction.
LogInv ==
    /\ tail = <<>> /\ untruncated = <<>>
    /\ \A i \in DOMAIN wal : wal[i].page \in DataPages \cup {EOT}
    /\ pc # "down" /\ op.kind # "open" /\ (op.kind = "commit" => pc = "append") => Committed(wal) = {}
    /\ pc # "down" /\ op.kind # "open" =>
         /\ \A i \in DOMAIN wal : wal[i].txn <= nextTxnID
         /\ \A r \in rolledBack : r <= nextTxnID
    /\ pc # "down" /\ op.kind # "create" => created
    /\ ~created => wal = <<>> /\ rolledBack = {}
    /\ pc = "closing" => wal = <<>>
    /\ pc = "truncate" => Redo(wal, body) = body
    /\ pc = "apply" => \A p \in PageID : op.buf[p] = NoWrite <=> Writes(wal, p) = {}

RecordsOf(log, id, p) == {i \in DOMAIN log : log[i].txn = id /\ log[i].page = p}

\* The pages that transaction id has written, as its records in the log say.
Buffered(log, id) ==
    [p \in PageID |-> IF RecordsOf(log, id, p) = {} THEN NoWrite
                      ELSE log[Max(RecordsOf(log, id, p))].word]

\* The buffer of the open transaction has what its records in the log say.
TxInv ==
    /\ tx.on /\ op.kind # "close" =>
         /\ pc # "down" /\ tx.id <= nextTxnID /\ tx.id \notin rolledBack
         /\ tx.buf = Buffered(wal, tx.id)
         /\ \A p \in PageID : tx.buf[p] # NoWrite => p \in DataPages \ mem.set
    /\ ~tx.on => tx.buf = NoBuffer

\* What replay makes of the main file and the log is what the callers were promised.
Rebuilt == \A p \in live : Redo(IF pc = "down" THEN WalFile ELSE wal, body)[p] = content[p]

ErrInv == RefusalIsFreeList /\ (pc # "down" => openErr = "none")

DurableInv ==
    /\ DefaultPager
    /\ TypeOK /\ ShapeOK /\ HeaderInv
    /\ FreeInv /\ OpInv /\ LogInv /\ TxInv /\ ErrInv
    /\ Rebuilt /\ RollbackIsFinal
-----------------------------------------------------------------------------
\* The sentinel, the zero of a new page and the mark of a torn one are no page ids.
LEMMA NoPage ==
    /\ Sentinel \notin PageID /\ 0 \notin PageID /\ Corrupt \notin PageID
    /\ DataPages \subseteq PageID /\ MirrorHeaderPageID \notin DataPages
  BY PagerAssumption DEF PageID, Corrupt, DataPages, FirstDataPageID, MirrorHeaderPageID
-----------------------------------------------------------------------------
(* The log. *)

\* A data record commits nothing, an EOT marker its transaction.
LEMMA CommittedAppend ==
    ASSUME NEW log \in Seq(Record), NEW rec \in Record
    PROVE  Committed(Append(log, rec)) =
               IF rec.page = EOT THEN Committed(log) \cup {rec.txn} ELSE Committed(log)
<1> DEFINE new == Append(log, rec)
<1>1. /\ DOMAIN new = DOMAIN log \cup {Len(log) + 1} /\ Len(log) + 1 \notin DOMAIN log
      /\ new[Len(log) + 1] = rec /\ \A i \in DOMAIN log : new[i] = log[i]
  OBVIOUS
<1> HIDE DEF new
<1>2. \A x : x \in Committed(new) <=> x \in Committed(log) \/ (rec.page = EOT /\ x = rec.txn)
  BY <1>1 DEF Committed
<1>3. \A x : x \in Committed(new) <=>
               x \in (IF rec.page = EOT THEN Committed(log) \cup {rec.txn} ELSE Committed(log))
  BY <1>2
<1> QED
  BY <1>3 DEF new

\* Replay of a log with no committed transaction changes nothing.
LEMMA QuietRedo ==
    ASSUME NEW log, Committed(log) = {}, NEW b \in [PageID -> Word]
    PROVE  Redo(log, b) = b /\ \A p : Writes(log, p) = {}
<1>1. \A p : Writes(log, p) = {}
  BY DEF Writes
<1> QED
  BY <1>1 DEF Redo

\* Replay does not depend on the pages that it writes, so that it can be repeated over pages
\* that an interrupted replay or commit left torn.
LEMMA RedoAgain ==
    ASSUME NEW log, NEW b, NEW c, \A p \in PageID : Writes(log, p) = {} => c[p] = b[p]
    PROVE  Redo(log, c) = Redo(log, b)
  BY DEF Redo

\* The greatest element of a set is its maximum.
LEMMA MaxIs ==
    ASSUME NEW n \in Nat, NEW S \in SUBSET (1..n), NEW i \in S, \A j \in S : j <= i
    PROVE  Max(S) = i
<1> DEFINE m == Max(S)
<1>1. m \in S /\ m >= i
  BY MaxIsMember, Zenon
<1> HIDE DEF m
<1>2. m \in 1..n /\ i \in 1..n /\ m <= i
  BY <1>1
<1>3. m = i
  BY <1>1, <1>2
<1> QED
  BY <1>3 DEF m

\* WritePage in a transaction: the record it appends is what the buffer then holds.
LEMMA BufferedAppend ==
    ASSUME NEW log \in Seq(Record), NEW rec \in Record, rec.page \in PageID
    PROVE  Buffered(Append(log, rec), rec.txn) =
               [Buffered(log, rec.txn) EXCEPT ![rec.page] = rec.word]
<1> DEFINE new == Append(log, rec)
           n == Len(log) + 1
<1>1. /\ n \in Nat /\ DOMAIN log = 1..Len(log) /\ DOMAIN new = 1..n
      /\ new[n] = rec /\ \A i \in 1..Len(log) : new[i] = log[i]
  OBVIOUS
<1> HIDE DEF new
<1> SUFFICES ASSUME NEW p \in PageID
             PROVE  Buffered(new, rec.txn)[p] =
                        IF p = rec.page THEN rec.word ELSE Buffered(log, rec.txn)[p]
  BY Zenon DEF Buffered, new
<1>2. CASE p = rec.page
  <2>1. /\ RecordsOf(new, rec.txn, p) \in SUBSET (1..n) /\ n \in RecordsOf(new, rec.txn, p)
        /\ \A j \in RecordsOf(new, rec.txn, p) : j <= n
    BY <1>1, <1>2 DEF RecordsOf
  <2>2. Max(RecordsOf(new, rec.txn, p)) = n
    BY <1>1, <2>1, MaxIs, Zenon
  <2> QED
    BY <1>1, <1>2, <2>1, <2>2 DEF Buffered
<1>3. CASE p # rec.page
  <2>1. RecordsOf(new, rec.txn, p) = RecordsOf(log, rec.txn, p)
    BY <1>1, <1>3 DEF RecordsOf
  <2>2. RecordsOf(log, rec.txn, p) \in SUBSET (1..Len(log)) /\ Len(log) \in Nat
    BY <1>1 DEF RecordsOf
  <2>3. RecordsOf(log, rec.txn, p) # {} => Max(RecordsOf(log, rec.txn, p)) \in 1..Len(log)
    BY <2>2, MaxIsMember, Zenon
  <2> QED
    BY <1>1, <1>3, <2>1, <2>3 DEF Buffered
<1> QED
  BY <1>2, <1>3

\* A new transaction has no records yet.
LEMMA BufferedFresh ==
    ASSUME NEW log \in Seq(Record), NEW id \in Nat, \A i \in DOMAIN log : log[i].txn < id
    PROVE  Buffered(log, id) = NoBuffer
<1>1. \A p : RecordsOf(log, id, p) = {}
  BY DEF RecordsOf, Record
<1> QED
  BY <1>1 DEF Buffered, NoBuffer

\* The commit point: with its EOT marker in the log, the writes of a transaction are what
\* replay applies, and they are the pages of its buffer.
LEMMA CommitRedo ==
    ASSUME NEW log \in Seq(Record), Committed(log) = {}, NEW rec \in Record, rec.page = EOT
    PROVE  /\ \A p \in PageID : Buffered(log, rec.txn)[p] = NoWrite <=> Writes(Append(log, rec), p) = {}
           /\ \A b : Redo(Append(log, rec), b) = Overlay(Buffered(log, rec.txn), b)
<1> DEFINE new == Append(log, rec)
<1>1. /\ DOMAIN log = 1..Len(log) /\ DOMAIN new = DOMAIN log \cup {Len(log) + 1}
      /\ new[Len(log) + 1] = rec /\ \A i \in DOMAIN log : new[i] = log[i]
  OBVIOUS
<1>2. Committed(new) = {rec.txn}
  BY CommittedAppend
<1> HIDE DEF new
<1>3. ASSUME NEW p \in PageID
      PROVE  /\ Writes(new, p) = RecordsOf(log, rec.txn, p)
             /\ Writes(new, p) # {} => /\ Max(Writes(new, p)) \in DOMAIN log
                                        /\ log[Max(Writes(new, p))].word # NoWrite
  <2>1. rec.page # p
    BY NoPage DEF EOT
  <2>2. Writes(new, p) = RecordsOf(log, rec.txn, p)
    BY <1>1, <1>2, <2>1 DEF Writes, RecordsOf
  <2>3. RecordsOf(log, rec.txn, p) \in SUBSET (1..Len(log)) /\ Len(log) \in Nat
    BY <1>1 DEF RecordsOf
  <2>4. Writes(new, p) # {} => Max(Writes(new, p)) \in DOMAIN log
    BY <1>1, <2>2, <2>3, MaxIsMember, Zenon
  <2>5. \A i \in DOMAIN log : log[i].word # NoWrite
    <3>1. \A i \in DOMAIN log : log[i] \in Record
      OBVIOUS
    <3>2. \A r \in Record : r.word \in Word
      BY DEF Record
    <3> QED
      BY <3>1, <3>2 DEF Word, NoWrite, Corrupt
  <2> QED
    BY <2>2, <2>4, <2>5
<1>4. \A p \in PageID : Buffered(log, rec.txn)[p] = NoWrite <=> Writes(new, p) = {}
  BY <1>3 DEF Buffered
<1>5. ASSUME NEW b PROVE Redo(new, b) = Overlay(Buffered(log, rec.txn), b)
  <2>1. ASSUME NEW p \in PageID, Writes(new, p) # {}
        PROVE  new[Max(Writes(new, p))].word = Buffered(log, rec.txn)[p]
    BY <1>1, <1>3, <2>1 DEF Buffered
  <2> QED
    BY <1>4, <2>1 DEF Redo, Overlay
<1> QED
  BY <1>4, <1>5 DEF new
-----------------------------------------------------------------------------
(* The steps. *)

\* Nothing fails, the log ends where its last record does, and a crash leaves it as it is.
LEMMA NoFaults ==
    ASSUME DurableInv
    PROVE  /\ faults = 0 /\ ~Fault /\ ~Fail
           /\ WalFile = wal /\ CrashedWal = {wal} /\ \A rec : Residue(rec) = {<<>>}
           /\ \A i \in DOMAIN wal : wal[i] # Garbage
<1>1. faults = 0 /\ ~Fault
  BY DEF DurableInv, DefaultPager, TypeOK, Fault
<1>2. ~Fail
  BY <1>1 DEF Fail, FailBody, FailMirror, FailPrimary, FailAppend, FailMainWrites, FailFinish
<1>3. tail = <<>> /\ untruncated = <<>> /\ ~PowerLoss /\ wal \in Seq(Record)
  BY DEF DurableInv, LogInv, DefaultPager, TypeOK
<1>4. WalFile = wal
  BY <1>3 DEF WalFile
<1>5. CrashedWal = {wal}
  BY <1>3, <1>4 DEF CrashedWal
<1>6. \A rec : Residue(rec) = {<<>>}
  BY <1>3 DEF Residue
<1>7. \A i \in DOMAIN wal : wal[i] # Garbage
  BY PagerAssumption DEF DurableInv, LogInv, Garbage, EOT, DataPages, FirstDataPageID
<1> QED
  BY <1>1, <1>2, <1>4, <1>5, <1>6, <1>7

\* Each method of the pager holds the page it was given, from its first step to its last.
LEMMA StepOpInv ==
    ASSUME DurableInv, Next, TypeOK'
    PROVE  OpInv'
<1> USE DEF OpInv, Changing
<1>0. /\ OpInv /\ TypeOK /\ (pc = "down" => ~tx.on) /\ (created => ~fresh)
      /\ (~created => live = {}) /\ DataPages \subseteq PageID
      /\ (pc # "down" => Guards(mem.set, mem)) /\ mem \in Mem /\ op \in Locals
  BY NoPage, Zenon DEF DurableInv, TxInv, FreeInv, HeaderInv, MemSound, Sound, Guards, TypeOK
<1>1. CASE OpenFresh
  BY <1>0, <1>1 DEF OpenFresh, disk, history, NoOp
<1>2. CASE OpenNoHeader \/ OpenBadFreeList
  BY <1>0, <1>2 DEF OpenNoHeader, OpenBadFreeList, disk, memory, history
<1>3. CASE OpenExisting
  BY <1>0, <1>3 DEF OpenExisting, Return, NoOp
<1>4. CASE Close
  BY <1>0, <1>4 DEF Close, Op, disk, memory, history
<1>5. CASE CloseFiles
  BY <1>0, <1>5 DEF CloseFiles, Shut, NoOp, NoTx, history
<1>6. CASE Replay
  BY <1>0, <1>6, NoFaults DEF Replay, memory, history
<1>7. CASE Truncate
  BY <1>0, <1>7 DEF Truncate, Return, NoOp, memory
<1>8. ASSUME NEW p \in PageID, NEW v \in DirectValues, WritePage(p, v) PROVE OpInv'
  BY <1>0, <1>8 DEF WritePage, Writable, Op, DataPages, PageID, disk, memory, history
<1>9. ASSUME NEW p \in PageID, NEW v \in Values, TxWritePage(p, v) PROVE OpInv'
  BY <1>0, <1>9, SMTT(30) DEF TxWritePage, Writable, Op, DataPages, PageID, disk, memory, history
<1>10. CASE AllocatePage
  <2>1. /\ pc = "idle" /\ ~tx.on /\ pc' = "body" /\ mem' = mem /\ tx' = tx /\ live' = live /\ body' = body
        /\ \/ mem.head \in PageID /\ body[mem.head] # Corrupt /\ op' = Op("reuse", mem.head, body[mem.head])
           \/ mem.count < MaxPages /\ op' = Op("extend", mem.count, 0)
    BY <1>10 DEF AllocatePage, disk, memory, history
  <2>2. CASE mem.head \in PageID /\ body[mem.head] # Corrupt /\ op' = Op("reuse", mem.head, body[mem.head])
    <3>1. mem.head \in DataPages \ live
      BY <1>0, <2>1, <2>2 DEF Guards, GuardsIn
    <3> QED
      BY <1>0, <2>1, <2>2, <3>1, Zenon DEF Op
  <2>3. CASE mem.count < MaxPages /\ op' = Op("extend", mem.count, 0)
    <3>1. mem.count \in DataPages \ live
      <4>1. mem.count \in DataPages
        BY <1>0, <2>1, <2>3, PagerAssumption, SMTT(30) DEF Mem, ShapeOK, DataPages, FirstDataPageID, DurableInv
      <4>2. \A p \in live : p < mem.count
        BY <1>0, <2>1 DEF Guards, GuardsIn
      <4> QED
        BY <4>1, <4>2 DEF DataPages
    <3> QED
      BY <1>0, <2>1, <2>3, <3>1, Zenon DEF Op
  <2> QED
    BY <2>1, <2>2, <2>3, Zenon
<1>11. ASSUME NEW p \in FreeArgs, FreePage(p) PROVE OpInv'
  <2>1. p \in DataPages
    BY PagerAssumption DEF DurableInv, DefaultPager, DataPages, FirstDataPageID, MirrorHeaderPageID
  <2> QED
    BY <1>0, <1>11, <2>1 DEF FreePage, Op, disk, memory
<1>12. CASE WriteBody
  <2>1. CASE op.kind = "write"
    BY <1>0, <1>12, <2>1, SMTT(30) DEF WriteBody, Return, NoOp
  <2>2. CASE op.kind # "write"
    <3>0. pc = "body" /\ op.kind \in Kind
      BY <1>0, <1>12, Zenon DEF WriteBody, Locals
    <3>1. /\ op.kind \in Changing /\ pc = "body" /\ pc' = "mirror" /\ op' = op /\ mem' = MemAfter
          /\ tx' = tx /\ live' = live /\ body' = [body EXCEPT ![op.page] = OpWord]
      <4>1. op.kind \in Changing
        BY <1>0, <2>2, <3>0 DEF Kind
      <4> QED
        BY <1>12, <2>2, <4>1 DEF WriteBody
    <3>2. /\ op.page < mem'.count
          /\ op.kind \in {"extend", "reuse"} => op.page \notin mem'.set
      <4>1. \A q \in mem.set : q < mem.count
        BY <3>0, Zenon DEF DurableInv, FreeInv, MemSound, Sound, Chain
      <4>2. CASE op.kind = "extend"
        <5>1. mem'.count = mem.count + 1 /\ mem'.set = mem.set /\ op.page = mem.count /\ mem.count \in Nat
          BY <1>0, <3>0, <3>1, <4>2 DEF MemAfter, Mem
        <5> QED
          BY <4>1, <5>1
      <4>3. CASE op.kind = "reuse"
        <5>1. mem'.count = mem.count /\ mem'.set = mem.set \ {op.page} /\ op.page = mem.head
          BY <1>0, <3>0, <3>1, <4>3, Zenon DEF MemAfter, Mem
        <5>2. op.page \in mem.set
          BY <1>0, <3>0, <4>3, <5>1 DEF Guards, GuardsIn
        <5> QED
          BY <4>1, <5>1, <5>2
      <4>4. CASE op.kind = "free"
        BY <1>0, <3>0, <3>1, <4>4, Zenon DEF MemAfter, Mem
      <4> QED
        BY <3>1, <4>2, <4>3, <4>4
    <3>3. op.kind \in {"extend", "reuse"} => body'[op.page] = 0
      BY <1>0, <3>1, Zenon DEF OpWord, TypeOK
    <3> QED
      BY <1>0, <3>1, <3>2, <3>3, Zenon
  <2> QED
    BY <2>1, <2>2
<1>13. CASE WriteMirror
  <2>1. \A p \in DataPages : body'[p] = body[p]
    BY <1>0, <1>13, NoPage, Zenon DEF WriteMirror, TypeOK
  <2> QED
    BY <1>0, <1>13, <2>1, Zenon DEF WriteMirror, memory, history
<1>14. CASE WritePrimary
  BY <1>0, <1>14, Zenon DEF WritePrimary, Return, NoOp, memory
<1>15. CASE BeginTx
  BY <1>0, <1>15, Zenon DEF BeginTx, disk, history
<1>16. CASE CommitTx
  BY <1>0, <1>16, Zenon DEF CommitTx, Op, disk, memory, history
<1>17. CASE RollbackTx
  BY <1>0, <1>17, Zenon DEF RollbackTx, NoTx, disk
<1>18. CASE AppendWAL
  <2>1. CASE op.kind = "txwrite"
    BY <1>0, <1>18, <2>1 DEF AppendWAL, Return, NoOp, Transaction, TypeOK
  <2>2. CASE op.kind # "txwrite"
    BY <1>0, <1>18, <2>2 DEF AppendWAL, NoTx, Locals
  <2> QED
    BY <2>1, <2>2, Zenon
<1>19. CASE ApplyBuffer
  BY <1>0, <1>19, Zenon DEF ApplyBuffer, Return, NoOp, memory, history, DurableInv, DefaultPager
<1>20. CASE Crash
  BY <1>0, <1>20, Zenon DEF Crash, Shut, NoOp, NoTx
<1>21. CASE Fail
  BY <1>21, NoFaults, Zenon
<1> QED
  BY <1>1, <1>2, <1>3, <1>4, <1>5, <1>6, <1>7, <1>8, <1>9, <1>10, <1>11, <1>12, <1>13, <1>14,
     <1>15, <1>16, <1>17, <1>18, <1>19, <1>20, <1>21, Zenon DEF Next

\* The actions that touch neither the log nor the pages, and start or end no method that does.
LEMMA SameLog ==
    ASSUME DurableInv, UNCHANGED <<wal, tail, untruncated, body, created>>,
           pc # "down", pc' \notin {"down", "truncate", "apply"}, pc' = "closing" => wal = <<>>,
           op.kind \notin {"open", "create"}, op.kind = "commit" => pc = "append",
           op'.kind # "create", nextTxnID' \in Nat, nextTxnID <= nextTxnID',
           \A r \in rolledBack' : r \in rolledBack \/ r <= nextTxnID'
    PROVE  LogInv'
<1>1. LogInv /\ TypeOK /\ nextTxnID \in Nat /\ wal \in Seq(Record)
  BY DEF DurableInv, TypeOK
<1>2. \A i \in DOMAIN wal : wal[i].txn \in Nat
  <2>1. \A i \in DOMAIN wal : wal[i] \in Record
    BY <1>1
  <2> QED
    BY <2>1 DEF Record
<1>3. rolledBack \subseteq Nat
  BY <1>1 DEF TypeOK
<1>4. created /\ Committed(wal) = {}
  BY <1>1 DEF LogInv
<1>5. /\ \A i \in DOMAIN wal : wal[i].txn <= nextTxnID'
      /\ \A r \in rolledBack' : r <= nextTxnID'
  <2>1. /\ \A i \in DOMAIN wal : wal[i].txn <= nextTxnID
        /\ \A r \in rolledBack : r <= nextTxnID
    BY <1>1 DEF LogInv
  <2>2. \A n \in Nat : n <= nextTxnID => n <= nextTxnID'
    BY <1>1
  <2> QED
    BY <1>2, <1>3, <2>1, <2>2, Zenon
<1> QED
  BY <1>1, <1>4, <1>5, Zenon DEF LogInv, Committed

\* The log holds a committed transaction only from the EOT marker of CommitTx to the Truncate
\* of the checkpoint that follows, or of the next Open.
LEMMA StepLogInv ==
    ASSUME DurableInv, Next, TypeOK', OpInv'
    PROVE  LogInv'
<1>0. /\ LogInv /\ OpInv /\ TypeOK /\ (created => ~fresh) /\ nextTxnID \in Nat
      /\ wal \in Seq(Record) /\ body \in [PageID -> Word]
  BY DEF DurableInv, HeaderInv, TypeOK
<1>1. CASE OpenFresh
  <2>1. wal = <<>> /\ rolledBack = {} /\ ~created
    BY <1>0, <1>1 DEF OpenFresh, LogInv
  <2> QED
    BY <1>0, <1>1, <2>1 DEF OpenFresh, LogInv, Committed, disk, history, NoOp
<1>2. CASE OpenNoHeader \/ OpenBadFreeList
  BY <1>0, <1>2, Zenon DEF OpenNoHeader, OpenBadFreeList, LogInv, disk, memory, history
<1>3. CASE OpenExisting
  <2>1. CASE wal = <<>>
    BY <1>0, <1>3, <2>1 DEF OpenExisting, LogInv, Committed, Return, NoOp
  <2>2. CASE wal # <<>>
    BY <1>0, <1>3, <2>2 DEF OpenExisting, LogInv, NoOp
  <2> QED
    BY <2>1, <2>2
<1>4. CASE Close
  BY <1>0, <1>4, SameLog, SMTT(30) DEF Close, Op, OpInv, disk, memory, history
<1>5. CASE CloseFiles
  BY <1>0, <1>5, NoFaults, Zenon DEF CloseFiles, Shut, LogInv, OpInv, history
<1>6. CASE Replay
  <2>1. /\ pc = "replay" /\ pc' = "truncate" /\ body' = Redo(wal, body)
        /\ UNCHANGED <<op, memory, wal, tail, untruncated, history>>
    BY <1>6, NoFaults DEF Replay
  <2>2. Redo(wal, body') = body'
    BY <2>1, RedoAgain DEF Redo
  <2> QED
    BY <1>0, <2>1, <2>2, Zenon DEF LogInv, memory, history
<1>7. CASE Truncate
  <2>1. /\ pc = "truncate" /\ wal' = <<>> /\ tail' = <<>> /\ untruncated' = <<>> /\ rolledBack' = {}
        /\ created' = created
    BY <1>7 DEF Truncate, DurableInv, DefaultPager
  <2>2. Committed(wal') = {} /\ DOMAIN wal' = {}
    BY <2>1 DEF Committed
  <2>3. pc' \in {"closing", "idle"} /\ op'.kind \in {"none", "close"} /\ created
    BY <1>0, <1>7, Zenon DEF Truncate, Return, NoOp, LogInv, OpInv
  <2> QED
    BY <2>1, <2>2, <2>3 DEF LogInv
<1>8. ASSUME NEW p, NEW v, WritePage(p, v) \/ TxWritePage(p, v) \/ AllocatePage \/ FreePage(p)
      PROVE  LogInv'
  <2>1. /\ pc = "idle" /\ pc' \in {"body", "append"} /\ UNCHANGED <<wal, tail, untruncated, body, created>>
        /\ op'.kind \in {"write", "txwrite", "extend", "reuse", "free"}
        /\ nextTxnID' = nextTxnID /\ rolledBack' = rolledBack
    <3>1. CASE WritePage(p, v) \/ TxWritePage(p, v)
      BY <3>1 DEF WritePage, TxWritePage, Op, disk, memory, history
    <3>2. CASE AllocatePage \/ FreePage(p)
      BY <3>2 DEF AllocatePage, FreePage, Op, disk, memory, history
    <3> QED
      BY <1>8, <3>1, <3>2
  <2>2. op.kind = "none"
    BY <1>0, <2>1, Zenon DEF OpInv
  <2>3. nextTxnID' \in Nat /\ nextTxnID <= nextTxnID'
    BY <1>0, <2>1
  <2> QED
    BY <2>1, <2>2, <2>3, SameLog
<1>12. CASE WriteBody
  BY <1>0, <1>12, Zenon DEF WriteBody, LogInv, OpInv, Return, NoOp
<1>13. CASE WriteMirror
  BY <1>0, <1>13, Zenon DEF WriteMirror, LogInv, OpInv, memory, history
<1>14. CASE WritePrimary
  BY <1>0, <1>14, Zenon DEF WritePrimary, LogInv, OpInv, Return, NoOp, memory
<1>15. CASE BeginTx
  BY <1>0, <1>15, SameLog, SMTT(30) DEF BeginTx, OpInv, disk, history
<1>16. CASE CommitTx
  BY <1>0, <1>16, SameLog, SMTT(30) DEF CommitTx, Op, OpInv, disk, memory, history
<1>17. CASE RollbackTx
  <2>1. pc = "idle" /\ op.kind = "none" /\ tx.on /\ tx.id <= nextTxnID
    BY <1>0, <1>17, Zenon DEF RollbackTx, OpInv, DurableInv, TxInv
  <2> QED
    BY <1>0, <1>17, <2>1, SameLog DEF RollbackTx, disk
<1>18. CASE AppendWAL
  <2>1. /\ pc = "append" /\ tail' = <<>> /\ untruncated' = <<>> /\ wal' = Append(wal, OpRecord)
        /\ UNCHANGED <<nextTxnID, created, rolledBack, body>>
    BY <1>18, NoFaults DEF AppendWAL
  <2>2. /\ OpRecord \in Record /\ OpRecord.txn = tx.id /\ OpRecord.page = op.page
        /\ op.kind \in {"txwrite", "commit"} /\ tx.on /\ Committed(wal) = {} /\ created
    <3>1. op.kind \in {"txwrite", "commit"} /\ tx.on
      BY <1>0, <2>1, Zenon DEF OpInv, TypeOK, Locals, Kind
    <3> QED
      BY <1>0, <2>1, <3>1, LogTypes, Zenon DEF LogInv, OpRecord
  <2>3. tx.id <= nextTxnID /\ tx.buf = Buffered(wal, tx.id)
    BY <2>2, Zenon DEF DurableInv, TxInv
  <2>4. OpRecord.page \in DataPages \cup {EOT}
    BY <1>0, <2>2, Zenon DEF OpInv
  <2>5. \A i \in DOMAIN wal' : (i \in DOMAIN wal /\ wal'[i] = wal[i]) \/ wal'[i] = OpRecord
    BY <1>0, <2>1
  <2>6. /\ \A i \in DOMAIN wal' : wal'[i].page \in DataPages \cup {EOT} /\ wal'[i].txn <= nextTxnID
        /\ \A r \in rolledBack : r <= nextTxnID
    BY <1>0, <2>1, <2>2, <2>3, <2>4, <2>5, Zenon DEF LogInv
  <2>7. CASE op.kind = "txwrite"
    <3>1. Committed(wal') = {}
      <4>1. OpRecord.page # EOT
        BY <1>0, <2>2, <2>7, NoPage, Zenon DEF OpInv, EOT
      <4> QED
        BY <1>0, <2>1, <2>2, <4>1, CommittedAppend
    <3>2. pc' = "idle" /\ op'.kind = "none"
      BY <1>18, <2>7 DEF AppendWAL, Return, NoOp
    <3> QED
      BY <2>1, <2>2, <2>6, <3>1, <3>2, Zenon DEF LogInv
  <2>8. CASE op.kind = "commit"
    <3>1. pc' = "apply" /\ op'.kind = "commit" /\ op'.buf = tx.buf
      BY <1>0, <1>18, <2>8 DEF AppendWAL, TypeOK, Locals
    <3>2. \A p \in PageID : tx.buf[p] = NoWrite <=> Writes(wal', p) = {}
      <4>1. OpRecord.page = EOT
        BY <1>0, <2>2, <2>8, Zenon DEF OpInv
      <4> QED
        BY <1>0, <2>1, <2>2, <2>3, <4>1, CommitRedo, SMTT(30)
    <3> QED
      BY <2>1, <2>2, <2>6, <3>1, <3>2 DEF LogInv
  <2> QED
    BY <2>2, <2>7, <2>8
<1>19. CASE ApplyBuffer
  BY <1>0, <1>19, Zenon DEF ApplyBuffer, LogInv, OpInv, memory, history, DurableInv, DefaultPager
<1>20. CASE Crash
  BY <1>0, <1>20, NoFaults, Zenon DEF Crash, Shut, LogInv
<1>21. CASE Fail
  BY <1>21, NoFaults
<1> QED
  BY <1>1, <1>2, <1>3, <1>4, <1>5, <1>6, <1>7, <1>8, <1>12, <1>13, <1>14,
     <1>15, <1>16, <1>17, <1>18, <1>19, <1>20, <1>21 DEF Next

\* txnBuffer and the records of the open transaction say the same, and no page of them is free.
LEMMA StepTxInv ==
    ASSUME DurableInv, Next, TypeOK', OpInv'
    PROVE  TxInv'
<1>0. /\ LogInv /\ OpInv /\ TxInv /\ wal \in Seq(Record) /\ tx \in Transaction /\ nextTxnID \in Nat
      /\ (pc = "down" => ~tx.on)
  BY Zenon DEF DurableInv, TypeOK, TxInv, OpInv
<1>1. CASE OpenFresh \/ OpenNoHeader \/ OpenBadFreeList \/ OpenExisting
  BY <1>0, <1>1 DEF OpenFresh, OpenNoHeader, OpenBadFreeList, OpenExisting, memory, TxInv
<1>2. CASE Close
  BY <1>0, <1>2, Zenon DEF Close, Op, TxInv, memory
<1>3. CASE CloseFiles \/ Crash
  <2>1. tx' = NoTx
    BY <1>3, Zenon DEF CloseFiles, Crash, Shut
  <2> QED
    BY <2>1 DEF NoTx, TxInv
<1>4. CASE Replay
  <2>1. /\ pc' = "truncate" /\ UNCHANGED <<op, mem, tx, nextTxnID, wal, rolledBack>>
    BY <1>4, NoFaults, Zenon DEF Replay, memory, history
  <2> QED
    BY <1>0, <2>1, Zenon DEF TxInv
<1>5. CASE Truncate
  BY <1>0, <1>5, Zenon DEF Truncate, Return, memory, TxInv, OpInv
<1>6. CASE WriteBody \/ WriteMirror \/ WritePrimary \/ ApplyBuffer
  <2>1. ~tx.on /\ tx' = tx
    BY <1>0, <1>6, Zenon DEF WriteBody, WriteMirror, WritePrimary, ApplyBuffer, memory, OpInv
  <2> QED
    BY <1>0, <2>1 DEF TxInv
<1>7. ASSUME NEW p, NEW v, WritePage(p, v) \/ AllocatePage \/ FreePage(p) PROVE TxInv'
  BY <1>0, <1>7, Zenon DEF WritePage, AllocatePage, FreePage, memory, TxInv
<1>8. ASSUME NEW p, NEW v, TxWritePage(p, v) \/ CommitTx PROVE TxInv'
  <2>1. UNCHANGED <<tx, wal, mem, nextTxnID, rolledBack>> /\ op.kind = "none" /\ pc' = "append"
    BY <1>0, <1>8, Zenon DEF TxWritePage, CommitTx, disk, memory, history, OpInv
  <2> QED
    BY <1>0, <2>1, Zenon DEF TxInv
<1>9. CASE BeginTx
  <2>1. /\ tx'.id = nextTxnID + 1 /\ tx'.buf = NoBuffer /\ pc' = "idle" /\ nextTxnID' = nextTxnID + 1
        /\ wal' = wal /\ rolledBack' = rolledBack /\ op.kind = "none"
    BY <1>0, <1>9, Zenon DEF BeginTx, disk, history, OpInv
  <2>2. /\ \A i \in DOMAIN wal : wal[i].txn <= nextTxnID
        /\ \A r \in rolledBack : r <= nextTxnID
    BY <1>0, <1>9, <2>1 DEF BeginTx, LogInv
  <2>3. /\ \A i \in DOMAIN wal : wal[i].txn \in Nat
        /\ rolledBack \subseteq Nat
    <3>1. \A i \in DOMAIN wal : wal[i] \in Record
      BY <1>0
    <3> QED
      BY <3>1, Zenon DEF Record, DurableInv, TypeOK
  <2>4. \A i \in DOMAIN wal : wal[i].txn < nextTxnID + 1
    BY <1>0, <2>2, <2>3
  <2>5. nextTxnID + 1 \notin rolledBack
    BY <1>0, <2>2, <2>3
  <2>6. Buffered(wal, nextTxnID + 1) = NoBuffer
    BY <1>0, <2>4, BufferedFresh
  <2>7. \A p \in PageID : NoBuffer[p] = NoWrite
    BY DEF NoBuffer
  <2> QED
    BY <1>0, <1>9, <2>1, <2>5, <2>6, <2>7 DEF TxInv, BeginTx
<1>10. CASE RollbackTx
  BY <1>10 DEF RollbackTx, NoTx, TxInv
<1>11. CASE AppendWAL
  <2>1. CASE op.kind # "txwrite"
    BY <1>11, <2>1 DEF AppendWAL, NoTx, TxInv
  <2>2. CASE op.kind = "txwrite"
    <3>1. /\ pc' = "idle" /\ wal' = Append(wal, OpRecord) /\ UNCHANGED <<nextTxnID, rolledBack, mem>>
          /\ tx' = [tx EXCEPT !.buf[op.page] = op.word] /\ tx'.on = tx.on
      BY <1>0, <1>11, <2>2 DEF AppendWAL, Return, Transaction
    <3>2. /\ tx.on /\ op.page \in DataPages \ mem.set /\ tx.id <= nextTxnID /\ tx.id \notin rolledBack
          /\ tx.buf = Buffered(wal, tx.id)
          /\ \A p \in PageID : tx.buf[p] # NoWrite => p \in DataPages \ mem.set
      BY <1>0, <2>2, Zenon DEF OpInv, TxInv
    <3>3. OpRecord \in Record /\ OpRecord.txn = tx.id /\ OpRecord.page = op.page /\ OpRecord.word = op.word
      BY LogTypes DEF OpRecord, DurableInv
    <3>4. tx'.id = tx.id /\ tx'.buf = [tx.buf EXCEPT ![op.page] = op.word]
      BY <1>0, <3>1 DEF Transaction
    <3>5. tx'.buf = Buffered(wal', tx.id)
      BY <1>0, <3>1, <3>2, <3>3, <3>4, NoPage, BufferedAppend
    <3>6. \A p \in PageID : tx'.buf[p] # NoWrite => p \in DataPages \ mem.set
      BY <1>0, <3>2, <3>4 DEF Transaction, Buffer
    <3> QED
      BY <3>1, <3>2, <3>4, <3>5, <3>6 DEF TxInv
  <2> QED
    BY <2>1, <2>2
<1>12. CASE Fail
  BY <1>12, NoFaults
<1> QED
  BY <1>1, <1>2, <1>3, <1>4, <1>5, <1>6, <1>7, <1>8, <1>9, <1>10, <1>11, <1>12 DEF Next

\* CommitTx is the only step that commits, and the transaction it commits was not rolled back.
LEMMA StepRollback ==
    ASSUME DurableInv, Next, TypeOK', LogInv'
    PROVE  RollbackIsFinal'
<1>0. /\ LogInv /\ OpInv /\ TxInv /\ wal \in Seq(Record) /\ WalFile = wal
      /\ Committed(wal) \cap rolledBack = {}
  BY NoFaults DEF DurableInv, TypeOK, RollbackIsFinal
<1>1. WalFile' = wal' /\ Committed(<<>>) = {}
  BY DEF LogInv, WalFile, TypeOK, Committed
<1>2. SUFFICES Committed(wal') \cap rolledBack' = {}
  BY <1>1 DEF RollbackIsFinal
<1>3. CASE OpenExisting
  BY <1>0, <1>3 DEF OpenExisting
<1>4. CASE Truncate
  BY <1>4 DEF Truncate
<1>5. CASE RollbackTx
  <2>1. Committed(wal) = {}
    BY <1>0, <1>5, Zenon DEF RollbackTx, LogInv, OpInv
  <2> QED
    BY <1>5, <2>1 DEF RollbackTx, disk
<1>6. CASE AppendWAL
  <2>1. /\ Committed(wal) = {} /\ OpRecord \in Record /\ wal' = Append(wal, OpRecord)
        /\ OpRecord.txn = tx.id /\ rolledBack' = rolledBack
    BY <1>0, <1>6, LogTypes, Zenon DEF AppendWAL, LogInv, OpInv, DurableInv, OpRecord
  <2>2. tx.id \notin rolledBack
    BY <1>0, <1>6, Zenon DEF AppendWAL, TxInv, OpInv, DurableInv, TypeOK, Locals, Kind
  <2> QED
    BY <1>0, <2>1, <2>2, CommittedAppend
<1>7. CASE CloseFiles \/ Crash
  BY <1>0, <1>7, NoFaults, Zenon DEF CloseFiles, Crash, history
<1>8. CASE OpenFresh \/ OpenNoHeader \/ OpenBadFreeList \/ Close \/ Replay \/ BeginTx \/ CommitTx
  BY <1>0, <1>8 DEF OpenFresh, OpenNoHeader, OpenBadFreeList, Close, Replay, BeginTx, CommitTx,
                    disk, history
<1>9. ASSUME NEW p, NEW v, WritePage(p, v) \/ TxWritePage(p, v) \/ AllocatePage \/ FreePage(p)
      PROVE  Committed(wal') \cap rolledBack' = {}
  BY <1>0, <1>9, Zenon DEF WritePage, TxWritePage, AllocatePage, FreePage, disk, history
<1>10. CASE WriteBody \/ WriteMirror \/ WritePrimary \/ ApplyBuffer
  BY <1>0, <1>10, Zenon DEF WriteBody, WriteMirror, WritePrimary, ApplyBuffer, history
<1> QED
  BY <1>3, <1>4, <1>5, <1>6, <1>7, <1>8, <1>9, <1>10, NoFaults, Zenon DEF Next

\* Open never fails for want of a header or a readable log: writeHeader keeps one of the two
\* pages, and appendWAL leaves no record that replay rejects.
LEMMA StepErr ==
    ASSUME DurableInv, Next, TypeOK'
    PROVE  ErrInv'
<1>0. /\ ErrInv /\ (created => OpenHeader # NoHeader) /\ faults = 0
      /\ faults' = faults
  <2>1. created => OpenHeader # NoHeader
    BY NoFaults DEF DurableInv, HeaderInv, HeaderRecoverable, OpenHeader
  <2>2. faults' = faults
    BY NoFaults DEF DurableInv, DefaultPager, TypeOK
  <2> QED
    BY <2>1, <2>2, NoFaults DEF DurableInv
<1> USE DEF ErrInv, RefusalIsFreeList
<1>1. CASE OpenFresh \/ OpenNoHeader \/ OpenBadFreeList \/ OpenExisting
  BY <1>0, <1>1 DEF OpenFresh, OpenNoHeader, OpenBadFreeList, OpenExisting, history
<1>2. CASE Replay
  BY <1>0, <1>2, NoFaults DEF Replay, history
<1>3. CASE CloseFiles \/ Crash
  BY <1>0, <1>3, Zenon DEF CloseFiles, Crash, Shut, history
<1>4. CASE Close \/ Truncate \/ BeginTx \/ CommitTx \/ RollbackTx
  BY <1>0, <1>4, Zenon DEF Close, Truncate, BeginTx, CommitTx, RollbackTx, history
<1>5. ASSUME NEW p, NEW v, WritePage(p, v) \/ TxWritePage(p, v) \/ AllocatePage \/ FreePage(p)
      PROVE  ErrInv'
  BY <1>0, <1>5, Zenon DEF WritePage, TxWritePage, AllocatePage, FreePage, history
<1>6. CASE WriteBody \/ WriteMirror \/ WritePrimary \/ AppendWAL \/ ApplyBuffer
  BY <1>0, <1>6 DEF WriteBody, WriteMirror, WritePrimary, AppendWAL, ApplyBuffer, history
<1> QED
  BY <1>1, <1>2, <1>3, <1>4, <1>5, <1>6, NoFaults DEF Next

\* The pages that a crash leaves: those of the write in progress may be torn, and no page
\* changes that neither that write nor replay writes.
LEMMA CrashedPages ==
    ASSUME DurableInv, NEW b \in CrashedBody
    PROVE  /\ pc = "body" => \A p \in PageID : p # op.page => b[p] = body[p]
           /\ pc # "body" => \A p \in PageID : Writes(wal, p) = {} => b[p] = body[p]
           /\ \A p \in PageID : b[p] = body[p] \/ b[p] = Corrupt \/ pc \in {"apply", "replay"}
<1>0. body \in [PageID -> Word] /\ LogInv
  BY DEF DurableInv, TypeOK
<1>1. CASE pc = "body"
  BY <1>0, <1>1 DEF CrashedBody
<1>2. CASE pc = "apply"
  <2>1. b \in Torn(body, Overlay(op.buf, body))
    BY <1>2 DEF CrashedBody
  <2>2. \A p \in PageID : Writes(wal, p) = {} => Overlay(op.buf, body)[p] = body[p]
    BY <1>0, <1>2 DEF LogInv, Overlay
  <2>3. \A p \in PageID : Overlay(op.buf, body)[p] = body[p] => b[p] = body[p]
    BY <2>1 DEF Torn
  <2> QED
    BY <1>2, <2>2, <2>3
<1>3. CASE pc = "replay"
  <2>1. b \in Torn(body, Redo(wal, body))
    BY <1>3 DEF CrashedBody
  <2>2. \A p \in PageID : Writes(wal, p) = {} => Redo(wal, body)[p] = body[p]
    BY DEF Redo
  <2>3. \A p \in PageID : Redo(wal, body)[p] = body[p] => b[p] = body[p]
    BY <2>1 DEF Torn
  <2> QED
    BY <1>3, <2>2, <2>3
<1>4. CASE pc \notin {"body", "apply", "replay"}
  <2>1. b = body
    BY <1>4 DEF CrashedBody
  <2> QED
    BY <1>4, <2>1
<1> QED
  BY <1>1, <1>2, <1>3, <1>4, Zenon

\* Whatever the step, the next replay finds the last promised body of every page that the
\* callers own.
LEMMA StepRebuilt ==
    ASSUME DurableInv, Next, TypeOK', LogInv'
    PROVE  Rebuilt'
<1>0. /\ LogInv /\ OpInv /\ TxInv /\ wal \in Seq(Record) /\ WalFile = wal
      /\ body \in [PageID -> Word] /\ content \in [PageID -> Word] /\ live \subseteq PageID
      /\ DataPages \subseteq PageID
  BY NoFaults, NoPage, Zenon DEF DurableInv, TypeOK
<1>1. \A p \in live : Redo(wal, body)[p] = content[p]
  BY <1>0 DEF DurableInv, Rebuilt
<1>2. SUFFICES \A p \in live' : Redo(wal', body')[p] = content'[p]
  <2>1. WalFile' = wal'
    BY SMTT(30) DEF LogInv, WalFile, TypeOK
  <2> QED
    BY <2>1 DEF Rebuilt
<1>3. Committed(wal) = {} => Redo(wal, body) = body
  BY <1>0, QuietRedo
<1>4. pc # "down" => live \subseteq DataPages
  BY Zenon DEF DurableInv, FreeInv, MemSound, Sound, GuardsIn
<1>5. CASE OpenFresh \/ OpenNoHeader \/ OpenBadFreeList \/ OpenExisting \/ Close \/ CloseFiles
  BY <1>0, <1>1, <1>5 DEF OpenFresh, OpenNoHeader, OpenBadFreeList, OpenExisting, Close, CloseFiles,
                          disk, history
<1>6. CASE Replay
  <2>1. body' = Redo(wal, body) /\ UNCHANGED <<wal, live, content>>
    BY <1>6, NoFaults DEF Replay, history
  <2>2. \A p \in PageID : Writes(wal, p) = {} => body'[p] = body[p]
    BY <2>1 DEF Redo
  <2>3. Redo(wal, body') = Redo(wal, body)
    BY <2>2, RedoAgain
  <2> QED
    BY <1>1, <2>1, <2>3
<1>7. CASE Truncate
  <2>1. body' = body /\ wal' = <<>> /\ Redo(wal, body) = body /\ UNCHANGED <<live, content>>
    BY <1>0, <1>7, Zenon DEF Truncate, LogInv
  <2>2. Committed(<<>>) = {}
    BY DEF Committed
  <2>3. Redo(<<>>, body) = body
    BY <1>0, <2>2, QuietRedo
  <2> QED
    BY <1>1, <2>1, <2>3
<1>8. ASSUME NEW p, NEW v, WritePage(p, v) \/ TxWritePage(p, v) \/ AllocatePage \/ BeginTx
                            \/ CommitTx \/ RollbackTx
      PROVE  \A q \in live' : Redo(wal', body')[q] = content'[q]
  BY <1>1, <1>8, Zenon DEF WritePage, TxWritePage, AllocatePage, BeginTx, CommitTx, RollbackTx, disk, history
<1>9. ASSUME NEW p, FreePage(p) PROVE \A q \in live' : Redo(wal', body')[q] = content'[q]
  <2>1. wal' = wal /\ body' = body /\ live' = live \ {p} /\ content' = [content EXCEPT ![p] = Corrupt]
    BY <1>9 DEF FreePage, disk
  <2> QED
    BY <1>0, <1>1, <2>1
<1>10. CASE WriteBody \/ WriteMirror \/ WritePrimary
  <2>1. Committed(wal) = {} /\ wal' = wal
    BY <1>0, <1>10, Zenon DEF WriteBody, WriteMirror, WritePrimary, LogInv, OpInv
  <2>2. Redo(wal, body') = body' /\ Redo(wal, body) = body
    BY <1>0, <2>1, QuietRedo DEF TypeOK
  <2>3. CASE WriteBody
    <3>1. /\ pc = "body" /\ live' = live /\ body' = [body EXCEPT ![op.page] = OpWord]
          /\ content' = IF op.kind = "write" THEN [content EXCEPT ![op.page] = op.word] ELSE content
      BY <2>3 DEF WriteBody
    <3>2. op.kind # "write" => op.page \notin live
      BY <1>0, <3>1, Zenon DEF OpInv, Changing, DurableInv, TypeOK, Locals, Kind
    <3>3. op.kind = "write" => OpWord = op.word
      BY DEF OpWord
    <3> QED
      BY <1>0, <1>1, <2>1, <2>2, <3>1, <3>2, <3>3
  <2>4. CASE WriteMirror
    <3>1. /\ pc = "mirror" /\ live' = live /\ content' = content
          /\ body' = [body EXCEPT ![MirrorHeaderPageID] = Corrupt]
      BY <2>4 DEF WriteMirror, history
    <3> QED
      BY <1>0, <1>1, <1>4, <2>1, <2>2, <3>1, NoPage
  <2>5. CASE WritePrimary
    <3>1. CASE op.kind \in {"extend", "reuse"}
      <4>1. /\ body' = body /\ live' = live \cup {op.page} /\ content' = [content EXCEPT ![op.page] = 0]
            /\ pc = "primary"
        BY <2>5, <3>1 DEF WritePrimary
      <4>2. body[op.page] = 0 /\ op.page \in PageID
        BY <1>0, <3>1, <4>1, Zenon DEF OpInv, Changing
      <4> QED
        BY <1>0, <1>1, <2>1, <2>2, <4>1, <4>2
    <3>2. CASE op.kind \notin {"extend", "reuse"}
      BY <1>1, <2>1, <2>5, <3>2, Zenon DEF WritePrimary
    <3> QED
      BY <3>1, <3>2
  <2> QED
    BY <1>10, <2>3, <2>4, <2>5
<1>11. CASE AppendWAL
  <2>1. /\ Committed(wal) = {} /\ OpRecord \in Record /\ wal' = Append(wal, OpRecord) /\ body' = body
        /\ OpRecord.txn = tx.id /\ OpRecord.page = op.page /\ live' = live
    BY <1>0, <1>11, LogTypes, Zenon DEF AppendWAL, LogInv, OpInv, DurableInv, OpRecord
  <2>2. op.kind \in {"txwrite", "commit"}
    BY <1>0, <1>11, Zenon DEF AppendWAL, OpInv, DurableInv, TypeOK, Locals, Kind
  <2>3. CASE op.kind = "txwrite"
    <3>1. content' = content /\ op.page # EOT
      BY <1>0, <1>11, <2>3, NoPage DEF AppendWAL, OpInv, EOT
    <3>2. Committed(wal') = {}
      BY <1>0, <2>1, <3>1, CommittedAppend
    <3>3. Redo(wal', body) = body
      BY <1>0, <3>2, QuietRedo
    <3> QED
      BY <1>1, <1>3, <2>1, <3>1, <3>3
  <2>4. CASE op.kind = "commit"
    <3>1. /\ content' = Overlay(tx.buf, content) /\ op.page = EOT /\ tx.buf = Buffered(wal, tx.id)
      BY <1>0, <1>11, <2>4 DEF AppendWAL, OpInv, TxInv
    <3>2. Redo(wal', body) = Overlay(tx.buf, body)
      <4>1. Redo(Append(wal, OpRecord), body) = Overlay(Buffered(wal, OpRecord.txn), body)
        BY <1>0, <2>1, <3>1, CommitRedo, Zenon
      <4> QED
        BY <2>1, <3>1, <4>1, Zenon
    <3>3. \A p \in live : body[p] = content[p]
      BY <1>1, <1>3, <2>1, Zenon
    <3>4. \A p \in live : Overlay(tx.buf, body)[p] = Overlay(tx.buf, content)[p]
      BY <1>0, <3>3 DEF Overlay
    <3> QED
      BY <2>1, <3>1, <3>2, <3>4, Zenon
  <2> QED
    BY <2>2, <2>3, <2>4
<1>12. CASE ApplyBuffer
  <2>1. pc = "apply" /\ body' = Overlay(op.buf, body) /\ UNCHANGED <<wal, live, content>>
    BY <1>12 DEF ApplyBuffer, history
  <2>2. \A p \in PageID : Writes(wal, p) = {} => body'[p] = body[p]
    BY <1>0, <2>1, Zenon DEF LogInv, Overlay
  <2>3. Redo(wal, body') = Redo(wal, body)
    BY <2>2, RedoAgain
  <2> QED
    BY <1>1, <2>1, <2>3
<1>13. CASE Crash
  <2>1. wal' = wal /\ body' \in CrashedBody /\ live' = live /\ pc # "down"
    <3>1. wal' \in CrashedWal /\ body' \in CrashedBody /\ live' = live /\ pc # "down"
      BY <1>13, Zenon DEF Crash
    <3>2. CrashedWal = {wal}
      BY NoFaults
    <3> QED
      BY <3>1, <3>2
  <2>2. CASE pc = "body"
    <3>1. Committed(wal) = {} /\ (op.kind # "write" => op.page \notin live) /\ ~tx.on
          /\ (op.kind = "write" => op.page \in PageID)
      BY <1>0, <2>2, Zenon DEF LogInv, OpInv, Changing, DurableInv, TypeOK, Locals, Kind
    <3>2. Redo(wal, body') = body' /\ Redo(wal, body) = body
      BY <1>0, <3>1, QuietRedo, Zenon DEF TypeOK
    <3>3. content' = IF op.kind = "write" THEN [content EXCEPT ![op.page] = body'[op.page]] ELSE content
      BY <1>13, <3>1, Zenon DEF Crash
    <3>4. \A p \in PageID : p # op.page => body'[p] = body[p]
      BY <2>1, <2>2, CrashedPages, Zenon
    <3> QED
      BY <1>0, <1>1, <2>1, <3>1, <3>2, <3>3, <3>4, Zenon
  <2>3. CASE pc # "body"
    <3>1. op.kind # "write" /\ (tx.on => Committed(wal) = {})
      BY <1>0, <2>1, <2>3, Zenon DEF LogInv, OpInv
    <3>2. content' = content
      BY <1>13, <2>1, <3>1, Zenon DEF Crash
    <3>3. \A p \in PageID : Writes(wal, p) = {} => body'[p] = body[p]
      BY <2>1, <2>3, CrashedPages, Zenon
    <3>4. Redo(wal, body') = Redo(wal, body)
      BY <3>3, RedoAgain
    <3> QED
      BY <1>1, <2>1, <3>2, <3>4
  <2> QED
    BY <2>2, <2>3
<1> QED
  BY <1>5, <1>6, <1>7, <1>8, <1>9, <1>10, <1>11, <1>12, <1>13, NoFaults, Zenon DEF Next
=============================================================================
