------------------------------- MODULE Pager -------------------------------
(***************************************************************************)
(* The page manager of internal/storage/pager: a main file of fixed-size   *)
(* pages (two mirrored headers, then data pages, free pages chained through *)
(* their first word) and a redo-only write-ahead log.                      *)
(*                                                                         *)
(* Every exported method holds p.mu for its whole duration, so the only    *)
(* events that can fall between two of its I/O steps are a crash and an    *)
(* I/O error.  A method is therefore one action that starts it, with the   *)
(* checks it makes, and one action per WriteAt+Sync that follows; pc names *)
(* the write that is about to happen and op holds the method's locals.     *)
(*                                                                         *)
(* A page body is abstracted to the word its first eight bytes spell: what *)
(* decodeFreeListPointer reads back from it.                               *)
(***************************************************************************)
EXTENDS Integers, Sequences, FiniteSets, FiniteSetsExt

CONSTANTS
    MaxPages,             \* bound: the file never grows past this many pages
    Values,               \* bodies that callers write inside transactions
    DirectValues,         \* bodies that callers write outside transactions
    FreeArgs,             \* page ids that callers pass to FreePage
    Sentinel,             \* freeListSentinel = walEOTPageID = 2^64 - 1
    CheckpointThreshold,  \* Options.CheckpointThreshold, in WAL records
    PowerLoss,            \* a crash may also lose writes that were not fsynced
    RollbackFailedCommit, \* callers roll back when CommitTx fails
    MaxFaults,            \* bound: I/O errors returned by the file system
    MaxTxn,               \* bound: transactions begun by one pager object
    MaxWal                \* bound: records in the WAL

ASSUME PagerAssumption ==
    /\ MaxPages \in Nat /\ MaxPages >= 3
    /\ Values \subseteq Nat /\ DirectValues \subseteq Nat
    /\ FreeArgs \subseteq 1..(MaxPages - 1)
    /\ Sentinel \in Nat /\ Sentinel >= MaxPages
    /\ CheckpointThreshold \in Nat
    /\ PowerLoss \in BOOLEAN /\ RollbackFailedCommit \in BOOLEAN
    /\ MaxFaults \in Nat /\ MaxTxn \in Nat /\ MaxWal \in Nat

HeaderPageID == 0
MirrorHeaderPageID == 1
FirstDataPageID == 2

\* The pages a page id other than 0 can name.  Page 1 is the mirror header.
PageID == 1..(MaxPages - 1)

\* What decodeDataPage says of a page whose checksum does not match.
Corrupt == -1

\* "Not in txnBuffer".
NoWrite == -2

Word == Nat \cup {Corrupt}

\* A header page; NoHeader stands for a page that decodeHeader rejects.
Header == [count : Nat, head : Nat, free : Nat]
NoHeader == [count |-> 0, head |-> 0, free |-> 0]

\* A WAL record as decodeNextWALRecord sees it: a data record, an EOT marker,
\* a complete record it rejects (Garbage), or a record cut short (Partial).
EOT == Sentinel
Record == [txn : Nat, page : Nat, word : Word]
Garbage == [txn |-> 0, page |-> 0, word |-> Corrupt]
Partial == [txn |-> 1, page |-> 0, word |-> Corrupt]

VARIABLES
    fresh,       \* the main file is empty
    primary,     \* page 0
    mirror,      \* page 1 read as a header
    body,        \* every other page (and page 1) read as a data page
    wal,         \* the WAL records in [0, walSize)
    tail,        \* what the WAL file holds past walSize
    untruncated, \* WAL content that an unsynced Truncate removed
    pc,          \* the next I/O step, "idle" between calls, "down" when not open
    op,          \* the locals of the method in progress
    mem,         \* pageCount, freeListHead, freeCount, freeSet
    tx,          \* inTxn, currentTxn, txnBuffer
    nextTxnID,
    openErr,     \* why the last Open failed
    faults,      \* history: I/O errors so far
    created,     \* history: some Open of this file has succeeded
    live,        \* history: pages the caller allocated and has not freed
    content,     \* history: the last body promised for each live page
    rolledBack   \* history: transactions rolled back by this pager object

disk == <<fresh, primary, mirror, body, wal, tail, untruncated>>
memory == <<mem, tx, nextTxnID>>
history == <<faults, created, live, content, rolledBack>>
vars == <<disk, pc, op, memory, openErr, history>>

NoBuffer == [p \in PageID |-> NoWrite]
NoMem == [count |-> 0, head |-> Sentinel, free |-> 0, set |-> {}]
NoTx == [on |-> FALSE, id |-> 0, buf |-> NoBuffer]
NoOp == [kind |-> "none", page |-> 0, word |-> 0, old |-> NoMem, buf |-> NoBuffer]
Op(kind, page, word) ==
    [kind |-> kind, page |-> page, word |-> word, old |-> mem, buf |-> NoBuffer]

PC == {"down", "idle", "body", "mirror", "primary", "append", "apply",
       "replay", "truncate", "closing", "failed"}
Kind == {"none", "create", "open", "close", "write", "extend", "reuse", "free",
         "txwrite", "commit"}
Mem == [count : Nat, head : Nat, free : Nat, set : SUBSET PageID]
Buffer == [PageID -> Nat \cup {NoWrite}]
Locals == [kind : Kind, page : Nat, word : Nat, old : Mem, buf : Buffer]
Transaction == [on : BOOLEAN, id : Nat, buf : Buffer]

\* The two headers, the log and the in-memory header of filePager keep their types.
TypeOK ==
    /\ fresh \in BOOLEAN
    /\ primary \in Header /\ mirror \in Header
    /\ body \in [PageID -> Word]
    /\ wal \in Seq(Record) /\ tail \in Seq(Record) /\ untruncated \in Seq(Record)
    /\ pc \in PC
    /\ op \in Locals
    /\ mem \in Mem
    /\ tx \in Transaction
    /\ nextTxnID \in Nat
    /\ openErr \in {"none", "header", "freelist", "wal", "io"}
    /\ faults \in 0..MaxFaults /\ created \in BOOLEAN
    /\ live \in SUBSET PageID /\ content \in [PageID -> Word]
    /\ rolledBack \in SUBSET Nat

\* Shapes that the types do not say: a header counts at least pages 0 and 1, and
\* a method that names a data page names one of the file.
ShapeOK ==
    /\ \A h \in {primary, mirror} : h # NoHeader => h.count >= 2
    /\ pc # "down" => mem.count >= 2
    /\ op.kind = "none" <=> pc \in {"down", "idle", "failed"}
    /\ op.kind \notin {"none", "create", "open"} => op.old.count >= 2
    /\ op.kind \in {"write", "extend", "reuse", "free"} => op.page \in PageID

Init ==
    /\ fresh = TRUE
    /\ primary = NoHeader /\ mirror = NoHeader
    /\ body = [p \in PageID |-> Corrupt]
    /\ wal = <<>> /\ tail = <<>> /\ untruncated = <<>>
    /\ pc = "down" /\ op = NoOp
    /\ mem = NoMem /\ tx = NoTx /\ nextTxnID = 0
    /\ openErr = "none"
    /\ faults = 0 /\ created = FALSE
    /\ live = {} /\ content = [p \in PageID |-> Corrupt] /\ rolledBack = {}
-----------------------------------------------------------------------------
(* The write-ahead log. *)

\* Transactions that have an EOT marker in the log.
Committed(log) == {log[i].txn : i \in {j \in DOMAIN log : log[j].page = EOT}}

\* The records of committed transactions that write page p.
Writes(log, p) ==
    {i \in DOMAIN log : log[i].page = p /\ log[i].txn \in Committed(log)}

\* Mutant of Redo: the first committed write of each page wins.
RedoFirstWins(log, b) ==
    [p \in PageID |-> IF Writes(log, p) = {} THEN b[p]
                      ELSE log[Min(Writes(log, p))].word]

\* The main file after replay: the last committed write of each page wins.
\* (replayWALInternal applies group by group; ids grow along the log, so the
\* order of the groups is the order of the log.)
Redo(log, b) ==
    [p \in PageID |-> IF Writes(log, p) = {} THEN b[p]
                      ELSE log[Max(Writes(log, p))].word]

\* The pages a write of all of "new" over "old" can leave behind when it is
\* interrupted: each page old, new or torn.
Torn(old, new) ==
    LET After(fate) == [p \in PageID |-> IF old[p] = new[p] \/ fate[p] = "old"
                                         THEN old[p]
                                         ELSE IF fate[p] = "new" THEN new[p]
                                         ELSE Corrupt]
    IN {After(fate) : fate \in [PageID -> {"old", "new", "torn"}]}

\* "base" overwritten by the pages in buffer buf.
Overlay(buf, base) ==
    [p \in PageID |-> IF buf[p] = NoWrite THEN base[p] ELSE buf[p]]

\* What the file holds past the end of a record just written at walSize: the
\* 24 bytes of an EOT marker only cover the start of a longer failed record.
Residue(rec) ==
    IF tail = <<>> \/ rec.page # EOT THEN {<<>>}
    ELSE IF tail[1].page = EOT THEN {Tail(tail)}
    ELSE IF tail[1] = Partial THEN {<<>>, <<Garbage>>} ELSE {<<Garbage>>}

\* The WAL file as the next Open finds it; a partial record reads as the end.
WalFile == IF tail = <<Partial>> THEN wal ELSE wal \o tail
-----------------------------------------------------------------------------
(* Open and Close. *)

\* Following the chain from head, or from a page of S, never leaves S except
\* at the sentinel.
Closed(S, head) == \A q \in {head} \cup {body[p] : p \in S} : q \in S \cup {Sentinel}

\* S is the set of pages that the walk from head visits, and the walk reaches
\* the sentinel.  Otherwise it meets a page out of range, a page with a bad
\* checksum, or a page it has already seen.
IsFreeList(S, head, count) ==
    /\ \A p \in S : p < count
    /\ Closed(S, head)
    /\ \A T \in SUBSET S : Closed(T, head) => T = S
    /\ Sentinel \in {head} \cup {body[p] : p \in S}

\* Open of an empty file goes straight to writeHeader(2, freeListSentinel).
OpenFresh ==
    /\ pc = "down" /\ fresh
    /\ mem' = [count |-> 2, head |-> Sentinel, free |-> 0, set |-> {}]
    /\ pc' = "mirror" /\ op' = [NoOp EXCEPT !.kind = "create"]
    /\ openErr' = "none"
    /\ UNCHANGED <<disk, tx, nextTxnID, history>>

Return == pc' = "idle" /\ op' = NoOp

\* The file system reports an error for the next I/O step.
Fault == faults < MaxFaults /\ faults' = faults + 1

\* The header Open uses: page 0, or else page 1.
OpenHeader == IF primary # NoHeader THEN primary ELSE mirror

\* Open fails when both headers are bad.
OpenNoHeader ==
    /\ pc = "down" /\ ~fresh /\ OpenHeader = NoHeader
    /\ openErr' = "header"
    /\ UNCHANGED <<disk, pc, op, memory, history>>

\* Page 0 is healed from page 1 on a best-effort basis: an error is ignored.
Heal ==
    \/ primary' = OpenHeader /\ UNCHANGED faults
    \/ primary = NoHeader /\ Fault /\ UNCHANGED primary

\* Open's walk from header h fills freeSet with S and agrees with the header.
WalkFinds(S, h) == IsFreeList(S, h.head, h.count) /\ Cardinality(S) = h.free

\* Open fails when the free-list walk or its count does not fit the header.
OpenBadFreeList ==
    /\ pc = "down" /\ ~fresh /\ OpenHeader # NoHeader
    /\ ~\E S \in SUBSET PageID : WalkFinds(S, OpenHeader)
    /\ Heal
    /\ openErr' = "freelist"
    /\ UNCHANGED <<fresh, mirror, body, wal, tail, untruncated, pc, op, memory,
                   created, live, content, rolledBack>>

\* Open of an existing file, which replays the WAL if there is anything in it.
OpenExisting ==
    /\ pc = "down" /\ ~fresh /\ OpenHeader # NoHeader
    /\ Heal
    /\ \E S \in SUBSET PageID :
          /\ WalkFinds(S, OpenHeader)
          /\ mem' = [count |-> OpenHeader.count, head |-> OpenHeader.head,
                     free |-> OpenHeader.free, set |-> S]
    /\ IF wal = <<>> THEN Return /\ rolledBack' = {}
       ELSE /\ pc' = "replay" /\ op' = [NoOp EXCEPT !.kind = "open"]
            /\ UNCHANGED rolledBack
    /\ openErr' = "none" /\ created' = TRUE
    /\ UNCHANGED <<fresh, mirror, body, wal, tail, untruncated, tx, nextTxnID, live,
                   content>>

\* Close checkpoints whatever the WAL holds; it does not look at inTxn.
Close ==
    /\ pc = "idle"
    /\ op' = Op("close", 0, 0)
    /\ pc' = IF wal = <<>> THEN "closing" ELSE "replay"
    /\ UNCHANGED <<disk, memory, openErr, history>>

\* The pager object is gone: a later Open starts from a new one.
Shut ==
    /\ pc' = "down" /\ op' = NoOp
    /\ mem' = NoMem /\ tx' = NoTx /\ nextTxnID' = 0

\* An error inside the method in progress.  The caller drops a pager whose Open
\* failed and only exits after a Close that failed; every other method returns
\* with the in-memory free list as it found it.
ReturnError ==
    IF op.kind \in {"create", "open"} THEN Shut
    ELSE /\ pc' = IF op.kind = "close" THEN "failed" ELSE "idle"
         /\ op' = NoOp
         /\ mem' = op.old
         /\ UNCHANGED <<tx, nextTxnID>>

\* Mutant of Replay: the log is truncated without being applied.
ReplayNothing ==
    /\ pc = "replay" /\ pc' = "truncate"
    /\ UNCHANGED <<disk, op, memory, openErr, history>>

\* replayWALInternal, up to and including the fsync of the main file.
Replay ==
    /\ pc = "replay"
    /\ IF \E i \in DOMAIN wal : wal[i] = Garbage
       THEN /\ ReturnError
            /\ openErr' = IF op.kind = "open" THEN "wal" ELSE openErr
            /\ UNCHANGED body
       ELSE /\ body' = Redo(wal, body)
            /\ pc' = "truncate"
            /\ UNCHANGED <<op, memory, openErr>>
    /\ UNCHANGED <<fresh, primary, mirror, wal, tail, untruncated, history>>

\* ... and its Truncate(0), which is not followed by a Sync of the WAL.
Truncate ==
    /\ pc = "truncate"
    /\ wal' = <<>> /\ tail' = <<>>
    /\ untruncated' = IF PowerLoss THEN wal ELSE <<>>
    /\ rolledBack' = {}
    /\ IF op.kind = "close" THEN pc' = "closing" /\ UNCHANGED op ELSE Return
    /\ UNCHANGED <<fresh, primary, mirror, body, memory, openErr, faults, created,
                   live, content>>

\* The last Sync of Close, and the close of both files.
CloseFiles ==
    /\ pc = "closing"
    /\ Shut
    /\ wal' = WalFile /\ tail' = <<>>
    /\ UNCHANGED <<fresh, primary, mirror, body, untruncated, openErr, history>>
-----------------------------------------------------------------------------
(* Pages. *)

\* validatePageID and the freeSet check of WritePage.
Writable(p) == p >= FirstDataPageID /\ p < mem.count /\ p \notin mem.set

\* ReadPage: a transaction reads its own writes.
ReadPage(p) == IF tx.on /\ tx.buf[p] # NoWrite THEN tx.buf[p] ELSE body[p]

\* WritePage outside a transaction.
WritePage(p, v) ==
    /\ pc = "idle" /\ ~tx.on /\ Writable(p)
    /\ pc' = "body" /\ op' = Op("write", p, v)
    /\ UNCHANGED <<disk, memory, openErr, history>>

\* AllocatePage: reuse the head of the free list, whose next pointer is read
\* before the page is zero-filled, or else extend the file.
AllocatePage ==
    /\ pc = "idle" /\ ~tx.on
    /\ \/ /\ mem.head \in PageID /\ body[mem.head] # Corrupt
          /\ op' = Op("reuse", mem.head, body[mem.head])
       \/ /\ mem.head = Sentinel /\ mem.count < MaxPages
          /\ op' = Op("extend", mem.count, 0)
    /\ pc' = "body"
    /\ UNCHANGED <<disk, memory, openErr, history>>

\* Mutant of FreePage: no freeSet check.
FreePageTwice(p) ==
    /\ pc = "idle" /\ ~tx.on /\ p < mem.count
    /\ pc' = "body" /\ op' = Op("free", p, mem.head)
    /\ live' = live \ {p} /\ content' = [content EXCEPT ![p] = Corrupt]
    /\ UNCHANGED <<disk, memory, openErr, faults, created, rolledBack>>

\* FreePage rejects page 0, pages past the end and pages already free.
FreePage(p) ==
    /\ pc = "idle" /\ ~tx.on
    /\ p < mem.count /\ p \notin mem.set
    /\ pc' = "body" /\ op' = Op("free", p, mem.head)
    /\ live' = live \ {p} /\ content' = [content EXCEPT ![p] = Corrupt]
    /\ UNCHANGED <<disk, memory, openErr, faults, created, rolledBack>>

\* The body that the method in progress writes.
OpWord == IF op.kind \in {"extend", "reuse"} THEN 0 ELSE op.word

\* Mutant of MemAfter: AllocatePage leaves the page in freeSet.
MemAfterKeepsSet ==
    CASE op.kind = "extend" -> [mem EXCEPT !.count = @ + 1]
      [] op.kind = "reuse" -> [mem EXCEPT !.head = op.word, !.free = @ - 1]
      [] op.kind = "free" -> [mem EXCEPT !.set = @ \cup {op.page}, !.head = op.page,
                                         !.free = @ + 1]
      [] OTHER -> mem

\* In-memory state as the method updates it before it calls writeHeader.
MemAfter ==
    CASE op.kind = "extend" -> [mem EXCEPT !.count = @ + 1]
      [] op.kind = "reuse" -> [mem EXCEPT !.set = @ \ {op.page}, !.head = op.word,
                                          !.free = IF @ > 0 THEN @ - 1 ELSE 0]
      [] op.kind = "free" -> [mem EXCEPT !.set = @ \cup {op.page}, !.head = op.page,
                                         !.free = @ + 1]
      [] OTHER -> mem

\* writeBodyUnchecked.  A data page written over page 1 is no header any more.
WriteBody ==
    /\ pc = "body"
    /\ body' = [body EXCEPT ![op.page] = OpWord]
    /\ mirror' = IF op.page = MirrorHeaderPageID THEN NoHeader ELSE mirror
    /\ mem' = MemAfter
    /\ IF op.kind = "write"
       THEN /\ Return
            /\ content' = [content EXCEPT ![op.page] = op.word]
       ELSE /\ pc' = "mirror"
            /\ UNCHANGED <<op, content>>
    /\ UNCHANGED <<fresh, primary, wal, tail, untruncated, tx, nextTxnID, openErr,
                   faults, created, live, rolledBack>>

\* The header that writeHeader encodes from the in-memory state.
MemHeader == [count |-> mem.count, head |-> mem.head, free |-> mem.free]

\* Mutant of WriteMirror: the mirror is not written.
WriteMirrorSkipped ==
    /\ pc = "mirror" /\ fresh' = FALSE /\ pc' = "primary"
    /\ UNCHANGED <<primary, mirror, body, wal, tail, untruncated, op, memory, openErr,
                   history>>

\* writeHeader, first half: page 1 and its fsync.
WriteMirror ==
    /\ pc = "mirror"
    /\ mirror' = MemHeader
    /\ body' = [body EXCEPT ![MirrorHeaderPageID] = Corrupt]
    /\ fresh' = FALSE
    /\ pc' = "primary"
    /\ UNCHANGED <<primary, wal, tail, untruncated, op, memory, openErr, history>>

\* writeHeader, second half: page 0 and its fsync; then the method returns.
WritePrimary ==
    /\ pc = "primary"
    /\ primary' = MemHeader
    /\ Return
    /\ created' = TRUE
    /\ IF op.kind \in {"extend", "reuse"}
       THEN /\ live' = live \cup {op.page}
            /\ content' = [content EXCEPT ![op.page] = 0]
       ELSE UNCHANGED <<live, content>>
    /\ UNCHANGED <<fresh, mirror, body, wal, tail, untruncated, memory, openErr,
                   faults, rolledBack>>
-----------------------------------------------------------------------------
(* Transactions. *)

\* Mutant of BeginTx: the id of the previous transaction is used again.
BeginTxReusesID ==
    /\ pc = "idle" /\ ~tx.on
    /\ nextTxnID' = 1 /\ tx' = [on |-> TRUE, id |-> 1, buf |-> NoBuffer]
    /\ UNCHANGED <<disk, pc, op, mem, openErr, history>>

\* Transaction ids start over with every pager object.
BeginTx ==
    /\ pc = "idle" /\ ~tx.on /\ nextTxnID < MaxTxn
    /\ nextTxnID' = nextTxnID + 1
    /\ tx' = [on |-> TRUE, id |-> nextTxnID + 1, buf |-> NoBuffer]
    /\ UNCHANGED <<disk, pc, op, mem, openErr, history>>

\* WritePage inside a transaction.
TxWritePage(p, v) ==
    /\ pc = "idle" /\ tx.on /\ Writable(p) /\ Len(wal) < MaxWal
    /\ pc' = "append" /\ op' = Op("txwrite", p, v)
    /\ UNCHANGED <<disk, memory, openErr, history>>

\* CommitTx starts by appending the EOT marker.
CommitTx ==
    /\ pc = "idle" /\ tx.on
    /\ pc' = "append" /\ op' = Op("commit", EOT, 0)
    /\ UNCHANGED <<disk, memory, openErr, history>>

\* A CommitTx that returned an error may still have put its EOT on disk.
CommitFailed == \E i \in DOMAIN tail : tail[i].page = EOT

\* RollbackTx forgets the buffer; the records stay in the log.
RollbackTx ==
    /\ pc = "idle" /\ tx.on
    /\ RollbackFailedCommit \/ ~CommitFailed
    /\ tx' = NoTx
    /\ rolledBack' = rolledBack \cup {tx.id}
    /\ UNCHANGED <<disk, pc, op, mem, nextTxnID, openErr, faults, created, live,
                   content>>

\* The record that appendWAL or CommitTx writes at walSize.
OpRecord == [txn |-> tx.id, page |-> op.page, word |-> op.word]

\* WriteAt + Sync of the WAL: a data record goes on to txnBuffer, an EOT marker
\* ends the transaction and hands its buffer to the main-file writes.
AppendWAL ==
    /\ pc = "append"
    /\ wal' = Append(wal, OpRecord)
    /\ tail' \in Residue(OpRecord)
    /\ untruncated' = <<>>
    /\ IF op.kind = "txwrite"
       THEN /\ tx' = [tx EXCEPT !.buf[op.page] = op.word]
            /\ Return
            /\ UNCHANGED content
       ELSE /\ tx' = NoTx
            /\ pc' = "apply" /\ op' = [op EXCEPT !.buf = tx.buf]
            /\ content' = Overlay(tx.buf, content)
    /\ UNCHANGED <<fresh, primary, mirror, body, mem, nextTxnID, openErr, faults,
                   created, live, rolledBack>>

\* CommitTx writes the buffered pages, fsyncs the main file once, and
\* checkpoints when the threshold says so.
ApplyBuffer ==
    /\ pc = "apply"
    /\ body' = Overlay(op.buf, body)
    /\ IF CheckpointThreshold = 0 \/ Len(wal) >= CheckpointThreshold
       THEN pc' = "replay" /\ UNCHANGED op
       ELSE Return
    /\ UNCHANGED <<fresh, primary, mirror, wal, tail, untruncated, memory, openErr,
                   history>>
-----------------------------------------------------------------------------
(* Crashes. *)

\* The WAL file a crash can leave.  Without PowerLoss it is the file as the
\* last write(2) left it, a record in flight being cut short; with PowerLoss
\* the truncation may not have reached the disk, and the record in flight may
\* have its full length and the wrong bytes.
CrashedWal ==
    {WalFile}
    \cup (IF untruncated # <<>> THEN {untruncated} ELSE {})
    \cup (IF pc = "append" /\ (PowerLoss \/ tail # <<>>)
          THEN {Append(wal, Garbage)} ELSE {})

\* The data pages a crash can leave: those of the write in flight may be torn.
CrashedBody ==
    CASE pc = "body" -> {body, [body EXCEPT ![op.page] = Corrupt]}
      [] pc = "apply" -> Torn(body, Overlay(op.buf, body))
      [] pc = "replay" -> Torn(body, Redo(wal, body))
      [] OTHER -> {body}

Crash ==
    /\ pc # "down"
    /\ Shut
    /\ wal' \in CrashedWal /\ tail' = <<>> /\ untruncated' = <<>>
    /\ body' \in CrashedBody
    /\ primary' \in {primary} \cup (IF pc = "primary" THEN {NoHeader} ELSE {})
    /\ mirror' \in {mirror} \cup (IF pc = "mirror" THEN {NoHeader} ELSE {})
    /\ IF pc = "mirror" /\ fresh THEN fresh' \in BOOLEAN ELSE UNCHANGED fresh
    /\ content' = IF op.kind = "write"
                  THEN [content EXCEPT ![op.page] = body'[op.page]]
                  ELSE IF tx.on /\ tx.id \in Committed(wal')
                  THEN Overlay(tx.buf, content) ELSE content
    /\ UNCHANGED <<openErr, faults, created, live, rolledBack>>
-----------------------------------------------------------------------------
(* I/O errors.  A write that fails may have changed nothing, part or all. *)

FailBody ==
    /\ pc = "body" /\ Fault
    /\ \E w \in {body[op.page], Corrupt, OpWord} :
          /\ body' = [body EXCEPT ![op.page] = w]
          /\ content' = IF op.kind = "write" THEN [content EXCEPT ![op.page] = w]
                        ELSE content
    /\ mirror' = IF op.page = MirrorHeaderPageID THEN NoHeader ELSE mirror
    /\ ReturnError
    /\ UNCHANGED <<fresh, primary, wal, tail, untruncated, openErr, created, live,
                   rolledBack>>

FailMirror ==
    /\ pc = "mirror" /\ Fault
    /\ \/ UNCHANGED <<mirror, fresh>>
       \/ mirror' \in {NoHeader, MemHeader} /\ fresh' = FALSE
    /\ ReturnError
    /\ openErr' = IF op.kind = "create" THEN "io" ELSE openErr
    /\ UNCHANGED <<primary, body, wal, tail, untruncated, created, live, content,
                   rolledBack>>

FailPrimary ==
    /\ pc = "primary" /\ Fault
    /\ primary' \in {primary, NoHeader, MemHeader}
    /\ ReturnError
    /\ openErr' = IF op.kind = "create" THEN "io" ELSE openErr
    /\ UNCHANGED <<fresh, mirror, body, wal, tail, untruncated, created, live,
                   content, rolledBack>>

\* walSize does not move and the transaction stays active.
FailAppend ==
    /\ pc = "append" /\ Fault
    /\ tail' \in {tail, <<Partial>>} \cup {<<OpRecord>> \o r : r \in Residue(OpRecord)}
                 \cup (IF tail = <<>> THEN {} ELSE {<<Garbage>>})
    /\ ReturnError
    /\ UNCHANGED <<fresh, primary, mirror, body, wal, untruncated, openErr, created,
                   live, content, rolledBack>>

\* Mutant of FailMainWrites: the log is truncated although the apply failed.
FailMainWritesTruncates ==
    /\ pc \in {"apply", "replay"} /\ Fault
    /\ body' \in CrashedBody /\ wal' = <<>>
    /\ ReturnError
    /\ UNCHANGED <<fresh, primary, mirror, tail, untruncated, openErr, created, live,
                   content, rolledBack>>

\* A main-file write or fsync of CommitTx, Close or Open fails: the log stays.
FailMainWrites ==
    /\ pc \in {"apply", "replay"} /\ Fault
    /\ body' \in CrashedBody
    /\ ReturnError
    /\ openErr' = IF op.kind = "open" THEN "io" ELSE openErr
    /\ UNCHANGED <<fresh, primary, mirror, wal, tail, untruncated, created, live,
                   content, rolledBack>>

\* Truncate, or the last Sync of Close, fails.
FailFinish ==
    /\ pc \in {"truncate", "closing"} /\ Fault
    /\ ReturnError
    /\ openErr' = IF op.kind = "open" THEN "io" ELSE openErr
    /\ UNCHANGED <<disk, created, live, content, rolledBack>>

Fail == FailBody \/ FailMirror \/ FailPrimary \/ FailAppend \/ FailMainWrites
        \/ FailFinish

Next ==
    \/ OpenFresh \/ OpenNoHeader \/ OpenBadFreeList \/ OpenExisting
    \/ Close \/ CloseFiles
    \/ Replay \/ Truncate
    \/ \E p \in PageID, v \in DirectValues : WritePage(p, v)
    \/ \E p \in PageID, v \in Values : TxWritePage(p, v)
    \/ AllocatePage
    \/ \E p \in FreeArgs : FreePage(p)
    \/ WriteBody \/ WriteMirror \/ WritePrimary
    \/ BeginTx \/ CommitTx \/ RollbackTx
    \/ AppendWAL \/ ApplyBuffer
    \/ Crash \/ Fail

Spec == Init /\ [][Next]_vars
-----------------------------------------------------------------------------
(* Properties. *)

\* writeHeader never loses both headers: once some Open has completed, and as
\* long as the file system reports no error, page 0 or page 1 decodes, at
\* whatever step of whatever method the process stops.
HeaderRecoverable ==
    created /\ faults = 0 => primary # NoHeader \/ mirror # NoHeader

\* The durability contract: what the next Open reconstructs from the main file
\* and the log (replayWALInternal) is, for every allocated page, the last body
\* whose WritePage or CommitTx returned nil.  A transaction is there as a whole
\* or not at all, whatever step the process stops at.  Of a log with a corrupt
\* complete record nothing is said: Open refuses it and reconstructs nothing.
Recoverable ==
    LET log == IF pc = "down" THEN WalFile ELSE wal
    IN (\A i \in DOMAIN log : log[i] # Garbage) =>
           \A p \in live : Redo(log, body)[p] = content[p]

\* Between calls ReadPage accepts every allocated page and returns its last
\* promised body, the transaction's own writes first.
ReadsLatest ==
    pc = "idle" =>
        \A p \in live : Writable(p) /\ ReadPage(p) = Overlay(tx.buf, content)[p]

\* Between calls the chain on disk, freeSet and freeCount describe the same
\* free pages: what AllocatePage, FreePage and the walk in Open each assume.
FreeListSound ==
    pc = "idle" =>
        /\ IsFreeList(mem.set, mem.head, mem.count)
        /\ Cardinality(mem.set) = mem.free

\* AllocatePage never hands out a page that a caller still owns, across
\* crashes in the middle of AllocatePage and FreePage.
AllocatedOnce ==
    op.kind \in {"reuse", "extend"} => op.page \notin live

\* The records of a transaction that was rolled back are never replayed.
RollbackIsFinal == Committed(WalFile) \cap rolledBack = {}

\* A file that was once opened is refused by a later Open for no other reason
\* than its free list: crashes never cost it its headers or its log.
RefusalIsFreeList == created => openErr \in {"none", "freelist"}

\* A file that was once opened can be opened again after a crash.
OpenSucceeds == created => openErr = "none"

\* The log that a crash leaves is one that Open accepts.
LogAccepted == created => openErr # "wal"

\* Page 1, the mirror header, never becomes a free page.
MirrorReserved == MirrorHeaderPageID \notin mem.set

\* When AllocatePage or FreePage returns an error the in-memory free list is
\* still the chain on disk, provided no page of it was physically damaged.
FreeListReadable ==
    pc = "idle" /\ (\A p \in mem.set : body[p] # Corrupt) =>
        IsFreeList(mem.set, mem.head, mem.count)
=============================================================================
