------------------------ MODULE PagerDurableProofs ------------------------
(* What a crash of the process can do to a file: for the default options     *)
(* (a checkpoint at every commit), a file system that reports no errors and  *)
(* callers that do not free the mirror header, everything pager_crash checks  *)
(* holds for files of any size and any number of transactions.               *)
EXTENDS PagerLogProofs, FiniteSetTheorems

(* The free list. *)

\* No page of the chain points back to its head: the walk of Open would not end.
LEMMA HeadUnique ==
    ASSUME NEW b, NEW S \in SUBSET PageID, NEW p \in S, NEW n, Chain(b, S, p, n)
    PROVE  \A r \in S : b[r] # p
<1> SUFFICES ASSUME NEW r \in S, b[r] = p PROVE FALSE
  OBVIOUS
<1> DEFINE Fwd(U) == \A x \in U : b[x] \in U \cup {Sentinel}
           T == {x \in S : \A U \in SUBSET S : x \in U /\ Fwd(U) => r \in U}
<1>0. Sentinel \notin S /\ \A x \in S : b[x] \in S \cup {Sentinel}
  BY NoPage DEF Chain, ClosedIn
<1>1. \A U \in SUBSET S : p \in U /\ Fwd(U) => U = S
  BY DEF Chain, ClosedIn
<1>2. p \in T
  BY <1>1
<1>3. ASSUME NEW x \in T PROVE b[x] \in T
  <2>1. CASE x = r
    BY <1>2, <2>1
  <2>2. CASE x # r
    <3>1. b[x] # Sentinel
      <4>1. SUFFICES ASSUME b[x] = Sentinel PROVE FALSE
        OBVIOUS
      <4>2. {x} \in SUBSET S /\ Fwd({x})
        BY <4>1
      <4> QED
        BY <2>2, <4>2, Zenon
    <3>2. ASSUME NEW U \in SUBSET S, b[x] \in U, Fwd(U) PROVE r \in U
      <4>1. U \cup {x} \in SUBSET S /\ Fwd(U \cup {x})
        BY <3>2
      <4> QED
        BY <2>2, <4>1, Zenon
    <3> QED
      BY <1>0, <3>1, <3>2
  <2> QED
    BY <2>1, <2>2
<1>4. T = S
  <2>1. Fwd(T)
    BY <1>3
  <2> QED
    BY <1>1, <1>2, <2>1, Zenon
<1>5. PICK x \in S : b[x] = Sentinel
  BY <1>0 DEF Chain
<1> HIDE DEF T
<1> QED
  BY <1>0, <1>3, <1>4, <1>5

\* AllocatePage takes the head off the chain.
LEMMA Popped ==
    ASSUME NEW b, NEW c, NEW S \in SUBSET PageID, NEW p \in S, NEW n, Chain(b, S, p, n),
           \A r \in S \ {p} : c[r] = b[r]
    PROVE  Chain(c, S \ {p}, b[p], n)
<1> DEFINE R == S \ {p}
<1>0. /\ Sentinel \notin S
      /\ \A r \in S : b[r] # p /\ b[r] \in S \cup {Sentinel}
  <2>1. \A r \in S : b[r] # p
    BY HeadUnique
  <2> QED
    BY <2>1, NoPage DEF Chain, ClosedIn
<1>1. ClosedIn(c, R, b[p])
  BY <1>0 DEF ClosedIn
<1>2. ASSUME NEW T \in SUBSET R, ClosedIn(c, T, b[p]) PROVE T = R
  <2>1. T \cup {p} \in SUBSET S /\ ClosedIn(b, T \cup {p}, p)
    BY <1>2 DEF ClosedIn
  <2>2. T \cup {p} = S
    BY <2>1 DEF Chain
  <2> QED
    BY <2>2
<1>3. Sentinel \in {b[p]} \cup {c[r] : r \in R}
  BY <1>0 DEF Chain
<1>4. \A r \in R : r < n
  BY DEF Chain
<1> QED
  BY <1>1, <1>2, <1>3, <1>4 DEF Chain

\* FreePage puts a page before the head of the chain.
LEMMA Pushed ==
    ASSUME NEW b, NEW c, NEW S \in SUBSET PageID, NEW p \in PageID \ S, NEW n, NEW head,
           Chain(b, S, head, n), p < n, c[p] = head, \A r \in S : c[r] = b[r]
    PROVE  Chain(c, S \cup {p}, p, n)
<1> DEFINE R == S \cup {p}
<1>0. /\ Sentinel \notin R
      /\ head \in S \cup {Sentinel} /\ \A r \in S : b[r] \in S \cup {Sentinel}
  BY NoPage DEF Chain, ClosedIn
<1>1. ClosedIn(c, R, p)
  BY <1>0 DEF ClosedIn
<1>2. ASSUME NEW T \in SUBSET R, ClosedIn(c, T, p) PROVE T = R
  <2>1. p \in T
    BY <1>0, <1>2 DEF ClosedIn
  <2>2. T \ {p} \in SUBSET S /\ ClosedIn(b, T \ {p}, head)
    BY <1>0, <1>2, <2>1 DEF ClosedIn
  <2>3. T \ {p} = S
    BY <2>2 DEF Chain
  <2> QED
    BY <2>1, <2>3
<1>3. Sentinel \in {p} \cup {c[r] : r \in R}
  BY DEF Chain
<1>4. \A r \in R : r < n
  BY DEF Chain
<1> QED
  BY <1>1, <1>2, <1>3, <1>4 DEF Chain

\* The chain depends on the bodies of its own pages only, and survives an extension.
LEMMA Kept ==
    ASSUME NEW b, NEW c, NEW S \in SUBSET PageID, NEW head, NEW n \in Nat, NEW m \in Nat,
           Chain(b, S, head, n), \A r \in S : c[r] = b[r], n <= m
    PROVE  Chain(c, S, head, m)
<1>1. \A T \in SUBSET S : ClosedIn(c, T, head) <=> ClosedIn(b, T, head)
  BY DEF ClosedIn
<1>2. \A r \in S : r < m
  BY DEF Chain, PageID
<1> QED
  BY <1>1, <1>2 DEF Chain

\* The walk of Open stays inside every set that the pointers do not leave.
LEMMA Inside ==
    ASSUME NEW b, NEW S \in SUBSET PageID, NEW head, NEW n, Chain(b, S, head, n),
           NEW F, \A q \in {head} \cup {b[p] : p \in F} : q \in PageID => q \in F
    PROVE  S \subseteq F
<1>1. ClosedIn(b, S \cap F, head)
  BY DEF Chain, ClosedIn
<1> QED
  BY <1>1 DEF Chain
-----------------------------------------------------------------------------
(* Guarded pages. *)

\* A region stays guarded when its pages keep their pointers or lose them, the log writes
\* none of them and callers own no more pages than before.
LEMMA GuardsKept ==
    ASSUME NEW F, NEW head, NEW n, NEW lv, NEW lv2 \in SUBSET lv, NEW b, NEW c, NEW log, NEW log2,
           GuardsIn(F, head, n, lv, b, log),
           \A p \in F : (c[p] = b[p] \/ c[p] \notin PageID) /\ Writes(log2, p) = {}
    PROVE  GuardsIn(F, head, n, lv2, c, log2)
<1>1. \A q \in {head} \cup {c[p] : p \in F} : q \in PageID => q \in F
  BY DEF GuardsIn
<1> QED
  BY <1>1, Zenon DEF GuardsIn

\* A free list guards itself.
LEMMA ChainGuards ==
    ASSUME NEW b, NEW S \in SUBSET PageID, NEW head, NEW n, NEW lv, NEW log, Chain(b, S, head, n),
           S \subseteq DataPages \ lv, \A p \in S : Writes(log, p) = {},
           \A p \in lv : p \in DataPages /\ p < n
    PROVE  GuardsIn(S, head, n, lv, b, log)
<1>1. \A q \in {head} \cup {b[p] : p \in S} : q \in PageID => q \in S
  BY NoPage DEF Chain, ClosedIn
<1> QED
  BY <1>1 DEF GuardsIn

\* The free list stays sound when its pages do.
LEMMA SoundKept ==
    ASSUME NEW m \in Mem, NEW lv, NEW lv2 \in SUBSET lv, NEW b, NEW c, NEW log, NEW log2,
           Sound(m, lv, b, log), \A p \in m.set : c[p] = b[p] /\ Writes(log2, p) = {}
    PROVE  Sound(m, lv2, c, log2)
<1>0. m.set \in SUBSET PageID /\ m.count \in Nat /\ m.count <= m.count
  BY DEF Mem
<1>1. Chain(c, m.set, m.head, m.count)
  BY <1>0, Kept, Zenon DEF Sound
<1>2. GuardsIn(m.set, m.head, m.count, lv2, c, log2)
  BY GuardsKept DEF Sound
<1> QED
  BY <1>1, <1>2, Zenon DEF Sound

\* Sets of pages are finite.
LEMMA FinitePages == \A S \in SUBSET PageID : IsFiniteSet(S)
<1>1. IsFiniteSet(PageID)
  BY PagerAssumption, FS_Interval DEF PageID
<1> QED
  BY <1>1, FS_Subset

\* The steps of the three methods that change the free list.
LEMMA WriteBodySound ==
    ASSUME DurableInv, WriteBody
    PROVE  MemSound'
<1>0. /\ pc = "body" /\ body' = [body EXCEPT ![op.page] = OpWord] /\ mem' = MemAfter
      /\ live' = live /\ wal' = wal
  BY DEF WriteBody
<1>1. /\ OpInv /\ Sound(mem, live, body, wal) /\ mem \in Mem /\ body \in [PageID -> Word]
      /\ op.kind \in Kind /\ DataPages \subseteq PageID
  BY <1>0, NoPage, Zenon DEF DurableInv, FreeInv, MemSound, TypeOK, Locals
<1>2. /\ mem.set \in SUBSET PageID /\ mem.count \in Nat /\ mem.free \in Nat /\ mem.head \in Nat
  BY <1>1 DEF Mem
<1>3. \A p : Writes(wal, p) = {}
  <2>1. Committed(wal) = {}
    BY <1>0, <1>1, Zenon DEF DurableInv, LogInv, OpInv
  <2> QED
    BY <1>1, <2>1, QuietRedo
<1>4. /\ Chain(body, mem.set, mem.head, mem.count) /\ Cardinality(mem.set) = mem.free
      /\ GuardsIn(mem.set, mem.head, mem.count, live, body, wal)
      /\ mem.set \subseteq DataPages \ live
      /\ \A p \in live : p \in DataPages /\ p < mem.count
  BY <1>1, Zenon DEF Sound, GuardsIn
<1>5. SUFFICES Sound(mem', live, body', wal)
  BY <1>0 DEF MemSound
<1>6. op.kind \in {"write", "extend", "reuse", "free"}
  BY <1>0, <1>1, Zenon DEF OpInv, Kind
<1>7. CASE op.kind = "write"
  <2>1. mem' = mem /\ op.page \notin mem.set
    BY <1>0, <1>1, <1>7 DEF MemAfter, OpInv
  <2>2. \A p \in mem.set : body'[p] = body[p]
    BY <1>0, <1>1, <1>2, <2>1
  <2> QED
    BY <1>1, <1>3, <2>1, <2>2, SoundKept, Zenon
<1>8. CASE op.kind = "extend"
  <2>1. op.page = mem.count /\ op.page \in DataPages
    BY <1>0, <1>1, <1>8, Zenon DEF OpInv, Changing
  <2>2. mem'.set = mem.set /\ mem'.head = mem.head /\ mem'.free = mem.free /\ mem'.count = mem.count + 1
    BY <1>0, <1>1, <1>8 DEF MemAfter, Mem
  <2>3. op.page \notin mem.set
    BY <1>2, <1>4, <2>1 DEF Chain
  <2>4. \A p \in mem.set : body'[p] = body[p]
    BY <1>0, <1>1, <1>2, <2>3
  <2>5. mem.count + 1 \in Nat /\ mem.count <= mem.count + 1
    BY <1>2
  <2>6. Chain(body', mem.set, mem.head, mem.count + 1)
    BY <1>2, <1>4, <2>4, <2>5, Kept, Zenon
  <2>7. \A p \in live : p \in DataPages /\ p < mem.count + 1
    BY <1>2, <1>4 DEF DataPages, FirstDataPageID
  <2>8. GuardsIn(mem.set, mem.head, mem.count + 1, live, body', wal)
    BY <1>2, <1>3, <1>4, <2>6, <2>7, ChainGuards, Zenon
  <2> QED
    BY <1>4, <2>2, <2>6, <2>8, Zenon DEF Sound
<1>9. CASE op.kind = "reuse"
  <2>1. op.page = mem.head /\ op.word = body[op.page] /\ op.page \in DataPages
    BY <1>0, <1>1, <1>9, Zenon DEF OpInv, Changing
  <2>2. op.page \in mem.set
    BY <1>1, <1>4, <2>1, Zenon DEF GuardsIn
  <2>3. mem.free > 0 /\ Cardinality(mem.set \ {op.page}) = mem.free - 1
    <3>1. IsFiniteSet(mem.set) /\ mem.set # {}
      BY <1>2, <2>2, FinitePages, Zenon
    <3>2. Cardinality(mem.set) # 0
      BY <3>1, FS_EmptySet
    <3>3. Cardinality(mem.set \ {op.page}) = Cardinality(mem.set) - 1
      BY <2>2, <3>1, FS_RemoveElement, Zenon
    <3> QED
      BY <1>2, <1>4, <3>2, <3>3
  <2>4. /\ mem'.set = mem.set \ {op.page} /\ mem'.head = body[op.page] /\ mem'.count = mem.count
        /\ mem'.free = mem.free - 1
    BY <1>0, <1>1, <1>9, <2>1, <2>3, Zenon DEF MemAfter, Mem
  <2>5. \A r \in mem.set \ {op.page} : body'[r] = body[r]
    BY <1>0, <1>1, <1>2
  <2>6. Chain(body', mem.set \ {op.page}, body[op.page], mem.count)
    BY <1>2, <1>4, <2>1, <2>2, <2>5, Popped, Zenon
  <2>7. GuardsIn(mem.set \ {op.page}, body[op.page], mem.count, live, body', wal)
    BY <1>2, <1>3, <1>4, <2>6, ChainGuards, Zenon
  <2> QED
    BY <2>3, <2>4, <2>6, <2>7, Zenon DEF Sound
<1>10. CASE op.kind = "free"
  <2>1. /\ op.page \in PageID \ mem.set /\ op.page < mem.count /\ op.word = mem.head
        /\ op.page \in DataPages \ live
    BY <1>0, <1>1, <1>10, Zenon DEF OpInv, Changing
  <2>2. Cardinality(mem.set \cup {op.page}) = mem.free + 1
    BY <1>2, <1>4, <2>1, FinitePages, FS_AddElement, Zenon
  <2>3. /\ mem'.set = mem.set \cup {op.page} /\ mem'.head = op.page /\ mem'.count = mem.count
        /\ mem'.free = mem.free + 1
    BY <1>0, <1>1, <1>10, Zenon DEF MemAfter, Mem
  <2>4. body'[op.page] = mem.head /\ \A r \in mem.set : body'[r] = body[r]
    BY <1>0, <1>1, <1>2, <1>10, <2>1, Zenon DEF OpWord
  <2>5. Chain(body', mem.set \cup {op.page}, op.page, mem.count)
    BY <1>2, <1>4, <2>1, <2>4, Pushed, Zenon
  <2>6. GuardsIn(mem.set \cup {op.page}, op.page, mem.count, live, body', wal)
    BY <1>2, <1>3, <1>4, <2>1, <2>5, ChainGuards, Zenon
  <2> QED
    BY <2>2, <2>3, <2>5, <2>6, Zenon DEF Sound
<1> QED
  BY <1>6, <1>7, <1>8, <1>9, <1>10

\* While a pager is open, freeSet is the free list on disk.
LEMMA StepMemSound ==
    ASSUME DurableInv, Next, TypeOK', pc' # "down"
    PROVE  MemSound'
<1>0. /\ OpInv /\ LogInv /\ TxInv /\ FreeInv /\ mem \in Mem /\ mem.set \subseteq PageID /\ wal \in Seq(Record)
      /\ body \in [PageID -> Word] /\ DataPages \subseteq PageID /\ live \subseteq live
      /\ (pc # "down" => Sound(mem, live, body, wal))
  BY NoPage, Zenon DEF DurableInv, TypeOK, FreeInv, MemSound, Mem
<1>1. pc # "down" => \A p \in mem.set : Writes(wal, p) = {} /\ p \in DataPages
  BY <1>0, Zenon DEF Sound, GuardsIn
<1>2. CASE OpenFresh
  <2>1. /\ mem'.set = {} /\ mem'.head = Sentinel /\ mem'.count = 2 /\ mem'.free = 0
        /\ live' = live /\ fresh
    BY <1>2 DEF OpenFresh, history
  <2>2. live = {}
    BY <1>0, <2>1, Zenon DEF FreeInv, DurableInv, HeaderInv
  <2>3. Chain(body', {}, Sentinel, 2)
    BY DEF Chain, ClosedIn
  <2>4. GuardsIn({}, Sentinel, 2, live', body', wal')
    BY <2>1, <2>2, NoPage, Zenon DEF GuardsIn
  <2>5. Cardinality({}) = 0
    BY FS_EmptySet
  <2> QED
    BY <2>1, <2>3, <2>4, <2>5, Zenon DEF MemSound, Sound
<1>3. CASE OpenExisting
  <2>1. PICK S \in SUBSET PageID :
            /\ IsFreeList(S, OpenHeader.head, OpenHeader.count) /\ Cardinality(S) = OpenHeader.free
            /\ mem' = [count |-> OpenHeader.count, head |-> OpenHeader.head,
                       free |-> OpenHeader.free, set |-> S]
    BY <1>3 DEF OpenExisting, WalkFinds
  <2>2. UNCHANGED <<live, body, wal>> /\ pc = "down" /\ ~fresh /\ OpenHeader # NoHeader
    BY <1>3 DEF OpenExisting
  <2>3. PICK F \in SUBSET PageID : GuardsIn(F, OpenHeader.head, OpenHeader.count, live, body, wal)
    BY <1>0, <2>2, Zenon DEF FreeInv, Guards
  <2>4. Chain(body, S, OpenHeader.head, OpenHeader.count)
    BY <2>1, Zenon DEF IsFreeList, Closed, Chain, ClosedIn
  <2>5. S \subseteq F
    BY <2>3, <2>4, Inside DEF GuardsIn
  <2>6. /\ S \subseteq DataPages \ live /\ \A p \in S : Writes(wal, p) = {}
        /\ \A p \in live : p \in DataPages /\ p < OpenHeader.count
    BY <2>3, <2>5 DEF GuardsIn
  <2>7. GuardsIn(S, OpenHeader.head, OpenHeader.count, live, body, wal)
    BY <2>4, <2>6, ChainGuards, Zenon
  <2> QED
    BY <2>1, <2>2, <2>4, <2>7 DEF MemSound, Sound
<1>4. CASE OpenNoHeader \/ OpenBadFreeList \/ CloseFiles \/ Crash
  BY <1>4, Zenon DEF OpenNoHeader, OpenBadFreeList, CloseFiles, Crash, Shut
<1>5. CASE WriteBody
  BY <1>5, WriteBodySound
<1>6. CASE Replay \/ ApplyBuffer \/ WriteMirror
  <2>1. pc # "down" /\ mem' = mem /\ live' = live /\ wal' = wal
    BY <1>6, NoFaults DEF Replay, ApplyBuffer, WriteMirror, memory, history
  <2>2. ASSUME NEW p \in mem.set PROVE body'[p] = body[p]
    <3>1. p \in PageID /\ p \in DataPages /\ Writes(wal, p) = {}
      BY <1>0, <1>1, <2>1, Zenon
    <3>2. CASE Replay
      BY <3>1, <3>2, NoFaults DEF Replay, Redo
    <3>3. CASE ApplyBuffer
      BY <1>0, <3>1, <3>3, Zenon DEF ApplyBuffer, Overlay, LogInv
    <3>4. CASE WriteMirror
      BY <1>0, <3>1, <3>4, NoPage, Zenon DEF WriteMirror
    <3> QED
      BY <1>6, <3>2, <3>3, <3>4
  <2> QED
    BY <1>0, <1>1, <2>1, <2>2, SoundKept, Zenon DEF MemSound
<1>7. CASE Truncate
  <2>1. pc # "down" /\ mem' = mem /\ live' = live /\ wal' = <<>> /\ body' = body
    BY <1>7 DEF Truncate, memory
  <2>2. \A p : Writes(<<>>, p) = {}
    BY DEF Writes
  <2> QED
    BY <1>0, <2>1, <2>2, SoundKept, Zenon DEF MemSound
<1>8. CASE AppendWAL
  <2>1. pc = "append" /\ mem' = mem /\ live' = live /\ wal' = Append(wal, OpRecord) /\ body' = body
    BY <1>8 DEF AppendWAL
  <2>2. /\ Committed(wal) = {} /\ OpRecord \in Record /\ OpRecord.txn = tx.id /\ OpRecord.page = op.page
    BY <1>0, <2>1, LogTypes, Zenon DEF LogInv, OpInv, DurableInv, OpRecord
  <2>3. op.kind \in {"txwrite", "commit"}
    BY <1>0, <2>1, Zenon DEF OpInv, DurableInv, TypeOK, Locals, Kind
  <2>4. CASE op.kind = "txwrite"
    <3>1. op.page # EOT
      BY <1>0, <2>4, NoPage, Zenon DEF OpInv, EOT
    <3>2. Committed(wal') = {}
      BY <1>0, <2>1, <2>2, <3>1, CommittedAppend, Zenon
    <3>3. \A p : Writes(wal', p) = {}
      BY <1>0, <3>2, QuietRedo, Zenon
    <3> QED
      BY <1>0, <2>1, <3>3, SoundKept, Zenon DEF MemSound
  <2>5. CASE op.kind = "commit"
    <3>1. /\ op.page = EOT /\ tx.buf = Buffered(wal, tx.id)
          /\ \A p \in PageID : tx.buf[p] # NoWrite => p \notin mem.set
      BY <1>0, <2>1, <2>5, Zenon DEF OpInv, TxInv
    <3>2. \A p \in PageID : tx.buf[p] = NoWrite <=> Writes(wal', p) = {}
      BY <1>0, <2>1, <2>2, <3>1, CommitRedo, SMTT(30)
    <3>3. \A p \in mem.set : Writes(wal', p) = {}
      BY <1>0, <3>1, <3>2, Zenon
    <3> QED
      BY <1>0, <2>1, <3>3, SoundKept, Zenon DEF MemSound
  <2> QED
    BY <2>3, <2>4, <2>5
<1>9. CASE WritePrimary
  <2>1. pc = "primary" /\ mem' = mem /\ body' = body /\ wal' = wal
    BY <1>9 DEF WritePrimary, memory
  <2>2. CASE op.kind \in {"extend", "reuse"}
    <3>1. /\ live' = live \cup {op.page} /\ op.page \in DataPages /\ op.page \notin mem.set
          /\ op.page < mem.count
      BY <1>0, <1>9, <2>1, <2>2, Zenon DEF WritePrimary, OpInv, Changing
    <3>2. /\ mem.set \subseteq DataPages \ live' /\ \A p \in live' : p \in DataPages /\ p < mem.count
      BY <1>0, <2>1, <3>1, Zenon DEF Sound, GuardsIn
    <3>3. GuardsIn(mem.set, mem.head, mem.count, live', body, wal)
      BY <1>0, <1>1, <2>1, <3>2, ChainGuards, Zenon DEF Sound
    <3> QED
      BY <1>0, <2>1, <3>3, Zenon DEF MemSound, Sound
  <2>3. CASE op.kind \notin {"extend", "reuse"}
    BY <1>0, <1>9, <2>1, <2>3, Zenon DEF WritePrimary, MemSound
  <2> QED
    BY <2>2, <2>3
<1>10. ASSUME NEW p, FreePage(p) PROVE MemSound'
  <2>1. pc # "down" /\ mem' = mem /\ wal' = wal /\ body' = body /\ live' \in SUBSET live
    BY <1>10 DEF FreePage, memory, disk
  <2> QED
    BY <1>0, <1>1, <2>1, SoundKept DEF MemSound
<1>11. ASSUME NEW p, NEW v, WritePage(p, v) \/ TxWritePage(p, v) \/ AllocatePage \/ BeginTx
                             \/ CommitTx \/ RollbackTx \/ Close
       PROVE  MemSound'
  <2>1. pc # "down" /\ UNCHANGED <<mem, live, wal, body>>
    BY <1>11, Zenon DEF WritePage, TxWritePage, AllocatePage, BeginTx, CommitTx, RollbackTx, Close, disk,
                 memory, history
  <2> QED
    BY <1>0, <2>1, Zenon DEF MemSound
<1> QED
  BY <1>2, <1>3, <1>4, <1>5, <1>6, <1>7, <1>8, <1>9, <1>10, <1>11, NoFaults DEF Next

\* The headers of a pager that is open: page 0 has the state of memory between calls, and
\* the state that the method in progress started from until writeHeader replaces it.
LEMMA StepHeaders ==
    ASSUME DurableInv, Next, TypeOK', OpInv'
    PROVE  /\ pc' \notin {"down", "mirror", "primary"} => primary' = MemHeader'
           /\ pc' \in {"body", "mirror", "primary"} /\ op'.kind \in Changing =>
                /\ primary' = HeaderOf(op'.old)
                /\ GuardsIn(op'.old.set, op'.old.head, op'.old.count, live', body', wal')
           /\ pc' = "primary" => mirror' = MemHeader'
           /\ ~created' => live' = {}
           /\ fresh' => primary' = NoHeader /\ mirror' = NoHeader
           /\ op'.kind = "create" => primary' = NoHeader /\ (pc' = "mirror" => mirror' = NoHeader)
<1> DEFINE Goal == /\ pc' \notin {"down", "mirror", "primary"} => primary' = MemHeader'
                   /\ pc' \in {"body", "mirror", "primary"} /\ op'.kind \in Changing =>
                        /\ primary' = HeaderOf(op'.old)
                        /\ GuardsIn(op'.old.set, op'.old.head, op'.old.count, live', body', wal')
                   /\ pc' = "primary" => mirror' = MemHeader'
                   /\ ~created' => live' = {}
                   /\ fresh' => primary' = NoHeader /\ mirror' = NoHeader
                   /\ op'.kind = "create" => primary' = NoHeader /\ (pc' = "mirror" => mirror' = NoHeader)
<1> SUFFICES Goal
  OBVIOUS
<1>0. /\ OpInv /\ LogInv /\ mem \in Mem /\ op \in Locals /\ op.kind \in Kind /\ body \in [PageID -> Word]
      /\ OpenHeader \in Header /\ (pc = "idle" => op.kind = "none") /\ live \in SUBSET live
  BY Zenon DEF DurableInv, TypeOK, Locals, OpenHeader, OpInv
<1>1. /\ pc \notin {"down", "mirror", "primary"} => primary = MemHeader
      /\ pc \in {"body", "mirror", "primary"} /\ op.kind \in Changing =>
           /\ primary = HeaderOf(op.old)
           /\ GuardsIn(op.old.set, op.old.head, op.old.count, live, body, wal)
      /\ pc = "primary" => mirror = MemHeader
      /\ ~created => live = {}
      /\ fresh => primary = NoHeader /\ mirror = NoHeader
      /\ op.kind = "create" => primary = NoHeader /\ (pc = "mirror" => mirror = NoHeader)
      /\ pc # "down" => GuardsIn(mem.set, mem.head, mem.count, live, body, wal)
  BY Zenon DEF DurableInv, FreeInv, MemSound, Sound, Guards
<1>2. /\ created => ~fresh
      /\ pc = "primary" => ~fresh
      /\ pc # "down" /\ op.kind # "create" => created
      /\ op.kind = "create" => pc \in {"mirror", "primary"}
  BY Zenon DEF DurableInv, HeaderInv, LogInv, OpInv
<1>3. CASE OpenFresh
  BY <1>1, <1>3 DEF OpenFresh, disk, history, NoOp, Changing
<1>4. CASE OpenNoHeader
  BY <1>0, <1>1, <1>4, Zenon DEF OpenNoHeader, disk, history, OpInv
<1>5. CASE OpenBadFreeList
  BY <1>0, <1>1, <1>5, Zenon DEF OpenBadFreeList, OpInv
<1>6. CASE OpenExisting
  <2>1. primary' = OpenHeader
    BY <1>6, NoFaults DEF OpenExisting, Heal
  <2>2. OpenHeader # NoHeader /\ ~fresh' /\ created' /\ pc' \in {"idle", "replay"}
        /\ op'.kind \in {"none", "open"}
    BY <1>6 DEF OpenExisting, Return, NoOp
  <2>3. primary' = MemHeader'
    BY <1>0, <1>6, <2>1 DEF OpenExisting, MemHeader, Header
  <2> QED
    BY <2>2, <2>3 DEF Changing
<1>7. CASE Crash
  <2>1. /\ pc' = "down" /\ op'.kind = "none" /\ created' = created /\ live' = live
    BY <1>7, Zenon DEF Crash, Shut, NoOp
  <2>2. ASSUME fresh' PROVE primary' = NoHeader /\ mirror' = NoHeader
    <3>1. fresh
      BY <1>7, <2>2, Zenon DEF Crash
    <3>2. pc = "mirror"
      BY <1>2, <1>7, <3>1 DEF Crash
    <3> QED
      BY <1>1, <1>7, <3>1, <3>2, Zenon DEF Crash
  <2> QED
    BY <1>1, <2>1, <2>2, Zenon DEF Changing
<1>8. CASE CloseFiles
  BY <1>1, <1>8, Zenon DEF CloseFiles, Shut, NoOp, history
<1>9. CASE Replay \/ Truncate \/ AppendWAL \/ ApplyBuffer
  <2>1. /\ UNCHANGED <<primary, mirror, fresh, mem, created, live>> /\ pc \in {"replay", "truncate", "append", "apply"}
        /\ pc' \in {"truncate", "closing", "idle", "apply", "replay"} /\ op'.kind \in {op.kind, "none"}
    BY <1>0, <1>9, NoFaults DEF Replay, Truncate, AppendWAL, ApplyBuffer, memory, history, Return, NoOp, Locals
  <2>2. created /\ op.kind # "create"
    BY <1>2, <2>1
  <2>3. primary' = MemHeader'
    BY <1>1, <2>1, Zenon DEF MemHeader
  <2> QED
    BY <1>2, <2>1, <2>2, <2>3
<1>10. ASSUME NEW p, NEW v, WritePage(p, v) \/ TxWritePage(p, v) \/ BeginTx \/ CommitTx \/ RollbackTx \/ Close
       PROVE  Goal
  <2>1. /\ UNCHANGED <<primary, mirror, fresh, mem, created, live>> /\ pc = "idle" /\ op.kind = "none"
        /\ pc' \in {"idle", "body", "append", "closing", "replay"}
        /\ op'.kind \in {"none", "write", "txwrite", "commit", "close"}
    <3>1. CASE BeginTx \/ RollbackTx
      BY <1>0, <3>1 DEF BeginTx, RollbackTx, disk, history
    <3>2. CASE CommitTx \/ Close
      BY <1>0, <3>2 DEF CommitTx, Close, disk, memory, history, Op
    <3>3. CASE WritePage(p, v) \/ TxWritePage(p, v)
      BY <1>0, <3>3 DEF WritePage, TxWritePage, disk, memory, history, Op
    <3> QED
      BY <1>10, <3>1, <3>2, <3>3
  <2>2. primary' = MemHeader'
    BY <1>1, <2>1, Zenon DEF MemHeader
  <2> QED
    BY <1>1, <1>2, <2>1, <2>2, Zenon DEF Changing
<1>11. ASSUME NEW p, AllocatePage \/ FreePage(p) PROVE Goal
  <2>1. /\ UNCHANGED <<disk, mem, created>> /\ live' \in SUBSET live /\ pc = "idle" /\ op.kind = "none"
        /\ pc' = "body" /\ op'.old = mem /\ op'.kind \in Changing
    <3>1. CASE AllocatePage
      BY <1>0, <3>1 DEF AllocatePage, memory, history, Op, Changing
    <3>2. CASE FreePage(p)
      BY <1>0, <3>2, Zenon DEF FreePage, memory, Op, Changing
    <3> QED
      BY <1>11, <3>1, <3>2
  <2>2. primary' = MemHeader' /\ primary' = HeaderOf(mem)
    BY <1>1, <2>1, Zenon DEF MemHeader, HeaderOf, disk
  <2>3. GuardsIn(mem.set, mem.head, mem.count, live', body', wal')
    <3>1. body' = body /\ wal' = wal /\ GuardsIn(mem.set, mem.head, mem.count, live, body, wal)
      BY <1>1, <2>1, Zenon DEF disk
    <3>2. \A q \in mem.set : Writes(wal', q) = {}
      BY <3>1 DEF GuardsIn
    <3> QED
      BY <2>1, <3>1, <3>2, GuardsKept, Zenon
  <2>4. created /\ ~fresh'
    BY <1>2, <2>1 DEF disk
  <2> QED
    BY <2>1, <2>2, <2>3, <2>4 DEF Changing
<1>12. CASE WriteBody
  <2>1. /\ UNCHANGED <<primary, fresh, created, live, wal>> /\ pc = "body"
        /\ body' = [body EXCEPT ![op.page] = OpWord]
        /\ created /\ op.kind # "create" /\ ~fresh
    BY <1>2, <1>12 DEF WriteBody
  <2>2. CASE op.kind = "write"
    <3>1. mem' = mem /\ pc' = "idle" /\ op'.kind = "none"
      BY <1>12, <2>2 DEF WriteBody, MemAfter, Return, NoOp
    <3>2. primary' = MemHeader'
      BY <1>1, <2>1, <3>1, Zenon DEF MemHeader
    <3> QED
      BY <2>1, <3>1, <3>2 DEF Changing
  <2>3. CASE op.kind # "write"
    <3>1. pc' = "mirror" /\ op' = op /\ op.kind \in Changing
      BY <1>0, <1>12, <2>1, <2>3, Zenon DEF WriteBody, OpInv, Changing, Kind
    <3>2. /\ primary = HeaderOf(op.old)
          /\ GuardsIn(op.old.set, op.old.head, op.old.count, live, body, wal)
          /\ mem = op.old /\ op.old.set \subseteq PageID
      BY <1>0, <1>1, <2>1, <3>1, Zenon DEF OpInv, Mem
    <3>3. ASSUME NEW p \in op.old.set PROVE (body'[p] = body[p] \/ body'[p] \notin PageID) /\ Writes(wal', p) = {}
      <4>1. Writes(wal', p) = {}
        BY <2>1, <3>2 DEF GuardsIn
      <4>2. CASE p # op.page
        BY <1>0, <2>1, <3>2, <4>1, <4>2, Zenon
      <4>3. CASE p = op.page
        <5>1. op.kind # "free"
          BY <1>0, <2>1, <3>2, <4>3, Zenon DEF OpInv
        <5>2. body'[p] = 0
          BY <1>0, <2>1, <3>1, <3>2, <4>3, <5>1, Zenon DEF OpWord, Changing
        <5> QED
          BY <4>1, <5>2, NoPage
      <4> QED
        BY <4>2, <4>3, Zenon
    <3>4. GuardsIn(op.old.set, op.old.head, op.old.count, live', body', wal')
      <4>1. live' \in SUBSET live
        BY <2>1
      <4> QED
        BY <3>2, <3>3, <4>1, GuardsKept, Zenon
    <3> QED
      BY <2>1, <3>1, <3>2, <3>4, Zenon
  <2> QED
    BY <2>2, <2>3
<1>13. CASE WriteMirror
  <2>1. /\ UNCHANGED <<primary, created, live, wal, mem, op>> /\ pc = "mirror" /\ pc' = "primary" /\ ~fresh'
        /\ body' = [body EXCEPT ![MirrorHeaderPageID] = Corrupt] /\ mirror' = MemHeader
    BY <1>13 DEF WriteMirror, memory, history
  <2>2. mirror' = MemHeader'
    BY <2>1 DEF MemHeader
  <2>3. ASSUME op.kind \in Changing
        PROVE  GuardsIn(op.old.set, op.old.head, op.old.count, live', body', wal')
    <3>1. GuardsIn(op.old.set, op.old.head, op.old.count, live, body, wal)
      BY <1>1, <2>1, <2>3, Zenon
    <3>2. \A p \in op.old.set : body'[p] = body[p] /\ Writes(wal', p) = {}
      BY <1>0, <2>1, <3>1, NoPage, Zenon DEF GuardsIn
    <3>3. live' \in SUBSET live
      BY <2>1
    <3> QED
      BY <3>1, <3>2, <3>3, GuardsKept
  <2> QED
    BY <1>1, <2>1, <2>2, <2>3, Zenon
<1>14. CASE WritePrimary
  <2>1. /\ primary' = MemHeader /\ mem' = mem /\ fresh' = fresh /\ created' /\ pc = "primary" /\ pc' = "idle"
        /\ op'.kind = "none"
    BY <1>14 DEF WritePrimary, memory, Return, NoOp
  <2>2. primary' = MemHeader'
    BY <2>1 DEF MemHeader
  <2> QED
    BY <1>2, <2>1, <2>2 DEF Changing
<1> HIDE DEF Goal
<1> QED
  BY <1>3, <1>4, <1>5, <1>6, <1>7, <1>8, <1>9, <1>10, <1>11, <1>12, <1>13, <1>14, NoFaults DEF Next

\* Whatever step a crash interrupts, the walk of the next Open meets no page that a caller owns.
LEMMA StepDown ==
    ASSUME DurableInv, Next, TypeOK', pc' = "down", ~fresh', OpenHeader' # NoHeader
    PROVE  \E F \in SUBSET PageID : GuardsIn(F, OpenHeader'.head, OpenHeader'.count, live', body', wal')
<1>0. /\ OpInv /\ LogInv /\ FreeInv /\ op.kind \in Kind /\ body \in [PageID -> Word] /\ live \in SUBSET live
      /\ mem.set \in SUBSET PageID /\ op.old.set \in SUBSET PageID
  BY Zenon DEF DurableInv, TypeOK, Locals, Mem
<1>1. /\ pc # "down" /\ op.kind # "create" => created
      /\ created /\ pc \notin {"down", "primary"} => primary # NoHeader
      /\ pc # "down" => GuardsIn(mem.set, mem.head, mem.count, live, body, wal)
  BY NoFaults, Zenon DEF DurableInv, LogInv, HeaderInv, FreeInv, MemSound, Sound
<1>2. OpenHeader' = IF primary' # NoHeader THEN primary' ELSE mirror'
  BY DEF OpenHeader
<1>3. CASE OpenNoHeader
  BY <1>2, <1>3 DEF OpenNoHeader, disk, OpenHeader
<1>4. CASE OpenBadFreeList
  <2>1. /\ primary' = OpenHeader /\ OpenHeader # NoHeader /\ UNCHANGED <<live, body, wal>>
        /\ pc = "down" /\ ~fresh
    BY <1>4, NoFaults DEF OpenBadFreeList, Heal
  <2>2. OpenHeader' = OpenHeader
    BY <1>2, <2>1
  <2>3. PICK F \in SUBSET PageID : GuardsIn(F, OpenHeader.head, OpenHeader.count, live, body, wal)
    BY <1>0, <2>1, Zenon DEF FreeInv, Guards
  <2> QED
    BY <2>1, <2>2, <2>3
<1>5. CASE CloseFiles
  <2>1. primary' = primary /\ UNCHANGED <<live, body, wal>> /\ pc = "closing"
    BY <1>5, NoFaults DEF CloseFiles, history
  <2>2. primary = MemHeader /\ primary # NoHeader
    BY <1>0, <1>1, <2>1, Zenon DEF FreeInv, OpInv
  <2>3. OpenHeader'.head = mem.head /\ OpenHeader'.count = mem.count
    BY <1>2, <2>1, <2>2 DEF MemHeader
  <2> QED
    BY <1>0, <1>1, <2>1, <2>3, Zenon
<1>6. CASE Crash
  <2>1. wal' = wal /\ body' \in CrashedBody /\ live' = live /\ pc # "down"
    BY <1>6, NoFaults DEF Crash
  <2>2. ASSUME OpenHeader'.head = mem.head, OpenHeader'.count = mem.count
        PROVE  \E F \in SUBSET PageID :
                   GuardsIn(F, OpenHeader'.head, OpenHeader'.count, live', body', wal')
    <3>1. GuardsIn(mem.set, mem.head, mem.count, live, body, wal)
      BY <1>1, <2>1
    <3>2. \A p \in mem.set : p \in PageID /\ Writes(wal, p) = {}
      BY <1>0, <3>1 DEF GuardsIn
    <3>3. \A p \in mem.set : body'[p] = body[p] \/ body'[p] = Corrupt
      BY <2>1, <3>2, CrashedPages, Zenon
    <3>4. GuardsIn(mem.set, mem.head, mem.count, live', body', wal')
      BY <1>0, <2>1, <3>1, <3>2, <3>3, GuardsKept, NoPage, ZenonT(30)
    <3> QED
      BY <1>0, <2>2, <3>4
  <2>3. CASE pc \notin {"mirror", "primary"}
    <3>1. primary' = primary /\ primary = MemHeader /\ primary # NoHeader
      BY <1>0, <1>1, <1>6, <2>1, <2>3, Zenon DEF Crash, FreeInv, OpInv
    <3>2. OpenHeader'.head = mem.head /\ OpenHeader'.count = mem.count
      BY <1>2, <3>1 DEF MemHeader
    <3> QED
      BY <2>2, <3>2, Zenon
  <2>4. CASE pc \in {"mirror", "primary"}
    <3>1. body' = body
      BY <2>1, <2>4 DEF CrashedBody
    <3>2. CASE primary' = NoHeader /\ pc = "primary"
      <4>1. mirror' = MemHeader
        BY <1>0, <1>6, <3>2, Zenon DEF Crash, FreeInv
      <4>2. OpenHeader'.head = mem.head /\ OpenHeader'.count = mem.count
        BY <1>2, <3>2, <4>1 DEF MemHeader
      <4> QED
        BY <2>2, <4>2
    <3>3. CASE op.kind = "create" /\ (primary' # NoHeader \/ pc = "mirror")
      BY <1>0, <1>2, <1>6, <2>4, <3>3, Zenon DEF Crash, FreeInv
    <3>4. CASE op.kind \in Changing /\ (primary' # NoHeader \/ pc = "mirror")
      <4>1. /\ primary' = primary /\ primary = HeaderOf(op.old)
            /\ GuardsIn(op.old.set, op.old.head, op.old.count, live, body, wal)
        BY <1>0, <1>6, <2>4, <3>4, Zenon DEF Crash, FreeInv, Guards
      <4>2. primary' # NoHeader
        BY <1>1, <2>4, <3>4, <4>1, Zenon DEF Changing
      <4>3. OpenHeader'.head = op.old.head /\ OpenHeader'.count = op.old.count
        BY <1>2, <4>1, <4>2 DEF HeaderOf
      <4> QED
        BY <1>0, <2>1, <3>1, <4>1, <4>3, Zenon
    <3>5. op.kind \in Changing \cup {"create"}
      BY <1>0, <2>4 DEF OpInv, Kind, Changing
    <3> QED
      BY <2>4, <3>2, <3>3, <3>4, <3>5
  <2> QED
    BY <2>3, <2>4
<1>7. pc' # "down" \/ OpenNoHeader \/ OpenBadFreeList \/ CloseFiles \/ Crash
  <2>1. CASE OpenFresh \/ OpenExisting \/ Close \/ Replay \/ Truncate
    BY <2>1, NoFaults DEF OpenFresh, OpenExisting, Close, Replay, Truncate, Return
  <2>2. CASE AllocatePage \/ BeginTx \/ CommitTx \/ RollbackTx
    BY <2>2 DEF AllocatePage, BeginTx, CommitTx, RollbackTx
  <2>3. ASSUME NEW p, NEW v, WritePage(p, v) \/ TxWritePage(p, v) \/ FreePage(p) PROVE pc' # "down"
    BY <2>3, Zenon DEF WritePage, TxWritePage, FreePage
  <2>4. CASE WriteBody \/ WriteMirror \/ WritePrimary \/ AppendWAL \/ ApplyBuffer
    BY <2>4 DEF WriteBody, WriteMirror, WritePrimary, AppendWAL, ApplyBuffer, Return
  <2> QED
    BY <2>1, <2>2, <2>3, <2>4, NoFaults DEF Next
<1> QED
  BY <1>3, <1>4, <1>5, <1>6, <1>7

\* The headers and the free list, on disk and in memory.
LEMMA StepFreeInv ==
    ASSUME DurableInv, Next, TypeOK', OpInv'
    PROVE  FreeInv'
<1>1. pc' = "down" /\ ~fresh' /\ OpenHeader' # NoHeader =>
          \E F \in SUBSET PageID : GuardsIn(F, OpenHeader'.head, OpenHeader'.count, live', body', wal')
  BY StepDown
<1>2. pc' # "down" => MemSound'
  BY StepMemSound
<1> QED
  BY <1>1, <1>2, StepHeaders, Zenon DEF FreeInv, Guards
-----------------------------------------------------------------------------
(* The theorems. *)

\* A pager file that does not exist yet satisfies the invariant.
LEMMA DurableInit == DefaultPager /\ Init => DurableInv
<1> SUFFICES ASSUME DefaultPager, Init PROVE DurableInv
  OBVIOUS
<1>1. TypeOK /\ ShapeOK /\ HeaderInv
  BY InitTypeOK, InitShapeOK DEF Init, HeaderInv
<1>2. FreeInv
  BY Zenon DEF Init, FreeInv, NoOp, Changing
<1>3. OpInv
  BY Zenon DEF Init, OpInv, NoOp, NoTx, Changing
<1>4. LogInv
  BY DEF Init, LogInv, NoOp
<1>5. TxInv /\ ErrInv
  BY Zenon DEF Init, TxInv, ErrInv, RefusalIsFreeList, NoTx
<1>6. Rebuilt /\ RollbackIsFinal
  BY DEF Init, Rebuilt, RollbackIsFinal
<1> QED
  BY <1>1, <1>2, <1>3, <1>4, <1>5, <1>6 DEF DurableInv

\* The invariant is inductive.
LEMMA DurableStep == DurableInv /\ [Next]_vars => DurableInv'
<1> SUFFICES ASSUME DurableInv, [Next]_vars PROVE DurableInv'
  OBVIOUS
<1>1. DefaultPager' /\ TypeOK' /\ ShapeOK' /\ HeaderInv'
  BY StepTypeOK, StepShapeOK, StepHeaderInv DEF DurableInv, DefaultPager
<1>2. CASE Next
  <2>1. OpInv'
    BY <1>1, <1>2, StepOpInv
  <2>2. FreeInv' /\ TxInv' /\ ErrInv'
    BY <1>1, <1>2, <2>1, StepFreeInv, StepTxInv, StepErr
  <2>3. LogInv'
    BY <1>1, <1>2, <2>1, StepLogInv
  <2>4. Rebuilt' /\ RollbackIsFinal'
    BY <1>1, <1>2, <2>3, StepRebuilt, StepRollback
  <2> QED
    BY <1>1, <2>1, <2>2, <2>3, <2>4 DEF DurableInv
<1>3. CASE UNCHANGED vars
  <2>1. /\ UNCHANGED <<fresh, primary, mirror, body, wal, tail, untruncated>>
        /\ UNCHANGED <<pc, op, mem, tx, nextTxnID, openErr>>
        /\ UNCHANGED <<faults, created, live, content, rolledBack>>
    BY <1>3 DEF vars, disk, memory, history
  <2>2. FreeInv'
    <3>1. FreeInv
      BY DEF DurableInv
    <3>2. OpenHeader' = OpenHeader /\ MemHeader' = MemHeader /\ MemSound' = MemSound
      BY <2>1 DEF OpenHeader, MemHeader, MemSound
    <3> QED
      BY <2>1, <3>1, <3>2, Zenon DEF FreeInv, Guards
  <2>3. OpInv' /\ LogInv'
    BY <2>1, ZenonT(30) DEF DurableInv, OpInv, LogInv
  <2>4. TxInv' /\ ErrInv'
    BY <2>1, Zenon DEF DurableInv, TxInv, ErrInv, RefusalIsFreeList
  <2>5. Rebuilt' /\ RollbackIsFinal'
    BY <2>1, Zenon DEF DurableInv, Rebuilt, RollbackIsFinal, WalFile
  <2> QED
    BY <1>1, <2>2, <2>3, <2>4, <2>5 DEF DurableInv
<1> QED
  BY <1>2, <1>3

\* The invariant holds in every state of the default pager.
LEMMA AlwaysDurable == DefaultPager /\ Spec => []DurableInv
  BY DurableInit, DurableStep, PTL DEF Spec

\* The durability contract of CommitTx and WritePage, for files of any size and any number of
\* transactions: whatever step the process stops at, replayWALInternal rebuilds the last
\* promised body of every page that a caller owns, and a transaction is there as a whole or
\* not at all.
THEOREM CommittedSurvives == DefaultPager /\ Spec => []Recoverable
<1>1. DurableInv => Recoverable
  BY DEF DurableInv, Rebuilt, Recoverable
<1> QED
  BY <1>1, AlwaysDurable, PTL

\* RollbackTx leaves its records in the log, and no replay applies them, whatever commits
\* and crashes follow.
THEOREM RolledBackStaysBack == DefaultPager /\ Spec => []RollbackIsFinal
<1>1. DurableInv => RollbackIsFinal
  BY DEF DurableInv
<1> QED
  BY <1>1, AlwaysDurable, PTL

\* Between calls ReadPage accepts every page that a caller owns and returns its last promised
\* body, the open transaction's own writes first.
THEOREM ReadPageReturnsLatest == DefaultPager /\ Spec => []ReadsLatest
<1>1. DurableInv => ReadsLatest
  <2> SUFFICES ASSUME DurableInv, pc = "idle", NEW p \in live
               PROVE  Writable(p) /\ ReadPage(p) = Overlay(tx.buf, content)[p]
    BY DEF ReadsLatest
  <2>0. /\ body \in [PageID -> Word] /\ p \in PageID /\ mem \in Mem /\ OpInv /\ LogInv /\ TxInv
        /\ Redo(wal, body)[p] = content[p]
    BY DEF DurableInv, TypeOK, Rebuilt
  <2>1. p \in DataPages /\ p < mem.count /\ p \notin mem.set
    BY Zenon DEF DurableInv, FreeInv, MemSound, Sound, GuardsIn
  <2>2. Writable(p)
    BY <2>1 DEF Writable, DataPages
  <2>3. Committed(wal) = {}
    BY <2>0, Zenon DEF LogInv, OpInv
  <2>4. body[p] = content[p]
    BY <2>0, <2>3, QuietRedo, Zenon
  <2>5. ~tx.on => tx.buf[p] = NoWrite
    BY <2>0, Zenon DEF TxInv, NoBuffer
  <2> QED
    BY <2>0, <2>2, <2>4, <2>5, Zenon DEF ReadPage, Overlay
<1> QED
  BY <1>1, AlwaysDurable, PTL

\* Between calls the chain on disk, freeSet and freeCount describe the same free pages: every
\* AllocatePage and FreePage starts from what the walk in Open would find, after crashes too.
THEOREM FreeListAlwaysSound == DefaultPager /\ Spec => []FreeListSound
<1>1. DurableInv => FreeListSound
  BY Zenon DEF DurableInv, FreeInv, MemSound, Sound, FreeListSound, IsFreeList, Closed, Chain, ClosedIn
<1> QED
  BY <1>1, AlwaysDurable, PTL

\* AllocatePage never hands out a page that a caller still owns, across crashes in the middle
\* of AllocatePage and FreePage.
THEOREM PagesAllocatedOnce == DefaultPager /\ Spec => []AllocatedOnce
<1>1. DurableInv => AllocatedOnce
  BY Zenon DEF DurableInv, OpInv, Changing, AllocatedOnce
<1> QED
  BY <1>1, AlwaysDurable, PTL

\* After a crash the only reason for which Open can refuse a file that was once opened is
\* its free list: the headers and the log are always readable.
THEOREM OnlyFreeListRefused == DefaultPager /\ Spec => []RefusalIsFreeList
<1>1. DurableInv => RefusalIsFreeList
  BY DEF DurableInv, ErrInv
<1> QED
  BY <1>1, AlwaysDurable, PTL
=============================================================================
