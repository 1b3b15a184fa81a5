---------------------------- MODULE PagerProofs ----------------------------
(***************************************************************************)
(* Proofs about the pager, for any number of pages, any values and any     *)
(* bounds.                                                                 *)
(***************************************************************************)
EXTENDS Pager, TLAPS, WellFoundedInduction

\* Every non-empty set of naturals has a least element.
LEMMA LeastNatural ==
    ASSUME NEW T \in SUBSET Nat, T # {}
    PROVE  \E x \in T : \A y \in T : x <= y
<1>1. PICK x \in T : \A y \in T : ~(<<y, x>> \in OpToRel(<, Nat))
  BY NatLessThanWellFounded, WFMin, Zenon
<1>2. \A y \in T : ~(y < x)
  BY <1>1, Zenon DEF OpToRel
<1> QED
  BY <1>2

\* A non-empty set of positions of a log has a last one, so Redo's Max(...) is
\* a position: the record that replayWALInternal applies last.
LEMMA MaxIsMember ==
    ASSUME NEW n \in Nat, NEW S \in SUBSET (1..n), S # {}
    PROVE  Max(S) \in S /\ \A y \in S : Max(S) >= y
<1> DEFINE T == {n - i : i \in S}
<1>1. PICK i \in S : TRUE
  BY Zenon
<1>2. T \in SUBSET Nat /\ n - i \in T
  OBVIOUS
<1>3. PICK x \in T : \A y \in T : x <= y
  <2> HIDE DEF T
  <2> QED
    BY <1>2, LeastNatural
<1>4. PICK m \in S : x = n - m
  OBVIOUS
<1>5. ASSUME NEW y \in S PROVE m >= y
  <2>1. n - y \in T
    OBVIOUS
  <2>2. x <= n - y
    BY <2>1, <1>3
  <2> QED
    BY <2>2, <1>4
<1> QED
  BY <1>5, Zenon DEF Max

-----------------------------------------------------------------------------
(* Type correctness. *)

\* What replay leaves in the main file are page bodies.
LEMMA RedoType ==
    ASSUME NEW log \in Seq(Record), NEW b \in [PageID -> Word]
    PROVE  Redo(log, b) \in [PageID -> Word]
<1> SUFFICES ASSUME NEW p \in PageID
             PROVE  Writes(log, p) # {} => log[Max(Writes(log, p))].word \in Word
  BY DEF Redo
<1> HAVE Writes(log, p) # {}
<1>1. Writes(log, p) \in SUBSET (1..Len(log)) /\ Len(log) \in Nat
  BY DEF Writes
<1>2. Max(Writes(log, p)) \in 1..Len(log)
  BY <1>1, MaxIsMember, Zenon
<1>3. log[Max(Writes(log, p))] \in Record
  BY <1>2
<1> QED
  BY <1>3 DEF Record

\* So is what CommitTx leaves when it applies its buffer.
LEMMA OverlayType ==
    ASSUME NEW buf \in Buffer, NEW b \in [PageID -> Word]
    PROVE  Overlay(buf, b) \in [PageID -> Word]
<1> SUFFICES ASSUME NEW p \in PageID, buf[p] # NoWrite PROVE buf[p] \in Word
  BY DEF Overlay
<1> QED
  BY DEF Buffer, Word

\* So are those a crash or a failed write leaves.
LEMMA CrashedBodyType ==
    ASSUME TypeOK, NEW b \in CrashedBody
    PROVE  b \in [PageID -> Word]
<1>1. Redo(wal, body) \in [PageID -> Word]
  BY RedoType DEF TypeOK
<1>2. Overlay(op.buf, body) \in [PageID -> Word]
  BY OverlayType DEF TypeOK, Locals
<1>3. ASSUME NEW new \in [PageID -> Word], b \in Torn(body, new)
      PROVE  b \in [PageID -> Word]
  BY <1>3 DEF TypeOK, Torn, Word, Corrupt
<1> QED
  BY <1>1, <1>2, <1>3 DEF CrashedBody, TypeOK, Word, Corrupt

\* The constant records have the types of the variables they initialise.
LEMMA ConstantTypes ==
    /\ NoBuffer \in Buffer /\ NoMem \in Mem /\ NoHeader \in Header
    /\ NoOp \in Locals /\ NoTx \in Transaction
    /\ Garbage \in Record /\ Partial \in Record
<1>1. NoBuffer \in Buffer /\ NoMem \in Mem /\ NoHeader \in Header
  BY PagerAssumption DEF NoBuffer, Buffer, NoMem, Mem, NoHeader, Header
<1> QED
  BY <1>1 DEF NoOp, NoTx, Locals, Transaction, Kind, Garbage, Partial, Record, Word

\* What writeHeader encodes is a header, and what a method leaves in memory is
\* a free list.
LEMMA MemTypes ==
    ASSUME TypeOK, ShapeOK
    PROVE  /\ MemHeader \in Header /\ MemAfter \in Mem /\ OpWord \in Word
           /\ mem.count >= 2 => MemAfter.count >= 2 /\ MemHeader.count >= 2
<1> mem \in Mem /\ op \in Locals
  BY DEF TypeOK
<1>1. MemHeader \in Header /\ MemHeader.count = mem.count
  BY DEF MemHeader, Header, Mem
<1>2. OpWord \in Word
  BY DEF OpWord, Locals, Word
<1>3. MemAfter \in Mem /\ (mem.count >= 2 => MemAfter.count >= 2)
  <2>1. CASE op.kind = "extend"
    <3>1. MemAfter = [mem EXCEPT !.count = mem.count + 1]
      BY <2>1 DEF MemAfter
    <3> QED
      BY <3>1 DEF Mem
  <2>2. CASE op.kind = "reuse"
    <3>1. MemAfter = [mem EXCEPT !.set = mem.set \ {op.page}, !.head = op.word,
                                 !.free = IF mem.free > 0 THEN mem.free - 1 ELSE 0]
      BY <2>2 DEF MemAfter
    <3>2. mem.set \ {op.page} \in SUBSET PageID /\ op.word \in Nat
      BY DEF Mem, Locals
    <3>3. (IF mem.free > 0 THEN mem.free - 1 ELSE 0) \in Nat
      BY DEF Mem
    <3> QED
      BY <3>1, <3>2, <3>3, Zenon DEF Mem
  <2>3. CASE op.kind = "free"
    <3>1. MemAfter = [mem EXCEPT !.set = mem.set \cup {op.page}, !.head = op.page,
                                 !.free = mem.free + 1]
      BY <2>3 DEF MemAfter
    <3>2. op.page \in Nat /\ mem.set \cup {op.page} \in SUBSET PageID
      BY <2>3 DEF ShapeOK, Mem, Locals
    <3>3. mem.free + 1 \in Nat
      BY DEF Mem
    <3> QED
      BY <3>1, <3>2, <3>3, Zenon DEF Mem
  <2>4. CASE op.kind \notin {"extend", "reuse", "free"}
    BY <2>4 DEF MemAfter
  <2> QED
    BY <2>1, <2>2, <2>3, <2>4
<1> QED
  BY <1>1, <1>2, <1>3

\* What the log file holds, before and after an append, are records.
LEMMA LogTypes ==
    ASSUME TypeOK
    PROVE  /\ WalFile \in Seq(Record)
           /\ OpRecord \in Record
           /\ \A rec, s : s \in Residue(rec) => s \in Seq(Record)
           /\ \A w \in CrashedWal : w \in Seq(Record)
<1>1. WalFile \in Seq(Record)
  BY DEF TypeOK, WalFile
<1>2. OpRecord \in Record
  BY DEF TypeOK, OpRecord, Record, Locals, Transaction, Word
<1>3. ASSUME NEW rec, NEW s \in Residue(rec) PROVE s \in Seq(Record)
  <2>1. <<>> \in Seq(Record) /\ <<Garbage>> \in Seq(Record)
    BY ConstantTypes
  <2>2. tail # <<>> => Tail(tail) \in Seq(Record)
    BY DEF TypeOK
  <2> QED
    BY <1>3, <2>1, <2>2, Zenon DEF Residue
<1>4. \A w \in CrashedWal : w \in Seq(Record)
  <2>1. Append(wal, Garbage) \in Seq(Record)
    BY ConstantTypes DEF TypeOK
  <2> QED
    BY <1>1, <2>1, Zenon DEF TypeOK, CrashedWal
<1> QED
  BY <1>1, <1>2, <1>3, <1>4

\* The ends of a method: what every return and every error leaves in memory.
LEMMA ReturnTypes ==
    ASSUME TypeOK
    PROVE  /\ Shut \/ ReturnError => /\ pc' \in PC /\ op' \in Locals /\ mem' \in Mem
                                    /\ tx' \in Transaction /\ nextTxnID' \in Nat
           /\ Return => pc' \in PC /\ op' \in Locals
           /\ Fault => faults' \in 0..MaxFaults
           /\ Heal => primary' \in Header /\ faults' \in 0..MaxFaults
<1>1. Shut => /\ pc' \in PC /\ op' \in Locals /\ mem' \in Mem
              /\ tx' \in Transaction /\ nextTxnID' \in Nat
  BY ConstantTypes DEF Shut, PC
<1>2. ReturnError => /\ pc' \in PC /\ op' \in Locals /\ mem' \in Mem
                     /\ tx' \in Transaction /\ nextTxnID' \in Nat
  BY <1>1, ConstantTypes DEF ReturnError, TypeOK, PC, Locals
<1>3. Return => pc' \in PC /\ op' \in Locals
  BY ConstantTypes DEF Return, PC
<1>4. Fault => faults' \in 0..MaxFaults
  BY PagerAssumption DEF Fault, TypeOK
<1>5. Heal => primary' \in Header /\ faults' \in 0..MaxFaults
  BY <1>4 DEF Heal, OpenHeader, TypeOK
<1> QED
  BY <1>1, <1>2, <1>3, <1>4, <1>5

\* The initial state has the right types.
LEMMA InitTypeOK == Init => TypeOK
<1> HAVE Init
<1>1. body \in [PageID -> Word] /\ content \in [PageID -> Word]
  BY DEF Init, Word, Corrupt
<1>2. fresh \in BOOLEAN /\ created \in BOOLEAN
  BY Zenon DEF Init
<1>3. wal \in Seq(Record) /\ tail \in Seq(Record) /\ untruncated \in Seq(Record)
  BY DEF Init
<1>4. faults \in 0..MaxFaults /\ pc \in PC
  BY PagerAssumption DEF Init, PC
<1> QED
  BY <1>1, <1>2, <1>3, <1>4, ConstantTypes DEF Init, TypeOK

\* Every step preserves the types.
LEMMA StepTypeOK == TypeOK /\ ShapeOK /\ [Next]_vars => TypeOK'
<1> SUFFICES ASSUME TypeOK, ShapeOK, [Next]_vars PROVE TypeOK'
  OBVIOUS
<1> USE ConstantTypes
<1>1. CASE OpenFresh
  BY <1>1, PagerAssumption, Zenon DEF OpenFresh, TypeOK, disk, history, PC, Kind, Locals, Mem, NoOp
<1>2. CASE OpenNoHeader
  BY <1>2 DEF OpenNoHeader, TypeOK, disk, memory, history
<1>3. CASE OpenBadFreeList
  BY <1>3, ReturnTypes DEF OpenBadFreeList, TypeOK, memory
<1>4. CASE OpenExisting
  <2>1. mem' \in Mem
    BY <1>4 DEF OpenExisting, TypeOK, OpenHeader, Header, Mem
  <2>2. pc' \in PC /\ op' \in Locals
    BY <1>4, ReturnTypes DEF OpenExisting, NoOp, Locals, Kind, PC
  <2>3. created' \in BOOLEAN /\ rolledBack' \in SUBSET Nat
    BY <1>4 DEF OpenExisting, TypeOK
  <2> QED
    BY <1>4, <2>1, <2>2, <2>3, ReturnTypes DEF OpenExisting, TypeOK
<1>5. CASE Close
  BY <1>5 DEF Close, Op, TypeOK, disk, memory, history, PC, Kind, Locals
<1>6. CASE CloseFiles
  BY <1>6 DEF CloseFiles, Shut, WalFile, TypeOK, memory, history, PC
<1>7. CASE Replay
  BY <1>7, RedoType DEF Replay, ReturnError, Shut, TypeOK, memory, history, PC, Locals
<1>8. CASE Truncate
  BY <1>8 DEF Truncate, Return, TypeOK, memory, PC
<1>9. CASE \E p \in PageID, v \in DirectValues : WritePage(p, v)
  BY <1>9, PagerAssumption DEF WritePage, Op, TypeOK, disk, memory, history, PC, Kind, Locals, PageID
<1>10. CASE \E p \in PageID, v \in Values : TxWritePage(p, v)
  BY <1>10, PagerAssumption DEF TxWritePage, Op, TypeOK, disk, memory, history, PC, Kind, Locals, PageID
<1>11. CASE AllocatePage
  <2>1. op' \in Locals
    <3>1. ASSUME mem.head \in PageID, body[mem.head] # Corrupt,
                 op' = Op("reuse", mem.head, body[mem.head])
          PROVE  op' \in Locals
      BY <3>1, Zenon DEF Op, TypeOK, Locals, Kind, Mem, Word
    <3>2. ASSUME op' = Op("extend", mem.count, 0) PROVE op' \in Locals
      BY <3>2 DEF Op, TypeOK, Locals, Kind, Mem
    <3> QED
      BY <1>11, <3>1, <3>2 DEF AllocatePage
  <2> QED
    BY <1>11, <2>1 DEF AllocatePage, TypeOK, disk, memory, history, PC
<1>12. CASE \E p \in FreeArgs : FreePage(p)
  <2>1. PICK p \in FreeArgs : FreePage(p)
    BY <1>12
  <2>2. op' \in Locals
    BY <2>1, PagerAssumption DEF FreePage, Op, TypeOK, Locals, Kind, Mem
  <2>3. content' \in [PageID -> Word] /\ live' \in SUBSET PageID
    BY <2>1, Zenon DEF FreePage, TypeOK, Word, Corrupt
  <2> QED
    BY <2>1, <2>2, <2>3 DEF FreePage, TypeOK, disk, memory, PC
<1>13. CASE WriteBody
  <2>1. body' \in [PageID -> Word] /\ mirror' \in Header /\ mem' \in Mem
    BY <1>13, MemTypes, Zenon DEF WriteBody, TypeOK
  <2>2. pc' \in PC /\ op' \in Locals
    BY <1>13, ReturnTypes DEF WriteBody, TypeOK, PC
  <2>3. content' \in [PageID -> Word]
    BY <1>13 DEF WriteBody, TypeOK, Locals, Word
  <2> QED
    BY <1>13, <2>1, <2>2, <2>3 DEF WriteBody, TypeOK
<1>14. CASE WriteMirror
  BY <1>14, Zenon DEF WriteMirror, TypeOK, PC, MemHeader, Mem, Header, Word, memory, history
<1>15. CASE WritePrimary
  <2>1. live' \in SUBSET PageID /\ content' \in [PageID -> Word]
    <3>1. op.kind \in {"extend", "reuse"} => op.page \in PageID
      BY DEF ShapeOK
    <3>2. live \cup {op.page} \subseteq PageID \/ op.kind \notin {"extend", "reuse"}
      BY <3>1 DEF TypeOK
    <3>3. [content EXCEPT ![op.page] = 0] \in [PageID -> Word]
      BY Zenon DEF TypeOK, Word
    <3> QED
      BY <1>15, <3>2, <3>3, Zenon DEF WritePrimary, TypeOK
  <2> QED
    BY <1>15, <2>1, MemTypes, ReturnTypes DEF WritePrimary, TypeOK, memory
<1>16. CASE BeginTx
  BY <1>16 DEF BeginTx, TypeOK, Transaction, disk, history
<1>17. CASE CommitTx
  BY <1>17, PagerAssumption DEF CommitTx, TypeOK, Op, Locals, PC, Kind, EOT, disk, memory, history
<1>18. CASE RollbackTx
  BY <1>18, Zenon DEF RollbackTx, TypeOK, Transaction, disk
<1>19. CASE AppendWAL
  <2>1. wal' \in Seq(Record) /\ tail' \in Seq(Record) /\ untruncated' \in Seq(Record)
    BY <1>19, LogTypes DEF AppendWAL, TypeOK
  <2>2. tx' \in Transaction
    <3>1. [tx.buf EXCEPT ![op.page] = op.word] \in Buffer
      BY Zenon DEF TypeOK, Transaction, Buffer, Locals
    <3>2. [tx EXCEPT !.buf[op.page] = op.word] \in Transaction
      BY <3>1, Zenon DEF TypeOK, Transaction
    <3> QED
      BY <1>19, <3>2 DEF AppendWAL
  <2>3. pc' \in PC /\ op' \in Locals
    BY <1>19, ReturnTypes, Zenon DEF AppendWAL, TypeOK, Transaction, Locals, PC
  <2>4. content' \in [PageID -> Word]
    BY <1>19, OverlayType DEF AppendWAL, TypeOK, Transaction
  <2> QED
    BY <1>19, <2>1, <2>2, <2>3, <2>4 DEF AppendWAL, TypeOK
<1>20. CASE ApplyBuffer
  <2>1. body' \in [PageID -> Word]
    BY <1>20, OverlayType, Zenon DEF ApplyBuffer, TypeOK, Locals
  <2>2. pc' \in PC /\ op' \in Locals
    BY <1>20, ReturnTypes DEF ApplyBuffer, TypeOK, PC
  <2> QED
    BY <1>20, <2>1, <2>2 DEF ApplyBuffer, TypeOK, memory, history
<1>21. CASE Crash
  <2>1. body' \in [PageID -> Word]
    BY <1>21, CrashedBodyType DEF Crash
  <2>2. content' \in [PageID -> Word]
    BY <1>21, <2>1, OverlayType, Zenon DEF Crash, TypeOK, Transaction
  <2>3. primary' \in Header /\ mirror' \in Header
    BY <1>21 DEF Crash, TypeOK
  <2>4. fresh' \in BOOLEAN
    BY <1>21 DEF Crash, TypeOK
  <2>5. wal' \in Seq(Record) /\ tail' \in Seq(Record) /\ untruncated' \in Seq(Record)
    BY <1>21, LogTypes DEF Crash
  <2> QED
    BY <1>21, <2>1, <2>2, <2>3, <2>4, <2>5, ReturnTypes DEF Crash, TypeOK
<1>22. CASE Fail
  <2>1. CASE FailBody
    <3>1. body' \in [PageID -> Word] /\ content' \in [PageID -> Word]
      <4>1. PICK w \in {body[op.page], Corrupt, OpWord} :
               /\ body' = [body EXCEPT ![op.page] = w]
               /\ content' = IF op.kind = "write" THEN [content EXCEPT ![op.page] = w]
                             ELSE content
        BY <2>1, Zenon DEF FailBody
      <4>2. op.page \in PageID => w \in Word
        BY MemTypes DEF TypeOK, Word
      <4> QED
        BY <4>1, <4>2, Zenon DEF TypeOK
    <3> QED
      BY <2>1, <3>1, ReturnTypes DEF FailBody, TypeOK
  <2>2. CASE FailMirror
    BY <2>2, MemTypes, ReturnTypes, Zenon DEF FailMirror, TypeOK
  <2>3. CASE FailPrimary
    BY <2>3, MemTypes, ReturnTypes DEF FailPrimary, TypeOK
  <2>4. CASE FailAppend
    <3>1. tail' \in Seq(Record)
      <4>1. <<Partial>> \in Seq(Record) /\ <<Garbage>> \in Seq(Record)
        OBVIOUS
      <4>2. \A r \in Residue(OpRecord) : <<OpRecord>> \o r \in Seq(Record)
        BY LogTypes
      <4> QED
        BY <2>4, <4>1, <4>2, Zenon DEF FailAppend, TypeOK
    <3> QED
      BY <2>4, <3>1, ReturnTypes DEF FailAppend, TypeOK
  <2>5. CASE FailMainWrites
    BY <2>5, CrashedBodyType, ReturnTypes DEF FailMainWrites, TypeOK
  <2>6. CASE FailFinish
    BY <2>6, ReturnTypes DEF FailFinish, TypeOK, disk
  <2> QED
    BY <1>22, <2>1, <2>2, <2>3, <2>4, <2>5, <2>6 DEF Fail
<1>23. CASE UNCHANGED vars
  BY <1>23 DEF vars, TypeOK, disk, memory, history
<1> QED
  BY <1>1, <1>2, <1>3, <1>4, <1>5, <1>6, <1>7, <1>8, <1>9, <1>10, <1>11, <1>12, <1>13,
     <1>14, <1>15, <1>16, <1>17, <1>18, <1>19, <1>20, <1>21, <1>22, <1>23 DEF Next

\* A failed I/O call counts as a fault and ends the method.
LEMMA FailReturns ==
    ASSUME Fail
    PROVE  Fault /\ ReturnError /\ created' = created /\ pc # "down" /\ (fresh' => fresh)
  BY DEF Fail, FailBody, FailMirror, FailPrimary, FailAppend, FailMainWrites, FailFinish, disk

\* A method that ends with an error ends.
LEMMA ErrorReturns ==
    ASSUME ReturnError
    PROVE  op' = NoOp /\ pc' \in {"down", "idle", "failed"}
  BY DEF ReturnError, Shut

\* The initial state has the right shape, and every step keeps it.
LEMMA InitShapeOK == Init => ShapeOK
  BY DEF Init, ShapeOK, NoOp

LEMMA StepShapeOK == TypeOK /\ ShapeOK /\ [Next]_vars => ShapeOK'
<1> SUFFICES ASSUME TypeOK, ShapeOK, [Next]_vars PROVE ShapeOK'
  OBVIOUS
<1> op \in Locals /\ mem \in Mem
  BY DEF TypeOK
<1>1. CASE OpenFresh
  BY <1>1 DEF OpenFresh, ShapeOK, disk, NoOp
<1>2. CASE OpenNoHeader \/ OpenBadFreeList
  BY <1>2 DEF OpenNoHeader, OpenBadFreeList, Heal, OpenHeader, ShapeOK, disk, memory
<1>3. CASE OpenExisting
  <2>1. OpenHeader # NoHeader /\ OpenHeader.count >= 2
    BY <1>3 DEF OpenExisting, OpenHeader, ShapeOK
  <2>2. mem'.count >= 2
    BY <1>3, <2>1 DEF OpenExisting
  <2>3. op'.kind \in {"none", "open"} /\ (op'.kind = "none" <=> pc' \in {"down", "idle", "failed"})
    BY <1>3 DEF OpenExisting, Return, NoOp
  <2>4. primary' \in {primary, OpenHeader} /\ mirror' = mirror
    BY <1>3 DEF OpenExisting, Heal
  <2> QED
    BY <2>1, <2>2, <2>3, <2>4 DEF ShapeOK
<1>4. CASE Close
  BY <1>4, Zenon DEF Close, Op, ShapeOK, disk, memory
<1>5. CASE CloseFiles
  BY <1>5, Zenon DEF CloseFiles, Shut, ShapeOK, NoOp
<1>6. CASE Replay
  BY <1>6, SMTT(30) DEF Replay, ReturnError, Shut, ShapeOK, NoOp, memory
<1>7. CASE Truncate
  BY <1>7 DEF Truncate, Return, ShapeOK, NoOp, memory
<1>8. CASE \E p \in PageID, v \in DirectValues : WritePage(p, v)
  <2>1. PICK p \in PageID, v \in DirectValues : WritePage(p, v)
    BY <1>8
  <2>2. /\ op'.kind = "write" /\ op'.page \in PageID /\ op'.old = mem
        /\ pc = "idle" /\ pc' = "body" /\ UNCHANGED <<primary, mirror, mem>>
    BY <2>1 DEF WritePage, Op, disk, memory
  <2> QED
    BY <2>2, Zenon DEF ShapeOK
<1>9. CASE \E p \in PageID, v \in Values : TxWritePage(p, v)
  <2>1. PICK p \in PageID, v \in Values : TxWritePage(p, v)
    BY <1>9
  <2>2. /\ op'.kind = "txwrite" /\ op'.page \in PageID /\ op'.old = mem
        /\ pc = "idle" /\ pc' = "append" /\ UNCHANGED <<primary, mirror, mem>>
    BY <2>1 DEF TxWritePage, Op, disk, memory
  <2> QED
    BY <2>2, Zenon DEF ShapeOK
<1>10. CASE AllocatePage
  BY <1>10, PagerAssumption, SMTT(30) DEF AllocatePage, Op, ShapeOK, disk, memory, Mem, PageID
<1>11. CASE \E p \in FreeArgs : FreePage(p)
  BY <1>11, PagerAssumption, SMTT(30) DEF FreePage, Op, ShapeOK, disk, memory, PageID
<1>12. CASE WriteBody
  BY <1>12, MemTypes, SMTT(30) DEF WriteBody, Return, ShapeOK, NoOp
<1>13. CASE WriteMirror
  BY <1>13, MemTypes, Zenon DEF WriteMirror, ShapeOK, memory
<1>14. CASE WritePrimary
  BY <1>14, MemTypes, Zenon DEF WritePrimary, Return, ShapeOK, memory, NoOp
<1>15. CASE BeginTx \/ RollbackTx
  BY <1>15, Zenon DEF BeginTx, RollbackTx, ShapeOK, disk
<1>16. CASE CommitTx
  BY <1>16, Zenon DEF CommitTx, Op, ShapeOK, disk, memory
<1>17. CASE AppendWAL
  BY <1>17 DEF AppendWAL, Return, ShapeOK, NoOp, Locals
<1>18. CASE ApplyBuffer
  BY <1>18, SMTT(30) DEF ApplyBuffer, Return, ShapeOK, NoOp, memory
<1>19. CASE Crash
  <2>1. /\ pc' = "down" /\ op' = NoOp
        /\ primary' \in {primary, NoHeader} /\ mirror' \in {mirror, NoHeader}
    BY <1>19, Zenon DEF Crash, Shut
  <2> QED
    BY <2>1, Zenon DEF ShapeOK, NoOp
<1>20. CASE Fail
  <2>1. ReturnError /\ pc # "down" /\ op' = NoOp /\ pc' \in {"down", "idle", "failed"}
    BY <1>20, FailReturns, ErrorReturns
  <2>2. pc \notin {"idle", "failed"}
    BY <1>20 DEF Fail, FailBody, FailMirror, FailPrimary, FailAppend, FailMainWrites, FailFinish
  <2>3. pc' # "down" => mem'.count >= 2
    BY <2>1, <2>2 DEF ReturnError, Shut, ShapeOK
  <2>4. primary' \in {primary, NoHeader, MemHeader} /\ mirror' \in {mirror, NoHeader, MemHeader}
    BY <1>20, Zenon DEF Fail, FailBody, FailMirror, FailPrimary, FailAppend, FailMainWrites,
       FailFinish, disk
  <2> QED
    BY <2>1, <2>3, <2>4, MemTypes, Zenon DEF ShapeOK, NoOp
<1>21. CASE UNCHANGED vars
  BY <1>21, Zenon DEF vars, ShapeOK, disk, memory
<1> QED
  BY <1>1, <1>2, <1>3, <1>4, <1>5, <1>6, <1>7, <1>8, <1>9, <1>10, <1>11, <1>12, <1>13,
     <1>14, <1>15, <1>16, <1>17, <1>18, <1>19, <1>20, <1>21 DEF Next

\* The variables of the pager keep their types under every interleaving of
\* calls, crashes and I/O errors.
THEOREM TypeCorrect == Spec => [](TypeOK /\ ShapeOK)
<1>1. Init => TypeOK /\ ShapeOK
  BY InitTypeOK, InitShapeOK
<1>2. TypeOK /\ ShapeOK /\ [Next]_vars => (TypeOK /\ ShapeOK)'
  BY StepTypeOK, StepShapeOK
<1> QED
  BY <1>1, <1>2, PTL DEF Spec

-----------------------------------------------------------------------------
(* The mirrored header. *)

\* Why one header always survives: page 0 is valid except while it is being
\* rewritten, and then page 1 is valid.
HeaderInv ==
    /\ created => ~fresh
    /\ pc = "primary" => ~fresh
    /\ faults = 0 /\ pc = "primary" => mirror # NoHeader
    /\ faults = 0 /\ created /\ pc \notin {"down", "primary"} => primary # NoHeader
    /\ faults = 0 /\ created => primary # NoHeader \/ mirror # NoHeader

\* No step makes a fault undone.
LEMMA FaultsGrow == TypeOK /\ [Next]_vars /\ faults' = 0 => faults = 0
<1> SUFFICES ASSUME TypeOK, [Next]_vars, faults' = 0 PROVE faults = 0
  OBVIOUS
<1>1. faults \in Nat
  BY PagerAssumption DEF TypeOK
<1>2. CASE Fail \/ OpenExisting \/ OpenBadFreeList
  BY <1>1, <1>2 DEF Fail, FailBody, FailMirror, FailPrimary, FailAppend, FailMainWrites,
     FailFinish, OpenExisting, OpenBadFreeList, Heal, Fault
<1>3. CASE UNCHANGED faults
  BY <1>3
<1>4. Fail \/ OpenExisting \/ OpenBadFreeList \/ UNCHANGED faults
  BY Zenon DEF Next, vars, history, OpenFresh, OpenNoHeader, Close, CloseFiles, Replay, Truncate,
     WritePage, TxWritePage, AllocatePage, FreePage, WriteBody, WriteMirror, WritePrimary,
     BeginTx, CommitTx, RollbackTx, AppendWAL, ApplyBuffer, Crash
<1> QED
  BY <1>2, <1>3, <1>4

\* Every step keeps one header.
LEMMA StepHeaderInv == TypeOK /\ ShapeOK /\ HeaderInv /\ [Next]_vars => HeaderInv'
<1> SUFFICES ASSUME TypeOK, ShapeOK, HeaderInv, [Next]_vars PROVE HeaderInv'
  OBVIOUS
<1> USE FaultsGrow DEF HeaderInv
<1>0. pc # "down" => MemHeader # NoHeader
  BY MemTypes DEF ShapeOK, NoHeader
<1>1. CASE OpenFresh
  BY <1>1 DEF OpenFresh, disk, history
<1>2. CASE OpenNoHeader \/ OpenBadFreeList
  BY <1>2 DEF OpenNoHeader, OpenBadFreeList, OpenHeader, Heal, Fault, TypeOK, disk, history
<1>3. CASE OpenExisting
  <2>1. faults' = 0 => primary' # NoHeader
    BY <1>3 DEF OpenExisting, Heal, Fault, TypeOK
  <2>2. pc' # "primary" /\ ~fresh'
    BY <1>3 DEF OpenExisting, Return
  <2> QED
    BY <2>1, <2>2
<1>4. CASE Close \/ CloseFiles \/ Replay \/ Truncate
  BY <1>4 DEF Close, CloseFiles, Replay, Truncate, Shut, Return, ReturnError, disk, history
<1>5. CASE \E p \in PageID, v \in DirectValues : WritePage(p, v)
  BY <1>5 DEF WritePage, disk, history
<1>6. CASE \E p \in PageID, v \in Values : TxWritePage(p, v)
  BY <1>6 DEF TxWritePage, disk, history
<1>7. CASE AllocatePage
  BY <1>7 DEF AllocatePage, disk, history
<1>8. CASE \E p \in FreeArgs : FreePage(p)
  BY <1>8, SMTT(30) DEF FreePage, disk
<1>9. CASE WriteBody
  BY <1>9 DEF WriteBody, Return
<1>10. CASE WriteMirror
  BY <1>10, <1>0 DEF WriteMirror, history
<1>11. CASE WritePrimary
  BY <1>11, <1>0 DEF WritePrimary, Return
<1>12. CASE BeginTx \/ CommitTx \/ RollbackTx \/ AppendWAL \/ ApplyBuffer
  BY <1>12 DEF BeginTx, CommitTx, RollbackTx, AppendWAL, ApplyBuffer, Return, disk, history
<1>13. CASE Crash
  BY <1>13, Zenon DEF Crash, Shut
<1>14. CASE Fail
  <2>1. Fault /\ pc' \in {"down", "idle", "failed"} /\ created' = created /\ (fresh' => fresh)
    BY <1>14, FailReturns, ErrorReturns
  <2>2. faults' # 0
    BY <2>1, PagerAssumption DEF Fault, TypeOK
  <2> QED
    BY <2>1, <2>2
<1>15. CASE UNCHANGED vars
  BY <1>15, Zenon DEF vars, disk, history
<1> QED
  BY <1>1, <1>2, <1>3, <1>4, <1>5, <1>6, <1>7, <1>8, <1>9, <1>10, <1>11, <1>12, <1>13,
     <1>14, <1>15, Zenon DEF Next

\* Header redundancy for files of any size, any callers and any number of
\* crashes, power loss included: as long as no I/O call reports an error, a file
\* that was once opened never has both its headers invalid.
THEOREM HeaderAlwaysRecoverable == Spec => []HeaderRecoverable
<1>1. Init => HeaderInv
  BY DEF Init, HeaderInv
<1>2. TypeOK /\ ShapeOK /\ HeaderInv /\ [Next]_vars => HeaderInv'
  BY StepHeaderInv
<1>3. HeaderInv => HeaderRecoverable
  BY DEF HeaderInv, HeaderRecoverable
<1> QED
  BY <1>1, <1>2, <1>3, TypeCorrect, PTL DEF Spec
=============================================================================
