------------------------------- MODULE BTree -------------------------------
(***************************************************************************)
(* The B+ tree of internal/engine/sql/kv over a pager.                     *)
(*                                                                         *)
(* s.mu serialises Open, Set, Delete and Compact.  What can fall between   *)
(* two steps of such a call is a crash or an error of the pager: pages are *)
(* allocated (durably) before the transaction that writes them, Compact    *)
(* writes its pages outside any transaction and frees the old ones after   *)
(* its commit.  One CommitTx is one step here: the pager makes it atomic.  *)
(*                                                                         *)
(* Keys are numbers in the order of key.Compare.  A value is a name with   *)
(* the number of overflow pages it needs; fan-outs are parameters.         *)
(***************************************************************************)
EXTENDS Integers, FiniteSets, SequencesExt

CONSTANTS
    Keys,             \* the keys in use
    Values,           \* the values in use
    Chunks,           \* overflow pages of a value: 0 up to MaxValSize bytes
    Padded,           \* values whose last overflow page is not full
    MaxLeafKeys,
    MaxInternalKeys,
    MaxPages,         \* bound: pages of the file
    MaxHeight,        \* bound: internal nodes above a leaf
    MaxMishaps,       \* bound: crashes and pager errors
    MaxCompacts,      \* bound: calls of Compact
    AllocErrors,      \* AllocatePage may fail inside prepareOverflow
    CommitErrors,     \* CommitTx may fail
    IgnoreErrors      \* callers go on after a failed CommitTx, and do not restart

ASSUME BTreeAssumption ==
    /\ Keys \subseteq Nat \ {0} /\ IsFiniteSet(Keys)
    /\ Chunks \in [Values -> Nat] /\ Padded \subseteq Values
    /\ MaxLeafKeys \in Nat \ {0} /\ MaxInternalKeys \in Nat \ {0, 1}
    /\ MaxPages \in Nat /\ MaxPages > 3 /\ MaxHeight \in Nat /\ MaxMishaps \in Nat
    /\ MaxCompacts \in Nat /\ {AllocErrors, CommitErrors, IgnoreErrors} \subseteq BOOLEAN

None == 0                        \* rootSentinel; also "no bound" of Scan
MetaPageID == 2
PageID == MetaPageID..(MaxPages - 1)

Absent == "ErrKeyNotFound"
Error == "ErrTreeCorrupt"
Nil == "nil"                     \* the empty value
Mangled == "mangled"             \* bytes that no caller ever stored

\* A page body, by its first byte.  Blank is any body no decoder accepts.
Blank == [type |-> "blank"]
Meta(r) == [type |-> "meta", root |-> r]
Leaf(s, n) == [type |-> "leaf", slots |-> s, next |-> n]
Internal(p, s) == [type |-> "internal", ptrs |-> p, keys |-> s]
Overflow(n, v, i) == [type |-> "overflow", next |-> n, val |-> v, nth |-> i]
Slot(k, v, o) == [key |-> k, val |-> v, over |-> o]

VARIABLES
    pages,   \* committed page bodies
    free,    \* the pager's free list, head first
    count,   \* the pager's page count
    buffer,  \* pages of a transaction that is still open, if any
    state,   \* "down", "open", or "refused" when Open returned an error
    root,    \* s.rootPageID
    op,      \* the call in progress
    mishaps, \* history: crashes and pager errors so far
    compacts \* history: calls of Compact so far

pager == <<pages, free, count, buffer>>
vars == <<pager, state, root, op, mishaps, compacts>>

NoBuffer == [p \in {} |-> Blank]
NoOp == [kind |-> "none", stage |-> "none", key |-> 0, val |-> Nil, lost |-> FALSE,
         entries |-> <<>>, plan |-> <<>>, ids |-> <<>>, todo |-> <<>>]

Init ==
    /\ pages = [p \in PageID |-> Blank]
    /\ free = <<>> /\ count = MetaPageID /\ buffer = NoBuffer
    /\ state = "down" /\ root = None /\ op = NoOp /\ mishaps = 0 /\ compacts = 0

\* Something goes wrong.
Mishap == mishaps < MaxMishaps /\ mishaps' = mishaps + 1

\* ReadPage sees the writes of the open transaction.
Over(new, old) == [p \in PageID |-> IF p \in DOMAIN new THEN new[p] ELSE old[p]]
view == IF buffer = NoBuffer THEN pages ELSE Over(buffer, pages)
-----------------------------------------------------------------------------
(* Reading. *)

\* upperBound: the first separator greater than k, else the last child.
UpperBound(node, k) ==
    LET above == {i \in DOMAIN node.keys : k < node.keys[i]}
    IN IF above = {} THEN Len(node.ptrs) ELSE Min(above)

\* The walk from page r to the leaf for k, with the internal nodes passed.  The
\* unbounded start of Scan goes leftmost.
Descend(pgs, r, k) ==
    LET walk[n \in 0..MaxHeight] ==
          IF n = 0 THEN [page |-> r, path |-> <<>>]
          ELSE LET at == walk[n - 1] node == pgs[at.page]
                   i == IF k = None THEN 1 ELSE UpperBound(node, k)
               IN IF node.type = "internal"
                  THEN [page |-> node.ptrs[i],
                        path |-> Append(at.path, [page |-> at.page, idx |-> i])]
                  ELSE at
    IN walk[MaxHeight]

\* The overflow pages from p on; the chain stops at a page that is not one.
Chain(pgs, p) ==
    LET from[q \in PageID \cup {None}] ==
          IF q = None \/ pgs[q].type # "overflow" THEN <<>> ELSE <<q>> \o from[pgs[q].next]
    IN from[p]

\* readOverflowValue, and the inline case of search and scanLeaf.
ReadValue(pgs, slot) ==
    LET chain == Chain(pgs, slot.over)
        chunk(i) == pgs[chain[i]]
    IN IF slot.over = None THEN slot.val
       ELSE IF chain = <<>> \/ chunk(Len(chain)).next # None \/ Len(chain) < Chunks[slot.val]
       THEN Error
       ELSE IF \A i \in 1..Chunks[slot.val] : chunk(i).val = slot.val /\ chunk(i).nth = i
       THEN slot.val ELSE Mangled

\* search.
Get(pgs, r, k) ==
    LET leaf == pgs[Descend(pgs, r, k).page]
        at == {i \in DOMAIN leaf.slots : leaf.slots[i].key = k}
    IN IF r = None THEN Absent
       ELSE IF leaf.type # "leaf" THEN Error
       ELSE IF at = {} THEN Absent ELSE ReadValue(pgs, leaf.slots[Min(at)])

\* The leaves that scanLeaf reads, starting with page p.
LeafChain(pgs, p) ==
    LET from[n \in 0..MaxPages] ==
          IF n = 0 THEN <<p>>
          ELSE LET c == from[n - 1] next == pgs[Last(c)].next
               IN IF next = None THEN c ELSE Append(c, next)
    IN from[MaxPages]

\* nil and the error.
ScanFailed == <<<<None, Error>>>>

\* Scan of start <= key < end.  A value that cannot be read fails the whole scan.
Scan(pgs, r, start, end) ==
    LET chain == LeafChain(pgs, Descend(pgs, r, start).page)
        slots == FlattenSeq([i \in DOMAIN chain |-> pgs[chain[i]].slots])
        past == {i \in DOMAIN slots : end # None /\ slots[i].key >= end}
        upto == IF past = {} THEN slots ELSE SubSeq(slots, 1, Min(past) - 1)
        hits == SelectSeq(upto, LAMBDA s : s.key >= start)
        found == [i \in DOMAIN hits |-> <<hits[i].key, ReadValue(pgs, hits[i])>>]
    IN IF r = None THEN <<>>
       ELSE IF \E i \in DOMAIN found : found[i][2] = Error THEN ScanFailed ELSE found
-----------------------------------------------------------------------------
(* The pager, as the tree uses it. *)

\* AllocatePage: the head of the free list, or a new page; its body is zeroed.
Allocate ==
    /\ buffer = NoBuffer
    /\ \/ /\ free # <<>> /\ free' = Tail(free) /\ UNCHANGED count
          /\ op' = [op EXCEPT !.ids = Append(@, Head(free))]
       \/ /\ free = <<>> /\ count < MaxPages /\ count' = count + 1 /\ UNCHANGED free
          /\ op' = [op EXCEPT !.ids = Append(@, count)]
    /\ pages' = [pages EXCEPT ![Last(op'.ids)] = Blank]
    /\ UNCHANGED <<buffer, state, root, mishaps, compacts>>

\* BeginTx .. CommitTx with the given writes; r is the new rootPageID.  encodeLeafNode and
\* encodeInternalNode refuse keys that do not ascend: CheckAccepts finds no such node.
Commit(writes, r) ==
    /\ buffer = NoBuffer
    /\ pages' = Over(writes, pages)
    /\ root' = r
    /\ UNCHANGED <<free, count, buffer, state, mishaps, compacts>>

\* CommitTx returns an error and no caller rolls back.  Before the EOT marker is
\* durable the transaction stays open; after it the writes are in place.
CommitFails(writes, call) ==
    /\ CommitErrors /\ Mishap /\ buffer = NoBuffer
    /\ \/ /\ buffer' = writes /\ UNCHANGED pages
          /\ op' = [call EXCEPT !.stage = "failed"]
       \/ /\ pages' = Over(writes, pages) /\ UNCHANGED buffer
          /\ op' = [NoOp EXCEPT !.stage = "failed"]
    /\ UNCHANGED <<free, count, state, root, compacts>>
-----------------------------------------------------------------------------
(* Open and Close. *)

\* Open of a fresh pager allocates the meta page ...
OpenFresh ==
    /\ state = "down" /\ op = NoOp /\ count = MetaPageID
    /\ count' = count + 1
    /\ op' = [NoOp EXCEPT !.kind = "open"]
    /\ UNCHANGED <<pages, free, buffer, state, root, mishaps, compacts>>

\* ... and commits an empty root.
OpenCommit ==
    /\ op.kind = "open"
    /\ pages' = [pages EXCEPT ![MetaPageID] = Meta(None)]
    /\ state' = "open" /\ root' = None /\ op' = NoOp
    /\ UNCHANGED <<free, count, buffer, mishaps, compacts>>

\* Open of an existing pager reads the meta page.
OpenExisting ==
    /\ state \in {"down", "refused"} /\ op = NoOp /\ count # MetaPageID
    /\ IF pages[MetaPageID].type = "meta"
       THEN state' = "open" /\ root' = pages[MetaPageID].root
       ELSE state' = "refused" /\ UNCHANGED root
    /\ UNCHANGED <<pager, op, mishaps, compacts>>

Close ==
    /\ state = "open" /\ (op = NoOp \/ op.stage = "failed")
    /\ state' = "down" /\ root' = None /\ op' = NoOp
    /\ pages' \in {pages, view} /\ buffer' = NoBuffer
    /\ UNCHANGED <<free, count, mishaps, compacts>>

\* A transaction left open is there or not after the crash: its EOT marker may
\* have reached the disk.
Crash ==
    /\ Mishap
    /\ state' = "down" /\ root' = None /\ op' = NoOp
    /\ pages' \in {pages, view} /\ buffer' = NoBuffer
    /\ UNCHANGED <<free, count, compacts>>

Idle == state = "open" /\ (op = NoOp \/ (IgnoreErrors /\ op.stage = "failed"))
-----------------------------------------------------------------------------
(* Set and Delete. *)

\* decodeLeafNode followed by encodeLeafNode: an overflow reference comes back as
\* 512 bytes, which are stored as an inline value.
Recode(slots) ==
    [i \in DOMAIN slots |-> IF slots[i].over = None THEN slots[i]
                            ELSE Slot(slots[i].key, Mangled, None)]

\* The leaf slots with s inserted, or in place of the slot of the same key.
Place(slots, s) ==
    LET old == Recode(slots)
        below == {i \in DOMAIN old : old[i].key < s.key}
        at == Cardinality(below) + 1
    IN IF at \in DOMAIN old /\ old[at].key = s.key THEN ReplaceAt(old, at, s)
       ELSE InsertAt(old, at, s)

\* The separator sep and the page right enter node after child i.
Widen(node, i, right, sep) ==
    Internal(InsertAt(node.ptrs, i + 1, right), InsertAt(node.keys, i, sep))

\* insertIntoParent, insertIntoInternal and splitInternal: the writes that take
\* the split of "left" into "left" and "right" up the path, and the new root (None
\* if the root stays).  The n-th node created is on page ids[n].
Climb(pgs, path, left, right, sep, ids) ==
    LET go[n \in 0..(Len(path) + 1)] ==
          IF n = 0 THEN [left |-> left, right |-> right, sep |-> sep,
                         writes |-> NoBuffer, root |-> None, done |-> FALSE]
          ELSE LET c == go[n - 1]
                   level == Len(path) + 1 - n
                   step == path[level]
                   wide == Widen(pgs[step.page], step.idx, c.right, c.sep)
                   mid == (Len(wide.keys) \div 2) + 1
               IN IF c.done THEN c
                  ELSE IF level = 0
                  THEN [c EXCEPT !.done = TRUE, !.root = ids[n],
                          !.writes = (ids[n] :> Internal(<<c.left, c.right>>, <<c.sep>>))
                                     @@ (MetaPageID :> Meta(ids[n])) @@ @]
                  ELSE IF Len(wide.keys) <= MaxInternalKeys
                  THEN [c EXCEPT !.done = TRUE, !.writes = (step.page :> wide) @@ @]
                  ELSE [c EXCEPT !.left = step.page, !.right = ids[n], !.sep = wide.keys[mid],
                          !.writes =
                            (step.page :> Internal(SubSeq(wide.ptrs, 1, mid),
                                                   SubSeq(wide.keys, 1, mid - 1)))
                            @@ (ids[n] :> Internal(SubSeq(wide.ptrs, mid + 1, Len(wide.ptrs)),
                                                   SubSeq(wide.keys, mid + 1, Len(wide.keys))))
                            @@ @]
    IN go[Len(path) + 1]

\* prepareOverflow returns no value at all when it could not get its pages.
OverflowPages == IF op.lost THEN 0 ELSE Chunks[op.val]
Packed == IF op.lost THEN Slot(op.key, Nil, None)
          ELSE Slot(op.key, op.val, IF OverflowPages = 0 THEN None ELSE op.ids[1])

\* writeOverflowChain.
OverflowWrites ==
    LET n == OverflowPages
        nth(p) == CHOOSE i \in 1..n : op.ids[i] = p
    IN [p \in {op.ids[i] : i \in 1..n} |->
          Overflow(IF nth(p) = n THEN None ELSE op.ids[nth(p) + 1], op.val, nth(p))]

Target == Descend(view, root, op.key)
NewSlots == Place(view[Target.page].slots, Packed)
Splits == Len(Place(view[Target.page].slots, Slot(op.key, Nil, None))) > MaxLeafKeys

\* The pages a Set allocates before its transaction: the overflow chain, then the
\* first leaf (setInEmpty), or the new leaf and one page for each internal node
\* on the path and for a new root (splitLeaf).
SetNeeds ==
    OverflowPages + (IF root = None THEN 1
                     ELSE IF Splits THEN 2 + Len(Target.path) ELSE 0)

\* Mutants of SplitWrites: the left leaf keeps its old link; the separator is the
\* last key on the left.
SplitWritesUnlinked(ids) ==
    LET leaf == Target.page
        mid == Len(NewSlots) \div 2
        right == SubSeq(NewSlots, mid + 1, Len(NewSlots))
        up == Climb(view, Target.path, leaf, ids[1], right[1].key, Tail(ids))
    IN [writes |-> (leaf :> Leaf(SubSeq(NewSlots, 1, mid), view[leaf].next))
                   @@ (ids[1] :> Leaf(right, view[leaf].next)) @@ up.writes,
        root |-> IF up.root = None THEN root ELSE up.root]
SplitWritesLeftKey(ids) ==
    LET leaf == Target.page
        mid == Len(NewSlots) \div 2
        up == Climb(view, Target.path, leaf, ids[1], NewSlots[mid].key, Tail(ids))
    IN [writes |-> (leaf :> Leaf(SubSeq(NewSlots, 1, mid), ids[1]))
                   @@ (ids[1] :> Leaf(SubSeq(NewSlots, mid + 1, Len(NewSlots)),
                                      view[leaf].next)) @@ up.writes,
        root |-> IF up.root = None THEN root ELSE up.root]

\* splitLeaf: the left half stays, the right half and the separators are new.
SplitWrites(ids) ==
    LET leaf == Target.page
        mid == Len(NewSlots) \div 2
        right == SubSeq(NewSlots, mid + 1, Len(NewSlots))
        up == Climb(view, Target.path, leaf, ids[1], right[1].key, Tail(ids))
    IN [writes |-> (leaf :> Leaf(SubSeq(NewSlots, 1, mid), ids[1]))
                   @@ (ids[1] :> Leaf(right, view[leaf].next)) @@ up.writes,
        root |-> IF up.root = None THEN root ELSE up.root]

\* The transaction of setInEmpty, updateLeaf, insertIntoLeaf or splitLeaf.
SetWrites ==
    LET ids == SubSeq(op.ids, OverflowPages + 1, Len(op.ids))
        tree == IF root = None
                THEN [writes |-> (ids[1] :> Leaf(<<Packed>>, None))
                                 @@ (MetaPageID :> Meta(ids[1])),
                      root |-> ids[1]]
                ELSE IF Splits THEN SplitWrites(ids)
                ELSE [writes |-> (Target.page :> Leaf(NewSlots, view[Target.page].next)),
                      root |-> root]
    IN [tree EXCEPT !.writes = OverflowWrites @@ @]

Set(k, v) ==
    /\ Idle
    /\ op' = [NoOp EXCEPT !.kind = "set", !.key = k, !.val = v]
    /\ UNCHANGED <<pager, state, root, mishaps, compacts>>

SetAllocate == op.kind = "set" /\ op.stage = "none" /\ Len(op.ids) < SetNeeds /\ Allocate

\* A failed allocation of the first overflow page (of any of them when the tree is
\* empty) is not reported: Set goes on with an empty value.
SetLosesValue ==
    /\ AllocErrors /\ Mishap /\ op.kind = "set" /\ op.stage = "none" /\ Len(op.ids) < OverflowPages
    /\ op.ids = <<>> \/ root = None
    /\ op' = [op EXCEPT !.lost = TRUE, !.ids = <<>>]
    /\ UNCHANGED <<pager, state, root, compacts>>

SetCommit ==
    /\ op.kind = "set" /\ op.stage = "none" /\ Len(op.ids) = SetNeeds
    /\ LET tx == SetWrites
       IN (Commit(tx.writes, tx.root) /\ op' = NoOp) \/ CommitFails(tx.writes, op)

\* An error before the transaction commits (also when the file has reached its
\* bound, or an earlier transaction was never closed): the call returns, the pages it had allocated stay allocated.
GiveUp ==
    /\ op.kind \in {"set", "compact"} /\ op.stage = "none"
    /\ \/ Mishap
       \/ /\ (free = <<>> /\ count = MaxPages) \/ buffer # NoBuffer
          /\ UNCHANGED mishaps
    /\ op' = NoOp
    /\ UNCHANGED <<pager, state, root, compacts>>

\* Delete of a key that is there; otherwise it is a no-op.  No page is freed and no
\* separator changes.
Delete(k) ==
    /\ Idle /\ root # None
    /\ LET page == Descend(view, root, k).page
           leaf == view[page]
           kept == SelectSeq(leaf.slots, LAMBDA s : s.key # k)
           writes == (page :> Leaf(Recode(kept), leaf.next))
       IN /\ kept # leaf.slots
          /\ \/ Commit(writes, root) /\ op' = NoOp
             \/ CommitFails(writes, [NoOp EXCEPT !.kind = "delete", !.key = k])
-----------------------------------------------------------------------------
(* Compact. *)

\* What scanAll returns.
ScanAll == Scan(view, root, None, None)

Ceil(n, d) == (n + d - 1) \div d
Leaves(e) == Ceil(Len(e), MaxLeafKeys)

\* The entries of the i-th new leaf.
Part(e, i) == SubSeq(e, (i - 1) * MaxLeafKeys + 1, Min({i * MaxLeafKeys, Len(e)}))

\* The nodes of each level, leaves being level 0, and the number of levels.
Width(e) ==
    LET w[l \in 0..MaxHeight] ==
          IF l = 0 THEN Leaves(e) ELSE Ceil(w[l - 1], MaxInternalKeys + 1)
    IN w
Height(e) == Min({l \in 0..MaxHeight : Width(e)[l] <= 1})

\* What each page that Compact allocates is for, in the order of allocation.  The
\* loop that sets the leaf links packs the values of all leaves but the last again.
OverflowPlan(e, round, i) ==
    FlattenSeq([j \in DOMAIN Part(e, i) |->
                  LET v == Part(e, i)[j][2]
                  IN [c \in 1..(IF v \in Values THEN Chunks[v] ELSE 0) |->
                        <<"over", round, i, j, c>>]])
CompactPlan(e) ==
    FlattenSeq([i \in 1..Leaves(e) |-> Append(OverflowPlan(e, 1, i), <<"node", 0, i>>)])
    \o FlattenSeq([i \in 1..(Leaves(e) - 1) |-> OverflowPlan(e, 2, i)])
    \o FlattenSeq([l \in 1..Height(e) |-> [i \in 1..Width(e)[l] |-> <<"node", l, i>>]])

PageFor(use) == op.ids[CHOOSE n \in DOMAIN op.plan : op.plan[n] = use]

\* Mutant of NewLeaf: the leaves are not linked.
NewLeafUnlinked(i) ==
    LET part == Part(op.entries, i)
    IN Leaf([j \in DOMAIN part |-> Slot(part[j][1], part[j][2], None)], None)

\* A leaf of the new tree.  The overflow pages it names are never written.
NewLeaf(i) ==
    LET part == Part(op.entries, i)
        last == i = Leaves(op.entries)
        slot(j) == LET v == part[j][2]
                   IN Slot(part[j][1], v,
                           IF v \in Values /\ Chunks[v] > 0
                           THEN PageFor(<<"over", IF last THEN 1 ELSE 2, i, j, 1>>)
                           ELSE None)
    IN Leaf([j \in DOMAIN part |-> slot(j)],
            IF last THEN None ELSE PageFor(<<"node", 0, i + 1>>))

\* An internal node of the new tree: separator j is entry start + j * MaxLeafKeys,
\* where start counts the children to the left and not their entries.
NewInternal(l, i) ==
    LET fan == MaxInternalKeys + 1
        start == (i - 1) * fan
        n == Min({fan, Width(op.entries)[l - 1] - start})
        entry(m) == op.entries[Min({m, Len(op.entries) - 1}) + 1]
    IN Internal([j \in 1..n |-> PageFor(<<"node", l - 1, start + j>>)],
                [j \in 1..(n - 1) |-> entry(start + j * MaxLeafKeys)[1]])

NewNodes == SelectSeq(op.plan, LAMBDA use : use[1] = "node")
NewNode(use) == IF use[2] = 0 THEN NewLeaf(use[3]) ELSE NewInternal(use[2], use[3])

\* freeNode: the pages under p in the order they are freed.
FreeOrder(pgs, p) ==
    LET post[q \in PageID] ==
          LET node == pgs[q]
          IN (IF node.type = "internal"
              THEN FlattenSeq([i \in DOMAIN node.ptrs |-> post[node.ptrs[i]]])
              ELSE FlattenSeq([i \in DOMAIN node.slots |-> Chain(pgs, node.slots[i].over)]))
             \o <<q>>
    IN post[p]

Compact ==
    /\ Idle /\ root # None /\ compacts < MaxCompacts /\ compacts' = compacts + 1
    /\ ScanAll # ScanFailed
    /\ op' = [NoOp EXCEPT !.kind = "compact", !.entries = ScanAll, !.plan = CompactPlan(ScanAll)]
    /\ UNCHANGED <<pager, state, root, mishaps>>

CompactAllocate ==
    /\ op.kind = "compact" /\ op.stage = "none" /\ Len(op.ids) < Len(op.plan)
    /\ Allocate

\* The new pages are written outside the transaction, leaves first.
CompactWrite ==
    /\ op.kind = "compact" /\ op.stage = "none" /\ Len(op.ids) = Len(op.plan)
    /\ buffer = NoBuffer
    /\ Len(op.todo) < Len(NewNodes)
    /\ LET use == NewNodes[Len(op.todo) + 1]
       IN /\ pages' = [pages EXCEPT ![PageFor(use)] = NewNode(use)]
          /\ op' = [op EXCEPT !.todo = Append(@, PageFor(use))]
    /\ UNCHANGED <<free, count, buffer, state, root, mishaps, compacts>>

\* Mutants of CompactCommit: the swap does not wait for all pages; the pages freed
\* are the new ones.
CompactCommitEarly ==
    /\ op.kind = "compact" /\ op.stage = "none" /\ Len(op.ids) = Len(op.plan)
    /\ LET r == IF op.todo = <<>> THEN None ELSE Last(op.todo)
       IN Commit((MetaPageID :> Meta(r)), r)
    /\ op' = [op EXCEPT !.stage = "free", !.todo = FreeOrder(view, root)]
CompactCommitFreesNew ==
    /\ op.kind = "compact" /\ op.stage = "none" /\ Len(op.ids) = Len(op.plan)
    /\ Len(op.todo) = Len(NewNodes)
    /\ LET r == IF op.todo = <<>> THEN None ELSE Last(op.todo)
       IN Commit((MetaPageID :> Meta(r)), r)
    /\ op' = [op EXCEPT !.stage = "free", !.ids = <<>>]

\* The swap of the root; with no entries the tree becomes empty.
CompactCommit ==
    /\ op.kind = "compact" /\ op.stage = "none" /\ Len(op.ids) = Len(op.plan)
    /\ Len(op.todo) = Len(NewNodes)
    /\ LET r == IF op.entries = <<>> THEN None ELSE Last(op.todo)
           writes == (MetaPageID :> Meta(r))
       IN \/ /\ Commit(writes, r)
             /\ op' = [op EXCEPT !.stage = "free", !.todo = FreeOrder(view, root),
                          !.entries = <<>>, !.plan = <<>>, !.ids = <<>>]
          \/ CommitFails(writes, op)

\* FreePage of one page of the old tree; errors are ignored.
CompactFree ==
    /\ op.stage = "free" /\ op.todo # <<>>
    /\ op' = [op EXCEPT !.todo = Tail(@)]
    /\ \/ /\ free' = <<Head(op.todo)>> \o free
          /\ pages' = [pages EXCEPT ![Head(op.todo)] = Blank]
          /\ UNCHANGED mishaps
       \/ Mishap /\ UNCHANGED <<free, pages>>
    /\ UNCHANGED <<count, buffer, state, root, compacts>>

CompactReturn ==
    /\ op.stage = "free" /\ op.todo = <<>>
    /\ op' = NoOp
    /\ UNCHANGED <<pager, state, root, mishaps, compacts>>

Next ==
    \/ OpenFresh \/ OpenCommit \/ OpenExisting \/ Close \/ Crash
    \/ \E k \in Keys, v \in Values : Set(k, v)
    \/ SetAllocate \/ SetLosesValue \/ SetCommit \/ GiveUp
    \/ \E k \in Keys : Delete(k)
    \/ Compact \/ CompactAllocate \/ CompactWrite \/ CompactCommit \/ CompactFree
    \/ CompactReturn

Spec == Init /\ [][Next]_vars
-----------------------------------------------------------------------------
(* Check. *)

\* The nodes of the tree under p, level by level from the left, each with the keys
\* lo <= k < hi that the separators above it route to it.
Level(pgs, p) ==
    LET children(n) ==
          LET node == pgs[n.page] last == Len(node.ptrs)
          IN IF node.type # "internal" THEN <<>>
             ELSE [i \in 1..last |->
                     [page |-> node.ptrs[i],
                      lo |-> IF i = 1 THEN n.lo ELSE node.keys[i - 1],
                      hi |-> IF i = last THEN n.hi ELSE node.keys[i]]]
        level[d \in 0..(MaxHeight + 1)] ==
          IF d = 0 THEN <<[page |-> p, lo |-> Min(Keys), hi |-> Max(Keys) + 1]>>
          ELSE LET up == level[d - 1]
               IN FlattenSeq([i \in DOMAIN up |-> children(up[i])])
    IN level
Nodes(pgs, p) == FlattenSeq([d \in 1..(MaxHeight + 1) |-> Level(pgs, p)[d - 1]])

Ascending(s) == \A i \in 1..(Len(s) - 1) : s[i] < s[i + 1]
SlotKeys(node) == [i \in DOMAIN node.slots |-> node.slots[i].key]
Distinct(s) == Cardinality(ToSet(s)) = Len(s)

\* The overflow pages below a list of nodes.
OverflowBelow(pgs, nodes) ==
    FlattenSeq([i \in DOMAIN nodes |->
                  LET node == pgs[nodes[i].page]
                  IN IF node.type # "leaf" THEN <<>>
                     ELSE FlattenSeq([j \in DOMAIN node.slots |->
                                        Chain(pgs, node.slots[j].over)])])

\* checkOverflowChain adds up whole pages, padding included.
ChainAccepted(slot) ==
    slot.over # None => /\ Len(Chain(view, slot.over)) = Chunks[slot.val]
                        /\ slot.val \notin Padded

\* Check returns nil.
CheckPasses ==
    LET nodes == Nodes(view, root)
        all == [i \in DOMAIN nodes |-> nodes[i].page] \o OverflowBelow(view, nodes)
    IN root # None =>
         /\ Distinct(all) /\ \A i \in DOMAIN all : all[i] < count
         /\ \A i \in DOMAIN nodes :
              LET node == view[nodes[i].page]
              IN \/ node.type = "internal" /\ Ascending(node.keys)
                 \/ /\ node.type = "leaf" /\ Ascending(SlotKeys(node))
                    /\ node.slots # <<>> => node.slots[1].key >= nodes[i].lo
                    /\ \A j \in DOMAIN node.slots : ChainAccepted(node.slots[j])
                    /\ node.next < count
-----------------------------------------------------------------------------
(* Properties. *)

\* The root that the next Open would read.
DurableRoot == IF pages[MetaPageID].type = "meta" THEN pages[MetaPageID].root ELSE None

Durable == [k \in Keys |-> Get(pages, DurableRoot, k)]

Pending ==
    CASE op.kind = "set" -> [kind |-> "set", key |-> op.key, val |-> op.val]
      [] op.kind = "delete" -> [kind |-> "delete", key |-> op.key]
      [] op.kind = "compact" /\ op.stage # "free" -> [kind |-> "compact"]
      [] OTHER -> [kind |-> "none"]

Map == INSTANCE KVMap WITH map <- Durable, req <- Pending

\* The tree on disk is the map of KVMap: a Set or Delete changes its own key and
\* nothing else, at once, a Compact changes nothing, and a call that fails or is cut
\* short by a crash between two of its steps leaves no trace.
Implements == Map!Spec

\* Between calls, Get (through the cached rootPageID) and Scan (through the leaf
\* links, for any bounds) answer from the same map that is on disk; a value that Get
\* cannot read fails the scans that cover it.
ReadsAgree ==
    LET sorted == SetToSortSeq(Keys, LAMBDA a, b : a < b)
        present == SelectSeq(sorted, LAMBDA k : Durable[k] # Absent)
        within(s, e) == SelectSeq(present, LAMBDA k : k >= s /\ (e # None => k < e))
    IN Idle => /\ \A k \in Keys : Get(view, root, k) = Durable[k]
               /\ \A s, e \in Keys \cup {None} :
                    LET want == within(s, e)
                        unreadable == \E i \in DOMAIN want : Durable[want[i]] = Error
                    IN Scan(view, root, s, e) =
                         IF unreadable THEN ScanFailed
                         ELSE [i \in DOMAIN want |-> <<want[i], Durable[want[i]]>>]

\* A Set answers for its own key only: whether it succeeds or fails, and whichever of
\* its steps fails, every other key reads as it did before.
SetIsLocal ==
    [][state = "open" /\ state' = "open" /\ op.kind = "set" =>
         \A k \in Keys \ {op.key} : Get(view, root, k)' = Get(view, root, k)]_vars

\* The shape splitLeaf, splitInternal and Compact maintain, and Check only samples:
\* all leaves have the same depth, every key lies between the separators above it on
\* both sides, and the leaf links list the leaves of the tree from left to right.
TreeSound ==
    LET level == Level(pages, DurableRoot)
        depth == CHOOSE d \in 0..MaxHeight : level[d] # <<>> /\ level[d + 1] = <<>>
        leaves == level[depth]
        leaf(i) == pages[leaves[i].page]
    IN DurableRoot # None =>
         /\ \A d \in 0..depth : \A n \in ToSet(level[d]) :
              pages[n.page].type = IF d = depth THEN "leaf" ELSE "internal"
         /\ \A i \in DOMAIN leaves :
              /\ \A s \in ToSet(leaf(i).slots) : leaves[i].lo <= s.key /\ s.key < leaves[i].hi
              /\ leaf(i).next = IF i = Len(leaves) THEN None ELSE leaves[i + 1].page

\* No page has two owners: the meta page, the nodes of the durable tree, their
\* overflow pages, the pages of the call in progress and the free list are disjoint.
OneOwner ==
    LET nodes == IF DurableRoot = None THEN <<>> ELSE Nodes(pages, DurableRoot)
    IN Distinct(<<MetaPageID>> \o [i \in DOMAIN nodes |-> nodes[i].page]
                \o OverflowBelow(pages, nodes) \o op.ids \o free
                \o (IF op.stage = "free" THEN op.todo ELSE <<>>))

\* Check accepts every tree that Set, Delete and Compact build, and its nodes pass the order
\* checks of their encoding.
CheckAccepts == Idle => CheckPasses

\* A file that Open has begun to create can be opened after a crash.
MetaReadable == state # "refused"
=============================================================================
