----------------------------- MODULE TokenIndex -----------------------------
(* The token index of the logs engine: lists of locators by term, bounded by   *)
(* an estimate of their size, with the least recently inserted terms evicted   *)
(* first.  Every operation holds the index's lock.                             *)
EXTENDS Integers, Sequences, SequencesExt

CONSTANTS
    MaxMem,             \* maxMemBytes
    LocSize, KeySize    \* what an entry and a term are estimated to take

EmptyIndex == [locs |-> <<>>, lru |-> <<>>, mem |-> 0]

LocsOf(idx, t) == IF t \in DOMAIN idx.locs THEN idx.locs[t] ELSE <<>>
Without(f, T) == [t \in DOMAIN f \ T |-> f[t]]
Reduced(n) == IF n < 0 THEN 0 ELSE n

EvictOldest(idx) ==
    LET term == Last(idx.lru)
    IN  [locs |-> Without(idx.locs, {term}),
         lru  |-> Front(idx.lru),
         mem  |-> Reduced(idx.mem - LocSize * Len(LocsOf(idx, term)) - KeySize)]

\* The index after n evictions.
Evicted(idx, n) == FoldLeft(LAMBDA i, k : EvictOldest(i), idx, [k \in 1 .. n |-> k])

AddedSize(idx, t) == LocSize + IF LocsOf(idx, t) = <<>> THEN KeySize ELSE 0

\* As few evictions as make room; all of them when none does.
MadeRoom(idx, size) ==
    LET Fits(n) == Evicted(idx, n).mem + size < MaxMem
        fitting == {n \in 0 .. Len(idx.lru) : Fits(n)}
    IN  Evicted(idx, IF fitting = {} THEN Len(idx.lru)
                     ELSE CHOOSE n \in fitting : \A m \in fitting : n <= m)

\* The list of t and the size are read before the evictions, which may evict t itself.
Insert(idx, t, loc) ==
    LET size == AddedSize(idx, t)
        room == MadeRoom(idx, size)
    IN  IF room.mem + size >= MaxMem THEN room
        ELSE [locs |-> [u \in DOMAIN room.locs \cup {t} |->
                           IF u = t THEN Append(LocsOf(idx, t), loc) ELSE room.locs[u]],
              lru  |-> <<t>> \o Remove(room.lru, t),
              mem  |-> room.mem + size]

\* AND over the tokens; an unknown token finds nothing.
SearchAll(idx, toks) ==
    {loc \in UNION {ToSet(LocsOf(idx, t)) : t \in toks} :
        \A t \in toks : loc \in ToSet(LocsOf(idx, t))}

Kept(locs, cutoff) == SelectSeq(locs, LAMBDA loc : loc.ts >= cutoff)

\* Sweep leaves mem as it is.
SweepIndex(idx, cutoff) ==
    LET gone == {t \in DOMAIN idx.locs : Kept(idx.locs[t], cutoff) = <<>>}
    IN  [locs |-> [t \in DOMAIN idx.locs \ gone |-> Kept(idx.locs[t], cutoff)],
         lru  |-> SelectSeq(idx.lru, LAMBDA t : t \notin gone),
         mem  |-> idx.mem]

---------------------------------------------------------------------------
\* The size the estimate stands for.
SizeOf(idx) ==
    LET Of(t) == LocSize * Len(idx.locs[t]) + KeySize
    IN  FoldLeft(LAMBDA n, t : n + Of(t), 0, SetToSeq(DOMAIN idx.locs))
=============================================================================
