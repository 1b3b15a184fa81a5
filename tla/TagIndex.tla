------------------------------ MODULE TagIndex ------------------------------
(* The tag index of the metrics engine: lists of locators by tag.  Every       *)
(* operation holds the index's lock.  Its Sweep has no caller.                 *)
EXTENDS Integers, Sequences

LocsOf(idx, t) == IF t \in DOMAIN idx THEN idx[t] ELSE <<>>

\* Mutant of InsertTags: the newest locator comes first.
InsertTagsFront(idx, tags, loc) ==
    [t \in DOMAIN idx \cup tags |->
        IF t \in tags THEN <<loc>> \o LocsOf(idx, t) ELSE LocsOf(idx, t)]

InsertTags(idx, tags, loc) ==
    [t \in DOMAIN idx \cup tags |->
        IF t \in tags THEN Append(LocsOf(idx, t), loc) ELSE LocsOf(idx, t)]

Before(a, b) == a.page < b.page \/ (a.page = b.page /\ a.i < b.i)

\* The merge of two lists that are assumed to be sorted.
IntersectLocs(a, b) ==
    LET merge[i \in 1 .. Len(a) + 1, j \in 1 .. Len(b) + 1] ==
            IF i > Len(a) \/ j > Len(b) THEN <<>>
            ELSE IF Before(a[i], b[j]) THEN merge[i + 1, j]
            ELSE IF Before(b[j], a[i]) THEN merge[i, j + 1]
            ELSE <<a[i]>> \o merge[i + 1, j + 1]
    IN  merge[1, 1]

\* The lists of the tags, intersected in the order of a map: any one of them.
SearchAll(idx, tagSeq) ==
    LET found[i \in 1 .. Len(tagSeq)] ==
            IF i = 1 THEN LocsOf(idx, tagSeq[1]) ELSE IntersectLocs(found[i - 1], LocsOf(idx, tagSeq[i]))
    IN  IF tagSeq = <<>> THEN <<>> ELSE found[Len(tagSeq)]
=============================================================================
