------------------------------- MODULE Rollup -------------------------------
(* The aggregation of downsample.                                             *)
EXTENDS Integers, Sequences, SequencesExt, FiniteSets

\* Integer division of Go, toward zero.
Quotient(a, b) == IF a >= 0 THEN a \div b ELSE -((-a) \div b)

BucketStart(ts, secs) == Quotient(ts, secs) * secs

Smaller(a, b) == IF b < a THEN b ELSE a
Larger(a, b) == IF b > a THEN b ELSE a

\* Mutant of Accumulate: the extremes start at zero.
AccumulateZero(buckets, pt, secs) ==
    LET s == BucketStart(pt.ts, secs)
        old == IF s \in DOMAIN buckets THEN buckets[s]
               ELSE [count |-> 0, sum |-> 0, min |-> 0, max |-> 0]
        new == [count |-> old.count + 1, sum |-> old.sum + pt.v,
                min |-> Smaller(old.min, pt.v), max |-> Larger(old.max, pt.v)]
    IN  [b \in DOMAIN buckets \cup {s} |-> IF b = s THEN new ELSE buckets[b]]

\* One point into its bucket; the first one sets the extremes.
Accumulate(buckets, pt, secs) ==
    LET s == BucketStart(pt.ts, secs)
        new == IF s \notin DOMAIN buckets
               THEN [count |-> 1, sum |-> pt.v, min |-> pt.v, max |-> pt.v]
               ELSE [count |-> buckets[s].count + 1, sum |-> buckets[s].sum + pt.v,
                     min |-> Smaller(buckets[s].min, pt.v), max |-> Larger(buckets[s].max, pt.v)]
    IN  [b \in DOMAIN buckets \cup {s} |-> IF b = s THEN new ELSE buckets[b]]

AccumulateAll(buckets, pts, secs) == FoldLeft(LAMBDA b, pt : Accumulate(b, pt, secs), buckets, pts)

---------------------------------------------------------------------------
\* What a bucket is to hold: the points of its interval, summed up.
IsAggregate(b, pts, secs) ==
    LET in == SelectSeq(pts, LAMBDA pt : pt.ts >= b.start /\ pt.ts < b.start + secs)
        vs == {in[i].v : i \in 1 .. Len(in)}
    IN  /\ in # <<>> /\ b.count = Len(in) /\ b.sum = FoldLeft(LAMBDA n, pt : n + pt.v, 0, in)
        /\ b.min \in vs /\ b.max \in vs /\ \A v \in vs : b.min <= v /\ v <= b.max
=============================================================================
