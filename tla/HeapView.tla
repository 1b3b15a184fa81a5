------------------------------ MODULE HeapView ------------------------------
(* What a versioned table promises its readers.  A reader is known by its      *)
(* transaction id; readers at or below the horizon are gone.  A write by       *)
(* transaction t decides what readers from t on see and changes nothing for    *)
(* earlier ones.                                                               *)
EXTENDS Naturals

CONSTANTS PKs, Values, MaxTx, Absent

VARIABLES horizon, view

Readers(h) == (h + 1)..MaxTx

Init ==
    /\ horizon = 0
    /\ view = [k \in PKs |-> [t \in Readers(0) |-> Absent]]

\* Readers from t on see x in row k.
Write(k, t, x) ==
    /\ view' = [view EXCEPT ![k] =
                  [u \in Readers(horizon) |-> IF u >= t THEN x ELSE view[k][u]]]
    /\ UNCHANGED horizon

\* Row k is x for every reader that the write of t concerns.
Stands(k, t, x) == \A u \in Readers(horizon) : u >= t => view[k][u] = x

Insert(k, v, t) == Stands(k, t, Absent) /\ Write(k, t, v)
Update(k, v, t) == (\E x \in Values : Stands(k, t, x)) /\ Write(k, t, v)
Delete(k, t) == (\E x \in Values : Stands(k, t, x)) /\ Write(k, t, Absent)

\* The readers up to h are gone; the others see what they saw.
Forget(h) ==
    /\ horizon' = h /\ h >= horizon
    /\ view' = [k \in PKs |-> [t \in Readers(h) |-> view[k][t]]]

\* An interrupted vacuum may bring back a row that was deleted for every reader.
Resurrect(k, v) == Stands(k, 0, Absent) /\ Write(k, 0, v)

Next ==
    \/ \E k \in PKs, v \in Values, t \in 1..MaxTx : Insert(k, v, t) \/ Update(k, v, t)
    \/ \E k \in PKs, t \in 1..MaxTx : Delete(k, t)
    \/ \E h \in 0..MaxTx : Forget(h)
    \/ \E k \in PKs, v \in Values : Resurrect(k, v)

Spec == Init /\ [][Next]_<<horizon, view>>
=============================================================================
