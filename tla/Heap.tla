-------------------------------- MODULE Heap --------------------------------
(* One table of internal/engine/sql/heap: row versions in a key-value store,  *)
(* keyed by primary key and transaction id.  The store is the atomic map that *)
(* KVMap specifies and BTree implements: one Set or Delete is one step.       *)
(* Every method of table holds the table lock, so each is one step as well,   *)
(* except Vacuum, whose deletions are separate transactions of the store.     *)
(* A refused call returns an error and changes nothing.                       *)
EXTENDS Naturals, FiniteSets

CONSTANTS
    PKs,      \* primary keys
    Values,   \* the rest of a row
    MaxTx     \* bound on transaction ids

Missing == "missing"       \* no entry in the store
Tombstone == "tombstone"   \* an entry with FlagTombstone
Absent == "absent"         \* what a reader sees: ErrKeyNotFound

ASSUME HeapAssumption ==
    MaxTx \in Nat /\ {Missing, Tombstone, Absent} \cap Values = {}

VARIABLES
    cells,    \* cells[pk][version]: the entry under that key
    vac,      \* the running Vacuum
    horizon   \* the largest olderThan so far: every reader is above it

vars == <<cells, vac, horizon>>

Versions == 1..MaxTx
Cell == Values \union {Tombstone, Missing}
Idle == [on |-> FALSE, older |-> 0, groups |-> {}, pk |-> Missing, todo |-> {}]

Init ==
    /\ cells = [k \in PKs |-> [v \in Versions |-> Missing]]
    /\ vac = Idle /\ horizon = 0

---------------------------------------------------------------------------
(* Visibility, for one row c == cells[pk].                                   *)

Newest(S) == CHOOSE v \in S : \A w \in S : w <= v
Stored(c, t) == {v \in Versions : v <= t /\ c[v] # Missing}

\* findVisibleRow, Get and Scan: the newest version at or below t, if it is a row.
VisibleRow(c, t) ==
    IF Stored(c, t) = {} \/ c[Newest(Stored(c, t))] = Tombstone
    THEN Absent ELSE c[Newest(Stored(c, t))]

\* validateMonotonicTx: no version at or above t.
Monotonic(c, t) == \A v \in Versions : v >= t => c[v] = Missing

---------------------------------------------------------------------------
(* Writers.                                                                   *)

Put(k, t, x) ==
    /\ cells' = [cells EXCEPT ![k] = [cells[k] EXCEPT ![t] = x]]
    /\ UNCHANGED <<vac, horizon>>

\* Mutant of Insert: the transaction id is not compared with later versions.
InsertLate(k, v, t) ==
    /\ ~vac.on /\ VisibleRow(cells[k], t) = Absent
    /\ Put(k, t, v)

Insert(k, v, t) ==
    /\ ~vac.on /\ Monotonic(cells[k], t)
    /\ VisibleRow(cells[k], t) = Absent
    /\ Put(k, t, v)

Update(k, v, t) ==
    /\ ~vac.on /\ Monotonic(cells[k], t)
    /\ VisibleRow(cells[k], t) # Absent
    /\ Put(k, t, v)

Delete(k, t) ==
    /\ ~vac.on /\ Monotonic(cells[k], t)
    /\ VisibleRow(cells[k], t) # Absent
    /\ Put(k, t, Tombstone)

---------------------------------------------------------------------------
(* Vacuum(olderThan).  The caller guarantees that every reader is above it.    *)

\* Mutant of Doomed: of a deleted row only the tombstone goes.
DoomedTombstone(c, older) ==
    LET old == Stored(c, older)
        keep == Newest(old)
        newer == \E v \in Versions : v > older /\ c[v] # Missing
    IN IF old = {} THEN {}
       ELSE IF c[keep] = Tombstone THEN IF newer THEN {} ELSE {keep}
       ELSE old \ {keep}

\* The versions of row c that Vacuum deletes.
Doomed(c, older) ==
    LET old == Stored(c, older)
        keep == Newest(old)
        newer == \E v \in Versions : v > older /\ c[v] # Missing
    IN IF old = {} THEN {}
       ELSE IF c[keep] = Tombstone THEN IF newer THEN {} ELSE old
       ELSE old \ {keep}

VacuumStart(older) ==
    /\ ~vac.on
    /\ vac' = [Idle EXCEPT !.on = TRUE, !.older = older, !.groups = PKs]
    /\ horizon' = IF older > horizon THEN older ELSE horizon
    /\ UNCHANGED cells

\* The loop over the rows, in the order of a Go map.
VacuumGroup(k) ==
    /\ vac.on /\ vac.todo = {} /\ k \in vac.groups
    /\ vac' = [vac EXCEPT !.groups = vac.groups \ {k}, !.pk = k,
                          !.todo = Doomed(cells[k], vac.older)]
    /\ UNCHANGED <<cells, horizon>>

\* One store.Delete, newest version first.
VacuumDelete ==
    /\ vac.on /\ vac.todo # {}
    /\ cells' = [cells EXCEPT ![vac.pk] =
                   [cells[vac.pk] EXCEPT ![Newest(vac.todo)] = Missing]]
    /\ vac' = [vac EXCEPT !.todo = vac.todo \ {Newest(vac.todo)}]
    /\ UNCHANGED horizon

\* A store.Delete returns an error, which Vacuum drops.
VacuumSkip ==
    /\ vac.on /\ vac.todo # {}
    /\ vac' = [vac EXCEPT !.todo = vac.todo \ {Newest(vac.todo)}]
    /\ UNCHANGED <<cells, horizon>>

VacuumReturn ==
    /\ vac.on /\ vac.todo = {} /\ vac.groups = {}
    /\ vac' = Idle /\ UNCHANGED <<cells, horizon>>

\* The process stops; only a running Vacuum has something to lose.
Crash ==
    /\ vac.on /\ vac' = Idle /\ UNCHANGED <<cells, horizon>>

Next ==
    \/ \E k \in PKs, v \in Values, t \in Versions : Insert(k, v, t) \/ Update(k, v, t)
    \/ \E k \in PKs, t \in Versions : Delete(k, t)
    \/ \E older \in 0..MaxTx : VacuumStart(older)
    \/ \E k \in PKs : VacuumGroup(k)
    \/ VacuumDelete \/ VacuumSkip \/ VacuumReturn \/ Crash

Spec == Init /\ [][Next]_vars

---------------------------------------------------------------------------
(* Properties.                                                                *)

\* The entries of the table and the bookkeeping of Vacuum have their types.
TypeOK ==
    /\ cells \in [PKs -> [Versions -> Cell]]
    /\ horizon \in 0..MaxTx
    /\ vac \in [on : BOOLEAN, older : 0..MaxTx, groups : SUBSET PKs,
                pk : PKs \union {Missing}, todo : SUBSET Versions]

\* The row as it is once the deletions of the running Vacuum are done: the table
\* lock keeps readers out until then.
Settled(k) ==
    [v \in Versions |-> IF vac.pk = k /\ v \in vac.todo THEN Missing ELSE cells[k][v]]

Views == [k \in PKs |-> [t \in (horizon + 1)..MaxTx |-> VisibleRow(Settled(k), t)]]

View == INSTANCE HeapView WITH view <- Views

\* Get and Scan at any transaction id above every olderThan show the table that
\* HeapView describes: a write is seen by all readers from its id on and by no
\* earlier one, it never overwrites what a later transaction wrote, and Vacuum
\* changes nothing that such a reader sees, unless it is interrupted.
Implements == View!Spec

\* No reader sees row k.
Gone(k) == \A t \in (horizon + 1)..MaxTx : Views[k][t] = Absent

\* A row that is deleted for every reader comes back by an Insert of that row, or when a
\* crash or an error of the store, which Vacuum drops, interrupts Vacuum while it
\* deletes the versions of that row.  A Vacuum that runs to its end, one that is at another
\* row, and writes to other rows bring nothing back.
DeletesHold ==
    [][\A k \in PKs : Gone(k) /\ ~Gone(k)' =>
         \/ \E v \in Values, t \in Versions : Insert(k, v, t)
         \/ vac.pk = k /\ vac.todo # {} /\ (VacuumSkip \/ Crash)]_vars

\* Delete hides a row until somebody inserts it again.
DeletesAreFinal ==
    [][\A k \in PKs : Gone(k) /\ ~Gone(k)' =>
         \E v \in Values, t \in Versions : Insert(k, v, t)]_vars
=============================================================================
