---------------------------- MODULE HeapProofs ----------------------------
(***************************************************************************)
(* Proofs about Heap: the table's type invariant, the invariant of a       *)
(* Vacuum under way, and that the table implements HeapView.               *)
(***************************************************************************)
EXTENDS Heap, TLAPS, WellFoundedInduction

\* Every non-empty set of naturals has a least element.
LEMMA LeastNatural ==
    ASSUME NEW T \in SUBSET Nat, T # {}
    PROVE  \E x \in T : \A y \in T : x <= y
<1>1. PICK x \in T : \A y \in T : ~(<<y, x>> \in OpToRel(<, Nat))
  BY NatLessThanWellFounded, WFMin, Zenon
<1>2. \A y \in T : ~(y < x)
  BY <1>1, Zenon DEF OpToRel
<1> QED
  BY <1>2

\* A non-empty set of versions has a newest one, so the CHOOSE of Newest is the
\* row that findVisibleRow keeps when its loop ends.
LEMMA NewestIsLast ==
    ASSUME NEW S \in SUBSET Versions, S # {}
    PROVE  Newest(S) \in S /\ \A w \in S : w <= Newest(S)
<1> DEFINE T == {MaxTx - i : i \in S}
<1>0. MaxTx \in Nat
  BY HeapAssumption
<1>1. PICK i \in S : TRUE
  OBVIOUS
<1>2. T \in SUBSET Nat /\ MaxTx - i \in T
  BY <1>0 DEF Versions
<1>3. PICK x \in T : \A y \in T : x <= y
  <2> HIDE DEF T
  <2> QED
    BY <1>2, LeastNatural
<1>4. PICK m \in S : x = MaxTx - m
  OBVIOUS
<1>5. ASSUME NEW y \in S PROVE y <= m
  <2>1. MaxTx - y \in T
    OBVIOUS
  <2>2. x <= MaxTx - y
    BY <2>1, <1>3
  <2> QED
    BY <2>2, <1>4, <1>0 DEF Versions
<1> QED
  BY <1>5 DEF Newest

\* Newest is determined by being a member above all the others.
LEMMA NewestUnique ==
    ASSUME NEW S \in SUBSET Versions, NEW m \in S, \A w \in S : w <= m
    PROVE  Newest(S) = m
<1>1. Newest(S) \in S /\ m <= Newest(S) /\ Newest(S) <= m
  BY NewestIsLast
<1>2. \A a, b \in Versions : a <= b /\ b <= a => a = b
  BY HeapAssumption DEF Versions
<1> QED
  BY <1>1, <1>2

-----------------------------------------------------------------------------
(* What a reader sees of one row. *)

Row == [Versions -> Cell]

\* A reader sees a row or nothing, never a tombstone.
LEMMA VisibleType ==
    ASSUME NEW c \in Row, NEW t
    PROVE  VisibleRow(c, t) \in Values \union {Absent}
<1>1. Stored(c, t) \in SUBSET Versions
  BY DEF Stored
<1>2. CASE Stored(c, t) = {}
  BY <1>2 DEF VisibleRow
<1>3. CASE Stored(c, t) # {}
  <2>1. Newest(Stored(c, t)) \in Stored(c, t)
    BY <1>1, <1>3, NewestIsLast
  <2>2. c[Newest(Stored(c, t))] \in Values \union {Tombstone}
    BY <2>1 DEF Stored, Row, Cell
  <2> QED
    BY <2>2 DEF VisibleRow
<1> QED
  BY <1>2, <1>3

\* The newest version at or below t decides.
LEMMA VisibleAt ==
    ASSUME NEW c \in Row, NEW t \in Nat, NEW m \in Versions,
           m <= t, c[m] # Missing,
           \A v \in Versions : v <= t /\ c[v] # Missing => v <= m
    PROVE  VisibleRow(c, t) = IF c[m] = Tombstone THEN Absent ELSE c[m]
<1>1. m \in Stored(c, t) /\ Stored(c, t) \in SUBSET Versions
      /\ \A w \in Stored(c, t) : w <= m
  BY DEF Stored
<1>2. Newest(Stored(c, t)) = m
  BY <1>1, NewestUnique
<1> QED
  BY <1>1, <1>2 DEF VisibleRow

\* Nothing at or below t: the reader finds no row.
LEMMA VisibleNone ==
    ASSUME NEW c, NEW t, \A v \in Versions : v <= t => c[v] = Missing
    PROVE  VisibleRow(c, t) = Absent
  BY DEF VisibleRow, Stored

\* Two rows with the same entries at or below their readers look the same.
LEMMA VisibleSame ==
    ASSUME NEW c \in Row, NEW d \in Row, NEW t \in Nat, NEW u \in Nat,
           \A v \in Versions : v <= t /\ c[v] # Missing <=> v <= u /\ d[v] # Missing,
           \A v \in Versions : v <= t /\ c[v] # Missing => c[v] = d[v]
    PROVE  VisibleRow(c, t) = VisibleRow(d, u)
<1>1. Stored(c, t) = Stored(d, u) /\ Stored(c, t) \in SUBSET Versions
  BY DEF Stored
<1>2. CASE Stored(c, t) = {}
  BY <1>1, <1>2 DEF VisibleRow
<1>3. CASE Stored(c, t) # {}
  <2>1. Newest(Stored(c, t)) \in Stored(c, t)
    BY <1>1, <1>3, NewestIsLast
  <2>2. c[Newest(Stored(c, t))] = d[Newest(Stored(c, t))]
    BY <2>1 DEF Stored
  <2> QED
    BY <1>1, <2>2 DEF VisibleRow
<1> QED
  BY <1>2, <1>3

\* Entries under a version w that the reader can see do not matter to it.
LEMMA Shadowed ==
    ASSUME NEW c \in Row, NEW d \in Row, NEW t \in Nat,
           NEW w \in Versions, w <= t, c[w] # Missing,
           \A v \in Versions : v >= w => c[v] = d[v]
    PROVE  VisibleRow(c, t) = VisibleRow(d, t)
<1>1. Stored(c, t) \in SUBSET Versions /\ w \in Stored(c, t)
  BY DEF Stored
<1> DEFINE m == Newest(Stored(c, t))
<1>2. m \in Stored(c, t) /\ \A x \in Stored(c, t) : x <= m
  BY <1>1, NewestIsLast
<1> HIDE DEF m
<1>3. m \in Versions /\ m <= t /\ c[m] # Missing /\ w <= m /\ c[m] = d[m]
  BY <1>1, <1>2 DEF Stored
<1>4. \A v \in Versions : v <= t /\ c[v] # Missing => v <= m
  BY <1>2 DEF Stored
<1>5. \A v \in Versions : v <= t /\ d[v] # Missing => v <= m
  <2> SUFFICES ASSUME NEW v \in Versions, v <= t, d[v] # Missing, ~(v <= m)
               PROVE FALSE
    OBVIOUS
  <2>1. v >= w
    BY <1>3, HeapAssumption DEF Versions
  <2> QED
    BY <2>1, <1>4
<1>6. VisibleRow(c, t) = IF c[m] = Tombstone THEN Absent ELSE c[m]
  BY <1>3, <1>4, VisibleAt
<1>7. VisibleRow(d, t) = IF d[m] = Tombstone THEN Absent ELSE d[m]
  BY <1>3, <1>5, VisibleAt
<1> QED
  BY <1>3, <1>6, <1>7

-----------------------------------------------------------------------------
(* Type correctness and the invariant of Vacuum. *)

VacType ==
    [on : BOOLEAN, older : 0..MaxTx, groups : SUBSET PKs,
     pk : PKs \union {Missing}, todo : SUBSET Versions]

\* Vacuum deletes stored versions only.
LEMMA DoomedStored ==
    ASSUME NEW c, NEW older
    PROVE  Doomed(c, older) \subseteq Stored(c, older)
  BY DEF Doomed

LEMMA TypeInit == Init => TypeOK
  BY HeapAssumption DEF Init, TypeOK, Idle, Cell, Versions

LEMMA TypeStep == TypeOK /\ [Next]_vars => TypeOK'
<1> SUFFICES ASSUME TypeOK, [Next]_vars PROVE TypeOK'
  OBVIOUS
<1>0. vac \in VacType /\ cells \in [PKs -> Row] /\ horizon \in 0..MaxTx
  BY DEF TypeOK, VacType, Row
<1> SUFFICES vac' \in VacType /\ cells' \in [PKs -> Row] /\ horizon' \in 0..MaxTx
  BY DEF TypeOK, VacType, Row
<1>idle. Idle \in VacType
  BY HeapAssumption DEF Idle, VacType
<1>put. ASSUME NEW k \in PKs, NEW t \in Versions, NEW x \in Cell, Put(k, t, x)
        PROVE  vac' \in VacType /\ cells' \in [PKs -> Row] /\ horizon' \in 0..MaxTx
  BY <1>0, <1>put DEF Put, Row
<1>1. ASSUME NEW k \in PKs, NEW v \in Values, NEW t \in Versions,
             Insert(k, v, t) \/ Update(k, v, t)
      PROVE  vac' \in VacType /\ cells' \in [PKs -> Row] /\ horizon' \in 0..MaxTx
  BY <1>1, <1>put DEF Insert, Update, Cell
<1>2. ASSUME NEW k \in PKs, NEW t \in Versions, Delete(k, t)
      PROVE  vac' \in VacType /\ cells' \in [PKs -> Row] /\ horizon' \in 0..MaxTx
  BY <1>2, <1>put DEF Delete, Cell
<1>3. ASSUME NEW older \in 0..MaxTx, VacuumStart(older)
      PROVE  vac' \in VacType /\ cells' \in [PKs -> Row] /\ horizon' \in 0..MaxTx
  BY <1>0, <1>3, <1>idle DEF VacuumStart, VacType
<1>4. ASSUME NEW k \in PKs, VacuumGroup(k)
      PROVE  vac' \in VacType /\ cells' \in [PKs -> Row] /\ horizon' \in 0..MaxTx
  <2>1. Doomed(cells[k], vac.older) \in SUBSET Versions
    BY DoomedStored DEF Stored
  <2> QED
    BY <1>0, <1>4, <2>1 DEF VacuumGroup, VacType
<1>5. ASSUME VacuumDelete
      PROVE  vac' \in VacType /\ cells' \in [PKs -> Row] /\ horizon' \in 0..MaxTx
  <2>1. vac' \in VacType /\ horizon' \in 0..MaxTx
    BY <1>0, <1>5 DEF VacuumDelete, VacType
  <2>2. cells' \in [PKs -> Row]
    BY <1>0, <1>5 DEF VacuumDelete, Row, Cell
  <2> QED
    BY <2>1, <2>2
<1>6. ASSUME VacuumSkip
      PROVE  vac' \in VacType /\ cells' \in [PKs -> Row] /\ horizon' \in 0..MaxTx
  BY <1>0, <1>6 DEF VacuumSkip, VacType
<1>7. ASSUME VacuumReturn \/ Crash
      PROVE  vac' \in VacType /\ cells' \in [PKs -> Row] /\ horizon' \in 0..MaxTx
  BY <1>0, <1>7, <1>idle DEF VacuumReturn, Crash
<1>8. ASSUME UNCHANGED vars
      PROVE  vac' \in VacType /\ cells' \in [PKs -> Row] /\ horizon' \in 0..MaxTx
  BY <1>0, <1>8 DEF vars
<1> QED
  BY <1>1, <1>2, <1>3, <1>4, <1>5, <1>6, <1>7, <1>8 DEF Next

\* The entries of the table and the bookkeeping of Vacuum have their types, for
\* every set of keys and rows and every number of transactions.
THEOREM TypeCorrect == Spec => []TypeOK
  BY TypeInit, TypeStep, PTL DEF Spec

\* The row that Vacuum is at: either a version that stays hides all those still to
\* be deleted, or those are all that is left of the row.  No reader can be shown
\* one of them while a version that hides it remains.
VacuumInv ==
    /\ vac.on => vac.older <= horizon
    /\ vac.todo # {} =>
         /\ vac.on /\ vac.pk \in PKs
         /\ vac.todo \subseteq Stored(cells[vac.pk], vac.older)
         /\ \/ \E w \in Stored(cells[vac.pk], vac.older) \ vac.todo :
                  \A v \in vac.todo : v < w
            \/ \A v \in Versions : cells[vac.pk][v] # Missing => v \in vac.todo

\* What Vacuum decides about a row makes VacuumInv true: it spares the newest
\* version, or it takes the whole row because a tombstone is its newest version.
LEMMA DoomedSafe ==
    ASSUME NEW c \in Row, NEW older \in 0..MaxTx, Doomed(c, older) # {}
    PROVE  \/ /\ Newest(Stored(c, older)) \in Stored(c, older) \ Doomed(c, older)
              /\ \A v \in Doomed(c, older) : v < Newest(Stored(c, older))
           \/ /\ \A v \in Versions : c[v] # Missing => v \in Doomed(c, older)
              /\ c[Newest(Stored(c, older))] = Tombstone
<1>1. Stored(c, older) \in SUBSET Versions /\ Stored(c, older) # {}
  BY DEF Doomed, Stored
<1>2. /\ Newest(Stored(c, older)) \in Stored(c, older)
      /\ \A w \in Stored(c, older) : w <= Newest(Stored(c, older))
  BY <1>1, NewestIsLast
<1>3. CASE c[Newest(Stored(c, older))] = Tombstone
  <2>1. /\ ~\E v \in Versions : v > older /\ c[v] # Missing
        /\ Doomed(c, older) = Stored(c, older)
    BY <1>1, <1>3 DEF Doomed
  <2>2. \A v \in Versions : c[v] # Missing => v \in Stored(c, older)
    BY <2>1, HeapAssumption DEF Stored, Versions
  <2> QED
    BY <2>1, <2>2, <1>3
<1>4. CASE c[Newest(Stored(c, older))] # Tombstone
  <2>1. Doomed(c, older) = Stored(c, older) \ {Newest(Stored(c, older))}
    BY <1>1, <1>4 DEF Doomed
  <2>2. \A a, b \in Versions : a <= b /\ a # b => a < b
    BY HeapAssumption DEF Versions
  <2> QED
    BY <1>1, <1>2, <2>1, <2>2
<1> QED
  BY <1>3, <1>4

LEMMA VacuumInit == Init => VacuumInv
  BY DEF Init, VacuumInv, Idle

LEMMA VacuumStep == TypeOK /\ VacuumInv /\ [Next]_vars => VacuumInv'
<1> SUFFICES ASSUME TypeOK, VacuumInv, [Next]_vars PROVE VacuumInv'
  OBVIOUS
<1>0. vac \in VacType /\ cells \in [PKs -> Row] /\ horizon \in 0..MaxTx
  BY DEF TypeOK, VacType, Row
<1>rest. vac'.todo = {} /\ (vac'.on => vac'.older <= horizon') => VacuumInv'
  BY DEF VacuumInv
<1>off. ~vac.on => vac.todo = {}
  BY DEF VacuumInv
<1>1. ASSUME NEW k \in PKs, NEW v \in Values, NEW t \in Versions,
             Insert(k, v, t) \/ Update(k, v, t)
      PROVE  VacuumInv'
  BY <1>1, <1>rest, <1>off DEF Insert, Update, Put
<1>2. ASSUME NEW k \in PKs, NEW t \in Versions, Delete(k, t)
      PROVE  VacuumInv'
  BY <1>2, <1>rest, <1>off DEF Delete, Put
<1>3. ASSUME NEW older \in 0..MaxTx, VacuumStart(older)
      PROVE  VacuumInv'
  <2>1. vac'.todo = {} /\ vac'.older = older
    BY <1>3 DEF VacuumStart, Idle
  <2>2. older <= horizon'
    BY <1>0, <1>3, HeapAssumption DEF VacuumStart
  <2> QED
    BY <2>1, <2>2, <1>rest
<1>4. ASSUME NEW k \in PKs, VacuumGroup(k)
      PROVE  VacuumInv'
  <2>1. /\ vac'.on = vac.on /\ vac.on /\ vac'.older = vac.older /\ vac'.pk = k
        /\ vac'.todo = Doomed(cells[k], vac.older)
        /\ cells' = cells /\ horizon' = horizon
    BY <1>0, <1>4 DEF VacuumGroup, VacType
  <2>2. vac.older <= horizon
    BY <2>1 DEF VacuumInv
  <2>3. CASE vac'.todo = {}
    BY <2>1, <2>2, <2>3, <1>rest
  <2>4. CASE vac'.todo # {}
    <3>1. cells[k] \in Row /\ vac.older \in 0..MaxTx
      BY <1>0 DEF VacType
    <3>2. \/ \E w \in Stored(cells[k], vac.older) \ Doomed(cells[k], vac.older) :
               \A v \in Doomed(cells[k], vac.older) : v < w
          \/ \A v \in Versions : cells[k][v] # Missing => v \in Doomed(cells[k], vac.older)
      BY <3>1, <2>1, <2>4, DoomedSafe
    <3>3. Stored(cells'[k], vac'.older) = Stored(cells[k], vac.older)
      BY <2>1
    <3> QED
      BY <2>1, <2>2, <3>2, <3>3, DoomedStored DEF VacuumInv, Stored
  <2> QED
    BY <2>3, <2>4
<1>5. ASSUME VacuumDelete \/ VacuumSkip
      PROVE  VacuumInv'
  <2> DEFINE x == Newest(vac.todo)
             c == cells[vac.pk]
  <2>1. /\ vac.on /\ vac.todo # {} /\ vac'.on = vac.on /\ vac'.older = vac.older
        /\ vac'.pk = vac.pk /\ vac'.todo = vac.todo \ {x} /\ horizon' = horizon
    BY <1>0, <1>5 DEF VacuumDelete, VacuumSkip, VacType
  <2>2. vac.older <= horizon /\ vac.pk \in PKs /\ vac.todo \subseteq Stored(c, vac.older)
    BY <2>1 DEF VacuumInv
  <2>3. x \in vac.todo /\ x \in Versions /\ \A w \in vac.todo : w <= x
    BY <1>0, <2>1, NewestIsLast DEF VacType
  <2>4. c \in Row
    BY <1>0, <2>2
  <2>5. \/ \E w \in Stored(c, vac.older) \ vac.todo : \A v \in vac.todo : v < w
        \/ \A v \in Versions : c[v] # Missing => v \in vac.todo
    BY <2>1 DEF VacuumInv
  <2>6. \A a, b \in Versions : a <= b /\ a # b => a < b
    BY HeapAssumption DEF Versions
  <2>7. vac.todo \in SUBSET Versions
    BY <1>0 DEF VacType
  <2>8. CASE vac'.todo = {}
    BY <2>1, <2>2, <2>8, <1>rest
  <2>9. CASE VacuumSkip
    <3>1. cells' = cells
      BY <2>9 DEF VacuumSkip
    <3>2. cells'[vac'.pk] = c
      BY <3>1, <2>1
    <3>3. x \in Stored(c, vac.older) \ (vac.todo \ {x})
          /\ \A v \in vac.todo \ {x} : v < x
      BY <2>2, <2>3, <2>6, <2>7
    <3> HIDE DEF x, c
    <3> QED
      BY <2>1, <2>2, <3>2, <3>3 DEF VacuumInv, Stored
  <2>10. CASE VacuumDelete
    <3>1. cells' = [cells EXCEPT ![vac.pk] = [c EXCEPT ![x] = Missing]]
      BY <2>10 DEF VacuumDelete
    <3>2. cells'[vac'.pk] = [c EXCEPT ![x] = Missing]
      BY <3>1, <2>1, <2>2, <1>0
    <3> DEFINE d == [c EXCEPT ![x] = Missing]
    <3>3. d[x] = Missing /\ \A v \in Versions : v # x => d[v] = c[v]
      BY <2>3, <2>4 DEF Row
    <3> HIDE DEF x, c, d
    <3>4. Stored(d, vac.older) = Stored(c, vac.older) \ {x}
      BY <3>3 DEF Stored
    <3>5. vac.todo \ {x} \subseteq Stored(d, vac.older)
      BY <2>2, <3>4
    <3>6. \/ \E w \in Stored(d, vac.older) \ (vac.todo \ {x}) : \A v \in vac.todo \ {x} : v < w
          \/ \A v \in Versions : d[v] # Missing => v \in vac.todo \ {x}
      BY <2>3, <2>5, <3>3, <3>4
    <3>7. cells'[vac'.pk] = d
      BY <3>2 DEF d
    <3>8. Stored(cells'[vac'.pk], vac'.older) = Stored(d, vac.older)
      BY <3>7, <2>1
    <3> QED
      BY <2>1, <2>2, <3>5, <3>6, <3>7, <3>8 DEF VacuumInv, Stored
  <2> QED
    BY <1>5, <2>9, <2>10
<1>6. ASSUME VacuumReturn \/ Crash
      PROVE  VacuumInv'
  BY <1>6, <1>rest DEF VacuumReturn, Crash, Idle
<1>7. ASSUME UNCHANGED vars
      PROVE  VacuumInv'
  BY <1>7 DEF vars, VacuumInv, Stored
<1> QED
  BY <1>1, <1>2, <1>3, <1>4, <1>5, <1>6, <1>7 DEF Next

-----------------------------------------------------------------------------
(* The table implements HeapView. *)

\* A version written above all others is what readers from its id on see, and
\* before it is written they all see the same.
LEMMA WriteRow ==
    ASSUME NEW c \in Row, NEW t \in Versions, NEW x \in Values \union {Tombstone},
           Monotonic(c, t), NEW u \in Nat
    PROVE  /\ u >= t => VisibleRow(c, u) = VisibleRow(c, t)
           /\ u >= t => VisibleRow([c EXCEPT ![t] = x], u)
                          = IF x = Tombstone THEN Absent ELSE x
           /\ ~(u >= t) => VisibleRow([c EXCEPT ![t] = x], u) = VisibleRow(c, u)
<1> DEFINE d == [c EXCEPT ![t] = x]
<1>1. d \in Row /\ d[t] = x /\ \A v \in Versions : v # t => d[v] = c[v]
  BY DEF Row, Cell
<1>2. x # Missing
  BY HeapAssumption DEF Missing, Tombstone
<1>3. t \in Nat /\ \A v \in Versions : v \in Nat
  BY HeapAssumption DEF Versions
<1> HIDE DEF d
<1>4. \A v \in Versions : v >= t => c[v] = Missing
  BY DEF Monotonic
<1>5. ASSUME u >= t PROVE VisibleRow(c, u) = VisibleRow(c, t)
  <2>1. \A v \in Versions : v <= u /\ c[v] # Missing <=> v <= t /\ c[v] # Missing
    BY <1>3, <1>4, <1>5
  <2> QED
    BY <1>3, <2>1, VisibleSame
<1>6. ASSUME u >= t PROVE VisibleRow(d, u) = IF x = Tombstone THEN Absent ELSE x
  <2>1. \A v \in Versions : v <= u /\ d[v] # Missing => v <= t
    BY <1>1, <1>3, <1>4
  <2>2. t <= u
    BY <1>3, <1>6
  <2> QED
    BY <1>1, <1>2, <2>1, <2>2, VisibleAt
<1>7. ASSUME ~(u >= t) PROVE VisibleRow(d, u) = VisibleRow(c, u)
  <2>1. \A v \in Versions : v <= u => v # t
    BY <1>3, <1>7
  <2> QED
    BY <1>1, <2>1, VisibleSame
<1> QED
  BY <1>5, <1>6, <1>7 DEF d

\* Of row c, the versions Y are hidden by one that stays or are all there is.
Hidden(c, older, Y) ==
    /\ Y \subseteq Stored(c, older)
    /\ \/ \E w \in Stored(c, older) \ Y : \A v \in Y : v < w
       \/ \A v \in Versions : c[v] # Missing => v \in Y

\* s is row c without the versions Y, and e is row c but for the versions Y.
Between(c, s, e, Y) ==
    /\ \A v \in Versions : s[v] = IF v \in Y THEN Missing ELSE c[v]
    /\ \A v \in Versions \ Y : e[v] = c[v]

\* Readers above h see the same, or a row where there was none.
SameOrBack(s, e, h) ==
    \/ \A t \in Nat : t > h => VisibleRow(e, t) = VisibleRow(s, t)
    \/ \E y \in Values : \A t \in Nat :
         t > h => VisibleRow(s, t) = Absent /\ VisibleRow(e, t) = y

\* Versions Y that Vacuum was to delete come back in part: readers see no
\* difference, or the whole row was gone and one row now stands for all of them.
LEMMA ExposeRow ==
    ASSUME NEW c \in Row, NEW s \in Row, NEW e \in Row,
           NEW older \in Nat, NEW h \in Nat, older <= h,
           NEW Y \in SUBSET Versions, Hidden(c, older, Y), Between(c, s, e, Y)
    PROVE  SameOrBack(s, e, h)
<1> USE DEF Hidden, Between, SameOrBack
<1>0. \A v \in Versions : v \in Nat
  BY HeapAssumption DEF Versions
<1>1. CASE \E w \in Stored(c, older) \ Y : \A v \in Y : v < w
  <2>1. PICK w \in Stored(c, older) \ Y : \A v \in Y : v < w
    BY <1>1
  <2>2. w \in Versions /\ w <= older /\ c[w] # Missing /\ w \notin Y
    BY <2>1 DEF Stored
  <2>3. \A v \in Versions : v >= w => s[v] = e[v]
    BY <1>0, <2>1, <2>2
  <2>4. s[w] # Missing
    BY <2>2
  <2>5. ASSUME NEW t \in Nat, t > h PROVE VisibleRow(e, t) = VisibleRow(s, t)
    <3>1. w <= t
      BY <1>0, <2>2, <2>5
    <3> QED
      BY <2>2, <2>3, <2>4, <3>1, Shadowed
  <2> QED
    BY <2>5
<1>2. CASE \A v \in Versions : c[v] # Missing => v \in Y
  <2>1. \A v \in Versions : s[v] = Missing
    BY <1>2
  <2>2. \A t \in Nat : VisibleRow(s, t) = Absent
    BY <2>1, VisibleNone
  <2>3. \A v \in Versions : e[v] # Missing => v <= h
    BY <1>0, <1>2 DEF Stored
  <2>4. ASSUME NEW t \in Nat, t > h PROVE VisibleRow(e, t) = VisibleRow(e, h)
    <3>1. \A v \in Versions : v <= t /\ e[v] # Missing <=> v <= h /\ e[v] # Missing
      BY <1>0, <2>3, <2>4
    <3> QED
      BY <3>1, VisibleSame
  <2>5. VisibleRow(e, h) \in Values \union {Absent}
    BY VisibleType
  <2> QED
    BY <2>2, <2>4, <2>5
<1> QED
  BY <1>1, <1>2

\* What Vacuum is about to delete of a row makes no difference to readers.
LEMMA DoomedUnseen ==
    ASSUME NEW c \in Row, NEW e \in Row, NEW older \in 0..MaxTx, NEW t \in Nat, t > older,
           \A v \in Versions : e[v] = IF v \in Doomed(c, older) THEN Missing ELSE c[v]
    PROVE  VisibleRow(c, t) = VisibleRow(e, t)
<1>0. \A v \in Versions : v \in Nat
  BY HeapAssumption DEF Versions
<1>n. MaxTx \in Nat /\ older \in Nat
  BY HeapAssumption
<1> DEFINE D == Doomed(c, older)
           m == Newest(Stored(c, older))
<1>1. CASE D = {}
  <2>1. \A v \in Versions : e[v] = c[v]
    BY <1>1
  <2> QED
    BY <2>1, VisibleSame
<1>2. CASE D # {}
  <2>1. Stored(c, older) # {} /\ Stored(c, older) \in SUBSET Versions
    BY <1>2 DEF Doomed, Stored
  <2>2. m \in Stored(c, older) /\ \A v \in Stored(c, older) : v <= m
    BY <2>1, NewestIsLast
  <2>3. m \in Versions /\ m <= older /\ c[m] # Missing
    BY <2>2 DEF Stored
  <2>4. \/ m \in Stored(c, older) \ D /\ \A v \in D : v < m
        \/ (\A v \in Versions : c[v] # Missing => v \in D) /\ c[m] = Tombstone
    BY <1>2, DoomedSafe
  <2>5. m <= t
    BY <1>0, <1>n, <2>3
  <2>d. \A v \in Versions : e[v] = IF v \in D THEN Missing ELSE c[v]
    OBVIOUS
  <2>s. D \subseteq Stored(c, older)
    BY DoomedStored
  <2> HIDE DEF m, D
  <2>6. CASE m \in Stored(c, older) \ D /\ \A v \in D : v < m
    <3>1. \A v \in Versions : v >= m => c[v] = e[v]
      BY <1>0, <2>3, <2>6, <2>d
    <3> QED
      BY <2>3, <2>5, <3>1, Shadowed
  <2>7. CASE (\A v \in Versions : c[v] # Missing => v \in D) /\ c[m] = Tombstone
    <3>1. \A v \in Versions : e[v] = Missing
      BY <2>7, <2>d
    <3>2. VisibleRow(e, t) = Absent
      BY <3>1, VisibleNone
    <3>3. \A v \in Versions : v <= t /\ c[v] # Missing => v <= m
      BY <2>2, <2>7, <2>s
    <3>4. VisibleRow(c, t) = Absent
      BY <2>3, <2>5, <2>7, <3>3, VisibleAt
    <3> QED
      BY <3>2, <3>4
  <2> QED
    BY <2>4, <2>6, <2>7
<1> QED
  BY <1>1, <1>2

LEMMA SettledType ==
    ASSUME TypeOK, NEW k \in PKs
    PROVE  /\ Settled(k) \in Row /\ cells[k] \in Row
           /\ vac.todo = {} => Settled(k) = cells[k]
  BY DEF TypeOK, Settled, Row, Cell

\* Rows that look the same to every reader make the same view.
LEMMA SameViews ==
    ASSUME horizon' = horizon,
           \A k \in PKs : \A t \in (horizon + 1)..MaxTx :
               VisibleRow(Settled(k)', t) = VisibleRow(Settled(k), t)
    PROVE  UNCHANGED <<horizon, Views>>
  BY DEF Views

LEMMA ViewsValue ==
    ASSUME NEW k \in PKs, NEW t \in (horizon + 1)..MaxTx
    PROVE  Views[k][t] = VisibleRow(Settled(k), t)
  BY DEF Views

\* A write by transaction t changes the view as HeapView's Write does.
LEMMA PutView ==
    ASSUME TypeOK, VacuumInv, NEW k \in PKs, NEW t \in Versions,
           NEW x \in Values \union {Tombstone},
           ~vac.on, Monotonic(cells[k], t), Put(k, t, x)
    PROVE  /\ View!Write(k, t, IF x = Tombstone THEN Absent ELSE x)
           /\ View!Stands(k, t, VisibleRow(cells[k], t))
<1> DEFINE y == IF x = Tombstone THEN Absent ELSE x
<1>0. /\ vac.todo = {} /\ vac' = vac /\ horizon' = horizon
      /\ cells' = [cells EXCEPT ![k] = [cells[k] EXCEPT ![t] = x]]
  BY DEF VacuumInv, Put
<1>1. \A j \in PKs : cells[j] \in Row /\ Settled(j) = cells[j]
  BY <1>0, SettledType
<1>2. \A j \in PKs : cells'[j] = IF j = k THEN [cells[k] EXCEPT ![t] = x] ELSE cells[j]
  BY <1>0 DEF TypeOK
<1>3. \A j \in PKs : cells'[j] \in Row
  BY <1>1, <1>2 DEF Row, Cell
<1>4. \A j \in PKs : Settled(j)' = cells'[j]
  BY <1>0, <1>3 DEF Settled, Row
<1>5. \A u \in (horizon + 1)..MaxTx : u \in Nat
  BY HeapAssumption DEF TypeOK
<1>6. \A u \in (horizon + 1)..MaxTx :
        VisibleRow(cells'[k], u) = IF u >= t THEN y ELSE VisibleRow(cells[k], u)
  BY <1>1, <1>2, <1>5, WriteRow
<1>7. \A u \in (horizon + 1)..MaxTx :
        u >= t => VisibleRow(cells[k], u) = VisibleRow(cells[k], t)
  BY <1>1, <1>5, WriteRow
<1> HIDE DEF y
<1>8. Views' = [j \in PKs |-> [u \in (horizon + 1)..MaxTx |-> VisibleRow(cells'[j], u)]]
  BY <1>0, <1>4 DEF Views
<1>9. Views = [j \in PKs |-> [u \in (horizon + 1)..MaxTx |-> VisibleRow(cells[j], u)]]
  BY <1>1 DEF Views
<1>10. Views' = [Views EXCEPT ![k] = [u \in (horizon + 1)..MaxTx |->
                    IF u >= t THEN y ELSE Views[k][u]]]
  <2>1. Views'[k] = [u \in (horizon + 1)..MaxTx |-> VisibleRow(cells'[k], u)]
    BY <1>8
  <2>2. \A u \in (horizon + 1)..MaxTx : Views[k][u] = VisibleRow(cells[k], u)
    BY <1>9
  <2>3. Views'[k] = [u \in (horizon + 1)..MaxTx |-> IF u >= t THEN y ELSE Views[k][u]]
    BY <1>6, <2>1, <2>2
  <2>4. \A j \in PKs : j # k => Views'[j] = Views[j]
    BY <1>2, <1>8, <1>9
  <2>5. Views' = [j \in PKs |-> Views'[j]] /\ Views = [j \in PKs |-> Views[j]]
    BY <1>8, <1>9
  <2> QED
    BY <2>3, <2>4, <2>5
<1>11. View!Write(k, t, y)
  BY <1>0, <1>10 DEF View!Write, View!Readers
<1>12. View!Stands(k, t, VisibleRow(cells[k], t))
  BY <1>7, <1>9 DEF View!Stands, View!Readers
<1> QED
  BY <1>11, <1>12 DEF y

\* An interrupted deletion, by an error or a crash, is a stutter or a Resurrect.
LEMMA InterruptView ==
    ASSUME TypeOK, VacuumInv, TypeOK', VacuumSkip \/ Crash
    PROVE  \/ UNCHANGED <<horizon, Views>>
           \/ vac.pk \in PKs /\ vac.todo # {} /\ \E v \in Values : View!Resurrect(vac.pk, v)
<1>0. /\ cells' = cells /\ horizon' = horizon
      /\ vac'.todo \subseteq vac.todo /\ (vac'.todo # {} => vac'.pk = vac.pk)
  BY DEF VacuumSkip, Crash, Idle, TypeOK
<1>1. \A j \in PKs : cells[j] \in Row /\ Settled(j) \in Row /\ Settled(j)' \in Row
  <2> TAKE j \in PKs
  <2>1. cells[j] \in Row /\ Settled(j) \in Row
    BY SettledType
  <2>2. Settled(j)' \in Row
    BY <2>1, <1>0 DEF Settled, Row, Cell
  <2> QED
    BY <2>1, <2>2
<1>2. \A u \in (horizon + 1)..MaxTx : u \in Nat /\ u > horizon
  BY HeapAssumption DEF TypeOK
<1>3. \A j \in PKs : vac.todo = {} \/ j # vac.pk => Settled(j)' = Settled(j)
  BY <1>0 DEF Settled
<1>4. CASE vac.todo = {}
  BY <1>0, <1>3, <1>4, SameViews
<1>5. CASE vac.todo # {}
  <2>0. PICK k \in PKs : k = vac.pk
    BY <1>5 DEF VacuumInv
  <2> DEFINE s == Settled(k)
             e == Settled(k)'
  <2>1. /\ vac.on /\ k \in PKs /\ vac.older <= horizon
        /\ vac.todo \subseteq Stored(cells[k], vac.older)
        /\ \/ \E w \in Stored(cells[k], vac.older) \ vac.todo : \A v \in vac.todo : v < w
           \/ \A v \in Versions : cells[k][v] # Missing => v \in vac.todo
    BY <1>5, <2>0 DEF VacuumInv
  <2>2. vac.todo \in SUBSET Versions /\ vac.older \in Nat /\ horizon \in Nat
    BY HeapAssumption DEF TypeOK
  <2>3. s \in Row /\ e \in Row /\ cells[k] \in Row
    BY <1>1, <2>1
  <2>4. \A v \in Versions : s[v] = IF v \in vac.todo THEN Missing ELSE cells[k][v]
    BY <2>0 DEF Settled
  <2>5. \A v \in Versions \ vac.todo : e[v] = cells[k][v]
    BY <1>0 DEF Settled
  <2>6. \/ \A t \in Nat : t > horizon => VisibleRow(e, t) = VisibleRow(s, t)
        \/ \E y \in Values : \A t \in Nat :
             t > horizon => VisibleRow(s, t) = Absent /\ VisibleRow(e, t) = y
    <3>1. Hidden(cells[k], vac.older, vac.todo)
      BY <2>1 DEF Hidden
    <3>2. Between(cells[k], s, e, vac.todo)
      BY <2>4, <2>5 DEF Between
    <3>3. SameOrBack(s, e, horizon)
      <4> HIDE DEF s, e
      <4> QED
        BY <2>1, <2>2, <2>3, <3>1, <3>2, ExposeRow
    <3> QED
      BY <3>3 DEF SameOrBack
  <2>7. CASE \A t \in Nat : t > horizon => VisibleRow(e, t) = VisibleRow(s, t)
    BY <1>0, <1>2, <1>3, <2>0, <2>7, SameViews
  <2>8. ASSUME NEW y \in Values,
               \A t \in Nat : t > horizon => VisibleRow(s, t) = Absent /\ VisibleRow(e, t) = y
        PROVE  View!Resurrect(k, y)
    <3>1. \A u \in (horizon + 1)..MaxTx : u >= 0
      BY <1>2
    <3>2. View!Stands(k, 0, Absent)
      BY <1>2, <2>1, <2>8, ViewsValue DEF View!Stands, View!Readers
    <3>3. Views' = [j \in PKs |-> [u \in (horizon + 1)..MaxTx |-> VisibleRow(Settled(j)', u)]]
      BY <1>0 DEF Views
    <3>4. Views' = [Views EXCEPT ![k] = [u \in (horizon + 1)..MaxTx |-> y]]
      <4>1. \A u \in (horizon + 1)..MaxTx : VisibleRow(Settled(k)', u) = y
        BY <1>2, <2>8
      <4>2. \A j \in PKs : j # k => Settled(j)' = Settled(j)
        BY <1>3, <2>0
      <4>3. Views'[k] = [u \in (horizon + 1)..MaxTx |-> y]
        BY <3>3, <4>1
      <4>4. \A j \in PKs : j # k => Views'[j] = Views[j]
        BY <3>3, <4>2 DEF Views
      <4>5. Views' = [j \in PKs |-> Views'[j]] /\ Views = [j \in PKs |-> Views[j]]
        BY <3>3 DEF Views
      <4> QED
        BY <4>3, <4>4, <4>5
    <3>5. View!Write(k, 0, y)
      BY <1>0, <3>1, <3>4 DEF View!Write, View!Readers
    <3> QED
      BY <3>2, <3>5 DEF View!Resurrect
  <2> QED
    BY <1>5, <2>0, <2>6, <2>7, <2>8
<1> QED
  BY <1>4, <1>5

\* VacuumStart takes readers away and changes nothing for the others.
LEMMA StartView ==
    ASSUME TypeOK, VacuumInv, NEW older \in 0..MaxTx, VacuumStart(older)
    PROVE  horizon' \in 0..MaxTx /\ View!Forget(horizon')
<1>h. MaxTx \in Nat /\ horizon \in 0..MaxTx /\ Versions = 1..MaxTx
  BY HeapAssumption DEF TypeOK, Versions
<1>1. horizon' >= horizon /\ horizon' \in 0..MaxTx
  BY <1>h DEF VacuumStart
<1>2. vac.todo = {} /\ vac'.todo = {} /\ cells' = cells
  BY DEF VacuumStart, VacuumInv, Idle
<1>3. \A j \in PKs : Settled(j)' = Settled(j)
  BY <1>2 DEF Settled
<1>4. \A t \in (horizon' + 1)..MaxTx : t \in (horizon + 1)..MaxTx
  <2>1. \A a, b \in 0..MaxTx : a >= b =>
          \A t \in (a + 1)..MaxTx : t \in (b + 1)..MaxTx
    BY <1>h
  <2> QED
    BY <1>h, <1>1, <2>1
<1>5. Views' = [j \in PKs |-> [t \in (horizon' + 1)..MaxTx |-> VisibleRow(Settled(j), t)]]
  BY <1>3 DEF Views
<1>6. Views' = [j \in PKs |-> [t \in (horizon' + 1)..MaxTx |-> Views[j][t]]]
  BY <1>4, <1>5, ViewsValue
<1>7. View!Forget(horizon')
  BY <1>1, <1>6 DEF View!Forget, View!Readers
<1> QED
  BY <1>1, <1>7

\* A Vacuum that is not interrupted changes nothing that a reader sees.
LEMMA VacuumView ==
    ASSUME TypeOK, VacuumInv,
           (\E k \in PKs : VacuumGroup(k)) \/ VacuumDelete \/ VacuumReturn \/ UNCHANGED vars
    PROVE  UNCHANGED <<horizon, Views>>
<1>h. MaxTx \in Nat /\ horizon \in 0..MaxTx /\ Versions = 1..MaxTx
  BY HeapAssumption DEF TypeOK, Versions
<1>5. ASSUME NEW k \in PKs, VacuumGroup(k)
      PROVE  UNCHANGED <<horizon, Views>>
  <2>1. /\ vac.todo = {} /\ vac.on /\ cells' = cells /\ horizon' = horizon
        /\ vac'.pk = k /\ vac'.todo = Doomed(cells[k], vac.older)
    BY <1>5 DEF VacuumGroup, TypeOK
  <2>2. vac.older <= horizon /\ vac.older \in 0..MaxTx
    BY <2>1 DEF VacuumInv, TypeOK
  <2>3. \A j \in PKs : cells[j] \in Row /\ Settled(j) = cells[j]
    BY <2>1, SettledType
  <2>4. \A j \in PKs : Settled(j)' =
          [v \in Versions |-> IF k = j /\ v \in Doomed(cells[k], vac.older)
                              THEN Missing ELSE cells[j][v]]
    BY <2>1 DEF Settled
  <2>5. \A j \in PKs : Settled(j)' \in Row
    BY <2>3, <2>4 DEF Row, Cell
  <2>6. \A t \in (horizon + 1)..MaxTx : t \in Nat /\ t > vac.older
    BY <1>h, <2>2
  <2>7. ASSUME NEW t \in (horizon + 1)..MaxTx
        PROVE  VisibleRow(cells[k], t) = VisibleRow(Settled(k)', t)
    <3> DEFINE e == Settled(k)'
    <3>1. e \in Row /\ \A v \in Versions :
            e[v] = IF v \in Doomed(cells[k], vac.older) THEN Missing ELSE cells[k][v]
      BY <2>4, <2>5
    <3> HIDE DEF e
    <3>2. VisibleRow(cells[k], t) = VisibleRow(e, t)
      BY <2>2, <2>3, <2>6, <3>1, DoomedUnseen
    <3> QED
      BY <3>2 DEF e
  <2>8. \A j \in PKs : j # k => Settled(j)' = Settled(j)
    BY <2>3, <2>4 DEF Row
  <2> QED
    BY <2>1, <2>3, <2>7, <2>8, SameViews
<1>6. ASSUME VacuumDelete
      PROVE  UNCHANGED <<horizon, Views>>
  <2>1. vac.todo # {} /\ vac.pk \in PKs /\ vac.todo \in SUBSET Versions
    BY <1>6 DEF VacuumDelete, VacuumInv, TypeOK
  <2> DEFINE x == Newest(vac.todo)
  <2>2. x \in vac.todo
    BY <2>1, NewestIsLast
  <2>3. /\ cells' = [cells EXCEPT ![vac.pk] = [cells[vac.pk] EXCEPT ![x] = Missing]]
        /\ vac'.pk = vac.pk /\ vac'.todo = vac.todo \ {x} /\ horizon' = horizon
    BY <1>6 DEF VacuumDelete, TypeOK
  <2> HIDE DEF x
  <2>4. \A j \in PKs : \A v \in Versions :
          cells'[j][v] = IF j = vac.pk /\ v = x THEN Missing ELSE cells[j][v]
    BY <2>1, <2>3 DEF TypeOK
  <2>5. \A j \in PKs : Settled(j)' = Settled(j)
    BY <2>2, <2>3, <2>4 DEF Settled
  <2> QED
    BY <2>3, <2>5, SameViews
<1>8. ASSUME VacuumReturn
      PROVE  UNCHANGED <<horizon, Views>>
  <2>1. vac.todo = {} /\ vac'.todo = {} /\ cells' = cells /\ horizon' = horizon
    BY <1>8 DEF VacuumReturn, Idle
  <2>2. \A j \in PKs : Settled(j)' = Settled(j)
    BY <2>1 DEF Settled
  <2> QED
    BY <2>1, <2>2, SameViews
<1>9. ASSUME UNCHANGED vars
      PROVE  UNCHANGED <<horizon, Views>>
  BY <1>9 DEF vars, Views, Settled
<1> QED
  BY <1>5, <1>6, <1>8, <1>9

LEMMA ViewStep ==
    TypeOK /\ VacuumInv /\ [Next]_vars => [View!Next]_<<horizon, Views>>
<1> SUFFICES ASSUME TypeOK, VacuumInv, [Next]_vars
             PROVE  View!Next \/ UNCHANGED <<horizon, Views>>
  OBVIOUS
<1>t. TypeOK'
  BY TypeStep
<1>h. MaxTx \in Nat /\ horizon \in 0..MaxTx /\ Versions = 1..MaxTx
  BY HeapAssumption DEF TypeOK, Versions
<1>1. ASSUME NEW k \in PKs, NEW v \in Values, NEW t \in Versions, Insert(k, v, t)
      PROVE  View!Next
  <2>1. v # Tombstone
    BY HeapAssumption
  <2>2. View!Write(k, t, v) /\ View!Stands(k, t, Absent)
    BY <1>1, <2>1, PutView DEF Insert
  <2> QED
    BY <1>h, <2>2 DEF View!Next, View!Insert
<1>2. ASSUME NEW k \in PKs, NEW v \in Values, NEW t \in Versions, Update(k, v, t)
      PROVE  View!Next
  <2>1. v # Tombstone /\ VisibleRow(cells[k], t) \in Values
    BY <1>2, HeapAssumption, SettledType, VisibleType DEF Update
  <2>2. View!Write(k, t, v) /\ View!Stands(k, t, VisibleRow(cells[k], t))
    BY <1>2, <2>1, PutView DEF Update
  <2> QED
    BY <1>h, <2>1, <2>2 DEF View!Next, View!Update
<1>3. ASSUME NEW k \in PKs, NEW t \in Versions, Delete(k, t)
      PROVE  View!Next
  <2>1. VisibleRow(cells[k], t) \in Values
    BY <1>3, SettledType, VisibleType DEF Delete
  <2>2. View!Write(k, t, Absent) /\ View!Stands(k, t, VisibleRow(cells[k], t))
    BY <1>3, PutView DEF Delete
  <2> QED
    BY <1>h, <2>1, <2>2 DEF View!Next, View!Delete
<1>4. ASSUME NEW older \in 0..MaxTx, VacuumStart(older)
      PROVE  View!Next
  BY <1>4, StartView DEF View!Next
<1>5. ASSUME (\E k \in PKs : VacuumGroup(k)) \/ VacuumDelete \/ VacuumReturn \/ UNCHANGED vars
      PROVE  UNCHANGED <<horizon, Views>>
  BY <1>5, VacuumView
<1>6. ASSUME VacuumSkip \/ Crash
      PROVE  View!Next \/ UNCHANGED <<horizon, Views>>
  BY <1>6, <1>t, InterruptView DEF View!Next
<1> QED
  BY <1>1, <1>2, <1>3, <1>4, <1>5, <1>6 DEF Next

LEMMA ViewInit == Init => View!Init
<1> SUFFICES ASSUME Init PROVE View!Init
  OBVIOUS
<1>1. \A k \in PKs : \A v \in Versions : Settled(k)[v] = Missing
  BY DEF Init, Settled, Idle
<1>2. \A k \in PKs : \A t : VisibleRow(Settled(k), t) = Absent
  BY <1>1, VisibleNone
<1>3. horizon = 0
  BY DEF Init
<1> QED
  BY <1>2, <1>3 DEF Views, View!Init, View!Readers

\* Readers above every olderThan see the table of HeapView, whatever the order in
\* which transactions write and wherever Vacuum is interrupted.
THEOREM Refinement == Spec => Implements
<1>1. Init => TypeOK /\ VacuumInv /\ View!Init
  BY TypeInit, VacuumInit, ViewInit
<1>2. TypeOK /\ VacuumInv /\ [Next]_vars
        => (TypeOK /\ VacuumInv)' /\ [View!Next]_<<horizon, Views>>
  BY TypeStep, VacuumStep, ViewStep
<1> QED
  BY <1>1, <1>2, PTL DEF Spec, Implements, View!Spec

-----------------------------------------------------------------------------
(* Deleted rows. *)

\* A write to another row, or to this one from an id that no reader reaches, shows nobody
\* row k.
LEMMA WriteHolds ==
    ASSUME NEW j \in PKs, NEW t, NEW x, View!Write(j, t, x), NEW k \in PKs, Gone(k),
           j # k \/ \A u \in (horizon + 1)..MaxTx : ~(u >= t)
    PROVE  Gone(k)'
<1>1. horizon' = horizon /\ Views' = [Views EXCEPT ![j] =
          [u \in (horizon + 1)..MaxTx |-> IF u >= t THEN x ELSE Views[j][u]]]
  BY DEF View!Write, View!Readers
<1>2. Views = [i \in PKs |-> Views[i]]
  BY DEF Views
<1>3. \A u \in (horizon + 1)..MaxTx : Views'[k][u] = Views[k][u]
  BY <1>1, <1>2
<1> QED
  BY <1>1, <1>3 DEF Gone

\* Every step that shows a deleted row again is an Insert of it or an interruption of
\* Vacuum at it.
LEMMA HoldStep ==
    ASSUME TypeOK, VacuumInv, [Next]_vars, NEW k \in PKs, Gone(k), ~Gone(k)'
    PROVE  \/ \E v \in Values, t \in Versions : Insert(k, v, t)
           \/ vac.pk = k /\ vac.todo # {} /\ (VacuumSkip \/ Crash)
<1>t. TypeOK'
  BY TypeStep
<1>0. \A u \in (horizon + 1)..MaxTx : Views[k][u] = Absent
  BY DEF Gone
<1>1. ASSUME NEW j \in PKs, NEW v \in Values, NEW t \in Versions, Insert(j, v, t) PROVE j = k
  <2>1. v # Tombstone
    BY HeapAssumption
  <2>2. View!Write(j, t, v)
    BY <1>1, <2>1, PutView DEF Insert
  <2> QED
    BY <2>2, WriteHolds
<1>2. ASSUME NEW j \in PKs, NEW t \in Versions, NEW x \in Values \union {Tombstone},
             ~vac.on, Monotonic(cells[j], t), VisibleRow(cells[j], t) # Absent, Put(j, t, x)
      PROVE  FALSE
  <2>1. /\ View!Write(j, t, IF x = Tombstone THEN Absent ELSE x)
        /\ View!Stands(j, t, VisibleRow(cells[j], t))
    BY <1>2, PutView
  <2>2. j = k => \A u \in (horizon + 1)..MaxTx : ~(u >= t)
    BY <1>0, <1>2, <2>1 DEF View!Stands, View!Readers
  <2> QED
    BY <2>1, <2>2, WriteHolds
<1>3. ASSUME NEW older \in 0..MaxTx, VacuumStart(older) PROVE FALSE
  <2>1. horizon' \in 0..MaxTx /\ View!Forget(horizon')
    BY <1>3, StartView
  <2>2. /\ horizon' >= horizon /\ horizon \in 0..MaxTx /\ MaxTx \in Nat
        /\ Views' = [i \in PKs |-> [u \in (horizon' + 1)..MaxTx |-> Views[i][u]]]
    BY <2>1, HeapAssumption DEF View!Forget, View!Readers, TypeOK
  <2>3. \A u \in (horizon' + 1)..MaxTx : u \in (horizon + 1)..MaxTx
    <3>1. \A a, b \in 0..MaxTx : a >= b => \A u \in (a + 1)..MaxTx : u \in (b + 1)..MaxTx
      BY <2>2
    <3> QED
      BY <2>1, <2>2, <3>1
  <2>4. \A u \in (horizon' + 1)..MaxTx : Views'[k][u] = Views[k][u]
    BY <2>2
  <2> QED
    BY <1>0, <2>3, <2>4 DEF Gone
<1>4. ASSUME UNCHANGED <<horizon, Views>> PROVE FALSE
  BY <1>4 DEF Gone
<1>5. ASSUME VacuumSkip \/ Crash PROVE vac.pk = k /\ vac.todo # {}
  <2>1. PICK v \in Values : vac.pk \in PKs /\ vac.todo # {} /\ View!Resurrect(vac.pk, v)
    BY <1>4, <1>5, <1>t, InterruptView
  <2> QED
    BY <2>1, WriteHolds DEF View!Resurrect
<1>6. ASSUME NEW j \in PKs, NEW v \in Values, NEW t \in Versions, Update(j, v, t) PROVE FALSE
  BY <1>2, <1>6 DEF Update
<1>7. ASSUME NEW j \in PKs, NEW t \in Versions, Delete(j, t) PROVE FALSE
  BY <1>2, <1>7 DEF Delete
<1>8. CASE (\E j \in PKs : VacuumGroup(j)) \/ VacuumDelete \/ VacuumReturn \/ UNCHANGED vars
  BY <1>4, <1>8, VacuumView
<1> QED
  BY <1>1, <1>3, <1>5, <1>6, <1>7, <1>8 DEF Next

\* A deleted row stays deleted until it is inserted again, unless Vacuum is interrupted at that
\* row, whatever keys, values and transactions there are.
THEOREM DeletedRowsStay == Spec => DeletesHold
<1>1. Init => TypeOK /\ VacuumInv
  BY TypeInit, VacuumInit
<1>2. TypeOK /\ VacuumInv /\ [Next]_vars => (TypeOK /\ VacuumInv)'
  BY TypeStep, VacuumStep
<1>3. TypeOK /\ VacuumInv /\ [Next]_vars =>
        [\A k \in PKs : Gone(k) /\ ~Gone(k)' =>
           \/ \E v \in Values, t \in Versions : Insert(k, v, t)
           \/ vac.pk = k /\ vac.todo # {} /\ (VacuumSkip \/ Crash)]_vars
  BY HoldStep
<1> QED
  BY <1>1, <1>2, <1>3, PTL DEF Spec, DeletesHold
=============================================================================
