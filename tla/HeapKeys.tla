------------------------------ MODULE HeapKeys ------------------------------
(* The heap with the encodings of its rows.  A version of the heap stands for   *)
(* the rows of several tables with that version and many primary keys, a value  *)
(* of the heap for a set of rows.                                               *)
EXTENDS Heap, KeyEncoding

CONSTANTS
    KeyValues,          \* bound: the values of each kind
    KeyKinds, TableIDs, \* the kinds of the primary keys; the tables
    RowsOf              \* [kinds, xs], by value of the heap

Typed(kind) == {[kind |-> kind, v |-> v] : v \in KeyValues[kind]}
KeyTuples(kinds) ==
    {t \in [1 .. Len(kinds) -> UNION {Typed(kinds[i]) : i \in 1 .. Len(kinds)}] :
        \A i \in 1 .. Len(kinds) : t[i] \in Typed(kinds[i])}
Rows(kinds) == [table : TableIDs, pk : KeyTuples(kinds)]
NoBytes(kinds) == \A i \in 1 .. Len(kinds) : kinds[i] # "bytes"
KeyOf(r, v) == EncodeTableRowKey(r.table, r.pk, v)

ValueLess(x, y) == IF x.kind \in {"uint64", "int64"} THEN x.v[1] < y.v[1] ELSE Less(x.v, y.v)

\* Table, columns in their order, version.
RowLess(r, v, s, w) ==
    \/ r.table < s.table
    \/ r.table = s.table /\ \E i \in 1 .. Len(r.pk) :
           ValueLess(r.pk[i], s.pk[i]) /\ \A j \in 1 .. i - 1 : r.pk[j] = s.pk[j]
    \/ r = s /\ v < w

Within(p, k) == ~Less(k, p) /\ Less(k, PrefixEnd(p))

---------------------------------------------------------------------------
(* The versions for which the encodings do what the heap needs.                *)

SortedVersions ==
    {v \in 1 .. MaxTx : \A w \in 1 .. MaxTx, kinds \in KeyKinds : NoBytes(kinds) => \A r, s \in Rows(kinds) :
        RowLess(r, v, s, w) <=> Less(KeyOf(r, v), KeyOf(s, w))}

DecodedVersions ==
    {v \in 1 .. MaxTx : \A kinds \in KeyKinds : \A r \in Rows(kinds) :
        DecodeTableRowKey(KeyOf(r, v), kinds) =
            [ok |-> TRUE, tableID |-> r.table, pk |-> r.pk, version |-> v]}

FoundBy(v, kinds) ==
    \A r, s \in Rows(kinds) :
        /\ Within(EncodeTableRowPrefix(r.table, r.pk), KeyOf(s, v)) <=> r = s
        /\ Within(TablePrefix(r.table), KeyOf(s, v)) <=> r.table = s.table
FoundVersions == {v \in 1 .. MaxTx : \A kinds \in KeyKinds : NoBytes(kinds) => FoundBy(v, kinds)}
FoundVersionsBytes == {v \in 1 .. MaxTx : \A kinds \in KeyKinds : FoundBy(v, kinds)}

DecodedValues ==
    {x \in Values : \A row \in RowsOf[x] :
        DecodeEnterpriseValue(row.kinds, EncodeEnterpriseValue(row.xs)) = [ok |-> TRUE, vals |-> row.xs]}

---------------------------------------------------------------------------
StoredVersions == UNION {{v \in 1 .. MaxTx : cells[k][v] # "missing"} : k \in PKs}
StoredValues == UNION {{cells[k][v] : v \in 1 .. MaxTx} : k \in PKs} \cap Values

\* The keys of the stored rows sort as their tables, primary keys and versions do, over mixed
\* columns, negative numbers and strings one of which begins the other (EncodeTableRowKey).
RowKeysSorted == StoredVersions \subseteq SortedVersions

\* DecodeTableRowKey reads what EncodeTableRowKey wrote, also where a number holds the zero
\* byte that ends a string, and decodeEnterpriseValue returns the columns that
\* encodeEnterpriseValue was given, with NULLs and empty strings told apart.
RowsDecode == StoredVersions \subseteq DecodedVersions /\ StoredValues \subseteq DecodedValues

\* The range from EncodeTableRowPrefix to PrefixEnd holds all stored versions of one row and of
\* no other, and that of TablePrefix one table: what findVisibleRow, validateMonotonicTx and
\* the scans of the table take for granted.
PrefixBounds == StoredVersions \subseteq FoundVersions

\* PrefixBounds with byte slices, which have no terminator: "scan all versions of a given PK"
\* (EncodeTableRowPrefix) is not what the range gives.
BytesPrefixBounds == StoredVersions \subseteq FoundVersionsBytes
=============================================================================
