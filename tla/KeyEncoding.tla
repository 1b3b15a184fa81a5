---------------------------- MODULE KeyEncoding ----------------------------
(* The encodings of package key and of the rows of the heap.  A byte has Bits   *)
(* bits (8 in the code), an integer and a length Width bytes (8 and 4).         *)
(* A value is [kind, v]; v is the sequence of bytes, or <<n>> for a number.      *)
EXTENDS Integers, Sequences

CONSTANTS Bits, Width

ASSUME KeyAssumption == Bits \in Nat \ {0} /\ Width \in Nat \ {0}

Base == 2 ^ Bits
Modulus == Base ^ Width

Concat(seqs) ==
    LET upTo[i \in 0 .. Len(seqs)] == IF i = 0 THEN <<>> ELSE upTo[i - 1] \o seqs[i]
    IN  upTo[Len(seqs)]

---------------------------------------------------------------------------
(* Integers, strings and byte slices.                                         *)

\* Mutant of BigEndian: the lowest byte first.
LittleEndian(u) == [i \in 1 .. Width |-> (u \div Base ^ (i - 1)) % Base]

BigEndian(u) == [i \in 1 .. Width |-> (u \div Base ^ (Width - i)) % Base]
Uint(bytes) ==
    LET value[i \in 0 .. Len(bytes)] == IF i = 0 THEN 0 ELSE value[i - 1] * Base + bytes[i]
    IN  value[Len(bytes)]

\* The sign bit is flipped, so that negative numbers come first.
FlipSign(v) == (v + Modulus + Modulus \div 2) % Modulus
UnflipSign(u) == u - Modulus \div 2

Number(kind, bytes) == <<IF kind = "uint64" THEN Uint(bytes) ELSE UnflipSign(Uint(bytes))>>

\* Mutant of EncodeValue: a string is not terminated.
EncodeValueOpen(x) ==
    CASE x.kind = "uint64" -> BigEndian(x.v[1])
      [] x.kind = "int64" -> BigEndian(FlipSign(x.v[1]))
      [] OTHER -> x.v

EncodeValue(x) ==
    CASE x.kind = "uint64" -> BigEndian(x.v[1])
      [] x.kind = "int64" -> BigEndian(FlipSign(x.v[1]))
      [] x.kind = "string" -> x.v \o <<0>>
      [] x.kind = "bytes" -> x.v

---------------------------------------------------------------------------
(* Row keys: tag, table, primary key, version.                                *)

TablePrefix(tableID) == <<1>> \o BigEndian(tableID)

EncodeTableRowPrefix(tableID, pk) ==
    TablePrefix(tableID) \o Concat([i \in 1 .. Len(pk) |-> EncodeValue(pk[i])])

EncodeTableRowKey(tableID, pk, version) == EncodeTableRowPrefix(tableID, pk) \o BigEndian(version)

Malformed == [ok |-> FALSE]

\* The next column from position d.pos on: its value and the position behind it.
DecodeColumn(b, d, kind, last) ==
    LET rest == SubSeq(b, d.pos, Len(b))
        Took(v, n) == [ok |-> TRUE, pos |-> d.pos + n, pk |-> Append(d.pk, [kind |-> kind, v |-> v])]
        zeros == {j \in 1 .. Len(rest) : rest[j] = 0}
        end == CHOOSE j \in zeros : \A k \in zeros : j <= k
    IN  IF rest = <<>> THEN Malformed
        ELSE CASE kind \in {"uint64", "int64"} ->
                    IF Len(rest) < Width THEN Malformed
                    ELSE Took(Number(kind, SubSeq(rest, 1, Width)), Width)
               [] kind = "string" ->
                    IF zeros = {} THEN Malformed ELSE Took(SubSeq(rest, 1, end - 1), end)
               [] kind = "bytes" ->
                    IF ~last \/ Len(rest) < Width THEN Malformed
                    ELSE Took(SubSeq(rest, 1, Len(rest) - Width), Len(rest) - Width)

DecodeTableRowKey(b, kinds) ==
    LET cols[i \in 0 .. Len(kinds)] ==
            IF i = 0 THEN [ok |-> TRUE, pos |-> Width + 2, pk |-> <<>>]
            ELSE IF cols[i - 1].ok THEN DecodeColumn(b, cols[i - 1], kinds[i], i = Len(kinds))
            ELSE Malformed
        d == cols[Len(kinds)]
    IN  IF Len(b) < Width + 1 \/ b[1] # 1 \/ ~d.ok THEN Malformed
        ELSE IF d.pos + Width # Len(b) + 1 THEN Malformed
        ELSE [ok |-> TRUE, tableID |-> Uint(SubSeq(b, 2, Width + 1)), pk |-> d.pk,
              version |-> Uint(SubSeq(b, d.pos, Len(b)))]

\* Mutant of PrefixEnd: the last byte is raised without a carry.
PrefixEndLast(p) == [p EXCEPT ![Len(p)] = (@ + 1) % Base]

\* The bytes of the prefix as a number, raised by one with its carries; <<>> is no bound.
PrefixEnd(p) ==
    LET raised == {i \in 1 .. Len(p) : \A j \in i + 1 .. Len(p) : p[j] = Base - 1}
    IN  IF \A i \in 1 .. Len(p) : p[i] = Base - 1 THEN <<>>
        ELSE [i \in 1 .. Len(p) |-> IF i \in raised THEN (p[i] + 1) % Base ELSE p[i]]

\* The order of bytes.Compare.
Less(a, b) ==
    \/ Len(a) < Len(b) /\ SubSeq(b, 1, Len(a)) = a
    \/ \E i \in 1 .. Len(a) : i <= Len(b) /\ a[i] < b[i] /\ SubSeq(a, 1, i - 1) = SubSeq(b, 1, i - 1)

---------------------------------------------------------------------------
(* Row values: flags, a bit per NULL column, the other columns with their length. *)

Null == [kind |-> "null", v |-> <<>>]
NonNull(x) == x # Null

EncodeField(x) == LET b == IF x.kind \in {"uint64", "int64"} THEN EncodeValue(x) ELSE x.v
                  IN  BigEndian(Len(b)) \o b

EncodeStorageComposite(xs) == Concat([i \in 1 .. Len(xs) |-> EncodeField(xs[i])])

\* The fields of the kinds, cut off one by one; all of the data has to be used.
ParseStorageComposite(data, kinds) ==
    LET Cut(acc, kind) ==
            LET n == Uint(SubSeq(acc.rest, 1, Width))
                b == SubSeq(acc.rest, Width + 1, Width + n)
                v == IF kind \in {"uint64", "int64"} THEN Number(kind, b) ELSE b
            IN  IF ~acc.ok \/ Len(acc.rest) < Width \/ Len(acc.rest) < Width + n
                THEN [acc EXCEPT !.ok = FALSE]
                ELSE [ok |-> TRUE, rest |-> SubSeq(acc.rest, Width + n + 1, Len(acc.rest)),
                      vals |-> Append(acc.vals, [kind |-> kind, v |-> v])]
        fields[i \in 0 .. Len(kinds)] ==
            IF i = 0 THEN [ok |-> TRUE, rest |-> data, vals |-> <<>>] ELSE Cut(fields[i - 1], kinds[i])
        d == fields[Len(kinds)]
    IN  [ok |-> d.ok /\ d.rest = <<>>, vals |-> d.vals]

MaskLen(n) == (n + Bits - 1) \div Bits

NullBit(xs, i) == IF i <= Len(xs) /\ xs[i] = Null THEN 2 ^ ((i - 1) % Bits) ELSE 0

NullMask(xs) ==
    LET sum[i \in 0 .. MaskLen(Len(xs)) * Bits] ==     \* of the byte that column i is in
            IF i = 0 THEN 0 ELSE IF (i - 1) % Bits = 0 THEN NullBit(xs, i) ELSE sum[i - 1] + NullBit(xs, i)
    IN  [k \in 1 .. MaskLen(Len(xs)) |-> sum[k * Bits]]

EncodeEnterpriseValue(xs) ==
    <<0>> \o NullMask(xs) \o EncodeStorageComposite(SelectSeq(xs, NonNull))

DecodeEnterpriseValue(kinds, data) ==
    LET n == Len(kinds)
        mask == SubSeq(data, 2, 1 + MaskLen(n))
        IsNull(i) == (mask[(i - 1) \div Bits + 1] \div 2 ^ ((i - 1) % Bits)) % 2 = 1
        present == SelectSeq([i \in 1 .. n |-> i], LAMBDA i : ~IsNull(i))
        payload == SubSeq(data, 2 + MaskLen(n), Len(data))
        parsed == IF payload = <<>> \/ present = <<>> THEN [ok |-> TRUE, vals |-> <<>>]
                  ELSE ParseStorageComposite(payload, [k \in 1 .. Len(present) |-> kinds[present[k]]])
        Nth(i) == CHOOSE k \in 1 .. Len(present) : present[k] = i
    IN  IF ~parsed.ok \/ Len(present) > Len(parsed.vals) THEN Malformed
        ELSE [ok |-> TRUE, vals |-> [i \in 1 .. n |-> IF IsNull(i) THEN Null ELSE parsed.vals[Nth(i)]]]
=============================================================================
