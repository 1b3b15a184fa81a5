------------------------------ MODULE Gorilla ------------------------------
(* The delta-of-delta encoding of timestamps.  A code is the prefix, by the     *)
(* number of bits it announces, and those bits.                                 *)
EXTENDS Integers, Sequences

CONSTANT WideBits   \* the bits of the widest class, 32 in the code

ASSUME GorillaAssumption == WideBits \in Nat /\ WideBits > 12

\* The state of an encoder or a decoder: hasPrevTime, prevTime, prevDelta.
Fresh == [has |-> FALSE, time |-> 0, delta |-> 0]

\* Mutant of Class: the bounds of the 9 bits are those of a two's complement.
ClassTwos(dod) ==
    CASE dod = 0 -> 0
      [] dod \in (-63 .. 64) \ {0} -> 7
      [] dod \in (-256 .. 255) \ (-63 .. 64) -> 9
      [] dod \in (-2047 .. 2048) \ (-256 .. 255) -> 12
      [] OTHER -> WideBits

Class(dod) ==
    CASE dod = 0 -> 0
      [] dod \in (-63 .. 64) \ {0} -> 7
      [] dod \in (-255 .. 256) \ (-63 .. 64) -> 9
      [] dod \in (-2047 .. 2048) \ (-255 .. 256) -> 12
      [] OTHER -> WideBits

WriteTimestamp(e, ts) ==
    LET delta == ts - e.time
        dod == delta - e.delta
        n == Class(dod)
    IN  IF ~e.has THEN [state |-> [has |-> TRUE, time |-> ts, delta |-> 0], code |-> [bits |-> 64, v |-> ts]]
        ELSE [state |-> [has |-> TRUE, time |-> ts, delta |-> delta],
              code  |-> [bits |-> n, v |-> dod % 2 ^ n]]

\* The sign of 7 bits and of the widest class is the highest bit, that of 9 and 12 bits a
\* value above the middle.
Difference(code) ==
    CASE code.bits = 7 -> IF code.v >= 64 THEN code.v - 128 ELSE code.v
      [] code.bits = 9 -> IF code.v > 256 THEN code.v - 512 ELSE code.v
      [] code.bits = 12 -> IF code.v > 2048 THEN code.v - 4096 ELSE code.v
      [] OTHER -> IF code.v > 2 ^ (WideBits - 1) - 1 THEN code.v - 2 ^ WideBits ELSE code.v

ReadTimestamp(d, code) ==
    LET delta == d.delta + Difference(code)
    IN  IF ~d.has THEN [has |-> TRUE, time |-> code.v, delta |-> 0]
        ELSE [has |-> TRUE, time |-> d.time + delta, delta |-> delta]

\* The timestamps are written and read in turn, and every one comes back.
RoundTrip(times) ==
    LET enc[i \in 0 .. Len(times)] ==
            IF i = 0 THEN Fresh ELSE WriteTimestamp(enc[i - 1], times[i]).state
        dec[i \in 0 .. Len(times)] ==
            IF i = 0 THEN Fresh ELSE ReadTimestamp(dec[i - 1], WriteTimestamp(enc[i - 1], times[i]).code)
    IN  \A i \in 1 .. Len(times) : dec[i].time = times[i]

\* The timestamps with these second differences.
Times(start, dods) ==
    LET delta[i \in 0 .. Len(dods)] == IF i = 0 THEN 0 ELSE delta[i - 1] + dods[i]
        time[i \in 0 .. Len(dods)] == IF i = 0 THEN start ELSE time[i - 1] + delta[i]
    IN  [i \in 1 .. Len(dods) + 1 |-> time[i - 1]]

\* Around every bound of the classes.
EdgeDods ==
    UNION {c - 2 .. c + 2 : c \in {-2047, -255, -63, 0, 63, 257, 2049,
                                   -(2 ^ (WideBits - 1)), 2 ^ (WideBits - 1)}}
=============================================================================
