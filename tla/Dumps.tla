-------------------------------- MODULE Dumps --------------------------------
(****************************************************************************)
(* The bytes of a dumped list (list_intervals.h): the memory of the vector, *)
(* two little-endian words for each interval, and in a stream the number of *)
(* intervals before them, as text and without a separator.                  *)
(****************************************************************************)
EXTENDS IpText, Loops

CONSTANT Digits     \* the bytes that are digits when read as text, by their value

ASSUME DigitsAssumption ==
    /\ Digits \in Seq(0 .. Radix - 1) /\ Len(Digits) >= 2
    /\ IsInjective(Digits)

\* sizeof(interval_type)
IntervalSize == 8

Memory(s) ==
    [k \in 1 .. IntervalSize * Len(s) |->
        LET i == s[((k - 1) \div IntervalSize) + 1]
            b == (k - 1) % IntervalSize
        IN  IF b < 4 THEN Byte(i.lower, b) ELSE Byte(i.upper, b - 4)]

\* The word at an offset.
WordAt(bytes, k) == Address(bytes[k + 4], bytes[k + 3], bytes[k + 2], bytes[k + 1])

\* The intervals that a memory holds.
Held(bytes) ==
    [k \in 1 .. Len(bytes) \div IntervalSize |->
        Itv(WordAt(bytes, IntervalSize * (k - 1)), WordAt(bytes, IntervalSize * (k - 1) + 4))]

\* resize(n), then a read of `bytes` into it: what is not read is not initialised,
\* for the constructor of an interval sets nothing.
Filled(n, bytes, garbage) ==
    Held([k \in 1 .. IntervalSize * n |-> IF k <= Len(bytes) THEN bytes[k] ELSE garbage])

------------------------------------------------------------------------------
(* operator<< and operator>> of a stream, for the count. *)

\* A number below Len(Digits) squared.
Numeral(n) ==
    LET base == Len(Digits)
    IN  IF n < base THEN <<Digits[n + 1]>>
                    ELSE <<Digits[(n \div base) + 1], Digits[(n % base) + 1]>>

\* All the digits at the start of the bytes belong to the count.
Leading(bytes) ==
    CHOOSE n \in 0 .. Len(bytes) :
        /\ \A k \in 1 .. n : bytes[k] \in Range(Digits)
        /\ n < Len(bytes) => bytes[n + 1] \notin Range(Digits)

DigitOf(b) == (CHOOSE d \in DOMAIN Digits : Digits[d] = b) - 1

Count(bytes) ==
    LET n == Leading(bytes)
    IN  Loop([k \in 1 .. n |-> [count \in Nat |-> (count * Len(Digits)) + DigitOf(bytes[k])]],
             0, n)[n]

\* dump_stream()
Streamed(s) == Numeral(Len(s)) \o Memory(s)
==============================================================================
