------------------------------- MODULE Tokens -------------------------------
(****************************************************************************)
(* The texts that the parser of ips_parser.cpp takes apart.  A text is a    *)
(* sequence of tokens: a run of digits is its number (more than three       *)
(* digits make a number over 999), and the three separators and any other   *)
(* character are negative numbers.  Spaces are left out: the code skips     *)
(* those around a number.                                                   *)
(****************************************************************************)
EXTENDS Integers, Sequences, FiniteSets

Text == Seq(Int)

Dot == -2
Dash == -3
Slash == -4
Letter == -5

Invalid == -1

Places(s, c) == {k \in 1 .. Len(s) : s[k] = c}
Before(s, k) == SubSeq(s, 1, k - 1)
After(s, k) == SubSeq(s, k + 1, Len(s))

\* n tokens with dots between them.
Numbered(s, n) ==
    /\ Len(s) = 2 * n - 1
    /\ \A k \in 1 .. n : s[2 * k - 1] # Dot
    /\ \A k \in 1 .. n - 1 : s[2 * k] = Dot

\* The elements of a set by their keys, which are different.
Ordered(set, key) ==
    [k \in 1 .. Cardinality(set) |->
        CHOOSE x \in set : Cardinality({y \in set : key[y] < key[x]}) = k - 1]

\* The parts of s between its dots.
Fields(s) ==
    LET dots == Ordered(Places(s, Dot), [k \in 1 .. Len(s) |-> k])
        cuts == <<0>> \o dots \o <<Len(s) + 1>>
    IN  [k \in 1 .. Len(cuts) - 1 |-> SubSeq(s, cuts[k] + 1, cuts[k + 1] - 1)]

\* atoi3() and atoi3_trim(): one number of at most three digits.
Atoi3(s) == IF Len(s) = 1 /\ s[1] \in 0 .. 999 THEN s[1] ELSE Invalid
==============================================================================
