------------------------------ MODULE Intervals ------------------------------
(****************************************************************************)
(* The interval class of interval.h and the two functions of utility.h on   *)
(* it.  An interval is half-open, [lower, upper[, over the unsigned integers *)
(* of a machine type with Word values (Word = 2^w).                         *)
(****************************************************************************)
EXTENDS Integers, Sequences

CONSTANT Word   \* the number of values of base_type

ASSUME WordAssumption == Word \in Nat \ {0}

Value == 0 .. Word - 1

Itv(a, b) == [lower |-> a, upper |-> b]

Interval == [lower : Value, upper : Value]

\* What every caller hands to add() and remove(): the bounds are ordered.  An
\* interval whose two bounds are equal holds nothing and is legal: the calls take it.
Legal(i) == i.lower <= i.upper

LegalInterval == {i \in Interval : Legal(i)}

\* interval::empty()
Empty == Itv(0, 0)

\* base_type arithmetic: upper - lower wraps when the bounds are not ordered.
Width(i) == IF i.lower <= i.upper THEN i.upper - i.lower
                                  ELSE i.upper - i.lower + Word

Has(i, v) == i.lower <= v /\ v < i.upper

\* Two intervals that only touch overlap too, which is what merges them.
Overlap(a, b) == \/ a.lower <= b.lower /\ b.lower <= a.upper
                 \/ b.lower <= a.lower /\ a.lower <= b.upper

Least(x, y) == IF x <= y THEN x ELSE y
Greatest(x, y) == IF x <= y THEN y ELSE x

Hull(a, b) == Itv(Least(a.lower, b.lower), Greatest(a.upper, b.upper))

------------------------------------------------------------------------------
(* The loop body of list_intervals::split_merged_interval_removed(). *)

\* A slip: when the removed interval is inside, the piece keeps its lower bound.
LeftOfUncut(p, r) ==
    IF p.lower >= r.lower /\ p.upper <= r.upper THEN Empty
    ELSE IF p.lower >= r.lower /\ p.upper >= r.upper /\ p.lower <= r.upper
         THEN Itv(r.upper, p.upper)
    ELSE IF p.lower <= r.lower /\ p.upper <= r.upper /\ p.upper >= r.lower
         THEN Itv(p.lower, r.lower)
    ELSE p

\* Its four cases, in the order of the code: what is left of the piece `p`
\* after the removed interval `r`...
LeftOf(p, r) ==
    IF p.lower >= r.lower /\ p.upper <= r.upper THEN Empty
    ELSE IF p.lower >= r.lower /\ p.upper >= r.upper /\ p.lower <= r.upper
         THEN Itv(r.upper, p.upper)
    ELSE IF p.lower <= r.lower /\ p.upper <= r.upper /\ p.upper >= r.lower
         THEN Itv(p.lower, r.lower)
    ELSE IF p.lower <= r.lower /\ p.upper >= r.upper
         THEN Itv(r.upper, p.upper)
    ELSE p

\* ... and whether the fourth case is the one taken (the earlier ones take the
\* pieces that have a bound in common with r): r is strictly inside the piece,
\* and the part below r goes to the result.
CutsInTwo(p, r) == p.lower < r.lower /\ p.upper > r.upper

------------------------------------------------------------------------------
(* What a list of intervals stands for, and the orders it can be in. *)

InList(s, v) == \E k \in 1 .. Len(s) : Has(s[k], v)

Covered(s) == {v \in Value : InList(s, v)}

\* cmp_f: intervals are compared by their lower bound only.
SortedByLower(s) == \A j, k \in 1 .. Len(s) : j < k => s[j].lower <= s[k].lower

\* No value is in two intervals of the list, and they come in order.
InOrder(s) == \A j, k \in 1 .. Len(s) : j < k => s[j].upper <= s[k].lower

\* In addition no two of them touch.
Separated(s) == \A j, k \in 1 .. Len(s) : j < k => s[j].upper < s[k].lower
==============================================================================
