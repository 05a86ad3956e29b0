----------------------------- MODULE RandomSets -----------------------------
(****************************************************************************)
(* list_intervals::random_sets() (list_intervals.h), both versions, with a  *)
(* uprng: the values of a list are handed to a callback in sets of one size *)
(* and a rest, or in sets of the sizes another callback asks for.           *)
(*                                                                          *)
(* A value is its rank in the list, the argument of at_cached().            *)
(****************************************************************************)
EXTENDS Uprng, Sequences

CONSTANTS
    Sizes,      \* size_div, or size_max
    Asked       \* what the callback fsize_div() answers

\* size_div is cut to the base type before it divides the size of the list.
ASSUME SetsAssumption ==
    /\ Sizes \subseteq 0 .. Word - 1
    /\ Asked \subseteq Nat

VARIABLES
    version,    \* "fixed": random_sets(size_div, ...), "asked": (fsize_div, size_max, ...)
    size,       \* size_div or size_max
    i,          \* the values of the sets handed over
    want,       \* the size of the set that is filled
    buf,        \* interval_buf
    pc,         \* "next" set, "fill" the buffer, "done", or "broke" out of the loop
    sets        \* history: the sets handed over

vars == <<uprng, version, size, i, want, buf, pc, sets>>

Init ==
    /\ UprngInit
    /\ version \in {"fixed", "asked"}
    /\ \E s \in Sizes :
         /\ size = IF version = "fixed" /\ s = 0 THEN 1 ELSE s
         /\ pc = IF version = "asked" /\ s = 0 THEN "broke" ELSE "next"
    /\ i = 0 /\ want = 0 /\ buf = <<>> /\ sets = <<>>

\* size_all_full
Full == (gen.max \div size) * size
Rest == gen.max - Full

Fill(n) ==
    /\ want' = n
    /\ pc' = "fill"
    /\ UNCHANGED <<uprng, version, size, i, buf, sets>>

FullSet ==
    /\ pc = "next" /\ version = "fixed" /\ i < Full
    /\ Fill(size)

RestSet ==
    /\ pc = "next" /\ version = "fixed" /\ i = Full /\ Rest > 0
    /\ Fill(Rest)

\* The size asked for is cut to what is left before it is compared with the buffer.
Cut(n) == IF n < gen.max - i THEN n ELSE gen.max - i

\* A slip: the size is not compared with the buffer.
AskedSetUnchecked ==
    /\ pc = "next" /\ version = "asked" /\ i < gen.max
    /\ \E n \in Asked : Cut(n) # 0 /\ Fill(Cut(n))

AskedSet ==
    /\ pc = "next" /\ version = "asked" /\ i < gen.max
    /\ \E n \in Asked : Cut(n) # 0 /\ Cut(n) <= size /\ Fill(Cut(n))

AskedBreak ==
    /\ pc = "next" /\ version = "asked" /\ i < gen.max
    /\ \E n \in Asked : Cut(n) = 0 \/ Cut(n) > size
    /\ pc' = "broke"
    /\ UNCHANGED <<uprng, version, size, i, want, buf, sets>>

\* A slip: the position is read and not incremented.
DrawInPlace ==
    /\ pc = "fill" /\ Len(buf) < want
    /\ LET res == GetStep(cur_step)
       IN  buf' = IF res < gen.max THEN Append(buf, res) ELSE buf
    /\ UNCHANGED <<uprng, version, size, i, want, pc, sets>>

\* One iteration of the loop of uprng::operator().
Draw ==
    /\ pc = "fill" /\ Len(buf) < want
    /\ LET res == GetStep(cur_step)
       IN  buf' = IF res < gen.max THEN Append(buf, res) ELSE buf
    /\ cur_step' = NextPosition
    /\ UNCHANGED <<gen, version, size, i, want, pc, sets>>

\* fset()
HandOver ==
    /\ pc = "fill" /\ Len(buf) = want
    /\ sets' = Append(sets, buf)
    /\ buf' = <<>>
    /\ i' = i + want
    /\ pc' = "next"
    /\ UNCHANGED <<uprng, version, size, want>>

\* A slip: the rest is left out.
ReturnWithoutRest ==
    /\ pc = "next"
    /\ i >= gen.max \/ (version = "fixed" /\ i >= Full)
    /\ pc' = "done"
    /\ UNCHANGED <<uprng, version, size, i, want, buf, sets>>

Return ==
    /\ pc = "next"
    /\ i >= gen.max
    /\ pc' = "done"
    /\ UNCHANGED <<uprng, version, size, i, want, buf, sets>>

Next ==
    \/ FullSet \/ RestSet \/ AskedSet \/ AskedBreak
    \/ Draw \/ HandOver \/ Return

Spec == Init /\ [][Next]_vars /\ WF_vars(Next)

------------------------------------------------------------------------------
(* Properties. *)

Rank == 0 .. gen.max - 1

\* The types, and that the generator is a permutation of its positions.
TypeOK ==
    /\ gen.max \in Maxes /\ gen.prime < Word /\ GetStepPermutes
    /\ cur_step \in 0 .. gen.prime - 1
    /\ size \in Nat /\ i \in 0 .. gen.max /\ want \in 0 .. gen.max
    /\ buf \in Seq(Rank) /\ sets \in Seq(Seq(Rank))
    /\ pc \in {"next", "fill", "done", "broke"}

\* The sets handed over, and the one that is filled.
AllSets == Append(sets, buf)

\* A value is in one set only, also across the sets and through the positions
\* that the generator passes over because their value is past the list.
NoValueTwice ==
    \A j, k \in 1 .. Len(AllSets) :
        \A x \in 1 .. Len(AllSets[j]), y \in 1 .. Len(AllSets[k]) :
            AllSets[j][x] = AllSets[k][y] => j = k /\ x = y

\* When it returns every value was handed over, unless the callback broke off.
EveryValueHandedOver ==
    pc = "done" =>
        \A v \in Rank : \E j \in 1 .. Len(sets) : \E x \in 1 .. Len(sets[j]) : sets[j][x] = v

\* The sets fit the buffer that was allocated, the rest and the set that was cut
\* included.
SetsFitTheBuffer == pc = "fill" => want <= size

\* A draw ends: the walk over the prime never stays at values past the list.
SetsEnd == <>(pc \in {"done", "broke"})
==============================================================================
