------------------------------ MODULE MCLookup ------------------------------
(* Every lookup in every aggregated list over a small word. *)
EXTENDS LookupLoop, SequencesExt

CONSTANTS MaxLength

\* The lists in order of at most n intervals of `items`.
InOrderLists(items, n) ==
    LET Up[k \in 0 .. n] ==
          IF k = 0 THEN {<<>>}
          ELSE Up[k - 1] \cup
               {Append(p[1], p[2]) : p \in
                  {q \in Up[k - 1] \X items : q[1] # <<>> => Last(q[1]).upper <= q[2].lower}}
    IN  Up[n]

\* Intervals that touch are left by the removal of an empty interval.
MCLists == InOrderLists({i \in LegalInterval : Width(i) > 0}, MaxLength)

\* The same with the empty intervals that aggregate() keeps (MCLookupEmpty.cfg).
MCListsWithEmpty == InOrderLists(LegalInterval, MaxLength)
=============================================================================
