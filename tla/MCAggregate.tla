----------------------------- MODULE MCAggregate -----------------------------
(* The loops of aggregate() on every pair of short lists over a small word. *)
EXTENDS AggregateLoop, SequencesExt

CONSTANTS
    MaxAdded, MaxRemoved,   \* the longest lists of any intervals
    MaxUnits                \* the longest list of intervals of one value

UnitInterval == {i \in LegalInterval : Width(i) = 1}

MCLists == BoundedSeq(LegalInterval, MaxAdded) \cup SeqOf(UnitInterval, MaxUnits)
MCRemovedLists == BoundedSeq(LegalInterval, MaxRemoved)
==============================================================================
