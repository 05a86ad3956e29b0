----------------------------- MODULE Properties -----------------------------
(****************************************************************************)
(* list_intervals_properties (list_intervals_properties.h): properties are  *)
(* given to intervals, then a sweep over the sorted ends cuts the intervals *)
(* into pieces and stores with each piece the properties merged, and        *)
(* property_of() looks a value up in the pieces.                            *)
(*                                                                          *)
(* A property is the number of the call that added it, and a merged         *)
(* property the set of them: the callbacks of the program merge with        *)
(* fadd() and take out with fremove(), as the ones of the tests do.         *)
(****************************************************************************)
EXTENDS Intervals, Loops, FiniteSets

CONSTANTS
    Addable,        \* the intervals properties are added to
    MaxAdded,       \* bound: how many properties are added
    MaxStored,      \* bound: the longest list an aggregation may add to
    Tradeoff,       \* the span at which the dichotomy stops, 4 in the code
    NoProperty      \* the nullptr of property_of()

\* The sweep takes the first end for a beginning, so an empty interval, whose
\* ends are sorted in any order, is not added.
ASSUME PropertiesAssumption ==
    /\ \A i \in Addable : i \in LegalInterval /\ i.lower < i.upper
    /\ MaxAdded \in Nat /\ MaxStored \in Nat
    /\ Tradeoff \in Nat \ {0}
    /\ \A set \in SUBSET (1 .. MaxAdded) : NoProperty # set

VARIABLES
    ir,             \* _ir and _actions: the ends that the sweep has still to meet
    stored,         \* _properties
    pc,             \* "idle", or the version of the sweep that runs: "rem", "no_rem"
    prev_value,
    cur_property,
    cur_properties, \* the properties that aggregate_properties_no_rem() keeps
    added,          \* history: the intervals of the properties, by their number
    batches         \* history: the properties of each aggregation that is stored

sweep == <<prev_value, cur_property, cur_properties>>
vars == <<ir, stored, pc, sweep, added, batches>>

\* The properties are numbered in the order of the calls.
Property == 1 .. MaxAdded

Init ==
    /\ ir = {} /\ stored = <<>>
    /\ pc = "idle"
    /\ prev_value = 0 /\ cur_property = {} /\ cur_properties = {}
    /\ added = <<>> /\ batches = <<>>

\* properties_ir::add(): the two ends of the interval.
Begin(i, p) == [x |-> i.lower, prop |-> p, push |-> TRUE]
End(i, p) == [x |-> i.upper, prop |-> p, push |-> FALSE]

AddProperty(i) ==
    /\ pc = "idle" /\ Len(added) < MaxAdded
    /\ LET p == Len(added) + 1
       IN  ir' = ir \cup {Begin(i, p), End(i, p)}
    /\ added' = Append(added, i)
    /\ UNCHANGED <<stored, pc, sweep, batches>>

\* An aggregation without new properties drops those that are stored.
AggregateNothing ==
    /\ pc = "idle" /\ ir = {}
    /\ stored' = <<>> /\ batches' = <<>>
    /\ UNCHANGED <<ir, pc, sweep, added>>

\* sort(): the next end is one with the least value; ends at the same value come
\* in any order.
NextEnd == {e \in ir : \A f \in ir : e.x <= f.x}

\* aggregate_properties() or aggregate_properties_no_rem(), up to the loop.
AggregateStart(version) ==
    /\ pc = "idle" /\ Len(stored) <= MaxStored
    /\ \E e \in NextEnd :
         /\ prev_value' = e.x
         /\ cur_property' = {e.prop}
         /\ cur_properties' = {e.prop}
         /\ ir' = ir \ {e}
    /\ pc' = version
    /\ batches' = Append(batches, {e.prop : e \in ir})
    /\ UNCHANGED <<stored, added>>

\* What an iteration of either loop does with the end e.
Meets(e) ==
    /\ ir' = ir \ {e}
    /\ stored' = Append(stored, [interval |-> Itv(prev_value, e.x), property |-> cur_property])
    /\ prev_value' = e.x
    /\ UNCHANGED <<pc, added, batches>>

\* A slip: the end of an interval takes nothing out.
SweepStepPushing ==
    /\ pc = "rem"
    /\ \E e \in NextEnd :
         /\ Meets(e)
         /\ cur_property' = cur_property \cup {e.prop}
    /\ UNCHANGED cur_properties

SweepStep ==
    /\ pc = "rem"
    /\ \E e \in NextEnd :
         /\ Meets(e)
         /\ cur_property' = IF e.push THEN cur_property \cup {e.prop}
                                      ELSE cur_property \ {e.prop}
    /\ UNCHANGED cur_properties

\* A slip: the property that begins is not remembered.
SweepStepNoRemForgetful ==
    /\ pc = "no_rem"
    /\ \E e \in NextEnd :
         /\ Meets(e)
         /\ cur_properties' = cur_properties \ {e.prop}
         /\ cur_property' = IF e.push THEN cur_property \cup {e.prop} ELSE cur_properties'

\* Without fremove(): the properties that are left are merged again.
SweepStepNoRem ==
    /\ pc = "no_rem"
    /\ \E e \in NextEnd :
         /\ Meets(e)
         /\ cur_properties' = IF e.push THEN cur_properties \cup {e.prop}
                                        ELSE cur_properties \ {e.prop}
         /\ cur_property' =
              CASE ~e.push -> cur_properties'
                [] e.push /\ cur_properties = {} -> {e.prop}
                [] OTHER -> cur_property \cup {e.prop}

SweepEnd ==
    /\ pc # "idle" /\ ir = {}
    /\ pc' = "idle"
    /\ UNCHANGED <<ir, stored, sweep, added, batches>>

Next ==
    \/ \E i \in Addable : AddProperty(i)
    \/ AggregateNothing
    \/ AggregateStart("rem") \/ AggregateStart("no_rem")
    \/ SweepStep \/ SweepStepNoRem \/ SweepEnd

Spec == Init /\ [][Next]_vars

------------------------------------------------------------------------------
(* property_of() *)

\* A slip: the dichotomy leaves out the piece it has compared with when the
\* value is above it, and the one above that.
HalvedSkipping(r, v) ==
    LET mid == (r[2] + r[1]) \div 2
        i == stored[mid + 1].interval
    IN  IF r[2] - r[1] <= Tradeoff THEN r
        ELSE IF Has(i, v) THEN <<mid, mid + 1>>
        ELSE IF v < i.lower THEN <<r[1], mid>>
        ELSE <<Least(mid + 2, r[2]), r[2]>>

\* One iteration of the dichotomy, which looks at the piece in the middle of the
\* bounds r; when it holds the value, the bounds close on it.
Halved(r, v) ==
    LET mid == (r[2] + r[1]) \div 2
        i == stored[mid + 1].interval
    IN  IF r[2] - r[1] <= Tradeoff THEN r
        ELSE IF Has(i, v) THEN <<mid, mid + 1>>
        ELSE IF v < i.lower THEN <<r[1], mid>>
        ELSE <<mid, r[2]>>

\* A span gets smaller with each iteration, so that there are not more of them
\* than pieces.  The last loop takes the first piece inside the bounds.
PropertyOf(v) ==
    LET n == Len(stored)
        Bounds == (0 .. n) \X (0 .. n)
        r == Loop([k \in 1 .. n |-> [q \in Bounds |-> Halved(q, v)]], <<0, n>>, n)[n]
        at == {k \in r[1] + 1 .. r[2] : Has(stored[k].interval, v)}
    IN  IF at = {} THEN NoProperty
        ELSE stored[CHOOSE k \in at : \A j \in at : k <= j].property

------------------------------------------------------------------------------
(* Properties. *)

Ends == [x : Value, prop : Property, push : BOOLEAN]

TypeOK ==
    /\ ir \subseteq Ends
    /\ stored \in Seq([interval : LegalInterval, property : SUBSET Property])
    /\ pc \in {"idle", "rem", "no_rem"}
    /\ prev_value \in Value
    /\ cur_property \subseteq Property /\ cur_properties \subseteq Property
    /\ added \in Seq(LegalInterval) /\ Len(added) <= MaxAdded
    /\ batches \in Seq(SUBSET Property)

\* The properties of a batch that a value has.
Holding(batch, v) == {p \in batch : Has(added[p], v)}

\* A piece carries the properties of all the intervals of its batch that hold
\* its values and no other, however the intervals overlap and in whatever
\* order the ends at the same value are sorted (aggregate_properties and
\* aggregate_properties_no_rem).
PiecesAreMerged ==
    \A k \in 1 .. Len(stored) : \E j \in 1 .. Len(batches) :
        \A v \in Value :
            Has(stored[k].interval, v) => stored[k].property = Holding(batches[j], v)

\* The assertion of aggregate_properties_no_rem(): an interval that ends is in
\* the list of those that have begun, though the ends at the same value are in
\* any order.
EndsAfterItsBegin ==
    pc = "no_rem" => \A e \in NextEnd : ~e.push => e.prop \in cur_properties
==============================================================================
