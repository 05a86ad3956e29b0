--------------------------- MODULE PropertiesMemory ---------------------------
(****************************************************************************)
(* Where list_intervals_properties keeps the ends of its intervals: a       *)
(* vector of values with the number of a property (_ir), and beside it one  *)
(* bit for each, which tells a beginning from an end (_actions, a           *)
(* bit_field).  The sort exchanges both at once through sort_permute_iter,  *)
(* and the sweeps of Properties meet the end that they find at an index.    *)
(****************************************************************************)
EXTENDS Properties, BitField

VARIABLES
    elts,       \* _ir
    actions,    \* _actions
    sorted,     \* the first positions that are sorted, when the sort runs
    index       \* the position that a sweep reads next

memory == <<elts, actions, sorted, index>>
memoryVars == <<vars, memory>>

MemoryInit ==
    /\ Init
    /\ elts = <<>> /\ actions = NoBits
    /\ sorted = 0 /\ index = 1

\* elt_at() and action_at()
EndAt(k) == [x |-> elts[k].x, prop |-> elts[k].prop, push |-> GetBitFast(actions, k - 1)]

\* properties_ir::add()
AddToMemory(i, p) ==
    /\ elts' = elts \o <<[x |-> i.lower, prop |-> p], [x |-> i.upper, prop |-> p]>>
    /\ actions' = ClearBit(SetBit(actions, Len(elts)), Len(elts) + 1)

Add(i) ==
    /\ sorted = 0
    /\ AddProperty(i)
    /\ AddToMemory(i, Len(added) + 1)
    /\ UNCHANGED <<sorted, index>>

\* One position of sort(): an element with the least value comes to it, and its
\* bit comes with it.  The sort reaches positions from the front and from the back.
Sort ==
    /\ pc = "idle" /\ ir # {} /\ Len(stored) <= MaxStored
    /\ sorted < Len(elts)
    /\ \E j \in sorted + 1 .. Len(elts) :
         /\ \A k \in sorted + 1 .. Len(elts) : elts[j].x <= elts[k].x
         /\ elts' = [elts EXCEPT ![sorted + 1] = elts[j], ![j] = elts[sorted + 1]]
         /\ LET end == Advance(BeginBits, Len(elts))
            IN  actions' = SwapBits(actions, Advance(BeginBits, sorted),
                                    Advance(end, j - 1 - Len(elts)))
    /\ sorted' = sorted + 1
    /\ UNCHANGED <<vars, index>>

\* The sweep takes the end at an index.
TakesEndAt(k) == ir' = ir \ {EndAt(k)} /\ ir' # ir

Start(version) ==
    /\ elts # <<>> /\ sorted = Len(elts)
    /\ AggregateStart(version) /\ TakesEndAt(1)
    /\ prev_value' = elts[1].x /\ cur_property' = {elts[1].prop}
    /\ index' = 2
    /\ UNCHANGED <<elts, actions, sorted>>

Step ==
    /\ SweepStep \/ SweepStepNoRem
    /\ TakesEndAt(index)
    /\ index' = index + 1
    /\ UNCHANGED <<elts, actions, sorted>>

\* clear_storage()
Finish ==
    /\ SweepEnd
    /\ elts' = <<>> /\ actions' = NoBits
    /\ sorted' = 0 /\ index' = 1

Nothing ==
    /\ AggregateNothing
    /\ UNCHANGED memory

------------------------------------------------------------------------------
(* Properties. *)

\* The vector and its bits hold exactly the ends that the sweep has still to meet,
\* each one with its own bit, whatever the sort exchanges and however the buffer
\* of bits grew: no bit is read that was not written.
MemoryHoldsEnds == {EndAt(k) : k \in index .. Len(elts)} = ir
==============================================================================
