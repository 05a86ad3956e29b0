----------------------------- MODULE IntervalSet -----------------------------
(****************************************************************************)
(* What a list_intervals object stands for: the set of values that were     *)
(* added, and the set of values that the next aggregation takes away.  The  *)
(* last call and its argument are visible, so that an implementation has to *)
(* answer each call with the change that belongs to it.                     *)
(****************************************************************************)
EXTENDS Integers

CONSTANTS
    Value,      \* the values of the base type
    BlockSizes  \* the sizes of the aligned blocks of a prefix

VARIABLES members, excluded, called

vars == <<members, excluded, called>>

\* A call takes a set of values, or the size of a block.
Call(op) == [op : {op}, set : SUBSET Value, size : BlockSizes \cup {0}]

Init == members = {} /\ excluded = {} /\ called \in Call("construct")

Add ==
    /\ called' \in Call("add")
    /\ members' = members \cup called'.set
    /\ excluded' = excluded

\* A removal is remembered: it takes away what is added after it too.
Remove ==
    /\ called' \in Call("remove")
    /\ excluded' = excluded \cup called'.set
    /\ members' = members

\* A set that nothing was added to keeps its exclusions.
Keeps == members = {} /\ members' = {} /\ excluded' = excluded

Aggregate ==
    /\ called' \in Call("aggregate")
    /\ \/ members' = members \ excluded /\ excluded' = {}
       \/ Keeps

\* The block of v, and the one after it.
Block(v, size) == {w \in Value : w \div size = v \div size}
NextBlock(v, size) == {w \in Value : w \div size = v \div size + 1}

\* Rounding to the blocks of a prefix: nothing is lost, and what comes in shares
\* a block with a member or is in the block that starts where an interval ended.
RoundOut ==
    LET kept == members \ excluded
        near == UNION {Block(v, called'.size) \cup NextBlock(v, called'.size) : v \in kept}
    IN  /\ called' \in Call("round")
        /\ \/ /\ members' \in SUBSET Value
              /\ kept \subseteq members' /\ members' \subseteq kept \cup near
              /\ excluded' = {}
           \/ Keeps

Replace ==
    /\ called' \in Call("replace")
    /\ members' = called'.set /\ excluded' = {}

Next == Add \/ Remove \/ Aggregate \/ RoundOut \/ Replace

Spec == Init /\ [][Next]_vars
==============================================================================
