---------------------------- MODULE AggregateLoop ----------------------------
(****************************************************************************)
(* list_intervals::aggregate() with the two functions it calls,             *)
(* aggregate_container() and split_merged_interval_removed(), one action    *)
(* per loop iteration.  The variables are the two containers of the object  *)
(* and the locals of the three functions; pc names the loop that runs.      *)
(*                                                                          *)
(*   "entry"      aggregate() is called                                     *)
(*   "container"  aggregate_container() is called on Target                 *)
(*   "fold"       its loop over the sorted container                        *)
(*   "sort"       aggregate() sorts intervals()                             *)
(*   "merge"      the loop of aggregate()                                   *)
(*   "skip"       split_merged_interval_removed(): the loop on it_removed   *)
(*   "split"      its do-while loop on it_removed_cur                       *)
(*   "flush"      its last statement, and the return to aggregate()         *)
(*   "done"       aggregate() has returned                                  *)
(****************************************************************************)
EXTENDS Aggregation, Functions

CONSTANTS
    Lists,          \* the lists of intervals the object may hold at the call
    RemovedLists    \* the lists of removed intervals it may hold

ASSUME ListsAssumption ==
    /\ Lists \subseteq Seq(LegalInterval)
    /\ RemovedLists \subseteq Seq(LegalInterval)

VARIABLES
    intervals,      \* _intervals
    removed,        \* _excluded_intervals
    it,             \* the iterator `it`, as an index from 1
    cur_merge,      \* cur_merge of the loop that runs
    it_removed,     \* the iterator aggregate() hands to the split by reference
    it_removed_cur, \* the split's own iterator
    piece,          \* the split's local copy of cur_merge
    ret,            \* the container being built
    pc,
    given           \* history: the two lists at the call

vars == <<intervals, removed, it, cur_merge, it_removed, it_removed_cur,
          piece, ret, pc, given>>

\* A slip: the container is not sorted.
SortsNothing(s) == {s}

\* tbb::parallel_sort with cmp_f: some order of the elements that is sorted by
\* lower bound.  Intervals with the same lower bound come in any order.
Sorts(s) ==
    {t \in {[k \in 1 .. Len(s) |-> s[p[k]]] : p \in Bijection(1 .. Len(s), 1 .. Len(s))} :
        SortedByLower(t)}

\* The container aggregate_container() works on: aggregate() calls it on the
\* intervals when nothing is removed, on the removed intervals otherwise.
Target == IF removed = <<>> THEN intervals ELSE removed

Init ==
    /\ intervals \in Lists
    /\ removed \in RemovedLists
    /\ it = 1 /\ it_removed = 1 /\ it_removed_cur = 1
    /\ cur_merge = Empty /\ piece = Empty
    /\ ret = <<>>
    /\ pc = "entry"
    /\ given = [intervals |-> intervals, removed |-> removed]

------------------------------------------------------------------------------
(* aggregate(), up to the sort of the intervals. *)

\* Removals on a list without intervals: aggregate() returns and keeps them.
NothingToAggregate ==
    /\ pc = "entry" /\ removed # <<>> /\ intervals = <<>>
    /\ pc' = "done"
    /\ UNCHANGED <<intervals, removed, it, cur_merge, it_removed,
                   it_removed_cur, piece, ret, given>>

CallContainer ==
    /\ pc = "entry" /\ (removed = <<>> \/ intervals # <<>>)
    /\ pc' = "container"
    /\ UNCHANGED <<intervals, removed, it, cur_merge, it_removed,
                   it_removed_cur, piece, ret, given>>

\* aggregate_container() leaves `c` in the container it was called on.
ReturnContainer(c) ==
    /\ IF removed = <<>>
         THEN intervals' = c /\ removed' = removed /\ pc' = "done"
         ELSE removed' = c /\ intervals' = intervals /\ pc' = "sort"
    /\ UNCHANGED <<it, cur_merge, it_removed, it_removed_cur, piece, ret, given>>

\* size() <= 1: the container is left as it is.
ContainerTooSmall ==
    /\ pc = "container" /\ Len(Target) <= 1
    /\ ReturnContainer(Target)

ContainerSort ==
    /\ pc = "container" /\ Len(Target) > 1
    /\ \E t \in Sorts(Target) :
         /\ IF removed = <<>> THEN intervals' = t /\ removed' = removed
                              ELSE removed' = t /\ intervals' = intervals
         /\ cur_merge' = t[1]
    /\ it' = 2
    /\ ret' = <<>>
    /\ pc' = "fold"
    /\ UNCHANGED <<it_removed, it_removed_cur, piece, given>>

ContainerStep ==
    /\ pc = "fold" /\ it <= Len(Target)
    /\ IF Overlap(cur_merge, Target[it])
         THEN cur_merge' = Hull(cur_merge, Target[it]) /\ ret' = ret
         ELSE cur_merge' = Target[it] /\ ret' = Append(ret, cur_merge)
    /\ it' = it + 1
    /\ UNCHANGED <<intervals, removed, it_removed, it_removed_cur, piece, pc, given>>

ContainerReturn ==
    /\ pc = "fold" /\ it > Len(Target)
    /\ ReturnContainer(Append(ret, cur_merge))

------------------------------------------------------------------------------
(* The merge loop of aggregate(). *)

SortIntervals ==
    /\ pc = "sort"
    /\ \E t \in Sorts(intervals) : intervals' = t /\ cur_merge' = t[1]
    /\ it' = 2
    /\ it_removed' = 1
    /\ ret' = <<>>
    /\ pc' = "merge"
    /\ UNCHANGED <<removed, it_removed_cur, piece, given>>

MergeStep ==
    /\ pc = "merge" /\ it <= Len(intervals)
    /\ Overlap(cur_merge, intervals[it])
    /\ cur_merge' = Hull(cur_merge, intervals[it])
    /\ it' = it + 1
    /\ UNCHANGED <<intervals, removed, it_removed, it_removed_cur, piece, ret, pc, given>>

\* cur_merge cannot grow any more: split_merged_interval_removed() is called.
CallSplit ==
    /\ pc = "merge"
    /\ it <= Len(intervals) => ~Overlap(cur_merge, intervals[it])
    /\ pc' = "skip"
    /\ UNCHANGED <<intervals, removed, it, cur_merge, it_removed,
                   it_removed_cur, piece, ret, given>>

------------------------------------------------------------------------------
(* split_merged_interval_removed(). *)

SkipRemoved ==
    /\ pc = "skip" /\ it_removed <= Len(removed)
    /\ cur_merge.lower > removed[it_removed].upper
    /\ it_removed' = it_removed + 1
    /\ UNCHANGED <<intervals, removed, it, cur_merge, it_removed_cur, piece, ret, pc, given>>

\* A slip: no test that a removed interval is left.
StartSplitUntested ==
    /\ pc = "skip"
    /\ it_removed <= Len(removed) => cur_merge.lower <= removed[it_removed].upper
    /\ piece' = cur_merge
    /\ it_removed_cur' = it_removed
    /\ pc' = "split"
    /\ UNCHANGED <<intervals, removed, it, cur_merge, it_removed, ret, given>>

\* The copy of cur_merge, and the choice between the do-while loop and no loop.
StartSplit ==
    /\ pc = "skip"
    /\ it_removed <= Len(removed) => cur_merge.lower <= removed[it_removed].upper
    /\ piece' = cur_merge
    /\ it_removed_cur' = it_removed
    /\ pc' = IF it_removed <= Len(removed) THEN "split" ELSE "flush"
    /\ UNCHANGED <<intervals, removed, it, cur_merge, it_removed, ret, given>>

\* A slip: the do-while loop tests its iterator and does not advance it.
SplitStepInPlace ==
    /\ pc = "split"
    /\ LET r == removed[it_removed_cur]
       IN  /\ piece' = LeftOf(piece, r)
           /\ ret' = IF CutsInTwo(piece, r) THEN Append(ret, Itv(piece.lower, r.lower))
                                            ELSE ret
           /\ it_removed_cur' = it_removed_cur
           /\ pc' = IF r.lower < piece'.upper THEN "split" ELSE "flush"
    /\ UNCHANGED <<intervals, removed, it, cur_merge, it_removed, given>>

SplitStep ==
    /\ pc = "split"
    /\ LET r == removed[it_removed_cur]
           next == it_removed_cur + 1
       IN  /\ piece' = LeftOf(piece, r)
           /\ ret' = IF CutsInTwo(piece, r) THEN Append(ret, Itv(piece.lower, r.lower))
                                            ELSE ret
           /\ it_removed_cur' = next
           /\ pc' = IF next <= Len(removed) /\ removed[next].lower < piece'.upper
                      THEN "split" ELSE "flush"
    /\ UNCHANGED <<intervals, removed, it, cur_merge, it_removed, given>>

WithPiece == IF Width(piece) > 0 THEN Append(ret, piece) ELSE ret

\* The split returns in the middle of the loop of aggregate()...
NextMerge ==
    /\ pc = "flush" /\ it <= Len(intervals)
    /\ ret' = WithPiece
    /\ cur_merge' = intervals[it]
    /\ it' = it + 1
    /\ pc' = "merge"
    /\ UNCHANGED <<intervals, removed, it_removed, it_removed_cur, piece, given>>

\* A slip: the removed intervals are not cleared.
ReturnKeepingRemoved ==
    /\ pc = "flush" /\ it > Len(intervals)
    /\ ret' = WithPiece
    /\ intervals' = ret'
    /\ pc' = "done"
    /\ UNCHANGED <<removed, it, cur_merge, it_removed, it_removed_cur, piece, given>>

\* ... or after it: aggregate() stores the result and returns.
Return ==
    /\ pc = "flush" /\ it > Len(intervals)
    /\ ret' = WithPiece
    /\ removed' = <<>>
    /\ intervals' = ret'
    /\ pc' = "done"
    /\ UNCHANGED <<it, cur_merge, it_removed, it_removed_cur, piece, given>>

Next ==
    \/ NothingToAggregate \/ CallContainer
    \/ ContainerTooSmall \/ ContainerSort \/ ContainerStep \/ ContainerReturn
    \/ SortIntervals \/ MergeStep \/ CallSplit
    \/ SkipRemoved \/ StartSplit \/ SplitStep
    \/ NextMerge \/ Return

Spec == Init /\ [][Next]_vars /\ WF_vars(Next)

------------------------------------------------------------------------------
(* Properties. *)

\* Type invariant: every list holds ordered intervals only, and the indices
\* stay where the iterators of the code may be dereferenced.
TypeOK ==
    /\ intervals \in Seq(LegalInterval)
    /\ removed \in Seq(LegalInterval)
    /\ ret \in Seq(LegalInterval)
    /\ cur_merge \in LegalInterval
    /\ piece \in LegalInterval
    /\ it \in Nat \ {0} /\ it_removed \in Nat \ {0} /\ it_removed_cur \in Nat \ {0}
    /\ pc \in {"entry", "container", "fold", "sort", "merge", "skip", "split",
               "flush", "done"}
    /\ pc = "split" => it_removed_cur \in 1 .. Len(removed)
    /\ given \in [intervals : Seq(LegalInterval), removed : Seq(LegalInterval)]

\* aggregate() keeps exactly the values that were added and not removed,
\* whatever the order of the lists and however their intervals overlap
\* (list_intervals::aggregate).
KeepsTheDifference ==
    pc = "done" =>
        \A v \in Value :
            InList(intervals, v) <=> /\ InList(given.intervals, v)
                                     /\ ~InList(given.removed, v)

\* The result is what contains(), at() and the index cache rely on: intervals
\* in increasing order, without a value in two of them, and not even touching
\* unless an empty removed interval cut one in two ("Suppose that intervals
\* have been aggregated! (and are thus sorted)", list_intervals::contains).
ResultInOrder ==
    pc = "done" =>
        /\ InOrder(intervals)
        /\ (\A k \in 1 .. Len(given.removed) : Width(given.removed[k]) > 0)
              => Separated(intervals)

\* The order in which the parallel sort leaves intervals with the same lower
\* bound does not show: the loops end with the containers Aggregated describes,
\* pending removals included (list_intervals::aggregate).
LoopsComputeAggregated ==
    pc = "done" => [intervals |-> intervals, removed |-> removed]
                     = Aggregated(given.intervals, given.removed)

\* The iteration on the removed intervals ends (the do-while loop advances its
\* own iterator, and it_removed never passes an interval that is still needed).
Terminates == <>(pc = "done")
==============================================================================
