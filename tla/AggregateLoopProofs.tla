------------------------- MODULE AggregateLoopProofs -------------------------
(****************************************************************************)
(* aggregate() is correct for every word size and every two lists, and its  *)
(* loops compute what the functions of Aggregation do.                      *)
(****************************************************************************)
EXTENDS AggregateLoop, AggregationProofs

------------------------------------------------------------------------------
(* The inductive invariant, one conjunct for each idea. *)

\* The lists that reach the sort of the intervals are not empty.
SortInv ==
    pc \in {"container", "fold", "sort"} /\ (removed # <<>> \/ pc = "sort")
        => intervals # <<>>

\* Until the result is stored the two containers stand for what was given.
GivenInv ==
    pc # "done" =>
        \A v \in Value : /\ InList(intervals, v) <=> InList(given.intervals, v)
                         /\ InList(removed, v) <=> InList(given.removed, v)

\* One bound is before another, strictly unless an empty interval was removed.
Apart(x, y) == x <= y /\ (AllWide(given.removed) => x < y)

WideInv ==
    pc # "done" /\ AllWide(given.removed) =>
        /\ AllWide(removed)
        /\ pc = "fold" /\ removed # <<>> =>
             AllWide(ret) /\ cur_merge.lower < cur_merge.upper

\* A value is in one of the intervals the loop has passed.
Swept(s, v) == \E k \in 1 .. (it - 1) : Has(s[k], v)

FoldInv ==
    pc = "fold" =>
        /\ it \in 2 .. (Len(Target) + 1)
        /\ SortedByLower(Target)
        /\ \A j \in it .. Len(Target) : cur_merge.lower <= Target[j].lower
        /\ \A v \in Value : (InList(ret, v) \/ Has(cur_merge, v)) <=> Swept(Target, v)
        /\ Separated(ret)
        /\ \A k \in 1 .. Len(ret) : ret[k].upper < cur_merge.lower

Merging == pc \in {"merge", "skip", "split", "flush"}

\* The merge loop, whatever part of it runs.
MergeInv ==
    /\ pc = "sort" \/ Merging => Separated(removed)
    /\ Merging =>
        /\ it \in 2 .. (Len(intervals) + 1)
        /\ it_removed \in 1 .. (Len(removed) + 1)
        /\ SortedByLower(intervals)
        /\ \A j \in it .. Len(intervals) : cur_merge.lower <= intervals[j].lower
        /\ \A k \in 1 .. (it_removed - 1) : removed[k].upper < cur_merge.lower
        /\ \A v \in Value : Has(cur_merge, v) => Swept(intervals, v)
        /\ \A v \in Value : InList(ret, v) => Swept(intervals, v) /\ ~InList(removed, v)
        /\ \A j, k \in 1 .. Len(ret) : j < k => Apart(ret[j].upper, ret[k].lower)

\* Before the split: what is not in the result yet is in cur_merge.
BeforeSplitInv ==
    pc \in {"merge", "skip"} =>
        /\ \A k \in 1 .. Len(ret) : ret[k].upper < cur_merge.lower
        /\ \A v \in Value :
             Swept(intervals, v) =>
                InList(ret, v) \/ Has(cur_merge, v) \/ InList(removed, v)

\* From the call of the split on, cur_merge is before the next interval.
CallInv ==
    pc \in {"skip", "split", "flush"} /\ it <= Len(intervals) =>
        cur_merge.upper < intervals[it].lower

\* During the split: what is not in the result yet is in the piece.
SplitInv ==
    pc \in {"split", "flush"} =>
        /\ piece.upper <= cur_merge.upper
        /\ \A k \in 1 .. Len(ret) : ret[k].upper <= cur_merge.upper
        /\ piece.lower < piece.upper =>
             \A k \in 1 .. Len(ret) : Apart(ret[k].upper, piece.lower)
        /\ \A v \in Value : Has(piece, v) => Has(cur_merge, v)
        /\ \A v \in Value :
             Swept(intervals, v) => InList(ret, v) \/ Has(piece, v) \/ InList(removed, v)

\* The piece avoids the removed intervals it has passed, all of them in the end.
PieceInv ==
    /\ pc = "split" =>
         \A v \in Value, k \in 1 .. (it_removed_cur - 1) : Has(piece, v) => ~Has(removed[k], v)
    /\ pc = "flush" =>
         \A v \in Value : Has(piece, v) => ~InList(removed, v)

\* The two properties the invariant is for, on the state that is returned.
DoneInv == KeepsTheDifference /\ ResultInOrder

\* What is proved below to be inductive, together with TypeOK and SortInv, which
\* are inductive on their own.
Rest == /\ GivenInv /\ WideInv /\ FoldInv /\ MergeInv /\ BeforeSplitInv
        /\ CallInv /\ SplitInv /\ PieceInv /\ DoneInv

IInv == TypeOK /\ SortInv /\ Rest

------------------------------------------------------------------------------
(* Lemmas about the lists of the loops. *)

\* Sorting changes the order of the intervals only.
LEMMA SortsFacts ==
    ASSUME NEW s \in Seq(LegalInterval), NEW t \in Sorts(s)
    PROVE  /\ t \in Seq(LegalInterval)
           /\ Len(t) = Len(s)
           /\ SortedByLower(t)
           /\ \A v \in Value : InList(t, v) <=> InList(s, v)
           /\ AllWide(s) => AllWide(t)
<1>1. PICK p \in Bijection(1 .. Len(s), 1 .. Len(s)) : t = [k \in 1 .. Len(s) |-> s[p[k]]]
  BY DEF Sorts
<1>2. /\ p \in [1 .. Len(s) -> 1 .. Len(s)]
      /\ \A j \in 1 .. Len(s) : \E k \in 1 .. Len(s) : p[k] = j
  BY DEF Bijection, Injection, Surjection
<1>3. Len(s) \in Nat /\ \A k \in 1 .. Len(s) : s[k] \in LegalInterval
  OBVIOUS
<1>4. t \in Seq(LegalInterval) /\ Len(t) = Len(s)
  <2>1. \A k \in 1 .. Len(s) : p[k] \in 1 .. Len(s)
    BY <1>2
  <2>2. t \in [1 .. Len(s) -> LegalInterval]
    BY <1>1, <1>3, <2>1
  <2>. QED
    BY <1>3, <2>2, IsASeq, LenProperties
<1>5. SortedByLower(t)
  BY DEF Sorts
<1>6. \A k \in 1 .. Len(s) : t[k] = s[p[k]]
  BY <1>1
<1>7. ASSUME NEW v \in Value PROVE InList(t, v) <=> InList(s, v)
  <2>1. ASSUME NEW k \in 1 .. Len(s), Has(t[k], v) PROVE InList(s, v)
    BY <1>2, <1>6, <2>1 DEF InList
  <2>2. ASSUME NEW j \in 1 .. Len(s), Has(s[j], v) PROVE InList(t, v)
    <3>1. PICK k \in 1 .. Len(s) : p[k] = j
      BY <1>2
    <3>. QED
      BY <1>4, <1>6, <2>2, <3>1 DEF InList
  <2>. QED
    BY <1>4, <2>1, <2>2 DEF InList
<1>8. AllWide(s) => AllWide(t)
  BY <1>2, <1>4, <1>6 DEF AllWide
<1>. QED
  BY <1>4, <1>5, <1>7, <1>8

------------------------------------------------------------------------------
(* Type correctness.  With SortInv it is inductive. *)

LEMMA TargetType ==
    ASSUME TypeOK
    PROVE  Target \in Seq(LegalInterval)
  BY DEF TypeOK, Target

LEMMA TypeInit == Init => TypeOK /\ SortInv
<1>. SUFFICES ASSUME Init PROVE TypeOK /\ SortInv
  OBVIOUS
<1>1. intervals \in Seq(LegalInterval) /\ removed \in Seq(LegalInterval)
  BY ListsAssumption DEF Init
<1>2. ret \in Seq(LegalInterval)
  BY DEF Init
<1>. QED
  BY <1>1, <1>2, EmptyLegal DEF Init, TypeOK, SortInv

LEMMA TypeStep == TypeOK /\ SortInv /\ [Next]_vars => TypeOK' /\ SortInv'
<1>. SUFFICES ASSUME TypeOK, SortInv, [Next]_vars PROVE TypeOK' /\ SortInv'
  OBVIOUS
<1>. USE DEF TypeOK, SortInv
<1>1. CASE NothingToAggregate
  BY <1>1 DEF NothingToAggregate
<1>2. CASE CallContainer
  BY <1>2 DEF CallContainer
<1>3. CASE ContainerTooSmall
  BY <1>3, TargetType DEF ContainerTooSmall, ReturnContainer, Target
<1>4. CASE ContainerSort
  <2>1. PICK t \in Sorts(Target) :
           /\ IF removed = <<>> THEN intervals' = t /\ removed' = removed
                                ELSE removed' = t /\ intervals' = intervals
           /\ cur_merge' = t[1]
    BY <1>4 DEF ContainerSort
  <2>2. t \in Seq(LegalInterval) /\ Len(t) = Len(Target) /\ Len(t) > 1
    BY <1>4, TargetType, SortsFacts DEF ContainerSort
  <2>3. t[1] \in LegalInterval /\ t # <<>>
    BY <2>2, SeqFacts
  <2>. QED
    BY <1>4, <2>1, <2>2, <2>3, EmptySeq DEF ContainerSort
<1>5. CASE ContainerStep
  <2>1. Target[it] \in LegalInterval
    BY <1>5, TargetType, SeqFacts DEF ContainerStep
  <2>2. cur_merge' \in LegalInterval
    BY <1>5, <2>1, HullFacts DEF ContainerStep
  <2>3. ret' \in Seq(LegalInterval)
    <3>1. Append(ret, cur_merge) \in Seq(LegalInterval)
      BY AppendFacts
    <3>2. ret' = ret \/ ret' = Append(ret, cur_merge)
      BY <1>5 DEF ContainerStep
    <3>. QED
      BY <3>1, <3>2
  <2>4. /\ it' \in Nat \ {0}
        /\ UNCHANGED <<intervals, removed, it_removed, it_removed_cur, piece, pc, given>>
    BY <1>5 DEF ContainerStep
  <2>. QED
    BY <2>2, <2>3, <2>4
<1>6. CASE ContainerReturn
  <2>1. Append(ret, cur_merge) \in Seq(LegalInterval)
    BY AppendFacts
  <2>. QED
    BY <1>6, <2>1 DEF ContainerReturn, ReturnContainer
<1>7. CASE SortIntervals
  <2>1. PICK t \in Sorts(intervals) : intervals' = t /\ cur_merge' = t[1]
    BY <1>7 DEF SortIntervals
  <2>2. t \in Seq(LegalInterval) /\ t[1] \in LegalInterval
    BY <1>7, SortsFacts, SeqFacts DEF SortIntervals
  <2>. QED
    BY <1>7, <2>1, <2>2, EmptySeq DEF SortIntervals
<1>8. CASE MergeStep
  <2>1. cur_merge' \in LegalInterval
    BY <1>8, SeqFacts, HullFacts DEF MergeStep
  <2>. QED
    BY <1>8, <2>1 DEF MergeStep
<1>9. CASE CallSplit
  BY <1>9 DEF CallSplit
<1>10. CASE SkipRemoved
  BY <1>10 DEF SkipRemoved
<1>11. CASE StartSplit
  BY <1>11 DEF StartSplit
<1>12. CASE SplitStep
  <2>1. removed[it_removed_cur] \in LegalInterval /\ Len(removed) \in Nat
    BY <1>12, SeqFacts DEF SplitStep
  <2>2. piece' \in LegalInterval
    BY <1>12, <2>1, LeftOfLegal DEF SplitStep
  <2>3. CASE CutsInTwo(piece, removed[it_removed_cur])
    <3>1. Itv(piece.lower, removed[it_removed_cur].lower) \in LegalInterval
      BY <2>1, <2>3, LegalFacts, ItvLegal DEF CutsInTwo
    <3>. QED
      BY <1>12, <2>1, <2>2, <2>3, <3>1, AppendFacts DEF SplitStep
  <2>4. CASE ~CutsInTwo(piece, removed[it_removed_cur])
    BY <1>12, <2>1, <2>2, <2>4 DEF SplitStep
  <2>. QED
    BY <2>3, <2>4
<1>13. CASE NextMerge
  <2>1. ret' \in Seq(LegalInterval)
    BY <1>13, AppendFacts DEF NextMerge, WithPiece
  <2>. QED
    BY <1>13, <2>1, SeqFacts DEF NextMerge
<1>14. CASE Return
  <2>1. ret' \in Seq(LegalInterval)
    BY <1>14, AppendFacts DEF Return, WithPiece
  <2>2. removed' \in Seq(LegalInterval)
    BY <1>14 DEF Return
  <2>. QED
    BY <1>14, <2>1, <2>2 DEF Return
<1>15. CASE UNCHANGED vars
  BY <1>15 DEF vars
<1>. QED
  BY <1>1, <1>2, <1>3, <1>4, <1>5, <1>6, <1>7, <1>8, <1>9, <1>10, <1>11,
     <1>12, <1>13, <1>14, <1>15 DEF Next

\* The lists of aggregate() hold ordered intervals only, and no iterator is
\* dereferenced past the end of its container (list_intervals::aggregate,
\* split_merged_interval_removed).
THEOREM TypeCorrect == Spec => []TypeOK
<1>1. Spec => [](TypeOK /\ SortInv)
  BY TypeInit, TypeStep, PTL DEF Spec
<1>. QED
  BY <1>1, PTL

------------------------------------------------------------------------------
(* Each action preserves the rest of the invariant. *)

LEMMA RestInit == Init => Rest
<1>. SUFFICES ASSUME Init PROVE Rest
  OBVIOUS
<1>1. pc = "entry" /\ given.intervals = intervals /\ given.removed = removed
  BY DEF Init
<1>. QED
  BY <1>1 DEF Rest, GivenInv, WideInv, FoldInv, MergeInv, Merging, BeforeSplitInv,
              CallInv, SplitInv, PieceInv, DoneInv, KeepsTheDifference, ResultInOrder

\* The returns of aggregate() before the sort of the intervals.
LEMMA EntryStep ==
    ASSUME TypeOK, Rest, NothingToAggregate \/ CallContainer
    PROVE  Rest'
<1>1. CASE NothingToAggregate
  <2>1. /\ pc' = "done" /\ intervals' = <<>> /\ given' = given
        /\ \A v \in Value : ~InList(given.intervals, v)
    BY <1>1 DEF NothingToAggregate, Rest, GivenInv, InList
  <2>2. DoneInv'
    BY <2>1 DEF DoneInv, KeepsTheDifference, ResultInOrder, InOrder, Separated, InList
  <2>. QED
    BY <2>1, <2>2 DEF Rest, GivenInv, WideInv, FoldInv, MergeInv, Merging,
                      BeforeSplitInv, CallInv, SplitInv, PieceInv
<1>2. CASE CallContainer
  <2>1. /\ pc = "entry" /\ pc' = "container"
        /\ UNCHANGED <<intervals, removed, ret, cur_merge, given>>
    BY <1>2 DEF CallContainer
  <2>. QED
    BY <2>1 DEF Rest, GivenInv, WideInv, AllWide, FoldInv, MergeInv, Merging, BeforeSplitInv,
                CallInv, SplitInv, PieceInv, DoneInv, KeepsTheDifference, ResultInOrder, InList
<1>. QED
  BY <1>1, <1>2

\* aggregate_container() returns `c`, in order and with the values of Target.
LEMMA ReturnContainerStep ==
    ASSUME TypeOK, Rest, pc \in {"container", "fold"},
           NEW c \in Seq(LegalInterval), ReturnContainer(c),
           Separated(c),
           \A v \in Value : InList(c, v) <=> InList(Target, v),
           AllWide(given.removed) /\ removed # <<>> => AllWide(c)
    PROVE  Rest'
<1>1. CASE removed = <<>>
  <2>1. /\ intervals' = c /\ pc' = "done" /\ given' = given
        /\ \A v \in Value : InList(c, v) <=> InList(intervals, v)
        /\ \A v \in Value : ~InList(removed, v)
    BY <1>1 DEF ReturnContainer, Target, InList
  <2>2. KeepsTheDifference'
    BY <2>1 DEF KeepsTheDifference, Rest, GivenInv
  <2>3. InOrder(c)
    BY SeqFacts, LegalFacts DEF Separated, InOrder
  <2>4. ResultInOrder'
    BY <2>1, <2>3 DEF ResultInOrder
  <2>. QED
    BY <2>1, <2>2, <2>4 DEF Rest, GivenInv, WideInv, FoldInv, MergeInv, Merging,
                      BeforeSplitInv, CallInv, SplitInv, PieceInv, DoneInv
<1>2. CASE removed # <<>>
  <2>1. /\ removed' = c /\ intervals' = intervals /\ pc' = "sort" /\ given' = given
        /\ \A v \in Value : InList(c, v) <=> InList(removed, v)
    BY <1>2 DEF ReturnContainer, Target
  <2>2. GivenInv'
    BY <2>1 DEF Rest, GivenInv
  <2>3. WideInv' /\ MergeInv'
    BY <1>2, <2>1 DEF WideInv, MergeInv, Merging
  <2>. QED
    BY <2>1, <2>2, <2>3 DEF Rest, FoldInv, BeforeSplitInv, CallInv, SplitInv,
                            PieceInv, DoneInv, KeepsTheDifference, ResultInOrder
<1>. QED
  BY <1>1, <1>2

\* A container of at most one interval is sorted and in order as it is.
LEMMA ContainerTooSmallStep ==
    ASSUME TypeOK, Rest, ContainerTooSmall
    PROVE  Rest'
<1>1. pc = "container" /\ Len(Target) <= 1 /\ Target \in Seq(LegalInterval)
  BY TargetType DEF ContainerTooSmall
<1>2. Separated(Target)
  BY <1>1, SeqFacts DEF Separated
<1>3. AllWide(given.removed) /\ removed # <<>> => AllWide(Target)
  BY <1>1 DEF Rest, WideInv, Target
<1>. QED
  BY <1>1, <1>2, <1>3, ReturnContainerStep DEF ContainerTooSmall

LEMMA ContainerSortStep ==
    ASSUME TypeOK, Rest, ContainerSort
    PROVE  Rest'
<1>1. PICK t \in Sorts(Target) :
         /\ IF removed = <<>> THEN intervals' = t /\ removed' = removed
                              ELSE removed' = t /\ intervals' = intervals
         /\ cur_merge' = t[1]
  BY DEF ContainerSort
<1>2. /\ pc = "container" /\ pc' = "fold" /\ it' = 2 /\ ret' = <<>> /\ given' = given
      /\ Len(Target) > 1 /\ Target \in Seq(LegalInterval)
  BY TargetType DEF ContainerSort
<1>3. /\ t \in Seq(LegalInterval) /\ Len(t) = Len(Target) /\ SortedByLower(t)
      /\ \A v \in Value : InList(t, v) <=> InList(Target, v)
      /\ AllWide(Target) => AllWide(t)
      /\ t # <<>>
  BY <1>2, SortsFacts, SeqFacts
<1>4. Target' = t
  BY <1>1, <1>3 DEF Target
<1>5. GivenInv'
  <2>1. CASE removed = <<>>
    BY <1>1, <1>2, <1>3, <2>1 DEF Rest, GivenInv, Target
  <2>2. CASE removed # <<>>
    BY <1>1, <1>2, <1>3, <2>2 DEF Rest, GivenInv, Target
  <2>. QED
    BY <2>1, <2>2
<1>6. WideInv'
  <2>1. CASE removed = <<>>
    BY <1>1, <1>2, <1>3, <2>1 DEF Rest, WideInv
  <2>2. CASE removed # <<>>
    <3>1. AllWide(given.removed) => AllWide(t)
      BY <1>2, <1>3, <2>2 DEF Rest, WideInv, Target
    <3>2. AllWide(given.removed) => t[1].lower < t[1].upper
      BY <1>2, <1>3, <3>1 DEF AllWide
    <3>3. AllWide(<<>>)
      BY DEF AllWide
    <3>. QED
      BY <1>1, <1>2, <2>2, <3>1, <3>2, <3>3 DEF WideInv
  <2>. QED
    BY <2>1, <2>2
<1>7. FoldInv'
  <2>1. \A j \in 1 .. Len(t) : t[1].lower <= t[j].lower
    BY <1>2, <1>3, SeqFacts, LegalFacts DEF SortedByLower
  <2>2. \A v \in Value : (InList(<<>>, v) \/ Has(t[1], v)) <=> \E k \in 1 .. 1 : Has(t[k], v)
    BY DEF InList
  <2>3. \A v \in Value : (InList(ret', v) \/ Has(cur_merge', v)) <=> Swept(t, v)'
    BY <1>1, <1>2, <2>2 DEF Swept
  <2>4. \A j \in 2 .. Len(t) : cur_merge'.lower <= t[j].lower
    BY <1>1, <2>1
  <2>5. Separated(ret') /\ Len(ret') = 0
    BY <1>2 DEF Separated
  <2>6. 2 \in 2 .. (Len(t) + 1)
    BY <1>2, <1>3, SeqFacts
  <2>. QED
    BY <1>2, <1>3, <1>4, <2>3, <2>4, <2>5, <2>6 DEF FoldInv, Swept
<1>. QED
  BY <1>2, <1>5, <1>6, <1>7 DEF Rest, MergeInv, Merging, BeforeSplitInv, CallInv,
     SplitInv, PieceInv, DoneInv, KeepsTheDifference, ResultInOrder

\* One more interval swept, for any list.
LEMMA SweptNext ==
    ASSUME TypeOK, it' = it + 1, NEW s, NEW v
    PROVE  (\E k \in 1 .. (it' - 1) : Has(s[k], v)) <=> Swept(s, v) \/ Has(s[it], v)
<1>1. 1 .. (it' - 1) = (1 .. (it - 1)) \cup {it}
  BY DEF TypeOK
<1>. QED
  BY <1>1 DEF Swept

LEMMA ContainerStepStep ==
    ASSUME TypeOK, Rest, ContainerStep
    PROVE  Rest'
<1>1. /\ pc = "fold" /\ it <= Len(Target) /\ it' = it + 1
      /\ UNCHANGED <<intervals, removed, pc, given>>
  BY DEF ContainerStep
<1>2. Target' = Target /\ Target \in Seq(LegalInterval)
  BY <1>1, TargetType DEF Target
<1>3. /\ it \in 2 .. (Len(Target) + 1)
      /\ SortedByLower(Target)
      /\ \A j \in it .. Len(Target) : cur_merge.lower <= Target[j].lower
      /\ \A v \in Value : (InList(ret, v) \/ Has(cur_merge, v)) <=> Swept(Target, v)
      /\ Separated(ret)
      /\ \A k \in 1 .. Len(ret) : ret[k].upper < cur_merge.lower
  BY <1>1 DEF Rest, FoldInv
<1>. DEFINE i == Target[it]
<1>4. /\ i \in LegalInterval /\ cur_merge \in LegalInterval /\ ret \in Seq(LegalInterval)
      /\ Len(Target) \in Nat /\ Len(ret) \in Nat /\ it \in Nat
      /\ \A k \in 1 .. Len(ret) : ret[k] \in LegalInterval
      /\ \A k \in 1 .. Len(Target) : Target[k] \in LegalInterval
      /\ cur_merge.lower <= i.lower
  BY <1>1, <1>2, <1>3, SeqFacts DEF TypeOK
<1>5. \A j \in (it + 1) .. Len(Target) : i.lower <= Target[j].lower /\ cur_merge.lower <= Target[j].lower
  BY <1>1, <1>3, <1>4 DEF SortedByLower
<1>6. \A v \in Value : (\E k \in 1 .. (it' - 1) : Has(Target[k], v)) <=> Swept(Target, v) \/ Has(i, v)
  BY <1>1, SweptNext
<1>7. removed # <<>> /\ AllWide(given.removed) =>
         AllWide(ret) /\ cur_merge.lower < cur_merge.upper /\ i.lower < i.upper
  <2>. SUFFICES ASSUME removed # <<>>, AllWide(given.removed)
                PROVE  AllWide(ret) /\ cur_merge.lower < cur_merge.upper /\ i.lower < i.upper
    OBVIOUS
  <2>1. AllWide(removed) /\ Target = removed /\ AllWide(ret) /\ cur_merge.lower < cur_merge.upper
    BY <1>1 DEF Rest, WideInv, Target
  <2>2. it \in 1 .. Len(removed)
    BY <1>1, <1>3, <1>4, <2>1
  <2>3. i.lower < i.upper
    BY <2>1, <2>2 DEF AllWide
  <2>. QED
    BY <2>1, <2>3
<1>8. CASE Overlap(cur_merge, i)
  <2>1. cur_merge' = Hull(cur_merge, i) /\ ret' = ret
    BY <1>8 DEF ContainerStep
  <2>2. /\ cur_merge'.lower = cur_merge.lower
        /\ \A v \in Value : Has(cur_merge', v) <=> Has(cur_merge, v) \/ Has(i, v)
        /\ cur_merge.lower < cur_merge.upper => cur_merge'.lower < cur_merge'.upper
    BY <1>4, <1>8, <2>1, HullFacts
  <2>3. \A v \in Value : (InList(ret', v) \/ Has(cur_merge', v)) <=> Swept(Target, v)'
    BY <1>2, <1>3, <1>6, <2>1, <2>2 DEF Swept
  <2>4. FoldInv'
    BY <1>1, <1>2, <1>3, <1>4, <1>5, <2>1, <2>2, <2>3 DEF FoldInv
  <2>5. WideInv'
    BY <1>1, <1>7, <2>1, <2>2 DEF Rest, WideInv
  <2>. QED
    BY <1>1, <2>4, <2>5 DEF Rest, GivenInv, MergeInv, Merging, BeforeSplitInv, CallInv,
       SplitInv, PieceInv, DoneInv, KeepsTheDifference, ResultInOrder
<1>9. CASE ~Overlap(cur_merge, i)
  <2>1. cur_merge' = i /\ ret' = Append(ret, cur_merge) /\ cur_merge.upper < i.lower
    BY <1>4, <1>9, NoOverlap DEF ContainerStep
  <2>2. /\ Len(ret') = Len(ret) + 1
        /\ ret'[Len(ret) + 1] = cur_merge
        /\ \A k \in 1 .. Len(ret) : ret'[k] = ret[k]
        /\ \A v \in Value : InList(ret', v) <=> InList(ret, v) \/ Has(cur_merge, v)
    BY <1>4, <2>1, AppendFacts
  <2>3. \A v \in Value : (InList(ret', v) \/ Has(cur_merge', v)) <=> Swept(Target, v)'
    BY <1>2, <1>3, <1>6, <2>1, <2>2 DEF Swept
  <2>4. \A k \in 1 .. Len(ret') : ret'[k].upper < cur_merge'.lower
    BY <1>3, <1>4, <2>1, <2>2, LegalFacts
  <2>5. Separated(ret')
    BY <1>3, <1>4, <2>2, SMTT(30) DEF Separated
  <2>6. FoldInv'
    BY <1>1, <1>2, <1>3, <1>4, <1>5, <2>1, <2>3, <2>4, <2>5 DEF FoldInv
  <2>7. AllWide(ret) /\ cur_merge.lower < cur_merge.upper => AllWide(ret')
    BY <1>4, <2>2 DEF AllWide
  <2>8. WideInv'
    BY <1>1, <1>7, <2>1, <2>7 DEF Rest, WideInv
  <2>. QED
    BY <1>1, <2>6, <2>8 DEF Rest, GivenInv, MergeInv, Merging, BeforeSplitInv, CallInv,
       SplitInv, PieceInv, DoneInv, KeepsTheDifference, ResultInOrder
<1>. QED
  BY <1>8, <1>9

LEMMA ContainerReturnStep ==
    ASSUME TypeOK, Rest, ContainerReturn
    PROVE  Rest'
<1>. DEFINE c == Append(ret, cur_merge)
<1>1. /\ pc = "fold" /\ it > Len(Target) /\ ReturnContainer(c)
      /\ Target \in Seq(LegalInterval)
      /\ cur_merge \in LegalInterval /\ ret \in Seq(LegalInterval)
      /\ Len(Target) \in Nat /\ Len(ret) \in Nat
      /\ \A k \in 1 .. Len(ret) : ret[k] \in LegalInterval
  BY TargetType, SeqFacts DEF ContainerReturn, TypeOK
<1>2. /\ it = Len(Target) + 1
      /\ \A v \in Value : (InList(ret, v) \/ Has(cur_merge, v)) <=> Swept(Target, v)
      /\ Separated(ret)
      /\ \A k \in 1 .. Len(ret) : ret[k].upper < cur_merge.lower
  BY <1>1 DEF Rest, FoldInv
<1>3. /\ c \in Seq(LegalInterval)
      /\ Len(c) = Len(ret) + 1
      /\ c[Len(ret) + 1] = cur_merge
      /\ \A k \in 1 .. Len(ret) : c[k] = ret[k]
      /\ \A v \in Value : InList(c, v) <=> InList(ret, v) \/ Has(cur_merge, v)
  BY <1>1, AppendFacts
<1>4. \A v \in Value : InList(c, v) <=> InList(Target, v)
  BY <1>1, <1>2, <1>3 DEF Swept, InList
<1>5. Separated(c)
  BY <1>1, <1>2, <1>3 DEF Separated
<1>6. AllWide(given.removed) /\ removed # <<>> => AllWide(c)
  BY <1>1, <1>3 DEF Rest, WideInv, AllWide
<1>. QED
  BY <1>1, <1>3, <1>4, <1>5, <1>6, ReturnContainerStep

------------------------------------------------------------------------------
(* The merge loop. *)

LEMMA SortIntervalsStep ==
    ASSUME TypeOK, SortInv, Rest, SortIntervals
    PROVE  Rest'
<1>1. PICK t \in Sorts(intervals) : intervals' = t /\ cur_merge' = t[1]
  BY DEF SortIntervals
<1>2. /\ pc = "sort" /\ pc' = "merge" /\ it' = 2 /\ it_removed' = 1 /\ ret' = <<>>
      /\ UNCHANGED <<removed, given>>
      /\ intervals # <<>> /\ removed \in Seq(LegalInterval)
  BY DEF SortIntervals, SortInv, TypeOK
<1>3. /\ t \in Seq(LegalInterval) /\ Len(t) = Len(intervals) /\ SortedByLower(t)
      /\ Len(t) \in Nat /\ Len(t) > 0
      /\ \A v \in Value : InList(t, v) <=> InList(intervals, v)
  BY <1>2, SortsFacts, SeqFacts DEF TypeOK
<1>4. GivenInv' /\ WideInv'
  BY <1>1, <1>2, <1>3 DEF Rest, GivenInv, WideInv
<1>5. \A v \in Value : Swept(intervals, v)' <=> Has(t[1], v)
  <2>1. 1 .. (it' - 1) = {1}
    BY <1>2
  <2>. QED
    BY <1>1, <2>1 DEF Swept
<1>6. \A j \in 2 .. Len(t) : t[1].lower <= t[j].lower
  BY <1>3 DEF SortedByLower
<1>7. MergeInv'
  <2>1. Separated(removed)
    BY <1>2 DEF Rest, MergeInv
  <2>2. \A v \in Value : ~InList(<<>>, v)
    BY DEF InList
  <2>3. Len(removed) \in Nat
    BY <1>2, SeqFacts
  <2>4. /\ 2 \in 2 .. (Len(t) + 1) /\ 1 \in 1 .. (Len(removed) + 1)
        /\ \A k \in 1 .. 0 : FALSE
    BY <1>3, <2>3
  <2>5. \A v \in Value : Has(cur_merge, v)' => Swept(intervals, v)'
    BY <1>1, <1>5 DEF Has
  <2>6. \A k \in 1 .. (it_removed' - 1) : removed'[k].upper < cur_merge'.lower
    BY <1>2, <2>4
  <2>7. \A j, k \in 1 .. Len(ret') : j < k => Apart(ret[j].upper, ret[k].lower)'
    BY <1>2
  <2>. QED
    BY <1>1, <1>2, <1>3, <1>6, <2>1, <2>2, <2>4, <2>5, <2>6, <2>7 DEF MergeInv, Merging
<1>8. BeforeSplitInv'
  BY <1>1, <1>2, <1>5 DEF BeforeSplitInv, Has
<1>. QED
  BY <1>2, <1>4, <1>7, <1>8 DEF Rest, FoldInv, CallInv, SplitInv, PieceInv, DoneInv,
                                KeepsTheDifference, ResultInOrder

\* What the loop knows at any of its points, with the types it needs.
LEMMA MergingFacts ==
    ASSUME TypeOK, Rest, Merging
    PROVE  /\ Separated(removed)
           /\ it \in 2 .. (Len(intervals) + 1) /\ it \in Nat
           /\ it_removed \in 1 .. (Len(removed) + 1) /\ it_removed \in Nat
           /\ SortedByLower(intervals)
           /\ \A j \in it .. Len(intervals) : cur_merge.lower <= intervals[j].lower
           /\ \A k \in 1 .. (it_removed - 1) : removed[k].upper < cur_merge.lower
           /\ \A v \in Value : Has(cur_merge, v) => Swept(intervals, v)
           /\ \A v \in Value : InList(ret, v) => Swept(intervals, v) /\ ~InList(removed, v)
           /\ \A j, k \in 1 .. Len(ret) : j < k => Apart(ret[j].upper, ret[k].lower)
           /\ Len(intervals) \in Nat /\ Len(removed) \in Nat /\ Len(ret) \in Nat
           /\ \A k \in 1 .. Len(intervals) : intervals[k] \in LegalInterval
           /\ \A k \in 1 .. Len(removed) : removed[k] \in LegalInterval
           /\ \A k \in 1 .. Len(ret) : ret[k] \in LegalInterval
           /\ pc # "done" /\ pc # "fold" /\ pc # "sort" /\ pc # "entry" /\ pc # "container"
           /\ AllWide(given.removed) => AllWide(removed)
<1>1. it \in 2 .. (Len(intervals) + 1) /\ it_removed \in 1 .. (Len(removed) + 1)
  BY DEF Rest, MergeInv
<1>2. Len(intervals) \in Nat /\ Len(removed) \in Nat /\ Len(ret) \in Nat
  BY SeqFacts DEF TypeOK
<1>3. /\ \A k \in 1 .. Len(intervals) : intervals[k] \in LegalInterval
      /\ \A k \in 1 .. Len(removed) : removed[k] \in LegalInterval
      /\ \A k \in 1 .. Len(ret) : ret[k] \in LegalInterval
  BY SeqFacts DEF TypeOK
<1>4. /\ pc # "done" /\ pc # "fold" /\ pc # "sort" /\ pc # "entry" /\ pc # "container"
  BY DEF Merging
<1>. QED
  BY <1>1, <1>2, <1>3, <1>4 DEF Rest, MergeInv, WideInv

LEMMA MergeStepStep ==
    ASSUME TypeOK, Rest, MergeStep
    PROVE  Rest'
<1>. DEFINE i == intervals[it]
<1>1. /\ pc = "merge" /\ it <= Len(intervals) /\ Overlap(cur_merge, i)
      /\ cur_merge' = Hull(cur_merge, i) /\ it' = it + 1
      /\ UNCHANGED <<intervals, removed, it_removed, ret, pc, given>>
  BY DEF MergeStep
<1>2. Merging
  BY <1>1 DEF Merging
<1>3. it \in 1 .. Len(intervals) /\ i \in LegalInterval /\ cur_merge \in LegalInterval
  BY <1>1, <1>2, MergingFacts DEF TypeOK
<1>4. cur_merge.lower <= i.lower
  BY <1>1, <1>2, <1>3, MergingFacts
<1>5. /\ cur_merge'.lower = cur_merge.lower
      /\ \A v \in Value : Has(cur_merge', v) <=> Has(cur_merge, v) \/ Has(i, v)
  BY <1>1, <1>3, <1>4, HullFacts
<1>6. \A v \in Value : Swept(intervals, v)' <=> Swept(intervals, v) \/ Has(i, v)
  BY <1>1, SweptNext DEF Swept
<1>7. GivenInv' /\ WideInv'
  BY <1>1 DEF Rest, GivenInv, WideInv, AllWide
<1>8. MergeInv'
  <2>1. Merging' /\ it' \in 2 .. (Len(intervals) + 1)
    BY <1>1, <1>2, <1>3, MergingFacts DEF Merging
  <2>2. \A j \in it' .. Len(intervals) : cur_merge'.lower <= intervals[j].lower
    BY <1>1, <1>2, <1>5, MergingFacts
  <2>3. \A v \in Value : Has(cur_merge', v) => Swept(intervals, v)'
    BY <1>2, <1>5, <1>6, MergingFacts
  <2>4. \A v \in Value : InList(ret, v) => Swept(intervals, v)' /\ ~InList(removed, v)
    BY <1>2, <1>6, MergingFacts
  <2>. QED
    BY <1>1, <1>2, <1>5, <2>1, <2>2, <2>3, <2>4, MergingFacts DEF MergeInv, Apart, Has
<1>9. BeforeSplitInv'
  BY <1>1, <1>5, <1>6 DEF Rest, BeforeSplitInv, Has
<1>. QED
  BY <1>1, <1>7, <1>8, <1>9 DEF Rest, FoldInv, CallInv, SplitInv, PieceInv, DoneInv,
                                KeepsTheDifference, ResultInOrder

LEMMA CallSplitStep ==
    ASSUME TypeOK, Rest, CallSplit
    PROVE  Rest'
<1>1. /\ pc = "merge" /\ pc' = "skip"
      /\ it <= Len(intervals) => ~Overlap(cur_merge, intervals[it])
      /\ UNCHANGED <<intervals, removed, it, cur_merge, it_removed, ret, given>>
  BY DEF CallSplit
<1>2. Merging /\ Merging'
  BY <1>1 DEF Merging
<1>3. it <= Len(intervals) => cur_merge.upper < intervals[it].lower
  BY <1>1, <1>2, MergingFacts, NoOverlap DEF TypeOK
<1>4. CallInv'
  BY <1>1, <1>3 DEF CallInv
<1>5. GivenInv' /\ WideInv' /\ MergeInv' /\ BeforeSplitInv'
  BY <1>1, <1>2 DEF Rest, GivenInv, WideInv, AllWide, MergeInv, BeforeSplitInv, Has, InList,
                    Swept, Apart
<1>. QED
  BY <1>1, <1>4, <1>5 DEF Rest, FoldInv, SplitInv, PieceInv, DoneInv,
                          KeepsTheDifference, ResultInOrder

LEMMA SkipRemovedStep ==
    ASSUME TypeOK, Rest, SkipRemoved
    PROVE  Rest'
<1>1. /\ pc = "skip" /\ pc' = pc /\ it_removed <= Len(removed)
      /\ cur_merge.lower > removed[it_removed].upper
      /\ it_removed' = it_removed + 1
      /\ UNCHANGED <<intervals, removed, it, cur_merge, ret, given>>
  BY DEF SkipRemoved
<1>2. Merging /\ Merging'
  BY <1>1 DEF Merging
<1>3. MergeInv'
  <2>1. it_removed' \in 1 .. (Len(removed) + 1)
    BY <1>1, <1>2, MergingFacts
  <2>2. \A k \in 1 .. (it_removed' - 1) : k \in 1 .. (it_removed - 1) \/ k = it_removed
    BY <1>1, <1>2, MergingFacts
  <2>3. removed[it_removed].upper < cur_merge.lower
    BY <1>1, <1>2, MergingFacts, LegalFacts DEF TypeOK
  <2>4. \A k \in 1 .. (it_removed' - 1) : removed[k].upper < cur_merge.lower
    BY <1>2, <2>2, <2>3, MergingFacts
  <2>. QED
    BY <1>1, <1>2, <2>1, <2>4, MergingFacts DEF MergeInv, Apart, Has, InList, Swept
<1>4. GivenInv' /\ WideInv' /\ BeforeSplitInv' /\ CallInv'
  BY <1>1 DEF Rest, GivenInv, WideInv, AllWide, BeforeSplitInv, CallInv, Has, InList, Swept
<1>. QED
  BY <1>1, <1>3, <1>4 DEF Rest, FoldInv, SplitInv, PieceInv, DoneInv,
                          KeepsTheDifference, ResultInOrder

------------------------------------------------------------------------------
(* The split. *)

LEMMA StartSplitStep ==
    ASSUME TypeOK, Rest, StartSplit
    PROVE  Rest'
<1>1. /\ pc = "skip" /\ piece' = cur_merge /\ it_removed_cur' = it_removed
      /\ pc' = IF it_removed <= Len(removed) THEN "split" ELSE "flush"
      /\ UNCHANGED <<intervals, removed, it, cur_merge, it_removed, ret, given>>
  BY DEF StartSplit
<1>2. Merging /\ Merging' /\ cur_merge \in LegalInterval
  BY <1>1 DEF Merging, TypeOK
<1>3. GivenInv' /\ WideInv' /\ MergeInv' /\ CallInv'
  BY <1>1, <1>2 DEF Rest, GivenInv, WideInv, AllWide, MergeInv, CallInv, Has, InList,
                    Swept, Apart
<1>4. \A k \in 1 .. Len(ret) : ret[k].upper < cur_merge.lower
  BY <1>1 DEF Rest, BeforeSplitInv
<1>5. SplitInv'
  <2>1. \A k \in 1 .. Len(ret) : /\ ret[k].upper <= cur_merge.upper
                                 /\ Apart(ret[k].upper, cur_merge.lower)
    BY <1>2, <1>4, MergingFacts, LegalFacts DEF Apart
  <2>2. cur_merge.upper <= cur_merge.upper
    BY <1>2, LegalFacts
  <2>3. \A v \in Value :
          Swept(intervals, v) => InList(ret, v) \/ Has(cur_merge, v) \/ InList(removed, v)
    BY <1>1 DEF Rest, BeforeSplitInv
  <2>. QED
    BY <1>1, <2>1, <2>2, <2>3 DEF SplitInv, Apart, Has, InList, Swept
<1>6. PieceInv'
  <2>1. \A v \in Value, k \in 1 .. (it_removed - 1) : Has(cur_merge, v) => ~Has(removed[k], v)
    <3>1. ASSUME NEW v \in Value, NEW k \in 1 .. (it_removed - 1), Has(cur_merge, v)
          PROVE  ~Has(removed[k], v)
      <4>1. removed[k].upper < cur_merge.lower /\ removed[k] \in LegalInterval
        BY <1>2, MergingFacts
      <4>. QED
        BY <1>2, <3>1, <4>1, LegalFacts DEF Has, Value
    <3>. QED
      BY <3>1
  <2>2. CASE it_removed <= Len(removed)
    BY <1>1, <2>1, <2>2 DEF PieceInv, Has
  <2>3. CASE it_removed > Len(removed)
    <3>1. it_removed - 1 = Len(removed)
      BY <1>2, <2>3, MergingFacts
    <3>2. pc' = "flush"
      BY <1>1, <1>2, <2>3, MergingFacts
    <3>. QED
      BY <1>1, <2>1, <3>1, <3>2 DEF PieceInv, Has, InList
  <2>. QED
    BY <1>2, <2>2, <2>3, MergingFacts
<1>. QED
  BY <1>1, <1>3, <1>5, <1>6 DEF Rest, FoldInv, BeforeSplitInv, DoneInv,
                                KeepsTheDifference, ResultInOrder

\* What a step of the split does to the piece and the result, for any value.
LEMMA SplitStepStep ==
    ASSUME TypeOK, TypeOK', Rest, SplitStep
    PROVE  Rest'
<1>. DEFINE r == removed[it_removed_cur]
            next == it_removed_cur + 1
            below == Itv(piece.lower, r.lower)
<1>1. /\ pc = "split" /\ piece' = LeftOf(piece, r)
      /\ ret' = IF CutsInTwo(piece, r) THEN Append(ret, below) ELSE ret
      /\ it_removed_cur' = next
      /\ pc' = IF next <= Len(removed) /\ removed[next].lower < piece'.upper
                 THEN "split" ELSE "flush"
      /\ UNCHANGED <<intervals, removed, it, cur_merge, it_removed, given>>
  BY DEF SplitStep
<1>2. Merging /\ Merging'
  BY <1>1 DEF Merging
<1>3. /\ it_removed_cur \in 1 .. Len(removed) /\ r \in LegalInterval
      /\ piece \in LegalInterval /\ piece' \in LegalInterval /\ cur_merge \in LegalInterval
      /\ ret \in Seq(LegalInterval)
  BY <1>1, <1>2, MergingFacts DEF TypeOK
<1>4. /\ r.lower \in Nat /\ r.upper \in Nat /\ r.lower <= r.upper
      /\ piece.lower \in Nat /\ piece.upper \in Nat /\ piece.lower <= piece.upper
      /\ piece'.lower \in Nat /\ piece'.upper \in Nat /\ piece'.lower <= piece'.upper
      /\ cur_merge.lower \in Nat /\ cur_merge.upper \in Nat
  BY <1>3, LegalFacts
<1>5. /\ piece.upper <= cur_merge.upper
      /\ \A k \in 1 .. Len(ret) : ret[k].upper <= cur_merge.upper
      /\ piece.lower < piece.upper =>
           \A k \in 1 .. Len(ret) : Apart(ret[k].upper, piece.lower)
      /\ \A v \in Value : Has(piece, v) => Has(cur_merge, v)
      /\ \A v \in Value :
           Swept(intervals, v) => InList(ret, v) \/ Has(piece, v) \/ InList(removed, v)
      /\ \A v \in Value, k \in 1 .. (it_removed_cur - 1) : Has(piece, v) => ~Has(removed[k], v)
  BY <1>1 DEF Rest, SplitInv, PieceInv
<1>6. /\ piece'.upper <= piece.upper
      /\ piece'.lower < piece'.upper => piece.lower <= piece'.lower
      /\ CutsInTwo(piece, r) => piece'.lower = r.upper
      /\ \A v \in Value :
           /\ Has(piece', v) => Has(piece, v) /\ ~Has(r, v)
           /\ Has(piece, v) => \/ Has(r, v) \/ Has(piece', v)
                               \/ CutsInTwo(piece, r) /\ Has(below, v)
  BY <1>1, <1>3, LeftOfLegal, LeftOfHas DEF Itv
<1>7. CutsInTwo(piece, r) =>
        /\ below \in LegalInterval /\ below.lower = piece.lower /\ below.upper = r.lower
        /\ piece.lower < r.lower /\ r.upper < piece.upper /\ piece.lower < piece.upper
  BY <1>3, <1>4, LegalFacts, ItvLegal DEF CutsInTwo
<1>8. AllWide(given.removed) => r.lower < r.upper
  BY <1>2, <1>3, MergingFacts DEF AllWide
<1>9. Apart(r.lower, r.upper)
  BY <1>4, <1>8 DEF Apart
<1>10. ASSUME NEW k \in 1 .. Len(removed), k > it_removed_cur
       PROVE  r.upper < removed[k].lower
  BY <1>2, <1>3, <1>10, MergingFacts DEF Separated
<1>11. \A v \in Value : InList(removed, v) <=> \E k \in 1 .. Len(removed) : Has(removed[k], v)
  BY DEF InList
\* The part below r is outside every removed interval.
<1>12. ASSUME CutsInTwo(piece, r), NEW v \in Value, Has(below, v)
       PROVE  Has(piece, v) /\ ~InList(removed, v)
  <2>1. Has(piece, v) /\ v < r.lower
    BY <1>4, <1>7, <1>12 DEF Has, Value
  <2>2. ASSUME NEW k \in 1 .. Len(removed) PROVE ~Has(removed[k], v)
    <3>1. CASE k < it_removed_cur
      BY <1>3, <1>5, <2>1, <3>1
    <3>2. CASE k = it_removed_cur
      BY <1>4, <2>1, <3>2 DEF Has, Value
    <3>3. CASE k > it_removed_cur
      <4>1. r.upper < removed[k].lower /\ removed[k] \in LegalInterval
        BY <1>2, <1>10, <3>3, MergingFacts
      <4>. QED
        BY <1>4, <2>1, <4>1, LegalFacts DEF Has, Value
    <3>. QED
      BY <1>3, <3>1, <3>2, <3>3
  <2>. QED
    BY <1>11, <2>1, <2>2
\* The result after the step.
<1>13. /\ \A v \in Value : InList(ret', v) => Swept(intervals, v) /\ ~InList(removed, v)
       /\ \A j, k \in 1 .. Len(ret') : j < k => Apart(ret'[j].upper, ret'[k].lower)
       /\ \A k \in 1 .. Len(ret') : ret'[k].upper <= cur_merge.upper
       /\ piece'.lower < piece'.upper =>
            \A k \in 1 .. Len(ret') : Apart(ret'[k].upper, piece'.lower)
       /\ \A v \in Value :
            Swept(intervals, v) => InList(ret', v) \/ Has(piece', v) \/ InList(removed, v)
  <2>0. \A v \in Value : Has(r, v) => InList(removed, v)
    BY <1>3, <1>11
  <2>1. CASE CutsInTwo(piece, r)
    <3>1. /\ Len(ret') = Len(ret) + 1
          /\ ret'[Len(ret) + 1] = below
          /\ \A k \in 1 .. Len(ret) : ret'[k] = ret[k]
          /\ \A v \in Value : InList(ret', v) <=> InList(ret, v) \/ Has(below, v)
      BY <1>1, <1>3, <1>7, <2>1, AppendFacts
    <3>2. \A v \in Value : InList(ret', v) => Swept(intervals, v) /\ ~InList(removed, v)
      BY <1>2, <1>5, <1>12, <2>1, <3>1, MergingFacts
    <3>3. \A k \in 1 .. Len(ret) : /\ ret[k].upper \in Nat
                                   /\ Apart(ret[k].upper, piece.lower)
      BY <1>2, <1>5, <1>7, <2>1, MergingFacts, LegalFacts
    <3>4. \A j, k \in 1 .. Len(ret') : j < k => Apart(ret'[j].upper, ret'[k].lower)
      <4>1. ASSUME NEW j \in 1 .. Len(ret'), NEW k \in 1 .. Len(ret'), j < k
            PROVE  Apart(ret'[j].upper, ret'[k].lower)
        <5>1. j \in 1 .. Len(ret) /\ (k \in 1 .. Len(ret) \/ k = Len(ret) + 1)
          BY <1>2, <3>1, <4>1, MergingFacts
        <5>. QED
          BY <1>2, <1>7, <2>1, <3>1, <3>3, <4>1, <5>1, MergingFacts
      <4>. QED
        BY <4>1
    <3>5. \A k \in 1 .. Len(ret') : (k \in 1 .. Len(ret) /\ ret'[k] = ret[k]) \/ ret'[k] = below
      <4>1. Len(ret) \in Nat
        BY <1>2, MergingFacts
      <4>2. 1 .. Len(ret') = (1 .. Len(ret)) \cup {Len(ret) + 1}
        BY <3>1, <4>1
      <4>. QED
        BY <3>1, <4>2
    <3>6. \A k \in 1 .. Len(ret') : ret'[k].upper <= cur_merge.upper
      <4>1. below.upper <= cur_merge.upper
        BY <1>4, <1>5, <1>7, <2>1
      <4>2. \A k \in 1 .. Len(ret) : ret[k].upper <= cur_merge.upper
        BY <1>5
      <4>. QED
        BY <3>5, <4>1, <4>2
    <3>7. \A k \in 1 .. Len(ret') : Apart(ret'[k].upper, piece'.lower)
      <4>1. \A k \in 1 .. Len(ret) : Apart(ret[k].upper, r.upper)
        BY <1>4, <1>7, <2>1, <3>3 DEF Apart
      <4>2. Apart(below.upper, r.upper) /\ piece'.lower = r.upper
        BY <1>6, <1>7, <1>9, <2>1
      <4>. QED
        BY <3>5, <4>1, <4>2
    <3>8. \A v \in Value :
            Swept(intervals, v) => InList(ret', v) \/ Has(piece', v) \/ InList(removed, v)
      BY <1>5, <1>6, <2>0, <3>1
    <3>. QED
      BY <3>2, <3>4, <3>6, <3>7, <3>8
  <2>2. CASE ~CutsInTwo(piece, r)
    <3>1. ret' = ret
      BY <1>1, <2>2
    <3>2. piece'.lower < piece'.upper =>
            \A k \in 1 .. Len(ret) : Apart(ret[k].upper, piece'.lower)
      <4>1. ASSUME piece'.lower < piece'.upper, NEW k \in 1 .. Len(ret)
            PROVE  Apart(ret[k].upper, piece'.lower)
        <5>1. piece.lower < piece.upper /\ piece.lower <= piece'.lower
          BY <1>4, <1>6, <4>1
        <5>2. Apart(ret[k].upper, piece.lower) /\ ret[k].upper \in Nat
          BY <1>2, <1>5, <5>1, MergingFacts, LegalFacts
        <5>. QED
          BY <1>4, <5>1, <5>2 DEF Apart
      <4>. QED
        BY <4>1
    <3>3. \A v \in Value :
            Swept(intervals, v) => InList(ret, v) \/ Has(piece', v) \/ InList(removed, v)
      BY <1>5, <1>6, <2>0, <2>2
    <3>. QED
      BY <1>2, <1>5, <3>1, <3>2, <3>3, MergingFacts
  <2>. QED
    BY <2>1, <2>2
<1>14. GivenInv' /\ WideInv' /\ CallInv'
  BY <1>1 DEF Rest, GivenInv, WideInv, AllWide, CallInv, InList
<1>15. MergeInv'
  BY <1>1, <1>2, <1>13, MergingFacts DEF MergeInv, Apart, Has, InList, Swept
<1>16. SplitInv'
  <2>1. piece'.upper <= cur_merge.upper
    BY <1>4, <1>5, <1>6
  <2>2. \A v \in Value : Has(piece', v) => Has(cur_merge, v)
    BY <1>5, <1>6
  <2>. QED
    BY <1>1, <1>13, <2>1, <2>2 DEF SplitInv, Apart, Has, InList, Swept
\* The piece avoids one more removed interval; when the loop ends, all of them.
<1>17. PieceInv'
  <2>1. ASSUME NEW v \in Value, NEW k \in 1 .. (next - 1), Has(piece', v)
        PROVE  ~Has(removed[k], v)
    <3>1. Has(piece, v) /\ ~Has(r, v) /\ (k \in 1 .. (it_removed_cur - 1) \/ k = it_removed_cur)
      BY <1>3, <1>6, <2>1
    <3>. QED
      BY <1>5, <3>1
  <2>2. CASE pc' = "split"
    BY <1>1, <2>1, <2>2 DEF PieceInv, Has
  <2>3. CASE pc' = "flush"
    <3>1. next > Len(removed) \/ (next \in 1 .. Len(removed) /\ removed[next].lower >= piece'.upper)
      <4>1. next \in Nat /\ next >= 1 /\ Len(removed) \in Nat
        BY <1>2, <1>3, MergingFacts
      <4>2. next \in 1 .. Len(removed) => removed[next].lower \in Nat
        BY <1>2, MergingFacts, LegalFacts
      <4>. QED
        BY <1>1, <1>4, <2>3, <4>1, <4>2
    <3>2. ASSUME NEW v \in Value, Has(piece', v), NEW k \in 1 .. Len(removed)
          PROVE  ~Has(removed[k], v)
      <4>1. CASE k < next
        BY <1>3, <2>1, <3>2, <4>1
      <4>2. CASE k >= next
        <5>1. next \in 1 .. Len(removed) /\ removed[next].lower >= piece'.upper
          BY <1>2, <1>3, <3>1, <4>2, MergingFacts
        <5>2. removed[next] \in LegalInterval /\ removed[k] \in LegalInterval
          BY <1>2, <5>1, MergingFacts
        <5>3. k # next => removed[next].upper < removed[k].lower
          BY <1>2, <4>2, <5>1, MergingFacts DEF Separated
        <5>4. piece'.upper <= removed[k].lower
          BY <1>4, <5>1, <5>2, <5>3, LegalFacts
        <5>. QED
          BY <1>4, <3>2, <5>2, <5>4, LegalFacts DEF Has, Value
      <4>. QED
        BY <1>3, <4>1, <4>2
    <3>. QED
      BY <1>1, <2>3, <3>2 DEF PieceInv, Has, InList
  <2>. QED
    BY <1>1, <2>2, <2>3
<1>. QED
  BY <1>1, <1>14, <1>15, <1>16, <1>17 DEF Rest, FoldInv, BeforeSplitInv, DoneInv,
                                KeepsTheDifference, ResultInOrder

\* The end of the split: the piece that is left goes to the result.
LEMMA WithPieceFacts ==
    ASSUME TypeOK, Rest, pc = "flush"
    PROVE  /\ \A v \in Value : InList(WithPiece, v) =>
                Swept(intervals, v) /\ ~InList(removed, v)
           /\ \A v \in Value : Swept(intervals, v) =>
                InList(WithPiece, v) \/ InList(removed, v)
           /\ \A j, k \in 1 .. Len(WithPiece) : j < k =>
                Apart(WithPiece[j].upper, WithPiece[k].lower)
           /\ \A k \in 1 .. Len(WithPiece) : WithPiece[k].upper <= cur_merge.upper
           /\ WithPiece \in Seq(LegalInterval)
<1>1. Merging /\ piece \in LegalInterval /\ ret \in Seq(LegalInterval)
  BY DEF Merging, TypeOK
<1>2. /\ piece.upper <= cur_merge.upper
      /\ \A k \in 1 .. Len(ret) : ret[k].upper <= cur_merge.upper
      /\ piece.lower < piece.upper =>
           \A k \in 1 .. Len(ret) : Apart(ret[k].upper, piece.lower)
      /\ \A v \in Value : Has(piece, v) => Has(cur_merge, v) /\ ~InList(removed, v)
      /\ \A v \in Value :
           Swept(intervals, v) => InList(ret, v) \/ Has(piece, v) \/ InList(removed, v)
  BY DEF Rest, SplitInv, PieceInv
<1>3. CASE piece.lower < piece.upper
  <2>1. WithPiece = Append(ret, piece)
    BY <1>1, <1>3, WidthOfLegal DEF WithPiece
  <2>2. /\ Len(WithPiece) = Len(ret) + 1 /\ Len(ret) \in Nat
        /\ WithPiece[Len(ret) + 1] = piece
        /\ \A k \in 1 .. Len(ret) : WithPiece[k] = ret[k]
        /\ \A v \in Value : InList(WithPiece, v) <=> InList(ret, v) \/ Has(piece, v)
        /\ WithPiece \in Seq(LegalInterval)
    BY <1>1, <2>1, AppendFacts, MergingFacts
  <2>3. 1 .. Len(WithPiece) = (1 .. Len(ret)) \cup {Len(ret) + 1}
    BY <2>2
  <2>4. ASSUME NEW j \in 1 .. Len(WithPiece), NEW k \in 1 .. Len(WithPiece), j < k
        PROVE  Apart(WithPiece[j].upper, WithPiece[k].lower)
    <3>1. j \in 1 .. Len(ret)
      BY <2>2, <2>4
    <3>2. CASE k \in 1 .. Len(ret)
      BY <1>1, <2>2, <2>4, <3>1, <3>2, MergingFacts
    <3>3. CASE k = Len(ret) + 1
      BY <1>2, <1>3, <2>2, <3>1, <3>3
    <3>. QED
      BY <2>3, <3>2, <3>3
  <2>5. \A k \in 1 .. Len(WithPiece) : WithPiece[k].upper <= cur_merge.upper
    BY <1>2, <2>2, <2>3
  <2>6. \A v \in Value : InList(WithPiece, v) => Swept(intervals, v) /\ ~InList(removed, v)
    BY <1>1, <1>2, <2>2, MergingFacts
  <2>. QED
    BY <1>2, <2>2, <2>4, <2>5, <2>6
<1>4. CASE ~(piece.lower < piece.upper)
  <2>1. WithPiece = ret
    BY <1>1, <1>4, WidthOfLegal DEF WithPiece
  <2>2. \A v \in Value : ~Has(piece, v)
    BY <1>1, <1>4, LegalFacts DEF Has, Value
  <2>. QED
    BY <1>1, <1>2, <2>1, <2>2, MergingFacts
<1>. QED
  BY <1>3, <1>4

LEMMA NextMergeStep ==
    ASSUME TypeOK, Rest, NextMerge
    PROVE  Rest'
<1>. DEFINE i == intervals[it]
<1>1. /\ pc = "flush" /\ pc' = "merge" /\ it <= Len(intervals)
      /\ ret' = WithPiece /\ cur_merge' = i /\ it' = it + 1
      /\ UNCHANGED <<intervals, removed, it_removed, given>>
  BY DEF NextMerge
<1>2. Merging /\ Merging' /\ cur_merge \in LegalInterval
  BY <1>1 DEF Merging, TypeOK
<1>3. it \in 1 .. Len(intervals) /\ i \in LegalInterval
  BY <1>1, <1>2, MergingFacts
<1>4. cur_merge.upper < i.lower
  BY <1>1 DEF Rest, CallInv
<1>5. \A v \in Value : Swept(intervals, v)' <=> Swept(intervals, v) \/ Has(i, v)
  BY <1>1, SweptNext DEF Swept
<1>6. \A v \in Value : InList(ret', v) <=> InList(WithPiece, v)
  BY <1>1
<1>7. MergeInv'
  <2>1. it' \in 2 .. (Len(intervals) + 1)
    BY <1>1, <1>2, <1>3, MergingFacts
  <2>2. \A j \in it' .. Len(intervals) : i.lower <= intervals[j].lower
    BY <1>1, <1>2, <1>3, MergingFacts DEF SortedByLower
  <2>3. \A k \in 1 .. (it_removed - 1) : removed[k].upper < i.lower
    <3>1. ASSUME NEW k \in 1 .. (it_removed - 1) PROVE removed[k].upper < i.lower
      <4>1. removed[k].upper < cur_merge.lower /\ removed[k] \in LegalInterval
        BY <1>2, MergingFacts
      <4>. QED
        BY <1>2, <1>3, <1>4, <4>1, LegalFacts
    <3>. QED
      BY <3>1
  <2>4. \A v \in Value : InList(ret', v) => Swept(intervals, v)' /\ ~InList(removed, v)
    BY <1>1, <1>5, <1>6, WithPieceFacts
  <2>5. \A j, k \in 1 .. Len(ret') : j < k => Apart(ret'[j].upper, ret'[k].lower)
    BY <1>1, WithPieceFacts
  <2>6. \A v \in Value : Has(i, v) => Swept(intervals, v)'
    BY <1>5
  <2>. QED
    BY <1>1, <1>2, <2>1, <2>2, <2>3, <2>4, <2>5, <2>6, MergingFacts
       DEF MergeInv, Apart, Has, InList
<1>8. BeforeSplitInv'
  <2>1. \A k \in 1 .. Len(ret') : ret'[k].upper < i.lower
    <3>1. ASSUME NEW k \in 1 .. Len(ret') PROVE ret'[k].upper < i.lower
      <4>1. ret'[k].upper <= cur_merge.upper /\ ret'[k] \in LegalInterval
        BY <1>1, WithPieceFacts, SeqFacts
      <4>. QED
        BY <1>2, <1>3, <1>4, <4>1, LegalFacts
    <3>. QED
      BY <3>1
  <2>2. \A v \in Value :
          Swept(intervals, v)' => InList(ret', v) \/ Has(i, v) \/ InList(removed, v)
    BY <1>1, <1>5, <1>6, WithPieceFacts
  <2>. QED
    BY <1>1, <2>1, <2>2 DEF BeforeSplitInv, Has, InList
<1>9. GivenInv' /\ WideInv'
  BY <1>1 DEF Rest, GivenInv, WideInv, AllWide
<1>. QED
  BY <1>1, <1>7, <1>8, <1>9 DEF Rest, FoldInv, CallInv, SplitInv, PieceInv, DoneInv,
                                KeepsTheDifference, ResultInOrder

LEMMA ReturnStep ==
    ASSUME TypeOK, Rest, Return
    PROVE  Rest'
<1>1. /\ pc = "flush" /\ pc' = "done" /\ it > Len(intervals)
      /\ intervals' = WithPiece /\ given' = given
  BY DEF Return
<1>2. Merging
  BY <1>1 DEF Merging
<1>3. it - 1 = Len(intervals)
  BY <1>1, <1>2, MergingFacts
<1>4. \A v \in Value : Swept(intervals, v) <=> InList(intervals, v)
  BY <1>3 DEF Swept, InList
<1>5. \A v \in Value : InList(WithPiece, v) <=> InList(intervals, v) /\ ~InList(removed, v)
  BY <1>1, <1>4, WithPieceFacts
<1>6. KeepsTheDifference'
  BY <1>1, <1>5 DEF KeepsTheDifference, Rest, GivenInv, InList
<1>7. ResultInOrder'
  <2>1. InOrder(WithPiece) /\ (AllWide(given.removed) => Separated(WithPiece))
    BY <1>1, WithPieceFacts DEF InOrder, Separated, Apart
  <2>2. given.removed \in Seq(LegalInterval)
    BY DEF TypeOK
  <2>3. (\A k \in 1 .. Len(given.removed) : Width(given.removed[k]) > 0)
           => AllWide(given.removed)
    BY <2>2, SeqFacts, WidthOfLegal DEF AllWide
  <2>. QED
    BY <1>1, <2>1, <2>3 DEF ResultInOrder
<1>. QED
  BY <1>1, <1>6, <1>7 DEF Rest, GivenInv, WideInv, FoldInv, MergeInv, Merging,
     BeforeSplitInv, CallInv, SplitInv, PieceInv, DoneInv

LEMMA RestStutters == Rest /\ UNCHANGED vars => Rest'
<1>. SUFFICES ASSUME Rest, UNCHANGED vars PROVE Rest'
  OBVIOUS
<1>. USE DEF vars, Rest
<1>1. GivenInv' /\ DoneInv'
  BY DEF GivenInv, DoneInv, KeepsTheDifference, ResultInOrder
<1>2. WideInv' /\ CallInv' /\ PieceInv'
  BY DEF WideInv, CallInv, PieceInv
<1>3. FoldInv'
  BY DEF FoldInv, Target, Swept
<1>4. MergeInv'
  BY DEF MergeInv, Merging, Swept, Apart
<1>5. BeforeSplitInv'
  BY DEF BeforeSplitInv, Swept
<1>6. SplitInv'
  BY DEF SplitInv, Swept, Apart
<1>. QED
  BY <1>1, <1>2, <1>3, <1>4, <1>5, <1>6

LEMMA RestStep == TypeOK /\ TypeOK' /\ SortInv /\ Rest /\ [Next]_vars => Rest'
  BY EntryStep, ContainerTooSmallStep, ContainerSortStep, ContainerStepStep,
     ContainerReturnStep, SortIntervalsStep, MergeStepStep, CallSplitStep,
     SkipRemovedStep, StartSplitStep, SplitStepStep, NextMergeStep, ReturnStep,
     RestStutters DEF Next

\* What each loop of aggregate() has achieved holds before and after every iteration.
THEOREM Inductive == Spec => []IInv
<1>1. Init => TypeOK /\ SortInv /\ Rest
  BY TypeInit, RestInit
<1>2. TypeOK /\ SortInv /\ Rest /\ [Next]_vars => (TypeOK /\ SortInv /\ Rest)'
  BY TypeStep, RestStep
<1>. QED
  BY <1>1, <1>2, PTL DEF Spec, IInv

\* list_intervals::aggregate() leaves the values that were added and were not
\* removed, for every word size and all lists of ordered intervals.
THEOREM AggregateKeepsTheDifference == Spec => []KeepsTheDifference
<1>1. IInv => KeepsTheDifference
  BY DEF IInv, Rest, DoneInv
<1>. QED
  BY <1>1, Inductive, PTL

\* ... and leaves them in increasing, disjoint intervals, which do not even touch
\* when no removed interval is empty.
THEOREM AggregateResultInOrder == Spec => []ResultInOrder
<1>1. IInv => ResultInOrder
  BY DEF IInv, Rest, DoneInv
<1>. QED
  BY <1>1, Inductive, PTL

------------------------------------------------------------------------------
(* The loops compute what the functions of Aggregation do. *)

SamePoints(s, t) == \A x \in Int : Touched(s, x) <=> Touched(t, x)

\* The containers have the points of what was given until they are aggregated.
PointsInv ==
    /\ pc # "done" =>
         SamePoints(intervals, given.intervals) /\ (intervals = <<>> <=> given.intervals = <<>>)
    /\ pc \in {"entry", "container", "fold"} =>
         SamePoints(removed, given.removed) /\ (removed = <<>> <=> given.removed = <<>>)
    /\ pc = "entry" => intervals = given.intervals /\ removed = given.removed
    /\ pc = "sort" \/ Merging =>
         removed = Merged(given.removed) /\ given.removed # <<>> /\ given.intervals # <<>>

\* A point is in one of the intervals the loop has passed.
Reached(s, x) == \E k \in 1 .. (it - 1) : Touches(s[k], x)

FoldPoints ==
    pc = "fold" =>
        \A x \in Int : (Touched(ret, x) \/ Touches(cur_merge, x)) <=> Reached(Target, x)

\* The merged intervals before cur_merge, which the code does not keep.
MergedSoFar(q) ==
    /\ Separated(q)
    /\ \A k \in 1 .. Len(q) : q[k].upper < cur_merge.lower
    /\ \A x \in Int : (Touched(q, x) \/ Touches(cur_merge, x)) <=> Reached(intervals, x)

\* The result is what the functions make of them, whatever part of the loop runs.
SplitSoFar(q) ==
    /\ pc \in {"merge", "skip"} => ret = Split(q, removed)
    /\ pc = "split" =>
         CutAfter(Split(q, removed), cur_merge, removed, it_removed_cur - 1)
            = [ret |-> ret, piece |-> piece]
    /\ pc = "flush" => WithPiece = AppendSplit(Split(q, removed), cur_merge, removed)

MergedInv == Merging => \E q \in Seq(LegalInterval) : MergedSoFar(q) /\ SplitSoFar(q)

\* With IInv this is inductive.
ComputeInv == PointsInv /\ FoldPoints /\ MergedInv /\ LoopsComputeAggregated

LEMMA ComputeInit == Init => ComputeInv
<1>. SUFFICES ASSUME Init PROVE ComputeInv
  OBVIOUS
<1>1. pc = "entry" /\ given.intervals = intervals /\ given.removed = removed
  BY DEF Init
<1>. QED
  BY <1>1 DEF ComputeInv, PointsInv, SamePoints, FoldPoints, MergedInv, Merging,
              LoopsComputeAggregated

LEMMA EntryComputes ==
    ASSUME ComputeInv, NothingToAggregate \/ CallContainer
    PROVE  ComputeInv'
<1>1. CASE NothingToAggregate
  <2>1. /\ pc' = "done" /\ intervals' = <<>> /\ removed' = removed /\ given' = given
        /\ given.intervals = <<>> /\ given.removed = removed /\ removed # <<>>
    BY <1>1 DEF NothingToAggregate, ComputeInv, PointsInv
  <2>2. Aggregated(<<>>, removed) = [intervals |-> <<>>, removed |-> removed]
    BY <2>1 DEF Aggregated
  <2>. QED
    BY <2>1, <2>2 DEF ComputeInv, PointsInv, FoldPoints, MergedInv, Merging, LoopsComputeAggregated
<1>2. CASE CallContainer
  <2>1. pc = "entry" /\ pc' = "container" /\ UNCHANGED <<intervals, removed, given>>
    BY <1>2 DEF CallContainer
  <2>. QED
    BY <2>1 DEF ComputeInv, PointsInv, SamePoints, Touched, FoldPoints, MergedInv, Merging,
                LoopsComputeAggregated
<1>. QED
  BY <1>1, <1>2

\* aggregate_container() returns the merged list: it is the only one with the
\* points of Target in which no two intervals touch.
LEMMA ReturnContainerComputes ==
    ASSUME TypeOK, SortInv, ComputeInv, pc \in {"container", "fold"},
           NEW c \in Seq(LegalInterval), ReturnContainer(c),
           Separated(c), SamePoints(c, Target)
    PROVE  ComputeInv'
<1>1. /\ given' = given
      /\ given.intervals \in Seq(LegalInterval) /\ given.removed \in Seq(LegalInterval)
      /\ SamePoints(intervals, given.intervals) /\ (intervals = <<>> <=> given.intervals = <<>>)
      /\ SamePoints(removed, given.removed) /\ (removed = <<>> <=> given.removed = <<>>)
  BY DEF ReturnContainer, TypeOK, ComputeInv, PointsInv
<1>2. CASE removed = <<>>
  <2>1. intervals' = c /\ removed' = <<>> /\ pc' = "done" /\ given.removed = <<>>
    BY <1>1, <1>2 DEF ReturnContainer
  <2>2. \A x \in Int : Touched(c, x) <=> Touched(given.intervals, x)
    BY <1>1, <1>2 DEF SamePoints, Target
  <2>3. c = Merged(given.intervals)
    BY <1>1, <2>2, MergedIsUnique
  <2>4. Aggregated(given.intervals, given.removed) = [intervals |-> c, removed |-> <<>>]
    BY <2>1, <2>3 DEF Aggregated
  <2>. QED
    BY <1>1, <2>1, <2>4 DEF ComputeInv, PointsInv, FoldPoints, MergedInv, Merging,
                            LoopsComputeAggregated
<1>3. CASE removed # <<>>
  <2>1. intervals' = intervals /\ removed' = c /\ pc' = "sort" /\ given.removed # <<>>
    BY <1>1, <1>3 DEF ReturnContainer
  <2>2. \A x \in Int : Touched(c, x) <=> Touched(given.removed, x)
    BY <1>1, <1>3 DEF SamePoints, Target
  <2>3. c = Merged(given.removed)
    BY <1>1, <2>2, MergedIsUnique
  <2>4. given.intervals # <<>>
    BY <1>1, <1>3 DEF SortInv
  <2>. QED
    BY <1>1, <2>1, <2>3, <2>4 DEF ComputeInv, PointsInv, SamePoints, Touched, FoldPoints,
                                  MergedInv, Merging, LoopsComputeAggregated
<1>. QED
  BY <1>2, <1>3

\* A list of at most one interval is merged as it is.
LEMMA ContainerTooSmallComputes ==
    ASSUME TypeOK, SortInv, ComputeInv, ContainerTooSmall
    PROVE  ComputeInv'
<1>1. pc = "container" /\ Len(Target) <= 1 /\ Target \in Seq(LegalInterval) /\ ReturnContainer(Target)
  BY TargetType DEF ContainerTooSmall
<1>2. Separated(Target) /\ SamePoints(Target, Target)
  BY <1>1, SeqFacts DEF Separated, SamePoints
<1>. QED
  BY <1>1, <1>2, ReturnContainerComputes

\* Sorting changes the order of the points only.
LEMMA SortsPoints ==
    ASSUME NEW s \in Seq(LegalInterval), NEW t \in Sorts(s)
    PROVE  SamePoints(t, s) /\ (t = <<>> <=> s = <<>>)
<1>1. PICK p \in Bijection(1 .. Len(s), 1 .. Len(s)) : t = [k \in 1 .. Len(s) |-> s[p[k]]]
  BY DEF Sorts
<1>2. /\ p \in [1 .. Len(s) -> 1 .. Len(s)]
      /\ \A j \in 1 .. Len(s) : \E k \in 1 .. Len(s) : p[k] = j
  BY DEF Bijection, Injection, Surjection
<1>3. t \in Seq(LegalInterval) /\ Len(t) = Len(s)
  BY SortsFacts
<1>4. \A k \in 1 .. Len(s) : t[k] = s[p[k]]
  BY <1>1
<1>5. ASSUME NEW x \in Int PROVE Touched(t, x) <=> Touched(s, x)
  <2>1. ASSUME NEW k \in 1 .. Len(s), Touches(t[k], x) PROVE Touched(s, x)
    BY <1>2, <1>4, <2>1 DEF Touched
  <2>2. ASSUME NEW j \in 1 .. Len(s), Touches(s[j], x) PROVE Touched(t, x)
    <3>1. PICK k \in 1 .. Len(s) : p[k] = j
      BY <1>2
    <3>. QED
      BY <1>3, <1>4, <2>2, <3>1 DEF Touched
  <2>. QED
    BY <1>3, <2>1, <2>2 DEF Touched
<1>6. t = <<>> <=> s = <<>>
  BY <1>3, SeqFacts
<1>. QED
  BY <1>5, <1>6 DEF SamePoints

LEMMA ContainerSortComputes ==
    ASSUME TypeOK, ComputeInv, ContainerSort
    PROVE  ComputeInv'
<1>1. PICK t \in Sorts(Target) :
         /\ IF removed = <<>> THEN intervals' = t /\ removed' = removed
                              ELSE removed' = t /\ intervals' = intervals
         /\ cur_merge' = t[1]
  BY DEF ContainerSort
<1>2. /\ pc = "container" /\ pc' = "fold" /\ it' = 2 /\ ret' = <<>> /\ given' = given
      /\ Target \in Seq(LegalInterval) /\ Len(Target) > 1
  BY TargetType DEF ContainerSort
<1>3. SamePoints(t, Target) /\ (t = <<>> <=> Target = <<>>) /\ t # <<>>
  BY <1>2, SortsPoints, SeqFacts
<1>4. Target' = t
  BY <1>1, <1>3 DEF Target
<1>5. PointsInv'
  <2>1. CASE removed = <<>>
    BY <1>1, <1>2, <1>3, <2>1 DEF ComputeInv, PointsInv, SamePoints, Touched, Target, Merging
  <2>2. CASE removed # <<>>
    BY <1>1, <1>2, <1>3, <2>2 DEF ComputeInv, PointsInv, SamePoints, Touched, Target, Merging
  <2>. QED
    BY <2>1, <2>2
<1>6. FoldPoints'
  <2>1. it' - 1 = 1 /\ 1 .. 1 = {1}
    BY <1>2
  <2>2. \A x : Reached(t, x)' <=> Touches(t[1], x)
    BY <2>1 DEF Reached
  <2>. QED
    BY <1>1, <1>2, <1>4, <2>2 DEF FoldPoints, Touched, Touches, Reached
<1>. QED
  BY <1>2, <1>5, <1>6 DEF ComputeInv, MergedInv, Merging, LoopsComputeAggregated

\* One more interval reached, for any list.
LEMMA ReachedNext ==
    ASSUME TypeOK, it' = it + 1, NEW s, NEW x
    PROVE  (\E k \in 1 .. (it' - 1) : Touches(s[k], x)) <=> Reached(s, x) \/ Touches(s[it], x)
<1>1. 1 .. (it' - 1) = (1 .. (it - 1)) \cup {it}
  BY DEF TypeOK
<1>. QED
  BY <1>1 DEF Reached

LEMMA ContainerStepComputes ==
    ASSUME TypeOK, Rest, ComputeInv, ContainerStep
    PROVE  ComputeInv'
<1>1. /\ pc = "fold" /\ it <= Len(Target) /\ it' = it + 1
      /\ UNCHANGED <<intervals, removed, pc, given>>
  BY DEF ContainerStep
<1>2. Target' = Target /\ Target \in Seq(LegalInterval) /\ it \in Nat /\ it > 0
  BY <1>1, TargetType DEF Target, TypeOK
<1>3. PICK i \in LegalInterval : i = Target[it]
  BY <1>1, <1>2, SeqFacts
<1>4. cur_merge \in LegalInterval /\ ret \in Seq(LegalInterval)
  BY DEF TypeOK
<1>5. \A x : Reached(Target, x)' <=> Reached(Target, x) \/ Touches(i, x)
  BY <1>1, <1>2, <1>3, ReachedNext DEF Reached
<1>6. \A x \in Int : (Touched(ret, x) \/ Touches(cur_merge, x)) <=> Reached(Target, x)
  BY <1>1 DEF ComputeInv, FoldPoints
<1>7. ASSUME NEW x \in Int
      PROVE  (Touched(ret', x) \/ Touches(cur_merge', x))
               <=> Touched(ret, x) \/ Touches(cur_merge, x) \/ Touches(i, x)
  <2>1. CASE Overlap(cur_merge, i)
    <3>1. cur_merge' = Hull(cur_merge, i) /\ ret' = ret
      BY <1>3, <2>1 DEF ContainerStep
    <3>2. Touches(Hull(cur_merge, i), x) <=> Touches(cur_merge, x) \/ Touches(i, x)
      BY <1>4, <2>1, HullTouches
    <3>. QED
      BY <3>1, <3>2
  <2>2. CASE ~Overlap(cur_merge, i)
    <3>1. cur_merge' = i /\ ret' = Append(ret, cur_merge)
      BY <1>3, <2>2 DEF ContainerStep
    <3>2. Touched(Append(ret, cur_merge), x) <=> Touched(ret, x) \/ Touches(cur_merge, x)
      BY <1>4, AppendTouches
    <3>. QED
      BY <3>1, <3>2
  <2>. QED
    BY <2>1, <2>2
<1>8. FoldPoints'
  <2>1. \A x \in Int : (Touched(ret', x) \/ Touches(cur_merge', x)) <=> Reached(Target, x)'
    BY <1>5, <1>6, <1>7
  <2>. QED
    BY <1>2, <2>1 DEF FoldPoints, Touched, Touches
<1>. QED
  BY <1>1, <1>8 DEF ComputeInv, PointsInv, SamePoints, Touched, MergedInv, Merging,
                    LoopsComputeAggregated

LEMMA AppendSeparated ==
    ASSUME NEW s \in Seq(LegalInterval), NEW i \in LegalInterval, Separated(s),
           \A k \in 1 .. Len(s) : s[k].upper < i.lower
    PROVE  Separated(Append(s, i))
<1>1. PICK c : c = Append(s, i)
  OBVIOUS
<1>2. /\ Len(s) \in Nat /\ Len(c) = Len(s) + 1
      /\ c[Len(s) + 1] = i /\ \A k \in 1 .. Len(s) : c[k] = s[k]
  BY <1>1, AppendFacts, SeqFacts
<1>3. Separated(c)
  BY <1>2 DEF Separated
<1>. QED
  BY <1>1, <1>3

LEMMA ContainerReturnComputes ==
    ASSUME TypeOK, SortInv, Rest, ComputeInv, ContainerReturn
    PROVE  ComputeInv'
<1>1. /\ pc = "fold" /\ it > Len(Target) /\ ReturnContainer(Append(ret, cur_merge))
      /\ Target \in Seq(LegalInterval) /\ Len(Target) \in Nat
      /\ cur_merge \in LegalInterval /\ ret \in Seq(LegalInterval)
      /\ Len(ret) \in Nat /\ \A k \in 1 .. Len(ret) : ret[k] \in LegalInterval
  BY TargetType, SeqFacts DEF ContainerReturn, TypeOK
<1>2. /\ it = Len(Target) + 1
      /\ Separated(ret)
      /\ \A k \in 1 .. Len(ret) : ret[k].upper < cur_merge.lower
  BY <1>1 DEF Rest, FoldInv
<1>3. PICK c \in Seq(LegalInterval) : c = Append(ret, cur_merge)
  BY <1>1, AppendFacts
<1>4. Separated(c)
  BY <1>1, <1>2, <1>3, AppendSeparated
<1>5. SamePoints(c, Target)
  <2>1. \A x \in Int : (Touched(ret, x) \/ Touches(cur_merge, x)) <=> Reached(Target, x)
    BY <1>1 DEF ComputeInv, FoldPoints
  <2>2. \A x : Reached(Target, x) <=> Touched(Target, x)
    BY <1>1, <1>2 DEF Reached, Touched
  <2>3. \A x \in Int : Touched(c, x) <=> Touched(ret, x) \/ Touches(cur_merge, x)
    BY <1>1, <1>3, AppendTouches
  <2>. QED
    BY <2>1, <2>2, <2>3 DEF SamePoints
<1>. QED
  BY <1>1, <1>3, <1>4, <1>5, ReturnContainerComputes

------------------------------------------------------------------------------
(* The same for the merge loop and the split. *)

LEMMA SortIntervalsComputes ==
    ASSUME TypeOK, SortInv, ComputeInv, SortIntervals
    PROVE  ComputeInv'
<1>1. PICK t \in Sorts(intervals) : intervals' = t /\ cur_merge' = t[1]
  BY DEF SortIntervals
<1>2. /\ pc = "sort" /\ pc' = "merge" /\ it' = 2 /\ ret' = <<>> /\ UNCHANGED <<removed, given>>
      /\ intervals \in Seq(LegalInterval) /\ removed \in Seq(LegalInterval)
  BY DEF SortIntervals, TypeOK
<1>3. SamePoints(t, intervals) /\ (t = <<>> <=> intervals = <<>>)
  BY <1>2, SortsPoints
<1>4. PointsInv'
  BY <1>1, <1>2, <1>3 DEF ComputeInv, PointsInv, SamePoints, Touched, Merging
<1>5. MergedSoFar(<<>>)'
  <2>1. it' - 1 = 1 /\ 1 .. 1 = {1}
    BY <1>2
  <2>2. \A x : Reached(t, x)' <=> Touches(t[1], x)
    BY <2>1 DEF Reached
  <2>. QED
    BY <1>1, <2>2 DEF MergedSoFar, Separated, Touched, Touches, Reached
<1>6. SplitSoFar(<<>>)'
  <2>1. Split(<<>>, removed) = <<>>
    BY <1>2, SplitNone, SeqFacts
  <2>. QED
    BY <1>2, <2>1 DEF SplitSoFar
<1>7. <<>> \in Seq(LegalInterval)
  OBVIOUS
<1>8. MergedInv'
  BY <1>5, <1>6, <1>7 DEF MergedInv
<1>. QED
  BY <1>2, <1>4, <1>8 DEF ComputeInv, FoldPoints, LoopsComputeAggregated

\* What the conjuncts that the merge loop leaves alone need.
LEMMA MergingComputes ==
    ASSUME ComputeInv, Merging, Merging', intervals' = intervals, removed' = removed,
           given' = given, MergedInv'
    PROVE  ComputeInv'
<1>1. PointsInv'
  BY DEF ComputeInv, PointsInv, SamePoints, Touched, Merging
<1>. QED
  BY <1>1 DEF ComputeInv, FoldPoints, LoopsComputeAggregated, Merging

LEMMA MergeStepComputes ==
    ASSUME TypeOK, Rest, ComputeInv, MergeStep
    PROVE  ComputeInv'
<1>1. /\ pc = "merge" /\ it <= Len(intervals) /\ Overlap(cur_merge, intervals[it])
      /\ cur_merge' = Hull(cur_merge, intervals[it]) /\ it' = it + 1
      /\ UNCHANGED <<intervals, removed, ret, pc, given>>
  BY DEF MergeStep
<1>2. Merging /\ Merging'
  BY <1>1 DEF Merging
<1>3. PICK i \in LegalInterval : i = intervals[it]
  BY <1>1, <1>2, MergingFacts DEF TypeOK
<1>4. cur_merge \in LegalInterval /\ cur_merge.lower <= i.lower
  BY <1>1, <1>2, <1>3, MergingFacts DEF TypeOK
<1>5. cur_merge'.lower = cur_merge.lower
  BY <1>1, <1>3, <1>4, HullFacts
<1>6. \A x \in Int : Touches(cur_merge', x) <=> Touches(cur_merge, x) \/ Touches(i, x)
  BY <1>1, <1>3, <1>4, HullTouches
<1>7. \A x : Reached(intervals, x)' <=> Reached(intervals, x) \/ Touches(i, x)
  BY <1>1, <1>3, ReachedNext DEF Reached
<1>8. PICK q \in Seq(LegalInterval) : MergedSoFar(q) /\ SplitSoFar(q)
  BY <1>2 DEF ComputeInv, MergedInv
<1>9. MergedSoFar(q)'
  <2>1. \A x \in Int : (Touched(q, x) \/ Touches(cur_merge', x)) <=> Reached(intervals, x)'
    BY <1>6, <1>7, <1>8 DEF MergedSoFar
  <2>. QED
    BY <1>5, <1>8, <2>1 DEF MergedSoFar, Touches
<1>10. SplitSoFar(q)'
  BY <1>1, <1>8 DEF SplitSoFar
<1>11. MergedInv'
  BY <1>9, <1>10 DEF MergedInv
<1>. QED
  BY <1>1, <1>2, <1>11, MergingComputes

\* The calls and the iterations that touch neither cur_merge nor the result.
LEMMA CallSplitComputes ==
    ASSUME ComputeInv, CallSplit \/ SkipRemoved
    PROVE  ComputeInv'
<1>1. /\ pc \in {"merge", "skip"} /\ pc' \in {"merge", "skip"}
      /\ UNCHANGED <<intervals, removed, it, cur_merge, ret, given>>
  BY DEF CallSplit, SkipRemoved
<1>2. Merging /\ Merging'
  BY <1>1 DEF Merging
<1>3. PICK q \in Seq(LegalInterval) : MergedSoFar(q) /\ SplitSoFar(q)
  BY <1>2 DEF ComputeInv, MergedInv
<1>4. MergedSoFar(q)' /\ SplitSoFar(q)'
  BY <1>1, <1>3 DEF MergedSoFar, SplitSoFar, Reached
<1>5. MergedInv'
  BY <1>4 DEF MergedInv
<1>. QED
  BY <1>1, <1>2, <1>5, MergingComputes

\* The removed intervals that were skipped would have changed nothing.
LEMMA StartSplitComputes ==
    ASSUME TypeOK, Rest, ComputeInv, StartSplit
    PROVE  ComputeInv'
<1>1. /\ pc = "skip" /\ piece' = cur_merge /\ it_removed_cur' = it_removed
      /\ pc' = IF it_removed <= Len(removed) THEN "split" ELSE "flush"
      /\ UNCHANGED <<intervals, removed, it, cur_merge, ret, given>>
  BY DEF StartSplit
<1>2. Merging /\ Merging'
  BY <1>1 DEF Merging
<1>3. /\ cur_merge \in LegalInterval /\ removed \in Seq(LegalInterval)
      /\ ret \in Seq(LegalInterval) /\ ret \in List
  BY SeqFacts DEF TypeOK
<1>4. /\ Len(removed) \in Nat /\ it_removed \in 1 .. (Len(removed) + 1)
      /\ EndBefore(removed, it_removed - 1, cur_merge.lower)
  BY <1>2, MergingFacts DEF EndBefore
<1>5. PICK q \in Seq(LegalInterval) : MergedSoFar(q) /\ SplitSoFar(q)
  BY <1>2 DEF ComputeInv, MergedInv
<1>6. ret = Split(q, removed)
  BY <1>1, <1>5 DEF SplitSoFar
<1>7. CutAfter(ret, cur_merge, removed, it_removed - 1) = [ret |-> ret, piece |-> cur_merge]
  <2>1. it_removed - 1 \in 0 .. Len(removed)
    BY <1>4
  <2>. QED
    BY <1>3, <1>4, <2>1, SplitSkips
<1>8. SplitSoFar(q)'
  <2>1. CASE it_removed <= Len(removed)
    <3>1. pc' = "split"
      BY <1>1, <2>1
    <3>. QED
      BY <1>1, <1>6, <1>7, <3>1 DEF SplitSoFar
  <2>2. CASE it_removed > Len(removed)
    <3>1. it_removed - 1 = Len(removed) /\ pc' = "flush"
      BY <1>1, <1>4, <2>2
    <3>2. Len(removed) \in 0 .. Len(removed) /\ BeginFrom(removed, Len(removed), cur_merge.upper)
      BY <1>4 DEF BeginFrom
    <3>3. CutAfter(ret, cur_merge, removed, Len(removed)) = [ret |-> ret, piece |-> cur_merge]
      BY <1>7, <3>1
    <3>4. AppendSplit(ret, cur_merge, removed)
            = IF Width(cur_merge) > 0 THEN Append(ret, cur_merge) ELSE ret
      BY <1>3, <3>2, <3>3, SplitEnds
    <3>5. WithPiece' = IF Width(cur_merge) > 0 THEN Append(ret, cur_merge) ELSE ret
      BY <1>1 DEF WithPiece
    <3>6. WithPiece' = AppendSplit(Split(q, removed)', cur_merge', removed')
      BY <1>1, <1>6, <3>4, <3>5
    <3>. QED
      BY <1>1, <3>1, <3>6 DEF SplitSoFar
  <2>. QED
    BY <1>4, <2>1, <2>2
<1>9. MergedSoFar(q)'
  BY <1>1, <1>5 DEF MergedSoFar, Reached
<1>10. MergedInv'
  BY <1>8, <1>9 DEF MergedInv
<1>. QED
  BY <1>1, <1>2, <1>10, MergingComputes

\* The do-while loop applies the next removed interval; those it does not reach
\* when it stops would change nothing.
LEMMA SplitStepComputes ==
    ASSUME TypeOK, TypeOK', Rest, ComputeInv, SplitStep
    PROVE  ComputeInv'
<1>. DEFINE r == removed[it_removed_cur]
            next == it_removed_cur + 1
<1>1. /\ pc = "split" /\ piece' = LeftOf(piece, r)
      /\ ret' = IF CutsInTwo(piece, r) THEN Append(ret, Itv(piece.lower, r.lower)) ELSE ret
      /\ it_removed_cur' = next
      /\ pc' = IF next <= Len(removed) /\ removed[next].lower < piece'.upper
                 THEN "split" ELSE "flush"
      /\ UNCHANGED <<intervals, removed, it, cur_merge, given>>
  BY DEF SplitStep
<1>2. Merging /\ Merging'
  BY <1>1 DEF Merging
<1>3. /\ cur_merge \in LegalInterval /\ cur_merge \in Interval
      /\ removed \in Seq(LegalInterval) /\ removed \in List
      /\ piece' \in LegalInterval
      /\ Len(removed) \in Nat /\ it_removed_cur \in 1 .. Len(removed)
      /\ Separated(removed)
  BY <1>1, <1>2, SeqFacts, LegalFacts, MergingFacts DEF TypeOK
<1>4. PICK q \in Seq(LegalInterval) : MergedSoFar(q) /\ SplitSoFar(q)
  BY <1>2 DEF ComputeInv, MergedInv
<1>5. PICK s \in List : s = Split(q, removed)
  BY <1>3, SplitType, SeqFacts
<1>6. CutAfter(s, cur_merge, removed, it_removed_cur - 1) = [ret |-> ret, piece |-> piece]
  BY <1>1, <1>4, <1>5 DEF SplitSoFar
<1>7. CutAfter(s, cur_merge, removed, it_removed_cur) = [ret |-> ret', piece |-> piece']
  <2>1. CutAfter(s, cur_merge, removed, it_removed_cur)
          = Cut(CutAfter(s, cur_merge, removed, it_removed_cur - 1), r)
    BY <1>3, CutAfterNext
  <2>2. Cut([ret |-> ret, piece |-> piece], r) = [ret |-> ret', piece |-> piece']
    BY <1>1 DEF Cut
  <2>. QED
    BY <1>6, <2>1, <2>2
<1>8. SplitSoFar(q)'
  <2>1. CASE pc' = "split"
    <3>1. it_removed_cur' - 1 = it_removed_cur
      BY <1>1, <1>3
    <3>. QED
      BY <1>1, <1>5, <1>7, <2>1, <3>1 DEF SplitSoFar
  <2>2. CASE pc' = "flush"
    <3>1. BeginFrom(removed, it_removed_cur, piece'.upper)
      <4>. SUFFICES ASSUME NEW j \in next .. Len(removed) PROVE piece'.upper <= removed[j].lower
        BY DEF BeginFrom
      <4>1. /\ next \in 1 .. Len(removed) /\ j \in 1 .. Len(removed) /\ next <= j
            /\ removed[next].lower \in Nat /\ removed[j].lower \in Nat /\ piece'.upper \in Nat
        BY <1>3, SeqFacts, LegalFacts
      <4>2. piece'.upper <= removed[next].lower
        BY <1>1, <2>2, <4>1
      <4>3. next = j \/ removed[next].lower < removed[j].lower
        BY <1>3, <4>1, SeparatedGrows
      <4>. QED
        BY <4>1, <4>2, <4>3
    <3>2. it_removed_cur \in 0 .. Len(removed)
      BY <1>3
    <3>3. AppendSplit(s, cur_merge, removed)
            = IF Width(piece') > 0 THEN Append(ret', piece') ELSE ret'
      BY <1>3, <1>7, <3>1, <3>2, SplitEnds
    <3>. QED
      BY <1>1, <1>5, <2>2, <3>3 DEF SplitSoFar, WithPiece
  <2>. QED
    BY <1>1, <2>1, <2>2
<1>9. MergedSoFar(q)'
  BY <1>1, <1>4 DEF MergedSoFar, Reached
<1>10. MergedInv'
  BY <1>8, <1>9 DEF MergedInv
<1>. QED
  BY <1>1, <1>2, <1>10, MergingComputes

\* The split has appended what the functions append for cur_merge.
LEMMA FlushComputes ==
    ASSUME TypeOK, Rest, ComputeInv, pc = "flush"
    PROVE  \E q \in Seq(LegalInterval) :
             /\ Separated(q) /\ WithPiece = Split(q, removed)
             /\ \A k \in 1 .. Len(q) : q[k].upper <= cur_merge.upper
             /\ \A x \in Int : Touched(q, x) <=> Reached(intervals, x)
<1>1. Merging
  BY DEF Merging
<1>2. /\ cur_merge \in LegalInterval /\ cur_merge \in Interval
      /\ removed \in Seq(LegalInterval) /\ removed \in List
      /\ cur_merge.lower \in Nat /\ cur_merge.upper \in Nat /\ cur_merge.lower <= cur_merge.upper
  BY SeqFacts, LegalFacts DEF TypeOK
<1>3. PICK p \in Seq(LegalInterval) : MergedSoFar(p) /\ SplitSoFar(p)
  BY <1>1 DEF ComputeInv, MergedInv
<1>4. Separated(p) /\ \A k \in 1 .. Len(p) : p[k].upper < cur_merge.lower
  BY <1>3 DEF MergedSoFar
<1>5. WithPiece = AppendSplit(Split(p, removed), cur_merge, removed)
  BY <1>3 DEF SplitSoFar
<1>6. Split(Append(p, cur_merge), removed) = AppendSplit(Split(p, removed), cur_merge, removed)
  BY <1>2, SplitNext, SeqFacts
<1>7. Separated(Append(p, cur_merge))
  BY <1>2, <1>4, AppendSeparated
<1>8. \A x \in Int : Touched(Append(p, cur_merge), x) <=> Reached(intervals, x)
  BY <1>2, <1>3, AppendTouches DEF MergedSoFar
<1>9. PICK q \in Seq(LegalInterval) : q = Append(p, cur_merge)
  BY <1>2, AppendFacts
<1>10. \A k \in 1 .. Len(q) : q[k].upper <= cur_merge.upper
  <2>1. /\ Len(p) \in Nat /\ Len(q) = Len(p) + 1 /\ q[Len(p) + 1] = cur_merge
        /\ \A k \in 1 .. Len(p) : q[k] = p[k]
    BY <1>2, <1>9, AppendFacts, SeqFacts
  <2>. SUFFICES ASSUME NEW k \in 1 .. Len(q) PROVE q[k].upper <= cur_merge.upper
    OBVIOUS
  <2>2. q[k].upper \in Nat
    BY SeqFacts, LegalFacts
  <2>3. k \in 1 .. Len(p) \/ q[k] = cur_merge
    BY <2>1
  <2>4. q[k] = cur_merge \/ q[k].upper < cur_merge.lower
    BY <1>4, <2>1, <2>3
  <2>. QED
    BY <1>2, <2>2, <2>4
<1>. QED
  BY <1>5, <1>6, <1>7, <1>8, <1>9, <1>10

LEMMA NextMergeComputes ==
    ASSUME TypeOK, Rest, ComputeInv, NextMerge
    PROVE  ComputeInv'
<1>1. /\ pc = "flush" /\ pc' = "merge" /\ it <= Len(intervals)
      /\ ret' = WithPiece /\ cur_merge' = intervals[it] /\ it' = it + 1
      /\ UNCHANGED <<intervals, removed, given>>
  BY DEF NextMerge
<1>2. Merging /\ Merging'
  BY <1>1 DEF Merging
<1>3. PICK i \in LegalInterval : i = intervals[it]
  BY <1>1, <1>2, MergingFacts DEF TypeOK
<1>4. cur_merge.upper < i.lower /\ cur_merge.upper \in Nat /\ i.lower \in Nat
  BY <1>1, <1>3, LegalFacts DEF Rest, CallInv, TypeOK
<1>5. PICK q \in Seq(LegalInterval) :
             /\ Separated(q) /\ WithPiece = Split(q, removed)
             /\ \A k \in 1 .. Len(q) : q[k].upper <= cur_merge.upper
             /\ \A x \in Int : Touched(q, x) <=> Reached(intervals, x)
  BY <1>1, FlushComputes
<1>6. \A k \in 1 .. Len(q) : q[k].upper < i.lower
  <2>. SUFFICES ASSUME NEW k \in 1 .. Len(q) PROVE q[k].upper < i.lower
    OBVIOUS
  <2>1. q[k].upper \in Nat
    BY SeqFacts, LegalFacts
  <2>. QED
    BY <1>4, <1>5, <2>1
<1>7. \A x : Reached(intervals, x)' <=> Reached(intervals, x) \/ Touches(i, x)
  BY <1>1, <1>3, ReachedNext DEF Reached
<1>8. MergedSoFar(q)'
  <2>1. \A x \in Int : (Touched(q, x) \/ Touches(i, x)) <=> Reached(intervals, x)'
    BY <1>5, <1>7
  <2>. QED
    BY <1>1, <1>3, <1>5, <1>6, <2>1 DEF MergedSoFar, Touches
<1>9. SplitSoFar(q)'
  BY <1>1, <1>5 DEF SplitSoFar
<1>10. MergedInv'
  BY <1>8, <1>9 DEF MergedInv
<1>. QED
  BY <1>1, <1>2, <1>10, MergingComputes

LEMMA ReturnComputes ==
    ASSUME TypeOK, Rest, ComputeInv, Return
    PROVE  ComputeInv'
<1>1. /\ pc = "flush" /\ pc' = "done" /\ it > Len(intervals)
      /\ removed' = <<>> /\ intervals' = WithPiece /\ given' = given
  BY DEF Return
<1>2. Merging /\ intervals \in Seq(LegalInterval) /\ given.intervals \in Seq(LegalInterval)
  BY <1>1 DEF Merging, TypeOK
<1>3. /\ removed = Merged(given.removed) /\ given.removed # <<>> /\ given.intervals # <<>>
      /\ SamePoints(intervals, given.intervals)
  BY <1>1, <1>2 DEF ComputeInv, PointsInv
<1>4. it = Len(intervals) + 1
  BY <1>1, <1>2, MergingFacts
<1>5. PICK q \in Seq(LegalInterval) :
             /\ Separated(q) /\ WithPiece = Split(q, removed)
             /\ \A k \in 1 .. Len(q) : q[k].upper <= cur_merge.upper
             /\ \A x \in Int : Touched(q, x) <=> Reached(intervals, x)
  BY <1>1, FlushComputes
<1>6. \A x : Reached(intervals, x) <=> Touched(intervals, x)
  <2>1. it - 1 = Len(intervals)
    BY <1>2, <1>4, SeqFacts
  <2>. QED
    BY <2>1 DEF Reached, Touched
<1>7. \A x \in Int : Touched(q, x) <=> Touched(given.intervals, x)
  BY <1>3, <1>5, <1>6 DEF SamePoints
<1>8. q = Merged(given.intervals)
  BY <1>2, <1>5, <1>7, MergedIsUnique
<1>9. Aggregated(given.intervals, given.removed)
        = [intervals |-> Split(q, removed), removed |-> <<>>]
  BY <1>3, <1>8 DEF Aggregated
<1>. QED
  BY <1>1, <1>5, <1>9 DEF ComputeInv, PointsInv, FoldPoints, MergedInv, Merging,
                          LoopsComputeAggregated

LEMMA ComputeStutters == ComputeInv /\ UNCHANGED vars => ComputeInv'
<1>. SUFFICES ASSUME ComputeInv, UNCHANGED vars PROVE ComputeInv'
  OBVIOUS
<1>1. UNCHANGED <<intervals, removed, it, cur_merge, it_removed_cur, piece, ret, pc, given>>
  BY DEF vars
<1>2. PointsInv' /\ FoldPoints' /\ LoopsComputeAggregated'
  BY <1>1 DEF ComputeInv, PointsInv, SamePoints, Touched, Merging, FoldPoints, Reached, Target,
              LoopsComputeAggregated
<1>3. MergedInv'
  <2>. SUFFICES ASSUME Merging PROVE \E q \in Seq(LegalInterval) : MergedSoFar(q)' /\ SplitSoFar(q)'
    BY <1>1 DEF MergedInv, Merging
  <2>1. PICK q \in Seq(LegalInterval) : MergedSoFar(q) /\ SplitSoFar(q)
    BY DEF ComputeInv, MergedInv
  <2>2. MergedSoFar(q)' /\ SplitSoFar(q)'
    BY <1>1, <2>1 DEF MergedSoFar, SplitSoFar, Reached, WithPiece
  <2>. QED
    BY <2>2
<1>. QED
  BY <1>2, <1>3 DEF ComputeInv

LEMMA ComputeStep == IInv /\ IInv' /\ ComputeInv /\ [Next]_vars => ComputeInv'
  BY EntryComputes, ContainerTooSmallComputes, ContainerSortComputes, ContainerStepComputes,
     ContainerReturnComputes, SortIntervalsComputes, MergeStepComputes, CallSplitComputes,
     StartSplitComputes, SplitStepComputes, NextMergeComputes, ReturnComputes,
     ComputeStutters DEF Next, IInv

\* The loops end with the containers that Aggregated describes, which is what the
\* modules that take a call of aggregate() as one step rely on: neither the order
\* of equal lower bounds, nor the removed intervals that the iterators skip, nor
\* those the do-while loop does not reach make a difference
\* (list_intervals::aggregate, split_merged_interval_removed).
THEOREM AggregateComputes == Spec => []LoopsComputeAggregated
<1>1. Init => ComputeInv
  BY ComputeInit
<1>2. IInv /\ IInv' /\ ComputeInv /\ [Next]_vars => ComputeInv'
  BY ComputeStep
<1>3. ComputeInv => LoopsComputeAggregated
  BY DEF ComputeInv
<1>. QED
  BY <1>1, <1>2, <1>3, Inductive, PTL DEF Spec
==============================================================================
