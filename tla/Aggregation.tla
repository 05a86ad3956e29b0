----------------------------- MODULE Aggregation -----------------------------
(****************************************************************************)
(* What aggregate() computes, as functions of the two containers of the     *)
(* object, for the modules in which a call of it is one step, and size().   *)
(* MCAggregate checks them against the loops of AggregateLoop.              *)
(****************************************************************************)
EXTENDS Intervals, Loops

\* _intervals, and _excluded_intervals.
List == Seq(Interval)

\* `i` comes before the intervals of the sorted list that have a higher lower
\* bound, which move up by one.
Inserted(s, i) ==
    LET Stays(k) == s[k].lower <= i.lower
    IN  Append([k \in 1 .. Len(s) |-> IF Stays(k) THEN s[k]
                                      ELSE IF k = 1 \/ Stays(k - 1) THEN i ELSE s[k - 1]],
               IF s = <<>> \/ Stays(Len(s)) THEN i ELSE s[Len(s)])

SortByLower(s) ==
    Loop([k \in 1 .. Len(s) |-> [t \in List |-> Inserted(t, s[k])]],
         <<>>, Len(s))[Len(s)]

\* aggregate_container(): overlapping neighbours are replaced by their hull.
MergeLast(merged, i) ==
    IF merged # <<>> /\ Overlap(merged[Len(merged)], i)
      THEN [merged EXCEPT ![Len(merged)] = Hull(@, i)]
      ELSE Append(merged, i)

\* A slip: the container is sorted and its neighbours are not merged.
SortedOnly(s) == SortByLower(s)

Merged(s) ==
    LET t == SortByLower(s)
    IN  Loop([k \in 1 .. Len(t) |-> [m \in List |-> MergeLast(m, t[k])]],
             <<>>, Len(t))[Len(t)]

\* split_merged_interval_removed(): one removed interval, applied to the piece
\* that is left of a merged interval and to the result so far...
Splitting == [ret : List, piece : Interval]
Cut(acc, r) ==
    [ret |-> IF CutsInTwo(acc.piece, r)
               THEN Append(acc.ret, Itv(acc.piece.lower, r.lower)) ELSE acc.ret,
     piece |-> LeftOf(acc.piece, r)]

\* ... and what it appends to `ret` for one merged interval, given the
\* aggregated removed intervals.
AppendSplit(ret, merged, removed) ==
    LET n == Len(removed)
        last == Loop([k \in 1 .. n |-> [acc \in Splitting |-> Cut(acc, removed[k])]],
                     [ret |-> ret, piece |-> merged], n)[n]
    IN  IF Width(last.piece) > 0 THEN Append(last.ret, last.piece) ELSE last.ret

\* The merged intervals without the removed ones.
Split(merged, removed) ==
    LET n == Len(merged)
    IN  Loop([k \in 1 .. n |-> [ret \in List |-> AppendSplit(ret, merged[k], removed)]],
             <<>>, n)[n]

\* The two containers after aggregate().
Aggregated(ints, removed) ==
    IF removed = <<>> THEN [intervals |-> Merged(ints), removed |-> <<>>]
    ELSE IF ints = <<>> THEN [intervals |-> <<>>, removed |-> removed]
    ELSE [intervals |-> Split(Merged(ints), Merged(removed)), removed |-> <<>>]

\* size(), of the first n intervals of s.
SizeOfFirst(s, n) ==
    Loop([k \in 1 .. n |-> [size \in Value |-> (size + Width(s[k])) % Word]], 0, n)[n]

Size(s) == SizeOfFirst(s, Len(s))
==============================================================================
