--------------------------- MODULE MCListIntervals ---------------------------
(* Calls in any order on a list over a small word. *)
EXTENDS ListIntervals

\* Intervals that touch, overlap or are nested, that start or end inside a
\* block or on its border.
MCAddable == {Itv(1, 3), Itv(2, 4), Itv(3, 6)}
MCRemovable == {Itv(0, 2), Itv(2, 3), Itv(3, 3)}
MCOthers == {<<>>, <<Itv(0, 1), Itv(5, 6)>>}
==============================================================================
