---------------------------- MODULE MCProperties ----------------------------
(* Properties of intervals that overlap, touch, are nested or apart, of closed *)
(* ranges up to the last address, and of a text that is two intervals.         *)
EXTENDS AddressProperties

MCPlain == {Itv(0, 3), Itv(1, 2), Itv(2, 5), Itv(6, 7)}
MCRanges == {<<14, 15>>}
MCObjects == {Itv(3, 4)}
MCTexts == {Blocks(<<<<0, 1>>, <<1>>, <<0>>, <<0, 1>>>>)}
MCAddable == MCPlain \cup {Itv(14, 15), Itv(3, 5), Itv(4, 6), Itv(12, 14)}
=============================================================================
