-------------------------------- MODULE Loops --------------------------------
(* A loop with a counter, as a function of the counter. *)
EXTENDS Integers

\* What the loop has computed after k iterations: `body[k]` is what iteration k
\* makes of the result so far.
Loop(body, start, n) ==
    LET After[k \in 0 .. n] == IF k = 0 THEN start ELSE body[k][After[k - 1]]
    IN  After
==============================================================================
