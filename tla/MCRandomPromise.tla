--------------------------- MODULE MCRandomPromise ---------------------------
EXTENDS RandomPromise

\* Windows of at least one step after the clamping, with bounds past the end
\* and in the wrong order.
MCWindows == {<<0, N>>, <<1, 3>>, <<N + 2, 2>>}

\* Windows that hold no step (MCEmptyWindow.cfg).
MCEmptyWindows == {<<2, 2>>, <<N, N + 1>>}

\* A permutation of the elements for each seed.
MCElement(s, step) == (step + s) % N
==============================================================================
