----------------------------- MODULE StepLedger -----------------------------
(****************************************************************************)
(* What list_intervals_random_promise promises to the program that walks    *)
(* through a list with it: every step of the walk is handed out, a step is  *)
(* never in two hands, a step that was saved as done is never handed out    *)
(* again, and after a crash the walk goes on from what was saved.  In which *)
(* order the steps come is not part of the promise.                         *)
(****************************************************************************)
EXTENDS Integers, FiniteSets

CONSTANTS
    Steps,      \* the steps of the whole walk
    NoArchive   \* no state was ever saved

VARIABLES
    up,         \* the walking program runs
    pending,    \* the steps it will still be handed
    running,    \* the steps it was handed and did not report
    finished,   \* the steps it reported or that are not its to do
    saved       \* the finished steps of the last saved state

vars == <<up, pending, running, finished, saved>>

Init ==
    /\ up = FALSE
    /\ pending = {} /\ running = {} /\ finished = {}
    /\ saved = NoArchive

\* A walk over a part of the steps starts.  A walk that was never saved starts
\* from nothing again after a crash.
Start ==
    /\ ~up /\ saved = NoArchive
    /\ up' = TRUE
    /\ \E W \in SUBSET Steps : pending' = W /\ finished' = Steps \ W
    /\ UNCHANGED <<running, saved>>

Take(s) ==
    /\ s \in pending
    /\ pending' = pending \ {s}
    /\ running' = running \cup {s}
    /\ UNCHANGED <<up, finished, saved>>

Finish(s) ==
    /\ s \in running
    /\ running' = running \ {s}
    /\ finished' = finished \cup {s}
    /\ UNCHANGED <<up, pending, saved>>

\* The handed out steps that were not reported are to be handed out again.
Requeue ==
    /\ up
    /\ pending' = pending \cup running
    /\ running' = {}
    /\ UNCHANGED <<up, finished, saved>>

Save ==
    /\ up
    /\ saved' = finished
    /\ UNCHANGED <<up, pending, running, finished>>

Crash ==
    /\ up
    /\ up' = FALSE
    /\ pending' = {} /\ running' = {} /\ finished' = {}
    /\ UNCHANGED saved

Recover ==
    /\ ~up /\ saved # NoArchive
    /\ up' = TRUE
    /\ finished' = saved
    /\ pending' = Steps \ saved
    /\ UNCHANGED <<running, saved>>

Next ==
    \/ Start \/ Requeue \/ Save \/ Crash \/ Recover
    \/ \E s \in Steps : Take(s) \/ Finish(s)

Spec == Init /\ [][Next]_vars

------------------------------------------------------------------------------
(* Properties. *)

TypeOK ==
    /\ up \in BOOLEAN
    /\ pending \subseteq Steps /\ running \subseteq Steps /\ finished \subseteq Steps
    /\ saved \in (SUBSET Steps) \cup {NoArchive}

\* Every step is in exactly one hand while the program runs.
Partition ==
    up => /\ pending \cup running \cup finished = Steps
          /\ pending \cap running = {}
          /\ pending \cap finished = {}
          /\ running \cap finished = {}

\* What was saved as done stays done as long as the program runs.
SavedStaysDone == up /\ saved # NoArchive => saved \subseteq finished

\* A step that was saved as done is never handed out again, whatever crashes
\* and recoveries come after.
NeverHandedAgain ==
    [][saved # NoArchive => (running' \ running) \cap saved = {}]_vars
==============================================================================
