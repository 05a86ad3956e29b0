------------------------------ MODULE ListRandom ------------------------------
(****************************************************************************)
(* list_intervals_random (list_intervals_random.h) and the program that     *)
(* walks through a list with it: the elements come by get_step() of a       *)
(* counter, the counter is all that a saved state adds to the seed, and a   *)
(* walk may start at any step.  The generator of the walk is the one of     *)
(* Uni; the seed stands for it, and restore_state() makes it again.         *)
(****************************************************************************)
EXTENDS UniSse

CONSTANTS
    MaxCrashes,     \* bound: how often the program crashes
    NoArchive       \* no state was ever saved

\* The steps of the walks, up to the largest size.
Steps == UNION {0 .. m - 1 : m \in Maxes}

ASSUME WalkAssumption ==
    /\ MaxCrashes \in Nat
    /\ NoArchive \notin Nat /\ \A S \in SUBSET Steps : S # NoArchive

VARIABLES
    use,        \* what this generator is used for: "draws", "vectors" or "walk"
    up,         \* the walking program, and the object in it, exist
    cur_step,   \* _cur_step
    reading,    \* the step that operator() has read, or Idle
    archive,    \* _cur_step in the last saved state
    crashes,    \* history: how often the program crashed
    first,      \* history: the step the walk started from
    walked      \* history: the ranks of the list that operator() returned

walk == <<up, cur_step, reading, archive, crashes, first, walked>>
allVars == <<vars, vectorVars, use, walk>>

WalkInit ==
    /\ Init /\ VectorInit
    /\ use \in {"draws", "vectors", "walk"}
    /\ use # "draws" => ~atomic
    /\ use # "vectors" => ~avx
    /\ up = FALSE /\ cur_step = 0 /\ reading = Idle
    /\ archive = NoArchive /\ crashes = 0
    /\ first = 0 /\ walked = {}

\* end(), which only tells the size itself.
AtEnd == cur_step = max

\* init(): a walk that was never saved starts again, from a step up to the size.
StartWalk ==
    /\ ~up /\ archive = NoArchive
    /\ up' = TRUE
    /\ \E step \in 0 .. max : cur_step' = step /\ first' = step
    /\ walked' = {}
    /\ UNCHANGED <<reading, archive, crashes>>

\* operator(): the counter is read, ...
ReadStep ==
    /\ up /\ reading = Idle /\ ~AtEnd
    /\ reading' = cur_step
    /\ UNCHANGED <<up, cur_step, archive, crashes, first, walked>>

\* A slip: the counter is not moved on.
ReturnSameStep ==
    /\ up /\ reading # Idle
    /\ walked' = walked \cup {GetStep(cur_pos, reading)}
    /\ reading' = Idle
    /\ UNCHANGED <<up, cur_step, archive, crashes, first>>

\* ... and stored.  The class does not do this in one step, whatever its atomic
\* parameter says; one thread walks.
Return ==
    /\ up /\ reading # Idle
    /\ walked' = walked \cup {GetStep(cur_pos, reading)}
    /\ cur_step' = reading + 1
    /\ reading' = Idle
    /\ UNCHANGED <<up, archive, crashes, first>>

\* A slip: the step that comes next is saved as taken.
SaveWithNext ==
    /\ up /\ reading = Idle
    /\ archive' = IF AtEnd THEN cur_step ELSE cur_step + 1
    /\ UNCHANGED <<up, cur_step, reading, crashes, first, walked>>

\* save_state()
Save ==
    /\ up /\ reading = Idle
    /\ archive' = cur_step
    /\ UNCHANGED <<up, cur_step, reading, crashes, first, walked>>

Crash ==
    /\ up /\ crashes < MaxCrashes
    /\ crashes' = crashes + 1
    /\ up' = FALSE /\ cur_step' = 0 /\ reading' = Idle
    /\ UNCHANGED <<archive, first, walked>>

\* A slip: the step that was saved is taken as done.
RestoreAfter ==
    /\ ~up /\ archive # NoArchive
    /\ up' = TRUE /\ cur_step' = IF archive = max THEN max ELSE archive + 1
    /\ UNCHANGED <<reading, archive, crashes, first, walked>>

\* restore_state()
Restore ==
    /\ ~up /\ archive # NoArchive
    /\ up' = TRUE /\ cur_step' = archive
    /\ UNCHANGED <<reading, archive, crashes, first, walked>>

WalkStep == StartWalk \/ ReadStep \/ Return \/ Save \/ Crash \/ Restore

WalkNext ==
    /\ UNCHANGED use
    /\ \/ use = "draws" /\ Next /\ UNCHANGED <<vectorVars, walk>>
       \/ use = "vectors" /\ DrawVector /\ UNCHANGED walk
       \/ use = "walk" /\ WalkStep /\ UNCHANGED <<vars, vectorVars>>

\* The program calls operator() until end(), and is started again after a crash.
Does(A) == use = "walk" /\ A /\ UNCHANGED <<use, vars, vectorVars>>
WalkFairness ==
    /\ WF_allVars(Does(StartWalk)) /\ WF_allVars(Does(Restore))
    /\ WF_allVars(Does(ReadStep)) /\ WF_allVars(Does(Return))

WalkSpec == WalkInit /\ [][WalkNext]_allVars /\ WalkFairness

------------------------------------------------------------------------------
(* Properties. *)

\* The counter alone implements the ledger of StepLedger: the steps below it are
\* finished, those from it on are still to come, across saves, crashes and
\* restores (list_intervals_random).
Ledger == INSTANCE StepLedger WITH
    Steps <- Steps,
    pending <- IF up THEN {s \in Steps : s >= cur_step /\ s < max /\ s # reading} ELSE {},
    running <- IF reading = Idle THEN {} ELSE {reading},
    finished <- IF up THEN {s \in Steps : s < cur_step \/ s >= max} ELSE {},
    saved <- IF archive = NoArchive THEN NoArchive
             ELSE {s \in Steps : s < archive \/ s >= max}

WalkImplementsLedger == Ledger!Spec

\* At the end of a walk operator() has returned as many different ranks as there
\* were steps from its first one on: a whole walk misses no element, whatever was
\* saved and restored on the way.
WalkCoversList ==
    up /\ AtEnd => Cardinality(walked) = max - first /\ walked \subseteq 0 .. max - 1

\* With finitely many crashes a walk ends.
WalkEnds == use = "walk" ~> (up /\ AtEnd)
==============================================================================
