---------------------------- MODULE RandomPromise ----------------------------
(****************************************************************************)
(* list_intervals_random_promise (list_intervals_random.h) and the program  *)
(* that walks through a list with it: it takes steps, works on several of   *)
(* them at once, reports them with step_done() in any order, saves the      *)
(* state now and then, crashes, and restores the last saved state in a new  *)
(* object.                                                                  *)
(****************************************************************************)
EXTENDS Aggregation, FiniteSets

CONSTANTS
    N,               \* li.size(), the number of steps of the whole walk
    Threshold,       \* the length at which step_done() aggregates, 100 in the code
    Windows,         \* the pairs <<step_start, step_end>> a walk may be given
    Seeds,           \* the seeds
    Element(_, _),   \* Element(seed, step): li.at_cached(_uprng.get_step(step))
    MaxCrashes,      \* bound: how often the program crashes or gives up its work
    NoArchive        \* no state was ever saved

Step == 0 .. N - 1

ASSUME PromiseAssumption ==
    /\ N \in Nat \ {0} /\ N < Word
    /\ Threshold \in Nat \ {0}
    /\ Windows \subseteq Nat \X Nat
    /\ MaxCrashes \in Nat
    /\ NoArchive \notin [seed : Seeds, done : Seq(LegalInterval)]
    /\ \A S \in SUBSET Step : NoArchive # S
    \* the uniform permutation of uni.h (see Uni): each seed gives one
    /\ \A s \in Seeds : \A a, b \in Step : Element(s, a) = Element(s, b) => a = b

VARIABLES
    alive,     \* the program, and the object in it, exist
    seed,      \* _seed
    todo,      \* _steps_todo
    done,      \* _done_steps
    iter,      \* _it_steps: the index of its interval, from 1, and _offset
    inflight,  \* the steps the program was handed and has not reported
    archive,   \* the last saved state
    crashes,   \* history: how often it crashed
    window,    \* history: the steps of the walk
    reported,  \* history: the steps that were ever reported
    scanned    \* history: the elements of the list whose step was reported

object == <<seed, todo, done, iter>>
history == <<window, reported, scanned>>
vars == <<alive, object, inflight, archive, crashes, history>>

------------------------------------------------------------------------------
(* value_iterator over _steps_todo. *)

Begin == [index |-> 1, offset |-> 0]

\* value_end(): the iterator is past the last interval.
AtEnd == iter = [index |-> Len(todo) + 1, offset |-> 0]

\* operator*
CurrentStep == (todo[iter.index].lower + iter.offset) % Word

\* A slip: the upper bound is taken for the last value.
NextIterInclusive ==
    IF CurrentStep # todo[iter.index].upper
      THEN [iter EXCEPT !.offset = (@ + 1) % Word]
      ELSE [index |-> iter.index + 1, offset |-> 0]

\* operator++: the last value of an interval is followed by the next interval.
NextIter ==
    IF CurrentStep # (todo[iter.index].upper - 1) % Word
      THEN [iter EXCEPT !.offset = (@ + 1) % Word]
      ELSE [index |-> iter.index + 1, offset |-> 0]

\* The steps the iterator has still to go through.
Remaining ==
    {s \in Step : \E k \in iter.index .. Len(todo) :
        /\ Has(todo[k], s)
        /\ k = iter.index => s >= todo[k].lower + iter.offset}

------------------------------------------------------------------------------
(* The object. *)

\* What _done_steps becomes when it is aggregated; nothing is ever removed from it.
AggregatedDone(d) == Aggregated(d, <<>>).intervals

\* A slip: the done steps are not removed.
StepsToDoAgain(d) == <<Itv(0, N)>>

\* set_done_steps(): the steps that are not done, in increasing order.
StepsToDo(d) == Aggregated(<<Itv(0, N)>>, d).intervals

\* A slip: bounds in the wrong order are not swapped.
ClampedUnordered(w) == Itv(Least(w[1], N), Least(w[2], N))

\* init(): the bounds of the window are clamped and put in order.  The steps
\* outside the window count as done.
Clamped(w) ==
    LET a == Least(w[1], N)
        b == Least(w[2], N)
    IN  Itv(Least(a, b), Greatest(a, b))

\* The walks have a step to go through; init() does not ask for it.
WindowsHoldSteps == \A w \in Windows : Width(Clamped(w)) > 0

Init ==
    /\ alive = FALSE
    /\ seed \in Seeds
    /\ todo = <<>> /\ done = <<>> /\ iter = Begin
    /\ inflight = {}
    /\ archive = NoArchive
    /\ crashes = 0
    /\ window = {} /\ reported = {} /\ scanned = {}

\* init() with a new seed.
Start ==
    /\ ~alive /\ archive = NoArchive
    /\ \E w \in Windows, s \in Seeds :
         LET c == Clamped(w) IN
         /\ seed' = s
         /\ todo' = <<c>>
         /\ done' = AggregatedDone(<<Itv(0, c.lower), Itv(c.upper, N)>>)
         /\ window' = {x \in Step : Has(c, x)}
    /\ alive' = TRUE
    /\ iter' = Begin
    /\ reported' = {} /\ scanned' = {}
    /\ UNCHANGED <<inflight, archive, crashes>>

\* A slip: a step is recorded as done when it is handed out.
TakeAsDone ==
    /\ alive /\ ~AtEnd
    /\ inflight' = inflight \cup {CurrentStep}
    /\ done' = Append(done, Itv(CurrentStep, CurrentStep + 1))
    /\ iter' = NextIter
    /\ UNCHANGED <<alive, seed, todo, archive, crashes, history>>

\* operator(), or get_current_step() and next(): the program is handed a step.
Take ==
    /\ alive /\ ~AtEnd
    /\ inflight' = inflight \cup {CurrentStep}
    /\ iter' = NextIter
    /\ UNCHANGED <<alive, seed, todo, done, archive, crashes, history>>

\* A slip: the recorded interval includes the next step.
StepDoneWithNext(s) ==
    /\ s \in inflight
    /\ done' = Append(done, Itv(s, Least(s + 2, N)))
    /\ inflight' = inflight \ {s}
    /\ reported' = reported \cup {s}
    /\ scanned' = scanned \cup {Element(seed, s)}
    /\ UNCHANGED <<alive, seed, todo, iter, archive, crashes, window>>

\* step_done(): the list of done steps is aggregated when it gets long.
StepDone(s) ==
    /\ s \in inflight
    /\ LET d == Append(done, Itv(s, s + 1))
       IN  done' = IF Len(d) >= Threshold THEN AggregatedDone(d) ELSE d
    /\ inflight' = inflight \ {s}
    /\ reported' = reported \cup {s}
    /\ scanned' = scanned \cup {Element(seed, s)}
    /\ UNCHANGED <<alive, seed, todo, iter, archive, crashes, window>>

\* save_state(), or aggregate_done_steps() alone.
AggregateDone ==
    /\ alive
    /\ done' = AggregatedDone(done)
    /\ UNCHANGED <<alive, seed, todo, iter, inflight, archive, crashes, history>>

Save ==
    /\ alive
    /\ done' = AggregatedDone(done)
    /\ archive' = [seed |-> seed, done |-> done']
    /\ UNCHANGED <<alive, seed, todo, iter, inflight, crashes, history>>

\* A slip: the program goes on with the steps that are to be handed out again.
SetDoneStepsInFlight ==
    /\ alive /\ crashes < MaxCrashes
    /\ crashes' = crashes + 1
    /\ done' = AggregatedDone(done)
    /\ todo' = StepsToDo(done')
    /\ iter' = Begin
    /\ UNCHANGED <<alive, seed, inflight, archive, history>>

\* The program gives up the steps it works on and has them handed out again:
\* set_done_steps() with the steps done so far.
SetDoneSteps ==
    /\ alive /\ crashes < MaxCrashes
    /\ crashes' = crashes + 1
    /\ done' = AggregatedDone(done)
    /\ todo' = StepsToDo(done')
    /\ iter' = Begin
    /\ inflight' = {}
    /\ UNCHANGED <<alive, seed, archive, history>>

\* The program ends; what it was working on is lost with the object.
Crash ==
    /\ alive /\ crashes < MaxCrashes
    /\ crashes' = crashes + 1
    /\ alive' = FALSE
    /\ inflight' = {}
    /\ seed' \in Seeds
    /\ todo' = <<>> /\ done' = <<>> /\ iter' = Begin
    /\ UNCHANGED <<archive, history>>

\* A slip: the new object keeps the seed it has.
RestoreWithoutSeed ==
    /\ ~alive /\ archive # NoArchive
    /\ alive' = TRUE
    /\ done' = AggregatedDone(archive.done)
    /\ todo' = StepsToDo(done')
    /\ iter' = Begin
    /\ UNCHANGED <<seed, inflight, archive, crashes, history>>

\* restore_state() in a new object.
Restore ==
    /\ ~alive /\ archive # NoArchive
    /\ alive' = TRUE
    /\ seed' = archive.seed
    /\ done' = AggregatedDone(archive.done)
    /\ todo' = StepsToDo(done')
    /\ iter' = Begin
    /\ UNCHANGED <<inflight, archive, crashes, history>>

Next ==
    \/ Start \/ Take \/ AggregateDone \/ Save \/ SetDoneSteps \/ Crash \/ Restore
    \/ \E s \in Step : StepDone(s)

\* The walking program loops until end() and reports what it was handed; it is
\* started again after a crash.
Fairness ==
    /\ WF_vars(Start) /\ WF_vars(Restore) /\ WF_vars(Take)
    /\ WF_vars(\E s \in Step : StepDone(s))

Spec == Init /\ [][Next]_vars /\ Fairness

------------------------------------------------------------------------------
(* Properties. *)

TypeOK ==
    /\ alive \in BOOLEAN
    /\ seed \in Seeds
    /\ todo \in Seq(LegalInterval) /\ done \in Seq(LegalInterval)
    /\ iter.index \in 1 .. (Len(todo) + 1) /\ iter.offset \in Value
    /\ ~AtEnd => Has(todo[iter.index], CurrentStep)
    /\ inflight \subseteq Step
    /\ archive = NoArchive \/ (archive.seed \in Seeds /\ archive.done \in Seq(LegalInterval))
    /\ crashes \in 0 .. MaxCrashes

\* The lists of steps and the iterator implement the ledger of StepLedger: no
\* step is lost or handed out twice, whatever the order of the reports, the
\* aggregations, the saves, the crashes and the restores
\* (list_intervals_random_promise).
Ledger == INSTANCE StepLedger WITH
    Steps <- Step,
    up <- alive,
    pending <- IF alive THEN Remaining ELSE {},
    running <- inflight,
    finished <- IF alive THEN Covered(done) ELSE {},
    saved <- IF archive = NoArchive THEN NoArchive ELSE Covered(archive.done)

ImplementsLedger == Ledger!Spec

\* The archive names a step of the walk as done only after it was reported:
\* a crash may repeat work and never skips any (save_state).
ArchiveIsHonest ==
    archive # NoArchive => Covered(archive.done) \cap window \subseteq reported

\* The assertion of step_done(): a reported step was handed out before the one
\* the iterator is at, also after a restore moved the iterator back.
StepDoneAssertion == alive => \A s \in inflight : AtEnd \/ s <= CurrentStep

\* size_done() adds up the widths of a list that step_done() appends to without
\* aggregating it: it still counts each done step once.
SizesAreCounts ==
    alive => /\ Size(done) = Cardinality(Covered(done))
             /\ Size(todo) = Cardinality(Covered(todo))

\* When end() is true and everything was reported, the elements of the window
\* have been scanned, all of them and no other, across all the seeds and
\* sessions of the walk (restore_state brings the seed back).
EndMeansScanned ==
    alive /\ AtEnd /\ inflight = {} => scanned = {Element(seed, s) : s \in window}

\* end() is true exactly when no step is left, for every window ("random_promise::end
\* didn't returned true when it should have been", tests/random_state.cpp).
EndIsExact == alive => (AtEnd <=> Remaining = {})

\* With finitely many crashes the walk ends.
WalkEnds == <>[](alive /\ AtEnd /\ inflight = {} /\ window \subseteq reported)
==============================================================================
