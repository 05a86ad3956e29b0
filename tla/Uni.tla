--------------------------------- MODULE Uni ---------------------------------
(****************************************************************************)
(* uni<Integer, atomic> (uni.h): the memory-less random permutation of      *)
(* [0, max[.  A generator is initialised once and then drawn from, by       *)
(* several threads at a time when its position is atomic and by one thread  *)
(* when it is not.  A draw claims a position (pos_increment of              *)
(* atomic_helpers.h) and then permutes it without touching the object, so   *)
(* the draws of two threads interleave between these two steps.             *)
(*                                                                          *)
(* Integer is a type of Word values whose sums wrap, as those of uint32_t   *)
(* do.                                                                      *)
(****************************************************************************)
EXTENDS Primes, FiniteSets

CONSTANTS
    Word,       \* the number of values of Integer
    Maxes,      \* the sizes a generator may be initialised with
    Threads,    \* the threads that draw
    Owner,      \* the thread that draws from a generator that is not atomic
    Idle,       \* a thread that is not in operator()
    MaxRounds   \* bound: each value is drawn at most this often

------------------------------------------------------------------------------
(* The permutation. *)

\* init_final_perm(): what the shuffle can make of the numbers from the prime on.
Shuffles(m) ==
    LET rem == PreviousPrime(m) .. m - 1
    IN  {f \in [rem -> rem] : \A a, b \in rem : f[a] = f[b] => a = b}

\* residue(): quadratic residues below the prime, the shuffle from it on.
Residue(m, shuffle, v) ==
    LET prime == PreviousPrime(m)
        square == (v * v) % prime
    IN  IF v >= prime THEN shuffle[v]
        ELSE IF v <= prime \div 2 THEN square ELSE prime - square

\* The number theory behind the class: residue() permutes [0, max[.
IsPermutation(m, shuffle) ==
    /\ \A v \in 0 .. m - 1 : Residue(m, shuffle, v) \in 0 .. m - 1
    /\ \A v, w \in 0 .. m - 1 : Residue(m, shuffle, v) = Residue(m, shuffle, w) => v = w

ASSUME UniAssumption ==
    /\ Word \in Nat \ {0}
    /\ Maxes \subseteq 1 .. Word - 1
    /\ Owner \in Threads
    /\ Idle \notin Nat
    /\ MaxRounds \in Nat

ASSUME ResidueAssumption ==
    \A m \in Maxes : \A shuffle \in Shuffles(m) : IsPermutation(m, shuffle)

\* No sum of two numbers below max wraps.  uni.h does not ask for it.
NoOverflow == \A m \in Maxes : 2 * m <= Word

------------------------------------------------------------------------------

VARIABLES
    max, shuffle,   \* _max and _rem_perm
    off,            \* _intermediate_off
    cur_pos,        \* _cur_pos
    atomic,         \* the template parameter
    pos,            \* the position a thread claimed in operator()
    claim,          \* history: the number of the draw a thread is in
    claims,         \* history: how many draws were started
    start,          \* history: _cur_pos after init()
    draws           \* history: the draws that returned

generator == <<max, shuffle, off, atomic, start>>
vars == <<generator, cur_pos, pos, claim, claims, draws>>

Permuted(p) ==
    Residue(max, shuffle, ((Residue(max, shuffle, p) + off) % Word) % max)

\* get_step(), for a generator whose position is `from`.
GetStep(from, step) == Permuted(((from + step) % Word) % max)

\* init()
Init ==
    /\ max \in Maxes
    /\ shuffle \in Shuffles(max)
    /\ off \in 0 .. max - 1
    /\ cur_pos \in 0 .. max - 1
    /\ atomic \in BOOLEAN
    /\ pos = [t \in Threads |-> Idle]
    /\ claim = [t \in Threads |-> 0]
    /\ claims = 0
    /\ start = cur_pos
    /\ draws = {}

\* A slip: the position is incremented once more when it is read.
FetchAndIncrementTwice ==
    [claimed |-> cur_pos % max, next |-> (cur_pos + 2) % Word]

\* pos_increment(), for an atomic position and for a plain one.
FetchAndIncrement ==
    [claimed |-> cur_pos % max, next |-> (cur_pos + 1) % Word]

\* A slip: the position is set back one draw too early.
IncrementAndResetEarly ==
    LET i == (cur_pos + 1) % Word
    IN  [claimed |-> cur_pos, next |-> IF i >= max - 1 THEN 0 ELSE i]

\* A slip: the incremented position is returned.
PreIncrementAndReset ==
    LET i == (cur_pos + 1) % Word
        next == IF i = max THEN 0 ELSE i
    IN  [claimed |-> next, next |-> next]

IncrementAndReset ==
    LET i == (cur_pos + 1) % Word
    IN  [claimed |-> cur_pos, next |-> IF i = max THEN 0 ELSE i]

\* operator() starts: the thread claims a position.
Claim(t) ==
    /\ pos[t] = Idle
    /\ atomic \/ t = Owner
    /\ claims < MaxRounds * max
    /\ LET inc == IF atomic THEN FetchAndIncrement ELSE IncrementAndReset
       IN  /\ pos' = [pos EXCEPT ![t] = inc.claimed]
           /\ cur_pos' = inc.next
    /\ claim' = [claim EXCEPT ![t] = claims]
    /\ claims' = claims + 1
    /\ UNCHANGED <<generator, draws>>

\* operator() returns.
Answer(t) ==
    /\ pos[t] # Idle
    /\ draws' = draws \cup {[claim |-> claim[t], value |-> Permuted(pos[t])]}
    /\ pos' = [pos EXCEPT ![t] = Idle]
    /\ UNCHANGED <<generator, cur_pos, claim, claims>>

Next == \E t \in Threads : Claim(t) \/ Answer(t)

Spec == Init /\ [][Next]_vars

------------------------------------------------------------------------------
(* Properties. *)

TypeOK ==
    /\ max \in Maxes /\ shuffle \in Shuffles(max)
    /\ off \in 0 .. max - 1 /\ start \in 0 .. max - 1
    /\ cur_pos \in 0 .. Word - 1
    /\ atomic \in BOOLEAN
    /\ pos \in [Threads -> (0 .. max - 1) \cup {Idle}]
    /\ claim \in [Threads -> Nat]
    /\ claims \in Nat
    /\ draws \subseteq [claim : Nat, value : 0 .. max - 1]

\* Two draws that are in the same cycle of max draws return different numbers,
\* whatever threads make them and in whatever order they return ("Unique Random
\* Integers", uni::init and operator()).  The first cycle is the first max draws.
UniqueInFirstCycle ==
    \A d, e \in draws :
        d.claim < max /\ e.claim < max /\ d.claim # e.claim => d.value # e.value

\* The later cycles are unique too as long as an atomic position, which is never
\* set back to 0, has not wrapped (pos_increment on a tbb::atomic).
UniqueInEveryCycle ==
    \A d, e \in draws :
        /\ d.claim \div max = e.claim \div max /\ d.claim # e.claim
        /\ atomic => start + d.claim < Word /\ start + e.claim < Word
        => d.value # e.value

\* The first max draws return every number of [0, max[: a scan that draws max
\* numbers misses no element.
FirstCycleComplete ==
    claims >= max /\ (\A t \in Threads : pos[t] = Idle) =>
        {d.value : d \in {e \in draws : e.claim < max}} = 0 .. max - 1

\* get_step(k) on a fresh generator is the value of the k-th draw, so a walk by
\* steps (list_intervals_random) and a walk by draws meet the same values.
GetStepAnnouncesDraw ==
    \A d \in draws : d.claim < max => d.value = GetStep(start, d.claim)
==============================================================================
