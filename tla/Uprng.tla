-------------------------------- MODULE Uprng --------------------------------
(****************************************************************************)
(* uprng<Integer, false> (uprng.h): a permutation of [0, prime[, where      *)
(* prime is the next prime from max on, iterated n times.  A draw walks     *)
(* through the positions until the value is below max.                      *)
(****************************************************************************)
EXTENDS Primes, FiniteSets

CONSTANTS
    Word,       \* the number of values of Integer
    Maxes,      \* the sizes a generator may be initialised with
    Rounds      \* how often the permutation is iterated, 1 .. 4 in the code

\* For the sizes 2 and 3 the prime is 3 and init() looks for an exponent for ever;
\* for a size whose next prime does not fit the word the search wraps to 1.  That
\* there is a next prime below the double of a size is Bertrand's postulate.
ASSUME UprngAssumption ==
    /\ Word \in Nat \ {0}
    /\ Maxes \subseteq Nat
    /\ \A m \in Maxes : m > 3 /\ NextPrimes(m) # {} /\ NextPrime(m) < Word
    /\ Rounds \subseteq Nat \ {0}

VARIABLES
    gen,        \* _max, _prime, _a, _b, _c and _n
    cur_step    \* _cur_step

uprng == <<gen, cur_step>>

\* init()
UprngInit ==
    /\ gen \in UNION {[max : {m}, prime : {NextPrime(m)}, a : 1 .. m - 1, b : 0 .. m - 1,
                       c : PrimesWith(NextPrime(m) - 1), n : Rounds] : m \in Maxes}
    /\ cur_step = 0

\* A slip: the product is reduced by the size.
LinearBySize(x) == (gen.a * x + gen.b) % gen.max

\* l() and g(), which exp_mod() computes.
Linear(x) == (gen.a * x + gen.b) % gen.prime

Power(x) ==
    LET To[e \in 0 .. gen.c] == IF e = 0 THEN 1 ELSE (To[e - 1] * x) % gen.prime
    IN  To[gen.c]

GetStep(step) ==
    LET Iterated[k \in 0 .. gen.n] ==
          IF k = 0 THEN step ELSE Power(Linear(Iterated[k - 1]))
    IN  Iterated[gen.n]

\* A slip: the position is not set back.
NextPositionOnly == (cur_step + 1) % Word

\* pos_increment()
NextPosition ==
    IF (cur_step + 1) % Word = gen.prime THEN 0 ELSE (cur_step + 1) % Word

\* get_step() permutes the positions: every value below the prime comes once in a
\* cycle, for the factors, offsets and exponents that init() draws.
GetStepPermutes ==
    LET Position == 0 .. gen.prime - 1
    IN  {GetStep(p) : p \in Position} = Position
==============================================================================
