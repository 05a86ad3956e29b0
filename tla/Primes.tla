------------------------------- MODULE Primes -------------------------------
(* prime_helpers.h: the primes the two generators work with. *)
EXTENDS Integers

\* is_prime(), which is asked for odd numbers only.  It takes 1 for a prime.
IsPrime(v) == \A d \in 3 .. v : d * d <= v => v % d # 0

\* find_previous_matching_prime(): the largest prime p <= v with p = 3 mod 4,
\* 0 when there is none.
MatchingPrimes(v) == {p \in 3 .. v : p % 4 = 3 /\ IsPrime(p)}
PreviousPrime(v) ==
    IF MatchingPrimes(v) = {} THEN 0
    ELSE CHOOSE p \in MatchingPrimes(v) : \A q \in MatchingPrimes(v) : q <= p

\* find_next_prime(): the smallest odd prime from v on, below 2 * v + 2 for v > 0.
NextPrimes(v) == {p \in v .. 2 * v + 1 : p % 2 = 1 /\ IsPrime(p)}
NextPrime(v) == CHOOSE p \in NextPrimes(v) : \A q \in NextPrimes(v) : p <= q

\* random_prime_with(): what the draws may end with; it never ends when there is
\* nothing.
PrimesWith(n) == {r \in 0 .. n - 2 : \A d \in 2 .. n : r % d # 0 \/ n % d # 0}
=============================================================================
