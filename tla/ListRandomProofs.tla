-------------------------- MODULE ListRandomProofs --------------------------
(****************************************************************************)
(* The draws of a uni are unique for every size of generator and any number *)
(* of threads, provided that no sum of two numbers below max overflows; the *)
(* vectors of uni<__m128i> hold the same draws, lane by lane, for every     *)
(* even number of lanes and every size that fits; and the walk of           *)
(* list_intervals_random implements the ledger and misses no element, for   *)
(* every size, first step and number of crashes.                            *)
(****************************************************************************)
EXTENDS ListRandom, FiniteSetTheorems, WellFoundedInduction, TLAPS

(* The remainder of a number below twice the modulus. *)

LEMMA ModSmall ==
    ASSUME NEW m \in Nat \ {0}, NEW a \in 0 .. m - 1
    PROVE  a % m = a
  OBVIOUS

LEMMA ModOnce ==
    ASSUME NEW m \in Nat \ {0}, NEW a \in m .. 2 * m - 1
    PROVE  a % m = a - m
  OBVIOUS

LEMMA ModTwice ==
    ASSUME NEW m \in Nat \ {0}, NEW a \in 0 .. m - 1, NEW b \in 0 .. m - 1
    PROVE  (a + b) % m = IF a + b < m THEN a + b ELSE a + b - m
<1>1. CASE a + b < m
  BY <1>1, ModSmall
<1>2. CASE a + b >= m
  BY <1>2, ModOnce
<1>. QED
  BY <1>1, <1>2

------------------------------------------------------------------------------
(* The inductive invariant. *)

\* The position of the k-th draw, in the first cycle.
At(k) == IF start + k < max THEN start + k ELSE start + k - max

\* The position of the object is the one of the next draw.
PositionInv ==
    claims < max =>
        IF atomic THEN cur_pos = start + claims ELSE cur_pos = At(claims)

\* A thread in operator() holds the position of its draw.
ClaimInv ==
    \A t \in Threads :
        /\ pos[t] # Idle => claim[t] < claims
        /\ pos[t] # Idle /\ claim[t] < max => pos[t] = At(claim[t])

\* What was returned is the permutation of the position of the draw.
DrawInv == \A d \in draws : d.claim < max => d.value = Permuted(At(d.claim))

\* A position that is not atomic stays below max.
PlainInv == ~atomic => cur_pos < max

IInv == TypeOK /\ PlainInv /\ PositionInv /\ ClaimInv /\ DrawInv

------------------------------------------------------------------------------

LEMMA MaxFacts ==
    ASSUME TypeOK
    PROVE  /\ max \in Nat \ {0} /\ max < Word /\ Word \in Nat \ {0}
           /\ IsPermutation(max, shuffle)
           /\ off \in 0 .. max - 1 /\ start \in 0 .. max - 1
           /\ NoOverflow => 2 * max <= Word
  BY UniAssumption, ResidueAssumption DEF TypeOK, NoOverflow

\* The second argument of the outer residue().
LEMMA OffsetFacts ==
    ASSUME TypeOK, NEW v \in 0 .. max - 1
    PROVE  /\ ((v + off) % Word) % max \in 0 .. max - 1
           /\ NoOverflow => ((v + off) % Word) % max
                              = IF v + off < max THEN v + off ELSE v + off - max
<1>1. /\ max \in Nat \ {0} /\ off \in 0 .. max - 1 /\ Word \in Nat \ {0}
      /\ NoOverflow => 2 * max <= Word
  BY MaxFacts
<1>2. (v + off) % Word \in Nat
  BY <1>1
<1>3. ((v + off) % Word) % max \in 0 .. max - 1
  BY <1>1, <1>2
<1>4. NoOverflow => (v + off) % Word = v + off
  BY <1>1, ModSmall
<1>. QED
  BY <1>1, <1>3, <1>4, ModTwice

LEMMA PermutedType ==
    ASSUME TypeOK, NEW p \in 0 .. max - 1
    PROVE  Permuted(p) \in 0 .. max - 1
<1>1. Residue(max, shuffle, p) \in 0 .. max - 1
  BY MaxFacts DEF IsPermutation
<1>2. ((Residue(max, shuffle, p) + off) % Word) % max \in 0 .. max - 1
  BY <1>1, OffsetFacts
<1>. QED
  BY <1>2, MaxFacts DEF IsPermutation, Permuted

\* Without overflow operator() permutes the positions.
LEMMA PermutedInjective ==
    ASSUME TypeOK, NoOverflow, NEW p \in 0 .. max - 1, NEW q \in 0 .. max - 1,
           Permuted(p) = Permuted(q)
    PROVE  p = q
<1>. DEFINE a == Residue(max, shuffle, p)
            b == Residue(max, shuffle, q)
<1>1. a \in 0 .. max - 1 /\ b \in 0 .. max - 1
  BY MaxFacts DEF IsPermutation
<1>2. ((a + off) % Word) % max = ((b + off) % Word) % max
  BY <1>1, OffsetFacts, MaxFacts DEF IsPermutation, Permuted
<1>3. a = b
  <2>. HIDE DEF a, b
  <2>. QED
    BY <1>1, <1>2, OffsetFacts, MaxFacts
<1>. QED
  BY <1>3, MaxFacts DEF IsPermutation

LEMMA AtFacts ==
    ASSUME TypeOK, NEW k \in 0 .. max - 1
    PROVE  /\ At(k) \in 0 .. max - 1
           /\ (start + k) % max = At(k)
           /\ \A j \in 0 .. max - 1 : At(j) = At(k) => j = k
<1>1. max \in Nat \ {0} /\ start \in 0 .. max - 1
  BY MaxFacts
<1>2. (start + k) % max = At(k)
  <2>1. (start + k) % max = IF start + k < max THEN start + k ELSE start + k - max
    BY <1>1, ModTwice
  <2>. QED
    BY <2>1 DEF At
<1>3. At(k) \in 0 .. max - 1
  BY <1>1 DEF At
<1>4. \A j \in 0 .. max - 1 : At(j) = At(k) => j = k
  BY <1>1 DEF At
<1>. QED
  BY <1>2, <1>3, <1>4

------------------------------------------------------------------------------

LEMMA InitInv == Init => IInv
<1>. SUFFICES ASSUME Init PROVE IInv
  OBVIOUS
<1>1. max \in Nat \ {0} /\ max < Word
  BY UniAssumption DEF Init
<1>2. TypeOK
  BY <1>1, UniAssumption DEF Init, TypeOK
<1>3. PlainInv /\ PositionInv
  BY <1>1 DEF Init, PlainInv, PositionInv, At
<1>4. ClaimInv /\ DrawInv
  BY DEF Init, ClaimInv, DrawInv
<1>. QED
  BY <1>2, <1>3, <1>4 DEF IInv

LEMMA ClaimStep ==
    ASSUME IInv, NoOverflow, NEW t \in Threads, Claim(t)
    PROVE  IInv'
<1>. DEFINE inc == IF atomic THEN FetchAndIncrement ELSE IncrementAndReset
<1>1. /\ TypeOK /\ PlainInv /\ PositionInv /\ ClaimInv /\ DrawInv
  BY DEF IInv
<1>2. /\ pos[t] = Idle
      /\ pos' = [pos EXCEPT ![t] = inc.claimed]
      /\ cur_pos' = inc.next
      /\ claim' = [claim EXCEPT ![t] = claims]
      /\ claims' = claims + 1
      /\ UNCHANGED <<max, shuffle, off, atomic, start, draws>>
  BY DEF Claim, generator
<1>3. /\ max \in Nat \ {0} /\ max < Word /\ Word \in Nat \ {0} /\ 2 * max <= Word
      /\ start \in 0 .. max - 1 /\ cur_pos \in 0 .. Word - 1 /\ claims \in Nat
      /\ atomic \in BOOLEAN
  BY <1>1, MaxFacts DEF TypeOK
<1>4. /\ inc.claimed \in 0 .. max - 1
      /\ inc.next \in 0 .. Word - 1
      /\ ~atomic => inc.next < max
  <2>1. CASE atomic
    BY <1>3, <2>1 DEF FetchAndIncrement
  <2>2. CASE ~atomic
    <3>1. cur_pos \in 0 .. max - 1
      BY <1>1, <1>3, <2>2 DEF PlainInv
    <3>2. (cur_pos + 1) % Word = cur_pos + 1
      BY <1>3, <3>1, ModSmall
    <3>. QED
      BY <1>3, <2>2, <3>1, <3>2 DEF IncrementAndReset
  <2>. QED
    BY <2>1, <2>2
<1>5. claims < max => inc.claimed = At(claims)
  <2>. SUFFICES ASSUME claims < max PROVE inc.claimed = At(claims)
    OBVIOUS
  <2>1. CASE atomic
    BY <1>1, <1>3, <2>1, AtFacts DEF PositionInv, FetchAndIncrement
  <2>2. CASE ~atomic
    BY <1>1, <1>3, <2>2 DEF PositionInv, IncrementAndReset
  <2>. QED
    BY <2>1, <2>2
<1>6. TypeOK'
  BY <1>1, <1>2, <1>4 DEF TypeOK
<1>7. PlainInv'
  BY <1>2, <1>4 DEF PlainInv
<1>8. PositionInv'
  <2>. SUFFICES ASSUME claims + 1 < max
                PROVE  IF atomic THEN cur_pos' = start + (claims + 1)
                                 ELSE cur_pos' = At(claims + 1)
    BY <1>2 DEF PositionInv, At
  <2>1. CASE atomic
    <3>1. cur_pos = start + claims
      BY <1>1, <1>3, <2>1 DEF PositionInv
    <3>2. cur_pos + 1 \in 0 .. Word - 1
      BY <1>3, <3>1
    <3>. QED
      BY <1>2, <1>3, <2>1, <3>1, <3>2, ModSmall DEF FetchAndIncrement
  <2>2. CASE ~atomic
    <3>1. cur_pos = At(claims) /\ cur_pos \in 0 .. max - 1
      BY <1>1, <1>3, <2>2 DEF PositionInv, PlainInv
    <3>2. (cur_pos + 1) % Word = cur_pos + 1
      BY <1>3, <3>1, ModSmall
    <3>. QED
      BY <1>2, <1>3, <2>2, <3>1, <3>2 DEF IncrementAndReset, At
  <2>. QED
    BY <2>1, <2>2
<1>9. ClaimInv'
  <2>1. ASSUME NEW u \in Threads, pos'[u] # Idle
        PROVE  /\ claim'[u] < claims'
               /\ claim'[u] < max => pos'[u] = At(claim'[u])
    <3>1. CASE u = t
      BY <1>1, <1>2, <1>3, <1>5, <3>1 DEF TypeOK
    <3>2. CASE u # t
      <4>1. pos'[u] = pos[u] /\ claim'[u] = claim[u] /\ claim[u] \in Nat
        BY <1>1, <1>2, <3>2 DEF TypeOK
      <4>. QED
        BY <1>1, <1>2, <1>3, <2>1, <4>1 DEF ClaimInv
    <3>. QED
      BY <3>1, <3>2
  <2>. QED
    BY <1>2, <2>1 DEF ClaimInv, At
<1>10. DrawInv'
  BY <1>1, <1>2 DEF DrawInv, Permuted, At
<1>. QED
  BY <1>6, <1>7, <1>8, <1>9, <1>10 DEF IInv

LEMMA AnswerStep ==
    ASSUME IInv, NEW t \in Threads, Answer(t)
    PROVE  IInv'
<1>. DEFINE d == [claim |-> claim[t], value |-> Permuted(pos[t])]
<1>1. /\ TypeOK /\ PlainInv /\ PositionInv /\ ClaimInv /\ DrawInv
  BY DEF IInv
<1>2. /\ pos[t] # Idle
      /\ draws' = draws \cup {d}
      /\ pos' = [pos EXCEPT ![t] = Idle]
      /\ UNCHANGED <<max, shuffle, off, atomic, start, cur_pos, claim, claims>>
  BY DEF Answer, generator
<1>3. pos[t] \in 0 .. max - 1 /\ claim[t] \in Nat
  BY <1>1, <1>2 DEF TypeOK
<1>4. d \in [claim : Nat, value : 0 .. max - 1]
  BY <1>1, <1>3, PermutedType
<1>5. TypeOK'
  <2>1. pos' \in [Threads -> (0 .. max - 1) \cup {Idle}]
    BY <1>1, <1>2 DEF TypeOK
  <2>2. draws' \subseteq [claim : Nat, value : 0 .. max - 1]
    BY <1>1, <1>2, <1>4 DEF TypeOK
  <2>. QED
    BY <1>1, <1>2, <2>1, <2>2 DEF TypeOK
<1>6. PlainInv' /\ PositionInv'
  BY <1>1, <1>2 DEF PlainInv, PositionInv, At
<1>7. ClaimInv'
  <2>1. \A u \in Threads : pos'[u] # Idle => pos'[u] = pos[u]
    BY <1>1, <1>2 DEF TypeOK
  <2>. QED
    BY <1>1, <1>2, <2>1 DEF ClaimInv, At
<1>8. DrawInv'
  <2>1. claim[t] < max => Permuted(pos[t]) = Permuted(At(claim[t]))
    BY <1>1, <1>2 DEF ClaimInv
  <2>2. \A e \in draws' : e.claim < max => e.value = Permuted(At(e.claim))
    BY <1>1, <1>2, <2>1 DEF DrawInv
  <2>. QED
    BY <1>2, <2>2 DEF DrawInv, Permuted, At
<1>. QED
  BY <1>5, <1>6, <1>7, <1>8 DEF IInv

LEMMA NextInv == NoOverflow /\ IInv /\ [Next]_vars => IInv'
<1>1. IInv /\ UNCHANGED vars => IInv'
  BY DEF vars, generator, IInv, TypeOK, PlainInv, PositionInv, ClaimInv, DrawInv, At, Permuted
<1>. QED
  BY <1>1, ClaimStep, AnswerStep DEF Next

\* The positions, claims and draws of uni::operator() stay tied to their numbers.
THEOREM Inductive == NoOverflow => (Spec => []IInv)
<1>. SUFFICES ASSUME NoOverflow PROVE Spec => []IInv
  OBVIOUS
<1>1. IInv /\ [Next]_vars => IInv'
  BY NextInv
<1>. QED
  BY <1>1, InitInv, PTL DEF Spec

\* The first max draws of a generator are pairwise different, for every size,
\* word, number of threads and schedule, atomic or not, if 2 * max fits the
\* word (uni::operator(), pos_increment).
THEOREM DrawsAreUnique == NoOverflow => (Spec => []UniqueInFirstCycle)
<1>. SUFFICES ASSUME NoOverflow PROVE Spec => []UniqueInFirstCycle
  OBVIOUS
<1>1. IInv => UniqueInFirstCycle
  <2>. SUFFICES ASSUME IInv, NEW d \in draws, NEW e \in draws,
                       d.claim < max, e.claim < max, d.value = e.value
                PROVE  d.claim = e.claim
    BY DEF UniqueInFirstCycle
  <2>1. TypeOK /\ d.claim \in Nat /\ e.claim \in Nat
    BY DEF IInv, TypeOK
  <2>2. d.claim \in 0 .. max - 1 /\ e.claim \in 0 .. max - 1
    BY <2>1, MaxFacts
  <2>3. Permuted(At(d.claim)) = Permuted(At(e.claim))
    BY DEF IInv, DrawInv
  <2>4. At(d.claim) = At(e.claim)
    BY <2>1, <2>2, <2>3, AtFacts, PermutedInjective
  <2>. QED
    BY <2>1, <2>2, <2>4, AtFacts
<1>. QED
  BY <1>1, Inductive, PTL

\* get_step(k) on a fresh generator is what the k-th draw returns, under the
\* same condition (uni::get_step against uni::operator()).
THEOREM StepsAreDraws == NoOverflow => (Spec => []GetStepAnnouncesDraw)
<1>. SUFFICES ASSUME NoOverflow PROVE Spec => []GetStepAnnouncesDraw
  OBVIOUS
<1>1. IInv => GetStepAnnouncesDraw
  <2>. SUFFICES ASSUME IInv, NEW d \in draws, d.claim < max
                PROVE  d.value = GetStep(start, d.claim)
    BY DEF GetStepAnnouncesDraw
  <2>1. TypeOK /\ d.claim \in Nat
    BY DEF IInv, TypeOK
  <2>2. d.claim \in 0 .. max - 1 /\ start + d.claim \in 0 .. Word - 1
    BY <2>1, MaxFacts
  <2>3. ((start + d.claim) % Word) % max = At(d.claim)
    BY <2>1, <2>2, MaxFacts, ModSmall, AtFacts
  <2>. QED
    BY <2>3 DEF IInv, DrawInv, GetStep
<1>. QED
  BY <1>1, Inductive, PTL

------------------------------------------------------------------------------
(* Every cycle. *)

LEMMA Quotient ==
    ASSUME NEW m \in Nat \ {0}, NEW a \in Nat
    PROVE  a \div m \in Int /\ a % m \in 0 .. m - 1 /\ a = m * (a \div m) + (a % m)
  OBVIOUS

LEMMA MultipleAtLeast ==
    ASSUME NEW m \in Nat \ {0}, NEW t \in Int, t >= 1
    PROVE  m * t >= m
  OBVIOUS

LEMMA ModUnique ==
    ASSUME NEW m \in Nat \ {0}, NEW a \in Nat, NEW q \in Int, NEW r \in 0 .. m - 1,
           a = m * q + r
    PROVE  a % m = r
<1>1. PICK p \in Int : p = a \div m
  BY Quotient
<1>2. PICK s \in 0 .. m - 1 : s = a % m
  BY Quotient
<1>3. a = m * p + s
  BY <1>1, <1>2, Quotient
<1>4. m * (q - p) = s - r /\ m * (p - q) = r - s
  BY <1>3
<1>5. ~(q - p >= 1)
  BY <1>4, MultipleAtLeast
<1>6. ~(p - q >= 1)
  BY <1>4, MultipleAtLeast
<1>7. p = q
  BY <1>5, <1>6
<1>. QED
  BY <1>2, <1>3, <1>7

LEMMA ModPlus ==
    ASSUME NEW m \in Nat \ {0}, NEW a \in Nat, NEW d \in 0 .. m
    PROVE  (a + d) % m = IF (a % m) + d < m THEN (a % m) + d ELSE (a % m) + d - m
<1>1. PICK q \in Int : a = m * q + (a % m)
  BY Quotient
<1>2. PICK r \in 0 .. m - 1 : r = a % m
  BY Quotient
<1>3. PICK b \in Nat : b = a + d
  OBVIOUS
<1>4. CASE r + d < m
  <2>1. PICK t \in 0 .. m - 1 : t = r + d
    BY <1>4
  <2>2. b = m * q + t
    BY <1>1, <1>2, <1>3, <2>1
  <2>3. b % m = t
    BY <2>2, ModUnique
  <2>. QED
    BY <1>2, <1>3, <1>4, <2>1, <2>3
<1>5. CASE r + d >= m
  <2>1. PICK t \in 0 .. m - 1 : t = r + d - m
    BY <1>5
  <2>2. PICK p \in Int : p = q + 1
    OBVIOUS
  <2>3. m * p = m * q + m
    BY <2>2
  <2>4. b = m * p + t
    <3>1. PICK c \in Int : c = m * q
      OBVIOUS
    <3>2. m * p = c + m
      BY <2>3, <3>1
    <3>3. b = c + m + t
      BY <1>1, <1>2, <1>3, <2>1, <3>1
    <3>. QED
      BY <3>2, <3>3
  <2>5. b % m = t
    BY <2>4, ModUnique
  <2>. QED
    BY <1>2, <1>3, <1>5, <2>1, <2>5
<1>. QED
  BY <1>2, <1>4, <1>5

LEMMA ModNextTwice ==
    ASSUME NEW m \in Nat \ {0}, NEW a \in Nat
    PROVE  ((a % m) + 1) % m = (a + 1) % m
<1>1. PICK r \in 0 .. m - 1 : r = a % m
  BY Quotient
<1>0. 1 \in 0 .. m
  OBVIOUS
<1>2. (a + 1) % m = IF r + 1 < m THEN r + 1 ELSE r + 1 - m
  BY <1>0, <1>1, ModPlus
<1>3. r % m = r
  BY ModSmall
<1>4. (r + 1) % m = IF (r % m) + 1 < m THEN (r % m) + 1 ELSE (r % m) + 1 - m
  <2>1. r \in Nat
    OBVIOUS
  <2>. QED
    BY <1>0, <2>1, ModPlus
<1>. QED
  BY <1>1, <1>2, <1>3, <1>4

\* Numbers less than m apart have different remainders.
LEMMA ModDiffers ==
    ASSUME NEW m \in Nat \ {0}, NEW a \in Nat, NEW d \in 1 .. m - 1
    PROVE  (a + d) % m # a % m
<1>1. PICK r \in 0 .. m - 1 : r = a % m
  BY Quotient
<1>0. d \in 0 .. m
  OBVIOUS
<1>2. (a + d) % m = IF r + d < m THEN r + d ELSE r + d - m
  BY <1>0, <1>1, ModPlus
<1>. QED
  BY <1>1, <1>2

\* Numbers with the same quotient are less than m apart.
LEMMA SameCycle ==
    ASSUME NEW m \in Nat \ {0}, NEW j \in Nat, NEW k \in Nat, j < k, j \div m = k \div m
    PROVE  k - j \in 1 .. m - 1
<1>1. j = m * (j \div m) + (j % m) /\ k = m * (k \div m) + (k % m)
  OBVIOUS
<1>2. j % m \in 0 .. m - 1 /\ k % m \in 0 .. m - 1
  OBVIOUS
<1>3. PICK c \in Int : c = m * (j \div m)
  OBVIOUS
<1>. QED
  BY <1>1, <1>2, <1>3

\* An atomic position has not wrapped before the k-th draw.
Unwrapped(k) == atomic => start + k < Word

\* Position, threads and draws know the number of the draw in every cycle.
CycleInv ==
    /\ cur_pos = IF atomic THEN (start + claims) % Word ELSE (start + claims) % max
    /\ \A t \in Threads :
         pos[t] # Idle /\ Unwrapped(claim[t]) => pos[t] = (start + claim[t]) % max
    /\ \A d \in draws : Unwrapped(d.claim) => d.value = Permuted((start + d.claim) % max)

\* Every draw that was started has returned or is in the hand of a thread.
AccountInv ==
    \A k \in 0 .. claims - 1 :
        \/ \E d \in draws : d.claim = k
        \/ \E t \in Threads : pos[t] # Idle /\ claim[t] = k

LEMMA CycleInit == Init => CycleInv /\ AccountInv
<1>. SUFFICES ASSUME Init PROVE CycleInv /\ AccountInv
  OBVIOUS
<1>1. max \in Nat \ {0} /\ max < Word /\ Word \in Nat \ {0}
  BY UniAssumption DEF Init
<1>2. start = cur_pos /\ start \in 0 .. max - 1 /\ claims = 0
  BY DEF Init
<1>3. start % max = start /\ start % Word = start
  BY <1>1, <1>2, ModSmall
<1>4. start + claims = start
  BY <1>1, <1>2
<1>5. CycleInv
  BY <1>2, <1>3, <1>4 DEF Init, CycleInv
<1>6. AccountInv
  BY <1>2 DEF AccountInv
<1>. QED
  BY <1>5, <1>6

LEMMA CycleClaim ==
    ASSUME TypeOK, PlainInv, CycleInv, AccountInv, NEW t \in Threads, Claim(t)
    PROVE  CycleInv' /\ AccountInv'
<1>. DEFINE inc == IF atomic THEN FetchAndIncrement ELSE IncrementAndReset
<1>1. /\ pos[t] = Idle
      /\ pos' = [pos EXCEPT ![t] = inc.claimed]
      /\ cur_pos' = inc.next
      /\ claim' = [claim EXCEPT ![t] = claims]
      /\ claims' = claims + 1
      /\ UNCHANGED <<max, shuffle, off, atomic, start, draws>>
  BY DEF Claim, generator
<1>2. /\ max \in Nat \ {0} /\ max < Word /\ Word \in Nat \ {0}
      /\ start \in 0 .. max - 1 /\ cur_pos \in 0 .. Word - 1 /\ claims \in Nat
      /\ atomic \in BOOLEAN
  BY MaxFacts DEF TypeOK
<1>3. PICK n \in Nat : n = start + claims
  BY <1>2
<1>4. start + claims' = n + 1
  BY <1>1, <1>2, <1>3
<1>5. cur_pos = IF atomic THEN n % Word ELSE n % max
  BY <1>3 DEF CycleInv
<1>6. cur_pos' = IF atomic THEN (n + 1) % Word ELSE (n + 1) % max
  <2>1. CASE atomic
    BY <1>1, <1>2, <1>5, <2>1, ModNextTwice DEF FetchAndIncrement
  <2>2. CASE ~atomic
    <3>1. 1 \in 0 .. max
      BY <1>2
    <3>2. (n + 1) % max = IF (n % max) + 1 < max THEN (n % max) + 1 ELSE (n % max) + 1 - max
      BY <1>2, <3>1, ModPlus
    <3>3. cur_pos \in 0 .. max - 1
      BY <1>2, <2>2 DEF PlainInv
    <3>4. (cur_pos + 1) % Word = cur_pos + 1
      BY <1>2, <3>3, ModSmall
    <3>. QED
      BY <1>1, <1>2, <1>5, <2>2, <3>2, <3>3, <3>4 DEF IncrementAndReset
  <2>. QED
    BY <2>1, <2>2
<1>7. Unwrapped(claims) => inc.claimed = (start + claims) % max
  <2>1. CASE atomic
    <3>1. n < Word => n % Word = n
      BY <1>2, ModSmall
    <3>. QED
      BY <1>3, <1>5, <2>1, <3>1 DEF FetchAndIncrement, Unwrapped
  <2>2. CASE ~atomic
    BY <1>3, <1>5, <2>2 DEF IncrementAndReset
  <2>. QED
    BY <2>1, <2>2
<1>8. ASSUME NEW u \in Threads, pos'[u] # Idle, Unwrapped(claim[u])'
      PROVE  pos'[u] = (start' + claim'[u]) % max'
  <2>1. CASE u = t
    <3>1. pos'[u] = inc.claimed /\ claim'[u] = claims
      BY <1>1, <2>1 DEF TypeOK
    <3>2. Unwrapped(claims)
      BY <1>1, <1>8, <3>1 DEF Unwrapped
    <3>. QED
      BY <1>1, <1>7, <3>1, <3>2
  <2>2. CASE u # t
    <3>1. pos'[u] = pos[u] /\ claim'[u] = claim[u]
      BY <1>1, <2>2 DEF TypeOK
    <3>2. Unwrapped(claim[u])
      BY <1>1, <1>8, <3>1 DEF Unwrapped
    <3>. QED
      BY <1>1, <1>8, <3>1, <3>2 DEF CycleInv
  <2>. QED
    BY <2>1, <2>2
<1>9. \A d \in draws' : Unwrapped(d.claim)' => d.value = Permuted((start + d.claim) % max)'
  BY <1>1 DEF CycleInv, Permuted, Unwrapped
<1>10. CycleInv'
  BY <1>1, <1>4, <1>6, <1>8, <1>9 DEF CycleInv
<1>11. AccountInv'
  <2>. SUFFICES ASSUME NEW k \in 0 .. claims' - 1
                PROVE  \/ \E d \in draws' : d.claim = k
                       \/ \E u \in Threads : pos'[u] # Idle /\ claim'[u] = k
    BY DEF AccountInv
  <2>1. CASE k = claims
    <3>1. claim'[t] = claims /\ pos'[t] = inc.claimed
      BY <1>1 DEF TypeOK
    <3>2. inc.claimed \in Nat
      BY <1>2 DEF FetchAndIncrement, IncrementAndReset
    <3>. QED
      BY <2>1, <3>1, <3>2, UniAssumption
  <2>2. CASE k # claims
    <3>1. k \in 0 .. claims - 1
      BY <1>1, <1>2, <2>2
    <3>2. \A u \in Threads : pos[u] # Idle => pos'[u] = pos[u] /\ claim'[u] = claim[u]
      BY <1>1 DEF TypeOK
    <3>. QED
      BY <1>1, <3>1, <3>2 DEF AccountInv
  <2>. QED
    BY <2>1, <2>2
<1>. QED
  BY <1>10, <1>11

LEMMA CycleAnswer ==
    ASSUME TypeOK, CycleInv, AccountInv, NEW t \in Threads, Answer(t)
    PROVE  CycleInv' /\ AccountInv'
<1>. DEFINE d == [claim |-> claim[t], value |-> Permuted(pos[t])]
<1>1. /\ pos[t] # Idle
      /\ draws' = draws \cup {d}
      /\ pos' = [pos EXCEPT ![t] = Idle]
      /\ UNCHANGED <<max, shuffle, off, atomic, start, cur_pos, claim, claims>>
  BY DEF Answer, generator
<1>2. \A u \in Threads : pos'[u] = IF u = t THEN Idle ELSE pos[u]
  BY <1>1 DEF TypeOK
<1>3. Unwrapped(d.claim) => d.value = Permuted((start + d.claim) % max)
  BY <1>1 DEF CycleInv
<1>4. \A e \in draws' : Unwrapped(e.claim) => e.value = Permuted((start + e.claim) % max)
  BY <1>1, <1>3 DEF CycleInv
<1>5. CycleInv'
  <2>1. \A e \in draws' : Unwrapped(e.claim)' => e.value = Permuted((start + e.claim) % max)'
    BY <1>1, <1>4 DEF Permuted, Unwrapped
  <2>2. \A u \in Threads :
          pos'[u] # Idle /\ Unwrapped(claim[u])' => pos'[u] = (start' + claim'[u]) % max'
    BY <1>1, <1>2 DEF CycleInv, Unwrapped
  <2>. QED
    BY <1>1, <2>1, <2>2 DEF CycleInv
<1>6. AccountInv'
  <2>. SUFFICES ASSUME NEW k \in 0 .. claims - 1
                PROVE  \/ \E e \in draws' : e.claim = k
                       \/ \E u \in Threads : pos'[u] # Idle /\ claim'[u] = k
    BY <1>1 DEF AccountInv
  <2>1. CASE \E e \in draws : e.claim = k
    BY <1>1, <2>1
  <2>2. CASE pos[t] # Idle /\ claim[t] = k
    <3>1. d \in draws' /\ d.claim = k
      BY <1>1, <2>2
    <3>. QED
      BY <3>1
  <2>3. ASSUME NEW u \in Threads, u # t, pos[u] # Idle, claim[u] = k
        PROVE  pos'[u] # Idle /\ claim'[u] = k
    BY <1>1, <1>2, <2>3
  <2>. QED
    BY <2>1, <2>2, <2>3 DEF AccountInv
<1>. QED
  BY <1>5, <1>6

LEMMA CycleNext ==
    ASSUME TypeOK, PlainInv, CycleInv, AccountInv, [Next]_vars
    PROVE  CycleInv' /\ AccountInv'
<1>1. CASE UNCHANGED vars
  BY <1>1 DEF vars, generator, CycleInv, AccountInv, Unwrapped, Permuted
<1>. QED
  BY <1>1, CycleClaim, CycleAnswer DEF Next

LEMMA CycleAlways ==
    ASSUME NoOverflow
    PROVE  Spec => [](IInv /\ CycleInv /\ AccountInv)
<1>1. IInv /\ CycleInv /\ AccountInv /\ [Next]_vars => (CycleInv /\ AccountInv)'
  BY CycleNext DEF IInv
<1>2. Spec => []IInv
  BY Inductive
<1>. QED
  BY <1>1, <1>2, CycleInit, PTL DEF Spec

LEMMA PositionsDiffer ==
    ASSUME TypeOK, NEW j \in Nat, NEW k \in Nat, j < k, j \div max = k \div max
    PROVE  (start + j) % max # (start + k) % max
<1>1. max \in Nat \ {0} /\ start \in Nat
  BY MaxFacts
<1>2. PICK d \in 1 .. max - 1 : d = k - j
  BY <1>1, SameCycle
<1>3. PICK a \in Nat : a = start + j
  BY <1>1
<1>4. a + d = start + k
  BY <1>1, <1>2, <1>3
<1>5. (a + d) % max # a % max
  BY <1>1, ModDiffers
<1>. QED
  BY <1>3, <1>4, <1>5

\* The draws are unique in every cycle, not only in the first one, until an atomic
\* position wraps, for every size up to half of the word, any threads and any
\* schedule (uni::operator(), pos_increment).
THEOREM EveryCycleIsUnique == NoOverflow => (Spec => []UniqueInEveryCycle)
<1>. SUFFICES ASSUME NoOverflow PROVE Spec => []UniqueInEveryCycle
  OBVIOUS
<1>1. IInv /\ CycleInv => UniqueInEveryCycle
  <2>. SUFFICES ASSUME IInv, CycleInv, NEW d \in draws, NEW e \in draws,
                       d.claim \div max = e.claim \div max, d.claim # e.claim,
                       Unwrapped(d.claim), Unwrapped(e.claim)
                PROVE  d.value # e.value
    BY DEF UniqueInEveryCycle, Unwrapped
  <2>1. TypeOK /\ d.claim \in Nat /\ e.claim \in Nat
    BY DEF IInv, TypeOK
  <2>2. PICK p : p = (start + d.claim) % max
    OBVIOUS
  <2>3. PICK q : q = (start + e.claim) % max
    OBVIOUS
  <2>4. p # q
    <3>1. CASE d.claim < e.claim
      BY <2>1, <2>2, <2>3, <3>1, PositionsDiffer
    <3>2. CASE e.claim < d.claim
      BY <2>1, <2>2, <2>3, <3>2, PositionsDiffer
    <3>. QED
      BY <2>1, <3>1, <3>2
  <2>5. p \in 0 .. max - 1 /\ q \in 0 .. max - 1
    BY <2>1, <2>2, <2>3, MaxFacts
  <2>6. d.value = Permuted(p) /\ e.value = Permuted(q)
    BY <2>2, <2>3 DEF CycleInv
  <2>. QED
    BY <2>1, <2>4, <2>5, <2>6, PermutedInjective
<1>. QED
  BY <1>1, CycleAlways, PTL

\* Once max draws have returned they have returned every number below max, for
\* the same sizes, threads and schedules: a scan of max draws misses nothing.
THEOREM FirstCycleMissesNothing == NoOverflow => (Spec => []FirstCycleComplete)
<1>. SUFFICES ASSUME NoOverflow PROVE Spec => []FirstCycleComplete
  OBVIOUS
<1>1. IInv /\ AccountInv => FirstCycleComplete
  <2>. SUFFICES ASSUME IInv, AccountInv, claims >= max, \A t \in Threads : pos[t] = Idle
                PROVE  {d.value : d \in {e \in draws : e.claim < max}} = 0 .. max - 1
    BY DEF FirstCycleComplete
  <2>. DEFINE S == 0 .. max - 1
              g == [k \in S |-> Permuted(At(k))]
  <2>1. TypeOK /\ max \in Nat \ {0} /\ claims \in Nat
    BY MaxFacts DEF IInv, TypeOK
  <2>2. \A k \in S : Permuted(At(k)) \in S
    BY <2>1, AtFacts, PermutedType
  <2>3. \A j, k \in S : Permuted(At(j)) = Permuted(At(k)) => j = k
    BY <2>1, AtFacts, PermutedInjective
  <2>4. g \in Injection(S, S)
    BY <2>2, <2>3 DEF Injection, IsInjective
  <2>5. IsFiniteSet(S)
    BY <2>1, FS_Interval
  <2>6. g \in Surjection(S, S)
    BY <2>4, <2>5, FS_Injection
  <2>7. \A v \in S : \E k \in S : v = Permuted(At(k))
    BY <2>6 DEF Surjection
  <2>8. \A k \in S : \E d \in draws : d.claim = k
    BY <2>1 DEF AccountInv
  <2>9. \A d \in draws : d.claim < max => d.claim \in S /\ d.value = Permuted(At(d.claim))
    BY <2>1 DEF IInv, DrawInv, TypeOK
  <2>10. ASSUME NEW v \in S
         PROVE  v \in {d.value : d \in {e \in draws : e.claim < max}}
    <3>1. PICK k \in S : v = Permuted(At(k))
      BY <2>7
    <3>2. PICK d \in draws : d.claim = k
      BY <2>8
    <3>3. d.claim < max /\ d.value = v
      BY <2>1, <2>9, <3>1, <3>2
    <3>. QED
      BY <3>3
  <2>11. \A d \in draws : d.claim < max => d.value \in S
    BY <2>2, <2>9
  <2>. QED
    BY <2>10, <2>11
<1>. QED
  BY <1>1, CycleAlways, PTL

------------------------------------------------------------------------------
(* The vectors of uni<__m128i>. *)

LEMMA LeastNumber ==
    ASSUME NEW T \in SUBSET Nat, T # {}
    PROVE  \E x \in T : \A y \in T : x <= y
<1>1. PICK x \in T : \A y \in T : ~(<<y, x>> \in OpToRel(<, Nat))
  BY NatLessThanWellFounded, WFMin
<1>2. \A y \in T : ~(y < x)
  BY <1>1 DEF OpToRel
<1>. QED
  BY <1>2

LEMMA PrimeBound ==
    ASSUME NEW m \in Nat
    PROVE  PreviousPrime(m) \in 0 .. m
<1>. DEFINE P == MatchingPrimes(m)
            T == {m - p : p \in P}
<1>1. P \subseteq 0 .. m
  BY DEF MatchingPrimes
<1>2. CASE P = {}
  BY <1>2 DEF PreviousPrime
<1>3. CASE P # {}
  <2>1. T \in SUBSET Nat /\ T # {}
    BY <1>1, <1>3
  <2>2. PICK x \in T : \A y \in T : x <= y
    BY <2>1, LeastNumber
  <2>3. PICK p \in P : x = m - p
    OBVIOUS
  <2>4. \A q \in P : q <= p
    <3>1. \A q \in P : m - p <= m - q
      BY <2>2, <2>3
    <3>. QED
      BY <1>1, <3>1
  <2>5. PreviousPrime(m) \in P
    <3>. HIDE DEF P
    <3>1. PreviousPrime(m) = CHOOSE c \in P : \A q \in P : q <= c
      BY <1>3 DEF PreviousPrime, P
    <3>. QED
      BY <2>4, <3>1
  <2>. QED
    BY <1>1, <2>5
<1>. QED
  BY <1>2, <1>3

------------------------------------------------------------------------------
(* Lanes. *)

LEMMA Parity ==
    ASSUME NEW l \in Lane
    PROVE  /\ l % 2 = 0 => l + 1 \in Lane /\ (l + 1) % 2 = 1
           /\ l % 2 # 0 => l % 2 = 1 /\ l - 1 \in Lane /\ (l - 1) % 2 = 0
  BY LanesAssumption DEF Lane

LEMMA NotNegative ==
    ASSUME NEW v \in Int, NEW w \in Int, v < LaneWord \div 2, w < LaneWord \div 2
    PROVE  IsGreater(v, w) <=> v > w
<1>1. Signed(v) = v /\ Signed(w) = w
  BY LanesAssumption DEF Signed
<1>. QED
  BY <1>1 DEF IsGreater

\* The residues of a vector are those of its lanes.
LEMMA ResiduesOfLanes ==
    ASSUME max \in Nat \ {0}, max < LaneWord \div 2, NEW v \in [Lane -> 0 .. max - 1]
    PROVE  Residues(v) = [l \in Lane |-> Residue(max, shuffle, v[l])]
<1>1. PICK prime \in 0 .. max : prime = PreviousPrime(max)
  BY PrimeBound
<1>2. LaneWord \div 2 \in Nat
  BY LanesAssumption
<1>. DEFINE upper == [l \in Lane |-> IsGreater(v[l], prime \div 2)]
            even == EvenResidues(v, ToOdd(upper))
            odd == EvenResidues(ToEven(v), upper)
            Half(l) == HalfResidue(v[l], v[l] > prime \div 2)
<1>3. \A l \in Lane : v[l] \in 0 .. max - 1 /\ v[l] < LaneWord \div 2
  BY <1>2
<1>4. \A l \in Lane : IsGreater(v[l], prime - 1) <=> v[l] >= prime
  <2>1. prime - 1 \in Int /\ prime - 1 < LaneWord \div 2
    BY <1>2
  <2>2. \A l \in Lane : IsGreater(v[l], prime - 1) <=> v[l] > prime - 1
    BY <1>3, <2>1, NotNegative
  <2>. QED
    BY <1>3, <2>2
<1>5. \A l \in Lane : upper[l] <=> v[l] > prime \div 2
  <2>1. prime \div 2 \in Int /\ prime \div 2 < LaneWord \div 2
    BY <1>2
  <2>. QED
    BY <1>3, <2>1, NotNegative
<1>6. CASE \E l \in Lane : IsGreater(v[l], prime - 1)
  <2>1. Residues(v) = [l \in Lane |-> IF IsGreater(v[l], prime - 1) THEN shuffle[v[l]] ELSE Half(l)]
    BY <1>1, <1>6 DEF Residues
  <2>2. \A l \in Lane : v[l] < prime => Residue(max, shuffle, v[l]) = Half(l)
    BY <1>1, <1>3 DEF Residue, HalfResidue
  <2>3. \A l \in Lane : v[l] >= prime => Residue(max, shuffle, v[l]) = shuffle[v[l]]
    BY <1>1 DEF Residue
  <2>. HIDE DEF Half
  <2>4. ASSUME NEW l \in Lane
        PROVE  (IF IsGreater(v[l], prime - 1) THEN shuffle[v[l]] ELSE Half(l)) = Residue(max, shuffle, v[l])
    <3>1. v[l] < prime \/ v[l] >= prime
      BY <1>3
    <3>. QED
      BY <1>3, <1>4, <2>2, <2>3, <3>1
  <2>. QED
    BY <2>1, <2>4
<1>7. CASE ~\E l \in Lane : IsGreater(v[l], prime - 1)
  <2>1. \A l \in Lane : Residue(max, shuffle, v[l]) = Half(l)
    <3>1. \A l \in Lane : v[l] < prime
      BY <1>3, <1>4, <1>7
    <3>. QED
      BY <1>1, <1>3, <3>1 DEF Residue, HalfResidue
  <2>2. \A l \in Lane : l % 2 = 0 => even[l] = Half(l)
    <3>1. ASSUME NEW l \in Lane, l % 2 = 0 PROVE even[l] = Half(l)
      <4>0. PICK k \in Lane : k = l + 1 /\ k - 1 = l /\ k % 2 = 1
        BY <3>1, Parity DEF Lane
      <4>1. ToOdd(upper)[l + 1] = upper[l]
        BY <4>0 DEF ToOdd
      <4>2. even[l] = HalfResidue(v[l], ToOdd(upper)[l + 1])
        BY <3>1 DEF EvenResidues
      <4>. QED
        BY <1>5, <4>1, <4>2 DEF HalfResidue
    <3>. QED
      BY <3>1
  <2>3. \A l \in Lane : l % 2 # 0 => odd[l - 1] = Half(l)
    <3>1. ASSUME NEW l \in Lane, l % 2 # 0 PROVE odd[l - 1] = Half(l)
      <4>1. PICK k \in Lane : k = l - 1 /\ k + 1 = l /\ k % 2 = 0
        BY <3>1, Parity DEF Lane
      <4>2. ToEven(v)[k] = v[l]
        BY <4>1 DEF ToEven
      <4>3. odd[k] = HalfResidue(v[l], upper[l])
        BY <4>1, <4>2 DEF EvenResidues
      <4>. QED
        BY <1>5, <4>1, <4>3 DEF HalfResidue
    <3>. QED
      BY <3>1
  <2>4. Residues(v) = [l \in Lane |-> IF l % 2 = 0 THEN even[l] ELSE odd[l - 1]]
    BY <1>1, <1>7 DEF Residues
  <2>. HIDE DEF even, odd, Half
  <2>. QED
    BY <2>1, <2>2, <2>3, <2>4
<1>. QED
  BY <1>6, <1>7

\* The remainder is that of unsigned numbers for those that are not negative.
LEMMA RemainderOfSum ==
    ASSUME NEW s \in Nat, NEW m \in Nat \ {0}, s < LaneWord \div 2
    PROVE  SignedRem(s % LaneWord, m) = s % m
<1>1. LaneWord \in Nat \ {0} /\ LaneWord \div 2 \in Nat /\ LaneWord \div 2 <= LaneWord
  BY LanesAssumption
<1>2. s % LaneWord = s
  BY <1>1, ModSmall
<1>3. Signed(s) = s
  BY <1>1 DEF Signed
<1>. QED
  BY <1>2, <1>3 DEF SignedRem

\* No sum of two numbers below the size wraps, or is a negative lane.
SumsFit == 2 * max <= Word /\ 2 * max <= LaneWord \div 2

\* So a permuted vector has the permuted lanes, when no sum is negative.
LEMMA PermutedLanesArePermuted ==
    ASSUME max \in Maxes, shuffle \in Shuffles(max), off \in 0 .. max - 1,
           SumsFit, NEW v \in [Lane -> 0 .. max - 1]
    PROVE  PermutedLanes(v) = [l \in Lane |-> Permuted(v[l])]
<1>1. /\ max \in Nat \ {0} /\ IsPermutation(max, shuffle)
      /\ Word \in Nat \ {0} /\ LaneWord \in Nat \ {0}
      /\ 2 * max <= Word /\ 2 * max <= LaneWord \div 2
  BY UniAssumption, LanesAssumption, ResidueAssumption DEF SumsFit
<1>. DEFINE r == Residues(v)
            s == [l \in Lane |-> SignedRem((r[l] + off) % LaneWord, max)]
            w == [l \in Lane |-> ((r[l] + off) % Word) % max]
<1>0. max < LaneWord \div 2 /\ LaneWord \div 2 \in Nat
  BY <1>1
<1>2. r = [l \in Lane |-> Residue(max, shuffle, v[l])]
  BY <1>0, <1>1, ResiduesOfLanes
<1>3. \A l \in Lane : r[l] \in 0 .. max - 1
  <2>1. \A l \in Lane : v[l] \in 0 .. max - 1 /\ r[l] = Residue(max, shuffle, v[l])
    BY <1>2
  <2>. HIDE DEF r
  <2>. QED
    BY <1>1, <2>1 DEF IsPermutation
<1>. HIDE DEF r
<1>4. w \in [Lane -> 0 .. max - 1]
  BY <1>1, <1>3
<1>6. s = w
  <2>1. ASSUME NEW l \in Lane
        PROVE  SignedRem((r[l] + off) % LaneWord, max) = ((r[l] + off) % Word) % max
    <3>1. PICK n \in Nat : n = r[l] + off
      BY <1>1, <1>3
    <3>2. n < LaneWord \div 2 /\ n < Word
      BY <1>0, <1>1, <1>3, <3>1
    <3>3. n % Word = n
      BY <1>1, <3>2, ModSmall
    <3>. QED
      BY <1>1, <3>1, <3>2, <3>3, RemainderOfSum
  <2>. QED
    BY <2>1
<1>5. Residues(w) = [l \in Lane |-> Residue(max, shuffle, w[l])]
  <2>. HIDE DEF w
  <2>. QED
    BY <1>0, <1>1, <1>4, ResiduesOfLanes
<1>7. PermutedLanes(v) = Residues(w)
  <2>. HIDE DEF w
  <2>. QED
    BY <1>6 DEF PermutedLanes, r
<1>. QED
  BY <1>2, <1>5, <1>7 DEF Permuted

------------------------------------------------------------------------------
(* Positions. *)

\* The generator is as init() left it.
GeneratorOK ==
    /\ max \in Maxes /\ shuffle \in Shuffles(max)
    /\ off \in 0 .. max - 1 /\ start \in 0 .. max - 1

\* The positions n draws after the first ones.
LanesAt(n) == [l \in Lane |-> (start + n + l) % max]

LEMMA LanesAtType ==
    ASSUME GeneratorOK, NEW n \in Nat
    PROVE  LanesAt(n) \in [Lane -> 0 .. max - 1]
<1>1. max \in Nat \ {0} /\ start \in Nat
  BY UniAssumption DEF GeneratorOK
<1>2. ASSUME NEW l \in Lane PROVE (start + n + l) % max \in 0 .. max - 1
  BY <1>1 DEF Lane
<1>. QED
  BY <1>2 DEF LanesAt

LEMMA AdvancedLanes ==
    ASSUME GeneratorOK, NEW n \in Nat, NEW d \in 0 .. max, max - 1 + d < LaneWord \div 2
    PROVE  Advanced(LanesAt(n), d) = LanesAt(n + d)
<1>1. /\ max \in Nat \ {0} /\ start \in Nat /\ LaneWord \in Nat \ {0}
      /\ LaneWord \div 2 \in Nat /\ LaneWord \div 2 <= LaneWord
  BY UniAssumption, LanesAssumption DEF GeneratorOK
<1>. DEFINE v == LanesAt(n)
            P(l) == (v[l] + d) % LaneWord
            A(l) == IF IsGreater(P(l), max - 1) THEN P(l) - max ELSE P(l)
<1>2. ASSUME NEW l \in Lane PROVE A(l) = (start + (n + d) + l) % max
  <2>1. PICK a \in Nat : a = start + n + l
    BY <1>1 DEF Lane
  <2>2. PICK x \in 0 .. max - 1 : x = a % max
    BY <1>1, Quotient
  <2>3. v[l] = x
    BY <2>1, <2>2 DEF LanesAt
  <2>4. x + d \in 0 .. LaneWord - 1 /\ x + d < LaneWord \div 2
    BY <1>1, <2>2
  <2>5. P(l) = x + d
    BY <1>1, <2>3, <2>4, ModSmall
  <2>6. IsGreater(x + d, max - 1) <=> x + d > max - 1
    <3>1. x + d \in Int /\ max - 1 \in Int /\ max - 1 < LaneWord \div 2
      BY <1>1
    <3>. QED
      BY <2>4, <3>1, NotNegative
  <2>7. A(l) = IF x + d < max THEN x + d ELSE x + d - max
    BY <1>1, <2>5, <2>6
  <2>8. (a + d) % max = IF x + d < max THEN x + d ELSE x + d - max
    BY <1>1, <2>1, <2>2, ModPlus
  <2>9. start + (n + d) + l = a + d
    BY <1>1, <2>1 DEF Lane
  <2>. QED
    BY <2>7, <2>8, <2>9
<1>3. Advanced(v, d) = [l \in Lane |-> A(l)]
  BY DEF Advanced
<1>. HIDE DEF A
<1>. QED
  BY <1>2, <1>3 DEF LanesAt

LEMMA FirstLanes ==
    ASSUME GeneratorOK
    PROVE  InitLanes(start) = LanesAt(0) /\ 0 * Lanes = 0
<1>1. start \in Nat /\ Lanes \in Nat
  BY UniAssumption, LanesAssumption DEF GeneratorOK
<1>2. \A l \in Lane : start + 0 + l = start + l
  BY <1>1 DEF Lane
<1>. QED
  BY <1>1, <1>2 DEF InitLanes, LanesAt

\* The vectors that were drawn, and the positions of the next one.
VectorInv ==
    /\ GeneratorOK
    /\ calls \in Nat
    /\ calls > 0 => FitsVector(max)
    /\ lanes = LanesAt(calls * Lanes)
    /\ SumsFit => \A d \in vectors :
         \A l \in Lane : d.values[l] = Permuted((start + d.call * Lanes + l) % max)

LEMMA VectorStart == Init /\ VectorInit => VectorInv
<1>. SUFFICES ASSUME Init, VectorInit PROVE VectorInv
  OBVIOUS
<1>1. GeneratorOK
  BY DEF Init, GeneratorOK
<1>2. lanes = InitLanes(start) /\ calls = 0 /\ vectors = {}
  BY DEF Init, VectorInit
<1>. QED
  BY <1>1, <1>2, FirstLanes DEF VectorInv

LEMMA VectorStep ==
    ASSUME VectorInv, DrawVector
    PROVE  VectorInv'
<1>1. /\ GeneratorOK /\ calls \in Nat /\ FitsVector(max)
      /\ lanes = LanesAt(calls * Lanes)
      /\ UNCHANGED <<max, shuffle, off, start>>
  BY DEF VectorInv, DrawVector, vars, generator
<1>2. /\ max \in Nat \ {0} /\ Lanes \in Nat \ {0}
      /\ Lanes \in 0 .. max /\ max - 1 + Lanes < LaneWord \div 2
      /\ max < LaneWord \div 2
  <2>1. max \in Nat \ {0} /\ Lanes \in Nat \ {0} /\ LaneWord \div 2 \in Nat
    BY <1>1, UniAssumption, LanesAssumption DEF GeneratorOK
  <2>. QED
    BY <1>1, <2>1 DEF FitsVector
<1>3. PICK n \in Nat : n = calls * Lanes
  BY <1>1, <1>2
<1>4. (calls + 1) * Lanes = n + Lanes
  BY <1>1, <1>2, <1>3
<1>5. Advanced(lanes, Lanes) = LanesAt(n + Lanes)
  BY <1>1, <1>2, <1>3, AdvancedLanes
<1>6. SumsFit => PermutedLanes(lanes) = [l \in Lane |-> Permuted((start + n + l) % max)]
  <2>1. lanes \in [Lane -> 0 .. max - 1] /\ lanes = [l \in Lane |-> (start + n + l) % max]
    BY <1>1, <1>3, LanesAtType DEF LanesAt
  <2>2. SumsFit => PermutedLanes(lanes) = [l \in Lane |-> Permuted(lanes[l])]
    BY <1>1, <2>1, PermutedLanesArePermuted DEF GeneratorOK, SumsFit
  <2>. QED
    BY <2>1, <2>2
<1>7. calls' = calls + 1 /\ calls' \in Nat /\ lanes' = LanesAt(calls' * Lanes)
  BY <1>1, <1>4, <1>5 DEF DrawVector
<1>8. LanesAt(calls' * Lanes) = LanesAt(calls * Lanes)'
  BY <1>1 DEF LanesAt
<1>9. SumsFit => \A d \in vectors' :
        \A l \in Lane : d.values[l] = Permuted((start + d.call * Lanes + l) % max)
  <2>1. vectors' = vectors \cup {[call |-> calls, values |-> PermutedLanes(lanes)]}
    BY DEF DrawVector
  <2>. QED
    BY <1>3, <1>6, <2>1 DEF VectorInv
<1>10. SumsFit' => \A d \in vectors' :
         \A l \in Lane : d.values[l] = Permuted((start + d.call * Lanes + l) % max)'
  BY <1>1, <1>9 DEF Permuted, SumsFit
<1>11. GeneratorOK' /\ FitsVector(max')
  BY <1>1 DEF GeneratorOK
<1>. QED
  BY <1>7, <1>8, <1>10, <1>11 DEF VectorInv

\* The vectors are the draws, and get_step() finds them in the first cycle.
LEMMA VectorsAreDraws == NoOverflow /\ VectorInv => LanesAreDraws
<1>. SUFFICES ASSUME NoOverflow, VectorInv, 2 * max <= LaneWord \div 2
              PROVE  LanesAreDraws
  BY DEF LanesAreDraws
<1>0. SumsFit
  BY DEF NoOverflow, VectorInv, GeneratorOK, SumsFit
<1>1. GeneratorOK /\ max \in Nat \ {0} /\ Lanes \in Nat \ {0} /\ LaneWord \div 2 \in Nat
  BY UniAssumption, LanesAssumption DEF VectorInv, GeneratorOK
<1>2. ASSUME calls > 0,
             NEW k \in 0 .. (max - 1) \div Lanes, NEW l \in Lane
      PROVE  GetVectorStep(InitLanes(start), k)[l] = Permuted((start + k * Lanes + l) % max)
  <2>1. PICK d \in Nat : d = k * Lanes
    BY <1>1
  <2>2. d \in 0 .. max - 1
    <3>1. PICK q \in Nat : q = (max - 1) \div Lanes
      BY <1>1
    <3>2. Lanes * q <= max - 1
      <4>1. max - 1 \in Nat
        BY <1>1
      <4>. QED
        BY <1>1, <3>1, <4>1, Quotient
    <3>3. k <= q /\ q - k \in Nat
      BY <3>1
    <3>4. Lanes * (q - k) >= 0
      BY <1>1, <3>3
    <3>5. Lanes * q = Lanes * k + Lanes * (q - k)
      BY <1>1, <3>1, <3>3
    <3>. QED
      BY <1>1, <2>1, <3>2, <3>4, <3>5
  <2>3. d \in 0 .. max /\ max - 1 + d < LaneWord \div 2 /\ max < LaneWord \div 2
    BY <1>1, <1>2, <2>2
  <2>4. Advanced(InitLanes(start), d) = LanesAt(0 + d)
    BY <1>1, <2>3, FirstLanes, AdvancedLanes
  <2>5. Advanced(InitLanes(start), k * Lanes) = LanesAt(d)
    BY <2>1, <2>4
  <2>6. PermutedLanes(LanesAt(d)) = [j \in Lane |-> Permuted(LanesAt(d)[j])]
    BY <1>0, <1>1, <2>1, LanesAtType, PermutedLanesArePermuted DEF GeneratorOK
  <2>. QED
    BY <2>1, <2>5, <2>6 DEF GetVectorStep, LanesAt
<1>. QED
  BY <1>0, <1>2 DEF VectorInv, LanesAreDraws

------------------------------------------------------------------------------
(* The generator of the composition is the one of Uni. *)

LEMMA WalkInitIsInit == WalkInit => Init
  BY DEF WalkInit

LEMMA WalkStepsAreSteps == [WalkNext]_allVars => [Next]_vars
  BY DEF WalkNext, DrawVector, allVars

LEMMA WalkIsUni == WalkSpec => Spec
  BY WalkInitIsInit, WalkStepsAreSteps, PTL DEF WalkSpec, Spec

\* The first max draws stay unique in the composition that the runs check, beside
\* vectors and walks (uni::operator()).
THEOREM WalkDrawsAreUnique == NoOverflow => (WalkSpec => []UniqueInFirstCycle)
  BY WalkIsUni, DrawsAreUnique, PTL

\* Vectors are drawn from a generator of their own.
VectorUse == (use = "draws" => calls = 0 /\ vectors = {}) /\ (use # "draws" => VectorInv)

LEMMA VectorUseInit == WalkInit => VectorUse
<1>. SUFFICES ASSUME WalkInit PROVE VectorUse
  OBVIOUS
<1>1. Init /\ VectorInit
  BY DEF WalkInit
<1>2. calls = 0 /\ vectors = {}
  BY <1>1 DEF VectorInit
<1>. QED
  BY <1>1, <1>2, VectorStart DEF VectorUse

LEMMA VectorUseNext == VectorUse /\ [WalkNext]_allVars => VectorUse'
<1>. SUFFICES ASSUME VectorUse, [WalkNext]_allVars PROVE VectorUse'
  OBVIOUS
<1>1. CASE UNCHANGED <<use, vars, vectorVars>>
  BY <1>1 DEF VectorUse, VectorInv, GeneratorOK, LanesAt, Permuted, FitsVector,
              SumsFit, vars, generator, vectorVars
<1>2. CASE use' = use /\ use = "draws" /\ UNCHANGED vectorVars
  BY <1>2 DEF VectorUse, vectorVars
<1>3. CASE use' = use /\ use = "vectors" /\ DrawVector
  BY <1>3, VectorStep DEF VectorUse
<1>. QED
  BY <1>1, <1>2, <1>3 DEF WalkNext, allVars

\* The vectors of uni<__m128i> hold the draws of the scalar generator, lane by
\* lane, and get_step() finds them, for every even number of lanes, in both builds,
\* and every size of which twice fits the word and the lanes that are not negative.
THEOREM VectorsHoldDraws == NoOverflow => (WalkSpec => []LanesAreDraws)
<1>. SUFFICES ASSUME NoOverflow PROVE WalkSpec => []LanesAreDraws
  OBVIOUS
<1>1. VectorUse => LanesAreDraws
  <2>1. CASE use = "draws"
    BY <2>1 DEF VectorUse, LanesAreDraws
  <2>2. CASE use # "draws"
    BY <2>2, VectorsAreDraws DEF VectorUse
  <2>. QED
    BY <2>1, <2>2
<1>. QED
  BY <1>1, VectorUseInit, VectorUseNext, PTL DEF WalkSpec

------------------------------------------------------------------------------
(* The ledger. *)

\* The counter and the saved counter are steps of the walk.
CounterInv ==
    /\ max \in Maxes
    /\ up \in BOOLEAN
    /\ cur_step \in 0 .. max
    /\ reading # Idle => up /\ reading = cur_step /\ cur_step < max
    /\ archive # NoArchive => archive \in 0 .. max

LEMMA StepsFacts ==
    ASSUME NEW m \in Maxes
    PROVE  /\ m \in Nat \ {0} /\ Steps \subseteq Nat /\ 0 .. m - 1 \subseteq Steps
           /\ Idle \notin Steps
           /\ \A S \in SUBSET Steps : S # NoArchive
<1>1. Maxes \subseteq Nat \ {0}
  BY UniAssumption
<1>2. Steps \subseteq Nat /\ 0 .. m - 1 \subseteq Steps
  BY <1>1 DEF Steps
<1>. QED
  BY <1>1, <1>2, UniAssumption, WalkAssumption

LEMMA CounterInit == WalkInit => CounterInv
<1>. SUFFICES ASSUME WalkInit PROVE CounterInv
  OBVIOUS
<1>1. max \in Maxes /\ up = FALSE /\ cur_step = 0 /\ reading = Idle /\ archive = NoArchive
  BY DEF WalkInit, Init
<1>2. max \in Nat
  BY <1>1, UniAssumption
<1>3. 0 \in 0 .. max
  BY <1>2
<1>. QED
  BY <1>1, <1>3 DEF CounterInv

LEMMA CounterNext == CounterInv /\ [WalkNext]_allVars => CounterInv'
<1>. SUFFICES ASSUME CounterInv, [WalkNext]_allVars PROVE CounterInv'
  OBVIOUS
<1>1. max \in Nat \ {0} /\ Idle \notin Nat /\ NoArchive \notin Nat
  BY UniAssumption, WalkAssumption DEF CounterInv
<1>2. CASE use = "draws" /\ Next /\ UNCHANGED <<vectorVars, walk>>
  BY <1>2 DEF CounterInv, Next, Claim, Answer, generator, walk
<1>3. CASE use = "vectors" /\ DrawVector /\ UNCHANGED walk
  BY <1>3 DEF CounterInv, DrawVector, vars, generator, walk
<1>4. CASE UNCHANGED allVars
  BY <1>4 DEF CounterInv, allVars, vars, generator, walk
<1>5. CASE use = "walk" /\ WalkStep /\ UNCHANGED <<vars, vectorVars>>
  <2>0. max' = max
    BY <1>5 DEF vars, generator
  <2>1. CASE StartWalk
    BY <2>0, <2>1, <1>1 DEF CounterInv, StartWalk
  <2>2. CASE ReadStep
    BY <2>0, <2>2, <1>1 DEF CounterInv, ReadStep, AtEnd
  <2>3. CASE Return
    BY <2>0, <2>3, <1>1 DEF CounterInv, Return
  <2>4. CASE Save
    BY <2>0, <2>4, <1>1 DEF CounterInv, Save
  <2>5. CASE Crash
    <3>1. 0 \in 0 .. max'
      BY <1>1, <2>0
    <3>2. cur_step' = 0 /\ up' = FALSE /\ reading' = Idle /\ archive' = archive
      BY <2>5 DEF Crash
    <3>. QED
      BY <2>0, <3>1, <3>2 DEF CounterInv
  <2>6. CASE Restore
    BY <2>0, <2>6, <1>1 DEF CounterInv, Restore
  <2>. QED
    BY <1>5, <2>1, <2>2, <2>3, <2>4, <2>5, <2>6 DEF WalkStep
<1>. QED
  BY <1>2, <1>3, <1>4, <1>5 DEF WalkNext

LEMMA CounterAlways == WalkSpec => []CounterInv
  BY CounterInit, CounterNext, PTL DEF WalkSpec

LEMMA LedgerInit == WalkInit => Ledger!Init
  BY DEF WalkInit, Ledger!Init

\* A step of the walk is a step of the ledger.
LEMMA LedgerStep ==
    ASSUME CounterInv, WalkStep, max' = max
    PROVE  [Ledger!Next]_Ledger!vars
<1>0. /\ max \in Nat \ {0} /\ Steps \subseteq Nat /\ 0 .. max - 1 \subseteq Steps
      /\ Idle \notin Steps /\ Idle \notin Nat /\ NoArchive \notin Nat
  BY StepsFacts, UniAssumption, WalkAssumption DEF CounterInv
<1>1. \A S \in SUBSET Steps : S # NoArchive
  BY WalkAssumption
<1>a. \A s \in Steps : s \in Nat /\ s # Idle
  BY <1>0
<1>2. cur_step \in 0 .. max /\ (archive # NoArchive => archive \in 0 .. max)
  BY DEF CounterInv
<1>3. {s \in Steps : s < archive \/ s >= max} # NoArchive
  BY <1>1
<1>4. CASE StartWalk
  <2>1. reading = Idle /\ reading' = Idle /\ ~up /\ up' /\ archive = NoArchive /\ archive' = NoArchive
    BY <1>4 DEF CounterInv, StartWalk
  <2>2. up' = TRUE
    BY <1>4 DEF StartWalk
  <2>3. PICK step \in 0 .. max : cur_step' = step
    BY <1>4 DEF StartWalk
  <2>. DEFINE W == {s \in Steps : s >= cur_step' /\ s < max /\ s # reading'}
  <2>4. W \in SUBSET Steps
    OBVIOUS
  <2>5. {s \in Steps : s < cur_step' \/ s >= max} = Steps \ W
    <3>1. \A s \in Steps : (s < cur_step' \/ s >= max) <=>
              ~(s >= cur_step' /\ s < max /\ s # reading')
      BY <2>1, <2>3, <1>0, <1>a
    <3>. QED
      BY <3>1
  <2>6. Ledger!Start
    BY <2>1, <2>2, <2>4, <2>5 DEF Ledger!Start
  <2>. QED
    BY <2>6 DEF Ledger!Next
<1>5. CASE ReadStep
  <2>1. /\ up /\ up' = up /\ reading = Idle /\ reading' = cur_step /\ cur_step' = cur_step
        /\ archive' = archive /\ cur_step < max
    BY <1>2, <1>0, <1>5 DEF ReadStep, AtEnd
  <2>2. PICK n \in Steps : n = cur_step
    BY <1>0, <1>2, <2>1
  <2>3. Ledger!Take(n)
    BY <1>0, <2>1, <2>2 DEF Ledger!Take
  <2>4. \E s \in Steps : Ledger!Take(s) \/ Ledger!Finish(s)
    BY <2>2, <2>3
  <2>. QED
    BY <2>4 DEF Ledger!Next
<1>6. CASE Return
  <2>1. /\ up /\ up' = up /\ reading = cur_step /\ reading' = Idle /\ cur_step' = cur_step + 1
        /\ archive' = archive /\ cur_step < max /\ reading # Idle
    BY <1>6 DEF CounterInv, Return
  <2>2. PICK n \in Steps : n = cur_step
    BY <1>0, <1>2, <2>1
  <2>3. {s \in Steps : s < cur_step + 1 \/ s >= max}
           = {s \in Steps : s < cur_step \/ s >= max} \cup {n}
    <3>1. \A s \in Steps : (s < cur_step + 1 \/ s >= max) <=>
              (s < cur_step \/ s >= max \/ s = n)
      BY <1>0, <1>2, <2>2
    <3>. QED
      BY <3>1, <2>2
  <2>4. {s \in Steps : s >= cur_step + 1 /\ s < max /\ s # Idle}
           = {s \in Steps : s >= cur_step /\ s < max /\ s # n}
    <3>1. \A s \in Steps : (s >= cur_step + 1 /\ s < max /\ s # Idle) <=>
              (s >= cur_step /\ s < max /\ s # n)
      BY <1>0, <1>2, <1>a, <2>2
    <3>. QED
      BY <3>1
  <2>5. Ledger!Finish(n)
    BY <2>1, <2>2, <2>3, <2>4 DEF Ledger!Finish
  <2>6. \E s \in Steps : Ledger!Take(s) \/ Ledger!Finish(s)
    BY <2>2, <2>5
  <2>. QED
    BY <2>6 DEF Ledger!Next
<1>7. CASE Save
  <2>1. /\ up /\ up' = up /\ reading = Idle /\ reading' = reading /\ cur_step' = cur_step
        /\ archive' = cur_step
    BY <1>7 DEF Save
  <2>2. archive' # NoArchive
    BY <1>0, <1>2, <2>1
  <2>3. Ledger!Save
    BY <2>1, <2>2 DEF Ledger!Save
  <2>. QED
    BY <2>3 DEF Ledger!Next
<1>8. CASE Crash
  <2>1. up /\ up' = FALSE /\ reading' = Idle /\ archive' = archive
    BY <1>8 DEF Crash
  <2>2. Ledger!Crash
    BY <2>1 DEF Ledger!Crash
  <2>. QED
    BY <2>2 DEF Ledger!Next
<1>9. CASE Restore
  <2>1. /\ ~up /\ up' = TRUE /\ reading = Idle /\ reading' = reading /\ cur_step' = archive
        /\ archive' = archive /\ archive # NoArchive
    BY <1>9 DEF CounterInv, Restore
  <2>2. {s \in Steps : s >= archive /\ s < max /\ s # Idle}
           = Steps \ {s \in Steps : s < archive \/ s >= max}
    <3>1. \A s \in Steps : (s >= archive /\ s < max /\ s # Idle) <=>
              ~(s < archive \/ s >= max)
      BY <1>0, <1>2, <1>a, <2>1
    <3>. QED
      BY <3>1
  <2>3. Ledger!Recover
    BY <1>3, <2>1, <2>2 DEF Ledger!Recover
  <2>. QED
    BY <2>3 DEF Ledger!Next
<1>. QED
  BY <1>4, <1>5, <1>6, <1>7, <1>8, <1>9 DEF WalkStep

LEMMA LedgerNext == CounterInv /\ [WalkNext]_allVars => [Ledger!Next]_Ledger!vars
<1>. SUFFICES ASSUME CounterInv, [WalkNext]_allVars PROVE [Ledger!Next]_Ledger!vars
  OBVIOUS
<1>1. CASE WalkStep /\ UNCHANGED <<vars, vectorVars>>
  BY <1>1, LedgerStep DEF vars, generator
<1>2. CASE UNCHANGED <<max, walk>>
  BY <1>2 DEF walk, Ledger!vars
<1>3. [Next]_vars => UNCHANGED max
  BY DEF Next, Claim, Answer, vars, generator
<1>. QED
  BY <1>1, <1>2, <1>3 DEF WalkNext, DrawVector, allVars, vars, generator

\* The counter of list_intervals_random implements the ledger of the walk for
\* every size, first step and number of crashes: saving _cur_step saves all that
\* was finished, and restore_state() hands out all of the rest.
THEOREM WalkKeepsLedger == WalkSpec => WalkImplementsLedger
  BY CounterAlways, LedgerInit, LedgerNext, PTL DEF WalkSpec, WalkImplementsLedger, Ledger!Spec

------------------------------------------------------------------------------
(* The ranks. *)

LEMMA StepPosition ==
    ASSUME TypeOK, NoOverflow, NEW p \in 0 .. max - 1, NEW s \in 0 .. max - 1
    PROVE  /\ ((p + s) % Word) % max \in 0 .. max - 1
           /\ ((p + s) % Word) % max = IF p + s < max THEN p + s ELSE p + s - max
<1>1. max \in Nat \ {0} /\ Word \in Nat \ {0} /\ 2 * max <= Word
  BY MaxFacts
<1>2. (p + s) % Word = p + s
  BY <1>1, ModSmall
<1>3. ((p + s) % Word) % max = IF p + s < max THEN p + s ELSE p + s - max
  BY <1>1, <1>2, ModTwice
<1>. QED
  BY <1>1, <1>3

\* Different steps from the same position have different ranks.
LEMMA GetStepFacts ==
    ASSUME TypeOK, NoOverflow,
           NEW p \in 0 .. max - 1, NEW s \in 0 .. max - 1, NEW t \in 0 .. max - 1
    PROVE  /\ GetStep(p, s) \in 0 .. max - 1
           /\ GetStep(p, s) = GetStep(p, t) => s = t
<1>. DEFINE a == ((p + s) % Word) % max
            b == ((p + t) % Word) % max
<1>1. a \in 0 .. max - 1 /\ a = IF p + s < max THEN p + s ELSE p + s - max
  BY StepPosition
<1>2. b \in 0 .. max - 1 /\ b = IF p + t < max THEN p + t ELSE p + t - max
  BY StepPosition
<1>3. GetStep(p, s) = Permuted(a) /\ GetStep(p, t) = Permuted(b)
  BY DEF GetStep
<1>4. a = b => s = t
  <2>. HIDE DEF a, b
  <2>. QED
    BY <1>1, <1>2, MaxFacts
<1>. HIDE DEF a, b
<1>5. Permuted(a) \in 0 .. max - 1
  BY <1>1, PermutedType
<1>6. Permuted(a) = Permuted(b) => a = b
  BY <1>1, <1>2, PermutedInjective
<1>. QED
  BY <1>3, <1>4, <1>5, <1>6

\* The ranks of the steps from f to below w.
Ranks(f, w) == {GetStep(cur_pos, s) : s \in f .. w - 1}

LEMMA RanksCount ==
    ASSUME TypeOK, NoOverflow, cur_pos \in 0 .. max - 1, NEW f \in 0 .. max
    PROVE  Cardinality(Ranks(f, max)) = max - f /\ Ranks(f, max) \subseteq 0 .. max - 1
<1>0. max \in Nat \ {0}
  BY MaxFacts
<1>. DEFINE S == f .. max - 1
            T == Ranks(f, max)
            g == [s \in S |-> GetStep(cur_pos, s)]
<1>1. S \subseteq 0 .. max - 1
  BY <1>0
<1>2. PICK p \in 0 .. max - 1 : p = cur_pos
  OBVIOUS
<1>3. \A s, t \in S : GetStep(p, s) \in 0 .. max - 1 /\ (GetStep(p, s) = GetStep(p, t) => s = t)
  BY <1>1, GetStepFacts
<1>4. T = {GetStep(p, s) : s \in S}
  BY <1>2 DEF Ranks
<1>5. g = [s \in S |-> GetStep(p, s)]
  BY <1>2
<1>6. g \in Bijection(S, T)
  BY <1>3, <1>4, <1>5 DEF Bijection, Injection, Surjection, IsInjective
<1>7. IsFiniteSet(S) /\ Cardinality(S) = max - f
  BY <1>0, FS_Interval
<1>8. Cardinality(T) = Cardinality(S)
  BY <1>6, <1>7, FS_Bijection DEF ExistsBijection
<1>9. T \subseteq 0 .. max - 1
  BY <1>3, <1>4
<1>. QED
  BY <1>7, <1>8, <1>9

\* The walk returned the ranks of all steps from its first one up to some w, and
\* neither the counter nor a saved counter is beyond w or before the first step.
WalkedInv ==
    /\ cur_pos \in 0 .. max - 1
    /\ first \in 0 .. max
    /\ \E w \in first .. max :
         /\ walked = Ranks(first, w)
         /\ up => cur_step \in first .. w
         /\ archive # NoArchive => archive \in first .. w

\* Only a generator that is used for a walk has one.
WalkInv == IF use = "walk" THEN WalkedInv ELSE ~up

LEMMA RanksInit ==
    ASSUME WalkInit, TypeOK
    PROVE  WalkInv
<1>1. max \in Nat \ {0} /\ cur_pos \in 0 .. max - 1
  BY UniAssumption DEF WalkInit, Init
<1>2. up = FALSE /\ archive = NoArchive /\ first = 0 /\ walked = {}
  BY DEF WalkInit
<1>3. Ranks(0, 0) = {}
  BY DEF Ranks
<1>4. 0 \in 0 .. max
  BY <1>1
<1>. QED
  BY <1>1, <1>2, <1>3, <1>4 DEF WalkInv, WalkedInv

LEMMA RanksSame ==
    ASSUME UNCHANGED vars, NEW f, NEW w
    PROVE  Ranks(f, w)' = Ranks(f, w)
  BY DEF vars, generator, Ranks, GetStep, Permuted

LEMMA RanksNext ==
    ASSUME TypeOK, CounterInv, WalkedInv, WalkStep, UNCHANGED vars
    PROVE  WalkedInv'
<1>1. max' = max /\ cur_pos' = cur_pos
  BY DEF vars, generator
<1>2. max \in Nat \ {0} /\ NoArchive \notin Nat
  BY MaxFacts, WalkAssumption
<1>3. cur_pos \in 0 .. max - 1 /\ first \in 0 .. max
  BY DEF WalkedInv
<1>4. PICK w \in first .. max :
        /\ walked = Ranks(first, w)
        /\ up => cur_step \in first .. w
        /\ archive # NoArchive => archive \in first .. w
  BY DEF WalkedInv
<1>5. PICK f \in 0 .. max : f = first
  BY <1>3
<1>6. CASE StartWalk
  <2>1. archive = NoArchive /\ archive' = archive /\ walked' = {}
    BY <1>6 DEF StartWalk
  <2>2. PICK n \in 0 .. max : cur_step' = n /\ first' = n
    BY <1>6 DEF StartWalk
  <2>3. Ranks(n, n)' = {}
    BY <1>2, <2>2 DEF Ranks
  <2>4. n \in n .. max /\ n \in n .. n
    BY <1>2, <2>2
  <2>. QED
    BY <1>1, <1>3, <2>1, <2>2, <2>3, <2>4 DEF WalkedInv
<1>7. CASE Return
  <2>1. /\ up /\ up' = up /\ reading = cur_step /\ cur_step < max /\ cur_step' = cur_step + 1
        /\ walked' = walked \cup {GetStep(cur_pos, cur_step)}
        /\ archive' = archive /\ first' = first
    BY <1>7 DEF CounterInv, Return
  <2>. DEFINE v == IF cur_step + 1 > w THEN cur_step + 1 ELSE w
  <2>2. PICK u \in first .. max : u = v
    BY <1>2, <1>3, <1>4, <2>1
  <2>3. first .. u - 1 = (first .. w - 1) \cup {cur_step}
    BY <1>2, <1>3, <1>4, <2>1, <2>2
  <2>4. Ranks(first, u) = Ranks(first, w) \cup {GetStep(cur_pos, cur_step)}
    BY <2>3 DEF Ranks
  <2>5. Ranks(f, u)' = Ranks(f, u)
    BY RanksSame
  <2>6. walked' = Ranks(first, u)'
    BY <1>4, <1>5, <2>1, <2>4, <2>5
  <2>7. cur_step' \in first .. u /\ (archive # NoArchive => archive \in first .. u)
    BY <1>2, <1>3, <1>4, <2>1, <2>2
  <2>. QED
    BY <1>1, <1>3, <2>1, <2>2, <2>6, <2>7 DEF WalkedInv
<1>8. CASE ReadStep \/ Save \/ Crash \/ Restore
  <2>1. first' = first /\ walked' = walked
    BY <1>8 DEF ReadStep, Save, Crash, Restore
  <2>2. /\ up' => cur_step' \in first .. w
        /\ archive' # NoArchive => archive' \in first .. w
    BY <1>4, <1>8 DEF ReadStep, Save, Crash, Restore
  <2>3. Ranks(f, w)' = Ranks(f, w)
    BY RanksSame
  <2>4. walked' = Ranks(first, w)'
    BY <1>4, <1>5, <2>1, <2>3
  <2>. QED
    BY <1>1, <1>3, <1>4, <2>1, <2>2, <2>4 DEF WalkedInv
<1>. QED
  BY <1>6, <1>7, <1>8 DEF WalkStep

LEMMA WalkInvNext ==
    ASSUME TypeOK, CounterInv, WalkInv, [WalkNext]_allVars
    PROVE  WalkInv'
<1>1. CASE use = "walk" /\ WalkStep /\ UNCHANGED <<use, vars, vectorVars>>
  BY <1>1, RanksNext DEF WalkInv
<1>2. CASE use # "walk" /\ UNCHANGED <<use, walk>>
  BY <1>2 DEF WalkInv, walk
<1>3. CASE use = "walk" /\ UNCHANGED <<use, vars, walk>>
  <2>1. WalkedInv
    BY <1>3 DEF WalkInv
  <2>2. PICK w \in first .. max :
          /\ walked = Ranks(first, w)
          /\ up => cur_step \in first .. w
          /\ archive # NoArchive => archive \in first .. w
    BY <2>1 DEF WalkedInv
  <2>3. PICK f : f = first
    OBVIOUS
  <2>4. Ranks(f, w)' = Ranks(f, w)
    BY <1>3, RanksSame
  <2>5. WalkedInv'
    BY <1>3, <2>1, <2>2, <2>3, <2>4 DEF WalkedInv, walk, vars, generator
  <2>. QED
    BY <1>3, <2>5 DEF WalkInv
<1>. QED
  BY <1>1, <1>2, <1>3 DEF WalkNext, allVars

\* A whole walk returns every rank of the list, whatever crashes and restores are
\* on the way (list_intervals_random: operator(), end(), save_state() and
\* restore_state()).
THEOREM WalkMissesNothing == NoOverflow => (WalkSpec => []WalkCoversList)
<1>. SUFFICES ASSUME NoOverflow PROVE WalkSpec => []WalkCoversList
  OBVIOUS
<1>1. Spec => []TypeOK
  <2>1. IInv => TypeOK
    BY DEF IInv
  <2>. QED
    BY <2>1, Inductive, PTL
<1>2. WalkInit /\ TypeOK => WalkInv
  BY RanksInit
<1>3. TypeOK /\ CounterInv /\ WalkInv /\ [WalkNext]_allVars => WalkInv'
  BY WalkInvNext
<1>4. TypeOK /\ CounterInv /\ WalkInv => WalkCoversList
  <2>. SUFFICES ASSUME TypeOK, CounterInv, WalkInv, up, AtEnd
                PROVE  Cardinality(walked) = max - first /\ walked \subseteq 0 .. max - 1
    BY DEF WalkCoversList
  <2>1. WalkedInv
    BY DEF WalkInv
  <2>2. cur_pos \in 0 .. max - 1 /\ first \in 0 .. max /\ max \in Nat
    BY <2>1, MaxFacts DEF WalkedInv
  <2>3. PICK w \in first .. max : walked = Ranks(first, w) /\ cur_step \in first .. w
    BY <2>1 DEF WalkedInv
  <2>4. w = max
    BY <2>2, <2>3 DEF AtEnd
  <2>. QED
    BY <2>2, <2>3, <2>4, RanksCount
<1>. QED
  BY <1>1, <1>2, <1>3, <1>4, WalkIsUni, CounterAlways, PTL DEF WalkSpec
=============================================================================
