-------------------------- MODULE RandomSetsProofs --------------------------
(****************************************************************************)
(* random_sets() hands every value over once, in sets that fit the buffer,  *)
(* for every size of the list and of the sets and every answer of the       *)
(* callback, with a generator that permutes its positions.                  *)
(****************************************************************************)
EXTENDS RandomSets, FiniteSetTheorems, WellFoundedInduction, TLAPS

(* The inductive invariant. *)

\* The numbers of a call.
CountsInv ==
    /\ gen.max \in Maxes /\ gen.max \in Nat /\ gen.max > 3
    /\ gen.prime \in Nat /\ gen.max <= gen.prime /\ gen.prime < Word
    /\ cur_step \in 0 .. gen.prime - 1
    /\ version \in {"fixed", "asked"}
    /\ size \in Nat /\ (version = "fixed" => size > 0)
    /\ i \in 0 .. gen.max /\ want \in 0 .. gen.max
    /\ pc \in {"next", "fill", "done", "broke"}
    /\ pc = "fill" => i + want <= gen.max /\ want <= size

\* Sets of one size end with full sets, and then with the rest.
FixedInv ==
    version = "fixed" =>
        /\ pc # "fill" => i = gen.max \/ \E q \in Nat : i = q * size /\ i <= Full
        /\ pc = "fill" => \/ i + want = gen.max
                          \/ \E q \in Nat : i + want = q * size /\ i + want <= Full

In(s, v) == \E j \in 1 .. Len(s) : \E x \in 1 .. Len(s[j]) : s[j][x] = v

OneEach(s) ==
    \A j, k \in 1 .. Len(s) :
        \A x \in 1 .. Len(s[j]), y \in 1 .. Len(s[k]) : s[j][x] = s[k][y] => j = k /\ x = y

BufferInv ==
    /\ buf \in Seq(Rank) /\ sets \in Seq(Seq(Rank))
    /\ pc = "fill" => Len(buf) <= want
    /\ pc # "fill" => buf = <<>>
    /\ OneEach(Append(sets, buf))

\* The values of the first n positions.
DrawnUpto(n) == {v \in Rank : \E p \in 0 .. n - 1 : GetStep(p) = v}

\* The values handed over or in the buffer are those of the positions passed; the
\* generator is back at its first position when it passed the last one.
DrawnInv ==
    \E n \in 0 .. gen.prime :
        /\ n = cur_step \/ (n = gen.prime /\ cur_step = 0)
        /\ \A v \in Rank : In(Append(sets, buf), v) <=> v \in DrawnUpto(n)
        /\ Cardinality(DrawnUpto(n)) = i + Len(buf)

IInv == CountsInv /\ FixedInv /\ BufferInv /\ DrawnInv

------------------------------------------------------------------------------
(* The values of a list of sets. *)

LEMMA AppendIs ==
    ASSUME NEW X, NEW s \in Seq(X), NEW e \in X
    PROVE  /\ Append(s, e) \in Seq(X) /\ Len(s) \in Nat /\ Len(Append(s, e)) = Len(s) + 1
           /\ Append(s, e)[Len(s) + 1] = e
           /\ \A k \in 1 .. Len(s) : Append(s, e)[k] = s[k]
           /\ \A k \in 1 .. Len(s) + 1 : k \in 1 .. Len(s) \/ k = Len(s) + 1
           /\ Len(s) + 1 \in 1 .. Len(s) + 1
           /\ \A k \in 1 .. Len(s) : k \in 1 .. Len(s) + 1 /\ k # Len(s) + 1
  OBVIOUS

\* A value of a list of sets is in one of the first sets or in the last.
LEMMA InLast ==
    ASSUME NEW X, NEW s \in Seq(Seq(X)), NEW b \in Seq(X), NEW v
    PROVE  In(Append(s, b), v) <=> In(s, v) \/ \E x \in 1 .. Len(b) : b[x] = v
<1>. PICK t : t = Append(s, b)
  OBVIOUS
<1>1. /\ Len(t) = Len(s) + 1 /\ t[Len(s) + 1] = b
      /\ \A k \in 1 .. Len(s) : t[k] = s[k] /\ k \in 1 .. Len(t)
      /\ \A k \in 1 .. Len(t) : k \in 1 .. Len(s) \/ k = Len(s) + 1
      /\ Len(s) + 1 \in 1 .. Len(t)
  BY AppendIs
<1>2. In(t, v) => In(s, v) \/ \E x \in 1 .. Len(b) : b[x] = v
  <2>. SUFFICES ASSUME NEW j \in 1 .. Len(t), NEW x \in 1 .. Len(t[j]), t[j][x] = v
                PROVE  In(s, v) \/ \E y \in 1 .. Len(b) : b[y] = v
    BY DEF In
  <2>1. CASE j \in 1 .. Len(s)
    BY <1>1, <2>1 DEF In
  <2>2. CASE j = Len(s) + 1
    BY <1>1, <2>2
  <2>. QED
    BY <1>1, <2>1, <2>2
<1>3. In(s, v) => In(t, v)
  BY <1>1 DEF In
<1>4. (\E x \in 1 .. Len(b) : b[x] = v) => In(t, v)
  BY <1>1 DEF In
<1>. QED
  BY <1>2, <1>3, <1>4

\* A list of sets holds every value once if its first sets do, the last one does,
\* and they share none.
LEMMA OneEachLast ==
    ASSUME NEW X, NEW s \in Seq(Seq(X)), NEW b \in Seq(X)
    PROVE  OneEach(Append(s, b)) <=>
             /\ OneEach(s)
             /\ \A x, y \in 1 .. Len(b) : b[x] = b[y] => x = y
             /\ \A x \in 1 .. Len(b) : ~In(s, b[x])
<1>. PICK t : t = Append(s, b)
  OBVIOUS
<1>. PICK n : n = Len(s) + 1
  OBVIOUS
<1>1. /\ t[n] = b /\ n \in 1 .. Len(t)
      /\ \A k \in 1 .. Len(s) : t[k] = s[k] /\ k \in 1 .. Len(t) /\ k # n
      /\ \A k \in 1 .. Len(t) : k \in 1 .. Len(s) \/ k = n
  BY AppendIs
<1>2. ASSUME OneEach(t) PROVE OneEach(s)
  BY <1>1, <1>2 DEF OneEach
<1>3. ASSUME OneEach(t), NEW x \in 1 .. Len(b), NEW y \in 1 .. Len(b), b[x] = b[y] PROVE x = y
  <2>1. x \in 1 .. Len(t[n]) /\ y \in 1 .. Len(t[n]) /\ t[n][x] = t[n][y]
    BY <1>1, <1>3
  <2>2. \A p, q \in 1 .. Len(t[n]) : t[n][p] = t[n][q] => p = q
    BY <1>1, <1>3 DEF OneEach
  <2>. QED
    BY <2>1, <2>2
<1>4. ASSUME OneEach(t), NEW x \in 1 .. Len(b) PROVE ~In(s, b[x])
  <2>. SUFFICES ASSUME NEW j \in 1 .. Len(s), NEW y \in 1 .. Len(s[j]), s[j][y] = b[x] PROVE FALSE
    BY DEF In
  <2>1. /\ j \in 1 .. Len(t) /\ y \in 1 .. Len(t[j]) /\ x \in 1 .. Len(t[n])
        /\ t[j][y] = t[n][x] /\ j # n
    BY <1>1, <1>4
  <2>2. \A q \in 1 .. Len(t[j]), p \in 1 .. Len(t[n]) : t[j][q] = t[n][p] => j = n
    BY <1>1, <1>4, <2>1, SMTT(30) DEF OneEach
  <2>. QED
    BY <2>1, <2>2
<1>5. ASSUME OneEach(s), \A x, y \in 1 .. Len(b) : b[x] = b[y] => x = y,
             \A x \in 1 .. Len(b) : ~In(s, b[x])
      PROVE  OneEach(t)
  <2>. SUFFICES ASSUME NEW j \in 1 .. Len(t), NEW k \in 1 .. Len(t),
                       NEW x \in 1 .. Len(t[j]), NEW y \in 1 .. Len(t[k]), t[j][x] = t[k][y]
                PROVE  j = k /\ x = y
    BY DEF OneEach
  <2>1. CASE j \in 1 .. Len(s) /\ k \in 1 .. Len(s)
    BY <1>1, <1>5, <2>1 DEF OneEach
  <2>2. CASE j = n /\ k = n
    BY <1>1, <1>5, <2>2
  <2>3. CASE j \in 1 .. Len(s) /\ k = n
    <3>1. s[j][x] = b[y] /\ x \in 1 .. Len(s[j]) /\ y \in 1 .. Len(b)
      BY <1>1, <2>3
    <3>. QED
      BY <1>5, <2>3, <3>1 DEF In
  <2>4. CASE j = n /\ k \in 1 .. Len(s)
    <3>1. s[k][y] = b[x] /\ y \in 1 .. Len(s[k]) /\ x \in 1 .. Len(b)
      BY <1>1, <2>4
    <3>. QED
      BY <1>5, <2>4, <3>1 DEF In
  <2>. QED
    BY <1>1, <2>1, <2>2, <2>3, <2>4
<1>. QED
  BY <1>2, <1>3, <1>4, <1>5

\* A new value in the set that is filled.
LEMMA ValueAdded ==
    ASSUME NEW X, NEW s \in Seq(Seq(X)), NEW b \in Seq(X), NEW r \in X,
           OneEach(Append(s, b)), ~In(Append(s, b), r)
    PROVE  /\ OneEach(Append(s, Append(b, r)))
           /\ \A v : In(Append(s, Append(b, r)), v) <=> In(Append(s, b), v) \/ v = r
<1>0. ASSUME NEW e \in Seq(X)
      PROVE  /\ OneEach(Append(s, e)) <=>
                  /\ OneEach(s)
                  /\ \A x, y \in 1 .. Len(e) : e[x] = e[y] => x = y
                  /\ \A x \in 1 .. Len(e) : ~In(s, e[x])
             /\ \A v : In(Append(s, e), v) <=> In(s, v) \/ \E x \in 1 .. Len(e) : e[x] = v
  BY InLast, OneEachLast
<1>. PICK c \in Seq(X) : c = Append(b, r)
  BY AppendIs
<1>. PICK n : n = Len(b) + 1
  OBVIOUS
<1>1. /\ c \in Seq(X) /\ c[n] = r /\ n \in 1 .. Len(c)
      /\ \A k \in 1 .. Len(b) : c[k] = b[k] /\ k \in 1 .. Len(c)
      /\ \A k \in 1 .. Len(c) : k \in 1 .. Len(b) \/ k = n
  BY AppendIs
<1>2. /\ OneEach(s) /\ \A x, y \in 1 .. Len(b) : b[x] = b[y] => x = y
      /\ \A x \in 1 .. Len(b) : ~In(s, b[x])
  BY OneEachLast
<1>3. ~In(s, r) /\ ~(\E x \in 1 .. Len(b) : b[x] = r)
  BY InLast
<1>4. ASSUME NEW x \in 1 .. Len(c), NEW y \in 1 .. Len(c), c[x] = c[y] PROVE x = y
  <2>1. CASE x \in 1 .. Len(b) /\ y \in 1 .. Len(b)
    BY <1>1, <1>2, <1>4, <2>1
  <2>2. CASE x = n /\ y \in 1 .. Len(b)
    BY <1>1, <1>3, <1>4, <2>2
  <2>3. CASE x \in 1 .. Len(b) /\ y = n
    BY <1>1, <1>3, <1>4, <2>3
  <2>. QED
    BY <1>1, <2>1, <2>2, <2>3
<1>5. \A x \in 1 .. Len(c) : ~In(s, c[x])
  BY <1>1, <1>2, <1>3
<1>6. OneEach(Append(s, c))
  <2>1. \A x, y \in 1 .. Len(c) : c[x] = c[y] => x = y
    BY <1>4
  <2>2. OneEach(Append(s, c)) <=>
          /\ OneEach(s)
          /\ \A x, y \in 1 .. Len(c) : c[x] = c[y] => x = y
          /\ \A x \in 1 .. Len(c) : ~In(s, c[x])
    BY <1>0
  <2>. QED
    BY <1>2, <1>5, <2>1, <2>2
<1>7. ASSUME NEW v PROVE In(Append(s, c), v) <=> In(Append(s, b), v) \/ v = r
  <2>1. In(Append(s, c), v) <=> In(s, v) \/ \E x \in 1 .. Len(c) : c[x] = v
    BY <1>0
  <2>2. In(Append(s, b), v) <=> In(s, v) \/ \E x \in 1 .. Len(b) : b[x] = v
    BY InLast
  <2>3. (\E x \in 1 .. Len(c) : c[x] = v) <=> (\E x \in 1 .. Len(b) : b[x] = v) \/ v = r
    BY <1>1
  <2>. QED
    BY <2>1, <2>2, <2>3
<1>. QED
  BY <1>6, <1>7

\* A new set.
LEMMA SetAdded ==
    ASSUME NEW X, NEW s \in Seq(Seq(X))
    PROVE  /\ OneEach(s) => OneEach(Append(s, <<>>))
           /\ \A v : In(Append(s, <<>>), v) <=> In(s, v)
<1>1. <<>> \in Seq(X) /\ \A x : x \notin 1 .. Len(<<>>)
  OBVIOUS
<1>2. PICK b \in Seq(X) : b = <<>> /\ \A x : x \notin 1 .. Len(b)
  BY <1>1
<1>3. OneEach(s) => OneEach(Append(s, b))
  BY <1>2, OneEachLast
<1>4. \A v : In(Append(s, b), v) <=> In(s, v)
  BY <1>2, InLast
<1>. QED
  BY <1>2, <1>3, <1>4

------------------------------------------------------------------------------
(* The generator. *)

LEMMA LeastNumber ==
    ASSUME NEW T \in SUBSET Nat, T # {}
    PROVE  \E x \in T : \A y \in T : x <= y
<1>1. PICK x \in T : \A y \in T : ~(<<y, x>> \in OpToRel(<, Nat))
  BY NatLessThanWellFounded, WFMin
<1>2. \A y \in T : ~(y < x)
  BY <1>1 DEF OpToRel
<1>. QED
  BY <1>2

\* The prime of a size is not below it.
LEMMA PrimeFacts ==
    ASSUME NEW m \in Maxes
    PROVE  m \in Nat /\ m > 3 /\ NextPrime(m) \in Nat /\ m <= NextPrime(m) /\ NextPrime(m) < Word
<1>1. m \in Nat /\ m > 3 /\ NextPrimes(m) # {} /\ NextPrime(m) < Word
  BY UprngAssumption
<1>2. NextPrimes(m) \in SUBSET Nat /\ \A p \in NextPrimes(m) : p \in Nat /\ m <= p
  BY <1>1 DEF NextPrimes
<1>3. \E p \in NextPrimes(m) : \A q \in NextPrimes(m) : p <= q
  BY <1>1, <1>2, LeastNumber
<1>4. NextPrime(m) \in NextPrimes(m)
  BY <1>3 DEF NextPrime
<1>. QED
  BY <1>1, <1>2, <1>4

\* A generator that permutes its positions gives no value twice, and each one.
LEMMA Permutation ==
    ASSUME gen.prime \in Nat, GetStepPermutes
    PROVE  /\ \A p \in 0 .. gen.prime - 1 : GetStep(p) \in 0 .. gen.prime - 1
           /\ \A p, q \in 0 .. gen.prime - 1 : GetStep(p) = GetStep(q) => p = q
           /\ \A v \in 0 .. gen.prime - 1 : \E p \in 0 .. gen.prime - 1 : GetStep(p) = v
<1>. DEFINE S == 0 .. gen.prime - 1
            f == [p \in S |-> GetStep(p)]
<1>1. {GetStep(p) : p \in S} = S
  BY DEF GetStepPermutes
<1>2. f \in Surjection(S, S)
  BY <1>1 DEF Surjection
<1>3. IsFiniteSet(S)
  BY FS_Interval
<1>4. f \in Injection(S, S)
  BY <1>2, <1>3, FS_SurjSameCardinalityImpliesInj
<1>5. \A p, q \in S : f[p] = f[q] => p = q
  BY <1>4 DEF Injection, IsInjective
<1>. QED
  BY <1>1, <1>5

\* The draws of one more position.
LEMMA NextDraw ==
    ASSUME CountsInv, GetStepPermutes, NEW n \in 0 .. gen.prime - 1
    PROVE  /\ GetStep(n) \in Nat /\ GetStep(n) \notin DrawnUpto(n)
           /\ DrawnUpto(n + 1) = IF GetStep(n) < gen.max THEN DrawnUpto(n) \cup {GetStep(n)}
                                                         ELSE DrawnUpto(n)
           /\ GetStep(n) < gen.max => GetStep(n) \in Rank
<1>1. gen.prime \in Nat /\ gen.max \in Nat /\ n \in Nat /\ n \in 0 .. (n + 1) - 1
  BY DEF CountsInv
<1>2. PICK r : r = GetStep(n)
  OBVIOUS
<1>3. r \in Nat /\ \A p \in 0 .. gen.prime - 1 : GetStep(p) = r => p = n
  BY <1>1, <1>2, Permutation
<1>4. r \notin DrawnUpto(n)
  <2>. SUFFICES ASSUME NEW p \in 0 .. n - 1, GetStep(p) = r PROVE FALSE
    BY DEF DrawnUpto
  <2>1. p \in 0 .. gen.prime - 1 /\ p # n
    BY <1>1
  <2>. QED
    BY <1>3, <2>1
<1>5. r < gen.max => r \in Rank
  BY <1>1, <1>3 DEF Rank
<1>6. r \in Rank => r < gen.max
  BY <1>1, <1>3 DEF Rank
<1>7. \A p : p \in 0 .. (n + 1) - 1 <=> p \in 0 .. n - 1 \/ p = n
  BY <1>1
<1>8. \A v \in Rank : v \in DrawnUpto(n + 1) <=> v \in DrawnUpto(n) \/ v = r
  BY <1>2, <1>7 DEF DrawnUpto
<1>9. DrawnUpto(n) \subseteq Rank /\ DrawnUpto(n + 1) \subseteq Rank
  BY DEF DrawnUpto
<1>10. r < gen.max => DrawnUpto(n + 1) = DrawnUpto(n) \cup {r}
  BY <1>5, <1>8, <1>9
<1>11. ~(r < gen.max) => DrawnUpto(n + 1) = DrawnUpto(n)
  BY <1>6, <1>8, <1>9
<1>. QED
  BY <1>2, <1>3, <1>4, <1>5, <1>10, <1>11

\* The positions of a whole cycle give every value.
LEMMA WholeCycle ==
    ASSUME CountsInv, GetStepPermutes
    PROVE  /\ DrawnUpto(gen.prime) = Rank /\ DrawnUpto(0) = {}
           /\ IsFiniteSet(Rank) /\ Cardinality(Rank) = gen.max
           /\ \A n : IsFiniteSet(DrawnUpto(n)) /\ DrawnUpto(n) \in SUBSET Rank
<1>1. gen.prime \in Nat /\ gen.max \in Nat /\ gen.max <= gen.prime
  BY DEF CountsInv
<1>2. \A v \in Rank : v \in 0 .. gen.prime - 1
  BY <1>1 DEF Rank
<1>3. DrawnUpto(gen.prime) = Rank
  BY <1>1, <1>2, Permutation DEF DrawnUpto
<1>4. DrawnUpto(0) = {}
  BY DEF DrawnUpto
<1>5. IsFiniteSet(Rank) /\ Cardinality(Rank) = gen.max
  <2>1. 0 \in Int /\ gen.max - 1 \in Int
    BY <1>1
  <2>2. /\ IsFiniteSet(0 .. gen.max - 1)
        /\ Cardinality(0 .. gen.max - 1) = IF 0 > gen.max - 1 THEN 0 ELSE (gen.max - 1) - 0 + 1
    BY <2>1, FS_Interval
  <2>. QED
    BY <1>1, <2>2 DEF Rank
<1>6. ASSUME NEW n PROVE IsFiniteSet(DrawnUpto(n)) /\ DrawnUpto(n) \in SUBSET Rank
  <2>1. DrawnUpto(n) \in SUBSET Rank
    BY DEF DrawnUpto
  <2>. QED
    BY <1>5, <2>1, FS_Subset
<1>. QED
  BY <1>3, <1>4, <1>5, <1>6

\* What the generator gives does not change while it is used.
LEMMA SameGenerator ==
    ASSUME gen' = gen
    PROVE  /\ Rank' = Rank /\ Full' = (gen.max \div size') * size'
           /\ \A n : DrawnUpto(n)' = DrawnUpto(n)
           /\ GetStepPermutes' <=> GetStepPermutes
<1>1. Rank' = Rank
  BY DEF Rank
<1>2. \A p : GetStep(p)' = GetStep(p)
  BY DEF GetStep, Linear, Power
<1>. QED
  BY <1>1, <1>2 DEF DrawnUpto, GetStepPermutes, Full

------------------------------------------------------------------------------
(* The numbers of a call. *)

LEMMA Division ==
    ASSUME NEW a \in Nat, NEW n \in Nat \ {0}
    PROVE  /\ a \div n \in Nat /\ (a \div n) * n \in Nat /\ (a \div n) * n <= a
           /\ a - ((a \div n) * n) < n
<1>1. PICK q \in Nat : q = a \div n
  OBVIOUS
<1>2. PICK r \in 0 .. (n - 1) : r = a % n
  OBVIOUS
<1>3. a = (n * q) + r
  BY <1>1, <1>2
<1>4. n * q = q * n /\ n * q \in Nat
  OBVIOUS
<1>. QED
  BY <1>1, <1>2, <1>3, <1>4

LEMMA NextMultiple ==
    ASSUME NEW n \in Nat, NEW q \in Nat, NEW r \in Nat, q * n < r * n
    PROVE  (q * n) + n = (q + 1) * n /\ (q * n) + n <= r * n
<1>1. (q * n) + n = (q + 1) * n
  OBVIOUS
<1>2. CASE r <= q
  <2>1. PICK d \in Nat : q = r + d
    <3>1. q - r \in Nat /\ q = r + (q - r)
      BY <1>2
    <3>. QED
      BY <3>1
  <2>2. q * n = (r * n) + (d * n) /\ d * n \in Nat /\ r * n \in Nat
    BY <2>1
  <2>. QED
    BY <2>2
<1>3. CASE q < r
  <2>1. PICK d \in Nat : r = q + 1 + d
    <3>1. r - (q + 1) \in Nat /\ r = q + 1 + (r - (q + 1))
      BY <1>3
    <3>. QED
      BY <3>1
  <2>2. r * n = ((q + 1) * n) + (d * n) /\ d * n \in Nat /\ (q + 1) * n \in Nat
    BY <2>1
  <2>. QED
    BY <1>1, <2>2
<1>. QED
  BY <1>1, <1>2, <1>3

LEMMA CountsInit == Init => CountsInv /\ FixedInv
<1>. SUFFICES ASSUME Init PROVE CountsInv /\ FixedInv
  OBVIOUS
<1>1. PICK m \in Maxes : gen \in [max : {m}, prime : {NextPrime(m)}, a : 1 .. m - 1, b : 0 .. m - 1,
                                   c : PrimesWith(NextPrime(m) - 1), n : Rounds]
  BY DEF Init, UprngInit
<1>2. gen.max = m /\ gen.prime = NextPrime(m) /\ cur_step = 0
  BY <1>1 DEF Init, UprngInit
<1>3. /\ gen.max \in Maxes /\ gen.max \in Nat /\ gen.max > 3
      /\ gen.prime \in Nat /\ gen.max <= gen.prime /\ gen.prime < Word
      /\ cur_step \in 0 .. gen.prime - 1
  BY <1>1, <1>2, PrimeFacts
<1>4. \A s \in Sizes : s \in Nat
  BY SetsAssumption, UprngAssumption
<1>5. PICK s \in Sizes : /\ size = IF version = "fixed" /\ s = 0 THEN 1 ELSE s
                         /\ pc = IF version = "asked" /\ s = 0 THEN "broke" ELSE "next"
  BY DEF Init
<1>6. size \in Nat /\ (version = "fixed" => size > 0) /\ pc \in {"next", "broke"}
  BY <1>4, <1>5
<1>7. CountsInv
  BY <1>3, <1>6 DEF Init, CountsInv
<1>8. version = "fixed" => i = 0 * size /\ i <= Full
  BY <1>3, <1>6, Division DEF Init, Full
<1>. QED
  BY <1>6, <1>7, <1>8 DEF FixedInv

LEMMA CountsStep == CountsInv /\ FixedInv /\ [Next]_vars => (CountsInv /\ FixedInv)'
<1>. SUFFICES ASSUME CountsInv, FixedInv, [Next]_vars PROVE CountsInv' /\ FixedInv'
  OBVIOUS
<1>1. gen' = gen /\ version' = version /\ size' = size /\ Full' = Full
  BY DEF Next, FullSet, RestSet, AskedSet, AskedBreak, Draw, HandOver, Return, Fill, vars, uprng, Full
<1>2. CASE FullSet
  <2>1. PICK Q \in Nat : Q = gen.max \div size
    BY <1>2, Division DEF CountsInv, FullSet
  <2>2. Full = Q * size /\ Full \in Nat /\ Full <= gen.max
    BY <1>2, <2>1, Division DEF CountsInv, FullSet, Full
  <2>3. PICK q \in Nat : i = q * size
    BY <1>2, <2>2 DEF CountsInv, FixedInv, FullSet
  <2>4. i + size = (q + 1) * size /\ i + size <= Full
    <3>1. size \in Nat /\ q * size < Q * size
      BY <1>2, <2>2, <2>3 DEF CountsInv, FullSet
    <3>. QED
      BY <2>2, <2>3, <3>1, NextMultiple
  <2>5. i' = i /\ want' = size /\ pc' = "fill" /\ cur_step' = cur_step
    BY <1>2 DEF FullSet, Fill, uprng
  <2>6. i + size <= gen.max /\ size \in 0 .. gen.max
    BY <2>2, <2>4 DEF CountsInv
  <2>7. CountsInv'
    BY <1>1, <2>5, <2>6 DEF CountsInv
  <2>8. q + 1 \in Nat /\ i' + want' = (q + 1) * size' /\ i' + want' <= Full'
    BY <1>1, <2>4, <2>5
  <2>9. FixedInv'
    BY <2>5, <2>8 DEF FixedInv
  <2>. QED
    BY <2>7, <2>9
<1>3. CASE RestSet
  <2>1. Full \in Nat /\ Full <= gen.max /\ Rest < size
    <3>1. gen.max \in Nat /\ size \in Nat \ {0}
      BY <1>3 DEF CountsInv, RestSet
    <3>. QED
      BY <3>1, Division DEF Full, Rest
  <2>2. i' = i /\ want' = Rest /\ pc' = "fill" /\ cur_step' = cur_step /\ i = Full
    BY <1>3 DEF RestSet, Fill, uprng
  <2>3. Rest \in 0 .. gen.max /\ i + Rest = gen.max /\ Rest <= size
    BY <2>1, <2>2 DEF Rest, CountsInv
  <2>4. CountsInv'
    BY <1>1, <2>2, <2>3 DEF CountsInv
  <2>5. FixedInv'
    BY <1>1, <2>2, <2>3 DEF FixedInv
  <2>. QED
    BY <2>4, <2>5
<1>4. CASE AskedSet
  <2>1. PICK n \in Asked : Cut(n) <= size /\ Fill(Cut(n))
    BY <1>4 DEF AskedSet
  <2>2. n \in Nat
    BY SetsAssumption
  <2>3. Cut(n) \in 0 .. gen.max /\ i + Cut(n) <= gen.max
    BY <2>2 DEF Cut, CountsInv
  <2>4. i' = i /\ want' = Cut(n) /\ pc' = "fill" /\ cur_step' = cur_step /\ version # "fixed"
    BY <1>4, <2>1 DEF AskedSet, Fill, uprng
  <2>5. CountsInv'
    BY <1>1, <2>1, <2>3, <2>4 DEF CountsInv
  <2>. QED
    BY <1>1, <2>4, <2>5 DEF FixedInv
<1>5. CASE AskedBreak
  <2>1. i' = i /\ want' = want /\ pc' = "broke" /\ cur_step' = cur_step /\ version # "fixed"
    BY <1>5 DEF AskedBreak, uprng
  <2>. QED
    BY <1>1, <2>1 DEF CountsInv, FixedInv
<1>6. CASE Draw
  <2>1. i' = i /\ want' = want /\ pc' = pc /\ cur_step' = NextPosition
    BY <1>6 DEF Draw
  <2>2. NextPosition \in 0 .. gen.prime - 1
    BY UprngAssumption DEF NextPosition, CountsInv
  <2>. QED
    BY <1>1, <2>1, <2>2 DEF CountsInv, FixedInv
<1>7. CASE HandOver
  <2>1. i' = i + want /\ want' = want /\ pc' = "next" /\ cur_step' = cur_step /\ pc = "fill"
    BY <1>7 DEF HandOver, uprng
  <2>2. i + want \in 0 .. gen.max
    BY <2>1 DEF CountsInv
  <2>. QED
    BY <1>1, <2>1, <2>2 DEF CountsInv, FixedInv
<1>8. CASE Return
  <2>1. i' = i /\ want' = want /\ pc' = "done" /\ cur_step' = cur_step /\ pc = "next"
    BY <1>8 DEF Return, uprng
  <2>. QED
    BY <1>1, <2>1 DEF CountsInv, FixedInv
<1>9. CASE UNCHANGED vars
  BY <1>1, <1>9 DEF vars, uprng, CountsInv, FixedInv
<1>. QED
  BY <1>2, <1>3, <1>4, <1>5, <1>6, <1>7, <1>8, <1>9 DEF Next

\* A set, the rest and one whose size was asked for included, fits the buffer.
THEOREM SetsFit == Spec => []SetsFitTheBuffer
<1>1. Init => CountsInv /\ FixedInv
  BY CountsInit
<1>2. CountsInv /\ FixedInv /\ [Next]_vars => (CountsInv /\ FixedInv)'
  BY CountsStep
<1>3. CountsInv => SetsFitTheBuffer
  BY DEF CountsInv, SetsFitTheBuffer
<1>. QED
  BY <1>1, <1>2, <1>3, PTL DEF Spec

------------------------------------------------------------------------------
(* The values. *)

\* The invariants of the values, from their parts in the next state.
LEMMA ValuesNext ==
    ASSUME gen' = gen, NEW n \in 0 .. gen.prime, n = cur_step' \/ (n = gen.prime /\ cur_step' = 0),
           \A v \in Rank : In(Append(sets', buf'), v) <=> v \in DrawnUpto(n),
           Cardinality(DrawnUpto(n)) = i' + Len(buf'),
           buf' \in Seq(Rank), sets' \in Seq(Seq(Rank)), OneEach(Append(sets', buf')),
           pc' = "fill" => Len(buf') <= want', pc' # "fill" => buf' = <<>>
    PROVE  BufferInv' /\ DrawnInv'
<1>1. Rank' = Rank /\ DrawnUpto(n)' = DrawnUpto(n)
  BY SameGenerator
<1>2. BufferInv'
  BY <1>1 DEF BufferInv, OneEach
<1>3. DrawnInv'
  BY <1>1 DEF DrawnInv, In
<1>. QED
  BY <1>2, <1>3

LEMMA ValuesDrawn ==
    ASSUME CountsInv, BufferInv, DrawnInv, GetStepPermutes, Draw
    PROVE  BufferInv' /\ DrawnInv'
<1>1. /\ pc = "fill" /\ Len(buf) < want /\ gen' = gen /\ cur_step' = NextPosition
      /\ i' = i /\ want' = want /\ pc' = pc /\ sets' = sets
      /\ buf' = IF GetStep(cur_step) < gen.max THEN Append(buf, GetStep(cur_step)) ELSE buf
  BY DEF Draw
<1>2. /\ gen.max \in Nat /\ gen.prime \in Nat /\ gen.prime < Word /\ i \in Nat /\ want \in Nat
      /\ i + want <= gen.max /\ cur_step \in 0 .. gen.prime - 1
  BY <1>1 DEF CountsInv
<1>3. PICK n \in 0 .. gen.prime :
        /\ n = cur_step \/ (n = gen.prime /\ cur_step = 0)
        /\ \A v \in Rank : In(Append(sets, buf), v) <=> v \in DrawnUpto(n)
        /\ Cardinality(DrawnUpto(n)) = i + Len(buf)
  BY DEF DrawnInv
<1>4. Len(buf) \in Nat /\ buf \in Seq(Rank) /\ sets \in Seq(Seq(Rank)) /\ OneEach(Append(sets, buf))
  BY DEF BufferInv
<1>5. n # gen.prime
  <2>1. Cardinality(DrawnUpto(n)) < gen.max
    BY <1>1, <1>2, <1>3, <1>4
  <2>2. DrawnUpto(gen.prime) = Rank /\ Cardinality(Rank) = gen.max
    BY WholeCycle
  <2>. QED
    BY <1>2, <2>1, <2>2
<1>6. n = cur_step /\ n \in 0 .. gen.prime - 1
  BY <1>2, <1>3, <1>5
<1>7. PICK m : m = n + 1
  OBVIOUS
<1>8. m \in 0 .. gen.prime /\ (m = cur_step' \/ (m = gen.prime /\ cur_step' = 0))
  <2>1. (n + 1) % Word = n + 1
    BY <1>2, <1>6, UprngAssumption
  <2>. QED
    BY <1>1, <1>2, <1>6, <1>7, <2>1 DEF NextPosition
<1>9. PICK r : r = GetStep(n)
  OBVIOUS
<1>10. /\ r \in Nat /\ r \notin DrawnUpto(n)
       /\ DrawnUpto(m) = IF r < gen.max THEN DrawnUpto(n) \cup {r} ELSE DrawnUpto(n)
       /\ r < gen.max => r \in Rank
  BY <1>6, <1>7, <1>9, NextDraw
<1>11. buf' = IF r < gen.max THEN Append(buf, r) ELSE buf
  BY <1>1, <1>6, <1>9
<1>12. CASE r < gen.max
  <2>1. r \in Rank /\ ~In(Append(sets, buf), r) /\ buf' = Append(buf, r)
    BY <1>3, <1>10, <1>11, <1>12
  <2>2. /\ OneEach(Append(sets, Append(buf, r)))
        /\ \A v : In(Append(sets, Append(buf, r)), v) <=> In(Append(sets, buf), v) \/ v = r
    BY <1>4, <2>1, ValueAdded
  <2>3. Append(buf, r) \in Seq(Rank) /\ Len(Append(buf, r)) = Len(buf) + 1
    BY <1>4, <2>1
  <2>4. Cardinality(DrawnUpto(m)) = Cardinality(DrawnUpto(n)) + 1
    <3>1. IsFiniteSet(DrawnUpto(n)) /\ DrawnUpto(m) = DrawnUpto(n) \cup {r} /\ r \notin DrawnUpto(n)
      BY <1>10, <1>12, WholeCycle
    <3>. QED
      BY <3>1, FS_AddElement
  <2>5. \A v \in Rank : In(Append(sets', buf'), v) <=> v \in DrawnUpto(m)
    BY <1>1, <1>3, <1>10, <1>12, <2>1, <2>2
  <2>6. Cardinality(DrawnUpto(m)) = i' + Len(buf') /\ Len(buf') <= want'
    BY <1>1, <1>2, <1>3, <1>4, <2>1, <2>3, <2>4
  <2>7. buf' \in Seq(Rank) /\ sets' \in Seq(Seq(Rank)) /\ OneEach(Append(sets', buf'))
    BY <1>1, <1>4, <2>1, <2>2, <2>3
  <2>. QED
    BY <1>1, <1>8, <2>5, <2>6, <2>7, ValuesNext
<1>13. CASE ~(r < gen.max)
  <2>1. buf' = buf /\ DrawnUpto(m) = DrawnUpto(n) /\ Len(buf') <= want'
    BY <1>1, <1>2, <1>4, <1>10, <1>11, <1>13
  <2>2. /\ \A v \in Rank : In(Append(sets', buf'), v) <=> v \in DrawnUpto(m)
        /\ Cardinality(DrawnUpto(m)) = i' + Len(buf')
        /\ buf' \in Seq(Rank) /\ sets' \in Seq(Seq(Rank)) /\ OneEach(Append(sets', buf'))
    BY <1>1, <1>3, <1>4, <2>1
  <2>. QED
    BY <1>1, <1>8, <2>1, <2>2, ValuesNext
<1>. QED
  BY <1>12, <1>13

LEMMA ValuesHandedOver ==
    ASSUME CountsInv, BufferInv, DrawnInv, HandOver
    PROVE  BufferInv' /\ DrawnInv'
<1>1. /\ Len(buf) = want /\ gen' = gen /\ cur_step' = cur_step
      /\ i' = i + want /\ pc' = "next" /\ sets' = Append(sets, buf) /\ buf' = <<>>
  BY DEF HandOver, uprng
<1>2. gen.prime \in Nat /\ i \in Nat /\ want \in Nat
  BY DEF CountsInv
<1>3. buf \in Seq(Rank) /\ sets \in Seq(Seq(Rank)) /\ OneEach(Append(sets, buf))
  BY DEF BufferInv
<1>4. PICK n \in 0 .. gen.prime :
        /\ n = cur_step \/ (n = gen.prime /\ cur_step = 0)
        /\ \A v \in Rank : In(Append(sets, buf), v) <=> v \in DrawnUpto(n)
        /\ Cardinality(DrawnUpto(n)) = i + Len(buf)
  BY DEF DrawnInv
<1>5. PICK s \in Seq(Seq(Rank)) : s = Append(sets, buf)
  <2>1. Append(sets, buf) \in Seq(Seq(Rank))
    BY <1>3, AppendIs
  <2>. QED
    BY <2>1
<1>6. /\ OneEach(s) => OneEach(Append(s, <<>>))
      /\ \A v : In(Append(s, <<>>), v) <=> In(s, v)
  BY SetAdded
<1>7. sets' = s /\ OneEach(Append(sets', buf'))
  BY <1>1, <1>3, <1>5, <1>6
<1>8. \A v \in Rank : In(Append(sets', buf'), v) <=> v \in DrawnUpto(n)
  BY <1>1, <1>4, <1>5, <1>6
<1>9. Cardinality(DrawnUpto(n)) = i' + Len(buf') /\ buf' \in Seq(Rank)
  BY <1>1, <1>2, <1>4
<1>. QED
  BY <1>1, <1>4, <1>5, <1>7, <1>8, <1>9, ValuesNext

LEMMA ValuesKept ==
    ASSUME CountsInv, BufferInv, DrawnInv, UNCHANGED <<uprng, i, buf, sets>>,
           \/ pc' = pc /\ want' = want
           \/ pc' # "fill" /\ pc # "fill"
           \/ pc # "fill" /\ want' \in Nat
    PROVE  BufferInv' /\ DrawnInv'
<1>1. gen' = gen /\ cur_step' = cur_step /\ i' = i /\ buf' = buf /\ sets' = sets
  BY DEF uprng
<1>2. /\ buf \in Seq(Rank) /\ sets \in Seq(Seq(Rank)) /\ OneEach(Append(sets, buf))
      /\ pc = "fill" => Len(buf) <= want
      /\ pc # "fill" => buf = <<>>
  BY DEF BufferInv
<1>3. PICK n \in 0 .. gen.prime :
        /\ n = cur_step \/ (n = gen.prime /\ cur_step = 0)
        /\ \A v \in Rank : In(Append(sets, buf), v) <=> v \in DrawnUpto(n)
        /\ Cardinality(DrawnUpto(n)) = i + Len(buf)
  BY DEF DrawnInv
<1>4. pc' = "fill" => Len(buf') <= want'
  <2>1. buf = <<>> => Len(buf) = 0
    OBVIOUS
  <2>. QED
    BY <1>1, <1>2, <2>1
<1>5. pc' # "fill" => buf' = <<>>
  BY <1>1, <1>2
<1>6. /\ \A v \in Rank : In(Append(sets', buf'), v) <=> v \in DrawnUpto(n)
      /\ Cardinality(DrawnUpto(n)) = i' + Len(buf') /\ OneEach(Append(sets', buf'))
      /\ n = cur_step' \/ (n = gen.prime /\ cur_step' = 0)
      /\ buf' \in Seq(Rank) /\ sets' \in Seq(Seq(Rank))
  BY <1>1, <1>2, <1>3
<1>. QED
  BY <1>1, <1>4, <1>5, <1>6, ValuesNext

LEMMA ValuesInit == Init /\ CountsInv /\ GetStepPermutes => BufferInv /\ DrawnInv
<1>. SUFFICES ASSUME Init, CountsInv, GetStepPermutes PROVE BufferInv /\ DrawnInv
  OBVIOUS
<1>1. cur_step = 0 /\ i = 0 /\ want = 0 /\ buf = <<>> /\ sets = <<>> /\ pc # "fill"
  BY DEF Init, UprngInit
<1>2. Len(Append(sets, buf)) = 1 /\ Append(sets, buf)[1] = <<>> /\ Len(<<>>) = 0
  BY <1>1
<1>3. \A v : ~In(Append(sets, buf), v)
  BY <1>2 DEF In
<1>4. OneEach(Append(sets, buf))
  BY <1>2 DEF OneEach
<1>5. BufferInv
  BY <1>1, <1>4 DEF BufferInv
<1>6. DrawnUpto(0) = {} /\ Cardinality(DrawnUpto(0)) = 0
  BY WholeCycle, FS_EmptySet
<1>7. 0 \in 0 .. gen.prime
  BY DEF CountsInv
<1>8. DrawnInv
  BY <1>1, <1>3, <1>6, <1>7 DEF DrawnInv
<1>. QED
  BY <1>5, <1>8

LEMMA Step == IInv /\ GetStepPermutes /\ [Next]_vars => IInv' /\ GetStepPermutes'
<1>. SUFFICES ASSUME CountsInv, FixedInv, BufferInv, DrawnInv, GetStepPermutes, [Next]_vars
              PROVE  IInv' /\ GetStepPermutes'
  BY DEF IInv
<1>1. CountsInv' /\ FixedInv'
  BY CountsStep
<1>2. GetStepPermutes'
  <2>1. gen' = gen
    BY DEF Next, FullSet, RestSet, AskedSet, AskedBreak, Draw, HandOver, Return, Fill, vars, uprng
  <2>. QED
    BY <2>1, SameGenerator
<1>3. ASSUME NEW k, Fill(k), pc = "next" PROVE BufferInv' /\ DrawnInv'
  <2>1. UNCHANGED <<uprng, i, buf, sets>> /\ pc # "fill" /\ want' \in Nat
    BY <1>1, <1>3 DEF Fill, BufferInv, CountsInv
  <2>. QED
    BY <2>1, ValuesKept
<1>4. BufferInv' /\ DrawnInv'
  <2>1. CASE FullSet
    BY <1>3, <2>1 DEF FullSet
  <2>2. CASE RestSet
    BY <1>3, <2>2 DEF RestSet
  <2>3. CASE AskedSet
    BY <1>3, <2>3 DEF AskedSet
  <2>4. CASE AskedBreak
    <3>1. UNCHANGED <<uprng, i, buf, sets>> /\ pc' = "broke" /\ pc = "next"
      BY <2>4 DEF AskedBreak
    <3>. QED
      BY <3>1, ValuesKept
  <2>5. CASE Draw
    BY <2>5, ValuesDrawn
  <2>6. CASE HandOver
    BY <2>6, ValuesHandedOver
  <2>7. CASE Return
    <3>1. UNCHANGED <<uprng, i, buf, sets>> /\ pc' = "done" /\ pc = "next"
      BY <2>7 DEF Return
    <3>. QED
      BY <3>1, ValuesKept
  <2>8. CASE UNCHANGED vars
    <3>1. UNCHANGED <<uprng, i, buf, sets>> /\ pc' = pc /\ want' = want
      BY <2>8 DEF vars, uprng
    <3>. QED
      BY <3>1, ValuesKept
  <2>. QED
    BY <2>1, <2>2, <2>3, <2>4, <2>5, <2>6, <2>7, <2>8 DEF Next
<1>. QED
  BY <1>1, <1>2, <1>4 DEF IInv

\* The inductive invariant, for a generator that permutes its positions.
THEOREM Inductive == Spec /\ GetStepPermutes => []IInv
<1>1. Init /\ GetStepPermutes => IInv
  BY CountsInit, ValuesInit DEF IInv
<1>. QED
  BY <1>1, Step, PTL DEF Spec

\* The types, with the ranks of the values in the buffer and in the sets.
THEOREM TypeCorrect == Spec /\ GetStepPermutes => []TypeOK
<1>1. IInv /\ GetStepPermutes => TypeOK
  BY DEF IInv, CountsInv, BufferInv, TypeOK
<1>. QED
  BY <1>1, Inductive, Step, PTL DEF Spec

\* No value comes twice, in one set or in two.
THEOREM ValuesComeOnce == Spec /\ GetStepPermutes => []NoValueTwice
<1>1. IInv => NoValueTwice
  BY DEF IInv, BufferInv, OneEach, NoValueTwice, AllSets
<1>. QED
  BY <1>1, Inductive, PTL

\* A return leaves no value behind: i is the number of the values handed over, and
\* there are no more ranks.
THEOREM EveryValueComes == Spec /\ GetStepPermutes => []EveryValueHandedOver
<1>. DEFINE Returned == pc = "done" => i = gen.max
<1>1. IInv /\ Returned /\ [Next]_vars => Returned'
  <2>. SUFFICES ASSUME IInv, Returned, [Next]_vars PROVE Returned'
    OBVIOUS
  <2>1. gen.max \in Nat /\ i \in 0 .. gen.max
    BY DEF IInv, CountsInv
  <2>2. CASE FullSet \/ RestSet \/ AskedSet
    BY <2>2 DEF FullSet, RestSet, AskedSet, Fill
  <2>3. CASE AskedBreak
    BY <2>3 DEF AskedBreak
  <2>4. CASE Draw
    BY <2>4 DEF Draw
  <2>5. CASE HandOver
    BY <2>5 DEF HandOver
  <2>6. CASE Return
    BY <2>1, <2>6 DEF Return, uprng
  <2>7. CASE UNCHANGED vars
    BY <2>7 DEF vars, uprng
  <2>. QED
    BY <2>2, <2>3, <2>4, <2>5, <2>6, <2>7 DEF Next
<1>2. Init => Returned
  BY DEF Init
<1>3. IInv /\ GetStepPermutes /\ Returned => EveryValueHandedOver
  <2>. SUFFICES ASSUME IInv, GetStepPermutes, i = gen.max, pc = "done", NEW v \in Rank
                PROVE  In(sets, v)
    BY DEF EveryValueHandedOver, In
  <2>1. CountsInv /\ BufferInv /\ DrawnInv
    BY DEF IInv
  <2>2. buf = <<>> /\ sets \in Seq(Seq(Rank)) /\ Len(buf) = 0 /\ gen.max \in Nat
    BY <2>1 DEF BufferInv, CountsInv
  <2>3. PICK n \in 0 .. gen.prime :
          /\ \A r \in Rank : In(Append(sets, buf), r) <=> r \in DrawnUpto(n)
          /\ Cardinality(DrawnUpto(n)) = i + Len(buf)
    BY <2>1 DEF DrawnInv
  <2>4. /\ IsFiniteSet(Rank) /\ DrawnUpto(n) \in SUBSET Rank
        /\ Cardinality(DrawnUpto(n)) = Cardinality(Rank)
    BY <2>1, <2>2, <2>3, WholeCycle
  <2>5. DrawnUpto(n) = Rank
    BY <2>4, FS_Subset
  <2>6. In(Append(sets, buf), v)
    BY <2>3, <2>5
  <2>. QED
    BY <2>2, <2>6, SetAdded
<1>. QED
  BY <1>1, <1>2, <1>3, Inductive, Step, PTL DEF Spec
=============================================================================
