-------------------------- MODULE AggregationProofs --------------------------
(****************************************************************************)
(* aggregate() and size() as functions: for every word size and every two   *)
(* lists the aggregated list is in order and holds what was added and not   *)
(* removed, and the size of a list without overlaps counts its values.      *)
(* Before them the lemmas that other proofs use too: loops with a counter,  *)
(* powers, ranks in an order, and the parts of a text between its dots.     *)
(****************************************************************************)
EXTENDS Aggregation, Tokens, FiniteSetTheorems, SequenceTheorems, TLAPS

------------------------------------------------------------------------------
(* Induction, and loops with a counter. *)

\* A set that holds 0 and with n also n + 1 holds every natural number.
LEMMA SetInduction ==
    ASSUME NEW S, 0 \in S, \A n \in Nat : n \in S => n + 1 \in S
    PROVE  Nat \subseteq S
<1>. DEFINE F == {n \in Nat : n \notin S}
            T == {0 .. n : n \in F}
<1>. SUFFICES ASSUME F # {} PROVE FALSE
  OBVIOUS
<1>1. T \subseteq FiniteSubsetsOf(Nat)
  <2>1. ASSUME NEW n \in Nat PROVE 0 .. n \in FiniteSubsetsOf(Nat)
    BY FS_Interval DEF FiniteSubsetsOf
  <2>. QED
    BY <2>1
<1>2. PICK x \in T : \A y \in T : <<y, x>> \notin StrictSubsetOrdering(Nat)
  <2>1. IsWellFoundedOn(StrictSubsetOrdering(Nat), FiniteSubsetsOf(Nat))
    BY FS_StrictSubsetOrderingWellFounded
  <2>2. T # {}
    OBVIOUS
  <2>. HIDE DEF T
  <2>. QED
    BY <1>1, <2>1, <2>2, WFMin
<1>3. PICK n \in F : x = 0 .. n
  BY <1>2
<1>4. n # 0 /\ n - 1 \in Nat /\ n - 1 \in F
  <2>1. n # 0 /\ n - 1 \in Nat
    OBVIOUS
  <2>2. (n - 1) + 1 = n
    OBVIOUS
  <2>. QED
    BY <2>1, <2>2
<1>5. 0 .. (n - 1) \in T
  BY <1>4
<1>6. <<0 .. (n - 1), 0 .. n>> \in StrictSubsetOrdering(Nat)
  <2>1. 0 .. (n - 1) \in SUBSET Nat /\ 0 .. n \in SUBSET Nat
    OBVIOUS
  <2>2. 0 .. (n - 1) \subseteq 0 .. n /\ 0 .. (n - 1) # 0 .. n
    <3>1. n \in 0 .. n /\ n \notin 0 .. (n - 1)
      OBVIOUS
    <3>. QED
      BY <3>1
  <2>. QED
    BY <2>1, <2>2 DEF StrictSubsetOrdering
<1>. QED
  BY <1>2, <1>3, <1>5, <1>6

\* The same for the numbers up to m.
LEMMA BoundedInduction ==
    ASSUME NEW m \in Nat, NEW S, 0 \in S, \A n \in 0 .. m - 1 : n \in S => n + 1 \in S
    PROVE  0 .. m \subseteq S
<1>. DEFINE U == S \cup {n \in Nat : n > m}
<1>1. 0 \in U /\ \A n \in Nat : n \in U => n + 1 \in U
  OBVIOUS
<1>. HIDE DEF U
<1>2. Nat \subseteq U
  BY <1>1, SetInduction
<1>. QED
  BY <1>2 DEF U

\* f is a run of the loop with the iterations D.
Follows(f, c, m, D) == f[0] = c /\ \A k \in 1 .. m : f[k] = D[k][f[k - 1]]

\* A loop has a run, of any length.
LEMMA Recursion ==
    ASSUME NEW X, NEW c \in X, NEW m \in Nat, NEW D \in [1 .. m -> [X -> X]]
    PROVE  \E f \in [0 .. m -> X] : Follows(f, c, m, D)
<1>. USE DEF Follows
<1>. DEFINE IsPart(f, n) == Follows(f, c, n, D)
            S == {n \in 0 .. m : \E f \in [0 .. n -> X] : IsPart(f, n)}
<1>1. 0 \in S
  <2>. DEFINE g == [k \in 0 .. 0 |-> c]
  <2>1. g \in [0 .. 0 -> X] /\ g[0] = c /\ 0 \in 0 .. m
    OBVIOUS
  <2>2. IsPart(g, 0)
    BY <2>1
  <2>. HIDE DEF g, IsPart
  <2>. QED
    BY <2>1, <2>2
<1>2. ASSUME NEW n \in 0 .. m - 1, n \in S PROVE n + 1 \in S
  <2>1. PICK f \in [0 .. n -> X] : IsPart(f, n)
    BY <1>2
  <2>. DEFINE g == [k \in 0 .. n + 1 |-> IF k = n + 1 THEN D[n + 1][f[n]] ELSE f[k]]
  <2>2. D[n + 1][f[n]] \in X
    <3>1. f[n] \in X /\ n + 1 \in 1 .. m
      OBVIOUS
    <3>. QED
      BY <3>1
  <2>3. g \in [0 .. n + 1 -> X]
    BY <2>2
  <2>4. IsPart(g, n + 1)
    <3>1. g[0] = c
      BY <2>1
    <3>2. ASSUME NEW k \in 1 .. n + 1 PROVE g[k] = D[k][g[k - 1]]
      <4>1. CASE k = n + 1
        <5>1. (n + 1) - 1 = n
          OBVIOUS
        <5>. QED
          BY <4>1, <5>1
      <4>2. CASE k # n + 1
        <5>1. k \in 1 .. n /\ k - 1 \in 0 .. n
          BY <4>2
        <5>. QED
          BY <2>1, <5>1
      <4>. QED
        BY <4>1, <4>2
    <3>. QED
      BY <3>1, <3>2
  <2>5. n + 1 \in 0 .. m
    OBVIOUS
  <2>. QED
    BY <2>3, <2>4, <2>5
<1>3. 0 .. m \subseteq S
  <2>. HIDE DEF S
  <2>. QED
    BY <1>1, <1>2, BoundedInduction
<1>4. m \in S
  BY <1>3
<1>. QED
  BY <1>4

\* A loop whose iterations stay in X computes a value of X for each count.
LEMMA LoopFacts ==
    ASSUME NEW X, NEW c \in X, NEW m \in Nat, NEW D \in [1 .. m -> [X -> X]]
    PROVE  /\ Loop(D, c, m) \in [0 .. m -> X]
           /\ Loop(D, c, m)[0] = c
           /\ \A k \in 1 .. m : Loop(D, c, m)[k] = D[k][Loop(D, c, m)[k - 1]]
<1>1. PICK f \in [0 .. m -> X] : Follows(f, c, m, D)
  BY Recursion
<1>2. f = [k \in 0 .. m |-> IF k = 0 THEN c ELSE D[k][f[k - 1]]]
  <2>1. \A k \in 0 .. m : f[k] = IF k = 0 THEN c ELSE D[k][f[k - 1]]
    BY <1>1 DEF Follows
  <2>. QED
    BY <2>1
<1>3. Loop(D, c, m) = [k \in 0 .. m |-> IF k = 0 THEN c ELSE D[k][Loop(D, c, m)[k - 1]]]
  BY <1>2, Zenon DEF Loop
<1>4. PICK g : g = Loop(D, c, m)
  OBVIOUS
<1>5. g = [k \in 0 .. m |-> IF k = 0 THEN c ELSE D[k][g[k - 1]]]
  BY <1>3, <1>4, Zenon
<1>6. g[0] = c /\ \A k \in 1 .. m : g[k] = D[k][g[k - 1]]
  BY <1>5
<1>7. \A k \in 0 .. m : g[k] \in X
  <2>. DEFINE S == {k \in 0 .. m : g[k] \in X}
  <2>1. 0 \in S
    BY <1>6
  <2>2. ASSUME NEW k \in 0 .. m - 1, k \in S PROVE k + 1 \in S
    <3>1. k + 1 \in 1 .. m /\ (k + 1) - 1 = k /\ g[k] \in X
      BY <2>2
    <3>2. D[k + 1] \in [X -> X]
      BY <3>1
    <3>3. g[k + 1] = D[k + 1][g[k]]
      BY <1>6, <3>1
    <3>. QED
      BY <3>1, <3>2, <3>3
  <2>. HIDE DEF S
  <2>3. 0 .. m \subseteq S
    BY <2>1, <2>2, BoundedInduction
  <2>. QED
    BY <2>3 DEF S
<1>8. g \in [0 .. m -> X]
  BY <1>5, <1>7
<1>. QED
  BY <1>4, <1>6, <1>8

\* What holds at the start and is kept by every iteration holds at the end: P[k]
\* are the results that iteration k may leave.
LEMMA LoopInvariant ==
    ASSUME NEW X, NEW c \in X, NEW m \in Nat, NEW D \in [1 .. m -> [X -> X]],
           NEW P, c \in P[0], \A k \in 1 .. m : \A x \in X : x \in P[k - 1] => D[k][x] \in P[k]
    PROVE  /\ \A k \in 0 .. m : Loop(D, c, m)[k] \in X /\ Loop(D, c, m)[k] \in P[k]
           /\ Loop(D, c, m)[m] \in X /\ Loop(D, c, m)[m] \in P[m]
<1>1. PICK g : g = Loop(D, c, m)
  OBVIOUS
<1>2. g \in [0 .. m -> X] /\ g[0] = c /\ \A k \in 1 .. m : g[k] = D[k][g[k - 1]]
  BY <1>1, LoopFacts
<1>. DEFINE S == {k \in 0 .. m : g[k] \in P[k]}
<1>3. 0 \in S
  BY <1>2
<1>4. ASSUME NEW k \in 0 .. m - 1, k \in S PROVE k + 1 \in S
  <2>1. k + 1 \in 1 .. m /\ (k + 1) - 1 = k /\ g[k] \in P[k] /\ g[k] \in X
    BY <1>2, <1>4
  <2>2. g[k + 1] = D[k + 1][g[k]]
    BY <1>2, <2>1
  <2>3. D[k + 1][g[k]] \in P[k + 1]
    BY <2>1
  <2>. QED
    BY <2>1, <2>2, <2>3
<1>5. 0 .. m \subseteq S
  <2>. HIDE DEF S
  <2>. QED
    BY <1>3, <1>4, BoundedInduction
<1>6. \A k \in 0 .. m : g[k] \in X /\ g[k] \in P[k]
  BY <1>2, <1>5
<1>. QED
  BY <1>1, <1>6

------------------------------------------------------------------------------
(* Lemmas about intervals and lists of them. *)

LEMMA LegalFacts ==
    ASSUME NEW i \in LegalInterval
    PROVE  /\ i \in Interval
           /\ i.lower \in Nat /\ i.upper \in Nat
           /\ i.lower \in Value /\ i.upper \in Value
           /\ i.lower <= i.upper
           /\ i = Itv(i.lower, i.upper)
  BY WordAssumption DEF LegalInterval, Legal, Interval, Value, Itv

LEMMA ItvLegal ==
    ASSUME NEW a \in Value, NEW b \in Value, a <= b
    PROVE  /\ Itv(a, b) \in LegalInterval
           /\ Itv(a, b).lower = a /\ Itv(a, b).upper = b
  BY DEF LegalInterval, Legal, Interval, Itv

LEMMA EmptyLegal ==
    Empty \in LegalInterval /\ Empty.lower = 0 /\ Empty.upper = 0
  BY WordAssumption, ItvLegal DEF Empty, Value

\* For ordered bounds the width is the number of values.
LEMMA WidthOfLegal ==
    ASSUME NEW i \in LegalInterval
    PROVE  Width(i) > 0 <=> i.lower < i.upper
  BY LegalFacts DEF Width

\* The hull of two intervals that overlap holds the values of both, and no other.
LEMMA HullFacts ==
    ASSUME NEW a \in LegalInterval, NEW b \in LegalInterval
    PROVE  /\ Hull(a, b) \in LegalInterval
           /\ a.lower <= b.lower => Hull(a, b).lower = a.lower
           /\ a.lower < a.upper => Hull(a, b).lower < Hull(a, b).upper
           /\ Overlap(a, b) => \A v \in Value : Has(Hull(a, b), v) <=> Has(a, v) \/ Has(b, v)
<1>1. /\ a.lower \in Value /\ a.upper \in Value /\ b.lower \in Value /\ b.upper \in Value
      /\ a.lower <= a.upper /\ b.lower <= b.upper
  BY LegalFacts
<1>2. /\ Hull(a, b) \in LegalInterval
      /\ Hull(a, b).lower = Least(a.lower, b.lower)
      /\ Hull(a, b).upper = Greatest(a.upper, b.upper)
  BY <1>1, ItvLegal DEF Hull, Least, Greatest, Value
<1>. QED
  BY <1>1, <1>2 DEF Least, Greatest, Overlap, Has, Value

LEMMA NoOverlap ==
    ASSUME NEW a \in LegalInterval, NEW b \in LegalInterval, a.lower <= b.lower
    PROVE  ~Overlap(a, b) <=> a.upper < b.lower
  BY LegalFacts DEF Overlap

\* What a removed interval leaves of a piece.
LEMMA LeftOfLegal ==
    ASSUME NEW p \in LegalInterval, NEW r \in LegalInterval
    PROVE  /\ LeftOf(p, r) \in LegalInterval
           /\ LeftOf(p, r).upper <= p.upper
           /\ LeftOf(p, r).lower < LeftOf(p, r).upper => p.lower <= LeftOf(p, r).lower
           /\ CutsInTwo(p, r) => LeftOf(p, r) = Itv(r.upper, p.upper)
<1>1. /\ p.lower \in Value /\ p.upper \in Value /\ r.lower \in Value /\ r.upper \in Value
      /\ p.lower <= p.upper /\ r.lower <= r.upper
  BY LegalFacts
<1>2. /\ p.lower \in Nat /\ p.upper \in Nat /\ r.lower \in Nat /\ r.upper \in Nat
  BY LegalFacts
<1>3. CASE p.lower >= r.lower /\ p.upper <= r.upper
  BY <1>1, <1>2, <1>3, EmptyLegal DEF LeftOf, CutsInTwo
<1>4. CASE ~(p.lower >= r.lower /\ p.upper <= r.upper) /\ p.upper >= r.upper /\ p.lower <= r.upper
           /\ p.lower >= r.lower
  BY <1>1, <1>2, <1>4, ItvLegal DEF LeftOf, CutsInTwo
<1>5. CASE p.lower < r.lower /\ p.upper <= r.upper /\ p.upper >= r.lower
  BY <1>1, <1>2, <1>5, ItvLegal DEF LeftOf, CutsInTwo
<1>6. CASE p.lower < r.lower /\ p.upper > r.upper
  BY <1>1, <1>2, <1>6, ItvLegal DEF LeftOf, CutsInTwo
<1>7. CASE p.upper < r.lower \/ p.lower > r.upper
  BY <1>1, <1>2, <1>7 DEF LeftOf, CutsInTwo
<1>. QED
  BY <1>2, <1>3, <1>4, <1>5, <1>6, <1>7

LEMMA LeftOfHas ==
    ASSUME NEW p \in LegalInterval, NEW r \in LegalInterval, NEW v \in Value
    PROVE  /\ Has(LeftOf(p, r), v) => Has(p, v) /\ ~Has(r, v)
           /\ Has(p, v) => \/ Has(r, v) \/ Has(LeftOf(p, r), v)
                           \/ CutsInTwo(p, r) /\ Has(Itv(p.lower, r.lower), v)
<1>1. /\ p.lower \in Nat /\ p.upper \in Nat /\ r.lower \in Nat /\ r.upper \in Nat /\ v \in Nat
      /\ p.lower <= p.upper /\ r.lower <= r.upper
  BY LegalFacts DEF Value
<1>2. /\ Itv(r.upper, p.upper).lower = r.upper /\ Itv(r.upper, p.upper).upper = p.upper
      /\ Itv(p.lower, r.lower).lower = p.lower /\ Itv(p.lower, r.lower).upper = r.lower
  BY DEF Itv
<1>. QED
  BY <1>1, <1>2, EmptyLegal DEF LeftOf, CutsInTwo, Has

LEMMA AppendFacts ==
    ASSUME NEW s \in Seq(LegalInterval), NEW i \in LegalInterval
    PROVE  /\ Append(s, i) \in Seq(LegalInterval)
           /\ Len(Append(s, i)) = Len(s) + 1
           /\ Append(s, i)[Len(s) + 1] = i
           /\ \A k \in 1 .. Len(s) : Append(s, i)[k] = s[k]
           /\ \A v \in Value : InList(Append(s, i), v) <=> InList(s, v) \/ Has(i, v)
<1>1. /\ Append(s, i) \in Seq(LegalInterval)
      /\ Len(Append(s, i)) = Len(s) + 1
      /\ Append(s, i)[Len(s) + 1] = i
      /\ \A k \in 1 .. Len(s) : Append(s, i)[k] = s[k]
  OBVIOUS
<1>2. Len(s) \in Nat
  OBVIOUS
<1>3. 1 .. (Len(s) + 1) = (1 .. Len(s)) \cup {Len(s) + 1}
  BY <1>2
<1>. QED
  BY <1>1, <1>2, <1>3 DEF InList

\* A set of natural numbers has a least one.
LEMMA LeastElement ==
    ASSUME NEW S \in SUBSET Nat, S # {}
    PROVE  \E m \in S : \A n \in S : m <= n
<1>. SUFFICES ASSUME \A m \in S : \E n \in S : n < m PROVE FALSE
  OBVIOUS
<1>. DEFINE U == {m \in Nat : \A n \in S : n > m}
<1>1. 0 \notin S
  OBVIOUS
<1>2. 0 \in U
  BY <1>1
<1>3. \A m \in Nat : m \in U => m + 1 \in U
  <2>. SUFFICES ASSUME NEW m \in Nat, m \in U, NEW n \in S PROVE n > m + 1
    OBVIOUS
  <2>1. n > m
    OBVIOUS
  <2>2. n # m + 1
    OBVIOUS
  <2>. QED
    BY <2>1, <2>2
<1>. HIDE DEF U
<1>4. Nat \subseteq U
  BY <1>2, <1>3, SetInduction
<1>5. PICK n \in S : n \in Nat
  OBVIOUS
<1>6. n > n
  BY <1>4, <1>5 DEF U
<1>. QED
  BY <1>5, <1>6

------------------------------------------------------------------------------
(* The sort. *)

\* The intervals that are among the first n of the list.
Among(s, n) == {s[k] : k \in 1 .. n}

LEMMA InsertedType ==
    ASSUME NEW s \in List, NEW i \in Interval
    PROVE  Inserted(s, i) \in List
<1>. DEFINE f == [k \in 1 .. Len(s) |-> IF s[k].lower <= i.lower THEN s[k]
                                        ELSE IF k = 1 \/ s[k - 1].lower <= i.lower THEN i ELSE s[k - 1]]
            x == IF s = <<>> \/ s[Len(s)].lower <= i.lower THEN i ELSE s[Len(s)]
<1>1. Len(s) \in Nat /\ \A k \in 1 .. Len(s) : s[k] \in Interval
  BY DEF List
<1>2. f \in Seq(Interval)
  <2>1. \A k \in 1 .. Len(s) : f[k] \in Interval
    BY <1>1
  <2>. QED
    BY <1>1, <2>1
<1>3. x \in Interval
  BY <1>1 DEF List
<1>4. Inserted(s, i) = Append(f, x)
  BY DEF Inserted
<1>. HIDE DEF f, x
<1>. QED
  BY <1>2, <1>3, <1>4 DEF List

\* The position of each interval of the new list.
LEMMA InsertedAt ==
    ASSUME NEW s \in Seq(LegalInterval), NEW i \in LegalInterval
    PROVE  /\ Len(Inserted(s, i)) = Len(s) + 1
           /\ \A k \in 1 .. Len(s) + 1 :
                Inserted(s, i)[k] = IF k <= Len(s) /\ s[k].lower <= i.lower THEN s[k]
                                    ELSE IF k = 1 \/ s[k - 1].lower <= i.lower THEN i
                                    ELSE s[k - 1]
<1>. DEFINE f == [k \in 1 .. Len(s) |-> IF s[k].lower <= i.lower THEN s[k]
                                        ELSE IF k = 1 \/ s[k - 1].lower <= i.lower THEN i ELSE s[k - 1]]
            x == IF s = <<>> \/ s[Len(s)].lower <= i.lower THEN i ELSE s[Len(s)]
<1>1. Len(s) \in Nat /\ \A k \in 1 .. Len(s) : s[k] \in LegalInterval
  OBVIOUS
<1>2. f \in Seq(LegalInterval) /\ Len(f) = Len(s)
  <2>1. \A k \in 1 .. Len(s) : f[k] \in LegalInterval
    BY <1>1
  <2>. QED
    BY <1>1, <2>1
<1>3. x \in LegalInterval
  BY <1>1
<1>4. Inserted(s, i) = Append(f, x)
  BY DEF Inserted
<1>5. ASSUME NEW k \in 1 .. Len(s) + 1
      PROVE  Append(f, x)[k] = IF k = Len(s) + 1 THEN x ELSE f[k]
  <2>. HIDE DEF f, x
  <2>. QED
    BY <1>1, <1>2, <1>3
<1>6. Len(Append(f, x)) = Len(s) + 1
  <2>. HIDE DEF f, x
  <2>. QED
    BY <1>1, <1>2, <1>3
<1>7. ASSUME NEW k \in 1 .. Len(s) + 1
      PROVE  Inserted(s, i)[k] = IF k <= Len(s) /\ s[k].lower <= i.lower THEN s[k]
                                 ELSE IF k = 1 \/ s[k - 1].lower <= i.lower THEN i
                                 ELSE s[k - 1]
  <2>1. CASE k = Len(s) + 1
    <3>1. (s = <<>> <=> k = 1) /\ k - 1 = Len(s) /\ ~(k <= Len(s))
      BY <1>1, <2>1
    <3>. QED
      BY <1>4, <1>5, <2>1, <3>1
  <2>2. CASE k # Len(s) + 1
    <3>1. k \in 1 .. Len(s)
      BY <1>1, <2>2
    <3>. QED
      BY <1>4, <1>5, <2>2, <3>1
  <2>. QED
    BY <2>1, <2>2
<1>. QED
  BY <1>4, <1>6, <1>7

LEMMA InsertedFacts ==
    ASSUME NEW s \in Seq(LegalInterval), NEW i \in LegalInterval, SortedByLower(s)
    PROVE  /\ Inserted(s, i) \in Seq(LegalInterval)
           /\ Len(Inserted(s, i)) = Len(s) + 1
           /\ SortedByLower(Inserted(s, i))
           /\ Among(Inserted(s, i), Len(s) + 1) = Among(s, Len(s)) \cup {i}
<1>. DEFINE t == Inserted(s, i)
            n == Len(s)
            Stays(k) == s[k].lower <= i.lower
<1>1. n \in Nat /\ \A k \in 1 .. n : s[k] \in LegalInterval /\ s[k].lower \in Nat
  BY LegalFacts
<1>2. i.lower \in Nat
  BY LegalFacts
<1>3. /\ Len(t) = n + 1
      /\ \A k \in 1 .. n + 1 : t[k] = IF k <= n /\ Stays(k) THEN s[k]
                                      ELSE IF k = 1 \/ Stays(k - 1) THEN i ELSE s[k - 1]
  BY InsertedAt
<1>4. \A j, k \in 1 .. n : j < k => s[j].lower <= s[k].lower
  BY DEF SortedByLower
<1>5. t \in List
  <2>1. s \in List /\ i \in Interval
    BY DEF List, LegalInterval
  <2>. HIDE DEF t
  <2>. QED
    BY <2>1, InsertedType DEF t
<1>. HIDE DEF t, n
<1>6. \A k \in 1 .. n + 1 : t[k] \in LegalInterval
  <2>. SUFFICES ASSUME NEW k \in 1 .. n + 1 PROVE t[k] \in LegalInterval
    OBVIOUS
  <2>1. k - 1 \in 1 .. n \/ k = 1
    BY <1>1
  <2>2. k \in 1 .. n \/ ~(k <= n)
    BY <1>1
  <2>. QED
    BY <1>1, <1>3, <2>1, <2>2
<1>7. t \in Seq(LegalInterval)
  BY <1>1, <1>3, <1>5, <1>6 DEF List
<1>8. SortedByLower(t)
  <2>1. ASSUME NEW j \in 1 .. n + 1, NEW k \in 1 .. n + 1, j < k
        PROVE  t[j].lower <= t[k].lower
    <3>1. /\ j \in 1 .. n
          /\ k - 1 \in 1 .. n /\ (j < k - 1 \/ j = k - 1)
          /\ k <= n => k \in 1 .. n
          /\ j # 1 => j - 1 \in 1 .. n /\ j - 1 < k - 1 /\ j - 1 < k
      BY <1>1, <2>1
    <3>2. t[k].lower = i.lower \/ t[k].lower = s[k - 1].lower \/ (k <= n /\ t[k].lower = s[k].lower)
      BY <1>3
    <3>3. CASE k <= n /\ Stays(k)
      <4>1. t[k] = s[k] /\ k \in 1 .. n
        BY <1>3, <3>1, <3>3
      <4>2. s[j].lower <= s[k].lower
        BY <1>4, <2>1, <3>1, <4>1
      <4>3. Stays(j)
        BY <1>1, <1>2, <3>1, <3>3, <4>1, <4>2, SMTT(30)
      <4>4. t[j] = s[j]
        BY <1>1, <1>3, <3>1, <4>3
      <4>. QED
        BY <4>1, <4>2, <4>4
    <3>4. CASE ~(k <= n /\ Stays(k)) /\ Stays(k - 1)
      <4>1. t[k] = i
        BY <1>3, <3>4
      <4>2. s[j].lower <= s[k - 1].lower
        BY <1>1, <1>4, <3>1
      <4>3. Stays(j)
        BY <1>1, <1>2, <3>1, <3>4, <4>2
      <4>4. t[j] = s[j]
        BY <1>1, <1>3, <3>1, <4>3
      <4>. QED
        BY <4>1, <4>3, <4>4
    <3>5. CASE ~(k <= n /\ Stays(k)) /\ ~Stays(k - 1)
      <4>1. t[k] = s[k - 1]
        BY <1>1, <1>3, <2>1, <3>1, <3>5
      <4>2. i.lower <= s[k - 1].lower
        BY <1>1, <1>2, <3>1, <3>5
      <4>3. CASE Stays(j)
        BY <1>1, <1>2, <1>3, <3>1, <4>1, <4>2, <4>3
      <4>4. CASE ~Stays(j) /\ (j = 1 \/ Stays(j - 1))
        BY <1>1, <1>3, <3>1, <4>1, <4>2, <4>4
      <4>5. CASE ~Stays(j) /\ ~(j = 1 \/ Stays(j - 1))
        <5>1. t[j] = s[j - 1]
          BY <1>1, <1>3, <3>1, <4>5
        <5>. QED
          BY <1>4, <3>1, <4>1, <4>5, <5>1
      <4>. QED
        BY <4>3, <4>4, <4>5
    <3>. QED
      BY <3>3, <3>4, <3>5
  <2>. QED
    BY <1>3, <2>1 DEF SortedByLower
<1>9. Among(t, n + 1) = Among(s, n) \cup {i}
  <2>1. ASSUME NEW k \in 1 .. n + 1 PROVE t[k] \in Among(s, n) \cup {i}
    <3>1. k - 1 \in 1 .. n \/ k = 1
      BY <1>1
    <3>2. k \in 1 .. n \/ ~(k <= n)
      BY <1>1
    <3>. QED
      BY <1>3, <3>1, <3>2 DEF Among
  <2>2. ASSUME NEW k \in 1 .. n PROVE \E j \in 1 .. n + 1 : t[j] = s[k]
    <3>1. CASE Stays(k)
      <4>1. k \in 1 .. n + 1 /\ k <= n
        BY <1>1
      <4>. QED
        BY <1>3, <3>1, <4>1
    <3>2. CASE ~Stays(k)
      <4>1. k + 1 \in 1 .. n + 1 /\ (k + 1) - 1 = k /\ k + 1 # 1
        BY <1>1
      <4>2. ~(k + 1 <= n /\ Stays(k + 1))
        <5>. SUFFICES ASSUME k + 1 <= n PROVE ~Stays(k + 1)
          OBVIOUS
        <5>1. k + 1 \in 1 .. n /\ k < k + 1
          BY <1>1
        <5>2. s[k].lower <= s[k + 1].lower
          BY <1>4, <5>1
        <5>. QED
          BY <1>1, <1>2, <3>2, <5>1, <5>2
      <4>. QED
        BY <1>3, <3>2, <4>1, <4>2
    <3>. QED
      BY <3>1, <3>2
  <2>3. \E j \in 1 .. n + 1 : t[j] = i
    <3>. DEFINE S == {k \in 1 .. n + 1 : k = n + 1 \/ ~Stays(k)}
    <3>1. S \in SUBSET Nat /\ n + 1 \in S
      BY <1>1
    <3>2. PICK m \in S : \A k \in S : m <= k
      BY <3>1, LeastElement
    <3>3. ~(m <= n /\ Stays(m))
      BY <1>1, <3>2
    <3>4. m = 1 \/ Stays(m - 1)
      <4>. SUFFICES ASSUME m # 1, ~Stays(m - 1) PROVE FALSE
        OBVIOUS
      <4>1. m - 1 \in S
        BY <1>1, <3>2
      <4>. QED
        BY <1>1, <3>2, <4>1
    <3>. QED
      BY <1>3, <3>2, <3>3, <3>4
  <2>. QED
    BY <2>1, <2>2, <2>3 DEF Among
<1>. QED
  BY <1>3, <1>7, <1>8, <1>9 DEF t, n

\* Sorting changes the order of the intervals only.
LEMMA SortFacts ==
    ASSUME NEW s \in Seq(LegalInterval)
    PROVE  /\ SortByLower(s) \in Seq(LegalInterval)
           /\ Len(SortByLower(s)) = Len(s)
           /\ SortedByLower(SortByLower(s))
           /\ Among(SortByLower(s), Len(s)) = Among(s, Len(s))
<1>. DEFINE n == Len(s)
            D == [k \in 1 .. n |-> [t \in List |-> Inserted(t, s[k])]]
            P == [k \in 0 .. n |-> {t \in Seq(LegalInterval) :
                    Len(t) = k /\ SortedByLower(t) /\ Among(t, k) = Among(s, k)}]
<1>1. n \in Nat /\ \A k \in 1 .. n : s[k] \in LegalInterval /\ s[k] \in Interval
  BY LegalFacts
<1>2. <<>> \in List
  BY DEF List
<1>3. D \in [1 .. n -> [List -> List]]
  BY <1>1, InsertedType
<1>4. <<>> \in P[0]
  <2>1. Among(<<>>, 0) = {} /\ Among(s, 0) = {}
    BY DEF Among
  <2>2. SortedByLower(<<>>)
    BY DEF SortedByLower
  <2>3. <<>> \in Seq(LegalInterval) /\ Len(<<>>) = 0 /\ 0 \in 0 .. n
    BY <1>1
  <2>. QED
    BY <2>1, <2>2, <2>3
<1>5. ASSUME NEW k \in 1 .. n, NEW t \in List, t \in P[k - 1] PROVE D[k][t] \in P[k]
  <2>1. k - 1 \in 0 .. n /\ k \in 0 .. n /\ (k - 1) + 1 = k
    BY <1>1
  <2>2. t \in Seq(LegalInterval) /\ Len(t) = k - 1 /\ SortedByLower(t) /\ Among(t, k - 1) = Among(s, k - 1)
    BY <1>5, <2>1
  <2>3. D[k][t] = Inserted(t, s[k])
    OBVIOUS
  <2>4. /\ Inserted(t, s[k]) \in Seq(LegalInterval)
        /\ Len(Inserted(t, s[k])) = k
        /\ SortedByLower(Inserted(t, s[k]))
        /\ Among(Inserted(t, s[k]), k) = Among(t, k - 1) \cup {s[k]}
    BY <1>1, <2>1, <2>2, InsertedFacts, ZenonT(40)
  <2>5. Among(s, k) = Among(s, k - 1) \cup {s[k]}
    <3>1. 1 .. k = 1 .. (k - 1) \cup {k}
      BY <2>1
    <3>. QED
      BY <3>1 DEF Among
  <2>. QED
    BY <2>1, <2>2, <2>3, <2>4, <2>5
<1>6. SortByLower(s) = Loop(D, <<>>, n)[n]
  BY DEF SortByLower
<1>. HIDE DEF D, P
<1>7. Loop(D, <<>>, n)[n] \in P[n]
  BY <1>1, <1>2, <1>3, <1>4, <1>5, LoopInvariant, ZenonT(40)
<1>. QED
  BY <1>1, <1>6, <1>7 DEF P

------------------------------------------------------------------------------
(* The merge. *)

\* No interval of the list is empty.
AllWide(s) == \A k \in 1 .. Len(s) : s[k].lower < s[k].upper

\* A value is in one of the first n intervals of the list.
HeldBy(s, n, v) == \E x \in Among(s, n) : Has(x, v)

LEMMA HeldByAll ==
    ASSUME NEW s, NEW v
    PROVE  HeldBy(s, Len(s), v) <=> InList(s, v)
  BY DEF HeldBy, Among, InList

LEMMA HeldByNext ==
    ASSUME NEW s, NEW v, NEW n \in Nat
    PROVE  HeldBy(s, n + 1, v) <=> HeldBy(s, n, v) \/ Has(s[n + 1], v)
<1>1. 1 .. (n + 1) = 1 .. n \cup {n + 1}
  OBVIOUS
<1>. QED
  BY <1>1 DEF HeldBy, Among

LEMMA SeqFacts ==
    ASSUME NEW s \in Seq(LegalInterval)
    PROVE  /\ Len(s) \in Nat
           /\ \A k \in 1 .. Len(s) : s[k] \in LegalInterval
           /\ s # <<>> <=> Len(s) > 0
           /\ s \in List
<1>1. LegalInterval \subseteq Interval
  BY DEF LegalInterval
<1>. QED
  BY <1>1 DEF List

LEMMA HullType ==
    ASSUME NEW a \in Interval, NEW b \in Interval
    PROVE  Hull(a, b) \in Interval
  BY DEF Hull, Itv, Interval, Least, Greatest

LEMMA MergeLastType ==
    ASSUME NEW m \in List, NEW i \in Interval
    PROVE  MergeLast(m, i) \in List
<1>. USE DEF List
<1>1. CASE m # <<>>
  <2>1. Len(m) \in 1 .. Len(m) /\ m[Len(m)] \in Interval
    BY <1>1
  <2>2. Hull(m[Len(m)], i) \in Interval
    BY <2>1, HullType
  <2>. QED
    BY <2>1, <2>2 DEF MergeLast
<1>2. CASE m = <<>>
  BY <1>2 DEF MergeLast
<1>. QED
  BY <1>1, <1>2

\* One iteration on a list whose last interval is not after the new one.
LEMMA MergeLastFacts ==
    ASSUME NEW m \in Seq(LegalInterval), NEW i \in LegalInterval, Separated(m),
           m # <<>> => m[Len(m)].lower <= i.lower
    PROVE  /\ MergeLast(m, i) \in Seq(LegalInterval) \ {<<>>}
           /\ Separated(MergeLast(m, i))
           /\ MergeLast(m, i)[Len(MergeLast(m, i))].lower <= i.lower
           /\ \A v \in Value : InList(MergeLast(m, i), v) <=> InList(m, v) \/ Has(i, v)
           /\ AllWide(m) /\ i.lower < i.upper => AllWide(MergeLast(m, i))
<1>. DEFINE n == Len(m)
            r == MergeLast(m, i)
<1>1. n \in Nat /\ (\A k \in 1 .. n : m[k] \in LegalInterval) /\ (m # <<>> <=> n > 0)
  BY SeqFacts
<1>2. i.lower \in Nat /\ i.upper \in Nat /\ i.lower <= i.upper
  BY LegalFacts
<1>3. \A k \in 1 .. n : m[k].lower \in Nat /\ m[k].upper \in Nat /\ m[k].lower <= m[k].upper
  BY <1>1, LegalFacts
<1>4. CASE m # <<>> /\ Overlap(m[n], i)
  <2>. DEFINE h == Hull(m[n], i)
  <2>1. n \in 1 .. n /\ m[n] \in LegalInterval /\ m[n].lower <= i.lower
    BY <1>1, <1>4
  <2>2. /\ h \in LegalInterval /\ h.lower = m[n].lower
        /\ m[n].lower < m[n].upper => h.lower < h.upper
        /\ \A v \in Value : Has(h, v) <=> Has(m[n], v) \/ Has(i, v)
    BY <1>4, <2>1, HullFacts
  <2>. HIDE DEF h
  <2>3. r = [m EXCEPT ![n] = h]
    BY <1>4 DEF MergeLast, h
  <2>4. /\ r \in Seq(LegalInterval) /\ Len(r) = n
        /\ r[n] = h /\ \A k \in 1 .. n : k # n => r[k] = m[k]
    BY <1>1, <2>1, <2>2, <2>3
  <2>. HIDE DEF r
  <2>5. Separated(r)
    <3>. SUFFICES ASSUME NEW j \in 1 .. n, NEW k \in 1 .. n, j < k PROVE r[j].upper < r[k].lower
      BY <2>4 DEF Separated
    <3>1. m[j].upper < m[k].lower
      BY DEF Separated
    <3>2. r[j] = m[j] /\ r[k].lower = m[k].lower
      BY <2>2, <2>4, <1>1
    <3>. QED
      BY <3>1, <3>2
  <2>6. r[Len(r)].lower <= i.lower
    BY <2>1, <2>2, <2>4
  <2>7. \A v \in Value : InList(r, v) <=> InList(m, v) \/ Has(i, v)
    <3>. SUFFICES ASSUME NEW v \in Value PROVE InList(r, v) <=> InList(m, v) \/ Has(i, v)
      OBVIOUS
    <3>1. Has(r[n], v) <=> Has(m[n], v) \/ Has(i, v)
      BY <2>2, <2>4
    <3>2. \A k \in 1 .. n : k # n => (Has(r[k], v) <=> Has(m[k], v))
      BY <2>4
    <3>. QED
      BY <2>1, <2>4, <3>1, <3>2 DEF InList
  <2>8. AllWide(m) => AllWide(r)
    BY <2>1, <2>2, <2>4 DEF AllWide
  <2>. QED
    BY <1>1, <1>4, <2>4, <2>5, <2>6, <2>7, <2>8 DEF r
<1>5. CASE ~(m # <<>> /\ Overlap(m[n], i))
  <2>1. r = Append(m, i)
    BY <1>5 DEF MergeLast
  <2>2. /\ r \in Seq(LegalInterval) /\ Len(r) = n + 1
        /\ r[n + 1] = i /\ \A k \in 1 .. n : r[k] = m[k]
        /\ \A v \in Value : InList(r, v) <=> InList(m, v) \/ Has(i, v)
    BY <2>1, AppendFacts
  <2>. HIDE DEF r
  <2>3. \A k \in 1 .. n : m[k].upper < i.lower
    <3>. SUFFICES ASSUME NEW k \in 1 .. n PROVE m[k].upper < i.lower
      OBVIOUS
    <3>1. n \in 1 .. n /\ m[n] \in LegalInterval /\ m # <<>> /\ m[n].lower <= i.lower
      BY <1>1
    <3>2. m[n].upper < i.lower
      BY <1>5, <3>1, NoOverlap
    <3>3. CASE k = n
      BY <3>2, <3>3
    <3>4. CASE k # n
      <4>1. k < n
        BY <1>1, <3>4
      <4>2. m[k].upper < m[n].lower
        BY <3>1, <4>1 DEF Separated
      <4>. QED
        BY <1>2, <1>3, <3>1, <4>2
    <3>. QED
      BY <3>3, <3>4
  <2>4. Separated(r)
    <3>. SUFFICES ASSUME NEW j \in 1 .. n + 1, NEW k \in 1 .. n + 1, j < k
                  PROVE  r[j].upper < r[k].lower
      BY <2>2 DEF Separated
    <3>1. j \in 1 .. n /\ (k = n + 1 \/ k \in 1 .. n)
      BY <1>1
    <3>. QED
      BY <2>2, <2>3, <3>1 DEF Separated
  <2>5. AllWide(m) /\ i.lower < i.upper => AllWide(r)
    <3>1. \A k \in 1 .. n + 1 : k = n + 1 \/ k \in 1 .. n
      BY <1>1
    <3>. QED
      BY <2>2, <3>1 DEF AllWide
  <2>. QED
    BY <1>1, <1>2, <2>2, <2>4, <2>5 DEF r
<1>. QED
  BY <1>4, <1>5

\* The points of an interval, at twice its bounds and with both of them: two
\* intervals have one in common when they overlap or touch.
Touches(i, x) == 2 * i.lower <= x /\ x <= 2 * i.upper
Touched(s, x) == \E k \in 1 .. Len(s) : Touches(s[k], x)

\* The hull of two intervals that overlap has the points of both, and no other.
LEMMA HullTouches ==
    ASSUME NEW a \in LegalInterval, NEW b \in LegalInterval, Overlap(a, b), NEW x \in Int
    PROVE  Touches(Hull(a, b), x) <=> Touches(a, x) \/ Touches(b, x)
<1>1. /\ a.lower \in Nat /\ a.upper \in Nat /\ b.lower \in Nat /\ b.upper \in Nat
      /\ a.lower <= a.upper /\ b.lower <= b.upper
  BY LegalFacts
<1>2. /\ Hull(a, b).lower = IF a.lower <= b.lower THEN a.lower ELSE b.lower
      /\ Hull(a, b).upper = IF a.upper <= b.upper THEN b.upper ELSE a.upper
  BY DEF Hull, Itv, Least, Greatest
<1>. QED
  BY <1>1, <1>2 DEF Overlap, Touches

LEMMA AppendTouches ==
    ASSUME NEW s \in Seq(LegalInterval), NEW i \in LegalInterval, NEW x
    PROVE  Touched(Append(s, i), x) <=> Touched(s, x) \/ Touches(i, x)
<1>1. PICK r : r = Append(s, i)
  OBVIOUS
<1>2. /\ Len(r) = Len(s) + 1 /\ r[Len(s) + 1] = i /\ \A k \in 1 .. Len(s) : r[k] = s[k]
      /\ Len(s) \in Nat
  BY <1>1, AppendFacts, SeqFacts
<1>3. 1 .. Len(r) = (1 .. Len(s)) \cup {Len(s) + 1}
  BY <1>2
<1>4. Touched(r, x) <=> Touched(s, x) \/ Touches(i, x)
  BY <1>2, <1>3 DEF Touched
<1>. QED
  BY <1>1, <1>4

\* One iteration adds the points of the new interval.
LEMMA MergeLastTouches ==
    ASSUME NEW m \in Seq(LegalInterval), NEW i \in LegalInterval, NEW x \in Int
    PROVE  Touched(MergeLast(m, i), x) <=> Touched(m, x) \/ Touches(i, x)
<1>. DEFINE n == Len(m)
<1>1. n \in Nat /\ (\A k \in 1 .. n : m[k] \in LegalInterval) /\ (m # <<>> <=> n > 0)
  BY SeqFacts
<1>2. CASE m # <<>> /\ Overlap(m[n], i)
  <2>1. n \in 1 .. n /\ m[n] \in LegalInterval
    BY <1>1, <1>2
  <2>2. Touches(Hull(m[n], i), x) <=> Touches(m[n], x) \/ Touches(i, x)
    BY <1>2, <2>1, HullTouches
  <2>3. PICK h : h = Hull(m[n], i)
    OBVIOUS
  <2>4. PICK r : r = [m EXCEPT ![n] = h]
    OBVIOUS
  <2>5. r = MergeLast(m, i)
    BY <1>2, <2>3, <2>4 DEF MergeLast
  <2>6. Len(r) = n /\ r[n] = h /\ \A k \in 1 .. n : k # n => r[k] = m[k]
    BY <1>1, <2>1, <2>4
  <2>7. Touched(r, x) <=> Touched(m, x) \/ Touches(i, x)
    <3>. HIDE DEF n
    <3>1. Touches(r[n], x) <=> Touches(m[n], x) \/ Touches(i, x)
      BY <2>2, <2>3, <2>6
    <3>2. \A k \in 1 .. n : k # n => (Touches(r[k], x) <=> Touches(m[k], x))
      BY <2>6
    <3>3. Touched(r, x) <=> \E k \in 1 .. n : Touches(r[k], x)
      BY <2>6 DEF Touched
    <3>4. Touched(m, x) <=> \E k \in 1 .. n : Touches(m[k], x)
      BY DEF Touched, n
    <3>. QED
      BY <2>1, <3>1, <3>2, <3>3, <3>4
  <2>. QED
    BY <2>5, <2>7
<1>3. CASE ~(m # <<>> /\ Overlap(m[n], i))
  <2>1. MergeLast(m, i) = Append(m, i)
    BY <1>3 DEF MergeLast
  <2>. QED
    BY <2>1, AppendTouches
<1>. QED
  BY <1>2, <1>3

\* An interval that is not beside i holds neither of the points next to its bounds.
LEMMA NotBeside ==
    ASSUME NEW i \in LegalInterval, NEW e \in LegalInterval,
           e = i \/ e.upper < i.lower \/ i.upper < e.lower
    PROVE  ~Touches(e, 2 * i.lower - 1) /\ ~Touches(e, 2 * i.upper + 1)
<1>1. PICK a \in Nat, b \in Nat : a = i.lower /\ b = i.upper /\ a <= b
  BY LegalFacts
<1>2. PICK c \in Nat, d \in Nat : c = e.lower /\ d = e.upper /\ c <= d
  BY LegalFacts
<1>3. (c = a /\ d = b) \/ d < a \/ b < c
  BY <1>1, <1>2
<1>4. /\ ~(2 * c <= 2 * a - 1 /\ 2 * a - 1 <= 2 * d)
      /\ ~(2 * c <= 2 * b + 1 /\ 2 * b + 1 <= 2 * d)
  BY <1>1, <1>2, <1>3
<1>. QED
  BY <1>1, <1>2, <1>4 DEF Touches

\* An interval is in a list without neighbours that touch exactly when all of its
\* points are in the list and the points next to its bounds are not.
LEMMA MemberTouches ==
    ASSUME NEW m \in Seq(LegalInterval), Separated(m), NEW i \in LegalInterval
    PROVE  (\E k \in 1 .. Len(m) : m[k] = i)
             <=> /\ \A x \in Int : Touches(i, x) => Touched(m, x)
                 /\ ~Touched(m, 2 * i.lower - 1) /\ ~Touched(m, 2 * i.upper + 1)
<1>1. /\ Len(m) \in Nat
      /\ \A k \in 1 .. Len(m) : /\ m[k] \in LegalInterval
                                /\ m[k].lower \in Nat /\ m[k].upper \in Nat
                                /\ m[k].lower <= m[k].upper
  BY SeqFacts, LegalFacts
<1>2. i.lower \in Nat /\ i.upper \in Nat /\ i.lower <= i.upper
  BY LegalFacts
<1>3. \A j, k \in 1 .. Len(m) : j = k \/ m[j].upper < m[k].lower \/ m[k].upper < m[j].lower
  <2>. SUFFICES ASSUME NEW j \in 1 .. Len(m), NEW k \in 1 .. Len(m), j # k
                PROVE  m[j].upper < m[k].lower \/ m[k].upper < m[j].lower
    OBVIOUS
  <2>1. j < k \/ k < j
    BY <1>1
  <2>. QED
    BY <2>1 DEF Separated
<1>4. ASSUME NEW k \in 1 .. Len(m), m[k] = i
      PROVE  /\ \A x \in Int : Touches(i, x) => Touched(m, x)
             /\ ~Touched(m, 2 * i.lower - 1) /\ ~Touched(m, 2 * i.upper + 1)
  <2>1. \A x \in Int : Touches(i, x) => Touched(m, x)
    BY <1>4 DEF Touched
  <2>2. ASSUME NEW j \in 1 .. Len(m)
        PROVE  ~Touches(m[j], 2 * i.lower - 1) /\ ~Touches(m[j], 2 * i.upper + 1)
    <3>1. j = k \/ m[j].upper < i.lower \/ i.upper < m[j].lower
      BY <1>3, <1>4
    <3>. QED
      BY <1>1, <1>4, <3>1, NotBeside
  <2>. QED
    BY <2>1, <2>2 DEF Touched
<1>5. ASSUME \A x \in Int : Touches(i, x) => Touched(m, x),
             ~Touched(m, 2 * i.lower - 1), ~Touched(m, 2 * i.upper + 1)
      PROVE  \E k \in 1 .. Len(m) : m[k] = i
  <2>1. 2 * i.lower \in Int /\ Touches(i, 2 * i.lower)
    BY <1>2 DEF Touches
  <2>2. PICK k \in 1 .. Len(m) : Touches(m[k], 2 * i.lower)
    BY <1>5, <2>1 DEF Touched
  <2>3. ~Touches(m[k], 2 * i.lower - 1) /\ ~Touches(m[k], 2 * i.upper + 1)
    BY <1>5 DEF Touched
  <2>4. m[k].lower = i.lower
    BY <1>1, <1>2, <2>2, <2>3, SMTT(30) DEF Touches
  <2>5. m[k].upper <= i.upper
    BY <1>1, <1>2, <2>3, <2>4 DEF Touches
  <2>6. ASSUME m[k].upper < i.upper PROVE FALSE
    <3>1. /\ 2 * m[k].upper + 1 \in Int /\ Touches(i, 2 * m[k].upper + 1)
          /\ ~Touches(m[k], 2 * m[k].upper + 1)
      BY <1>1, <1>2, <2>4, <2>6, SMTT(30) DEF Touches
    <3>2. PICK j \in 1 .. Len(m) : Touches(m[j], 2 * m[k].upper + 1)
      BY <1>5, <3>1 DEF Touched
    <3>3. m[j].upper < m[k].lower \/ m[k].upper < m[j].lower
      BY <1>3, <3>1, <3>2
    <3>. QED
      BY <1>1, <3>2, <3>3, SMTT(30) DEF Touches
  <2>7. m[k].upper = i.upper
    BY <1>1, <1>2, <2>5, <2>6
  <2>8. m[k] = i
    BY <1>1, <2>4, <2>7, LegalFacts
  <2>. QED
    BY <2>8
<1>. QED
  BY <1>4, <1>5

\* In such a list the lower bounds grow.
LEMMA SeparatedGrows ==
    ASSUME NEW s \in Seq(LegalInterval), Separated(s),
           NEW j \in 1 .. Len(s), NEW k \in 1 .. Len(s), j < k
    PROVE  s[j].lower \in Nat /\ s[k].lower \in Nat /\ s[j].lower < s[k].lower
<1>1. /\ s[j].lower \in Nat /\ s[j].upper \in Nat /\ s[k].lower \in Nat
      /\ s[j].lower <= s[j].upper
  BY SeqFacts, LegalFacts
<1>2. s[j].upper < s[k].lower
  BY DEF Separated
<1>. QED
  BY <1>1, <1>2

\* Every interval of r is in s.
Includes(s, r) == \A k \in 1 .. Len(r) : \E j \in 1 .. Len(s) : s[j] = r[k]

\* The first n intervals of r are those of s.
SameFirst(r, s, n) == n <= Len(s) /\ \A j \in 1 .. n : s[j] = r[j]

\* Two such lists with the same intervals: where one agrees with the other up to
\* an index, it agrees at the next.
LEMMA SameNext ==
    ASSUME NEW r \in Seq(LegalInterval), Separated(r), NEW s \in Seq(LegalInterval), Separated(s),
           Includes(s, r), Includes(r, s),
           NEW n \in Nat, n + 1 <= Len(r), SameFirst(r, s, n)
    PROVE  SameFirst(r, s, n + 1)
<1>1. /\ Len(r) \in Nat /\ Len(s) \in Nat /\ n + 1 \in 1 .. Len(r)
      /\ n <= Len(s) /\ \A j \in 1 .. n : j \in 1 .. Len(r) /\ j \in 1 .. Len(s) /\ s[j] = r[j]
  BY SeqFacts DEF SameFirst
<1>2. PICK j \in 1 .. Len(s) : s[j] = r[n + 1]
  BY <1>1 DEF Includes
<1>3. ASSUME j < n + 1 PROVE FALSE
  <2>1. j \in 1 .. n
    BY <1>1, <1>3
  <2>2. j \in 1 .. Len(r) /\ r[j] = r[n + 1]
    BY <1>1, <1>2, <2>1
  <2>3. r[j].lower \in Nat /\ r[j].lower < r[n + 1].lower
    BY <1>1, <1>3, <2>2, SeparatedGrows
  <2>. QED
    BY <2>2, <2>3
<1>4. n + 1 \in 1 .. Len(s)
  BY <1>1, <1>3
<1>5. ASSUME n + 1 < j PROVE FALSE
  <2>1. PICK k \in 1 .. Len(r) : r[k] = s[n + 1]
    BY <1>4 DEF Includes
  <2>2. s[n + 1].lower \in Nat /\ s[j].lower \in Nat /\ s[n + 1].lower < s[j].lower
    BY <1>4, <1>5, SeparatedGrows
  <2>3. CASE k < n + 1
    <3>1. k \in 1 .. n
      BY <1>1, <2>3
    <3>2. k \in 1 .. Len(s) /\ s[k] = s[n + 1]
      BY <1>1, <2>1, <3>1
    <3>3. s[k].lower < s[n + 1].lower
      BY <1>4, <2>3, <3>2, SeparatedGrows
    <3>. QED
      BY <2>2, <3>2, <3>3
  <2>4. CASE k = n + 1
    BY <1>2, <2>1, <2>2, <2>4
  <2>5. CASE n + 1 < k
    <3>1. r[n + 1].lower < r[k].lower
      BY <1>1, <2>5, SeparatedGrows
    <3>. QED
      BY <1>2, <2>1, <2>2, <3>1
  <2>. QED
    BY <1>1, <2>3, <2>4, <2>5
<1>6. j = n + 1
  BY <1>1, <1>3, <1>5
<1>7. \A l \in 1 .. n + 1 : l \in 1 .. n \/ l = n + 1
  OBVIOUS
<1>8. \A l \in 1 .. n + 1 : s[l] = r[l]
  BY <1>1, <1>2, <1>6, <1>7
<1>. QED
  BY <1>4, <1>8 DEF SameFirst

\* The first list is a prefix of the second.
LEMMA SamePrefix ==
    ASSUME NEW r \in Seq(LegalInterval), Separated(r), NEW s \in Seq(LegalInterval), Separated(s),
           Includes(s, r), Includes(r, s)
    PROVE  SameFirst(r, s, Len(r))
<1>. DEFINE S == {n \in 0 .. Len(r) : SameFirst(r, s, n)}
<1>1. Len(r) \in Nat /\ Len(s) \in Nat
  BY SeqFacts
<1>2. 0 \in S
  BY <1>1 DEF SameFirst
<1>3. ASSUME NEW n \in 0 .. Len(r) - 1, n \in S PROVE n + 1 \in S
  <2>1. n + 1 <= Len(r) /\ n + 1 \in 0 .. Len(r) /\ n \in Nat
    BY <1>1
  <2>2. SameFirst(r, s, n)
    BY <1>3
  <2>3. SameFirst(r, s, n + 1)
    BY <2>1, <2>2, SameNext
  <2>. QED
    BY <2>1, <2>3
<1>4. Len(r) \in S
  <2>. HIDE DEF S
  <2>1. 0 .. Len(r) \subseteq S
    BY <1>1, <1>2, <1>3, BoundedInduction
  <2>2. Len(r) \in 0 .. Len(r)
    BY <1>1
  <2>. QED
    BY <2>1, <2>2
<1>. QED
  BY <1>4

\* A list without neighbours that touch is determined by its points.
LEMMA SameTouches ==
    ASSUME NEW r \in Seq(LegalInterval), Separated(r), NEW s \in Seq(LegalInterval), Separated(s),
           \A x \in Int : Touched(r, x) <=> Touched(s, x)
    PROVE  r = s
<1>1. \A i \in LegalInterval : 2 * i.lower - 1 \in Int /\ 2 * i.upper + 1 \in Int
  BY LegalFacts
<1>2. \A i \in LegalInterval : (\E k \in 1 .. Len(r) : r[k] = i)
          <=> /\ \A x \in Int : Touches(i, x) => Touched(r, x)
              /\ ~Touched(r, 2 * i.lower - 1) /\ ~Touched(r, 2 * i.upper + 1)
  BY MemberTouches
<1>3. \A i \in LegalInterval : (\E k \in 1 .. Len(s) : s[k] = i)
          <=> /\ \A x \in Int : Touches(i, x) => Touched(s, x)
              /\ ~Touched(s, 2 * i.lower - 1) /\ ~Touched(s, 2 * i.upper + 1)
  BY MemberTouches
<1>4. \A i \in LegalInterval :
         (\E k \in 1 .. Len(r) : r[k] = i) <=> (\E k \in 1 .. Len(s) : s[k] = i)
  BY <1>1, <1>2, <1>3
<1>5. Includes(s, r) /\ Includes(r, s)
  BY <1>4, SeqFacts DEF Includes
<1>6. SameFirst(r, s, Len(r)) /\ SameFirst(s, r, Len(s))
  BY <1>5, SamePrefix
<1>7. Len(r) = Len(s) /\ \A k \in 1 .. Len(r) : r[k] = s[k]
  BY <1>6, SeqFacts DEF SameFirst
<1>. QED
  BY <1>7, SeqEqual

\* A point of one of the first n intervals of the list.
TouchedBy(s, n, x) == \E i \in Among(s, n) : Touches(i, x)

LEMMA TouchedByAll ==
    ASSUME NEW s, NEW x
    PROVE  TouchedBy(s, Len(s), x) <=> Touched(s, x)
  BY DEF TouchedBy, Among, Touched

LEMMA TouchedByNext ==
    ASSUME NEW s, NEW x, NEW n \in Nat
    PROVE  TouchedBy(s, n + 1, x) <=> TouchedBy(s, n, x) \/ Touches(s[n + 1], x)
<1>1. 1 .. (n + 1) = 1 .. n \cup {n + 1}
  OBVIOUS
<1>. QED
  BY <1>1 DEF TouchedBy, Among

\* The merged list holds the values of the list and its points, and no two of its
\* intervals touch.
LEMMA MergedFacts ==
    ASSUME NEW s \in Seq(LegalInterval)
    PROVE  /\ Merged(s) \in Seq(LegalInterval)
           /\ Separated(Merged(s))
           /\ \A v \in Value : InList(Merged(s), v) <=> InList(s, v)
           /\ AllWide(s) => AllWide(Merged(s))
           /\ Merged(s) = <<>> <=> s = <<>>
           /\ \A x \in Int : Touched(Merged(s), x) <=> Touched(s, x)
<1>1. PICK t : t = SortByLower(s)
  OBVIOUS
<1>. DEFINE n == Len(t)
            D == [k \in 1 .. n |-> [m \in List |-> MergeLast(m, t[k])]]
            Good(m, k) == /\ Separated(m)
                          /\ m = <<>> <=> k = 0
                          /\ k > 0 => m[Len(m)].lower <= t[k].lower
                          /\ \A v \in Value : InList(m, v) <=> HeldBy(t, k, v)
                          /\ \A x \in Int : Touched(m, x) <=> TouchedBy(t, k, x)
                          /\ AllWide(s) => AllWide(m)
            P == [k \in 0 .. n |-> {m \in Seq(LegalInterval) : Good(m, k)}]
<1>2. /\ t \in Seq(LegalInterval) /\ Len(t) = Len(s) /\ SortedByLower(t)
      /\ Among(t, Len(t)) = Among(s, Len(s))
  BY <1>1, SortFacts
<1>3. /\ n \in Nat
      /\ \A k \in 1 .. n : t[k] \in LegalInterval /\ t[k] \in Interval /\ t[k].lower \in Nat
  BY <1>2, LegalFacts
<1>4. AllWide(s) => \A k \in 1 .. n : t[k].lower < t[k].upper
  BY <1>2 DEF AllWide, Among
<1>5. <<>> \in List
  BY DEF List
<1>6. D \in [1 .. n -> [List -> List]]
  BY <1>3, MergeLastType
<1>7. <<>> \in P[0]
  <2>1. Good(<<>>, 0)
    <3>1. /\ \A v : ~InList(<<>>, v) /\ ~HeldBy(t, 0, v)
          /\ \A x : ~Touched(<<>>, x) /\ ~TouchedBy(t, 0, x)
      BY DEF InList, HeldBy, Touched, TouchedBy, Among
    <3>2. Separated(<<>>) /\ AllWide(<<>>)
      BY DEF Separated, AllWide
    <3>. QED
      BY <3>1, <3>2
  <2>2. <<>> \in Seq(LegalInterval) /\ 0 \in 0 .. n
    BY <1>3
  <2>. HIDE DEF Good
  <2>. QED
    BY <2>1, <2>2
<1>8. ASSUME NEW k \in 1 .. n, NEW m \in List, m \in P[k - 1] PROVE D[k][m] \in P[k]
  <2>1. k - 1 \in 0 .. n /\ k \in 0 .. n /\ (k - 1) + 1 = k /\ k - 1 \in Nat
    BY <1>3
  <2>2. m \in Seq(LegalInterval) /\ Good(m, k - 1)
    <3>. HIDE DEF Good
    <3>. QED
      BY <1>8, <2>1
  <2>. DEFINE r == MergeLast(m, t[k])
  <2>3. D[k][m] = r
    OBVIOUS
  <2>4. m # <<>> => m[Len(m)].lower <= t[k].lower
    <3>. SUFFICES ASSUME m # <<>> PROVE m[Len(m)].lower <= t[k].lower
      OBVIOUS
    <3>1. k - 1 \in 1 .. n /\ k - 1 < k /\ k - 1 > 0
      BY <2>1, <2>2
    <3>2. m[Len(m)].lower <= t[k - 1].lower
      BY <2>2, <3>1
    <3>3. t[k - 1].lower <= t[k].lower
      BY <1>2, <3>1 DEF SortedByLower
    <3>4. m[Len(m)].lower \in Nat
      <4>1. Len(m) \in 1 .. Len(m)
        BY <2>2, SeqFacts
      <4>. QED
        BY <2>2, <4>1, LegalFacts
    <3>. QED
      BY <1>3, <3>1, <3>2, <3>3, <3>4
  <2>5. /\ r \in Seq(LegalInterval) \ {<<>>}
        /\ Separated(r)
        /\ r[Len(r)].lower <= t[k].lower
        /\ \A v \in Value : InList(r, v) <=> InList(m, v) \/ Has(t[k], v)
        /\ AllWide(m) /\ t[k].lower < t[k].upper => AllWide(r)
    BY <1>3, <2>2, <2>4, MergeLastFacts
  <2>8. \A x \in Int : Touched(r, x) <=> Touched(m, x) \/ Touches(t[k], x)
    BY <1>3, <2>2, MergeLastTouches
  <2>. HIDE DEF r
  <2>6. Good(r, k)
    <3>1. \A v \in Value : InList(r, v) <=> HeldBy(t, k, v)
      <4>1. \A v : HeldBy(t, k, v) <=> HeldBy(t, k - 1, v) \/ Has(t[k], v)
        BY <2>1, HeldByNext
      <4>. QED
        BY <2>2, <2>5, <4>1
    <3>2. AllWide(s) => AllWide(r)
      BY <1>4, <2>2, <2>5
    <3>3. \A x \in Int : Touched(r, x) <=> TouchedBy(t, k, x)
      <4>1. \A x : TouchedBy(t, k, x) <=> TouchedBy(t, k - 1, x) \/ Touches(t[k], x)
        BY <2>1, TouchedByNext
      <4>. QED
        BY <2>2, <2>8, <4>1
    <3>. QED
      BY <2>1, <2>5, <3>1, <3>2, <3>3
  <2>. HIDE DEF Good, D
  <2>7. r \in P[k]
    BY <2>1, <2>5, <2>6
  <2>. QED
    BY <2>3, <2>7
<1>9. Merged(s) = Loop(D, <<>>, n)[n]
  BY <1>1 DEF Merged
<1>10. Merged(s) \in P[n]
  <2>. HIDE DEF D, P, Good, n
  <2>1. Loop(D, <<>>, n)[n] \in P[n]
    BY <1>3, <1>5, <1>6, <1>7, <1>8, LoopInvariant, SMTT(30)
  <2>. QED
    BY <1>9, <2>1
<1>11. Merged(s) \in Seq(LegalInterval) /\ Good(Merged(s), n)
  <2>. HIDE DEF Good
  <2>. QED
    BY <1>3, <1>10
<1>12. ASSUME NEW v \in Value PROVE InList(Merged(s), v) <=> InList(s, v)
  <2>1. HeldBy(t, Len(t), v) <=> HeldBy(s, Len(s), v)
    BY <1>2 DEF HeldBy
  <2>. QED
    BY <1>11, <2>1, HeldByAll
<1>13. s = <<>> <=> n = 0
  BY <1>2
<1>14. ASSUME NEW x \in Int PROVE Touched(Merged(s), x) <=> Touched(s, x)
  <2>1. TouchedBy(t, Len(t), x) <=> TouchedBy(s, Len(s), x)
    BY <1>2 DEF TouchedBy
  <2>. QED
    BY <1>11, <2>1, TouchedByAll
<1>. QED
  BY <1>11, <1>12, <1>13, <1>14

\* The merged list is the only list with the points of s in which no two
\* intervals touch: the order of equal lower bounds does not matter.
LEMMA MergedIsUnique ==
    ASSUME NEW s \in Seq(LegalInterval), NEW r \in Seq(LegalInterval), Separated(r),
           \A x \in Int : Touched(r, x) <=> Touched(s, x)
    PROVE  r = Merged(s)
<1>1. PICK m \in Seq(LegalInterval) : m = Merged(s)
  BY MergedFacts
<1>2. Separated(m) /\ \A x \in Int : Touched(m, x) <=> Touched(s, x)
  BY <1>1, MergedFacts
<1>3. \A x \in Int : Touched(r, x) <=> Touched(m, x)
  BY <1>2
<1>4. r = m
  BY <1>2, <1>3, SameTouches
<1>. QED
  BY <1>1, <1>4

------------------------------------------------------------------------------
(* The removal. *)

\* The list ends at x at the latest.
EndsBy(s, x) == \A k \in 1 .. Len(s) : s[k].upper <= x

LEMMA EndsByLater ==
    ASSUME NEW s \in Seq(LegalInterval), NEW x \in Nat, NEW y \in Nat, x <= y, EndsBy(s, x)
    PROVE  EndsBy(s, y)
<1>. SUFFICES ASSUME NEW k \in 1 .. Len(s) PROVE s[k].upper <= y
  BY DEF EndsBy
<1>1. s[k].upper \in Nat /\ s[k].upper <= x
  BY SeqFacts, LegalFacts DEF EndsBy
<1>. QED
  BY <1>1

LEMMA CutType ==
    ASSUME NEW acc \in Splitting, NEW r \in Interval
    PROVE  Cut(acc, r) \in Splitting
<1>1. /\ acc.ret \in List /\ acc.piece \in Interval
      /\ acc.piece.lower \in Value /\ acc.piece.upper \in Value
      /\ r.lower \in Value /\ r.upper \in Value
  BY DEF Splitting, Interval
<1>2. LeftOf(acc.piece, r) \in Interval
  BY <1>1, EmptyLegal DEF LeftOf, Itv, Interval, LegalInterval
<1>3. Append(acc.ret, Itv(acc.piece.lower, r.lower)) \in List
  <2>1. Itv(acc.piece.lower, r.lower) \in Interval
    BY <1>1 DEF Itv, Interval
  <2>. QED
    BY <1>1, <2>1 DEF List
<1>. QED
  BY <1>1, <1>2, <1>3 DEF Cut, Splitting

\* The pieces of a merged interval, one removed interval after the other.
Cutting(ret, merged, removed) ==
    Loop([k \in 1 .. Len(removed) |-> [acc \in Splitting |-> Cut(acc, removed[k])]],
         [ret |-> ret, piece |-> merged], Len(removed))[Len(removed)]

LEMMA CuttingType ==
    ASSUME NEW ret \in List, NEW i \in Interval, NEW rem \in List
    PROVE  Cutting(ret, i, rem) \in Splitting
<1>. DEFINE n == Len(rem)
            D == [k \in 1 .. n |-> [acc \in Splitting |-> Cut(acc, rem[k])]]
            c == [ret |-> ret, piece |-> i]
<1>1. n \in Nat /\ \A k \in 1 .. n : rem[k] \in Interval
  BY DEF List
<1>2. c \in Splitting
  BY DEF Splitting
<1>3. D \in [1 .. n -> [Splitting -> Splitting]]
  BY <1>1, CutType
<1>4. Cutting(ret, i, rem) = Loop(D, c, n)[n]
  BY DEF Cutting
<1>. HIDE DEF D, c, n
<1>5. Loop(D, c, n) \in [0 .. n -> Splitting]
  BY <1>1, <1>2, <1>3, LoopFacts
<1>. QED
  BY <1>1, <1>4, <1>5

LEMMA AppendSplitType ==
    ASSUME NEW ret \in List, NEW i \in Interval, NEW rem \in List
    PROVE  AppendSplit(ret, i, rem) \in List
<1>1. Cutting(ret, i, rem) \in Splitting
  BY CuttingType
<1>2. PICK last : last = Cutting(ret, i, rem)
  OBVIOUS
<1>3. last.ret \in List /\ last.piece \in Interval
  BY <1>1, <1>2 DEF Splitting
<1>4. AppendSplit(ret, i, rem) = IF Width(last.piece) > 0 THEN Append(last.ret, last.piece) ELSE last.ret
  BY <1>2 DEF AppendSplit, Cutting
<1>. QED
  BY <1>3, <1>4 DEF List

\* What holds while the merged interval i is cut by the first k of the removed
\* intervals, for what comes after `ret`.
CutInv(acc, ret, i, rem, k) ==
    /\ acc.ret \in Seq(LegalInterval) /\ acc.piece \in LegalInterval
    /\ InOrder(acc.ret) /\ AllWide(acc.ret) /\ EndsBy(acc.ret, i.upper)
    /\ acc.piece.upper <= i.upper
    /\ acc.piece.lower < acc.piece.upper => EndsBy(acc.ret, acc.piece.lower)
    /\ \A v \in Value : Has(acc.piece, v) => Has(i, v) /\ ~HeldBy(rem, k, v)
    /\ \A v \in Value : InList(acc.ret, v) <=>
         InList(ret, v) \/ (Has(i, v) /\ ~InList(rem, v) /\ ~Has(acc.piece, v))

\* A list that ends before an interval stays in order with it.
LEMMA AppendInOrder ==
    ASSUME NEW s \in Seq(LegalInterval), NEW i \in LegalInterval,
           InOrder(s), AllWide(s), EndsBy(s, i.lower), i.lower < i.upper
    PROVE  /\ Append(s, i) \in Seq(LegalInterval)
           /\ InOrder(Append(s, i)) /\ AllWide(Append(s, i)) /\ EndsBy(Append(s, i), i.upper)
           /\ \A v \in Value : InList(Append(s, i), v) <=> InList(s, v) \/ Has(i, v)
<1>. DEFINE n == Len(s)
            r == Append(s, i)
<1>1. n \in Nat /\ \A k \in 1 .. n : s[k].upper \in Nat
  BY SeqFacts, LegalFacts
<1>2. i.lower \in Nat /\ i.upper \in Nat
  BY LegalFacts
<1>3. /\ r \in Seq(LegalInterval) /\ Len(r) = n + 1
      /\ r[n + 1] = i /\ \A k \in 1 .. n : r[k] = s[k]
      /\ \A v \in Value : InList(r, v) <=> InList(s, v) \/ Has(i, v)
  BY AppendFacts
<1>4. \A k \in 1 .. n + 1 : k = n + 1 \/ k \in 1 .. n
  BY <1>1
<1>. HIDE DEF r, n
<1>5. InOrder(r)
  <2>. SUFFICES ASSUME NEW j \in 1 .. n + 1, NEW k \in 1 .. n + 1, j < k PROVE r[j].upper <= r[k].lower
    BY <1>3 DEF InOrder
  <2>1. j \in 1 .. n /\ (k = n + 1 \/ k \in 1 .. n)
    BY <1>1
  <2>. QED
    BY <1>3, <2>1 DEF InOrder, EndsBy, n
<1>6. AllWide(r)
  BY <1>3, <1>4 DEF AllWide, n
<1>7. EndsBy(r, i.upper)
  <2>. SUFFICES ASSUME NEW k \in 1 .. n + 1 PROVE r[k].upper <= i.upper
    BY <1>3 DEF EndsBy
  <2>1. CASE k = n + 1
    BY <1>2, <1>3, <2>1
  <2>2. CASE k \in 1 .. n
    <3>1. s[k].upper <= i.lower
      BY <2>2 DEF EndsBy, n
    <3>. QED
      BY <1>1, <1>2, <1>3, <2>2, <3>1
  <2>. QED
    BY <1>4, <2>1, <2>2
<1>. QED
  BY <1>3, <1>5, <1>6, <1>7 DEF r

LEMMA CutStep ==
    ASSUME NEW ret, NEW i \in LegalInterval,
           NEW rem \in Seq(LegalInterval), Separated(rem),
           NEW k \in 1 .. Len(rem), NEW acc, CutInv(acc, ret, i, rem, k - 1)
    PROVE  CutInv(Cut(acc, rem[k]), ret, i, rem, k)
<1>1. PICK p : p = acc.piece
  OBVIOUS
<1>2. PICK old : old = acc.ret
  OBVIOUS
<1>3. PICK r : r = rem[k]
  OBVIOUS
<1>4. /\ old \in Seq(LegalInterval) /\ p \in LegalInterval
      /\ InOrder(old) /\ AllWide(old) /\ EndsBy(old, i.upper)
      /\ p.upper <= i.upper
      /\ p.lower < p.upper => EndsBy(old, p.lower)
      /\ \A v \in Value : Has(p, v) => Has(i, v) /\ ~HeldBy(rem, k - 1, v)
      /\ \A v \in Value : InList(old, v) <=>
           InList(ret, v) \/ (Has(i, v) /\ ~InList(rem, v) /\ ~Has(p, v))
  BY <1>1, <1>2 DEF CutInv
<1>5. k - 1 \in Nat /\ (k - 1) + 1 = k /\ Len(rem) \in Nat
  BY SeqFacts
<1>6. r \in LegalInterval /\ \A j \in 1 .. Len(rem) : rem[j] \in LegalInterval
  BY <1>3, SeqFacts
<1>7. /\ p.lower \in Nat /\ p.upper \in Nat /\ r.lower \in Nat /\ r.upper \in Nat
      /\ i.lower \in Nat /\ i.upper \in Nat
      /\ p.lower \in Value /\ r.lower \in Value
      /\ p.lower <= p.upper /\ r.lower <= r.upper
  BY <1>4, <1>6, LegalFacts
<1>8. PICK q : q = LeftOf(p, r)
  OBVIOUS
<1>9. /\ q \in LegalInterval /\ q.upper <= p.upper
      /\ q.lower < q.upper => p.lower <= q.lower
      /\ CutsInTwo(p, r) => q = Itv(r.upper, p.upper)
  BY <1>4, <1>6, <1>8, LeftOfLegal
<1>10. \A v \in Value :
         /\ Has(q, v) => Has(p, v) /\ ~Has(r, v)
         /\ Has(p, v) => \/ Has(r, v) \/ Has(q, v)
                         \/ CutsInTwo(p, r) /\ Has(Itv(p.lower, r.lower), v)
  BY <1>4, <1>6, <1>8, LeftOfHas
<1>11. q.lower \in Nat /\ q.upper \in Nat
  BY <1>9, LegalFacts
<1>12. \A v : HeldBy(rem, k, v) <=> HeldBy(rem, k - 1, v) \/ Has(r, v)
  BY <1>3, <1>5, HeldByNext
<1>13. q.upper <= i.upper
  BY <1>4, <1>7, <1>9, <1>11
<1>14. \A v \in Value : Has(q, v) => Has(i, v) /\ ~HeldBy(rem, k, v)
  BY <1>4, <1>10, <1>12
<1>15. CASE CutsInTwo(p, r)
  <2>1. PICK x : x = Itv(p.lower, r.lower)
    OBVIOUS
  <2>2. p.lower < r.lower /\ p.upper > r.upper
    BY <1>15 DEF CutsInTwo
  <2>3. x \in LegalInterval /\ x.lower = p.lower /\ x.upper = r.lower
    BY <1>7, <2>1, <2>2, ItvLegal
  <2>4. q.lower = r.upper /\ q.upper = p.upper
    BY <1>9, <1>15 DEF Itv
  <2>5. EndsBy(old, x.lower)
    BY <1>4, <1>7, <2>2, <2>3
  <2>6. PICK new : new = Append(old, x)
    OBVIOUS
  <2>7. /\ new \in Seq(LegalInterval)
        /\ InOrder(new) /\ AllWide(new) /\ EndsBy(new, x.upper)
        /\ \A v \in Value : InList(new, v) <=> InList(old, v) \/ Has(x, v)
    BY <1>4, <1>7, <2>2, <2>3, <2>5, <2>6, AppendInOrder
  <2>9. EndsBy(new, i.upper) /\ EndsBy(new, q.lower)
    <3>1. x.upper \in Nat /\ x.upper <= q.lower /\ x.upper <= i.upper
      BY <1>4, <1>7, <2>2, <2>3, <2>4
    <3>. QED
      BY <1>7, <1>11, <2>7, <3>1, EndsByLater
  <2>10. Cut(acc, r) = [ret |-> new, piece |-> q]
    BY <1>1, <1>2, <1>8, <1>15, <2>1, <2>6 DEF Cut
  <2>11. ASSUME NEW v \in Value, Has(x, v)
         PROVE  Has(i, v) /\ ~InList(rem, v) /\ ~Has(q, v)
    <3>1. v \in Nat /\ p.lower <= v /\ v < r.lower
      BY <2>3, <2>11 DEF Has, Value
    <3>2. Has(p, v)
      BY <1>7, <2>2, <3>1 DEF Has
    <3>3. Has(i, v) /\ ~HeldBy(rem, k - 1, v)
      BY <1>4, <3>2
    <3>4. ~Has(q, v)
      BY <1>7, <2>4, <3>1 DEF Has
    <3>5. ASSUME NEW j \in 1 .. Len(rem), Has(rem[j], v) PROVE FALSE
      <4>1. CASE j \in 1 .. (k - 1)
        BY <3>3, <3>5, <4>1 DEF HeldBy, Among
      <4>2. CASE j = k
        BY <1>3, <3>1, <3>5, <4>2, <1>7 DEF Has
      <4>3. CASE k < j
        <5>1. rem[k].upper < rem[j].lower
          BY <4>3 DEF Separated
        <5>2. rem[j].lower \in Nat /\ rem[j].lower <= v
          BY <1>6, <3>5, LegalFacts DEF Has
        <5>. QED
          BY <1>3, <1>7, <3>1, <5>1, <5>2
      <4>. QED
        BY <1>5, <4>1, <4>2, <4>3
    <3>. QED
      BY <3>3, <3>4, <3>5 DEF InList
  <2>12. ASSUME NEW v \in Value
         PROVE  InList(new, v) <=>
                  InList(ret, v) \/ (Has(i, v) /\ ~InList(rem, v) /\ ~Has(q, v))
    <3>1. Has(r, v) => InList(rem, v)
      BY <1>3 DEF InList
    <3>. QED
      BY <1>4, <1>10, <2>1, <2>7, <2>11, <3>1
  <2>13. [ret |-> new, piece |-> q].ret = new /\ [ret |-> new, piece |-> q].piece = q
    OBVIOUS
  <2>. QED
    BY <1>3, <1>9, <1>13, <1>14, <2>7, <2>9, <2>10, <2>12, <2>13 DEF CutInv
<1>16. CASE ~CutsInTwo(p, r)
  <2>1. Cut(acc, r) = [ret |-> old, piece |-> q]
    BY <1>1, <1>2, <1>8, <1>16 DEF Cut
  <2>2. q.lower < q.upper => EndsBy(old, q.lower)
    <3>. SUFFICES ASSUME q.lower < q.upper, NEW j \in 1 .. Len(old) PROVE old[j].upper <= q.lower
      BY DEF EndsBy
    <3>1. p.lower <= q.lower /\ p.lower < p.upper
      BY <1>7, <1>9, <1>11, SMTT(30)
    <3>2. old[j].upper <= p.lower
      BY <1>4, <3>1 DEF EndsBy
    <3>3. old[j].upper \in Nat
      BY <1>4, SeqFacts, LegalFacts
    <3>. QED
      BY <1>7, <1>11, <3>1, <3>2, <3>3, SMTT(30)
  <2>3. ASSUME NEW v \in Value
        PROVE  InList(old, v) <=>
                  InList(ret, v) \/ (Has(i, v) /\ ~InList(rem, v) /\ ~Has(q, v))
    <3>1. Has(r, v) => InList(rem, v)
      BY <1>3 DEF InList
    <3>. QED
      BY <1>4, <1>10, <1>16, <3>1
  <2>4. [ret |-> old, piece |-> q].ret = old /\ [ret |-> old, piece |-> q].piece = q
    OBVIOUS
  <2>. QED
    BY <1>3, <1>4, <1>9, <1>13, <1>14, <2>1, <2>2, <2>3, <2>4 DEF CutInv
<1>. QED
  BY <1>15, <1>16

\* One merged interval: the values of it that are not removed are appended.
LEMMA AppendSplitFacts ==
    ASSUME NEW ret \in Seq(LegalInterval), NEW i \in LegalInterval,
           NEW rem \in Seq(LegalInterval), Separated(rem),
           InOrder(ret), AllWide(ret), EndsBy(ret, i.lower)
    PROVE  /\ AppendSplit(ret, i, rem) \in Seq(LegalInterval)
           /\ InOrder(AppendSplit(ret, i, rem)) /\ AllWide(AppendSplit(ret, i, rem))
           /\ EndsBy(AppendSplit(ret, i, rem), i.upper)
           /\ \A v \in Value : InList(AppendSplit(ret, i, rem), v) <=>
                InList(ret, v) \/ (Has(i, v) /\ ~InList(rem, v))
<1>. DEFINE n == Len(rem)
            D == [k \in 1 .. n |-> [acc \in Splitting |-> Cut(acc, rem[k])]]
            c == [ret |-> ret, piece |-> i]
            P == [k \in 0 .. n |-> {acc \in Splitting : CutInv(acc, ret, i, rem, k)}]
<1>1. /\ n \in Nat /\ ret \in List /\ rem \in List /\ i \in Interval
      /\ \A k \in 1 .. n : rem[k] \in Interval
  BY SeqFacts, LegalFacts
<1>2. i.lower \in Nat /\ i.upper \in Nat /\ i.lower <= i.upper
  BY LegalFacts
<1>3. c \in Splitting
  BY <1>1 DEF Splitting
<1>4. D \in [1 .. n -> [Splitting -> Splitting]]
  BY <1>1, CutType
<1>5. CutInv(c, ret, i, rem, 0)
  <2>1. c.ret = ret /\ c.piece = i
    OBVIOUS
  <2>2. EndsBy(ret, i.upper)
    BY <1>2, EndsByLater
  <2>3. \A v : ~HeldBy(rem, 0, v)
    BY DEF HeldBy, Among
  <2>. HIDE DEF c
  <2>. QED
    BY <1>2, <2>1, <2>2, <2>3 DEF CutInv
<1>6. c \in P[0]
  BY <1>1, <1>3, <1>5
<1>7. ASSUME NEW k \in 1 .. n, NEW acc \in Splitting, acc \in P[k - 1] PROVE D[k][acc] \in P[k]
  <2>1. k - 1 \in 0 .. n /\ k \in 0 .. n
    BY <1>1
  <2>2. CutInv(acc, ret, i, rem, k - 1)
    BY <1>7, <2>1
  <2>3. CutInv(Cut(acc, rem[k]), ret, i, rem, k)
    BY <2>2, CutStep
  <2>4. Cut(acc, rem[k]) \in Splitting
    BY <1>1, CutType
  <2>5. Cut(acc, rem[k]) \in P[k]
    BY <2>1, <2>3, <2>4
  <2>6. D[k][acc] = Cut(acc, rem[k])
    OBVIOUS
  <2>. HIDE DEF D, P
  <2>. QED
    BY <2>5, <2>6
<1>8. Cutting(ret, i, rem) = Loop(D, c, n)[n]
  BY DEF Cutting
<1>9. Cutting(ret, i, rem) \in P[n]
  <2>. HIDE DEF D, P, c, n
  <2>1. Loop(D, c, n)[n] \in P[n]
    BY <1>1, <1>3, <1>4, <1>6, <1>7, LoopInvariant, ZenonT(40)
  <2>. QED
    BY <1>8, <2>1
<1>10. PICK last : last = Cutting(ret, i, rem)
  OBVIOUS
<1>11. CutInv(last, ret, i, rem, n)
  BY <1>1, <1>9, <1>10
<1>12. /\ last.ret \in Seq(LegalInterval) /\ last.piece \in LegalInterval
       /\ InOrder(last.ret) /\ AllWide(last.ret) /\ EndsBy(last.ret, i.upper)
       /\ last.piece.upper <= i.upper
       /\ last.piece.lower < last.piece.upper => EndsBy(last.ret, last.piece.lower)
       /\ \A v \in Value : Has(last.piece, v) => Has(i, v) /\ ~InList(rem, v)
       /\ \A v \in Value : InList(last.ret, v) <=>
            InList(ret, v) \/ (Has(i, v) /\ ~InList(rem, v) /\ ~Has(last.piece, v))
  BY <1>11, HeldByAll DEF CutInv
<1>13. AppendSplit(ret, i, rem) = IF Width(last.piece) > 0 THEN Append(last.ret, last.piece) ELSE last.ret
  BY <1>10 DEF AppendSplit, Cutting
<1>14. Width(last.piece) > 0 <=> last.piece.lower < last.piece.upper
  BY <1>12, WidthOfLegal
<1>. HIDE DEF D, P, c, n
<1>15. CASE last.piece.lower < last.piece.upper
  <2>1. PICK new : new = Append(last.ret, last.piece)
    OBVIOUS
  <2>2. /\ new \in Seq(LegalInterval)
        /\ InOrder(new) /\ AllWide(new) /\ EndsBy(new, last.piece.upper)
        /\ \A v \in Value : InList(new, v) <=> InList(last.ret, v) \/ Has(last.piece, v)
    BY <1>12, <1>15, <2>1, AppendInOrder
  <2>3. EndsBy(new, i.upper)
    <3>1. last.piece.upper \in Nat
      BY <1>12, LegalFacts
    <3>. QED
      BY <1>2, <1>12, <2>2, <3>1, EndsByLater
  <2>4. \A v \in Value : InList(new, v) <=> InList(ret, v) \/ (Has(i, v) /\ ~InList(rem, v))
    BY <1>12, <2>2
  <2>5. AppendSplit(ret, i, rem) = new
    BY <1>13, <1>14, <1>15, <2>1
  <2>. QED
    BY <2>2, <2>3, <2>4, <2>5
<1>16. CASE ~(last.piece.lower < last.piece.upper)
  <2>1. AppendSplit(ret, i, rem) = last.ret
    BY <1>13, <1>14, <1>16
  <2>2. \A v \in Value : ~Has(last.piece, v)
    <3>1. last.piece.lower \in Nat /\ last.piece.upper \in Nat
      BY <1>12, LegalFacts
    <3>. QED
      BY <1>16, <3>1 DEF Has, Value
  <2>. QED
    BY <1>12, <2>1, <2>2
<1>. QED
  BY <1>15, <1>16

\* The merged intervals, one after the other.
LEMMA SplitFacts ==
    ASSUME NEW m \in Seq(LegalInterval), Separated(m),
           NEW rem \in Seq(LegalInterval), Separated(rem)
    PROVE  /\ Split(m, rem) \in Seq(LegalInterval)
           /\ InOrder(Split(m, rem)) /\ AllWide(Split(m, rem))
           /\ \A v \in Value : InList(Split(m, rem), v) <=> InList(m, v) /\ ~InList(rem, v)
<1>. DEFINE n == Len(m)
            D == [k \in 1 .. n |-> [ret \in List |-> AppendSplit(ret, m[k], rem)]]
            Good(x, k) == /\ InOrder(x) /\ AllWide(x)
                          /\ \A j \in k + 1 .. n : EndsBy(x, m[j].lower)
                          /\ \A v \in Value : InList(x, v) <=> HeldBy(m, k, v) /\ ~InList(rem, v)
            P == [k \in 0 .. n |-> {x \in Seq(LegalInterval) : Good(x, k)}]
<1>1. /\ n \in Nat /\ rem \in List /\ <<>> \in List
      /\ \A k \in 1 .. n : m[k] \in Interval /\ m[k] \in LegalInterval
                           /\ m[k].lower \in Nat /\ m[k].upper \in Nat
  <2>1. <<>> \in List
    BY DEF List
  <2>. QED
    BY <2>1, SeqFacts, LegalFacts
<1>2. D \in [1 .. n -> [List -> List]]
  BY <1>1, AppendSplitType
<1>3. <<>> \in P[0]
  <2>1. Good(<<>>, 0)
    <3>1. \A v : ~InList(<<>>, v) /\ ~HeldBy(m, 0, v)
      BY DEF InList, HeldBy, Among
    <3>2. InOrder(<<>>) /\ AllWide(<<>>) /\ \A y : EndsBy(<<>>, y)
      BY DEF InOrder, AllWide, EndsBy
    <3>. QED
      BY <3>1, <3>2
  <2>2. <<>> \in Seq(LegalInterval) /\ 0 \in 0 .. n
    BY <1>1
  <2>. HIDE DEF Good
  <2>. QED
    BY <2>1, <2>2
<1>4. ASSUME NEW k \in 1 .. n, NEW x \in List, x \in P[k - 1] PROVE D[k][x] \in P[k]
  <2>1. k - 1 \in 0 .. n /\ k \in 0 .. n /\ (k - 1) + 1 = k /\ k - 1 \in Nat /\ k \in k .. n
    BY <1>1
  <2>2. x \in Seq(LegalInterval) /\ Good(x, k - 1)
    <3>. HIDE DEF Good
    <3>. QED
      BY <1>4, <2>1
  <2>3. EndsBy(x, m[k].lower)
    BY <2>1, <2>2
  <2>4. PICK y : y = AppendSplit(x, m[k], rem)
    OBVIOUS
  <2>5. /\ y \in Seq(LegalInterval) /\ InOrder(y) /\ AllWide(y) /\ EndsBy(y, m[k].upper)
        /\ \A v \in Value : InList(y, v) <=> InList(x, v) \/ (Has(m[k], v) /\ ~InList(rem, v))
    BY <1>1, <2>2, <2>3, <2>4, AppendSplitFacts
  <2>6. D[k][x] = y
    BY <2>4
  <2>7. ASSUME NEW j \in k + 1 .. n PROVE EndsBy(y, m[j].lower)
    <3>1. j \in 1 .. n /\ k < j
      BY <2>1
    <3>2. m[k].upper < m[j].lower
      BY <3>1 DEF Separated
    <3>. QED
      BY <1>1, <2>5, <3>1, <3>2, EndsByLater
  <2>8. \A v \in Value : InList(y, v) <=> HeldBy(m, k, v) /\ ~InList(rem, v)
    <3>1. \A v : HeldBy(m, k, v) <=> HeldBy(m, k - 1, v) \/ Has(m[k], v)
      BY <2>1, HeldByNext
    <3>. QED
      BY <2>2, <2>5, <3>1
  <2>9. Good(y, k)
    BY <2>5, <2>7, <2>8
  <2>. HIDE DEF Good, D
  <2>10. y \in P[k]
    BY <2>1, <2>5, <2>9
  <2>. QED
    BY <2>6, <2>10
<1>5. Split(m, rem) = Loop(D, <<>>, n)[n]
  BY DEF Split
<1>6. Split(m, rem) \in P[n]
  <2>. HIDE DEF D, P, Good, n
  <2>1. Loop(D, <<>>, n)[n] \in P[n]
    BY <1>1, <1>2, <1>3, <1>4, LoopInvariant, ZenonT(40)
  <2>. QED
    BY <1>5, <2>1
<1>7. Split(m, rem) \in Seq(LegalInterval) /\ Good(Split(m, rem), n)
  <2>. HIDE DEF Good
  <2>. QED
    BY <1>1, <1>6
<1>. QED
  BY <1>7, HeldByAll

------------------------------------------------------------------------------
(* The functions, one iteration at a time. *)

\* Two loops whose first n iterations are the same.
SameIterations(E, D, n) == \A k \in 1 .. n : E[k] = D[k]

LEMMA SameLoop ==
    ASSUME NEW X, NEW c \in X, NEW m \in Nat, NEW D \in [1 .. m -> [X -> X]],
           NEW n \in 0 .. m, NEW E \in [1 .. n -> [X -> X]], SameIterations(E, D, n)
    PROVE  Loop(D, c, m) \in [0 .. m -> X] /\ Loop(D, c, m)[n] = Loop(E, c, n)[n]
<1>1. /\ Loop(D, c, m) \in [0 .. m -> X]
      /\ Loop(D, c, m)[0] = c
      /\ \A k \in 1 .. m : Loop(D, c, m)[k] = D[k][Loop(D, c, m)[k - 1]]
  BY LoopFacts
<1>2. n \in Nat
  OBVIOUS
<1>3. /\ Loop(E, c, n) \in [0 .. n -> X]
      /\ Loop(E, c, n)[0] = c
      /\ \A k \in 1 .. n : Loop(E, c, n)[k] = E[k][Loop(E, c, n)[k - 1]]
  BY <1>2, LoopFacts
<1>4. PICK f : /\ f = Loop(D, c, m) /\ f \in [0 .. m -> X]
               /\ f[0] = c /\ \A k \in 1 .. m : f[k] = D[k][f[k - 1]]
  BY <1>1
<1>5. PICK g : /\ g = Loop(E, c, n)
               /\ g[0] = c /\ \A k \in 1 .. n : g[k] = E[k][g[k - 1]]
  BY <1>3
<1>. DEFINE S == {k \in 0 .. n : f[k] = g[k]}
<1>6. 0 \in S
  BY <1>2, <1>4, <1>5
<1>7. ASSUME NEW k \in 0 .. n - 1, k \in S PROVE k + 1 \in S
  <2>1. k + 1 \in 1 .. n /\ k + 1 \in 1 .. m /\ (k + 1) - 1 = k /\ k + 1 \in 0 .. n
    OBVIOUS
  <2>2. f[k] = g[k]
    BY <1>7
  <2>3. f[k + 1] = D[k + 1][f[k]] /\ g[k + 1] = E[k + 1][g[k]]
    BY <1>4, <1>5, <2>1
  <2>4. E[k + 1] = D[k + 1]
    BY <2>1 DEF SameIterations
  <2>. QED
    BY <2>1, <2>2, <2>3, <2>4
<1>8. n \in S
  <2>. HIDE DEF S
  <2>1. 0 .. n \subseteq S
    BY <1>2, <1>6, <1>7, BoundedInduction
  <2>2. n \in 0 .. n
    BY <1>2
  <2>. QED
    BY <2>1, <2>2
<1>. QED
  BY <1>4, <1>5, <1>8

LEMMA SplitNone ==
    ASSUME NEW rem \in List
    PROVE  Split(<<>>, rem) = <<>>
<1>. DEFINE c == <<>>
            n == Len(c)
            D == [k \in 1 .. n |-> [ret \in List |-> AppendSplit(ret, <<>>[k], rem)]]
<1>1. D \in [1 .. n -> [List -> List]] /\ c \in List /\ n \in Nat
  BY DEF List
<1>2. Split(<<>>, rem) = Loop(D, c, n)[n] /\ n = 0
  BY DEF Split
<1>. HIDE DEF D, c, n
<1>3. Loop(D, c, n) \in [0 .. n -> List] /\ Loop(D, c, n)[0] = c
  BY <1>1, LoopFacts
<1>. QED
  BY <1>2, <1>3 DEF c

LEMMA SplitType ==
    ASSUME NEW m \in List, NEW rem \in List
    PROVE  Split(m, rem) \in List
<1>. DEFINE n == Len(m)
            D == [k \in 1 .. n |-> [ret \in List |-> AppendSplit(ret, m[k], rem)]]
<1>1. n \in Nat /\ <<>> \in List /\ \A k \in 1 .. n : m[k] \in Interval
  BY DEF List
<1>2. D \in [1 .. n -> [List -> List]]
  BY <1>1, AppendSplitType
<1>3. Split(m, rem) = Loop(D, <<>>, n)[n]
  BY DEF Split
<1>. HIDE DEF D, n
<1>4. Loop(D, <<>>, n) \in [0 .. n -> List]
  BY <1>1, <1>2, LoopFacts
<1>. QED
  BY <1>1, <1>3, <1>4

\* One more merged interval.
LEMMA SplitNext ==
    ASSUME NEW m \in List, NEW i \in Interval, NEW rem \in List
    PROVE  Split(Append(m, i), rem) = AppendSplit(Split(m, rem), i, rem)
<1>. DEFINE n == Len(m)
            E == [k \in 1 .. n |-> [ret \in List |-> AppendSplit(ret, m[k], rem)]]
<1>1. n \in Nat /\ <<>> \in List /\ \A k \in 1 .. n : m[k] \in Interval
  BY DEF List
<1>2. PICK q \in List : q = Append(m, i)
  <2>1. Append(m, i) \in List
    BY DEF List
  <2>. QED
    BY <2>1
<1>3. Len(q) = n + 1 /\ q[n + 1] = i /\ \A k \in 1 .. n : q[k] = m[k]
  BY <1>2 DEF List
<1>. DEFINE l == Len(q)
            c == <<>>
            D == [k \in 1 .. l |-> [ret \in List |-> AppendSplit(ret, q[k], rem)]]
<1>4. \A k \in 1 .. l : q[k] \in Interval
  BY DEF List
<1>5. D \in [1 .. l -> [List -> List]] /\ E \in [1 .. n -> [List -> List]] /\ c \in List
  BY <1>1, <1>4, AppendSplitType
<1>6. SameIterations(E, D, n)
  BY <1>1, <1>3 DEF SameIterations
<1>7. Split(q, rem) = Loop(D, c, l)[l] /\ Split(m, rem) = Loop(E, c, n)[n]
  BY DEF Split
<1>8. \A x \in List : D[l][x] = AppendSplit(x, i, rem)
  BY <1>1, <1>3
<1>9. l \in Nat /\ n \in 0 .. l
  BY <1>1, <1>3
<1>10. l \in 1 .. l /\ l - 1 = n
  BY <1>1, <1>3
<1>. HIDE DEF D, E, n, c, l
<1>11. Loop(D, c, l) \in [0 .. l -> List] /\ Loop(D, c, l)[n] = Loop(E, c, n)[n]
  BY <1>5, <1>6, <1>9, SameLoop, SMTT(30)
<1>12. /\ Loop(D, c, l) \in [0 .. l -> List]
       /\ \A k \in 1 .. l : Loop(D, c, l)[k] = D[k][Loop(D, c, l)[k - 1]]
  BY <1>5, <1>9, LoopFacts
<1>13. Loop(D, c, l)[l] = D[l][Loop(D, c, l)[n]]
  BY <1>12, <1>10
<1>. QED
  BY <1>2, <1>7, <1>8, <1>11, <1>13, SplitType

\* The split of one merged interval after the first k removed ones.
CutAfter(ret, i, rem, k) ==
    Loop([j \in 1 .. Len(rem) |-> [acc \in Splitting |-> Cut(acc, rem[j])]],
         [ret |-> ret, piece |-> i], Len(rem))[k]

LEMMA CutAfterNext ==
    ASSUME NEW ret \in List, NEW i \in Interval, NEW rem \in List
    PROVE  /\ CutAfter(ret, i, rem, 0) = [ret |-> ret, piece |-> i]
           /\ \A k \in 0 .. Len(rem) : CutAfter(ret, i, rem, k) \in Splitting
           /\ \A k \in 1 .. Len(rem) :
                CutAfter(ret, i, rem, k) = Cut(CutAfter(ret, i, rem, k - 1), rem[k])
<1>. DEFINE n == Len(rem)
            D == [k \in 1 .. n |-> [acc \in Splitting |-> Cut(acc, rem[k])]]
            c == [ret |-> ret, piece |-> i]
<1>1. n \in Nat /\ \A k \in 1 .. n : rem[k] \in Interval
  BY DEF List
<1>2. c \in Splitting
  BY DEF Splitting
<1>3. D \in [1 .. n -> [Splitting -> Splitting]]
  BY <1>1, CutType
<1>4. \A k \in 1 .. n, x \in Splitting : D[k][x] = Cut(x, rem[k])
  OBVIOUS
<1>5. PICK f : f = Loop(D, c, n)
  OBVIOUS
<1>6. \A k : CutAfter(ret, i, rem, k) = f[k]
  BY <1>5 DEF CutAfter
<1>7. f \in [0 .. n -> Splitting] /\ f[0] = c /\ \A k \in 1 .. n : f[k] = D[k][f[k - 1]]
  <2>. HIDE DEF D, c, n
  <2>1. /\ Loop(D, c, n) \in [0 .. n -> Splitting]
        /\ Loop(D, c, n)[0] = c
        /\ \A k \in 1 .. n : Loop(D, c, n)[k] = D[k][Loop(D, c, n)[k - 1]]
    BY <1>1, <1>2, <1>3, LoopFacts
  <2>. QED
    BY <1>5, <2>1
<1>. HIDE DEF D
<1>8. \A k \in 1 .. n : k - 1 \in 0 .. n
  BY <1>1
<1>9. \A k \in 1 .. n : f[k] = Cut(f[k - 1], rem[k])
  BY <1>4, <1>7, <1>8
<1>. QED
  BY <1>6, <1>7, <1>9, ZenonT(40)

\* What the split appends, from the piece that is left in the end.
LEMMA AppendSplitIs ==
    ASSUME NEW ret, NEW i, NEW rem, NEW last, last = CutAfter(ret, i, rem, Len(rem))
    PROVE  AppendSplit(ret, i, rem)
             = IF Width(last.piece) > 0 THEN Append(last.ret, last.piece) ELSE last.ret
  BY DEF AppendSplit, CutAfter

\* A removed interval that is before the piece leaves it as it is.
LEMMA CutBefore ==
    ASSUME NEW p \in LegalInterval, NEW r \in LegalInterval, NEW s, r.upper < p.lower
    PROVE  Cut([ret |-> s, piece |-> p], r) = [ret |-> s, piece |-> p]
<1>1. PICK a \in Nat, b \in Nat : a = p.lower /\ b = p.upper /\ a <= b
  BY LegalFacts
<1>2. PICK c \in Nat, d \in Nat : c = r.lower /\ d = r.upper /\ c <= d
  BY LegalFacts
<1>3. ~(a <= d) /\ ~(a < c) /\ ~(b <= d) /\ ~(a <= c)
  BY <1>1, <1>2
<1>4. LeftOf(p, r) = p /\ ~CutsInTwo(p, r)
  BY <1>1, <1>2, <1>3 DEF LeftOf, CutsInTwo
<1>. QED
  BY <1>4 DEF Cut

\* A removed interval that is not before the end of the piece takes nothing of it.
LEMMA CutBehind ==
    ASSUME NEW p \in LegalInterval, NEW r \in LegalInterval,
           p.upper <= r.lower \/ p.lower = p.upper
    PROVE  /\ ~CutsInTwo(p, r)
           /\ LeftOf(p, r) = p \/ (p.lower = p.upper /\ LeftOf(p, r).lower = LeftOf(p, r).upper)
<1>1. PICK a \in Nat, b \in Nat : a = p.lower /\ b = p.upper /\ a <= b /\ p = Itv(a, b)
  BY LegalFacts
<1>2. PICK c \in Nat, d \in Nat : c = r.lower /\ d = r.upper /\ c <= d
  BY LegalFacts
<1>3. b <= c \/ a = b
  BY <1>1, <1>2
<1>4. ~(a < c /\ b > d)
  BY <1>1, <1>2, <1>3
<1>5. LeftOf(p, r) = IF a >= c /\ b <= d THEN Empty
                     ELSE IF a >= c /\ b >= d /\ a <= d THEN Itv(d, b)
                     ELSE IF a <= c /\ b <= d /\ b >= c THEN Itv(a, c)
                     ELSE IF a <= c /\ b >= d THEN Itv(d, b)
                     ELSE p
  BY <1>1, <1>2 DEF LeftOf
<1>6. CASE a = b
  <2>1. /\ a >= c /\ b >= d /\ a <= d => d = b
        /\ a <= c /\ b <= d /\ b >= c => c = b
        /\ a <= c /\ b >= d => d = b
    BY <1>2, <1>6
  <2>2. LeftOf(p, r) \in {Empty, Itv(b, b), p}
    BY <1>5, <1>6, <2>1, Zenon
  <2>3. Empty.lower = Empty.upper /\ Itv(b, b).lower = Itv(b, b).upper
    BY DEF Empty, Itv
  <2>. QED
    BY <1>1, <1>2, <1>4, <1>6, <2>2, <2>3 DEF CutsInTwo
<1>7. CASE a < b /\ b <= c
  <2>1. /\ ~(a >= c)
        /\ a <= c /\ b <= d /\ b >= c => c = b
        /\ ~(b <= d /\ b >= c) /\ b >= d => FALSE
    BY <1>2, <1>7
  <2>2. a <= c /\ b <= d
    BY <1>1, <1>2, <1>7
  <2>3. LeftOf(p, r) \in {Itv(a, b), p}
    BY <1>5, <2>1, <2>2, <1>2, <1>7
  <2>. QED
    BY <1>1, <1>2, <1>4, <2>3 DEF CutsInTwo
<1>. QED
  BY <1>1, <1>3, <1>6, <1>7

\* The first k removed intervals end before x, the others begin at x or later.
EndBefore(rem, k, x) == \A j \in 1 .. k : rem[j].upper < x
BeginFrom(rem, k, x) == \A j \in k + 1 .. Len(rem) : x <= rem[j].lower

\* The removed intervals that end before the merged one may be skipped...
LEMMA SplitSkips ==
    ASSUME NEW ret \in List, NEW i \in LegalInterval, NEW rem \in Seq(LegalInterval),
           NEW k \in 0 .. Len(rem), EndBefore(rem, k, i.lower)
    PROVE  CutAfter(ret, i, rem, k) = [ret |-> ret, piece |-> i]
<1>1. Len(rem) \in Nat /\ k \in Nat /\ rem \in List /\ i \in Interval
  BY SeqFacts, LegalFacts
<1>2. PICK c : c = [ret |-> ret, piece |-> i]
  OBVIOUS
<1>. DEFINE S == {j \in 0 .. k : CutAfter(ret, i, rem, j) = c}
<1>3. 0 \in S
  BY <1>1, <1>2, CutAfterNext
<1>4. ASSUME NEW j \in 0 .. k - 1, j \in S PROVE j + 1 \in S
  <2>1. j + 1 \in 1 .. k /\ j + 1 \in 0 .. k /\ j + 1 \in 1 .. Len(rem) /\ (j + 1) - 1 = j
    BY <1>1
  <2>2. CutAfter(ret, i, rem, j) = c
    BY <1>4
  <2>3. rem[j + 1] \in LegalInterval /\ rem[j + 1].upper < i.lower
    BY <2>1, SeqFacts DEF EndBefore
  <2>4. Cut(c, rem[j + 1]) = c
    BY <1>2, <2>3, CutBefore
  <2>5. CutAfter(ret, i, rem, j + 1) = Cut(CutAfter(ret, i, rem, (j + 1) - 1), rem[j + 1])
    BY <1>1, <2>1, CutAfterNext
  <2>. QED
    BY <2>1, <2>2, <2>4, <2>5
<1>5. k \in S
  <2>. HIDE DEF S
  <2>1. 0 .. k \subseteq S
    BY <1>1, <1>3, <1>4, BoundedInduction
  <2>2. k \in 0 .. k
    BY <1>1
  <2>. QED
    BY <2>1, <2>2
<1>. QED
  BY <1>2, <1>5

\* ... and so may those that begin at the end of the piece or later.
LEMMA SplitEnds ==
    ASSUME NEW ret \in List, NEW i \in LegalInterval, NEW rem \in Seq(LegalInterval),
           NEW k \in 0 .. Len(rem), NEW s, NEW p \in LegalInterval,
           CutAfter(ret, i, rem, k) = [ret |-> s, piece |-> p],
           BeginFrom(rem, k, p.upper)
    PROVE  AppendSplit(ret, i, rem) = IF Width(p) > 0 THEN Append(s, p) ELSE s
<1>. DEFINE n == Len(rem)
<1>1. n \in Nat /\ k \in Nat /\ rem \in List /\ i \in Interval
  BY SeqFacts, LegalFacts
<1>. DEFINE Ended(acc) ==
              /\ acc.ret = s /\ acc.piece \in LegalInterval
              /\ acc.piece = p \/ (p.lower = p.upper /\ acc.piece.lower = acc.piece.upper)
            S == {j \in 0 .. n : j >= k => Ended(CutAfter(ret, i, rem, j))}
<1>2. Ended(CutAfter(ret, i, rem, k))
  OBVIOUS
<1>3. 0 \in S
  BY <1>1, <1>2
<1>4. ASSUME NEW j \in 0 .. n - 1, j \in S PROVE j + 1 \in S
  <2>1. j + 1 \in 1 .. n /\ j + 1 \in 0 .. n /\ (j + 1) - 1 = j
    BY <1>1
  <2>2. CASE j + 1 = k
    <3>. HIDE DEF Ended
    <3>. QED
      BY <1>2, <2>1, <2>2
  <2>3. CASE j + 1 < k
    BY <1>1, <2>1, <2>3
  <2>4. CASE j + 1 > k
    <3>1. PICK acc : acc = CutAfter(ret, i, rem, j)
      OBVIOUS
    <3>2. PICK r \in LegalInterval : r = rem[j + 1]
      BY <2>1, SeqFacts
    <3>3. Ended(acc)
      <4>. HIDE DEF Ended
      <4>. QED
        BY <1>1, <1>4, <2>4, <3>1
    <3>4. j + 1 \in k + 1 .. Len(rem)
      BY <1>1, <2>1, <2>4
    <3>5. p.upper <= r.lower
      BY <3>2, <3>4 DEF BeginFrom
    <3>6. acc.piece.upper <= r.lower \/ acc.piece.lower = acc.piece.upper
      BY <3>3, <3>5
    <3>7. /\ ~CutsInTwo(acc.piece, r) /\ LeftOf(acc.piece, r) \in LegalInterval
          /\ \/ LeftOf(acc.piece, r) = acc.piece
             \/ /\ acc.piece.lower = acc.piece.upper
                /\ LeftOf(acc.piece, r).lower = LeftOf(acc.piece, r).upper
      BY <3>3, <3>6, CutBehind, LeftOfLegal
    <3>8. Cut(acc, r).ret = acc.ret /\ Cut(acc, r).piece = LeftOf(acc.piece, r)
      BY <3>7 DEF Cut
    <3>9. Ended(Cut(acc, r))
      BY <3>3, <3>7, <3>8
    <3>10. CutAfter(ret, i, rem, j + 1) = Cut(acc, r)
      BY <1>1, <2>1, <3>1, <3>2, CutAfterNext
    <3>. HIDE DEF Ended
    <3>. QED
      BY <2>1, <3>9, <3>10
  <2>. QED
    BY <1>1, <2>1, <2>2, <2>3, <2>4
<1>5. Ended(CutAfter(ret, i, rem, n))
  <2>. HIDE DEF S
  <2>1. 0 .. n \subseteq S
    BY <1>1, <1>3, <1>4, BoundedInduction
  <2>2. n \in 0 .. n /\ n >= k
    BY <1>1
  <2>. QED
    BY <2>1, <2>2 DEF S
<1>6. PICK last : last = CutAfter(ret, i, rem, Len(rem))
  OBVIOUS
<1>7. /\ last.ret = s /\ last.piece \in LegalInterval
      /\ last.piece = p \/ (p.lower = p.upper /\ last.piece.lower = last.piece.upper)
  BY <1>5, <1>6
<1>8. AppendSplit(ret, i, rem) = IF Width(last.piece) > 0 THEN Append(last.ret, last.piece) ELSE last.ret
  BY <1>6, AppendSplitIs
<1>9. CASE last.piece = p
  BY <1>7, <1>8, <1>9
<1>10. CASE p.lower = p.upper /\ last.piece.lower = last.piece.upper
  <2>1. ~(Width(p) > 0) /\ ~(Width(last.piece) > 0)
    BY <1>7, <1>10, LegalFacts DEF Width
  <2>. QED
    BY <1>7, <1>8, <2>1
<1>. QED
  BY <1>7, <1>9, <1>10

------------------------------------------------------------------------------
(* aggregate(). *)

LEMMA InListValue ==
    ASSUME NEW s \in Seq(LegalInterval), NEW v, InList(s, v)
    PROVE  v \in Covered(s) <=> v \in Int
<1>1. PICK k \in 1 .. Len(s) : Has(s[k], v)
  BY DEF InList
<1>2. s[k].lower \in Value /\ s[k].upper \in Value
  BY SeqFacts, LegalFacts
<1>. QED
  BY <1>1, <1>2, WordAssumption DEF Covered, Has, Value

LEMMA SeparatedInOrder ==
    ASSUME NEW s \in Seq(LegalInterval), Separated(s)
    PROVE  InOrder(s)
<1>1. \A k \in 1 .. Len(s) : s[k].lower \in Nat /\ s[k].upper \in Nat
  BY SeqFacts, LegalFacts
<1>. QED
  BY <1>1 DEF Separated, InOrder

\* The aggregation of two lists holds the values of the first that are not in the
\* second, in order, and nothing is left to remove unless the first is empty.
\* It leaves an empty interval only where one was added and nothing removed.
LEMMA AggregatedFacts ==
    ASSUME NEW s \in Seq(LegalInterval), NEW rem \in Seq(LegalInterval)
    PROVE  /\ Aggregated(s, rem).intervals \in Seq(LegalInterval)
           /\ Aggregated(s, rem).removed = IF s = <<>> THEN rem ELSE <<>>
           /\ InOrder(Aggregated(s, rem).intervals)
           /\ AllWide(s) => AllWide(Aggregated(s, rem).intervals)
           /\ rem = <<>> => Separated(Aggregated(s, rem).intervals)
           /\ \A v \in Value : InList(Aggregated(s, rem).intervals, v) <=>
                                 InList(s, v) /\ ~InList(rem, v)
           /\ Covered(Aggregated(s, rem).intervals) = Covered(s) \ Covered(rem)
           /\ s = <<>> => Aggregated(s, rem).intervals = <<>>
<1>1. PICK agg : agg = Aggregated(s, rem)
  OBVIOUS
<1>2. \A v : ~InList(<<>>, v)
  BY DEF InList
<1>3. ASSUME /\ agg.intervals \in Seq(LegalInterval)
             /\ agg.removed = IF s = <<>> THEN rem ELSE <<>>
             /\ InOrder(agg.intervals)
             /\ AllWide(s) => AllWide(agg.intervals)
             /\ rem = <<>> => Separated(agg.intervals)
             /\ \A v \in Value : InList(agg.intervals, v) <=> InList(s, v) /\ ~InList(rem, v)
      PROVE  Covered(agg.intervals) = Covered(s) \ Covered(rem)
  BY <1>3 DEF Covered
<1>4. CASE rem = <<>>
  <2>1. agg.intervals = Merged(s) /\ agg.removed = <<>>
    BY <1>1, <1>4 DEF Aggregated
  <2>2. /\ Merged(s) \in Seq(LegalInterval) /\ Separated(Merged(s))
        /\ \A v \in Value : InList(Merged(s), v) <=> InList(s, v)
        /\ AllWide(s) => AllWide(Merged(s))
        /\ s = <<>> => Merged(s) = <<>>
    BY MergedFacts
  <2>3. InOrder(Merged(s))
    BY <2>2, SeparatedInOrder
  <2>. QED
    BY <1>1, <1>2, <1>3, <1>4, <2>1, <2>2, <2>3
<1>5. CASE rem # <<>> /\ s = <<>>
  <2>1. agg.intervals = <<>> /\ agg.removed = rem
    BY <1>1, <1>5 DEF Aggregated
  <2>2. <<>> \in Seq(LegalInterval) /\ InOrder(<<>>) /\ AllWide(<<>>)
    BY DEF InOrder, AllWide
  <2>. QED
    BY <1>1, <1>2, <1>3, <1>5, <2>1, <2>2
<1>6. CASE rem # <<>> /\ s # <<>>
  <2>1. agg.intervals = Split(Merged(s), Merged(rem)) /\ agg.removed = <<>>
    BY <1>1, <1>6 DEF Aggregated
  <2>2. /\ Merged(s) \in Seq(LegalInterval) /\ Separated(Merged(s))
        /\ Merged(rem) \in Seq(LegalInterval) /\ Separated(Merged(rem))
        /\ \A v \in Value : InList(Merged(s), v) <=> InList(s, v)
        /\ \A v \in Value : InList(Merged(rem), v) <=> InList(rem, v)
    BY MergedFacts
  <2>3. /\ agg.intervals \in Seq(LegalInterval)
        /\ InOrder(agg.intervals) /\ AllWide(agg.intervals)
        /\ \A v \in Value : InList(agg.intervals, v) <=> InList(Merged(s), v) /\ ~InList(Merged(rem), v)
    BY <2>1, <2>2, SplitFacts
  <2>. QED
    BY <1>1, <1>3, <1>6, <2>1, <2>2, <2>3
<1>. QED
  BY <1>4, <1>5, <1>6

------------------------------------------------------------------------------
(* size(). *)

\* No value is in two intervals of the list, in whatever order they are.
Disjoint(s) ==
    \A j, k \in 1 .. Len(s) : j # k => \A v \in Value : ~(Has(s[j], v) /\ Has(s[k], v))

\* The values of the first n intervals.
CoveredByFirst(s, n) == {v \in Value : HeldBy(s, n, v)}

LEMMA CoveredByAll ==
    ASSUME NEW s
    PROVE  CoveredByFirst(s, Len(s)) = Covered(s)
  BY HeldByAll DEF CoveredByFirst, Covered

LEMMA OrderedIsDisjoint ==
    ASSUME NEW s \in Seq(LegalInterval), InOrder(s)
    PROVE  Disjoint(s)
<1>1. \A k \in 1 .. Len(s) : /\ s[k].lower \in Nat /\ s[k].upper \in Nat
                             /\ s[k].lower <= s[k].upper
  BY SeqFacts, LegalFacts
<1>2. ASSUME NEW j \in 1 .. Len(s), NEW k \in 1 .. Len(s), j < k, NEW v \in Value
      PROVE  ~(Has(s[j], v) /\ Has(s[k], v))
  <2>1. s[j].upper <= s[k].lower
    BY <1>2 DEF InOrder
  <2>2. v \in Nat
    BY DEF Value
  <2>. QED
    BY <1>1, <2>1, <2>2 DEF Has
<1>3. \A j, k \in 1 .. Len(s) : j # k => j < k \/ k < j
  BY SeqFacts
<1>. QED
  BY <1>2, <1>3 DEF Disjoint

\* The values of an interval, as many as it is wide.
LEMMA WidthIsCount ==
    ASSUME NEW i \in LegalInterval
    PROVE  /\ IsFiniteSet({v \in Value : Has(i, v)})
           /\ Cardinality({v \in Value : Has(i, v)}) = Width(i)
           /\ Width(i) = i.upper - i.lower
<1>1. /\ i.lower \in Nat /\ i.upper \in Nat /\ i.lower <= i.upper
      /\ i.lower \in Value /\ i.upper \in Value
  BY LegalFacts
<1>2. PICK a \in Nat : a = i.lower
  BY <1>1
<1>3. PICK b \in Nat : b = i.upper
  BY <1>1
<1>4. {v \in Value : Has(i, v)} = a .. (b - 1)
  BY <1>1, <1>2, <1>3, WordAssumption DEF Value, Has
<1>5. /\ IsFiniteSet(a .. (b - 1))
      /\ Cardinality(a .. (b - 1)) = IF a > b - 1 THEN 0 ELSE (b - 1) - a + 1
  <2>1. a \in Int /\ b - 1 \in Int
    OBVIOUS
  <2>. QED
    BY <2>1, FS_Interval
<1>6. Width(i) = b - a /\ a <= b
  BY <1>1, <1>2, <1>3 DEF Width
<1>7. (IF a > b - 1 THEN 0 ELSE (b - 1) - a + 1) = b - a
  BY <1>6
<1>. QED
  BY <1>2, <1>3, <1>4, <1>5, <1>6, <1>7

\* A list has fewer values than the word: the last one is in no interval.
LEMMA CoveredIsSmall ==
    ASSUME NEW s \in Seq(LegalInterval), NEW n \in 0 .. Len(s)
    PROVE  /\ IsFiniteSet(CoveredByFirst(s, n))
           /\ Cardinality(CoveredByFirst(s, n)) \in Value
<1>1. ASSUME NEW v \in Value, HeldBy(s, n, v) PROVE v \in 0 .. (Word - 2)
  <2>1. PICK k \in 1 .. n : Has(s[k], v)
    BY <1>1 DEF HeldBy, Among
  <2>2. k \in 1 .. Len(s)
    BY SeqFacts
  <2>3. s[k].upper \in Value
    BY <2>2, SeqFacts, LegalFacts
  <2>. QED
    BY <2>1, <2>3, WordAssumption DEF Has, Value
<1>2. CoveredByFirst(s, n) \in SUBSET (0 .. (Word - 2))
  BY <1>1 DEF CoveredByFirst
<1>3. /\ IsFiniteSet(0 .. (Word - 2))
      /\ Cardinality(0 .. (Word - 2)) = IF 0 > Word - 2 THEN 0 ELSE (Word - 2) - 0 + 1
  BY WordAssumption, FS_Interval
<1>4. /\ IsFiniteSet(CoveredByFirst(s, n))
      /\ Cardinality(CoveredByFirst(s, n)) <= Cardinality(0 .. (Word - 2))
  BY <1>2, <1>3, FS_Subset
<1>5. Cardinality(CoveredByFirst(s, n)) \in Nat
  BY <1>4, FS_CardinalityType
<1>. QED
  BY <1>3, <1>4, <1>5, WordAssumption DEF Value

\* One interval more: its values are counted in addition.
LEMMA CoveredByNext ==
    ASSUME NEW s \in Seq(LegalInterval), Disjoint(s), NEW k \in 1 .. Len(s)
    PROVE  Cardinality(CoveredByFirst(s, k)) = Cardinality(CoveredByFirst(s, k - 1)) + Width(s[k])
<1>. DEFINE S == CoveredByFirst(s, k - 1)
            T == {v \in Value : Has(s[k], v)}
<1>1. /\ Len(s) \in Nat /\ k \in Nat /\ k - 1 \in Nat /\ (k - 1) + 1 = k /\ k - 1 \in 0 .. Len(s)
      /\ s[k] \in LegalInterval
  BY SeqFacts
<1>2. CoveredByFirst(s, k) = S \cup T
  <2>1. \A v : HeldBy(s, k, v) <=> HeldBy(s, k - 1, v) \/ Has(s[k], v)
    BY <1>1, HeldByNext
  <2>. QED
    BY <2>1 DEF CoveredByFirst
<1>3. S \cap T = {}
  <2>. SUFFICES ASSUME NEW v \in S, v \in T PROVE FALSE
    OBVIOUS
  <2>1. PICK j \in 1 .. (k - 1) : Has(s[j], v)
    BY DEF CoveredByFirst, HeldBy, Among
  <2>2. j \in 1 .. Len(s) /\ j # k
    BY <1>1
  <2>3. v \in Value /\ Has(s[k], v)
    OBVIOUS
  <2>. QED
    BY <2>1, <2>2, <2>3 DEF Disjoint
<1>4. IsFiniteSet(S) /\ IsFiniteSet(T) /\ Cardinality(T) = Width(s[k])
  BY <1>1, WidthIsCount, CoveredIsSmall
<1>. HIDE DEF S, T
<1>5. Cardinality(S \cup T) = Cardinality(S) + Cardinality(T) - Cardinality(S \cap T)
  BY <1>4, FS_Union
<1>6. Cardinality(S) \in Nat /\ Cardinality(T) \in Nat /\ Cardinality(S \cap T) = 0
  BY <1>3, <1>4, FS_CardinalityType, FS_EmptySet
<1>. QED
  BY <1>2, <1>4, <1>5, <1>6 DEF S

LEMMA ValueModWord ==
    ASSUME NEW x \in Value
    PROVE  x % Word = x
  BY WordAssumption DEF Value

\* The sum of the widths counts each value once: nothing is counted twice, and
\* the sum does not pass the largest value.
LEMMA SizeIsCount ==
    ASSUME NEW s \in Seq(LegalInterval), Disjoint(s), NEW n \in 0 .. Len(s)
    PROVE  SizeOfFirst(s, n) = Cardinality(CoveredByFirst(s, n))
<1>. DEFINE D == [k \in 1 .. n |-> [x \in Value |-> (x + Width(s[k])) % Word]]
            P == [k \in 0 .. n |-> {Cardinality(CoveredByFirst(s, k))}]
<1>1. /\ Len(s) \in Nat /\ n \in Nat /\ 0 \in Value /\ Word \in Nat /\ Word > 0
      /\ \A k \in 1 .. n : k \in 1 .. Len(s) /\ s[k] \in LegalInterval /\ Width(s[k]) \in Nat
  <2>1. Len(s) \in Nat /\ n \in Nat /\ 0 \in Value /\ Word \in Nat /\ Word > 0
    BY SeqFacts, WordAssumption DEF Value
  <2>2. ASSUME NEW k \in 1 .. n
        PROVE  k \in 1 .. Len(s) /\ s[k] \in LegalInterval /\ Width(s[k]) \in Nat
    <3>1. k \in 1 .. Len(s) /\ s[k] \in LegalInterval
      BY <2>1, SeqFacts
    <3>2. s[k].lower \in Nat /\ s[k].upper \in Nat /\ s[k].lower <= s[k].upper
      BY <3>1, LegalFacts
    <3>. QED
      BY <3>1, <3>2 DEF Width
  <2>. QED
    BY <2>1, <2>2
<1>2. D \in [1 .. n -> [Value -> Value]]
  <2>1. ASSUME NEW k \in 1 .. n, NEW x \in Value PROVE (x + Width(s[k])) % Word \in Value
    <3>1. x + Width(s[k]) \in Nat
      BY <1>1 DEF Value
    <3>. QED
      BY <1>1, <3>1, SMTT(30) DEF Value
  <2>. QED
    BY <2>1
<1>3. 0 \in P[0]
  <2>1. CoveredByFirst(s, 0) = {}
    BY DEF CoveredByFirst, HeldBy, Among
  <2>2. 0 \in 0 .. n
    BY <1>1
  <2>. QED
    BY <2>1, <2>2, FS_EmptySet
<1>4. ASSUME NEW k \in 1 .. n, NEW x \in Value, x \in P[k - 1] PROVE D[k][x] \in P[k]
  <2>1. k - 1 \in 0 .. n /\ k \in 0 .. n /\ k \in 0 .. Len(s)
    BY <1>1
  <2>2. x = Cardinality(CoveredByFirst(s, k - 1))
    BY <1>4, <2>1
  <2>3. Cardinality(CoveredByFirst(s, k)) = x + Width(s[k])
    BY <1>1, <2>2, CoveredByNext
  <2>4. x + Width(s[k]) \in Value
    BY <2>1, <2>3, CoveredIsSmall
  <2>5. (x + Width(s[k])) % Word = x + Width(s[k])
    BY <2>4, ValueModWord
  <2>6. D[k][x] = (x + Width(s[k])) % Word
    OBVIOUS
  <2>7. P[k] = {Cardinality(CoveredByFirst(s, k))}
    BY <2>1
  <2>. HIDE DEF D, P
  <2>. QED
    BY <2>3, <2>5, <2>6, <2>7
<1>5. SizeOfFirst(s, n) = Loop(D, 0, n)[n]
  BY DEF SizeOfFirst
<1>6. SizeOfFirst(s, n) \in P[n]
  <2>. HIDE DEF D, P
  <2>1. Loop(D, 0, n)[n] \in P[n]
    BY <1>1, <1>2, <1>3, <1>4, LoopInvariant, ZenonT(30)
  <2>. QED
    BY <1>5, <2>1
<1>. QED
  BY <1>1, <1>6

------------------------------------------------------------------------------
(* Two lists together. *)

LEMMA ConcatFacts ==
    ASSUME NEW s \in Seq(LegalInterval), NEW t \in Seq(LegalInterval)
    PROVE  /\ s \o t \in Seq(LegalInterval)
           /\ Covered(s \o t) = Covered(s) \cup Covered(t)
           /\ AllWide(s) /\ AllWide(t) => AllWide(s \o t)
<1>. DEFINE m == Len(s)
            n == Len(t)
<1>1. m \in Nat /\ n \in Nat
  OBVIOUS
<1>2. PICK u : u = s \o t
  OBVIOUS
<1>3. /\ u \in Seq(LegalInterval) /\ Len(u) = m + n
      /\ \A k \in 1 .. m + n : u[k] = IF k <= m THEN s[k] ELSE t[k - m]
  BY <1>2
<1>4. ASSUME NEW k \in 1 .. m + n
      PROVE  (k \in 1 .. m /\ k <= m) \/ (k - m \in 1 .. n /\ ~(k <= m))
  BY <1>1
<1>5. ASSUME NEW k \in 1 .. m PROVE k \in 1 .. m + n /\ k <= m
  BY <1>1
<1>6. ASSUME NEW k \in 1 .. n PROVE m + k \in 1 .. m + n /\ (m + k) - m = k /\ ~(m + k <= m)
  BY <1>1
<1>. HIDE DEF m, n
<1>7. ASSUME NEW v PROVE InList(u, v) <=> InList(s, v) \/ InList(t, v)
  <2>1. ASSUME InList(u, v) PROVE InList(s, v) \/ InList(t, v)
    BY <1>3, <1>4, <2>1 DEF InList, m, n
  <2>2. ASSUME InList(s, v) PROVE InList(u, v)
    BY <1>3, <1>5, <2>2 DEF InList, m
  <2>3. ASSUME InList(t, v) PROVE InList(u, v)
    <3>1. PICK k \in 1 .. n : Has(t[k], v)
      BY <2>3 DEF InList, n
    <3>2. u[m + k] = t[k] /\ m + k \in 1 .. Len(u)
      BY <1>3, <1>6
    <3>. QED
      BY <3>1, <3>2 DEF InList
  <2>. QED
    BY <2>1, <2>2, <2>3
<1>8. Covered(u) = Covered(s) \cup Covered(t)
  BY <1>7 DEF Covered
<1>9. AllWide(s) /\ AllWide(t) => AllWide(u)
  BY <1>3, <1>4 DEF AllWide, m, n
<1>. QED
  BY <1>2, <1>3, <1>8, <1>9

------------------------------------------------------------------------------
(* Division. *)

LEMMA DivFacts ==
    ASSUME NEW a \in Nat, NEW n \in Nat \ {0}
    PROVE  /\ a \div n \in Nat /\ a % n \in 0 .. (n - 1)
           /\ a = (n * (a \div n)) + (a % n)
  OBVIOUS

\* The entries of the cache reach the end of the list.
LEMMA EntriesSuffice ==
    ASSUME NEW l \in Nat, NEW n \in Nat \ {0}
    PROVE  /\ (l + n - 1) \div n \in Nat
           /\ ((l + n - 1) \div n) * n >= l
<1>1. PICK a \in Nat : a = l + n - 1
  OBVIOUS
<1>2. PICK q \in Nat : q = a \div n
  BY DivFacts
<1>3. PICK r \in 0 .. (n - 1) : r = a % n
  BY DivFacts
<1>4. a = (n * q) + r
  BY <1>2, <1>3, DivFacts
<1>5. n * q = q * n /\ n * q \in Nat
  OBVIOUS
<1>6. q * n >= l
  BY <1>1, <1>3, <1>4, <1>5
<1>. QED
  BY <1>1, <1>2, <1>6

\* Each entry but the last stands for a full group of intervals.
LEMMA GroupsFit ==
    ASSUME NEW l \in Nat, NEW n \in Nat \ {0}, NEW k \in Nat, k < (l + n - 1) \div n
    PROVE  k * n < l
<1>1. PICK a \in Nat : a = l + n - 1
  OBVIOUS
<1>2. PICK q \in Nat : q = a \div n
  BY DivFacts
<1>3. PICK r \in 0 .. (n - 1) : r = a % n
  BY DivFacts
<1>4. a = (n * q) + r
  BY <1>2, <1>3, DivFacts
<1>5. PICK d \in Nat : q = k + 1 + d
  <2>1. k < q
    BY <1>1, <1>2
  <2>. q - (k + 1) \in Nat /\ q = k + 1 + (q - (k + 1))
    BY <2>1
  <2>. QED
    OBVIOUS
<1>6. n * q = (k * n) + n + (n * d) /\ n * d \in Nat /\ k * n \in Nat
  BY <1>5
<1>. QED
  BY <1>1, <1>3, <1>4, <1>6

LEMMA DivUnique ==
    ASSUME NEW a \in Nat, NEW n \in Nat \ {0}, NEW q \in Nat, n * q <= a, a < n * (q + 1)
    PROVE  a \div n = q
  OBVIOUS

------------------------------------------------------------------------------
(* Powers of two. *)

\* Two to a power counts the subsets of a finite set.
LEMMA PowerPositive ==
    ASSUME NEW a \in Nat
    PROVE  2 ^ a \in Nat \ {0}
<1>1. IsFiniteSet(1 .. a) /\ Cardinality(1 .. a) = a
  BY FS_Interval
<1>2. IsFiniteSet(SUBSET (1 .. a)) /\ Cardinality(SUBSET (1 .. a)) = 2 ^ a
  BY <1>1, FS_SUBSET
<1>3. SUBSET (1 .. a) # {}
  OBVIOUS
<1>. QED
  BY <1>2, <1>3, FS_EmptySet, FS_CardinalityType

\* A subset of the first a + b numbers is one of the first a and one of the others.
LEMMA PowerSum ==
    ASSUME NEW a \in Nat, NEW b \in Nat
    PROVE  2 ^ (a + b) = 2 ^ a * 2 ^ b
<1>. DEFINE A == 1 .. a
            B == a + 1 .. a + b
            f == [S \in SUBSET (A \cup B) |-> <<S \cap A, S \cap B>>]
<1>1. IsFiniteSet(A) /\ Cardinality(A) = a
  BY FS_Interval
<1>2. IsFiniteSet(B) /\ Cardinality(B) = b
  BY FS_Interval
<1>3. A \cup B = 1 .. (a + b)
  OBVIOUS
<1>4. IsFiniteSet(A \cup B) /\ Cardinality(A \cup B) = a + b
  <2>1. a + b \in Nat /\ a + b \in Int
    OBVIOUS
  <2>2. IsFiniteSet(1 .. (a + b)) /\ Cardinality(1 .. (a + b)) = a + b
    BY <2>1, FS_Interval
  <2>. QED
    BY <1>3, <2>2
<1>5. IsFiniteSet(SUBSET A) /\ Cardinality(SUBSET A) = 2 ^ a
  BY <1>1, FS_SUBSET
<1>6. IsFiniteSet(SUBSET B) /\ Cardinality(SUBSET B) = 2 ^ b
  BY <1>2, FS_SUBSET
<1>7. IsFiniteSet(SUBSET (A \cup B)) /\ Cardinality(SUBSET (A \cup B)) = 2 ^ (a + b)
  BY <1>4, FS_SUBSET
<1>8. Cardinality((SUBSET A) \X (SUBSET B)) = 2 ^ a * 2 ^ b
  BY <1>5, <1>6, FS_Product
<1>9. ExistsBijection(SUBSET (A \cup B), (SUBSET A) \X (SUBSET B))
  <2>0. A \cap B = {}
    OBVIOUS
  <2>. HIDE DEF A, B
  <2>1. f \in [SUBSET (A \cup B) -> (SUBSET A) \X (SUBSET B)]
    OBVIOUS
  <2>2. \A S, T \in SUBSET (A \cup B) : f[S] = f[T] => S = T
    <3>1. \A S \in SUBSET (A \cup B) : S = (S \cap A) \cup (S \cap B)
      OBVIOUS
    <3>2. \A S, T \in SUBSET (A \cup B) : f[S] = f[T] => S \cap A = T \cap A /\ S \cap B = T \cap B
      OBVIOUS
    <3>. QED
      BY <3>1, <3>2
  <2>3. ASSUME NEW p \in (SUBSET A) \X (SUBSET B)
        PROVE  \E S \in SUBSET (A \cup B) : f[S] = p
    <3>1. p = <<p[1], p[2]>> /\ p[1] \subseteq A /\ p[2] \subseteq B
      OBVIOUS
    <3>2. (p[1] \cup p[2]) \cap A = p[1] /\ (p[1] \cup p[2]) \cap B = p[2]
      BY <2>0, <3>1
    <3>3. p[1] \cup p[2] \in SUBSET (A \cup B)
      BY <3>1
    <3>4. f[p[1] \cup p[2]] = <<p[1], p[2]>>
      BY <3>2, <3>3
    <3>. QED
      BY <3>1, <3>3, <3>4
  <2>. HIDE DEF f
  <2>4. f \in Bijection(SUBSET (A \cup B), (SUBSET A) \X (SUBSET B))
    BY <2>1, <2>2, <2>3 DEF Bijection, Injection, Surjection, IsInjective
  <2>. QED
    BY <2>4 DEF ExistsBijection
<1>. HIDE DEF A, B
<1>10. Cardinality((SUBSET A) \X (SUBSET B)) = Cardinality(SUBSET (A \cup B))
  BY <1>7, <1>9, FS_Bijection
<1>. QED
  BY <1>7, <1>8, <1>10

\* The weights of the bytes of a word.
LEMMA PowersOfByte ==
    ASSUME NEW n \in Nat \ {0}
    PROVE  /\ 2 ^ n \in Nat \ {0, 1}
           /\ 2 ^ (0 * n) = 1 /\ 2 ^ (1 * n) = 2 ^ n
           /\ 2 ^ (2 * n) = 2 ^ n * 2 ^ n
           /\ 2 ^ (3 * n) = 2 ^ n * 2 ^ n * 2 ^ n
           /\ 2 ^ (4 * n) = 2 ^ n * 2 ^ n * 2 ^ n * 2 ^ n
<1>1. 2 ^ 0 = 1 /\ 2 ^ 1 = 2 /\ 0 * n = 0 /\ 1 * n = n
  OBVIOUS
<1>2. 2 ^ n \in Nat \ {0, 1}
  <2>1. n - 1 \in Nat /\ n = 1 + (n - 1)
    OBVIOUS
  <2>2. 2 ^ (n - 1) \in Nat \ {0}
    BY <2>1, PowerPositive
  <2>3. 2 ^ n = 2 ^ 1 * 2 ^ (n - 1)
    BY <2>1, PowerSum
  <2>. QED
    BY <1>1, <2>2, <2>3
<1>3. /\ 2 ^ (2 * n) = 2 ^ n * 2 ^ n /\ 2 ^ (3 * n) = 2 ^ (2 * n) * 2 ^ n
      /\ 2 ^ (4 * n) = 2 ^ (3 * n) * 2 ^ n
  <2>1. 2 * n = n + n /\ 3 * n = (2 * n) + n /\ 4 * n = (3 * n) + n
    OBVIOUS
  <2>2. n \in Nat /\ 2 * n \in Nat /\ 3 * n \in Nat
    OBVIOUS
  <2>. QED
    BY <2>1, <2>2, PowerSum
<1>. QED
  BY <1>1, <1>2, <1>3

------------------------------------------------------------------------------
(* Bytes. *)

LEMMA OneDigit ==
    ASSUME NEW x \in Nat, NEW w \in Nat \ {0}, NEW y \in 0 .. w - 1
    PROVE  /\ (x * w) + y \in Nat
           /\ ((x * w) + y) \div w = x
           /\ ((x * w) + y) % w = y
           /\ \A r \in Nat : x < r => (x * w) + y < r * w
<1>1. x * w \in Nat /\ (x * w) + y \in Nat
  OBVIOUS
<1>2. w * x <= (x * w) + y /\ (x * w) + y < w * (x + 1)
  <2>1. w * (x + 1) = (w * x) + w /\ w * x = x * w
    OBVIOUS
  <2>. QED
    BY <1>1, <2>1
<1>3. ((x * w) + y) \div w = x
  BY <1>1, <1>2, DivUnique
<1>4. ((x * w) + y) % w = y
  <2>1. PICK a \in Nat : a = (x * w) + y
    BY <1>1
  <2>2. a = (w * (a \div w)) + (a % w) /\ a % w \in Int
    BY DivFacts
  <2>3. w * x = x * w
    OBVIOUS
  <2>. QED
    BY <1>1, <1>3, <2>1, <2>2, <2>3
<1>5. ASSUME NEW r \in Nat, x < r PROVE (x * w) + y < r * w
  <2>1. PICK d \in Nat : r = x + 1 + d
    <3>1. r - x - 1 \in Nat /\ r = x + 1 + (r - x - 1)
      BY <1>5
    <3>. QED
      BY <3>1
  <2>2. r * w = (x * w) + w + (d * w) /\ d * w \in Nat
    BY <2>1
  <2>. QED
    BY <1>1, <2>2
<1>. QED
  BY <1>1, <1>3, <1>4, <1>5

FourBytes(R, b3, b2, b1, b0) == (b3 * (R * R * R)) + (b2 * (R * R)) + (b1 * R) + b0

\* The bytes of what four bytes make are these four.
LEMMA BytesOf ==
    ASSUME NEW R \in Nat \ {0},
           NEW b3 \in 0 .. R - 1, NEW b2 \in 0 .. R - 1, NEW b1 \in 0 .. R - 1, NEW b0 \in 0 .. R - 1,
           NEW v, v = FourBytes(R, b3, b2, b1, b0)
    PROVE  /\ v \in 0 .. (R * R * R * R) - 1
           /\ v % R = b0
           /\ (v \div R) % R = b1
           /\ (v \div (R * R)) % R = b2
           /\ v \div (R * R * R) = b3 /\ b3 % R = b3
<1>. USE DEF FourBytes
<1>1. PICK y1 : y1 = (b1 * R) + b0
  OBVIOUS
<1>2. y1 \in Nat /\ y1 < R * R
  BY <1>1, OneDigit
<1>3. PICK w2 \in Nat \ {0} : w2 = R * R
  OBVIOUS
<1>4. PICK y2 : y2 = (b2 * w2) + y1
  OBVIOUS
<1>5. y2 \in Nat /\ y2 < R * w2 /\ y2 \div w2 = b2
  BY <1>2, <1>3, <1>4, OneDigit
<1>6. PICK w3 \in Nat \ {0} : w3 = R * w2 /\ w3 = R * R * R
  BY <1>3
<1>7. v = (b3 * w3) + y2 /\ y2 \in 0 .. w3 - 1
  BY <1>1, <1>3, <1>4, <1>5, <1>6
<1>8. v \in Nat /\ v \div w3 = b3 /\ v < R * w3
  BY <1>7, OneDigit
<1>9. R * w3 = R * R * R * R
  BY <1>6
<1>10. b3 % R = b3
  OBVIOUS
<1>11. (v \div w2) % R = b2
  <2>1. PICK x \in Nat : x = (b3 * R) + b2
    OBVIOUS
  <2>2. v = (x * w2) + y1
    <3>1. x * w2 = (b3 * w3) + (b2 * w2)
      BY <1>6, <2>1, <1>3
    <3>2. b3 * w3 \in Int /\ b2 * w2 \in Int
      OBVIOUS
    <3>. QED
      BY <1>2, <1>4, <1>7, <3>1, <3>2
  <2>3. v \div w2 = x
    BY <1>2, <1>3, <2>2, OneDigit
  <2>4. x % R = b2
    BY <2>1, OneDigit
  <2>. QED
    BY <2>3, <2>4
<1>12. (v \div R) % R = b1 /\ v % R = b0
  <2>1. PICK z \in Nat : z = (b3 * R) + b2
    OBVIOUS
  <2>2. PICK x \in Nat : x = (z * R) + b1
    BY <2>1
  <2>3. v = (x * R) + b0
    <3>1. z * w2 = (b3 * w3) + (b2 * w2)
      BY <1>6, <2>1, <1>3
    <3>2. x * R = (z * w2) + (b1 * R)
      BY <1>3, <2>2
    <3>. QED
      BY <1>1, <1>4, <1>7, <3>1, <3>2
  <2>4. v \div R = x /\ v % R = b0
    BY <2>3, OneDigit
  <2>5. x % R = b1
    BY <2>2, OneDigit
  <2>. QED
    BY <2>4, <2>5
<1>. QED
  BY <1>3, <1>6, <1>8, <1>9, <1>10, <1>11, <1>12

\* Every number of four digits has four bytes.
LEMMA HasBytes ==
    ASSUME NEW R \in Nat \ {0}, NEW v \in 0 .. (R * R * R * R) - 1
    PROVE  \E b3, b2, b1, b0 \in 0 .. R - 1 : v = FourBytes(R, b3, b2, b1, b0)
<1>0. v \in Nat
  OBVIOUS
<1>1. PICK q1 \in Nat, b0 \in 0 .. R - 1 : v = (R * q1) + b0
  BY <1>0, DivFacts
<1>2. PICK q2 \in Nat, b1 \in 0 .. R - 1 : q1 = (R * q2) + b1
  BY DivFacts
<1>3. PICK q3 \in Nat, b2 \in 0 .. R - 1 : q2 = (R * q3) + b2
  BY DivFacts
<1>4. v = (q3 * (R * R * R)) + (b2 * (R * R)) + (b1 * R) + b0
  <2>1. R * q2 = (q3 * (R * R)) + (b2 * R)
    BY <1>3
  <2>2. R * q1 = (q3 * (R * R * R)) + (b2 * (R * R)) + (b1 * R)
    <3>1. q1 = (q3 * (R * R)) + (b2 * R) + b1
      BY <1>2, <2>1
    <3>. QED
      BY <3>1
  <2>. QED
    BY <1>1, <2>2
<1>5. q3 < R
  <2>. SUFFICES ASSUME q3 >= R PROVE FALSE
    OBVIOUS
  <2>1. PICK d \in Nat : q3 = R + d
    <3>1. q3 - R \in Nat /\ q3 = R + (q3 - R)
      OBVIOUS
    <3>. QED
      BY <3>1
  <2>2. PICK w \in Nat : w = R * R * R
    OBVIOUS
  <2>3. q3 * w = (R * w) + (d * w) /\ d * w \in Nat
    BY <2>1
  <2>4. R * w = R * R * R * R
    BY <2>2
  <2>5. PICK m \in Nat : m = b2 * (R * R)
    OBVIOUS
  <2>6. PICK l \in Nat : l = b1 * R
    OBVIOUS
  <2>7. PICK t \in Nat : t = R * R * R * R
    OBVIOUS
  <2>8. v = (q3 * w) + m + l + b0 /\ v < t /\ R * w = t
    BY <1>4, <2>2, <2>4, <2>5, <2>6, <2>7
  <2>9. PICK e \in Nat : e = d * w
    BY <2>3
  <2>10. v = t + e + m + l + b0
    BY <2>3, <2>8, <2>9
  <2>. QED
    BY <2>8, <2>10
<1>6. v = FourBytes(R, q3, b2, b1, b0) /\ q3 \in 0 .. R - 1
  BY <1>4, <1>5 DEF FourBytes
<1>. QED
  BY <1>6

------------------------------------------------------------------------------
(* Ranks. *)

RankOf(S, key, x) == Cardinality({y \in S : key[y] < key[x]})

\* Elements with different keys have the ranks 0 to n - 1.
LEMMA RankGrows ==
    ASSUME NEW S, IsFiniteSet(S), NEW key, \A z \in S : key[z] \in Int, NEW x \in S, NEW y \in S,
           key[x] < key[y]
    PROVE  RankOf(S, key, x) \in Nat /\ RankOf(S, key, y) \in Nat /\ RankOf(S, key, x) < RankOf(S, key, y)
<1>. DEFINE A == {z \in S : key[z] < key[x]}
            B == {z \in S : key[z] < key[y]}
<1>1. A \in SUBSET B /\ B \in SUBSET S /\ x \in B /\ x \notin A
  OBVIOUS
<1>. HIDE DEF A, B
<1>2. IsFiniteSet(B)
  BY <1>1, FS_Subset
<1>3. IsFiniteSet(A) /\ Cardinality(A) <= Cardinality(B) /\ (Cardinality(B) = Cardinality(A) => B = A)
  BY <1>1, <1>2, FS_Subset
<1>4. Cardinality(A) \in Nat /\ Cardinality(B) \in Nat
  BY <1>2, <1>3, FS_CardinalityType
<1>5. Cardinality(A) < Cardinality(B)
  BY <1>1, <1>3, <1>4
<1>. QED
  BY <1>4, <1>5 DEF RankOf, A, B

LEMMA RankBelow ==
    ASSUME NEW S, IsFiniteSet(S), NEW key, \A z \in S : key[z] \in Int, NEW x \in S
    PROVE  RankOf(S, key, x) \in 0 .. Cardinality(S) - 1
<1>. DEFINE A == {z \in S : key[z] < key[x]}
<1>1. A \in SUBSET S /\ x \notin A
  OBVIOUS
<1>. HIDE DEF A
<1>2. IsFiniteSet(A) /\ Cardinality(A) <= Cardinality(S) /\ (Cardinality(S) = Cardinality(A) => S = A)
  BY <1>1, FS_Subset
<1>3. Cardinality(A) \in Nat /\ Cardinality(S) \in Nat
  BY <1>2, FS_CardinalityType
<1>4. Cardinality(A) < Cardinality(S)
  BY <1>1, <1>2, <1>3
<1>. QED
  BY <1>3, <1>4 DEF RankOf, A

LEMMA RankOnto ==
    ASSUME NEW S, IsFiniteSet(S), NEW key, \A z \in S : key[z] \in Int,
           \A x, y \in S : key[x] = key[y] => x = y,
           NEW k \in 1 .. Cardinality(S)
    PROVE  \E x \in S : RankOf(S, key, x) = k - 1
<1>. DEFINE n == Cardinality(S)
            f == [x \in S |-> RankOf(S, key, x)]
<1>1. n \in Nat
  BY FS_CardinalityType
<1>2. f \in [S -> 0 .. n - 1]
  BY RankBelow
<1>3. \A x, y \in S : f[x] = f[y] => x = y
  <2>. SUFFICES ASSUME NEW x \in S, NEW y \in S, f[x] = f[y], x # y PROVE FALSE
    OBVIOUS
  <2>1. key[x] < key[y] \/ key[y] < key[x]
    OBVIOUS
  <2>2. RankOf(S, key, x) = RankOf(S, key, y)
    OBVIOUS
  <2>3. CASE key[x] < key[y]
    BY <2>2, <2>3, RankGrows
  <2>4. CASE key[y] < key[x]
    BY <2>2, <2>4, RankGrows
  <2>. QED
    BY <2>1, <2>3, <2>4
<1>. HIDE DEF f
<1>4. f \in Injection(S, 0 .. n - 1)
  BY <1>2, <1>3 DEF Injection, IsInjective
<1>5. IsFiniteSet(0 .. n - 1) /\ Cardinality(0 .. n - 1) = n
  <2>1. n - 1 \in Int /\ n - 1 - 0 + 1 = n /\ (0 > n - 1 => n = 0)
    BY <1>1
  <2>. HIDE DEF n
  <2>. QED
    BY <2>1, FS_Interval, SMTT(30)
<1>. HIDE DEF n
<1>6. f \in Surjection(S, 0 .. n - 1)
  BY <1>4, <1>5, FS_Injection DEF n
<1>7. k - 1 \in 0 .. n - 1
  BY <1>1 DEF n
<1>8. \E x \in S : f[x] = k - 1
  BY <1>6, <1>7 DEF Surjection
<1>. QED
  BY <1>8 DEF f

\* The elements in the order of their keys, each once.
DistinctKeys(S, key) ==
    /\ \A z \in S : key[z] \in Int
    /\ \A x, y \in S : key[x] = key[y] => x = y

LEMMA OrderedFacts ==
    ASSUME NEW S, IsFiniteSet(S), NEW key, DistinctKeys(S, key)
    PROVE  /\ Ordered(S, key) \in Seq(S) /\ Len(Ordered(S, key)) = Cardinality(S)
           /\ Cardinality(S) \in Nat
           /\ \A k \in 1 .. Cardinality(S) : RankOf(S, key, Ordered(S, key)[k]) = k - 1
           /\ \A x \in S : \E k \in 1 .. Cardinality(S) : Ordered(S, key)[k] = x
<1>. (\A z \in S : key[z] \in Int) /\ (\A x, y \in S : key[x] = key[y] => x = y)
  BY DEF DistinctKeys
<1>1. PICK n : n = Cardinality(S)
  OBVIOUS
<1>2. n \in Nat
  BY <1>1, FS_CardinalityType
<1>3. Ordered(S, key) = [k \in 1 .. n |-> CHOOSE x \in S : RankOf(S, key, x) = k - 1]
  BY <1>1 DEF Ordered, RankOf
<1>4. ASSUME NEW k \in 1 .. n
      PROVE  /\ (CHOOSE x \in S : RankOf(S, key, x) = k - 1) \in S
             /\ RankOf(S, key, CHOOSE x \in S : RankOf(S, key, x) = k - 1) = k - 1
  <2>1. \E x \in S : RankOf(S, key, x) = k - 1
    BY <1>1, RankOnto
  <2>. QED
    BY <2>1
<1>5. ASSUME NEW x \in S PROVE \E k \in 1 .. n : Ordered(S, key)[k] = x
  <2>1. PICK r \in 0 .. n - 1 : r = RankOf(S, key, x)
    BY <1>1, RankBelow
  <2>2. r + 1 \in 1 .. n /\ (r + 1) - 1 = r
    BY <1>2
  <2>3. PICK y : y = CHOOSE z \in S : RankOf(S, key, z) = (r + 1) - 1
    OBVIOUS
  <2>4. y \in S /\ RankOf(S, key, y) = r
    BY <1>4, <2>2, <2>3
  <2>5. RankOf(S, key, x) = RankOf(S, key, y) /\ RankOf(S, key, x) \in Int
    BY <2>1, <2>4
  <2>6. ~(key[x] < key[y])
    BY <2>4, <2>5, RankGrows
  <2>7. ~(key[y] < key[x])
    BY <2>4, <2>5, RankGrows
  <2>8. x = y
    BY <2>4, <2>6, <2>7
  <2>9. Ordered(S, key)[r + 1] = y
    BY <1>3, <2>2, <2>3
  <2>. QED
    BY <2>2, <2>8, <2>9
<1>6. Ordered(S, key) \in [1 .. n -> S]
  BY <1>3, <1>4
<1>7. Ordered(S, key) \in Seq(S) /\ Len(Ordered(S, key)) = n
  BY <1>2, <1>6, SeqDef
<1>8. \A k \in 1 .. n : RankOf(S, key, Ordered(S, key)[k]) = k - 1
  BY <1>3, <1>4
<1>. QED
  BY <1>1, <1>2, <1>5, <1>7, <1>8

\* A sequence of all of them in this order is the only one.
Enumerates(t, n, S, key) ==
    /\ \A z \in S : key[z] \in Int
    /\ t \in [1 .. n -> S]
    /\ \A x \in S : \E k \in 1 .. n : t[k] = x
    /\ \A j, k \in 1 .. n : j < k => key[t[j]] < key[t[k]]

LEMMA OrderedIs ==
    ASSUME NEW S, NEW key, NEW n \in Nat, NEW t, Enumerates(t, n, S, key)
    PROVE  Ordered(S, key) = t
<1>. /\ \A z \in S : key[z] \in Int
     /\ t \in [1 .. n -> S]
     /\ \A x \in S : \E k \in 1 .. n : t[k] = x
     /\ \A j, k \in 1 .. n : j < k => key[t[j]] < key[t[k]]
  BY DEF Enumerates
<1>1. \A j, k \in 1 .. n : key[t[j]] < key[t[k]] => j < k
  BY SMT
<1>2. \A j, k \in 1 .. n : t[j] = t[k] => j = k
  BY SMT
<1>3. ASSUME NEW m \in 0 .. n
      PROVE  IsFiniteSet({t[j] : j \in 1 .. m}) /\ Cardinality({t[j] : j \in 1 .. m}) = m
  <2>. DEFINE f == [j \in 1 .. m |-> t[j]]
              T == {t[j] : j \in 1 .. m}
  <2>1. f \in Bijection(1 .. m, T)
    BY <1>2 DEF Bijection, Injection, Surjection, IsInjective
  <2>. HIDE DEF f, T
  <2>2. IsFiniteSet(1 .. m) /\ Cardinality(1 .. m) = m
    <3>1. m \in Int /\ m - 1 + 1 = m /\ (1 > m => m = 0)
      OBVIOUS
    <3>. QED
      BY <3>1, FS_Interval
  <2>3. IsFiniteSet(T) /\ Cardinality(T) = m
    BY <2>1, <2>2, FS_Bijection DEF ExistsBijection
  <2>. QED
    BY <2>3 DEF T
<1>4. S = {t[j] : j \in 1 .. n}
  OBVIOUS
<1>5. Cardinality(S) = n /\ IsFiniteSet(S)
  BY <1>3, <1>4
<1>6. ASSUME NEW k \in 1 .. n PROVE RankOf(S, key, t[k]) = k - 1
  <2>1. {y \in S : key[y] < key[t[k]]} = {t[j] : j \in 1 .. k - 1}
    <3>1. ASSUME NEW y \in S, key[y] < key[t[k]] PROVE y \in {t[j] : j \in 1 .. k - 1}
      <4>1. PICK j \in 1 .. n : t[j] = y
        OBVIOUS
      <4>2. j < k
        BY <1>1, <3>1, <4>1
      <4>. QED
        BY <4>1, <4>2
    <3>2. ASSUME NEW j \in 1 .. k - 1 PROVE t[j] \in S /\ key[t[j]] < key[t[k]]
      OBVIOUS
    <3>. QED
      BY <3>1, <3>2
  <2>2. k - 1 \in 0 .. n
    OBVIOUS
  <2>. QED
    BY <1>3, <2>1, <2>2 DEF RankOf
<1>7. ASSUME NEW k \in 1 .. n PROVE (CHOOSE x \in S : RankOf(S, key, x) = k - 1) = t[k]
  <2>1. ASSUME NEW x \in S, RankOf(S, key, x) = k - 1 PROVE x = t[k]
    <3>1. PICK j \in 1 .. n : t[j] = x
      OBVIOUS
    <3>2. j - 1 = k - 1
      BY <1>6, <2>1, <3>1
    <3>. QED
      BY <3>1, <3>2
  <2>2. t[k] \in S /\ RankOf(S, key, t[k]) = k - 1
    BY <1>6
  <2>. QED
    BY <2>1, <2>2
<1>. QED
  BY <1>5, <1>7 DEF Ordered, RankOf

\* The cuts of a text with n dots: before the first token, at each dot, and after
\* the last token.
CutAt(d, n, len, k) == IF k = 1 THEN 0 ELSE IF k <= n + 1 THEN d[k - 1] ELSE len + 1

LEMMA CutsFacts ==
    ASSUME NEW n \in Nat, NEW len \in Nat, NEW d \in [1 .. n -> 1 .. len]
    PROVE  LET cuts == <<0>> \o d \o <<len + 1>>
           IN  /\ Len(cuts) = n + 2
               /\ \A k \in 1 .. n + 2 : cuts[k] = CutAt(d, n, len, k)
<1>. DEFINE a == <<0>> \o d
            c == a \o <<len + 1>>
<1>1. d \in Seq(Int) /\ Len(d) = n
  OBVIOUS
<1>2. <<0>> \in Seq(Int) /\ Len(<<0>>) = 1 /\ <<0>>[1] = 0
  OBVIOUS
<1>3. /\ a \in Seq(Int) /\ Len(a) = n + 1
      /\ a[1] = 0 /\ \A k \in 1 .. n + 1 : k # 1 => a[k] = d[k - 1]
  <2>1. a \in Seq(Int) /\ Len(a) = 1 + n
    BY <1>1, <1>2, ConcatProperties
  <2>2. \A k \in 1 .. n + 1 : a[k] = IF k <= 1 THEN <<0>>[k] ELSE d[k - 1]
    BY <1>1, <1>2, ConcatProperties
  <2>3. a[1] = 0
    BY <1>2, <2>2
  <2>. HIDE DEF a
  <2>. QED
    BY <2>1, <2>2, <2>3
<1>4. <<len + 1>> \in Seq(Int) /\ Len(<<len + 1>>) = 1 /\ <<len + 1>>[1] = len + 1
  OBVIOUS
<1>. HIDE DEF a
<1>5. Len(c) = n + 2
  BY <1>3, <1>4, ConcatProperties
<1>6. \A k \in 1 .. n + 2 : c[k] = IF k <= n + 1 THEN a[k] ELSE <<len + 1>>[k - (n + 1)]
  BY <1>3, <1>4, ConcatProperties
<1>. HIDE DEF c
<1>7. c[n + 2] = len + 1
  <2>1. (n + 2) - (n + 1) = 1 /\ n + 2 \in 1 .. n + 2 /\ ~(n + 2 <= n + 1)
    OBVIOUS
  <2>. QED
    BY <1>4, <1>6, <2>1
<1>8. ASSUME NEW k \in 1 .. n + 2 PROVE c[k] = CutAt(d, n, len, k)
  <2>1. CASE k = 1
    BY <1>3, <1>6, <2>1 DEF CutAt
  <2>2. CASE k # 1 /\ k <= n + 1
    <3>1. k \in 1 .. n + 1
      BY <2>2
    <3>2. c[k] = a[k] /\ a[k] = d[k - 1]
      BY <1>3, <1>6, <2>2, <3>1
    <3>. QED
      BY <2>2, <3>2 DEF CutAt
  <2>3. CASE k = n + 2
    BY <1>7, <2>3 DEF CutAt
  <2>. QED
    BY <2>1, <2>2, <2>3
<1>. QED
  BY <1>5, <1>8 DEF c, a

LEMMA PlacesFacts ==
    ASSUME NEW s \in Text, NEW c
    PROVE  /\ IsFiniteSet(Places(s, c)) /\ Cardinality(Places(s, c)) \in Nat
           /\ Places(s, c) \subseteq 1 .. Len(s) /\ Len(s) \in Nat
           /\ Cardinality(Places(s, c)) = 0 <=> Places(s, c) = {}
<1>1. Len(s) \in Nat /\ IsFiniteSet(1 .. Len(s))
  <2>1. Len(s) \in Nat /\ Len(s) \in Int /\ 1 \in Int
    BY DEF Text
  <2>. QED
    BY <2>1, FS_Interval
<1>2. Places(s, c) \in SUBSET (1 .. Len(s))
  BY DEF Places
<1>3. IsFiniteSet(Places(s, c))
  BY <1>1, <1>2, FS_Subset
<1>. QED
  BY <1>1, <1>2, <1>3, FS_CardinalityType, FS_EmptySet

\* The fields of a text whose dots are known.
DotsAt(s, d, n) ==
    /\ d \in [1 .. n -> 1 .. Len(s)]
    /\ \A j, k \in 1 .. n : j < k => d[j] < d[k]
    /\ \A k \in 1 .. Len(s) : s[k] = Dot <=> \E j \in 1 .. n : d[j] = k

LEMMA FieldsOf ==
    ASSUME NEW s \in Text, NEW n \in Nat, NEW d, DotsAt(s, d, n)
    PROVE  /\ Fields(s) = [k \in 1 .. n + 1 |-> SubSeq(s, CutAt(d, n, Len(s), k) + 1,
                                                        CutAt(d, n, Len(s), k + 1) - 1)]
           /\ Len(Fields(s)) = n + 1 /\ DOMAIN Fields(s) = 1 .. n + 1
<1>. DEFINE key == [k \in 1 .. Len(s) |-> k]
            dots == Ordered(Places(s, Dot), key)
            cuts == <<0>> \o dots \o <<Len(s) + 1>>
<1>0. Len(s) \in Nat
  BY DEF Text
<1>1. Enumerates(d, n, Places(s, Dot), key)
  <2>1. d \in [1 .. n -> Places(s, Dot)] /\ \A x \in Places(s, Dot) : \E k \in 1 .. n : d[k] = x
    BY DEF Places, DotsAt
  <2>2. \A z \in Places(s, Dot) : key[z] \in Int
    BY DEF Places
  <2>3. \A j, k \in 1 .. n : j < k => key[d[j]] < key[d[k]]
    BY DEF DotsAt
  <2>. QED
    BY <2>1, <2>2, <2>3 DEF Enumerates
<1>3. d \in [1 .. n -> 1 .. Len(s)]
  BY DEF DotsAt
<1>4. dots = d
  BY <1>1, OrderedIs
<1>5. Len(cuts) = n + 2 /\ \A k \in 1 .. n + 2 : cuts[k] = CutAt(d, n, Len(s), k)
  BY <1>0, <1>3, <1>4, CutsFacts
<1>6. Fields(s) = [k \in 1 .. Len(cuts) - 1 |-> SubSeq(s, cuts[k] + 1, cuts[k + 1] - 1)]
  BY DEF Fields
<1>. HIDE DEF cuts
<1>7. Len(cuts) - 1 = n + 1 /\ \A k \in 1 .. n + 1 : k \in 1 .. n + 2 /\ k + 1 \in 1 .. n + 2
  BY <1>5
<1>8. \A k \in 1 .. n + 1 : cuts[k] = CutAt(d, n, Len(s), k) /\ cuts[k + 1] = CutAt(d, n, Len(s), k + 1)
  BY <1>5, <1>7
<1>9. Fields(s) = [k \in 1 .. n + 1 |-> SubSeq(s, CutAt(d, n, Len(s), k) + 1,
                                                CutAt(d, n, Len(s), k + 1) - 1)]
  BY <1>6, <1>7, <1>8
<1>. QED
  BY <1>9

LEMMA FieldsCuts ==
    ASSUME NEW s \in Text, NEW n \in Nat, n = Cardinality(Places(s, Dot))
    PROVE  \E d \in [1 .. n -> 1 .. Len(s)] :
              /\ \A j \in 1 .. n : s[d[j]] = Dot
              /\ Fields(s) = [k \in 1 .. n + 1 |-> SubSeq(s, CutAt(d, n, Len(s), k) + 1,
                                                         CutAt(d, n, Len(s), k + 1) - 1)]
<1>. DEFINE key == [k \in 1 .. Len(s) |-> k]
            d == Ordered(Places(s, Dot), key)
            cuts == <<0>> \o d \o <<Len(s) + 1>>
<1>1. /\ IsFiniteSet(Places(s, Dot)) /\ Places(s, Dot) \subseteq 1 .. Len(s)
      /\ Len(s) \in Nat /\ \A k \in 1 .. Len(s) : s[k] \in Int
  BY PlacesFacts DEF Text
<1>2. DistinctKeys(Places(s, Dot), key)
  BY <1>1 DEF DistinctKeys
<1>4. d \in Seq(Places(s, Dot)) /\ Len(d) = Cardinality(Places(s, Dot))
  <2>. HIDE DEF key
  <2>. QED
    BY <1>1, <1>2, OrderedFacts
<1>5. n = Len(d)
  BY <1>4
<1>6. Fields(s) = [k \in 1 .. Len(cuts) - 1 |-> SubSeq(s, cuts[k] + 1, cuts[k + 1] - 1)]
  BY DEF Fields
<1>7. d \in [1 .. n -> 1 .. Len(s)] /\ \A j \in 1 .. n : s[d[j]] = Dot
  <2>. HIDE DEF d
  <2>1. \A x \in Places(s, Dot) : s[x] = Dot
    BY DEF Places
  <2>. QED
    BY <1>1, <1>4, <1>5, <2>1
<1>8. Len(cuts) = n + 2 /\ \A k \in 1 .. n + 2 : cuts[k] = CutAt(d, n, Len(s), k)
  <2>. HIDE DEF d
  <2>. QED
    BY <1>1, <1>7, CutsFacts
<1>. HIDE DEF cuts
<1>9. Fields(s) = [k \in 1 .. n + 1 |-> SubSeq(s, CutAt(d, n, Len(s), k) + 1,
                                               CutAt(d, n, Len(s), k + 1) - 1)]
  <2>. HIDE DEF d
  <2>1. Len(cuts) - 1 = n + 1 /\ \A k \in 1 .. n + 1 : k \in 1 .. n + 2 /\ k + 1 \in 1 .. n + 2
    BY <1>8
  <2>2. \A k \in 1 .. n + 1 : cuts[k] = CutAt(d, n, Len(s), k) /\ cuts[k + 1] = CutAt(d, n, Len(s), k + 1)
    BY <1>8, <2>1
  <2>. QED
    BY <1>6, <2>1, <2>2
<1>. QED
  BY <1>7, <1>9

LEMMA FieldsFacts ==
    ASSUME NEW s \in Text
    PROVE  /\ Len(Fields(s)) = Cardinality(Places(s, Dot)) + 1 /\ Len(Fields(s)) \in Nat \ {0}
           /\ DOMAIN Fields(s) = 1 .. Len(Fields(s))
           /\ \A k \in 1 .. Len(Fields(s)) : Fields(s)[k] \in Text
<1>1. PICK n \in Nat : n = Cardinality(Places(s, Dot))
  BY PlacesFacts
<1>2. PICK d \in [1 .. n -> 1 .. Len(s)] :
         Fields(s) = [k \in 1 .. n + 1 |-> SubSeq(s, CutAt(d, n, Len(s), k) + 1,
                                                CutAt(d, n, Len(s), k + 1) - 1)]
  BY <1>1, FieldsCuts
<1>3. Len(s) \in Nat /\ \A k \in 1 .. Len(s) : s[k] \in Int
  BY DEF Text
<1>4. ASSUME NEW k \in 1 .. n + 1 PROVE Fields(s)[k] \in Text
  <2>1. PICK a \in 1 .. Len(s) + 1 : a = CutAt(d, n, Len(s), k) + 1
    BY <1>3 DEF CutAt
  <2>2. PICK b \in 0 .. Len(s) : b = CutAt(d, n, Len(s), k + 1) - 1
    BY <1>3 DEF CutAt
  <2>3. Fields(s)[k] = SubSeq(s, a, b)
    BY <1>2, <2>1, <2>2
  <2>4. SubSeq(s, a, b) \in Seq(Int)
    BY <1>3, <2>1, <2>2, SubSeqProperties
  <2>. QED
    BY <2>3, <2>4 DEF Text
<1>5. Len(Fields(s)) = n + 1 /\ DOMAIN Fields(s) = 1 .. n + 1
  BY <1>2
<1>. QED
  BY <1>1, <1>4, <1>5

LEMMA Atoi3Facts ==
    ASSUME NEW s
    PROVE  Atoi3(s) \in 0 .. 999 \cup {Invalid}
  BY DEF Atoi3

LEMMA SubSeqOne ==
    ASSUME NEW s, NEW m \in Int
    PROVE  SubSeq(s, m, m) = <<s[m]>>
<1>1. PICK S : S = {s[m]}
  OBVIOUS
<1>2. \A i \in m .. m : s[i] \in S
  BY <1>1
<1>3. /\ SubSeq(s, m, m) \in Seq(S)
      /\ Len(SubSeq(s, m, m)) = IF m <= m THEN m - m + 1 ELSE 0
      /\ \A i \in 1 .. m - m + 1 : SubSeq(s, m, m)[i] = s[m + i - 1]
  BY <1>2, SubSeqProperties
<1>4. m - m + 1 = 1 /\ m + 1 - 1 = m /\ 1 \in 1 .. 1 /\ m <= m
  OBVIOUS
<1>5. Len(SubSeq(s, m, m)) = 1
  BY <1>3, <1>4
<1>6. SubSeq(s, m, m)[1] = s[m]
  BY <1>3, <1>4
<1>7. PICK t \in Seq(S) : t = SubSeq(s, m, m)
  BY <1>3
<1>8. t = <<t[1]>>
  <2>1. Len(t) = 1 /\ t[1] \in S
    BY <1>5, <1>7
  <2>2. <<t[1]>> \in Seq(S) /\ Len(<<t[1]>>) = 1 /\ <<t[1]>>[1] = t[1]
    BY <2>1
  <2>3. PICK u \in Seq(S) : u = <<t[1]>>
    BY <2>2
  <2>4. Len(t) = Len(u) /\ \A k \in 1 .. Len(t) : t[k] = u[k]
    BY <2>1, <2>2, <2>3
  <2>5. t = u
    BY <1>7, <2>3, <2>4, SeqEqual
  <2>. QED
    BY <2>3, <2>5
<1>. QED
  BY <1>6, <1>7, <1>8

LEMMA FieldsOfNumbers ==
    ASSUME NEW s \in Text, NEW n \in Nat \ {0}, Numbered(s, n)
    PROVE  /\ Len(Fields(s)) = n /\ DOMAIN Fields(s) = 1 .. n
           /\ \A k \in 1 .. n : Fields(s)[k] = <<s[2 * k - 1]>>
<1>. DEFINE d == [j \in 1 .. n - 1 |-> 2 * j]
<1>1. /\ Len(s) = 2 * n - 1 /\ n - 1 \in Nat
      /\ \A k \in 1 .. n : s[2 * k - 1] # Dot
      /\ \A k \in 1 .. n - 1 : s[2 * k] = Dot
  BY DEF Numbered
<1>2. DotsAt(s, d, n - 1)
  <2>1. d \in [1 .. n - 1 -> 1 .. Len(s)]
    BY <1>1
  <2>2. \A j, k \in 1 .. n - 1 : j < k => d[j] < d[k]
    OBVIOUS
  <2>3. ASSUME NEW k \in 1 .. Len(s) PROVE s[k] = Dot <=> \E j \in 1 .. n - 1 : d[j] = k
    <3>1. (\E m \in 1 .. n : k = 2 * m - 1) \/ (\E m \in 1 .. n - 1 : k = 2 * m)
      <4>1. PICK h \in Nat, r \in 0 .. 1 : k = (2 * h) + r
        <5>1. k = (2 * (k \div 2)) + (k % 2) /\ k \div 2 \in Nat /\ k % 2 \in 0 .. 1
          OBVIOUS
        <5>. QED
          BY <5>1
      <4>2. CASE r = 0
        <5>1. h \in 1 .. n - 1 /\ k = 2 * h
          BY <1>1, <4>1, <4>2
        <5>. QED
          BY <5>1
      <4>3. CASE r = 1
        <5>1. h + 1 \in 1 .. n /\ k = 2 * (h + 1) - 1
          BY <1>1, <4>1, <4>3
        <5>. QED
          BY <5>1
      <4>. QED
        BY <4>2, <4>3
    <3>2. CASE \E m \in 1 .. n : k = 2 * m - 1
      <4>1. PICK m \in 1 .. n : k = 2 * m - 1
        BY <3>2
      <4>2. \A j \in 1 .. n - 1 : d[j] # k
        BY <4>1
      <4>. QED
        BY <1>1, <4>1, <4>2
    <3>3. CASE \E m \in 1 .. n - 1 : k = 2 * m
      BY <1>1, <3>3
    <3>. QED
      BY <3>1, <3>2, <3>3
  <2>. QED
    BY <2>1, <2>2, <2>3 DEF DotsAt
<1>3. /\ Fields(s) = [k \in 1 .. (n - 1) + 1 |-> SubSeq(s, CutAt(d, n - 1, Len(s), k) + 1,
                                                     CutAt(d, n - 1, Len(s), k + 1) - 1)]
      /\ Len(Fields(s)) = (n - 1) + 1 /\ DOMAIN Fields(s) = 1 .. (n - 1) + 1
  <2>. HIDE DEF d
  <2>. QED
    BY <1>1, <1>2, FieldsOf
<1>4. ASSUME NEW k \in 1 .. n PROVE Fields(s)[k] = <<s[2 * k - 1]>>
  <2>1. CutAt(d, n - 1, Len(s), k) = 2 * k - 2
    BY <1>1 DEF CutAt
  <2>2. CutAt(d, n - 1, Len(s), k + 1) = 2 * k
    BY <1>1 DEF CutAt
  <2>3. PICK m \in Int : m = 2 * k - 1
    OBVIOUS
  <2>4. Fields(s)[k] = SubSeq(s, m, m)
    <3>1. (2 * k - 2) + 1 = m /\ (2 * k) - 1 = m /\ k \in 1 .. (n - 1) + 1
      BY <2>3
    <3>. HIDE DEF d
    <3>. QED
      BY <1>3, <2>1, <2>2, <3>1
  <2>5. SubSeq(s, m, m) = <<s[m]>>
    BY SubSeqOne
  <2>. QED
    BY <2>3, <2>4, <2>5
<1>. QED
  BY <1>3, <1>4

\* Up to four fields of one token are such a text.
LEMMA NumbersOfFields ==
    ASSUME NEW s \in Text, NEW n \in 1 .. 4, Len(Fields(s)) = n,
           \A k \in 1 .. n : Len(Fields(s)[k]) = 1
    PROVE  /\ Len(s) = 2 * n - 1
           /\ \A k \in 1 .. n : Fields(s)[k] = <<s[2 * k - 1]>>
           /\ \A k \in 1 .. n - 1 : s[2 * k] = Dot
<1>1. Cardinality(Places(s, Dot)) = n - 1
  <2>1. PICK c \in Nat : c = Cardinality(Places(s, Dot))
    BY PlacesFacts
  <2>2. n = c + 1
    BY <2>1, FieldsFacts
  <2>. QED
    BY <2>1, <2>2
<1>2. PICK m \in Nat : m = n - 1
  OBVIOUS
<1>3. PICK d \in [1 .. m -> 1 .. Len(s)] :
              /\ \A j \in 1 .. m : s[d[j]] = Dot
              /\ Fields(s) = [k \in 1 .. m + 1 |-> SubSeq(s, CutAt(d, m, Len(s), k) + 1,
                                                         CutAt(d, m, Len(s), k + 1) - 1)]
  BY <1>1, <1>2, FieldsCuts
<1>4. Len(s) \in Nat /\ \A k \in 1 .. Len(s) : s[k] \in Int
  BY DEF Text
<1>5. ASSUME NEW a \in 0 .. Len(s), NEW b \in 1 .. Len(s) + 1, Len(SubSeq(s, a + 1, b - 1)) = 1
      PROVE  b = a + 2 /\ SubSeq(s, a + 1, b - 1) = <<s[a + 1]>>
  <2>1. PICK i, j \in Int : i = a + 1 /\ j = b - 1
    BY <1>4
  <2>2. \A k \in i .. j : s[k] \in Int
    BY <1>4, <2>1
  <2>3. Len(SubSeq(s, i, j)) = IF i <= j THEN j - i + 1 ELSE 0
    BY <2>2, SubSeqProperties
  <2>4. Len(SubSeq(s, i, j)) = 1
    BY <1>5, <2>1
  <2>5. j = i
    BY <2>3, <2>4
  <2>6. SubSeq(s, i, j) = <<s[i]>>
    BY <2>5, SubSeqOne
  <2>. QED
    BY <1>4, <2>1, <2>5, <2>6
<1>. DEFINE c(k) == CutAt(d, m, Len(s), k)
<1>6. /\ c(1) = 0 /\ c(n + 1) = Len(s) + 1
      /\ \A k \in 2 .. n : c(k) = d[k - 1]
  BY <1>2 DEF CutAt
<1>7. \A k \in 1 .. n : Fields(s)[k] = SubSeq(s, c(k) + 1, c(k + 1) - 1)
  <2>1. m + 1 = n
    BY <1>2
  <2>. QED
    BY <1>3, <2>1, Zenon
<1>. HIDE DEF c
<1>8. \A k \in 2 .. n : d[k - 1] \in 1 .. Len(s) /\ s[d[k - 1]] = Dot
  BY <1>2, <1>3
<1>9. \A k \in 1 .. n : c(k) \in 0 .. Len(s) /\ c(k + 1) \in 1 .. Len(s) + 1
  <2>. TAKE k \in 1 .. n
  <2>1. c(k) \in 0 .. Len(s)
    <3>1. CASE k = 1
      BY <1>4, <1>6, <3>1
    <3>2. CASE k # 1
      <4>1. k \in 2 .. n
        BY <3>2
      <4>2. c(k) = d[k - 1] /\ d[k - 1] \in 1 .. Len(s)
        BY <1>6, <1>8, <4>1
      <4>. QED
        BY <1>4, <4>2
    <3>. QED
      BY <3>1, <3>2
  <2>2. c(k + 1) \in 1 .. Len(s) + 1
    <3>1. CASE k = n
      BY <1>4, <1>6, <3>1
    <3>2. CASE k # n
      <4>1. PICK j \in 2 .. n : j = k + 1
        BY <3>2
      <4>2. c(j) = d[j - 1] /\ d[j - 1] \in 1 .. Len(s)
        BY <1>6, <1>8
      <4>. QED
        BY <1>4, <4>1, <4>2
    <3>. QED
      BY <3>1, <3>2
  <2>. QED
    BY <2>1, <2>2
<1>10. ASSUME NEW k \in 1 .. n
       PROVE  c(k + 1) = c(k) + 2 /\ Fields(s)[k] = <<s[c(k) + 1]>>
  <2>1. c(k) \in 0 .. Len(s) /\ c(k + 1) \in 1 .. Len(s) + 1
    BY <1>9
  <2>2. Len(SubSeq(s, c(k) + 1, c(k + 1) - 1)) = 1
    BY <1>7
  <2>. QED
    BY <1>5, <1>7, <2>1, <2>2
<1>11. \A k \in 1 .. n + 1 : c(k) = 2 * k - 2
  <2>0. /\ 1 + 1 = 2 /\ 2 + 1 = 3 /\ 3 + 1 = 4 /\ 4 + 1 = 5
        /\ 1 \in 1 .. n /\ n \in {1, 2, 3, 4}
    OBVIOUS
  <2>1. c(1) = 0
    BY <1>6
  <2>2. c(2) = 2
    BY <1>10, <2>0, <2>1
  <2>3. n >= 2 => c(3) = 4
    <3>1. n >= 2 => 2 \in 1 .. n
      OBVIOUS
    <3>. QED
      BY <1>10, <2>0, <2>2, <3>1
  <2>4. n >= 3 => c(4) = 6
    <3>1. n >= 3 => 3 \in 1 .. n /\ n >= 2
      OBVIOUS
    <3>. QED
      BY <1>10, <2>0, <2>3, <3>1
  <2>5. n >= 4 => c(5) = 8
    <3>1. n >= 4 => 4 \in 1 .. n /\ n >= 3
      OBVIOUS
    <3>. QED
      BY <1>10, <2>0, <2>4, <3>1
  <2>. SUFFICES ASSUME NEW k \in 1 .. n + 1 PROVE c(k) = 2 * k - 2
    OBVIOUS
  <2>6. k \in {1, 2, 3, 4, 5}
    OBVIOUS
  <2>7. CASE k = 1
    BY <2>1, <2>7
  <2>8. CASE k = 2
    BY <2>2, <2>8
  <2>9. CASE k = 3
    BY <2>3, <2>9
  <2>10. CASE k = 4
    BY <2>4, <2>10
  <2>11. CASE k = 5
    BY <2>5, <2>11
  <2>. QED
    BY <2>6, <2>7, <2>8, <2>9, <2>10, <2>11
<1>12. Len(s) = 2 * n - 1
  <2>1. PICK x \in Nat : x = Len(s)
    BY <1>4
  <2>2. c(n + 1) = 2 * (n + 1) - 2
    BY <1>11
  <2>3. x + 1 = 2 * (n + 1) - 2
    BY <1>6, <2>1, <2>2
  <2>. QED
    BY <2>1, <2>3
<1>13. \A k \in 1 .. n : Fields(s)[k] = <<s[2 * k - 1]>>
  <2>. TAKE k \in 1 .. n
  <2>1. c(k) = 2 * k - 2
    BY <1>11
  <2>2. c(k) + 1 = 2 * k - 1
    BY <2>1
  <2>. QED
    BY <1>10, <2>2
<1>14. \A k \in 1 .. n - 1 : s[2 * k] = Dot
  <2>. TAKE k \in 1 .. n - 1
  <2>1. PICK j \in 2 .. n : j = k + 1
    OBVIOUS
  <2>2. c(j) = 2 * j - 2 /\ c(j) = d[j - 1] /\ s[d[j - 1]] = Dot
    BY <1>6, <1>8, <1>11
  <2>3. 2 * j - 2 = 2 * k
    BY <2>1
  <2>. QED
    BY <2>2, <2>3
<1>. QED
  BY <1>12, <1>13, <1>14

\* The text s is the address of the numbers a, b, c and d.
IsDotted(s, a, b, c, d) ==
    /\ a \in 0 .. 999 /\ b \in 0 .. 999 /\ c \in 0 .. 999 /\ d \in 0 .. 999
    /\ s = <<a, Dot, b, Dot, c, Dot, d>>

\* Its fields are the four numbers.
FourFields(s, a, b, c, d) ==
    /\ Len(Fields(s)) = 4 /\ DOMAIN Fields(s) = 1 .. 4
    /\ Fields(s)[1] = <<a>> /\ Fields(s)[2] = <<b>>
    /\ Fields(s)[3] = <<c>> /\ Fields(s)[4] = <<d>>

LEMMA FieldsOfFour ==
    ASSUME NEW s, NEW a, NEW b, NEW c, NEW d, IsDotted(s, a, b, c, d)
    PROVE  FourFields(s, a, b, c, d)
<1>1. /\ a \in 0 .. 999 /\ b \in 0 .. 999 /\ c \in 0 .. 999 /\ d \in 0 .. 999
      /\ s = <<a, Dot, b, Dot, c, Dot, d>>
  BY DEF IsDotted
<1>2. /\ s[1] = a /\ s[2] = Dot /\ s[3] = b /\ s[4] = Dot /\ s[5] = c /\ s[6] = Dot /\ s[7] = d
      /\ Len(s) = 7
  BY <1>1
<1>3. s \in Text
  BY <1>1 DEF Text, Dot
<1>5. PICK n \in Nat \ {0} : n = 4
  OBVIOUS
<1>6. \A k \in 1 .. n : k = 1 \/ k = 2 \/ k = 3 \/ k = 4
  BY <1>5
<1>7. /\ 2 * 1 - 1 = 1 /\ 2 * 2 - 1 = 3 /\ 2 * 3 - 1 = 5 /\ 2 * 4 - 1 = 7
      /\ 2 * 1 = 2 /\ 2 * 2 = 4 /\ 2 * 3 = 6
  OBVIOUS
<1>8. \A k \in 1 .. n : s[2 * k - 1] # Dot
  <2>1. s[1] # Dot /\ s[3] # Dot /\ s[5] # Dot /\ s[7] # Dot
    <3>1. a # Dot /\ b # Dot /\ c # Dot /\ d # Dot
      <4>1. a \in 0 .. 999 /\ b \in 0 .. 999 /\ c \in 0 .. 999 /\ d \in 0 .. 999
        BY <1>1
      <4>2. a # Dot
        BY <4>1 DEF Dot
      <4>3. b # Dot
        BY <4>1 DEF Dot
      <4>4. c # Dot
        BY <4>1 DEF Dot
      <4>5. d # Dot
        BY <4>1 DEF Dot
      <4>. QED
        BY <4>2, <4>3, <4>4, <4>5
    <3>. QED
      BY <1>2, <3>1, Zenon
  <2>2. s[2 * 1 - 1] # Dot /\ s[2 * 2 - 1] # Dot /\ s[2 * 3 - 1] # Dot /\ s[2 * 4 - 1] # Dot
    BY <1>7, <2>1
  <2>3. ASSUME NEW k \in 1 .. n PROVE s[2 * k - 1] # Dot
    <3>1. k = 1 \/ k = 2 \/ k = 3 \/ k = 4
      BY <1>6
    <3>2. CASE k = 1
      BY <2>2, <3>2, Zenon
    <3>3. CASE k = 2
      BY <2>2, <3>3, Zenon
    <3>4. CASE k = 3
      BY <2>2, <3>4, Zenon
    <3>5. CASE k = 4
      BY <2>2, <3>5, Zenon
    <3>. QED
      BY <3>1, <3>2, <3>3, <3>4, <3>5
  <2>. QED
    BY <2>3
<1>9. \A k \in 1 .. n - 1 : s[2 * k] = Dot
  <2>1. \A k \in 1 .. n - 1 : k = 1 \/ k = 2 \/ k = 3
    BY <1>5
  <2>. QED
    BY <1>2, <1>7, <2>1
<1>10. Numbered(s, n)
  <2>1. Len(s) = 2 * n - 1
    BY <1>2, <1>5
  <2>. QED
    BY <1>8, <1>9, <2>1 DEF Numbered
<1>11. /\ Len(Fields(s)) = n /\ DOMAIN Fields(s) = 1 .. n
       /\ \A k \in 1 .. n : Fields(s)[k] = <<s[2 * k - 1]>>
  BY <1>3, <1>10, FieldsOfNumbers
<1>12. Fields(s)[1] = <<s[2 * 1 - 1]>> /\ Fields(s)[2] = <<s[2 * 2 - 1]>>
       /\ Fields(s)[3] = <<s[2 * 3 - 1]>> /\ Fields(s)[4] = <<s[2 * 4 - 1]>>
  <2>1. 1 \in 1 .. n /\ 2 \in 1 .. n /\ 3 \in 1 .. n /\ 4 \in 1 .. n
    BY <1>5
  <2>. QED
    BY <1>11, <2>1
<1>. QED
  BY <1>2, <1>5, <1>7, <1>11, <1>12 DEF FourFields
=============================================================================
