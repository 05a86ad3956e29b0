------------------------ MODULE RandomPromiseProofs ------------------------
(****************************************************************************)
(* A walk with list_intervals_random_promise implements the ledger, saves    *)
(* what was reported, counts what is done and ends when everything was       *)
(* scanned: for every size of the list, every threshold of step_done(),      *)
(* every window that holds a step and every number of crashes.               *)
(****************************************************************************)
EXTENDS RandomPromise, AggregationProofs

(* The iterator over the steps to do. *)

\* What set_done_steps() and init() make of _steps_todo.
Walkable(t) == t \in Seq(LegalInterval) /\ InOrder(t) /\ AllWide(t) /\ Covered(t) \subseteq Step

End(t) == [index |-> Len(t) + 1, offset |-> 0]

Placed(t, i) ==
    \/ i = End(t)
    \/ \E k \in 1 .. Len(t), o \in Value :
         i = [index |-> k, offset |-> o] /\ t[k].lower + o < t[k].upper

\* CurrentStep, NextIter and Remaining of a list and an iterator.
Cur(t, i) == (t[i.index].lower + i.offset) % Word

Following(t, i) ==
    IF Cur(t, i) # (t[i.index].upper - 1) % Word
      THEN [i EXCEPT !.offset = (@ + 1) % Word]
      ELSE [index |-> i.index + 1, offset |-> 0]

Left(t, i) ==
    {s \in Step : \E k \in i.index .. Len(t) :
        /\ Has(t[k], s)
        /\ k = i.index => s >= t[k].lower + i.offset}

(* The inductive invariant. *)

CommonInv ==
    /\ alive \in BOOLEAN /\ seed \in Seeds /\ crashes \in 0 .. MaxCrashes
    /\ window \subseteq Step /\ reported \subseteq window

DownInv == ~alive => todo = <<>> /\ done = <<>> /\ iter = Begin /\ inflight = {}

ListsInv ==
    alive => /\ Walkable(todo) /\ Placed(todo, iter)
             /\ done \in Seq(LegalInterval) /\ Disjoint(done)

\* Every step is to do, at work or done.
Hands(R, F, D) ==
    /\ R \cup F \cup D = Step
    /\ R \cap F = {} /\ R \cap D = {} /\ F \cap D = {}

\* The steps at work came before the one the iterator is at.
Behind(F, t, i) == \A s \in F : i = End(t) \/ s < Cur(t, i)

HandsInv ==
    alive => /\ Hands(Left(todo, iter), inflight, Covered(done))
             /\ Behind(inflight, todo, iter)

\* What is known of the steps done, in a state with the seed x.
Honest(D, x) ==
    /\ Step \ window \subseteq D
    /\ D \cap window \subseteq reported
    /\ scanned = {Element(x, s) : s \in reported}

DoneInv == alive => Honest(Covered(done), seed)

ArchiveInv ==
    archive # NoArchive =>
        /\ archive \in [seed : Seeds, done : Seq(LegalInterval)]
        /\ Covered(archive.done) \subseteq Step
        /\ Honest(Covered(archive.done), archive.seed)
        /\ alive => seed = archive.seed

IInv == CommonInv /\ DownInv /\ ListsInv /\ HandsInv /\ DoneInv /\ ArchiveInv

------------------------------------------------------------------------------
(* The iterator. *)

LEMMA BeginFacts ==
    ASSUME NEW t, Walkable(t)
    PROVE  Placed(t, Begin) /\ Left(t, Begin) = Covered(t)
<1>1. /\ t \in Seq(LegalInterval) /\ AllWide(t) /\ Covered(t) \subseteq Step /\ Len(t) \in Nat
  BY SeqFacts DEF Walkable
<1>2. \A k \in 1 .. Len(t) : t[k].lower \in Nat /\ t[k].lower < t[k].upper
  BY <1>1, SeqFacts, LegalFacts DEF AllWide
<1>3. Placed(t, Begin)
  <2>1. CASE Len(t) = 0
    BY <2>1 DEF Placed, End, Begin
  <2>2. CASE Len(t) > 0
    <3>1. 1 \in 1 .. Len(t) /\ 0 \in Value
      BY <1>1, <2>2, WordAssumption DEF Value
    <3>2. t[1].lower + 0 < t[1].upper
      BY <1>2, <3>1
    <3>. QED
      BY <3>1, <3>2 DEF Placed, Begin
  <2>. QED
    BY <1>1, <2>1, <2>2
<1>4. ASSUME NEW s \in Step
      PROVE  s \in Left(t, Begin) <=> InList(t, s)
  <2>1. \A k \in 1 .. Len(t) : Has(t[k], s) => s >= t[k].lower + 0
    BY <1>2, PromiseAssumption DEF Has, Step
  <2>. QED
    BY <1>1, <2>1 DEF Left, Begin, InList
<1>5. ASSUME NEW s PROVE s \in Covered(t) <=> s \in Step /\ InList(t, s)
  <2>1. Step \subseteq Value
    BY PromiseAssumption, WordAssumption DEF Step, Value
  <2>. QED
    BY <1>1, <2>1 DEF Covered
<1>6. Left(t, Begin) \subseteq Step
  BY DEF Left
<1>. QED
  BY <1>3, <1>4, <1>5, <1>6

LEMMA EndFacts ==
    ASSUME NEW t, Walkable(t)
    PROVE  Left(t, End(t)) = {}
<1>1. Len(t) \in Nat
  BY SeqFacts DEF Walkable
<1>. QED
  BY <1>1 DEF Left, End

\* What operator* and operator++ do before the end.
LEMMA IterFacts ==
    ASSUME NEW t, Walkable(t), NEW i, Placed(t, i), i # End(t)
    PROVE  /\ i.index \in 1 .. Len(t) /\ i.offset \in Value
           /\ Cur(t, i) \in Step /\ Has(t[i.index], Cur(t, i))
           /\ Cur(t, i) \in Left(t, i)
           /\ \A r \in Left(t, i) : Cur(t, i) <= r
           /\ Placed(t, Following(t, i))
           /\ Left(t, Following(t, i)) = Left(t, i) \ {Cur(t, i)}
<1>1. /\ t \in Seq(LegalInterval) /\ InOrder(t) /\ AllWide(t) /\ Covered(t) \subseteq Step
      /\ Len(t) \in Nat
  BY SeqFacts DEF Walkable
<1>2. \A k \in 1 .. Len(t) : /\ t[k].lower \in Nat /\ t[k].upper \in Nat
                             /\ t[k].lower < t[k].upper /\ t[k].upper \in Value
  BY <1>1, SeqFacts, LegalFacts DEF AllWide
<1>3. PICK n \in 1 .. Len(t), o \in Value :
        i = [index |-> n, offset |-> o] /\ t[n].lower + o < t[n].upper
  BY DEF Placed
<1>4. i.index = n /\ i.offset = o
  BY <1>3
<1>5. PICK lo \in Nat, up \in Nat : lo = t[n].lower /\ up = t[n].upper
  BY <1>2
<1>6. /\ o \in Nat /\ lo + o < up /\ up < Word /\ up \in Nat /\ lo \in Nat /\ Word \in Nat
  BY <1>2, <1>3, <1>5, WordAssumption DEF Value
<1>7. PICK c \in Nat : c = lo + o
  BY <1>6
<1>8. Cur(t, i) = c /\ c \in Value
  <2>1. c \in Value
    BY <1>6, <1>7 DEF Value
  <2>. QED
    BY <1>4, <1>5, <1>7, <2>1, ValueModWord DEF Cur
<1>9. Has(t[n], c)
  BY <1>5, <1>6, <1>7 DEF Has
<1>10. c \in Step
  BY <1>1, <1>8, <1>9 DEF Covered, InList
<1>11. \A j \in 1 .. Len(t) : n < j => up <= t[j].lower
  BY <1>1, <1>5 DEF InOrder
<1>12. ASSUME NEW s \in Step
       PROVE  s \in Left(t, i) <=> \/ c <= s /\ s < up
                                   \/ \E k \in n + 1 .. Len(t) : Has(t[k], s)
  <2>1. s \in Nat
    BY PromiseAssumption DEF Step
  <2>2. ASSUME NEW k \in n .. Len(t), Has(t[k], s), k = n => s >= lo + o
        PROVE  (c <= s /\ s < up) \/ \E j \in n + 1 .. Len(t) : Has(t[j], s)
    <3>1. CASE k = n
      BY <1>5, <1>7, <2>2, <3>1 DEF Has
    <3>2. CASE k # n
      <4>1. k \in n + 1 .. Len(t)
        BY <1>1, <3>2
      <4>. QED
        BY <2>2, <4>1
    <3>. QED
      BY <3>1, <3>2
  <2>3. ASSUME c <= s, s < up PROVE Has(t[n], s) /\ n \in n .. Len(t) /\ s >= lo + o
    BY <1>1, <1>5, <1>6, <1>7, <2>1, <2>3 DEF Has
  <2>4. \A k \in n + 1 .. Len(t) : k \in n .. Len(t) /\ k # n
    BY <1>1
  <2>5. s \in Left(t, i) <=> \E k \in n .. Len(t) : Has(t[k], s) /\ (k = n => s >= lo + o)
    BY <1>4, <1>5 DEF Left
  <2>. QED
    BY <2>2, <2>3, <2>4, <2>5
<1>13. Left(t, i) \subseteq Step /\ Left(t, Following(t, i)) \subseteq Step
  BY DEF Left
<1>14. c \in Left(t, i)
  BY <1>6, <1>7, <1>10, <1>12
<1>15. ASSUME NEW s \in Step, NEW k \in n + 1 .. Len(t), Has(t[k], s) PROVE up <= s
  <2>1. k \in 1 .. Len(t) /\ n < k
    BY <1>1
  <2>2. up <= t[k].lower /\ t[k].lower \in Nat
    BY <1>2, <1>11, <2>1
  <2>3. t[k].lower <= s /\ s \in Nat
    BY <1>15, PromiseAssumption DEF Has, Step
  <2>. QED
    BY <1>6, <2>2, <2>3
<1>16. ASSUME NEW r \in Left(t, i) PROVE c <= r
  <2>1. r \in Step /\ r \in Nat
    BY <1>13, PromiseAssumption DEF Step
  <2>2. CASE \E k \in n + 1 .. Len(t) : Has(t[k], r)
    <3>1. up <= r
      BY <1>15, <2>1, <2>2
    <3>. QED
      BY <1>6, <1>7, <2>1, <3>1
  <2>. QED
    BY <1>12, <2>1, <2>2
<1>17. (up - 1) % Word = up - 1
  <2>1. up - 1 \in Value
    BY <1>6 DEF Value
  <2>. QED
    BY <2>1, ValueModWord
<1>18. CASE c # up - 1
  <2>1. c + 1 < up /\ o + 1 \in Value
    BY <1>6, <1>7, <1>18 DEF Value
  <2>2. Following(t, i) = [index |-> n, offset |-> o + 1]
    <3>1. Following(t, i) = [i EXCEPT !.offset = (@ + 1) % Word]
      BY <1>4, <1>5, <1>8, <1>17, <1>18 DEF Following
    <3>2. (o + 1) % Word = o + 1
      BY <2>1, ValueModWord
    <3>. QED
      BY <1>3, <3>1, <3>2
  <2>3. Placed(t, Following(t, i))
    <3>1. t[n].lower + (o + 1) < t[n].upper
      BY <1>5, <1>6, <1>7, <2>1, SMTT(30)
    <3>. QED
      BY <2>1, <2>2, <3>1 DEF Placed
  <2>4. ASSUME NEW s \in Step
        PROVE  s \in Left(t, Following(t, i)) <=> \/ c + 1 <= s /\ s < up
                                              \/ \E k \in n + 1 .. Len(t) : Has(t[k], s)
    <3>0. s \in Nat
      BY PromiseAssumption DEF Step
    <3>1. s \in Left(t, Following(t, i)) <=>
            \E k \in n .. Len(t) : Has(t[k], s) /\ (k = n => s >= lo + (o + 1))
      BY <1>5, <2>2 DEF Left
    <3>2. ASSUME NEW k \in n .. Len(t), Has(t[k], s), k = n => s >= lo + (o + 1)
          PROVE  (c + 1 <= s /\ s < up) \/ \E j \in n + 1 .. Len(t) : Has(t[j], s)
      <4>1. CASE k = n
        BY <1>5, <1>6, <1>7, <3>0, <3>2, <4>1 DEF Has
      <4>2. CASE k # n
        <5>1. k \in n + 1 .. Len(t)
          BY <1>1, <4>2
        <5>. QED
          BY <3>2, <5>1
      <4>. QED
        BY <4>1, <4>2
    <3>3. ASSUME c + 1 <= s, s < up PROVE Has(t[n], s) /\ n \in n .. Len(t) /\ s >= lo + (o + 1)
      BY <1>1, <1>5, <1>6, <1>7, <3>0, <3>3 DEF Has
    <3>4. \A k \in n + 1 .. Len(t) : k \in n .. Len(t) /\ k # n
      BY <1>1
    <3>. QED
      BY <3>1, <3>2, <3>3, <3>4
  <2>5. ASSUME NEW s \in Step
        PROVE  s \in Left(t, Following(t, i)) <=> s \in Left(t, i) /\ s # c
    <3>1. s \in Nat
      BY PromiseAssumption DEF Step
    <3>2. c + 1 <= s <=> c <= s /\ s # c
      BY <3>1
    <3>3. (\E k \in n + 1 .. Len(t) : Has(t[k], s)) => s # c
      BY <1>6, <1>7, <1>15
    <3>. QED
      BY <1>12, <2>4, <3>2, <3>3
  <2>6. Left(t, Following(t, i)) = Left(t, i) \ {c}
    BY <1>13, <2>5
  <2>. QED
    BY <1>3, <1>4, <1>8, <1>9, <1>10, <1>14, <1>16, <2>3, <2>6
<1>19. CASE c = up - 1
  <2>1. Following(t, i) = [index |-> n + 1, offset |-> 0]
    BY <1>4, <1>5, <1>8, <1>17, <1>19 DEF Following
  <2>2. Placed(t, Following(t, i))
    <3>1. CASE n = Len(t)
      BY <2>1, <3>1 DEF Placed, End
    <3>2. CASE n < Len(t)
      <4>1. n + 1 \in 1 .. Len(t) /\ 0 \in Value
        BY <1>1, <1>6, <3>2 DEF Value
      <4>2. t[n + 1].lower + 0 < t[n + 1].upper
        BY <1>2, <4>1
      <4>. QED
        BY <2>1, <4>1, <4>2 DEF Placed
    <3>. QED
      BY <1>1, <3>1, <3>2
  <2>3. ASSUME NEW s \in Step
        PROVE  s \in Left(t, Following(t, i)) <=> \E k \in n + 1 .. Len(t) : Has(t[k], s)
    <3>1. \A k \in n + 1 .. Len(t) : Has(t[k], s) => s >= t[k].lower + 0
      BY <1>1, <1>2, PromiseAssumption DEF Has, Step
    <3>. QED
      BY <2>1, <3>1 DEF Left
  <2>4. ASSUME NEW s \in Step
        PROVE  s \in Left(t, Following(t, i)) <=> s \in Left(t, i) /\ s # c
    <3>1. s \in Nat
      BY PromiseAssumption DEF Step
    <3>2. c <= s /\ s < up <=> s = c
      BY <1>6, <1>19, <3>1
    <3>3. (\E k \in n + 1 .. Len(t) : Has(t[k], s)) => s # c
      BY <1>6, <1>7, <1>15
    <3>. QED
      BY <1>12, <2>3, <3>2, <3>3
  <2>5. Left(t, Following(t, i)) = Left(t, i) \ {c}
    BY <1>13, <2>4
  <2>. QED
    BY <1>3, <1>4, <1>8, <1>9, <1>10, <1>14, <1>16, <2>2, <2>5
<1>. QED
  BY <1>18, <1>19

------------------------------------------------------------------------------
(* The lists of steps. *)

LEMMA StepValue ==
    /\ N \in Nat \ {0} /\ N \in Value /\ 0 \in Value /\ Step \subseteq Value
    /\ \A s \in Step : s \in Nat /\ s + 1 \in Value /\ s < N
<1>1. N \in Nat \ {0} /\ N < Word /\ Word \in Nat
  BY PromiseAssumption, WordAssumption
<1>. QED
  BY <1>1 DEF Step, Value

\* One interval as a list.
LEMMA OneInterval ==
    ASSUME NEW i \in LegalInterval
    PROVE  /\ <<i>> \in Seq(LegalInterval) /\ Len(<<i>>) = 1 /\ <<i>>[1] = i
           /\ Covered(<<i>>) = {v \in Value : Has(i, v)}
           /\ InOrder(<<i>>)
           /\ i.lower < i.upper => AllWide(<<i>>)
<1>1. <<i>> \in Seq(LegalInterval) /\ Len(<<i>>) = 1 /\ <<i>>[1] = i
  OBVIOUS
<1>2. \A k \in 1 .. Len(<<i>>) : k = 1
  BY <1>1
<1>3. \A v : InList(<<i>>, v) <=> Has(i, v)
  BY <1>1, <1>2 DEF InList
<1>. QED
  BY <1>1, <1>2, <1>3 DEF Covered, InOrder, AllWide

LEMMA AllSteps ==
    /\ Itv(0, N) \in LegalInterval /\ Itv(0, N).lower = 0 /\ Itv(0, N).upper = N
    /\ Covered(<<Itv(0, N)>>) = Step
<1>1. Itv(0, N) \in LegalInterval /\ Itv(0, N).lower = 0 /\ Itv(0, N).upper = N
  BY StepValue, ItvLegal
<1>2. \A v \in Value : Has(Itv(0, N), v) <=> v \in Step
  BY <1>1, StepValue, WordAssumption DEF Has, Step, Value
<1>3. Step \subseteq Value
  BY StepValue
<1>. QED
  BY <1>1, <1>2, <1>3, OneInterval

\* Aggregating the done steps changes none of them.
LEMMA AggregatedDoneFacts ==
    ASSUME NEW d \in Seq(LegalInterval)
    PROVE  /\ AggregatedDone(d) \in Seq(LegalInterval)
           /\ Disjoint(AggregatedDone(d))
           /\ Covered(AggregatedDone(d)) = Covered(d)
<1>1. <<>> \in Seq(LegalInterval)
  OBVIOUS
<1>2. Covered(<<>>) = {}
  BY DEF Covered, InList
<1>3. /\ Aggregated(d, <<>>).intervals \in Seq(LegalInterval)
      /\ InOrder(Aggregated(d, <<>>).intervals)
      /\ Covered(Aggregated(d, <<>>).intervals) = Covered(d) \ Covered(<<>>)
  BY <1>1, AggregatedFacts
<1>. QED
  BY <1>2, <1>3, OrderedIsDisjoint DEF AggregatedDone

\* set_done_steps() leaves the other steps to do, in order.
LEMMA StepsToDoFacts ==
    ASSUME NEW d \in Seq(LegalInterval)
    PROVE  Walkable(StepsToDo(d)) /\ Covered(StepsToDo(d)) = Step \ Covered(d)
<1>. DEFINE s == <<Itv(0, N)>>
<1>1. s \in Seq(LegalInterval) /\ Covered(s) = Step /\ AllWide(s)
  <2>1. 0 < N
    BY StepValue
  <2>. QED
    BY <2>1, AllSteps, OneInterval
<1>. HIDE DEF s
<1>2. /\ Aggregated(s, d).intervals \in Seq(LegalInterval)
      /\ InOrder(Aggregated(s, d).intervals)
      /\ AllWide(s) => AllWide(Aggregated(s, d).intervals)
      /\ Covered(Aggregated(s, d).intervals) = Covered(s) \ Covered(d)
  BY <1>1, AggregatedFacts
<1>3. StepsToDo(d) = Aggregated(s, d).intervals
  BY DEF StepsToDo, s
<1>. QED
  BY <1>1, <1>2, <1>3 DEF Walkable

\* A step that is not among the done ones is added to them.
LEMMA AppendStep ==
    ASSUME NEW d \in Seq(LegalInterval), Disjoint(d), NEW s \in Step, s \notin Covered(d)
    PROVE  /\ Append(d, Itv(s, s + 1)) \in Seq(LegalInterval)
           /\ Disjoint(Append(d, Itv(s, s + 1)))
           /\ Covered(Append(d, Itv(s, s + 1))) = Covered(d) \cup {s}
<1>1. s \in Nat /\ s \in Value /\ s + 1 \in Value /\ s <= s + 1
  BY StepValue
<1>2. PICK i \in LegalInterval : i = Itv(s, s + 1) /\ i.lower = s /\ i.upper = s + 1
  BY <1>1, ItvLegal
<1>3. \A v \in Value : Has(i, v) <=> v = s
  BY <1>1, <1>2 DEF Has, Value
<1>4. PICK e : e = Append(d, i)
  OBVIOUS
<1>5. /\ e \in Seq(LegalInterval) /\ Len(e) = Len(d) + 1 /\ e[Len(d) + 1] = i
      /\ \A k \in 1 .. Len(d) : e[k] = d[k]
      /\ \A v \in Value : InList(e, v) <=> InList(d, v) \/ Has(i, v)
  BY <1>4, AppendFacts
<1>6. Covered(e) = Covered(d) \cup {s}
  BY <1>1, <1>3, <1>5 DEF Covered
<1>7. Disjoint(e)
  <2>1. Len(d) \in Nat
    BY SeqFacts
  <2>2. \A k \in 1 .. Len(e) : k \in 1 .. Len(d) \/ k = Len(d) + 1
    BY <1>5, <2>1
  <2>3. \A k \in 1 .. Len(d) : ~Has(d[k], s)
    BY <1>1 DEF Covered, InList
  <2>4. \A v \in Value : \A k \in 1 .. Len(d) : ~(Has(d[k], v) /\ Has(i, v))
    BY <1>3, <2>3
  <2>. QED
    BY <1>5, <2>2, <2>4 DEF Disjoint
<1>. QED
  BY <1>2, <1>4, <1>5, <1>6, <1>7

\* What init() makes of a window.
LEMMA ClampedFacts ==
    ASSUME NEW w \in Windows
    PROVE  /\ Clamped(w) \in LegalInterval
           /\ Clamped(w).lower \in Value /\ Clamped(w).upper \in Value
           /\ Clamped(w).upper <= N
<1>1. w[1] \in Nat /\ w[2] \in Nat
  BY PromiseAssumption
<1>2. PICK a \in 0 .. N : a = Least(w[1], N)
  BY <1>1, StepValue DEF Least
<1>3. PICK b \in 0 .. N : b = Least(w[2], N)
  BY <1>1, StepValue DEF Least
<1>4. PICK lo \in 0 .. N, up \in 0 .. N :
        lo = Least(a, b) /\ up = Greatest(a, b) /\ lo <= up
  <2>. Least(a, b) \in 0 .. N /\ Greatest(a, b) \in 0 .. N /\ Least(a, b) <= Greatest(a, b)
    BY StepValue DEF Least, Greatest
  <2>. QED
    OBVIOUS
<1>5. lo \in Value /\ up \in Value /\ up <= N
  BY StepValue, WordAssumption DEF Value
<1>6. Clamped(w) = Itv(lo, up)
  BY <1>2, <1>3, <1>4 DEF Clamped
<1>. QED
  BY <1>4, <1>5, <1>6, ItvLegal

\* The steps outside the window count as done.
LEMMA OutsideFacts ==
    ASSUME NEW c \in LegalInterval, c.upper <= N
    PROVE  /\ <<Itv(0, c.lower), Itv(c.upper, N)>> \in Seq(LegalInterval)
           /\ Covered(<<Itv(0, c.lower), Itv(c.upper, N)>>) = {x \in Step : ~Has(c, x)}
<1>1. /\ c.lower \in Nat /\ c.upper \in Nat /\ c.lower <= c.upper
      /\ c.lower \in Value /\ c.upper \in Value
  BY LegalFacts
<1>2. PICK i \in LegalInterval : i = Itv(0, c.lower) /\ i.lower = 0 /\ i.upper = c.lower
  BY <1>1, StepValue, ItvLegal
<1>3. PICK j \in LegalInterval : j = Itv(c.upper, N) /\ j.lower = c.upper /\ j.upper = N
  BY <1>1, StepValue, ItvLegal
<1>4. <<i, j>> \in Seq(LegalInterval) /\ Len(<<i, j>>) = 2 /\ <<i, j>>[1] = i /\ <<i, j>>[2] = j
  OBVIOUS
<1>5. ASSUME NEW v PROVE InList(<<i, j>>, v) <=> Has(i, v) \/ Has(j, v)
  <2>1. \A k \in 1 .. 2 : k = 1 \/ k = 2
    OBVIOUS
  <2>2. 1 \in 1 .. 2 /\ 2 \in 1 .. 2
    OBVIOUS
  <2>. QED
    BY <1>4, <2>1, <2>2 DEF InList
<1>6. ASSUME NEW v \in Value PROVE Has(i, v) \/ Has(j, v) <=> v \in Step /\ ~Has(c, v)
  BY <1>1, <1>2, <1>3, StepValue DEF Has, Step, Value
<1>7. Step \subseteq Value
  BY StepValue
<1>8. Covered(<<i, j>>) = {x \in Step : ~Has(c, x)}
  BY <1>5, <1>6, <1>7 DEF Covered
<1>. QED
  BY <1>2, <1>3, <1>4, <1>8

------------------------------------------------------------------------------
(* The inductive invariant. *)

LEMMA IterIs ==
    /\ Remaining = Left(todo, iter)
    /\ AtEnd <=> iter = End(todo)
    /\ CurrentStep = Cur(todo, iter)
    /\ NextIter = Following(todo, iter)
  BY DEF Remaining, Left, AtEnd, End, CurrentStep, Cur, NextIter, Following

LEMMA InitInv == Init => IInv
<1>. SUFFICES ASSUME Init PROVE IInv
  OBVIOUS
<1>1. CommonInv
  <2>1. 0 \in 0 .. MaxCrashes
    BY PromiseAssumption
  <2>2. alive \in BOOLEAN /\ window \subseteq Step /\ reported \subseteq window
    BY DEF Init
  <2>. QED
    BY <2>1, <2>2 DEF Init, CommonInv
<1>2. DownInv /\ ListsInv /\ HandsInv /\ DoneInv /\ ArchiveInv
  BY DEF Init, DownInv, ListsInv, HandsInv, DoneInv, ArchiveInv
<1>. QED
  BY <1>1, <1>2 DEF IInv

LEMMA StartInv == WindowsHoldSteps /\ IInv /\ Start => IInv'
<1>. SUFFICES ASSUME WindowsHoldSteps, IInv, Start PROVE IInv'
  OBVIOUS
<1>0. PICK w \in Windows, x \in Seeds :
        LET c == Clamped(w) IN
        /\ seed' = x /\ todo' = <<c>>
        /\ done' = AggregatedDone(<<Itv(0, c.lower), Itv(c.upper, N)>>)
        /\ window' = {y \in Step : Has(c, y)}
  BY DEF Start
<1>. PICK c : c = Clamped(w)
  OBVIOUS
<1>1. /\ c = Clamped(w)
      /\ seed' = x /\ todo' = <<c>>
      /\ done' = AggregatedDone(<<Itv(0, c.lower), Itv(c.upper, N)>>)
      /\ window' = {y \in Step : Has(c, y)}
  BY <1>0
<1>2. /\ alive' /\ alive' \in BOOLEAN /\ iter' = Begin /\ reported' = {} /\ scanned' = {}
      /\ inflight' = {} /\ archive' = NoArchive /\ crashes' = crashes
  BY DEF Start, IInv, DownInv
<1>3. c \in LegalInterval /\ c.upper <= N /\ c.lower < c.upper
  <2>1. c \in LegalInterval /\ c.upper <= N /\ Width(c) > 0
    BY <1>1, ClampedFacts DEF WindowsHoldSteps
  <2>. QED
    BY <2>1, WidthOfLegal
<1>4. c.lower \in Nat /\ c.upper \in Nat
  BY <1>3, LegalFacts
<1>5. Covered(todo') = window'
  <2>1. \A v \in Value : Has(c, v) => v \in Step
    BY <1>3, <1>4, StepValue DEF Has, Step, Value
  <2>2. Step \subseteq Value
    BY StepValue
  <2>. QED
    BY <1>1, <1>3, <2>1, <2>2, OneInterval
<1>6. Walkable(todo')
  BY <1>1, <1>3, <1>5, OneInterval DEF Walkable
<1>7. Placed(todo', iter') /\ Left(todo', iter') = window'
  BY <1>2, <1>5, <1>6, BeginFacts
<1>8. done' \in Seq(LegalInterval) /\ Disjoint(done') /\ Covered(done') = Step \ window'
  <2>1. PICK d \in Seq(LegalInterval) : /\ d = <<Itv(0, c.lower), Itv(c.upper, N)>>
                                        /\ Covered(d) = {y \in Step : ~Has(c, y)}
    BY <1>3, OutsideFacts
  <2>. QED
    BY <1>1, <2>1, AggregatedDoneFacts
<1>9. CommonInv' /\ DownInv'
  BY <1>1, <1>2 DEF IInv, CommonInv, DownInv
<1>10. ListsInv'
  BY <1>6, <1>7, <1>8 DEF ListsInv
<1>11. HandsInv'
  BY <1>1, <1>2, <1>7, <1>8 DEF HandsInv, Hands, Behind
<1>12. DoneInv'
  BY <1>2, <1>8 DEF DoneInv, Honest
<1>13. ArchiveInv'
  BY <1>2 DEF ArchiveInv
<1>. QED
  BY <1>9, <1>10, <1>11, <1>12, <1>13 DEF IInv

\* The step that operator() hands out.
LEMMA TakeFacts ==
    ASSUME IInv, Take
    PROVE  /\ alive /\ Walkable(todo) /\ Placed(todo, iter) /\ iter # End(todo)
           /\ iter' = Following(todo, iter) /\ inflight' = inflight \cup {Cur(todo, iter)}
           /\ UNCHANGED <<alive, seed, todo, done, archive, crashes, window, reported, scanned>>
  BY IterIs DEF Take, IInv, ListsInv, history

LEMMA TakeInv == IInv /\ Take => IInv'
<1>. SUFFICES ASSUME IInv, Take PROVE IInv'
  OBVIOUS
<1>1. /\ alive /\ Walkable(todo) /\ Placed(todo, iter) /\ iter # End(todo)
      /\ iter' = Following(todo, iter) /\ inflight' = inflight \cup {Cur(todo, iter)}
      /\ UNCHANGED <<alive, seed, todo, done, archive, crashes, window, reported, scanned>>
  BY TakeFacts
<1>2. PICK c : c = Cur(todo, iter)
  OBVIOUS
<1>3. /\ c \in Step /\ c \in Left(todo, iter) /\ \A r \in Left(todo, iter) : c <= r
      /\ Placed(todo, Following(todo, iter)) /\ Left(todo, Following(todo, iter)) = Left(todo, iter) \ {c}
  BY <1>1, <1>2, IterFacts
<1>4. CommonInv' /\ DownInv'
  BY <1>1 DEF IInv, CommonInv, DownInv
<1>5. ListsInv'
  BY <1>1, <1>3 DEF IInv, ListsInv
<1>6. Hands(Left(todo, iter), inflight, Covered(done)) /\ Behind(inflight, todo, iter)
  BY <1>1 DEF IInv, HandsInv
<1>7. Hands(Left(todo', iter'), inflight', Covered(done'))
  BY <1>1, <1>2, <1>3, <1>6 DEF Hands
<1>8. Behind(inflight', todo', iter')
  <2>. SUFFICES ASSUME NEW s \in inflight', iter' # End(todo') PROVE s < Cur(todo', iter')
    BY DEF Behind
  <2>1. PICK d : d = Cur(todo', iter')
    OBVIOUS
  <2>2. d \in Left(todo, Following(todo, iter))
    BY <1>1, <1>3, <2>1, IterFacts
  <2>3. d \in Left(todo, iter) /\ d # c /\ d \in Step
    BY <1>3, <2>2 DEF Left
  <2>4. c < d /\ c \in Nat /\ d \in Nat
    <3>1. c <= d /\ d # c
      BY <1>3, <2>3
    <3>. QED
      BY <1>3, <2>3, <3>1, StepValue
  <2>5. CASE s = c
    BY <2>1, <2>4, <2>5
  <2>6. CASE s \in inflight
    <3>1. s < c
      BY <1>1, <1>2, <1>6, <2>6 DEF Behind
    <3>2. s \in Step
      BY <1>6, <2>6 DEF Hands
    <3>. QED
      BY <2>1, <2>4, <3>1, <3>2, StepValue
  <2>. QED
    BY <1>1, <1>2, <2>5, <2>6
<1>9. HandsInv'
  BY <1>7, <1>8 DEF HandsInv
<1>10. DoneInv' /\ ArchiveInv'
  BY <1>1 DEF IInv, DoneInv, ArchiveInv, Honest
<1>. QED
  BY <1>4, <1>5, <1>9, <1>10 DEF IInv

\* A step that is reported joins the done ones, aggregated or not.
LEMMA StepDoneFacts ==
    ASSUME IInv, NEW s \in Step, StepDone(s)
    PROVE  /\ alive /\ s \in inflight
           /\ done' \in Seq(LegalInterval) /\ Disjoint(done')
           /\ Covered(done') = Covered(done) \cup {s}
<1>1. alive /\ s \in inflight
  BY DEF StepDone, IInv, DownInv, CommonInv
<1>2. done \in Seq(LegalInterval) /\ Disjoint(done) /\ s \notin Covered(done)
  BY <1>1 DEF IInv, ListsInv, HandsInv, Hands
<1>3. PICK d : d = Append(done, Itv(s, s + 1))
  OBVIOUS
<1>4. d \in Seq(LegalInterval) /\ Disjoint(d) /\ Covered(d) = Covered(done) \cup {s}
  BY <1>2, <1>3, AppendStep
<1>5. done' = d \/ done' = AggregatedDone(d)
  BY <1>3 DEF StepDone
<1>6. /\ AggregatedDone(d) \in Seq(LegalInterval) /\ Disjoint(AggregatedDone(d))
      /\ Covered(AggregatedDone(d)) = Covered(d)
  BY <1>4, AggregatedDoneFacts
<1>. QED
  BY <1>1, <1>4, <1>5, <1>6

LEMMA StepDoneInv == ASSUME NEW s \in Step PROVE IInv /\ StepDone(s) => IInv'
<1>. SUFFICES ASSUME IInv, StepDone(s) PROVE IInv'
  OBVIOUS
<1>1. /\ alive /\ s \in inflight
      /\ done' \in Seq(LegalInterval) /\ Disjoint(done')
      /\ Covered(done') = Covered(done) \cup {s}
  BY StepDoneFacts
<1>2. /\ inflight' = inflight \ {s} /\ reported' = reported \cup {s}
      /\ scanned' = scanned \cup {Element(seed, s)}
      /\ UNCHANGED <<alive, seed, todo, iter, archive, crashes, window>>
  BY DEF StepDone
<1>3. /\ Hands(Left(todo, iter), inflight, Covered(done)) /\ Behind(inflight, todo, iter)
      /\ Honest(Covered(done), seed)
  BY <1>1 DEF IInv, HandsInv, DoneInv
<1>4. s \in window
  BY <1>1, <1>3 DEF Hands, Honest
<1>5. CommonInv' /\ DownInv'
  BY <1>1, <1>2, <1>4 DEF IInv, CommonInv, DownInv
<1>6. ListsInv'
  BY <1>1, <1>2 DEF IInv, ListsInv
<1>7. Hands(Left(todo, iter), inflight', Covered(done'))
  BY <1>1, <1>2, <1>3 DEF Hands
<1>8. HandsInv'
  BY <1>2, <1>3, <1>7 DEF HandsInv, Behind
<1>9. scanned' = {Element(seed, r) : r \in reported'}
  BY <1>2, <1>3 DEF Honest
<1>10. DoneInv'
  BY <1>1, <1>2, <1>3, <1>9 DEF DoneInv, Honest
<1>11. ArchiveInv'
  <2>. SUFFICES ASSUME archive # NoArchive
                PROVE  /\ archive \in [seed : Seeds, done : Seq(LegalInterval)]
                       /\ Covered(archive.done) \subseteq Step
                       /\ Step \ window \subseteq Covered(archive.done)
                       /\ Covered(archive.done) \cap window \subseteq reported'
                       /\ scanned' = {Element(archive.seed, r) : r \in reported'}
                       /\ seed = archive.seed
    BY <1>2 DEF ArchiveInv, Honest
  <2>1. /\ archive \in [seed : Seeds, done : Seq(LegalInterval)]
        /\ Covered(archive.done) \subseteq Step /\ Honest(Covered(archive.done), archive.seed)
        /\ seed = archive.seed
    BY <1>1 DEF IInv, ArchiveInv
  <2>. QED
    BY <1>2, <1>9, <2>1 DEF Honest
<1>. QED
  BY <1>5, <1>6, <1>8, <1>10, <1>11 DEF IInv

LEMMA AggregateInv == IInv /\ (AggregateDone \/ Save) => IInv'
<1>. SUFFICES ASSUME IInv, AggregateDone \/ Save PROVE IInv'
  OBVIOUS
<1>1. /\ alive /\ done' = AggregatedDone(done)
      /\ archive' = archive \/ archive' = [seed |-> seed, done |-> done']
      /\ UNCHANGED <<alive, seed, todo, iter, inflight, crashes, window, reported, scanned>>
  BY DEF AggregateDone, Save, history
<1>2. done' \in Seq(LegalInterval) /\ Disjoint(done') /\ Covered(done') = Covered(done)
  BY <1>1, AggregatedDoneFacts DEF IInv, ListsInv
<1>3. CommonInv' /\ DownInv' /\ ListsInv'
  BY <1>1, <1>2 DEF IInv, CommonInv, DownInv, ListsInv
<1>4. HandsInv' /\ DoneInv'
  BY <1>1, <1>2 DEF IInv, HandsInv, DoneInv, Honest
<1>5. ArchiveInv'
  <2>1. CASE archive' = archive
    BY <1>1, <2>1 DEF IInv, ArchiveInv, Honest
  <2>2. CASE archive' = [seed |-> seed, done |-> done']
    <3>1. /\ archive' \in [seed : Seeds, done : Seq(LegalInterval)]
          /\ archive'.seed = seed' /\ archive'.done = done'
      BY <1>1, <1>2, <2>2 DEF IInv, CommonInv
    <3>2. /\ Covered(done') \subseteq Step
          /\ Step \ window' \subseteq Covered(done')
          /\ Covered(done') \cap window' \subseteq reported'
          /\ scanned' = {Element(seed', s) : s \in reported'}
      <4>1. Covered(done) \subseteq Step
        BY <1>1 DEF IInv, HandsInv, Hands
      <4>. QED
        BY <1>1, <1>2, <4>1 DEF IInv, DoneInv, Honest
    <3>. QED
      BY <3>1, <3>2 DEF ArchiveInv, Honest
  <2>. QED
    BY <1>1, <2>1, <2>2
<1>. QED
  BY <1>3, <1>4, <1>5 DEF IInv

\* What set_done_steps() leaves for the lists and the iterator.
LEMMA SetDoneFacts ==
    ASSUME NEW d \in Seq(LegalInterval), Covered(d) \subseteq Step,
           done' = AggregatedDone(d), todo' = StepsToDo(done'), iter' = Begin, inflight' = {}
    PROVE  /\ Walkable(todo') /\ Placed(todo', iter')
           /\ done' \in Seq(LegalInterval) /\ Disjoint(done') /\ Covered(done') = Covered(d)
           /\ Left(todo', iter') = Step \ Covered(d)
           /\ Hands(Left(todo', iter'), inflight', Covered(done')) /\ Behind(inflight', todo', iter')
<1>1. done' \in Seq(LegalInterval) /\ Disjoint(done') /\ Covered(done') = Covered(d)
  BY AggregatedDoneFacts
<1>2. PICK e \in Seq(LegalInterval) : e = done'
  BY <1>1
<1>3. Walkable(StepsToDo(e)) /\ Covered(StepsToDo(e)) = Step \ Covered(e)
  BY StepsToDoFacts
<1>4. Walkable(todo') /\ Covered(todo') = Step \ Covered(d)
  BY <1>1, <1>2, <1>3
<1>5. Placed(todo', iter') /\ Left(todo', iter') = Step \ Covered(d)
  BY <1>4, BeginFacts
<1>. QED
  BY <1>1, <1>4, <1>5 DEF Hands, Behind

LEMMA SetDoneStepsInv == IInv /\ SetDoneSteps => IInv'
<1>. SUFFICES ASSUME IInv, SetDoneSteps PROVE IInv'
  OBVIOUS
<1>1. /\ alive /\ crashes < MaxCrashes /\ crashes' = crashes + 1
      /\ done' = AggregatedDone(done) /\ todo' = StepsToDo(done') /\ iter' = Begin
      /\ inflight' = {}
      /\ UNCHANGED <<alive, seed, archive, window, reported, scanned>>
  BY DEF SetDoneSteps, history
<1>2. done \in Seq(LegalInterval) /\ Covered(done) \subseteq Step
  BY <1>1 DEF IInv, ListsInv, HandsInv, Hands
<1>3. /\ Walkable(todo') /\ Placed(todo', iter')
      /\ done' \in Seq(LegalInterval) /\ Disjoint(done') /\ Covered(done') = Covered(done)
      /\ Hands(Left(todo', iter'), inflight', Covered(done')) /\ Behind(inflight', todo', iter')
  BY <1>1, <1>2, SetDoneFacts
<1>4. CommonInv'
  BY <1>1, PromiseAssumption DEF IInv, CommonInv
<1>5. DownInv' /\ ListsInv' /\ HandsInv'
  BY <1>1, <1>3 DEF DownInv, ListsInv, HandsInv
<1>6. DoneInv' /\ ArchiveInv'
  BY <1>1, <1>3 DEF IInv, DoneInv, ArchiveInv, Honest
<1>. QED
  BY <1>4, <1>5, <1>6 DEF IInv

LEMMA CrashInv == IInv /\ Crash => IInv'
<1>. SUFFICES ASSUME IInv, Crash PROVE IInv'
  OBVIOUS
<1>1. /\ crashes < MaxCrashes /\ crashes' = crashes + 1 /\ ~alive' /\ alive' \in BOOLEAN
      /\ inflight' = {} /\ seed' \in Seeds /\ todo' = <<>> /\ done' = <<>> /\ iter' = Begin
      /\ UNCHANGED <<archive, window, reported, scanned>>
  BY DEF Crash, history
<1>2. CommonInv'
  BY <1>1, PromiseAssumption DEF IInv, CommonInv
<1>3. DownInv' /\ ListsInv' /\ HandsInv' /\ DoneInv'
  BY <1>1 DEF DownInv, ListsInv, HandsInv, DoneInv
<1>4. ArchiveInv'
  BY <1>1 DEF IInv, ArchiveInv, Honest
<1>. QED
  BY <1>2, <1>3, <1>4 DEF IInv

LEMMA RestoreInv == IInv /\ Restore => IInv'
<1>. SUFFICES ASSUME IInv, Restore PROVE IInv'
  OBVIOUS
<1>1. /\ archive # NoArchive /\ alive' /\ alive' \in BOOLEAN /\ seed' = archive.seed
      /\ done' = AggregatedDone(archive.done) /\ todo' = StepsToDo(done') /\ iter' = Begin
      /\ inflight' = {}
      /\ UNCHANGED <<archive, crashes, window, reported, scanned>>
  BY DEF Restore, history, IInv, DownInv
<1>2. /\ archive \in [seed : Seeds, done : Seq(LegalInterval)]
      /\ archive.done \in Seq(LegalInterval) /\ archive.seed \in Seeds
      /\ Covered(archive.done) \subseteq Step /\ Honest(Covered(archive.done), archive.seed)
  BY <1>1 DEF IInv, ArchiveInv
<1>3. /\ Walkable(todo') /\ Placed(todo', iter')
      /\ done' \in Seq(LegalInterval) /\ Disjoint(done') /\ Covered(done') = Covered(archive.done)
      /\ Hands(Left(todo', iter'), inflight', Covered(done')) /\ Behind(inflight', todo', iter')
  BY <1>1, <1>2, SetDoneFacts
<1>4. CommonInv'
  BY <1>1, <1>2 DEF IInv, CommonInv
<1>5. DownInv' /\ ListsInv' /\ HandsInv'
  BY <1>1, <1>3 DEF DownInv, ListsInv, HandsInv
<1>6. DoneInv' /\ ArchiveInv'
  BY <1>1, <1>2, <1>3 DEF DoneInv, ArchiveInv, Honest
<1>. QED
  BY <1>4, <1>5, <1>6 DEF IInv

LEMMA NextInv == WindowsHoldSteps /\ IInv /\ [Next]_vars => IInv'
<1>1. IInv /\ UNCHANGED vars => IInv'
  BY DEF vars, object, history, IInv, CommonInv, DownInv, ListsInv, HandsInv, DoneInv, ArchiveInv,
         Honest
<1>. QED
  BY <1>1, StartInv, TakeInv, StepDoneInv, AggregateInv, SetDoneStepsInv, CrashInv, RestoreInv
     DEF Next

\* Every step of a walk is to do, at work or done, whatever was reported, saved,
\* lost in a crash and restored, and what was saved as done was reported.
THEOREM Inductive == WindowsHoldSteps => (Spec => []IInv)
<1>1. WindowsHoldSteps /\ Init => WindowsHoldSteps /\ IInv
  BY InitInv
<1>2. WindowsHoldSteps /\ IInv /\ [Next]_vars => (WindowsHoldSteps /\ IInv)'
  BY NextInv DEF WindowsHoldSteps
<1>. QED
  BY <1>1, <1>2, PTL DEF Spec

------------------------------------------------------------------------------
(* The invariants of the runs. *)

\* The lists stay lists of ordered intervals, and the iterator stays on a value of
\* an interval that exists, or at the end (value_iterator).
THEOREM TypeCorrect == WindowsHoldSteps => (Spec => []TypeOK)
<1>1. IInv => TypeOK
  <2>. SUFFICES ASSUME IInv PROVE TypeOK
    OBVIOUS
  <2>1. /\ alive \in BOOLEAN /\ seed \in Seeds /\ crashes \in 0 .. MaxCrashes
        /\ archive = NoArchive \/ (archive.seed \in Seeds /\ archive.done \in Seq(LegalInterval))
    BY DEF IInv, CommonInv, ArchiveInv
  <2>2. CASE ~alive
    <3>1. /\ todo = <<>> /\ done = <<>> /\ inflight = {} /\ iter.index = 1 /\ iter.offset = 0
          /\ AtEnd /\ <<>> \in Seq(LegalInterval) /\ Len(<<>>) = 0
      BY <2>2 DEF IInv, DownInv, Begin, AtEnd
    <3>2. 0 \in Value /\ 1 \in 1 .. (Len(todo) + 1)
      BY <3>1, StepValue
    <3>. QED
      BY <2>1, <3>1, <3>2 DEF TypeOK
  <2>3. CASE alive
    <3>1. /\ Walkable(todo) /\ Placed(todo, iter) /\ done \in Seq(LegalInterval)
          /\ todo \in Seq(LegalInterval) /\ Len(todo) \in Nat /\ inflight \subseteq Step
      BY <2>3, SeqFacts DEF IInv, ListsInv, HandsInv, Hands, Walkable
    <3>2. CASE iter = End(todo)
      <4>1. iter.index = Len(todo) + 1 /\ iter.offset = 0 /\ 0 \in Value /\ AtEnd
        BY <3>2, StepValue, IterIs DEF End
      <4>. QED
        BY <2>1, <3>1, <4>1 DEF TypeOK
    <3>3. CASE iter # End(todo)
      <4>1. /\ iter.index \in 1 .. Len(todo) /\ iter.offset \in Value
            /\ Has(todo[iter.index], CurrentStep)
        BY <3>1, <3>3, IterFacts, IterIs
      <4>2. iter.index \in 1 .. (Len(todo) + 1)
        BY <3>1, <4>1
      <4>. QED
        BY <2>1, <3>1, <4>1, <4>2 DEF TypeOK
    <3>. QED
      BY <3>2, <3>3
  <2>. QED
    BY <2>2, <2>3
<1>. QED
  BY <1>1, Inductive, PTL

\* A state that was saved names no step of the walk as done that was not reported
\* (save_state).
THEOREM ArchivesAreHonest == WindowsHoldSteps => (Spec => []ArchiveIsHonest)
<1>1. IInv => ArchiveIsHonest
  BY DEF IInv, ArchiveInv, Honest, ArchiveIsHonest
<1>. QED
  BY <1>1, Inductive, PTL

\* The assertion of step_done() holds of every step at work, also after a restore.
THEOREM StepDoneIsAsserted == WindowsHoldSteps => (Spec => []StepDoneAssertion)
<1>1. IInv => StepDoneAssertion
  <2>. SUFFICES ASSUME IInv, alive, NEW s \in inflight, ~AtEnd PROVE s <= CurrentStep
    BY DEF StepDoneAssertion
  <2>1. /\ Walkable(todo) /\ Placed(todo, iter) /\ iter # End(todo)
        /\ Behind(inflight, todo, iter) /\ inflight \subseteq Step
    BY IterIs DEF IInv, ListsInv, HandsInv, Hands
  <2>2. Cur(todo, iter) \in Step /\ s < Cur(todo, iter) /\ s \in Step
    BY <2>1, IterFacts DEF Behind
  <2>3. PICK c \in Nat : c = Cur(todo, iter)
    BY <2>2, StepValue
  <2>4. s \in Nat /\ s <= c
    BY <2>2, <2>3, StepValue
  <2>. QED
    BY <2>3, <2>4, IterIs
<1>. QED
  BY <1>1, Inductive, PTL

\* size_done() counts each step that is done once, between two aggregations too,
\* and so does the size of the steps to do.
THEOREM SizesCountSteps == WindowsHoldSteps => (Spec => []SizesAreCounts)
<1>1. ASSUME NEW s \in Seq(LegalInterval), Disjoint(s) PROVE Size(s) = Cardinality(Covered(s))
  <2>1. Len(s) \in 0 .. Len(s)
    BY <1>1, SeqFacts
  <2>2. SizeOfFirst(s, Len(s)) = Cardinality(CoveredByFirst(s, Len(s)))
    BY <1>1, <2>1, SizeIsCount
  <2>. QED
    BY <2>2, CoveredByAll DEF Size
<1>2. IInv => SizesAreCounts
  BY <1>1, OrderedIsDisjoint DEF IInv, ListsInv, Walkable, SizesAreCounts
<1>. QED
  BY <1>2, Inductive, PTL

\* At the end nothing remains, and before it something does.
LEMMA EndIsEmpty == IInv /\ alive => (AtEnd <=> Remaining = {})
<1>. SUFFICES ASSUME IInv, alive PROVE AtEnd <=> Remaining = {}
  OBVIOUS
<1>1. Walkable(todo) /\ Placed(todo, iter)
  BY DEF IInv, ListsInv
<1>2. iter = End(todo) => Left(todo, iter) = {}
  BY <1>1, EndFacts
<1>3. iter # End(todo) => Left(todo, iter) # {}
  BY <1>1, IterFacts
<1>. QED
  BY <1>2, <1>3, IterIs

\* When end() is true and nothing is at work, the elements of the walk were
\* scanned, all of them and no other, through every crash and restore
\* (random_promise::end, restore_state).
THEOREM WholeWalkIsScanned == WindowsHoldSteps => (Spec => []EndMeansScanned)
<1>1. IInv => EndMeansScanned
  <2>. SUFFICES ASSUME IInv, alive, AtEnd, inflight = {}
                PROVE  scanned = {Element(seed, s) : s \in window}
    BY DEF EndMeansScanned
  <2>1. Left(todo, iter) = {}
    BY EndIsEmpty, IterIs
  <2>2. Covered(done) = Step
    BY <2>1 DEF IInv, HandsInv, Hands
  <2>3. reported = window
    BY <2>2 DEF IInv, CommonInv, DoneInv, Honest
  <2>. QED
    BY <2>3 DEF IInv, DoneInv, Honest
<1>. QED
  BY <1>1, Inductive, PTL

\* end() is true exactly when no step is left, if the windows hold a step; the run
\* with empty windows shows that it takes this (random_promise::end).
THEOREM EndsExactly == WindowsHoldSteps => (Spec => []EndIsExact)
<1>1. IInv => EndIsExact
  BY EndIsEmpty DEF EndIsExact
<1>. QED
  BY <1>1, Inductive, PTL

------------------------------------------------------------------------------
(* The refinement. *)

LEMMA IterIsNext == Remaining' = Left(todo', iter')
  BY DEF Remaining, Left

LEMMA LedgerInit == Init => Ledger!Init
  BY DEF Init, Ledger!Init

\* The steps of the ledger in terms of the lists.
Pending == IF alive THEN Left(todo, iter) ELSE {}
Finished == IF alive THEN Covered(done) ELSE {}
Saved == IF archive = NoArchive THEN NoArchive ELSE Covered(archive.done)

LEMMA LedgerIs ==
    /\ (IF alive THEN Remaining ELSE {}) = Pending
    /\ (IF alive' THEN Remaining' ELSE {}) = Pending'
    /\ (IF alive THEN Covered(done) ELSE {}) = Finished
    /\ (IF alive' THEN Covered(done') ELSE {}) = Finished'
    /\ (IF archive = NoArchive THEN NoArchive ELSE Covered(archive.done)) = Saved
    /\ (IF archive' = NoArchive THEN NoArchive ELSE Covered(archive'.done)) = Saved'
  BY IterIs, IterIsNext DEF Pending, Finished, Saved

LEMMA LedgerStep == WindowsHoldSteps /\ IInv /\ [Next]_vars => [Ledger!Next]_(Ledger!vars)
<1>. SUFFICES ASSUME WindowsHoldSteps, IInv, [Next]_vars PROVE [Ledger!Next]_(Ledger!vars)
  OBVIOUS
<1>0. IInv'
  BY NextInv
<1>2. CASE UNCHANGED vars
  BY <1>2 DEF vars, object, history, Ledger!vars, Remaining
<1>3. CASE Start
  <2>1. /\ ~alive /\ alive' /\ archive = NoArchive /\ archive' = NoArchive
        /\ inflight = {} /\ inflight' = {}
    BY <1>3 DEF Start, IInv, DownInv
  <2>2. /\ Saved = NoArchive /\ Saved' = NoArchive
    BY <2>1 DEF Saved
  <2>3. Pending' \in SUBSET Step /\ Finished' = Step \ Pending'
    <3>1. Hands(Left(todo', iter'), inflight', Covered(done'))
      BY <1>0, <2>1 DEF IInv, HandsInv
    <3>. QED
      BY <2>1, <3>1 DEF Pending, Finished, Hands
  <2>4. Ledger!Start
    BY LedgerIs, <2>1, <2>2, <2>3 DEF Ledger!Start
  <2>. QED
    BY <2>4 DEF Ledger!Next
<1>4. CASE Take
  <2>1. PICK c : c = Cur(todo, iter)
    OBVIOUS
  <2>2. /\ alive /\ Walkable(todo) /\ Placed(todo, iter) /\ iter # End(todo)
        /\ iter' = Following(todo, iter) /\ inflight' = inflight \cup {c}
        /\ UNCHANGED <<alive, todo, done, archive>>
    BY <1>4, <2>1, TakeFacts
  <2>3. /\ c \in Step /\ c \in Left(todo, iter)
        /\ Left(todo, Following(todo, iter)) = Left(todo, iter) \ {c}
    BY <2>1, <2>2, IterFacts
  <2>4. /\ c \in Pending /\ Pending' = Pending \ {c} /\ Finished' = Finished /\ Saved' = Saved
    BY <2>2, <2>3 DEF Pending, Finished, Saved
  <2>5. Ledger!Take(c)
    BY LedgerIs, <2>2, <2>4 DEF Ledger!Take
  <2>. QED
    BY <2>3, <2>5 DEF Ledger!Next
<1>5. ASSUME NEW s \in Step, StepDone(s) PROVE [Ledger!Next]_(Ledger!vars)
  <2>1. alive /\ s \in inflight /\ Covered(done') = Covered(done) \cup {s}
    BY <1>5, StepDoneFacts
  <2>2. inflight' = inflight \ {s} /\ UNCHANGED <<alive, todo, iter, archive>>
    BY <1>5 DEF StepDone
  <2>3. Pending' = Pending /\ Finished' = Finished \cup {s} /\ Saved' = Saved
    BY <2>1, <2>2 DEF Pending, Finished, Saved
  <2>4. Ledger!Finish(s)
    BY LedgerIs, <2>1, <2>2, <2>3 DEF Ledger!Finish
  <2>. QED
    BY <2>4 DEF Ledger!Next
<1>6. CASE AggregateDone \/ Save
  <2>1. alive /\ done' = AggregatedDone(done) /\ UNCHANGED <<alive, todo, iter, inflight>>
    BY <1>6 DEF AggregateDone, Save
  <2>2. Covered(done') = Covered(done)
    BY <2>1, AggregatedDoneFacts DEF IInv, ListsInv
  <2>3. Pending' = Pending /\ Finished' = Finished
    BY <2>1, <2>2 DEF Pending, Finished
  <2>4. CASE AggregateDone
    <3>1. Saved' = Saved
      BY <2>4 DEF AggregateDone, Saved
    <3>. QED
      BY LedgerIs, <2>1, <2>3, <3>1 DEF Ledger!vars
  <2>5. CASE Save
    <3>1. archive' = [seed |-> seed, done |-> done']
      BY <2>5 DEF Save
    <3>2. archive'.done = done' /\ archive' \in [seed : Seeds, done : Seq(LegalInterval)]
      <4>1. seed \in Seeds /\ done' \in Seq(LegalInterval)
        BY <2>1, AggregatedDoneFacts DEF IInv, ListsInv, CommonInv
      <4>. QED
        BY <3>1, <4>1
    <3>3. archive' # NoArchive
      BY <3>2, PromiseAssumption
    <3>4. Saved' = Finished
      BY <2>1, <2>2, <3>2, <3>3 DEF Saved, Finished
    <3>5. Ledger!Save
      BY LedgerIs, <2>1, <2>3, <3>4 DEF Ledger!Save
    <3>. QED
      BY <3>5 DEF Ledger!Next
  <2>. QED
    BY <1>6, <2>4, <2>5
<1>7. CASE SetDoneSteps
  <2>1. /\ alive /\ alive' /\ alive' = alive /\ inflight' = {} /\ archive' = archive
        /\ done' = AggregatedDone(done)
    BY <1>7 DEF SetDoneSteps
  <2>2. Covered(done') = Covered(done)
    BY <2>1, AggregatedDoneFacts DEF IInv, ListsInv
  <2>3. /\ Hands(Left(todo, iter), inflight, Covered(done))
        /\ Hands(Left(todo', iter'), inflight', Covered(done'))
    BY <1>0, <2>1 DEF IInv, HandsInv
  <2>4. Pending' = Pending \cup inflight /\ Finished' = Finished /\ Saved' = Saved
    BY <2>1, <2>2, <2>3 DEF Pending, Finished, Saved, Hands
  <2>5. Ledger!Requeue
    BY LedgerIs, <2>1, <2>4 DEF Ledger!Requeue
  <2>. QED
    BY <2>5 DEF Ledger!Next
<1>8. CASE Crash
  <2>1. alive /\ ~alive' /\ alive' = FALSE /\ inflight' = {} /\ archive' = archive
    BY <1>8 DEF Crash
  <2>2. Pending' = {} /\ Finished' = {} /\ Saved' = Saved
    BY <2>1 DEF Pending, Finished, Saved
  <2>3. Ledger!Crash
    BY LedgerIs, <2>1, <2>2 DEF Ledger!Crash
  <2>. QED
    BY <2>3 DEF Ledger!Next
<1>9. CASE Restore
  <2>1. /\ ~alive /\ alive' /\ alive' = TRUE /\ archive # NoArchive /\ archive' = archive
        /\ inflight = {} /\ inflight' = {} /\ done' = AggregatedDone(archive.done)
    BY <1>9 DEF Restore, IInv, DownInv
  <2>2. archive.done \in Seq(LegalInterval) /\ Covered(archive.done) \in SUBSET Step
    BY <2>1 DEF IInv, ArchiveInv
  <2>3. Covered(done') = Covered(archive.done)
    BY <2>1, <2>2, AggregatedDoneFacts
  <2>4. Hands(Left(todo', iter'), inflight', Covered(done'))
    BY <1>0, <2>1 DEF IInv, HandsInv
  <2>5. Saved # NoArchive
    BY <2>1, <2>2, PromiseAssumption DEF Saved
  <2>6. Saved' = Saved /\ Finished' = Saved /\ Pending' = Step \ Saved
    BY <2>1, <2>2, <2>3, <2>4 DEF Pending, Finished, Saved, Hands
  <2>7. Ledger!Recover
    BY LedgerIs, <2>1, <2>5, <2>6 DEF Ledger!Recover
  <2>. QED
    BY <2>7 DEF Ledger!Next
<1>. QED
  BY <1>2, <1>3, <1>4, <1>5, <1>6, <1>7, <1>8, <1>9 DEF Next

\* The lists of steps and the iterator implement the ledger: no step is lost or
\* handed out twice, whatever the order of the reports, the aggregations, the
\* saves, the crashes and the restores (list_intervals_random_promise).
THEOREM WalkKeepsLedger == WindowsHoldSteps => (Spec => ImplementsLedger)
<1>1. WindowsHoldSteps /\ Init => WindowsHoldSteps /\ IInv
  BY InitInv
<1>2. WindowsHoldSteps /\ IInv /\ [Next]_vars => (WindowsHoldSteps /\ IInv)'
  BY NextInv DEF WindowsHoldSteps
<1>. QED
  BY <1>1, <1>2, LedgerInit, LedgerStep, PTL DEF Spec, ImplementsLedger, Ledger!Spec

------------------------------------------------------------------------------
(* The ledger itself: what it promises holds of every behaviour of it, and so of *)
(* every walk.                                                                *)

\* Nothing is at work while the program is down.
LedgerDown == ~alive => inflight = {}

LedgerInv == Ledger!TypeOK /\ Ledger!Partition /\ Ledger!SavedStaysDone /\ LedgerDown

LEMMA LedgerInvInit == Ledger!Init => LedgerInv
<1>. SUFFICES ASSUME Ledger!Init PROVE LedgerInv
  OBVIOUS
<1>1. Ledger!TypeOK
  BY DEF Ledger!Init, Ledger!TypeOK
<1>2. Ledger!Partition /\ Ledger!SavedStaysDone /\ LedgerDown
  BY DEF Ledger!Init, Ledger!Partition, Ledger!SavedStaysDone, LedgerDown
<1>. QED
  BY <1>1, <1>2 DEF LedgerInv

LEMMA LedgerStart == LedgerInv /\ Ledger!Start => LedgerInv'
<1>. SUFFICES ASSUME LedgerInv, Ledger!Start PROVE LedgerInv'
  OBVIOUS
<1>. USE LedgerIs
<1>1. PICK W \in SUBSET Step : Pending' = W /\ Finished' = Step \ W
  BY DEF Ledger!Start
<1>2. alive' /\ inflight' = {} /\ Saved' = NoArchive
  BY DEF Ledger!Start, LedgerInv, LedgerDown
<1>3. Ledger!TypeOK'
  BY <1>1, <1>2 DEF Ledger!TypeOK, Ledger!Start
<1>4. Ledger!Partition'
  BY <1>1, <1>2 DEF Ledger!Partition
<1>5. Ledger!SavedStaysDone' /\ LedgerDown'
  BY <1>2 DEF Ledger!SavedStaysDone, LedgerDown
<1>. QED
  BY <1>3, <1>4, <1>5 DEF LedgerInv

LEMMA LedgerTake == ASSUME NEW s \in Step PROVE LedgerInv /\ Ledger!Take(s) => LedgerInv'
<1>. SUFFICES ASSUME LedgerInv, Ledger!Take(s) PROVE LedgerInv'
  OBVIOUS
<1>1. alive
  BY DEF LedgerInv, LedgerDown, Ledger!Take
<1>2. Ledger!TypeOK'
  BY DEF LedgerInv, Ledger!TypeOK, Ledger!Take
<1>3. Ledger!Partition'
  BY <1>1 DEF LedgerInv, Ledger!Partition, Ledger!Take
<1>4. Ledger!SavedStaysDone' /\ LedgerDown'
  BY <1>1 DEF LedgerInv, Ledger!SavedStaysDone, LedgerDown, Ledger!Take
<1>. QED
  BY <1>2, <1>3, <1>4 DEF LedgerInv

LEMMA LedgerFinish == ASSUME NEW s \in Step PROVE LedgerInv /\ Ledger!Finish(s) => LedgerInv'
<1>. SUFFICES ASSUME LedgerInv, Ledger!Finish(s) PROVE LedgerInv'
  OBVIOUS
<1>1. alive
  BY DEF LedgerInv, LedgerDown, Ledger!Finish
<1>2. Ledger!TypeOK'
  BY DEF LedgerInv, Ledger!TypeOK, Ledger!Finish
<1>3. Ledger!Partition'
  BY <1>1 DEF LedgerInv, Ledger!Partition, Ledger!Finish
<1>4. Ledger!SavedStaysDone' /\ LedgerDown'
  BY <1>1 DEF LedgerInv, Ledger!SavedStaysDone, LedgerDown, Ledger!Finish
<1>. QED
  BY <1>2, <1>3, <1>4 DEF LedgerInv

LEMMA LedgerOthers ==
    LedgerInv /\ (Ledger!Requeue \/ Ledger!Save \/ Ledger!Crash \/ Ledger!Recover) => LedgerInv'
<1>1. LedgerInv /\ Ledger!Requeue => LedgerInv'
  BY DEF LedgerInv, Ledger!TypeOK, Ledger!Partition, Ledger!SavedStaysDone, LedgerDown, Ledger!Requeue
<1>2. LedgerInv /\ Ledger!Save => LedgerInv'
  BY DEF LedgerInv, Ledger!TypeOK, Ledger!Partition, Ledger!SavedStaysDone, LedgerDown, Ledger!Save
<1>3. LedgerInv /\ Ledger!Crash => LedgerInv'
  BY DEF LedgerInv, Ledger!TypeOK, Ledger!Partition, Ledger!SavedStaysDone, LedgerDown, Ledger!Crash
<1>4. LedgerInv /\ Ledger!Recover => LedgerInv'
  <2>. SUFFICES ASSUME LedgerInv, Ledger!Recover PROVE LedgerInv'
    OBVIOUS
  <2>. USE LedgerIs
  <2>1. alive' /\ Saved' = Saved /\ Finished' = Saved /\ Pending' = Step \ Saved /\ inflight' = {}
    BY DEF LedgerInv, LedgerDown, Ledger!Recover
  <2>2. Saved \in SUBSET Step
    BY DEF LedgerInv, Ledger!TypeOK, Ledger!Recover
  <2>3. Ledger!TypeOK' /\ Ledger!Partition'
    BY <2>1, <2>2 DEF Ledger!TypeOK, Ledger!Partition, Ledger!Recover
  <2>4. Ledger!SavedStaysDone' /\ LedgerDown'
    BY <2>1 DEF Ledger!SavedStaysDone, LedgerDown
  <2>. QED
    BY <2>3, <2>4 DEF LedgerInv
<1>. QED
  BY <1>1, <1>2, <1>3, <1>4

LEMMA LedgerInvNext == LedgerInv /\ [Ledger!Next]_(Ledger!vars) => LedgerInv'
<1>1. LedgerInv /\ UNCHANGED Ledger!vars => LedgerInv'
  BY DEF Ledger!vars, LedgerInv, Ledger!TypeOK, Ledger!Partition, Ledger!SavedStaysDone, LedgerDown
<1>. QED
  BY <1>1, LedgerStart, LedgerTake, LedgerFinish, LedgerOthers DEF Ledger!Next

\* Every step of a walk is in one hand, and what was saved as done stays done.
LEMMA LedgerInductive == Ledger!Spec => []LedgerInv
  BY LedgerInvInit, LedgerInvNext, PTL DEF Ledger!Spec

\* No step is lost and none is in two hands, whatever is taken, reported,
\* requeued, saved, lost in a crash and recovered (the lists _steps_todo and
\* _done_steps of list_intervals_random_promise).
THEOREM StepsArePartitioned == WindowsHoldSteps => (Spec => []Ledger!Partition)
<1>1. LedgerInv => Ledger!Partition
  BY DEF LedgerInv
<1>. QED
  BY <1>1, LedgerInductive, WalkKeepsLedger, PTL DEF ImplementsLedger

\* A step that was saved as done is never handed out again (save_state,
\* restore_state).
THEOREM SavedStepsAreNeverHandedAgain == WindowsHoldSteps => (Spec => Ledger!NeverHandedAgain)
<1>1. LedgerInv /\ [Ledger!Next]_(Ledger!vars)
        => [Saved # NoArchive => (inflight' \ inflight) \cap Saved = {}]_(Ledger!vars)
  <2>. SUFFICES ASSUME LedgerInv, Ledger!Next, Saved # NoArchive
                PROVE  (inflight' \ inflight) \cap Saved = {}
    OBVIOUS
  <2>. USE LedgerIs
  <2>1. CASE Ledger!Start \/ Ledger!Requeue \/ Ledger!Save \/ Ledger!Crash \/ Ledger!Recover
    BY <2>1 DEF Ledger!Start, Ledger!Requeue, Ledger!Save, Ledger!Crash, Ledger!Recover,
                LedgerInv, LedgerDown
  <2>2. ASSUME NEW s \in Step, Ledger!Take(s) PROVE (inflight' \ inflight) \cap Saved = {}
    BY <2>2 DEF Ledger!Take, LedgerInv, LedgerDown, Ledger!Partition, Ledger!SavedStaysDone
  <2>3. ASSUME NEW s \in Step, Ledger!Finish(s) PROVE (inflight' \ inflight) \cap Saved = {}
    BY <2>3 DEF Ledger!Finish
  <2>. QED
    BY <2>1, <2>2, <2>3 DEF Ledger!Next
<1>2. LedgerInv /\ [Ledger!Next]_(Ledger!vars)
        => [(IF archive = NoArchive THEN NoArchive ELSE Covered(archive.done)) # NoArchive
              => (inflight' \ inflight)
                   \cap (IF archive = NoArchive THEN NoArchive ELSE Covered(archive.done)) = {}]_(Ledger!vars)
  BY <1>1, LedgerIs
<1>. QED
  BY <1>2, LedgerInductive, WalkKeepsLedger, PTL DEF ImplementsLedger, Ledger!Spec, Ledger!NeverHandedAgain
=============================================================================
