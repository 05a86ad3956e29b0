------------------------- MODULE AddressListsProofs --------------------------
(****************************************************************************)
(* A list_intervals object implements IntervalSet through any sequence of   *)
(* calls, and an aggregated one is what the lookups need.  As a list of     *)
(* addresses it takes each text for what the text means, comes back from a  *)
(* file or a stream as what was dumped, and from the line that is printed   *)
(* as what was printed.                                                     *)
(****************************************************************************)
EXTENDS AddressLists, AggregationProofs

------------------------------------------------------------------------------
(* The inductive invariant. *)

\* The containers hold what was given: no interval that stays is empty.
ListsInv ==
    /\ intervals \in Seq(LegalInterval) /\ removed \in Seq(LegalInterval)
    /\ AllWide(intervals)

\* A call of aggregate() is the last that changed the list.
OrderInv == JustAggregated => InOrder(intervals)

\* The cache is that of the list, unless the list was changed after it.
CacheInv ==
    indexed =>
        /\ entry \in Nat \ {0}
        /\ index_cache = [k \in 1 .. (Len(intervals) + entry - 1) \div entry |->
                            SizeOfFirst(intervals, Least(k * entry, Len(intervals)))]

IInv == ListsInv /\ OrderInv /\ CacheInv

------------------------------------------------------------------------------
(* Division. *)

LEMMA ModBelow ==
    ASSUME NEW a \in Nat, NEW n \in Nat \ {0}
    PROVE  a % n <= a
<1>1. PICK q \in Nat : q = a \div n
  BY DivFacts
<1>2. a = (n * q) + (a % n) /\ n * q \in Nat /\ a % n \in Nat
  BY <1>1, DivFacts
<1>. QED
  BY <1>2

\* A value that is before the end of the block of u and not before u is in the
\* block of u.
LEMMA SameBlock ==
    ASSUME NEW u \in Nat, NEW n \in Nat \ {0}, NEW v \in Nat,
           u - (u % n) <= v, v < u - (u % n) + n
    PROVE  v \div n = u \div n
<1>1. PICK q \in Nat : q = u \div n
  BY DivFacts
<1>2. PICK r \in 0 .. (n - 1) : r = u % n
  BY DivFacts
<1>3. u = (n * q) + r
  BY <1>1, <1>2, DivFacts
<1>4. n * q <= v /\ v < n * (q + 1)
  <2>1. n * (q + 1) = (n * q) + n /\ n * q \in Nat
    BY <1>1
  <2>. QED
    BY <1>2, <1>3, <2>1
<1>. QED
  BY <1>1, <1>4, DivUnique

\* The value before u is in the block of u or in the one before.
LEMMA BlockBefore ==
    ASSUME NEW u \in Nat \ {0}, NEW n \in Nat \ {0}
    PROVE  u \div n = (u - 1) \div n \/ u \div n = (u - 1) \div n + 1
<1>1. PICK q \in Nat : q = u \div n
  BY DivFacts
<1>2. PICK r \in 0 .. (n - 1) : r = u % n
  BY DivFacts
<1>3. u = (n * q) + r /\ n * q \in Nat
  BY <1>1, <1>2, DivFacts
<1>4. u - 1 \in Nat
  OBVIOUS
<1>5. CASE r > 0
  <2>1. n * q <= u - 1 /\ u - 1 < n * (q + 1)
    <3>1. n * (q + 1) = (n * q) + n
      BY <1>1
    <3>. QED
      BY <1>2, <1>3, <1>5, <3>1
  <2>2. (u - 1) \div n = q
    BY <1>4, <2>1, DivUnique
  <2>. QED
    BY <1>1, <2>2
<1>6. CASE r = 0
  <2>1. q # 0
    BY <1>3, <1>6
  <2>2. PICK p \in Nat : p = q - 1
    BY <2>1
  <2>3. n * p = (n * q) - n /\ n * (p + 1) = n * q
    BY <2>2
  <2>4. n * p <= u - 1 /\ u - 1 < n * (p + 1)
    BY <1>3, <1>6, <2>3
  <2>5. (u - 1) \div n = p
    BY <1>4, <2>4, DivUnique
  <2>. QED
    BY <1>1, <2>2, <2>5
<1>. QED
  BY <1>2, <1>5, <1>6

------------------------------------------------------------------------------
(* Rounding to the blocks of a prefix. *)

LEMMA RoundedFacts ==
    ASSUME NEW i \in LegalInterval, i.lower < i.upper,
           NEW size \in Nat \ {0}, i.upper < Word - size, NEW strict \in BOOLEAN
    PROVE  /\ RoundedOut(i, size, strict) \in LegalInterval
           /\ RoundedOut(i, size, strict).lower < RoundedOut(i, size, strict).upper
           /\ \A v \in Value : Has(i, v) => Has(RoundedOut(i, size, strict), v)
           /\ \A v \in Value : Has(RoundedOut(i, size, strict), v) =>
                \E w \in Value : Has(i, w) /\ (v \div size = w \div size \/ v \div size = w \div size + 1)
<1>1. PICK a \in Nat : a = i.lower
  BY LegalFacts
<1>2. PICK b \in Nat : b = i.upper
  BY LegalFacts
<1>3. a < b /\ a \in Value /\ b \in Value /\ b < Word - size /\ Word \in Nat
  BY <1>1, <1>2, LegalFacts, WordAssumption
<1>4. PICK ra \in 0 .. (size - 1) : ra = a % size
  BY DivFacts
<1>5. PICK rb \in 0 .. (size - 1) : rb = b % size
  BY DivFacts
<1>6. ra <= a /\ rb <= b
  BY <1>4, <1>5, ModBelow
<1>7. CASE ~(Width(i) < size \/ (~strict /\ i.upper % size # 0))
  <2>1. RoundedOut(i, size, strict) = i
    BY <1>7 DEF RoundedOut
  <2>. QED
    BY <2>1
<1>8. CASE Width(i) < size \/ (~strict /\ i.upper % size # 0)
  <2>1. PICK r : r = Itv(a - ra, b - rb + size)
    OBVIOUS
  <2>2. a - ra \in Value /\ b - rb + size \in Value /\ a - ra <= a /\ b < b - rb + size
    <3>1. a \in Nat /\ a <= Word - 1 /\ b + size < Word
      BY <1>3 DEF Value
    <3>2. a - ra \in Nat /\ b - rb \in Nat /\ a - ra <= a /\ b - rb <= b /\ size \in Nat /\ rb < size
      BY <1>4, <1>5, <1>6
    <3>. QED
      BY <1>3, <3>1, <3>2 DEF Value
  <2>3. (b - rb + size) % Word = b - rb + size
    BY <2>2, ValueModWord
  <2>4. RoundedOut(i, size, strict) = r
    BY <1>1, <1>2, <1>4, <1>5, <1>8, <2>1, <2>3 DEF RoundedOut
  <2>5. a - ra < b - rb + size
    BY <1>3, <1>4, <1>5, <2>2
  <2>6. /\ r \in LegalInterval /\ r.lower < r.upper
        /\ r.lower = a - ra /\ r.upper = b - rb + size
    BY <2>1, <2>2, <2>5, ItvLegal DEF Value
  <2>7. \A v \in Value : Has(i, v) => Has(r, v)
    BY <1>1, <1>2, <1>4, <1>5, <2>2, <2>6 DEF Has, Value
  <2>8. ASSUME NEW v \in Value, Has(r, v)
        PROVE  \E w \in Value : Has(i, w) /\ (v \div size = w \div size \/ v \div size = w \div size + 1)
    <3>1. v \in Nat /\ a - ra <= v /\ v < b - rb + size
      BY <2>6, <2>8 DEF Has, Value
    <3>2. CASE v < a
      <4>1. v \div size = a \div size
        <5>1. a - (a % size) <= v /\ v < a - (a % size) + size
          BY <1>4, <1>6, <3>1, <3>2
        <5>. QED
          BY <3>1, <5>1, SameBlock
      <4>2. Has(i, a)
        BY <1>1, <1>2, <1>3 DEF Has
      <4>. QED
        BY <1>3, <4>1, <4>2
    <3>3. CASE a <= v /\ v < b
      BY <1>1, <1>2, <3>3 DEF Has
    <3>4. CASE b <= v
      <4>1. v \div size = b \div size
        <5>1. b - (b % size) <= v /\ v < b - (b % size) + size
          BY <1>5, <1>6, <3>1, <3>4
        <5>. QED
          BY <3>1, <5>1, SameBlock
      <4>2. b \in Nat \ {0}
        BY <1>3
      <4>3. b \div size = (b - 1) \div size \/ b \div size = (b - 1) \div size + 1
        BY <4>2, BlockBefore
      <4>4. b - 1 \in Value /\ Has(i, b - 1)
        BY <1>1, <1>2, <1>3 DEF Has, Value
      <4>. QED
        BY <4>1, <4>3, <4>4
    <3>. QED
      BY <3>1, <3>2, <3>3, <3>4
  <2>. QED
    BY <2>4, <2>6, <2>7, <2>8
<1>. QED
  BY <1>7, <1>8

------------------------------------------------------------------------------
(* Every step keeps the invariant and is a step of IntervalSet. *)

LEMMA IInvInit == Init => IInv /\ Set!Init
<1>. SUFFICES ASSUME Init PROVE IInv /\ Set!Init
  OBVIOUS
<1>1. /\ intervals = <<>> /\ removed = <<>> /\ indexed = FALSE
      /\ called = [op |-> "construct", set |-> {}, size |-> 0]
  BY DEF Init, TheCall
<1>2. <<>> \in Seq(LegalInterval) /\ AllWide(<<>>) /\ Covered(<<>>) = {}
  BY DEF AllWide, Covered, InList
<1>3. IInv
  BY <1>1, <1>2 DEF IInv, ListsInv, OrderInv, CacheInv, JustAggregated
<1>4. Set!Init
  BY <1>1, <1>2 DEF Set!Init, Set!Call
<1>. QED
  BY <1>3, <1>4

\* What a call on the containers leaves to prove.
LEMMA CallsFacts ==
    ASSUME NEW op, NEW set \in SUBSET Value, NEW size \in BlockSizes \cup {0},
           Calls(op, set, size)
    PROVE  /\ called' \in Set!Call(op) /\ called'.op = op
           /\ called'.set = set /\ called'.size = size
           /\ CacheInv'
<1>1. called' = [op |-> op, set |-> set, size |-> size] /\ indexed' = FALSE
  BY DEF Calls, TheCall
<1>2. CacheInv'
  BY <1>1 DEF CacheInv
<1>. QED
  BY <1>1, <1>2 DEF Set!Call

LEMMA CoveredType ==
    ASSUME NEW s
    PROVE  Covered(s) \in SUBSET Value
  BY DEF Covered

LEMMA AddStep ==
    ASSUME IInv, NEW s \in Seq(LegalInterval), AllWide(s), AddIntervals(s)
    PROVE  IInv' /\ Set!Add
<1>1. intervals' = intervals \o s /\ removed' = removed /\ Calls("add", Covered(s), 0)
  BY DEF AddIntervals
<1>2. called' \in Set!Call("add") /\ called'.op = "add" /\ called'.set = Covered(s) /\ CacheInv'
  BY <1>1, CoveredType, CallsFacts
<1>3. /\ intervals' \in Seq(LegalInterval) /\ AllWide(intervals')
      /\ Covered(intervals') = Covered(intervals) \cup Covered(s)
  BY <1>1, ConcatFacts DEF IInv, ListsInv
<1>4. IInv'
  BY <1>1, <1>2, <1>3 DEF IInv, ListsInv, OrderInv, JustAggregated
<1>5. Set!Add
  BY <1>1, <1>2, <1>3 DEF Set!Add
<1>. QED
  BY <1>4, <1>5

LEMMA RemoveStep ==
    ASSUME IInv, NEW s \in Seq(LegalInterval), RemoveIntervals(s)
    PROVE  IInv' /\ Set!Remove
<1>1. removed' = removed \o s /\ intervals' = intervals /\ Calls("remove", Covered(s), 0)
  BY DEF RemoveIntervals
<1>2. called' \in Set!Call("remove") /\ called'.op = "remove" /\ called'.set = Covered(s) /\ CacheInv'
  BY <1>1, CoveredType, CallsFacts
<1>3. /\ removed' \in Seq(LegalInterval)
      /\ Covered(removed') = Covered(removed) \cup Covered(s)
  BY <1>1, ConcatFacts DEF IInv, ListsInv
<1>4. IInv'
  BY <1>1, <1>2, <1>3 DEF IInv, ListsInv, OrderInv, JustAggregated
<1>5. Set!Remove
  BY <1>1, <1>2, <1>3 DEF Set!Remove
<1>. QED
  BY <1>4, <1>5

LEMMA ReplaceStep ==
    ASSUME IInv, NEW s \in Seq(LegalInterval), AllWide(s), Replace(s)
    PROVE  IInv' /\ Set!Replace
<1>1. intervals' = s /\ removed' = <<>> /\ Calls("replace", Covered(s), 0)
  BY DEF Replace
<1>2. called' \in Set!Call("replace") /\ called'.op = "replace" /\ called'.set = Covered(s) /\ CacheInv'
  BY <1>1, CoveredType, CallsFacts
<1>3. <<>> \in Seq(LegalInterval) /\ Covered(<<>>) = {}
  BY DEF Covered, InList
<1>4. IInv'
  BY <1>1, <1>2, <1>3 DEF IInv, ListsInv, OrderInv, JustAggregated
<1>5. Set!Replace
  BY <1>1, <1>2, <1>3 DEF Set!Replace
<1>. QED
  BY <1>4, <1>5

\* An aggregation that keeps its removals is one of an empty list.
LEMMA AggregateStep ==
    ASSUME IInv, Aggregate
    PROVE  IInv' /\ Set!Aggregate
<1>1. PICK agg : agg = Aggregated(intervals, removed)
  OBVIOUS
<1>2. intervals' = agg.intervals /\ removed' = agg.removed /\ Calls("aggregate", {}, 0)
  BY <1>1 DEF Aggregate
<1>3. called' \in Set!Call("aggregate") /\ called'.op = "aggregate" /\ CacheInv'
  BY <1>2, CallsFacts
<1>4. intervals \in Seq(LegalInterval) /\ removed \in Seq(LegalInterval) /\ AllWide(intervals)
  BY DEF IInv, ListsInv
<1>5. /\ agg.intervals \in Seq(LegalInterval)
      /\ agg.removed = IF intervals = <<>> THEN removed ELSE <<>>
      /\ InOrder(agg.intervals) /\ AllWide(agg.intervals)
      /\ Covered(agg.intervals) = Covered(intervals) \ Covered(removed)
  BY <1>1, <1>4, AggregatedFacts
<1>6. <<>> \in Seq(LegalInterval) /\ Covered(<<>>) = {}
  BY DEF Covered, InList
<1>7. IInv'
  BY <1>2, <1>3, <1>4, <1>5, <1>6 DEF IInv, ListsInv, OrderInv
<1>8. Set!Aggregate
  BY <1>2, <1>3, <1>5, <1>6 DEF Set!Aggregate, Set!Keeps
<1>. QED
  BY <1>7, <1>8

\* Each interval rounded out...
RoundedList(s, size, strict) == [k \in 1 .. Len(s) |-> RoundedOut(s[k], size, strict)]

\* ... of a list that ends before the last block.
LEMMA RoundedListFacts ==
    ASSUME NEW s \in Seq(LegalInterval), AllWide(s), NEW size \in Nat \ {0},
           EndsBeforeLastBlock(s, size), NEW strict \in BOOLEAN,
           NEW r, r = RoundedList(s, size, strict)
    PROVE  /\ r \in Seq(LegalInterval) /\ AllWide(r)
           /\ r = <<>> <=> s = <<>>
           /\ Covered(s) \subseteq Covered(r)
           /\ \A v \in Covered(r) :
                \E w \in Covered(s) : v \div size = w \div size \/ v \div size = w \div size + 1
<1>. USE DEF RoundedList
<1>1. Len(s) \in Nat /\ \A k \in 1 .. Len(s) : s[k] \in LegalInterval /\ s[k].lower < s[k].upper
  BY SeqFacts DEF AllWide
<1>2. ASSUME NEW k \in 1 .. Len(s)
      PROVE  /\ r[k] \in LegalInterval /\ r[k].lower < r[k].upper
             /\ \A v \in Value : Has(s[k], v) => Has(r[k], v)
             /\ \A v \in Value : Has(r[k], v) =>
                  \E w \in Value : Has(s[k], w) /\ (v \div size = w \div size \/ v \div size = w \div size + 1)
  <2>1. s[k].upper < Word - size
    BY DEF EndsBeforeLastBlock
  <2>2. r[k] = RoundedOut(s[k], size, strict)
    OBVIOUS
  <2>. QED
    BY <1>1, <2>1, <2>2, RoundedFacts
<1>3. r \in Seq(LegalInterval) /\ Len(r) = Len(s)
  <2>1. r \in [1 .. Len(s) -> LegalInterval]
    <3>1. r = [k \in 1 .. Len(s) |-> r[k]]
      OBVIOUS
    <3>. QED
      BY <1>2, <3>1
  <2>. QED
    BY <1>1, <2>1
<1>4. AllWide(r)
  BY <1>2, <1>3 DEF AllWide
<1>5. r = <<>> <=> s = <<>>
  BY <1>1, <1>3
<1>6. Covered(s) \subseteq Covered(r)
  BY <1>2, <1>3 DEF Covered, InList
<1>7. ASSUME NEW v \in Covered(r)
      PROVE  \E w \in Covered(s) : v \div size = w \div size \/ v \div size = w \div size + 1
  <2>1. PICK k \in 1 .. Len(s) : Has(r[k], v) /\ v \in Value
    BY <1>3 DEF Covered, InList
  <2>2. PICK w \in Value : Has(s[k], w) /\ (v \div size = w \div size \/ v \div size = w \div size + 1)
    BY <1>2, <2>1
  <2>3. w \in Covered(s)
    BY <2>2 DEF Covered, InList
  <2>. QED
    BY <2>2, <2>3
<1>. QED
  BY <1>3, <1>4, <1>5, <1>6, <1>7

LEMMA RoundStep ==
    ASSUME IInv, NEW size \in BlockSizes, NEW strict \in BOOLEAN, AggregateMaxPrefix(size, strict)
    PROVE  IInv' /\ Set!RoundOut
<1>1. PICK agg : agg = Aggregated(intervals, removed)
  OBVIOUS
<1>2. PICK rounded : rounded = RoundedList(agg.intervals, size, strict)
  OBVIOUS
<1>3. PICK again : again = Aggregated(rounded, agg.removed)
  OBVIOUS
<1>4. /\ EndsBeforeLastBlock(agg.intervals, size)
      /\ intervals' = again.intervals /\ removed' = again.removed
      /\ Calls("round", {}, size)
  BY <1>1, <1>2, <1>3 DEF AggregateMaxPrefix, RoundedList
<1>5. called' \in Set!Call("round") /\ called'.op = "round" /\ called'.size = size /\ CacheInv'
  BY <1>4, CallsFacts
<1>6. intervals \in Seq(LegalInterval) /\ removed \in Seq(LegalInterval) /\ AllWide(intervals)
  BY DEF IInv, ListsInv
<1>7. /\ agg.intervals \in Seq(LegalInterval)
      /\ agg.removed = IF intervals = <<>> THEN removed ELSE <<>>
      /\ AllWide(agg.intervals)
      /\ Covered(agg.intervals) = Covered(intervals) \ Covered(removed)
      /\ intervals = <<>> => agg.intervals = <<>>
  BY <1>1, <1>6, AggregatedFacts
<1>8. <<>> \in Seq(LegalInterval) /\ Covered(<<>>) = {}
  BY DEF Covered, InList
<1>9. size \in Nat \ {0}
  BY ListAssumption
<1>10. /\ rounded \in Seq(LegalInterval) /\ AllWide(rounded)
       /\ rounded = <<>> <=> agg.intervals = <<>>
       /\ Covered(agg.intervals) \subseteq Covered(rounded)
       /\ \A v \in Covered(rounded) : \E w \in Covered(agg.intervals) :
            v \div size = w \div size \/ v \div size = w \div size + 1
  BY <1>2, <1>4, <1>7, <1>9, RoundedListFacts
<1>11. agg.removed \in Seq(LegalInterval)
  BY <1>6, <1>7, <1>8
<1>12. /\ again.intervals \in Seq(LegalInterval)
       /\ again.removed = IF rounded = <<>> THEN agg.removed ELSE <<>>
       /\ InOrder(again.intervals) /\ AllWide(again.intervals)
       /\ Covered(again.intervals) = Covered(rounded) \ Covered(agg.removed)
  BY <1>3, <1>10, <1>11, AggregatedFacts
<1>13. IInv'
  BY <1>4, <1>5, <1>8, <1>11, <1>12 DEF IInv, ListsInv, OrderInv
<1>14. CASE intervals = <<>>
  <2>1. rounded = <<>> /\ again.removed = removed
    BY <1>7, <1>10, <1>12, <1>14
  <2>2. Covered(intervals) = {} /\ Covered(intervals') = {} /\ Covered(removed') = Covered(removed)
    BY <1>4, <1>8, <1>12, <1>14, <2>1
  <2>3. Set!RoundOut
    BY <1>5, <2>2 DEF Set!RoundOut, Set!Keeps
  <2>. QED
    BY <1>13, <2>3
<1>15. CASE intervals # <<>>
  <2>. DEFINE kept == Covered(intervals) \ Covered(removed)
              near == UNION {Set!Block(v, called'.size) \cup Set!NextBlock(v, called'.size) : v \in kept}
  <2>1. agg.removed = <<>> /\ again.removed = <<>>
    BY <1>7, <1>12, <1>15
  <2>2. Covered(intervals') = Covered(rounded) /\ Covered(removed') = {}
    BY <1>4, <1>8, <1>12, <2>1
  <2>3. kept \subseteq Covered(intervals')
    BY <1>7, <1>10, <2>2
  <2>4. Covered(intervals') \subseteq near
    <3>. SUFFICES ASSUME NEW v \in Covered(rounded) PROVE v \in near
      BY <2>2
    <3>1. PICK w \in kept : v \div size = w \div size \/ v \div size = w \div size + 1
      BY <1>7, <1>10
    <3>2. v \in Value
      BY DEF Covered
    <3>3. v \in Set!Block(w, called'.size) \cup Set!NextBlock(w, called'.size)
      BY <1>5, <3>1, <3>2 DEF Set!Block, Set!NextBlock
    <3>. QED
      BY <3>1, <3>3
  <2>5. Covered(intervals') \in SUBSET Value
    BY CoveredType
  <2>. HIDE DEF near
  <2>6. Covered(intervals') \subseteq kept \cup near
    BY <2>4
  <2>7. Set!RoundOut
    BY <1>5, <2>2, <2>3, <2>5, <2>6 DEF Set!RoundOut, near
  <2>. QED
    BY <1>13, <2>7
<1>. QED
  BY <1>14, <1>15

\* The cache is not part of the set.
LEMMA CacheStep ==
    ASSUME IInv, NEW n \in EntrySizes, CreateIndexCache(n)
    PROVE  IInv' /\ UNCHANGED Set!vars
<1>1. /\ index_cache' = [k \in 1 .. (Len(intervals) + n - 1) \div n |->
                           SizeOfFirst(intervals, Least(k * n, Len(intervals)))]
      /\ entry' = n /\ indexed' = TRUE
      /\ intervals' = intervals /\ removed' = removed /\ called' = called
  BY DEF CreateIndexCache, lists
<1>2. n \in Nat \ {0}
  BY ListAssumption
<1>3. CacheInv'
  BY <1>1, <1>2 DEF CacheInv
<1>4. IInv'
  BY <1>1, <1>3 DEF IInv, ListsInv, OrderInv, JustAggregated
<1>. QED
  BY <1>1, <1>4 DEF Set!vars

LEMMA IInvStep == IInv /\ [Next]_vars => IInv' /\ [Set!Next]_Set!vars
<1>. SUFFICES ASSUME IInv, [Next]_vars PROVE IInv' /\ [Set!Next]_Set!vars
  OBVIOUS
<1>1. ASSUME NEW i \in Addable, AddIntervals(<<i>>) PROVE IInv' /\ [Set!Next]_Set!vars
  <2>1. i \in LegalInterval /\ i.lower < i.upper
    BY ListAssumption, WidthOfLegal
  <2>2. <<i>> \in Seq(LegalInterval) /\ AllWide(<<i>>)
    BY <2>1 DEF AllWide
  <2>. QED
    BY <1>1, <2>2, AddStep DEF Set!Next
<1>2. ASSUME NEW i \in Removable, RemoveIntervals(<<i>>) PROVE IInv' /\ [Set!Next]_Set!vars
  <2>1. <<i>> \in Seq(LegalInterval)
    BY ListAssumption
  <2>. QED
    BY <1>2, <2>1, RemoveStep DEF Set!Next
<1>3. ASSUME NEW o \in Others PROVE o \in Seq(LegalInterval) /\ AllWide(o)
  <2>1. o \in Seq(LegalInterval) /\ \A k \in 1 .. Len(o) : Width(o[k]) > 0
    BY ListAssumption
  <2>2. \A k \in 1 .. Len(o) : o[k] \in LegalInterval
    BY <2>1
  <2>. QED
    BY <2>1, <2>2, WidthOfLegal DEF AllWide
<1>4. ASSUME NEW o \in Others, AddIntervals(o) PROVE IInv' /\ [Set!Next]_Set!vars
  BY <1>3, <1>4, AddStep DEF Set!Next
<1>5. ASSUME NEW o \in Others, RemoveIntervals(o) PROVE IInv' /\ [Set!Next]_Set!vars
  BY <1>3, <1>5, RemoveStep DEF Set!Next
<1>6. ASSUME NEW o \in Others, Replace(o) PROVE IInv' /\ [Set!Next]_Set!vars
  BY <1>3, <1>6, ReplaceStep DEF Set!Next
<1>7. CASE Aggregate
  BY <1>7, AggregateStep DEF Set!Next
<1>8. ASSUME NEW size \in BlockSizes, NEW strict \in BOOLEAN, AggregateMaxPrefix(size, strict)
      PROVE  IInv' /\ [Set!Next]_Set!vars
  BY <1>8, RoundStep DEF Set!Next
<1>9. ASSUME NEW n \in EntrySizes, CreateIndexCache(n) PROVE IInv' /\ [Set!Next]_Set!vars
  BY <1>9, CacheStep
<1>10. CASE UNCHANGED vars
  BY <1>10 DEF vars, lists, cache, IInv, ListsInv, OrderInv, CacheInv, JustAggregated, Set!vars
<1>. QED
  BY <1>1, <1>2, <1>4, <1>5, <1>6, <1>7, <1>8, <1>9, <1>10 DEF Next

LEMMA Invariance == Spec => []IInv
<1>1. Init => IInv
  BY IInvInit
<1>2. IInv /\ [Next]_vars => IInv'
  BY IInvStep
<1>. QED
  BY <1>1, <1>2, PTL DEF Spec

------------------------------------------------------------------------------
(* The theorems. *)

\* Any sequence of calls on a list_intervals object is one on a pair of sets:
\* nothing that was added and not removed is lost, nothing else gets in but by
\* the rounding to a prefix, and the pending removals are those an aggregation
\* did not take away (list_intervals::add, remove, aggregate, aggregate_max_prefix,
\* clear, create_index_cache).
THEOREM ObjectIsASet == Spec => ImplementsIntervalSet
<1>1. Init => Set!Init
  BY IInvInit
<1>2. IInv /\ [Next]_vars => [Set!Next]_Set!vars
  BY IInvStep
<1>3. []IInv /\ [][Next]_vars => [][Set!Next]_Set!vars
  BY <1>2, PTL
<1>. QED
  BY <1>1, <1>3, Invariance, PTL DEF Spec, ImplementsIntervalSet, Set!Spec

\* After an aggregation size() is the number of values of the list, though it
\* adds up widths in the arithmetic of the base type (list_intervals::size).
THEOREM SizeIsExact == Spec => []SizeCountsValues
<1>1. IInv => SizeCountsValues
  <2>. SUFFICES ASSUME IInv, JustAggregated
                PROVE  Size(intervals) = Cardinality(Covered(intervals))
    BY DEF SizeCountsValues
  <2>1. intervals \in Seq(LegalInterval) /\ InOrder(intervals)
    BY DEF IInv, ListsInv, OrderInv
  <2>2. Disjoint(intervals) /\ Len(intervals) \in 0 .. Len(intervals)
    BY <2>1, OrderedIsDisjoint
  <2>3. SizeOfFirst(intervals, Len(intervals)) = Cardinality(CoveredByFirst(intervals, Len(intervals)))
    BY <2>1, <2>2, SizeIsCount
  <2>. QED
    BY <2>3, CoveredByAll DEF Size
<1>. QED
  BY <1>1, Invariance, PTL

\* An aggregated list whose cache was created after it is what at_cached() and
\* contains() assume: in order, without empty intervals, with an entry for every
\* group of intervals that counts the values up to its end
\* (list_intervals::create_index_cache).
THEOREM LookupsAreServed == Spec => []ReadyForLookup
<1>1. IInv => ReadyForLookup
  <2>. SUFFICES ASSUME IInv, JustAggregated, indexed PROVE
         /\ InOrder(intervals)
         /\ \A k \in 1 .. Len(intervals) : Width(intervals[k]) > 0
         /\ Len(index_cache) * entry >= Len(intervals)
         /\ \A k \in 1 .. Len(index_cache) :
              index_cache[k] = Cardinality({v \in Value :
                \E j \in 1 .. Len(intervals) : j <= k * entry /\ Has(intervals[j], v)})
    BY DEF ReadyForLookup
  <2>1. /\ intervals \in Seq(LegalInterval) /\ InOrder(intervals) /\ AllWide(intervals)
        /\ entry \in Nat \ {0}
        /\ index_cache = [k \in 1 .. (Len(intervals) + entry - 1) \div entry |->
                            SizeOfFirst(intervals, Least(k * entry, Len(intervals)))]
    BY DEF IInv, ListsInv, OrderInv, CacheInv
  <2>2. \A k \in 1 .. Len(intervals) : Width(intervals[k]) > 0
    BY <2>1, SeqFacts, WidthOfLegal DEF AllWide
  <2>3. Len(intervals) \in Nat /\ Disjoint(intervals)
    BY <2>1, OrderedIsDisjoint
  <2>4. PICK c \in Nat : c = (Len(intervals) + entry - 1) \div entry
    BY <2>1, <2>3, EntriesSuffice
  <2>5. Len(index_cache) = c /\ c * entry >= Len(intervals)
    BY <2>1, <2>3, <2>4, EntriesSuffice
  <2>6. ASSUME NEW k \in 1 .. c
        PROVE  index_cache[k] = Cardinality({v \in Value :
                 \E j \in 1 .. Len(intervals) : j <= k * entry /\ Has(intervals[j], v)})
    <3>1. PICK n : n = Least(k * entry, Len(intervals))
      OBVIOUS
    <3>2. k * entry \in Nat
      BY <2>1
    <3>3. n \in 0 .. Len(intervals) /\ \A j \in 1 .. Len(intervals) : j <= n <=> j <= k * entry
      BY <2>3, <3>1, <3>2 DEF Least
    <3>4. index_cache[k] = SizeOfFirst(intervals, n)
      BY <2>1, <2>4, <3>1
    <3>5. SizeOfFirst(intervals, n) = Cardinality(CoveredByFirst(intervals, n))
      BY <2>1, <2>3, <3>3, SizeIsCount
    <3>6. CoveredByFirst(intervals, n) = {v \in Value :
            \E j \in 1 .. Len(intervals) : j <= k * entry /\ Has(intervals[j], v)}
      <4>1. 1 .. n = {j \in 1 .. Len(intervals) : j <= k * entry}
        BY <2>3, <3>3
      <4>. QED
        BY <4>1 DEF CoveredByFirst, HeldBy, Among
    <3>. QED
      BY <3>4, <3>5, <3>6
  <2>. QED
    BY <2>1, <2>2, <2>5, <2>6
<1>. QED
  BY <1>1, Invariance, PTL

------------------------------------------------------------------------------
(* Bytes and words. *)

\* The weights of the four bytes are the powers of the number of their values.
LEMMA Weights ==
    /\ Radix \in Nat \ {0, 1}
    /\ Weight(0) = 1 /\ Weight(1) = Radix
    /\ Weight(2) = Radix * Radix /\ Weight(3) = Radix * Radix * Radix
    /\ Word = Radix * Radix * Radix * Radix
<1>1. PICK n \in Nat \ {0} : n = Bits
  BY TextAssumption
<1>2. /\ Radix = 2 ^ n /\ Weight(0) = 2 ^ (0 * n) /\ Weight(1) = 2 ^ (1 * n)
      /\ Weight(2) = 2 ^ (2 * n) /\ Weight(3) = 2 ^ (3 * n) /\ Word = 2 ^ (4 * n)
  BY <1>1, TextAssumption DEF Radix, Weight
<1>. QED
  BY <1>2, PowersOfByte

ByteValue == 0 .. Radix - 1

LEMMA BytesOfAddress ==
    ASSUME NEW b3 \in ByteValue, NEW b2 \in ByteValue, NEW b1 \in ByteValue, NEW b0 \in ByteValue
    PROVE  LET v == Address(b3, b2, b1, b0)
           IN  /\ v \in Value
               /\ Byte(v, 0) = b0 /\ Byte(v, 1) = b1 /\ Byte(v, 2) = b2 /\ Byte(v, 3) = b3
<1>1. PICK v : v = Address(b3, b2, b1, b0)
  OBVIOUS
<1>2. PICK r \in Nat \ {0} : r = Radix
  BY Weights
<1>3. v = FourBytes(r, b3, b2, b1, b0)
  BY <1>1, <1>2, Weights DEF Address, FourBytes
<1>4. /\ b3 \in 0 .. r - 1 /\ b2 \in 0 .. r - 1 /\ b1 \in 0 .. r - 1 /\ b0 \in 0 .. r - 1
  BY <1>2 DEF ByteValue
<1>5. /\ v \in 0 .. (r * r * r * r) - 1
      /\ v % r = b0 /\ (v \div r) % r = b1 /\ (v \div (r * r)) % r = b2
      /\ v \div (r * r * r) = b3 /\ b3 % r = b3
  BY <1>3, <1>4, BytesOf
<1>6. v \in Value
  BY <1>2, <1>5, Weights DEF Value
<1>7. v \div 1 = v
  BY <1>6 DEF Value
<1>. QED
  BY <1>1, <1>2, <1>5, <1>6, <1>7, Weights DEF Byte

LEMMA AddressOfBytes ==
    ASSUME NEW v \in Value
    PROVE  /\ Byte(v, 0) \in ByteValue /\ Byte(v, 1) \in ByteValue
           /\ Byte(v, 2) \in ByteValue /\ Byte(v, 3) \in ByteValue
           /\ Address(Byte(v, 3), Byte(v, 2), Byte(v, 1), Byte(v, 0)) = v
<1>1. PICK r \in Nat \ {0} : r = Radix
  BY Weights
<1>2. v \in 0 .. (r * r * r * r) - 1
  BY <1>1, Weights DEF Value
<1>3. PICK b3, b2, b1, b0 \in 0 .. r - 1 : v = FourBytes(r, b3, b2, b1, b0)
  BY <1>2, HasBytes
<1>4. v = Address(b3, b2, b1, b0)
  BY <1>1, <1>3, Weights DEF Address, FourBytes
<1>5. b3 \in ByteValue /\ b2 \in ByteValue /\ b1 \in ByteValue /\ b0 \in ByteValue
  BY <1>1 DEF ByteValue
<1>. QED
  BY <1>4, <1>5, BytesOfAddress

------------------------------------------------------------------------------
(* Dumps. *)

\* The byte b of interval k.
LEMMA MemoryFacts ==
    ASSUME NEW s \in Seq(Interval)
    PROVE  /\ Memory(s) \in Seq(ByteValue) /\ Len(Memory(s)) = 8 * Len(s)
           /\ \A k \in 1 .. Len(s) : \A b \in 1 .. 4 :
                /\ Memory(s)[(8 * (k - 1)) + b] = Byte(s[k].lower, b - 1)
                /\ Memory(s)[(8 * (k - 1)) + 4 + b] = Byte(s[k].upper, b - 1)
<1>1. PICK n \in Nat : n = Len(s)
  OBVIOUS
<1>2. Memory(s) = [k \in 1 .. 8 * n |->
        LET i == s[((k - 1) \div 8) + 1]
            b == (k - 1) % 8
        IN  IF b < 4 THEN Byte(i.lower, b) ELSE Byte(i.upper, b - 4)]
  BY <1>1 DEF Memory, IntervalSize
<1>3. ASSUME NEW k \in 1 .. n, NEW b \in 1 .. 8
      PROVE  /\ (8 * (k - 1)) + b \in 1 .. 8 * n
             /\ (((8 * (k - 1)) + b) - 1) \div 8 = k - 1
             /\ (((8 * (k - 1)) + b) - 1) % 8 = b - 1
  OBVIOUS
<1>4. ASSUME NEW j \in 1 .. 8 * n
      PROVE  ((j - 1) \div 8) + 1 \in 1 .. n /\ (j - 1) % 8 \in 0 .. 7
  OBVIOUS
<1>5. \A i \in Interval : \A b \in 0 .. 3 :
        Byte(i.lower, b) \in ByteValue /\ Byte(i.upper, b) \in ByteValue
  <2>. SUFFICES ASSUME NEW i \in Interval, NEW b \in 0 .. 3
                PROVE  Byte(i.lower, b) \in ByteValue /\ Byte(i.upper, b) \in ByteValue
    OBVIOUS
  <2>1. i.lower \in Value /\ i.upper \in Value /\ (b = 0 \/ b = 1 \/ b = 2 \/ b = 3)
    BY DEF Interval
  <2>. QED
    BY <2>1, AddressOfBytes
<1>6. ASSUME NEW j \in 1 .. 8 * n PROVE Memory(s)[j] \in ByteValue
  <2>1. PICK i \in Interval : i = s[((j - 1) \div 8) + 1]
    BY <1>1, <1>4
  <2>2. PICK b \in 0 .. 7 : b = (j - 1) % 8
    BY <1>4
  <2>3. Memory(s)[j] = IF b < 4 THEN Byte(i.lower, b) ELSE Byte(i.upper, b - 4)
    BY <1>2, <2>1, <2>2
  <2>4. b < 4 => b \in 0 .. 3
    OBVIOUS
  <2>5. ~(b < 4) => b - 4 \in 0 .. 3
    OBVIOUS
  <2>. QED
    BY <1>5, <2>3, <2>4, <2>5
<1>7. Memory(s) \in Seq(ByteValue) /\ Len(Memory(s)) = 8 * n
  <2>1. Memory(s) \in [1 .. 8 * n -> ByteValue]
    BY <1>2, <1>6
  <2>. QED
    BY <2>1, SeqDef
<1>8. ASSUME NEW k \in 1 .. n, NEW b \in 1 .. 4
      PROVE  Memory(s)[(8 * (k - 1)) + b] = Byte(s[k].lower, b - 1)
  <2>1. PICK j : j = (8 * (k - 1)) + b
    OBVIOUS
  <2>2. j \in 1 .. 8 * n /\ ((j - 1) \div 8) + 1 = k /\ (j - 1) % 8 = b - 1 /\ b - 1 < 4
    BY <1>3, <2>1
  <2>. QED
    BY <1>2, <2>1, <2>2
<1>9. ASSUME NEW k \in 1 .. n, NEW b \in 1 .. 4
      PROVE  Memory(s)[(8 * (k - 1)) + 4 + b] = Byte(s[k].upper, b - 1)
  <2>0. 4 + b \in 1 .. 8
    OBVIOUS
  <2>1. PICK j : j = (8 * (k - 1)) + (4 + b)
    OBVIOUS
  <2>2. /\ j \in 1 .. 8 * n /\ ((j - 1) \div 8) + 1 = k /\ (j - 1) % 8 = 4 + b - 1
        /\ ~(4 + b - 1 < 4) /\ (4 + b - 1) - 4 = b - 1
    BY <1>3, <2>0, <2>1
  <2>3. j = (8 * (k - 1)) + 4 + b
    BY <2>1
  <2>. QED
    BY <1>2, <2>2, <2>3
<1>. QED
  BY <1>1, <1>7, <1>8, <1>9

\* What is read of the first m intervals is the first m intervals.
LEMMA HeldIsDumped ==
    ASSUME NEW s \in Seq(Interval), NEW m \in 0 .. Len(s),
           NEW bytes \in Seq(ByteValue), Len(bytes) = 8 * m,
           \A j \in 1 .. 8 * m : bytes[j] = Memory(s)[j]
    PROVE  Held(bytes) = SubSeq(s, 1, m)
<1>1. Held(bytes) = [k \in 1 .. m |->
        Itv(WordAt(bytes, 8 * (k - 1)), WordAt(bytes, (8 * (k - 1)) + 4))]
  <2>1. (8 * m) \div 8 = m
    OBVIOUS
  <2>. QED
    BY <2>1 DEF Held, IntervalSize
<1>2. ASSUME NEW k \in 1 .. m
      PROVE  Itv(WordAt(bytes, 8 * (k - 1)), WordAt(bytes, (8 * (k - 1)) + 4)) = s[k]
  <2>1. PICK i \in Interval : i = s[k]
    OBVIOUS
  <2>2. i = Itv(i.lower, i.upper) /\ i.lower \in Value /\ i.upper \in Value
    BY DEF Interval, Itv
  <2>3. PICK o \in Nat : o = 8 * (k - 1)
    OBVIOUS
  <2>4. \A b \in 1 .. 4 : bytes[o + b] = Byte(i.lower, b - 1) /\ bytes[o + 4 + b] = Byte(i.upper, b - 1)
    <3>. SUFFICES ASSUME NEW b \in 1 .. 4
                  PROVE  bytes[o + b] = Byte(i.lower, b - 1) /\ bytes[o + 4 + b] = Byte(i.upper, b - 1)
      OBVIOUS
    <3>1. o + b \in 1 .. 8 * m /\ o + 4 + b \in 1 .. 8 * m
      BY <2>3
    <3>2. k \in 1 .. Len(s)
      OBVIOUS
    <3>3. Memory(s)[o + b] = Byte(i.lower, b - 1) /\ Memory(s)[o + 4 + b] = Byte(i.upper, b - 1)
      BY <2>1, <2>3, <3>2, MemoryFacts
    <3>. QED
      BY <3>1, <3>3
  <2>5. WordAt(bytes, o) = i.lower
    <3>1. /\ bytes[o + 1] = Byte(i.lower, 0) /\ bytes[o + 2] = Byte(i.lower, 1)
          /\ bytes[o + 3] = Byte(i.lower, 2) /\ bytes[o + 4] = Byte(i.lower, 3)
      BY <2>4
    <3>. QED
      BY <2>2, <3>1, AddressOfBytes DEF WordAt
  <2>6. WordAt(bytes, o + 4) = i.upper
    <3>1. /\ bytes[o + 4 + 1] = Byte(i.upper, 0) /\ bytes[o + 4 + 2] = Byte(i.upper, 1)
          /\ bytes[o + 4 + 3] = Byte(i.upper, 2) /\ bytes[o + 4 + 4] = Byte(i.upper, 3)
      BY <2>4
    <3>. QED
      BY <2>2, <3>1, AddressOfBytes DEF WordAt
  <2>. QED
    BY <2>1, <2>2, <2>3, <2>5, <2>6
<1>3. SubSeq(s, 1, m) = [k \in 1 .. m |-> s[k]]
  <2>1. m \in Nat /\ m <= Len(s)
    OBVIOUS
  <2>2. SubSeq(s, 1, m) \in Seq(Interval) /\ Len(SubSeq(s, 1, m)) = m
    BY <2>1, SubSeqProperties
  <2>3. \A k \in 1 .. m : SubSeq(s, 1, m)[k] = s[k]
    BY <2>1, SubSeqProperties
  <2>. QED
    BY <2>2, <2>3
<1>. QED
  BY <1>1, <1>2, <1>3

------------------------------------------------------------------------------
(* The parser reads ranges of addresses. *)

\* What the parser hands to the list when it reads a text: closed ranges that are
\* in order and start at different addresses.
AreRanges(ranges) ==
    /\ IsFiniteSet(ranges)
    /\ ranges \subseteq {<<a, b>> : a, b \in Value}
    /\ \A r \in ranges : r[1] <= r[2]
    /\ \A q, r \in ranges : q[1] = r[1] => q = r

InRanges(ranges, v) == \E r \in ranges : r[1] <= v /\ v <= r[2]

LEMMA RangeFacts ==
    ASSUME NEW ranges, AreRanges(ranges), NEW r \in ranges
    PROVE  /\ r[1] \in Value /\ r[2] \in Value /\ r[1] <= r[2]
           /\ HalfOpen(r) \in LegalInterval
           /\ \A v \in Value : Has(HalfOpen(r), v) <=> v # Word - 1 /\ r[1] <= v /\ v <= r[2]
<1>1. PICK a \in Value, b \in Value : r = <<a, b>> /\ a <= b
  BY DEF AreRanges
<1>2. PICK u : u = IF b = Word - 1 THEN b ELSE b + 1
  OBVIOUS
<1>3. u \in Value /\ a <= u
  BY <1>1, <1>2, WordAssumption DEF Value
<1>4. HalfOpen(r) = Itv(a, u)
  BY <1>1, <1>2 DEF HalfOpen
<1>5. \A v \in Value : a <= v /\ v < u <=> v # Word - 1 /\ a <= v /\ v <= b
  BY <1>1, <1>2, WordAssumption DEF Value
<1>. QED
  BY <1>1, <1>3, <1>4, <1>5, ItvLegal DEF Has

LEMMA IntervalsFacts ==
    ASSUME NEW ranges, AreRanges(ranges)
    PROVE  /\ Intervals(ranges) \in Seq(LegalInterval)
           /\ Covered(Intervals(ranges)) = {v \in Value : v # Word - 1 /\ InRanges(ranges, v)}
<1>. DEFINE key == [r \in ranges |-> r[1]]
            sorted == Ordered(ranges, key)
<1>1. IsFiniteSet(ranges) /\ DistinctKeys(ranges, key)
  BY RangeFacts DEF AreRanges, Value, DistinctKeys
<1>2. Intervals(ranges) = [k \in 1 .. Len(sorted) |-> HalfOpen(sorted[k])]
  BY DEF Intervals
<1>. HIDE DEF key
<1>3. /\ sorted \in Seq(ranges) /\ Len(sorted) = Cardinality(ranges) /\ Cardinality(ranges) \in Nat
      /\ \A x \in ranges : \E k \in 1 .. Cardinality(ranges) : sorted[k] = x
  BY <1>1, OrderedFacts
<1>. HIDE DEF sorted
<1>4. PICK n \in Nat : n = Len(sorted)
  BY <1>3
<1>5. /\ \A k \in 1 .. n : sorted[k] \in ranges
      /\ \A x \in ranges : \E k \in 1 .. n : sorted[k] = x
  BY <1>3, <1>4
<1>6. Intervals(ranges) \in [1 .. n -> LegalInterval]
  BY <1>2, <1>4, <1>5, RangeFacts
<1>7. Intervals(ranges) \in Seq(LegalInterval) /\ Len(Intervals(ranges)) = n
  BY <1>4, <1>6, SeqDef
<1>8. ASSUME NEW v \in Value
      PROVE  InList(Intervals(ranges), v) <=> v # Word - 1 /\ InRanges(ranges, v)
  <2>1. InList(Intervals(ranges), v) <=> \E k \in 1 .. n : Has(HalfOpen(sorted[k]), v)
    BY <1>2, <1>4, <1>7 DEF InList
  <2>2. InList(Intervals(ranges), v) <=> \E r \in ranges : Has(HalfOpen(r), v)
    BY <1>5, <2>1
  <2>. QED
    BY <2>2, RangeFacts DEF InRanges
<1>. QED
  BY <1>7, <1>8 DEF Covered

LEMMA OneRange ==
    ASSUME NEW a \in Value, NEW b \in Value, a <= b
    PROVE  AreRanges({<<a, b>>}) /\ \A v \in Value : InRanges({<<a, b>>}, v) <=> v \in a .. b
<1>1. IsFiniteSet({<<a, b>>})
  BY FS_Singleton
<1>. QED
  BY <1>1 DEF AreRanges, InRanges, Value

\* The bytes of a text that is an address.
LEMMA Ipv4Type ==
    ASSUME NEW s \in Text, NEW d \in Nat, Ipv4ToI(s, d) # Invalid
    PROVE  Ipv4ToI(s, d) \in Value
<1>. DEFINE f == Fields(s)
            byte(k) == IF k <= Len(f) THEN Atoi3(f[k]) ELSE 0
<1>1. Ipv4ToI(s, d) = Address(byte(1), byte(2), byte(3), byte(4)) /\ \A k \in DOMAIN f : IsByte(byte(k))
  BY DEF Ipv4ToI
<1>2. Len(f) \in Nat /\ DOMAIN f = 1 .. Len(f)
  BY FieldsFacts
<1>3. 0 \in ByteValue
  BY Weights DEF ByteValue
<1>4. ASSUME NEW k \in 1 .. 4 PROVE byte(k) \in ByteValue
  <2>. HIDE DEF f
  <2>. QED
    BY <1>1, <1>2, <1>3 DEF IsByte, ByteValue
<1>. HIDE DEF byte
<1>5. byte(1) \in ByteValue /\ byte(2) \in ByteValue /\ byte(3) \in ByteValue /\ byte(4) \in ByteValue
  BY <1>4
<1>. QED
  BY <1>1, <1>5, BytesOfAddress

LEMMA PartsAreTexts ==
    ASSUME NEW s \in Text, NEW k \in 1 .. Len(s)
    PROVE  Before(s, k) \in Text /\ After(s, k) \in Text /\ Len(After(s, k)) = Len(s) - k
<1>1. Len(s) \in Nat /\ \A j \in 1 .. Len(s) : s[j] \in Int
  BY DEF Text
<1>2. /\ 1 \in Int /\ k - 1 \in Int /\ \A j \in 1 .. k - 1 : s[j] \in Int
      /\ k + 1 \in Int /\ Len(s) \in Int /\ \A j \in k + 1 .. Len(s) : s[j] \in Int
  BY <1>1
<1>3. Len(After(s, k)) = IF k + 1 <= Len(s) THEN Len(s) - (k + 1) + 1 ELSE 0
  BY <1>2, SubSeqProperties DEF After
<1>4. Len(After(s, k)) = Len(s) - k
  BY <1>1, <1>3
<1>. QED
  BY <1>2, <1>4, SubSeqProperties DEF Before, After, Text

\* A block of addresses is inside of the word.
LEMMA BlockFits ==
    ASSUME NEW ip \in Value, NEW p \in 0 .. 4 * Bits
    PROVE  LET block == 2 ^ (4 * Bits - p)
               first == ip - (ip % block)
           IN  /\ block \in Nat \ {0} /\ Word = block * 2 ^ p
               /\ first \in Value /\ first + block - 1 \in Value /\ first <= first + block - 1
               /\ first <= ip /\ ip <= first + block - 1 /\ first % block = 0
<1>1. PICK e \in Nat : e = 4 * Bits - p /\ 4 * Bits = e + p
  <2>1. PICK n \in Nat : n = Bits
    BY TextAssumption
  <2>2. p \in 0 .. 4 * n
    BY <2>1
  <2>3. 4 * n - p \in Nat /\ 4 * n = (4 * n - p) + p
    BY <2>2
  <2>. QED
    BY <2>1, <2>3
<1>2. PICK block \in Nat \ {0} : block = 2 ^ e
  BY <1>1, PowerPositive
<1>3. PICK m \in Nat \ {0} : m = 2 ^ p
  BY PowerPositive
<1>4. Word = block * m
  <2>1. Word = 2 ^ (4 * Bits) /\ p \in Nat
    BY TextAssumption DEF Weight
  <2>. QED
    BY <1>1, <1>2, <1>3, <2>1, PowerSum
<1>5. PICK q \in Nat, r \in 0 .. block - 1 : ip = (block * q) + r /\ r = ip % block
  <2>1. ip \in Nat
    BY WordAssumption DEF Value
  <2>. QED
    BY <2>1, DivFacts
<1>6. PICK first \in Nat : first = block * q
  OBVIOUS
<1>7. ip - (ip % block) = first
  BY <1>5, <1>6
<1>8. q + 1 <= m
  <2>. SUFFICES ASSUME q >= m PROVE FALSE
    OBVIOUS
  <2>1. PICK d \in Nat : q = m + d
    OBVIOUS
  <2>2. block * q = (block * m) + (block * d) /\ block * d \in Nat
    BY <2>1
  <2>3. ip < Word
    BY WordAssumption DEF Value
  <2>. QED
    BY <1>4, <1>5, <2>2, <2>3
<1>9. first + block <= Word
  <2>1. PICK d \in Nat : m = (q + 1) + d
    BY <1>8
  <2>2. block * m = (block * q) + block + (block * d) /\ block * d \in Nat
    BY <2>1
  <2>. QED
    BY <1>4, <1>6, <2>2
<1>10. first \in Value /\ first + block - 1 \in Value /\ first <= first + block - 1
  BY <1>9, WordAssumption DEF Value
<1>11. first % block = 0
  <2>1. first = (block * q) + 0 /\ q \in Nat /\ 0 \in 0 .. block - 1
    BY <1>6
  <2>. QED
    BY <1>2, <1>6
<1>12. first <= ip /\ ip <= first + block - 1
  BY <1>5, <1>6
<1>13. 2 ^ (4 * Bits - p) = block
  BY <1>1, <1>2
<1>. HIDE DEF Value
<1>. QED
  BY <1>2, <1>3, <1>4, <1>7, <1>10, <1>11, <1>12, <1>13

LEMMA ValueIsFinite == IsFiniteSet(Value)
<1>1. 0 \in Int /\ Word - 1 \in Int
  BY WordAssumption
<1>. QED
  BY <1>1, FS_Interval DEF Value

LEMMA LastByte ==
    ASSUME NEW x \in ByteValue, NEW y \in ByteValue, NEW z \in ByteValue
    PROVE  /\ Address(x, y, z, 0) \in Nat
           /\ \A b \in ByteValue : /\ Address(x, y, z, b) = Address(x, y, z, 0) + b
                                   /\ Address(x, y, z, b) \in Value
<1>1. PICK w \in Nat \ {0} : w = Radix
  BY Weights
<1>2. PICK A : A = (x * Weight(3)) + (y * Weight(2)) + (z * Weight(1))
  OBVIOUS
<1>3. A \in Nat
  <2>1. /\ x \in Nat /\ y \in Nat /\ z \in Nat
        /\ w * w * w \in Nat /\ w * w \in Nat
    BY <1>1 DEF ByteValue
  <2>2. x * (w * w * w) \in Nat /\ y * (w * w) \in Nat /\ z * w \in Nat
    BY <2>1
  <2>3. A = (x * (w * w * w)) + (y * (w * w)) + (z * w)
    BY <1>2, <1>1, Weights
  <2>. QED
    BY <2>2, <2>3
<1>4. \A b \in Nat : Address(x, y, z, b) = A + b
  BY <1>2 DEF Address
<1>5. \A b \in ByteValue : b \in Nat /\ Address(x, y, z, b) \in Value
  BY <1>1, BytesOfAddress DEF ByteValue
<1>6. Address(x, y, z, 0) = A
  BY <1>3, <1>4
<1>. QED
  BY <1>3, <1>4, <1>5, <1>6

\* The blocks of the parts of a text are the addresses whose bytes are in them.
AreBytes(X, Y, Z, lo, hi) ==
    /\ X \subseteq ByteValue /\ Y \subseteq ByteValue /\ Z \subseteq ByteValue
    /\ lo \in ByteValue /\ hi \in ByteValue /\ lo <= hi

BlocksOf(X, Y, Z, lo, hi) ==
    {<<Address(x, y, z, lo), Address(x, y, z, hi)>> : x \in X, y \in Y, z \in Z}

LEMMA BlockRanges ==
    ASSUME NEW X, NEW Y, NEW Z, NEW lo, NEW hi, AreBytes(X, Y, Z, lo, hi),
           NEW R, R = BlocksOf(X, Y, Z, lo, hi)
    PROVE  /\ AreRanges(R)
           /\ \A v \in Value : InRanges(R, v) <=>
                Byte(v, 3) \in X /\ Byte(v, 2) \in Y /\ Byte(v, 1) \in Z /\ Byte(v, 0) \in lo .. hi
<1>. /\ X \subseteq ByteValue /\ Y \subseteq ByteValue /\ Z \subseteq ByteValue
     /\ lo \in ByteValue /\ hi \in ByteValue /\ lo <= hi
  BY DEF AreBytes
<1>1. PICK w \in Nat \ {0} : w = Radix
  BY Weights
<1>2. ASSUME NEW x \in ByteValue, NEW y \in ByteValue, NEW z \in ByteValue
      PROVE  /\ Address(x, y, z, 0) \in Nat
             /\ \A b \in ByteValue : /\ Address(x, y, z, b) = Address(x, y, z, 0) + b
                                     /\ Address(x, y, z, b) \in Value
  BY LastByte
<1>3. lo \in Nat /\ hi \in Nat /\ \A b \in lo .. hi : b \in ByteValue
  BY <1>1 DEF ByteValue
<1>4. ASSUME NEW x \in ByteValue, NEW y \in ByteValue, NEW z \in ByteValue, NEW v \in Value
      PROVE  Address(x, y, z, lo) <= v /\ v <= Address(x, y, z, hi) <=>
               Byte(v, 3) = x /\ Byte(v, 2) = y /\ Byte(v, 1) = z /\ Byte(v, 0) \in lo .. hi
  <2>1. PICK A \in Nat : A = Address(x, y, z, 0)
    BY <1>2
  <2>2. Address(x, y, z, lo) = A + lo /\ Address(x, y, z, hi) = A + hi
    BY <1>2, <2>1
  <2>3. v \in Nat
    BY WordAssumption DEF Value
  <2>4. ASSUME A + lo <= v, v <= A + hi
        PROVE  Byte(v, 3) = x /\ Byte(v, 2) = y /\ Byte(v, 1) = z /\ Byte(v, 0) \in lo .. hi
    <3>1. PICK b \in lo .. hi : v = A + b
      BY <1>3, <2>3, <2>4
    <3>2. v = Address(x, y, z, b)
      BY <1>2, <1>3, <2>1, <3>1
    <3>. QED
      BY <1>3, <3>2, BytesOfAddress
  <2>5. ASSUME Byte(v, 3) = x, Byte(v, 2) = y, Byte(v, 1) = z, Byte(v, 0) \in lo .. hi
        PROVE  A + lo <= v /\ v <= A + hi
    <3>1. PICK b \in lo .. hi : b = Byte(v, 0)
      BY <2>5
    <3>2. v = Address(x, y, z, b)
      BY <2>5, <3>1, AddressOfBytes
    <3>3. v = A + b
      BY <1>2, <1>3, <2>1, <3>2
    <3>. QED
      BY <1>3, <3>3
  <2>. QED
    BY <2>2, <2>4, <2>5
<1>5. ASSUME NEW r \in R
      PROVE  \E x \in X, y \in Y, z \in Z : r = <<Address(x, y, z, lo), Address(x, y, z, hi)>>
  BY DEF BlocksOf
<1>6. R \in SUBSET (Value \X Value)
  BY <1>2, <1>5
<1>7. IsFiniteSet(R)
  <2>1. IsFiniteSet(Value \X Value)
    BY ValueIsFinite, FS_Product
  <2>. QED
    BY <1>6, <2>1, FS_Subset
<1>8. \A r \in R : r[1] <= r[2]
  <2>1. \A x, y, z \in ByteValue : Address(x, y, z, lo) <= Address(x, y, z, hi)
    BY <1>2, <1>3, SMTT(30)
  <2>. QED
    BY <1>5, <2>1
<1>9. ASSUME NEW q \in R, NEW r \in R, q[1] = r[1] PROVE q = r
  <2>1. PICK x1 \in X, y1 \in Y, z1 \in Z : q = <<Address(x1, y1, z1, lo), Address(x1, y1, z1, hi)>>
    BY <1>5
  <2>2. PICK x2 \in X, y2 \in Y, z2 \in Z : r = <<Address(x2, y2, z2, lo), Address(x2, y2, z2, hi)>>
    BY <1>5
  <2>3. Address(x1, y1, z1, lo) = Address(x2, y2, z2, lo)
    BY <1>9, <2>1, <2>2
  <2>4. x1 = x2 /\ y1 = y2 /\ z1 = z2
    <3>1. x1 \in ByteValue /\ y1 \in ByteValue /\ z1 \in ByteValue
      OBVIOUS
    <3>2. x2 \in ByteValue /\ y2 \in ByteValue /\ z2 \in ByteValue
      OBVIOUS
    <3>3. /\ Byte(Address(x1, y1, z1, lo), 3) = x1 /\ Byte(Address(x1, y1, z1, lo), 2) = y1
          /\ Byte(Address(x1, y1, z1, lo), 1) = z1
      BY <3>1, BytesOfAddress
    <3>4. /\ Byte(Address(x2, y2, z2, lo), 3) = x2 /\ Byte(Address(x2, y2, z2, lo), 2) = y2
          /\ Byte(Address(x2, y2, z2, lo), 1) = z2
      BY <3>2, BytesOfAddress
    <3>. QED
      BY <2>3, <3>3, <3>4
  <2>. QED
    BY <2>1, <2>2, <2>4
<1>10. AreRanges(R)
  BY <1>6, <1>7, <1>8, <1>9 DEF AreRanges
<1>11. ASSUME NEW v \in Value
       PROVE  InRanges(R, v) <=>
                Byte(v, 3) \in X /\ Byte(v, 2) \in Y /\ Byte(v, 1) \in Z /\ Byte(v, 0) \in lo .. hi
  <2>1. InRanges(R, v) <=> \E x \in X, y \in Y, z \in Z :
                              Address(x, y, z, lo) <= v /\ v <= Address(x, y, z, hi)
    <3>1. ASSUME NEW r \in R, r[1] <= v /\ v <= r[2]
          PROVE  \E x \in X, y \in Y, z \in Z :
                   Address(x, y, z, lo) <= v /\ v <= Address(x, y, z, hi)
      <4>1. PICK x \in X, y \in Y, z \in Z : r = <<Address(x, y, z, lo), Address(x, y, z, hi)>>
        BY <1>5
      <4>. QED
        BY <3>1, <4>1
    <3>2. ASSUME NEW x \in X, NEW y \in Y, NEW z \in Z,
                 Address(x, y, z, lo) <= v /\ v <= Address(x, y, z, hi)
          PROVE  \E r \in R : r[1] <= v /\ v <= r[2]
      <4>1. PICK r : r = <<Address(x, y, z, lo), Address(x, y, z, hi)>>
        OBVIOUS
      <4>2. r \in R /\ r[1] = Address(x, y, z, lo) /\ r[2] = Address(x, y, z, hi)
        BY <4>1 DEF BlocksOf
      <4>. QED
        BY <3>2, <4>2
    <3>. QED
      BY <3>1, <3>2 DEF InRanges
  <2>2. \A x \in X, y \in Y, z \in Z :
          Address(x, y, z, lo) <= v /\ v <= Address(x, y, z, hi) <=>
               Byte(v, 3) = x /\ Byte(v, 2) = y /\ Byte(v, 1) = z /\ Byte(v, 0) \in lo .. hi
    BY <1>4
  <2>. QED
    BY <2>1, <2>2
<1>. QED
  BY <1>10, <1>11

LEMMA ByteIntervalFacts ==
    ASSUME NEW f
    PROVE  /\ ByteInterval(f) = {} \/ \E a, b \in ByteValue : a <= b /\ ByteInterval(f) = a .. b
           /\ ByteInterval(f) \subseteq ByteValue
<1>. DEFINE sep == CHOOSE k \in Places(f, Dash) : \A j \in Places(f, Dash) : k <= j
            a == IF Places(f, Dash) = {} THEN Atoi3(f) ELSE Atoi3(Before(f, sep))
            b == IF Places(f, Dash) = {} THEN a ELSE Atoi3(After(f, sep))
<1>1. a \in 0 .. 999 \cup {Invalid} /\ b \in 0 .. 999 \cup {Invalid}
  <2>. DEFINE Read == 0 .. 999 \cup {Invalid}
  <2>1. \A t : Atoi3(t) \in Read
    BY Atoi3Facts
  <2>. HIDE DEF Read, sep
  <2>2. a \in Read /\ b \in Read
    BY <2>1
  <2>. QED
    BY <2>2 DEF Read
<1>2. ByteInterval(f) = IF a = Invalid \/ b = Invalid THEN {}
                        ELSE Least(a % Radix, b % Radix) .. Greatest(a % Radix, b % Radix)
  BY DEF ByteInterval
<1>. HIDE DEF a, b
<1>3. CASE a = Invalid \/ b = Invalid
  BY <1>2, <1>3
<1>4. CASE ~(a = Invalid \/ b = Invalid)
  <2>1. PICK w \in Nat \ {0} : w = Radix
    BY Weights
  <2>2. a % w \in 0 .. w - 1 /\ b % w \in 0 .. w - 1
    BY <1>1, <1>4
  <2>3. PICK lo \in 0 .. w - 1 : lo = Least(a % w, b % w)
    BY <2>2 DEF Least
  <2>4. PICK hi \in 0 .. w - 1 : hi = Greatest(a % w, b % w)
    BY <2>2 DEF Greatest
  <2>5. lo <= hi
    BY <2>2, <2>3, <2>4 DEF Least, Greatest
  <2>6. ByteInterval(f) = lo .. hi
    BY <1>2, <1>4, <2>1, <2>3, <2>4
  <2>7. lo .. hi \subseteq ByteValue
    BY <2>1 DEF ByteValue
  <2>. QED
    BY <2>1, <2>5, <2>6, <2>7 DEF ByteValue
<1>. QED
  BY <1>3, <1>4

LEMMA MinMaxOfInterval ==
    ASSUME NEW a \in Int, NEW b \in Int, a <= b
    PROVE  Min(a .. b) = a /\ Max(a .. b) = b
  BY DEF Min, Max

\* The last byte of an address is replaced.
LEMMA LastByteReplaced ==
    ASSUME NEW a \in Value, NEW n \in ByteValue
    PROVE  /\ a % Radix = Byte(a, 0)
           /\ a - (a % Radix) + n = Address(Byte(a, 3), Byte(a, 2), Byte(a, 1), n)
           /\ a - (a % Radix) + n \in Value
<1>1. a \in Nat /\ a \div 1 = a
  BY WordAssumption DEF Value
<1>2. a % Radix = Byte(a, 0)
  BY <1>1, Weights DEF Byte
<1>3. PICK b3 \in ByteValue, b2 \in ByteValue, b1 \in ByteValue, b0 \in ByteValue :
         /\ b3 = Byte(a, 3) /\ b2 = Byte(a, 2) /\ b1 = Byte(a, 1) /\ b0 = Byte(a, 0)
         /\ Address(b3, b2, b1, b0) = a
  BY AddressOfBytes
<1>4. PICK A \in Nat : A = Address(b3, b2, b1, 0)
  BY LastByte
<1>5. a = A + b0 /\ Address(b3, b2, b1, n) = A + n /\ A + n \in Value
  BY <1>3, <1>4, LastByte
<1>6. n \in Nat /\ b0 \in Nat
  BY Weights DEF ByteValue
<1>7. a - b0 + n = A + n
  BY <1>5, <1>6
<1>. QED
  BY <1>2, <1>3, <1>5, <1>7

LEMMA LeastGreatest ==
    ASSUME NEW a \in Value, NEW b \in Value
    PROVE  /\ Least(a, b) \in Value /\ Greatest(a, b) \in Value
           /\ Least(a, b) <= Greatest(a, b)
  BY WordAssumption DEF Least, Greatest, Value

LEMMA ReadsFacts ==
    /\ \A r : Reads(r).outcome = "read" /\ Reads(r).ranges = r
    /\ Refused.outcome # "read" /\ Undefined.outcome # "read"
    /\ Refused.outcome = "refused"
  BY DEF Reads, Refused, Undefined

LEMMA AddressIsRanges ==
    ASSUME NEW s \in Text, ParsedAddress(s).outcome = "read"
    PROVE  AreRanges(ParsedAddress(s).ranges)
<1>1. PICK ip : ip = Ipv4ToI(s, 3)
  OBVIOUS
<1>2. ParsedAddress(s) = IF ip = Invalid THEN Refused ELSE Reads({<<ip, ip>>})
  BY <1>1 DEF ParsedAddress
<1>3. ip # Invalid /\ ParsedAddress(s).ranges = {<<ip, ip>>}
  BY <1>2, ReadsFacts
<1>4. ip \in Value
  BY <1>1, <1>3, Ipv4Type
<1>5. ip <= ip
  BY <1>4, WordAssumption DEF Value
<1>. QED
  BY <1>3, <1>4, <1>5, OneRange

LEMMA SpanIsRanges ==
    ASSUME NEW s \in Text, Cardinality(Places(s, Dash)) # 0, ParsedSpan(s).outcome = "read"
    PROVE  AreRanges(ParsedSpan(s).ranges)
<1>. DEFINE sep == CHOOSE k \in Places(s, Dash) : TRUE
            a == Ipv4ToI(Before(s, sep), 3)
            whole == Ipv4ToI(After(s, sep), 3)
            last == Atoi3(After(s, sep))
            b == IF whole # Invalid THEN whole
                 ELSE IF IsByte(last) THEN a - (a % Radix) + last
                 ELSE Invalid
<1>1. sep \in 1 .. Len(s)
  BY PlacesFacts
<1>2. Before(s, sep) \in Text /\ After(s, sep) \in Text
  <2>. HIDE DEF sep
  <2>. QED
    BY <1>1, PartsAreTexts
<1>3. ParsedSpan(s) = IF a = Invalid \/ b = Invalid THEN Refused
                      ELSE Reads({<<Least(a, b), Greatest(a, b)>>})
  BY DEF ParsedSpan
<1>4. a # Invalid /\ b # Invalid /\ ParsedSpan(s).ranges = {<<Least(a, b), Greatest(a, b)>>}
  <2>. HIDE DEF a, b
  <2>. QED
    BY <1>3, ReadsFacts
<1>5. a \in Value
  <2>. HIDE DEF sep
  <2>. QED
    BY <1>2, <1>4, Ipv4Type
<1>6. b \in Value
  <2>. HIDE DEF sep, a, last
  <2>1. CASE whole # Invalid
    BY <1>2, <2>1, Ipv4Type
  <2>2. CASE whole = Invalid
    <3>. HIDE DEF whole
    <3>1. IsByte(last) /\ b = a - (a % Radix) + last
      BY <1>4, <2>2
    <3>2. last \in ByteValue
      BY <3>1 DEF IsByte, ByteValue
    <3>. QED
      BY <1>5, <3>1, <3>2, LastByteReplaced
  <2>. QED
    BY <2>1, <2>2
<1>. HIDE DEF a, b
<1>. QED
  BY <1>4, <1>5, <1>6, LeastGreatest, OneRange

LEMMA PrefixIsRanges ==
    ASSUME NEW s \in Text, Cardinality(Places(s, Slash)) # 0, ParsedPrefix(s).outcome = "read"
    PROVE  AreRanges(ParsedPrefix(s).ranges)
<1>. DEFINE slash == CHOOSE k \in Places(s, Slash) : TRUE
            ip == Ipv4ToI(Before(s, slash), 0)
            tail == After(s, slash)
            cidr == IF tail # <<>> /\ tail[1] >= 0 THEN tail[1] ELSE 0
            block == 2 ^ (4 * Bits - cidr)
<1>1. slash \in 1 .. Len(s)
  BY PlacesFacts
<1>2. Before(s, slash) \in Text /\ tail \in Text
  <2>. HIDE DEF slash
  <2>. QED
    BY <1>1, PartsAreTexts
<1>3. ParsedPrefix(s) = IF ip = Invalid THEN Refused
        ELSE IF cidr > 4 * Bits THEN Undefined
        ELSE Reads({<<ip - (ip % block), ip - (ip % block) + block - 1>>})
  BY DEF ParsedPrefix
<1>4. cidr \in Nat
  <2>. HIDE DEF tail
  <2>1. tail # <<>> => tail[1] \in Int
    BY <1>2 DEF Text
  <2>. QED
    BY <2>1
<1>. HIDE DEF tail, slash
<1>5. ip # Invalid => ip \in Value
  BY <1>2, Ipv4Type
<1>. HIDE DEF cidr, ip
<1>6. /\ ip # Invalid /\ ~(cidr > 4 * Bits)
      /\ ParsedPrefix(s).ranges = {<<ip - (ip % block), ip - (ip % block) + block - 1>>}
  <2>. HIDE DEF block
  <2>. QED
    BY <1>3, ReadsFacts
<1>7. cidr \in 0 .. 4 * Bits
  <2>1. PICK n \in Nat : n = Bits
    BY TextAssumption
  <2>. QED
    BY <1>4, <1>6, <2>1
<1>8. PICK first, end : first = ip - (ip % block) /\ end = ip - (ip % block) + block - 1
  OBVIOUS
<1>9. first \in Value /\ end \in Value /\ first <= end
  BY <1>5, <1>6, <1>7, <1>8, BlockFits
<1>10. ParsedPrefix(s).ranges = {<<first, end>>}
  BY <1>6, <1>8
<1>. QED
  BY <1>9, <1>10, OneRange

\* What the blocks of a text hold.
LEMMA ParsedBlocksFacts ==
    ASSUME NEW s \in Text, ParsedBlocks(s).outcome = "read"
    PROVE  /\ AreRanges(ParsedBlocks(s).ranges)
           /\ \A v \in Value : InRanges(ParsedBlocks(s).ranges, v) <=>
                \A k \in 1 .. 4 : Byte(v, 4 - k) \in ByteInterval(Fields(s)[k])
<1>. DEFINE f == Fields(s)
            B(k) == ByteInterval(f[k])
            R == {<<Address(x, y, z, Min(B(4))), Address(x, y, z, Max(B(4)))>> :
                      x \in B(1), y \in B(2), z \in B(3)}
<1>1. ParsedBlocks(s) =
        IF Len(f) # 4 \/ (\E k \in 1 .. 3 : B(k) = {}) THEN Refused
        ELSE IF Places(f[4], Dash) = {} THEN Undefined
        ELSE IF B(4) = {} THEN Refused
        ELSE Reads(R)
  BY DEF ParsedBlocks
<1>2. B(4) # {} /\ ParsedBlocks(s).ranges = R
  <2>. HIDE DEF B, R, f
  <2>. QED
    BY <1>1, ReadsFacts
<1>3. PICK lo, hi \in ByteValue : lo <= hi /\ B(4) = lo .. hi
  BY <1>2, ByteIntervalFacts
<1>4. Min(B(4)) = lo /\ Max(B(4)) = hi
  <2>1. lo \in Int /\ hi \in Int
    BY Weights DEF ByteValue
  <2>. HIDE DEF B
  <2>. QED
    BY <1>3, <2>1, MinMaxOfInterval
<1>5. B(1) \in SUBSET ByteValue /\ B(2) \in SUBSET ByteValue /\ B(3) \in SUBSET ByteValue
  BY ByteIntervalFacts
<1>. HIDE DEF B
<1>6. R = {<<Address(x, y, z, lo), Address(x, y, z, hi)>> : x \in B(1), y \in B(2), z \in B(3)}
  BY <1>4
<1>. HIDE DEF R
<1>7. /\ AreRanges(R)
      /\ \A v \in Value : InRanges(R, v) <=>
           Byte(v, 3) \in B(1) /\ Byte(v, 2) \in B(2) /\ Byte(v, 1) \in B(3) /\ Byte(v, 0) \in lo .. hi
  <2>1. PICK X, Y, Z \in SUBSET ByteValue : X = B(1) /\ Y = B(2) /\ Z = B(3)
    BY <1>5
  <2>2. R = BlocksOf(X, Y, Z, lo, hi)
    BY <1>6, <2>1 DEF BlocksOf
  <2>3. /\ AreRanges(R)
        /\ \A v \in Value : InRanges(R, v) <=>
             Byte(v, 3) \in X /\ Byte(v, 2) \in Y /\ Byte(v, 1) \in Z /\ Byte(v, 0) \in lo .. hi
    <3>1. AreBytes(X, Y, Z, lo, hi)
      BY <1>3, <2>1 DEF AreBytes
    <3>. QED
      BY <2>2, <3>1, BlockRanges
  <2>. QED
    BY <2>1, <2>3
<1>8. ASSUME NEW v \in Value
      PROVE  (\A k \in 1 .. 4 : Byte(v, 4 - k) \in B(k)) <=>
               Byte(v, 3) \in B(1) /\ Byte(v, 2) \in B(2) /\ Byte(v, 1) \in B(3) /\ Byte(v, 0) \in B(4)
  <2>1. \A k \in 1 .. 4 : k = 1 \/ k = 2 \/ k = 3 \/ k = 4
    OBVIOUS
  <2>2. 4 - 1 = 3 /\ 4 - 2 = 2 /\ 4 - 3 = 1 /\ 4 - 4 = 0
    OBVIOUS
  <2>3. 1 \in 1 .. 4 /\ 2 \in 1 .. 4 /\ 3 \in 1 .. 4 /\ 4 \in 1 .. 4
    OBVIOUS
  <2>. QED
    BY <2>1, <2>2, <2>3
<1>9. \A v \in Value : InRanges(R, v) <=> \A k \in 1 .. 4 : Byte(v, 4 - k) \in B(k)
  BY <1>3, <1>7, <1>8
<1>. QED
  BY <1>2, <1>7, <1>9 DEF B

LEMMA ParsedIsRanges ==
    ASSUME NEW s \in Text, Parsed(s).outcome = "read"
    PROVE  AreRanges(Parsed(s).ranges)
<1>1. PICK d, n : d = Cardinality(Places(s, Dash)) /\ n = Cardinality(Places(s, Slash))
  OBVIOUS
<1>2. d \in Nat /\ n \in Nat
  BY <1>1, PlacesFacts
<1>3. Parsed(s) =
        IF d = 0 /\ n = 0 THEN ParsedAddress(s)
        ELSE IF d = 1 /\ n = 0 THEN ParsedSpan(s)
        ELSE IF d = 1 \/ n > 1 THEN Refused
        ELSE IF d = 0 THEN ParsedPrefix(s)
        ELSE ParsedBlocks(s)
  BY <1>1 DEF Parsed
<1>4. CASE d = 0 /\ n = 0
  BY <1>3, <1>4, AddressIsRanges
<1>5. CASE d = 1 /\ n = 0
  <2>1. Cardinality(Places(s, Dash)) # 0 /\ Parsed(s) = ParsedSpan(s)
    BY <1>1, <1>3, <1>5
  <2>. QED
    BY <2>1, SpanIsRanges
<1>6. CASE (d = 1 /\ n # 0) \/ (d # 1 /\ n > 1)
  BY <1>2, <1>3, <1>6, ReadsFacts
<1>7. CASE d = 0 /\ n = 1
  <2>1. Cardinality(Places(s, Slash)) # 0 /\ Parsed(s) = ParsedPrefix(s)
    BY <1>1, <1>3, <1>7
  <2>. QED
    BY <2>1, PrefixIsRanges
<1>8. CASE d > 1 /\ ~(n > 1)
  BY <1>2, <1>3, <1>8, ParsedBlocksFacts
<1>. QED
  BY <1>2, <1>4, <1>5, <1>6, <1>7, <1>8

------------------------------------------------------------------------------
(* The count of a stream. *)

Digit == Range(Digits)

LEMMA DigitFacts ==
    /\ Len(Digits) \in Nat \ {0, 1}
    /\ \A d \in 0 .. Len(Digits) - 1 : /\ Digits[d + 1] \in Digit
                                       /\ Digits[d + 1] \in ByteValue
                                       /\ DigitOf(Digits[d + 1]) = d
<1>1. /\ Digits \in Seq(ByteValue) /\ Len(Digits) \in Nat /\ Len(Digits) >= 2
      /\ DOMAIN Digits = 1 .. Len(Digits)
      /\ \A a, b \in DOMAIN Digits : Digits[a] = Digits[b] => a = b
  BY DigitsAssumption DEF ByteValue, IsInjective
<1>2. ASSUME NEW d \in 0 .. Len(Digits) - 1
      PROVE  /\ Digits[d + 1] \in Digit /\ Digits[d + 1] \in ByteValue
             /\ DigitOf(Digits[d + 1]) = d
  <2>1. d + 1 \in DOMAIN Digits /\ d + 1 \in 1 .. Len(Digits)
    BY <1>1
  <2>2. Digits[d + 1] \in Digit
    BY <2>1 DEF Digit, Range
  <2>3. Digits[d + 1] \in ByteValue
    BY <1>1, <2>1
  <2>4. (CHOOSE e \in DOMAIN Digits : Digits[e] = Digits[d + 1]) = d + 1
    BY <1>1, <2>1
  <2>5. (d + 1) - 1 = d
    BY <1>1
  <2>. QED
    BY <2>2, <2>3, <2>4, <2>5 DEF DigitOf
<1>. QED
  BY <1>1, <1>2

\* The digits of a number below the square of their number.
LEMMA NumeralFacts ==
    ASSUME NEW n \in Nat, n < Len(Digits) * Len(Digits)
    PROVE  /\ Numeral(n) \in Seq(ByteValue) /\ Len(Numeral(n)) \in {1, 2}
           /\ \A k \in 1 .. Len(Numeral(n)) : Numeral(n)[k] \in Digit
           /\ Len(Numeral(n)) = 1 => DigitOf(Numeral(n)[1]) = n
           /\ Len(Numeral(n)) = 2 =>
                /\ DigitOf(Numeral(n)[1]) \in Nat /\ DigitOf(Numeral(n)[2]) \in Nat
                /\ DigitOf(Numeral(n)[1]) * Len(Digits) + DigitOf(Numeral(n)[2]) = n
<1>1. PICK base \in Nat \ {0, 1} : base = Len(Digits)
  BY DigitFacts
<1>2. Numeral(n) = IF n < base THEN <<Digits[n + 1]>>
                   ELSE <<Digits[(n \div base) + 1], Digits[(n % base) + 1]>>
  BY <1>1 DEF Numeral
<1>3. \A d \in 0 .. base - 1 : /\ Digits[d + 1] \in Digit /\ Digits[d + 1] \in ByteValue
                               /\ DigitOf(Digits[d + 1]) = d
  BY <1>1, DigitFacts
<1>4. CASE n < base
  <2>1. n \in 0 .. base - 1
    BY <1>4
  <2>2. Numeral(n) = <<Digits[n + 1]>>
    BY <1>2, <1>4
  <2>3. PICK x : x = Digits[n + 1]
    OBVIOUS
  <2>4. x \in Digit /\ x \in ByteValue /\ DigitOf(x) = n
    BY <1>3, <2>1, <2>3
  <2>. QED
    BY <2>2, <2>3, <2>4
<1>5. CASE ~(n < base)
  <2>1. PICK q \in Nat, r \in 0 .. base - 1 : n = (base * q) + r /\ q = n \div base /\ r = n % base
    BY DivFacts
  <2>2. q < base
    <3>. SUFFICES ASSUME q >= base PROVE FALSE
      OBVIOUS
    <3>1. PICK d \in Nat : q = base + d
      OBVIOUS
    <3>2. PICK a, b, c \in Nat : a = base * base /\ b = base * d /\ c = base * q
      OBVIOUS
    <3>3. c = a + b
      BY <3>1, <3>2
    <3>4. n < a /\ n = c + r
      BY <1>1, <2>1, <3>2
    <3>. QED
      BY <3>3, <3>4
  <2>3. q \in 0 .. base - 1
    BY <2>2
  <2>4. PICK x, y : x = Digits[q + 1] /\ y = Digits[r + 1]
    OBVIOUS
  <2>5. x \in Digit /\ x \in ByteValue /\ DigitOf(x) = q /\ y \in Digit /\ y \in ByteValue /\ DigitOf(y) = r
    BY <1>3, <2>1, <2>3, <2>4
  <2>6. Numeral(n) = <<x, y>>
    BY <1>2, <1>5, <2>1, <2>4
  <2>7. Numeral(n) \in Seq(ByteValue) /\ Len(Numeral(n)) = 2 /\ Numeral(n)[1] = x /\ Numeral(n)[2] = y
    BY <2>5, <2>6
  <2>8. q * base + r = n
    BY <2>1
  <2>9. \A k \in 1 .. 2 : k = 1 \/ k = 2
    OBVIOUS
  <2>10. \A k \in 1 .. Len(Numeral(n)) : Numeral(n)[k] \in Digit
    BY <2>5, <2>7, <2>9
  <2>11. /\ DigitOf(Numeral(n)[1]) \in Nat /\ DigitOf(Numeral(n)[2]) \in Nat
         /\ DigitOf(Numeral(n)[1]) * Len(Digits) + DigitOf(Numeral(n)[2]) = n
    <3>1. DigitOf(Numeral(n)[1]) = q /\ DigitOf(Numeral(n)[2]) = r
      BY <2>5, <2>7
    <3>2. q \in Nat /\ r \in Nat
      BY <2>1
    <3>3. q * Len(Digits) + r = n
      BY <1>1, <2>8
    <3>. QED
      BY <3>1, <3>2, <3>3, Zenon
  <2>. QED
    BY <2>7, <2>10, <2>11
<1>. QED
  BY <1>4, <1>5

LEMMA LeadingIs ==
    ASSUME NEW bytes \in Seq(ByteValue), NEW n \in 0 .. Len(bytes),
           \A k \in 1 .. n : bytes[k] \in Digit,
           n < Len(bytes) => bytes[n + 1] \notin Digit
    PROVE  Leading(bytes) = n
<1>1. ASSUME NEW m \in 0 .. Len(bytes),
             \A k \in 1 .. m : bytes[k] \in Digit,
             m < Len(bytes) => bytes[m + 1] \notin Digit
      PROVE  m = n
  <2>1. Len(bytes) \in Nat
    OBVIOUS
  <2>2. ~(m < n)
    <3>. SUFFICES ASSUME m < n PROVE FALSE
      OBVIOUS
    <3>1. m + 1 \in 1 .. n /\ m < Len(bytes)
      BY <2>1
    <3>. QED
      BY <1>1, <3>1
  <2>3. ~(n < m)
    <3>. SUFFICES ASSUME n < m PROVE FALSE
      OBVIOUS
    <3>1. n + 1 \in 1 .. m /\ n < Len(bytes)
      BY <2>1
    <3>. QED
      BY <1>1, <3>1
  <2>. QED
    BY <2>1, <2>2, <2>3
<1>. QED
  BY <1>1 DEF Leading, Digit

LEMMA CountIs ==
    ASSUME NEW bytes \in Seq(ByteValue), NEW n \in Nat, n < Len(Digits) * Len(Digits),
           Leading(bytes) = Len(Numeral(n)),
           \A k \in 1 .. Len(Numeral(n)) : bytes[k] = Numeral(n)[k]
    PROVE  Count(bytes) = n
<1>. DEFINE D == [k \in 1 .. Leading(bytes) |->
                    [count \in Nat |-> (count * Len(Digits)) + DigitOf(bytes[k])]]
<1>1. PICK m \in {1, 2} : m = Len(Numeral(n))
  BY NumeralFacts
<1>2. PICK base \in Nat \ {0, 1} : base = Len(Digits)
  BY DigitFacts
<1>3. /\ m = 1 => DigitOf(bytes[1]) = n
      /\ m = 2 => /\ DigitOf(bytes[1]) \in Nat /\ DigitOf(bytes[2]) \in Nat
                  /\ DigitOf(bytes[1]) * base + DigitOf(bytes[2]) = n
  <2>1. 1 \in 1 .. m /\ (m = 2 => 2 \in 1 .. m)
    OBVIOUS
  <2>2. bytes[1] = Numeral(n)[1] /\ (m = 2 => bytes[2] = Numeral(n)[2])
    BY <1>1, <2>1
  <2>. QED
    BY <1>1, <1>2, <2>2, NumeralFacts
<1>4. D \in [1 .. m -> [Nat -> Nat]]
  <2>1. \A k \in 1 .. m : DigitOf(bytes[k]) \in Nat
    <3>1. DigitOf(bytes[1]) \in Nat /\ (m = 2 => DigitOf(bytes[2]) \in Nat)
      BY <1>1, <1>3
    <3>2. \A k \in 1 .. m : k = 1 \/ (k = 2 /\ m = 2)
      BY <1>1
    <3>. QED
      BY <3>1, <3>2
  <2>2. D = [k \in 1 .. m |-> [count \in Nat |-> (count * base) + DigitOf(bytes[k])]]
    BY <1>1, <1>2
  <2>. HIDE DEF D
  <2>3. \A k \in 1 .. m : \A c \in Nat : (c * base) + DigitOf(bytes[k]) \in Nat
    BY <2>1
  <2>. QED
    BY <2>2, <2>3
<1>5. \A k \in 1 .. m : \A c \in Nat : D[k][c] = (c * base) + DigitOf(bytes[k])
  BY <1>1, <1>2
<1>6. Count(bytes) = Loop(D, 0, m)[m]
  BY <1>1 DEF Count
<1>. HIDE DEF D
<1>7. /\ Loop(D, 0, m)[0] = 0
      /\ \A k \in 1 .. m : Loop(D, 0, m)[k] = D[k][Loop(D, 0, m)[k - 1]]
  <2>1. m \in Nat /\ 0 \in Nat
    BY <1>1
  <2>2. PICK X : X = Nat
    OBVIOUS
  <2>3. 0 \in X /\ D \in [1 .. m -> [X -> X]]
    BY <1>4, <2>1, <2>2
  <2>. QED
    BY <2>1, <2>3, LoopFacts
<1>8. Loop(D, 0, m)[1] = DigitOf(bytes[1]) /\ DigitOf(bytes[1]) \in Nat
  <2>1. 1 \in 1 .. m /\ 1 - 1 = 0
    OBVIOUS
  <2>2. Loop(D, 0, m)[1] = D[1][0]
    BY <1>7, <2>1
  <2>3. D[1][0] = (0 * base) + DigitOf(bytes[1])
    BY <1>5, <2>1
  <2>4. DigitOf(bytes[1]) \in Nat
    BY <1>3
  <2>. QED
    BY <2>2, <2>3, <2>4
<1>9. CASE m = 1
  BY <1>3, <1>6, <1>8, <1>9
<1>10. CASE m = 2
  <2>1. 2 \in 1 .. m /\ 2 - 1 = 1
    BY <1>10
  <2>2. Loop(D, 0, m)[2] = D[2][Loop(D, 0, m)[1]]
    BY <1>7, <2>1
  <2>3. D[2][DigitOf(bytes[1])] = (DigitOf(bytes[1]) * base) + DigitOf(bytes[2])
    BY <1>5, <1>8, <2>1
  <2>. QED
    BY <1>3, <1>6, <1>8, <1>10, <2>2, <2>3
<1>. QED
  BY <1>9, <1>10

LEMMA LegalSeqIsInterval ==
    ASSUME NEW s \in Seq(LegalInterval)
    PROVE  s \in Seq(Interval)
<1>1. LegalInterval \subseteq Interval
  BY DEF LegalInterval
<1>. QED
  BY <1>1, SeqMonotonic

\* A stream that is complete is read back.
LEMMA StreamIsRead ==
    ASSUME NEW s \in Seq(LegalInterval), Len(s) < Len(Digits) * Len(Digits), NEW g,
           s # <<>> => Byte(s[1].lower, 0) \notin Digit
    PROVE  Filled(Count(Streamed(s)), StreamData(Streamed(s)), g) = s
<1>1. s \in Seq(Interval) /\ Len(s) \in Nat
  BY LegalSeqIsInterval
<1>2. PICK n \in Nat : n = Len(s) /\ n < Len(Digits) * Len(Digits)
  BY <1>1
<1>3. PICK N : N = Numeral(n)
  OBVIOUS
<1>4. PICK M : M = Memory(s)
  OBVIOUS
<1>5. N \in Seq(ByteValue) /\ Len(N) \in {1, 2} /\ \A k \in 1 .. Len(N) : N[k] \in Digit
  BY <1>2, <1>3, NumeralFacts
<1>6. M \in Seq(ByteValue) /\ Len(M) = 8 * n
  BY <1>1, <1>2, <1>4, MemoryFacts
<1>7. PICK bytes : bytes = Streamed(s)
  OBVIOUS
<1>8. bytes = N \o M
  BY <1>2, <1>3, <1>4, <1>7 DEF Streamed
<1>9. /\ bytes \in Seq(ByteValue) /\ Len(bytes) = Len(N) + 8 * n
      /\ \A k \in 1 .. Len(N) : bytes[k] = N[k]
      /\ \A k \in 1 .. 8 * n : bytes[Len(N) + k] = M[k]
  <2>1. /\ bytes \in Seq(ByteValue) /\ Len(bytes) = Len(N) + Len(M)
        /\ \A i \in 1 .. Len(N) + Len(M) : bytes[i] = IF i <= Len(N) THEN N[i] ELSE M[i - Len(N)]
    BY <1>5, <1>6, <1>8, ConcatProperties
  <2>2. PICK l \in Nat : l = Len(N)
    BY <1>5
  <2>3. \A k \in 1 .. l : bytes[k] = N[k]
    BY <1>6, <2>1, <2>2
  <2>4. ASSUME NEW k \in 1 .. 8 * n PROVE bytes[l + k] = M[k]
    <3>1. l + k \in 1 .. l + (8 * n) /\ ~(l + k <= l) /\ (l + k) - l = k
      OBVIOUS
    <3>2. \A i \in 1 .. l + (8 * n) : bytes[i] = IF i <= l THEN N[i] ELSE M[i - l]
      BY <1>6, <2>1, <2>2
    <3>3. bytes[l + k] = M[(l + k) - l]
      BY <3>1, <3>2
    <3>. QED
      BY <3>1, <3>3
  <2>. QED
    BY <1>6, <2>1, <2>2, <2>3, <2>4
<1>10. Leading(bytes) = Len(N)
  <2>1. n > 0 => bytes[Len(N) + 1] \notin Digit
    <3>. SUFFICES ASSUME n > 0 PROVE bytes[Len(N) + 1] \notin Digit
      OBVIOUS
    <3>1. 1 \in 1 .. 8 * n /\ s # <<>> /\ 1 \in 1 .. Len(s) /\ 1 \in 1 .. 4
      BY <1>1, <1>2
    <3>2. M[(8 * (1 - 1)) + 1] = Byte(s[1].lower, 1 - 1)
      BY <1>1, <1>4, <3>1, MemoryFacts
    <3>3. M[1] = Byte(s[1].lower, 0)
      BY <3>2
    <3>. QED
      BY <1>9, <3>1, <3>3
  <2>2. Len(N) \in 0 .. Len(bytes) /\ (Len(N) < Len(bytes) => n > 0)
    BY <1>5, <1>9
  <2>3. \A k \in 1 .. Len(N) : bytes[k] \in Digit
    BY <1>5, <1>9
  <2>. QED
    BY <1>9, <2>1, <2>2, <2>3, LeadingIs
<1>11. Count(bytes) = n
  BY <1>2, <1>3, <1>9, <1>10, CountIs
<1>12. /\ StreamData(bytes) \in Seq(ByteValue) /\ Len(StreamData(bytes)) = 8 * n
       /\ \A k \in 1 .. 8 * n : StreamData(bytes)[k] = M[k]
  <2>1. PICK l \in Nat : l = Len(N)
    BY <1>5
  <2>2. StreamData(bytes) = SubSeq(bytes, l + 1, l + (8 * n))
    BY <1>9, <1>10, <2>1 DEF StreamData
  <2>3. \A i \in l + 1 .. l + (8 * n) : bytes[i] \in ByteValue
    BY <1>9, <2>1
  <2>4. PICK a, b \in Int : a = l + 1 /\ b = l + (8 * n)
    OBVIOUS
  <2>5. \A i \in a .. b : bytes[i] \in ByteValue
    BY <2>3, <2>4
  <2>6. /\ SubSeq(bytes, a, b) \in Seq(ByteValue)
        /\ Len(SubSeq(bytes, a, b)) = IF a <= b THEN b - a + 1 ELSE 0
        /\ \A i \in 1 .. b - a + 1 : SubSeq(bytes, a, b)[i] = bytes[a + i - 1]
    BY <2>5, SubSeqProperties
  <2>7. StreamData(bytes) = SubSeq(bytes, a, b)
    BY <2>2, <2>4
  <2>8. (IF a <= b THEN b - a + 1 ELSE 0) = 8 * n /\ b - a + 1 = 8 * n
    BY <2>4
  <2>9. \A k \in 1 .. 8 * n : a + k - 1 = l + k
    BY <2>4
  <2>10. \A k \in 1 .. 8 * n : StreamData(bytes)[k] = M[k]
    BY <1>9, <2>1, <2>6, <2>7, <2>8, <2>9
  <2>. QED
    BY <2>6, <2>7, <2>8, <2>10
<1>13. PICK d : d = StreamData(bytes)
  OBVIOUS
<1>14. Filled(n, d, g) = Held(d)
  <2>1. Filled(n, d, g) = Held([k \in 1 .. 8 * n |-> IF k <= Len(d) THEN d[k] ELSE g])
    BY DEF Filled, IntervalSize
  <2>2. [k \in 1 .. 8 * n |-> IF k <= Len(d) THEN d[k] ELSE g] = d
    <3>1. d = [k \in 1 .. 8 * n |-> d[k]]
      BY <1>12, <1>13
    <3>2. \A k \in 1 .. 8 * n : k <= Len(d)
      BY <1>12, <1>13
    <3>. QED
      BY <3>1, <3>2
  <2>. QED
    BY <2>1, <2>2
<1>15. Held(d) = SubSeq(s, 1, n)
  <2>1. n \in 0 .. Len(s)
    BY <1>2
  <2>2. d \in Seq(ByteValue) /\ Len(d) = 8 * n /\ \A j \in 1 .. 8 * n : d[j] = Memory(s)[j]
    BY <1>4, <1>12, <1>13
  <2>. QED
    BY <1>1, <2>1, <2>2, HeldIsDumped
<1>16. SubSeq(s, 1, n) = s
  BY <1>2, SubSeqFull
<1>. QED
  BY <1>7, <1>11, <1>13, <1>14, <1>15, <1>16

------------------------------------------------------------------------------
(* The texts of addresses. *)

\* Dots and numbers only.
Clean(s) == \A k \in 1 .. Len(s) : s[k] = Dot \/ s[k] >= 0

LEMMA CleanFacts ==
    ASSUME NEW s \in Text, Clean(s), NEW c \in {Dash, Slash}
    PROVE  Places(s, c) = {} /\ Cardinality(Places(s, c)) = 0 /\ \A k \in 1 .. Len(s) : s[k] # c
<1>1. \A k \in 1 .. Len(s) : s[k] # c
  BY DEF Clean, Dot, Dash, Slash
<1>. QED
  BY <1>1, FS_EmptySet DEF Places

\* A separator between two such texts.
Joined(u, s, c, t) ==
    /\ u \in Text /\ Len(u) = Len(s) + 1 + Len(t)
    /\ \A k \in 1 .. Len(s) : u[k] = s[k]
    /\ u[Len(s) + 1] = c
    /\ \A k \in 1 .. Len(t) : u[Len(s) + 1 + k] = t[k]

LEMMA JoinedIs ==
    ASSUME NEW s \in Text, NEW t \in Text, NEW c \in Int
    PROVE  /\ Joined(s \o <<c>> \o t, s, c, t)
           /\ \A d \in Int : t = <<d>> => Joined(s \o <<c, d>>, s, c, t)
<1>1. PICK m, n \in Nat : m = Len(s) /\ n = Len(t)
  BY DEF Text
<1>2. s \in Seq(Int) /\ t \in Seq(Int) /\ <<c>> \in Seq(Int) /\ Len(<<c>>) = 1 /\ <<c>>[1] = c
  BY DEF Text
<1>3. PICK h \in Seq(Int) : h = s \o <<c>>
  BY <1>2, ConcatProperties
<1>4. Len(h) = m + 1 /\ \A i \in 1 .. m + 1 : h[i] = IF i <= m THEN s[i] ELSE <<c>>[i - m]
  BY <1>1, <1>2, <1>3, ConcatProperties
<1>5. PICK u \in Seq(Int) : u = h \o t
  BY <1>2, <1>3, ConcatProperties
<1>6. /\ Len(u) = m + 1 + n
      /\ \A i \in 1 .. m + 1 + n : u[i] = IF i <= m + 1 THEN h[i] ELSE t[i - (m + 1)]
  BY <1>1, <1>2, <1>3, <1>4, <1>5, ConcatProperties
<1>7. \A k \in 1 .. m : u[k] = s[k]
  BY <1>4, <1>6
<1>8. u[m + 1] = c
  <2>1. m + 1 \in 1 .. m + 1 /\ ~(m + 1 <= m) /\ (m + 1) - m = 1
    OBVIOUS
  <2>2. h[m + 1] = c
    BY <1>2, <1>4, <2>1
  <2>3. m + 1 \in 1 .. m + 1 + n /\ m + 1 <= m + 1
    OBVIOUS
  <2>. QED
    BY <1>6, <2>2, <2>3
<1>9. ASSUME NEW k \in 1 .. n PROVE u[m + 1 + k] = t[k]
  <2>1. m + 1 + k \in 1 .. m + 1 + n /\ ~(m + 1 + k <= m + 1) /\ (m + 1 + k) - (m + 1) = k
    OBVIOUS
  <2>. QED
    BY <1>6, <2>1
<1>10. Joined(u, s, c, t)
  BY <1>1, <1>6, <1>7, <1>8, <1>9 DEF Joined, Text
<1>11. ASSUME NEW d \in Int, t = <<d>> PROVE s \o <<c, d>> = u
  <2>1. <<c, d>> \in Seq(Int) /\ Len(<<c, d>>) = 2 /\ <<c, d>>[1] = c /\ <<c, d>>[2] = d
    OBVIOUS
  <2>2. PICK w \in Seq(Int) : w = s \o <<c, d>>
    BY <1>2, <2>1, ConcatProperties
  <2>3. Len(w) = m + 2 /\ \A i \in 1 .. m + 2 : w[i] = IF i <= m THEN s[i] ELSE <<c, d>>[i - m]
    BY <1>1, <1>2, <2>1, <2>2, ConcatProperties
  <2>4. n = 1 /\ t[1] = d
    BY <1>1, <1>11
  <2>5. w[m + 1] = c /\ w[m + 2] = d
    <3>1. m + 1 \in 1 .. m + 2 /\ ~(m + 1 <= m) /\ (m + 1) - m = 1
      OBVIOUS
    <3>2. m + 2 \in 1 .. m + 2 /\ ~(m + 2 <= m) /\ (m + 2) - m = 2
      OBVIOUS
    <3>. QED
      BY <2>1, <2>3, <3>1, <3>2
  <2>6. u[m + 2] = d
    <3>1. 1 \in 1 .. n /\ m + 1 + 1 = m + 2
      BY <2>4
    <3>. QED
      BY <1>9, <2>4, <3>1
  <2>7. Len(w) = Len(u)
    BY <1>6, <2>3, <2>4
  <2>8. ASSUME NEW k \in 1 .. m + 2 PROVE w[k] = u[k]
    <3>1. k \in 1 .. m \/ k = m + 1 \/ k = m + 2
      OBVIOUS
    <3>2. CASE k \in 1 .. m
      <4>1. w[k] = s[k]
        BY <2>3, <3>2
      <4>. QED
        BY <1>7, <3>2, <4>1
    <3>3. CASE k = m + 1
      BY <1>8, <2>5, <3>3
    <3>4. CASE k = m + 2
      BY <2>5, <2>6, <3>4
    <3>. QED
      BY <3>1, <3>2, <3>3, <3>4
  <2>9. w = u
    BY <2>2, <2>3, <2>7, <2>8, SeqEqual
  <2>. QED
    BY <2>2, <2>9
<1>. QED
  BY <1>3, <1>5, <1>10, <1>11

LEMMA SeparatorFacts ==
    ASSUME NEW s \in Text, NEW t \in Text, Clean(s), Clean(t), NEW c \in {Dash, Slash},
           NEW u, Joined(u, s, c, t)
    PROVE  /\ \A x \in {Dash, Slash} \ {c} : Cardinality(Places(u, x)) = 0 /\ Places(u, x) = {}
           /\ Places(u, c) = {Len(s) + 1} /\ Cardinality(Places(u, c)) = 1
           /\ Before(u, Len(s) + 1) = s /\ After(u, Len(s) + 1) = t
<1>0. Len(s) \in Nat /\ Len(t) \in Nat
  BY DEF Text
<1>1. PICK m \in Nat, n \in Nat : m = Len(s) /\ n = Len(t)
  BY <1>0
<1>2. /\ u \in Text /\ Len(u) = m + 1 + n
      /\ \A k \in 1 .. m : u[k] = s[k]
      /\ u[m + 1] = c
      /\ \A k \in 1 .. n : u[m + 1 + k] = t[k]
  BY <1>1 DEF Joined
<1>3. ASSUME NEW k \in 1 .. m + 1 + n, NEW b \in {Dash, Slash}
      PROVE  u[k] = b <=> k = m + 1 /\ b = c
  <2>1. CASE k \in 1 .. m
    <3>1. u[k] # b
      BY <1>1, <1>2, <2>1, CleanFacts
    <3>. QED
      BY <2>1, <3>1
  <2>2. CASE k = m + 1
    BY <1>2, <2>2
  <2>3. CASE k \in m + 2 .. m + 1 + n
    <3>1. PICK j \in 1 .. n : k = m + 1 + j
      <4>1. k - (m + 1) \in 1 .. n /\ k = m + 1 + (k - (m + 1))
        BY <2>3
      <4>. QED
        BY <4>1
    <3>2. u[k] = t[j]
      BY <1>2, <3>1
    <3>3. u[k] # b
      BY <1>1, <3>2, CleanFacts
    <3>. QED
      BY <2>3, <3>3
  <2>. QED
    BY <2>1, <2>2, <2>3
<1>4. Places(u, c) = {m + 1}
  BY <1>2, <1>3 DEF Places
<1>5. \A x \in {Dash, Slash} \ {c} : Places(u, x) = {}
  BY <1>2, <1>3 DEF Places
<1>6. Before(u, m + 1) = s
  <2>1. PICK a, b \in Int : a = 1 /\ b = (m + 1) - 1 /\ b = m
    OBVIOUS
  <2>2. \A i \in a .. b : u[i] \in Int
    BY <1>2, <2>1 DEF Text
  <2>3. /\ SubSeq(u, a, b) \in Seq(Int)
        /\ Len(SubSeq(u, a, b)) = IF a <= b THEN b - a + 1 ELSE 0
        /\ \A i \in 1 .. b - a + 1 : SubSeq(u, a, b)[i] = u[a + i - 1]
    BY <2>2, SubSeqProperties
  <2>4. Len(SubSeq(u, a, b)) = m /\ b - a + 1 = m
    BY <2>1, <2>3
  <2>5. ASSUME NEW i \in 1 .. m PROVE SubSeq(u, a, b)[i] = s[i]
    <3>1. a + i - 1 = i
      BY <2>1
    <3>. QED
      BY <1>2, <2>3, <2>4, <3>1
  <2>6. SubSeq(u, a, b) = s
    <3>1. PICK w \in Seq(Int) : w = SubSeq(u, a, b)
      BY <2>3
    <3>. QED
      BY <1>1, <2>4, <2>5, <3>1, SeqEqual DEF Text
  <2>. QED
    BY <2>1, <2>6 DEF Before
<1>7. After(u, m + 1) = t
  <2>1. PICK a, b \in Int : a = (m + 1) + 1 /\ b = Len(u) /\ b = m + 1 + n
    BY <1>2
  <2>2. \A i \in a .. b : u[i] \in Int
    BY <1>2, <2>1 DEF Text
  <2>3. /\ SubSeq(u, a, b) \in Seq(Int)
        /\ Len(SubSeq(u, a, b)) = IF a <= b THEN b - a + 1 ELSE 0
        /\ \A i \in 1 .. b - a + 1 : SubSeq(u, a, b)[i] = u[a + i - 1]
    BY <2>2, SubSeqProperties
  <2>4. Len(SubSeq(u, a, b)) = n /\ b - a + 1 = n
    BY <2>1, <2>3
  <2>5. ASSUME NEW i \in 1 .. n PROVE SubSeq(u, a, b)[i] = t[i]
    <3>1. a + i - 1 = m + 1 + i
      BY <2>1
    <3>. QED
      BY <1>2, <2>3, <2>4, <3>1
  <2>6. SubSeq(u, a, b) = t
    <3>1. PICK w \in Seq(Int) : w = SubSeq(u, a, b)
      BY <2>3
    <3>. QED
      BY <1>1, <2>4, <2>5, <3>1, SeqEqual DEF Text
  <2>. QED
    BY <2>1, <2>6 DEF After
<1>8. Cardinality({m + 1}) = 1 /\ Cardinality({}) = 0
  BY FS_Singleton, FS_EmptySet
<1>9. \A x \in {Dash, Slash} \ {c} : Cardinality(Places(u, x)) = 0 /\ Places(u, x) = {}
  BY <1>5, <1>8
<1>10. Cardinality(Places(u, c)) = 1
  BY <1>4, <1>8
<1>11. Len(s) + 1 = m + 1
  BY <1>1
<1>12. /\ Places(u, c) = {Len(s) + 1} /\ Cardinality(Places(u, c)) = 1
       /\ Before(u, Len(s) + 1) = s /\ After(u, Len(s) + 1) = t
       /\ \A x \in {Dash, Slash} \ {c} : Cardinality(Places(u, x)) = 0 /\ Places(u, x) = {}
  BY <1>4, <1>6, <1>7, <1>9, <1>10, <1>11
<1>. QED
  BY <1>12

\* What a text of bytes is read as, and the texts that are read.
ByteAt(s, n, k) == IF k <= n THEN s[2 * k - 1] ELSE 0

LEMMA Ipv4OfBytes ==
    ASSUME NEW s \in Text, NEW n \in 1 .. 4, IsBytes(s, n), NEW d \in 0 .. 3, d + 1 <= n
    PROVE  /\ Ipv4ToI(s, d) = Address(ByteAt(s, n, 1), ByteAt(s, n, 2), ByteAt(s, n, 3), ByteAt(s, n, 4))
           /\ \A k \in 1 .. 4 : ByteAt(s, n, k) \in ByteValue
           /\ Ipv4ToI(s, d) \in Value /\ Ipv4ToI(s, d) # Invalid
<1>. DEFINE f == Fields(s)
            byte(k) == IF k <= Len(f) THEN Atoi3(f[k]) ELSE 0
<1>1. n \in Nat \ {0} /\ Numbered(s, n) /\ \A k \in 1 .. n : IsByte(s[2 * k - 1])
  BY DEF IsBytes
<1>2. Len(f) = n /\ DOMAIN f = 1 .. n /\ \A k \in 1 .. n : f[k] = <<s[2 * k - 1]>>
  BY <1>1, FieldsOfNumbers
<1>. HIDE DEF f
<1>3. Radix \in Nat /\ Radix <= 1000 /\ 0 \in ByteValue
  BY TextAssumption, Weights DEF ByteValue
<1>4. \A k \in 1 .. n : Atoi3(f[k]) = s[2 * k - 1] /\ s[2 * k - 1] \in ByteValue
  <2>. TAKE k \in 1 .. n
  <2>1. PICK x : x = s[2 * k - 1]
    OBVIOUS
  <2>2. f[k] = <<x>> /\ IsByte(x)
    BY <1>1, <1>2, <2>1
  <2>3. x \in 0 .. 999 /\ x \in ByteValue
    BY <1>3, <2>2 DEF IsByte, ByteValue
  <2>4. Atoi3(<<x>>) = x
    BY <2>3 DEF Atoi3
  <2>. QED
    BY <2>1, <2>2, <2>3, <2>4
<1>5. ASSUME NEW k \in 1 .. 4 PROVE byte(k) = ByteAt(s, n, k) /\ ByteAt(s, n, k) \in ByteValue
  BY <1>2, <1>3, <1>4 DEF ByteAt
<1>6. \A k \in 1 .. n : IsByte(byte(k))
  BY <1>5, SMTT(30) DEF IsByte, ByteValue
<1>7. s # <<>>
  <2>1. Len(s) = 2 * n - 1
    BY <1>1 DEF Numbered
  <2>. QED
    BY <2>1
<1>8. n \in d + 1 .. 4
  OBVIOUS
<1>9. Ipv4ToI(s, d) = IF s # <<>> /\ Len(f) \in d + 1 .. 4 /\ \A k \in DOMAIN f : IsByte(byte(k))
                        THEN Address(byte(1), byte(2), byte(3), byte(4)) ELSE Invalid
  BY DEF Ipv4ToI, f
<1>. HIDE DEF byte
<1>10. Ipv4ToI(s, d) = Address(byte(1), byte(2), byte(3), byte(4))
  BY <1>2, <1>6, <1>7, <1>8, <1>9
<1>11. /\ byte(1) = ByteAt(s, n, 1) /\ byte(2) = ByteAt(s, n, 2)
       /\ byte(3) = ByteAt(s, n, 3) /\ byte(4) = ByteAt(s, n, 4)
       /\ byte(1) \in ByteValue /\ byte(2) \in ByteValue /\ byte(3) \in ByteValue /\ byte(4) \in ByteValue
  BY <1>5
<1>12. Ipv4ToI(s, d) \in Value
  BY <1>10, <1>11, BytesOfAddress
<1>13. Invalid \notin Value
  BY DEF Invalid, Value
<1>. QED
  BY <1>5, <1>10, <1>11, <1>12, <1>13

LEMMA BytesOfIpv4 ==
    ASSUME NEW s \in Text, NEW d \in 0 .. 3, Ipv4ToI(s, d) # Invalid
    PROVE  \E n \in d + 1 .. 4 : IsBytes(s, n)
<1>. DEFINE f == Fields(s)
            byte(k) == IF k <= Len(f) THEN Atoi3(f[k]) ELSE 0
<1>1. Len(f) \in d + 1 .. 4 /\ \A k \in DOMAIN f : IsByte(byte(k))
  BY DEF Ipv4ToI
<1>2. PICK n \in d + 1 .. 4 : n = Len(f)
  BY <1>1
<1>3. DOMAIN f = 1 .. n
  BY <1>2, FieldsFacts
<1>. HIDE DEF f
<1>4. ASSUME NEW k \in 1 .. n PROVE Len(f[k]) = 1 /\ IsByte(f[k][1])
  <2>1. IsByte(Atoi3(f[k]))
    BY <1>1, <1>2, <1>3
  <2>2. Atoi3(f[k]) # Invalid
    BY <2>1 DEF IsByte, Invalid
  <2>. QED
    BY <2>1, <2>2, ZenonT(30) DEF Atoi3
<1>5. n \in 1 .. 4
  OBVIOUS
<1>6. /\ Len(s) = 2 * n - 1
      /\ \A k \in 1 .. n : f[k] = <<s[2 * k - 1]>>
      /\ \A k \in 1 .. n - 1 : s[2 * k] = Dot
  BY <1>2, <1>4, <1>5, NumbersOfFields DEF f
<1>7. \A k \in 1 .. n : IsByte(s[2 * k - 1])
  BY <1>4, <1>6
<1>8. \A k \in 1 .. n : s[2 * k - 1] # Dot
  BY <1>7 DEF IsByte, Dot
<1>9. IsBytes(s, n)
  BY <1>6, <1>7, <1>8 DEF IsBytes, Numbered
<1>. QED
  BY <1>9

LEMMA DottedFacts ==
    ASSUME NEW a \in Value
    PROVE  /\ Dotted(a) \in Text /\ Clean(Dotted(a)) /\ Len(Dotted(a)) = 7
           /\ \A k \in 1 .. 4 : Dotted(a)[2 * k - 1] = Byte(a, 4 - k)
           /\ IsBytes(Dotted(a), 4) /\ Ipv4ToI(Dotted(a), 3) = a
<1>1. PICK b3, b2, b1, b0 \in ByteValue :
        b3 = Byte(a, 3) /\ b2 = Byte(a, 2) /\ b1 = Byte(a, 1) /\ b0 = Byte(a, 0)
  BY AddressOfBytes
<1>2. Dotted(a) = <<b3, Dot, b2, Dot, b1, Dot, b0>>
  BY <1>1 DEF Dotted
<1>3. PICK s : s = <<b3, Dot, b2, Dot, b1, Dot, b0>>
  OBVIOUS
<1>4. /\ b3 \in Nat /\ b2 \in Nat /\ b1 \in Nat /\ b0 \in Nat
      /\ IsByte(b3) /\ IsByte(b2) /\ IsByte(b1) /\ IsByte(b0)
  BY Weights DEF ByteValue, IsByte
<1>5. s \in Text /\ Len(s) = 7
  BY <1>3, <1>4 DEF Text, Dot
<1>6. /\ s[1] = b3 /\ s[2] = Dot /\ s[3] = b2 /\ s[4] = Dot /\ s[5] = b1 /\ s[6] = Dot /\ s[7] = b0
  BY <1>3
<1>7. Clean(s)
  <2>1. \A k \in 1 .. 7 : k = 1 \/ k = 2 \/ k = 3 \/ k = 4 \/ k = 5 \/ k = 6 \/ k = 7
    OBVIOUS
  <2>2. b3 >= 0 /\ b2 >= 0 /\ b1 >= 0 /\ b0 >= 0
    BY <1>4
  <2>. QED
    BY <1>5, <1>6, <2>1, <2>2 DEF Clean
<1>8. \A k \in 1 .. 4 : k = 1 \/ k = 2 \/ k = 3 \/ k = 4
  OBVIOUS
<1>9. /\ 2 * 1 - 1 = 1 /\ 2 * 2 - 1 = 3 /\ 2 * 3 - 1 = 5 /\ 2 * 4 - 1 = 7
      /\ 4 - 1 = 3 /\ 4 - 2 = 2 /\ 4 - 3 = 1 /\ 4 - 4 = 0 /\ 2 * 1 = 2 /\ 2 * 2 = 4 /\ 2 * 3 = 6
  OBVIOUS
<1>10. \A k \in 1 .. 4 : s[2 * k - 1] = Byte(a, 4 - k)
  BY <1>1, <1>6, <1>8, <1>9
<1>11. \A k \in 1 .. 4 : IsByte(s[2 * k - 1])
  BY <1>4, <1>6, <1>8, <1>9
<1>12. \A k \in 1 .. 4 : s[2 * k - 1] # Dot
  BY <1>11 DEF IsByte, Dot
<1>13. \A k \in 1 .. 4 - 1 : s[2 * k] = Dot
  <2>1. \A k \in 1 .. 4 - 1 : k = 1 \/ k = 2 \/ k = 3
    OBVIOUS
  <2>. QED
    BY <1>6, <1>9, <2>1
<1>14. IsBytes(s, 4)
  <2>1. Len(s) = 2 * 4 - 1
    BY <1>5
  <2>. QED
    BY <1>11, <1>12, <1>13, <2>1 DEF IsBytes, Numbered
<1>15. Ipv4ToI(s, 3) = Address(ByteAt(s, 4, 1), ByteAt(s, 4, 2), ByteAt(s, 4, 3), ByteAt(s, 4, 4))
  <2>1. 4 \in 1 .. 4 /\ 3 \in 0 .. 3 /\ 3 + 1 <= 4
    OBVIOUS
  <2>. QED
    BY <1>5, <1>14, <2>1, Ipv4OfBytes
<1>16. ByteAt(s, 4, 1) = b3 /\ ByteAt(s, 4, 2) = b2 /\ ByteAt(s, 4, 3) = b1 /\ ByteAt(s, 4, 4) = b0
  BY <1>6 DEF ByteAt
<1>17. Ipv4ToI(s, 3) = a
  BY <1>1, <1>15, <1>16, AddressOfBytes
<1>. QED
  BY <1>2, <1>3, <1>5, <1>7, <1>10, <1>14, <1>17

------------------------------------------------------------------------------
(* What the documented forms are read as. *)

Met(text, means) ==
    /\ text \in Text /\ Parsed(text).outcome = "read"
    /\ Covered(Intervals(Parsed(text).ranges)) = means \ {Word - 1}

LEMMA MetIs ==
    ASSUME NEW text \in Text, NEW ranges, Parsed(text) = Reads(ranges), AreRanges(ranges),
           NEW means \in SUBSET Value, \A v \in Value : InRanges(ranges, v) <=> v \in means
    PROVE  Met(text, means)
<1>1. Parsed(text).outcome = "read" /\ Parsed(text).ranges = ranges
  BY ReadsFacts
<1>2. Covered(Intervals(ranges)) = {v \in Value : v # Word - 1 /\ InRanges(ranges, v)}
  BY IntervalsFacts
<1>3. {v \in Value : v # Word - 1 /\ InRanges(ranges, v)} = means \ {Word - 1}
  <2>1. PICK X : X = Value
    OBVIOUS
  <2>. QED
    BY <2>1
<1>. QED
  BY <1>1, <1>2, <1>3 DEF Met

\* A range of addresses between two that are in either order.
LEMMA OneIsMet ==
    ASSUME NEW text \in Text, NEW a \in Value, NEW b \in Value, a <= b, Parsed(text) = Reads({<<a, b>>}),
           NEW means, means = a .. b
    PROVE  Met(text, means)
<1>1. means \in SUBSET Value
  BY WordAssumption DEF Value
<1>2. PICK R : R = {<<a, b>>}
  OBVIOUS
<1>3. AreRanges(R) /\ \A v \in Value : InRanges(R, v) <=> v \in means
  BY <1>2, OneRange
<1>. QED
  BY <1>1, <1>2, <1>3, MetIs

LEMMA SingleIsMet ==
    ASSUME NEW a \in Value
    PROVE  Met(SingleAddress(a).text, SingleAddress(a).means)
<1>1. PICK s \in Text : s = Dotted(a) /\ Clean(s) /\ Ipv4ToI(s, 3) = a
  BY DottedFacts
<1>2. Parsed(s) = ParsedAddress(s)
  BY <1>1, CleanFacts DEF Parsed
<1>3. a # Invalid /\ a <= a
  BY WordAssumption DEF Invalid, Value
<1>4. ParsedAddress(s) = Reads({<<a, a>>})
  BY <1>1, <1>3 DEF ParsedAddress
<1>5. {a} = a .. a
  BY WordAssumption DEF Value
<1>6. Met(s, {a})
  BY <1>2, <1>3, <1>4, <1>5, OneIsMet
<1>. QED
  BY <1>1, <1>6 DEF SingleAddress, Written

LEMMA SpanIsRead ==
    ASSUME NEW s \in Text, NEW t \in Text, Clean(s), Clean(t), NEW u, Joined(u, s, Dash, t),
           NEW a \in Value, Ipv4ToI(s, 3) = a, NEW b \in Value,
           \/ Ipv4ToI(t, 3) = b
           \/ Ipv4ToI(t, 3) = Invalid /\ IsByte(Atoi3(t)) /\ b = a - (a % Radix) + Atoi3(t)
    PROVE  u \in Text /\ Parsed(u) = Reads({<<Least(a, b), Greatest(a, b)>>})
<1>1. u \in Text
  BY DEF Joined
<1>2. /\ Places(u, Dash) = {Len(s) + 1} /\ Cardinality(Places(u, Dash)) = 1
      /\ Before(u, Len(s) + 1) = s /\ After(u, Len(s) + 1) = t
      /\ Cardinality(Places(u, Slash)) = 0
  <2>1. Dash \in {Dash, Slash} /\ Slash \in {Dash, Slash} \ {Dash}
    BY DEF Dash, Slash
  <2>. QED
    BY <2>1, SeparatorFacts
<1>3. Parsed(u) = ParsedSpan(u)
  BY <1>2 DEF Parsed
<1>4. PICK sep : sep = CHOOSE k \in Places(u, Dash) : TRUE
  OBVIOUS
<1>5. Before(u, sep) = s /\ After(u, sep) = t
  <2>1. sep = Len(s) + 1
    BY <1>2, <1>4
  <2>. QED
    BY <1>2, <2>1
<1>6. a # Invalid /\ b # Invalid
  BY DEF Invalid, Value
<1>7. (IF Ipv4ToI(t, 3) # Invalid THEN Ipv4ToI(t, 3)
       ELSE IF IsByte(Atoi3(t)) THEN a - (a % Radix) + Atoi3(t)
       ELSE Invalid) = b
  BY <1>6
<1>8. ParsedSpan(u) = Reads({<<Least(a, b), Greatest(a, b)>>})
  <2>. DEFINE x == Ipv4ToI(Before(u, sep), 3)
              whole == Ipv4ToI(After(u, sep), 3)
              last == Atoi3(After(u, sep))
              y == IF whole # Invalid THEN whole
                   ELSE IF IsByte(last) THEN x - (x % Radix) + last
                   ELSE Invalid
  <2>1. ParsedSpan(u) = IF x = Invalid \/ y = Invalid THEN Refused
                        ELSE Reads({<<Least(x, y), Greatest(x, y)>>})
    BY <1>4 DEF ParsedSpan
  <2>2. x = a
    BY <1>5
  <2>3. y = b
    BY <1>5, <1>7, <2>2
  <2>. HIDE DEF x, y
  <2>. QED
    BY <1>6, <2>1, <2>2, <2>3
<1>. QED
  BY <1>1, <1>3, <1>8

LEMMA SpanIsMet ==
    ASSUME NEW a \in Value, NEW b \in Value
    PROVE  Met(Span(a, b).text, Span(a, b).means)
<1>1. PICK s \in Text : s = Dotted(a) /\ Clean(s) /\ Ipv4ToI(s, 3) = a
  BY DottedFacts
<1>2. PICK t \in Text : t = Dotted(b) /\ Clean(t) /\ Ipv4ToI(t, 3) = b
  BY DottedFacts
<1>3. PICK u : u = s \o <<Dash>> \o t
  OBVIOUS
<1>4. Joined(u, s, Dash, t)
  BY <1>3, JoinedIs DEF Dash
<1>5. u \in Text /\ Parsed(u) = Reads({<<Least(a, b), Greatest(a, b)>>})
  BY <1>1, <1>2, <1>4, SpanIsRead
<1>6. Met(u, Least(a, b) .. Greatest(a, b))
  BY <1>5, LeastGreatest, OneIsMet
<1>. QED
  BY <1>1, <1>2, <1>3, <1>6 DEF Span, Written

LEMMA LastByteIsMet ==
    ASSUME NEW a \in Value, NEW n \in ByteValue
    PROVE  Met(LastByteSpan(a, n).text, LastByteSpan(a, n).means)
<1>1. PICK s \in Text : s = Dotted(a) /\ Clean(s) /\ Ipv4ToI(s, 3) = a
  BY DottedFacts
<1>2. n \in Nat /\ n <= 999 /\ IsByte(n)
  BY Weights, TextAssumption DEF ByteValue, IsByte
<1>3. PICK t \in Text : t = <<n>>
  <2>1. n \in Int
    BY <1>2
  <2>2. <<n>> \in Seq(Int)
    BY <2>1
  <2>. QED
    BY <2>2 DEF Text
<1>4. Len(t) = 1 /\ t[1] = n
  BY <1>3
<1>5. Clean(t)
  BY <1>2, <1>4 DEF Clean
<1>6. Atoi3(t) = n
  BY <1>2, <1>4 DEF Atoi3
<1>7. Ipv4ToI(t, 3) = Invalid
  <2>. SUFFICES ASSUME Ipv4ToI(t, 3) # Invalid PROVE FALSE
    OBVIOUS
  <2>1. PICK m \in 3 + 1 .. 4 : IsBytes(t, m)
    BY BytesOfIpv4
  <2>2. Len(t) = 2 * m - 1
    BY <2>1 DEF IsBytes, Numbered
  <2>3. m = 4
    OBVIOUS
  <2>. QED
    BY <1>4, <2>2, <2>3
<1>8. PICK b \in Value : b = a - (a % Radix) + n
  BY LastByteReplaced
<1>9. a - Byte(a, 0) + n = b
  BY <1>8, LastByteReplaced
<1>10. PICK u : u = s \o <<Dash, n>>
  OBVIOUS
<1>11. Joined(u, s, Dash, t)
  <2>1. Dash \in Int /\ n \in Int
    BY <1>2 DEF Dash
  <2>. QED
    BY <1>3, <1>10, <2>1, JoinedIs
<1>12. u \in Text /\ Parsed(u) = Reads({<<Least(a, b), Greatest(a, b)>>})
  BY <1>1, <1>2, <1>5, <1>6, <1>7, <1>8, <1>11, SpanIsRead
<1>13. Met(u, Least(a, b) .. Greatest(a, b))
  BY <1>12, LeastGreatest, OneIsMet
<1>. QED
  BY <1>1, <1>9, <1>10, <1>13 DEF LastByteSpan, Written

\* The first bytes of an address.
LEMMA Truncated ==
    ASSUME NEW w \in Nat \ {0}, NEW m \in Nat, NEW r \in Nat, r < w
    PROVE  ((w * m) + r) - (((w * m) + r) % w) = w * m
<1>1. PICK x \in Nat, a \in Nat : x = w * m /\ a = x + r
  OBVIOUS
<1>2. w * m <= a /\ a < w * (m + 1)
  BY <1>1
<1>3. a \div w = m
  BY <1>2, DivUnique
<1>4. a = (w * (a \div w)) + (a % w) /\ a % w \in 0 .. w - 1
  BY DivFacts
<1>5. a = x + (a % w)
  BY <1>1, <1>3, <1>4
<1>6. a - (a % w) = x
  BY <1>4, <1>5
<1>. QED
  BY <1>1, <1>6

LEMMA FirstBytes ==
    ASSUME NEW a \in Value
    PROVE  /\ a - (a % Weight(0)) = a
           /\ a - (a % Weight(1)) = Address(Byte(a, 3), Byte(a, 2), Byte(a, 1), 0)
           /\ a - (a % Weight(2)) = Address(Byte(a, 3), Byte(a, 2), 0, 0)
           /\ a - (a % Weight(3)) = Address(Byte(a, 3), 0, 0, 0)
<1>1. PICK b3, b2, b1, b0 \in ByteValue :
        /\ b3 = Byte(a, 3) /\ b2 = Byte(a, 2) /\ b1 = Byte(a, 1) /\ b0 = Byte(a, 0)
        /\ a = Address(b3, b2, b1, b0)
  BY AddressOfBytes
<1>2. PICK R \in Nat \ {0} : R = Radix
  BY Weights
<1>3. PICK S \in Nat \ {0} : S = R * R
  OBVIOUS
<1>4. PICK T \in Nat \ {0} : T = R * S
  OBVIOUS
<1>5. T = S * R /\ R * R * R = T
  BY <1>3, <1>4
<1>6. Weight(0) = 1 /\ Weight(1) = R /\ Weight(2) = S /\ Weight(3) = T
  BY <1>2, <1>3, <1>5, Weights
<1>7. b3 \in 0 .. R - 1 /\ b2 \in 0 .. R - 1 /\ b1 \in 0 .. R - 1 /\ b0 \in 0 .. R - 1
  BY <1>2 DEF ByteValue
<1>8. \A x, y, z, t : Address(x, y, z, t) = (x * T) + (y * S) + (z * R) + t
  BY <1>6 DEF Address
<1>9. PICK X, Y, Z \in Nat : X = b3 * T /\ Y = b2 * S /\ Z = b1 * R
  BY <1>7
<1>10. Z + b0 < S
  <2>1. PICK d \in Nat : R = b1 + 1 + d
    BY <1>7
  <2>2. R * R = (b1 * R) + R + (d * R) /\ d * R \in Nat
    BY <1>7, <2>1
  <2>. QED
    BY <1>3, <1>7, <1>9, <2>2
<1>11. Y + Z + b0 < T
  <2>1. PICK d \in Nat : R = b2 + 1 + d
    BY <1>7
  <2>2. R * S = (b2 * S) + S + (d * S) /\ d * S \in Nat
    BY <1>7, <2>1
  <2>. QED
    BY <1>4, <1>7, <1>9, <1>10, <2>2
<1>12. a = X + Y + Z + b0
  BY <1>1, <1>8, <1>9
<1>13. a - (a % 1) = a
  BY <1>7, <1>12
<1>14. a - (a % R) = X + Y + Z
  <2>1. PICK m \in Nat : m = (b3 * S) + (b2 * R) + b1
    BY <1>7
  <2>2. R * m = X + Y + Z
    <3>1. b3 * T = R * (b3 * S) /\ b2 * S = R * (b2 * R) /\ b1 * R = R * b1
      BY <1>3, <1>4, <1>7
    <3>2. PICK p, q \in Nat : p = b3 * S /\ q = b2 * R
      BY <1>7
    <3>3. R * m = (R * p) + (R * q) + (R * b1)
      BY <1>7, <2>1, <3>2
    <3>. QED
      BY <1>9, <3>1, <3>2, <3>3
  <2>3. PICK r \in Nat : r = b0 /\ r < R
    BY <1>7
  <2>4. PICK x \in Nat : x = R * m
    OBVIOUS
  <2>5. ((R * m) + r) - (((R * m) + r) % R) = R * m
    BY <2>3, Truncated
  <2>6. a = x + r /\ x = X + Y + Z
    BY <1>7, <1>12, <2>2, <2>3, <2>4
  <2>7. (x + r) - ((x + r) % R) = x
    BY <2>4, <2>5
  <2>8. a = x + r
    BY <2>6
  <2>9. a - (a % R) = x
    BY <2>7, <2>8, Zenon
  <2>. QED
    BY <2>6, <2>9
<1>15. a - (a % S) = X + Y
  <2>1. PICK m \in Nat : m = (b3 * R) + b2
    BY <1>7
  <2>2. S * m = X + Y
    <3>1. b3 * T = S * (b3 * R) /\ b2 * S = S * b2
      BY <1>4, <1>7
    <3>2. PICK p \in Nat : p = b3 * R
      BY <1>7
    <3>3. S * m = (S * p) + (S * b2)
      BY <1>7, <2>1, <3>2
    <3>. QED
      BY <1>9, <3>1, <3>2, <3>3
  <2>3. PICK r \in Nat : r = Z + b0
    BY <1>7
  <2>4. ((S * m) + r) - (((S * m) + r) % S) = S * m
    BY <1>10, <2>3, Truncated
  <2>5. PICK x \in Nat : x = S * m
    OBVIOUS
  <2>6. a = x + r /\ x = X + Y
    BY <1>7, <1>12, <2>2, <2>3, <2>5
  <2>7. (x + r) - ((x + r) % S) = x
    BY <2>4, <2>5
  <2>. QED
    BY <2>6, <2>7
<1>16. a - (a % T) = X
  <2>1. T * b3 = X
    BY <1>7, <1>9
  <2>2. PICK r \in Nat : r = Y + Z + b0
    BY <1>7
  <2>3. r < T
    BY <1>7, <1>11, <2>2
  <2>4. PICK q \in Nat : q = b3
    BY <1>7
  <2>5. ((T * q) + r) - (((T * q) + r) % T) = T * q
    BY <2>3, Truncated
  <2>6. (X + r) - ((X + r) % T) = X
    BY <2>1, <2>4, <2>5
  <2>7. a = X + r
    BY <1>7, <1>12, <2>2
  <2>. QED
    BY <2>6, <2>7
<1>17. /\ Address(b3, b2, b1, 0) = X + Y + Z /\ Address(b3, b2, 0, 0) = X + Y
       /\ Address(b3, 0, 0, 0) = X
  <2>1. 0 * S = 0 /\ 0 * R = 0
    OBVIOUS
  <2>. QED
    BY <1>8, <1>9, <2>1
<1>. QED
  BY <1>1, <1>6, <1>13, <1>14, <1>15, <1>16, <1>17

LEMMA TokensAreIntegers ==
    ASSUME NEW s \in Text
    PROVE  Len(s) \in Nat /\ \A k \in 1 .. Len(s) : s[k] \in Int
  BY DEF Text

LEMMA FirstBytesText ==
    ASSUME NEW a \in Value, NEW n \in 1 .. 4
    PROVE  LET s == SubSeq(Dotted(a), 1, 2 * n - 1)
           IN  /\ s \in Text /\ Clean(s) /\ IsBytes(s, n)
               /\ Ipv4ToI(s, 0) = a - (a % Weight(4 - n))
<1>1. PICK t \in Text : t = Dotted(a) /\ Clean(t) /\ Len(t) = 7 /\ IsBytes(t, 4)
                        /\ \A k \in 1 .. 4 : t[2 * k - 1] = Byte(a, 4 - k)
  BY DottedFacts
<1>2. PICK m \in 1 .. 7 : m = 2 * n - 1
  OBVIOUS
<1>3. PICK s : s = SubSeq(t, 1, m)
  OBVIOUS
<1>4. s \in Text /\ Len(s) = m /\ \A k \in 1 .. m : s[k] = t[k]
  <2>0. t \in Seq(Int) /\ Len(t) = 7
    BY <1>1 DEF Text
  <2>1. \A i \in 1 .. m : t[i] \in Int
    <3>1. \A i \in 1 .. Len(t) : t[i] \in Int
      BY <1>1, TokensAreIntegers
    <3>2. m <= Len(t)
      BY <1>2, <2>0
    <3>. QED
      BY <1>2, <2>0, <3>1, <3>2
  <2>2. 1 \in Int /\ m \in Int
    OBVIOUS
  <2>3. /\ s \in Seq(Int) /\ Len(s) = IF 1 <= m THEN m - 1 + 1 ELSE 0
        /\ \A i \in 1 .. m - 1 + 1 : s[i] = t[1 + i - 1]
    BY <1>3, <2>1, <2>2, SubSeqProperties
  <2>4. (IF 1 <= m THEN m - 1 + 1 ELSE 0) = m /\ m - 1 + 1 = m
    OBVIOUS
  <2>5. \A i \in 1 .. m : 1 + i - 1 = i
    OBVIOUS
  <2>. QED
    BY <2>3, <2>4, <2>5 DEF Text
<1>5. Clean(s)
  BY <1>1, <1>4 DEF Clean
<1>6. \A k \in 1 .. n : 2 * k - 1 \in 1 .. m /\ k \in 1 .. 4
  BY <1>2
<1>7. IsBytes(s, n)
  <2>1. /\ \A k \in 1 .. 4 : t[2 * k - 1] # Dot /\ IsByte(t[2 * k - 1])
        /\ \A k \in 1 .. 4 - 1 : t[2 * k] = Dot
    BY <1>1 DEF IsBytes, Numbered
  <2>2. \A k \in 1 .. n : s[2 * k - 1] = t[2 * k - 1]
    BY <1>4, <1>6
  <2>3. \A k \in 1 .. n - 1 : 2 * k \in 1 .. m /\ k \in 1 .. 4 - 1
    BY <1>2
  <2>4. \A k \in 1 .. n - 1 : s[2 * k] = t[2 * k]
    BY <1>4, <2>3
  <2>5. Len(s) = 2 * n - 1
    BY <1>2, <1>4
  <2>6. \A k \in 1 .. n : s[2 * k - 1] # Dot /\ IsByte(s[2 * k - 1])
    BY <1>6, <2>1, <2>2
  <2>7. \A k \in 1 .. n - 1 : s[2 * k] = Dot
    BY <2>1, <2>3, <2>4
  <2>. QED
    BY <2>5, <2>6, <2>7 DEF IsBytes, Numbered
<1>8. Ipv4ToI(s, 0) = Address(ByteAt(s, n, 1), ByteAt(s, n, 2), ByteAt(s, n, 3), ByteAt(s, n, 4))
  <2>1. 0 \in 0 .. 3 /\ 0 + 1 <= n
    OBVIOUS
  <2>. QED
    BY <1>4, <1>7, <2>1, Ipv4OfBytes
<1>9. \A k \in 1 .. 4 : ByteAt(s, n, k) = IF k <= n THEN Byte(a, 4 - k) ELSE 0
  <2>1. \A k \in 1 .. n : s[2 * k - 1] = Byte(a, 4 - k)
    BY <1>1, <1>4, <1>6
  <2>. QED
    BY <2>1 DEF ByteAt
<1>10. /\ ByteAt(s, n, 1) = Byte(a, 3)
       /\ ByteAt(s, n, 2) = IF 2 <= n THEN Byte(a, 2) ELSE 0
       /\ ByteAt(s, n, 3) = IF 3 <= n THEN Byte(a, 1) ELSE 0
       /\ ByteAt(s, n, 4) = IF 4 <= n THEN Byte(a, 0) ELSE 0
  <2>1. 4 - 1 = 3 /\ 4 - 2 = 2 /\ 4 - 3 = 1 /\ 4 - 4 = 0 /\ 1 <= n
    OBVIOUS
  <2>2. 1 \in 1 .. 4 /\ 2 \in 1 .. 4 /\ 3 \in 1 .. 4 /\ 4 \in 1 .. 4
    OBVIOUS
  <2>. QED
    BY <1>9, <2>1, <2>2
<1>11. Ipv4ToI(s, 0) = a - (a % Weight(4 - n))
  <2>1. CASE n = 1
    BY <1>8, <1>10, <2>1, FirstBytes
  <2>2. CASE n = 2
    BY <1>8, <1>10, <2>2, FirstBytes
  <2>3. CASE n = 3
    BY <1>8, <1>10, <2>3, FirstBytes
  <2>4. CASE n = 4
    <3>1. Address(Byte(a, 3), Byte(a, 2), Byte(a, 1), Byte(a, 0)) = a
      BY AddressOfBytes
    <3>. QED
      BY <1>8, <1>10, <2>4, <3>1, FirstBytes
  <2>. QED
    BY <2>1, <2>2, <2>3, <2>4
<1>. QED
  BY <1>1, <1>2, <1>3, <1>4, <1>5, <1>7, <1>11

LEMMA SameQuotient ==
    ASSUME NEW v \in Nat, NEW x \in Nat, NEW block \in Nat \ {0}
    PROVE  v \div block = x \div block <=>
             x - (x % block) <= v /\ v <= (x - (x % block)) + (block - 1)
<1>1. PICK q \in Nat, r \in 0 .. block - 1 : q = x \div block /\ r = x % block /\ x = (block * q) + r
  BY DivFacts
<1>2. PICK f \in Nat : f = block * q
  OBVIOUS
<1>3. x - (x % block) = f
  BY <1>1, <1>2
<1>4. ASSUME f <= v, v <= f + (block - 1) PROVE v \div block = q
  <2>1. block * q <= v /\ v < block * (q + 1)
    BY <1>2, <1>4
  <2>. QED
    BY <2>1, DivUnique
<1>5. ASSUME v \div block = q PROVE f <= v /\ v <= f + (block - 1)
  <2>1. PICK s \in 0 .. block - 1 : v = (block * (v \div block)) + s
    BY DivFacts
  <2>2. v = f + s
    BY <1>2, <1>5, <2>1
  <2>. QED
    BY <2>2
<1>. QED
  BY <1>1, <1>3, <1>4, <1>5

\* A text and a prefix after it.
LEMMA PrefixIsRead ==
    ASSUME NEW s \in Text, Clean(s), NEW shown \in Value, Ipv4ToI(s, 0) = shown,
           NEW p \in 0 .. 4 * Bits, NEW block, block = 2 ^ (4 * Bits - p)
    PROVE  /\ s \o <<Slash, p>> \in Text
           /\ Parsed(s \o <<Slash, p>>) =
                Reads({<<shown - (shown % block), shown - (shown % block) + block - 1>>})
<1>1. shown # Invalid
  BY DEF Invalid, Value
<1>2. p \in Nat /\ ~(p > 4 * Bits)
  <2>1. PICK b \in Nat : b = Bits
    BY TextAssumption
  <2>. QED
    BY <2>1
<1>3. PICK t \in Text : t = <<p>>
  <2>1. p \in Int
    BY <1>2
  <2>2. <<p>> \in Seq(Int)
    BY <2>1
  <2>. QED
    BY <2>2 DEF Text
<1>4. Len(t) = 1 /\ t[1] = p /\ t # <<>>
  BY <1>3
<1>5. Clean(t)
  BY <1>2, <1>4 DEF Clean
<1>6. PICK u : u = s \o <<Slash, p>>
  OBVIOUS
<1>7. Joined(u, s, Slash, t)
  <2>1. Slash \in Int /\ p \in Int
    BY <1>2 DEF Slash
  <2>. QED
    BY <1>3, <1>6, <2>1, JoinedIs
<1>8. /\ Places(u, Slash) = {Len(s) + 1} /\ Cardinality(Places(u, Slash)) = 1
       /\ Before(u, Len(s) + 1) = s /\ After(u, Len(s) + 1) = t
       /\ Cardinality(Places(u, Dash)) = 0
  <2>1. Slash \in {Dash, Slash} /\ Dash \in {Dash, Slash} \ {Slash}
    BY DEF Dash, Slash
  <2>2. /\ Places(u, Slash) = {Len(s) + 1} /\ Cardinality(Places(u, Slash)) = 1
        /\ Before(u, Len(s) + 1) = s /\ After(u, Len(s) + 1) = t
        /\ \A x \in {Dash, Slash} \ {Slash} : Cardinality(Places(u, x)) = 0
    BY <1>5, <1>7, <2>1, SeparatorFacts
  <2>. QED
    BY <2>1, <2>2
<1>9. Parsed(u) = ParsedPrefix(u)
  BY <1>8 DEF Parsed
<1>10. PICK slash : slash = CHOOSE k \in Places(u, Slash) : TRUE
  OBVIOUS
<1>11. Before(u, slash) = s /\ After(u, slash) = t
  <2>1. slash = Len(s) + 1
    BY <1>8, <1>10
  <2>. QED
    BY <1>8, <2>1
<1>12. PICK first, end : first = shown - (shown % block) /\ end = shown - (shown % block) + block - 1
  OBVIOUS
<1>13. ParsedPrefix(u) = Reads({<<first, end>>})
  <2>. DEFINE ip == Ipv4ToI(Before(u, slash), 0)
              tail == After(u, slash)
              cidr == IF tail # <<>> /\ tail[1] >= 0 THEN tail[1] ELSE 0
              size == 2 ^ (4 * Bits - cidr)
  <2>1. ParsedPrefix(u) = IF ip = Invalid THEN Refused
          ELSE IF cidr > 4 * Bits THEN Undefined
          ELSE Reads({<<ip - (ip % size), ip - (ip % size) + size - 1>>})
    BY <1>10 DEF ParsedPrefix
  <2>2. ip = shown
    BY <1>11
  <2>3. cidr = p
    BY <1>2, <1>4, <1>11
  <2>. HIDE DEF ip, cidr
  <2>4. size = block
    BY <2>3
  <2>. HIDE DEF size
  <2>5. ParsedPrefix(u) = Reads({<<ip - (ip % size), ip - (ip % size) + size - 1>>})
    BY <1>1, <1>2, <2>1, <2>2, <2>3
  <2>. QED
    BY <1>12, <2>2, <2>4, <2>5
<1>14. u \in Text
  BY <1>7 DEF Joined
<1>. QED
  BY <1>6, <1>9, <1>12, <1>13, <1>14

LEMMA CidrIsMet ==
    ASSUME NEW a \in Value, NEW n \in 1 .. 4, NEW p \in 0 .. 4 * Bits
    PROVE  Met(Cidr(a, n, p).text, Cidr(a, n, p).means)
<1>1. PICK shown : shown = a - (a % Weight(4 - n))
  OBVIOUS
<1>2. PICK s \in Text : s = SubSeq(Dotted(a), 1, 2 * n - 1) /\ Clean(s) /\ IsBytes(s, n)
                        /\ Ipv4ToI(s, 0) = shown
  BY <1>1, FirstBytesText
<1>3. shown \in Value
  <2>1. 0 \in 0 .. 3 /\ 0 + 1 <= n
    OBVIOUS
  <2>. QED
    BY <1>2, <2>1, Ipv4OfBytes
<1>4. PICK block \in Nat \ {0} : block = 2 ^ (4 * Bits - p)
  BY BlockFits, <1>3
<1>5. PICK first \in Value, end \in Value :
         /\ first = shown - (shown % block) /\ end = shown - (shown % block) + block - 1
         /\ first <= end
  BY BlockFits, <1>3, <1>4
<1>6. PICK u : u = s \o <<Slash, p>>
  OBVIOUS
<1>7. u \in Text /\ Parsed(u) = Reads({<<first, end>>})
  <2>1. /\ s \o <<Slash, p>> \in Text
        /\ Parsed(s \o <<Slash, p>>) =
             Reads({<<shown - (shown % block), shown - (shown % block) + block - 1>>})
    BY <1>2, <1>3, <1>4, PrefixIsRead
  <2>. QED
    BY <1>5, <1>6, <2>1
<1>8. PICK means : means = {v \in Value : v \div block = shown \div block}
  OBVIOUS
<1>9. means = first .. end
  <2>1. first \in Nat /\ end \in Nat /\ shown \in Nat /\ \A v \in Value : v \in Nat
    BY <1>3, <1>5, WordAssumption DEF Value
  <2>2. PICK r \in Nat : r = shown % block
    <3>1. shown % block \in 0 .. block - 1
      BY <1>4, <2>1, DivFacts
    <3>. QED
      BY <3>1
  <2>3. end = (shown - (shown % block)) + (block - 1)
    BY <1>4, <1>5, <2>1, <2>2
  <2>4. ASSUME NEW v \in Value
        PROVE  v \div block = shown \div block <=> first <= v /\ v <= end
    <3>1. v \in Nat
      BY <2>1
    <3>2. v \div block = shown \div block <=>
            shown - (shown % block) <= v /\ v <= (shown - (shown % block)) + (block - 1)
      BY <1>4, <2>1, <3>1, SameQuotient, ZenonT(30)
    <3>. QED
      BY <1>5, <2>3, <3>2
  <2>5. \A v \in first .. end : v \in Value
    BY <1>5, WordAssumption DEF Value
  <2>6. \A v \in Value : v \in first .. end <=> first <= v /\ v <= end
    BY <2>1
  <2>7. \A v : v \in means <=> v \in first .. end
    BY <1>8, <2>4, <2>5, <2>6
  <2>. QED
    BY <2>7
<1>10. Met(u, means)
  BY <1>5, <1>7, <1>9, OneIsMet
<1>. QED
  BY <1>1, <1>2, <1>4, <1>6, <1>8, <1>10 DEF Cidr, Written

\* The fields of a text and of a longer one that has one more.
LEMMA NoDot ==
    ASSUME NEW s \in Text, \A k \in 1 .. Len(s) : s[k] # Dot
    PROVE  DotsAt(s, <<>>, 0) /\ Len(Fields(s)) = 1 /\ Fields(s)[1] = s
<1>1. DotsAt(s, <<>>, 0)
  BY DEF DotsAt
<1>2. PICK d : d = <<>>
  OBVIOUS
<1>3. /\ Fields(s) = [k \in 1 .. 0 + 1 |-> SubSeq(s, CutAt(d, 0, Len(s), k) + 1,
                                                  CutAt(d, 0, Len(s), k + 1) - 1)]
      /\ Len(Fields(s)) = 0 + 1
  <2>1. PICK n \in Nat : n = 0
    OBVIOUS
  <2>2. DotsAt(s, d, n)
    BY <1>1, <1>2, <2>1
  <2>3. /\ Fields(s) = [k \in 1 .. n + 1 |-> SubSeq(s, CutAt(d, n, Len(s), k) + 1,
                                                    CutAt(d, n, Len(s), k + 1) - 1)]
        /\ Len(Fields(s)) = n + 1
    BY <2>2, FieldsOf
  <2>. QED
    BY <2>1, <2>3, Zenon
<1>4. Len(s) \in Nat
  BY TokensAreIntegers
<1>5. CutAt(d, 0, Len(s), 1) + 1 = 1 /\ CutAt(d, 0, Len(s), 1 + 1) - 1 = Len(s)
  BY <1>4 DEF CutAt
<1>6. Fields(s)[1] = SubSeq(s, 1, Len(s))
  <2>1. 1 \in 1 .. 0 + 1
    OBVIOUS
  <2>. QED
    BY <1>3, <1>5, <2>1
<1>7. SubSeq(s, 1, Len(s)) = s
  BY SubSeqFull DEF Text
<1>8. Len(Fields(s)) = 1
  BY <1>3
<1>. QED
  BY <1>1, <1>6, <1>7, <1>8

LEMMA PartOfLonger ==
    ASSUME NEW s \in Text, NEW u \in Text, NEW l \in Nat, l = Len(s),
           \A k \in 1 .. l : u[k] = s[k],
           NEW a \in 1 .. l + 1, NEW b \in 0 .. l
    PROVE  SubSeq(u, a, b) = SubSeq(s, a, b)
<1>1. \A i \in a .. b : s[i] \in Int /\ u[i] = s[i]
  <2>1. \A i \in 1 .. l : s[i] \in Int /\ u[i] = s[i]
    BY TokensAreIntegers
  <2>2. \A i \in a .. b : i \in 1 .. l
    OBVIOUS
  <2>. QED
    BY <2>1, <2>2
<1>2. /\ SubSeq(u, a, b) \in Seq(Int) /\ Len(SubSeq(u, a, b)) = IF a <= b THEN b - a + 1 ELSE 0
      /\ \A i \in 1 .. b - a + 1 : SubSeq(u, a, b)[i] = u[a + i - 1]
  BY <1>1, SubSeqProperties
<1>3. /\ SubSeq(s, a, b) \in Seq(Int) /\ Len(SubSeq(s, a, b)) = IF a <= b THEN b - a + 1 ELSE 0
      /\ \A i \in 1 .. b - a + 1 : SubSeq(s, a, b)[i] = s[a + i - 1]
  BY <1>1, SubSeqProperties
<1>4. PICK x \in Seq(Int), y \in Seq(Int) : x = SubSeq(u, a, b) /\ y = SubSeq(s, a, b)
  BY <1>2, <1>3
<1>5. Len(x) = Len(y)
  BY <1>2, <1>3, <1>4
<1>6. ASSUME NEW i \in 1 .. Len(x) PROVE x[i] = y[i]
  <2>1. i \in 1 .. b - a + 1
    BY <1>2, <1>4
  <2>2. a + i - 1 \in a .. b
    BY <2>1
  <2>. QED
    BY <1>1, <1>2, <1>3, <1>4, <2>1, <2>2
<1>7. x = y
  BY <1>4, <1>5, <1>6, SeqEqual
<1>. QED
  BY <1>4, <1>7

\* The dots of the longer text.
OneMore(d, n, place) == [j \in 1 .. n + 1 |-> IF j <= n THEN d[j] ELSE place]

LEMMA OneMoreField ==
    ASSUME NEW s \in Text, NEW t \in Text, NEW u, Joined(u, s, Dot, t), \A k \in 1 .. Len(t) : t[k] # Dot,
           NEW n \in Nat, NEW d, DotsAt(s, d, n)
    PROVE  /\ DotsAt(u, OneMore(d, n, Len(s) + 1), n + 1)
           /\ Len(Fields(u)) = n + 2 /\ Fields(u)[n + 2] = t
           /\ \A k \in 1 .. n + 1 : Fields(u)[k] = Fields(s)[k]
<1>1. PICK l \in Nat, m \in Nat : l = Len(s) /\ m = Len(t)
  BY TokensAreIntegers
<1>2. /\ u \in Text /\ Len(u) = l + 1 + m
      /\ \A k \in 1 .. l : u[k] = s[k]
      /\ u[l + 1] = Dot
      /\ \A k \in 1 .. m : u[l + 1 + k] = t[k]
  BY <1>1 DEF Joined
<1>3. /\ d \in [1 .. n -> 1 .. l]
      /\ \A j, k \in 1 .. n : j < k => d[j] < d[k]
      /\ \A k \in 1 .. l : s[k] = Dot <=> \E j \in 1 .. n : d[j] = k
  BY <1>1 DEF DotsAt
<1>4. PICK e : e = OneMore(d, n, l + 1)
  OBVIOUS
<1>5. /\ \A j \in 1 .. n : e[j] = d[j] /\ e[j] \in 1 .. l
      /\ e[n + 1] = l + 1
      /\ e \in [1 .. n + 1 -> 1 .. l + 1 + m]
  BY <1>3, <1>4 DEF OneMore
<1>6. \A j \in 1 .. n + 1 : j \in 1 .. n \/ j = n + 1
  OBVIOUS
<1>7. ASSUME NEW j \in 1 .. n + 1, NEW k \in 1 .. n + 1, j < k PROVE e[j] < e[k]
  <2>1. j \in 1 .. n
    BY <1>7
  <2>2. CASE k \in 1 .. n
    <3>1. d[j] < d[k]
      BY <1>3, <1>7, <2>1, <2>2
    <3>. QED
      BY <1>5, <2>1, <2>2, <3>1
  <2>3. CASE k = n + 1
    BY <1>5, <2>1, <2>3
  <2>. QED
    BY <1>6, <2>2, <2>3
<1>8. ASSUME NEW k \in 1 .. l + 1 + m PROVE u[k] = Dot <=> \E j \in 1 .. n + 1 : e[j] = k
  <2>1. CASE k \in 1 .. l
    <3>1. u[k] = Dot <=> \E j \in 1 .. n : d[j] = k
      BY <1>2, <1>3, <2>1
    <3>2. ASSUME NEW j \in 1 .. n, d[j] = k PROVE \E i \in 1 .. n + 1 : e[i] = k
      <4>1. j \in 1 .. n + 1
        OBVIOUS
      <4>. QED
        BY <1>5, <3>2, <4>1
    <3>3. ASSUME NEW j \in 1 .. n + 1, e[j] = k PROVE \E i \in 1 .. n : d[i] = k
      <4>1. j # n + 1
        BY <1>5, <2>1, <3>3
      <4>2. j \in 1 .. n
        BY <4>1
      <4>. QED
        BY <1>5, <3>3, <4>2
    <3>. QED
      BY <3>1, <3>2, <3>3
  <2>2. CASE k = l + 1
    <3>1. n + 1 \in 1 .. n + 1
      OBVIOUS
    <3>. QED
      BY <1>2, <1>5, <2>2, <3>1
  <2>3. CASE k \in l + 2 .. l + 1 + m
    <3>1. PICK j \in 1 .. m : k = l + 1 + j
      <4>1. k - (l + 1) \in 1 .. m /\ k = l + 1 + (k - (l + 1))
        BY <2>3
      <4>. QED
        BY <4>1
    <3>2. u[k] # Dot
      BY <1>1, <1>2, <3>1
    <3>3. \A i \in 1 .. n + 1 : e[i] # k
      BY <1>5, <1>6, <2>3
    <3>. QED
      BY <3>2, <3>3
  <2>. QED
    BY <2>1, <2>2, <2>3
<1>9. DotsAt(u, e, n + 1)
  BY <1>2, <1>5, <1>7, <1>8 DEF DotsAt
<1>10. PICK i \in Nat : i = n + 1
  OBVIOUS
<1>11. /\ Fields(u) = [k \in 1 .. i + 1 |-> SubSeq(u, CutAt(e, i, Len(u), k) + 1,
                                                  CutAt(e, i, Len(u), k + 1) - 1)]
       /\ Len(Fields(u)) = i + 1
  <2>1. u \in Text
    BY <1>2
  <2>2. DotsAt(u, e, i)
    BY <1>9, <1>10
  <2>. QED
    BY <2>1, <2>2, FieldsOf
<1>12. Fields(s) = [k \in 1 .. n + 1 |-> SubSeq(s, CutAt(d, n, Len(s), k) + 1,
                                               CutAt(d, n, Len(s), k + 1) - 1)]
  BY FieldsOf
<1>13. ASSUME NEW k \in 1 .. n + 1 PROVE Fields(u)[k] = Fields(s)[k]
  <2>1. PICK a : a = CutAt(d, n, Len(s), k)
    OBVIOUS
  <2>2. PICK b : b = CutAt(d, n, Len(s), k + 1)
    OBVIOUS
  <2>3. a \in 0 .. l /\ a = CutAt(e, i, Len(u), k)
    BY <1>1, <1>3, <1>5, <1>10, <2>1 DEF CutAt
  <2>4. b \in 1 .. l + 1 /\ b = CutAt(e, i, Len(u), k + 1)
    <3>1. CASE k = n + 1
      BY <1>1, <1>5, <1>10, <2>2, <3>1 DEF CutAt
    <3>2. CASE k \in 1 .. n
      BY <1>3, <1>5, <1>10, <2>2, <3>2 DEF CutAt
    <3>. QED
      BY <1>6, <3>1, <3>2
  <2>5. k \in 1 .. i + 1
    BY <1>10
  <2>6. Fields(u)[k] = SubSeq(u, a + 1, b - 1)
    BY <1>11, <2>3, <2>4, <2>5
  <2>7. Fields(s)[k] = SubSeq(s, a + 1, b - 1)
    BY <1>12, <2>1, <2>2
  <2>8. a + 1 \in 1 .. l + 1 /\ b - 1 \in 0 .. l
    BY <2>3, <2>4
  <2>. QED
    BY <1>1, <1>2, <2>6, <2>7, <2>8, PartOfLonger
<1>14. Fields(u)[i + 1] = t
  <2>1. CutAt(e, i, Len(u), i + 1) = l + 1 /\ CutAt(e, i, Len(u), (i + 1) + 1) = l + 1 + m + 1
    BY <1>2, <1>5, <1>10 DEF CutAt
  <2>2. PICK a \in Int, b \in Int : a = (l + 1) + 1 /\ b = (l + 1 + m + 1) - 1 /\ b = l + 1 + m
    OBVIOUS
  <2>3. i + 1 \in 1 .. i + 1
    BY <1>10
  <2>4. Fields(u)[i + 1] = SubSeq(u, a, b)
    BY <1>11, <2>1, <2>2, <2>3
  <2>5. \A k \in a .. b : u[k] \in Int
    <3>1. \A k \in 1 .. Len(u) : u[k] \in Int
      BY <1>2, TokensAreIntegers
    <3>2. \A k \in a .. b : k \in 1 .. Len(u)
      BY <1>2, <2>2
    <3>. QED
      BY <3>1, <3>2
  <2>6. /\ SubSeq(u, a, b) \in Seq(Int)
        /\ Len(SubSeq(u, a, b)) = IF a <= b THEN b - a + 1 ELSE 0
        /\ \A k \in 1 .. b - a + 1 : SubSeq(u, a, b)[k] = u[a + k - 1]
    BY <2>5, SubSeqProperties
  <2>7. Len(SubSeq(u, a, b)) = m /\ b - a + 1 = m
    BY <2>2, <2>6
  <2>8. ASSUME NEW k \in 1 .. m PROVE SubSeq(u, a, b)[k] = t[k]
    <3>1. a + k - 1 = l + 1 + k
      BY <2>2
    <3>. QED
      BY <1>2, <2>6, <2>7, <3>1
  <2>9. PICK w \in Seq(Int) : w = SubSeq(u, a, b)
    BY <2>6
  <2>10. w = t
    BY <1>1, <2>7, <2>8, <2>9, SeqEqual DEF Text
  <2>. QED
    BY <2>4, <2>9, <2>10
<1>15. Len(Fields(u)) = n + 2 /\ i + 1 = n + 2
  BY <1>10, <1>11
<1>. QED
  BY <1>1, <1>4, <1>9, <1>13, <1>14, <1>15

\* The separators of the longer text.
LEMMA PlacesOfJoined ==
    ASSUME NEW s \in Text, NEW t \in Text, NEW u, Joined(u, s, Dot, t), NEW c, c # Dot
    PROVE  Cardinality(Places(u, c)) = Cardinality(Places(s, c)) + Cardinality(Places(t, c))
<1>1. PICK l \in Nat, m \in Nat : l = Len(s) /\ m = Len(t)
  BY TokensAreIntegers
<1>2. /\ u \in Text /\ Len(u) = l + 1 + m
      /\ \A k \in 1 .. l : u[k] = s[k]
      /\ u[l + 1] = Dot
      /\ \A k \in 1 .. m : u[l + 1 + k] = t[k]
  BY <1>1 DEF Joined
<1>3. PICK S : S = Places(s, c)
  OBVIOUS
<1>4. PICK T : T = Places(t, c)
  OBVIOUS
<1>. DEFINE f == [k \in T |-> l + 1 + k]
            F == {f[k] : k \in T}
<1>5. IsFiniteSet(S) /\ IsFiniteSet(T) /\ S \subseteq 1 .. l /\ T \subseteq 1 .. m
  BY <1>1, <1>3, <1>4, PlacesFacts
<1>6. IsFiniteSet(F) /\ Cardinality(F) = Cardinality(T)
  <2>1. \A j, k \in T : f[j] = f[k] => j = k
    BY <1>5
  <2>2. f \in Bijection(T, F)
    BY <2>1 DEF Bijection, Injection, Surjection, IsInjective
  <2>3. ExistsBijection(T, F)
    BY <2>2 DEF ExistsBijection
  <2>. QED
    BY <1>5, <2>3, FS_Bijection
<1>7. Places(u, c) = S \cup F
  <2>1. ASSUME NEW k \in 1 .. l + 1 + m PROVE u[k] = c <=> k \in S \cup F
    <3>1. CASE k \in 1 .. l
      <4>1. k \notin F
        BY <1>5, <3>1
      <4>. QED
        BY <1>1, <1>2, <1>3, <3>1, <4>1 DEF Places
    <3>2. CASE k = l + 1
      <4>1. k \notin F /\ k \notin S
        BY <1>5, <3>2
      <4>. QED
        BY <1>2, <3>2, <4>1
    <3>3. CASE k \in l + 2 .. l + 1 + m
      <4>1. PICK j \in 1 .. m : k = l + 1 + j
        <5>1. k - (l + 1) \in 1 .. m /\ k = l + 1 + (k - (l + 1))
          BY <3>3
        <5>. QED
          BY <5>1
      <4>2. k \in F <=> j \in T
        BY <1>5, <4>1
      <4>3. k \notin S
        BY <1>5, <3>3
      <4>. QED
        BY <1>1, <1>2, <1>4, <4>1, <4>2, <4>3 DEF Places
    <3>. QED
      BY <3>1, <3>2, <3>3
  <2>2. S \cup F \subseteq 1 .. l + 1 + m
    <3>1. \A k \in S : k \in 1 .. l + 1 + m
      BY <1>5
    <3>2. \A k \in T : f[k] \in 1 .. l + 1 + m
      BY <1>5
    <3>. QED
      BY <3>1, <3>2
  <2>. HIDE DEF F
  <2>. QED
    BY <1>2, <2>1, <2>2 DEF Places
<1>8. S \cap F = {}
  BY <1>5
<1>. HIDE DEF F
<1>9. Cardinality(S \cup F) = Cardinality(S) + Cardinality(F)
  <2>1. Cardinality(S \cup F) = Cardinality(S) + Cardinality(F) - Cardinality(S \cap F)
    BY <1>5, <1>6, FS_Union
  <2>2. Cardinality(S \cap F) = 0
    BY <1>8, FS_EmptySet
  <2>3. Cardinality(S) \in Nat /\ Cardinality(F) \in Nat
    BY <1>5, <1>6, FS_CardinalityType
  <2>. QED
    BY <2>1, <2>2, <2>3
<1>. QED
  BY <1>3, <1>4, <1>6, <1>7, <1>9

\* A part of a block text.
PartText(f) == IF Len(f) = 1 THEN f ELSE <<f[1], Dash, f[2]>>

LEMMA OneByteFacts ==
    ASSUME NEW x \in ByteValue
    PROVE  /\ <<x>> \in Text /\ Len(<<x>>) = 1 /\ <<x>>[1] # Dot /\ <<x>>[1] = x
           /\ Places(<<x>>, Dash) = {} /\ Places(<<x>>, Slash) = {}
           /\ Atoi3(<<x>>) = x /\ x % Radix = x
<1>1. PICK n \in Nat : n = Radix /\ x \in Nat /\ x < n /\ n <= 1000
  BY Weights, TextAssumption DEF ByteValue
<1>2. x % Radix = x
  BY <1>1
<1>3. x \in 0 .. 999
  BY <1>1
<1>4. Len(<<x>>) = 1 /\ <<x>>[1] = x
  OBVIOUS
<1>5. <<x>> \in Text
  <2>1. x \in Int
    BY <1>1
  <2>. QED
    BY <2>1 DEF Text
<1>6. Atoi3(<<x>>) = x
  BY <1>3, <1>4 DEF Atoi3
<1>7. x # Dot /\ x # Dash /\ x # Slash
  BY <1>1 DEF Dot, Dash, Slash
<1>8. Places(<<x>>, Dash) = {} /\ Places(<<x>>, Slash) = {}
  BY <1>4, <1>7 DEF Places
<1>. QED
  BY <1>2, <1>4, <1>5, <1>6, <1>7, <1>8

LEMMA TwoBytesFacts ==
    ASSUME NEW x \in ByteValue, NEW y \in ByteValue
    PROVE  LET f == <<x, Dash, y>>
           IN  /\ f \in Text /\ Len(f) = 3 /\ \A k \in 1 .. 3 : f[k] # Dot
               /\ Places(f, Dash) = {2} /\ Places(f, Slash) = {}
               /\ Before(f, 2) = <<x>> /\ After(f, 2) = <<y>>
<1>1. PICK f : f = <<x, Dash, y>>
  OBVIOUS
<1>2. Len(f) = 3 /\ f[1] = x /\ f[2] = Dash /\ f[3] = y
  BY <1>1
<1>3. x \in Nat /\ y \in Nat
  BY Weights DEF ByteValue
<1>4. f \in Text
  <2>1. x \in Int /\ y \in Int /\ Dash \in Int
    BY <1>3 DEF Dash
  <2>. QED
    BY <1>1, <2>1 DEF Text
<1>5. /\ x # Dot /\ x # Dash /\ x # Slash /\ y # Dot /\ y # Dash /\ y # Slash
      /\ Dash # Dot /\ Dash # Slash
  BY <1>3 DEF Dot, Dash, Slash
<1>6. \A k \in 1 .. 3 : k = 1 \/ k = 2 \/ k = 3
  OBVIOUS
<1>7. \A k \in 1 .. 3 : f[k] # Dot /\ f[k] # Slash /\ (f[k] = Dash <=> k = 2)
  BY <1>2, <1>5, <1>6
<1>8. Places(f, Dash) = {2} /\ Places(f, Slash) = {}
  BY <1>2, <1>7 DEF Places
<1>9. Before(f, 2) = <<x>>
  <2>1. 2 - 1 = 1 /\ 1 \in Int
    OBVIOUS
  <2>2. SubSeq(f, 1, 1) = <<f[1]>>
    BY <2>1, SubSeqOne
  <2>. QED
    BY <1>2, <2>1, <2>2 DEF Before
<1>10. After(f, 2) = <<y>>
  <2>1. 2 + 1 = 3 /\ 3 \in Int
    OBVIOUS
  <2>2. SubSeq(f, 3, 3) = <<f[3]>>
    BY <2>1, SubSeqOne
  <2>. QED
    BY <1>2, <2>1, <2>2 DEF After
<1>. QED
  BY <1>1, <1>2, <1>4, <1>7, <1>8, <1>9, <1>10

LEMMA PartFacts ==
    ASSUME NEW f \in Seq(ByteValue), Len(f) \in {1, 2}
    PROVE  /\ PartText(f) \in Text /\ \A k \in 1 .. Len(PartText(f)) : PartText(f)[k] # Dot
           /\ Cardinality(Places(PartText(f), Dash)) = Len(f) - 1
           /\ Cardinality(Places(PartText(f), Slash)) = 0
           /\ (Places(PartText(f), Dash) = {} <=> Len(f) = 1)
           /\ ByteInterval(PartText(f)) # {}
           /\ \A b \in ByteValue : b \in ByteInterval(PartText(f)) <=>
                                     \E x, y \in Range(f) : x <= b /\ b <= y
<1>1. PICK x \in ByteValue, y \in ByteValue : x = f[1] /\ y = f[Len(f)]
  OBVIOUS
<1>2. x \in Nat /\ y \in Nat
  BY Weights DEF ByteValue
<1>3. ASSUME NEW I, I = Least(x, y) .. Greatest(x, y)
      PROVE  /\ I # {}
             /\ \A b \in ByteValue : b \in I <=> \E p, q \in {x, y} : p <= b /\ b <= q
  <2>1. \A b \in ByteValue : b \in Nat
    BY Weights DEF ByteValue
  <2>2. CASE x <= y
    <3>1. I = x .. y
      BY <1>3, <2>2 DEF Least, Greatest
    <3>2. x \in I
      BY <1>2, <2>2, <3>1
    <3>3. \A b \in Nat : b \in I <=> x <= b /\ b <= y
      BY <1>2, <3>1
    <3>4. \A b \in Nat : (\E p, q \in {x, y} : p <= b /\ b <= q) <=> x <= b /\ b <= y
      BY <1>2, <2>2
    <3>. QED
      BY <2>1, <3>2, <3>3, <3>4
  <2>3. CASE ~(x <= y)
    <3>1. I = y .. x
      BY <1>2, <1>3, <2>3 DEF Least, Greatest
    <3>2. x \in I
      BY <1>2, <2>3, <3>1
    <3>. QED
      BY <1>2, <2>1, <2>3, <3>1, <3>2, SMTT(30)
  <2>. QED
    BY <2>2, <2>3
<1>4. Cardinality({}) = 0 /\ Cardinality({2}) = 1
  BY FS_EmptySet, FS_Singleton
<1>5. CASE Len(f) = 1
  <2>1. f = <<x>>
    <3>1. <<x>> \in Seq(ByteValue) /\ Len(<<x>>) = 1 /\ <<x>>[1] = x
      OBVIOUS
    <3>2. PICK g \in Seq(ByteValue) : g = <<x>>
      BY <3>1
    <3>3. Len(f) = Len(g) /\ \A k \in 1 .. Len(f) : f[k] = g[k]
      BY <1>1, <1>5, <3>1, <3>2
    <3>4. f = g
      BY <3>2, <3>3, SeqEqual
    <3>. QED
      BY <3>2, <3>4
  <2>2. PICK t : t = PartText(f)
    OBVIOUS
  <2>3. t = <<x>>
    BY <1>5, <2>1, <2>2 DEF PartText
  <2>4. y = x
    BY <1>1, <1>5
  <2>5. t \in Text /\ Len(t) = 1 /\ t[1] # Dot /\ Places(t, Dash) = {} /\ Places(t, Slash) = {}
        /\ Atoi3(t) = x /\ x % Radix = x
    BY <2>3, OneByteFacts
  <2>6. ByteInterval(t) = Least(x, x) .. Greatest(x, x)
    <3>1. x # Invalid
      BY <1>2 DEF Invalid
    <3>. QED
      BY <2>5, <3>1 DEF ByteInterval
  <2>7. Range(f) = {x, y}
    BY <1>1, <1>5, <2>4 DEF Range
  <2>8. /\ ByteInterval(t) # {}
        /\ \A b \in ByteValue : b \in ByteInterval(t) <=> \E p, q \in {x, y} : p <= b /\ b <= q
    BY <1>3, <2>4, <2>6
  <2>. QED
    BY <1>4, <1>5, <2>2, <2>5, <2>7, <2>8
<1>6. CASE Len(f) = 2
  <2>1. PICK t : t = PartText(f)
    OBVIOUS
  <2>2. t = <<x, Dash, y>>
    BY <1>1, <1>6, <2>1 DEF PartText
  <2>3. /\ t \in Text /\ Len(t) = 3 /\ (\A k \in 1 .. 3 : t[k] # Dot)
        /\ Places(t, Dash) = {2} /\ Places(t, Slash) = {}
        /\ Before(t, 2) = <<x>> /\ After(t, 2) = <<y>>
    BY <2>2, TwoBytesFacts
  <2>4. Atoi3(<<x>>) = x /\ x % Radix = x /\ Atoi3(<<y>>) = y /\ y % Radix = y
    BY OneByteFacts
  <2>5. x # Invalid /\ y # Invalid
    BY <1>2 DEF Invalid
  <2>6. ByteInterval(t) = Least(x, y) .. Greatest(x, y)
    <3>1. PICK sep : sep = CHOOSE k \in Places(t, Dash) : \A j \in Places(t, Dash) : k <= j
      OBVIOUS
    <3>2. sep = 2
      BY <2>3, <3>1
    <3>3. Atoi3(Before(t, sep)) = x /\ Atoi3(After(t, sep)) = y /\ Places(t, Dash) # {}
      BY <2>3, <2>4, <3>2
    <3>. QED
      BY <2>4, <2>5, <3>1, <3>3 DEF ByteInterval
  <2>7. Range(f) = {x, y}
    <3>1. DOMAIN f = 1 .. 2 /\ \A k \in 1 .. 2 : k = 1 \/ k = 2
      BY <1>6
    <3>2. f[1] = x /\ f[2] = y
      BY <1>1, <1>6
    <3>. QED
      BY <3>1, <3>2 DEF Range
  <2>8. /\ ByteInterval(t) # {}
        /\ \A b \in ByteValue : b \in ByteInterval(t) <=> \E p, q \in {x, y} : p <= b /\ b <= q
    BY <1>3, <2>6
  <2>9. Places(t, Dash) # {} /\ Cardinality(Places(t, Dash)) = 1 /\ Cardinality(Places(t, Slash)) = 0
    BY <1>4, <2>3
  <2>. QED
    BY <1>6, <2>1, <2>3, <2>7, <2>8, <2>9
<1>. QED
  BY <1>5, <1>6

LEMMA SomeDashes ==
    ASSUME NEW a \in {1, 2}, NEW b \in {1, 2}, NEW c \in {1, 2}, NEW d \in {1, 2},
           \/ (a = 2 /\ b = 2) \/ (a = 2 /\ c = 2) \/ (a = 2 /\ d = 2)
           \/ (b = 2 /\ c = 2) \/ (b = 2 /\ d = 2) \/ (c = 2 /\ d = 2)
    PROVE  (((a - 1) + (b - 1)) + (c - 1)) + (d - 1) >= 2
<1>1. PICK x \in {0, 1}, y \in {0, 1}, z \in {0, 1}, t \in {0, 1} :
        x = a - 1 /\ y = b - 1 /\ z = c - 1 /\ t = d - 1
  OBVIOUS
<1>2. \/ (x = 1 /\ y = 1) \/ (x = 1 /\ z = 1) \/ (x = 1 /\ t = 1)
      \/ (y = 1 /\ z = 1) \/ (y = 1 /\ t = 1) \/ (z = 1 /\ t = 1)
  BY <1>1
<1>3. ((x + y) + z) + t >= 2
  BY <1>2
<1>. QED
  BY <1>1, <1>3

\* The texts of blocks have the separators and the fields of their parts.
LEMMA BlocksText ==
    ASSUME NEW parts, AreParts(parts)
    PROVE  LET u == Blocks(parts).text
           IN  /\ u \in Text /\ Len(Fields(u)) = 4
               /\ \A k \in 1 .. 4 : Fields(u)[k] = PartText(parts[k])
               /\ Cardinality(Places(u, Dash)) >= 2 /\ Cardinality(Places(u, Slash)) = 0
               /\ DashAtTheEnd(u) => Len(parts[4]) = 2
<1>1. \A k \in 1 .. 4 : parts[k] \in Seq(ByteValue) /\ Len(parts[k]) \in {1, 2}
  BY DEF AreParts, ByteValue
<1>2. 1 \in 1 .. 4 /\ 2 \in 1 .. 4 /\ 3 \in 1 .. 4 /\ 4 \in 1 .. 4
  OBVIOUS
<1>3. \A k \in 1 .. 4 : k = 1 \/ k = 2 \/ k = 3 \/ k = 4
  OBVIOUS
<1>4. PICK p, q, r, s : /\ p = PartText(parts[1]) /\ q = PartText(parts[2])
                        /\ r = PartText(parts[3]) /\ s = PartText(parts[4])
  OBVIOUS
<1>5. /\ p \in Text /\ \A k \in 1 .. Len(p) : p[k] # Dot
      /\ q \in Text /\ \A k \in 1 .. Len(q) : q[k] # Dot
      /\ r \in Text /\ \A k \in 1 .. Len(r) : r[k] # Dot
      /\ s \in Text /\ \A k \in 1 .. Len(s) : s[k] # Dot
  BY <1>1, <1>2, <1>4, PartFacts
<1>6. PICK a, b, u : a = p \o <<Dot>> \o q /\ b = a \o <<Dot>> \o r /\ u = b \o <<Dot>> \o s
  OBVIOUS
<1>7. Blocks(parts).text = u
  BY <1>4, <1>6 DEF Blocks, Written, PartText
<1>8. Dot \in Int /\ Dash # Dot /\ Slash # Dot
  BY DEF Dot, Dash, Slash
<1>9. Joined(a, p, Dot, q) /\ a \in Text
  <2>1. Joined(a, p, Dot, q)
    BY <1>5, <1>6, <1>8, JoinedIs
  <2>. QED
    BY <2>1 DEF Joined
<1>10. Joined(b, a, Dot, r) /\ b \in Text
  <2>1. Joined(b, a, Dot, r)
    BY <1>5, <1>6, <1>8, <1>9, JoinedIs
  <2>. QED
    BY <2>1 DEF Joined
<1>11. Joined(u, b, Dot, s) /\ u \in Text
  <2>1. Joined(u, b, Dot, s)
    BY <1>5, <1>6, <1>8, <1>10, JoinedIs
  <2>. QED
    BY <2>1 DEF Joined
<1>12. PICK d1 : DotsAt(p, d1, 0) /\ Fields(p)[1] = p
  BY <1>5, NoDot
<1>13. PICK d2 : /\ DotsAt(a, d2, 1) /\ Fields(a)[2] = q
                 /\ Fields(a)[1] = Fields(p)[1]
  <2>1. 0 + 1 = 1 /\ 0 + 2 = 2 /\ 0 \in Nat /\ 1 \in 1 .. 1
    OBVIOUS
  <2>. QED
    BY <1>5, <1>9, <1>12, <2>1, OneMoreField
<1>14. PICK d3 : /\ DotsAt(b, d3, 2) /\ Fields(b)[3] = r
                 /\ Fields(b)[1] = Fields(a)[1] /\ Fields(b)[2] = Fields(a)[2]
  <2>1. 1 + 1 = 2 /\ 1 + 2 = 3 /\ 1 \in Nat /\ 1 \in 1 .. 2 /\ 2 \in 1 .. 2
    OBVIOUS
  <2>. QED
    BY <1>5, <1>9, <1>10, <1>13, <2>1, OneMoreField
<1>15. /\ Len(Fields(u)) = 4 /\ Fields(u)[4] = s
       /\ Fields(u)[1] = Fields(b)[1] /\ Fields(u)[2] = Fields(b)[2] /\ Fields(u)[3] = Fields(b)[3]
  <2>1. PICK n \in Nat : n = 2
    OBVIOUS
  <2>2. DotsAt(b, d3, n)
    BY <1>14, <2>1
  <2>3. /\ Len(Fields(u)) = n + 2 /\ Fields(u)[n + 2] = s
        /\ \A k \in 1 .. n + 1 : Fields(u)[k] = Fields(b)[k]
    BY <1>5, <1>10, <1>11, <2>2, OneMoreField
  <2>4. n + 2 = 4 /\ 1 \in 1 .. n + 1 /\ 2 \in 1 .. n + 1 /\ 3 \in 1 .. n + 1
    BY <2>1
  <2>. QED
    BY <2>3, <2>4
<1>16. \A k \in 1 .. 4 : Fields(u)[k] = PartText(parts[k])
  BY <1>3, <1>4, <1>12, <1>13, <1>14, <1>15
<1>17. ASSUME NEW c \in {Dash, Slash}
       PROVE  Cardinality(Places(u, c)) =
                ((Cardinality(Places(p, c)) + Cardinality(Places(q, c)))
                  + Cardinality(Places(r, c))) + Cardinality(Places(s, c))
  <2>1. c # Dot
    BY <1>8
  <2>2. Cardinality(Places(a, c)) = Cardinality(Places(p, c)) + Cardinality(Places(q, c))
    BY <1>5, <1>9, <2>1, PlacesOfJoined
  <2>3. Cardinality(Places(b, c)) = Cardinality(Places(a, c)) + Cardinality(Places(r, c))
    BY <1>5, <1>9, <1>10, <2>1, PlacesOfJoined
  <2>4. Cardinality(Places(u, c)) = Cardinality(Places(b, c)) + Cardinality(Places(s, c))
    BY <1>5, <1>10, <1>11, <2>1, PlacesOfJoined
  <2>. QED
    BY <2>2, <2>3, <2>4
<1>18. /\ Cardinality(Places(p, Dash)) = Len(parts[1]) - 1 /\ Cardinality(Places(p, Slash)) = 0
       /\ Cardinality(Places(q, Dash)) = Len(parts[2]) - 1 /\ Cardinality(Places(q, Slash)) = 0
       /\ Cardinality(Places(r, Dash)) = Len(parts[3]) - 1 /\ Cardinality(Places(r, Slash)) = 0
       /\ Cardinality(Places(s, Dash)) = Len(parts[4]) - 1 /\ Cardinality(Places(s, Slash)) = 0
  BY <1>1, <1>2, <1>4, PartFacts
<1>19. Cardinality(Places(u, Slash)) = 0
  <2>1. Slash \in {Dash, Slash} /\ ((0 + 0) + 0) + 0 = 0
    OBVIOUS
  <2>. QED
    BY <1>17, <1>18, <2>1
<1>1a. Cardinality(Places(u, Dash)) >= 2
  <2>1. PICK h, i \in 1 .. 4 : h # i /\ Len(parts[h]) = 2 /\ Len(parts[i]) = 2
    BY DEF AreParts
  <2>2. PICK x \in {1, 2}, y \in {1, 2}, z \in {1, 2}, t \in {1, 2} :
          /\ x = Len(parts[1]) /\ y = Len(parts[2]) /\ z = Len(parts[3]) /\ t = Len(parts[4])
    BY <1>1, <1>2
  <2>3. Dash \in {Dash, Slash}
    OBVIOUS
  <2>4. Cardinality(Places(u, Dash)) = (((x - 1) + (y - 1)) + (z - 1)) + (t - 1)
    BY <1>17, <1>18, <2>2, <2>3
  <2>5. \/ (x = 2 /\ y = 2) \/ (x = 2 /\ z = 2) \/ (x = 2 /\ t = 2)
        \/ (y = 2 /\ z = 2) \/ (y = 2 /\ t = 2) \/ (z = 2 /\ t = 2)
    BY <1>3, <2>1, <2>2
  <2>. QED
    BY <2>4, <2>5, SomeDashes
<1>21. ASSUME DashAtTheEnd(u) PROVE Len(parts[4]) = 2
  <2>1. PICK l \in Nat, m \in Nat : l = Len(b) /\ m = Len(s)
    BY <1>5, <1>10, TokensAreIntegers
  <2>2. /\ Len(u) = l + 1 + m /\ u[l + 1] = Dot
        /\ \A k \in 1 .. m : u[l + 1 + k] = s[k]
    BY <1>11, <2>1 DEF Joined
  <2>3. PICK k \in Places(u, Dash) : \A d \in Places(u, Dot) : d < k
    BY <1>21 DEF DashAtTheEnd
  <2>4. l + 1 \in Places(u, Dot)
    BY <2>1, <2>2 DEF Places
  <2>5. k \in 1 .. l + 1 + m /\ u[k] = Dash /\ l + 1 < k
    BY <2>2, <2>3, <2>4 DEF Places
  <2>6. k - (l + 1) \in 1 .. m /\ l + 1 + (k - (l + 1)) = k
    BY <2>1, <2>5
  <2>7. s[k - (l + 1)] = Dash
    BY <2>2, <2>5, <2>6
  <2>8. Places(s, Dash) # {}
    BY <2>1, <2>6, <2>7 DEF Places
  <2>9. Places(s, Dash) = {} <=> Len(parts[4]) = 1
    BY <1>1, <1>2, <1>4, PartFacts
  <2>. QED
    BY <1>1, <1>2, <2>8, <2>9
<1>. QED
  BY <1>7, <1>11, <1>15, <1>16, <1>19, <1>1a, <1>21

LEMMA BlocksIsMet ==
    ASSUME NEW parts, AreParts(parts), Len(parts[4]) = 2
    PROVE  Met(Blocks(parts).text, Blocks(parts).means)
<1>1. PICK u : u = Blocks(parts).text
  OBVIOUS
<1>2. /\ u \in Text /\ Len(Fields(u)) = 4
      /\ (\A k \in 1 .. 4 : Fields(u)[k] = PartText(parts[k]))
      /\ Cardinality(Places(u, Dash)) >= 2 /\ Cardinality(Places(u, Slash)) = 0
  BY <1>1, BlocksText
<1>3. \A k \in 1 .. 4 : parts[k] \in Seq(ByteValue) /\ Len(parts[k]) \in {1, 2}
  BY DEF AreParts, ByteValue
<1>4. \A k \in 1 .. 4 : ByteInterval(Fields(u)[k]) # {}
  BY <1>2, <1>3, PartFacts
<1>5. Places(Fields(u)[4], Dash) # {}
  <2>1. 4 \in 1 .. 4 /\ Len(parts[4]) # 1
    OBVIOUS
  <2>. QED
    BY <1>2, <1>3, <2>1, PartFacts
<1>6. Parsed(u) = ParsedBlocks(u)
  <2>1. PICK c \in Nat : c = Cardinality(Places(u, Dash))
    BY <1>2, PlacesFacts
  <2>2. c # 0 /\ c # 1
    BY <1>2, <2>1
  <2>. QED
    BY <1>2, <2>1, <2>2 DEF Parsed
<1>7. PICK ranges : ParsedBlocks(u) = Reads(ranges)
  <2>1. \A k \in 1 .. 3 : k \in 1 .. 4
    OBVIOUS
  <2>2. 4 \in 1 .. 4
    OBVIOUS
  <2>. DEFINE f == Fields(u)
              B(k) == ByteInterval(f[k])
              R == {<<Address(x, y, z, Min(B(4))), Address(x, y, z, Max(B(4)))>> :
                      x \in B(1), y \in B(2), z \in B(3)}
  <2>3. ParsedBlocks(u) =
          IF Len(f) # 4 \/ (\E k \in 1 .. 3 : B(k) = {}) THEN Refused
          ELSE IF Places(f[4], Dash) = {} THEN Undefined
          ELSE IF B(4) = {} THEN Refused
          ELSE Reads(R)
    BY DEF ParsedBlocks
  <2>4. \A k \in 1 .. 4 : B(k) # {}
    BY <1>4
  <2>. HIDE DEF B, R
  <2>5. Len(f) = 4 /\ Places(f[4], Dash) # {}
    BY <1>2, <1>5
  <2>. HIDE DEF f
  <2>6. ParsedBlocks(u) = Reads(R)
    BY <2>1, <2>2, <2>3, <2>4, <2>5
  <2>. QED
    BY <2>6
<1>8. ParsedBlocks(u).outcome = "read" /\ ParsedBlocks(u).ranges = ranges
  BY <1>7, ReadsFacts
<1>9. /\ AreRanges(ranges)
      /\ \A v \in Value : InRanges(ranges, v) <=>
           \A k \in 1 .. 4 : Byte(v, 4 - k) \in ByteInterval(Fields(u)[k])
  BY <1>2, <1>8, ParsedBlocksFacts
<1>10. PICK means : means = Blocks(parts).means
  OBVIOUS
<1>11. means = {v \in Value : \A k \in 1 .. 4 :
                  \E x, y \in Range(parts[k]) : x <= Byte(v, 4 - k) /\ Byte(v, 4 - k) <= y}
  BY <1>10 DEF Blocks, Written
<1>12. ASSUME NEW v \in Value, NEW k \in 1 .. 4
       PROVE  Byte(v, 4 - k) \in ByteInterval(Fields(u)[k]) <=>
                \E x, y \in Range(parts[k]) : x <= Byte(v, 4 - k) /\ Byte(v, 4 - k) <= y
  <2>1. Byte(v, 4 - k) \in ByteValue
    <3>1. 4 - k \in {0, 1, 2, 3}
      OBVIOUS
    <3>. QED
      BY <3>1, AddressOfBytes
  <2>. QED
    BY <1>2, <1>3, <2>1, PartFacts
<1>13. means \in SUBSET Value /\ \A v \in Value : InRanges(ranges, v) <=> v \in means
  BY <1>9, <1>11, <1>12
<1>. QED
  BY <1>1, <1>2, <1>6, <1>7, <1>9, <1>10, <1>13, MetIs

\* What the documented texts are read as.
LEMMA DocumentedFacts ==
    ASSUME NEW w \in Documented
    PROVE  w.text \in Text /\ ((IsBlocks(w.text) => DashAtTheEnd(w.text)) => Met(w.text, w.means))
<1>1. /\ \A a \in Addresses : a \in Value
      /\ \A n \in LastBytes : n \in ByteValue
      /\ \A parts \in BlockParts : AreParts(parts)
  BY AddressAssumption DEF ByteValue
<1>2. ASSUME NEW v, Met(v.text, v.means)
      PROVE  v.text \in Text /\ Met(v.text, v.means)
  BY <1>2 DEF Met
<1>3. CASE w \in {SingleAddress(a) : a \in Addresses}
  BY <1>1, <1>2, <1>3, SingleIsMet
<1>4. CASE w \in {Cidr(a, n, p) : a \in Addresses, n \in 1 .. 4, p \in 0 .. 4 * Bits}
  <2>1. PICK a \in Addresses, n \in 1 .. 4, p \in 0 .. 4 * Bits : w = Cidr(a, n, p)
    BY <1>4
  <2>2. Met(w.text, w.means)
    BY <1>1, <2>1, CidrIsMet
  <2>. QED
    BY <1>2, <2>2
<1>5. CASE w \in {Span(a, b) : a, b \in Addresses}
  <2>1. PICK a \in Addresses, b \in Addresses : w = Span(a, b)
    BY <1>5
  <2>2. Met(w.text, w.means)
    BY <1>1, <2>1, SpanIsMet
  <2>. QED
    BY <1>2, <2>2
<1>6. CASE w \in {LastByteSpan(a, n) : a \in Addresses, n \in LastBytes}
  <2>1. PICK a \in Addresses, n \in LastBytes : w = LastByteSpan(a, n)
    BY <1>6
  <2>2. Met(w.text, w.means)
    BY <1>1, <2>1, LastByteIsMet
  <2>. QED
    BY <1>2, <2>2
<1>7. CASE w \in {Blocks(parts) : parts \in BlockParts}
  <2>1. PICK parts \in BlockParts : w = Blocks(parts)
    BY <1>7
  <2>2. PICK u : u = w.text
    OBVIOUS
  <2>3. /\ u \in Text /\ Cardinality(Places(u, Dash)) >= 2
        /\ DashAtTheEnd(u) => Len(parts[4]) = 2
    BY <1>1, <2>1, <2>2, BlocksText
  <2>4. IsBlocks(u)
    BY <2>3 DEF IsBlocks
  <2>5. ASSUME DashAtTheEnd(u) PROVE Met(w.text, w.means)
    BY <1>1, <2>1, <2>3, <2>5, BlocksIsMet
  <2>. QED
    BY <2>2, <2>3, <2>4, <2>5
<1>. QED
  BY <1>3, <1>4, <1>5, <1>6, <1>7 DEF Documented

LEMMA NotAnAddress ==
    ASSUME NEW s \in Text
    PROVE  /\ ~IsBytes(s, 4) => Ipv4ToI(s, 3) = Invalid
           /\ (\A n \in 1 .. 4 : ~IsBytes(s, n)) => Ipv4ToI(s, 0) = Invalid
           /\ ~IsBytes(s, 1) => ~IsByte(Atoi3(s))
<1>1. ASSUME Ipv4ToI(s, 3) # Invalid PROVE IsBytes(s, 4)
  <2>1. PICK n \in 3 + 1 .. 4 : IsBytes(s, n)
    BY <1>1, BytesOfIpv4
  <2>2. n = 4
    OBVIOUS
  <2>. QED
    BY <2>1, <2>2
<1>2. ASSUME Ipv4ToI(s, 0) # Invalid PROVE \E n \in 1 .. 4 : IsBytes(s, n)
  <2>1. PICK n \in 0 + 1 .. 4 : IsBytes(s, n)
    BY <1>2, BytesOfIpv4
  <2>. QED
    BY <2>1
<1>3. ASSUME IsByte(Atoi3(s)) PROVE IsBytes(s, 1)
  <2>1. Atoi3(s) # Invalid
    BY <1>3 DEF IsByte, Invalid
  <2>2. Len(s) = 1 /\ Atoi3(s) = s[1]
    BY <2>1 DEF Atoi3
  <2>3. IsByte(s[1]) /\ s[1] # Dot
    BY <1>3, <2>2 DEF IsByte, Dot
  <2>4. \A k \in 1 .. 1 : s[2 * k - 1] = s[1]
    <3>1. \A k \in 1 .. 1 : 2 * k - 1 = 1
      OBVIOUS
    <3>. QED
      BY <3>1
  <2>5. Len(s) = 2 * 1 - 1 /\ 1 .. 1 - 1 = {}
    BY <2>2
  <2>. QED
    BY <2>3, <2>4, <2>5 DEF IsBytes, Numbered
<1>. QED
  BY <1>1, <1>2, <1>3

\* The first of the places of a token.
LEMMA FirstPlace ==
    ASSUME NEW s \in Text, NEW c, Places(s, c) # {}
    PROVE  \E k \in Places(s, c) : \A j \in Places(s, c) : k <= j
<1>1. PICK P : P = Places(s, c)
  OBVIOUS
<1>2. IsFiniteSet(P) /\ Cardinality(P) \in Nat /\ Cardinality(P) # 0 /\ P \subseteq Int
  BY <1>1, PlacesFacts
<1>3. PICK key : key = [k \in P |-> k]
  OBVIOUS
<1>4. (\A z \in P : key[z] \in Int) /\ \A x, y \in P : key[x] = key[y] => x = y
  BY <1>2, <1>3
<1>5. PICK i \in 1 .. Cardinality(P) : i - 1 = 0
  BY <1>2
<1>6. PICK x \in P : RankOf(P, key, x) = 0
  <2>1. \E x \in P : RankOf(P, key, x) = i - 1
    BY <1>2, <1>4, RankOnto
  <2>. QED
    BY <1>5, <2>1
<1>7. ASSUME NEW j \in P PROVE x <= j
  <2>. SUFFICES ASSUME j < x PROVE FALSE
    BY <1>2
  <2>1. key[j] < key[x]
    BY <1>3
  <2>2. RankOf(P, key, j) \in Nat /\ RankOf(P, key, j) < RankOf(P, key, x)
    BY <1>2, <1>4, <2>1, RankGrows
  <2>. QED
    BY <1>6, <2>2
<1>. QED
  BY <1>1, <1>7

\* What atoi3() reads is one number of at most three digits.
LEMMA ReadNumber ==
    ASSUME NEW t, Atoi3(t) # Invalid
    PROVE  Len(t) = 1 /\ t[1] \in 0 .. 999
  BY DEF Atoi3

LEMMA NotABlock ==
    ASSUME NEW f \in Text, ~NamesBytes(f)
    PROVE  ByteInterval(f) = {}
<1>. SUFFICES ASSUME ByteInterval(f) # {} PROVE NamesBytes(f)
  OBVIOUS
<1>1. PICK sep : sep = CHOOSE k \in Places(f, Dash) : \A j \in Places(f, Dash) : k <= j
  OBVIOUS
<1>2. PICK a, b : /\ a = (IF Places(f, Dash) = {} THEN Atoi3(f) ELSE Atoi3(Before(f, sep)))
                  /\ b = (IF Places(f, Dash) = {} THEN a ELSE Atoi3(After(f, sep)))
  OBVIOUS
<1>3. a # Invalid /\ b # Invalid
  BY <1>1, <1>2 DEF ByteInterval
<1>4. CASE Places(f, Dash) = {}
  <2>1. Atoi3(f) # Invalid
    BY <1>2, <1>3, <1>4
  <2>2. Len(f) = 1 /\ f[1] \in 0 .. 999
    BY <2>1, ReadNumber
  <2>. QED
    BY <2>2 DEF NamesBytes, IsNumber
<1>5. CASE Places(f, Dash) # {}
  <2>1. sep \in Places(f, Dash)
    BY <1>1, <1>5, FirstPlace
  <2>2. PICK l \in Nat : l = Len(f)
    BY TokensAreIntegers
  <2>3. sep \in 1 .. l /\ f[sep] = Dash
    BY <2>1, <2>2 DEF Places
  <2>4. Atoi3(Before(f, sep)) # Invalid /\ Atoi3(After(f, sep)) # Invalid
    BY <1>2, <1>3, <1>5
  <2>5. /\ Len(Before(f, sep)) = 1 /\ Before(f, sep)[1] \in 0 .. 999
        /\ Len(After(f, sep)) = 1 /\ After(f, sep)[1] \in 0 .. 999
    BY <2>4, ReadNumber
  <2>6. PICK m \in 0 .. l - 1 : m = sep - 1
    BY <2>3
  <2>7. sep = 2
    <3>1. 1 \in Int /\ m \in Int /\ \A i \in 1 .. m : f[i] \in Int
      BY <2>2, <2>6, TokensAreIntegers
    <3>2. Len(SubSeq(f, 1, m)) = IF 1 <= m THEN m - 1 + 1 ELSE 0
      BY <3>1, SubSeqProperties
    <3>3. Len(SubSeq(f, 1, m)) = m
      BY <3>2, <2>2, <2>6
    <3>4. m = 1
      BY <2>5, <2>6, <3>3, ZenonT(30) DEF Before
    <3>. QED
      BY <2>3, <2>6, <3>4
  <2>8. Len(After(f, sep)) = l - sep
    BY <2>2, <2>3, PartsAreTexts
  <2>9. l = 3
    <3>1. PICK e : e = Len(After(f, sep))
      OBVIOUS
    <3>2. e = 1
      BY <2>5, <3>1
    <3>3. e = l - 2
      BY <2>7, <2>8, <3>1
    <3>4. l \in Nat
      BY <2>2
    <3>. QED
      BY <3>2, <3>3, <3>4
  <2>10. Before(f, sep)[1] = f[1] /\ After(f, sep)[1] = f[3]
    <3>1. 2 - 1 = 1 /\ 2 + 1 = 3 /\ 1 \in Int /\ 3 \in Int
      OBVIOUS
    <3>2. SubSeq(f, 1, 1) = <<f[1]>> /\ SubSeq(f, 3, 3) = <<f[3]>>
      BY <3>1, SubSeqOne
    <3>3. Before(f, sep) = <<f[1]>> /\ After(f, sep) = <<f[3]>>
      BY <2>2, <2>7, <2>9, <3>1, <3>2 DEF Before, After
    <3>. QED
      BY <3>3
  <2>. QED
    <3>1. Len(f) = 3 /\ f[2] = Dash
      BY <2>2, <2>3, <2>7, <2>9, Zenon
    <3>2. IsNumber(f[1]) /\ IsNumber(f[3])
      BY <2>5, <2>10 DEF IsNumber
    <3>. QED
      BY <3>1, <3>2, Zenon DEF NamesBytes
<1>. QED
  BY <1>4, <1>5

LEMMA SpanIsRefused ==
    ASSUME NEW s \in Text, Places(s, Dash) # {},
           \A k \in Places(s, Dash) : \/ ~IsBytes(Before(s, k), 4)
                                      \/ \A n \in {1, 4} : ~IsBytes(After(s, k), n)
    PROVE  ParsedSpan(s) = Refused
<1>. DEFINE sep == CHOOSE k \in Places(s, Dash) : TRUE
            a == Ipv4ToI(Before(s, sep), 3)
            whole == Ipv4ToI(After(s, sep), 3)
            last == Atoi3(After(s, sep))
            b == IF whole # Invalid THEN whole
                 ELSE IF IsByte(last) THEN a - (a % Radix) + last
                 ELSE Invalid
<1>1. sep \in Places(s, Dash) /\ sep \in 1 .. Len(s)
  BY PlacesFacts
<1>2. ParsedSpan(s) = IF a = Invalid \/ b = Invalid THEN Refused
                      ELSE Reads({<<Least(a, b), Greatest(a, b)>>})
  BY DEF ParsedSpan
<1>. HIDE DEF sep
<1>3. Before(s, sep) \in Text /\ After(s, sep) \in Text
  BY <1>1, PartsAreTexts
<1>4. CASE ~IsBytes(Before(s, sep), 4)
  <2>1. a = Invalid
    BY <1>3, <1>4, NotAnAddress
  <2>. HIDE DEF a, b
  <2>. QED
    BY <1>2, <2>1
<1>5. CASE ~IsBytes(After(s, sep), 1) /\ ~IsBytes(After(s, sep), 4)
  <2>1. whole = Invalid /\ ~IsByte(last)
    BY <1>3, <1>5, NotAnAddress
  <2>2. b = Invalid
    BY <2>1
  <2>. HIDE DEF a, b
  <2>. QED
    BY <1>2, <2>2
<1>6. 1 \in {1, 4} /\ 4 \in {1, 4}
  OBVIOUS
<1>. QED
  BY <1>1, <1>4, <1>5, <1>6

LEMMA PrefixIsRefused ==
    ASSUME NEW s \in Text, Places(s, Slash) # {},
           \A k \in Places(s, Slash), n \in 1 .. 4 : ~IsBytes(Before(s, k), n)
    PROVE  ParsedPrefix(s) = Refused
<1>1. PICK slash : slash = CHOOSE k \in Places(s, Slash) : TRUE
  OBVIOUS
<1>2. slash \in Places(s, Slash) /\ slash \in 1 .. Len(s)
  BY <1>1, PlacesFacts
<1>3. Before(s, slash) \in Text
  BY <1>2, PartsAreTexts
<1>4. Ipv4ToI(Before(s, slash), 0) = Invalid
  BY <1>2, <1>3, NotAnAddress
<1>. QED
  BY <1>1, <1>4 DEF ParsedPrefix

LEMMA BlocksAreRefused ==
    ASSUME NEW s \in Text,
           \/ Len(Fields(s)) # 4
           \/ \E k \in 1 .. 3 : ~NamesBytes(Fields(s)[k])
           \/ Places(Fields(s)[4], Dash) # {} /\ ~NamesBytes(Fields(s)[4])
    PROVE  ParsedBlocks(s) = Refused
<1>. DEFINE f == Fields(s)
            B(k) == ByteInterval(f[k])
            R == {<<Address(x, y, z, Min(B(4))), Address(x, y, z, Max(B(4)))>> :
                    x \in B(1), y \in B(2), z \in B(3)}
<1>1. ParsedBlocks(s) =
        IF Len(f) # 4 \/ (\E k \in 1 .. 3 : B(k) = {}) THEN Refused
        ELSE IF Places(f[4], Dash) = {} THEN Undefined
        ELSE IF B(4) = {} THEN Refused
        ELSE Reads(R)
  BY DEF ParsedBlocks
<1>2. Len(f) = 4 => \A k \in 1 .. 4 : ~NamesBytes(f[k]) => B(k) = {}
  BY FieldsFacts, NotABlock
<1>. HIDE DEF f, B, R
<1>3. (\A k \in 1 .. 3 : k \in 1 .. 4) /\ 4 \in 1 .. 4
  OBVIOUS
<1>. QED
  BY <1>1, <1>2, <1>3 DEF f

LEMMA NothingIsRefused ==
    ASSUME NEW s \in Text, NamesNothing(s)
    PROVE  Parsed(s).outcome = "refused"
<1>1. PICK d \in Nat, n \in Nat : d = Cardinality(Places(s, Dash)) /\ n = Cardinality(Places(s, Slash))
  BY PlacesFacts
<1>2. (d = 0 <=> Places(s, Dash) = {}) /\ (n = 0 <=> Places(s, Slash) = {})
  BY <1>1, PlacesFacts
<1>3. Parsed(s) =
        IF d = 0 /\ n = 0 THEN ParsedAddress(s)
        ELSE IF d = 1 /\ n = 0 THEN ParsedSpan(s)
        ELSE IF d = 1 \/ n > 1 THEN Refused
        ELSE IF d = 0 THEN ParsedPrefix(s)
        ELSE ParsedBlocks(s)
  BY <1>1 DEF Parsed
<1>4. \/ d = 0 /\ n = 0 /\ ~IsBytes(s, 4)
      \/ /\ d = 1 /\ n = 0
         /\ \A k \in Places(s, Dash) : \/ ~IsBytes(Before(s, k), 4)
                                       \/ \A i \in {1, 4} : ~IsBytes(After(s, k), i)
      \/ /\ d = 0 /\ n = 1
         /\ \A k \in Places(s, Slash), i \in 1 .. 4 : ~IsBytes(Before(s, k), i)
      \/ d = 1 /\ n # 0
      \/ n > 1
      \/ /\ d > 1
         /\ \/ Len(Fields(s)) # 4
            \/ \E k \in 1 .. 3 : ~NamesBytes(Fields(s)[k])
            \/ Places(Fields(s)[4], Dash) # {} /\ ~NamesBytes(Fields(s)[4])
  BY <1>1, <1>2 DEF NamesNothing
<1>5. CASE d = 0 /\ n = 0 /\ ~IsBytes(s, 4)
  <2>1. Ipv4ToI(s, 3) = Invalid
    BY <1>5, NotAnAddress
  <2>2. ParsedAddress(s) = Refused
    BY <2>1 DEF ParsedAddress
  <2>. QED
    BY <1>3, <1>5, <2>2, ReadsFacts
<1>6. CASE /\ d = 1 /\ n = 0
           /\ \A k \in Places(s, Dash) : \/ ~IsBytes(Before(s, k), 4)
                                         \/ \A i \in {1, 4} : ~IsBytes(After(s, k), i)
  <2>1. Parsed(s) = ParsedSpan(s)
    BY <1>3, <1>6
  <2>2. ParsedSpan(s) = Refused
    BY <1>2, <1>6, SpanIsRefused
  <2>. QED
    BY <2>1, <2>2, ReadsFacts
<1>7. CASE /\ d = 0 /\ n = 1
           /\ \A k \in Places(s, Slash), i \in 1 .. 4 : ~IsBytes(Before(s, k), i)
  <2>1. Parsed(s) = ParsedPrefix(s)
    BY <1>3, <1>7
  <2>2. ParsedPrefix(s) = Refused
    BY <1>2, <1>7, PrefixIsRefused
  <2>. QED
    BY <2>1, <2>2, ReadsFacts
<1>8. CASE (d = 1 /\ n # 0) \/ n > 1
  BY <1>3, <1>8, ReadsFacts
<1>9. CASE /\ d > 1 /\ ~(n > 1)
           /\ \/ Len(Fields(s)) # 4
              \/ \E k \in 1 .. 3 : ~NamesBytes(Fields(s)[k])
              \/ Places(Fields(s)[4], Dash) # {} /\ ~NamesBytes(Fields(s)[4])
  <2>1. Parsed(s) = ParsedBlocks(s)
    BY <1>3, <1>9
  <2>2. ParsedBlocks(s) = Refused
    BY <1>9, BlocksAreRefused
  <2>. QED
    BY <2>1, <2>2, ReadsFacts
<1>. QED
  BY <1>4, <1>5, <1>6, <1>7, <1>8, <1>9

------------------------------------------------------------------------------
(* The file has the dumped list, up to where it was cut. *)

Whole(by, s) == IF by = "dump_stream" THEN Streamed(s) ELSE Memory(s)

IsCut(f, s, c) ==
    \E n \in 0 .. Len(Whole(f.by, s)) :
        /\ f = [by |-> f.by, bytes |-> SubSeq(Whole(f.by, s), 1, n)]
        /\ c = (n = Len(Whole(f.by, s)))

\* Before a dump the containers have legal intervals; after it nothing changes the
\* file, and a read is the last call.
DumpInv ==
    /\ file = NoFile =>
         /\ intervals \in Seq(LegalInterval) /\ removed \in Seq(LegalInterval)
         /\ io = "none"
    /\ file # NoFile =>
         /\ file.by \in {"dump_to_file", "dump_stream"}
         /\ dumped \in Seq(LegalInterval) /\ Len(dumped) <= MaxHeld
         /\ IsCut(file, dumped, complete)

AddressInv == DumpInv /\ ReadBackIsDumped /\ StreamReadsBack

LEMMA NotReadYet ==
    ASSUME io \in {"none", "refilled", "short"}
    PROVE  ReadBackIsDumped /\ StreamReadsBack
<1>1. io # "returned" /\ io # "invalid" /\ io # "bad size"
  OBVIOUS
<1>. QED
  BY <1>1 DEF ReadBackIsDumped, StreamReadsBack

LEMMA AddressInvInit == AddressInit => AddressInv
<1>. SUFFICES ASSUME AddressInit PROVE AddressInv
  OBVIOUS
<1>1. intervals = <<>> /\ removed = <<>> /\ file = NoFile /\ io = "none"
  BY DEF AddressInit, Init
<1>2. DumpInv
  BY <1>1 DEF DumpInv
<1>. QED
  BY <1>1, <1>2, NotReadYet DEF AddressInv

\* A call before the dump.
LEMMA ChangeKeeps ==
    ASSUME DumpInv, file = NoFile, file' = file, io' = io,
           intervals' \in Seq(LegalInterval), removed' \in Seq(LegalInterval)
    PROVE  AddressInv'
<1>1. io' = "none" /\ file' = NoFile
  BY DEF DumpInv, NoFile
<1>2. DumpInv'
  BY <1>1 DEF DumpInv, NoFile
<1>3. ReadBackIsDumped' /\ StreamReadsBack'
  BY <1>1 DEF ReadBackIsDumped, StreamReadsBack, NoFile
<1>. QED
  BY <1>2, <1>3 DEF AddressInv

LEMMA InsertKeeps ==
    ASSUME DumpInv, MayChange, NEW op, NEW s \in Seq(LegalInterval), Insert(op, s),
           NEW what, NEW answer, Asks(what, answer)
    PROVE  AddressInv'
<1>1. file = NoFile /\ file' = file /\ io' = io
  BY DEF MayChange, MayCall, Asks, disk
<1>2. intervals \in Seq(LegalInterval) /\ removed \in Seq(LegalInterval)
  BY <1>1 DEF DumpInv
<1>3. CASE AddIntervals(s)
  <2>1. intervals' = intervals \o s /\ removed' = removed
    BY <1>3 DEF AddIntervals
  <2>. QED
    BY <1>1, <1>2, <2>1, ConcatFacts, ChangeKeeps
<1>4. CASE RemoveIntervals(s)
  <2>1. removed' = removed \o s /\ intervals' = intervals
    BY <1>4 DEF RemoveIntervals
  <2>. QED
    BY <1>1, <1>2, <2>1, ConcatFacts, ChangeKeeps
<1>. QED
  BY <1>3, <1>4 DEF Insert

LEMMA TextKeeps ==
    ASSUME DumpInv, NEW text \in Text, NEW op, TextCall(text, op)
    PROVE  AddressInv'
<1>1. PICK answer : answer = Parsed(text)
  OBVIOUS
<1>2. /\ MayChange /\ Asks(text, answer.outcome)
      /\ IF answer.outcome = "read" THEN Insert(op, Intervals(answer.ranges)) ELSE UNCHANGED vars
  BY <1>1 DEF TextCall
<1>3. CASE answer.outcome = "read"
  <2>1. Intervals(answer.ranges) \in Seq(LegalInterval)
    BY <1>1, <1>3, ParsedIsRanges, IntervalsFacts
  <2>2. Insert(op, Intervals(answer.ranges))
    BY <1>2, <1>3
  <2>. QED
    BY <1>2, <2>1, <2>2, InsertKeeps
<1>4. CASE answer.outcome # "read"
  <2>1. intervals' = intervals /\ removed' = removed
    BY <1>2, <1>4 DEF vars, lists
  <2>2. file = NoFile /\ file' = file /\ io' = io
    BY <1>2 DEF MayChange, MayCall, Asks, disk
  <2>3. intervals \in Seq(LegalInterval) /\ removed \in Seq(LegalInterval)
    BY <2>2 DEF DumpInv
  <2>. QED
    BY <2>1, <2>2, <2>3, ChangeKeeps
<1>. QED
  BY <1>3, <1>4

LEMMA ArgumentKeeps ==
    ASSUME DumpInv, NEW text \in Text, Argument(text)
    PROVE  AddressInv'
<1>1. CASE text # <<>> /\ text[1] = Dash
  <2>1. Tail(text) \in Text
    BY <1>1 DEF Text
  <2>2. TextCall(Tail(text), "remove")
    BY <1>1 DEF Argument, RemoveText
  <2>. QED
    BY <2>1, <2>2, TextKeeps
<1>2. CASE ~(text # <<>> /\ text[1] = Dash)
  <2>1. TextCall(text, "add")
    BY <1>2 DEF Argument, AddText
  <2>. QED
    BY <2>1, TextKeeps
<1>. QED
  BY <1>1, <1>2

LEMMA PortsLegal ==
    ASSUME NEW a \in 0 .. PortRadix - 1, NEW b \in 0 .. PortRadix - 1, a <= b,
           NEW p \in Protocols
    PROVE  /\ Ports(a, b, p) \in LegalInterval
           /\ Port(a, p) \in Nat /\ Port(b, p) \in Nat
           /\ Port(a, p) = a + (p * PortRadix) /\ Port(b, p) = b + (p * PortRadix)
           /\ Port(b, p) + 1 \in Value /\ Port(a, p) <= Port(b, p)
           /\ Ports(a, b, p).lower = Port(a, p) /\ Ports(a, b, p).upper = Port(b, p) + 1
<1>1. PICK r \in Nat \ {0} : r = PortRadix
  BY TextAssumption
<1>2. Word \in Nat \ {0} /\ Word % r = 0
  BY <1>1, TextAssumption, WordAssumption
<1>3. PICK q \in Nat : q = Word \div r /\ Word = r * q
  <2>1. PICK w \in Nat : w = Word
    BY <1>2
  <2>2. w \div r \in Nat /\ w = (r * (w \div r)) + (w % r)
    BY DivFacts
  <2>3. PICK q, x \in Nat : q = w \div r /\ x = r * q
    BY <2>2
  <2>4. w = x
    BY <1>2, <2>1, <2>2, <2>3
  <2>. QED
    BY <2>1, <2>3, <2>4
<1>4. p \in 0 .. q - 2
  BY <1>1, <1>3, AddressAssumption
<1>5. PICK m \in Nat : m = p * r
  BY <1>4
<1>6. m + r + r <= Word
  <2>1. PICK d \in Nat : q = p + 2 + d
    BY <1>4
  <2>2. r * q = (p * r) + r + r + (r * d) /\ r * d \in Nat
    BY <1>4, <2>1
  <2>. QED
    BY <1>3, <1>5, <2>2
<1>7. Port(a, p) = a + m /\ Port(b, p) = b + m
  BY <1>1, <1>5 DEF Port
<1>8. a \in 0 .. r - 1 /\ b \in 0 .. r - 1
  BY <1>1
<1>9. a + m \in Value /\ b + m + 1 \in Value /\ a + m <= b + m + 1 /\ a + m <= b + m
  BY <1>2, <1>6, <1>8 DEF Value
<1>. QED
  BY <1>1, <1>5, <1>7, <1>8, <1>9, ItvLegal DEF Ports

LEMMA PortKeeps ==
    ASSUME DumpInv, NEW a \in {0, 1, PortRadix - 1}, NEW b \in {0, 1, PortRadix - 1}, a <= b,
           NEW p \in Protocols, NEW op, PortCall(a, b, p, op)
    PROVE  AddressInv'
<1>1. a \in 0 .. PortRadix - 1 /\ b \in 0 .. PortRadix - 1
  BY TextAssumption
<1>2. <<Ports(a, b, p)>> \in Seq(LegalInterval)
  BY <1>1, PortsLegal
<1>3. MayChange /\ Asks(<<a, b, p>>, "read") /\ Insert(op, <<Ports(a, b, p)>>)
  BY DEF PortCall
<1>. QED
  BY <1>2, <1>3, InsertKeeps

LEMMA OneKeeps ==
    ASSUME DumpInv, NEW a \in {0, Word - 1}, NEW op, AddressCall(a, op)
    PROVE  AddressInv'
<1>1. MayChange /\ Asks(<<>>, "none")
  BY DEF AddressCall
<1>2. CASE a # Word - 1
  <2>1. 0 \in Value /\ 1 \in Value /\ a = 0
    BY <1>2, WordAssumption DEF Value
  <2>2. <<Itv(a, a + 1)>> \in Seq(LegalInterval)
    BY <2>1, ItvLegal
  <2>3. Insert(op, <<Itv(a, a + 1)>>)
    BY <1>2 DEF AddressCall
  <2>. QED
    BY <1>1, <2>2, <2>3, InsertKeeps
<1>3. CASE a = Word - 1
  <2>1. intervals' = intervals /\ removed' = removed
    BY <1>3 DEF AddressCall, vars, lists
  <2>2. file = NoFile /\ file' = file /\ io' = io
    BY <1>1 DEF MayChange, MayCall, Asks, disk
  <2>3. intervals \in Seq(LegalInterval) /\ removed \in Seq(LegalInterval)
    BY <2>2 DEF DumpInv
  <2>. QED
    BY <2>1, <2>2, <2>3, ChangeKeeps
<1>. QED
  BY <1>2, <1>3

LEMMA AggregateKeeps ==
    ASSUME DumpInv, AggregateAll
    PROVE  AddressInv'
<1>1. file = NoFile /\ file' = file /\ io' = io
  BY DEF AggregateAll, MayCall, Asks, disk
<1>2. intervals \in Seq(LegalInterval) /\ removed \in Seq(LegalInterval)
  BY <1>1 DEF DumpInv
<1>3. PICK agg : agg = Aggregated(intervals, removed)
  OBVIOUS
<1>4. intervals' = agg.intervals /\ removed' = agg.removed
  BY <1>3 DEF AggregateAll, Aggregate
<1>5. agg.intervals \in Seq(LegalInterval) /\ agg.removed = IF intervals = <<>> THEN removed ELSE <<>>
  BY <1>2, <1>3, AggregatedFacts
<1>6. <<>> \in Seq(LegalInterval)
  OBVIOUS
<1>. QED
  BY <1>1, <1>2, <1>4, <1>5, <1>6, ChangeKeeps

LEMMA WholeIsBytes ==
    ASSUME NEW s \in Seq(LegalInterval), Len(s) <= MaxHeld, NEW by
    PROVE  Whole(by, s) \in Seq(ByteValue) /\ Len(Whole(by, s)) \in Nat
<1>1. s \in Seq(Interval) /\ Len(s) \in Nat
  BY LegalSeqIsInterval
<1>2. Memory(s) \in Seq(ByteValue)
  BY <1>1, MemoryFacts
<1>3. Streamed(s) \in Seq(ByteValue)
  <2>1. Len(s) < Len(Digits) * Len(Digits)
    <3>1. PICK w \in Nat : w = Len(Digits) * Len(Digits)
      BY DigitFacts
    <3>2. MaxHeld \in Nat /\ MaxHeld < w
      BY <3>1, AddressAssumption
    <3>. QED
      BY <1>1, <3>1, <3>2
  <2>2. Numeral(Len(s)) \in Seq(ByteValue)
    BY <1>1, <2>1, NumeralFacts
  <2>. QED
    BY <1>2, <2>2, ConcatProperties DEF Streamed
<1>. QED
  BY <1>2, <1>3 DEF Whole

LEMMA DumpKeeps ==
    ASSUME DumpInv, NEW by \in {"dump_to_file", "dump_stream"}, NEW n \in Nat,
           Dump(by, Whole(by, intervals), n)
    PROVE  AddressInv'
<1>1. file = NoFile /\ Len(intervals) <= MaxHeld /\ n <= Len(Whole(by, intervals))
  BY DEF Dump, MayCall
<1>2. intervals \in Seq(LegalInterval) /\ io = "none"
  BY <1>1 DEF DumpInv
<1>3. /\ file' = [by |-> by, bytes |-> SubSeq(Whole(by, intervals), 1, n)]
      /\ dumped' = intervals /\ complete' = (n = Len(Whole(by, intervals))) /\ io' = io
  BY DEF Dump
<1>4. file'.by = by /\ file' # NoFile
  <2>1. by # "none"
    OBVIOUS
  <2>2. file'.by = by /\ NoFile.by = "none"
    BY <1>3 DEF NoFile
  <2>. QED
    BY <2>1, <2>2
<1>5. n \in 0 .. Len(Whole(by, intervals))
  BY <1>1, <1>2, WholeIsBytes
<1>6. IsCut(file', dumped', complete')
  <2>1. Whole(file'.by, dumped') = Whole(by, intervals)
    BY <1>3, <1>4
  <2>. QED
    BY <1>3, <1>4, <1>5, <2>1 DEF IsCut
<1>7. DumpInv'
  BY <1>1, <1>2, <1>3, <1>4, <1>6 DEF DumpInv
<1>8. ReadBackIsDumped' /\ StreamReadsBack'
  BY <1>2, <1>3 DEF ReadBackIsDumped, StreamReadsBack
<1>. QED
  BY <1>7, <1>8 DEF AddressInv

\* The bytes of the file.
LEMMA FileFacts ==
    ASSUME DumpInv, file # NoFile
    PROVE  /\ dumped \in Seq(LegalInterval) /\ Len(dumped) \in Nat
           /\ file.by = "dump_to_file" =>
                \E n \in 0 .. 8 * Len(dumped) :
                   /\ file.bytes \in Seq(ByteValue) /\ Len(file.bytes) = n
                   /\ \A j \in 1 .. n : file.bytes[j] = Memory(dumped)[j]
                   /\ complete <=> n = 8 * Len(dumped)
           /\ file.by = "dump_stream" /\ complete => file.bytes = Streamed(dumped)
<1>1. dumped \in Seq(LegalInterval) /\ Len(dumped) <= MaxHeld /\ IsCut(file, dumped, complete)
  BY DEF DumpInv
<1>2. PICK W : W = Whole(file.by, dumped)
  OBVIOUS
<1>3. W \in Seq(ByteValue) /\ Len(W) \in Nat
  BY <1>1, <1>2, WholeIsBytes
<1>4. PICK n \in 0 .. Len(W) : file = [by |-> file.by, bytes |-> SubSeq(W, 1, n)] /\ complete = (n = Len(W))
  BY <1>1, <1>2 DEF IsCut
<1>5. file.bytes = SubSeq(W, 1, n)
  BY <1>4
<1>6. dumped \in Seq(Interval)
  BY <1>1, LegalSeqIsInterval
<1>7. /\ SubSeq(W, 1, n) \in Seq(ByteValue) /\ Len(SubSeq(W, 1, n)) = n
      /\ \A j \in 1 .. n : SubSeq(W, 1, n)[j] = W[j]
  <2>1. 1 \in Int /\ n \in Int /\ \A i \in 1 .. n : W[i] \in ByteValue
    BY <1>3
  <2>2. /\ SubSeq(W, 1, n) \in Seq(ByteValue)
        /\ Len(SubSeq(W, 1, n)) = IF 1 <= n THEN n - 1 + 1 ELSE 0
        /\ \A i \in 1 .. n - 1 + 1 : SubSeq(W, 1, n)[i] = W[1 + i - 1]
    BY <2>1, SubSeqProperties
  <2>3. (IF 1 <= n THEN n - 1 + 1 ELSE 0) = n /\ n - 1 + 1 = n /\ \A i \in 1 .. n : 1 + i - 1 = i
    BY <1>3
  <2>. QED
    BY <2>2, <2>3
<1>8. ASSUME file.by = "dump_to_file"
      PROVE  \E m \in 0 .. 8 * Len(dumped) :
                   /\ file.bytes \in Seq(ByteValue) /\ Len(file.bytes) = m
                   /\ \A j \in 1 .. m : file.bytes[j] = Memory(dumped)[j]
                   /\ complete <=> m = 8 * Len(dumped)
  <2>1. W = Memory(dumped) /\ Len(W) = 8 * Len(dumped)
    BY <1>2, <1>6, <1>8, MemoryFacts DEF Whole
  <2>. QED
    BY <1>4, <1>5, <1>7, <2>1
<1>9. ASSUME file.by = "dump_stream", complete
      PROVE  file.bytes = Streamed(dumped)
  <2>1. W = Streamed(dumped) /\ n = Len(W)
    BY <1>2, <1>4, <1>9 DEF Whole
  <2>. QED
    BY <1>3, <1>5, <2>1, SubSeqFull
<1>. QED
  BY <1>1, <1>8, <1>9

LEMMA RefillKeeps ==
    ASSUME DumpInv, NEW o, Refill(o)
    PROVE  AddressInv'
<1>1. file # NoFile /\ file' = file /\ dumped' = dumped /\ complete' = complete /\ io' = "refilled"
  BY DEF Refill, disk
<1>2. DumpInv'
  BY <1>1 DEF DumpInv, NoFile
<1>3. ReadBackIsDumped' /\ StreamReadsBack'
  BY <1>1 DEF ReadBackIsDumped, StreamReadsBack
<1>. QED
  BY <1>2, <1>3 DEF AddressInv

LEMMA DumpStays ==
    ASSUME DumpInv, file # NoFile, UNCHANGED disk
    PROVE  /\ DumpInv'
           /\ file' = file /\ dumped' = dumped /\ complete' = complete
<1>1. file' = file /\ dumped' = dumped /\ complete' = complete
  BY DEF disk
<1>. QED
  BY <1>1 DEF DumpInv, NoFile

LEMMA NotNoFile ==
    ASSUME NEW by \in {"dump_to_file", "dump_stream"}, file.by = by
    PROVE  file # NoFile
<1>1. NoFile.by = "none" /\ by # "none"
  BY DEF NoFile
<1>. QED
  BY <1>1

\* A size that is refused is not that of a complete dump.
LEMMA BadSizeKeeps ==
    ASSUME DumpInv, BadSize
    PROVE  AddressInv'
<1>1. /\ file.by = "dump_to_file" /\ Len(file.bytes) % 8 # 0 /\ io' = "bad size"
      /\ UNCHANGED disk
  BY DEF BadSize, MayRead, IntervalSize
<1>2. file # NoFile
  BY <1>1, NotNoFile
<1>3. DumpInv' /\ file' = file /\ dumped' = dumped /\ complete' = complete
  BY <1>1, <1>2, DumpStays
<1>4. ~complete
  <2>1. Len(dumped) \in Nat
    BY <1>2, FileFacts
  <2>2. complete => Len(file.bytes) = 8 * Len(dumped)
    BY <1>1, <1>2, FileFacts
  <2>3. (8 * Len(dumped)) % 8 = 0
    BY <2>1
  <2>. QED
    BY <1>1, <2>2, <2>3
<1>5. ReadBackIsDumped' /\ StreamReadsBack'
  BY <1>1, <1>3, <1>4 DEF ReadBackIsDumped, StreamReadsBack
<1>. QED
  BY <1>3, <1>5 DEF AddressInv

\* All of the file is read.
LEMMA FileIsRead ==
    ASSUME DumpInv, file.by = "dump_to_file", Len(file.bytes) % 8 = 0, NEW g
    PROVE  \E m \in 0 .. Len(dumped) :
             /\ Filled(Len(file.bytes) \div 8, SubSeq(file.bytes, 1, Len(file.bytes)), g) = SubSeq(dumped, 1, m)
             /\ complete => m = Len(dumped)
<1>1. file # NoFile
  BY NotNoFile
<1>2. dumped \in Seq(LegalInterval) /\ Len(dumped) \in Nat
  BY <1>1, FileFacts
<1>3. PICK n \in 0 .. 8 * Len(dumped) :
         /\ file.bytes \in Seq(ByteValue) /\ Len(file.bytes) = n
         /\ \A j \in 1 .. n : file.bytes[j] = Memory(dumped)[j]
         /\ complete <=> n = 8 * Len(dumped)
  BY <1>1, FileFacts
<1>4. PICK m \in 0 .. Len(dumped) : n = 8 * m /\ n \div 8 = m
  BY <1>2, <1>3
<1>5. SubSeq(file.bytes, 1, Len(file.bytes)) = file.bytes
  BY <1>3, SubSeqFull
<1>6. PICK d : d = file.bytes
  OBVIOUS
<1>7. d \in Seq(ByteValue) /\ Len(d) = 8 * m /\ \A j \in 1 .. 8 * m : d[j] = Memory(dumped)[j]
  BY <1>3, <1>4, <1>6
<1>8. Filled(m, d, g) = Held(d)
  <2>1. Filled(m, d, g) = Held([k \in 1 .. 8 * m |-> IF k <= Len(d) THEN d[k] ELSE g])
    BY DEF Filled, IntervalSize
  <2>2. d = [k \in 1 .. 8 * m |-> d[k]] /\ \A k \in 1 .. 8 * m : k <= Len(d)
    BY <1>7
  <2>3. [k \in 1 .. 8 * m |-> IF k <= Len(d) THEN d[k] ELSE g] = d
    BY <2>2
  <2>. QED
    BY <2>1, <2>3
<1>9. Held(d) = SubSeq(dumped, 1, m)
  <2>1. dumped \in Seq(Interval)
    BY <1>2, LegalSeqIsInterval
  <2>. QED
    BY <1>7, <2>1, HeldIsDumped
<1>10. complete => m = Len(dumped)
  BY <1>2, <1>3, <1>4
<1>. QED
  BY <1>3, <1>4, <1>5, <1>6, <1>8, <1>9, <1>10

LEMMA ReadFileKeeps ==
    ASSUME DumpInv, NEW n \in Nat, NEW g, ReadFile(n, g)
    PROVE  AddressInv'
<1>1. PICK size, s : /\ size = Len(file.bytes)
                    /\ s = Filled(size \div 8, SubSeq(file.bytes, 1, n), g)
  OBVIOUS
<1>2. /\ file.by = "dump_to_file" /\ size % 8 = 0 /\ n <= size
      /\ Loads(s, IF n < size THEN "short"
                  ELSE IF \E k \in 1 .. Len(s) : IsRefused(s[k]) THEN "invalid"
                  ELSE "returned")
  BY <1>1 DEF ReadFile, MayRead, IntervalSize
<1>3. file # NoFile
  BY <1>2, NotNoFile
<1>4. DumpInv' /\ file' = file /\ dumped' = dumped /\ complete' = complete
  BY <1>2, <1>3, DumpStays DEF Loads
<1>5. /\ intervals' = s /\ removed' = <<>>
      /\ io' = IF n < size THEN "short"
               ELSE IF \E k \in 1 .. Len(s) : IsRefused(s[k]) THEN "invalid"
               ELSE "returned"
  BY <1>2 DEF Loads
<1>6. CASE n < size
  BY <1>2, <1>4, <1>5, <1>6 DEF AddressInv, ReadBackIsDumped, StreamReadsBack
<1>7. CASE ~(n < size)
  <2>1. dumped \in Seq(LegalInterval) /\ Len(dumped) \in Nat /\ size \in Nat
    BY <1>1, <1>2, <1>3, FileFacts
  <2>2. n = size
    BY <1>2, <1>7, <2>1
  <2>3. PICK m \in 0 .. Len(dumped) : s = SubSeq(dumped, 1, m) /\ (complete => m = Len(dumped))
    BY <1>1, <1>2, <2>2, FileIsRead
  <2>4. Len(s) = m /\ (\A k \in 1 .. m : s[k] = dumped[k]) /\ (complete => s = dumped)
    <3>1. 1 \in Int /\ m \in Int /\ \A i \in 1 .. m : dumped[i] \in LegalInterval
      BY <2>1
    <3>2. /\ Len(SubSeq(dumped, 1, m)) = IF 1 <= m THEN m - 1 + 1 ELSE 0
          /\ \A i \in 1 .. m - 1 + 1 : SubSeq(dumped, 1, m)[i] = dumped[1 + i - 1]
      BY <3>1, SubSeqProperties
    <3>3. (IF 1 <= m THEN m - 1 + 1 ELSE 0) = m /\ m - 1 + 1 = m /\ \A i \in 1 .. m : 1 + i - 1 = i
      BY <2>1
    <3>4. complete => SubSeq(dumped, 1, m) = dumped
      BY <2>1, <2>3, SubSeqFull
    <3>. QED
      BY <2>3, <3>2, <3>3, <3>4
  <2>5. IsPrefix(s, dumped)
    <3>1. SubSeq(s, 1, m) = s
      <4>1. s \in Seq(LegalInterval)
        <5>1. 1 \in Int /\ m \in Int /\ \A i \in 1 .. m : dumped[i] \in LegalInterval
          BY <2>1
        <5>. QED
          BY <2>3, <5>1, SubSeqProperties
      <4>. QED
        BY <2>4, <4>1, SubSeqFull
    <3>. QED
      BY <2>1, <2>3, <2>4, <3>1 DEF IsPrefix
  <2>6. \A k \in 1 .. m : s[k] \in LegalInterval /\ k \in 1 .. Len(dumped)
    BY <2>1, <2>4
  <2>7. CASE \E k \in 1 .. Len(s) : IsRefused(s[k])
    <3>1. PICK k \in 1 .. m : IsRefused(s[k])
      BY <2>4, <2>7
    <3>2. k \in 1 .. Len(dumped) /\ Width(dumped[k]) = 0
      BY <2>4, <2>6, <3>1, LegalFacts DEF IsRefused, Width
    <3>3. io' = "invalid"
      BY <1>5, <1>7, <2>7
    <3>4. ReadBackIsDumped' /\ StreamReadsBack'
      BY <1>2, <1>4, <3>2, <3>3 DEF ReadBackIsDumped, StreamReadsBack
    <3>. QED
      BY <1>4, <3>4 DEF AddressInv
  <2>8. CASE ~\E k \in 1 .. Len(s) : IsRefused(s[k])
    <3>1. \A k \in 1 .. Len(s) : Width(s[k]) > 0
      BY <2>4, <2>6, <2>8, LegalFacts DEF IsRefused, Width
    <3>2. io' = "returned"
      BY <1>5, <1>7, <2>8
    <3>3. ReadBackIsDumped' /\ StreamReadsBack'
      BY <1>2, <1>4, <1>5, <2>4, <2>5, <3>1, <3>2 DEF ReadBackIsDumped, StreamReadsBack
    <3>. QED
      BY <1>4, <3>3 DEF AddressInv
  <2>. QED
    BY <2>7, <2>8
<1>. QED
  BY <1>6, <1>7

LEMMA ReadStreamKeeps ==
    ASSUME DumpInv, NEW g, ReadStream(g)
    PROVE  AddressInv'
<1>1. /\ file.by = "dump_stream"
      /\ Loads(Filled(Count(file.bytes), StreamData(file.bytes), g), "returned")
  BY DEF ReadStream, MayRead
<1>2. file # NoFile
  BY <1>1, NotNoFile
<1>3. DumpInv' /\ file' = file /\ dumped' = dumped /\ complete' = complete
  BY <1>1, <1>2, DumpStays DEF Loads
<1>4. intervals' = Filled(Count(file.bytes), StreamData(file.bytes), g) /\ removed' = <<>>
  BY <1>1 DEF Loads
<1>5. ASSUME complete
      PROVE  \/ intervals' = dumped
             \/ dumped # <<>> /\ Byte(dumped[1].lower, 0) \in Digit
  <2>. SUFFICES ASSUME dumped # <<>> => Byte(dumped[1].lower, 0) \notin Digit
                PROVE  intervals' = dumped
    OBVIOUS
  <2>1. dumped \in Seq(LegalInterval) /\ file.bytes = Streamed(dumped)
    BY <1>1, <1>2, <1>5, FileFacts
  <2>2. Len(dumped) < Len(Digits) * Len(Digits)
    <3>1. PICK w \in Nat : w = Len(Digits) * Len(Digits)
      BY DigitFacts
    <3>2. MaxHeld \in Nat /\ MaxHeld < w
      BY <3>1, AddressAssumption
    <3>3. Len(dumped) <= MaxHeld /\ Len(dumped) \in Nat
      BY <1>2, FileFacts DEF DumpInv
    <3>. QED
      BY <3>1, <3>2, <3>3
  <2>. QED
    BY <1>4, <2>1, <2>2, StreamIsRead
<1>6. ReadBackIsDumped' /\ StreamReadsBack'
  BY <1>1, <1>3, <1>4, <1>5 DEF ReadBackIsDumped, StreamReadsBack, Digit
<1>. QED
  BY <1>3, <1>6 DEF AddressInv

LEMMA AskedAreTexts ==
    /\ \A w \in Documented : w.text \in Text
    /\ Malformed \subseteq Text /\ Lines \subseteq Text
  BY DocumentedFacts, AddressAssumption

LEMMA AddressInvStep == AddressInv /\ [AddressNext]_allVars => AddressInv'
<1>. SUFFICES ASSUME AddressInv, [AddressNext]_allVars PROVE AddressInv'
  OBVIOUS
<1>0. DumpInv
  BY DEF AddressInv
<1>1. ASSUME NEW t \in Text, Argument(t) PROVE AddressInv'
  BY <1>0, <1>1, ArgumentKeeps
<1>1a. ASSUME NEW t \in Text, NEW op, TextCall(t, op) PROVE AddressInv'
  BY <1>0, <1>1a, TextKeeps
<1>2. ASSUME NEW a \in {0, Word - 1}, NEW op, AddressCall(a, op) PROVE AddressInv'
  BY <1>0, <1>2, OneKeeps
<1>3. ASSUME NEW a \in {0, 1, PortRadix - 1}, NEW b \in {0, 1, PortRadix - 1}, a <= b,
             NEW p \in Protocols, NEW op, PortCall(a, b, p, op)
      PROVE  AddressInv'
  BY <1>0, <1>3, PortKeeps
<1>4. CASE AggregateAll
  BY <1>0, <1>4, AggregateKeeps
<1>5. CASE Change
  BY <1>1, <1>1a, <1>2, <1>3, <1>4, <1>5, AskedAreTexts DEF Change
<1>6. ASSUME NEW o \in Others, Refill(o) PROVE AddressInv'
  BY <1>0, <1>6, RefillKeeps
<1>7. ASSUME NEW n \in 0 .. IntervalSize * MaxHeld + 2, DumpToFile(n) \/ DumpStream(n)
      PROVE  AddressInv'
  <2>1. n \in Nat
    OBVIOUS
  <2>2. Memory(intervals) = Whole("dump_to_file", intervals) /\ Streamed(intervals) = Whole("dump_stream", intervals)
    BY DEF Whole
  <2>. QED
    BY <1>0, <1>7, <2>1, <2>2, DumpKeeps DEF DumpToFile, DumpStream
<1>8. CASE BadSize
  BY <1>0, <1>8, BadSizeKeeps
<1>9. ASSUME NEW n \in 0 .. IntervalSize * MaxHeld, NEW g \in Garbage, ReadFile(n, g)
      PROVE  AddressInv'
  BY <1>0, <1>9, ReadFileKeeps
<1>10. ASSUME NEW g \in Garbage, ReadStream(g) PROVE AddressInv'
  BY <1>0, <1>10, ReadStreamKeeps
<1>11. CASE UNCHANGED allVars
  BY <1>11 DEF allVars, vars, lists, disk, AddressInv, DumpInv, ReadBackIsDumped, StreamReadsBack
<1>. QED
  BY <1>5, <1>6, <1>7, <1>8, <1>9, <1>10, <1>11 DEF AddressNext

LEMMA AddressInvariance == AddressSpec => []AddressInv
  BY AddressInvInit, AddressInvStep, PTL DEF AddressSpec

\* A file that is read gives the dumped list, or an initial part of it when the dump
\* was cut, and never an interval that was not dumped or one without values; a complete
\* dump is refused only for an interval without values, and never for its size
\* (list_intervals::dump_to_file, read_from_fd).
THEOREM FilesReadBack == AddressSpec => []ReadBackIsDumped
  BY AddressInvariance, PTL DEF AddressInv

\* A complete stream gives the list back, whatever was not initialised, unless the
\* first byte after the count is a digit (list_intervals::dump_stream, read_stream).
THEOREM StreamsReadBack == AddressSpec => []StreamReadsBack
  BY AddressInvariance, PTL DEF AddressInv

------------------------------------------------------------------------------
(* What was asked last. *)

\* The last text was parsed, and what was read from it is what the call took; the
\* same for the last ports.  Nothing is asked once the list is dumped.
Answered ==
    /\ request \in Text /\ outcome = Parsed(request).outcome
    /\ outcome = "read" => called.set = Covered(Intervals(Parsed(request).ranges))

PortsAnswered ==
    \E a, b \in {0, 1, PortRadix - 1}, p \in Protocols :
        /\ a <= b /\ request = <<a, b, p>>
        /\ called.set = Covered(<<Ports(a, b, p)>>)

RequestInv ==
    /\ kind \in {"ip", "port"}
    /\ file # NoFile => outcome = "none"
    /\ kind = "ip" /\ outcome # "none" => Answered
    /\ kind = "port" /\ outcome # "none" => PortsAnswered

LEMMA RequestInit == AddressInit => RequestInv
<1>. SUFFICES ASSUME AddressInit PROVE RequestInv
  OBVIOUS
<1>1. kind \in {"ip", "port"} /\ outcome = "none"
  BY DEF AddressInit
<1>. QED
  BY <1>1 DEF RequestInv

LEMMA InsertCalls ==
    ASSUME NEW op, NEW s, Insert(op, s)
    PROVE  called'.set = Covered(s)
  BY DEF Insert, AddIntervals, RemoveIntervals, Calls, TheCall

LEMMA NothingAsked ==
    ASSUME RequestInv, kind' = kind, outcome' = "none"
    PROVE  RequestInv'
  BY DEF RequestInv

LEMMA TextAsked ==
    ASSUME RequestInv, NEW text \in Text, NEW op, TextCall(text, op)
    PROVE  RequestInv'
<1>1. PICK answer : answer = Parsed(text)
  OBVIOUS
<1>2. /\ kind = "ip" /\ file = NoFile
      /\ request' = text /\ outcome' = answer.outcome /\ kind' = kind /\ file' = file
      /\ answer.outcome = "read" => Insert(op, Intervals(answer.ranges))
  BY <1>1 DEF TextCall, MayChange, MayCall, Asks, disk
<1>3. Answered'
  <2>1. answer.outcome = "read" => called'.set = Covered(Intervals(answer.ranges))
    BY <1>2, InsertCalls
  <2>. QED
    BY <1>1, <1>2, <2>1 DEF Answered
<1>4. kind' = "ip" /\ file' = NoFile'
  BY <1>2 DEF NoFile
<1>. QED
  BY <1>3, <1>4 DEF RequestInv

LEMMA ArgumentAsked ==
    ASSUME RequestInv, NEW text \in Text, Argument(text)
    PROVE  RequestInv'
<1>1. CASE text # <<>> /\ text[1] = Dash
  <2>1. Tail(text) \in Text
    BY <1>1 DEF Text
  <2>2. TextCall(Tail(text), "remove")
    BY <1>1 DEF Argument, RemoveText
  <2>. QED
    BY <2>1, <2>2, TextAsked
<1>2. CASE ~(text # <<>> /\ text[1] = Dash)
  <2>1. TextCall(text, "add")
    BY <1>2 DEF Argument, AddText
  <2>. QED
    BY <2>1, TextAsked
<1>. QED
  BY <1>1, <1>2

LEMMA PortsAsked ==
    ASSUME RequestInv, NEW a \in {0, 1, PortRadix - 1}, NEW b \in {0, 1, PortRadix - 1}, a <= b,
           NEW p \in Protocols, NEW op, PortCall(a, b, p, op)
    PROVE  RequestInv'
<1>1. /\ kind = "port" /\ file = NoFile
      /\ request' = <<a, b, p>> /\ kind' = kind /\ file' = file
      /\ Insert(op, <<Ports(a, b, p)>>)
  BY DEF PortCall, MayChange, MayCall, Asks, disk
<1>2. called'.set = Covered(<<Ports(a, b, p)>>)
  BY <1>1, InsertCalls
<1>3. PortsAnswered'
  BY <1>1, <1>2 DEF PortsAnswered
<1>4. kind' = "port" /\ file' = NoFile'
  BY <1>1 DEF NoFile
<1>. QED
  BY <1>3, <1>4 DEF RequestInv

LEMMA RequestStep == RequestInv /\ [AddressNext]_allVars => RequestInv'
<1>. SUFFICES ASSUME RequestInv, [AddressNext]_allVars PROVE RequestInv'
  OBVIOUS
<1>1. ASSUME NEW t \in Text, Argument(t) PROVE RequestInv'
  BY <1>1, ArgumentAsked
<1>1a. ASSUME NEW t \in Text, NEW op, TextCall(t, op) PROVE RequestInv'
  BY <1>1a, TextAsked
<1>2. ASSUME NEW a \in {0, Word - 1}, NEW op, AddressCall(a, op) PROVE RequestInv'
  BY <1>2, NothingAsked DEF AddressCall, Asks
<1>3. ASSUME NEW a \in {0, 1, PortRadix - 1}, NEW b \in {0, 1, PortRadix - 1}, a <= b,
             NEW p \in Protocols, NEW op, PortCall(a, b, p, op)
      PROVE  RequestInv'
  BY <1>3, PortsAsked
<1>4. CASE AggregateAll
  BY <1>4, NothingAsked DEF AggregateAll, Asks
<1>5. CASE Change
  BY <1>1, <1>1a, <1>2, <1>3, <1>4, <1>5, AskedAreTexts DEF Change
<1>6. ASSUME file # NoFile, kind' = kind, outcome' = outcome PROVE RequestInv'
  <2>1. outcome' = "none"
    BY <1>6 DEF RequestInv
  <2>. QED
    BY <1>6, <2>1, NothingAsked
<1>7. ASSUME NEW o \in Others, Refill(o) PROVE RequestInv'
  BY <1>6, <1>7 DEF Refill
<1>8. ASSUME NEW n \in 0 .. IntervalSize * MaxHeld + 2, DumpToFile(n) \/ DumpStream(n)
      PROVE  RequestInv'
  BY <1>8, NothingAsked DEF DumpToFile, DumpStream, Dump
<1>9. ASSUME NEW by \in {"dump_to_file", "dump_stream"}, MayRead(by) PROVE file # NoFile
  BY <1>9, NotNoFile DEF MayRead
<1>10. CASE BadSize
  BY <1>6, <1>9, <1>10 DEF BadSize
<1>11. ASSUME NEW n, NEW g, ReadFile(n, g) PROVE RequestInv'
  <2>1. MayRead("dump_to_file") /\ kind' = kind /\ outcome' = outcome
    BY <1>11 DEF ReadFile, Loads
  <2>. QED
    BY <1>6, <1>9, <2>1
<1>12. ASSUME NEW g, ReadStream(g) PROVE RequestInv'
  <2>1. MayRead("dump_stream") /\ kind' = kind /\ outcome' = outcome
    BY <1>12 DEF ReadStream, Loads
  <2>. QED
    BY <1>6, <1>9, <2>1
<1>13. CASE UNCHANGED allVars
  BY <1>13 DEF allVars, vars, disk, RequestInv, Answered, PortsAnswered, NoFile
<1>. QED
  BY <1>5, <1>7, <1>8, <1>10, <1>11, <1>12, <1>13 DEF AddressNext

LEMMA PortsCovered ==
    ASSUME NEW a \in {0, 1, PortRadix - 1}, NEW b \in {0, 1, PortRadix - 1}, a <= b,
           NEW p \in Protocols
    PROVE  Covered(<<Ports(a, b, p)>>) = {Port(v, p) : v \in a .. b}
<1>1. PICK x \in Nat, y \in Nat, m \in Nat :
        /\ x = a /\ y = b /\ x <= y /\ x \in 0 .. PortRadix - 1 /\ y \in 0 .. PortRadix - 1
        /\ m = p * PortRadix
  <2>1. a \in 0 .. PortRadix - 1 /\ b \in 0 .. PortRadix - 1
    BY TextAssumption
  <2>2. p * PortRadix \in Nat
    <3>1. Port(a, p) \in Nat /\ Port(a, p) = a + (p * PortRadix)
      BY <2>1, PortsLegal
    <3>2. PICK q \in Nat, r \in Nat : q = Word \div PortRadix /\ r = PortRadix
      <4>1. PICK r \in Nat \ {0} : r = PortRadix
        BY TextAssumption
      <4>2. PICK w \in Nat : w = Word
        BY WordAssumption
      <4>3. w \div r \in Nat
        BY <4>1, <4>2, DivFacts
      <4>. QED
        BY <4>1, <4>2, <4>3
    <3>3. p \in 0 .. q - 2
      BY <3>2, AddressAssumption
    <3>4. p \in Nat
      BY <3>2, <3>3
    <3>5. p * r \in Nat
      BY <3>2, <3>4
    <3>. QED
      BY <3>2, <3>5
  <2>. QED
    BY <2>1, <2>2
<1>2. PICK i : i = Ports(a, b, p)
  OBVIOUS
<1>3. /\ i \in LegalInterval /\ i.lower = x + m /\ i.upper = (y + m) + 1
      /\ (y + m) + 1 \in Value
  BY <1>1, <1>2, PortsLegal
<1>4. ASSUME NEW v PROVE v \in Covered(<<i>>) <=> v \in {Port(u, p) : u \in a .. b}
  <2>1. v \in Covered(<<i>>) <=> v \in Value /\ Has(i, v)
    <3>1. Len(<<i>>) = 1 /\ <<i>>[1] = i /\ \A k \in 1 .. 1 : k = 1
      OBVIOUS
    <3>. QED
      BY <3>1 DEF Covered, InList
  <2>2. \A u \in a .. b : Port(u, p) = u + m
    BY <1>1 DEF Port
  <2>3. ASSUME v \in Value, Has(i, v) PROVE \E u \in a .. b : v = Port(u, p)
    <3>1. v \in Nat
      BY <2>3, WordAssumption DEF Value
    <3>2. x + m <= v /\ v < (y + m) + 1
      BY <1>3, <2>3 DEF Has
    <3>3. v - m \in x .. y /\ v = (v - m) + m
      <4>1. x \in Nat /\ y \in Nat /\ m \in Nat
        BY <1>1
      <4>. QED
        BY <3>1, <3>2, <4>1
    <3>4. PICK u \in a .. b : v = u + m
      BY <1>1, <3>3
    <3>. QED
      BY <2>2, <3>4
  <2>4. ASSUME NEW u \in a .. b PROVE Port(u, p) \in Value /\ Has(i, Port(u, p))
    <3>1. Port(u, p) = u + m /\ u \in Nat /\ x <= u /\ u <= y
      BY <1>1, <2>2
    <3>2. u + m \in Nat /\ x + m <= u + m /\ u + m < (y + m) + 1
      BY <1>1, <3>1
    <3>3. u + m \in Value
      BY <1>1, <1>3, <3>2, WordAssumption DEF Value
    <3>. QED
      BY <1>3, <3>1, <3>2, <3>3 DEF Has
  <2>. QED
    BY <2>1, <2>3, <2>4
<1>. QED
  BY <1>2, <1>4

LEMMA RequestsAnswered ==
    ASSUME RequestInv
    PROVE  RequestsAreMet
<1>1. ASSUME NEW w \in Requested, IsBlocks(w.text) => DashAtTheEnd(w.text)
      PROVE  Means(w)
  <2>1. w \in Documented /\ request = w.text /\ kind = "ip" /\ outcome # "none"
    BY DEF Requested
  <2>2. Met(w.text, w.means)
    BY <1>1, <2>1, DocumentedFacts
  <2>3. outcome = "read" /\ called.set = Covered(Intervals(Parsed(request).ranges))
    BY <2>1, <2>2 DEF RequestInv, Answered, Met
  <2>4. called.set = w.means \ {Word - 1}
    BY <2>1, <2>2, <2>3 DEF Met
  <2>. QED
    BY <2>3, <2>4 DEF Means
<1>2. ASSUME kind = "ip", outcome # "none", request \in Malformed
      PROVE  outcome = "refused"
  <2>1. request \in Text /\ NamesNothing(request)
    BY <1>2, AddressAssumption
  <2>2. outcome = Parsed(request).outcome
    BY <1>2 DEF RequestInv, Answered
  <2>. QED
    BY <2>1, <2>2, NothingIsRefused
<1>3. ASSUME kind = "port", JustAsked
      PROVE  called.set = {Port(v, request[3]) : v \in request[1] .. request[2]}
  <2>1. outcome # "none"
    BY <1>3 DEF JustAsked
  <2>2. PICK a, b \in {0, 1, PortRadix - 1}, p \in Protocols :
          a <= b /\ request = <<a, b, p>> /\ called.set = Covered(<<Ports(a, b, p)>>)
    BY <1>3, <2>1 DEF RequestInv, PortsAnswered
  <2>3. Covered(<<Ports(a, b, p)>>) = {Port(v, p) : v \in a .. b}
    BY <2>2, PortsCovered
  <2>4. request[1] = a /\ request[2] = b /\ request[3] = p
    BY <2>2
  <2>. QED
    BY <2>2, <2>3, <2>4
<1>. QED
  BY <1>1, <1>2, <1>3 DEF RequestsAreMet

\* Every text of a documented syntax is read as the addresses it stands for, but for the
\* last one; a text that names nothing is refused, and a range of ports has the ports of
\* its protocol only (ip_list_intervals::add and remove, leeloo::ips_parser,
\* port_list_intervals).  The block texts are those with a dash in the last part.
THEOREM RequestsMet == AddressSpec => []RequestsAreMet
  BY RequestInit, RequestStep, RequestsAnswered, PTL DEF AddressSpec

------------------------------------------------------------------------------
(* What is printed. *)

LEMMA OneInterval ==
    ASSUME NEW r
    PROVE  r[1] \in Int => Intervals({r}) = <<HalfOpen(r)>>
<1>. SUFFICES ASSUME r[1] \in Int PROVE Intervals({r}) = <<HalfOpen(r)>>
  OBVIOUS
<1>1. PICK key : key = [x \in {r} |-> x[1]]
  OBVIOUS
<1>2. PICK t : t = <<r>>
  OBVIOUS
<1>3. Enumerates(t, 1, {r}, key)
  <2>1. \A z \in {r} : key[z] \in Int
    BY <1>1
  <2>2. t \in [1 .. 1 -> {r}] /\ t[1] = r /\ 1 \in 1 .. 1 /\ \A k \in 1 .. 1 : k = 1
    BY <1>2
  <2>. QED
    BY <2>1, <2>2 DEF Enumerates
<1>4. Ordered({r}, key) = t
  <2>1. PICK n \in Nat : n = 1
    OBVIOUS
  <2>2. Enumerates(t, n, {r}, key)
    BY <1>3, <2>1
  <2>. QED
    BY <2>2, OrderedIs
<1>5. Intervals({r}) = [k \in 1 .. Len(t) |-> HalfOpen(t[k])]
  BY <1>1, <1>4 DEF Intervals
<1>6. Len(t) = 1 /\ t[1] = r
  BY <1>2
<1>7. PICK h : h = HalfOpen(r)
  OBVIOUS
<1>8. [k \in 1 .. 1 |-> HalfOpen(t[k])] = [k \in 1 .. 1 |-> h]
  BY <1>6, <1>7
<1>9. [k \in 1 .. 1 |-> h] = <<h>>
  OBVIOUS
<1>. QED
  BY <1>5, <1>6, <1>7, <1>8, <1>9

ReadsBack(i) ==
    LET line == Parsed(Displayed(i))
    IN  line.outcome = "read" /\ Intervals(line.ranges) = <<i>>

LEMMA RangeReadsBack ==
    ASSUME NEW i \in LegalInterval, NEW a \in Value, NEW b \in Value,
           Parsed(Displayed(i)) = Reads({<<a, b>>}), HalfOpen(<<a, b>>) = i
    PROVE  ReadsBack(i)
<1>1. PICK r : r = <<a, b>>
  OBVIOUS
<1>2. r[1] \in Int
  BY <1>1, WordAssumption DEF Value
<1>3. Intervals({r}) = <<i>>
  BY <1>1, <1>2, OneInterval
<1>. QED
  BY <1>1, <1>3, ReadsFacts DEF ReadsBack

\* The prefix of a width.
LEMMA PrefixOfWidth ==
    ASSUME NEW w \in Nat, NEW p \in 0 .. 4 * Bits, w = 2 ^ p, w < Word
    PROVE  /\ p \in 0 .. 4 * Bits - 1
           /\ \E q \in 1 .. 4 * Bits : w * 2 ^ q = Word
           /\ \A q \in 1 .. 4 * Bits : w * 2 ^ q = Word => 2 ^ (4 * Bits - q) = w
<1>1. PICK n \in Nat : n = 4 * Bits
  <2>1. PICK m \in Nat : m = Bits
    BY TextAssumption
  <2>. QED
    BY <2>1
<1>2. Word = 2 ^ n
  BY <1>1, TextAssumption DEF Weight
<1>3. p \in 0 .. n /\ p # n
  BY <1>1, <1>2, WordAssumption
<1>4. PICK d \in 1 .. n : d = n - p /\ n = p + d
  BY <1>3
<1>5. w * 2 ^ d = Word
  <2>1. p \in Nat /\ d \in Nat
    BY <1>3
  <2>2. 2 ^ (p + d) = 2 ^ p * 2 ^ d
    BY <2>1, PowerSum
  <2>. QED
    BY <1>2, <1>4, <2>2
<1>6. ASSUME NEW q \in 1 .. n, w * 2 ^ q = Word PROVE 2 ^ (n - q) = w
  <2>1. PICK e \in Nat : e = n - q /\ n = e + q
    OBVIOUS
  <2>2. 2 ^ (e + q) = 2 ^ e * 2 ^ q
    BY <2>1, PowerSum
  <2>3. PICK x \in Nat \ {0}, y \in Nat \ {0} : x = 2 ^ q /\ y = 2 ^ e
    BY <2>1, PowerPositive
  <2>4. w * x = y * x
    BY <1>2, <1>6, <2>1, <2>2, <2>3
  <2>5. w = y
    <3>1. CASE w < y
      <4>1. PICK z \in Nat : y = w + 1 + z
        BY <3>1
      <4>2. y * x = (w * x) + x + (z * x) /\ z * x \in Nat /\ w * x \in Nat
        BY <4>1
      <4>. QED
        BY <2>4, <4>2
    <3>2. CASE y < w
      <4>1. PICK z \in Nat : w = y + 1 + z
        BY <3>2
      <4>2. w * x = (y * x) + x + (z * x) /\ z * x \in Nat /\ y * x \in Nat
        BY <4>1
      <4>. QED
        BY <2>4, <4>2
    <3>. QED
      BY <3>1, <3>2
  <2>. QED
    BY <2>1, <2>3, <2>5
<1>. QED
  BY <1>1, <1>3, <1>5, <1>6

LEMMA BlockReadsBack ==
    ASSUME NEW i \in LegalInterval, IsBlock(i)
    PROVE  ReadsBack(i)
<1>1. PICK lo \in Value, up \in Value : lo = i.lower /\ up = i.upper /\ lo <= up /\ i = Itv(lo, up)
  BY LegalFacts
<1>2. lo \in Nat /\ up \in Nat /\ up < Word /\ Word \in Nat
  BY WordAssumption DEF Value
<1>3. PICK w \in Nat : w = Width(i) /\ w = up - lo /\ up = lo + w /\ w < Word
  <2>1. Width(i) = up - lo
    BY <1>1 DEF Width
  <2>2. up - lo \in Nat /\ up = lo + (up - lo) /\ up - lo < Word
    BY <1>1, <1>2
  <2>. QED
    BY <2>1, <2>2
<1>4. PICK p \in 0 .. 4 * Bits : w = 2 ^ p
  BY <1>3 DEF IsBlock, IsPower
<1>5. lo % w = 0
  BY <1>1, <1>3 DEF IsBlock
<1>6. /\ p \in 0 .. 4 * Bits - 1
      /\ \E q \in 1 .. 4 * Bits : w * 2 ^ q = Word
      /\ \A q \in 1 .. 4 * Bits : w * 2 ^ q = Word => 2 ^ (4 * Bits - q) = w
  BY <1>3, <1>4, PrefixOfWidth
<1>7. PICK q : q = CHOOSE d \in 1 .. 4 * Bits : w * 2 ^ d = Word
  OBVIOUS
<1>8. q \in 1 .. 4 * Bits /\ w = 2 ^ (4 * Bits - q)
  BY <1>6, <1>7
<1>9. PICK s \in Text : s = Dotted(lo) /\ Clean(s) /\ IsBytes(s, 4) /\ Ipv4ToI(s, 3) = lo
  BY DottedFacts
<1>10. Displayed(i) = s \o <<Slash, q>>
  BY <1>1, <1>3, <1>4, <1>6, <1>7, <1>9 DEF Displayed
<1>11. Ipv4ToI(s, 0) = lo
  <2>1. /\ 4 \in 1 .. 4 /\ 3 \in 0 .. 3 /\ 3 + 1 <= 4 /\ 0 \in 0 .. 3 /\ 0 + 1 <= 4
    OBVIOUS
  <2>2. Ipv4ToI(s, 3) = Ipv4ToI(s, 0)
    BY <1>9, <2>1, Ipv4OfBytes
  <2>. QED
    BY <1>9, <2>2
<1>12. q \in 0 .. 4 * Bits
  <2>1. PICK n \in Nat : n = 4 * Bits
    <3>1. PICK m \in Nat : m = Bits
      BY TextAssumption
    <3>. QED
      BY <3>1
  <2>. QED
    BY <1>8, <2>1
<1>13. PICK first, end : first = lo - (lo % w) /\ end = lo - (lo % w) + w - 1
  OBVIOUS
<1>14. Parsed(s \o <<Slash, q>>) = Reads({<<first, end>>})
  BY <1>8, <1>9, <1>11, <1>12, <1>13, PrefixIsRead
<1>15. w # 0
  <2>1. p \in Nat
    <3>1. PICK n \in Nat : n = 4 * Bits
      <4>1. PICK m \in Nat : m = Bits
        BY TextAssumption
      <4>. QED
        BY <4>1
    <3>. QED
      BY <3>1
  <2>. QED
    BY <1>4, <2>1, PowerPositive
<1>16. first = lo /\ end = up - 1 /\ end \in Value /\ end # Word - 1 /\ end + 1 = up
  <2>1. first = lo /\ end = lo - 0 + w - 1
    BY <1>2, <1>5, <1>13
  <2>2. lo - 0 + w - 1 = up - 1
    BY <1>2, <1>3
  <2>3. end = up - 1
    BY <2>1, <2>2
  <2>4. up - 1 \in 0 .. Word - 1 /\ up - 1 # Word - 1 /\ (up - 1) + 1 = up
    BY <1>2, <1>3, <1>15
  <2>. QED
    BY <2>1, <2>3, <2>4 DEF Value
<1>17. HalfOpen(<<first, end>>) = i
  BY <1>1, <1>16 DEF HalfOpen
<1>18. Parsed(Displayed(i)) = Reads({<<first, end>>})
  BY <1>10, <1>14
<1>. QED
  BY <1>16, <1>17, <1>18, RangeReadsBack

LEMMA LastReadsBack ==
    ASSUME NEW i \in LegalInterval, i.upper = Word - 1, ~IsPower(Width(i))
    PROVE  ReadsBack(i)
<1>1. PICK lo \in Value, up \in Value : lo = i.lower /\ up = i.upper /\ lo <= up /\ i = Itv(lo, up)
  BY LegalFacts
<1>2. ~\E p \in 0 .. 4 * Bits - 1 : Width(i) = 2 ^ p
  <2>1. PICK n \in Nat : n = 4 * Bits
    <3>1. PICK m \in Nat : m = Bits
      BY TextAssumption
    <3>. QED
      BY <3>1
  <2>2. \A p \in 0 .. n - 1 : p \in 0 .. n
    BY <2>1
  <2>. QED
    BY <2>1, <2>2 DEF IsPower
<1>3. PICK s \in Text : s = Dotted(lo) /\ Clean(s) /\ Ipv4ToI(s, 3) = lo
  BY DottedFacts
<1>4. PICK t \in Text : t = Dotted(up) /\ Clean(t) /\ Ipv4ToI(t, 3) = up
  BY DottedFacts
<1>5. Displayed(i) = s \o <<Dash>> \o t
  BY <1>1, <1>2, <1>3, <1>4 DEF Displayed
<1>6. PICK u : u = s \o <<Dash>> \o t
  OBVIOUS
<1>7. Joined(u, s, Dash, t)
  BY <1>6, JoinedIs DEF Dash
<1>8. Parsed(u) = Reads({<<Least(lo, up), Greatest(lo, up)>>})
  BY <1>3, <1>4, <1>7, SpanIsRead
<1>9. Least(lo, up) = lo /\ Greatest(lo, up) = up
  BY <1>1 DEF Least, Greatest
<1>10. Parsed(Displayed(i)) = Reads({<<lo, up>>})
  BY <1>5, <1>6, <1>8, <1>9
<1>11. HalfOpen(<<lo, up>>) = i
  BY <1>1 DEF HalfOpen
<1>. QED
  BY <1>10, <1>11, RangeReadsBack

\* Until something is read the object has legal intervals.
PrintInv == io = "none" => intervals \in Seq(LegalInterval)

LEMMA PrintInit == AddressInit => PrintInv
<1>. SUFFICES ASSUME AddressInit PROVE PrintInv
  OBVIOUS
<1>1. intervals = <<>>
  BY DEF AddressInit, Init
<1>. QED
  BY <1>1 DEF PrintInv

LEMMA PrintStep == AddressInv /\ AddressInv' /\ PrintInv /\ [AddressNext]_allVars => PrintInv'
<1>. SUFFICES ASSUME DumpInv, DumpInv', PrintInv, [AddressNext]_allVars PROVE PrintInv'
  BY DEF AddressInv
<1>1. ASSUME file' = NoFile PROVE PrintInv'
  BY <1>1 DEF DumpInv, PrintInv, NoFile
<1>2. ASSUME NEW text, NEW op, TextCall(text, op) PROVE PrintInv'
  BY <1>1, <1>2 DEF TextCall, MayChange, MayCall, Asks, disk
<1>3. ASSUME NEW text, Argument(text) PROVE PrintInv'
  BY <1>2, <1>3 DEF Argument, AddText, RemoveText
<1>4. ASSUME NEW a, NEW op, AddressCall(a, op) PROVE PrintInv'
  BY <1>1, <1>4 DEF AddressCall, MayChange, MayCall, Asks, disk
<1>5. ASSUME NEW a, NEW b, NEW p, NEW op, PortCall(a, b, p, op) PROVE PrintInv'
  BY <1>1, <1>5 DEF PortCall, MayChange, MayCall, Asks, disk
<1>6. CASE AggregateAll
  BY <1>1, <1>6 DEF AggregateAll, MayCall, Asks, disk
<1>7. CASE Change
  BY <1>2, <1>3, <1>4, <1>5, <1>6, <1>7 DEF Change, AddText, RemoveText
<1>8. ASSUME NEW by, NEW bytes, NEW n, Dump(by, bytes, n) PROVE PrintInv'
  BY <1>8 DEF Dump, vars, lists, PrintInv
<1>9. ASSUME io' # "none" PROVE PrintInv'
  BY <1>9 DEF PrintInv
<1>10. ASSUME NEW o, Refill(o) PROVE PrintInv'
  BY <1>9, <1>10 DEF Refill
<1>11. CASE BadSize
  BY <1>9, <1>11 DEF BadSize
<1>12. ASSUME NEW n, NEW g, ReadFile(n, g) PROVE PrintInv'
  BY <1>9, <1>12 DEF ReadFile, Loads
<1>13. ASSUME NEW g, ReadStream(g) PROVE PrintInv'
  BY <1>9, <1>13 DEF ReadStream, Loads
<1>14. CASE UNCHANGED allVars
  BY <1>14 DEF allVars, vars, lists, PrintInv
<1>. QED
  BY <1>7, <1>8, <1>10, <1>11, <1>12, <1>13, <1>14 DEF AddressNext, DumpToFile, DumpStream

\* What leeloo-aggregate prints for a block of addresses, or for an interval with the
\* last upper bound that is no power of two wide, is read back as this interval
\* (display() and ip2str() of tools/aggregate.cpp, leeloo::ips_parser).
THEOREM PrintedReadsBack == AddressSpec => []PrintedIsReadBack
<1>1. PrintInv => PrintedIsReadBack
  <2>. SUFFICES ASSUME PrintInv PROVE PrintedIsReadBack
    OBVIOUS
  <2>1. ASSUME io = "none", NEW k \in 1 .. Len(intervals)
        PROVE  IsBlock(intervals[k])
                 \/ (intervals[k].upper = Word - 1 /\ ~IsPower(Width(intervals[k]))) =>
               ReadsBack(intervals[k])
    <3>1. intervals[k] \in LegalInterval
      BY <2>1 DEF PrintInv
    <3>. QED
      BY <3>1, BlockReadsBack, LastReadsBack
  <2>. QED
    BY <2>1 DEF PrintedIsReadBack, ReadsBack
<1>. QED
  BY <1>1, PrintInit, PrintStep, AddressInvInit, AddressInvStep, PTL DEF AddressSpec
=============================================================================
