---------------------------- MODULE LookupProofs ----------------------------
(****************************************************************************)
(* contains() is membership, and at() and at_cached() find the value of a    *)
(* rank, for every aggregated list, every size of the cache entries and     *)
(* every span at which the dichotomies stop.                                *)
(****************************************************************************)
EXTENDS LookupLoop, AggregationProofs

\* While the loops of contains() run, an interval that holds the value is
\* between the two bounds, if there is one.
ContainsInv ==
    call = "contains" =>
        /\ list \in Seq(LegalInterval) /\ InOrder(list)
        /\ arg \in Value
        /\ a \in Nat /\ b \in Nat /\ a <= b /\ b <= Len(list)
        /\ pc \in {"halve", "scan", "done"}
        /\ pc \in {"halve", "scan"} /\ InList(list, arg) =>
             \E k \in a + 1 .. b : Has(list[k], arg)
        /\ pc = "done" => (result <=> InList(list, arg))

------------------------------------------------------------------------------
(* The comparison with one interval of a list in order. *)

\* A value below an interval is in none of the intervals from it on.
LEMMA NotAbove ==
    ASSUME NEW s \in Seq(LegalInterval), InOrder(s), NEW v \in Value,
           NEW m \in 1 .. Len(s), v < s[m].lower,
           NEW k \in 1 .. Len(s), Has(s[k], v)
    PROVE  k < m
<1>1. s[m] \in LegalInterval /\ s[k] \in LegalInterval
  OBVIOUS
<1>2. m < k => s[m].upper <= s[k].lower
  BY DEF InOrder
<1>. QED
  BY <1>1, <1>2, SMTT(30) DEF Has, LegalInterval, Legal, Interval, Value

\* A value that is not below an interval is in none of those before it.
LEMMA NotBelow ==
    ASSUME NEW s \in Seq(LegalInterval), InOrder(s), NEW v \in Value,
           NEW m \in 1 .. Len(s), s[m].lower <= v,
           NEW k \in 1 .. Len(s), Has(s[k], v)
    PROVE  m <= k
<1>1. s[m] \in LegalInterval /\ s[k] \in LegalInterval
  OBVIOUS
<1>2. k < m => s[k].upper <= s[m].lower
  BY DEF InOrder
<1>. QED
  BY <1>1, <1>2 DEF Has, LegalInterval, Legal, Interval, Value

------------------------------------------------------------------------------

LEMMA InitInv == Init => ContainsInv
<1>. SUFFICES ASSUME Init, call = "contains" PROVE ContainsInv
  BY DEF ContainsInv
<1>1. list \in Seq(LegalInterval) /\ InOrder(list)
  BY LookupAssumption DEF Init
<1>2. arg \in Value /\ a = 0 /\ b = Len(list) /\ pc = "halve"
  BY DEF Init, Call
<1>. QED
  BY <1>1, <1>2 DEF ContainsInv, InList

LEMMA HalveStep == ContainsInv /\ ContainsHalve => ContainsInv'
<1>. SUFFICES ASSUME ContainsInv, ContainsHalve PROVE ContainsInv'
  OBVIOUS
<1>1. /\ list \in Seq(LegalInterval) /\ InOrder(list) /\ arg \in Value
      /\ a \in Nat /\ b \in Nat /\ b <= Len(list) /\ b - a > 1
      /\ InList(list, arg) => \E k \in a + 1 .. b : Has(list[k], arg)
      /\ UNCHANGED <<list, call, arg>> /\ call = "contains" /\ pc = "halve"
  BY LookupAssumption DEF ContainsInv, ContainsHalve, object
<1>2. Mid \in Nat /\ a <= Mid /\ Mid < b
  BY <1>1 DEF Mid
<1>3. list[Mid + 1] \in LegalInterval
  BY <1>1, <1>2
<1>4. CASE Has(list[Mid + 1], arg) /\ Return(TRUE) /\ UNCHANGED <<a, b>>
  <2>1. InList(list, arg)
    BY <1>1, <1>2, <1>4 DEF InList
  <2>. QED
    BY <1>1, <1>4, <2>1 DEF ContainsInv, Return
<1>5. CASE /\ ~Has(list[Mid + 1], arg) /\ arg < list[Mid + 1].lower
           /\ b' = Mid /\ UNCHANGED <<a, pc, result>>
  <2>1. \A k \in 1 .. Len(list) : Has(list[k], arg) => k < Mid + 1
    BY <1>1, <1>2, <1>5, NotAbove
  <2>2. InList(list, arg) => \E k \in a + 1 .. Mid : Has(list[k], arg)
    BY <1>1, <1>2, <2>1
  <2>. QED
    BY <1>1, <1>2, <1>5, <2>2 DEF ContainsInv
<1>6. CASE /\ ~Has(list[Mid + 1], arg) /\ arg >= list[Mid + 1].lower
           /\ a' = Mid /\ UNCHANGED <<b, pc, result>>
  <2>1. \A k \in 1 .. Len(list) : Has(list[k], arg) => Mid + 1 <= k
    <3>1. Mid + 1 \in 1 .. Len(list) /\ list[Mid + 1].lower <= arg
      BY <1>1, <1>2, <1>3, <1>6, SMTT(30) DEF LegalInterval, Interval, Value
    <3>. QED
      BY <1>1, <3>1, NotBelow
  <2>2. InList(list, arg) => \E k \in Mid + 1 .. b : Has(list[k], arg)
    BY <1>1, <1>2, <2>1
  <2>. QED
    BY <1>1, <1>2, <1>6, <2>2 DEF ContainsInv
<1>. QED
  BY <1>4, <1>5, <1>6 DEF ContainsHalve

LEMMA ScanStep == ContainsInv /\ ContainsScan => ContainsInv'
<1>. SUFFICES ASSUME ContainsInv, ContainsScan, call = "contains" PROVE ContainsInv'
  BY DEF ContainsInv, ContainsScan
<1>1. /\ list \in Seq(LegalInterval) /\ InOrder(list) /\ arg \in Value
      /\ a \in Nat /\ b \in Nat /\ a <= b /\ b <= Len(list)
      /\ InList(list, arg) => \E k \in a + 1 .. b : Has(list[k], arg)
      /\ UNCHANGED <<list, call, arg, b>> /\ pc = "scan"
  BY DEF ContainsInv, ContainsScan, object
<1>2. CASE a >= b
  <2>1. ~InList(list, arg)
    BY <1>1, <1>2
  <2>. QED
    BY <1>1, <1>2, <2>1 DEF ContainsInv, ContainsScan, Return
<1>3. CASE a < b /\ Has(list[a + 1], arg)
  <2>1. InList(list, arg)
    BY <1>1, <1>3 DEF InList
  <2>. QED
    BY <1>1, <1>3, <2>1 DEF ContainsInv, ContainsScan, Return
<1>4. CASE a < b /\ ~Has(list[a + 1], arg)
  <2>1. a' = a + 1 /\ UNCHANGED <<pc, result>>
    <3>1. ~(a >= b)
      BY <1>1, <1>4
    <3>. QED
      BY <1>4, <3>1, Zenon DEF ContainsScan
  <2>2. InList(list, arg) => \E k \in (a + 1) + 1 .. b : Has(list[k], arg)
    BY <1>1, <1>4
  <2>. QED
    BY <1>1, <1>4, <2>1, <2>2 DEF ContainsInv
<1>. QED
  BY <1>1, <1>2, <1>3, <1>4

LEMMA NextInv == ContainsInv /\ [Next]_vars => ContainsInv'
<1>. SUFFICES ASSUME ContainsInv, [Next]_vars PROVE ContainsInv'
  OBVIOUS
<1>1. CASE UNCHANGED vars
  BY <1>1 DEF ContainsInv, vars, object
<1>2. CASE ContainsStopHalving
  BY <1>2 DEF ContainsInv, ContainsStopHalving, object
<1>3. CASE CacheHalve \/ CacheStopHalving \/ CacheFinish \/ RthStep \/ RthMissing
  <2>1. call' # "contains"
    BY <1>3 DEF ContainsInv, CacheHalve, CacheStopHalving, CacheFinish, RthStep, RthMissing
  <2>. QED
    BY <2>1 DEF ContainsInv
<1>. QED
  BY <1>1, <1>2, <1>3, HalveStep, ScanStep DEF Next

\* An interval that holds the argument of contains() stays between its two bounds.
THEOREM Inductive == Spec => []ContainsInv
  BY InitInv, NextInv, PTL DEF Spec

\* contains() answers membership for every list in order (list_intervals::contains).
THEOREM ContainsFindsMembers == Spec => []ContainsIsMembership
<1>1. ContainsInv => ContainsIsMembership
  BY DEF ContainsInv, ContainsIsMembership
<1>. QED
  BY <1>1, Inductive, PTL

------------------------------------------------------------------------------
(* The sizes of the first intervals, and the rank of a value. *)

\* The sums of the widths do not wrap, and grow.
LEMMA SizeSteps ==
    ASSUME NEW s \in Seq(LegalInterval), InOrder(s)
    PROVE  /\ SizeOfFirst(s, 0) = 0
           /\ \A k \in 0 .. Len(s) : SizeOfFirst(s, k) \in Nat
           /\ \A k \in 1 .. Len(s) : SizeOfFirst(s, k) = SizeOfFirst(s, k - 1) + Width(s[k])
<1>1. Disjoint(s) /\ Len(s) \in Nat
  BY SeqFacts, OrderedIsDisjoint
<1>2. \A k \in 0 .. Len(s) : SizeOfFirst(s, k) = Cardinality(CoveredByFirst(s, k))
  BY <1>1, SizeIsCount
<1>3. CoveredByFirst(s, 0) = {}
  BY DEF CoveredByFirst, HeldBy, Among
<1>4. SizeOfFirst(s, 0) = 0
  <2>1. 0 \in 0 .. Len(s)
    BY <1>1
  <2>2. SizeOfFirst(s, 0) = Cardinality({})
    BY <1>2, <1>3, <2>1
  <2>. QED
    BY <2>2, FS_EmptySet
<1>5. \A k \in 0 .. Len(s) : SizeOfFirst(s, k) \in Nat
  BY <1>2, CoveredIsSmall DEF Value
<1>6. ASSUME NEW k \in 1 .. Len(s)
      PROVE  SizeOfFirst(s, k) = SizeOfFirst(s, k - 1) + Width(s[k])
  <2>1. k \in 0 .. Len(s) /\ k - 1 \in 0 .. Len(s)
    BY <1>1
  <2>2. Cardinality(CoveredByFirst(s, k)) = Cardinality(CoveredByFirst(s, k - 1)) + Width(s[k])
    BY <1>1, CoveredByNext
  <2>. QED
    BY <1>2, <2>1, <2>2
<1>. QED
  BY <1>4, <1>5, <1>6

LEMMA SizeGrows ==
    ASSUME NEW s \in Seq(LegalInterval), InOrder(s),
           NEW j \in 0 .. Len(s), NEW k \in 0 .. Len(s), j <= k
    PROVE  SizeOfFirst(s, j) <= SizeOfFirst(s, k)
<1>1. Disjoint(s) /\ Len(s) \in Nat
  BY SeqFacts, OrderedIsDisjoint
<1>2. /\ SizeOfFirst(s, j) = Cardinality(CoveredByFirst(s, j))
      /\ SizeOfFirst(s, k) = Cardinality(CoveredByFirst(s, k))
  BY <1>1, SizeIsCount
<1>3. 1 .. j \subseteq 1 .. k
  BY <1>1
<1>4. CoveredByFirst(s, j) \in SUBSET CoveredByFirst(s, k)
  BY <1>3 DEF CoveredByFirst, HeldBy, Among
<1>5. IsFiniteSet(CoveredByFirst(s, k))
  BY CoveredIsSmall
<1>. QED
  BY <1>2, <1>4, <1>5, FS_Subset

\* The values below one of interval k are those of the intervals before it, and
\* its own that are lower.
LEMMA RankFacts ==
    ASSUME NEW s \in Seq(LegalInterval), InOrder(s), NEW k \in 1 .. Len(s),
           NEW x \in Value, Has(s[k], x)
    PROVE  Cardinality({v \in Covered(s) : v < x}) = SizeOfFirst(s, k - 1) + (x - s[k].lower)
<1>1. PICK l : l = s[k].lower
  OBVIOUS
<1>2. /\ Len(s) \in Nat /\ s[k] \in LegalInterval /\ l \in Nat /\ l \in Value
      /\ x \in Nat /\ l <= x /\ k - 1 \in 0 .. Len(s)
      /\ \A j \in 1 .. Len(s) : s[j].lower \in Nat /\ s[j].upper \in Nat
  BY <1>1, SeqFacts, LegalFacts DEF Has, Value
<1>. DEFINE S == CoveredByFirst(s, k - 1)
            T == l .. (x - 1)
<1>3. ASSUME NEW v \in Value
      PROVE  InList(s, v) /\ v < x <=> HeldBy(s, k - 1, v) \/ v \in T
  <2>0. v \in Nat
    BY DEF Value
  <2>1. ASSUME NEW j \in 1 .. Len(s), Has(s[j], v), v < x PROVE HeldBy(s, k - 1, v) \/ v \in T
    <3>1. CASE j < k
      <4>1. j \in 1 .. (k - 1)
        BY <1>2, <3>1
      <4>. QED
        BY <2>1, <4>1 DEF HeldBy, Among
    <3>2. CASE j = k
      BY <1>1, <1>2, <2>0, <2>1, <3>2 DEF Has
    <3>3. CASE k < j
      <4>1. s[k].upper <= s[j].lower
        BY <3>3 DEF InOrder
      <4>. QED
        BY <1>2, <2>0, <2>1, <4>1 DEF Has
    <3>. QED
      BY <1>2, <3>1, <3>2, <3>3
  <2>2. ASSUME HeldBy(s, k - 1, v) PROVE InList(s, v) /\ v < x
    <3>1. PICK j \in 1 .. (k - 1) : Has(s[j], v)
      BY <2>2 DEF HeldBy, Among
    <3>2. j \in 1 .. Len(s) /\ j < k
      BY <1>2
    <3>3. s[j].upper <= s[k].lower
      BY <3>2 DEF InOrder
    <3>. QED
      BY <1>1, <1>2, <2>0, <3>1, <3>2, <3>3 DEF Has, InList
  <2>3. ASSUME v \in T PROVE InList(s, v) /\ v < x
    <3>1. Has(s[k], v) /\ v < x
      BY <1>1, <1>2, <2>3 DEF Has
    <3>. QED
      BY <3>1 DEF InList
  <2>. QED
    BY <2>1, <2>2, <2>3 DEF InList
<1>4. T \subseteq Value
  <2>. SUFFICES ASSUME NEW v \in T PROVE v \in Value
    OBVIOUS
  <2>1. v \in Nat /\ v < x /\ x <= Word - 1
    BY <1>2 DEF Value
  <2>. QED
    BY <1>2, <2>1, WordAssumption DEF Value
<1>5. {v \in Covered(s) : v < x} = S \cup T
  BY <1>3, <1>4 DEF Covered, CoveredByFirst
<1>6. S \cap T = {}
  <2>. SUFFICES ASSUME NEW v \in T, HeldBy(s, k - 1, v) PROVE FALSE
    BY DEF CoveredByFirst
  <2>1. PICK j \in 1 .. (k - 1) : Has(s[j], v)
    BY DEF HeldBy, Among
  <2>2. j \in 1 .. Len(s) /\ j < k
    BY <1>2
  <2>3. s[j].upper <= s[k].lower
    BY <2>2 DEF InOrder
  <2>. QED
    BY <1>1, <1>2, <2>1, <2>2, <2>3 DEF Has
<1>7. IsFiniteSet(T) /\ Cardinality(T) = IF l > x - 1 THEN 0 ELSE (x - 1) - l + 1
  <2>1. l \in Int /\ x - 1 \in Int
    BY <1>2
  <2>. QED
    BY <2>1, FS_Interval
<1>8. Cardinality(T) = x - l
  BY <1>2, <1>7
<1>9. IsFiniteSet(S) /\ Cardinality(S) = SizeOfFirst(s, k - 1)
  <2>1. Disjoint(s)
    BY OrderedIsDisjoint
  <2>. QED
    BY <1>2, <2>1, CoveredIsSmall, SizeIsCount
<1>. HIDE DEF S, T
<1>10. Cardinality(S \cup T) = Cardinality(S) + Cardinality(T) - Cardinality(S \cap T)
  BY <1>7, <1>9, FS_Union
<1>11. Cardinality(S) \in Nat /\ Cardinality(S \cap T) = 0
  BY <1>6, <1>9, FS_CardinalityType, FS_EmptySet
<1>12. PICK c \in Nat : c = Cardinality(S)
  BY <1>11
<1>13. Cardinality(S \cup T) = c + (x - l)
  BY <1>2, <1>8, <1>10, <1>11, <1>12
<1>. QED
  BY <1>1, <1>5, <1>9, <1>12, <1>13
------------------------------------------------------------------------------
(* The index cache. *)

\* The entries grow, all but the last end with a full group of intervals, and the
\* last is the size of the list.
LEMMA CacheFacts ==
    ASSUME NEW s \in Seq(LegalInterval), InOrder(s), NEW n \in Nat \ {0}
    PROVE  LET c == IndexCache(s, n)
           IN  /\ Len(c) \in Nat
               /\ \A k \in 1 .. Len(c) : c[k] \in Nat
               /\ \A k \in 1 .. Len(c) : k + 1 \in 1 .. Len(c) => c[k] <= c[k + 1]
               /\ \A k \in 1 .. Len(c) : k < Len(c) => c[k] = SizeOfFirst(s, k * n)
               /\ Len(c) > 0 => c[Len(c)] = Size(s)
               /\ \A k \in Nat : k < Len(c) => k * n \in 0 .. (Len(s) - 1)
               /\ Size(s) > 0 => Len(c) > 0
<1>1. PICK l \in Nat : l = Len(s)
  BY SeqFacts
<1>2. PICK m \in Nat : m = (l + n - 1) \div n /\ m * n >= l
  BY EntriesSuffice
<1>. DEFINE c == IndexCache(s, n)
            last(k) == Least(k * n, l)
<1>3. Len(c) = m /\ \A k \in 1 .. m : c[k] = SizeOfFirst(s, last(k))
  BY <1>1, <1>2 DEF IndexCache
<1>4. \A k \in 1 .. m : k * n \in Nat /\ last(k) \in 0 .. l
  BY <1>1 DEF Least
<1>5. \A k \in 1 .. m : c[k] \in Nat
  BY <1>1, <1>3, <1>4, SizeSteps
<1>6. ASSUME NEW k \in Nat, k < m PROVE k * n \in 0 .. (l - 1)
  <2>1. k < (l + n - 1) \div n
    BY <1>2, <1>6
  <2>2. k * n < l
    BY <2>1, GroupsFit
  <2>. QED
    BY <1>1, <2>2
<1>7. ASSUME NEW k \in 1 .. m, k < m PROVE c[k] = SizeOfFirst(s, k * n)
  <2>1. k * n \in 0 .. (l - 1)
    BY <1>6, <1>7
  <2>2. last(k) = k * n
    BY <2>1 DEF Least
  <2>. QED
    BY <1>3, <2>2
<1>8. m > 0 => c[m] = Size(s)
  <2>1. m > 0 => m \in 1 .. m
    OBVIOUS
  <2>2. last(m) = l
    BY <1>1, <1>2 DEF Least
  <2>. QED
    BY <1>1, <1>3, <2>1, <2>2 DEF Size
<1>9. ASSUME NEW k \in 1 .. m, k + 1 \in 1 .. m PROVE c[k] <= c[k + 1]
  <2>1. (k + 1) * n = (k * n) + n /\ k * n \in Nat
    OBVIOUS
  <2>2. last(k) <= last(k + 1)
    BY <1>1, <2>1 DEF Least
  <2>3. last(k) \in 0 .. Len(s) /\ last(k + 1) \in 0 .. Len(s)
    BY <1>1, <1>4, <1>9
  <2>4. SizeOfFirst(s, last(k)) <= SizeOfFirst(s, last(k + 1))
    BY <2>2, <2>3, SizeGrows
  <2>. QED
    BY <1>3, <1>9, <2>4
<1>10. Size(s) > 0 => m > 0
  <2>. SUFFICES ASSUME m = 0 PROVE Size(s) = 0
    BY <1>1, SizeSteps DEF Size
  <2>1. l = 0
    BY <1>1, <1>2
  <2>. QED
    BY <1>1, <2>1, SizeSteps DEF Size
<1>. QED
  BY <1>1, <1>3, <1>5, <1>6, <1>7, <1>8, <1>9, <1>10

------------------------------------------------------------------------------
(* at() and at_cached(). *)

\* The call, and the list it looks into.
RankCall ==
    /\ call \in {"at", "at_cached"}
    /\ list \in Seq(LegalInterval) /\ InOrder(list)
    /\ entry \in Nat \ {0} /\ cache = IndexCache(list, entry)
    /\ arg \in Nat /\ arg <= Size(list)
    /\ call = "at_cached" => arg < Size(list)

RightRank(x) ==
    IF arg < Size(list)
      THEN /\ InList(list, x)
           /\ Cardinality({v \in Covered(list) : v < x}) = arg
      ELSE x = Word - 1

\* While the cache is searched, the entry before `a` is below the argument, and the
\* one after it exists: the last entry is above the argument.
Searching ==
    /\ call = "at_cached"
    /\ a \in Nat /\ a < Len(cache)
    /\ a > 0 => cache[a] < arg
    /\ pc = "halve" => b \in Nat /\ a <= b /\ b <= Len(cache)

\* While the list is walked, what was skipped and what remains are the argument.
Walking ==
    /\ a \in 0 .. Len(list) /\ b = Len(list)
    /\ rem \in Nat /\ rem + SizeOfFirst(list, a) = arg

Found ==
    /\ call = "at_cached" => a \in Nat /\ a < Len(list)
    /\ AllWide(list) => RightRank(result)

RankInv ==
    call # "contains" =>
        /\ RankCall
        /\ pc \in {"halve", "finish", "walk", "done"}
        /\ pc \in {"halve", "finish"} => Searching
        /\ pc = "walk" => Walking
        /\ pc = "done" => Found

LEMMA RankInit == Init => RankInv
<1>. SUFFICES ASSUME Init, call # "contains" PROVE RankInv
  BY DEF RankInv
<1>1. /\ list \in Seq(LegalInterval) /\ InOrder(list) /\ entry \in Nat \ {0}
      /\ cache = IndexCache(list, entry) /\ rem = arg
  BY LookupAssumption DEF Init
<1>2. /\ SizeOfFirst(list, 0) = 0 /\ Len(list) \in Nat /\ Size(list) \in Nat
  BY <1>1, SeqFacts, SizeSteps DEF Size
<1>3. /\ Len(cache) \in Nat /\ Size(list) > 0 => Len(cache) > 0
  BY <1>1, CacheFacts
<1>4. CASE Call("at", 0 .. Size(list), 0, Len(list), "walk")
  BY <1>1, <1>2, <1>4 DEF Call, RankInv, RankCall, Walking
<1>5. CASE Call("at_cached", 0 .. Size(list) - 1, 0, Len(cache), "halve")
  BY <1>1, <1>2, <1>3, <1>5 DEF Call, RankInv, RankCall, Searching
<1>. QED
  BY <1>4, <1>5 DEF Init, Call

\* The lower bound of the interval found, when nothing remains to be skipped, or
\* a walk that starts at it.
LEMMA ReturnFromCache ==
    ASSUME RankCall, call = "at_cached", UNCHANGED <<object, call, arg>>,
           NEW idx \in 0 .. (Len(list) - 1), NEW r \in Nat,
           r + SizeOfFirst(list, idx) = arg, CacheReturn(idx, r)
    PROVE  RankInv'
<1>1. RankCall'
  BY DEF RankCall, object
<1>2. Len(list) \in Nat /\ idx \in 0 .. Len(list) /\ idx + 1 \in 1 .. Len(list)
  BY SeqFacts DEF RankCall
<1>3. CASE r = 0
  <2>1. a' = idx /\ result' = list[idx + 1].lower /\ pc' = "done"
    BY <1>3 DEF CacheReturn, Return
  <2>2. ASSUME AllWide(list) PROVE RightRank(list[idx + 1].lower)
    <3>1. PICK x : x = list[idx + 1].lower
      OBVIOUS
    <3>2. x \in Value /\ x \in Nat /\ Has(list[idx + 1], x)
      <4>1. list[idx + 1] \in LegalInterval /\ list[idx + 1].lower < list[idx + 1].upper
        BY <1>2, <2>2, SeqFacts DEF AllWide, RankCall
      <4>. QED
        BY <3>1, <4>1, LegalFacts DEF Has
    <3>3. Cardinality({v \in Covered(list) : v < x})
            = SizeOfFirst(list, (idx + 1) - 1) + (x - list[idx + 1].lower)
      BY <1>2, <3>2, RankFacts DEF RankCall
    <3>4. SizeOfFirst(list, idx) = arg /\ arg \in Nat /\ (idx + 1) - 1 = idx
      BY <1>2, <1>3, SizeSteps DEF RankCall
    <3>5. Cardinality({v \in Covered(list) : v < x}) = arg
      BY <3>1, <3>2, <3>3, <3>4
    <3>6. InList(list, x)
      BY <1>2, <3>2 DEF InList
    <3>. QED
      BY <3>1, <3>5, <3>6 DEF RightRank, RankCall
  <2>3. Found'
    BY <1>2, <2>1, <2>2 DEF Found, RightRank, object
  <2>. QED
    BY <1>1, <2>1, <2>3 DEF RankInv
<1>4. CASE r # 0
  <2>1. a' = idx /\ b' = Len(list) /\ pc' = "walk" /\ rem' = r
    BY <1>4 DEF CacheReturn
  <2>2. Walking'
    BY <1>2, <2>1 DEF Walking, object
  <2>. QED
    BY <1>1, <2>1, <2>2 DEF RankInv
<1>. QED
  BY <1>3, <1>4

LEMMA CacheHalveStep == RankInv /\ CacheHalve => RankInv'
<1>. SUFFICES ASSUME RankInv, CacheHalve PROVE RankInv'
  OBVIOUS
<1>1. RankCall /\ Searching /\ pc = "halve" /\ call = "at_cached" /\ UNCHANGED <<object, call, arg>>
  BY DEF RankInv, CacheHalve
<1>2. PICK c \in Nat : c = Len(cache)
  BY <1>1, CacheFacts DEF RankCall
<1>3. a \in Nat /\ b \in Nat /\ b <= c /\ b - a > 1 /\ arg \in Nat
  BY <1>1, <1>2, LookupAssumption DEF Searching, RankCall, CacheHalve
<1>4. PICK m \in Nat : m = Mid /\ a <= m /\ m < b
  <2>. Mid \in Nat /\ a <= Mid /\ Mid < b
    BY <1>3 DEF Mid
  <2>. QED
    OBVIOUS
<1>5. m + 1 \in 1 .. c /\ cache[m + 1] \in Nat /\ (m > 0 => cache[m] \in Nat /\ cache[m] <= cache[m + 1])
  <2>1. m + 1 \in 1 .. c /\ (m > 0 => m \in 1 .. c)
    BY <1>3, <1>4
  <2>. QED
    BY <1>1, <1>2, <2>1, CacheFacts DEF RankCall
<1>6. CASE cache[m + 1] = arg /\ CacheReturn((m + 1) * entry, 0)
  <2>1. m + 1 < c
    <3>1. m + 1 # c
      <4>1. c > 0 => cache[c] = Size(list)
        BY <1>1, <1>2, CacheFacts DEF RankCall
      <4>2. arg < Size(list)
        BY <1>1 DEF RankCall
      <4>3. Size(list) \in Nat
        BY <1>1, SizeSteps, SeqFacts DEF RankCall, Size
      <4>. QED
        BY <1>2, <1>3, <1>6, <4>1, <4>2, <4>3
    <3>. QED
      BY <1>2, <1>5, <3>1
  <2>2. PICK idx : idx = (m + 1) * entry
    OBVIOUS
  <2>3. idx \in 0 .. (Len(list) - 1) /\ cache[m + 1] = SizeOfFirst(list, idx)
    BY <1>1, <1>2, <1>5, <2>1, <2>2, CacheFacts DEF RankCall
  <2>4. 0 + SizeOfFirst(list, idx) = arg
    BY <1>3, <1>6, <2>3
  <2>5. CacheReturn(idx, 0)
    BY <1>6, <2>2
  <2>. QED
    BY <1>1, <2>3, <2>4, <2>5, ReturnFromCache
<1>7. CASE cache[m + 1] < arg /\ a' = m /\ UNCHANGED <<b, rem, pc, result>>
  <2>1. Searching'
    BY <1>1, <1>2, <1>3, <1>4, <1>5, <1>7 DEF Searching, object
  <2>. QED
    BY <1>1, <1>7, <2>1 DEF RankInv, RankCall, object
<1>8. CASE b' = m /\ UNCHANGED <<a, rem, pc, result>>
  <2>1. Searching'
    BY <1>1, <1>2, <1>3, <1>4, <1>8 DEF Searching, object
  <2>. QED
    BY <1>1, <1>8, <2>1 DEF RankInv, RankCall, object
<1>. QED
  BY <1>4, <1>6, <1>7, <1>8 DEF CacheHalve

LEMMA CacheFinishStep == RankInv /\ CacheFinish /\ call # "contains" => RankInv'
<1>. SUFFICES ASSUME RankInv, CacheFinish, call # "contains" PROVE RankInv'
  OBVIOUS
<1>1. RankCall /\ Searching /\ pc = "finish" /\ call = "at_cached" /\ UNCHANGED <<object, call, arg>>
  BY DEF RankInv, CacheFinish, Searching
<1>2. PICK c \in Nat : c = Len(cache)
  BY <1>1, CacheFacts DEF RankCall
<1>3. a \in Nat /\ a < c /\ a + 1 \in 1 .. c /\ arg \in Nat /\ arg < Size(list) /\ Size(list) \in Nat
  BY <1>1, <1>2, SizeSteps, SeqFacts DEF Searching, RankCall, Size
<1>4. cache[c] = Size(list) /\ cache[a + 1] \in Nat
  BY <1>1, <1>2, <1>3, CacheFacts DEF RankCall
<1>5. CASE cache[a + 1] < arg /\ a' = a + 1 /\ UNCHANGED <<b, rem, pc, result>>
  <2>1. a + 1 < c
    BY <1>2, <1>3, <1>4, <1>5
  <2>2. Searching'
    BY <1>1, <1>2, <1>3, <1>5, <2>1 DEF Searching, object
  <2>. QED
    BY <1>1, <1>5, <2>2 DEF RankInv, RankCall, object
<1>6. CASE cache[a + 1] >= arg /\ CacheReturn(a * entry, IF a > 0 THEN arg - cache[a] ELSE arg)
  <2>1. PICK idx : idx = a * entry
    OBVIOUS
  <2>2. PICK r : r = IF a > 0 THEN arg - cache[a] ELSE arg
    OBVIOUS
  <2>3. idx \in 0 .. (Len(list) - 1)
    BY <1>1, <1>2, <1>3, <2>1, CacheFacts DEF RankCall
  <2>4. r \in Nat /\ r + SizeOfFirst(list, idx) = arg
    <3>1. CASE a > 0
      <4>1. a \in 1 .. c /\ a < c
        BY <1>2, <1>3, <3>1
      <4>2. cache[a] \in Nat /\ cache[a] = SizeOfFirst(list, idx)
        BY <1>1, <1>2, <2>1, <4>1, CacheFacts DEF RankCall
      <4>3. cache[a] < arg
        BY <1>1, <3>1 DEF Searching
      <4>. QED
        BY <1>3, <2>2, <3>1, <4>2, <4>3
    <3>2. CASE a = 0
      <4>1. entry \in Nat
        BY <1>1 DEF RankCall
      <4>2. idx = 0
        BY <2>1, <3>2, <4>1
      <4>3. SizeOfFirst(list, 0) = 0
        BY <1>1, SizeSteps DEF RankCall
      <4>. QED
        BY <1>3, <2>2, <3>2, <4>2, <4>3
    <3>. QED
      BY <1>3, <3>1, <3>2
  <2>5. CacheReturn(idx, r)
    BY <1>6, <2>1, <2>2
  <2>. QED
    BY <1>1, <2>3, <2>4, <2>5, ReturnFromCache
<1>. QED
  BY <1>5, <1>6 DEF CacheFinish

LEMMA RthStepInv == RankInv /\ RthStep /\ call # "contains" => RankInv'
<1>. SUFFICES ASSUME RankInv, RthStep, call # "contains" PROVE RankInv'
  OBVIOUS
<1>1. RankCall /\ Walking /\ pc = "walk" /\ UNCHANGED <<object, call, arg, b>>
  BY DEF RankInv, RthStep
<1>2. /\ a \in Nat /\ a < Len(list) /\ b = Len(list) /\ rem \in Nat /\ arg \in Nat
      /\ a + 1 \in 1 .. Len(list) /\ a \in 0 .. Len(list) /\ a + 1 \in 0 .. Len(list)
      /\ rem + SizeOfFirst(list, a) = arg
  BY <1>1, SeqFacts DEF Walking, RankCall, RthStep
<1>3. PICK i \in LegalInterval : i = list[a + 1]
  BY <1>1, <1>2, SeqFacts DEF RankCall
<1>4. /\ i.lower \in Nat /\ i.upper \in Nat /\ i.lower <= i.upper
      /\ i.lower \in Value /\ i.upper \in Value /\ Width(i) = i.upper - i.lower
  BY <1>3, LegalFacts DEF Width
<1>5. /\ SizeOfFirst(list, a) \in Nat
      /\ SizeOfFirst(list, a + 1) = SizeOfFirst(list, a) + Width(i)
      /\ SizeOfFirst(list, a + 1) \in Nat
  <2>1. SizeOfFirst(list, a + 1) = SizeOfFirst(list, (a + 1) - 1) + Width(list[a + 1])
    BY <1>1, <1>2, SizeSteps DEF RankCall
  <2>2. (a + 1) - 1 = a
    BY <1>2
  <2>. QED
    BY <1>1, <1>2, <1>3, <2>1, <2>2, SizeSteps DEF RankCall
<1>6. CASE rem < Width(i) /\ Return(i.upper - (Width(i) - rem)) /\ UNCHANGED <<a, rem>>
  <2>1. PICK x : x = i.upper - (Width(i) - rem)
    OBVIOUS
  <2>2. x \in Nat /\ x = i.lower + rem /\ Has(i, x) /\ x \in Value
    BY <1>2, <1>4, <1>6, <2>1, WordAssumption, SMTT(30) DEF Has, Value
  <2>3. Cardinality({v \in Covered(list) : v < x})
          = SizeOfFirst(list, (a + 1) - 1) + (x - list[a + 1].lower)
    BY <1>1, <1>2, <1>3, <2>2, RankFacts DEF RankCall
  <2>4. Cardinality({v \in Covered(list) : v < x}) = arg
    BY <1>2, <1>3, <1>4, <1>5, <2>2, <2>3
  <2>5. InList(list, x)
    BY <1>2, <1>3, <2>2 DEF InList
  <2>6. arg < Size(list)
    <3>1. Len(list) \in Nat /\ Len(list) \in 0 .. Len(list)
      BY <1>1, SeqFacts DEF RankCall
    <3>2. SizeOfFirst(list, a + 1) <= SizeOfFirst(list, Len(list))
      BY <1>1, <1>2, <3>1, SizeGrows DEF RankCall
    <3>3. SizeOfFirst(list, Len(list)) \in Nat
      BY <1>1, <3>1, SizeSteps DEF RankCall
    <3>. QED
      BY <1>2, <1>4, <1>5, <1>6, <3>2, <3>3 DEF Size
  <2>7. Found' /\ pc' = "done"
    <3>1. RightRank(x)
      BY <2>4, <2>5, <2>6 DEF RightRank
    <3>2. result' = x /\ pc' = "done" /\ a' = a
      BY <1>6, <2>1 DEF Return
    <3>. QED
      BY <1>1, <1>2, <3>1, <3>2 DEF Found, RightRank, object
  <2>. QED
    BY <1>1, <2>7 DEF RankInv, RankCall, object
<1>7. CASE rem >= Width(i) /\ rem' = rem - Width(i) /\ a' = a + 1 /\ UNCHANGED <<pc, result>>
  <2>1. list' = list /\ b' = b /\ arg' = arg /\ a' = a + 1 /\ rem' = rem - Width(i)
    BY <1>1, <1>7 DEF object
  <2>2. Width(i) \in Nat /\ rem - Width(i) \in Nat
    BY <1>2, <1>4, <1>7
  <2>3. (rem - Width(i)) + SizeOfFirst(list, a + 1) = arg
    BY <1>2, <1>5, <2>2
  <2>4. Walking'
    BY <1>2, <2>1, <2>2, <2>3 DEF Walking
  <2>. QED
    BY <1>1, <1>7, <2>4 DEF RankInv, RankCall, object
<1>. QED
  BY <1>3, <1>6, <1>7 DEF RthStep

LEMMA RthMissingInv == RankInv /\ RthMissing /\ call # "contains" => RankInv'
<1>. SUFFICES ASSUME RankInv, RthMissing, call # "contains" PROVE RankInv'
  OBVIOUS
<1>1. RankCall /\ Walking /\ pc = "walk" /\ UNCHANGED <<object, call, arg, a, b, rem>>
  BY DEF RankInv, RthMissing
<1>2. a = Len(list) /\ Len(list) \in Nat
  BY <1>1, SeqFacts DEF Walking, RankCall, RthMissing
<1>3. rem + Size(list) = arg /\ rem \in Nat /\ arg \in Nat /\ arg <= Size(list) /\ Size(list) \in Nat
  BY <1>1, <1>2, SizeSteps DEF Walking, RankCall, Size
<1>4. ~(arg < Size(list)) /\ call # "at_cached"
  BY <1>1, <1>3 DEF RankCall
<1>5. result' = Word - 1 /\ pc' = "done"
  BY DEF RthMissing, Return
<1>6. Found'
  BY <1>1, <1>4, <1>5 DEF Found, RightRank, object
<1>. QED
  BY <1>1, <1>5, <1>6 DEF RankInv, RankCall, object

LEMMA RankNext == RankInv /\ [Next]_vars => RankInv'
<1>. SUFFICES ASSUME RankInv, [Next]_vars PROVE RankInv'
  OBVIOUS
<1>1. CASE UNCHANGED vars
  BY <1>1 DEF RankInv, RankCall, Searching, Walking, Found, RightRank, vars, object
<1>2. CASE call = "contains"
  <2>1. call' = "contains"
    BY <1>2 DEF Next, vars, ContainsHalve, ContainsStopHalving, ContainsScan, CacheHalve,
                CacheStopHalving, CacheFinish, RthStep, RthMissing
  <2>. QED
    BY <2>1 DEF RankInv
<1>3. CASE CacheStopHalving
  BY <1>3 DEF CacheStopHalving, RankInv, RankCall, Searching, object
<1>4. CASE call # "contains" /\ (ContainsHalve \/ ContainsStopHalving \/ ContainsScan)
  BY <1>4 DEF ContainsHalve, ContainsStopHalving, ContainsScan, RankInv
<1>. QED
  BY <1>1, <1>2, <1>3, <1>4, CacheHalveStep, CacheFinishStep, RthStepInv, RthMissingInv DEF Next

\* The cache search keeps the entry before its bound below the rank looked for,
\* and what the walk has skipped and has left to skip add up to that rank
\* (get_cached_interval_idx and get_rth_value).
THEOREM RankSearch == Spec => []RankInv
  BY RankInit, RankNext, PTL DEF Spec

\* No loop of a lookup leaves the vector it reads, nor the index cache, whose
\* last loop never looks at its end (contains, get_cached_interval_idx,
\* get_rth_value).
THEOREM LookupsStayInside == Spec => []StaysInside
<1>1. ContainsInv /\ RankInv => StaysInside
  <2>. SUFFICES ASSUME ContainsInv, RankInv PROVE StaysInside
    OBVIOUS
  <2>1. CASE call = "contains"
    BY <2>1 DEF ContainsInv, StaysInside
  <2>2. CASE call # "contains"
    BY <2>2 DEF RankInv, RankCall, Searching, Walking, Found, StaysInside
  <2>. QED
    BY <2>1, <2>2
<1>. QED
  BY <1>1, Inductive, RankSearch, PTL

\* at() and at_cached() find the value of every rank in a list in order that has
\* no empty interval, for every size of the cache entries, and at() answers -1 for
\* the rank past the list.  ListIntervalsProofs!LookupsAreServed says which calls
\* of add() leave such a list.
THEOREM RanksAreFound == Spec => [](AllWide(list) => FindsRthValue)
<1>1. RankInv => (AllWide(list) => FindsRthValue)
  <2>. SUFFICES ASSUME RankInv, AllWide(list), pc = "done", call \in {"at", "at_cached"}
                PROVE  RightRank(result)
    BY DEF FindsRthValue, RightRank
  <2>. QED
    BY DEF RankInv, Found
<1>. QED
  BY <1>1, RankSearch, PTL
=============================================================================
