----------------------------- MODULE LookupLoop -----------------------------
(****************************************************************************)
(* The lookups in an aggregated list_intervals: contains(), at() and        *)
(* at_cached() with the two functions they call, get_rth_value() and        *)
(* get_cached_interval_idx(), one action per loop iteration.  A behaviour   *)
(* is one call.  The indices count from 0 as in the code.                   *)
(*                                                                          *)
(*   "halve"   the dichotomy, of contains() or of the index cache           *)
(*   "scan"    the last loop of contains()                                  *)
(*   "finish"  the last loop of get_cached_interval_idx()                   *)
(*   "walk"    the loop of get_rth_value()                                  *)
(*   "done"    the call has returned                                        *)
(****************************************************************************)
EXTENDS Aggregation, FiniteSets

CONSTANTS
    Lists,          \* the lists that are looked into
    EntrySizes,     \* the arguments of create_index_cache()
    Tradeoff        \* the span at which the dichotomies stop, 4 in the code

ASSUME LookupAssumption ==
    /\ Lists \subseteq {s \in Seq(LegalInterval) : InOrder(s)}
    /\ EntrySizes \subseteq Nat \ {0}
    /\ Tradeoff \in Nat \ {0}

VARIABLES
    list,           \* _intervals
    entry, cache,   \* _cache_entry_size and _index_cache
    call, arg,      \* the function called and its argument
    a, b,           \* the bounds of a dichotomy; a is the index of the loops after it
    rem,            \* `rem` of the cache lookup, `cur` of get_rth_value()
    pc,
    result

object == <<list, entry, cache>>
vars == <<object, call, arg, a, b, rem, pc, result>>

\* A slip: no entry for a last group that is not full.
IndexCacheOfFullGroups(s, n) ==
    [k \in 1 .. Len(s) \div n |-> SizeOfFirst(s, Least(k * n, Len(s)))]

\* create_index_cache(): an entry is the size of the list up to its last interval.
IndexCache(s, n) ==
    [k \in 1 .. (Len(s) + n - 1) \div n |-> SizeOfFirst(s, Least(k * n, Len(s)))]

\* The calls that satisfy the assertions of the functions, and at() with the
\* first rank past the list, which a build without assertions answers.
Call(f, x, from, to, where) ==
    /\ call = f /\ arg \in x
    /\ a = from /\ b = to /\ pc = where

Init ==
    /\ list \in Lists
    /\ entry \in EntrySizes
    /\ cache = IndexCache(list, entry)
    /\ \/ Call("contains", Value, 0, Len(list), "halve")
       \/ Call("at", 0 .. Size(list), 0, Len(list), "walk")
       \/ Call("at_cached", 0 .. Size(list) - 1, 0, Len(cache), "halve")
    /\ rem = arg
    /\ result = FALSE

Return(r) ==
    /\ result' = r
    /\ pc' = "done"

------------------------------------------------------------------------------
(* contains() *)

Mid == (b + a) \div 2

\* A slip: the upper bound of the dichotomy is taken for an inclusive one.
ContainsHalveBelow ==
    /\ pc = "halve" /\ call = "contains" /\ b - a > Tradeoff
    /\ LET i == list[Mid + 1]
       IN  \/ /\ Has(i, arg)
              /\ Return(TRUE)
              /\ UNCHANGED <<a, b>>
           \/ /\ ~Has(i, arg) /\ arg < i.lower
              /\ b' = Mid - 1
              /\ UNCHANGED <<a, pc, result>>
           \/ /\ ~Has(i, arg) /\ arg >= i.lower
              /\ a' = Mid
              /\ UNCHANGED <<b, pc, result>>
    /\ UNCHANGED <<object, call, arg, rem>>

ContainsHalve ==
    /\ pc = "halve" /\ call = "contains" /\ b - a > Tradeoff
    /\ LET i == list[Mid + 1]
       IN  \/ /\ Has(i, arg)
              /\ Return(TRUE)
              /\ UNCHANGED <<a, b>>
           \/ /\ ~Has(i, arg) /\ arg < i.lower
              /\ b' = Mid
              /\ UNCHANGED <<a, pc, result>>
           \/ /\ ~Has(i, arg) /\ arg >= i.lower
              /\ a' = Mid
              /\ UNCHANGED <<b, pc, result>>
    /\ UNCHANGED <<object, call, arg, rem>>

ContainsStopHalving ==
    /\ pc = "halve" /\ call = "contains" /\ b - a <= Tradeoff
    /\ pc' = "scan"
    /\ UNCHANGED <<object, call, arg, a, b, rem, result>>

ContainsScan ==
    /\ pc = "scan"
    /\ IF a >= b THEN Return(FALSE) /\ a' = a
       ELSE IF Has(list[a + 1], arg) THEN Return(TRUE) /\ a' = a
       ELSE a' = a + 1 /\ UNCHANGED <<pc, result>>
    /\ UNCHANGED <<object, call, arg, b, rem>>

------------------------------------------------------------------------------
(* at_cached(): get_cached_interval_idx() *)

\* It returns to at_cached(): when nothing remains to be skipped, the answer is
\* the lower bound of the interval found.
CacheReturn(idx, r) ==
    /\ rem' = r
    /\ a' = idx
    /\ IF r = 0 THEN Return(list[idx + 1].lower) /\ b' = b
       ELSE b' = Len(list) /\ pc' = "walk" /\ result' = result

\* A slip: the entry that ends before the value is taken for the one it starts.
CacheHalveSameEntry ==
    /\ pc = "halve" /\ call = "at_cached" /\ b - a > Tradeoff
    /\ LET vmid == cache[Mid + 1]
       IN  \/ /\ vmid = arg
              /\ CacheReturn(Mid * entry, 0)
           \/ /\ vmid < arg
              /\ a' = Mid
              /\ UNCHANGED <<b, rem, pc, result>>
           \/ /\ vmid > arg
              /\ b' = Mid
              /\ UNCHANGED <<a, rem, pc, result>>
    /\ UNCHANGED <<object, call, arg>>

CacheHalve ==
    /\ pc = "halve" /\ call = "at_cached" /\ b - a > Tradeoff
    /\ LET vmid == cache[Mid + 1]
       IN  \/ /\ vmid = arg
              /\ CacheReturn((Mid + 1) * entry, 0)
           \/ /\ vmid < arg
              /\ a' = Mid
              /\ UNCHANGED <<b, rem, pc, result>>
           \/ /\ vmid > arg
              /\ b' = Mid
              /\ UNCHANGED <<a, rem, pc, result>>
    /\ UNCHANGED <<object, call, arg>>

CacheStopHalving ==
    /\ pc = "halve" /\ call = "at_cached" /\ b - a <= Tradeoff
    /\ pc' = "finish"
    /\ UNCHANGED <<object, call, arg, a, b, rem, result>>

\* A slip: the last loop does not advance.
CacheFinishInPlace ==
    /\ pc = "finish"
    /\ cache[a + 1] >= arg
    /\ CacheReturn(a * entry, IF a > 0 THEN arg - cache[a] ELSE arg)
    /\ UNCHANGED <<object, call, arg>>

CacheFinish ==
    /\ pc = "finish"
    /\ \/ /\ cache[a + 1] < arg
          /\ a' = a + 1
          /\ UNCHANGED <<b, rem, pc, result>>
       \/ /\ cache[a + 1] >= arg
          /\ CacheReturn(a * entry, IF a > 0 THEN arg - cache[a] ELSE arg)
    /\ UNCHANGED <<object, call, arg>>

------------------------------------------------------------------------------
(* get_rth_value() *)

RthStep ==
    /\ pc = "walk" /\ a < b
    /\ LET i == list[a + 1]
       IN  \/ /\ rem < Width(i)
              /\ Return(i.upper - (Width(i) - rem))
              /\ UNCHANGED <<a, rem>>
           \/ /\ rem >= Width(i)
              /\ rem' = rem - Width(i)
              /\ a' = a + 1
              /\ UNCHANGED <<pc, result>>
    /\ UNCHANGED <<object, call, arg, b>>

\* `return -1`: there is no such value.
RthMissing ==
    /\ pc = "walk" /\ a >= b
    /\ Return(Word - 1)
    /\ UNCHANGED <<object, call, arg, a, b, rem>>

Next ==
    \/ ContainsHalve \/ ContainsStopHalving \/ ContainsScan
    \/ CacheHalve \/ CacheStopHalving \/ CacheFinish
    \/ RthStep \/ RthMissing

Spec == Init /\ [][Next]_vars /\ WF_vars(Next)

------------------------------------------------------------------------------
(* Properties. *)

\* The indices stay inside the vector that the next iteration reads, the index
\* cache included, which the last loop of get_cached_interval_idx() walks
\* without looking at its end.
StaysInside ==
    /\ pc \in {"halve", "scan"} =>
         a <= b /\ b <= IF call = "contains" THEN Len(list) ELSE Len(cache)
    /\ pc = "finish" => a < Len(cache)
    /\ pc = "walk" => b = Len(list)
    /\ pc = "done" /\ call = "at_cached" => a < Len(list)

\* contains() is membership, though the dichotomy gives up on an interval after
\* one comparison ("Suppose that intervals have been aggregated! (and are thus
\* sorted)").
ContainsIsMembership ==
    pc = "done" /\ call = "contains" => (result <=> InList(list, arg))

\* at(r) and at_cached(r) are the value of the list that has r values below it,
\* whatever the size of the cache entries and however the dichotomy ends; past
\* the list at() returns -1.
FindsRthValue ==
    pc = "done" /\ call \in {"at", "at_cached"} =>
        IF arg < Size(list)
          THEN /\ InList(list, result)
               /\ Cardinality({v \in Covered(list) : v < result}) = arg
          ELSE result = Word - 1

\* The dichotomies end, because they stop before a span of one interval, whose
\* middle would be its lower end again.
Terminates == <>(pc = "done")
=============================================================================
