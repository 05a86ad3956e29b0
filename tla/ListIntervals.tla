---------------------------- MODULE ListIntervals ----------------------------
(****************************************************************************)
(* A list_intervals object (list_intervals.h) between the calls of the      *)
(* program that owns it: the intervals added, the intervals removed and not *)
(* yet taken away, and the index cache of at_cached(), which no call keeps  *)
(* up to date.  The loops of aggregate() are those of AggregateLoop, the    *)
(* lookups those of LookupLoop; here a call is one step.                    *)
(****************************************************************************)
EXTENDS Aggregation, FiniteSets

CONSTANTS
    Addable,        \* the intervals given to add()
    Removable,      \* the intervals given to remove()
    Others,         \* the aggregated lists given to add(), remove() and load()
    BlockSizes,     \* max_size of aggregate_max_prefix(), a power of two
    EntrySizes,     \* the arguments of create_index_cache()
    MaxLength       \* bound: the longest list of intervals, added or removed

\* An interval without values would be rounded out to a whole block.
ASSUME ListAssumption ==
    /\ \A i \in Addable : i \in LegalInterval /\ Width(i) > 0
    /\ Removable \subseteq LegalInterval
    /\ Others \subseteq Seq(LegalInterval)
    /\ \A o \in Others : \A k \in 1 .. Len(o) : Width(o[k]) > 0
    /\ \A size \in BlockSizes : size \in Nat \ {0} /\ Word % size = 0
    /\ EntrySizes \subseteq Nat \ {0}

VARIABLES
    intervals,      \* _intervals
    removed,        \* _excluded_intervals
    index_cache,    \* _index_cache
    entry,          \* _cache_entry_size
    called,         \* history: the last call that was not create_index_cache()
    indexed         \* history: create_index_cache() was called after it

lists == <<intervals, removed>>
cache == <<index_cache, entry>>
vars == <<lists, cache, called, indexed>>

TheCall(op, set, size) == [op |-> op, set |-> set, size |-> size]

\* A call that changes the lists does not touch the cache.
Calls(op, set, size) ==
    /\ called' = TheCall(op, set, size)
    /\ indexed' = FALSE
    /\ UNCHANGED cache

Init ==
    /\ intervals = <<>> /\ removed = <<>>
    /\ index_cache = <<>> /\ entry = 0
    /\ called = TheCall("construct", {}, 0)
    /\ indexed = FALSE

------------------------------------------------------------------------------

\* add(): one interval, or those of another list.
AddIntervals(s) ==
    /\ Len(intervals) + Len(s) <= MaxLength
    /\ intervals' = intervals \o s
    /\ UNCHANGED removed
    /\ Calls("add", Covered(s), 0)

RemoveIntervals(s) ==
    /\ Len(removed) + Len(s) <= MaxLength
    /\ removed' = removed \o s
    /\ UNCHANGED intervals
    /\ Calls("remove", Covered(s), 0)

Aggregate ==
    /\ LET agg == Aggregated(intervals, removed)
       IN  intervals' = agg.intervals /\ removed' = agg.removed
    /\ Calls("aggregate", {}, 0)

\* aggregate_max_prefix_impl(): the interval is replaced by the blocks it is in,
\* and by one block more when its upper bound is the start of a block.
RoundedOut(i, size, strict) ==
    IF Width(i) < size \/ (~strict /\ i.upper % size # 0)
      THEN Itv(i.lower - (i.lower % size), (i.upper - (i.upper % size) + size) % Word)
      ELSE i

\* Bound: no interval ends in the last block, where the new upper bound wraps.
EndsBeforeLastBlock(s, size) == \A k \in 1 .. Len(s) : s[k].upper < Word - size

AggregateMaxPrefix(size, strict) ==
    LET agg == Aggregated(intervals, removed)
        rounded == [k \in 1 .. Len(agg.intervals) |-> RoundedOut(agg.intervals[k], size, strict)]
        again == Aggregated(rounded, agg.removed)
    IN  /\ EndsBeforeLastBlock(agg.intervals, size)
        /\ intervals' = again.intervals /\ removed' = again.removed
        /\ Calls("round", {}, size)

\* A slip: the pending removals are not cleared.
ReplaceIntervals(s) ==
    /\ intervals' = s /\ removed' = removed
    /\ Calls("replace", Covered(s), 0)

\* clear(), and load() or read_stream(), which clear first.
Replace(s) ==
    /\ intervals' = s /\ removed' = <<>>
    /\ Calls("replace", Covered(s), 0)

\* A slip: the entries of an older cache are not cleared.
CreateIndexCacheAfter(n) ==
    LET count == (Len(intervals) + n - 1) \div n
    IN  /\ Len(index_cache) < MaxLength
        /\ index_cache' = index_cache \o
             [k \in 1 .. count |-> SizeOfFirst(intervals, Least(k * n, Len(intervals)))]
        /\ entry' = n
        /\ indexed' = TRUE
        /\ UNCHANGED <<lists, called>>

CreateIndexCache(n) ==
    LET count == (Len(intervals) + n - 1) \div n
    IN  /\ index_cache' = [k \in 1 .. count |->
                             SizeOfFirst(intervals, Least(k * n, Len(intervals)))]
        /\ entry' = n
        /\ indexed' = TRUE
        /\ UNCHANGED <<lists, called>>

Next ==
    \/ \E i \in Addable : AddIntervals(<<i>>)
    \/ \E i \in Removable : RemoveIntervals(<<i>>)
    \/ \E o \in Others : AddIntervals(o) \/ RemoveIntervals(o) \/ Replace(o)
    \/ Aggregate
    \/ \E size \in BlockSizes, strict \in BOOLEAN : AggregateMaxPrefix(size, strict)
    \/ \E n \in EntrySizes : CreateIndexCache(n)

Spec == Init /\ [][Next]_vars

------------------------------------------------------------------------------
(* Properties. *)

\* The two containers stand for the two sets of IntervalSet, through any
\* sequence of calls: additions and removals in any order, removals that are
\* pending when the list is empty, two aggregations in a row, the rounding to a
\* prefix between two aggregations, and clear().
Set == INSTANCE IntervalSet WITH
    members <- Covered(intervals), excluded <- Covered(removed)

ImplementsIntervalSet == Set!Spec

\* After an aggregation size() counts every value once, so it is the bound of
\* at(), of the generators and of the walks ("r < size()").
JustAggregated == called.op \in {"aggregate", "round"}
SizeCountsValues ==
    JustAggregated => Size(intervals) = Cardinality(Covered(intervals))

\* aggregate(), then create_index_cache(): at_cached() finds in the object what
\* LookupLoop assumes, whatever the object held before, an older cache
\* included.
ReadyForLookup ==
    JustAggregated /\ indexed =>
        /\ InOrder(intervals)
        /\ \A k \in 1 .. Len(intervals) : Width(intervals[k]) > 0
        /\ Len(index_cache) * entry >= Len(intervals)
        /\ \A k \in 1 .. Len(index_cache) :
             index_cache[k] = Cardinality({v \in Value :
               \E j \in 1 .. Len(intervals) : j <= k * entry /\ Has(intervals[j], v)})
==============================================================================
