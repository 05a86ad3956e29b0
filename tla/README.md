# A TLA+ development of libleeloo

libleeloo is a C++ library for large sets of integers, kept as lists of
half-open intervals, and for walking through such a set in a random order
without keeping the order in memory. Network scanners are its users: the
integers are IPv4 addresses and ports, a walk takes days, and a program that is
stopped goes on later from a saved state.

This directory models the core of the library in TLA+, checks the models with
TLC on small instances and proves the central results with TLAPS for every
instance. Paths below are relative to the repository; `list_intervals.h` and the
other headers are in `src/include/leeloo/`.

## 1. The system

| Component | State | Operations | What makes it correct |
|---|---|---|---|
| `interval`, `utility` | lower and upper bound | width, contains, overlap, hull | an interval holds its lower bound and not its upper bound; intervals that touch overlap |
| `list_intervals` | intervals, pending removed intervals, index cache | add, remove, aggregate, aggregate_max_prefix, clear, load, create_index_cache | after any calls the object stands for the values added and not removed; an aggregated list is sorted and disjoint |
| its lookups | none | contains, at, at_cached | contains is membership; at and at_cached find the value with r values below it and stay inside the vectors |
| its `random_sets` | none, a generator on the stack | two versions, for sets of one size and of any size | every value is in one set and in no other |
| its dumps | a file or a stream | dump_to_fd, dump_to_file, read_from_fd, read_from_file, dump_stream, read_stream | reading brings back the list that was dumped, or fails |
| `uni` | size, offset, position, shuffled rest | init, operator(), get_step | max draws return max different numbers, from any number of threads |
| `uni<__m128i>` | the same with four positions | init, operator(), get_step | its vectors hold the draws of `uni` |
| `uprng` | the same with a prime over the size | init, operator(), get_step | the same, and a draw ends |
| `list_intervals_random` | generator, step, seed | init, operator(), end, save_state, restore_state | the walk meets every value, also when it is resumed, and nothing twice that was saved |
| `list_intervals_random_promise` | steps to do, steps done, iterator, generator, seed | init, operator(), next, step_done, end, set_done_steps, save_state, restore_state | every step of the walk is reported before end, a step saved as done is not handed out again |
| `list_intervals_properties` | ends of intervals with their bits, pieces with their properties | add_property, aggregate_properties, property_of | property_of is the union of the properties of the intervals that hold the value |
| `bit_field`, `sort_permute` | a growing buffer of bits | reserve, set_bit, clear_bit, get_bit_fast, references to bits and their swap | a bit goes where its end goes, and no bit is read that was not written |
| `list_intervals_with_properties`, and its version for addresses | a list and its properties, one vector of properties for all sets | add_property of intervals, ranges, objects and texts, property_of, random_sets_with_properties | a value has the properties that were given to it, also in the sets |
| `ip_list_intervals` and `ips_parser` | a list of addresses | add and remove of texts in five syntaxes, and of addresses | the closed range of a text is the half-open interval of the list; a malformed text changes nothing |
| `port`, `port_list_intervals` | protocol and port in one integer | add and remove of ranges | a range has the ports of its protocol |
| tools | a list of addresses | aggregation of lines, ranges given and removed, printing | what is printed is read again as what it was |
| Python bindings | none | the classes above | |

How they interact. A program fills a `list_intervals`, aggregates it, and
creates the index cache, three calls the library does not enforce: `contains`,
`at` and the walks are only right after them. A generator (`uni` or `uprng`) is
made for `size()` values; a walk asks it for the rank of the next value and asks
the list for the value of this rank with `at_cached`. `random_promise` keeps its
own bookkeeping in two `list_intervals` of steps, so it rests on `aggregate` a
second time. The lists with properties and of addresses are `list_intervals`
with conversions at the borders: a text becomes closed ranges, a closed range a
half-open interval, and for the properties two ends in a vector with one bit each
in a `bit_field` beside it, which one sort permutes together. `aggregate` sorts
with TBB's parallel sort and `random_sets` calls back into the program, which in
`random_sets_with_properties` looks every value up in the pieces. A list leaves
the process as the bytes of its vector and comes back from a file that may have
been cut, or as printed text through the parser.

What is hard to get right:

- the bounds: half-open intervals of a fixed-width integer, intervals that touch,
  empty intervals, sums that wrap, the last block of a prefix;
- the sweep of `aggregate` over two sorted lists, with an iterator in the removed
  intervals kept from one merged interval to the next and a second one inside a
  merged interval;
- the two dichotomies that stop early, and the index cache that no call
  invalidates;
- threads that share an atomic generator;
- a walk whose steps are reported out of order, saved, lost in a crash and
  restored, over lists that are re-aggregated in the middle of it;
- signed comparisons of unsigned numbers in vectors, with odd lanes computed in
  the place of even ones;
- the last address, which no half-open interval of the type can hold;
- dumps without a header, a check sum or an initialised target.

`PROJECT.json` lists each of these hazards at its line, with the properties that
cover it or the reason why none does.

## 2. The modules

`Intervals`
: intervals over `0 .. Word - 1`, the helpers of `utility.h`, and what "in order"
and "separated" mean for a list. Bounds and widths wrap at `Word`, as the
unsigned base type does.

`AggregateLoop`
: `list_intervals::aggregate()` as a machine, one action per loop iteration of
`aggregate()`, `aggregate_container()` and `split_merged_interval_removed()`.
`pc` is the place in the code; `it`, `it_removed`, `it_removed_cur`, `cur_merge`
and `ret` are the variables of the code (indices instead of iterators); `piece`
is the interval that the do-while loop cuts. `Sorts(s)` is the set of the orders
a sort by lower bound may leave, so that intervals with the same lower bound
come in any order.

`Loops`, `Aggregation`
: the same algorithm as a function, `Aggregated(intervals, removed)`, and `size()`, for
the modules in which a call is one step. A loop of the code is the function `Loop` of
its counter, so that the proofs can go through it iteration by iteration.
`LoopsComputeAggregated` in `AggregateLoop` ties the function to the machine.

`LookupLoop`
: `contains()`, `at()` and `at_cached()` as a machine, with the functions they
call. A behaviour is one call on one list; `a` and `b` are the bounds of the
dichotomy.

`IntervalSet`, `ListIntervals`
: the abstract object, two sets of values and the last call, and the object of
the code between calls: two lists, the cache and its entry size. Each call is one
action.

`Uni`
: the generator, drawn from by several threads. `Claim(t)` is the fetch and
increment of the position, `Answer(t)` the permutation of the claimed position;
threads interleave between the two. The permutation is computed as in the code,
prime, residues and shuffled rest included; the shuffle is any permutation.

`UniSse`
: the class for `__m128i` beside the scalar one, with its state: comparisons are
signed (`IsGreater`), the residues of the even and the odd lanes are computed
separately with the shuffles of the code (`ToOdd`, `ToEven`), and positions are
reduced by one subtraction (`Advanced`). `SignedRem` is the remainder of
`intrinsics.h`, which is signed although it is called `_mm_urem_epi32`; `avx` says which
of its two builds a behaviour runs, and is chosen in the initial state.

`ListRandom`
: `list_intervals_random` and the program that walks with it. `ReadStep` and
`Return` are the two halves of operator(), which reads the counter before it
stores it; `Save`, `Crash` and `Restore` are as in `RandomPromise`, but all that is
saved is the counter. The variable `use` says what a generator is used for in a
behaviour: draws by threads (`Uni`), vectors (`UniSse`) or a walk.

`StepLedger`, `RandomPromise`
: the promise and the class. In the ledger a step is pending, running or
finished, and a saved state is a set of finished steps. `RandomPromise` has the
code's lists `todo` and `done`, its iterator (`iter`, a pair of interval and
offset), its seed and the archive, and around them the program: `inflight` are
the steps it works on. `Take` is operator(), `StepDone` is step_done() with its
aggregation past the threshold, `Save` is save_state(), which aggregates first,
`Restore` is restore_state() in a new object, `SetDoneSteps` is the program that
has the open steps handed out again, `Crash` the end of the process.

`Properties`
: `list_intervals_properties`, one action per call and per end that a sweep meets.
`ir` is the set of ends that are still to come and a sweep takes any one with the
least value: this is `std::sort` with a comparison of values only. A property is
the number of the call that added it, a merged property the set of them. The two
versions of the sweep, with and without `fremove`, are two actions.

`Primes`, `Uprng`, `RandomSets`
: `prime_helpers.h`, the generator over the next prime, and `random_sets()` in its
two versions with that generator. `Draw` is one iteration of the loop that
rejects values past the list, `HandOver` the callback.

`BitField`, `PropertiesMemory`
: `bit_field` as the sequence of the bits of its buffer, in which a chunk that was
just allocated holds `Garbage`, with references that count chunks and bits as
`advance()` does. `PropertiesMemory` puts the ends of `Properties` where the code
has them: values and property numbers in a vector (`elts`), beginnings and ends
as bits (`actions`), both exchanged in one `Sort` step, and an `index` at which the
sweep takes the next end.

`Tokens`, `IpText`
: the parser and the printed line as functions on texts. A text is a sequence of
tokens (numbers, dots, dashes, slashes, anything else); `Fields` are its parts between
dots, where the code walks along the text. `Parsed` gives the closed
ranges, "refused", or "undefined" where the code reads outside of the text or
shifts by 33 or more; `HalfOpen` is what `add(a, b)` of `ip_list_intervals` makes of a
closed range. The documented syntaxes stand beside it with the addresses they
mean, written from the meaning and not from the parser (`SingleAddress` to `Blocks`), and
so do the texts that mean nothing (`NamesNothing`).

`Dumps`, `AddressLists`
: the bytes of a dump (`Memory`, little-endian words; `Streamed` with the count as
text before them) and what a read makes of them (`Filled`, with garbage for the
bytes that did not come). `AddressLists` is the object of `ListIntervals` as a
list of addresses or of ports, the texts and ranges that it is asked to hold, and
the file. `DumpToFile(n)` and `DumpStream(n)` write the first n bytes only, for a write or a
program that ends early; `ReadFile(n, g)` reads n bytes into memory that holds g;
`Refill` is another object that reads the file.

`AddressProperties`
: the lists with properties on top of `PropertiesMemory` and `IpText`. A text is
parsed in one step and its intervals get the property one by one. `HandOver` is the
callback of `random_sets()` that fills the vector of properties, which the sets
share. The history `given` has what the code takes a request for.

The `MC*` modules and the `.cfg` files of the same name are the instances for
TLC, the `*Proofs` modules hold the theorems. An operator that follows the
comment "A slip" is a wrong form of the definition after it. No specification
uses it; it is there to see a property fail, and `PROJECT.json` says which.

Compositions: `ListIntervals` and `RandomPromise` call `Aggregated`;
`ListIntervals` implements `IntervalSet`, and `RandomPromise` and `ListRandom` both implement
`StepLedger`, as properties with a refinement mapping. `ReadyForLookup`
states in the object what `LookupLoop` assumes of its lists. `RandomSets` contains
the state of `Uprng`, `ListRandom` that of `UniSse` and `Uni`. `AddressLists` extends
`ListIntervals` with the parser and the dumps, and `AddressProperties` extends
`Properties` with its memory and the parser: their steps are steps of the modules
below with more conjuncts, which is what `WalkIsUni` and `ListIsProperties` prove.

## 3. The runs

| Run | Question | Instance |
|---|---|---|
| `aggregate_loops` | do the loops keep the values added and not removed, in order, and end | all pairs of lists of up to 2 intervals over 5 values, and lists of up to 3 one-value intervals |
| `list_object` | does any sequence of calls implement the two sets | 8 values, 3 intervals to add, 3 to remove, 2 lists, up to 2 intervals in a container before a call |
| `lookups` | are the lookups right and inside the vectors | every list in order of up to 5 non-empty intervals over 9 values, cache entries of 1, 2 and 3 intervals, every argument |
| `lookup_with_empty` | the same with empty intervals in the list | violation, see section 6 |
| `promise_walk` | does the walk keep the ledger through reports, saves and crashes | 4 steps, 3 windows, 2 seeds, 2 crashes |
| `promise_empty_window` | is end() exact for a window without a step | violation |
| `uni_draws` | are the draws of two threads unique and complete, do vectors hold them, and does a walk by steps miss nothing | sizes 2, 4, 6, 7 and 8 in a word of 16, two rounds of draws, vectors of 2 in lanes of 32 values, both builds, walks from every first step with a crash |
| `random_sets` | is every value in one set, and do the draws end | sizes 4, 5, 6 and 8 with their primes 5, 5, 7 and 11, all parameters of `uprng`, sets of 1, 3 and 9 |
| `properties` | are the ends sorted with their bits, and the properties right and found | addresses of four bytes of one bit, 4 intervals, a range, an object and a text, up to 3 properties in any number of aggregations, 3 listed values in sets of 2 |
| `address_lists` | do texts name what they say, and do a dump and a printed line come back | addresses of four bytes of two bits, about 200 texts, two protocols of 16 ports, up to 2 intervals in a dump that is cut anywhere |
| `documented_range` | is every documented form read | the same, violation |
| `uni_overflow` | the draws for a size over half of the word | violation |

Bounds, and why they are enough:

- `Word` is 5 to 16, and 256 for addresses of four bytes of two bits, instead of
  2^32. The code compares bounds and never looks at their size, except where a sum wraps; with the small word the wrap is close.
  `Value` includes 0 and `Word - 1`.
- `MaxAdded`, `MaxRemoved`, `MaxUnits`: two intervals per list are in all the
  relative positions (apart, touching, nested, equal, empty); with three a merged
  interval is followed by others and the removed iterator is used again. The
  theorems do away with these bounds.
- `MaxLength` in `ListIntervals` limits the containers when a call adds to them;
  additions, removals and aggregations repeat without a limit.
- `EndsBeforeLastBlock` leaves out one case of `aggregate_max_prefix`: an
  interval that ends in the last block of the word, where the new upper bound wraps
  to 0.
- `Tradeoff` is 4 in the code; with 1 a list of 5 intervals goes through the
  dichotomy more than once. `contains()` is proved for every value of it.
- `Threshold` is 100 in the code; with 3 the aggregation inside `step_done()`
  happens in a walk of 4 steps, and also leaves a list as long as it was.
- `MaxCrashes` counts crashes and calls of `set_done_steps`, so that a walk can
  be resumed from a state that was itself restored.
- `MaxCrashes` is 1 in the walks of `uni_draws`: a second crash repeats the first
  one from another step. `WalkKeepsLedger` and `WalkMissesNothing` hold for any number.
- `MaxRounds` is 2 in `uni_draws`: the second round is where the position is set
  back to 0 or, when atomic, where it wraps the word.
- `Lanes` is 2 instead of 4, which is enough to have an even and an odd one, and
  `FitsVector` leaves out sizes below a vector, and over half of the word minus a
  vector, where positions would be negative; `VectorsHoldDraws` is for any even number.
- `LaneWord` is 32 in `uni_draws`, so that 8 is the largest size of which twice fits half
  of a lane; `Word` is 16 there, so that an atomic position wraps. In the code a lane has 32
  bits, and so has `Word`, or 64 of them for a list of large integers.
- `Tradeoff` is 1 in `properties` too, for lists of several pieces; `MaxStored`
  limits the list a later aggregation adds to and `MaxAdded` the properties.
- `BitsPerChunk` is 2 and `GrowBy` 1 instead of 64 and 64: the ends of three
  intervals need three chunks, so that the buffer is allocated once and grows
  twice, with bits that nothing wrote.
- `Bits` is 2 in `address_lists` and 1 in `properties` instead of 8. A byte has then
  four values or two, which is a first, a last and two between; every comparison of
  the parser with 255 is one with the last value.
- `Documented` is every text of the five syntaxes over `Addresses`, `LastBytes` and
  `BlockParts`, which are all of them in the theorems and in the run the addresses at both
  ends and two in the middle; every prefix and every number of bytes are in it.
  `Malformed` is taken from `tests/ips_parser.cpp`; an assumption that TLC evaluates says
  that each text names nothing. They are given to a new list (`IsNew`), the documented ones as
  arguments of the program and the malformed ones to `add` and `remove`, and only
  `Lines`, one text of each kind, to a list that has changed. Spaces, which the
  parser skips around a number, are left out.
- `Digits` names two byte values as digits, so that the numbers in a stream are of base
  2; `MaxCount` limits the count that is read, as a first byte that is a digit
  makes it longer, and `MaxHeld` the intervals in a list that is dumped.
- `Garbage` in `address_lists` is the first and the last value of a byte.
- `Listed` and `SetSize`: one full set and a rest, whose vector still holds the
  properties of the full one.
- `Rounds` is 1 and 2 instead of 1 to 4: the permutation is iterated.
- `UprngAssumption` leaves out the sizes 2 and 3, for which `init()` looks for an
  exponent for ever, and those whose next prime does not fit the word.
- `PropertiesAssumption` leaves out empty intervals, which the sweep may close
  before it opens them, and keeps `NoProperty`, which stands for the null pointer, apart
  from the sets of properties; `SetsAssumption` leaves out sizes of sets over the base type,
  which the code cuts before it divides by them.

Sizes of `uni`: 2 has no prime, so it is all shuffle; 7 is a prime itself; 6 has a
prime (3) and three shuffled values; 8 is exactly half of the word.

Fairness. `AggregateLoop` and `LookupLoop` are sequential code, and so is `RandomSets`: `WF_vars(Next)`
says that the processor goes on. In `RandomPromise` the program is the one of
`tests/random_state.cpp` and of the bindings: it loops until `end()`, reports
what it was handed, and is started again after a crash, so `Start`, `Restore`,
`Take` and the reports are weakly fair. `ListRandom` has the same program around
it, so `StartWalk`, `Restore`, `ReadStep` and `Return` are weakly fair in a walk. Nothing makes saves, crashes or
`set_done_steps` happen, and the draws of threads are not fair. `ListIntervals`, `AddressLists`,
`AddressProperties` and the draws of `Uni` have no fairness: nothing says
that their callers go on, and no liveness is stated of them.

`CHECK_DEADLOCK FALSE` stands in all configurations but that of `properties`. A call that has returned, a
walk that is over, a generator at its bound and a list that was read back do stop; that the
first two stop only there
is what `Terminates`, `SetsEnd` and `WalkEnds` say. In `list_object` a call is always
possible.

## 4. What the runs show

- `KeepsTheDifference`, `ResultInOrder`, `LoopsComputeAggregated`, `Terminates`:
  the sweep is right for every order of equal lower bounds, including removed
  intervals that are empty, that touch, or that span several merged ones.
- `ImplementsIntervalSet`: a removal waits until the next aggregation and takes
  away what is added after it too; an aggregation of an empty list leaves it
  waiting; rounding never loses a value and adds values of a block with a member,
  or of the block that starts where an interval ended.
- `SizeCountsValues`, `ReadyForLookup`: an aggregated and indexed list is what the
  lookups assume, whatever cache there was before.
- `StaysInside`, `ContainsIsMembership`, `FindsRthValue`: the last loop of the
  cache lookup has no bound of its own; it stays in the cache as long as the
  argument is below `size()`.
- `ImplementsLedger`, `ArchiveIsHonest`, `EndMeansScanned`, `WalkEnds`: no step is
  lost or handed out twice in a session, a crash repeats work and never skips any,
  and at the end the elements that were scanned are those of the window, across
  seeds and sessions. A restored walk covers the window only because the steps
  outside of it are saved as done.
- `StepDoneAssertion`, `SizesAreCounts`: the assertion of `step_done()` holds
  after a restore as well, and `size_done()` counts each step once though its list
  is not aggregated.
- `UniqueInFirstCycle`, `UniqueInEveryCycle`, `FirstCycleComplete`,
  `GetStepAnnouncesDraw`: draws are unique in each cycle, the last one excepted in
  which an atomic position wraps; `get_step(k)` is the k-th draw.
- `LanesAreDraws`: the vectors hold the draws of the scalar class lane by lane
  through several cycles, and so does `get_step()` within the first one, in both
  builds. It says so of the sizes of which twice fits half of a lane: for a larger one
  the sum of a residue and the offset may be a negative number for the signed
  remainder, and the numbers of a cycle are not unique (section 6). For a size over half
  of a lane a position is negative in the signed comparison, and no vector is drawn; the
  bound is `FitsVector`.
- `WalkCoversList`, `WalkImplementsLedger`, `WalkEnds` of `ListRandom`: the counter
  is all that a walk needs to keep. A step that was read and not
  returned, or returned and not saved, comes again after a crash, and no other
  does; the end is met, though it is tested for equality.
- `NoValueTwice`, `EveryValueHandedOver`, `SetsFitTheBuffer`, `SetsEnd`: the
  positions the generator passes over cost draws and no values; the last set may be
  short, and a callback that breaks off is the only way to leave values out.
- `MemoryHoldsEnds`: the vector and the bits hold exactly the ends that the sweep
  has still to meet, in every order of exchanges, and no bit is read that
  was not written, although a chunk that is added is not cleared.
- `PiecesAreMerged`, `EndsAfterItsBegin`, `ValuesHaveTheirProperties`: pieces of width 0
  between ends at the same value do no harm; a value between two intervals has the
  empty property and a value outside of all has none; an aggregation without new
  properties drops the old ones; a second aggregation is right when it is to the
  right of the first, the only case in which the pieces stay in order. A value that
  is handed over in a set comes with the properties that were given to it, also in
  the last set, which is shorter than the vector. An object counts as the closed range
  that the code makes of it (section 6).
- `RequestsAreMet`: every documented form names its addresses but for the last one
  of all, in both orders of the bounds, and `add` and `remove` refuse a malformed text.
- `ReadBackIsDumped`, `StreamReadsBack`: a read that returns gives the list that was
  dumped, or its beginning when the dump was cut at the border of an interval,
  which nothing notices; every other cut is refused. A stream has no separator
  after its count and is read back unless the first byte of the first interval is a
  digit.
- `PrintedIsReadBack`: blocks, and intervals up to the last address whose width is no
  power of two, are printed so that the parser reads them back.

## 5. What is proved

Each theorem holds for every value of the constants.

| Theorem | Module | Rests on |
|---|---|---|
| `TypeCorrect` | `AggregateLoopProofs` | `ListsAssumption`, `WordAssumption` |
| `AggregateKeepsTheDifference`, `AggregateResultInOrder`, `AggregateComputes` | `AggregateLoopProofs` | the same |
| `ObjectIsASet`, `SizeIsExact`, `LookupsAreServed` | `AddressListsProofs`, over `AggregationProofs` | `ListAssumption`: what is added holds a value. No list that is rounded to a prefix ends in the last block (`EndsBeforeLastBlock`, a guard of the model) |
| `RequestsMet`, `PrintedReadsBack` | `AddressListsProofs` | the same, `TextAssumption` and `AddressAssumption`: the sizes of bytes, words and ports, texts of the documented syntaxes, and texts that name nothing |
| `FilesReadBack`, `StreamsReadBack` | `AddressListsProofs` | the same, and `DigitsAssumption`: at least two bytes are digits, and a count has at most two of them (`MaxHeld`) |
| `ContainsFindsMembers`, `LookupsStayInside` | `LookupProofs` | `LookupAssumption`: the list is in order |
| `RanksAreFound` | `LookupProofs` | the same, and no interval of the list is empty, as a hypothesis |
| `TypeCorrect`, `ArchivesAreHonest`, `StepDoneIsAsserted`, `SizesCountSteps`, `WholeWalkIsScanned`, `EndsExactly`, `WalkKeepsLedger`, `StepsArePartitioned`, `SavedStepsAreNeverHandedAgain` | `RandomPromiseProofs` | `PromiseAssumption`, and `WindowsHoldSteps` as a hypothesis |
| `DrawsAreUnique`, `EveryCycleIsUnique`, `FirstCycleMissesNothing`, `StepsAreDraws` | `ListRandomProofs` | `UniAssumption`, `ResidueAssumption`, and `NoOverflow` as a hypothesis |
| `WalkDrawsAreUnique`, `WalkMissesNothing` | `ListRandomProofs` | the same, and `WalkAssumption` |
| `WalkKeepsLedger` | `ListRandomProofs` | `UniAssumption`, `WalkAssumption` |
| `VectorsHoldDraws` | `ListRandomProofs` | `UniAssumption`, `ResidueAssumption`, `LanesAssumption`, `NoOverflow`; of sizes of which twice is over half of a lane it says nothing |
| `SetsFit` | `RandomSetsProofs` | `UprngAssumption`, `SetsAssumption` |
| `TypeCorrect`, `ValuesComeOnce`, `EveryValueComes` | `RandomSetsProofs` | the same, and `GetStepPermutes` as a hypothesis |
| `SweepMergesProperties`, `EndsFollowBeginnings` | `AddressPropertiesProofs` | `PropertiesAssumption`: no empty interval |
| `AddressPropertiesMerge`, `AddressPropertiesEnd` | `AddressPropertiesProofs` | the same, and `AddressPropertiesAssumption` |
| `PropertiesAreFound` | `AddressPropertiesProofs` | the same, and `TextAssumption`. `AddressPropertiesAssumption` says of each text that it is read, and as the addresses it means; `RequestsMet` is that for the lists |
| `BitsStayWithEnds` | `AddressPropertiesProofs` | the same, and `BitFieldAssumption` |

The hypotheses:

- `WindowsHoldSteps`: every window of steps that a walk is started with holds a step.
  The code does not check it, and `promise_empty_window` shows that `EndIsExact` fails
  without it.
- `NoOverflow`: twice the size fits the word. `uni_overflow` shows that it is needed.
- `2 * max <= LaneWord \div 2` in `LanesAreDraws`, and so in `VectorsHoldDraws`: no sum of two
  numbers below the size is negative. It is needed: section 6 has a size just above.
- `AllWide(list)` in `RanksAreFound`: `lookup_with_empty` shows that it is needed. A
  list that was aggregated is wide (`LookupsAreServed`), unless an interval without
  values was added to it.
- `GetStepPermutes`: the generator that `init()` has drawn permutes its positions. That
  is number theory (Fermat's little theorem, for an exponent without a divisor in
  common with the prime minus one), as is `ResidueAssumption`. It is a conjunct of
  `RandomSets!TypeOK`, so that the run evaluates it for all parameters that may be
  drawn for the sizes of the run.

The arguments:

- **aggregate()**. "The result is the difference" says nothing before the last
  step, so it is not inductive. `IInv` says what each loop has achieved.
  `FoldInv`: what the merge of a container has passed is in its result or in
  `cur_merge`, and the result ends before `cur_merge`. `MergeInv`: the removed
  intervals behind `it_removed` end before `cur_merge`, which is why the code may
  forget them. `SplitInv` and `PieceInv`: a value that was passed is in the result,
  in the piece or removed, and the piece avoids the removed intervals that the
  inner iterator has passed. `Apart` keeps the distances that end in
  `ResultInOrder`: strict unless an empty interval was removed, which cuts an
  interval into two that touch. There is one lemma per action.
- **aggregate() as a function**. What a loop computes is an induction over its counter.
  `SetInduction` is that induction for a set of numbers, from the well-founded order of
  the library, and `LoopInvariant` the rule it gives: what holds before the first
  iteration and is kept by each one holds after every one. `MergedFacts` and
  `SplitFacts` say what the two passes keep and put in order, `SizeIsCount` that the sums
  of widths count values without wrapping.
- **the loops compute the function**. `AggregateComputes` says that the two agree on the
  containers, empty intervals included, so that a module may take a call of `aggregate()`
  as one step. A sort may leave intervals with the same lower bound in any order, and the
  loops still end with one list: a list whose intervals do not touch is determined by its
  points (`Touches` counts them at twice the bounds, so that touching intervals share one
  and empty ones have one; `SameTouches`, `MergedIsUnique`). The merged intervals that
  the code does not keep are a witness in `MergedInv`; the result is what `Split` makes
  of them. The removed intervals that `it_removed` has passed (`SplitSkips`) and those
  the do-while loop does not reach (`SplitEnds`) are applied by the function and change
  nothing.
- **the object**. `ListsInv` (no interval that stays is empty), `OrderInv` (an aggregated
  list is in order) and `CacheInv` (the cache is the one of the list unless a call came
  after it) are inductive, and each call is a step of `IntervalSet` on the values covered.
  Rounding to a prefix needs that a value is in the block of a bound exactly if the
  division says so (`SameBlock`).
- **the dumps**. `DumpInv` ties the file to the list that was dumped: its bytes are the
  first ones of the memory of that list, all of them if the dump was complete, and the
  intervals before the dump are legal. `AddressInv` adds the two properties, which a read
  has to establish and later calls to keep. What comes back follows from `HeldIsDumped`:
  the first bytes of a memory, put together four by four, are the first intervals
  (`AddressOfBytes`, `MemoryFacts`). For the stream the digits at the start of the bytes
  are those of the count exactly if the first byte after it is none.
- **the texts**. `RequestInv` says of the last call that its answer is that of the parser
  for its text and that what was added or removed is what the ranges of the answer
  cover, or for ports the values of the range. The rest is about the operators: for each
  syntax one lemma says that the parser reads the text as the ranges that cover what it
  means. They rest on the parts of a text between its dots (`Fields` of n
  tokens with dots between them has n parts, and only such a text has), on the order
  of four bytes that are put together, and on the prefix as a division.
  `NothingIsRefused` goes the other way: whatever the parser reads has the tokens of a syntax.
- **the printed line**. `PrintInv`: until a file is read the intervals are legal. A width that is a power of two is printed with
  the one prefix that fits it, and the block of that prefix is the interval if it starts
  at a multiple of the width.
- **contains()**. `ContainsInv`: an interval that holds the value is between the
  two bounds. `NotAbove` and `NotBelow` are the two comparisons of the dichotomy.
- **at() and at_cached()**. `RankFacts`: the number of values below one of interval k is
  the size of the first k - 1 intervals and the distance from its lower bound. `CacheFacts`:
  the entries of the cache are these sizes at every full group, they grow, and the last
  one is the size of the list. `RankInv` says for each loop what rank is left to be
  skipped: in the dichotomy the entry at the lower bound is not above the rank and the
  last entry is above it, which is why the loop that reads on without a bound stops
  inside the vector; in the walk the rank left and the size of what was passed are the
  argument.
- **uni**. `PositionInv`, `ClaimInv` and `DrawInv` tie the position of the object,
  the position a thread holds and the value a thread returned to the number of the
  draw (`At(k)`). Two draws of a cycle then have different positions, and the
  permutation keeps them apart. That needs `NoOverflow`, twice the size fits the
  word; `uni_overflow` shows that it cannot be dropped. For the other cycles
  `CycleInv` adds that the position is the number of the draw modulo the size, as
  long as an atomic one has not wrapped; two draws of one cycle differ by less than
  the size (`PositionsDiffer`). For completeness `AccountInv` counts: each of the
  first max numbers has been drawn, is held by a thread or is still to be claimed,
  so max answers are max different draws, whose values fill `0 .. max - 1`. That the residues are a
  permutation is number theory (a prime that is 3 modulo 4): it is
  `ResidueAssumption`, which TLC evaluates for the sizes of the runs.
- **the vectors**. `VectorInv` says that the lanes are the positions of the
  `calls * Lanes`-th draw and of those after it. A step needs that no position is
  negative in the signed comparison (`NotNegative`), that no sum is (`SumsFit`), so that
  both builds have the remainder of unsigned numbers (`RemainderOfSum`), that one subtraction is a
  remainder (`AdvancedLanes`), and that the two halves of the residues, each through
  its shuffle, are the residues of all lanes (`ResiduesOfLanes`).
- **the walk**. `CounterInv` keeps the counter, the step that is read and the saved
  counter in range, and makes each action one of the ledger: `Crash` loses what is
  above the saved counter. For `WalkMissesNothing`, `WalkedInv` has a step w such
  that the ranks of the steps from the first one up to w are what was returned, with
  the counter and the saved counter between the two; different steps have
  different ranks, so at the end their number is that of the steps.
- **the compositions**. `WalkIsUni` and `ListIsProperties` show that every step of the
  composition is one of the module below, so that its theorems carry over; for
  the latter `TodoOK` says that what is left of a text may be added.
- **the properties**. `FrontInv`: the ends up to `prev_value` are met and the
  others are not; `OpenInv`: the current property is that of the intervals whose
  beginning was met and whose end was not, in both versions. Between two ends
  nothing begins or ends, so the piece carries what its values have
  (`PieceIsMerged`). `PairsInv` holds before a sweep, and makes its first end a
  beginning.
- **property_of()**. `ValuesHaveTheirProperties` relates a lookup to calls long ago, so
  its invariant has three parts. `GroupsInv`: each piece belongs to one aggregation, the
  pieces are grouped by it and do not overlap in it, each carries what its values have
  there, and from the first beginning to the last end, or as far as the sweep has come,
  no value is without a piece (`NoGaps`). `GivenInv`: what a property was given to is
  what its intervals hold, also in the middle of a text, whose values are in the
  intervals that were added or in those that are left, and a sweep only starts when none
  is left. `SetsInv`: what was handed over was looked up, and is what a lookup still finds. When the aggregations went from
  left to right the groups are to the right of each other as well (`PiecesInOrder`), so
  the dichotomy keeps the piece of a value between its bounds (`PropertyIsFound`, with
  `LoopInvariant`) and ends there, or there is none. `ValueAsText` reads an address
  back from its four numbers.
- **the memory of the ends**. `MemoryHoldsEnds` alone is not inductive: two equal
  ends, or a bit that was not written, would spoil the next step. `IsMemory` adds
  that every end has a written bit, that no two ends are the same, and that their
  property numbers are those of the calls so far, so that the ends of a call are
  new. `ReserveKeeps` and `WriteBitWrites` say what a growing buffer keeps, for any
  size of chunk; `AdvanceMoves` that a reference moves by the distance, forward and
  back, so that the sort swaps the bits of the positions it swaps (`MemorySwaps`).
- **random_promise**. `ListsInv`: the list to do can be walked (in order, no empty
  interval, below the end of the steps) and the iterator is on a value of it. `HandsInv`:
  what the iterator has still to reach, what is at work and what the list of done steps
  covers are a partition, and what is at work is behind the iterator, which is the
  assertion of `step_done()`. `DoneInv`: what is done and in the window was reported, and
  what was reported was scanned with its seed or is covered by the archive; `ArchiveInv`
  the same of a saved state. `DownInv` clears the object between a crash and a restart. A
  restored object rebuilds the list to do as all steps minus the archived ones, so its
  proof uses the facts of `Aggregated`; from the invariant `WalkKeepsLedger` maps each
  action to one of the ledger, and the theorems of the ledger hold of the class.
- **random_sets()**. `CountsInv` and `FixedInv` (full sets end at multiples of the size, then
  the rest) give `SetsFit` without any hypothesis on the generator. For the values,
  `DrawnInv` says that what is in the sets and the buffer is exactly what the first n
  positions of a cycle give, n being the position or, when it was set back to 0, the
  prime, and that their number is `i` plus the length of the buffer. A draw is only
  made when that number is below the size, so n is not the prime yet and the value of
  its position is new; when it returns the number is the size, so all values were drawn.

Only model-checked: the liveness properties, which the prover does not reach. Every
invariant of a passing run is a theorem. That the residues of `uni` are a permutation and that `uprng` permutes its
positions stay conditions of the theorems about them.

## 6. Disagreements with the documentation and the tests

Each of these has a run, which is named, that finds the violation:

- `uni`: `operator()` adds a residue and an offset in the integer type before it
  reduces them. For a size over half of the type the sum wraps and two of the
  first draws are equal (`uni_overflow`); `uni.h:81-83` promises unique integers
  of `[0, max[`. The sizes of the tests are below that limit.
- `list_intervals_random_promise`: a window without a step is stored as an
  interval of width 0, for which `end()` is false at once and the iterator looks
  for the value `upper - 1`, below its start (`promise_empty_window`).
- `at_cached()` and `at()` disagree when an aggregated list holds an empty
  interval, which `aggregate()` keeps when it touches no other
  (`lookup_with_empty`).
- The last form of range in the usage text of `leeloo-aggregate`,
  `192.168-170.4-8.0` (`tools/aggregate.cpp:77`), makes `__parse_ips()` compute the length
  of the last block from the null pointer of the search for one more dot
  (`ips_parser.cpp:299`). The tests have only ranges of blocks with a dash in
  the last block (`documented_range`).

Two disagreements were met while modelling and have no run of their own; the properties
leave these cases out, as section 4 says of them:

- `uni<__m128i>`: the sum of a residue and the offset is reduced with
  `_mm_urem_epi32()` (`uni.h:208`), a signed remainder (`intrinsics.h:36-52`). For sizes from
  2^30 + 1 on a sum may be negative; the remainder is then shifted (AVX) or itself
  negative, and two numbers of a cycle may be equal: of size 6 in lanes of 16 values, with
  offset 3 and without AVX, the vector at the positions 4 and 5 holds 1 twice. `uni.h:186-188`
  promises unique integers of `[0, max[`, and `tests/uni.cpp:109` checks them, with a small size.
- `add_property()` of an address list takes the exclusive upper bound of an
  interval object as inclusive (`ip_list_intervals_with_properties.h:52`), so that one
  address more gets the property. `interval.h:45` calls an interval half-open.

Other behaviour that a reader of the models will meet, where no document promises
anything else:

- The list of addresses never holds the last address: `add(a, b)` does not increment it,
  so a range up to it loses it, and the range of this address alone becomes an interval without
  values.
- A range of blocks with one dash in all, `10.4-5.8.0`, is taken for a range of two
  addresses and refused. Numbers from 256 to 999 in a range of blocks are cut to 8 bits.
  `10/` and `10/abc` are read as `10/0`; a prefix over 32 shifts by a negative number.
- `leeloo-aggregate` prints a width that is a power of two as a prefix, wherever the
  interval starts, and otherwise the exclusive upper bound, which the parser takes as
  inclusive. `PrintedIsReadBack` states the cases that are read back.
- The count in a stream has no separator: the list of `tests/dump_file.cpp` begins with
  the byte 0, a list of addresses that begins with a byte from 48 to 57 is not read back.
- A dump of an aggregated list that holds an interval without values is refused when it is read, and the
  list that reads it keeps what came, or what was in the memory after a short read.
  Pending removals are not dumped. `dump_to_file()` and `read_from_file()` do not close the file
  when they throw.
- `add_property()` of an address list ignores a text that the parser refuses.
- `get_step()` of `uni` adds the position and the step in the integer type (`uni.h:107`), with
  the same wrap as in `operator()` for a size over half of the type: a walk over such a
  list meets elements twice.
- `aggregate_max_prefix()` makes an interval of upper bound 0 of one that ends in the last
  block (`list_intervals.h:654`).

## 7. Not modelled

- Python bindings: declarations of the classes above. A callback of Python runs inside
  `random_sets()` as the one of C++ does, and the function that saves a state opens, and so
  empties, its file before the state is made.
- The helpers: casts, bit permutations, intrinsics other than the remainder of vectors, timing and the adapters of random
  engines have no state that lives between two calls.
- Operations of `bit_field` on whole fields (`set_all`, `clear_all`, comparison, copy,
  `random_fill`, the loops over set bits): the library uses a field for the ends of
  properties only, through the operations that are modelled.
- Two threads that walk with one `list_intervals_random`, whose counter is not atomic
  although its generator may be: the code gives such a walk no meaning.
- Lookups with a cache that is older than the list, and copies of a walk, whose iterator points into
  the original: misuses that the code neither detects nor describes.
- The atomic position of `uprng` and its sizes 2 and 3, for which `init()` does not end.
- `operator==`, `middle()`, `assign()`, and `contains(text)`, which is `contains()` of what
  `Ipv4ToI` gives.
- The names of protocols and constants of sockets in `port.cpp`, which are tables, and the reading
  of files by the tools; the random walk of `leeloo-ip-ranges-rand` is the one of
  `RandomSets`.
- Boost serialization of a list, which stores the vector of intervals: `load` is the
  `Replace` of `ListIntervals`, the archive is external.

## 8. Running it

```
tlc -workers 2 -config MCAggregate.cfg MCAggregate
tlapm AggregateLoopProofs.tla
```

The other runs are started in the same way. `aggregate_loops`, `list_object`, `uni_draws`,
`properties` and `address_lists` take between half a minute and two minutes each, the
others less. The proofs take a few minutes together.
