-------------------------- MODULE AddressProperties --------------------------
(****************************************************************************)
(* A list whose values have properties (list_intervals_with_properties.h),  *)
(* and the one of addresses (ip_list_intervals_with_properties.h), which    *)
(* takes closed ranges and texts.  random_sets_with_properties() hands the  *)
(* values of the list over in sets, each value with its properties, in one  *)
(* vector that all the sets use.                                            *)
(****************************************************************************)
EXTENDS PropertiesMemory, IpText

CONSTANTS
    Plain,      \* the intervals given to add_property() of list_intervals_with_properties
    Ranges,     \* the closed ranges given to add_property(a, b, p)
    Objects,    \* the intervals given to add_property(i, p) of a list of addresses
    Texts,      \* the texts given to add_property(text, p), with what they mean
    Listed,     \* the values of the list
    SetSize     \* the size of the sets, size_div

\* What the calls make of their arguments is Addable: a range of the last address
\* alone, which would be an interval without values, is not given.  A text is read
\* as what it means but for the last address, which RequestsMet in AddressListsProofs
\* proves of every text of a documented syntax.
ASSUME AddressPropertiesAssumption ==
    /\ Plain \subseteq Addable
    /\ Ranges \subseteq Value \X Value /\ \A r \in Ranges : HalfOpen(r) \in Addable
    /\ Objects \subseteq Interval
    /\ \A i \in Objects : HalfOpen(<<i.lower, i.upper>>) \in Addable
    /\ \A w \in Texts :
         LET read == Parsed(w.text)
             s == Intervals(read.ranges)
         IN  /\ read.outcome = "read" /\ s \in Seq(Addable)
             /\ \A v \in Value : InList(s, v) <=> v \in w.means \ {Word - 1}
             /\ w.means \subseteq Value
    /\ Listed \subseteq Value /\ Listed # {}
    /\ SetSize \in Nat \ {0}

VARIABLES
    todo,       \* the intervals of a text that still get their property
    given,      \* history: the addresses each property was given to, by its number
    rest,       \* the values random_sets() has still to hand over
    handed,     \* the set it hands over
    found       \* the vector `properties` of random_sets_with_properties()

sets == <<rest, handed, found>>
listVars == <<memoryVars, todo, given, sets>>

ListInit ==
    /\ MemoryInit
    /\ todo = [intervals |-> <<>>, means |-> {}] /\ given = <<>>
    /\ rest = {} /\ handed = <<>> /\ found = <<>>

\* Between two calls, and the steps of the call that goes on.
NoSets == rest = {} /\ rest' = {} /\ handed' = <<>> /\ found' = <<>>
NoText == todo.intervals = <<>> /\ UNCHANGED todo

\* The last address is not held.
Gives(i, set) == Add(i) /\ given' = Append(given, set \ {Word - 1})

------------------------------------------------------------------------------
(* add_property() *)

\* list_intervals_with_properties
AddInterval(i) == Gives(i, i.lower .. i.upper - 1) /\ NoText /\ NoSets

\* ip_list_intervals_with_properties, for a closed range.
AddRange(a, b) == Gives(HalfOpen(<<a, b>>), a .. b) /\ NoText /\ NoSets

\* For an interval, whose upper bound is taken as if it were inside.
AddObject(i) == AddRange(i.lower, i.upper)

\* For a text: the parser makes a list of intervals first, ...
AddText(w) ==
    LET s == Intervals(Parsed(w.text).ranges)
    IN  /\ pc = "idle" /\ sorted = 0 /\ todo.intervals = <<>>
        /\ Len(added) + Len(s) <= MaxAdded
        /\ todo' = [intervals |-> s, means |-> w.means]
        /\ UNCHANGED <<memoryVars, given>> /\ NoSets

\* ... which get the property one by one.
AddNextOfText ==
    /\ todo.intervals # <<>>
    /\ Gives(Head(todo.intervals), todo.means)
    /\ todo' = [todo EXCEPT !.intervals = Tail(todo.intervals)]
    /\ NoSets

\* property_of(), for a text.
PropertyOfText(text) ==
    LET ip == Ipv4ToI(text, 3)
    IN  IF ip = Invalid THEN NoProperty ELSE PropertyOf(ip)

------------------------------------------------------------------------------
(* random_sets_with_properties() *)

StartSets ==
    /\ pc = "idle" /\ sorted = 0 /\ rest = {} /\ handed = <<>> /\ NoText
    /\ rest' = Listed
    /\ found' = [k \in 1 .. SetSize |-> NoProperty]
    /\ UNCHANGED <<memoryVars, given, handed>>

\* The callback that looks the properties of a set up in its vector.  The order
\* of the values is that of the generator.
HandOver ==
    /\ rest # {}
    /\ LET n == Least(SetSize, Cardinality(rest))
       IN  \E s \in [1 .. n -> rest] :
             /\ IsInjective(s)
             /\ handed' = s
             /\ found' = [k \in 1 .. SetSize |-> IF k <= n THEN PropertyOf(s[k]) ELSE found[k]]
             /\ rest' = rest \ Range(s)
    /\ UNCHANGED <<memoryVars, todo, given>>

ListNext ==
    \/ \E i \in Objects : AddObject(i)
    \/ \E i \in Plain : AddInterval(i)
    \/ \E r \in Ranges : AddRange(r[1], r[2])
    \/ \E w \in Texts : AddText(w)
    \/ AddNextOfText
    \/ /\ Nothing \/ Sort \/ Start("rem") \/ Start("no_rem") \/ Step \/ Finish
       /\ UNCHANGED given /\ NoText /\ NoSets
    \/ StartSets \/ HandOver

ListSpec == ListInit /\ [][ListNext]_listVars

------------------------------------------------------------------------------
(* Properties. *)

Between(batch, v) ==
    \E p, q \in batch : \E a \in given[p], b \in given[q] : a <= v /\ v <= b

\* Each aggregation is to the right of the earlier ones.  The pieces are
\* appended, so that they are in order only then.
LeftToRight ==
    \A j, k \in 1 .. Len(batches) : j < k =>
        \A p \in batches[j], q \in batches[k] : \A a \in given[p], b \in given[q] : a < b

\* What is found for a value, or handed over with it, is what was given to it: the
\* properties of an aggregation, the empty property between two values that have one,
\* and nothing elsewhere.
IsGivenTo(v, property) ==
    LET at == {j \in 1 .. Len(batches) : Between(batches[j], v)}
    IN  IF at = {} THEN property = NoProperty
        ELSE /\ property # NoProperty
             /\ \E j \in at : {given[p] : p \in property} =
                              {given[p] : p \in {q \in batches[j] : v \in given[q]}}

\* property_of() finds for every value the properties that were given to it, by a
\* closed range, an interval or a text, and no other; a later aggregation to the right
\* does not disturb the earlier ones.  A value of a set comes with its own properties,
\* though the sets share one vector (random_sets_with_properties).
ValuesHaveTheirProperties ==
    pc = "idle" /\ LeftToRight =>
        /\ \A v \in Value : IsGivenTo(v, PropertyOfText(Dotted(v)))
        /\ \A k \in 1 .. Len(handed) : IsGivenTo(handed[k], found[k])
==============================================================================
