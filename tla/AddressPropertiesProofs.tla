----------------------- MODULE AddressPropertiesProofs -----------------------
(****************************************************************************)
(* The sweep over the ends of the intervals stores the merged properties,   *)
(* for every word, any intervals and every order of ends at the same value. *)
(* The list of addresses with properties adds only what the sweep expects,  *)
(* so that this holds of it with its memory, its sort, its texts and the    *)
(* sets that it hands over; and that memory, in any chunks and through any  *)
(* sort, holds the ends that the sweep expects.  What property_of() then    *)
(* finds for a value is what was given to it.                               *)
(****************************************************************************)
EXTENDS AddressProperties, AggregationProofs

(* The inductive invariant. *)

\* The numbers are those of intervals that were added, none of them empty.
AddedInv ==
    /\ \A p \in 1 .. Len(added) : added[p] \in Addable
    /\ \A e \in ir : /\ e.prop \in 1 .. Len(added)
                     /\ e = Begin(added[e.prop], e.prop) \/ e = End(added[e.prop], e.prop)
    /\ \A j \in 1 .. Len(batches) : batches[j] \subseteq 1 .. Len(added)

\* Before the sweep both ends of every interval are there.
PairsInv ==
    pc = "idle" =>
        \A e \in ir : /\ Begin(added[e.prop], e.prop) \in ir
                      /\ End(added[e.prop], e.prop) \in ir

\* The batch that is swept.
Batch == batches[Len(batches)]

\* The ends up to prev_value are met, the others are not.
FrontInv ==
    pc # "idle" =>
        /\ Len(batches) > 0
        /\ \A e \in ir : e.prop \in Batch /\ prev_value <= e.x
        /\ \A p \in Batch : /\ Begin(added[p], p) \notin ir => added[p].lower <= prev_value
                            /\ End(added[p], p) \notin ir => added[p].upper <= prev_value

\* An interval is open when its beginning was met and its end was not.
Open == {p \in Batch : Begin(added[p], p) \notin ir /\ End(added[p], p) \in ir}

OpenInv ==
    /\ pc # "idle" => cur_property = Open
    /\ pc = "no_rem" => cur_properties = Open

IInv == TypeOK /\ AddedInv /\ PairsInv /\ FrontInv /\ OpenInv /\ PiecesAreMerged

------------------------------------------------------------------------------

LEMMA AddableFacts ==
    ASSUME NEW i \in Addable
    PROVE  /\ i \in LegalInterval
           /\ i.lower \in Value /\ i.upper \in Value
           /\ i.lower \in Nat /\ i.upper \in Nat
           /\ i.lower < i.upper
  BY PropertiesAssumption, WordAssumption DEF LegalInterval, Legal, Interval, Value

LEMMA EndFacts ==
    ASSUME TypeOK, AddedInv, NEW e \in ir
    PROVE  /\ e.prop \in 1 .. Len(added) /\ e.prop \in Property
           /\ added[e.prop] \in Addable
           /\ e.x \in Value /\ e.x \in Nat /\ e.push \in BOOLEAN
           /\ e.push => e = Begin(added[e.prop], e.prop)
           /\ ~e.push => e = End(added[e.prop], e.prop)
<1>1. e \in Ends /\ Len(added) \in Nat /\ Len(added) <= MaxAdded
  BY DEF TypeOK
<1>2. e.prop \in 1 .. Len(added) /\ added[e.prop] \in Addable
  BY DEF AddedInv
<1>3. e = Begin(added[e.prop], e.prop) \/ e = End(added[e.prop], e.prop)
  BY DEF AddedInv
<1>4. e.x \in Value /\ e.push \in BOOLEAN /\ e.prop \in Property
  BY <1>1 DEF Ends
<1>5. e.x \in Nat
  BY <1>4, WordAssumption DEF Value
<1>. QED
  BY <1>2, <1>3, <1>4, <1>5 DEF Begin, End

\* The next end of a sweep is the end of an open interval or the beginning of
\* one whose end is still to come.
LEMMA NextEndFacts ==
    ASSUME TypeOK, AddedInv, FrontInv, pc # "idle", NEW e \in NextEnd
    PROVE  /\ e \in ir /\ e.prop \in Batch
           /\ prev_value <= e.x
           /\ \A f \in ir : e.x <= f.x
           /\ End(added[e.prop], e.prop) \in ir
           /\ ~e.push => Begin(added[e.prop], e.prop) \notin ir
           /\ e.push => Begin(added[e.prop], e.prop) = e
<1>1. e \in ir /\ \A f \in ir : e.x <= f.x
  BY DEF NextEnd
<1>2. e.prop \in Batch /\ prev_value <= e.x
  BY <1>1 DEF FrontInv
<1>3. /\ added[e.prop] \in Addable /\ e.x \in Nat /\ e.push \in BOOLEAN
      /\ e.push => e = Begin(added[e.prop], e.prop)
      /\ ~e.push => e = End(added[e.prop], e.prop)
  BY <1>1, EndFacts
<1>4. /\ added[e.prop].lower \in Nat /\ added[e.prop].upper \in Nat
      /\ added[e.prop].lower < added[e.prop].upper
  BY <1>3, AddableFacts
<1>5. prev_value \in Nat
  BY WordAssumption DEF TypeOK, Value
<1>6. CASE e.push
  <2>1. e.x = added[e.prop].lower
    BY <1>3, <1>6 DEF Begin, End
  <2>2. End(added[e.prop], e.prop) \in ir
    BY <2>1, <1>2, <1>3, <1>4, <1>5 DEF FrontInv
  <2>. QED
    BY <2>2, <1>1, <1>2, <1>3, <1>6
<1>7. CASE ~e.push
  <2>1. e.x = added[e.prop].upper
    BY <1>3, <1>7 DEF Begin, End
  <2>2. Begin(added[e.prop], e.prop) \notin ir
    BY <2>1, <1>1, <1>3, <1>4 DEF Begin, End
  <2>. QED
    BY <2>2, <1>1, <1>2, <1>3, <1>7
<1>. QED
  BY <1>3, <1>6, <1>7

\* The piece before the next end carries what its values have.
LEMMA PieceIsMerged ==
    ASSUME TypeOK, AddedInv, FrontInv, OpenInv, pc # "idle", NEW e \in NextEnd,
           NEW v \in Value, Has(Itv(prev_value, e.x), v)
    PROVE  cur_property = Holding(Batch, v)
<1>1. prev_value <= v /\ v < e.x /\ v \in Nat /\ prev_value \in Nat
  BY WordAssumption DEF Has, Itv, TypeOK, Value
<1>2. \A f \in ir : e.x <= f.x /\ f.x \in Nat /\ e.x \in Nat
  BY NextEndFacts, EndFacts
<1>3. Batch \subseteq 1 .. Len(added)
  BY DEF FrontInv, AddedInv, Batch, TypeOK
<1>4. ASSUME NEW p \in Batch
      PROVE  Has(added[p], v) <=> Begin(added[p], p) \notin ir /\ End(added[p], p) \in ir
  <2>1. /\ added[p].lower \in Nat /\ added[p].upper \in Nat
        /\ added[p].lower < added[p].upper
    BY <1>3, AddableFacts DEF AddedInv
  <2>2. Begin(added[p], p) \in ir => v < added[p].lower
    BY <1>1, <1>2, <2>1 DEF Begin, End
  <2>3. End(added[p], p) \in ir => v < added[p].upper
    BY <1>1, <1>2, <2>1 DEF Begin, End
  <2>4. Begin(added[p], p) \notin ir => added[p].lower <= v
    BY <1>1, <2>1 DEF FrontInv
  <2>5. End(added[p], p) \notin ir => added[p].upper <= v
    BY <1>1, <2>1 DEF FrontInv
  <2>. QED
    BY <2>1, <2>2, <2>3, <2>4, <2>5, <1>1 DEF Has
<1>. QED
  BY <1>4 DEF OpenInv, Open, Holding

------------------------------------------------------------------------------

LEMMA InitInv == Init => IInv
<1>. SUFFICES ASSUME Init PROVE IInv
  OBVIOUS
<1>. USE DEF Init
<1>1. TypeOK
  BY WordAssumption, PropertiesAssumption DEF TypeOK, Value, Property
<1>2. PiecesAreMerged
  BY DEF PiecesAreMerged
<1>. QED
  BY <1>1, <1>2 DEF IInv, AddedInv, PairsInv, FrontInv, OpenInv

LEMMA AddStep ==
    ASSUME IInv, NEW i \in Addable, AddProperty(i)
    PROVE  IInv'
<1>. DEFINE p == Len(added) + 1
<1>1. /\ pc = "idle" /\ Len(added) < MaxAdded /\ Len(added) \in Nat
      /\ ir' = ir \cup {Begin(i, p), End(i, p)}
      /\ added' = Append(added, i)
      /\ UNCHANGED <<stored, pc, prev_value, cur_property, cur_properties, batches>>
  BY DEF AddProperty, IInv, TypeOK, sweep
<1>2. /\ Len(added') = p /\ added'[p] = i
      /\ \A q \in 1 .. Len(added) : added'[q] = added[q]
      /\ added' \in Seq(LegalInterval)
  BY <1>1, AddableFacts DEF IInv, TypeOK
<1>3. TypeOK'
  <2>1. p \in Property
    BY <1>1, PropertiesAssumption DEF Property
  <2>2. {Begin(i, p), End(i, p)} \subseteq Ends
    BY <2>1, AddableFacts DEF Begin, End, Ends
  <2>. QED
    BY <1>1, <1>2, <2>2, PropertiesAssumption DEF IInv, TypeOK, Ends, Property
<1>4. AddedInv'
  <2>1. \A q \in 1 .. Len(added') : added'[q] \in Addable
    BY <1>1, <1>2 DEF IInv, AddedInv
  <2>2. ASSUME NEW e \in ir'
        PROVE  /\ e.prop \in 1 .. Len(added')
               /\ \/ e = Begin(added'[e.prop], e.prop)
                  \/ e = End(added'[e.prop], e.prop)
    <3>1. CASE e \in ir
      BY <3>1, <1>1, <1>2 DEF IInv, AddedInv
    <3>2. CASE e \in {Begin(i, p), End(i, p)}
      BY <3>2, <1>1, <1>2 DEF Begin, End
    <3>. QED
      BY <3>1, <3>2, <1>1
  <2>3. \A j \in 1 .. Len(batches) : batches[j] \subseteq 1 .. Len(added')
    BY <1>1, <1>2 DEF IInv, AddedInv
  <2>. QED
    BY <2>1, <2>2, <2>3, <1>1 DEF AddedInv, Begin, End
<1>5. PairsInv'
  <2>1. ASSUME NEW e \in ir'
        PROVE  /\ Begin(added'[e.prop], e.prop) \in ir'
               /\ End(added'[e.prop], e.prop) \in ir'
    <3>1. CASE e \in ir
      BY <3>1, <1>1, <1>2 DEF IInv, AddedInv, PairsInv
    <3>2. CASE e \in {Begin(i, p), End(i, p)}
      <4>1. e.prop = p
        BY <3>2 DEF Begin, End
      <4>. QED
        BY <4>1, <1>1, <1>2
    <3>. QED
      BY <3>1, <3>2, <1>1
  <2>. QED
    BY <2>1 DEF PairsInv, Begin, End
<1>6. FrontInv' /\ OpenInv'
  BY <1>1 DEF FrontInv, OpenInv
<1>7. PiecesAreMerged'
  <2>1. \A j \in 1 .. Len(batches), v \in Value : Holding(batches[j], v)' = Holding(batches[j], v)
    BY <1>1, <1>2 DEF IInv, AddedInv, Holding
  <2>. QED
    BY <2>1, <1>1 DEF IInv, PiecesAreMerged
<1>. QED
  BY <1>3, <1>4, <1>5, <1>6, <1>7 DEF IInv

LEMMA NothingStep ==
    ASSUME IInv, AggregateNothing
    PROVE  IInv'
<1>. USE DEF AggregateNothing, IInv, sweep
<1>1. TypeOK'
  BY DEF TypeOK
<1>2. AddedInv' /\ PairsInv' /\ FrontInv' /\ OpenInv'
  BY DEF AddedInv, PairsInv, FrontInv, OpenInv
<1>3. PiecesAreMerged'
  BY DEF PiecesAreMerged
<1>. QED
  BY <1>1, <1>2, <1>3

LEMMA StartStep ==
    ASSUME IInv, NEW version \in {"rem", "no_rem"}, AggregateStart(version)
    PROVE  IInv'
<1>. DEFINE b == {e.prop : e \in ir}
<1>1. PICK e \in NextEnd :
        /\ prev_value' = e.x
        /\ cur_property' = {e.prop} /\ cur_properties' = {e.prop}
        /\ ir' = ir \ {e}
  BY DEF AggregateStart
<1>2. /\ pc = "idle" /\ pc' = version /\ batches' = Append(batches, b)
      /\ UNCHANGED <<stored, added>>
  BY DEF AggregateStart
<1>3. /\ e \in ir /\ \A f \in ir : e.x <= f.x
      /\ e.prop \in Property /\ e.prop \in 1 .. Len(added) /\ added[e.prop] \in Addable
      /\ e.x \in Value /\ e.x \in Nat
  BY EndFacts DEF NextEnd, IInv
<1>4. b \subseteq Property /\ b \subseteq 1 .. Len(added)
  BY EndFacts DEF IInv
<1>5. /\ Len(batches') = Len(batches) + 1 /\ batches'[Len(batches')] = b
      /\ \A j \in 1 .. Len(batches) : batches'[j] = batches[j]
      /\ batches' \in Seq(SUBSET Property) /\ Len(batches) \in Nat
  BY <1>2, <1>4 DEF IInv, TypeOK
<1>6. TypeOK'
  BY <1>1, <1>2, <1>3, <1>5 DEF IInv, TypeOK
<1>7. AddedInv'
  <2>1. \A j \in 1 .. Len(batches') : batches'[j] \subseteq 1 .. Len(added)
    BY <1>4, <1>5 DEF IInv, AddedInv
  <2>. QED
    BY <2>1, <1>1, <1>2 DEF IInv, AddedInv, Begin, End
<1>8. \A p \in b : /\ Begin(added[p], p) \in ir /\ End(added[p], p) \in ir
                   /\ added[p].lower \in Nat /\ added[p].upper \in Nat
                   /\ added[p].lower < added[p].upper
  BY <1>2, EndFacts, AddableFacts DEF IInv, PairsInv
<1>9. e.prop \in b /\ e = Begin(added[e.prop], e.prop)
  <2>1. e.prop \in b
    BY <1>3
  <2>2. e.x <= added[e.prop].lower
    <3>1. Begin(added[e.prop], e.prop) \in ir
      BY <2>1, <1>8
    <3>2. e.x <= Begin(added[e.prop], e.prop).x
      BY <3>1, <1>3
    <3>. QED
      BY <3>2 DEF Begin
  <2>3. /\ added[e.prop].lower \in Nat /\ added[e.prop].upper \in Nat
        /\ added[e.prop].lower < added[e.prop].upper
    BY <1>3, AddableFacts
  <2>4. e # End(added[e.prop], e.prop)
    <3>1. End(added[e.prop], e.prop).x = added[e.prop].upper
      BY DEF End
    <3>. QED
      BY <3>1, <2>2, <2>3, <1>3
  <2>. QED
    BY <2>1, <2>4, <1>3, EndFacts DEF IInv
<1>10. ASSUME NEW p \in b
       PROVE  /\ Begin(added[p], p) \notin ir' <=> p = e.prop
              /\ End(added[p], p) \in ir'
  BY <1>1, <1>8, <1>9 DEF Begin, End
<1>11. Batch' = b
  BY <1>5 DEF Batch
<1>12. FrontInv'
  <2>1. e.x = added[e.prop].lower
    BY <1>9 DEF Begin, End
  <2>2. \A f \in ir' : f.prop \in b /\ e.x <= f.x
    BY <1>1, <1>3
  <2>3. \A p \in b : /\ Begin(added[p], p) \notin ir' => added[p].lower <= e.x
                     /\ End(added[p], p) \in ir'
    BY <2>1, <1>8, <1>9, <1>10
  <2>. QED
    BY <2>2, <2>3, <1>1, <1>2, <1>5, <1>11 DEF FrontInv, Begin, End
<1>13. OpenInv'
  <2>1. Open' = {e.prop}
    BY <1>2, <1>9, <1>10, <1>11 DEF Open, Begin, End
  <2>. QED
    BY <2>1, <1>1 DEF OpenInv
<1>14. PiecesAreMerged'
  BY <1>2, <1>5 DEF IInv, PiecesAreMerged, Holding
<1>. QED
  BY <1>2, <1>6, <1>7, <1>12, <1>13, <1>14 DEF IInv, PairsInv

\* What both versions of the loop do to everything but the merged property.
LEMMA MeetsStep ==
    ASSUME IInv, pc \in {"rem", "no_rem"}, NEW e \in NextEnd, Meets(e),
           cur_property' \subseteq Property, cur_properties' \subseteq Property
    PROVE  /\ TypeOK' /\ AddedInv' /\ PairsInv' /\ FrontInv' /\ PiecesAreMerged'
           /\ Open' = IF e.push THEN Open \cup {e.prop} ELSE Open \ {e.prop}
<1>. DEFINE piece == [interval |-> Itv(prev_value, e.x), property |-> cur_property]
<1>1. /\ ir' = ir \ {e} /\ prev_value' = e.x
      /\ stored' = Append(stored, piece)
      /\ UNCHANGED <<pc, added, batches>>
  BY DEF Meets
<1>2. /\ e \in ir /\ e.prop \in Batch /\ prev_value <= e.x
      /\ \A f \in ir : e.x <= f.x
      /\ End(added[e.prop], e.prop) \in ir
      /\ ~e.push => Begin(added[e.prop], e.prop) \notin ir
      /\ e.push => Begin(added[e.prop], e.prop) = e
  BY NextEndFacts DEF IInv
<1>3. /\ e.x \in Value /\ e.x \in Nat /\ e.push \in BOOLEAN
      /\ ~e.push => e = End(added[e.prop], e.prop)
  BY <1>2, EndFacts DEF IInv
<1>4. piece \in [interval : LegalInterval, property : SUBSET Property]
  BY <1>2, <1>3 DEF IInv, TypeOK, LegalInterval, Legal, Interval, Itv
<1>5. TypeOK'
  BY <1>1, <1>3, <1>4 DEF IInv, TypeOK
<1>6. AddedInv'
  BY <1>1 DEF IInv, AddedInv, Begin, End
<1>7. PairsInv'
  BY <1>1 DEF PairsInv
<1>8. Batch' = Batch
  BY <1>1 DEF Batch
<1>9. Batch \subseteq 1 .. Len(added) /\ prev_value \in Nat
  BY WordAssumption DEF IInv, FrontInv, AddedInv, Batch, TypeOK, Value
<1>10. FrontInv'
  <2>1. \A f \in ir' : f.prop \in Batch /\ e.x <= f.x
    BY <1>1, <1>2 DEF IInv, FrontInv
  <2>2. ASSUME NEW p \in Batch
        PROVE  /\ Begin(added[p], p) \notin ir' => added[p].lower <= e.x
               /\ End(added[p], p) \notin ir' => added[p].upper <= e.x
    <3>1. added[p].lower \in Nat /\ added[p].upper \in Nat
      BY <1>9, AddableFacts DEF IInv, AddedInv
    <3>2. /\ Begin(added[p], p) \notin ir => added[p].lower <= prev_value
          /\ End(added[p], p) \notin ir => added[p].upper <= prev_value
      BY DEF IInv, FrontInv
    <3>3. /\ Begin(added[p], p) = e => added[p].lower = e.x
          /\ End(added[p], p) = e => added[p].upper = e.x
      BY DEF Begin, End
    <3>. QED
      BY <3>1, <3>2, <3>3, <1>1, <1>2, <1>3, <1>9
  <2>. QED
    BY <2>1, <2>2, <1>1, <1>8 DEF IInv, FrontInv, Begin, End
<1>11. PiecesAreMerged'
  <2>1. \A v \in Value : Has(piece.interval, v) => piece.property = Holding(Batch, v)
    BY PieceIsMerged DEF IInv
  <2>2. Len(batches) \in 1 .. Len(batches)
    BY DEF IInv, FrontInv, TypeOK
  <2>3. ASSUME NEW k \in 1 .. Len(stored')
        PROVE  \E j \in 1 .. Len(batches) : \A v \in Value :
                 Has(stored'[k].interval, v) => stored'[k].property = Holding(batches[j], v)
    <3>1. CASE k \in 1 .. Len(stored)
      BY <3>1, <1>1, <1>4 DEF IInv, PiecesAreMerged, TypeOK
    <3>2. CASE k = Len(stored) + 1
      <4>1. stored'[k] = piece
        BY <3>2, <1>1, <1>4 DEF IInv, TypeOK
      <4>. QED
        BY <4>1, <2>1, <2>2 DEF Batch
    <3>3. Len(stored') = Len(stored) + 1 /\ Len(stored) \in Nat
      BY <1>1, <1>4 DEF IInv, TypeOK
    <3>. QED
      BY <3>1, <3>2, <3>3
  <2>. QED
    BY <2>3, <1>1 DEF PiecesAreMerged, Holding
<1>12. Open' = IF e.push THEN Open \cup {e.prop} ELSE Open \ {e.prop}
  <2>1. ASSUME NEW p \in Batch
        PROVE  p \in Open' <=> IF e.push THEN p \in Open \/ p = e.prop
                                         ELSE p \in Open /\ p # e.prop
    <3>1. p \in Open' <=> Begin(added[p], p) \notin ir' /\ End(added[p], p) \in ir'
      BY <1>1, <1>8 DEF Open, Begin, End
    <3>2. CASE e.push
      <4>1. End(added[p], p) \in ir' <=> End(added[p], p) \in ir
        BY <3>2, <1>1 DEF End
      <4>2. Begin(added[p], p) = e <=> p = e.prop
        BY <3>2, <1>2 DEF Begin
      <4>3. Begin(added[p], p) \notin ir' <=> Begin(added[p], p) \notin ir \/ p = e.prop
        BY <4>2, <1>1
      <4>. QED
        BY <3>1, <3>2, <4>1, <4>3, <1>2 DEF Open
    <3>3. CASE ~e.push
      BY <3>1, <3>3, <1>1, <1>2, <1>3 DEF Open, Begin, End
    <3>. QED
      BY <3>2, <3>3, <1>3
  <2>2. Open' \subseteq Batch /\ Open \subseteq Batch
    BY <1>8 DEF Open
  <2>. QED
    BY <2>1, <2>2, <1>2
<1>. QED
  BY <1>5, <1>6, <1>7, <1>10, <1>11, <1>12

LEMMA SweepStepStep ==
    ASSUME IInv, SweepStep
    PROVE  IInv'
<1>1. PICK e \in NextEnd :
        /\ Meets(e)
        /\ cur_property' = IF e.push THEN cur_property \cup {e.prop}
                                     ELSE cur_property \ {e.prop}
  BY DEF SweepStep
<1>2. pc = "rem" /\ pc' = "rem" /\ cur_properties' = cur_properties
  BY <1>1 DEF SweepStep, Meets
<1>3. e.prop \in Property
  BY EndFacts DEF IInv, NextEnd
<1>4. cur_property' \subseteq Property /\ cur_properties' \subseteq Property
  BY <1>1, <1>2, <1>3 DEF IInv, TypeOK
<1>5. /\ TypeOK' /\ AddedInv' /\ PairsInv' /\ FrontInv' /\ PiecesAreMerged'
      /\ Open' = IF e.push THEN Open \cup {e.prop} ELSE Open \ {e.prop}
  BY <1>1, <1>2, <1>4, MeetsStep
<1>6. OpenInv'
  BY <1>1, <1>2, <1>5 DEF IInv, OpenInv
<1>. QED
  BY <1>5, <1>6 DEF IInv

LEMMA SweepStepNoRemStep ==
    ASSUME IInv, SweepStepNoRem
    PROVE  IInv'
<1>1. PICK e \in NextEnd :
        /\ Meets(e)
        /\ cur_properties' = IF e.push THEN cur_properties \cup {e.prop}
                                       ELSE cur_properties \ {e.prop}
        /\ cur_property' =
             CASE ~e.push -> cur_properties'
               [] e.push /\ cur_properties = {} -> {e.prop}
               [] OTHER -> cur_property \cup {e.prop}
  BY DEF SweepStepNoRem
<1>2. pc = "no_rem" /\ pc' = "no_rem"
  BY <1>1 DEF SweepStepNoRem, Meets
<1>3. e.prop \in Property /\ e.push \in BOOLEAN
  BY EndFacts DEF IInv, NextEnd
<1>4. cur_property = Open /\ cur_properties = Open
  BY <1>2 DEF IInv, OpenInv
<1>5. cur_property' = cur_properties'
  BY <1>1, <1>3, <1>4
<1>6. cur_property' \subseteq Property /\ cur_properties' \subseteq Property
  BY <1>1, <1>3, <1>5 DEF IInv, TypeOK
<1>7. /\ TypeOK' /\ AddedInv' /\ PairsInv' /\ FrontInv' /\ PiecesAreMerged'
      /\ Open' = IF e.push THEN Open \cup {e.prop} ELSE Open \ {e.prop}
  BY <1>1, <1>2, <1>6, MeetsStep
<1>8. OpenInv'
  BY <1>1, <1>4, <1>5, <1>7 DEF OpenInv
<1>. QED
  BY <1>7, <1>8 DEF IInv

LEMMA SweepEndStep ==
    ASSUME IInv, SweepEnd
    PROVE  IInv'
<1>. USE DEF SweepEnd, IInv, sweep
<1>1. TypeOK'
  BY DEF TypeOK
<1>2. AddedInv' /\ PairsInv' /\ FrontInv' /\ OpenInv'
  BY DEF AddedInv, PairsInv, FrontInv, OpenInv
<1>3. PiecesAreMerged'
  BY SMTT(30) DEF PiecesAreMerged, Holding
<1>. QED
  BY <1>1, <1>2, <1>3

LEMMA StutterStep ==
    ASSUME IInv, UNCHANGED vars
    PROVE  IInv'
<1>. USE DEF vars, sweep
<1>1. TypeOK' /\ AddedInv' /\ PairsInv'
  BY DEF IInv, TypeOK, AddedInv, PairsInv, Begin, End
<1>2. FrontInv' /\ OpenInv'
  BY DEF IInv, FrontInv, OpenInv, Open, Batch, Begin, End
<1>3. PiecesAreMerged'
  BY DEF IInv, PiecesAreMerged, Holding
<1>. QED
  BY <1>1, <1>2, <1>3 DEF IInv

LEMMA Inductive == Spec => []IInv
<1>1. IInv /\ [Next]_vars => IInv'
  BY AddStep, NothingStep, StartStep, SweepStepStep, SweepStepNoRemStep, SweepEndStep,
     StutterStep DEF Next
<1>. QED
  BY <1>1, InitInv, PTL DEF Spec

------------------------------------------------------------------------------

\* Every piece that is stored carries the properties of all the intervals that
\* hold its values and no other, for both versions of the sweep
\* (list_intervals_properties::aggregate_properties, _no_rem).
THEOREM SweepMergesProperties == Spec => []PiecesAreMerged
<1>1. IInv => PiecesAreMerged
  BY DEF IInv
<1>. QED
  BY <1>1, Inductive, PTL

\* The assertion of aggregate_properties_no_rem() never fails: an interval ends
\* after it began.
THEOREM EndsFollowBeginnings == Spec => []EndsAfterItsBegin
<1>1. ASSUME IInv PROVE EndsAfterItsBegin
  <2>. SUFFICES ASSUME pc = "no_rem", NEW e \in NextEnd, ~e.push
                PROVE  e.prop \in cur_properties
    BY DEF EndsAfterItsBegin
  <2>1. /\ e.prop \in Batch /\ End(added[e.prop], e.prop) \in ir
        /\ Begin(added[e.prop], e.prop) \notin ir
    BY <1>1, NextEndFacts DEF IInv
  <2>. QED
    BY <1>1, <2>1 DEF IInv, OpenInv, Open
<1>. QED
  BY <1>1, Inductive, PTL

------------------------------------------------------------------------------
\* What is left of a text are intervals that may be added.
TodoOK == todo \in [intervals : Seq(Addable), means : SUBSET Value]

LEMMA TodoInit == ListInit => TodoOK
  BY DEF ListInit, TodoOK

LEMMA TodoNext == TodoOK /\ [ListNext]_listVars => TodoOK'
<1>. SUFFICES ASSUME TodoOK, [ListNext]_listVars PROVE TodoOK'
  OBVIOUS
<1>1. CASE UNCHANGED todo
  BY <1>1 DEF TodoOK
<1>2. ASSUME NEW w \in Texts, AddText(w) PROVE TodoOK'
  <2>1. PICK s : /\ s = Intervals(Parsed(w.text).ranges)
                 /\ todo' = [intervals |-> s, means |-> w.means]
    BY <1>2 DEF AddText
  <2>2. s \in Seq(Addable) /\ w.means \in SUBSET Value
    BY <2>1, AddressPropertiesAssumption
  <2>. QED
    BY <2>1, <2>2 DEF TodoOK
<1>3. CASE AddNextOfText
  <2>1. todo' = [todo EXCEPT !.intervals = Tail(todo.intervals)] /\ todo.intervals # <<>>
    BY <1>3 DEF AddNextOfText
  <2>2. todo.intervals \in Seq(Addable) /\ Tail(todo.intervals) \in Seq(Addable)
    BY <2>1 DEF TodoOK
  <2>. QED
    BY <2>1, <2>2 DEF TodoOK
<1>. QED
  BY <1>1, <1>2, <1>3 DEF ListNext, listVars, AddInterval, AddRange, AddObject, NoText,
     StartSets, HandOver

LEMMA CallsAreSteps == TodoOK /\ [ListNext]_listVars => [Next]_vars
<1>. SUFFICES ASSUME TodoOK, [ListNext]_listVars PROVE [Next]_vars
  OBVIOUS
<1>1. ASSUME NEW i \in Addable, NEW set, Gives(i, set) PROVE Next
  BY <1>1 DEF Gives, Add, Next
<1>2. ASSUME NEW i \in Plain, AddInterval(i) PROVE Next
  BY <1>1, <1>2, AddressPropertiesAssumption DEF AddInterval
<1>3. ASSUME NEW a, NEW b, HalfOpen(<<a, b>>) \in Addable, AddRange(a, b) PROVE Next
  BY <1>1, <1>3 DEF AddRange
<1>4. ASSUME NEW r \in Ranges, AddRange(r[1], r[2]) PROVE Next
  <2>1. HalfOpen(<<r[1], r[2]>>) = HalfOpen(r)
    BY DEF HalfOpen
  <2>. QED
    BY <1>3, <1>4, <2>1, AddressPropertiesAssumption
<1>5. ASSUME NEW i \in Objects, AddObject(i) PROVE Next
  BY <1>3, <1>5, AddressPropertiesAssumption DEF AddObject
<1>6. CASE AddNextOfText
  <2>1. Head(todo.intervals) \in Addable
    BY <1>6 DEF AddNextOfText, TodoOK
  <2>2. Gives(Head(todo.intervals), todo.means)
    BY <1>6 DEF AddNextOfText
  <2>. QED
    BY <1>1, <2>1, <2>2
<1>7. CASE Nothing \/ Start("rem") \/ Start("no_rem") \/ Step \/ Finish
  BY <1>7 DEF Nothing, Start, Step, Finish, Next
<1>8. CASE (\E w \in Texts : AddText(w)) \/ Sort \/ StartSets \/ HandOver \/ UNCHANGED listVars
  BY <1>8 DEF AddText, Sort, StartSets, HandOver, listVars, memoryVars
<1>. QED
  BY <1>2, <1>4, <1>5, <1>6, <1>7, <1>8 DEF ListNext

LEMMA ListIsProperties == ListSpec => Spec
<1>1. ListInit => Init
  BY DEF ListInit, MemoryInit
<1>. QED
  BY <1>1, TodoInit, TodoNext, CallsAreSteps, PTL DEF ListSpec, Spec

\* What add_property() makes of intervals, closed ranges, objects and texts is
\* swept and merged as PiecesAreMerged says, with the memory and its sort
\* (list_intervals_with_properties and ip_list_intervals_with_properties).
THEOREM AddressPropertiesMerge == ListSpec => []PiecesAreMerged
  BY ListIsProperties, SweepMergesProperties, PTL

\* Neither does the assertion of aggregate_properties_no_rem() fail for them.
THEOREM AddressPropertiesEnd == ListSpec => []EndsAfterItsBegin
  BY ListIsProperties, EndsFollowBeginnings, PTL

------------------------------------------------------------------------------
(* The bits. *)

LEMMA ChunkQuotient ==
    ASSUME NEW m \in Nat
    PROVE  /\ m \div BitsPerChunk \in Int /\ m % BitsPerChunk \in 0 .. BitsPerChunk - 1
           /\ m = BitsPerChunk * (m \div BitsPerChunk) + (m % BitsPerChunk)
  BY BitFieldAssumption

LEMMA MultipleOfChunk ==
    ASSUME NEW t \in Int, t >= 1
    PROVE  BitsPerChunk * t >= BitsPerChunk
  BY BitFieldAssumption

LEMMA WholeChunks ==
    ASSUME NEW c \in Nat
    PROVE  (BitsPerChunk * c) \div BitsPerChunk = c
<1>0. BitsPerChunk \in Nat \ {0} /\ BitsPerChunk * c \in Nat
  BY BitFieldAssumption
<1>1. PICK q \in Int : q = (BitsPerChunk * c) \div BitsPerChunk
  BY <1>0, ChunkQuotient
<1>2. PICK r \in 0 .. BitsPerChunk - 1 : BitsPerChunk * c = BitsPerChunk * q + r
  BY <1>0, <1>1, ChunkQuotient
<1>3. BitsPerChunk * (c - q) = r /\ BitsPerChunk * (q - c) = -r
  BY <1>0, <1>2
<1>4. ~(c - q >= 1)
  BY <1>0, <1>3, MultipleOfChunk
<1>5. ~(q - c >= 1)
  BY <1>0, <1>3, MultipleOfChunk
<1>. QED
  BY <1>1, <1>4, <1>5

LEMMA Concatenation ==
    ASSUME NEW S, NEW s \in Seq(S), NEW t \in Seq(S)
    PROVE  /\ s \o t \in Seq(S) /\ Len(s \o t) = Len(s) + Len(t)
           /\ \A k \in 1 .. Len(s) : (s \o t)[k] = s[k]
  OBVIOUS

\* A buffer of whole chunks, whose bits may never have been written.
Bit == BOOLEAN \cup {Garbage}
IsBuffer(bits) ==
    /\ bits \in Seq(Bit)
    /\ \E c \in Nat : Len(bits) = BitsPerChunk * c

\* reserve() makes room for the bits, and keeps those that were there.
LEMMA ReserveKeeps ==
    ASSUME NEW bits, IsBuffer(bits), NEW n \in Nat
    PROVE  /\ IsBuffer(Reserve(bits, n))
           /\ Len(Reserve(bits, n)) >= n /\ Len(Reserve(bits, n)) >= Len(bits)
           /\ \A k \in 1 .. Len(bits) : Reserve(bits, n)[k] = bits[k]
<1>0. BitsPerChunk \in Nat \ {0} /\ GrowBy \in Nat \ {0}
  BY BitFieldAssumption
<1>1. PICK c \in Nat : Len(bits) = BitsPerChunk * c
  BY DEF IsBuffer
<1>2. Chunks(bits) = c
  BY <1>1, WholeChunks DEF Chunks
<1>3. PICK required \in Nat : required = ChunkCount(n) /\ BitsPerChunk * required >= n
  <2>1. n + BitsPerChunk - 1 \in Nat
    BY <1>0
  <2>2. PICK q \in Int : q = (n + BitsPerChunk - 1) \div BitsPerChunk
    BY <2>1, ChunkQuotient
  <2>3. PICK r \in 0 .. BitsPerChunk - 1 : n + BitsPerChunk - 1 = BitsPerChunk * q + r
    BY <2>1, <2>2, ChunkQuotient
  <2>4. BitsPerChunk * q >= n
    BY <1>0, <2>3
  <2>5. q >= 0
    <3>1. ~(-q >= 1)
      <4>1. BitsPerChunk * (-q) = -(BitsPerChunk * q)
        BY <1>0
      <4>. QED
        BY <1>0, <2>4, <4>1, MultipleOfChunk
    <3>. QED
      BY <3>1
  <2>. QED
    BY <2>2, <2>4, <2>5 DEF ChunkCount
<1>4. CASE required <= c
  <2>1. Reserve(bits, n) = bits
    BY <1>2, <1>3, <1>4 DEF Reserve
  <2>2. BitsPerChunk * c >= BitsPerChunk * required
    <3>1. PICK d \in Nat : c = required + d
      BY <1>4
    <3>2. BitsPerChunk * c = BitsPerChunk * required + BitsPerChunk * d /\ BitsPerChunk * d >= 0
      BY <1>0, <3>1
    <3>. QED
      BY <1>0, <3>2
  <2>. QED
    BY <1>0, <1>1, <1>3, <2>1, <2>2
<1>5. CASE ~(required <= c)
  <2>1. PICK chunks \in Nat :
          /\ chunks >= required /\ chunks >= c
          /\ Reserve(bits, n) = bits \o [k \in 1 .. (chunks - c) * BitsPerChunk |-> Garbage]
    <3>. DEFINE grown == IF c + GrowBy > required THEN c + GrowBy ELSE required
                chunks == IF bits = NoBits THEN required ELSE grown
    <3>1. chunks \in Nat /\ chunks >= required /\ chunks >= c
      BY <1>0, <1>5
    <3>2. Reserve(bits, n) = bits \o [k \in 1 .. (chunks - c) * BitsPerChunk |-> Garbage]
      BY <1>2, <1>3, <1>5 DEF Reserve
    <3>. QED
      BY <3>1, <3>2
  <2>2. PICK d \in Nat : d = chunks - c
    BY <2>1
  <2>3. PICK e \in Nat : e = (chunks - c) * BitsPerChunk
    BY <1>0, <2>2
  <2>. DEFINE new == [k \in 1 .. e |-> Garbage]
  <2>4. new \in Seq(Bit) /\ Len(new) = e
    BY DEF Bit
  <2>5. Reserve(bits, n) = bits \o new
    BY <2>1, <2>3
  <2>. HIDE DEF new
  <2>6. bits \in Seq(Bit)
    BY DEF IsBuffer
  <2>7. /\ Reserve(bits, n) \in Seq(Bit)
        /\ Len(Reserve(bits, n)) = Len(bits) + e
        /\ \A k \in 1 .. Len(bits) : Reserve(bits, n)[k] = bits[k]
    <3>1. \A t \in Seq(Bit) : /\ bits \o t \in Seq(Bit)
                              /\ Len(bits \o t) = Len(bits) + Len(t)
                              /\ \A k \in 1 .. Len(bits) : (bits \o t)[k] = bits[k]
      BY <2>6, Concatenation, Zenon
    <3>. QED
      BY <2>4, <2>5, <3>1, Zenon
  <2>8. Len(bits) + e = BitsPerChunk * chunks
    BY <1>0, <1>1, <2>1, <2>3
  <2>9. BitsPerChunk * chunks >= BitsPerChunk * required
    <3>1. PICK f \in Nat : chunks = required + f
      BY <2>1
    <3>2. /\ BitsPerChunk * chunks = BitsPerChunk * required + BitsPerChunk * f
          /\ BitsPerChunk * f >= 0
      BY <1>0, <3>1
    <3>. QED
      BY <1>0, <3>2
  <2>10. IsBuffer(Reserve(bits, n))
    BY <2>1, <2>7, <2>8 DEF IsBuffer
  <2>11. Len(Reserve(bits, n)) >= n /\ Len(Reserve(bits, n)) >= Len(bits)
    <3>1. Len(bits) \in Nat /\ BitsPerChunk * chunks \in Nat /\ BitsPerChunk * required \in Nat
      BY <1>0, <2>6
    <3>. QED
      BY <1>3, <2>7, <2>8, <2>9, <3>1
  <2>. QED
    BY <2>7, <2>10, <2>11
<1>. QED
  BY <1>4, <1>5

\* set_bit() and clear_bit() write one bit, and change none that was there.
LEMMA WriteBitWrites ==
    ASSUME NEW bits, IsBuffer(bits), NEW idx \in Nat, NEW v \in BOOLEAN
    PROVE  /\ IsBuffer(WriteBit(bits, idx, v))
           /\ Len(WriteBit(bits, idx, v)) >= idx + 1
           /\ Len(WriteBit(bits, idx, v)) >= Len(bits)
           /\ WriteBit(bits, idx, v)[idx + 1] = v
           /\ \A k \in 1 .. Len(bits) : k # idx + 1 => WriteBit(bits, idx, v)[k] = bits[k]
<1>. DEFINE r == Reserve(bits, idx + 1)
<1>1. /\ IsBuffer(r) /\ Len(r) >= idx + 1 /\ Len(r) >= Len(bits)
      /\ \A k \in 1 .. Len(bits) : r[k] = bits[k]
  BY ReserveKeeps
<1>2. WriteBit(bits, idx, v) = [r EXCEPT ![idx + 1] = v]
  BY DEF WriteBit
<1>. HIDE DEF r
<1>3. r \in Seq(Bit) /\ Len(r) \in Nat /\ Len(bits) \in Nat
  BY <1>1 DEF IsBuffer
<1>4. idx + 1 \in 1 .. Len(r)
  BY <1>1, <1>3
<1>5. /\ [r EXCEPT ![idx + 1] = v] \in Seq(Bit)
      /\ Len([r EXCEPT ![idx + 1] = v]) = Len(r)
      /\ \A k \in 1 .. Len(r) : [r EXCEPT ![idx + 1] = v][k] = IF k = idx + 1 THEN v ELSE r[k]
  <2>1. v \in Bit
    BY DEF Bit
  <2>. QED
    BY <1>3, <1>4, <2>1
<1>. QED
  BY <1>1, <1>2, <1>3, <1>4, <1>5 DEF IsBuffer

\* advance() moves a reference by n bits, forward or back.
Reference == [chunk : Int, bit : 0 .. BitsPerChunk - 1]

LEMMA AdvanceMoves ==
    ASSUME NEW ref \in Reference, NEW n \in Int
    PROVE  Advance(ref, n) \in Reference /\ Index(Advance(ref, n)) = Index(ref) + n
<1>. DEFINE m == IF n < 0 THEN -n ELSE n
<1>0. BitsPerChunk \in Nat \ {0} /\ m \in Nat
  BY BitFieldAssumption
<1>1. PICK q \in Int : q = m \div BitsPerChunk
  BY <1>0, ChunkQuotient
<1>2. PICK r \in 0 .. BitsPerChunk - 1 : r = m % BitsPerChunk
  BY <1>0, ChunkQuotient
<1>3. m = BitsPerChunk * q + r
  BY <1>0, <1>1, <1>2, ChunkQuotient
<1>4. PICK chunk \in Int : chunk = ref.chunk
  BY DEF Reference
<1>5. PICK bit \in 0 .. BitsPerChunk - 1 : bit = ref.bit
  BY DEF Reference
<1>. DEFINE c == chunk + IF n < 0 THEN -q ELSE q
            b == IF n < 0 THEN bit - r ELSE bit + r
            there == IF b >= BitsPerChunk THEN [chunk |-> c + 1, bit |-> b - BitsPerChunk]
                     ELSE IF b < 0 THEN [chunk |-> c - 1, bit |-> b + BitsPerChunk]
                     ELSE [chunk |-> c, bit |-> b]
<1>6. Advance(ref, n) = there
  BY <1>1, <1>2, <1>4, <1>5 DEF Advance
<1>7. b \in Int /\ c \in Int /\ b >= -BitsPerChunk /\ b < 2 * BitsPerChunk
  BY <1>0
<1>8. c * BitsPerChunk + b = chunk * BitsPerChunk + bit + n
  <2>1. CASE n < 0
    BY <1>0, <1>3, <2>1
  <2>2. CASE ~(n < 0)
    BY <1>0, <1>3, <2>2
  <2>. QED
    BY <2>1, <2>2
<1>. HIDE DEF b, c
<1>9. Index(there) = c * BitsPerChunk + b
  <2>1. (c + 1) * BitsPerChunk = c * BitsPerChunk + BitsPerChunk
    BY <1>0, <1>7
  <2>2. (c - 1) * BitsPerChunk = c * BitsPerChunk - BitsPerChunk
    BY <1>0, <1>7
  <2>3. c * BitsPerChunk \in Int
    BY <1>0, <1>7
  <2>. QED
    BY <1>0, <1>7, <2>1, <2>2, <2>3 DEF Index
<1>10. Index(ref) = chunk * BitsPerChunk + bit
  BY <1>4, <1>5 DEF Index
<1>11. there \in Reference
  BY <1>0, <1>7 DEF Reference
<1>. QED
  BY <1>6, <1>8, <1>9, <1>10, <1>11

\* The references that the sort swaps are those of its two positions.
LEMMA ReferencesOfSort ==
    ASSUME NEW i \in Nat, NEW n \in Nat, NEW d \in Int
    PROVE  /\ Index(Advance(BeginBits, i)) = i
           /\ Index(Advance(Advance(BeginBits, n), d)) = n + d
<1>1. BeginBits \in Reference /\ Index(BeginBits) = 0
  BY BitFieldAssumption DEF Index, BeginBits, Reference
<1>2. Index(Advance(BeginBits, i)) = 0 + i
  BY <1>1, AdvanceMoves
<1>3. PICK end \in Reference : end = Advance(BeginBits, n) /\ Index(end) = 0 + n
  BY <1>1, AdvanceMoves
<1>4. Index(Advance(end, d)) = Index(end) + d
  BY AdvanceMoves
<1>. QED
  BY <1>2, <1>3, <1>4

------------------------------------------------------------------------------
(* The vector and its bits. *)

Element == [x : Value, prop : Nat]
EndOf(e, b, k) == [x |-> e[k].x, prop |-> e[k].prop, push |-> b[k]]

\* Every end of the vector e has a bit of b that was written, no two ends are the
\* same, and those from the index i on are the ends r.
IsMemory(e, b, i, r, n) ==
    /\ e \in Seq(Element)
    /\ IsBuffer(b) /\ Len(e) <= Len(b)
    /\ \A k \in 1 .. Len(e) : b[k] \in BOOLEAN /\ e[k].prop <= n
    /\ i \in 1 .. Len(e) + 1
    /\ \A j, k \in 1 .. Len(e) : EndOf(e, b, j) = EndOf(e, b, k) => j = k
    /\ {EndOf(e, b, k) : k \in i .. Len(e)} = r

\* One end more, of a property that is new or with another bit.
LEMMA MemoryGrows ==
    ASSUME NEW e, NEW b, NEW r, NEW n \in Nat, IsMemory(e, b, 1, r, n),
           NEW v \in BOOLEAN, NEW x \in Value, NEW b2, IsBuffer(b2), Len(b2) >= Len(e) + 1,
           b2[Len(e) + 1] = v, \A k \in 1 .. Len(e) : b2[k] = b[k],
           NEW m \in Nat, n <= m, NEW p \in Nat, p <= m,
           [x |-> x, prop |-> p, push |-> v] \notin r
    PROVE  IsMemory(Append(e, [x |-> x, prop |-> p]), b2, 1,
                    r \cup {[x |-> x, prop |-> p, push |-> v]}, m)
<1>. DEFINE l == Len(e)
            d == Append(e, [x |-> x, prop |-> p])
            new == [x |-> x, prop |-> p, push |-> v]
<1>1. l \in Nat /\ e \in Seq(Element)
  BY DEF IsMemory
<1>2. /\ d \in Seq(Element) /\ Len(d) = l + 1
      /\ \A k \in 1 .. l : d[k] = e[k]
      /\ d[l + 1] = [x |-> x, prop |-> p]
  <2>1. [x |-> x, prop |-> p] \in Element
    BY DEF Element
  <2>. QED
    BY <1>1, <2>1
<1>. HIDE DEF d
<1>3. 1 .. l + 1 = (1 .. l) \cup {l + 1}
  BY <1>1
<1>4. /\ \A k \in 1 .. l : EndOf(d, b2, k) = EndOf(e, b, k)
      /\ EndOf(d, b2, l + 1) = new
  BY <1>2 DEF EndOf
<1>5. {EndOf(e, b, k) : k \in 1 .. l} = r
  BY DEF IsMemory
<1>6. {EndOf(d, b2, k) : k \in 1 .. l + 1} = r \cup {new}
  <2>. HIDE DEF l, new
  <2>. QED
    BY <1>3, <1>4, <1>5
<1>7. \A k \in 1 .. l : EndOf(e, b, k) # new
  BY <1>5
<1>8. \A j, k \in 1 .. l + 1 : EndOf(d, b2, j) = EndOf(d, b2, k) => j = k
  <2>1. \A j, k \in 1 .. l : EndOf(e, b, j) = EndOf(e, b, k) => j = k
    BY DEF IsMemory
  <2>. HIDE DEF l, new
  <2>. QED
    BY <1>3, <1>4, <1>7, <2>1
<1>9. \A k \in 1 .. l + 1 : b2[k] \in BOOLEAN /\ d[k].prop <= m
  <2>0. \A k \in 1 .. l : e[k].prop \in Nat
    <3>1. \A k \in 1 .. l : e[k] \in Element
      BY <1>1
    <3>. QED
      BY <3>1 DEF Element
  <2>1. \A k \in 1 .. l : b[k] \in BOOLEAN /\ e[k].prop \in Nat /\ e[k].prop <= n
    BY <2>0 DEF IsMemory
  <2>2. \A k \in 1 .. l : b2[k] \in BOOLEAN /\ d[k].prop <= m
    BY <1>2, <2>1
  <2>3. b2[l + 1] \in BOOLEAN /\ d[l + 1].prop <= m
    BY <1>2
  <2>. QED
    BY <1>3, <2>2, <2>3
<1>10. Len(d) <= Len(b2)
  BY <1>1, <1>2 DEF IsBuffer
<1>11. 1 \in 1 .. Len(d) + 1
  BY <1>1, <1>2
<1>12. IsMemory(d, b2, 1, r \cup {new}, m)
  <2>. HIDE DEF new, l
  <2>. QED
    BY <1>2, <1>6, <1>8, <1>9, <1>10, <1>11 DEF IsMemory
<1>. QED
  BY <1>12 DEF d

LEMMA Exchange ==
    ASSUME NEW S, NEW f \in Seq(S), NEW s \in 1 .. Len(f), NEW t \in 1 .. Len(f)
    PROVE  LET g == [f EXCEPT ![s] = f[t], ![t] = f[s]]
           IN  /\ g \in Seq(S) /\ Len(g) = Len(f)
               /\ \A k \in 1 .. Len(f) :
                    g[k] = f[IF k = t THEN s ELSE IF k = s THEN t ELSE k]
  OBVIOUS

\* Two ends are exchanged, and their bits.
LEMMA MemorySwaps ==
    ASSUME NEW e, NEW b, NEW r, NEW n \in Nat, IsMemory(e, b, 1, r, n),
           NEW s \in 1 .. Len(e), NEW t \in 1 .. Len(e)
    PROVE  IsMemory([e EXCEPT ![s] = e[t], ![t] = e[s]],
                    [b EXCEPT ![s] = b[t], ![t] = b[s]], 1, r, n)
<1>. DEFINE d == [e EXCEPT ![s] = e[t], ![t] = e[s]]
            c == [b EXCEPT ![s] = b[t], ![t] = b[s]]
            l == Len(e)
            pi(k) == IF k = t THEN s ELSE IF k = s THEN t ELSE k
<1>1. /\ l \in Nat /\ e \in Seq(Element)
      /\ b \in Seq(Bit) /\ Len(b) \in Nat /\ l <= Len(b)
  BY DEF IsMemory, IsBuffer
<1>2. /\ d \in Seq(Element) /\ Len(d) = l
      /\ \A k \in 1 .. l : d[k] = e[pi(k)]
  BY <1>1, Exchange
<1>3. /\ c \in Seq(Bit) /\ Len(c) = Len(b)
      /\ \A k \in 1 .. l : c[k] = b[pi(k)]
  <2>1. s \in 1 .. Len(b) /\ t \in 1 .. Len(b) /\ 1 .. l \subseteq 1 .. Len(b)
    BY <1>1
  <2>. QED
    BY <1>1, <2>1, Exchange
<1>. HIDE DEF d, c
<1>4. /\ \A k \in 1 .. l : pi(k) \in 1 .. l /\ pi(pi(k)) = k
      /\ \A k \in 1 .. l : EndOf(d, c, k) = EndOf(e, b, pi(k))
  BY <1>2, <1>3 DEF EndOf
<1>5. \A j, k \in 1 .. l : EndOf(e, b, j) = EndOf(e, b, k) => j = k
  BY DEF IsMemory
<1>6. {EndOf(e, b, k) : k \in 1 .. l} = r
  BY DEF IsMemory
<1>7. \A k \in 1 .. l : b[k] \in BOOLEAN /\ e[k].prop <= n
  BY DEF IsMemory
<1>. HIDE DEF pi, l
<1>8. {EndOf(d, c, k) : k \in 1 .. l} = r
  BY <1>4, <1>6
<1>9. \A j, k \in 1 .. l : EndOf(d, c, j) = EndOf(d, c, k) => j = k
  BY <1>4, <1>5
<1>10. \A k \in 1 .. l : c[k] \in BOOLEAN /\ d[k].prop <= n
  BY <1>2, <1>3, <1>4, <1>7
<1>11. IsBuffer(c)
  BY <1>3 DEF IsMemory, IsBuffer
<1>12. Len(d) <= Len(c) /\ 1 \in 1 .. Len(d) + 1
  BY <1>1, <1>2, <1>3
<1>13. IsMemory(d, c, 1, r, n)
  BY <1>2, <1>8, <1>9, <1>10, <1>11, <1>12 DEF IsMemory
<1>. QED
  BY <1>13 DEF d, c

\* The end at the index is taken.
LEMMA MemoryTakes ==
    ASSUME NEW e, NEW b, NEW r, NEW n, NEW i, IsMemory(e, b, i, r, n),
           r \ {EndOf(e, b, i)} # r
    PROVE  IsMemory(e, b, i + 1, r \ {EndOf(e, b, i)}, n)
<1>1. /\ Len(e) \in Nat /\ i \in 1 .. Len(e) + 1
      /\ {EndOf(e, b, k) : k \in i .. Len(e)} = r
      /\ \A j, k \in 1 .. Len(e) : EndOf(e, b, j) = EndOf(e, b, k) => j = k
  BY DEF IsMemory
<1>2. i \in 1 .. Len(e)
  <2>1. i .. Len(e) # {}
    BY <1>1
  <2>. QED
    BY <1>1, <2>1
<1>3. i .. Len(e) = {i} \cup (i + 1 .. Len(e)) /\ i + 1 .. Len(e) \subseteq 1 .. Len(e)
  BY <1>1, <1>2
<1>4. \A k \in i + 1 .. Len(e) : EndOf(e, b, k) # EndOf(e, b, i)
  <2>1. \A k \in i + 1 .. Len(e) : k # i
    BY <1>1, <1>2
  <2>. QED
    BY <1>1, <1>2, <1>3, <2>1
<1>5. {EndOf(e, b, k) : k \in i + 1 .. Len(e)} = r \ {EndOf(e, b, i)}
  BY <1>1, <1>3, <1>4
<1>6. i + 1 \in 1 .. Len(e) + 1
  BY <1>1, <1>2
<1>. QED
  BY <1>5, <1>6 DEF IsMemory

\* add() of the ends sets one bit and clears the next.
LEMMA BitsGrow ==
    ASSUME NEW b, IsBuffer(b), NEW m \in Nat, m <= Len(b)
    PROVE  LET c == ClearBit(SetBit(b, m), m + 1)
           IN  /\ IsBuffer(c) /\ Len(c) >= m + 2
               /\ c[m + 1] = TRUE /\ c[m + 2] = FALSE
               /\ \A k \in 1 .. m : c[k] = b[k]
<1>. DEFINE Writes(bits, idx, v, w) ==
              /\ IsBuffer(w)
              /\ Len(w) >= idx + 1
              /\ Len(w) >= Len(bits)
              /\ w[idx + 1] = v
              /\ \A k \in 1 .. Len(bits) : k # idx + 1 => w[k] = bits[k]
<1>0. \A bits : IsBuffer(bits) => \A idx \in Nat, v \in BOOLEAN :
        Writes(bits, idx, v, WriteBit(bits, idx, v))
  BY WriteBitWrites
<1>. HIDE DEF Writes
<1>1. PICK a : a = SetBit(b, m) /\ Writes(b, m, TRUE, a)
  BY <1>0 DEF SetBit
<1>2. m + 1 \in Nat
  OBVIOUS
<1>3. IsBuffer(a) /\ a[m + 1] = TRUE
  BY <1>1 DEF Writes
<1>4. PICK c : c = ClearBit(a, m + 1) /\ Writes(a, m + 1, FALSE, c)
  BY <1>0, <1>2, <1>3 DEF ClearBit
<1>5. Len(a) \in Nat /\ Len(b) \in Nat
  BY <1>3 DEF IsBuffer
<1>6. IsBuffer(c) /\ Len(c) >= m + 2
  BY <1>4 DEF Writes
<1>7. c[m + 1] = TRUE
  <2>1. m + 1 \in 1 .. Len(a) /\ m + 1 # (m + 1) + 1
    BY <1>1, <1>5 DEF Writes
  <2>. QED
    BY <1>3, <1>4, <2>1, Zenon DEF Writes
<1>8. c[m + 2] = FALSE
  <2>1. (m + 1) + 1 = m + 2
    OBVIOUS
  <2>2. c[(m + 1) + 1] = FALSE
    BY <1>4, Zenon DEF Writes
  <2>. QED
    BY <2>1, <2>2
<1>9. ASSUME NEW k \in 1 .. m PROVE c[k] = b[k]
  <2>1. k \in 1 .. Len(a) /\ k # (m + 1) + 1 /\ k \in 1 .. Len(b) /\ k # m + 1
    BY <1>1, <1>5 DEF Writes
  <2>2. a[k] = b[k] /\ c[k] = a[k]
    BY <1>1, <1>4, <2>1, Zenon DEF Writes
  <2>. QED
    BY <2>2
<1>. QED
  BY <1>1, <1>4, <1>6, <1>7, <1>8, <1>9

\* The memory holds the ends, and a sweep starts at its first position.
MemoryInv ==
    /\ IsMemory(elts, actions, index, ir, Len(added))
    /\ sorted \in 0 .. Len(elts)
    /\ pc = "idle" => index = 1

LEMMA EmptyMemory == ASSUME NEW n PROVE IsMemory(<<>>, NoBits, 1, {}, n)
<1>1. IsBuffer(NoBits)
  <2>1. Len(NoBits) = BitsPerChunk * 0 /\ NoBits \in Seq(Bit)
    BY BitFieldAssumption DEF NoBits
  <2>. QED
    BY <2>1 DEF IsBuffer
<1>2. Len(NoBits) = 0
  BY DEF NoBits
<1>3. {EndOf(<<>>, NoBits, k) : k \in 1 .. Len(<<>>)} = {}
  OBVIOUS
<1>4. <<>> \in Seq(Element) /\ 1 .. Len(<<>>) = {} /\ 1 \in 1 .. Len(<<>>) + 1
  OBVIOUS
<1>. QED
  BY <1>1, <1>2, <1>3, <1>4 DEF IsMemory

LEMMA MemoryStart == ListInit => MemoryInv
  BY EmptyMemory DEF ListInit, MemoryInit, Init, MemoryInv

LEMMA MemoryAdd ==
    ASSUME TypeOK, MemoryInv, NEW i \in Addable, Add(i)
    PROVE  MemoryInv'
<1>. DEFINE n == Len(added)
            l == Len(elts)
            x1 == [x |-> i.lower, prop |-> n + 1]
            x2 == [x |-> i.upper, prop |-> n + 1]
            new1 == [x |-> i.lower, prop |-> n + 1, push |-> TRUE]
            new2 == [x |-> i.upper, prop |-> n + 1, push |-> FALSE]
            c == ClearBit(SetBit(actions, l), l + 1)
<1>1. /\ pc = "idle" /\ pc' = pc /\ index = 1 /\ index' = 1
      /\ sorted = 0 /\ sorted' = 0
      /\ ir' = ir \cup {new1, new2}
      /\ added' = Append(added, i)
      /\ elts' = elts \o <<x1, x2>>
      /\ actions' = c
  BY DEF Add, AddProperty, AddToMemory, Begin, End, MemoryInv
<1>2. n \in Nat /\ Len(added') = n + 1
  BY <1>1, AddableFacts DEF TypeOK
<1>3. i.lower \in Value /\ i.upper \in Value
  BY AddableFacts
<1>4. /\ IsMemory(elts, actions, 1, ir, n)
      /\ elts \in Seq(Element) /\ l \in Nat /\ IsBuffer(actions) /\ l <= Len(actions)
  BY <1>1 DEF MemoryInv, IsMemory
<1>5. /\ IsBuffer(c) /\ Len(c) >= l + 2
      /\ c[l + 1] = TRUE /\ c[l + 2] = FALSE
      /\ \A k \in 1 .. l : c[k] = actions[k]
  BY <1>4, BitsGrow
<1>6. \A e \in ir : e.prop \in Nat /\ e.prop <= n
  <2>1. \A k \in 1 .. l : elts[k] \in Element /\ elts[k].prop <= n
    BY <1>4 DEF IsMemory
  <2>2. \A k \in 1 .. l : EndOf(elts, actions, k).prop = elts[k].prop
    BY DEF EndOf
  <2>3. ir = {EndOf(elts, actions, k) : k \in 1 .. l}
    BY <1>4 DEF IsMemory
  <2>. QED
    BY <2>1, <2>2, <2>3 DEF Element
<1>7. new1 \notin ir /\ new2 \notin ir /\ new1 # new2
  <2>1. \A e \in ir : e.prop # n + 1
    BY <1>2, <1>6
  <2>. QED
    BY <2>1
<1>. HIDE DEF c
<1>8. IsMemory(Append(elts, x1), c, 1, ir \cup {new1}, n + 1)
  <2>1. /\ n + 1 \in Nat /\ n <= n + 1 /\ n + 1 <= n + 1
        /\ Len(c) >= l + 1
    <3>1. Len(c) \in Nat
      BY <1>5 DEF IsBuffer
    <3>. QED
      BY <1>2, <1>4, <1>5, <3>1
  <2>2. PICK begins \in BOOLEAN : begins = TRUE
    OBVIOUS
  <2>3. c[l + 1] = begins /\ [x |-> i.lower, prop |-> n + 1, push |-> begins] \notin ir
    BY <1>5, <1>7, <2>2
  <2>4. IsMemory(Append(elts, x1), c, 1,
                 ir \cup {[x |-> i.lower, prop |-> n + 1, push |-> begins]}, n + 1)
    BY <1>2, <1>3, <1>4, <1>5, <2>1, <2>3, MemoryGrows, ZenonT(40)
  <2>. QED
    BY <2>2, <2>4
<1>9. x1 \in Element /\ x2 \in Element
  BY <1>2, <1>3 DEF Element
<1>10. /\ Len(Append(elts, x1)) = l + 1
       /\ Append(Append(elts, x1), x2) = elts \o <<x1, x2>>
  <2>. HIDE DEF x1, x2
  <2>. QED
    BY <1>4, <1>9
<1>11. IsMemory(Append(Append(elts, x1), x2), c, 1, (ir \cup {new1}) \cup {new2}, n + 1)
  <2>. DEFINE d == Append(elts, x1)
  <2>1. /\ n + 1 \in Nat /\ n + 1 <= n + 1
        /\ Len(c) >= Len(d) + 1 /\ c[Len(d) + 1] = FALSE /\ FALSE \in BOOLEAN
        /\ \A k \in 1 .. Len(d) : c[k] = c[k]
    <3>1. Len(c) \in Nat
      BY <1>5 DEF IsBuffer
    <3>2. Len(d) + 1 = l + 2
      BY <1>4, <1>10
    <3>. QED
      BY <1>2, <1>5, <3>1, <3>2
  <2>2. new2 \notin ir \cup {new1}
    BY <1>7
  <2>3. IsMemory(d, c, 1, ir \cup {new1}, n + 1)
    BY <1>8
  <2>. HIDE DEF d
  <2>4. IsMemory(Append(d, x2), c, 1, (ir \cup {new1}) \cup {new2}, n + 1)
    BY <1>3, <1>5, <2>1, <2>2, <2>3, MemoryGrows, Zenon
  <2>. QED
    BY <2>4 DEF d
<1>12. (ir \cup {new1}) \cup {new2} = ir'
  BY <1>1
<1>13. sorted' \in 0 .. Len(elts')
  <2>. HIDE DEF x1, x2
  <2>1. elts' \in Seq(Element)
    BY <1>1, <1>4, <1>9
  <2>. QED
    BY <1>1, <2>1
<1>14. IsMemory(elts', actions', index', ir', Len(added'))
  BY <1>1, <1>2, <1>10, <1>11, <1>12
<1>. QED
  BY <1>1, <1>13, <1>14 DEF MemoryInv

LEMMA MemorySort ==
    ASSUME TypeOK, MemoryInv, Sort
    PROVE  MemoryInv'
<1>1. PICK j \in sorted + 1 .. Len(elts) :
        /\ elts' = [elts EXCEPT ![sorted + 1] = elts[j], ![j] = elts[sorted + 1]]
        /\ actions' = SwapBits(actions, Advance(BeginBits, sorted),
                               Advance(Advance(BeginBits, Len(elts)), j - 1 - Len(elts)))
  BY DEF Sort
<1>2. /\ pc = "idle" /\ pc' = pc /\ index = 1 /\ index' = 1
      /\ ir' = ir /\ added' = added /\ sorted < Len(elts) /\ sorted' = sorted + 1
  BY DEF Sort, vars, MemoryInv
<1>3. /\ IsMemory(elts, actions, 1, ir, Len(added)) /\ Len(added) \in Nat
      /\ elts \in Seq(Element) /\ Len(elts) \in Nat /\ sorted \in Nat
  BY <1>2 DEF MemoryInv, IsMemory, TypeOK
<1>4. /\ Index(Advance(BeginBits, sorted)) = sorted
      /\ Index(Advance(Advance(BeginBits, Len(elts)), j - 1 - Len(elts)))
           = Len(elts) + (j - 1 - Len(elts))
  <2>1. Index(Advance(BeginBits, sorted)) = sorted
    BY <1>3, ReferencesOfSort
  <2>2. \A d \in Int : Index(Advance(Advance(BeginBits, Len(elts)), d)) = Len(elts) + d
    BY <1>3, ReferencesOfSort
  <2>3. j - 1 - Len(elts) \in Int
    BY <1>1, <1>3
  <2>. QED
    BY <2>1, <2>2, <2>3, Zenon
<1>5. Len(elts) + (j - 1 - Len(elts)) + 1 = j
  BY <1>1, <1>3
<1>6. actions' = [actions EXCEPT ![sorted + 1] = actions[j], ![j] = actions[sorted + 1]]
  BY <1>1, <1>4, <1>5 DEF SwapBits
<1>7. sorted + 1 \in 1 .. Len(elts) /\ j \in 1 .. Len(elts)
  BY <1>1, <1>2, <1>3
<1>8. IsMemory(elts', actions', 1, ir, Len(added))
  <2>1. IsMemory([elts EXCEPT ![sorted + 1] = elts[j], ![j] = elts[sorted + 1]],
                 [actions EXCEPT ![sorted + 1] = actions[j], ![j] = actions[sorted + 1]],
                 1, ir, Len(added))
    BY <1>3, <1>7, MemorySwaps, Zenon
  <2>. QED
    BY <1>1, <1>6, <2>1, Zenon
<1>9. Len(elts') = Len(elts)
  BY <1>1, <1>3
<1>. QED
  BY <1>2, <1>3, <1>7, <1>8, <1>9 DEF MemoryInv

\* A sweep that takes the end at its index.
LEMMA MemorySweep ==
    ASSUME MemoryInv, TakesEndAt(index), index' = index + 1, pc' # "idle",
           UNCHANGED <<elts, actions, sorted, added>>
    PROVE  MemoryInv'
<1>1. EndAt(index) = EndOf(elts, actions, index)
  <2>1. index \in Int
    BY DEF MemoryInv, IsMemory
  <2>2. (index - 1) + 1 = index
    BY <2>1
  <2>. QED
    BY <2>2 DEF EndAt, EndOf, GetBitFast
<1>2. ir' = ir \ {EndOf(elts, actions, index)} /\ ir' # ir
  BY <1>1 DEF TakesEndAt
<1>3. IsMemory(elts, actions, index + 1, ir', Len(added))
  BY <1>2, MemoryTakes DEF MemoryInv
<1>. QED
  BY <1>3 DEF MemoryInv

LEMMA MemoryStep ==
    ASSUME TypeOK, MemoryInv,
           Sort \/ Start("rem") \/ Start("no_rem") \/ Step \/ Finish \/ Nothing
    PROVE  MemoryInv'
<1>1. CASE Sort
  BY <1>1, MemorySort
<1>2. ASSUME NEW version \in {"rem", "no_rem"}, Start(version) PROVE MemoryInv'
  <2>1. pc = "idle" /\ pc' # "idle" /\ UNCHANGED <<elts, actions, sorted, added>>
    BY <1>2 DEF Start, AggregateStart
  <2>2. index = 1 /\ index' = 1 + 1
    BY <1>2, <2>1 DEF Start, MemoryInv
  <2>3. TakesEndAt(1)
    BY <1>2 DEF Start
  <2>. QED
    BY <2>1, <2>2, <2>3, MemorySweep
<1>3. CASE Step
  <2>1. pc' # "idle" /\ UNCHANGED <<elts, actions, sorted, added>>
    BY <1>3 DEF Step, SweepStep, SweepStepNoRem, Meets
  <2>. QED
    BY <1>3, <2>1, MemorySweep DEF Step
<1>4. CASE Finish
  <2>1. /\ elts' = <<>> /\ actions' = NoBits /\ sorted' = 0 /\ index' = 1
        /\ ir' = {}
    BY <1>4 DEF Finish, SweepEnd
  <2>. QED
    BY <2>1, EmptyMemory DEF MemoryInv
<1>5. CASE Nothing
  BY <1>5 DEF Nothing, AggregateNothing, memory, MemoryInv
<1>. QED
  BY <1>1, <1>2, <1>3, <1>4, <1>5

LEMMA MemoryNext == TypeOK /\ TodoOK /\ MemoryInv /\ [ListNext]_listVars => MemoryInv'
<1>. SUFFICES ASSUME TypeOK, TodoOK, MemoryInv, [ListNext]_listVars PROVE MemoryInv'
  OBVIOUS
<1>1. ASSUME NEW i \in Addable, NEW set, Gives(i, set) PROVE MemoryInv'
  BY <1>1, MemoryAdd DEF Gives
<1>2. ASSUME NEW i \in Plain, AddInterval(i) PROVE MemoryInv'
  BY <1>1, <1>2, AddressPropertiesAssumption DEF AddInterval
<1>3. ASSUME NEW a, NEW b, HalfOpen(<<a, b>>) \in Addable, AddRange(a, b) PROVE MemoryInv'
  BY <1>1, <1>3 DEF AddRange
<1>4. ASSUME NEW r \in Ranges, AddRange(r[1], r[2]) PROVE MemoryInv'
  <2>1. HalfOpen(<<r[1], r[2]>>) = HalfOpen(r)
    BY DEF HalfOpen
  <2>. QED
    BY <1>3, <1>4, <2>1, AddressPropertiesAssumption
<1>5. ASSUME NEW i \in Objects, AddObject(i) PROVE MemoryInv'
  BY <1>3, <1>5, AddressPropertiesAssumption DEF AddObject
<1>6. CASE AddNextOfText
  <2>1. Head(todo.intervals) \in Addable
    BY <1>6 DEF AddNextOfText, TodoOK
  <2>2. Gives(Head(todo.intervals), todo.means)
    BY <1>6 DEF AddNextOfText
  <2>. QED
    BY <1>1, <2>1, <2>2
<1>7. CASE Nothing \/ Sort \/ Start("rem") \/ Start("no_rem") \/ Step \/ Finish
  BY <1>7, MemoryStep
<1>8. CASE (\E w \in Texts : AddText(w)) \/ StartSets \/ HandOver \/ UNCHANGED listVars
  <2>1. UNCHANGED memoryVars
    BY <1>8 DEF AddText, StartSets, HandOver, listVars
  <2>. QED
    BY <2>1 DEF memoryVars, memory, vars, MemoryInv
<1>. QED
  BY <1>2, <1>4, <1>5, <1>6, <1>7, <1>8 DEF ListNext

LEMMA MemoryIsHeld == MemoryInv => MemoryHoldsEnds
<1>. SUFFICES ASSUME MemoryInv PROVE MemoryHoldsEnds
  OBVIOUS
<1>1. index \in Int /\ {EndOf(elts, actions, k) : k \in index .. Len(elts)} = ir
  BY DEF MemoryInv, IsMemory
<1>2. \A k \in index .. Len(elts) : EndAt(k) = EndOf(elts, actions, k)
  <2>1. \A k \in index .. Len(elts) : (k - 1) + 1 = k
    BY <1>1
  <2>. QED
    BY <2>1 DEF EndAt, EndOf, GetBitFast
<1>. QED
  BY <1>1, <1>2 DEF MemoryHoldsEnds

\* The vector and its bits hold exactly the ends that a sweep has still to meet,
\* each with its own bit, whatever the chunks of the buffer and its growth are and
\* whatever the sort exchanges: no bit is read that was not written
\* (properties_ir, sort_permute_iter and bit_field).
THEOREM BitsStayWithEnds == ListSpec => []MemoryHoldsEnds
<1>1. ListSpec => []TypeOK
  <2>1. IInv => TypeOK
    BY DEF IInv
  <2>. QED
    BY <2>1, ListIsProperties, Inductive, PTL
<1>2. ListSpec => []MemoryInv
  BY <1>1, TodoInit, TodoNext, MemoryStart, MemoryNext, PTL DEF ListSpec
<1>. QED
  BY <1>2, MemoryIsHeld, PTL

------------------------------------------------------------------------------
(* The pieces of each aggregation, in a row. *)

\* The aggregation that still sweeps.
Swept(j) == pc # "idle" /\ j = Len(batches)

\* The pieces of one aggregation are behind those of the earlier ones, and do not
\* overlap; what is swept is behind prev_value.
InGroups(own) ==
    /\ \A k, l \in 1 .. Len(stored) : k < l =>
         \/ own[k] < own[l]
         \/ own[k] = own[l] /\ stored[k].interval.upper <= stored[l].interval.lower
    /\ \A k \in 1 .. Len(stored) : Swept(own[k]) => stored[k].interval.upper <= prev_value

\* A piece is between two ends of its aggregation, with the properties of its values.
InBatch(i, batch) ==
    \E p, q \in batch : added[p].lower <= i.lower /\ i.upper <= added[q].upper

OwnsPiece(k, j) ==
    /\ InBatch(stored[k].interval, batches[j])
    /\ \A v \in Value : Has(stored[k].interval, v) =>
         stored[k].property = Holding(batches[j], v)

OwnsPieces(own) == \A k \in 1 .. Len(stored) : OwnsPiece(k, own[k])

\* From the first beginning of an aggregation to its last end, or to prev_value, there
\* is a piece for each value.
Passed(j, v) ==
    /\ \E p \in batches[j] : added[p].lower <= v
    /\ IF Swept(j) THEN v < prev_value ELSE \E q \in batches[j] : v < added[q].upper

NoGaps(own) ==
    \A j \in 1 .. Len(batches), v \in Value : Passed(j, v) =>
        \E k \in 1 .. Len(stored) : own[k] = j /\ Has(stored[k].interval, v)

GroupsInv ==
    /\ pc # "idle" => \E p \in Batch : added[p].lower <= prev_value
    /\ \E own \in [1 .. Len(stored) -> 1 .. Len(batches)] :
         InGroups(own) /\ OwnsPieces(own) /\ NoGaps(own)

------------------------------------------------------------------------------
(* What the properties were given to. *)

Pending == {e.prop : e \in ir}

\* A value of what a property was given to is in an interval of the same call.
Carried(set, v, means) == \E q \in set : given[q] = means /\ Has(added[q], v)

\* The values of the text that is added.
Meant == todo.means \ {Word - 1}

GivenInv ==
    /\ given \in Seq(SUBSET Value) /\ Len(given) = Len(added)
    /\ \A p \in 1 .. Len(added), v \in Value : Has(added[p], v) => v \in given[p]
    /\ \A j \in 1 .. Len(batches) : \A p \in batches[j] : \A v \in given[p] :
         Carried(batches[j], v, given[p])
    /\ pc = "idle" => \A p \in Pending : \A v \in given[p] :
         Carried(Pending, v, given[p]) \/ (given[p] = Meant /\ InList(todo.intervals, v))
    /\ todo.intervals # <<>> =>
         /\ pc = "idle" /\ Meant \subseteq Value
         /\ \A v \in Meant : Carried(Pending, v, Meant) \/ InList(todo.intervals, v)
         /\ \A v \in Value : InList(todo.intervals, v) => v \in Meant

SetsInv ==
    /\ rest \subseteq Listed
    /\ \A k \in 1 .. Len(handed) : handed[k] \in Value /\ found[k] = PropertyOf(handed[k])

\* The list of pieces has the types of its parts.
LEMMA StoredFacts ==
    ASSUME TypeOK, NEW k \in 1 .. Len(stored)
    PROVE  /\ stored[k].interval \in LegalInterval
           /\ stored[k].interval.lower \in Nat /\ stored[k].interval.upper \in Nat
           /\ stored[k].interval.lower <= stored[k].interval.upper
<1>1. PICK T : T = [interval : LegalInterval, property : SUBSET Property]
  OBVIOUS
<1>2. stored \in Seq(T)
  BY <1>1 DEF TypeOK
<1>3. stored[k] \in T
  BY <1>2
<1>. QED
  BY <1>1, <1>3, WordAssumption DEF LegalInterval, Legal, Interval, Value

LEMMA BatchFacts ==
    ASSUME TypeOK, AddedInv, NEW j \in 1 .. Len(batches), NEW p \in batches[j]
    PROVE  /\ p \in 1 .. Len(added) /\ added[p] \in Addable
           /\ added[p].lower \in Nat /\ added[p].upper \in Nat
           /\ added[p].lower < added[p].upper
  BY AddableFacts DEF AddedInv

\* Without pieces and aggregations there is nothing to show.
NoPieces == pc = "idle" /\ stored = <<>> /\ batches = <<>>

LEMMA NoGroups == NoPieces => GroupsInv
<1>. SUFFICES ASSUME NoPieces PROVE GroupsInv
  OBVIOUS
<1>. DEFINE own == [k \in 1 .. 0 |-> 1]
<1>1. pc = "idle" /\ Len(stored) = 0 /\ Len(batches) = 0
  BY DEF NoPieces
<1>2. own \in [1 .. Len(stored) -> 1 .. Len(batches)]
  BY <1>1
<1>3. InGroups(own) /\ OwnsPieces(own) /\ NoGaps(own)
  BY <1>1 DEF InGroups, OwnsPieces, NoGaps
<1>. QED
  BY <1>1, <1>2, <1>3 DEF GroupsInv

\* A step that leaves the pieces, the aggregations and their intervals.
LEMMA GroupsStay ==
    ASSUME TypeOK, AddedInv, FrontInv, GroupsInv, UNCHANGED <<stored, batches, prev_value, pc>>,
           \A p \in 1 .. Len(added) : added'[p] = added[p]
    PROVE  GroupsInv'
<1>1. PICK own \in [1 .. Len(stored) -> 1 .. Len(batches)] :
        InGroups(own) /\ OwnsPieces(own) /\ NoGaps(own)
  BY DEF GroupsInv
<1>2. \A j \in 1 .. Len(batches) : \A p \in batches[j] : added'[p] = added[p]
  BY BatchFacts
<1>3. InGroups(own)'
  BY <1>1 DEF InGroups, Swept
<1>4. OwnsPieces(own)'
  <2>1. ASSUME NEW k \in 1 .. Len(stored)
        PROVE  /\ InBatch(stored[k].interval, batches[own[k]])'
               /\ \A v \in Value : Holding(batches[own[k]], v)' = Holding(batches[own[k]], v)
    <3>1. own[k] \in 1 .. Len(batches)
      BY <1>1
    <3>2. \A p \in batches[own[k]] : added'[p] = added[p]
      BY <1>2, <3>1
    <3>3. InBatch(stored[k].interval, batches[own[k]])
      BY <1>1 DEF OwnsPieces, OwnsPiece
    <3>4. InBatch(stored[k].interval, batches[own[k]])'
      BY <3>2, <3>3 DEF InBatch
    <3>5. \A v \in Value : Holding(batches[own[k]], v)' = Holding(batches[own[k]], v)
      BY <3>2 DEF Holding
    <3>. QED
      BY <3>4, <3>5
  <2>. QED
    BY <1>1, <2>1 DEF OwnsPieces, OwnsPiece
<1>5. NoGaps(own)'
  <2>1. \A j \in 1 .. Len(batches), v \in Value : Passed(j, v)' <=> Passed(j, v)
    BY <1>2 DEF Passed, Swept
  <2>. QED
    BY <1>1, <2>1 DEF NoGaps
<1>6. pc' # "idle" => \E p \in Batch' : added'[p].lower <= prev_value'
  <2>. SUFFICES ASSUME pc # "idle" PROVE \E p \in Batch : added'[p].lower <= prev_value
    BY DEF Batch
  <2>1. PICK p \in Batch : added[p].lower <= prev_value
    BY DEF GroupsInv
  <2>2. Len(batches) \in 1 .. Len(batches)
    BY DEF FrontInv, TypeOK
  <2>. QED
    BY <1>2, <2>1, <2>2 DEF Batch
<1>. QED
  BY <1>1, <1>3, <1>4, <1>5, <1>6 DEF GroupsInv

\* A sweep begins with the first beginning: it has passed no value yet.
LEMMA GroupsStart ==
    ASSUME IInv, GroupsInv, NEW version \in {"rem", "no_rem"}, AggregateStart(version)
    PROVE  GroupsInv'
<1>. DEFINE b == {e.prop : e \in ir}
<1>1. PICK e \in NextEnd : prev_value' = e.x /\ ir' = ir \ {e}
  BY DEF AggregateStart
<1>2. /\ pc = "idle" /\ pc' # "idle" /\ batches' = Append(batches, b)
      /\ UNCHANGED <<stored, added>>
  BY DEF AggregateStart
<1>3. PICK n \in Nat : n = Len(batches)
  BY DEF IInv, TypeOK
<1>4. b \subseteq 1 .. Len(added) /\ b \subseteq Property
  BY EndFacts DEF IInv
<1>5. Len(batches') = n + 1 /\ batches'[n + 1] = b /\ \A j \in 1 .. n : batches'[j] = batches[j]
  BY <1>2, <1>3, <1>4 DEF IInv, TypeOK
<1>6. PICK own \in [1 .. Len(stored) -> 1 .. n] :
        InGroups(own) /\ OwnsPieces(own) /\ NoGaps(own)
  BY <1>3 DEF GroupsInv
<1>7. own \in [1 .. Len(stored') -> 1 .. Len(batches')]
  BY <1>2, <1>5, <1>6
<1>8. \A k \in 1 .. Len(stored) : own[k] \in 1 .. n
  BY <1>6
<1>9. /\ \A j \in 1 .. n : ~Swept(j)' /\ ~Swept(j)
      /\ Swept(n + 1)'
  BY <1>2, <1>5 DEF Swept
<1>10. InGroups(own)'
  BY <1>2, <1>6, <1>8, <1>9 DEF InGroups
<1>11. OwnsPieces(own)'
  <2>1. ASSUME NEW k \in 1 .. Len(stored)
        PROVE  /\ InBatch(stored[k].interval, batches[own[k]])'
               /\ \A v \in Value : Holding(batches[own[k]], v)' = Holding(batches[own[k]], v)
    <3>1. batches'[own[k]] = batches[own[k]]
      BY <1>5, <1>8
    <3>2. InBatch(stored[k].interval, batches[own[k]])
      BY <1>6 DEF OwnsPieces, OwnsPiece
    <3>. QED
      BY <1>2, <3>1, <3>2 DEF InBatch, Holding
  <2>. QED
    BY <1>2, <1>6, <2>1 DEF OwnsPieces, OwnsPiece
<1>12. e.prop \in b /\ \A f \in ir : e.x <= f.x /\ e.x \in Nat
  BY EndFacts DEF IInv, NextEnd
<1>13. \A p \in b : e.x <= added[p].lower /\ added[p].lower \in Nat
  <2>. TAKE p \in b
  <2>1. Begin(added[p], p) \in ir
    BY <1>2 DEF IInv, PairsInv
  <2>2. e.x <= added[p].lower
    BY <1>12, <2>1 DEF Begin
  <2>. QED
    BY <1>4, <2>2, AddableFacts DEF IInv, AddedInv
<1>14. NoGaps(own)'
  <2>1. ASSUME NEW j \in 1 .. n, NEW v \in Value PROVE Passed(j, v)' <=> Passed(j, v)
    BY <1>2, <1>5, <1>9 DEF Passed
  <2>2. ASSUME NEW v \in Value, Passed(n + 1, v)' PROVE FALSE
    <3>1. v < e.x /\ \E p \in b : added[p].lower <= v
      BY <1>1, <1>2, <1>5, <1>9, <2>2 DEF Passed
    <3>2. v \in Nat
      BY WordAssumption DEF Value
    <3>. QED
      BY <1>12, <1>13, <3>1, <3>2
  <2>3. \A j \in 1 .. n + 1 : j \in 1 .. n \/ j = n + 1
    BY <1>3
  <2>. QED
    BY <1>2, <1>3, <1>5, <1>6, <2>1, <2>2, <2>3 DEF NoGaps
<1>15. \E p \in Batch' : added'[p].lower <= prev_value'
  <2>1. Batch' = b
    BY <1>5 DEF Batch
  <2>2. e \in ir
    BY DEF NextEnd
  <2>3. added[e.prop].lower <= e.x
    <3>1. /\ e = Begin(added[e.prop], e.prop) \/ e = End(added[e.prop], e.prop)
          /\ added[e.prop] \in Addable
      BY <2>2 DEF IInv, AddedInv
    <3>2. /\ added[e.prop].lower \in Nat /\ added[e.prop].upper \in Nat
          /\ added[e.prop].lower < added[e.prop].upper
      BY <3>1, AddableFacts
    <3>3. e.x = added[e.prop].lower \/ e.x = added[e.prop].upper
      BY <3>1 DEF Begin, End
    <3>. QED
      BY <3>2, <3>3
  <2>. QED
    BY <1>1, <1>2, <1>12, <2>1, <2>3
<1>. QED
  BY <1>7, <1>10, <1>11, <1>14, <1>15 DEF GroupsInv

\* The piece that is stored goes to the last group.
LEMMA GroupsMeet ==
    ASSUME IInv, IInv', GroupsInv, pc # "idle", NEW e \in NextEnd, Meets(e)
    PROVE  GroupsInv'
<1>. DEFINE i == Itv(prev_value, e.x)
            piece == [interval |-> i, property |-> cur_property]
<1>1. /\ ir' = ir \ {e} /\ prev_value' = e.x
      /\ stored' = Append(stored, piece)
      /\ UNCHANGED <<pc, added, batches>>
  BY DEF Meets
<1>2. e \in ir /\ e.prop \in Batch /\ prev_value <= e.x /\ e.x \in Nat /\ prev_value \in Nat
  <2>1. prev_value \in Nat
    BY WordAssumption DEF IInv, TypeOK, Value
  <2>. QED
    BY <2>1, NextEndFacts, EndFacts DEF IInv
<1>3. PICK n \in Nat : n = Len(stored)
  BY DEF IInv, TypeOK
<1>4. /\ Len(stored') = n + 1 /\ stored'[n + 1] = piece
      /\ \A k \in 1 .. n : stored'[k] = stored[k]
  BY <1>1, <1>3 DEF IInv, TypeOK
<1>5. PICK m \in Nat \ {0} : m = Len(batches)
  BY DEF IInv, TypeOK, FrontInv
<1>6. Batch = batches[m]
  BY <1>5 DEF Batch
<1>7. PICK old \in [1 .. n -> 1 .. m] : InGroups(old) /\ OwnsPieces(old) /\ NoGaps(old)
  BY <1>3, <1>5 DEF GroupsInv
<1>8. PICK own : own = [k \in 1 .. n + 1 |-> IF k <= n THEN old[k] ELSE m]
  OBVIOUS
<1>9. /\ own \in [1 .. n + 1 -> 1 .. m] /\ own[n + 1] = m
      /\ \A k \in 1 .. n : own[k] = old[k] /\ old[k] \in 1 .. m
      /\ \A k \in 1 .. n + 1 : k \in 1 .. n \/ k = n + 1
      /\ \A k \in 1 .. n : k \in 1 .. n + 1
  BY <1>7, <1>8
<1>10. \A j : Swept(j) <=> j = m
  BY <1>5 DEF Swept
<1>11. \A j : Swept(j)' <=> j = m
  BY <1>1, <1>5 DEF Swept
<1>12. piece.interval = i /\ piece.property = cur_property /\ i.lower = prev_value /\ i.upper = e.x
  BY DEF Itv
<1>. HIDE DEF piece, i
<1>13. InGroups(own)'
  <2>1. ASSUME NEW k \in 1 .. n + 1, NEW l \in 1 .. n + 1, k < l
        PROVE  \/ own[k] < own[l]
               \/ own[k] = own[l] /\ stored'[k].interval.upper <= stored'[l].interval.lower
    <3>1. CASE l \in 1 .. n
      <4>1. k \in 1 .. n
        BY <2>1, <3>1
      <4>2. own[k] = old[k] /\ own[l] = old[l] /\ stored'[k] = stored[k] /\ stored'[l] = stored[l]
        BY <1>4, <1>9, <3>1, <4>1
      <4>3. \/ old[k] < old[l]
            \/ old[k] = old[l] /\ stored[k].interval.upper <= stored[l].interval.lower
        BY <1>3, <1>7, <2>1, <3>1, <4>1 DEF InGroups
      <4>. QED
        BY <4>2, <4>3
    <3>2. CASE l = n + 1
      <4>1. k \in 1 .. n
        BY <2>1, <3>2
      <4>2. own[k] = old[k] /\ stored'[k] = stored[k] /\ old[k] \in 1 .. m
        BY <1>4, <1>9, <4>1
      <4>3. old[k] = m => stored[k].interval.upper <= prev_value
        BY <1>3, <1>7, <1>10, <4>1 DEF InGroups
      <4>4. stored'[l].interval.lower = prev_value /\ own[l] = m
        BY <1>4, <1>9, <1>12, <3>2
      <4>. QED
        BY <4>2, <4>3, <4>4
    <3>. QED
      BY <1>9, <3>1, <3>2
  <2>2. ASSUME NEW k \in 1 .. n + 1, own[k] = m PROVE stored'[k].interval.upper <= e.x
    <3>1. CASE k \in 1 .. n
      <4>1. stored'[k] = stored[k] /\ old[k] = m
        BY <1>4, <1>9, <2>2, <3>1
      <4>2. stored[k].interval.upper <= prev_value
        BY <1>3, <1>7, <1>10, <3>1, <4>1 DEF InGroups
      <4>3. stored[k].interval.upper \in Nat
        BY <1>3, <3>1, StoredFacts DEF IInv
      <4>. QED
        BY <1>2, <4>1, <4>2, <4>3
    <3>2. CASE k = n + 1
      BY <1>2, <1>4, <1>12, <3>2
    <3>. QED
      BY <1>9, <3>1, <3>2
  <2>. QED
    BY <1>1, <1>4, <1>11, <2>1, <2>2 DEF InGroups
<1>14. OwnsPieces(own)'
  <2>1. ASSUME NEW k \in 1 .. n PROVE OwnsPiece(k, own[k])'
    <3>1. stored'[k] = stored[k] /\ own[k] = old[k]
      BY <1>4, <1>9
    <3>2. OwnsPiece(k, old[k])
      BY <1>3, <1>7 DEF OwnsPieces
    <3>. QED
      BY <1>1, <3>1, <3>2 DEF OwnsPiece, InBatch, Holding
  <2>2. /\ InBatch(piece.interval, batches[m])
        /\ \A v \in Value : Has(piece.interval, v) => piece.property = Holding(batches[m], v)
    <3>1. PICK p \in Batch : added[p].lower <= prev_value
      BY DEF GroupsInv
    <3>2. e.x <= added[e.prop].upper
      <4>1. /\ e = Begin(added[e.prop], e.prop) \/ e = End(added[e.prop], e.prop)
            /\ added[e.prop] \in Addable
        BY <1>2 DEF IInv, AddedInv
      <4>2. /\ added[e.prop].lower \in Nat /\ added[e.prop].upper \in Nat
            /\ added[e.prop].lower < added[e.prop].upper
        BY <4>1, AddableFacts
      <4>3. e.x = added[e.prop].lower \/ e.x = added[e.prop].upper
        BY <4>1 DEF Begin, End
      <4>. QED
        BY <4>2, <4>3
    <3>3. InBatch(i, batches[m])
      BY <1>2, <1>6, <1>12, <3>1, <3>2 DEF InBatch
    <3>4. ASSUME NEW v \in Value, Has(i, v) PROVE cur_property = Holding(Batch, v)
      BY <3>4, PieceIsMerged DEF IInv, i
    <3>. QED
      BY <1>6, <1>12, <3>3, <3>4
  <2>3. OwnsPiece(n + 1, own[n + 1])'
    BY <1>1, <1>4, <1>9, <2>2 DEF OwnsPiece, InBatch, Holding
  <2>. QED
    BY <1>1, <1>4, <1>9, <2>1, <2>3 DEF OwnsPieces
<1>15. NoGaps(own)'
  <2>. SUFFICES ASSUME NEW j \in 1 .. m, NEW v \in Value, Passed(j, v)'
                PROVE  \E k \in 1 .. n + 1 : own[k] = j /\ Has(stored'[k].interval, v)
    BY <1>1, <1>4, <1>5 DEF NoGaps
  <2>1. v \in Nat
    BY WordAssumption DEF Value
  <2>2. CASE Passed(j, v)
    <3>1. PICK k \in 1 .. n : old[k] = j /\ Has(stored[k].interval, v)
      BY <1>3, <1>5, <1>7, <2>2 DEF NoGaps
    <3>. QED
      BY <1>4, <1>9, <3>1
  <2>3. CASE ~Passed(j, v)
    <3>1. j = m /\ v < e.x /\ ~(v < prev_value)
      BY <1>1, <1>10, <1>11, <2>3 DEF Passed
    <3>2. Has(stored'[n + 1].interval, v)
      BY <1>2, <1>4, <1>12, <2>1, <3>1 DEF Has
    <3>. QED
      BY <1>9, <3>1, <3>2
  <2>. QED
    BY <2>2, <2>3
<1>16. \E p \in Batch' : added'[p].lower <= prev_value'
  <2>1. PICK p \in Batch : added[p].lower <= prev_value
    BY DEF GroupsInv
  <2>2. added[p].lower \in Nat
    BY <1>5, <1>6, BatchFacts DEF IInv
  <2>3. added[p].lower <= e.x
    BY <1>2, <2>1, <2>2
  <2>. QED
    BY <1>1, <2>1, <2>3 DEF Batch
<1>. QED
  BY <1>1, <1>4, <1>5, <1>9, <1>13, <1>14, <1>15, <1>16 DEF GroupsInv

\* At its end a sweep has met all ends.
LEMMA GroupsEnd ==
    ASSUME IInv, GroupsInv, SweepEnd
    PROVE  GroupsInv'
<1>1. /\ pc # "idle" /\ ir = {} /\ pc' = "idle"
      /\ UNCHANGED <<stored, added, batches, prev_value>>
  BY DEF SweepEnd, sweep
<1>2. PICK own \in [1 .. Len(stored) -> 1 .. Len(batches)] :
        InGroups(own) /\ OwnsPieces(own) /\ NoGaps(own)
  BY DEF GroupsInv
<1>3. \A j : ~Swept(j)'
  BY <1>1 DEF Swept
<1>4. InGroups(own)' /\ OwnsPieces(own)'
  BY <1>1, <1>2, <1>3 DEF InGroups, OwnsPieces, OwnsPiece, InBatch, Holding
<1>5. NoGaps(own)'
  <2>1. ASSUME NEW j \in 1 .. Len(batches), NEW v \in Value, Passed(j, v)' PROVE Passed(j, v)
    <3>1. (\E p \in batches[j] : added[p].lower <= v) /\ \E q \in batches[j] : v < added[q].upper
      BY <1>1, <1>3, <2>1 DEF Passed
    <3>2. CASE j = Len(batches)
      <4>1. PICK q \in batches[j] : v < added[q].upper
        BY <3>1
      <4>2. added[q].upper <= prev_value
        BY <1>1, <3>2, <4>1 DEF IInv, FrontInv, Batch
      <4>3. v \in Nat /\ prev_value \in Nat /\ added[q].upper \in Nat
        BY <4>1, BatchFacts, WordAssumption DEF IInv, TypeOK, Value
      <4>4. v < prev_value
        BY <4>1, <4>2, <4>3
      <4>. QED
        BY <1>1, <3>1, <3>2, <4>4 DEF Passed, Swept
    <3>3. CASE j # Len(batches)
      BY <3>1, <3>3 DEF Passed, Swept
    <3>. QED
      BY <3>2, <3>3
  <2>. QED
    BY <1>1, <1>2, <2>1 DEF NoGaps
<1>. QED
  BY <1>1, <1>2, <1>4, <1>5 DEF GroupsInv

LEMMA GroupsStep == IInv /\ IInv' /\ GroupsInv /\ [Next]_vars => GroupsInv'
<1>. SUFFICES ASSUME IInv, IInv', GroupsInv, [Next]_vars PROVE GroupsInv'
  OBVIOUS
<1>1. TypeOK /\ AddedInv /\ FrontInv
  BY DEF IInv
<1>2. ASSUME NEW i \in Addable, AddProperty(i) PROVE GroupsInv'
  <2>1. UNCHANGED <<stored, batches, prev_value, pc>> /\ added' = Append(added, i)
    BY <1>2 DEF AddProperty, sweep
  <2>2. \A p \in 1 .. Len(added) : added'[p] = added[p]
    BY <2>1, AddableFacts DEF IInv, TypeOK
  <2>. QED
    BY <1>1, <2>1, <2>2, GroupsStay
<1>3. CASE AggregateNothing
  <2>1. NoPieces'
    BY <1>3 DEF AggregateNothing, NoPieces
  <2>. QED
    BY <2>1, NoGroups, PTL
<1>4. CASE SweepStep \/ SweepStepNoRem
  <2>1. PICK e \in NextEnd : Meets(e)
    BY <1>4 DEF SweepStep, SweepStepNoRem
  <2>2. pc # "idle"
    BY <1>4 DEF SweepStep, SweepStepNoRem
  <2>. QED
    BY <2>1, <2>2, GroupsMeet
<1>5. CASE UNCHANGED vars
  BY <1>1, <1>5, GroupsStay DEF vars, sweep
<1>. QED
  BY <1>2, <1>3, <1>4, <1>5, GroupsStart, GroupsEnd DEF Next

LEMMA GroupsInvariance == Spec => []GroupsInv
<1>1. Init => GroupsInv
  BY NoGroups DEF Init, NoPieces
<1>. QED
  BY <1>1, GroupsStep, Inductive, PTL DEF Spec

------------------------------------------------------------------------------
(* The texts and ranges behind the properties. *)

LEMMA PendingFacts ==
    ASSUME TypeOK, AddedInv
    PROVE  Pending \subseteq 1 .. Len(added)
  BY EndFacts DEF Pending

\* What a call of add() does to the ends and to the history.
LEMMA GivesFacts ==
    ASSUME TypeOK, AddedInv, GivenInv, NEW i \in Addable, NEW set, Gives(i, set),
           set \ {Word - 1} \subseteq Value
    PROVE  /\ pc = "idle" /\ UNCHANGED <<pc, batches>>
           /\ Pending' = Pending \cup {Len(added) + 1}
           /\ given' = Append(given, set \ {Word - 1})
           /\ given' \in Seq(SUBSET Value) /\ Len(given') = Len(added')
           /\ Len(added') = Len(added) + 1 /\ Len(added) \in Nat
           /\ \A q \in 1 .. Len(added) : given'[q] = given[q] /\ added'[q] = added[q]
           /\ given'[Len(added) + 1] = set \ {Word - 1} /\ added'[Len(added) + 1] = i
<1>1. PICK n \in Nat : n = Len(added)
  BY DEF TypeOK
<1>2. /\ pc = "idle" /\ UNCHANGED <<pc, batches>>
      /\ ir' = ir \cup {Begin(i, n + 1), End(i, n + 1)}
      /\ added' = Append(added, i) /\ given' = Append(given, set \ {Word - 1})
  BY <1>1 DEF Gives, Add, AddProperty
<1>3. Pending' = Pending \cup {n + 1}
  <2>1. Begin(i, n + 1).prop = n + 1 /\ End(i, n + 1).prop = n + 1
    BY DEF Begin, End
  <2>. QED
    BY <1>2, <2>1 DEF Pending
<1>4. i \in LegalInterval
  BY AddableFacts
<1>5. /\ Len(added') = n + 1 /\ added'[n + 1] = i
      /\ \A q \in 1 .. n : added'[q] = added[q]
  BY <1>1, <1>2, <1>4 DEF TypeOK
<1>6. /\ given' \in Seq(SUBSET Value) /\ Len(given') = n + 1
      /\ given'[n + 1] = set \ {Word - 1}
      /\ \A q \in 1 .. n : given'[q] = given[q]
  BY <1>1, <1>2 DEF GivenInv
<1>. QED
  BY <1>1, <1>2, <1>3, <1>5, <1>6

\* The parts of the invariant that a call of add() keeps in any case.
LEMMA GivesKeeps ==
    ASSUME TypeOK, AddedInv, GivenInv, NEW i \in Addable, NEW set, Gives(i, set),
           set \ {Word - 1} \subseteq Value,
           \A v \in Value : Has(i, v) => v \in set \ {Word - 1}
    PROVE  /\ \A p \in 1 .. Len(added'), v \in Value : Has(added'[p], v) => v \in given'[p]
           /\ \A j \in 1 .. Len(batches') : \A p \in batches'[j] : \A v \in given'[p] :
                Carried(batches[j], v, given[p])'
<1>1. /\ Len(added') = Len(added) + 1 /\ Len(added) \in Nat /\ batches' = batches
      /\ \A q \in 1 .. Len(added) : given'[q] = given[q] /\ added'[q] = added[q]
      /\ given'[Len(added) + 1] = set \ {Word - 1} /\ added'[Len(added) + 1] = i
  BY GivesFacts
<1>2. ASSUME NEW p \in 1 .. Len(added'), NEW v \in Value, Has(added'[p], v) PROVE v \in given'[p]
  <2>1. CASE p \in 1 .. Len(added)
    BY <1>1, <1>2, <2>1 DEF GivenInv
  <2>2. CASE p = Len(added) + 1
    BY <1>1, <1>2, <2>2
  <2>. QED
    BY <1>1, <2>1, <2>2
<1>3. ASSUME NEW j \in 1 .. Len(batches), NEW p \in batches[j], NEW v \in given'[p]
      PROVE  Carried(batches[j], v, given[p])'
  <2>1. batches[j] \subseteq 1 .. Len(added)
    BY DEF AddedInv
  <2>2. given'[p] = given[p] /\ \A q \in batches[j] : given'[q] = given[q] /\ added'[q] = added[q]
    BY <1>1, <2>1
  <2>3. Carried(batches[j], v, given[p])
    BY <2>2 DEF GivenInv
  <2>4. \E q \in batches[j] : given'[q] = given[p] /\ Has(added'[q], v)
    BY <2>2, <2>3 DEF Carried
  <2>. QED
    BY <1>1, <2>2, <2>4 DEF Carried
<1>. QED
  BY <1>1, <1>2, <1>3

\* A call for an interval or a range: what it is given to is the interval itself.
LEMMA GivenToInterval ==
    ASSUME TypeOK, AddedInv, GivenInv, NEW i \in Addable, NEW set, Gives(i, set), NoText,
           set \ {Word - 1} \subseteq Value,
           \A v \in Value : Has(i, v) <=> v \in set \ {Word - 1}
    PROVE  GivenInv'
<1>1. PICK n \in Nat : n = Len(added)
  BY DEF TypeOK
<1>2. /\ pc = "idle" /\ UNCHANGED <<pc, batches>>
      /\ Pending' = Pending \cup {n + 1}
      /\ given' \in Seq(SUBSET Value) /\ Len(given') = Len(added')
      /\ \A q \in 1 .. n : given'[q] = given[q] /\ added'[q] = added[q]
      /\ given'[n + 1] = set \ {Word - 1} /\ added'[n + 1] = i
  BY <1>1, GivesFacts
<1>3. todo' = todo /\ todo.intervals = <<>>
  BY DEF NoText
<1>4. ASSUME NEW p \in Pending', NEW v \in given'[p] PROVE Carried(Pending, v, given[p])'
  <2>1. CASE p \in Pending
    <3>1. Pending \subseteq 1 .. n
      BY <1>1, PendingFacts
    <3>2. given'[p] = given[p] /\ \A q \in Pending : given'[q] = given[q] /\ added'[q] = added[q]
      BY <1>2, <2>1, <3>1
    <3>3. ~InList(todo.intervals, v)
      BY <1>3 DEF InList
    <3>4. Carried(Pending, v, given[p])
      BY <1>2, <2>1, <3>2, <3>3 DEF GivenInv
    <3>5. \E q \in Pending' : given'[q] = given[p] /\ Has(added'[q], v)
      BY <1>2, <3>2, <3>4 DEF Carried
    <3>. QED
      BY <3>2, <3>5 DEF Carried
  <2>2. CASE p = n + 1
    <3>1. Has(added'[p], v)
      BY <1>2, <2>2
    <3>. QED
      BY <1>2, <2>2, <3>1 DEF Carried
  <2>. QED
    BY <1>2, <2>1, <2>2
<1>5. /\ \A p \in 1 .. Len(added'), v \in Value : Has(added'[p], v) => v \in given'[p]
      /\ \A j \in 1 .. Len(batches') : \A p \in batches'[j] : \A v \in given'[p] :
           Carried(batches[j], v, given[p])'
  BY GivesKeeps
<1>. QED
  BY <1>2, <1>3, <1>4, <1>5 DEF GivenInv, Carried

LEMMA HeadAndTail ==
    ASSUME NEW s \in Seq(Addable), s # <<>>, NEW v
    PROVE  /\ Head(s) \in Addable /\ Tail(s) \in Seq(Addable)
           /\ InList(s, v) <=> Has(Head(s), v) \/ InList(Tail(s), v)
<1>1. PICK n \in Nat : n = Len(s) - 1 /\ Len(s) = n + 1
  OBVIOUS
<1>2. /\ Head(s) = s[1] /\ Len(Tail(s)) = n /\ \A k \in 1 .. n : Tail(s)[k] = s[k + 1]
      /\ Head(s) \in Addable /\ Tail(s) \in Seq(Addable)
  BY <1>1
<1>3. ASSUME InList(s, v) PROVE Has(s[1], v) \/ \E k \in 1 .. n : Has(s[k + 1], v)
  <2>1. PICK k \in 1 .. n + 1 : Has(s[k], v)
    BY <1>1, <1>3 DEF InList
  <2>2. CASE k = 1
    BY <2>1, <2>2
  <2>3. CASE k # 1
    <3>1. k - 1 \in 1 .. n /\ (k - 1) + 1 = k
      BY <2>3
    <3>2. Has(s[(k - 1) + 1], v)
      BY <2>1, <3>1
    <3>. QED
      BY <3>1, <3>2
  <2>. QED
    BY <2>2, <2>3
<1>4. ASSUME Has(s[1], v) \/ \E k \in 1 .. n : Has(s[k + 1], v) PROVE InList(s, v)
  <2>1. 1 \in 1 .. Len(s) /\ \A k \in 1 .. n : k + 1 \in 1 .. Len(s)
    BY <1>1
  <2>. QED
    BY <1>4, <2>1 DEF InList
<1>5. InList(Tail(s), v) <=> \E k \in 1 .. n : Has(s[k + 1], v)
  BY <1>2 DEF InList
<1>. QED
  BY <1>2, <1>3, <1>4, <1>5

\* The next interval of a text: the values of the text that it holds are carried now.
LEMMA GivenNextOfText ==
    ASSUME TypeOK, AddedInv, TodoOK, GivenInv, AddNextOfText
    PROVE  GivenInv'
<1>. DEFINE i == Head(todo.intervals)
            s == Tail(todo.intervals)
<1>1. /\ todo.intervals # <<>> /\ Gives(i, todo.means)
      /\ todo' = [todo EXCEPT !.intervals = s]
  BY DEF AddNextOfText
<1>2. todo'.intervals = s /\ Meant' = Meant
  BY <1>1 DEF Meant
<1>3. /\ i \in Addable
      /\ \A v \in Value : InList(todo.intervals, v) <=> Has(i, v) \/ InList(s, v)
  BY <1>1, HeadAndTail DEF TodoOK
<1>4. /\ Meant \subseteq Value
      /\ \A v \in Meant : Carried(Pending, v, Meant) \/ InList(todo.intervals, v)
      /\ \A v \in Value : InList(todo.intervals, v) => v \in Meant
  BY <1>1 DEF GivenInv
<1>. HIDE DEF i, s
<1>5. todo.means \ {Word - 1} = Meant
  BY DEF Meant
<1>6. PICK n \in Nat : n = Len(added)
  BY DEF TypeOK
<1>7. /\ pc = "idle" /\ UNCHANGED <<pc, batches>>
      /\ Pending' = Pending \cup {n + 1}
      /\ given' \in Seq(SUBSET Value) /\ Len(given') = Len(added')
      /\ \A q \in 1 .. n : given'[q] = given[q] /\ added'[q] = added[q]
      /\ given'[n + 1] = Meant /\ added'[n + 1] = i
  BY <1>1, <1>3, <1>4, <1>5, <1>6, GivesFacts
<1>8. /\ \A p \in 1 .. Len(added'), v \in Value : Has(added'[p], v) => v \in given'[p]
      /\ \A j \in 1 .. Len(batches') : \A p \in batches'[j] : \A v \in given'[p] :
           Carried(batches[j], v, given[p])'
  BY <1>1, <1>3, <1>4, <1>5, GivesKeeps
<1>9. Pending \subseteq 1 .. n
  BY <1>6, PendingFacts
<1>10. ASSUME NEW v, NEW g, Carried(Pending, v, g)
       PROVE  \E q \in Pending' : given'[q] = g /\ Has(added'[q], v)
  BY <1>7, <1>9, <1>10 DEF Carried
<1>11. ASSUME NEW v \in Meant
       PROVE  (\E q \in Pending' : given'[q] = Meant /\ Has(added'[q], v)) \/ InList(s, v)
  <2>1. CASE Carried(Pending, v, Meant)
    BY <1>10, <2>1
  <2>2. CASE InList(s, v)
    BY <2>2
  <2>3. CASE Has(i, v)
    BY <1>7, <2>3
  <2>. QED
    BY <1>3, <1>4, <2>1, <2>2, <2>3
<1>12. ASSUME NEW p \in Pending', NEW v \in given'[p]
       PROVE  Carried(Pending, v, given[p])' \/ (given'[p] = Meant /\ InList(s, v))
  <2>1. CASE p \in Pending
    <3>1. given'[p] = given[p]
      BY <1>7, <1>9, <2>1
    <3>2. Carried(Pending, v, given[p]) \/ given[p] = Meant
      BY <1>7, <2>1, <3>1 DEF GivenInv
    <3>3. CASE Carried(Pending, v, given[p])
      <4>1. \E q \in Pending' : given'[q] = given[p] /\ Has(added'[q], v)
        BY <1>10, <3>3
      <4>. QED
        BY <3>1, <4>1 DEF Carried
    <3>4. CASE given[p] = Meant
      BY <1>11, <3>1, <3>4 DEF Carried
    <3>. QED
      BY <3>2, <3>3, <3>4
  <2>2. CASE p = n + 1
    BY <1>7, <1>11, <2>2 DEF Carried
  <2>. QED
    BY <1>7, <2>1, <2>2
<1>13. \A v \in Value : InList(s, v) => v \in Meant
  BY <1>3, <1>4
<1>14. \A v \in Meant : Carried(Pending, v, Meant)' \/ InList(s, v)
  BY <1>2, <1>11 DEF Carried
<1>. QED
  BY <1>2, <1>4, <1>7, <1>8, <1>12, <1>13, <1>14 DEF GivenInv

LEMMA GivenText ==
    ASSUME GivenInv, NEW w \in Texts, AddText(w)
    PROVE  GivenInv'
<1>. DEFINE s == Intervals(Parsed(w.text).ranges)
<1>1. /\ pc = "idle" /\ todo.intervals = <<>>
      /\ todo' = [intervals |-> s, means |-> w.means]
      /\ UNCHANGED <<pc, ir, added, batches, given>>
  BY DEF AddText, memoryVars, vars
<1>2. /\ \A v \in Value : InList(s, v) <=> v \in w.means \ {Word - 1}
      /\ w.means \subseteq Value
  BY AddressPropertiesAssumption
<1>. HIDE DEF s
<1>3. todo'.intervals = s /\ Meant' = w.means \ {Word - 1}
  BY <1>1 DEF Meant
<1>4. \A v : ~InList(todo.intervals, v)
  BY <1>1 DEF InList
<1>5. Pending' = Pending
  BY <1>1 DEF Pending
<1>6. \A set, v, g : Carried(set, v, g)' <=> Carried(set, v, g)
  BY <1>1 DEF Carried
<1>7. \A p \in Pending : \A v \in given[p] : Carried(Pending, v, given[p])
  BY <1>1, <1>4 DEF GivenInv
<1>. QED
  BY <1>1, <1>2, <1>3, <1>5, <1>6, <1>7 DEF GivenInv, Carried

\* The steps that add nothing: a batch takes what was pending.
LEMMA GivenSweeps ==
    ASSUME TypeOK, AddedInv, GivenInv, UNCHANGED given, NoText,
           Nothing \/ Sort \/ Start("rem") \/ Start("no_rem") \/ Step \/ Finish
    PROVE  GivenInv'
<1>1. todo' = todo /\ todo.intervals = <<>>
  BY DEF NoText
<1>2. \A v : ~InList(todo.intervals, v)
  BY <1>1 DEF InList
<1>3. CASE Nothing
  <2>1. pc = "idle" /\ pc' = pc /\ ir = {} /\ ir' = ir /\ batches' = <<>> /\ added' = added
    BY <1>3 DEF Nothing, AggregateNothing
  <2>2. Pending' = {} /\ Len(batches') = 0
    BY <2>1 DEF Pending
  <2>. QED
    BY <1>1, <2>1, <2>2 DEF GivenInv
<1>4. CASE Sort
  <2>1. UNCHANGED <<pc, ir, batches, added>>
    BY <1>4 DEF Sort, vars
  <2>. QED
    BY <1>1, <2>1 DEF GivenInv, Carried, Pending, Meant
<1>5. ASSUME NEW version \in {"rem", "no_rem"}, AggregateStart(version) PROVE GivenInv'
  <2>1. /\ pc = "idle" /\ pc' # "idle" /\ batches' = Append(batches, Pending) /\ added' = added
    BY <1>5 DEF AggregateStart, Pending
  <2>2. PICK n \in Nat : n = Len(batches)
    BY DEF TypeOK
  <2>3. Pending \subseteq Property
    BY EndFacts DEF Pending
  <2>4. /\ Len(batches') = n + 1 /\ batches'[n + 1] = Pending
        /\ \A j \in 1 .. n : batches'[j] = batches[j]
    BY <2>1, <2>2, <2>3 DEF TypeOK
  <2>5. \A p \in Pending : \A v \in given[p] : Carried(Pending, v, given[p])
    BY <1>2, <2>1 DEF GivenInv
  <2>6. ASSUME NEW j \in 1 .. n + 1, NEW p \in batches'[j], NEW v \in given[p]
        PROVE  Carried(batches'[j], v, given[p])
    <3>1. CASE j = n + 1
      BY <2>4, <2>5, <2>6, <3>1
    <3>2. CASE j \in 1 .. n
      BY <2>2, <2>4, <2>6, <3>2 DEF GivenInv
    <3>. QED
      BY <3>1, <3>2
  <2>. QED
    BY <1>1, <2>1, <2>4, <2>6 DEF GivenInv, Carried
<1>6. ASSUME NEW e, Meets(e), pc # "idle" PROVE GivenInv'
  <2>1. pc' = pc /\ UNCHANGED <<added, batches>>
    BY <1>6 DEF Meets
  <2>. QED
    BY <1>1, <1>6, <2>1 DEF GivenInv, Carried
<1>7. CASE SweepEnd
  <2>1. ir' = {} /\ UNCHANGED <<added, batches>>
    BY <1>7 DEF SweepEnd
  <2>2. Pending' = {}
    BY <2>1 DEF Pending
  <2>. QED
    BY <1>1, <2>1, <2>2 DEF GivenInv, Carried
<1>. QED
  BY <1>3, <1>4, <1>5, <1>6, <1>7 DEF Start, Step, Finish, SweepStep, SweepStepNoRem

\* What a closed range of addresses is turned into.
LEMMA HalfOpenHolds ==
    ASSUME NEW a \in Value, NEW b \in Value, NEW v \in Value
    PROVE  Has(HalfOpen(<<a, b>>), v) <=> v \in (a .. b) \ {Word - 1}
<1>1. PICK u : u = IF b = Word - 1 THEN b ELSE b + 1
  OBVIOUS
<1>2. HalfOpen(<<a, b>>) = Itv(a, u)
  BY <1>1 DEF HalfOpen
<1>3. a <= v /\ v < u <=> v # Word - 1 /\ a <= v /\ v <= b
  BY <1>1, WordAssumption DEF Value
<1>4. v \in a .. b <=> a <= v /\ v <= b
  BY WordAssumption DEF Value
<1>. QED
  BY <1>2, <1>3, <1>4 DEF Has, Itv

LEMMA GivenRange ==
    ASSUME TypeOK, AddedInv, GivenInv, NEW a \in Value, NEW b \in Value,
           HalfOpen(<<a, b>>) \in Addable, AddRange(a, b)
    PROVE  GivenInv'
<1>1. Gives(HalfOpen(<<a, b>>), a .. b) /\ NoText
  BY DEF AddRange
<1>2. (a .. b) \ {Word - 1} \subseteq Value
  BY WordAssumption DEF Value
<1>3. \A v \in Value : Has(HalfOpen(<<a, b>>), v) <=> v \in (a .. b) \ {Word - 1}
  BY HalfOpenHolds
<1>. QED
  BY <1>1, <1>2, <1>3, GivenToInterval

LEMMA GivenStep == TypeOK /\ AddedInv /\ TodoOK /\ GivenInv /\ [ListNext]_listVars => GivenInv'
<1>. SUFFICES ASSUME TypeOK, AddedInv, TodoOK, GivenInv, [ListNext]_listVars PROVE GivenInv'
  OBVIOUS
<1>1. ASSUME NEW i \in Plain, AddInterval(i) PROVE GivenInv'
  <2>1. i \in Addable /\ i.lower \in Value /\ i.upper \in Value
    BY AddressPropertiesAssumption, AddableFacts
  <2>2. Gives(i, i.lower .. i.upper - 1) /\ NoText
    BY <1>1 DEF AddInterval
  <2>3. (i.lower .. i.upper - 1) \ {Word - 1} \subseteq Value
    BY <2>1, WordAssumption DEF Value
  <2>4. \A v \in Value : Has(i, v) <=> v \in (i.lower .. i.upper - 1) \ {Word - 1}
    BY <2>1, WordAssumption DEF Value, Has
  <2>. QED
    BY <2>1, <2>2, <2>3, <2>4, GivenToInterval
<1>2. ASSUME NEW r \in Ranges, AddRange(r[1], r[2]) PROVE GivenInv'
  <2>1. r[1] \in Value /\ r[2] \in Value /\ r = <<r[1], r[2]>> /\ HalfOpen(r) \in Addable
    BY AddressPropertiesAssumption
  <2>. QED
    BY <1>2, <2>1, GivenRange
<1>3. ASSUME NEW i \in Objects, AddObject(i) PROVE GivenInv'
  <2>1. i.lower \in Value /\ i.upper \in Value /\ HalfOpen(<<i.lower, i.upper>>) \in Addable
    BY AddressPropertiesAssumption DEF Interval
  <2>2. AddRange(i.lower, i.upper)
    BY <1>3 DEF AddObject
  <2>. QED
    BY <2>1, <2>2, GivenRange
<1>4. CASE UNCHANGED <<memoryVars, given, todo>>
  <2>1. UNCHANGED <<pc, ir, batches, added>>
    BY <1>4 DEF memoryVars, vars
  <2>. QED
    BY <1>4, <2>1 DEF GivenInv, Carried, Pending, Meant
<1>5. CASE StartSets \/ HandOver \/ UNCHANGED listVars
  BY <1>4, <1>5 DEF StartSets, HandOver, NoText, listVars
<1>. QED
  BY <1>1, <1>2, <1>3, <1>5, GivenText, GivenNextOfText, GivenSweeps DEF ListNext

LEMMA GivenInit == ListInit => GivenInv
<1>. SUFFICES ASSUME ListInit PROVE GivenInv
  OBVIOUS
<1>1. /\ given = <<>> /\ added = <<>> /\ batches = <<>> /\ ir = {}
      /\ todo.intervals = <<>>
  BY DEF ListInit, MemoryInit, Init
<1>2. Pending = {} /\ Len(added) = 0 /\ Len(batches) = 0 /\ Len(given) = 0
  BY <1>1 DEF Pending
<1>. QED
  BY <1>1, <1>2 DEF GivenInv

------------------------------------------------------------------------------
(* property_of() and the values that are handed over. *)

\* The pieces that the code looks at: in order, and none of them upside down.
Sorted == \A k, l \in 1 .. Len(stored) : k < l => stored[k].interval.upper <= stored[l].interval.lower

LEMMA HalvedFacts ==
    ASSUME TypeOK, Sorted, NEW v \in Value, NEW n \in Nat, n = Len(stored),
           NEW a \in 0 .. n, NEW b \in 0 .. n
    PROVE  /\ Halved(<<a, b>>, v) \in (0 .. n) \X (0 .. n)
           /\ (\E k \in a + 1 .. b : Has(stored[k].interval, v)) =>
                \E k \in Halved(<<a, b>>, v)[1] + 1 .. Halved(<<a, b>>, v)[2] :
                    Has(stored[k].interval, v)
<1>. DEFINE q == <<a, b>>
<1>1. q[1] = a /\ q[2] = b /\ q \in (0 .. n) \X (0 .. n)
  OBVIOUS
<1>2. Tradeoff \in Nat \ {0}
  BY PropertiesAssumption
<1>3. CASE b - a <= Tradeoff
  BY <1>1, <1>3 DEF Halved
<1>4. CASE ~(b - a <= Tradeoff)
  <2>1. PICK mid \in Nat : mid = (b + a) \div 2
    OBVIOUS
  <2>2. a + 1 <= mid /\ mid + 1 <= b
    BY <1>2, <1>4, <2>1
  <2>3. mid + 1 \in 1 .. n /\ mid \in 0 .. n /\ mid + 1 \in 0 .. n
    BY <2>2
  <2>4. PICK i : i = stored[mid + 1].interval
    OBVIOUS
  <2>5. i.lower \in Nat /\ i.upper \in Nat /\ i.lower <= i.upper /\ v \in Nat
    BY <2>3, <2>4, StoredFacts, WordAssumption DEF Value
  <2>6. Halved(q, v) = IF Has(i, v) THEN <<mid, mid + 1>>
                       ELSE IF v < i.lower THEN <<a, mid>> ELSE <<mid, b>>
    BY <1>1, <1>4, <2>1, <2>4 DEF Halved
  <2>7. CASE Has(i, v)
    <3>1. Halved(q, v) = <<mid, mid + 1>>
      BY <2>6, <2>7
    <3>2. mid + 1 \in mid + 1 .. mid + 1
      BY <2>3
    <3>. QED
      BY <2>3, <2>4, <2>7, <3>1, <3>2
  <2>8. CASE ~Has(i, v) /\ v < i.lower
    <3>1. Halved(q, v) = <<a, mid>>
      BY <2>6, <2>8
    <3>2. ASSUME NEW k \in a + 1 .. b, Has(stored[k].interval, v) PROVE k \in a + 1 .. mid
      <4>1. CASE k > mid + 1
        <5>1. k \in 1 .. n /\ mid + 1 < k
          BY <4>1
        <5>2. i.upper <= stored[k].interval.lower /\ stored[k].interval.lower \in Nat
          BY <2>3, <2>4, <5>1, StoredFacts DEF Sorted
        <5>. QED
          BY <2>5, <2>8, <3>2, <5>2 DEF Has
      <4>2. CASE k = mid + 1
        BY <2>4, <2>8, <3>2, <4>2
      <4>. QED
        BY <4>1, <4>2
    <3>. QED
      BY <2>3, <3>1, <3>2
  <2>9. CASE ~Has(i, v) /\ ~(v < i.lower)
    <3>1. Halved(q, v) = <<mid, b>>
      BY <2>6, <2>9
    <3>2. ASSUME NEW k \in a + 1 .. b, Has(stored[k].interval, v) PROVE k \in mid + 1 .. b
      <4>1. CASE k <= mid
        <5>1. k \in 1 .. n /\ k < mid + 1
          BY <4>1
        <5>2. stored[k].interval.upper <= i.lower /\ stored[k].interval.upper \in Nat
          BY <2>3, <2>4, <5>1, StoredFacts DEF Sorted
        <5>. QED
          BY <2>5, <2>9, <3>2, <5>2 DEF Has
      <4>. QED
        BY <4>1
    <3>. QED
      BY <2>3, <3>1, <3>2
  <2>. QED
    BY <2>7, <2>8, <2>9
<1>. QED
  BY <1>3, <1>4

\* In sorted pieces property_of() finds the one that holds the value.
LEMMA PropertyIsFound ==
    ASSUME TypeOK, Sorted, NEW v \in Value
    PROVE  IF \E k \in 1 .. Len(stored) : Has(stored[k].interval, v)
             THEN \E k \in 1 .. Len(stored) :
                    Has(stored[k].interval, v) /\ PropertyOf(v) = stored[k].property
             ELSE PropertyOf(v) = NoProperty
<1>1. PICK n \in Nat : n = Len(stored)
  BY DEF TypeOK
<1>. DEFINE X == (0 .. n) \X (0 .. n)
            D == [k \in 1 .. n |-> [q \in X |-> Halved(q, v)]]
            holds(q) == \E k \in q[1] + 1 .. q[2] : Has(stored[k].interval, v)
            P == [k \in 0 .. n |-> {q \in X : holds(<<0, n>>) => holds(q)}]
<1>2. PICK r : r = Loop(D, <<0, n>>, n)[n]
  OBVIOUS
<1>3. ASSUME NEW q \in X PROVE Halved(q, v) \in X /\ (holds(q) => holds(Halved(q, v)))
  <2>1. PICK a \in 0 .. n, b \in 0 .. n : q = <<a, b>>
    OBVIOUS
  <2>2. q[1] = a /\ q[2] = b
    BY <2>1
  <2>. QED
    BY <1>1, <2>1, <2>2, HalvedFacts
<1>4. <<0, n>> \in X /\ <<0, n>>[1] = 0 /\ <<0, n>>[2] = n
  OBVIOUS
<1>. HIDE DEF holds
<1>5. D \in [1 .. n -> [X -> X]]
  BY <1>3
<1>6. <<0, n>> \in P[0]
  BY <1>4
<1>7. ASSUME NEW k \in 1 .. n, NEW q \in X, q \in P[k - 1] PROVE D[k][q] \in P[k]
  <2>1. k - 1 \in 0 .. n /\ k \in 0 .. n
    OBVIOUS
  <2>2. holds(<<0, n>>) => holds(q)
    BY <1>7, <2>1
  <2>3. D[k][q] = Halved(q, v)
    OBVIOUS
  <2>. QED
    BY <1>3, <2>1, <2>2, <2>3
<1>8. r \in X /\ r \in P[n]
  <2>. HIDE DEF X, D, P
  <2>. QED
    BY <1>2, <1>4, <1>5, <1>6, <1>7, LoopInvariant, ZenonT(30)
<1>9. r[1] \in 0 .. n /\ r[2] \in 0 .. n /\ (holds(<<0, n>>) => holds(r))
  BY <1>8
<1>. DEFINE at == {k \in r[1] + 1 .. r[2] : Has(stored[k].interval, v)}
<1>10. PropertyOf(v) = IF at = {} THEN NoProperty
                       ELSE stored[CHOOSE k \in at : \A j \in at : k <= j].property
  BY <1>1, <1>2 DEF PropertyOf
<1>11. at \subseteq 1 .. n
  BY <1>9
<1>12. CASE at = {}
  <2>1. ~holds(r)
    BY <1>12 DEF holds
  <2>2. ~\E k \in 1 .. n : Has(stored[k].interval, v)
    BY <1>4, <1>9, <2>1 DEF holds
  <2>. QED
    BY <1>1, <1>10, <1>12, <2>2
<1>13. CASE at # {}
  <2>1. PICK f : f = CHOOSE k \in at : \A j \in at : k <= j
    OBVIOUS
  <2>2. at \in SUBSET Nat
    BY <1>11
  <2>. HIDE DEF at
  <2>3. \E k \in at : \A j \in at : k <= j
    BY <1>13, <2>2, LeastElement
  <2>4. f \in at
    BY <2>1, <2>3
  <2>5. f \in 1 .. n /\ Has(stored[f].interval, v)
    BY <1>11, <2>4 DEF at
  <2>6. PropertyOf(v) = stored[f].property
    BY <1>10, <1>13, <2>1
  <2>. QED
    BY <1>1, <2>5, <2>6
<1>. QED
  BY <1>12, <1>13

LEMMA SetsInit == ListInit => SetsInv
  BY DEF ListInit, SetsInv

LEMMA SetsStep == SetsInv /\ [ListNext]_listVars => SetsInv'
<1>. SUFFICES ASSUME SetsInv, [ListNext]_listVars PROVE SetsInv'
  OBVIOUS
<1>1. CASE NoSets
  BY <1>1 DEF NoSets, SetsInv
<1>2. CASE StartSets
  <2>1. handed = <<>> /\ handed' = handed /\ rest' = Listed
    BY <1>2 DEF StartSets
  <2>. QED
    BY <2>1 DEF SetsInv
<1>3. CASE UNCHANGED listVars
  <2>1. UNCHANGED <<rest, handed, found, stored>>
    BY <1>3 DEF listVars, sets, memoryVars, vars
  <2>2. ASSUME NEW v PROVE PropertyOf(v)' = PropertyOf(v)
    BY <2>1 DEF PropertyOf, Halved
  <2>. QED
    BY <2>1, <2>2 DEF SetsInv
<1>4. CASE HandOver
  <2>. DEFINE n == Least(SetSize, Cardinality(rest))
  <2>1. PICK s \in [1 .. n -> rest] :
          /\ handed' = s /\ rest' = rest \ Range(s)
          /\ found' = [k \in 1 .. SetSize |-> IF k <= n THEN PropertyOf(s[k]) ELSE found[k]]
    BY <1>4 DEF HandOver
  <2>2. stored' = stored
    BY <1>4 DEF HandOver, memoryVars, vars
  <2>3. SetSize \in Nat /\ Cardinality(rest) \in Nat
    <3>1. IsFiniteSet(Value)
      BY WordAssumption, FS_Interval DEF Value
    <3>2. rest \subseteq Value
      BY AddressPropertiesAssumption DEF SetsInv
    <3>. QED
      BY <3>1, <3>2, FS_Subset, FS_CardinalityType, AddressPropertiesAssumption
  <2>4. n \in Nat /\ n <= SetSize
    BY <2>3 DEF Least
  <2>. HIDE DEF n
  <2>5. Len(s) = n
    BY <2>1, <2>4
  <2>6. \A k \in 1 .. n : found'[k] = PropertyOf(s[k])
    BY <2>1, <2>3, <2>4
  <2>7. \A k \in 1 .. n : PropertyOf(s[k])' = PropertyOf(s[k])
    BY <2>2 DEF PropertyOf, Halved
  <2>8. \A k \in 1 .. n : s[k] \in Value
    BY AddressPropertiesAssumption DEF SetsInv
  <2>. QED
    BY <2>1, <2>5, <2>6, <2>7, <2>8 DEF SetsInv
<1>. QED
  BY <1>1, <1>2, <1>3, <1>4 DEF ListNext, AddInterval, AddRange, AddObject, AddText, AddNextOfText

------------------------------------------------------------------------------
(* The address of a value as text. *)

LEMMA BytesOfWord ==
    /\ Radix \in Nat \ {0, 1} /\ Radix <= 1000
    /\ Weight(0) = 1 /\ Weight(1) = Radix
    /\ Weight(2) = Radix * Radix /\ Weight(3) = Radix * Radix * Radix
    /\ Word = Radix * Radix * Radix * Radix
<1>1. PICK n \in Nat \ {0} : n = Bits
  BY TextAssumption
<1>2. /\ Radix = 2 ^ n /\ Weight(0) = 2 ^ (0 * n) /\ Weight(1) = 2 ^ (1 * n)
      /\ Weight(2) = 2 ^ (2 * n) /\ Weight(3) = 2 ^ (3 * n) /\ Word = 2 ^ (4 * n)
  BY <1>1, TextAssumption DEF Radix, Weight
<1>3. PICK r : r = 2 ^ n
  OBVIOUS
<1>4. /\ r \in Nat \ {0, 1} /\ Weight(0) = 1 /\ Weight(1) = r /\ Weight(2) = r * r
      /\ Weight(3) = r * r * r /\ Word = r * r * r * r
  BY <1>2, <1>3, PowersOfByte, Zenon
<1>. QED
  BY <1>2, <1>3, <1>4, TextAssumption

LEMMA ValueAsText ==
    ASSUME NEW v \in Value
    PROVE  Ipv4ToI(Dotted(v), 3) = v /\ v # Invalid
<1>1. PICK r \in Nat \ {0} : r = Radix
  BY BytesOfWord
<1>2. v \in 0 .. (r * r * r * r) - 1
  BY <1>1, BytesOfWord DEF Value
<1>3. PICK b3, b2, b1, b0 \in 0 .. r - 1 : v = FourBytes(r, b3, b2, b1, b0)
  BY <1>2, HasBytes
<1>4. /\ v % r = b0 /\ (v \div r) % r = b1 /\ (v \div (r * r)) % r = b2
      /\ v \div (r * r * r) = b3 /\ b3 % r = b3
  BY <1>3, BytesOf
<1>5. v \div 1 = v /\ v # Invalid
  BY <1>2 DEF Invalid
<1>6. Dotted(v) = <<b3, Dot, b2, Dot, b1, Dot, b0>>
  BY <1>1, <1>4, <1>5, BytesOfWord DEF Dotted, Byte
<1>7. Address(b3, b2, b1, b0) = v
  BY <1>1, <1>3, BytesOfWord DEF Address, FourBytes
<1>8. b3 \in 0 .. 999 /\ b2 \in 0 .. 999 /\ b1 \in 0 .. 999 /\ b0 \in 0 .. 999
  BY <1>1, BytesOfWord
<1>9. PICK s : s = <<b3, Dot, b2, Dot, b1, Dot, b0>>
  OBVIOUS
<1>10. /\ Len(Fields(s)) = 4 /\ DOMAIN Fields(s) = 1 .. 4
       /\ Fields(s)[1] = <<b3>> /\ Fields(s)[2] = <<b2>>
       /\ Fields(s)[3] = <<b1>> /\ Fields(s)[4] = <<b0>>
  <2>1. IsDotted(s, b3, b2, b1, b0)
    BY <1>8, <1>9 DEF IsDotted
  <2>2. FourFields(s, b3, b2, b1, b0)
    BY <2>1, FieldsOfFour
  <2>. QED
    BY <2>2 DEF FourFields
<1>11. Atoi3(<<b3>>) = b3 /\ Atoi3(<<b2>>) = b2 /\ Atoi3(<<b1>>) = b1 /\ Atoi3(<<b0>>) = b0
  BY <1>8 DEF Atoi3
<1>12. IsByte(b3) /\ IsByte(b2) /\ IsByte(b1) /\ IsByte(b0)
  BY <1>1 DEF IsByte
<1>. DEFINE f == Fields(s)
            byte(k) == IF k <= Len(f) THEN Atoi3(f[k]) ELSE 0
<1>13. byte(1) = b3 /\ byte(2) = b2 /\ byte(3) = b1 /\ byte(4) = b0
  BY <1>10, <1>11
<1>14. Ipv4ToI(s, 3) = IF s # <<>> /\ Len(f) \in 4 .. 4 /\ \A k \in DOMAIN f : IsByte(byte(k))
                         THEN Address(byte(1), byte(2), byte(3), byte(4)) ELSE Invalid
  BY DEF Ipv4ToI
<1>15. Len(f) \in 4 .. 4 /\ DOMAIN f = 1 .. 4
  BY <1>10
<1>. HIDE DEF byte, f
<1>16. \A k \in DOMAIN f : IsByte(byte(k))
  <2>1. \A k \in 1 .. 4 : k = 1 \/ k = 2 \/ k = 3 \/ k = 4
    OBVIOUS
  <2>. QED
    BY <1>12, <1>13, <1>15, <2>1
<1>17. s # <<>>
  BY <1>9
<1>18. Ipv4ToI(s, 3) = v
  BY <1>7, <1>13, <1>14, <1>15, <1>16, <1>17
<1>. QED
  BY <1>5, <1>6, <1>9, <1>18

------------------------------------------------------------------------------
(* The values have their properties. *)

\* Where the pieces are: the aggregations are to the right of each other, and so
\* are their pieces.
LEMMA PiecesInOrder ==
    ASSUME IInv, GivenInv, LeftToRight,
           NEW own \in [1 .. Len(stored) -> 1 .. Len(batches)], InGroups(own), OwnsPieces(own)
    PROVE  Sorted
<1>. SUFFICES ASSUME NEW k \in 1 .. Len(stored), NEW l \in 1 .. Len(stored), k < l
              PROVE  stored[k].interval.upper <= stored[l].interval.lower
  BY DEF Sorted
<1>1. \/ own[k] < own[l]
      \/ own[k] = own[l] /\ stored[k].interval.upper <= stored[l].interval.lower
  BY DEF InGroups
<1>2. CASE own[k] < own[l]
  <2>1. PICK q \in batches[own[k]] : stored[k].interval.upper <= added[q].upper
    BY DEF OwnsPieces, OwnsPiece, InBatch
  <2>2. PICK p \in batches[own[l]] : added[p].lower <= stored[l].interval.lower
    BY DEF OwnsPieces, OwnsPiece, InBatch
  <2>3. own[k] \in 1 .. Len(batches) /\ own[l] \in 1 .. Len(batches)
    OBVIOUS
  <2>4. /\ q \in 1 .. Len(added) /\ added[q].upper \in Nat /\ added[q].lower \in Nat
        /\ added[q].lower < added[q].upper /\ added[q].upper \in Value
    BY <2>1, <2>3, BatchFacts, AddableFacts DEF IInv
  <2>5. /\ p \in 1 .. Len(added) /\ added[p].upper \in Nat /\ added[p].lower \in Nat
        /\ added[p].lower < added[p].upper /\ added[p].lower \in Value
    BY <2>2, <2>3, BatchFacts, AddableFacts DEF IInv
  <2>6. added[q].upper - 1 \in Value /\ Has(added[q], added[q].upper - 1)
    BY <2>4, WordAssumption, SMTT(30) DEF Value, Has
  <2>7. Has(added[p], added[p].lower)
    BY <2>5 DEF Has
  <2>8. added[q].upper - 1 \in given[q] /\ added[p].lower \in given[p]
    BY <2>4, <2>5, <2>6, <2>7 DEF GivenInv
  <2>9. added[q].upper - 1 < added[p].lower
    BY <1>2, <2>1, <2>2, <2>3, <2>8 DEF LeftToRight
  <2>10. stored[k].interval.upper \in Nat /\ stored[l].interval.lower \in Nat
    BY StoredFacts DEF IInv
  <2>11. PICK a, b, c, d \in Nat : /\ a = stored[k].interval.upper /\ b = added[q].upper
                                   /\ c = added[p].lower /\ d = stored[l].interval.lower
    BY <2>4, <2>5, <2>10, Zenon
  <2>12. a <= b /\ b - 1 < c /\ c <= d
    BY <2>1, <2>2, <2>9, <2>11
  <2>13. a <= d
    BY <2>12
  <2>. QED
    BY <2>11, <2>13
<1>. QED
  BY <1>1, <1>2

\* A value has a piece of an aggregation exactly if it is between two values that
\* were given a property of this aggregation.
LEMMA PieceBetween ==
    ASSUME IInv, GivenInv, NEW j \in 1 .. Len(batches), NEW v \in Value,
           NEW i \in LegalInterval, InBatch(i, batches[j]), Has(i, v)
    PROVE  Between(batches[j], v)
<1>1. PICK p, q \in batches[j] : added[p].lower <= i.lower /\ i.upper <= added[q].upper
  BY DEF InBatch
<1>2. /\ p \in 1 .. Len(added) /\ added[p].lower \in Nat /\ added[p].upper \in Nat
      /\ added[p].lower < added[p].upper /\ added[p].lower \in Value
  BY BatchFacts, AddableFacts DEF IInv
<1>3. /\ q \in 1 .. Len(added) /\ added[q].lower \in Nat /\ added[q].upper \in Nat
      /\ added[q].lower < added[q].upper /\ added[q].upper \in Value
  BY BatchFacts, AddableFacts DEF IInv
<1>4. i.lower \in Nat /\ i.upper \in Nat /\ v \in Nat /\ i.lower <= v /\ v < i.upper
  BY WordAssumption DEF Has, LegalInterval, Interval, Value
<1>5. added[p].lower \in given[p]
  BY <1>2 DEF GivenInv, Has
<1>6. added[q].upper - 1 \in given[q]
  <2>1. added[q].upper - 1 \in Value /\ Has(added[q], added[q].upper - 1)
    BY <1>3, WordAssumption DEF Value, Has
  <2>. QED
    BY <1>3, <2>1 DEF GivenInv
<1>7. added[p].lower <= v /\ v <= added[q].upper - 1
  BY <1>1, <1>2, <1>3, <1>4, SMTT(30)
<1>. QED
  BY <1>5, <1>6, <1>7 DEF Between

LEMMA BetweenHasPiece ==
    ASSUME IInv, GivenInv, pc = "idle", NEW j \in 1 .. Len(batches), NEW v \in Value,
           Between(batches[j], v)
    PROVE  Passed(j, v)
<1>1. PICK p, q \in batches[j] : \E a \in given[p], b \in given[q] : a <= v /\ v <= b
  BY DEF Between
<1>2. PICK a \in given[p], b \in given[q] : a <= v /\ v <= b
  BY <1>1
<1>3. Carried(batches[j], a, given[p]) /\ Carried(batches[j], b, given[q])
  BY DEF GivenInv
<1>4. PICK m \in batches[j] : Has(added[m], a)
  BY <1>3 DEF Carried
<1>5. PICK n \in batches[j] : Has(added[n], b)
  BY <1>3 DEF Carried
<1>6. given[p] \subseteq Value /\ given[q] \subseteq Value
  <2>1. p \in 1 .. Len(given) /\ q \in 1 .. Len(given)
    BY BatchFacts DEF IInv, GivenInv
  <2>. QED
    BY <2>1 DEF GivenInv
<1>7. a \in Nat /\ b \in Nat /\ v \in Nat
  BY <1>6, WordAssumption DEF Value
<1>8. added[m].lower \in Nat /\ added[n].upper \in Nat
  BY BatchFacts DEF IInv
<1>9. added[m].lower <= v /\ v < added[n].upper
  BY <1>2, <1>4, <1>5, <1>7, <1>8 DEF Has
<1>. QED
  BY <1>9 DEF Passed, Swept

\* The properties by their intervals are those by what they were given to.
LEMMA HoldingIsGiven ==
    ASSUME IInv, GivenInv, NEW j \in 1 .. Len(batches), NEW v \in Value
    PROVE  {given[p] : p \in Holding(batches[j], v)} =
             {given[p] : p \in {q \in batches[j] : v \in given[q]}}
<1>. DEFINE A == {given[p] : p \in Holding(batches[j], v)}
            B == {given[p] : p \in {q \in batches[j] : v \in given[q]}}
<1>1. ASSUME NEW p \in Holding(batches[j], v) PROVE given[p] \in B
  <2>1. p \in batches[j] /\ Has(added[p], v)
    BY DEF Holding
  <2>2. p \in 1 .. Len(added)
    BY <2>1, BatchFacts DEF IInv
  <2>3. v \in given[p]
    BY <2>1, <2>2 DEF GivenInv
  <2>. QED
    BY <2>1, <2>3
<1>2. ASSUME NEW p \in batches[j], v \in given[p] PROVE given[p] \in A
  <2>1. Carried(batches[j], v, given[p])
    BY <1>2 DEF GivenInv
  <2>2. PICK q \in batches[j] : given[q] = given[p] /\ Has(added[q], v)
    BY <2>1 DEF Carried
  <2>3. q \in Holding(batches[j], v)
    BY <2>2 DEF Holding
  <2>. QED
    BY <2>2, <2>3
<1>. QED
  BY <1>1, <1>2

LEMMA PropertiesAreGiven ==
    ASSUME IInv, GroupsInv, GivenInv, SetsInv, pc = "idle", LeftToRight
    PROVE  ValuesHaveTheirProperties
<1>1. PICK own \in [1 .. Len(stored) -> 1 .. Len(batches)] :
        InGroups(own) /\ OwnsPieces(own) /\ NoGaps(own)
  BY DEF GroupsInv
<1>2. Sorted /\ TypeOK
  BY <1>1, PiecesInOrder DEF IInv
<1>3. ASSUME NEW v \in Value PROVE IsGivenTo(v, PropertyOf(v))
  <2>1. PICK there : there = PropertyOf(v)
    OBVIOUS
  <2>3. PICK at : at = {j \in 1 .. Len(batches) : Between(batches[j], v)}
    OBVIOUS
  <2>4. ASSUME NEW k \in 1 .. Len(stored), Has(stored[k].interval, v) PROVE own[k] \in at
    <3>1. own[k] \in 1 .. Len(batches) /\ InBatch(stored[k].interval, batches[own[k]])
      BY <1>1 DEF OwnsPieces, OwnsPiece
    <3>2. stored[k].interval \in LegalInterval
      BY <1>2, StoredFacts
    <3>3. Between(batches[own[k]], v)
      BY <2>4, <3>1, <3>2, PieceBetween
    <3>. QED
      BY <2>3, <3>1, <3>3
  <2>5. ASSUME NEW j \in at PROVE \E k \in 1 .. Len(stored) : Has(stored[k].interval, v)
    <3>1. j \in 1 .. Len(batches) /\ Between(batches[j], v)
      BY <2>3
    <3>2. Passed(j, v)
      BY <3>1, BetweenHasPiece
    <3>. QED
      BY <1>1, <3>1, <3>2 DEF NoGaps
  <2>6. CASE at = {}
    <3>1. ~\E k \in 1 .. Len(stored) : Has(stored[k].interval, v)
      BY <2>4, <2>6
    <3>2. there = NoProperty
      BY <1>2, <2>1, <3>1, PropertyIsFound
    <3>. QED
      BY <2>1, <2>3, <2>6, <3>2 DEF IsGivenTo
  <2>7. CASE at # {}
    <3>1. \E k \in 1 .. Len(stored) : Has(stored[k].interval, v)
      BY <2>5, <2>7
    <3>2. PICK k \in 1 .. Len(stored) : Has(stored[k].interval, v) /\ there = stored[k].property
      BY <1>2, <2>1, <3>1, PropertyIsFound
    <3>3. PICK j \in 1 .. Len(batches) : j = own[k]
      OBVIOUS
    <3>4. there = Holding(batches[j], v)
      BY <1>1, <3>2, <3>3 DEF OwnsPieces, OwnsPiece
    <3>5. j \in at
      BY <2>4, <3>2, <3>3
    <3>6. there # NoProperty
      <4>1. batches[j] \subseteq 1 .. MaxAdded
        BY <1>2 DEF TypeOK, Property
      <4>2. there \in SUBSET (1 .. MaxAdded)
        BY <3>4, <4>1 DEF Holding
      <4>. QED
        BY <4>2, PropertiesAssumption
    <3>7. {given[p] : p \in there} = {given[p] : p \in {q \in batches[j] : v \in given[q]}}
      BY <3>4, HoldingIsGiven
    <3>8. \E i \in at : {given[p] : p \in there} =
                        {given[p] : p \in {q \in batches[i] : v \in given[q]}}
      BY <3>5, <3>7
    <3>. QED
      BY <2>1, <2>3, <2>7, <3>6, <3>8, Zenon DEF IsGivenTo
  <2>. QED
    BY <2>6, <2>7
<1>4. \A v \in Value : PropertyOfText(Dotted(v)) = PropertyOf(v)
  BY ValueAsText DEF PropertyOfText
<1>5. \A v \in Value : IsGivenTo(v, PropertyOfText(Dotted(v)))
  BY <1>3, <1>4
<1>6. \A k \in 1 .. Len(handed) : IsGivenTo(handed[k], found[k])
  <2>1. ASSUME NEW k \in 1 .. Len(handed) PROVE IsGivenTo(handed[k], found[k])
    <3>1. handed[k] \in Value /\ found[k] = PropertyOf(handed[k])
      BY DEF SetsInv
    <3>. QED
      BY <1>3, <3>1
  <2>. QED
    BY <2>1
<1>. QED
  BY <1>5, <1>6 DEF ValuesHaveTheirProperties

LEMMA ListInvariance == ListSpec => [](IInv /\ GroupsInv /\ GivenInv /\ SetsInv)
<1>1. IInv => TypeOK /\ AddedInv
  BY DEF IInv
<1>. QED
  BY <1>1, ListIsProperties, Inductive, GroupsInvariance, TodoInit, TodoNext,
     GivenInit, GivenStep, SetsInit, SetsStep, PTL DEF ListSpec

\* property_of() finds for each value, looked up as text or handed over in a set, exactly
\* the properties that were given to it by a range, an interval or a text, the empty
\* property between two ranges and nothing outside of them, when each aggregation is
\* to the right of the earlier ones (list_intervals_properties::property_of,
\* ip_list_intervals_with_properties, random_sets_with_properties).
THEOREM PropertiesAreFound == ListSpec => []ValuesHaveTheirProperties
<1>1. IInv /\ GroupsInv /\ GivenInv /\ SetsInv => ValuesHaveTheirProperties
  <2>1. ASSUME ~(pc = "idle" /\ LeftToRight) PROVE ValuesHaveTheirProperties
    BY <2>1 DEF ValuesHaveTheirProperties
  <2>. QED
    BY <2>1, PropertiesAreGiven
<1>. QED
  BY <1>1, ListInvariance, PTL
==============================================================================
