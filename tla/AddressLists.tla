----------------------------- MODULE AddressLists ----------------------------
(****************************************************************************)
(* A list of addresses or of ports, what the program asks it to hold, and   *)
(* its copy in a file: ip_list_intervals and port_list_intervals, the       *)
(* parser, and the dump and read functions of list_intervals.  The program  *)
(* is one of the command line tools or a user of the library.               *)
(****************************************************************************)
EXTENDS ListIntervals, Dumps

CONSTANTS
    Addresses,      \* the addresses that the documented texts are written with
    LastBytes,      \* the bytes that replace the last one of an address
    BlockParts,     \* the parts of the block texts
    Malformed,      \* texts that name nothing
    Lines,          \* the texts given to a list that is not new
    Protocols,      \* the protocols of ports
    Garbage,        \* what a byte may hold that nothing initialised
    MaxHeld,        \* bound: the intervals added and removed when a list is dumped
    MaxCount        \* bound: the intervals that a stream says it holds

ASSUME AddressAssumption ==
    /\ Protocols \subseteq 0 .. Word \div PortRadix - 2
    /\ Garbage \subseteq 0 .. Radix - 1 /\ Garbage # {}
    /\ MaxHeld \in Nat /\ MaxHeld < Len(Digits) * Len(Digits)
    /\ Addresses \subseteq Value /\ LastBytes \subseteq 0 .. Radix - 1
    /\ \A parts \in BlockParts : AreParts(parts)
    /\ Malformed \cup Lines \subseteq Text /\ \A s \in Malformed : NamesNothing(s)

\* Texts of the documented syntaxes, with what they mean.
Documented ==
    {SingleAddress(a) : a \in Addresses}
    \cup {Cidr(a, n, p) : a \in Addresses, n \in 1 .. 4, p \in 0 .. 4 * Bits}
    \cup {Span(a, b) : a, b \in Addresses}
    \cup {LastByteSpan(a, n) : a \in Addresses, n \in LastBytes}
    \cup {Blocks(parts) : parts \in BlockParts}

VARIABLES
    kind,       \* "ip" or "port", the class of the object
    request,    \* history: the text or the ports of the last call
    outcome,    \* what that call answered: "read" is true, "refused" is false
    file,       \* the file or the stream: what wrote it, and its bytes
    dumped,     \* history: the list that was dumped
    complete,   \* history: all of its bytes were written
    io          \* how the last read ended

disk == <<file, dumped, complete>>
allVars == <<vars, kind, request, outcome, disk, io>>

NoFile == [by |-> "none", bytes |-> <<>>]

AddressInit ==
    /\ Init
    /\ kind \in {"ip", "port"}
    /\ request = <<>> /\ outcome = "none"
    /\ file = NoFile /\ dumped = <<>> /\ complete = FALSE
    /\ io = "none"

\* Bound: the list is not changed any more once it is dumped.  A call with an
\* undefined outcome is the last one.
MayCall == file = NoFile /\ outcome # "undefined"
MayChange == MayCall /\ Len(intervals) + Len(removed) < MaxHeld

Asks(what, answer) ==
    /\ request' = what /\ outcome' = answer
    /\ UNCHANGED <<kind, disk, io>>

Insert(op, s) ==
    \/ op = "add" /\ AddIntervals(s)
    \/ op = "remove" /\ RemoveIntervals(s)

------------------------------------------------------------------------------
(* ip_list_intervals and leeloo::ips_parser *)

\* add(str) and remove(str): a text that is refused changes nothing.
TextCall(text, op) ==
    LET answer == Parsed(text)
    IN  /\ kind = "ip" /\ MayChange
        /\ Asks(text, answer.outcome)
        /\ IF answer.outcome = "read" THEN Insert(op, Intervals(answer.ranges)) ELSE UNCHANGED vars

AddText(text) == TextCall(text, "add")
RemoveText(text) == TextCall(text, "remove")

\* leeloo-ip-ranges-rand: a dash before a range removes it.
Argument(text) ==
    IF text # <<>> /\ text[1] = Dash THEN RemoveText(Tail(text)) ELSE AddText(text)

\* add(a) and remove(a)
AddressCall(a, op) ==
    /\ kind = "ip" /\ MayChange
    /\ Asks(<<>>, "none")
    /\ IF a # Word - 1 THEN Insert(op, <<Itv(a, a + 1)>>) ELSE UNCHANGED vars

------------------------------------------------------------------------------
(* port_list_intervals *)

Ports(a, b, protocol) == Itv(Port(a, protocol), Port(b, protocol) + 1)

PortCall(a, b, protocol, op) ==
    /\ kind = "port" /\ MayChange
    /\ Asks(<<a, b, protocol>>, "read")
    /\ Insert(op, <<Ports(a, b, protocol)>>)

------------------------------------------------------------------------------

AggregateAll ==
    /\ MayCall /\ Aggregate
    /\ Asks(<<>>, "none")

\* Another object, or this one with another content, reads the file.
Refill(o) ==
    /\ file # NoFile /\ io = "none"
    /\ Replace(o)
    /\ io' = "refilled"
    /\ UNCHANGED <<kind, request, outcome, disk>>

\* The first n bytes reach the file.
Dump(by, bytes, n) ==
    /\ MayCall /\ Len(intervals) <= MaxHeld
    /\ n <= Len(bytes)
    /\ file' = [by |-> by, bytes |-> SubSeq(bytes, 1, n)]
    /\ dumped' = intervals /\ complete' = (n = Len(bytes))
    /\ request' = <<>> /\ outcome' = "none"
    /\ UNCHANGED <<vars, kind, io>>

\* dump_to_file(): the file is emptied when it is opened, and the write or the
\* program may end after any number of bytes.
DumpToFile(n) == Dump("dump_to_file", Memory(intervals), n)

\* dump_stream(), which does not look at the state of the stream.
DumpStream(n) == Dump("dump_stream", Streamed(intervals), n)

Loads(s, answer) ==
    /\ intervals' = s /\ removed' = <<>>
    /\ Calls("replace", Covered(s), 0)
    /\ io' = answer
    /\ UNCHANGED <<kind, request, outcome, disk>>

MayRead(by) == file.by = by /\ io \in {"none", "refilled"}

\* read_from_fd(): a size that is not a number of intervals is refused before the
\* list is cleared, ...
BadSize ==
    /\ MayRead("dump_to_file")
    /\ Len(file.bytes) % IntervalSize # 0
    /\ io' = "bad size"
    /\ UNCHANGED <<vars, kind, request, outcome, disk>>

\* A slip: intervals without values are accepted.
IsRefusedStrictly(i) == i.lower > i.upper

\* ... a read of fewer bytes and an interval without values after it.
IsRefused(i) == i.lower >= i.upper

ReadFile(n, garbage) ==
    LET size == Len(file.bytes)
        s == Filled(size \div IntervalSize, SubSeq(file.bytes, 1, n), garbage)
    IN  /\ MayRead("dump_to_file")
        /\ size % IntervalSize = 0
        /\ n <= size
        /\ Loads(s, IF n < size THEN "short"
                     ELSE IF \E k \in 1 .. Len(s) : IsRefused(s[k]) THEN "invalid"
                     ELSE "returned")

\* A slip: the byte after the count is skipped as if it were a separator.
StreamDataSkipped(bytes) == SubSeq(bytes, Leading(bytes) + 2, Len(bytes))

StreamData(bytes) == SubSeq(bytes, Leading(bytes) + 1, Len(bytes))

\* read_stream(): without a count the stream is bad and the list is empty.  What
\* is missing in the stream is not noticed.
ReadStream(garbage) ==
    LET count == Count(file.bytes)
    IN  /\ MayRead("dump_stream")
        /\ count <= MaxCount
        /\ Loads(Filled(count, StreamData(file.bytes), garbage), "returned")

\* Bound: most of the texts are given to a new list only.
IsNew == called.op = "construct" /\ outcome = "none"

Change ==
    \/ IsNew /\ \E w \in Documented : Argument(w.text)
    \/ IsNew /\ \E t \in Malformed, op \in {"add", "remove"} : TextCall(t, op)
    \/ \E t \in Lines : Argument(t)
    \/ \E a \in {0, Word - 1}, op \in {"add", "remove"} : AddressCall(a, op)
    \/ \E a, b \in {0, 1, PortRadix - 1}, p \in Protocols, op \in {"add", "remove"} :
         a <= b /\ PortCall(a, b, p, op)
    \/ AggregateAll

AddressNext ==
    \/ Change
    \/ \E o \in Others : Refill(o)
    \/ \E n \in 0 .. IntervalSize * MaxHeld + 2 : DumpToFile(n) \/ DumpStream(n)
    \/ BadSize
    \/ \E n \in 0 .. IntervalSize * MaxHeld, g \in Garbage : ReadFile(n, g)
    \/ \E g \in Garbage : ReadStream(g)

AddressSpec == AddressInit /\ [][AddressNext]_allVars

------------------------------------------------------------------------------
(* Properties. *)

\* What add() and remove() were asked to take is what they take, but for the last
\* address: all the documented ways to write a range name its addresses, and a
\* malformed text is refused and changes nothing.  A range of ports has the ports
\* of its protocol only.
JustAsked == called.op \in {"add", "remove"} /\ io = "none" /\ outcome = "read"
Requested ==
    IF kind = "ip" /\ outcome # "none" /\ file = NoFile
      THEN {w \in Documented : request = w.text}
      ELSE {}
Means(w) == outcome = "read" /\ (JustAsked => called.set = w.means \ {Word - 1})

DashAtTheEnd(t) == \E k \in Places(t, Dash) : \A d \in Places(t, Dot) : d < k
IsBlocks(t) == Cardinality(Places(t, Dash)) >= 2

RequestsAreMet ==
    /\ \A w \in Requested : (IsBlocks(w.text) => DashAtTheEnd(w.text)) => Means(w)
    /\ kind = "ip" /\ outcome # "none" /\ request \in Malformed => outcome = "refused"
    /\ kind = "port" /\ JustAsked =>
         called.set = {Port(v, request[3]) : v \in request[1] .. request[2]}

\* The usage text of leeloo-aggregate: every documented form is read.
DocumentedFormsAreRead == \A w \in Requested : Means(w)

\* What leeloo-aggregate prints is read back by the parser as the interval it was
\* printed for, when this is a block of addresses, an interval that starts at a
\* multiple of its width, or has the last upper bound and no width that is a power of
\* two.  (Any other width that is a power of two is printed as the prefix of a block
\* it is not, and any other upper bound is one too high.)
IsPower(n) == \E p \in 0 .. 4 * Bits : n = 2 ^ p
IsBlock(i) == IsPower(Width(i)) /\ i.lower % Width(i) = 0

PrintedIsReadBack ==
    kind = "ip" /\ called.op = "aggregate" /\ io = "none" =>
        \A k \in 1 .. Len(intervals) :
            IsBlock(intervals[k])
              \/ (intervals[k].upper = Word - 1 /\ ~IsPower(Width(intervals[k]))) =>
                LET line == Parsed(Displayed(intervals[k]))
                IN  line.outcome = "read" /\ Intervals(line.ranges) = <<intervals[k]>>

\* A read that returns gives the list that was dumped, or an initial part of it
\* when the dump was cut, and never another interval or one without values; a
\* complete dump is refused only for such an interval, or when less is read.
ReadBackIsDumped ==
    file.by = "dump_to_file" =>
        /\ io = "returned" => /\ IsPrefix(intervals, dumped) /\ removed = <<>>
                             /\ \A k \in 1 .. Len(intervals) : Width(intervals[k]) > 0
        /\ io = "returned" /\ complete => intervals = dumped
        /\ io = "invalid" => \E k \in 1 .. Len(dumped) : Width(dumped[k]) = 0
        /\ io = "bad size" => ~complete

\* A stream that was written completely gives the list back, unless the first
\* byte of its first interval is a digit.
StreamReadsBack ==
    file.by = "dump_stream" /\ complete /\ io = "returned" =>
        \/ intervals = dumped /\ removed = <<>>
        \/ dumped # <<>> /\ Byte(dumped[1].lower, 0) \in Range(Digits)
==============================================================================
