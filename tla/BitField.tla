------------------------------- MODULE BitField -------------------------------
(****************************************************************************)
(* bit_field (bit_field.h): a vector of bits in chunks, that grows when a   *)
(* bit past its end is set or cleared, and the references to single bits    *)
(* that an iterator moves.  A bit_field is the sequence of the bits of its  *)
(* buffer; the bits of a new chunk hold anything.                           *)
(****************************************************************************)
EXTENDS Integers, Sequences

CONSTANTS
    BitsPerChunk,   \* 64 in the code
    GrowBy,         \* the chunks added when the buffer grows, 64 in the code
    Garbage         \* the value of a bit that was never written

ASSUME BitFieldAssumption ==
    /\ BitsPerChunk \in Nat \ {0} /\ GrowBy \in Nat \ {0}
    /\ Garbage \notin BOOLEAN

NoBits == <<>>

Chunks(bits) == Len(bits) \div BitsPerChunk
ChunkCount(nbits) == (nbits + BitsPerChunk - 1) \div BitsPerChunk

\* reserve(): nothing is allocated for the first bits, and at least GrowBy chunks
\* when a buffer grows.  What was in the buffer is copied.
Reserve(bits, nbits) ==
    LET required == ChunkCount(nbits)
        grown == IF Chunks(bits) + GrowBy > required THEN Chunks(bits) + GrowBy ELSE required
        chunks == IF bits = NoBits THEN required ELSE grown
    IN  IF required <= Chunks(bits) THEN bits
        ELSE bits \o [k \in 1 .. (chunks - Chunks(bits)) * BitsPerChunk |-> Garbage]

\* set_bit() and clear_bit(), for the bit idx from 0 on.
WriteBit(bits, idx, v) == [Reserve(bits, idx + 1) EXCEPT ![idx + 1] = v]
SetBit(bits, idx) == WriteBit(bits, idx, TRUE)
ClearBit(bits, idx) == WriteBit(bits, idx, FALSE)

GetBitFast(bits, idx) == bits[idx + 1]

------------------------------------------------------------------------------
(* bit_reference: a chunk and a bit of it. *)

BeginBits == [chunk |-> 0, bit |-> 0]

\* advance(): the quotient of the distance is cut towards zero.
Advance(ref, n) ==
    LET chunk == ref.chunk + IF n < 0 THEN -((-n) \div BitsPerChunk) ELSE n \div BitsPerChunk
        bit == IF n < 0 THEN ref.bit - ((-n) % BitsPerChunk) ELSE ref.bit + (n % BitsPerChunk)
    IN  IF bit >= BitsPerChunk THEN [chunk |-> chunk + 1, bit |-> bit - BitsPerChunk]
        ELSE IF bit < 0 THEN [chunk |-> chunk - 1, bit |-> bit + BitsPerChunk]
        ELSE [chunk |-> chunk, bit |-> bit]

Index(ref) == ref.chunk * BitsPerChunk + ref.bit

\* A slip: the second bit is set from the first one after that was set.
SwapBitsAliased(bits, a, b) ==
    LET j == Index(b) + 1
    IN  [bits EXCEPT ![Index(a) + 1] = bits[j], ![j] = bits[j]]

\* swap() of two bit_values.
SwapBits(bits, a, b) ==
    LET i == Index(a) + 1
        j == Index(b) + 1
    IN  [bits EXCEPT ![i] = bits[j], ![j] = bits[i]]
==============================================================================
