-------------------------------- MODULE UniSse --------------------------------
(****************************************************************************)
(* uni<__m128i, false> (uni.h): the permutation of Uni, Lanes numbers at a   *)
(* time.  The comparisons and the remainder of the vector instructions are  *)
(* signed, and the residues of a vector are computed for its even lanes,    *)
(* twice.                                                                   *)
(****************************************************************************)
EXTENDS Uni

CONSTANTS
    LaneWord,   \* the number of values of a lane, which is 32 bits whatever Integer is
    Lanes       \* the numbers in a vector, 4 in the code

ASSUME LanesAssumption ==
    /\ LaneWord \in Nat \ {0} /\ LaneWord % 2 = 0
    /\ Lanes \in Nat \ {0} /\ Lanes % 2 = 0

VARIABLES
    avx,        \* whether the build has __AVX__
    lanes,      \* _cur_pos
    calls,      \* history: how many vectors were drawn
    vectors     \* history: the vectors that were drawn, by their call

vectorVars == <<avx, lanes, calls, vectors>>

Lane == 0 .. Lanes - 1

\* _mm_cmpgt_epi32()
Signed(v) == IF v >= LaneWord \div 2 THEN v - LaneWord ELSE v
IsGreater(v, w) == Signed(v) > Signed(w)

\* _mm_urem_epi32(), whose remainder is signed too: rounded down where doubles are
\* divided (AVX), and that of the integers of C elsewhere.
SignedRem(v, m) ==
    LET s == Signed(v)
    IN  IF avx \/ s >= 0 THEN s % m ELSE (-((-s) % m)) % LaneWord

\* A slip: the mask of the even lanes stays in the even lanes.
ToOddUnmoved(v) == v

\* The two shuffles: an odd lane gets what its even neighbour holds, and the
\* other way round; the lanes that nobody reads get lane 0.
ToOdd(v) == [l \in Lane |-> IF l % 2 = 1 THEN v[l - 1] ELSE v[0]]
ToEven(v) == [l \in Lane |-> IF l % 2 = 0 THEN v[l + 1] ELSE v[0]]

\* The residue of a number that is, or is not, in the upper half below the prime.
HalfResidue(v, isUpper) ==
    LET prime == PreviousPrime(max)
        square == (v * v) % prime
    IN  IF isUpper THEN prime - square ELSE square

\* RESIDUE: the even lanes, with the comparison that is found in the upper half of
\* the product, an odd lane.
EvenResidues(v, upper) ==
    [l \in {k \in Lane : k % 2 = 0} |-> HalfResidue(v[l], upper[l + 1])]

\* residue(): one by one when a lane needs the table, with an unsigned comparison,
\* and otherwise in two halves.
Residues(v) ==
    LET prime == PreviousPrime(max)
        upper == [l \in Lane |-> IsGreater(v[l], prime \div 2)]
        even == EvenResidues(v, ToOdd(upper))
        odd == EvenResidues(ToEven(v), upper)
    IN  IF \E l \in Lane : IsGreater(v[l], prime - 1)
          THEN [l \in Lane |-> IF IsGreater(v[l], prime - 1) THEN shuffle[v[l]]
                               ELSE HalfResidue(v[l], v[l] > prime \div 2)]
          ELSE [l \in Lane |-> IF l % 2 = 0 THEN even[l] ELSE odd[l - 1]]

PermutedLanes(v) ==
    LET r == Residues(v)
    IN  Residues([l \in Lane |-> SignedRem((r[l] + off) % LaneWord, max)])

\* The positions n further on: one subtraction brings them back below max.
Advanced(v, n) ==
    [l \in Lane |->
        LET p == (v[l] + n) % LaneWord
        IN  IF IsGreater(p, max - 1) THEN p - max ELSE p]

\* get_step()
GetVectorStep(v, step) == PermutedLanes(Advanced(v, step * Lanes))

\* init()
InitLanes(position) == [l \in Lane |-> (position + l) % max]

VectorInit ==
    /\ avx \in BOOLEAN
    /\ lanes = InitLanes(cur_pos)
    /\ calls = 0 /\ vectors = {}

\* Bound: the sizes for which a position and the lanes after it are no negative
\* number, and for which one subtraction is enough.
FitsVector(n) == n >= Lanes /\ n - 1 + Lanes < LaneWord \div 2

\* operator()
DrawVector ==
    /\ FitsVector(max)
    /\ calls * Lanes < MaxRounds * max
    /\ vectors' = vectors \cup {[call |-> calls, values |-> PermutedLanes(lanes)]}
    /\ lanes' = Advanced(lanes, Lanes)
    /\ calls' = calls + 1
    /\ UNCHANGED <<vars, avx>>

------------------------------------------------------------------------------
(* Properties. *)

\* Lane by lane the vectors are the draws of the scalar generator with the same
\* state, through several cycles, and so is get_step() within the first cycle, in
\* both builds, as long as the sum of two numbers below the size is no negative
\* number (operator() and get_step() of uni<__m128i>).  For a larger size the signed
\* remainder is another one and the numbers of a cycle are not unique any more.
LanesAreDraws ==
    2 * max <= LaneWord \div 2 =>
        /\ \A d \in vectors : \A l \in Lane :
             d.values[l] = Permuted((start + d.call * Lanes + l) % max)
        /\ calls > 0 =>
             \A k \in 0 .. (max - 1) \div Lanes : \A l \in Lane :
               GetVectorStep(InitLanes(start), k)[l] = Permuted((start + k * Lanes + l) % max)
==============================================================================
