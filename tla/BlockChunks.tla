------------------------------ MODULE BlockChunks ------------------------------
(***************************************************************************)
(* What both generators of a block need (kate/src): the encoding of the    *)
(* extrinsics of one application, its cutting into chunks, and powers of   *)
(* two.  Bytes are natural numbers; an extrinsic is shorter than 64 bytes, *)
(* so SCALE writes each length in one byte.                                *)
(***************************************************************************)
EXTENDS DataLookup, SequencesExt, FiniteSetsExt

CONSTANTS
  DATA_CHUNK_SIZE,  \* bytes of data in a cell, 31 in the code
  SCALAR_SIZE,      \* bytes of a cell, 32 in the code
  MaxExponent       \* largest power of two considered

ASSUME ChunkAssumption ==
  /\ {DATA_CHUNK_SIZE, SCALAR_SIZE, MaxExponent} \subseteq Nat \ {0}
  /\ DATA_CHUNK_SIZE <= SCALAR_SIZE

\* The extrinsics of an application, of the first k ones, in their order.
OfUpTo(xts, app) ==
  LET own[k \in 0 .. Len(xts)] ==
        IF k = 0 THEN << >> ELSE IF xts[k].app = app THEN Append(own[k - 1], xts[k]) ELSE own[k - 1]
  IN  own

Of(xts, app) == OfUpTo(xts, app)[Len(xts)]

\* The numbers of a set in their order.
Ascending(numbers) ==
  CHOOSE s \in [1 .. Cardinality(numbers) -> numbers] :
    \A j, k \in DOMAIN s : j < k => s[j] < s[k]

CeilDiv(a, b) == (a + b - 1) \div b
Zeroes(n) == [k \in 1 .. n |-> 0]

\* Vec<Vec<u8>>::encode: how many, then each with its length.
Encode(opaques) ==
  << Len(opaques) >> \o
  FlattenSeq([k \in DOMAIN opaques |-> << Len(opaques[k]) >> \o opaques[k]])

\* slice::chunks, the last of which may be shorter.
Pieces(bytes, size) ==
  [k \in 1 .. CeilDiv(Len(bytes), size) |->
     SubSeq(bytes, (k - 1) * size + 1, Min({k * size, Len(bytes)}))]

PadWithZeroes(bytes, size) == bytes \o Zeroes(size - Len(bytes))

\* sums[k] is the sum of the first k of some lengths.
Sums(lens) ==
  LET sums[k \in 0 .. Len(lens)] == IF k = 0 THEN 0 ELSE sums[k - 1] + lens[k]
  IN  sums

TwoTo[k \in 0 .. MaxExponent] == IF k = 0 THEN 1 ELSE 2 * TwoTo[k - 1]
Powers == {TwoTo[k] : k \in 0 .. MaxExponent}
IsPowerOfTwo(n) == n \in Powers
NextPowerOfTwo(n) == Min({power \in Powers : power >= n})

===============================================================================
