------------------------------ MODULE Partitions ------------------------------
(***************************************************************************)
(* How a fleet of light clients shares a matrix: client number i of        *)
(* fraction samples the i-th of as many slices of its cells, in row order  *)
(* (iter_extended_partition_positions and iter_mcell_partition_positions,  *)
(* kate/recovery/src/matrix.rs).  The bounds of a slice are computed in    *)
(* floating point: a float << m, e >> is m / 2^e, and after a division or  *)
(* a multiplication m is rounded to Precision bits, to the nearest and, of *)
(* two, to the even one.                                                   *)
(***************************************************************************)
EXTENDS Matrix

CONSTANT Precision   \* bits of a mantissa, 53 in the code

ASSUME PrecisionAssumption == Precision \in Nat \ {0}

TwoTo(n) ==
  LET power[k \in 0 .. n] == IF k = 0 THEN 1 ELSE 2 * power[k - 1]
  IN  power[n]

RoundedDiv(n, d) ==
  LET q == n \div d
      r == n % d
  IN  IF 2 * r > d \/ (2 * r = d /\ q % 2 = 1) THEN q + 1 ELSE q

FloatDiv(a, b) ==
  LET e == CHOOSE e \in 0 .. 2 * Precision :
             a * TwoTo(e) >= b * TwoTo(Precision - 1) /\ a * TwoTo(e) < b * TwoTo(Precision)
  IN  << RoundedDiv(a * TwoTo(e), b), e >>

\* The product with a natural number, 0 or one the mantissa holds.
FloatMul(float, n) ==
  LET s == CHOOSE s \in 0 .. Precision :
             /\ float[1] * n < TwoTo(Precision + s)
             /\ s > 0 => float[1] * n >= TwoTo(Precision + s - 1)
  IN  << RoundedDiv(float[1] * n, TwoTo(s)), float[2] - s >>

Floor(float) == IF float[2] < 0 THEN float[1] * TwoTo(-float[2]) ELSE float[1] \div TwoTo(float[2])
Ceil(float) == IF float[2] < 0 THEN Floor(float) ELSE -((-float[1]) \div TwoTo(float[2]))

SliceStart(size, number, fraction) == Floor(FloatMul(FloatDiv(size, fraction), number - 1))

\* Mutant: the end of a slice is rounded down.
SliceEnd_Floor(size, number, fraction) == Floor(FloatMul(FloatDiv(size, fraction), number))

SliceEnd(size, number, fraction) == Ceil(FloatMul(FloatDiv(size, fraction), number))

\* The positions of a slice of a matrix of size cells, row by row.
SlicePositions(dims, size, number, fraction) ==
  LET start == SliceStart(size, number, fraction)
      end == SliceEnd(size, number, fraction)
  IN  [k \in 1 .. (end - start) |->
         Position((start + k - 1) \div dims.cols, (start + k - 1) % dims.cols)]

ExtendedSize(dims) == ExtendedRows(dims) * dims.cols

ExtendedPartitionPositions(dims, number, fraction) ==
  SlicePositions(dims, ExtendedSize(dims), number, fraction)

McellPartitionPositions(dims, number, fraction) ==
  SlicePositions(dims, Size(dims), number, fraction)

===============================================================================
