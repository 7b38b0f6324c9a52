------------------------------ MODULE ErasureCode ------------------------------
(***************************************************************************)
(* The erasure code of one column: how the author extends it               *)
(* (kate/src/com.rs, par_extend_data_matrix) and how reconstruct_poly      *)
(* (kate/recovery/src/com.rs) gets it back from any half of its cells.     *)
(* Scalars are the elements of a prime field that has, like the field of   *)
(* BLS12-381, roots of unity of the orders the columns need.  A vector is  *)
(* a function on 0 .. n - 1; a cell that is missing or is not a scalar is  *)
(* None.                                                                   *)
(***************************************************************************)
EXTENDS Integers, FiniteSets, Sequences

CONSTANTS
  Prime,      \* the order of the field
  Generator   \* a generator of its multiplicative group

ASSUME FieldAssumption ==
  /\ Prime \in Nat /\ Prime > 5
  /\ Generator \in 1 .. (Prime - 1)
  /\ \A a \in 1 .. (Prime - 1) : \E b \in 1 .. (Prime - 1) : (a * b) % Prime = 1

Scalar == 0 .. (Prime - 1)
None == -1

Indices(n) == 0 .. (n - 1)

-------------------------------------------------------------------------------
\* The evaluation domains of the arkworks library.

InverseOf == [a \in 1 .. (Prime - 1) |->
              CHOOSE b \in 1 .. (Prime - 1) : (a * b) % Prime = 1]

Power(x, n) ==
  LET power[i \in 0 .. n] == IF i = 0 THEN 1 ELSE (power[i - 1] * x) % Prime
  IN  power[n]

ASSUME GeneratorAssumption ==
  /\ Power(Generator, Prime - 1) = 1
  /\ \A k \in 1 .. (Prime - 2) : Power(Generator, k) # 1

\* EvaluationDomain::new rounds its argument up to a power of two.
DomainSize(n) ==
  CHOOSE size \in {2^k : k \in 0 .. n} :
    /\ size >= n
    /\ \A k \in 0 .. n : 2^k >= n => size <= 2^k

GroupGen(size) == Power(Generator, (Prime - 1) \div size)

Resize(vec, n) == [i \in Indices(n) |-> IF i \in DOMAIN vec THEN vec[i] ELSE 0]

\* The value at x of the polynomial with the given n coefficients.
Eval(coeffs, n, x) ==
  LET horner[j \in 0 .. n] ==
        IF j = 0 THEN 0 ELSE (horner[j - 1] * x + coeffs[n - j]) % Prime
  IN  horner[n]

\* fft and ifft resize their input to the domain, truncating a longer one.
Fft(coeffs, size) ==
  [i \in Indices(size) |->
     Eval(Resize(coeffs, size), size, Power(GroupGen(size), i))]

Ifft(evals, size) ==
  [i \in Indices(size) |->
     (InverseOf[size % Prime]
        * Eval(Resize(evals, size), size, Power(InverseOf[GroupGen(size)], i))) % Prime]

-------------------------------------------------------------------------------
\* The author's side: data lands in the even rows, codes in the odd ones.
Extend(rows, column) == Fft(Ifft(column, rows), 2 * rows)

-------------------------------------------------------------------------------
\* The stages of reconstruct_poly.

\* missing_indices[k]: the rows in ascending order, counted from 0.
Nth(rows, k) == CHOOSE row \in rows : Cardinality({other \in rows : other < row}) = k

\* One round of zero_poly_fn: the monic polynomial with the i coefficients
\* zero below its leading 1 is multiplied by (x + sub).
TimesRoot(zero, i, sub) ==
  [j \in 0 .. i |->
     ((IF j = i THEN 1 ELSE zero[j]) * sub + (IF j = 0 THEN 0 ELSE zero[j - 1])) % Prime]

\* 0 - expanded_r_o_u[index * domain_stride]
MinusRoot(index, size, length) ==
  (Prime - Power(GroupGen(size), index * (size \div length))) % Prime

\* The leading 1 and the zeros up to the capacity.
Completed(zero, i, length) ==
  [j \in 0 .. (IF i < length THEN length - 1 ELSE i) |->
     IF j < i THEN zero[j] ELSE IF j = i THEN 1 ELSE 0]

PolyEvalsWithZero(subset, zeroEval) ==
  [i \in DOMAIN subset |->
     IF subset[i] = None THEN 0 ELSE (subset[i] * zeroEval[i]) % Prime]

ShiftFactor == 5

ShiftPoly(poly) ==
  [i \in DOMAIN poly |-> (poly[i] * Power(InverseOf[ShiftFactor % Prime], i)) % Prime]

\* Mutant: the shift is applied a second time instead of being undone.
UnshiftPoly_Again(poly) == ShiftPoly(poly)

UnshiftPoly(poly) ==
  [i \in DOMAIN poly |-> (poly[i] * Power(ShiftFactor, i)) % Prime]

\* The evaluations on the shifted domain, the pointwise quotient of two of
\* them, and the data it interpolates.
ShiftedEvals(poly, size) == Fft(ShiftPoly(poly), size)

Quotient(product, zero) ==
  [i \in DOMAIN product |-> (product[i] * InverseOf[zero[i]]) % Prime]

DataFrom(quotient, size) ==
  Fft(UnshiftPoly(Ifft(quotient, size)), size \div 2)

\* All of reconstruct_poly for a subset of the given length on the domain of
\* the given size.
ReconstructPoly(size, length, subset) ==
  LET missing == {i \in Indices(length) : subset[i] = None}
      rounds == Cardinality(missing)
      zero[i \in 0 .. rounds] ==
        IF i = 0
          THEN << >>
          ELSE TimesRoot(zero[i - 1], i - 1, MinusRoot(Nth(missing, i - 1), size, length))
      zeroPoly == Completed(zero[rounds], rounds, length)
      zeroEval == Fft(zeroPoly, size)
      product == ShiftedEvals(Ifft(PolyEvalsWithZero(subset, zeroEval), size), size)
      divisor == ShiftedEvals(zeroPoly, size)
  IN  IF \/ \E i \in DOMAIN subset : subset[i] = None /\ zeroEval[i] # 0
         \/ \E i \in DOMAIN divisor : divisor[i] = 0
        THEN [err |-> "BadZeroPoly", scalars |-> << >>]
        ELSE [err |-> "none", scalars |-> DataFrom(Quotient(product, divisor), size)]

===============================================================================
