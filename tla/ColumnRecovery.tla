---------------------------- MODULE ColumnRecovery ----------------------------
(***************************************************************************)
(* reconstruct_column (kate/recovery/src/com.rs): a caller hands over the  *)
(* cells it has of one extended column; the argument checks, the zero      *)
(* polynomial (one step per missing cell), the division on the shifted     *)
(* domain and the final transform follow.  Cells come from the network:    *)
(* some rows are missing, and some cells are defective - sent twice, of    *)
(* another column, or 32 bytes that are not a scalar.                      *)
(***************************************************************************)
EXTENDS ErasureCode, SequencesExt

CONSTANTS
  RowCounts,    \* extended columns of these lengths are tried
  Columns,      \* the data columns the author may have extended
  MaxDefects    \* how many defective cells a caller hands over

ASSUME ColumnAssumption ==
  /\ RowCounts \subseteq Nat \ {0} /\ MaxDefects \in Nat
  /\ \A column \in Columns : column \in [DOMAIN column -> Scalar]

VARIABLES
  pc,
  rowCount,
  column,       \* the author's data
  cells,        \* the slice handed over, in the order of rows
  defects,      \* how many of its cells are defective
  subset,       \* the scalars by row, None where there is none
  zeroPoly, rounds,  \* of zero_poly_fn
  product, divisor,  \* evaluations on the shifted domain
  result        \* [err, scalars]

input == << rowCount, column, cells, defects >>
vars == << pc, rowCount, column, cells, defects, subset, zeroPoly, rounds, product, divisor, result >>

Half == rowCount \div 2
FullSize == DomainSize(rowCount)

Cell(col, row, data) == [col |-> col, row |-> row, data |-> data]
Ok(scalars) == [err |-> "none", scalars |-> scalars]
Err(err) == [err |-> err, scalars |-> << >>]

\* What the author published for the column: its coded form.
Coded == Extend(FullSize \div 2, column)

Init ==
  /\ pc = "collect"
  /\ rowCount \in RowCounts
  /\ column \in {c \in Columns : DOMAIN c = Indices(DomainSize(rowCount) \div 2)}
  /\ cells = << >> /\ defects = 0
  /\ subset = << >> /\ zeroPoly = << >> /\ rounds = 0
  /\ product = << >> /\ divisor = << >>
  /\ result = Err("none")

\* The caller adds a cell.  Rows come in order: reconstruct_column looks cells
\* up by row, so their order does not matter to it.
Supply(row, isScalar, col) ==
  /\ pc = "collect"
  /\ Len(cells) <= rowCount
  /\ \A k \in DOMAIN cells : cells[k].row <= row
  /\ LET bad == col # 0 \/ ~isScalar \/ \E k \in DOMAIN cells : cells[k].row = row
     IN  defects' = defects + (IF bad THEN 1 ELSE 0)
  /\ defects' <= MaxDefects
  /\ cells' = Append(cells, Cell(col, row, IF isScalar THEN Coded[row] ELSE None))
  /\ UNCHANGED << pc, rowCount, column, subset, zeroPoly, rounds, product, divisor, result >>

CheckCells == cells # << >> /\ \A k \in DOMAIN cells : cells[k].col = cells[1].col

ArgumentError ==
  IF rowCount % 2 # 0 THEN "InvalidRowCount"
  ELSE IF Len(cells) < Half THEN "MinCells"
  ELSE IF Len(cells) > rowCount THEN "MaxCells"
  ELSE IF ~CheckCells THEN "CellsFromDifferentCols"
  ELSE "none"

\* find_row_by_index: the first cell of the row, if it is a scalar.
FindRowByIndex(row) ==
  LET k == SelectInSeq(cells, LAMBDA cell : cell.row = row)
  IN  IF k = 0 THEN None ELSE cells[k].data

Check ==
  /\ pc = "collect"
  /\ ArgumentError = "none"
  /\ subset' = [row \in Indices(rowCount) |-> FindRowByIndex(row)]
  /\ pc' = "zero"
  /\ UNCHANGED << input, zeroPoly, rounds, product, divisor, result >>

Reject ==
  /\ pc = "collect"
  /\ ArgumentError # "none"
  /\ result' = Err(ArgumentError)
  /\ pc' = "done"
  /\ UNCHANGED << input, subset, zeroPoly, rounds, product, divisor >>

\* missing_indices
Missing == {row \in Indices(rowCount) : subset[row] = None}

ZeroRound ==
  /\ pc = "zero" /\ rounds < Cardinality(Missing)
  /\ zeroPoly' = TimesRoot(zeroPoly, rounds, MinusRoot(Nth(Missing, rounds), FullSize, rowCount))
  /\ rounds' = rounds + 1
  /\ UNCHANGED << pc, input, subset, product, divisor, result >>

ZeroEval == Fft(Completed(zeroPoly, rounds, rowCount), FullSize)

BadZero == \E row \in Indices(rowCount) : subset[row] = None /\ ZeroEval[row] # 0

\* Mutant: the division happens on the domain itself.
Multiply_Unshifted ==
  /\ pc = "zero" /\ rounds = Cardinality(Missing) /\ ~BadZero
  /\ product' = Fft(Ifft(PolyEvalsWithZero(subset, ZeroEval), FullSize), FullSize)
  /\ divisor' = ZeroEval
  /\ pc' = "divide"
  /\ UNCHANGED << input, subset, zeroPoly, rounds, result >>

Multiply ==
  /\ pc = "zero" /\ rounds = Cardinality(Missing) /\ ~BadZero
  /\ product' = ShiftedEvals(Ifft(PolyEvalsWithZero(subset, ZeroEval), FullSize), FullSize)
  /\ divisor' = ShiftedEvals(Completed(zeroPoly, rounds, rowCount), FullSize)
  /\ pc' = "divide"
  /\ UNCHANGED << input, subset, zeroPoly, rounds, result >>

FailZero ==
  /\ pc = "zero" /\ rounds = Cardinality(Missing) /\ BadZero
  /\ result' = Err("BadZeroPoly")
  /\ pc' = "done"
  /\ UNCHANGED << input, subset, zeroPoly, rounds, product, divisor >>

Divide ==
  /\ pc = "divide"
  /\ result' = IF \E i \in DOMAIN divisor : divisor[i] = 0
                 THEN Err("BadZeroPoly")
                 ELSE Ok(DataFrom(Quotient(product, divisor), FullSize))
  /\ pc' = "done"
  /\ UNCHANGED << input, subset, zeroPoly, rounds, product, divisor >>

Next ==
  \/ \E row \in Indices(rowCount), isScalar \in BOOLEAN, col \in {0, 1} :
       Supply(row, isScalar, col)
  \/ Check \/ Reject \/ ZeroRound \/ Multiply \/ FailZero \/ Divide

Spec == Init /\ [][Next]_vars

-------------------------------------------------------------------------------
\* Properties.

\* The rows for which a scalar is found.
Usable == {row \in Indices(rowCount) : FindRowByIndex(row) # None}
Done == pc = "done"
Succeeded == Done /\ result.err = "none"

\* shift_poly moves the domain off the zeros: the division never meets one.
ShiftedDivisorHasNoZero ==
  pc = "divide" => \A i \in DOMAIN divisor : divisor[i] # 0

\* Whichever half of an extended column arrives as scalars, the author's column
\* comes back; cells beyond the half, also defective ones, change nothing.  A
\* slice of one column with that half is refused for one reason only: it has
\* more cells than the column.
AnyHalfSuffices ==
  Done /\ Cardinality(Usable) >= Half =>
    /\ Succeeded => result.scalars = column
    /\ CheckCells /\ Len(cells) <= rowCount => Succeeded

\* "row count of data matrix must be power of two" (kate/recovery/src/com.rs:567):
\* no column is reconstructed for another row count.
RowCountIsPowerOfTwo == Succeeded => rowCount = DomainSize(rowCount)

===============================================================================
