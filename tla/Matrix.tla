-------------------------------- MODULE Matrix --------------------------------
(***************************************************************************)
(* Indexing of the extended data matrix (kate/recovery/src/matrix.rs).     *)
(* Cells of the data matrix are numbered row by row; in the extended       *)
(* matrix data rows are the even ones, erasure codes the odd ones.         *)
(* Dimensions are those of the data matrix.                                *)
(***************************************************************************)
EXTENDS Integers, Sequences

Dimensions(rows, cols) == [rows |-> rows, cols |-> cols]
Position(row, col) == [row |-> row, col |-> col]

EXTENSION_FACTOR == 2

Size(dims) == dims.rows * dims.cols
ExtendedRows(dims) == dims.rows * EXTENSION_FACTOR

Col(dims, cell) == cell % dims.cols
ExtendedDataRow(dims, cell) == (cell \div dims.cols) * EXTENSION_FACTOR

ExtendedDataPosition(dims, cell) ==
  Position(ExtendedDataRow(dims, cell), Col(dims, cell))

\* The vectors extended_data_positions and extended_data_rows return, as the
\* sets of their members; where the code returns None they are empty, as
\* app_specific_cells' and app_specific_rows' callers take it.  A range whose
\* start lies behind its end has no members.

ExtendedDataPositions(dims, start, end) ==
  IF end <= Size(dims)
    THEN {ExtendedDataPosition(dims, cell) : cell \in start .. (end - 1)}
    ELSE {}

\* Mutant: the last row is computed from the end of the range.
ExtendedDataRows_EndRow(dims, start, end) ==
  IF end > Size(dims) \/ end = 0
    THEN {}
    ELSE {row \in ExtendedDataRow(dims, start) .. ExtendedDataRow(dims, end) :
            row % EXTENSION_FACTOR = 0}

ExtendedDataRows(dims, start, end) ==
  IF end > Size(dims) \/ end = 0
    THEN {}
    ELSE {row \in ExtendedDataRow(dims, start) .. ExtendedDataRow(dims, end - 1) :
            row % EXTENSION_FACTOR = 0}

ExtendedContains(dims, position) ==
  /\ position.row < ExtendedRows(dims)
  /\ position.col < dims.cols

\* iter_data and iter_extended_data_positions yield cell k of the data matrix
\* as their k-th item, in the same order.
DataRow(dims, k) == k \div dims.cols

===============================================================================
