------------------------------- MODULE AppIndex -------------------------------
(***************************************************************************)
(* Which cells and rows of the extended matrix an application touches      *)
(* (kate/recovery/src/com.rs).                                             *)
(***************************************************************************)
EXTENDS DataLookup, Matrix

Indices(n) == 0 .. (n - 1)

AppSpecificCells(lookup, matrix, id) ==
  LET range == RangeOf(lookup, id)
  IN  IF range = NoRange THEN {} ELSE ExtendedDataPositions(matrix, range.start, range.end)

AppSpecificRows(lookup, matrix, id) ==
  LET range == RangeOf(lookup, id)
  IN  IF range = NoRange THEN {} ELSE ExtendedDataRows(matrix, range.start, range.end)

===============================================================================
