----------------------------- MODULE MCBuildProof -----------------------------
(* Small instances of BuildProof: every element of a matrix is different, so  *)
(* that a wrong row, column or slot shows.                                    *)
EXTENDS BuildProof

CONSTANTS MaxCells, DimsSet

MCDims == {<< 1, 2 >>, << 2, 2 >>, << 0, 2 >>, << 4, 2 >>}

\* One row and one column more than there are.
Cells(rows, cols) ==
  [row : {0, ROW_EXTENSION * rows - 1, ROW_EXTENSION * rows} \cap Nat,
   col : {0, cols - 1, cols} \cap Nat]

Request(rows, cols, cells) ==
  [rows |-> rows, cols |-> cols, cells |-> cells,
   matrix |-> [k \in 0 .. (ROW_EXTENSION * rows * cols - 1) |-> k]]

\* All sequences of up to MaxCells cells, and one of three cells of which the
\* middle one is out of range.
MCRequests ==
  UNION {{Request(dims[1], dims[2], cells)
          : cells \in BoundedSeq(Cells(dims[1], dims[2]), MaxCells)}
         : dims \in DimsSet}
  \cup
  {Request(1, 2, << [row |-> 0, col |-> 0], [row |-> 2, col |-> 0], [row |-> 1, col |-> 1] >>)}

===============================================================================
