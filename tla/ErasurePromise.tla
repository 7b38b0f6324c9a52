---------------------------- MODULE ErasurePromise ----------------------------
(***************************************************************************)
(* What the recovery of a block needs to know of the erasure code of one   *)
(* column (kate/recovery/src/com.rs, reconstruct_column).  Recovery is     *)
(* written for any code that keeps this promise; ErasureTheorems proves    *)
(* that the program's does.                                                *)
(***************************************************************************)
EXTENDS Matrix, FiniteSets

CONSTANTS
  ExtendColumn(_, _), \* the coded form of a column of that many rows
  Reconstruct(_, _)   \* reconstruct_column: row count and cells by row

ErasureContract(rows, columns) ==
  \A column \in columns :
    LET coded == ExtendColumn(rows, column)
    IN  /\ \A row \in 0 .. (rows - 1) : coded[EXTENSION_FACTOR * row] = column[row]
        /\ \A given \in SUBSET (0 .. (EXTENSION_FACTOR * rows - 1)) :
             Cardinality(given) >= rows =>
               Reconstruct(EXTENSION_FACTOR * rows, [row \in given |-> coded[row]])
                 = [err |-> "none", scalars |-> column]

===============================================================================
