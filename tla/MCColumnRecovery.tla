--------------------------- MODULE MCColumnRecovery ---------------------------
(* Small instances of ColumnRecovery over the field of 17 elements, whose    *)
(* multiplicative group has the shift factor 5 as a generator, as 5 lies     *)
(* outside every evaluation domain of the real field too.                    *)
EXTENDS ColumnRecovery

\* The unit vectors, by linearity every column, and one of general position.
MCColumns ==
  UNION {{[i \in Indices(n) |-> IF i = unit THEN 1 ELSE 0] : unit \in Indices(n)}
           \cup {[i \in Indices(n) |-> (3 * i * i + 7 * i + 2) % Prime]}
         : n \in {1, 2, 4}}

===============================================================================
