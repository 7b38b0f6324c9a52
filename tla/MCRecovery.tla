------------------------------ MODULE MCRecovery ------------------------------
(* Small instances of Recovery, with the erasure code of the program over a  *)
(* field of 17 elements.                                                     *)
EXTENDS Recovery

CONSTANTS
  DimsSet,    \* dimensions of the blocks
  AppIds,     \* applications of the blocks
  MaxApps,    \* how many of them a block has at most
  Paddings,   \* symbols in the cells behind the data
  Ops,        \* operations asked for
  Ids         \* applications asked for

Code == INSTANCE ErasureCode WITH Prime <- 17, Generator <- 3

MCSymbol == 0 .. 16
MCExtend(rows, column) == Code!Extend(rows, column)

MCReconstruct(rowCount, cells) ==
  Code!ReconstructPoly(rowCount, rowCount,
    [row \in Indices(rowCount) |-> IF row \in DOMAIN cells THEN cells[row] ELSE Code!None])

D(rows, cols) == Dimensions(rows, cols)
MCDims == {D(2, 2), D(2, 1), D(1, 3)}

\* Lookups that tile a prefix of the matrix.
Layouts(matrix) ==
  LET ends == 0 .. Size(matrix)
  IN  {layout \in BoundedSeq([id : AppIds, start : ends, end : ends], MaxApps) :
         \A k \in DOMAIN layout :
           /\ layout[k].start < layout[k].end
           /\ layout[k].start = IF k = 1 THEN 0 ELSE layout[k - 1].end
           /\ k > 1 => layout[k - 1].id < layout[k].id}

\* Cell k holds 9 + k, unless an encoding begins there or nobody wrote it.
Chunks(matrix, layout, padding) ==
  [cell \in Indices(Size(matrix)) |->
     LET owner == {k \in DOMAIN layout : cell >= layout[k].start /\ cell < layout[k].end}
     IN  IF owner = {} THEN padding
         ELSE LET k == CHOOSE k \in owner : TRUE
              IN  IF cell = layout[k].start THEN layout[k].end - layout[k].start ELSE 9 + cell]

HonestBlocks ==
  UNION {{[dims |-> matrix, index |-> layout, lookup |-> Received(layout),
           chunks |-> Chunks(matrix, layout, padding)]
          : layout \in Layouts(matrix), padding \in Paddings}
         : matrix \in DimsSet}

\* Headers try_from accepts although no author wrote them: starts that go back,
\* and a size beyond the matrix.
ForeignLookups ==
  { << Entry(0, 0, 2), Entry(1, 2, 1), Entry(2, 1, 2) >>,
    << Entry(0, 0, 1), Entry(1, 1, 5) >> }

ForeignBlocks ==
  {[dims |-> D(2, 1), index |-> << >>, lookup |-> lookup,
    chunks |-> [cell \in 0 .. 1 |-> 1]] : lookup \in ForeignLookups}

Ask(blocks) ==
  [op : Ops, id : Ids, block : blocks]

\* The operations on whole blocks are asked for once.
MCRequests ==
  {r \in Ask(HonestBlocks \cup ForeignBlocks) :
     r.op \in {"all", "columns"} => r.id = CHOOSE id \in Ids : TRUE}

===============================================================================
