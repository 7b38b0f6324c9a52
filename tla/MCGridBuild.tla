------------------------------ MODULE MCGridBuild ------------------------------
(* Small instances of both generators: every byte of every extrinsic differs. *)
EXTENDS GridBuild

CONSTANTS MaxXts, Ids, Lengths, LargestDims, Bounds, Factors, Origs

\* Largest matrices: squares and not; no powers of two; beyond u16 when extended
\* or at once; and beyond u32.
MCDims == {<< 1, 1 >>, << 1, 4 >>, << 2, 2 >>, << 4, 2 >>, << 1, 8 >>, << 3, 2 >>,
           << 2, 3 >>, << 8, 1 >>, << 1, 16 >>, << 16, 8 >>}

\* Bounds of the grid: minimal width, maximal width, maximal height.
MCBounds ==
  {<< 2, 4, 2 >>, << 1, 2, 4 >>, << 2, 2, 1 >>, << 1, 1, 8 >>, << 4, 8, 1 >>,
   << 1, 0, 4 >>, << 16, 8, 2 >>, << 1, 16, 1 >>, << 1, 3, 4 >>}

\* None; what grids may have had before they were extended; and no divisor.
MCOrigs ==
  {Dimensions(0, 0), Dimensions(1, 1), Dimensions(1, 2), Dimensions(1, 4),
   Dimensions(2, 2), Dimensions(4, 2), Dimensions(2, 4), Dimensions(3, 3)}

Data(k, len) == [i \in 1 .. len |-> 10 * k + i]

Shape(shape) ==
  [k \in DOMAIN shape |-> [app |-> shape[k][1], data |-> Data(k, shape[k][2])]]

\* All blocks of up to MaxXts extrinsics, and one that overflows U32Max.
Blocks ==
  {Shape(shape) : shape \in BoundedSeq(Ids \X Lengths, MaxXts)} \cup {Shape(<< << 1, 50 >> >>)}

MinWidth == MINIMUM_BLOCK_SIZE \div CHUNK_SIZE

\* The same bounds for both.
Alike ==
  {[xts |-> block, maxRows |-> max[1], maxCols |-> max[2], full |-> full,
    minWidth |-> MinWidth, maxWidth |-> max[2], maxHeight |-> max[1],
    factor |-> EXTENSION_FACTOR, id |-> 1, orig |-> Dimensions(0, 0)]
   : block \in Blocks, max \in LargestDims, full \in BOOLEAN}

\* Other bounds for the grid, and all that app_rows may be asked.
Varied ==
  {[xts |-> block, maxRows |-> 1, maxCols |-> 3, full |-> FALSE,
    minWidth |-> bound[1], maxWidth |-> bound[2], maxHeight |-> bound[3],
    factor |-> factor, id |-> id, orig |-> orig]
   : block \in {known \in Blocks : Len(known) <= 2}, bound \in Bounds, factor \in Factors, id \in {1, 3}, orig \in Origs}

MCRequests == Alike \cup Varied

===============================================================================
