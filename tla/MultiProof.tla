------------------------------ MODULE MultiProof ------------------------------
(***************************************************************************)
(* Proofs of single cells and of blocks of cells: the polynomial grid of a *)
(* node (kate/src/gridgen/core.rs), the bytes a cell travels as            *)
(* (kate/recovery/src/data.rs) and its verification (proof.rs there).      *)
(*                                                                         *)
(* A row is the polynomial that takes the row's values at the points of    *)
(* the domain; its commitment is ideal and homomorphic: it is the vector   *)
(* of its coefficients.  An opening is known by its number among all that  *)
(* were ever made, and verifies for what it opened if that is true.  A     *)
(* byte string is a sequence of numbers: a proof, a field of a block, a    *)
(* count and a limb of a scalar take one each.                             *)
(***************************************************************************)
EXTENDS Matrix, ErasureCode, SequencesExt, FiniteSetsExt

-------------------------------------------------------------------------------
\* The blocks of a grid that one proof covers.

NoDims == Dimensions(0, 0)
NoBlock == [start_x |-> 0, start_y |-> 0, end_x |-> 0, end_y |-> 0]

MultiproofDims(grid, target) ==
  LET cols == Min({grid.cols, target.cols})
      rows == Min({grid.rows, target.rows})
  IN  IF grid.cols % cols # 0 \/ grid.rows % rows # 0 THEN NoDims ELSE Dimensions(rows, cols)

MultiproofBlock(x, y, grid, target) ==
  LET mp == MultiproofDims(grid, target)
      width == grid.cols \div mp.cols
      height == grid.rows \div mp.rows
  IN  IF mp = NoDims \/ x >= mp.cols \/ y >= mp.rows THEN NoBlock
      ELSE [start_x |-> x * width, start_y |-> y * height,
            end_x |-> (x + 1) * width, end_y |-> (y + 1) * height]

-------------------------------------------------------------------------------
\* The polynomial grid of a grid of values, evals[y][x].

Domain(cols) == DomainSize(cols)
DomainPoints(n) ==
  [x \in Indices(Domain(n)) |-> Power(GroupGen(Domain(n)), x)]

MakePolynomialGrid(dims, evals) ==
  [dims |-> dims, points |-> DomainPoints(dims.cols),
   inner |-> [y \in Indices(dims.rows) |-> Ifft(evals[y], Domain(dims.cols))]]

Commitments(polys) == [y \in Indices(polys.dims.rows) |-> polys.inner[y]]

\* Mutant: the commitments are repeated, not extended.
ExtendedCommitments_Repeated(polys, factor) ==
  [y \in Indices(factor * polys.dims.rows) |-> polys.inner[y \div factor]]

\* Committing, then fft-ing the commitments.
ExtendedCommitments(polys, factor) ==
  LET rows == polys.dims.rows
      coefficient(k) == Fft(Ifft([y \in Indices(rows) |-> polys.inner[y][k]], rows), factor * rows)
      extended == [k \in DOMAIN polys.inner[0] |-> coefficient(k)]
  IN  [y \in Indices(factor * rows) |-> [k \in DOMAIN extended |-> extended[k][y]]]

\* An opening: what it claims.  Of a single cell, and of a block.
OpenCell(polys, evals, x, y) ==
  [commits |-> << polys.inner[y] >>, points |-> << polys.points[x] >>,
   evals |-> << << evals[y][x] >> >>]

OpenBlock(polys, evals, block) ==
  LET ys == block.end_y - block.start_y
      xs == block.end_x - block.start_x
  IN  [commits |-> [i \in 1 .. ys |-> polys.inner[block.start_y + i - 1]],
       points |-> [j \in 1 .. xs |-> polys.points[block.start_x + j - 1]],
       evals |-> [i \in 1 .. ys |-> [j \in 1 .. xs |->
                    evals[block.start_y + i - 1][block.start_x + j - 1]]]]

Opens(opened, proof, claim) ==
  /\ opened[proof] = claim
  /\ \A i \in DOMAIN claim.commits, j \in DOMAIN claim.points :
       LET poly == claim.commits[i]
       IN  Eval(poly, Cardinality(DOMAIN poly), claim.points[j]) = claim.evals[i][j]

-------------------------------------------------------------------------------
\* Cells as bytes.

LIMBS == 2        \* limbs of a scalar, 4 in the code
LimbBase == 16
PROOF_LEN == 1
BLOCK_LEN == 4
COUNT_LEN == 1
FixedLen == PROOF_LEN + BLOCK_LEN + COUNT_LEN

Limbs(scalar) == << scalar \div LimbBase, scalar % LimbBase >>

\* MultiProofCell::data: limbs are written big-endian.
CellData(scalars) == FlattenSeq(scalars)

ToBytes(cell) ==
  << cell.proof, cell.block.start_x, cell.block.start_y, cell.block.end_x, cell.block.end_y,
     Len(cell.scalars) >> \o CellData(cell.scalars)

Unreadable == [ok |-> FALSE]

FromBytes(position, bytes) ==
  IF Len(bytes) < FixedLen THEN Unreadable
  ELSE IF Len(bytes) - FixedLen # LIMBS * bytes[FixedLen] THEN Unreadable
  ELSE [ok |-> TRUE, position |-> position, proof |-> bytes[1],
        block |-> [start_x |-> bytes[2], start_y |-> bytes[3], end_x |-> bytes[4], end_y |-> bytes[5]],
        scalars |-> [k \in 1 .. bytes[FixedLen] |->
                       SubSeq(bytes, FixedLen + LIMBS * (k - 1) + 1, FixedLen + LIMBS * k)]]

\* A single cell is a proof and a scalar.
SingleCellProof(content) == SubSeq(content, 1, PROOF_LEN)[1]
SingleCellData(content) == SubSeq(content, PROOF_LEN + 1, Len(content))

-------------------------------------------------------------------------------
\* Verification.

\* ArkScalar::from_bytes takes values below the order of the field.
ScalarOf(limbs) == limbs[1] * LimbBase + limbs[2]
IsScalar(limbs) == ScalarOf(limbs) < Prime

VerifyCell(opened, dims, commitment, col, content) ==
  IF ~IsScalar(SingleCellData(content)) \/ SingleCellProof(content) \notin DOMAIN opened
    THEN "error"
  ELSE IF Opens(opened, SingleCellProof(content),
                [commits |-> << commitment >>, points |-> << DomainPoints(dims.cols)[col] >>,
                 evals |-> << << ScalarOf(SingleCellData(content)) >> >>])
    THEN "verified" ELSE "rejected"

Width(block) == block.end_x - block.start_x
Height(block) == block.end_y - block.start_y

\* The scalars in rows of the block's width; what is left over is dropped.
EvalsGrid(cell) ==
  [i \in 1 .. Len(cell.scalars) \div Width(cell.block) |->
     [j \in 1 .. Width(cell.block) |-> ScalarOf(cell.scalars[(i - 1) * Width(cell.block) + j])]]

\* skip(start_y), then take: fewer where the commitments end.
TakenCommits(commitments, block) ==
  LET last == Min({block.end_y, Cardinality(DOMAIN commitments)})
  IN  [i \in 1 .. (last - block.start_y) |-> commitments[block.start_y + i - 1]]

\* Mutant: an opening of a block counts wherever the block lies.
VerifyMultiProof_AnyBlock(opened, commitments, cols, cell) ==
  IF /\ cell.proof \in DOMAIN opened /\ Width(cell.block) > 0
     /\ opened[cell.proof].evals = EvalsGrid(cell)
    THEN "verified" ELSE "error"

\* A width of 0 or less, a negative height and points beyond the domain panic.
VerifyMultiProof(opened, commitments, cols, cell) ==
  IF \E k \in DOMAIN cell.scalars : ~IsScalar(cell.scalars[k]) THEN "error"
  ELSE IF Width(cell.block) <= 0 THEN "panic"
  ELSE IF cell.proof \notin DOMAIN opened THEN "error"
  ELSE IF Height(cell.block) < 0 \/ cell.block.end_x > Domain(cols) THEN "panic"
  ELSE LET claim == [commits |-> TakenCommits(commitments, cell.block),
                     points |-> [j \in 1 .. Width(cell.block) |->
                                   DomainPoints(cols)[cell.block.start_x + j - 1]],
                     evals |-> EvalsGrid(cell)]
       IN  IF Opens(opened, cell.proof, claim) THEN "verified" ELSE "rejected"

===============================================================================
