------------------------------- MODULE Sampling -------------------------------
(***************************************************************************)
(* A fleet of light clients samples a block.  Each client takes its slice  *)
(* of the matrix (Partitions) and asks a node for one proof after the      *)
(* other: of single cells of the extended matrix, or of blocks of cells    *)
(* (MultiProof).  What the node sends may be damaged on the way.  Clients  *)
(* share nothing, so they take their turns one after the other.            *)
(***************************************************************************)
EXTENDS MultiProof, Partitions

CONSTANTS
  Jobs,         \* [dims, target, fraction, kind, evals] of the block sampled
  Mangle(_)     \* what may arrive instead of some bytes

IsPowerOfTwo(n) == \E k \in 0 .. Precision : n = TwoTo(k)

\* get_block_dims rounds the height, and the width of a small block, up to a
\* power of two, and the largest widths are such powers, too; both sides are
\* domains of the field, and floats hold the number of cells exactly.
ASSUME JobsAssumption ==
  \A j \in Jobs :
    /\ j.dims = Dimensions(j.dims.rows, j.dims.cols)
    /\ IsPowerOfTwo(j.dims.rows) /\ IsPowerOfTwo(j.dims.cols)
    /\ \A n \in {j.dims.rows, ExtendedRows(j.dims), j.dims.cols} : (Prime - 1) % n = 0
    /\ Domain(j.dims.cols) = j.dims.cols
    /\ 4 * (ExtendedRows(j.dims) * j.dims.cols) <= TwoTo(Precision)
    /\ j.target.rows \in Nat \ {0} /\ j.target.cols \in Nat \ {0}
    /\ j.fraction \in Nat \ {0} /\ j.fraction < TwoTo(Precision)
    /\ j.kind \in {"cell", "mcell"}
    /\ j.evals \in [Indices(j.dims.rows) -> [Indices(j.dims.cols) -> Scalar]]

VARIABLES
  job,         \* the block, and what a node and a header have of it
  client,      \* number of the client whose turn it is
  asked,       \* how many of its positions it has asked for
  opened,      \* all openings nodes ever made
  arrived,     \* the bytes under way, or << >>
  intact,      \* no answer has been damaged so far
  outcome,     \* of the last verification
  confirmed    \* the cells a proof was verified for: [row, col, value]

fleetVars == << job, client, asked, opened, arrived, intact, outcome, confirmed >>

ExtendedDims(dims) == Dimensions(ExtendedRows(dims), dims.cols)

\* extend_columns: each column is extended by itself.
ExtendedEvals(dims, evals) ==
  LET column == [x \in Indices(dims.cols) |->
                   Fft(Ifft([y \in Indices(dims.rows) |-> evals[y][x]], dims.rows),
                             ExtendedRows(dims))]
  IN  [y \in Indices(ExtendedRows(dims)) |-> [x \in Indices(dims.cols) |-> column[x][y]]]

Prepared(j) ==
  LET grid == ExtendedDims(j.dims)
      evals == ExtendedEvals(j.dims, j.evals)
  IN  [dims |-> j.dims, target |-> j.target, fraction |-> j.fraction, kind |-> j.kind,
       grid |-> grid, evals |-> evals, polys |-> MakePolynomialGrid(grid, evals),
       header |-> ExtendedCommitments(MakePolynomialGrid(j.dims, j.evals), EXTENSION_FACTOR)]

FleetInit ==
  /\ \E j \in Jobs : job = Prepared(j)
  /\ client = 1 /\ asked = 0
  /\ opened = << >> /\ arrived = << >> /\ intact = TRUE
  /\ outcome = "none" /\ confirmed = {}

-------------------------------------------------------------------------------
McellDims == MultiproofDims(job.grid, job.target)

\* Without dimensions of a grid of blocks there is nothing to sample.
Positions ==
  CASE job.kind = "cell" -> ExtendedPartitionPositions(job.dims, client, job.fraction)
    [] job.kind = "mcell" /\ McellDims = NoDims -> << >>
    [] job.kind = "mcell" /\ McellDims # NoDims ->
         McellPartitionPositions(McellDims, client, job.fraction)

At == Positions[asked]

Working == client <= job.fraction /\ arrived = << >>

\* The node opens the cell, or the block, at the next position.
Answer(opening, bytes) ==
  /\ opened' = Append(opened, opening)
  /\ \/ arrived' = bytes /\ UNCHANGED intact
     \/ intact /\ arrived' \in Mangle(bytes) /\ intact' = FALSE
  /\ outcome' = "none" /\ asked' = asked + 1
  /\ UNCHANGED << job, client, confirmed >>

\* CellLengthExceeded
Refuse ==
  /\ outcome' = "refused" /\ asked' = asked + 1
  /\ UNCHANGED << job, client, opened, arrived, intact, confirmed >>

AskCell ==
  /\ Working /\ job.kind = "cell" /\ asked < Len(Positions)
  /\ LET at == Positions[asked + 1]
     IN  IF at.row >= job.grid.rows THEN Refuse
         ELSE Answer(OpenCell(job.polys, job.evals, at.col, at.row),
                     << Len(opened) + 1 >> \o Limbs(job.evals[at.row][at.col]))

AskBlock ==
  /\ Working /\ job.kind = "mcell" /\ asked < Len(Positions)
  /\ LET at == Positions[asked + 1]
         block == MultiproofBlock(at.col, at.row, job.grid, job.target)
         opening == OpenBlock(job.polys, job.evals, block)
         scalars == FlattenSeq(opening.evals)
     IN  IF block = NoBlock THEN Refuse
         ELSE Answer(opening,
                     ToBytes([proof |-> Len(opened) + 1, block |-> block,
                              scalars |-> [k \in DOMAIN scalars |-> Limbs(scalars[k])]]))

NextClient ==
  /\ Working /\ asked = Len(Positions)
  /\ client' = client + 1 /\ asked' = 0 /\ outcome' = "none"
  /\ UNCHANGED << job, opened, arrived, intact, confirmed >>

-------------------------------------------------------------------------------
Settle(verdict, cells) ==
  /\ outcome' = verdict
  /\ confirmed' = IF verdict = "verified" THEN confirmed \cup cells ELSE confirmed
  /\ arrived' = << >>
  /\ UNCHANGED << job, client, asked, opened, intact >>

\* The content of a cell has a fixed size; other lengths are not cells.
CheckCell ==
  /\ arrived # << >> /\ job.kind = "cell"
  /\ IF Len(arrived) # PROOF_LEN + LIMBS THEN Settle("error", {})
     ELSE Settle(VerifyCell(opened, job.dims, job.header[At.row], At.col, arrived),
                 {[row |-> At.row, col |-> At.col, value |-> ScalarOf(SingleCellData(arrived))]})

\* The cells a block of cells shows; the block may name rows beyond them.
CellsOf(cell) ==
  {[row |-> cell.block.start_y + i - 1, col |-> cell.block.start_x + j - 1,
    value |-> EvalsGrid(cell)[i][j]]
   : i \in DOMAIN EvalsGrid(cell), j \in 1 .. Width(cell.block)}

CheckBlock ==
  /\ arrived # << >> /\ job.kind = "mcell"
  /\ LET cell == FromBytes(At, arrived)
     IN  IF cell.ok
           THEN Settle(VerifyMultiProof(opened, job.header, job.dims.cols, cell), CellsOf(cell))
           ELSE Settle("error", {})

FleetDone == client > job.fraction /\ UNCHANGED fleetVars

FleetNext == AskCell \/ AskBlock \/ NextClient \/ CheckCell \/ CheckBlock \/ FleetDone

FleetSpec == FleetInit /\ [][FleetNext]_fleetVars

-------------------------------------------------------------------------------
\* A verified proof tells the truth: each cell it was taken for has that value
\* in the extended matrix, whatever was damaged on the way and whichever block
\* the bytes named (verify_v2, verify_multi_proof).
ConfirmedIsGenuine ==
  \A cell \in confirmed :
    /\ cell.row < job.grid.rows /\ cell.col < job.grid.cols
    /\ job.evals[cell.row][cell.col] = cell.value

\* Slices and blocks together leave no cell out: when all clients are through
\* and nothing was damaged, every cell of the extended matrix is confirmed.
FleetSeesAll ==
  (client > job.fraction /\ intact /\ (job.kind = "mcell" => McellDims # NoDims)) =>
    \A y \in Indices(job.grid.rows), x \in Indices(job.grid.cols) :
      [row |-> y, col |-> x, value |-> job.evals[y][x]] \in confirmed

\* As long as nothing is damaged a client gets a proof for every position of
\* its slice, and the proof verifies: the rounding of floats takes no client
\* beyond the matrix, the header's extended commitments are those of the rows
\* the node opens, and cells survive their bytes (multiproof, to_bytes,
\* from_bytes and the two verifications).
HonestIsVerified == intact => outcome \in {"none", "verified"}

===============================================================================
