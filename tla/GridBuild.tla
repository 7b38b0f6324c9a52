------------------------------- MODULE GridBuild -------------------------------
(***************************************************************************)
(* The two generators of a block side by side: FlattenBlock, which the     *)
(* commitments of kate/src/com.rs are built from, and EvaluationGrid of    *)
(* gridgen, the newer one.  Both are given the same extrinsics; the tests  *)
(* of both (test_flatten_block, newapi_test_flatten_block) expect the same *)
(* bytes.  A request has the parameters of both.                           *)
(***************************************************************************)
EXTENDS FlattenBlock

VARIABLES gridPc, gridXts, grouped, scalars, lookup, gridDims, evals, original, gridReply

gridVars ==
  << gridPc, gridXts, grouped, scalars, lookup, gridDims, evals, original, gridReply >>

Grid ==
  INSTANCE EvaluationGrid
    WITH pc <- gridPc, xts <- gridXts, dims <- gridDims, reply <- gridReply

ASSUME GridRequestsAssumption == \A asked \in Requests : Grid!IsRequest(asked)

BuildInit == Init /\ Grid!Start

\* They share nothing but the request, so that one may run after the other.
BuildNext ==
  \/ Next /\ UNCHANGED gridVars
  \/ pc = "done" /\ Grid!Next /\ UNCHANGED vars

BuildSpec == BuildInit /\ [][BuildNext]_<< vars, gridVars >>

-------------------------------------------------------------------------------
\* Properties.

\* AppRowsHoldTheApp of EvaluationGrid.
AppRowsHoldTheApp == Grid!AppRowsHoldTheApp

\* Both generators refuse a block for its size only when no matrix within the
\* bounds holds it, and else choose one that is no larger than it must be.
DimensionsAreExact ==
  /\ DimensionsAreTight /\ RefusedIfTooBig
  /\ Grid!GridIsTight /\ Grid!RefusedIfTooBig

\* The same bounds for both, a row that holds the least block, and the extension
\* by two.
SameBounds ==
  /\ request.maxWidth = request.maxCols /\ request.maxHeight = request.maxRows
  /\ request.minWidth * CHUNK_SIZE = MINIMUM_BLOCK_SIZE
  /\ request.minWidth <= request.maxWidth
  /\ request.factor = EXTENSION_FACTOR
  /\ CHUNK_SIZE = SCALAR_SIZE /\ ~request.full

BothBuilt == reply.err = "none" /\ gridPc = "rows"

\* An encoding that fills its chunks: the padding of ISO 9797-1 adds another.
FillsChunks(app) == Len(Encode(Submitted(app))) % DATA_CHUNK_SIZE = 0

Cells(row) == [col \in 1 .. gridDims.cols |-> evals[row][col - 1]]

\* Unless some encoding fills its chunks exactly, both generators give the same
\* lookup, the same dimensions and the same extended matrix, and so the same
\* commitments.
SameBlock ==
  BothBuilt /\ SameBounds /\ (\A app \in Apps : ~FillsChunks(app)) =>
    /\ lookup = Lookup
    /\ original = dims
    /\ reply.commitments = [row \in 1 .. gridDims.rows |-> Cells(row - 1)]

===============================================================================
