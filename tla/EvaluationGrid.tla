---------------------------- MODULE EvaluationGrid ----------------------------
(***************************************************************************)
(* EvaluationGrid (kate/src/gridgen/core.rs): from_extrinsics lays the     *)
(* extrinsics of a block out as a grid of scalars with its lookup,         *)
(* extend_columns multiplies the rows, and app_rows returns those rows of  *)
(* the extended grid that an application's data is in.                     *)
(***************************************************************************)
EXTENDS BlockChunks, Matrix

CONSTANTS
  U16Max,
  Requests   \* [xts, minWidth, maxWidth, maxHeight, factor, id, orig]:
             \* extrinsics as submitted; bounds of the grid; row_factor; and
             \* what app_rows is asked: an application and maybe dimensions

\* What the callers guarantee of a request; dimensions are NonZeroU16.
IsRequest(request) ==
  /\ request.xts \in Seq([app : Nat, data : Seq(Nat)])
  /\ {request.minWidth, request.maxWidth, request.maxHeight, request.id} \subseteq Nat
  /\ request.factor \in 1 .. U16Max
  /\ \/ request.orig = Dimensions(0, 0)
     \/ {request.orig.rows, request.orig.cols} \subseteq 1 .. U16Max

VARIABLES
  pc, request,
  xts,       \* extrinsics still to be grouped
  grouped,   \* application -> its data, in the order of the keys
  scalars,   \* scalars_by_app: [app, scalars]
  lookup,
  dims,      \* of the grid, as from_extrinsics chooses and extend_columns extends them
  evals,     \* row -> column -> scalar
  original,  \* history: dims before extend_columns
  reply      \* of the operation that ended the run

vars == << pc, request, xts, grouped, scalars, lookup, dims, evals, original, reply >>

NoDims == Dimensions(0, 0)
Pending == [err |-> "pending", rows |-> << >>]
Err(err) == [err |-> err, rows |-> << >>]
Ok(rows) == [err |-> "none", rows |-> rows]
\* Ok(None).
NotThere == [err |-> "None", rows |-> << >>]

\* Of a request that is given.
Start ==
  /\ pc = "group"
  /\ xts = request.xts
  /\ grouped = << >> /\ scalars = << >> /\ lookup = << >>
  /\ dims = NoDims /\ evals = << >> /\ original = NoDims
  /\ reply = Pending

Init == request \in Requests /\ Start

Fail(err) ==
  /\ reply' = Err(err)
  /\ pc' = "done"

-------------------------------------------------------------------------------
\* from_extrinsics.

\* entry(app_id).or_default().push(data)
Pushed(map, app, data) ==
  IF app \in DOMAIN map
    THEN [map EXCEPT ![app] = Append(@, data)]
    ELSE [key \in DOMAIN map \cup {app} |-> IF key = app THEN << data >> ELSE map[key]]

Group ==
  /\ pc = "group" /\ xts # << >>
  /\ grouped' = Pushed(grouped, Head(xts).app, Head(xts).data)
  /\ xts' = Tail(xts)
  /\ UNCHANGED << pc, request, scalars, lookup, dims, evals, original, reply >>

\* pad_to_bls_scalar, of at most DATA_CHUNK_SIZE bytes.
Scalar(bytes) == PadWithZeroes(bytes, SCALAR_SIZE)

Scalars(bytes) ==
  [k \in DOMAIN Pieces(bytes, DATA_CHUNK_SIZE) |-> Scalar(Pieces(bytes, DATA_CHUNK_SIZE)[k])]

\* A BTreeMap is visited in the order of its keys.
Encoded ==
  /\ pc = "group" /\ xts = << >>
  /\ LET apps == Ascending(DOMAIN grouped)
     IN  scalars' = [k \in DOMAIN apps |->
                       [app |-> apps[k], scalars |-> Scalars(Encode(grouped[apps[k]]))]]
  /\ pc' = "lookup"
  /\ UNCHANGED << request, xts, grouped, lookup, dims, evals, original, reply >>

\* from_id_and_len_iter: the keys of a map increase, so that only a sum may fail.
EndOf(k) == Sums([j \in DOMAIN scalars |-> Len(scalars[j].scalars)])[k]

Index ==
  /\ pc = "lookup"
  /\ IF EndOf(Len(scalars)) > U32Max
       THEN Fail("OffsetOverflows") /\ UNCHANGED lookup
       ELSE /\ lookup' = [k \in DOMAIN scalars |->
                            Entry(scalars[k].app, EndOf(k - 1), EndOf(k))]
            /\ pc' = "dims" /\ UNCHANGED reply
  /\ UNCHANGED << request, xts, grouped, scalars, dims, evals, original >>

\* get_block_dims: one row if the scalars leave room in it, or else full rows
\* in a number that is a power of two.

Height(count) == NextPowerOfTwo(CeilDiv(count, request.maxWidth))

\* Mutant: the number of rows is not rounded up to a power of two.
BlockDims_Exact(count) ==
  IF count < request.maxWidth
    THEN Dimensions(1, Max({NextPowerOfTwo(count), request.minWidth}))
    ELSE Dimensions(CeilDiv(count, request.maxWidth), request.maxWidth)

BlockDims(count) ==
  IF count < request.maxWidth
    THEN Dimensions(1, Max({NextPowerOfTwo(count), request.minWidth}))
    ELSE Dimensions(Height(count), request.maxWidth)

\* Conversions to u16, and to NonZeroU16.
DimsError(count) ==
  IF count < request.maxWidth
    THEN IF BlockDims(count).cols \in 1 .. U16Max THEN "none" ELSE "ZeroDimension"
    ELSE IF request.maxWidth \notin 1 .. U16Max THEN "ZeroDimension"
    ELSE IF Height(count) > request.maxHeight THEN "BlockTooBig"
    ELSE IF Height(count) > U16Max THEN "ZeroDimension"
    ELSE "none"

Random == Scalar([k \in 1 .. (SCALAR_SIZE - 1) |-> 255])

Flattened == FlattenSeq([k \in DOMAIN scalars |-> scalars[k].scalars])

RefuseDims ==
  /\ pc = "dims" /\ DimsError(LookupLen(lookup)) # "none"
  /\ Fail(DimsError(LookupLen(lookup)))
  /\ UNCHANGED << request, xts, grouped, scalars, lookup, dims, evals, original >>

\* DMatrix::from_row_iterator takes as many items as the matrix has cells.
Fill ==
  /\ pc = "dims" /\ DimsError(LookupLen(lookup)) = "none"
  /\ dims' = BlockDims(LookupLen(lookup))
  /\ original' = dims'
  /\ evals' =
       [row \in 0 .. (dims'.rows - 1) |->
          [col \in 0 .. (dims'.cols - 1) |->
             LET k == row * dims'.cols + col + 1
             IN  IF k <= Len(Flattened) THEN Flattened[k] ELSE Random]]
  /\ pc' = "extend"
  /\ UNCHANGED << request, xts, grouped, scalars, lookup, reply >>

-------------------------------------------------------------------------------
\* extend_columns: column by column to a domain of that many rows.

Extended == Dimensions(dims.rows * request.factor, dims.cols)

ExtendError ==
  IF Extended.rows > U16Max THEN "CellLengthExceeded"
  ELSE IF ~IsPowerOfTwo(Extended.rows) THEN "DomainSizeInvalid"
  ELSE "none"

RefuseExtend ==
  /\ pc = "extend" /\ ExtendError # "none"
  /\ Fail(ExtendError)
  /\ UNCHANGED << request, xts, grouped, scalars, lookup, dims, evals, original >>

\* A coded scalar is known by its column and row.
Coded(col, row) == << [k \in 1 .. dims.rows |-> evals[k - 1][col]], row >>

\* The larger domain holds the smaller one at every factor-th element.
CodedCell(row, col) ==
  IF row % request.factor = 0 THEN evals[row \div request.factor][col]
  ELSE Coded(col, row)

Extend ==
  /\ pc = "extend" /\ ExtendError = "none"
  /\ evals' =
       [row \in 0 .. (Extended.rows - 1) |->
          [col \in 0 .. (dims.cols - 1) |-> CodedCell(row, col)]]
  /\ dims' = Extended
  /\ pc' = "rows"
  /\ UNCHANGED << request, xts, grouped, scalars, lookup, original, reply >>

-------------------------------------------------------------------------------
\* app_rows.

\* None is NoDims: the grid's own dimensions.
OrigDims == IF request.orig = NoDims THEN dims ELSE request.orig

Divides == dims.cols % OrigDims.cols = 0 /\ dims.rows % OrigDims.rows = 0

AppRange == RangeOf(lookup, request.id)
HMul == dims.rows \div OrigDims.rows
StartY == AppRange.start \div OrigDims.cols

\* Mutant: the row behind the last cell.
EndY_Behind == AppRange.end \div OrigDims.cols

EndY == Max({AppRange.end - 1, 0}) \div OrigDims.cols

RefuseRows ==
  /\ pc = "rows"
  /\ \/ ~Divides /\ Fail("OrigDimNotDivisible")
     \/ Divides /\ AppRange = NoRange /\ Fail("IdNotFound")
  /\ UNCHANGED << request, xts, grouped, scalars, lookup, dims, evals, original >>

\* In a release build; debug builds assert that the rows are there.
AppRows ==
  /\ pc = "rows" /\ Divides /\ AppRange # NoRange
  /\ reply' = IF EndY * HMul < dims.rows
                THEN Ok([k \in 1 .. (EndY - StartY + 1) |->
                           LET y == (StartY + k - 1) * HMul
                           IN  [index |-> y, row |-> evals[y]]])
                ELSE NotThere
  /\ pc' = "done"
  /\ UNCHANGED << request, xts, grouped, scalars, lookup, dims, evals, original >>

Next ==
  \/ Group \/ Encoded \/ Index \/ RefuseDims \/ Fill
  \/ Extend \/ RefuseExtend \/ AppRows \/ RefuseRows

Spec == Init /\ [][Next]_vars

-------------------------------------------------------------------------------
\* Properties.

Submitted(app) ==
  LET own == Of(request.xts, app)
  IN  [k \in DOMAIN own |-> own[k].data]

Apps == {xt.app : xt \in ToSet(request.xts)}

DataOf(cells) == FlattenSeq([k \in DOMAIN cells |-> SubSeq(cells[k], 1, DATA_CHUNK_SIZE)])

\* Asked with the dimensions the grid had before it was extended, app_rows
\* returns for every application the rows with its data: read one after the
\* other they hold its extrinsics as submitted, at the place the lookup says,
\* and neither the first row nor the last is without a cell of it.
AppRowsHoldTheApp ==
  pc = "done" /\ original # NoDims /\ OrigDims = original /\ request.id \in Apps
      /\ reply.err \notin {"CellLengthExceeded", "DomainSizeInvalid"} =>
    /\ reply.err = "none"
    /\ LET width == original.cols
           cells == FlattenSeq([k \in DOMAIN reply.rows |->
                      [col \in 1 .. width |-> reply.rows[k].row[col - 1]]])
           before == AppRange.start - (reply.rows[1].index \div request.factor) * width
           count == AppRange.end - AppRange.start
       IN  /\ before \in 0 .. (width - 1)
           /\ Len(cells) - before - count \in 0 .. (width - 1)
           /\ IsPrefix(Encode(Submitted(request.id)),
                       DataOf(SubSeq(cells, before + 1, before + count)))

Count == LookupLen(lookup)

\* Given sides that are powers of two, the grid has such sides too, holds the
\* data, stays within the bounds, is no more than twice what is needed, and has
\* several rows only when they are full.
GridIsTight ==
  original # NoDims /\ IsPowerOfTwo(request.minWidth) /\ IsPowerOfTwo(request.maxWidth)
      /\ request.minWidth <= request.maxWidth /\ request.maxHeight >= 1 =>
    /\ IsPowerOfTwo(original.rows) /\ IsPowerOfTwo(original.cols)
    /\ original.rows <= request.maxHeight
    /\ original.cols \in request.minWidth .. request.maxWidth
    /\ Size(original) \in Count .. (2 * Max({Count, request.minWidth}) - 1)
    /\ original.rows > 1 => original.cols = request.maxWidth

\* A block is refused for its size only if no grid within the bounds holds it.
RefusedIfTooBig ==
  pc = "done" /\ IsPowerOfTwo(request.maxHeight) =>
    (reply.err = "BlockTooBig" => Count > request.maxWidth * request.maxHeight)

===============================================================================
