----------------------------- MODULE FlattenBlock -----------------------------
(***************************************************************************)
(* flatten_and_pad_block and get_block_dimensions (kate/src/com.rs): the   *)
(* extrinsics of a block are sorted and grouped by application, encoded,   *)
(* padded and laid out row by row in the smallest matrix that holds them;  *)
(* what is left over is filled with random chunks.  par_build_commitments  *)
(* then extends the columns to twice their length and commits to each row; *)
(* a coded cell is known by its column and row.                            *)
(***************************************************************************)
EXTENDS BlockChunks, Matrix

CONSTANTS
  CHUNK_SIZE,          \* of a cell in the block, a parameter of the code
  MINIMUM_BLOCK_SIZE,  \* in bytes, 128 in the code
  U16Max,
  Requests             \* [xts, maxRows, maxCols, full]: extrinsics in the
                       \* order submitted, the largest matrix, and whether
                       \* the feature maximum-block-size is on

\* The sizes are powers of two in the code, 32 and 128.
ASSUME SizeAssumption ==
  /\ {CHUNK_SIZE, MINIMUM_BLOCK_SIZE} \subseteq Powers
  /\ CHUNK_SIZE >= DATA_CHUNK_SIZE /\ CHUNK_SIZE % 2 = 0
  /\ MINIMUM_BLOCK_SIZE \in CHUNK_SIZE .. U32Max /\ U16Max \in Nat
  /\ U32Max < TwoTo[MaxExponent]

ASSUME RequestsAssumption ==
  \A request \in Requests :
    /\ request.xts \in Seq([app : Nat, data : Seq(Nat)])
    /\ {request.maxRows, request.maxCols} \subseteq Nat
    /\ request.full \in BOOLEAN

VARIABLES
  pc, request,
  xts,        \* extrinsics still to be grouped
  groups,     \* [app, opaques]
  layout,     \* tx_layout: [app, len]
  padded,     \* padded_block, as the sequence of its chunks
  dims,       \* block_dims, once they are found
  matrix,     \* the extended matrix in column-major order
  reply       \* [err, commitments]: of each row of the extended matrix

vars == << pc, request, xts, groups, layout, padded, dims, matrix, reply >>

NoDims == Dimensions(0, 0)
Pending == [err |-> "pending", commitments |-> << >>]
Err(err) == [err |-> err, commitments |-> << >>]
Ok(commitments) == [err |-> "none", commitments |-> commitments]

\* A chunk of random bytes.
Random == PadWithZeroes([k \in 1 .. (SCALAR_SIZE - 1) |-> 255], CHUNK_SIZE)

Init ==
  /\ pc = "sort"
  /\ request \in Requests
  /\ xts = << >> /\ groups = << >> /\ layout = << >> /\ padded = << >>
  /\ dims = NoDims /\ matrix = << >>
  /\ reply = Pending

Fail(err) ==
  /\ reply' = Err(err)
  /\ pc' = "done"

\* Mutant: no sort, as if extrinsics arrived grouped.
SortedByApp_AsGiven(sequence) == sequence

\* sort_by is stable: extrinsics of an application keep their order.
SortedByApp(sequence) ==
  LET apps == Ascending({xt.app : xt \in ToSet(sequence)})
  IN  FlattenSeq([k \in DOMAIN apps |-> Of(sequence, apps[k])])

Sort ==
  /\ pc = "sort"
  /\ xts' = SortedByApp(request.xts)
  /\ pc' = "group"
  /\ UNCHANGED << request, groups, layout, padded, dims, matrix, reply >>

-------------------------------------------------------------------------------
\* app_extrinsics_group_by_app_id compares with the last group only.

Group ==
  /\ pc = "group" /\ xts # << >>
  /\ groups' =
       IF groups # << >> /\ Last(groups).app = Head(xts).app
         THEN [groups EXCEPT ![Len(groups)].opaques = Append(@, Head(xts).data)]
         ELSE Append(groups, [app |-> Head(xts).app, opaques |-> << Head(xts).data >>])
  /\ xts' = Tail(xts)
  /\ UNCHANGED << pc, request, layout, padded, dims, matrix, reply >>

Grouped ==
  /\ pc = "group" /\ xts = << >>
  /\ pc' = "pad"
  /\ UNCHANGED << request, xts, groups, layout, padded, dims, matrix, reply >>

\* padded_len_of_pad_iec_9797_1: one byte more, then up to a whole chunk.
SatAdd(a, b) == Min({a + b, U32Max})

PaddedLen(len) ==
  LET more == SatAdd(len, 1)
  IN  SatAdd(more, (DATA_CHUNK_SIZE - (more % DATA_CHUNK_SIZE)) % DATA_CHUNK_SIZE)

\* pad_iec_9797_1 and pad_to_chunk.
PaddedChunks(bytes) ==
  LET pieces == Pieces(PadWithZeroes(bytes, PaddedLen(Len(bytes))), DATA_CHUNK_SIZE)
  IN  [k \in DOMAIN pieces |-> PadWithZeroes(pieces[k], CHUNK_SIZE)]

Pad ==
  /\ pc = "pad" /\ groups # << >>
  /\ LET chunks == PaddedChunks(Encode(Head(groups).opaques))
     IN  /\ layout' = Append(layout, [app |-> Head(groups).app, len |-> Len(chunks)])
         /\ padded' = padded \o chunks
  /\ groups' = Tail(groups)
  /\ UNCHANGED << pc, request, xts, dims, matrix, reply >>

BlockSize == Len(padded) * CHUNK_SIZE

Padded ==
  /\ pc = "pad" /\ groups = << >>
  /\ IF BlockSize > U32Max
       THEN Fail("BlockTooBig")
       ELSE pc' = "dims" /\ UNCHANGED reply
  /\ UNCHANGED << request, xts, groups, layout, padded, dims, matrix >>

-------------------------------------------------------------------------------
\* get_block_dimensions, with sizes in bytes.

\* BlockDimensions::new, in u32.
TooLarge(found) == Size(found) > U32Max \/ Size(found) * CHUNK_SIZE > U32Max

MaxDims == Dimensions(request.maxRows, request.maxCols)

CellsOf(size) == CeilDiv(Max({NextPowerOfTwo(size), MINIMUM_BLOCK_SIZE}), CHUNK_SIZE)

\* One row, unless that would be too long.
DimsFor(cells) ==
  IF cells > request.maxCols
    THEN Dimensions(cells \div request.maxCols, request.maxCols)
    ELSE Dimensions(1, cells)

BlockDimensions(size) ==
  IF size = Size(MaxDims) * CHUNK_SIZE \/ request.full THEN MaxDims ELSE DimsFor(CellsOf(size))

\* Mutant: a block that fills the largest matrix is refused.
DimsError_Full(size) ==
  IF ~IsPowerOfTwo(request.maxRows) THEN "InvalidMaxRows"
  ELSE IF ~IsPowerOfTwo(request.maxCols) THEN "InvalidMaxCols"
  ELSE IF TooLarge(MaxDims) \/ size >= Size(MaxDims) * CHUNK_SIZE THEN "BlockTooBig"
  ELSE "none"

\* The last check is that of flatten_and_pad_block.
DimsError(size) ==
  LET found == BlockDimensions(size)
  IN  IF ~IsPowerOfTwo(request.maxRows) THEN "InvalidMaxRows"
      ELSE IF ~IsPowerOfTwo(request.maxCols) THEN "InvalidMaxCols"
      ELSE IF TooLarge(MaxDims) \/ size > Size(MaxDims) * CHUNK_SIZE THEN "BlockTooBig"
      ELSE IF TooLarge(found) \/ size > Size(found) * CHUNK_SIZE THEN "BlockTooBig"
      ELSE "none"

RefuseDims ==
  /\ pc = "dims" /\ DimsError(BlockSize) # "none"
  /\ Fail(DimsError(BlockSize))
  /\ UNCHANGED << request, xts, groups, layout, padded, dims, matrix >>

\* What the data leaves free is filled with random chunks.
Fill ==
  /\ pc = "dims" /\ DimsError(BlockSize) = "none"
  /\ dims' = BlockDimensions(BlockSize)
  /\ padded' = padded \o [k \in 1 .. (Size(dims') - Len(padded)) |-> Random]
  /\ pc' = "extend"
  /\ UNCHANGED << request, xts, groups, layout, matrix, reply >>

-------------------------------------------------------------------------------
\* par_extend_data_matrix.  Its matrix of scalars is filled row by row and read
\* column by column.

ExtendError ==
  IF ~({dims.rows, dims.cols} \subseteq 1 .. U16Max) THEN "ZeroDimension"
  ELSE IF ExtendedRows(dims) > U16Max THEN "InvalidDimensionExtension"
  ELSE IF CHUNK_SIZE # SCALAR_SIZE THEN "InvalidChunkLength"
  ELSE "none"

RefuseExtend ==
  /\ pc = "extend" /\ ExtendError # "none"
  /\ Fail(ExtendError)
  /\ UNCHANGED << request, xts, groups, layout, padded, dims, matrix >>

\* Mutant: the block is read as if it were stored column by column.
DataColumn_ColumnMajor(col) ==
  [row \in 1 .. dims.rows |-> padded[col * dims.rows + row]]

DataColumn(col) == [row \in 1 .. dims.rows |-> padded[(row - 1) * dims.cols + col + 1]]

\* Data in the even rows, counted from 0, and codes in the odd ones.
ExtendedColumn(column) ==
  [k \in 1 .. ExtendedRows(dims) |->
     LET row == k - 1
     IN  IF row % EXTENSION_FACTOR = 0 THEN column[row \div EXTENSION_FACTOR + 1]
         ELSE << column, row >>]

Extend ==
  /\ pc = "extend" /\ ExtendError = "none"
  /\ matrix' = FlattenSeq([col \in 1 .. dims.cols |-> ExtendedColumn(DataColumn(col - 1))])
  /\ pc' = "commit"
  /\ UNCHANGED << request, xts, groups, layout, padded, dims, reply >>

\* get_row, and the commitment to it, which stands for the row.
Row(row) == [col \in 1 .. dims.cols |-> matrix[(col - 1) * ExtendedRows(dims) + row + 1]]

Commit ==
  /\ pc = "commit"
  /\ reply' = Ok([row \in 1 .. ExtendedRows(dims) |-> Row(row - 1)])
  /\ pc' = "done"
  /\ UNCHANGED << request, xts, groups, layout, padded, dims, matrix >>

Next ==
  \/ Sort \/ Group \/ Grouped \/ Pad \/ Padded
  \/ Fill \/ RefuseDims
  \/ Extend \/ RefuseExtend \/ Commit

Spec == Init /\ [][Next]_vars

-------------------------------------------------------------------------------
\* Properties.

Accepted == reply.err = "none"
Apps == {xt.app : xt \in ToSet(request.xts)}

\* The lookup that from_id_and_len_iter makes of the layout: running sums.
StartOf(k) == Sums([j \in DOMAIN layout |-> layout[j].len])[k - 1]

Lookup ==
  [k \in DOMAIN layout |->
     Entry(layout[k].app, StartOf(k), StartOf(k) + layout[k].len)]

\* The bytes a client finds at the positions of an application's cells, as
\* unflatten_padded_data takes them out of the cells.
BytesAt(range) ==
  FlattenSeq([k \in 1 .. (range.end - range.start) |->
    LET position == ExtendedDataPosition(dims, range.start + k - 1)
    IN  SubSeq(reply.commitments[position.row + 1][position.col + 1], 1, DATA_CHUNK_SIZE)])

Submitted(app) == LET own == Of(request.xts, app) IN [k \in DOMAIN own |-> own[k].data]

IsZeroes(bytes) == \A k \in DOMAIN bytes : bytes[k] = 0

\* Where the lookup of the layout and the indexing of the matrix send a client,
\* it finds the application's extrinsics in the order they were submitted, and
\* behind them zeros, which no decoder takes for data.
SubmittedIsStored ==
  Accepted =>
    /\ {layout[k].app : k \in DOMAIN layout} = Apps
    /\ Len(layout) = Cardinality(Apps)
    /\ \A app \in Apps :
         LET bytes == BytesAt(RangeOf(Lookup, app))
             encoded == Encode(Submitted(app))
         IN  /\ IsPrefix(encoded, bytes)
             /\ IsZeroes(SubSeq(bytes, Len(encoded) + 1, Len(bytes)))

\* The matrix has the sides of an FFT domain, stays within what the caller
\* allows and is no more than twice what is needed; rows are added only when
\* they are as long as can be.
Needed == Max({StartOf(Len(layout) + 1) * CHUNK_SIZE, MINIMUM_BLOCK_SIZE})

DimensionsAreTight ==
  dims # NoDims =>
    /\ IsPowerOfTwo(dims.rows) /\ IsPowerOfTwo(dims.cols)
    /\ Len(padded) = Size(dims)
    /\ MINIMUM_BLOCK_SIZE <= Size(MaxDims) * CHUNK_SIZE =>
         dims.rows <= request.maxRows /\ dims.cols <= request.maxCols
    /\ ~request.full =>
         /\ Size(dims) * CHUNK_SIZE < 2 * Needed
         /\ dims.rows > 1 => dims.cols = request.maxCols

\* A block whose chunks fit the largest matrix is not refused for its size, and
\* one whose chunks do not fit always is.
RefusedIfTooBig ==
  LET fits == StartOf(Len(layout) + 1) <= Size(MaxDims)
  IN  /\ reply.err = "BlockTooBig" => ~fits \/ TooLarge(MaxDims)
      /\ dims # NoDims => fits

===============================================================================
