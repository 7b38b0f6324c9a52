------------------------------- MODULE Recovery -------------------------------
(***************************************************************************)
(* How a light client gets data back from the cells of a block             *)
(* (kate/recovery/src/com.rs).  A request names the operation:             *)
(*   app      reconstruct_app_extrinsics: one application, from any half   *)
(*            of each column it touches;                                   *)
(*   all      reconstruct_extrinsics: every application of the block;      *)
(*   decode   decode_app_extrinsics: one application, from its own cells;  *)
(*   columns  reconstruct_columns: the columns themselves.                 *)
(* The network decides which cells the caller has: any may be missing,     *)
(* come twice or belong to another matrix.  Cells inside the matrix were   *)
(* verified against their commitment, so they are what the author coded.   *)
(*                                                                         *)
(* A chunk is the part of an application's encoding that one cell carries, *)
(* a Symbol.  The first chunk of an encoding tells how many chunks it has  *)
(* (the length prefixes of SCALE), 0 being the empty list of extrinsics.   *)
(***************************************************************************)
EXTENDS AppIndex, ErasurePromise, SequencesExt

CONSTANTS
  Symbol,     \* the values of a cell
  Requests    \* [op, id, block] the client may issue

Column(block, col) ==
  [row \in Indices(block.dims.rows) |-> block.chunks[row * block.dims.cols + col]]

ASSUME RequestsAssumption ==
  \A request \in Requests :
    LET block == request.block
    IN  /\ request.op \in {"app", "all", "decode", "columns"}
        /\ request.id \in Nat
        /\ block.dims \in [rows : Nat \ {0}, cols : Nat \ {0}]
        /\ block.chunks \in [Indices(Size(block.dims)) -> Symbol]
        /\ block.index \in Seq([id : Nat, start : Nat, end : Nat])
        /\ block.lookup \in Seq([id : Nat, start : Nat, end : Nat])

ASSUME SymbolAssumption == Symbol \subseteq Nat /\ 0 \in Symbol

ASSUME ErasureAssumption ==
  \A request \in Requests :
    ErasureContract(request.block.dims.rows,
      {Column(request.block, col) : col \in Indices(request.block.dims.cols)})

VARIABLES
  pc,
  request,
  mapped,    \* positions of the cells map_cells has entered
  pending,   \* columns not yet looked at
  scalars,   \* column -> reconstructed scalars; NoScalars where no cell came
  data,      \* the data matrix read back, chunk by chunk
  ranges,    \* byte ranges still to be decoded
  xts,       \* [id, xts] decoded so far
  reply

vars == << pc, request, mapped, pending, scalars, data, ranges, xts, reply >>

CHUNK_SIZE == 32

op == request.op
block == request.block
dims == block.dims
NoScalars == << >>

Pending == [kind |-> "pending", err |-> "none", data |-> << >>]
Ok(value) == [kind |-> "ok", err |-> "none", data |-> value]
Err(err) == [kind |-> "err", err |-> err, data |-> << >>]
Panic == [kind |-> "panic", err |-> "none", data |-> << >>]

Init ==
  /\ pc = "start"
  /\ request \in Requests
  /\ mapped = {} /\ pending = {}
  /\ scalars = << >> /\ data = << >>
  /\ ranges = << >> /\ xts = << >>
  /\ reply = Pending

Finish(answer) ==
  /\ reply' = answer
  /\ pc' = "done"

-------------------------------------------------------------------------------
AppCells == AppSpecificCells(block.lookup, dims, request.id)

-------------------------------------------------------------------------------
\* map_cells.

\* decode_app_extrinsics returns before it looks at the cells.
DecodeNothing ==
  /\ pc = "start" /\ op = "decode" /\ AppCells = {}
  /\ Finish(Ok(<< >>))
  /\ UNCHANGED << request, mapped, pending, scalars, data, ranges, xts >>

BeginMap ==
  /\ pc = "start" /\ ~(op = "decode" /\ AppCells = {})
  /\ pc' = "map"
  /\ UNCHANGED << request, mapped, pending, scalars, data, ranges, xts, reply >>

MapCell(position) ==
  /\ pc = "map"
  /\ ExtendedContains(dims, position) /\ position \notin mapped
  /\ mapped' = mapped \cup {position}
  /\ UNCHANGED << pc, request, pending, scalars, data, ranges, xts, reply >>

MapInvalid(position) ==
  /\ pc = "map" /\ ~ExtendedContains(dims, position)
  /\ Finish(Err("InvalidCell"))
  /\ UNCHANGED << request, mapped, pending, scalars, data, ranges, xts >>

MapDuplicate(position) ==
  /\ pc = "map" /\ position \in mapped
  /\ Finish(Err("DuplicateCellFound"))
  /\ UNCHANGED << request, mapped, pending, scalars, data, ranges, xts >>

RowsOf(col) == {position.row : position \in {p \in mapped : p.col = col}}

\* The slice is exhausted.  reconstruct_columns visits the columns it has cells
\* of, in the order of a HashMap; reconstruct_available visits all of them.
MapEnd ==
  /\ pc = "map"
  /\ pc' = IF op = "decode" THEN "read" ELSE "columns"
  /\ pending' = CASE op = "decode" -> {}
                  [] op = "columns" -> {position.col : position \in mapped}
                  [] OTHER -> Indices(dims.cols)
  /\ scalars' = [col \in pending' |-> NoScalars]
  /\ UNCHANGED << request, mapped, data, ranges, xts, reply >>

-------------------------------------------------------------------------------
\* reconstruct_columns and reconstruct_available.

IsNext(col) ==
  /\ col \in pending
  /\ op # "columns" => \A other \in pending : col <= other

\* The coded cells of the column the caller has.
Given(col) ==
  LET coded == ExtendColumn(dims.rows, Column(block, col))
  IN  [row \in RowsOf(col) |-> coded[row]]

Rebuilt(col) == Reconstruct(ExtendedRows(dims), Given(col))

SkipColumn(col) ==
  /\ pc = "columns" /\ IsNext(col)
  /\ RowsOf(col) = {}
  /\ pending' = pending \ {col}
  /\ UNCHANGED << pc, request, mapped, scalars, data, ranges, xts, reply >>

\* Mutant: one cell less than half of the column will do.
Enough_OffByOne(col) == Cardinality(RowsOf(col)) >= dims.rows - 1

Enough(col) == Cardinality(RowsOf(col)) >= dims.rows

InvalidColumn(col) ==
  /\ pc = "columns" /\ IsNext(col)
  /\ RowsOf(col) # {} /\ ~Enough(col)
  /\ Finish(Err("InvalidColumn"))
  /\ UNCHANGED << request, mapped, pending, scalars, data, ranges, xts >>

ReconstructColumn(col) ==
  /\ pc = "columns" /\ IsNext(col)
  /\ RowsOf(col) # {} /\ Enough(col)
  /\ IF Rebuilt(col).err = "none"
       THEN /\ scalars' = [scalars EXCEPT ![col] = Rebuilt(col).scalars]
            /\ pending' = pending \ {col}
            /\ UNCHANGED << pc, reply >>
       ELSE /\ Finish(Err(Rebuilt(col).err))
            /\ UNCHANGED << scalars, pending >>
  /\ UNCHANGED << request, mapped, data, ranges, xts >>

ReturnColumns ==
  /\ pc = "columns" /\ pending = {} /\ op = "columns"
  /\ Finish(Ok(scalars))
  /\ UNCHANGED << request, mapped, pending, scalars, data, ranges, xts >>

\* iter_data; a column without cells reads as zeros.
ReadColumns ==
  /\ pc = "columns" /\ pending = {} /\ op \in {"app", "all"}
  /\ data' = [k \in Indices(Size(dims)) |->
                LET column == scalars[Col(dims, k)]
                IN  IF column = NoScalars THEN 0 ELSE column[DataRow(dims, k)]]
  /\ pc' = "ranges"
  /\ UNCHANGED << request, mapped, pending, scalars, ranges, xts, reply >>

-------------------------------------------------------------------------------
\* decode_app_extrinsics: every cell of the application must be there; of the
\* others those that are, and zeros for the rest.

MissingCell ==
  /\ pc = "read" /\ ~(AppCells \subseteq mapped)
  /\ Finish(Err("MissingCell"))
  /\ UNCHANGED << request, mapped, pending, scalars, data, ranges, xts >>

\* Mutant: nobody asks whether the application's cells are there.
ReadCells_Unchecked ==
  /\ pc = "read"
  /\ data' = [k \in Indices(Size(dims)) |->
                LET position == ExtendedDataPosition(dims, k)
                IN  IF position \in mapped THEN Given(position.col)[position.row] ELSE 0]
  /\ pc' = "ranges"
  /\ UNCHANGED << request, mapped, pending, scalars, ranges, xts, reply >>

ReadCells ==
  /\ pc = "read" /\ AppCells \subseteq mapped
  /\ data' = [k \in Indices(Size(dims)) |->
                LET position == ExtendedDataPosition(dims, k)
                IN  IF position \in mapped THEN Given(position.col)[position.row] ELSE 0]
  /\ pc' = "ranges"
  /\ UNCHANGED << request, mapped, pending, scalars, ranges, xts, reply >>

-------------------------------------------------------------------------------
\* The byte ranges, and unflatten_padded_data.

\* Mutant: offsets are taken in the extended matrix.
AppRange_Extended ==
  ProjectedRangeOf(block.lookup, request.id, CHUNK_SIZE * EXTENSION_FACTOR)

AppRange == ProjectedRangeOf(block.lookup, request.id, CHUNK_SIZE)

MissingRange ==
  /\ pc = "ranges"
  /\ \/ op = "app" /\ AppRange = NoRange
     \/ op = "all" /\ ProjectionOverflows(block.lookup, CHUNK_SIZE)
  /\ Finish(Err(IF op = "app" THEN "MissingId" ELSE "OffsetOverflows"))
  /\ UNCHANGED << request, mapped, pending, scalars, data, ranges, xts >>

FindRanges ==
  /\ pc = "ranges"
  /\ op = "app" => AppRange # NoRange
  /\ op = "all" => ~ProjectionOverflows(block.lookup, CHUNK_SIZE)
  /\ ranges' = CASE op = "all" -> ProjectedRanges(block.lookup, CHUNK_SIZE)
                 [] op # "all" /\ AppRange = NoRange -> << >>
                 [] OTHER -> << Entry(request.id, AppRange.start, AppRange.end) >>
  /\ pc' = "unflatten"
  /\ UNCHANGED << request, mapped, pending, scalars, data, xts, reply >>

\* data[range], in whole chunks.
SlicePanics(range) ==
  range.start > range.end \/ range.end > CHUNK_SIZE * Size(dims)

Slice(chunks, range) ==
  LET first == range.start \div CHUNK_SIZE
      last == range.end \div CHUNK_SIZE
  IN  [k \in 1 .. (last - first) |-> chunks[first + k - 1]]

\* AppData::decode of the chunks: too few are an error, more are ignored.
Needed(chunks) == IF chunks = << >> THEN 1 ELSE chunks[1]
Undecodable(chunks) == Needed(chunks) > Len(chunks)
Decoded(chunks) == SubSeq(chunks, 1, chunks[1])

UnflattenPanics ==
  /\ pc = "unflatten" /\ ranges # << >>
  /\ SlicePanics(Head(ranges))
  /\ Finish(Panic)
  /\ UNCHANGED << request, mapped, pending, scalars, data, ranges, xts >>

UnflattenFails ==
  /\ pc = "unflatten" /\ ranges # << >>
  /\ ~SlicePanics(Head(ranges)) /\ Undecodable(Slice(data, Head(ranges)))
  /\ Finish(Err("DataDecodingError"))
  /\ UNCHANGED << request, mapped, pending, scalars, data, ranges, xts >>

Unflatten ==
  /\ pc = "unflatten" /\ ranges # << >>
  /\ ~SlicePanics(Head(ranges)) /\ ~Undecodable(Slice(data, Head(ranges)))
  /\ xts' = Append(xts, [id |-> Head(ranges).id, xts |-> Decoded(Slice(data, Head(ranges)))])
  /\ ranges' = Tail(ranges)
  /\ UNCHANGED << pc, request, mapped, pending, scalars, data, reply >>

\* The application's extrinsics alone, or each application with its own.
Return ==
  /\ pc = "unflatten" /\ ranges = << >>
  /\ Finish(Ok(IF op = "all"
                 THEN xts
                 ELSE FlattenSeq([k \in DOMAIN xts |-> xts[k].xts])))
  /\ UNCHANGED << request, mapped, pending, scalars, data, ranges, xts >>

\* The positions a peer may send: those of the matrix and one row and column
\* more.
Positions ==
  [row : 0 .. ExtendedRows(dims), col : 0 .. dims.cols]

Next ==
  \/ DecodeNothing \/ BeginMap \/ MapEnd
  \/ \E position \in Positions :
       MapCell(position) \/ MapInvalid(position) \/ MapDuplicate(position)
  \/ \E col \in Indices(dims.cols) :
       SkipColumn(col) \/ InvalidColumn(col) \/ ReconstructColumn(col)
  \/ ReturnColumns \/ ReadColumns \/ MissingCell \/ ReadCells
  \/ MissingRange \/ FindRanges
  \/ UnflattenPanics \/ UnflattenFails \/ Unflatten \/ Return

Spec == Init /\ [][Next]_vars

-------------------------------------------------------------------------------
\* Properties.

\* The lookup of the header, as LookupCodec!DecodedIsIndex has it: the author's,
\* with a phantom entry if there is no AppId(0).
Received(index) ==
  IF index = << >> \/ index[1].id = 0 THEN index ELSE << Entry(0, 0, 0) >> \o index

\* A block as an author makes it: applications in order, each with at least one
\* chunk, the first of which tells the length of the encoding; the matrix
\* holds them all, and their byte offsets fit u32.
Honest(blk) ==
  /\ blk.lookup = Received(blk.index)
  /\ \A k \in DOMAIN blk.index :
       LET entry == blk.index[k]
       IN  /\ entry.start = IF k = 1 THEN 0 ELSE blk.index[k - 1].end
           /\ \A j \in 1 .. (k - 1) : blk.index[j].id < entry.id
           /\ entry.start < entry.end
           /\ entry.end <= Size(blk.dims)
           /\ entry.end * CHUNK_SIZE <= U32Max
           /\ blk.chunks[entry.start] \in 1 .. (entry.end - entry.start)

\* The extrinsics the author put in for one of its applications.
Authored(blk, id) ==
  LET range == RangeOf(blk.index, id)
      length == blk.chunks[range.start]
  IN  [k \in 1 .. length |-> blk.chunks[range.start + k - 1]]

HasApp(blk, id) == \E k \in DOMAIN blk.index : blk.index[k].id = id

\* "at least 50% cells per column"
HalfComplete(col) == 2 * Cardinality(RowsOf(col)) >= ExtendedRows(dims)

\* reconstruct_columns gives back exactly the columns it was given cells of,
\* each as the author filled it, in whatever order it visits them.
ColumnsExact ==
  op = "columns" /\ reply.kind = "ok" =>
    reply.data = [col \in {position.col : position \in mapped} |-> Column(block, col)]

\* With a header of the block's own no slice is out of bounds.
NoPanic == Honest(block) => reply.kind # "panic"

\* A light client verifies the rows of an application and fetches its cells:
\* both index functions name the same rows.
RowsAndCellsAgree ==
  Honest(block) =>
    AppSpecificRows(block.lookup, dims, request.id) = {position.row : position \in AppCells}

\* "Reconstructs all extrinsics from extrinsics layout and data"
\* (kate/recovery/src/com.rs:191): with half of every column it does.
ReconstructsAll ==
  /\ pc = "done" /\ op = "all" /\ Honest(block)
  /\ \A col \in Indices(dims.cols) : HalfComplete(col)
  /\ reply.err \notin {"InvalidCell", "DuplicateCellFound"}
  => reply.kind = "ok"

-------------------------------------------------------------------------------
\* The promise to a light client that asks for an application.

CellsOf(r) == AppSpecificCells(r.block.lookup, r.block.dims, r.id)
TouchedColumns(r) == {position.col : position \in CellsOf(r)}

\* Half of a column, or every cell of the application.
ColumnDemand(r, col) ==
  [cells |-> {[row |-> row, col |-> col] : row \in Indices(ExtendedRows(r.block.dims))},
   least |-> r.block.dims.rows,
   absent |-> IF col \in TouchedColumns(r) THEN "unnoticed" ELSE "fine"]

CellDemand(position) == [cells |-> {position}, least |-> 1, absent |-> "noticed"]

DemandsOf(r) ==
  IF r.op = "app"
    THEN {ColumnDemand(r, col) : col \in Indices(r.block.dims.cols)}
    ELSE {CellDemand(position) : position \in CellsOf(r)}

AbstractReply ==
  [kind |-> IF reply.err \in {"InvalidCell", "DuplicateCellFound"} THEN "malformed" ELSE reply.kind,
   data |-> reply.data]

\* The requests the promise is about, with what was authored for them and what
\* they demand; during any other request nothing happens to the promise.
PromisedRequests ==
  {r \in Requests : r.op \in {"app", "decode"} /\ Honest(r.block) /\ HasApp(r.block, r.id)}

AuthoredFor == [r \in PromisedRequests |-> Authored(r.block, r.id)]
DemandsFor == [r \in PromisedRequests |-> DemandsOf(r)]

IsPromised == request \in PromisedRequests

Promise ==
  INSTANCE AppDataPromise WITH
    authored <- IF IsPromised THEN AuthoredFor[request] ELSE << >>,
    demands <- IF IsPromised THEN DemandsFor[request] ELSE {},
    supplied <- IF IsPromised THEN mapped ELSE {},
    reply <- IF IsPromised THEN AbstractReply ELSE [kind |-> "pending", data |-> << >>]

\* Asked for an application of an honest block, reconstruct_app_extrinsics and
\* decode_app_extrinsics keep the promise.
KeepsPromise == Promise!Spec

===============================================================================
