---------------------------- MODULE RecoveryProofs ----------------------------
(***************************************************************************)
(* What a light client gets: what recovery from cells gives back, for      *)
(* every matrix, lookup, erasure code that keeps its contract, and supply  *)
(* of cells; and what it may rely on when verify_equality names a row, for *)
(* every matrix, lookup, header and source of rows.                        *)
(***************************************************************************)
EXTENDS Recovery, RowVerification, TLAPS, SequenceTheorems, FiniteSetTheorems, WellFoundedInduction

Entries == [id : Nat, start : Nat, end : Nat]

\* The request is one of those the constants describe.
Asked == request \in Requests

-------------------------------------------------------------------------------
\* The shape of a block.

LEMMA Shape ==
  ASSUME NEW r \in Requests
  PROVE  /\ r.op \in {"app", "all", "decode", "columns"}
         /\ r.id \in Nat
         /\ r.block.dims.rows \in Nat \ {0} /\ r.block.dims.cols \in Nat \ {0}
         /\ Size(r.block.dims) \in Nat \ {0}
         /\ ExtendedRows(r.block.dims) = 2 * r.block.dims.rows
         /\ r.block.index \in Seq(Entries) /\ r.block.lookup \in Seq(Entries)
         /\ r.block.chunks \in [Indices(Size(r.block.dims)) -> Symbol]
<1> DEFINE matrix == r.block.dims
<1>1. /\ matrix.rows \in Nat \ {0} /\ matrix.cols \in Nat \ {0}
      /\ r.op \in {"app", "all", "decode", "columns"} /\ r.id \in Nat
      /\ r.block.index \in Seq(Entries) /\ r.block.lookup \in Seq(Entries)
      /\ r.block.chunks \in [Indices(Size(matrix)) -> Symbol]
  BY RequestsAssumption DEF Entries
<1>2. ExtendedRows(matrix) = 2 * matrix.rows
  BY <1>1 DEF ExtendedRows, EXTENSION_FACTOR
<1>3. \A m, n \in Nat \ {0} : m * n \in Nat \ {0}
  OBVIOUS
<1>4. Size(matrix) \in Nat \ {0}
  BY <1>1, <1>3 DEF Size
<1> QED BY <1>1, <1>2, <1>4

\* Iterator::find finds something where there is something to find.
LEMMA FirstExists ==
  ASSUME NEW lookup \in Seq(Entries), NEW id,
         NEW k \in DOMAIN lookup, lookup[k].id = id
  PROVE  \E first \in DOMAIN lookup : IsFirstOf(lookup, id, first)
<1> DEFINE places == {j \in DOMAIN lookup : lookup[j].id = id}
<1>1. places \subseteq Nat /\ places # {}
  OBVIOUS
<1> HIDE DEF places
<1>2. \E first \in places : \A j \in places : ~(<< j, first >> \in OpToRel(<, Nat))
  BY <1>1, NatLessThanWellFounded, WFMin
<1>3. PICK first \in places : \A j \in places : ~(<< j, first >> \in OpToRel(<, Nat))
  BY <1>2
<1>4. \A j \in places : ~(j < first)
  BY <1>1, <1>3 DEF OpToRel
<1>5. first \in DOMAIN lookup /\ lookup[first].id = id
  BY DEF places
<1>6. DOMAIN lookup = 1 .. Len(lookup) /\ Len(lookup) \in Nat
  BY LenProperties
<1>7. \A j \in 1 .. (first - 1) : lookup[j].id # id
  <2> SUFFICES ASSUME NEW j \in 1 .. (first - 1) PROVE lookup[j].id # id
    OBVIOUS
  <2>1. first \in 1 .. Len(lookup)
    BY <1>5, <1>6
  <2>2. j \in DOMAIN lookup /\ j < first
    BY <1>6, <2>1
  <2>3. j \notin places
    BY <1>4, <2>2
  <2> QED BY <2>2, <2>3 DEF places
<1> QED BY <1>5, <1>7 DEF IsFirstOf

\* A range found is the range of some entry.
LEMMA RangeOfEntry ==
  ASSUME NEW lookup \in Seq(Entries), NEW id, RangeOf(lookup, id) # NoRange
  PROVE  \E k \in 1 .. Len(lookup) :
           /\ lookup[k] \in Entries /\ lookup[k].id = id
           /\ RangeOf(lookup, id) = Range32(lookup[k].start, lookup[k].end)
<1> DEFINE first == CHOOSE k \in DOMAIN lookup : IsFirstOf(lookup, id, k)
<1>1. \E k \in DOMAIN lookup : lookup[k].id = id
  BY DEF RangeOf
<1>2. RangeOf(lookup, id) = Range32(lookup[first].start, lookup[first].end)
  BY <1>1 DEF RangeOf
<1>3. \E k \in DOMAIN lookup : IsFirstOf(lookup, id, k)
  BY <1>1, FirstExists
<1>4. first \in DOMAIN lookup /\ IsFirstOf(lookup, id, first)
  BY <1>3
<1>5. first \in 1 .. Len(lookup)
  BY <1>4, LenProperties
<1> HIDE DEF first
<1>6. lookup[first] \in Entries
  BY <1>5, ElementOfSeq
<1> QED BY <1>2, <1>4, <1>5, <1>6 DEF IsFirstOf

\* The one entry of an application is the one that is found.
LEMMA RangeOfOnly ==
  ASSUME NEW lookup \in Seq(Entries), NEW k \in 1 .. Len(lookup),
         \A j \in 1 .. Len(lookup) : lookup[j].id = lookup[k].id => j = k
  PROVE  RangeOf(lookup, lookup[k].id) = Range32(lookup[k].start, lookup[k].end)
<1> DEFINE id == lookup[k].id
<1>1. DOMAIN lookup = 1 .. Len(lookup) /\ Len(lookup) \in Nat
  BY LenProperties
<1>2. k \in DOMAIN lookup /\ IsFirstOf(lookup, id, k)
  BY <1>1 DEF IsFirstOf
<1>3. \A j \in DOMAIN lookup : IsFirstOf(lookup, id, j) => j = k
  BY <1>1 DEF IsFirstOf
<1>4. (CHOOSE j \in DOMAIN lookup : IsFirstOf(lookup, id, j)) = k
  BY <1>2, <1>3
<1> QED BY <1>2, <1>4 DEF RangeOf

-------------------------------------------------------------------------------
\* What an honest author's lookup looks like to the receiver: entry k is one of
\* the author's or the phantom.
LEMMA EntryOfReceived ==
  ASSUME NEW r \in Requests, Honest(r.block), NEW k \in 1 .. Len(r.block.lookup)
  PROVE  \/ r.block.lookup[k] = Entry(0, 0, 0)
         \/ \E j \in 1 .. Len(r.block.index) : r.block.lookup[k] = r.block.index[j]
<1> DEFINE index == r.block.index
<1>1. r.block.lookup = Received(index)
  BY DEF Honest
<1>2. index \in Seq(Entries)
  BY Shape
<1>3. CASE index = << >> \/ index[1].id = 0
  BY <1>1, <1>3 DEF Received
<1>4. CASE ~(index = << >> \/ index[1].id = 0)
  <2>1. r.block.lookup = << Entry(0, 0, 0) >> \o index
    BY <1>1, <1>4 DEF Received
  <2>2. << Entry(0, 0, 0) >> \in Seq(Entries)
    BY DEF Entries, Entry
  <2>3. /\ Len(r.block.lookup) = 1 + Len(index)
        /\ r.block.lookup[k] = IF k <= 1 THEN << Entry(0, 0, 0) >>[k] ELSE index[k - 1]
    BY <1>2, <2>1, <2>2, ConcatProperties
  <2>4. Len(index) \in Nat
    BY <1>2
  <2>5. CASE k = 1
    BY <2>3, <2>5
  <2>6. CASE k # 1
    BY <2>3, <2>4, <2>6
  <2> QED BY <2>5, <2>6
<1> QED BY <1>3, <1>4

\* The entries of an honest author stay inside the matrix.
LEMMA EntryInside ==
  ASSUME NEW r \in Requests, Honest(r.block), NEW k \in 1 .. Len(r.block.lookup)
  PROVE  /\ r.block.lookup[k] \in Entries
         /\ r.block.lookup[k].start <= r.block.lookup[k].end
         /\ r.block.lookup[k].end <= Size(r.block.dims)
<1>1. r.block.lookup[k] \in Entries
  BY Shape, ElementOfSeq
<1>2. CASE r.block.lookup[k] = Entry(0, 0, 0)
  BY <1>2, <1>1, Shape DEF Entry
<1>3. CASE \E j \in 1 .. Len(r.block.index) : r.block.lookup[k] = r.block.index[j]
  <2>1. PICK j \in 1 .. Len(r.block.index) : r.block.lookup[k] = r.block.index[j]
    BY <1>3
  <2>2. j \in DOMAIN r.block.index
    BY Shape, LenProperties
  <2>3. /\ r.block.index[j].start < r.block.index[j].end
        /\ r.block.index[j].end <= Size(r.block.dims)
    BY <2>2 DEF Honest
  <2> QED BY <1>1, <2>1, <2>3 DEF Entries
<1> QED BY <1>2, <1>3, EntryOfReceived

-------------------------------------------------------------------------------
\* Slices stay inside the data.

Inside(range) == range.start <= range.end /\ range.end <= CHUNK_SIZE * Size(dims)

RangeInv ==
  /\ ranges \in Seq(Entries)
  /\ Honest(block) => \A k \in 1 .. Len(ranges) : Inside(ranges[k])

PanicInv == Asked /\ RangeInv /\ NoPanic

\* The byte range of a range of chunks.
LEMMA Scaled ==
  ASSUME NEW entry \in Entries, NEW id \in Nat,
         NEW bytes, bytes = Entry(id, entry.start * CHUNK_SIZE, entry.end * CHUNK_SIZE)
  PROVE  /\ bytes \in Entries
         /\ bytes.start = 32 * entry.start /\ bytes.end = 32 * entry.end
         /\ (Size(dims) \in Nat /\ entry.start <= entry.end /\ entry.end <= Size(dims)) => Inside(bytes)
<1>1. entry.start \in Nat /\ entry.end \in Nat
  BY DEF Entries
<1>2. \A n \in Nat : n * CHUNK_SIZE = 32 * n /\ 32 * n \in Nat
  BY DEF CHUNK_SIZE
<1>3. bytes = [id |-> id, start |-> 32 * entry.start, end |-> 32 * entry.end]
  BY <1>1, <1>2 DEF Entry
<1>4. bytes \in Entries /\ bytes.start = 32 * entry.start /\ bytes.end = 32 * entry.end
  BY <1>1, <1>2, <1>3 DEF Entries
<1>5. \A a, b, c \in Nat : (a <= b /\ b <= c) => 32 * a <= 32 * b /\ 32 * b <= CHUNK_SIZE * c
  BY DEF CHUNK_SIZE
<1> QED BY <1>1, <1>4, <1>5 DEF Inside

\* The byte ranges of an honest header, of one application or of all of them.
LEMMA RangesInside ==
  ASSUME Asked, FindRanges
  PROVE  RangeInv'
<1> DEFINE lookup == block.lookup
<1>0. /\ lookup \in Seq(Entries) /\ Size(dims) \in Nat /\ block = request.block
      /\ dims = request.block.dims /\ request \in Requests
  BY Shape DEF Asked, block, dims
<1>1. /\ ranges' = CASE op = "all" -> ProjectedRanges(lookup, CHUNK_SIZE)
                     [] op # "all" /\ AppRange = NoRange -> << >>
                     [] OTHER -> << Entry(request.id, AppRange.start, AppRange.end) >>
      /\ dims' = dims /\ block' = block
  BY DEF FindRanges, dims, block
<1>2. CASE op = "all"
  <2>1. ranges' = ProjectedRanges(lookup, CHUNK_SIZE)
    BY <1>1, <1>2
  <2>2. DOMAIN lookup = 1 .. Len(lookup) /\ Len(lookup) \in Nat
    BY <1>0, LenProperties
  <2>3. \A k \in 1 .. Len(lookup) : lookup[k] \in Entries
    BY <1>0, ElementOfSeq
  <2>4. \A k \in 1 .. Len(lookup) :
          ranges'[k] = Entry(lookup[k].id, lookup[k].start * CHUNK_SIZE, lookup[k].end * CHUNK_SIZE)
    BY <2>1, <2>2 DEF ProjectedRanges
  <2>5. \A k \in 1 .. Len(lookup) : ranges'[k] \in Entries
    <3> SUFFICES ASSUME NEW k \in 1 .. Len(lookup) PROVE ranges'[k] \in Entries
      OBVIOUS
    <3>1. lookup[k].id \in Nat
      BY <2>3 DEF Entries
    <3> QED BY <2>3, <2>4, <3>1, Scaled
  <2>6. ranges' = [k \in 1 .. Len(lookup) |-> ranges'[k]]
    BY <2>1, <2>2 DEF ProjectedRanges
  <2>7. ranges' \in Seq(Entries) /\ Len(ranges') = Len(lookup)
    BY <2>2, <2>5, <2>6, IsASeq, LenProperties
  <2>8. ASSUME Honest(block), NEW k \in 1 .. Len(lookup) PROVE Inside(ranges'[k])
    <3>1. /\ lookup[k] \in Entries /\ lookup[k].start <= lookup[k].end
          /\ lookup[k].end <= Size(dims)
      BY <1>0, <2>8, EntryInside
    <3>2. lookup[k].id \in Nat
      BY <3>1 DEF Entries
    <3> QED BY <1>0, <2>4, <3>1, <3>2, Scaled
  <2> QED BY <1>1, <2>7, <2>8 DEF RangeInv, Inside
<1>3. CASE op # "all" /\ AppRange = NoRange
  <2>1. ranges' = << >>
    BY <1>1, <1>3
  <2> QED BY <2>1 DEF RangeInv
<1>4. CASE op # "all" /\ AppRange # NoRange
  <2>1. ranges' = << Entry(request.id, AppRange.start, AppRange.end) >>
    BY <1>1, <1>4
  <2>2. RangeOf(lookup, request.id) # NoRange
    BY <1>4 DEF AppRange, ProjectedRangeOf
  <2>3. PICK k \in 1 .. Len(lookup) :
          /\ lookup[k] \in Entries
          /\ RangeOf(lookup, request.id) = Range32(lookup[k].start, lookup[k].end)
    BY <1>0, <2>2, RangeOfEntry
  <2>4. AppRange = Range32(lookup[k].start * CHUNK_SIZE, lookup[k].end * CHUNK_SIZE)
    BY <1>4, <2>3 DEF AppRange, ProjectedRangeOf, Range32
  <2>5. request.id \in Nat
    BY <1>0, Shape
  <2>6. ranges' = << Entry(request.id, lookup[k].start * CHUNK_SIZE, lookup[k].end * CHUNK_SIZE) >>
    BY <2>1, <2>4 DEF Range32
  <2>7. ranges'[1] = Entry(request.id, lookup[k].start * CHUNK_SIZE, lookup[k].end * CHUNK_SIZE)
    BY <2>6
  <2>8. ranges'[1] \in Entries /\ ranges' \in Seq(Entries) /\ Len(ranges') = 1
    <3>1. ranges'[1] \in Entries
      BY <2>3, <2>5, <2>7, Scaled
    <3>2. \A entry \in Entries : << entry >> \in Seq(Entries) /\ Len(<< entry >>) = 1
      OBVIOUS
    <3>3. ranges' = << Entry(request.id, lookup[k].start * CHUNK_SIZE, lookup[k].end * CHUNK_SIZE) >>
      BY <2>6
    <3> QED BY <3>1, <3>2, <3>3, <2>7
  <2>9. Honest(block) => Inside(ranges'[1])
    <3>1. Honest(block) => lookup[k].start <= lookup[k].end /\ lookup[k].end <= Size(dims)
      BY <1>0, EntryInside
    <3>2. (lookup[k].start <= lookup[k].end /\ lookup[k].end <= Size(dims)) => Inside(ranges'[1])
      BY <1>0, <2>3, <2>5, <2>7, Scaled
    <3> QED BY <3>1, <3>2
  <2> QED BY <1>1, <2>8, <2>9 DEF RangeInv, Inside
<1> QED BY <1>2, <1>3, <1>4

LEMMA InitPanicInv == Init => PanicInv
<1>1. << >> \in Seq(Entries)
  BY EmptySeq
<1> QED BY <1>1 DEF Init, PanicInv, Asked, RangeInv, NoPanic, Pending

LEMMA StepPanicInv == PanicInv /\ [Next]_vars => PanicInv'
<1> SUFFICES ASSUME PanicInv, [Next]_vars PROVE PanicInv'
  OBVIOUS
<1> USE DEF PanicInv
<1>0. request' = request /\ block' = block /\ dims' = dims
  BY DEF Next, vars, DecodeNothing, BeginMap, MapEnd, MapCell, MapInvalid, MapDuplicate, SkipColumn,
     InvalidColumn, ReconstructColumn, ReturnColumns, ReadColumns, MissingCell, ReadCells,
     MissingRange, FindRanges, UnflattenPanics, UnflattenFails, Unflatten, Return, block, dims
<1>1. Asked'
  BY <1>0 DEF Asked
<1>2. RangeInv'
  <2>1. CASE FindRanges
    BY <2>1, RangesInside
  <2>2. CASE Unflatten
    <3>1. ranges # << >> /\ ranges' = Tail(ranges) /\ ranges \in Seq(Entries)
      BY <2>2 DEF Unflatten, RangeInv
    <3>2. /\ ranges' \in Seq(Entries) /\ Len(ranges') = Len(ranges) - 1 /\ Len(ranges) \in Nat
          /\ \A k \in 1 .. Len(ranges') : ranges'[k] = ranges[k + 1]
      BY <3>1, HeadTailProperties
    <3> QED BY <1>0, <3>2 DEF RangeInv, Inside
  <2>3. CASE UNCHANGED ranges
    BY <1>0, <2>3 DEF RangeInv, Inside
  <2> QED
    BY <2>1, <2>2, <2>3 DEF Next, vars, DecodeNothing, BeginMap, MapEnd, MapCell, MapInvalid,
       MapDuplicate, SkipColumn, InvalidColumn, ReconstructColumn, ReturnColumns, ReadColumns,
       MissingCell, ReadCells, MissingRange, UnflattenPanics, UnflattenFails, Return
<1>3. NoPanic'
  <2>1. CASE UnflattenPanics
    <3>1. /\ ranges \in Seq(Entries) /\ ranges # << >> /\ SlicePanics(Head(ranges))
      BY <2>1 DEF UnflattenPanics, RangeInv
    <3>2. Len(ranges) \in Nat /\ 1 \in 1 .. Len(ranges) /\ Head(ranges) = ranges[1] /\ ranges[1] \in Entries
      BY <3>1, HeadTailProperties, EmptySeq, LenProperties, ElementOfSeq
    <3>3. Size(dims) \in Nat
      BY Shape DEF Asked, dims, block
    <3>4. ~Inside(ranges[1])
      BY <3>1, <3>2, <3>3 DEF SlicePanics, Inside, Entries, CHUNK_SIZE
    <3>5. ~Honest(block)
      BY <3>2, <3>4 DEF RangeInv
    <3> QED BY <1>0, <3>5 DEF NoPanic
  <2>2. CASE reply' = reply
    BY <1>0, <2>2 DEF NoPanic
  <2>3. CASE \E value : reply' = Ok(value) \/ reply' = Err(value)
    BY <2>3 DEF NoPanic, Ok, Err
  <2> QED
    BY <2>1, <2>2, <2>3 DEF Next, vars, Finish, DecodeNothing, BeginMap, MapEnd, MapCell, MapInvalid,
       MapDuplicate, SkipColumn, InvalidColumn, ReconstructColumn, ReturnColumns, ReadColumns,
       MissingCell, ReadCells, MissingRange, FindRanges, UnflattenFails, Unflatten, Return
<1> QED BY <1>1, <1>2, <1>3

LEMMA PanicInvariance == Spec => []PanicInv
<1> QED BY InitPanicInv, StepPanicInv, PTL DEF Spec

\* With a header of the block's own, recovery never slices beyond its data
\* (decode_app_extrinsics, unflatten_padded_data).
THEOREM NeverPanics == Spec => []NoPanic
<1>1. PanicInv => NoPanic
  BY DEF PanicInv
<1> QED BY PanicInvariance, <1>1, PTL

-------------------------------------------------------------------------------
\* Columns.

DataPositions == [row : Indices(ExtendedRows(dims)), col : Indices(dims.cols)]

PcInv ==
  /\ pc = "done" <=> reply # Pending
  /\ pc \notin {"unflatten", "done"} => xts = << >>
  /\ pc = "read" => op = "decode"
  /\ pc \in {"ranges", "unflatten"} => op # "columns"

\* What a column has come to once it was looked at: as the author filled it, or
\* nothing if no cell of it came.
Settled(col) ==
  IF RowsOf(col) = {} THEN scalars[col] = NoScalars
  ELSE Enough(col) /\ scalars[col] = Column(block, col)

ColumnInv ==
  pc = "columns" =>
    /\ op # "decode"
    /\ DOMAIN scalars = IF op = "columns" THEN {position.col : position \in mapped}
                        ELSE Indices(dims.cols)
    /\ scalars = [col \in DOMAIN scalars |-> scalars[col]]
    /\ pending \subseteq DOMAIN scalars
    /\ \A col \in pending : scalars[col] = NoScalars
    /\ \A col \in DOMAIN scalars \ pending : Settled(col)

ColumnsInv == Asked /\ PcInv /\ mapped \subseteq DataPositions /\ ColumnInv /\ ColumnsExact

\* The rows of a column that cells came for are rows of the extended matrix.
LEMMA RowsInside ==
  ASSUME mapped \subseteq DataPositions, NEW col
  PROVE  RowsOf(col) \subseteq Indices(ExtendedRows(dims))
<1> QED BY DEF RowsOf, DataPositions

\* Half of a column's cells give it back, by the contract of the erasure code.
LEMMA RebuiltIsColumn ==
  ASSUME Asked, mapped \subseteq DataPositions, NEW col \in Indices(dims.cols), Enough(col)
  PROVE  Rebuilt(col) = [err |-> "none", scalars |-> Column(block, col)]
<1> DEFINE column == Column(block, col)
           coded == ExtendColumn(dims.rows, column)
<1>1. ErasureContract(dims.rows, {Column(block, c) : c \in Indices(dims.cols)})
  BY ErasureAssumption DEF Asked, dims, block
<1>2. column \in {Column(block, c) : c \in Indices(dims.cols)}
  OBVIOUS
<1>3. ExtendedRows(dims) = EXTENSION_FACTOR * dims.rows
  <2>1. dims.rows \in Nat
    BY Shape DEF Asked, dims, block
  <2> QED BY <2>1 DEF ExtendedRows, EXTENSION_FACTOR
<1>4. RowsOf(col) \in SUBSET Indices(EXTENSION_FACTOR * dims.rows)
  BY <1>3, RowsInside
<1>5. Cardinality(RowsOf(col)) >= dims.rows
  BY DEF Enough
<1> HIDE DEF column
<1>6. Reconstruct(EXTENSION_FACTOR * dims.rows, [row \in RowsOf(col) |-> coded[row]])
        = [err |-> "none", scalars |-> column]
  BY <1>1, <1>2, <1>4, <1>5 DEF ErasureContract, Indices
<1> QED BY <1>3, <1>6 DEF Rebuilt, Given, column

\* A column is never empty, unlike the mark for one without cells.
LEMMA ColumnIsSome ==
  ASSUME Asked, NEW col
  PROVE  Column(block, col) # NoScalars
<1>1. dims.rows \in Nat \ {0}
  BY Shape DEF Asked, dims, block
<1>2. 0 \in DOMAIN Column(block, col)
  BY <1>1 DEF Column, Indices, dims
<1>3. DOMAIN NoScalars = {}
  BY DEF NoScalars
<1> QED BY <1>2, <1>3

LEMMA InitColumnsInv == Init => ColumnsInv
<1> QED BY DEF Init, ColumnsInv, Asked, PcInv, ColumnInv, ColumnsExact, Pending

LEMMA RequestStays ==
  ASSUME [Next]_vars
  PROVE  request' = request /\ block' = block /\ dims' = dims /\ op' = op
<1> QED
  BY DEF Next, vars, DecodeNothing, BeginMap, MapEnd, MapCell, MapInvalid, MapDuplicate, SkipColumn,
     InvalidColumn, ReconstructColumn, ReturnColumns, ReadColumns, MissingCell, ReadCells,
     MissingRange, FindRanges, UnflattenPanics, UnflattenFails, Unflatten, Return, block, dims, op

LEMMA StepColumnInv ==
  ASSUME ColumnsInv, [Next]_vars
  PROVE  mapped' \subseteq DataPositions' /\ ColumnInv'
<1> USE DEF ColumnsInv
<1>0. request' = request /\ block' = block /\ dims' = dims /\ op' = op
  BY RequestStays
<1>1. mapped' \subseteq DataPositions'
  <2>1. ASSUME NEW position \in Positions, MapCell(position) PROVE mapped' \subseteq DataPositions'
    <3>1. position \in DataPositions
      <4>1. ExtendedRows(dims) \in Nat /\ dims.cols \in Nat
        BY Shape DEF Asked, dims, block
      <4> QED BY <2>1, <4>1 DEF MapCell, Positions, ExtendedContains, DataPositions, Indices
    <3> QED BY <1>0, <2>1, <3>1 DEF MapCell, DataPositions
  <2>2. CASE UNCHANGED mapped
    BY <1>0, <2>2 DEF DataPositions
  <2> QED
    BY <2>1, <2>2 DEF Next, vars, DecodeNothing, BeginMap, MapEnd, MapInvalid, MapDuplicate,
       SkipColumn, InvalidColumn, ReconstructColumn, ReturnColumns, ReadColumns, MissingCell,
       ReadCells, MissingRange, FindRanges, UnflattenPanics, UnflattenFails, Unflatten, Return
<1>2. ColumnInv'
  <2>1. CASE MapEnd
    <3>1. /\ pc' = IF op = "decode" THEN "read" ELSE "columns"
          /\ pending' = CASE op = "decode" -> {}
                          [] op = "columns" -> {position.col : position \in mapped}
                          [] OTHER -> Indices(dims.cols)
          /\ scalars' = [col \in pending' |-> NoScalars] /\ mapped' = mapped
      BY <2>1 DEF MapEnd
    <3>2. op \in {"app", "all", "decode", "columns"}
      BY Shape DEF Asked, op
    <3> QED BY <1>0, <3>1, <3>2 DEF ColumnInv
  <2>2. ASSUME NEW col \in Indices(dims.cols), SkipColumn(col) PROVE ColumnInv'
    <3>1. /\ pending' = pending \ {col} /\ col \in pending /\ RowsOf(col) = {} /\ pc = "columns"
          /\ UNCHANGED << pc, scalars, mapped >>
      BY <2>2 DEF SkipColumn, IsNext
    <3>2. \A c : RowsOf(c)' = RowsOf(c) /\ (Enough(c)' <=> Enough(c))
      BY <1>0, <3>1 DEF RowsOf, Enough
    <3>3. \A c : Settled(c) <=> Settled(c)'
      BY <1>0, <3>1, <3>2 DEF Settled
    <3>4. Settled(col)
      BY <3>1 DEF ColumnInv, Settled
    <3> QED BY <1>0, <3>1, <3>3, <3>4 DEF ColumnInv
  <2>3. ASSUME NEW col \in Indices(dims.cols), ReconstructColumn(col) PROVE ColumnInv'
    <3>1. /\ pc = "columns" /\ col \in pending /\ RowsOf(col) # {} /\ Enough(col)
          /\ mapped' = mapped
      BY <2>3 DEF ReconstructColumn, IsNext
    <3>2. Rebuilt(col).err = "none" /\ Rebuilt(col).scalars = Column(block, col)
      BY <3>1, RebuiltIsColumn
    <3>3. /\ scalars' = [scalars EXCEPT ![col] = Column(block, col)]
          /\ pending' = pending \ {col} /\ pc' = pc
      BY <2>3, <3>2 DEF ReconstructColumn
    <3>4. \A c : RowsOf(c)' = RowsOf(c) /\ (Enough(c)' <=> Enough(c))
      BY <1>0, <3>1 DEF RowsOf, Enough
    <3>5. /\ DOMAIN scalars' = DOMAIN scalars
          /\ scalars' = [c \in DOMAIN scalars' |-> scalars'[c]]
          /\ \A c \in DOMAIN scalars : c # col => scalars'[c] = scalars[c]
          /\ col \in DOMAIN scalars => scalars'[col] = Column(block, col)
      BY <3>1, <3>3 DEF ColumnInv
    <3>6. \A c \in pending' : c \in DOMAIN scalars => scalars'[c] = NoScalars
      BY <3>1, <3>3, <3>5 DEF ColumnInv
    <3>7. \A c \in DOMAIN scalars' \ pending' : Settled(c)'
      <4> SUFFICES ASSUME NEW c \in DOMAIN scalars \ pending' PROVE Settled(c)'
        BY <3>5
      <4>1. CASE c = col
        BY <1>0, <3>1, <3>4, <3>5, <4>1 DEF Settled
      <4>2. CASE c # col
        <5>1. Settled(c)
          BY <3>1, <3>3, <4>2 DEF ColumnInv
        <5> QED BY <1>0, <3>4, <3>5, <4>2, <5>1 DEF Settled
      <4> QED BY <4>1, <4>2
    <3> QED BY <1>0, <3>1, <3>3, <3>5, <3>6, <3>7 DEF ColumnInv
  <2>4. CASE pc' # "columns"
    BY <2>4 DEF ColumnInv
  <2>5. CASE pc = "columns" /\ UNCHANGED << pc, pending, scalars, mapped >>
    <3>1. \A c : RowsOf(c)' = RowsOf(c) /\ (Enough(c)' <=> Enough(c))
      BY <1>0, <2>5 DEF RowsOf, Enough
    <3>2. \A c : Settled(c) <=> Settled(c)'
      BY <1>0, <2>5, <3>1 DEF Settled
    <3> QED BY <1>0, <2>5, <3>2 DEF ColumnInv
  <2> QED
    BY <2>1, <2>2, <2>3, <2>4, <2>5 DEF Next, vars, Finish, DecodeNothing, BeginMap, MapCell,
       MapInvalid, MapDuplicate, InvalidColumn, ReturnColumns, ReadColumns, MissingCell,
       ReadCells, MissingRange, FindRanges, UnflattenPanics, UnflattenFails, Unflatten, Return
<1> QED BY <1>1, <1>2

LEMMA StepPcInv ==
  ASSUME ColumnsInv, [Next]_vars
  PROVE  PcInv'
<1> USE DEF ColumnsInv
<1>0. op' = op
  BY RequestStays
<1>1. CASE UNCHANGED vars
  BY <1>0, <1>1 DEF PcInv, vars, Pending
<1>2. CASE DecodeNothing \/ MissingCell \/ MissingRange \/ UnflattenPanics \/ UnflattenFails \/ Return
           \/ ReturnColumns
  <2>1. pc' = "done" /\ \E value : reply' \in {Ok(value), Err(value), Panic}
    BY <1>2 DEF Finish, DecodeNothing, MissingCell, MissingRange, UnflattenPanics, UnflattenFails,
       Return, ReturnColumns
  <2> QED BY <2>1 DEF PcInv, Pending, Ok, Err, Panic
<1>3. CASE BeginMap \/ MapEnd \/ ReadColumns \/ ReadCells \/ FindRanges \/ Unflatten
  BY <1>0, <1>3 DEF PcInv, Pending, BeginMap, MapEnd, ReadColumns, ReadCells, FindRanges, Unflatten
<1>4. ASSUME NEW position, MapCell(position) \/ MapInvalid(position) \/ MapDuplicate(position)
      PROVE  PcInv'
  BY <1>0, <1>4 DEF PcInv, Pending, Err, Finish, MapCell, MapInvalid, MapDuplicate
<1>5. ASSUME NEW col, SkipColumn(col) \/ InvalidColumn(col) \/ ReconstructColumn(col)
      PROVE  PcInv'
  BY <1>0, <1>5 DEF PcInv, Pending, Err, Finish, SkipColumn, InvalidColumn, ReconstructColumn
<1> QED BY <1>1, <1>2, <1>3, <1>4, <1>5 DEF Next

LEMMA StepColumnsExact ==
  ASSUME ColumnsInv, [Next]_vars
  PROVE  ColumnsExact'
<1> USE DEF ColumnsInv
<1>0. request' = request /\ block' = block /\ dims' = dims /\ op' = op
  BY RequestStays
<1>1. CASE ReturnColumns
  <2>1. /\ pc = "columns" /\ pending = {} /\ op = "columns" /\ mapped' = mapped
        /\ reply' = Ok(scalars)
    BY <1>1 DEF ReturnColumns, Finish
  <2> DEFINE cols == {position.col : position \in mapped}
  <2>2. \A col \in cols : RowsOf(col) # {}
    BY DEF RowsOf
  <2>3. \A col \in cols : scalars[col] = Column(block, col)
    BY <2>1, <2>2 DEF ColumnInv, Settled
  <2>4. scalars = [col \in cols |-> scalars[col]]
    BY <2>1 DEF ColumnInv
  <2> HIDE DEF cols
  <2>5. scalars = [col \in cols |-> Column(block, col)]
    BY <2>3, <2>4
  <2> QED BY <1>0, <2>1, <2>5 DEF ColumnsExact, Ok, cols
<1>2. CASE pc' # "done"
  <2>1. reply' = Pending
    BY <1>2, StepPcInv DEF PcInv, Pending
  <2> QED BY <2>1 DEF ColumnsExact, Pending
<1>3. CASE UNCHANGED << mapped, reply >>
  BY <1>0, <1>3 DEF ColumnsExact
<1>4. CASE op # "columns"
  BY <1>0, <1>4 DEF ColumnsExact
<1>5. CASE reply'.kind # "ok"
  BY <1>5 DEF ColumnsExact
<1>6. CASE op = "columns" /\ (DecodeNothing \/ Return)
  BY <1>6 DEF DecodeNothing, Return, PcInv
<1>7. CASE op = "columns" /\ pc' = "done" /\ ~UNCHANGED << mapped, reply >>
  <2>1. DecodeNothing \/ Return \/ ReturnColumns \/ reply'.kind # "ok"
    BY <1>7 DEF Next, vars, Finish, Err, Panic, BeginMap, MapEnd, MapCell, MapInvalid,
       MapDuplicate, SkipColumn, InvalidColumn, ReconstructColumn, ReadColumns, MissingCell,
       ReadCells, MissingRange, FindRanges, UnflattenPanics, UnflattenFails, Unflatten
  <2> QED BY <2>1, <1>1, <1>5, <1>6, <1>7
<1> QED BY <1>2, <1>3, <1>4, <1>7

LEMMA ColumnsInvariance == Spec => []ColumnsInv
<1>1. ColumnsInv /\ [Next]_vars => ColumnsInv'
  <2> SUFFICES ASSUME ColumnsInv, [Next]_vars PROVE ColumnsInv'
    OBVIOUS
  <2>1. Asked'
    BY RequestStays DEF Asked, ColumnsInv
  <2> QED BY <2>1, StepColumnInv, StepPcInv, StepColumnsExact DEF ColumnsInv
<1> QED BY InitColumnsInv, <1>1, PTL DEF Spec

\* reconstruct_columns answers with exactly the columns cells came for, each as
\* the author filled it, in whatever order the map yields them: for every
\* erasure code that keeps its contract.
THEOREM ReconstructedColumnsAreExact == Spec => []ColumnsExact
<1>1. ColumnsInv => ColumnsExact
  BY DEF ColumnsInv
<1> QED BY ColumnsInvariance, <1>1, PTL

-------------------------------------------------------------------------------
\* The rows and the cells of an application.

LEMMA Quotient ==
  ASSUME NEW n \in Nat, NEW m \in Nat, NEW c \in Nat \ {0}
  PROVE  /\ n \div c \in Nat
         /\ (n \div c) * c <= n /\ n < (n \div c) * c + c
         /\ n <= m => n \div c <= m \div c
         /\ (n * c) \div c = n
<1>1. n \div c \in Nat /\ (n \div c) * c <= n /\ n < (n \div c) * c + c
  OBVIOUS
<1>2. n <= m => n \div c <= m \div c
  OBVIOUS
<1>3. (n * c) \div c = n
  OBVIOUS
<1> QED BY <1>1, <1>2, <1>3

\* Rows are numbered in the order of their cells.
LEMMA RowOfCell ==
  ASSUME NEW matrix, matrix.cols \in Nat \ {0}, NEW a \in Nat, NEW b \in Nat
  PROVE  /\ DataRow(matrix, a) \in Nat
         /\ ExtendedDataRow(matrix, a) = 2 * DataRow(matrix, a)
         /\ a <= b => DataRow(matrix, a) <= DataRow(matrix, b)
<1>1. a \div matrix.cols \in Nat /\ (a <= b => a \div matrix.cols <= b \div matrix.cols)
  BY Quotient
<1> QED BY <1>1 DEF DataRow, ExtendedDataRow, EXTENSION_FACTOR

\* Between the rows of the ends of a range of cells lie only rows of the range.
LEMMA RowsOfRange ==
  ASSUME NEW matrix, matrix.cols \in Nat \ {0}, NEW a \in Nat, NEW b \in Nat, NEW q \in Nat,
         a <= b, DataRow(matrix, a) <= q, q <= DataRow(matrix, b)
  PROVE  \E n \in a .. b : DataRow(matrix, n) = q
<1> DEFINE c == matrix.cols
<1> USE DEF DataRow
<1>1. CASE q * c < a
  <2>1. q * c \in Nat /\ a \div c \in Nat
    BY Quotient
  <2>2. q <= a \div c
    BY <1>1, <2>1, Quotient
  <2>3. q = a \div c
    BY <2>1, <2>2
  <2> QED BY <2>3
<1>2. CASE a <= q * c
  <2>1. b \div c \in Nat /\ (b \div c) * c <= b
    BY Quotient
  <2>2. \A i, j \in Nat : i <= j => i * c <= j * c
    OBVIOUS
  <2>3. q * c \in Nat /\ q * c <= (b \div c) * c /\ (b \div c) * c \in Nat
    BY <2>1, <2>2
  <2>4. q * c \in a .. b
    BY <1>2, <2>1, <2>3
  <2> QED BY <2>4, Quotient
<1>3. q * c \in Nat
  OBVIOUS
<1> QED BY <1>1, <1>2, <1>3

\* An application of an honest block has a range of chunks inside the matrix.
LEMMA AppRangeInside ==
  ASSUME NEW r \in Requests, Honest(r.block), RangeOf(r.block.lookup, r.id) # NoRange
  PROVE  LET range == RangeOf(r.block.lookup, r.id)
         IN  /\ range.start \in Nat /\ range.end \in Nat
             /\ range.end <= Size(r.block.dims)
             /\ range.end = 0 \/ range.start < range.end
             /\ range.start <= range.end
<1> DEFINE range == RangeOf(r.block.lookup, r.id)
           lookup == r.block.lookup
<1>1. PICK k \in 1 .. Len(lookup) :
        lookup[k] \in Entries /\ range = Range32(lookup[k].start, lookup[k].end)
  BY Shape, RangeOfEntry
<1>2. range.start = lookup[k].start /\ range.end = lookup[k].end
  BY <1>1 DEF Range32
<1>3. lookup[k].end = 0 \/ lookup[k].start < lookup[k].end
  <2>1. CASE lookup[k] = Entry(0, 0, 0)
    BY <2>1 DEF Entry
  <2>2. CASE \E j \in 1 .. Len(r.block.index) : lookup[k] = r.block.index[j]
    BY <2>2, Shape, LenProperties DEF Honest
  <2> QED BY <2>1, <2>2, EntryOfReceived
<1>4. lookup[k].start <= lookup[k].end /\ lookup[k].end <= Size(r.block.dims)
  BY EntryInside
<1> HIDE DEF range
<1> QED BY <1>1, <1>2, <1>3, <1>4 DEF Entries, range

LEMMA RowsOfCells ==
  ASSUME Asked, Honest(block)
  PROVE  AppSpecificRows(block.lookup, dims, request.id) = {position.row : position \in AppCells}
<1> DEFINE range == RangeOf(block.lookup, request.id)
           start == range.start
           end == range.end
<1>0. block = request.block /\ dims = request.block.dims /\ dims.cols \in Nat \ {0}
  BY Shape DEF Asked, block, dims
<1>1. CASE range = NoRange
  BY <1>1 DEF AppSpecificRows, AppCells, AppSpecificCells
<1>2. CASE range # NoRange
  <2>1. /\ start \in Nat /\ end \in Nat /\ end <= Size(dims) /\ start <= end
        /\ end = 0 \/ start < end
    BY <1>0, <1>2, AppRangeInside DEF Asked
  <2>2. Size(dims) \in Nat
    BY <1>0, Shape DEF Asked
  <2>3. AppCells = {ExtendedDataPosition(dims, cell) : cell \in start .. (end - 1)}
    BY <1>2, <2>1 DEF AppCells, AppSpecificCells, ExtendedDataPositions
  <2>4. {position.row : position \in AppCells} = {ExtendedDataRow(dims, cell) : cell \in start .. (end - 1)}
    <3>1. \A cell : ExtendedDataPosition(dims, cell).row = ExtendedDataRow(dims, cell)
      BY DEF ExtendedDataPosition, Position
    <3>2. \A position : position \in AppCells <=>
            \E cell \in start .. (end - 1) : position = ExtendedDataPosition(dims, cell)
      BY <2>3
    <3> HIDE DEF range
    <3> QED BY <3>1, <3>2
  <2>5. AppSpecificRows(block.lookup, dims, request.id) = ExtendedDataRows(dims, start, end)
    BY <1>2 DEF AppSpecificRows
  <2> HIDE DEF range
  <2>6. CASE end = 0
    <3>1. start .. (end - 1) = {}
      BY <2>1, <2>6
    <3> QED BY <2>4, <2>5, <2>6, <3>1 DEF ExtendedDataRows
  <2>7. CASE end # 0
    <3>0. start <= end - 1 /\ end - 1 \in Nat
      BY <2>1, <2>7
    <3>1. ExtendedDataRows(dims, start, end) =
            {row \in 2 * DataRow(dims, start) .. 2 * DataRow(dims, end - 1) : row % 2 = 0}
      BY <1>0, <2>1, <2>2, <2>7, <3>0, RowOfCell DEF ExtendedDataRows, EXTENSION_FACTOR
    <3>2. ASSUME NEW cell \in start .. (end - 1)
          PROVE  /\ ExtendedDataRow(dims, cell) \in 2 * DataRow(dims, start) .. 2 * DataRow(dims, end - 1)
                 /\ ExtendedDataRow(dims, cell) % 2 = 0
      <4>1. cell \in Nat /\ start <= cell /\ cell <= end - 1
        BY <2>1, <3>0
      <4>2. /\ DataRow(dims, cell) \in Nat /\ DataRow(dims, start) \in Nat
            /\ DataRow(dims, end - 1) \in Nat
            /\ DataRow(dims, start) <= DataRow(dims, cell)
            /\ DataRow(dims, cell) <= DataRow(dims, end - 1)
            /\ ExtendedDataRow(dims, cell) = 2 * DataRow(dims, cell)
        BY <1>0, <2>1, <3>0, <4>1, RowOfCell
      <4> QED BY <4>2
    <3>3. ASSUME NEW row \in 2 * DataRow(dims, start) .. 2 * DataRow(dims, end - 1), row % 2 = 0
          PROVE  \E cell \in start .. (end - 1) : row = ExtendedDataRow(dims, cell)
      <4>1. DataRow(dims, start) \in Nat /\ DataRow(dims, end - 1) \in Nat
        BY <1>0, <2>1, <3>0, RowOfCell
      <4>2. PICK q \in Nat : row = 2 * q /\ DataRow(dims, start) <= q /\ q <= DataRow(dims, end - 1)
        <5>1. row \in Nat /\ row = 2 * (row \div 2)
          BY <3>3, <4>1
        <5> QED BY <3>3, <4>1, <5>1
      <4>3. \E cell \in start .. (end - 1) : DataRow(dims, cell) = q
        <5> DEFINE last == end - 1
        <5>1. /\ dims.cols \in Nat \ {0} /\ start \in Nat /\ last \in Nat /\ start <= last
              /\ DataRow(dims, start) <= q /\ q <= DataRow(dims, last)
          BY <1>0, <2>1, <3>0, <4>2
        <5> HIDE DEF last, start, end
        <5>2. \E cell \in start .. last : DataRow(dims, cell) = q
          BY <5>1, RowsOfRange
        <5> QED BY <5>2 DEF last
      <4> QED BY <1>0, <2>1, <4>2, <4>3, RowOfCell
    <3>4. {row \in 2 * DataRow(dims, start) .. 2 * DataRow(dims, end - 1) : row % 2 = 0}
            = {ExtendedDataRow(dims, cell) : cell \in start .. (end - 1)}
      BY <3>2, <3>3
    <3> QED BY <2>4, <2>5, <3>1, <3>4
  <2> QED BY <2>6, <2>7
<1> QED BY <1>1, <1>2

\* app_specific_rows names the rows app_specific_cells has cells in, for every
\* matrix and every honest header.
THEOREM RowsAreThoseOfCells == Spec => []RowsAndCellsAgree
<1>1. PanicInv => RowsAndCellsAgree
  BY RowsOfCells DEF PanicInv, RowsAndCellsAgree
<1> QED BY PanicInvariance, <1>1, PTL

-------------------------------------------------------------------------------
(***************************************************************************)
(* The promise to a light client.  From here on r is a request the promise *)
(* is about, and its range the chunks of the application it asks for.      *)
(***************************************************************************)
OwnRange(r) == RangeOf(r.block.index, r.id)

\* The range is inside the matrix, its bytes fit u32, its first chunk tells a
\* length that fits the range; and with the phantom entry or without, the
\* receiver finds it.
LEMMA PromisedRange ==
  ASSUME NEW r \in PromisedRequests
  PROVE  /\ OwnRange(r).start \in Nat /\ OwnRange(r).end \in Nat
         /\ OwnRange(r) = Range32(OwnRange(r).start, OwnRange(r).end)
         /\ OwnRange(r).start < OwnRange(r).end /\ OwnRange(r).end <= Size(r.block.dims)
         /\ 32 * OwnRange(r).end <= U32Max
         /\ r.block.chunks[OwnRange(r).start] \in 1 .. (OwnRange(r).end - OwnRange(r).start)
         /\ RangeOf(r.block.lookup, r.id) = OwnRange(r)
<1> DEFINE index == r.block.index
           lookup == r.block.lookup
<1>1. r \in Requests /\ Honest(r.block) /\ HasApp(r.block, r.id)
  BY DEF PromisedRequests
<1>2. index \in Seq(Entries) /\ lookup \in Seq(Entries)
  BY <1>1, Shape
<1>3. DOMAIN index = 1 .. Len(index) /\ Len(index) \in Nat
  BY <1>2, LenProperties
<1>4. PICK k \in 1 .. Len(index) : index[k].id = r.id
  BY <1>1, <1>3 DEF HasApp
<1>5. \A i, j \in 1 .. Len(index) : i < j => index[i].id < index[j].id
  BY <1>1, <1>3 DEF Honest
<1>6. \A j \in 1 .. Len(index) : index[j] \in Entries
  BY <1>2, ElementOfSeq
<1>7. \A j \in 1 .. Len(index) : index[j].id \in Nat
  BY <1>6 DEF Entries
<1>8. \A j \in 1 .. Len(index) : index[j].id = index[k].id => j = k
  BY <1>3, <1>5, <1>7
<1>9. OwnRange(r) = Range32(index[k].start, index[k].end)
  BY <1>2, <1>4, <1>8, RangeOfOnly DEF OwnRange
<1>10. OwnRange(r).start = index[k].start /\ OwnRange(r).end = index[k].end
  BY <1>9 DEF Range32
<1>11. /\ index[k].start < index[k].end /\ index[k].end <= Size(r.block.dims)
       /\ index[k].end * CHUNK_SIZE <= U32Max
       /\ r.block.chunks[index[k].start] \in 1 .. (index[k].end - index[k].start)
  BY <1>1, <1>3 DEF Honest
<1>12. index[k].start \in Nat /\ index[k].end \in Nat
  BY <1>6 DEF Entries
<1>13. RangeOf(lookup, r.id) = OwnRange(r)
  <2>0. lookup = Received(index)
    BY <1>1 DEF Honest
  <2>1. CASE index = << >> \/ index[1].id = 0
    BY <2>0, <2>1 DEF Received, OwnRange
  <2>2. CASE ~(index = << >> \/ index[1].id = 0)
    <3>1. lookup = << Entry(0, 0, 0) >> \o index
      BY <2>0, <2>2 DEF Received
    <3>2. << Entry(0, 0, 0) >> \in Seq(Entries) /\ Len(<< Entry(0, 0, 0) >>) = 1
      BY DEF Entries, Entry
    <3>3. /\ Len(lookup) = 1 + Len(index)
          /\ \A j \in 1 .. (1 + Len(index)) :
               lookup[j] = IF j <= 1 THEN << Entry(0, 0, 0) >>[j] ELSE index[j - 1]
      BY <1>2, <3>1, <3>2, ConcatProperties
    <3>4. \A j \in 1 .. Len(index) : index[j].id # 0
      <4> SUFFICES ASSUME NEW j \in 1 .. Len(index) PROVE index[j].id # 0
        OBVIOUS
      <4>1. 1 \in 1 .. Len(index)
        BY <1>3
      <4>2. index[1].id \in Nat \ {0}
        BY <1>7, <2>2, <4>1
      <4> QED BY <1>3, <1>5, <1>7, <4>1, <4>2
    <3>5. lookup[1].id = 0
      BY <1>3, <3>3 DEF Entry
    <3>6. \A j \in 2 .. (1 + Len(index)) : lookup[j] = index[j - 1]
      BY <1>3, <3>3
    <3>7. k + 1 \in 1 .. Len(lookup) /\ lookup[k + 1] = index[k]
      BY <1>3, <3>3, <3>6
    <3>8. \A j \in 1 .. Len(lookup) : lookup[j].id = lookup[k + 1].id => j = k + 1
      <4> SUFFICES ASSUME NEW j \in 1 .. Len(lookup), lookup[j].id = lookup[k + 1].id PROVE j = k + 1
        OBVIOUS
      <4>1. j # 1
        BY <3>4, <3>5, <3>7
      <4>2. j - 1 \in 1 .. Len(index) /\ lookup[j] = index[j - 1]
        BY <1>3, <3>3, <3>6, <4>1
      <4>3. j - 1 = k
        BY <1>8, <3>7, <4>2
      <4> QED BY <4>3
    <3>9. RangeOf(lookup, lookup[k + 1].id) = Range32(lookup[k + 1].start, lookup[k + 1].end)
      BY <1>2, <3>7, <3>8, RangeOfOnly
    <3> QED BY <1>4, <1>9, <3>7, <3>9
  <2> QED BY <2>1, <2>2
<1> QED BY <1>9, <1>10, <1>11, <1>12, <1>13 DEF CHUNK_SIZE

\* The chunks of the application, and where their cells are.
Chunks(r) == OwnRange(r).start .. (OwnRange(r).end - 1)

LEMMA PromisedChunks ==
  ASSUME NEW r \in PromisedRequests
  PROVE  /\ Chunks(r) \subseteq Indices(Size(r.block.dims))
         /\ OwnRange(r).start \in Chunks(r)
         /\ AppSpecificCells(r.block.lookup, r.block.dims, r.id)
              = {ExtendedDataPosition(r.block.dims, k) : k \in Chunks(r)}
<1> DEFINE range == OwnRange(r)
<1>1. /\ range.start \in Nat /\ range.end \in Nat /\ range.start < range.end
      /\ range.end <= Size(r.block.dims) /\ Size(r.block.dims) \in Nat
  BY PromisedRange, Shape DEF PromisedRequests
<1>2. range # NoRange /\ RangeOf(r.block.lookup, r.id) = range
  <2>1. range.start # -1
    BY <1>1
  <2> QED BY <2>1, PromisedRange DEF NoRange, Range32
<1>3. AppSpecificCells(r.block.lookup, r.block.dims, r.id)
        = {ExtendedDataPosition(r.block.dims, k) : k \in range.start .. (range.end - 1)}
  BY <1>1, <1>2 DEF AppSpecificCells, ExtendedDataPositions
<1> HIDE DEF range
<1> QED BY <1>1, <1>3 DEF Chunks, Indices, range

LEMMA Division ==
  ASSUME NEW n \in Nat, NEW c \in Nat \ {0}
  PROVE  n % c \in 0 .. (c - 1) /\ n \div c \in Nat /\ (n \div c) * c + (n % c) = n
<1>1. n % c \in 0 .. (c - 1) /\ n \div c \in Nat
  OBVIOUS
<1>2. (n \div c) * c + (n % c) = n
  OBVIOUS
<1> QED BY <1>1, <1>2

\* The cell of a chunk is in a row and column of the extended matrix, and in
\* the column it carries what the chunk is.
LEMMA CellOfChunk ==
  ASSUME NEW r \in Requests, NEW k \in Indices(Size(r.block.dims))
  PROVE  LET matrix == r.block.dims
         IN  /\ Col(matrix, k) \in Indices(matrix.cols)
             /\ DataRow(matrix, k) \in Indices(matrix.rows)
             /\ ExtendedDataRow(matrix, k) = EXTENSION_FACTOR * DataRow(matrix, k)
             /\ Column(r.block, Col(matrix, k))[DataRow(matrix, k)] = r.block.chunks[k]
<1> DEFINE c == r.block.dims.cols
           h == r.block.dims.rows
<1>1. c \in Nat \ {0} /\ h \in Nat \ {0} /\ Size(r.block.dims) = h * c
  BY Shape DEF Size
<1>2. h * c \in Nat
  BY <1>1
<1>3. k \in Nat /\ k < h * c
  BY <1>1, <1>2 DEF Indices
<1> HIDE DEF c, h
<1>4. /\ k % c \in 0 .. (c - 1) /\ k \div c \in Nat
      /\ (k \div c) * c + (k % c) = k
  BY <1>1, <1>3, Division
<1>5. k \div c \in 0 .. (h - 1)
  <2>1. \A m, n \in Nat : (m * c <= k /\ k < n * c) => m < n
    BY <1>1, <1>3
  <2>2. (k \div c) * c <= k
    BY <1>1, <1>3, Quotient
  <2> QED BY <1>1, <1>3, <1>4, <2>1, <2>2
<1>6. /\ Col(r.block.dims, k) = k % c /\ DataRow(r.block.dims, k) = k \div c
      /\ ExtendedDataRow(r.block.dims, k) = EXTENSION_FACTOR * (k \div c)
  <2>1. (k \div c) * EXTENSION_FACTOR = EXTENSION_FACTOR * (k \div c)
    BY <1>4 DEF EXTENSION_FACTOR
  <2> QED BY <2>1 DEF Col, DataRow, ExtendedDataRow, c
<1>7. Column(r.block, k % c)[k \div c] = r.block.chunks[(k \div c) * c + (k % c)]
  <2>1. \A row \in 0 .. (h - 1) : \A col :
          Column(r.block, col)[row] = r.block.chunks[row * c + col]
    BY DEF Column, Indices, c, h
  <2> QED BY <1>5, <2>1
<1> QED BY <1>4, <1>5, <1>6, <1>7 DEF Indices, c, h

-------------------------------------------------------------------------------
\* What was read back.

\* A chunk is known if its column came, or its own cell.
Known(k) ==
  IF op = "app" THEN RowsOf(Col(dims, k)) # {} ELSE ExtendedDataPosition(dims, k) \in mapped

CellsInv ==
  pc \in {"ranges", "unflatten"} /\ op \in {"app", "decode"} =>
    /\ op = "app" => \A col \in Indices(dims.cols) : RowsOf(col) = {} \/ Enough(col)
    /\ op = "decode" => AppCells \subseteq mapped
    /\ \A k \in Indices(Size(dims)) : Known(k) => data[k] = block.chunks[k]

\* The systematic part of a coded column.
LEMMA CodedCell ==
  ASSUME Asked, NEW k \in Indices(Size(dims)), ExtendedDataPosition(dims, k) \in mapped
  PROVE  Given(Col(dims, k))[ExtendedDataRow(dims, k)] = block.chunks[k]
<1> DEFINE col == Col(dims, k)
           row == ExtendedDataRow(dims, k)
           coded == ExtendColumn(dims.rows, Column(block, col))
<1>1. /\ col \in Indices(dims.cols) /\ DataRow(dims, k) \in Indices(dims.rows)
      /\ row = EXTENSION_FACTOR * DataRow(dims, k)
      /\ Column(block, col)[DataRow(dims, k)] = block.chunks[k]
  BY CellOfChunk DEF Asked, dims, block
<1>2. ErasureContract(dims.rows, {Column(block, c) : c \in Indices(dims.cols)})
  BY ErasureAssumption DEF Asked, dims, block
<1>3. coded[EXTENSION_FACTOR * DataRow(dims, k)] = Column(block, col)[DataRow(dims, k)]
  BY <1>1, <1>2 DEF ErasureContract, Indices
<1>4. row \in RowsOf(col)
  BY DEF RowsOf, ExtendedDataPosition, Position
<1>5. Given(col)[row] = coded[row]
  BY <1>4 DEF Given
<1> QED BY <1>1, <1>3, <1>5

LEMMA StepCellsInv ==
  ASSUME ColumnsInv, CellsInv, [Next]_vars
  PROVE  CellsInv'
<1> USE DEF ColumnsInv
<1>0. request' = request /\ block' = block /\ dims' = dims /\ op' = op
  BY RequestStays
<1>1. ASSUME UNCHANGED mapped
      PROVE  /\ \A col : RowsOf(col)' = RowsOf(col) /\ (Enough(col)' <=> Enough(col))
             /\ \A k : Known(k)' <=> Known(k)
             /\ AppCells' = AppCells
  BY <1>0, <1>1 DEF RowsOf, Enough, Known, AppCells
<1>2. CASE ReadColumns
  <2>1. /\ pc = "columns" /\ pending = {} /\ mapped' = mapped
        /\ op \in {"app", "all"}
        /\ data' = [k \in Indices(Size(dims)) |->
                      LET column == scalars[Col(dims, k)]
                      IN  IF column = NoScalars THEN 0 ELSE column[DataRow(dims, k)]]
    BY <1>2 DEF ReadColumns
  <2>2. op = "app" => \A col \in Indices(dims.cols) : Settled(col)
    BY <2>1 DEF ColumnInv
  <2>3. ASSUME op = "app", NEW k \in Indices(Size(dims)), RowsOf(Col(dims, k)) # {}
        PROVE  data'[k] = block.chunks[k]
    <3>1. /\ Col(dims, k) \in Indices(dims.cols)
          /\ Column(block, Col(dims, k))[DataRow(dims, k)] = block.chunks[k]
      BY CellOfChunk DEF Asked, dims, block
    <3>2. scalars[Col(dims, k)] = Column(block, Col(dims, k))
      BY <2>2, <2>3, <3>1 DEF Settled
    <3>3. scalars[Col(dims, k)] # NoScalars
      BY <3>2, ColumnIsSome
    <3> QED BY <2>1, <3>1, <3>2, <3>3
  <2>4. op = "app" => \A col \in Indices(dims.cols) : RowsOf(col) = {} \/ Enough(col)
    BY <2>2 DEF Settled
  <2>5. \A k \in Indices(Size(dims)) : op = "app" /\ Known(k) => data'[k] = block.chunks[k]
    BY <2>3 DEF Known
  <2> QED BY <1>0, <1>1, <2>1, <2>4, <2>5 DEF CellsInv
<1>3. CASE ReadCells
  <2>1. /\ AppCells \subseteq mapped /\ mapped' = mapped /\ op = "decode"
        /\ data' = [k \in Indices(Size(dims)) |->
                      LET position == ExtendedDataPosition(dims, k)
                      IN  IF position \in mapped THEN Given(position.col)[position.row] ELSE 0]
    BY <1>3 DEF ReadCells, PcInv
  <2>2. ASSUME NEW k \in Indices(Size(dims)), Known(k)
        PROVE  data'[k] = block.chunks[k]
    <3>1. ExtendedDataPosition(dims, k) \in mapped
      BY <2>1, <2>2 DEF Known
    <3>2. /\ ExtendedDataPosition(dims, k).col = Col(dims, k)
          /\ ExtendedDataPosition(dims, k).row = ExtendedDataRow(dims, k)
      BY DEF ExtendedDataPosition, Position
    <3>3. data'[k] = Given(Col(dims, k))[ExtendedDataRow(dims, k)]
      BY <2>1, <3>1, <3>2
    <3> QED BY <3>1, <3>3, CodedCell
  <2> QED BY <1>0, <1>1, <2>1, <2>2 DEF CellsInv
<1>4. CASE pc' \notin {"ranges", "unflatten"}
  BY <1>4 DEF CellsInv
<1>5. CASE pc \in {"ranges", "unflatten"} /\ UNCHANGED << mapped, data >>
  BY <1>0, <1>1, <1>5 DEF CellsInv
<1> QED
  BY <1>2, <1>3, <1>4, <1>5 DEF Next, vars, Finish, DecodeNothing, BeginMap, MapEnd, MapCell,
     MapInvalid, MapDuplicate, SkipColumn, InvalidColumn, ReconstructColumn, ReturnColumns,
     MissingCell, MissingRange, FindRanges, UnflattenPanics, UnflattenFails, Unflatten, Return

-------------------------------------------------------------------------------
\* What is decoded of it.

\* The application's bytes, and the chunks they are in.
Whole == Entry(request.id, 32 * OwnRange(request).start, 32 * OwnRange(request).end)
Taken == Slice(data, Whole)

UnflattenInv ==
  pc = "unflatten" /\ IsPromised =>
    \/ ranges = << Whole >> /\ xts = << >>
    \/ /\ ranges = << >> /\ ~Undecodable(Taken)
       /\ xts = << [id |-> request.id, xts |-> Decoded(Taken)] >>

LEMMA PromisedAppRange ==
  ASSUME IsPromised
  PROVE  /\ AppRange = Range32(32 * OwnRange(request).start, 32 * OwnRange(request).end)
         /\ AppRange # NoRange
<1> DEFINE range == OwnRange(request)
<1>1. /\ range.start \in Nat /\ range.end \in Nat /\ range.start < range.end
      /\ 32 * range.end <= U32Max /\ RangeOf(block.lookup, request.id) = range
      /\ range = Range32(range.start, range.end)
  BY PromisedRange DEF IsPromised, block
<1> HIDE DEF range
<1>2. range # NoRange
  <2>1. range.start # -1
    BY <1>1
  <2> QED BY <2>1 DEF NoRange, Range32
<1>3. ~Overflows(range, CHUNK_SIZE)
  BY <1>1, U32MaxAssumption DEF Overflows, CHUNK_SIZE
<1>4. range.start * CHUNK_SIZE = 32 * range.start /\ range.end * CHUNK_SIZE = 32 * range.end
  BY <1>1 DEF CHUNK_SIZE
<1>5. AppRange = Range32(32 * range.start, 32 * range.end)
  BY <1>1, <1>2, <1>3, <1>4 DEF AppRange, ProjectedRangeOf
<1>6. AppRange # NoRange
  <2>1. AppRange.start = 32 * range.start
    BY <1>5 DEF Range32
  <2>2. NoRange.start = -1
    BY DEF NoRange, Range32
  <2> QED BY <1>1, <2>1, <2>2
<1> QED BY <1>5, <1>6 DEF range

LEMMA TakenChunks ==
  ASSUME IsPromised
  PROVE  LET range == OwnRange(request)
         IN  Taken = [k \in 1 .. (range.end - range.start) |-> data[range.start + k - 1]]
<1> DEFINE range == OwnRange(request)
<1>1. range.start \in Nat /\ range.end \in Nat
  BY PromisedRange DEF IsPromised
<1> HIDE DEF range
<1>2. Whole.start = 32 * range.start /\ Whole.end = 32 * range.end
  BY DEF Whole, Entry, range
<1>3. Whole.start \div CHUNK_SIZE = range.start /\ Whole.end \div CHUNK_SIZE = range.end
  BY <1>1, <1>2 DEF CHUNK_SIZE
<1> QED BY <1>3 DEF Taken, Slice, range

\* With every chunk in place the author's encoding is read back.
LEMMA KnownDecodes ==
  ASSUME IsPromised, \A k \in Chunks(request) : data[k] = block.chunks[k]
  PROVE  ~Undecodable(Taken) /\ Decoded(Taken) = Authored(block, request.id)
<1> DEFINE range == OwnRange(request)
           first == range.start
           count == range.end - range.start
           length == block.chunks[first]
<1>1. /\ first \in Nat /\ range.end \in Nat /\ first < range.end
      /\ range.end <= Size(dims) /\ length \in 1 .. count
  BY PromisedRange DEF IsPromised, block, dims
<1>2. /\ \A k \in first .. (range.end - 1) : data[k] = block.chunks[k] /\ block.chunks[k] \in Symbol
  <2>1. block.chunks \in [Indices(Size(dims)) -> Symbol] /\ Chunks(request) \subseteq Indices(Size(dims))
    BY Shape, PromisedChunks DEF IsPromised, PromisedRequests, block, dims
  <2> QED BY <2>1 DEF Chunks
<1>3. Taken = [k \in 1 .. count |-> data[first + k - 1]]
  BY TakenChunks
<1>4. Authored(block, request.id) = [k \in 1 .. length |-> block.chunks[first + k - 1]]
  BY DEF Authored, OwnRange, block
<1> HIDE DEF range
<1> HIDE DEF length
<1>5. count \in Nat /\ length \in Nat
  BY <1>1
<1>6. \A k \in 1 .. count : Taken[k] = block.chunks[first + k - 1] /\ Taken[k] \in Symbol
  <2> SUFFICES ASSUME NEW k \in 1 .. count
               PROVE  Taken[k] = block.chunks[first + k - 1] /\ Taken[k] \in Symbol
    OBVIOUS
  <2>1. first + k - 1 \in first .. (range.end - 1)
    BY <1>1
  <2>2. Taken[k] = data[first + k - 1]
    BY <1>3
  <2> QED BY <1>2, <2>1, <2>2
<1>7. Taken = [k \in 1 .. count |-> Taken[k]]
  BY <1>3
<1> HIDE DEF count
<1>8. Taken \in Seq(Symbol) /\ Len(Taken) = count
  BY <1>5, <1>6, <1>7, IsASeq, LenProperties
<1>9. 1 \in 1 .. count /\ Taken[1] = length
  <2>1. 1 \in 1 .. count
    BY <1>1, <1>5
  <2>2. first + 1 - 1 = first
    BY <1>1
  <2> QED BY <1>6, <2>1, <2>2 DEF length
<1>10. Taken # << >> /\ Needed(Taken) = length
  BY <1>1, <1>5, <1>8, <1>9 DEF Needed
<1>11. ~Undecodable(Taken)
  BY <1>1, <1>5, <1>8, <1>10 DEF Undecodable
<1>12. /\ SubSeq(Taken, 1, length) \in Seq(Symbol)
       /\ Len(SubSeq(Taken, 1, length)) = length
       /\ \A k \in 1 .. length : SubSeq(Taken, 1, length)[k] = Taken[k]
  <2>1. 1 \in 1 .. (Len(Taken) + 1) /\ length \in 0 .. Len(Taken)
    BY <1>1, <1>5, <1>8
  <2> QED BY <1>1, <1>5, <1>8, <2>1, SubSeqProperties
<1>13. SubSeq(Taken, 1, length) = [k \in 1 .. length |-> block.chunks[first + k - 1]]
  <2>1. \A k \in 1 .. length : SubSeq(Taken, 1, length)[k] = block.chunks[first + k - 1]
    BY <1>1, <1>5, <1>6, <1>12
  <2>2. SubSeq(Taken, 1, length) = [k \in 1 .. length |-> SubSeq(Taken, 1, length)[k]]
    BY <1>12, LenProperties
  <2> HIDE DEF first
  <2> QED BY <2>1, <2>2
<1>14. Decoded(Taken) = SubSeq(Taken, 1, length)
  BY <1>9 DEF Decoded
<1> QED BY <1>4, <1>11, <1>13, <1>14

LEMMA StepUnflattenInv ==
  ASSUME ColumnsInv, UnflattenInv, [Next]_vars
  PROVE  UnflattenInv'
<1> USE DEF ColumnsInv
<1>0. request' = request /\ block' = block /\ dims' = dims /\ op' = op
  BY RequestStays
<1>1. /\ IsPromised' <=> IsPromised
      /\ Whole' = Whole
      /\ data' = data => Taken' = Taken
  <2>1. (IsPromised' <=> IsPromised) /\ Whole' = Whole
    BY <1>0 DEF IsPromised, Whole
  <2> QED BY <2>1 DEF Taken
<1>2. CASE FindRanges
  <2>1. /\ pc = "ranges" /\ xts' = xts /\ op # "columns"
        /\ ranges' = CASE op = "all" -> ProjectedRanges(block.lookup, CHUNK_SIZE)
                       [] op # "all" /\ AppRange = NoRange -> << >>
                       [] OTHER -> << Entry(request.id, AppRange.start, AppRange.end) >>
    BY <1>2 DEF FindRanges, PcInv
  <2>2. xts = << >>
    BY <2>1 DEF PcInv
  <2>3. IsPromised => op # "all"
    BY DEF IsPromised, PromisedRequests, op
  <2>4. IsPromised => ranges' = << Entry(request.id, AppRange.start, AppRange.end) >>
    BY <2>1, <2>3, PromisedAppRange
  <2>5. IsPromised => ranges' = << Whole >>
    BY <2>4, PromisedAppRange DEF Whole, Range32
  <2> QED BY <1>1, <2>1, <2>2, <2>5 DEF UnflattenInv
<1>3. CASE Unflatten /\ IsPromised
  <2>1. /\ pc = "unflatten" /\ ranges # << >> /\ ranges' = Tail(ranges)
        /\ ~Undecodable(Slice(data, Head(ranges))) /\ data' = data
        /\ xts' = Append(xts, [id |-> Head(ranges).id, xts |-> Decoded(Slice(data, Head(ranges)))])
    BY <1>3 DEF Unflatten
  <2>2. ranges = << Whole >> /\ xts = << >>
    BY <1>3, <2>1 DEF UnflattenInv
  <2>3. Head(ranges) = Whole /\ ranges' = << >> /\ Whole.id = request.id
    <3>1. \A whole : Head(<< whole >>) = whole /\ Tail(<< whole >>) = << >>
      OBVIOUS
    <3>2. Whole.id = request.id
      BY DEF Whole, Entry
    <3> QED BY <2>1, <2>2, <3>1, <3>2
  <2>4. ~Undecodable(Taken) /\ xts' = Append(<< >>, [id |-> request.id, xts |-> Decoded(Taken)])
    BY <2>1, <2>2, <2>3 DEF Taken
  <2>5. \A x : Append(<< >>, x) = << x >>
    OBVIOUS
  <2>6. xts' = << [id |-> request.id, xts |-> Decoded(Taken)] >>
    BY <2>4, <2>5
  <2> QED BY <1>0, <1>1, <2>1, <2>3, <2>4, <2>6 DEF UnflattenInv
<1>4. CASE ~IsPromised
  BY <1>1, <1>4 DEF UnflattenInv
<1>5. CASE pc' # "unflatten"
  BY <1>5 DEF UnflattenInv
<1>6. CASE UNCHANGED << pc, ranges, xts, data >>
  BY <1>0, <1>1, <1>6 DEF UnflattenInv
<1> QED
  BY <1>2, <1>3, <1>4, <1>5, <1>6 DEF Next, vars, Finish, DecodeNothing, BeginMap, MapEnd, MapCell,
     MapInvalid, MapDuplicate, SkipColumn, InvalidColumn, ReconstructColumn, ReturnColumns,
     ReadColumns, ReadCells, MissingCell, MissingRange, UnflattenPanics, UnflattenFails, Return

Inv == PanicInv /\ ColumnsInv /\ CellsInv /\ UnflattenInv

LEMMA Invariance == Spec => []Inv
<1>1. Init => CellsInv /\ UnflattenInv
  BY DEF Init, CellsInv, UnflattenInv
<1>2. ColumnsInv /\ CellsInv /\ UnflattenInv /\ [Next]_vars => CellsInv' /\ UnflattenInv'
  BY StepCellsInv, StepUnflattenInv
<1> QED BY PanicInvariance, ColumnsInvariance, <1>1, <1>2, PTL DEF Spec, Inv

-------------------------------------------------------------------------------
\* The demands.

LEMMA PromisedShape ==
  ASSUME IsPromised
  PROVE  /\ request \in Requests /\ Honest(block) /\ op \in {"app", "decode"}
         /\ AuthoredFor[request] = Authored(block, request.id)
         /\ DemandsFor[request] = DemandsOf(request)
         /\ AppCells = CellsOf(request)
         /\ AppCells = {ExtendedDataPosition(dims, k) : k \in Chunks(request)}
         /\ Chunks(request) \subseteq Indices(Size(dims))
<1>1. request \in Requests /\ Honest(block) /\ op \in {"app", "decode"}
  BY DEF IsPromised, PromisedRequests, op, block
<1>2. /\ AuthoredFor[request] = Authored(block, request.id)
      /\ DemandsFor[request] = DemandsOf(request)
  BY DEF AuthoredFor, DemandsFor, IsPromised, block
<1>3. AppCells = CellsOf(request)
  BY DEF AppCells, CellsOf, block, dims
<1>4. /\ AppCells = {ExtendedDataPosition(dims, k) : k \in Chunks(request)}
      /\ Chunks(request) \subseteq Indices(Size(dims))
  BY PromisedChunks, <1>3 DEF IsPromised, CellsOf, block, dims
<1> QED BY <1>1, <1>2, <1>3, <1>4

\* As many cells of a column came as rows in it.
LEMMA CellsPerRow ==
  ASSUME mapped \subseteq DataPositions, NEW col,
         NEW here, here = {position \in mapped : position.col = col},
         IsFiniteSet(Indices(ExtendedRows(dims)))
  PROVE  Cardinality(here) = Cardinality(RowsOf(col)) /\ (here = {} <=> RowsOf(col) = {})
<1> DEFINE lines == RowsOf(col)
           f == [row \in lines |-> [row |-> row, col |-> col]]
<1>0. lines = {position.row : position \in here}
  BY DEF RowsOf
<1>1. \A position \in here : position = [row |-> position.row, col |-> col]
  BY DEF DataPositions
<1>2. \A row \in lines : [row |-> row, col |-> col] \in here
  BY <1>0, <1>1
<1>3. f \in Bijection(lines, here)
  <2>1. f \in [lines -> here]
    BY <1>2
  <2>2. \A i, j \in lines : f[i] = f[j] => i = j
    <3>1. \A i \in lines : f[i].row = i
      OBVIOUS
    <3> HIDE DEF f
    <3> QED BY <3>1
  <2>3. \A position \in here : \E row \in lines : f[row] = position
    BY <1>0, <1>1
  <2> HIDE DEF f, lines
  <2> QED BY <2>1, <2>2, <2>3 DEF Bijection, Injection, Surjection, IsInjective
<1>4. ExistsBijection(lines, here)
  BY <1>3 DEF ExistsBijection
<1>5. IsFiniteSet(lines)
  <2>1. lines \in SUBSET Indices(ExtendedRows(dims))
    BY RowsInside
  <2> QED BY <2>1, FS_Subset
<1>6. Cardinality(here) = Cardinality(lines)
  BY <1>4, <1>5, FS_Bijection
<1> QED BY <1>0, <1>6

\* The promise counts as everyone does.
LEMMA SameCardinality == \A S : Promise!Cardinality(S) = Cardinality(S)
<1> QED BY DEF Cardinality, Promise!Cardinality

\* The demand a column makes, as the promise sees it.
LEMMA DemandOfColumn ==
  ASSUME IsPromised, Asked, mapped \subseteq DataPositions, NEW col \in Indices(dims.cols)
  PROVE  LET demand == ColumnDemand(request, col)
         IN  /\ Promise!Met(demand) <=>
                  Enough(col) \/ (RowsOf(col) = {} /\ col \notin TouchedColumns(request))
             /\ Promise!Unnoticed(demand) <=>
                  RowsOf(col) = {} /\ col \in TouchedColumns(request)
<1> DEFINE demand == ColumnDemand(request, col)
           here == {position \in mapped : position.col = col}
<1>1. demand.cells \cap mapped = here
  BY DEF ColumnDemand, DataPositions, dims, block
<1>2. Promise!Given(demand) = here
  BY <1>1 DEF Promise!Given
<1>3. IsFiniteSet(Indices(ExtendedRows(dims)))
  <2>1. ExtendedRows(dims) \in Nat
    BY Shape DEF Asked, dims, block
  <2>2. IsFiniteSet(0 .. (ExtendedRows(dims) - 1))
    BY <2>1, FS_Interval
  <2> QED BY <2>2 DEF Indices
<1>4. Cardinality(here) = Cardinality(RowsOf(col)) /\ (here = {} <=> RowsOf(col) = {})
  BY <1>3, CellsPerRow
<1>5. /\ demand.least = dims.rows
      /\ demand.absent = IF col \in TouchedColumns(request) THEN "unnoticed" ELSE "fine"
  BY DEF ColumnDemand, dims, block
<1> HIDE DEF demand, here
<1>6. Promise!Met(demand) <=>
        Enough(col) \/ (RowsOf(col) = {} /\ col \notin TouchedColumns(request))
  BY <1>2, <1>4, <1>5, SameCardinality DEF Promise!Met, Enough
<1>7. Promise!Unnoticed(demand) <=> RowsOf(col) = {} /\ col \in TouchedColumns(request)
  BY <1>2, <1>4, <1>5 DEF Promise!Unnoticed
<1> QED BY <1>6, <1>7 DEF demand

\* The demand a cell makes.
LEMMA DemandOfCell ==
  ASSUME IsPromised, NEW position
  PROVE  /\ Promise!Met(CellDemand(position)) <=> position \in mapped
         /\ ~Promise!Unnoticed(CellDemand(position))
<1> DEFINE demand == CellDemand(position)
<1>1. demand.least = 1 /\ demand.absent = "noticed" /\ demand.cells = {position}
  BY DEF CellDemand
<1>2. Promise!Given(demand) = {position} \cap mapped
  BY <1>1 DEF Promise!Given
<1>3. position \in mapped => Cardinality({position} \cap mapped) = 1
  <2>1. position \in mapped => {position} \cap mapped = {position}
    OBVIOUS
  <2> QED BY <2>1, FS_Singleton
<1>4. position \notin mapped => Cardinality({position} \cap mapped) = 0
  <2>1. position \notin mapped => {position} \cap mapped = {}
    OBVIOUS
  <2> QED BY <2>1, FS_EmptySet
<1> HIDE DEF demand
<1>5. Promise!Met(demand) <=> position \in mapped
  BY <1>1, <1>2, <1>3, <1>4, SameCardinality DEF Promise!Met
<1>6. ~Promise!Unnoticed(demand)
  BY <1>1 DEF Promise!Unnoticed
<1> QED BY <1>5, <1>6 DEF demand

-------------------------------------------------------------------------------
\* When it comes to decoding, either the demands are met and all chunks known,
\* or some column of the application went unnoticed.
LEMMA DemandsAtEnd ==
  ASSUME Inv, IsPromised, pc \in {"ranges", "unflatten"}
  PROVE  \/ /\ \A demand \in DemandsOf(request) : Promise!Met(demand)
            /\ \A k \in Chunks(request) : data[k] = block.chunks[k]
         \/ /\ \E demand \in DemandsOf(request) : Promise!Unnoticed(demand)
            /\ \A demand \in DemandsOf(request) : Promise!Met(demand) \/ Promise!Unnoticed(demand)
<1> USE DEF Inv, ColumnsInv
<1>1. /\ AppCells = {ExtendedDataPosition(dims, k) : k \in Chunks(request)}
      /\ AppCells = CellsOf(request) /\ Chunks(request) \subseteq Indices(Size(dims))
      /\ op \in {"app", "decode"}
  BY PromisedShape
<1>2. /\ op = "app" => \A col \in Indices(dims.cols) : RowsOf(col) = {} \/ Enough(col)
      /\ op = "decode" => AppCells \subseteq mapped
      /\ \A k \in Indices(Size(dims)) : Known(k) => data[k] = block.chunks[k]
  BY <1>1 DEF CellsInv
<1>3. CASE op = "decode"
  <2>1. DemandsOf(request) = {CellDemand(position) : position \in AppCells}
    BY <1>1, <1>3 DEF DemandsOf, op
  <2>2. \A demand \in DemandsOf(request) : Promise!Met(demand)
    BY <1>2, <1>3, <2>1, DemandOfCell
  <2>3. \A k \in Chunks(request) : data[k] = block.chunks[k]
    BY <1>1, <1>2, <1>3 DEF Known
  <2> QED BY <2>2, <2>3
<1>4. CASE op = "app"
  <2> DEFINE lost == {col \in Indices(dims.cols) : RowsOf(col) = {} /\ col \in TouchedColumns(request)}
  <2>1. DemandsOf(request) = {ColumnDemand(request, col) : col \in Indices(dims.cols)}
    BY <1>4 DEF DemandsOf, op, dims, block
  <2>2. \A col \in Indices(dims.cols) :
          LET demand == ColumnDemand(request, col)
          IN  /\ Promise!Unnoticed(demand) <=> col \in lost
              /\ Promise!Met(demand) \/ col \in lost
    BY <1>2, <1>4, DemandOfColumn
  <2>3. CASE lost # {}
    BY <2>1, <2>2, <2>3
  <2>4. CASE lost = {}
    <3>1. \A demand \in DemandsOf(request) : Promise!Met(demand)
      BY <2>1, <2>2, <2>4
    <3>2. ASSUME NEW k \in Chunks(request) PROVE data[k] = block.chunks[k]
      <4>1. k \in Indices(Size(dims)) /\ ExtendedDataPosition(dims, k) \in CellsOf(request)
        BY <1>1
      <4>2. Col(dims, k) \in Indices(dims.cols)
        BY <4>1, CellOfChunk DEF Asked, dims, block
      <4>3. Col(dims, k) \in TouchedColumns(request)
        <5>1. ExtendedDataPosition(dims, k).col = Col(dims, k)
          BY DEF ExtendedDataPosition, Position
        <5> QED BY <4>1, <5>1 DEF TouchedColumns
      <4>4. RowsOf(Col(dims, k)) # {}
        BY <2>4, <4>2, <4>3
      <4> QED BY <1>2, <1>4, <4>1, <4>4 DEF Known
    <3> QED BY <3>1, <3>2
  <2> QED BY <2>3, <2>4
<1> QED BY <1>1, <1>3, <1>4

\* The promise sees the cells that came and the answer, nothing else.
LEMMA OnlyCellsAndReply ==
  ASSUME [Next]_vars
  PROVE  /\ IsPromised' <=> IsPromised
         /\ UNCHANGED (IF IsPromised THEN AuthoredFor[request] ELSE << >>)
         /\ UNCHANGED (IF IsPromised THEN DemandsFor[request] ELSE {})
         /\ ~IsPromised => UNCHANGED Promise!vars
         /\ UNCHANGED << mapped, reply >> => UNCHANGED Promise!vars
<1>1. request' = request
  BY RequestStays
<1>2. IsPromised' <=> IsPromised
  BY <1>1 DEF IsPromised
<1>3. AuthoredFor' = AuthoredFor /\ DemandsFor' = DemandsFor
  BY DEF AuthoredFor, DemandsFor
<1>4. reply' = reply => AbstractReply' = AbstractReply
  BY DEF AbstractReply
<1> QED BY <1>1, <1>2, <1>3, <1>4 DEF Promise!vars

\* An answer that ends the request, seen from the promise.
LEMMA AnswerIsAbstract ==
  ASSUME Inv, [Next]_vars, IsPromised, pc # "done", UNCHANGED mapped
  PROVE  /\ Promise!Pending = [kind |-> "pending", data |-> << >>]
         /\ AbstractReply = Promise!Pending
         /\ \A value : reply' = Ok(value) => AbstractReply' = [kind |-> "ok", data |-> value]
         /\ \A err : reply' = Err(err) => AbstractReply'.kind =
              IF err \in {"InvalidCell", "DuplicateCellFound"} THEN "malformed" ELSE "err"
<1>1. reply = Pending
  BY DEF Inv, ColumnsInv, PcInv
<1> QED BY <1>1 DEF AbstractReply, Pending, Ok, Err, Promise!Pending

LEMMA Deliveries ==
  ASSUME Inv, IsPromised, [Next]_vars, UnflattenFails \/ Return
  PROVE  Promise!Next
<1>1. /\ pc = "unflatten" /\ UNCHANGED mapped
      /\ UnflattenFails => reply' = Err("DataDecodingError")
  BY DEF UnflattenFails, Return, Finish
<1>2. /\ AbstractReply = Promise!Pending
      /\ \A value : reply' = Ok(value) => AbstractReply' = [kind |-> "ok", data |-> value]
      /\ UnflattenFails => AbstractReply'.kind = "err"
  BY <1>1, AnswerIsAbstract
<1>3. /\ IsPromised' /\ UNCHANGED (IF IsPromised THEN AuthoredFor[request] ELSE << >>)
      /\ UNCHANGED (IF IsPromised THEN DemandsFor[request] ELSE {})
      /\ UNCHANGED (IF IsPromised THEN mapped ELSE {})
  BY <1>1, OnlyCellsAndReply
<1>4. /\ AuthoredFor[request] = Authored(block, request.id)
      /\ DemandsFor[request] = DemandsOf(request) /\ op \in {"app", "decode"}
  BY PromisedShape
<1>5. ASSUME Return
      PROVE  /\ ~Undecodable(Taken)
             /\ AbstractReply' = [kind |-> "ok", data |-> Decoded(Taken)]
  <2>1. ranges = << >> /\ reply' = Ok(IF op = "all" THEN xts
                                      ELSE FlattenSeq([k \in DOMAIN xts |-> xts[k].xts]))
    BY <1>5 DEF Return, Finish
  <2>2. ranges # << Whole >>
    <3>1. \A whole : << whole >> # << >>
      OBVIOUS
    <3> QED BY <2>1, <3>1
  <2>3. ~Undecodable(Taken) /\ xts = << [id |-> request.id, xts |-> Decoded(Taken)] >>
    BY <1>1, <2>2 DEF Inv, UnflattenInv
  <2>4. [k \in DOMAIN xts |-> xts[k].xts] = << Decoded(Taken) >>
    <3>1. \A x : [k \in DOMAIN << x >> |-> << x >>[k].xts] = << x.xts >>
      OBVIOUS
    <3> QED BY <2>3, <3>1
  <2>5. \A s : FlattenSeq(<< s >>) = s
    <3> SUFFICES ASSUME NEW s PROVE FlattenSeq(<< s >>) = s
      OBVIOUS
    <3> DEFINE flat == [i \in 1 .. 1 |-> s]
               Flattens(f) == f = [i \in 1 .. 1 |-> IF i = 1 THEN << s >>[i] ELSE f[i - 1] \o << s >>[i]]
               chosen == CHOOSE f : Flattens(f)
    <3>1. Flattens(flat)
      OBVIOUS
    <3>2. Flattens(chosen)
      BY <3>1
    <3>3. chosen[1] = s
      <4> HIDE DEF chosen
      <4> QED BY <3>2
    <3>4. Len(<< s >>) = 1
      OBVIOUS
    <3>5. FlattenSeq(<< s >>) = chosen[1]
      BY <3>4 DEF FlattenSeq
    <3> QED BY <3>3, <3>5
  <2>6. reply' = Ok(Decoded(Taken))
    BY <1>4, <2>1, <2>4, <2>5
  <2> QED BY <1>2, <2>3, <2>6
<1>6. ASSUME UnflattenFails PROVE Undecodable(Taken)
  <2>1. ranges # << >> /\ Undecodable(Slice(data, Head(ranges)))
    BY <1>6 DEF UnflattenFails
  <2>2. ranges = << Whole >>
    BY <1>1, <2>1 DEF Inv, UnflattenInv
  <2>3. \A whole : Head(<< whole >>) = whole
    OBVIOUS
  <2> QED BY <2>1, <2>2, <2>3 DEF Taken
<1>7. CASE /\ \A demand \in DemandsOf(request) : Promise!Met(demand)
           /\ \A k \in Chunks(request) : data[k] = block.chunks[k]
  <2>1. ~Undecodable(Taken) /\ Decoded(Taken) = Authored(block, request.id)
    BY <1>7, KnownDecodes
  <2>2. AbstractReply' = Promise!Delivered
    BY <1>4, <1>5, <1>6, <2>1 DEF Promise!Delivered
  <2>3. Promise!Deliver
    BY <1>2, <1>3, <1>4, <1>7, <2>2 DEF Promise!Deliver
  <2> QED BY <2>3 DEF Promise!Next
<1>8. CASE /\ \E demand \in DemandsOf(request) : Promise!Unnoticed(demand)
           /\ \A demand \in DemandsOf(request) : Promise!Met(demand) \/ Promise!Unnoticed(demand)
  <2>1. AbstractReply'.kind \in {"ok", "err"}
    BY <1>2, <1>5
  <2>2. Promise!Guess
    BY <1>2, <1>3, <1>4, <1>8, <2>1 DEF Promise!Guess
  <2> QED BY <2>2 DEF Promise!Next
<1> QED BY <1>1, <1>7, <1>8, DemandsAtEnd

\* Every other answer is an error the promise knows of.
LEMMA Refusals ==
  ASSUME Inv, Inv', IsPromised, [Next]_vars, reply' # reply, ~UnflattenFails, ~Return
  PROVE  Promise!Next
<1> USE DEF Inv, ColumnsInv
<1>1. op \in {"app", "decode"} /\ DemandsFor[request] = DemandsOf(request) /\ request \in Requests
  BY PromisedShape
<1>2. /\ IsPromised' /\ UNCHANGED (IF IsPromised THEN AuthoredFor[request] ELSE << >>)
      /\ UNCHANGED (IF IsPromised THEN DemandsFor[request] ELSE {})
  BY OnlyCellsAndReply
<1>3. ASSUME pc # "done", UNCHANGED mapped, NEW err, reply' = Err(err)
      PROVE  /\ AbstractReply = Promise!Pending
             /\ AbstractReply'.kind =
                  IF err \in {"InvalidCell", "DuplicateCellFound"} THEN "malformed" ELSE "err"
  BY <1>3, AnswerIsAbstract
<1>4. ASSUME NEW position, MapInvalid(position) \/ MapDuplicate(position)
      PROVE  Promise!Next
  <2>1. /\ pc = "map" /\ UNCHANGED mapped
        /\ \E err \in {"InvalidCell", "DuplicateCellFound"} : reply' = Err(err)
    BY <1>4 DEF MapInvalid, MapDuplicate, Finish
  <2>2. AbstractReply = Promise!Pending /\ AbstractReply'.kind = "malformed"
    BY <1>3, <2>1
  <2>3. Promise!Malformed
    BY <1>2, <2>1, <2>2 DEF Promise!Malformed
  <2> QED BY <2>3 DEF Promise!Next
<1>5. ASSUME NEW col \in Indices(dims.cols), InvalidColumn(col)
      PROVE  Promise!Next
  <2>1. /\ pc = "columns" /\ UNCHANGED mapped /\ RowsOf(col) # {} /\ ~Enough(col)
        /\ reply' = Err("InvalidColumn")
    BY <1>5 DEF InvalidColumn, Finish
  <2>2. op = "app"
    BY <1>1, <2>1 DEF ColumnInv
  <2>3. AbstractReply = Promise!Pending /\ AbstractReply'.kind = "err"
    BY <1>3, <2>1
  <2>4. ColumnDemand(request, col) \in DemandsOf(request)
    BY <2>2 DEF DemandsOf, op, dims, block
  <2>5. /\ ~Promise!Met(ColumnDemand(request, col))
        /\ ~Promise!Unnoticed(ColumnDemand(request, col))
    BY <2>1, DemandOfColumn
  <2>6. Promise!Refuse
    BY <1>1, <1>2, <2>1, <2>3, <2>4, <2>5 DEF Promise!Refuse
  <2> QED BY <2>6 DEF Promise!Next
<1>6. CASE MissingCell
  <2>1. /\ pc = "read" /\ UNCHANGED mapped /\ ~(AppCells \subseteq mapped)
        /\ reply' = Err("MissingCell")
    BY <1>6 DEF MissingCell, Finish
  <2>2. op = "decode"
    BY <2>1 DEF PcInv
  <2>3. AbstractReply = Promise!Pending /\ AbstractReply'.kind = "err"
    BY <1>3, <2>1
  <2>4. PICK position \in CellsOf(request) : position \notin mapped
    BY <2>1, PromisedShape
  <2>5. CellDemand(position) \in DemandsOf(request)
    BY <2>2 DEF DemandsOf, op
  <2>6. ~Promise!Met(CellDemand(position)) /\ ~Promise!Unnoticed(CellDemand(position))
    BY <2>4, DemandOfCell
  <2>7. Promise!Refuse
    BY <1>1, <1>2, <2>1, <2>3, <2>5, <2>6 DEF Promise!Refuse
  <2> QED BY <2>7 DEF Promise!Next
<1>7. ~DecodeNothing
  <2>1. AppCells # {}
    BY PromisedShape, PromisedChunks DEF IsPromised
  <2> QED BY <2>1 DEF DecodeNothing
<1>8. ~MissingRange
  BY <1>1, PromisedAppRange DEF MissingRange
<1>9. ~ReturnColumns
  BY <1>1 DEF ReturnColumns
<1>10. ~UnflattenPanics
  <2>1. Honest(block)' /\ NoPanic'
    BY PromisedShape, RequestStays DEF PanicInv
  <2>2. reply'.kind # "panic"
    BY <2>1 DEF NoPanic
  <2> QED BY <2>2 DEF UnflattenPanics, Finish, Panic
<1>11. ASSUME NEW col \in Indices(dims.cols), ReconstructColumn(col) PROVE reply' = reply
  <2>1. RowsOf(col) # {} /\ Enough(col)
    BY <1>11 DEF ReconstructColumn
  <2>2. Rebuilt(col).err = "none"
    BY <2>1, RebuiltIsColumn
  <2> QED BY <1>11, <2>2 DEF ReconstructColumn
<1> QED
  BY <1>4, <1>5, <1>6, <1>7, <1>8, <1>9, <1>10, <1>11 DEF Next, vars, BeginMap, MapEnd, MapCell,
     SkipColumn, ReadColumns, ReadCells, FindRanges, Unflatten

\* Asked for an application of an honest block, reconstruct_app_extrinsics and
\* decode_app_extrinsics keep the promise, whatever cells come: the authored
\* extrinsics if the demands are met, an error if one is seen not to be.
THEOREM RecoveryKeepsPromise == Spec => KeepsPromise
<1>1. Init => Promise!Init
  BY DEF Init, Promise!Init, AbstractReply, Pending, Promise!Pending
<1>2. Inv /\ Inv' /\ [Next]_vars => [Promise!Next]_(Promise!vars)
  <2> SUFFICES ASSUME Inv, Inv', [Next]_vars PROVE [Promise!Next]_(Promise!vars)
    OBVIOUS
  <2>1. CASE ~IsPromised
    BY <2>1, OnlyCellsAndReply
  <2>2. CASE IsPromised /\ UNCHANGED << mapped, reply >>
    BY <2>2, OnlyCellsAndReply
  <2>3. CASE IsPromised /\ reply' = reply /\ mapped' # mapped
    <3>1. \E position \in Positions : MapCell(position)
      BY <2>3 DEF Next, vars, DecodeNothing, BeginMap, MapEnd, MapInvalid, MapDuplicate, SkipColumn,
         InvalidColumn, ReconstructColumn, ReturnColumns, ReadColumns, MissingCell, ReadCells,
         MissingRange, FindRanges, UnflattenPanics, UnflattenFails, Unflatten, Return
    <3>2. pc = "map" /\ mapped \subseteq mapped'
      BY <3>1 DEF MapCell
    <3>3. reply = Pending
      BY <3>2 DEF Inv, ColumnsInv, PcInv
    <3>4. AbstractReply = Promise!Pending /\ AbstractReply' = AbstractReply
      BY <2>3, <3>3 DEF AbstractReply, Pending, Promise!Pending
    <3>5. Promise!Supply
      BY <2>3, <3>2, <3>4, OnlyCellsAndReply DEF Promise!Supply
    <3> QED BY <3>5 DEF Promise!Next
  <2>4. CASE IsPromised /\ reply' # reply
    BY <2>4, Deliveries, Refusals
  <2> QED BY <2>1, <2>2, <2>3, <2>4
<1> QED BY Invariance, <1>1, <1>2, PTL DEF Spec, KeepsPromise, Promise!Spec

-------------------------------------------------------------------------------
(***************************************************************************)
(* The check of rows: what the client may rely on when verify_equality     *)
(* names a row.                                                            *)
(***************************************************************************)

\* The query is one of those the constants describe.
Queried == query \in Queries

\* What a row the loop has accepted is known by.
Accepted(row) ==
  /\ row \in AppRows /\ row \in 0 .. (next - 1)
  /\ rows[row + 1].some /\ ~Unparsable(rows[row + 1])
  /\ Commit(rows[row + 1].chunks) = Commitment(row)

\* Lists the client did not take as they came hold None or rows of the width of
\* the matrix.
WidthInv ==
  stage # "obtain" /\ source # "raw" =>
    /\ Len(rows) = ExtendedRows(extent)
    /\ \A k \in 1 .. ExtendedRows(extent) :
         ~rows[k].some \/ (~rows[k].rest /\ Len(rows[k].chunks) = extent.cols)

LoopInv ==
  /\ stage \in {"obtain", "verify"} => verified = {} /\ next = 0
  /\ verified # {} => Len(rows) = ExtendedRows(extent)
  /\ \A row \in verified : Accepted(row)

CheckInv == Queried /\ TypeOK /\ WidthInv /\ LoopInv

-------------------------------------------------------------------------------
\* The numbers of the matrix the query speaks of.
LEMMA QueryShape ==
  ASSUME Queried
  PROVE  /\ extent.rows \in Nat \ {0} /\ extent.cols \in Nat \ {0}
         /\ ExtendedRows(extent) \in Nat \ {0}
         /\ DomainSize(extent.cols) \in Nat /\ DomainSize(extent.cols) >= extent.cols
<1>1. extent.rows \in Nat \ {0} /\ extent.cols \in Nat \ {0}
  BY QueriesAssumption DEF Queried, extent
<1>2. ExtendedRows(extent) \in Nat \ {0}
  BY <1>1 DEF ExtendedRows, EXTENSION_FACTOR
<1>3. DomainSize(extent.cols) \in Nat /\ DomainSize(extent.cols) >= extent.cols
  BY DomainAssumption DEF Queried, extent
<1> QED BY <1>1, <1>2, <1>3

\* A row of the author's has the width of the matrix.
LEMMA CodedWidth ==
  ASSUME Queried, NEW row \in Indices(ExtendedRows(extent))
  PROVE  /\ query.coded[row] \in [1 .. extent.cols -> Nat]
         /\ Len(query.coded[row]) = extent.cols
<1>1. query.coded[row] \in [1 .. extent.cols -> Nat]
  BY QueriesAssumption DEF Queried, extent, Scalar
<1> QED BY <1>1, QueryShape

\* Two rows of the width of the matrix with one commitment are the same: the
\* domain has a point for each of their chunks.
LEMMA CommitmentBinds ==
  ASSUME Queried, NEW row \in Indices(ExtendedRows(extent)), NEW chunks,
         Len(chunks) = extent.cols, Commit(chunks) = Commitment(row)
  PROVE  \A k \in 1 .. extent.cols : chunks[k] = query.coded[row][k]
<1>1. Evaluations(chunks) = Evaluations(query.coded[row])
  BY DEF Commit, Commitment
<1> SUFFICES ASSUME NEW k \in 1 .. extent.cols PROVE chunks[k] = query.coded[row][k]
  OBVIOUS
<1>2. k \in 1 .. DomainSize(extent.cols) /\ k <= extent.cols
  BY QueryShape
<1>3. Evaluations(chunks)[k] = chunks[k]
  BY <1>2 DEF Evaluations
<1>4. Evaluations(query.coded[row])[k] = query.coded[row][k]
  BY <1>2, CodedWidth DEF Evaluations
<1> QED BY <1>1, <1>3, <1>4

\* What a full node or the merge of cells puts into the list is of the width of
\* the matrix.
LEMMA ObtainedWidth ==
  ASSUME Queried, ScalarsToAppRows \/ ScalarsToRows \/ MergeRows
  PROVE  /\ Len(rows') = ExtendedRows(extent)
         /\ \A k \in 1 .. ExtendedRows(extent) :
              ~rows'[k].some \/ (~rows'[k].rest /\ Len(rows'[k].chunks) = extent.cols)
<1>1. CASE ScalarsToAppRows
  <2>1. rows' = [k \in 1 .. ExtendedRows(extent) |->
                   IF k - 1 \in AppRows THEN Row(GetRow(k - 1)) ELSE NoRow]
    BY <1>1 DEF ScalarsToAppRows, OptionalRows
  <2>2. \A k \in 1 .. ExtendedRows(extent) : Len(GetRow(k - 1)) = extent.cols
    BY CodedWidth, QueryShape DEF GetRow, Indices
  <2> QED BY <2>1, <2>2, QueryShape DEF Row, NoRow
<1>2. CASE ScalarsToRows
  <2>1. rows' = [k \in 1 .. ExtendedRows(extent) |->
                   IF k - 1 \in query.asked THEN Row(StridedRow(k - 1)) ELSE NoRow]
    BY <1>2 DEF ScalarsToRows, OptionalRows
  <2>2. \A k \in 1 .. ExtendedRows(extent) : Len(StridedRow(k - 1)) = extent.cols
    BY QueryShape DEF StridedRow
  <2> QED BY <2>1, <2>2, QueryShape DEF Row, NoRow
<1>3. CASE MergeRows
  <2> DEFINE wanted == {row \in Indices(ExtendedRows(extent)) : Retained(row)}
  <2>1. rows' = [k \in 1 .. ExtendedRows(extent) |->
                   IF k - 1 \in wanted THEN Row(Merged(k - 1)) ELSE NoRow]
    BY <1>3 DEF MergeRows, OptionalRows
  <2>2. \A row \in wanted : Len(Merged(row)) = extent.cols
    BY DEF Retained
  <2> HIDE DEF wanted
  <2> QED BY <2>1, <2>2, QueryShape DEF Row, NoRow
<1> QED BY <1>1, <1>2, <1>3

-------------------------------------------------------------------------------
\* The invariant.

LEMMA InitInv == CheckInit => CheckInv
<1> SUFFICES ASSUME CheckInit PROVE CheckInv
  OBVIOUS
<1>1. Queried
  BY DEF CheckInit, Queried
<1>2. TypeOK
  BY <1>1, QueryShape, MaxCellsAssumption, EmptySeq DEF CheckInit, TypeOK, Unanswered
<1>3. WidthInv /\ LoopInv
  BY DEF CheckInit, WidthInv, LoopInv
<1> QED BY <1>1, <1>2, <1>3 DEF CheckInv

LEMMA StepInv == CheckInv /\ [CheckNext]_checkVars => CheckInv'
<1> SUFFICES ASSUME CheckInv, [CheckNext]_checkVars PROVE CheckInv'
  OBVIOUS
<1>1. Queried /\ TypeOK /\ WidthInv /\ LoopInv
  BY DEF CheckInv
<1>2. CASE ScalarsToAppRows \/ ScalarsToRows \/ TakeRows \/ MergeRows
  <2>1. /\ stage = "obtain" /\ stage' = "verify"
        /\ UNCHANGED << query, cells, next, verified, answer >>
    BY <1>2 DEF ScalarsToAppRows, ScalarsToRows, TakeRows, MergeRows
  <2>2. Queried' /\ extent' = extent /\ source' = source
    BY <1>1, <2>1 DEF Queried, extent, source
  <2>3. TypeOK'
    BY <1>1, <2>1, <2>2 DEF TypeOK, Unanswered
  <2>4. WidthInv'
    BY <1>1, <1>2, <2>2, ObtainedWidth DEF WidthInv, TakeRows
  <2>5. LoopInv'
    BY <1>1, <2>1 DEF LoopInv
  <2> QED BY <2>2, <2>3, <2>4, <2>5 DEF CheckInv
<1>3. CASE \E cell \in query.sent : Arrive(cell)
  <2>1. PICK cell \in query.sent : Arrive(cell)
    BY <1>3
  <2>2. /\ stage = "obtain" /\ Len(cells) < MaxCells /\ cells' = Append(cells, cell)
        /\ UNCHANGED << stage, query, rows, next, verified, answer >>
    BY <2>1 DEF Arrive
  <2>3. Queried' /\ extent' = extent
    BY <1>1, <2>2 DEF Queried, extent
  <2>4. cells' \in Seq(query.sent) /\ Len(cells') = Len(cells) + 1
    BY <1>1, <2>2, AppendProperties DEF TypeOK
  <2>5. TypeOK'
    BY <1>1, <2>2, <2>3, <2>4, MaxCellsAssumption DEF TypeOK, Unanswered
  <2>6. WidthInv' /\ LoopInv'
    BY <1>1, <2>2 DEF WidthInv, LoopInv
  <2> QED BY <2>3, <2>5, <2>6 DEF CheckInv
<1>4. CASE PartialCommitment \/ BadCommitments \/ WrongRowCount \/ BeginRows
  <2>1. /\ stage = "verify" /\ stage' \in {"rows", "done"}
        /\ UNCHANGED << query, cells, rows, next, verified >>
        /\ stage' = "done" <=> answer' # Unanswered
        /\ stage' = "rows" =>
             Len(rows) = ExtendedRows(extent) /\ query.count = ExtendedRows(extent)
             /\ ~query.partial
    BY <1>1, <1>4 DEF PartialCommitment, BadCommitments, WrongRowCount, BeginRows, Conclude,
                      OkRows, Abort, Unanswered, TypeOK
  <2>2. Queried' /\ extent' = extent /\ source' = source
    BY <1>1, <2>1 DEF Queried, extent, source
  <2>3. TypeOK'
    BY <1>1, <2>1, <2>2 DEF TypeOK
  <2>4. WidthInv'
    BY <1>1, <2>1, <2>2 DEF WidthInv
  <2>5. LoopInv'
    BY <1>1, <2>1 DEF LoopInv
  <2> QED BY <2>2, <2>3, <2>4, <2>5 DEF CheckInv
<1>5. CASE SkipRow \/ CompareRow
  <2>1. /\ stage = "rows" /\ next < ExtendedRows(extent) /\ next' = next + 1
        /\ UNCHANGED << stage, query, cells, rows, answer >>
    BY <1>5 DEF SkipRow, CompareRow, AtRow
  <2>2. Queried' /\ extent' = extent /\ source' = source
    BY <1>1, <2>1 DEF Queried, extent, source
  <2>3. TypeOK'
    BY <1>1, <2>1, <2>2, QueryShape DEF TypeOK, Unanswered
  <2>4. WidthInv'
    BY <1>1, <2>1, <2>2 DEF WidthInv
  <2>5. \A row \in verified' : row \in verified
                               \/ (/\ row = next /\ next \in AppRows
                                   /\ rows[next + 1].some /\ ~Unparsable(rows[next + 1])
                                   /\ Commit(rows[next + 1].chunks) = Commitment(next))
    BY <1>5 DEF SkipRow, CompareRow, Unrelated, GivenRow, Genuine
  <2>6. next \in Nat
    BY <1>1, QueryShape DEF TypeOK
  <2>7. \A row \in verified' : Accepted(row)'
    <3> SUFFICES ASSUME NEW row \in verified' PROVE Accepted(row)'
      OBVIOUS
    <3>1. /\ row \in AppRows /\ row \in 0 .. next
          /\ rows[row + 1].some /\ ~Unparsable(rows[row + 1])
          /\ Commit(rows[row + 1].chunks) = Commitment(row)
      BY <1>1, <2>5, <2>6 DEF LoopInv, Accepted
    <3>2. AppRows' = AppRows /\ Commitment(row)' = Commitment(row)
      BY <2>1 DEF AppRows, extent, Commitment, Commit, Evaluations
    <3>3. Commit(rows[row + 1].chunks)' = Commit(rows[row + 1].chunks)
      BY <2>1 DEF Commit, Evaluations, extent
    <3>4. Unparsable(rows[row + 1])' = Unparsable(rows[row + 1])
      BY <2>1
    <3> QED BY <2>1, <2>6, <3>1, <3>2, <3>3, <3>4 DEF Accepted
  <2>8. LoopInv'
    BY <1>1, <2>1, <2>2, <2>7 DEF LoopInv, TypeOK
  <2> QED BY <2>2, <2>3, <2>4, <2>8 DEF CheckInv
<1>6. CASE AbortAtRow \/ ReturnRows
  <2>1. /\ stage = "rows" /\ stage' = "done" /\ answer' # Unanswered
        /\ UNCHANGED << query, cells, rows, next, verified >>
    BY <1>6 DEF AbortAtRow, ReturnRows, Conclude, OkRows, Abort, Unanswered, AtRow
  <2>2. Queried' /\ extent' = extent /\ source' = source
    BY <1>1, <2>1 DEF Queried, extent, source
  <2>3. TypeOK' /\ WidthInv'
    BY <1>1, <2>1, <2>2 DEF TypeOK, WidthInv
  <2>4. LoopInv'
    BY <1>1, <2>1 DEF LoopInv, Accepted, AppRows, extent, Commitment, Commit, Evaluations
  <2> QED BY <2>2, <2>3, <2>4 DEF CheckInv
<1>7. CASE UNCHANGED checkVars
  BY <1>1, <1>7 DEF checkVars, CheckInv, Queried, TypeOK, WidthInv, LoopInv, Accepted, AppRows, extent,
                    source, Commitment, Commit, Evaluations, Unanswered
<1> QED BY <1>2, <1>3, <1>4, <1>5, <1>6, <1>7 DEF CheckNext

LEMMA CheckInvariance == CheckSpec => []CheckInv
<1> QED BY InitInv, StepInv, PTL DEF CheckSpec

\* Every stage has the types it is written for.
THEOREM TypeCorrect == CheckSpec => []TypeOK
<1>1. CheckInv => TypeOK
  BY DEF CheckInv
<1> QED BY CheckInvariance, <1>1, PTL

\* A row the client is told is verified is the author's, from whatever source
\* the rows come.
THEOREM VerifiedRowsAreGenuine == CheckSpec => []VerifiedAreAuthored
<1>1. ASSUME CheckInv PROVE VerifiedAreAuthored
  <2> SUFFICES ASSUME NEW row \in verified,
                      source # "raw" \/ Len(rows[row + 1].chunks) = extent.cols
               PROVE  AuthoredRow(row, rows[row + 1])
    BY DEF VerifiedAreAuthored
  <2>1. /\ Accepted(row) /\ stage # "obtain"
        /\ next \in 0 .. ExtendedRows(extent) /\ Queried
    BY <1>1 DEF CheckInv, LoopInv, TypeOK
  <2>2. row \in Indices(ExtendedRows(extent)) /\ row + 1 \in 1 .. ExtendedRows(extent)
    BY <2>1, QueryShape DEF Accepted, Indices
  <2>3. Len(rows[row + 1].chunks) = extent.cols /\ ~rows[row + 1].rest
    BY <1>1, <2>1, <2>2 DEF CheckInv, WidthInv, Accepted, Unparsable, HasRest
  <2> QED BY <2>1, <2>2, <2>3, CommitmentBinds DEF AuthoredRow, Accepted
<1> QED BY CheckInvariance, <1>1, PTL

-------------------------------------------------------------------------------
\* The answers.

AnswerInv == VerifiedOrMissing /\ OthersDoNoHarm

LEMMA StepAnswer == CheckInv /\ AnswerInv /\ [CheckNext]_checkVars => AnswerInv'
<1> SUFFICES ASSUME CheckInv, AnswerInv, [CheckNext]_checkVars PROVE AnswerInv'
  OBVIOUS
<1>1. AppRows' = AppRows
  BY DEF AppRows, extent, CheckNext, checkVars, ScalarsToAppRows, ScalarsToRows, TakeRows, Arrive,
         MergeRows, PartialCommitment, BadCommitments, WrongRowCount, BeginRows, SkipRow,
         AbortAtRow, CompareRow, ReturnRows
<1>2. CASE AbortAtRow
  <2>1. next \in AppRows /\ rows[next + 1].some /\ Unparsable(rows[next + 1])
    BY <1>2 DEF AbortAtRow, Unrelated, GivenRow
  <2>2. rows' = rows /\ answer'.kind = "err"
    BY <1>2 DEF AbortAtRow, Conclude, Abort
  <2> QED BY <1>1, <2>1, <2>2 DEF AnswerInv, VerifiedOrMissing, OthersDoNoHarm
<1>3. CASE ReturnRows
  <2>1. verified \subseteq AppRows
    BY DEF CheckInv, LoopInv, Accepted
  <2>2. answer' = OkRows(verified, AppRows \ verified)
    BY <1>3 DEF ReturnRows, Conclude, StillMissing
  <2> QED BY <1>1, <2>1, <2>2 DEF AnswerInv, VerifiedOrMissing, OthersDoNoHarm, OkRows
<1>4. CASE PartialCommitment \/ BadCommitments \/ WrongRowCount
  <2>1. \/ answer' = OkRows({}, AppRows)
        \/ answer' = Abort("SliceError") \/ answer' = Abort("BadCommitmentsData")
    BY <1>4 DEF PartialCommitment, BadCommitments, WrongRowCount, Conclude
  <2> QED BY <1>1, <2>1 DEF AnswerInv, VerifiedOrMissing, OthersDoNoHarm, OkRows, Abort
<1>5. CASE \/ ScalarsToAppRows \/ ScalarsToRows \/ TakeRows \/ MergeRows
           \/ BeginRows \/ SkipRow \/ CompareRow
           \/ \E cell \in query.sent : Arrive(cell)
  <2>1. answer' = answer /\ stage # "done"
    BY <1>5 DEF ScalarsToAppRows, ScalarsToRows, TakeRows, MergeRows, BeginRows, SkipRow,
                CompareRow, AtRow, Arrive
  <2>2. answer' = Unanswered
    BY <2>1 DEF CheckInv, TypeOK
  <2> QED BY <2>2 DEF AnswerInv, VerifiedOrMissing, OthersDoNoHarm, Unanswered
<1>6. CASE UNCHANGED checkVars
  BY <1>1, <1>6 DEF AnswerInv, VerifiedOrMissing, OthersDoNoHarm, checkVars
<1> QED BY <1>2, <1>3, <1>4, <1>5, <1>6 DEF CheckNext

LEMMA Answers == CheckSpec => []AnswerInv
<1>1. CheckInit => AnswerInv
  BY DEF CheckInit, AnswerInv, VerifiedOrMissing, OthersDoNoHarm, Unanswered
<1> QED BY <1>1, StepAnswer, CheckInvariance, PTL DEF CheckSpec

\* Each row of the application is verified or missing, none both, and no other
\* row is named.
THEOREM AnswersPartition == CheckSpec => []VerifiedOrMissing
<1>1. AnswerInv => VerifiedOrMissing
  BY DEF AnswerInv
<1> QED BY Answers, <1>1, PTL

\* Rows of other applications cannot make the check fail.
THEOREM OnlyOwnRowsAbort == CheckSpec => []OthersDoNoHarm
<1>1. AnswerInv => OthersDoNoHarm
  BY DEF AnswerInv
<1> QED BY Answers, <1>1, PTL

-------------------------------------------------------------------------------
\* The rows of an application lie inside the extended matrix.

LEMMA RangeOfTyped ==
  ASSUME NEW lookup \in Seq([id : Nat, start : Nat, end : Nat]), NEW id,
         RangeOf(lookup, id) # NoRange
  PROVE  RangeOf(lookup, id).start \in Nat /\ RangeOf(lookup, id).end \in Nat
<1> DEFINE first == CHOOSE k \in DOMAIN lookup : IsFirstOf(lookup, id, k)
<1>1. \E k \in DOMAIN lookup : lookup[k].id = id
  BY DEF RangeOf
<1>2. RangeOf(lookup, id) = Range32(lookup[first].start, lookup[first].end)
  BY <1>1 DEF RangeOf
<1>3. \E k \in DOMAIN lookup : IsFirstOf(lookup, id, k)
  BY <1>1, FirstExists DEF Entries
<1>4. first \in DOMAIN lookup
  BY <1>3
<1>5. lookup[first] \in [id : Nat, start : Nat, end : Nat]
  <2>1. first \in 1 .. Len(lookup)
    BY <1>4
  <2> HIDE DEF first
  <2> QED BY <2>1, ElementOfSeq
<1> HIDE DEF first
<1> QED BY <1>2, <1>5 DEF Range32

LEMMA QuotientBelow ==
  ASSUME NEW cols \in Nat \ {0}, NEW height \in Nat \ {0}, NEW n \in Nat, n < height * cols
  PROVE  n \div cols \in 0 .. (height - 1)
  OBVIOUS

LEMMA AppRowsInside == Queried => AppRows \subseteq Indices(ExtendedRows(extent))
<1> SUFFICES ASSUME Queried, NEW row \in AppRows PROVE row \in Indices(ExtendedRows(extent))
  OBVIOUS
<1> DEFINE range == RangeOf(query.lookup, query.id)
<1>1. query.lookup \in Seq([id : Nat, start : Nat, end : Nat])
  BY QueriesAssumption DEF Queried
<1>2. range # NoRange /\ row \in ExtendedDataRows(extent, range.start, range.end)
  BY DEF AppRows, AppSpecificRows
<1>3. range.start \in Nat /\ range.end \in Nat
  BY <1>1, <1>2, RangeOfTyped
<1> HIDE DEF range
<1>8. Size(extent) \in Nat
  BY QueryShape DEF Size
<1>4. /\ range.end <= Size(extent) /\ range.end # 0
      /\ row \in ExtendedDataRow(extent, range.start) .. ExtendedDataRow(extent, range.end - 1)
  BY <1>2, <1>3, <1>8 DEF ExtendedDataRows
<1>5. (range.end - 1) \div extent.cols \in 0 .. (extent.rows - 1)
  <2>1. range.end - 1 \in Nat /\ range.end - 1 < Size(extent)
    BY <1>3, <1>4, <1>8
  <2>2. range.end - 1 < extent.rows * extent.cols
    BY <2>1 DEF Size
  <2> QED BY <2>1, <2>2, QueryShape, QuotientBelow
<1>6. range.start \div extent.cols \in Nat
  BY <1>3, QueryShape
<1>7. row \in 0 .. (ExtendedRows(extent) - 1)
  BY <1>4, <1>5, <1>6, QueryShape DEF ExtendedDataRow, ExtendedRows, EXTENSION_FACTOR
<1> QED BY <1>7 DEF Indices

-------------------------------------------------------------------------------
\* What a full node answers passes.

\* The node reads a row of the matrix it stores column by column.
LEMMA Stride ==
  ASSUME NEW height \in Nat \ {0}, NEW row \in 0 .. (height - 1), NEW steps \in Nat
  PROVE  /\ (row + steps * height) % height = row
         /\ (row + steps * height) \div height = steps
  OBVIOUS

LEMMA StridedRowIsRow ==
  ASSUME Queried, NEW row \in Indices(ExtendedRows(extent))
  PROVE  StridedRow(row) = query.coded[row]
<1>1. ASSUME NEW k \in 1 .. extent.cols
      PROVE  DataAt(row + (k - 1) * ExtendedRows(extent)) = query.coded[row][k]
  <2>1. k - 1 \in Nat /\ row \in 0 .. (ExtendedRows(extent) - 1)
    BY QueryShape DEF Indices
  <2>2. /\ (row + (k - 1) * ExtendedRows(extent)) % ExtendedRows(extent) = row
        /\ (row + (k - 1) * ExtendedRows(extent)) \div ExtendedRows(extent) = k - 1
    BY <2>1, QueryShape, Stride
  <2>3. k - 1 + 1 = k
    BY QueryShape
  <2> QED BY <2>2, <2>3 DEF DataAt
<1>2. query.coded[row] = [k \in 1 .. extent.cols |-> query.coded[row][k]]
  BY CodedWidth
<1> QED BY <1>1, <1>2 DEF StridedRow

FromNode == source \in {"app_rows", "rows"}
Wanted == IF source = "app_rows" THEN AppRows ELSE query.asked
Good == query.count = ExtendedRows(extent) /\ ~query.partial

NodePlace(k) == IF k - 1 \in Wanted THEN Row(query.coded[k - 1]) ELSE NoRow

NodeInv ==
  FromNode =>
    /\ stage # "obtain" =>
         /\ Len(rows) = ExtendedRows(extent)
         /\ \A k \in 1 .. ExtendedRows(extent) : rows[k] = NodePlace(k)
    /\ verified = {row \in AppRows \cap Wanted : row < next}
    /\ stage = "done" /\ Good => answer = OkRows(AppRows \cap Wanted, AppRows \ Wanted)

LEMMA RowsFromNode ==
  ASSUME Queried, ScalarsToAppRows \/ ScalarsToRows
  PROVE  /\ Len(rows') = ExtendedRows(extent)
         /\ \A k \in 1 .. ExtendedRows(extent) : rows'[k] = NodePlace(k)
<1>1. Len(rows') = ExtendedRows(extent)
  BY ObtainedWidth
<1>3. CASE ScalarsToAppRows
  <2>1. rows' = [k \in 1 .. ExtendedRows(extent) |->
                   IF k - 1 \in AppRows THEN Row(GetRow(k - 1)) ELSE NoRow]
    BY <1>3 DEF ScalarsToAppRows, OptionalRows
  <2>2. Wanted = AppRows
    BY <1>3 DEF ScalarsToAppRows, Wanted
  <2> QED BY <1>1, <2>1, <2>2 DEF NodePlace, GetRow
<1>4. CASE ScalarsToRows
  <2>1. rows' = [k \in 1 .. ExtendedRows(extent) |->
                   IF k - 1 \in query.asked THEN Row(StridedRow(k - 1)) ELSE NoRow]
    BY <1>4 DEF ScalarsToRows, OptionalRows
  <2>2. Wanted = query.asked
    BY <1>4 DEF ScalarsToRows, Wanted
  <2>3. \A k \in 1 .. ExtendedRows(extent) : k - 1 \in Indices(ExtendedRows(extent))
    BY QueryShape DEF Indices
  <2>4. \A k \in 1 .. ExtendedRows(extent) : StridedRow(k - 1) = query.coded[k - 1]
    BY <2>3, StridedRowIsRow
  <2> QED BY <1>1, <2>1, <2>2, <2>4 DEF NodePlace
<1> QED BY <1>3, <1>4

\* A chunk the author coded is a scalar.
LEMMA CodedParses ==
  ASSUME Queried, NEW row \in Indices(ExtendedRows(extent))
  PROVE  ~Unparsable(Row(query.coded[row]))
<1>1. \A k \in DOMAIN query.coded[row] : query.coded[row][k] # NotAScalar
  BY CodedWidth DEF NotAScalar
<1> QED BY <1>1 DEF Unparsable, HasRest, HasBadChunk, Row

LEMMA StepNode == CheckInv /\ NodeInv /\ [CheckNext]_checkVars => NodeInv'
<1> SUFFICES ASSUME CheckInv, NodeInv, [CheckNext]_checkVars, FromNode' PROVE NodeInv'
  BY DEF NodeInv
<1>1. query' = query
  BY DEF CheckNext, checkVars, ScalarsToAppRows, ScalarsToRows, TakeRows, Arrive,
         MergeRows, PartialCommitment, BadCommitments, WrongRowCount, BeginRows, SkipRow,
         AbortAtRow, CompareRow, ReturnRows
<1>2. /\ AppRows' = AppRows /\ Wanted' = Wanted /\ Good' = Good /\ extent' = extent
      /\ source' = source
  BY <1>1 DEF AppRows, Wanted, Good, extent, source
<1>11. \A k : NodePlace(k)' = NodePlace(k)
  BY <1>1, <1>2 DEF NodePlace
<1>3. FromNode /\ Queried /\ TypeOK /\ AppRows \subseteq Indices(ExtendedRows(extent))
  BY <1>2, AppRowsInside DEF FromNode, CheckInv
<1>4. ExtendedRows(extent) \in Nat /\ next \in 0 .. ExtendedRows(extent)
  BY <1>3, QueryShape DEF TypeOK
<1>5. CASE ScalarsToAppRows \/ ScalarsToRows
  <2>1. stage' = "verify" /\ next' = next /\ verified' = verified
    BY <1>5 DEF ScalarsToAppRows, ScalarsToRows
  <2> QED BY <1>2, <1>3, <1>11, <1>5, <2>1, RowsFromNode DEF NodeInv
<1>6. CASE TakeRows \/ MergeRows \/ \E cell \in query.sent : Arrive(cell)
  BY <1>3, <1>6 DEF TakeRows, MergeRows, Arrive, FromNode
<1>7. CASE PartialCommitment \/ BadCommitments \/ WrongRowCount \/ BeginRows
  <2>1. /\ stage = "verify" /\ stage' \in {"rows", "done"}
        /\ UNCHANGED << rows, next, verified >>
    BY <1>7 DEF PartialCommitment, BadCommitments, WrongRowCount, BeginRows, Conclude
  <2>2. Len(rows) = ExtendedRows(extent)
    BY <1>3, <1>4, <2>1 DEF NodeInv
  <2>3. Good => stage' = "rows"
    BY <1>7, <2>2 DEF PartialCommitment, BadCommitments, WrongRowCount, BeginRows, Good
  <2> QED BY <1>2, <1>3, <1>11, <2>1, <2>3 DEF NodeInv
<1>8. CASE SkipRow \/ CompareRow \/ AbortAtRow
  <2>1. stage = "rows" /\ next < ExtendedRows(extent) /\ rows' = rows
    BY <1>8 DEF SkipRow, CompareRow, AbortAtRow, AtRow
  <2>2. next + 1 \in 1 .. ExtendedRows(extent) /\ next \in Indices(ExtendedRows(extent))
    BY <1>4, <2>1 DEF Indices
  <2>3. GivenRow = IF next \in Wanted THEN Row(query.coded[next]) ELSE NoRow
    <3>1. PICK k \in 1 .. ExtendedRows(extent) : k = next + 1
      BY <2>2
    <3>2. GivenRow = NodePlace(k)
      BY <1>3, <2>1, <3>1 DEF NodeInv, GivenRow
    <3>3. k - 1 = next
      BY <1>4, <3>1
    <3>4. NodePlace(k) = IF k - 1 \in Wanted THEN Row(query.coded[k - 1]) ELSE NoRow
      BY DEF NodePlace
    <3> QED BY <3>2, <3>3, <3>4
  <2>4. GivenRow.some <=> next \in Wanted
    BY <2>3 DEF Row, NoRow
  <2>5. next \in Wanted => ~Unparsable(GivenRow) /\ Genuine
    BY <1>3, <2>2, <2>3, CodedParses DEF Genuine, Commitment, Row
  <2>6. ~AbortAtRow
    BY <2>4, <2>5 DEF AbortAtRow
  <2>7. /\ next' = next + 1 /\ stage' = stage
        /\ verified' = IF next \in AppRows \cap Wanted THEN verified \cup {next} ELSE verified
    BY <1>8, <2>4, <2>5, <2>6 DEF SkipRow, CompareRow, Unrelated
  <2>8. verified' = {row \in AppRows \cap Wanted : row < next'}
    <3>1. verified = {row \in AppRows \cap Wanted : row < next}
      BY <1>3 DEF NodeInv
    <3>2. \A row \in AppRows : row < next + 1 <=> row < next \/ row = next
      BY <1>3, <1>4 DEF Indices
    <3> QED BY <2>7, <3>1, <3>2
  <2> QED BY <1>2, <1>3, <1>11, <2>1, <2>7, <2>8 DEF NodeInv
<1>9. CASE ReturnRows
  <2>1. /\ next = ExtendedRows(extent) /\ answer' = OkRows(verified, AppRows \ verified)
        /\ UNCHANGED << rows, next, verified >> /\ stage = "rows" /\ stage' = "done"
    BY <1>9 DEF ReturnRows, Conclude, StillMissing
  <2>2. verified = AppRows \cap Wanted
    <3>1. verified = {row \in AppRows \cap Wanted : row < ExtendedRows(extent)}
      BY <1>3, <2>1 DEF NodeInv
    <3>2. \A row \in AppRows : row < ExtendedRows(extent)
      BY <1>3, <1>4 DEF Indices
    <3> QED BY <3>1, <3>2
  <2>3. AppRows \ verified = AppRows \ Wanted
    BY <2>2
  <2>4. answer' = OkRows(AppRows \cap Wanted, AppRows \ Wanted)
    BY <2>1, <2>2, <2>3
  <2> QED BY <1>2, <1>3, <1>11, <2>1, <2>4 DEF NodeInv
<1>10. CASE UNCHANGED checkVars
  BY <1>2, <1>3, <1>11, <1>10 DEF NodeInv, checkVars
<1> QED BY <1>5, <1>6, <1>7, <1>8, <1>9, <1>10 DEF CheckNext

\* A client never has to ask again for a row a full node sent it, with either
\* of the node's functions.
THEOREM NodeRowsPass == CheckSpec => []ServerRowsPass
<1>1. CheckInit => NodeInv
  <2> SUFFICES ASSUME CheckInit PROVE NodeInv
    OBVIOUS
  <2>1. Queried
    BY DEF CheckInit, Queried
  <2>2. \A row \in AppRows : row \in Nat
    BY <2>1, AppRowsInside, QueryShape DEF Indices
  <2>3. {row \in AppRows \cap Wanted : row < 0} = {}
    BY <2>2
  <2> QED BY <2>3 DEF CheckInit, NodeInv
<1>2. NodeInv => ServerRowsPass
  BY DEF NodeInv, ServerRowsPass, FromNode, Wanted, Good
<1> QED BY <1>1, <1>2, StepNode, CheckInvariance, PTL DEF CheckSpec


-------------------------------------------------------------------------------
\* Rows whose cells all came are not asked for again.

\* What FlattenSeq computes, and that it is this.
IsFlat(seqs, f) ==
  f = [i \in 1 .. Len(seqs) |-> IF i = 1 THEN seqs[i] ELSE f[i - 1] \o seqs[i]]

LEMMA FlattenIs ==
  ASSUME NEW seqs, Len(seqs) # 0
  PROVE  FlattenSeq(seqs) = (CHOOSE f : IsFlat(seqs, f))[Len(seqs)]
BY Zenon DEF FlattenSeq, IsFlat

\* One row more: the chunks up to a place, and the next one.
LEMMA OneMore ==
  ASSUME NEW n \in Nat, NEW row \in [1 .. n -> Nat], NEW i \in 1 .. n
  PROVE  [k \in 1 .. (i - 1) |-> row[k]] \o << row[i] >> = [k \in 1 .. i |-> row[k]]
<1> DEFINE left == [k \in 1 .. (i - 1) |-> row[k]]
           both == [k \in 1 .. i |-> row[k]]
<1>1. left \in Seq(Nat) /\ Len(left) = i - 1 /\ << row[i] >> \in Seq(Nat)
  OBVIOUS
<1>2. both \in Seq(Nat) /\ Len(both) = i
  OBVIOUS
<1>3. \A k \in 1 .. i : both[k] = row[k]
  OBVIOUS
<1>4. \A k \in 1 .. (i - 1) : left[k] = row[k]
  OBVIOUS
<1> HIDE DEF left, both
<1>5. Len(left \o << row[i] >>) = i /\ left \o << row[i] >> \in Seq(Nat)
  BY <1>1
<1>6. \A k \in 1 .. i : (left \o << row[i] >>)[k] = row[k]
  BY <1>1, <1>4
<1>7. left \o << row[i] >> = both
  BY <1>2, <1>3, <1>5, <1>6, SeqEqual
<1> QED BY <1>7 DEF left, both

\* Chunks one by one, and nothing behind them, flatten to their row.
LEMMA FlattenSingles ==
  ASSUME NEW n \in Nat, NEW row \in [1 .. n -> Nat]
  PROVE  FlattenSeq([k \in 1 .. (n + 1) |-> IF k <= n THEN << row[k] >> ELSE << >>]) = row
<1> DEFINE seqs == [k \in 1 .. (n + 1) |-> IF k <= n THEN << row[k] >> ELSE << >>]
           step(f, i) == IF i = 1 THEN seqs[i] ELSE f[i - 1] \o seqs[i]
           start(i) == [k \in 1 .. i |-> row[k]]
           whole == [i \in 1 .. (n + 1) |-> IF i <= n THEN start(i) ELSE row]
<1>1. Len(seqs) = n + 1 /\ DOMAIN seqs = 1 .. (n + 1)
  OBVIOUS
<1>2. \A i \in 1 .. (n + 1) : seqs[i] = IF i <= n THEN << row[i] >> ELSE << >>
  OBVIOUS
<1>3. \A i \in 1 .. (n + 1) : whole[i] = IF i <= n THEN start(i) ELSE row
  OBVIOUS
<1>4. row \in Seq(Nat) /\ row = start(n)
  OBVIOUS
<1>5. \A i \in 1 .. n : start(i - 1) \o << row[i] >> = start(i)
  BY OneMore
<1>6. n >= 1 => start(1) = << row[1] >>
  OBVIOUS
<1>7. row \o << >> = row
  BY <1>4
<1>8. n = 0 => row = << >>
  BY <1>4
<1> HIDE DEF seqs, whole, start
<1>9. ASSUME NEW i \in 1 .. (n + 1) PROVE whole[i] = step(whole, i)
  <2>1. CASE i = 1 /\ n = 0
    BY <1>2, <1>3, <1>8, <2>1
  <2>2. CASE i = 1 /\ n # 0
    BY <1>2, <1>3, <1>6, <2>2
  <2>3. CASE i # 1 /\ i <= n
    <3>3. i - 1 \in 1 .. (n + 1) /\ i - 1 <= n
      BY <2>3
    <3>1. whole[i - 1] = start(i - 1) /\ whole[i] = start(i) /\ seqs[i] = << row[i] >>
      BY <1>2, <1>3, <2>3, <3>3
    <3>2. start(i - 1) \o << row[i] >> = start(i)
      BY <1>5, <2>3
    <3> QED BY <2>3, <3>1, <3>2
  <2>4. CASE i # 1 /\ ~(i <= n)
    <3>1. i - 1 = n /\ n >= 1 /\ i - 1 \in 1 .. (n + 1)
      BY <2>4
    <3>2. whole[i - 1] = row /\ whole[i] = row /\ seqs[i] = << >>
      BY <1>2, <1>3, <1>4, <2>4, <3>1
    <3> QED BY <1>7, <2>4, <3>2
  <2> QED BY <2>1, <2>2, <2>3, <2>4
<1>10. IsFlat(seqs, whole)
  <2>1. whole = [i \in 1 .. (n + 1) |-> whole[i]]
    BY DEF whole
  <2>2. whole = [i \in 1 .. (n + 1) |-> step(whole, i)]
    <3> HIDE DEF step
    <3> QED BY <1>9, <2>1
  <2> QED BY <1>1, <2>2 DEF IsFlat
<1>11. ASSUME NEW f, IsFlat(seqs, f) PROVE f[n + 1] = row
  <2> DEFINE bad == {i \in 1 .. (n + 1) : f[i] # whole[i]}
  <2>1. \A i \in 1 .. (n + 1) : f[i] = step(f, i)
    BY <1>1, <1>11 DEF IsFlat
  <2>2. ASSUME bad # {} PROVE FALSE
    <3> HIDE DEF bad
    <3>1. bad \subseteq Nat
      BY DEF bad
    <3>2. PICK i \in bad : \A j \in bad : ~(<< j, i >> \in OpToRel(<, Nat))
      BY <2>2, <3>1, NatLessThanWellFounded, WFMin
    <3>3. i \in 1 .. (n + 1) /\ f[i] # whole[i]
      BY <3>2 DEF bad
    <3>4. i # 1 => f[i - 1] = whole[i - 1]
      <4> SUFFICES ASSUME i # 1 PROVE i - 1 \notin bad
        BY <3>3 DEF bad
      <4>1. i - 1 \in Nat /\ i \in Nat /\ i - 1 < i
        BY <3>3
      <4>2. << i - 1, i >> \in OpToRel(<, Nat)
        BY <4>1 DEF OpToRel
      <4> QED BY <3>2, <4>2
    <3>5. f[i] = step(f, i) /\ whole[i] = step(whole, i)
      BY <1>9, <2>1, <3>3
    <3> QED BY <3>3, <3>4, <3>5
  <2>3. f[n + 1] = whole[n + 1]
    BY <2>2
  <2> QED BY <1>3, <2>3
<1>12. (CHOOSE f : IsFlat(seqs, f))[n + 1] = row
  BY <1>10, <1>11
<1>13. FlattenSeq(seqs) = row
  BY <1>1, <1>12, FlattenIs
<1> QED BY <1>13 DEF seqs

\* A row whose cells came once each is merged to what the author coded.
LEMMA MergedIsCoded ==
  ASSUME Queried, NEW row \in Indices(ExtendedRows(extent)), CameOnce(row)
  PROVE  Merged(row) = query.coded[row]
<1> DEFINE coded == query.coded[row]
<1>1. extent.cols \in Nat /\ coded \in [1 .. extent.cols -> Nat]
  BY QueryShape, CodedWidth
<1>2. ASSUME NEW k \in 1 .. (extent.cols + 1)
      PROVE  ChunksAt(row, k - 1) = IF k <= extent.cols THEN << coded[k] >> ELSE << >>
  <2>1. CASE k <= extent.cols
    <3>1. k - 1 \in Indices(extent.cols) /\ k - 1 + 1 = k
      BY <1>1, <2>1 DEF Indices
    <3>2. ChunksAt(row, k - 1) = << query.coded[row][k - 1 + 1] >>
      BY <3>1, Zenon DEF CameOnce
    <3> QED BY <2>1, <3>1, <3>2
  <2>2. CASE ~(k <= extent.cols)
    <3>1. k - 1 = extent.cols
      BY <1>1, <2>2
    <3>2. ChunksAt(row, extent.cols) = << >>
      BY Zenon DEF CameOnce
    <3> QED BY <2>2, <3>1, <3>2
  <2> QED BY <2>1, <2>2
<1> HIDE DEF coded
<1>3. Merged(row)
        = FlattenSeq([k \in 1 .. (extent.cols + 1) |-> IF k <= extent.cols THEN << coded[k] >> ELSE << >>])
  <2>1. [k \in 1 .. (extent.cols + 1) |-> ChunksAt(row, k - 1)]
          = [k \in 1 .. (extent.cols + 1) |-> IF k <= extent.cols THEN << coded[k] >> ELSE << >>]
    BY <1>2
  <2> QED BY <2>1 DEF Merged
<1>4. Merged(row) = coded
  BY <1>1, <1>3, FlattenSingles
<1> QED BY <1>4 DEF coded

FromCells == source = "cells"

\* While the loop runs: rows whose cells came are in the list as the author coded
\* them, and those the loop has passed are verified.
CompleteInv ==
  FromCells =>
    /\ stage # "obtain" =>
         /\ Len(rows) = ExtendedRows(extent)
         /\ \A row \in AppRows : CameOnce(row) => rows[row + 1] = Row(query.coded[row])
    /\ \A row \in AppRows : CameOnce(row) /\ row < next => row \in verified
    /\ CompleteRowsAreVerified

LEMMA RowsFromCells ==
  ASSUME Queried, MergeRows, NEW row \in AppRows, CameOnce(row)
  PROVE  rows'[row + 1] = Row(query.coded[row])
<1>1. row \in Indices(ExtendedRows(extent))
  BY AppRowsInside
<1>2. Merged(row) = query.coded[row] /\ Len(query.coded[row]) = extent.cols
  BY <1>1, MergedIsCoded, CodedWidth
<1>3. Retained(row)
  BY <1>2 DEF Retained
<1> DEFINE complete == {r \in Indices(ExtendedRows(extent)) : Retained(r)}
<1>4. row \in complete
  BY <1>1, <1>3
<1>5. rows' = [k \in 1 .. ExtendedRows(extent) |->
                 IF k - 1 \in complete THEN Row(Merged(k - 1)) ELSE NoRow]
  BY DEF MergeRows, OptionalRows
<1> HIDE DEF complete
<1>6. PICK k \in 1 .. ExtendedRows(extent) : k = row + 1 /\ k - 1 = row
  <2>1. row \in Nat /\ row + 1 \in 1 .. ExtendedRows(extent)
    BY <1>1, QueryShape DEF Indices
  <2> QED BY <2>1
<1>7. rows'[k] = Row(Merged(row))
  BY <1>4, <1>5, <1>6
<1> QED BY <1>2, <1>6, <1>7

LEMMA StepComplete == CheckInv /\ CompleteInv /\ [CheckNext]_checkVars => CompleteInv'
<1> SUFFICES ASSUME CheckInv, CompleteInv, [CheckNext]_checkVars, FromCells' PROVE CompleteInv'
  BY DEF CompleteInv
<1>1. query' = query
  BY DEF CheckNext, checkVars, ScalarsToAppRows, ScalarsToRows, TakeRows, Arrive,
         MergeRows, PartialCommitment, BadCommitments, WrongRowCount, BeginRows, SkipRow,
         AbortAtRow, CompareRow, ReturnRows
<1>2. /\ AppRows' = AppRows /\ extent' = extent /\ source' = source
      /\ query'.coded = query.coded
  BY <1>1 DEF AppRows, extent, source
<1>3. FromCells /\ Queried /\ TypeOK /\ AppRows \subseteq Indices(ExtendedRows(extent))
  BY <1>2, AppRowsInside DEF FromCells, CheckInv
<1>4. ExtendedRows(extent) \in Nat /\ next \in 0 .. ExtendedRows(extent)
  BY <1>3, QueryShape DEF TypeOK
<1>5. ASSUME cells' = cells, NEW row PROVE CameOnce(row)' <=> CameOnce(row)
  <2>1. \A col : ChunksAt(row, col)' = ChunksAt(row, col)
    BY <1>5 DEF ChunksAt
  <2> QED BY <1>2, <2>1 DEF CameOnce
<1>6. \A row \in AppRows : row \in Nat
  BY <1>3 DEF Indices
<1>7. CASE ScalarsToAppRows \/ ScalarsToRows \/ TakeRows
  BY <1>3, <1>7 DEF ScalarsToAppRows, ScalarsToRows, TakeRows, FromCells
<1>8. CASE \E cell \in query.sent : Arrive(cell)
  <2>1. stage = "obtain" /\ stage' = stage /\ next' = next /\ answer' = answer
    BY <1>8 DEF Arrive
  <2>2. next = 0 /\ answer = Unanswered
    BY <1>3, <2>1 DEF CheckInv, LoopInv, TypeOK
  <2> QED BY <1>2, <1>6, <2>1, <2>2 DEF CompleteInv, CompleteRowsAreVerified, Unanswered
<1>9. CASE MergeRows
  <2>1. /\ stage = "obtain" /\ stage' = "verify" /\ next' = next /\ answer' = answer /\ cells' = cells
    BY <1>9 DEF MergeRows
  <2>2. next = 0 /\ answer = Unanswered
    BY <1>3, <2>1 DEF CheckInv, LoopInv, TypeOK
  <2>3. Len(rows') = ExtendedRows(extent)
    BY <1>3, <1>9, ObtainedWidth
  <2>4. \A row \in AppRows : CameOnce(row) => rows'[row + 1] = Row(query.coded[row])
    BY <1>3, <1>9, RowsFromCells
  <2> QED BY <1>2, <1>5, <1>6, <2>1, <2>2, <2>3, <2>4
          DEF CompleteInv, CompleteRowsAreVerified, Unanswered
<1>10. CASE PartialCommitment \/ BadCommitments \/ WrongRowCount \/ BeginRows
  <2>1. stage = "verify" /\ UNCHANGED << cells, rows, next, verified >>
    BY <1>10 DEF PartialCommitment, BadCommitments, WrongRowCount, BeginRows, Conclude
  <2>2. Len(rows) = ExtendedRows(extent) /\ answer = Unanswered
    BY <1>3, <2>1 DEF CompleteInv, TypeOK
  <2>3. answer'.kind # "ok"
    BY <1>10, <2>2 DEF PartialCommitment, BadCommitments, WrongRowCount, BeginRows, Conclude,
                       Abort, Unanswered
  <2> QED BY <1>2, <1>3, <1>5, <2>1, <2>3 DEF CompleteInv, CompleteRowsAreVerified
<1>11. CASE SkipRow \/ CompareRow
  <2>1. /\ stage = "rows" /\ stage' = stage /\ next < ExtendedRows(extent) /\ next' = next + 1
        /\ UNCHANGED << cells, rows, answer >> /\ verified \subseteq verified'
    BY <1>11 DEF SkipRow, CompareRow, AtRow
  <2>2. answer = Unanswered
    BY <1>3, <2>1 DEF TypeOK
  <2>3. ASSUME next \in AppRows, CameOnce(next) PROVE next \in verified'
    <3>1. GivenRow = Row(query.coded[next])
      BY <1>3, <2>1, <2>3 DEF CompleteInv, GivenRow
    <3>2. GivenRow.some /\ ~Unparsable(GivenRow) /\ Genuine
      BY <1>3, <2>3, <3>1, CodedParses DEF Genuine, Commitment, Row
    <3> QED BY <1>11, <2>3, <3>2 DEF SkipRow, CompareRow, Unrelated
  <2>4. \A row \in AppRows : row < next + 1 <=> row < next \/ row = next
    BY <1>4, <1>6
  <2>5. \A row \in AppRows : CameOnce(row) /\ row < next + 1 => row \in verified'
    BY <1>3, <2>1, <2>3, <2>4 DEF CompleteInv
  <2>6. stage # "obtain" /\ stage' # "obtain"
    BY <2>1
  <2> QED BY <1>2, <1>3, <1>5, <2>1, <2>2, <2>5, <2>6
          DEF CompleteInv, CompleteRowsAreVerified, Unanswered
<1>12. CASE AbortAtRow
  <2>1. /\ stage = "rows" /\ UNCHANGED << cells, rows, next, verified >> /\ answer'.kind # "ok"
    BY <1>12 DEF AbortAtRow, AtRow, Conclude, Abort
  <2> QED BY <1>2, <1>3, <1>5, <2>1 DEF CompleteInv, CompleteRowsAreVerified
<1>13. CASE ReturnRows
  <2>1. /\ stage = "rows" /\ next = ExtendedRows(extent) /\ answer'.verified = verified
        /\ UNCHANGED << cells, rows, next, verified >>
    BY <1>13 DEF ReturnRows, Conclude, OkRows
  <2>2. \A row \in AppRows : row < next
    BY <1>3, <1>4, <2>1 DEF Indices
  <2>3. \A row \in AppRows : CameOnce(row) => row \in verified
    BY <1>3, <2>2 DEF CompleteInv
  <2> QED BY <1>2, <1>3, <1>5, <2>1, <2>3 DEF CompleteInv, CompleteRowsAreVerified
<1>14. CASE UNCHANGED checkVars
  BY <1>2, <1>3, <1>5, <1>14 DEF CompleteInv, CompleteRowsAreVerified, checkVars
<1> QED BY <1>7, <1>8, <1>9, <1>10, <1>11, <1>12, <1>13, <1>14 DEF CheckNext

\* A row of the application whose cells came once each is never reported missing,
\* in whatever order they came and whatever came for the other rows.
THEOREM CompleteRowsPass == CheckSpec => []CompleteRowsAreVerified
<1>1. CheckInit => CompleteInv
  <2> SUFFICES ASSUME CheckInit PROVE CompleteInv
    OBVIOUS
  <2>1. Queried
    BY DEF CheckInit, Queried
  <2>2. \A row \in AppRows : row \in Nat
    BY <2>1, AppRowsInside, QueryShape DEF Indices
  <2> QED BY <2>2 DEF CheckInit, CompleteInv, CompleteRowsAreVerified, Unanswered
<1>2. CompleteInv => CompleteRowsAreVerified
  BY DEF CompleteInv, CompleteRowsAreVerified, FromCells
<1> QED BY <1>1, <1>2, StepComplete, CheckInvariance, PTL DEF CheckSpec

===============================================================================
