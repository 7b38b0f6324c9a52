---------------------------- MODULE RowVerification ----------------------------
(***************************************************************************)
(* How a light client comes by the rows of its application and tells which *)
(* of them are genuine: rows from a full node (scalars_to_app_rows and     *)
(* scalars_to_rows, kate/src/com.rs) or merged from cells (rows,           *)
(* kate/recovery/src/data.rs), checked against the commitments of the      *)
(* header (verify_equality, kate/recovery/src/commitments.rs).             *)
(*                                                                         *)
(* A scalar is a natural number; a chunk that is no scalar of the field is *)
(* NotAScalar.  A row received is a sequence of chunks, `rest` telling     *)
(* whether some bytes follow the last whole one.  A commitment is the      *)
(* evaluations it commits to, as it is binding.  The query says what the   *)
(* author coded, what the header holds, and where rows come from:          *)
(*   app_rows  scalars_to_app_rows of a full node;                         *)
(*   rows      scalars_to_rows of a full node, for the rows in `asked`;    *)
(*   cells     peers that send any of the cells `sent`, in any order, each *)
(*             any number of times;                                        *)
(*   raw       any list of rows.                                           *)
(***************************************************************************)
EXTENDS AppIndex, FiniteSets, SequencesExt

CONSTANTS
  Queries,       \* [source, id, dims, lookup, coded, count, partial, asked, sent, raw]
  DomainSize(_),  \* points of the evaluation domain for a row of that width
  MaxCells        \* cells the client collects at most

NotAScalar == -1
Scalar == Nat
Row(chunks) == [some |-> TRUE, chunks |-> chunks, rest |-> FALSE]
NoRow == [some |-> FALSE, chunks |-> << >>, rest |-> FALSE]

ASSUME QueriesAssumption ==
  \A r \in Queries :
    /\ r.source \in {"app_rows", "rows", "cells", "raw"}
    /\ r.id \in Nat
    /\ r.dims \in [rows : Nat \ {0}, cols : Nat \ {0}]
    /\ r.lookup \in Seq([id : Nat, start : Nat, end : Nat])
    /\ r.coded \in [Indices(ExtendedRows(r.dims)) -> [1 .. r.dims.cols -> Scalar]]
    /\ r.count \in Nat
    /\ r.partial \in BOOLEAN
    /\ \A cell \in r.sent :
         cell.row \in Indices(ExtendedRows(r.dims)) /\ cell.col \in 0 .. r.dims.cols
    /\ r.raw \in Seq([some : BOOLEAN, chunks : Seq(Scalar \cup {NotAScalar}), rest : BOOLEAN])

ASSUME DomainAssumption ==
  \A r \in Queries :
    DomainSize(r.dims.cols) \in Nat /\ DomainSize(r.dims.cols) >= r.dims.cols

ASSUME MaxCellsAssumption == MaxCells \in Nat

VARIABLES
  stage,
  query,
  cells,     \* cells received, in the order of their arrival
  rows,      \* what verify_equality is given; NoRow for None
  next,      \* row the loop looks at
  verified,
  answer

checkVars == << stage, query, cells, rows, next, verified, answer >>

source == query.source
extent == query.dims
AppRows == AppSpecificRows(query.lookup, extent, query.id)

Unanswered == [kind |-> "pending", err |-> "none", verified |-> {}, missing |-> {}]
OkRows(good, missing) == [kind |-> "ok", err |-> "none", verified |-> good, missing |-> missing]
Abort(err) == [kind |-> "err", err |-> err, verified |-> {}, missing |-> {}]

CheckInit ==
  /\ stage = "obtain"
  /\ query \in Queries
  /\ cells = << >> /\ rows = << >>
  /\ next = 0 /\ verified = {}
  /\ answer = Unanswered

Conclude(verdict) ==
  /\ answer' = verdict
  /\ stage' = "done"

-------------------------------------------------------------------------------
\* Rows from a full node.

\* get_row of nalgebra.
GetRow(row) == query.coded[row]

\* data[n] of a DMatrix, which is stored column by column.
DataAt(n) ==
  query.coded[n % ExtendedRows(extent)][n \div ExtendedRows(extent) + 1]

\* Mutant: the step is the number of data rows.
StridedRow_DataRows(row) == [k \in 1 .. extent.cols |-> DataAt(row + (k - 1) * extent.rows)]

StridedRow(row) == [k \in 1 .. extent.cols |-> DataAt(row + (k - 1) * ExtendedRows(extent))]

\* One Option per extended row.
OptionalRows(content) ==
  [k \in 1 .. ExtendedRows(extent) |->
     IF k - 1 \in DOMAIN content THEN Row(content[k - 1]) ELSE NoRow]

ScalarsToAppRows ==
  /\ stage = "obtain" /\ source = "app_rows"
  /\ rows' = OptionalRows([row \in AppRows |-> GetRow(row)])
  /\ stage' = "verify"
  /\ UNCHANGED << query, cells, next, verified, answer >>

ScalarsToRows ==
  /\ stage = "obtain" /\ source = "rows"
  /\ rows' = OptionalRows([row \in query.asked |-> StridedRow(row)])
  /\ stage' = "verify"
  /\ UNCHANGED << query, cells, next, verified, answer >>

TakeRows ==
  /\ stage = "obtain" /\ source = "raw"
  /\ rows' = query.raw
  /\ stage' = "verify"
  /\ UNCHANGED << query, cells, next, verified, answer >>

-------------------------------------------------------------------------------
\* Rows from cells.

Arrive(cell) ==
  /\ stage = "obtain" /\ source = "cells" /\ Len(cells) < MaxCells
  /\ cells' = Append(cells, cell)
  /\ UNCHANGED << stage, query, rows, next, verified, answer >>

\* The sort is stable: cells of one position stay in the order they came.
ChunksAt(row, col) ==
  LET here(cell) == cell.row = row /\ cell.col = col
      upTo[n \in 0 .. Len(cells)] ==
        IF n = 0 THEN << >>
        ELSE IF here(cells[n]) THEN Append(upTo[n - 1], cells[n].value) ELSE upTo[n - 1]
  IN  upTo[Len(cells)]

\* Mutant: cells are merged as they come.
Merged_Unsorted(row) ==
  LET here(cell) == cell.row = row
      at == SelectSeq(cells, here)
  IN  [k \in DOMAIN at |-> at[k].value]

\* A column behind the last one is merged like any other.
Merged(row) == FlattenSeq([k \in 1 .. (extent.cols + 1) |-> ChunksAt(row, k - 1)])

\* Mutant: incomplete rows are retained.
Retained_All(row) == Merged(row) # << >>

Retained(row) == Len(Merged(row)) = extent.cols

\* rows(), the result put at its indexes.
MergeRows ==
  /\ stage = "obtain" /\ source = "cells"
  /\ LET complete == {row \in Indices(ExtendedRows(extent)) : Retained(row)}
     IN  rows' = OptionalRows([row \in complete |-> Merged(row)])
  /\ stage' = "verify"
  /\ UNCHANGED << query, cells, next, verified, answer >>

-------------------------------------------------------------------------------
\* The commitments of the header: as many as it has, those for rows of the
\* matrix being the author's.

\* ifft resizes to the domain: what lies behind is cut off, what is short is
\* filled up with zeros.
Evaluations(chunks) ==
  [k \in 1 .. DomainSize(extent.cols) |-> IF k <= Len(chunks) THEN chunks[k] ELSE 0]

Commit(chunks) == Evaluations(chunks)
Commitment(row) == Commit(query.coded[row])

\* from_slice meets bytes that are no whole commitment.
PartialCommitment ==
  /\ stage = "verify" /\ query.partial
  /\ Conclude(Abort("SliceError"))
  /\ UNCHANGED << query, cells, rows, next, verified >>

BadCommitments ==
  /\ stage = "verify" /\ ~query.partial
  /\ query.count # ExtendedRows(extent)
  /\ Conclude(Abort("BadCommitmentsData"))
  /\ UNCHANGED << query, cells, rows, next, verified >>

WrongRowCount ==
  /\ stage = "verify" /\ ~query.partial
  /\ query.count = ExtendedRows(extent)
  /\ Len(rows) # ExtendedRows(extent)
  /\ Conclude(OkRows({}, AppRows))
  /\ UNCHANGED << query, cells, rows, next, verified >>

BeginRows ==
  /\ stage = "verify" /\ ~query.partial
  /\ query.count = ExtendedRows(extent)
  /\ Len(rows) = ExtendedRows(extent)
  /\ stage' = "rows"
  /\ UNCHANGED << query, cells, rows, next, verified, answer >>

-------------------------------------------------------------------------------
\* verify_equality, row by row.

AtRow == stage = "rows" /\ next < ExtendedRows(extent)
GivenRow == rows[next + 1]

\* Mutant: the filter on rows of the application is dropped.
Unrelated_None == FALSE

Unrelated == next \notin AppRows

\* The chunk values try_into_scalars rejects; the first error wins.
HasRest(row) == row.rest
HasBadChunk(row) == \E k \in DOMAIN row.chunks : row.chunks[k] = NotAScalar
Unparsable(row) == HasRest(row) \/ HasBadChunk(row)

\* Neither a row of another application nor one that is None is looked at.
SkipRow ==
  /\ AtRow
  /\ Unrelated \/ ~GivenRow.some
  /\ next' = next + 1
  /\ UNCHANGED << stage, query, cells, rows, verified, answer >>

AbortAtRow ==
  /\ AtRow
  /\ ~Unrelated /\ GivenRow.some /\ Unparsable(GivenRow)
  /\ Conclude(Abort(IF HasRest(GivenRow) THEN "BadLen" ELSE "ArkworksError"))
  /\ UNCHANGED << query, cells, rows, next, verified >>

Genuine == Commit(GivenRow.chunks) = Commitment(next)

CompareRow ==
  /\ AtRow
  /\ ~Unrelated /\ GivenRow.some /\ ~Unparsable(GivenRow)
  /\ verified' = IF Genuine THEN verified \cup {next} ELSE verified
  /\ next' = next + 1
  /\ UNCHANGED << stage, query, cells, rows, answer >>

\* Mutant: rows that came are not missing, whatever they hold.
StillMissing_Received == {row \in AppRows : ~rows[row + 1].some}

StillMissing == AppRows \ verified

ReturnRows ==
  /\ stage = "rows" /\ next = ExtendedRows(extent)
  /\ Conclude(OkRows(verified, StillMissing))
  /\ UNCHANGED << query, cells, rows, next, verified >>

CheckNext ==
  \/ ScalarsToAppRows \/ ScalarsToRows \/ TakeRows
  \/ \E cell \in query.sent : Arrive(cell)
  \/ MergeRows
  \/ PartialCommitment \/ BadCommitments \/ WrongRowCount \/ BeginRows
  \/ SkipRow \/ AbortAtRow \/ CompareRow \/ ReturnRows

CheckSpec == CheckInit /\ [][CheckNext]_checkVars

-------------------------------------------------------------------------------
\* Properties.

\* Types; the loop stays inside the matrix, and both lists it zips have an item
\* for each of its rows.
TypeOK ==
  /\ stage \in {"obtain", "verify", "rows", "done"}
  /\ cells \in Seq(query.sent) /\ Len(cells) <= MaxCells
  /\ next \in 0 .. ExtendedRows(extent)
  /\ stage = "rows" =>
       Len(rows) = ExtendedRows(extent) /\ query.count = ExtendedRows(extent) /\ ~query.partial
  /\ answer = Unanswered <=> stage # "done"

Exact(row) == ~row.rest /\ Len(row.chunks) = extent.cols

\* The bytes of a row are those the author coded.
AuthoredRow(row, given) ==
  /\ ~given.rest /\ Len(given.chunks) = extent.cols
  /\ \A k \in 1 .. extent.cols : given.chunks[k] = query.coded[row][k]

\* A row that is reported as verified is the author's, however its cells came:
\* in any order, twice, or from behind the last column.  Of rows nobody merged
\* from cells this holds for those of the matrix' width: verify_equality does
\* not look at the width, and the transform cuts and fills up.
VerifiedAreAuthored ==
  \A row \in verified :
    source # "raw" \/ Len(rows[row + 1].chunks) = extent.cols
      => AuthoredRow(row, rows[row + 1])

\* An answer divides the rows of the application: each is verified or missing,
\* none both, and no other row is named.
VerifiedOrMissing ==
  answer.kind = "ok" =>
    /\ answer.verified \cup answer.missing = AppRows
    /\ answer.verified \cap answer.missing = {}

\* The cells of a row came once each, as the author coded them, and none from
\* behind the last column.
CameOnce(row) ==
  /\ \A col \in Indices(extent.cols) : ChunksAt(row, col) = << query.coded[row][col + 1] >>
  /\ ChunksAt(row, extent.cols) = << >>

\* No row is asked for again whose cells are all there: such rows are verified,
\* whatever order the network chose and whatever came for the other rows.
CompleteRowsAreVerified ==
  source = "cells" /\ answer.kind = "ok" =>
    \A row \in AppRows : CameOnce(row) => row \in answer.verified

\* What a full node answers passes the client's check: none of the rows it was
\* asked for is missing, with either function, although they read the matrix in
\* different ways.
ServerRowsPass ==
  /\ stage = "done" /\ query.count = ExtendedRows(extent) /\ ~query.partial
  /\ source \in {"app_rows", "rows"}
  => LET asked == IF source = "app_rows" THEN AppRows ELSE AppRows \cap query.asked
     IN  answer = OkRows(asked, AppRows \ asked)

\* Only a row of the application can make the check of rows fail: what peers
\* send for other rows does no harm.
OthersDoNoHarm ==
  answer.err \in {"BadLen", "ArkworksError"} =>
    \E row \in AppRows : rows[row + 1].some /\ Unparsable(rows[row + 1])

\* "Invalid rows are treated as missing." (kate/recovery/src/commitments.rs:83)
InvalidRowsAreMissing ==
  stage = "done" /\ query.count = ExtendedRows(extent) /\ ~query.partial => answer.kind = "ok"

===============================================================================
