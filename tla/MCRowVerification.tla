--------------------------- MODULE MCRowVerification ---------------------------
(* Small instances of RowVerification: a matrix of 2x2, extended to 4x2, with  *)
(* rows that end in zero or have equal cells, and one of 1x3 whose rows do not *)
(* fill their domain.                                                          *)
EXTENDS RowVerification

Square == Dimensions(2, 2)
Wide == Dimensions(1, 3)

MCDomainSize(width) == CASE width = 1 -> 1 [] width = 2 -> 2 [] OTHER -> 4

MCCoded(matrix) ==
  IF matrix = Square
    THEN [row \in 0 .. 3 |-> CASE row = 0 -> << 1, 2 >> [] row = 1 -> << 5, 5 >>
                               [] row = 2 -> << 3, 0 >> [] row = 3 -> << 3, 1 >>]
    ELSE [row \in 0 .. 1 |-> CASE row = 0 -> << 4, 4, 0 >> [] row = 1 -> << 6, 1, 2 >>]

\* Lookups of authors, and one that reaches beyond the matrix.
Lookups(matrix) ==
  IF matrix = Square
    THEN { << Entry(0, 0, 3) >>, << Entry(0, 0, 1), Entry(1, 1, 4) >>,
           << Entry(0, 0, 0), Entry(1, 0, 2), Entry(2, 2, 4) >>, << Entry(1, 2, 5) >> }
    ELSE { << Entry(0, 0, 1), Entry(1, 1, 3) >> }

Ids == {0, 1}

Cell(row, col, value) == [row |-> row, col |-> col, value |-> value]

\* For each position of a data row the author's chunk and a bad one; one chunk
\* behind the last column; and a bad chunk of a coded row.
Sent(matrix) ==
  LET bad(row, col) == IF row + col = 1 THEN NotAScalar ELSE 0
      data == {row \in Indices(ExtendedRows(matrix)) : row % 2 = 0}
  IN  {Cell(row, col, MCCoded(matrix)[row][col + 1]) : row \in data, col \in Indices(matrix.cols)}
      \cup {Cell(row, col, bad(row, col)) : row \in data, col \in Indices(matrix.cols)}
      \cup {Cell(0, matrix.cols, 2), Cell(1, 0, NotAScalar), Cell(1, 1, 5)}

\* Of a data row: nothing, the author's, shorter by a zero, longer, another's,
\* and two that cannot be parsed.
RawRows(matrix, row) ==
  LET good == MCCoded(matrix)[row]
      cut == SubSeq(good, 1, matrix.cols - 1)
  IN  {NoRow, Row(good), Row(cut), Row(good \o << 0 >>), Row(good \o << 0, 7 >>),
       Row(MCCoded(matrix)[1]), Row(cut \o << NotAScalar >>), [Row(good) EXCEPT !.rest = TRUE]}

RawLists(matrix) ==
  IF matrix = Square
    THEN {<< zero, one, two, NoRow >> : zero \in RawRows(Square, 0), two \in RawRows(Square, 2),
                                        one \in {NoRow, Row(<< NotAScalar >>)}}
         \cup {<< >>, << Row(<< 1, 2 >>), Row(<< 3, 0 >>), NoRow >>}
    ELSE {<< zero, NoRow >> : zero \in RawRows(Wide, 0)}

Ask(src, matrix, lookup, id) ==
  [source |-> src, id |-> id, dims |-> matrix, lookup |-> lookup, coded |-> MCCoded(matrix),
   count |-> ExtendedRows(matrix), partial |-> FALSE, asked |-> {}, sent |-> {}, raw |-> << >>]

Questions(src) ==
  UNION {{Ask(src, matrix, lookup, id) : lookup \in Lookups(matrix), id \in Ids}
         : matrix \in {Square, Wide}}

\* Headers with a commitment too few or too many, or with a part of one.
Headers(questions) ==
  questions
  \cup {[q EXCEPT !.count = @ + change] : q \in questions, change \in {-1, 1}}
  \cup {[q EXCEPT !.partial = TRUE] : q \in questions}

MCQueries ==
  Headers(Questions("app_rows"))
  \cup UNION {{[q EXCEPT !.asked = asked] : asked \in SUBSET Indices(ExtendedRows(q.dims))}
              : q \in Questions("rows")}
  \cup {[q EXCEPT !.sent = Sent(q.dims)] : q \in Questions("cells")}
  \cup UNION {{[q EXCEPT !.raw = raw] : raw \in RawLists(q.dims)} : q \in Questions("raw")}

===============================================================================
