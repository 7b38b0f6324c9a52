------------------------------ MODULE DataLookup ------------------------------
(***************************************************************************)
(* The data lookup of a block: which half-open range of chunks belongs to  *)
(* which application (core/src/data_lookup/mod.rs), and the compact form   *)
(* in which it travels in the header (core/src/data_lookup/compact.rs).    *)
(* A lookup is the sequence `index` of the Rust struct; an Option that is  *)
(* None is NoRange, a range outside u32.                                   *)
(***************************************************************************)
EXTENDS Integers, Sequences

CONSTANT U32Max      \* u32::MAX, scaled down for model checking

ASSUME U32MaxAssumption == U32Max \in Nat \ {0}

U32 == 0 .. U32Max

Range32(start, end) == [start |-> start, end |-> end]
NoRange == Range32(-1, -1)

Entry(id, start, end) == [id |-> id, start |-> start, end |-> end]
CompactItem(id, start) == [id |-> id, start |-> start]

NewEmpty == << >>
NewError == << Entry(0, 0, 0) >>

LookupLen(lookup) == IF lookup = << >> THEN 0 ELSE lookup[Len(lookup)].end
IsError(lookup) == LookupLen(lookup) = 0 /\ lookup # << >>

\* Iterator::find: the first entry of the application.
IsFirstOf(lookup, id, k) ==
  /\ lookup[k].id = id
  /\ \A j \in 1 .. (k - 1) : lookup[j].id # id

RangeOf(lookup, id) ==
  IF \E k \in DOMAIN lookup : lookup[k].id = id
    THEN LET k == CHOOSE k \in DOMAIN lookup : IsFirstOf(lookup, id, k)
         IN  Range32(lookup[k].start, lookup[k].end)
    ELSE NoRange

\* checked_mul fails on either bound of the range.
Overflows(range, chunk) ==
  range.start * chunk > U32Max \/ range.end * chunk > U32Max

ProjectedRangeOf(lookup, id, chunk) ==
  LET range == RangeOf(lookup, id)
  IN  IF range = NoRange \/ Overflows(range, chunk)
        THEN NoRange
        ELSE Range32(range.start * chunk, range.end * chunk)

\* Err(OffsetOverflows) of projected_ranges ...
ProjectionOverflows(lookup, chunk) ==
  \E k \in DOMAIN lookup : Overflows(lookup[k], chunk)

\* ... and its Ok value.
ProjectedRanges(lookup, chunk) ==
  [k \in DOMAIN lookup |->
     Entry(lookup[k].id, lookup[k].start * chunk, lookup[k].end * chunk)]

CompactError == [size |-> 0, index |-> << CompactItem(0, 0) >>]

\* Mutant: the legacy marker is forgotten.
CompactIsError_NoLegacy(c) == c.size = 0 /\ c.index # << >>

\* size = u32::MAX is the error marker of older headers.
CompactIsError(c) == c.size = U32Max \/ (c.size = 0 /\ c.index # << >>)

===============================================================================
