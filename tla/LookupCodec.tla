------------------------------ MODULE LookupCodec ------------------------------
(***************************************************************************)
(* The life of one data lookup: the block author folds (app id, length)    *)
(* pairs into it (from_id_and_len_iter), the header carries its compact    *)
(* form (from_data_lookup), and whoever decodes the header expands it      *)
(* again (TryFrom<CompactDataLookup>).  Each of the three loops takes one  *)
(* step per item.  A header may also have been encoded elsewhere: then     *)
(* only the decoder runs, on a member of Foreign.                          *)
(***************************************************************************)
EXTENDS DataLookup

CONSTANTS
  Items,     \* the (id, len) pairs the iterator may yield
  Foreign    \* compact lookups this program did not encode

ASSUME ItemsAssumption == Items \subseteq [id : U32, len : Nat]

CompactLookups ==
  [size : U32, index : Seq([id : U32, start : U32])]

ASSUME ForeignAssumption == Foreign \subseteq CompactLookups

VARIABLES
  pc,        \* what is running: build, encode, decode, or where it stopped
  origin,    \* "author" or "foreign"
  consumed,  \* the items pulled from the iterator so far (history)
  index,     \* the lookup under construction, then built
  offset,    \* local of the builder and of the decoder
  prevId,    \* their maybe_prev_id / prev_id; -1 is None
  pos,       \* position of the encoder's and the decoder's loop
  fault,     \* the Error a failed build returned, "none" before
  compact,   \* the header field
  decoded    \* the lookup expanded from it

vars == << pc, origin, consumed, index, offset, prevId, pos, fault, compact, decoded >>
builder == << consumed, index, fault >>

NoCompact == [size |-> 0, index |-> << >>]

Start ==
  /\ consumed = << >> /\ index = NewEmpty /\ fault = "none"
  /\ offset = 0 /\ prevId = -1 /\ pos = 1
  /\ decoded = << >>

Init ==
  /\ Start
  /\ \/ pc = "build" /\ origin = "author" /\ compact = NoCompact
     \/ pc = "sent" /\ origin = "foreign" /\ compact \in Foreign

-------------------------------------------------------------------------------
\* Building: from_id_and_len_iter, new_empty and new_error.

\* Mutant: the overflow of the running offset is not checked.
Verdict_Unchecked(item) ==
  IF ~(prevId < item.id) THEN "DataNotSorted"
  ELSE IF item.len = 0 THEN "DataEmptyOn"
  ELSE IF item.len > U32Max THEN "OffsetOverflows" ELSE "Ok"

\* Mutant: equal neighbours pass for sorted.
Verdict_EqualIds(item) ==
  IF prevId > item.id THEN "DataNotSorted"
  ELSE IF item.len = 0 THEN "DataEmptyOn"
  ELSE IF offset + item.len > U32Max THEN "OffsetOverflows" ELSE "Ok"

\* Mutant: a lookup that fills u32 exactly is refused.
Verdict_OffByOne(item) ==
  IF ~(prevId < item.id) THEN "DataNotSorted"
  ELSE IF item.len = 0 THEN "DataEmptyOn"
  ELSE IF offset + item.len >= U32Max THEN "OffsetOverflows" ELSE "Ok"

\* The checks of the closure, in their order.
Verdict(item) ==
  IF ~(prevId < item.id) THEN "DataNotSorted"
  ELSE IF item.len > U32Max THEN "OffsetOverflows"      \* u32::try_from(len)
  ELSE IF item.len = 0 THEN "DataEmptyOn"
  ELSE IF offset + item.len > U32Max THEN "OffsetOverflows"  \* checked_add
  ELSE "Ok"

PushItem(item) ==
  /\ pc = "build"
  /\ Verdict(item) = "Ok"
  /\ consumed' = Append(consumed, item)
  /\ index' = Append(index, Entry(item.id, offset, offset + item.len))
  /\ offset' = offset + item.len
  /\ prevId' = item.id
  /\ UNCHANGED << pc, origin, pos, fault, compact, decoded >>

\* The first Err ends the collect and drops the entries collected so far.
RejectItem(item) ==
  /\ pc = "build"
  /\ Verdict(item) # "Ok"
  /\ consumed' = Append(consumed, item)
  /\ index' = << >>
  /\ fault' = Verdict(item)
  /\ pc' = "failed"
  /\ UNCHANGED << origin, offset, prevId, pos, compact, decoded >>

FinishBuild ==
  /\ pc = "build"
  /\ pc' = "built"
  /\ UNCHANGED << origin, consumed, index, offset, prevId, pos, fault, compact, decoded >>

\* Header building went wrong: the author publishes new_error() instead.
BuildError ==
  /\ pc = "build" /\ consumed = << >>
  /\ index' = NewError
  /\ pc' = "built"
  /\ UNCHANGED << origin, consumed, offset, prevId, pos, fault, compact, decoded >>

-------------------------------------------------------------------------------
\* Encoding: CompactDataLookup::from_data_lookup.

EncodeError ==
  /\ pc = "built" /\ IsError(index)
  /\ compact' = CompactError
  /\ pc' = "sent"
  /\ UNCHANGED << origin, builder, offset, prevId, pos, decoded >>

EncodeBegin ==
  /\ pc = "built" /\ ~IsError(index)
  /\ pc' = "encode"
  /\ pos' = 1
  /\ UNCHANGED << origin, builder, offset, prevId, compact, decoded >>

PushCompact(entry) ==
  [size |-> compact.size,
   index |-> Append(compact.index, CompactItem(entry.id, entry.start))]

\* Mutant: the filter is missing.
EncodeItem_KeepsZero ==
  /\ pc = "encode" /\ pos <= Len(index)
  /\ compact' = PushCompact(index[pos])
  /\ pos' = pos + 1
  /\ UNCHANGED << pc, origin, builder, offset, prevId, decoded >>

\* The entry of AppId(0) is filtered out.
EncodeItem ==
  /\ pc = "encode" /\ pos <= Len(index)
  /\ compact' =
       IF index[pos].id = 0
         THEN compact
         ELSE PushCompact(index[pos])
  /\ pos' = pos + 1
  /\ UNCHANGED << pc, origin, builder, offset, prevId, decoded >>

EncodeEnd ==
  /\ pc = "encode" /\ pos > Len(index)
  /\ compact' = [size |-> LookupLen(index), index |-> compact.index]
  /\ pc' = "sent"
  /\ UNCHANGED << origin, builder, offset, prevId, pos, decoded >>

-------------------------------------------------------------------------------
\* Decoding: TryFrom<CompactDataLookup>.

DecodeError ==
  /\ pc = "sent" /\ CompactIsError(compact)
  /\ decoded' = NewError
  /\ pc' = "decoded"
  /\ UNCHANGED << origin, builder, offset, prevId, pos, compact >>

DecodeBegin ==
  /\ pc = "sent" /\ ~CompactIsError(compact)
  /\ offset' = 0 /\ prevId' = 0 /\ pos' = 1
  /\ pc' = "decode"
  /\ UNCHANGED << origin, builder, compact, decoded >>

\* Mutant: the offset is not carried to the next item.
DecodeItem_StaleOffset ==
  /\ pc = "decode" /\ pos <= Len(compact.index)
  /\ LET item == compact.index[pos]
     IN  /\ decoded' = Append(decoded, Entry(prevId, offset, item.start))
         /\ prevId' = item.id
  /\ pos' = pos + 1
  /\ UNCHANGED << pc, origin, builder, offset, compact >>

DecodeItem ==
  /\ pc = "decode" /\ pos <= Len(compact.index)
  /\ LET item == compact.index[pos]
     IN  /\ decoded' = Append(decoded, Entry(prevId, offset, item.start))
         /\ prevId' = item.id
         /\ offset' = item.start
  /\ pos' = pos + 1
  /\ UNCHANGED << pc, origin, builder, compact >>

\* Mutant: the range after the last item is forgotten.
Expanded_NoTail == decoded

\* The last range is pushed unless it is empty.
Expanded ==
  IF offset < compact.size
    THEN Append(decoded, Entry(prevId, offset, compact.size))
    ELSE decoded

DecodeAccept ==
  /\ pc = "decode" /\ pos > Len(compact.index)
  /\ LookupLen(Expanded) = compact.size
  /\ decoded' = Expanded
  /\ pc' = "decoded"
  /\ UNCHANGED << origin, builder, offset, prevId, pos, compact >>

DecodeReject ==
  /\ pc = "decode" /\ pos > Len(compact.index)
  /\ LookupLen(Expanded) # compact.size
  /\ decoded' = << >>
  /\ pc' = "rejected"
  /\ UNCHANGED << origin, builder, offset, prevId, pos, compact >>

Next ==
  \/ \E item \in Items : PushItem(item) \/ RejectItem(item)
  \/ FinishBuild \/ BuildError
  \/ EncodeError \/ EncodeBegin \/ EncodeItem \/ EncodeEnd
  \/ DecodeError \/ DecodeBegin \/ DecodeItem \/ DecodeAccept \/ DecodeReject

Spec == Init /\ [][Next]_vars

-------------------------------------------------------------------------------
\* Properties.

\* Types of all variables; locals of the builder and the decoder stay in u32.
TypeOK ==
  /\ pc \in {"build", "built", "encode", "sent", "decode", "decoded", "failed", "rejected"}
  /\ origin \in {"author", "foreign"}
  /\ consumed \in Seq([id : U32, len : Nat])
  /\ index \in Seq([id : U32, start : U32, end : U32])
  /\ offset \in U32
  /\ prevId \in U32 \cup {-1}
  /\ pos \in Nat \ {0}
  /\ fault \in {"none", "DataNotSorted", "DataEmptyOn", "OffsetOverflows"}
  /\ compact \in CompactLookups
  /\ decoded \in Seq([id : U32, start : U32, end : U32])

SortedById(lookup) ==
  \A j, k \in DOMAIN lookup : j < k => lookup[j].id < lookup[k].id

\* Ranges start at 0 and each begins where the one before it ends.
Contiguous(lookup) ==
  \A k \in DOMAIN lookup :
    lookup[k].start = IF k = 1 THEN 0 ELSE lookup[k - 1].end

AllNonEmpty(lookup) == \A k \in DOMAIN lookup : lookup[k].start < lookup[k].end

\* Whatever from_id_and_len_iter was fed, its entries are strictly sorted by
\* application, non-empty, and tile 0 .. len without gap or overlap; the only
\* other lookup an author publishes is new_error().
IndexTiles ==
  \/ index = NewError
  \/ SortedById(index) /\ AllNonEmpty(index) /\ Contiguous(index)

\* While a build has not failed, entry k is the k-th item of the iterator:
\* the same application and exactly as many chunks as it asked for.
IndexMatchesInput ==
  pc # "failed" /\ index # NewError =>
    /\ Len(index) = Len(consumed)
    /\ \A k \in DOMAIN index :
         /\ index[k].id = consumed[k].id
         /\ index[k].end - index[k].start = consumed[k].len

\* The chunks the first k items ask for, and all of them.
LenUpTo(items) ==
  LET sum[k \in 0 .. Len(items)] == IF k = 0 THEN 0 ELSE sum[k - 1] + items[k].len
  IN  sum

TotalLen(items) == LenUpTo(items)[Len(items)]

\* The inputs the doc of the Error variants calls legal.
Acceptable(items) ==
  /\ \A j, k \in DOMAIN items : j < k => items[j].id < items[k].id
  /\ \A k \in DOMAIN items : items[k].len > 0
  /\ TotalLen(items) <= U32Max

\* from_id_and_len_iter decides exactly: it succeeds on every sorted, non-empty
\* input whose total fits u32 and fails on every other, and the Error it
\* returns names a condition that its input really has.
BuilderDecidesExactly ==
  /\ pc = "built" => Acceptable(consumed)
  /\ pc = "failed" =>
       LET n == Len(consumed)
       IN  /\ ~Acceptable(consumed)
           /\ Acceptable(SubSeq(consumed, 1, n - 1))
           /\ fault = "DataNotSorted" => n > 1 /\ consumed[n - 1].id >= consumed[n].id
           /\ fault = "DataEmptyOn" => consumed[n].len = 0
           /\ fault = "OffsetOverflows" => TotalLen(consumed) > U32Max

\* A lookup of u32::MAX chunks is taken for the legacy error marker.
Saturated == LookupLen(index) = U32Max

Received == origin = "author" /\ pc = "decoded"

\* try_from pushes an entry for AppId(0) whenever an application follows, also
\* when the author's lookup had none: then a phantom (0, 0..0) comes first.
Phantom(lookup) ==
  IF lookup = << >> \/ lookup[1].id = 0
    THEN << >>
    ELSE << Entry(0, 0, 0) >>

\* What the header's receiver holds is the author's lookup, up to the phantom.
DecodedIsIndex == Received /\ ~Saturated => decoded = Phantom(index) \o index

\* Light clients fetch the chunks of their application by range_of: for every
\* application but 0 the range read from the decoded header is the author's.
RangesSurvive ==
  Received /\ ~Saturated =>
    \A id \in U32 \ {0} : RangeOf(decoded, id) = RangeOf(index, id)

\* No header written by from_data_lookup is refused by try_from.
AuthorNeverRejected == origin = "author" => pc # "rejected"

\* The receiver takes the header for an error header exactly when the author
\* published one, or filled the lookup to u32::MAX.
ErrorFlagSurvives ==
  Received => (IsError(decoded) <=> IsError(index) \/ Saturated)

\* Every accepted header, whoever encoded it, expands to ranges that begin at
\* 0, follow each other without gap and end at the announced size.
DecodedContiguous ==
  pc = "decoded" /\ ~CompactIsError(compact) =>
    /\ Contiguous(decoded)
    /\ LookupLen(decoded) = compact.size

===============================================================================
