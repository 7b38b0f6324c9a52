--------------------------- MODULE LookupCodecProofs ---------------------------
(***************************************************************************)
(* Theorems about LookupCodec for every value of its constants.            *)
(***************************************************************************)
EXTENDS LookupCodec, TLAPS, SequenceTheorems, WellFoundedInduction

Entries == [id : U32, start : U32, end : U32]

LEMMA EntryType ==
  ASSUME NEW id \in U32, NEW start \in U32, NEW end \in U32
  PROVE  /\ Entry(id, start, end) \in Entries
         /\ Entry(id, start, end).id = id
         /\ Entry(id, start, end).start = start
         /\ Entry(id, start, end).end = end
BY DEF Entry, Entries

LEMMA LookupLenType ==
  ASSUME NEW lookup \in Seq(Entries)
  PROVE  LookupLen(lookup) \in U32
<1>1. CASE lookup = << >>
  BY <1>1, U32MaxAssumption DEF LookupLen, U32
<1>2. CASE lookup # << >>
  <2>1. lookup[Len(lookup)] \in Entries
    BY <1>2, EmptySeq, ElementOfSeq
  <2> QED BY <1>2, <2>1 DEF LookupLen, Entries
<1> QED BY <1>1, <1>2

LEMMA NewErrorType == NewError \in Seq(Entries)
<1>1. Entry(0, 0, 0) \in Entries
  BY EntryType, U32MaxAssumption DEF U32
<1> QED BY <1>1 DEF NewError

\* The decoder's prev_id is an application, never None.
TypeInv == TypeOK /\ (pc = "decode" => prevId \in U32)

LEMMA TypeInvariant == Spec => []TypeInv
<1> USE DEF TypeInv, TypeOK, Entries
<1>1. Init => TypeInv
  <2>1. NoCompact \in CompactLookups /\ 0 \in U32
    BY U32MaxAssumption DEF NoCompact, CompactLookups, U32
  <2>2. /\ << >> \in Seq([id : U32, len : Nat])
        /\ << >> \in Seq(Entries)
    BY EmptySeq
  <2>3. Init => compact \in CompactLookups
    BY <2>1, ForeignAssumption DEF Init
  <2>4. Init => TypeOK
    BY <2>1, <2>2, <2>3 DEF Init, Start, NewEmpty
  <2> QED BY <2>4 DEF Init
<1>2. TypeInv /\ [Next]_vars => TypeInv'
  <2> SUFFICES ASSUME TypeInv, [Next]_vars PROVE TypeInv'
    OBVIOUS
  <2>1. ASSUME NEW item \in Items, PushItem(item) PROVE TypeInv'
    <3>0. item \in [id : U32, len : Nat]
      BY ItemsAssumption
    <3>1. /\ offset + item.len \in U32
          /\ item.id \in U32
      BY <2>1, <3>0, U32MaxAssumption DEF PushItem, Verdict, U32
    <3>2. index' \in Seq(Entries)
      BY <2>1, <3>1, EntryType DEF PushItem
    <3>3. consumed' \in Seq([id : U32, len : Nat])
      BY <2>1, ItemsAssumption DEF PushItem
    <3> QED BY <2>1, <3>1, <3>2, <3>3 DEF PushItem
  <2>2. ASSUME NEW item \in Items, RejectItem(item) PROVE TypeInv'
    <3>1. consumed' \in Seq([id : U32, len : Nat])
      BY <2>2, ItemsAssumption DEF RejectItem
    <3>2. fault' \in {"DataNotSorted", "DataEmptyOn", "OffsetOverflows"}
      BY <2>2 DEF RejectItem, Verdict
    <3> QED BY <2>2, <3>1, <3>2 DEF RejectItem
  <2>3. CASE FinishBuild
    BY <2>3 DEF FinishBuild
  <2>4. CASE BuildError
    <3>1. NewError \in Seq(Entries)
      BY NewErrorType
    <3> QED BY <2>4, <3>1 DEF BuildError
  <2>5. CASE EncodeError
    <3>1. CompactError \in CompactLookups
      <4>1. CompactItem(0, 0) \in [id : U32, start : U32] /\ 0 \in U32
        BY U32MaxAssumption DEF CompactItem, U32
      <4> QED BY <4>1 DEF CompactError, CompactLookups
    <3> QED BY <2>5, <3>1 DEF EncodeError, builder
  <2>6. CASE EncodeBegin
    BY <2>6 DEF EncodeBegin, builder
  <2>7. CASE EncodeItem
    <3>1. index[pos] \in Entries
      <4>1. pos \in 1 .. Len(index)
        BY <2>7, LenProperties DEF EncodeItem
      <4> QED BY <4>1, ElementOfSeq
    <3>2. CompactItem(index[pos].id, index[pos].start) \in [id : U32, start : U32]
      BY <3>1 DEF CompactItem
    <3>3. /\ compact.size \in U32
          /\ compact.index \in Seq([id : U32, start : U32])
      BY DEF CompactLookups
    <3>4. PushCompact(index[pos]) \in CompactLookups
      BY <3>2, <3>3 DEF PushCompact, CompactLookups
    <3>5. compact' \in CompactLookups
      BY <2>7, <3>4 DEF EncodeItem
    <3> QED BY <2>7, <3>5 DEF EncodeItem, builder
  <2>8. CASE EncodeEnd
    <3>1. /\ LookupLen(index) \in U32
          /\ compact.index \in Seq([id : U32, start : U32])
      BY LookupLenType DEF CompactLookups
    <3>2. compact' \in CompactLookups
      BY <2>8, <3>1 DEF EncodeEnd, CompactLookups
    <3> QED BY <2>8, <3>2 DEF EncodeEnd, builder
  <2>9. CASE DecodeError
    <3>1. NewError \in Seq(Entries)
      BY NewErrorType
    <3> QED BY <2>9, <3>1 DEF DecodeError, builder
  <2>10. CASE DecodeBegin
    BY <2>10, U32MaxAssumption DEF DecodeBegin, builder, U32
  <2>11. CASE DecodeItem
    <3>1. compact.index[pos] \in [id : U32, start : U32]
      <4>1. compact.index \in Seq([id : U32, start : U32])
        BY DEF CompactLookups
      <4>2. pos \in 1 .. Len(compact.index)
        BY <2>11, <4>1, LenProperties DEF DecodeItem
      <4> QED BY <4>1, <4>2, ElementOfSeq
    <3>2. decoded' \in Seq(Entries)
      BY <2>11, <3>1, EntryType DEF DecodeItem
    <3> QED BY <2>11, <3>1, <3>2 DEF DecodeItem, builder
  <2>12. CASE DecodeAccept
    <3>1. compact.size \in U32
      BY DEF CompactLookups
    <3>2. Entry(prevId, offset, compact.size) \in Entries
      BY <2>12, <3>1, EntryType DEF DecodeAccept
    <3>3. Expanded \in Seq(Entries)
      <4>1. decoded \in Seq(Entries)
        OBVIOUS
      <4>2. Append(decoded, Entry(prevId, offset, compact.size)) \in Seq(Entries)
        BY <3>2, <4>1, AppendProperties
      <4> QED BY <4>1, <4>2 DEF Expanded
    <3> QED BY <2>12, <3>3 DEF DecodeAccept, builder
  <2>13. CASE DecodeReject
    BY <2>13 DEF DecodeReject, builder
  <2>14. CASE UNCHANGED vars
    BY <2>14 DEF vars
  <2> QED
    BY <2>1, <2>2, <2>3, <2>4, <2>5, <2>6, <2>7, <2>8, <2>9, <2>10, <2>11,
       <2>12, <2>13, <2>14 DEF Next
<1> QED BY <1>1, <1>2, PTL DEF Spec

\* Every variable keeps its type: no local of the builder, the encoder or the
\* decoder leaves u32, whatever items and headers arrive.
THEOREM TypeCorrect == Spec => []TypeOK
<1>1. TypeInv => TypeOK
  BY DEF TypeInv
<1> QED BY <1>1, TypeInvariant, PTL

-------------------------------------------------------------------------------
(***************************************************************************)
(* What the builder leaves behind.  IndexTiles is not inductive: the next  *)
(* entry continues the tiling only because the locals offset and           *)
(* maybe_prev_id agree with the entries collected so far.                  *)
(***************************************************************************)
Tiles(lookup) == SortedById(lookup) /\ AllNonEmpty(lookup) /\ Contiguous(lookup)

LastId(lookup) == IF lookup = << >> THEN -1 ELSE lookup[Len(lookup)].id

Matches(items, lookup) ==
  /\ Len(lookup) = Len(items)
  /\ \A k \in 1 .. Len(lookup) :
       /\ lookup[k].id = items[k].id
       /\ lookup[k].end - lookup[k].start = items[k].len

BuildInv ==
  /\ pc = "build" =>
       /\ Tiles(index) /\ Matches(consumed, index)
       /\ offset = LookupLen(index) /\ prevId = LastId(index)
  /\ \/ index = NewError
     \/ Tiles(index) /\ (pc # "failed" => Matches(consumed, index))
  /\ origin = "foreign" =>
       index = << >> /\ pc \in {"sent", "decode", "decoded", "rejected"}

\* One more entry behind the last one keeps the tiling.
LEMMA AppendTiles ==
  ASSUME NEW lookup \in Seq(Entries), Tiles(lookup),
         NEW e \in Entries,
         e.start = LookupLen(lookup), e.start < e.end, LastId(lookup) < e.id
  PROVE  /\ Tiles(Append(lookup, e))
         /\ LookupLen(Append(lookup, e)) = e.end
         /\ LastId(Append(lookup, e)) = e.id
<1> DEFINE longer == Append(lookup, e)
           n == Len(lookup)
<1>1. /\ longer \in Seq(Entries) /\ Len(longer) = n + 1
      /\ \A k \in 1 .. n : longer[k] = lookup[k]
      /\ longer[n + 1] = e
      /\ longer # << >>
      /\ n \in Nat
      /\ DOMAIN longer = 1 .. (n + 1) /\ DOMAIN lookup = 1 .. n
  BY AppendProperties, LenProperties
<1>2. /\ \A k \in 1 .. n : lookup[k].id \in Int
      /\ e.id \in Int
  <2>1. \A k \in 1 .. n : lookup[k] \in Entries
    BY ElementOfSeq
  <2>2. \A x \in Entries : x.id \in Int
    BY U32MaxAssumption DEF Entries, U32
  <2> QED BY <2>1, <2>2
<1>3. \A j, k \in 1 .. n : j < k => lookup[j].id < lookup[k].id
  BY <1>1 DEF Tiles, SortedById
<1>4. ASSUME NEW k \in 1 .. n PROVE lookup[k].id < e.id
  <2>0. n \in Nat
    BY LenProperties
  <2>1. lookup # << >> /\ lookup[n].id < e.id
    BY <1>1 DEF LastId
  <2>2. k = n \/ lookup[k].id < lookup[n].id
    <3>1. n \in 1 .. n /\ (k = n \/ k < n)
      BY <1>4, <2>0
    <3> QED BY <1>3, <3>1
  <2>3. /\ n \in 1 .. n /\ lookup[n].id \in Int
        /\ lookup[k].id \in Int /\ e.id \in Int
    BY <1>2, <1>4, <2>0
  <2> QED BY <2>1, <2>2, <2>3
<1>5. SortedById(longer)
  <2> SUFFICES ASSUME NEW j \in 1 .. n + 1, NEW k \in 1 .. n + 1, j < k
               PROVE  longer[j].id < longer[k].id
    BY <1>1 DEF SortedById
  <2>1. j \in 1 .. n /\ (k \in 1 .. n \/ k = n + 1)
    BY <1>1
  <2> QED BY <1>1, <1>3, <1>4, <2>1
<1>6. AllNonEmpty(longer)
  <2> SUFFICES ASSUME NEW k \in 1 .. n + 1 PROVE longer[k].start < longer[k].end
    BY <1>1 DEF AllNonEmpty
  <2>1. k \in 1 .. n \/ k = n + 1
    BY <1>1
  <2> QED BY <1>1, <2>1 DEF Tiles, AllNonEmpty
<1>7. Contiguous(longer)
  <2> SUFFICES ASSUME NEW k \in 1 .. n + 1
               PROVE  longer[k].start = IF k = 1 THEN 0 ELSE longer[k - 1].end
    BY <1>1 DEF Contiguous
  <2>1. CASE k \in 1 .. n
    <3>1. k = 1 \/ k - 1 \in 1 .. n
      BY <1>1, <2>1
    <3> QED BY <1>1, <2>1, <3>1 DEF Tiles, Contiguous
  <2>2. CASE k = n + 1
    <3>1. CASE n = 0
      <4>1. lookup = << >>
        BY <3>1, EmptySeq
      <4> QED BY <1>1, <2>2, <3>1, <4>1 DEF LookupLen
    <3>2. CASE n # 0
      <4>1. lookup # << >> /\ k # 1 /\ k - 1 = n /\ n \in 1 .. n
        BY <1>1, <2>2, <3>2, EmptySeq
      <4> QED BY <1>1, <2>2, <4>1 DEF LookupLen
    <3> QED BY <3>1, <3>2
  <2> QED BY <1>1, <2>1, <2>2
<1> QED BY <1>1, <1>5, <1>6, <1>7 DEF Tiles, LookupLen, LastId

LEMMA NewErrorIsNoTiling == NewError # << >> /\ ~Tiles(NewError)
<1>1. /\ 1 \in DOMAIN NewError /\ NewError[1] = Entry(0, 0, 0)
      /\ NewError # << >>
  BY DEF NewError
<1>2. Entry(0, 0, 0).start = 0 /\ Entry(0, 0, 0).end = 0
  BY DEF Entry
<1>3. ~(NewError[1].start < NewError[1].end)
  BY <1>1, <1>2
<1>4. ~AllNonEmpty(NewError)
  BY <1>1, <1>3 DEF AllNonEmpty
<1> QED BY <1>1, <1>4 DEF Tiles

LEMMA EmptyTiles ==
  /\ Tiles(<< >>) /\ Matches(<< >>, << >>)
  /\ LookupLen(<< >>) = 0 /\ LastId(<< >>) = -1
<1>1. DOMAIN << >> = {} /\ Len(<< >>) = 0 /\ 1 .. 0 = {}
  BY EmptySeq
<1> QED BY <1>1 DEF Tiles, Matches, SortedById, AllNonEmpty, Contiguous, LookupLen, LastId

LEMMA BuildInvariant == Spec => []BuildInv
<1>1. Init => BuildInv
  BY EmptyTiles DEF Init, Start, NewEmpty, BuildInv
<1>2. TypeInv /\ BuildInv /\ [Next]_vars => BuildInv'
  <2> SUFFICES ASSUME TypeInv, BuildInv, [Next]_vars PROVE BuildInv'
    OBVIOUS
  <2>0. /\ index \in Seq(Entries) /\ offset \in U32 /\ prevId \in Int
        /\ consumed \in Seq([id : U32, len : Nat])
    BY DEF TypeInv, TypeOK, Entries, U32
  <2>1. ASSUME NEW item \in Items, PushItem(item) PROVE BuildInv'
    <3> DEFINE e == Entry(item.id, offset, offset + item.len)
    <3>1. item \in [id : U32, len : Nat]
      BY ItemsAssumption
    <3>2. /\ offset + item.len \in U32 /\ item.id \in U32
          /\ prevId < item.id /\ offset < offset + item.len
      BY <2>0, <2>1, <3>1, U32MaxAssumption DEF PushItem, Verdict, U32
    <3>3. /\ e \in Entries /\ e.start = offset /\ e.id = item.id
          /\ e.end = offset + item.len
      BY <2>0, <3>2, EntryType
    <3>4. Tiles(index) /\ Matches(consumed, index)
          /\ offset = LookupLen(index) /\ prevId = LastId(index)
      BY <2>1 DEF PushItem, BuildInv
    <3>5. /\ Tiles(Append(index, e))
          /\ LookupLen(Append(index, e)) = e.end
          /\ LastId(Append(index, e)) = e.id
      BY <2>0, <3>2, <3>3, <3>4, AppendTiles
    <3>6. Matches(Append(consumed, item), Append(index, e))
      <4> DEFINE m == Len(index)
      <4>1. /\ m \in Nat /\ Len(consumed) = m
            /\ Len(Append(index, e)) = m + 1
            /\ Len(Append(consumed, item)) = m + 1
            /\ \A k \in 1 .. m : /\ Append(index, e)[k] = index[k]
                                 /\ Append(consumed, item)[k] = consumed[k]
            /\ Append(index, e)[m + 1] = e
            /\ Append(consumed, item)[m + 1] = item
        BY <2>0, <3>1, <3>3, <3>4, AppendProperties, LenProperties DEF Matches
      <4>2. e.end - e.start = item.len /\ e.id = item.id
        BY <2>0, <3>1, <3>3 DEF U32
      <4> SUFFICES ASSUME NEW k \in 1 .. (m + 1)
                   PROVE  /\ Append(index, e)[k].id = Append(consumed, item)[k].id
                          /\ Append(index, e)[k].end - Append(index, e)[k].start
                               = Append(consumed, item)[k].len
        BY <4>1 DEF Matches
      <4>3. k \in 1 .. m \/ k = m + 1
        BY <4>1
      <4> QED BY <4>1, <4>2, <4>3, <3>4 DEF Matches
    <3> QED BY <2>1, <3>3, <3>5, <3>6 DEF PushItem, BuildInv
  <2>2. ASSUME NEW item \in Items, RejectItem(item) PROVE BuildInv'
    BY <2>2, EmptyTiles DEF RejectItem, BuildInv
  <2>3. CASE FinishBuild
    BY <2>3 DEF FinishBuild, BuildInv
  <2>4. CASE BuildError
    BY <2>4 DEF BuildError, BuildInv
  <2>5. CASE EncodeError
    BY <2>5 DEF EncodeError, builder, BuildInv
  <2>6. CASE EncodeBegin
    BY <2>6 DEF EncodeBegin, builder, BuildInv
  <2>7. CASE EncodeItem
    BY <2>7 DEF EncodeItem, builder, BuildInv
  <2>8. CASE EncodeEnd
    BY <2>8 DEF EncodeEnd, builder, BuildInv
  <2>9. CASE DecodeError
    BY <2>9 DEF DecodeError, builder, BuildInv
  <2>10. CASE DecodeBegin
    BY <2>10 DEF DecodeBegin, builder, BuildInv
  <2>11. CASE DecodeItem
    BY <2>11 DEF DecodeItem, builder, BuildInv
  <2>12. CASE DecodeAccept
    BY <2>12 DEF DecodeAccept, builder, BuildInv
  <2>13. CASE DecodeReject
    BY <2>13 DEF DecodeReject, builder, BuildInv
  <2>14. CASE UNCHANGED vars
    BY <2>14 DEF vars, BuildInv
  <2> QED
    BY <2>1, <2>2, <2>3, <2>4, <2>5, <2>6, <2>7, <2>8, <2>9, <2>10, <2>11,
       <2>12, <2>13, <2>14 DEF Next
<1> QED BY <1>1, <1>2, TypeInvariant, PTL DEF Spec

\* A lookup is an error lookup or strictly sorted, without empty ranges, and
\* tiles 0 .. len: no two applications share a chunk and no chunk is unowned.
THEOREM LookupTiles == Spec => []IndexTiles
<1>1. BuildInv => IndexTiles
  BY DEF BuildInv, IndexTiles, Tiles
<1> QED BY <1>1, BuildInvariant, PTL

\* Each application gets exactly the number of chunks the iterator announced.
THEOREM LookupMatchesInput == Spec => []IndexMatchesInput
<1>1. TypeInv /\ BuildInv => IndexMatchesInput
  <2>1. TypeInv => DOMAIN index = 1 .. Len(index)
    BY LenProperties DEF TypeInv, TypeOK
  <2> QED BY <2>1 DEF BuildInv, IndexMatchesInput, Matches
<1> QED BY <1>1, TypeInvariant, BuildInvariant, PTL

-------------------------------------------------------------------------------
(***************************************************************************)
(* What the encoder writes.  Only the first entry can belong to AppId(0),  *)
(* so filtering it out shifts the others by Skipped(lookup) positions.     *)
(***************************************************************************)
Skipped(lookup) == IF lookup # << >> /\ lookup[1].id = 0 THEN 1 ELSE 0

Kept(lookup, n, items) ==
  /\ Len(items) = IF n = 0 THEN 0 ELSE n - Skipped(lookup)
  /\ \A k \in 1 .. Len(items) :
       items[k] = CompactItem(lookup[k + Skipped(lookup)].id,
                              lookup[k + Skipped(lookup)].start)

EncodeInv ==
  /\ pc \in {"build", "built"} => compact = NoCompact
  /\ pc = "encode" =>
       /\ origin = "author" /\ ~IsError(index)
       /\ pos \in 1 .. Len(index) + 1
       /\ Kept(index, pos - 1, compact.index)
  /\ origin = "author" /\ pc \in {"sent", "decode", "decoded", "rejected"} =>
       \/ IsError(index) /\ compact = CompactError
       \/ /\ ~IsError(index)
          /\ compact.size = LookupLen(index)
          /\ Kept(index, Len(index), compact.index)

LEMMA TilesIsNoError ==
  ASSUME NEW lookup \in Seq(Entries), Tiles(lookup)
  PROVE  /\ ~IsError(lookup)
         /\ \A k \in 1 .. Len(lookup) : k > 1 => lookup[k].id # 0
<1>1. DOMAIN lookup = 1 .. Len(lookup) /\ Len(lookup) \in Nat
  BY LenProperties
<1>2. \A k \in 1 .. Len(lookup) : /\ lookup[k].id \in Nat
                                  /\ lookup[k].start \in Nat
                                  /\ lookup[k].end \in Nat
  <2>1. \A k \in 1 .. Len(lookup) : lookup[k] \in Entries
    BY ElementOfSeq
  <2>2. \A x \in Entries : x.id \in Nat /\ x.start \in Nat /\ x.end \in Nat
    BY U32MaxAssumption DEF Entries, U32
  <2> QED BY <2>1, <2>2
<1>3. ~IsError(lookup)
  <2>1. CASE lookup = << >>
    BY <2>1 DEF IsError
  <2>2. CASE lookup # << >>
    <3>1. Len(lookup) \in 1 .. Len(lookup)
      BY <2>2, EmptySeq
    <3>2. lookup[Len(lookup)].start < lookup[Len(lookup)].end
      BY <1>1, <3>1 DEF Tiles, AllNonEmpty
    <3> QED BY <1>2, <2>2, <3>1, <3>2 DEF IsError, LookupLen
  <2> QED BY <2>1, <2>2
<1>4. ASSUME NEW k \in 1 .. Len(lookup), k > 1 PROVE lookup[k].id # 0
  <2>1. 1 \in 1 .. Len(lookup)
    BY <1>1, <1>4
  <2>2. lookup[1].id < lookup[k].id
    BY <1>1, <1>4, <2>1 DEF Tiles, SortedById
  <2> QED BY <1>2, <2>1, <2>2
<1> QED BY <1>3, <1>4

LEMMA NewErrorIsError == IsError(NewError) /\ LookupLen(NewError) = 0
<1>1. NewError # << >> /\ Len(NewError) = 1 /\ NewError[1] = Entry(0, 0, 0)
  BY DEF NewError
<1> QED BY <1>1 DEF IsError, LookupLen, Entry

LEMMA EncodeInvariant == Spec => []EncodeInv
<1>1. Init => EncodeInv
  BY DEF Init, Start, EncodeInv
<1>2. TypeInv /\ BuildInv /\ EncodeInv /\ [Next]_vars => EncodeInv'
  <2> SUFFICES ASSUME TypeInv, BuildInv, EncodeInv, [Next]_vars PROVE EncodeInv'
    OBVIOUS
  <2>0. /\ index \in Seq(Entries) /\ compact \in CompactLookups
        /\ compact.index \in Seq([id : U32, start : U32])
    BY DEF TypeInv, TypeOK, Entries, CompactLookups
  <2>1. ASSUME NEW item \in Items, PushItem(item) PROVE EncodeInv'
    BY <2>1 DEF PushItem, EncodeInv
  <2>2. ASSUME NEW item \in Items, RejectItem(item) PROVE EncodeInv'
    BY <2>2 DEF RejectItem, EncodeInv
  <2>3. CASE FinishBuild
    BY <2>3 DEF FinishBuild, EncodeInv
  <2>4. CASE BuildError
    BY <2>4 DEF BuildError, EncodeInv
  <2>5. CASE EncodeError
    BY <2>5 DEF EncodeError, builder, EncodeInv
  <2>6. CASE EncodeBegin
    <3>1. compact' = NoCompact /\ pos' = 1 /\ index' = index /\ pc' = "encode"
          /\ origin' = origin /\ ~IsError(index)
      BY <2>6 DEF EncodeBegin, builder, EncodeInv
    <3>2. origin = "author"
      BY <2>6 DEF EncodeBegin, BuildInv, TypeInv, TypeOK
    <3>3. Kept(index, 0, << >>)
      BY EmptySeq DEF Kept
    <3>4. 1 \in 1 .. Len(index) + 1
      BY <2>0, LenProperties
    <3> QED BY <3>1, <3>2, <3>3, <3>4 DEF EncodeInv, NoCompact
  <2>7. CASE EncodeItem
    <3> DEFINE z == Skipped(index)
               ci == compact.index
               new == CompactItem(index[pos].id, index[pos].start)
    <3>1. /\ pc = "encode" /\ pos \in 1 .. Len(index) /\ pos' = pos + 1
          /\ origin = "author" /\ ~IsError(index)
          /\ Kept(index, pos - 1, ci) /\ UNCHANGED << pc, origin, index >>
          /\ Len(index) \in Nat
      BY <2>0, <2>7, LenProperties DEF EncodeItem, builder, EncodeInv
    <3>2. Tiles(index)
      BY <3>1, NewErrorIsError DEF BuildInv
    <3>3. index # << >>
      BY <3>1, EmptySeq
    <3>4. compact'.index = IF index[pos].id = 0 THEN ci ELSE Append(ci, new)
      BY <2>7 DEF EncodeItem, PushCompact
    <3>5. CASE index[pos].id = 0
      <4>1. pos = 1
        BY <2>0, <3>1, <3>2, <3>5, TilesIsNoError
      <4>2. z = 1 /\ Len(ci) = 0
        BY <3>1, <3>3, <3>5, <4>1 DEF Skipped, Kept
      <4>3. Kept(index, 1, ci)
        BY <4>2 DEF Kept
      <4> QED BY <3>1, <3>4, <3>5, <4>1, <4>3 DEF EncodeInv
    <3>6. CASE index[pos].id # 0
      <4>1. new \in [id : U32, start : U32]
        <5>1. index[pos] \in Entries
          BY <2>0, <3>1, ElementOfSeq
        <5> QED BY <5>1 DEF CompactItem, Entries
      <4>2. /\ Len(Append(ci, new)) = Len(ci) + 1
            /\ \A k \in 1 .. Len(ci) : Append(ci, new)[k] = ci[k]
            /\ Append(ci, new)[Len(ci) + 1] = new
            /\ Len(ci) \in Nat
        BY <2>0, <4>1, AppendProperties, LenProperties
      <4>3. Len(ci) + 1 = pos - z /\ z \in {0, 1}
        <5>1. CASE pos = 1
          BY <3>1, <3>6, <5>1 DEF Skipped, Kept
        <5>2. CASE pos # 1
          BY <3>1, <4>2, <5>2 DEF Skipped, Kept
        <5> QED BY <5>1, <5>2
      <4>4. \A k \in 1 .. Len(ci) + 1 :
              Append(ci, new)[k] = CompactItem(index[k + z].id, index[k + z].start)
        <5> TAKE k \in 1 .. Len(ci) + 1
        <5>1. CASE k \in 1 .. Len(ci)
          BY <3>1, <4>2, <5>1 DEF Kept
        <5>2. CASE k = Len(ci) + 1
          <6>1. k + z = pos
            BY <3>1, <4>2, <4>3, <5>2
          <6> QED BY <4>2, <5>2, <6>1
        <5> QED BY <4>2, <5>1, <5>2
      <4>5. Kept(index, pos, Append(ci, new))
        BY <3>1, <4>2, <4>3, <4>4 DEF Kept
      <4> HIDE DEF ci, new
      <4>6. Kept(index', pos' - 1, compact'.index) /\ pos' \in 1 .. Len(index') + 1
        BY <3>1, <3>4, <3>6, <4>5
      <4> QED BY <3>1, <4>6 DEF EncodeInv
    <3> QED BY <3>5, <3>6
  <2>8. CASE EncodeEnd
    <3>1. /\ pos = Len(index) + 1 /\ Kept(index, pos - 1, compact.index)
          /\ Len(index) \in Nat /\ ~IsError(index)
      BY <2>0, <2>8, LenProperties DEF EncodeEnd, EncodeInv
    <3>2. Kept(index, Len(index), compact.index)
      BY <3>1
    <3> QED BY <2>8, <3>1, <3>2 DEF EncodeEnd, builder, EncodeInv
  <2>9. CASE DecodeError
    BY <2>9 DEF DecodeError, builder, EncodeInv
  <2>10. CASE DecodeBegin
    BY <2>10 DEF DecodeBegin, builder, EncodeInv
  <2>11. CASE DecodeItem
    BY <2>11 DEF DecodeItem, builder, EncodeInv
  <2>12. CASE DecodeAccept
    BY <2>12 DEF DecodeAccept, builder, EncodeInv
  <2>13. CASE DecodeReject
    BY <2>13 DEF DecodeReject, builder, EncodeInv
  <2>14. CASE UNCHANGED vars
    BY <2>14 DEF vars, EncodeInv
  <2> QED
    BY <2>1, <2>2, <2>3, <2>4, <2>5, <2>6, <2>7, <2>8, <2>9, <2>10, <2>11,
       <2>12, <2>13, <2>14 DEF Next
<1> QED BY <1>1, <1>2, TypeInvariant, BuildInvariant, PTL DEF Spec

-------------------------------------------------------------------------------
(***************************************************************************)
(* What the decoder builds, from any compact lookup: entry k belongs to    *)
(* the application of item k - 1 and reaches from its start to the next.   *)
(***************************************************************************)
IdBefore(items, k) == IF k = 1 THEN 0 ELSE items[k - 1].id
StartBefore(items, k) == IF k = 1 THEN 0 ELSE items[k - 1].start

Unfolded(items, n, lookup) ==
  /\ Len(lookup) = n
  /\ \A k \in 1 .. n :
       lookup[k] = Entry(IdBefore(items, k), StartBefore(items, k), items[k].start)

\* The result, with its optional last range.
Expansion(c, lookup) ==
  LET m == Len(c.index)
  IN  \/ /\ ~(StartBefore(c.index, m + 1) < c.size)
         /\ Unfolded(c.index, m, lookup)
      \/ /\ StartBefore(c.index, m + 1) < c.size
         /\ Len(lookup) = m + 1
         /\ \A k \in 1 .. m : lookup[k] = Entry(IdBefore(c.index, k),
                                StartBefore(c.index, k), c.index[k].start)
         /\ lookup[m + 1] = Entry(IdBefore(c.index, m + 1),
                                  StartBefore(c.index, m + 1), c.size)

DecodeInv ==
  /\ pc \notin {"decode", "decoded"} => decoded = << >>
  /\ pc = "decode" =>
       /\ ~CompactIsError(compact)
       /\ pos \in 1 .. Len(compact.index) + 1
       /\ Unfolded(compact.index, pos - 1, decoded)
       /\ prevId = IdBefore(compact.index, pos)
       /\ offset = StartBefore(compact.index, pos)
  /\ pc = "decoded" =>
       \/ CompactIsError(compact) /\ decoded = NewError
       \/ /\ ~CompactIsError(compact)
          /\ Expansion(compact, decoded)
          /\ LookupLen(decoded) = compact.size

\* At the end of the loop Expanded is the expansion of the compact lookup.
LEMMA ExpandedIsExpansion ==
  ASSUME TypeInv, DecodeInv, pc = "decode", pos > Len(compact.index)
  PROVE  Expansion(compact, Expanded)
<1> DEFINE m == Len(compact.index)
           e == Entry(prevId, offset, compact.size)
<1>1. /\ m \in Nat /\ pos = m + 1 /\ decoded \in Seq(Entries)
      /\ Unfolded(compact.index, m, decoded)
      /\ prevId = IdBefore(compact.index, m + 1)
      /\ offset = StartBefore(compact.index, m + 1)
  <2>1. compact.index \in Seq([id : U32, start : U32]) /\ pos \in Nat
    BY DEF TypeInv, TypeOK, CompactLookups
  <2>2. pos = m + 1 /\ m \in Nat
    BY <2>1, LenProperties DEF DecodeInv
  <2> QED BY <2>2 DEF DecodeInv, TypeInv, TypeOK, Entries
<1>2. CASE offset < compact.size
  <2>1. e \in Entries
    BY EntryType DEF TypeInv, TypeOK, CompactLookups
  <2>2. /\ Len(Append(decoded, e)) = Len(decoded) + 1
        /\ \A k \in 1 .. Len(decoded) : Append(decoded, e)[k] = decoded[k]
        /\ Append(decoded, e)[Len(decoded) + 1] = e
    BY <1>1, <2>1, AppendProperties
  <2> QED BY <1>1, <1>2, <2>2 DEF Expanded, Expansion, Unfolded
<1>3. CASE ~(offset < compact.size)
  BY <1>1, <1>3 DEF Expanded, Expansion
<1> QED BY <1>2, <1>3

LEMMA DecodeInvariant == Spec => []DecodeInv
<1>1. Init => DecodeInv
  BY DEF Init, Start, DecodeInv
<1>2. TypeInv /\ DecodeInv /\ [Next]_vars => DecodeInv'
  <2> SUFFICES ASSUME TypeInv, DecodeInv, [Next]_vars PROVE DecodeInv'
    OBVIOUS
  <2>0. compact.index \in Seq([id : U32, start : U32]) /\ decoded \in Seq(Entries)
    BY DEF TypeInv, TypeOK, Entries, CompactLookups
  <2>1. ASSUME NEW item \in Items, PushItem(item) PROVE DecodeInv'
    BY <2>1 DEF PushItem, DecodeInv
  <2>2. ASSUME NEW item \in Items, RejectItem(item) PROVE DecodeInv'
    BY <2>2 DEF RejectItem, DecodeInv
  <2>3. CASE FinishBuild
    BY <2>3 DEF FinishBuild, DecodeInv
  <2>4. CASE BuildError
    BY <2>4 DEF BuildError, DecodeInv
  <2>5. CASE EncodeError
    BY <2>5 DEF EncodeError, DecodeInv
  <2>6. CASE EncodeBegin
    BY <2>6 DEF EncodeBegin, DecodeInv
  <2>7. CASE EncodeItem
    BY <2>7 DEF EncodeItem, DecodeInv
  <2>8. CASE EncodeEnd
    BY <2>8 DEF EncodeEnd, DecodeInv
  <2>9. CASE DecodeError
    BY <2>9 DEF DecodeError, DecodeInv
  <2>10. CASE DecodeBegin
    <3>1. decoded = << >> /\ 1 \in 1 .. Len(compact.index) + 1
      BY <2>0, <2>10, LenProperties DEF DecodeBegin, DecodeInv
    <3>2. Unfolded(compact.index, 0, decoded)
      BY <3>1 DEF Unfolded
    <3> QED
      BY <2>10, <3>1, <3>2 DEF DecodeBegin, DecodeInv, IdBefore, StartBefore
  <2>11. CASE DecodeItem
    <3> DEFINE ci == compact.index
               e == Entry(prevId, offset, ci[pos].start)
    <3>1. /\ pc = "decode" /\ pos \in 1 .. Len(ci) /\ pos' = pos + 1
          /\ ~CompactIsError(compact) /\ UNCHANGED << pc, compact >>
          /\ decoded' = Append(decoded, e)
          /\ prevId' = ci[pos].id /\ offset' = ci[pos].start
          /\ Unfolded(ci, pos - 1, decoded)
          /\ prevId = IdBefore(ci, pos) /\ offset = StartBefore(ci, pos)
          /\ Len(ci) \in Nat
      BY <2>0, <2>11, LenProperties DEF DecodeItem, DecodeInv
    <3>2. e \in Entries
      <4>1. ci[pos] \in [id : U32, start : U32]
        BY <2>0, <3>1, ElementOfSeq
      <4> QED BY <3>1, <4>1, EntryType DEF TypeInv, TypeOK
    <3>3. /\ Len(Append(decoded, e)) = pos
          /\ \A k \in 1 .. pos - 1 : Append(decoded, e)[k] = decoded[k]
          /\ Append(decoded, e)[pos] = e
      BY <2>0, <3>1, <3>2, AppendProperties DEF Unfolded
    <3>4. Unfolded(ci, pos, decoded')
      <4> SUFFICES ASSUME NEW k \in 1 .. pos
                   PROVE  Append(decoded, e)[k]
                            = Entry(IdBefore(ci, k), StartBefore(ci, k), ci[k].start)
        BY <3>1, <3>3 DEF Unfolded
      <4>1. k \in 1 .. pos - 1 \/ k = pos
        BY <3>1
      <4> QED BY <3>1, <3>3, <4>1 DEF Unfolded
    <3>5. /\ prevId' = IdBefore(ci, pos + 1) /\ offset' = StartBefore(ci, pos + 1)
          /\ pos + 1 \in 1 .. Len(ci) + 1 /\ (pos + 1) - 1 = pos
      BY <3>1 DEF IdBefore, StartBefore
    <3>6. compact'.index = ci
      BY <3>1
    <3> HIDE DEF ci, e
    <3> QED BY <3>1, <3>4, <3>5, <3>6 DEF DecodeInv
  <2>12. CASE DecodeAccept
    BY <2>12, ExpandedIsExpansion DEF DecodeAccept, DecodeInv
  <2>13. CASE DecodeReject
    BY <2>13 DEF DecodeReject, DecodeInv
  <2>14. CASE UNCHANGED vars
    BY <2>14 DEF vars, DecodeInv
  <2> QED
    BY <2>1, <2>2, <2>3, <2>4, <2>5, <2>6, <2>7, <2>8, <2>9, <2>10, <2>11,
       <2>12, <2>13, <2>14 DEF Next
<1> QED BY <1>1, <1>2, TypeInvariant, PTL DEF Spec

\* Whatever header is decoded, the entries it expands to follow each other
\* without gap and end at the size it announces.
THEOREM DecodedIsContiguous == Spec => []DecodedContiguous
<1>1. TypeInv /\ DecodeInv => DecodedContiguous
  <2> SUFFICES ASSUME TypeInv, DecodeInv, pc = "decoded", ~CompactIsError(compact)
               PROVE  Contiguous(decoded) /\ LookupLen(decoded) = compact.size
    BY DEF DecodedContiguous
  <2>1. Expansion(compact, decoded) /\ LookupLen(decoded) = compact.size
    BY DEF DecodeInv
  <2>2. /\ DOMAIN decoded = 1 .. Len(decoded) /\ Len(decoded) \in Nat
        /\ Len(compact.index) \in Nat
    BY LenProperties DEF TypeInv, TypeOK, CompactLookups
  <2>3. ASSUME NEW k \in 1 .. Len(decoded)
        PROVE  decoded[k].start = IF k = 1 THEN 0 ELSE decoded[k - 1].end
    <3> DEFINE ci == compact.index
    <3>1. \A i \in 1 .. Len(ci) : i <= Len(decoded) =>
            decoded[i] = Entry(IdBefore(ci, i), StartBefore(ci, i), ci[i].start)
      BY <2>1, <2>2 DEF Expansion, Unfolded
    <3>2. k \in 1 .. Len(ci) \/
            /\ k = Len(ci) + 1
            /\ decoded[k] = Entry(IdBefore(ci, k), StartBefore(ci, k), compact.size)
      <4>1. CASE Len(decoded) = Len(ci)
        BY <2>2, <2>3, <4>1
      <4>2. CASE Len(decoded) # Len(ci)
        <5>1. /\ Len(decoded) = Len(ci) + 1
              /\ decoded[Len(ci) + 1]
                   = Entry(IdBefore(ci, Len(ci) + 1), StartBefore(ci, Len(ci) + 1),
                           compact.size)
          BY <2>1, <4>2 DEF Expansion, Unfolded
        <5>2. k \in 1 .. Len(ci) \/ k = Len(ci) + 1
          BY <2>2, <2>3, <5>1
        <5> QED BY <5>1, <5>2
      <4> QED BY <4>1, <4>2
    <3>3. decoded[k].start = StartBefore(ci, k)
      BY <2>2, <2>3, <3>1, <3>2 DEF Entry
    <3>4. k # 1 => k - 1 \in 1 .. Len(ci) /\ k - 1 <= Len(decoded)
      BY <2>2, <2>3, <3>2
    <3>5. k # 1 => decoded[k - 1].end = ci[k - 1].start
      <4> SUFFICES ASSUME k # 1 PROVE decoded[k - 1].end = ci[k - 1].start
        OBVIOUS
      <4> DEFINE i == k - 1
      <4>1. i \in 1 .. Len(ci) /\ i <= Len(decoded)
        BY <3>4
      <4> HIDE DEF i
      <4>2. decoded[i] = Entry(IdBefore(ci, i), StartBefore(ci, i), ci[i].start)
        BY <3>1, <4>1
      <4>3. decoded[i].end = ci[i].start
        BY <4>2 DEF Entry
      <4> QED BY <4>3 DEF i
    <3> QED BY <3>3, <3>5 DEF StartBefore
  <2> QED BY <2>1, <2>2, <2>3 DEF Contiguous
<1> QED BY <1>1, TypeInvariant, DecodeInvariant, PTL

-------------------------------------------------------------------------------
(***************************************************************************)
(* The round trip.                                                         *)
(***************************************************************************)

\* An honest compact lookup expands to the author's entries, behind a phantom
\* entry for AppId(0) when the author had none.
LEMMA ExpansionOfKept ==
  ASSUME NEW lookup \in Seq(Entries), Tiles(lookup), lookup # << >>,
         NEW c \in CompactLookups, c.size = LookupLen(lookup),
         Kept(lookup, Len(lookup), c.index),
         NEW out \in Seq(Entries), Expansion(c, out)
  PROVE  out = Phantom(lookup) \o lookup
<1> DEFINE n == Len(lookup)
           z == Skipped(lookup)
           m == Len(c.index)
<1>1. /\ n \in Nat /\ n >= 1 /\ z \in {0, 1} /\ m = n - z /\ m \in Nat
      /\ DOMAIN lookup = 1 .. n
  BY EmptySeq, LenProperties DEF Kept, Skipped
<1>2. \A k \in 1 .. n : lookup[k] \in Entries
  BY ElementOfSeq
<1>3. \A k \in 1 .. n :
        /\ lookup[k] = Entry(lookup[k].id, lookup[k].start, lookup[k].end)
        /\ lookup[k].start \in Nat /\ lookup[k].end \in Nat
        /\ lookup[k].start < lookup[k].end
        /\ lookup[k].start = IF k = 1 THEN 0 ELSE lookup[k - 1].end
  <2>1. \A x \in Entries : x = Entry(x.id, x.start, x.end)
                           /\ x.start \in Nat /\ x.end \in Nat
    BY U32MaxAssumption DEF Entries, Entry, U32
  <2> QED BY <1>1, <1>2, <2>1 DEF Tiles, AllNonEmpty, Contiguous
<1>4. /\ lookup[n].end = c.size
      /\ z = 1 => lookup[1].id = 0
      /\ z = 1 => Phantom(lookup) = << >>
      /\ z = 0 => Phantom(lookup) = << Entry(0, 0, 0) >>
  BY DEF LookupLen, Skipped, Phantom
<1>5. \A k \in 1 .. m : /\ c.index[k].id = lookup[k + z].id
                        /\ c.index[k].start = lookup[k + z].start
  <2>1. \A k \in 1 .. m :
          c.index[k] = CompactItem(lookup[k + z].id, lookup[k + z].start)
    BY DEF Kept
  <2>2. \A id, start : /\ CompactItem(id, start).id = id
                       /\ CompactItem(id, start).start = start
    BY DEF CompactItem
  <2> QED BY <2>1, <2>2
<1>6. StartBefore(c.index, m + 1) = IF m = 0 THEN 0 ELSE lookup[n].start
  <2>1. CASE m = 0
    BY <2>1 DEF StartBefore
  <2>2. CASE m # 0
    <3>1. m \in 1 .. m /\ m + z = n /\ m + 1 # 1 /\ (m + 1) - 1 = m
      BY <1>1, <2>2
    <3>2. c.index[m].start = lookup[n].start
      BY <1>5, <3>1
    <3> QED BY <2>2, <3>1, <3>2 DEF StartBefore
  <2> QED BY <2>1, <2>2
<1>7. StartBefore(c.index, m + 1) < c.size
  <2>1. n \in 1 .. n /\ (m = 0 => n = 1)
    BY <1>1
  <2> QED BY <1>3, <1>4, <1>6, <2>1
<1>8. /\ Len(out) = m + 1
      /\ \A k \in 1 .. m : out[k] = Entry(IdBefore(c.index, k),
                             StartBefore(c.index, k), c.index[k].start)
      /\ out[m + 1] = Entry(IdBefore(c.index, m + 1),
                            StartBefore(c.index, m + 1), c.size)
  BY <1>7 DEF Expansion
<1>9. ASSUME NEW k \in 2 .. m + 1
      PROVE  /\ IdBefore(c.index, k) = lookup[(k - 1) + z].id
             /\ StartBefore(c.index, k) = lookup[(k - 1) + z].start
  <2>1. k - 1 \in 1 .. m /\ k # 1
    BY <1>1, <1>9
  <2> QED BY <1>5, <2>1 DEF IdBefore, StartBefore
<1> HIDE DEF n, z, m
<1>10. CASE z = 1
  <2>1. ASSUME NEW k \in 1 .. n PROVE out[k] = lookup[k]
    <3>1. /\ IdBefore(c.index, k) = lookup[k].id
          /\ StartBefore(c.index, k) = lookup[k].start
      <4>1. CASE k = 1
        BY <1>3, <1>4, <1>10, <2>1, <4>1 DEF IdBefore, StartBefore
      <4>2. CASE k # 1
        <5>1. k \in 2 .. m + 1 /\ (k - 1) + z = k
          BY <1>1, <1>10, <2>1, <4>2
        <5> QED BY <1>9, <5>1
      <4> QED BY <4>1, <4>2
    <3>2. CASE k = n
      <4>1. k = m + 1
        BY <1>1, <1>10, <3>2
      <4> QED BY <1>3, <1>4, <1>8, <2>1, <3>1, <3>2, <4>1
    <3>3. CASE k # n
      <4>1. k \in 1 .. m /\ k + 1 \in 1 .. n /\ k + 1 # 1 /\ (k + 1) - 1 = k
        BY <1>1, <1>10, <2>1, <3>3
      <4>2. c.index[k].start = lookup[k + 1].start
        BY <1>5, <1>10, <4>1
      <4>3. c.index[k].start = lookup[k].end
        BY <1>3, <4>1, <4>2
      <4> QED BY <1>3, <1>8, <2>1, <3>1, <4>1, <4>3
    <3> QED BY <3>2, <3>3
  <2>2. out = lookup
    <3>1. Len(out) = Len(lookup) /\ Len(lookup) = n
      BY <1>1, <1>8, <1>10 DEF n
    <3> QED BY <2>1, <3>1, SeqEqual
  <2>3. Phantom(lookup) = << >>
    BY <1>4, <1>10
  <2> QED BY <2>2, <2>3, ConcatEmptySeq
<1>11. CASE z = 0
  <2> DEFINE p == << Entry(0, 0, 0) >>
  <2>1. Phantom(lookup) = p
    BY <1>4, <1>11
  <2>2. p \in Seq(Entries) /\ Len(p) = 1 /\ p[1] = Entry(0, 0, 0)
    BY NewErrorType DEF NewError
  <2>3. /\ p \o lookup \in Seq(Entries) /\ Len(p \o lookup) = n + 1
        /\ (p \o lookup)[1] = Entry(0, 0, 0)
        /\ \A k \in 2 .. n + 1 : (p \o lookup)[k] = lookup[k - 1]
    <3> HIDE DEF p
    <3>1. Len(lookup) = n
      BY DEF n
    <3>2. /\ p \o lookup \in Seq(Entries) /\ Len(p \o lookup) = 1 + n
          /\ \A k \in 1 .. 1 + n : (p \o lookup)[k] =
               IF k <= 1 THEN p[k] ELSE lookup[k - 1]
      <4>1. /\ p \o lookup \in Seq(Entries)
            /\ Len(p \o lookup) = Len(p) + Len(lookup)
            /\ \A k \in 1 .. Len(p) + Len(lookup) : (p \o lookup)[k] =
                 IF k <= Len(p) THEN p[k] ELSE lookup[k - Len(p)]
        BY <2>2, ConcatProperties
      <4> QED BY <2>2, <3>1, <4>1
    <3>3. /\ 1 + n = n + 1 /\ 1 \in 1 .. n + 1
          /\ \A k \in 2 .. n + 1 : k \in 1 .. n + 1 /\ ~(k <= 1)
      BY <1>1
    <3>4. (p \o lookup)[1] = Entry(0, 0, 0)
      BY <2>2, <3>2, <3>3
    <3>5. \A k \in 2 .. n + 1 : (p \o lookup)[k] = lookup[k - 1]
      BY <3>2, <3>3
    <3> QED BY <3>2, <3>3, <3>4, <3>5
  <2>4. out[1] = Entry(0, 0, 0)
    <3>1. 1 \in 1 .. m /\ 1 \in 1 .. n /\ 1 + z = 1
      BY <1>1, <1>11
    <3>2. c.index[1].start = 0
      BY <1>3, <1>5, <3>1
    <3> QED BY <1>8, <3>1, <3>2 DEF IdBefore, StartBefore
  <2>5. ASSUME NEW k \in 2 .. n + 1 PROVE out[k] = lookup[k - 1]
    <3>1. /\ IdBefore(c.index, k) = lookup[k - 1].id
          /\ StartBefore(c.index, k) = lookup[k - 1].start
          /\ k - 1 \in 1 .. n
      <4>1. k \in 2 .. m + 1 /\ (k - 1) + z = k - 1 /\ k - 1 \in 1 .. n
        BY <1>1, <1>11, <2>5
      <4> QED BY <1>9, <4>1
    <3>2. CASE k = n + 1
      <4>1. k = m + 1 /\ k - 1 = n
        BY <1>1, <1>11, <3>2
      <4> QED BY <1>3, <1>4, <1>8, <3>1, <4>1
    <3>3. CASE k # n + 1
      <4>1. k \in 1 .. m /\ k \in 1 .. n /\ k # 1 /\ k + z = k
        BY <1>1, <1>11, <2>5, <3>3
      <4>2. c.index[k].start = lookup[k - 1].end
        BY <1>3, <1>5, <4>1
      <4> QED BY <1>3, <1>8, <3>1, <4>1, <4>2
    <3> QED BY <3>2, <3>3
  <2>6. ASSUME NEW k \in 1 .. n + 1 PROVE out[k] = (p \o lookup)[k]
    <3>1. k = 1 \/ k \in 2 .. n + 1
      BY <1>1, <2>6
    <3> QED BY <2>3, <2>4, <2>5, <3>1
  <2>7. Len(out) = n + 1
    BY <1>1, <1>8, <1>11
  <2> HIDE DEF p
  <2>8. out = p \o lookup
    <3>1. Len(out) = Len(p \o lookup)
      BY <2>3, <2>7
    <3>2. \A k \in 1 .. Len(out) : out[k] = (p \o lookup)[k]
      BY <2>6, <2>7
    <3> QED BY <2>3, <3>1, <3>2, SeqEqual
  <2> QED BY <2>1, <2>8
<1> QED BY <1>1, <1>10, <1>11

LEMMA PhantomKeepsLen ==
  ASSUME NEW lookup \in Seq(Entries), lookup # << >>
  PROVE  /\ LookupLen(Phantom(lookup) \o lookup) = LookupLen(lookup)
         /\ Phantom(lookup) \o lookup # << >>
<1> DEFINE p == Phantom(lookup)
           n == Len(lookup)
<1>1. n \in Nat /\ n >= 1
  BY EmptySeq, LenProperties
<1>2. p \in Seq(Entries) /\ Len(p) \in Nat
  <2>1. << >> \in Seq(Entries) /\ << Entry(0, 0, 0) >> \in Seq(Entries)
    BY NewErrorType, EmptySeq DEF NewError
  <2>2. p \in Seq(Entries)
    BY <2>1 DEF Phantom
  <2> QED BY <2>2, LenProperties
<1> HIDE DEF p
<1>3. /\ p \o lookup \in Seq(Entries)
      /\ Len(p \o lookup) = Len(p) + n
      /\ \A k \in 1 .. Len(p) + n : (p \o lookup)[k] =
           IF k <= Len(p) THEN p[k] ELSE lookup[k - Len(p)]
  BY <1>2, ConcatProperties
<1>4. p \o lookup # << >>
  BY <1>1, <1>2, <1>3, EmptySeq
<1>5. (p \o lookup)[Len(p) + n] = lookup[n]
  <2>1. /\ Len(p) + n \in 1 .. Len(p) + n
        /\ ~(Len(p) + n <= Len(p)) /\ (Len(p) + n) - Len(p) = n
    BY <1>1, <1>2
  <2> QED BY <1>3, <2>1
<1> HIDE DEF n
<1>6. LookupLen(p \o lookup) = lookup[n].end
  BY <1>3, <1>4, <1>5 DEF LookupLen
<1>7. LookupLen(lookup) = lookup[n].end
  BY DEF LookupLen, n
<1> QED BY <1>4, <1>6, <1>7 DEF p

LEMMA CompactErrorIsError == CompactIsError(CompactError)
<1>1. << CompactItem(0, 0) >> # << >>
  OBVIOUS
<1> QED BY <1>1 DEF CompactError, CompactIsError

\* What a header written by this program holds: the error marker or the
\* compact form of a tiling, which is not taken for an error unless it is full.
LEMMA AuthorHeader ==
  ASSUME TypeInv, BuildInv, EncodeInv, origin = "author",
         pc \in {"sent", "decode", "decoded", "rejected"}
  PROVE  \/ index = NewError /\ compact = CompactError
         \/ /\ Tiles(index) /\ ~IsError(index)
            /\ compact.size = LookupLen(index)
            /\ Kept(index, Len(index), compact.index)
            /\ index = << >> => compact.index = << >>
            /\ CompactIsError(compact) <=> Saturated
<1>1. /\ index \in Seq(Entries) /\ compact \in CompactLookups
      /\ compact.index \in Seq([id : U32, start : U32])
  BY DEF TypeInv, TypeOK, Entries, CompactLookups
<1>2. CASE IsError(index)
  <2>1. index = NewError
    BY <1>1, <1>2, TilesIsNoError DEF BuildInv
  <2> QED BY <1>2, <2>1 DEF EncodeInv
<1>3. CASE ~IsError(index)
  <2>1. Tiles(index)
    BY <1>3, NewErrorIsError DEF BuildInv
  <2>2. /\ compact.size = LookupLen(index)
        /\ Kept(index, Len(index), compact.index)
    BY <1>3 DEF EncodeInv
  <2>3. ASSUME index = << >> PROVE compact.index = << >>
    <3>1. Len(compact.index) = 0
      BY <2>2, <2>3, EmptySeq DEF Kept
    <3> QED BY <1>1, <3>1, EmptySeq
  <2>4. ~(compact.size = 0 /\ compact.index # << >>)
    BY <1>3, <2>2, <2>3 DEF IsError
  <2>5. CompactIsError(compact) <=> Saturated
    BY <2>2, <2>4 DEF CompactIsError, Saturated
  <2> QED BY <1>3, <2>1, <2>2, <2>3, <2>5
<1> QED BY <1>2, <1>3

\* The expansion of the author's compact lookup, for the empty lookup too.
LEMMA ExpansionOfHeader ==
  ASSUME TypeInv, Tiles(index), compact.size = LookupLen(index),
         Kept(index, Len(index), compact.index),
         index = << >> => compact.index = << >>,
         NEW out \in Seq(Entries), Expansion(compact, out)
  PROVE  /\ out = Phantom(index) \o index
         /\ LookupLen(out) = compact.size
         /\ out = << >> <=> index = << >>
<1>1. index \in Seq(Entries) /\ compact \in CompactLookups
  BY DEF TypeInv, TypeOK, Entries
<1>2. CASE index = << >>
  <2>1. compact.size = 0 /\ Len(compact.index) = 0 /\ Len(compact.index) + 1 = 1
    BY <1>2, EmptySeq DEF LookupLen
  <2>2. StartBefore(compact.index, 1) = 0
    BY DEF StartBefore
  <2>3. Len(out) = 0
    BY <2>1, <2>2 DEF Expansion, Unfolded
  <2>4. out = << >>
    BY <2>3, EmptySeq
  <2>5. Phantom(index) \o index = << >>
    BY <1>1, <1>2, ConcatEmptySeq DEF Phantom
  <2> QED BY <1>2, <2>1, <2>4, <2>5 DEF LookupLen
<1>3. CASE index # << >>
  <2>1. out = Phantom(index) \o index
    BY <1>1, <1>3, ExpansionOfKept
  <2> QED BY <1>1, <1>3, <2>1, PhantomKeepsLen
<1> QED BY <1>2, <1>3

\* The receiver of an honest header holds the author's lookup, preceded by a
\* phantom entry for AppId(0) if the author had none.
THEOREM DecodedIsAuthored == Spec => []DecodedIsIndex
<1>1. TypeInv /\ BuildInv /\ EncodeInv /\ DecodeInv => DecodedIsIndex
  <2> SUFFICES ASSUME TypeInv, BuildInv, EncodeInv, DecodeInv, Received, ~Saturated
               PROVE  decoded = Phantom(index) \o index
    BY DEF DecodedIsIndex
  <2>1. index \in Seq(Entries) /\ decoded \in Seq(Entries)
    BY DEF TypeInv, TypeOK, Entries
  <2>2. CASE index = NewError /\ compact = CompactError
    <3>1. decoded = NewError
      BY <2>2, CompactErrorIsError DEF DecodeInv, Received
    <3>2. NewError # << >> /\ NewError[1] = Entry(0, 0, 0)
      BY DEF NewError
    <3>3. Phantom(NewError) = << >>
      BY <3>2 DEF Phantom, Entry
    <3> QED BY <2>1, <2>2, <3>1, <3>3, ConcatEmptySeq
  <2>3. CASE ~(index = NewError /\ compact = CompactError)
    <3>1. /\ Tiles(index) /\ compact.size = LookupLen(index)
          /\ Kept(index, Len(index), compact.index)
          /\ index = << >> => compact.index = << >>
          /\ ~CompactIsError(compact)
      BY <2>3, AuthorHeader DEF Received
    <3>2. Expansion(compact, decoded)
      BY <3>1 DEF DecodeInv, Received
    <3> QED BY <2>1, <3>1, <3>2, ExpansionOfHeader
  <2> QED BY <2>2, <2>3
<1> QED BY <1>1, TypeInvariant, BuildInvariant, EncodeInvariant, DecodeInvariant, PTL

\* try_from never refuses what from_data_lookup wrote.
THEOREM HonestHeaderAccepted == Spec => []AuthorNeverRejected
<1>1. Init => AuthorNeverRejected
  BY DEF Init, AuthorNeverRejected
<1>2. /\ TypeInv /\ BuildInv /\ EncodeInv /\ DecodeInv
      /\ AuthorNeverRejected /\ [Next]_vars
      => AuthorNeverRejected'
  <2> SUFFICES ASSUME TypeInv, BuildInv, EncodeInv, DecodeInv,
                      AuthorNeverRejected, [Next]_vars
               PROVE  AuthorNeverRejected'
    OBVIOUS
  <2>1. CASE DecodeReject
    <3> SUFFICES ASSUME origin = "author" PROVE FALSE
      BY <2>1 DEF DecodeReject, AuthorNeverRejected
    <3>1. /\ pc = "decode" /\ pos > Len(compact.index)
          /\ LookupLen(Expanded) # compact.size /\ ~CompactIsError(compact)
      BY <2>1 DEF DecodeReject, DecodeInv
    <3>2. /\ Tiles(index) /\ compact.size = LookupLen(index)
          /\ Kept(index, Len(index), compact.index)
          /\ index = << >> => compact.index = << >>
      BY <3>1, AuthorHeader, CompactErrorIsError
    <3>3. Expansion(compact, Expanded)
      BY <3>1, ExpandedIsExpansion
    <3>4. Expanded \in Seq(Entries)
      <4>1. decoded \in Seq(Entries) /\ Entry(prevId, offset, compact.size) \in Entries
        BY <3>1, EntryType DEF TypeInv, TypeOK, Entries, CompactLookups
      <4> QED BY <4>1, AppendProperties DEF Expanded
    <3> QED BY <3>1, <3>2, <3>3, <3>4, ExpansionOfHeader
  <2>2. CASE UNCHANGED vars
    BY <2>2 DEF vars, AuthorNeverRejected
  <2>3. CASE Next /\ ~DecodeReject
    BY <2>3 DEF Next, AuthorNeverRejected, PushItem, RejectItem, FinishBuild,
       BuildError, EncodeError, EncodeBegin, EncodeItem, EncodeEnd, DecodeError,
       DecodeBegin, DecodeItem, DecodeAccept
  <2> QED BY <2>1, <2>2, <2>3
<1> QED
  BY <1>1, <1>2, TypeInvariant, BuildInvariant, EncodeInvariant, DecodeInvariant,
     PTL DEF Spec

-------------------------------------------------------------------------------
(***************************************************************************)
(* What the consumers of the lookup read from it.                          *)
(***************************************************************************)
OnlyAt(lookup, id, k) ==
  /\ k \in 1 .. Len(lookup) /\ lookup[k].id = id
  /\ \A j \in 1 .. Len(lookup) : lookup[j].id = id => j = k

LEMMA RangeOfUnique ==
  ASSUME NEW lookup \in Seq(Entries), NEW id, NEW k, OnlyAt(lookup, id, k)
  PROVE  RangeOf(lookup, id) = Range32(lookup[k].start, lookup[k].end)
<1>1. DOMAIN lookup = 1 .. Len(lookup) /\ Len(lookup) \in Nat
  BY LenProperties
<1>2. k \in DOMAIN lookup /\ IsFirstOf(lookup, id, k)
  BY <1>1 DEF OnlyAt, IsFirstOf
<1>3. \A j \in DOMAIN lookup : IsFirstOf(lookup, id, j) => j = k
  BY <1>1 DEF OnlyAt, IsFirstOf
<1>4. (CHOOSE j \in DOMAIN lookup : IsFirstOf(lookup, id, j)) = k
  BY <1>2, <1>3
<1>5. \E j \in DOMAIN lookup : lookup[j].id = id
  BY <1>2 DEF OnlyAt
<1> QED BY <1>4, <1>5 DEF RangeOf

LEMMA RangeOfAbsent ==
  ASSUME NEW lookup \in Seq(Entries), NEW id,
         \A k \in 1 .. Len(lookup) : lookup[k].id # id
  PROVE  RangeOf(lookup, id) = NoRange
<1>1. DOMAIN lookup = 1 .. Len(lookup)
  BY LenProperties
<1> QED BY <1>1 DEF RangeOf

\* The phantom entry hides no application but 0.
LEMMA RangeOfBehindPhantom ==
  ASSUME NEW lookup \in Seq(Entries), Tiles(lookup), NEW id \in U32 \ {0}
  PROVE  RangeOf(<< Entry(0, 0, 0) >> \o lookup, id) = RangeOf(lookup, id)
<1> DEFINE p == << Entry(0, 0, 0) >>
           n == Len(lookup)
           longer == p \o lookup
<1>1. /\ n \in Nat /\ DOMAIN lookup = 1 .. n
      /\ p \in Seq(Entries) /\ Len(p) = 1 /\ p[1].id = 0
  BY LenProperties, NewErrorType DEF NewError, Entry
<1>2. /\ longer \in Seq(Entries) /\ Len(longer) = n + 1
      /\ longer[1].id = 0
      /\ \A k \in 2 .. n + 1 : longer[k] = lookup[k - 1]
  <2> HIDE DEF p
  <2>1. /\ p \o lookup \in Seq(Entries)
        /\ Len(p \o lookup) = Len(p) + Len(lookup)
        /\ \A k \in 1 .. Len(p) + Len(lookup) : (p \o lookup)[k] =
             IF k <= Len(p) THEN p[k] ELSE lookup[k - Len(p)]
    BY <1>1, ConcatProperties
  <2>2. /\ 1 + n = n + 1 /\ 1 \in 1 .. 1 + n
        /\ \A k \in 2 .. n + 1 : k \in 1 .. 1 + n /\ ~(k <= 1)
    BY <1>1
  <2> QED BY <1>1, <2>1, <2>2
<1> HIDE DEF p, longer
<1>3. ASSUME NEW j \in 1 .. n, lookup[j].id = id
      PROVE  RangeOf(longer, id) = RangeOf(lookup, id)
  <2>1. \A i \in 1 .. n : lookup[i].id = id => i = j
    <3>1. \A i \in 1 .. n : lookup[i].id \in Int
      <4>1. \A i \in 1 .. n : lookup[i] \in Entries
        BY ElementOfSeq
      <4> QED BY <4>1, U32MaxAssumption DEF Entries, U32
    <3>2. \A i, k \in 1 .. n : i < k => lookup[i].id < lookup[k].id
      BY <1>1 DEF Tiles, SortedById
    <3> QED BY <1>1, <1>3, <3>1, <3>2
  <2>2. OnlyAt(lookup, id, j)
    BY <1>3, <2>1 DEF OnlyAt
  <2> DEFINE k == j + 1
  <2>3. k \in 2 .. n + 1 /\ k - 1 = j
    BY <1>1
  <2>4. longer[k] = lookup[j]
    BY <1>2, <2>3
  <2>5. OnlyAt(longer, id, k)
    <3>1. k \in 1 .. Len(longer) /\ longer[k].id = id
      BY <1>1, <1>2, <1>3, <2>3, <2>4
    <3>2. ASSUME NEW i \in 1 .. Len(longer), longer[i].id = id PROVE i = k
      <4>1. i \in 2 .. n + 1 /\ i - 1 \in 1 .. n
        BY <1>1, <1>2, <3>2
      <4>2. lookup[i - 1].id = id
        BY <1>2, <3>2, <4>1
      <4>3. i - 1 = j
        BY <2>1, <4>1, <4>2
      <4> QED BY <4>1, <4>3
    <3> HIDE DEF k
    <3> QED BY <3>1, <3>2 DEF OnlyAt
  <2> HIDE DEF k
  <2> QED BY <1>2, <2>2, <2>4, <2>5, RangeOfUnique
<1>4. ASSUME \A j \in 1 .. n : lookup[j].id # id
      PROVE  RangeOf(longer, id) = RangeOf(lookup, id)
  <2>1. ASSUME NEW i \in 1 .. Len(longer) PROVE longer[i].id # id
    <3>1. i \in 1 .. n + 1
      BY <1>2, <2>1
    <3>2. i = 1 \/ (i \in 2 .. n + 1 /\ i - 1 \in 1 .. n)
      BY <1>1, <3>1
    <3> QED BY <1>2, <1>4, <3>2
  <2> QED BY <1>2, <1>4, <2>1, RangeOfAbsent
<1> QED BY <1>3, <1>4 DEF p, longer

LEMMA PhantomOfNewError == Phantom(NewError) = << >> /\ NewError # << >>
<1>1. NewError # << >> /\ NewError[1] = Entry(0, 0, 0)
  BY DEF NewError
<1> QED BY <1>1 DEF Phantom, Entry

\* A light client that reads the range of its application from a decoded header
\* reads the range the author assigned, for every application but 0.
THEOREM RangesAreAuthored == Spec => []RangesSurvive
<1>1. TypeInv /\ BuildInv /\ DecodedIsIndex => RangesSurvive
  <2> SUFFICES ASSUME TypeInv, BuildInv, DecodedIsIndex, Received, ~Saturated,
                      NEW id \in U32 \ {0}
               PROVE  RangeOf(decoded, id) = RangeOf(index, id)
    BY DEF RangesSurvive
  <2>1. index \in Seq(Entries) /\ decoded = Phantom(index) \o index
    BY DEF TypeInv, TypeOK, Entries, DecodedIsIndex
  <2>2. CASE Phantom(index) = << >>
    BY <2>1, <2>2, ConcatEmptySeq
  <2>3. CASE Phantom(index) # << >>
    <3>1. Phantom(index) = << Entry(0, 0, 0) >>
      BY <2>3 DEF Phantom
    <3>2. Tiles(index)
      BY <2>3, PhantomOfNewError DEF BuildInv
    <3> QED BY <2>1, <3>1, <3>2, RangeOfBehindPhantom
  <2> QED BY <2>2, <2>3
<1> QED BY <1>1, TypeInvariant, BuildInvariant, DecodedIsAuthored, PTL

\* A decoded header is an error header exactly when the author published one or
\* filled the lookup to u32::MAX.
THEOREM ErrorFlagIsAuthored == Spec => []ErrorFlagSurvives
<1>1. TypeInv /\ BuildInv /\ EncodeInv /\ DecodeInv /\ DecodedIsIndex
      => ErrorFlagSurvives
  <2> SUFFICES ASSUME TypeInv, BuildInv, EncodeInv, DecodeInv, DecodedIsIndex, Received
               PROVE  IsError(decoded) <=> IsError(index) \/ Saturated
    BY DEF ErrorFlagSurvives
  <2>1. index \in Seq(Entries) /\ pc = "decoded" /\ origin = "author"
    BY DEF TypeInv, TypeOK, Entries, Received
  <2>2. CASE Saturated
    <3>1. index # NewError
      <4>1. U32Max # 0
        BY U32MaxAssumption
      <4> QED BY <2>2, <4>1, NewErrorIsError DEF Saturated
    <3>2. CompactIsError(compact)
      <4>1. pc \in {"sent", "decode", "decoded", "rejected"}
        BY <2>1
      <4> QED BY <2>1, <2>2, <3>1, <4>1, AuthorHeader
    <3>3. decoded = NewError
      BY <2>1, <3>2 DEF DecodeInv
    <3> QED BY <2>2, <3>3, NewErrorIsError
  <2>3. CASE ~Saturated
    <3>1. decoded = Phantom(index) \o index
      BY <2>3 DEF DecodedIsIndex
    <3>2. CASE index = << >>
      <4>1. decoded = << >>
        BY <2>1, <3>1, <3>2, ConcatEmptySeq DEF Phantom
      <4> QED BY <2>3, <3>2, <4>1 DEF IsError
    <3>3. CASE index # << >>
      <4>1. LookupLen(decoded) = LookupLen(index) /\ decoded # << >>
        BY <2>1, <3>1, <3>3, PhantomKeepsLen
      <4> QED BY <2>3, <3>3, <4>1 DEF IsError
    <3> QED BY <3>2, <3>3
  <2> QED BY <2>2, <2>3
<1> QED
  BY <1>1, TypeInvariant, BuildInvariant, EncodeInvariant, DecodeInvariant,
     DecodedIsAuthored, PTL

-------------------------------------------------------------------------------
(***************************************************************************)
(* What the builder accepts.  The running offset is the sum of the lengths *)
(* pulled so far, and the last application is that of the last item, so    *)
(* the checks of one item decide about all of the input.                   *)
(***************************************************************************)
Inputs == [id : U32, len : Nat]

IsSum(N, items, f) == f = [k \in 0 .. N |-> IF k = 0 THEN 0 ELSE f[k - 1] + items[k].len]

\* Induction up to a number: what holds of 0 and goes from one to the next.
LEMMA UpTo ==
  ASSUME NEW N \in Nat, NEW T, 0 \in T,
         \A n \in 1 .. N : n - 1 \in T => n \in T
  PROVE  \A n \in 0 .. N : n \in T
<1> DEFINE M == {n \in 0 .. N : n \notin T}
<1>1. SUFFICES ASSUME M # {} PROVE FALSE
  OBVIOUS
<1>2. M \subseteq Nat
  OBVIOUS
<1>3. PICK n \in M : \A k \in M : ~(<< k, n >> \in OpToRel(<, Nat))
  <2> HIDE DEF M
  <2> QED BY <1>1, <1>2, NatLessThanWellFounded, WFMin
<1>4. n \in 1 .. N /\ n \notin T
  OBVIOUS
<1>5. n - 1 \in Nat /\ n - 1 < n /\ n - 1 \in 0 .. N
  BY <1>4
<1>6. n - 1 \notin M
  <2>1. << n - 1, n >> \in OpToRel(<, Nat)
    BY <1>4, <1>5 DEF OpToRel
  <2> HIDE DEF M
  <2> QED BY <1>3, <2>1
<1> QED BY <1>4, <1>5, <1>6

LEMMA SumExists ==
  ASSUME NEW N \in Nat, NEW items
  PROVE  \E f : IsSum(N, items, f)
<1> DEFINE T == {n \in 0 .. N : \E f : IsSum(n, items, f)}
<1>1. 0 \in T
  <2> DEFINE f == [k \in 0 .. 0 |-> 0]
  <2>1. IsSum(0, items, f)
    BY DEF IsSum
  <2> HIDE DEF f
  <2> QED BY <2>1
<1>2. ASSUME NEW n \in 1 .. N, n - 1 \in T PROVE n \in T
  <2>1. PICK f : IsSum(n - 1, items, f)
    BY <1>2
  <2> DEFINE g == [k \in 0 .. n |-> IF k = n THEN f[n - 1] + items[n].len ELSE f[k]]
  <2>2. \A k \in 0 .. n - 1 : f[k] = IF k = 0 THEN 0 ELSE f[k - 1] + items[k].len
    BY <2>1 DEF IsSum
  <2>3. \A k \in 0 .. n : /\ k # n => k \in 0 .. n - 1 /\ g[k] = f[k]
                          /\ k # 0 => k - 1 \in 0 .. n /\ g[k - 1] = f[k - 1]
    OBVIOUS
  <2>4. n # 0 /\ n \in 0 .. n /\ g[n] = f[n - 1] + items[n].len
    OBVIOUS
  <2>5. g = [k \in 0 .. n |-> g[k]]
    OBVIOUS
  <2> HIDE DEF g
  <2>6. ASSUME NEW k \in 0 .. n PROVE g[k] = IF k = 0 THEN 0 ELSE g[k - 1] + items[k].len
    <3>1. CASE k = n
      BY <2>3, <2>4, <3>1
    <3>2. CASE k # n
      BY <2>2, <2>3, <3>2
    <3> QED BY <3>1, <3>2
  <2>7. IsSum(n, items, g)
    BY <2>5, <2>6 DEF IsSum
  <2> QED BY <2>7
<1> HIDE DEF T
<1>3. \A n \in 0 .. N : n \in T
  BY <1>1, <1>2, UpTo
<1>4. N \in T
  BY <1>3
<1> QED BY <1>4 DEF T

LEMMA LenUpToIs ==
  ASSUME NEW items \in Seq(Inputs)
  PROVE  /\ LenUpTo(items)[0] = 0
         /\ \A k \in 1 .. Len(items) :
              LenUpTo(items)[k] = LenUpTo(items)[k - 1] + items[k].len
<1> DEFINE N == Len(items)
           f == LenUpTo(items)
<1>1. N \in Nat
  BY LenProperties
<1>2. f = CHOOSE g : IsSum(N, items, g)
  BY Zenon DEF LenUpTo, IsSum
<1>3. IsSum(N, items, f)
  BY <1>1, <1>2, SumExists, Zenon
<1> HIDE DEF f, N
<1>4. \A k \in 0 .. N : f[k] = IF k = 0 THEN 0 ELSE f[k - 1] + items[k].len
  BY <1>3 DEF IsSum
<1> QED BY <1>1, <1>4 DEF f, N

LEMMA TotalType ==
  ASSUME NEW items \in Seq(Inputs)
  PROVE  TotalLen(items) \in Nat
<1> DEFINE N == Len(items)
           f == LenUpTo(items)
           T == {n \in 0 .. N : f[n] \in Nat}
<1>1. N \in Nat /\ \A k \in 1 .. N : items[k].len \in Nat
  <2>1. \A k \in 1 .. N : items[k] \in Inputs
    BY ElementOfSeq
  <2>2. N \in Nat /\ \A x \in Inputs : x.len \in Nat
    BY LenProperties DEF Inputs
  <2> HIDE DEF N
  <2> QED BY <2>1, <2>2
<1>2. f[0] = 0 /\ \A k \in 1 .. N : f[k] = f[k - 1] + items[k].len
  BY LenUpToIs
<1> HIDE DEF f, N
<1>3. 0 \in T /\ \A n \in 1 .. N : n - 1 \in T => n \in T
  <2>1. 0 \in 0 .. N /\ \A n \in 1 .. N : n \in 0 .. N
    BY <1>1
  <2>2. \A n \in 1 .. N : f[n - 1] \in Nat => f[n] \in Nat
    BY <1>1, <1>2, <2>1
  <2> QED BY <1>2, <2>1, <2>2
<1> HIDE DEF T
<1>4. N \in Nat /\ \A n \in 0 .. N : n \in T
  BY <1>1, <1>3, UpTo
<1>5. f[N] \in Nat
  BY <1>4 DEF T
<1> QED BY <1>5 DEF TotalLen, f, N

LEMMA TotalOfNone == TotalLen(<< >>) = 0
<1>1. << >> \in Seq(Inputs) /\ Len(<< >>) = 0
  BY EmptySeq
<1> QED BY <1>1, LenUpToIs DEF TotalLen

\* One more item adds its length.
LEMMA TotalOfAppend ==
  ASSUME NEW items \in Seq(Inputs), NEW item \in Inputs
  PROVE  TotalLen(Append(items, item)) = TotalLen(items) + item.len
<1> DEFINE N == Len(items)
           longer == Append(items, item)
           f == LenUpTo(items)
           g == LenUpTo(longer)
           T == {n \in 0 .. N : g[n] = f[n]}
<1>1. /\ N \in Nat /\ longer \in Seq(Inputs) /\ Len(longer) = N + 1
      /\ longer[N + 1] = item /\ \A k \in 1 .. N : longer[k] = items[k]
  BY LenProperties, AppendProperties
<1>2. f[0] = 0 /\ \A k \in 1 .. N : f[k] = f[k - 1] + items[k].len
  BY LenUpToIs
<1> HIDE DEF longer
<1>3. g[0] = 0 /\ \A k \in 1 .. N + 1 : g[k] = g[k - 1] + longer[k].len
  BY <1>1, LenUpToIs
<1> HIDE DEF f, g, N
<1>4. 0 \in T /\ \A n \in 1 .. N : n - 1 \in T => n \in T
  <2>1. 0 \in 0 .. N /\ \A n \in 1 .. N : n \in 0 .. N /\ n \in 1 .. N + 1
    BY <1>1
  <2>2. \A n \in 1 .. N : g[n - 1] = f[n - 1] => g[n] = f[n]
    BY <1>1, <1>2, <1>3, <2>1
  <2> QED BY <1>2, <1>3, <2>1, <2>2
<1> HIDE DEF T
<1>5. N \in Nat /\ \A n \in 0 .. N : n \in T
  BY <1>1, <1>4, UpTo
<1>6. g[N] = f[N] /\ g[N + 1] = g[N] + item.len
  <2>1. N + 1 \in 1 .. N + 1 /\ (N + 1) - 1 = N
    BY <1>1
  <2> QED BY <1>1, <1>3, <1>5, <2>1 DEF T
<1> QED BY <1>1, <1>6 DEF TotalLen, f, g, N, longer

LastOf(items) == IF items = << >> THEN -1 ELSE items[Len(items)].id

\* What the closure checks of an item decides whether the input goes on.
LEMMA AcceptsNext ==
  ASSUME NEW items \in Seq(Inputs), Acceptable(items), NEW item \in Inputs
  PROVE  /\ Acceptable(Append(items, item)) <=>
              /\ LastOf(items) < item.id /\ item.len > 0
              /\ TotalLen(items) + item.len <= U32Max
         /\ LastOf(Append(items, item)) = item.id
<1> DEFINE N == Len(items)
           longer == Append(items, item)
<1>1. /\ N \in Nat /\ longer \in Seq(Inputs) /\ Len(longer) = N + 1 /\ longer # << >>
      /\ longer[N + 1] = item /\ \A k \in 1 .. N : longer[k] = items[k]
      /\ DOMAIN longer = 1 .. N + 1 /\ DOMAIN items = 1 .. N
  BY LenProperties, AppendProperties
<1>2. TotalLen(longer) = TotalLen(items) + item.len
  BY TotalOfAppend
<1>3. item.id \in Int /\ item.id >= 0 /\ item.len \in Nat /\ \A k \in 1 .. N : items[k].id \in Int
  <2>1. \A k \in 1 .. N : items[k] \in Inputs
    BY ElementOfSeq
  <2>2. \A x \in Inputs : x.id \in Int /\ x.id >= 0 /\ x.len \in Nat
    BY U32MaxAssumption DEF Inputs, U32
  <2> QED BY <2>1, <2>2
<1>4. N = 0 <=> items = << >>
  BY EmptySeq, LenProperties
<1>5. (\A k \in 1 .. N : items[k].id < item.id) <=> LastOf(items) < item.id
  <2>1. CASE N = 0
    BY <1>1, <1>3, <1>4, <2>1 DEF LastOf
  <2>2. CASE N # 0
    <3>1. N \in 1 .. N /\ LastOf(items) = items[N].id
      BY <1>1, <1>4, <2>2 DEF LastOf
    <3>2. \A k \in 1 .. N : k < N => items[k].id < items[N].id
      BY <1>1, <3>1 DEF Acceptable
    <3>3. ASSUME items[N].id < item.id, NEW k \in 1 .. N PROVE items[k].id < item.id
      <4>1. k = N \/ k < N
        <5> HIDE DEF N
        <5> QED BY <1>1
      <4> QED BY <1>3, <3>1, <3>2, <3>3, <4>1
    <3> QED BY <3>1, <3>3
  <2> QED BY <2>1, <2>2
<1> HIDE DEF longer, N
<1>6. (\A j, k \in 1 .. N + 1 : j < k => longer[j].id < longer[k].id)
        <=> \A k \in 1 .. N : items[k].id < item.id
  <2>1. ASSUME \A j, k \in 1 .. N + 1 : j < k => longer[j].id < longer[k].id,
               NEW k \in 1 .. N
        PROVE  items[k].id < item.id
    <3>1. k \in 1 .. N + 1 /\ N + 1 \in 1 .. N + 1 /\ k < N + 1
      BY <1>1
    <3> QED BY <1>1, <2>1, <3>1
  <2>2. ASSUME \A k \in 1 .. N : items[k].id < item.id,
               NEW j \in 1 .. N + 1, NEW k \in 1 .. N + 1, j < k
        PROVE  longer[j].id < longer[k].id
    <3>1. j \in 1 .. N /\ (k = N + 1 \/ k \in 1 .. N)
      BY <1>1, <2>2
    <3>2. \A a, b \in 1 .. N : a < b => items[a].id < items[b].id
      BY <1>1 DEF Acceptable
    <3> QED BY <1>1, <2>2, <3>1, <3>2
  <2> QED BY <2>1, <2>2
<1>7. (\A k \in 1 .. N + 1 : longer[k].len > 0) <=> item.len > 0
  <2>1. \A k \in 1 .. N + 1 : k = N + 1 \/ k \in 1 .. N
    BY <1>1
  <2>2. N + 1 \in 1 .. N + 1 /\ \A k \in 1 .. N : items[k].len > 0
    BY <1>1 DEF Acceptable
  <2> QED BY <1>1, <2>1, <2>2
<1>8. LastOf(longer) = item.id
  BY <1>1 DEF LastOf
<1> QED BY <1>1, <1>2, <1>5, <1>6, <1>7, <1>8 DEF Acceptable, longer

DecideInv ==
  /\ pc = "build" =>
       Acceptable(consumed) /\ offset = TotalLen(consumed) /\ prevId = LastOf(consumed)
  /\ BuilderDecidesExactly

LEMMA AcceptsNone == Acceptable(<< >>) /\ LastOf(<< >>) = -1
<1>1. DOMAIN << >> = {}
  BY EmptySeq
<1> QED BY <1>1, TotalOfNone, U32MaxAssumption DEF Acceptable, LastOf

LEMMA RejectDecides ==
  ASSUME TypeInv, DecideInv, NEW item \in Items, RejectItem(item)
  PROVE  DecideInv'
<1> DEFINE N == Len(consumed)
           total == TotalLen(consumed)
<1>1. /\ pc = "build" /\ pc' = "failed" /\ consumed' = Append(consumed, item)
      /\ fault' = Verdict(item) /\ Verdict(item) # "Ok"
  BY DEF RejectItem
<1>2. consumed \in Seq(Inputs) /\ item \in Inputs
  BY ItemsAssumption DEF TypeInv, TypeOK, Inputs
<1>3. Acceptable(consumed) /\ offset = total /\ prevId = LastOf(consumed)
  BY <1>1 DEF DecideInv
<1>4. /\ N \in Nat /\ Len(consumed') = N + 1 /\ consumed'[N + 1] = item
      /\ \A k \in 1 .. N : consumed'[k] = consumed[k]
      /\ SubSeq(consumed', 1, N) = consumed
  BY <1>1, <1>2, LenProperties, AppendProperties, AppendIsConcat, SubSeqProperties
<1>5. /\ total \in Nat /\ TotalLen(consumed') = total + item.len
      /\ Acceptable(consumed') <=>
           LastOf(consumed) < item.id /\ item.len > 0 /\ total + item.len <= U32Max
  BY <1>1, <1>2, <1>3, TotalType, TotalOfAppend, AcceptsNext
<1>6. item.id \in Nat /\ item.len \in Nat /\ U32Max \in Nat
  BY <1>2, U32MaxAssumption DEF Inputs, U32
<1>7. /\ N # 0 => prevId = consumed[N].id
      /\ N = 0 => prevId = -1
      /\ prevId \in Int
  BY <1>2, <1>3, <1>4, EmptySeq DEF LastOf, TypeInv, TypeOK, U32
<1> HIDE DEF N, total
<1>8. ~Acceptable(consumed')
  BY <1>1, <1>3, <1>5, <1>6, <1>7 DEF Verdict
<1>9. Verdict(item) = "DataNotSorted" => N + 1 > 1 /\ consumed'[N].id >= consumed'[N + 1].id
  <2> SUFFICES ASSUME Verdict(item) = "DataNotSorted"
               PROVE  N + 1 > 1 /\ consumed'[N].id >= consumed'[N + 1].id
    OBVIOUS
  <2>1. ~(prevId < item.id)
    BY DEF Verdict
  <2>2. N # 0 /\ N \in 1 .. N
    BY <1>4, <1>6, <1>7, <2>1
  <2> QED BY <1>4, <1>6, <1>7, <2>1, <2>2
<1>10. Verdict(item) = "DataEmptyOn" => consumed'[N + 1].len = 0
  BY <1>4 DEF Verdict
<1>11. Verdict(item) = "OffsetOverflows" => TotalLen(consumed') > U32Max
  BY <1>3, <1>5, <1>6 DEF Verdict
<1>12. (N + 1) - 1 = N
  BY <1>4
<1>13. /\ ~Acceptable(consumed)' /\ Acceptable(SubSeq(consumed, 1, Len(consumed) - 1))'
       /\ TotalLen(consumed)' = TotalLen(consumed')
  <2>1. Acceptable(SubSeq(consumed', 1, Len(consumed') - 1))
    BY <1>3, <1>4, <1>12
  <2> QED BY <1>8, <2>1 DEF Acceptable, TotalLen, LenUpTo
<1> QED
  BY <1>1, <1>4, <1>9, <1>10, <1>11, <1>12, <1>13 DEF DecideInv, BuilderDecidesExactly

\* from_id_and_len_iter accepts exactly the sorted inputs without an empty item
\* whose total fits u32; when it fails, the last item pulled is what is wrong,
\* and the Error says how.
THEOREM BuilderIsExact == Spec => []BuilderDecidesExactly
<1>1. Init => DecideInv
  BY AcceptsNone, TotalOfNone DEF Init, Start, DecideInv, BuilderDecidesExactly
<1>2. TypeInv /\ DecideInv /\ [Next]_vars => DecideInv'
  <2> SUFFICES ASSUME TypeInv, DecideInv, [Next]_vars PROVE DecideInv'
    OBVIOUS
  <2>1. ASSUME NEW item \in Items, PushItem(item) PROVE DecideInv'
    <3>1. /\ pc = "build" /\ pc' = "build" /\ consumed' = Append(consumed, item)
          /\ offset' = offset + item.len /\ prevId' = item.id /\ Verdict(item) = "Ok"
      BY <2>1 DEF PushItem
    <3>2. consumed \in Seq(Inputs) /\ item \in Inputs
      BY ItemsAssumption DEF TypeInv, TypeOK, Inputs
    <3>3. Acceptable(consumed) /\ offset = TotalLen(consumed) /\ prevId = LastOf(consumed)
      BY <3>1 DEF DecideInv
    <3>4. prevId < item.id /\ item.len # 0 /\ offset + item.len <= U32Max /\ item.len \in Nat
      <4>1. offset \in Nat /\ item.len \in Nat /\ U32Max \in Nat
        BY <3>2, <3>3, TotalType, U32MaxAssumption DEF Inputs
      <4> QED BY <3>1, <4>1 DEF Verdict
    <3>5. Acceptable(consumed') /\ LastOf(consumed') = item.id
          /\ TotalLen(consumed') = TotalLen(consumed) + item.len
      <4>1. item.len > 0
        BY <3>4
      <4> QED BY <3>1, <3>2, <3>3, <3>4, <4>1, AcceptsNext, TotalOfAppend
    <3> QED BY <3>1, <3>3, <3>5 DEF DecideInv, BuilderDecidesExactly, Acceptable, LastOf, TotalLen, LenUpTo
  <2>2. ASSUME NEW item \in Items, RejectItem(item) PROVE DecideInv'
    BY <2>2, RejectDecides
  <2>3. CASE FinishBuild \/ BuildError
    <3>1. Acceptable(consumed) /\ pc' = "built" /\ consumed' = consumed
      BY <2>3 DEF FinishBuild, BuildError, DecideInv
    <3> QED BY <3>1 DEF DecideInv, BuilderDecidesExactly
  <2>4. ASSUME pc \notin {"build", "failed"}, pc' \notin {"build", "built", "failed"} PROVE DecideInv'
    BY <2>4 DEF DecideInv, BuilderDecidesExactly
  <2>5. CASE UNCHANGED vars
    BY <2>5 DEF vars, DecideInv, BuilderDecidesExactly
  <2>6. CASE \/ EncodeError \/ EncodeBegin \/ EncodeItem \/ EncodeEnd
             \/ DecodeError \/ DecodeBegin \/ DecodeItem \/ DecodeAccept \/ DecodeReject
    BY <2>4, <2>6
       DEF EncodeError, EncodeBegin, EncodeItem, EncodeEnd, DecodeError, DecodeBegin,
           DecodeItem, DecodeAccept, DecodeReject
  <2> QED BY <2>1, <2>2, <2>3, <2>5, <2>6 DEF Next
<1>3. DecideInv => BuilderDecidesExactly
  BY DEF DecideInv
<1> QED BY <1>1, <1>2, <1>3, TypeInvariant, PTL DEF Spec

===============================================================================
