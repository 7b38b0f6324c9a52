----------------------------- MODULE BlockHeader -----------------------------
(***************************************************************************)
(* The header of a block and its extension, the form they travel in, and   *)
(* the ways to name a block (core/src/header/mod.rs, header/extension/,    *)
(* kate_commitment.rs, da_block.rs).  A byte string is a sequence of       *)
(* words.  A number takes one word, and so does a hash, whatever was       *)
(* hashed: it is ideal, the word of what was hashed and by whom.  Block    *)
(* numbers are u32.                                                        *)
(***************************************************************************)
EXTENDS DataLookup

Number(n) == << n >>
Hash(by, bytes) == << << by, bytes >> >>

Keccak(bytes) == Hash("keccak", bytes)
DefaultHash == Hash("default", << >>)

IsSequence(s) == s \in Seq({s[k] : k \in DOMAIN s})
IsHash(h) == IsSequence(h) /\ Len(h) = 1

\* The elements of s at some positions, of those up to n.
FilteredUpTo(s, at) ==
  LET out[n \in 0 .. Len(s)] ==
        IF n = 0 THEN << >> ELSE IF n \in at THEN Append(out[n - 1], s[n]) ELSE out[n - 1]
  IN  out

Filtered(s, at) == FilteredUpTo(s, at)[Len(s)]

-------------------------------------------------------------------------------
\* The extension.

Extension(lookup, rows, cols, dataRoot, commitment) ==
  [app_lookup |-> lookup, rows |-> rows, cols |-> cols,
   data_root |-> dataRoot, commitment |-> commitment]

DefaultExtension == Extension(NewEmpty, 0, 0, DefaultHash, << >>)

GetEmptyHeader(dataRoot) == Extension(NewEmpty, 0, 0, dataRoot, << >>)

\* Mutant: the lookup does not tell that something went wrong.
GetFaultyHeader_Empty(dataRoot) == GetEmptyHeader(dataRoot)

GetFaultyHeader(dataRoot) == Extension(NewError, 0, 0, dataRoot, << >>)

-------------------------------------------------------------------------------
\* The header.

\* HeaderT::new; the extension is set afterwards.
NewHeader(number, extrinsicsRoot, stateRoot, parentHash, digest) ==
  [parent_hash |-> parentHash, number |-> number, state_root |-> stateRoot,
   extrinsics_root |-> extrinsicsRoot, digest |-> digest, extension |-> DefaultExtension]

SetExtension(header, extension) == [header EXCEPT !.extension = extension]

\* The fields of a header that travels, by their types.
IsHeader(h) ==
  LET ext == h.extension
      index == ext.app_lookup.index
  IN  /\ h = [parent_hash |-> h.parent_hash, number |-> h.number, state_root |-> h.state_root,
              extrinsics_root |-> h.extrinsics_root, digest |-> h.digest, extension |-> ext]
      /\ ext = Extension(ext.app_lookup, ext.rows, ext.cols, ext.data_root, ext.commitment)
      /\ \A hash \in {h.parent_hash, h.state_root, h.extrinsics_root, ext.data_root} : IsHash(hash)
      /\ IsSequence(h.digest) /\ IsSequence(ext.commitment)
      /\ \A n \in {h.number, ext.rows, ext.cols, ext.app_lookup.size} : n \in Nat
      /\ IsSequence(index)
      /\ \A k \in DOMAIN index : index[k].id \in Nat /\ index[k].start \in Nat

\* CompactDataLookup::from_data_lookup, and back again.
Compact(lookup) ==
  LET kept == Filtered(lookup, {k \in DOMAIN lookup : lookup[k].id # 0})
  IN  IF IsError(lookup) THEN CompactError
      ELSE [size |-> LookupLen(lookup),
            index |-> [k \in DOMAIN kept |-> CompactItem(kept[k].id, kept[k].start)]]

Expand(compact) ==
  LET last == Len(compact.index) + 1
      begin == << CompactItem(0, 0) >> \o compact.index
      end(k) == IF k = last THEN compact.size ELSE begin[k + 1].start
      entries == [k \in 1 .. last |-> Entry(begin[k].id, begin[k].start, end(k))]
  IN  IF CompactIsError(compact) THEN NewError
      ELSE IF begin[last].start < compact.size THEN entries
      ELSE SubSeq(entries, 1, last - 1)

EncodeVector(bytes) == << Number(Len(bytes)) >> \o bytes

EncodeCompact(compact) ==
  LET item(k) == compact.index[(k + 1) \div 2]
  IN  << Number(compact.size), Number(Len(compact.index)) >>
        \o [k \in 1 .. 2 * Len(compact.index) |->
              Number(IF k % 2 = 1 THEN item(k).id ELSE item(k).start)]

EncodeExtension(ext) ==
  EncodeCompact(Compact(ext.app_lookup))
    \o (<< Number(ext.rows), Number(ext.cols) >> \o (EncodeVector(ext.commitment) \o ext.data_root))

EncodeFields(header) ==
  (header.parent_hash \o << Number(header.number) >>) \o (header.state_root \o header.extrinsics_root)

\* Mutant: the extension stays outside.
EncodeHeader_NoExtension(header) == EncodeFields(header) \o EncodeVector(header.digest)

EncodeHeader(header) ==
  EncodeFields(header) \o (EncodeVector(header.digest) \o EncodeExtension(header.extension))

HashOf(header) == Hash("header", EncodeHeader(header))

-------------------------------------------------------------------------------
\* What SCALE and JSON carry: the lookup is compact, a number may be any.

ToWire(header) == [header EXCEPT !.extension.app_lookup = Compact(@)]

Unreadable == [ok |-> FALSE]

\* Compact<u32>, and U256 through number_serde: the number has to fit.
FromWire(wire) ==
  LET lookup == Expand(wire.extension.app_lookup)
  IN  IF \/ wire.number > U32Max
         \/ ~CompactIsError(wire.extension.app_lookup)
            /\ LookupLen(lookup) # wire.extension.app_lookup.size
        THEN Unreadable
        ELSE [ok |-> TRUE, header |-> [wire EXCEPT !.extension.app_lookup = lookup]]

-------------------------------------------------------------------------------
\* Blocks.

NewBlock(header, extrinsics) == [header |-> header, extrinsics |-> extrinsics]

BlockIdHash(hash) == [hash |-> hash]
PreGenesis == BlockIdHash(DefaultHash)
IsPreGenesis(id) == id.hash = DefaultHash

===============================================================================
