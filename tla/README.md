# A TLA+ verification of avail-core

This directory holds TLA+ models of the logic by which an Avail block is laid
out, announced in a header, extended with erasure codes, proved cell by cell
and read back by a light client, and of what travels around it: extrinsics,
headers, data proofs. TLC checks the models on small instances; TLAPS proves
the results listed under *What is proved* for every value of the constants.
`PROJECT.json` relates every definition to the lines it models.

## 1. Inventory

| Part of the system | Code | State and operations | Here |
|---|---|---|---|
| Data lookup | `core/src/data_lookup/mod.rs` | a vector of (application, range of chunks); built from lengths, queried, projected to bytes | modelled, proved |
| Compact lookup | `core/src/data_lookup/compact.rs` | the header's form of it: size and starts, application 0 left out; decoded with `TryFrom` | modelled, proved |
| Matrix | `kate/recovery/src/matrix.rs` | dimensions; cell number to row and column, extended positions, partitions | partly |
| Erasure code | `par_extend_data_matrix` in `kate/src/com.rs`, `reconstruct_column` and below in `kate/recovery/src/com.rs` | a column as a polynomial; the zero polynomial of the missing cells, a division on a shifted domain | modelled, proved |
| Recovery | `kate/recovery/src/com.rs` | cells by column in a hash map; columns rebuilt, data read row by row, byte ranges decoded | modelled, proved |
| Proof builder | `build_proof` in `kate/src/com.rs` | one closure per cell on a thread pool, a shared result, errors behind a mutex | modelled, proved |
| Block builder | rest of `kate/src/com.rs` | sort, group, pad, choose dimensions, fill with random chunks, extend, commit | modelled, proved |
| Grids | `kate/src/gridgen/core.rs` | evaluation grid, its application rows; polynomial grid with commitments, proofs of cells and of blocks of cells | modelled, partly proved |
| Byte stream | `kate/recovery/src/sparse_slice_read.rs` | a queue of byte slices read as one input | modelled |
| Rows and multiproof cells | `kate/recovery/src/data.rs` | cells merged to rows; the bytes of cells | modelled |
| Row check | `kate/recovery/src/commitments.rs` | rows of an application against commitments | modelled, proved |
| Proof check | `kate/recovery/src/proof.rs` | a cell, or a block of cells, against commitments | modelled over an ideal library |
| Extrinsics | `core/src/asdr.rs`, `app_extrinsic.rs`, `opaque_extrinsic.rs` | codec with a length prefix, JSON and opaque forms, signed payload, check | partly, proved |
| Header | `core/src/header/`, `kate_commitment.rs`, `da_block.rs` | data, with an extension that may be empty or faulty; hash, JSON numbers | modelled, proved |
| Data proof | `core/src/data_proof.rs`, `core/src/data_proof/` | identifiers, bridge messages and their layout, two Merkle roots and the proof of a leaf | modelled, proved |
| Support | `couscous.rs`, hashes, traits, constants | no behaviour of its own | not modelled |

How the parts interact. A signer signs an extrinsic together with the chain it
is for and sends it to a node, which decodes it by one of several routes and
checks it. The author's node groups extrinsics by application,
pads them to chunks, records how many chunks each application has
(`DataLookup`), fills a matrix row by row, extends every column to twice its
length, commits to the rows and publishes dimensions, commitment and compact
lookup in the extension of the header, with the hash of the roots of the
block's two data tries. A full node answers requests for cells with
`build_proof`, or with proofs for blocks of cells, and requests for data with a
proof of a leaf. A light client
decodes the header, samples a slice of the matrix, asks peers for cells of the
rows or columns its
application touches, checks them against the commitments, and gets its
extrinsics back with one of the functions of `recovery/src/com.rs`. A bridge on
another chain knows hashes of headers and executes messages it is shown a
proof of. All calls
are synchronous; the only threads are those of the rayon pool in `kate`, and
nothing is persisted. What is unreliable is the network between node and
client: cells may be missing, come twice, in any order, or belong elsewhere;
bytes may be damaged; answers may be late, repeated, or those to another
question.

Where it is hard, and what must hold there:

* Lookup and codec: four checks in an order that decides which error is
  reported; arithmetic up to u32::MAX; a codec that drops application 0 and
  puts it back. *Correct if* lookups tile the matrix, every application finds
  after decoding the range the author gave it, and an error header stays one.
* Erasure code: an in-place product whose loop runs backwards; a division that
  works only because the shift leaves the domain. *Correct if* any half of a
  column gives the column.
* Recovery: the same data addressed by cell number, by row and column, by byte
  range, while some of it is absent and reads as zeros. *Correct if* an answer
  is what the author wrote, or an error, and if it comes whenever the
  documented number of cells is there.
* Proof builder: work stealing, a shared buffer, a lock, library failures.
  *Correct if* either every proof is there and belongs to its cell, or an
  error is returned that really happened, and the call always comes back.
* Block builder and grids: powers of two, paddings that must agree between the
  two generators. *Correct if* the layout matches the lookup.
* Sampling: partitions cut with floating point, a tiling computed by the node
  and, separately, by the client; a verifier that takes positions and counts
  from the bytes it is to check. *Correct if* a fleet sees every cell, honest
  proofs verify, and what was confirmed is in the matrix.
* Extrinsics: a payload of which only part is sent, rebuilt by the node from
  its own chain; a length prefix that is not always compared. *Correct if* a
  block holds only what its signer wanted on this chain, honest submissions
  pass by every route, and a light client reads what the block holds.
* Reader of slices: leftovers go back to the front of a queue. *Correct if* it
  is a stream of bytes.
* Headers and data proofs: JSON and SCALE forms, three modes of the extension,
  two tries that hash leaves at different places, equal transfers that must
  stay two. *Correct if* nothing is executed that was not sent, or more often
  than it was sent.

`PROJECT.json` lists the hazards one by one, each at its line.

## 2. Modules

```
DataLookup ----- LookupCodec ---- MCLookupCodec
    |                 '---------- LookupCodecProofs
    |
    |--- AppIndex -- Recovery -- MCRecovery ----- ErasureCode (of 17 elements)
Matrix ----'   |       | |---- RecoveryProofs         '-- ColumnRecovery -- MCColumnRecovery
  |            |       | '---- AppDataPromise                  '-- ErasureTheorems
  |            |       '-- ErasurePromise ---------------------------------'
  |            '-- RowVerification -- MCRowVerification
  |                      '-- RecoveryProofs
  |---- Partitions -- Sampling -- MCSampling
  '---- MultiProof ------'  '-- ErasureTheorems (the one above)
            '---------- ErasureCode

DataLookup -- BlockHeader -- DataProofs -- BridgeProofs -- MCBridgeProofs
                                               |-- MessageBridge
                                               '-- BridgeTheorems

DataLookup -- BlockChunks -- FlattenBlock -- GridBuild -- MCGridBuild
                  ||-------- EvaluationGrid ------'|
                  |'-------- ExtrinsicJourney -----|-- MCExtrinsicJourney
SparseSliceRead --|----------------'  |  |  '------|-- ByteStream
AppUncheckedExtrinsic ----------------'  |         |
                  |                      |         |
                  '-- ChunkLemmas -------+---------+-- GridBuildProofs
                                         '-- ExtrinsicProofs

BuildProof -- MCBuildProof
    |-- BuildProofProofs
    '-- ProofServer
```

A line is EXTENDS or INSTANCE. `AppDataPromise`, `ProofServer`, `ByteStream` and
`MessageBridge` are abstract specifications; Recovery, BuildProof,
ExtrinsicJourney and BridgeProofs instantiate them with a refinement mapping.
`ErasurePromise` states a contract between two operators; Recovery is written
for any pair that keeps it, ErasureTheorems proves that the program's does.

**DataLookup** has the operators on lookups: `RangeOf`, `ProjectedRangeOf`,
`ProjectedRanges`, the error lookup and the error marker of the compact form
(current and legacy). u32 arithmetic is bounded by the constant `U32Max`.

**LookupCodec** runs `from_id_and_len_iter`, `from_data_lookup` and
`TryFrom<CompactDataLookup>` one after the other, one step per iteration of
their loops. The builder pulls arbitrary items, so it meets every order, every
duplicate, empty and oversized lengths. `BuildError` is an author who
publishes `new_error()`. With origin `"foreign"` only the decoder runs, on a
compact lookup that nobody here encoded.

**Matrix** has the index functions the other modules need; **AppIndex** names the
cells and rows an application touches. Vectors that are only
iterated or tested for membership are sets.

**ErasureCode** is the algebra over a prime field: transforms, the shift, the
zero polynomial, the interleaved extension. The transforms are those of an
external library and are modelled by what they do, evaluation and
interpolation; the rest follows the code's steps and its order. Fields are
small, with the code's own shift factor 5 as a non-member of every domain.

**ColumnRecovery** is `reconstruct_column`: a caller collects cells (good ones,
a duplicate, one of another column, one whose bytes are no scalar), the checks
run in the code's order, then `zero_poly_fn` (one step per missing cell), the
product, the shifted division and the final transform.

**Recovery** is `reconstruct_app_extrinsics`, `reconstruct_extrinsics`,
`decode_app_extrinsics` and `reconstruct_columns` as one machine, since they
share their parts: `map_cells` one cell per step in the order of the slice,
columns one by one, the data read back by rows, byte ranges, and
`unflatten_padded_data` range by range. The erasure code is the pair of
constants `ExtendColumn` and `Reconstruct` of **ErasurePromise** with its
`ErasureContract`
(data rows are the even rows of the coded column, and any half of it gives the
data back), which `ErasureAssumption` asks for. `MCRecovery` puts the program's code (ErasureCode) in their place,
and TLC then evaluates the assumption; ColumnRecovery is the algorithm stage by
stage.

**BuildProof** is `build_proof`. A thread has a *stack* of cells: rayon may run
another cell on a thread that joins the nested iterator reading a row. Each of
the four library calls may fail. Mutex, list of errors, slots of the result and
the join are as in the code.

**FlattenBlock** is `flatten_and_pad_block`, `get_block_dimensions`,
`par_extend_data_matrix` and `par_build_commitments`: the stable sort, one step
per extrinsic that is grouped, one per application that is padded, then the
dimensions in bytes and in u32 as the code computes them, the random chunks,
the change from row order to column order and the rows that are committed to.

**EvaluationGrid** is `EvaluationGrid` of `gridgen`: `from_extrinsics` with its
ordered map, `get_block_dims`, `extend_columns` and `app_rows`. **GridBuild**
runs both on one request and compares them; it EXTENDS the first and
instantiates the second. **BlockChunks** has what both share: the encoding of
an application's extrinsics, its pieces, powers of two.

**RowVerification** is the way of a light client to verified rows. They come from
a full node (`scalars_to_app_rows`, `scalars_to_rows`, the second of which reads
the column-major matrix by strides), from cells that peers send in any order,
any number of times, with good or bad contents and also from behind the last
column (`rows` of `data.rs`: the stable sort, the merge, the retained rows), or
as any list at all. `from_slice` and `verify_equality` then take their exits in
the code's order and look at one row per step. Putting the merged rows at their
indexes is the caller's part, which is not in the repository.

**AppUncheckedExtrinsic** has the operators of `asdr.rs`: constructors, `encode`,
`decode` with and without a known length, `Serialize` and `Deserialize`, the way
through `OpaqueExtrinsic`, the payload of `SignedPayload` (function, extra and
what the chain adds, hashed when it is long), `check`, `caller`, `app_id`.
**ExtrinsicJourney** is the life of an extrinsic: `Submit` by a signer who knows
its own chain, the bytes perhaps damaged; `Decode` by one of four routes;
`CheckAndInclude`; then a light client opens an application's cells and reads
them, byte count by byte count, through **SparseSliceRead**, each round of whose
loop is a step. **ByteStream** says what a reader promises: every read is
answered with the next bytes.

**Partitions** has `iter_extended_partition_positions` and
`iter_mcell_partition_positions` with their floats. **MultiProof** is the
polynomial grid (commitments, `proof`, `multiproof`, `multiproof_dims`, the
tiling), the bytes of cells and of blocks of cells, and `verify_v2` and
`verify_multi_proof`. **Sampling** composes them: a fleet of clients, each with
its slice, asks for one position after the other; one answer on the way may be
damaged. Blocks are those `get_block_dims` and `MAX_BLOCK_COLUMNS` allow, with
sides that are powers of two (`JobsAssumption`): of other sizes the last slice
may end behind the matrix. With 53 bits, 3 / 187 * 187 rounds up above 3.

**BlockHeader** is `Header` with its extension (`get_header_extension`,
`get_empty_header`, `get_faulty_header`), its hash and JSON form, and
`BlockId`. **DataProofs** has identifiers of transactions, messages and their ABI
layout, `TxDataRoots` and `DataProof`. **BridgeProofs** composes them: a chain of
blocks with each kind of header; a client that walks from the newest hash back
to the genesis, taking only headers that hash to what it expects; and
`Execute`, which checks a response against the header it claims. Its promise is
**MessageBridge**: every executed message was sent, and no more often than that.

How code becomes state: loop counters and locals are variables only as long as
a later step reads them; `?` and early returns are actions of their own that
set the answer; a history variable (`consumed`, the `job` in an entry of
`errors`, `wanted` and `issued`, `opened`) is named as such and decides nothing
in the code.

### Data that is abstracted

* A *chunk* (32 bytes) is one symbol. SCALE's length prefixes become the first
  symbol of an application's encoding: how many chunks it has; 0 is the empty
  list, so a chunk of zeros decodes to no extrinsics, as in the code.
* In Recovery, cells inside the matrix carry the authored bytes: callers verify
  them before. A cell outside is one for another matrix.
* A witness is the pair (row, column) it was computed from.
* `ReconstructionError::InvalidLength`, cells shorter than a chunk, cannot be
  built: a cell's content is an array of fixed size.
* In the generators a coded cell is known by its column and row, and a
  commitment is the row committed to; random chunks are all the same. SCALE's
  length prefixes are one byte, which holds below 64 bytes. Numbers of chunks
  are far from 2^32; only `BlockDimensions::new`, the size of the block and the
  sums of the lookup are checked against `U32Max`.
* In RowVerification a commitment is the evaluations it commits to, after the
  library's inverse transform has cut or filled the row to its domain; so two
  rows of different width may have one commitment, as in the code.
* `ArkEvaluationDomain::new` fails for no width that fits u16, and `app_rows`
  of the full node's matrix is never out of bounds; neither is an exit.
* Extrinsics: an address, a signature and each component of the extra take one
  byte, a function is a vector of bytes, lengths are below 64. Signatures and
  hashes are ideal: they tell what was signed or hashed, and by whom.
* MultiProof: a commitment is the vector of coefficients, which is homomorphic
  as the library's is; an opening verifies for what it opened if that was true.
  A proof, a field of a block, a count and a limb of a scalar take one number
  each in the bytes of a cell. Floats have `Precision` bits, 53 in the code.
* Headers: a byte string is a sequence of words. A number takes one word, and so
  does a hash, which is ideal: the word of what was hashed and by whom. The
  Merkle tree is modelled from the proofs it exchanges; as in the library, a proof binds the
  leaf and not `leaf_index` or `number_of_leaves`, so the properties speak of
  the leaf. The runtime that fills a block and the client on the other chain
  are the environment.
* Metrics, timing and log lines are left out.

## 3. Runs

| Run | Asks | Instance |
|---|---|---|
| `lookup_codec` | lookups tile, the builder decides exactly, decoding gives the author's lookup back, errors stay errors | U32Max = 5, so sums reach and pass it with two or three applications; ids 0..3; lengths 0, 1, 2, 3, 5 and 6 (more than u32); all foreign headers of up to two items |
| `column_recovery` | shifted divisor has no zero; any half of a column suffices, and is never refused | columns of 2, 4, 8 cells over the field of 17; all unit vectors and a general one; every set of rows, up to one defective cell |
| `column_row_count` | a comment of `reconstruct_column` | violated, see 6 |
| `recovery` | columns exact, no panic, index functions agree; requests about an application implement AppDataPromise | matrices 2x2, 2x1, 1x3 with up to two applications out of 0, 1, 2 and all their layouts; every set of cells, with one too many; U32Max = 159, so four chunks have byte offsets and five overflow; decodable headers that no author wrote |
| `reconstructs_all` | the doc of `reconstruct_extrinsics` | violated, see 6 |
| `build_proof` | jobs in one place, the lock, termination, refinement of ProofServer | two threads; all lists of up to two cells on and beyond the edges of 1x2 and 2x2 matrices, one list of three; dimensions 0x2 and, with U16Max = 7, 4x2 are refused |
| `grid_build` | what is submitted is stored; dimensions exact; application rows; agreement of the two generators | chunks of 3 bytes in cells of 4; up to three extrinsics of two applications with 0, 1 or 8 bytes, so that encodings end inside a chunk and at its end, and one of 50 bytes; ten largest matrices, among them no powers of two and some beyond U16Max = 8 or U32Max = 64; nine bounds of the grid, factors 2 and 3, eight original dimensions |
| `row_verification` | genuineness, partition, completeness of the check; rows of the node pass; no harm from other rows | a 2x2 matrix with rows that end in zero or have equal cells, and 1x3 whose rows do not fill their domain of four; five lookups, one beyond the matrix; up to four cells out of those of two data rows, good and bad, one behind the last column and two of a coded row; lists of short, long, swapped and unparsable rows; headers with a commitment too few, too many, or in part |
| `invalid_rows` | the doc of `verify_equality` | violated, see 6 |
| `extrinsic_journey` | blocks hold what signers meant, honest submissions pass, decoding is canonical, clients read the block, the reader is a stream | two accounts, one also known by an index; seven transactions: unsigned, empty and long calls, payloads below and above HashLimit = 14, another chain, an unknown era; two submissions by four routes; any one byte changed by one, cut off or added; extra of ten components; chunks of 5 bytes in cells of 6, so that prefixes and extrinsics end inside cells and at their ends |
| `sampling` | what is confirmed is genuine, the fleet sees every cell, honest answers verify | matrices 1x1, 2x2, 1x4, 4x1, 2x4, 4x2 over the field of 17; targets smaller and larger than the grid and no divisor of it; 1, 2, 3, 5 and 11 clients; floats of 11 bits; any one byte of one answer changed or cut off |
| `bridge_proofs` | proofs are of submitted data, honest answers accepted, held headers genuine, faulty blocks recognised, identifiers lead back; refinement of MessageBridge | two blocks, up to three transactions: a blob, a token transfer, and a message whose bytes read like that transfer; each mode of the header, two lookups; U32Max = 3, U32Size = 4; any one field of a header or a response changed or taken from another block |

Why these bounds are enough. The three codec loops look at two neighbours and
one running sum, so a lookup of four entries has a first, a middle and a last
one with each relation between neighbours. A matrix needs two rows and two
columns to tell row order from column order, a non-square one to tell rows
from columns, one row to make the row range collapse, and three columns so
that an application touches some but not all of them. Transforms are linear:
the unit vectors stand for every column. Eight cells are the first length with
three rounds of the zero polynomial and loss patterns that are no coset.
Four cells complete both data rows of the 2x2 matrix, or one of them with
duplicates and strays besides; a row of three shows a row that is shorter than
its domain.
Deadlocks of one mutex need two threads, and work stealing needs a job to
steal; more of either adds permutations.
With 53 bits, 49 times a 49th rounds below 1; with 11 bits, 11 times an 11th
does, on matrices as small as these, so at this precision a bound that is not
rounded outwards loses a cell. Two submissions let the signature of one be tried on the other;
two blocks let a proof of one be shown for the other, and a header be followed
to its parent; three transactions give a trie with a leaf that has no sibling.

The symbol 0 never occurs as data in `recovery`, so that zeros that stand for
absent columns show. `CHECK_DEADLOCK FALSE` is set because each model ends
with its call's answer, or when its bounds are used up; that BuildProof gets
there is the property `Answers`, and that reads are answered is part of
`KeepsStream`.

## 4. Fairness

BuildProof states fairness in `FairSpec`: weak
fairness of each pool thread, which runs until its queues are empty and is
scheduled by the operating system, and of the caller that waits for the join.
Nothing is assumed about which job a thread steals or which thread gets the
mutex; the critical section is one push. ExtrinsicJourney has weak fairness of
the light client's reading: the loop of a read runs in one thread without a
wait, and its decoder asks for the next bytes until it is done. `ByteStream`
promises an answer to each read, and `KeepsStream` checks it. The other
parts are sequential and have nothing to
schedule: what they must not do is stated as safety. That a network delivers is
assumed nowhere.

## 5. What is proved

`LookupCodecProofs` proves for any `U32Max`, any set of items and any foreign
headers: `TypeCorrect`, `LookupTiles`, `LookupMatchesInput`,
`DecodedIsContiguous`, `DecodedIsAuthored`, `HonestHeaderAccepted`,
`RangesAreAuthored`, `ErrorFlagIsAuthored` and `BuilderIsExact`, that is
`BuilderDecidesExactly`. The assumptions are the typing
of the constants (`U32MaxAssumption`, `ItemsAssumption`, `ForeignAssumption`).
The argument has five layers, each an inductive invariant that uses the ones
before:

1. `TypeInv`: types, and the decoder's `prevId` is a real id. `offset` stays in
   u32 because `Verdict` checks the sum before the push.
2. `BuildInv`: index tiles `0 .. offset`, and `prevId` is the id of its last
   entry, which is what makes the comparison with one predecessor enough for
   the order of all of them. `IndexTiles` alone is not inductive: the next push
   needs to know where the last entry ended.
3. `EncodeInv`: after `pos` entries the compact lookup holds the entries seen
   so far without the one of application 0, which can only be the first.
4. `DecodeInv`: the decoder's output is the expansion of the items read, its
   last range still open. With `ExpansionOfKept` (expanding what the filter
   kept gives the lookup behind its phantom) this gives equality with the
   author's lookup, from which the statements on ranges, rejection and errors
   follow.
5. `DecideInv`: while the builder runs, what it has pulled is acceptable,
   `offset` is its total and `prevId` its last application. That makes
   the checks of one item a decision about the whole input (`AcceptsNext`); the
   total is a recursive sum, and one more item adds its length (`TotalOfAppend`).

`RecoveryProofs` proves for every matrix, lookup, request and order in which
cells come, and for every erasure code that keeps its contract: `NeverPanics`,
`ReconstructedColumnsAreExact`, `RowsAreThoseOfCells` and
`RecoveryKeepsPromise`, that requests about one application implement
AppDataPromise. The assumptions are `RequestsAssumption` (types),
`SymbolAssumption` and `ErasureAssumption`, which the runs evaluate for the program's
code and `CodeKeepsContract` below proves of it. The invariant `Inv` has four parts, each resting on those before:

1. `PanicInv`: the ranges under way end inside the data of the matrix and are
   not reversed. `RangesInside` is the heart of it: the bound check on an
   application's range covers the byte ranges that are sliced later.
2. `ColumnsInv`: at every place in the code the column under way holds authored
   cells by distinct rows, and what was rebuilt is the author's column. It is
   here that the contract of the erasure code is used.
3. `CellsInv`: what `map_cells` has collected is what has come of the
   application's columns, no cell of which is dropped or changed.
4. `UnflattenInv`: ranges decoded so far gave the author's chunks, or a column
   without cells read as zeros.

For the refinement, a cell that is mapped is a `Supply`; decoding that
fails or returns is `Deliver`, or `Guess` when a column was absent; an error of
the code is `Refuse` or `Malformed`; all other steps stutter. `DemandsAtEnd`
relates the two counts: what the code compares with the height of the matrix
is what the promise compares with what the application needs.
`RowsAreThoseOfCells` is arithmetic about division, by `Quotient` and
`RowOfCell`.

`BuildProofProofs` proves for any set of threads, any `U16Max` and any
requests: `LockStaysShort`, `JobsInOnePlace` and `ProofsOrError`, that BuildProof
implements ProofServer. Assumed is only that the requests are well formed
(`RequestsAssumption`; the matrix may have any values) and that no thread is
called `"nobody"`. The inductive invariant `Inv` has seven parts. `StackInv`:
every frame below the innermost one joins its row, a frame past that stage
carries the row of its own cell. `Distinct` and `Places`: waiting, busy, failed
and written jobs partition the request while the call runs. `SlotInv`: what is
written is the expected proof. `EndInv`: nothing is busy before the dimensions
are checked or after the answer. `LockIsShort` needs `StackInv`: when a job is
popped, the one beneath is at its row and so not at the push. Three lemmas say
what taking up, moving and finishing a job do to all stacks (`StackTake`,
`StackGoTo`, `StackPop`); the steps of the machine are instances of them.

The second half of `RecoveryProofs` is about RowVerification (its specification
is `CheckSpec`, so that one module can extend both). It proves for every matrix,
lookup, header, set of cells and list of rows: `TypeCorrect`,
`VerifiedRowsAreGenuine`, `AnswersPartition`, `OnlyOwnRowsAbort`, `NodeRowsPass`
and `CompleteRowsPass`, that is `CompleteRowsAreVerified`. It assumes typed queries and that a
domain is no shorter than a row (`DomainAssumption`), which is where a
commitment binds (`CommitmentBinds`). The invariant `CheckInv` has two parts beside
the types. `WidthInv`: rows that were merged or came from a node have the width
of the matrix. `LoopInv`: a row in `verified` lies behind the loop, belongs to
the application, parses, and has the commitment of its own index; the property
alone is not inductive, since it says nothing of the commitment. `NodeInv` adds,
for rows of a full node, what the list holds and that `verified` is just what
the loop has passed of it. It needs that an application's rows lie inside the
extended matrix (`AppRowsInside`, for any lookup, since `extended_data_rows`
checks the end of the range) and that strides over the stored matrix give a row
(`StridedRowIsRow`).
`CompleteInv` does the same for rows that were merged from cells: a row of which each column came once, with its
authored cell, is merged to the coded row (`MergedIsCoded`). The stable sort
makes its cells a sequence of single chunks, and the concatenation of single
chunks is shown to be that sequence by its least counterexample
(`FlattenSingles`).

`ErasureTheorems` proves for every prime field with a generator, every column and
every set of cells a caller may hand over: `DivisionIsSafe`, that is
`ShiftedDivisorHasNoZero`; `AnyHalfGivesTheColumn`, that is `AnyHalfSuffices`; and
`CodeKeepsContract`, that `Extend` and `ReconstructPoly` keep the contract that
Recovery is written against. The assumptions are that every element but 0 has an
inverse (`FieldAssumption`), that no smaller power of the generator than the last is
1 (`GeneratorAssumption`), and of the row counts (`RowsFit`, a hypothesis of
the theorems) that they are even, that the domain has their size, that this
divides the order of the group, and that the shift factor to the power of it is
not 1. Of the field of BLS12-381 all this is true: its order less one is 2^32 times an
odd number, arkworks' generator 7 has full order, and 5 to any power 2^k
up to there is not 1. For the row count 6 of run `column_row_count` it is
not, and neither is the conclusion.

* *Field.* Elements are integers up to multiples of the prime (`Same`, a
  congruence); a product that is 0 has a factor that is (`NoZeroDivisors`).
  `Power` and `Eval` are recursive functions; what is known of them (exponents
  add, evaluation is linear) is shown by `UpTo`.
* *Transforms.* The powers of a root of unity of order n sum to n for
  exponent 0 and to 0 for every other (`Geometric`, `RootSum`), so evaluating at the
  powers and then at those of the inverse gives n times the coefficients
  (`Fourier`): `Ifft` and `Fft` undo each other (`IfftOfFft`, `FftOfIfft`).
* *Zero polynomial.* `ZeroIs` is the invariant of the rounds of `zero_poly_fn`: the
  polynomial is monic, it vanishes exactly at the roots gone through, and its product
  with one of M coefficients has M more than rounds. The last part keeps the
  argument off multiplication of polynomials in general; only (x + s) is
  multiplied, as in the code.
* *Shift.* A shifted point is no root: otherwise the shift factor would be a power of
  the domain's generator (`OffDomain`). So the divisor has no zero (`ZeroEvals`).
  When every row is missing the transform drops the leading 1 and -1 is left on the
  whole domain (`AllMissing`), which the code refuses before it divides.
* *Reconstruction.* With half of the rows missing at most, extended data times zero polynomial
  has no more coefficients than the domain has points; so the transforms
  interpolate it exactly, on the shifted domain it is the product divided
  there, and the quotient is the data (`Reconstructs`).
* *The machine.* `Inv` has four parts beside the property: `InputInv`, each
  cell has the coded scalar of its row or none; `StageInv`, the subset is what `Check` found in them;
  `ZeroInv`, `ZeroIs` for the missing rows gone through in ascending order (`NthIs`); `DivideInv`,
  the evaluations are those of the finished polynomial. The property alone says
  nothing until the end. For `CodeKeepsContract` the same lemmas are applied to the
  algorithm in one call.

Of sampling, the same module proves the three properties of run `sampling`:
`VerifiedIsGenuine`, that is `ConfirmedIsGenuine`; `HonestAnswersVerify`, that is
`HonestIsVerified`; and `NoCellIsLeftOut`, that is `FleetSeesAll`; for every prime
field, matrix, target, number of clients and precision of floats. They assume
`JobsAssumption` (sides are powers of two that divide the order of the group, and
floats hold the number of cells with two bits to spare), which TLC evaluates on the
run, and as a hypothesis `DamagedIsBytes`: what arrives instead of bytes are bytes.
That one ranges over all sequences, so TLC cannot evaluate it; a byte changed or
cut off satisfies it.

* *The code is linear.* `Fft`, `Ifft` and hence the extension of a column map
  combinations to combinations (`FftLinear`, `CodingLinear`). So a row of the
  coded columns, taken as a polynomial, has at each point the value of the
  coded column of values there (`EvalOfCoded`), and extending
  coefficient by coefficient is interpolating the extended rows
  (`ExtensionCommutes`): the header's commitments are those of the polynomials the
  node opens, and these take the matrix's values (`InterpolationIs`, `PreparedIs`).
* *Floats.* `FloatDivIs` and `FloatMulIs` bound the error of an operation by half a
  unit of the last place, from the least exponent that fits. The end of a slice is
  not before the start of the next, the first starts at 0 and the last reaches
  the size (`SliceIs`), so the slices cover (`SlicesCover`). No slice ends behind the
  last cell (`SliceInside`): here the size must be a power of two, since then
  its quotients have significands that do not depend on it, and
  multiplying back by the number of clients rounds down to the power (`RoundsDown`).
* *Blocks.* The lesser of two powers divides the greater, or `multiproof_dims`
  gives none; so the blocks tile the grid (`Tiles`, `BlockPlaced`), and each cell is in
  the block of some position (`PlacesCover`).
* *Bytes.* `from_bytes` undoes `to_bytes` (`BytesIs`), and the values of a block come
  back row by row (`JoinRows`, by the definition of flattening as a recursive function).
* *Verification.* What verifies was opened with the claim the client built, so its
  values are those of the header's polynomials at the client's own points
  (`CellGenuine`, `BlockGenuine`); an honest opening is just that claim
  (`CellVerifies`, `BlockVerifies`).
* *The machine.* `FleetInv` says besides the properties that every opening is one of a
  position of the grid, that while nothing is damaged what is under way is the
  answer for the position asked for, with the opening made last (`UnderWay`), and
  that the cells of all positions answered are confirmed (`Seen`). Without
  `UnderWay` an undamaged answer need not verify, and without `Seen` nothing is known of
  the cells when the last client is through.

`ExtrinsicProofs` proves for every arity, set of transactions, damage and number
of submissions: `EveryBlockIsMeant`, `HonestIsNeverRefused`,
`DecodingIsCanonical` and `ClientReadsWhatIsThere`, the safety properties that run
`extrinsic_journey` checks, and of `KeepsStream` the part that is no liveness:
`ReaderIsStream`, that the reader implements ByteStream. It assumes that the extra has an application where
`GetAppId` looks, that what is damaged are bytes, that addresses and chains are
typed and bound as said above (`ExtrinsicAssumption`, `JourneyAssumption`,
`SignersAssumption`), and that a signature stands only for what was signed.

* *Signers.* Whatever bytes arrive, a decoder that accepts them gives an
  extrinsic of one of the two forms (`InnerShape`, `ReceivedIsXt`); the bytes that
  are signed determine function, extra and additional part (`RawIsInjective`); so
  a signature that verifies was made for the same call, extra and chain
  (`CheckedIsMeant`). The inductive invariant is `MeantInv`: `PoolInv`, the types
  of the submission under way; `IssuedInv`, every signature was issued for
  something wanted; `BlockInv`, every extrinsic taken is meant. The property
  alone is not inductive, since it says nothing of the signatures a later
  extrinsic may carry.
* *Honest submissions.* Each route is inverse to encoding (`RoundTrip`), and what
  a signer makes for this chain passes the check (`OwnPasses`). `HonestInv` adds
  to `MeantInv` what was sent: the extrinsic with the signature issued last.
* *Canonical form.* A decoder consumes exactly the bytes of the extrinsic's own
  encoding (`InnerIsExact`), from which the length prefix is forced wherever it
  is compared. `CanonInv` says this of the decoded submission. It needs the
  first byte of the body to be a byte: version and signed bit are all of it.
* *Reading.* The invariant `JourneyInv` adds to `MeantInv` three parts.
  `CheckedInv`: extrinsics in the block still carry a signature that holds when
  others are issued. `ReaderInv`: the buffer of a read under way holds no more
  than was asked for. `ClientInv`: what the client has are the first of the
  application's extrinsics, what remains of the slices begins with the encoding
  of the others, followed at most by the zeroes of the last cell, and what the
  client asks for is the next piece of it. That the cells' slices join to
  just that (`SlicesFlatten`) rests on `ChunkAssumption` and on lemmas about
  concatenation, each by induction over a set of naturals.
* *Stream.* For the refinement, `CopyPart` stutters, `Return` is the `Answer` of
  ByteStream, a client that opens or asks is its `Open` and `Ask`.

`ChunkLemmas` has what ExtrinsicProofs and GridBuildProofs both need of the
operators of BlockChunks: powers of two (`NextPowerOfTwo` is one, and less than
twice its argument), `FlattenSeq` by its running concatenation, and that the
pieces of a sequence, padded and cut to their data again, join to the sequence
with zeroes behind (`DataSlicesFlatten`).

`GridBuildProofs` proves for every set of requests `DimensionsAreRight`, that is
`DimensionsAreExact` of both generators, `SubmittedExtrinsicsAreStored`, that is
`SubmittedIsStored`, `ApplicationRowsHoldTheirApp`, that is
`AppRowsHoldTheApp`, and `GeneratorsAgree`, that is `SameBlock`: what run
`grid_build` checks of the sizes of a block, of its contents, of the rows of an
application and of the two generators. It assumes `SizeAssumption` (a chunk and the least block are powers of
two, and u32 ends below the largest power considered) and that requests are
typed (`RequestsAssumption`, `GridRequestsAssumption`).

* *Sizes of FlattenBlock.* `FlattenInv` has four parts: the types; `Counted`, the
  layout counts the padded chunks until random ones are added; `Chosen`, the
  dimensions fit the size (`Fits`); `Refused`, a refused block is larger than the
  largest matrix. The last two rest on `ChosenFits`: when the largest matrix holds
  a block, none of the later checks refuses it, neither a conversion nor a
  comparison with the bounds. Its arithmetic is that of powers: products and
  quotients of powers are powers, of two powers one divides the other, and the next power is
  less than twice the number (`NextPowerIsClose`).
* *Sizes of EvaluationGrid.* `GridInv` says what shapes the lookup's length
  allows; when a lookup is built its end is that length, and the choice of
  dimensions reads nothing else.
* *Contents.* `StoredInv` says at every program counter how far the block has
  come. While extrinsics are grouped (`Grouping`), the groups so far are those of
  the first applications in ascending order, and the last of them may have more to
  come; that is where the sort matters, because `group_by` would
  open an application twice. While groups are padded (`Padding`), each entry of the layout is
  an application with as many chunks as its encoding takes, and these are where
  the running sum of the layout says (`Placed`); a further application comes
  behind them and disturbs none (`PlacedNext`, `PlacedStays`), nor do the random chunks.
  The matrix is the concatenation of columns of equal length
  (`FlattenEqual`), so that row and column of a cell are division and remainder; what
  is committed to has each cell at its extended position (`Committed`). The
  end joins them: the range the lookup gives is the place (`RangeIs`), and the
  data part of the chunks there are the encoding and zeroes (`PaddedData`,
  `BytesAre`).
* *Rows of an application.* `RowsInv` follows EvaluationGrid. While extrinsics are grouped,
  the ordered map holds of every application met so far what was submitted for it,
  in order (`Held`); visiting it by ascending keys gives the scalars (`AllScalars`),
  the lookup (`AllEntries`) and the one row of all scalars (`AllCells`) as
  functions of the request. From then on scalar number `row * cols + col` is
  at that row and column, and after the extension in every `factor`-th row
  (`Spread`). The answer must be remembered together with this (`Answered`), because nothing
  in the final state tells which rows were asked for. That these rows start and
  end with the application's range is arithmetic (`Spanning`, `IsPlaced`);
  reading them one after the other gives the application's scalars (`ReadHolds`).
* *One block from both generators.* Each side is taken to the extended matrix as
  a function of the request: `BuiltInv` says that FlattenBlock has the dimensions
  `BlockDimensions` gives for the layout's size and, once accepted, the rows of
  `ExtendedMatrix`; `FilledInv` says that EvaluationGrid has in every cell what
  `Filled` and the extension give. Then the requests are compared. The same
  chunks: a piece of an encoding padded by ISO 9797-1 is the piece padded with
  zeroes, if the encoding leaves a byte of its last chunk free (`CellOfPiece`,
  `SameCells`). The same layout: one group for each application in ascending
  order, by the running sums of both (`SameLayout`). The same dimensions:
  `BlockDimensions` rounds bytes and `BlockDims` rounds cells up to a power of
  two, and multiplying by the power `CHUNK_SIZE` carries one to the other
  (`SameCount`, `SameHeight`, `SameDims`). Then cell by cell the same matrix
  (`SameMatrix`).

`BridgeTheorems` proves first, of headers and data proofs, for every lookup, block
and number of leaves: `HeaderHashInjective`, headers with one hash travel as the
same bytes; `SentHeaderIsRead`, a header that arrives as it was sent is read and
keeps its hash; `ErrorsStayErrors`, the compact form of an error is that of no
other lookup; `AbiEncodeInjective`, two messages with one ABI layout are one;
`ProofIsSound` and `ProofIsComplete`, a proof verifies against the root of a trie
only for one of its leaves, and the one that was made for a leaf does. The
encodings are taken apart from the front, where each part says by its length or
its first words where it ends. For the tree, the items of a layer are followed
up and down one layer at a time (`OnTheWay`), by least element over the number of
layers; a leaf is never taken for an inner node because each is hashed with its own
label.

Its second part rests on these and proves for any number of blocks and
transactions and any damage: `ProvenAreSubmitted`, `HonestAnswersAreAccepted`,
`HeldHeadersAreGenuine`, `FaultsAreSeen`, `IdentifiersLeadBack`, which are the five
invariants of run `bridge_proofs`, and `BridgeKeepsPromise`, that BridgeProofs
implements MessageBridge. It assumes `BridgeAssumption` and `U32SizeAssumption`
(block and transaction numbers fit the identifier), `TxsAssumption` (transactions
are of one of two kinds) and `LookupsAssumption` (a grid has chunks, its
application 0 comes first, and it is shorter than the marker of old errors). The
inductive invariant `Inv` has eight parts. `ChainInv`: each block carries the hash of
the one before, and responses and roots of its own transactions. `PendingInv`
and `SentInv`: identifiers are distinct and grow; without the bound by the next one,
distinctness is not kept by the next transaction. `CursorInv`: the client
asks for the hash of a block; with `HeaderHashInjective` that is why a header it
takes is genuine (`HeldInv`), and `HeldInv` with `ProofIsSound` is why what it
executes or believes was in that block (`ExecutedInv`, `ProvenInv`). The last part
says that nothing asked for and undamaged was refused, which `ProofIsComplete`
and `SentHeaderIsRead` keep true. For the refinement, `Include` is a `Send` or
stutters, `ProofArrives` is an `Execute` or stutters; that identifiers are distinct
makes "no more often than it was sent" exact.

`LookupMatchesInput`, `RangesAreAuthored` and the types of RowVerification are
stated by theorems only; no run repeats them.

Not proved, and so only model-checked: liveness (`Answers`, and that
`KeepsStream` answers every read), which is out of the prover's reach. Every
safety property of a passing run is stated by a theorem.
The library's induction theorems take an operator as a parameter, which
the provers cannot instantiate. Where a proof here needs induction it takes the
set of the naturals up to which a statement holds, or the least one for which it
fails (`UpTo`, `LeastElement`).

## 6. Findings

* `reconstructs_all`: a lookup whose first application is not 0 comes back from
  its compact form with an entry `(0, 0..0)` in front. Because of that entry,
  `reconstruct_extrinsics` fails on
  a complete block: it decodes an empty range for application 0, and no
  encoding has no bytes.
* `column_row_count`: the comment and the error speak of powers of two, the
  code checks evenness; for six rows the result is a wrong column.
* `invalid_rows`: the doc says that invalid rows are treated as missing; a row
  of the application with bytes that are no scalar, or no whole chunks, makes
  `verify_equality` return an error, and rows that match are not reported.

Noted without a run: the test `compressed_conversions`
(`core/src/data_lookup/mod.rs:243`) compares a lookup with its round trip for
equality, which the entry `(0, 0..0)` refutes for a lookup without application
0; its cases happen to contain it. `app_rows` asserts in debug builds
(`gridgen/core.rs:193`) that the rows it
computes are rows of the grid; the check that the original dimensions divide
those of the grid does not guarantee it, and a release build returns
`Ok(None)`. The comment above `reconstruct_column` promises
`row_count` coded cells, the code returns half as many data scalars; and the
doc of `app_rows` promises `None` where the code returns an error.
`get_block_dimensions` asserts that a chunk has an even number of bytes
(`com.rs:218-229`); its powers of two need a chunk that is one, which is what
`SizeAssumption` asks, and the only size in use is 32.

Behaviours of the code that the properties step around, on purpose and by
name:

* AppDataPromise delivers when of every related column *some* cell is there,
  since a column without cells reads as zeros and zeros decode to an empty list
  of extrinsics (`Guess`).
* `AnyHalfSuffices` counts distinct
  rows with a scalar, because cells that are duplicates or no scalars count
  towards the half and then a wrong column comes back without an error.
* `SameBlock` leaves out blocks in which some encoding fills its last chunk: ISO
  9797-1 then adds a chunk of zeros and `gridgen` does not, so the two
  generators commit to different matrices (for 29 bytes of data, say). And it
  asks for a row that holds the least block: with a shorter one the two choose
  different dimensions, and may exceed the largest ones.
* `VerifiedAreAuthored` asks that a row which was not merged from cells has the
  width of the matrix: `verify_equality` does not look at it, and the transform
  drops what is too long and fills up with zeros. `CompleteRowsAreVerified` asks
  that each cell came once: after a duplicate the row is too long and dropped.
* `decode_app_extrinsics` returns an empty list when the byte range of
  its application overflows u32, which takes a block of 2^27 chunks.
* `DecodedIsCanonical` speaks of the length prefix only where the input knows
  its length: a reader that does not takes any prefix.
* `ConfirmedIsGenuine` is about the cells a proof names inside the matrix:
  `verify_multi_proof` accepts a block whose end lies beyond the commitments,
  of which it takes those that are there.
* `HeldHeaderIsGenuine` compares the forms that travel, since the entry
  `(0, 0..0)` appears in decoded lookups.

## 7. Plan

Done: the modules above, and proofs about nine of the components. What is
left, in this order:

1. `BlockLife`: block builder, header and client composed over a lossy network;
   each pair of neighbours is composed now (GridBuild, BridgeProofs, Sampling,
   ExtrinsicJourney), the whole chain is not.
2. The rest of Matrix: transposition and lists of positions.

## 8. Not modelled

`couscous.rs` and `testnet.rs` load constants.
Hash functions, traits, serialisation derives, type information, `Debug` and
metrics carry no behaviour of this
system. `unchecked_into_checked_i_know_what_i_am_doing` skips the check, for
tests. `columns_positions` samples random cells; no property depends on which.
The cryptography of commitments, openings and signatures, and the hash function of
the Merkle tree, are libraries: they are ideal here.
A block of cells whose width or height would be negative is a panic of
`verify_multi_proof` here, as in a debug build; a release build wraps the difference.
