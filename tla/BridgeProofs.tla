----------------------------- MODULE BridgeProofs -----------------------------
(***************************************************************************)
(* Blocks and a client of another chain that trusts nothing but the hash   *)
(* of the newest of them.  The client walks back over the parent hashes to *)
(* the genesis, and executes the messages it is shown a proof of.  Answers *)
(* come from any node, late, twice, for another block, or damaged.         *)
(***************************************************************************)
EXTENDS DataProofs, SequencesExt

CONSTANTS
  Txs,                \* transactions: [trie, blob, message], without identifier
  Lookups,            \* data lookups of the grids that can be built
  DamageHeader(_),    \* what may arrive instead of a header
  DamageProof(_, _),  \* and instead of a response, mixed with another one
  MaxBlocks,
  MaxTxs              \* transactions in all blocks

ASSUME BridgeAssumption == MaxBlocks \in 1 .. U32Max /\ MaxTxs \in 0 .. (U32Size - 1)

\* A transaction is of one of the two kinds, and has no identifier yet.
ASSUME TxsAssumption ==
  \A tx \in Txs :
    /\ tx = [trie |-> tx.trie, blob |-> tx.blob, message |-> tx.message]
    /\ tx.trie \in {"DataSubmit", "Bridge"} /\ IsSequence(tx.blob)
    /\ IsAddressed(tx.message) /\ tx.message.id = 0

\* A grid has chunks, fewer than the marker of old errors; in its lookup the
\* application 0 can only be first, and the ranges start below the end.
ASSUME LookupsAssumption ==
  \A lookup \in Lookups :
    /\ IsSequence(lookup) /\ lookup # << >> /\ LookupLen(lookup) \in 1 .. (U32Max - 1)
    /\ \A k \in DOMAIN lookup :
         /\ lookup[k].id \in Nat /\ lookup[k].start \in 0 .. (LookupLen(lookup) - 1)
         /\ lookup[k].id = 0 => k = 1

VARIABLES
  chain,      \* the blocks: [mode, block, roots, responses], with the mode of
              \* the extension, and what nodes answer for each transaction
  pending,    \* the transactions of the block under construction
  sent,       \* the messages included so far, in order
  cursor,     \* BlockId of the header the client needs next
  held,       \* the headers it holds: number -> header
  executed,   \* the messages it executed, in order
  proven,     \* the blobs it was convinced of: [block, blob]
  refused     \* whether it refused an answer it had asked for,
              \* although it arrived as it was sent

vars == << chain, pending, sent, cursor, held, executed, proven, refused >>
clientVars == << cursor, held, executed, proven, refused >>

Init ==
  /\ chain = << >> /\ pending = << >> /\ sent = << >>
  /\ cursor = PreGenesis /\ held = << >>
  /\ executed = << >> /\ proven = {} /\ refused = FALSE

-------------------------------------------------------------------------------
\* The author.

TxsSoFar == Len(pending) + Len(FlattenSeq([k \in DOMAIN chain |-> chain[k].block.extrinsics]))

\* The next transaction of a block, and its message, are named by their place.
Included(tx, number, index) == [tx EXCEPT !.message.id = TxUid(number, index)]

Include(tx) ==
  /\ Len(chain) < MaxBlocks /\ TxsSoFar < MaxTxs
  /\ LET included == Included(tx, Len(chain) + 1, Len(pending))
     IN  /\ pending' = Append(pending, included)
         /\ sent' = IF tx.trie = "Bridge" THEN Append(sent, included.message) ELSE sent
  /\ UNCHANGED << chain, cursor, held, executed, proven, refused >>

LeafOf(tx) == IF tx.trie = "DataSubmit" THEN Keccak(tx.blob) ELSE AbiEncode(tx.message)

OfTrie(txs, trie) == {i \in DOMAIN txs : txs[i].trie = trie}
InTrie(txs, trie) == Filtered(txs, OfTrie(txs, trie))
Leaves(txs, trie) == [k \in DOMAIN InTrie(txs, trie) |-> LeafOf(InTrie(txs, trie)[k])]

RootsOf(txs) ==
  TxDataRoots(MerkleRoot(Leaves(txs, "DataSubmit")), MerkleRoot(Leaves(txs, "Bridge")))

\* Building the grid may fail; without data there is nothing to build.
ExtensionOf(txs, mode, lookup) ==
  LET root == RootsOf(txs).data_root
  IN  CASE mode = "built"  -> Extension(lookup, 1, 4, root, << Number(Len(txs)) >>)
        [] mode = "empty"  -> GetEmptyHeader(root)
        [] mode = "faulty" -> GetFaultyHeader(root)

\* ProofResponse for the i-th transaction.
ResponseFor(txs, i) ==
  LET trie == txs[i].trie
      index == Len(FilteredUpTo(txs, OfTrie(txs, trie))[i - 1])
  IN  [data_proof |-> DataProof(trie, RootsOf(txs), MerkleProof(Leaves(txs, trie), index)),
       trie |-> trie, blob |-> txs[i].blob, message |-> txs[i].message]

Sealed(number, parent, txs, mode, lookup) ==
  LET bare == NewHeader(number, Hash("extrinsics", << Number(number) >>),
                        Hash("state", << Number(number) >>), parent, << Number(1) >>)
      header == SetExtension(bare, ExtensionOf(txs, mode, lookup))
  IN  [mode |-> mode, block |-> NewBlock(header, txs), roots |-> RootsOf(txs),
       responses |-> [i \in DOMAIN txs |-> ResponseFor(txs, i)]]

ParentHash(number) == IF number = 1 THEN DefaultHash ELSE HashOf(chain[number - 1].block.header)

Seal(mode, lookup) ==
  /\ Len(chain) < MaxBlocks
  /\ mode # "faulty" => (mode = "empty" <=> InTrie(pending, "DataSubmit") = << >>)
  /\ LET number == Len(chain) + 1
     IN  chain' = Append(chain, Sealed(number, ParentHash(number), pending, mode, lookup))
  /\ pending' = << >>
  /\ UNCHANGED sent /\ UNCHANGED clientVars

-------------------------------------------------------------------------------
\* The client.

\* It learns the hash of the newest block.
Follow ==
  /\ chain # << >> /\ IsPreGenesis(cursor) /\ Len(chain) \notin DOMAIN held
  /\ cursor' = BlockIdHash(HashOf(chain[Len(chain)].block.header))
  /\ UNCHANGED << chain, pending, sent, held, executed, proven, refused >>

HeaderArrives(k, wire) ==
  /\ ~IsPreGenesis(cursor)
  /\ LET origin == chain[k].block.header
         read == FromWire(wire)
         accepted == read.ok /\ HashOf(read.header) = cursor.hash
         honest == wire = ToWire(origin) /\ HashOf(origin) = cursor.hash
     IN  /\ refused' = (refused \/ (honest /\ ~accepted))
         /\ IF accepted
              THEN /\ held' = [n \in DOMAIN held \cup {read.header.number} |->
                                 IF n = read.header.number THEN read.header ELSE held[n]]
                   /\ cursor' = BlockIdHash(read.header.parent_hash)
              ELSE UNCHANGED << held, cursor >>
  /\ UNCHANGED << chain, pending, sent, executed, proven >>

\* The fields of a response, by their types.
IsResponse(r) ==
  /\ r.trie \in {"DataSubmit", "Bridge"} /\ IsSequence(r.blob) /\ IsAddressed(r.message)
  /\ IsDataProof(r.data_proof)

\* The roots are those of the header, and the leaf is in its trie.
Convincing(header, response) ==
  LET proof == response.data_proof
      leaf == IF response.trie = "DataSubmit" THEN proof.leaf ELSE AbiEncode(response.message)
  IN  /\ header.extension.data_root
           = TxDataRoots(proof.roots.blob_root, proof.roots.bridge_root).data_root
      /\ proof.leaf = IF response.trie = "DataSubmit" THEN Keccak(response.blob) ELSE Keccak(leaf)
      /\ VerifyProof(AsSubMerkleProof(proof, response.trie, leaf))

ProofArrives(b, honest, response) ==
  /\ LET accepted == Convincing(held[b], response)
         isNew == \A k \in DOMAIN executed : AbiEncode(executed[k]) # AbiEncode(response.message)
     IN  /\ refused' = (refused \/ (honest /\ ~accepted))
         /\ executed' = IF accepted /\ response.trie = "Bridge" /\ isNew
                          THEN Append(executed, response.message) ELSE executed
         /\ proven' = IF accepted /\ response.trie = "DataSubmit"
                        THEN proven \cup {[block |-> b, blob |-> response.blob]} ELSE proven
  /\ UNCHANGED << chain, pending, sent, cursor, held >>

-------------------------------------------------------------------------------
Modes == {"built", "empty", "faulty"}

Next ==
  \/ \E tx \in Txs : Include(tx)
  \/ \E mode \in Modes, lookup \in Lookups : Seal(mode, lookup)
  \/ Follow
  \/ \E k \in DOMAIN chain :
       LET origin == ToWire(chain[k].block.header)
           damaged == {wire \in DamageHeader(origin) : IsHeader(wire)}
       IN  \E wire \in {origin} \cup damaged : HeaderArrives(k, wire)
  \/ \E b \in DOMAIN held, k \in DOMAIN chain :
       \E i \in DOMAIN chain[k].responses :
         LET origin == chain[k].responses[i]
         IN  \/ ProofArrives(b, b = k, origin)
             \/ \E response \in DamageProof(origin, chain[b].roots) :
                  IsResponse(response) /\ ProofArrives(b, FALSE, response)

Spec == Init /\ [][Next]_vars

-------------------------------------------------------------------------------
\* The client executes each message once for each time it was sent, and nothing
\* else: equal transfers stay apart by their identifiers, and no message passes
\* for another, of its type or of the other one (tx_uid, abi_encode, DataProof).
Content(m) == [m EXCEPT !.id = 0]
Contents(messages) == [k \in DOMAIN messages |-> Content(messages[k])]
ContentsSent == Contents(sent)
ContentsExecuted == Contents(executed)
Done == {k \in DOMAIN sent : \E j \in DOMAIN executed : AbiEncode(executed[j]) = AbiEncode(sent[k])}

Bridge == INSTANCE MessageBridge WITH
  Messages <- {tx.message : tx \in Txs},
  sent <- ContentsSent, done <- Done, executed <- ContentsExecuted

KeepsBridge == Bridge!Spec

\* A blob the client was convinced of is one of that block (TxDataRoots::new,
\* as_sub_merkle_proof).
ProvenWereSubmitted ==
  \A claim \in proven :
    \E i \in DOMAIN chain[claim.block].block.extrinsics :
      LET tx == chain[claim.block].block.extrinsics[i]
      IN  tx.trie = "DataSubmit" /\ tx.blob = claim.blob

\* An answer that was asked for and arrives as it was sent is accepted, a header
\* as well as a proof of any transaction, in a faulty block too.
HonestIsAccepted == ~refused

\* One trusted hash vouches for all ancestors: a header the client holds is that
\* of the block with its number, up to the entry the compact lookup adds for
\* the application 0 (hash, number_serde).
HeldHeaderIsGenuine ==
  \A n \in DOMAIN held : n \in DOMAIN chain /\ ToWire(held[n]) = ToWire(chain[n].block.header)

\* The client can tell a block whose grid could not be built from one without
\* data, and neither has a cell to sample (get_faulty_header, get_empty_header).
FaultyIsSeen ==
  \A n \in DOMAIN held :
    LET ext == held[n].extension
    IN  /\ IsError(ext.app_lookup) <=> chain[n].mode = "faulty"
        /\ ext.rows * ext.cols = 0 <=> chain[n].mode # "built"

\* The identifier of an executed message leads back to the transaction that
\* sent it (tx_uid_deconstruct).
IdsLeadBack ==
  \A k \in DOMAIN executed :
    LET at == TxUidDeconstruct(executed[k].id)
    IN  /\ at[1] \in DOMAIN chain
        /\ at[2] + 1 \in DOMAIN chain[at[1]].block.extrinsics
        /\ chain[at[1]].block.extrinsics[at[2] + 1].message = executed[k]

===============================================================================
