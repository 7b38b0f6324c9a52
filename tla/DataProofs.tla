------------------------------ MODULE DataProofs ------------------------------
(***************************************************************************)
(* What a block proves about the data in it: messages that are bridged to  *)
(* other chains (core/src/data_proof/message.rs), the roots of the two     *)
(* tries of a block and the proof of one of their leaves                   *)
(* (core/src/data_proof.rs).  The trie itself is the library               *)
(* binary_merkle_tree, modelled from the proofs it exchanges.              *)
(***************************************************************************)
EXTENDS BlockHeader

CONSTANT U32Size   \* 2^32

ASSUME U32SizeAssumption == U32Size \in Nat \ {0}

-------------------------------------------------------------------------------
\* Identifiers of transactions: two u32, side by side.

\* Mutant: shifted by a bit less.
TxUid_ShortShift(block, txIndex) == block * (U32Size \div 2) + txIndex

TxUid(block, txIndex) == block * U32Size + txIndex

TxUidDeconstruct(uid) == << uid \div U32Size, uid % U32Size >>

-------------------------------------------------------------------------------
\* Messages.

ArbitraryMessage(data) == [type |-> "ArbitraryMessage", data |-> data, asset_id |-> 0, amount |-> 0]
FungibleToken(asset, amount) ==
  [type |-> "FungibleToken", data |-> << >>, asset_id |-> asset, amount |-> amount]

AddressedMessage(message, from, to, origin, destination, id) ==
  [message |-> message, from |-> from, to |-> to, origin_domain |-> origin,
   destination_domain |-> destination, id |-> id]

\* The fields of a message, by their types.
IsMessage(message) ==
  \/ message = ArbitraryMessage(message.data) /\ IsSequence(message.data)
  \/ message = FungibleToken(message.asset_id, message.amount)

IsAddressed(m) ==
  m = AddressedMessage(m.message, m.from, m.to, m.origin_domain, m.destination_domain, m.id)
    /\ IsMessage(m.message)

Selector(message) == IF message.type = "ArbitraryMessage" THEN 1 ELSE 2

AbiData(message) ==
  IF message.type = "ArbitraryMessage" THEN message.data
  ELSE << Number(message.asset_id), Number(message.amount) >>

AbiAddresses(m) ==
  << Number(m.from), Number(m.to), Number(m.origin_domain), Number(m.destination_domain) >>

\* Mutant: the encoding does not tell the types apart.
AbiEncode_NoSelector(m) ==
  AbiAddresses(m) \o (EncodeVector(AbiData(m.message)) \o << Number(m.id) >>)

AbiEncode(m) ==
  (<< Number(Selector(m.message)) >> \o AbiAddresses(m))
    \o (EncodeVector(AbiData(m.message)) \o << Number(m.id) >>)

-------------------------------------------------------------------------------
\* binary_merkle_tree: neighbours are hashed together, and an odd last one
\* goes up alone.

NextLayer(layer) ==
  [k \in 1 .. (Len(layer) + 1) \div 2 |->
     IF 2 * k > Len(layer) THEN layer[2 * k - 1] ELSE Keccak(layer[2 * k - 1] \o layer[2 * k])]

Layers(leaves) ==
  LET layer[n \in 0 .. Len(leaves)] ==
        IF n = 0 THEN [k \in DOMAIN leaves |-> Keccak(leaves[k])] ELSE NextLayer(layer[n - 1])
  IN  layer

MerkleRoot(leaves) == IF leaves = << >> THEN DefaultHash ELSE Layers(leaves)[Len(leaves)][1]

\* The way up from a leaf: where it is in each layer, and the siblings so far.
Siblings(leaves, index) ==
  LET layers == Layers(leaves)
      sibling(at) == IF at % 2 = 1 THEN at - 1 ELSE at + 1
      up[n \in 0 .. Len(leaves)] ==
        IF n = 0 THEN [at |-> index, items |-> << >>]
        ELSE LET below == up[n - 1]
             IN  [at |-> below.at \div 2,
                  items |-> IF sibling(below.at) >= Len(layers[n - 1]) THEN below.items
                            ELSE Append(below.items, layers[n - 1][sibling(below.at) + 1])]
  IN  up

MerkleProof(leaves, index) ==
  [root |-> MerkleRoot(leaves), proof |-> Siblings(leaves, index)[Len(leaves)].items,
   number_of_leaves |-> Len(leaves), leaf_index |-> index, leaf |-> leaves[index + 1]]

Climb(m) ==
  LET up[n \in 0 .. Len(m.proof)] ==
        IF n = 0
          THEN [hash |-> Keccak(m.leaf), at |-> m.leaf_index, width |-> m.number_of_leaves]
          ELSE LET below == up[n - 1]
                   isRight == below.at % 2 = 1 \/ below.at + 1 = below.width
               IN  [hash |-> IF isRight THEN Keccak(m.proof[n] \o below.hash)
                             ELSE Keccak(below.hash \o m.proof[n]),
                    at |-> below.at \div 2, width |-> (below.width + 1) \div 2]
  IN  up

VerifyProof(m) ==
  m.leaf_index < m.number_of_leaves /\ Climb(m)[Len(m.proof)].hash = m.root

-------------------------------------------------------------------------------
\* TxDataRoots::new and DataProof.

\* Mutant: the root of the submitted data is left out.
TxDataRoots_BridgeOnly(submitted, bridged) ==
  [data_root |-> Keccak(bridged), blob_root |-> submitted, bridge_root |-> bridged]

TxDataRoots(submitted, bridged) ==
  [data_root |-> Keccak(submitted \o bridged), blob_root |-> submitted, bridge_root |-> bridged]

\* Mutant: the leaf is hashed for either trie.
DataProof_AlwaysHashed(subTrie, roots, m) ==
  [roots |-> roots, leaf |-> Keccak(m.leaf), proof |-> m.proof,
   number_of_leaves |-> m.number_of_leaves, leaf_index |-> m.leaf_index]

DataProof(subTrie, roots, m) ==
  [roots |-> roots,
   leaf |-> IF subTrie = "DataSubmit" THEN m.leaf ELSE Keccak(m.leaf),
   proof |-> m.proof, number_of_leaves |-> m.number_of_leaves, leaf_index |-> m.leaf_index]

\* The fields of a proof that travels, by their types.
IsDataProof(p) ==
  /\ \A hash \in {p.roots.blob_root, p.roots.bridge_root, p.leaf} : IsHash(hash)
  /\ IsSequence(p.proof) /\ \A k \in DOMAIN p.proof : IsHash(p.proof[k])
  /\ p.leaf_index \in Nat /\ p.number_of_leaves \in Nat

AsSubMerkleProof(dataProof, subTrie, leaf) ==
  [root |-> IF subTrie = "DataSubmit" THEN dataProof.roots.blob_root ELSE dataProof.roots.bridge_root,
   proof |-> dataProof.proof, leaf |-> leaf,
   number_of_leaves |-> dataProof.number_of_leaves, leaf_index |-> dataProof.leaf_index]

===============================================================================
