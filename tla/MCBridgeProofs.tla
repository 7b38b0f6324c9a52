---------------------------- MODULE MCBridgeProofs ----------------------------
(* Small instances of BridgeProofs: a blob, a token transfer, and a message   *)
(* whose bytes read like the data of that transfer.                           *)
EXTENDS BridgeProofs

Blob(bytes) ==
  [trie |-> "DataSubmit", blob |-> bytes,
   message |-> AddressedMessage(ArbitraryMessage(<< >>), 0, 0, 0, 0, 0)]
Bridged(message) ==
  [trie |-> "Bridge", blob |-> << >>, message |-> AddressedMessage(message, 1, 2, 1, 2, 0)]

MCTxs == {Blob(<< Number(7) >>), Bridged(FungibleToken(3, 5)), Bridged(ArbitraryMessage(<< Number(3), Number(5) >>))}

\* With and without data of the application 0 in front.
MCLookups == {<< Entry(0, 0, 1), Entry(1, 1, 2) >>, << Entry(1, 0, 2) >>}

\* One field changed; a number one off, and one beyond u32.
MCDamageHeader(wire) ==
  {[wire EXCEPT !.number = @ + 1], [wire EXCEPT !.number = @ + U32Max + 1],
   [wire EXCEPT !.parent_hash = DefaultHash],
   [wire EXCEPT !.extension.cols = @ + 2],
   [wire EXCEPT !.extension.data_root = DefaultHash],
   [wire EXCEPT !.extension.app_lookup = CompactError],
   [wire EXCEPT !.extension.app_lookup.size = @ + 1]}

Twin(message) ==
  IF message.type = "ArbitraryMessage" THEN FungibleToken(3, 5)
  ELSE ArbitraryMessage(<< Number(3), Number(5) >>)

MCDamageProof(response, roots) ==
  {[response EXCEPT !.data_proof.leaf_index = @ + 1],
   [response EXCEPT !.data_proof.proof = Append(@, DefaultHash)],
   [response EXCEPT !.data_proof.roots.bridge_root = roots.bridge_root],
   [response EXCEPT !.data_proof.roots.blob_root = roots.blob_root],
   [response EXCEPT !.trie = IF @ = "Bridge" THEN "DataSubmit" ELSE "Bridge"],
   [response EXCEPT !.blob = << Number(9) >>],
   [response EXCEPT !.message.message = Twin(@)],
   [response EXCEPT !.message.to = @ + 1],
   [response EXCEPT !.message.id = @ + 1]}

===============================================================================
