------------------------- MODULE MCExtrinsicJourney -------------------------
(* Small instances of ExtrinsicJourney: two accounts, one of them also known *)
(* by an index, two chains, two applications.                                *)
EXTENDS ExtrinsicJourney

MCAccounts == 1 :> 1 @@ 2 :> 2 @@ 17 :> 2
MCAdditional == [era \in {0, 1} |-> Chain + era]

Tx(from, chain, era, app, call) ==
  [from |-> from, chain |-> chain, era |-> era, app |-> app, call |-> call]

\* Unsigned ones; calls up to two bytes; a foreign chain and an unknown era.
MCTxs ==
  {Tx(0, Chain, 0, 0, << 6 >>), Tx(1, Chain, 0, 1, << >>), Tx(1, Chain, 1, 1, << 7, 8 >>),
   Tx(17, Chain, 0, 2, << 7 >>), Tx(17, Chain, 0, 1, << 7, 9, 9 >>), Tx(1, Chain + 10, 0, 1, << 7 >>),
   Tx(2, Chain, 2, 1, << 7 >>)}

\* One byte lost or one too many at the end, or any byte changed by one.
MCDamage(bytes) ==
  {SubSeq(bytes, 1, Len(bytes) - 1), Append(bytes, 0)} \cup
  {[bytes EXCEPT ![k] = (@ + step) % 256] : k \in DOMAIN bytes, step \in {1, 255}}

===============================================================================
