--------------------------- MODULE ExtrinsicJourney ---------------------------
(***************************************************************************)
(* An extrinsic from its signer to a light client.  The signer signs and   *)
(* encodes it, the wire may damage it, a node decodes it by one of four    *)
(* routes, checks it and takes it into a block under its application; the  *)
(* data of an application is cut into cells, from which a light client     *)
(* reads it back through SparseSliceRead.                                  *)
(***************************************************************************)
EXTENDS AppUncheckedExtrinsic, SparseSliceRead, BlockChunks

CONSTANTS
  Txs,          \* what signers may want: [from, chain, era, app, call]
  Chain,        \* the chain of the node
  AppComponent, \* which component of the extra knows the application
  Damage(_),    \* what may arrive instead of some bytes
  MaxSubmits    \* how many submissions there are

\* MultiAddress::Id names an account; a payload is bound to the node's chain;
\* the runtime has its application where GetAppId looks for it.
ASSUME JourneyAssumption ==
  /\ MaxSubmits \in Nat /\ Chain \in Nat
  /\ AppComponent = IF Arity = 8 THEN 8 ELSE 9
  /\ \A address \in DOMAIN Accounts : IsId(address) => Accounts[address] = address
  /\ \A era \in DOMAIN Additional : Additional[era] = Chain + era

Routes == {"slice", "reader", "json", "opaque"}

VARIABLES
  issued,   \* the signatures that exist: seq of [by, payload]
  wanted,   \* the txs signers ever submitted
  pool,     \* the submission under way: [number, phase, tx, sent,
            \* arrived, route, xt]
  block,    \* the extrinsics taken: seq of [account, xt, ext]
  client    \* the light client: [phase, app, left, items, need]

vars == << issued, wanted, pool, block, client, parts, asked, buf >>
nodeVars == << issued, wanted, pool, block >>

NoXt == NewUnsigned(<< >>)
FreePool == [number |-> 0, phase |-> "free", tx |-> [from |-> 0], sent |-> << >>, arrived |-> << >>,
             route |-> "slice", xt |-> NoXt]
NoClient == [phase |-> "none", app |-> 0, left |-> 0, items |-> << >>, need |-> 0]

Init ==
  /\ issued = << >> /\ wanted = {}
  /\ pool = FreePool /\ block = << >>
  /\ client = NoClient /\ ReaderInit

-------------------------------------------------------------------------------
\* Signers.

ExtraOf(tx) ==
  [k \in 1 .. Arity |-> IF k = 1 THEN tx.era ELSE IF k = AppComponent THEN tx.app ELSE 0]

\* A signer knows its own chain and no other.
PayloadFor(tx) == Signable(FromRaw(tx.call, ExtraOf(tx), tx.chain + tx.era))

\* The extrinsic a signer makes with the k-th signature.
Signed(tx, k) == NewSigned(tx.call, tx.from, SignatureByte(k), ExtraOf(tx))
Xt(tx, k) == IF tx.from = 0 THEN NewUnsigned(tx.call) ELSE Signed(tx, k)

ASSUME SignersAssumption ==
  \A tx \in Txs :
    /\ tx \in [from : Nat, chain : Nat, era : Nat, app : Nat, call : Seq(Nat)]
    /\ tx.from = 0 => tx.app = 0
    /\ tx.from # 0 => tx.from \in DOMAIN Accounts
    /\ \A k \in 1 .. MaxSubmits : Damage(EncodeExtrinsic(Xt(tx, k))) \subseteq Seq(0 .. 255)

Submit(tx, route) ==
  /\ client = NoClient /\ pool.number < MaxSubmits
  /\ pool.phase \in {"free", "included", "refused"}
  /\ wanted' = wanted \cup {tx}
  /\ IF tx.from = 0
       THEN UNCHANGED issued
       ELSE issued' = Append(issued, [by |-> Accounts[tx.from], payload |-> PayloadFor(tx)])
  /\ LET xt == Xt(tx, Len(issued) + 1)
         sent == IF route = "json" THEN Serialize(xt) ELSE EncodeExtrinsic(xt)
     IN  \E arrived \in {sent} \cup Damage(sent) :
           pool' = [number |-> pool.number + 1, phase |-> "sent", tx |-> tx, sent |-> sent, arrived |-> arrived,
                    route |-> route, xt |-> xt]
  /\ UNCHANGED << block, client, parts, asked, buf >>

-------------------------------------------------------------------------------
\* The node.

Received(route, bytes) ==
  CASE route = "slice"  -> DecodeExtrinsic(bytes, TRUE)
    [] route = "reader" -> DecodeExtrinsic(bytes, FALSE)
    [] route = "json"   -> Deserialize(bytes)
    [] route = "opaque" -> DecodeThroughOpaque(bytes)

Decode ==
  /\ pool.phase = "sent"
  /\ LET decoded == Received(pool.route, pool.arrived)
     IN  pool' = IF decoded.ok THEN [pool EXCEPT !.phase = "decoded", !.xt = decoded.xt]
                 ELSE [pool EXCEPT !.phase = "refused"]
  /\ UNCHANGED << issued, wanted, block, client, parts, asked, buf >>

CheckAndInclude ==
  /\ pool.phase = "decoded"
  /\ LET checked == Check(pool.xt, issued)
     IN  IF checked.ok
           THEN /\ pool' = [pool EXCEPT !.phase = "included"]
                /\ block' = Append(block, [account |-> checked.account, xt |-> pool.xt,
                                           ext |-> AppExtrinsic(pool.xt)])
           ELSE pool' = [pool EXCEPT !.phase = "refused"] /\ UNCHANGED block
  /\ UNCHANGED << issued, wanted, client, parts, asked, buf >>

-------------------------------------------------------------------------------
\* The light client.

DataOf(app) ==
  FlattenSeq([k \in DOMAIN block |->
    IF block[k].ext.app_id = app THEN << block[k].ext.data >> ELSE << >>])

\* An encoding in cells: pieces of DATA_CHUNK_SIZE bytes, each followed by the
\* zero bytes that make it a scalar, and the last one filled up.
CellsOf(bytes) ==
  LET pieces == Pieces(bytes, DATA_CHUNK_SIZE)
  IN  [k \in DOMAIN pieces |-> PadWithZeroes(pieces[k], SCALAR_SIZE)]

\* The slices of the cells that hold data.
ExtractEncodedExtrinsic(cells) ==
  [k \in DOMAIN cells |-> SubSeq(cells[k], 1, DATA_CHUNK_SIZE)]

Open(app) ==
  /\ client = NoClient /\ pool.phase \in {"free", "included", "refused"}
  /\ DataOf(app) # << >>
  /\ client' = [phase |-> "count", app |-> app, left |-> 0, items |-> << >>, need |-> 1]
  /\ FromIter(ExtractEncodedExtrinsic(CellsOf(Encode(DataOf(app)))))
  /\ UNCHANGED nodeVars

\* IoReader::read is read_exact: it asks for what is needed ...
ClientAsk ==
  /\ client.need > 0 /\ Read(client.need)
  /\ client' = [client EXCEPT !.need = 0]
  /\ UNCHANGED nodeVars

\* ... and Vec<Vec<u8>>::decode goes on with what it gets.
ClientNext(bytes, wish) ==
  LET toRead(left, items) ==
        IF left = 0 THEN [client EXCEPT !.phase = "done", !.items = items, !.left = 0]
        ELSE [client EXCEPT !.phase = "length", !.items = items, !.left = left, !.need = 1]
  IN  CASE Len(bytes) < wish        -> [client EXCEPT !.phase = "failed"]
        [] client.phase = "count"   -> toRead(bytes[1], << >>)
        [] client.phase = "length" /\ bytes[1] > 0 ->
             [client EXCEPT !.phase = "bytes", !.need = bytes[1]]
        [] client.phase = "length" /\ bytes[1] = 0 ->
             toRead(client.left - 1, Append(client.items, << >>))
        [] client.phase = "bytes"   -> toRead(client.left - 1, Append(client.items, bytes))

ClientStep ==
  \/ CopyPart /\ UNCHANGED client
  \/ Return /\ client' = ClientNext(buf, asked)

Client == ClientAsk \/ (ClientStep /\ UNCHANGED nodeVars)

-------------------------------------------------------------------------------
Next ==
  \/ \E tx \in Txs, route \in Routes : Submit(tx, route)
  \/ Decode \/ CheckAndInclude
  \/ \E app \in {tx.app : tx \in Txs} : Open(app)
  \/ Client

\* The loop of a read runs in one thread, which is scheduled.
Spec == Init /\ [][Next]_vars /\ WF_vars(Client)

-------------------------------------------------------------------------------
\* Whatever the wire did, and whatever was signed for other chains: a signed
\* extrinsic in a block is one its account wanted on this chain, with this
\* function and this extra, and its caller, if it names one, is that account
\* (SignedPayload, check).
SignersMeantIt ==
  \A k \in DOMAIN block :
    block[k].xt.signature # Unsigned =>
      /\ \E tx \in wanted :
           /\ tx.from # 0 /\ tx.chain = Chain
           /\ block[k].account = Accounts[tx.from]
           /\ block[k].xt.function = tx.call
           /\ block[k].xt.signature[1].extra = ExtraOf(tx)
           /\ block[k].ext.app_id = tx.app
      /\ Caller(block[k].xt) \in {0, block[k].account}

\* A submission that arrives as it was sent, from a known address and for this
\* chain and an era it knows, is included by every route (encode and the four
\* ways of decoding it are inverse to each other).
HonestIsIncluded ==
  (pool.phase = "refused" /\ pool.arrived = pool.sent) =>
     \/ pool.tx.chain # Chain
     \/ pool.tx.era \notin DOMAIN Additional

\* Where the input knows its length, what is decoded is exactly what its
\* encoding says: encoding it again gives the bytes that were read, the length
\* prefix among them; without that knowledge all but the prefix agrees.
DecodedIsCanonical ==
  pool.phase \in {"decoded", "included"} =>
    LET again == EncodeExtrinsic(pool.xt)
    IN  /\ pool.route \in {"slice", "json"} => IsPrefix(again, pool.arrived)
        /\ IsPrefix(Tail(again), Tail(pool.arrived))

\* A light client reads from the cells of an application the extrinsics the
\* block has for it, in order; each decodes, passes the check of the node and
\* belongs to that application.
ClientReadsTheBlock ==
  /\ client.phase # "failed"
  /\ client.phase = "done" =>
       /\ client.items = DataOf(client.app)
       /\ \A k \in DOMAIN client.items :
            LET decoded == DecodeExtrinsic(client.items[k], TRUE)
            IN  /\ decoded.ok
                /\ AppIdOf(decoded.xt) = client.app
                /\ Check(decoded.xt, issued).ok

\* The reader of slices is a stream of bytes: every read is answered, and gets
\* the next bytes in order, however they lie in the slices.
Stream == INSTANCE ByteStream WITH
  rest  <- (IF asked = Idle THEN << >> ELSE buf) \o FlattenSeq(parts),
  asked <- asked,
  reply <- IF asked = Idle THEN buf ELSE << >>

KeepsStream == Stream!Spec

===============================================================================
