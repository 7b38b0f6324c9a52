------------------------ MODULE AppUncheckedExtrinsic ------------------------
(***************************************************************************)
(* Extrinsics: what is signed, the bytes they travel as, and how they are  *)
(* read back and checked (core/src/asdr.rs, app_extrinsic.rs,              *)
(* opaque_extrinsic.rs, traits/get_app_id.rs).  A byte is a natural        *)
(* number; an address, a signature and each component of the extra take    *)
(* one byte, a function is a vector of bytes, and no length needs more     *)
(* than the one byte SCALE gives to lengths below 64.  Hashes and          *)
(* signatures are ideal: they tell what was hashed or signed, and by whom. *)
(***************************************************************************)
EXTENDS Integers, Sequences

CONSTANTS
  Arity,       \* components of the tuple the extra is: 8, 9 or 10
  HashLimit,   \* longest payload that is signed unhashed, 256 in the code
  Accounts,    \* address -> account: what the runtime's Lookup resolves
  Additional   \* era -> what this chain adds to a payload of that era

ASSUME ExtrinsicAssumption ==
  /\ Arity \in 8 .. 10
  /\ HashLimit \in Nat

EXTRINSIC_FORMAT_VERSION == 4
SignedBit == 128

Unsigned == << >>

\* Addresses below 16 name an account directly (MultiAddress::Id).
IsId(address) == address < 16

EncodeVec(bytes) == << Len(bytes) >> \o bytes

-------------------------------------------------------------------------------
\* The application an extrinsic belongs to.

\* The tuples of 8, 9 and 10 know different components by that trait.
AppIdAt == IF Arity = 8 THEN 8 ELSE 9

NewSigned(function, signed, signature, extra) ==
  [signature |-> << [signed |-> signed, by |-> signature, extra |-> extra] >>,
   function |-> function]

NewUnsigned(function) == [signature |-> Unsigned, function |-> function]

\* Extrinsic::new
NewExtrinsic(function, data) ==
  IF data = Unsigned THEN NewUnsigned(function)
  ELSE NewSigned(function, data[1].signed, data[1].by, data[1].extra)

AppIdOf(xt) == IF xt.signature = Unsigned THEN 0 ELSE xt.signature[1].extra[AppIdAt]

\* MaybeCaller, 0 for None.
Caller(xt) ==
  IF xt.signature = Unsigned \/ ~IsId(xt.signature[1].signed)
    THEN 0 ELSE xt.signature[1].signed

-------------------------------------------------------------------------------
\* What is signed.

FromRaw(call, extra, additional) == EncodeVec(call) \o extra \o << additional >>

\* SignedPayload::using_encoded
Signable(payload) == [hashed |-> Len(payload) > HashLimit, bytes |-> payload]

\* additional_signed knows eras this chain has seen.
HasAdditional(extra) == extra[1] \in DOMAIN Additional

\* Mutant: what the chain adds is left out.
PayloadOf_NoChain(call, extra) == Signable(FromRaw(call, extra, 0))

PayloadOf(call, extra) == Signable(FromRaw(call, extra, Additional[extra[1]]))

-------------------------------------------------------------------------------
\* The bytes.

EncodeExtrinsic(xt) ==
  EncodeVec(
    (IF xt.signature = Unsigned THEN << EXTRINSIC_FORMAT_VERSION >>
     ELSE << EXTRINSIC_FORMAT_VERSION + SignedBit,
             xt.signature[1].signed, xt.signature[1].by >> \o xt.signature[1].extra)
    \o EncodeVec(xt.function))

Failed == [ok |-> FALSE]
Decoded(xt, rest) == [ok |-> TRUE, xt |-> xt, rest |-> rest]

DecodeNoVecPrefix(input) ==
  LET isSigned == Len(input) > 0 /\ input[1] >= SignedBit
      atCall == IF isSigned THEN 4 + Arity ELSE 2
      last == atCall + input[atCall]
      data == IF isSigned
                THEN << [signed |-> input[2], by |-> input[3], extra |-> SubSeq(input, 4, 3 + Arity)] >>
                ELSE Unsigned
  IN  IF \/ Len(input) = 0
         \/ input[1] % SignedBit # EXTRINSIC_FORMAT_VERSION
         \/ Len(input) < atCall
         \/ Len(input) < last
        THEN Failed
        ELSE Decoded(NewExtrinsic(SubSeq(input, atCall + 1, last), data),
                     SubSeq(input, last + 1, Len(input)))

\* Mutant: nobody looks at the length prefix.
DecodeExtrinsic_AnyPrefix(input, lengthKnown) ==
  IF Len(input) = 0 THEN Failed ELSE DecodeNoVecPrefix(Tail(input))

\* A slice knows its remaining length, an IoReader does not.
DecodeExtrinsic(input, lengthKnown) ==
  LET inner == IF Len(input) = 0 THEN Failed ELSE DecodeNoVecPrefix(Tail(input))
  IN  IF inner.ok /\ lengthKnown /\ Len(input) - 1 - Len(inner.rest) # Head(input)
        THEN Failed ELSE inner

\* serde: JSON carries the encoding.
Serialize(xt) == EncodeExtrinsic(xt)
Deserialize(bytes) == DecodeExtrinsic(bytes, TRUE)

-------------------------------------------------------------------------------
\* OpaqueExtrinsic: the bytes of the vector, whatever they mean.

OpaqueFromBytes(input) ==
  IF Len(input) = 0 THEN Failed
  ELSE IF Len(input) - 1 < Head(input) THEN Failed
  ELSE Decoded(SubSeq(input, 2, Head(input) + 1), SubSeq(input, Head(input) + 2, Len(input)))

TryFromOpaque(opaque) == DecodeNoVecPrefix(opaque)

DecodeThroughOpaque(input) ==
  LET opaque == OpaqueFromBytes(input)
  IN  IF opaque.ok THEN TryFromOpaque(opaque.xt) ELSE Failed

-------------------------------------------------------------------------------
\* Checking.  issued lists what was signed by whom; the k-th signature is the
\* byte 200 + k, and any other byte is nobody's signature.

SignatureByte(k) == 200 + k

Verify(issued, signature, payload, account) ==
  \E k \in DOMAIN issued :
    signature = SignatureByte(k) /\ issued[k] = [by |-> account, payload |-> payload]

\* Mutant: a signature counts whoever gave it.
Check_AnySigner(xt, issued) ==
  IF xt.signature = Unsigned THEN [ok |-> TRUE, account |-> 0]
  ELSE LET data == xt.signature[1]
       IN  IF /\ data.signed \in DOMAIN Accounts /\ HasAdditional(data.extra)
              /\ \E k \in DOMAIN issued : Verify(issued, data.by, PayloadOf(xt.function, data.extra), issued[k].by)
             THEN [ok |-> TRUE, account |-> Accounts[data.signed]]
             ELSE Failed

\* Checkable::check
Check(xt, issued) ==
  IF xt.signature = Unsigned THEN [ok |-> TRUE, account |-> 0]
  ELSE LET data == xt.signature[1]
       IN  IF /\ data.signed \in DOMAIN Accounts
              /\ HasAdditional(data.extra)
              /\ Verify(issued, data.by, PayloadOf(xt.function, data.extra), Accounts[data.signed])
             THEN [ok |-> TRUE, account |-> Accounts[data.signed]]
             ELSE Failed

\* From<&AppUncheckedExtrinsic> for AppExtrinsic
AppExtrinsic(xt) == [app_id |-> AppIdOf(xt), data |-> EncodeExtrinsic(xt)]

===============================================================================
