--------------------------- MODULE ExtrinsicProofs ---------------------------
(***************************************************************************)
(* Extrinsics, for every arity, every set of transactions and whatever     *)
(* damage the wire does.  Signers get what they signed: what is decoded is *)
(* an extrinsic whatever arrived, and the bytes that are signed name one   *)
(* call, one extra and one chain only.  Honest submissions are not         *)
(* refused: the routes of decoding are inverse to encoding.  What is       *)
(* decoded is what its encoding says.  A light client reads what the block *)
(* has for its application, and the reader below it is a stream of bytes.  *)
(***************************************************************************)
EXTENDS ExtrinsicJourney, ChunkLemmas

Extras == {extra \in Seq(Nat) : Len(extra) = Arity}

Unsigneds == {NewUnsigned(function) : function \in Seq(Nat)}
Signeds == {NewSigned(function, signed, by, extra) :
              function \in Seq(Nat), signed \in Nat, by \in Nat, extra \in Extras}
Xts == Unsigneds \cup Signeds

\* The bytes behind the length prefix.
Body(xt) ==
  (IF xt.signature = Unsigned THEN << EXTRINSIC_FORMAT_VERSION >>
   ELSE << EXTRINSIC_FORMAT_VERSION + SignedBit,
           xt.signature[1].signed, xt.signature[1].by >> \o xt.signature[1].extra)
  \o EncodeVec(xt.function)

-------------------------------------------------------------------------------
\* The bytes, one by one.

LEMMA Arities == Arity \in Nat /\ Arity >= 8 /\ AppComponent \in 2 .. Arity
<1> QED BY ExtrinsicAssumption, JourneyAssumption

\* Two sequences of bytes, one behind the other.
LEMMA Joined ==
  ASSUME NEW s \in Seq(Nat), NEW t \in Seq(Nat)
  PROVE  s \o t \in Seq(Nat) /\ Len(s \o t) = Len(s) + Len(t)
BY ConcatProperties

LEMMA Before ==
  ASSUME NEW s \in Seq(Nat), NEW t \in Seq(Nat), NEW k \in 1 .. Len(s)
  PROVE  (s \o t)[k] = s[k]
<1>1. k \in 1 .. (Len(s) + Len(t)) /\ k <= Len(s)
  OBVIOUS
<1> QED BY <1>1, ConcatProperties

LEMMA Behind ==
  ASSUME NEW s \in Seq(Nat), NEW t \in Seq(Nat), NEW m \in Nat, Len(s) = m, NEW k \in 1 .. Len(t)
  PROVE  (s \o t)[m + k] = t[k]
<1>1. m + k \in 1 .. (Len(s) + Len(t)) /\ ~(m + k <= Len(s)) /\ (m + k) - Len(s) = k
  OBVIOUS
<1> QED BY <1>1, ConcatProperties

LEMMA VecBytes ==
  ASSUME NEW v \in Seq(Nat)
  PROVE  /\ EncodeVec(v) \in Seq(Nat) /\ Len(v) \in Nat
         /\ Len(EncodeVec(v)) = 1 + Len(v)
         /\ EncodeVec(v)[1] = Len(v)
         /\ \A k \in 1 .. Len(v) : EncodeVec(v)[1 + k] = v[k]
<1>1. Len(v) \in Nat
  BY LenProperties
<1>2. << Len(v) >> \in Seq(Nat) /\ Len(<< Len(v) >>) = 1 /\ << Len(v) >>[1] = Len(v)
  BY <1>1
<1>3. /\ EncodeVec(v) \in Seq(Nat)
      /\ Len(EncodeVec(v)) = 1 + Len(v)
      /\ \A k \in 1 .. (1 + Len(v)) : EncodeVec(v)[k] = IF k <= 1 THEN << Len(v) >>[k] ELSE v[k - 1]
  BY <1>2, ConcatProperties DEF EncodeVec
<1>4. EncodeVec(v)[1] = Len(v)
  BY <1>1, <1>2, <1>3
<1>5. ASSUME NEW k \in 1 .. Len(v) PROVE EncodeVec(v)[1 + k] = v[k]
  <2>1. 1 + k \in 1 .. (1 + Len(v)) /\ ~(1 + k <= 1) /\ (1 + k) - 1 = k
    BY <1>1
  <2> QED BY <1>3, <2>1
<1> QED BY <1>1, <1>3, <1>4, <1>5

LEMMA VecParts ==
  ASSUME NEW v \in Seq(Nat)
  PROVE  Head(EncodeVec(v)) = Len(v) /\ Tail(EncodeVec(v)) = v
<1> DEFINE t == EncodeVec(v)
<1>1. /\ t \in Seq(Nat) /\ Len(v) \in Nat /\ Len(t) = 1 + Len(v) /\ t[1] = Len(v)
      /\ \A k \in 1 .. Len(v) : t[1 + k] = v[k]
  BY VecBytes
<1> HIDE DEF t
<1>2. t # << >> /\ Head(t) = Len(v)
  BY <1>1
<1>3. /\ Tail(t) \in Seq(Nat) /\ Len(Tail(t)) = Len(v)
      /\ \A k \in 1 .. Len(Tail(t)) : Tail(t)[k] = t[k + 1]
  BY <1>1, <1>2, HeadTailProperties
<1>4. ASSUME NEW k \in 1 .. Len(Tail(t)) PROVE Tail(t)[k] = v[k]
  <2>1. k + 1 = 1 + k /\ k \in 1 .. Len(v)
    BY <1>3
  <2> QED BY <1>1, <1>3, <2>1
<1>5. Tail(t) = v
  BY <1>3, <1>4, SeqEqual
<1> QED BY <1>2, <1>5 DEF t

\* t is the body of an unsigned extrinsic.
UnsignedAs(t, function) ==
  /\ t \in Seq(Nat) /\ Len(function) \in Nat
  /\ Len(t) = 2 + Len(function)
  /\ t[1] = 4 /\ t[2] = Len(function)
  /\ \A k \in 1 .. Len(function) : t[2 + k] = function[k]

\* t is the body of a signed one.
SignedAs(t, function, signed, by, extra) ==
  /\ t \in Seq(Nat) /\ Len(function) \in Nat
  /\ Len(t) = 4 + Arity + Len(function)
  /\ t[1] = 132 /\ t[2] = signed /\ t[3] = by
  /\ \A k \in 1 .. Arity : t[3 + k] = extra[k]
  /\ t[4 + Arity] = Len(function)
  /\ \A k \in 1 .. Len(function) : t[4 + Arity + k] = function[k]

LEMMA UnsignedBytes ==
  ASSUME NEW function \in Seq(Nat)
  PROVE  UnsignedAs(Body(NewUnsigned(function)), function)
<1> DEFINE vec == EncodeVec(function)
           body == << 4 >> \o vec
<1>1. Body(NewUnsigned(function)) = body
  BY DEF Body, NewUnsigned, Unsigned, EXTRINSIC_FORMAT_VERSION
<1>2. /\ vec \in Seq(Nat) /\ Len(function) \in Nat /\ Len(vec) = 1 + Len(function)
      /\ vec[1] = Len(function) /\ \A k \in 1 .. Len(function) : vec[1 + k] = function[k]
  BY VecBytes
<1>3. << 4 >> \in Seq(Nat) /\ Len(<< 4 >>) = 1 /\ << 4 >>[1] = 4
  OBVIOUS
<1> HIDE DEF vec
<1>4. /\ body \in Seq(Nat) /\ Len(body) = 1 + Len(vec)
      /\ \A k \in 1 .. (1 + Len(vec)) : body[k] = IF k <= 1 THEN << 4 >>[k] ELSE vec[k - 1]
  BY <1>2, <1>3, ConcatProperties
<1> HIDE DEF body
<1>5. body[1] = 4 /\ body[2] = Len(function)
  BY <1>2, <1>3, <1>4
<1>6. ASSUME NEW k \in 1 .. Len(function) PROVE body[2 + k] = function[k]
  <2>1. 2 + k \in 1 .. (1 + Len(vec)) /\ ~(2 + k <= 1) /\ (2 + k) - 1 = 1 + k
    BY <1>2
  <2> QED BY <1>2, <1>4, <2>1
<1> QED BY <1>1, <1>2, <1>4, <1>5, <1>6 DEF UnsignedAs

\* t is a, of n bytes, and behind it an extra and c.
Laid(t, a, n, extra, c) ==
  /\ t \in Seq(Nat)
  /\ Len(t) = n + Arity + Len(c)
  /\ \A k \in 1 .. n : t[k] = a[k]
  /\ \A k \in 1 .. Arity : t[n + k] = extra[k]
  /\ \A k \in 1 .. Len(c) : t[n + Arity + k] = c[k]

LEMMA AroundExtra ==
  ASSUME NEW a \in Seq(Nat), NEW extra \in Extras, NEW c \in Seq(Nat), NEW n \in Nat, Len(a) = n
  PROVE  Laid((a \o extra) \o c, a, n, extra, c)
<1> DEFINE s == a \o extra
           m == n + Arity
<1>1. extra \in Seq(Nat) /\ Len(extra) = Arity /\ Arity \in Nat
  BY Arities DEF Extras
<1>2. s \in Seq(Nat) /\ Len(s) = m /\ m \in Nat
  <2>1. a \o extra \in Seq(Nat) /\ Len(a \o extra) = Len(a) + Len(extra)
    BY <1>1, Joined, Zenon
  <2> QED BY <1>1, <2>1
<1>3. ASSUME NEW k \in 1 .. n PROVE s[k] = a[k]
  BY <1>1, Before
<1>4. ASSUME NEW k \in 1 .. Arity PROVE s[n + k] = extra[k]
  BY <1>1, Behind
<1>5. (\A k \in 1 .. n : k \in 1 .. m) /\ (\A k \in 1 .. Arity : n + k \in 1 .. m)
  BY <1>1
<1> HIDE DEF s, m
<1>6. s \o c \in Seq(Nat) /\ Len(s \o c) = m + Len(c)
  BY <1>2, Joined
<1>7. ASSUME NEW k \in 1 .. m PROVE (s \o c)[k] = s[k]
  BY <1>2, Before
<1>8. ASSUME NEW k \in 1 .. Len(c) PROVE (s \o c)[m + k] = c[k]
  BY <1>2, Behind
<1> DEFINE t == s \o c
<1>9. /\ t \in Seq(Nat) /\ Len(t) = m + Len(c)
      /\ \A k \in 1 .. m : t[k] = s[k]
      /\ \A k \in 1 .. Len(c) : t[m + k] = c[k]
  BY <1>6, <1>7, <1>8
<1> HIDE DEF t
<1>10. Laid(t, a, n, extra, c)
  BY <1>3, <1>4, <1>5, <1>9 DEF Laid, m
<1> QED BY <1>10 DEF t, s

LEMMA SignedBytes ==
  ASSUME NEW function \in Seq(Nat), NEW signed \in Nat, NEW by \in Nat, NEW extra \in Extras
  PROVE  SignedAs(Body(NewSigned(function, signed, by, extra)), function, signed, by, extra)
<1> DEFINE vec == EncodeVec(function)
           three == << 132, signed, by >>
           body == (three \o extra) \o vec
<1>1. Body(NewSigned(function, signed, by, extra)) = body
  <2>1. NewSigned(function, signed, by, extra).signature # Unsigned
    BY DEF NewSigned, Unsigned
  <2>2. EXTRINSIC_FORMAT_VERSION + SignedBit = 132
    BY DEF EXTRINSIC_FORMAT_VERSION, SignedBit
  <2> QED BY <2>1, <2>2 DEF Body, NewSigned
<1>2. /\ vec \in Seq(Nat) /\ Len(function) \in Nat /\ Len(vec) = 1 + Len(function)
      /\ vec[1] = Len(function) /\ \A k \in 1 .. Len(function) : vec[1 + k] = function[k]
  BY VecBytes
<1>3. /\ three \in Seq(Nat) /\ Len(three) = 3
      /\ three[1] = 132 /\ three[2] = signed /\ three[3] = by
  <2>1. \A a, b, c \in Nat : /\ << a, b, c >> \in Seq(Nat) /\ Len(<< a, b, c >>) = 3
                             /\ << a, b, c >>[1] = a /\ << a, b, c >>[2] = b /\ << a, b, c >>[3] = c
    OBVIOUS
  <2>2. 132 \in Nat
    OBVIOUS
  <2> QED BY <2>1, <2>2
<1> HIDE DEF vec, three
<1>4. PICK n \in Nat : n = 3
  OBVIOUS
<1>5. Len(three) = n
  BY <1>3, <1>4
<1>6. Laid(body, three, n, extra, vec)
  BY <1>2, <1>3, <1>5, AroundExtra, Zenon
<1> HIDE DEF body
<1>7. Len(body) = 4 + Arity + Len(function)
  BY <1>2, <1>4, <1>6, Arities DEF Laid
<1>8. body[1] = 132 /\ body[2] = signed /\ body[3] = by
  BY <1>3, <1>4, <1>6 DEF Laid
<1>9. \A k \in 1 .. Arity : body[3 + k] = extra[k]
  BY <1>4, <1>6 DEF Laid
<1>10. body[4 + Arity] = Len(function)
  <2>1. 1 \in 1 .. Len(vec) /\ n + Arity + 1 = 4 + Arity
    BY <1>2, <1>4, Arities
  <2> QED BY <1>2, <1>6, <2>1 DEF Laid
<1>11. ASSUME NEW k \in 1 .. Len(function) PROVE body[4 + Arity + k] = function[k]
  <2>1. 1 + k \in 1 .. Len(vec) /\ n + Arity + (1 + k) = 4 + Arity + k
    BY <1>2, <1>4, Arities
  <2>2. body[n + Arity + (1 + k)] = vec[1 + k]
    BY <1>6, <2>1 DEF Laid
  <2> QED BY <1>2, <2>1, <2>2
<1> QED BY <1>1, <1>2, <1>6, <1>7, <1>8, <1>9, <1>10, <1>11 DEF Laid, SignedAs

LEMMA Bytes ==
  ASSUME NEW xt \in Xts
  PROVE  /\ Body(xt) \in Seq(Nat) /\ Len(Body(xt)) \in Nat /\ Len(Body(xt)) >= 2
         /\ EncodeExtrinsic(xt) = EncodeVec(Body(xt))
         /\ EncodeExtrinsic(xt) \in Seq(Nat)
<1>1. Body(xt) \in Seq(Nat) /\ Len(Body(xt)) \in Nat /\ Len(Body(xt)) >= 2
  <2>1. CASE xt \in Unsigneds
    <3>1. PICK function \in Seq(Nat) : xt = NewUnsigned(function)
      BY <2>1 DEF Unsigneds
    <3> QED BY <3>1, UnsignedBytes DEF UnsignedAs
  <2>2. CASE xt \in Signeds
    <3>1. PICK function \in Seq(Nat), signed \in Nat, by \in Nat, extra \in Extras :
            xt = NewSigned(function, signed, by, extra)
      BY <2>2 DEF Signeds
    <3>2. Len(function) \in Nat /\ Len(Body(xt)) = 4 + Arity + Len(function) /\ Body(xt) \in Seq(Nat)
      BY <3>1, SignedBytes DEF SignedAs
    <3> QED BY <3>2, Arities
  <2> QED BY <2>1, <2>2 DEF Xts
<1>2. EncodeExtrinsic(xt) = EncodeVec(Body(xt))
  BY DEF EncodeExtrinsic, Body
<1> QED BY <1>1, <1>2, VecBytes

-------------------------------------------------------------------------------
\* What is signed tells the function, the extra and what the chain adds.

RawAt(t, call, extra, additional) ==
  /\ t[1] = Len(call)
  /\ \A k \in 1 .. Len(call) : t[1 + k] = call[k]
  /\ \A k \in 1 .. Arity : t[1 + Len(call) + k] = extra[k]
  /\ t[2 + Len(call) + Arity] = additional

LEMMA RawBytes ==
  ASSUME NEW call \in Seq(Nat), NEW extra \in Extras, NEW additional \in Nat
  PROVE  RawAt(FromRaw(call, extra, additional), call, extra, additional)
<1> DEFINE vec == EncodeVec(call)
           last == << additional >>
           t == (vec \o extra) \o last
           n == 1 + Len(call)
<1>1. /\ vec \in Seq(Nat) /\ Len(call) \in Nat /\ Len(vec) = 1 + Len(call)
      /\ vec[1] = Len(call) /\ \A k \in 1 .. Len(call) : vec[1 + k] = call[k]
  BY VecBytes
<1>2. last \in Seq(Nat) /\ Len(last) = 1 /\ last[1] = additional
  OBVIOUS
<1>3. FromRaw(call, extra, additional) = t
  BY DEF FromRaw
<1> HIDE DEF vec, last
<1>4. n \in Nat /\ Len(vec) = n /\ n = 1 + Len(call)
  BY <1>1
<1> HIDE DEF n
<1>5. Laid(t, vec, n, extra, last)
  BY <1>1, <1>2, <1>4, AroundExtra, Zenon
<1> HIDE DEF t
<1>6. t[1] = Len(call) /\ \A k \in 1 .. Len(call) : t[1 + k] = call[k]
  <2>1. 1 \in 1 .. n /\ \A k \in 1 .. Len(call) : 1 + k \in 1 .. n
    BY <1>1, <1>4
  <2>2. \A k \in 1 .. n : t[k] = vec[k]
    BY <1>5 DEF Laid
  <2> QED BY <1>1, <2>1, <2>2
<1>7. \A k \in 1 .. Arity : t[1 + Len(call) + k] = extra[k]
  <2>1. \A k \in 1 .. Arity : t[n + k] = extra[k]
    BY <1>5 DEF Laid
  <2> QED BY <1>4, <2>1
<1>8. t[2 + Len(call) + Arity] = additional
  <2>1. n + Arity + 1 = 2 + Len(call) + Arity /\ 1 \in 1 .. Len(last)
    BY <1>1, <1>2, <1>4, Arities
  <2>2. t[n + Arity + 1] = last[1]
    BY <1>5, <2>1 DEF Laid
  <2> QED BY <1>2, <2>1, <2>2
<1> QED BY <1>3, <1>6, <1>7, <1>8 DEF RawAt

LEMMA RawIsInjective ==
  ASSUME NEW c \in Seq(Nat), NEW e \in Extras, NEW x \in Nat,
         NEW d \in Seq(Nat), NEW f \in Extras, NEW y \in Nat,
         FromRaw(c, e, x) = FromRaw(d, f, y)
  PROVE  c = d /\ e = f /\ x = y
<1> DEFINE t == FromRaw(c, e, x)
<1>1. RawAt(t, c, e, x)
  BY RawBytes
<1>2. RawAt(t, d, f, y)
  BY RawBytes
<1>3. /\ e \in Seq(Nat) /\ Len(e) = Arity /\ f \in Seq(Nat) /\ Len(f) = Arity
  BY DEF Extras
<1> HIDE DEF t
<1>4. Len(c) = Len(d) /\ x = y
  BY <1>1, <1>2 DEF RawAt
<1>5. \A k \in 1 .. Len(c) : c[k] = d[k]
  BY <1>1, <1>2, <1>4 DEF RawAt
<1>6. \A k \in 1 .. Len(e) : e[k] = f[k]
  BY <1>1, <1>2, <1>3, <1>4 DEF RawAt
<1>7. c = d
  BY <1>4, <1>5, SeqEqual
<1>8. e = f
  BY <1>3, <1>6, SeqEqual
<1> QED BY <1>4, <1>7, <1>8

-------------------------------------------------------------------------------
\* Whatever bytes come, what is decoded is an extrinsic.

LEMMA Cut ==
  ASSUME NEW s \in Seq(Nat), NEW m \in Nat \ {0}, NEW n \in Nat, n <= Len(s)
  PROVE  /\ SubSeq(s, m, n) \in Seq(Nat)
         /\ Len(SubSeq(s, m, n)) = IF m <= n THEN n - m + 1 ELSE 0
         /\ \A k \in 1 .. (n - m + 1) : SubSeq(s, m, n)[k] = s[m + k - 1]
<1>1. m \in Int /\ n \in Int /\ \A k \in m .. n : s[k] \in Nat
  OBVIOUS
<1> QED BY <1>1, SubSeqProperties

LEMMA CutIsSeq ==
  ASSUME NEW s \in Seq(Nat), NEW m \in Nat \ {0}, NEW n \in Nat, n <= Len(s)
  PROVE  SubSeq(s, m, n) \in Seq(Nat)
BY Cut, Zenon

\* What the decoder does with the two forms.
LEMMA DecodeUnsigned ==
  ASSUME NEW t, NEW last, Len(t) # 0, ~(t[1] >= SignedBit),
         t[1] % SignedBit = EXTRINSIC_FORMAT_VERSION,
         last = 2 + t[2], ~(Len(t) < 2), ~(Len(t) < last)
  PROVE  DecodeNoVecPrefix(t)
           = Decoded(NewExtrinsic(SubSeq(t, 2 + 1, last), Unsigned), SubSeq(t, last + 1, Len(t)))
BY Zenon DEF DecodeNoVecPrefix

LEMMA DecodeSigned ==
  ASSUME NEW t, NEW at, NEW last, Len(t) > 0, Len(t) # 0, t[1] >= SignedBit,
         t[1] % SignedBit = EXTRINSIC_FORMAT_VERSION,
         at = 4 + Arity, last = at + t[at], ~(Len(t) < at), ~(Len(t) < last)
  PROVE  DecodeNoVecPrefix(t)
           = Decoded(NewExtrinsic(SubSeq(t, at + 1, last),
                       << [signed |-> t[2], by |-> t[3], extra |-> SubSeq(t, 4, 3 + Arity)] >>),
                     SubSeq(t, last + 1, Len(t)))
BY Zenon DEF DecodeNoVecPrefix

\* The input is decoded to an unsigned extrinsic with this function, and where
\* that lies.
UnsignedShape(input, function) ==
  /\ input[1] < 128 /\ input[1] % 128 = 4
  /\ input[2] = Len(function) /\ 2 + Len(function) <= Len(input)
  /\ \A k \in 1 .. Len(function) : input[2 + k] = function[k]
  /\ DecodeNoVecPrefix(input)
       = Decoded(NewUnsigned(function), SubSeq(input, (2 + Len(function)) + 1, Len(input)))

SignedShape(input, function, extra) ==
  /\ input[1] >= 128 /\ input[1] % 128 = 4
  /\ input[2] \in Nat /\ input[3] \in Nat
  /\ \A k \in 1 .. Arity : input[3 + k] = extra[k]
  /\ input[4 + Arity] = Len(function) /\ 4 + Arity + Len(function) <= Len(input)
  /\ \A k \in 1 .. Len(function) : input[4 + Arity + k] = function[k]
  /\ DecodeNoVecPrefix(input)
       = Decoded(NewSigned(function, input[2], input[3], extra),
                 SubSeq(input, (4 + Arity + Len(function)) + 1, Len(input)))

\* A piece of the input, by its place.
LEMMA Piece ==
  ASSUME NEW s \in Seq(Nat), NEW m \in Nat, NEW n \in Nat, m <= n, n <= Len(s)
  PROVE  /\ SubSeq(s, m + 1, n) \in Seq(Nat)
         /\ Len(SubSeq(s, m + 1, n)) = n - m
         /\ \A k \in 1 .. (n - m) : SubSeq(s, m + 1, n)[k] = s[m + k]
<1> DEFINE first == m + 1
           cut == SubSeq(s, first, n)
<1>1. /\ first \in Nat \ {0} /\ n - first + 1 = n - m
      /\ (IF first <= n THEN n - first + 1 ELSE 0) = n - m
  OBVIOUS
<1>2. \A k \in 1 .. (n - m) : first + k - 1 = m + k
  OBVIOUS
<1> HIDE DEF first
<1>3. /\ cut \in Seq(Nat)
      /\ Len(cut) = IF first <= n THEN n - first + 1 ELSE 0
      /\ \A k \in 1 .. (n - first + 1) : cut[k] = s[first + k - 1]
  BY <1>1, Cut, Zenon
<1> HIDE DEF cut
<1>4. Len(cut) = n - m
  BY <1>1, <1>3
<1>5. ASSUME NEW k \in 1 .. (n - m) PROVE cut[k] = s[m + k]
  BY <1>1, <1>2, <1>3
<1>6. /\ cut \in Seq(Nat) /\ Len(cut) = n - m
      /\ \A k \in 1 .. (n - m) : cut[k] = s[m + k]
  BY <1>3, <1>4, <1>5
<1> QED BY <1>6 DEF cut, first

LEMMA InnerShape ==
  ASSUME NEW input \in Seq(Nat), DecodeNoVecPrefix(input).ok
  PROVE  \/ \E function \in Seq(Nat) : UnsignedShape(input, function)
         \/ \E function \in Seq(Nat), extra \in Extras : SignedShape(input, function, extra)
<1> DEFINE isSigned == Len(input) > 0 /\ input[1] >= SignedBit
           atCall == IF isSigned THEN 4 + Arity ELSE 2
           last == atCall + input[atCall]
           function == SubSeq(input, atCall + 1, last)
           extra == SubSeq(input, 3 + 1, 3 + Arity)
<1>1. /\ ~(Len(input) = 0 \/ Len(input) < atCall \/ Len(input) < last)
      /\ input[1] % SignedBit = EXTRINSIC_FORMAT_VERSION
  <2>1. Failed.ok = FALSE
    BY DEF Failed
  <2> QED BY <2>1, Zenon DEF DecodeNoVecPrefix
<1>2. Len(input) \in Nat /\ Len(input) # 0 /\ atCall \in Nat /\ atCall >= 2 /\ input[1] \in Nat
  BY <1>1, Arities
<1>3. /\ input[atCall] \in Nat /\ last \in Nat /\ atCall <= last
      /\ ~(Len(input) < atCall) /\ ~(Len(input) < last) /\ last <= Len(input)
  <2> HIDE DEF atCall
  <2>1. input[atCall] \in Nat /\ last \in Nat /\ atCall <= last /\ ~(Len(input) < atCall)
    BY <1>1, <1>2
  <2> HIDE DEF last
  <2> QED BY <1>1, <1>2, <2>1
<1>4. /\ function \in Seq(Nat) /\ Len(function) = last - atCall
      /\ \A k \in 1 .. (last - atCall) : function[k] = input[atCall + k]
  <2> HIDE DEF atCall, last
  <2> QED BY <1>2, <1>3, Piece, Zenon
<1>5. last - atCall = input[atCall] /\ last = atCall + Len(function) /\ last = atCall + input[atCall]
  <2>1. last = atCall + input[atCall]
    OBVIOUS
  <2> HIDE DEF atCall, last, function
  <2> QED BY <1>2, <1>3, <1>4, <2>1
<1>6. 128 = SignedBit /\ 4 = EXTRINSIC_FORMAT_VERSION
  BY DEF SignedBit, EXTRINSIC_FORMAT_VERSION
<1>7. CASE isSigned
  <2>1. atCall = 4 + Arity /\ Arity \in Nat /\ input[1] >= SignedBit /\ Len(input) > 0
    BY <1>7, Arities
  <2> HIDE DEF isSigned, atCall, last, function
  <2>2. extra \in Seq(Nat) /\ Len(extra) = Arity /\ \A k \in 1 .. Arity : extra[k] = input[3 + k]
    <3> DEFINE end == 3 + Arity
    <3>1. 3 \in Nat /\ end \in Nat /\ 3 <= end /\ end <= Len(input) /\ end - 3 = Arity
      BY <1>2, <1>3, <2>1
    <3> HIDE DEF end
    <3> DEFINE piece == SubSeq(input, 3 + 1, end)
    <3>2. /\ piece \in Seq(Nat) /\ Len(piece) = end - 3
          /\ \A k \in 1 .. (end - 3) : piece[k] = input[3 + k]
      BY <3>1, Piece, Zenon
    <3> HIDE DEF piece
    <3>3. piece \in Seq(Nat) /\ Len(piece) = Arity /\ \A k \in 1 .. Arity : piece[k] = input[3 + k]
      BY <3>1, <3>2
    <3> QED BY <3>3 DEF piece, end
  <2>3. extra = SubSeq(input, 4, 3 + Arity)
    OBVIOUS
  <2> HIDE DEF extra
  <2> DEFINE data == << [signed |-> input[2], by |-> input[3], extra |-> extra] >>
  <2>4. DecodeNoVecPrefix(input)
          = Decoded(NewExtrinsic(SubSeq(input, atCall + 1, last), data), SubSeq(input, last + 1, Len(input)))
    <3>1. DecodeNoVecPrefix(input)
            = Decoded(NewExtrinsic(SubSeq(input, atCall + 1, last),
                        << [signed |-> input[2], by |-> input[3], extra |-> SubSeq(input, 4, 3 + Arity)] >>),
                      SubSeq(input, last + 1, Len(input)))
      BY <1>1, <1>2, <1>3, <1>5, <2>1, DecodeSigned, Zenon
    <3> QED BY <2>3, <3>1, Zenon
  <2>5. NewExtrinsic(function, data) = NewSigned(function, input[2], input[3], extra)
    BY DEF NewExtrinsic, Unsigned
  <2> HIDE DEF data
  <2>6. DecodeNoVecPrefix(input)
          = Decoded(NewSigned(function, input[2], input[3], extra), SubSeq(input, last + 1, Len(input)))
    BY <2>4, <2>5, Zenon DEF function
  <2>7. input[2] \in Nat /\ input[3] \in Nat
    BY <1>2, <1>3, <2>1
  <2>8. last = 4 + Arity + Len(function)
    BY <1>5, <2>1
  <2>9. \A k \in 1 .. Len(function) : input[4 + Arity + k] = function[k]
    BY <1>4, <2>1
  <2>10. input[4 + Arity] = Len(function) /\ 4 + Arity + Len(function) <= Len(input)
    BY <1>3, <1>4, <1>5, <2>1, <2>8
  <2>11. SignedShape(input, function, extra)
    <3>1. input[1] >= 128 /\ input[1] % 128 = 4
      BY <1>1, <1>6, <2>1
    <3> QED BY <2>2, <2>6, <2>7, <2>8, <2>9, <2>10, <3>1 DEF SignedShape
  <2>12. extra \in Extras
    BY <2>2 DEF Extras
  <2> QED BY <1>4, <2>11, <2>12, Zenon
<1>8. CASE ~isSigned
  <2>1. atCall = 2 /\ ~(input[1] >= SignedBit)
    BY <1>2, <1>8
  <2> HIDE DEF isSigned, atCall, last, function, extra
  <2>2. DecodeNoVecPrefix(input)
          = Decoded(NewExtrinsic(SubSeq(input, 2 + 1, last), Unsigned), SubSeq(input, last + 1, Len(input)))
    BY <1>1, <1>2, <1>3, <1>5, <2>1, DecodeUnsigned, Zenon
  <2>3. NewExtrinsic(function, Unsigned) = NewUnsigned(function) /\ function = SubSeq(input, 2 + 1, last)
    BY <2>1 DEF NewExtrinsic, function
  <2>4. DecodeNoVecPrefix(input) = Decoded(NewUnsigned(function), SubSeq(input, last + 1, Len(input)))
    BY <2>2, <2>3, Zenon
  <2>5. last = 2 + Len(function)
    BY <1>5, <2>1
  <2>6. \A k \in 1 .. Len(function) : input[2 + k] = function[k]
    BY <1>4, <2>1
  <2>7. input[2] = Len(function) /\ 2 + Len(function) <= Len(input)
    BY <1>3, <1>4, <1>5, <2>1
  <2>8. input[1] < 128 /\ input[1] % 128 = 4
    BY <1>1, <1>2, <1>6, <2>1
  <2>9. UnsignedShape(input, function)
    BY <2>4, <2>5, <2>6, <2>7, <2>8 DEF UnsignedShape
  <2> QED BY <1>4, <2>9, Zenon
<1> QED BY <1>7, <1>8

LEMMA InnerIsXt ==
  ASSUME NEW input \in Seq(Nat), DecodeNoVecPrefix(input).ok
  PROVE  DecodeNoVecPrefix(input).xt \in Xts
<1>1. CASE \E function \in Seq(Nat) : UnsignedShape(input, function)
  <2>1. PICK function \in Seq(Nat) : UnsignedShape(input, function)
    BY <1>1
  <2>2. DecodeNoVecPrefix(input).xt = NewUnsigned(function)
    BY <2>1 DEF UnsignedShape, Decoded
  <2> QED BY <2>2 DEF Xts, Unsigneds
<1>2. CASE \E function \in Seq(Nat), extra \in Extras : SignedShape(input, function, extra)
  <2>1. PICK function \in Seq(Nat), extra \in Extras : SignedShape(input, function, extra)
    BY <1>2
  <2>2. /\ DecodeNoVecPrefix(input).xt = NewSigned(function, input[2], input[3], extra)
        /\ input[2] \in Nat /\ input[3] \in Nat
    BY <2>1 DEF SignedShape, Decoded
  <2> QED BY <2>2 DEF Xts, Signeds
<1> QED BY <1>1, <1>2, InnerShape

LEMMA ExtrinsicIsXt ==
  ASSUME NEW input \in Seq(Nat), NEW known \in BOOLEAN, DecodeExtrinsic(input, known).ok
  PROVE  /\ input # << >> /\ Tail(input) \in Seq(Nat)
         /\ DecodeNoVecPrefix(Tail(input)).ok
         /\ DecodeExtrinsic(input, known) = DecodeNoVecPrefix(Tail(input))
         /\ DecodeExtrinsic(input, known).xt \in Xts
<1>1. Len(input) # 0 /\ input # << >>
  BY DEF DecodeExtrinsic, Failed
<1>2. Tail(input) \in Seq(Nat)
  BY <1>1, HeadTailProperties
<1>3. DecodeExtrinsic(input, known) = DecodeNoVecPrefix(Tail(input))
  BY <1>1 DEF DecodeExtrinsic, Failed
<1> QED BY <1>1, <1>2, <1>3, InnerIsXt

LEMMA ReceivedIsXt ==
  ASSUME NEW bytes \in Seq(Nat), NEW route \in Routes, Received(route, bytes).ok
  PROVE  Received(route, bytes).xt \in Xts
<1>1. CASE route = "slice"
  BY <1>1, ExtrinsicIsXt DEF Received
<1>2. CASE route = "reader"
  BY <1>2, ExtrinsicIsXt DEF Received
<1>3. CASE route = "json"
  BY <1>3, ExtrinsicIsXt DEF Received, Deserialize
<1>4. CASE route = "opaque"
  <2> DEFINE opaque == OpaqueFromBytes(bytes)
  <2>1. Received(route, bytes) = DecodeThroughOpaque(bytes)
    BY <1>4 DEF Received
  <2>2. opaque.ok /\ DecodeThroughOpaque(bytes) = DecodeNoVecPrefix(opaque.xt)
    BY <2>1 DEF DecodeThroughOpaque, Failed, TryFromOpaque
  <2>3. opaque.xt \in Seq(Nat)
    <3>1. Len(bytes) \in Nat /\ Len(bytes) # 0 /\ Len(bytes) - 1 >= Head(bytes)
          /\ opaque.xt = SubSeq(bytes, 2, Head(bytes) + 1)
      BY <2>2 DEF OpaqueFromBytes, Failed, Decoded
    <3>2. Head(bytes) \in Nat
      BY <3>1
    <3> HIDE DEF opaque
    <3> DEFINE last == Head(bytes) + 1
    <3>3. 2 \in Nat \ {0} /\ last \in Nat /\ last <= Len(bytes)
      BY <3>1, <3>2
    <3>4. opaque.xt = SubSeq(bytes, 2, last)
      BY <3>1
    <3> HIDE DEF last
    <3>5. SubSeq(bytes, 2, last) \in Seq(Nat)
      BY <3>3, CutIsSeq, Zenon
    <3> QED BY <3>4, <3>5
  <2> HIDE DEF opaque
  <2> QED BY <2>1, <2>2, <2>3, InnerIsXt
<1> QED BY <1>1, <1>2, <1>3, <1>4 DEF Routes

-------------------------------------------------------------------------------
\* What a check lets through was meant by its signer.

SignatureOf(tx) == [by |-> Accounts[tx.from], payload |-> PayloadFor(tx)]
Signatures == {SignatureOf(tx) : tx \in Txs}

AllAccounts == {0} \cup {Accounts[address] : address \in DOMAIN Accounts}
Taken(account, xt) == [account |-> account, xt |-> xt, ext |-> AppExtrinsic(xt)]
AllTaken == {Taken(account, xt) : account \in AllAccounts, xt \in Xts}

Meant(taken) ==
  taken.xt.signature # Unsigned =>
    /\ \E tx \in wanted :
         /\ tx.from # 0 /\ tx.chain = Chain
         /\ taken.account = Accounts[tx.from]
         /\ taken.xt.function = tx.call
         /\ taken.xt.signature[1].extra = ExtraOf(tx)
         /\ taken.ext.app_id = tx.app
    /\ Caller(taken.xt) \in {0, taken.account}

PoolInv ==
  pool \in [number : 0 .. MaxSubmits, phase : {"free", "sent", "decoded", "included", "refused"},
            tx : Txs \cup {[from |-> 0]}, sent : Seq(Nat), arrived : Seq(Nat),
            route : Routes, xt : Xts]

IssuedInv ==
  /\ wanted \subseteq Txs
  /\ issued \in Seq(Signatures) /\ Len(issued) <= pool.number
  /\ \A k \in 1 .. Len(issued) : \E tx \in wanted : tx.from # 0 /\ issued[k] = SignatureOf(tx)

BlockInv ==
  /\ block \in Seq(AllTaken)
  /\ \A k \in 1 .. Len(block) : Meant(block[k])

MeantInv == PoolInv /\ IssuedInv /\ BlockInv

LEMMA ExtraOfTx ==
  ASSUME NEW tx \in Txs
  PROVE  /\ ExtraOf(tx) \in Extras
         /\ ExtraOf(tx)[1] = tx.era
         /\ ExtraOf(tx)[AppIdAt] = tx.app
<1>1. tx \in [from : Nat, chain : Nat, era : Nat, app : Nat, call : Seq(Nat)]
  BY SignersAssumption
<1>2. ExtraOf(tx) \in [1 .. Arity -> Nat]
  BY <1>1 DEF ExtraOf
<1>3. ExtraOf(tx) \in Seq(Nat) /\ Len(ExtraOf(tx)) = Arity
  BY <1>2, Arities
<1>4. AppIdAt = AppComponent /\ AppIdAt # 1 /\ AppIdAt \in 1 .. Arity /\ 1 \in 1 .. Arity
  BY JourneyAssumption, Arities DEF AppIdAt
<1> QED BY <1>3, <1>4 DEF ExtraOf, Extras

LEMMA XtOfTx ==
  ASSUME NEW tx \in Txs, NEW k \in Nat
  PROVE  Xt(tx, k) \in Xts
<1>1. tx \in [from : Nat, chain : Nat, era : Nat, app : Nat, call : Seq(Nat)]
  BY SignersAssumption
<1>2. SignatureByte(k) \in Nat
  BY DEF SignatureByte
<1>3. CASE tx.from = 0
  BY <1>1, <1>3 DEF Xt, Xts, Unsigneds
<1>4. CASE tx.from # 0
  BY <1>1, <1>2, <1>4, ExtraOfTx DEF Xt, Signed, Xts, Signeds
<1> QED BY <1>3, <1>4

LEMMA CheckedIsMeant ==
  ASSUME IssuedInv, NEW xt \in Xts, Check(xt, issued).ok
  PROVE  /\ Meant(Taken(Check(xt, issued).account, xt))
         /\ Check(xt, issued).account \in AllAccounts
<1> DEFINE account == Check(xt, issued).account
<1>1. CASE xt.signature = Unsigned
  BY <1>1 DEF Check, Meant, Taken, AllAccounts
<1>2. CASE xt.signature # Unsigned
  <2>1. PICK function \in Seq(Nat), signed \in Nat, by \in Nat, extra \in Extras :
          xt = NewSigned(function, signed, by, extra)
    <3>1. xt \notin Unsigneds
      BY <1>2 DEF Unsigneds, NewUnsigned
    <3>2. xt \in Signeds
      BY <3>1 DEF Xts
    <3> QED BY <3>2 DEF Signeds
  <2> DEFINE data == xt.signature[1]
  <2>2. /\ xt.function = function /\ data.signed = signed /\ data.by = by /\ data.extra = extra
    BY <2>1 DEF NewSigned
  <2>3. /\ signed \in DOMAIN Accounts
        /\ extra[1] \in DOMAIN Additional
        /\ Verify(issued, by, PayloadOf(function, extra), Accounts[signed])
        /\ account = Accounts[signed]
    <3>1. Failed.ok = FALSE
      BY DEF Failed
    <3> QED BY <1>2, <2>2, <3>1 DEF Check, HasAdditional
  <2>4. PICK k \in 1 .. Len(issued) :
          issued[k] = [by |-> Accounts[signed], payload |-> PayloadOf(function, extra)]
    BY <2>3 DEF Verify, IssuedInv
  <2>5. PICK tx \in wanted : tx.from # 0 /\ issued[k] = SignatureOf(tx)
    BY DEF IssuedInv
  <2>6. tx \in Txs /\ tx \in [from : Nat, chain : Nat, era : Nat, app : Nat, call : Seq(Nat)]
    BY SignersAssumption DEF IssuedInv
  <2>7. /\ Accounts[signed] = Accounts[tx.from]
        /\ PayloadOf(function, extra) = PayloadFor(tx)
    BY <2>4, <2>5 DEF SignatureOf
  <2>8. FromRaw(function, extra, Additional[extra[1]]) = FromRaw(tx.call, ExtraOf(tx), tx.chain + tx.era)
    BY <2>7 DEF PayloadOf, PayloadFor, Signable
  <2>9. extra[1] \in Nat /\ Additional[extra[1]] = Chain + extra[1] /\ Chain + extra[1] \in Nat
    <3>1. 1 \in 1 .. Arity /\ Chain \in Nat
      BY Arities, JourneyAssumption
    <3>2. extra[1] \in Nat
      BY <3>1 DEF Extras
    <3> QED BY <2>3, <3>1, <3>2, JourneyAssumption
  <2>10. function = tx.call /\ extra = ExtraOf(tx) /\ Chain + extra[1] = tx.chain + tx.era
    <3>1. ExtraOf(tx) \in Extras /\ tx.chain + tx.era \in Nat /\ tx.call \in Seq(Nat)
      BY <2>6, ExtraOfTx
    <3> QED BY <2>8, <2>9, <3>1, RawIsInjective
  <2>11. Chain = tx.chain
    <3>1. extra[1] = tx.era
      BY <2>6, <2>10, ExtraOfTx
    <3> QED BY <2>6, <2>10, <3>1, JourneyAssumption
  <2>12. AppIdOf(xt) = tx.app
    BY <1>2, <2>2, <2>6, <2>10, ExtraOfTx DEF AppIdOf
  <2>13. Caller(xt) \in {0, account}
    <3>1. IsId(signed) => Accounts[signed] = signed
      BY <2>3, JourneyAssumption
    <3> QED BY <2>2, <2>3, <3>1 DEF Caller
  <2>14. /\ Taken(account, xt).account = account /\ Taken(account, xt).xt = xt
         /\ Taken(account, xt).ext.app_id = AppIdOf(xt)
    BY DEF Taken, AppExtrinsic
  <2>15. account \in AllAccounts
    BY <2>3 DEF AllAccounts
  <2> HIDE DEF account
  <2>16. Meant(Taken(account, xt))
    <3>1. account = Accounts[tx.from]
      BY <2>3, <2>7
    <3>2. data.extra = ExtraOf(tx) /\ xt.function = tx.call
      BY <2>2, <2>10
    <3> DEFINE taken == Taken(account, xt)
    <3>3. /\ taken.account = account /\ taken.xt = xt /\ taken.ext.app_id = tx.app
      BY <2>12, <2>14
    <3> HIDE DEF taken
    <3>4. Meant(taken)
      BY <2>5, <2>11, <2>13, <3>1, <3>2, <3>3 DEF Meant
    <3> QED BY <3>4 DEF taken
  <2> QED BY <2>15, <2>16 DEF account
<1> QED BY <1>1, <1>2

LEMMA InitMeantInv == Init => MeantInv
<1>1. NoXt \in Xts
  <2>1. << >> \in Seq(Nat)
    OBVIOUS
  <2>2. NoXt \in Unsigneds
    BY <2>1, Zenon DEF NoXt, Unsigneds
  <2> QED BY <2>2, Zenon DEF Xts
<1>2. 0 \in 0 .. MaxSubmits
  BY JourneyAssumption
<1> QED BY <1>1, <1>2 DEF Init, MeantInv, PoolInv, IssuedInv, BlockInv, FreePool, Routes

LEMMA DamagedAreBytes ==
  ASSUME NEW tx \in Txs, NEW k \in 1 .. MaxSubmits,
         NEW arrived \in Damage(EncodeExtrinsic(Xt(tx, k)))
  PROVE  arrived \in Seq(Nat) /\ \A j \in 1 .. Len(arrived) : arrived[j] < 256
<1>1. arrived \in Seq(0 .. 255)
  BY SignersAssumption
<1>2. arrived \in Seq(Nat)
  <2>1. 0 .. 255 \subseteq Nat
    OBVIOUS
  <2> QED BY <1>1, <2>1, SeqMonotonic
<1>3. ASSUME NEW j \in 1 .. Len(arrived) PROVE arrived[j] < 256
  <2>1. arrived[j] \in 0 .. 255
    BY <1>1, ElementOfSeq
  <2>2. \A x \in 0 .. 255 : x < 256
    OBVIOUS
  <2> QED BY <2>1, <2>2, Zenon
<1> QED BY <1>2, <1>3

\* A signature is given for what is wanted.
LEMMA SubmitKeeps ==
  ASSUME MeantInv, NEW tx \in Txs, NEW route \in Routes, Submit(tx, route)
  PROVE  MeantInv'
<1> DEFINE xt == Xt(tx, Len(issued) + 1)
           sent == IF route = "json" THEN Serialize(xt) ELSE EncodeExtrinsic(xt)
<1>1. /\ pool.number \in Nat /\ pool.number + 1 \in 0 .. MaxSubmits
      /\ Len(issued) \in Nat /\ Len(issued) + 1 \in 1 .. MaxSubmits
  BY JourneyAssumption DEF MeantInv, PoolInv, IssuedInv, Submit
<1>2. xt \in Xts /\ sent = EncodeExtrinsic(xt) /\ sent \in Seq(Nat)
  <2>1. xt \in Xts
    BY <1>1, XtOfTx
  <2> HIDE DEF xt
  <2> QED BY <2>1, Bytes DEF Serialize
<1>3. PICK arrived \in {sent} \cup Damage(sent) :
        pool' = [number |-> pool.number + 1, phase |-> "sent", tx |-> tx, sent |-> sent,
                 arrived |-> arrived, route |-> route, xt |-> xt]
  BY DEF Submit
<1>4. arrived \in Seq(Nat)
  <2>1. CASE arrived = sent
    BY <1>2, <2>1
  <2>2. CASE arrived \in Damage(sent)
    <3> DEFINE k == Len(issued) + 1
    <3>1. k \in 1 .. MaxSubmits /\ xt = Xt(tx, k)
      BY <1>1
    <3> HIDE DEF k, xt, sent
    <3>2. arrived \in Damage(EncodeExtrinsic(Xt(tx, k)))
      BY <1>2, <2>2, <3>1, Zenon
    <3> QED BY <3>1, <3>2, DamagedAreBytes, Zenon
  <2> QED BY <1>3, <2>1, <2>2
<1> HIDE DEF xt, sent
<1>5. PoolInv'
  BY <1>1, <1>2, <1>3, <1>4 DEF PoolInv
<1>6. wanted' = wanted \cup {tx} /\ wanted' \subseteq Txs
  BY DEF Submit, MeantInv, IssuedInv
<1>7. IssuedInv'
  <2>1. CASE tx.from = 0
    <3>1. issued' = issued
      BY <2>1 DEF Submit
    <3> QED BY <1>1, <1>3, <1>6, <3>1 DEF MeantInv, IssuedInv
  <2>2. CASE tx.from # 0
    <3>1. issued' = Append(issued, SignatureOf(tx))
      BY <2>2 DEF Submit, SignatureOf
    <3>2. issued \in Seq(Signatures) /\ SignatureOf(tx) \in Signatures
      BY DEF MeantInv, IssuedInv, Signatures
    <3>3. /\ issued' \in Seq(Signatures) /\ Len(issued') = Len(issued) + 1
          /\ \A k \in 1 .. Len(issued) : issued'[k] = issued[k]
          /\ issued'[Len(issued) + 1] = SignatureOf(tx)
      BY <3>1, <3>2, AppendProperties
    <3>4. ASSUME NEW k \in 1 .. Len(issued')
          PROVE  \E some \in wanted' : some.from # 0 /\ issued'[k] = SignatureOf(some)
      <4>1. CASE k = Len(issued) + 1
        BY <1>6, <2>2, <3>3, <4>1
      <4>2. CASE k # Len(issued) + 1
        <5>1. k \in 1 .. Len(issued)
          BY <1>1, <3>3, <4>2
        <5> QED BY <1>6, <3>3, <5>1 DEF MeantInv, IssuedInv
      <4> QED BY <4>1, <4>2
    <3>5. Len(issued') <= pool'.number
      BY <1>1, <1>3, <3>3 DEF MeantInv, IssuedInv
    <3>6. \A some : SignatureOf(some)' = SignatureOf(some)
      BY DEF SignatureOf, PayloadFor
    <3> QED BY <1>6, <3>3, <3>4, <3>5, <3>6 DEF IssuedInv, Signatures
  <2> QED BY <2>1, <2>2
<1>8. BlockInv'
  <2>1. block' = block
    BY DEF Submit
  <2> QED BY <1>6, <2>1 DEF MeantInv, BlockInv, Meant
<1> QED BY <1>5, <1>7, <1>8 DEF MeantInv

LEMMA DecodeKeeps ==
  ASSUME MeantInv, Decode
  PROVE  MeantInv'
<1> DEFINE decoded == Received(pool.route, pool.arrived)
<1>1. pool' = IF decoded.ok THEN [pool EXCEPT !.phase = "decoded", !.xt = decoded.xt]
              ELSE [pool EXCEPT !.phase = "refused"]
  BY DEF Decode
<1>2. decoded.ok => decoded.xt \in Xts
  BY ReceivedIsXt DEF MeantInv, PoolInv
<1> HIDE DEF decoded
<1>3. PoolInv' /\ pool'.number = pool.number
  BY <1>1, <1>2 DEF MeantInv, PoolInv
<1>4. UNCHANGED << wanted, issued, block >>
  BY DEF Decode
<1> QED BY <1>3, <1>4 DEF MeantInv, IssuedInv, BlockInv, Meant

LEMMA IncludeKeeps ==
  ASSUME MeantInv, CheckAndInclude
  PROVE  MeantInv'
<1> DEFINE checked == Check(pool.xt, issued)
<1>1. UNCHANGED << wanted, issued >>
  BY DEF CheckAndInclude
<1>2. PoolInv' /\ pool'.number = pool.number
  BY DEF MeantInv, PoolInv, CheckAndInclude
<1>3. IssuedInv'
  BY <1>1, <1>2 DEF MeantInv, IssuedInv
<1>4. CASE checked.ok
  <2> DEFINE taken == Taken(checked.account, pool.xt)
  <2>1. block' = Append(block, taken)
    BY <1>4 DEF CheckAndInclude, Taken
  <2>2. Meant(taken) /\ taken \in AllTaken
    <3>1. pool.xt \in Xts
      BY DEF MeantInv, PoolInv
    <3> QED BY <1>4, <3>1, CheckedIsMeant DEF MeantInv, AllTaken
  <2> HIDE DEF taken, checked
  <2>3. /\ block' \in Seq(AllTaken) /\ Len(block') = Len(block) + 1 /\ Len(block) \in Nat
        /\ \A k \in 1 .. Len(block) : block'[k] = block[k]
        /\ block'[Len(block) + 1] = taken
    BY <2>1, <2>2, AppendProperties DEF MeantInv, BlockInv
  <2>4. ASSUME NEW k \in 1 .. Len(block') PROVE Meant(block'[k])
    <3>1. k \in 1 .. Len(block) \/ k = Len(block) + 1
      BY <2>3
    <3> QED BY <2>2, <2>3, <3>1 DEF MeantInv, BlockInv
  <2>5. \A any : Meant(any)' <=> Meant(any)
    BY <1>1 DEF Meant
  <2>6. BlockInv'
    BY <1>1, <2>3, <2>4 DEF BlockInv, Meant
  <2> QED BY <1>2, <1>3, <2>6 DEF MeantInv
<1>5. CASE ~checked.ok
  <2>1. block' = block
    BY <1>5 DEF CheckAndInclude
  <2>2. BlockInv'
    BY <1>1, <2>1 DEF MeantInv, BlockInv, Meant
  <2> QED BY <1>2, <1>3, <2>2 DEF MeantInv
<1> QED BY <1>4, <1>5

LEMMA StepMeantInv == MeantInv /\ [Next]_vars => MeantInv'
<1> SUFFICES ASSUME MeantInv, [Next]_vars PROVE MeantInv'
  OBVIOUS
<1>1. ASSUME UNCHANGED nodeVars PROVE MeantInv'
  BY <1>1 DEF nodeVars, MeantInv, PoolInv, IssuedInv, BlockInv, Meant
<1>2. CASE UNCHANGED vars
  BY <1>1, <1>2 DEF vars, nodeVars
<1>3. CASE \E tx \in Txs, route \in Routes : Submit(tx, route)
  BY <1>3, SubmitKeeps
<1>4. CASE Decode
  BY <1>4, DecodeKeeps
<1>5. CASE CheckAndInclude
  BY <1>5, IncludeKeeps
<1>6. CASE \E app \in {tx.app : tx \in Txs} : Open(app)
  BY <1>1, <1>6 DEF Open
<1>7. CASE Client
  BY <1>1, <1>7 DEF Client, ClientAsk
<1> QED BY <1>2, <1>3, <1>4, <1>5, <1>6, <1>7 DEF Next

LEMMA MeantInvariance == Spec => []MeantInv
<1> QED BY InitMeantInv, StepMeantInv, PTL DEF Spec

\* Whatever was damaged and whatever was signed for other chains, an extrinsic
\* in a block is one its account wanted, with its function and its extra, on
\* this chain.
THEOREM EveryBlockIsMeant == Spec => []SignersMeantIt
<1>1. MeantInv => SignersMeantIt
  <2> SUFFICES ASSUME MeantInv, NEW k \in DOMAIN block, block[k].xt.signature # Unsigned
               PROVE  /\ \E tx \in wanted :
                           /\ tx.from # 0 /\ tx.chain = Chain
                           /\ block[k].account = Accounts[tx.from]
                           /\ block[k].xt.function = tx.call
                           /\ block[k].xt.signature[1].extra = ExtraOf(tx)
                           /\ block[k].ext.app_id = tx.app
                      /\ Caller(block[k].xt) \in {0, block[k].account}
    BY DEF SignersMeantIt
  <2>1. k \in 1 .. Len(block)
    BY DEF MeantInv, BlockInv
  <2>2. Meant(block[k])
    BY <2>1 DEF MeantInv, BlockInv
  <2> QED BY <2>2 DEF Meant
<1> QED BY <1>1, MeantInvariance, PTL

-------------------------------------------------------------------------------
\* Encoding and then decoding, by each route.

\* v lies in t from first to last, behind m bytes.
LiesAt(t, v, m, first, last) ==
  /\ t \in Seq(Nat) /\ v \in Seq(Nat) /\ m \in Nat
  /\ first = m + 1 /\ last = m + Len(v) /\ last <= Len(t)
  /\ \A k \in 1 .. Len(v) : t[m + k] = v[k]

LEMMA CutOut ==
  ASSUME NEW t, NEW v, NEW m, NEW first, NEW last, LiesAt(t, v, m, first, last)
  PROVE  SubSeq(t, first, last) = v
<1> DEFINE cut == SubSeq(t, first, last)
<1>1. /\ t \in Seq(Nat) /\ v \in Seq(Nat)
      /\ first \in Nat \ {0} /\ last \in Nat /\ last <= Len(t) /\ Len(v) \in Nat
      /\ last - first + 1 = Len(v) /\ (first <= last \/ Len(v) = 0)
  BY DEF LiesAt
<1>2. \A k \in 1 .. Len(v) : first + k - 1 = m + k
  <2>1. first = m + 1 /\ m \in Nat
    BY DEF LiesAt
  <2> QED BY <2>1
<1>3. /\ cut \in Seq(Nat)
      /\ Len(cut) = IF first <= last THEN last - first + 1 ELSE 0
      /\ \A k \in 1 .. (last - first + 1) : cut[k] = t[first + k - 1]
  BY <1>1, Cut, Zenon
<1> HIDE DEF cut
<1>4. Len(cut) = Len(v)
  BY <1>1, <1>3
<1>5. ASSUME NEW k \in 1 .. Len(cut) PROVE cut[k] = v[k]
  <2>1. k \in 1 .. Len(v) /\ k \in 1 .. (last - first + 1)
    BY <1>1, <1>4
  <2>2. cut[k] = t[m + k]
    BY <1>2, <1>3, <2>1
  <2> QED BY <2>1, <2>2 DEF LiesAt
<1>6. cut = v
  BY <1>1, <1>3, <1>4, <1>5, SeqEqual
<1> QED BY <1>6 DEF cut

LEMMA NothingBehind ==
  ASSUME NEW t \in Seq(Nat)
  PROVE  SubSeq(t, Len(t) + 1, Len(t)) = << >>
<1>1. Len(t) + 1 \in Int /\ Len(t) \in Int /\ Len(t) < Len(t) + 1
  BY LenProperties
<1> QED BY <1>1, SubSeqEmpty

\* t is decoded to xt, with nothing left.
DecodesTo(t, xt) == DecodeNoVecPrefix(t) = Decoded(xt, << >>)

LEMMA UnsignedIsDecoded ==
  ASSUME NEW function \in Seq(Nat), NEW t, UnsignedAs(t, function)
  PROVE  DecodesTo(t, NewUnsigned(function))
<1> DEFINE last == 2 + Len(function)
<1>1. t \in Seq(Nat) /\ Len(t) = last /\ Len(function) \in Nat /\ t[1] = 4 /\ t[2] = Len(function)
  BY DEF UnsignedAs
<1>2. SubSeq(t, 2 + 1, last) = function
  <2>1. LiesAt(t, function, 2, 2 + 1, last)
    BY <1>1 DEF UnsignedAs, LiesAt
  <2> HIDE DEF last
  <2> QED BY <2>1, CutOut, Zenon
<1>3. SubSeq(t, last + 1, Len(t)) = << >>
  BY <1>1, NothingBehind
<1>4. /\ Len(t) # 0 /\ ~(t[1] >= SignedBit) /\ t[1] % SignedBit = EXTRINSIC_FORMAT_VERSION
      /\ last = 2 + t[2] /\ ~(Len(t) < 2) /\ ~(Len(t) < last)
  BY <1>1 DEF SignedBit, EXTRINSIC_FORMAT_VERSION
<1> HIDE DEF last
<1>5. DecodeNoVecPrefix(t) = Decoded(NewExtrinsic(function, Unsigned), << >>)
  <2>1. DecodeNoVecPrefix(t)
          = Decoded(NewExtrinsic(SubSeq(t, 2 + 1, last), Unsigned), SubSeq(t, last + 1, Len(t)))
    BY <1>4, DecodeUnsigned, Zenon
  <2> QED BY <1>2, <1>3, <2>1, Zenon
<1> QED BY <1>5, Zenon DEF DecodesTo, NewExtrinsic

LEMMA SignedIsDecoded ==
  ASSUME NEW function \in Seq(Nat), NEW signed \in Nat, NEW by \in Nat, NEW extra \in Extras, NEW t,
         SignedAs(t, function, signed, by, extra)
  PROVE  DecodesTo(t, NewSigned(function, signed, by, extra))
<1> DEFINE at == 4 + Arity
           last == at + Len(function)
           data == << [signed |-> t[2], by |-> t[3], extra |-> SubSeq(t, 4, 3 + Arity)] >>
<1>1. /\ t \in Seq(Nat) /\ Len(t) = last /\ Len(function) \in Nat
      /\ t[1] = 132 /\ t[2] = signed /\ t[3] = by /\ t[at] = Len(function)
  BY DEF SignedAs
<1>2. Arity \in Nat /\ Arity >= 8 /\ extra \in Seq(Nat) /\ Len(extra) = Arity /\ at \in Nat
  BY Arities DEF Extras
<1>3. SubSeq(t, at + 1, last) = function
  <2>1. \A k \in 1 .. Len(function) : t[at + k] = function[k]
    BY DEF SignedAs
  <2>2. last = at + Len(function)
    OBVIOUS
  <2> HIDE DEF at, last
  <2>3. LiesAt(t, function, at, at + 1, last)
    BY <1>1, <1>2, <2>1, <2>2 DEF LiesAt
  <2> QED BY <2>3, CutOut, Zenon
<1>4. SubSeq(t, 4, 3 + Arity) = extra
  <2>1. 3 + Arity <= Len(t) /\ 4 = 3 + 1 /\ 3 \in Nat
    BY <1>1, <1>2
  <2>2. \A k \in 1 .. Arity : t[3 + k] = extra[k]
    BY DEF SignedAs
  <2>3. LiesAt(t, extra, 3, 4, 3 + Arity)
    BY <1>1, <1>2, <2>1, <2>2 DEF LiesAt
  <2> QED BY <2>3, CutOut, Zenon
<1>5. SubSeq(t, last + 1, Len(t)) = << >>
  BY <1>1, NothingBehind
<1>6. t[1] >= SignedBit /\ t[1] % SignedBit = EXTRINSIC_FORMAT_VERSION
  <2>1. 132 >= 128 /\ 132 % 128 = 4
    OBVIOUS
  <2> QED BY <1>1, <2>1 DEF SignedBit, EXTRINSIC_FORMAT_VERSION
<1>7. /\ Len(t) > 0 /\ Len(t) # 0
      /\ at = 4 + Arity /\ last = at + t[at] /\ ~(Len(t) < at) /\ ~(Len(t) < last)
  <2>1. at = 4 + Arity /\ last = at + Len(function) /\ at > 0
    BY <1>2
  <2> HIDE DEF at, last
  <2>2. last \in Nat /\ last >= at /\ last > 0
    BY <1>1, <1>2, <2>1
  <2> QED BY <1>1, <1>2, <2>1, <2>2
<1> HIDE DEF at, last
<1>8. DecodeNoVecPrefix(t)
        = Decoded(NewExtrinsic(SubSeq(t, at + 1, last), data), SubSeq(t, last + 1, Len(t)))
  BY <1>6, <1>7, DecodeSigned, Zenon
<1>9. NewExtrinsic(function, data) = NewSigned(function, signed, by, extra)
  BY <1>1, <1>4 DEF NewExtrinsic, Unsigned
<1> HIDE DEF data
<1> QED BY <1>3, <1>5, <1>8, <1>9, Zenon DEF DecodesTo

LEMMA BodyIsDecoded ==
  ASSUME NEW xt \in Xts
  PROVE  DecodesTo(Body(xt), xt)
<1>1. CASE xt \in Unsigneds
  <2>1. PICK function \in Seq(Nat) : xt = NewUnsigned(function)
    BY <1>1 DEF Unsigneds
  <2>2. UnsignedAs(Body(xt), function)
    BY <2>1, UnsignedBytes, Zenon
  <2> QED BY <2>1, <2>2, UnsignedIsDecoded, Zenon
<1>2. CASE xt \in Signeds
  <2>1. PICK function \in Seq(Nat), signed \in Nat, by \in Nat, extra \in Extras :
          xt = NewSigned(function, signed, by, extra)
    BY <1>2 DEF Signeds
  <2>2. SignedAs(Body(xt), function, signed, by, extra)
    BY <2>1, SignedBytes, Zenon
  <2> QED BY <2>1, <2>2, SignedIsDecoded, Zenon
<1> QED BY <1>1, <1>2 DEF Xts

LEMMA RoundTrip ==
  ASSUME NEW xt \in Xts, NEW route \in Routes
  PROVE  Received(route, EncodeExtrinsic(xt)) = Decoded(xt, << >>)
<1> DEFINE body == Body(xt)
           t == EncodeExtrinsic(xt)
<1>1. body \in Seq(Nat) /\ Len(body) \in Nat /\ t = EncodeVec(body)
  BY Bytes
<1>2. DecodeNoVecPrefix(body) = Decoded(xt, << >>)
  BY BodyIsDecoded DEF DecodesTo
<1> HIDE DEF body, t
<1>3. /\ t \in Seq(Nat) /\ Len(t) = 1 + Len(body) /\ t[1] = Len(body)
      /\ \A k \in 1 .. Len(body) : t[1 + k] = body[k]
  BY <1>1, VecBytes
<1>4. t # << >> /\ Len(t) # 0 /\ Head(t) = Len(body)
  BY <1>1, <1>3
<1>5. Tail(t) = body
  BY <1>1, VecParts
<1> DEFINE whole == Decoded(xt, << >>)
<1>6. whole.ok /\ whole.xt = xt /\ whole.rest = << >>
  BY DEF Decoded
<1>7. ASSUME NEW known \in BOOLEAN PROVE DecodeExtrinsic(t, known) = whole
  <2>1. Len(t) - 1 - Len(whole.rest) = Head(t)
    <3>1. Len(whole.rest) = 0
      BY <1>6
    <3> QED BY <1>1, <1>3, <1>4, <3>1
  <2>2. DecodeNoVecPrefix(Tail(t)) = whole
    BY <1>2, <1>5
  <2> HIDE DEF whole
  <2> QED BY <1>4, <2>1, <2>2, Zenon DEF DecodeExtrinsic
<1>8. DecodeThroughOpaque(t) = whole
  <2> DEFINE last == 1 + Len(body)
             opaque == OpaqueFromBytes(t)
  <2>1. SubSeq(t, 1 + 1, last) = body
    <3>1. LiesAt(t, body, 1, 1 + 1, last)
      BY <1>1, <1>3 DEF LiesAt
    <3> HIDE DEF last
    <3> QED BY <3>1, CutOut, Zenon
  <2>2. Head(t) + 1 = last /\ 2 = 1 + 1 /\ ~(Len(t) = 0) /\ ~(Len(t) - 1 < Head(t))
    BY <1>1, <1>3, <1>4
  <2> HIDE DEF last, whole
  <2>3. opaque = Decoded(body, SubSeq(t, Head(t) + 2, Len(t)))
    <3>1. SubSeq(t, 2, Head(t) + 1) = body
      BY <2>1, <2>2
    <3> QED BY <2>2, <3>1, Zenon DEF OpaqueFromBytes
  <2> HIDE DEF opaque
  <2>4. opaque.ok /\ opaque.xt = body
    BY <2>3 DEF Decoded
  <2>5. DecodeThroughOpaque(t) = DecodeNoVecPrefix(body)
    BY <2>4 DEF DecodeThroughOpaque, TryFromOpaque, opaque
  <2> QED BY <1>2, <2>5 DEF whole
<1> HIDE DEF whole
<1>9. Received(route, t) = whole
  <2>1. DecodeExtrinsic(t, TRUE) = whole /\ DecodeExtrinsic(t, FALSE) = whole
    BY <1>7
  <2> QED BY <1>8, <2>1 DEF Received, Routes, Deserialize
<1> QED BY <1>9 DEF t, whole

-------------------------------------------------------------------------------
\* An honest submission goes through.

\* What is under way is what its signer made, with the signature just given.
SentInv ==
  pool.phase \in {"sent", "decoded", "refused"} =>
    /\ pool.tx \in Txs
    /\ pool.sent = EncodeExtrinsic(Xt(pool.tx, Len(issued)))
    /\ pool.tx.from # 0 =>
         /\ Len(issued) \in 1 .. MaxSubmits
         /\ issued[Len(issued)] = SignatureOf(pool.tx)

DecodedInv ==
  (pool.phase = "decoded" /\ pool.arrived = pool.sent) =>
     pool.xt = Xt(pool.tx, Len(issued))

Foreign(tx) == tx.chain # Chain \/ tx.era \notin DOMAIN Additional

RefusedInv ==
  (pool.phase = "refused" /\ pool.arrived = pool.sent) => Foreign(pool.tx)

HonestInv == MeantInv /\ SentInv /\ DecodedInv /\ RefusedInv

\* What the signer made passes the check.
LEMMA OwnPasses ==
  ASSUME MeantInv, NEW tx \in Txs, ~Foreign(tx),
         tx.from # 0 => Len(issued) \in 1 .. MaxSubmits /\ issued[Len(issued)] = SignatureOf(tx)
  PROVE  Check(Xt(tx, Len(issued)), issued).ok
<1> DEFINE k == Len(issued)
           xt == Xt(tx, k)
<1>1. CASE tx.from = 0
  BY <1>1 DEF Xt, NewUnsigned, Check
<1>2. CASE tx.from # 0
  <2>1. /\ tx \in [from : Nat, chain : Nat, era : Nat, app : Nat, call : Seq(Nat)]
        /\ tx.from \in DOMAIN Accounts
    BY <1>2, SignersAssumption
  <2>2. /\ xt.signature # Unsigned /\ xt.function = tx.call
        /\ xt.signature[1].signed = tx.from /\ xt.signature[1].by = SignatureByte(k)
        /\ xt.signature[1].extra = ExtraOf(tx)
    BY <1>2 DEF Xt, Signed, NewSigned, Unsigned
  <2>3. ExtraOf(tx)[1] = tx.era /\ tx.era \in DOMAIN Additional /\ tx.chain = Chain
    BY ExtraOfTx DEF Foreign
  <2>4. Additional[tx.era] = tx.chain + tx.era
    BY <2>3, JourneyAssumption
  <2>5. PayloadOf(tx.call, ExtraOf(tx)) = PayloadFor(tx)
    BY <2>3, <2>4 DEF PayloadOf, PayloadFor
  <2>6. k \in DOMAIN issued
    <3>1. issued \in Seq(Signatures)
      BY DEF MeantInv, IssuedInv
    <3> QED BY <1>2, <3>1
  <2>7. issued[k] = [by |-> Accounts[tx.from], payload |-> PayloadOf(tx.call, ExtraOf(tx))]
    BY <1>2, <2>5 DEF SignatureOf
  <2> HIDE DEF xt, k
  <2>8. Verify(issued, SignatureByte(k), PayloadOf(tx.call, ExtraOf(tx)), Accounts[tx.from])
    BY <2>6, <2>7, Zenon DEF Verify
  <2>9. Check(xt, issued) = [ok |-> TRUE, account |-> Accounts[tx.from]]
    BY <2>1, <2>2, <2>3, <2>8, Zenon DEF Check, HasAdditional
  <2> QED BY <2>9 DEF xt, k
<1> QED BY <1>1, <1>2

LEMMA InitHonestInv == Init => HonestInv
<1> SUFFICES ASSUME Init PROVE HonestInv
  OBVIOUS
<1>1. pool.phase = "free"
  BY DEF Init, FreePool
<1> QED BY <1>1, InitMeantInv DEF HonestInv, SentInv, DecodedInv, RefusedInv

LEMMA StepHonestInv == HonestInv /\ [Next]_vars => HonestInv'
<1> SUFFICES ASSUME HonestInv, [Next]_vars PROVE HonestInv'
  OBVIOUS
<1>1. MeantInv'
  BY StepMeantInv DEF HonestInv
<1>2. ASSUME UNCHANGED nodeVars PROVE HonestInv'
  <2>1. pool' = pool /\ issued' = issued
    BY <1>2 DEF nodeVars
  <2>2. SentInv'
    BY <2>1 DEF HonestInv, SentInv, SignatureOf, PayloadFor, Xt, Signed
  <2>3. DecodedInv'
    BY <2>1 DEF HonestInv, DecodedInv, Xt, Signed
  <2>4. RefusedInv'
    BY <2>1 DEF HonestInv, RefusedInv, Foreign
  <2> QED BY <1>1, <2>2, <2>3, <2>4 DEF HonestInv
<1>3. ASSUME NEW tx \in Txs, NEW route \in Routes, Submit(tx, route) PROVE HonestInv'
  <2> DEFINE next == Len(issued) + 1
             xt == Xt(tx, next)
             sent == IF route = "json" THEN Serialize(xt) ELSE EncodeExtrinsic(xt)
  <2>1. sent = EncodeExtrinsic(xt)
    BY DEF Serialize
  <2>2. PICK arrived \in {sent} \cup Damage(sent) :
          pool' = [number |-> pool.number + 1, phase |-> "sent", tx |-> tx, sent |-> sent,
                   arrived |-> arrived, route |-> route, xt |-> xt]
    BY <1>3 DEF Submit
  <2> HIDE DEF xt, sent
  <2>3. pool'.phase = "sent" /\ pool'.tx = tx /\ pool'.sent = EncodeExtrinsic(xt)
    BY <2>1, <2>2
  <2>4. DecodedInv' /\ RefusedInv'
    BY <2>3 DEF DecodedInv, RefusedInv
  <2>5. CASE tx.from = 0
    <3>1. \A k : Xt(tx, k) = NewUnsigned(tx.call)
      BY <2>5 DEF Xt
    <3>2. pool'.sent = EncodeExtrinsic(Xt(pool'.tx, Len(issued')))
      BY <2>3, <3>1 DEF xt
    <3>3. SentInv'
      BY <2>3, <2>5, <3>2 DEF SentInv, Xt, Signed
    <3> QED BY <1>1, <2>4, <3>3 DEF HonestInv
  <2>6. CASE tx.from # 0
    <3>1. issued' = Append(issued, SignatureOf(tx))
      BY <1>3, <2>6 DEF Submit, SignatureOf
    <3>2. issued \in Seq(Signatures) /\ SignatureOf(tx) \in Signatures
      BY DEF HonestInv, MeantInv, IssuedInv, Signatures
    <3>3. Len(issued') = next /\ issued'[next] = SignatureOf(tx)
      BY <3>1, <3>2, AppendProperties
    <3>4. Len(issued') \in 1 .. MaxSubmits
      <4>1. pool'.number \in 0 .. MaxSubmits /\ Len(issued') <= pool'.number
        BY <1>1 DEF MeantInv, PoolInv, IssuedInv
      <4>2. Len(issued) \in Nat
        BY <3>2
      <4> QED BY <3>3, <4>1, <4>2, JourneyAssumption
    <3>5. pool'.sent = EncodeExtrinsic(Xt(pool'.tx, Len(issued')))
      BY <2>3, <3>3 DEF xt
    <3>6. issued'[Len(issued')] = SignatureOf(pool'.tx)
      BY <2>3, <3>3
    <3>7. SentInv'
      BY <2>3, <3>4, <3>5, <3>6 DEF SentInv, SignatureOf, PayloadFor, Xt, Signed
    <3> QED BY <1>1, <2>4, <3>7 DEF HonestInv
  <2> QED BY <2>5, <2>6
<1>4. ASSUME Decode PROVE HonestInv'
  <2> DEFINE decoded == Received(pool.route, pool.arrived)
             own == Xt(pool.tx, Len(issued))
  <2>1. pool.phase = "sent" /\ issued' = issued
        /\ pool' = IF decoded.ok THEN [pool EXCEPT !.phase = "decoded", !.xt = decoded.xt]
                   ELSE [pool EXCEPT !.phase = "refused"]
    BY <1>4 DEF Decode
  <2>2. /\ pool.tx \in Txs /\ pool.sent = EncodeExtrinsic(own)
        /\ pool.tx.from # 0 =>
             /\ Len(issued) \in 1 .. MaxSubmits
             /\ issued[Len(issued)] = SignatureOf(pool.tx)
    BY <2>1 DEF HonestInv, SentInv
  <2>3. own \in Xts
    <3>1. Len(issued) \in Nat
      BY DEF HonestInv, MeantInv, IssuedInv
    <3> QED BY <2>2, <3>1, XtOfTx
  <2>4. pool.route \in Routes
    BY DEF HonestInv, MeantInv, PoolInv
  <2> HIDE DEF own, decoded
  <2>5. pool.arrived = pool.sent => decoded.ok /\ decoded.xt = own
    <3>1. ASSUME pool.arrived = pool.sent PROVE decoded = Decoded(own, << >>)
      <4>1. Received(pool.route, EncodeExtrinsic(own)) = Decoded(own, << >>)
        BY <2>3, <2>4, RoundTrip, Zenon
      <4> QED BY <2>2, <3>1, <4>1 DEF decoded
    <3> QED BY <3>1 DEF Decoded
  <2>6. /\ pool'.tx = pool.tx /\ pool'.sent = pool.sent /\ pool'.arrived = pool.arrived
        /\ pool'.phase = IF decoded.ok THEN "decoded" ELSE "refused"
        /\ decoded.ok => pool'.xt = decoded.xt
    BY <2>1 DEF HonestInv, MeantInv, PoolInv
  <2>7. SentInv'
    BY <2>1, <2>2, <2>6 DEF SentInv, own, SignatureOf, PayloadFor, Xt, Signed
  <2>8. DecodedInv'
    BY <2>1, <2>5, <2>6 DEF DecodedInv, own, Xt, Signed
  <2>9. RefusedInv'
    BY <2>5, <2>6 DEF RefusedInv
  <2> QED BY <1>1, <2>7, <2>8, <2>9 DEF HonestInv
<1>5. ASSUME CheckAndInclude PROVE HonestInv'
  <2> DEFINE checked == Check(pool.xt, issued)
  <2>1. /\ pool.phase = "decoded" /\ issued' = issued
        /\ pool' = IF checked.ok THEN [pool EXCEPT !.phase = "included"]
                   ELSE [pool EXCEPT !.phase = "refused"]
    BY <1>5 DEF CheckAndInclude
  <2> HIDE DEF checked
  <2>2. /\ pool'.tx = pool.tx /\ pool'.sent = pool.sent /\ pool'.arrived = pool.arrived
        /\ pool'.phase = IF checked.ok THEN "included" ELSE "refused"
    BY <2>1 DEF HonestInv, MeantInv, PoolInv
  <2>3. /\ pool.tx \in Txs
        /\ pool.tx.from # 0 =>
             /\ Len(issued) \in 1 .. MaxSubmits
             /\ issued[Len(issued)] = SignatureOf(pool.tx)
    BY <2>1 DEF HonestInv, SentInv
  <2>4. SentInv'
    <3>1. pool.sent = EncodeExtrinsic(Xt(pool.tx, Len(issued)))
      BY <2>1 DEF HonestInv, SentInv
    <3> QED BY <2>1, <2>2, <2>3, <3>1 DEF SentInv, SignatureOf, PayloadFor, Xt, Signed
  <2>5. DecodedInv'
    BY <2>2 DEF DecodedInv
  <2>6. (pool.arrived = pool.sent /\ ~checked.ok) => Foreign(pool.tx)
    <3>1. ASSUME pool.arrived = pool.sent, ~Foreign(pool.tx) PROVE checked.ok
      <4>1. pool.xt = Xt(pool.tx, Len(issued))
        BY <2>1, <3>1 DEF HonestInv, DecodedInv
      <4>2. MeantInv
        BY DEF HonestInv
      <4>3. Check(Xt(pool.tx, Len(issued)), issued).ok
        BY <2>3, <3>1, <4>2, OwnPasses, Zenon
      <4> QED BY <4>1, <4>3 DEF checked
    <3> QED BY <3>1
  <2>7. RefusedInv'
    BY <2>2, <2>6 DEF RefusedInv, Foreign
  <2> QED BY <1>1, <2>4, <2>5, <2>7 DEF HonestInv
<1>6. CASE UNCHANGED vars
  BY <1>2, <1>6 DEF vars, nodeVars
<1>7. CASE \E app \in {tx.app : tx \in Txs} : Open(app)
  BY <1>2, <1>7 DEF Open
<1>8. CASE Client
  BY <1>2, <1>8 DEF Client, ClientAsk
<1> QED BY <1>3, <1>4, <1>5, <1>6, <1>7, <1>8 DEF Next

\* A submission that arrives as it was sent, for this chain and an era it
\* knows, is never refused, by whichever route it is decoded.
THEOREM HonestIsNeverRefused == Spec => []HonestIsIncluded
<1>1. HonestInv => HonestIsIncluded
  BY DEF HonestInv, RefusedInv, Foreign, HonestIsIncluded
<1> QED BY <1>1, InitHonestInv, StepHonestInv, PTL DEF Spec

-------------------------------------------------------------------------------
\* What is decoded is what its encoding says.

BeginsWith(t, s) ==
  /\ t \in Seq(Nat) /\ s \in Seq(Nat) /\ Len(s) <= Len(t)
  /\ \A k \in 1 .. Len(s) : t[k] = s[k]

LEMMA PrefixOf ==
  ASSUME NEW s, NEW t, BeginsWith(t, s)
  PROVE  IsPrefix(s, t)
<1>1. /\ s \in Seq(Nat) /\ t \in Seq(Nat) /\ Len(s) \in Nat /\ Len(t) \in Nat /\ Len(s) <= Len(t)
      /\ \A k \in 1 .. Len(s) : t[0 + k] = s[k] /\ s[0 + k] = s[k]
  BY DEF BeginsWith
<1>2. LiesAt(t, s, 0, 1, Len(s)) /\ LiesAt(s, s, 0, 1, Len(s))
  BY <1>1 DEF LiesAt
<1>3. SubSeq(t, 1, Len(s)) = s /\ SubSeq(s, 1, Len(s)) = s
  BY <1>2, CutOut, Zenon
<1> QED BY <1>1, <1>3 DEF IsPrefix

\* What lies behind the first n bytes.
LEMMA RestBehind ==
  ASSUME NEW s \in Seq(Nat), NEW n \in Nat, n <= Len(s)
  PROVE  Len(SubSeq(s, n + 1, Len(s))) = Len(s) - n
<1>1. Len(s) \in Nat /\ Len(s) <= Len(s)
  OBVIOUS
<1> QED BY <1>1, Piece, Zenon

\* decoded is made of the bytes of input, without loss or surplus.
Exact(input, decoded) ==
  /\ decoded.xt \in Xts
  /\ BeginsWith(input, Body(decoded.xt))
  /\ Len(decoded.rest) = Len(input) - Len(Body(decoded.xt))

LEMMA NotEmpty ==
  ASSUME NEW input \in Seq(Nat), DecodeNoVecPrefix(input).ok
  PROVE  Len(input) \in Nat /\ Len(input) # 0 /\ 1 \in 1 .. Len(input) /\ input[1] \in Nat
<1>1. Len(input) # 0
  <2>1. Failed.ok = FALSE
    BY DEF Failed
  <2> QED BY <2>1, Zenon DEF DecodeNoVecPrefix
<1> QED BY <1>1

LEMMA VersionByte ==
  ASSUME NEW x \in Nat, x % 128 = 4, x < 256
  PROVE  x = IF x < 128 THEN 4 ELSE 132
OBVIOUS

LEMMA InnerIsExact ==
  ASSUME NEW input \in Seq(Nat), DecodeNoVecPrefix(input).ok, input[1] < 256
  PROVE  Exact(input, DecodeNoVecPrefix(input))
<1>0. DecodeNoVecPrefix(input).xt \in Xts
  BY InnerIsXt
<1>1. ASSUME NEW function \in Seq(Nat), UnsignedShape(input, function)
      PROVE  Exact(input, DecodeNoVecPrefix(input))
  <2> DEFINE body == Body(NewUnsigned(function))
             n == 2 + Len(function)
  <2>1. /\ body \in Seq(Nat) /\ Len(function) \in Nat /\ Len(body) = n
        /\ body[1] = 4 /\ body[2] = Len(function)
        /\ \A k \in 1 .. Len(function) : body[2 + k] = function[k]
    BY UnsignedBytes DEF UnsignedAs
  <2>2. /\ input[1] < 128 /\ input[1] % 128 = 4
        /\ input[2] = Len(function) /\ n <= Len(input)
        /\ \A k \in 1 .. Len(function) : input[2 + k] = function[k]
    BY <1>1 DEF UnsignedShape
  <2>3. /\ DecodeNoVecPrefix(input).xt = NewUnsigned(function)
        /\ DecodeNoVecPrefix(input).rest = SubSeq(input, n + 1, Len(input))
    BY <1>1 DEF UnsignedShape, Decoded
  <2> HIDE DEF body
  <2>4. input[1] = 4
    BY <2>2, NotEmpty, VersionByte
  <2>5. ASSUME NEW k \in 1 .. Len(body) PROVE input[k] = body[k]
    <3>1. CASE k <= 2
      <4>1. k = 1 \/ k = 2
        BY <2>1, <3>1
      <4> QED BY <2>1, <2>2, <2>4, <4>1
    <3>2. CASE ~(k <= 2)
      <4>1. PICK j \in 1 .. Len(function) : k = 2 + j
        <5>1. k - 2 \in 1 .. Len(function) /\ k = 2 + (k - 2)
          BY <2>1, <3>2
        <5> QED BY <5>1
      <4> QED BY <2>1, <2>2, <4>1
    <3> QED BY <3>1, <3>2
  <2>6. BeginsWith(input, body)
    BY <2>1, <2>2, <2>5 DEF BeginsWith
  <2>7. Len(SubSeq(input, n + 1, Len(input))) = Len(input) - n
    <3>1. n \in Nat
      BY <2>1
    <3> HIDE DEF n
    <3> QED BY <2>2, <3>1, RestBehind, Zenon
  <2> QED BY <1>0, <2>1, <2>3, <2>6, <2>7 DEF Exact, body
<1>2. ASSUME NEW function \in Seq(Nat), NEW extra \in Extras, SignedShape(input, function, extra)
      PROVE  Exact(input, DecodeNoVecPrefix(input))
  <2> DEFINE signed == input[2]
             by == input[3]
             at == 4 + Arity
             n == 4 + Arity + Len(function)
             body == Body(NewSigned(function, signed, by, extra))
  <2>1. /\ input[1] >= 128 /\ input[1] % 128 = 4
        /\ signed \in Nat /\ by \in Nat
        /\ \A k \in 1 .. Arity : input[3 + k] = extra[k]
        /\ input[at] = Len(function) /\ n <= Len(input)
        /\ \A k \in 1 .. Len(function) : input[at + k] = function[k]
    BY <1>2 DEF SignedShape
  <2>2. /\ DecodeNoVecPrefix(input).xt = NewSigned(function, signed, by, extra)
        /\ DecodeNoVecPrefix(input).rest = SubSeq(input, n + 1, Len(input))
    <3>1. DecodeNoVecPrefix(input) = Decoded(NewSigned(function, signed, by, extra), SubSeq(input, n + 1, Len(input)))
      BY <1>2, Zenon DEF SignedShape
    <3> DEFINE xt == NewSigned(function, signed, by, extra)
               rest == SubSeq(input, n + 1, Len(input))
               decoded == DecodeNoVecPrefix(input)
    <3>2. decoded = Decoded(xt, rest)
      BY <3>1
    <3> HIDE DEF xt, rest, decoded
    <3>3. decoded.xt = xt /\ decoded.rest = rest
      BY <3>2 DEF Decoded
    <3> QED BY <3>3 DEF xt, rest, decoded
  <2>3. SignedAs(body, function, signed, by, extra)
    <3> HIDE DEF signed, by
    <3> QED BY <2>1, SignedBytes, Zenon
  <2> HIDE DEF body
  <2>4. /\ body \in Seq(Nat) /\ Len(function) \in Nat /\ Len(body) = n
        /\ body[1] = 132 /\ body[2] = signed /\ body[3] = by
        /\ \A k \in 1 .. Arity : body[3 + k] = extra[k]
        /\ body[at] = Len(function)
        /\ \A k \in 1 .. Len(function) : body[at + k] = function[k]
    BY <2>3 DEF SignedAs
  <2>5. input[1] = 132
    <3> DEFINE first == input[1]
    <3>1. first \in Nat /\ first < 256
      BY NotEmpty
    <3>2. first >= 128 /\ first % 128 = 4
      BY <1>2, Zenon DEF SignedShape
    <3> HIDE DEF first
    <3>3. first = 132
      BY <3>1, <3>2, VersionByte
    <3> QED BY <3>3 DEF first
  <2>6. Arity \in Nat /\ at = 4 + Arity /\ n = at + Len(function)
    BY Arities
  <2> HIDE DEF signed, by, at, n
  <2>7. ASSUME NEW k \in 1 .. Len(body) PROVE input[k] = body[k]
    <3>1. CASE k <= 3
      <4>1. k = 1 \/ k = 2 \/ k = 3
        BY <2>4, <3>1
      <4> QED BY <2>4, <2>5, <4>1 DEF signed, by
    <3>2. CASE ~(k <= 3) /\ k < at
      <4>1. PICK j \in 1 .. Arity : k = 3 + j
        <5>1. k - 3 \in 1 .. Arity /\ k = 3 + (k - 3)
          BY <2>6, <3>2
        <5> QED BY <5>1
      <4> QED BY <2>1, <2>4, <4>1
    <3>3. CASE k = at
      BY <2>1, <2>4, <3>3
    <3>4. CASE k > at
      <4>1. PICK j \in 1 .. Len(function) : k = at + j
        <5>1. k - at \in 1 .. Len(function) /\ k = at + (k - at)
          BY <2>4, <2>6, <3>4
        <5> QED BY <5>1
      <4> QED BY <2>1, <2>4, <4>1
    <3> QED BY <2>6, <3>1, <3>2, <3>3, <3>4
  <2>8. BeginsWith(input, body)
    BY <2>1, <2>4, <2>7 DEF BeginsWith
  <2>9. Len(SubSeq(input, n + 1, Len(input))) = Len(input) - n
    <3>1. n \in Nat
      BY <2>4, <2>6
    <3> QED BY <2>1, <3>1, RestBehind, Zenon
  <2> QED BY <1>0, <2>2, <2>4, <2>8, <2>9 DEF Exact, body
<1> QED BY <1>1, <1>2, InnerShape

\* Bytes whose second is one, as far as they go.
Bytewise(s) == s \in Seq(Nat) /\ (Len(s) >= 2 => s[2] < 256)

Canonical(route, bytes, xt) ==
  LET again == EncodeExtrinsic(xt)
  IN  /\ route \in {"slice", "json"} => IsPrefix(again, bytes)
      /\ IsPrefix(Tail(again), Tail(bytes))

\* The body with its own length before it.
LEMMA CanonicalFromBody ==
  ASSUME NEW bytes \in Seq(Nat), bytes # << >>, NEW xt \in Xts, NEW route,
         BeginsWith(Tail(bytes), Body(xt)),
         route \in {"slice", "json"} => Head(bytes) = Len(Body(xt))
  PROVE  Canonical(route, bytes, xt)
<1> DEFINE body == Body(xt)
           again == EncodeExtrinsic(xt)
           tail == Tail(bytes)
<1>1. body \in Seq(Nat) /\ Len(body) \in Nat /\ again = EncodeVec(body)
  BY Bytes
<1>2. /\ Tail(again) = body /\ again \in Seq(Nat) /\ Len(again) = 1 + Len(body)
      /\ again[1] = Len(body) /\ \A k \in 1 .. Len(body) : again[1 + k] = body[k]
  BY <1>1, VecBytes, VecParts
<1>3. BeginsWith(tail, body)
  OBVIOUS
<1>4. /\ tail \in Seq(Nat) /\ Len(tail) = Len(bytes) - 1 /\ Len(bytes) \in Nat
      /\ Head(bytes) = bytes[1] /\ \A k \in 1 .. Len(tail) : tail[k] = bytes[1 + k]
  <2>1. /\ Tail(bytes) \in Seq(Nat) /\ Len(Tail(bytes)) = Len(bytes) - 1
        /\ \A k \in 1 .. Len(Tail(bytes)) : Tail(bytes)[k] = bytes[k + 1]
    BY HeadTailProperties
  <2>2. Len(bytes) \in Nat /\ Head(bytes) = bytes[1]
    OBVIOUS
  <2>3. ASSUME NEW k \in 1 .. Len(tail) PROVE tail[k] = bytes[1 + k]
    <3>1. k + 1 = 1 + k
      BY <2>1, <2>2
    <3> QED BY <2>1, <3>1
  <2> QED BY <2>1, <2>2, <2>3
<1>5. IsPrefix(Tail(again), tail)
  BY <1>2, <1>3, PrefixOf
<1>6. ASSUME route \in {"slice", "json"} PROVE IsPrefix(again, bytes)
  <2>1. bytes[1] = Len(body)
    BY <1>4, <1>6
  <2> HIDE DEF body, again, tail
  <2>2. Len(body) <= Len(tail) /\ \A k \in 1 .. Len(body) : tail[k] = body[k]
    BY <1>3 DEF BeginsWith
  <2>3. ASSUME NEW k \in 1 .. Len(again) PROVE bytes[k] = again[k]
    <3>1. CASE k = 1
      BY <1>2, <2>1, <3>1
    <3>2. CASE k # 1
      <4>1. PICK j \in 1 .. Len(body) : k = 1 + j
        <5>1. k - 1 \in 1 .. Len(body) /\ k = 1 + (k - 1)
          BY <1>1, <1>2, <3>2
        <5> QED BY <5>1
      <4>2. j \in 1 .. Len(tail)
        BY <1>1, <1>4, <2>2
      <4> QED BY <1>2, <1>4, <2>2, <4>1, <4>2
    <3> QED BY <3>1, <3>2
  <2>4. BeginsWith(bytes, again)
    BY <1>1, <1>2, <1>4, <2>2, <2>3 DEF BeginsWith
  <2> QED BY <2>4, PrefixOf
<1> QED BY <1>5, <1>6 DEF Canonical

LEMMA ExtrinsicIsExact ==
  ASSUME NEW bytes, Bytewise(bytes), NEW known \in BOOLEAN, DecodeExtrinsic(bytes, known).ok
  PROVE  /\ bytes # << >> /\ DecodeExtrinsic(bytes, known).xt \in Xts
         /\ BeginsWith(Tail(bytes), Body(DecodeExtrinsic(bytes, known).xt))
         /\ known => Head(bytes) = Len(Body(DecodeExtrinsic(bytes, known).xt))
<1> DEFINE inner == DecodeNoVecPrefix(Tail(bytes))
<1>1. /\ bytes \in Seq(Nat) /\ bytes # << >> /\ Tail(bytes) \in Seq(Nat)
      /\ inner.ok /\ DecodeExtrinsic(bytes, known) = inner
  BY ExtrinsicIsXt DEF Bytewise
<1>2. Tail(bytes)[1] < 256
  <2>1. /\ Len(Tail(bytes)) = Len(bytes) - 1 /\ Len(bytes) \in Nat
        /\ \A k \in 1 .. Len(Tail(bytes)) : Tail(bytes)[k] = bytes[k + 1]
    BY <1>1, HeadTailProperties
  <2>2. Len(Tail(bytes)) \in Nat /\ Len(Tail(bytes)) # 0
    BY <1>1, NotEmpty
  <2>3. 1 \in 1 .. Len(Tail(bytes)) /\ 1 + 1 = 2 /\ Len(bytes) >= 2
    BY <2>1, <2>2
  <2>4. Tail(bytes)[1] = bytes[2]
    BY <2>1, <2>3
  <2> QED BY <2>3, <2>4 DEF Bytewise
<1>3. Exact(Tail(bytes), inner)
  BY <1>1, <1>2, InnerIsExact
<1>4. known => Head(bytes) = Len(bytes) - 1 - Len(inner.rest)
  <2>1. ~(Len(bytes) = 0)
    BY <1>1
  <2>2. Failed.ok = FALSE
    BY DEF Failed
  <2> DEFINE differs == Len(bytes) - 1 - Len(inner.rest) # Head(bytes)
  <2>3. DecodeExtrinsic(bytes, known) = IF inner.ok /\ known /\ differs THEN Failed ELSE inner
    BY <2>1, Zenon DEF DecodeExtrinsic
  <2> HIDE DEF inner, differs
  <2>4. known => ~differs
    BY <1>1, <2>2, <2>3, Zenon
  <2> QED BY <2>4 DEF differs
<1>5. known => Head(bytes) = Len(Body(inner.xt))
  <2>1. Len(Tail(bytes)) = Len(bytes) - 1 /\ Len(bytes) \in Nat
    BY <1>1, HeadTailProperties
  <2>2. Len(inner.rest) = Len(Tail(bytes)) - Len(Body(inner.xt)) /\ Len(Body(inner.xt)) \in Nat
    BY <1>3, Bytes DEF Exact
  <2> DEFINE all == Len(bytes)
             behind == Len(Tail(bytes))
             left == Len(inner.rest)
             own == Len(Body(inner.xt))
  <2>3. known => Head(bytes) = all - 1 - left
    BY <1>4
  <2>4. behind = all - 1 /\ all \in Nat /\ left = behind - own /\ own \in Nat
    BY <2>1, <2>2
  <2> HIDE DEF all, behind, left, own
  <2>5. all - 1 - left = own
    BY <2>4
  <2>6. known => Head(bytes) = own
    BY <2>3, <2>5
  <2> QED BY <2>6 DEF own
<1> QED BY <1>1, <1>3, <1>5 DEF Exact

LEMMA ReceivedIsExact ==
  ASSUME NEW bytes, Bytewise(bytes), NEW route \in Routes, Received(route, bytes).ok
  PROVE  Canonical(route, bytes, Received(route, bytes).xt)
<1> DEFINE received == Received(route, bytes)
           xt == received.xt
<1>0. bytes \in Seq(Nat)
  BY DEF Bytewise
<1>1. CASE route \in {"slice", "json"}
  <2>1. received = DecodeExtrinsic(bytes, TRUE)
    BY <1>1 DEF Received, Deserialize
  <2>2. /\ bytes # << >> /\ xt \in Xts /\ BeginsWith(Tail(bytes), Body(xt))
        /\ Head(bytes) = Len(Body(xt))
    BY <2>1, ExtrinsicIsExact
  <2> HIDE DEF received, xt
  <2>3. Canonical(route, bytes, xt)
    BY <1>0, <2>2, CanonicalFromBody, Zenon
  <2> QED BY <2>3 DEF xt, received
<1>2. CASE route = "reader"
  <2>1. received = DecodeExtrinsic(bytes, FALSE)
    BY <1>2 DEF Received
  <2>2. bytes # << >> /\ xt \in Xts /\ BeginsWith(Tail(bytes), Body(xt))
    BY <2>1, ExtrinsicIsExact
  <2>3. route \notin {"slice", "json"}
    BY <1>2
  <2> HIDE DEF received, xt
  <2>4. Canonical(route, bytes, xt)
    BY <1>0, <2>2, <2>3, CanonicalFromBody, Zenon
  <2> QED BY <2>4 DEF xt, received
<1>3. CASE route = "opaque"
  <2> DEFINE opaque == OpaqueFromBytes(bytes)
             n == Head(bytes)
             last == n + 1
             inner == DecodeNoVecPrefix(opaque.xt)
  <2>1. received = DecodeThroughOpaque(bytes)
    BY <1>3 DEF Received
  <2>2. opaque.ok /\ received = inner
    BY <2>1 DEF DecodeThroughOpaque, Failed, TryFromOpaque
  <2>3. Len(bytes) \in Nat /\ Len(bytes) # 0 /\ Len(bytes) - 1 >= n
        /\ opaque.xt = SubSeq(bytes, 2, n + 1)
    BY <1>0, <2>2 DEF OpaqueFromBytes, Failed, Decoded
  <2>4. /\ n \in Nat /\ bytes # << >>
        /\ Tail(bytes) \in Seq(Nat) /\ Len(Tail(bytes)) = Len(bytes) - 1
        /\ \A k \in 1 .. Len(Tail(bytes)) : Tail(bytes)[k] = bytes[k + 1]
    <3>1. bytes # << >> /\ n \in Nat
      BY <1>0, <2>3
    <3> QED BY <1>0, <3>1, HeadTailProperties
  <2>5. inner.ok
    BY <2>2
  <2> DEFINE piece == SubSeq(bytes, 1 + 1, last)
  <2>6. opaque.xt = piece
    BY <2>3
  <2> HIDE DEF n
  <2>7. 1 \in Nat /\ last \in Nat /\ 1 <= last /\ last <= Len(bytes) /\ last - 1 = n
    BY <2>3, <2>4
  <2> HIDE DEF last
  <2>8. /\ piece \in Seq(Nat) /\ Len(piece) = last - 1
        /\ \A k \in 1 .. (last - 1) : piece[k] = bytes[1 + k]
    BY <1>0, <2>7, Piece, Zenon
  <2> HIDE DEF opaque, piece
  <2>9. DecodeNoVecPrefix(piece) = inner /\ DecodeNoVecPrefix(piece).ok
    BY <2>5, <2>6, Zenon
  <2> HIDE DEF inner
  <2>10. piece[1] < 256
    <3>1. 1 \in 1 .. Len(piece)
      BY <2>8, <2>9, NotEmpty
    <3>2. piece[1] = bytes[2] /\ Len(bytes) >= 2
      BY <2>3, <2>7, <2>8, <3>1
    <3> QED BY <3>2 DEF Bytewise
  <2>11. Exact(piece, inner)
    BY <2>8, <2>9, <2>10, InnerIsExact
  <2>12. inner.xt \in Xts /\ BeginsWith(Tail(bytes), Body(inner.xt))
    <3> DEFINE body == Body(inner.xt)
               tail == Tail(bytes)
    <3>1. /\ inner.xt \in Xts /\ body \in Seq(Nat) /\ Len(body) <= Len(piece)
          /\ \A k \in 1 .. Len(body) : piece[k] = body[k]
      BY <2>11 DEF Exact, BeginsWith
    <3>2. /\ tail \in Seq(Nat) /\ Len(tail) = Len(bytes) - 1
          /\ \A k \in 1 .. Len(tail) : tail[k] = bytes[k + 1]
      BY <2>4
    <3> HIDE DEF body, tail
    <3>3. Len(body) \in Nat
      BY <3>1
    <3>4. Len(body) <= Len(tail) /\ Len(body) <= last - 1 /\ Len(tail) \in Nat
      BY <2>3, <2>7, <2>8, <3>1, <3>2, <3>3
    <3>5. ASSUME NEW k \in 1 .. Len(body) PROVE tail[k] = body[k]
      <4>1. k \in 1 .. (last - 1) /\ k \in 1 .. Len(tail) /\ k + 1 = 1 + k
        BY <2>7, <3>3, <3>4
      <4> QED BY <2>8, <3>1, <3>2, <4>1
    <3>6. BeginsWith(tail, body)
      BY <3>1, <3>2, <3>4, <3>5 DEF BeginsWith
    <3> QED BY <3>1, <3>6 DEF body, tail
  <2>13. route \notin {"slice", "json"}
    BY <1>3
  <2>14. Canonical(route, bytes, inner.xt)
    BY <1>0, <2>4, <2>12, <2>13, CanonicalFromBody, Zenon
  <2> QED BY <2>2, <2>14
<1> QED BY <1>1, <1>2, <1>3 DEF Routes

\* What is under way are bytes, and once decoded what they say.
CanonInv ==
  /\ pool.phase = "sent" => Bytewise(pool.arrived)
  /\ pool.phase \in {"decoded", "included"} => Canonical(pool.route, pool.arrived, pool.xt)

LEMMA EncodedIsBytewise ==
  ASSUME NEW xt \in Xts
  PROVE  Bytewise(EncodeExtrinsic(xt))
<1> DEFINE body == Body(xt)
           t == EncodeExtrinsic(xt)
<1>1. body \in Seq(Nat) /\ Len(body) \in Nat /\ Len(body) >= 2 /\ t = EncodeVec(body) /\ t \in Seq(Nat)
  BY Bytes
<1>2. body[1] \in {4, 132}
  <2>1. CASE xt \in Unsigneds
    <3>1. PICK function \in Seq(Nat) : xt = NewUnsigned(function)
      BY <2>1 DEF Unsigneds
    <3> QED BY <3>1, UnsignedBytes DEF UnsignedAs
  <2>2. CASE xt \in Signeds
    <3>1. PICK function \in Seq(Nat), signed \in Nat, by \in Nat, extra \in Extras :
            xt = NewSigned(function, signed, by, extra)
      BY <2>2 DEF Signeds
    <3>2. SignedAs(body, function, signed, by, extra)
      BY <3>1, SignedBytes, Zenon
    <3> QED BY <3>2 DEF SignedAs
  <2> QED BY <2>1, <2>2 DEF Xts
<1>3. t[2] = body[1]
  <2>1. \A k \in 1 .. Len(body) : t[1 + k] = body[k]
    BY <1>1, VecBytes
  <2>2. 1 \in 1 .. Len(body) /\ 1 + 1 = 2
    BY <1>1
  <2> HIDE DEF body, t
  <2> QED BY <2>1, <2>2
<1> HIDE DEF body, t
<1>4. Bytewise(t)
  BY <1>1, <1>2, <1>3 DEF Bytewise
<1> QED BY <1>4 DEF t

LEMMA StepCanonInv == MeantInv /\ CanonInv /\ [Next]_vars => CanonInv'
<1> SUFFICES ASSUME MeantInv, CanonInv, [Next]_vars PROVE CanonInv'
  OBVIOUS
<1>1. ASSUME UNCHANGED nodeVars PROVE CanonInv'
  <2>1. pool' = pool
    BY <1>1 DEF nodeVars
  <2> QED BY <2>1 DEF CanonInv, Canonical, Bytewise
<1>2. ASSUME NEW tx \in Txs, NEW route \in Routes, Submit(tx, route) PROVE CanonInv'
  <2> DEFINE k == Len(issued) + 1
             xt == Xt(tx, k)
             sent == IF route = "json" THEN Serialize(xt) ELSE EncodeExtrinsic(xt)
  <2>1. sent = EncodeExtrinsic(xt)
    BY DEF Serialize
  <2>2. PICK arrived \in {sent} \cup Damage(sent) :
          pool' = [number |-> pool.number + 1, phase |-> "sent", tx |-> tx, sent |-> sent,
                   arrived |-> arrived, route |-> route, xt |-> xt]
    BY <1>2 DEF Submit
  <2>3. k \in 1 .. MaxSubmits /\ k \in Nat
    BY <1>2, JourneyAssumption DEF MeantInv, PoolInv, IssuedInv, Submit
  <2> HIDE DEF k, sent
  <2>4. xt \in Xts
    BY <2>3, XtOfTx
  <2>5. Bytewise(arrived)
    <3>1. CASE arrived = sent
      BY <2>1, <2>4, <3>1, EncodedIsBytewise, Zenon
    <3>2. CASE arrived \in Damage(sent)
      <4>1. arrived \in Damage(EncodeExtrinsic(Xt(tx, k)))
        BY <2>1, <3>2, Zenon
      <4>2. arrived \in Seq(Nat) /\ \A j \in 1 .. Len(arrived) : arrived[j] < 256
        BY <2>3, <4>1, DamagedAreBytes, Zenon
      <4>3. Len(arrived) >= 2 => 2 \in 1 .. Len(arrived)
        BY <4>2
      <4> QED BY <4>2, <4>3, Zenon DEF Bytewise
    <3> QED BY <2>2, <3>1, <3>2
  <2> HIDE DEF xt
  <2>6. pool'.phase = "sent" /\ pool'.arrived = arrived
    BY <2>2
  <2> QED BY <2>5, <2>6 DEF CanonInv, Bytewise
<1>3. ASSUME Decode PROVE CanonInv'
  <2> DEFINE decoded == Received(pool.route, pool.arrived)
  <2>1. /\ pool.phase = "sent"
        /\ pool' = IF decoded.ok THEN [pool EXCEPT !.phase = "decoded", !.xt = decoded.xt]
                   ELSE [pool EXCEPT !.phase = "refused"]
    BY <1>3 DEF Decode
  <2>2. Bytewise(pool.arrived) /\ pool.route \in Routes
    BY <2>1 DEF CanonInv, MeantInv, PoolInv
  <2>3. decoded.ok => Canonical(pool.route, pool.arrived, decoded.xt)
    BY <2>2, ReceivedIsExact
  <2> HIDE DEF decoded
  <2>4. /\ pool'.route = pool.route /\ pool'.arrived = pool.arrived
        /\ pool'.phase = IF decoded.ok THEN "decoded" ELSE "refused"
        /\ decoded.ok => pool'.xt = decoded.xt
    BY <2>1 DEF MeantInv, PoolInv
  <2> QED BY <2>3, <2>4 DEF CanonInv, Canonical
<1>4. ASSUME CheckAndInclude PROVE CanonInv'
  <2>1. /\ pool.phase = "decoded"
        /\ pool'.phase \in {"included", "refused"}
        /\ pool'.route = pool.route /\ pool'.arrived = pool.arrived /\ pool'.xt = pool.xt
    BY <1>4 DEF CheckAndInclude, MeantInv, PoolInv
  <2> QED BY <2>1 DEF CanonInv, Canonical
<1>5. CASE UNCHANGED vars
  BY <1>1, <1>5 DEF vars, nodeVars
<1>6. CASE \E app \in {tx.app : tx \in Txs} : Open(app)
  BY <1>1, <1>6 DEF Open
<1>7. CASE Client
  BY <1>1, <1>7 DEF Client, ClientAsk
<1> QED BY <1>2, <1>3, <1>4, <1>5, <1>6, <1>7 DEF Next

\* Whatever arrives, what is decoded from it is what its encoding says, and no
\* reader that knows its length accepts another prefix.
THEOREM DecodingIsCanonical == Spec => []DecodedIsCanonical
<1>1. Init => CanonInv
  <2> SUFFICES ASSUME Init PROVE CanonInv
    OBVIOUS
  <2>1. pool.phase = "free"
    BY DEF Init, FreePool
  <2> QED BY <2>1 DEF CanonInv
<1>2. CanonInv => DecodedIsCanonical
  BY DEF CanonInv, Canonical, DecodedIsCanonical
<1> QED BY <1>1, <1>2, MeantInvariance, StepCanonInv, PTL DEF Spec

-------------------------------------------------------------------------------
\* The slices of the cells are the bytes, and zeroes behind them.

Slices(bytes) == ExtractEncodedExtrinsic(CellsOf(bytes))

LEMMA SlicesFlatten ==
  ASSUME NEW bytes \in Seq(Nat), bytes # << >>
  PROVE  /\ Slices(bytes) \in Seq(Seq(Nat))
         /\ \E zeroes \in Seq(Nat) : FlattenSeq(Slices(bytes)) = bytes \o zeroes
<1> DEFINE pieces == Pieces(bytes, DATA_CHUNK_SIZE)
<1>1. CellsOf(bytes) = [k \in DOMAIN pieces |-> PadWithZeroes(pieces[k], SCALAR_SIZE)]
  BY DEF CellsOf
<1> HIDE DEF pieces
<1>2. Slices(bytes) = [k \in DOMAIN pieces |->
        SubSeq(PadWithZeroes(pieces[k], SCALAR_SIZE), 1, DATA_CHUNK_SIZE)]
  BY <1>1 DEF Slices, ExtractEncodedExtrinsic
<1>3. Slices(bytes) = DataSlices(bytes, SCALAR_SIZE)
  BY <1>2 DEF DataSlices, pieces
<1>4. SCALAR_SIZE \in Nat /\ DATA_CHUNK_SIZE <= SCALAR_SIZE
  BY ChunkAssumption
<1>5. DataSlices(bytes, SCALAR_SIZE) \in Seq(Seq(Nat))
      /\ \E more \in Nat : FlattenSeq(DataSlices(bytes, SCALAR_SIZE)) = bytes \o Zeroes(more)
  BY <1>4, DataSlicesFlatten
<1> QED BY <1>3, <1>5, ZeroesAre

-------------------------------------------------------------------------------
\* The reader of slices is a stream.

\* The bytes not handed out yet, those in the buffer of a read under way included.
Rest == (IF asked = Idle THEN << >> ELSE buf) \o FlattenSeq(parts)

ReaderInv ==
  /\ parts \in Seq(Seq(Nat)) /\ buf \in Seq(Nat)
  /\ asked \in Nat \cup {Idle}
  /\ asked # Idle => Len(buf) <= asked

LEMMA RestTyped ==
  ASSUME ReaderInv
  PROVE  /\ FlattenSeq(parts) \in Seq(Nat) /\ Rest \in Seq(Nat)
         /\ asked = Idle => Rest = FlattenSeq(parts)
         /\ asked # Idle => Rest = buf \o FlattenSeq(parts)
<1>1. parts \in Seq(Seq(Nat)) /\ buf \in Seq(Nat)
  BY DEF ReaderInv
<1>2. FlattenSeq(parts) \in Seq(Nat)
  BY <1>1, FlattenTyped
<1>3. << >> \o FlattenSeq(parts) = FlattenSeq(parts) /\ buf \o FlattenSeq(parts) \in Seq(Nat)
  BY <1>1, <1>2, ConcatEmptySeq, ConcatProperties
<1> QED BY <1>2, <1>3 DEF Rest

\* What is taken from the front of a part and what is put back are the part.
LEMMA PartSplit ==
  ASSUME NEW part \in Seq(Nat), NEW n \in 0 .. Len(part)
  PROVE  /\ SubSeq(part, 1, n) \in Seq(Nat) /\ Len(SubSeq(part, 1, n)) = n
         /\ SubSeq(part, n + 1, Len(part)) \in Seq(Nat)
         /\ SubSeq(part, 1, n) \o SubSeq(part, n + 1, Len(part)) = part
<1>1. Len(part) \in Nat /\ n \in Nat
  BY LenProperties
<1>2. \A i \in 1 .. n : part[i] \in Nat
  BY <1>1, ElementOfSeq
<1>3. \A i \in (n + 1) .. Len(part) : part[i] \in Nat
  BY <1>1, ElementOfSeq
<1>4. SubSeq(part, 1, n) \in Seq(Nat) /\ Len(SubSeq(part, 1, n)) = n
  <2>1. 1 \in Int /\ n \in Int /\ n = (IF 1 <= n THEN n - 1 + 1 ELSE 0)
    BY <1>1
  <2> QED BY <1>2, <2>1, SubSeqProperties
<1>5. SubSeq(part, n + 1, Len(part)) \in Seq(Nat)
  <2>1. n + 1 \in Int /\ Len(part) \in Int
    BY <1>1
  <2> QED BY <1>3, <2>1, SubSeqProperties
<1>6. SubSeq(part, 1, n) \o SubSeq(part, n + 1, Len(part)) = part
  <2>1. 1 \in 1 .. Len(part) + 1 /\ n \in 1 - 1 .. Len(part) /\ Len(part) \in n .. Len(part)
    BY <1>1
  <2>2. SubSeq(part, 1, n) \o SubSeq(part, n + 1, Len(part)) = SubSeq(part, 1, Len(part))
    BY <2>1, ConcatAdjacentSubSeq
  <2> QED BY <2>2, SubSeqFull
<1> QED BY <1>4, <1>5, <1>6

LEMMA HeadFirst ==
  ASSUME NEW S, NEW seqs \in Seq(S), seqs # << >>
  PROVE  Head(seqs) \in S /\ Tail(seqs) \in Seq(S) /\ seqs = << Head(seqs) >> \o Tail(seqs)
<1>1. Len(seqs) \in Nat \ {0} /\ Head(seqs) = seqs[1]
  BY EmptySeq
<1>2. Head(seqs) \in S /\ Tail(seqs) \in Seq(S)
  BY HeadTailProperties
<1>3. Tail(seqs) = SubSeq(seqs, 2, Len(seqs)) /\ SubSeq(seqs, 1, Len(seqs)) = seqs
  BY TailIsSubSeq, SubSeqFull
<1>4. SubSeq(seqs, 1, Len(seqs)) = << seqs[1] >> \o SubSeq(seqs, 1 + 1, Len(seqs))
  <2>1. 1 \in 1 .. Len(seqs) /\ Len(seqs) \in 1 .. Len(seqs)
    BY <1>1
  <2> QED BY <2>1, SubSeqRecursiveFirst
<1>5. 1 + 1 = 2
  OBVIOUS
<1> QED BY <1>1, <1>2, <1>3, <1>4, <1>5

LEMMA PushedFront ==
  ASSUME NEW part \in Seq(Nat), NEW others \in Seq(Seq(Nat))
  PROVE  /\ PushFront(part, others) \in Seq(Seq(Nat))
         /\ FlattenSeq(PushFront(part, others)) = part \o FlattenSeq(others)
<1>1. FlattenSeq(others) \in Seq(Nat)
  BY FlattenTyped
<1>2. CASE part = << >>
  <2>1. << >> \o FlattenSeq(others) = FlattenSeq(others)
    BY <1>1, ConcatEmptySeq
  <2> QED BY <1>2, <2>1 DEF PushFront
<1>3. CASE part # << >>
  <2>1. << part >> \o others \in Seq(Seq(Nat))
    <3>1. << part >> \in Seq(Seq(Nat))
      OBVIOUS
    <3> QED BY <3>1, ConcatProperties
  <2>2. FlattenSeq(<< part >> \o others) = part \o FlattenSeq(others)
    BY FlattenCons
  <2> QED BY <1>3, <2>1, <2>2 DEF PushFront
<1> QED BY <1>2, <1>3

LEMMA ThreeJoined ==
  ASSUME NEW x \in Seq(Nat), NEW y \in Seq(Nat), NEW z \in Seq(Nat)
  PROVE  (x \o y) \o z = x \o (y \o z)
BY ConcatAssociative

LEMMA CopyKeeps ==
  ASSUME ReaderInv, CopyPart
  PROVE  ReaderInv' /\ Rest' = Rest
<1> DEFINE next == Head(parts)
           copied == IF Len(next) < BufLen THEN Len(next) ELSE BufLen
           taken == SubSeq(next, 1, copied)
           back == SubSeq(next, copied + 1, Len(next))
           others == Tail(parts)
<1>1. /\ asked # Idle /\ asked' = asked /\ BufLen > 0 /\ parts # << >>
      /\ buf' = buf \o taken /\ parts' = PushFront(back, others)
  BY DEF CopyPart
<1>2. asked \in Nat /\ buf \in Seq(Nat) /\ Len(buf) \in Nat /\ Len(buf) <= asked
  BY <1>1, LenProperties DEF ReaderInv
<1>3. next \in Seq(Nat) /\ others \in Seq(Seq(Nat)) /\ parts = << next >> \o others
  BY <1>1, HeadFirst DEF ReaderInv
<1>4. copied \in 0 .. Len(next) /\ Len(buf) + copied <= asked /\ copied \in Nat
  <2>1. Len(next) \in Nat
    BY <1>3, LenProperties
  <2>2. BufLen = asked - Len(buf)
    BY DEF BufLen
  <2> HIDE DEF next
  <2> QED BY <1>1, <1>2, <2>1, <2>2
<1> HIDE DEF next, copied, others
<1>5. taken \in Seq(Nat) /\ Len(taken) = copied /\ back \in Seq(Nat) /\ taken \o back = next
  BY <1>3, <1>4, PartSplit
<1> HIDE DEF taken, back
<1>6. parts' \in Seq(Seq(Nat)) /\ FlattenSeq(parts') = back \o FlattenSeq(others)
  BY <1>1, <1>3, <1>5, PushedFront
<1>7. buf' \in Seq(Nat) /\ Len(buf') = Len(buf) + copied
  BY <1>1, <1>2, <1>5, ConcatProperties
<1>8. ReaderInv'
  BY <1>1, <1>2, <1>4, <1>6, <1>7 DEF ReaderInv
<1>9. FlattenSeq(parts) = next \o FlattenSeq(others) /\ FlattenSeq(others) \in Seq(Nat)
  <2>1. FlattenSeq(<< next >> \o others) = next \o FlattenSeq(others)
    BY <1>3, FlattenCons
  <2>2. FlattenSeq(others) \in Seq(Nat)
    BY <1>3, FlattenTyped
  <2> QED BY <1>3, <2>1, <2>2
<1> DEFINE behind == FlattenSeq(others)
<1>10. behind \in Seq(Nat)
  BY <1>9
<1>11. FlattenSeq(parts') = back \o behind /\ FlattenSeq(parts) = next \o behind
  BY <1>6, <1>9
<1>12. Rest = buf \o FlattenSeq(parts) /\ Rest' = buf' \o FlattenSeq(parts')
  BY <1>1 DEF Rest
<1> HIDE DEF behind
<1>13. (buf \o taken) \o (back \o behind) = buf \o ((taken \o back) \o behind)
  <2>1. buf \in Seq(Nat) /\ taken \in Seq(Nat) /\ back \in Seq(Nat) /\ behind \in Seq(Nat)
    BY <1>2, <1>5, <1>10
  <2>2. back \o behind \in Seq(Nat)
    BY <2>1, ConcatProperties
  <2>3. \A x \in Seq(Nat), y \in Seq(Nat), z \in Seq(Nat) : (x \o y) \o z = x \o (y \o z)
    BY ThreeJoined
  <2>4. (buf \o taken) \o (back \o behind) = buf \o (taken \o (back \o behind))
    BY <2>1, <2>2, <2>3, Zenon
  <2>5. (taken \o back) \o behind = taken \o (back \o behind)
    BY <2>1, <2>3, Zenon
  <2> QED BY <2>4, <2>5, Zenon
<1>14. Rest' = Rest
  BY <1>1, <1>5, <1>11, <1>12, <1>13, Zenon
<1> QED BY <1>8, <1>14

\* Two ways of cutting the same bytes at the same place.
LEMMA SameCut ==
  ASSUME NEW a \in Seq(Nat), NEW b \in Seq(Nat), NEW p \in Seq(Nat), NEW q \in Seq(Nat),
         a \o b = p \o q, Len(a) = Len(p)
  PROVE  a = p /\ b = q
<1>1. /\ Len(a) \in Nat /\ Len(b) \in Nat /\ Len(q) \in Nat
      /\ Len(a \o b) = Len(a) + Len(b) /\ Len(p \o q) = Len(p) + Len(q)
  BY ConcatProperties, LenProperties
<1>2. Len(b) = Len(q)
  BY <1>1
<1>3. \A i \in 1 .. Len(a) : (a \o b)[i] = a[i] /\ (p \o q)[i] = p[i]
  BY Before
<1>4. ASSUME NEW i \in 1 .. Len(b)
      PROVE  (a \o b)[Len(a) + i] = b[i] /\ (p \o q)[Len(a) + i] = q[i]
  <2>1. i \in 1 .. Len(q)
    BY <1>2
  <2>2. (a \o b)[Len(a) + i] = b[i]
    BY <1>1, Behind
  <2>3. (p \o q)[Len(p) + i] = q[i]
    BY <1>1, <2>1, Behind
  <2> QED BY <2>2, <2>3
<1>5. \A i \in 1 .. Len(a) : a[i] = p[i]
  BY <1>3
<1>6. \A i \in 1 .. Len(b) : b[i] = q[i]
  BY <1>4
<1> QED BY <1>2, <1>5, <1>6, SeqEqual

\* A read that asked for what is there gets it.
LEMMA ReturnGives ==
  ASSUME ReaderInv, Return, NEW p \in Seq(Nat), NEW q \in Seq(Nat),
         Rest = p \o q, Len(p) = asked
  PROVE  buf = p /\ FlattenSeq(parts) = q
<1>1. asked # Idle /\ (BufLen = 0 \/ parts = << >>)
  BY DEF Return
<1>2. /\ buf \in Seq(Nat) /\ FlattenSeq(parts) \in Seq(Nat)
      /\ buf \o FlattenSeq(parts) = p \o q
  BY <1>1, RestTyped DEF ReaderInv
<1>3. asked \in Nat /\ Len(buf) \in Nat /\ Len(buf) <= asked
  BY <1>1, <1>2, LenProperties DEF ReaderInv
<1>4. Len(buf) = Len(p)
  <2>1. CASE BufLen = 0
    BY <1>3, <2>1 DEF BufLen
  <2>2. CASE parts = << >>
    <3>1. FlattenSeq(parts) = << >>
      BY <2>2, FlattenNothing, EmptySeq
    <3>2. buf = p \o q
      BY <1>2, <3>1, ConcatEmptySeq
    <3>3. Len(buf) = Len(p) + Len(q) /\ Len(q) \in Nat
      BY <3>2, ConcatProperties, LenProperties
    <3> QED BY <1>3, <3>3
  <2> QED BY <1>1, <2>1, <2>2
<1> QED BY <1>2, <1>4, SameCut

-------------------------------------------------------------------------------
\* The data of an application, and its encoding.

DataIn(app) == {block[j].ext.data : j \in {k \in 1 .. Len(block) : block[k].ext.app_id = app}}

LEMMA DataFrom ==
  ASSUME BlockInv, NEW app
  PROVE  DataOf(app) \in Seq(DataIn(app))
<1> DEFINE seqs == [k \in DOMAIN block |->
                      IF block[k].ext.app_id = app THEN << block[k].ext.data >> ELSE << >>]
<1>1. Len(block) \in Nat /\ DOMAIN block = 1 .. Len(block)
  BY LenProperties DEF BlockInv
<1>2. ASSUME NEW k \in 1 .. Len(block)
      PROVE  (IF block[k].ext.app_id = app THEN << block[k].ext.data >> ELSE << >>) \in Seq(DataIn(app))
  <2>1. CASE block[k].ext.app_id = app
    <3>1. block[k].ext.data \in DataIn(app)
      BY <2>1, Zenon DEF DataIn
    <3>2. << block[k].ext.data >> \in Seq(DataIn(app))
      BY <3>1
    <3> QED BY <2>1, <3>2
  <2>2. CASE block[k].ext.app_id # app
    <3>1. << >> \in Seq(DataIn(app))
      OBVIOUS
    <3> QED BY <2>2, <3>1
  <2> QED BY <2>1, <2>2
<1>3. seqs \in [1 .. Len(block) -> Seq(DataIn(app))]
  BY <1>1, <1>2
<1> HIDE DEF seqs
<1>4. seqs \in Seq(Seq(DataIn(app)))
  BY <1>1, <1>3
<1>5. FlattenSeq(seqs) \in Seq(DataIn(app))
  BY <1>4, FlattenTyped
<1> QED BY <1>5 DEF DataOf, seqs

\* Each item is the encoding of an extrinsic of the application in the block.
LEMMA ItemFrom ==
  ASSUME BlockInv, NEW app, NEW i \in 1 .. Len(DataOf(app))
  PROVE  \E j \in 1 .. Len(block) :
           /\ block[j].xt \in Xts
           /\ DataOf(app)[i] = EncodeExtrinsic(block[j].xt)
           /\ AppIdOf(block[j].xt) = app
<1>1. DataOf(app)[i] \in DataIn(app)
  BY DataFrom, ElementOfSeq
<1>2. PICK j \in 1 .. Len(block) : block[j].ext.app_id = app /\ block[j].ext.data = DataOf(app)[i]
  BY <1>1 DEF DataIn
<1>3. PICK account \in AllAccounts, xt \in Xts : block[j] = Taken(account, xt)
  <2>1. block[j] \in AllTaken
    BY ElementOfSeq DEF BlockInv
  <2> QED BY <2>1 DEF AllTaken
<1>4. block[j].xt = xt /\ block[j].ext.data = EncodeExtrinsic(xt) /\ block[j].ext.app_id = AppIdOf(xt)
  BY <1>3 DEF Taken, AppExtrinsic
<1> QED BY <1>2, <1>4

\* Nothing in it is empty.
Opaques == {s \in Seq(Nat) : Len(s) # 0}

LEMMA DataIsBytes ==
  ASSUME BlockInv, NEW app
  PROVE  DataOf(app) \in Seq(Opaques) /\ DataOf(app) \in Seq(Seq(Nat))
<1>1. ASSUME NEW i \in 1 .. Len(DataOf(app)) PROVE DataOf(app)[i] \in Opaques
  <2>1. PICK j \in 1 .. Len(block) :
          block[j].xt \in Xts /\ DataOf(app)[i] = EncodeExtrinsic(block[j].xt)
    BY ItemFrom
  <2>2. /\ EncodeExtrinsic(block[j].xt) \in Seq(Nat)
        /\ EncodeExtrinsic(block[j].xt) = EncodeVec(Body(block[j].xt)) /\ Body(block[j].xt) \in Seq(Nat)
    BY <2>1, Bytes
  <2>3. Len(EncodeVec(Body(block[j].xt))) = 1 + Len(Body(block[j].xt)) /\ Len(Body(block[j].xt)) \in Nat
    BY <2>2, VecBytes
  <2>4. Len(EncodeExtrinsic(block[j].xt)) # 0
    BY <2>2, <2>3
  <2> QED BY <2>1, <2>2, <2>4 DEF Opaques
<1>2. Len(DataOf(app)) \in Nat /\ DataOf(app) \in [1 .. Len(DataOf(app)) -> DataIn(app)]
  BY DataFrom, LenProperties
<1> DEFINE d == DataOf(app)
           n == Len(d)
<1>3. n \in Nat /\ d = [i \in 1 .. n |-> d[i]] /\ \A i \in 1 .. n : d[i] \in Opaques
  BY <1>1, <1>2
<1> HIDE DEF d, n
<1>4. d \in [1 .. n -> Opaques]
  BY <1>3
<1>5. d \in Seq(Opaques)
  BY <1>3, <1>4
<1>6. Opaques \subseteq Seq(Nat)
  BY DEF Opaques
<1>7. d \in Seq(Seq(Nat))
  BY <1>5, <1>6, SeqMonotonic
<1> QED BY <1>5, <1>7 DEF d

\* The encoding of all items but the first ones.
Remaining(items, j) == FlattenSeq([k \in 1 .. (Len(items) - j) |-> EncodeVec(items[j + k])])

LEMMA RemainingSeqs ==
  ASSUME NEW items \in Seq(Seq(Nat)), NEW j \in 0 .. Len(items)
  PROVE  /\ [k \in 1 .. (Len(items) - j) |-> EncodeVec(items[j + k])] \in Seq(Seq(Nat))
         /\ Len([k \in 1 .. (Len(items) - j) |-> EncodeVec(items[j + k])]) = Len(items) - j
<1>1. Len(items) \in Nat /\ Len(items) - j \in Nat /\ j \in Nat
  BY LenProperties
<1>2. ASSUME NEW k \in 1 .. (Len(items) - j) PROVE EncodeVec(items[j + k]) \in Seq(Nat)
  <2>1. j + k \in 1 .. Len(items)
    BY <1>1
  <2>2. items[j + k] \in Seq(Nat)
    BY <2>1, ElementOfSeq
  <2> QED BY <2>2, VecBytes
<1> DEFINE n == Len(items) - j
           seqs == [k \in 1 .. n |-> EncodeVec(items[j + k])]
<1>3. seqs \in [1 .. n -> Seq(Nat)] /\ n \in Nat
  BY <1>1, <1>2
<1> HIDE DEF n, seqs
<1>4. seqs \in Seq(Seq(Nat)) /\ Len(seqs) = n
  BY <1>3
<1> QED BY <1>4 DEF n, seqs

LEMMA RemainingTyped ==
  ASSUME NEW items \in Seq(Seq(Nat)), NEW j \in 0 .. Len(items)
  PROVE  Remaining(items, j) \in Seq(Nat)
BY RemainingSeqs, FlattenTyped DEF Remaining

LEMMA SameItems ==
  ASSUME NEW s \in Seq(Seq(Nat)), NEW t \in Seq(Seq(Nat)),
         Len(s) = Len(t), \A i \in 1 .. Len(s) : s[i] = t[i]
  PROVE  s = t
BY SeqEqual

LEMMA RemainingNext ==
  ASSUME NEW items \in Seq(Seq(Nat)), NEW j \in Nat, j < Len(items)
  PROVE  Remaining(items, j) = EncodeVec(items[j + 1]) \o Remaining(items, j + 1)
<1> DEFINE n == Len(items)
           all == [k \in 1 .. (n - j) |-> EncodeVec(items[j + k])]
           first == EncodeVec(items[j + 1])
           others == [k \in 1 .. (n - (j + 1)) |-> EncodeVec(items[(j + 1) + k])]
<1>1. n \in Nat /\ j \in 0 .. n /\ j + 1 \in 0 .. n /\ j + 1 \in 1 .. n
  BY LenProperties
<1>2. all \in Seq(Seq(Nat)) /\ Len(all) = n - j
  BY <1>1, RemainingSeqs
<1>3. others \in Seq(Seq(Nat)) /\ Len(others) = n - (j + 1)
  BY <1>1, RemainingSeqs
<1>4. first \in Seq(Nat)
  <2>1. items[j + 1] \in Seq(Nat)
    BY <1>1, ElementOfSeq
  <2> QED BY <2>1, VecBytes
<1>5. all = << first >> \o others
  <2>1. first = EncodeVec(items[j + 1]) /\ \A i \in 1 .. (n - j) : all[i] = EncodeVec(items[j + i])
    OBVIOUS
  <2>2. \A i \in 1 .. (n - (j + 1)) : others[i] = EncodeVec(items[(j + 1) + i])
    OBVIOUS
  <2> HIDE DEF all, others, first
  <2>3. << first >> \in Seq(Seq(Nat)) /\ Len(<< first >>) = 1 /\ << first >>[1] = first
    BY <1>4
  <2>4. /\ << first >> \o others \in Seq(Seq(Nat)) /\ Len(<< first >> \o others) = 1 + Len(others)
        /\ \A i \in 1 .. 1 + Len(others) : (<< first >> \o others)[i] =
             IF i <= 1 THEN << first >>[i] ELSE others[i - 1]
    BY <1>3, <2>3, ConcatProperties
  <2>5. ASSUME NEW i \in 1 .. (n - j) PROVE all[i] = (<< first >> \o others)[i]
    <3>0. i \in 1 .. 1 + Len(others)
      BY <1>1, <1>3
    <3>1. CASE i = 1
      <4>1. all[i] = first /\ (<< first >> \o others)[i] = first
        BY <2>1, <2>3, <2>4, <3>0, <3>1
      <4> QED BY <4>1
    <3>2. CASE i # 1
      <4>1. i - 1 \in 1 .. (n - (j + 1)) /\ (j + 1) + (i - 1) = j + i /\ ~(i <= 1)
        BY <1>1, <3>2
      <4>2. others[i - 1] = EncodeVec(items[j + i])
        BY <2>2, <4>1
      <4> QED BY <2>1, <2>4, <3>0, <4>1, <4>2
    <3> QED BY <3>1, <3>2
  <2> DEFINE whole == << first >> \o others
  <2>6. whole \in Seq(Seq(Nat)) /\ Len(whole) = 1 + Len(others) /\ \A i \in 1 .. (n - j) : all[i] = whole[i]
    BY <2>4, <2>5
  <2> HIDE DEF whole
  <2>7. Len(all) = Len(whole) /\ \A i \in 1 .. Len(all) : all[i] = whole[i]
    BY <1>1, <1>2, <1>3, <2>6
  <2>8. all = whole
    BY <1>2, <2>6, <2>7, SameItems, Zenon
  <2> QED BY <2>8 DEF whole
<1>6. FlattenSeq(<< first >> \o others) = first \o FlattenSeq(others)
  <2> HIDE DEF first, others
  <2> QED BY <1>3, <1>4, FlattenCons
<1>7. Remaining(items, j) = FlattenSeq(all) /\ Remaining(items, j + 1) = FlattenSeq(others)
  BY DEF Remaining
<1> HIDE DEF all, others
<1> QED BY <1>5, <1>6, <1>7

LEMMA EncodeAll ==
  ASSUME NEW items \in Seq(Seq(Nat))
  PROVE  Encode(items) = << Len(items) >> \o Remaining(items, 0)
<1>1. Len(items) \in Nat /\ DOMAIN items = 1 .. Len(items) /\ Len(items) - 0 = Len(items)
  BY LenProperties
<1>2. [k \in DOMAIN items |-> << Len(items[k]) >> \o items[k]]
        = [k \in 1 .. (Len(items) - 0) |-> EncodeVec(items[0 + k])]
  <2>1. \A k \in 1 .. Len(items) : 0 + k = k
    BY <1>1
  <2>2. \A k \in 1 .. Len(items) : << Len(items[k]) >> \o items[k] = EncodeVec(items[0 + k])
    BY <2>1 DEF EncodeVec
  <2> QED BY <1>1, <2>2
<1> QED BY <1>2, Zenon DEF Encode, Remaining

LEMMA EncodedBytes ==
  ASSUME NEW items \in Seq(Seq(Nat))
  PROVE  Encode(items) \in Seq(Nat) /\ Encode(items) # << >>
<1>1. Len(items) \in Nat /\ 0 \in 0 .. Len(items)
  BY LenProperties
<1> DEFINE n == Len(items)
           remaining == Remaining(items, 0)
<1>2. remaining \in Seq(Nat)
  BY <1>1, RemainingTyped
<1>3. << n >> \in Seq(Nat) /\ Len(<< n >>) = 1
  BY <1>1
<1>4. Encode(items) = << n >> \o remaining
  BY EncodeAll
<1> HIDE DEF n, remaining
<1>5. << n >> \o remaining \in Seq(Nat) /\ Len(<< n >> \o remaining) = 1 + Len(remaining)
  BY <1>2, <1>3, ConcatProperties
<1>6. Len(remaining) \in Nat
  BY <1>2, LenProperties
<1>7. << n >> \o remaining # << >>
  BY <1>5, <1>6
<1> QED BY <1>4, <1>5, <1>7

-------------------------------------------------------------------------------
\* A light client has the extrinsics it read, and the others are what remains.

Data == DataOf(client.app)
Got == Len(client.items)
Wish == IF asked = Idle THEN client.need ELSE asked
Quiet == pool.phase \in {"free", "included", "refused"}

\* Zeroes of the last cell may follow what remains.
Begins(front) == \E zeroes \in Seq(Nat) : Rest = front \o zeroes

Clients == [phase : {"count", "length", "bytes", "done"}, app : {tx.app : tx \in Txs}, left : Nat,
            items : Seq(Seq(Nat)), need : Nat]

HasRead == Got <= Len(Data) /\ \A k \in 1 .. Got : client.items[k] = Data[k]

Wants ==
  /\ asked # Idle => client.need = 0
  /\ client.phase = "count" =>
       Got = 0 /\ Len(Data) # 0 /\ Wish = 1 /\ Begins(Encode(Data))
  /\ client.phase \in {"length", "bytes"} => client.left # 0 /\ Got + client.left = Len(Data)
  /\ client.phase = "length" => Wish = 1 /\ Begins(Remaining(Data, Got))
  /\ client.phase = "bytes" =>
       Wish = Len(Data[Got + 1]) /\ Begins(Data[Got + 1] \o Remaining(Data, Got + 1))
  /\ client.phase = "done" => Got = Len(Data) /\ Wish = 0 /\ asked = Idle

Reading == client \in Clients /\ Quiet /\ HasRead /\ Wants

ClientInv == (client = NoClient /\ asked = Idle) \/ Reading

\* What was taken still passes the check.
CheckedInv == \A k \in 1 .. Len(block) : Check(block[k].xt, issued).ok

JourneyInv == MeantInv /\ CheckedInv /\ ReaderInv /\ ClientInv

\* A signature stays valid when others are given.
LEMMA CheckStays ==
  ASSUME NEW S, NEW old \in Seq(S), NEW new \in S, NEW xt, Check(xt, old).ok
  PROVE  Check(xt, Append(old, new)).ok
<1> DEFINE all == Append(old, new)
<1>1. \A k \in DOMAIN old : k \in DOMAIN all /\ all[k] = old[k]
  BY AppendProperties
<1> HIDE DEF all
<1>2. \A signature, payload, account :
        Verify(old, signature, payload, account) => Verify(all, signature, payload, account)
  BY <1>1, Zenon DEF Verify
<1>3. CASE xt.signature = Unsigned
  BY <1>3 DEF Check
<1>4. CASE xt.signature # Unsigned
  <2> DEFINE data == xt.signature[1]
             account == Accounts[data.signed]
             payload == PayloadOf(xt.function, data.extra)
  <2>1. ~Failed.ok
    BY DEF Failed
  <2>2. /\ data.signed \in DOMAIN Accounts /\ HasAdditional(data.extra)
        /\ Verify(old, data.by, payload, account)
    BY <1>4, <2>1, Zenon DEF Check
  <2>3. Verify(all, data.by, payload, account)
    BY <1>2, <2>2, Zenon
  <2>4. Check(xt, all) = [ok |-> TRUE, account |-> account]
    BY <1>4, <2>2, <2>3, Zenon DEF Check
  <2> QED BY <2>4 DEF all
<1> QED BY <1>3, <1>4 DEF all

LEMMA StepChecked == MeantInv /\ CheckedInv /\ [Next]_vars => CheckedInv'
<1> SUFFICES ASSUME MeantInv, CheckedInv, [Next]_vars PROVE CheckedInv'
  OBVIOUS
<1>1. block \in Seq(AllTaken) /\ issued \in Seq(Signatures) /\ Len(block) \in Nat
  BY LenProperties DEF MeantInv, BlockInv, IssuedInv
<1>2. CASE block' = block /\ issued' = issued
  BY <1>2 DEF CheckedInv
<1>3. CASE \E tx \in Txs, route \in Routes : Submit(tx, route)
  <2>1. PICK tx \in Txs, route \in Routes : Submit(tx, route)
    BY <1>3
  <2>2. block' = block /\ (issued' = issued \/ issued' = Append(issued, SignatureOf(tx)))
    BY <2>1 DEF Submit, SignatureOf
  <2>3. SignatureOf(tx) \in Signatures
    BY DEF Signatures
  <2>4. CASE issued' = Append(issued, SignatureOf(tx))
    <3>1. \A k \in 1 .. Len(block) : Check(block[k].xt, issued').ok
      BY <1>1, <2>3, <2>4, CheckStays DEF CheckedInv
    <3> QED BY <2>2, <3>1 DEF CheckedInv
  <2> QED BY <1>2, <2>2, <2>4
<1>4. CASE CheckAndInclude
  <2> DEFINE checked == Check(pool.xt, issued)
             new == Taken(checked.account, pool.xt)
  <2>1. issued' = issued
    BY <1>4 DEF CheckAndInclude
  <2>2. CASE checked.ok
    <3>1. block' = Append(block, new)
      BY <1>4, <2>2 DEF CheckAndInclude, Taken
    <3>2. new.xt = pool.xt
      BY DEF Taken
    <3> HIDE DEF new
    <3>3. Len(block') = Len(block) + 1
      BY <1>1, <3>1
    <3>4. \A k \in 1 .. Len(block) + 1 : block'[k] = IF k = Len(block) + 1 THEN new ELSE block[k]
      BY <1>1, <3>1
    <3>5. ASSUME NEW k \in 1 .. Len(block') PROVE Check(block'[k].xt, issued').ok
      <4>1. CASE k = Len(block) + 1
        BY <2>1, <2>2, <3>2, <3>3, <3>4, <4>1
      <4>2. CASE k # Len(block) + 1
        <5>1. k \in 1 .. Len(block) /\ block'[k] = block[k]
          BY <1>1, <3>3, <3>4, <4>2
        <5> QED BY <2>1, <5>1 DEF CheckedInv
      <4> QED BY <4>1, <4>2
    <3> QED BY <3>5 DEF CheckedInv
  <2>3. CASE ~checked.ok
    <3>1. block' = block
      BY <1>4, <2>3 DEF CheckAndInclude
    <3> QED BY <1>2, <2>1, <3>1
  <2> QED BY <2>2, <2>3
<1>5. CASE Decode
  BY <1>2, <1>5 DEF Decode
<1>6. CASE \E app \in {tx.app : tx \in Txs} : Open(app)
  BY <1>2, <1>6 DEF Open, nodeVars
<1>7. CASE Client
  BY <1>2, <1>7 DEF Client, ClientAsk, nodeVars
<1>8. CASE UNCHANGED vars
  BY <1>2, <1>8 DEF vars
<1> QED BY <1>3, <1>4, <1>5, <1>6, <1>7, <1>8 DEF Next

\* What the reader, the client and the block show is unchanged where they are.
LEMMA SameData ==
  ASSUME block' = block, client'.app = client.app
  PROVE  Data' = Data
BY DEF Data, DataOf

LEMMA ReaderStays ==
  ASSUME ReaderInv, UNCHANGED << parts, asked, buf >>
  PROVE  ReaderInv' /\ Rest' = Rest
BY DEF ReaderInv, Rest

\* The node works while nobody reads.
LEMMA NodeKeeps ==
  ASSUME ClientInv, Decode \/ CheckAndInclude \/ \E tx \in Txs, route \in Routes : Submit(tx, route)
  PROVE  ClientInv'
<1>1. client = NoClient /\ asked = Idle
  <2>1. CASE Decode \/ CheckAndInclude
    <3>1. ~Quiet
      BY <2>1 DEF Decode, CheckAndInclude, Quiet
    <3> QED BY <3>1 DEF ClientInv, Reading
  <2>2. CASE \E tx \in Txs, route \in Routes : Submit(tx, route)
    <3>1. client = NoClient
      BY <2>2 DEF Submit
    <3>2. client \notin Clients
      BY <3>1 DEF NoClient, Clients
    <3> QED BY <3>1, <3>2 DEF ClientInv, Reading
  <2> QED BY <2>1, <2>2
<1>2. client' = client /\ asked' = asked
  BY DEF Decode, CheckAndInclude, Submit
<1> QED BY <1>1, <1>2 DEF ClientInv

\* What is opened are the extrinsics of the application, from the first on.
LEMMA OpenReads ==
  ASSUME MeantInv, ReaderInv, NEW app \in {tx.app : tx \in Txs}, Open(app)
  PROVE  ReaderInv' /\ Reading' /\ Rest' \in Seq(Nat)
<1> DEFINE items == DataOf(app)
           bytes == Encode(items)
<1>1. BlockInv /\ items \in Seq(Seq(Nat)) /\ items # << >>
  BY DataIsBytes DEF MeantInv, Open
<1>2. bytes \in Seq(Nat) /\ bytes # << >>
  BY <1>1, EncodedBytes
<1>3. /\ client' = [phase |-> "count", app |-> app, left |-> 0, items |-> << >>, need |-> 1]
      /\ asked = Idle /\ asked' = Idle /\ buf' = << >> /\ parts' = Slices(bytes)
      /\ pool' = pool /\ block' = block /\ Quiet
  BY DEF Open, FromIter, nodeVars, Slices, Quiet
<1>4. PICK zeroes \in Seq(Nat) : FlattenSeq(Slices(bytes)) = bytes \o zeroes
  BY <1>2, SlicesFlatten
<1>5. Slices(bytes) \in Seq(Seq(Nat))
  BY <1>2, SlicesFlatten
<1>6. ReaderInv'
  BY <1>3, <1>5 DEF ReaderInv
<1>7. Rest' = bytes \o zeroes
  <2>1. Rest' = << >> \o FlattenSeq(parts')
    BY <1>3 DEF Rest
  <2>2. bytes \o zeroes \in Seq(Nat)
    BY <1>2, ConcatProperties
  <2>3. << >> \o (bytes \o zeroes) = bytes \o zeroes
    BY <2>2, ConcatEmptySeq
  <2> QED BY <1>3, <1>4, <2>1, <2>3
<1>8. Data' = items
  <2>1. DataOf(app)' = DataOf(app)
    BY <1>3 DEF DataOf
  <2>2. client'.app = app
    BY <1>3
  <2> QED BY <2>1, <2>2 DEF Data
<1>9. Len(items) \in Nat \ {0}
  BY <1>1, EmptySeq
<1>10. client' \in Clients /\ Got' = 0 /\ Wish' = 1
  <2>1. << >> \in Seq(Seq(Nat)) /\ Len(<< >>) = 0
    OBVIOUS
  <2> QED BY <1>3, <2>1 DEF Clients, Got, Wish
<1>11. client'.phase = "count"
  BY <1>3
<1> HIDE DEF items, bytes
<1>12. HasRead'
  BY <1>8, <1>9, <1>10 DEF HasRead
<1>13. Begins(Encode(Data))'
  BY <1>7, <1>8 DEF Begins, bytes
<1>14. Wants'
  BY <1>3, <1>8, <1>9, <1>10, <1>11, <1>13 DEF Wants
<1>15. Quiet'
  BY <1>3 DEF Quiet
<1>16. Rest' \in Seq(Nat)
  BY <1>2, <1>7, ConcatProperties
<1> QED BY <1>6, <1>10, <1>12, <1>14, <1>15, <1>16 DEF Reading

\* Asking changes who knows how much is wanted, and nothing else.
LEMMA AskKeeps ==
  ASSUME ReaderInv, ClientInv, ClientAsk
  PROVE  ReaderInv' /\ Rest' = Rest /\ Reading' /\ asked = Idle /\ asked' \in Nat
<1>1. /\ client.need > 0 /\ asked = Idle /\ asked' = client.need /\ buf' = << >> /\ parts' = parts
      /\ client' = [client EXCEPT !.need = 0] /\ pool' = pool /\ block' = block
  BY DEF ClientAsk, Read, nodeVars
<1>2. Reading
  BY <1>1 DEF ClientInv, NoClient
<1>3. client.need \in Nat \ {0} /\ client \in Clients
  BY <1>1, <1>2 DEF Reading, Clients
<1>4. ReaderInv'
  BY <1>1, <1>3 DEF ReaderInv, Idle
<1>5. Rest' = Rest
  BY <1>1, <1>3 DEF Rest, Idle
<1>6. /\ client' \in Clients /\ client'.phase = client.phase /\ client'.app = client.app
      /\ client'.left = client.left /\ client'.items = client.items /\ client'.need = 0
  BY <1>1, <1>3 DEF Clients
<1>7. Data' = Data /\ Got' = Got /\ Wish' = Wish
  <2>1. asked' # Idle
    BY <1>1, <1>3 DEF Idle
  <2> QED BY <1>1, <1>6, <2>1, SameData DEF Got, Wish
<1>8. HasRead'
  BY <1>2, <1>6, <1>7 DEF Reading, HasRead
<1>9. /\ Begins(Encode(Data)) => Begins(Encode(Data))'
      /\ Begins(Remaining(Data, Got)) => Begins(Remaining(Data, Got))'
      /\ Begins(Data[Got + 1] \o Remaining(Data, Got + 1))
           => Begins(Data[Got + 1] \o Remaining(Data, Got + 1))'
  BY <1>5, <1>7 DEF Begins
<1>10. client.phase # "done"
  BY <1>1, <1>2, <1>3 DEF Reading, Wants, Wish
<1>11. Wants'
  BY <1>2, <1>6, <1>7, <1>9, <1>10 DEF Reading, Wants
<1>12. Quiet'
  BY <1>1, <1>2 DEF Reading, Quiet
<1> QED BY <1>1, <1>3, <1>4, <1>5, <1>6, <1>8, <1>11, <1>12 DEF Reading

LEMMA CopyStays ==
  ASSUME ReaderInv, ClientInv, CopyPart, UNCHANGED client, UNCHANGED nodeVars
  PROVE  ReaderInv' /\ Rest' = Rest /\ asked # Idle /\ ClientInv'
<1>1. asked # Idle /\ asked' = asked /\ client' = client /\ pool' = pool /\ block' = block
  BY DEF CopyPart, nodeVars
<1>2. ReaderInv' /\ Rest' = Rest
  BY CopyKeeps
<1>3. Reading
  BY <1>1 DEF ClientInv
<1>4. Data' = Data /\ Got' = Got /\ Wish' = Wish
  BY <1>1, SameData DEF Got, Wish
<1>5. HasRead' /\ Quiet'
  BY <1>1, <1>3, <1>4 DEF Reading, HasRead, Quiet
<1>6. /\ Begins(Encode(Data)) => Begins(Encode(Data))'
      /\ Begins(Remaining(Data, Got)) => Begins(Remaining(Data, Got))'
      /\ Begins(Data[Got + 1] \o Remaining(Data, Got + 1))
           => Begins(Data[Got + 1] \o Remaining(Data, Got + 1))'
  BY <1>2, <1>4 DEF Begins
<1>7. Wants'
  BY <1>1, <1>3, <1>4, <1>6 DEF Reading, Wants
<1> QED BY <1>1, <1>2, <1>3, <1>5, <1>7 DEF Reading, ClientInv

\* What a client does with all it asked for.
LEMMA NextIs ==
  ASSUME NEW bytes, NEW wish, ~(Len(bytes) < wish)
  PROVE  /\ client.phase = "count" /\ bytes[1] # 0 =>
              ClientNext(bytes, wish)
                = [client EXCEPT !.phase = "length", !.items = << >>, !.left = bytes[1], !.need = 1]
         /\ client.phase = "length" /\ bytes[1] > 0 =>
              ClientNext(bytes, wish) = [client EXCEPT !.phase = "bytes", !.need = bytes[1]]
         /\ client.phase = "bytes" /\ client.left - 1 # 0 =>
              ClientNext(bytes, wish)
                = [client EXCEPT !.phase = "length", !.items = Append(client.items, bytes),
                                 !.left = client.left - 1, !.need = 1]
         /\ client.phase = "bytes" /\ client.left - 1 = 0 =>
              ClientNext(bytes, wish)
                = [client EXCEPT !.phase = "done", !.items = Append(client.items, bytes), !.left = 0]
BY DEF ClientNext

Returns == Return /\ client' = ClientNext(buf, asked) /\ UNCHANGED nodeVars

\* The client gets what it asked for, and the rest is left.
LEMMA ReturnIs ==
  ASSUME ReaderInv, Returns, NEW p \in Seq(Nat), NEW q \in Seq(Nat),
         Rest = p \o q, Len(p) = asked
  PROVE  /\ asked # Idle /\ asked' = Idle /\ ReaderInv' /\ Rest' = q
         /\ pool' = pool /\ block' = block
         /\ client' = ClientNext(p, asked) /\ ~(Len(p) < asked)
<1>1. asked # Idle /\ asked' = Idle /\ parts' = parts /\ buf' = buf
      /\ pool' = pool /\ block' = block /\ client' = ClientNext(buf, asked)
  BY DEF Returns, Return, nodeVars
<1>2. buf = p /\ FlattenSeq(parts) = q
  BY ReturnGives DEF Returns
<1>3. ReaderInv'
  BY <1>1 DEF ReaderInv
<1>4. Rest' = << >> \o FlattenSeq(parts)
  BY <1>1 DEF Rest
<1>5. << >> \o q = q
  BY ConcatEmptySeq
<1>6. ~(Len(p) < asked)
  <2>1. Len(p) \in Nat
    BY LenProperties
  <2> QED BY <2>1
<1> QED BY <1>1, <1>2, <1>3, <1>4, <1>5, <1>6

LEMMA RestOfItems ==
  ASSUME NEW items \in Seq(Opaques), NEW j \in Nat, j < Len(items)
  PROVE  /\ items[j + 1] \in Seq(Nat) /\ Len(items[j + 1]) \in Nat \ {0}
         /\ Remaining(items, j + 1) \in Seq(Nat)
         /\ Remaining(items, j) = << Len(items[j + 1]) >> \o (items[j + 1] \o Remaining(items, j + 1))
<1>1. Len(items) \in Nat /\ j + 1 \in 1 .. Len(items) /\ j + 1 \in 0 .. Len(items)
  BY LenProperties
<1>2. items \in Seq(Seq(Nat))
  <2>1. Opaques \subseteq Seq(Nat)
    BY DEF Opaques
  <2> QED BY <2>1, SeqMonotonic
<1>3. items[j + 1] \in Opaques
  BY <1>1, ElementOfSeq
<1>4. items[j + 1] \in Seq(Nat) /\ Len(items[j + 1]) # 0
  BY <1>3 DEF Opaques
<1>5. Len(items[j + 1]) \in Nat
  BY <1>4, LenProperties
<1>6. Remaining(items, j + 1) \in Seq(Nat)
  BY <1>1, <1>2, RemainingTyped
<1>7. Remaining(items, j) = EncodeVec(items[j + 1]) \o Remaining(items, j + 1)
  BY <1>2, RemainingNext
<1> DEFINE item == items[j + 1]
           others == Remaining(items, j + 1)
           n == Len(item)
<1>8. EncodeVec(item) = << n >> \o item
  BY DEF EncodeVec
<1>9. << n >> \in Seq(Nat) /\ item \in Seq(Nat) /\ others \in Seq(Nat)
  BY <1>4, <1>5, <1>6
<1> HIDE DEF item, others, n
<1>10. (<< n >> \o item) \o others = << n >> \o (item \o others)
  <2>1. \A x \in Seq(Nat), y \in Seq(Nat), z \in Seq(Nat) : (x \o y) \o z = x \o (y \o z)
    BY ThreeJoined
  <2> QED BY <1>9, <2>1, Zenon
<1>11. Remaining(items, j) = << n >> \o (item \o others)
  BY <1>7, <1>8, <1>10, Zenon DEF item, others
<1> QED BY <1>4, <1>5, <1>6, <1>11 DEF item, others, n

\* A byte that was read, and what follows.
LEMMA ByteBegins ==
  ASSUME NEW n \in Nat, NEW others \in Seq(Nat), Begins(<< n >> \o others)
  PROVE  \E q \in Seq(Nat) : /\ Rest = << n >> \o q
                             /\ \E zeroes \in Seq(Nat) : q = others \o zeroes
<1>1. PICK zeroes \in Seq(Nat) : Rest = (<< n >> \o others) \o zeroes
  BY DEF Begins
<1>2. << n >> \in Seq(Nat)
  OBVIOUS
<1>3. \A x \in Seq(Nat), y \in Seq(Nat), z \in Seq(Nat) : (x \o y) \o z = x \o (y \o z)
  BY ThreeJoined
<1>4. (<< n >> \o others) \o zeroes = << n >> \o (others \o zeroes)
  BY <1>2, <1>3, Zenon
<1>5. others \o zeroes \in Seq(Nat)
  BY ConcatProperties
<1> QED BY <1>1, <1>4, <1>5, Zenon

LEMMA ReturnInCount ==
  ASSUME BlockInv, ReaderInv, Reading, client.phase = "count", Returns
  PROVE  ReaderInv' /\ Reading'
<1> DEFINE items == Data
           n == Len(items)
           others == Remaining(items, 0)
<1>1. items \in Seq(Seq(Nat)) /\ n \in Nat /\ 0 \in 0 .. n
  BY DataIsBytes, LenProperties DEF Data
<1>2. others \in Seq(Nat)
  BY <1>1, RemainingTyped
<1>3. client \in Clients /\ n # 0 /\ Got = 0 /\ Wish = 1 /\ Begins(Encode(items))
  BY DEF Reading, Wants
<1>4. asked # Idle /\ asked = 1
  BY <1>3 DEF Returns, Return, Wish
<1>5. Encode(items) = << n >> \o others
  BY <1>1, EncodeAll
<1> HIDE DEF items, n, others
<1>6. PICK q \in Seq(Nat) : Rest = << n >> \o q /\ \E zeroes \in Seq(Nat) : q = others \o zeroes
  BY <1>1, <1>2, <1>3, <1>5, ByteBegins
<1>7. << n >> \in Seq(Nat) /\ Len(<< n >>) = 1 /\ << n >>[1] = n
  BY <1>1
<1>8. /\ asked' = Idle /\ ReaderInv' /\ Rest' = q /\ pool' = pool /\ block' = block
      /\ client' = ClientNext(<< n >>, asked) /\ ~(Len(<< n >>) < asked)
  BY <1>4, <1>6, <1>7, ReturnIs
<1>9. client' = [client EXCEPT !.phase = "length", !.items = << >>, !.left = n, !.need = 1]
  BY <1>3, <1>7, <1>8, NextIs
<1>10. << >> \in Seq(Seq(Nat)) /\ Len(<< >>) = 0
  OBVIOUS
<1>11. /\ client' \in Clients /\ client'.phase = "length" /\ client'.items = << >>
       /\ client'.left = n /\ client'.need = 1 /\ client'.app = client.app
  BY <1>1, <1>3, <1>9, <1>10 DEF Clients
<1>12. Data' = items /\ Got' = 0 /\ Wish' = 1
  BY <1>8, <1>10, <1>11, SameData DEF Got, Wish, items
<1>13. HasRead'
  BY <1>1, <1>12 DEF HasRead, n
<1>14. Begins(Remaining(Data, Got))'
  BY <1>6, <1>8, <1>12 DEF Begins, others
<1>15. Wants'
  BY <1>1, <1>3, <1>8, <1>11, <1>12, <1>14 DEF Wants, n
<1>16. Quiet'
  BY <1>8 DEF Reading, Quiet
<1> QED BY <1>8, <1>11, <1>13, <1>15, <1>16 DEF Reading

LEMMA ReturnInLength ==
  ASSUME BlockInv, ReaderInv, Reading, client.phase = "length", Returns
  PROVE  ReaderInv' /\ Reading'
<1> DEFINE items == Data
           j == Got
           n == Len(items[j + 1])
           others == items[j + 1] \o Remaining(items, j + 1)
<1>1. items \in Seq(Opaques) /\ items \in Seq(Seq(Nat)) /\ Len(items) \in Nat
  BY DataIsBytes, LenProperties DEF Data
<1>2. /\ client \in Clients /\ client.left # 0 /\ j + client.left = Len(items)
      /\ Wish = 1 /\ Begins(Remaining(items, j))
  BY DEF Reading, Wants
<1>3. client.left \in Nat /\ j \in Nat /\ client.items \in Seq(Seq(Nat))
  <2>1. client.left \in Nat /\ client.items \in Seq(Seq(Nat))
    BY <1>2 DEF Clients
  <2> QED BY <2>1, LenProperties DEF Got
<1>4. asked # Idle /\ asked = 1
  BY <1>2 DEF Returns, Return, Wish
<1> HIDE DEF items, j
<1>5. j < Len(items)
  BY <1>1, <1>2, <1>3
<1>6. /\ items[j + 1] \in Seq(Nat) /\ n \in Nat \ {0} /\ Remaining(items, j + 1) \in Seq(Nat)
      /\ Remaining(items, j) = << n >> \o others
  BY <1>1, <1>3, <1>5, RestOfItems
<1>7. others \in Seq(Nat)
  BY <1>6, ConcatProperties
<1> HIDE DEF n, others
<1>8. PICK q \in Seq(Nat) : Rest = << n >> \o q /\ \E zeroes \in Seq(Nat) : q = others \o zeroes
  BY <1>2, <1>6, <1>7, ByteBegins
<1>9. << n >> \in Seq(Nat) /\ Len(<< n >>) = 1 /\ << n >>[1] = n
  BY <1>6
<1>10. /\ asked' = Idle /\ ReaderInv' /\ Rest' = q /\ pool' = pool /\ block' = block
       /\ client' = ClientNext(<< n >>, asked) /\ ~(Len(<< n >>) < asked)
  BY <1>4, <1>8, <1>9, ReturnIs
<1>11. client' = [client EXCEPT !.phase = "bytes", !.need = n]
  <2>1. n > 0
    BY <1>6
  <2> QED BY <1>9, <1>10, <2>1, NextIs
<1>12. /\ client' \in Clients /\ client'.phase = "bytes" /\ client'.items = client.items
       /\ client'.left = client.left /\ client'.need = n /\ client'.app = client.app
  BY <1>2, <1>6, <1>11 DEF Clients
<1>13. Data' = items /\ Got' = j /\ Wish' = n
  BY <1>10, <1>12, SameData DEF Got, Wish, items, j
<1>14. HasRead'
  BY <1>12, <1>13 DEF Reading, HasRead, items, j
<1>15. Begins(Data[Got + 1] \o Remaining(Data, Got + 1))'
  BY <1>8, <1>10, <1>13 DEF Begins, others
<1>16. Wants'
  BY <1>2, <1>10, <1>12, <1>13, <1>15 DEF Wants, n
<1>17. Quiet'
  BY <1>10 DEF Reading, Quiet
<1> QED BY <1>10, <1>12, <1>14, <1>16, <1>17 DEF Reading

LEMMA ReturnInBytes ==
  ASSUME BlockInv, ReaderInv, Reading, client.phase = "bytes", Returns
  PROVE  ReaderInv' /\ Reading'
<1> DEFINE items == Data
           j == Got
           item == items[j + 1]
           others == Remaining(items, j + 1)
<1>1. items \in Seq(Opaques) /\ items \in Seq(Seq(Nat)) /\ Len(items) \in Nat
  BY DataIsBytes, LenProperties DEF Data
<1>2. /\ client \in Clients /\ client.left # 0 /\ j + client.left = Len(items)
      /\ Wish = Len(item) /\ Begins(item \o others)
  BY DEF Reading, Wants
<1>3. client.left \in Nat /\ j \in Nat /\ client.items \in Seq(Seq(Nat))
  <2>1. client.left \in Nat /\ client.items \in Seq(Seq(Nat))
    BY <1>2 DEF Clients
  <2> QED BY <2>1, LenProperties DEF Got
<1>4. asked # Idle /\ asked = Len(item)
  BY <1>2 DEF Returns, Return, Wish
<1> HIDE DEF items, j
<1>5. j < Len(items)
  BY <1>1, <1>2, <1>3
<1>6. item \in Seq(Nat) /\ others \in Seq(Nat)
  BY <1>1, <1>3, <1>5, RestOfItems
<1>7. PICK zeroes \in Seq(Nat) : Rest = (item \o others) \o zeroes
  BY <1>2 DEF Begins
<1> HIDE DEF item, others
<1> DEFINE q == others \o zeroes
<1>8. q \in Seq(Nat)
  BY <1>6, ConcatProperties
<1>9. Rest = item \o q
  <2>1. \A x \in Seq(Nat), y \in Seq(Nat), z \in Seq(Nat) : (x \o y) \o z = x \o (y \o z)
    BY ThreeJoined
  <2>2. (item \o others) \o zeroes = item \o (others \o zeroes)
    BY <1>6, <2>1, Zenon
  <2> QED BY <1>7, <2>2, Zenon
<1> HIDE DEF q
<1>10. /\ asked' = Idle /\ ReaderInv' /\ Rest' = q /\ pool' = pool /\ block' = block
       /\ client' = ClientNext(item, asked) /\ ~(Len(item) < asked)
  BY <1>4, <1>6, <1>8, <1>9, ReturnIs
<1> DEFINE more == Append(client.items, item)
<1>11. /\ more \in Seq(Seq(Nat)) /\ Len(more) = j + 1
       /\ \A k \in 1 .. j : more[k] = client.items[k] /\ more[j + 1] = item
  BY <1>3, <1>6, AppendProperties DEF Got, j
<1>12. more[j + 1] = item
  BY <1>3, <1>6, AppendProperties DEF Got, j
<1> HIDE DEF more
<1>13. ASSUME client'.items = more, client'.app = client.app
       PROVE  Data' = items /\ Got' = j + 1 /\ HasRead'
  <2>1. Data' = items /\ Got' = j + 1
    BY <1>10, <1>11, <1>13, SameData DEF Got, items
  <2>2. \A k \in 1 .. j : client.items[k] = items[k]
    BY DEF Reading, HasRead, items, j
  <2>3. \A k \in 1 .. j + 1 : more[k] = items[k]
    <3> SUFFICES ASSUME NEW k \in 1 .. j + 1 PROVE more[k] = items[k]
      OBVIOUS
    <3>1. k = j + 1 \/ k \in 1 .. j
      BY <1>3
    <3> QED BY <1>11, <1>12, <2>2, <3>1 DEF item
  <2>4. j + 1 <= Len(items)
    BY <1>1, <1>3, <1>5
  <2> QED BY <1>13, <2>1, <2>3, <2>4 DEF HasRead
<1>14. Quiet'
  BY <1>10 DEF Reading, Quiet
<1>15. client.need = 0
  BY <1>4 DEF Reading, Wants
<1>16. CASE client.left - 1 # 0
  <2>1. client' = [client EXCEPT !.phase = "length", !.items = more,
                                 !.left = client.left - 1, !.need = 1]
    BY <1>10, <1>16, NextIs DEF more
  <2>2. client.left - 1 \in Nat
    BY <1>2, <1>3
  <2>3. /\ client' \in Clients /\ client'.phase = "length" /\ client'.items = more
        /\ client'.left = client.left - 1 /\ client'.need = 1 /\ client'.app = client.app
    BY <1>2, <1>11, <2>1, <2>2 DEF Clients
  <2>4. Data' = items /\ Got' = j + 1 /\ HasRead'
    BY <1>13, <2>3
  <2>5. Wish' = 1
    BY <1>10, <2>3 DEF Wish
  <2>6. Begins(Remaining(Data, Got))'
    BY <1>10, <2>4 DEF Begins, q, others
  <2>7. (j + 1) + (client.left - 1) = Len(items)
    BY <1>2, <1>3
  <2>8. Wants'
    BY <1>10, <1>16, <2>3, <2>4, <2>5, <2>6, <2>7 DEF Wants
  <2> QED BY <1>10, <1>14, <2>3, <2>4, <2>8 DEF Reading
<1>17. CASE client.left - 1 = 0
  <2>1. client' = [client EXCEPT !.phase = "done", !.items = more, !.left = 0]
    BY <1>10, <1>17, NextIs DEF more
  <2>2. /\ client' \in Clients /\ client'.phase = "done" /\ client'.items = more
        /\ client'.left = 0 /\ client'.need = 0 /\ client'.app = client.app
    BY <1>2, <1>11, <1>15, <2>1 DEF Clients
  <2>3. Data' = items /\ Got' = j + 1 /\ HasRead'
    BY <1>13, <2>2
  <2>4. j + 1 = Len(items) /\ Wish' = 0
    BY <1>2, <1>3, <1>10, <1>17, <2>2 DEF Wish
  <2>5. Wants'
    BY <1>10, <2>2, <2>3, <2>4 DEF Wants
  <2> QED BY <1>10, <1>14, <2>2, <2>3, <2>5 DEF Reading
<1> QED BY <1>16, <1>17

\* When a client is told of its bytes, it wants something.
LEMMA ReturnKeeps ==
  ASSUME MeantInv, ReaderInv, ClientInv, Returns
  PROVE  ReaderInv' /\ Reading'
<1>1. asked # Idle
  BY DEF Returns, Return
<1>2. Reading
  BY <1>1 DEF ClientInv
<1>3. client.phase \in {"count", "length", "bytes"}
  BY <1>1, <1>2 DEF Reading, Clients, Wants
<1> QED BY <1>2, <1>3, ReturnInCount, ReturnInLength, ReturnInBytes DEF MeantInv

LEMMA InitJourneyInv == Init => JourneyInv
<1> SUFFICES ASSUME Init PROVE JourneyInv
  OBVIOUS
<1>1. MeantInv
  BY InitMeantInv
<1>2. CheckedInv
  BY DEF Init, CheckedInv
<1>3. ReaderInv /\ ClientInv
  BY DEF Init, ReaderInit, ReaderInv, ClientInv
<1> QED BY <1>1, <1>2, <1>3 DEF JourneyInv

LEMMA StepJourneyInv == JourneyInv /\ [Next]_vars => JourneyInv'
<1> SUFFICES ASSUME JourneyInv, [Next]_vars PROVE JourneyInv'
  OBVIOUS
<1>1. MeantInv /\ CheckedInv /\ ReaderInv /\ ClientInv
  BY DEF JourneyInv
<1>2. MeantInv' /\ CheckedInv'
  BY <1>1, StepMeantInv, StepChecked
<1>3. CASE Decode \/ CheckAndInclude \/ \E tx \in Txs, route \in Routes : Submit(tx, route)
  <2>1. ClientInv'
    BY <1>1, <1>3, NodeKeeps
  <2>2. UNCHANGED << parts, asked, buf >>
    BY <1>3 DEF Decode, CheckAndInclude, Submit
  <2> QED BY <1>1, <1>2, <2>1, <2>2, ReaderStays DEF JourneyInv
<1>4. CASE \E app \in {tx.app : tx \in Txs} : Open(app)
  <2>1. PICK app \in {tx.app : tx \in Txs} : Open(app)
    BY <1>4
  <2> QED BY <1>1, <1>2, <2>1, OpenReads DEF JourneyInv, ClientInv
<1>5. CASE ClientAsk
  BY <1>1, <1>2, <1>5, AskKeeps DEF JourneyInv, ClientInv
<1>6. CASE CopyPart /\ UNCHANGED client /\ UNCHANGED nodeVars
  BY <1>1, <1>2, <1>6, CopyStays DEF JourneyInv
<1>7. CASE Returns
  BY <1>1, <1>2, <1>7, ReturnKeeps DEF JourneyInv, ClientInv
<1>8. CASE UNCHANGED vars
  <2>1. UNCHANGED << parts, asked, buf >> /\ client' = client /\ pool' = pool /\ block' = block
    BY <1>8 DEF vars
  <2>2. ReaderInv' /\ Rest' = Rest
    BY <1>1, <2>1, ReaderStays
  <2>3. Data' = Data /\ Got' = Got /\ Wish' = Wish
    BY <2>1, SameData DEF Got, Wish
  <2>4. ClientInv'
    BY <1>1, <2>1, <2>2, <2>3 DEF ClientInv, Reading, HasRead, Quiet, Wants, Begins
  <2> QED BY <1>2, <2>2, <2>4 DEF JourneyInv
<1> QED BY <1>3, <1>4, <1>5, <1>6, <1>7, <1>8 DEF Next, Client, ClientStep, Returns

LEMMA JourneyInvariance == Spec => []JourneyInv
BY InitJourneyInv, StepJourneyInv, PTL DEF Spec

\* What a client has read are the extrinsics of its application, in order; each
\* decodes, passes the check of the node and belongs to the application, however
\* the bytes lie in the cells.
THEOREM ClientReadsWhatIsThere == Spec => []ClientReadsTheBlock
<1>1. JourneyInv => ClientReadsTheBlock
  <2> SUFFICES ASSUME JourneyInv PROVE ClientReadsTheBlock
    OBVIOUS
  <2>1. MeantInv /\ CheckedInv /\ ClientInv /\ BlockInv
    BY DEF JourneyInv, MeantInv
  <2>2. client.phase # "failed"
    BY <2>1 DEF ClientInv, Reading, Clients, NoClient
  <2>3. ASSUME client.phase = "done" PROVE client.items = Data
    <3>1. Reading
      BY <2>1, <2>3 DEF ClientInv, NoClient
    <3>2. client.items \in Seq(Seq(Nat)) /\ Data \in Seq(Seq(Nat))
      BY <2>1, <3>1, DataIsBytes DEF Reading, Clients, Data
    <3>3. Len(client.items) = Len(Data) /\ \A k \in 1 .. Len(client.items) : client.items[k] = Data[k]
      BY <2>3, <3>1 DEF Reading, HasRead, Wants, Got
    <3> QED BY <3>2, <3>3, SameItems
  <2>4. ASSUME NEW k \in 1 .. Len(Data)
        PROVE  LET decoded == DecodeExtrinsic(Data[k], TRUE)
               IN  /\ decoded.ok
                   /\ AppIdOf(decoded.xt) = client.app
                   /\ Check(decoded.xt, issued).ok
    <3>1. PICK j \in 1 .. Len(block) :
            /\ block[j].xt \in Xts
            /\ Data[k] = EncodeExtrinsic(block[j].xt)
            /\ AppIdOf(block[j].xt) = client.app
      BY <2>1, ItemFrom DEF Data
    <3>2. DecodeExtrinsic(Data[k], TRUE) = Decoded(block[j].xt, << >>)
      <4>1. Received("slice", EncodeExtrinsic(block[j].xt)) = Decoded(block[j].xt, << >>)
        BY <3>1, RoundTrip DEF Routes
      <4> QED BY <3>1, <4>1 DEF Received
    <3>3. Check(block[j].xt, issued).ok
      BY <2>1 DEF CheckedInv
    <3> DEFINE decoded == DecodeExtrinsic(Data[k], TRUE)
    <3>4. decoded.ok /\ decoded.xt = block[j].xt
      <4> DEFINE whole == Decoded(block[j].xt, << >>)
      <4>1. whole.ok /\ whole.xt = block[j].xt
        BY DEF Decoded
      <4>2. decoded = whole
        BY <3>2
      <4> HIDE DEF decoded, whole
      <4> QED BY <4>1, <4>2
    <3>5. decoded.ok /\ AppIdOf(decoded.xt) = client.app /\ Check(decoded.xt, issued).ok
      <4> HIDE DEF decoded
      <4> QED BY <3>1, <3>3, <3>4
    <3> QED BY <3>5
  <2>5. DOMAIN Data = 1 .. Len(Data)
    BY <2>1, DataIsBytes, LenProperties DEF Data
  <2> QED BY <2>2, <2>3, <2>4, <2>5, Zenon DEF ClientReadsTheBlock, Data
<1> QED BY <1>1, JourneyInvariance, PTL

-------------------------------------------------------------------------------
\* The reader and the stream of bytes.

Reply == IF asked = Idle THEN buf ELSE << >>

LEMMA StreamIs ==
  /\ Stream!Init <=> Rest \in Seq(Nat) /\ asked = Stream!Idle /\ Reply = << >>
  /\ Stream!vars = << Rest, asked, Reply >>
  /\ Stream!Idle = Idle
BY DEF Stream!Init, Stream!vars, Stream!Idle, Rest, Reply, Idle

\* What a read that returns puts in its buffer is what a stream hands out.
LEMMA ReturnIsAnswer ==
  ASSUME ReaderInv, Return
  PROVE  Stream!Answer
<1> DEFINE front == SubSeq(Rest, 1, Len(buf))
           back == SubSeq(Rest, Len(buf) + 1, Len(Rest))
           behind == FlattenSeq(parts)
<1>1. /\ asked # Idle /\ (BufLen = 0 \/ parts = << >>)
      /\ asked' = Idle /\ parts' = parts /\ buf' = buf
  BY DEF Return
<1>2. buf \in Seq(Nat) /\ behind \in Seq(Nat) /\ Rest = buf \o behind /\ Rest \in Seq(Nat)
  BY <1>1, RestTyped DEF ReaderInv
<1>3. asked \in Nat /\ Len(buf) \in Nat /\ Len(buf) <= asked /\ Len(behind) \in Nat
      /\ Len(Rest) = Len(buf) + Len(behind)
  BY <1>1, <1>2, LenProperties, ConcatProperties DEF ReaderInv
<1>4. front = buf /\ back = behind
  <2>1. Len(buf) \in 0 .. Len(Rest)
    BY <1>3
  <2>2. front \in Seq(Nat) /\ Len(front) = Len(buf) /\ back \in Seq(Nat) /\ front \o back = Rest
    BY <1>2, <2>1, PartSplit
  <2> HIDE DEF front, back, behind
  <2>3. front \o back = buf \o behind
    BY <1>2, <2>2
  <2> QED BY <1>2, <2>2, <2>3, SameCut
<1>5. (IF asked < Len(Rest) THEN asked ELSE Len(Rest)) = Len(buf)
  <2>1. CASE BufLen = 0
    BY <1>3, <2>1 DEF BufLen
  <2>2. CASE parts = << >>
    <3>1. behind = << >> /\ Len(<< >>) = 0
      BY <2>2, FlattenNothing, EmptySeq
    <3> QED BY <1>3, <3>1
  <2> QED BY <1>1, <2>1, <2>2
<1>6. Rest' = behind
  <2>1. Rest' = << >> \o behind
    BY <1>1 DEF Rest
  <2> HIDE DEF behind
  <2>2. << >> \o behind = behind
    BY <1>2, ConcatEmptySeq
  <2> QED BY <2>1, <2>2
<1>7. Reply' = buf
  BY <1>1 DEF Reply
<1>8. Stream!Fitting(asked) = Len(buf)
  BY <1>5 DEF Stream!Fitting, Rest
<1>9. Reply' = SubSeq(Rest, 1, Stream!Fitting(asked))
  BY <1>4, <1>7, <1>8
<1>10. Rest' = SubSeq(Rest, Stream!Fitting(asked) + 1, Len(Rest))
  BY <1>4, <1>6, <1>8
<1>11. asked # Stream!Idle /\ asked' = Stream!Idle
  BY <1>1, StreamIs
<1> QED BY <1>9, <1>10, <1>11, Zenon DEF Stream!Answer, Rest, Reply

LEMMA StepIsStream == JourneyInv /\ [Next]_vars => [Stream!Next]_(Stream!vars)
<1> SUFFICES ASSUME JourneyInv, [Next]_vars PROVE [Stream!Next]_(Stream!vars)
  OBVIOUS
<1>1. MeantInv /\ ReaderInv /\ ClientInv
  BY DEF JourneyInv
<1>2. ASSUME Rest' = Rest, asked' = asked, Reply' = Reply PROVE Stream!vars' = Stream!vars
  BY <1>2, StreamIs, Zenon DEF Stream!vars, Rest, Reply
<1>3. CASE UNCHANGED << parts, asked, buf >>
  BY <1>2, <1>3 DEF Rest, Reply
<1>4. CASE \E app \in {tx.app : tx \in Txs} : Open(app)
  <2>1. PICK app \in {tx.app : tx \in Txs} : Open(app)
    BY <1>4
  <2>2. Rest' \in Seq(Nat)
    BY <1>1, <2>1, OpenReads
  <2>4. asked = Idle /\ asked' = asked /\ Reply' = << >>
    BY <2>1 DEF Open, FromIter, Reply
  <2>5. Stream!Open
    BY <2>2, <2>4, StreamIs, Zenon DEF Stream!Open, Rest, Reply
  <2> QED BY <2>5 DEF Stream!Next
<1>5. CASE ClientAsk
  <2>1. Rest' = Rest /\ asked = Idle /\ asked' \in Nat
    BY <1>1, <1>5, AskKeeps
  <2>2. Reply' = << >>
    BY <1>5, <2>1 DEF ClientAsk, Read, Reply
  <2>3. Stream!Ask
    BY <2>1, <2>2, StreamIs, Zenon DEF Stream!Ask, Rest, Reply
  <2> QED BY <2>3 DEF Stream!Next
<1>6. CASE CopyPart /\ UNCHANGED client /\ UNCHANGED nodeVars
  <2>1. Rest' = Rest /\ asked # Idle /\ asked' = asked
    BY <1>1, <1>6, CopyStays DEF CopyPart
  <2>2. Reply' = Reply
    BY <2>1 DEF Reply
  <2> QED BY <1>2, <2>1, <2>2
<1>7. CASE Returns
  <2>1. Stream!Answer
    BY <1>1, <1>7, ReturnIsAnswer DEF Returns
  <2> QED BY <2>1 DEF Stream!Next
<1>8. CASE Decode \/ CheckAndInclude \/ \E tx \in Txs, route \in Routes : Submit(tx, route)
  BY <1>3, <1>8 DEF Decode, CheckAndInclude, Submit
<1>9. CASE UNCHANGED vars
  BY <1>3, <1>9 DEF vars
<1> QED BY <1>4, <1>5, <1>6, <1>7, <1>8, <1>9 DEF Next, Client, ClientStep, Returns

\* Every step of the reader is one of the stream, or none: a read is answered
\* with the next bytes in order, however they lie in the slices.
THEOREM ReaderIsStream == Spec => Stream!Init /\ [][Stream!Next]_(Stream!vars)
<1>1. Init => Stream!Init
  <2> SUFFICES ASSUME Init PROVE Stream!Init
    OBVIOUS
  <2>1. JourneyInv
    BY InitJourneyInv
  <2>2. Rest \in Seq(Nat)
    BY <2>1, RestTyped DEF JourneyInv
  <2>3. asked = Idle /\ Reply = << >>
    BY DEF Init, ReaderInit, Reply
  <2> QED BY <2>2, <2>3, StreamIs
<1> QED BY <1>1, StepIsStream, JourneyInvariance, PTL DEF Spec

===============================================================================
