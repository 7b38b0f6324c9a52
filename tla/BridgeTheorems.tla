---------------------------- MODULE BridgeTheorems ----------------------------
(***************************************************************************)
(* What the encodings and the tries of DataProofs determine: one header    *)
(* for a hash, one message for its ABI encoding, and for a root the leaves *)
(* that can be shown in it, all of them and no others.  And from that, of  *)
(* BridgeProofs: the client of another chain holds headers of this one,    *)
(* executes what was sent, once, and is convinced of what was submitted.   *)
(***************************************************************************)
EXTENDS BridgeProofs, SequenceTheorems, FiniteSetTheorems, WellFoundedInduction, TLAPS

-------------------------------------------------------------------------------
(***************************************************************************)
(* The smallest number of a set: what the inductions below stand on.       *)
(***************************************************************************)

\* A set of naturals has a least element.  (Their intervals 0 .. n - 1 are finite
\* sets, which the inclusion orders well.)
LEMMA LeastElement ==
  ASSUME NEW T \in SUBSET Nat, T # {}
  PROVE  \E n \in T : \A k \in T : n <= k
<1> DEFINE below(n) == 0 .. (n - 1)
           F == {below(n) : n \in T}
           R == StrictSubsetOrdering(Nat)
<1>1. IsWellFoundedOn(R, FiniteSubsetsOf(Nat))
  BY FS_StrictSubsetOrderingWellFounded, Zenon
<1>2. F \subseteq FiniteSubsetsOf(Nat)
  <2> SUFFICES ASSUME NEW n \in T PROVE below(n) \in FiniteSubsetsOf(Nat)
    OBVIOUS
  <2>1. n \in Nat /\ n - 1 \in Int /\ 0 \in Int
    OBVIOUS
  <2>2. IsFiniteSet(below(n))
    BY <2>1, FS_Interval
  <2>3. below(n) \in SUBSET Nat
    BY <2>1
  <2> QED BY <2>2, <2>3 DEF FiniteSubsetsOf
<1>3. F # {}
  OBVIOUS
<1>4. PICK x \in F : \A y \in F : << y, x >> \notin R
  <2> HIDE DEF R, F
  <2> QED BY <1>1, <1>2, <1>3, WFMin, Zenon
<1>5. PICK n \in T : x = below(n)
  OBVIOUS
<1>6. ASSUME NEW k \in T PROVE n <= k
  <2>1. << below(k), below(n) >> \notin R
    BY <1>4, <1>5
  <2>2. below(k) \in SUBSET Nat /\ below(n) \in SUBSET Nat
    OBVIOUS
  <2>3. ~(below(k) \subseteq below(n) /\ below(k) # below(n))
    <3> HIDE DEF below
    <3> QED BY <2>1, <2>2 DEF StrictSubsetOrdering
  <2>4. k \in Nat /\ n \in Nat
    OBVIOUS
  <2>5. ASSUME k < n PROVE FALSE
    <3>1. k \in below(n) /\ k \notin below(k)
      BY <2>4, <2>5
    <3>2. below(k) \subseteq below(n)
      BY <2>4, <2>5
    <3> QED BY <3>1, <3>2, <2>3
  <2> QED BY <2>4, <2>5
<1> QED BY <1>6

\* Induction up to N: a set of naturals with 0 that has the successor of each of
\* its members below N has them all.
LEMMA UpTo ==
  ASSUME NEW N \in Nat, NEW T, 0 \in T,
         \A n \in 1 .. N : n - 1 \in T => n \in T
  PROVE  \A n \in 0 .. N : n \in T
<1> DEFINE M == {n \in 0 .. N : n \notin T}
<1>1. SUFFICES ASSUME M # {} PROVE FALSE
  OBVIOUS
<1>2. M \in SUBSET Nat
  OBVIOUS
<1>3. PICK n \in M : \A k \in M : n <= k
  <2> HIDE DEF M
  <2> QED BY <1>1, <1>2, LeastElement
<1>4. n \in 1 .. N
  OBVIOUS
<1>5. n - 1 \in 0 .. N /\ ~(n <= n - 1)
  BY <1>4
<1>6. n - 1 \in T
  BY <1>3, <1>5
<1> QED BY <1>4, <1>6

-------------------------------------------------------------------------------
(***************************************************************************)
(* Sequences of anything.                                                  *)
(***************************************************************************)

LEMMA SequenceFacts ==
  ASSUME NEW s, IsSequence(s)
  PROVE  /\ Len(s) \in Nat /\ DOMAIN s = 1 .. Len(s)
         /\ s = [k \in 1 .. Len(s) |-> s[k]]
<1>1. s \in Seq({s[k] : k \in DOMAIN s})
  BY DEF IsSequence
<1>2. /\ Len(s) \in Nat /\ DOMAIN s = 1 .. Len(s)
      /\ s \in [1 .. Len(s) -> {s[k] : k \in DOMAIN s}]
  BY <1>1, LenProperties
<1> QED BY <1>2

LEMMA SequenceOf ==
  ASSUME NEW S, NEW s \in Seq(S)
  PROVE  IsSequence(s)
<1>1. Len(s) \in Nat /\ DOMAIN s = 1 .. Len(s) /\ s \in [1 .. Len(s) -> S]
  BY LenProperties
<1>2. s \in [1 .. Len(s) -> {s[k] : k \in DOMAIN s}]
  BY <1>1
<1>3. s \in Seq({s[k] : k \in DOMAIN s})
  BY <1>1, <1>2, SeqDef
<1> QED BY <1>3 DEF IsSequence

LEMMA SequenceFrom ==
  ASSUME NEW n \in Nat, NEW s, s = [k \in 1 .. n |-> s[k]]
  PROVE  IsSequence(s) /\ Len(s) = n
<1>1. s \in [1 .. n -> {s[k] : k \in DOMAIN s}]
  OBVIOUS
<1>2. s \in Seq({s[k] : k \in DOMAIN s})
  BY <1>1, SeqDef
<1>3. DOMAIN s = 1 .. n /\ Len(s) \in Nat /\ DOMAIN s = 1 .. Len(s)
  BY <1>1, <1>2, LenProperties
<1>4. Len(s) = n
  BY <1>3
<1> QED BY <1>2, <1>4 DEF IsSequence

LEMMA SameSequence ==
  ASSUME NEW a, NEW b, IsSequence(a), IsSequence(b), Len(a) = Len(b),
         \A k \in 1 .. Len(a) : a[k] = b[k]
  PROVE  a = b
<1>1. /\ a = [k \in 1 .. Len(a) |-> a[k]] /\ b = [k \in 1 .. Len(b) |-> b[k]]
  BY SequenceFacts
<1>2. [k \in 1 .. Len(a) |-> a[k]] = [k \in 1 .. Len(b) |-> b[k]]
  OBVIOUS
<1> QED BY <1>1, <1>2, Zenon

LEMMA Joined ==
  ASSUME NEW a, NEW b, IsSequence(a), IsSequence(b)
  PROVE  /\ IsSequence(a \o b) /\ Len(a \o b) = Len(a) + Len(b)
         /\ \A k \in 1 .. Len(a) : (a \o b)[k] = a[k]
         /\ \A k \in 1 .. Len(b) : (a \o b)[Len(a) + k] = b[k]
<1> DEFINE A == {a[k] : k \in DOMAIN a}
           B == {b[k] : k \in DOMAIN b}
           S == A \cup B
<1>1. a \in Seq(A) /\ b \in Seq(B) /\ A \subseteq S /\ B \subseteq S
  BY DEF IsSequence
<1>2. a \in Seq(S) /\ b \in Seq(S)
  <2> HIDE DEF A, B, S
  <2> QED BY <1>1, SeqMonotonic
<1> HIDE DEF A, B, S
<1>3. /\ a \o b \in Seq(S) /\ Len(a \o b) = Len(a) + Len(b)
      /\ \A k \in 1 .. Len(a) + Len(b) :
           (a \o b)[k] = IF k <= Len(a) THEN a[k] ELSE b[k - Len(a)]
  BY <1>2, ConcatProperties
<1>4. Len(a) \in Nat /\ Len(b) \in Nat
  BY SequenceFacts
<1>5. IsSequence(a \o b)
  BY <1>3, SequenceOf
<1>6. \A k \in 1 .. Len(a) : (a \o b)[k] = a[k]
  BY <1>3, <1>4
<1>7. ASSUME NEW k \in 1 .. Len(b) PROVE (a \o b)[Len(a) + k] = b[k]
  <2>1. /\ Len(a) + k \in 1 .. Len(a) + Len(b) /\ ~(Len(a) + k <= Len(a))
        /\ (Len(a) + k) - Len(a) = k
    BY <1>4
  <2> QED BY <1>3, <2>1
<1> QED BY <1>3, <1>5, <1>6, <1>7

LEMMA JoinedIs ==
  ASSUME NEW a, NEW b, IsSequence(a), IsSequence(b)
  PROVE  IsSequence(a \o b)
BY Joined

LEMMA JoinedLen ==
  ASSUME NEW a, NEW b, IsSequence(a), IsSequence(b)
  PROVE  Len(a \o b) = Len(a) + Len(b)
BY Joined

LEMMA JoinedLeft ==
  ASSUME NEW a, NEW b, IsSequence(a), IsSequence(b), NEW k \in 1 .. Len(a)
  PROVE  (a \o b)[k] = a[k]
BY Joined

LEMMA JoinedRight ==
  ASSUME NEW a, NEW b, IsSequence(a), IsSequence(b), NEW k \in 1 .. Len(b)
  PROVE  (a \o b)[Len(a) + k] = b[k]
BY Joined

\* A string that was joined from two comes apart again when the length of the
\* first part is known.
LEMMA SplitLeft ==
  ASSUME NEW a, NEW b, NEW c, NEW d,
         IsSequence(a), IsSequence(b), IsSequence(c), IsSequence(d),
         Len(a) = Len(c), a \o b = c \o d
  PROVE  a = c
<1>1. ASSUME NEW k \in 1 .. Len(a) PROVE a[k] = c[k]
  <2>1. (a \o b)[k] = a[k]
    BY JoinedLeft, Zenon
  <2>2. k \in 1 .. Len(c)
    OBVIOUS
  <2>3. (c \o d)[k] = c[k]
    BY <2>2, JoinedLeft, Zenon
  <2> QED BY <2>1, <2>3
<1> QED BY <1>1, SameSequence, Zenon

LEMMA SplitRight ==
  ASSUME NEW a, NEW b, NEW c, NEW d,
         IsSequence(a), IsSequence(b), IsSequence(c), IsSequence(d),
         Len(a) = Len(c), a \o b = c \o d
  PROVE  b = d
<1>1. Len(a) \in Nat /\ Len(b) \in Nat /\ Len(c) \in Nat /\ Len(d) \in Nat
  BY SequenceFacts
<1>2. Len(a \o b) = Len(a) + Len(b)
  BY JoinedLen, Zenon
<1>3. Len(c \o d) = Len(c) + Len(d)
  BY JoinedLen, Zenon
<1>4. Len(b) = Len(d)
  BY <1>1, <1>2, <1>3
<1>5. ASSUME NEW k \in 1 .. Len(b) PROVE b[k] = d[k]
  <2>1. (a \o b)[Len(a) + k] = b[k]
    BY JoinedRight, Zenon
  <2>2. k \in 1 .. Len(d)
    BY <1>4
  <2>3. (c \o d)[Len(c) + k] = d[k]
    BY <2>2, JoinedRight, Zenon
  <2> QED BY <2>1, <2>3
<1> QED BY <1>4, <1>5, SameSequence, Zenon

LEMMA OneWord ==
  ASSUME NEW x
  PROVE  IsSequence(<< x >>) /\ Len(<< x >>) = 1 /\ << x >>[1] = x
<1>1. << x >> \in Seq({x}) /\ Len(<< x >>) = 1 /\ << x >>[1] = x
  OBVIOUS
<1> QED BY <1>1, SequenceOf

LEMMA TwoWords ==
  ASSUME NEW x, NEW y
  PROVE  /\ IsSequence(<< x, y >>) /\ Len(<< x, y >>) = 2
         /\ << x, y >>[1] = x /\ << x, y >>[2] = y
<1>1. /\ << x, y >> \in Seq({x, y}) /\ Len(<< x, y >>) = 2
      /\ << x, y >>[1] = x /\ << x, y >>[2] = y
  OBVIOUS
<1> QED BY <1>1, SequenceOf

LEMMA NoWord == IsSequence(<< >>) /\ Len(<< >>) = 0
<1>1. << >> \in Seq({}) /\ Len(<< >>) = 0
  BY EmptySeq
<1> QED BY <1>1, SequenceOf

LEMMA Appended ==
  ASSUME NEW s, NEW x, IsSequence(s)
  PROVE  /\ IsSequence(Append(s, x)) /\ Len(Append(s, x)) = Len(s) + 1
         /\ \A k \in 1 .. Len(s) : Append(s, x)[k] = s[k]
         /\ Append(s, x)[Len(s) + 1] = x
<1> DEFINE S == {s[k] : k \in DOMAIN s} \cup {x}
<1>1. s \in Seq(S)
  <2> DEFINE A == {s[k] : k \in DOMAIN s}
  <2>1. s \in Seq(A) /\ A \subseteq S
    BY DEF IsSequence
  <2> HIDE DEF A, S
  <2> QED BY <2>1, SeqMonotonic
<1>2. x \in S
  OBVIOUS
<1> HIDE DEF S
<1>3. /\ Append(s, x) \in Seq(S) /\ Len(Append(s, x)) = Len(s) + 1
      /\ \A i \in 1 .. Len(s) : Append(s, x)[i] = s[i]
      /\ Append(s, x)[Len(s) + 1] = x
  BY <1>1, <1>2, AppendProperties
<1> QED BY <1>3, SequenceOf

-------------------------------------------------------------------------------
(***************************************************************************)
(* Words.                                                                  *)
(***************************************************************************)

LEMMA NumberInjective ==
  ASSUME NEW n, NEW m, Number(n) = Number(m)
  PROVE  n = m
BY DEF Number

LEMMA HashIsHash ==
  ASSUME NEW by, NEW bytes
  PROVE  IsHash(Hash(by, bytes)) /\ IsHash(Keccak(bytes)) /\ IsHash(DefaultHash)
BY OneWord DEF IsHash, Hash, Keccak, DefaultHash

\* A hash is ideal: it is only the hash of what it is the hash of.
LEMMA HashInjective ==
  ASSUME NEW by, NEW x, NEW with, NEW y, Hash(by, x) = Hash(with, y)
  PROVE  by = with /\ x = y
BY DEF Hash

LEMMA KeccakInjective ==
  ASSUME NEW x, NEW y, Keccak(x) = Keccak(y)
  PROVE  x = y
BY HashInjective DEF Keccak

LEMMA KeccakIsNotDefault == \A x : Keccak(x) # DefaultHash
BY DEF Keccak, DefaultHash, Hash

LEMMA HashWidth ==
  ASSUME NEW h, IsHash(h)
  PROVE  IsSequence(h) /\ Len(h) = 1
BY DEF IsHash

\* Two hashes side by side come apart again (TxDataRoots::new, the inner nodes of
\* a trie).
LEMMA HashesSplitLeft ==
  ASSUME NEW a, NEW b, NEW c, NEW d, IsHash(a), IsHash(b), IsHash(c), IsHash(d),
         a \o b = c \o d
  PROVE  a = c
<1>1. /\ IsSequence(a) /\ IsSequence(b) /\ IsSequence(c) /\ IsSequence(d)
      /\ Len(a) = Len(c)
  BY HashWidth
<1> QED BY <1>1, SplitLeft, Zenon

LEMMA HashesSplitRight ==
  ASSUME NEW a, NEW b, NEW c, NEW d, IsHash(a), IsHash(b), IsHash(c), IsHash(d),
         a \o b = c \o d
  PROVE  b = d
<1>1. /\ IsSequence(a) /\ IsSequence(b) /\ IsSequence(c) /\ IsSequence(d)
      /\ Len(a) = Len(c)
  BY HashWidth
<1> QED BY <1>1, SplitRight, Zenon

LEMMA HashesJoined ==
  ASSUME NEW a, NEW b, IsHash(a), IsHash(b)
  PROVE  IsSequence(a \o b) /\ Len(a \o b) = 2
<1>1. IsSequence(a) /\ IsSequence(b) /\ Len(a) = 1 /\ Len(b) = 1
  BY HashWidth
<1>2. IsSequence(a \o b)
  BY <1>1, JoinedIs, Zenon
<1>3. Len(a \o b) = Len(a) + Len(b)
  BY <1>1, JoinedLen, Zenon
<1> QED BY <1>1, <1>2, <1>3

-------------------------------------------------------------------------------
(***************************************************************************)
(* What a header encodes to determines what the header carries.            *)
(***************************************************************************)

LEMMA VectorIs ==
  ASSUME NEW a, IsSequence(a)
  PROVE  /\ IsSequence(EncodeVector(a)) /\ Len(EncodeVector(a)) = 1 + Len(a)
         /\ EncodeVector(a)[1] = Number(Len(a))
<1> DEFINE w == << Number(Len(a)) >>
<1>1. IsSequence(w) /\ Len(w) = 1 /\ w[1] = Number(Len(a))
  BY OneWord
<1>2. EncodeVector(a) = w \o a
  BY DEF EncodeVector
<1> HIDE DEF w
<1>3. 1 \in 1 .. Len(w)
  BY <1>1
<1>4. IsSequence(w \o a)
  BY <1>1, JoinedIs, Zenon
<1>5. Len(w \o a) = Len(w) + Len(a)
  BY <1>1, JoinedLen, Zenon
<1>6. (w \o a)[1] = w[1]
  BY <1>1, <1>3, JoinedLeft, Zenon
<1> QED BY <1>1, <1>2, <1>4, <1>5, <1>6

LEMMA VectorSplit ==
  ASSUME NEW a, NEW b, NEW x, NEW y,
         IsSequence(a), IsSequence(b), IsSequence(x), IsSequence(y),
         EncodeVector(a) \o x = EncodeVector(b) \o y
  PROVE  a = b /\ x = y
<1>1. /\ IsSequence(EncodeVector(a)) /\ Len(EncodeVector(a)) = 1 + Len(a)
      /\ EncodeVector(a)[1] = Number(Len(a)) /\ Len(a) \in Nat
  BY VectorIs, SequenceFacts
<1>2. /\ IsSequence(EncodeVector(b)) /\ Len(EncodeVector(b)) = 1 + Len(b)
      /\ EncodeVector(b)[1] = Number(Len(b)) /\ Len(b) \in Nat
  BY VectorIs, SequenceFacts
<1>3. Number(Len(a)) = Number(Len(b))
  <2>1. 1 \in 1 .. Len(EncodeVector(a)) /\ 1 \in 1 .. Len(EncodeVector(b))
    BY <1>1, <1>2
  <2>2. (EncodeVector(a) \o x)[1] = EncodeVector(a)[1]
    BY <1>1, <2>1, JoinedLeft, Zenon
  <2>3. (EncodeVector(b) \o y)[1] = EncodeVector(b)[1]
    BY <1>2, <2>1, JoinedLeft, Zenon
  <2> QED BY <1>1, <1>2, <2>2, <2>3
<1>4. Len(a) = Len(b)
  BY <1>3, NumberInjective
<1>5. Len(EncodeVector(a)) = Len(EncodeVector(b))
  BY <1>1, <1>2, <1>4
<1>6. EncodeVector(a) = EncodeVector(b)
  BY <1>1, <1>2, <1>5, SplitLeft, Zenon
<1>7. x = y
  BY <1>1, <1>2, <1>5, SplitRight, Zenon
<1>8. a = b
  <2> DEFINE v == << Number(Len(a)) >>
             w == << Number(Len(b)) >>
  <2>1. IsSequence(v) /\ IsSequence(w) /\ Len(v) = Len(w)
    BY OneWord
  <2>2. v \o a = w \o b
    BY <1>6 DEF EncodeVector
  <2> HIDE DEF v, w
  <2> QED BY <2>1, <2>2, SplitRight, Zenon
<1> QED BY <1>7, <1>8

\* The compact form of a lookup, as from_data_lookup builds it.
IsCompact(c) ==
  /\ c = [size |-> c.size, index |-> c.index]
  /\ IsSequence(c.index)
  /\ \A k \in 1 .. Len(c.index) : c.index[k] = CompactItem(c.index[k].id, c.index[k].start)

Items(c) ==
  [k \in 1 .. 2 * Len(c.index) |->
     Number(IF k % 2 = 1 THEN c.index[(k + 1) \div 2].id ELSE c.index[(k + 1) \div 2].start)]

LEMMA PairPositions ==
  ASSUME NEW k \in Nat \ {0}
  PROVE  /\ (2 * k - 1) % 2 = 1 /\ ((2 * k - 1) + 1) \div 2 = k
         /\ (2 * k) % 2 = 0 /\ (2 * k + 1) \div 2 = k
OBVIOUS

LEMMA ItemsAre ==
  ASSUME NEW c, IsCompact(c)
  PROVE  /\ IsSequence(Items(c)) /\ Len(Items(c)) = 2 * Len(c.index)
         /\ \A k \in 1 .. Len(c.index) :
              /\ Items(c)[2 * k - 1] = Number(c.index[k].id)
              /\ Items(c)[2 * k] = Number(c.index[k].start)
<1>1. Len(c.index) \in Nat
  BY SequenceFacts DEF IsCompact
<1>2. 2 * Len(c.index) \in Nat
  BY <1>1
<1>3. Items(c) = [k \in 1 .. 2 * Len(c.index) |-> Items(c)[k]]
  BY DEF Items
<1>4. IsSequence(Items(c)) /\ Len(Items(c)) = 2 * Len(c.index)
  BY <1>2, <1>3, SequenceFrom
<1>5. ASSUME NEW k \in 1 .. Len(c.index)
      PROVE  /\ Items(c)[2 * k - 1] = Number(c.index[k].id)
             /\ Items(c)[2 * k] = Number(c.index[k].start)
  <2>1. /\ 2 * k - 1 \in 1 .. 2 * Len(c.index) /\ 2 * k \in 1 .. 2 * Len(c.index)
        /\ k \in Nat \ {0}
    BY <1>1
  <2>2. /\ (2 * k - 1) % 2 = 1 /\ ((2 * k - 1) + 1) \div 2 = k
        /\ (2 * k) % 2 = 0 /\ (2 * k + 1) \div 2 = k
    BY <2>1, PairPositions
  <2> QED BY <2>1, <2>2 DEF Items
<1> QED BY <1>4, <1>5

LEMMA CompactIs ==
  ASSUME NEW c, IsCompact(c)
  PROVE  /\ IsSequence(EncodeCompact(c)) /\ Len(EncodeCompact(c)) = 2 + 2 * Len(c.index)
         /\ EncodeCompact(c)[1] = Number(c.size)
         /\ EncodeCompact(c)[2] = Number(Len(c.index))
<1> DEFINE w == << Number(c.size), Number(Len(c.index)) >>
           t == Items(c)
<1>1. EncodeCompact(c) = w \o t
  BY DEF EncodeCompact, Items
<1>2. /\ IsSequence(w) /\ Len(w) = 2
      /\ w[1] = Number(c.size) /\ w[2] = Number(Len(c.index))
  BY TwoWords
<1>3. IsSequence(t) /\ Len(t) = 2 * Len(c.index)
  BY ItemsAre
<1> HIDE DEF w, t
<1>4. 1 \in 1 .. Len(w) /\ 2 \in 1 .. Len(w)
  BY <1>2
<1>5. IsSequence(w \o t)
  BY <1>2, <1>3, JoinedIs, Zenon
<1>6. Len(w \o t) = Len(w) + Len(t)
  BY <1>2, <1>3, JoinedLen, Zenon
<1>7. (w \o t)[1] = w[1]
  BY <1>2, <1>3, <1>4, JoinedLeft, Zenon
<1>8. (w \o t)[2] = w[2]
  BY <1>2, <1>3, <1>4, JoinedLeft, Zenon
<1> QED BY <1>1, <1>2, <1>3, <1>5, <1>6, <1>7, <1>8

LEMMA CompactSplit ==
  ASSUME NEW a, NEW b, NEW x, NEW y, IsCompact(a), IsCompact(b),
         IsSequence(x), IsSequence(y), EncodeCompact(a) \o x = EncodeCompact(b) \o y
  PROVE  a = b /\ x = y
<1> DEFINE A == EncodeCompact(a)
           B == EncodeCompact(b)
<1>1. /\ IsSequence(A) /\ Len(A) = 2 + 2 * Len(a.index)
      /\ A[1] = Number(a.size) /\ A[2] = Number(Len(a.index)) /\ Len(a.index) \in Nat
  BY CompactIs, SequenceFacts DEF IsCompact
<1>2. /\ IsSequence(B) /\ Len(B) = 2 + 2 * Len(b.index)
      /\ B[1] = Number(b.size) /\ B[2] = Number(Len(b.index)) /\ Len(b.index) \in Nat
  BY CompactIs, SequenceFacts DEF IsCompact
<1>3. A \o x = B \o y
  OBVIOUS
<1> HIDE DEF A, B
<1>4. Number(a.size) = Number(b.size) /\ Number(Len(a.index)) = Number(Len(b.index))
  <2>1. 1 \in 1 .. Len(A) /\ 1 \in 1 .. Len(B) /\ 2 \in 1 .. Len(A) /\ 2 \in 1 .. Len(B)
    BY <1>1, <1>2
  <2>2. (A \o x)[1] = A[1]
    BY <1>1, <2>1, JoinedLeft, Zenon
  <2>3. (A \o x)[2] = A[2]
    BY <1>1, <2>1, JoinedLeft, Zenon
  <2>4. (B \o y)[1] = B[1]
    BY <1>2, <2>1, JoinedLeft, Zenon
  <2>5. (B \o y)[2] = B[2]
    BY <1>2, <2>1, JoinedLeft, Zenon
  <2> QED BY <1>1, <1>2, <1>3, <2>2, <2>3, <2>4, <2>5
<1>5. a.size = b.size /\ Len(a.index) = Len(b.index)
  BY <1>4, NumberInjective
<1>6. Len(A) = Len(B)
  BY <1>1, <1>2, <1>5
<1>7. A = B
  BY <1>1, <1>2, <1>3, <1>6, SplitLeft, Zenon
<1>8. x = y
  BY <1>1, <1>2, <1>3, <1>6, SplitRight, Zenon
<1>9. Items(a) = Items(b)
  <2> DEFINE v == << Number(a.size), Number(Len(a.index)) >>
             w == << Number(b.size), Number(Len(b.index)) >>
  <2>1. IsSequence(v) /\ IsSequence(w) /\ Len(v) = Len(w)
    BY TwoWords
  <2>2. v \o Items(a) = w \o Items(b)
    BY <1>7 DEF A, B, EncodeCompact, Items
  <2>3. IsSequence(Items(a)) /\ IsSequence(Items(b))
    BY ItemsAre
  <2> HIDE DEF v, w
  <2> QED BY <2>1, <2>2, <2>3, SplitRight, Zenon
<1>10. ASSUME NEW k \in 1 .. Len(a.index) PROVE a.index[k] = b.index[k]
  <2>1. /\ Items(a)[2 * k - 1] = Number(a.index[k].id)
        /\ Items(a)[2 * k] = Number(a.index[k].start)
    BY ItemsAre
  <2>2. k \in 1 .. Len(b.index)
    BY <1>5
  <2>3. /\ Items(b)[2 * k - 1] = Number(b.index[k].id)
        /\ Items(b)[2 * k] = Number(b.index[k].start)
    BY <2>2, ItemsAre
  <2>4. Number(a.index[k].id) = Number(b.index[k].id)
        /\ Number(a.index[k].start) = Number(b.index[k].start)
    BY <1>9, <2>1, <2>3
  <2>5. a.index[k].id = b.index[k].id /\ a.index[k].start = b.index[k].start
    BY <2>4, NumberInjective
  <2>6. /\ a.index[k] = CompactItem(a.index[k].id, a.index[k].start)
        /\ b.index[k] = CompactItem(b.index[k].id, b.index[k].start)
    BY <2>2 DEF IsCompact
  <2> QED BY <2>5, <2>6
<1>11. a.index = b.index
  <2>1. IsSequence(a.index) /\ IsSequence(b.index)
    BY DEF IsCompact
  <2> QED BY <1>5, <1>10, <2>1, SameSequence, Zenon
<1>12. a = b
  <2>1. /\ a = [size |-> a.size, index |-> a.index]
        /\ b = [size |-> b.size, index |-> b.index]
    BY DEF IsCompact
  <2> QED BY <1>5, <1>11, <2>1
<1> QED BY <1>8, <1>12

\* The fields of a header and its extension, by their types; the lookup is any
\* that has a compact form.
Encodable(h) ==
  LET ext == h.extension
  IN  /\ h = [parent_hash |-> h.parent_hash, number |-> h.number, state_root |-> h.state_root,
              extrinsics_root |-> h.extrinsics_root, digest |-> h.digest, extension |-> ext]
      /\ ext = Extension(ext.app_lookup, ext.rows, ext.cols, ext.data_root, ext.commitment)
      /\ IsHash(h.parent_hash) /\ IsHash(h.state_root) /\ IsHash(h.extrinsics_root)
      /\ IsHash(ext.data_root) /\ IsSequence(h.digest) /\ IsSequence(ext.commitment)
      /\ IsCompact(Compact(ext.app_lookup))

\* What is behind the compact lookup in an extension.
Tailing(ext) ==
  << Number(ext.rows), Number(ext.cols) >> \o (EncodeVector(ext.commitment) \o ext.data_root)

LEMMA TailingSplit ==
  ASSUME NEW e, NEW f, IsSequence(e.commitment), IsSequence(f.commitment),
         IsHash(e.data_root), IsHash(f.data_root), Tailing(e) = Tailing(f)
  PROVE  e.rows = f.rows /\ e.cols = f.cols /\ e.commitment = f.commitment
         /\ e.data_root = f.data_root
<1> DEFINE v == << Number(e.rows), Number(e.cols) >>
           w == << Number(f.rows), Number(f.cols) >>
           x == EncodeVector(e.commitment) \o e.data_root
           y == EncodeVector(f.commitment) \o f.data_root
<1>1. /\ IsSequence(EncodeVector(e.commitment)) /\ IsSequence(EncodeVector(f.commitment))
      /\ IsSequence(e.data_root) /\ IsSequence(f.data_root)
  BY VectorIs, HashWidth
<1>2. IsSequence(x)
  BY <1>1, JoinedIs, Zenon
<1>3. IsSequence(y)
  BY <1>1, JoinedIs, Zenon
<1>4. IsSequence(v) /\ IsSequence(w) /\ Len(v) = Len(w)
  BY TwoWords
<1>5. v \o x = w \o y
  BY DEF Tailing
<1> HIDE DEF v, w, x, y
<1>6. v = w
  BY <1>2, <1>3, <1>4, <1>5, SplitLeft, Zenon
<1>7. x = y
  BY <1>2, <1>3, <1>4, <1>5, SplitRight, Zenon
<1>8. Number(e.rows) = Number(f.rows) /\ Number(e.cols) = Number(f.cols)
  BY <1>6 DEF v, w
<1>9. e.rows = f.rows /\ e.cols = f.cols
  BY <1>8, NumberInjective
<1>10. e.commitment = f.commitment /\ e.data_root = f.data_root
  BY <1>1, <1>7, VectorSplit DEF x, y
<1> QED BY <1>9, <1>10

LEMMA TailingIs ==
  ASSUME NEW e, IsSequence(e.commitment), IsHash(e.data_root)
  PROVE  IsSequence(Tailing(e))
<1> DEFINE v == << Number(e.rows), Number(e.cols) >>
           x == EncodeVector(e.commitment) \o e.data_root
<1>1. IsSequence(EncodeVector(e.commitment)) /\ IsSequence(e.data_root)
  BY VectorIs, HashWidth
<1>2. IsSequence(x)
  BY <1>1, JoinedIs, Zenon
<1>3. IsSequence(v)
  BY TwoWords
<1>4. Tailing(e) = v \o x
  BY DEF Tailing
<1> HIDE DEF v, x
<1>5. IsSequence(v \o x)
  BY <1>2, <1>3, JoinedIs, Zenon
<1> QED BY <1>4, <1>5

LEMMA ExtensionIs ==
  ASSUME NEW h, Encodable(h)
  PROVE  /\ IsSequence(EncodeExtension(h.extension))
         /\ EncodeExtension(h.extension)
              = EncodeCompact(Compact(h.extension.app_lookup)) \o Tailing(h.extension)
<1> DEFINE c == EncodeCompact(Compact(h.extension.app_lookup))
           t == Tailing(h.extension)
<1>1. EncodeExtension(h.extension) = c \o t
  BY DEF EncodeExtension, Tailing
<1>2. IsSequence(c)
  BY CompactIs DEF Encodable
<1>3. IsSequence(t)
  BY TailingIs DEF Encodable
<1> HIDE DEF c, t
<1>4. IsSequence(c \o t)
  BY <1>2, <1>3, JoinedIs, Zenon
<1> QED BY <1>1, <1>4 DEF c, t

LEMMA ExtensionInjective ==
  ASSUME NEW g, NEW h, Encodable(g), Encodable(h),
         EncodeExtension(g.extension) = EncodeExtension(h.extension)
  PROVE  /\ Compact(g.extension.app_lookup) = Compact(h.extension.app_lookup)
         /\ g.extension.rows = h.extension.rows /\ g.extension.cols = h.extension.cols
         /\ g.extension.commitment = h.extension.commitment
         /\ g.extension.data_root = h.extension.data_root
<1> DEFINE a == Compact(g.extension.app_lookup)
           b == Compact(h.extension.app_lookup)
           x == Tailing(g.extension)
           y == Tailing(h.extension)
<1>1. EncodeCompact(a) \o x = EncodeCompact(b) \o y
  BY ExtensionIs
<1>2. IsCompact(a) /\ IsCompact(b)
  BY DEF Encodable
<1>3. IsSequence(x) /\ IsSequence(y)
  BY TailingIs DEF Encodable
<1>4. a = b /\ x = y
  <2> HIDE DEF a, b, x, y
  <2> QED BY <1>1, <1>2, <1>3, CompactSplit
<1>5. /\ IsSequence(g.extension.commitment) /\ IsSequence(h.extension.commitment)
      /\ IsHash(g.extension.data_root) /\ IsHash(h.extension.data_root)
  BY DEF Encodable
<1>6. /\ g.extension.rows = h.extension.rows /\ g.extension.cols = h.extension.cols
      /\ g.extension.commitment = h.extension.commitment
      /\ g.extension.data_root = h.extension.data_root
  BY <1>4, <1>5, TailingSplit
<1> QED BY <1>4, <1>6

\* The four fields in front have a fixed width.
LEMMA FieldsAre ==
  ASSUME NEW h, Encodable(h)
  PROVE  /\ IsSequence(EncodeFields(h)) /\ Len(EncodeFields(h)) = 4
         /\ IsSequence(h.parent_hash \o << Number(h.number) >>)
         /\ Len(h.parent_hash \o << Number(h.number) >>) = 2
         /\ IsSequence(h.state_root \o h.extrinsics_root)
<1> DEFINE w == << Number(h.number) >>
           x == h.parent_hash \o w
           y == h.state_root \o h.extrinsics_root
<1>1. IsHash(h.parent_hash) /\ IsHash(h.state_root) /\ IsHash(h.extrinsics_root)
  BY DEF Encodable
<1>2. IsSequence(w) /\ Len(w) = 1 /\ IsSequence(h.parent_hash) /\ Len(h.parent_hash) = 1
  BY <1>1, OneWord, HashWidth
<1>3. IsSequence(y) /\ Len(y) = 2
  BY <1>1, HashesJoined
<1>4. EncodeFields(h) = x \o y
  BY DEF EncodeFields
<1> HIDE DEF w
<1>5. IsSequence(x)
  BY <1>2, JoinedIs, Zenon
<1>6. Len(x) = Len(h.parent_hash) + Len(w)
  BY <1>2, JoinedLen, Zenon
<1> HIDE DEF x, y
<1>7. IsSequence(x \o y)
  BY <1>3, <1>5, JoinedIs, Zenon
<1>8. Len(x \o y) = Len(x) + Len(y)
  BY <1>3, <1>5, JoinedLen, Zenon
<1>9. Len(x) = 2
  BY <1>2, <1>6
<1>10. Len(x \o y) = 4
  BY <1>3, <1>8, <1>9
<1>11. IsSequence(EncodeFields(h)) /\ Len(EncodeFields(h)) = 4
  BY <1>4, <1>7, <1>10
<1> QED BY <1>3, <1>5, <1>9, <1>11 DEF w, x, y

LEMMA FieldsSplit ==
  ASSUME NEW g, NEW h, Encodable(g), Encodable(h), EncodeFields(g) = EncodeFields(h)
  PROVE  /\ g.parent_hash = h.parent_hash /\ g.number = h.number
         /\ g.state_root = h.state_root /\ g.extrinsics_root = h.extrinsics_root
<1> DEFINE v == << Number(g.number) >>
           w == << Number(h.number) >>
           a == g.parent_hash \o v
           b == h.parent_hash \o w
           x == g.state_root \o g.extrinsics_root
           y == h.state_root \o h.extrinsics_root
<1>1. /\ IsSequence(a) /\ IsSequence(b) /\ IsSequence(x) /\ IsSequence(y)
      /\ Len(a) = Len(b)
  BY FieldsAre
<1>2. a \o x = b \o y
  BY DEF EncodeFields
<1>3. /\ IsHash(g.parent_hash) /\ IsHash(g.state_root) /\ IsHash(g.extrinsics_root)
      /\ IsHash(h.parent_hash) /\ IsHash(h.state_root) /\ IsHash(h.extrinsics_root)
  BY DEF Encodable
<1>4. IsSequence(v) /\ IsSequence(w)
  BY OneWord
<1>5. /\ IsSequence(g.parent_hash) /\ IsSequence(h.parent_hash)
      /\ Len(g.parent_hash) = Len(h.parent_hash)
  BY <1>3, HashWidth
<1> HIDE DEF v, w
<1>6. a = b
  <2> HIDE DEF a, b, x, y
  <2> QED BY <1>1, <1>2, SplitLeft, Zenon
<1>7. x = y
  <2> HIDE DEF a, b, x, y
  <2> QED BY <1>1, <1>2, SplitRight, Zenon
<1>8. g.parent_hash = h.parent_hash
  BY <1>4, <1>5, <1>6, SplitLeft, Zenon
<1>9. v = w
  BY <1>4, <1>5, <1>6, SplitRight, Zenon
<1>10. g.number = h.number
  <2>1. Number(g.number) = Number(h.number)
    BY <1>9 DEF v, w
  <2> QED BY <2>1, NumberInjective
<1>11. g.state_root = h.state_root
  BY <1>3, <1>7, HashesSplitLeft, Zenon
<1>12. g.extrinsics_root = h.extrinsics_root
  BY <1>3, <1>7, HashesSplitRight, Zenon
<1> QED BY <1>8, <1>10, <1>11, <1>12

LEMMA ToWireIs ==
  ASSUME NEW h, Encodable(h)
  PROVE  ToWire(h) =
           [parent_hash |-> h.parent_hash, number |-> h.number, state_root |-> h.state_root,
            extrinsics_root |-> h.extrinsics_root, digest |-> h.digest,
            extension |-> Extension(Compact(h.extension.app_lookup), h.extension.rows,
                                    h.extension.cols, h.extension.data_root,
                                    h.extension.commitment)]
<1> DEFINE ext == h.extension
<1>1. ext = Extension(ext.app_lookup, ext.rows, ext.cols, ext.data_root, ext.commitment)
  BY DEF Encodable
<1>2. [ext EXCEPT !.app_lookup = Compact(@)]
        = Extension(Compact(ext.app_lookup), ext.rows, ext.cols, ext.data_root, ext.commitment)
  <2> HIDE DEF ext
  <2> QED BY <1>1 DEF Extension
<1>3. h = [parent_hash |-> h.parent_hash, number |-> h.number, state_root |-> h.state_root,
           extrinsics_root |-> h.extrinsics_root, digest |-> h.digest, extension |-> ext]
  BY DEF Encodable
<1>4. ToWire(h) = [h EXCEPT !.extension = [ext EXCEPT !.app_lookup = Compact(@)]]
  BY DEF ToWire
<1> HIDE DEF ext
<1>5. [h EXCEPT !.extension = [ext EXCEPT !.app_lookup = Compact(@)]]
        = [parent_hash |-> h.parent_hash, number |-> h.number, state_root |-> h.state_root,
           extrinsics_root |-> h.extrinsics_root, digest |-> h.digest,
           extension |-> [ext EXCEPT !.app_lookup = Compact(@)]]
  BY <1>3
<1> QED BY <1>2, <1>4, <1>5 DEF ext

\* The hash of a header covers all of it: headers with one hash are the same when
\* they travel (Header::hash, Encode of Header and KateCommitment).
THEOREM HeaderHashInjective ==
  ASSUME NEW g, NEW h, Encodable(g), Encodable(h), HashOf(g) = HashOf(h)
  PROVE  ToWire(g) = ToWire(h)
<1> DEFINE a == EncodeFields(g)
           b == EncodeFields(h)
           x == EncodeVector(g.digest) \o EncodeExtension(g.extension)
           y == EncodeVector(h.digest) \o EncodeExtension(h.extension)
<1>1. a \o x = b \o y
  <2>1. EncodeHeader(g) = EncodeHeader(h)
    BY HashInjective, Zenon DEF HashOf
  <2> QED BY <2>1, Zenon DEF EncodeHeader
<1>2. /\ IsSequence(a) /\ IsSequence(b) /\ Len(a) = Len(b)
  BY FieldsAre
<1>3. /\ IsSequence(EncodeVector(g.digest)) /\ IsSequence(EncodeVector(h.digest))
      /\ IsSequence(g.digest) /\ IsSequence(h.digest)
  BY VectorIs DEF Encodable
<1>4. IsSequence(EncodeExtension(g.extension)) /\ IsSequence(EncodeExtension(h.extension))
  BY ExtensionIs
<1>5. IsSequence(x)
  BY <1>3, <1>4, JoinedIs, Zenon
<1>6. IsSequence(y)
  BY <1>3, <1>4, JoinedIs, Zenon
<1> HIDE DEF a, b, x, y
<1>7. a = b
  BY <1>1, <1>2, <1>5, <1>6, SplitLeft, Zenon
<1>8. x = y
  BY <1>1, <1>2, <1>5, <1>6, SplitRight, Zenon
<1>9. /\ g.parent_hash = h.parent_hash /\ g.number = h.number
      /\ g.state_root = h.state_root /\ g.extrinsics_root = h.extrinsics_root
  BY <1>7, FieldsSplit DEF a, b
<1>10. g.digest = h.digest /\ EncodeExtension(g.extension) = EncodeExtension(h.extension)
  BY <1>3, <1>4, <1>8, VectorSplit DEF x, y
<1>11. /\ Compact(g.extension.app_lookup) = Compact(h.extension.app_lookup)
       /\ g.extension.rows = h.extension.rows /\ g.extension.cols = h.extension.cols
       /\ g.extension.commitment = h.extension.commitment
       /\ g.extension.data_root = h.extension.data_root
  BY <1>10, ExtensionInjective
<1> QED BY <1>9, <1>10, <1>11, ToWireIs

-------------------------------------------------------------------------------
(***************************************************************************)
(* The elements of a sequence at some positions.                           *)
(***************************************************************************)

IsFilter(s, at, N, f) ==
  f = [n \in 0 .. N |->
         IF n = 0 THEN << >> ELSE IF n \in at THEN Append(f[n - 1], s[n]) ELSE f[n - 1]]

LEMMA FilterExists ==
  ASSUME NEW s, NEW at, NEW N \in Nat
  PROVE  \E f : IsFilter(s, at, N, f)
<1> DEFINE T == {n \in 0 .. N : \E f : IsFilter(s, at, n, f)}
<1>1. 0 \in T
  <2> DEFINE f == [n \in 0 .. 0 |-> << >>]
  <2>1. IsFilter(s, at, 0, f)
    BY DEF IsFilter
  <2> HIDE DEF f
  <2> QED BY <2>1
<1>2. ASSUME NEW n \in 1 .. N, n - 1 \in T PROVE n \in T
  <2>1. PICK f : IsFilter(s, at, n - 1, f)
    BY <1>2
  <2> DEFINE g == [m \in 0 .. n |->
                     IF m = n THEN IF n \in at THEN Append(f[n - 1], s[n]) ELSE f[n - 1]
                     ELSE f[m]]
  <2>2. \A m \in 0 .. n - 1 :
          f[m] = IF m = 0 THEN << >> ELSE IF m \in at THEN Append(f[m - 1], s[m]) ELSE f[m - 1]
    BY <2>1 DEF IsFilter
  <2>3. \A m \in 0 .. n : m # n => m \in 0 .. n - 1 /\ (m # 0 => m - 1 \in 0 .. n - 1)
    OBVIOUS
  <2>4. ASSUME NEW m \in 0 .. n
        PROVE  g[m] = IF m = 0 THEN << >>
                      ELSE IF m \in at THEN Append(g[m - 1], s[m]) ELSE g[m - 1]
    <3>1. CASE m = n
      <4>1. m # 0 /\ m - 1 \in 0 .. n /\ m - 1 # n /\ g[m - 1] = f[n - 1]
        BY <3>1
      <4>2. g[m] = IF n \in at THEN Append(f[n - 1], s[n]) ELSE f[n - 1]
        BY <3>1
      <4> HIDE DEF g
      <4> QED BY <3>1, <4>1, <4>2
    <3>2. CASE m # n
      <4>1. g[m] = f[m]
        BY <3>2
      <4>2. m # 0 => g[m - 1] = f[m - 1]
        BY <2>3, <3>2
      <4>3. m \in 0 .. n - 1
        BY <2>3, <3>2
      <4> HIDE DEF g
      <4> QED BY <2>2, <4>1, <4>2, <4>3
    <3> QED BY <3>1, <3>2
  <2>5. g = [m \in 0 .. n |-> g[m]]
    OBVIOUS
  <2> HIDE DEF g
  <2>6. IsFilter(s, at, n, g)
    BY <2>4, <2>5 DEF IsFilter
  <2>7. n \in 0 .. N
    OBVIOUS
  <2> QED BY <2>6, <2>7
<1> HIDE DEF T
<1>3. \A n \in 0 .. N : n \in T
  BY <1>1, <1>2, UpTo
<1>4. N \in T
  BY <1>3
<1> QED BY <1>4 DEF T

LEMMA FilterSteps ==
  ASSUME NEW s, NEW at, IsSequence(s)
  PROVE  /\ FilteredUpTo(s, at)[0] = << >>
         /\ \A n \in 1 .. Len(s) :
              FilteredUpTo(s, at)[n] = IF n \in at THEN Append(FilteredUpTo(s, at)[n - 1], s[n])
                                       ELSE FilteredUpTo(s, at)[n - 1]
<1> DEFINE f == FilteredUpTo(s, at)
<1>1. Len(s) \in Nat
  BY SequenceFacts
<1>2. f = CHOOSE g : IsFilter(s, at, Len(s), g)
  BY Zenon DEF FilteredUpTo, IsFilter
<1>3. \E g : IsFilter(s, at, Len(s), g)
  BY <1>1, FilterExists
<1>4. IsFilter(s, at, Len(s), f)
  <2> HIDE DEF f
  <2> QED BY <1>2, <1>3, Zenon
<1> HIDE DEF f
<1>5. \A n \in 0 .. Len(s) :
        f[n] = IF n = 0 THEN << >> ELSE IF n \in at THEN Append(f[n - 1], s[n]) ELSE f[n - 1]
  BY <1>4 DEF IsFilter
<1>6. f[0] = << >>
  BY <1>1, <1>5
<1>7. ASSUME NEW n \in 1 .. Len(s)
      PROVE  f[n] = IF n \in at THEN Append(f[n - 1], s[n]) ELSE f[n - 1]
  <2>1. n \in 0 .. Len(s) /\ n # 0
    OBVIOUS
  <2> QED BY <1>5, <2>1
<1> QED BY <1>6, <1>7 DEF f

\* Nothing else is filtered out than elements at those positions.
PicksFrom(s, at, n, out) ==
  /\ IsSequence(out)
  /\ \A k \in 1 .. Len(out) : \E i \in 1 .. n : i \in at /\ out[k] = s[i]

LEMMA FilterPicks ==
  ASSUME NEW s, NEW at, IsSequence(s)
  PROVE  \A n \in 0 .. Len(s) : PicksFrom(s, at, n, FilteredUpTo(s, at)[n])
<1> DEFINE f == FilteredUpTo(s, at)
           T == {n \in 0 .. Len(s) : PicksFrom(s, at, n, f[n])}
<1>1. /\ f[0] = << >>
      /\ \A n \in 1 .. Len(s) :
           f[n] = IF n \in at THEN Append(f[n - 1], s[n]) ELSE f[n - 1]
  BY FilterSteps
<1>2. Len(s) \in Nat
  BY SequenceFacts
<1> HIDE DEF f
<1>3. 0 \in T
  <2>1. IsSequence(f[0]) /\ 1 .. Len(f[0]) = {}
    BY <1>1, NoWord
  <2> QED BY <1>2, <2>1 DEF PicksFrom
<1>4. ASSUME NEW n \in 1 .. Len(s), n - 1 \in T PROVE n \in T
  <2> DEFINE below == f[n - 1]
  <2>1. IsSequence(below)
        /\ \A k \in 1 .. Len(below) : \E i \in 1 .. n - 1 : i \in at /\ below[k] = s[i]
    BY <1>4 DEF PicksFrom
  <2>2. Len(below) \in Nat
    BY <2>1, SequenceFacts
  <2> HIDE DEF below
  <2>3. CASE n \in at
    <3>1. f[n] = Append(below, s[n])
      BY <1>1, <2>3 DEF below
    <3>2. /\ IsSequence(Append(below, s[n])) /\ Len(Append(below, s[n])) = Len(below) + 1
          /\ \A k \in 1 .. Len(below) : Append(below, s[n])[k] = below[k]
          /\ Append(below, s[n])[Len(below) + 1] = s[n]
      BY <2>1, Appended
    <3>3. ASSUME NEW k \in 1 .. Len(f[n])
          PROVE  \E i \in 1 .. n : i \in at /\ f[n][k] = s[i]
      <4>1. CASE k = Len(below) + 1
        BY <2>3, <3>1, <3>2, <4>1
      <4>2. CASE k # Len(below) + 1
        <5>1. k \in 1 .. Len(below)
          BY <2>2, <3>1, <3>2, <4>2
        <5>2. PICK i \in 1 .. n - 1 : i \in at /\ below[k] = s[i]
          BY <2>1, <5>1
        <5>3. i \in 1 .. n
          OBVIOUS
        <5> QED BY <3>1, <3>2, <5>1, <5>2, <5>3
      <4> QED BY <4>1, <4>2
    <3>4. PicksFrom(s, at, n, f[n])
      BY <3>1, <3>2, <3>3 DEF PicksFrom
    <3> QED BY <3>4
  <2>4. CASE n \notin at
    <3>1. f[n] = below
      BY <1>1, <2>4 DEF below
    <3>2. \A i \in 1 .. n - 1 : i \in 1 .. n
      OBVIOUS
    <3>3. PicksFrom(s, at, n, f[n])
      BY <2>1, <3>1, <3>2 DEF PicksFrom
    <3> QED BY <3>3
  <2> QED BY <2>3, <2>4
<1> HIDE DEF T
<1>5. \A n \in 0 .. Len(s) : n \in T
  BY <1>2, <1>3, <1>4, UpTo
<1> QED BY <1>5 DEF T, f

\* The element at one of the positions comes after those before it.
LEMMA FilterKeeps ==
  ASSUME NEW s, NEW at, IsSequence(s), NEW i \in 1 .. Len(s), i \in at
  PROVE  LET rank == Len(FilteredUpTo(s, at)[i - 1])
         IN  /\ rank \in Nat /\ rank + 1 \in 1 .. Len(Filtered(s, at))
             /\ Filtered(s, at)[rank + 1] = s[i]
<1> DEFINE f == FilteredUpTo(s, at)
           rank == Len(f[i - 1])
           At(n) == /\ rank + 1 \in 1 .. Len(f[n]) /\ f[n][rank + 1] = s[i]
           T == {d \in 0 .. (Len(s) - i) : At(i + d)}
<1>1. /\ f[0] = << >>
      /\ \A n \in 1 .. Len(s) :
           f[n] = IF n \in at THEN Append(f[n - 1], s[n]) ELSE f[n - 1]
  BY FilterSteps
<1>2. Len(s) \in Nat
  BY SequenceFacts
<1>3. \A n \in 0 .. Len(s) : IsSequence(f[n]) /\ Len(f[n]) \in Nat
  BY FilterPicks, SequenceFacts DEF PicksFrom
<1> HIDE DEF f
<1>4. rank \in Nat
  BY <1>3
<1>5. 0 \in T
  <2>1. f[i] = Append(f[i - 1], s[i]) /\ IsSequence(f[i - 1])
    <3>1. i - 1 \in 0 .. Len(s)
      BY <1>2
    <3> QED BY <1>1, <1>3, <3>1
  <2>2. Len(f[i]) = rank + 1 /\ f[i][rank + 1] = s[i]
    BY <2>1, Appended
  <2>3. At(i)
    BY <1>4, <2>2
  <2>4. i + 0 = i /\ 0 \in 0 .. (Len(s) - i)
    BY <1>2
  <2> QED BY <2>3, <2>4
<1>6. ASSUME NEW d \in 1 .. (Len(s) - i), d - 1 \in T PROVE d \in T
  <2> DEFINE n == i + d
  <2>1. n \in 1 .. Len(s) /\ n - 1 = i + (d - 1) /\ n - 1 \in 0 .. Len(s)
    BY <1>2
  <2>2. At(n - 1)
    BY <1>6, <2>1
  <2>3. IsSequence(f[n - 1]) /\ Len(f[n - 1]) \in Nat
    BY <1>3, <2>1
  <2> HIDE DEF n
  <2>4. CASE n \in at
    <3>1. f[n] = Append(f[n - 1], s[n])
      BY <1>1, <2>1, <2>4
    <3>2. Len(f[n]) = Len(f[n - 1]) + 1 /\ f[n][rank + 1] = f[n - 1][rank + 1]
      BY <2>2, <2>3, <3>1, Appended
    <3>3. At(n)
      BY <2>2, <2>3, <3>2
    <3> QED BY <3>3 DEF n
  <2>5. CASE n \notin at
    <3>1. f[n] = f[n - 1]
      BY <1>1, <2>1, <2>5
    <3>2. At(n)
      BY <2>2, <3>1
    <3> QED BY <3>2 DEF n
  <2> QED BY <2>4, <2>5
<1>7. Len(s) - i \in Nat
  BY <1>2
<1>8. Len(s) - i \in T
  <2>1. \A d \in 0 .. (Len(s) - i) : d \in T
    <3> HIDE DEF T
    <3> QED BY <1>5, <1>6, <1>7, UpTo
  <2> QED BY <1>7, <2>1
<1>9. At(Len(s))
  <2>1. At(i + (Len(s) - i))
    BY <1>7, <1>8
  <2>2. i + (Len(s) - i) = Len(s)
    BY <1>2
  <2> HIDE DEF At
  <2> QED BY <2>1, <2>2
<1> QED BY <1>4, <1>9 DEF f, Filtered

-------------------------------------------------------------------------------
(***************************************************************************)
(* The layers of a trie.                                                   *)
(***************************************************************************)

Bottom(leaves) == [k \in DOMAIN leaves |-> Keccak(leaves[k])]

IsLayers(leaves, N, f) ==
  f = [n \in 0 .. N |-> IF n = 0 THEN Bottom(leaves) ELSE NextLayer(f[n - 1])]

LEMMA LayersExist ==
  ASSUME NEW leaves, NEW N \in Nat
  PROVE  \E f : IsLayers(leaves, N, f)
<1> DEFINE T == {n \in 0 .. N : \E f : IsLayers(leaves, n, f)}
<1>1. 0 \in T
  <2> DEFINE f == [n \in 0 .. 0 |-> Bottom(leaves)]
  <2>1. IsLayers(leaves, 0, f)
    BY DEF IsLayers
  <2> HIDE DEF f
  <2> QED BY <2>1
<1>2. ASSUME NEW n \in 1 .. N, n - 1 \in T PROVE n \in T
  <2>1. PICK f : IsLayers(leaves, n - 1, f)
    BY <1>2
  <2> DEFINE g == [m \in 0 .. n |-> IF m = n THEN NextLayer(f[n - 1]) ELSE f[m]]
  <2>2. \A m \in 0 .. n - 1 : f[m] = IF m = 0 THEN Bottom(leaves) ELSE NextLayer(f[m - 1])
    BY <2>1 DEF IsLayers
  <2>3. \A m \in 0 .. n : m # n => m \in 0 .. n - 1 /\ (m # 0 => m - 1 \in 0 .. n - 1)
    OBVIOUS
  <2>4. ASSUME NEW m \in 0 .. n
        PROVE  g[m] = IF m = 0 THEN Bottom(leaves) ELSE NextLayer(g[m - 1])
    <3>1. CASE m = n
      <4>1. m # 0 /\ m - 1 \in 0 .. n /\ m - 1 # n /\ g[m - 1] = f[n - 1]
        BY <3>1
      <4>2. g[m] = NextLayer(f[n - 1])
        BY <3>1
      <4> HIDE DEF g
      <4> QED BY <3>1, <4>1, <4>2
    <3>2. CASE m # n
      <4>1. g[m] = f[m]
        BY <3>2
      <4>2. m # 0 => g[m - 1] = f[m - 1]
        BY <2>3, <3>2
      <4>3. m \in 0 .. n - 1
        BY <2>3, <3>2
      <4> HIDE DEF g
      <4> QED BY <2>2, <4>1, <4>2, <4>3
    <3> QED BY <3>1, <3>2
  <2>5. g = [m \in 0 .. n |-> g[m]]
    OBVIOUS
  <2> HIDE DEF g
  <2>6. IsLayers(leaves, n, g)
    BY <2>4, <2>5 DEF IsLayers
  <2>7. n \in 0 .. N
    OBVIOUS
  <2> QED BY <2>6, <2>7
<1> HIDE DEF T
<1>3. \A n \in 0 .. N : n \in T
  BY <1>1, <1>2, UpTo
<1>4. N \in T
  BY <1>3
<1> QED BY <1>4 DEF T

LEMMA LayerSteps ==
  ASSUME NEW leaves, IsSequence(leaves)
  PROVE  /\ Layers(leaves)[0] = Bottom(leaves)
         /\ \A n \in 1 .. Len(leaves) : Layers(leaves)[n] = NextLayer(Layers(leaves)[n - 1])
<1> DEFINE f == Layers(leaves)
<1>1. Len(leaves) \in Nat
  BY SequenceFacts
<1>2. f = CHOOSE g : IsLayers(leaves, Len(leaves), g)
  BY Zenon DEF Layers, IsLayers, Bottom
<1>3. \E g : IsLayers(leaves, Len(leaves), g)
  BY <1>1, LayersExist
<1>4. IsLayers(leaves, Len(leaves), f)
  <2> HIDE DEF f
  <2> QED BY <1>2, <1>3, Zenon
<1> HIDE DEF f
<1>5. \A n \in 0 .. Len(leaves) :
        f[n] = IF n = 0 THEN Bottom(leaves) ELSE NextLayer(f[n - 1])
  BY <1>4 DEF IsLayers
<1>6. f[0] = Bottom(leaves)
  BY <1>1, <1>5
<1>7. ASSUME NEW n \in 1 .. Len(leaves) PROVE f[n] = NextLayer(f[n - 1])
  <2>1. n \in 0 .. Len(leaves) /\ n # 0
    OBVIOUS
  <2> QED BY <1>5, <2>1
<1> QED BY <1>6, <1>7 DEF f

\* A layer holds hashes, at least one.
IsLayer(layer) ==
  /\ IsSequence(layer) /\ Len(layer) \in Nat \ {0}
  /\ \A k \in 1 .. Len(layer) : IsHash(layer[k])

LEMMA Half ==
  ASSUME NEW w \in Nat \ {0}
  PROVE  /\ (w + 1) \div 2 \in Nat \ {0}
         /\ w > 1 => (w + 1) \div 2 <= w - 1
         /\ w = 1 => (w + 1) \div 2 = 1
         /\ \A k \in 1 .. ((w + 1) \div 2) :
              /\ 2 * k - 1 \in 1 .. w
              /\ ~(2 * k > w) => 2 * k \in 1 .. w
OBVIOUS

LEMMA NextLayerIs ==
  ASSUME NEW layer, IsLayer(layer)
  PROVE  /\ IsLayer(NextLayer(layer)) /\ Len(NextLayer(layer)) = (Len(layer) + 1) \div 2
         /\ \A k \in 1 .. ((Len(layer) + 1) \div 2) :
              /\ 2 * k - 1 \in 1 .. Len(layer)
              /\ 2 * k > Len(layer) => NextLayer(layer)[k] = layer[2 * k - 1]
              /\ ~(2 * k > Len(layer)) =>
                   /\ 2 * k \in 1 .. Len(layer)
                   /\ NextLayer(layer)[k] = Keccak(layer[2 * k - 1] \o layer[2 * k])
<1> DEFINE w == Len(layer)
           half == (w + 1) \div 2
           next == NextLayer(layer)
<1>1. w \in Nat \ {0} /\ \A k \in 1 .. w : IsHash(layer[k])
  BY DEF IsLayer
<1> HIDE DEF w
<1>2. /\ half \in Nat \ {0}
      /\ \A k \in 1 .. half : 2 * k - 1 \in 1 .. w /\ (~(2 * k > w) => 2 * k \in 1 .. w)
  BY <1>1, Half
<1>3. next = [k \in 1 .. half |-> IF 2 * k > w THEN layer[2 * k - 1]
                                  ELSE Keccak(layer[2 * k - 1] \o layer[2 * k])]
  BY DEF NextLayer, w
<1> HIDE DEF half, next
<1>4. next = [k \in 1 .. half |-> next[k]]
  BY <1>3
<1>5. IsSequence(next) /\ Len(next) = half
  BY <1>2, <1>4, SequenceFrom
<1>6. \A k \in 1 .. half : next[k] = IF 2 * k > w THEN layer[2 * k - 1]
                                     ELSE Keccak(layer[2 * k - 1] \o layer[2 * k])
  BY <1>3
<1>7. ASSUME NEW k \in 1 .. half PROVE IsHash(next[k])
  <2>1. IsHash(layer[2 * k - 1])
    BY <1>1, <1>2
  <2>2. IsHash(Keccak(layer[2 * k - 1] \o layer[2 * k]))
    BY HashIsHash
  <2> QED BY <1>6, <2>1, <2>2
<1>8. IsLayer(next)
  BY <1>2, <1>5, <1>7 DEF IsLayer
<1> QED BY <1>2, <1>5, <1>6, <1>8 DEF w, half, next

\* Every layer holds hashes, and the last one is the root alone.
LEMMA LayersAre ==
  ASSUME NEW leaves, IsSequence(leaves), leaves # << >>
  PROVE  /\ Len(leaves) \in Nat \ {0}
         /\ \A n \in 0 .. Len(leaves) : IsLayer(Layers(leaves)[n])
         /\ Len(Layers(leaves)[0]) = Len(leaves)
         /\ Len(Layers(leaves)[Len(leaves)]) = 1
<1> DEFINE f == Layers(leaves)
           N == Len(leaves)
           Short(n) == Len(f[n]) <= N - n \/ Len(f[n]) = 1
           T == {n \in 0 .. N : IsLayer(f[n]) /\ Short(n)}
<1>1. N \in Nat \ {0} /\ DOMAIN leaves = 1 .. N
  <2>1. N \in Nat /\ DOMAIN leaves = 1 .. N /\ leaves = [k \in 1 .. N |-> leaves[k]]
    BY SequenceFacts
  <2>2. leaves \in Seq({leaves[k] : k \in DOMAIN leaves})
    BY DEF IsSequence
  <2>3. N \in Nat \ {0}
    BY <2>2, EmptySeq
  <2> QED BY <2>1, <2>3
<1>2. /\ f[0] = Bottom(leaves)
      /\ \A n \in 1 .. N : f[n] = NextLayer(f[n - 1])
  BY LayerSteps
<1> HIDE DEF f, N
<1>3. IsLayer(f[0]) /\ Len(f[0]) = N
  <2>1. Bottom(leaves) = [k \in 1 .. N |-> Bottom(leaves)[k]]
    BY <1>1 DEF Bottom
  <2>2. IsSequence(Bottom(leaves)) /\ Len(Bottom(leaves)) = N
    BY <1>1, <2>1, SequenceFrom
  <2>3. ASSUME NEW k \in 1 .. N PROVE IsHash(Bottom(leaves)[k])
    BY <1>1, HashIsHash DEF Bottom
  <2> QED BY <1>1, <1>2, <2>2, <2>3 DEF IsLayer
<1>4. 0 \in T
  BY <1>1, <1>3
<1>5. ASSUME NEW n \in 1 .. N, n - 1 \in T PROVE n \in T
  <2>1. IsLayer(f[n - 1]) /\ Short(n - 1)
    BY <1>5
  <2>2. f[n] = NextLayer(f[n - 1])
    BY <1>2
  <2>3. IsLayer(f[n]) /\ Len(f[n]) = (Len(f[n - 1]) + 1) \div 2
    BY <2>1, <2>2, NextLayerIs
  <2>4. Len(f[n - 1]) \in Nat \ {0}
    BY <2>1 DEF IsLayer
  <2>5. Short(n)
    <3> DEFINE w == Len(f[n - 1])
    <3>1. /\ w > 1 => (w + 1) \div 2 <= w - 1
          /\ w = 1 => (w + 1) \div 2 = 1
      BY <2>4, Half
    <3>2. w <= N - (n - 1) \/ w = 1
      BY <2>1
    <3> HIDE DEF w
    <3>3. w \in Nat \ {0}
      BY <2>4 DEF w
    <3>4. (w + 1) \div 2 <= N - n \/ (w + 1) \div 2 = 1
      BY <1>1, <3>1, <3>2, <3>3
    <3> QED BY <2>3, <3>4 DEF w
  <2>6. n \in 0 .. N
    BY <1>1
  <2> QED BY <2>3, <2>5, <2>6
<1>6. \A n \in 0 .. N : n \in T
  <2>1. N \in Nat
    BY <1>1
  <2> HIDE DEF T
  <2> QED BY <1>4, <1>5, <2>1, UpTo
<1>7. \A n \in 0 .. N : IsLayer(f[n]) /\ Short(n)
  BY <1>6
<1>8. Len(f[N]) = 1
  <2>1. N \in 0 .. N /\ N - N = 0
    BY <1>1
  <2>2. IsLayer(f[N]) /\ Short(N)
    BY <1>7, <2>1
  <2>3. Len(f[N]) \in Nat \ {0}
    BY <2>2 DEF IsLayer
  <2>4. Len(f[N]) <= 0 \/ Len(f[N]) = 1
    BY <2>1, <2>2
  <2> QED BY <2>3, <2>4
<1> QED BY <1>1, <1>3, <1>7, <1>8 DEF f, N

-------------------------------------------------------------------------------
(***************************************************************************)
(* What can be shown in a trie: its leaves and nothing else.               *)
(***************************************************************************)

\* A leaf is no two hashes side by side, as the inner nodes are.
IsLeaves(leaves) ==
  IsSequence(leaves) /\ \A k \in DOMAIN leaves : Len(leaves[k]) # 2

IsNode(leaves, h) ==
  \E n \in 0 .. Len(leaves) : \E k \in 1 .. Len(Layers(leaves)[n]) : h = Layers(leaves)[n][k]

\* What was hashed for a node: a leaf, or two other nodes.
IsPreimage(leaves, x) ==
  \/ \E k \in DOMAIN leaves : x = leaves[k]
  \/ \E a, b : IsNode(leaves, a) /\ IsNode(leaves, b) /\ x = a \o b

HasPreimage(leaves, h) == \E x : h = Keccak(x) /\ IsPreimage(leaves, x)

LEMMA NodesHavePreimages ==
  ASSUME NEW leaves, IsSequence(leaves), leaves # << >>, NEW h, IsNode(leaves, h)
  PROVE  IsHash(h) /\ HasPreimage(leaves, h)
<1> DEFINE f == Layers(leaves)
           N == Len(leaves)
           Fine(n) == \A k \in 1 .. Len(f[n]) : HasPreimage(leaves, f[n][k])
           T == {n \in 0 .. N : Fine(n)}
<1>1. /\ N \in Nat \ {0} /\ Len(f[0]) = N
      /\ \A n \in 0 .. N : IsLayer(f[n])
  BY LayersAre
<1>2. f[0] = Bottom(leaves) /\ \A n \in 1 .. N : f[n] = NextLayer(f[n - 1])
  BY LayerSteps
<1>3. DOMAIN leaves = 1 .. N
  BY SequenceFacts
<1>4. \A n \in 0 .. N : \A k \in 1 .. Len(f[n]) : IsNode(leaves, f[n][k])
  BY DEF IsNode
<1> HIDE DEF f, N
<1>5. 0 \in T
  <2>1. ASSUME NEW k \in 1 .. Len(f[0]) PROVE HasPreimage(leaves, f[0][k])
    <3>1. k \in DOMAIN leaves /\ f[0][k] = Keccak(leaves[k])
      BY <1>1, <1>2, <1>3 DEF Bottom
    <3> QED BY <3>1 DEF HasPreimage, IsPreimage
  <2> QED BY <1>1, <2>1
<1>6. ASSUME NEW n \in 1 .. N, n - 1 \in T PROVE n \in T
  <2>1. n - 1 \in 0 .. N /\ n \in 0 .. N
    BY <1>1
  <2> DEFINE layer == f[n - 1]
             w == Len(layer)
  <2>2. IsLayer(layer) /\ w \in Nat \ {0}
    BY <1>1, <2>1 DEF IsLayer
  <2>3. f[n] = NextLayer(layer)
    BY <1>2
  <2>4. Fine(n - 1)
    BY <1>6
  <2>5. \A k \in 1 .. w : IsNode(leaves, layer[k])
    BY <1>4, <2>1
  <2> HIDE DEF layer
  <2>6. ASSUME NEW k \in 1 .. Len(f[n]) PROVE HasPreimage(leaves, f[n][k])
    <3>1. Len(f[n]) = (w + 1) \div 2
      BY <2>2, <2>3, NextLayerIs
    <3>2. /\ 2 * k - 1 \in 1 .. w
          /\ 2 * k > w => f[n][k] = layer[2 * k - 1]
          /\ ~(2 * k > w) => /\ 2 * k \in 1 .. w
                             /\ f[n][k] = Keccak(layer[2 * k - 1] \o layer[2 * k])
      BY <2>2, <2>3, <3>1, NextLayerIs
    <3>3. CASE 2 * k > w
      <4>1. HasPreimage(leaves, layer[2 * k - 1])
        BY <2>4, <3>2 DEF layer
      <4> QED BY <3>2, <3>3, <4>1
    <3>4. CASE ~(2 * k > w)
      <4>1. IsNode(leaves, layer[2 * k - 1]) /\ IsNode(leaves, layer[2 * k])
        BY <2>5, <3>2, <3>4
      <4>2. IsPreimage(leaves, layer[2 * k - 1] \o layer[2 * k])
        BY <4>1, Zenon DEF IsPreimage
      <4>3. f[n][k] = Keccak(layer[2 * k - 1] \o layer[2 * k])
        BY <3>2, <3>4
      <4> QED BY <4>2, <4>3, Zenon DEF HasPreimage
    <3> QED BY <3>3, <3>4
  <2> QED BY <2>1, <2>6
<1>7. \A n \in 0 .. N : n \in T
  <2>1. N \in Nat
    BY <1>1
  <2> HIDE DEF T
  <2> QED BY <1>5, <1>6, <2>1, UpTo
<1>8. PICK n \in 0 .. N : \E k \in 1 .. Len(f[n]) : h = f[n][k]
  BY DEF IsNode, f, N
<1>9. Fine(n) /\ IsLayer(f[n])
  BY <1>1, <1>7
<1> QED BY <1>8, <1>9 DEF IsLayer

\* What is hashed on the way up from a leaf.
IsClimb(m, N, f) ==
  f = [n \in 0 .. N |->
         IF n = 0
           THEN [hash |-> Keccak(m.leaf), at |-> m.leaf_index, width |-> m.number_of_leaves]
           ELSE [hash |-> IF f[n - 1].at % 2 = 1 \/ f[n - 1].at + 1 = f[n - 1].width
                            THEN Keccak(m.proof[n] \o f[n - 1].hash)
                            ELSE Keccak(f[n - 1].hash \o m.proof[n]),
                 at |-> f[n - 1].at \div 2, width |-> (f[n - 1].width + 1) \div 2]]

ClimbStart(m) == [hash |-> Keccak(m.leaf), at |-> m.leaf_index, width |-> m.number_of_leaves]

ClimbStep(below, item) ==
  [hash |-> IF below.at % 2 = 1 \/ below.at + 1 = below.width
              THEN Keccak(item \o below.hash) ELSE Keccak(below.hash \o item),
   at |-> below.at \div 2, width |-> (below.width + 1) \div 2]

LEMMA ClimbExists ==
  ASSUME NEW m, NEW N \in Nat
  PROVE  \E f : IsClimb(m, N, f)
<1> DEFINE Is(n, f) == f = [k \in 0 .. n |-> IF k = 0 THEN ClimbStart(m)
                                             ELSE ClimbStep(f[k - 1], m.proof[k])]
           T == {n \in 0 .. N : \E f : Is(n, f)}
<1>1. 0 \in T
  <2> DEFINE f == [n \in 0 .. 0 |-> ClimbStart(m)]
  <2>1. Is(0, f)
    OBVIOUS
  <2> HIDE DEF f
  <2> QED BY <2>1
<1>2. ASSUME NEW n \in 1 .. N, n - 1 \in T PROVE n \in T
  <2>1. PICK f : Is(n - 1, f)
    BY <1>2
  <2> DEFINE g == [k \in 0 .. n |-> IF k = n THEN ClimbStep(f[n - 1], m.proof[n]) ELSE f[k]]
  <2>2. \A k \in 0 .. n - 1 : f[k] = IF k = 0 THEN ClimbStart(m)
                                     ELSE ClimbStep(f[k - 1], m.proof[k])
    BY <2>1
  <2>3. \A k \in 0 .. n : k # n => k \in 0 .. n - 1 /\ (k # 0 => k - 1 \in 0 .. n - 1)
    OBVIOUS
  <2>4. ASSUME NEW k \in 0 .. n
        PROVE  g[k] = IF k = 0 THEN ClimbStart(m) ELSE ClimbStep(g[k - 1], m.proof[k])
    <3>1. CASE k = n
      <4>1. k # 0 /\ k - 1 \in 0 .. n /\ k - 1 # n /\ g[k - 1] = f[n - 1]
        BY <3>1
      <4>2. g[k] = ClimbStep(f[n - 1], m.proof[n])
        BY <3>1
      <4> HIDE DEF g
      <4> QED BY <3>1, <4>1, <4>2
    <3>2. CASE k # n
      <4>1. g[k] = f[k]
        BY <3>2
      <4>2. k # 0 => g[k - 1] = f[k - 1]
        BY <2>3, <3>2
      <4>3. k \in 0 .. n - 1
        BY <2>3, <3>2
      <4> HIDE DEF g
      <4> QED BY <2>2, <4>1, <4>2, <4>3
    <3> QED BY <3>1, <3>2
  <2>5. g = [k \in 0 .. n |-> g[k]]
    OBVIOUS
  <2> HIDE DEF g
  <2>6. Is(n, g)
    BY <2>4, <2>5
  <2>7. n \in 0 .. N
    OBVIOUS
  <2> QED BY <2>6, <2>7
<1> HIDE DEF T
<1>3. \A n \in 0 .. N : n \in T
  BY <1>1, <1>2, UpTo
<1>4. PICK f : Is(N, f)
  BY <1>3 DEF T
<1>5. IsClimb(m, N, f)
  BY <1>4, Zenon DEF IsClimb, ClimbStart, ClimbStep
<1> QED BY <1>5

LEMMA ClimbSteps ==
  ASSUME NEW m, IsSequence(m.proof)
  PROVE  /\ Climb(m)[0] = ClimbStart(m)
         /\ \A n \in 1 .. Len(m.proof) : Climb(m)[n] = ClimbStep(Climb(m)[n - 1], m.proof[n])
<1> DEFINE f == Climb(m)
           N == Len(m.proof)
<1>1. N \in Nat
  BY SequenceFacts
<1>2. f = CHOOSE g : IsClimb(m, N, g)
  BY Zenon DEF Climb, IsClimb
<1>3. \E g : IsClimb(m, N, g)
  BY <1>1, ClimbExists
<1>4. IsClimb(m, N, f)
  <2> HIDE DEF f, N
  <2> QED BY <1>2, <1>3, Zenon
<1>5. f = [n \in 0 .. N |-> IF n = 0 THEN ClimbStart(m) ELSE ClimbStep(f[n - 1], m.proof[n])]
  BY <1>4, Zenon DEF IsClimb, ClimbStart, ClimbStep
<1> HIDE DEF f, N
<1>6. \A n \in 0 .. N : f[n] = IF n = 0 THEN ClimbStart(m) ELSE ClimbStep(f[n - 1], m.proof[n])
  BY <1>5
<1>7. f[0] = ClimbStart(m)
  BY <1>1, <1>6
<1>8. ASSUME NEW n \in 1 .. N PROVE f[n] = ClimbStep(f[n - 1], m.proof[n])
  <2>1. n \in 0 .. N /\ n # 0
    BY <1>1
  <2> QED BY <1>6, <2>1
<1> QED BY <1>7, <1>8 DEF f, N


\* Each hash on the way up is the hash of two words, but the first one.
LEMMA ClimbIs ==
  ASSUME NEW m, IsSequence(m.proof), \A k \in DOMAIN m.proof : IsHash(m.proof[k])
  PROVE  /\ Climb(m)[0].hash = Keccak(m.leaf)
         /\ \A n \in 0 .. Len(m.proof) : \E x : Climb(m)[n].hash = Keccak(x)
         /\ \A n \in 1 .. Len(m.proof) :
              LET below == Climb(m)[n - 1].hash
              IN  /\ IsHash(m.proof[n]) /\ IsHash(below)
                  /\ Climb(m)[n].hash \in {Keccak(m.proof[n] \o below), Keccak(below \o m.proof[n])}
<1> DEFINE f == Climb(m)
           N == Len(m.proof)
<1>1. f[0] = ClimbStart(m) /\ \A n \in 1 .. N : f[n] = ClimbStep(f[n - 1], m.proof[n])
  BY ClimbSteps
<1>2. N \in Nat /\ DOMAIN m.proof = 1 .. N
  BY SequenceFacts
<1> HIDE DEF f, N
<1>3. f[0].hash = Keccak(m.leaf)
  BY <1>1 DEF ClimbStart
<1>4. ASSUME NEW n \in 1 .. N
      PROVE  f[n].hash \in {Keccak(m.proof[n] \o f[n - 1].hash), Keccak(f[n - 1].hash \o m.proof[n])}
  <2> DEFINE below == f[n - 1]
             item == m.proof[n]
  <2>1. f[n] = ClimbStep(below, item)
    BY <1>1
  <2> HIDE DEF below, item
  <2>2. f[n].hash = IF below.at % 2 = 1 \/ below.at + 1 = below.width
                      THEN Keccak(item \o below.hash) ELSE Keccak(below.hash \o item)
    BY <2>1 DEF ClimbStep
  <2>3. f[n].hash \in {Keccak(item \o below.hash), Keccak(below.hash \o item)}
    <3> DEFINE x == Keccak(item \o below.hash)
               y == Keccak(below.hash \o item)
               h == f[n].hash
    <3> HIDE DEF x, y, h
    <3>1. h = x \/ h = y
      BY <2>2, Zenon DEF x, y, h
    <3>2. h \in {x, y}
      BY <3>1
    <3> QED BY <3>2 DEF x, y, h
  <2> QED BY <2>3 DEF below, item
<1>5. ASSUME NEW n \in 0 .. N PROVE \E x : f[n].hash = Keccak(x)
  <2>1. n = 0 \/ n \in 1 .. N
    BY <1>2
  <2> QED BY <1>3, <1>4, <2>1
<1>6. ASSUME NEW n \in 1 .. N PROVE IsHash(m.proof[n]) /\ IsHash(f[n - 1].hash)
  <2>1. n - 1 \in 0 .. N
    BY <1>2
  <2>2. PICK x : f[n - 1].hash = Keccak(x)
    BY <1>5, <2>1
  <2> QED BY <1>2, <2>2, HashIsHash
<1> QED BY <1>3, <1>4, <1>5, <1>6 DEF f, N

LEMMA RootIsNode ==
  ASSUME NEW leaves, IsSequence(leaves), leaves # << >>
  PROVE  IsNode(leaves, MerkleRoot(leaves))
<1>1. Len(leaves) \in Nat \ {0} /\ Len(Layers(leaves)[Len(leaves)]) = 1
  BY LayersAre
<1>2. MerkleRoot(leaves) = Layers(leaves)[Len(leaves)][1]
  BY DEF MerkleRoot
<1>3. Len(leaves) \in 0 .. Len(leaves) /\ 1 \in 1 .. Len(Layers(leaves)[Len(leaves)])
  BY <1>1
<1> QED BY <1>2, <1>3, Zenon DEF IsNode

\* Below an inner node of a trie there are nodes of the trie.
LEMMA BelowNodes ==
  ASSUME NEW leaves, IsLeaves(leaves), leaves # << >>, NEW a, NEW b, IsHash(a), IsHash(b),
         IsNode(leaves, Keccak(a \o b))
  PROVE  IsNode(leaves, a) /\ IsNode(leaves, b)
<1>1. HasPreimage(leaves, Keccak(a \o b))
  BY NodesHavePreimages DEF IsLeaves
<1>2. PICK x : Keccak(a \o b) = Keccak(x) /\ IsPreimage(leaves, x)
  BY <1>1, Zenon DEF HasPreimage
<1>3. x = a \o b
  BY <1>2, KeccakInjective, Zenon
<1>4. Len(x) = 2
  BY <1>3, HashesJoined
<1>5. PICK c, d : IsNode(leaves, c) /\ IsNode(leaves, d) /\ x = c \o d
  <2>1. ~(\E k \in DOMAIN leaves : x = leaves[k])
    BY <1>4 DEF IsLeaves
  <2> QED BY <1>2, <2>1, Zenon DEF IsPreimage
<1>6. IsHash(c) /\ IsHash(d)
  BY <1>5, NodesHavePreimages DEF IsLeaves
<1>7. a = c
  BY <1>3, <1>5, <1>6, HashesSplitLeft, Zenon
<1>8. b = d
  BY <1>3, <1>5, <1>6, HashesSplitRight, Zenon
<1> QED BY <1>5, <1>7, <1>8

\* A proof that verifies against the root of a trie shows one of its leaves,
\* whatever was altered in it (verify_proof, as_sub_merkle_proof).
THEOREM ProofIsSound ==
  ASSUME NEW leaves, IsLeaves(leaves),
         NEW m, IsSequence(m.proof), \A k \in DOMAIN m.proof : IsHash(m.proof[k]),
         Len(m.leaf) # 2, m.root = MerkleRoot(leaves), VerifyProof(m)
  PROVE  \E k \in DOMAIN leaves : m.leaf = leaves[k]
<1> DEFINE f == Climb(m)
           N == Len(m.proof)
           Good(n) == IsNode(leaves, f[n].hash)
           T == {d \in 0 .. N : Good(N - d)}
<1>1. /\ f[0].hash = Keccak(m.leaf)
      /\ \A n \in 0 .. N : \E x : f[n].hash = Keccak(x)
      /\ \A n \in 1 .. N : /\ IsHash(m.proof[n]) /\ IsHash(f[n - 1].hash)
                           /\ f[n].hash \in {Keccak(m.proof[n] \o f[n - 1].hash),
                                             Keccak(f[n - 1].hash \o m.proof[n])}
  BY ClimbIs
<1>2. N \in Nat
  BY SequenceFacts
<1>3. f[N].hash = MerkleRoot(leaves)
  BY DEF VerifyProof
<1> HIDE DEF f, N
<1>4. leaves # << >>
  <2>1. PICK x : f[N].hash = Keccak(x)
    BY <1>1, <1>2
  <2> QED BY <1>3, <2>1, KeccakIsNotDefault DEF MerkleRoot
<1>5. Good(N)
  BY <1>3, <1>4, RootIsNode DEF IsLeaves
<1>6. 0 \in T
  BY <1>2, <1>5
<1>7. ASSUME NEW d \in 1 .. N, d - 1 \in T PROVE d \in T
  <2> DEFINE n == N - (d - 1)
  <2>1. n \in 1 .. N /\ n - 1 = N - d /\ d \in 0 .. N
    BY <1>2
  <2>2. Good(n)
    BY <1>7
  <2> HIDE DEF n
  <2>3. Good(n - 1)
    <3>1. IsHash(m.proof[n]) /\ IsHash(f[n - 1].hash)
      BY <1>1, <2>1
    <3>2. CASE f[n].hash = Keccak(m.proof[n] \o f[n - 1].hash)
      <4>1. IsNode(leaves, Keccak(m.proof[n] \o f[n - 1].hash))
        BY <2>2, <3>2
      <4> QED BY <1>4, <3>1, <4>1, BelowNodes, Zenon
    <3>3. CASE f[n].hash = Keccak(f[n - 1].hash \o m.proof[n])
      <4>1. IsNode(leaves, Keccak(f[n - 1].hash \o m.proof[n]))
        BY <2>2, <3>3
      <4> QED BY <1>4, <3>1, <4>1, BelowNodes, Zenon
    <3> QED BY <1>1, <2>1, <3>2, <3>3
  <2>4. Good(N - d)
    BY <2>1, <2>3
  <2> HIDE DEF Good
  <2> QED BY <2>1, <2>4
<1>8. Good(0)
  <2>1. \A d \in 0 .. N : d \in T
    <3> HIDE DEF T
    <3> QED BY <1>2, <1>6, <1>7, UpTo
  <2>2. N \in 0 .. N /\ N - N = 0
    BY <1>2
  <2>3. Good(N - N)
    <3> HIDE DEF Good
    <3> QED BY <2>1, <2>2
  <2> HIDE DEF Good
  <2> QED BY <2>2, <2>3
<1>9. HasPreimage(leaves, Keccak(m.leaf))
  <2>1. IsNode(leaves, Keccak(m.leaf))
    BY <1>1, <1>8
  <2> QED BY <1>4, <2>1, NodesHavePreimages DEF IsLeaves
<1>10. PICK x : Keccak(m.leaf) = Keccak(x) /\ IsPreimage(leaves, x)
  BY <1>9, Zenon DEF HasPreimage
<1>11. x = m.leaf
  BY <1>10, KeccakInjective, Zenon
<1>12. ASSUME NEW a, NEW b, IsNode(leaves, a), IsNode(leaves, b), x = a \o b PROVE FALSE
  <2>1. IsHash(a) /\ IsHash(b)
    BY <1>4, <1>12, NodesHavePreimages DEF IsLeaves
  <2>2. Len(a \o b) = 2
    BY <2>1, HashesJoined
  <2> QED BY <1>11, <1>12, <2>2
<1> QED BY <1>10, <1>11, <1>12, Zenon DEF IsPreimage

-------------------------------------------------------------------------------
(***************************************************************************)
(* What can be shown in a trie: every leaf.                                *)
(***************************************************************************)

SiblingOf(at) == IF at % 2 = 1 THEN at - 1 ELSE at + 1

SiblingStep(layer, below) ==
  [at |-> below.at \div 2,
   items |-> IF SiblingOf(below.at) >= Len(layer) THEN below.items
             ELSE Append(below.items, layer[SiblingOf(below.at) + 1])]

IsSiblings(leaves, index, N, f) ==
  f = [n \in 0 .. N |-> IF n = 0 THEN [at |-> index, items |-> << >>]
                        ELSE SiblingStep(Layers(leaves)[n - 1], f[n - 1])]

LEMMA SiblingsExist ==
  ASSUME NEW leaves, NEW index, NEW N \in Nat
  PROVE  \E f : IsSiblings(leaves, index, N, f)
<1> DEFINE L == Layers(leaves)
           T == {n \in 0 .. N : \E f : IsSiblings(leaves, index, n, f)}
           start == [at |-> index, items |-> << >>]
<1> HIDE DEF L
<1>1. 0 \in T
  <2> DEFINE f == [n \in 0 .. 0 |-> start]
  <2>1. IsSiblings(leaves, index, 0, f)
    BY DEF IsSiblings
  <2> HIDE DEF f
  <2> QED BY <2>1
<1>2. ASSUME NEW n \in 1 .. N, n - 1 \in T PROVE n \in T
  <2>1. PICK f : IsSiblings(leaves, index, n - 1, f)
    BY <1>2
  <2> DEFINE g == [k \in 0 .. n |-> IF k = n THEN SiblingStep(L[n - 1], f[n - 1]) ELSE f[k]]
  <2>2. f = [k \in 0 .. n - 1 |-> IF k = 0 THEN start ELSE SiblingStep(L[k - 1], f[k - 1])]
    BY <2>1, Zenon DEF IsSiblings, L
  <2>3. \A k \in 0 .. n - 1 : f[k] = IF k = 0 THEN start ELSE SiblingStep(L[k - 1], f[k - 1])
    BY <2>2
  <2>4. \A k \in 0 .. n : k # n => k \in 0 .. n - 1 /\ (k # 0 => k - 1 \in 0 .. n - 1)
    OBVIOUS
  <2>5. ASSUME NEW k \in 0 .. n
        PROVE  g[k] = IF k = 0 THEN start ELSE SiblingStep(L[k - 1], g[k - 1])
    <3>1. CASE k = n
      <4>1. k # 0 /\ k - 1 \in 0 .. n /\ k - 1 # n /\ g[k - 1] = f[n - 1]
        BY <3>1
      <4>2. g[k] = SiblingStep(L[n - 1], f[n - 1])
        BY <3>1
      <4> HIDE DEF g
      <4> QED BY <3>1, <4>1, <4>2
    <3>2. CASE k # n
      <4>1. g[k] = f[k]
        BY <3>2
      <4>2. k # 0 => g[k - 1] = f[k - 1]
        BY <2>4, <3>2
      <4>3. k \in 0 .. n - 1
        BY <2>4, <3>2
      <4> HIDE DEF g
      <4> QED BY <2>3, <4>1, <4>2, <4>3
    <3> QED BY <3>1, <3>2
  <2>6. g = [k \in 0 .. n |-> g[k]]
    OBVIOUS
  <2> HIDE DEF g
  <2>7. g = [k \in 0 .. n |-> IF k = 0 THEN start ELSE SiblingStep(L[k - 1], g[k - 1])]
    BY <2>5, <2>6
  <2>8. IsSiblings(leaves, index, n, g)
    BY <2>7, Zenon DEF IsSiblings, L
  <2>9. n \in 0 .. N
    OBVIOUS
  <2> QED BY <2>8, <2>9
<1> HIDE DEF T
<1>3. \A n \in 0 .. N : n \in T
  BY <1>1, <1>2, UpTo
<1>4. N \in T
  BY <1>3
<1> QED BY <1>4 DEF T

LEMMA SiblingSteps ==
  ASSUME NEW leaves, IsSequence(leaves), NEW index
  PROVE  LET f == Siblings(leaves, index)
         IN  /\ f[0] = [at |-> index, items |-> << >>]
             /\ \A n \in 1 .. Len(leaves) :
                  f[n] = SiblingStep(Layers(leaves)[n - 1], f[n - 1])
<1> DEFINE f == Siblings(leaves, index)
           N == Len(leaves)
           L == Layers(leaves)
           start == [at |-> index, items |-> << >>]
<1>1. N \in Nat
  BY SequenceFacts
<1>2. f = CHOOSE g : IsSiblings(leaves, index, N, g)
  BY Zenon DEF Siblings, IsSiblings, SiblingStep, SiblingOf
<1>3. \E g : IsSiblings(leaves, index, N, g)
  BY <1>1, SiblingsExist
<1>4. IsSiblings(leaves, index, N, f)
  <2> HIDE DEF f, N
  <2> QED BY <1>2, <1>3, Zenon
<1>5. f = [n \in 0 .. N |-> IF n = 0 THEN start ELSE SiblingStep(L[n - 1], f[n - 1])]
  BY <1>4, Zenon DEF IsSiblings
<1> HIDE DEF f, N, L
<1>6. \A n \in 0 .. N : f[n] = IF n = 0 THEN start ELSE SiblingStep(L[n - 1], f[n - 1])
  BY <1>5
<1>7. f[0] = start
  BY <1>1, <1>6
<1>8. ASSUME NEW n \in 1 .. N PROVE f[n] = SiblingStep(L[n - 1], f[n - 1])
  <2>1. n \in 0 .. N /\ n # 0
    BY <1>1
  <2> QED BY <1>6, <2>1
<1> QED BY <1>7, <1>8 DEF f, N, L

LEMMA SiblingsNext ==
  ASSUME NEW leaves, IsSequence(leaves), NEW index, NEW n \in 1 .. Len(leaves)
  PROVE  Siblings(leaves, index)[n]
           = SiblingStep(Layers(leaves)[n - 1], Siblings(leaves, index)[n - 1])
BY SiblingSteps

\* Where the way up is, in a layer of w nodes: at r of them.
LEMMA HalfWay ==
  ASSUME NEW r \in Nat, NEW w \in Nat, r < w
  PROVE  /\ r \div 2 \in Nat /\ r \div 2 < (w + 1) \div 2 /\ r \div 2 + 1 \in 1 .. ((w + 1) \div 2)
         /\ r % 2 = 1 => 2 * (r \div 2 + 1) = r + 1
         /\ r % 2 # 1 => 2 * (r \div 2 + 1) = r + 2
OBVIOUS

LEMMA Alone ==
  ASSUME NEW r \in Nat, NEW w \in Nat, r < w, r + 1 >= w
  PROVE  r \div 2 + 1 = (w + 1) \div 2
OBVIOUS

LEMMA LastOfPair ==
  ASSUME NEW at \in Nat
  PROVE  at \div 2 + 1 = ((at + 1) + 1) \div 2
OBVIOUS

LEMMA SiblingPosition ==
  ASSUME NEW at \in Nat, NEW w \in Nat, at < w
  PROVE  /\ SiblingOf(at) \in Nat
         /\ at % 2 = 1 => SiblingOf(at) = at - 1 /\ ~(SiblingOf(at) >= w)
         /\ at % 2 # 1 => SiblingOf(at) = at + 1
<1>1. CASE at % 2 = 1
  <2>1. at # 0
    BY <1>1
  <2>2. SiblingOf(at) = at - 1
    BY <1>1 DEF SiblingOf
  <2> QED BY <1>1, <2>1, <2>2
<1>2. CASE at % 2 # 1
  <2>1. SiblingOf(at) = at + 1
    BY <1>2 DEF SiblingOf
  <2> QED BY <1>2, <2>1
<1> QED BY <1>1, <1>2

\* The proof of a leaf holds hashes.
LEMMA SiblingsAre ==
  ASSUME NEW leaves, IsSequence(leaves), leaves # << >>, NEW index \in 0 .. (Len(leaves) - 1)
  PROVE  LET f == Siblings(leaves, index)
             L == Layers(leaves)
         IN  \A n \in 0 .. Len(leaves) :
               /\ f[n].at \in 0 .. (Len(L[n]) - 1) /\ IsSequence(f[n].items)
               /\ \A k \in 1 .. Len(f[n].items) : IsHash(f[n].items[k])
<1> DEFINE f == Siblings(leaves, index)
           L == Layers(leaves)
           N == Len(leaves)
           Fine(n) == /\ f[n].at \in 0 .. (Len(L[n]) - 1) /\ IsSequence(f[n].items)
                      /\ \A k \in 1 .. Len(f[n].items) : IsHash(f[n].items[k])
           T == {n \in 0 .. N : Fine(n)}
<1>1. /\ N \in Nat \ {0} /\ Len(L[0]) = N
      /\ \A n \in 0 .. N : IsLayer(L[n])
  BY LayersAre
<1>2. f[0] = [at |-> index, items |-> << >>]
  BY SiblingSteps
<1>3. \A n \in 1 .. N : f[n] = SiblingStep(L[n - 1], f[n - 1])
  BY SiblingSteps
<1>4. \A n \in 1 .. N : L[n] = NextLayer(L[n - 1])
  BY LayerSteps
<1> HIDE DEF f, L, N
<1>5. 0 \in T
  <2>1. index \in 0 .. (N - 1)
    BY DEF N
  <2>2. f[0].at = index /\ f[0].items = << >>
    BY <1>2
  <2> QED BY <1>1, <2>1, <2>2, NoWord
<1>6. ASSUME NEW n \in 1 .. N, n - 1 \in T PROVE n \in T
  <2>1. n - 1 \in 0 .. N /\ n \in 0 .. N
    BY <1>1
  <2> DEFINE layer == L[n - 1]
             below == f[n - 1]
             w == Len(layer)
             r == below.at
             s == SiblingOf(r)
  <2>2. IsLayer(layer) /\ w \in Nat \ {0} /\ \A k \in 1 .. w : IsHash(layer[k])
    BY <1>1, <2>1 DEF IsLayer
  <2>3. /\ r \in 0 .. (w - 1) /\ IsSequence(below.items)
        /\ \A k \in 1 .. Len(below.items) : IsHash(below.items[k])
    BY <1>6
  <2>4. L[n] = NextLayer(layer) /\ f[n] = SiblingStep(layer, below)
    BY <1>3, <1>4
  <2> HIDE DEF layer, below
  <2>5. f[n].at = r \div 2 /\ f[n].items = IF s >= w THEN below.items ELSE Append(below.items, layer[s + 1])
    BY <2>4 DEF SiblingStep
  <2>6. Len(L[n]) = (w + 1) \div 2
    BY <2>2, <2>4, NextLayerIs
  <2>7. f[n].at \in 0 .. (Len(L[n]) - 1)
    <3>1. r \in Nat /\ w \in Nat /\ r < w /\ (w + 1) \div 2 \in Nat
      BY <2>2, <2>3
    <3>2. r \div 2 \in Nat /\ r \div 2 < (w + 1) \div 2
      BY <3>1, HalfWay
    <3> QED BY <2>5, <2>6, <3>1, <3>2
  <2>8. IsSequence(f[n].items) /\ \A k \in 1 .. Len(f[n].items) : IsHash(f[n].items[k])
    <3>1. CASE s >= w
      BY <2>3, <2>5, <3>1
    <3>2. CASE ~(s >= w)
      <4>1. s + 1 \in 1 .. w
        <5>1. r \in Nat /\ w \in Nat /\ r < w
          BY <2>2, <2>3
        <5>2. s \in Nat
          BY <5>1, SiblingPosition
        <5> HIDE DEF s, r, w
        <5> QED BY <3>2, <5>1, <5>2
      <4> DEFINE x == layer[s + 1]
      <4>2. IsHash(x)
        BY <2>2, <4>1
      <4> HIDE DEF x
      <4>3. f[n].items = Append(below.items, x)
        BY <2>5, <3>2 DEF x
      <4>4. /\ IsSequence(Append(below.items, x)) /\ Len(Append(below.items, x)) = Len(below.items) + 1
            /\ \A k \in 1 .. Len(below.items) : Append(below.items, x)[k] = below.items[k]
            /\ Append(below.items, x)[Len(below.items) + 1] = x
        BY <2>3, Appended
      <4>5. Len(below.items) \in Nat
        BY <2>3, SequenceFacts
      <4> QED BY <2>3, <4>2, <4>3, <4>4, <4>5
    <3> QED BY <3>1, <3>2
  <2> QED BY <2>1, <2>7, <2>8
<1>7. \A n \in 0 .. N : n \in T
  <2>1. N \in Nat
    BY <1>1
  <2> HIDE DEF T
  <2> QED BY <1>5, <1>6, <2>1, UpTo
<1> QED BY <1>7 DEF f, L, N

StartsWith(all, some) ==
  Len(some) \in 0 .. Len(all) /\ \A k \in 1 .. Len(some) : some[k] = all[k]

LEMMA StartsWithSelf ==
  ASSUME NEW a, IsSequence(a)
  PROVE  StartsWith(a, a)
<1>1. Len(a) \in Nat
  BY SequenceFacts
<1> QED BY <1>1 DEF StartsWith

LEMMA StartsWithStart ==
  ASSUME NEW a, NEW b, NEW c, Len(a) \in Nat, Len(b) \in Nat, StartsWith(a, b), StartsWith(b, c)
  PROVE  StartsWith(a, c)
<1>1. Len(c) \in 0 .. Len(b) /\ Len(b) \in 0 .. Len(a)
  BY DEF StartsWith
<1>2. Len(c) \in 0 .. Len(a)
  BY <1>1
<1>3. ASSUME NEW k \in 1 .. Len(c) PROVE c[k] = a[k]
  <2>1. k \in 1 .. Len(b)
    BY <1>1
  <2> QED BY <2>1 DEF StartsWith
<1> QED BY <1>2, <1>3 DEF StartsWith

LEMMA AppendStartsWith ==
  ASSUME NEW s, NEW x, IsSequence(s)
  PROVE  StartsWith(Append(s, x), s)
<1> DEFINE a == Append(s, x)
<1>1. Len(s) \in Nat
  BY SequenceFacts
<1>2. Len(a) = Len(s) + 1 /\ \A k \in 1 .. Len(s) : a[k] = s[k]
  BY Appended
<1> HIDE DEF a
<1>3. StartsWith(a, s)
  BY <1>1, <1>2 DEF StartsWith
<1> QED BY <1>3 DEF a

\* What was collected in the lower layers stays in front.
LEMMA SiblingsGrow ==
  ASSUME NEW leaves, IsSequence(leaves), leaves # << >>, NEW index \in 0 .. (Len(leaves) - 1)
  PROVE  LET f == Siblings(leaves, index)
         IN  \A n \in 0 .. Len(leaves) : StartsWith(f[Len(leaves)].items, f[n].items)
<1> DEFINE f == Siblings(leaves, index)
           L == Layers(leaves)
           N == Len(leaves)
           Fine(n) == StartsWith(f[N].items, f[n].items)
           T == {d \in 0 .. N : Fine(N - d)}
<1>1. N \in Nat
  BY SequenceFacts
<1>2. \A n \in 0 .. N : IsSequence(f[n].items)
  BY SiblingsAre
<1>3. \A n \in 1 .. N : f[n] = SiblingStep(L[n - 1], f[n - 1])
  BY SiblingSteps
<1> HIDE DEF f, L, N
<1>4. \A n \in 0 .. N : Len(f[n].items) \in Nat
  BY <1>2, SequenceFacts
<1>5. ASSUME NEW n \in 1 .. N PROVE StartsWith(f[n].items, f[n - 1].items)
  <2> DEFINE layer == L[n - 1]
             below == f[n - 1]
             s == SiblingOf(below.at)
             x == layer[s + 1]
  <2>1. f[n] = SiblingStep(layer, below)
    BY <1>3
  <2>2. n - 1 \in 0 .. N
    BY <1>1
  <2>3. IsSequence(below.items)
    BY <1>2, <2>2
  <2> HIDE DEF layer, below
  <2>4. f[n].items = IF s >= Len(layer) THEN below.items ELSE Append(below.items, x)
    BY <2>1 DEF SiblingStep
  <2> HIDE DEF x, s
  <2>5. StartsWith(Append(below.items, x), below.items)
    BY <2>3, AppendStartsWith
  <2>6. StartsWith(below.items, below.items)
    BY <2>3, StartsWithSelf
  <2>7. StartsWith(f[n].items, below.items)
    BY <2>4, <2>5, <2>6, Zenon
  <2> QED BY <2>7 DEF below
<1>6. 0 \in T
  <2>1. N - 0 = N /\ N \in 0 .. N
    BY <1>1
  <2>2. Fine(N)
    BY <1>2, <2>1, StartsWithSelf
  <2> HIDE DEF Fine
  <2> QED BY <1>1, <2>1, <2>2
<1>7. ASSUME NEW d \in 1 .. N, d - 1 \in T PROVE d \in T
  <2> DEFINE n == N - (d - 1)
  <2>1. n \in 1 .. N /\ n - 1 = N - d /\ d \in 0 .. N /\ N \in 0 .. N /\ n \in 0 .. N
    BY <1>1
  <2>2. Fine(n)
    BY <1>7
  <2> HIDE DEF n
  <2>3. StartsWith(f[n].items, f[n - 1].items)
    BY <1>5, <2>1
  <2>4. Len(f[N].items) \in Nat /\ Len(f[n].items) \in Nat
    BY <1>4, <2>1
  <2>5. Fine(n - 1)
    BY <2>2, <2>3, <2>4, StartsWithStart
  <2>6. Fine(N - d)
    <3> HIDE DEF Fine
    <3> QED BY <2>1, <2>5
  <2> HIDE DEF Fine
  <2> QED BY <2>1, <2>6
<1>8. \A d \in 0 .. N : d \in T
  <2> HIDE DEF T
  <2> QED BY <1>1, <1>6, <1>7, UpTo
<1>9. ASSUME NEW n \in 0 .. N PROVE Fine(n)
  <2>1. N - n \in 0 .. N /\ N - (N - n) = n
    BY <1>1
  <2>2. Fine(N - (N - n))
    <3> HIDE DEF Fine
    <3> QED BY <1>8, <2>1
  <2> HIDE DEF Fine
  <2> QED BY <2>1, <2>2
<1> QED BY <1>9 DEF f, N

\* Where the way up from a leaf is, in a layer: at node r of w.  The verifier may
\* lag behind: it does not see the layers in which the last node goes up alone.
OnTheWay(layer, r, c) ==
  /\ c.hash = layer[r + 1] /\ c.at \in Nat /\ c.width \in Nat
  /\ \/ c.at = r /\ c.width = Len(layer)
     \/ r + 1 = Len(layer) /\ c.at + 1 = c.width

\* The last node goes up alone.
LEMMA GoesUpAlone ==
  ASSUME NEW layer, IsLayer(layer), NEW r \in 0 .. (Len(layer) - 1), NEW c, OnTheWay(layer, r, c),
         SiblingOf(r) >= Len(layer)
  PROVE  OnTheWay(NextLayer(layer), r \div 2, c)
<1> DEFINE w == Len(layer)
           q == r \div 2
           h == (w + 1) \div 2
           next == NextLayer(layer)
<1>1. w \in Nat \ {0} /\ r \in Nat /\ r < w
  BY DEF IsLayer
<1>2. /\ Len(next) = h
      /\ \A k \in 1 .. h : 2 * k > w => next[k] = layer[2 * k - 1]
  BY NextLayerIs
<1>3. r % 2 # 1 /\ SiblingOf(r) = r + 1
  <2> HIDE DEF w
  <2> QED BY <1>1, SiblingPosition DEF w
<1>4. q \in Nat /\ q + 1 \in 1 .. h /\ 2 * (q + 1) = r + 2
  BY <1>1, <1>3, HalfWay
<1>5. r + 1 >= w
  BY <1>3
<1>6. q + 1 = h
  BY <1>1, <1>5, Alone
<1>7. /\ c.hash = layer[r + 1] /\ c.at \in Nat /\ c.width \in Nat
      /\ \/ c.at = r /\ c.width = w
         \/ r + 1 = w /\ c.at + 1 = c.width
  BY DEF OnTheWay
<1> HIDE DEF w, q, h, next
<1>8. 2 * (q + 1) > w /\ 2 * (q + 1) - 1 = r + 1
  BY <1>1, <1>4, <1>5
<1>9. next[q + 1] = layer[r + 1]
  BY <1>2, <1>4, <1>8
<1>10. c.at + 1 = c.width
  BY <1>1, <1>5, <1>7
<1> QED BY <1>2, <1>6, <1>7, <1>9, <1>10 DEF OnTheWay, q, next

\* A node is hashed with its neighbour, and the verifier knows on which side.
LEMMA GoesUpWithSibling ==
  ASSUME NEW layer, IsLayer(layer), NEW r \in 0 .. (Len(layer) - 1), NEW c, OnTheWay(layer, r, c),
         ~(SiblingOf(r) >= Len(layer))
  PROVE  OnTheWay(NextLayer(layer), r \div 2, ClimbStep(c, layer[SiblingOf(r) + 1]))
<1> DEFINE w == Len(layer)
           q == r \div 2
           h == (w + 1) \div 2
           next == NextLayer(layer)
           item == layer[SiblingOf(r) + 1]
           d == ClimbStep(c, item)
           isRight == c.at % 2 = 1 \/ c.at + 1 = c.width
<1>1. w \in Nat \ {0} /\ r \in Nat /\ r < w
  BY DEF IsLayer
<1>2. /\ Len(next) = h
      /\ \A k \in 1 .. h : ~(2 * k > w) => next[k] = Keccak(layer[2 * k - 1] \o layer[2 * k])
  BY NextLayerIs
<1>3. /\ r % 2 = 1 => SiblingOf(r) = r - 1
      /\ r % 2 # 1 => SiblingOf(r) = r + 1
  BY <1>1, SiblingPosition
<1>4. /\ q \in Nat /\ q + 1 \in 1 .. h
      /\ r % 2 = 1 => 2 * (q + 1) = r + 1
      /\ r % 2 # 1 => 2 * (q + 1) = r + 2
  BY <1>1, HalfWay
<1>5. /\ c.hash = layer[r + 1] /\ c.at \in Nat /\ c.width \in Nat
      /\ \/ c.at = r /\ c.width = w
         \/ r + 1 = w /\ c.at + 1 = c.width
  BY DEF OnTheWay
<1>6. /\ d.hash = IF isRight THEN Keccak(item \o c.hash) ELSE Keccak(c.hash \o item)
      /\ d.at = c.at \div 2 /\ d.width = (c.width + 1) \div 2
  BY DEF ClimbStep
<1> HIDE DEF d
<1>7. d.at \in Nat /\ d.width \in Nat
  <2>1. c.at \div 2 \in Nat /\ (c.width + 1) \div 2 \in Nat
    BY <1>5
  <2> QED BY <1>6, <2>1
<1>8. ~(SiblingOf(r) >= w)
  OBVIOUS
<1> HIDE DEF w, h, next
<1>9. d.hash = next[q + 1]
  <2>1. CASE r % 2 = 1
    <3>1. isRight
      BY <1>5, <2>1
    <3>2. d.hash = Keccak(item \o c.hash)
      BY <1>6, <3>1, Zenon
    <3>3. 2 * (q + 1) = r + 1 /\ 2 * (q + 1) - 1 = r /\ SiblingOf(r) + 1 = r /\ ~(2 * (q + 1) > w)
      BY <1>1, <1>3, <1>4, <2>1
    <3> HIDE DEF q
    <3>4. next[q + 1] = Keccak(layer[r] \o layer[r + 1])
      BY <1>2, <1>4, <3>3
    <3>5. item = layer[r]
      BY <3>3
    <3> HIDE DEF item
    <3> QED BY <1>5, <3>2, <3>4, <3>5
  <2>2. CASE r % 2 # 1
    <3>1. SiblingOf(r) + 1 = r + 2 /\ r + 1 < w
      BY <1>1, <1>3, <1>8, <2>2
    <3>2. c.at = r /\ c.width = w
      BY <1>1, <1>5, <3>1
    <3>3. ~isRight
      BY <1>1, <2>2, <3>1, <3>2
    <3>4. d.hash = Keccak(c.hash \o item)
      BY <1>6, <3>3, Zenon
    <3>5. 2 * (q + 1) = r + 2 /\ 2 * (q + 1) - 1 = r + 1 /\ ~(2 * (q + 1) > w)
      BY <1>1, <1>4, <2>2, <3>1
    <3> HIDE DEF q
    <3>6. next[q + 1] = Keccak(layer[r + 1] \o layer[r + 2])
      BY <1>2, <1>4, <3>5
    <3>7. item = layer[r + 2]
      BY <3>1
    <3> HIDE DEF item
    <3> QED BY <1>5, <3>4, <3>6, <3>7
  <2> QED BY <2>1, <2>2
<1>10. (d.at = q /\ d.width = h) \/ (q + 1 = h /\ d.at + 1 = d.width)
  <2>1. CASE c.at = r /\ c.width = w
    BY <1>6, <2>1 DEF h
  <2>2. CASE r + 1 = w /\ c.at + 1 = c.width
    <3>1. q + 1 = h
      BY <1>1, <2>2, Alone DEF h
    <3>2. d.width = ((c.at + 1) + 1) \div 2
      BY <1>6, <2>2
    <3>3. c.at \div 2 + 1 = ((c.at + 1) + 1) \div 2
      BY <1>5, LastOfPair
    <3> HIDE DEF q
    <3> QED BY <1>6, <3>1, <3>2, <3>3
  <2> QED BY <1>5, <2>1, <2>2
<1> HIDE DEF q
<1>11. OnTheWay(next, q, d)
  BY <1>2, <1>7, <1>9, <1>10 DEF OnTheWay
<1> QED BY <1>11 DEF q, next, d, item

\* Every leaf of a trie is shown in it by the proof that was made for it
\* (merkle_proof, verify_proof).
THEOREM ProofIsComplete ==
  ASSUME NEW leaves, IsSequence(leaves), leaves # << >>, NEW index \in 0 .. (Len(leaves) - 1),
         NEW m, m.root = MerkleRoot(leaves), m.proof = MerkleProof(leaves, index).proof,
         m.leaf = leaves[index + 1], m.leaf_index = index, m.number_of_leaves = Len(leaves)
  PROVE  /\ IsSequence(m.proof) /\ \A k \in DOMAIN m.proof : IsHash(m.proof[k])
         /\ VerifyProof(m)
<1> DEFINE f == Siblings(leaves, index)
           L == Layers(leaves)
           N == Len(leaves)
           C == Climb(m)
           Fine(n) == OnTheWay(L[n], f[n].at, C[Len(f[n].items)])
           T == {n \in 0 .. N : Fine(n)}
<1>1. /\ N \in Nat \ {0} /\ Len(L[0]) = N /\ Len(L[N]) = 1
      /\ \A n \in 0 .. N : IsLayer(L[n])
  BY LayersAre
<1>2. L[0] = Bottom(leaves) /\ \A n \in 1 .. N : L[n] = NextLayer(L[n - 1])
  BY LayerSteps
<1>3. f[0] = [at |-> index, items |-> << >>]
  BY SiblingSteps
<1>4. ASSUME NEW n \in 1 .. N PROVE f[n] = SiblingStep(L[n - 1], f[n - 1])
  BY SiblingsNext
<1>5. \A n \in 0 .. N : /\ f[n].at \in 0 .. (Len(L[n]) - 1) /\ IsSequence(f[n].items)
                        /\ \A k \in 1 .. Len(f[n].items) : IsHash(f[n].items[k])
  BY SiblingsAre
<1>6. \A n \in 0 .. N : StartsWith(f[N].items, f[n].items)
  BY SiblingsGrow
<1>7. m.proof = f[N].items
  BY DEF MerkleProof
<1>8. m.leaf = leaves[index + 1] /\ m.leaf_index = index /\ m.number_of_leaves = N
      /\ m.root = L[N][1] /\ index \in 0 .. (N - 1) /\ DOMAIN leaves = 1 .. N
  BY SequenceFacts DEF MerkleRoot
<1> HIDE DEF f, L, N
<1>9. IsSequence(m.proof) /\ \A k \in DOMAIN m.proof : IsHash(m.proof[k])
  <2>1. N \in 0 .. N
    BY <1>1
  <2>2. IsSequence(f[N].items) /\ \A k \in 1 .. Len(f[N].items) : IsHash(f[N].items[k])
    BY <1>5, <2>1
  <2>3. DOMAIN f[N].items = 1 .. Len(f[N].items)
    BY <2>2, SequenceFacts
  <2> QED BY <1>7, <2>2, <2>3
<1>10. C[0] = ClimbStart(m) /\ \A n \in 1 .. Len(m.proof) : C[n] = ClimbStep(C[n - 1], m.proof[n])
  BY <1>9, ClimbSteps
<1> HIDE DEF C
<1>11. 0 \in T
  <2>1. f[0].at = index /\ Len(f[0].items) = 0
    BY <1>3, NoWord
  <2>2. C[0].hash = Keccak(leaves[index + 1]) /\ C[0].at = index /\ C[0].width = N
    BY <1>8, <1>10 DEF ClimbStart
  <2>3. L[0][index + 1] = Keccak(leaves[index + 1])
    <3>1. index + 1 \in DOMAIN leaves
      BY <1>1, <1>8
    <3> QED BY <1>2, <3>1 DEF Bottom
  <2>4. C[0].at \in Nat /\ C[0].width \in Nat /\ 0 \in 0 .. N
    BY <1>1, <1>8, <2>2
  <2>5. OnTheWay(L[0], index, C[0])
    BY <1>1, <2>2, <2>3, <2>4 DEF OnTheWay
  <2> QED BY <2>1, <2>4, <2>5
<1>12. ASSUME NEW n \in 1 .. N, n - 1 \in T PROVE n \in T
  <2>1. n - 1 \in 0 .. N /\ n \in 0 .. N
    BY <1>1
  <2> DEFINE layer == L[n - 1]
             below == f[n - 1]
             r == below.at
             c == C[Len(below.items)]
             x == layer[SiblingOf(r) + 1]
  <2>2. IsLayer(layer) /\ L[n] = NextLayer(layer) /\ f[n] = SiblingStep(layer, below)
    BY <1>1, <1>2, <1>4, <2>1
  <2>3. r \in 0 .. (Len(layer) - 1) /\ IsSequence(below.items)
    BY <1>5, <2>1
  <2>4. OnTheWay(layer, r, c)
    BY <1>12
  <2>5. StartsWith(m.proof, f[n].items)
    BY <1>6, <1>7, <2>1
  <2> HIDE DEF layer, below, c
  <2>6. /\ f[n].at = r \div 2
        /\ f[n].items = IF SiblingOf(r) >= Len(layer) THEN below.items ELSE Append(below.items, x)
    BY <2>2 DEF SiblingStep
  <2>7. Fine(n)
    <3>1. CASE SiblingOf(r) >= Len(layer)
      <4>1. OnTheWay(NextLayer(layer), r \div 2, c)
        BY <2>2, <2>3, <2>4, <3>1, GoesUpAlone
      <4>2. f[n].items = below.items
        BY <2>6, <3>1
      <4>3. C[Len(f[n].items)] = c
        BY <4>2 DEF c
      <4> QED BY <2>2, <2>6, <4>1, <4>3, Zenon
    <3>2. CASE ~(SiblingOf(r) >= Len(layer))
      <4>1. OnTheWay(NextLayer(layer), r \div 2, ClimbStep(c, x))
        BY <2>2, <2>3, <2>4, <3>2, GoesUpWithSibling
      <4> DEFINE items == f[n].items
                 j == Len(below.items)
      <4> HIDE DEF x
      <4>2. items = Append(below.items, x)
        BY <2>6, <3>2
      <4> HIDE DEF items
      <4>3. Len(items) = j + 1 /\ items[j + 1] = x
        BY <2>3, <4>2, Appended
      <4>4. j \in Nat
        BY <2>3, SequenceFacts
      <4> HIDE DEF j
      <4>5. Len(items) \in 0 .. Len(m.proof) /\ \A k \in 1 .. Len(items) : items[k] = m.proof[k]
        BY <2>5 DEF StartsWith, items
      <4>6. Len(m.proof) \in Nat
        BY <1>9, SequenceFacts
      <4>7. j + 1 \in 1 .. Len(items) /\ j + 1 \in 1 .. Len(m.proof) /\ (j + 1) - 1 = j
        BY <4>3, <4>4, <4>5, <4>6
      <4>8. m.proof[j + 1] = x
        BY <4>3, <4>5, <4>7
      <4>9. C[j + 1] = ClimbStep(C[(j + 1) - 1], m.proof[j + 1])
        BY <1>10, <4>7
      <4>10. C[j + 1] = ClimbStep(c, x)
        BY <4>7, <4>8, <4>9 DEF c, j
      <4>11. C[Len(f[n].items)] = ClimbStep(c, x)
        BY <4>3, <4>10 DEF items
      <4> QED BY <2>2, <2>6, <4>1, <4>11, Zenon
    <3> QED BY <3>1, <3>2
  <2> HIDE DEF Fine
  <2> QED BY <2>1, <2>7
<1>13. Fine(N)
  <2>1. N \in Nat /\ N \in 0 .. N
    BY <1>1
  <2> HIDE DEF T
  <2>2. \A n \in 0 .. N : n \in T
    BY <1>11, <1>12, <2>1, UpTo
  <2> QED BY <2>1, <2>2 DEF T
<1>14. C[Len(m.proof)].hash = m.root
  <2>1. f[N].at = 0
    <3>1. N \in 0 .. N
      BY <1>1
    <3>2. f[N].at \in 0 .. (Len(L[N]) - 1)
      BY <1>5, <3>1
    <3> QED BY <1>1, <3>2
  <2>2. C[Len(f[N].items)].hash = L[N][0 + 1]
    BY <1>13, <2>1 DEF OnTheWay
  <2> QED BY <1>7, <1>8, <2>2
<1>15. m.leaf_index < m.number_of_leaves
  BY <1>1, <1>8
<1> QED BY <1>9, <1>14, <1>15 DEF VerifyProof, C

-------------------------------------------------------------------------------
(***************************************************************************)
(* What a message encodes to determines the message.                       *)
(***************************************************************************)

LEMMA FourWords ==
  ASSUME NEW a, NEW b, NEW c, NEW d
  PROVE  /\ IsSequence(<< a, b, c, d >>) /\ Len(<< a, b, c, d >>) = 4
         /\ << a, b, c, d >>[1] = a /\ << a, b, c, d >>[2] = b
         /\ << a, b, c, d >>[3] = c /\ << a, b, c, d >>[4] = d
<1>1. << a, b, c, d >> \in Seq({a, b, c, d}) /\ Len(<< a, b, c, d >>) = 4
  OBVIOUS
<1>2. /\ << a, b, c, d >>[1] = a /\ << a, b, c, d >>[2] = b
      /\ << a, b, c, d >>[3] = c /\ << a, b, c, d >>[4] = d
  OBVIOUS
<1> QED BY <1>1, <1>2, SequenceOf

LEMMA AddressesAre ==
  ASSUME NEW m
  PROVE  /\ IsSequence(AbiAddresses(m)) /\ Len(AbiAddresses(m)) = 4
         /\ AbiAddresses(m)[1] = Number(m.from) /\ AbiAddresses(m)[2] = Number(m.to)
         /\ AbiAddresses(m)[3] = Number(m.origin_domain)
         /\ AbiAddresses(m)[4] = Number(m.destination_domain)
BY FourWords DEF AbiAddresses

LEMMA AddressesInjective ==
  ASSUME NEW m, NEW n, AbiAddresses(m) = AbiAddresses(n)
  PROVE  /\ m.from = n.from /\ m.to = n.to /\ m.origin_domain = n.origin_domain
         /\ m.destination_domain = n.destination_domain
<1>1. /\ Number(m.from) = Number(n.from) /\ Number(m.to) = Number(n.to)
      /\ Number(m.origin_domain) = Number(n.origin_domain)
      /\ Number(m.destination_domain) = Number(n.destination_domain)
  BY AddressesAre
<1> QED BY <1>1, NumberInjective

\* A message is of one of two types, and the selector tells which.
LEMMA MessageTypes ==
  ASSUME NEW message, IsMessage(message)
  PROVE  \/ /\ message.type = "ArbitraryMessage" /\ Selector(message) = 1
            /\ message = ArbitraryMessage(message.data) /\ IsSequence(message.data)
            /\ AbiData(message) = message.data
         \/ /\ message.type = "FungibleToken" /\ Selector(message) = 2
            /\ message = FungibleToken(message.asset_id, message.amount)
            /\ AbiData(message) = << Number(message.asset_id), Number(message.amount) >>
<1>1. CASE message = ArbitraryMessage(message.data) /\ IsSequence(message.data)
  <2>1. message.type = "ArbitraryMessage"
    BY <1>1 DEF ArbitraryMessage
  <2> QED BY <1>1, <2>1 DEF Selector, AbiData
<1>2. CASE message = FungibleToken(message.asset_id, message.amount)
  <2>1. message.type = "FungibleToken"
    BY <1>2 DEF FungibleToken
  <2> QED BY <1>2, <2>1 DEF Selector, AbiData
<1> QED BY <1>1, <1>2 DEF IsMessage

LEMMA AbiDataIs ==
  ASSUME NEW message, IsMessage(message)
  PROVE  IsSequence(AbiData(message))
<1>1. IsSequence(<< Number(message.asset_id), Number(message.amount) >>)
  BY TwoWords
<1> QED BY <1>1, MessageTypes

LEMMA AbiDataInjective ==
  ASSUME NEW a, NEW b, IsMessage(a), IsMessage(b), Selector(a) = Selector(b),
         AbiData(a) = AbiData(b)
  PROVE  a = b
<1>1. CASE a.type = "ArbitraryMessage"
  <2>1. /\ a = ArbitraryMessage(a.data) /\ AbiData(a) = a.data
        /\ b = ArbitraryMessage(b.data) /\ AbiData(b) = b.data
    BY <1>1, MessageTypes
  <2>2. a.data = b.data
    BY <2>1
  <2> QED BY <2>1, <2>2, Zenon
<1>2. CASE a.type # "ArbitraryMessage"
  <2>1. /\ a = FungibleToken(a.asset_id, a.amount)
        /\ AbiData(a) = << Number(a.asset_id), Number(a.amount) >>
        /\ b = FungibleToken(b.asset_id, b.amount)
        /\ AbiData(b) = << Number(b.asset_id), Number(b.amount) >>
    BY <1>2, MessageTypes
  <2>2. Number(a.asset_id) = Number(b.asset_id) /\ Number(a.amount) = Number(b.amount)
    <3> DEFINE x == << Number(a.asset_id), Number(a.amount) >>
               y == << Number(b.asset_id), Number(b.amount) >>
    <3>1. /\ x[1] = Number(a.asset_id) /\ x[2] = Number(a.amount)
          /\ y[1] = Number(b.asset_id) /\ y[2] = Number(b.amount)
      BY TwoWords
    <3>2. AbiData(a) = x /\ AbiData(b) = y
      BY <2>1
    <3> HIDE DEF x, y
    <3> QED BY <3>1, <3>2
  <2>3. a.asset_id = b.asset_id /\ a.amount = b.amount
    BY <2>2, NumberInjective
  <2> QED BY <2>1, <2>3, Zenon
<1> QED BY <1>1, <1>2

AbiHead(m) == << Number(Selector(m.message)) >> \o AbiAddresses(m)

LEMMA AbiHeadIs ==
  ASSUME NEW m
  PROVE  IsSequence(AbiHead(m)) /\ Len(AbiHead(m)) = 5
<1> DEFINE s == << Number(Selector(m.message)) >>
<1>1. IsSequence(s) /\ Len(s) = 1
  BY OneWord
<1>2. IsSequence(AbiAddresses(m)) /\ Len(AbiAddresses(m)) = 4
  BY AddressesAre
<1> HIDE DEF s
<1>3. IsSequence(s \o AbiAddresses(m))
  BY <1>1, <1>2, JoinedIs, Zenon
<1>4. Len(s \o AbiAddresses(m)) = Len(s) + Len(AbiAddresses(m))
  BY <1>1, <1>2, JoinedLen, Zenon
<1>5. AbiHead(m) = s \o AbiAddresses(m)
  BY DEF AbiHead, s
<1> QED BY <1>1, <1>2, <1>3, <1>4, <1>5

LEMMA AbiHeadInjective ==
  ASSUME NEW m, NEW n, AbiHead(m) = AbiHead(n)
  PROVE  Selector(m.message) = Selector(n.message) /\ AbiAddresses(m) = AbiAddresses(n)
<1> DEFINE s == << Number(Selector(m.message)) >>
           t == << Number(Selector(n.message)) >>
<1>1. IsSequence(s) /\ IsSequence(t) /\ Len(s) = Len(t) /\ s[1] = Number(Selector(m.message))
      /\ t[1] = Number(Selector(n.message))
  BY OneWord
<1>2. IsSequence(AbiAddresses(m)) /\ IsSequence(AbiAddresses(n))
  BY AddressesAre
<1>3. s \o AbiAddresses(m) = t \o AbiAddresses(n)
  BY DEF AbiHead
<1> HIDE DEF s, t
<1>4. s = t
  BY <1>1, <1>2, <1>3, SplitLeft, Zenon
<1>5. AbiAddresses(m) = AbiAddresses(n)
  BY <1>1, <1>2, <1>3, SplitRight, Zenon
<1>6. Number(Selector(m.message)) = Number(Selector(n.message))
  BY <1>1, <1>4
<1> QED BY <1>5, <1>6, NumberInjective

LEMMA AbiEncodeIs ==
  ASSUME NEW m, IsAddressed(m)
  PROVE  IsSequence(AbiEncode(m)) /\ Len(AbiEncode(m)) # 2
<1> DEFINE d == AbiData(m.message)
           v == EncodeVector(d)
           i == << Number(m.id) >>
<1>1. IsSequence(AbiHead(m)) /\ Len(AbiHead(m)) = 5
  BY AbiHeadIs
<1>2. IsSequence(d) /\ Len(d) \in Nat
  BY AbiDataIs, SequenceFacts DEF IsAddressed
<1>3. IsSequence(i) /\ Len(i) = 1
  BY OneWord
<1> HIDE DEF d, i
<1>4. IsSequence(v) /\ Len(v) = 1 + Len(d)
  BY <1>2, VectorIs
<1> HIDE DEF v
<1>5. IsSequence(v \o i)
  BY <1>3, <1>4, JoinedIs, Zenon
<1>6. Len(v \o i) = Len(v) + Len(i)
  BY <1>3, <1>4, JoinedLen, Zenon
<1>7. IsSequence(AbiHead(m) \o (v \o i))
  BY <1>1, <1>5, JoinedIs, Zenon
<1>8. Len(AbiHead(m) \o (v \o i)) = Len(AbiHead(m)) + Len(v \o i)
  BY <1>1, <1>5, JoinedLen, Zenon
<1>9. AbiEncode(m) = AbiHead(m) \o (v \o i)
  BY Zenon DEF AbiEncode, AbiHead, v, d, i
<1>10. Len(AbiHead(m) \o (v \o i)) # 2
  BY <1>1, <1>2, <1>3, <1>4, <1>6, <1>8
<1> QED BY <1>7, <1>9, <1>10

\* Two messages with the same ABI encoding are the same: no message passes for
\* another, of its type or of the other one (abi_encode).
THEOREM AbiEncodeInjective ==
  ASSUME NEW m, NEW n, IsAddressed(m), IsAddressed(n), AbiEncode(m) = AbiEncode(n)
  PROVE  m = n
<1> DEFINE d(x) == AbiData(x.message)
           i(x) == << Number(x.id) >>
<1>1. IsMessage(m.message) /\ IsMessage(n.message)
  BY DEF IsAddressed
<1>2. /\ IsSequence(AbiHead(m)) /\ IsSequence(AbiHead(n)) /\ Len(AbiHead(m)) = Len(AbiHead(n))
  BY AbiHeadIs
<1>3. IsSequence(d(m)) /\ IsSequence(d(n))
  BY <1>1, AbiDataIs
<1>4. IsSequence(i(m)) /\ IsSequence(i(n)) /\ i(m)[1] = Number(m.id) /\ i(n)[1] = Number(n.id)
  BY OneWord
<1>5. AbiHead(m) \o (EncodeVector(d(m)) \o i(m)) = AbiHead(n) \o (EncodeVector(d(n)) \o i(n))
  BY Zenon DEF AbiEncode, AbiHead
<1> HIDE DEF d, i
<1>6. /\ IsSequence(EncodeVector(d(m)) \o i(m)) /\ IsSequence(EncodeVector(d(n)) \o i(n))
  <2>1. IsSequence(EncodeVector(d(m))) /\ IsSequence(EncodeVector(d(n)))
    BY <1>3, VectorIs
  <2> QED BY <1>4, <2>1, JoinedIs, Zenon
<1>7. AbiHead(m) = AbiHead(n)
  BY <1>2, <1>5, <1>6, SplitLeft, Zenon
<1>8. EncodeVector(d(m)) \o i(m) = EncodeVector(d(n)) \o i(n)
  BY <1>2, <1>5, <1>6, SplitRight, Zenon
<1>9. d(m) = d(n) /\ i(m) = i(n)
  BY <1>3, <1>4, <1>8, VectorSplit, Zenon
<1>10. Number(m.id) = Number(n.id)
  BY <1>4, <1>9
<1>11. m.id = n.id
  BY <1>10, NumberInjective
<1>12. Selector(m.message) = Selector(n.message) /\ AbiAddresses(m) = AbiAddresses(n)
  BY <1>7, AbiHeadInjective
<1>13. m.message = n.message
  <2>1. AbiData(m.message) = AbiData(n.message)
    BY <1>9 DEF d
  <2> QED BY <1>1, <1>12, <2>1, AbiDataInjective
<1>14. /\ m.from = n.from /\ m.to = n.to /\ m.origin_domain = n.origin_domain
       /\ m.destination_domain = n.destination_domain
  BY <1>12, AddressesInjective
<1>15. /\ m = AddressedMessage(m.message, m.from, m.to, m.origin_domain, m.destination_domain, m.id)
       /\ n = AddressedMessage(n.message, n.from, n.to, n.origin_domain, n.destination_domain, n.id)
  BY DEF IsAddressed
<1> QED BY <1>11, <1>13, <1>14, <1>15, Zenon

-------------------------------------------------------------------------------
(***************************************************************************)
(* The compact lookup: what it keeps, and what is read back from it.       *)
(***************************************************************************)

LEMMA ItemFields ==
  ASSUME NEW id, NEW start
  PROVE  CompactItem(id, start).id = id /\ CompactItem(id, start).start = start
BY DEF CompactItem

LEMMA EntryFields ==
  ASSUME NEW id, NEW start, NEW end
  PROVE  /\ Entry(id, start, end).id = id /\ Entry(id, start, end).start = start
         /\ Entry(id, start, end).end = end
BY DEF Entry

CompactLookup(lookup) ==
  LET kept == Filtered(lookup, {k \in DOMAIN lookup : lookup[k].id # 0})
  IN  [size |-> LookupLen(lookup),
       index |-> [k \in DOMAIN kept |-> CompactItem(kept[k].id, kept[k].start)]]

\* What a compact lookup keeps of the entries.
LEMMA CompactLookupIs ==
  ASSUME NEW lookup, IsSequence(lookup)
  PROVE  LET c == CompactLookup(lookup)
             kept == Filtered(lookup, {k \in DOMAIN lookup : lookup[k].id # 0})
         IN  /\ IsCompact(c) /\ c.size = LookupLen(lookup)
             /\ IsSequence(kept) /\ Len(c.index) = Len(kept)
             /\ \A k \in 1 .. Len(kept) :
                  /\ c.index[k] = CompactItem(kept[k].id, kept[k].start)
                  /\ \E i \in DOMAIN lookup : lookup[i].id # 0 /\ kept[k] = lookup[i]
<1> DEFINE at == {k \in DOMAIN lookup : lookup[k].id # 0}
           kept == Filtered(lookup, at)
           c == CompactLookup(lookup)
<1>1. Len(lookup) \in Nat /\ DOMAIN lookup = 1 .. Len(lookup)
  BY SequenceFacts
<1>2. PicksFrom(lookup, at, Len(lookup), kept)
  <2> HIDE DEF at
  <2>1. Len(lookup) \in 0 .. Len(lookup)
    BY <1>1
  <2> QED BY <2>1, FilterPicks DEF Filtered
<1>3. c = [size |-> LookupLen(lookup),
           index |-> [k \in DOMAIN kept |-> CompactItem(kept[k].id, kept[k].start)]]
  BY DEF CompactLookup
<1> HIDE DEF kept, c
<1>4. IsSequence(kept) /\ Len(kept) \in Nat /\ DOMAIN kept = 1 .. Len(kept)
  BY <1>2, SequenceFacts DEF PicksFrom
<1>5. c.size = LookupLen(lookup) /\ c = [size |-> c.size, index |-> c.index]
      /\ c.index = [k \in 1 .. Len(kept) |-> CompactItem(kept[k].id, kept[k].start)]
  BY <1>3, <1>4
<1>6. \A k \in 1 .. Len(kept) : c.index[k] = CompactItem(kept[k].id, kept[k].start)
  BY <1>5
<1>7. c.index = [k \in 1 .. Len(kept) |-> c.index[k]]
  BY <1>5
<1>8. IsSequence(c.index) /\ Len(c.index) = Len(kept)
  BY <1>4, <1>7, SequenceFrom
<1>9. ASSUME NEW k \in 1 .. Len(c.index)
      PROVE  c.index[k] = CompactItem(c.index[k].id, c.index[k].start)
  <2> DEFINE item == c.index[k]
  <2>1. item = CompactItem(kept[k].id, kept[k].start)
    BY <1>6, <1>8
  <2> HIDE DEF item
  <2>2. item.id = kept[k].id /\ item.start = kept[k].start
    BY <2>1, ItemFields
  <2>3. item = CompactItem(item.id, item.start)
    BY <2>1, <2>2, Zenon
  <2> QED BY <2>3 DEF item
<1>10. ASSUME NEW k \in 1 .. Len(kept)
       PROVE  \E i \in DOMAIN lookup : lookup[i].id # 0 /\ kept[k] = lookup[i]
  <2>1. PICK i \in 1 .. Len(lookup) : i \in at /\ kept[k] = lookup[i]
    BY <1>2 DEF PicksFrom
  <2> QED BY <2>1
<1>11. IsCompact(c)
  BY <1>5, <1>8, <1>9 DEF IsCompact
<1> QED BY <1>4, <1>5, <1>6, <1>8, <1>10, <1>11 DEF kept, c

LEMMA CompactErrorIs ==
  /\ IsCompact(CompactError) /\ CompactIsError(CompactError)
  /\ CompactError.size = 0 /\ Len(CompactError.index) = 1
  /\ CompactError.index[1] = CompactItem(0, 0)
<1> DEFINE index == << CompactItem(0, 0) >>
<1>1. IsSequence(index) /\ Len(index) = 1 /\ index[1] = CompactItem(0, 0)
  BY OneWord
<1>2. index # << >>
  BY <1>1, NoWord
<1>3. CompactError = [size |-> 0, index |-> index]
  BY DEF CompactError
<1> HIDE DEF index
<1>4. CompactError.size = 0 /\ CompactError.index = index
  BY <1>3
<1>5. CompactIsError(CompactError)
  BY <1>2, <1>4 DEF CompactIsError
<1>6. \A k \in 1 .. Len(index) : index[k] = CompactItem(index[k].id, index[k].start)
  <2>1. CompactItem(0, 0).id = 0 /\ CompactItem(0, 0).start = 0
    BY DEF CompactItem
  <2> QED BY <1>1, <2>1
<1>7. IsCompact(CompactError)
  BY <1>1, <1>3, <1>4, <1>6 DEF IsCompact
<1> QED BY <1>1, <1>4, <1>5, <1>7

LEMMA CompactSplits ==
  ASSUME NEW lookup
  PROVE  /\ IsError(lookup) => Compact(lookup) = CompactError
         /\ ~IsError(lookup) => Compact(lookup) = CompactLookup(lookup)
BY Zenon DEF Compact, CompactLookup

LEMMA CompactOfSequence ==
  ASSUME NEW lookup, IsSequence(lookup)
  PROVE  IsCompact(Compact(lookup))
BY CompactSplits, CompactErrorIs, CompactLookupIs

\* Nothing but an error has the compact form of an error (new_error, is_error).
THEOREM ErrorsStayErrors ==
  ASSUME NEW lookup, IsSequence(lookup)
  PROVE  IsError(lookup) <=> Compact(lookup) = CompactError
<1>1. ASSUME ~IsError(lookup), Compact(lookup) = CompactError PROVE FALSE
  <2> DEFINE at == {k \in DOMAIN lookup : lookup[k].id # 0}
             kept == Filtered(lookup, at)
  <2>1. CompactLookup(lookup) = CompactError
    BY <1>1, CompactSplits
  <2>2. LookupLen(lookup) = 0 /\ Len(kept) = 1
        /\ \E i \in DOMAIN lookup : lookup[i].id # 0 /\ kept[1] = lookup[i]
    <3>1. Len(CompactLookup(lookup).index) = Len(kept)
          /\ CompactLookup(lookup).size = LookupLen(lookup)
          /\ \A k \in 1 .. Len(kept) :
               \E i \in DOMAIN lookup : lookup[i].id # 0 /\ kept[k] = lookup[i]
      BY CompactLookupIs
    <3> HIDE DEF kept
    <3>2. Len(kept) = 1 /\ LookupLen(lookup) = 0
      BY <2>1, <3>1, CompactErrorIs
    <3> QED BY <3>1, <3>2
  <2>3. lookup = << >>
    BY <1>1, <2>2 DEF IsError
  <2> HIDE DEF kept
  <2>4. PICK i \in DOMAIN lookup : lookup[i].id # 0
    BY <2>2
  <2>5. Len(lookup) = 0 /\ DOMAIN lookup = 1 .. Len(lookup)
    BY <2>3, NoWord, SequenceFacts
  <2> QED BY <2>4, <2>5
<1> QED BY <1>1, CompactSplits

\* The entries that are read back.
Begin(c) == << CompactItem(0, 0) >> \o c.index

Entries(c) ==
  [k \in 1 .. Len(c.index) + 1 |->
     Entry(Begin(c)[k].id, Begin(c)[k].start,
           IF k = Len(c.index) + 1 THEN c.size ELSE Begin(c)[k + 1].start)]

LEMMA ExpandIs ==
  ASSUME NEW c
  PROVE  /\ CompactIsError(c) => Expand(c) = NewError
         /\ ~CompactIsError(c) /\ Begin(c)[Len(c.index) + 1].start < c.size => Expand(c) = Entries(c)
         /\ ~CompactIsError(c) /\ ~(Begin(c)[Len(c.index) + 1].start < c.size) =>
              Expand(c) = SubSeq(Entries(c), 1, (Len(c.index) + 1) - 1)
BY Zenon DEF Expand, Begin, Entries

LEMMA BeginIs ==
  ASSUME NEW c, IsSequence(c.index)
  PROVE  /\ Begin(c)[1] = CompactItem(0, 0)
         /\ \A k \in 1 .. Len(c.index) : Begin(c)[k + 1] = c.index[k]
<1> DEFINE w == << CompactItem(0, 0) >>
           index == c.index
<1>1. IsSequence(w) /\ Len(w) = 1 /\ w[1] = CompactItem(0, 0)
  BY OneWord
<1>2. IsSequence(index)
  OBVIOUS
<1>3. Begin(c) = w \o index
  BY DEF Begin
<1> HIDE DEF w, index
<1>4. (w \o index)[1] = w[1]
  <2>1. 1 \in 1 .. Len(w)
    BY <1>1
  <2> QED BY <1>1, <1>2, <2>1, JoinedLeft, Zenon
<1>5. ASSUME NEW k \in 1 .. Len(index) PROVE (w \o index)[k + 1] = index[k]
  <2>1. IsSequence(w)
    BY <1>1
  <2>2. (w \o index)[Len(w) + k] = index[k]
    BY <1>2, <2>1, JoinedRight, Zenon
  <2>3. Len(w) + k = k + 1
    BY <1>1, <1>2, SequenceFacts
  <2> QED BY <2>2, <2>3, Zenon
<1> QED BY <1>1, <1>3, <1>4, <1>5 DEF index

LEMMA EntriesAre ==
  ASSUME NEW c, IsSequence(c.index)
  PROVE  /\ IsSequence(Entries(c)) /\ Len(Entries(c)) = Len(c.index) + 1
         /\ Entries(c)[1].id = 0 /\ Entries(c)[Len(c.index) + 1].end = c.size
         /\ \A k \in 1 .. Len(c.index) : /\ Entries(c)[k + 1].id = c.index[k].id
                                         /\ Entries(c)[k + 1].start = c.index[k].start
<1> DEFINE n == Len(c.index)
           b == Begin(c)
           e == Entries(c)
<1>1. n \in Nat
  BY SequenceFacts
<1>2. b[1] = CompactItem(0, 0) /\ \A k \in 1 .. n : b[k + 1] = c.index[k]
  BY BeginIs
<1>3. e = [k \in 1 .. n + 1 |-> Entry(b[k].id, b[k].start, IF k = n + 1 THEN c.size ELSE b[k + 1].start)]
  BY DEF Entries
<1> HIDE DEF n, b, e
<1>4. \A k \in 1 .. n + 1 :
        e[k] = Entry(b[k].id, b[k].start, IF k = n + 1 THEN c.size ELSE b[k + 1].start)
  BY <1>3
<1>5. \A k \in 1 .. n + 1 : e[k].id = b[k].id /\ e[k].start = b[k].start
  BY <1>4, EntryFields
<1>6. IsSequence(e) /\ Len(e) = n + 1
  <2>1. e = [k \in 1 .. n + 1 |-> e[k]] /\ n + 1 \in Nat
    BY <1>1, <1>3
  <2> QED BY <2>1, SequenceFrom
<1>7. e[n + 1].end = c.size
  <2>1. n + 1 \in 1 .. n + 1
    BY <1>1
  <2>2. e[n + 1] = Entry(b[n + 1].id, b[n + 1].start, c.size)
    BY <1>4, <2>1
  <2> QED BY <2>2, EntryFields
<1>8. e[1].id = 0
  <2>1. 1 \in 1 .. n + 1
    BY <1>1
  <2> QED BY <1>2, <1>5, <2>1 DEF CompactItem
<1>9. ASSUME NEW k \in 1 .. n
      PROVE  e[k + 1].id = c.index[k].id /\ e[k + 1].start = c.index[k].start
  <2>1. k + 1 \in 1 .. n + 1
    BY <1>1
  <2> QED BY <1>2, <1>5, <2>1
<1> QED BY <1>6, <1>7, <1>8, <1>9 DEF n, e

LEMMA ExpandIsSequence ==
  ASSUME NEW c, IsSequence(c.index)
  PROVE  IsSequence(Expand(c))
<1> DEFINE n == Len(c.index)
           e == Entries(c)
<1>1. IsSequence(e) /\ Len(e) = n + 1 /\ n \in Nat
  BY EntriesAre, SequenceFacts
<1>2. IsSequence(NewError)
  BY OneWord DEF NewError
<1>3. IsSequence(SubSeq(e, 1, (n + 1) - 1))
  <2> HIDE DEF n, e
  <2> DEFINE S == {e[k] : k \in DOMAIN e}
  <2>1. DOMAIN e = 1 .. n + 1
    BY <1>1, SequenceFacts
  <2>2. 1 \in Int /\ (n + 1) - 1 \in Int /\ \A k \in 1 .. (n + 1) - 1 : e[k] \in S
    <3>1. n \in Nat
      BY <1>1
    <3>2. \A k \in 1 .. (n + 1) - 1 : k \in DOMAIN e
      BY <2>1, <3>1
    <3> QED BY <3>1, <3>2
  <2> HIDE DEF S
  <2>3. SubSeq(e, 1, (n + 1) - 1) \in Seq(S)
    BY <2>2, SubSeqProperties
  <2> QED BY <2>3, SequenceOf
<1> QED BY <1>1, <1>2, <1>3, ExpandIs

\* All but the first element are filtered out in order.
LEMMA FilteredTail ==
  ASSUME NEW s, IsSequence(s), NEW n \in Nat, Len(s) = n + 1,
         NEW at, \A k \in 1 .. n + 1 : k \in at <=> k # 1
  PROVE  /\ Len(Filtered(s, at)) = n
         /\ \A k \in 1 .. n : Filtered(s, at)[k] = s[k + 1]
<1> DEFINE f == FilteredUpTo(s, at)
           At(m) == /\ IsSequence(f[m + 1]) /\ Len(f[m + 1]) = m
                    /\ \A k \in 1 .. m : f[m + 1][k] = s[k + 1]
           T == {m \in 0 .. n : At(m)}
<1>1. /\ f[0] = << >>
      /\ \A m \in 1 .. n + 1 : f[m] = IF m \in at THEN Append(f[m - 1], s[m]) ELSE f[m - 1]
  BY FilterSteps
<1> HIDE DEF f
<1>2. 0 \in T
  <2>1. 1 \in 1 .. n + 1 /\ 1 \notin at
    OBVIOUS
  <2>2. f[0 + 1] = << >>
    BY <1>1, <2>1
  <2> QED BY <2>2, NoWord
<1>3. ASSUME NEW m \in 1 .. n, m - 1 \in T PROVE m \in T
  <2> DEFINE below == f[m]
             x == s[m + 1]
  <2>1. m + 1 \in 1 .. n + 1 /\ m + 1 \in at /\ (m + 1) - 1 = m /\ (m - 1) + 1 = m /\ m \in 0 .. n
    OBVIOUS
  <2>2. f[m + 1] = Append(below, x)
    BY <1>1, <2>1
  <2>3. At(m - 1)
    BY <1>3
  <2>4. IsSequence(below) /\ Len(below) = m - 1 /\ \A k \in 1 .. m - 1 : below[k] = s[k + 1]
    BY <2>1, <2>3
  <2> HIDE DEF below, x
  <2>5. /\ IsSequence(Append(below, x)) /\ Len(Append(below, x)) = Len(below) + 1
        /\ \A k \in 1 .. Len(below) : Append(below, x)[k] = below[k]
        /\ Append(below, x)[Len(below) + 1] = x
    BY <2>4, Appended
  <2> DEFINE next == f[m + 1]
  <2>6. next = Append(below, x)
    BY <2>2
  <2> HIDE DEF next
  <2>7. IsSequence(next) /\ Len(next) = m /\ next[m] = x /\ \A k \in 1 .. m - 1 : next[k] = s[k + 1]
    BY <2>4, <2>5, <2>6
  <2>8. \A k \in 1 .. m : next[k] = s[k + 1]
    <3>1. \A k \in 1 .. m : k = m \/ k \in 1 .. m - 1
      OBVIOUS
    <3> QED BY <2>7, <3>1 DEF x
  <2> QED BY <2>1, <2>7, <2>8 DEF next
<1>4. At(n)
  <2> HIDE DEF T
  <2>1. \A m \in 0 .. n : m \in T
    BY <1>2, <1>3, UpTo
  <2>2. n \in T
    BY <2>1
  <2> QED BY <2>2 DEF T
<1> QED BY <1>4 DEF f, Filtered

LEMMA LookupLenOf ==
  ASSUME NEW lookup, IsSequence(lookup), Len(lookup) # 0
  PROVE  lookup # << >> /\ LookupLen(lookup) = lookup[Len(lookup)].end
BY NoWord DEF LookupLen

\* A compact lookup of named applications is read back as it was written, up to
\* the entry of the application 0 in front (from_data_lookup, from_compact).
LEMMA ExpandCompact ==
  ASSUME NEW c, IsCompact(c), c.size \in 1 .. (U32Max - 1),
         \A k \in 1 .. Len(c.index) : c.index[k].id # 0 /\ c.index[k].start \in 0 .. (c.size - 1)
  PROVE  /\ ~CompactIsError(c) /\ LookupLen(Expand(c)) = c.size
         /\ Compact(Expand(c)) = c
<1> DEFINE n == Len(c.index)
           e == Entries(c)
           b == Begin(c)
           at == {k \in DOMAIN e : e[k].id # 0}
           kept == Filtered(e, at)
           d == CompactLookup(e)
<1>1. IsSequence(c.index) /\ n \in Nat /\ c = [size |-> c.size, index |-> c.index]
      /\ \A k \in 1 .. n : c.index[k] = CompactItem(c.index[k].id, c.index[k].start)
  BY SequenceFacts DEF IsCompact
<1>2. c.size # 0 /\ c.size # U32Max
  BY U32MaxAssumption
<1>3. ~CompactIsError(c)
  BY <1>2 DEF CompactIsError
<1>4. /\ IsSequence(e) /\ Len(e) = n + 1 /\ e[1].id = 0 /\ e[n + 1].end = c.size
      /\ \A k \in 1 .. n : e[k + 1].id = c.index[k].id /\ e[k + 1].start = c.index[k].start
  BY <1>1, EntriesAre
<1>5. Expand(c) = e
  <2>1. b[1] = CompactItem(0, 0) /\ \A k \in 1 .. n : b[k + 1] = c.index[k]
    BY <1>1, BeginIs
  <2> HIDE DEF b
  <2>2. b[n + 1].start < c.size
    <3>1. CASE n = 0
      BY <1>2, <2>1, <3>1, ItemFields
    <3>2. CASE n # 0
      <4>1. n \in 1 .. n
        BY <1>1, <3>2
      <4>2. b[n + 1] = c.index[n] /\ c.index[n].start \in 0 .. (c.size - 1)
        BY <2>1, <4>1
      <4> QED BY <4>2
    <3> QED BY <3>1, <3>2
  <2> QED BY <1>3, <2>2, ExpandIs DEF b
<1> HIDE DEF n, e
<1>6. DOMAIN e = 1 .. n + 1 /\ Len(e) # 0
  BY <1>1, <1>4, SequenceFacts
<1>7. LookupLen(e) = c.size
  BY <1>4, <1>6, LookupLenOf
<1>8. ~IsError(e)
  BY <1>2, <1>7 DEF IsError
<1>9. Compact(e) = d
  BY <1>8, CompactSplits
<1>10. \A k \in 1 .. n + 1 : k \in at <=> k # 1
  <2>1. ASSUME NEW k \in 1 .. n + 1, k # 1 PROVE e[k].id # 0
    <3>1. k - 1 \in 1 .. n /\ (k - 1) + 1 = k
      BY <1>1, <2>1
    <3>2. c.index[k - 1].id # 0
      BY <3>1 DEF n
    <3> QED BY <1>4, <3>1, <3>2
  <2> QED BY <1>4, <1>6, <2>1
<1> HIDE DEF at
<1>11. Len(kept) = n /\ \A k \in 1 .. n : kept[k] = e[k + 1]
  BY <1>1, <1>4, <1>10, FilteredTail
<1>12. /\ IsCompact(d) /\ d.size = LookupLen(e) /\ Len(d.index) = Len(kept)
       /\ \A k \in 1 .. Len(kept) : d.index[k] = CompactItem(kept[k].id, kept[k].start)
  BY <1>4, CompactLookupIs DEF at
<1> HIDE DEF kept, d
<1>13. ASSUME NEW k \in 1 .. n PROVE d.index[k] = c.index[k]
  <2>1. d.index[k] = CompactItem(kept[k].id, kept[k].start)
    BY <1>11, <1>12
  <2>2. kept[k].id = c.index[k].id /\ kept[k].start = c.index[k].start
    BY <1>4, <1>11
  <2>3. c.index[k] = CompactItem(c.index[k].id, c.index[k].start)
    BY <1>1
  <2> QED BY <2>1, <2>2, <2>3, Zenon
<1>14. d.index = c.index
  <2>1. IsSequence(d.index) /\ IsSequence(c.index) /\ Len(d.index) = Len(c.index)
    BY <1>1, <1>11, <1>12 DEF IsCompact, n
  <2>2. \A k \in 1 .. Len(d.index) : d.index[k] = c.index[k]
    BY <1>11, <1>12, <1>13
  <2> QED BY <2>1, <2>2, SameSequence, Zenon
<1>15. d = c
  <2>1. d = [size |-> d.size, index |-> d.index]
    BY <1>12 DEF IsCompact
  <2> QED BY <1>1, <1>7, <1>12, <1>14, <2>1, Zenon
<1> QED BY <1>3, <1>5, <1>7, <1>9, <1>15, Zenon

\* The lookup of a grid: it has chunks, fewer than the marker of old errors; the
\* application 0 can only be first, and the ranges start below the end.
IsLookup(lookup) ==
  /\ IsSequence(lookup) /\ lookup # << >> /\ LookupLen(lookup) \in 1 .. (U32Max - 1)
  /\ \A k \in DOMAIN lookup :
       /\ lookup[k].id \in Nat /\ lookup[k].start \in 0 .. (LookupLen(lookup) - 1)
       /\ lookup[k].id = 0 => k = 1

\* The lookups that headers carry.
IsBlockLookup(lookup) == lookup = NewEmpty \/ lookup = NewError \/ IsLookup(lookup)

ReadsBack(lookup) ==
  LET c == Compact(lookup)
  IN  /\ IsSequence(lookup) /\ c.size \in Nat /\ IsSequence(c.index)
      /\ \A k \in 1 .. Len(c.index) : c.index[k].id \in Nat /\ c.index[k].start \in Nat
      /\ IsSequence(Expand(c)) /\ Compact(Expand(c)) = c
      /\ ~CompactIsError(c) => LookupLen(Expand(c)) = c.size

LEMMA LookupReadsBack ==
  ASSUME NEW lookup, IsLookup(lookup)
  PROVE  ReadsBack(lookup) /\ ~IsError(lookup)
<1> DEFINE at == {k \in DOMAIN lookup : lookup[k].id # 0}
           kept == Filtered(lookup, at)
           c == CompactLookup(lookup)
<1>1. /\ IsSequence(lookup) /\ LookupLen(lookup) \in 1 .. (U32Max - 1)
      /\ \A k \in DOMAIN lookup : /\ lookup[k].id \in Nat
                                  /\ lookup[k].start \in 0 .. (LookupLen(lookup) - 1)
  BY DEF IsLookup
<1>2. ~IsError(lookup)
  BY <1>1 DEF IsError
<1>3. Compact(lookup) = c
  BY <1>2, CompactSplits
<1>4. /\ IsCompact(c) /\ c.size = LookupLen(lookup) /\ Len(c.index) = Len(kept)
      /\ \A k \in 1 .. Len(kept) :
           /\ c.index[k] = CompactItem(kept[k].id, kept[k].start)
           /\ \E i \in DOMAIN lookup : lookup[i].id # 0 /\ kept[k] = lookup[i]
  BY <1>1, CompactLookupIs
<1> HIDE DEF kept, c
<1>5. ASSUME NEW k \in 1 .. Len(c.index)
      PROVE  /\ c.index[k].id \in Nat /\ c.index[k].id # 0
             /\ c.index[k].start \in 0 .. (c.size - 1)
  <2>1. c.index[k] = CompactItem(kept[k].id, kept[k].start)
    BY <1>4
  <2>2. PICK i \in DOMAIN lookup : lookup[i].id # 0 /\ kept[k] = lookup[i]
    BY <1>4
  <2>3. c.index[k].id = kept[k].id /\ c.index[k].start = kept[k].start
    BY <2>1, ItemFields
  <2> QED BY <1>1, <1>4, <2>2, <2>3
<1>6. c.size \in 1 .. (U32Max - 1) /\ c.size \in Nat /\ IsSequence(c.index)
  BY <1>1, <1>4 DEF IsCompact
<1>7. LookupLen(Expand(c)) = c.size /\ Compact(Expand(c)) = c
  BY <1>4, <1>5, <1>6, ExpandCompact
<1>8. IsSequence(Expand(c))
  BY <1>6, ExpandIsSequence
<1>9. \A k \in 1 .. Len(c.index) : c.index[k].id \in Nat /\ c.index[k].start \in Nat
  BY <1>5, <1>6
<1> QED BY <1>1, <1>2, <1>3, <1>6, <1>7, <1>8, <1>9, Zenon DEF ReadsBack

LEMMA ErrorReadsBack == ReadsBack(NewError) /\ IsError(NewError)
<1>1. IsSequence(NewError) /\ Len(NewError) = 1 /\ NewError[1] = Entry(0, 0, 0)
  BY OneWord DEF NewError
<1>2. IsError(NewError)
  <2>1. NewError # << >> /\ LookupLen(NewError) = NewError[Len(NewError)].end
    BY <1>1, LookupLenOf
  <2>2. LookupLen(NewError) = 0
    BY <1>1, <2>1, EntryFields
  <2> QED BY <2>1, <2>2 DEF IsError
<1>3. Compact(NewError) = CompactError
  BY <1>2, CompactSplits
<1>4. Expand(CompactError) = NewError
  BY CompactErrorIs, ExpandIs
<1>5. \A k \in 1 .. Len(CompactError.index) :
        CompactError.index[k].id \in Nat /\ CompactError.index[k].start \in Nat
  BY CompactErrorIs, ItemFields
<1>6. CompactError.size \in Nat /\ IsSequence(CompactError.index) /\ CompactIsError(CompactError)
  BY CompactErrorIs DEF IsCompact
<1> QED BY <1>1, <1>2, <1>3, <1>4, <1>5, <1>6, Zenon DEF ReadsBack

LEMMA EmptyReadsBack == ReadsBack(NewEmpty) /\ ~IsError(NewEmpty)
<1> DEFINE kept == Filtered(NewEmpty, {k \in DOMAIN NewEmpty : NewEmpty[k].id # 0})
           c == CompactLookup(NewEmpty)
<1>1. IsSequence(NewEmpty) /\ Len(NewEmpty) = 0 /\ DOMAIN NewEmpty = 1 .. 0
  BY NoWord, SequenceFacts DEF NewEmpty
<1>2. LookupLen(NewEmpty) = 0 /\ ~IsError(NewEmpty)
  BY DEF LookupLen, IsError, NewEmpty
<1>3. Compact(NewEmpty) = c
  BY <1>2, CompactSplits
<1>4. IsCompact(c) /\ c.size = 0 /\ IsSequence(c.index) /\ Len(c.index) = 0
  <2>1. /\ IsCompact(c) /\ c.size = LookupLen(NewEmpty)
        /\ IsSequence(kept) /\ Len(c.index) = Len(kept)
        /\ \A k \in 1 .. Len(kept) : \E i \in DOMAIN NewEmpty : kept[k] = NewEmpty[i]
    BY <1>1, CompactLookupIs
  <2> HIDE DEF kept, c
  <2>2. Len(kept) \in Nat
    BY <2>1, SequenceFacts
  <2>3. Len(kept) = 0
    <3>1. SUFFICES ASSUME Len(kept) # 0 PROVE FALSE
      OBVIOUS
    <3>2. 1 \in 1 .. Len(kept)
      BY <2>2, <3>1
    <3> QED BY <1>1, <2>1, <3>2
  <2> QED BY <1>2, <2>1, <2>3 DEF IsCompact
<1> HIDE DEF c
<1>5. c.index = << >>
  <2>1. IsSequence(<< >>) /\ Len(<< >>) = 0
    BY NoWord
  <2>2. \A k \in 1 .. Len(c.index) : c.index[k] = << >>[k]
    BY <1>4
  <2> QED BY <1>4, <2>1, <2>2, SameSequence
<1>6. ~CompactIsError(c)
  BY <1>4, <1>5, U32MaxAssumption DEF CompactIsError
<1>7. Expand(c) = NewEmpty
  <2> DEFINE n == Len(c.index)
  <2>1. Begin(c)[1] = CompactItem(0, 0)
    BY <1>4, BeginIs
  <2>2. n + 1 = 1 /\ ~(Begin(c)[n + 1].start < c.size)
    BY <1>4, <2>1, ItemFields
  <2>3. Expand(c) = SubSeq(Entries(c), 1, (n + 1) - 1)
    BY <1>6, <2>2, ExpandIs, Zenon
  <2>4. (n + 1) - 1 = 0 /\ 1 \in Int /\ 0 \in Int /\ 0 < 1
    BY <1>4
  <2>5. Expand(c) = SubSeq(Entries(c), 1, 0)
    BY <2>3, <2>4, Zenon
  <2>6. SubSeq(Entries(c), 1, 0) = << >>
    BY <2>4, SubSeqEmpty
  <2> QED BY <2>5, <2>6, Zenon DEF NewEmpty
<1>8. c.size \in Nat /\ \A k \in 1 .. Len(c.index) : c.index[k].id \in Nat /\ c.index[k].start \in Nat
  BY <1>4
<1> QED BY <1>1, <1>2, <1>3, <1>4, <1>7, <1>8, Zenon DEF ReadsBack

\* The lookup of a header reads back as one with the same compact form.
LEMMA BlockLookupReadsBack ==
  ASSUME NEW lookup, IsBlockLookup(lookup)
  PROVE  ReadsBack(lookup)
BY LookupReadsBack, ErrorReadsBack, EmptyReadsBack DEF IsBlockLookup

-------------------------------------------------------------------------------
(***************************************************************************)
(* Headers that arrive.                                                    *)
(***************************************************************************)

WithLookup(h, lookup) == [h EXCEPT !.extension.app_lookup = lookup]

LEMMA WithLookupIs ==
  ASSUME NEW h, NEW lookup,
         h = [parent_hash |-> h.parent_hash, number |-> h.number, state_root |-> h.state_root,
              extrinsics_root |-> h.extrinsics_root, digest |-> h.digest, extension |-> h.extension],
         h.extension = Extension(h.extension.app_lookup, h.extension.rows, h.extension.cols,
                                 h.extension.data_root, h.extension.commitment)
  PROVE  WithLookup(h, lookup) =
           [parent_hash |-> h.parent_hash, number |-> h.number, state_root |-> h.state_root,
            extrinsics_root |-> h.extrinsics_root, digest |-> h.digest,
            extension |-> Extension(lookup, h.extension.rows, h.extension.cols,
                                    h.extension.data_root, h.extension.commitment)]
<1> DEFINE ext == h.extension
<1>1. [ext EXCEPT !.app_lookup = lookup]
        = Extension(lookup, ext.rows, ext.cols, ext.data_root, ext.commitment)
  <2>1. ext = Extension(ext.app_lookup, ext.rows, ext.cols, ext.data_root, ext.commitment)
    OBVIOUS
  <2> HIDE DEF ext
  <2> QED BY <2>1 DEF Extension
<1>2. WithLookup(h, lookup) = [h EXCEPT !.extension = [ext EXCEPT !.app_lookup = lookup]]
  BY DEF WithLookup
<1>3. h = [parent_hash |-> h.parent_hash, number |-> h.number, state_root |-> h.state_root,
           extrinsics_root |-> h.extrinsics_root, digest |-> h.digest, extension |-> ext]
  OBVIOUS
<1> HIDE DEF ext
<1>4. [h EXCEPT !.extension = [ext EXCEPT !.app_lookup = lookup]]
        = [parent_hash |-> h.parent_hash, number |-> h.number, state_root |-> h.state_root,
           extrinsics_root |-> h.extrinsics_root, digest |-> h.digest,
           extension |-> [ext EXCEPT !.app_lookup = lookup]]
  BY <1>3
<1> QED BY <1>1, <1>2, <1>4 DEF ext

LEMMA ExtensionFields ==
  ASSUME NEW l, NEW r, NEW c, NEW d, NEW k
  PROVE  LET ext == Extension(l, r, c, d, k)
         IN  /\ ext.app_lookup = l /\ ext.rows = r /\ ext.cols = c
             /\ ext.data_root = d /\ ext.commitment = k
BY DEF Extension

\* Another lookup changes nothing else of a header.
LEMMA WithLookupFields ==
  ASSUME NEW h, NEW lookup,
         h = [parent_hash |-> h.parent_hash, number |-> h.number, state_root |-> h.state_root,
              extrinsics_root |-> h.extrinsics_root, digest |-> h.digest, extension |-> h.extension],
         h.extension = Extension(h.extension.app_lookup, h.extension.rows, h.extension.cols,
                                 h.extension.data_root, h.extension.commitment)
  PROVE  LET g == WithLookup(h, lookup)
             ext == g.extension
         IN  /\ g = [parent_hash |-> g.parent_hash, number |-> g.number, state_root |-> g.state_root,
                     extrinsics_root |-> g.extrinsics_root, digest |-> g.digest, extension |-> ext]
             /\ ext = Extension(ext.app_lookup, ext.rows, ext.cols, ext.data_root, ext.commitment)
             /\ ext.app_lookup = lookup
             /\ g.parent_hash = h.parent_hash /\ g.number = h.number
             /\ g.state_root = h.state_root /\ g.extrinsics_root = h.extrinsics_root
             /\ g.digest = h.digest
             /\ ext.rows = h.extension.rows /\ ext.cols = h.extension.cols
             /\ ext.data_root = h.extension.data_root /\ ext.commitment = h.extension.commitment
<1> DEFINE g == WithLookup(h, lookup)
           old == h.extension
           new == Extension(lookup, old.rows, old.cols, old.data_root, old.commitment)
<1>1. g = [parent_hash |-> h.parent_hash, number |-> h.number, state_root |-> h.state_root,
           extrinsics_root |-> h.extrinsics_root, digest |-> h.digest, extension |-> new]
  BY WithLookupIs, Zenon
<1>2. /\ new.app_lookup = lookup /\ new.rows = old.rows /\ new.cols = old.cols
      /\ new.data_root = old.data_root /\ new.commitment = old.commitment
  BY ExtensionFields
<1>3. new = Extension(new.app_lookup, new.rows, new.cols, new.data_root, new.commitment)
  BY <1>2, Zenon
<1> HIDE DEF g, new
<1>4. /\ g.parent_hash = h.parent_hash /\ g.number = h.number
      /\ g.state_root = h.state_root /\ g.extrinsics_root = h.extrinsics_root
      /\ g.digest = h.digest /\ g.extension = new
  BY <1>1
<1>5. g = [parent_hash |-> g.parent_hash, number |-> g.number, state_root |-> g.state_root,
           extrinsics_root |-> g.extrinsics_root, digest |-> g.digest, extension |-> g.extension]
  BY <1>1, <1>4, Zenon
<1> QED BY <1>2, <1>3, <1>4, <1>5 DEF g

LEMMA FromWireIs ==
  ASSUME NEW wire
  PROVE  LET c == wire.extension.app_lookup
             fits == /\ ~(wire.number > U32Max)
                     /\ CompactIsError(c) \/ LookupLen(Expand(c)) = c.size
         IN  /\ fits => FromWire(wire) = [ok |-> TRUE, header |-> WithLookup(wire, Expand(c))]
             /\ ~fits => FromWire(wire) = [ok |-> FALSE]
BY Zenon DEF FromWire, WithLookup, Unreadable

\* What is read of a header that arrived is a header, with all its fields but the
\* lookup as they were sent.
LEMMA ReadHeader ==
  ASSUME NEW wire, IsHeader(wire), FromWire(wire).ok
  PROVE  LET h == FromWire(wire).header
         IN  Encodable(h) /\ IsSequence(h.extension.app_lookup)
<1> DEFINE h == WithLookup(wire, Expand(wire.extension.app_lookup))
           ext == h.extension
<1>1. /\ wire = [parent_hash |-> wire.parent_hash, number |-> wire.number,
                 state_root |-> wire.state_root, extrinsics_root |-> wire.extrinsics_root,
                 digest |-> wire.digest, extension |-> wire.extension]
      /\ wire.extension = Extension(wire.extension.app_lookup, wire.extension.rows,
                                    wire.extension.cols, wire.extension.data_root,
                                    wire.extension.commitment)
      /\ IsHash(wire.parent_hash) /\ IsHash(wire.state_root) /\ IsHash(wire.extrinsics_root)
      /\ IsHash(wire.extension.data_root)
      /\ IsSequence(wire.digest) /\ IsSequence(wire.extension.commitment)
      /\ IsSequence(wire.extension.app_lookup.index)
  BY DEF IsHeader
<1>2. FromWire(wire) = [ok |-> TRUE, header |-> h]
  <2> HIDE DEF h
  <2>1. FromWire(wire) = [ok |-> TRUE, header |-> h] \/ FromWire(wire) = [ok |-> FALSE]
    BY FromWireIs, Zenon DEF h
  <2> QED BY <2>1
<1>3. FromWire(wire).header = h
  <2> HIDE DEF h
  <2> QED BY <1>2
<1>4. IsSequence(Expand(wire.extension.app_lookup))
  BY <1>1, ExpandIsSequence
<1>5. /\ h = [parent_hash |-> h.parent_hash, number |-> h.number, state_root |-> h.state_root,
              extrinsics_root |-> h.extrinsics_root, digest |-> h.digest, extension |-> ext]
      /\ ext = Extension(ext.app_lookup, ext.rows, ext.cols, ext.data_root, ext.commitment)
      /\ ext.app_lookup = Expand(wire.extension.app_lookup)
      /\ h.parent_hash = wire.parent_hash
      /\ h.state_root = wire.state_root /\ h.extrinsics_root = wire.extrinsics_root
      /\ h.digest = wire.digest
      /\ ext.data_root = wire.extension.data_root /\ ext.commitment = wire.extension.commitment
  BY <1>1, WithLookupFields
<1> HIDE DEF h
<1>6. IsSequence(ext.app_lookup) /\ IsCompact(Compact(ext.app_lookup))
  BY <1>4, <1>5, CompactOfSequence
<1>7. Encodable(h)
  <2>1. /\ IsHash(h.parent_hash) /\ IsHash(h.state_root) /\ IsHash(h.extrinsics_root)
        /\ IsHash(ext.data_root) /\ IsSequence(h.digest) /\ IsSequence(ext.commitment)
    BY <1>1, <1>5
  <2> QED BY <1>5, <1>6, <2>1, Zenon DEF Encodable
<1> QED BY <1>3, <1>6, <1>7

\* The hash covers the lookup by its compact form.
LEMMA HashOverCompact ==
  ASSUME NEW h, Encodable(h), NEW lookup, Compact(lookup) = Compact(h.extension.app_lookup)
  PROVE  HashOf(WithLookup(h, lookup)) = HashOf(h)
<1> DEFINE g == WithLookup(h, lookup)
<1>1. /\ g.parent_hash = h.parent_hash /\ g.number = h.number
      /\ g.state_root = h.state_root /\ g.extrinsics_root = h.extrinsics_root
      /\ g.digest = h.digest /\ g.extension.app_lookup = lookup
      /\ g.extension.rows = h.extension.rows /\ g.extension.cols = h.extension.cols
      /\ g.extension.data_root = h.extension.data_root
      /\ g.extension.commitment = h.extension.commitment
  BY WithLookupFields DEF Encodable
<1> HIDE DEF g
<1>2. EncodeFields(g) = EncodeFields(h)
  BY <1>1, Zenon DEF EncodeFields
<1>3. EncodeExtension(g.extension) = EncodeExtension(h.extension)
  BY <1>1, Zenon DEF EncodeExtension
<1>4. HashOf(g) = HashOf(h)
  BY <1>1, <1>2, <1>3, Zenon DEF HashOf, EncodeHeader
<1> QED BY <1>4 DEF g

LEMMA ToWireFields ==
  ASSUME NEW h, Encodable(h)
  PROVE  LET w == ToWire(h)
             ext == w.extension
         IN  /\ w = [parent_hash |-> w.parent_hash, number |-> w.number, state_root |-> w.state_root,
                     extrinsics_root |-> w.extrinsics_root, digest |-> w.digest, extension |-> ext]
             /\ ext = Extension(ext.app_lookup, ext.rows, ext.cols, ext.data_root, ext.commitment)
             /\ ext.app_lookup = Compact(h.extension.app_lookup)
             /\ w.parent_hash = h.parent_hash /\ w.number = h.number
             /\ w.state_root = h.state_root /\ w.extrinsics_root = h.extrinsics_root
             /\ w.digest = h.digest
             /\ ext.rows = h.extension.rows /\ ext.cols = h.extension.cols
             /\ ext.data_root = h.extension.data_root /\ ext.commitment = h.extension.commitment
<1> DEFINE c == Compact(h.extension.app_lookup)
<1>1. ToWire(h) = WithLookup(h, c)
  BY Zenon, ToWireIs, WithLookupIs DEF Encodable
<1> HIDE DEF c
<1> QED BY <1>1, WithLookupFields DEF Encodable, c

\* A header that arrives as it was sent is readable, and has its hash.
THEOREM SentHeaderIsRead ==
  ASSUME NEW h, Encodable(h), IsBlockLookup(h.extension.app_lookup),
         h.number \in 0 .. U32Max, h.extension.rows \in Nat, h.extension.cols \in Nat
  PROVE  /\ IsHeader(ToWire(h)) /\ FromWire(ToWire(h)).ok
         /\ HashOf(FromWire(ToWire(h)).header) = HashOf(h)
<1> DEFINE w == ToWire(h)
           c == Compact(h.extension.app_lookup)
           x == Expand(c)
<1>1. /\ IsSequence(h.extension.app_lookup) /\ c.size \in Nat /\ IsSequence(c.index)
      /\ \A k \in 1 .. Len(c.index) : c.index[k].id \in Nat /\ c.index[k].start \in Nat
      /\ Compact(x) = c
      /\ CompactIsError(c) \/ LookupLen(x) = c.size
  BY BlockLookupReadsBack DEF ReadsBack
<1>2. /\ w = [parent_hash |-> w.parent_hash, number |-> w.number, state_root |-> w.state_root,
              extrinsics_root |-> w.extrinsics_root, digest |-> w.digest, extension |-> w.extension]
      /\ w.extension = Extension(w.extension.app_lookup, w.extension.rows, w.extension.cols,
                                 w.extension.data_root, w.extension.commitment)
      /\ w.extension.app_lookup = c
      /\ w.parent_hash = h.parent_hash /\ w.number = h.number
      /\ w.state_root = h.state_root /\ w.extrinsics_root = h.extrinsics_root
      /\ w.digest = h.digest
      /\ w.extension.rows = h.extension.rows /\ w.extension.cols = h.extension.cols
      /\ w.extension.data_root = h.extension.data_root
      /\ w.extension.commitment = h.extension.commitment
  BY ToWireFields
<1>3. ~(h.number > U32Max) /\ h.number \in Nat
  BY U32MaxAssumption
<1>4. w = WithLookup(h, c)
  BY Zenon, ToWireIs, WithLookupIs DEF Encodable
<1> HIDE DEF w, c, x
<1>5. FromWire(w) = [ok |-> TRUE, header |-> WithLookup(w, x)]
  BY <1>1, <1>2, <1>3, FromWireIs, Zenon DEF x
<1>6. WithLookup(w, x) = WithLookup(h, x)
  <2>1. WithLookup(w, x)
          = [parent_hash |-> w.parent_hash, number |-> w.number, state_root |-> w.state_root,
             extrinsics_root |-> w.extrinsics_root, digest |-> w.digest,
             extension |-> Extension(x, w.extension.rows, w.extension.cols,
                                     w.extension.data_root, w.extension.commitment)]
    BY <1>2, WithLookupIs, Zenon
  <2>2. WithLookup(h, x)
          = [parent_hash |-> h.parent_hash, number |-> h.number, state_root |-> h.state_root,
             extrinsics_root |-> h.extrinsics_root, digest |-> h.digest,
             extension |-> Extension(x, h.extension.rows, h.extension.cols,
                                     h.extension.data_root, h.extension.commitment)]
    BY WithLookupIs, Zenon DEF Encodable
  <2> QED BY <1>2, <2>1, <2>2, Zenon
<1>7. HashOf(WithLookup(h, x)) = HashOf(h)
  BY <1>1, HashOverCompact, Zenon DEF c
<1>8. FromWire(w).ok /\ FromWire(w).header = WithLookup(w, x)
  <2> DEFINE g == WithLookup(w, x)
  <2>1. FromWire(w) = [ok |-> TRUE, header |-> g]
    BY <1>5
  <2> HIDE DEF g
  <2>2. FromWire(w).ok /\ FromWire(w).header = g
    BY <2>1
  <2> QED BY <2>2 DEF g
<1>9. IsHeader(w)
  <2>1. /\ IsHash(w.parent_hash) /\ IsHash(w.state_root) /\ IsHash(w.extrinsics_root)
        /\ IsHash(w.extension.data_root) /\ IsSequence(w.digest)
        /\ IsSequence(w.extension.commitment)
    BY <1>2 DEF Encodable
  <2>2. /\ w.number \in Nat /\ w.extension.rows \in Nat /\ w.extension.cols \in Nat
        /\ w.extension.app_lookup.size \in Nat /\ IsSequence(w.extension.app_lookup.index)
    BY <1>1, <1>2, <1>3
  <2>3. \A k \in DOMAIN w.extension.app_lookup.index :
          /\ w.extension.app_lookup.index[k].id \in Nat
          /\ w.extension.app_lookup.index[k].start \in Nat
    <3>1. DOMAIN c.index = 1 .. Len(c.index)
      BY <1>1, SequenceFacts
    <3> QED BY <1>1, <1>2, <3>1
  <2>4. /\ \A hash \in {w.parent_hash, w.state_root, w.extrinsics_root, w.extension.data_root} :
             IsHash(hash)
        /\ \A n \in {w.number, w.extension.rows, w.extension.cols, w.extension.app_lookup.size} :
             n \in Nat
    BY <2>1, <2>2
  <2> QED BY <1>2, <2>1, <2>2, <2>3, <2>4, Zenon DEF IsHeader
<1> QED BY <1>6, <1>7, <1>8, <1>9 DEF w

-------------------------------------------------------------------------------
(***************************************************************************)
(* Transactions and the leaves they become.                                *)
(***************************************************************************)

\* The transactions of a block, each of them named by its place.
Carries(txs, number) ==
  /\ IsSequence(txs) /\ Len(txs) <= MaxTxs
  /\ \A i \in DOMAIN txs : \E tx \in Txs : txs[i] = Included(tx, number, i - 1)

LEMMA AddressedFields ==
  ASSUME NEW msg, NEW from, NEW to, NEW origin, NEW dest, NEW id
  PROVE  LET m == AddressedMessage(msg, from, to, origin, dest, id)
         IN  /\ m.message = msg /\ m.from = from /\ m.to = to /\ m.origin_domain = origin
             /\ m.destination_domain = dest /\ m.id = id
BY DEF AddressedMessage

LEMMA WithIdIs ==
  ASSUME NEW m, IsAddressed(m), NEW id
  PROVE  [m EXCEPT !.id = id]
           = AddressedMessage(m.message, m.from, m.to, m.origin_domain, m.destination_domain, id)
<1>1. m = AddressedMessage(m.message, m.from, m.to, m.origin_domain, m.destination_domain, m.id)
  BY DEF IsAddressed
<1> QED BY <1>1 DEF AddressedMessage

LEMMA WithIdFields ==
  ASSUME NEW m, IsAddressed(m), NEW id
  PROVE  /\ IsAddressed([m EXCEPT !.id = id]) /\ [m EXCEPT !.id = id].id = id
         /\ [[m EXCEPT !.id = id] EXCEPT !.id = m.id] = m
<1> DEFINE n == [m EXCEPT !.id = id]
<1>1. n = AddressedMessage(m.message, m.from, m.to, m.origin_domain, m.destination_domain, id)
  BY WithIdIs
<1> HIDE DEF n
<1>2. /\ n.message = m.message /\ n.from = m.from /\ n.to = m.to
      /\ n.origin_domain = m.origin_domain /\ n.destination_domain = m.destination_domain
      /\ n.id = id
  BY <1>1, AddressedFields
<1>3. n = AddressedMessage(n.message, n.from, n.to, n.origin_domain, n.destination_domain, n.id)
  BY <1>1, <1>2, Zenon
<1>4. IsMessage(n.message)
  BY <1>2 DEF IsAddressed
<1>5. IsAddressed(n)
  BY <1>3, <1>4, Zenon DEF IsAddressed
<1>6. [n EXCEPT !.id = m.id]
        = AddressedMessage(n.message, n.from, n.to, n.origin_domain, n.destination_domain, m.id)
  BY <1>5, WithIdIs, Zenon
<1>7. m = AddressedMessage(m.message, m.from, m.to, m.origin_domain, m.destination_domain, m.id)
  BY DEF IsAddressed
<1>8. [n EXCEPT !.id = m.id] = m
  BY <1>2, <1>6, <1>7, Zenon
<1> QED BY <1>2, <1>5, <1>8 DEF n

\* An included transaction is the one that was submitted, with an identifier.
LEMMA IncludedIs ==
  ASSUME NEW tx \in Txs, NEW number, NEW index
  PROVE  LET t == Included(tx, number, index)
         IN  /\ t.trie = tx.trie /\ t.blob = tx.blob
             /\ t.trie \in {"DataSubmit", "Bridge"} /\ IsSequence(t.blob)
             /\ IsAddressed(t.message) /\ t.message.id = TxUid(number, index)
             /\ Content(t.message) = tx.message
<1> DEFINE t == Included(tx, number, index)
           id == TxUid(number, index)
           m == tx.message
           n == [m EXCEPT !.id = id]
<1>1. /\ tx = [trie |-> tx.trie, blob |-> tx.blob, message |-> m]
      /\ tx.trie \in {"DataSubmit", "Bridge"} /\ IsSequence(tx.blob)
      /\ IsAddressed(m) /\ m.id = 0
  BY TxsAssumption
<1>2. t = [tx EXCEPT !.message = n]
  BY DEF Included
<1> HIDE DEF m, id
<1>3. IsAddressed(n) /\ n.id = id
  BY <1>1, WithIdFields
<1>4. [n EXCEPT !.id = 0] = m
  <2>1. [n EXCEPT !.id = m.id] = m
    BY <1>1, WithIdFields
  <2> QED BY <1>1, <2>1, Zenon
<1> HIDE DEF n, t
<1>5. t.trie = tx.trie /\ t.blob = tx.blob /\ t.message = n
  BY <1>1, <1>2
<1>6. Content(t.message) = m
  BY <1>4, <1>5 DEF Content, n
<1> QED BY <1>1, <1>3, <1>5, <1>6 DEF t, m, id

\* What is known of a transaction of a block.
LEMMA TxFacts ==
  ASSUME NEW txs, NEW number, Carries(txs, number), NEW i \in DOMAIN txs
  PROVE  /\ txs[i].trie \in {"DataSubmit", "Bridge"} /\ IsSequence(txs[i].blob)
         /\ IsAddressed(txs[i].message) /\ txs[i].message.id = TxUid(number, i - 1)
         /\ \E tx \in Txs : Content(txs[i].message) = tx.message
<1>1. PICK tx \in Txs : txs[i] = Included(tx, number, i - 1)
  BY DEF Carries
<1> QED BY <1>1, IncludedIs

LEMMA LeafIs ==
  ASSUME NEW tx, IsAddressed(tx.message)
  PROVE  Len(LeafOf(tx)) # 2
<1>1. LeafOf(tx) = Keccak(tx.blob) \/ LeafOf(tx) = AbiEncode(tx.message)
  BY Zenon DEF LeafOf
<1>2. Len(Keccak(tx.blob)) # 2
  BY HashIsHash, HashWidth
<1>3. Len(AbiEncode(tx.message)) # 2
  BY AbiEncodeIs
<1> QED BY <1>1, <1>2, <1>3, Zenon

\* The leaves of a trie are those of its transactions, and none is two hashes.
LEMMA LeavesAre ==
  ASSUME NEW txs, NEW number, Carries(txs, number), NEW trie
  PROVE  LET leaves == Leaves(txs, trie)
         IN  /\ IsLeaves(leaves) /\ DOMAIN leaves = 1 .. Len(InTrie(txs, trie))
             /\ Len(leaves) = Len(InTrie(txs, trie))
             /\ \A k \in DOMAIN leaves :
                  \E i \in DOMAIN txs : txs[i].trie = trie /\ leaves[k] = LeafOf(txs[i])
<1> DEFINE leaves == Leaves(txs, trie)
           kept == InTrie(txs, trie)
           at == OfTrie(txs, trie)
<1>1. IsSequence(txs) /\ Len(txs) \in Nat /\ DOMAIN txs = 1 .. Len(txs)
  BY SequenceFacts DEF Carries
<1>2. PicksFrom(txs, at, Len(txs), kept)
  <2>1. Len(txs) \in 0 .. Len(txs)
    BY <1>1
  <2> HIDE DEF at
  <2> QED BY <1>1, <2>1, FilterPicks DEF InTrie, Filtered, at
<1>3. leaves = [k \in DOMAIN kept |-> LeafOf(kept[k])]
  BY DEF Leaves
<1> HIDE DEF leaves, kept
<1>4. IsSequence(kept) /\ Len(kept) \in Nat /\ DOMAIN kept = 1 .. Len(kept)
  BY <1>2, SequenceFacts DEF PicksFrom
<1>5. IsSequence(leaves) /\ Len(leaves) = Len(kept) /\ DOMAIN leaves = 1 .. Len(kept)
  <2>1. leaves = [k \in 1 .. Len(kept) |-> leaves[k]]
    BY <1>3, <1>4
  <2> QED BY <1>4, <2>1, SequenceFrom
<1>6. ASSUME NEW k \in DOMAIN leaves
      PROVE  \E i \in DOMAIN txs : txs[i].trie = trie /\ leaves[k] = LeafOf(txs[i])
  <2>1. k \in 1 .. Len(kept) /\ leaves[k] = LeafOf(kept[k])
    BY <1>3, <1>4, <1>5
  <2>2. PICK i \in 1 .. Len(txs) : i \in at /\ kept[k] = txs[i]
    BY <1>2, <2>1 DEF PicksFrom
  <2> QED BY <1>1, <2>1, <2>2 DEF OfTrie
<1>7. ASSUME NEW k \in DOMAIN leaves PROVE Len(leaves[k]) # 2
  <2>1. PICK i \in DOMAIN txs : leaves[k] = LeafOf(txs[i])
    BY <1>6
  <2>2. IsAddressed(txs[i].message)
    BY TxFacts
  <2> QED BY <2>1, <2>2, LeafIs
<1> QED BY <1>5, <1>6, <1>7 DEF IsLeaves, leaves, kept

\* A transaction finds its leaf at the place its proof names.
LEMMA LeafPlace ==
  ASSUME NEW txs, NEW number, Carries(txs, number), NEW i \in DOMAIN txs
  PROVE  LET trie == txs[i].trie
             index == Len(FilteredUpTo(txs, OfTrie(txs, trie))[i - 1])
             leaves == Leaves(txs, trie)
         IN  /\ IsLeaves(leaves) /\ leaves # << >> /\ index \in 0 .. (Len(leaves) - 1)
             /\ leaves[index + 1] = LeafOf(txs[i])
<1> DEFINE trie == txs[i].trie
           at == OfTrie(txs, trie)
           index == Len(FilteredUpTo(txs, at)[i - 1])
           leaves == Leaves(txs, trie)
           kept == InTrie(txs, trie)
<1>1. IsSequence(txs) /\ Len(txs) \in Nat /\ DOMAIN txs = 1 .. Len(txs)
  BY SequenceFacts DEF Carries
<1>2. i \in 1 .. Len(txs) /\ i \in at
  BY <1>1 DEF OfTrie
<1>3. index \in Nat /\ index + 1 \in 1 .. Len(kept) /\ kept[index + 1] = txs[i]
  <2> HIDE DEF at
  <2> QED BY <1>1, <1>2, FilterKeeps DEF InTrie, at
<1>4. IsLeaves(leaves) /\ Len(leaves) = Len(kept) /\ DOMAIN leaves = 1 .. Len(kept)
  BY LeavesAre
<1>5. leaves = [k \in DOMAIN kept |-> LeafOf(kept[k])]
  BY DEF Leaves
<1> HIDE DEF index, leaves, kept
<1>6. Len(kept) \in Nat
  BY <1>4, SequenceFacts DEF IsLeaves
<1>7. index \in 0 .. (Len(leaves) - 1) /\ leaves # << >>
  BY <1>3, <1>4, <1>6, NoWord
<1>8. leaves[index + 1] = LeafOf(txs[i])
  BY <1>3, <1>4, <1>5
<1> QED BY <1>4, <1>7, <1>8 DEF index, leaves

-------------------------------------------------------------------------------
(***************************************************************************)
(* What a response convinces a client of.                                  *)
(***************************************************************************)

\* The roots of a block are hashes, and the root in its header determines both.
LEMMA RootsAre ==
  ASSUME NEW txs, NEW number, Carries(txs, number)
  PROVE  /\ RootsOf(txs).blob_root = MerkleRoot(Leaves(txs, "DataSubmit"))
         /\ RootsOf(txs).bridge_root = MerkleRoot(Leaves(txs, "Bridge"))
         /\ IsHash(RootsOf(txs).blob_root) /\ IsHash(RootsOf(txs).bridge_root)
         /\ IsHash(RootsOf(txs).data_root)
         /\ RootsOf(txs).data_root = Keccak(RootsOf(txs).blob_root \o RootsOf(txs).bridge_root)
<1> DEFINE a == MerkleRoot(Leaves(txs, "DataSubmit"))
           b == MerkleRoot(Leaves(txs, "Bridge"))
           r == RootsOf(txs)
<1>1. ASSUME NEW trie PROVE IsHash(MerkleRoot(Leaves(txs, trie)))
  <2> DEFINE leaves == Leaves(txs, trie)
  <2>1. IsSequence(leaves)
    BY LeavesAre DEF IsLeaves
  <2> HIDE DEF leaves
  <2>2. IsHash(MerkleRoot(leaves))
    <3>1. CASE leaves = << >>
      BY <3>1, HashIsHash DEF MerkleRoot
    <3>2. CASE leaves # << >>
      BY <2>1, <3>2, RootIsNode, NodesHavePreimages
    <3> QED BY <3>1, <3>2
  <2> QED BY <2>2 DEF leaves
<1>2. r = TxDataRoots(a, b)
  BY DEF RootsOf
<1>3. IsHash(a) /\ IsHash(b) /\ IsHash(Keccak(a \o b))
  BY <1>1, HashIsHash
<1> HIDE DEF a, b, r
<1>4. r.blob_root = a /\ r.bridge_root = b /\ r.data_root = Keccak(a \o b)
  BY <1>2 DEF TxDataRoots
<1> QED BY <1>3, <1>4, Zenon DEF a, b, r

LEMMA RootsInjective ==
  ASSUME NEW a, NEW b, NEW c, NEW d, IsHash(a), IsHash(b), IsHash(c), IsHash(d),
         TxDataRoots(a, b).data_root = TxDataRoots(c, d).data_root
  PROVE  a = c /\ b = d
<1>1. Keccak(a \o b) = Keccak(c \o d)
  <2>1. /\ TxDataRoots(a, b).data_root = Keccak(a \o b)
        /\ TxDataRoots(c, d).data_root = Keccak(c \o d)
    BY DEF TxDataRoots
  <2> QED BY <2>1, Zenon
<1>2. a \o b = c \o d
  BY <1>1, KeccakInjective
<1>3. a = c
  BY <1>2, HashesSplitLeft, Zenon
<1>4. b = d
  BY <1>2, HashesSplitRight, Zenon
<1> QED BY <1>3, <1>4

\* The leaf that the client checks, and the proof it checks it with.
ShownLeaf(r) == IF r.trie = "DataSubmit" THEN r.data_proof.leaf ELSE AbiEncode(r.message)

LEMMA ConvincingIs ==
  ASSUME NEW header, NEW r
  PROVE  Convincing(header, r) <=>
           /\ header.extension.data_root
                = TxDataRoots(r.data_proof.roots.blob_root, r.data_proof.roots.bridge_root).data_root
           /\ r.trie = "DataSubmit" => r.data_proof.leaf = Keccak(r.blob)
           /\ r.trie # "DataSubmit" => r.data_proof.leaf = Keccak(AbiEncode(r.message))
           /\ VerifyProof(AsSubMerkleProof(r.data_proof, r.trie, ShownLeaf(r)))
BY Zenon DEF Convincing, ShownLeaf

\* A response that convinces a client of a block shows one of its transactions:
\* a blob that was submitted, or the message that was sent.
LEMMA ConvincingIsGenuine ==
  ASSUME NEW txs, NEW number, Carries(txs, number), NEW r, IsResponse(r), NEW header,
         header.extension.data_root = RootsOf(txs).data_root, Convincing(header, r)
  PROVE  \E i \in DOMAIN txs :
           /\ txs[i].trie = r.trie
           /\ r.trie = "DataSubmit" => txs[i].blob = r.blob
           /\ r.trie = "Bridge" => txs[i].message = r.message
<1> DEFINE p == r.data_proof
           leaves == Leaves(txs, r.trie)
           m == AsSubMerkleProof(p, r.trie, ShownLeaf(r))
<1>1. /\ r.trie \in {"DataSubmit", "Bridge"} /\ IsAddressed(r.message)
      /\ IsHash(p.roots.blob_root) /\ IsHash(p.roots.bridge_root) /\ IsHash(p.leaf)
      /\ IsSequence(p.proof) /\ \A k \in DOMAIN p.proof : IsHash(p.proof[k])
  BY DEF IsResponse, IsDataProof
<1>2. /\ RootsOf(txs).data_root = TxDataRoots(p.roots.blob_root, p.roots.bridge_root).data_root
      /\ r.trie = "DataSubmit" => p.leaf = Keccak(r.blob)
      /\ VerifyProof(m)
  BY ConvincingIs
<1>3. /\ p.roots.blob_root = MerkleRoot(Leaves(txs, "DataSubmit"))
      /\ p.roots.bridge_root = MerkleRoot(Leaves(txs, "Bridge"))
  <2> DEFINE a == MerkleRoot(Leaves(txs, "DataSubmit"))
             b == MerkleRoot(Leaves(txs, "Bridge"))
  <2>1. RootsOf(txs) = TxDataRoots(a, b)
    BY DEF RootsOf
  <2>2. IsHash(a) /\ IsHash(b)
    BY RootsAre
  <2> HIDE DEF a, b
  <2>3. TxDataRoots(a, b).data_root = TxDataRoots(p.roots.blob_root, p.roots.bridge_root).data_root
    BY <1>2, <2>1
  <2>4. p.roots.blob_root = a /\ p.roots.bridge_root = b
    BY <1>1, <2>2, <2>3, RootsInjective
  <2> QED BY <2>4 DEF a, b
<1>4. /\ m.root = MerkleRoot(leaves) /\ m.proof = p.proof /\ m.leaf = ShownLeaf(r)
  <2>1. /\ m.root = IF r.trie = "DataSubmit" THEN p.roots.blob_root ELSE p.roots.bridge_root
        /\ m.proof = p.proof /\ m.leaf = ShownLeaf(r)
    BY DEF AsSubMerkleProof
  <2>2. CASE r.trie = "DataSubmit"
    BY <1>3, <2>1, <2>2, Zenon
  <2>3. CASE r.trie = "Bridge"
    <3>1. r.trie # "DataSubmit"
      BY <2>3
    <3> QED BY <1>3, <2>1, <2>3, <3>1, Zenon
  <2> QED BY <1>1, <2>2, <2>3
<1>5. Len(ShownLeaf(r)) # 2
  <2>1. Len(p.leaf) # 2
    BY <1>1, HashWidth
  <2>2. Len(AbiEncode(r.message)) # 2
    BY <1>1, AbiEncodeIs
  <2> QED BY <2>1, <2>2, Zenon DEF ShownLeaf
<1>6. /\ IsLeaves(leaves)
      /\ \A k \in DOMAIN leaves :
           \E i \in DOMAIN txs : txs[i].trie = r.trie /\ leaves[k] = LeafOf(txs[i])
  BY LeavesAre
<1> HIDE DEF m, leaves
<1>7. PICK k \in DOMAIN leaves : m.leaf = leaves[k]
  <2>1. /\ IsSequence(m.proof) /\ \A k \in DOMAIN m.proof : IsHash(m.proof[k])
        /\ Len(m.leaf) # 2
    BY <1>1, <1>4, <1>5, Zenon
  <2> QED BY <1>2, <1>4, <1>6, <2>1, ProofIsSound
<1>8. PICK i \in DOMAIN txs : txs[i].trie = r.trie /\ leaves[k] = LeafOf(txs[i])
  BY <1>6, <1>7
<1>9. ShownLeaf(r) = LeafOf(txs[i])
  BY <1>4, <1>7, <1>8
<1>10. ASSUME r.trie = "DataSubmit" PROVE txs[i].blob = r.blob
  <2>1. LeafOf(txs[i]) = Keccak(txs[i].blob) /\ ShownLeaf(r) = p.leaf
    BY <1>8, <1>10, Zenon DEF LeafOf, ShownLeaf
  <2>2. Keccak(txs[i].blob) = Keccak(r.blob)
    BY <1>2, <1>9, <1>10, <2>1
  <2> QED BY <2>2, KeccakInjective
<1>11. ASSUME r.trie = "Bridge" PROVE txs[i].message = r.message
  <2>1. r.trie # "DataSubmit" /\ txs[i].trie # "DataSubmit"
    BY <1>8, <1>11
  <2>2. LeafOf(txs[i]) = AbiEncode(txs[i].message) /\ ShownLeaf(r) = AbiEncode(r.message)
    BY <2>1, Zenon DEF LeafOf, ShownLeaf
  <2>3. IsAddressed(txs[i].message)
    BY TxFacts
  <2>4. AbiEncode(txs[i].message) = AbiEncode(r.message)
    BY <1>9, <2>2
  <2> QED BY <1>1, <2>3, <2>4, AbiEncodeInjective
<1> QED BY <1>8, <1>10, <1>11

\* What a node answers for a transaction convinces the clients of its block.
LEMMA AnswerIsConvincing ==
  ASSUME NEW txs, NEW number, Carries(txs, number), NEW i \in DOMAIN txs, NEW header,
         header.extension.data_root = RootsOf(txs).data_root
  PROVE  IsResponse(ResponseFor(txs, i)) /\ Convincing(header, ResponseFor(txs, i))
<1> DEFINE trie == txs[i].trie
           index == Len(FilteredUpTo(txs, OfTrie(txs, trie))[i - 1])
           leaves == Leaves(txs, trie)
           mp == MerkleProof(leaves, index)
           p == DataProof(trie, RootsOf(txs), mp)
           r == ResponseFor(txs, i)
           m == AsSubMerkleProof(p, trie, LeafOf(txs[i]))
<1>1. /\ trie \in {"DataSubmit", "Bridge"} /\ IsSequence(txs[i].blob)
      /\ IsAddressed(txs[i].message)
  BY TxFacts
<1>2. /\ IsLeaves(leaves) /\ leaves # << >> /\ index \in 0 .. (Len(leaves) - 1)
      /\ leaves[index + 1] = LeafOf(txs[i])
  BY LeafPlace
<1>3. /\ mp.root = MerkleRoot(leaves) /\ mp.leaf_index = index
      /\ mp.number_of_leaves = Len(leaves) /\ mp.leaf = leaves[index + 1]
  BY DEF MerkleProof
<1>4. /\ p.roots = RootsOf(txs) /\ p.proof = mp.proof /\ p.leaf_index = mp.leaf_index
      /\ p.number_of_leaves = mp.number_of_leaves
      /\ p.leaf = IF trie = "DataSubmit" THEN mp.leaf ELSE Keccak(mp.leaf)
  BY DEF DataProof
<1>5. r.data_proof = p /\ r.trie = trie /\ r.blob = txs[i].blob /\ r.message = txs[i].message
  BY DEF ResponseFor
<1>6. /\ IsHash(RootsOf(txs).blob_root) /\ IsHash(RootsOf(txs).bridge_root)
      /\ RootsOf(txs).blob_root = MerkleRoot(Leaves(txs, "DataSubmit"))
      /\ RootsOf(txs).bridge_root = MerkleRoot(Leaves(txs, "Bridge"))
  BY RootsAre
<1>7. /\ m.root = IF trie = "DataSubmit" THEN p.roots.blob_root ELSE p.roots.bridge_root
      /\ m.proof = p.proof /\ m.leaf = LeafOf(txs[i]) /\ m.leaf_index = p.leaf_index
      /\ m.number_of_leaves = p.number_of_leaves
  BY DEF AsSubMerkleProof
<1>8. m.root = MerkleRoot(leaves)
  <2>1. CASE trie = "DataSubmit"
    <3>1. m.root = p.roots.blob_root
      BY <1>7, <2>1
    <3> QED BY <1>4, <1>6, <2>1, <3>1
  <2>2. CASE trie = "Bridge"
    <3>1. m.root = p.roots.bridge_root
      BY <1>7, <2>2
    <3> QED BY <1>4, <1>6, <2>2, <3>1
  <2> QED BY <1>1, <2>1, <2>2
<1> HIDE DEF trie, index, leaves, p, r, m
<1>9. /\ IsSequence(m.proof) /\ \A k \in DOMAIN m.proof : IsHash(m.proof[k])
      /\ VerifyProof(m)
  <2>1. /\ m.proof = MerkleProof(leaves, index).proof /\ m.leaf = leaves[index + 1]
        /\ m.leaf_index = index /\ m.number_of_leaves = Len(leaves) /\ IsSequence(leaves)
    BY <1>2, <1>3, <1>4, <1>7, Zenon DEF IsLeaves
  <2> QED BY <1>2, <1>8, <2>1, ProofIsComplete
<1>10. /\ trie = "DataSubmit" => p.leaf = Keccak(txs[i].blob) /\ p.leaf = LeafOf(txs[i])
       /\ trie # "DataSubmit" => /\ p.leaf = Keccak(AbiEncode(txs[i].message))
                                 /\ AbiEncode(txs[i].message) = LeafOf(txs[i])
  BY <1>2, <1>3, <1>4, Zenon DEF LeafOf, trie
<1>11. IsHash(p.leaf)
  BY <1>10, HashIsHash
<1>12. IsResponse(r)
  <2>1. index \in Nat /\ Len(leaves) \in Nat
    BY <1>2, SequenceFacts DEF IsLeaves
  <2>2. IsDataProof(p)
    <3>1. p.leaf_index \in Nat /\ p.number_of_leaves \in Nat
      BY <1>3, <1>4, <2>1, Zenon
    <3>2. IsSequence(p.proof) /\ \A k \in DOMAIN p.proof : IsHash(p.proof[k])
      BY <1>7, <1>9, Zenon
    <3>3. IsHash(p.roots.blob_root) /\ IsHash(p.roots.bridge_root)
      BY <1>4, <1>6, Zenon
    <3> QED BY <1>11, <3>1, <3>2, <3>3 DEF IsDataProof
  <2> QED BY <1>1, <1>5, <2>2, Zenon DEF IsResponse
<1>13. Convincing(header, r)
  <2>1. header.extension.data_root
          = TxDataRoots(r.data_proof.roots.blob_root, r.data_proof.roots.bridge_root).data_root
    <3>1. RootsOf(txs) = TxDataRoots(RootsOf(txs).blob_root, RootsOf(txs).bridge_root)
      BY <1>6, Zenon DEF RootsOf
    <3> QED BY <1>4, <1>5, <3>1, Zenon
  <2>2. ShownLeaf(r) = LeafOf(txs[i])
    BY <1>5, <1>10, Zenon DEF ShownLeaf
  <2>3. VerifyProof(AsSubMerkleProof(r.data_proof, r.trie, ShownLeaf(r)))
    BY <1>5, <1>9, <2>2, Zenon DEF m
  <2> QED BY <1>5, <1>10, <2>1, <2>3, ConvincingIs, Zenon
<1> QED BY <1>12, <1>13 DEF r

-------------------------------------------------------------------------------
(***************************************************************************)
(* Blocks, as they are sealed.                                             *)
(***************************************************************************)

\* Concatenation only makes longer: TxsSoFar counts the transactions of the
\* block under construction.
IsFlat(seqs, N, f) == f = [i \in 1 .. N |-> IF i = 1 THEN seqs[i] ELSE f[i - 1] \o seqs[i]]

LEMMA FlatExists ==
  ASSUME NEW seqs, NEW N \in Nat
  PROVE  \E f : IsFlat(seqs, N, f)
<1> DEFINE T == {n \in 0 .. N : \E f : IsFlat(seqs, n, f)}
<1>1. 0 \in T
  <2> DEFINE f == [i \in 1 .. 0 |-> << >>]
  <2>1. IsFlat(seqs, 0, f)
    BY DEF IsFlat
  <2> HIDE DEF f
  <2> QED BY <2>1
<1>2. ASSUME NEW n \in 1 .. N, n - 1 \in T PROVE n \in T
  <2>1. PICK f : IsFlat(seqs, n - 1, f)
    BY <1>2
  <2> DEFINE g == [i \in 1 .. n |-> IF i = n THEN IF i = 1 THEN seqs[i] ELSE f[i - 1] \o seqs[i]
                                    ELSE f[i]]
  <2>2. \A i \in 1 .. n - 1 : f[i] = IF i = 1 THEN seqs[i] ELSE f[i - 1] \o seqs[i]
    BY <2>1 DEF IsFlat
  <2>3. \A i \in 1 .. n : i # 1 => i - 1 \in 1 .. n /\ i - 1 # n
    OBVIOUS
  <2>4. ASSUME NEW i \in 1 .. n
        PROVE  g[i] = IF i = 1 THEN seqs[i] ELSE g[i - 1] \o seqs[i]
    <3>1. i # 1 => g[i - 1] = f[i - 1]
      BY <2>3
    <3>2. CASE i = n
      <4>1. g[i] = IF i = 1 THEN seqs[i] ELSE f[i - 1] \o seqs[i]
        BY <3>2
      <4> HIDE DEF g
      <4> QED BY <3>1, <4>1, Zenon
    <3>3. CASE i # n
      <4>1. g[i] = f[i] /\ i \in 1 .. n - 1
        BY <3>3
      <4> HIDE DEF g
      <4> QED BY <2>2, <3>1, <4>1, Zenon
    <3> QED BY <3>2, <3>3
  <2>5. g = [i \in 1 .. n |-> g[i]]
    OBVIOUS
  <2> HIDE DEF g
  <2>6. IsFlat(seqs, n, g)
    BY <2>4, <2>5 DEF IsFlat
  <2>7. n \in 0 .. N
    OBVIOUS
  <2> QED BY <2>6, <2>7
<1> HIDE DEF T
<1>3. \A n \in 0 .. N : n \in T
  BY <1>1, <1>2, UpTo
<1>4. N \in T
  BY <1>3
<1> QED BY <1>4 DEF T

LEMMA FlattenIsSequence ==
  ASSUME NEW seqs, IsSequence(seqs), \A k \in DOMAIN seqs : IsSequence(seqs[k])
  PROVE  IsSequence(FlattenSeq(seqs))
<1>1. Len(seqs) \in Nat /\ DOMAIN seqs = 1 .. Len(seqs)
  BY SequenceFacts
<1> DEFINE N == Len(seqs)
           f == CHOOSE g : IsFlat(seqs, N, g)
<1>2. N = 0 => FlattenSeq(seqs) = seqs
  BY Zenon DEF FlattenSeq
<1>3. N # 0 => FlattenSeq(seqs) = f[N]
  BY Zenon DEF FlattenSeq, IsFlat
<1>4. IsFlat(seqs, N, f)
  <2>1. \E g : IsFlat(seqs, N, g)
    BY <1>1, FlatExists
  <2> QED BY <2>1, Zenon
<1> HIDE DEF f
<1>5. \A i \in 1 .. N : f[i] = IF i = 1 THEN seqs[i] ELSE f[i - 1] \o seqs[i]
  BY <1>4 DEF IsFlat
<1> DEFINE T == {0} \cup {n \in 1 .. N : IsSequence(f[n])}
<1>6. \A n \in 0 .. N : n \in T
  <2>1. 0 \in T
    OBVIOUS
  <2>2. ASSUME NEW n \in 1 .. N, n - 1 \in T PROVE n \in T
    <3>1. IsSequence(seqs[n])
      BY <1>1
    <3>2. CASE n = 1
      <4>1. f[n] = seqs[n]
        BY <1>5, <3>2
      <4> QED BY <3>1, <4>1
    <3>3. CASE n # 1
      <4>1. f[n] = f[n - 1] \o seqs[n]
        BY <1>5, <3>3
      <4>2. IsSequence(f[n - 1])
        BY <2>2, <3>3
      <4>3. IsSequence(f[n - 1] \o seqs[n])
        BY <3>1, <4>2, JoinedIs
      <4> QED BY <4>1, <4>3
    <3> QED BY <3>2, <3>3
  <2> HIDE DEF T
  <2> QED BY <1>1, <2>1, <2>2, UpTo
<1>7. CASE N = 0
  BY <1>2, <1>7
<1>8. CASE N # 0
  <2>1. N \in 1 .. N
    BY <1>1, <1>8
  <2>2. IsSequence(f[N])
    BY <1>1, <1>6, <2>1
  <2> QED BY <1>3, <1>8, <2>2
<1> QED BY <1>7, <1>8

\* What is known of the n-th block when the hash of its parent is given.
IsBlock(n, parent, b) ==
  LET h == b.block.header
      ext == h.extension
      txs == b.block.extrinsics
  IN  /\ Carries(txs, n)
      /\ Encodable(h) /\ IsBlockLookup(ext.app_lookup)
      /\ h.number = n /\ h.parent_hash = parent
      /\ ext.rows \in Nat /\ ext.cols \in Nat
      /\ ext.data_root = RootsOf(txs).data_root
      /\ IsError(ext.app_lookup) <=> b.mode = "faulty"
      /\ ext.rows * ext.cols = 0 <=> b.mode # "built"
      /\ b.responses = [i \in DOMAIN txs |-> ResponseFor(txs, i)]

LEMMA IsExtension ==
  ASSUME NEW ext, NEW l, NEW r, NEW c, NEW d, NEW k, ext = Extension(l, r, c, d, k)
  PROVE  /\ ext.app_lookup = l /\ ext.rows = r /\ ext.cols = c
         /\ ext.data_root = d /\ ext.commitment = k
BY ExtensionFields

LEMMA ExtensionOfIs ==
  ASSUME NEW txs, NEW number, Carries(txs, number), NEW mode \in Modes, NEW lookup \in Lookups
  PROVE  LET ext == ExtensionOf(txs, mode, lookup)
         IN  /\ ext = Extension(ext.app_lookup, ext.rows, ext.cols, ext.data_root, ext.commitment)
             /\ IsBlockLookup(ext.app_lookup) /\ ext.rows \in Nat /\ ext.cols \in Nat
             /\ ext.data_root = RootsOf(txs).data_root /\ IsHash(ext.data_root)
             /\ IsSequence(ext.commitment)
             /\ IsError(ext.app_lookup) <=> mode = "faulty"
             /\ ext.rows * ext.cols = 0 <=> mode # "built"
<1> DEFINE root == RootsOf(txs).data_root
           ext == ExtensionOf(txs, mode, lookup)
<1>1. IsHash(root)
  BY RootsAre
<1>2. /\ mode = "built" => ext = Extension(lookup, 1, 4, root, << Number(Len(txs)) >>)
      /\ mode = "empty" => ext = Extension(NewEmpty, 0, 0, root, << >>)
      /\ mode = "faulty" => ext = Extension(NewError, 0, 0, root, << >>)
  BY DEF ExtensionOf, GetEmptyHeader, GetFaultyHeader
<1> HIDE DEF root, ext
<1> DEFINE Goal ==
      /\ ext = Extension(ext.app_lookup, ext.rows, ext.cols, ext.data_root, ext.commitment)
      /\ IsBlockLookup(ext.app_lookup) /\ ext.rows \in Nat /\ ext.cols \in Nat
      /\ ext.data_root = root /\ IsHash(ext.data_root)
      /\ IsSequence(ext.commitment)
      /\ IsError(ext.app_lookup) <=> mode = "faulty"
      /\ ext.rows * ext.cols = 0 <=> mode # "built"
<1>3. ASSUME mode = "built" PROVE Goal
  <2>0. ext = Extension(lookup, 1, 4, root, << Number(Len(txs)) >>)
    BY <1>2, <1>3
  <2>1. IsBlockLookup(lookup) /\ ~IsError(lookup)
    <3>1. IsLookup(lookup)
      BY LookupsAssumption DEF IsLookup
    <3> QED BY <3>1, LookupReadsBack DEF IsBlockLookup
  <2>2. IsSequence(<< Number(Len(txs)) >>)
    BY OneWord
  <2>3. /\ ext.app_lookup = lookup /\ ext.rows = 1 /\ ext.cols = 4
        /\ ext.data_root = root /\ ext.commitment = << Number(Len(txs)) >>
    BY <2>0, IsExtension
  <2>4. ext.rows * ext.cols # 0 /\ ext.rows \in Nat /\ ext.cols \in Nat
    BY <2>3
  <2>5. ext = Extension(ext.app_lookup, ext.rows, ext.cols, ext.data_root, ext.commitment)
    BY <2>0, <2>3, Zenon
  <2>6. mode # "faulty"
    BY <1>3
  <2>7. Goal
    BY <1>1, <1>3, <2>1, <2>2, <2>3, <2>4, <2>5, <2>6, Zenon
  <2> QED BY <2>7, Zenon
<1>4. ASSUME mode = "empty" PROVE Goal
  <2>0. ext = Extension(NewEmpty, 0, 0, root, << >>)
    BY <1>2, <1>4
  <2>1. /\ ext.app_lookup = NewEmpty /\ ext.rows = 0 /\ ext.cols = 0
        /\ ext.data_root = root /\ ext.commitment = << >>
    BY <2>0, IsExtension
  <2>2. ext = Extension(ext.app_lookup, ext.rows, ext.cols, ext.data_root, ext.commitment)
    BY <2>0, <2>1, Zenon
  <2>3. IsBlockLookup(ext.app_lookup) /\ ~IsError(ext.app_lookup)
    BY <2>1, EmptyReadsBack, Zenon DEF IsBlockLookup
  <2>4. IsSequence(ext.commitment)
    BY <2>1, NoWord, Zenon
  <2>5. ext.rows * ext.cols = 0 /\ ext.rows \in Nat /\ ext.cols \in Nat
    BY <2>1
  <2>6. mode # "faulty" /\ mode # "built"
    BY <1>4
  <2>7. Goal
    BY <1>1, <2>1, <2>2, <2>3, <2>4, <2>5, <2>6, Zenon
  <2> QED BY <2>7, Zenon
<1>5. ASSUME mode = "faulty" PROVE Goal
  <2>0. ext = Extension(NewError, 0, 0, root, << >>)
    BY <1>2, <1>5
  <2>1. /\ ext.app_lookup = NewError /\ ext.rows = 0 /\ ext.cols = 0
        /\ ext.data_root = root /\ ext.commitment = << >>
    BY <2>0, IsExtension
  <2>2. ext = Extension(ext.app_lookup, ext.rows, ext.cols, ext.data_root, ext.commitment)
    BY <2>0, <2>1, Zenon
  <2>3. IsBlockLookup(ext.app_lookup) /\ IsError(ext.app_lookup)
    BY <2>1, ErrorReadsBack, Zenon DEF IsBlockLookup
  <2>4. IsSequence(ext.commitment)
    BY <2>1, NoWord, Zenon
  <2>5. ext.rows * ext.cols = 0 /\ ext.rows \in Nat /\ ext.cols \in Nat
    BY <2>1
  <2>6. mode # "built"
    BY <1>5
  <2>7. Goal
    BY <1>1, <1>5, <2>1, <2>2, <2>3, <2>4, <2>5, <2>6, Zenon
  <2> QED BY <2>7, Zenon
<1>6. Goal
  <2> HIDE DEF Goal
  <2> QED BY <1>3, <1>4, <1>5 DEF Modes
<1> QED BY <1>6, Zenon DEF ext, root

LEMMA SetExtensionIs ==
  ASSUME NEW number, NEW xroot, NEW sroot, NEW parent, NEW digest, NEW ext
  PROVE  LET h == SetExtension(NewHeader(number, xroot, sroot, parent, digest), ext)
         IN  /\ h = [parent_hash |-> h.parent_hash, number |-> h.number,
                     state_root |-> h.state_root, extrinsics_root |-> h.extrinsics_root,
                     digest |-> h.digest, extension |-> h.extension]
             /\ h.parent_hash = parent /\ h.number = number /\ h.state_root = sroot
             /\ h.extrinsics_root = xroot /\ h.digest = digest /\ h.extension = ext
<1> DEFINE h == SetExtension(NewHeader(number, xroot, sroot, parent, digest), ext)
<1>1. h = [parent_hash |-> parent, number |-> number, state_root |-> sroot,
           extrinsics_root |-> xroot, digest |-> digest, extension |-> ext]
  BY DEF SetExtension, NewHeader
<1> HIDE DEF h
<1>2. /\ h.parent_hash = parent /\ h.number = number /\ h.state_root = sroot
      /\ h.extrinsics_root = xroot /\ h.digest = digest /\ h.extension = ext
  BY <1>1
<1> QED BY <1>1, <1>2, Zenon DEF h

LEMMA SealedIsBlock ==
  ASSUME NEW txs, NEW number, Carries(txs, number), NEW mode \in Modes, NEW lookup \in Lookups,
         NEW parent, IsHash(parent)
  PROVE  LET b == Sealed(number, parent, txs, mode, lookup)
         IN  IsBlock(number, parent, b) /\ b.block.extrinsics = txs
<1> DEFINE xroot == Hash("extrinsics", << Number(number) >>)
           sroot == Hash("state", << Number(number) >>)
           digest == << Number(1) >>
           ext == ExtensionOf(txs, mode, lookup)
           h == SetExtension(NewHeader(number, xroot, sroot, parent, digest), ext)
           responses == [i \in DOMAIN txs |-> ResponseFor(txs, i)]
           b == Sealed(number, parent, txs, mode, lookup)
<1>1. b = [mode |-> mode, block |-> NewBlock(h, txs), roots |-> RootsOf(txs), responses |-> responses]
  BY Zenon DEF Sealed
<1>2. IsHash(xroot) /\ IsHash(sroot) /\ IsSequence(digest)
  BY HashIsHash, OneWord
<1>3. /\ ext = Extension(ext.app_lookup, ext.rows, ext.cols, ext.data_root, ext.commitment)
      /\ IsBlockLookup(ext.app_lookup) /\ ext.rows \in Nat /\ ext.cols \in Nat
      /\ ext.data_root = RootsOf(txs).data_root /\ IsHash(ext.data_root)
      /\ IsSequence(ext.commitment)
      /\ IsError(ext.app_lookup) <=> mode = "faulty"
      /\ ext.rows * ext.cols = 0 <=> mode # "built"
  BY ExtensionOfIs
<1>4. /\ h = [parent_hash |-> h.parent_hash, number |-> h.number,
              state_root |-> h.state_root, extrinsics_root |-> h.extrinsics_root,
              digest |-> h.digest, extension |-> h.extension]
      /\ h.parent_hash = parent /\ h.number = number /\ h.state_root = sroot
      /\ h.extrinsics_root = xroot /\ h.digest = digest /\ h.extension = ext
  BY SetExtensionIs
<1> HIDE DEF xroot, sroot, digest, ext, h, responses, b
<1>5. Encodable(h)
  <2>1. IsCompact(Compact(ext.app_lookup))
    <3>1. IsSequence(ext.app_lookup)
      BY <1>3, BlockLookupReadsBack DEF ReadsBack
    <3> QED BY <3>1, CompactOfSequence
  <2> QED BY <1>2, <1>3, <1>4, <2>1, Zenon DEF Encodable
<1>6. b.mode = mode /\ b.block = NewBlock(h, txs) /\ b.responses = responses
  BY <1>1
<1>7. b.block.header = h /\ b.block.extrinsics = txs
  BY <1>6 DEF NewBlock
<1>8. responses = [i \in DOMAIN txs |-> ResponseFor(txs, i)]
  BY DEF responses
<1>9. IsBlock(number, parent, b)
  BY <1>3, <1>4, <1>5, <1>6, <1>7, <1>8, Zenon DEF IsBlock
<1> QED BY <1>7, <1>9 DEF b


-------------------------------------------------------------------------------
(***************************************************************************)
(* The inductive invariant.                                                *)
(***************************************************************************)

\* The transactions of a block, be it sealed or under construction.
TxsAt(n) == IF n = Len(chain) + 1 THEN pending ELSE chain[n].block.extrinsics

\* Each sealed block follows on the one before it, and carries its transactions.
ChainInv ==
  /\ IsSequence(chain) /\ Len(chain) <= MaxBlocks
  /\ \A n \in DOMAIN chain : IsBlock(n, ParentHash(n), chain[n])

PendingInv == Carries(pending, Len(chain) + 1)

\* No two messages have the same identifier, and all are below the next one.
Numbered(messages, next) ==
  /\ IsSequence(messages)
  /\ \A k \in DOMAIN messages : IsAddressed(messages[k]) /\ messages[k].id \in 0 .. (next - 1)
  /\ \A j, k \in DOMAIN messages : messages[j].id = messages[k].id => j = k

\* The message of each transaction of the bridge was sent.
SentInv ==
  /\ Numbered(sent, TxUid(Len(chain) + 1, Len(pending)))
  /\ \A n \in 1 .. (Len(chain) + 1) : \A i \in DOMAIN TxsAt(n) :
       TxsAt(n)[i].trie = "Bridge" => \E k \in DOMAIN sent : sent[k] = TxsAt(n)[i].message

\* What the client asks for is the hash of a block.
CursorInv ==
  /\ cursor = BlockIdHash(cursor.hash)
  /\ IsPreGenesis(cursor) \/ \E n \in DOMAIN chain : cursor.hash = HashOf(chain[n].block.header)

HeldInv ==
  \A n \in DOMAIN held :
    /\ n \in DOMAIN chain /\ Encodable(held[n]) /\ IsSequence(held[n].extension.app_lookup)
    /\ ToWire(held[n]) = ToWire(chain[n].block.header)

ExecutedInv ==
  /\ IsSequence(executed)
  /\ \A k \in DOMAIN executed : \E n \in DOMAIN chain : \E i \in DOMAIN TxsAt(n) :
       TxsAt(n)[i].trie = "Bridge" /\ TxsAt(n)[i].message = executed[k]

ProvenInv ==
  \A claim \in proven :
    /\ claim.block \in DOMAIN chain
    /\ \E i \in DOMAIN TxsAt(claim.block) :
         TxsAt(claim.block)[i].trie = "DataSubmit" /\ TxsAt(claim.block)[i].blob = claim.blob

Inv ==
  /\ ChainInv /\ PendingInv /\ SentInv /\ CursorInv
  /\ HeldInv /\ ExecutedInv /\ ProvenInv /\ ~refused

LEMMA ChainFacts ==
  ASSUME ChainInv
  PROVE  /\ IsSequence(chain) /\ Len(chain) \in Nat /\ DOMAIN chain = 1 .. Len(chain)
         /\ \A n \in DOMAIN chain :
              /\ n \in 1 .. U32Max /\ TxsAt(n) = chain[n].block.extrinsics
              /\ Carries(TxsAt(n), n)
<1>1. IsSequence(chain) /\ Len(chain) \in Nat /\ DOMAIN chain = 1 .. Len(chain)
  BY SequenceFacts DEF ChainInv
<1>2. ASSUME NEW n \in DOMAIN chain
      PROVE  /\ n \in 1 .. U32Max /\ TxsAt(n) = chain[n].block.extrinsics
             /\ Carries(TxsAt(n), n)
  <2>1. n \in 1 .. U32Max /\ n # Len(chain) + 1
    BY <1>1, U32MaxAssumption, BridgeAssumption DEF ChainInv
  <2>2. TxsAt(n) = chain[n].block.extrinsics
    BY <2>1 DEF TxsAt
  <2>3. Carries(chain[n].block.extrinsics, n)
    BY DEF ChainInv, IsBlock
  <2> QED BY <2>1, <2>2, <2>3
<1> QED BY <1>1, <1>2

LEMMA ParentIsHash ==
  ASSUME NEW n
  PROVE  IsHash(ParentHash(n))
<1>1. IsHash(HashOf(chain[n - 1].block.header))
  BY HashIsHash DEF HashOf
<1> QED BY <1>1, HashIsHash, Zenon DEF ParentHash

-------------------------------------------------------------------------------
(***************************************************************************)
(* The author.                                                             *)
(***************************************************************************)

LEMMA RoomForMore ==
  ASSUME ChainInv, PendingInv, TxsSoFar < MaxTxs
  PROVE  Len(pending) \in Nat /\ Len(pending) + 1 <= MaxTxs
<1> DEFINE blocks == [k \in DOMAIN chain |-> chain[k].block.extrinsics]
<1>1. IsSequence(chain) /\ Len(chain) \in Nat /\ DOMAIN chain = 1 .. Len(chain)
  BY ChainFacts
<1>2. IsSequence(blocks)
  <2>1. blocks = [k \in 1 .. Len(chain) |-> blocks[k]]
    BY <1>1
  <2> QED BY <1>1, <2>1, SequenceFrom
<1>3. \A k \in DOMAIN blocks : IsSequence(blocks[k])
  BY DEF ChainInv, IsBlock, Carries
<1>4. TxsSoFar = Len(pending) + Len(FlattenSeq(blocks))
  BY DEF TxsSoFar
<1> HIDE DEF blocks
<1>5. Len(FlattenSeq(blocks)) \in Nat
  BY <1>2, <1>3, FlattenIsSequence, SequenceFacts
<1>6. Len(pending) \in Nat
  BY SequenceFacts DEF PendingInv, Carries
<1> QED BY <1>4, <1>5, <1>6, U32SizeAssumption, BridgeAssumption

LEMMA CarriesOneMore ==
  ASSUME NEW txs, NEW number, Carries(txs, number), NEW tx \in Txs, Len(txs) + 1 <= MaxTxs
  PROVE  Carries(Append(txs, Included(tx, number, Len(txs))), number)
<1> DEFINE t == Included(tx, number, Len(txs))
           more == Append(txs, t)
<1>1. IsSequence(txs) /\ Len(txs) \in Nat /\ DOMAIN txs = 1 .. Len(txs)
  BY SequenceFacts DEF Carries
<1>2. /\ IsSequence(more) /\ Len(more) = Len(txs) + 1 /\ more[Len(txs) + 1] = t
      /\ \A k \in 1 .. Len(txs) : more[k] = txs[k]
  BY <1>1, Appended
<1>3. DOMAIN more = 1 .. Len(more)
  BY <1>2, SequenceFacts
<1> HIDE DEF more
<1>4. ASSUME NEW i \in DOMAIN more PROVE \E u \in Txs : more[i] = Included(u, number, i - 1)
  <2>1. CASE i \in DOMAIN txs
    <3>1. more[i] = txs[i]
      BY <1>1, <1>2, <2>1
    <3> QED BY <2>1, <3>1 DEF Carries
  <2>2. CASE i = Len(txs) + 1
    <3>1. more[i] = Included(tx, number, i - 1)
      BY <1>1, <1>2, <2>2
    <3> QED BY <3>1
  <2> QED BY <1>1, <1>2, <1>3, <2>1, <2>2
<1> QED BY <1>1, <1>2, <1>4 DEF Carries, more

LEMMA CarriesNone ==
  ASSUME NEW number
  PROVE  Carries(<< >>, number)
<1>1. MaxTxs \in Nat
  BY U32SizeAssumption, BridgeAssumption
<1>2. DOMAIN << >> = {}
  BY NoWord, SequenceFacts
<1> QED BY <1>1, <1>2, NoWord DEF Carries

\* No step changes a sealed block.
LEMMA BlocksStay ==
  ASSUME ChainInv, [Next]_vars
  PROVE  \A n \in DOMAIN chain : /\ n \in DOMAIN chain' /\ chain'[n] = chain[n]
                                 /\ ParentHash(n)' = ParentHash(n)
<1>1. IsSequence(chain) /\ Len(chain) \in Nat /\ DOMAIN chain = 1 .. Len(chain)
  BY ChainFacts
<1>2. chain' = chain \/ \E b : chain' = Append(chain, b)
  BY Zenon DEF Next, vars, Include, Seal, Follow, HeaderArrives, ProofArrives
<1>3. CASE chain' = chain
  BY <1>3 DEF ParentHash
<1>4. CASE \E b : chain' = Append(chain, b)
  <2>1. PICK b : chain' = Append(chain, b)
    BY <1>4
  <2>2. /\ IsSequence(chain') /\ Len(chain') = Len(chain) + 1
        /\ \A k \in 1 .. Len(chain) : chain'[k] = chain[k]
    BY <1>1, <2>1, Appended
  <2>3. DOMAIN chain' = 1 .. Len(chain')
    BY <2>2, SequenceFacts
  <2>4. ASSUME NEW n \in DOMAIN chain
        PROVE  /\ n \in DOMAIN chain' /\ chain'[n] = chain[n]
               /\ ParentHash(n)' = ParentHash(n)
    <3>1. n \in DOMAIN chain' /\ chain'[n] = chain[n]
      BY <1>1, <2>2, <2>3
    <3>2. n # 1 => chain'[n - 1] = chain[n - 1]
      BY <1>1, <2>2
    <3> QED BY <3>1, <3>2, Zenon DEF ParentHash
  <2> QED BY <2>4
<1> QED BY <1>2, <1>3, <1>4

LEMMA ChainStep ==
  ASSUME ChainInv, PendingInv, [Next]_vars
  PROVE  ChainInv' /\ PendingInv'
<1>1. IsSequence(chain) /\ Len(chain) \in Nat /\ DOMAIN chain = 1 .. Len(chain)
  BY ChainFacts
<1>2. CASE chain' = chain /\ pending' = pending
  BY <1>2 DEF ChainInv, PendingInv, ParentHash
<1>3. CASE \E tx \in Txs : Include(tx)
  <2>1. PICK tx \in Txs : Include(tx)
    BY <1>3
  <2>2. /\ chain' = chain /\ TxsSoFar < MaxTxs
        /\ pending' = Append(pending, Included(tx, Len(chain) + 1, Len(pending)))
    BY <2>1 DEF Include
  <2>3. PendingInv'
    BY <2>2, RoomForMore, CarriesOneMore DEF PendingInv
  <2> QED BY <2>2, <2>3 DEF ChainInv, ParentHash
<1>4. CASE \E mode \in Modes, lookup \in Lookups : Seal(mode, lookup)
  <2>1. PICK mode \in Modes, lookup \in Lookups : Seal(mode, lookup)
    BY <1>4
  <2>2. PICK n \in Nat : n = Len(chain) + 1
    BY <1>1
  <2> DEFINE b == Sealed(n, ParentHash(n), pending, mode, lookup)
  <2>3. chain' = Append(chain, b) /\ Len(chain) < MaxBlocks /\ pending' = << >>
    BY <2>1, <2>2, Zenon DEF Seal
  <2>4. IsBlock(n, ParentHash(n), b)
    BY <2>2, SealedIsBlock, ParentIsHash DEF PendingInv
  <2> HIDE DEF b
  <2>5. /\ IsSequence(chain') /\ Len(chain') = Len(chain) + 1 /\ chain'[n] = b
        /\ \A k \in 1 .. Len(chain) : chain'[k] = chain[k]
    BY <1>1, <2>3, <2>2, Appended
  <2>6. DOMAIN chain' = 1 .. n
    BY <2>5, <2>2, SequenceFacts
  <2>7. ParentHash(n)' = ParentHash(n)
    <3>1. n # 1 => chain'[n - 1] = chain[n - 1]
      BY <1>1, <2>5, <2>2
    <3> QED BY <3>1, Zenon DEF ParentHash
  <2>8. ASSUME NEW m \in DOMAIN chain' PROVE IsBlock(m, ParentHash(m)', chain'[m])
    <3>1. CASE m \in DOMAIN chain
      <4>1. chain'[m] = chain[m] /\ ParentHash(m)' = ParentHash(m)
        BY <3>1, BlocksStay
      <4> QED BY <3>1, <4>1 DEF ChainInv
    <3>2. CASE m = n
      <4> QED BY <2>4, <2>5, <2>7, <3>2, Zenon
    <3> QED BY <1>1, <2>6, <2>2, <3>1, <3>2
  <2>9. Len(chain') <= MaxBlocks
    BY <1>1, <2>3, <2>5, BridgeAssumption, U32MaxAssumption
  <2>10. ChainInv'
    BY <2>5, <2>8, <2>9 DEF ChainInv
  <2> QED BY <2>3, <2>10, CarriesNone DEF PendingInv
<1>5. CASE Follow
  BY <1>2, <1>5 DEF Follow
<1>6. ASSUME NEW k, NEW wire, HeaderArrives(k, wire) PROVE ChainInv' /\ PendingInv'
  BY <1>2, <1>6 DEF HeaderArrives
<1>7. ASSUME NEW b, NEW honest, NEW response, ProofArrives(b, honest, response)
      PROVE  ChainInv' /\ PendingInv'
  BY <1>2, <1>7 DEF ProofArrives
<1>8. CASE UNCHANGED vars
  BY <1>2, <1>8 DEF vars
<1> QED BY <1>3, <1>4, <1>5, <1>6, <1>7, <1>8, Zenon DEF Next


-------------------------------------------------------------------------------
(***************************************************************************)
(* Identifiers.                                                            *)
(***************************************************************************)

LEMMA QuotientOf ==
  ASSUME NEW S \in Nat \ {0}, NEW b \in Nat, NEW i \in 0 .. (S - 1),
         NEW q \in Nat, NEW r \in 0 .. (S - 1), b * S + i = q * S + r
  PROVE  q = b /\ r = i
<1>1. CASE q < b
  <2>1. PICK d \in Nat : b = q + 1 + d
    <3>1. b - q - 1 \in Nat /\ b = q + 1 + (b - q - 1)
      BY <1>1
    <3> QED BY <3>1
  <2>2. b * S = q * S + S + d * S
    BY <2>1
  <2>3. d * S \in Nat
    OBVIOUS
  <2> QED BY <2>2, <2>3
<1>2. CASE b < q
  <2>1. PICK d \in Nat : q = b + 1 + d
    <3>1. q - b - 1 \in Nat /\ q = b + 1 + (q - b - 1)
      BY <1>2
    <3> QED BY <3>1
  <2>2. q * S = b * S + S + d * S
    BY <2>1
  <2>3. d * S \in Nat
    OBVIOUS
  <2> QED BY <2>2, <2>3
<1>3. CASE b = q
  BY <1>3
<1> QED BY <1>1, <1>2, <1>3

\* An identifier leads back to its place.
LEMMA UidBack ==
  ASSUME NEW b \in Nat, NEW i \in 0 .. (U32Size - 1)
  PROVE  TxUidDeconstruct(TxUid(b, i)) = << b, i >>
<1> DEFINE x == b * U32Size + i
<1>1. U32Size \in Nat \ {0} /\ x \in Nat
  BY U32SizeAssumption
<1> HIDE DEF x
<1>2. x \div U32Size \in Nat /\ x % U32Size \in 0 .. (U32Size - 1)
  BY <1>1
<1>3. x = (x \div U32Size) * U32Size + (x % U32Size)
  BY <1>1
<1>4. b * U32Size + i = (x \div U32Size) * U32Size + (x % U32Size)
  BY <1>3 DEF x
<1>5. x \div U32Size = b /\ x % U32Size = i
  BY <1>1, <1>2, <1>4, QuotientOf
<1>6. TxUid(b, i) = x
  BY DEF TxUid, x
<1> QED BY <1>5, <1>6, Zenon DEF TxUidDeconstruct

\* Identifiers grow along a block, and from a block to the next one.
LEMMA UidsGrow ==
  ASSUME NEW b \in Nat, NEW i \in Nat
  PROVE  /\ TxUid(b, i) \in Nat /\ TxUid(b, i + 1) = TxUid(b, i) + 1
         /\ i <= U32Size - 1 => TxUid(b, i) <= TxUid(b + 1, 0)
<1>1. U32Size \in Nat \ {0} /\ b * U32Size \in Nat
  BY U32SizeAssumption
<1>2. (b + 1) * U32Size = b * U32Size + U32Size
  BY <1>1
<1> QED BY <1>1, <1>2 DEF TxUid

-------------------------------------------------------------------------------
(***************************************************************************)
(* The messages that were sent.                                            *)
(***************************************************************************)

LEMMA NumberedMore ==
  ASSUME NEW s, NEW m, NEW next \in Nat, Numbered(s, next), IsAddressed(m), m.id = next
  PROVE  Numbered(Append(s, m), next + 1)
<1> DEFINE r == Append(s, m)
<1>1. IsSequence(s) /\ Len(s) \in Nat /\ DOMAIN s = 1 .. Len(s)
  BY SequenceFacts DEF Numbered
<1>2. /\ IsSequence(r) /\ Len(r) = Len(s) + 1 /\ r[Len(s) + 1] = m
      /\ \A k \in 1 .. Len(s) : r[k] = s[k]
  BY <1>1, Appended
<1>3. DOMAIN r = 1 .. Len(r)
  BY <1>2, SequenceFacts
<1> HIDE DEF r
<1>4. ASSUME NEW k \in DOMAIN r
      PROVE  /\ IsAddressed(r[k]) /\ r[k].id \in 0 .. next
             /\ k \in DOMAIN s => r[k] = s[k] /\ r[k].id \in 0 .. (next - 1)
             /\ k \notin DOMAIN s => k = Len(s) + 1 /\ r[k].id = next
  <2>1. CASE k \in DOMAIN s
    <3>1. r[k] = s[k]
      BY <1>1, <1>2, <2>1
    <3> QED BY <2>1, <3>1 DEF Numbered
  <2>2. CASE k \notin DOMAIN s
    <3>1. k = Len(s) + 1
      BY <1>1, <1>2, <1>3, <2>2
    <3>2. r[k] = m
      BY <1>2, <3>1
    <3> QED BY <2>2, <3>1, <3>2
  <2> QED BY <2>1, <2>2
<1>5. ASSUME NEW j \in DOMAIN r, NEW k \in DOMAIN r, r[j].id = r[k].id PROVE j = k
  <2>1. CASE j \in DOMAIN s /\ k \in DOMAIN s
    <3>1. s[j].id = s[k].id
      BY <1>4, <1>5, <2>1
    <3> QED BY <2>1, <3>1 DEF Numbered
  <2>2. CASE j \notin DOMAIN s /\ k \notin DOMAIN s
    BY <1>4, <2>2
  <2>3. CASE j \in DOMAIN s /\ k \notin DOMAIN s
    <3>1. r[j].id \in 0 .. (next - 1) /\ r[k].id = next
      BY <1>4, <2>3
    <3> QED BY <1>5, <3>1
  <2>4. CASE j \notin DOMAIN s /\ k \in DOMAIN s
    <3>1. r[k].id \in 0 .. (next - 1) /\ r[j].id = next
      BY <1>4, <2>4
    <3> QED BY <1>5, <3>1
  <2> QED BY <2>1, <2>2, <2>3, <2>4
<1>6. (next + 1) - 1 = next
  OBVIOUS
<1> QED BY <1>2, <1>4, <1>5, <1>6 DEF Numbered, r

LEMMA NumberedHigher ==
  ASSUME NEW s, NEW next \in Nat, NEW higher \in Nat, next <= higher, Numbered(s, next)
  PROVE  Numbered(s, higher)
<1>1. \A n \in 0 .. (next - 1) : n \in 0 .. (higher - 1)
  OBVIOUS
<1> QED BY <1>1 DEF Numbered

\* The message of a new transaction is the last one, if it is for the bridge.
LEMMA IncludeSends ==
  ASSUME ChainInv, PendingInv, SentInv, NEW tx \in Txs, Include(tx)
  PROVE  SentInv'
<1>1. Len(chain) \in Nat /\ DOMAIN chain = 1 .. Len(chain)
  BY ChainFacts
<1>2. PICK n \in Nat, p \in Nat : n = Len(chain) + 1 /\ p = Len(pending)
  <2>1. Len(pending) \in Nat
    BY SequenceFacts DEF PendingInv, Carries
  <2> QED BY <1>1, <2>1
<1> DEFINE t == Included(tx, n, p)
           uid == TxUid(n, p)
<1>3. /\ chain' = chain /\ pending' = Append(pending, t)
      /\ sent' = IF tx.trie = "Bridge" THEN Append(sent, t.message) ELSE sent
  BY <1>2 DEF Include
<1>4. /\ IsSequence(pending) /\ DOMAIN pending = 1 .. p
  BY <1>2, SequenceFacts DEF PendingInv, Carries
<1>5. /\ t.trie = tx.trie /\ IsAddressed(t.message) /\ t.message.id = uid
  BY IncludedIs
<1>6. uid \in Nat /\ TxUid(n, p + 1) = uid + 1
  BY UidsGrow
<1> HIDE DEF t, uid
<1>7. /\ Len(pending') = p + 1 /\ DOMAIN pending' = 1 .. (p + 1)
      /\ pending'[p + 1] = t /\ \A i \in 1 .. p : pending'[i] = pending[i]
  <2>1. /\ IsSequence(pending') /\ Len(pending') = p + 1
        /\ pending'[p + 1] = t /\ \A i \in 1 .. p : pending'[i] = pending[i]
    BY <1>2, <1>3, <1>4, Appended
  <2> QED BY <2>1, SequenceFacts
<1>8. Numbered(sent, uid)
  BY <1>2 DEF SentInv, uid
<1>9. Numbered(sent', uid + 1)
  <2>1. CASE tx.trie = "Bridge"
    <3>1. sent' = Append(sent, t.message)
      BY <1>3, <2>1
    <3> QED BY <1>5, <1>6, <1>8, <3>1, NumberedMore
  <2>2. CASE tx.trie # "Bridge"
    <3>1. sent' = sent
      BY <1>3, <2>2
    <3>2. uid + 1 \in Nat /\ uid <= uid + 1
      BY <1>6
    <3> QED BY <1>6, <1>8, <3>1, <3>2, NumberedHigher
  <2> QED BY <2>1, <2>2
<1>10. Numbered(sent', TxUid(Len(chain') + 1, Len(pending')))
  BY <1>2, <1>3, <1>6, <1>7, <1>9
<1>11. IsSequence(sent) /\ Len(sent) \in Nat /\ DOMAIN sent = 1 .. Len(sent)
  BY <1>8, SequenceFacts DEF Numbered
<1>12. /\ \A k \in DOMAIN sent : k \in DOMAIN sent' /\ sent'[k] = sent[k]
       /\ tx.trie = "Bridge" => \E k \in DOMAIN sent' : sent'[k] = t.message
  <2>1. CASE tx.trie = "Bridge"
    <3>1. sent' = Append(sent, t.message)
      BY <1>3, <2>1
    <3>2. /\ IsSequence(sent') /\ Len(sent') = Len(sent) + 1 /\ sent'[Len(sent) + 1] = t.message
          /\ \A k \in 1 .. Len(sent) : sent'[k] = sent[k]
      BY <1>11, <3>1, Appended
    <3>3. DOMAIN sent' = 1 .. (Len(sent) + 1)
      BY <3>2, SequenceFacts
    <3> QED BY <1>11, <3>2, <3>3
  <2>2. CASE tx.trie # "Bridge"
    <3>1. sent' = sent
      BY <1>3, <2>2
    <3> QED BY <2>2, <3>1
  <2> QED BY <2>1, <2>2
<1>13. ASSUME NEW m \in 1 .. (Len(chain') + 1), NEW i \in DOMAIN TxsAt(m)',
              TxsAt(m)'[i].trie = "Bridge"
       PROVE  \E k \in DOMAIN sent' : sent'[k] = TxsAt(m)'[i].message
  <2>1. CASE m = n /\ i = p + 1
    <3>1. TxsAt(m)' = pending'
      BY <1>2, <1>3, <2>1 DEF TxsAt
    <3>2. TxsAt(m)'[i] = t
      BY <1>7, <2>1, <3>1
    <3>3. tx.trie = "Bridge"
      BY <1>5, <1>13, <3>2
    <3> QED BY <1>12, <3>2, <3>3
  <2>2. CASE ~(m = n /\ i = p + 1)
    <3>1. i \in DOMAIN TxsAt(m) /\ TxsAt(m)'[i] = TxsAt(m)[i]
      <4>1. CASE m = n
        <5>1. TxsAt(m)' = pending' /\ TxsAt(m) = pending
          BY <1>2, <1>3, <4>1 DEF TxsAt
        <5>2. i \in 1 .. p
          BY <1>7, <2>2, <4>1, <5>1
        <5> QED BY <1>4, <1>7, <5>1, <5>2
      <4>2. CASE m # n
        <5>1. TxsAt(m)' = TxsAt(m)
          BY <1>2, <1>3, <4>2, Zenon DEF TxsAt
        <5> QED BY <5>1
      <4> QED BY <4>1, <4>2
    <3>2. m \in 1 .. (Len(chain) + 1)
      BY <1>3
    <3>3. PICK k \in DOMAIN sent : sent[k] = TxsAt(m)[i].message
      BY <1>13, <3>1, <3>2 DEF SentInv
    <3> QED BY <1>12, <3>1, <3>3
  <2> QED BY <2>1, <2>2
<1> QED BY <1>10, <1>13 DEF SentInv

LEMMA SealKeepsSent ==
  ASSUME ChainInv, PendingInv, SentInv, NEW mode \in Modes, NEW lookup \in Lookups,
         Seal(mode, lookup)
  PROVE  SentInv'
<1>1. IsSequence(chain) /\ Len(chain) \in Nat /\ DOMAIN chain = 1 .. Len(chain)
  BY ChainFacts
<1>2. PICK n \in Nat, p \in Nat : n = Len(chain) + 1 /\ p = Len(pending)
  <2>1. Len(pending) \in Nat
    BY SequenceFacts DEF PendingInv, Carries
  <2> QED BY <1>1, <2>1
<1> DEFINE b == Sealed(n, ParentHash(n), pending, mode, lookup)
<1>3. chain' = Append(chain, b) /\ pending' = << >> /\ sent' = sent
  BY <1>2, Zenon DEF Seal
<1>4. b.block.extrinsics = pending
  BY <1>2, SealedIsBlock, ParentIsHash DEF PendingInv
<1> HIDE DEF b
<1>5. /\ Len(chain') = n /\ chain'[n] = b /\ \A k \in 1 .. Len(chain) : chain'[k] = chain[k]
  BY <1>1, <1>2, <1>3, Appended
<1>6. Numbered(sent', TxUid(Len(chain') + 1, Len(pending')))
  <2>1. p <= U32Size - 1
    BY <1>2, U32SizeAssumption, BridgeAssumption DEF PendingInv, Carries
  <2>2. /\ TxUid(n, p) \in Nat /\ TxUid(n + 1, 0) \in Nat /\ TxUid(n, p) <= TxUid(n + 1, 0)
    <3>1. n + 1 \in Nat /\ 0 \in Nat
      OBVIOUS
    <3>2. TxUid(n + 1, 0) \in Nat
      BY <3>1, UidsGrow, Zenon
    <3>3. TxUid(n, p) \in Nat
      BY UidsGrow
    <3>4. p <= U32Size - 1 => TxUid(n, p) <= TxUid(n + 1, 0)
      BY UidsGrow, Zenon
    <3> QED BY <2>1, <3>2, <3>3, <3>4, Zenon
  <2>3. Numbered(sent, TxUid(n, p))
    BY <1>2 DEF SentInv
  <2>4. Numbered(sent, TxUid(n + 1, 0))
    BY <2>2, <2>3, NumberedHigher
  <2>5. Len(pending') = 0
    BY <1>3, NoWord
  <2> QED BY <1>3, <1>5, <2>4, <2>5
<1>7. ASSUME NEW m \in 1 .. (Len(chain') + 1), NEW i \in DOMAIN TxsAt(m)',
             TxsAt(m)'[i].trie = "Bridge"
      PROVE  \E k \in DOMAIN sent' : sent'[k] = TxsAt(m)'[i].message
  <2>1. m # n + 1
    <3>1. ASSUME m = n + 1 PROVE FALSE
      <4>1. TxsAt(m)' = << >>
        BY <1>3, <1>5, <3>1 DEF TxsAt
      <4>2. DOMAIN << >> = {}
        BY NoWord, SequenceFacts
      <4> QED BY <1>7, <4>1, <4>2
    <3> QED BY <3>1
  <2>2. TxsAt(m)' = TxsAt(m) /\ m \in 1 .. (Len(chain) + 1)
    <3>1. TxsAt(m)' = chain'[m].block.extrinsics
      BY <1>5, <2>1 DEF TxsAt
    <3>2. m \in 1 .. (Len(chain) + 1)
      BY <1>2, <1>5, <2>1
    <3>3. CASE m = n
      <4>1. TxsAt(m) = pending
        BY <1>2, <3>3 DEF TxsAt
      <4> QED BY <1>4, <1>5, <3>1, <3>2, <3>3, <4>1
    <3>4. CASE m # n
      <4>1. TxsAt(m) = chain[m].block.extrinsics
        BY <1>2, <3>4 DEF TxsAt
      <4>2. chain'[m] = chain[m]
        BY <1>1, <1>2, <1>5, <3>2, <3>4
      <4> QED BY <3>1, <3>2, <4>1, <4>2
    <3> QED BY <3>3, <3>4
  <2> QED BY <1>3, <1>7, <2>2, Zenon DEF SentInv
<1> QED BY <1>6, <1>7 DEF SentInv

LEMMA SentStep ==
  ASSUME ChainInv, PendingInv, SentInv, [Next]_vars
  PROVE  SentInv'
<1>1. CASE chain' = chain /\ pending' = pending /\ sent' = sent
  <2>1. \A n : TxsAt(n)' = TxsAt(n)
    BY <1>1, Zenon DEF TxsAt
  <2> QED BY <1>1, <2>1 DEF SentInv
<1>2. ASSUME NEW tx \in Txs, Include(tx) PROVE SentInv'
  BY <1>2, IncludeSends
<1>3. ASSUME NEW mode \in Modes, NEW lookup \in Lookups, Seal(mode, lookup) PROVE SentInv'
  BY <1>3, SealKeepsSent
<1>4. CASE Follow
  BY <1>1, <1>4 DEF Follow
<1>5. ASSUME NEW k, NEW wire, HeaderArrives(k, wire) PROVE SentInv'
  BY <1>1, <1>5 DEF HeaderArrives
<1>6. ASSUME NEW b, NEW honest, NEW response, ProofArrives(b, honest, response) PROVE SentInv'
  BY <1>1, <1>6 DEF ProofArrives
<1>7. CASE UNCHANGED vars
  BY <1>1, <1>7 DEF vars
<1> QED BY <1>2, <1>3, <1>4, <1>5, <1>6, <1>7, Zenon DEF Next


-------------------------------------------------------------------------------
(***************************************************************************)
(* The client.                                                             *)
(***************************************************************************)

\* The header of a block arrives readable, and with its hash.
LEMMA OriginIsRead ==
  ASSUME ChainInv, NEW k \in DOMAIN chain
  PROVE  LET origin == chain[k].block.header
         IN  /\ IsHeader(ToWire(origin)) /\ FromWire(ToWire(origin)).ok
             /\ HashOf(FromWire(ToWire(origin)).header) = HashOf(origin)
<1> DEFINE origin == chain[k].block.header
<1>1. IsBlock(k, ParentHash(k), chain[k])
  BY DEF ChainInv
<1>2. k \in 1 .. U32Max
  BY ChainFacts
<1>3. k \in 0 .. U32Max
  BY <1>2
<1>4. /\ Encodable(origin) /\ IsBlockLookup(origin.extension.app_lookup) /\ origin.number = k
      /\ origin.extension.rows \in Nat /\ origin.extension.cols \in Nat
  BY <1>1 DEF IsBlock
<1> HIDE DEF origin
<1>5. /\ IsHeader(ToWire(origin)) /\ FromWire(ToWire(origin)).ok
      /\ HashOf(FromWire(ToWire(origin)).header) = HashOf(origin)
  BY <1>3, <1>4, SentHeaderIsRead
<1> QED BY <1>5 DEF origin

\* A header with the hash the client asked for is that of the block with its
\* number, and names its parent.
LEMMA AcceptedHeader ==
  ASSUME ChainInv, CursorInv, ~IsPreGenesis(cursor), NEW wire, IsHeader(wire),
         FromWire(wire).ok, HashOf(FromWire(wire).header) = cursor.hash
  PROVE  LET h == FromWire(wire).header
         IN  /\ Encodable(h) /\ IsSequence(h.extension.app_lookup) /\ h.number \in DOMAIN chain
             /\ ToWire(h) = ToWire(chain[h.number].block.header)
             /\ h.parent_hash = ParentHash(h.number)
<1> DEFINE h == FromWire(wire).header
<1>1. Encodable(h) /\ IsSequence(h.extension.app_lookup)
  BY ReadHeader
<1>2. PICK n \in DOMAIN chain : cursor.hash = HashOf(chain[n].block.header)
  BY DEF CursorInv
<1> DEFINE g == chain[n].block.header
<1>3. Encodable(g) /\ g.number = n /\ g.parent_hash = ParentHash(n)
  BY DEF ChainInv, IsBlock
<1>4. HashOf(h) = HashOf(g)
  BY <1>2
<1> HIDE DEF h, g
<1>5. ToWire(h) = ToWire(g)
  BY <1>1, <1>3, <1>4, HeaderHashInjective
<1>6. h.number = g.number /\ h.parent_hash = g.parent_hash
  <2>1. ToWire(h).number = h.number /\ ToWire(h).parent_hash = h.parent_hash
    BY <1>1, ToWireFields
  <2>2. ToWire(g).number = g.number /\ ToWire(g).parent_hash = g.parent_hash
    BY <1>3, ToWireFields
  <2> QED BY <1>5, <2>1, <2>2
<1>7. /\ Encodable(h) /\ IsSequence(h.extension.app_lookup) /\ h.number \in DOMAIN chain
      /\ ToWire(h) = ToWire(chain[h.number].block.header)
      /\ h.parent_hash = ParentHash(h.number)
  BY <1>1, <1>3, <1>5, <1>6, Zenon DEF g
<1> QED BY <1>7 DEF h

LEMMA ParentIsBlock ==
  ASSUME ChainInv, NEW n \in DOMAIN chain
  PROVE  \/ ParentHash(n) = DefaultHash
         \/ \E m \in DOMAIN chain : ParentHash(n) = HashOf(chain[m].block.header)
<1>1. Len(chain) \in Nat /\ DOMAIN chain = 1 .. Len(chain)
  BY ChainFacts
<1>2. CASE n = 1
  BY <1>2 DEF ParentHash
<1>3. CASE n # 1
  <2>1. n - 1 \in DOMAIN chain
    BY <1>1, <1>3
  <2>2. ParentHash(n) = HashOf(chain[n - 1].block.header)
    BY <1>3 DEF ParentHash
  <2> QED BY <2>1, <2>2
<1> QED BY <1>2, <1>3

LEMMA HeaderStep ==
  ASSUME Inv, NEW k \in DOMAIN chain, NEW wire, IsHeader(wire), HeaderArrives(k, wire)
  PROVE  CursorInv' /\ HeldInv' /\ ~refused'
<1> DEFINE origin == chain[k].block.header
           read == FromWire(wire)
           h == read.header
           n == h.number
           accepted == read.ok /\ HashOf(h) = cursor.hash
           honest == wire = ToWire(origin) /\ HashOf(origin) = cursor.hash
<1>1. /\ ~IsPreGenesis(cursor) /\ chain' = chain
      /\ refused' = (refused \/ (honest /\ ~accepted))
      /\ accepted => /\ held' = [m \in DOMAIN held \cup {n} |-> IF m = n THEN h ELSE held[m]]
                     /\ cursor' = BlockIdHash(h.parent_hash)
      /\ ~accepted => held' = held /\ cursor' = cursor
  BY Zenon DEF HeaderArrives
<1>2. honest => accepted
  <2>1. ASSUME honest PROVE read.ok /\ HashOf(h) = cursor.hash
    <3>1. FromWire(ToWire(origin)).ok /\ HashOf(FromWire(ToWire(origin)).header) = HashOf(origin)
      BY OriginIsRead DEF Inv
    <3> QED BY <2>1, <3>1
  <2> QED BY <2>1
<1>3. CASE ~accepted
  <2>1. HeldInv' /\ CursorInv'
    <3>1. held' = held /\ cursor' = cursor
      BY <1>1, <1>3
    <3> QED BY <1>1, <3>1 DEF Inv, HeldInv, CursorInv, IsPreGenesis
  <2>2. ~refused'
    BY <1>1, <1>2, <1>3 DEF Inv
  <2> QED BY <2>1, <2>2
<1>4. CASE accepted
  <2>1. /\ Encodable(h) /\ IsSequence(h.extension.app_lookup) /\ n \in DOMAIN chain
        /\ ToWire(h) = ToWire(chain[n].block.header)
        /\ h.parent_hash = ParentHash(n)
    BY <1>1, <1>4, AcceptedHeader DEF Inv
  <2>2. /\ held' = [m \in DOMAIN held \cup {n} |-> IF m = n THEN h ELSE held[m]]
        /\ cursor' = BlockIdHash(h.parent_hash) /\ ~refused'
    BY <1>1, <1>4 DEF Inv
  <2> HIDE DEF origin, read, h, n, accepted, honest
  <2>3. cursor'.hash = h.parent_hash
    BY <2>2 DEF BlockIdHash
  <2>4. CursorInv'
    <3>1. cursor' = BlockIdHash(cursor'.hash)
      BY <2>2, <2>3, Zenon
    <3>2. \/ cursor'.hash = DefaultHash
          \/ \E m \in DOMAIN chain : cursor'.hash = HashOf(chain[m].block.header)
      BY <2>1, <2>3, ParentIsBlock DEF Inv
    <3> QED BY <1>1, <3>1, <3>2 DEF CursorInv, IsPreGenesis
  <2>5. ASSUME NEW m \in DOMAIN held'
        PROVE  /\ m \in DOMAIN chain /\ Encodable(held'[m])
               /\ IsSequence(held'[m].extension.app_lookup)
               /\ ToWire(held'[m]) = ToWire(chain[m].block.header)
    <3>1. CASE m = n
      <4>1. held'[m] = h
        BY <2>2, <3>1
      <4> QED BY <2>1, <3>1, <4>1, Zenon
    <3>2. CASE m # n
      <4>1. m \in DOMAIN held /\ held'[m] = held[m]
        BY <2>2, <3>2
      <4> QED BY <4>1 DEF Inv, HeldInv
    <3> QED BY <3>1, <3>2
  <2>6. HeldInv'
    BY <1>1, <2>5 DEF HeldInv
  <2> QED BY <2>2, <2>4, <2>6
<1> QED BY <1>3, <1>4

\* What a header the client holds says of the data of its block.
LEMMA HeldFields ==
  ASSUME ChainInv, HeldInv, NEW n \in DOMAIN held
  PROVE  LET ext == held[n].extension
             own == chain[n].block.header.extension
         IN  /\ n \in DOMAIN chain
             /\ ext.data_root = RootsOf(TxsAt(n)).data_root
             /\ ext.rows = own.rows /\ ext.cols = own.cols
             /\ IsSequence(ext.app_lookup) /\ IsSequence(own.app_lookup)
             /\ Compact(ext.app_lookup) = Compact(own.app_lookup)
<1> DEFINE h == held[n]
           g == chain[n].block.header
<1>1. /\ n \in DOMAIN chain /\ Encodable(h) /\ IsSequence(h.extension.app_lookup)
      /\ ToWire(h) = ToWire(g)
  BY DEF HeldInv
<1>2. /\ Encodable(g) /\ IsBlockLookup(g.extension.app_lookup)
      /\ g.extension.data_root = RootsOf(TxsAt(n)).data_root
  BY <1>1, ChainFacts DEF ChainInv, IsBlock
<1>3. IsSequence(g.extension.app_lookup)
  BY <1>2, BlockLookupReadsBack DEF ReadsBack
<1> HIDE DEF h, g
<1>4. /\ ToWire(h).extension.app_lookup = Compact(h.extension.app_lookup)
      /\ ToWire(h).extension.rows = h.extension.rows
      /\ ToWire(h).extension.cols = h.extension.cols
      /\ ToWire(h).extension.data_root = h.extension.data_root
  BY <1>1, ToWireFields, Zenon
<1>5. /\ ToWire(g).extension.app_lookup = Compact(g.extension.app_lookup)
      /\ ToWire(g).extension.rows = g.extension.rows
      /\ ToWire(g).extension.cols = g.extension.cols
      /\ ToWire(g).extension.data_root = g.extension.data_root
  BY <1>2, ToWireFields, Zenon
<1>6. /\ n \in DOMAIN chain
      /\ h.extension.data_root = RootsOf(TxsAt(n)).data_root
      /\ h.extension.rows = g.extension.rows /\ h.extension.cols = g.extension.cols
      /\ IsSequence(h.extension.app_lookup) /\ IsSequence(g.extension.app_lookup)
      /\ Compact(h.extension.app_lookup) = Compact(g.extension.app_lookup)
  BY <1>1, <1>2, <1>3, <1>4, <1>5, Zenon
<1> QED BY <1>6 DEF h, g

LEMMA AcceptedProof ==
  ASSUME ChainInv, HeldInv, NEW b \in DOMAIN held, NEW r, IsResponse(r), Convincing(held[b], r)
  PROVE  /\ b \in DOMAIN chain
         /\ \E i \in DOMAIN TxsAt(b) :
              /\ TxsAt(b)[i].trie = r.trie
              /\ r.trie = "DataSubmit" => TxsAt(b)[i].blob = r.blob
              /\ r.trie = "Bridge" => TxsAt(b)[i].message = r.message
<1>1. b \in DOMAIN chain /\ held[b].extension.data_root = RootsOf(TxsAt(b)).data_root
  BY HeldFields
<1>2. Carries(TxsAt(b), b)
  BY <1>1, ChainFacts
<1> QED BY <1>1, <1>2, ConvincingIsGenuine

\* The answer of a node for a transaction of the block that was asked for.
LEMMA AnswerIsAccepted ==
  ASSUME ChainInv, HeldInv, NEW k \in DOMAIN chain, NEW i \in DOMAIN chain[k].responses
  PROVE  /\ IsResponse(chain[k].responses[i])
         /\ k \in DOMAIN held => Convincing(held[k], chain[k].responses[i])
<1> DEFINE txs == TxsAt(k)
           r == ResponseFor(txs, i)
<1>1. Carries(txs, k) /\ txs = chain[k].block.extrinsics
  BY ChainFacts
<1> HIDE DEF txs
<1>2. chain[k].responses = [j \in DOMAIN txs |-> ResponseFor(txs, j)]
  <2>1. chain[k].responses = [j \in DOMAIN chain[k].block.extrinsics |->
                                 ResponseFor(chain[k].block.extrinsics, j)]
    BY Zenon DEF ChainInv, IsBlock
  <2> QED BY <1>1, <2>1, Zenon
<1>3. i \in DOMAIN txs /\ chain[k].responses[i] = r
  BY <1>2
<1>4. IsResponse(r)
  <2> DEFINE header == [extension |-> [data_root |-> RootsOf(txs).data_root]]
  <2>1. header.extension.data_root = RootsOf(txs).data_root
    OBVIOUS
  <2> HIDE DEF header
  <2> QED BY <1>1, <1>3, <2>1, AnswerIsConvincing
<1>5. ASSUME k \in DOMAIN held PROVE Convincing(held[k], r)
  <2>1. held[k].extension.data_root = RootsOf(txs).data_root
    BY <1>5, HeldFields DEF txs
  <2> QED BY <1>1, <1>3, <2>1, AnswerIsConvincing
<1> QED BY <1>3, <1>4, <1>5

LEMMA ProofStep ==
  ASSUME Inv, NEW b \in DOMAIN held, NEW honest \in BOOLEAN, NEW r, IsResponse(r),
         honest => Convincing(held[b], r), ProofArrives(b, honest, r)
  PROVE  ExecutedInv' /\ ProvenInv' /\ ~refused'
<1>1. chain' = chain /\ pending' = pending /\ refused' = (refused \/ (honest /\ ~Convincing(held[b], r)))
  BY DEF ProofArrives
<1>2. ~refused'
  BY <1>1 DEF Inv
<1>3. \A n : TxsAt(n)' = TxsAt(n)
  BY <1>1, Zenon DEF TxsAt
<1>4. ExecutedInv'
  <2>1. CASE executed' = executed
    BY <1>1, <1>3, <2>1 DEF Inv, ExecutedInv
  <2>2. CASE executed' # executed
    <3>1. /\ Convincing(held[b], r) /\ r.trie = "Bridge"
          /\ executed' = Append(executed, r.message)
      BY <2>2, Zenon DEF ProofArrives
    <3>2. /\ b \in DOMAIN chain
          /\ \E i \in DOMAIN TxsAt(b) : TxsAt(b)[i].trie = "Bridge" /\ TxsAt(b)[i].message = r.message
      BY <3>1, AcceptedProof DEF Inv
    <3>3. IsSequence(executed) /\ Len(executed) \in Nat /\ DOMAIN executed = 1 .. Len(executed)
      BY SequenceFacts DEF Inv, ExecutedInv
    <3>4. /\ IsSequence(executed') /\ Len(executed') = Len(executed) + 1
          /\ executed'[Len(executed) + 1] = r.message
          /\ \A k \in 1 .. Len(executed) : executed'[k] = executed[k]
      BY <3>1, <3>3, Appended
    <3>5. DOMAIN executed' = 1 .. (Len(executed) + 1)
      BY <3>4, SequenceFacts
    <3>6. ASSUME NEW k \in DOMAIN executed'
          PROVE  \E n \in DOMAIN chain : \E i \in DOMAIN TxsAt(n) :
                   TxsAt(n)[i].trie = "Bridge" /\ TxsAt(n)[i].message = executed'[k]
      <4>1. CASE k \in DOMAIN executed
        <5>1. executed'[k] = executed[k]
          BY <3>3, <3>4, <4>1
        <5> QED BY <4>1, <5>1 DEF Inv, ExecutedInv
      <4>2. CASE k = Len(executed) + 1
        BY <3>2, <3>4, <4>2
      <4> QED BY <3>3, <3>5, <4>1, <4>2
    <3> QED BY <1>1, <1>3, <3>4, <3>6 DEF ExecutedInv
  <2> QED BY <2>1, <2>2
<1>5. ProvenInv'
  <2>1. CASE proven' = proven
    BY <1>1, <1>3, <2>1 DEF Inv, ProvenInv
  <2>2. CASE proven' # proven
    <3>1. /\ Convincing(held[b], r) /\ r.trie = "DataSubmit"
          /\ proven' = proven \cup {[block |-> b, blob |-> r.blob]}
      BY <2>2, Zenon DEF ProofArrives
    <3>2. /\ b \in DOMAIN chain
          /\ \E i \in DOMAIN TxsAt(b) : TxsAt(b)[i].trie = "DataSubmit" /\ TxsAt(b)[i].blob = r.blob
      BY <3>1, AcceptedProof DEF Inv
    <3>3. ASSUME NEW claim \in proven'
          PROVE  /\ claim.block \in DOMAIN chain
                 /\ \E i \in DOMAIN TxsAt(claim.block) :
                      /\ TxsAt(claim.block)[i].trie = "DataSubmit"
                      /\ TxsAt(claim.block)[i].blob = claim.blob
      <4>1. CASE claim \in proven
        BY <4>1 DEF Inv, ProvenInv
      <4>2. CASE claim = [block |-> b, blob |-> r.blob]
        <5>1. claim.block = b /\ claim.blob = r.blob
          BY <4>2
        <5> QED BY <3>2, <5>1
      <4> QED BY <3>1, <4>1, <4>2
    <3> QED BY <1>1, <1>3, <3>3 DEF ProvenInv
  <2> QED BY <2>1, <2>2
<1> QED BY <1>2, <1>4, <1>5


-------------------------------------------------------------------------------
(***************************************************************************)
(* The invariant holds.                                                    *)
(***************************************************************************)

\* A header, and a response, as they may arrive.
ShownHeader == \E k \in DOMAIN chain : \E wire : IsHeader(wire) /\ HeaderArrives(k, wire)

ShownProof ==
  \E b \in DOMAIN held, honest \in BOOLEAN : \E r :
    /\ IsResponse(r)
    /\ honest => Convincing(held[b], r)
    /\ ProofArrives(b, honest, r)

LEMMA NextCases ==
  ASSUME Inv, Next
  PROVE  \/ \E tx \in Txs : Include(tx)
         \/ \E mode \in Modes, lookup \in Lookups : Seal(mode, lookup)
         \/ Follow \/ ShownHeader \/ ShownProof
<1>1. ASSUME NEW k \in DOMAIN chain,
             LET origin == ToWire(chain[k].block.header)
                 damaged == {wire \in DamageHeader(origin) : IsHeader(wire)}
             IN  \E wire \in {origin} \cup damaged : HeaderArrives(k, wire)
      PROVE  ShownHeader
  <2>1. PICK wire : /\ wire = ToWire(chain[k].block.header) \/ IsHeader(wire)
                    /\ HeaderArrives(k, wire)
    BY <1>1
  <2>2. IsHeader(ToWire(chain[k].block.header))
    BY OriginIsRead DEF Inv
  <2>3. IsHeader(wire)
    BY <2>1, <2>2
  <2> QED BY <2>1, <2>3 DEF ShownHeader
<1>2. ASSUME NEW b \in DOMAIN held, NEW k \in DOMAIN chain, NEW i \in DOMAIN chain[k].responses,
             LET origin == chain[k].responses[i]
             IN  \/ ProofArrives(b, b = k, origin)
                 \/ \E response \in DamageProof(origin, chain[b].roots) :
                      IsResponse(response) /\ ProofArrives(b, FALSE, response)
      PROVE  ShownProof
  <2> DEFINE origin == chain[k].responses[i]
  <2>1. IsResponse(origin) /\ (k \in DOMAIN held => Convincing(held[k], origin))
    BY AnswerIsAccepted DEF Inv
  <2> HIDE DEF origin
  <2>2. CASE ProofArrives(b, b = k, origin)
    <3>1. PICK honest \in BOOLEAN : honest = (b = k)
      OBVIOUS
    <3>2. ProofArrives(b, honest, origin)
      BY <2>2, <3>1
    <3>3. honest => Convincing(held[b], origin)
      BY <2>1, <3>1
    <3> QED BY <2>1, <3>2, <3>3, Zenon DEF ShownProof
  <2>3. CASE \E r : IsResponse(r) /\ ProofArrives(b, FALSE, r)
    <3>1. PICK r : IsResponse(r) /\ ProofArrives(b, FALSE, r)
      BY <2>3
    <3>2. FALSE \in BOOLEAN
      OBVIOUS
    <3> QED BY <3>1, <3>2, Zenon DEF ShownProof
  <2> QED BY <1>2, <2>2, <2>3, Zenon DEF origin
<1> QED BY <1>1, <1>2, Zenon DEF Next

LEMMA InitInv == Init => Inv
<1> SUFFICES ASSUME Init PROVE Inv
  OBVIOUS
<1>1. /\ chain = << >> /\ pending = << >> /\ sent = << >> /\ cursor = PreGenesis
      /\ held = << >> /\ executed = << >> /\ proven = {} /\ ~refused
  BY DEF Init
<1>2. IsSequence(<< >>) /\ Len(<< >>) = 0 /\ DOMAIN << >> = {}
  BY NoWord, SequenceFacts
<1>3. ChainInv
  BY <1>1, <1>2, BridgeAssumption, U32MaxAssumption DEF ChainInv
<1>4. PendingInv
  BY <1>1, CarriesNone DEF PendingInv
<1>5. SentInv
  <2>1. \A n \in 1 .. (Len(chain) + 1) : TxsAt(n) = << >>
    BY <1>1, <1>2 DEF TxsAt
  <2> QED BY <1>1, <1>2, <2>1 DEF SentInv, Numbered
<1>6. CursorInv
  <2>1. cursor.hash = DefaultHash
    BY <1>1 DEF PreGenesis, BlockIdHash
  <2> QED BY <1>1, <2>1, Zenon DEF CursorInv, IsPreGenesis, PreGenesis
<1>7. HeldInv /\ ExecutedInv /\ ProvenInv
  BY <1>1, <1>2 DEF HeldInv, ExecutedInv, ProvenInv
<1> QED BY <1>1, <1>3, <1>4, <1>5, <1>6, <1>7 DEF Inv

\* The chain grows under the client without taking anything from it.
LEMMA OthersStay ==
  ASSUME Inv, [Next]_vars
  PROVE  /\ cursor' = cursor => CursorInv'
         /\ held' = held => HeldInv'
         /\ executed' = executed => ExecutedInv'
         /\ proven' = proven => ProvenInv'
<1>1. \A n \in DOMAIN chain : n \in DOMAIN chain' /\ chain'[n] = chain[n]
  BY BlocksStay DEF Inv
<1>2. ASSUME NEW n \in DOMAIN chain PROVE TxsAt(n)' = TxsAt(n)
  <2>1. TxsAt(n) = chain[n].block.extrinsics
    BY ChainFacts DEF Inv
  <2>2. TxsAt(n)' = chain'[n].block.extrinsics
    <3>1. ChainInv'
      BY ChainStep DEF Inv
    <3>2. Len(chain') \in Nat /\ DOMAIN chain' = 1 .. Len(chain')
      BY <3>1, SequenceFacts DEF ChainInv
    <3>3. n # Len(chain') + 1
      BY <1>1, <3>2
    <3> QED BY <3>3 DEF TxsAt
  <2> QED BY <1>1, <2>1, <2>2
<1>3. ASSUME cursor' = cursor PROVE CursorInv'
  <2>1. CursorInv
    BY DEF Inv
  <2> QED BY <1>1, <1>3, <2>1 DEF CursorInv, IsPreGenesis
<1>4. ASSUME held' = held PROVE HeldInv'
  <2>1. HeldInv
    BY DEF Inv
  <2> QED BY <1>1, <1>4, <2>1 DEF HeldInv
<1>5. ASSUME executed' = executed PROVE ExecutedInv'
  <2>1. ExecutedInv
    BY DEF Inv
  <2> QED BY <1>1, <1>2, <1>5, <2>1 DEF ExecutedInv
<1>6. ASSUME proven' = proven PROVE ProvenInv'
  <2>1. ProvenInv
    BY DEF Inv
  <2> QED BY <1>1, <1>2, <1>6, <2>1 DEF ProvenInv
<1> QED BY <1>3, <1>4, <1>5, <1>6

LEMMA StepInv == Inv /\ [Next]_vars => Inv'
<1> SUFFICES ASSUME Inv, [Next]_vars PROVE Inv'
  OBVIOUS
<1>1. ChainInv' /\ PendingInv' /\ SentInv'
  BY ChainStep, SentStep DEF Inv
<1>2. CASE UNCHANGED clientVars
  BY <1>1, <1>2, OthersStay DEF Inv, clientVars
<1>3. ASSUME NEW tx \in Txs, Include(tx) PROVE Inv'
  BY <1>2, <1>3 DEF Include, clientVars
<1>4. ASSUME NEW mode \in Modes, NEW lookup \in Lookups, Seal(mode, lookup) PROVE Inv'
  BY <1>2, <1>4 DEF Seal
<1>5. CASE Follow
  <2>1. /\ chain' = chain /\ held' = held /\ executed' = executed /\ proven' = proven
        /\ refused' = refused /\ chain # << >>
        /\ cursor' = BlockIdHash(HashOf(chain[Len(chain)].block.header))
    BY <1>5, Zenon DEF Follow
  <2>2. Len(chain) \in DOMAIN chain
    <3>1. Len(chain) \in Nat /\ DOMAIN chain = 1 .. Len(chain)
      BY ChainFacts DEF Inv
    <3>2. Len(chain) # 0
      <4>1. chain = [k \in 1 .. Len(chain) |-> chain[k]]
        BY SequenceFacts DEF Inv, ChainInv
      <4>2. << >> = [k \in 1 .. 0 |-> chain[k]]
        OBVIOUS
      <4> QED BY <2>1, <4>1, <4>2
    <3> QED BY <3>1, <3>2
  <2>3. cursor'.hash = HashOf(chain[Len(chain)].block.header)
    BY <2>1 DEF BlockIdHash
  <2>4. CursorInv'
    BY <2>1, <2>2, <2>3, Zenon DEF CursorInv
  <2> QED BY <1>1, <2>1, <2>4, OthersStay DEF Inv
<1>6. ASSUME NEW k \in DOMAIN chain, NEW wire, IsHeader(wire), HeaderArrives(k, wire) PROVE Inv'
  <2>1. CursorInv' /\ HeldInv' /\ ~refused'
    BY <1>6, HeaderStep
  <2>2. executed' = executed /\ proven' = proven
    BY <1>6 DEF HeaderArrives
  <2> QED BY <1>1, <2>1, <2>2, OthersStay DEF Inv
<1>7. ASSUME NEW b \in DOMAIN held, NEW honest \in BOOLEAN, NEW r, IsResponse(r),
             honest => Convincing(held[b], r), ProofArrives(b, honest, r)
      PROVE  Inv'
  <2>1. ExecutedInv' /\ ProvenInv' /\ ~refused'
    BY <1>7, ProofStep
  <2>2. cursor' = cursor /\ held' = held
    BY <1>7 DEF ProofArrives
  <2> QED BY <1>1, <2>1, <2>2, OthersStay DEF Inv
<1>8. CASE UNCHANGED vars
  BY <1>2, <1>8 DEF vars, clientVars
<1>9. CASE Next
  <2>1. CASE \E tx \in Txs : Include(tx)
    BY <1>3, <2>1
  <2>2. CASE \E mode \in Modes, lookup \in Lookups : Seal(mode, lookup)
    BY <1>4, <2>2
  <2>3. CASE ShownHeader
    BY <1>6, <2>3, Zenon DEF ShownHeader
  <2>4. CASE ShownProof
    BY <1>7, <2>4, Zenon DEF ShownProof
  <2>5. \/ \E tx \in Txs : Include(tx)
        \/ \E mode \in Modes, lookup \in Lookups : Seal(mode, lookup)
        \/ Follow \/ ShownHeader \/ ShownProof
    BY <1>9, NextCases
  <2> QED BY <1>5, <2>1, <2>2, <2>3, <2>4, <2>5, Zenon
<1> QED BY <1>8, <1>9

\* Blocks follow on each other, identifiers grow, and whatever the client holds,
\* executed or believes is of a block of the chain (Header, tx_uid, DataProof).
THEOREM Invariance == Spec => []Inv
BY InitInv, StepInv, PTL DEF Spec

-------------------------------------------------------------------------------
(***************************************************************************)
(* What it says of the client.                                             *)
(***************************************************************************)

\* A blob the client was convinced of is one of that block: data_root binds both
\* roots, and a leaf of one trie does not pass in the other (TxDataRoots::new).
THEOREM ProvenAreSubmitted == Spec => []ProvenWereSubmitted
<1>1. Inv => ProvenWereSubmitted
  <2> SUFFICES ASSUME Inv, NEW claim \in proven
               PROVE  \E i \in DOMAIN chain[claim.block].block.extrinsics :
                        LET tx == chain[claim.block].block.extrinsics[i]
                        IN  tx.trie = "DataSubmit" /\ tx.blob = claim.blob
    BY DEF ProvenWereSubmitted
  <2>1. /\ claim.block \in DOMAIN chain
        /\ \E i \in DOMAIN TxsAt(claim.block) :
             TxsAt(claim.block)[i].trie = "DataSubmit" /\ TxsAt(claim.block)[i].blob = claim.blob
    BY DEF Inv, ProvenInv
  <2>2. TxsAt(claim.block) = chain[claim.block].block.extrinsics
    BY <2>1, ChainFacts DEF Inv
  <2> QED BY <2>1, <2>2
<1> QED BY <1>1, Invariance, PTL

\* What was asked for and arrives as it was sent is accepted: headers survive
\* SCALE and JSON, and DataProof::new and as_sub_merkle_proof fit together.
THEOREM HonestAnswersAreAccepted == Spec => []HonestIsAccepted
<1>1. Inv => HonestIsAccepted
  BY DEF Inv, HonestIsAccepted
<1> QED BY <1>1, Invariance, PTL

\* One trusted hash vouches for all ancestors (Header::hash).
THEOREM HeldHeadersAreGenuine == Spec => []HeldHeaderIsGenuine
<1>1. Inv => HeldHeaderIsGenuine
  BY DEF Inv, HeldInv, HeldHeaderIsGenuine
<1> QED BY <1>1, Invariance, PTL

\* A faulty block is not taken for an empty one (get_faulty_header).
THEOREM FaultsAreSeen == Spec => []FaultyIsSeen
<1>1. Inv => FaultyIsSeen
  <2> SUFFICES ASSUME Inv, NEW n \in DOMAIN held
               PROVE  LET ext == held[n].extension
                      IN  /\ IsError(ext.app_lookup) <=> chain[n].mode = "faulty"
                          /\ ext.rows * ext.cols = 0 <=> chain[n].mode # "built"
    BY DEF FaultyIsSeen
  <2> DEFINE ext == held[n].extension
             own == chain[n].block.header.extension
  <2>1. /\ n \in DOMAIN chain /\ ext.rows = own.rows /\ ext.cols = own.cols
        /\ IsSequence(ext.app_lookup) /\ IsSequence(own.app_lookup)
        /\ Compact(ext.app_lookup) = Compact(own.app_lookup)
    BY HeldFields DEF Inv
  <2>2. /\ IsError(own.app_lookup) <=> chain[n].mode = "faulty"
        /\ own.rows * own.cols = 0 <=> chain[n].mode # "built"
    BY <2>1 DEF Inv, ChainInv, IsBlock
  <2> HIDE DEF ext, own
  <2>3. IsError(ext.app_lookup) <=> Compact(ext.app_lookup) = CompactError
    BY <2>1, ErrorsStayErrors
  <2>4. IsError(own.app_lookup) <=> Compact(own.app_lookup) = CompactError
    BY <2>1, ErrorsStayErrors
  <2>5. /\ IsError(ext.app_lookup) <=> chain[n].mode = "faulty"
        /\ ext.rows * ext.cols = 0 <=> chain[n].mode # "built"
    BY <2>1, <2>2, <2>3, <2>4
  <2> QED BY <2>5 DEF ext
<1> QED BY <1>1, Invariance, PTL

\* An executed message names the transaction that sent it (tx_uid_deconstruct).
THEOREM IdentifiersLeadBack == Spec => []IdsLeadBack
<1>1. Inv => IdsLeadBack
  <2> SUFFICES ASSUME Inv, NEW k \in DOMAIN executed
               PROVE  LET at == TxUidDeconstruct(executed[k].id)
                      IN  /\ at[1] \in DOMAIN chain
                          /\ at[2] + 1 \in DOMAIN chain[at[1]].block.extrinsics
                          /\ chain[at[1]].block.extrinsics[at[2] + 1].message = executed[k]
    BY DEF IdsLeadBack
  <2>1. PICK n \in DOMAIN chain : \E i \in DOMAIN TxsAt(n) :
          TxsAt(n)[i].trie = "Bridge" /\ TxsAt(n)[i].message = executed[k]
    BY DEF Inv, ExecutedInv
  <2>2. PICK i \in DOMAIN TxsAt(n) : TxsAt(n)[i].message = executed[k]
    BY <2>1
  <2>3. n \in 1 .. U32Max /\ TxsAt(n) = chain[n].block.extrinsics /\ Carries(TxsAt(n), n)
    BY ChainFacts DEF Inv
  <2>4. executed[k].id = TxUid(n, i - 1)
    BY <2>2, <2>3, TxFacts
  <2>5. i - 1 \in 0 .. (U32Size - 1) /\ n \in Nat /\ (i - 1) + 1 = i
    <3>1. /\ Len(TxsAt(n)) \in Nat /\ DOMAIN TxsAt(n) = 1 .. Len(TxsAt(n))
          /\ Len(TxsAt(n)) <= MaxTxs
      BY <2>3, SequenceFacts DEF Carries
    <3>2. i \in 1 .. Len(TxsAt(n))
      BY <3>1
    <3>3. MaxTxs \in 0 .. (U32Size - 1) /\ U32Size \in Nat /\ U32Max \in Nat
      BY BridgeAssumption, U32SizeAssumption, U32MaxAssumption
    <3> QED BY <2>3, <3>1, <3>2, <3>3
  <2> DEFINE at == TxUidDeconstruct(executed[k].id)
  <2>6. at = << n, i - 1 >>
    BY <2>4, <2>5, UidBack
  <2> HIDE DEF at
  <2>7. at[1] = n /\ at[2] + 1 = i
    BY <2>5, <2>6
  <2>8. /\ at[1] \in DOMAIN chain
        /\ at[2] + 1 \in DOMAIN chain[at[1]].block.extrinsics
        /\ chain[at[1]].block.extrinsics[at[2] + 1].message = executed[k]
    BY <2>2, <2>3, <2>7
  <2> QED BY <2>8 DEF at
<1> QED BY <1>1, Invariance, PTL


-------------------------------------------------------------------------------
(***************************************************************************)
(* The promise of the bridge.                                              *)
(***************************************************************************)

LEMMA ContentsAre ==
  ASSUME NEW s, IsSequence(s)
  PROVE  /\ IsSequence(Contents(s)) /\ Len(Contents(s)) = Len(s)
         /\ \A k \in 1 .. Len(s) : Contents(s)[k] = Content(s[k])
<1> DEFINE c == Contents(s)
<1>1. Len(s) \in Nat /\ DOMAIN s = 1 .. Len(s)
  BY SequenceFacts
<1>2. c = [k \in 1 .. Len(s) |-> Content(s[k])]
  BY <1>1 DEF Contents
<1> HIDE DEF c
<1>3. c = [k \in 1 .. Len(s) |-> c[k]]
  BY <1>2
<1>4. IsSequence(c) /\ Len(c) = Len(s)
  BY <1>1, <1>3, SequenceFrom
<1>5. \A k \in 1 .. Len(s) : c[k] = Content(s[k])
  BY <1>2
<1> QED BY <1>4, <1>5 DEF c

LEMMA ContentsOfMore ==
  ASSUME NEW s, NEW m, IsSequence(s)
  PROVE  Contents(Append(s, m)) = Append(Contents(s), Content(m))
<1> DEFINE r == Append(s, m)
           a == Contents(r)
           c == Contents(s)
           b == Append(c, Content(m))
<1>1. Len(s) \in Nat
  BY SequenceFacts
<1>2. /\ IsSequence(r) /\ Len(r) = Len(s) + 1 /\ r[Len(s) + 1] = m
      /\ \A k \in 1 .. Len(s) : r[k] = s[k]
  BY Appended
<1>3. /\ IsSequence(c) /\ Len(c) = Len(s)
      /\ \A k \in 1 .. Len(s) : c[k] = Content(s[k])
  BY ContentsAre
<1> HIDE DEF r
<1>4. /\ IsSequence(a) /\ Len(a) = Len(r)
      /\ \A k \in 1 .. Len(r) : a[k] = Content(r[k])
  BY <1>2, ContentsAre
<1> HIDE DEF a, c
<1>5. /\ IsSequence(b) /\ Len(b) = Len(s) + 1 /\ b[Len(s) + 1] = Content(m)
      /\ \A k \in 1 .. Len(s) : b[k] = c[k]
  <2>1. /\ IsSequence(b) /\ Len(b) = Len(c) + 1 /\ b[Len(c) + 1] = Content(m)
        /\ \A k \in 1 .. Len(c) : b[k] = c[k]
    BY <1>3, Appended
  <2> HIDE DEF b
  <2> QED BY <1>3, <2>1
<1> HIDE DEF b
<1>6. ASSUME NEW k \in 1 .. Len(a) PROVE a[k] = b[k]
  <2>1. CASE k \in 1 .. Len(s)
    <3>1. a[k] = Content(r[k]) /\ r[k] = s[k]
      BY <1>1, <1>2, <1>4, <2>1
    <3>2. b[k] = Content(s[k])
      BY <1>3, <1>5, <2>1
    <3> QED BY <3>1, <3>2
  <2>2. CASE k = Len(s) + 1
    <3>1. a[k] = Content(r[k]) /\ r[k] = m
      BY <1>2, <1>4, <2>2
    <3>2. b[k] = Content(m)
      BY <1>5, <2>2
    <3> QED BY <3>1, <3>2
  <2> QED BY <1>1, <1>2, <1>4, <2>1, <2>2
<1>7. a = b
  BY <1>2, <1>4, <1>5, <1>6, SameSequence
<1> QED BY <1>7 DEF a, b, c, r

LEMMA ExecutedIsSent ==
  ASSUME Inv, NEW j \in DOMAIN executed
  PROVE  \E k \in DOMAIN sent : sent[k] = executed[j]
<1>1. PICK n \in DOMAIN chain : \E i \in DOMAIN TxsAt(n) :
        TxsAt(n)[i].trie = "Bridge" /\ TxsAt(n)[i].message = executed[j]
  BY DEF Inv, ExecutedInv
<1>2. n \in 1 .. (Len(chain) + 1)
  <2>1. Len(chain) \in Nat /\ DOMAIN chain = 1 .. Len(chain)
    BY ChainFacts DEF Inv
  <2> QED BY <2>1
<1> QED BY <1>1, <1>2 DEF Inv, SentInv

\* A message that is encoded as one that was sent is that one, and no other.
LEMMA SentOnce ==
  ASSUME Inv, NEW m, IsAddressed(m), NEW k \in DOMAIN sent, AbiEncode(m) = AbiEncode(sent[k])
  PROVE  m = sent[k] /\ \A other \in DOMAIN sent : sent[other] = m => other = k
<1>1. IsAddressed(sent[k])
  BY DEF Inv, SentInv, Numbered
<1>2. m = sent[k]
  BY <1>1, AbiEncodeInjective
<1>3. ASSUME NEW other \in DOMAIN sent, sent[other] = m PROVE other = k
  <2>1. sent[other].id = sent[k].id
    BY <1>2, <1>3
  <2> QED BY <2>1 DEF Inv, SentInv, Numbered
<1> QED BY <1>2, <1>3

LEMMA ExecutedIsAddressed ==
  ASSUME Inv, NEW j \in DOMAIN executed
  PROVE  IsAddressed(executed[j])
BY ExecutedIsSent DEF Inv, SentInv, Numbered

\* Including a transaction of the bridge sends its message, without identifier.
LEMMA IncludeIsSend ==
  ASSUME Inv, NEW tx \in Txs, Include(tx)
  PROVE  \/ Bridge!Send(tx.message)
         \/ UNCHANGED << ContentsSent, Done, ContentsExecuted >>
<1> DEFINE m == Included(tx, Len(chain) + 1, Len(pending)).message
<1>1. /\ executed' = executed
      /\ sent' = IF tx.trie = "Bridge" THEN Append(sent, m) ELSE sent
  BY DEF Include
<1>2. IsAddressed(m) /\ m.id = TxUid(Len(chain) + 1, Len(pending)) /\ Content(m) = tx.message
  BY IncludedIs
<1> HIDE DEF m
<1>3. CASE tx.trie # "Bridge"
  BY <1>1, <1>3 DEF ContentsSent, Done, ContentsExecuted
<1>4. CASE tx.trie = "Bridge"
  <2>1. sent' = Append(sent, m)
    BY <1>1, <1>4
  <2>2. IsSequence(sent) /\ Len(sent) \in Nat /\ DOMAIN sent = 1 .. Len(sent)
    BY SequenceFacts DEF Inv, SentInv, Numbered
  <2>3. ContentsSent' = Append(ContentsSent, tx.message)
    BY <1>2, <2>1, <2>2, ContentsOfMore DEF ContentsSent
  <2>4. /\ sent'[Len(sent) + 1] = m /\ \A k \in 1 .. Len(sent) : sent'[k] = sent[k]
        /\ DOMAIN sent' = 1 .. (Len(sent) + 1)
    <3>1. /\ IsSequence(sent') /\ Len(sent') = Len(sent) + 1 /\ sent'[Len(sent) + 1] = m
          /\ \A k \in 1 .. Len(sent) : sent'[k] = sent[k]
      BY <2>1, <2>2, Appended
    <3> QED BY <3>1, SequenceFacts
  <2>5. ASSUME NEW j \in DOMAIN executed PROVE AbiEncode(executed[j]) # AbiEncode(m)
    <3>1. IsAddressed(executed[j])
      BY ExecutedIsAddressed
    <3>2. PICK k \in DOMAIN sent : sent[k] = executed[j]
      BY ExecutedIsSent
    <3>3. executed[j].id \in 0 .. (m.id - 1)
      BY <1>2, <3>2 DEF Inv, SentInv, Numbered
    <3>4. executed[j] # m
      BY <3>3
    <3> QED BY <1>2, <3>1, <3>4, AbiEncodeInjective
  <2>6. Done' = Done
    <3>1. ASSUME NEW k \in DOMAIN sent'
          PROVE  (\E j \in DOMAIN executed : AbiEncode(executed[j]) = AbiEncode(sent'[k]))
                   <=> k \in Done
      <4>1. CASE k \in DOMAIN sent
        <5>1. sent'[k] = sent[k]
          BY <2>2, <2>4, <4>1
        <5> QED BY <4>1, <5>1 DEF Done
      <4>2. CASE k \notin DOMAIN sent
        <5>1. sent'[k] = m
          BY <2>2, <2>4, <4>2
        <5> QED BY <2>5, <4>2, <5>1 DEF Done
      <4> QED BY <4>1, <4>2
    <3>2. Done \subseteq DOMAIN sent'
      BY <2>2, <2>4 DEF Done
    <3>3. Done' = {k \in DOMAIN sent' :
                     \E j \in DOMAIN executed : AbiEncode(executed[j]) = AbiEncode(sent'[k])}
      BY <1>1 DEF Done
    <3> QED BY <3>1, <3>2, <3>3, Zenon
  <2>7. ContentsExecuted' = ContentsExecuted
    BY <1>1 DEF ContentsExecuted
  <2> QED BY <2>3, <2>6, <2>7 DEF Bridge!Send
<1> QED BY <1>3, <1>4

\* Executing a message executes the one that was sent, for the first time.
LEMMA ProofIsExecute ==
  ASSUME Inv, NEW b \in DOMAIN held, NEW honest \in BOOLEAN, NEW r, IsResponse(r),
         ProofArrives(b, honest, r)
  PROVE  \/ \E k \in DOMAIN ContentsSent : Bridge!Execute(k)
         \/ UNCHANGED << ContentsSent, Done, ContentsExecuted >>
<1> DEFINE m == r.message
<1>1. sent' = sent
  BY DEF ProofArrives
<1>2. CASE executed' = executed
  BY <1>1, <1>2 DEF ContentsSent, Done, ContentsExecuted
<1>3. CASE executed' # executed
  <2>1. /\ Convincing(held[b], r) /\ r.trie = "Bridge" /\ executed' = Append(executed, m)
        /\ \A j \in DOMAIN executed : AbiEncode(executed[j]) # AbiEncode(m)
    BY <1>3, Zenon DEF ProofArrives
  <2>2. PICK k \in DOMAIN sent : sent[k] = m
    <3>1. /\ b \in DOMAIN chain
          /\ \E i \in DOMAIN TxsAt(b) : TxsAt(b)[i].trie = "Bridge" /\ TxsAt(b)[i].message = m
      BY <2>1, AcceptedProof DEF Inv
    <3>2. b \in 1 .. (Len(chain) + 1)
      <4>1. Len(chain) \in Nat /\ DOMAIN chain = 1 .. Len(chain)
        BY ChainFacts DEF Inv
      <4> QED BY <3>1, <4>1
    <3> QED BY <3>1, <3>2 DEF Inv, SentInv
  <2>3. IsAddressed(m)
    BY DEF IsResponse
  <2> HIDE DEF m
  <2>4. IsSequence(executed) /\ Len(executed) \in Nat /\ DOMAIN executed = 1 .. Len(executed)
    BY SequenceFacts DEF Inv, ExecutedInv
  <2>5. IsSequence(sent) /\ Len(sent) \in Nat /\ DOMAIN sent = 1 .. Len(sent)
    BY SequenceFacts DEF Inv, SentInv, Numbered
  <2>6. /\ executed'[Len(executed) + 1] = m
        /\ \A j \in 1 .. Len(executed) : executed'[j] = executed[j]
        /\ DOMAIN executed' = 1 .. (Len(executed) + 1)
    <3>1. /\ IsSequence(executed') /\ Len(executed') = Len(executed) + 1
          /\ executed'[Len(executed) + 1] = m
          /\ \A j \in 1 .. Len(executed) : executed'[j] = executed[j]
      BY <2>1, <2>4, Appended
    <3> QED BY <3>1, SequenceFacts
  <2>7. k \notin Done
    BY <2>1, <2>2 DEF Done
  <2>8. Done' = Done \cup {k}
    <3>1. ASSUME NEW other \in DOMAIN sent
          PROVE  (\E j \in DOMAIN executed' : AbiEncode(executed'[j]) = AbiEncode(sent[other]))
                   <=> other \in Done \cup {k}
      <4>1. ASSUME NEW j \in DOMAIN executed', AbiEncode(executed'[j]) = AbiEncode(sent[other])
            PROVE  other \in Done \cup {k}
        <5>1. CASE j \in DOMAIN executed
          <6>1. executed'[j] = executed[j]
            BY <2>4, <2>6, <5>1
          <6> QED BY <4>1, <5>1, <6>1 DEF Done
        <5>2. CASE j = Len(executed) + 1
          <6>1. AbiEncode(m) = AbiEncode(sent[other])
            BY <2>6, <4>1, <5>2
          <6>2. k = other
            BY <2>2, <2>3, <6>1, SentOnce
          <6> QED BY <6>2
        <5> QED BY <2>4, <2>6, <5>1, <5>2
      <4>2. ASSUME other \in Done
            PROVE  \E j \in DOMAIN executed' : AbiEncode(executed'[j]) = AbiEncode(sent[other])
        <5>1. PICK j \in DOMAIN executed : AbiEncode(executed[j]) = AbiEncode(sent[other])
          BY <4>2 DEF Done
        <5>2. j \in DOMAIN executed' /\ executed'[j] = executed[j]
          BY <2>4, <2>6
        <5> QED BY <5>1, <5>2
      <4>3. ASSUME other = k
            PROVE  \E j \in DOMAIN executed' : AbiEncode(executed'[j]) = AbiEncode(sent[other])
        <5>1. Len(executed) + 1 \in DOMAIN executed'
          BY <2>4, <2>6
        <5> QED BY <2>2, <2>6, <4>3, <5>1
      <4> QED BY <4>1, <4>2, <4>3
    <3>2. Done \cup {k} \subseteq DOMAIN sent
      BY DEF Done
    <3>3. Done' = {other \in DOMAIN sent :
                     \E j \in DOMAIN executed' : AbiEncode(executed'[j]) = AbiEncode(sent[other])}
      BY <1>1 DEF Done
    <3> QED BY <3>1, <3>2, <3>3, Zenon
  <2>9. k \in DOMAIN ContentsSent /\ ContentsSent[k] = Content(m)
    BY <2>2 DEF ContentsSent, Contents
  <2>10. ContentsExecuted' = Append(ContentsExecuted, ContentsSent[k])
    <3>1. ContentsExecuted' = Append(ContentsExecuted, Content(m))
      BY <2>1, <2>4, ContentsOfMore DEF ContentsExecuted
    <3> QED BY <2>9, <3>1
  <2>11. ContentsSent' = ContentsSent
    BY <1>1 DEF ContentsSent
  <2>12. Bridge!Execute(k)
    BY <2>7, <2>8, <2>10, <2>11 DEF Bridge!Execute
  <2> QED BY <2>9, <2>12
<1> QED BY <1>2, <1>3

\* A message is executed once for each time it was sent, and nothing else is
\* (tx_uid, abi_encode, DataProof::new): BridgeProofs implements MessageBridge.
THEOREM BridgeKeepsPromise == Spec => KeepsBridge
<1>1. Init => Bridge!Init
  <2> SUFFICES ASSUME Init PROVE Bridge!Init
    OBVIOUS
  <2>1. sent = << >> /\ executed = << >> /\ DOMAIN << >> = {}
    BY NoWord, SequenceFacts DEF Init
  <2>2. \A s : s = << >> => Contents(s) = << >>
    <3>1. Contents(<< >>) = [k \in {} |-> Content(<< >>[k])]
      BY <2>1 DEF Contents
    <3> QED BY <3>1
  <2>3. Done = {}
    BY <2>1 DEF Done
  <2> QED BY <2>1, <2>2, <2>3 DEF Bridge!Init, ContentsSent, ContentsExecuted
<1>2. Inv /\ [Next]_vars => [Bridge!Next]_(Bridge!vars)
  <2> SUFFICES ASSUME Inv, [Next]_vars PROVE [Bridge!Next]_(Bridge!vars)
    OBVIOUS
  <2>1. CASE UNCHANGED << sent, executed >>
    BY <2>1 DEF Bridge!vars, ContentsSent, Done, ContentsExecuted
  <2>2. ASSUME NEW tx \in Txs, Include(tx) PROVE [Bridge!Next]_(Bridge!vars)
    <3>1. tx.message \in {u.message : u \in Txs}
      OBVIOUS
    <3> QED BY <2>2, <3>1, IncludeIsSend DEF Bridge!Next, Bridge!vars
  <2>3. ASSUME NEW mode \in Modes, NEW lookup \in Lookups, Seal(mode, lookup)
        PROVE  [Bridge!Next]_(Bridge!vars)
    BY <2>1, <2>3 DEF Seal, clientVars
  <2>4. CASE Follow
    BY <2>1, <2>4 DEF Follow
  <2>5. CASE ShownHeader
    BY <2>1, <2>5 DEF ShownHeader, HeaderArrives
  <2>6. CASE ShownProof
    <3>1. PICK b \in DOMAIN held, honest \in BOOLEAN : \E r :
            IsResponse(r) /\ ProofArrives(b, honest, r)
      BY <2>6, Zenon DEF ShownProof
    <3>2. PICK r : IsResponse(r) /\ ProofArrives(b, honest, r)
      BY <3>1
    <3> QED BY <3>2, ProofIsExecute DEF Bridge!Next, Bridge!vars
  <2>7. CASE UNCHANGED vars
    BY <2>1, <2>7 DEF vars
  <2>8. CASE Next
    BY <2>2, <2>3, <2>4, <2>5, <2>6, <2>8, NextCases, Zenon
  <2> QED BY <2>7, <2>8
<1> QED BY Invariance, <1>1, <1>2, PTL DEF Spec, KeepsBridge, Bridge!Spec

===============================================================================
