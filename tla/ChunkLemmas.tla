---------------------------- MODULE ChunkLemmas ----------------------------
(***************************************************************************)
(* What the operators of BlockChunks return: concatenations, pieces and    *)
(* what was padded, powers of two.  Induction over data is not available   *)
(* to the provers; here it goes over the set of numbers up to which a      *)
(* statement holds.                                                        *)
(***************************************************************************)
EXTENDS BlockChunks, SequenceTheorems, FiniteSetTheorems, WellFoundedInduction, TLAPS

-------------------------------------------------------------------------------
(***************************************************************************)
(* Numbers.                                                                *)
(***************************************************************************)

\* A set of naturals has a least element.
LEMMA LeastElement ==
  ASSUME NEW M, M \subseteq Nat, M # {}
  PROVE  \E n \in M : \A k \in M : n <= k
<1>1. PICK n \in M : \A k \in M : ~(<< k, n >> \in OpToRel(<, Nat))
  BY NatLessThanWellFounded, WFMin
<1>2. ASSUME NEW k \in M PROVE n <= k
  <2>1. k \in Nat /\ n \in Nat
    OBVIOUS
  <2>2. ASSUME k < n PROVE FALSE
    <3>1. << k, n >> \in OpToRel(<, Nat)
      BY <2>1, <2>2 DEF OpToRel
    <3> QED BY <1>1, <3>1
  <2> QED BY <2>1, <2>2
<1> QED BY <1>2

\* Induction up to a number, over a set.
LEMMA UpTo ==
  ASSUME NEW N \in Nat, NEW T, 0 \in T,
         \A n \in 1 .. N : n - 1 \in T => n \in T
  PROVE  \A n \in 0 .. N : n \in T
<1> DEFINE M == {n \in 0 .. N : n \notin T}
<1>1. SUFFICES ASSUME M # {} PROVE FALSE
  OBVIOUS
<1>2. M \subseteq Nat
  OBVIOUS
<1>3. PICK n \in M : \A k \in M : n <= k
  <2> HIDE DEF M
  <2> QED BY <1>1, <1>2, LeastElement
<1>4. n \in 1 .. N
  OBVIOUS
<1>5. n - 1 \in 0 .. N /\ ~(n <= n - 1)
  BY <1>4
<1>6. n - 1 \in T
  BY <1>3, <1>5
<1> QED BY <1>4, <1>6

LEMMA MaxIs ==
  ASSUME NEW a \in Nat, NEW b \in Nat
  PROVE  Max({a, b}) = IF a >= b THEN a ELSE b
<1> DEFINE m == IF a >= b THEN a ELSE b
<1>1. m \in {a, b} /\ \A y \in {a, b} : m >= y
  OBVIOUS
<1>2. \A x \in {a, b} : (\A y \in {a, b} : x >= y) => x = m
  OBVIOUS
<1> HIDE DEF m
<1>3. Max({a, b}) = m
  BY <1>1, <1>2, Zenon DEF Max
<1> QED BY <1>3 DEF m

LEMMA MinIs ==
  ASSUME NEW a \in Nat, NEW b \in Nat
  PROVE  Min({a, b}) = IF a <= b THEN a ELSE b
<1> DEFINE m == IF a <= b THEN a ELSE b
<1>1. m \in {a, b} /\ \A y \in {a, b} : m <= y
  OBVIOUS
<1>2. \A x \in {a, b} : (\A y \in {a, b} : x <= y) => x = m
  OBVIOUS
<1> HIDE DEF m
<1>3. Min({a, b}) = m
  BY <1>1, <1>2, Zenon DEF Min
<1> QED BY <1>3 DEF m

LEMMA Products ==
  ASSUME NEW a \in Nat \ {0}, NEW b \in Nat, NEW c \in Nat
  PROVE  /\ a * b \in Nat /\ b <= a * b
         /\ a * b <= a * c => b <= c
         /\ b <= c => a * b <= a * c
         /\ (a * b) \div a = b
         /\ a * b = b * a
<1>1. a * b \in Nat /\ b <= a * b
  OBVIOUS
<1>2. a * b <= a * c => b <= c
  OBVIOUS
<1>3. b <= c => a * b <= a * c
  OBVIOUS
<1>4. (a * b) \div a = b
  OBVIOUS
<1>5. a * b = b * a
  OBVIOUS
<1> QED BY <1>1, <1>2, <1>3, <1>4, <1>5

LEMMA CeilDivIs ==
  ASSUME NEW a \in Nat, NEW b \in Nat \ {0}
  PROVE  /\ CeilDiv(a, b) \in Nat
         /\ a <= b * CeilDiv(a, b) /\ b * CeilDiv(a, b) <= a + b - 1
         /\ \A c \in Nat : a <= b * c <=> CeilDiv(a, b) <= c
<1> DEFINE q == (a + b - 1) \div b
<1>1. a + b - 1 \in Nat
  OBVIOUS
<1>2. q \in Nat /\ b * q <= a + b - 1 /\ a + b - 1 < b * q + b
  BY <1>1
<1> HIDE DEF q
<1>3. a <= b * q
  BY <1>1, <1>2, Products
<1>4. ASSUME NEW c \in Nat PROVE a <= b * c <=> q <= c
  <2>1. b * q \in Nat /\ b * c \in Nat
    BY <1>2, Products
  <2>2. ASSUME q <= c PROVE a <= b * c
    <3>1. b * q <= b * c
      BY <1>2, <2>2, Products
    <3> QED BY <1>3, <2>1, <3>1
  <2>3. ASSUME a <= b * c, ~(q <= c) PROVE FALSE
    <3>1. c + 1 <= q /\ c + 1 \in Nat
      BY <1>2, <2>3
    <3>2. b * (c + 1) <= b * q
      BY <1>2, <3>1, Products
    <3>3. b * (c + 1) = b * c + b
      OBVIOUS
    <3> QED BY <1>2, <2>1, <2>3, <3>2, <3>3
  <2> QED BY <2>2, <2>3
<1>5. CeilDiv(a, b) = q
  BY DEF CeilDiv, q
<1> QED BY <1>2, <1>3, <1>4, <1>5

-------------------------------------------------------------------------------
\* Powers of two.

IsDoubling(N, f) == f = [k \in 0 .. N |-> IF k = 0 THEN 1 ELSE 2 * f[k - 1]]

LEMMA DoublingExists ==
  ASSUME NEW N \in Nat
  PROVE  \E f : IsDoubling(N, f)
<1> DEFINE T == {n \in 0 .. N : \E f : IsDoubling(n, f)}
<1>1. 0 \in T
  <2> DEFINE f == [k \in 0 .. 0 |-> 1]
  <2>1. IsDoubling(0, f)
    BY DEF IsDoubling
  <2> HIDE DEF f
  <2> QED BY <2>1
<1>2. ASSUME NEW n \in 1 .. N, n - 1 \in T PROVE n \in T
  <2>1. PICK f : IsDoubling(n - 1, f)
    BY <1>2
  <2> DEFINE g == [k \in 0 .. n |-> IF k = n THEN 2 * f[n - 1] ELSE f[k]]
  <2>2. \A k \in 0 .. n - 1 : f[k] = IF k = 0 THEN 1 ELSE 2 * f[k - 1]
    BY <2>1 DEF IsDoubling
  <2>3. \A k \in 0 .. n : /\ k # n => k \in 0 .. n - 1 /\ g[k] = f[k]
                          /\ k # 0 => k - 1 \in 0 .. n /\ g[k - 1] = f[k - 1]
    OBVIOUS
  <2>4. n # 0 /\ n \in 0 .. n /\ g[n] = 2 * f[n - 1]
    OBVIOUS
  <2>5. g = [k \in 0 .. n |-> g[k]]
    OBVIOUS
  <2> HIDE DEF g
  <2>6. ASSUME NEW k \in 0 .. n PROVE g[k] = IF k = 0 THEN 1 ELSE 2 * g[k - 1]
    <3>1. CASE k = n
      BY <2>3, <2>4, <3>1
    <3>2. CASE k # n
      BY <2>2, <2>3, <3>2
    <3> QED BY <3>1, <3>2
  <2>7. IsDoubling(n, g)
    BY <2>5, <2>6 DEF IsDoubling
  <2>8. n \in 0 .. N
    OBVIOUS
  <2> QED BY <2>7, <2>8
<1> HIDE DEF T
<1>3. \A n \in 0 .. N : n \in T
  BY <1>1, <1>2, UpTo
<1>4. N \in T
  BY <1>3
<1> QED BY <1>4 DEF T

Exponents == 0 .. MaxExponent

LEMMA TwoToSteps ==
  /\ TwoTo[0] = 1
  /\ \A k \in 1 .. MaxExponent : TwoTo[k] = 2 * TwoTo[k - 1]
<1>1. MaxExponent \in Nat
  BY ChunkAssumption
<1>2. TwoTo = CHOOSE f : IsDoubling(MaxExponent, f)
  BY Zenon DEF TwoTo, IsDoubling
<1>3. IsDoubling(MaxExponent, TwoTo)
  BY <1>1, <1>2, DoublingExists, Zenon
<1>4. \A k \in 0 .. MaxExponent : TwoTo[k] = IF k = 0 THEN 1 ELSE 2 * TwoTo[k - 1]
  BY <1>3 DEF IsDoubling
<1>5. 0 \in 0 .. MaxExponent /\ \A k \in 1 .. MaxExponent : k \in 0 .. MaxExponent /\ k # 0
  BY <1>1
<1> QED BY <1>4, <1>5

LEMMA TwoToPositive == \A k \in Exponents : TwoTo[k] \in Nat \ {0}
<1> DEFINE T == {k \in Exponents : TwoTo[k] \in Nat \ {0}}
<1>1. MaxExponent \in Nat
  BY ChunkAssumption
<1>2. 0 \in T
  BY <1>1, TwoToSteps DEF Exponents
<1>3. ASSUME NEW n \in 1 .. MaxExponent, n - 1 \in T PROVE n \in T
  BY <1>3, TwoToSteps DEF Exponents
<1> HIDE DEF T
<1>4. \A n \in 0 .. MaxExponent : n \in T
  BY <1>1, <1>2, <1>3, UpTo
<1> QED BY <1>4 DEF T, Exponents

LEMMA PowersPositive == \A p \in Powers : p \in Nat \ {0}
BY TwoToPositive DEF Powers, Exponents

\* Each is at least twice the one before.
LEMMA TwoToGrows ==
  \A j, k \in Exponents : j < k => 2 * TwoTo[j] <= TwoTo[k]
<1> SUFFICES ASSUME NEW j \in Exponents
             PROVE  \A k \in Exponents : j < k => 2 * TwoTo[j] <= TwoTo[k]
  OBVIOUS
<1> DEFINE T == {k \in Exponents : j < k => 2 * TwoTo[j] <= TwoTo[k]}
<1>1. MaxExponent \in Nat
  BY ChunkAssumption
<1>2. 0 \in T
  BY <1>1 DEF Exponents
<1>3. ASSUME NEW n \in 1 .. MaxExponent, n - 1 \in T PROVE n \in T
  <2>1. TwoTo[n] = 2 * TwoTo[n - 1]
    BY TwoToSteps
  <2>2. n - 1 \in Exponents /\ n \in Exponents /\ j \in Nat
    BY <1>1 DEF Exponents
  <2>3. TwoTo[j] \in Nat /\ TwoTo[n - 1] \in Nat
    BY <2>2, TwoToPositive
  <2>4. CASE j = n - 1
    <3>1. TwoTo[j] = TwoTo[n - 1]
      BY <2>4
    <3>2. 2 * TwoTo[j] <= TwoTo[n]
      BY <2>1, <2>3, <3>1
    <3> QED BY <2>2, <3>2
  <2>5. CASE j < n - 1
    <3>1. 2 * TwoTo[j] <= TwoTo[n - 1]
      BY <1>3, <2>5
    <3>2. 2 * TwoTo[j] <= TwoTo[n]
      BY <2>1, <2>3, <3>1
    <3> QED BY <2>2, <3>2
  <2>6. CASE j > n - 1
    BY <2>2, <2>6
  <2> QED BY <2>2, <2>4, <2>5, <2>6
<1> HIDE DEF T
<1>4. \A n \in 0 .. MaxExponent : n \in T
  BY <1>1, <1>2, <1>3, UpTo
<1> QED BY <1>4 DEF T, Exponents

LEMMA PowersApart ==
  ASSUME NEW p \in Powers, NEW q \in Powers, p < q
  PROVE  2 * p <= q
<1>1. PICK j \in Exponents, k \in Exponents : p = TwoTo[j] /\ q = TwoTo[k]
  BY DEF Powers, Exponents
<1>2. TwoTo[j] \in Nat /\ TwoTo[k] \in Nat /\ j \in Nat /\ k \in Nat
  BY TwoToPositive DEF Exponents
<1>3. CASE j < k
  BY <1>1, <1>3, TwoToGrows
<1>4. CASE j = k
  BY <1>1, <1>2, <1>4
<1>5. CASE j > k
  <2>1. 2 * TwoTo[k] <= TwoTo[j]
    BY <1>2, <1>5, TwoToGrows
  <2> QED BY <1>1, <1>2, <2>1
<1> QED BY <1>2, <1>3, <1>4, <1>5

LEMMA OneIsPower == 1 \in Powers
<1>1. 0 \in 0 .. MaxExponent
  BY ChunkAssumption
<1> QED BY <1>1, TwoToSteps DEF Powers

LEMMA HalfIsPower ==
  ASSUME NEW p \in Powers, p # 1
  PROVE  \E h \in Powers : p = 2 * h
<1>1. PICK k \in 0 .. MaxExponent : p = TwoTo[k]
  BY DEF Powers
<1>2. k # 0
  BY <1>1, TwoToSteps
<1>3. k \in 1 .. MaxExponent /\ k - 1 \in 0 .. MaxExponent
  BY <1>2, ChunkAssumption
<1>4. TwoTo[k] = 2 * TwoTo[k - 1] /\ TwoTo[k - 1] \in Powers
  BY <1>3, TwoToSteps DEF Powers
<1> QED BY <1>1, <1>4

\* The quotient of two powers is one.
LEMMA TwoToDivides ==
  ASSUME NEW j \in Exponents
  PROVE  \A k \in Exponents : j <= k => \E r \in Powers : TwoTo[k] = TwoTo[j] * r
<1> DEFINE T == {k \in Exponents : j <= k => \E i \in Exponents : i <= k - j /\ TwoTo[k] = TwoTo[j] * TwoTo[i]}
<1>1. MaxExponent \in Nat /\ j \in Nat
  BY ChunkAssumption DEF Exponents
<1>2. ASSUME NEW n \in Exponents, n = j PROVE n \in T
  <2>1. TwoTo[n] = TwoTo[j] * 1
    BY <1>2, TwoToPositive
  <2>2. 0 \in Exponents /\ TwoTo[0] = 1 /\ 0 <= n - j
    BY <1>1, <1>2, TwoToSteps DEF Exponents
  <2> QED BY <2>1, <2>2
<1>3. 0 \in T
  <2>1. 0 \in Exponents
    BY <1>1 DEF Exponents
  <2>2. CASE j = 0
    BY <1>2, <2>1, <2>2
  <2>3. CASE j # 0
    BY <1>1, <2>1, <2>3
  <2> QED BY <2>2, <2>3
<1>4. ASSUME NEW n \in 1 .. MaxExponent, n - 1 \in T PROVE n \in T
  <2>1. n \in Exponents /\ n - 1 \in Exponents /\ n \in Nat
    BY <1>1 DEF Exponents
  <2>2. CASE j = n
    BY <1>2, <2>1, <2>2
  <2>3. CASE j <= n - 1
    <3>1. PICK i \in Exponents : i <= (n - 1) - j /\ TwoTo[n - 1] = TwoTo[j] * TwoTo[i]
      BY <1>4, <2>3
    <3>2. i + 1 \in Exponents /\ i + 1 \in 1 .. MaxExponent /\ (i + 1) - 1 = i /\ i + 1 <= n - j
      BY <1>1, <2>1, <3>1 DEF Exponents
    <3>3. TwoTo[i + 1] = 2 * TwoTo[i] /\ TwoTo[n] = 2 * TwoTo[n - 1]
      BY <3>2, TwoToSteps
    <3>4. TwoTo[j] \in Nat /\ TwoTo[i] \in Nat
      BY TwoToPositive
    <3>5. 2 * (TwoTo[j] * TwoTo[i]) = TwoTo[j] * (2 * TwoTo[i])
      BY <3>4
    <3>6. TwoTo[n] = TwoTo[j] * TwoTo[i + 1]
      BY <3>1, <3>3, <3>5
    <3> QED BY <2>1, <3>2, <3>6
  <2>4. CASE j > n
    BY <1>1, <2>1, <2>4
  <2> QED BY <1>1, <2>1, <2>2, <2>3, <2>4
<1> HIDE DEF T
<1>5. \A n \in 0 .. MaxExponent : n \in T
  BY <1>1, <1>3, <1>4, UpTo
<1>6. ASSUME NEW k \in Exponents, j <= k PROVE \E r \in Powers : TwoTo[k] = TwoTo[j] * r
  <2>1. PICK i \in Exponents : TwoTo[k] = TwoTo[j] * TwoTo[i]
    BY <1>5, <1>6 DEF T, Exponents
  <2>2. TwoTo[i] \in Powers
    BY DEF Powers, Exponents
  <2> QED BY <2>1, <2>2
<1> QED BY <1>6

LEMMA PowersDivide ==
  ASSUME NEW p \in Powers, NEW q \in Powers, q <= p
  PROVE  \E r \in Powers : p = q * r
<1>1. PICK j \in Exponents, k \in Exponents : q = TwoTo[j] /\ p = TwoTo[k]
  BY DEF Powers, Exponents
<1>2. TwoTo[j] \in Nat \ {0} /\ TwoTo[k] \in Nat \ {0} /\ j \in Nat /\ k \in Nat
  BY TwoToPositive DEF Exponents
<1>3. j <= k
  <2>1. ASSUME j > k PROVE FALSE
    <3>1. 2 * TwoTo[k] <= TwoTo[j]
      BY <1>2, <2>1, TwoToGrows
    <3> QED BY <1>1, <1>2, <3>1
  <2> QED BY <1>2, <2>1
<1> QED BY <1>1, <1>3, TwoToDivides

-------------------------------------------------------------------------------
\* next_power_of_two.

LEMMA NextPower ==
  ASSUME NEW n \in Nat, n <= TwoTo[MaxExponent]
  PROVE  /\ NextPowerOfTwo(n) \in Powers /\ n <= NextPowerOfTwo(n)
         /\ \A p \in Powers : n <= p => NextPowerOfTwo(n) <= p
<1> DEFINE S == {power \in Powers : power >= n}
<1>1. n \in Nat /\ n <= TwoTo[MaxExponent]
  OBVIOUS
<1>2. S \subseteq Nat /\ S # {}
  <2>1. MaxExponent \in 0 .. MaxExponent
    BY ChunkAssumption
  <2>2. TwoTo[MaxExponent] \in Powers
    BY <2>1 DEF Powers
  <2>3. TwoTo[MaxExponent] \in Nat
    BY <2>2, PowersPositive
  <2>4. TwoTo[MaxExponent] \in S
    BY <1>1, <2>2, <2>3
  <2> QED BY <2>4, PowersPositive
<1>3. Min(S) \in S /\ \A y \in S : Min(S) <= y
  <2> HIDE DEF S
  <2>1. \E x \in S : \A y \in S : x <= y
    BY <1>2, LeastElement
  <2> QED BY <2>1, Zenon DEF Min
<1>4. NextPowerOfTwo(n) = Min(S)
  BY Zenon DEF NextPowerOfTwo
<1>5. Min(S) \in Powers /\ Min(S) >= n
  BY <1>3
<1>6. \A p \in Powers : n <= p => Min(S) <= p
  <2> SUFFICES ASSUME NEW p \in Powers, n <= p PROVE Min(S) <= p
    OBVIOUS
  <2>1. p \in Nat
    BY PowersPositive
  <2>2. p \in S
    BY <1>1, <2>1
  <2> QED BY <1>3, <2>2
<1>7. Min(S) \in Nat
  BY <1>2, <1>3
<1> HIDE DEF S
<1> QED BY <1>1, <1>4, <1>5, <1>6, <1>7

\* It is no more than twice as large.
LEMMA NextPowerIsClose ==
  ASSUME NEW n \in Nat, n <= TwoTo[MaxExponent]
  PROVE  NextPowerOfTwo(n) = 1 \/ NextPowerOfTwo(n) <= 2 * (n - 1)
<1> DEFINE p == NextPowerOfTwo(n)
<1>1. p \in Powers /\ \A q \in Powers : n <= q => p <= q
  BY NextPower
<1>2. n \in Nat
  OBVIOUS
<1>3. ASSUME p # 1 PROVE p <= 2 * (n - 1)
  <2> HIDE DEF p
  <2>1. PICK h \in Powers : p = 2 * h
    BY <1>1, <1>3, HalfIsPower
  <2>2. h \in Nat \ {0}
    BY PowersPositive
  <2>3. ~(n <= h)
    BY <1>1, <2>1, <2>2
  <2> QED BY <1>2, <2>1, <2>2, <2>3
<1> QED BY <1>3

-------------------------------------------------------------------------------
\* Concatenations of many sequences.

\* What FlattenSeq computes, and that it is this.
IsFlat(seqs, N, f) == f = [i \in 1 .. N |-> IF i = 1 THEN seqs[i] ELSE f[i - 1] \o seqs[i]]

LEMMA FlattenIs ==
  ASSUME NEW seqs, Len(seqs) # 0
  PROVE  FlattenSeq(seqs) = (CHOOSE f : IsFlat(seqs, Len(seqs), f))[Len(seqs)]
BY Zenon DEF FlattenSeq, IsFlat

LEMMA FlattenNothing ==
  ASSUME NEW seqs, Len(seqs) = 0
  PROVE  FlattenSeq(seqs) = seqs
BY Zenon DEF FlattenSeq

LEMMA FlatExists ==
  ASSUME NEW seqs, NEW N \in Nat
  PROVE  \E f : IsFlat(seqs, N, f)
<1> DEFINE T == {n \in 0 .. N : \E f : IsFlat(seqs, n, f)}
<1>1. 0 \in T
  <2> DEFINE f == [i \in 1 .. 0 |-> << >>]
  <2>1. IsFlat(seqs, 0, f)
    BY DEF IsFlat
  <2> HIDE DEF f
  <2> QED BY <2>1
<1>2. ASSUME NEW n \in 1 .. N, n - 1 \in T PROVE n \in T
  <2>1. PICK f : IsFlat(seqs, n - 1, f)
    BY <1>2
  <2> DEFINE g == [i \in 1 .. n |-> IF i = n THEN IF i = 1 THEN seqs[i] ELSE f[i - 1] \o seqs[i]
                                    ELSE f[i]]
  <2>2. \A i \in 1 .. n - 1 : f[i] = IF i = 1 THEN seqs[i] ELSE f[i - 1] \o seqs[i]
    BY <2>1 DEF IsFlat
  <2>3. \A i \in 1 .. n : i # 1 => i - 1 \in 1 .. n /\ i - 1 # n
    OBVIOUS
  <2>4. ASSUME NEW i \in 1 .. n
        PROVE  g[i] = IF i = 1 THEN seqs[i] ELSE g[i - 1] \o seqs[i]
    <3>1. i # 1 => g[i - 1] = f[i - 1]
      BY <2>3
    <3>2. CASE i = n
      <4>1. g[i] = IF i = 1 THEN seqs[i] ELSE f[i - 1] \o seqs[i]
        BY <3>2
      <4> HIDE DEF g
      <4> QED BY <3>1, <4>1, Zenon
    <3>3. CASE i # n
      <4>1. g[i] = f[i] /\ i \in 1 .. n - 1
        BY <3>3
      <4> HIDE DEF g
      <4> QED BY <2>2, <3>1, <4>1, Zenon
    <3> QED BY <3>2, <3>3
  <2>5. g = [i \in 1 .. n |-> g[i]]
    OBVIOUS
  <2> HIDE DEF g
  <2>6. IsFlat(seqs, n, g)
    BY <2>4, <2>5 DEF IsFlat
  <2>7. n \in 0 .. N
    OBVIOUS
  <2> QED BY <2>6, <2>7
<1> HIDE DEF T
<1>3. \A n \in 0 .. N : n \in T
  BY <1>1, <1>2, UpTo
<1>4. N \in T
  BY <1>3
<1> QED BY <1>4 DEF T

\* The concatenations of the first ones, up to the one of all.
LEMMA FlattenSteps ==
  ASSUME NEW S, NEW seqs \in Seq(Seq(S)), Len(seqs) # 0
  PROVE  \E f : /\ \A i \in 1 .. Len(seqs) : f[i] \in Seq(S)
                /\ \A i \in 1 .. Len(seqs) : f[i] = IF i = 1 THEN seqs[i] ELSE f[i - 1] \o seqs[i]
                /\ FlattenSeq(seqs) = f[Len(seqs)]
<1> DEFINE N == Len(seqs)
           f == CHOOSE g : IsFlat(seqs, N, g)
<1>1. N \in Nat
  BY LenProperties
<1>2. IsFlat(seqs, N, f)
  <2>1. \E g : IsFlat(seqs, N, g)
    BY <1>1, FlatExists
  <2> QED BY <2>1, Zenon
<1>3. FlattenSeq(seqs) = f[N]
  BY FlattenIs
<1> HIDE DEF f
<1>4. \A i \in 1 .. N : f[i] = IF i = 1 THEN seqs[i] ELSE f[i - 1] \o seqs[i]
  BY <1>2 DEF IsFlat
<1> DEFINE T == {0} \cup {n \in 1 .. N : f[n] \in Seq(S)}
<1>5. \A n \in 0 .. N : n \in T
  <2>1. 0 \in T
    OBVIOUS
  <2>2. ASSUME NEW n \in 1 .. N, n - 1 \in T PROVE n \in T
    <3>1. seqs[n] \in Seq(S)
      BY ElementOfSeq
    <3>2. CASE n = 1
      BY <1>4, <3>1, <3>2
    <3>3. CASE n # 1
      <4>1. f[n] = f[n - 1] \o seqs[n]
        BY <1>4, <3>3
      <4>2. f[n - 1] \in Seq(S)
        BY <2>2, <3>3
      <4>3. f[n - 1] \o seqs[n] \in Seq(S)
        BY <3>1, <4>2, ConcatProperties
      <4> QED BY <4>1, <4>3
    <3> QED BY <3>2, <3>3
  <2> HIDE DEF T
  <2> QED BY <1>1, <2>1, <2>2, UpTo
<1>6. \A i \in 1 .. N : f[i] \in Seq(S)
  <2>1. \A i \in 1 .. N : i \in 0 .. N /\ i # 0
    OBVIOUS
  <2> QED BY <1>5, <2>1
<1> HIDE DEF N
<1>7. /\ \A i \in 1 .. N : f[i] \in Seq(S)
      /\ \A i \in 1 .. N : f[i] = IF i = 1 THEN seqs[i] ELSE f[i - 1] \o seqs[i]
      /\ FlattenSeq(seqs) = f[N]
  BY <1>3, <1>4, <1>6
<1> QED BY <1>7 DEF N

LEMMA FlattenTyped ==
  ASSUME NEW S, NEW seqs \in Seq(Seq(S))
  PROVE  FlattenSeq(seqs) \in Seq(S)
<1>1. CASE Len(seqs) = 0
  <2>1. FlattenSeq(seqs) = seqs /\ seqs = << >>
    BY <1>1, FlattenNothing, EmptySeq
  <2> QED BY <2>1
<1>2. CASE Len(seqs) # 0
  <2>1. Len(seqs) \in 1 .. Len(seqs)
    BY <1>2, LenProperties
  <2> QED BY <1>2, <2>1, FlattenSteps
<1> QED BY <1>1, <1>2

\* Whatever grows by one sequence after the other ends in their concatenation.
LEMMA FlattenedBy ==
  ASSUME NEW S, NEW seqs \in Seq(Seq(S)), Len(seqs) # 0, NEW whole,
         \A i \in 1 .. Len(seqs) : whole[i] = IF i = 1 THEN seqs[i] ELSE whole[i - 1] \o seqs[i]
  PROVE  FlattenSeq(seqs) = whole[Len(seqs)]
<1> DEFINE N == Len(seqs)
<1>0. N \in Nat \ {0}
  BY LenProperties
<1>1. PICK f : /\ \A i \in 1 .. N : f[i] = IF i = 1 THEN seqs[i] ELSE f[i - 1] \o seqs[i]
               /\ FlattenSeq(seqs) = f[N]
  BY FlattenSteps
<1> DEFINE T == {0} \cup {n \in 1 .. N : f[n] = whole[n]}
<1>2. \A n \in 0 .. N : n \in T
  <2>1. 0 \in T
    OBVIOUS
  <2>2. ASSUME NEW n \in 1 .. N, n - 1 \in T PROVE n \in T
    <3>1. n # 1 => f[n - 1] = whole[n - 1]
      BY <2>2
    <3>2. f[n] = IF n = 1 THEN seqs[n] ELSE f[n - 1] \o seqs[n]
      BY <1>1
    <3>3. whole[n] = IF n = 1 THEN seqs[n] ELSE whole[n - 1] \o seqs[n]
      OBVIOUS
    <3>4. f[n] = whole[n]
      BY <3>1, <3>2, <3>3
    <3> QED BY <3>4
  <2> HIDE DEF T
  <2> QED BY <1>0, <2>1, <2>2, UpTo
<1>3. N \in 0 .. N /\ N # 0
  BY <1>0
<1>4. f[N] = whole[N]
  BY <1>2, <1>3
<1> QED BY <1>1, <1>4

LEMMA FlattenCons ==
  ASSUME NEW S, NEW p \in Seq(S), NEW others \in Seq(Seq(S))
  PROVE  FlattenSeq(<< p >> \o others) = p \o FlattenSeq(others)
<1> DEFINE seqs == << p >> \o others
           N == Len(others)
<1>1. N \in Nat /\ << p >> \in Seq(Seq(S)) /\ Len(<< p >>) = 1 /\ << p >>[1] = p
  BY LenProperties
<1>2. /\ seqs \in Seq(Seq(S)) /\ Len(seqs) = N + 1
      /\ \A i \in 1 .. N + 1 : seqs[i] = IF i <= 1 THEN << p >>[i] ELSE others[i - 1]
  BY <1>1, ConcatProperties
<1>3. seqs[1] = p /\ \A i \in 1 .. N + 1 : i # 1 => seqs[i] = others[i - 1]
  <2>1. 1 \in 1 .. N + 1 /\ \A i \in 1 .. N + 1 : i # 1 => ~(i <= 1)
    BY <1>1
  <2> QED BY <1>1, <1>2, <2>1
<1> HIDE DEF seqs
<1>4. CASE N = 0
  <2>1. others = << >> /\ FlattenSeq(others) = << >>
    BY <1>4, EmptySeq, FlattenNothing
  <2> DEFINE whole == [i \in 1 .. 1 |-> p]
  <2>2. \A i \in 1 .. 1 : whole[i] = IF i = 1 THEN seqs[i] ELSE whole[i - 1] \o seqs[i]
    BY <1>3
  <2>3. whole[1] = p
    OBVIOUS
  <2> HIDE DEF whole
  <2>4. FlattenSeq(seqs) = whole[1]
    <3>1. Len(seqs) = 1
      BY <1>2, <1>4
    <3> QED BY <1>2, <2>2, <3>1, FlattenedBy
  <2>5. p \o << >> = p
    BY ConcatEmptySeq
  <2> QED BY <2>1, <2>3, <2>4, <2>5 DEF seqs
<1>5. CASE N # 0
  <2>1. PICK f : /\ \A i \in 1 .. N : f[i] \in Seq(S)
                 /\ \A i \in 1 .. N : f[i] = IF i = 1 THEN others[i] ELSE f[i - 1] \o others[i]
                 /\ FlattenSeq(others) = f[N]
    BY <1>5, FlattenSteps
  <2> DEFINE whole == [i \in 1 .. N + 1 |-> IF i = 1 THEN p ELSE p \o f[i - 1]]
  <2>2. ASSUME NEW i \in 1 .. N + 1
        PROVE  whole[i] = IF i = 1 THEN seqs[i] ELSE whole[i - 1] \o seqs[i]
    <3>1. CASE i = 1
      BY <1>3, <3>1
    <3>2. CASE i # 1
      <4>0. i - 1 \in 1 .. N /\ i - 1 \in 1 .. N + 1 /\ i \in Nat
        BY <1>1, <3>2
      <4>1. whole[i] = p \o f[i - 1] /\ seqs[i] = others[i - 1]
        BY <1>3, <3>2
      <4>2. CASE i = 2
        <5>1. whole[i - 1] = p
          BY <4>0, <4>2
        <5>2. f[i - 1] = others[i - 1]
          BY <2>1, <4>0, <4>2
        <5> QED BY <3>2, <4>1, <5>1, <5>2
      <4>3. CASE i # 2
        <5>0. i - 1 # 1 /\ (i - 1) - 1 \in 1 .. N
          BY <3>2, <4>0, <4>3
        <5>1. whole[i - 1] = p \o f[(i - 1) - 1]
          BY <4>0, <5>0
        <5>2. f[i - 1] = f[(i - 1) - 1] \o others[i - 1]
          BY <2>1, <4>0, <5>0
        <5>3. f[(i - 1) - 1] \in Seq(S) /\ others[i - 1] \in Seq(S)
          BY <2>1, <4>0, <5>0, ElementOfSeq
        <5>4. (p \o f[(i - 1) - 1]) \o others[i - 1] = p \o (f[(i - 1) - 1] \o others[i - 1])
          <6>1. \A a, b \in Seq(S) : (p \o a) \o b = p \o (a \o b)
            BY ConcatAssociative
          <6> QED BY <5>3, <6>1, Zenon
        <5> HIDE DEF whole
        <5> QED BY <3>2, <4>1, <5>1, <5>2, <5>4
      <4> QED BY <4>2, <4>3
    <3> QED BY <3>1, <3>2
  <2>3. whole[N + 1] = p \o f[N]
    <3>1. N + 1 \in 1 .. N + 1 /\ N + 1 # 1 /\ N + 1 - 1 = N
      BY <1>1, <1>5
    <3> QED BY <3>1
  <2> HIDE DEF whole
  <2>4. FlattenSeq(seqs) = whole[N + 1]
    <3>1. seqs \in Seq(Seq(S)) /\ Len(seqs) # 0
      BY <1>1, <1>2
    <3>2. \A i \in 1 .. Len(seqs) : whole[i] = IF i = 1 THEN seqs[i] ELSE whole[i - 1] \o seqs[i]
      BY <1>2, <2>2
    <3>3. FlattenSeq(seqs) = whole[Len(seqs)]
      BY <3>1, <3>2, FlattenedBy
    <3> QED BY <1>2, <3>3
  <2> QED BY <2>1, <2>3, <2>4 DEF seqs
<1> QED BY <1>4, <1>5

-------------------------------------------------------------------------------
\* The slices of the cells are the bytes, and zeroes behind them.

LEMMA Division ==
  ASSUME NEW m \in Nat, NEW d \in Nat \ {0}
  PROVE  m = d * (m \div d) + (m % d)
OBVIOUS

\* Enough pieces, the last of which begins before the end.
LEMMA EnoughPieces ==
  ASSUME NEW L \in Nat \ {0}, NEW d \in Nat \ {0}
  PROVE  /\ CeilDiv(L, d) \in Nat \ {0}
         /\ L <= CeilDiv(L, d) * d
         /\ CeilDiv(L, d) * d < L + d
<1> DEFINE m == L + d - 1
<1>1. m \in Nat /\ m >= d
  OBVIOUS
<1> HIDE DEF m
<1>2. /\ m \div d \in Nat /\ m % d \in 0 .. (d - 1)
      /\ m = d * (m \div d) + (m % d)
  <2>1. m \div d \in Nat
    BY <1>1
  <2>2. m % d \in 0 .. (d - 1)
    BY <1>1
  <2>3. m = d * (m \div d) + (m % d)
    BY <1>1, Division
  <2> QED BY <2>1, <2>2, <2>3
<1>3. m \div d # 0
  <2> SUFFICES ASSUME m \div d = 0 PROVE FALSE
    OBVIOUS
  <2>1. d * (m \div d) = 0
    OBVIOUS
  <2> QED BY <1>1, <1>2, <2>1
<1> DEFINE q == m \div d
           r == m % d
<1>4. q \in Nat \ {0} /\ r \in 0 .. (d - 1) /\ L + d - 1 = d * q + r
  BY <1>2, <1>3 DEF m
<1>5. CeilDiv(L, d) = q
  BY DEF CeilDiv, m
<1> HIDE DEF q, r
<1>6. d * q = q * d /\ q * d \in Nat
  BY <1>4
<1> QED BY <1>4, <1>5, <1>6

LEMMA Multiples ==
  ASSUME NEW n \in Nat, NEW d \in Nat \ {0}, NEW k \in 1 .. n
  PROVE  /\ (k - 1) * d \in Nat /\ k * d \in Nat /\ n * d \in Nat
         /\ k * d = (k - 1) * d + d
         /\ k * d <= n * d
<1>1. k * d = (k - 1) * d + d
  OBVIOUS
<1>2. k * d <= n * d
  <2>1. n * d = k * d + (n - k) * d
    OBVIOUS
  <2>2. n - k \in Nat /\ (n - k) * d \in Nat /\ k * d \in Nat
    OBVIOUS
  <2> QED BY <2>1, <2>2
<1>3. k - 1 \in Nat /\ (k - 1) * d \in Nat /\ k * d \in Nat /\ n * d \in Nat
  OBVIOUS
<1> QED BY <1>1, <1>2, <1>3

LEMMA ZeroesAre ==
  ASSUME NEW n \in Nat
  PROVE  /\ Zeroes(n) \in Seq(Nat) /\ Len(Zeroes(n)) = n
         /\ \A k \in 1 .. n : Zeroes(n)[k] = 0
BY DEF Zeroes

\* From a place up to a length, and zeroes up to a width.
LEMMA PaddedPiece ==
  ASSUME NEW bytes \in Seq(Nat), NEW from \in Nat, NEW to \in Nat, from < to, to <= Len(bytes),
         NEW width \in Nat, to - from <= width, NEW j \in 1 .. width
  PROVE  PadWithZeroes(SubSeq(bytes, from + 1, to), width)[j]
           = IF from + j <= to THEN bytes[from + j] ELSE 0
<1> DEFINE piece == SubSeq(bytes, from + 1, to)
           n == to - from
           zeroes == Zeroes(width - n)
<1>0. Len(bytes) \in Nat
  BY LenProperties
<1>1. piece \in Seq(Nat) /\ Len(piece) = n /\ \A i \in 1 .. n : piece[i] = bytes[from + i]
  <2>1. \A i \in (from + 1) .. to : bytes[i] \in Nat
    BY <1>0, ElementOfSeq
  <2>2. from + 1 \in Int /\ to \in Int /\ from + 1 <= to
    OBVIOUS
  <2>3. /\ piece \in Seq(Nat) /\ Len(piece) = to - (from + 1) + 1
        /\ \A i \in 1 .. to - (from + 1) + 1 : piece[i] = bytes[from + 1 + i - 1]
    BY <2>1, <2>2, SubSeqProperties
  <2>4. to - (from + 1) + 1 = n /\ \A i \in 1 .. n : from + 1 + i - 1 = from + i
    OBVIOUS
  <2> HIDE DEF piece
  <2> QED BY <2>3, <2>4
<1>2. n \in Nat /\ width - n \in Nat
  OBVIOUS
<1>3. zeroes \in Seq(Nat) /\ Len(zeroes) = width - n /\ \A i \in 1 .. (width - n) : zeroes[i] = 0
  BY <1>2, ZeroesAre
<1>4. PadWithZeroes(piece, width) = piece \o zeroes
  BY <1>1 DEF PadWithZeroes
<1> HIDE DEF piece, zeroes, n
<1>5. j \in 1 .. (n + (width - n))
  BY <1>2
<1>6. (piece \o zeroes)[j] = IF j <= n THEN piece[j] ELSE zeroes[j - n]
  BY <1>1, <1>3, <1>5, ConcatProperties
<1>7. CASE j <= n
  <2>1. j \in 1 .. n /\ from + j <= to
    BY <1>2, <1>7 DEF n
  <2> QED BY <1>1, <1>4, <1>6, <1>7, <2>1 DEF piece
<1>8. CASE ~(j <= n)
  <2>1. j - n \in 1 .. (width - n) /\ ~(from + j <= to)
    BY <1>2, <1>8 DEF n
  <2> QED BY <1>3, <1>4, <1>6, <1>8, <2>1 DEF piece
<1> QED BY <1>7, <1>8 DEF piece

LEMMA PaddedIs ==
  ASSUME NEW bytes \in Seq(Nat), NEW width \in Nat, Len(bytes) <= width
  PROVE  /\ PadWithZeroes(bytes, width) \in Seq(Nat)
         /\ Len(PadWithZeroes(bytes, width)) = width
<1>1. Len(bytes) \in Nat /\ width - Len(bytes) \in Nat
  BY LenProperties
<1>2. Zeroes(width - Len(bytes)) \in Seq(Nat) /\ Len(Zeroes(width - Len(bytes))) = width - Len(bytes)
  BY <1>1, ZeroesAre
<1> QED BY <1>1, <1>2, ConcatProperties DEF PadWithZeroes

\* What is behind the bytes is zero.
LEMMA PaddedAt ==
  ASSUME NEW bytes \in Seq(Nat), NEW width \in Nat, Len(bytes) <= width, NEW j \in 1 .. width
  PROVE  PadWithZeroes(bytes, width)[j] = IF j <= Len(bytes) THEN bytes[j] ELSE 0
<1> DEFINE n == Len(bytes)
           zeroes == Zeroes(width - n)
<1>1. n \in Nat /\ width - n \in Nat
  BY LenProperties
<1>2. zeroes \in Seq(Nat) /\ Len(zeroes) = width - n /\ \A i \in 1 .. (width - n) : zeroes[i] = 0
  BY <1>1, ZeroesAre
<1>3. j \in 1 .. (n + (width - n))
  BY <1>1
<1> HIDE DEF zeroes
<1>4. (bytes \o zeroes)[j] = IF j <= n THEN bytes[j] ELSE zeroes[j - n]
  BY <1>2, <1>3, ConcatProperties
<1>5. ~(j <= n) => j - n \in 1 .. (width - n)
  BY <1>1
<1> QED BY <1>2, <1>4, <1>5 DEF PadWithZeroes, zeroes

\* What is data in the padded pieces.
DataSlices(bytes, width) ==
  [k \in DOMAIN Pieces(bytes, DATA_CHUNK_SIZE) |->
     SubSeq(PadWithZeroes(Pieces(bytes, DATA_CHUNK_SIZE)[k], width), 1, DATA_CHUNK_SIZE)]

LEMMA DataSlicesAre ==
  ASSUME NEW bytes \in Seq(Nat), bytes # << >>, NEW width \in Nat, DATA_CHUNK_SIZE <= width
  PROVE  LET n == CeilDiv(Len(bytes), DATA_CHUNK_SIZE)
             padded == PadWithZeroes(bytes, n * DATA_CHUNK_SIZE)
         IN  DataSlices(bytes, width) = [k \in 1 .. n |->
               SubSeq(padded, (k - 1) * DATA_CHUNK_SIZE + 1, k * DATA_CHUNK_SIZE)]
<1> DEFINE d == DATA_CHUNK_SIZE
           L == Len(bytes)
           n == CeilDiv(L, d)
           padded == PadWithZeroes(bytes, n * d)
           piece(k) == SubSeq(bytes, (k - 1) * d + 1, Min({k * d, L}))
           cell(k) == PadWithZeroes(piece(k), width)
<1>1. d \in Nat \ {0} /\ width \in Nat /\ d <= width
  BY ChunkAssumption
<1>2. L \in Nat \ {0}
  BY EmptySeq
<1>3. n \in Nat \ {0} /\ L <= n * d /\ n * d < L + d
  BY <1>1, <1>2, EnoughPieces
<1>4. DataSlices(bytes, width) = [k \in 1 .. n |-> SubSeq(cell(k), 1, d)]
  <2>1. DOMAIN Pieces(bytes, d) = 1 .. n /\ \A k \in 1 .. n : Pieces(bytes, d)[k] = piece(k)
    BY DEF Pieces
  <2> HIDE DEF n, d, piece
  <2> QED BY <2>1 DEF DataSlices, d
<1>5. ASSUME NEW k \in 1 .. n
      PROVE  SubSeq(cell(k), 1, d) = SubSeq(padded, (k - 1) * d + 1, k * d)
  <2> DEFINE from == (k - 1) * d
             to == Min({k * d, L})
  <2>1. /\ from \in Nat /\ k * d \in Nat /\ n * d \in Nat
        /\ k * d = from + d /\ k * d <= n * d
    <3>1. n \in Nat
      BY <1>3
    <3> HIDE DEF n, d
    <3> QED BY <1>1, <3>1, Multiples
  <2>2. to = IF k * d <= L THEN k * d ELSE L
    <3>1. L \in Nat /\ k * d \in Nat
      BY <1>2, <2>1
    <3> HIDE DEF n, d, L
    <3> QED BY <3>1, MinIs
  <2> DEFINE kd == k * d
             nd == n * d
  <2>3. cell(k) = PadWithZeroes(SubSeq(bytes, from + 1, to), width)
    OBVIOUS
  <2>4. padded = PadWithZeroes(bytes, nd)
    OBVIOUS
  <2>5. /\ from \in Nat /\ kd \in Nat /\ nd \in Nat /\ kd = from + d /\ kd <= nd
        /\ to = (IF kd <= L THEN kd ELSE L) /\ L <= nd /\ nd < L + d
    BY <1>3, <2>1, <2>2
  <2> HIDE DEF from, to, kd, nd, d, L, n, padded, cell
  <2>6. from < to /\ to \in Nat /\ to <= L /\ to - from <= d /\ to - from <= width
    BY <1>1, <1>2, <2>5
  <2>7. \A j \in 1 .. width :
          cell(k)[j] = IF from + j <= to THEN bytes[from + j] ELSE 0
    <3>1. from < to /\ to <= Len(bytes) /\ to - from <= width /\ from \in Nat /\ to \in Nat
      BY <2>5, <2>6 DEF L
    <3>2. width \in Nat
      BY <1>1
    <3> QED BY <2>3, <3>1, <3>2, PaddedPiece
  <2>8. padded \in Seq(Nat) /\ Len(padded) = nd
    BY <2>4, <2>5, PaddedIs DEF L
  <2>9. \A j \in 1 .. nd : padded[j] = IF j <= L THEN bytes[j] ELSE 0
    BY <2>4, <2>5, PaddedAt DEF L
  <2>10. \A j \in 1 .. d : cell(k)[j] = padded[from + j]
    <3> SUFFICES ASSUME NEW j \in 1 .. d PROVE cell(k)[j] = padded[from + j]
      OBVIOUS
    <3>1. j \in 1 .. width /\ from + j \in 1 .. nd /\ (from + j <= to <=> from + j <= L)
      BY <1>1, <1>2, <2>5
    <3> QED BY <2>7, <2>9, <3>1
  <2>11. /\ SubSeq(padded, from + 1, kd) \in Seq(Nat) /\ Len(SubSeq(padded, from + 1, kd)) = d
         /\ \A j \in 1 .. d : SubSeq(padded, from + 1, kd)[j] = padded[from + j]
    <3>1. \A i \in (from + 1) .. kd : padded[i] \in Nat
      BY <2>5, <2>8, ElementOfSeq
    <3>2. from + 1 \in Int /\ kd \in Int /\ from + 1 <= kd /\ kd - (from + 1) + 1 = d
      BY <1>1, <2>5
    <3>3. \A j \in 1 .. d : from + 1 + j - 1 = from + j
      BY <1>1, <2>5
    <3>4. /\ SubSeq(padded, from + 1, kd) \in Seq(Nat)
          /\ Len(SubSeq(padded, from + 1, kd)) = kd - (from + 1) + 1
          /\ \A j \in 1 .. kd - (from + 1) + 1 : SubSeq(padded, from + 1, kd)[j] = padded[from + 1 + j - 1]
      BY <3>1, <3>2, SubSeqProperties
    <3> QED BY <3>2, <3>3, <3>4
  <2>12. /\ SubSeq(cell(k), 1, d) \in Seq(Nat) /\ Len(SubSeq(cell(k), 1, d)) = d
         /\ \A j \in 1 .. d : SubSeq(cell(k), 1, d)[j] = cell(k)[j]
    <3>1. \A i \in 1 .. d : cell(k)[i] \in Nat
      <4>1. \A i \in 1 .. d : from + i \in 1 .. Len(padded)
        BY <1>1, <2>5, <2>8
      <4> QED BY <2>8, <2>10, <4>1, ElementOfSeq
    <3>2. 1 \in Int /\ d \in Int /\ 1 <= d /\ d - 1 + 1 = d /\ \A j \in 1 .. d : 1 + j - 1 = j
      BY <1>1
    <3>3. /\ SubSeq(cell(k), 1, d) \in Seq(Nat)
          /\ Len(SubSeq(cell(k), 1, d)) = d - 1 + 1
          /\ \A j \in 1 .. d - 1 + 1 : SubSeq(cell(k), 1, d)[j] = cell(k)[1 + j - 1]
      BY <3>1, <3>2, SubSeqProperties
    <3> QED BY <3>2, <3>3
  <2>13. SubSeq(cell(k), 1, d) = SubSeq(padded, from + 1, kd)
    <3> DEFINE one == SubSeq(cell(k), 1, d)
               other == SubSeq(padded, from + 1, kd)
    <3>1. /\ one \in Seq(Nat) /\ other \in Seq(Nat) /\ Len(one) = Len(other)
          /\ \A j \in 1 .. Len(one) : one[j] = other[j]
      BY <2>10, <2>11, <2>12
    <3> HIDE DEF one, other
    <3>2. one = other
      BY <3>1, SeqEqual
    <3> QED BY <3>2 DEF one, other
  <2> QED BY <2>13 DEF from, kd
<1> HIDE DEF cell, n, padded, d
<1>6. DataSlices(bytes, width) = [k \in 1 .. n |-> SubSeq(padded, (k - 1) * d + 1, k * d)]
  BY <1>4, <1>5
<1> QED BY <1>6 DEF n, padded, d

LEMMA DataSlicesFlatten ==
  ASSUME NEW bytes \in Seq(Nat), bytes # << >>, NEW width \in Nat, DATA_CHUNK_SIZE <= width
  PROVE  /\ DataSlices(bytes, width) \in Seq(Seq(Nat))
         /\ \E more \in Nat : FlattenSeq(DataSlices(bytes, width)) = bytes \o Zeroes(more)
<1> DEFINE d == DATA_CHUNK_SIZE
           L == Len(bytes)
           n == CeilDiv(L, d)
           padded == PadWithZeroes(bytes, n * d)
           seqs == DataSlices(bytes, width)
           cut(k) == SubSeq(padded, (k - 1) * d + 1, k * d)
<1>1. d \in Nat \ {0}
  BY ChunkAssumption
<1>2. L \in Nat \ {0}
  BY EmptySeq
<1>3. n \in Nat \ {0} /\ L <= n * d /\ n * d \in Nat
  <2>1. n \in Nat \ {0} /\ L <= n * d
    BY <1>1, <1>2, EnoughPieces
  <2> HIDE DEF n
  <2> QED BY <1>1, <2>1
<1>4. seqs = [k \in 1 .. n |-> cut(k)]
  BY DataSlicesAre
<1>5. padded = bytes \o Zeroes(n * d - L) /\ n * d - L \in Nat
  <2>1. n * d - L \in Nat
    <3> HIDE DEF n
    <3> QED BY <1>2, <1>3
  <2> HIDE DEF n
  <2> QED BY <2>1 DEF PadWithZeroes
<1>6. padded \in Seq(Nat) /\ Len(padded) = n * d
  BY <1>3, PaddedIs
<1> DEFINE whole == [i \in 1 .. n |-> SubSeq(padded, 1, i * d)]
<1> HIDE DEF padded, n, seqs, d, L
<1>7. ASSUME NEW k \in 1 .. n
      PROVE  /\ (k - 1) * d \in 0 .. n * d /\ k * d \in (k - 1) * d .. n * d
             /\ k * d \in Nat /\ (k - 1) * d \in Nat
  <2>1. n \in Nat
    BY <1>3
  <2>2. /\ (k - 1) * d \in Nat /\ k * d \in Nat /\ n * d \in Nat
        /\ k * d = (k - 1) * d + d
        /\ k * d <= n * d
    BY <1>1, <2>1, Multiples
  <2> DEFINE a == (k - 1) * d
             b == k * d
             c == n * d
  <2>3. a \in Nat /\ b \in Nat /\ c \in Nat /\ b = a + d /\ b <= c
    BY <2>2
  <2> HIDE DEF a, b, c
  <2>4. a \in 0 .. c /\ b \in a .. c /\ b \in Nat /\ a \in Nat
    BY <1>1, <2>3
  <2> QED BY <2>4 DEF a, b, c
<1>8. ASSUME NEW k \in 1 .. n PROVE cut(k) \in Seq(Nat)
  <2> DEFINE a == (k - 1) * d
             b == k * d
             c == n * d
  <2>1. a \in 0 .. c /\ b \in a .. c /\ c \in Nat /\ Len(padded) = c
    BY <1>3, <1>6, <1>7
  <2> HIDE DEF a, b, c
  <2>2. \A i \in (a + 1) .. b : padded[i] \in Nat
    BY <1>6, <2>1, ElementOfSeq
  <2>3. a + 1 \in Int /\ b \in Int
    BY <2>1
  <2>4. SubSeq(padded, a + 1, b) \in Seq(Nat)
    BY <2>2, <2>3, SubSeqProperties
  <2> QED BY <2>4 DEF a, b
<1> HIDE DEF cut
<1>9. seqs \in Seq(Seq(Nat)) /\ Len(seqs) = n /\ \A k \in 1 .. n : seqs[k] = cut(k)
  <2>1. n \in Nat
    BY <1>3
  <2>2. [k \in 1 .. n |-> cut(k)] \in [1 .. n -> Seq(Nat)]
    BY <1>8
  <2>3. seqs \in [1 .. n -> Seq(Nat)]
    BY <1>4, <2>2
  <2> QED BY <1>4, <2>1, <2>3
<1>10. \A i \in 1 .. n : whole[i] = SubSeq(padded, 1, i * d)
  OBVIOUS
<1> HIDE DEF whole
<1>11. ASSUME NEW i \in 1 .. n
       PROVE  whole[i] = IF i = 1 THEN seqs[i] ELSE whole[i - 1] \o seqs[i]
  <2>1. seqs[i] = SubSeq(padded, (i - 1) * d + 1, i * d)
    BY <1>9 DEF cut
  <2>2. CASE i = 1
    <3>1. (i - 1) * d + 1 = 1
      BY <1>1, <2>2
    <3> QED BY <1>10, <2>1, <2>2, <3>1
  <2>3. CASE i # 1
    <3> DEFINE a == (i - 1) * d
               b == i * d
               c == n * d
    <3>1. a \in 0 .. c /\ b \in a .. c /\ c \in Nat /\ Len(padded) = c
      BY <1>3, <1>6, <1>7
    <3>2. whole[i - 1] = SubSeq(padded, 1, a) /\ whole[i] = SubSeq(padded, 1, b)
          /\ seqs[i] = SubSeq(padded, a + 1, b)
      <4>1. i - 1 \in 1 .. n
        BY <1>3, <2>3
      <4> QED BY <1>10, <2>1, <4>1
    <3> HIDE DEF a, b, c
    <3>3. 1 \in 1 .. Len(padded) + 1 /\ a \in 1 - 1 .. Len(padded) /\ b \in a .. Len(padded)
      BY <3>1
    <3>4. SubSeq(padded, 1, a) \o SubSeq(padded, a + 1, b) = SubSeq(padded, 1, b)
      BY <1>6, <3>3, ConcatAdjacentSubSeq
    <3> QED BY <2>3, <3>2, <3>4
  <2> QED BY <2>2, <2>3
<1>12. FlattenSeq(seqs) = whole[n]
  <2>1. Len(seqs) # 0
    BY <1>3, <1>9
  <2>2. \A i \in 1 .. Len(seqs) : whole[i] = IF i = 1 THEN seqs[i] ELSE whole[i - 1] \o seqs[i]
    BY <1>9, <1>11
  <2>3. FlattenSeq(seqs) = whole[Len(seqs)]
    BY <1>9, <2>1, <2>2, FlattenedBy
  <2> QED BY <1>9, <2>3
<1>13. whole[n] = padded
  <2>1. n \in 1 .. n
    BY <1>3
  <2>2. SubSeq(padded, 1, Len(padded)) = padded
    BY <1>6, SubSeqFull
  <2> QED BY <1>6, <1>10, <2>1, <2>2
<1>14. FlattenSeq(seqs) = bytes \o Zeroes(n * d - L)
  BY <1>5, <1>12, <1>13
<1> QED BY <1>5, <1>9, <1>14 DEF seqs

===============================================================================
