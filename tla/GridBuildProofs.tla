---------------------------- MODULE GridBuildProofs ----------------------------
(***************************************************************************)
(* What both generators of a block guarantee, for all values of the        *)
(* constants and all requests.                                             *)
(***************************************************************************)
EXTENDS GridBuild, ChunkLemmas

-------------------------------------------------------------------------------
(***************************************************************************)
(* Running sums.                                                           *)
(***************************************************************************)

IsSums(N, lens, f) == f = [k \in 0 .. N |-> IF k = 0 THEN 0 ELSE f[k - 1] + lens[k]]

LEMMA SumsExist ==
  ASSUME NEW N \in Nat, NEW lens
  PROVE  \E f : IsSums(N, lens, f)
<1> DEFINE T == {n \in 0 .. N : \E f : IsSums(n, lens, f)}
<1>1. 0 \in T
  <2> DEFINE f == [k \in 0 .. 0 |-> 0]
  <2>1. IsSums(0, lens, f)
    BY DEF IsSums
  <2> HIDE DEF f
  <2> QED BY <2>1
<1>2. ASSUME NEW n \in 1 .. N, n - 1 \in T PROVE n \in T
  <2>1. PICK f : IsSums(n - 1, lens, f)
    BY <1>2
  <2> DEFINE g == [k \in 0 .. n |-> IF k = n THEN f[n - 1] + lens[n] ELSE f[k]]
  <2>2. \A k \in 0 .. n - 1 : f[k] = IF k = 0 THEN 0 ELSE f[k - 1] + lens[k]
    BY <2>1 DEF IsSums
  <2>3. \A k \in 0 .. n : /\ k # n => k \in 0 .. n - 1 /\ g[k] = f[k]
                          /\ k # 0 => k - 1 \in 0 .. n /\ g[k - 1] = f[k - 1]
    OBVIOUS
  <2>4. n # 0 /\ n \in 0 .. n /\ g[n] = f[n - 1] + lens[n]
    OBVIOUS
  <2>5. g = [k \in 0 .. n |-> g[k]]
    OBVIOUS
  <2> HIDE DEF g
  <2>6. ASSUME NEW k \in 0 .. n PROVE g[k] = IF k = 0 THEN 0 ELSE g[k - 1] + lens[k]
    <3>1. CASE k = n
      BY <2>3, <2>4, <3>1
    <3>2. CASE k # n
      BY <2>2, <2>3, <3>2
    <3> QED BY <3>1, <3>2
  <2>7. IsSums(n, lens, g)
    BY <2>5, <2>6 DEF IsSums
  <2>8. n \in 0 .. N
    OBVIOUS
  <2> QED BY <2>7, <2>8
<1> HIDE DEF T
<1>3. \A n \in 0 .. N : n \in T
  BY <1>1, <1>2, UpTo
<1>4. N \in T
  BY <1>3
<1> QED BY <1>4 DEF T

LEMMA SumsAre ==
  ASSUME NEW lens \in Seq(Nat)
  PROVE  /\ Sums(lens)[0] = 0
         /\ \A k \in 1 .. Len(lens) : Sums(lens)[k] = Sums(lens)[k - 1] + lens[k]
         /\ \A k \in 0 .. Len(lens) : Sums(lens)[k] \in Nat
<1> DEFINE N == Len(lens)
           f == Sums(lens)
<1>1. N \in Nat
  BY LenProperties
<1>2. f = CHOOSE g : IsSums(N, lens, g)
  BY Zenon DEF Sums, IsSums
<1>3. IsSums(N, lens, f)
  BY <1>1, <1>2, SumsExist, Zenon
<1> HIDE DEF f
<1>4. \A k \in 0 .. N : f[k] = IF k = 0 THEN 0 ELSE f[k - 1] + lens[k]
  BY <1>3 DEF IsSums
<1>5. 0 \in 0 .. N /\ \A k \in 1 .. N : k \in 0 .. N /\ k # 0
  BY <1>1
<1>6. f[0] = 0 /\ \A k \in 1 .. N : f[k] = f[k - 1] + lens[k]
  BY <1>4, <1>5
<1> DEFINE T == {n \in 0 .. N : f[n] \in Nat}
<1>7. 0 \in T
  BY <1>5, <1>6
<1>8. ASSUME NEW n \in 1 .. N, n - 1 \in T PROVE n \in T
  <2>1. lens[n] \in Nat
    BY ElementOfSeq
  <2> QED BY <1>5, <1>6, <1>8, <2>1
<1> HIDE DEF T
<1>9. \A n \in 0 .. N : n \in T
  BY <1>1, <1>7, <1>8, UpTo
<1>10. \A n \in 0 .. N : f[n] \in Nat
  BY <1>9 DEF T
<1> QED BY <1>6, <1>10 DEF f

\* They depend on nothing behind them.
LEMMA SumsAgree ==
  ASSUME NEW lens \in Seq(Nat), NEW more \in Seq(Nat), NEW N \in Nat,
         N <= Len(lens), N <= Len(more), \A k \in 1 .. N : lens[k] = more[k]
  PROVE  \A k \in 0 .. N : Sums(lens)[k] = Sums(more)[k]
<1> DEFINE T == {n \in 0 .. N : Sums(lens)[n] = Sums(more)[n]}
<1>1. 0 \in T
  BY SumsAre
<1>2. ASSUME NEW n \in 1 .. N, n - 1 \in T PROVE n \in T
  <2>1. n \in 1 .. Len(lens) /\ n \in 1 .. Len(more) /\ lens[n] = more[n] /\ n \in 0 .. N
    BY LenProperties
  <2>2. Sums(lens)[n] = Sums(lens)[n - 1] + lens[n] /\ Sums(more)[n] = Sums(more)[n - 1] + more[n]
    BY <2>1, SumsAre
  <2> QED BY <1>2, <2>1, <2>2
<1> HIDE DEF T
<1>3. \A n \in 0 .. N : n \in T
  BY <1>1, <1>2, UpTo
<1> QED BY <1>3 DEF T

-------------------------------------------------------------------------------
(***************************************************************************)
(* The numbers of a set in their order.                                    *)
(***************************************************************************)

IsAscending(S, s) ==
  /\ s \in [1 .. Cardinality(S) -> S]
  /\ \A j, k \in 1 .. Cardinality(S) : j < k => s[j] < s[k]

\* The least one before the others.
LEMMA AscendingExists ==
  ASSUME NEW U, U \subseteq Nat, IsFiniteSet(U)
  PROVE  \E s : IsAscending(U, s)
<1> DEFINE N == Cardinality(U)
           T == {n \in 0 .. N : \A S \in SUBSET U : Cardinality(S) = n => \E s : IsAscending(S, s)}
<1>1. N \in Nat /\ \A S \in SUBSET U : IsFiniteSet(S) /\ Cardinality(S) \in Nat
  BY FS_CardinalityType, FS_Subset
<1>2. 0 \in T
  <2>1. ASSUME NEW S \in SUBSET U, Cardinality(S) = 0 PROVE \E s : IsAscending(S, s)
    <3> DEFINE s == [k \in 1 .. 0 |-> 0]
    <3>1. IsAscending(S, s)
      BY <2>1 DEF IsAscending
    <3> HIDE DEF s
    <3> QED BY <3>1
  <2> QED BY <1>1, <2>1
<1>3. ASSUME NEW n \in 1 .. N, n - 1 \in T PROVE n \in T
  <2>1. ASSUME NEW S \in SUBSET U, Cardinality(S) = n PROVE \E s : IsAscending(S, s)
    <3>1. S # {} /\ S \subseteq Nat /\ IsFiniteSet(S)
      BY <1>1, <2>1, FS_EmptySet
    <3>2. PICK m \in S : \A k \in S : m <= k
      BY <3>1, LeastElement
    <3> DEFINE R == S \ {m}
    <3>3. Cardinality(R) = n - 1 /\ R \in SUBSET U
      BY <2>1, <3>1, <3>2, FS_RemoveElement
    <3>4. PICK t : IsAscending(R, t)
      BY <1>3, <3>3
    <3>5. /\ t \in [1 .. n - 1 -> R]
          /\ \A j, k \in 1 .. n - 1 : j < k => t[j] < t[k]
      BY <3>3, <3>4 DEF IsAscending
    <3> DEFINE s == [k \in 1 .. n |-> IF k = 1 THEN m ELSE t[k - 1]]
    <3>6. \A k \in 1 .. n : k # 1 => k - 1 \in 1 .. n - 1 /\ s[k] = t[k - 1] /\ t[k - 1] \in R
      BY <3>5
    <3>7. s[1] = m /\ 1 \in 1 .. n
      OBVIOUS
    <3>8. s \in [1 .. n -> S]
      BY <3>2, <3>6
    <3> HIDE DEF s
    <3>9. ASSUME NEW j \in 1 .. n, NEW k \in 1 .. n, j < k PROVE s[j] < s[k]
      <4>1. k # 1 /\ k - 1 \in 1 .. n - 1 /\ s[k] = t[k - 1] /\ t[k - 1] \in R
        BY <3>6, <3>9
      <4>2. CASE j = 1
        <5>1. t[k - 1] \in S /\ t[k - 1] # m
          BY <4>1
        <5>2. m <= t[k - 1] /\ m \in Nat /\ t[k - 1] \in Nat
          BY <3>1, <3>2, <5>1
        <5>3. s[j] = m
          BY <3>7, <4>2
        <5>4. m < t[k - 1]
          BY <5>1, <5>2
        <5> QED BY <4>1, <5>3, <5>4
      <4>3. CASE j # 1
        <5>1. j - 1 \in 1 .. n - 1 /\ s[j] = t[j - 1] /\ j - 1 < k - 1
          BY <3>6, <3>9, <4>3
        <5> QED BY <3>5, <4>1, <5>1
      <4> QED BY <4>2, <4>3
    <3>10. IsAscending(S, s)
      BY <2>1, <3>8, <3>9 DEF IsAscending
    <3> QED BY <3>10
  <2>2. n \in 0 .. N
    OBVIOUS
  <2> QED BY <2>1, <2>2
<1> HIDE DEF T
<1>4. \A n \in 0 .. N : n \in T
  BY <1>1, <1>2, <1>3, UpTo
<1>5. N \in T
  BY <1>1, <1>4
<1> QED BY <1>5 DEF T

\* All of them, each once.
LEMMA AscendingIs ==
  ASSUME NEW S, S \subseteq Nat, IsFiniteSet(S)
  PROVE  /\ Ascending(S) \in Seq(S) /\ Len(Ascending(S)) = Cardinality(S)
         /\ Cardinality(S) \in Nat
         /\ \A j, k \in 1 .. Cardinality(S) : j < k => Ascending(S)[j] < Ascending(S)[k]
         /\ \A n \in S : \E k \in 1 .. Cardinality(S) : Ascending(S)[k] = n
<1> DEFINE N == Cardinality(S)
           a == Ascending(S)
<1>1. N \in Nat
  BY FS_CardinalityType
<1>2. \E s \in [1 .. N -> S] : \A j, k \in DOMAIN s : j < k => s[j] < s[k]
  <2>1. PICK s : IsAscending(S, s)
    BY AscendingExists
  <2>2. DOMAIN s = 1 .. N /\ s \in [1 .. N -> S]
    BY <2>1 DEF IsAscending
  <2>3. \A j, k \in DOMAIN s : j < k => s[j] < s[k]
    BY <2>1, <2>2 DEF IsAscending
  <2> QED BY <2>2, <2>3
<1>3. a \in [1 .. N -> S] /\ \A j, k \in DOMAIN a : j < k => a[j] < a[k]
  BY <1>2, Zenon DEF Ascending
<1> HIDE DEF a, N
<1>4. DOMAIN a = 1 .. N
  BY <1>3
<1>5. \A j, k \in 1 .. N : j < k => a[j] < a[k]
  BY <1>3, <1>4
<1>6. a \in Seq(S) /\ Len(a) = N
  BY <1>1, <1>3
<1>7. a \in Injection(1 .. N, S)
  <2>1. ASSUME NEW j \in 1 .. N, NEW k \in 1 .. N, a[j] = a[k] PROVE j = k
    <3>1. a[j] \in Nat /\ a[k] \in Nat
      BY <1>3
    <3> QED BY <1>5, <2>1, <3>1
  <2> QED BY <1>3, <2>1 DEF Injection, IsInjective
<1>8. Cardinality(1 .. N) = N
  BY <1>1, FS_Interval
<1>9. a \in Surjection(1 .. N, S)
  BY <1>7, <1>8, FS_Injection DEF N
<1>10. \A n \in S : \E k \in 1 .. N : a[k] = n
  BY <1>9 DEF Surjection
<1> QED BY <1>1, <1>5, <1>6, <1>10 DEF a, N

-------------------------------------------------------------------------------
(***************************************************************************)
(* The dimensions FlattenBlock chooses.                                    *)
(***************************************************************************)

\* As U32Max is below the largest power considered.
LEMMA NextOfU32 ==
  ASSUME NEW n \in 0 .. U32Max
  PROVE  /\ NextPowerOfTwo(n) \in Powers /\ n <= NextPowerOfTwo(n)
         /\ \A p \in Powers : n <= p => NextPowerOfTwo(n) <= p
         /\ NextPowerOfTwo(n) = 1 \/ NextPowerOfTwo(n) <= 2 * (n - 1)
<1>1. n \in Nat /\ n <= TwoTo[MaxExponent]
  <2>1. MaxExponent \in Exponents
    BY ChunkAssumption DEF Exponents
  <2>2. TwoTo[MaxExponent] \in Nat
    BY <2>1, TwoToPositive
  <2> QED BY <2>2, U32MaxAssumption, SizeAssumption
<1> QED BY <1>1, NextPower, NextPowerIsClose

\* The least block, or the next power of two; in either case whole cells.
LEMMA CellsAre ==
  ASSUME NEW size \in 0 .. U32Max
  PROVE  /\ CellsOf(size) \in Powers
         /\ CellsOf(size) * CHUNK_SIZE = Max({NextPowerOfTwo(size), MINIMUM_BLOCK_SIZE})
<1> DEFINE m == Max({NextPowerOfTwo(size), MINIMUM_BLOCK_SIZE})
<1>1. NextPowerOfTwo(size) \in Powers /\ MINIMUM_BLOCK_SIZE \in Powers /\ CHUNK_SIZE \in Powers
      /\ CHUNK_SIZE <= MINIMUM_BLOCK_SIZE
  BY NextOfU32, SizeAssumption
<1>2. NextPowerOfTwo(size) \in Nat /\ MINIMUM_BLOCK_SIZE \in Nat /\ CHUNK_SIZE \in Nat \ {0}
  BY <1>1, PowersPositive
<1>3. m = IF NextPowerOfTwo(size) >= MINIMUM_BLOCK_SIZE THEN NextPowerOfTwo(size)
          ELSE MINIMUM_BLOCK_SIZE
  BY <1>2, MaxIs
<1> HIDE DEF m
<1>4. m \in Powers /\ CHUNK_SIZE <= m
  BY <1>1, <1>2, <1>3
<1>5. PICK r \in Powers : m = CHUNK_SIZE * r
  BY <1>1, <1>4, PowersDivide
<1>6. r \in Nat
  BY PowersPositive
<1>7. m \in Nat /\ CeilDiv(m, CHUNK_SIZE) \in Nat
  BY <1>2, <1>5, <1>6, Products, CeilDivIs
<1>8. CeilDiv(m, CHUNK_SIZE) <= r
  BY <1>2, <1>5, <1>6, <1>7, CeilDivIs
<1>9. r <= CeilDiv(m, CHUNK_SIZE)
  <2>1. m <= CHUNK_SIZE * CeilDiv(m, CHUNK_SIZE)
    BY <1>2, <1>7, CeilDivIs
  <2> QED BY <1>2, <1>5, <1>6, <1>7, <2>1, Products
<1>10. CeilDiv(m, CHUNK_SIZE) = r
  BY <1>6, <1>7, <1>8, <1>9
<1>11. CellsOf(size) = r
  BY <1>10 DEF CellsOf, m
<1>12. r * CHUNK_SIZE = m
  BY <1>2, <1>5, <1>6, Products
<1> QED BY <1>11, <1>12 DEF m

\* What the caller allows.
Limits ==
  /\ request.maxRows \in Powers /\ request.maxCols \in Powers
  /\ request.full \in BOOLEAN

LEMMA DimsForIs ==
  ASSUME Limits, NEW cells \in Powers
  PROVE  LET d == DimsFor(cells)
         IN  /\ d.rows \in Powers /\ d.cols \in Powers
             /\ Size(d) = cells
             /\ d.cols <= request.maxCols
             /\ d.rows > 1 => d.cols = request.maxCols
             /\ cells <= request.maxRows * request.maxCols => d.rows <= request.maxRows
<1> DEFINE c == request.maxCols
           d == DimsFor(cells)
<1>1. c \in Powers /\ c \in Nat \ {0} /\ request.maxRows \in Nat \ {0} /\ cells \in Nat \ {0}
  BY PowersPositive DEF Limits
<1>2. CASE cells > c
  <2>1. PICK r \in Powers : cells = c * r
    BY <1>1, <1>2, PowersDivide
  <2>2. r \in Nat
    BY PowersPositive
  <2>3. cells \div c = r
    BY <1>1, <2>1, <2>2, Products
  <2>4. d = Dimensions(r, c)
    BY <1>2, <2>3 DEF DimsFor
  <2>5. d.rows = r /\ d.cols = c
    BY <2>4 DEF Dimensions
  <2>6. Size(d) = cells
    BY <1>1, <2>1, <2>2, <2>5, Products DEF Size
  <2>7. ASSUME cells <= request.maxRows * c PROVE r <= request.maxRows
    <3>1. request.maxRows * c = c * request.maxRows
      BY <1>1, Products
    <3> QED BY <1>1, <2>1, <2>2, <2>7, <3>1, Products
  <2> HIDE DEF d
  <2>8. d.cols <= c
    BY <1>1, <2>5
  <2> QED BY <1>1, <2>5, <2>6, <2>7, <2>8 DEF d
<1>3. CASE ~(cells > c)
  <2>1. d = Dimensions(1, cells)
    BY <1>3 DEF DimsFor
  <2>2. d.rows = 1 /\ d.cols = cells
    BY <2>1 DEF Dimensions
  <2>3. Size(d) = cells
    BY <1>1, <2>2 DEF Size
  <2> HIDE DEF d
  <2>4. d.cols <= c /\ ~(d.rows > 1) /\ d.rows <= request.maxRows
    BY <1>1, <1>3, <2>2
  <2> QED BY <2>2, <2>3, <2>4, OneIsPower DEF d
<1> QED BY <1>2, <1>3

MaxSize == Size(MaxDims) * CHUNK_SIZE

LEMMA MaxDimsAre ==
  ASSUME Limits
  PROVE  /\ MaxDims.rows = request.maxRows /\ MaxDims.cols = request.maxCols
         /\ Size(MaxDims) = request.maxRows * request.maxCols
         /\ Size(MaxDims) \in Nat \ {0} /\ MaxSize \in Nat
<1>1. request.maxRows \in Nat \ {0} /\ request.maxCols \in Nat \ {0} /\ CHUNK_SIZE \in Nat \ {0}
  BY PowersPositive, SizeAssumption DEF Limits
<1>2. MaxDims.rows = request.maxRows /\ MaxDims.cols = request.maxCols
  BY DEF MaxDims, Dimensions
<1>3. Size(MaxDims) = request.maxRows * request.maxCols
  BY <1>2 DEF Size
<1>4. request.maxRows * request.maxCols \in Nat \ {0}
  BY <1>1, Products
<1>5. MaxSize \in Nat
  BY <1>1, <1>3, <1>4, Products DEF MaxSize
<1> QED BY <1>2, <1>3, <1>4, <1>5

LEMMA ProductIsPower ==
  ASSUME NEW p \in Powers, NEW q \in Powers, p * q <= TwoTo[MaxExponent]
  PROVE  p * q \in Powers
<1> DEFINE top == TwoTo[MaxExponent]
           T == {k \in Exponents : p * TwoTo[k] <= top => p * TwoTo[k] \in Powers}
<1>1. MaxExponent \in Nat /\ MaxExponent \in Exponents /\ p \in Nat \ {0}
  BY ChunkAssumption, PowersPositive DEF Exponents
<1>2. top \in Nat
  BY <1>1, TwoToPositive
<1>3. 0 \in T
  <2>1. p * TwoTo[0] = p /\ 0 \in Exponents
    BY <1>1, TwoToSteps DEF Exponents
  <2> QED BY <2>1
<1>4. ASSUME NEW n \in 1 .. MaxExponent, n - 1 \in T PROVE n \in T
  <2>1. TwoTo[n] = 2 * TwoTo[n - 1] /\ n \in Exponents /\ n - 1 \in Exponents
    BY <1>1, TwoToSteps DEF Exponents
  <2>2. TwoTo[n - 1] \in Nat
    BY <2>1, TwoToPositive
  <2> DEFINE half == p * TwoTo[n - 1]
  <2>3. half \in Nat /\ p * TwoTo[n] = 2 * half
    BY <1>1, <2>1, <2>2, Products
  <2>4. ASSUME p * TwoTo[n] <= top PROVE p * TwoTo[n] \in Powers
    <3>1. half <= top /\ 2 * half <= top
      <4> HIDE DEF top, half
      <4> QED BY <1>2, <2>3, <2>4
    <3>2. half \in Powers
      BY <1>4, <3>1
    <3> HIDE DEF half, T
    <3>3. PICK i \in 0 .. MaxExponent : half = TwoTo[i]
      BY <3>2 DEF Powers
    <3>4. i # MaxExponent
      <4>1. half # 0
        BY <3>2, PowersPositive
      <4> QED BY <1>2, <2>3, <3>1, <3>3, <4>1
    <3>5. i + 1 \in 1 .. MaxExponent /\ i + 1 \in 0 .. MaxExponent /\ (i + 1) - 1 = i
      BY <1>1, <3>4
    <3>6. TwoTo[i + 1] = 2 * half /\ TwoTo[i + 1] \in Powers
      BY <3>3, <3>5, TwoToSteps DEF Powers
    <3> QED BY <2>3, <3>6
  <2> QED BY <2>1, <2>4
<1> HIDE DEF T
<1>5. \A n \in 0 .. MaxExponent : n \in T
  BY <1>1, <1>3, <1>4, UpTo
<1>6. PICK k \in 0 .. MaxExponent : q = TwoTo[k]
  BY DEF Powers
<1>7. k \in T
  BY <1>5
<1> QED BY <1>6, <1>7 DEF T

LEMMA MaxSizeIsPower ==
  ASSUME Limits, MaxSize <= U32Max
  PROVE  MaxSize \in Powers
<1>1. /\ request.maxRows \in Powers /\ request.maxCols \in Powers /\ CHUNK_SIZE \in Powers
      /\ Size(MaxDims) = request.maxRows * request.maxCols
      /\ Size(MaxDims) \in Nat \ {0} /\ MaxSize \in Nat
  BY MaxDimsAre, SizeAssumption DEF Limits
<1>2. CHUNK_SIZE \in Nat \ {0} /\ U32Max \in Nat
  BY <1>1, PowersPositive, U32MaxAssumption
<1>3. U32Max < TwoTo[MaxExponent] /\ TwoTo[MaxExponent] \in Nat
  <2>1. MaxExponent \in Exponents
    BY ChunkAssumption DEF Exponents
  <2> QED BY <2>1, TwoToPositive, SizeAssumption
<1>4. Size(MaxDims) <= MaxSize
  <2>1. Size(MaxDims) <= CHUNK_SIZE * Size(MaxDims)
        /\ CHUNK_SIZE * Size(MaxDims) = Size(MaxDims) * CHUNK_SIZE
    BY <1>1, <1>2, Products
  <2> QED BY <2>1 DEF MaxSize
<1>5. Size(MaxDims) <= TwoTo[MaxExponent] /\ MaxSize <= TwoTo[MaxExponent]
  BY <1>1, <1>2, <1>3, <1>4
<1>6. Size(MaxDims) \in Powers
  BY <1>1, <1>5, ProductIsPower
<1> QED BY <1>1, <1>5, <1>6, ProductIsPower DEF MaxSize

\* What was chosen fits a size.
Fits(d, size) ==
  /\ d.rows \in Powers /\ d.cols \in Powers
  /\ MINIMUM_BLOCK_SIZE <= MaxSize => d.rows <= request.maxRows /\ d.cols <= request.maxCols
  /\ ~request.full =>
       /\ Size(d) * CHUNK_SIZE < 2 * Max({size, MINIMUM_BLOCK_SIZE})
       /\ d.rows > 1 => d.cols = request.maxCols

\* Within the largest block no further check refuses.
LEMMA ChosenFits ==
  ASSUME Limits, NEW size \in 0 .. U32Max, size <= MaxSize, ~TooLarge(MaxDims)
  PROVE  LET d == BlockDimensions(size)
         IN  /\ Fits(d, size)
             /\ size <= Size(d) * CHUNK_SIZE
             /\ ~TooLarge(d)
<1> DEFINE d == BlockDimensions(size)
<1>1. /\ MaxDims.rows = request.maxRows /\ MaxDims.cols = request.maxCols
      /\ Size(MaxDims) = request.maxRows * request.maxCols
      /\ Size(MaxDims) \in Nat \ {0} /\ MaxSize \in Nat
  BY MaxDimsAre
<1>2. /\ request.maxRows \in Powers /\ request.maxCols \in Powers
      /\ request.maxRows \in Nat \ {0} /\ request.maxCols \in Nat \ {0}
      /\ MINIMUM_BLOCK_SIZE \in Powers /\ MINIMUM_BLOCK_SIZE \in Nat \ {0}
      /\ CHUNK_SIZE \in Nat \ {0} /\ MINIMUM_BLOCK_SIZE <= U32Max /\ size \in Nat
      /\ U32Max \in Nat
  BY PowersPositive, SizeAssumption, U32MaxAssumption DEF Limits
<1> DEFINE needed == Max({size, MINIMUM_BLOCK_SIZE})
<1>3. needed = IF size >= MINIMUM_BLOCK_SIZE THEN size ELSE MINIMUM_BLOCK_SIZE
  BY <1>2, MaxIs
<1>4. CASE size = MaxSize \/ request.full
  <2>1. d = MaxDims
    BY <1>4 DEF BlockDimensions, MaxSize
  <2> HIDE DEF d, needed
  <2>2. /\ d.rows \in Powers /\ d.cols \in Powers
        /\ d.rows <= request.maxRows /\ d.cols <= request.maxCols
        /\ d.cols = request.maxCols /\ Size(d) * CHUNK_SIZE = MaxSize
    BY <1>1, <1>2, <2>1 DEF MaxSize
  <2>3. ~request.full => MaxSize < 2 * needed
    BY <1>1, <1>2, <1>3, <1>4
  <2>4. Fits(d, size)
    BY <2>2, <2>3 DEF Fits, needed
  <2>5. size <= Size(d) * CHUNK_SIZE /\ ~TooLarge(d)
    BY <2>1, <2>2
  <2> QED BY <2>4, <2>5 DEF d
<1>5. CASE ~(size = MaxSize \/ request.full)
  <2> DEFINE cells == CellsOf(size)
             next == NextPowerOfTwo(size)
             m == Max({next, MINIMUM_BLOCK_SIZE})
  <2>1. cells \in Powers /\ cells * CHUNK_SIZE = m
    BY CellsAre
  <2>2. next \in Powers /\ size <= next /\ \A p \in Powers : size <= p => next <= p
    BY NextOfU32
  <2>3. next = 1 \/ next <= 2 * (size - 1)
    BY NextOfU32
  <2>4. d = DimsFor(cells)
    BY <1>5 DEF BlockDimensions, MaxSize
  <2> HIDE DEF next, cells
  <2>5. next \in Nat \ {0} /\ cells \in Nat \ {0}
    BY <2>1, <2>2, PowersPositive
  <2>6. m = IF next >= MINIMUM_BLOCK_SIZE THEN next ELSE MINIMUM_BLOCK_SIZE
    BY <1>2, <2>5, MaxIs
  <2> HIDE DEF m, d, needed
  <2>7. /\ d.rows \in Powers /\ d.cols \in Powers
        /\ Size(d) = cells
        /\ d.cols <= request.maxCols
        /\ d.rows > 1 => d.cols = request.maxCols
        /\ cells <= request.maxRows * request.maxCols => d.rows <= request.maxRows
    BY <2>1, <2>4, DimsForIs
  <2>8. m < 2 * needed /\ size <= m
    BY <1>2, <1>3, <2>2, <2>3, <2>5, <2>6
  <2>9. MaxSize <= U32Max
    BY <1>1, <1>2 DEF TooLarge, MaxSize
  <2>10. next <= MaxSize
    BY <1>1, <2>2, <2>9, MaxSizeIsPower
  <2>11. m <= U32Max /\ (MINIMUM_BLOCK_SIZE <= MaxSize => m <= MaxSize)
    BY <1>1, <1>2, <2>5, <2>6, <2>9, <2>10
  <2>12. ASSUME MINIMUM_BLOCK_SIZE <= MaxSize PROVE d.rows <= request.maxRows
    <3>1. CHUNK_SIZE * cells <= CHUNK_SIZE * Size(MaxDims)
      <4>1. CHUNK_SIZE * cells = m /\ CHUNK_SIZE * Size(MaxDims) = MaxSize
        BY <1>1, <1>2, <2>1, <2>5, Products DEF MaxSize
      <4> QED BY <2>11, <2>12, <4>1
    <3>2. cells <= Size(MaxDims)
      BY <1>1, <1>2, <2>5, <3>1, Products
    <3> QED BY <1>1, <2>7, <3>2
  <2>13. Size(d) * CHUNK_SIZE = m /\ m \in Nat
    BY <1>2, <2>1, <2>5, <2>6, <2>7
  <2>14. Fits(d, size)
    BY <2>7, <2>8, <2>12, <2>13 DEF Fits, needed
  <2>15. ~TooLarge(d)
    <3>1. cells <= m
      <4>1. cells <= CHUNK_SIZE * cells /\ CHUNK_SIZE * cells = cells * CHUNK_SIZE
        BY <1>2, <2>5, Products
      <4> QED BY <2>1, <4>1
    <3>2. Size(d) <= U32Max /\ Size(d) * CHUNK_SIZE <= U32Max
      BY <1>2, <2>5, <2>7, <2>11, <2>13, <3>1
    <3> QED BY <1>2, <2>5, <2>7, <2>13, <3>2 DEF TooLarge
  <2> QED BY <2>8, <2>13, <2>14, <2>15 DEF d
<1> QED BY <1>4, <1>5

-------------------------------------------------------------------------------
LEMMA FunctionIsSeq ==
  ASSUME NEW S, NEW n \in Nat, NEW f \in [1 .. n -> S]
  PROVE  f \in Seq(S) /\ Len(f) = n
OBVIOUS

-------------------------------------------------------------------------------
(***************************************************************************)
(* The extrinsics of an application.                                       *)
(***************************************************************************)

Xts == [app : Nat, data : Seq(Nat)]

IsOwn(N, sequence, app, f) ==
  f = [k \in 0 .. N |->
         IF k = 0 THEN << >>
         ELSE IF sequence[k].app = app THEN Append(f[k - 1], sequence[k]) ELSE f[k - 1]]

LEMMA OwnExist ==
  ASSUME NEW N \in Nat, NEW sequence, NEW app
  PROVE  \E f : IsOwn(N, sequence, app, f)
<1> DEFINE Step(before, k) ==
             IF sequence[k].app = app THEN Append(before, sequence[k]) ELSE before
           T == {n \in 0 .. N : \E f : IsOwn(n, sequence, app, f)}
<1>1. 0 \in T
  <2> DEFINE f == [k \in 0 .. 0 |-> << >>]
  <2>1. IsOwn(0, sequence, app, f)
    BY DEF IsOwn
  <2> HIDE DEF f
  <2> QED BY <2>1
<1>2. ASSUME NEW n \in 1 .. N, n - 1 \in T PROVE n \in T
  <2>1. PICK f : IsOwn(n - 1, sequence, app, f)
    BY <1>2
  <2>2. \A k \in 0 .. n - 1 : f[k] = IF k = 0 THEN << >> ELSE Step(f[k - 1], k)
    BY <2>1 DEF IsOwn
  <2> HIDE DEF Step
  <2> DEFINE g == [k \in 0 .. n |-> IF k = n THEN Step(f[n - 1], n) ELSE f[k]]
  <2>3. \A k \in 0 .. n : /\ k # n => k \in 0 .. n - 1 /\ g[k] = f[k]
                          /\ k # 0 => k - 1 \in 0 .. n /\ g[k - 1] = f[k - 1]
    OBVIOUS
  <2>4. n # 0 /\ n \in 0 .. n /\ g[n] = Step(f[n - 1], n)
    OBVIOUS
  <2>5. g = [k \in 0 .. n |-> g[k]]
    OBVIOUS
  <2> HIDE DEF g
  <2>6. ASSUME NEW k \in 0 .. n PROVE g[k] = IF k = 0 THEN << >> ELSE Step(g[k - 1], k)
    <3>1. CASE k = n
      BY <2>3, <2>4, <3>1
    <3>2. CASE k # n
      BY <2>2, <2>3, <3>2
    <3> QED BY <3>1, <3>2
  <2>7. IsOwn(n, sequence, app, g)
    BY <2>5, <2>6 DEF IsOwn, Step
  <2>8. n \in 0 .. N
    OBVIOUS
  <2> QED BY <2>7, <2>8
<1> HIDE DEF T
<1>3. \A n \in 0 .. N : n \in T
  BY <1>1, <1>2, UpTo
<1>4. N \in T
  BY <1>3
<1> QED BY <1>4 DEF T

LEMMA OwnAre ==
  ASSUME NEW sequence \in Seq(Xts), NEW app
  PROVE  /\ OfUpTo(sequence, app)[0] = << >>
         /\ \A k \in 1 .. Len(sequence) :
              OfUpTo(sequence, app)[k] =
                IF sequence[k].app = app THEN Append(OfUpTo(sequence, app)[k - 1], sequence[k])
                ELSE OfUpTo(sequence, app)[k - 1]
         /\ \A k \in 0 .. Len(sequence) : OfUpTo(sequence, app)[k] \in Seq(Xts)
<1> DEFINE N == Len(sequence)
           f == OfUpTo(sequence, app)
<1>1. N \in Nat
  BY LenProperties
<1>2. f = CHOOSE g : IsOwn(N, sequence, app, g)
  BY Zenon DEF OfUpTo, IsOwn
<1>3. IsOwn(N, sequence, app, f)
  BY <1>1, <1>2, OwnExist, Zenon
<1> HIDE DEF f
<1>4. \A k \in 0 .. N :
        f[k] = IF k = 0 THEN << >>
               ELSE IF sequence[k].app = app THEN Append(f[k - 1], sequence[k]) ELSE f[k - 1]
  BY <1>3 DEF IsOwn
<1>5. 0 \in 0 .. N /\ \A k \in 1 .. N : k \in 0 .. N /\ k # 0
  BY <1>1
<1>6. /\ f[0] = << >>
      /\ \A k \in 1 .. N :
           f[k] = IF sequence[k].app = app THEN Append(f[k - 1], sequence[k]) ELSE f[k - 1]
  BY <1>4, <1>5
<1> DEFINE T == {n \in 0 .. N : f[n] \in Seq(Xts)}
<1>7. 0 \in T
  <2>1. << >> \in Seq(Xts)
    BY EmptySeq
  <2> QED BY <1>5, <1>6, <2>1
<1>8. ASSUME NEW n \in 1 .. N, n - 1 \in T PROVE n \in T
  <2>1. sequence[n] \in Xts
    BY ElementOfSeq
  <2>2. f[n - 1] \in Seq(Xts) /\ Append(f[n - 1], sequence[n]) \in Seq(Xts)
    BY <1>8, <2>1, AppendProperties
  <2> QED BY <1>5, <1>6, <2>2
<1> HIDE DEF T
<1>9. \A n \in 0 .. N : n \in T
  BY <1>1, <1>7, <1>8, UpTo
<1>10. \A n \in 0 .. N : f[n] \in Seq(Xts)
  BY <1>9 DEF T
<1> QED BY <1>6, <1>10 DEF f

LEMMA OfTyped ==
  ASSUME NEW sequence \in Seq(Xts), NEW app
  PROVE  Of(sequence, app) \in Seq(Xts)
<1>1. Len(sequence) \in 0 .. Len(sequence)
  BY LenProperties
<1> QED BY <1>1, OwnAre DEF Of

\* The applications of a block.
AppsOf(sequence) == {xt.app : xt \in ToSet(sequence)}

LEMMA AppsAre ==
  ASSUME NEW sequence \in Seq(Xts)
  PROVE  /\ AppsOf(sequence) \subseteq Nat /\ IsFiniteSet(AppsOf(sequence))
         /\ \A app : app \in AppsOf(sequence) <=> \E i \in 1 .. Len(sequence) : sequence[i].app = app
<1> DEFINE N == Len(sequence)
           f == [i \in 1 .. N |-> sequence[i].app]
<1>1. N \in Nat /\ DOMAIN sequence = 1 .. N
  BY LenProperties
<1>2. \A i \in 1 .. N : sequence[i] \in Xts
  BY ElementOfSeq
<1>3. \A app : app \in AppsOf(sequence) <=> \E i \in 1 .. N : sequence[i].app = app
  BY <1>1 DEF AppsOf, ToSet
<1>4. AppsOf(sequence) \subseteq Nat
  BY <1>2, <1>3 DEF Xts
<1>5. f \in Surjection(1 .. N, AppsOf(sequence))
  BY <1>3 DEF Surjection
<1>6. IsFiniteSet(1 .. N)
  BY <1>1, FS_Interval
<1>7. IsFiniteSet(AppsOf(sequence))
  BY <1>5, <1>6, FS_Surjection
<1> QED BY <1>3, <1>4, <1>7

\* Sorted, by application.
Sorted(sequence) ==
  LET apps == Ascending(AppsOf(sequence))
  IN  [k \in 1 .. Cardinality(AppsOf(sequence)) |-> Of(sequence, apps[k])]

LEMMA SortedIs ==
  ASSUME NEW sequence \in Seq(Xts)
  PROVE  /\ Sorted(sequence) \in Seq(Seq(Xts))
         /\ Len(Sorted(sequence)) = Cardinality(AppsOf(sequence))
         /\ SortedByApp(sequence) = FlattenSeq(Sorted(sequence))
<1> DEFINE apps == Ascending(AppsOf(sequence))
           N == Cardinality(AppsOf(sequence))
<1>1. AppsOf(sequence) \subseteq Nat /\ IsFiniteSet(AppsOf(sequence))
  BY AppsAre
<1>2. apps \in Seq(AppsOf(sequence)) /\ Len(apps) = N /\ N \in Nat
  BY <1>1, AscendingIs
<1>3. DOMAIN apps = 1 .. N
  BY <1>2, LenProperties
<1>4. \A k \in 1 .. N : Of(sequence, apps[k]) \in Seq(Xts)
  BY OfTyped
<1>5. SortedByApp(sequence) = FlattenSeq([k \in DOMAIN apps |-> Of(sequence, apps[k])])
  BY Zenon DEF SortedByApp, AppsOf
<1> HIDE DEF apps
<1>6. Sorted(sequence) = [k \in 1 .. N |-> Of(sequence, apps[k])]
  BY DEF Sorted, apps
<1> HIDE DEF N
<1>7. Sorted(sequence) \in Seq(Seq(Xts)) /\ Len(Sorted(sequence)) = N
  <2> DEFINE parts == [k \in 1 .. N |-> Of(sequence, apps[k])]
  <2>1. parts \in [1 .. N -> Seq(Xts)]
    BY <1>4
  <2> HIDE DEF parts
  <2>2. parts \in Seq(Seq(Xts)) /\ Len(parts) = N
    BY <1>2, <2>1
  <2> QED BY <1>6, <2>2 DEF parts
<1> QED BY <1>3, <1>5, <1>6, <1>7 DEF N

LEMMA SortedTyped ==
  ASSUME NEW sequence \in Seq(Xts)
  PROVE  SortedByApp(sequence) \in Seq(Xts)
BY SortedIs, FlattenTyped

-------------------------------------------------------------------------------
(***************************************************************************)
(* The encoding of the extrinsics of an application, and its chunks.       *)
(***************************************************************************)

LEMMA OneByte ==
  ASSUME NEW n \in Nat, NEW rest \in Seq(Nat)
  PROVE  << n >> \o rest \in Seq(Nat) /\ Len(<< n >> \o rest) = Len(rest) + 1
<1>1. << n >> \in Seq(Nat) /\ Len(<< n >>) = 1
  OBVIOUS
<1> QED BY <1>1, ConcatProperties, LenProperties

LEMMA EncodeIs ==
  ASSUME NEW opaques \in Seq(Seq(Nat))
  PROVE  Encode(opaques) \in Seq(Nat) /\ Len(Encode(opaques)) \in Nat \ {0}
<1> DEFINE parts == [k \in DOMAIN opaques |-> << Len(opaques[k]) >> \o opaques[k]]
           N == Len(opaques)
<1>1. N \in Nat /\ DOMAIN opaques = 1 .. N
  BY LenProperties
<1>2. \A k \in 1 .. N : << Len(opaques[k]) >> \o opaques[k] \in Seq(Nat)
  <2>1. \A k \in 1 .. N : opaques[k] \in Seq(Nat) /\ Len(opaques[k]) \in Nat
    BY ElementOfSeq, LenProperties
  <2> QED BY <2>1, OneByte
<1>3. parts \in Seq(Seq(Nat))
  <2>1. parts \in [1 .. N -> Seq(Nat)]
    BY <1>1, <1>2
  <2> HIDE DEF parts, N
  <2> QED BY <1>1, <2>1, FunctionIsSeq
<1> HIDE DEF parts
<1>4. FlattenSeq(parts) \in Seq(Nat)
  BY <1>3, FlattenTyped
<1>5. Encode(opaques) = << N >> \o FlattenSeq(parts)
  BY Zenon DEF Encode, parts
<1>6. Len(FlattenSeq(parts)) \in Nat
  BY <1>4, LenProperties
<1> QED BY <1>1, <1>4, <1>5, <1>6, OneByte

LEMMA PaddingTyped ==
  ASSUME NEW bytes \in Seq(Nat), NEW size \in Int
  PROVE  PadWithZeroes(bytes, size) \in Seq(Nat)
<1>1. Len(bytes) \in Nat
  BY LenProperties
<1>2. CASE Len(bytes) <= size
  BY <1>1, <1>2, PaddedIs
<1>3. CASE ~(Len(bytes) <= size)
  <2>1. 1 .. (size - Len(bytes)) = {}
    BY <1>1, <1>3
  <2>2. 1 .. (size - Len(bytes)) = 1 .. 0
    BY <2>1
  <2>3. Zeroes(size - Len(bytes)) = Zeroes(0)
    BY <2>2, Zenon DEF Zeroes
  <2>4. Zeroes(0) \in Seq(Nat)
    BY ZeroesAre
  <2>5. bytes \o Zeroes(0) \in Seq(Nat)
    BY <2>4, ConcatProperties
  <2> QED BY <2>3, <2>5 DEF PadWithZeroes
<1> QED BY <1>2, <1>3

LEMMA PaddedLenTyped ==
  ASSUME NEW len \in Nat
  PROVE  PaddedLen(len) \in Nat
<1>1. U32Max \in Nat /\ DATA_CHUNK_SIZE \in Nat \ {0}
  BY U32MaxAssumption, ChunkAssumption
<1>2. \A a, b \in Nat : SatAdd(a, b) \in Nat
  <2>1. ASSUME NEW a \in Nat, NEW b \in Nat PROVE SatAdd(a, b) \in Nat
    <3>1. a + b \in Nat
      OBVIOUS
    <3> QED BY <1>1, <3>1, MinIs DEF SatAdd
  <2> QED BY <2>1
<1> DEFINE more == SatAdd(len, 1)
<1>3. more \in Nat
  BY <1>2
<1> HIDE DEF more
<1>4. (DATA_CHUNK_SIZE - (more % DATA_CHUNK_SIZE)) % DATA_CHUNK_SIZE \in Nat
  <2>1. more % DATA_CHUNK_SIZE \in 0 .. DATA_CHUNK_SIZE - 1
    BY <1>1, <1>3
  <2>2. DATA_CHUNK_SIZE - (more % DATA_CHUNK_SIZE) \in Nat
    BY <1>1, <2>1
  <2> QED BY <1>1, <2>2
<1> QED BY <1>2, <1>3, <1>4 DEF PaddedLen, more

LEMMA PiecesTyped ==
  ASSUME NEW bytes \in Seq(Nat)
  PROVE  /\ Pieces(bytes, DATA_CHUNK_SIZE) \in Seq(Seq(Nat))
         /\ Len(Pieces(bytes, DATA_CHUNK_SIZE)) = CeilDiv(Len(bytes), DATA_CHUNK_SIZE)
<1> DEFINE L == Len(bytes)
           d == DATA_CHUNK_SIZE
           n == CeilDiv(L, d)
<1>1. L \in Nat /\ d \in Nat \ {0}
  BY LenProperties, ChunkAssumption
<1>2. n \in Nat
  BY <1>1, CeilDivIs
<1> HIDE DEF n, d, L
<1>3. ASSUME NEW k \in 1 .. n
      PROVE  SubSeq(bytes, (k - 1) * d + 1, Min({k * d, L})) \in Seq(Nat)
  <2> DEFINE from == (k - 1) * d + 1
             to == Min({k * d, L})
  <2>1. (k - 1) * d \in Nat /\ k * d \in Nat
    BY <1>1, <1>2, Multiples
  <2>2. to \in Nat /\ to <= L
    BY <1>1, <2>1, MinIs
  <2>3. from \in Nat \ {0}
    BY <2>1
  <2> HIDE DEF from, to
  <2>4. \A i \in from .. to : bytes[i] \in Nat
    <3>1. \A i \in from .. to : i \in 1 .. L
      BY <1>1, <2>2, <2>3
    <3> QED BY <3>1, ElementOfSeq DEF L
  <2>5. SubSeq(bytes, from, to) \in Seq(Nat)
    BY <2>2, <2>3, <2>4, SubSeqProperties
  <2> QED BY <2>5 DEF from, to
<1>4. Pieces(bytes, d) = [k \in 1 .. n |-> SubSeq(bytes, (k - 1) * d + 1, Min({k * d, L}))]
  BY Zenon DEF Pieces, n, L
<1>5. Pieces(bytes, d) \in Seq(Seq(Nat)) /\ Len(Pieces(bytes, d)) = n
  <2> DEFINE pieces == [k \in 1 .. n |-> SubSeq(bytes, (k - 1) * d + 1, Min({k * d, L}))]
  <2>1. pieces \in [1 .. n -> Seq(Nat)]
    BY <1>3
  <2> HIDE DEF pieces
  <2>2. pieces \in Seq(Seq(Nat)) /\ Len(pieces) = n
    BY <1>2, <2>1
  <2> QED BY <1>4, <2>2 DEF pieces
<1> QED BY <1>5 DEF n, d, L

LEMMA PaddedChunksTyped ==
  ASSUME NEW bytes \in Seq(Nat)
  PROVE  PaddedChunks(bytes) \in Seq(Seq(Nat))
<1> DEFINE pieces == Pieces(PadWithZeroes(bytes, PaddedLen(Len(bytes))), DATA_CHUNK_SIZE)
           N == Len(pieces)
<1>1. PaddedLen(Len(bytes)) \in Int
  BY LenProperties, PaddedLenTyped
<1>2. pieces \in Seq(Seq(Nat))
  BY <1>1, PaddingTyped, PiecesTyped
<1>3. PaddedChunks(bytes) = [k \in DOMAIN pieces |-> PadWithZeroes(pieces[k], CHUNK_SIZE)]
  BY Zenon DEF PaddedChunks
<1> HIDE DEF pieces
<1>4. N \in Nat /\ DOMAIN pieces = 1 .. N /\ \A k \in 1 .. N : pieces[k] \in Seq(Nat)
  BY <1>2, LenProperties, ElementOfSeq
<1>5. CHUNK_SIZE \in Int
  BY SizeAssumption, PowersPositive
<1>6. \A k \in 1 .. N : PadWithZeroes(pieces[k], CHUNK_SIZE) \in Seq(Nat)
  BY <1>4, <1>5, PaddingTyped
<1> DEFINE chunks == [k \in 1 .. N |-> PadWithZeroes(pieces[k], CHUNK_SIZE)]
<1>7. chunks \in [1 .. N -> Seq(Nat)]
  BY <1>6
<1>8. PaddedChunks(bytes) = chunks
  BY <1>3, <1>4
<1> HIDE DEF chunks
<1> QED BY <1>4, <1>7, <1>8

-------------------------------------------------------------------------------
(***************************************************************************)
(* The lengths of a layout, and their sum.                                 *)
(***************************************************************************)

Laid == [app : Nat, len : Nat]

Lens(entries) == [j \in DOMAIN entries |-> entries[j].len]
Total(entries) == Sums(Lens(entries))[Len(entries)]

LEMMA LensAre ==
  ASSUME NEW entries \in Seq(Laid)
  PROVE  /\ Lens(entries) \in Seq(Nat) /\ Len(Lens(entries)) = Len(entries)
         /\ \A j \in 1 .. Len(entries) : Lens(entries)[j] = entries[j].len
<1>1. Len(entries) \in Nat /\ DOMAIN entries = 1 .. Len(entries)
  BY LenProperties
<1>2. \A j \in 1 .. Len(entries) : entries[j].len \in Nat
  <2>1. \A j \in 1 .. Len(entries) : entries[j] \in Laid
    BY ElementOfSeq
  <2> QED BY <2>1 DEF Laid
<1>3. Lens(entries) \in [1 .. Len(entries) -> Nat]
  BY <1>1, <1>2 DEF Lens
<1>4. Lens(entries) \in Seq(Nat) /\ Len(Lens(entries)) = Len(entries)
  BY <1>1, <1>3, FunctionIsSeq
<1> QED BY <1>1, <1>4 DEF Lens

LEMMA TotalTyped ==
  ASSUME NEW entries \in Seq(Laid)
  PROVE  Total(entries) \in Nat
<1>1. Len(entries) \in 0 .. Len(Lens(entries))
  BY LensAre, LenProperties
<1> QED BY <1>1, LensAre, SumsAre DEF Total

LEMMA NothingLaid == Total(<< >>) = 0
<1>1. << >> \in Seq(Laid) /\ Len(<< >>) = 0
  BY EmptySeq
<1>2. Lens(<< >>) \in Seq(Nat)
  BY <1>1, LensAre
<1>3. Sums(Lens(<< >>))[0] = 0
  BY <1>2, SumsAre
<1> QED BY <1>1, <1>3 DEF Total

LEMMA LaidMore ==
  ASSUME NEW entries \in Seq(Laid), NEW e \in Laid
  PROVE  Total(Append(entries, e)) = Total(entries) + e.len
<1> DEFINE more == Append(entries, e)
           n == Len(entries)
<1>1. /\ more \in Seq(Laid) /\ Len(more) = n + 1 /\ more[n + 1] = e
      /\ \A j \in 1 .. n : more[j] = entries[j]
  BY AppendProperties
<1>2. n \in Nat
  BY LenProperties
<1> HIDE DEF more
<1>3. /\ Lens(entries) \in Seq(Nat) /\ Len(Lens(entries)) = n
      /\ \A j \in 1 .. n : Lens(entries)[j] = entries[j].len
  BY LensAre
<1>4. /\ Lens(more) \in Seq(Nat) /\ Len(Lens(more)) = n + 1
      /\ \A j \in 1 .. n + 1 : Lens(more)[j] = more[j].len
  BY <1>1, LensAre
<1> HIDE DEF n
<1>5. n + 1 \in 1 .. n + 1 /\ \A j \in 1 .. n : j \in 1 .. n + 1
  BY <1>2
<1>6. \A j \in 1 .. n : Lens(entries)[j] = Lens(more)[j]
  BY <1>1, <1>3, <1>4, <1>5
<1>7. \A k \in 0 .. n : Sums(Lens(entries))[k] = Sums(Lens(more))[k]
  <2>1. n <= n /\ n <= n + 1
    BY <1>2
  <2> QED BY <1>2, <1>3, <1>4, <1>6, <2>1, SumsAgree
<1>8. Sums(Lens(more))[n + 1] = Sums(Lens(more))[(n + 1) - 1] + Lens(more)[n + 1]
  BY <1>4, <1>5, SumsAre
<1>9. (n + 1) - 1 = n /\ n \in 0 .. n
  BY <1>2
<1>10. Sums(Lens(more))[n + 1] = Sums(Lens(entries))[n] + e.len
  BY <1>1, <1>4, <1>5, <1>7, <1>8, <1>9
<1> QED BY <1>1, <1>10 DEF Total, more, n

LEMMA StartIsTotal ==
  ASSUME layout \in Seq(Laid)
  PROVE  StartOf(Len(layout) + 1) = Total(layout)
<1>1. Len(layout) + 1 - 1 = Len(layout)
  BY LenProperties
<1> QED BY <1>1 DEF StartOf, Total, Lens

-------------------------------------------------------------------------------
(***************************************************************************)
(* The invariant of FlattenBlock.                                          *)
(***************************************************************************)

AppGroups == [app : Nat, opaques : Seq(Seq(Nat))]

FlattenTypes ==
  /\ pc \in {"sort", "group", "pad", "dims", "extend", "commit", "done"}
  /\ request \in Requests
  /\ xts \in Seq(Xts) /\ groups \in Seq(AppGroups)
  /\ layout \in Seq(Laid) /\ padded \in Seq(Seq(Nat))

\* The chunks are those of the layout until random ones fill the matrix.
Counted ==
  /\ pc \in {"sort", "group", "pad", "dims"} => dims = NoDims /\ reply = Pending
  /\ dims = NoDims => Len(padded) = Total(layout)
  /\ pc = "dims" => BlockSize <= U32Max

Chosen ==
  dims # NoDims =>
    /\ Len(padded) = Size(dims)
    /\ Total(layout) <= Size(MaxDims)
    /\ Fits(dims, Total(layout) * CHUNK_SIZE)

Refused ==
  reply.err = "BlockTooBig" => ~(Total(layout) <= Size(MaxDims)) \/ TooLarge(MaxDims)

FlattenInv == FlattenTypes /\ Counted /\ Chosen /\ Refused

LEMMA RequestsAre ==
  ASSUME request \in Requests
  PROVE  /\ request.xts \in Seq(Xts)
         /\ request.maxRows \in Nat /\ request.maxCols \in Nat /\ request.full \in BOOLEAN
         /\ Size(MaxDims) = request.maxRows * request.maxCols
         /\ Size(MaxDims) \in Nat
<1>1. /\ request.xts \in Seq(Xts)
      /\ request.maxRows \in Nat /\ request.maxCols \in Nat /\ request.full \in BOOLEAN
  BY RequestsAssumption DEF Xts
<1>2. Size(MaxDims) = request.maxRows * request.maxCols
  BY DEF Size, MaxDims, Dimensions
<1> QED BY <1>1, <1>2

LEMMA GroupFields ==
  ASSUME NEW g \in AppGroups
  PROVE  g.app \in Nat /\ g.opaques \in Seq(Seq(Nat))
BY DEF AppGroups

LEMMA GroupMade ==
  ASSUME NEW app \in Nat, NEW opaques \in Seq(Seq(Nat))
  PROVE  [app |-> app, opaques |-> opaques] \in AppGroups
BY DEF AppGroups

LEMMA FlattenInit == Init => FlattenInv
<1> SUFFICES ASSUME Init PROVE FlattenInv
  OBVIOUS
<1>1. FlattenTypes
  <2>1. << >> \in Seq(Xts) /\ << >> \in Seq(AppGroups) /\ << >> \in Seq(Laid) /\ << >> \in Seq(Seq(Nat))
    BY EmptySeq
  <2> QED BY <2>1 DEF Init, FlattenTypes
<1>2. Counted
  <2>1. Len(padded) = 0 /\ Total(layout) = 0
    BY NothingLaid, EmptySeq DEF Init
  <2> QED BY <2>1 DEF Init, Counted
<1>3. Chosen
  BY DEF Init, Chosen
<1>4. Refused
  BY DEF Init, Refused, Pending
<1> QED BY <1>1, <1>2, <1>3, <1>4 DEF FlattenInv

LEMMA SortKeeps == FlattenInv /\ Sort => FlattenInv'
<1> SUFFICES ASSUME FlattenInv, Sort PROVE FlattenInv'
  OBVIOUS
<1>1. SortedByApp(request.xts) \in Seq(Xts)
  BY RequestsAre, SortedTyped DEF FlattenInv, FlattenTypes
<1>2. FlattenTypes'
  BY <1>1 DEF FlattenInv, FlattenTypes, Sort
<1>3. Counted'
  BY DEF FlattenInv, Counted, Sort
<1>4. Chosen' /\ Refused'
  BY DEF FlattenInv, Chosen, Refused, Fits, MaxSize, TooLarge, MaxDims, Sort
<1> QED BY <1>2, <1>3, <1>4 DEF FlattenInv

\* What the next group is, or becomes.
LEMMA GroupsTyped ==
  ASSUME NEW gs \in Seq(AppGroups), NEW xt \in Xts
  PROVE  (IF gs # << >> /\ Last(gs).app = xt.app
            THEN [gs EXCEPT ![Len(gs)].opaques = Append(@, xt.data)]
            ELSE Append(gs, [app |-> xt.app, opaques |-> << xt.data >>])) \in Seq(AppGroups)
<1>1. xt.app \in Nat /\ xt.data \in Seq(Nat)
  BY DEF Xts
<1>2. CASE gs # << >> /\ Last(gs).app = xt.app
  <2> DEFINE n == Len(gs)
  <2>1. n \in 1 .. n /\ n \in Nat
    BY <1>2, LenProperties, EmptySeq
  <2>2. gs[n] \in AppGroups
    BY <2>1, ElementOfSeq
  <2>3. Append(gs[n].opaques, xt.data) \in Seq(Seq(Nat))
    BY <1>1, <2>2, GroupFields, AppendProperties
  <2> DEFINE g == [gs[n] EXCEPT !.opaques = Append(@, xt.data)]
  <2>4. g \in AppGroups
    BY <2>2, <2>3 DEF AppGroups
  <2>5. [gs EXCEPT ![n].opaques = Append(@, xt.data)] = [gs EXCEPT ![n] = g]
    BY Zenon DEF g
  <2> HIDE DEF g
  <2>6. [gs EXCEPT ![n] = g] \in Seq(AppGroups)
    BY <2>1, <2>4, ExceptSeq
  <2> QED BY <1>2, <2>5, <2>6
<1>3. CASE ~(gs # << >> /\ Last(gs).app = xt.app)
  <2>1. << xt.data >> \in Seq(Seq(Nat))
    BY <1>1
  <2>2. [app |-> xt.app, opaques |-> << xt.data >>] \in AppGroups
    BY <1>1, <2>1, GroupMade
  <2>3. Append(gs, [app |-> xt.app, opaques |-> << xt.data >>]) \in Seq(AppGroups)
    BY <2>2, AppendProperties
  <2> QED BY <1>3, <2>3
<1> QED BY <1>2, <1>3

LEMMA GroupKeeps == FlattenInv /\ Group => FlattenInv'
<1> SUFFICES ASSUME FlattenInv, Group PROVE FlattenInv'
  OBVIOUS
<1>1. xts \in Seq(Xts) /\ xts # << >> /\ groups \in Seq(AppGroups)
  BY DEF FlattenInv, FlattenTypes, Group
<1>2. Head(xts) \in Xts /\ Tail(xts) \in Seq(Xts)
  BY <1>1, HeadTailProperties
<1>3. groups' \in Seq(AppGroups)
  BY <1>1, <1>2, GroupsTyped, Zenon DEF Group
<1>4. FlattenTypes'
  BY <1>2, <1>3 DEF FlattenInv, FlattenTypes, Group
<1>5. Counted'
  BY DEF FlattenInv, Counted, BlockSize, Group
<1>6. Chosen' /\ Refused'
  BY DEF FlattenInv, Chosen, Refused, Fits, MaxSize, TooLarge, MaxDims, Group
<1> QED BY <1>4, <1>5, <1>6 DEF FlattenInv

LEMMA PadKeeps == FlattenInv /\ Pad => FlattenInv'
<1> SUFFICES ASSUME FlattenInv, Pad PROVE FlattenInv'
  OBVIOUS
<1> DEFINE chunks == PaddedChunks(Encode(Head(groups).opaques))
           e == [app |-> Head(groups).app, len |-> Len(chunks)]
<1>1. /\ groups \in Seq(AppGroups) /\ groups # << >> /\ layout \in Seq(Laid) /\ padded \in Seq(Seq(Nat))
      /\ pc = "pad" /\ dims = NoDims /\ reply = Pending /\ Len(padded) = Total(layout)
  BY DEF FlattenInv, FlattenTypes, Counted, Pad
<1>2. Head(groups) \in AppGroups /\ Tail(groups) \in Seq(AppGroups)
  BY <1>1, HeadTailProperties
<1>3. chunks \in Seq(Seq(Nat))
  BY <1>2, GroupFields, EncodeIs, PaddedChunksTyped
<1>4. layout' = Append(layout, e) /\ padded' = padded \o chunks
  BY DEF Pad
<1> HIDE DEF chunks
<1>5. e \in Laid /\ e.len = Len(chunks)
  BY <1>2, <1>3, GroupFields, LenProperties DEF Laid
<1> HIDE DEF e
<1>6. layout' \in Seq(Laid) /\ Total(layout') = Total(layout) + Len(chunks)
  BY <1>1, <1>4, <1>5, LaidMore, AppendProperties
<1>7. padded' \in Seq(Seq(Nat)) /\ Len(padded') = Len(padded) + Len(chunks)
  BY <1>1, <1>3, <1>4, ConcatProperties
<1>8. FlattenTypes'
  BY <1>2, <1>6, <1>7 DEF FlattenInv, FlattenTypes, Pad
<1>9. pc' = "pad" /\ dims' = NoDims /\ reply' = Pending
  BY <1>1 DEF Pad
<1>10. Counted'
  BY <1>1, <1>6, <1>7, <1>9 DEF Counted
<1>11. Chosen' /\ Refused'
  BY <1>9 DEF Chosen, Refused, Pending
<1> QED BY <1>8, <1>10, <1>11 DEF FlattenInv

\* A block that overflows u32 does not fit either, or the largest one overflows.
LEMMA PaddedKeeps == FlattenInv /\ Padded => FlattenInv'
<1> SUFFICES ASSUME FlattenInv, Padded PROVE FlattenInv'
  OBVIOUS
<1>1. /\ request \in Requests /\ padded \in Seq(Seq(Nat)) /\ pc = "pad" /\ dims = NoDims
      /\ reply = Pending /\ Len(padded) = Total(layout)
  BY DEF FlattenInv, FlattenTypes, Counted, Padded
<1>2. FlattenTypes'
  BY DEF FlattenInv, FlattenTypes, Padded, Fail
<1>3. CASE BlockSize > U32Max
  <2>1. pc' = "done" /\ reply' = Err("BlockTooBig") /\ dims' = dims /\ padded' = padded
        /\ layout' = layout /\ request' = request
    BY <1>3 DEF Padded, Fail
  <2>2. Counted'
    BY <1>1, <2>1 DEF Counted
  <2>3. Chosen'
    BY <1>1, <2>1 DEF Chosen
  <2>4. ASSUME Total(layout) <= Size(MaxDims) PROVE TooLarge(MaxDims)
    <3>1. Size(MaxDims) \in Nat /\ CHUNK_SIZE \in Nat \ {0} /\ Len(padded) \in Nat
          /\ U32Max \in Nat
      BY <1>1, RequestsAre, SizeAssumption, PowersPositive, LenProperties, U32MaxAssumption
    <3>2. CHUNK_SIZE * Len(padded) <= CHUNK_SIZE * Size(MaxDims)
      <4>1. Len(padded) <= Size(MaxDims)
        BY <1>1, <2>4
      <4> QED BY <3>1, <4>1, Products
    <3>3. CHUNK_SIZE * Len(padded) = BlockSize /\ CHUNK_SIZE * Size(MaxDims) = Size(MaxDims) * CHUNK_SIZE
          /\ CHUNK_SIZE * Size(MaxDims) \in Nat /\ CHUNK_SIZE * Len(padded) \in Nat
      BY <3>1, Products DEF BlockSize
    <3>4. Size(MaxDims) * CHUNK_SIZE > U32Max
      BY <1>3, <3>1, <3>2, <3>3
    <3> QED BY <3>4 DEF TooLarge
  <2>5. Refused
    BY <1>1 DEF Refused, Pending
  <2>6. MaxDims' = MaxDims
    BY <2>1 DEF MaxDims
  <2>7. Refused'
    BY <2>1, <2>4, <2>6 DEF Refused, TooLarge
  <2> QED BY <1>2, <2>2, <2>3, <2>7 DEF FlattenInv
<1>4. CASE ~(BlockSize > U32Max)
  <2>1. pc' = "dims" /\ reply' = reply /\ dims' = dims /\ padded' = padded
        /\ layout' = layout /\ request' = request
    BY <1>4 DEF Padded
  <2>2. BlockSize \in Nat /\ U32Max \in Nat
    <3>1. CHUNK_SIZE \in Nat \ {0} /\ Len(padded) \in Nat
      BY <1>1, SizeAssumption, PowersPositive, LenProperties
    <3> QED BY <3>1, U32MaxAssumption DEF BlockSize
  <2>3. BlockSize' <= U32Max
    BY <1>4, <2>1, <2>2 DEF BlockSize
  <2>4. Counted'
    BY <1>1, <2>1, <2>3 DEF Counted
  <2>5. Chosen' /\ Refused'
    BY <1>1, <2>1 DEF Chosen, Refused, Pending
  <2> QED BY <1>2, <2>4, <2>5 DEF FlattenInv
<1> QED BY <1>3, <1>4

\* No error means the caller's limits are powers of two and the block is within
\* them, and no later check has a say.
LEMMA DimsErrors ==
  ASSUME request \in Requests, NEW size \in 0 .. U32Max
  PROVE  /\ DimsError(size) = "none" =>
              Limits /\ size <= MaxSize /\ ~TooLarge(MaxDims)
         /\ DimsError(size) = "BlockTooBig" => TooLarge(MaxDims) \/ size > MaxSize
<1> DEFINE d == BlockDimensions(size)
           refused == TooLarge(MaxDims) \/ size > Size(MaxDims) * CHUNK_SIZE
           again == TooLarge(d) \/ size > Size(d) * CHUNK_SIZE
<1>1. DimsError(size) =
        IF ~IsPowerOfTwo(request.maxRows) THEN "InvalidMaxRows"
        ELSE IF ~IsPowerOfTwo(request.maxCols) THEN "InvalidMaxCols"
        ELSE IF refused THEN "BlockTooBig"
        ELSE IF again THEN "BlockTooBig" ELSE "none"
  BY DEF DimsError
<1>2. request.full \in BOOLEAN /\ Size(MaxDims) \in Nat /\ CHUNK_SIZE \in Nat
  BY RequestsAre, SizeAssumption, PowersPositive
<1>3. MaxSize \in Nat /\ size \in Nat
  BY <1>2, U32MaxAssumption DEF MaxSize
<1>4. ~refused => size <= MaxSize /\ ~TooLarge(MaxDims)
  BY <1>3 DEF MaxSize
<1>5. refused => TooLarge(MaxDims) \/ size > MaxSize
  BY DEF MaxSize
<1>6. ASSUME Limits, ~refused PROVE ~again
  <2>1. size <= Size(d) * CHUNK_SIZE /\ ~TooLarge(d) /\ Fits(d, size)
    BY <1>4, <1>6, ChosenFits
  <2>2. Size(d) * CHUNK_SIZE \in Nat
    <3>1. d.rows \in Nat /\ d.cols \in Nat
      BY <2>1, PowersPositive DEF Fits
    <3> QED BY <1>2, <3>1 DEF Size
  <2> HIDE DEF d
  <2> QED BY <1>3, <2>1, <2>2
<1> HIDE DEF d, refused, again
<1>7. IsPowerOfTwo(request.maxRows) /\ IsPowerOfTwo(request.maxCols) <=> Limits
  BY <1>2 DEF IsPowerOfTwo, Limits
<1> QED BY <1>1, <1>4, <1>5, <1>6, <1>7

LEMMA RefuseDimsKeeps == FlattenInv /\ RefuseDims => FlattenInv'
<1> SUFFICES ASSUME FlattenInv, RefuseDims PROVE FlattenInv'
  OBVIOUS
<1>1. /\ request \in Requests /\ padded \in Seq(Seq(Nat)) /\ dims = NoDims
      /\ Len(padded) = Total(layout) /\ BlockSize <= U32Max
  BY DEF FlattenInv, FlattenTypes, Counted, RefuseDims
<1>2. /\ reply' = Err(DimsError(BlockSize)) /\ pc' = "done" /\ dims' = dims
      /\ padded' = padded /\ layout' = layout /\ request' = request
  BY DEF RefuseDims, Fail
<1>3. FlattenTypes'
  BY <1>2 DEF FlattenInv, FlattenTypes, RefuseDims
<1>4. Counted' /\ Chosen'
  BY <1>1, <1>2 DEF Counted, Chosen
<1>5. /\ Len(padded) \in Nat /\ CHUNK_SIZE \in Nat \ {0} /\ Size(MaxDims) \in Nat
      /\ U32Max \in Nat
  BY <1>1, RequestsAre, SizeAssumption, PowersPositive, LenProperties, U32MaxAssumption
<1>6. BlockSize \in 0 .. U32Max
  BY <1>1, <1>5 DEF BlockSize
<1>7. ASSUME reply'.err = "BlockTooBig", Total(layout) <= Size(MaxDims) PROVE TooLarge(MaxDims)
  <2>1. DimsError(BlockSize) = "BlockTooBig"
    BY <1>2, <1>7 DEF Err
  <2>2. TooLarge(MaxDims) \/ BlockSize > MaxSize
    BY <1>1, <1>6, <2>1, DimsErrors
  <2>3. CHUNK_SIZE * Len(padded) <= CHUNK_SIZE * Size(MaxDims)
    <3>1. Len(padded) <= Size(MaxDims)
      BY <1>1, <1>7
    <3> QED BY <1>5, <3>1, Products
  <2>4. CHUNK_SIZE * Len(padded) = BlockSize /\ CHUNK_SIZE * Size(MaxDims) = MaxSize
        /\ CHUNK_SIZE * Size(MaxDims) \in Nat
    BY <1>5, Products DEF BlockSize, MaxSize
  <2> QED BY <1>6, <2>2, <2>3, <2>4
<1>8. MaxDims' = MaxDims
  BY <1>2 DEF MaxDims
<1>9. Refused'
  BY <1>2, <1>7, <1>8 DEF Refused, TooLarge
<1> QED BY <1>3, <1>4, <1>9 DEF FlattenInv

LEMMA RandomTyped == Random \in Seq(Nat)
<1> DEFINE noise == [k \in 1 .. (SCALAR_SIZE - 1) |-> 255]
<1>1. SCALAR_SIZE - 1 \in Nat
  BY ChunkAssumption
<1>2. noise \in [1 .. (SCALAR_SIZE - 1) -> Nat]
  OBVIOUS
<1> HIDE DEF noise
<1>3. noise \in Seq(Nat)
  BY <1>1, <1>2, FunctionIsSeq
<1>4. CHUNK_SIZE \in Int
  BY SizeAssumption, PowersPositive
<1> QED BY <1>3, <1>4, PaddingTyped DEF Random, noise

\* The dimensions are some, and there is room for the chunks.
LEMMA FillChooses ==
  ASSUME FlattenInv, Fill
  PROVE  LET d == BlockDimensions(BlockSize)
             noise == [k \in 1 .. (Size(d) - Len(padded)) |-> Random]
         IN  /\ d # NoDims /\ Size(d) \in Nat /\ Fits(d, BlockSize)
             /\ Len(padded) <= Size(d) /\ Len(padded) <= Size(MaxDims)
             /\ noise \in Seq(Seq(Nat)) /\ Len(noise) = Size(d) - Len(padded)
<1>1. request \in Requests /\ padded \in Seq(Seq(Nat)) /\ BlockSize <= U32Max
  BY DEF FlattenInv, FlattenTypes, Counted, Fill
<1> DEFINE d == BlockDimensions(BlockSize)
           noise == [k \in 1 .. (Size(d) - Len(padded)) |-> Random]
<1>3. /\ Len(padded) \in Nat /\ CHUNK_SIZE \in Nat \ {0} /\ Size(MaxDims) \in Nat
      /\ U32Max \in Nat
  BY <1>1, RequestsAre, SizeAssumption, PowersPositive, LenProperties, U32MaxAssumption
<1>4. BlockSize \in 0 .. U32Max
  BY <1>1, <1>3 DEF BlockSize
<1>5. Limits /\ BlockSize <= MaxSize /\ ~TooLarge(MaxDims)
  BY <1>1, <1>4, DimsErrors DEF Fill
<1>6. Fits(d, BlockSize) /\ BlockSize <= Size(d) * CHUNK_SIZE
  BY <1>4, <1>5, ChosenFits
<1>7. d.rows \in Nat \ {0} /\ d.cols \in Nat \ {0}
  BY <1>6, PowersPositive DEF Fits
<1> HIDE DEF d
<1>8. Size(d) \in Nat
  BY <1>7 DEF Size
<1>9. d # NoDims
  BY <1>7 DEF NoDims, Dimensions
<1>10. Len(padded) <= Size(d) /\ Len(padded) <= Size(MaxDims)
  <2>1. CHUNK_SIZE * Len(padded) = BlockSize /\ CHUNK_SIZE * Size(d) = Size(d) * CHUNK_SIZE
        /\ CHUNK_SIZE * Size(MaxDims) = MaxSize
    BY <1>3, <1>8, Products DEF BlockSize, MaxSize
  <2> QED BY <1>3, <1>5, <1>6, <1>8, <2>1, Products
<1>11. Size(d) - Len(padded) \in Nat
  BY <1>3, <1>8, <1>10
<1>12. noise \in Seq(Seq(Nat)) /\ Len(noise) = Size(d) - Len(padded)
  <2>1. noise \in [1 .. (Size(d) - Len(padded)) -> Seq(Nat)]
    BY RandomTyped
  <2> HIDE DEF noise
  <2> QED BY <1>11, <2>1, FunctionIsSeq
<1> QED BY <1>6, <1>8, <1>9, <1>10, <1>12 DEF d

LEMMA FillKeeps == FlattenInv /\ Fill => FlattenInv'
<1> SUFFICES ASSUME FlattenInv, Fill PROVE FlattenInv'
  OBVIOUS
<1>1. /\ request \in Requests /\ padded \in Seq(Seq(Nat)) /\ layout \in Seq(Laid) /\ dims = NoDims
      /\ Len(padded) = Total(layout) /\ reply = Pending
  BY DEF FlattenInv, FlattenTypes, Counted, Fill
<1> DEFINE d == BlockDimensions(BlockSize)
           noise == [k \in 1 .. (Size(d) - Len(padded)) |-> Random]
<1>2. /\ dims' = d /\ padded' = padded \o [k \in 1 .. (Size(dims') - Len(padded)) |-> Random]
      /\ pc' = "extend" /\ layout' = layout /\ request' = request /\ reply' = reply
      /\ xts' = xts /\ groups' = groups
  BY DEF Fill
<1>3. /\ d # NoDims /\ Size(d) \in Nat /\ Fits(d, BlockSize)
      /\ Len(padded) <= Size(d) /\ Len(padded) <= Size(MaxDims)
      /\ noise \in Seq(Seq(Nat)) /\ Len(noise) = Size(d) - Len(padded)
  BY FillChooses
<1> HIDE DEF d
<1>4. padded' = padded \o noise
  BY <1>2
<1> HIDE DEF noise
<1>5. padded' \in Seq(Seq(Nat)) /\ Len(padded') = Size(d)
  <2>1. padded' \in Seq(Seq(Nat)) /\ Len(padded') = Len(padded) + Len(noise)
    BY <1>1, <1>3, <1>4, ConcatProperties
  <2>2. Len(padded) \in Nat
    BY <1>1, LenProperties
  <2> QED BY <1>3, <2>1, <2>2
<1>6. FlattenTypes'
  BY <1>2, <1>5 DEF FlattenInv, FlattenTypes
<1>7. Counted'
  BY <1>2, <1>3 DEF Counted
<1>8. MaxDims' = MaxDims
  BY <1>2 DEF MaxDims
<1>9. Total(layout) * CHUNK_SIZE = BlockSize
  BY <1>1 DEF BlockSize
<1>10. Chosen'
  <2>1. Fits(dims, Total(layout) * CHUNK_SIZE)'
    BY <1>2, <1>3, <1>8, <1>9 DEF Fits, MaxSize
  <2>2. Total(layout') <= Size(MaxDims')
    BY <1>1, <1>2, <1>3, <1>8
  <2> QED BY <1>2, <1>5, <2>1, <2>2 DEF Chosen
<1>11. Refused'
  BY <1>1, <1>2 DEF Refused, Pending
<1> QED BY <1>6, <1>7, <1>10, <1>11 DEF FlattenInv

\* What is chosen stays.
LEMMA RestKeeps ==
  ASSUME FlattenInv,
         \/ Grouped \/ Extend \/ RefuseExtend \/ Commit \/ UNCHANGED vars
  PROVE  FlattenInv'
<1>1. CASE Grouped
  BY <1>1 DEF FlattenInv, FlattenTypes, Counted, Chosen, Refused, Fits, MaxSize, MaxDims, TooLarge, Grouped
<1>2. CASE Extend
  BY <1>2 DEF FlattenInv, FlattenTypes, Counted, Chosen, Refused, Fits, MaxSize, MaxDims, TooLarge, Extend
<1>3. CASE RefuseExtend
  <2>1. ExtendError \in {"none", "ZeroDimension", "InvalidDimensionExtension", "InvalidChunkLength"}
    BY DEF ExtendError
  <2>2. reply'.err # "BlockTooBig"
    BY <1>3, <2>1 DEF RefuseExtend, Fail, Err
  <2>3. Refused'
    BY <2>2 DEF Refused
  <2> QED BY <1>3, <2>3 DEF FlattenInv, FlattenTypes, Counted, Chosen, Fits, MaxSize, MaxDims, RefuseExtend, Fail
<1>4. CASE Commit
  <2>1. reply'.err = "none"
    BY <1>4 DEF Commit, Ok
  <2>2. Refused'
    BY <2>1 DEF Refused
  <2> QED BY <1>4, <2>2 DEF FlattenInv, FlattenTypes, Counted, Chosen, Fits, MaxSize, MaxDims, Commit
<1>5. CASE UNCHANGED vars
  BY <1>5 DEF FlattenInv, FlattenTypes, Counted, Chosen, Refused, Fits, MaxSize, MaxDims, TooLarge, BlockSize, vars
<1> QED BY <1>1, <1>2, <1>3, <1>4, <1>5

LEMMA FlattenStep == FlattenInv /\ [Next]_vars => FlattenInv'
BY SortKeeps, GroupKeeps, PadKeeps, PaddedKeeps, RefuseDimsKeeps, FillKeeps, RestKeeps DEF Next

LEMMA FlattenIsExact == FlattenInv => DimensionsAreTight /\ RefusedIfTooBig
<1> SUFFICES ASSUME FlattenInv PROVE DimensionsAreTight /\ RefusedIfTooBig
  OBVIOUS
<1>1. layout \in Seq(Laid)
  BY DEF FlattenInv, FlattenTypes
<1>2. StartOf(Len(layout) + 1) = Total(layout)
  BY <1>1, StartIsTotal
<1>3. RefusedIfTooBig
  BY <1>2 DEF FlattenInv, RefusedIfTooBig, Refused, Chosen
<1>4. Needed = Max({Total(layout) * CHUNK_SIZE, MINIMUM_BLOCK_SIZE})
  BY <1>2, Zenon DEF Needed
<1>5. DimensionsAreTight
  BY <1>4 DEF FlattenInv, DimensionsAreTight, Chosen, Fits, MaxSize, IsPowerOfTwo
<1> QED BY <1>3, <1>5

-------------------------------------------------------------------------------
(***************************************************************************)
(* Grouping a sorted block.                                                *)
(***************************************************************************)

LEMMA XtFields ==
  ASSUME NEW xt \in Xts
  PROVE  xt.app \in Nat /\ xt.data \in Seq(Nat)
BY DEF Xts

\* An application's extrinsics are its own, and there are some.
LEMMA OwnHave ==
  ASSUME NEW sequence \in Seq(Xts), NEW app
  PROVE  /\ \A k \in 1 .. Len(Of(sequence, app)) : Of(sequence, app)[k].app = app
         /\ app \in AppsOf(sequence) => Of(sequence, app) # << >>
<1> DEFINE N == Len(sequence)
           own == OfUpTo(sequence, app)
           Have(n) == /\ \A k \in 1 .. Len(own[n]) : own[n][k].app = app
                      /\ \A i \in 1 .. n : sequence[i].app = app => own[n] # << >>
           T == {n \in 0 .. N : Have(n)}
<1>1. N \in Nat
  BY LenProperties
<1>2. /\ own[0] = << >>
      /\ \A k \in 1 .. N :
           own[k] = IF sequence[k].app = app THEN Append(own[k - 1], sequence[k]) ELSE own[k - 1]
      /\ \A k \in 0 .. N : own[k] \in Seq(Xts)
  BY OwnAre
<1> HIDE DEF own, N
<1>3. 0 \in T
  <2>1. Len(own[0]) = 0
    BY <1>2, EmptySeq
  <2> QED BY <1>1, <2>1
<1>4. ASSUME NEW n \in 1 .. N, n - 1 \in T PROVE n \in T
  <2>1. n \in 0 .. N /\ n - 1 \in 0 .. N /\ sequence[n] \in Xts
    BY <1>1, ElementOfSeq DEF N
  <2>2. own[n - 1] \in Seq(Xts) /\ Len(own[n - 1]) \in Nat
    BY <1>2, <2>1, LenProperties
  <2>3. CASE sequence[n].app = app
    <3> DEFINE before == own[n - 1]
               l == Len(before)
    <3>1. own[n] = Append(before, sequence[n])
      BY <1>2, <2>3
    <3>2. /\ own[n] # << >> /\ Len(own[n]) = l + 1
          /\ \A k \in 1 .. l : own[n][k] = before[k]
          /\ own[n][l + 1] = sequence[n]
      BY <2>1, <2>2, <3>1, AppendProperties
    <3>3. \A k \in 1 .. l : before[k].app = app
      BY <1>4
    <3>4. l \in Nat
      BY <2>2
    <3> HIDE DEF before, l
    <3>5. \A k \in 1 .. l + 1 : own[n][k].app = app
      <4>1. \A k \in 1 .. l + 1 : k \in 1 .. l \/ k = l + 1
        BY <3>4
      <4> QED BY <2>3, <3>2, <3>3, <4>1
    <3> QED BY <2>1, <3>2, <3>5
  <2>4. CASE sequence[n].app # app
    <3>1. own[n] = own[n - 1]
      BY <1>2, <2>4
    <3>2. \A i \in 1 .. n : i = n \/ i \in 1 .. n - 1
      OBVIOUS
    <3>3. Have(n - 1)
      BY <1>4
    <3>4. \A k \in 1 .. Len(own[n]) : own[n][k].app = app
      BY <3>1, <3>3
    <3>5. \A i \in 1 .. n : sequence[i].app = app => own[n] # << >>
      BY <2>4, <3>1, <3>2, <3>3
    <3> QED BY <2>1, <3>4, <3>5
  <2> QED BY <2>3, <2>4
<1> HIDE DEF T
<1>5. \A n \in 0 .. N : n \in T
  BY <1>1, <1>3, <1>4, UpTo
<1>6. N \in 0 .. N
  BY <1>1
<1>7. Have(N)
  BY <1>5, <1>6 DEF T
<1>8. Of(sequence, app) = own[N]
  BY DEF Of, own, N
<1>9. app \in AppsOf(sequence) => \E i \in 1 .. N : sequence[i].app = app
  BY AppsAre DEF N
<1> QED BY <1>7, <1>8, <1>9

\* The applications of a block in their order, how many, and their extrinsics.
AppAt(sequence, k) == Ascending(AppsOf(sequence))[k]
AppCount(sequence) == Cardinality(AppsOf(sequence))

LEMMA PartsAre ==
  ASSUME NEW sequence \in Seq(Xts)
  PROVE  /\ AppCount(sequence) \in Nat
         /\ Sorted(sequence) \in Seq(Seq(Xts)) /\ Len(Sorted(sequence)) = AppCount(sequence)
         /\ \A k \in 1 .. AppCount(sequence) :
              /\ AppAt(sequence, k) \in AppsOf(sequence)
              /\ Sorted(sequence)[k] = Of(sequence, AppAt(sequence, k))
              /\ Sorted(sequence)[k] \in Seq(Xts) /\ Sorted(sequence)[k] # << >>
              /\ \A j \in 1 .. Len(Sorted(sequence)[k]) :
                   Sorted(sequence)[k][j].app = AppAt(sequence, k)
         /\ \A j, k \in 1 .. AppCount(sequence) : j # k => AppAt(sequence, j) # AppAt(sequence, k)
         /\ \A app \in AppsOf(sequence) : \E k \in 1 .. AppCount(sequence) : AppAt(sequence, k) = app
<1> DEFINE S == AppsOf(sequence)
           N == Cardinality(S)
           apps == Ascending(S)
<1>1. S \subseteq Nat /\ IsFiniteSet(S)
  BY AppsAre
<1>2. /\ apps \in Seq(S) /\ Len(apps) = N /\ N \in Nat
      /\ \A j, k \in 1 .. N : j < k => apps[j] < apps[k]
      /\ \A n \in S : \E k \in 1 .. N : apps[k] = n
  BY <1>1, AscendingIs
<1>3. Sorted(sequence) \in Seq(Seq(Xts)) /\ Len(Sorted(sequence)) = N
  BY SortedIs
<1>4. \A k : AppAt(sequence, k) = apps[k]
  BY DEF AppAt
<1>5. Sorted(sequence) = [k \in 1 .. N |-> Of(sequence, apps[k])]
  BY DEF Sorted
<1>6. AppCount(sequence) = N
  BY DEF AppCount
<1> HIDE DEF apps, N, S
<1>7. \A k \in 1 .. N : apps[k] \in S
  BY <1>2, ElementOfSeq
<1>8. \A j, k \in 1 .. N : j # k => apps[j] # apps[k]
  <2>1. \A j \in 1 .. N : apps[j] \in Nat
    BY <1>1, <1>7
  <2> QED BY <1>2, <2>1
<1>9. ASSUME NEW k \in 1 .. N
      PROVE  /\ Sorted(sequence)[k] = Of(sequence, apps[k])
             /\ Sorted(sequence)[k] \in Seq(Xts) /\ Sorted(sequence)[k] # << >>
             /\ \A j \in 1 .. Len(Sorted(sequence)[k]) : Sorted(sequence)[k][j].app = apps[k]
  <2>1. Sorted(sequence)[k] = Of(sequence, apps[k])
    BY <1>5
  <2>2. apps[k] \in AppsOf(sequence)
    BY <1>7 DEF S
  <2>3. Of(sequence, apps[k]) \in Seq(Xts)
    BY OfTyped
  <2>4. Of(sequence, apps[k]) # << >>
        /\ \A j \in 1 .. Len(Of(sequence, apps[k])) : Of(sequence, apps[k])[j].app = apps[k]
    BY <2>2, OwnHave
  <2> QED BY <2>1, <2>3, <2>4
<1>10. S = AppsOf(sequence)
  BY DEF S
<1>11. \A k \in 1 .. N :
         /\ AppAt(sequence, k) \in AppsOf(sequence)
         /\ Sorted(sequence)[k] = Of(sequence, AppAt(sequence, k))
         /\ Sorted(sequence)[k] \in Seq(Xts) /\ Sorted(sequence)[k] # << >>
         /\ \A j \in 1 .. Len(Sorted(sequence)[k]) :
              Sorted(sequence)[k][j].app = AppAt(sequence, k)
  BY <1>4, <1>7, <1>9, <1>10
<1>12. \A j, k \in 1 .. N : j # k => AppAt(sequence, j) # AppAt(sequence, k)
  BY <1>4, <1>8
<1>13. \A app \in AppsOf(sequence) : \E k \in 1 .. N : AppAt(sequence, k) = app
  BY <1>2, <1>4, <1>10
<1> QED BY <1>2, <1>3, <1>6, <1>11, <1>12, <1>13

\* What a sorted block has behind its first applications.
Behind(sequence, k) == FlattenSeq(SubSeq(Sorted(sequence), k + 1, AppCount(sequence)))

LEMMA BehindTyped ==
  ASSUME NEW sequence \in Seq(Xts), NEW k \in 0 .. AppCount(sequence)
  PROVE  /\ SubSeq(Sorted(sequence), k + 1, AppCount(sequence)) \in Seq(Seq(Xts))
         /\ Behind(sequence, k) \in Seq(Xts)
<1> DEFINE N == AppCount(sequence)
<1>1. N \in Nat /\ Sorted(sequence) \in Seq(Seq(Xts)) /\ Len(Sorted(sequence)) = N
  BY PartsAre
<1>0. k \in 0 .. N
  OBVIOUS
<1> HIDE DEF N
<1>2. \A i \in k + 1 .. N : Sorted(sequence)[i] \in Seq(Xts)
  <2>1. \A i \in k + 1 .. N : i \in 1 .. N
    BY <1>0, <1>1
  <2> QED BY <1>1, <2>1, ElementOfSeq
<1>3. k + 1 \in Int /\ N \in Int
  BY <1>0, <1>1
<1>4. SubSeq(Sorted(sequence), k + 1, N) \in Seq(Seq(Xts))
  BY <1>2, <1>3, SubSeqProperties
<1>5. FlattenSeq(SubSeq(Sorted(sequence), k + 1, N)) \in Seq(Xts)
  BY <1>4, FlattenTyped
<1> QED BY <1>4, <1>5 DEF Behind, N

LEMMA BehindNone ==
  ASSUME NEW sequence \in Seq(Xts)
  PROVE  Behind(sequence, 0) = SortedByApp(sequence)
<1>1. /\ Sorted(sequence) \in Seq(Seq(Xts)) /\ Len(Sorted(sequence)) = AppCount(sequence)
      /\ SortedByApp(sequence) = FlattenSeq(Sorted(sequence))
  BY PartsAre, SortedIs
<1>2. SubSeq(Sorted(sequence), 1, AppCount(sequence)) = Sorted(sequence)
  BY <1>1, SubSeqFull
<1>3. 0 + 1 = 1
  OBVIOUS
<1> QED BY <1>1, <1>2, <1>3 DEF Behind

LEMMA BehindAll ==
  ASSUME NEW sequence \in Seq(Xts)
  PROVE  Behind(sequence, AppCount(sequence)) = << >>
<1> DEFINE n == AppCount(sequence)
<1>1. n \in Nat
  BY PartsAre
<1> HIDE DEF n
<1>2. n + 1 \in Int /\ n \in Int /\ n < n + 1
  BY <1>1
<1>3. SubSeq(Sorted(sequence), n + 1, n) = << >>
  BY <1>2, SubSeqEmpty
<1>4. Len(<< >>) = 0
  BY EmptySeq
<1>5. FlattenSeq(<< >>) = << >>
  BY <1>4, FlattenNothing
<1> QED BY <1>3, <1>5 DEF Behind, n

LEMMA BehindNext ==
  ASSUME NEW sequence \in Seq(Xts), NEW k \in 0 .. AppCount(sequence) - 1
  PROVE  Behind(sequence, k) = Sorted(sequence)[k + 1] \o Behind(sequence, k + 1)
<1> DEFINE n == AppCount(sequence)
           p == Sorted(sequence)
<1>1. n \in Nat /\ p \in Seq(Seq(Xts)) /\ Len(p) = n
  BY PartsAre
<1>2. k \in 0 .. n - 1 /\ Behind(sequence, k) = FlattenSeq(SubSeq(p, k + 1, n))
      /\ Behind(sequence, k + 1) = FlattenSeq(SubSeq(p, k + 1 + 1, n))
  BY DEF Behind
<1>3. k + 1 \in 0 .. n
  BY <1>1, <1>2
<1>4. SubSeq(p, k + 1 + 1, n) \in Seq(Seq(Xts))
  BY <1>3, BehindTyped
<1> HIDE DEF n, p
<1>5. k + 1 \in 1 .. Len(p) /\ n \in k + 1 .. Len(p)
  BY <1>1, <1>2
<1>6. SubSeq(p, k + 1, n) = << p[k + 1] >> \o SubSeq(p, k + 1 + 1, n)
  BY <1>1, <1>5, SubSeqRecursiveFirst
<1>7. p[k + 1] \in Seq(Xts)
  BY <1>1, <1>5, ElementOfSeq
<1>8. FlattenSeq(<< p[k + 1] >> \o SubSeq(p, k + 1 + 1, n))
        = p[k + 1] \o FlattenSeq(SubSeq(p, k + 1 + 1, n))
  BY <1>4, <1>7, FlattenCons
<1> QED BY <1>2, <1>6, <1>8 DEF p

-------------------------------------------------------------------------------
(***************************************************************************)
(* How the sorted extrinsics are grouped.                                  *)
(***************************************************************************)

LEMMA HeadIsFirst ==
  ASSUME NEW S, NEW s \in Seq(S), s # << >>
  PROVE  Head(s) = s[1] /\ 1 \in 1 .. Len(s)
OBVIOUS

LEMMA BothEmpty ==
  ASSUME NEW S, NEW s \in Seq(S), NEW t \in Seq(S), s \o t = << >>
  PROVE  s = << >> /\ t = << >>
BY ConcatEqualIffEmpty

LEMMA ConcatHead ==
  ASSUME NEW S, NEW s \in Seq(S), s # << >>, NEW t \in Seq(S)
  PROVE  s \o t # << >> /\ Head(s \o t) = Head(s) /\ Tail(s \o t) = Tail(s) \o t
<1> DEFINE n == Len(s)
           m == Len(t)
           whole == s \o t
           rest == Tail(s) \o t
<1>1. n \in Nat \ {0} /\ m \in Nat
  BY EmptySeq, LenProperties
<1>2. /\ whole \in Seq(S) /\ Len(whole) = n + m
      /\ \A i \in 1 .. n + m : whole[i] = IF i <= n THEN s[i] ELSE t[i - n]
  BY ConcatProperties
<1>3. /\ Tail(s) \in Seq(S) /\ Len(Tail(s)) = n - 1
      /\ \A i \in 1 .. n - 1 : Tail(s)[i] = s[i + 1]
  BY HeadTailProperties
<1>4. /\ rest \in Seq(S) /\ Len(rest) = (n - 1) + m
      /\ \A i \in 1 .. (n - 1) + m : rest[i] = IF i <= n - 1 THEN Tail(s)[i] ELSE t[i - (n - 1)]
  BY <1>3, ConcatProperties
<1> HIDE DEF whole, rest
<1>5. whole # << >>
  BY <1>1, <1>2, EmptySeq
<1>6. Head(whole) = whole[1] /\ Head(s) = s[1]
  BY <1>2, <1>5, HeadIsFirst
<1> HIDE DEF n, m
<1>7. whole[1] = s[1]
  BY <1>1, <1>2
<1>8. /\ Tail(whole) \in Seq(S) /\ Len(Tail(whole)) = n + m - 1
      /\ \A i \in 1 .. n + m - 1 : Tail(whole)[i] = whole[i + 1]
  <2>1. /\ Tail(whole) \in Seq(S) /\ Len(Tail(whole)) = Len(whole) - 1
        /\ \A i \in 1 .. Len(Tail(whole)) : Tail(whole)[i] = whole[i + 1]
    BY <1>2, <1>5, HeadTailProperties
  <2>2. Len(Tail(whole)) = n + m - 1
    BY <1>1, <1>2, <2>1
  <2>3. \A i \in 1 .. n + m - 1 : Tail(whole)[i] = whole[i + 1]
    BY <2>1, <2>2
  <2> QED BY <2>1, <2>2, <2>3
<1>9. Len(Tail(whole)) = Len(rest)
  BY <1>1, <1>4, <1>8
<1>10. ASSUME NEW i \in 1 .. Len(Tail(whole)) PROVE Tail(whole)[i] = rest[i]
  <2>1. i \in 1 .. n + m - 1 /\ i \in 1 .. (n - 1) + m /\ i + 1 \in 1 .. n + m /\ i \in Nat
    BY <1>1, <1>8
  <2>2. Tail(whole)[i] = IF i + 1 <= n THEN s[i + 1] ELSE t[(i + 1) - n]
    BY <1>2, <1>8, <2>1
  <2>3. rest[i] = IF i <= n - 1 THEN Tail(s)[i] ELSE t[i - (n - 1)]
    BY <1>4, <2>1
  <2>4. CASE i <= n - 1
    <3>1. i + 1 <= n /\ i \in 1 .. n - 1
      BY <1>1, <2>1, <2>4
    <3> QED BY <1>3, <2>2, <2>3, <2>4, <3>1
  <2>5. CASE ~(i <= n - 1)
    <3>1. ~(i + 1 <= n) /\ (i + 1) - n = i - (n - 1)
      BY <1>1, <2>1, <2>5
    <3> QED BY <2>2, <2>3, <2>5, <3>1
  <2> QED BY <2>4, <2>5
<1>11. Tail(whole) = rest
  BY <1>4, <1>8, <1>9, <1>10, SeqEqual
<1> QED BY <1>5, <1>6, <1>7, <1>11 DEF whole, rest

\* Parts of three joined from either side.
LEMMA Associative ==
  ASSUME NEW S
  PROVE  \A s, t, u \in Seq(S) : (s \o t) \o u = s \o (t \o u)
<1> TAKE s, t, u \in Seq(S)
<1> QED BY ConcatAssociative

LEMMA BytesJoin ==
  \A s, t, u \in Seq(Nat) : (s \o t) \o u = s \o (t \o u)
<1> TAKE s, t, u \in Seq(Nat)
<1> QED BY ConcatAssociative, SMTT(30)

\* One moves from the head of the second to the end of the first.
LEMMA MoveOne ==
  ASSUME NEW S
  PROVE  \A s, t \in Seq(S) : t # << >> => Append(s, Head(t)) \o Tail(t) = s \o t
<1>0. \A a, b, c \in Seq(S) : (a \o b) \o c = a \o (b \o c)
  BY Associative
<1> TAKE s, t \in Seq(S)
<1> HAVE t # << >>
<1> DEFINE h == << Head(t) >>
<1>1. Head(t) \in S /\ Tail(t) \in Seq(S)
  BY HeadTailProperties
<1>2. h \in Seq(S) /\ Len(h) = 1 /\ h[1] = Head(t)
  BY <1>1
<1>3. Append(s, Head(t)) = s \o h
  BY <1>1, AppendIsConcat
<1>4. h \o Tail(t) = t
  <2>1. Len(t) \in Nat \ {0}
    BY EmptySeq
  <2>2. 1 \in 1 .. Len(t) /\ Len(t) \in 1 .. Len(t)
    BY <2>1
  <2>3. SubSeq(t, 1, Len(t)) = << t[1] >> \o SubSeq(t, 1 + 1, Len(t))
    BY <2>2, SubSeqRecursiveFirst
  <2>4. SubSeq(t, 1, Len(t)) = t /\ Tail(t) = SubSeq(t, 2, Len(t)) /\ Head(t) = t[1] /\ 1 + 1 = 2
    BY SubSeqFull, TailIsSubSeq, HeadIsFirst
  <2> QED BY <2>3, <2>4
<1> HIDE DEF h
<1>5. (s \o h) \o Tail(t) = s \o (h \o Tail(t))
  BY <1>0, <1>1, <1>2, Zenon
<1> QED BY <1>3, <1>4, <1>5

\* What they contain, in their order.
DatasOf(sequence) == [k \in DOMAIN sequence |-> sequence[k].data]

LEMMA DatasTyped ==
  ASSUME NEW sequence \in Seq(Xts)
  PROVE  /\ DatasOf(sequence) \in Seq(Seq(Nat)) /\ Len(DatasOf(sequence)) = Len(sequence)
         /\ \A k \in 1 .. Len(sequence) : DatasOf(sequence)[k] = sequence[k].data
<1>1. Len(sequence) \in Nat /\ DOMAIN sequence = 1 .. Len(sequence)
  BY LenProperties
<1>2. \A k \in 1 .. Len(sequence) : sequence[k].data \in Seq(Nat)
  BY ElementOfSeq, XtFields
<1>3. DatasOf(sequence) = [k \in 1 .. Len(sequence) |-> sequence[k].data]
  BY <1>1 DEF DatasOf
<1>4. DatasOf(sequence) \in [1 .. Len(sequence) -> Seq(Nat)]
  BY <1>2, <1>3
<1> QED BY <1>1, <1>3, <1>4, FunctionIsSeq

LEMMA DatasMore ==
  ASSUME NEW sequence \in Seq(Xts), NEW xt \in Xts
  PROVE  DatasOf(Append(sequence, xt)) = Append(DatasOf(sequence), xt.data)
<1> DEFINE n == Len(sequence)
           more == Append(sequence, xt)
           one == DatasOf(more)
           other == Append(DatasOf(sequence), xt.data)
<1>1. /\ more \in Seq(Xts) /\ Len(more) = n + 1 /\ more[n + 1] = xt
      /\ \A i \in 1 .. n : more[i] = sequence[i]
  BY AppendProperties
<1>2. n \in Nat /\ xt.data \in Seq(Nat)
  BY LenProperties, XtFields
<1>3. /\ DatasOf(sequence) \in Seq(Seq(Nat)) /\ Len(DatasOf(sequence)) = n
      /\ \A k \in 1 .. n : DatasOf(sequence)[k] = sequence[k].data
  BY DatasTyped
<1>4. /\ other \in Seq(Seq(Nat)) /\ Len(other) = n + 1 /\ other[n + 1] = xt.data
      /\ \A i \in 1 .. n : other[i] = DatasOf(sequence)[i]
  BY <1>2, <1>3, AppendProperties
<1> HIDE DEF more, other
<1>5. /\ one \in Seq(Seq(Nat)) /\ Len(one) = n + 1
      /\ \A k \in 1 .. n + 1 : one[k] = more[k].data
  BY <1>1, DatasTyped
<1> HIDE DEF one, n
<1>6. ASSUME NEW i \in 1 .. n + 1 PROVE one[i] = other[i]
  <2>1. i \in 1 .. n \/ i = n + 1
    BY <1>2
  <2> QED BY <1>1, <1>3, <1>4, <1>5, <2>1
<1>7. one = other
  BY <1>4, <1>5, <1>6, SeqEqual
<1> QED BY <1>7 DEF one, other, more

\* The groups so far are those of the first applications, the last of which may
\* still have extrinsics to come.
Grouping(sequence, gs, rest) ==
  \E k \in 0 .. AppCount(sequence), taken, left \in Seq(Xts) :
    /\ Len(gs) = k
    /\ \A i \in 1 .. k : gs[i].app = AppAt(sequence, i)
    /\ \A i \in 1 .. k - 1 : gs[i].opaques = DatasOf(Sorted(sequence)[i])
    /\ k # 0 => Sorted(sequence)[k] = taken \o left /\ gs[k].opaques = DatasOf(taken)
    /\ k = 0 => left = << >>
    /\ rest = left \o Behind(sequence, k)

LEMMA GroupingBegins ==
  ASSUME NEW sequence \in Seq(Xts)
  PROVE  Grouping(sequence, << >>, SortedByApp(sequence))
<1>1. 0 \in 0 .. AppCount(sequence)
  BY PartsAre
<1>2. Len(<< >>) = 0 /\ << >> \in Seq(Xts)
  BY EmptySeq
<1>3. SortedByApp(sequence) = << >> \o Behind(sequence, 0)
  <2>1. Behind(sequence, 0) = SortedByApp(sequence) /\ Behind(sequence, 0) \in Seq(Xts)
    BY <1>1, BehindNone, BehindTyped
  <2> QED BY <2>1, ConcatEmptySeq
<1>4. (\A i \in 1 .. 0 : FALSE) /\ (\A i \in 1 .. 0 - 1 : FALSE)
  OBVIOUS
<1> QED BY <1>1, <1>2, <1>3, <1>4 DEF Grouping

\* All applications are grouped, and all of their extrinsics.
AllGrouped(sequence, gs) ==
  /\ Len(gs) = AppCount(sequence)
  /\ \A i \in 1 .. AppCount(sequence) :
       gs[i].app = AppAt(sequence, i) /\ gs[i].opaques = DatasOf(Sorted(sequence)[i])

LEMMA GroupingEnds ==
  ASSUME NEW sequence \in Seq(Xts), NEW gs, Grouping(sequence, gs, << >>)
  PROVE  AllGrouped(sequence, gs)
<1>1. PICK k \in 0 .. AppCount(sequence), taken \in Seq(Xts), left \in Seq(Xts) :
        /\ Len(gs) = k
        /\ \A i \in 1 .. k : gs[i].app = AppAt(sequence, i)
        /\ \A i \in 1 .. k - 1 : gs[i].opaques = DatasOf(Sorted(sequence)[i])
        /\ k # 0 => Sorted(sequence)[k] = taken \o left /\ gs[k].opaques = DatasOf(taken)
        /\ << >> = left \o Behind(sequence, k)
  BY DEF Grouping
<1>2. AppCount(sequence) \in Nat
  BY PartsAre
<1>3. left = << >> /\ Behind(sequence, k) = << >>
  <2>1. Behind(sequence, k) \in Seq(Xts)
    BY BehindTyped
  <2>2. left \o Behind(sequence, k) = << >>
    BY <1>1
  <2> HIDE DEF Behind
  <2> QED BY <2>1, <2>2, BothEmpty
<1>4. k = AppCount(sequence)
  <2> SUFFICES ASSUME k # AppCount(sequence) PROVE FALSE
    OBVIOUS
  <2>1. k \in 0 .. AppCount(sequence) - 1 /\ k + 1 \in 1 .. AppCount(sequence)
        /\ k + 1 \in 0 .. AppCount(sequence)
    BY <1>2
  <2>2. Sorted(sequence)[k + 1] \in Seq(Xts) /\ Sorted(sequence)[k + 1] # << >>
    BY <2>1, PartsAre
  <2>3. Behind(sequence, k) = Sorted(sequence)[k + 1] \o Behind(sequence, k + 1)
        /\ Behind(sequence, k + 1) \in Seq(Xts)
    BY <2>1, BehindNext, BehindTyped
  <2>4. Sorted(sequence)[k + 1] \o Behind(sequence, k + 1) = << >>
    BY <1>3, <2>3
  <2> QED BY <2>2, <2>3, <2>4, BothEmpty
<1>5. ASSUME NEW i \in 1 .. k PROVE gs[i].opaques = DatasOf(Sorted(sequence)[i])
  <2>1. CASE i = k
    <3>1. Sorted(sequence)[k] = taken
      BY <1>1, <1>3, <2>1, ConcatEmptySeq
    <3> QED BY <1>1, <2>1, <3>1
  <2>2. CASE i # k
    <3>1. i \in 1 .. k - 1
      BY <2>2
    <3> QED BY <1>1, <3>1
  <2> QED BY <2>1, <2>2
<1> QED BY <1>1, <1>4, <1>5 DEF AllGrouped

-------------------------------------------------------------------------------
LEMMA LastIs ==
  ASSUME NEW gs \in Seq(AppGroups), NEW k \in Nat \ {0}, Len(gs) = k
  PROVE  gs # << >> /\ Last(gs) = gs[k] /\ k \in 1 .. Len(gs)
<1>1. Last(gs) = gs[Len(gs)]
  BY Zenon DEF Last
<1>2. gs # << >>
  BY EmptySeq
<1> QED BY <1>1, <1>2

\* The groups with one more extrinsic.
WithNext(gs, xt) ==
  IF gs # << >> /\ Last(gs).app = xt.app
    THEN [gs EXCEPT ![Len(gs)].opaques = Append(@, xt.data)]
    ELSE Append(gs, [app |-> xt.app, opaques |-> << xt.data >>])

LEMMA SameGroup ==
  ASSUME NEW gs \in Seq(AppGroups), NEW k \in Nat \ {0}, Len(gs) = k,
         NEW xt \in Xts, gs[k].app = xt.app
  PROVE  /\ Len(WithNext(gs, xt)) = k
         /\ \A i \in 1 .. k : WithNext(gs, xt)[i].app = gs[i].app
         /\ \A i \in 1 .. k - 1 : WithNext(gs, xt)[i].opaques = gs[i].opaques
         /\ WithNext(gs, xt)[k].opaques = Append(gs[k].opaques, xt.data)
<1> DEFINE g == [gs[k] EXCEPT !.opaques = Append(@, xt.data)]
<1>1. gs # << >> /\ Last(gs) = gs[k] /\ k \in 1 .. Len(gs)
  BY LastIs
<1>2. gs[k] \in AppGroups
  BY <1>1, ElementOfSeq
<1>3. xt.data \in Seq(Nat)
  BY XtFields
<1>4. gs[k].opaques \in Seq(Seq(Nat))
  BY <1>2, GroupFields
<1>5. Append(gs[k].opaques, xt.data) \in Seq(Seq(Nat))
  BY <1>3, <1>4, AppendProperties
<1>6. /\ g \in AppGroups /\ g.app = gs[k].app
      /\ g.opaques = Append(gs[k].opaques, xt.data)
  BY <1>2, <1>5 DEF AppGroups
<1>7. WithNext(gs, xt) = [gs EXCEPT ![k].opaques = Append(@, xt.data)]
  BY <1>1, Zenon DEF WithNext
<1>8. [gs EXCEPT ![k].opaques = Append(@, xt.data)] = [gs EXCEPT ![k] = g]
  BY Zenon DEF g
<1> HIDE DEF g
<1>9. /\ Len([gs EXCEPT ![k] = g]) = k
      /\ \A j \in 1 .. k : [gs EXCEPT ![k] = g][j] = IF j = k THEN g ELSE gs[j]
  BY <1>1, <1>6, ExceptSeq
<1> DEFINE new == WithNext(gs, xt)
<1>10. Len(new) = k /\ \A j \in 1 .. k : new[j] = IF j = k THEN g ELSE gs[j]
  BY <1>7, <1>8, <1>9
<1> HIDE DEF new
<1>11. \A i \in 1 .. k - 1 : i \in 1 .. k /\ i # k
  OBVIOUS
<1>12. \A i \in 1 .. k : new[i].app = gs[i].app
  BY <1>6, <1>10
<1>13. \A i \in 1 .. k - 1 : new[i].opaques = gs[i].opaques
  BY <1>10, <1>11
<1>14. new[k].opaques = Append(gs[k].opaques, xt.data)
  <2>1. k \in 1 .. k
    OBVIOUS
  <2> QED BY <1>6, <1>10, <2>1
<1> QED BY <1>10, <1>12, <1>13, <1>14 DEF new

LEMMA NewGroup ==
  ASSUME NEW gs \in Seq(AppGroups), NEW k \in Nat, Len(gs) = k,
         NEW xt \in Xts, k # 0 => gs[k].app # xt.app
  PROVE  /\ Len(WithNext(gs, xt)) = k + 1
         /\ \A i \in 1 .. k : WithNext(gs, xt)[i] = gs[i]
         /\ WithNext(gs, xt)[k + 1].app = xt.app
         /\ WithNext(gs, xt)[k + 1].opaques = << xt.data >>
<1> DEFINE g == [app |-> xt.app, opaques |-> << xt.data >>]
<1>1. xt.app \in Nat /\ xt.data \in Seq(Nat)
  BY XtFields
<1>2. << xt.data >> \in Seq(Seq(Nat))
  BY <1>1
<1>3. g \in AppGroups /\ g.app = xt.app /\ g.opaques = << xt.data >>
  BY <1>1, <1>2, GroupMade
<1>4. ~(gs # << >> /\ Last(gs).app = xt.app)
  <2>1. CASE k = 0
    BY <2>1, EmptySeq
  <2>2. CASE k # 0
    BY <2>2, LastIs
  <2> QED BY <2>1, <2>2
<1>5. WithNext(gs, xt) = Append(gs, g)
  BY <1>4, Zenon DEF WithNext
<1> HIDE DEF g
<1>6. /\ Len(Append(gs, g)) = k + 1 /\ Append(gs, g)[k + 1] = g
      /\ \A i \in 1 .. k : Append(gs, g)[i] = gs[i]
  BY <1>3, AppendProperties
<1> QED BY <1>3, <1>5, <1>6

LEMMA GroupingStep ==
  ASSUME NEW sequence \in Seq(Xts), NEW gs \in Seq(AppGroups), NEW rest \in Seq(Xts),
         rest # << >>, Grouping(sequence, gs, rest)
  PROVE  Grouping(sequence, WithNext(gs, Head(rest)), Tail(rest))
<1> DEFINE N == AppCount(sequence)
           part(k) == Sorted(sequence)[k]
           new == WithNext(gs, Head(rest))
<1>1. PICK k \in 0 .. N, taken \in Seq(Xts), left \in Seq(Xts) :
        /\ Len(gs) = k
        /\ \A i \in 1 .. k : gs[i].app = AppAt(sequence, i)
        /\ \A i \in 1 .. k - 1 : gs[i].opaques = DatasOf(part(i))
        /\ k # 0 => part(k) = taken \o left /\ gs[k].opaques = DatasOf(taken)
        /\ k = 0 => left = << >>
        /\ rest = left \o Behind(sequence, k)
  BY DEF Grouping
<1>2. N \in Nat /\ Behind(sequence, k) \in Seq(Xts)
  BY PartsAre, BehindTyped
<1>3. \A i \in 1 .. N :
        /\ part(i) \in Seq(Xts) /\ part(i) # << >>
        /\ \A j \in 1 .. Len(part(i)) : part(i)[j].app = AppAt(sequence, i)
  BY PartsAre
<1>4. Head(rest) \in Xts
  BY HeadTailProperties
<1> HIDE DEF N, part
<1>5. CASE left # << >>
  <2>1. Head(rest) = Head(left) /\ Tail(rest) = Tail(left) \o Behind(sequence, k)
    BY <1>1, <1>2, <1>5, ConcatHead
  <2>2. k \in 1 .. N /\ k \in Nat \ {0} /\ k \in 0 .. N
    BY <1>1, <1>2, <1>5
  <2>3. Head(left) \in Xts /\ Tail(left) \in Seq(Xts) /\ Head(left) = left[1]
    BY <1>5, HeadTailProperties, HeadIsFirst
  <2>4. Head(rest).app = AppAt(sequence, k)
    <3> DEFINE n == Len(taken)
               m == Len(left)
    <3>1. n \in Nat /\ m \in Nat \ {0}
      BY <1>5, EmptySeq, LenProperties
    <3>2. /\ Len(taken \o left) = n + m
          /\ \A i \in 1 .. n + m : (taken \o left)[i] = IF i <= n THEN taken[i] ELSE left[i - n]
      BY ConcatProperties
    <3>3. part(k) = taken \o left
      BY <1>1, <2>2
    <3> HIDE DEF n, m
    <3>4. n + 1 \in 1 .. n + m /\ ~(n + 1 <= n) /\ (n + 1) - n = 1
      BY <3>1
    <3>5. part(k)[n + 1] = left[1]
      BY <3>2, <3>3, <3>4
    <3>6. part(k)[n + 1].app = AppAt(sequence, k)
      BY <1>3, <2>2, <3>2, <3>3, <3>4
    <3> QED BY <2>1, <2>3, <3>5, <3>6
  <2>5. gs[k].app = Head(rest).app
    <3>1. k \in 1 .. k
      BY <2>2
    <3> QED BY <1>1, <2>4, <3>1
  <2>6. /\ Len(new) = k /\ \A i \in 1 .. k : new[i].app = gs[i].app
        /\ \A i \in 1 .. k - 1 : new[i].opaques = gs[i].opaques
        /\ new[k].opaques = Append(gs[k].opaques, Head(rest).data)
    <3>1. k \in Nat \ {0} /\ Len(gs) = k
      BY <1>1, <2>2
    <3> QED BY <1>4, <2>5, <3>1, SameGroup
  <2> DEFINE more == Append(taken, Head(left))
  <2>7. more \in Seq(Xts) /\ DatasOf(more) = Append(DatasOf(taken), Head(left).data)
    BY <2>3, AppendProperties, DatasMore
  <2>8. more \o Tail(left) = taken \o left
    BY <1>5, MoveOne
  <2> HIDE DEF more, new
  <2>9. new[k].opaques = DatasOf(more)
    BY <1>1, <2>1, <2>2, <2>6, <2>7
  <2>10. part(k) = more \o Tail(left)
    BY <1>1, <2>2, <2>8
  <2>11. \A i \in 1 .. k : new[i].app = AppAt(sequence, i)
    BY <1>1, <2>6
  <2>12. \A i \in 1 .. k - 1 : new[i].opaques = DatasOf(part(i))
    BY <1>1, <2>6
  <2>13. Grouping(sequence, new, Tail(rest))
    BY <2>1, <2>2, <2>3, <2>6, <2>7, <2>9, <2>10, <2>11, <2>12 DEF Grouping, N, part
  <2> QED BY <2>13 DEF new
<1>6. CASE left = << >>
  <2>1. rest = Behind(sequence, k)
    BY <1>1, <1>2, <1>6, ConcatEmptySeq
  <2>2. k # N
    <3>1. Behind(sequence, N) = << >>
      BY BehindAll DEF N
    <3> QED BY <2>1, <3>1
  <2>3. k \in 0 .. N - 1 /\ k + 1 \in 1 .. N /\ k + 1 \in 0 .. N /\ k \in Nat
    BY <1>2, <2>2
  <2>4. Behind(sequence, k) = part(k + 1) \o Behind(sequence, k + 1)
        /\ Behind(sequence, k + 1) \in Seq(Xts)
    BY <2>3, BehindNext, BehindTyped DEF N, part
  <2> DEFINE p == part(k + 1)
  <2>5. p \in Seq(Xts) /\ p # << >>
    BY <1>3, <2>3
  <2>6. Head(rest) = Head(p) /\ Tail(rest) = Tail(p) \o Behind(sequence, k + 1)
    BY <2>1, <2>4, <2>5, ConcatHead
  <2>7. Head(p) \in Xts /\ Tail(p) \in Seq(Xts) /\ Head(p) = p[1] /\ 1 \in 1 .. Len(p)
    BY <2>5, HeadTailProperties, HeadIsFirst
  <2>8. Head(rest).app = AppAt(sequence, k + 1)
    BY <1>3, <2>3, <2>6, <2>7
  <2> HIDE DEF p
  <2>9. k # 0 => gs[k].app # Head(rest).app
    <3> SUFFICES ASSUME k # 0 PROVE gs[k].app # Head(rest).app
      OBVIOUS
    <3>1. k \in 1 .. k /\ k \in 1 .. N /\ k # k + 1
      BY <1>2, <2>3
    <3>2. AppAt(sequence, k) # AppAt(sequence, k + 1)
      BY <2>3, <3>1, PartsAre DEF N
    <3> QED BY <1>1, <2>8, <3>1, <3>2
  <2>10. /\ Len(new) = k + 1 /\ \A i \in 1 .. k : new[i] = gs[i]
         /\ new[k + 1].app = Head(rest).app
         /\ new[k + 1].opaques = << Head(rest).data >>
    <3>1. gs \in Seq(AppGroups) /\ k \in Nat /\ Len(gs) = k /\ Head(rest) \in Xts
      BY <1>1, <1>4, <2>3
    <3>2. \A xt \in Xts : (k # 0 => gs[k].app # xt.app) =>
            /\ Len(WithNext(gs, xt)) = k + 1
            /\ \A i \in 1 .. k : WithNext(gs, xt)[i] = gs[i]
            /\ WithNext(gs, xt)[k + 1].app = xt.app
            /\ WithNext(gs, xt)[k + 1].opaques = << xt.data >>
      <4> TAKE xt \in Xts
      <4> HAVE k # 0 => gs[k].app # xt.app
      <4> QED BY <3>1, NewGroup
    <3> QED BY <2>9, <3>1, <3>2, Zenon
  <2> DEFINE more == << Head(p) >>
  <2>11. more \in Seq(Xts) /\ more \o Tail(p) = p
    <3>1. more = Append(<< >>, Head(p)) /\ << >> \in Seq(Xts)
      BY EmptySeq
    <3>2. Append(<< >>, Head(p)) \in Seq(Xts)
      BY <2>7, <3>1, AppendProperties
    <3>3. Append(<< >>, Head(p)) \o Tail(p) = << >> \o p
      BY <2>5, <3>1, MoveOne
    <3>4. << >> \o p = p
      BY <2>5, ConcatEmptySeq
    <3> QED BY <3>1, <3>2, <3>3, <3>4
  <2>12. DatasOf(more) = << Head(p).data >>
    BY DEF DatasOf
  <2> HIDE DEF more, new
  <2>13. new[k + 1].opaques = DatasOf(more)
    BY <2>6, <2>10, <2>12
  <2>14. \A i \in 1 .. k + 1 : new[i].app = AppAt(sequence, i)
    <3>1. \A i \in 1 .. k + 1 : i \in 1 .. k \/ i = k + 1
      BY <2>3
    <3> QED BY <1>1, <2>8, <2>10, <3>1
  <2>15. \A i \in 1 .. (k + 1) - 1 : new[i].opaques = DatasOf(part(i))
    <3> SUFFICES ASSUME NEW i \in 1 .. (k + 1) - 1 PROVE new[i].opaques = DatasOf(part(i))
      OBVIOUS
    <3>1. i \in 1 .. k /\ (i \in 1 .. k - 1 \/ i = k)
      BY <2>3
    <3>2. new[i] = gs[i]
      BY <2>10, <3>1
    <3>3. CASE i = k
      <4>1. part(k) = taken \o << >> /\ gs[k].opaques = DatasOf(taken)
        BY <1>1, <1>6, <2>3, <3>1, <3>3
      <4>2. taken \o << >> = taken
        BY ConcatEmptySeq
      <4> QED BY <3>2, <3>3, <4>1, <4>2
    <3>4. CASE i \in 1 .. k - 1
      BY <1>1, <3>2, <3>4
    <3> QED BY <3>1, <3>3, <3>4
  <2>16. part(k + 1) = more \o Tail(p)
    BY <2>11 DEF p
  <2>17. k + 1 # 0
    BY <2>3
  <2>18. Grouping(sequence, new, Tail(rest))
    BY <2>3, <2>6, <2>7, <2>10, <2>11, <2>13, <2>14, <2>15, <2>16, <2>17 DEF Grouping, N, part
  <2> QED BY <2>18 DEF new
<1> QED BY <1>5, <1>6

-------------------------------------------------------------------------------
(***************************************************************************)
(* How the groups are laid out.                                            *)
(***************************************************************************)

\* Sums of lengths increase.
LEMMA SumsGrow ==
  ASSUME NEW lens \in Seq(Nat), NEW k \in 0 .. Len(lens)
  PROVE  \A j \in 0 .. k : Sums(lens)[j] <= Sums(lens)[k]
<1> DEFINE s == Sums(lens)
           T == {n \in 0 .. k : \A j \in 0 .. n : s[j] <= s[n]}
<1>1. Len(lens) \in Nat /\ k \in Nat
  BY LenProperties
<1>2. /\ \A i \in 1 .. Len(lens) : s[i] = s[i - 1] + lens[i] /\ lens[i] \in Nat
      /\ \A i \in 0 .. Len(lens) : s[i] \in Nat
  BY SumsAre, ElementOfSeq
<1> HIDE DEF s
<1>3. 0 \in T
  <2>1. 0 \in 0 .. k /\ s[0] \in Nat /\ \A j \in 0 .. 0 : j = 0
    BY <1>1, <1>2
  <2> QED BY <2>1
<1>4. ASSUME NEW n \in 1 .. k, n - 1 \in T PROVE n \in T
  <2>1. n \in 0 .. k /\ n \in 1 .. Len(lens) /\ n - 1 \in 0 .. Len(lens)
    BY <1>1
  <2>2. s[n] = s[n - 1] + lens[n] /\ lens[n] \in Nat /\ s[n - 1] \in Nat /\ s[n] \in Nat
    BY <1>2, <2>1
  <2>3. ASSUME NEW j \in 0 .. n PROVE s[j] <= s[n]
    <3>1. CASE j = n
      BY <2>2, <3>1
    <3>2. CASE j # n
      <4>1. j \in 0 .. n - 1 /\ j \in 0 .. Len(lens)
        BY <2>1, <3>2
      <4>2. s[j] <= s[n - 1] /\ s[j] \in Nat
        BY <1>2, <1>4, <4>1
      <4> DEFINE x == s[j]
                 y == s[n - 1]
                 z == s[n]
      <4>3. x \in Nat /\ y \in Nat /\ lens[n] \in Nat /\ x <= y /\ z = y + lens[n]
        BY <2>2, <4>2
      <4> HIDE DEF x, y, z
      <4>4. x <= z
        BY <4>3
      <4> QED BY <4>4 DEF x, z
    <3> QED BY <3>1, <3>2
  <2> QED BY <2>1, <2>3
<1> HIDE DEF T
<1>5. \A n \in 0 .. k : n \in T
  BY <1>1, <1>3, <1>4, UpTo
<1>6. k \in T
  BY <1>1, <1>5
<1> QED BY <1>6 DEF T, s

\* Where each part of a layout begins and that it is before the end.
Begin(entries, i) == Sums(Lens(entries))[i - 1]

LEMMA Within ==
  ASSUME NEW entries \in Seq(Laid), NEW i \in 1 .. Len(entries), NEW j \in 1 .. entries[i].len
  PROVE  /\ Begin(entries, i) \in Nat /\ entries[i].len \in Nat
         /\ Begin(entries, i) + j \in 1 .. Total(entries)
<1> DEFINE n == Len(entries)
           s == Sums(Lens(entries))
<1>1. n \in Nat
  BY LenProperties
<1>2. /\ Lens(entries) \in Seq(Nat) /\ Len(Lens(entries)) = n
      /\ Lens(entries)[i] = entries[i].len
  BY LensAre
<1>3. i \in 1 .. n /\ i \in 0 .. n /\ i - 1 \in 0 .. n /\ n \in 0 .. n /\ i \in 1 .. Len(Lens(entries))
  BY <1>1, <1>2
<1>4. s[i] = s[i - 1] + Lens(entries)[i] /\ s[i] \in Nat /\ s[i - 1] \in Nat /\ s[n] \in Nat
  BY <1>2, <1>3, SumsAre
<1>5. s[i] <= s[n]
  BY <1>2, <1>3, SumsGrow
<1>6. entries[i].len \in Nat
  <2>1. Lens(entries)[i] \in Nat
    BY <1>2, <1>3, ElementOfSeq
  <2> QED BY <1>2, <2>1
<1>7. Begin(entries, i) = s[i - 1] /\ Total(entries) = s[n]
  BY DEF Begin, Total
<1> HIDE DEF s, n
<1>8. Begin(entries, i) \in Nat /\ entries[i].len \in Nat
  BY <1>4, <1>6, <1>7
<1>9. Begin(entries, i) + j \in 1 .. Total(entries)
  <2>1. s[i] = s[i - 1] + entries[i].len /\ j \in 1 .. entries[i].len
    BY <1>2, <1>4
  <2> DEFINE a == s[i - 1]
             b == s[i]
             c == s[n]
             l == entries[i].len
  <2>2. a \in Nat /\ b \in Nat /\ c \in Nat /\ l \in Nat /\ b <= c
    BY <1>4, <1>5, <1>6
  <2>3. b = a + l /\ j \in 1 .. l
    BY <2>1
  <2> HIDE DEF a, b, c, l
  <2>4. a + j \in 1 .. c
    BY <2>2, <2>3
  <2>5. Begin(entries, i) = a /\ Total(entries) = c
    BY <1>7 DEF a, c
  <2> QED BY <2>4, <2>5, Zenon
<1> QED BY <1>8, <1>9, Zenon

LEMMA BeginAgrees ==
  ASSUME NEW entries \in Seq(Laid), NEW e \in Laid
  PROVE  /\ \A i \in 1 .. Len(entries) : Begin(Append(entries, e), i) = Begin(entries, i)
         /\ Begin(Append(entries, e), Len(entries) + 1) = Total(entries)
<1> DEFINE more == Append(entries, e)
           n == Len(entries)
<1>1. /\ more \in Seq(Laid) /\ Len(more) = n + 1
      /\ \A j \in 1 .. n : more[j] = entries[j]
  BY AppendProperties
<1>2. n \in Nat
  BY LenProperties
<1> HIDE DEF more
<1>3. /\ Lens(entries) \in Seq(Nat) /\ Len(Lens(entries)) = n
      /\ \A j \in 1 .. n : Lens(entries)[j] = entries[j].len
  BY LensAre
<1>4. /\ Lens(more) \in Seq(Nat) /\ Len(Lens(more)) = n + 1
      /\ \A j \in 1 .. n + 1 : Lens(more)[j] = more[j].len
  BY <1>1, LensAre
<1>5. Total(entries) = Sums(Lens(entries))[n]
  BY DEF Total
<1> HIDE DEF n
<1>6. \A j \in 1 .. n : j \in 1 .. n + 1
  BY <1>2
<1>7. \A j \in 1 .. n : Lens(entries)[j] = Lens(more)[j]
  BY <1>1, <1>3, <1>4, <1>6
<1>8. \A k \in 0 .. n : Sums(Lens(entries))[k] = Sums(Lens(more))[k]
  <2>1. n <= n /\ n <= n + 1
    BY <1>2
  <2> QED BY <1>2, <1>3, <1>4, <1>7, <2>1, SumsAgree
<1>9. \A i \in 1 .. n : i - 1 \in 0 .. n
  BY <1>2
<1>10. \A i \in 1 .. n : Begin(more, i) = Begin(entries, i)
  BY <1>8, <1>9 DEF Begin
<1>11. Begin(more, n + 1) = Total(entries)
  <2>1. (n + 1) - 1 = n /\ n \in 0 .. n
    BY <1>2
  <2> QED BY <1>5, <1>8, <2>1 DEF Begin
<1> QED BY <1>10, <1>11 DEF more, n

\* The chunks of the k-th application.
EncodedAt(sequence, k) == Encode(DatasOf(Sorted(sequence)[k]))
ChunksAt(sequence, k) == PaddedChunks(EncodedAt(sequence, k))

LEMMA ChunksAtTyped ==
  ASSUME NEW sequence \in Seq(Xts), NEW k \in 1 .. AppCount(sequence)
  PROVE  /\ EncodedAt(sequence, k) \in Seq(Nat) /\ Len(EncodedAt(sequence, k)) \in Nat \ {0}
         /\ ChunksAt(sequence, k) \in Seq(Seq(Nat))
<1>1. Sorted(sequence)[k] \in Seq(Xts)
  BY PartsAre
<1>2. DatasOf(Sorted(sequence)[k]) \in Seq(Seq(Nat))
  BY <1>1, DatasTyped
<1>3. EncodedAt(sequence, k) \in Seq(Nat) /\ Len(EncodedAt(sequence, k)) \in Nat \ {0}
  BY <1>2, EncodeIs DEF EncodedAt
<1> QED BY <1>3, PaddedChunksTyped DEF ChunksAt

\* Each entry of a layout is an application, with its chunks where it says.
Placed(sequence, entries, cells) ==
  \A i \in 1 .. Len(entries) :
    /\ entries[i].app = AppAt(sequence, i)
    /\ entries[i].len = Len(ChunksAt(sequence, i))
    /\ \A j \in 1 .. entries[i].len :
         cells[Begin(entries, i) + j] = ChunksAt(sequence, i)[j]

LEMMA PlacedStays ==
  ASSUME NEW sequence, NEW entries \in Seq(Laid),
         NEW cells \in Seq(Seq(Nat)), NEW others \in Seq(Seq(Nat)),
         Total(entries) <= Len(cells), Placed(sequence, entries, cells)
  PROVE  Placed(sequence, entries, cells \o others)
<1> SUFFICES ASSUME NEW i \in 1 .. Len(entries), NEW j \in 1 .. entries[i].len
             PROVE  (cells \o others)[Begin(entries, i) + j] = cells[Begin(entries, i) + j]
  BY DEF Placed
<1> DEFINE c == Begin(entries, i) + j
<1>1. c \in 1 .. Total(entries) /\ Total(entries) \in Nat
  BY Within, TotalTyped
<1> HIDE DEF c
<1>2. Len(cells) \in Nat /\ Len(others) \in Nat
  BY LenProperties
<1>3. c \in 1 .. Len(cells) + Len(others) /\ c <= Len(cells)
  BY <1>1, <1>2
<1>4. (cells \o others)[c] = cells[c]
  BY <1>3, ConcatProperties
<1> QED BY <1>4 DEF c

LEMMA PlacedNext ==
  ASSUME NEW sequence \in Seq(Xts), NEW entries \in Seq(Laid), NEW cells \in Seq(Seq(Nat)),
         Len(cells) = Total(entries), Placed(sequence, entries, cells),
         NEW k \in 1 .. AppCount(sequence), k = Len(entries) + 1
  PROVE  Placed(sequence,
           Append(entries, [app |-> AppAt(sequence, k), len |-> Len(ChunksAt(sequence, k))]),
           cells \o ChunksAt(sequence, k))
<1> DEFINE chunks == ChunksAt(sequence, k)
           e == [app |-> AppAt(sequence, k), len |-> Len(chunks)]
           more == Append(entries, e)
           n == Len(entries)
           all == cells \o chunks
<1>1. chunks \in Seq(Seq(Nat)) /\ Len(chunks) \in Nat /\ Len(cells) \in Nat /\ n \in Nat
  BY ChunksAtTyped, LenProperties
<1>2. e \in Laid /\ e.app = AppAt(sequence, k) /\ e.len = Len(chunks)
  <2>1. AppAt(sequence, k) \in Nat
    BY PartsAre, AppsAre
  <2> QED BY <1>1, <2>1 DEF Laid
<1>3. chunks = ChunksAt(sequence, k) /\ k = n + 1
  OBVIOUS
<1> HIDE DEF chunks, e
<1>4. /\ more \in Seq(Laid) /\ Len(more) = n + 1 /\ more[n + 1] = e
      /\ \A i \in 1 .. n : more[i] = entries[i]
  BY <1>2, AppendProperties
<1>5. /\ \A i \in 1 .. n : Begin(more, i) = Begin(entries, i)
      /\ Begin(more, n + 1) = Total(entries)
  BY <1>2, BeginAgrees
<1>6. Placed(sequence, entries, all)
  <2>1. Total(entries) <= Len(cells)
    BY <1>1
  <2> QED BY <1>1, <2>1, PlacedStays
<1> HIDE DEF more
<1>7. \A j \in 1 .. Len(chunks) : all[Len(cells) + j] = chunks[j]
  <2> SUFFICES ASSUME NEW j \in 1 .. Len(chunks) PROVE all[Len(cells) + j] = chunks[j]
    OBVIOUS
  <2>1. Len(cells) + j \in 1 .. Len(cells) + Len(chunks) /\ ~(Len(cells) + j <= Len(cells))
        /\ (Len(cells) + j) - Len(cells) = j
    BY <1>1
  <2>2. cells \in Seq(Seq(Nat)) /\ chunks \in Seq(Seq(Nat))
    BY <1>1
  <2>3. \A l \in 1 .. Len(cells) + Len(chunks) :
          (cells \o chunks)[l] = IF l <= Len(cells) THEN cells[l] ELSE chunks[l - Len(cells)]
    BY <2>2, ConcatProperties, Zenon
  <2>4. (cells \o chunks)[Len(cells) + j] = chunks[(Len(cells) + j) - Len(cells)]
    BY <2>1, <2>3, Zenon
  <2> QED BY <2>1, <2>4, Zenon DEF all
<1> HIDE DEF all, n
<1>8. ASSUME NEW i \in 1 .. n + 1
      PROVE  /\ more[i].app = AppAt(sequence, i)
             /\ more[i].len = Len(ChunksAt(sequence, i))
             /\ \A j \in 1 .. more[i].len : all[Begin(more, i) + j] = ChunksAt(sequence, i)[j]
  <2>1. CASE i = n + 1
    BY <1>2, <1>3, <1>4, <1>5, <1>7, <2>1
  <2>2. CASE i # n + 1
    <3>1. i \in 1 .. n
      BY <1>1, <2>2
    <3>2. more[i] = entries[i] /\ Begin(more, i) = Begin(entries, i)
      BY <1>4, <1>5, <3>1
    <3> QED BY <1>6, <3>1, <3>2 DEF Placed, n
  <2> QED BY <2>1, <2>2
<1>9. Placed(sequence, more, all)
  BY <1>4, <1>8 DEF Placed
<1> QED BY <1>9 DEF more, e, chunks, all

-------------------------------------------------------------------------------
\* What is laid out is placed, and what is not is still grouped.
Padding(sequence, entries, cells, gs) ==
  /\ Len(entries) + Len(gs) = AppCount(sequence)
  /\ Placed(sequence, entries, cells)
  /\ \A i \in 1 .. Len(gs) :
       /\ gs[i].app = AppAt(sequence, Len(entries) + i)
       /\ gs[i].opaques = DatasOf(Sorted(sequence)[Len(entries) + i])

LEMMA PaddingBegins ==
  ASSUME NEW sequence \in Seq(Xts), NEW gs \in Seq(AppGroups), AllGrouped(sequence, gs)
  PROVE  Padding(sequence, << >>, << >>, gs)
<1>1. Len(<< >>) = 0 /\ Len(gs) \in Nat /\ Len(gs) = AppCount(sequence)
  BY LenProperties DEF AllGrouped
<1>2. Placed(sequence, << >>, << >>)
  <2>1. \A i \in 1 .. 0 : FALSE
    OBVIOUS
  <2> QED BY <1>1, <2>1 DEF Placed
<1>3. \A i \in 1 .. Len(gs) : 0 + i = i
  OBVIOUS
<1>4. 0 + Len(gs) = AppCount(sequence)
  BY <1>1
<1> QED BY <1>1, <1>2, <1>3, <1>4 DEF Padding, AllGrouped

LEMMA PaddingStep ==
  ASSUME NEW sequence \in Seq(Xts), NEW entries \in Seq(Laid), NEW cells \in Seq(Seq(Nat)),
         NEW gs \in Seq(AppGroups), gs # << >>, Len(cells) = Total(entries),
         Padding(sequence, entries, cells, gs)
  PROVE  LET chunks == PaddedChunks(Encode(Head(gs).opaques))
         IN  Padding(sequence, Append(entries, [app |-> Head(gs).app, len |-> Len(chunks)]),
                     cells \o chunks, Tail(gs))
<1> DEFINE n == Len(entries)
           k == n + 1
           chunks == PaddedChunks(Encode(Head(gs).opaques))
           e == [app |-> Head(gs).app, len |-> Len(chunks)]
           more == Append(entries, e)
           all == cells \o chunks
<1>1. /\ n \in Nat /\ Len(gs) \in Nat \ {0} /\ n + Len(gs) = AppCount(sequence)
      /\ Head(gs) = gs[1] /\ 1 \in 1 .. Len(gs)
  BY EmptySeq, LenProperties, HeadIsFirst DEF Padding
<1>2. k \in 1 .. AppCount(sequence)
  BY <1>1
<1>3. gs[1].app = AppAt(sequence, n + 1) /\ gs[1].opaques = DatasOf(Sorted(sequence)[n + 1])
  BY <1>1 DEF Padding
<1>4. Head(gs).app = AppAt(sequence, k) /\ chunks = ChunksAt(sequence, k)
  BY <1>1, <1>3, Zenon DEF ChunksAt, EncodedAt
<1> HIDE DEF chunks
<1>5. Placed(sequence,
        Append(entries, [app |-> AppAt(sequence, k), len |-> Len(ChunksAt(sequence, k))]),
        cells \o ChunksAt(sequence, k))
  BY <1>2, PlacedNext DEF Padding
<1>6. Placed(sequence, more, all)
  BY <1>4, <1>5
<1>7. e \in Laid
  <2>1. Head(gs).app \in Nat
    <3>1. gs[1] \in AppGroups
      BY <1>1, ElementOfSeq
    <3> QED BY <1>1, <3>1, GroupFields
  <2>2. Len(chunks) \in Nat
    BY <1>2, <1>4, ChunksAtTyped, LenProperties
  <2> QED BY <2>1, <2>2 DEF Laid
<1> HIDE DEF e, all
<1>8. Len(more) = n + 1
  BY <1>7, AppendProperties
<1> HIDE DEF more
<1>9. /\ Tail(gs) \in Seq(AppGroups) /\ Len(Tail(gs)) = Len(gs) - 1
      /\ \A i \in 1 .. Len(Tail(gs)) : Tail(gs)[i] = gs[i + 1]
  BY HeadTailProperties
<1>10. Len(more) + Len(Tail(gs)) = AppCount(sequence)
  BY <1>1, <1>8, <1>9
<1>11. ASSUME NEW i \in 1 .. Len(Tail(gs))
       PROVE  /\ Tail(gs)[i].app = AppAt(sequence, Len(more) + i)
              /\ Tail(gs)[i].opaques = DatasOf(Sorted(sequence)[Len(more) + i])
  <2>1. i + 1 \in 1 .. Len(gs) /\ n + (i + 1) = Len(more) + i
    BY <1>1, <1>8, <1>9
  <2>2. /\ gs[i + 1].app = AppAt(sequence, n + (i + 1))
        /\ gs[i + 1].opaques = DatasOf(Sorted(sequence)[n + (i + 1)])
    BY <2>1 DEF Padding
  <2> QED BY <1>9, <2>1, <2>2
<1>12. Padding(sequence, more, all, Tail(gs))
  BY <1>6, <1>10, <1>11 DEF Padding
<1> QED BY <1>12 DEF more, all, e, chunks

LEMMA PaddingEnds ==
  ASSUME NEW sequence \in Seq(Xts), NEW entries \in Seq(Laid), NEW cells, NEW gs, gs = << >>,
         Padding(sequence, entries, cells, gs)
  PROVE  Len(entries) = AppCount(sequence) /\ Placed(sequence, entries, cells)
<1>1. Len(gs) = 0 /\ Len(entries) \in Nat
  BY LenProperties
<1>2. Len(entries) + Len(gs) = AppCount(sequence)
  BY DEF Padding
<1>3. Len(entries) = AppCount(sequence)
  BY <1>1, <1>2
<1> QED BY <1>3 DEF Padding

-------------------------------------------------------------------------------
(***************************************************************************)
(* How the matrix is indexed.                                              *)
(***************************************************************************)

\* Where an item is among sequences of one length.
LEMMA FlattenEqual ==
  ASSUME NEW S, NEW seqs \in Seq(Seq(S)), NEW m \in Nat,
         \A i \in 1 .. Len(seqs) : Len(seqs[i]) = m
  PROVE  \A i \in 1 .. Len(seqs), j \in 1 .. m : FlattenSeq(seqs)[(i - 1) * m + j] = seqs[i][j]
<1> DEFINE N == Len(seqs)
<1>0. N \in Nat
  BY LenProperties
<1>1. CASE N = 0
  BY <1>1
<1>2. CASE N # 0
  <2>1. PICK f : /\ \A i \in 1 .. N : f[i] \in Seq(S)
                 /\ \A i \in 1 .. N : f[i] = IF i = 1 THEN seqs[i] ELSE f[i - 1] \o seqs[i]
                 /\ FlattenSeq(seqs) = f[N]
    BY <1>2, FlattenSteps
  <2> DEFINE Good(n) == /\ Len(f[n]) = n * m
                        /\ \A i \in 1 .. n, j \in 1 .. m : f[n][(i - 1) * m + j] = seqs[i][j]
             T == {n \in 0 .. N : n # 0 => Good(n)}
  <2>2. 0 \in T
    BY <1>0
  <2>3. \A i \in 1 .. N : seqs[i] \in Seq(S) /\ Len(seqs[i]) = m
    BY ElementOfSeq
  <2> HIDE DEF N
  <2>4. ASSUME NEW n \in 1 .. N, n - 1 \in T PROVE n \in T
    <3>1. CASE n = 1
      <4>1. f[1] = seqs[1] /\ 1 \in 1 .. N
        BY <2>1, <3>1
      <4>2. Len(f[n]) = n * m
        BY <2>3, <3>1, <4>1
      <4>3. ASSUME NEW i \in 1 .. n, NEW j \in 1 .. m PROVE f[n][(i - 1) * m + j] = seqs[i][j]
        <5>1. i = 1 /\ (i - 1) * m + j = j
          BY <3>1
        <5> QED BY <3>1, <4>1, <5>1
      <4> QED BY <4>2, <4>3
    <3>2. CASE n # 1
      <4>1. n - 1 \in 1 .. N /\ n - 1 # 0 /\ n \in 0 .. N
        BY <1>0, <3>2
      <4>2. Good(n - 1)
        BY <2>4, <4>1
      <4> DEFINE l == (n - 1) * m
                 before == f[n - 1]
                 last == seqs[n]
      <4>3. /\ f[n] = before \o last /\ before \in Seq(S) /\ last \in Seq(S)
            /\ Len(last) = m /\ Len(before) = l
        BY <2>1, <2>3, <3>2, <4>1, <4>2
      <4>4. l \in Nat /\ n * m = l + m
        <5>1. n - 1 \in Nat
          OBVIOUS
        <5>2. (n - 1) * m \in Nat
          BY <5>1
        <5>3. n * m = (n - 1) * m + m
          OBVIOUS
        <5> QED BY <5>2, <5>3
      <4> HIDE DEF before, last
      <4>5. /\ Len(before \o last) = l + m
            /\ \A k \in 1 .. l + m : (before \o last)[k] = IF k <= l THEN before[k] ELSE last[k - l]
        <5>1. /\ Len(before \o last) = Len(before) + Len(last)
              /\ \A k \in 1 .. Len(before) + Len(last) :
                   (before \o last)[k] = IF k <= Len(before) THEN before[k] ELSE last[k - Len(before)]
          BY <4>3, ConcatProperties
        <5>2. Len(before) = l /\ Len(last) = m
          BY <4>3
        <5> HIDE DEF l
        <5> QED BY <5>1, <5>2, Zenon
      <4>6. ASSUME NEW i \in 1 .. n, NEW j \in 1 .. m PROVE f[n][(i - 1) * m + j] = seqs[i][j]
        <5>1. CASE i = n
          <6>1. (i - 1) * m + j = l + j
            BY <5>1
          <6> HIDE DEF l
          <6>2. l + j \in 1 .. l + m /\ ~(l + j <= l) /\ (l + j) - l = j
            BY <4>4
          <6>3. (before \o last)[l + j] = last[j]
            BY <4>5, <6>2
          <6> QED BY <4>3, <5>1, <6>1, <6>3 DEF last
        <5>2. CASE i # n
          <6> DEFINE c == (i - 1) * m + j
          <6>1. i \in 1 .. n - 1
            BY <5>2
          <6>2. c \in 1 .. l + m /\ c <= l
            <7> DEFINE a == (i - 1) * m
                       b == i * m
            <7>1. a \in Nat /\ b = a + m /\ b <= l
              <8>1. n - 1 \in Nat
                OBVIOUS
              <8>2. CASE m = 0
                BY <8>2
              <8>3. CASE m # 0
                <9>1. /\ (i - 1) * m \in Nat /\ i * m = (i - 1) * m + m /\ i * m <= (n - 1) * m
                  <10>1. m \in Nat \ {0}
                    BY <8>3
                  <10> QED BY <6>1, <8>1, <10>1, Multiples
                <9> QED BY <9>1
              <8> QED BY <8>2, <8>3
            <7>2. c = a + j
              OBVIOUS
            <7> HIDE DEF a, b, l, c
            <7> QED BY <4>4, <7>1, <7>2
          <6>3. before[c] = seqs[i][j]
            BY <4>2, <6>1 DEF before
          <6> HIDE DEF c, l
          <6>4. (before \o last)[c] = before[c]
            BY <4>5, <6>2
          <6> QED BY <4>3, <6>3, <6>4 DEF c
        <5> QED BY <5>1, <5>2
      <4>7. Len(f[n]) = n * m
        BY <4>3, <4>4, <4>5
      <4> QED BY <4>1, <4>6, <4>7
    <3> QED BY <3>1, <3>2
  <2> HIDE DEF T
  <2>5. \A n \in 0 .. N : n \in T
    BY <1>0, <2>2, <2>4, UpTo
  <2>6. N \in 0 .. N
    BY <1>0
  <2>7. Good(N)
    BY <1>2, <2>5, <2>6 DEF T
  <2> QED BY <2>1, <2>7 DEF N
<1> QED BY <1>1, <1>2

\* Row and column of a cell.
LEMMA CellIs ==
  ASSUME NEW rows \in Nat, NEW cols \in Nat \ {0}, NEW cell \in Nat, cell < rows * cols
  PROVE  /\ cell \div cols \in 0 .. rows - 1 /\ cell % cols \in 0 .. cols - 1
         /\ cell = (cell \div cols) * cols + (cell % cols)
<1> DEFINE q == cell \div cols
           r == cell % cols
<1>1. q \in Nat
  OBVIOUS
<1>2. r \in 0 .. cols - 1
  OBVIOUS
<1>3. cell = cols * q + r
  BY Division
<1> HIDE DEF q, r
<1>4. cols * q = q * cols /\ rows * cols = cols * rows /\ cols * q \in Nat /\ cols * rows \in Nat
  BY <1>1, Products
<1>5. q < rows
  <2> SUFFICES ASSUME rows <= q PROVE FALSE
    BY <1>1
  <2>1. cols * rows <= cols * q
    BY <1>1, Products
  <2> QED BY <1>2, <1>3, <1>4, <2>1
<1> QED BY <1>1, <1>2, <1>3, <1>4, <1>5 DEF q, r

-------------------------------------------------------------------------------
(***************************************************************************)
(* Step by step, what is submitted is stored.                              *)
(***************************************************************************)

AllPlaced ==
  /\ Len(layout) = AppCount(request.xts) /\ Total(layout) <= Len(padded)
  /\ Placed(request.xts, layout, padded)

\* Each cell of the block is where the indexing of the matrix says.
Committed(rows) ==
  \A cell \in 0 .. Size(dims) - 1 :
    rows[ExtendedDataRow(dims, cell) + 1][Col(dims, cell) + 1] = padded[cell + 1]

StoredInv ==
  /\ pc = "sort" => groups = << >>
  /\ pc \in {"sort", "group"} => layout = << >> /\ padded = << >>
  /\ pc = "group" => Grouping(request.xts, groups, xts)
  /\ pc = "pad" => Padding(request.xts, layout, padded, groups)
  /\ pc \in {"dims", "extend", "commit"} \/ Accepted => AllPlaced
  /\ pc \in {"extend", "commit"} => dims # NoDims /\ ~Accepted
  /\ pc = "commit" =>
       matrix = FlattenSeq([col \in 1 .. dims.cols |-> ExtendedColumn(DataColumn(col - 1))])
  /\ Accepted => dims # NoDims /\ Committed(reply.commitments)

LEMMA StoredInit == Init => StoredInv
<1> SUFFICES ASSUME Init PROVE StoredInv
  OBVIOUS
<1>1. ~Accepted
  BY DEF Init, Pending, Accepted
<1> QED BY <1>1 DEF Init, StoredInv

\* What the earlier stages need to know.
LEMMA Before ==
  ASSUME FlattenInv
  PROVE  /\ request.xts \in Seq(Xts) /\ groups \in Seq(AppGroups)
         /\ xts \in Seq(Xts) /\ layout \in Seq(Laid) /\ padded \in Seq(Seq(Nat))
         /\ pc \in {"sort", "group", "pad", "dims"} =>
              ~Accepted /\ dims = NoDims /\ Len(padded) = Total(layout)
<1>1. Pending.err # "none"
  BY DEF Pending
<1> QED BY <1>1, RequestsAre DEF FlattenInv, FlattenTypes, Counted, Accepted

LEMMA SortStores == FlattenInv /\ StoredInv /\ Sort => StoredInv'
<1> SUFFICES ASSUME FlattenInv, StoredInv, Sort PROVE StoredInv'
  OBVIOUS
<1>1. /\ pc = "sort" /\ pc' = "group" /\ xts' = SortedByApp(request.xts) /\ request' = request
      /\ groups' = groups /\ layout' = layout /\ padded' = padded /\ reply' = reply
  BY DEF Sort
<1>2. request.xts \in Seq(Xts) /\ ~Accepted
  BY <1>1, Before
<1>3. groups = << >> /\ layout = << >> /\ padded = << >>
  BY <1>1 DEF StoredInv
<1>4. Grouping(request.xts, << >>, SortedByApp(request.xts))
  BY <1>2, GroupingBegins
<1>5. Grouping(request.xts, groups, xts)'
  BY <1>1, <1>3, <1>4
<1>6. ~Accepted'
  BY <1>1, <1>2 DEF Accepted
<1> QED BY <1>1, <1>3, <1>5, <1>6 DEF StoredInv

LEMMA GroupStores == FlattenInv /\ StoredInv /\ Group => StoredInv'
<1> SUFFICES ASSUME FlattenInv, StoredInv, Group PROVE StoredInv'
  OBVIOUS
<1>1. /\ pc = "group" /\ pc' = "group" /\ xts # << >> /\ xts' = Tail(xts) /\ request' = request
      /\ layout' = layout /\ padded' = padded /\ reply' = reply
  BY DEF Group
<1>2. groups' = WithNext(groups, Head(xts))
  BY Zenon DEF Group, WithNext
<1>3. /\ request.xts \in Seq(Xts) /\ groups \in Seq(AppGroups) /\ xts \in Seq(Xts) /\ ~Accepted
  BY <1>1, Before
<1>4. Grouping(request.xts, groups, xts) /\ layout = << >> /\ padded = << >>
  BY <1>1 DEF StoredInv
<1>5. Grouping(request.xts, WithNext(groups, Head(xts)), Tail(xts))
  BY <1>1, <1>3, <1>4, GroupingStep
<1>6. Grouping(request.xts, groups, xts)'
  BY <1>1, <1>2, <1>5
<1>7. ~Accepted'
  BY <1>1, <1>3 DEF Accepted
<1> QED BY <1>1, <1>4, <1>6, <1>7 DEF StoredInv

LEMMA GroupedStores == FlattenInv /\ StoredInv /\ Grouped => StoredInv'
<1> SUFFICES ASSUME FlattenInv, StoredInv, Grouped PROVE StoredInv'
  OBVIOUS
<1>1. /\ pc = "group" /\ pc' = "pad" /\ xts = << >> /\ request' = request
      /\ groups' = groups /\ layout' = layout /\ padded' = padded /\ reply' = reply
  BY DEF Grouped
<1>2. request.xts \in Seq(Xts) /\ groups \in Seq(AppGroups) /\ ~Accepted
  BY <1>1, Before
<1>3. Grouping(request.xts, groups, << >>) /\ layout = << >> /\ padded = << >>
  BY <1>1 DEF StoredInv
<1>4. Padding(request.xts, << >>, << >>, groups)
  BY <1>2, <1>3, GroupingEnds, PaddingBegins
<1>5. Padding(request.xts, layout, padded, groups)'
  BY <1>1, <1>3, <1>4
<1>6. ~Accepted'
  BY <1>1, <1>2 DEF Accepted
<1> QED BY <1>1, <1>5, <1>6 DEF StoredInv

LEMMA PadStores == FlattenInv /\ StoredInv /\ Pad => StoredInv'
<1> SUFFICES ASSUME FlattenInv, StoredInv, Pad PROVE StoredInv'
  OBVIOUS
<1> DEFINE chunks == PaddedChunks(Encode(Head(groups).opaques))
<1>1. /\ pc = "pad" /\ pc' = "pad" /\ groups # << >> /\ groups' = Tail(groups) /\ request' = request
      /\ layout' = Append(layout, [app |-> Head(groups).app, len |-> Len(chunks)])
      /\ padded' = padded \o chunks /\ reply' = reply
  BY DEF Pad
<1>2. /\ request.xts \in Seq(Xts) /\ groups \in Seq(AppGroups) /\ layout \in Seq(Laid)
      /\ padded \in Seq(Seq(Nat)) /\ Len(padded) = Total(layout) /\ ~Accepted
  BY <1>1, Before
<1>3. Padding(request.xts, layout, padded, groups)
  BY <1>1 DEF StoredInv
<1>4. Padding(request.xts,
        Append(layout, [app |-> Head(groups).app, len |-> Len(chunks)]), padded \o chunks, Tail(groups))
  BY <1>1, <1>2, <1>3, PaddingStep
<1> HIDE DEF chunks
<1>5. Padding(request.xts, layout, padded, groups)'
  BY <1>1, <1>4
<1>6. ~Accepted'
  BY <1>1, <1>2 DEF Accepted
<1> QED BY <1>1, <1>5, <1>6 DEF StoredInv

LEMMA PaddedStores == FlattenInv /\ StoredInv /\ Padded => StoredInv'
<1> SUFFICES ASSUME FlattenInv, StoredInv, Padded PROVE StoredInv'
  OBVIOUS
<1>1. /\ pc = "pad" /\ groups = << >> /\ request' = request
      /\ layout' = layout /\ padded' = padded
      /\ \/ pc' = "done" /\ reply' = Err("BlockTooBig")
         \/ pc' = "dims" /\ reply' = reply
  BY DEF Padded, Fail
<1>2. /\ request.xts \in Seq(Xts) /\ layout \in Seq(Laid) /\ padded \in Seq(Seq(Nat))
      /\ Len(padded) = Total(layout) /\ ~Accepted
  BY <1>1, Before
<1>3. Padding(request.xts, layout, padded, groups)
  BY <1>1 DEF StoredInv
<1>4. Len(layout) = AppCount(request.xts) /\ Placed(request.xts, layout, padded)
  BY <1>1, <1>2, <1>3, PaddingEnds
<1>5. Total(layout) <= Len(padded)
  BY <1>2, TotalTyped
<1>6. AllPlaced
  BY <1>4, <1>5 DEF AllPlaced
<1>7. AllPlaced'
  BY <1>1, <1>6 DEF AllPlaced
<1>8. ~Accepted'
  BY <1>1, <1>2 DEF Accepted, Err
<1> QED BY <1>1, <1>7, <1>8 DEF StoredInv

LEMMA RefuseDimsStores == FlattenInv /\ StoredInv /\ RefuseDims => StoredInv'
<1> SUFFICES ASSUME FlattenInv, StoredInv, RefuseDims PROVE StoredInv'
  OBVIOUS
<1>1. pc' = "done" /\ reply' = Err(DimsError(BlockSize)) /\ DimsError(BlockSize) # "none"
  BY DEF RefuseDims, Fail
<1>2. ~Accepted'
  BY <1>1 DEF Accepted, Err
<1> QED BY <1>1, <1>2 DEF StoredInv

LEMMA FillStores == FlattenInv /\ StoredInv /\ Fill => StoredInv'
<1> SUFFICES ASSUME FlattenInv, StoredInv, Fill PROVE StoredInv'
  OBVIOUS
<1> DEFINE noise == [k \in 1 .. (Size(dims') - Len(padded)) |-> Random]
<1>1. /\ pc = "dims" /\ pc' = "extend" /\ request' = request /\ layout' = layout
      /\ padded' = padded \o noise /\ reply' = reply /\ dims' = BlockDimensions(BlockSize)
  BY DEF Fill
<1>2. /\ request.xts \in Seq(Xts) /\ layout \in Seq(Laid) /\ padded \in Seq(Seq(Nat))
      /\ Len(padded) = Total(layout) /\ ~Accepted
  BY <1>1, Before
<1>3. AllPlaced
  BY <1>1 DEF StoredInv
<1>4. dims' # NoDims
  BY <1>1, FillChooses
<1>5. noise \in Seq(Seq(Nat))
  BY <1>1, FillChooses
<1> HIDE DEF noise
<1>6. Placed(request.xts, layout, padded \o noise)
  BY <1>2, <1>3, <1>5, PlacedStays DEF AllPlaced
<1>7. Total(layout) <= Len(padded \o noise)
  <2>1. Len(padded \o noise) = Len(padded) + Len(noise) /\ Len(padded) \in Nat /\ Len(noise) \in Nat
    BY <1>2, <1>5, ConcatProperties, LenProperties
  <2> QED BY <1>2, <2>1
<1>8. AllPlaced'
  BY <1>1, <1>3, <1>6, <1>7 DEF AllPlaced
<1>9. ~Accepted'
  BY <1>1, <1>2 DEF Accepted
<1> QED BY <1>1, <1>4, <1>8, <1>9 DEF StoredInv

-------------------------------------------------------------------------------
LEMMA ExtendStores == FlattenInv /\ StoredInv /\ Extend => StoredInv'
<1> SUFFICES ASSUME FlattenInv, StoredInv, Extend PROVE StoredInv'
  OBVIOUS
<1>1. /\ pc = "extend" /\ pc' = "commit" /\ request' = request /\ layout' = layout
      /\ padded' = padded /\ dims' = dims /\ reply' = reply
      /\ matrix' = FlattenSeq([col \in 1 .. dims.cols |-> ExtendedColumn(DataColumn(col - 1))])
  BY DEF Extend
<1>2. AllPlaced /\ dims # NoDims /\ ~Accepted
  BY <1>1 DEF StoredInv
<1>3. AllPlaced'
  BY <1>1, <1>2 DEF AllPlaced
<1>4. ~Accepted'
  BY <1>1, <1>2 DEF Accepted
<1>5. (matrix = FlattenSeq([col \in 1 .. dims.cols |-> ExtendedColumn(DataColumn(col - 1))]))'
  BY <1>1 DEF ExtendedColumn, DataColumn
<1> QED BY <1>1, <1>2, <1>3, <1>4, <1>5 DEF StoredInv

LEMMA RefuseExtendStores == FlattenInv /\ StoredInv /\ RefuseExtend => StoredInv'
<1> SUFFICES ASSUME FlattenInv, StoredInv, RefuseExtend PROVE StoredInv'
  OBVIOUS
<1>1. pc' = "done" /\ reply' = Err(ExtendError) /\ ExtendError # "none"
  BY DEF RefuseExtend, Fail
<1>2. ~Accepted'
  BY <1>1 DEF Accepted, Err
<1> QED BY <1>1, <1>2 DEF StoredInv

\* A row of data is an even row of the extended matrix.
LEMMA ExtendedData ==
  ASSUME NEW column, NEW q \in Nat, q < dims.rows, dims.rows \in Nat
  PROVE  ExtendedColumn(column)[2 * q + 1] = column[q + 1]
<1>1. /\ 2 * q + 1 \in 1 .. dims.rows * 2 /\ (2 * q + 1) - 1 = 2 * q
      /\ (2 * q) % 2 = 0 /\ (2 * q) \div 2 = q
  OBVIOUS
<1> QED BY <1>1 DEF ExtendedColumn, ExtendedRows, EXTENSION_FACTOR

\* What the matrix has in a column and a row.
LEMMA MatrixIs ==
  ASSUME FlattenInv, StoredInv, pc = "commit"
  PROVE  /\ dims.rows \in Nat \ {0} /\ dims.cols \in Nat \ {0}
         /\ \A col \in 1 .. dims.cols, row \in 1 .. ExtendedRows(dims) :
              matrix[(col - 1) * ExtendedRows(dims) + row] = ExtendedColumn(DataColumn(col - 1))[row]
<1> DEFINE R == dims.rows
           C == dims.cols
           E == ExtendedRows(dims)
           columns == [col \in 1 .. C |-> ExtendedColumn(DataColumn(col - 1))]
           S == {ExtendedColumn(DataColumn(col - 1))[row] : col \in 1 .. C, row \in 1 .. E}
<1>1. R \in Nat \ {0} /\ C \in Nat \ {0}
  BY PowersPositive DEF FlattenInv, Chosen, Fits, StoredInv
<1>2. E = R * 2 /\ E \in Nat
  BY <1>1 DEF ExtendedRows, EXTENSION_FACTOR
<1>3. matrix = FlattenSeq(columns)
  BY DEF StoredInv
<1>4. ASSUME NEW col \in 1 .. C
      PROVE  ExtendedColumn(DataColumn(col - 1)) \in Seq(S)
             /\ Len(ExtendedColumn(DataColumn(col - 1))) = E
  <2> DEFINE column == ExtendedColumn(DataColumn(col - 1))
  <2>1. DOMAIN column = 1 .. E /\ \E g : column = [row \in 1 .. E |-> g[row]]
    <3>1. column = [row \in 1 .. E |-> column[row]]
      BY DEF ExtendedColumn
    <3> HIDE DEF column, E
    <3> QED BY <3>1
  <2>2. \A row \in 1 .. E : column[row] \in S
    OBVIOUS
  <2> HIDE DEF column, S, E
  <2>3. column \in [1 .. E -> S]
    BY <2>1, <2>2
  <2>4. column \in Seq(S) /\ Len(column) = E
    BY <1>2, <2>3, FunctionIsSeq
  <2> QED BY <2>4 DEF column
<1> HIDE DEF S, E, R
<1>5. /\ columns \in Seq(Seq(S)) /\ Len(columns) = C
      /\ \A col \in 1 .. C : columns[col] = ExtendedColumn(DataColumn(col - 1))
  <2>1. columns \in [1 .. C -> Seq(S)]
    BY <1>4
  <2>2. \A col \in 1 .. C : columns[col] = ExtendedColumn(DataColumn(col - 1))
    OBVIOUS
  <2>3. C \in Nat
    BY <1>1
  <2> HIDE DEF columns, C
  <2> QED BY <2>1, <2>2, <2>3, FunctionIsSeq
<1> HIDE DEF columns
<1>6. \A col \in 1 .. C, row \in 1 .. E : matrix[(col - 1) * E + row] = columns[col][row]
  <2>1. \A col \in 1 .. Len(columns) : Len(columns[col]) = E
    BY <1>4, <1>5
  <2>2. \A col \in 1 .. Len(columns), row \in 1 .. E :
          FlattenSeq(columns)[(col - 1) * E + row] = columns[col][row]
    <3>1. E \in Nat
      BY <1>2
    <3>2. columns \in Seq(Seq(S))
      BY <1>5
    <3> QED BY <2>1, <3>1, <3>2, FlattenEqual, Zenon
  <2> QED BY <1>3, <1>5, <2>2
<1> HIDE DEF C
<1>7. ASSUME NEW col \in 1 .. C, NEW row \in 1 .. E
      PROVE  matrix[(col - 1) * E + row] = ExtendedColumn(DataColumn(col - 1))[row]
  <2>1. columns[col] = ExtendedColumn(DataColumn(col - 1))
    BY <1>5
  <2>2. matrix[(col - 1) * E + row] = columns[col][row]
    BY <1>6
  <2> QED BY <2>1, <2>2, Zenon
<1> QED BY <1>1, <1>7, Zenon DEF R, C, E

\* The rows of the extended matrix.
ExtendedMatrix ==
  [row \in 1 .. ExtendedRows(dims) |->
     [col \in 1 .. dims.cols |-> ExtendedColumn(DataColumn(col - 1))[row]]]

LEMMA RowsAre ==
  ASSUME FlattenInv, StoredInv, pc = "commit"
  PROVE  [row \in 1 .. ExtendedRows(dims) |-> Row(row - 1)] = ExtendedMatrix
<1> DEFINE C == dims.cols
           E == ExtendedRows(dims)
<1>1. /\ dims.rows \in Nat \ {0} /\ C \in Nat \ {0}
      /\ \A col \in 1 .. C, row \in 1 .. E :
           matrix[(col - 1) * E + row] = ExtendedColumn(DataColumn(col - 1))[row]
  BY MatrixIs
<1>2. E \in Nat
  BY <1>1 DEF ExtendedRows, EXTENSION_FACTOR
<1>3. \A row : Row(row) = [col \in 1 .. C |-> matrix[(col - 1) * E + row + 1]]
  BY Zenon DEF Row
<1>4. ExtendedMatrix = [row \in 1 .. E |->
        [col \in 1 .. C |-> ExtendedColumn(DataColumn(col - 1))[row]]]
  BY Zenon DEF ExtendedMatrix
<1> HIDE DEF C, E
<1>5. ASSUME NEW row \in 1 .. E
      PROVE  Row(row - 1) = [col \in 1 .. C |-> ExtendedColumn(DataColumn(col - 1))[row]]
  <2>1. ASSUME NEW col \in 1 .. C PROVE (col - 1) * E + (row - 1) + 1 = (col - 1) * E + row
    <3> DEFINE before == (col - 1) * E
    <3>1. before \in Nat
      BY <1>1, <1>2
    <3> HIDE DEF before
    <3>2. before + (row - 1) + 1 = before + row
      BY <1>2, <3>1
    <3> QED BY <3>2 DEF before
  <2>2. ASSUME NEW col \in 1 .. C
        PROVE  matrix[(col - 1) * E + (row - 1) + 1] = ExtendedColumn(DataColumn(col - 1))[row]
    BY <1>1, <2>1, Zenon
  <2>3. Row(row - 1) = [col \in 1 .. C |-> matrix[(col - 1) * E + (row - 1) + 1]]
    BY <1>3
  <2> QED BY <2>2, <2>3
<1>6. [row \in 1 .. E |-> Row(row - 1)]
        = [row \in 1 .. E |-> [col \in 1 .. C |-> ExtendedColumn(DataColumn(col - 1))[row]]]
  BY <1>5
<1> QED BY <1>4, <1>6, Zenon DEF E

LEMMA CommitIs ==
  ASSUME FlattenInv, StoredInv, pc = "commit"
  PROVE  Committed(ExtendedMatrix)
<1> DEFINE R == dims.rows
           C == dims.cols
           E == ExtendedRows(dims)
<1>1. R \in Nat \ {0} /\ C \in Nat \ {0}
  BY MatrixIs
<1>2. E = R * 2 /\ E \in Nat
  BY <1>1 DEF ExtendedRows, EXTENSION_FACTOR
<1>3. ASSUME NEW cell \in 0 .. Size(dims) - 1
      PROVE  ExtendedMatrix[ExtendedDataRow(dims, cell) + 1][Col(dims, cell) + 1] = padded[cell + 1]
  <2> DEFINE q == cell \div C
             c == cell % C
  <2>1. cell \in Nat /\ cell < R * C
    <3>1. Size(dims) = R * C /\ Size(dims) \in Nat
      BY <1>1 DEF Size, R
    <3> HIDE DEF C
    <3> QED BY <3>1
  <2>2. q \in 0 .. R - 1 /\ c \in 0 .. C - 1 /\ cell = q * C + c
    <3> HIDE DEF C
    <3> QED BY <1>1, <2>1, CellIs
  <2>3. ExtendedDataRow(dims, cell) = q * 2 /\ Col(dims, cell) = c
    BY DEF ExtendedDataRow, Col, EXTENSION_FACTOR
  <2> HIDE DEF q, c
  <2>4. q * 2 + 1 \in 1 .. E /\ c + 1 \in 1 .. C /\ q * 2 = 2 * q
        /\ (c + 1) - 1 = c /\ q \in Nat /\ c \in Nat /\ q < R
    <3> HIDE DEF C, E, R
    <3> QED BY <1>1, <1>2, <2>2
  <2>5. ExtendedMatrix[q * 2 + 1][c + 1] = ExtendedColumn(DataColumn(c))[q * 2 + 1]
    <3>1. ExtendedMatrix = [row \in 1 .. E |->
            [col \in 1 .. C |-> ExtendedColumn(DataColumn(col - 1))[row]]]
      BY Zenon DEF ExtendedMatrix
    <3> HIDE DEF E, C
    <3> QED BY <2>4, <3>1
  <2>6. ExtendedColumn(DataColumn(c))[2 * q + 1] = DataColumn(c)[q + 1]
    BY <1>1, <2>4, ExtendedData DEF R
  <2>7. DataColumn(c)[q + 1] = padded[q * C + c + 1]
    <3>1. q + 1 \in 1 .. R /\ (q + 1) - 1 = q
      BY <1>1, <2>4
    <3> QED BY <3>1 DEF DataColumn, R
  <2> HIDE DEF C
  <2> QED BY <2>2, <2>3, <2>4, <2>5, <2>6, <2>7
<1> QED BY <1>3 DEF Committed

LEMMA CommitStores == FlattenInv /\ StoredInv /\ Commit => StoredInv'
<1> SUFFICES ASSUME FlattenInv, StoredInv, Commit PROVE StoredInv'
  OBVIOUS
<1> DEFINE rows == [row \in 1 .. ExtendedRows(dims) |-> Row(row - 1)]
<1>1. /\ pc = "commit" /\ pc' = "done" /\ request' = request /\ layout' = layout
      /\ padded' = padded /\ dims' = dims /\ reply' = Ok(rows)
  BY DEF Commit
<1>2. AllPlaced /\ dims # NoDims
  BY <1>1 DEF StoredInv
<1>3. Committed(rows)
  BY <1>1, CommitIs, RowsAre
<1> HIDE DEF rows
<1>4. AllPlaced'
  BY <1>1, <1>2 DEF AllPlaced
<1>5. reply'.commitments = rows
  BY <1>1 DEF Ok
<1>6. Committed(reply.commitments)'
  BY <1>1, <1>3, <1>5 DEF Committed
<1> QED BY <1>1, <1>2, <1>4, <1>6 DEF StoredInv

LEMMA StutterStores == StoredInv /\ UNCHANGED vars => StoredInv'
<1> SUFFICES ASSUME StoredInv, UNCHANGED vars PROVE StoredInv'
  OBVIOUS
<1>1. AllPlaced => AllPlaced'
  BY DEF AllPlaced, vars
<1>2. Accepted' = Accepted
  BY DEF Accepted, vars
<1>3. Committed(reply.commitments) => Committed(reply.commitments)'
  BY DEF Committed, vars
<1>4. (matrix = FlattenSeq([col \in 1 .. dims.cols |-> ExtendedColumn(DataColumn(col - 1))]))
        => (matrix = FlattenSeq([col \in 1 .. dims.cols |-> ExtendedColumn(DataColumn(col - 1))]))'
  BY DEF ExtendedColumn, DataColumn, vars
<1> QED BY <1>1, <1>2, <1>3, <1>4 DEF StoredInv, vars

LEMMA StoredStep == FlattenInv /\ StoredInv /\ [Next]_vars => StoredInv'
BY SortStores, GroupStores, GroupedStores, PadStores, PaddedStores, RefuseDimsStores, FillStores,
   ExtendStores, RefuseExtendStores, CommitStores, StutterStores DEF Next

-------------------------------------------------------------------------------
(***************************************************************************)
(* What a client finds where the lookup of the layout sends it.            *)
(***************************************************************************)

LEMMA ZeroesJoin ==
  ASSUME NEW a \in Nat, NEW b \in Nat
  PROVE  Zeroes(a) \o Zeroes(b) = Zeroes(a + b)
<1> DEFINE one == Zeroes(a) \o Zeroes(b)
           other == Zeroes(a + b)
<1>1. /\ Zeroes(a) \in Seq(Nat) /\ Len(Zeroes(a)) = a /\ \A k \in 1 .. a : Zeroes(a)[k] = 0
      /\ Zeroes(b) \in Seq(Nat) /\ Len(Zeroes(b)) = b /\ \A k \in 1 .. b : Zeroes(b)[k] = 0
  BY ZeroesAre
<1>2. /\ other \in Seq(Nat) /\ Len(other) = a + b /\ \A k \in 1 .. a + b : other[k] = 0
  <2>1. a + b \in Nat
    OBVIOUS
  <2> QED BY <2>1, ZeroesAre
<1>3. /\ one \in Seq(Nat) /\ Len(one) = a + b
      /\ \A k \in 1 .. a + b : one[k] = IF k <= a THEN Zeroes(a)[k] ELSE Zeroes(b)[k - a]
  <2>1. /\ one \in Seq(Nat) /\ Len(one) = Len(Zeroes(a)) + Len(Zeroes(b))
        /\ \A k \in 1 .. Len(Zeroes(a)) + Len(Zeroes(b)) :
             one[k] = IF k <= Len(Zeroes(a)) THEN Zeroes(a)[k] ELSE Zeroes(b)[k - Len(Zeroes(a))]
    BY <1>1, ConcatProperties
  <2> HIDE DEF one
  <2> QED BY <1>1, <2>1
<1> HIDE DEF one, other
<1>4. \A k \in 1 .. a + b : one[k] = other[k]
  <2> SUFFICES ASSUME NEW k \in 1 .. a + b PROVE one[k] = other[k]
    OBVIOUS
  <2>1. ~(k <= a) => k - a \in 1 .. b
    OBVIOUS
  <2>2. k <= a => k \in 1 .. a
    OBVIOUS
  <2> QED BY <1>1, <1>2, <1>3, <2>1, <2>2
<1>5. one = other
  BY <1>2, <1>3, <1>4, SeqEqual
<1> QED BY <1>5 DEF one, other

\* A prefix and nothing but zeroes behind it.
LEMMA ZeroesBehind ==
  ASSUME NEW bytes \in Seq(Nat), NEW n \in Nat, NEW whole, whole = bytes \o Zeroes(n)
  PROVE  IsPrefix(bytes, whole) /\ IsZeroes(SubSeq(whole, Len(bytes) + 1, Len(whole)))
<1> DEFINE l == Len(bytes)
           zeroes == Zeroes(n)
           end == SubSeq(whole, l + 1, Len(whole))
<1>1. l \in Nat
  BY LenProperties
<1>2. zeroes \in Seq(Nat) /\ Len(zeroes) = n /\ \A k \in 1 .. n : zeroes[k] = 0
  BY ZeroesAre
<1> HIDE DEF zeroes
<1>3. /\ whole \in Seq(Nat) /\ Len(whole) = l + n
      /\ \A k \in 1 .. l + n : whole[k] = IF k <= l THEN bytes[k] ELSE zeroes[k - l]
  <2>1. /\ bytes \o zeroes \in Seq(Nat) /\ Len(bytes \o zeroes) = l + Len(zeroes)
        /\ \A k \in 1 .. l + Len(zeroes) : (bytes \o zeroes)[k] = IF k <= l THEN bytes[k] ELSE zeroes[k - l]
    BY <1>2, ConcatProperties
  <2>2. whole = bytes \o zeroes
    BY DEF zeroes
  <2> QED BY <1>2, <2>1, <2>2
<1>4. IsPrefix(bytes, whole)
  <2>1. SubSeq(bytes, 1, l) = bytes
    BY SubSeqFull
  <2>2. SubSeq(whole, 1, l) = bytes
    <3> DEFINE cut == SubSeq(whole, 1, l)
    <3>1. \A i \in 1 .. l : whole[i] \in Nat
      <4>1. \A i \in 1 .. l : i \in 1 .. Len(whole)
        BY <1>1, <1>3
      <4> QED BY <1>3, <4>1, ElementOfSeq
    <3>2. /\ cut \in Seq(Nat) /\ Len(cut) = IF 1 <= l THEN l - 1 + 1 ELSE 0
          /\ \A i \in 1 .. l - 1 + 1 : cut[i] = whole[1 + i - 1]
      <4>1. 1 \in Int /\ l \in Int
        BY <1>1
      <4> QED BY <3>1, <4>1, SubSeqProperties
    <3> HIDE DEF cut, l
    <3>3. Len(cut) = l /\ l - 1 + 1 = l
      BY <1>1, <3>2
    <3>4. \A i \in 1 .. l : 1 + i - 1 = i /\ i \in 1 .. l + n /\ i <= l
      BY <1>1
    <3>5. \A i \in 1 .. l : cut[i] = bytes[i]
      <4> SUFFICES ASSUME NEW i \in 1 .. l PROVE cut[i] = bytes[i]
        OBVIOUS
      <4>1. cut[i] = whole[1 + i - 1]
        BY <3>2, <3>3
      <4>2. whole[i] = bytes[i]
        BY <1>3, <3>4
      <4> QED BY <3>4, <4>1, <4>2
    <3>6. cut = bytes
      BY <3>2, <3>3, <3>5, SeqEqual DEF l
    <3> QED BY <3>6 DEF cut, l
  <2>3. Len(bytes) <= Len(whole)
    BY <1>1, <1>3
  <2> QED BY <2>1, <2>2, <2>3 DEF IsPrefix
<1>5. IsZeroes(end)
  <2>1. \A i \in l + 1 .. Len(whole) : whole[i] \in Nat
    <3>1. \A i \in l + 1 .. Len(whole) : i \in 1 .. Len(whole)
      BY <1>1, <1>3
    <3> QED BY <1>3, <3>1, ElementOfSeq
  <2>2. /\ end \in Seq(Nat)
        /\ Len(end) = IF l + 1 <= Len(whole) THEN Len(whole) - (l + 1) + 1 ELSE 0
        /\ \A i \in 1 .. Len(whole) - (l + 1) + 1 : end[i] = whole[l + 1 + i - 1]
    <3>1. l + 1 \in Int /\ Len(whole) \in Int
      BY <1>1, <1>3
    <3> QED BY <2>1, <3>1, SubSeqProperties
  <2>3. DOMAIN end = 1 .. Len(end)
    BY <2>2, LenProperties
  <2> HIDE DEF end, l
  <2>4. Len(end) = n /\ Len(whole) - (l + 1) + 1 = n
    BY <1>1, <1>3, <2>2
  <2>5. ASSUME NEW i \in 1 .. n PROVE end[i] = 0
    <3>1. l + 1 + i - 1 = l + i /\ l + i \in 1 .. l + n /\ ~(l + i <= l) /\ (l + i) - l = i
      BY <1>1
    <3> QED BY <1>2, <1>3, <2>2, <2>4, <3>1
  <2> QED BY <2>3, <2>4, <2>5 DEF IsZeroes
<1> QED BY <1>4, <1>5 DEF end, l

\* What is data in the chunks of an encoding.
LEMMA PaddedData ==
  ASSUME NEW bytes \in Seq(Nat), bytes # << >>
  PROVE  \E n \in Nat :
           FlattenSeq([k \in 1 .. Len(PaddedChunks(bytes)) |->
             SubSeq(PaddedChunks(bytes)[k], 1, DATA_CHUNK_SIZE)]) = bytes \o Zeroes(n)
<1> DEFINE len == PaddedLen(Len(bytes))
           full == PadWithZeroes(bytes, len)
           pieces == Pieces(full, DATA_CHUNK_SIZE)
           chunks == PaddedChunks(bytes)
           slices == DataSlices(full, CHUNK_SIZE)
<1>1. Len(bytes) \in Nat \ {0} /\ len \in Nat
  BY EmptySeq, PaddedLenTyped
<1>2. \E a \in Nat : full = bytes \o Zeroes(a)
  <2>1. CASE Len(bytes) <= len
    <3>1. len - Len(bytes) \in Nat
      BY <1>1, <2>1
    <3> HIDE DEF len
    <3> QED BY <3>1 DEF PadWithZeroes
  <2>2. CASE ~(Len(bytes) <= len)
    <3>1. 1 .. len - Len(bytes) = 1 .. 0
      BY <1>1, <2>2
    <3> HIDE DEF len
    <3>2. Zeroes(len - Len(bytes)) = Zeroes(0)
      BY <3>1 DEF Zeroes
    <3> QED BY <3>2 DEF PadWithZeroes
  <2> QED BY <2>1, <2>2
<1>3. PICK a \in Nat : full = bytes \o Zeroes(a)
  BY <1>2
<1>4. Zeroes(a) \in Seq(Nat)
  BY ZeroesAre
<1>5. full \in Seq(Nat) /\ full # << >>
  <2>1. bytes \o Zeroes(a) \in Seq(Nat) /\ bytes \o Zeroes(a) # << >>
    BY <1>4, ConcatHead
  <2> QED BY <1>3, <2>1, Zenon
<1>6. chunks = [k \in DOMAIN pieces |-> PadWithZeroes(pieces[k], CHUNK_SIZE)]
  BY Zenon DEF PaddedChunks
<1>7. slices = [k \in DOMAIN pieces |-> SubSeq(PadWithZeroes(pieces[k], CHUNK_SIZE), 1, DATA_CHUNK_SIZE)]
  BY Zenon DEF DataSlices
<1>8. DATA_CHUNK_SIZE <= CHUNK_SIZE /\ CHUNK_SIZE \in Nat
  BY SizeAssumption, PowersPositive, ChunkAssumption
<1> HIDE DEF full, slices
<1>9. \E more \in Nat : FlattenSeq(slices) = full \o Zeroes(more)
  BY <1>5, <1>8, DataSlicesFlatten DEF slices
<1>10. PICK more \in Nat : FlattenSeq(slices) = full \o Zeroes(more)
  BY <1>9
<1>11. [k \in 1 .. Len(chunks) |-> SubSeq(chunks[k], 1, DATA_CHUNK_SIZE)] = slices
  <2>1. pieces \in Seq(Seq(Nat))
    BY <1>5, PiecesTyped
  <2>2. DOMAIN pieces = 1 .. Len(pieces) /\ Len(pieces) \in Nat
    BY <2>1, LenProperties
  <2>3. chunks \in Seq(Seq(Nat))
    BY PaddedChunksTyped
  <2>4. DOMAIN chunks = 1 .. Len(chunks) /\ Len(chunks) \in Nat
    BY <2>3, LenProperties
  <2> HIDE DEF pieces, chunks
  <2>5. DOMAIN chunks = DOMAIN pieces
    BY <1>6
  <2>6. DOMAIN pieces = 1 .. Len(chunks)
    BY <2>4, <2>5
  <2>7. \A k \in 1 .. Len(chunks) : chunks[k] = PadWithZeroes(pieces[k], CHUNK_SIZE)
    BY <1>6, <2>6
  <2>8. slices = [k \in 1 .. Len(chunks) |->
                    SubSeq(PadWithZeroes(pieces[k], CHUNK_SIZE), 1, DATA_CHUNK_SIZE)]
    BY <1>7, <2>6, Zenon
  <2> QED BY <2>7, <2>8
<1>12. (bytes \o Zeroes(a)) \o Zeroes(more) = bytes \o (Zeroes(a) \o Zeroes(more))
  <2>1. Zeroes(more) \in Seq(Nat)
    BY ZeroesAre
  <2> QED BY <1>4, <2>1, BytesJoin, Zenon
<1>13. FlattenSeq(slices) = bytes \o Zeroes(a + more) /\ a + more \in Nat
  <2>1. Zeroes(a) \o Zeroes(more) = Zeroes(a + more)
    BY ZeroesJoin
  <2>2. FlattenSeq(slices) = bytes \o Zeroes(a + more)
    BY <1>3, <1>10, <1>12, <2>1, Zenon
  <2> QED BY <2>2
<1> QED BY <1>11, <1>13 DEF chunks

-------------------------------------------------------------------------------
LEMMA StartIsBegin ==
  ASSUME layout \in Seq(Laid)
  PROVE  \A k : StartOf(k) = Begin(layout, k)
BY DEF StartOf, Begin, Lens

\* The lookup sends a client to the chunks of the application.
LEMMA RangeIs ==
  ASSUME FlattenInv, AllPlaced, NEW i \in 1 .. Len(layout)
  PROVE  RangeOf(Lookup, AppAt(request.xts, i))
           = Range32(Begin(layout, i), Begin(layout, i) + layout[i].len)
<1> DEFINE sequence == request.xts
           n == Len(layout)
           app == AppAt(sequence, i)
           First(k) == IsFirstOf(Lookup, app, k)
<1>1. sequence \in Seq(Xts) /\ layout \in Seq(Laid)
  BY Before
<1>2. n \in Nat /\ n = AppCount(sequence) /\ DOMAIN layout = 1 .. n
  BY <1>1, LenProperties DEF AllPlaced
<1>3. \A k \in 1 .. n : layout[k].app = AppAt(sequence, k)
  BY DEF AllPlaced, Placed
<1>4. \A j, k \in 1 .. n : j # k => AppAt(sequence, j) # AppAt(sequence, k)
  BY <1>1, <1>2, PartsAre
<1>5. Lookup = [k \in 1 .. n |->
                  Entry(layout[k].app, StartOf(k), StartOf(k) + layout[k].len)]
  BY <1>2 DEF Lookup
<1>6. /\ DOMAIN Lookup = 1 .. n
      /\ \A k \in 1 .. n : /\ Lookup[k].id = AppAt(sequence, k)
                           /\ Lookup[k].start = StartOf(k)
                           /\ Lookup[k].end = StartOf(k) + layout[k].len
  BY <1>3, <1>5 DEF Entry
<1> HIDE DEF n, app, sequence
<1>7. \A k \in 1 .. n : Lookup[k].id = app <=> k = i
  BY <1>4, <1>6 DEF app, n
<1>8. i \in 1 .. n
  BY DEF n
<1>9. \A k \in DOMAIN Lookup : First(k) <=> k = i
  <2>1. \A k \in DOMAIN Lookup : First(k) => k = i
    BY <1>6, <1>7 DEF IsFirstOf
  <2>2. First(i)
    <3>1. \A j \in 1 .. i - 1 : j \in 1 .. n /\ j # i
      BY <1>2, <1>8
    <3> QED BY <1>7, <1>8, <3>1 DEF IsFirstOf
  <2> QED BY <2>1, <2>2
<1> HIDE DEF First
<1>10. (CHOOSE k \in DOMAIN Lookup : First(k)) = i
  BY <1>6, <1>8, <1>9
<1>11. \E k \in DOMAIN Lookup : Lookup[k].id = app
  BY <1>6, <1>7, <1>8
<1>12. RangeOf(Lookup, app)
         = LET k == CHOOSE k \in DOMAIN Lookup : First(k)
           IN  Range32(Lookup[k].start, Lookup[k].end)
  BY <1>11, Zenon DEF RangeOf, First
<1>13. RangeOf(Lookup, app) = Range32(Lookup[i].start, Lookup[i].end)
  BY <1>10, <1>12
<1>14. StartOf(i) = Begin(layout, i)
  BY <1>1, StartIsBegin
<1> QED BY <1>6, <1>8, <1>13, <1>14 DEF app, sequence

\* At its cells are its chunks.
LEMMA BytesAre ==
  ASSUME FlattenInv, StoredInv, Accepted, NEW i \in 1 .. Len(layout)
  PROVE  \E n \in Nat :
           BytesAt(Range32(Begin(layout, i), Begin(layout, i) + layout[i].len))
             = EncodedAt(request.xts, i) \o Zeroes(n)
<1> DEFINE begin == Begin(layout, i)
           len == layout[i].len
           range == Range32(begin, begin + len)
           bytes == EncodedAt(request.xts, i)
           chunks == PaddedChunks(bytes)
<1>1. AllPlaced /\ dims # NoDims /\ Committed(reply.commitments)
  BY DEF StoredInv
<1>2. request.xts \in Seq(Xts) /\ layout \in Seq(Laid) /\ padded \in Seq(Seq(Nat))
  BY Before
<1>3. Len(padded) = Size(dims) /\ Total(layout) <= Len(padded)
  BY <1>1 DEF FlattenInv, Chosen, AllPlaced
<1>4. bytes \in Seq(Nat) /\ bytes # << >>
  <2>1. i \in 1 .. AppCount(request.xts)
    BY <1>1 DEF AllPlaced
  <2> QED BY <1>2, <2>1, ChunksAtTyped, EmptySeq
<1>5. len = Len(chunks) /\ \A k \in 1 .. len : padded[begin + k] = chunks[k]
  BY <1>1 DEF AllPlaced, Placed, ChunksAt
<1>6. Len(chunks) \in Nat
  BY <1>4, PaddedChunksTyped, LenProperties
<1>7. PICK n \in Nat :
        FlattenSeq([k \in 1 .. Len(chunks) |-> SubSeq(chunks[k], 1, DATA_CHUNK_SIZE)])
          = bytes \o Zeroes(n)
  BY <1>4, PaddedData
<1> HIDE DEF bytes, chunks
<1>8. ASSUME NEW k \in 1 .. len
      PROVE  LET position == ExtendedDataPosition(dims, begin + k - 1)
             IN  reply.commitments[position.row + 1][position.col + 1] = chunks[k]
  <2>1. /\ begin \in Nat /\ len \in Nat /\ begin + k \in 1 .. Total(layout)
    BY <1>2, Within
  <2>2. Total(layout) \in Nat /\ Len(padded) \in Nat
    BY <1>2, TotalTyped, LenProperties
  <2> HIDE DEF begin, len
  <2>3. begin + k - 1 \in 0 .. Size(dims) - 1 /\ (begin + k - 1) + 1 = begin + k
    BY <1>3, <2>1, <2>2
  <2> DEFINE cell == begin + k - 1
  <2>4. reply.commitments[ExtendedDataRow(dims, cell) + 1][Col(dims, cell) + 1] = padded[cell + 1]
    BY <1>1, <2>3 DEF Committed
  <2>5. padded[cell + 1] = chunks[k]
    BY <1>5, <2>3
  <2> HIDE DEF cell
  <2>6. LET position == ExtendedDataPosition(dims, cell)
        IN  position.row = ExtendedDataRow(dims, cell) /\ position.col = Col(dims, cell)
    BY DEF ExtendedDataPosition, Position
  <2> QED BY <2>4, <2>5, <2>6 DEF cell
<1>9. range.start = begin /\ range.end - range.start = len
  <2>1. begin \in Nat /\ len \in Nat
    <3>1. CASE len = 0
      <4>1. i - 1 \in 0 .. Len(Lens(layout))
        BY <1>2, LensAre, LenProperties
      <4>2. begin \in Nat
        BY <1>2, <4>1, LensAre, SumsAre DEF Begin
      <4> QED BY <3>1, <4>2
    <3>2. CASE len # 0
      <4>1. 1 \in 1 .. len
        BY <1>5, <1>6, <3>2
      <4> QED BY <1>2, <4>1, Within
    <3> QED BY <3>1, <3>2
  <2> HIDE DEF begin, len
  <2> QED BY <2>1 DEF Range32
<1>10. BytesAt(range) = FlattenSeq([k \in 1 .. len |->
         LET position == ExtendedDataPosition(dims, begin + k - 1)
         IN  SubSeq(reply.commitments[position.row + 1][position.col + 1], 1, DATA_CHUNK_SIZE)])
  <2> HIDE DEF range, begin, len
  <2> QED BY <1>9, Zenon DEF BytesAt
<1> HIDE DEF begin, len, range
<1>11. [k \in 1 .. len |->
         LET position == ExtendedDataPosition(dims, begin + k - 1)
         IN  SubSeq(reply.commitments[position.row + 1][position.col + 1], 1, DATA_CHUNK_SIZE)]
         = [k \in 1 .. len |-> SubSeq(chunks[k], 1, DATA_CHUNK_SIZE)]
  BY <1>8
<1>12. BytesAt(range) = bytes \o Zeroes(n)
  BY <1>5, <1>7, <1>10, <1>11, Zenon
<1> QED BY <1>12 DEF range, begin, len, bytes

LEMMA AllIsStored == FlattenInv /\ StoredInv => SubmittedIsStored
<1> SUFFICES ASSUME FlattenInv, StoredInv, Accepted PROVE
      /\ {layout[k].app : k \in DOMAIN layout} = Apps
      /\ Len(layout) = Cardinality(Apps)
      /\ \A app \in Apps :
           LET bytes == BytesAt(RangeOf(Lookup, app))
               encoded == Encode(Submitted(app))
           IN  /\ IsPrefix(encoded, bytes)
               /\ IsZeroes(SubSeq(bytes, Len(encoded) + 1, Len(bytes)))
  BY Zenon DEF SubmittedIsStored
<1> DEFINE sequence == request.xts
           N == AppCount(sequence)
<1>1. AllPlaced
  BY DEF StoredInv
<1>2. sequence \in Seq(Xts) /\ layout \in Seq(Laid)
  BY Before
<1>3. Apps = AppsOf(sequence)
  BY Zenon DEF Apps, AppsOf
<1>4. Len(layout) = N /\ N = Cardinality(Apps) /\ DOMAIN layout = 1 .. N
  BY <1>1, <1>2, <1>3, LenProperties DEF AllPlaced, AppCount
<1>5. \A k \in 1 .. N : layout[k].app = AppAt(sequence, k)
  BY <1>1, <1>4 DEF AllPlaced, Placed
<1>6. /\ \A k \in 1 .. N : /\ AppAt(sequence, k) \in AppsOf(sequence)
                           /\ Sorted(sequence)[k] = Of(sequence, AppAt(sequence, k))
      /\ \A app \in AppsOf(sequence) : \E k \in 1 .. N : AppAt(sequence, k) = app
  BY <1>2, PartsAre
<1> HIDE DEF N, sequence
<1>7. {layout[k].app : k \in DOMAIN layout} = Apps
  BY <1>3, <1>4, <1>5, <1>6
<1>8. ASSUME NEW app \in Apps
      PROVE  LET bytes == BytesAt(RangeOf(Lookup, app))
                 encoded == Encode(Submitted(app))
             IN  /\ IsPrefix(encoded, bytes)
                 /\ IsZeroes(SubSeq(bytes, Len(encoded) + 1, Len(bytes)))
  <2>1. PICK i \in 1 .. N : AppAt(sequence, i) = app
    BY <1>3, <1>6
  <2>2. i \in 1 .. Len(layout)
    BY <1>4
  <2> DEFINE bytes == BytesAt(RangeOf(Lookup, app))
             encoded == Encode(Submitted(app))
  <2>3. RangeOf(Lookup, app) = Range32(Begin(layout, i), Begin(layout, i) + layout[i].len)
    BY <1>1, <2>1, <2>2, RangeIs DEF sequence
  <2>4. encoded = EncodedAt(sequence, i)
    <3>1. Sorted(sequence)[i] = Of(sequence, app)
      BY <1>6, <2>1
    <3>2. Submitted(app) = DatasOf(Of(sequence, app))
      BY Zenon DEF Submitted, DatasOf, sequence
    <3> QED BY <3>1, <3>2, Zenon DEF EncodedAt
  <2>5. \E n \in Nat :
          BytesAt(Range32(Begin(layout, i), Begin(layout, i) + layout[i].len))
            = EncodedAt(request.xts, i) \o Zeroes(n)
    BY <2>2, BytesAre
  <2> HIDE DEF encoded
  <2>6. PICK n \in Nat : bytes = encoded \o Zeroes(n)
    BY <2>3, <2>4, <2>5, Zenon DEF sequence
  <2>7. encoded \in Seq(Nat)
    BY <1>2, <2>4, ChunksAtTyped DEF N
  <2> HIDE DEF bytes
  <2>8. IsPrefix(encoded, bytes) /\ IsZeroes(SubSeq(bytes, Len(encoded) + 1, Len(bytes)))
    BY <2>6, <2>7, ZeroesBehind
  <2> QED BY <2>8 DEF bytes, encoded
<1> QED BY <1>4, <1>7, <1>8

-------------------------------------------------------------------------------
(***************************************************************************)
(* The invariant of EvaluationGrid.                                        *)
(***************************************************************************)

\* What it takes from BlockChunks is what FlattenBlock takes.
LEMMA GridShares ==
  /\ \A opaques : Grid!Encode(opaques) = Encode(opaques)
  /\ \A bytes, size : Grid!Pieces(bytes, size) = Pieces(bytes, size)
  /\ \A bytes, size : Grid!PadWithZeroes(bytes, size) = PadWithZeroes(bytes, size)
  /\ \A numbers : Grid!Ascending(numbers) = Ascending(numbers)
  /\ \A lens : Grid!Sums(lens) = Sums(lens)
  /\ \A n : Grid!NextPowerOfTwo(n) = NextPowerOfTwo(n)
  /\ \A n : Grid!IsPowerOfTwo(n) <=> IsPowerOfTwo(n)
  /\ \A a, b : Grid!CeilDiv(a, b) = CeilDiv(a, b)
  /\ \A index : Grid!LookupLen(index) = LookupLen(index)
  /\ \A S : Grid!Max(S) = Max(S)
<1>1. \A S : Grid!Max(S) = Max(S) /\ Grid!Min(S) = Min(S)
  BY Zenon DEF Grid!Max, Max, Grid!Min, Min
<1>2. \A a, b : Grid!CeilDiv(a, b) = CeilDiv(a, b)
  BY Zenon DEF Grid!CeilDiv, CeilDiv
<1>3. \A n : Grid!Zeroes(n) = Zeroes(n)
  BY Zenon DEF Grid!Zeroes, Zeroes
<1>4. \A bytes, size : Grid!PadWithZeroes(bytes, size) = PadWithZeroes(bytes, size)
  BY <1>3, Zenon DEF Grid!PadWithZeroes, PadWithZeroes
<1>5. \A bytes, size : Grid!Pieces(bytes, size) = Pieces(bytes, size)
  BY <1>1, <1>2, Zenon DEF Grid!Pieces, Pieces
<1>6. \A seqs : Grid!FlattenSeq(seqs) = FlattenSeq(seqs)
  BY Zenon DEF Grid!FlattenSeq, FlattenSeq
<1>7. \A opaques : Grid!Encode(opaques) = Encode(opaques)
  BY <1>6, Zenon DEF Grid!Encode, Encode
<1>8. \A numbers : Grid!Ascending(numbers) = Ascending(numbers)
  <2>1. \A S : Grid!Cardinality(S) = Cardinality(S)
    BY Zenon DEF Grid!Cardinality, Cardinality
  <2> QED BY <2>1, Zenon DEF Grid!Ascending, Ascending
<1>9. \A lens : Grid!Sums(lens) = Sums(lens)
  BY Zenon DEF Grid!Sums, Sums
<1>10. Grid!TwoTo = TwoTo
  BY Zenon DEF Grid!TwoTo, TwoTo
<1>11. Grid!Powers = Powers
  BY <1>10, Zenon DEF Grid!Powers, Powers
<1>12. \A n : Grid!NextPowerOfTwo(n) = NextPowerOfTwo(n)
  BY <1>1, <1>11, Zenon DEF Grid!NextPowerOfTwo, NextPowerOfTwo
<1>13. \A n : Grid!IsPowerOfTwo(n) <=> IsPowerOfTwo(n)
  BY <1>11, Zenon DEF Grid!IsPowerOfTwo, IsPowerOfTwo
<1>14. \A index : Grid!LookupLen(index) = LookupLen(index)
  BY Zenon DEF Grid!LookupLen, LookupLen
<1> QED BY <1>1, <1>2, <1>4, <1>5, <1>7, <1>8, <1>9, <1>12, <1>13, <1>14

AppScalars == [app : Nat, scalars : Seq(Seq(Nat))]

GridTypes ==
  /\ gridXts \in Seq(Xts)
  /\ DOMAIN grouped \subseteq Nat /\ IsFiniteSet(DOMAIN grouped)
  /\ grouped \in [DOMAIN grouped -> Seq(Seq(Nat))]
  /\ scalars \in Seq(AppScalars)

Items == LookupLen(lookup)

\* The lookup fixes the dimensions and the error.
GridChosen ==
  /\ Items \in 0 .. U32Max
  /\ gridPc \in {"group", "lookup"} => original = Grid!NoDims /\ gridReply = Grid!Pending
  /\ original # Grid!NoDims => original = Grid!BlockDims(Items) /\ Grid!DimsError(Items) = "none"
  /\ gridPc = "dims" => gridReply = Grid!Pending
  /\ gridReply.err = "BlockTooBig" => Grid!DimsError(Items) = "BlockTooBig"

GridInv == request \in Requests /\ GridTypes /\ GridChosen

LEMMA GridInit == Init /\ Grid!Start => GridInv
<1> SUFFICES ASSUME Init, Grid!Start PROVE GridInv
  OBVIOUS
<1>1. request \in Requests
  BY DEF Init
<1>2. GridTypes
  <2>1. gridXts \in Seq(Xts)
    BY <1>1, RequestsAre DEF Grid!Start
  <2>2. grouped = << >> /\ scalars = << >>
    BY DEF Grid!Start
  <2>3. DOMAIN << >> = {}
    BY EmptySeq
  <2>4. grouped \in [{} -> Seq(Seq(Nat))]
    BY <2>2, <2>3
  <2>5. scalars \in Seq(AppScalars)
    BY <2>2, EmptySeq
  <2> QED BY <2>1, <2>2, <2>3, <2>4, <2>5, FS_EmptySet DEF GridTypes
<1>3. GridChosen
  <2>1. Items = 0 /\ 0 \in 0 .. U32Max
    BY U32MaxAssumption DEF Grid!Start, Items, LookupLen
  <2> QED BY <2>1 DEF GridChosen, Grid!Start, Grid!Pending
<1> QED BY <1>1, <1>2, <1>3 DEF GridInv

\* Into the entry of an application, new or not.
LEMMA PushedTyped ==
  ASSUME NEW map, DOMAIN map \subseteq Nat, IsFiniteSet(DOMAIN map),
         map \in [DOMAIN map -> Seq(Seq(Nat))], NEW app \in Nat, NEW data \in Seq(Nat)
  PROVE  LET more == Grid!Pushed(map, app, data)
         IN  /\ DOMAIN more \subseteq Nat /\ IsFiniteSet(DOMAIN more)
             /\ more \in [DOMAIN more -> Seq(Seq(Nat))]
<1> DEFINE more == Grid!Pushed(map, app, data)
<1>1. CASE app \in DOMAIN map
  <2>1. map[app] \in Seq(Seq(Nat))
    BY <1>1
  <2>2. Append(map[app], data) \in Seq(Seq(Nat))
    BY <2>1, AppendProperties
  <2>3. more = [map EXCEPT ![app] = Append(map[app], data)]
    BY <1>1 DEF Grid!Pushed
  <2>4. DOMAIN more = DOMAIN map /\ more \in [DOMAIN map -> Seq(Seq(Nat))]
    BY <1>1, <2>2, <2>3
  <2> HIDE DEF more
  <2> QED BY <2>4 DEF more
<1>2. CASE app \notin DOMAIN map
  <2> DEFINE D == DOMAIN map \cup {app}
  <2>1. more = [key \in D |-> IF key = app THEN << data >> ELSE map[key]]
    BY <1>2, Zenon DEF Grid!Pushed
  <2>2. << data >> \in Seq(Seq(Nat))
    OBVIOUS
  <2>3. DOMAIN more = D /\ more \in [D -> Seq(Seq(Nat))]
    BY <2>1, <2>2
  <2>4. IsFiniteSet(D) /\ D \subseteq Nat
    BY FS_AddElement
  <2> HIDE DEF more, D
  <2>5. DOMAIN more \subseteq Nat /\ IsFiniteSet(DOMAIN more)
    BY <2>3, <2>4
  <2>6. more \in [DOMAIN more -> Seq(Seq(Nat))]
    BY <2>3
  <2> QED BY <2>5, <2>6 DEF more
<1> QED BY <1>1, <1>2

LEMMA ScalarsTyped ==
  ASSUME NEW bytes \in Seq(Nat)
  PROVE  Grid!Scalars(bytes) \in Seq(Seq(Nat))
<1> DEFINE pieces == Pieces(bytes, DATA_CHUNK_SIZE)
           N == Len(pieces)
<1>1. pieces \in Seq(Seq(Nat))
  BY PiecesTyped
<1>2. Grid!Scalars(bytes) = [k \in DOMAIN pieces |-> PadWithZeroes(pieces[k], SCALAR_SIZE)]
  BY GridShares, Zenon DEF Grid!Scalars, Grid!Scalar
<1> HIDE DEF pieces
<1>3. N \in Nat /\ DOMAIN pieces = 1 .. N /\ \A k \in 1 .. N : pieces[k] \in Seq(Nat)
  BY <1>1, LenProperties, ElementOfSeq
<1>4. SCALAR_SIZE \in Int
  BY ChunkAssumption
<1>5. \A k \in 1 .. N : PadWithZeroes(pieces[k], SCALAR_SIZE) \in Seq(Nat)
  BY <1>3, <1>4, PaddingTyped
<1> DEFINE all == [k \in 1 .. N |-> PadWithZeroes(pieces[k], SCALAR_SIZE)]
<1>6. all \in [1 .. N -> Seq(Nat)]
  BY <1>5
<1>7. Grid!Scalars(bytes) = all
  BY <1>2, <1>3
<1> HIDE DEF all, N
<1> QED BY <1>3, <1>6, <1>7, FunctionIsSeq

LEMMA GridGroupKeeps == GridInv /\ Grid!Group /\ UNCHANGED vars => GridInv'
<1> SUFFICES ASSUME GridInv, Grid!Group, UNCHANGED vars PROVE GridInv'
  OBVIOUS
<1>1. /\ gridXts \in Seq(Xts) /\ gridXts # << >>
      /\ DOMAIN grouped \subseteq Nat /\ IsFiniteSet(DOMAIN grouped)
      /\ grouped \in [DOMAIN grouped -> Seq(Seq(Nat))]
  BY DEF GridInv, GridTypes, Grid!Group
<1>2. Head(gridXts) \in Xts /\ Tail(gridXts) \in Seq(Xts)
  BY <1>1, HeadTailProperties
<1>3. Head(gridXts).app \in Nat /\ Head(gridXts).data \in Seq(Nat)
  BY <1>2 DEF Xts
<1>4. /\ DOMAIN grouped' \subseteq Nat /\ IsFiniteSet(DOMAIN grouped')
      /\ grouped' \in [DOMAIN grouped' -> Seq(Seq(Nat))]
  BY <1>1, <1>3, PushedTyped DEF Grid!Group
<1>5. GridTypes'
  BY <1>2, <1>4 DEF GridInv, GridTypes, Grid!Group
<1>6. Grid!BlockDims(Items)' = Grid!BlockDims(Items) /\ Grid!DimsError(Items)' = Grid!DimsError(Items)
      /\ Items' = Items
  BY DEF Grid!BlockDims, Grid!DimsError, Grid!Height, Items, Grid!Group, vars
<1>7. GridChosen'
  BY <1>6 DEF GridInv, GridChosen, Grid!Group
<1>8. request' \in Requests
  BY DEF GridInv, vars
<1> QED BY <1>5, <1>7, <1>8 DEF GridInv

LEMMA GridEncodedKeeps == GridInv /\ Grid!Encoded /\ UNCHANGED vars => GridInv'
<1> SUFFICES ASSUME GridInv, Grid!Encoded, UNCHANGED vars PROVE GridInv'
  OBVIOUS
<1> DEFINE apps == Ascending(DOMAIN grouped)
           Entries(k) == [app |-> apps[k], scalars |-> Grid!Scalars(Encode(grouped[apps[k]]))]
           N == Cardinality(DOMAIN grouped)
<1>1. /\ DOMAIN grouped \subseteq Nat /\ IsFiniteSet(DOMAIN grouped)
      /\ grouped \in [DOMAIN grouped -> Seq(Seq(Nat))]
  BY DEF GridInv, GridTypes
<1>2. apps \in Seq(DOMAIN grouped) /\ Len(apps) = N /\ N \in Nat
  BY <1>1, AscendingIs
<1>3. scalars' = [k \in DOMAIN apps |-> Entries(k)]
  BY GridShares, Zenon DEF Grid!Encoded
<1> HIDE DEF apps, N
<1>4. DOMAIN apps = 1 .. N /\ \A k \in 1 .. N : apps[k] \in DOMAIN grouped
  BY <1>2, LenProperties, ElementOfSeq
<1>5. \A k \in 1 .. N : Entries(k) \in AppScalars
  <2>1. ASSUME NEW k \in 1 .. N PROVE Entries(k) \in AppScalars
    <3>1. apps[k] \in Nat /\ grouped[apps[k]] \in Seq(Seq(Nat))
      BY <1>1, <1>4
    <3>2. Grid!Scalars(Encode(grouped[apps[k]])) \in Seq(Seq(Nat))
      BY <3>1, EncodeIs, ScalarsTyped
    <3> QED BY <3>1, <3>2 DEF AppScalars
  <2> QED BY <2>1
<1>6. scalars' \in Seq(AppScalars)
  <2>1. scalars' \in [1 .. N -> AppScalars]
    BY <1>3, <1>4, <1>5
  <2> QED BY <1>2, <2>1, FunctionIsSeq
<1>7. GridTypes'
  BY <1>6 DEF GridInv, GridTypes, Grid!Encoded
<1>8. Grid!BlockDims(Items)' = Grid!BlockDims(Items) /\ Grid!DimsError(Items)' = Grid!DimsError(Items)
      /\ Items' = Items
  BY DEF Grid!BlockDims, Grid!DimsError, Grid!Height, Items, Grid!Encoded, vars
<1>9. GridChosen'
  BY <1>8 DEF GridInv, GridChosen, Grid!Encoded
<1>10. request' \in Requests
  BY DEF GridInv, vars
<1> QED BY <1>7, <1>9, <1>10 DEF GridInv

\* The sums of the lengths, of which the last is in u32.
LEMMA GridIndexKeeps == GridInv /\ Grid!Index /\ UNCHANGED vars => GridInv'
<1> SUFFICES ASSUME GridInv, Grid!Index, UNCHANGED vars PROVE GridInv'
  OBVIOUS
<1> DEFINE lens == [j \in DOMAIN scalars |-> Len(scalars[j].scalars)]
           N == Len(scalars)
           total == Sums(lens)[N]
<1>1. scalars \in Seq(AppScalars) /\ N \in Nat /\ DOMAIN scalars = 1 .. N
  BY LenProperties DEF GridInv, GridTypes
<1>2. lens \in Seq(Nat) /\ Len(lens) = N
  <2>1. \A j \in 1 .. N : scalars[j].scalars \in Seq(Seq(Nat))
    <3>1. \A j \in 1 .. N : scalars[j] \in AppScalars
      BY <1>1, ElementOfSeq
    <3> QED BY <3>1 DEF AppScalars
  <2>2. \A j \in 1 .. N : Len(scalars[j].scalars) \in Nat
    BY <2>1, LenProperties
  <2>3. lens \in [1 .. N -> Nat]
    BY <1>1, <2>2
  <2> HIDE DEF lens
  <2> QED BY <1>1, <2>3, FunctionIsSeq
<1>3. \A k : Grid!EndOf(k) = Sums(lens)[k]
  BY GridShares, Zenon DEF Grid!EndOf
<1> HIDE DEF lens
<1>4. total \in Nat
  BY <1>1, <1>2, SumsAre
<1>5. gridPc = "lookup" /\ original = Grid!NoDims /\ gridReply = Grid!Pending
  BY DEF GridInv, GridChosen, Grid!Index
<1>6. GridTypes' /\ request' \in Requests
  BY DEF GridInv, GridTypes, Grid!Index, vars
<1>7. original' = Grid!NoDims
  BY <1>5 DEF Grid!Index
<1>8. CASE total > U32Max
  <2>1. gridReply' = Grid!Err("OffsetOverflows") /\ lookup' = lookup /\ gridPc' = "done"
    BY <1>3, <1>8 DEF Grid!Index, Grid!Fail
  <2>2. gridReply'.err # "BlockTooBig" /\ Items' \in 0 .. U32Max
    BY <2>1 DEF Grid!Err, GridInv, GridChosen, Items
  <2>3. GridChosen'
    BY <1>7, <2>1, <2>2 DEF GridChosen
  <2> QED BY <1>6, <2>3 DEF GridInv
<1>9. CASE ~(total > U32Max)
  <2>1. /\ lookup' = [k \in DOMAIN scalars |-> Entry(scalars[k].app, Grid!EndOf(k - 1), Grid!EndOf(k))]
        /\ gridPc' = "dims" /\ gridReply' = gridReply
    <3>1. Grid!EndOf(Len(scalars)) = total
      BY <1>3
    <3>2. ~(Grid!EndOf(Len(scalars)) > U32Max)
      BY <1>9, <3>1, Zenon
    <3> QED BY <3>2 DEF Grid!Index, Grid!Entry, Entry
  <2>2. lookup' = [k \in 1 .. N |-> Entry(scalars[k].app, Sums(lens)[k - 1], Sums(lens)[k])]
    BY <1>1, <1>3, <2>1
  <2>3. Items' \in 0 .. U32Max
    <3>1. CASE lookup' = << >>
      BY <3>1, U32MaxAssumption DEF Items, LookupLen
    <3>2. CASE lookup' # << >>
      <4>1. DOMAIN lookup' = 1 .. N
        BY <2>2
      <4>2. Len(lookup') = N
        BY <1>1, <2>2
      <4>3. N # 0
        <5>1. ASSUME N = 0 PROVE FALSE
          <6>1. lookup' \in [1 .. 0 -> {0}]
            BY <2>2, <5>1
          <6>2. lookup' \in Seq({0}) /\ Len(lookup') = 0
            BY <6>1, FunctionIsSeq
          <6> QED BY <3>2, <6>2, EmptySeq
        <5> QED BY <5>1
      <4>4. N \in 1 .. N
        BY <1>1, <4>3
      <4>5. lookup'[N].end = total
        BY <2>2, <4>4 DEF Entry
      <4>6. Items' = total
        BY <3>2, <4>2, <4>5 DEF Items, LookupLen
      <4> QED BY <1>4, <1>9, <4>6, U32MaxAssumption
    <3> QED BY <3>1, <3>2
  <2>4. GridChosen'
    BY <1>5, <1>7, <2>1, <2>3 DEF GridChosen, Grid!Pending
  <2> QED BY <1>6, <2>4 DEF GridInv
<1> QED BY <1>8, <1>9

\* Of the lookup and the request, which stay.
LEMMA GridRestKeeps ==
  ASSUME GridInv, UNCHANGED vars,
         \/ Grid!RefuseDims \/ Grid!Fill \/ Grid!RefuseExtend \/ Grid!Extend
         \/ Grid!RefuseRows \/ Grid!AppRows
  PROVE  GridInv'
<1>1. request' = request /\ request' \in Requests
  BY DEF GridInv, vars
<1>2. lookup' = lookup /\ Items' = Items
  BY DEF Items, Grid!RefuseDims, Grid!Fill, Grid!RefuseExtend, Grid!Extend, Grid!RefuseRows, Grid!AppRows
<1>3. Grid!BlockDims(Items)' = Grid!BlockDims(Items) /\ Grid!DimsError(Items)' = Grid!DimsError(Items)
  BY <1>1, <1>2 DEF Grid!BlockDims, Grid!DimsError, Grid!Height
<1>4. GridTypes'
  BY DEF GridInv, GridTypes, Grid!RefuseDims, Grid!Fill, Grid!RefuseExtend, Grid!Extend, Grid!RefuseRows, Grid!AppRows
<1>5. Items' \in 0 .. U32Max
  BY <1>2 DEF GridInv, GridChosen
<1>6. CASE Grid!RefuseDims
  <2>1. /\ gridReply' = Grid!Err(Grid!DimsError(Items)) /\ gridPc' = "done" /\ original' = original
    BY <1>6, GridShares DEF Grid!RefuseDims, Grid!Fail, Items
  <2>2. gridReply'.err = "BlockTooBig" => Grid!DimsError(Items) = "BlockTooBig"
    BY <2>1 DEF Grid!Err
  <2>3. original' # Grid!NoDims => original' = Grid!BlockDims(Items) /\ Grid!DimsError(Items) = "none"
    BY <2>1 DEF GridInv, GridChosen
  <2>4. GridChosen'
    BY <1>3, <1>5, <2>1, <2>2, <2>3 DEF GridChosen
  <2> QED BY <1>1, <1>4, <2>4 DEF GridInv
<1>7. CASE Grid!Fill
  <2>1. original' = Grid!BlockDims(Items) /\ gridPc' = "extend" /\ gridReply' = gridReply
        /\ Grid!DimsError(Items) = "none" /\ gridPc = "dims"
    BY <1>7, GridShares DEF Grid!Fill, Items
  <2>2. gridReply'.err # "BlockTooBig"
    BY <2>1 DEF GridInv, GridChosen, Grid!Pending
  <2>3. GridChosen'
    BY <1>3, <1>5, <2>1, <2>2 DEF GridChosen
  <2> QED BY <1>1, <1>4, <2>3 DEF GridInv
<1>8. ASSUME original' = original, gridPc' \in {"rows", "done"},
             gridReply' = gridReply \/ gridReply'.err # "BlockTooBig"
      PROVE  GridInv'
  <2>1. gridReply'.err = "BlockTooBig" => Grid!DimsError(Items) = "BlockTooBig"
    BY <1>8 DEF GridInv, GridChosen
  <2>2. original' # Grid!NoDims => original' = Grid!BlockDims(Items) /\ Grid!DimsError(Items) = "none"
    BY <1>8 DEF GridInv, GridChosen
  <2>3. GridChosen'
    BY <1>3, <1>5, <1>8, <2>1, <2>2 DEF GridChosen
  <2> QED BY <1>1, <1>4, <2>3 DEF GridInv
<1>9. CASE Grid!RefuseExtend
  <2>1. gridReply' = Grid!Err(Grid!ExtendError) /\ gridPc' = "done" /\ original' = original
    BY <1>9 DEF Grid!RefuseExtend, Grid!Fail
  <2>2. Grid!ExtendError # "BlockTooBig"
    BY DEF Grid!ExtendError
  <2> QED BY <1>8, <2>1, <2>2 DEF Grid!Err
<1>10. CASE Grid!Extend
  BY <1>8, <1>10 DEF Grid!Extend
<1>11. CASE Grid!RefuseRows
  <2>1. gridReply'.err # "BlockTooBig" /\ gridPc' = "done" /\ original' = original
    BY <1>11 DEF Grid!RefuseRows, Grid!Fail, Grid!Err
  <2> QED BY <1>8, <2>1
<1>12. CASE Grid!AppRows
  <2>1. gridReply'.err # "BlockTooBig" /\ gridPc' = "done" /\ original' = original
    BY <1>12 DEF Grid!AppRows, Grid!Ok, Grid!NotThere
  <2> QED BY <1>8, <2>1
<1> QED BY <1>6, <1>7, <1>9, <1>10, <1>11, <1>12

LEMMA GridStep == GridInv /\ Grid!Next /\ UNCHANGED vars => GridInv'
BY GridGroupKeeps, GridEncodedKeeps, GridIndexKeeps, GridRestKeeps DEF Grid!Next

LEMMA GridStutters ==
  GridInv /\ request' = request /\ UNCHANGED gridVars => GridInv'
<1> SUFFICES ASSUME GridInv, request' = request, UNCHANGED gridVars PROVE GridInv'
  OBVIOUS
<1>1. Grid!BlockDims(Items)' = Grid!BlockDims(Items) /\ Grid!DimsError(Items)' = Grid!DimsError(Items)
      /\ Items' = Items
  BY DEF Grid!BlockDims, Grid!DimsError, Grid!Height, Items, gridVars
<1>2. GridTypes'
  BY DEF GridInv, GridTypes, gridVars
<1>3. GridChosen'
  BY <1>1 DEF GridInv, GridChosen, gridVars
<1> QED BY <1>2, <1>3 DEF GridInv

\* The number of full rows, rounded up.
LEMMA HeightIs ==
  ASSUME NEW count \in 0 .. U32Max, request.maxWidth \in Nat \ {0}
  PROVE  LET rows == CeilDiv(count, request.maxWidth)
         IN  /\ Grid!Height(count) = NextPowerOfTwo(rows)
             /\ rows \in Nat /\ Grid!Height(count) \in Powers
             /\ rows <= Grid!Height(count)
             /\ \A p \in Powers : rows <= p => Grid!Height(count) <= p
             /\ Grid!Height(count) = 1 \/ Grid!Height(count) <= 2 * (rows - 1)
<1> DEFINE rows == CeilDiv(count, request.maxWidth)
<1>1. count \in Nat /\ U32Max \in Nat
  BY U32MaxAssumption
<1>2. rows \in Nat
  BY <1>1, CeilDivIs
<1>3. rows <= count
  <2>1. count <= request.maxWidth * count
    BY <1>1, Products
  <2> QED BY <1>1, <2>1, CeilDivIs
<1>4. Grid!Height(count) = NextPowerOfTwo(rows)
  BY GridShares, Zenon DEF Grid!Height
<1> HIDE DEF rows
<1>5. rows \in 0 .. U32Max
  BY <1>1, <1>2, <1>3
<1>6. /\ NextPowerOfTwo(rows) \in Powers /\ rows <= NextPowerOfTwo(rows)
      /\ \A p \in Powers : rows <= p => NextPowerOfTwo(rows) <= p
      /\ NextPowerOfTwo(rows) = 1 \/ NextPowerOfTwo(rows) <= 2 * (rows - 1)
  BY <1>5, NextOfU32
<1> QED BY <1>2, <1>4, <1>6 DEF rows

\* What the caller of the grid allows.
GridLimits ==
  /\ {request.minWidth, request.maxWidth, request.maxHeight} \subseteq Nat
  /\ request.minWidth \in Powers /\ request.maxWidth \in Powers
  /\ request.minWidth <= request.maxWidth /\ request.maxHeight >= 1

\* One row.
LEMMA RowIsTight ==
  ASSUME GridLimits, NEW count \in 0 .. U32Max, count < request.maxWidth
  PROVE  LET d == Grid!BlockDims(count)
         IN  /\ d.rows = 1 /\ d.cols \in Powers
             /\ d.cols \in request.minWidth .. request.maxWidth
             /\ d.cols \in count .. (2 * Max({count, request.minWidth}) - 1)
<1> DEFINE cols == Max({NextPowerOfTwo(count), request.minWidth})
           next == NextPowerOfTwo(count)
           least == Max({count, request.minWidth})
<1>1. /\ next \in Powers /\ count <= next
      /\ \A p \in Powers : count <= p => next <= p
      /\ next = 1 \/ next <= 2 * (count - 1)
  BY NextOfU32
<1>2. next \in Nat \ {0} /\ request.minWidth \in Nat \ {0} /\ request.maxWidth \in Nat \ {0}
      /\ count \in Nat
  BY <1>1, PowersPositive, U32MaxAssumption DEF GridLimits
<1>3. Grid!BlockDims(count) = Dimensions(1, cols)
  BY GridShares DEF Grid!BlockDims, Grid!Dimensions, Dimensions
<1>4. cols = IF next >= request.minWidth THEN next ELSE request.minWidth
  BY <1>2, MaxIs
<1>5. least = IF count >= request.minWidth THEN count ELSE request.minWidth
  BY <1>2, MaxIs
<1> HIDE DEF cols, next, least
<1>6. next <= request.maxWidth
  BY <1>1, <1>2 DEF GridLimits
<1>7. cols \in Powers
  BY <1>1, <1>4 DEF GridLimits
<1>8. cols \in request.minWidth .. request.maxWidth
  BY <1>2, <1>4, <1>6 DEF GridLimits
<1>9. cols \in count .. (2 * least - 1)
  BY <1>1, <1>2, <1>4, <1>5
<1>10. Grid!BlockDims(count).rows = 1 /\ Grid!BlockDims(count).cols = cols
  BY <1>3 DEF Dimensions
<1> QED BY <1>7, <1>8, <1>9, <1>10 DEF least

\* Full rows.
LEMMA RowsAreTight ==
  ASSUME GridLimits, NEW count \in 0 .. U32Max, ~(count < request.maxWidth),
         Grid!DimsError(count) = "none"
  PROVE  LET d == Grid!BlockDims(count)
         IN  /\ d.rows \in Powers /\ d.rows <= request.maxHeight
             /\ d.cols = request.maxWidth
             /\ d.rows * d.cols \in count .. (2 * Max({count, request.minWidth}) - 1)
<1> DEFINE w == request.maxWidth
           height == Grid!Height(count)
           rows == CeilDiv(count, w)
           least == Max({count, request.minWidth})
<1>1. request.minWidth \in Nat \ {0} /\ w \in Nat \ {0} /\ count \in Nat /\ request.maxHeight \in Nat
  BY PowersPositive, U32MaxAssumption DEF GridLimits
<1>2. /\ rows \in Nat /\ height \in Powers /\ rows <= height
      /\ height = 1 \/ height <= 2 * (rows - 1)
  BY <1>1, HeightIs
<1>3. height \in Nat \ {0}
  BY <1>2, PowersPositive
<1>4. Grid!BlockDims(count) = Dimensions(height, w)
  BY DEF Grid!BlockDims, Grid!Dimensions, Dimensions
<1>5. ~(height > request.maxHeight)
  BY DEF Grid!DimsError
<1>6. count <= w * rows /\ w * rows <= count + w - 1
  BY <1>1, CeilDivIs
<1>7. least = count
  <2>1. least = IF count >= request.minWidth THEN count ELSE request.minWidth
    BY <1>1, MaxIs
  <2>2. request.minWidth <= count
    BY <1>1 DEF GridLimits
  <2> QED BY <1>1, <2>1, <2>2
<1> HIDE DEF height, rows, least
<1>8. w <= count
  BY <1>1
<1>9. w * rows <= w * height /\ w * height \in Nat /\ w * rows \in Nat
  BY <1>1, <1>2, <1>3, Products
<1>10. w * height <= 2 * count - 1
  <2>1. CASE height = 1
    BY <1>1, <1>8, <2>1
  <2>2. CASE height <= 2 * (rows - 1)
    <3>1. 2 * (rows - 1) \in Nat
      BY <1>2, <1>3, <2>2
    <3>2. w * height <= w * (2 * (rows - 1))
      BY <1>1, <1>3, <2>2, <3>1, Products
    <3>3. w * (2 * (rows - 1)) = 2 * (w * rows) - 2 * w
      BY <1>1, <1>2
    <3>4. 2 * (w * rows) - 2 * w <= 2 * count - 2
      <4> DEFINE product == w * rows
      <4>1. product \in Nat /\ product <= count + w - 1
        BY <1>6, <1>9
      <4> HIDE DEF product
      <4>2. 2 * product - 2 * w <= 2 * count - 2
        BY <1>1, <4>1
      <4> QED BY <4>2 DEF product
    <3> DEFINE l == w * height
               m == w * (2 * (rows - 1))
               r == 2 * (w * rows) - 2 * w
    <3>5. l \in Nat /\ r \in Int /\ l <= m /\ m = r /\ r <= 2 * count - 2
      BY <1>1, <1>9, <3>2, <3>3, <3>4
    <3> HIDE DEF l, m, r
    <3>6. l <= 2 * count - 1
      BY <1>1, <3>5
    <3> QED BY <3>6 DEF l
  <2> QED BY <1>2, <2>1, <2>2
<1>11. count <= w * height
  BY <1>1, <1>6, <1>9
<1>12. height * w = w * height
  BY <1>1, <1>3, Products
<1>13. height * w \in count .. (2 * least - 1)
  <2> DEFINE product == w * height
  <2>1. product \in Nat /\ count <= product /\ product <= 2 * count - 1
    BY <1>9, <1>10, <1>11
  <2> HIDE DEF product
  <2>2. product \in count .. (2 * least - 1)
    BY <1>1, <1>7, <2>1
  <2> QED BY <1>12, <2>2 DEF product
<1>14. Grid!BlockDims(count).rows = height /\ Grid!BlockDims(count).cols = w
  BY <1>4 DEF Dimensions
<1>15. height <= request.maxHeight
  BY <1>1, <1>3, <1>5
<1> QED BY <1>2, <1>13, <1>14, <1>15 DEF least

LEMMA GridRequestsAre ==
  ASSUME request \in Requests
  PROVE  request.minWidth \in Nat /\ request.maxWidth \in Nat /\ request.maxHeight \in Nat
BY GridRequestsAssumption DEF Grid!IsRequest

LEMMA GridIsExact == GridInv => Grid!GridIsTight /\ Grid!RefusedIfTooBig
<1> SUFFICES ASSUME GridInv PROVE Grid!GridIsTight /\ Grid!RefusedIfTooBig
  OBVIOUS
<1>1. Items \in 0 .. U32Max /\ Grid!Count = Items /\ request \in Requests
  BY GridShares DEF GridInv, GridChosen, Items, Grid!Count
<1>2. request.minWidth \in Nat /\ request.maxWidth \in Nat /\ request.maxHeight \in Nat
  BY <1>1, GridRequestsAre
<1>3. Grid!GridIsTight
  <2> DEFINE Known == /\ original # Grid!NoDims
                      /\ Grid!IsPowerOfTwo(request.minWidth) /\ Grid!IsPowerOfTwo(request.maxWidth)
                      /\ request.minWidth <= request.maxWidth /\ request.maxHeight >= 1
             Tight == /\ Grid!IsPowerOfTwo(original.rows) /\ Grid!IsPowerOfTwo(original.cols)
                      /\ original.rows <= request.maxHeight
                      /\ original.cols \in request.minWidth .. request.maxWidth
                      /\ original.rows * original.cols
                           \in Items .. (2 * Max({Items, request.minWidth}) - 1)
                      /\ original.rows > 1 => original.cols = request.maxWidth
  <2>1. ASSUME Known PROVE Tight
    <3>1. GridLimits
      BY <1>2, <2>1, GridShares DEF GridLimits, IsPowerOfTwo
    <3>2. original = Grid!BlockDims(Items) /\ Grid!DimsError(Items) = "none"
      BY <2>1 DEF GridInv, GridChosen
    <3>3. CASE Items < request.maxWidth
      <4>1. /\ original.rows = 1 /\ original.cols \in Powers
            /\ original.cols \in request.minWidth .. request.maxWidth
            /\ original.cols \in Items .. (2 * Max({Items, request.minWidth}) - 1)
        BY <1>1, <3>1, <3>2, <3>3, RowIsTight
      <4>2. original.cols \in Nat
        BY <4>1, PowersPositive
      <4>3. original.rows * original.cols = original.cols
        BY <4>1, <4>2
      <4>4. original.rows \in Powers /\ original.rows <= request.maxHeight /\ ~(original.rows > 1)
        BY <1>2, <3>1, <4>1, OneIsPower DEF GridLimits
      <4> QED BY <4>1, <4>3, <4>4, GridShares DEF IsPowerOfTwo
    <3>4. CASE ~(Items < request.maxWidth)
      <4>1. /\ original.rows \in Powers /\ original.rows <= request.maxHeight
            /\ original.cols = request.maxWidth
            /\ original.rows * original.cols
                 \in Items .. (2 * Max({Items, request.minWidth}) - 1)
        BY <1>1, <3>1, <3>2, <3>4, RowsAreTight
      <4>2. original.cols \in Powers /\ original.cols \in request.minWidth .. request.maxWidth
        BY <1>2, <3>1, <4>1 DEF GridLimits
      <4> QED BY <4>1, <4>2, GridShares DEF IsPowerOfTwo
    <3> QED BY <3>3, <3>4
  <2>2. Grid!Size(original) = original.rows * original.cols
    BY DEF Grid!Size
  <2>3. Grid!Max({Grid!Count, request.minWidth}) = Max({Items, request.minWidth})
    BY <1>1, GridShares, Zenon
  <2> QED BY <1>1, <2>1, <2>2, <2>3, Zenon DEF Grid!GridIsTight
<1>4. Grid!RefusedIfTooBig
  <2>1. ASSUME Grid!IsPowerOfTwo(request.maxHeight), gridReply.err = "BlockTooBig"
        PROVE  Items > request.maxWidth * request.maxHeight
    <3> DEFINE rows == CeilDiv(Items, request.maxWidth)
    <3>1. Grid!DimsError(Items) = "BlockTooBig"
      BY <2>1 DEF GridInv, GridChosen
    <3>2. request.maxWidth \in 1 .. U16Max /\ Grid!Height(Items) > request.maxHeight
      BY <3>1 DEF Grid!DimsError
    <3>3. request.maxWidth \in Nat \ {0} /\ Items \in Nat
      BY <1>1, <1>2, <3>2
    <3>4. request.maxHeight \in Powers
      BY <2>1, GridShares DEF IsPowerOfTwo
    <3>5. /\ rows \in Nat /\ Grid!Height(Items) \in Powers
          /\ rows <= request.maxHeight => Grid!Height(Items) <= request.maxHeight
      BY <1>1, <3>3, <3>4, HeightIs
    <3>6. Grid!Height(Items) \in Nat
      BY <3>5, PowersPositive
    <3>7. ~(rows <= request.maxHeight)
      BY <1>2, <3>2, <3>5, <3>6
    <3>8. ~(Items <= request.maxWidth * request.maxHeight)
      BY <1>2, <3>3, <3>7, CeilDivIs
    <3>9. request.maxWidth * request.maxHeight \in Nat
      BY <1>2, <3>3, Products
    <3> QED BY <3>3, <3>8, <3>9
  <2> QED BY <1>1, <2>1 DEF Grid!RefusedIfTooBig
<1> QED BY <1>3, <1>4

\* Both generators refuse a block for its size only when no matrix within the
\* bounds holds it, and else choose one that is no larger than it must be
\* (get_block_dimensions, flatten_and_pad_block; get_block_dims of gridgen).
THEOREM DimensionsAreRight == BuildSpec => []DimensionsAreExact
<1> DEFINE Inv == FlattenInv /\ GridInv
<1>1. BuildInit => Inv
  BY FlattenInit, GridInit DEF BuildInit
<1>2. Inv /\ [BuildNext]_<< vars, gridVars >> => Inv'
  <2> SUFFICES ASSUME Inv, [BuildNext]_<< vars, gridVars >> PROVE Inv'
    OBVIOUS
  <2>1. CASE Next /\ UNCHANGED gridVars
    <3>1. FlattenInv'
      BY <2>1, FlattenStep
    <3>2. request' = request
      BY <2>1 DEF Next, Sort, Group, Grouped, Pad, Padded, Fill, RefuseDims, Extend, RefuseExtend, Commit
    <3> QED BY <2>1, <3>1, <3>2, GridStutters
  <2>2. CASE Grid!Next /\ UNCHANGED vars
    BY <2>2, FlattenStep, GridStep
  <2>3. CASE UNCHANGED << vars, gridVars >>
    <3>1. UNCHANGED vars /\ UNCHANGED gridVars /\ request' = request
      BY <2>3 DEF vars
    <3> QED BY <3>1, FlattenStep, GridStutters
  <2> QED BY <2>1, <2>2, <2>3 DEF BuildNext
<1>3. Inv => DimensionsAreExact
  BY FlattenIsExact, GridIsExact DEF DimensionsAreExact
<1> QED BY <1>1, <1>2, <1>3, PTL DEF BuildSpec

\* What is submitted is stored: where the lookup of the layout and the indexing
\* of the extended matrix send a client, it finds the extrinsics of its
\* application in the order they were submitted, and zeros behind them
\* (flatten_and_pad_block, par_extend_data_matrix, par_build_commitments).
THEOREM SubmittedExtrinsicsAreStored == BuildSpec => []SubmittedIsStored
<1> DEFINE Inv == FlattenInv /\ StoredInv
<1>1. BuildInit => Inv
  BY FlattenInit, StoredInit DEF BuildInit
<1>2. Inv /\ [BuildNext]_<< vars, gridVars >> => Inv'
  <2> SUFFICES ASSUME Inv, [BuildNext]_<< vars, gridVars >> PROVE Inv'
    OBVIOUS
  <2>1. [Next]_vars
    BY DEF BuildNext
  <2> QED BY <2>1, FlattenStep, StoredStep
<1>3. Inv => SubmittedIsStored
  BY AllIsStored
<1> QED BY <1>1, <1>2, <1>3, PTL DEF BuildSpec

-------------------------------------------------------------------------------
(***************************************************************************)
(* EvaluationGrid: where the scalars of an application are, and that       *)
(* app_rows returns the rows they are in.                                  *)
(***************************************************************************)

\* Parts of any length, joined: each begins where the sum of those before ends.
LEMMA FlattenPlaces ==
  ASSUME NEW S, NEW seqs \in Seq(Seq(S)), NEW lens \in Seq(Nat), Len(lens) = Len(seqs),
         \A i \in 1 .. Len(seqs) : Len(seqs[i]) = lens[i]
  PROVE  /\ Len(FlattenSeq(seqs)) = Sums(lens)[Len(seqs)]
         /\ \A i \in 1 .. Len(seqs) : \A j \in 1 .. lens[i] :
              FlattenSeq(seqs)[Sums(lens)[i - 1] + j] = seqs[i][j]
<1> DEFINE N == Len(seqs)
           s == Sums(lens)
<1>0. N \in Nat
  BY LenProperties
<1>1. /\ s[0] = 0 /\ \A k \in 0 .. N : s[k] \in Nat
      /\ \A k \in 1 .. N : s[k] = s[k - 1] + lens[k]
  BY SumsAre
<1>2. CASE N = 0
  <2>1. Len(FlattenSeq(seqs)) = 0
    BY <1>2, FlattenNothing
  <2> QED BY <1>1, <1>2, <2>1
<1>3. CASE N # 0
  <2>1. PICK f : /\ \A i \in 1 .. N : f[i] \in Seq(S)
                 /\ \A i \in 1 .. N : f[i] = IF i = 1 THEN seqs[i] ELSE f[i - 1] \o seqs[i]
                 /\ FlattenSeq(seqs) = f[N]
    BY <1>3, FlattenSteps
  <2> DEFINE Good(n) == /\ Len(f[n]) = s[n]
                        /\ \A i \in 1 .. n : \A j \in 1 .. lens[i] : f[n][s[i - 1] + j] = seqs[i][j]
             T == {n \in 0 .. N : n # 0 => Good(n)}
  <2>2. 0 \in T
    BY <1>0
  <2>3. \A i \in 1 .. N : seqs[i] \in Seq(S) /\ Len(seqs[i]) = lens[i]
    BY ElementOfSeq
  <2>4. \A i \in 1 .. N : \A n \in i .. N : s[i] <= s[n]
    <3>1. \A n \in 0 .. N : \A i \in 0 .. n : s[i] <= s[n]
      BY SumsGrow
    <3> HIDE DEF s, N
    <3>2. \A i \in 1 .. N : \A n \in i .. N : n \in 0 .. N /\ i \in 0 .. n
      BY <1>0
    <3> QED BY <3>1, <3>2
  <2>5. \A i \in 1 .. N : lens[i] \in Nat
    BY ElementOfSeq
  <2> HIDE DEF N, s
  <2>6. ASSUME NEW n \in 1 .. N, n - 1 \in T PROVE n \in T
    <3>1. CASE n = 1
      <4>1. f[1] = seqs[1] /\ 1 \in 1 .. N
        BY <2>1, <3>1
      <4>2. s[1] = lens[1] /\ 1 - 1 = 0
        BY <1>1, <2>5, <4>1
      <4>3. Len(f[n]) = s[n]
        BY <2>3, <3>1, <4>1, <4>2
      <4>4. ASSUME NEW i \in 1 .. n, NEW j \in 1 .. lens[i] PROVE f[n][s[i - 1] + j] = seqs[i][j]
        <5>1. i = 1
          BY <3>1
        <5>2. s[i - 1] + j = j
          BY <1>1, <4>2, <5>1
        <5>3. f[n][s[i - 1] + j] = seqs[1][j]
          BY <3>1, <4>1, <5>2, Zenon
        <5> QED BY <5>1, <5>3, Zenon
      <4>5. Good(n)
        BY <4>3, <4>4
      <4>6. n \in 0 .. N
        BY <1>0
      <4> QED BY <4>5, <4>6, Zenon
    <3>2. CASE n # 1
      <4>1. n - 1 \in 1 .. N /\ n - 1 # 0 /\ n \in 0 .. N /\ n - 1 \in 0 .. N
        BY <1>0, <3>2
      <4>2. Good(n - 1)
        BY <2>6, <4>1
      <4> DEFINE l == s[n - 1]
                 m == lens[n]
                 before == f[n - 1]
                 last == seqs[n]
      <4>3. /\ f[n] = before \o last /\ before \in Seq(S) /\ last \in Seq(S)
            /\ Len(last) = m /\ Len(before) = l
        BY <2>1, <2>3, <3>2, <4>1, <4>2
      <4>4. l \in Nat /\ m \in Nat /\ s[n] = l + m
        BY <1>1, <2>5, <4>1
      <4>5. \A i \in 1 .. n - 1 : s[i - 1] \in Nat /\ s[i] = s[i - 1] + lens[i] /\ s[i] <= l
        <5>1. \A i \in 1 .. n - 1 : i \in 1 .. N /\ i - 1 \in 0 .. N /\ n - 1 \in i .. N
          BY <1>0, <4>1
        <5> QED BY <1>1, <2>4, <5>1
      <4> HIDE DEF before, last, l, m
      <4>6. /\ Len(before \o last) = l + m
            /\ \A k \in 1 .. l + m : (before \o last)[k] = IF k <= l THEN before[k] ELSE last[k - l]
        <5>1. /\ Len(before \o last) = Len(before) + Len(last)
              /\ \A k \in 1 .. Len(before) + Len(last) :
                   (before \o last)[k] = IF k <= Len(before) THEN before[k] ELSE last[k - Len(before)]
          BY <4>3, ConcatProperties
        <5>2. Len(before) = l /\ Len(last) = m
          BY <4>3
        <5> QED BY <5>1, <5>2, Zenon
      <4>7. ASSUME NEW i \in 1 .. n, NEW j \in 1 .. lens[i] PROVE f[n][s[i - 1] + j] = seqs[i][j]
        <5>1. CASE i = n
          <6>1. s[i - 1] + j = l + j /\ j \in 1 .. m
            BY <5>1 DEF l, m
          <6>2. l + j \in 1 .. l + m /\ ~(l + j <= l) /\ (l + j) - l = j
            BY <4>4, <6>1
          <6>3. (before \o last)[l + j] = last[j]
            BY <4>6, <6>2
          <6> QED BY <4>3, <5>1, <6>1, <6>3 DEF last
        <5>2. CASE i # n
          <6> DEFINE c == s[i - 1] + j
          <6>1. i \in 1 .. n - 1 /\ lens[i] \in Nat
            BY <1>0, <2>5, <5>2
          <6>2. c \in 1 .. l + m /\ c <= l
            <7> DEFINE a == s[i - 1]
                       b == s[i]
                       d == lens[i]
            <7>1. a \in Nat /\ d \in Nat /\ b = a + d /\ b <= l /\ j \in 1 .. d
              BY <4>5, <6>1
            <7>2. c = a + j
              OBVIOUS
            <7> HIDE DEF a, b, c, d
            <7> QED BY <4>4, <7>1, <7>2
          <6>3. before[c] = seqs[i][j]
            BY <4>2, <6>1 DEF before
          <6> HIDE DEF c
          <6>4. (before \o last)[c] = before[c]
            BY <4>6, <6>2
          <6> QED BY <4>3, <6>3, <6>4 DEF c
        <5> QED BY <5>1, <5>2
      <4>8. Len(f[n]) = s[n]
        BY <4>3, <4>4, <4>6
      <4>9. Good(n)
        BY <4>7, <4>8
      <4> QED BY <4>1, <4>9, Zenon
    <3> QED BY <3>1, <3>2
  <2> HIDE DEF T
  <2>7. \A n \in 0 .. N : n \in T
    BY <1>0, <2>2, <2>6, UpTo
  <2>8. N \in 0 .. N
    BY <1>0
  <2>9. Good(N)
    BY <1>3, <2>7, <2>8 DEF T
  <2> QED BY <2>1, <2>9 DEF N, s
<1> QED BY <1>2, <1>3

\* Parts of one length.
LEMMA FlattenLength ==
  ASSUME NEW S, NEW seqs \in Seq(Seq(S)), NEW m \in Nat,
         \A i \in 1 .. Len(seqs) : Len(seqs[i]) = m
  PROVE  Len(FlattenSeq(seqs)) = Len(seqs) * m
<1> DEFINE N == Len(seqs)
           lens == [i \in 1 .. N |-> m]
           s == Sums(lens)
           T == {n \in 0 .. N : s[n] = n * m}
<1>1. N \in Nat
  BY LenProperties
<1> HIDE DEF N
<1>2. lens \in Seq(Nat) /\ Len(lens) = N /\ \A i \in 1 .. N : lens[i] = m
  <2>1. lens \in [1 .. N -> Nat]
    OBVIOUS
  <2>2. \A i \in 1 .. N : lens[i] = m
    OBVIOUS
  <2> HIDE DEF lens
  <2> QED BY <1>1, <2>1, <2>2, FunctionIsSeq
<1> HIDE DEF lens
<1>3. /\ s[0] = 0
      /\ \A k \in 1 .. N : s[k] = s[k - 1] + lens[k]
  BY <1>2, SumsAre
<1> HIDE DEF s
<1>4. 0 \in T
  BY <1>1, <1>3
<1>5. ASSUME NEW n \in 1 .. N, n - 1 \in T PROVE n \in T
  <2>1. s[n] = (n - 1) * m + m
    BY <1>2, <1>3, <1>5
  <2>2. (n - 1) * m + m = n * m /\ n \in 0 .. N
    BY <1>1
  <2> QED BY <2>1, <2>2
<1> HIDE DEF T
<1>6. \A n \in 0 .. N : n \in T
  BY <1>1, <1>4, <1>5, UpTo
<1>7. s[N] = N * m
  BY <1>1, <1>6 DEF T
<1>8. Len(FlattenSeq(seqs)) = Sums(lens)[Len(seqs)]
  BY <1>2, FlattenPlaces DEF N
<1> QED BY <1>7, <1>8 DEF N, s

\* One more extrinsic.
LEMMA OfMore ==
  ASSUME NEW sequence \in Seq(Xts), NEW xt \in Xts, NEW app
  PROVE  Of(Append(sequence, xt), app)
           = IF xt.app = app THEN Append(Of(sequence, app), xt) ELSE Of(sequence, app)
<1> DEFINE N == Len(sequence)
           more == Append(sequence, xt)
           f == OfUpTo(sequence, app)
           g == OfUpTo(more, app)
           T == {n \in 0 .. N : g[n] = f[n]}
<1>1. N \in Nat
  BY LenProperties
<1>2. /\ more \in Seq(Xts) /\ Len(more) = N + 1 /\ more[N + 1] = xt
      /\ \A k \in 1 .. N : more[k] = sequence[k]
  BY AppendProperties
<1> HIDE DEF more
<1>3. /\ f[0] = << >>
      /\ \A k \in 1 .. N : f[k] = IF sequence[k].app = app THEN Append(f[k - 1], sequence[k]) ELSE f[k - 1]
  BY OwnAre
<1>4. /\ g[0] = << >>
      /\ \A k \in 1 .. N + 1 : g[k] = IF more[k].app = app THEN Append(g[k - 1], more[k]) ELSE g[k - 1]
  BY <1>2, OwnAre
<1>5. Of(sequence, app) = f[N] /\ Of(more, app) = g[N + 1]
  BY <1>2, Zenon DEF Of
<1> HIDE DEF f, g, N
<1>6. 0 \in T
  BY <1>1, <1>3, <1>4
<1>7. ASSUME NEW n \in 1 .. N, n - 1 \in T PROVE n \in T
  <2>1. n \in 1 .. N + 1 /\ n \in 0 .. N /\ more[n] = sequence[n] /\ g[n - 1] = f[n - 1]
    BY <1>1, <1>2, <1>7
  <2>2. g[n] = f[n]
    BY <1>3, <1>4, <2>1, Zenon
  <2> QED BY <2>1, <2>2
<1> HIDE DEF T
<1>8. \A n \in 0 .. N : n \in T
  BY <1>1, <1>6, <1>7, UpTo
<1>9. g[N] = f[N]
  BY <1>1, <1>8 DEF T
<1>10. g[N + 1] = IF xt.app = app THEN Append(f[N], xt) ELSE f[N]
  <2>1. N + 1 \in 1 .. N + 1 /\ (N + 1) - 1 = N
    BY <1>1
  <2> QED BY <1>2, <1>4, <1>9, <2>1
<1> QED BY <1>5, <1>10, Zenon DEF more

LEMMA OfNone ==
  ASSUME NEW sequence \in Seq(Xts), NEW app, app \notin AppsOf(sequence)
  PROVE  Of(sequence, app) = << >>
<1> DEFINE own == Of(sequence, app)
           N == Len(sequence)
           f == OfUpTo(sequence, app)
           T == {n \in 0 .. N : f[n] = << >>}
<1>1. N \in Nat
  BY LenProperties
<1>2. \A k \in 1 .. N : sequence[k].app # app
  BY AppsAre
<1>3. /\ f[0] = << >>
      /\ \A k \in 1 .. N : f[k] = IF sequence[k].app = app THEN Append(f[k - 1], sequence[k]) ELSE f[k - 1]
  BY OwnAre
<1>4. own = f[N]
  BY DEF Of
<1> HIDE DEF N, f, own
<1>5. 0 \in T
  BY <1>1, <1>3
<1>6. ASSUME NEW n \in 1 .. N, n - 1 \in T PROVE n \in T
  BY <1>1, <1>2, <1>3, <1>6
<1> HIDE DEF T
<1>7. \A n \in 0 .. N : n \in T
  BY <1>1, <1>5, <1>6, UpTo
<1>8. f[N] = << >>
  BY <1>1, <1>7 DEF T
<1> QED BY <1>4, <1>8 DEF own

LEMMA AppsMore ==
  ASSUME NEW sequence \in Seq(Xts), NEW xt \in Xts
  PROVE  AppsOf(Append(sequence, xt)) = AppsOf(sequence) \cup {xt.app}
<1> DEFINE N == Len(sequence)
           more == Append(sequence, xt)
<1>1. N \in Nat
  BY LenProperties
<1>2. /\ more \in Seq(Xts) /\ Len(more) = N + 1 /\ more[N + 1] = xt
      /\ \A k \in 1 .. N : more[k] = sequence[k]
  BY AppendProperties
<1> HIDE DEF more
<1>3. \A app : app \in AppsOf(sequence) <=> \E i \in 1 .. N : sequence[i].app = app
  BY AppsAre
<1>4. \A app : app \in AppsOf(more) <=> \E i \in 1 .. N + 1 : more[i].app = app
  BY <1>2, AppsAre
<1> HIDE DEF N
<1>5. \A i : i \in 1 .. N + 1 <=> i \in 1 .. N \/ i = N + 1
  BY <1>1
<1>6. \A app : app \in AppsOf(more) <=> app \in AppsOf(sequence) \/ app = xt.app
  BY <1>2, <1>3, <1>4, <1>5
<1> QED BY <1>6 DEF more

\* What the ordered map holds of the extrinsics taken so far.
Held(taken, map) ==
  /\ DOMAIN map = AppsOf(taken)
  /\ \A app \in AppsOf(taken) : map[app] = DatasOf(Of(taken, app))

LEMMA HeldNothing == Held(<< >>, << >>)
<1>1. << >> \in Seq(Xts) /\ Len(<< >>) = 0
  BY EmptySeq
<1>2. AppsOf(<< >>) = {}
  <2>1. ToSet(<< >>) = {}
    <3>1. DOMAIN << >> = {}
      BY EmptySeq
    <3> QED BY <3>1, Zenon DEF ToSet
  <2> QED BY <2>1 DEF AppsOf
<1>3. DOMAIN << >> = {}
  BY EmptySeq
<1> QED BY <1>2, <1>3 DEF Held

LEMMA HeldNext ==
  ASSUME NEW taken \in Seq(Xts), NEW map, Held(taken, map),
         map \in [DOMAIN map -> Seq(Seq(Nat))], NEW xt \in Xts
  PROVE  Held(Append(taken, xt), Grid!Pushed(map, xt.app, xt.data))
<1> DEFINE after == Append(taken, xt)
           more == Grid!Pushed(map, xt.app, xt.data)
           D == DOMAIN map \cup {xt.app}
<1>1. AppsOf(after) = D
  BY AppsMore DEF Held
<1>2. \A app : Of(after, app) = IF xt.app = app THEN Append(Of(taken, app), xt) ELSE Of(taken, app)
  BY OfMore
<1>3. \A app : Of(taken, app) \in Seq(Xts)
  BY OfTyped
<1> HIDE DEF after
<1>4. DatasOf(Append(Of(taken, xt.app), xt)) = Append(DatasOf(Of(taken, xt.app)), xt.data)
  BY <1>3, DatasMore
<1>5. CASE xt.app \in DOMAIN map
  <2>1. more = [map EXCEPT ![xt.app] = Append(@, xt.data)]
    BY <1>5, Zenon DEF Grid!Pushed
  <2>2. DOMAIN more = D
    BY <1>5, <2>1
  <2>3. ASSUME NEW app \in D PROVE more[app] = DatasOf(Of(after, app))
    <3>1. app \in DOMAIN map /\ map[app] = DatasOf(Of(taken, app))
      BY <1>5 DEF Held
    <3>2. CASE app = xt.app
      <4>1. more[app] = Append(map[app], xt.data)
        BY <2>1, <3>1, <3>2
      <4> HIDE DEF more
      <4> QED BY <1>2, <1>4, <3>1, <3>2, <4>1, Zenon
    <3>3. CASE app # xt.app
      <4>1. more[app] = map[app]
        BY <2>1, <3>1, <3>3
      <4> HIDE DEF more
      <4> QED BY <1>2, <3>1, <3>3, <4>1, Zenon
    <3> QED BY <3>2, <3>3
  <2> HIDE DEF more, D
  <2> QED BY <1>1, <2>2, <2>3, Zenon DEF Held, after, more
<1>6. CASE xt.app \notin DOMAIN map
  <2>1. more = [key \in D |-> IF key = xt.app THEN << xt.data >> ELSE map[key]]
    BY <1>6, Zenon DEF Grid!Pushed
  <2>2. DOMAIN more = D
    BY <2>1
  <2>3. ASSUME NEW app \in D PROVE more[app] = DatasOf(Of(after, app))
    <3>1. CASE app = xt.app
      <4>1. Of(taken, app) = << >>
        BY <1>6, <3>1, OfNone DEF Held
      <4>2. more[app] = << xt.data >>
        BY <2>1, <3>1
      <4>3. DatasOf(<< >>) = << >>
        <5>1. DOMAIN << >> = {}
          BY EmptySeq
        <5>2. << >> = [k \in {} |-> << >>[k].data]
          BY <5>1
        <5> QED BY <5>1, <5>2 DEF DatasOf
      <4>4. Append(<< >>, xt.data) = << xt.data >>
        OBVIOUS
      <4> HIDE DEF more
      <4> QED BY <1>2, <1>4, <3>1, <4>1, <4>2, <4>3, <4>4, Zenon
    <3>2. CASE app # xt.app
      <4>1. more[app] = map[app] /\ app \in DOMAIN map
        BY <2>1, <3>2
      <4>2. map[app] = DatasOf(Of(taken, app))
        BY <4>1 DEF Held
      <4> HIDE DEF more
      <4> QED BY <1>2, <3>2, <4>1, <4>2, Zenon
    <3> QED BY <3>1, <3>2
  <2> HIDE DEF more, D
  <2> QED BY <1>1, <2>2, <2>3, Zenon DEF Held, after, more
<1> QED BY <1>5, <1>6

\* What from_extrinsics makes of a block: of each application, in ascending
\* order, its scalars; the lookup; and all scalars in one row.
ScalarsAt(sequence, k) == Grid!Scalars(EncodedAt(sequence, k))
ScalarLens(sequence) == [k \in 1 .. AppCount(sequence) |-> Len(ScalarsAt(sequence, k))]
EndAt(sequence, k) == Sums(ScalarLens(sequence))[k]

AllScalars(sequence) ==
  [k \in 1 .. AppCount(sequence) |->
     [app |-> AppAt(sequence, k), scalars |-> ScalarsAt(sequence, k)]]
AllEntries(sequence) ==
  [k \in 1 .. AppCount(sequence) |->
     Entry(AppAt(sequence, k), EndAt(sequence, k - 1), EndAt(sequence, k))]
AllCells(sequence) == FlattenSeq([k \in 1 .. AppCount(sequence) |-> ScalarsAt(sequence, k)])

LEMMA ScalarsAre ==
  ASSUME NEW bytes \in Seq(Nat), bytes # << >>
  PROVE  /\ Grid!Scalars(bytes) \in Seq(Seq(Nat)) /\ Len(Grid!Scalars(bytes)) \in Nat \ {0}
         /\ [k \in 1 .. Len(Grid!Scalars(bytes)) |-> SubSeq(Grid!Scalars(bytes)[k], 1, DATA_CHUNK_SIZE)]
              = DataSlices(bytes, SCALAR_SIZE)
<1> DEFINE pieces == Pieces(bytes, DATA_CHUNK_SIZE)
           N == Len(pieces)
           all == Grid!Scalars(bytes)
<1>1. pieces \in Seq(Seq(Nat)) /\ N = CeilDiv(Len(bytes), DATA_CHUNK_SIZE)
  BY PiecesTyped
<1>2. all = [k \in DOMAIN pieces |-> PadWithZeroes(pieces[k], SCALAR_SIZE)]
  BY GridShares, Zenon DEF Grid!Scalars, Grid!Scalar
<1>3. DOMAIN pieces = 1 .. N /\ N \in Nat
  BY <1>1, LenProperties
<1>4. all \in Seq(Seq(Nat))
  BY ScalarsTyped
<1>5. DataSlices(bytes, SCALAR_SIZE)
        = [k \in DOMAIN pieces |-> SubSeq(PadWithZeroes(pieces[k], SCALAR_SIZE), 1, DATA_CHUNK_SIZE)]
  BY Zenon DEF DataSlices
<1>6. Len(bytes) \in Nat \ {0} /\ DATA_CHUNK_SIZE \in Nat \ {0}
  BY EmptySeq, ChunkAssumption
<1>7. CeilDiv(Len(bytes), DATA_CHUNK_SIZE) \in Nat \ {0}
  BY <1>6, EnoughPieces
<1> HIDE DEF pieces, N, all
<1>8. DOMAIN all = 1 .. N
  BY <1>2, <1>3
<1>9. Len(all) = N
  <2>1. DOMAIN all = 1 .. Len(all) /\ Len(all) \in Nat
    BY <1>4, LenProperties
  <2> QED BY <1>3, <1>8, <2>1
<1>10. \A k \in 1 .. N : all[k] = PadWithZeroes(pieces[k], SCALAR_SIZE)
  BY <1>2, <1>3
<1>11. [k \in 1 .. Len(all) |-> SubSeq(all[k], 1, DATA_CHUNK_SIZE)] = DataSlices(bytes, SCALAR_SIZE)
  BY <1>3, <1>5, <1>9, <1>10
<1>12. Len(all) \in Nat \ {0}
  BY <1>1, <1>7, <1>9
<1> QED BY <1>4, <1>11, <1>12 DEF all

LEMMA ScalarsAtAre ==
  ASSUME NEW sequence \in Seq(Xts), NEW k \in 1 .. AppCount(sequence)
  PROVE  /\ EncodedAt(sequence, k) \in Seq(Nat) /\ EncodedAt(sequence, k) # << >>
         /\ ScalarsAt(sequence, k) \in Seq(Seq(Nat)) /\ Len(ScalarsAt(sequence, k)) \in Nat \ {0}
<1>1. EncodedAt(sequence, k) \in Seq(Nat) /\ Len(EncodedAt(sequence, k)) \in Nat \ {0}
  BY ChunksAtTyped
<1>2. EncodedAt(sequence, k) # << >>
  BY <1>1, EmptySeq
<1> QED BY <1>1, <1>2, ScalarsAre DEF ScalarsAt

LEMMA ScalarLensAre ==
  ASSUME NEW sequence \in Seq(Xts)
  PROVE  /\ AppCount(sequence) \in Nat
         /\ ScalarLens(sequence) \in Seq(Nat) /\ Len(ScalarLens(sequence)) = AppCount(sequence)
         /\ \A k \in 1 .. AppCount(sequence) :
              ScalarLens(sequence)[k] = Len(ScalarsAt(sequence, k)) /\ ScalarLens(sequence)[k] \in Nat \ {0}
         /\ EndAt(sequence, 0) = 0
         /\ \A k \in 0 .. AppCount(sequence) : EndAt(sequence, k) \in Nat
         /\ \A k \in 1 .. AppCount(sequence) :
              /\ EndAt(sequence, k) = EndAt(sequence, k - 1) + ScalarLens(sequence)[k]
              /\ EndAt(sequence, k) <= EndAt(sequence, AppCount(sequence))
<1> DEFINE N == AppCount(sequence)
           lens == ScalarLens(sequence)
<1>1. N \in Nat
  BY PartsAre
<1>2. \A k \in 1 .. N : Len(ScalarsAt(sequence, k)) \in Nat \ {0}
  BY ScalarsAtAre
<1>3. lens = [k \in 1 .. N |-> Len(ScalarsAt(sequence, k))]
  BY DEF ScalarLens
<1> HIDE DEF lens, N
<1>4. lens \in [1 .. N -> Nat] /\ \A k \in 1 .. N : lens[k] = Len(ScalarsAt(sequence, k))
  BY <1>2, <1>3
<1>5. lens \in Seq(Nat) /\ Len(lens) = N
  BY <1>1, <1>4, FunctionIsSeq
<1>6. /\ Sums(lens)[0] = 0
      /\ \A k \in 1 .. N : Sums(lens)[k] = Sums(lens)[k - 1] + lens[k]
      /\ \A k \in 0 .. N : Sums(lens)[k] \in Nat
  BY <1>5, SumsAre
<1>7. \A k \in 0 .. N : Sums(lens)[k] <= Sums(lens)[N]
  <2>1. N \in 0 .. Len(lens)
    BY <1>1, <1>5
  <2> QED BY <1>5, <2>1, SumsGrow
<1>8. \A k \in 1 .. N : k \in 0 .. N
  BY <1>1
<1>9. \A k : EndAt(sequence, k) = Sums(lens)[k]
  BY DEF EndAt, lens
<1>10. \A k \in 1 .. N : lens[k] \in Nat \ {0}
  BY <1>2, <1>4
<1>11. EndAt(sequence, 0) = 0 /\ \A k \in 0 .. N : EndAt(sequence, k) \in Nat
  BY <1>6, <1>9
<1>12. \A k \in 1 .. N : /\ EndAt(sequence, k) = EndAt(sequence, k - 1) + lens[k]
                         /\ EndAt(sequence, k) <= EndAt(sequence, N)
  BY <1>6, <1>7, <1>8, <1>9
<1> QED BY <1>1, <1>4, <1>5, <1>10, <1>11, <1>12 DEF N, lens

LEMMA CellsAreThere ==
  ASSUME NEW sequence \in Seq(Xts)
  PROVE  /\ AllCells(sequence) \in Seq(Seq(Nat))
         /\ Len(AllCells(sequence)) = EndAt(sequence, AppCount(sequence))
         /\ \A k \in 1 .. AppCount(sequence) : \A j \in 1 .. ScalarLens(sequence)[k] :
              AllCells(sequence)[EndAt(sequence, k - 1) + j] = ScalarsAt(sequence, k)[j]
<1> DEFINE N == AppCount(sequence)
           lens == ScalarLens(sequence)
           parts == [k \in 1 .. N |-> ScalarsAt(sequence, k)]
<1>1. N \in Nat /\ lens \in Seq(Nat) /\ Len(lens) = N
      /\ \A k \in 1 .. N : lens[k] = Len(ScalarsAt(sequence, k))
  BY ScalarLensAre
<1>2. \A k \in 1 .. N : ScalarsAt(sequence, k) \in Seq(Seq(Nat))
  BY ScalarsAtAre
<1>3. parts \in [1 .. N -> Seq(Seq(Nat))] /\ \A k \in 1 .. N : parts[k] = ScalarsAt(sequence, k)
  BY <1>2
<1>4. AllCells(sequence) = FlattenSeq(parts)
  BY DEF AllCells
<1>5. \A k : EndAt(sequence, k) = Sums(lens)[k]
  BY DEF EndAt
<1> HIDE DEF parts, lens, N
<1>6. parts \in Seq(Seq(Seq(Nat))) /\ Len(parts) = N
  BY <1>1, <1>3, FunctionIsSeq
<1>7. \A k \in 1 .. Len(parts) : Len(parts[k]) = lens[k]
  BY <1>1, <1>3, <1>6
<1>8. /\ Len(FlattenSeq(parts)) = Sums(lens)[Len(parts)]
      /\ \A i \in 1 .. Len(parts) : \A j \in 1 .. lens[i] :
           FlattenSeq(parts)[Sums(lens)[i - 1] + j] = parts[i][j]
  <2>1. Len(lens) = Len(parts)
    BY <1>1, <1>6
  <2> QED BY <1>1, <1>6, <1>7, <2>1, FlattenPlaces
<1>9. FlattenSeq(parts) \in Seq(Seq(Nat))
  BY <1>6, FlattenTyped
<1>10. Len(AllCells(sequence)) = EndAt(sequence, N)
  BY <1>4, <1>5, <1>6, <1>8
<1>11. \A k \in 1 .. N : \A j \in 1 .. lens[k] :
         AllCells(sequence)[EndAt(sequence, k - 1) + j] = ScalarsAt(sequence, k)[j]
  BY <1>3, <1>4, <1>5, <1>6, <1>8
<1> QED BY <1>4, <1>9, <1>10, <1>11 DEF N, lens

LEMMA GridSharesLookups ==
  /\ \A seqs : Grid!FlattenSeq(seqs) = FlattenSeq(seqs)
  /\ \A id, start, end : Grid!Entry(id, start, end) = Entry(id, start, end)
  /\ \A index, id : Grid!RangeOf(index, id) = RangeOf(index, id)
  /\ Grid!NoRange = NoRange
  /\ \A s, t : Grid!IsPrefix(s, t) <=> IsPrefix(s, t)
  /\ \A sequence, app : Grid!Of(sequence, app) = Of(sequence, app)
  /\ \A sequence : Grid!ToSet(sequence) = ToSet(sequence)
<1>1. \A seqs : Grid!FlattenSeq(seqs) = FlattenSeq(seqs)
  BY Zenon DEF Grid!FlattenSeq, FlattenSeq
<1>2. \A id, start, end : Grid!Entry(id, start, end) = Entry(id, start, end)
  BY Zenon DEF Grid!Entry, Entry
<1>3. \A start, end : Grid!Range32(start, end) = Range32(start, end)
  BY Zenon DEF Grid!Range32, Range32
<1>4. \A index, id, k : Grid!IsFirstOf(index, id, k) <=> IsFirstOf(index, id, k)
  BY Zenon DEF Grid!IsFirstOf, IsFirstOf
<1>5. Grid!NoRange = NoRange
  BY <1>3, Zenon DEF Grid!NoRange, NoRange
<1>6. \A index, id : Grid!RangeOf(index, id) = RangeOf(index, id)
  <2> TAKE index, id
  <2>1. (CHOOSE k \in DOMAIN index : Grid!IsFirstOf(index, id, k))
          = (CHOOSE k \in DOMAIN index : IsFirstOf(index, id, k))
    BY <1>4, Zenon
  <2> DEFINE mine == CHOOSE k \in DOMAIN index : IsFirstOf(index, id, k)
             its == CHOOSE k \in DOMAIN index : Grid!IsFirstOf(index, id, k)
             there == \E k \in DOMAIN index : index[k].id = id
  <2>2. RangeOf(index, id)
          = IF there THEN Range32(index[mine].start, index[mine].end) ELSE NoRange
    BY Zenon DEF RangeOf
  <2>3. Grid!RangeOf(index, id)
          = IF there THEN Grid!Range32(index[its].start, index[its].end) ELSE Grid!NoRange
    BY Zenon DEF Grid!RangeOf
  <2>4. mine = its
    BY <2>1
  <2> HIDE DEF mine, its, there
  <2>5. Grid!Range32(index[its].start, index[its].end) = Range32(index[its].start, index[its].end)
    BY <1>3
  <2> QED BY <1>5, <2>2, <2>3, <2>4, <2>5
<1>7. \A s, t : Grid!IsPrefix(s, t) <=> IsPrefix(s, t)
  BY Zenon DEF Grid!IsPrefix, IsPrefix
<1>8. \A sequence, app : Grid!OfUpTo(sequence, app) = OfUpTo(sequence, app)
  BY Zenon DEF Grid!OfUpTo, OfUpTo
<1>9. \A sequence, app : Grid!Of(sequence, app) = Of(sequence, app)
  BY <1>8, Zenon DEF Grid!Of, Of
<1>10. \A sequence : Grid!ToSet(sequence) = ToSet(sequence)
  BY Zenon DEF Grid!ToSet, ToSet
<1> QED BY <1>1, <1>2, <1>5, <1>6, <1>7, <1>9, <1>10

LEMMA EncodedGives ==
  ASSUME NEW sequence \in Seq(Xts), NEW map, Held(sequence, map)
  PROVE  LET apps == Ascending(DOMAIN map)
         IN  [k \in DOMAIN apps |->
                [app |-> apps[k], scalars |-> Grid!Scalars(Encode(map[apps[k]]))]]
               = AllScalars(sequence)
<1> DEFINE apps == Ascending(DOMAIN map)
           N == AppCount(sequence)
<1>1. DOMAIN map = AppsOf(sequence)
  BY DEF Held
<1>2. AppsOf(sequence) \subseteq Nat /\ IsFiniteSet(AppsOf(sequence))
  BY AppsAre
<1>3. apps \in Seq(AppsOf(sequence)) /\ Len(apps) = N
  BY <1>1, <1>2, AscendingIs DEF AppCount
<1>4. \A k : apps[k] = AppAt(sequence, k)
  BY <1>1 DEF AppAt
<1> HIDE DEF apps, N
<1>5. DOMAIN apps = 1 .. N
  BY <1>3, LenProperties
<1>6. ASSUME NEW k \in 1 .. N PROVE Encode(map[apps[k]]) = EncodedAt(sequence, k)
  <2>1. AppAt(sequence, k) \in AppsOf(sequence)
        /\ Sorted(sequence)[k] = Of(sequence, AppAt(sequence, k))
    BY PartsAre DEF N
  <2>2. map[apps[k]] = DatasOf(Of(sequence, AppAt(sequence, k)))
    BY <1>4, <2>1 DEF Held
  <2> QED BY <2>1, <2>2, Zenon DEF EncodedAt
<1>7. [k \in DOMAIN apps |->
         [app |-> apps[k], scalars |-> Grid!Scalars(Encode(map[apps[k]]))]]
        = [k \in 1 .. N |-> [app |-> AppAt(sequence, k), scalars |-> ScalarsAt(sequence, k)]]
  BY <1>4, <1>5, <1>6 DEF ScalarsAt
<1> QED BY <1>7, Zenon DEF AllScalars, N, apps

LEMMA IndexGives ==
  ASSUME request.xts \in Seq(Xts), scalars = AllScalars(request.xts)
  PROVE  /\ \A k : Grid!EndOf(k) = EndAt(request.xts, k)
         /\ [k \in DOMAIN scalars |-> Grid!Entry(scalars[k].app, Grid!EndOf(k - 1), Grid!EndOf(k))]
              = AllEntries(request.xts)
         /\ Grid!Flattened = AllCells(request.xts)
<1> DEFINE N == AppCount(request.xts)
<1>1. /\ DOMAIN scalars = 1 .. N
      /\ \A k \in 1 .. N : scalars[k].app = AppAt(request.xts, k)
                           /\ scalars[k].scalars = ScalarsAt(request.xts, k)
  BY DEF AllScalars
<1>2. [j \in DOMAIN scalars |-> Len(scalars[j].scalars)] = ScalarLens(request.xts)
  <2>1. [j \in DOMAIN scalars |-> Len(scalars[j].scalars)]
          = [j \in 1 .. N |-> Len(ScalarsAt(request.xts, j))]
    BY <1>1
  <2> QED BY <2>1, Zenon DEF ScalarLens
<1>3. \A k : Grid!EndOf(k) = EndAt(request.xts, k)
  <2>1. \A k : Grid!EndOf(k) = Sums([j \in DOMAIN scalars |-> Len(scalars[j].scalars)])[k]
    BY GridShares, Zenon DEF Grid!EndOf
  <2> QED BY <1>2, <2>1, Zenon DEF EndAt
<1>4. [k \in DOMAIN scalars |-> Grid!Entry(scalars[k].app, Grid!EndOf(k - 1), Grid!EndOf(k))]
        = AllEntries(request.xts)
  <2>1. \A k \in 1 .. N : Grid!Entry(scalars[k].app, Grid!EndOf(k - 1), Grid!EndOf(k))
          = Entry(AppAt(request.xts, k), EndAt(request.xts, k - 1), EndAt(request.xts, k))
    BY <1>1, <1>3, GridSharesLookups, Zenon
  <2> HIDE DEF N
  <2>2. [k \in DOMAIN scalars |-> Grid!Entry(scalars[k].app, Grid!EndOf(k - 1), Grid!EndOf(k))]
          = [k \in 1 .. N |->
               Entry(AppAt(request.xts, k), EndAt(request.xts, k - 1), EndAt(request.xts, k))]
    BY <1>1, <2>1, Zenon
  <2> QED BY <2>2, Zenon DEF AllEntries, N
<1>5. Grid!Flattened = AllCells(request.xts)
  <2>1. [k \in DOMAIN scalars |-> scalars[k].scalars] = [k \in 1 .. N |-> ScalarsAt(request.xts, k)]
    BY <1>1
  <2> QED BY <2>1, GridSharesLookups, Zenon DEF Grid!Flattened, AllCells
<1> QED BY <1>3, <1>4, <1>5

LEMMA EntriesAre ==
  ASSUME NEW sequence \in Seq(Xts)
  PROVE  /\ LookupLen(AllEntries(sequence)) = Len(AllCells(sequence))
         /\ \A i \in 1 .. AppCount(sequence) :
              RangeOf(AllEntries(sequence), AppAt(sequence, i))
                = Range32(EndAt(sequence, i - 1), EndAt(sequence, i))
<1> DEFINE n == AppCount(sequence)
           index == AllEntries(sequence)
           First(app, k) == IsFirstOf(index, app, k)
<1>1. n \in Nat /\ EndAt(sequence, 0) = 0 /\ Len(AllCells(sequence)) = EndAt(sequence, n)
  BY ScalarLensAre, CellsAreThere
<1>2. index = [k \in 1 .. n |->
                 Entry(AppAt(sequence, k), EndAt(sequence, k - 1), EndAt(sequence, k))]
  BY DEF AllEntries
<1> HIDE DEF index
<1>3. /\ DOMAIN index = 1 .. n
      /\ \A k \in 1 .. n : /\ index[k].id = AppAt(sequence, k)
                           /\ index[k].start = EndAt(sequence, k - 1)
                           /\ index[k].end = EndAt(sequence, k)
  BY <1>2 DEF Entry
<1>4. \A j, k \in 1 .. n : j # k => AppAt(sequence, j) # AppAt(sequence, k)
  BY PartsAre
<1> HIDE DEF n
<1>5. LookupLen(index) = Len(AllCells(sequence))
  <2> DEFINE Items3 == {index[k] : k \in 1 .. n}
  <2>1. index \in [1 .. n -> Items3]
    BY <1>2, <1>3
  <2>2. index \in Seq(Items3) /\ Len(index) = n
    <3> HIDE DEF Items3
    <3> QED BY <1>1, <2>1, FunctionIsSeq
  <2>3. CASE n = 0
    <3>1. index = << >>
      BY <2>2, <2>3, EmptySeq
    <3> QED BY <1>1, <2>3, <3>1 DEF LookupLen
  <2>4. CASE n # 0
    <3>1. index # << >> /\ n \in 1 .. n
      BY <1>1, <2>2, <2>4, EmptySeq
    <3>2. index[n].end = EndAt(sequence, n)
      BY <1>3, <3>1
    <3> QED BY <1>1, <2>2, <3>1, <3>2 DEF LookupLen
  <2> QED BY <2>3, <2>4
<1>6. ASSUME NEW i \in 1 .. n
      PROVE  RangeOf(index, AppAt(sequence, i)) = Range32(EndAt(sequence, i - 1), EndAt(sequence, i))
  <2> DEFINE app == AppAt(sequence, i)
  <2>1. \A k \in 1 .. n : index[k].id = app <=> k = i
    BY <1>3, <1>4
  <2> HIDE DEF app
  <2>2. \A k \in DOMAIN index : First(app, k) <=> k = i
    <3>1. \A k \in DOMAIN index : First(app, k) => k = i
      BY <1>3, <2>1 DEF IsFirstOf
    <3>2. First(app, i)
      <4>1. \A j \in 1 .. i - 1 : j \in 1 .. n /\ j # i
        BY <1>1
      <4> QED BY <2>1, <4>1 DEF IsFirstOf
    <3> QED BY <3>1, <3>2
  <2> HIDE DEF First
  <2>3. (CHOOSE k \in DOMAIN index : First(app, k)) = i
    BY <1>3, <2>2
  <2>4. \E k \in DOMAIN index : index[k].id = app
    BY <1>3, <2>1
  <2>5. RangeOf(index, app) = LET k == CHOOSE k \in DOMAIN index : First(app, k)
                              IN  Range32(index[k].start, index[k].end)
    BY <2>4, Zenon DEF RangeOf, First
  <2>6. RangeOf(index, app) = Range32(index[i].start, index[i].end)
    BY <2>3, <2>5
  <2> QED BY <1>3, <2>6 DEF app
<1> QED BY <1>5, <1>6 DEF n, index

\* The dimensions that are chosen hold what the lookup counts.
LEMMA DimsHold ==
  ASSUME request \in Requests, NEW count \in 0 .. U32Max, Grid!DimsError(count) = "none"
  PROVE  LET d == Grid!BlockDims(count)
         IN  d.rows \in Nat \ {0} /\ d.cols \in Nat \ {0} /\ count <= d.rows * d.cols
<1> DEFINE w == request.maxWidth
           d == Grid!BlockDims(count)
<1>1. w \in Nat /\ request.minWidth \in Nat /\ count \in Nat
  BY GridRequestsAre, U32MaxAssumption
<1>2. CASE count < w
  <2> DEFINE next == NextPowerOfTwo(count)
  <2>1. next \in Nat \ {0} /\ count <= next
    BY NextOfU32, PowersPositive
  <2>2. d = Dimensions(1, Max({next, request.minWidth}))
    BY <1>2, GridShares DEF Grid!BlockDims, Grid!Dimensions, Dimensions
  <2>3. Max({next, request.minWidth}) = IF next >= request.minWidth THEN next ELSE request.minWidth
    BY <1>1, <2>1, MaxIs
  <2> DEFINE most == Max({next, request.minWidth})
  <2> HIDE DEF next, most, d
  <2>4. most \in Nat \ {0} /\ count <= most
    BY <1>1, <2>1, <2>3 DEF most
  <2>5. d.rows = 1 /\ d.cols = most
    BY <2>2 DEF Dimensions, most
  <2> QED BY <2>4, <2>5 DEF d
<1>3. CASE ~(count < w)
  <2> DEFINE height == Grid!Height(count)
             rows == CeilDiv(count, w)
  <2>1. w \in 1 .. U16Max
    BY <1>3 DEF Grid!DimsError
  <2>2. w \in Nat \ {0}
    BY <1>1, <2>1
  <2>3. rows \in Nat /\ height \in Powers /\ rows <= height
    BY <2>2, HeightIs
  <2>4. height \in Nat \ {0}
    BY <2>3, PowersPositive
  <2>5. d = Dimensions(height, w)
    BY <1>3 DEF Grid!BlockDims, Grid!Dimensions, Dimensions
  <2>6. count <= w * rows
    BY <1>1, <2>2, CeilDivIs
  <2> HIDE DEF height, rows, d
  <2>7. w * rows <= w * height /\ w * height = height * w /\ w * rows \in Nat /\ w * height \in Nat
    BY <2>2, <2>3, <2>4, Products
  <2>8. count <= height * w
    <3> DEFINE a == w * rows
               b == w * height
               c == height * w
    <3>1. a \in Nat /\ b \in Nat /\ a <= b /\ b = c /\ count <= a
      BY <2>6, <2>7
    <3> HIDE DEF a, b, c
    <3> QED BY <1>1, <3>1 DEF c
  <2>9. d.rows = height /\ d.cols = w
    BY <2>5 DEF Dimensions
  <2> QED BY <2>2, <2>4, <2>8, <2>9 DEF d
<1> QED BY <1>2, <1>3

LEMMA FactorIs ==
  ASSUME request \in Requests
  PROVE  request.factor \in Nat \ {0} /\ request.xts \in Seq(Xts)
<1>1. request.factor \in 1 .. U16Max
  BY GridRequestsAssumption DEF Grid!IsRequest
<1>2. request.factor \in Nat \ {0}
  BY <1>1, SizeAssumption
<1> QED BY <1>2, RequestsAre

\* Rows of a grid whose height is multiplied.
LEMMA Multiplied ==
  ASSUME NEW rows \in Nat \ {0}, NEW f \in Nat \ {0}
  PROVE  /\ rows * f \in Nat \ {0} /\ (rows * f) \div rows = f /\ (rows * f) % rows = 0
         /\ \A y \in 0 .. rows - 1 :
              y * f \in 0 .. rows * f - 1 /\ (y * f) \div f = y /\ (y * f) % f = 0
<1>1. ASSUME NEW a \in Nat, NEW d \in Nat \ {0}
      PROVE  a * d \in Nat /\ (a * d) \div d = a /\ (a * d) % d = 0 /\ a * d = d * a
  <2> DEFINE m == a * d
  <2>1. d * a \in Nat /\ (d * a) \div d = a /\ d * a = a * d
    BY Products
  <2>2. m \in Nat /\ m \div d = a /\ m = d * a
    BY <2>1
  <2> HIDE DEF m
  <2>3. m = d * (m \div d) + (m % d)
    BY <2>2, Division
  <2> DEFINE p == d * a
  <2>4. p \in Nat /\ m = p /\ m = p + (m % d)
    BY <2>1, <2>2, <2>3
  <2> HIDE DEF p
  <2>5. m % d \in Int
    BY <2>2
  <2>6. m % d = 0
    BY <2>2, <2>4, <2>5
  <2> QED BY <2>1, <2>2, <2>6 DEF m
<1>2. rows * f \in Nat \ {0}
  <2>1. f <= rows * f /\ rows * f \in Nat
    BY Products
  <2> QED BY <2>1
<1>3. (rows * f) \div rows = f /\ (rows * f) % rows = 0
  <2>1. f \in Nat /\ rows \in Nat \ {0} /\ rows \in Nat
    OBVIOUS
  <2>2. (f * rows) \div rows = f /\ (f * rows) % rows = 0 /\ f * rows = rows * f
    BY <1>1, <2>1, Zenon
  <2> QED BY <2>2, Zenon
<1>4. ASSUME NEW y \in 0 .. rows - 1
      PROVE  y * f \in 0 .. rows * f - 1 /\ (y * f) \div f = y /\ (y * f) % f = 0
  <2>1. y \in Nat /\ y + 1 \in Nat /\ y + 1 <= rows
    OBVIOUS
  <2>2. y * f \in Nat /\ (y * f) \div f = y /\ (y * f) % f = 0
    BY <1>1, <2>1
  <2>3. f * (y + 1) <= f * rows /\ f * rows = rows * f
    BY <2>1, Products
  <2>4. f * (y + 1) = y * f + f
    BY <2>1
  <2> DEFINE a == y * f
             b == f * (y + 1)
             c == rows * f
  <2>5. a \in Nat /\ c \in Nat /\ b = a + f /\ b <= c
    BY <1>2, <2>2, <2>3, <2>4
  <2> HIDE DEF a, b, c
  <2>6. a \in 0 .. c - 1
    BY <2>5
  <2> QED BY <2>2, <2>6 DEF a, c
<1> QED BY <1>2, <1>3, <1>4

\* A scalar of the block is in the column it has in the one row of all scalars,
\* and in every step-th row.
Spread(step) ==
  /\ gridDims.rows = original.rows * step /\ gridDims.cols = original.cols
  /\ \A row \in 0 .. original.rows - 1, col \in 0 .. original.cols - 1 :
       row * original.cols + col < Len(AllCells(request.xts)) =>
         evals[row * step][col] = AllCells(request.xts)[row * original.cols + col + 1]

OriginalAsked == (IF request.orig = Grid!NoDims THEN gridDims ELSE request.orig) = original

\* The answer about the i-th application.
FirstRow(i) == EndAt(request.xts, i - 1) \div original.cols
LastRow(i) == (EndAt(request.xts, i) - 1) \div original.cols
AnswerAbout(i) ==
  [err |-> "none",
   rows |-> [k \in 1 .. LastRow(i) - FirstRow(i) + 1 |->
               [index |-> (FirstRow(i) + k - 1) * request.factor,
                row |-> evals[(FirstRow(i) + k - 1) * request.factor]]]]

Answered ==
  OriginalAsked /\ request.id \in AppsOf(request.xts) =>
    \E i \in 1 .. AppCount(request.xts) :
      AppAt(request.xts, i) = request.id /\ gridReply = AnswerAbout(i)

NotExtended == gridReply.err \in {"CellLengthExceeded", "DomainSizeInvalid"}

RowsInv ==
  /\ gridPc \in {"group", "lookup", "dims", "extend", "rows", "done"}
  /\ gridPc = "group" =>
       \E taken \in Seq(Xts) : request.xts = taken \o gridXts /\ Held(taken, grouped)
  /\ gridPc # "group" => scalars = AllScalars(request.xts)
  /\ gridPc \in {"group", "lookup", "dims"} => original = Grid!NoDims
  /\ gridPc = "dims" \/ original # Grid!NoDims => lookup = AllEntries(request.xts)
  /\ gridPc \in {"extend", "rows"} => original # Grid!NoDims
  /\ gridPc = "extend" => Spread(1)
  /\ gridPc = "rows" => Spread(request.factor)
  /\ gridPc = "done" /\ original # Grid!NoDims =>
       NotExtended \/ (Spread(request.factor) /\ Answered)

LEMMA RowsInit == Init /\ Grid!Start => RowsInv
<1> SUFFICES ASSUME Init, Grid!Start PROVE RowsInv
  OBVIOUS
<1>1. request.xts \in Seq(Xts)
  BY RequestsAre DEF Init
<1>2. gridPc = "group" /\ gridXts = request.xts /\ grouped = << >> /\ original = Grid!NoDims
  BY DEF Grid!Start
<1>3. << >> \in Seq(Xts) /\ request.xts = << >> \o request.xts
  BY <1>1, ConcatEmptySeq, EmptySeq
<1>4. \E taken \in Seq(Xts) : request.xts = taken \o gridXts /\ Held(taken, grouped)
  BY <1>2, <1>3, HeldNothing
<1> QED BY <1>2, <1>4 DEF RowsInv

LEMMA GroupRows == GridInv /\ RowsInv /\ Grid!Group /\ UNCHANGED vars => RowsInv'
<1> SUFFICES ASSUME GridInv, RowsInv, Grid!Group, UNCHANGED vars PROVE RowsInv'
  OBVIOUS
<1>1. /\ gridPc = "group" /\ gridPc' = "group" /\ gridXts # << >> /\ gridXts' = Tail(gridXts)
      /\ grouped' = Grid!Pushed(grouped, Head(gridXts).app, Head(gridXts).data)
      /\ original' = original /\ request' = request
  BY DEF Grid!Group
<1>2. gridXts \in Seq(Xts) /\ grouped \in [DOMAIN grouped -> Seq(Seq(Nat))]
  BY DEF GridInv, GridTypes
<1>3. PICK taken \in Seq(Xts) : request.xts = taken \o gridXts /\ Held(taken, grouped)
  BY <1>1 DEF RowsInv
<1>4. Head(gridXts) \in Xts /\ Tail(gridXts) \in Seq(Xts)
  BY <1>1, <1>2, HeadTailProperties
<1>5. Append(taken, Head(gridXts)) \in Seq(Xts)
  BY <1>4, AppendProperties
<1>6. Append(taken, Head(gridXts)) \o Tail(gridXts) = taken \o gridXts
  BY <1>1, <1>2, MoveOne
<1>7. Held(Append(taken, Head(gridXts)), Grid!Pushed(grouped, Head(gridXts).app, Head(gridXts).data))
  BY <1>2, <1>3, <1>4, HeldNext
<1>8. \E more \in Seq(Xts) : request'.xts = more \o gridXts' /\ Held(more, grouped')
  <2>1. request'.xts = Append(taken, Head(gridXts)) \o gridXts'
    BY <1>1, <1>3, <1>6
  <2>2. Held(Append(taken, Head(gridXts)), grouped')
    BY <1>1, <1>7
  <2> QED BY <1>5, <2>1, <2>2
<1> QED BY <1>1, <1>8 DEF RowsInv

LEMMA EncodedRows == GridInv /\ RowsInv /\ Grid!Encoded /\ UNCHANGED vars => RowsInv'
<1> SUFFICES ASSUME GridInv, RowsInv, Grid!Encoded, UNCHANGED vars PROVE RowsInv'
  OBVIOUS
<1>1. /\ gridPc = "group" /\ gridPc' = "lookup" /\ gridXts = << >>
      /\ original' = original /\ request' = request
  BY DEF Grid!Encoded
<1>2. PICK taken \in Seq(Xts) : request.xts = taken \o gridXts /\ Held(taken, grouped)
  BY <1>1 DEF RowsInv
<1>3. request.xts = taken
  BY <1>1, <1>2, ConcatEmptySeq
<1>4. scalars' = AllScalars(request.xts)
  <2> DEFINE apps == Ascending(DOMAIN grouped)
             made == [k \in DOMAIN apps |->
                        [app |-> apps[k], scalars |-> Grid!Scalars(Encode(grouped[apps[k]]))]]
  <2>1. scalars' = made
    BY GridShares, Zenon DEF Grid!Encoded
  <2>2. made = AllScalars(taken)
    BY <1>2, EncodedGives
  <2> HIDE DEF made
  <2> QED BY <1>3, <2>1, <2>2, Zenon
<1>5. original' = Grid!NoDims
  BY <1>1 DEF RowsInv
<1> QED BY <1>1, <1>4, <1>5 DEF RowsInv

LEMMA IndexRows == GridInv /\ RowsInv /\ Grid!Index /\ UNCHANGED vars => RowsInv'
<1> SUFFICES ASSUME GridInv, RowsInv, Grid!Index, UNCHANGED vars PROVE RowsInv'
  OBVIOUS
<1>1. /\ gridPc = "lookup" /\ original' = original /\ request' = request /\ scalars' = scalars
      /\ original = Grid!NoDims
  BY DEF Grid!Index, RowsInv
<1>2. scalars = AllScalars(request.xts) /\ request.xts \in Seq(Xts)
  BY <1>1, RequestsAre DEF RowsInv, GridInv
<1>3. \/ gridPc' = "done"
      \/ gridPc' = "dims" /\ lookup' = AllEntries(request.xts)
  <2>1. [k \in DOMAIN scalars |-> Grid!Entry(scalars[k].app, Grid!EndOf(k - 1), Grid!EndOf(k))]
          = AllEntries(request.xts)
    BY <1>2, IndexGives
  <2> QED BY <2>1 DEF Grid!Index, Grid!Fail
<1> QED BY <1>1, <1>2, <1>3 DEF RowsInv

LEMMA RefuseDimsRows == GridInv /\ RowsInv /\ Grid!RefuseDims /\ UNCHANGED vars => RowsInv'
BY DEF Grid!RefuseDims, Grid!Fail, RowsInv

LEMMA FillRows == GridInv /\ RowsInv /\ Grid!Fill /\ UNCHANGED vars => RowsInv'
<1> SUFFICES ASSUME GridInv, RowsInv, Grid!Fill, UNCHANGED vars PROVE RowsInv'
  OBVIOUS
<1> DEFINE d == Grid!BlockDims(Items)
           all == AllCells(request.xts)
<1>1. /\ gridPc = "dims" /\ gridPc' = "extend" /\ request' = request /\ scalars' = scalars
      /\ lookup' = lookup /\ Grid!DimsError(Items) = "none"
      /\ gridDims' = d /\ original' = d
  BY GridShares DEF Grid!Fill, Items
<1>2. /\ request \in Requests /\ request.xts \in Seq(Xts) /\ Items \in 0 .. U32Max
      /\ scalars = AllScalars(request.xts) /\ lookup = AllEntries(request.xts)
  BY <1>1, RequestsAre DEF RowsInv, GridInv, GridChosen
<1>3. d.rows \in Nat \ {0} /\ d.cols \in Nat \ {0}
  BY <1>1, <1>2, DimsHold
<1>4. evals' = [row \in 0 .. (d.rows - 1) |->
                  [col \in 0 .. (d.cols - 1) |->
                     LET k == row * d.cols + col + 1
                     IN  IF k <= Len(all) THEN all[k] ELSE Grid!Random]]
  <2>1. Grid!Flattened = all
    BY <1>2, IndexGives
  <2>2. evals' = [row \in 0 .. (gridDims'.rows - 1) |->
                    [col \in 0 .. (gridDims'.cols - 1) |->
                       LET k == row * gridDims'.cols + col + 1
                       IN  IF k <= Len(Grid!Flattened) THEN Grid!Flattened[k] ELSE Grid!Random]]
    BY DEF Grid!Fill
  <2> HIDE DEF d, all
  <2> QED BY <1>1, <2>1, <2>2, Zenon
<1>5. all \in Seq(Seq(Nat)) /\ Len(all) \in Nat
  BY <1>2, CellsAreThere, LenProperties
<1>6. original' # Grid!NoDims
  <2>1. Grid!NoDims.rows = 0
    BY DEF Grid!NoDims, Grid!Dimensions
  <2> HIDE DEF d
  <2> QED BY <1>1, <1>3, <2>1
<1> HIDE DEF d, all
<1>7. ASSUME NEW row \in 0 .. d.rows - 1, NEW col \in 0 .. d.cols - 1, row * d.cols + col < Len(all)
      PROVE  evals'[row * 1][col] = all[row * d.cols + col + 1]
  <2> DEFINE k == row * d.cols + col + 1
             p == row * d.cols
  <2>1. row * 1 = row
    OBVIOUS
  <2>2. evals'[row][col] = IF k <= Len(all) THEN all[k] ELSE Grid!Random
    BY <1>4
  <2>3. p \in Nat /\ col \in Nat /\ p + col < Len(all)
    <3>1. row \in Nat /\ d.cols \in Nat /\ col \in Nat
      BY <1>3
    <3>2. row * d.cols \in Nat
      BY <3>1
    <3> QED BY <1>7, <3>1, <3>2
  <2>4. k <= Len(all)
    <3> HIDE DEF p
    <3>1. p + col + 1 <= Len(all)
      BY <1>5, <2>3
    <3> QED BY <3>1 DEF p
  <2> QED BY <2>1, <2>2, <2>4
<1>8. Spread(1)'
  <2>1. d.rows = d.rows * 1
    BY <1>3
  <2>2. \A row \in 0 .. original'.rows - 1, col \in 0 .. original'.cols - 1 :
          row * original'.cols + col < Len(AllCells(request'.xts)) =>
            evals'[row * 1][col] = AllCells(request'.xts)[row * original'.cols + col + 1]
    BY <1>1, <1>7 DEF all
  <2>3. gridDims'.rows = original'.rows * 1 /\ gridDims'.cols = original'.cols
    BY <1>1, <2>1
  <2> QED BY <2>2, <2>3 DEF Spread
<1> QED BY <1>1, <1>2, <1>6, <1>8 DEF RowsInv

\* What is known of the grid as soon as it has dimensions.
LEMMA GridStands ==
  ASSUME GridInv, RowsInv, original # Grid!NoDims
  PROVE  /\ request.xts \in Seq(Xts) /\ request.factor \in Nat \ {0}
         /\ original.rows \in Nat \ {0} /\ original.cols \in Nat \ {0}
         /\ scalars = AllScalars(request.xts) /\ lookup = AllEntries(request.xts)
         /\ Len(AllCells(request.xts)) \in Nat
         /\ Len(AllCells(request.xts)) <= original.rows * original.cols
<1>1. request \in Requests /\ Items \in 0 .. U32Max
      /\ original = Grid!BlockDims(Items) /\ Grid!DimsError(Items) = "none"
  BY DEF GridInv, GridChosen
<1>2. request.xts \in Seq(Xts) /\ request.factor \in Nat \ {0}
  BY <1>1, FactorIs
<1>3. original.rows \in Nat \ {0} /\ original.cols \in Nat \ {0}
      /\ Items <= original.rows * original.cols
  BY <1>1, DimsHold
<1>4. scalars = AllScalars(request.xts) /\ lookup = AllEntries(request.xts)
  BY DEF RowsInv
<1>5. Items = Len(AllCells(request.xts))
  BY <1>2, <1>4, EntriesAre DEF Items
<1>6. Len(AllCells(request.xts)) \in Nat
  BY <1>2, CellsAreThere, LenProperties
<1> QED BY <1>2, <1>3, <1>4, <1>5, <1>6

LEMMA ExtendRows == GridInv /\ RowsInv /\ Grid!Extend /\ UNCHANGED vars => RowsInv'
<1> SUFFICES ASSUME GridInv, RowsInv, Grid!Extend, UNCHANGED vars PROVE RowsInv'
  OBVIOUS
<1> DEFINE R == original.rows
           C == original.cols
           f == request.factor
           all == AllCells(request.xts)
<1>1. /\ gridPc = "extend" /\ gridPc' = "rows" /\ request' = request /\ scalars' = scalars
      /\ lookup' = lookup /\ original' = original /\ original # Grid!NoDims
      /\ gridDims' = Grid!Extended
  BY DEF Grid!Extend, RowsInv
<1>2. f \in Nat \ {0} /\ R \in Nat \ {0} /\ C \in Nat \ {0}
  BY <1>1, GridStands
<1>3. /\ gridDims.rows = R /\ gridDims.cols = C
      /\ \A row \in 0 .. R - 1, col \in 0 .. C - 1 :
           row * C + col < Len(all) => evals[row][col] = all[row * C + col + 1]
  <2>1. gridDims.rows = R * 1 /\ gridDims.cols = C
    BY <1>1 DEF RowsInv, Spread
  <2>2. R * 1 = R
    BY <1>2
  <2>3. \A row \in 0 .. R - 1 : row * 1 = row
    OBVIOUS
  <2>4. \A row \in 0 .. R - 1, col \in 0 .. C - 1 :
           row * C + col < Len(all) => evals[row * 1][col] = all[row * C + col + 1]
    BY <1>1 DEF RowsInv, Spread
  <2> HIDE DEF R, C, all
  <2> QED BY <2>1, <2>2, <2>3, <2>4
<1>4. Grid!Extended.rows = R * f /\ Grid!Extended.cols = C
  BY <1>3 DEF Grid!Extended, Grid!Dimensions
<1>5. evals' = [row \in 0 .. (R * f - 1) |-> [col \in 0 .. (C - 1) |-> Grid!CodedCell(row, col)]]
  <2>1. evals' = [row \in 0 .. (Grid!Extended.rows - 1) |->
                    [col \in 0 .. (gridDims.cols - 1) |-> Grid!CodedCell(row, col)]]
    BY DEF Grid!Extend
  <2> HIDE DEF R, C, f
  <2> QED BY <1>3, <1>4, <2>1, Zenon
<1>6. \A row, col : row % f = 0 => Grid!CodedCell(row, col) = evals[row \div f][col]
  BY DEF Grid!CodedCell
<1>7. \A y \in 0 .. R - 1 : y * f \in 0 .. R * f - 1 /\ (y * f) \div f = y /\ (y * f) % f = 0
  BY <1>2, Multiplied
<1> HIDE DEF R, C, f, all
<1>8. ASSUME NEW row \in 0 .. R - 1, NEW col \in 0 .. C - 1, row * C + col < Len(all)
      PROVE  evals'[row * f][col] = all[row * C + col + 1]
  <2> DEFINE y == row * f
             top == R * f - 1
  <2>1. y \in 0 .. top /\ y \div f = row /\ y % f = 0
    BY <1>7
  <2>2. evals[row][col] = all[row * C + col + 1]
    BY <1>3, <1>8
  <2>3. evals' = [r \in 0 .. top |-> [c \in 0 .. C - 1 |-> Grid!CodedCell(r, c)]]
    BY <1>5
  <2> HIDE DEF y, top
  <2>4. evals'[y][col] = Grid!CodedCell(y, col)
    BY <2>1, <2>3
  <2>5. Grid!CodedCell(y, col) = evals[row][col]
    BY <1>6, <2>1
  <2> QED BY <2>2, <2>4, <2>5 DEF y
<1>9. Spread(request.factor)'
  <2>1. gridDims'.rows = original'.rows * request'.factor /\ gridDims'.cols = original'.cols
    BY <1>1, <1>4 DEF R, C, f
  <2>2. \A row \in 0 .. original'.rows - 1, col \in 0 .. original'.cols - 1 :
          row * original'.cols + col < Len(AllCells(request'.xts)) =>
            evals'[row * request'.factor][col]
              = AllCells(request'.xts)[row * original'.cols + col + 1]
    BY <1>1, <1>8 DEF R, C, f, all
  <2> QED BY <2>1, <2>2 DEF Spread
<1> QED BY <1>1, <1>9 DEF RowsInv

LEMMA RefuseExtendRows == GridInv /\ RowsInv /\ Grid!RefuseExtend /\ UNCHANGED vars => RowsInv'
<1> SUFFICES ASSUME GridInv, RowsInv, Grid!RefuseExtend, UNCHANGED vars PROVE RowsInv'
  OBVIOUS
<1>1. /\ gridPc = "extend" /\ gridPc' = "done" /\ request' = request /\ scalars' = scalars
      /\ lookup' = lookup /\ original' = original
      /\ gridReply' = Grid!Err(Grid!ExtendError) /\ Grid!ExtendError # "none"
  BY DEF Grid!RefuseExtend, Grid!Fail
<1>2. Grid!ExtendError \in {"CellLengthExceeded", "DomainSizeInvalid"}
  BY <1>1 DEF Grid!ExtendError
<1>3. NotExtended'
  BY <1>1, <1>2 DEF NotExtended, Grid!Err
<1> QED BY <1>1, <1>3 DEF RowsInv

\* The range of the application that is asked for, and the rows it is in.
LEMMA AskedIs ==
  ASSUME GridInv, RowsInv, gridPc = "rows", OriginalAsked, request.id \in AppsOf(request.xts)
  PROVE  /\ Grid!Divides /\ Grid!AppRange # Grid!NoRange
         /\ \E i \in 1 .. AppCount(request.xts) :
              /\ AppAt(request.xts, i) = request.id
              /\ Grid!StartY = FirstRow(i) /\ Grid!EndY = LastRow(i) /\ Grid!HMul = request.factor
              /\ Grid!EndY * Grid!HMul < gridDims.rows
<1> DEFINE R == original.rows
           C == original.cols
           f == request.factor
           N == AppCount(request.xts)
<1>1. original # Grid!NoDims /\ gridDims.rows = R * f /\ gridDims.cols = C
  BY DEF RowsInv, Spread
<1>2. /\ request.xts \in Seq(Xts) /\ f \in Nat \ {0} /\ R \in Nat \ {0} /\ C \in Nat \ {0}
      /\ lookup = AllEntries(request.xts)
      /\ Len(AllCells(request.xts)) \in Nat /\ Len(AllCells(request.xts)) <= R * C
  BY <1>1, GridStands
<1>3. Grid!OrigDims = original
  BY DEF OriginalAsked, Grid!OrigDims
<1>4. PICK i \in 1 .. N : AppAt(request.xts, i) = request.id
  BY <1>2, PartsAre
<1> DEFINE a == EndAt(request.xts, i - 1)
           b == EndAt(request.xts, i)
<1>5. a \in Nat /\ b \in Nat \ {0} /\ b <= Len(AllCells(request.xts))
  <2>1. N \in Nat /\ i - 1 \in 0 .. N /\ i \in 0 .. N
    BY <1>2, ScalarLensAre
  <2>2. a \in Nat /\ b \in Nat /\ b = a + ScalarLens(request.xts)[i]
        /\ ScalarLens(request.xts)[i] \in Nat \ {0} /\ b <= EndAt(request.xts, N)
    BY <1>2, <2>1, ScalarLensAre
  <2>3. EndAt(request.xts, N) = Len(AllCells(request.xts))
    BY <1>2, CellsAreThere
  <2> HIDE DEF a, b
  <2> QED BY <2>2, <2>3
<1>6. Grid!AppRange = Range32(a, b)
  <2>1. Grid!AppRange = RangeOf(lookup, request.id)
    BY GridSharesLookups, Zenon DEF Grid!AppRange
  <2>2. RangeOf(AllEntries(request.xts), AppAt(request.xts, i)) = Range32(a, b)
    BY <1>2, EntriesAre
  <2> QED BY <1>2, <1>4, <2>1, <2>2
<1> HIDE DEF a, b, R, C, f, N
<1>7. Grid!AppRange.start = a /\ Grid!AppRange.end = b /\ Grid!AppRange # Grid!NoRange
  <2>1. Grid!NoRange = Range32(-1, -1)
    BY GridSharesLookups DEF NoRange
  <2>2. Range32(a, b).start = a /\ Range32(a, b).end = b /\ Range32(-1, -1).start = -1
    BY DEF Range32
  <2>3. a # -1
    BY <1>5
  <2> QED BY <1>6, <2>1, <2>2, <2>3
<1>8. (R * f) \div R = f /\ (R * f) % R = 0
      /\ \A y \in 0 .. R - 1 : y * f \in 0 .. R * f - 1
  BY <1>2, Multiplied
<1>9. C % C = 0
  BY <1>2
<1>10. Grid!Divides
  BY <1>1, <1>3, <1>8, <1>9 DEF Grid!Divides, R, C
<1>11. Grid!HMul = f
  BY <1>1, <1>3, <1>8 DEF Grid!HMul, R
<1>12. Grid!StartY = a \div C
  BY <1>3, <1>7 DEF Grid!StartY, C
<1>13. Grid!EndY = (b - 1) \div C
  <2>1. Grid!EndY = Grid!Max({b - 1, 0}) \div C
    BY <1>3, <1>7 DEF Grid!EndY, C
  <2>2. Grid!Max({b - 1, 0}) = Max({b - 1, 0})
    BY GridShares, Zenon
  <2>3. b - 1 \in Nat
    BY <1>5
  <2>4. Max({b - 1, 0}) = b - 1
    <3> DEFINE m == b - 1
    <3>1. m \in Nat
      BY <2>3
    <3> HIDE DEF m
    <3>2. Max({m, 0}) = m
      BY <3>1, MaxIs
    <3> QED BY <3>2 DEF m
  <2> QED BY <2>1, <2>2, <2>4, Zenon
<1>14. (b - 1) \div C \in 0 .. R - 1
  <2> DEFINE m == b - 1
  <2>1. R * C \in Nat
    BY <1>2, Products
  <2> DEFINE s == R * C
  <2>2. s \in Nat /\ Len(AllCells(request.xts)) <= s
    BY <1>2, <2>1
  <2> HIDE DEF s
  <2>3. m \in Nat /\ m < s
    BY <1>2, <1>5, <2>2
  <2> HIDE DEF m
  <2>4. m \div C \in 0 .. R - 1
    BY <1>2, <2>3, CellIs DEF s
  <2> QED BY <2>4 DEF m
<1>15. Grid!EndY * Grid!HMul < gridDims.rows
  <2> DEFINE y == (b - 1) \div C
             q == y * f
             p == R * f
  <2>1. q \in 0 .. p - 1
    BY <1>8, <1>14
  <2>2. Grid!EndY * Grid!HMul = q /\ gridDims.rows = p
    BY <1>1, <1>11, <1>13 DEF R, f
  <2>3. p \in Nat
    BY <1>2, Products
  <2> HIDE DEF q, p
  <2>4. q < p
    BY <2>1, <2>3
  <2> QED BY <2>2, <2>4
<1>16. Grid!StartY = FirstRow(i) /\ Grid!EndY = LastRow(i)
  BY <1>12, <1>13 DEF FirstRow, LastRow, a, b, C
<1> QED BY <1>4, <1>7, <1>10, <1>11, <1>15, <1>16 DEF f, N

LEMMA RefuseRowsRows == GridInv /\ RowsInv /\ Grid!RefuseRows /\ UNCHANGED vars => RowsInv'
<1> SUFFICES ASSUME GridInv, RowsInv, Grid!RefuseRows, UNCHANGED vars PROVE RowsInv'
  OBVIOUS
<1>1. /\ gridPc = "rows" /\ gridPc' = "done" /\ request' = request /\ scalars' = scalars
      /\ lookup' = lookup /\ original' = original /\ gridDims' = gridDims /\ evals' = evals
      /\ ~Grid!Divides \/ Grid!AppRange = Grid!NoRange
  BY DEF Grid!RefuseRows, Grid!Fail
<1>2. ~(OriginalAsked /\ request.id \in AppsOf(request.xts))
  BY <1>1, AskedIs
<1>3. Spread(request.factor)'
  BY <1>1 DEF RowsInv, Spread
<1>4. OriginalAsked' <=> OriginalAsked
  BY <1>1 DEF OriginalAsked
<1>5. Answered'
  BY <1>1, <1>2, <1>4 DEF Answered
<1> QED BY <1>1, <1>3, <1>5 DEF RowsInv

LEMMA AppRowsRows == GridInv /\ RowsInv /\ Grid!AppRows /\ UNCHANGED vars => RowsInv'
<1> SUFFICES ASSUME GridInv, RowsInv, Grid!AppRows, UNCHANGED vars PROVE RowsInv'
  OBVIOUS
<1>1. /\ gridPc = "rows" /\ gridPc' = "done" /\ request' = request /\ scalars' = scalars
      /\ lookup' = lookup /\ original' = original /\ gridDims' = gridDims /\ evals' = evals
  BY DEF Grid!AppRows
<1>2. Spread(request.factor)'
  BY <1>1 DEF RowsInv, Spread
<1>3. OriginalAsked' <=> OriginalAsked
  BY <1>1 DEF OriginalAsked
<1>4. ASSUME OriginalAsked, request.id \in AppsOf(request.xts)
      PROVE  \E i \in 1 .. AppCount(request'.xts) :
               AppAt(request'.xts, i) = request'.id /\ gridReply' = AnswerAbout(i)'
  <2>1. PICK i \in 1 .. AppCount(request.xts) :
          /\ AppAt(request.xts, i) = request.id
          /\ Grid!StartY = FirstRow(i) /\ Grid!EndY = LastRow(i) /\ Grid!HMul = request.factor
          /\ Grid!EndY * Grid!HMul < gridDims.rows
    BY <1>1, <1>4, AskedIs
  <2>2. gridReply' = Grid!Ok([k \in 1 .. (Grid!EndY - Grid!StartY + 1) |->
                       LET y == (Grid!StartY + k - 1) * Grid!HMul
                       IN  [index |-> y, row |-> evals[y]]])
    BY <2>1 DEF Grid!AppRows
  <2>3. gridReply' = AnswerAbout(i)
    BY <2>1, <2>2 DEF Grid!Ok, AnswerAbout
  <2>4. AnswerAbout(i)' = AnswerAbout(i)
    BY <1>1 DEF AnswerAbout, FirstRow, LastRow
  <2> QED BY <1>1, <2>1, <2>3, <2>4
<1>5. Answered'
  BY <1>1, <1>3, <1>4 DEF Answered
<1> QED BY <1>1, <1>2, <1>5 DEF RowsInv

LEMMA RowsStep == GridInv /\ RowsInv /\ Grid!Next /\ UNCHANGED vars => RowsInv'
BY GroupRows, EncodedRows, IndexRows, RefuseDimsRows, FillRows, ExtendRows, RefuseExtendRows,
   RefuseRowsRows, AppRowsRows DEF Grid!Next

LEMMA RowsStutter == RowsInv /\ request' = request /\ UNCHANGED gridVars => RowsInv'
<1> SUFFICES ASSUME RowsInv, request' = request, UNCHANGED gridVars PROVE RowsInv'
  OBVIOUS
<1>1. /\ gridPc' = gridPc /\ scalars' = scalars /\ lookup' = lookup /\ original' = original
      /\ gridDims' = gridDims /\ evals' = evals /\ gridReply' = gridReply
      /\ gridXts' = gridXts /\ grouped' = grouped
  BY DEF gridVars
<1>2. (Spread(1)' <=> Spread(1)) /\ (Spread(request.factor)' <=> Spread(request.factor))
  BY <1>1 DEF Spread
<1>3. \A i : AnswerAbout(i)' = AnswerAbout(i)
  BY <1>1 DEF AnswerAbout, FirstRow, LastRow
<1>4. (Answered' <=> Answered) /\ (NotExtended' <=> NotExtended)
  BY <1>1, <1>3 DEF Answered, NotExtended, OriginalAsked
<1> QED BY <1>1, <1>2, <1>4 DEF RowsInv

\* A range of cells over rows of C: the first row, the last, and what is before
\* and behind the range in them.
LEMMA Spanning ==
  ASSUME NEW a \in Nat, NEW b \in Nat, a < b, NEW C \in Nat \ {0}, NEW R \in Nat \ {0},
         b <= R * C
  PROVE  LET first == a \div C
             last == (b - 1) \div C
             n == last - first + 1
             before == a - first * C
         IN  /\ first \in Nat /\ last \in 0 .. R - 1 /\ first <= last /\ n \in Nat \ {0}
             /\ before \in 0 .. C - 1
             /\ n * C \in Nat /\ n * C - before - (b - a) \in 0 .. C - 1
             /\ a = first * C + before
<1> DEFINE first == a \div C
           last == (b - 1) \div C
           n == last - first + 1
           before == a - first * C
           rest == (b - 1) % C
           p == first * C
           q == last * C
           s == R * C
<1>1. s \in Nat
  BY Products
<1>2. a < s /\ b - 1 < s /\ b - 1 \in Nat /\ b <= s
  <2>1. b <= s
    OBVIOUS
  <2> HIDE DEF s
  <2> QED BY <1>1, <2>1
<1>3. first \in 0 .. R - 1 /\ a % C \in 0 .. C - 1 /\ a = p + (a % C)
  BY <1>2, CellIs
<1>4. last \in 0 .. R - 1 /\ rest \in 0 .. C - 1 /\ b - 1 = q + rest
  <2> DEFINE m == b - 1
  <2>1. m \in Nat /\ m < s /\ last = m \div C /\ rest = m % C
    BY <1>2
  <2> HIDE DEF m, rest
  <2>2. m \div C \in 0 .. R - 1 /\ m % C \in 0 .. C - 1 /\ m = (m \div C) * C + (m % C)
    BY <2>1, CellIs
  <2>3. last \in 0 .. R - 1 /\ rest \in 0 .. C - 1 /\ m = last * C + rest
    BY <2>1, <2>2, Zenon
  <2> QED BY <2>3 DEF m
<1>5. first \in Nat /\ last \in Nat /\ p \in Nat /\ q \in Nat
  BY <1>3, <1>4, Products
<1>6. before = a % C /\ before \in 0 .. C - 1 /\ a = p + before
  <2>1. before = a - p
    OBVIOUS
  <2> HIDE DEF p
  <2> QED BY <1>3, <1>5, <2>1
<1>7. first <= last
  <2>1. SUFFICES ASSUME last < first PROVE FALSE
    BY <1>5
  <2>2. last + 1 \in Nat /\ last + 1 <= first
    BY <1>5, <2>1
  <2>3. C * (last + 1) <= C * first /\ C * first = p
    BY <1>5, <2>2, Products
  <2>4. C * (last + 1) = q + C
    BY <1>5
  <2> DEFINE u == C * (last + 1)
             v == C * first
  <2>5. u <= v /\ v = p /\ u = q + C
    BY <2>3, <2>4
  <2> HIDE DEF p, q, rest, u, v
  <2>6. q + C <= p
    BY <1>5, <2>5
  <2> QED BY <1>4, <1>5, <1>6, <2>6
<1>8. n \in Nat \ {0} /\ n * C = q - p + C
  <2>1. n \in Nat \ {0}
    BY <1>5, <1>7
  <2>2. n * C = (last - first + 1) * C
    OBVIOUS
  <2>3. (last - first + 1) * C = last * C - first * C + C
    BY <1>5
  <2> QED BY <2>1, <2>2, <2>3
<1> DEFINE w == n * C
<1>9. w \in Nat /\ w - before - (b - a) \in 0 .. C - 1
  <2>1. w = q - p + C
    BY <1>8
  <2>2. w \in Nat
    BY <1>8, Products
  <2> HIDE DEF w, p, q, rest
  <2>3. w - before - (b - a) = C - 1 - rest
    BY <1>4, <1>5, <1>6, <2>1
  <2> QED BY <1>4, <2>2, <2>3
<1> QED BY <1>3, <1>4, <1>5, <1>6, <1>7, <1>8, <1>9

\* The j-th cell of such a range is somewhere in its rows.
IsPlaced(a, b, C, R, j) ==
  LET first == a \div C
      last == (b - 1) \div C
  IN  \E q \in 0 .. last - first, c \in 0 .. C - 1 :
        /\ first + q \in 0 .. R - 1
        /\ a - first * C + j = q * C + c + 1
        /\ (first + q) * C + c = a + j - 1

LEMMA InRows ==
  ASSUME NEW a \in Nat, NEW b \in Nat, a < b, NEW C \in Nat \ {0}, NEW R \in Nat \ {0},
         b <= R * C,
         NEW j \in 1 .. b - a
  PROVE  IsPlaced(a, b, C, R, j)
<1> DEFINE first == a \div C
           last == (b - 1) \div C
           n == last - first + 1
           before == a - first * C
           m == before + j - 1
           w == n * C
           q == m \div C
           c == m % C
<1>1. /\ first \in Nat /\ last \in 0 .. R - 1 /\ first <= last /\ n \in Nat \ {0}
      /\ before \in 0 .. C - 1 /\ w \in Nat /\ w - before - (b - a) \in 0 .. C - 1
      /\ a = first * C + before
  <2>1. b <= R * C /\ a < b
    OBVIOUS
  <2> HIDE DEF m, q, c
  <2>2. /\ first \in Nat /\ last \in 0 .. R - 1 /\ first <= last /\ n \in Nat \ {0}
        /\ before \in 0 .. C - 1
        /\ n * C \in Nat /\ n * C - before - (b - a) \in 0 .. C - 1
        /\ a = first * C + before
    BY <2>1, Spanning, Zenon
  <2> QED BY <2>2 DEF w
<1>2. m \in Nat /\ m < w /\ m + 1 = before + j
  <2> HIDE DEF w
  <2> QED BY <1>1
<1> HIDE DEF m
<1>3. q \in 0 .. n - 1 /\ c \in 0 .. C - 1 /\ m = q * C + c
  <2>1. n \in Nat
    BY <1>1
  <2> QED BY <1>2, <2>1, CellIs DEF w
<1> HIDE DEF q, c, w
<1>4. first + q \in 0 .. R - 1
  BY <1>1, <1>3
<1>5. before + j = q * C + c + 1
  <2> DEFINE p == q * C
  <2>1. q \in Nat
    BY <1>1, <1>3
  <2>2. p \in Nat
    BY <2>1, Products
  <2>3. m = p + c
    BY <1>3
  <2> HIDE DEF p
  <2>4. before + j = p + c + 1
    BY <1>2, <1>3, <2>2, <2>3
  <2> QED BY <2>4 DEF p
<1>6. (first + q) * C + c = a + j - 1
  <2>1. q \in Nat
    BY <1>1, <1>3
  <2>2. (first + q) * C = first * C + q * C
    BY <1>1, <2>1
  <2> DEFINE u == first * C
             v == q * C
  <2>3. u \in Nat /\ v \in Nat
    BY <1>1, <2>1, Products
  <2>4. a = u + before /\ m = v + c
    BY <1>1, <1>3
  <2> HIDE DEF u, v
  <2>5. u + v + c = a + j - 1
    BY <1>1, <1>2, <1>3, <2>3, <2>4
  <2> QED BY <2>2, <2>5 DEF u, v
<1>7. q \in 0 .. last - first
  <2>1. last \in Int /\ first \in Int
    BY <1>1
  <2> HIDE DEF first, last
  <2> QED BY <1>3, <2>1
<1> HIDE DEF first, last
<1>8. \E u \in 0 .. last - first, v \in 0 .. C - 1 :
        /\ first + u \in 0 .. R - 1
        /\ a - first * C + j = u * C + v + 1
        /\ (first + u) * C + v = a + j - 1
  BY <1>3, <1>4, <1>5, <1>6, <1>7
<1> QED BY <1>8, Zenon DEF IsPlaced, first, last

\* The rows that are returned about the i-th application, and their cells one
\* after the other.
RowsRead(i) ==
  [k \in 1 .. LastRow(i) - FirstRow(i) + 1 |->
     [col \in 1 .. original.cols |-> evals[(FirstRow(i) + k - 1) * request.factor][col - 1]]]
CellsRead(i) == FlattenSeq(RowsRead(i))
CellsBefore(i) == EndAt(request.xts, i - 1) - FirstRow(i) * original.cols
CellCount(i) == EndAt(request.xts, i) - EndAt(request.xts, i - 1)

\* The cells of an application in the one row of all scalars.
LEMMA RangeFits ==
  ASSUME GridInv, RowsInv, original # Grid!NoDims, NEW i \in 1 .. AppCount(request.xts)
  PROVE  /\ EndAt(request.xts, i - 1) \in Nat /\ EndAt(request.xts, i) \in Nat
         /\ EndAt(request.xts, i - 1) < EndAt(request.xts, i)
         /\ EndAt(request.xts, i) <= original.rows * original.cols
         /\ EndAt(request.xts, i) <= Len(AllCells(request.xts))
         /\ Len(ScalarsAt(request.xts, i)) = CellCount(i)
         /\ \A j \in 1 .. CellCount(i) :
              AllCells(request.xts)[EndAt(request.xts, i - 1) + j] = ScalarsAt(request.xts, i)[j]
<1> DEFINE N == AppCount(request.xts)
           a == EndAt(request.xts, i - 1)
           b == EndAt(request.xts, i)
           len == ScalarLens(request.xts)[i]
           count == Len(AllCells(request.xts))
           s == original.rows * original.cols
<1>1. request.xts \in Seq(Xts) /\ count \in Nat /\ count <= s /\ s \in Nat
  <2>1. original.rows \in Nat /\ original.cols \in Nat
    BY GridStands
  <2>2. s \in Nat
    BY <2>1
  <2> QED BY <2>2, GridStands
<1>2. N \in Nat /\ i - 1 \in 0 .. N /\ i \in 0 .. N
  BY <1>1, ScalarLensAre
<1>3. a \in Nat /\ b \in Nat /\ b = a + len /\ len \in Nat \ {0} /\ b <= EndAt(request.xts, N)
      /\ len = Len(ScalarsAt(request.xts, i))
  BY <1>1, <1>2, ScalarLensAre
<1>4. EndAt(request.xts, N) = count
  BY <1>1, CellsAreThere
<1>5. \A j \in 1 .. len : AllCells(request.xts)[a + j] = ScalarsAt(request.xts, i)[j]
  BY <1>1, CellsAreThere
<1>6. CellCount(i) = b - a
  BY DEF CellCount
<1> HIDE DEF a, b, len, count, s
<1>7. b - a = len /\ a < b /\ b <= count /\ b <= s
  BY <1>1, <1>3, <1>4
<1> QED BY <1>3, <1>5, <1>6, <1>7 DEF a, b, count, s

\* Row by row and column by column they are what the grid has.
LEMMA ReadIs ==
  ASSUME GridInv, RowsInv, original # Grid!NoDims, NEW i \in 1 .. AppCount(request.xts)
  PROVE  /\ CellsBefore(i) \in 0 .. original.cols - 1
         /\ Len(CellsRead(i)) \in Nat
         /\ Len(CellsRead(i)) - CellsBefore(i) - CellCount(i) \in 0 .. original.cols - 1
         /\ \A q \in 0 .. LastRow(i) - FirstRow(i), c \in 0 .. original.cols - 1 :
              CellsRead(i)[q * original.cols + c + 1]
                = evals[(FirstRow(i) + q) * request.factor][c]
<1> DEFINE a == EndAt(request.xts, i - 1)
           b == EndAt(request.xts, i)
           C == original.cols
           R == original.rows
           f == request.factor
           first == FirstRow(i)
           last == LastRow(i)
           n == last - first + 1
           before == CellsBefore(i)
           At(k, col) == evals[(first + k - 1) * f][col - 1]
           S == {At(k, col) : k \in 1 .. n, col \in 1 .. C}
           Line(k) == [col \in 1 .. C |-> At(k, col)]
           rows == RowsRead(i)
           cells == CellsRead(i)
<1>1. C \in Nat \ {0} /\ R \in Nat \ {0} /\ f \in Nat \ {0}
  BY GridStands
<1>2. a \in Nat /\ b \in Nat /\ a < b /\ b <= R * C
  BY RangeFits
<1>3. /\ first \in Nat /\ last \in Nat /\ first <= last /\ n \in Nat \ {0}
      /\ before \in 0 .. C - 1
      /\ n * C \in Nat /\ n * C - before - (b - a) \in 0 .. C - 1
  <2> DEFINE x == a \div C
             y == (b - 1) \div C
             z == a - x * C
             m == y - x + 1
  <2>1. first = x /\ last = y
    BY DEF FirstRow, LastRow
  <2>2. before = z
    BY <2>1 DEF CellsBefore
  <2> HIDE DEF a, b, C, R
  <2>3. /\ x \in Nat /\ y \in 0 .. R - 1 /\ x <= y /\ m \in Nat \ {0}
        /\ z \in 0 .. C - 1
        /\ m * C \in Nat /\ m * C - z - (b - a) \in 0 .. C - 1
    BY <1>1, <1>2, Spanning, Zenon
  <2> HIDE DEF x, y, z, first, last, before
  <2>4. y \in Nat
    BY <1>1, <2>3
  <2> QED BY <2>1, <2>2, <2>3, <2>4
<1>4. rows = [k \in 1 .. n |-> Line(k)]
  BY DEF RowsRead
<1>5. cells = FlattenSeq(rows)
  BY DEF CellsRead
<1>6. CellCount(i) = b - a
  BY DEF CellCount
<1>7. \A k \in 1 .. n, col \in 1 .. C : At(k, col) \in S
  OBVIOUS
<1> HIDE DEF a, b, C, R, f, first, last, n, before, rows, cells
<1>8. ASSUME NEW k \in 1 .. n
      PROVE  Line(k) \in Seq(S) /\ Len(Line(k)) = C /\ \A col \in 1 .. C : Line(k)[col] = At(k, col)
  <2> DEFINE row == Line(k)
  <2> HIDE DEF S, At
  <2>1. row \in [1 .. C -> S] /\ \A col \in 1 .. C : row[col] = At(k, col)
    BY <1>7
  <2> HIDE DEF row
  <2>2. row \in Seq(S) /\ Len(row) = C
    BY <1>1, <2>1, FunctionIsSeq
  <2> QED BY <2>1, <2>2 DEF row
<1> HIDE DEF Line, S, At
<1>9. rows \in Seq(Seq(S)) /\ Len(rows) = n /\ \A k \in 1 .. n : rows[k] = Line(k)
  <2>1. rows \in [1 .. n -> Seq(S)] /\ \A k \in 1 .. n : rows[k] = Line(k)
    BY <1>4, <1>8
  <2> QED BY <1>3, <2>1, FunctionIsSeq
<1>10. \A k \in 1 .. Len(rows) : Len(rows[k]) = C
  BY <1>8, <1>9
<1>11. Len(cells) = n * C
  <2>1. Len(FlattenSeq(rows)) = Len(rows) * C
    BY <1>1, <1>9, <1>10, FlattenLength
  <2> QED BY <1>5, <1>9, <2>1
<1>12. \A k \in 1 .. n, j \in 1 .. C : cells[(k - 1) * C + j] = At(k, j)
  <2>1. \A k \in 1 .. Len(rows), j \in 1 .. C : FlattenSeq(rows)[(k - 1) * C + j] = rows[k][j]
    BY <1>1, <1>9, <1>10, FlattenEqual
  <2> TAKE k \in 1 .. n, j \in 1 .. C
  <2>2. FlattenSeq(rows)[(k - 1) * C + j] = rows[k][j]
    BY <1>9, <2>1
  <2>3. rows[k] = Line(k) /\ Line(k)[j] = At(k, j)
    BY <1>8, <1>9
  <2> QED BY <1>5, <2>2, <2>3, Zenon
<1>13. ASSUME NEW q \in 0 .. last - first, NEW c \in 0 .. C - 1
       PROVE  cells[q * C + c + 1] = evals[(first + q) * f][c]
  <2> DEFINE k == q + 1
             j == c + 1
  <2>1. k \in 1 .. n /\ j \in 1 .. C
    BY <1>1, <1>3 DEF n
  <2>2. cells[(k - 1) * C + j] = At(k, j)
    BY <1>12, <2>1
  <2>3. k - 1 = q /\ first + k - 1 = first + q /\ j - 1 = c
    BY <1>3
  <2>4. q * C \in Nat
    BY <1>1
  <2> DEFINE p == q * C
  <2>5. p + j = p + c + 1
    <3>1. p \in Nat
      BY <2>4
    <3> HIDE DEF p
    <3> QED BY <3>1
  <2>6. At(k, j) = evals[(first + q) * f][c]
    BY <2>3 DEF At
  <2>7. (k - 1) * C + j = q * C + c + 1
    <3>1. (k - 1) * C = p
      BY <2>3, Zenon
    <3> HIDE DEF k, j
    <3> QED BY <2>5, <3>1, Zenon DEF p
  <2> QED BY <2>2, <2>6, <2>7
<1>14. Len(cells) \in Nat /\ Len(cells) - before - CellCount(i) \in 0 .. C - 1
  BY <1>3, <1>6, <1>11
<1> QED BY <1>3, <1>13, <1>14 DEF cells, C, f, first, last, before

\* So the part of them that the lookup names holds the scalars of the application.
LEMMA ReadHolds ==
  ASSUME GridInv, RowsInv, original # Grid!NoDims, Spread(request.factor),
         NEW i \in 1 .. AppCount(request.xts)
  PROVE  SubSeq(CellsRead(i), CellsBefore(i) + 1, CellsBefore(i) + CellCount(i)) = ScalarsAt(request.xts, i)
<1> DEFINE a == EndAt(request.xts, i - 1)
           b == EndAt(request.xts, i)
           C == original.cols
           R == original.rows
           f == request.factor
           first == FirstRow(i)
           last == LastRow(i)
           before == CellsBefore(i)
           n == CellCount(i)
           all == AllCells(request.xts)
           own == ScalarsAt(request.xts, i)
           cells == CellsRead(i)
<1>1. C \in Nat \ {0} /\ R \in Nat \ {0} /\ request.xts \in Seq(Xts) /\ Len(all) \in Nat
  BY GridStands
<1>2. /\ a \in Nat /\ b \in Nat /\ a < b /\ b <= R * C /\ b <= Len(all)
      /\ Len(own) = n /\ \A j \in 1 .. n : all[a + j] = own[j]
  BY RangeFits
<1>3. /\ before \in 0 .. C - 1
      /\ \A q \in 0 .. last - first, c \in 0 .. C - 1 :
           cells[q * C + c + 1] = evals[(first + q) * f][c]
  BY ReadIs
<1>4. \A row \in 0 .. R - 1, col \in 0 .. C - 1 :
        row * C + col < Len(all) => evals[row * f][col] = all[row * C + col + 1]
  BY DEF Spread
<1>5. own \in Seq(Seq(Nat))
  BY <1>1, ScalarsAtAre
<1>6. n = b - a
  BY DEF CellCount
<1>7. first = a \div C /\ last = (b - 1) \div C /\ before = a - first * C
  BY DEF FirstRow, LastRow, CellsBefore
<1> HIDE DEF a, b, C, R, f, first, last, before, n, all, own, cells
<1>8. ASSUME NEW j \in 1 .. n PROVE cells[before + j] = own[j]
  <2>1. IsPlaced(a, b, C, R, j)
    <3>1. j \in 1 .. b - a
      BY <1>6
    <3>2. a \in Nat /\ b \in Nat /\ a < b /\ b <= R * C
      BY <1>2
    <3>3. C \in Nat \ {0} /\ R \in Nat \ {0}
      BY <1>1
    <3> QED BY <3>1, <3>2, <3>3, InRows
  <2>5. PICK q \in 0 .. last - first, c \in 0 .. C - 1 :
          /\ first + q \in 0 .. R - 1
          /\ before + j = q * C + c + 1
          /\ (first + q) * C + c = a + j - 1
    BY <1>7, <2>1, Zenon DEF IsPlaced
  <2>6. cells[before + j] = evals[(first + q) * f][c]
    BY <1>3, <2>5
  <2>7. a + j - 1 < Len(all) /\ a + j - 1 + 1 = a + j
    BY <1>1, <1>2, <1>6
  <2> DEFINE row == first + q
             p == row * C
  <2>8. row \in 0 .. R - 1 /\ p + c = a + j - 1
    BY <2>5
  <2>9. p + c < Len(all) => evals[row * f][c] = all[p + c + 1]
    BY <1>4, <2>8
  <2>10. p \in Nat /\ c \in Nat
    <3>1. row \in Nat /\ C \in Nat /\ c \in Nat
      BY <1>1, <2>8
    <3> HIDE DEF row
    <3> QED BY <3>1
  <2>11. evals[row * f][c] = all[a + j]
    <3> HIDE DEF p, row
    <3>1. p + c + 1 = a + j
      BY <1>2, <2>8, <2>10
    <3> QED BY <2>7, <2>8, <2>9, <3>1
  <2> QED BY <1>2, <2>6, <2>11
<1> DEFINE part == SubSeq(cells, before + 1, before + n)
<1>9. part \in Seq(Seq(Nat)) /\ Len(part) = n /\ \A j \in 1 .. n : part[j] = cells[before + j]
  <2> DEFINE from == before + 1
             to == before + n
  <2>1. from \in Int /\ to \in Int /\ from <= to /\ to - from + 1 = n /\ before \in Nat
        /\ \A j \in 1 .. n : from + j - 1 = before + j
    BY <1>1, <1>2, <1>3, <1>6
  <2>2. \A k \in from .. to : cells[k] \in Seq(Nat)
    <3> TAKE k \in from .. to
    <3>1. k - before \in 1 .. n /\ before + (k - before) = k
      BY <2>1
    <3>2. own[k - before] \in Seq(Nat)
      BY <1>2, <1>5, <3>1, ElementOfSeq
    <3>3. cells[before + (k - before)] = own[k - before]
      BY <1>8, <3>1
    <3> QED BY <3>1, <3>2, <3>3
  <2> HIDE DEF from, to
  <2>3. /\ SubSeq(cells, from, to) \in Seq(Seq(Nat))
        /\ Len(SubSeq(cells, from, to)) = to - from + 1
        /\ \A k \in 1 .. to - from + 1 : SubSeq(cells, from, to)[k] = cells[from + k - 1]
    BY <2>1, <2>2, SubSeqProperties
  <2>4. part = SubSeq(cells, from, to)
    BY DEF from, to
  <2> HIDE DEF part
  <2> QED BY <2>1, <2>3, <2>4
<1> HIDE DEF part
<1>10. part = own
  BY <1>2, <1>5, <1>8, <1>9, SeqEqual
<1> QED BY <1>10 DEF part, cells, before, n, own

\* What was submitted for the i-th application, as its scalars encode it.
LEMMA SubmittedAt ==
  ASSUME NEW i \in 1 .. AppCount(request.xts), request.xts \in Seq(Xts)
  PROVE  /\ Encode(Grid!Submitted(AppAt(request.xts, i))) = EncodedAt(request.xts, i)
         /\ \E more \in Nat :
              Grid!DataOf(ScalarsAt(request.xts, i)) = EncodedAt(request.xts, i) \o Zeroes(more)
<1> DEFINE own == ScalarsAt(request.xts, i)
           encoded == EncodedAt(request.xts, i)
           app == AppAt(request.xts, i)
           slices == [k \in 1 .. Len(own) |-> SubSeq(own[k], 1, DATA_CHUNK_SIZE)]
<1>1. encoded \in Seq(Nat) /\ encoded # << >> /\ own \in Seq(Seq(Nat))
  BY ScalarsAtAre
<1>2. Encode(Grid!Submitted(app)) = encoded
  <2>1. Sorted(request.xts)[i] = Of(request.xts, app)
    BY PartsAre
  <2>2. Grid!Of(request.xts, app) = Of(request.xts, app)
    BY GridSharesLookups, Zenon
  <2>3. Grid!Submitted(app) = DatasOf(Of(request.xts, app))
    BY <2>2, Zenon DEF Grid!Submitted, DatasOf
  <2> QED BY <2>1, <2>3, Zenon DEF EncodedAt
<1>3. slices = DataSlices(encoded, SCALAR_SIZE)
  BY <1>1, ScalarsAre DEF ScalarsAt
<1>4. Grid!DataOf(own) = FlattenSeq(slices)
  <2> HIDE DEF own
  <2>1. DOMAIN own = 1 .. Len(own)
    BY <1>1, LenProperties
  <2>2. [k \in DOMAIN own |-> SubSeq(own[k], 1, DATA_CHUNK_SIZE)] = slices
    BY <2>1, Zenon
  <2> QED BY <2>2, GridSharesLookups, Zenon DEF Grid!DataOf
<1>5. \E more \in Nat : FlattenSeq(DataSlices(encoded, SCALAR_SIZE)) = encoded \o Zeroes(more)
  <2>1. SCALAR_SIZE \in Nat /\ DATA_CHUNK_SIZE <= SCALAR_SIZE
    BY ChunkAssumption
  <2> HIDE DEF encoded
  <2> QED BY <1>1, <2>1, DataSlicesFlatten
<1>6. \E more \in Nat : Grid!DataOf(own) = encoded \o Zeroes(more)
  <2> HIDE DEF own, encoded, slices
  <2> QED BY <1>3, <1>4, <1>5, Zenon
<1> QED BY <1>2, <1>6

\* What the answer about the i-th application is read as.
LEMMA AnswerIs ==
  ASSUME GridInv, RowsInv, original # Grid!NoDims, NEW i \in 1 .. AppCount(request.xts),
         gridReply = AnswerAbout(i)
  PROVE  /\ gridReply.err = "none"
         /\ gridReply.rows[1].index \div request.factor = FirstRow(i)
         /\ Grid!FlattenSeq([k \in DOMAIN gridReply.rows |->
              [col \in 1 .. original.cols |-> gridReply.rows[k].row[col - 1]]]) = CellsRead(i)
<1> DEFINE n == LastRow(i) - FirstRow(i) + 1
           f == request.factor
           first == FirstRow(i)
           At(k) == (first + k - 1) * f
<1>1. /\ gridReply.err = "none"
      /\ gridReply.rows = [k \in 1 .. n |-> [index |-> At(k), row |-> evals[At(k)]]]
  BY DEF AnswerAbout
<1>2. first \in 0 .. original.rows - 1 /\ n \in Nat \ {0} /\ f \in Nat \ {0}
      /\ original.rows \in Nat \ {0}
  <2> DEFINE a == EndAt(request.xts, i - 1)
             b == EndAt(request.xts, i)
             C == original.cols
             R == original.rows
  <2>1. C \in Nat \ {0} /\ R \in Nat \ {0} /\ f \in Nat \ {0}
    BY GridStands
  <2>2. a \in Nat /\ b \in Nat /\ a < b /\ b <= R * C
    BY RangeFits
  <2>3. first = a \div C /\ LastRow(i) = (b - 1) \div C
    BY DEF FirstRow, LastRow
  <2> HIDE DEF a, b, C, R, f, first
  <2>4. /\ a \div C \in Nat /\ (b - 1) \div C \in 0 .. R - 1 /\ a \div C <= (b - 1) \div C
        /\ (b - 1) \div C - a \div C + 1 \in Nat \ {0}
    BY <2>1, <2>2, Spanning
  <2> DEFINE x == a \div C
             y == (b - 1) \div C
  <2>5. first = x /\ n = y - x + 1 /\ x \in Nat /\ y \in 0 .. R - 1 /\ x <= y
    BY <2>3, <2>4 DEF first
  <2> HIDE DEF x, y, n
  <2>6. first \in 0 .. R - 1 /\ n \in Nat \ {0}
    BY <2>1, <2>5
  <2> QED BY <2>1, <2>6 DEF R, f
<1>3. gridReply.rows[1].index \div f = first
  <2> HIDE DEF n, first, f
  <2>1. 1 \in 1 .. n /\ first + 1 - 1 = first
    BY <1>2
  <2>2. gridReply.rows[1].index = first * f
    BY <1>1, <2>1
  <2>3. (first * f) \div f = first
    BY <1>2, Multiplied
  <2> QED BY <2>2, <2>3, Zenon
<1>4. [k \in DOMAIN gridReply.rows |->
         [col \in 1 .. original.cols |-> gridReply.rows[k].row[col - 1]]] = RowsRead(i)
  <2> HIDE DEF At
  <2>1. [k \in DOMAIN gridReply.rows |->
           [col \in 1 .. original.cols |-> gridReply.rows[k].row[col - 1]]]
          = [k \in 1 .. n |-> [col \in 1 .. original.cols |-> evals[At(k)][col - 1]]]
    BY <1>1
  <2> QED BY <2>1, Zenon DEF RowsRead, At, n, first, f
<1> QED BY <1>1, <1>3, <1>4, GridSharesLookups, Zenon DEF CellsRead

LEMMA RowsAreHeld == GridInv /\ RowsInv => AppRowsHoldTheApp
<1> SUFFICES ASSUME GridInv, RowsInv, gridPc = "done", original # Grid!NoDims,
                    Grid!OrigDims = original, request.id \in Grid!Apps,
                    gridReply.err \notin {"CellLengthExceeded", "DomainSizeInvalid"}
             PROVE  /\ gridReply.err = "none"
                    /\ LET width == original.cols
                           cells == Grid!FlattenSeq([k \in DOMAIN gridReply.rows |->
                                      [col \in 1 .. width |-> gridReply.rows[k].row[col - 1]]])
                           before == Grid!AppRange.start
                                       - (gridReply.rows[1].index \div request.factor) * width
                           count == Grid!AppRange.end - Grid!AppRange.start
                       IN  /\ before \in 0 .. (width - 1)
                           /\ Len(cells) - before - count \in 0 .. (width - 1)
                           /\ Grid!IsPrefix(Grid!Encode(Grid!Submitted(request.id)),
                                Grid!DataOf(SubSeq(cells, before + 1, before + count)))
  BY Zenon DEF AppRowsHoldTheApp, Grid!AppRowsHoldTheApp
<1>1. request.xts \in Seq(Xts) /\ lookup = AllEntries(request.xts)
  BY GridStands
<1>2. Spread(request.factor) /\ Answered
  BY DEF RowsInv, NotExtended
<1>3. request.id \in AppsOf(request.xts)
  BY GridSharesLookups, Zenon DEF Grid!Apps, AppsOf
<1>4. OriginalAsked
  BY DEF OriginalAsked, Grid!OrigDims
<1>5. PICK i \in 1 .. AppCount(request.xts) :
        AppAt(request.xts, i) = request.id /\ gridReply = AnswerAbout(i)
  BY <1>2, <1>3, <1>4 DEF Answered
<1> DEFINE a == EndAt(request.xts, i - 1)
           b == EndAt(request.xts, i)
           encoded == EncodedAt(request.xts, i)
           own == ScalarsAt(request.xts, i)
<1>6. Grid!AppRange.start = a /\ Grid!AppRange.end = b
  <2>1. Grid!AppRange = RangeOf(lookup, request.id)
    BY GridSharesLookups, Zenon DEF Grid!AppRange
  <2>2. RangeOf(AllEntries(request.xts), AppAt(request.xts, i)) = Range32(a, b)
    BY <1>1, EntriesAre
  <2>3. Grid!AppRange = Range32(a, b)
    BY <1>1, <1>5, <2>1, <2>2
  <2> QED BY <2>3 DEF Range32
<1>7. /\ gridReply.err = "none"
      /\ gridReply.rows[1].index \div request.factor = FirstRow(i)
      /\ Grid!FlattenSeq([k \in DOMAIN gridReply.rows |->
           [col \in 1 .. original.cols |-> gridReply.rows[k].row[col - 1]]]) = CellsRead(i)
  BY <1>5, AnswerIs
<1>8. CellsBefore(i) = a - FirstRow(i) * original.cols /\ CellCount(i) = b - a
  BY DEF CellsBefore, CellCount
<1>9. /\ CellsBefore(i) \in 0 .. original.cols - 1
      /\ Len(CellsRead(i)) - CellsBefore(i) - CellCount(i) \in 0 .. original.cols - 1
  BY ReadIs
<1>10. SubSeq(CellsRead(i), CellsBefore(i) + 1, CellsBefore(i) + CellCount(i)) = own
  BY <1>2, ReadHolds
<1>11. encoded \in Seq(Nat)
  BY <1>1, ScalarsAtAre
<1>12. Grid!Encode(Grid!Submitted(request.id)) = encoded
  BY <1>1, <1>5, GridShares, SubmittedAt
<1>13. PICK more \in Nat : Grid!DataOf(own) = encoded \o Zeroes(more)
  BY <1>1, SubmittedAt
<1> HIDE DEF a, b, encoded, own
<1>14. IsPrefix(encoded, Grid!DataOf(own))
  BY <1>11, <1>13, ZeroesBehind
<1>15. Grid!IsPrefix(Grid!Encode(Grid!Submitted(request.id)), Grid!DataOf(own))
  BY <1>12, <1>14, GridSharesLookups, Zenon
<1> DEFINE width == original.cols
           cells == Grid!FlattenSeq([k \in DOMAIN gridReply.rows |->
                      [col \in 1 .. width |-> gridReply.rows[k].row[col - 1]]])
           before == Grid!AppRange.start - (gridReply.rows[1].index \div request.factor) * width
           count == Grid!AppRange.end - Grid!AppRange.start
<1>16. cells = CellsRead(i) /\ before = CellsBefore(i) /\ count = CellCount(i)
  BY <1>6, <1>7, <1>8, Zenon
<1> HIDE DEF cells, before, count
<1>17. /\ before \in 0 .. (width - 1)
       /\ Len(cells) - before - count \in 0 .. (width - 1)
       /\ Grid!IsPrefix(Grid!Encode(Grid!Submitted(request.id)),
            Grid!DataOf(SubSeq(cells, before + 1, before + count)))
  BY <1>9, <1>10, <1>15, <1>16, Zenon
<1> QED BY <1>7, <1>17, Zenon DEF cells, before, count

\* Asked with the dimensions the grid had before it was extended, app_rows
\* returns for every application the rows its extrinsics are in, as submitted
\* and at the place the lookup says, and no row without a cell of it
\* (EvaluationGrid::from_extrinsics, extend_columns, app_rows).
THEOREM ApplicationRowsHoldTheirApp == BuildSpec => []AppRowsHoldTheApp
<1> DEFINE Inv == GridInv /\ RowsInv
<1>1. BuildInit => Inv
  BY GridInit, RowsInit DEF BuildInit
<1>2. Inv /\ [BuildNext]_<< vars, gridVars >> => Inv'
  <2> SUFFICES ASSUME Inv, [BuildNext]_<< vars, gridVars >> PROVE Inv'
    OBVIOUS
  <2>1. CASE Next /\ UNCHANGED gridVars
    <3>1. request' = request
      BY <2>1 DEF Next, Sort, Group, Grouped, Pad, Padded, Fill, RefuseDims, Extend, RefuseExtend, Commit
    <3> QED BY <2>1, <3>1, GridStutters, RowsStutter
  <2>2. CASE Grid!Next /\ UNCHANGED vars
    BY <2>2, GridStep, RowsStep
  <2>3. CASE UNCHANGED << vars, gridVars >>
    <3>1. UNCHANGED vars /\ UNCHANGED gridVars /\ request' = request
      BY <2>3 DEF vars
    <3> QED BY <3>1, GridStutters, RowsStutter
  <2> QED BY <2>1, <2>2, <2>3 DEF BuildNext
<1>3. Inv => AppRowsHoldTheApp
  BY RowsAreHeld
<1> QED BY <1>1, <1>2, <1>3, PTL DEF BuildSpec

-------------------------------------------------------------------------------
(***************************************************************************)
(* Both generators make the same block.                                    *)
(***************************************************************************)

\* The k-th piece of some bytes, padded to a cell.
LEMMA CellOfPiece ==
  ASSUME NEW bytes \in Seq(Nat), NEW k \in Nat \ {0},
         (k - 1) * DATA_CHUNK_SIZE < Len(bytes), NEW width \in Nat, DATA_CHUNK_SIZE <= width
  PROVE  LET from == (k - 1) * DATA_CHUNK_SIZE
             cell == PadWithZeroes(
                       SubSeq(bytes, from + 1, Min({k * DATA_CHUNK_SIZE, Len(bytes)})), width)
         IN  /\ cell \in Seq(Nat) /\ Len(cell) = width
             /\ \A j \in 1 .. width :
                  cell[j] = IF j <= DATA_CHUNK_SIZE /\ from + j <= Len(bytes)
                              THEN bytes[from + j] ELSE 0
<1> DEFINE d == DATA_CHUNK_SIZE
           L == Len(bytes)
           from == (k - 1) * d
           to == Min({k * d, L})
           piece == SubSeq(bytes, from + 1, to)
           cell == PadWithZeroes(piece, width)
<1>1. d \in Nat \ {0} /\ L \in Nat
  BY LenProperties, ChunkAssumption
<1>2. from \in Nat /\ k * d \in Nat /\ k * d = from + d
  <2>1. k \in 1 .. k
    OBVIOUS
  <2> HIDE DEF d
  <2> QED BY <1>1, <2>1, Multiples
<1>3. to = IF k * d <= L THEN k * d ELSE L
  BY <1>1, <1>2, MinIs
<1>4. from < L /\ d <= width
  OBVIOUS
<1> HIDE DEF from, to, d, L
<1>5. to \in Nat /\ from < to /\ to <= L /\ to - from <= d /\ to - from <= width
  BY <1>1, <1>2, <1>3, <1>4
<1>6. piece \in Seq(Nat) /\ Len(piece) = to - from
  <2>1. \A i \in from + 1 .. to : bytes[i] \in Nat
    <3>1. \A i \in from + 1 .. to : i \in 1 .. L
      BY <1>1, <1>2, <1>5
    <3> QED BY <3>1, ElementOfSeq DEF L
  <2>2. from + 1 \in Nat /\ from + 1 <= to /\ to - (from + 1) + 1 = to - from
    BY <1>2, <1>5
  <2> QED BY <1>5, <2>1, <2>2, SubSeqProperties
<1>7. cell \in Seq(Nat) /\ Len(cell) = width
  <2> HIDE DEF piece
  <2>1. Len(piece) <= width
    BY <1>5, <1>6
  <2> QED BY <1>6, <2>1, PaddedIs
<1>8. \A j \in 1 .. width : cell[j] = IF from + j <= to THEN bytes[from + j] ELSE 0
  BY <1>2, <1>5, PaddedPiece DEF L
<1>9. \A j \in 1 .. width : from + j <= to <=> j <= d /\ from + j <= L
  BY <1>1, <1>2, <1>3
<1> HIDE DEF cell
<1>10. \A j \in 1 .. width : cell[j] = IF j <= d /\ from + j <= L THEN bytes[from + j] ELSE 0
  BY <1>8, <1>9
<1> QED BY <1>7, <1>10 DEF from, to, d, L, cell, piece

\* No more than the pieces take, unless the bytes fill them.
LEMMA PaddedLenFits ==
  ASSUME NEW len \in Nat \ {0}, len % DATA_CHUNK_SIZE # 0
  PROVE  PaddedLen(len) \in Nat /\ PaddedLen(len) <= CeilDiv(len, DATA_CHUNK_SIZE) * DATA_CHUNK_SIZE
<1> DEFINE d == DATA_CHUNK_SIZE
           n == CeilDiv(len, d)
           nd == n * d
           more == SatAdd(len, 1)
           rest == (d - (more % d)) % d
<1>1. d \in Nat \ {0} /\ U32Max \in Nat
  BY U32MaxAssumption, ChunkAssumption
<1>2. n \in Nat \ {0} /\ nd \in Nat /\ len <= nd /\ nd < len + d
  <2>1. n \in Nat \ {0} /\ len <= n * d /\ n * d < len + d
    BY <1>1, EnoughPieces
  <2>2. n * d \in Nat
    <3> HIDE DEF n, d
    <3> QED BY <1>1, <2>1, Products
  <2> QED BY <2>1, <2>2
<1>3. len # nd
  <2>1. \A m \in Nat : (m * d) % d = 0
    BY <1>1
  <2> QED BY <1>2, <2>1
<1>4. \A a, b \in Nat : SatAdd(a, b) = IF a + b <= U32Max THEN a + b ELSE U32Max
  <2>1. ASSUME NEW a \in Nat, NEW b \in Nat
        PROVE  SatAdd(a, b) = IF a + b <= U32Max THEN a + b ELSE U32Max
    <3>1. a + b \in Nat
      OBVIOUS
    <3> QED BY <1>1, <3>1, MinIs DEF SatAdd
  <2> QED BY <2>1
<1>5. more = IF len + 1 <= U32Max THEN len + 1 ELSE U32Max
  BY <1>4
<1>6. PaddedLen(len) = SatAdd(more, rest)
  BY Zenon DEF PaddedLen
<1> HIDE DEF n, nd, d, more
<1>7. more \in Nat
  BY <1>1, <1>5
<1> DEFINE q == more \div d
           s == more % d
           dq == d * q
<1>8. q \in Nat /\ s \in 0 .. d - 1 /\ dq \in Nat /\ more = dq + s
  <2>1. q \in Nat /\ s \in 0 .. d - 1
    BY <1>1, <1>7
  <2>2. more = d * q + s
    BY <1>1, <1>7, Division
  <2>3. d * q \in Nat
    BY <1>1, <2>1, Products
  <2> QED BY <2>1, <2>2, <2>3
<1>9. rest = (IF s = 0 THEN 0 ELSE d - s)
  <2>1. rest = (d - s) % d
    OBVIOUS
  <2> HIDE DEF s, rest
  <2>2. CASE s = 0
    BY <1>1, <2>1, <2>2
  <2>3. CASE s # 0
    <3>1. d - s \in 0 .. d - 1
      BY <1>1, <1>8, <2>3
    <3>2. \A m \in 0 .. d - 1 : m % d = m
      BY <1>1
    <3> QED BY <2>1, <2>3, <3>1, <3>2
  <2> QED BY <2>2, <2>3
<1> HIDE DEF rest
<1>10. rest \in Nat
  BY <1>1, <1>8, <1>9
<1>11. PaddedLen(len) \in Nat
  BY PaddedLenTyped
<1>12. CASE ~(len + 1 <= U32Max)
  <2>1. PaddedLen(len) <= U32Max
    BY <1>1, <1>4, <1>6, <1>7, <1>10
  <2> QED BY <1>1, <1>2, <1>11, <1>12, <2>1 DEF nd, n, d
<1>13. CASE len + 1 <= U32Max
  <2>1. PaddedLen(len) <= more + rest
    BY <1>1, <1>4, <1>6, <1>7, <1>10
  <2>2. more <= nd /\ nd <= more + d
    BY <1>1, <1>2, <1>3, <1>5, <1>13
  <2> DEFINE u == IF s = 0 THEN q ELSE q + 1
             du == d * u
             dn == d * (n + 1)
  <2>3. u \in Nat /\ du \in Nat /\ du = more + rest
    <3>1. u \in Nat
      BY <1>8
    <3>2. d * (q + 1) = dq + d
      BY <1>1, <1>8
    <3>3. CASE s = 0
      BY <1>8, <1>9, <3>1, <3>3
    <3>4. CASE s # 0
      <4>1. du = dq + d
        BY <3>2, <3>4
      <4> HIDE DEF dq, q, s, du
      <4> QED BY <1>1, <1>8, <1>9, <3>1, <3>4, <4>1
    <3> QED BY <3>3, <3>4
  <2>4. dn = nd + d /\ dn \in Nat
    <3>1. d * (n + 1) = n * d + d
      BY <1>1, <1>2
    <3> QED BY <1>1, <1>2, <3>1 DEF nd
  <2> HIDE DEF u
  <2>5. ~(n + 1 <= u)
    <3>1. n + 1 <= u => dn <= du
      BY <1>1, <1>2, <2>3, Products
    <3>2. du < dn
      <4> HIDE DEF dn, du
      <4>1. rest <= d - 1
        BY <1>1, <1>8, <1>9
      <4> QED BY <1>1, <1>2, <1>7, <1>10, <2>2, <2>3, <2>4, <4>1
    <3> HIDE DEF dn, du
    <3> QED BY <2>3, <2>4, <3>1, <3>2
  <2>6. u <= n
    BY <1>2, <2>3, <2>5
  <2>7. du <= nd
    <3>1. d * u <= d * n /\ d * n = n * d
      BY <1>1, <1>2, <2>3, <2>6, Products
    <3> QED BY <3>1 DEF nd
  <2> HIDE DEF du
  <2>8. PaddedLen(len) <= nd
    BY <1>2, <1>7, <1>10, <1>11, <2>1, <2>3, <2>7
  <2> QED BY <1>11, <2>8 DEF nd, n, d
<1> QED BY <1>12, <1>13

\* Unless the bytes fill their chunks, the padding of ISO 9797-1 is that of the
\* scalars.
LEMMA SameCells ==
  ASSUME NEW bytes \in Seq(Nat), bytes # << >>, Len(bytes) % DATA_CHUNK_SIZE # 0,
         CHUNK_SIZE = SCALAR_SIZE
  PROVE  PaddedChunks(bytes) = Grid!Scalars(bytes)
<1> DEFINE d == DATA_CHUNK_SIZE
           L == Len(bytes)
           n == CeilDiv(L, d)
           len == PaddedLen(L)
           full == PadWithZeroes(bytes, len)
           M == Len(full)
           cellOf(of, k) ==
             PadWithZeroes(SubSeq(of, (k - 1) * d + 1, Min({k * d, Len(of)})), CHUNK_SIZE)
<1>1. d \in Nat \ {0} /\ L \in Nat \ {0} /\ CHUNK_SIZE \in Nat /\ d <= CHUNK_SIZE
  BY EmptySeq, ChunkAssumption, SizeAssumption, PowersPositive
<1>2. n \in Nat \ {0} /\ L <= n * d /\ n * d < L + d /\ n * d = d * n /\ n * d \in Nat
  <2>1. n \in Nat \ {0} /\ L <= n * d /\ n * d < L + d
    BY <1>1, EnoughPieces
  <2> HIDE DEF n, d
  <2> QED BY <1>1, <2>1, Products
<1>3. len \in Nat /\ len <= n * d
  BY <1>1, PaddedLenFits
<1>4. /\ full \in Seq(Nat) /\ M \in Nat /\ L <= M /\ M <= n * d
      /\ \A j \in 1 .. M : full[j] = IF j <= L THEN bytes[j] ELSE 0
  <2>1. CASE L <= len
    <3> HIDE DEF len
    <3>1. full \in Seq(Nat) /\ M = len
      BY <1>3, <2>1, PaddedIs
    <3>2. \A j \in 1 .. len : full[j] = IF j <= L THEN bytes[j] ELSE 0
      BY <1>3, <2>1, PaddedAt
    <3> HIDE DEF full, M, n, d
    <3> QED BY <1>3, <2>1, <3>1, <3>2
  <2>2. CASE ~(L <= len)
    <3>1. 1 .. len - L = 1 .. 0
      BY <1>1, <1>3, <2>2
    <3> HIDE DEF len
    <3>2. Zeroes(len - L) = << >>
      BY <3>1 DEF Zeroes
    <3>3. full = bytes
      BY <3>2, ConcatEmptySeq DEF PadWithZeroes
    <3> HIDE DEF full
    <3> QED BY <1>1, <1>2, <3>3
  <2> QED BY <2>1, <2>2
<1>5. CeilDiv(M, d) = n
  <2> HIDE DEF full, M, d, L
  <2> DEFINE c == CeilDiv(M, d)
  <2>1. c \in Nat /\ M <= d * c /\ \A m \in Nat : M <= d * m <=> c <= m
    BY <1>1, <1>4, CeilDivIs
  <2>2. \A m \in Nat : L <= d * m <=> n <= m
    BY <1>1, CeilDivIs
  <2>3. c <= n
    BY <1>2, <1>4, <2>1
  <2>4. L <= d * c
    <3> DEFINE dc == d * c
    <3>1. dc \in Nat
      BY <1>1, <2>1, Products
    <3> HIDE DEF dc, c
    <3>2. M <= dc
      BY <2>1 DEF dc
    <3>3. L <= dc
      BY <1>1, <1>4, <3>1, <3>2
    <3> QED BY <3>3 DEF dc
  <2>5. n <= c
    BY <2>1, <2>2, <2>4
  <2> HIDE DEF c, n
  <2> QED BY <1>2, <2>1, <2>3, <2>5 DEF c
<1>6. PaddedChunks(bytes) = [k \in 1 .. n |-> cellOf(full, k)]
  <2>1. DOMAIN Pieces(full, d) = 1 .. n
    BY <1>5, Zenon DEF Pieces
  <2>2. \A k \in 1 .. n : Pieces(full, d)[k] = SubSeq(full, (k - 1) * d + 1, Min({k * d, Len(full)}))
    <3> HIDE DEF full, n, d
    <3> QED BY <1>5 DEF Pieces, M
  <2>3. PaddedChunks(bytes) = [k \in DOMAIN Pieces(full, d) |-> PadWithZeroes(Pieces(full, d)[k], CHUNK_SIZE)]
    BY Zenon DEF PaddedChunks
  <2> HIDE DEF full, n, d
  <2> QED BY <2>1, <2>2, <2>3
<1>7. Grid!Scalars(bytes) = [k \in 1 .. n |-> cellOf(bytes, k)]
  <2>1. DOMAIN Pieces(bytes, d) = 1 .. n
    BY DEF Pieces
  <2>2. \A k \in 1 .. n : Pieces(bytes, d)[k] = SubSeq(bytes, (k - 1) * d + 1, Min({k * d, Len(bytes)}))
    <3>1. Pieces(bytes, d) = [k \in 1 .. n |-> SubSeq(bytes, (k - 1) * d + 1, Min({k * d, Len(bytes)}))]
      BY Zenon DEF Pieces
    <3> HIDE DEF n, d
    <3> QED BY <3>1
  <2>3. Grid!Scalars(bytes) = [k \in DOMAIN Pieces(bytes, d) |-> PadWithZeroes(Pieces(bytes, d)[k], CHUNK_SIZE)]
    BY GridShares, Zenon DEF Grid!Scalars, Grid!Scalar
  <2> HIDE DEF n, d
  <2> QED BY <2>1, <2>2, <2>3
<1>8. ASSUME NEW k \in 1 .. n PROVE cellOf(full, k) = cellOf(bytes, k)
  <2> DEFINE from == (k - 1) * d
             one == cellOf(full, k)
             other == cellOf(bytes, k)
  <2>1. from \in Nat /\ from < L
    <3> DEFINE kd == k * d
               nd == n * d
    <3>1. from \in Nat /\ kd = from + d /\ kd <= nd /\ kd \in Nat
      <4> HIDE DEF n, d
      <4> QED BY <1>1, <1>2, Multiples
    <3>2. nd < L + d /\ nd \in Nat
      BY <1>2
    <3> HIDE DEF from, kd, nd, L, d
    <3> QED BY <1>1, <3>1, <3>2
  <2>2. k \in Nat \ {0} /\ from < M
    <3>1. k \in Nat \ {0}
      OBVIOUS
    <3> HIDE DEF from, M, L, n, d
    <3> QED BY <1>1, <1>4, <2>1, <3>1
  <2>3. /\ one \in Seq(Nat) /\ Len(one) = CHUNK_SIZE
        /\ \A j \in 1 .. CHUNK_SIZE :
             one[j] = IF j <= d /\ from + j <= M THEN full[from + j] ELSE 0
    <3>1. full \in Seq(Nat) /\ (k - 1) * DATA_CHUNK_SIZE < Len(full)
      BY <1>4, <2>2
    <3>2. k \in Nat \ {0} /\ CHUNK_SIZE \in Nat /\ DATA_CHUNK_SIZE <= CHUNK_SIZE
      BY <1>1, <2>2
    <3> HIDE DEF full, n
    <3> QED BY <3>1, <3>2, CellOfPiece
  <2>4. /\ other \in Seq(Nat) /\ Len(other) = CHUNK_SIZE
        /\ \A j \in 1 .. CHUNK_SIZE :
             other[j] = IF j <= d /\ from + j <= L THEN bytes[from + j] ELSE 0
    BY <1>1, <2>1, <2>2, CellOfPiece
  <2> HIDE DEF one, other, from, full, M, L, d, n
  <2>5. ASSUME NEW j \in 1 .. CHUNK_SIZE PROVE one[j] = other[j]
    <3>1. CASE from + j <= L
      <4>1. from + j <= M /\ from + j \in 1 .. M
        BY <1>1, <1>4, <2>1, <3>1
      <4> QED BY <1>4, <2>3, <2>4, <3>1, <4>1
    <3>2. CASE ~(from + j <= L) /\ from + j <= M
      <4>1. from + j \in 1 .. M
        BY <1>1, <1>4, <2>1, <3>2
      <4> QED BY <1>4, <2>3, <2>4, <3>2, <4>1
    <3>3. CASE ~(from + j <= L) /\ ~(from + j <= M)
      BY <2>3, <2>4, <3>3
    <3> QED BY <3>1, <3>2, <3>3
  <2>6. one = other
    BY <2>3, <2>4, <2>5, SeqEqual
  <2> QED BY <2>6 DEF one, other
<1> HIDE DEF n, full, cellOf
<1> QED BY <1>6, <1>7, <1>8

\* Each place is in some part.
LEMMA SomePart ==
  ASSUME NEW lens \in Seq(Nat), NEW k \in 1 .. Sums(lens)[Len(lens)]
  PROVE  \E i \in 1 .. Len(lens) : k - Sums(lens)[i - 1] \in 1 .. lens[i]
<1> DEFINE sums == Sums(lens)
           N == Len(lens)
           M == {n \in 0 .. N : k <= sums[n]}
<1>1. N \in Nat /\ \A n \in 1 .. N : lens[n] \in Nat
  BY LenProperties, ElementOfSeq
<1>2. /\ sums[0] = 0 /\ \A n \in 1 .. N : sums[n] = sums[n - 1] + lens[n]
      /\ \A n \in 0 .. N : sums[n] \in Nat
  BY SumsAre
<1>3. k \in 1 .. sums[N]
  OBVIOUS
<1> HIDE DEF sums, N
<1>4. k \in Nat \ {0} /\ k <= sums[N] /\ N \in 0 .. N
  BY <1>1, <1>2, <1>3
<1>5. M \subseteq Nat /\ M # {}
  BY <1>1, <1>4
<1>6. PICK i \in M : \A n \in M : i <= n
  <2> HIDE DEF M
  <2> QED BY <1>5, LeastElement
<1>7. i \in 1 .. N
  BY <1>1, <1>2, <1>4, <1>6
<1>8. i - 1 \in 0 .. N /\ ~(k <= sums[i - 1])
  BY <1>1, <1>6, <1>7
<1>9. k - sums[i - 1] \in 1 .. lens[i]
  <2>1. sums[i] = sums[i - 1] + lens[i] /\ lens[i] \in Nat /\ sums[i - 1] \in Nat /\ k <= sums[i]
    BY <1>1, <1>2, <1>6, <1>7, <1>8
  <2> QED BY <1>4, <1>8, <2>1
<1> QED BY <1>7, <1>9 DEF sums, N

\* No encoding fills its chunks.
NoneFills == CHUNK_SIZE = SCALAR_SIZE /\ \A app \in Apps : ~FillsChunks(app)

LEMMA SameAt ==
  ASSUME request.xts \in Seq(Xts), NoneFills, NEW i \in 1 .. AppCount(request.xts)
  PROVE  ChunksAt(request.xts, i) = ScalarsAt(request.xts, i)
<1> DEFINE app == AppAt(request.xts, i)
           bytes == EncodedAt(request.xts, i)
<1>1. app \in AppsOf(request.xts) /\ Sorted(request.xts)[i] = Of(request.xts, app)
  BY PartsAre
<1>2. Apps = AppsOf(request.xts)
  BY Zenon DEF Apps, AppsOf
<1>3. Encode(Submitted(app)) = bytes
  <2>1. Submitted(app) = DatasOf(Of(request.xts, app))
    BY Zenon DEF Submitted, DatasOf
  <2> HIDE DEF app
  <2> QED BY <1>1, <2>1, Zenon DEF EncodedAt
<1> HIDE DEF app
<1>4. ~(Len(Encode(Submitted(app))) % DATA_CHUNK_SIZE = 0)
  BY <1>1, <1>2, Zenon DEF NoneFills, FillsChunks
<1> HIDE DEF bytes
<1>5. Len(bytes) % DATA_CHUNK_SIZE # 0
  BY <1>3, <1>4
<1>6. bytes \in Seq(Nat) /\ bytes # << >>
  BY ScalarsAtAre DEF bytes
<1>7. CHUNK_SIZE = SCALAR_SIZE
  BY DEF NoneFills
<1>8. PaddedChunks(bytes) = Grid!Scalars(bytes)
  BY <1>5, <1>6, <1>7, SameCells
<1> QED BY <1>8, Zenon DEF bytes, ChunksAt, ScalarsAt

\* So the layout has the lengths of the scalars, and the block their cells.
LEMMA SameLayout ==
  ASSUME request.xts \in Seq(Xts), layout \in Seq(Laid), padded \in Seq(Seq(Nat)),
         AllPlaced, NoneFills
  PROVE  /\ Total(layout) = Len(AllCells(request.xts)) /\ Total(layout) \in Nat
         /\ Lookup = AllEntries(request.xts)
         /\ \A k \in 1 .. Total(layout) : padded[k] = AllCells(request.xts)[k]
<1> DEFINE all == AllCells(request.xts)
           N == AppCount(request.xts)
           lens == Lens(layout)
           sums == Sums(lens)
<1>1. /\ N \in Nat /\ Len(layout) = N /\ Placed(request.xts, layout, padded)
      /\ DOMAIN layout = 1 .. N
  BY LenProperties DEF AllPlaced
<1>2. /\ ScalarLens(request.xts) \in Seq(Nat) /\ Len(ScalarLens(request.xts)) = N
      /\ \A k \in 1 .. N : ScalarLens(request.xts)[k] = Len(ScalarsAt(request.xts, k))
      /\ \A k \in 1 .. N : EndAt(request.xts, k) = EndAt(request.xts, k - 1) + ScalarLens(request.xts)[k]
  BY ScalarLensAre
<1>3. lens \in Seq(Nat) /\ Len(lens) = N /\ \A j \in 1 .. N : lens[j] = layout[j].len
  BY <1>1, LensAre
<1>4. /\ all \in Seq(Seq(Nat)) /\ Len(all) = EndAt(request.xts, N)
      /\ \A k \in 1 .. N : \A j \in 1 .. ScalarLens(request.xts)[k] :
           all[EndAt(request.xts, k - 1) + j] = ScalarsAt(request.xts, k)[j]
  BY CellsAreThere
<1>5. \A i \in 1 .. N : ChunksAt(request.xts, i) = ScalarsAt(request.xts, i)
  BY SameAt
<1>6. \A i \in 1 .. N :
        /\ layout[i].app = AppAt(request.xts, i)
        /\ layout[i].len = Len(ScalarsAt(request.xts, i))
        /\ \A j \in 1 .. layout[i].len : padded[Begin(layout, i) + j] = ScalarsAt(request.xts, i)[j]
  <2> HIDE DEF N
  <2> QED BY <1>1, <1>5, Zenon DEF Placed
<1> HIDE DEF N, lens, all
<1>7. lens = ScalarLens(request.xts)
  <2>1. \A j \in 1 .. N : lens[j] = ScalarLens(request.xts)[j]
    BY <1>2, <1>3, <1>6
  <2> QED BY <1>2, <1>3, <2>1, SeqEqual
<1>8. \A k : EndAt(request.xts, k) = sums[k]
  BY <1>7 DEF EndAt
<1>9. \A k : Begin(layout, k) = sums[k - 1] /\ StartOf(k) = sums[k - 1]
  BY StartIsBegin DEF Begin, lens
<1>10. Total(layout) = sums[N]
  BY <1>1 DEF Total, lens
<1>11. Total(layout) \in Nat
  BY TotalTyped
<1>12. Lookup = AllEntries(request.xts)
  <2>1. Lookup = [k \in 1 .. N |-> Entry(layout[k].app, StartOf(k), StartOf(k) + layout[k].len)]
    BY <1>1, Zenon DEF Lookup
  <2>2. AllEntries(request.xts) = [k \in 1 .. N |->
           Entry(AppAt(request.xts, k), EndAt(request.xts, k - 1), EndAt(request.xts, k))]
    BY Zenon DEF AllEntries, N
  <2>3. ASSUME NEW k \in 1 .. N
        PROVE  /\ layout[k].app = AppAt(request.xts, k)
               /\ StartOf(k) = EndAt(request.xts, k - 1)
               /\ StartOf(k) + layout[k].len = EndAt(request.xts, k)
    <3>1. layout[k].app = AppAt(request.xts, k) /\ layout[k].len = ScalarLens(request.xts)[k]
      BY <1>2, <1>6
    <3>2. StartOf(k) = EndAt(request.xts, k - 1)
      BY <1>8, <1>9, Zenon
    <3>3. EndAt(request.xts, k) = EndAt(request.xts, k - 1) + ScalarLens(request.xts)[k]
      BY <1>2
    <3> QED BY <3>1, <3>2, <3>3, Zenon
  <2> DEFINE one(k) == Entry(layout[k].app, StartOf(k), StartOf(k) + layout[k].len)
             other(k) == Entry(AppAt(request.xts, k), EndAt(request.xts, k - 1), EndAt(request.xts, k))
  <2>4. ASSUME NEW k \in 1 .. N PROVE one(k) = other(k)
    BY <2>3, Zenon
  <2>5. Lookup = [k \in 1 .. N |-> one(k)] /\ AllEntries(request.xts) = [k \in 1 .. N |-> other(k)]
    BY <2>1, <2>2, Zenon
  <2> HIDE DEF one, other
  <2>6. [k \in 1 .. N |-> one(k)] = [k \in 1 .. N |-> other(k)]
    BY <2>4
  <2> QED BY <2>5, <2>6, Zenon
<1>13. ASSUME NEW k \in 1 .. Total(layout) PROVE padded[k] = all[k]
  <2>1. k \in 1 .. Sums(lens)[Len(lens)]
    BY <1>3, <1>10
  <2>2. \E i \in 1 .. Len(lens) : k - Sums(lens)[i - 1] \in 1 .. lens[i]
    BY <1>3, <2>1, SomePart
  <2>3. PICK i \in 1 .. N : k - sums[i - 1] \in 1 .. lens[i]
    BY <1>3, <2>2
  <2> DEFINE j == k - sums[i - 1]
  <2>4. j \in 1 .. lens[i] /\ lens[i] = layout[i].len /\ lens[i] = ScalarLens(request.xts)[i]
    BY <1>3, <1>7, <2>3
  <2>5. sums[i - 1] + j = k
    <3>1. sums[i - 1] \in Nat
      <4>1. i - 1 \in 0 .. Len(lens)
        BY <1>1, <1>3
      <4> QED BY <1>3, <4>1, SumsAre
    <3> QED BY <1>11, <3>1
  <2> HIDE DEF j, sums
  <2>6. padded[sums[i - 1] + j] = ScalarsAt(request.xts, i)[j]
    BY <1>6, <1>9, <2>4
  <2>7. all[sums[i - 1] + j] = ScalarsAt(request.xts, i)[j]
    BY <1>4, <1>8, <2>4
  <2> QED BY <2>5, <2>6, <2>7
<1>14. Total(layout) = Len(all)
  BY <1>4, <1>8, <1>10
<1> QED BY <1>11, <1>12, <1>13, <1>14 DEF all

\* No power of two considered is larger than the largest.
LEMMA PowersAreBounded == \A p \in Powers : p <= TwoTo[MaxExponent]
<1>1. MaxExponent \in Nat /\ MaxExponent \in Exponents
  BY ChunkAssumption DEF Exponents
<1>2. ASSUME NEW k \in Exponents PROVE TwoTo[k] <= TwoTo[MaxExponent]
  <2>1. TwoTo[k] \in Nat /\ TwoTo[MaxExponent] \in Nat
    BY <1>1, TwoToPositive
  <2>2. CASE k = MaxExponent
    BY <2>1, <2>2
  <2>3. CASE k # MaxExponent
    <3>1. k < MaxExponent
      BY <1>1, <2>3 DEF Exponents
    <3>2. 2 * TwoTo[k] <= TwoTo[MaxExponent]
      BY <1>1, <3>1, TwoToGrows
    <3> QED BY <2>1, <3>2
  <2> QED BY <2>2, <2>3
<1> QED BY <1>2 DEF Powers, Exponents

\* The least block and the least row are the same number of cells, and sizes in
\* bytes are rounded as sizes in cells are.
LEMMA SameCount ==
  ASSUME NEW count \in Nat, count * CHUNK_SIZE \in 0 .. U32Max,
         NEW width \in Nat, width * CHUNK_SIZE = MINIMUM_BLOCK_SIZE
  PROVE  /\ count \in 0 .. U32Max
         /\ CellsOf(count * CHUNK_SIZE)
              = IF NextPowerOfTwo(count) >= width THEN NextPowerOfTwo(count) ELSE width
<1> DEFINE c == CHUNK_SIZE
           size == count * c
           p == NextPowerOfTwo(count)
           P == NextPowerOfTwo(size)
           cells == CellsOf(size)
           least == width * c
           cp == c * p
           cc == c * cells
<1>1. c \in Powers /\ c \in Nat \ {0} /\ U32Max \in Nat
  BY SizeAssumption, PowersPositive, U32MaxAssumption
<1>2. size \in 0 .. U32Max /\ least = MINIMUM_BLOCK_SIZE /\ least \in Nat
  BY <1>1, Products
<1>3. count \in 0 .. U32Max /\ size = c * count /\ least = c * width
  <2>1. count <= c * count /\ c * count = count * c /\ c * width = width * c
    BY <1>1, Products
  <2> HIDE DEF c
  <2> QED BY <1>1, <1>2, <2>1
<1>4. p \in Powers /\ count <= p /\ \A q \in Powers : count <= q => p <= q
  BY <1>3, NextOfU32
<1>5. P \in Powers /\ size <= P /\ \A q \in Powers : size <= q => P <= q
  BY <1>2, NextOfU32
<1>6. cells \in Powers /\ cells * c = Max({P, MINIMUM_BLOCK_SIZE})
  BY <1>2, CellsAre
<1>7. p \in Nat \ {0} /\ P \in Nat \ {0} /\ cells \in Nat \ {0}
  BY <1>4, <1>5, <1>6, PowersPositive
<1> HIDE DEF c, size, p, P, cells, least
<1>8. cc \in Nat /\ cp \in Nat /\ cc = IF P >= least THEN P ELSE least
  <2>1. cc \in Nat /\ cp \in Nat /\ cc = cells * c
    BY <1>1, <1>7, Products
  <2>2. Max({P, least}) = IF P >= least THEN P ELSE least
    BY <1>2, <1>7, MaxIs
  <2> QED BY <1>2, <1>6, <2>1, <2>2
<1>9. width <= cells
  <2>1. c * width <= c * cells
    BY <1>2, <1>3, <1>7, <1>8
  <2> QED BY <1>1, <1>7, <2>1, Products
<1>10. p <= cells
  <2>1. c * count <= c * cells
    BY <1>2, <1>3, <1>5, <1>7, <1>8
  <2>2. count <= cells
    BY <1>1, <1>7, <2>1, Products
  <2> QED BY <1>4, <1>6, <2>2
<1>11. cells <= p \/ cells <= width
  <2>1. CASE cc = least
    <3>1. c * cells <= c * width
      BY <1>2, <1>3, <2>1
    <3> QED BY <1>1, <1>7, <3>1, Products
  <2>2. CASE cc = P
    <3> SUFFICES ASSUME ~(cells <= p) PROVE FALSE
      OBVIOUS
    <3>1. cp <= cc
      BY <1>1, <1>7, <1>10, Products
    <3>2. cp <= TwoTo[MaxExponent]
      <4>1. P <= TwoTo[MaxExponent] /\ TwoTo[MaxExponent] \in Nat
        <5>1. MaxExponent \in Exponents
          BY ChunkAssumption DEF Exponents
        <5> QED BY <1>5, <5>1, PowersAreBounded, TwoToPositive
      <4> HIDE DEF cp, cc
      <4> QED BY <1>7, <1>8, <2>2, <3>1, <4>1
    <3>3. cp \in Powers
      BY <1>1, <1>4, <3>2, ProductIsPower
    <3>4. size <= cp
      <4>1. c * count <= c * p
        BY <1>1, <1>4, <1>7, Products
      <4> QED BY <1>3, <4>1
    <3>5. P <= cp
      BY <1>5, <3>3, <3>4
    <3>6. c * cells <= c * p
      BY <2>2, <3>5
    <3> QED BY <1>1, <1>7, <3>6, Products
  <2> QED BY <1>8, <2>1, <2>2
<1> HIDE DEF cp, cc
<1>12. cells = IF p >= width THEN p ELSE width
  BY <1>7, <1>9, <1>10, <1>11
<1> QED BY <1>3, <1>12 DEF cells, size, c, p

\* The smallest number of full rows.
LEMMA SameHeight ==
  ASSUME NEW count \in 0 .. U32Max, request.maxWidth \in Powers, request.maxWidth <= count
  PROVE  /\ Grid!Height(count) \in Nat \ {0}
         /\ NextPowerOfTwo(count) = request.maxWidth * Grid!Height(count)
         /\ \A h \in Powers : count = h * request.maxWidth => Grid!Height(count) = h
<1> DEFINE w == request.maxWidth
           h == Grid!Height(count)
           p == NextPowerOfTwo(count)
           rows == CeilDiv(count, w)
           wh == w * h
<1>1. w \in Powers /\ w \in Nat \ {0} /\ count \in Nat /\ w <= count
  BY PowersPositive, U32MaxAssumption
<1>2. /\ rows \in Nat /\ h \in Powers /\ rows <= h
      /\ \A q \in Powers : rows <= q => h <= q
  BY <1>1, HeightIs
<1>3. p \in Powers /\ count <= p /\ \A q \in Powers : count <= q => p <= q
  BY NextOfU32
<1>4. h \in Nat \ {0} /\ p \in Nat \ {0}
  BY <1>2, <1>3, PowersPositive
<1>5. count <= w * rows /\ \A c \in Nat : count <= w * c <=> rows <= c
  BY <1>1, CeilDivIs
<1> HIDE DEF w, h, p, rows
<1>6. PICK r \in Powers : p = w * r
  <2>1. w <= p
    BY <1>1, <1>3, <1>4
  <2> QED BY <1>1, <1>3, <2>1, PowersDivide
<1>7. r \in Nat \ {0}
  BY PowersPositive
<1>8. h <= r
  <2>1. rows <= r
    BY <1>3, <1>5, <1>6, <1>7
  <2> QED BY <1>2, <2>1
<1>9. r <= h
  <2>1. wh <= p /\ wh \in Nat
    BY <1>1, <1>4, <1>6, <1>7, <1>8, Products
  <2>2. wh <= TwoTo[MaxExponent]
    <3>1. p <= TwoTo[MaxExponent] /\ TwoTo[MaxExponent] \in Nat
      <4>1. MaxExponent \in Exponents
        BY ChunkAssumption DEF Exponents
      <4> QED BY <1>3, <4>1, PowersAreBounded, TwoToPositive
    <3> HIDE DEF wh
    <3> QED BY <1>4, <2>1, <3>1
  <2>3. wh \in Powers
    BY <1>1, <1>2, <2>2, ProductIsPower
  <2>4. count <= wh
    BY <1>2, <1>4, <1>5
  <2>5. w * r <= w * h
    BY <1>3, <1>6, <2>3, <2>4
  <2> QED BY <1>1, <1>4, <1>7, <2>5, Products
<1>10. r = h
  BY <1>4, <1>7, <1>8, <1>9
<1>11. ASSUME NEW q \in Powers, count = q * w PROVE h = q
  <2>1. q \in Nat \ {0} /\ q * w = w * q /\ w * q \in Nat
    <3>1. q \in Nat \ {0}
      BY PowersPositive
    <3> QED BY <1>1, <3>1, Products
  <2>2. rows <= q
    BY <1>1, <1>5, <1>11, <2>1
  <2>3. w * q <= w * rows
    BY <1>5, <1>11, <2>1
  <2>4. q <= rows
    BY <1>1, <1>2, <2>1, <2>3, Products
  <2> QED BY <1>2, <1>4, <2>1, <2>2, <2>4
<1> QED BY <1>4, <1>6, <1>10, <1>11 DEF w, h, p

\* Both choose the same dimensions.
LEMMA SameDims ==
  ASSUME request \in Requests, Limits, SameBounds, NEW count \in Nat,
         count * CHUNK_SIZE \in 0 .. U32Max, count * CHUNK_SIZE <= MaxSize
  PROVE  Grid!BlockDims(count) = BlockDimensions(count * CHUNK_SIZE)
<1> DEFINE c == CHUNK_SIZE
           size == count * c
           W == request.maxCols
           H == request.maxRows
           m == request.minWidth
           p == NextPowerOfTwo(count)
           cells == CellsOf(size)
           HW == H * W
<1>1. /\ c \in Nat \ {0} /\ W \in Powers /\ W \in Nat \ {0} /\ H \in Powers /\ H \in Nat \ {0}
      /\ U32Max \in Nat
  BY SizeAssumption, PowersPositive, U32MaxAssumption DEF Limits
<1>2. m \in Nat /\ m <= W /\ request.maxWidth = W /\ m * CHUNK_SIZE = MINIMUM_BLOCK_SIZE
      /\ ~request.full
  BY GridRequestsAre DEF SameBounds
<1>3. count \in 0 .. U32Max /\ cells = IF p >= m THEN p ELSE m
  BY <1>2, SameCount
<1>4. p \in Powers /\ count <= p /\ \A q \in Powers : count <= q => p <= q
  BY <1>3, NextOfU32
<1>5. p \in Nat \ {0}
  BY <1>4, PowersPositive
<1>6. HW \in Nat \ {0} /\ W <= HW /\ MaxSize = c * HW /\ size = c * count
  <2>1. Size(MaxDims) = HW /\ HW \in Nat \ {0}
    BY MaxDimsAre
  <2>2. W <= HW
    BY <1>1, Products
  <2>3. MaxSize = HW * c
    BY <2>1 DEF MaxSize
  <2>4. HW * c = c * HW /\ count * c = c * count
    <3> HIDE DEF HW, c
    <3> QED BY <1>1, <2>1, Products
  <2> HIDE DEF HW, c
  <2> QED BY <2>1, <2>2, <2>3, <2>4 DEF size
<1>7. size = MaxSize <=> count = HW
  <2> HIDE DEF HW, c, size
  <2>1. c * count = c * HW => count = HW
    <3>1. c * count \in Nat /\ c * HW \in Nat
      BY <1>1, <1>6, Products
    <3>2. c * count <= c * HW => count <= HW
      BY <1>1, <1>6, Products
    <3>3. c * HW <= c * count => HW <= count
      BY <1>1, <1>6, Products
    <3> DEFINE x == c * count
               y == c * HW
    <3> HIDE DEF x, y
    <3>4. x \in Nat /\ y \in Nat /\ (x <= y => count <= HW) /\ (y <= x => HW <= count)
      BY <3>1, <3>2, <3>3 DEF x, y
    <3>5. x = y => count = HW
      BY <1>6, <3>4
    <3> QED BY <3>5 DEF x, y
  <2> QED BY <1>6, <2>1
<1>8. BlockDimensions(size) = IF count = HW THEN MaxDims ELSE DimsFor(cells)
  <2> HIDE DEF HW, cells, size
  <2>1. size = Size(MaxDims) * CHUNK_SIZE <=> count = HW
    BY <1>7 DEF MaxSize
  <2> QED BY <1>2, <2>1, Zenon DEF BlockDimensions, cells
<1>9. MaxDims = Dimensions(H, W)
  BY DEF MaxDims
<1>10. DimsFor(cells) = IF cells > W THEN Dimensions(cells \div W, W) ELSE Dimensions(1, cells)
  BY Zenon DEF DimsFor
<1>11. Grid!BlockDims(count) =
         IF count < W THEN Dimensions(1, Max({p, m})) ELSE Dimensions(Grid!Height(count), W)
  <2>1. \A a, b : Grid!Dimensions(a, b) = Dimensions(a, b)
    BY Zenon DEF Grid!Dimensions, Dimensions
  <2>2. Grid!Max({Grid!NextPowerOfTwo(count), m}) = Max({p, m})
    BY GridShares, Zenon
  <2> HIDE DEF p, m
  <2> QED BY <1>2, <2>1, <2>2, Zenon DEF Grid!BlockDims, m
<1> HIDE DEF HW, p, cells, size, W, H, m
<1>12. CASE count < W
  <2>1. count # HW
    BY <1>1, <1>3, <1>6, <1>12
  <2>2. cells <= W /\ cells \in Nat
    BY <1>1, <1>2, <1>3, <1>4, <1>5, <1>12
  <2>3. BlockDimensions(size) = Dimensions(1, cells)
    BY <1>1, <1>8, <1>10, <2>1, <2>2
  <2>4. Max({p, m}) = cells
    BY <1>2, <1>3, <1>5, MaxIs
  <2> QED BY <1>11, <1>12, <2>3, <2>4 DEF size
<1>13. CASE ~(count < W)
  <2> DEFINE h == Grid!Height(count)
  <2>1. /\ h \in Nat \ {0} /\ p = W * h
        /\ \A q \in Powers : count = q * W => h = q
    <3>1. request.maxWidth \in Powers /\ request.maxWidth <= count
      BY <1>1, <1>2, <1>3, <1>13
    <3>2. /\ h \in Nat \ {0} /\ p = request.maxWidth * h
          /\ \A q \in Powers : count = q * request.maxWidth => h = q
      BY <1>3, <3>1, SameHeight DEF p
    <3> QED BY <1>2, <3>2
  <2> HIDE DEF h
  <2>2. CASE count = HW
    <3>1. h = H
      BY <1>1, <2>1, <2>2 DEF HW
    <3> QED BY <1>8, <1>9, <1>11, <1>13, <2>2, <3>1, Zenon DEF size, h
  <2>3. CASE count # HW
    <3>1. cells = p
      BY <1>1, <1>2, <1>3, <1>4, <1>5, <1>13
    <3>2. CASE p > W
      <4>1. p \div W = h
        BY <1>1, <2>1, Products
      <4>2. BlockDimensions(size) = Dimensions(h, W)
        BY <1>8, <1>10, <2>3, <3>1, <3>2, <4>1
      <4> QED BY <1>11, <1>13, <4>2 DEF size, h
    <3>3. CASE ~(p > W)
      <4>1. p = W
        BY <1>1, <1>3, <1>4, <1>5, <1>13, <3>3
      <4>2. h = 1
        <5>1. W * h <= W * 1
          BY <1>1, <2>1, <4>1
        <5>2. h <= 1
          BY <1>1, <2>1, <5>1, Products
        <5> QED BY <2>1, <5>2
      <4>3. BlockDimensions(size) = Dimensions(h, W)
        BY <1>8, <1>10, <2>3, <3>1, <3>3, <4>1, <4>2
      <4> QED BY <1>11, <1>13, <4>3 DEF size, h
    <3> QED BY <3>2, <3>3
  <2> QED BY <2>2, <2>3
<1> QED BY <1>12, <1>13

\* What FlattenBlock has made as soon as there is a matrix.
Built ==
  /\ Limits
  /\ Total(layout) * CHUNK_SIZE \in 0 .. U32Max /\ Total(layout) * CHUNK_SIZE <= MaxSize
  /\ dims = BlockDimensions(Total(layout) * CHUNK_SIZE)
  /\ \A k \in Total(layout) + 1 .. Size(dims) : padded[k] = Random

BuiltInv ==
  /\ pc \in {"extend", "commit"} \/ Accepted => Built
  /\ Accepted => reply.commitments = ExtendedMatrix

LEMMA BuiltInit == Init => BuiltInv
<1> SUFFICES ASSUME Init PROVE BuiltInv
  OBVIOUS
<1>1. ~Accepted /\ pc = "sort"
  BY DEF Init, Pending, Accepted
<1> QED BY <1>1 DEF BuiltInv

\* Before there are dimensions, and when a block is refused.
LEMMA NotYetBuilt ==
  ASSUME FlattenInv, Sort \/ Group \/ Grouped \/ Pad \/ Padded \/ RefuseDims \/ RefuseExtend
  PROVE  BuiltInv'
<1>1. Pending.err # "none"
  BY DEF Pending
<1>2. pc' \in {"sort", "group", "pad", "dims", "done"}
  BY DEF Sort, Group, Grouped, Pad, Padded, RefuseDims, RefuseExtend, Fail
<1>3. reply' = reply \/ reply'.err # "none"
  BY DEF Sort, Group, Grouped, Pad, Padded, RefuseDims, RefuseExtend, Fail, Err
<1>4. reply' = reply => pc \in {"sort", "group", "pad", "dims"} \/ reply'.err # "none"
  BY DEF Sort, Group, Grouped, Pad, Padded, RefuseDims, RefuseExtend, Fail, Err
<1>5. pc \in {"sort", "group", "pad", "dims"} => reply.err # "none"
  BY <1>1 DEF FlattenInv, Counted
<1>6. ~Accepted'
  BY <1>3, <1>4, <1>5 DEF Accepted
<1> QED BY <1>2, <1>6 DEF BuiltInv

LEMMA FillBuilds == FlattenInv /\ Fill => BuiltInv'
<1> SUFFICES ASSUME FlattenInv, Fill PROVE BuiltInv'
  OBVIOUS
<1> DEFINE d == BlockDimensions(BlockSize)
           noise == [k \in 1 .. (Size(d) - Len(padded)) |-> Random]
           T == Total(layout)
<1>1. /\ pc = "dims" /\ pc' = "extend" /\ request' = request /\ layout' = layout
      /\ dims' = d /\ reply' = reply /\ DimsError(BlockSize) = "none"
      /\ padded' = padded \o noise
  BY DEF Fill
<1>2. /\ request \in Requests /\ padded \in Seq(Seq(Nat)) /\ Len(padded) = T
      /\ BlockSize <= U32Max /\ ~Accepted
  BY <1>1, Before DEF FlattenInv, FlattenTypes, Counted
<1>3. Size(d) \in Nat /\ T <= Size(d) /\ noise \in Seq(Seq(Nat)) /\ Len(noise) = Size(d) - T
  BY <1>2, FillChooses
<1>4. BlockSize = T * CHUNK_SIZE
  BY <1>2 DEF BlockSize
<1>5. T \in Nat /\ BlockSize \in 0 .. U32Max
  <2>1. T \in Nat
    BY <1>2, LenProperties
  <2>2. CHUNK_SIZE \in Nat /\ U32Max \in Nat
    BY SizeAssumption, PowersPositive, U32MaxAssumption
  <2>3. T * CHUNK_SIZE \in Nat
    <3> HIDE DEF T
    <3> QED BY <2>1, <2>2
  <2> HIDE DEF T
  <2> QED BY <1>2, <1>4, <2>1, <2>2, <2>3
<1>6. Limits /\ BlockSize <= MaxSize
  BY <1>1, <1>2, <1>5, DimsErrors
<1>7. \A k \in 1 .. Len(noise) : noise[k] = Random
  BY <1>2, <1>3
<1> HIDE DEF d, noise
<1>8. \A k \in T + 1 .. Size(d) : padded'[k] = Random
  <2> SUFFICES ASSUME NEW k \in T + 1 .. Size(d) PROVE padded'[k] = Random
    OBVIOUS
  <2> HIDE DEF T
  <2>1. k \in Nat /\ k > T /\ k <= Size(d) /\ k - T \in 1 .. Len(noise)
    BY <1>3, <1>5
  <2>2. (padded \o noise)[k] = noise[k - T]
    <3>1. k \in 1 .. Len(padded) + Len(noise) /\ k > Len(padded) /\ Len(padded) = T
      BY <1>2, <1>3, <1>5, <2>1
    <3>2. padded \in Seq(Seq(Nat)) /\ noise \in Seq(Seq(Nat))
      BY <1>2, <1>3
    <3>3. (padded \o noise)[k] = noise[k - Len(padded)]
      BY <3>1, <3>2, ConcatProperties
    <3> QED BY <3>1, <3>3
  <2> QED BY <1>1, <1>7, <2>1, <2>2
<1>9. T' = T /\ Limits' = Limits /\ MaxSize' = MaxSize
  BY <1>1 DEF Limits, MaxSize, MaxDims, Total, Lens
<1>10. dims' = BlockDimensions(T * CHUNK_SIZE)'
  <2>1. BlockDimensions(T * CHUNK_SIZE)' = BlockDimensions(T * CHUNK_SIZE)
    <3>1. MaxDims' = MaxDims
      BY <1>1 DEF MaxDims
    <3> QED BY <1>1, <1>9, <3>1 DEF BlockDimensions, DimsFor
  <2> QED BY <1>1, <1>4, <2>1 DEF d
<1>11. Built'
  <2>1. T * CHUNK_SIZE \in 0 .. U32Max /\ T * CHUNK_SIZE <= MaxSize
    BY <1>4, <1>5, <1>6
  <2>2. (T * CHUNK_SIZE)' = T * CHUNK_SIZE /\ MaxSize' = MaxSize /\ Limits'
    BY <1>1, <1>6, <1>9
  <2>3. \A k \in T' + 1 .. Size(dims') : padded'[k] = Random
    BY <1>1, <1>8, <1>9
  <2> QED BY <1>10, <2>1, <2>2, <2>3 DEF Built
<1>12. ~Accepted'
  BY <1>1, <1>2 DEF Accepted
<1> QED BY <1>11, <1>12 DEF BuiltInv

\* What is built stays.
LEMMA BuiltStays ==
  ASSUME Built, request' = request, layout' = layout, padded' = padded, dims' = dims
  PROVE  Built'
<1>1. Total(layout)' = Total(layout) /\ Limits' = Limits /\ MaxDims' = MaxDims /\ MaxSize' = MaxSize
  BY DEF Limits, MaxSize, MaxDims, Total, Lens
<1>2. BlockDimensions(Total(layout) * CHUNK_SIZE)' = BlockDimensions(Total(layout) * CHUNK_SIZE)
  BY <1>1 DEF BlockDimensions, DimsFor
<1> QED BY <1>1, <1>2 DEF Built

LEMMA ExtendBuilds == FlattenInv /\ StoredInv /\ BuiltInv /\ Extend => BuiltInv'
<1> SUFFICES ASSUME FlattenInv, StoredInv, BuiltInv, Extend PROVE BuiltInv'
  OBVIOUS
<1>1. /\ pc = "extend" /\ request' = request /\ layout' = layout
      /\ padded' = padded /\ dims' = dims /\ reply' = reply
  BY DEF Extend
<1>2. Built'
  BY <1>1, BuiltStays DEF BuiltInv
<1>3. ~Accepted'
  BY <1>1 DEF Accepted, StoredInv
<1> QED BY <1>2, <1>3 DEF BuiltInv

LEMMA CommitBuilds == FlattenInv /\ StoredInv /\ BuiltInv /\ Commit => BuiltInv'
<1> SUFFICES ASSUME FlattenInv, StoredInv, BuiltInv, Commit PROVE BuiltInv'
  OBVIOUS
<1> DEFINE rows == [row \in 1 .. ExtendedRows(dims) |-> Row(row - 1)]
<1>1. /\ pc = "commit" /\ request' = request /\ layout' = layout
      /\ padded' = padded /\ dims' = dims /\ reply' = Ok(rows)
  BY DEF Commit
<1>2. Built'
  BY <1>1, BuiltStays DEF BuiltInv
<1>3. rows = ExtendedMatrix
  BY <1>1, RowsAre
<1> HIDE DEF rows
<1>4. reply'.commitments = ExtendedMatrix
  BY <1>1, <1>3 DEF Ok
<1>5. ExtendedMatrix' = ExtendedMatrix
  BY <1>1 DEF ExtendedMatrix, ExtendedColumn, DataColumn
<1> QED BY <1>2, <1>4, <1>5 DEF BuiltInv

LEMMA StutterBuilds == BuiltInv /\ UNCHANGED vars => BuiltInv'
<1> SUFFICES ASSUME BuiltInv, UNCHANGED vars PROVE BuiltInv'
  OBVIOUS
<1>1. /\ pc' = pc /\ request' = request /\ layout' = layout
      /\ padded' = padded /\ dims' = dims /\ reply' = reply
  BY DEF vars
<1>2. Built => Built'
  BY <1>1, BuiltStays
<1>3. ExtendedMatrix' = ExtendedMatrix
  BY <1>1 DEF ExtendedMatrix, ExtendedColumn, DataColumn
<1> QED BY <1>1, <1>2, <1>3 DEF BuiltInv, Accepted

LEMMA BuiltStep == FlattenInv /\ StoredInv /\ BuiltInv /\ [Next]_vars => BuiltInv'
BY NotYetBuilt, FillBuilds, ExtendBuilds, CommitBuilds, StutterBuilds DEF Next

\* What from_extrinsics puts in the k-th cell, and what extend_columns makes of
\* the cells.
Filled(k) ==
  IF k <= Len(AllCells(request.xts)) THEN AllCells(request.xts)[k] ELSE Grid!Random

FilledColumn(col) == [k \in 1 .. original.rows |-> Filled((k - 1) * original.cols + col + 1)]

FilledCell(row, col) ==
  IF row % request.factor = 0 THEN Filled((row \div request.factor) * original.cols + col + 1)
  ELSE << FilledColumn(col), row >>

FilledInv ==
  /\ gridPc = "extend" =>
       \A row \in 0 .. original.rows - 1, col \in 0 .. original.cols - 1 :
         evals[row][col] = Filled(row * original.cols + col + 1)
  /\ gridPc = "rows" =>
       \A row \in 0 .. original.rows * request.factor - 1, col \in 0 .. original.cols - 1 :
         evals[row][col] = FilledCell(row, col)

LEMMA FilledInit == Init /\ Grid!Start => FilledInv
BY DEF Grid!Start, FilledInv

LEMMA FillFills == GridInv /\ RowsInv /\ Grid!Fill /\ UNCHANGED vars => FilledInv'
<1> SUFFICES ASSUME GridInv, RowsInv, Grid!Fill, UNCHANGED vars PROVE FilledInv'
  OBVIOUS
<1> DEFINE d == Grid!BlockDims(Items)
           all == AllCells(request.xts)
<1>1. /\ gridPc = "dims" /\ gridPc' = "extend" /\ request' = request
      /\ gridDims' = d /\ original' = d
  BY GridShares DEF Grid!Fill, Items
<1>2. /\ request.xts \in Seq(Xts) /\ scalars = AllScalars(request.xts)
  BY <1>1, RequestsAre DEF RowsInv, GridInv
<1>3. evals' = [row \in 0 .. (d.rows - 1) |->
                  [col \in 0 .. (d.cols - 1) |->
                     LET k == row * d.cols + col + 1
                     IN  IF k <= Len(all) THEN all[k] ELSE Grid!Random]]
  <2>1. Grid!Flattened = all
    BY <1>2, IndexGives
  <2>2. evals' = [row \in 0 .. (gridDims'.rows - 1) |->
                    [col \in 0 .. (gridDims'.cols - 1) |->
                       LET k == row * gridDims'.cols + col + 1
                       IN  IF k <= Len(Grid!Flattened) THEN Grid!Flattened[k] ELSE Grid!Random]]
    BY DEF Grid!Fill
  <2> HIDE DEF d, all
  <2> QED BY <1>1, <2>1, <2>2, Zenon
<1>4. evals' = [row \in 0 .. (d.rows - 1) |->
                  [col \in 0 .. (d.cols - 1) |-> Filled(row * d.cols + col + 1)]]
  BY <1>3, Zenon DEF Filled
<1> HIDE DEF d, all
<1>5. \A row \in 0 .. d.rows - 1, col \in 0 .. d.cols - 1 :
        evals'[row][col] = Filled(row * d.cols + col + 1)
  BY <1>4
<1>6. \A k : Filled(k)' = Filled(k)
  BY <1>1 DEF Filled
<1>7. \A row \in 0 .. original'.rows - 1, col \in 0 .. original'.cols - 1 :
        evals'[row][col] = Filled(row * original.cols + col + 1)'
  BY <1>1, <1>5 DEF Filled
<1> QED BY <1>1, <1>7 DEF FilledInv

LEMMA ExtendFills == GridInv /\ RowsInv /\ FilledInv /\ Grid!Extend /\ UNCHANGED vars => FilledInv'
<1> SUFFICES ASSUME GridInv, RowsInv, FilledInv, Grid!Extend, UNCHANGED vars PROVE FilledInv'
  OBVIOUS
<1> DEFINE R == original.rows
           C == original.cols
           f == request.factor
<1>1. /\ gridPc = "extend" /\ gridPc' = "rows" /\ request' = request
      /\ original' = original /\ original # Grid!NoDims /\ gridDims' = Grid!Extended
  BY DEF Grid!Extend, RowsInv
<1>2. f \in Nat \ {0} /\ R \in Nat \ {0} /\ C \in Nat \ {0}
  BY <1>1, GridStands
<1>3. gridDims.rows = R /\ gridDims.cols = C
  <2>1. gridDims.rows = R * 1 /\ gridDims.cols = C
    BY <1>1 DEF RowsInv, Spread
  <2> QED BY <1>2, <2>1
<1>4. \A row \in 0 .. R - 1, col \in 0 .. C - 1 : evals[row][col] = Filled(row * C + col + 1)
  BY <1>1 DEF FilledInv
<1>5. Grid!Extended.rows = R * f /\ Grid!Extended.cols = C
  BY <1>3 DEF Grid!Extended, Grid!Dimensions
<1>6. evals' = [row \in 0 .. (R * f - 1) |-> [col \in 0 .. (C - 1) |-> Grid!CodedCell(row, col)]]
  <2>1. evals' = [row \in 0 .. (Grid!Extended.rows - 1) |->
                    [col \in 0 .. (gridDims.cols - 1) |-> Grid!CodedCell(row, col)]]
    BY DEF Grid!Extend
  <2> HIDE DEF R, C, f
  <2> QED BY <1>3, <1>5, <2>1, Zenon
<1>7. \A row, col : Grid!CodedCell(row, col) =
        IF row % f = 0 THEN evals[row \div f][col] ELSE << [k \in 1 .. R |-> evals[k - 1][col]], row >>
  BY <1>3 DEF Grid!CodedCell, Grid!Coded
<1> HIDE DEF R, C, f
<1> DEFINE top == R * f - 1
<1>8. ASSUME NEW row \in 0 .. top, NEW col \in 0 .. C - 1
      PROVE  Grid!CodedCell(row, col) = FilledCell(row, col)
  <2>1. CASE row % f = 0
    <3>1. row \div f \in 0 .. R - 1
      <4> DEFINE q == row \div f
                 fq == f * q
                 fr == f * R
      <4>1. row \in Nat /\ q \in Nat /\ row = fq /\ fq \in Nat
        <5>1. row \in Nat /\ q \in Nat
          BY <1>2
        <5>2. row = f * q + (row % f)
          BY <1>2, <5>1, Division
        <5>3. fq \in Nat
          BY <1>2, <5>1, Products
        <5> HIDE DEF q, fq
        <5> QED BY <2>1, <5>1, <5>2, <5>3 DEF fq
      <4>2. fr \in Nat /\ fr = R * f /\ row < fr
        <5>1. fr \in Nat /\ fr = R * f
          BY <1>2, Products
        <5> HIDE DEF fr
        <5> QED BY <5>1
      <4>3. R <= q => fr <= fq
        BY <1>2, <4>1, Products
      <4> HIDE DEF q, fq, fr
      <4>4. ~(R <= q)
        BY <4>1, <4>2, <4>3
      <4>5. q \in 0 .. R - 1
        BY <1>2, <4>1, <4>4
      <4> QED BY <4>5 DEF q
    <3>2. evals[row \div f][col] = Filled((row \div f) * C + col + 1)
      BY <1>4, <3>1
    <3>3. FilledCell(row, col) = Filled((row \div f) * C + col + 1)
      BY <2>1 DEF FilledCell, f, C
    <3> QED BY <1>7, <2>1, <3>2, <3>3
  <2>2. CASE row % f # 0
    <3>1. [k \in 1 .. R |-> evals[k - 1][col]] = FilledColumn(col)
      <4>1. ASSUME NEW k \in 1 .. R PROVE evals[k - 1][col] = Filled((k - 1) * C + col + 1)
        <5>1. k - 1 \in 0 .. R - 1
          BY <1>2
        <5> QED BY <1>4, <5>1
      <4>2. FilledColumn(col) = [k \in 1 .. R |-> Filled((k - 1) * C + col + 1)]
        BY Zenon DEF FilledColumn, R, C
      <4> QED BY <4>1, <4>2
    <3>2. FilledCell(row, col) = << FilledColumn(col), row >>
      BY <2>2 DEF FilledCell, f
    <3> QED BY <1>7, <2>2, <3>1, <3>2
  <2> QED BY <2>1, <2>2
<1>9. ASSUME NEW row \in 0 .. top, NEW col \in 0 .. C - 1
      PROVE  evals'[row][col] = FilledCell(row, col)
  <2>1. evals' = [r \in 0 .. top |-> [c \in 0 .. C - 1 |-> Grid!CodedCell(r, c)]]
    BY <1>6
  <2> HIDE DEF top
  <2>2. evals'[row][col] = Grid!CodedCell(row, col)
    BY <2>1
  <2> QED BY <1>8, <2>2
<1>10. \A row \in 0 .. original'.rows * request'.factor - 1, col \in 0 .. original'.cols - 1 :
         evals'[row][col] = FilledCell(row, col)'
  <2>1. \A row, col : FilledCell(row, col)' = FilledCell(row, col)
    BY <1>1 DEF FilledCell, FilledColumn, Filled
  <2> QED BY <1>1, <1>9, <2>1 DEF R, C, f
<1> QED BY <1>1, <1>10 DEF FilledInv

LEMMA FilledStep == GridInv /\ RowsInv /\ FilledInv /\ Grid!Next /\ UNCHANGED vars => FilledInv'
<1> SUFFICES ASSUME GridInv, RowsInv, FilledInv, Grid!Next, UNCHANGED vars PROVE FilledInv'
  OBVIOUS
<1>1. CASE Grid!Fill
  BY <1>1, FillFills
<1>2. CASE Grid!Extend
  BY <1>2, ExtendFills
<1>3. CASE \/ Grid!Group \/ Grid!Encoded \/ Grid!Index \/ Grid!RefuseDims
           \/ Grid!RefuseExtend \/ Grid!AppRows \/ Grid!RefuseRows
  <2>1. gridPc' \in {"group", "lookup", "dims", "done"}
    BY <1>3 DEF Grid!Group, Grid!Encoded, Grid!Index, Grid!RefuseDims, Grid!RefuseExtend,
                Grid!AppRows, Grid!RefuseRows, Grid!Fail
  <2> QED BY <2>1 DEF FilledInv
<1> QED BY <1>1, <1>2, <1>3 DEF Grid!Next

LEMMA FilledStutters == FilledInv /\ request' = request /\ UNCHANGED gridVars => FilledInv'
<1> SUFFICES ASSUME FilledInv, request' = request, UNCHANGED gridVars PROVE FilledInv'
  OBVIOUS
<1>1. gridPc' = gridPc /\ evals' = evals /\ original' = original
  BY DEF gridVars
<1>2. /\ \A k : Filled(k)' = Filled(k)
      /\ \A row, col : FilledCell(row, col)' = FilledCell(row, col)
  BY <1>1 DEF FilledCell, FilledColumn, Filled
<1> QED BY <1>1, <1>2 DEF FilledInv, Filled, FilledCell, FilledColumn

\* Both fill what the data leaves free with the same cells.
LEMMA SameRandom ==
  ASSUME CHUNK_SIZE = SCALAR_SIZE
  PROVE  Random = Grid!Random
BY GridShares, Zenon DEF Random, Grid!Random, Grid!Scalar

\* Cell by cell both blocks are the same, column by column, and so extended.
LEMMA SameMatrix ==
  ASSUME dims.rows \in Nat \ {0}, dims.cols \in Nat \ {0}, original = dims, request.factor = 2,
         \A k \in 1 .. Size(dims) : padded[k] = Filled(k)
  PROVE  \A row \in 1 .. ExtendedRows(dims), col \in 1 .. dims.cols :
           ExtendedColumn(DataColumn(col - 1))[row] = FilledCell(row - 1, col - 1)
<1> DEFINE R == dims.rows
           C == dims.cols
           RC == R * C
<1>1. R \in Nat \ {0} /\ C \in Nat \ {0} /\ original.rows = R /\ original.cols = C
  OBVIOUS
<1>2. ExtendedRows(dims) = R * 2
  BY DEF ExtendedRows, EXTENSION_FACTOR
<1>3. Size(dims) = RC /\ RC \in Nat
  BY <1>1 DEF Size
<1> HIDE DEF R, C
<1>4. ASSUME NEW k \in 1 .. R, NEW c \in 0 .. C - 1
      PROVE  padded[(k - 1) * C + c + 1] = Filled((k - 1) * C + c + 1)
  <2> DEFINE from == (k - 1) * C
  <2>1. from \in Nat /\ from + C <= RC
    <3>1. (k - 1) * C \in Nat /\ k * C \in Nat /\ k * C = (k - 1) * C + C /\ k * C <= R * C
      BY <1>1, Multiples
    <3> QED BY <3>1
  <2> HIDE DEF from, RC
  <2>2. from + c + 1 \in 1 .. RC
    BY <1>1, <1>3, <2>1
  <2> QED BY <1>3, <2>2 DEF from
<1>5. ASSUME NEW c \in 0 .. C - 1 PROVE DataColumn(c) = FilledColumn(c)
  <2>1. DataColumn(c) = [k \in 1 .. R |-> padded[(k - 1) * C + c + 1]]
    BY Zenon DEF DataColumn, R, C
  <2>2. FilledColumn(c) = [k \in 1 .. R |-> Filled((k - 1) * C + c + 1)]
    BY <1>1, Zenon DEF FilledColumn
  <2> QED BY <1>4, <2>1, <2>2
<1>6. ASSUME NEW row \in 1 .. R * 2, NEW col \in 1 .. C
      PROVE  ExtendedColumn(DataColumn(col - 1))[row] = FilledCell(row - 1, col - 1)
  <2> DEFINE r == row - 1
             c == col - 1
  <2>1. c \in 0 .. C - 1 /\ r \in Nat
    BY <1>1
  <2>2. ExtendedColumn(DataColumn(c)) =
          [k \in 1 .. R * 2 |->
             LET line == k - 1
             IN  IF line % EXTENSION_FACTOR = 0 THEN DataColumn(c)[line \div EXTENSION_FACTOR + 1]
                 ELSE << DataColumn(c), line >>]
    BY <1>2, Zenon DEF ExtendedColumn
  <2>3. ExtendedColumn(DataColumn(c))[row] =
          IF r % 2 = 0 THEN DataColumn(c)[r \div 2 + 1] ELSE << DataColumn(c), r >>
    BY <2>2 DEF EXTENSION_FACTOR
  <2>4. FilledCell(r, c) =
          IF r % 2 = 0 THEN Filled((r \div 2) * C + c + 1) ELSE << FilledColumn(c), r >>
    BY <1>1 DEF FilledCell
  <2>5. DataColumn(c) = FilledColumn(c)
    BY <1>5, <2>1
  <2>6. FilledColumn(c)[r \div 2 + 1] = Filled((r \div 2) * C + c + 1)
    <3>1. r \div 2 + 1 \in 1 .. R /\ (r \div 2 + 1) - 1 = r \div 2
      BY <1>1
    <3>2. FilledColumn(c) = [k \in 1 .. R |-> Filled((k - 1) * C + c + 1)]
      BY <1>1, Zenon DEF FilledColumn
    <3> HIDE DEF r, c
    <3> QED BY <3>1, <3>2
  <2> HIDE DEF r, c
  <2>7. ExtendedColumn(DataColumn(c))[row] = FilledCell(r, c)
    BY <2>3, <2>4, <2>5, <2>6
  <2> QED BY <2>7 DEF r, c
<1> QED BY <1>2, <1>6 DEF C

LEMMA BothAgree ==
  ASSUME FlattenInv, StoredInv, BuiltInv, GridInv, RowsInv, FilledInv
  PROVE  SameBlock
<1> SUFFICES ASSUME BothBuilt, SameBounds, \A app \in Apps : ~FillsChunks(app)
             PROVE  /\ lookup = Lookup
                    /\ original = dims
                    /\ reply.commitments = [row \in 1 .. gridDims.rows |-> Cells(row - 1)]
  BY DEF SameBlock
<1> DEFINE all == AllCells(request.xts)
           T == Total(layout)
<1>1. Accepted /\ gridPc = "rows"
  BY DEF BothBuilt, Accepted
<1>2. NoneFills /\ request.factor = 2 /\ CHUNK_SIZE = SCALAR_SIZE
  BY DEF NoneFills, SameBounds, EXTENSION_FACTOR
<1>3. /\ request \in Requests /\ request.xts \in Seq(Xts) /\ layout \in Seq(Laid)
      /\ padded \in Seq(Seq(Nat)) /\ AllPlaced /\ dims # NoDims
  BY <1>1, Before DEF FlattenInv, FlattenTypes, StoredInv
<1>4. Built /\ reply.commitments = ExtendedMatrix
  BY <1>1 DEF BuiltInv
<1>5. T = Len(all) /\ T \in Nat /\ Lookup = AllEntries(request.xts) /\ \A k \in 1 .. T : padded[k] = all[k]
  BY <1>2, <1>3, SameLayout
<1>6. original # Grid!NoDims /\ lookup = AllEntries(request.xts)
  BY <1>1 DEF RowsInv
<1>7. Items = T
  BY <1>3, <1>5, <1>6, EntriesAre DEF Items
<1>8. original = Grid!BlockDims(Items)
  BY <1>6 DEF GridInv, GridChosen
<1> HIDE DEF T, all
<1>9. original = dims
  <2>1. Grid!BlockDims(T) = BlockDimensions(T * CHUNK_SIZE)
    BY <1>3, <1>4, <1>5, SameDims DEF Built, T
  <2>2. dims = BlockDimensions(T * CHUNK_SIZE)
    BY <1>4 DEF Built, T
  <2> QED BY <1>7, <1>8, <2>1, <2>2
<1>10. dims.rows \in Nat \ {0} /\ dims.cols \in Nat \ {0}
  BY <1>6, <1>9, GridStands
<1>11. \A k \in 1 .. Size(dims) : padded[k] = Filled(k)
  <2> SUFFICES ASSUME NEW k \in 1 .. Size(dims) PROVE padded[k] = Filled(k)
    OBVIOUS
  <2>1. Filled(k) = IF k <= T THEN all[k] ELSE Random
    BY <1>2, <1>5, SameRandom DEF Filled, all
  <2>2. CASE k <= T
    <3>1. k \in 1 .. T
      BY <1>5, <2>2
    <3> QED BY <1>5, <2>1, <2>2, <3>1
  <2>3. CASE ~(k <= T)
    <3>1. Size(dims) \in Nat
      BY <1>10 DEF Size
    <3>2. k \in T + 1 .. Size(dims)
      BY <1>5, <2>3, <3>1
    <3> QED BY <1>4, <2>1, <2>3, <3>2 DEF Built, T
  <2> QED BY <2>2, <2>3
<1>12. \A row \in 1 .. ExtendedRows(dims), col \in 1 .. dims.cols :
         ExtendedColumn(DataColumn(col - 1))[row] = FilledCell(row - 1, col - 1)
  BY <1>2, <1>9, <1>10, <1>11, SameMatrix
<1>13. gridDims.rows = ExtendedRows(dims) /\ gridDims.cols = dims.cols
  BY <1>1, <1>2, <1>9 DEF RowsInv, Spread, ExtendedRows, EXTENSION_FACTOR
<1>14. reply.commitments = [row \in 1 .. gridDims.rows |-> Cells(row - 1)]
  <2> DEFINE E == ExtendedRows(dims)
             C == dims.cols
  <2>1. E \in Nat /\ E = original.rows * request.factor /\ original.cols = C /\ C \in Nat
    BY <1>2, <1>9, <1>10 DEF ExtendedRows, EXTENSION_FACTOR
  <2>2. \A row \in 0 .. E - 1, col \in 0 .. C - 1 : evals[row][col] = FilledCell(row, col)
    BY <1>1, <2>1 DEF FilledInv
  <2>3. ExtendedMatrix = [row \in 1 .. E |->
          [col \in 1 .. C |-> ExtendedColumn(DataColumn(col - 1))[row]]]
    BY Zenon DEF ExtendedMatrix
  <2>4. \A row : Cells(row) = [col \in 1 .. C |-> evals[row][col - 1]]
    BY <1>13, Zenon DEF Cells
  <2> HIDE DEF E, C
  <2>5. ASSUME NEW row \in 1 .. E, NEW col \in 1 .. C
        PROVE  ExtendedColumn(DataColumn(col - 1))[row] = evals[row - 1][col - 1]
    <3>1. row - 1 \in 0 .. E - 1 /\ col - 1 \in 0 .. C - 1
      BY <2>1
    <3>2. evals[row - 1][col - 1] = FilledCell(row - 1, col - 1)
      BY <2>2, <3>1
    <3> QED BY <1>12, <3>2 DEF E, C
  <2>6. ASSUME NEW row \in 1 .. E
        PROVE  [col \in 1 .. C |-> ExtendedColumn(DataColumn(col - 1))[row]] = Cells(row - 1)
    <3>1. Cells(row - 1) = [col \in 1 .. C |-> evals[row - 1][col - 1]]
      BY <2>4
    <3> QED BY <2>5, <3>1
  <2>7. ExtendedMatrix = [row \in 1 .. E |-> Cells(row - 1)]
    BY <2>3, <2>6
  <2> QED BY <1>4, <1>13, <2>7, Zenon DEF E
<1> QED BY <1>5, <1>6, <1>9, <1>14

\* Unless some encoding fills its chunks exactly, both generators give the same
\* lookup, dimensions and commitments of a block, given the same bounds
\* (flatten_and_pad_block, par_extend_data_matrix, par_build_commitments;
\* EvaluationGrid::from_extrinsics, extend_columns).
THEOREM GeneratorsAgree == BuildSpec => []SameBlock
<1> DEFINE Inv == FlattenInv /\ StoredInv /\ BuiltInv /\ GridInv /\ RowsInv /\ FilledInv
<1>1. BuildInit => Inv
  BY FlattenInit, StoredInit, BuiltInit, GridInit, RowsInit, FilledInit DEF BuildInit
<1>2. Inv /\ [BuildNext]_<< vars, gridVars >> => Inv'
  <2> SUFFICES ASSUME Inv, [BuildNext]_<< vars, gridVars >> PROVE Inv'
    OBVIOUS
  <2>1. (FlattenInv /\ StoredInv /\ BuiltInv)'
    <3>1. [Next]_vars
      BY DEF BuildNext
    <3> QED BY <3>1, FlattenStep, StoredStep, BuiltStep
  <2>2. CASE Next /\ UNCHANGED gridVars
    <3>1. request' = request
      BY <2>2 DEF Next, Sort, Group, Grouped, Pad, Padded, Fill, RefuseDims, Extend, RefuseExtend, Commit
    <3> QED BY <2>1, <2>2, <3>1, GridStutters, RowsStutter, FilledStutters
  <2>3. CASE Grid!Next /\ UNCHANGED vars
    BY <2>1, <2>3, GridStep, RowsStep, FilledStep
  <2>4. CASE UNCHANGED << vars, gridVars >>
    <3>1. UNCHANGED vars /\ UNCHANGED gridVars /\ request' = request
      BY <2>4 DEF vars
    <3> QED BY <2>1, <3>1, GridStutters, RowsStutter, FilledStutters
  <2> QED BY <2>2, <2>3, <2>4 DEF BuildNext
<1>3. Inv => SameBlock
  BY BothAgree
<1> QED BY <1>1, <1>2, <1>3, PTL DEF BuildSpec

===============================================================================
