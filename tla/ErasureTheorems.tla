---------------------------- MODULE ErasureTheorems ----------------------------
(***************************************************************************)
(* Theorems about ErasureCode, ColumnRecovery and Sampling:                *)
(* reconstruct_column gives the author's column back from any half of its  *)
(* coded cells, the division in reconstruct_poly never meets a zero, and   *)
(* light clients confirm the cells of the matrix, all of them, and nothing *)
(* else.                                                                   *)
(*                                                                         *)
(* The argument is the algebra the code relies on, for every prime field   *)
(* with a generator and every domain size that divides the order of its    *)
(* group: the transforms undo each other (the powers of a root of unity    *)
(* sum to nothing), the polynomial of zero_poly_fn vanishes exactly at the *)
(* missing rows, the shift leaves the domain, and the extended data times  *)
(* the zero polynomial has no more coefficients than the domain has rows.  *)
(* Elements of the field are integers up to multiples of the prime (Same). *)
(*                                                                         *)
(* Sampling rests on the same algebra: extending and interpolating are     *)
(* linear and commute, so the polynomials a node opens are the ones the    *)
(* header commits to.  That no cell is left out is arithmetic of rounded   *)
(* significands, and that a proof survives its bytes is about sequences.   *)
(***************************************************************************)
EXTENDS ColumnRecovery, Sampling, TLAPS,
        SequenceTheorems, FiniteSetTheorems, WellFoundedInduction

-------------------------------------------------------------------------------
\* Arithmetic modulo the prime.

\* The two integers are the same element of the field.
Same(a, b) == \E k \in Int : a = b + (k * Prime)

\* The order of the field.
LEMMA PrimeType == Prime \in Nat /\ Prime > 5 /\ Prime \in Int
<1> QED BY FieldAssumption

\* Being the same element is an equivalence,
LEMMA SameRefl ==
  ASSUME NEW a \in Int
  PROVE  Same(a, a)
<1>1. 0 \in Int /\ a = a + (0 * Prime)
  BY PrimeType
<1> QED BY <1>1 DEF Same

LEMMA SameSym ==
  ASSUME NEW a \in Int, NEW b \in Int, Same(a, b)
  PROVE  Same(b, a)
<1>1. PICK k \in Int : a = b + (k * Prime)
  BY DEF Same
<1>2. -k \in Int /\ b = a + ((-k) * Prime)
  BY <1>1, PrimeType
<1> QED BY <1>2 DEF Same

LEMMA SameTrans ==
  ASSUME NEW a \in Int, NEW b \in Int, NEW c \in Int, Same(a, b), Same(b, c)
  PROVE  Same(a, c)
<1>1. PICK k \in Int : a = b + (k * Prime)
  BY DEF Same
<1>2. PICK l \in Int : b = c + (l * Prime)
  BY DEF Same
<1>3. k + l \in Int /\ a = c + ((k + l) * Prime)
  BY <1>1, <1>2, PrimeType
<1> QED BY <1>3 DEF Same

\* and a congruence.
LEMMA SamePlus ==
  ASSUME NEW a \in Int, NEW b \in Int, NEW c \in Int, NEW d \in Int, Same(a, b), Same(c, d)
  PROVE  Same(a + c, b + d)
<1>1. PICK k \in Int : a = b + (k * Prime)
  BY DEF Same
<1>2. PICK l \in Int : c = d + (l * Prime)
  BY DEF Same
<1>3. k + l \in Int /\ a + c = (b + d) + ((k + l) * Prime)
  BY <1>1, <1>2, PrimeType
<1> QED BY <1>3 DEF Same

LEMMA SameTimes ==
  ASSUME NEW a \in Int, NEW b \in Int, NEW c \in Int, NEW d \in Int, Same(a, b), Same(c, d)
  PROVE  Same(a * c, b * d)
<1>1. PICK k \in Int : a = b + (k * Prime)
  BY DEF Same
<1>2. PICK l \in Int : c = d + (l * Prime)
  BY DEF Same
<1> DEFINE m == (k * d) + (b * l) + (k * l * Prime)
<1>3. m \in Int
  BY PrimeType
<1>4. a * c = (b * d) + (m * Prime)
  BY <1>1, <1>2, PrimeType
<1> HIDE DEF m
<1> QED BY <1>3, <1>4 DEF Same

\* Quotient and remainder.
LEMMA ModType ==
  ASSUME NEW a \in Int
  PROVE  a % Prime \in Scalar /\ Same(a % Prime, a)
<1> DEFINE r == a % Prime
           q == a \div Prime
<1>1. r \in 0 .. (Prime - 1) /\ q \in Int
  BY PrimeType
<1>2. a = (Prime * q) + r
  BY PrimeType
<1> HIDE DEF r, q
<1>3. -q \in Int /\ r = a + ((-q) * Prime)
  BY <1>1, <1>2, PrimeType
<1>4. Same(r, a)
  BY <1>3 DEF Same
<1>5. r \in Scalar
  BY <1>1 DEF Scalar
<1> QED BY <1>4, <1>5 DEF r

\* Scalars are numbers.
LEMMA ScalarType == Scalar \subseteq Int /\ 0 \in Scalar /\ 1 \in Scalar /\ Scalar \subseteq Nat
<1> QED BY PrimeType DEF Scalar

\* A number below the prime is a multiple of it only as 0.
LEMMA OneMultiple ==
  ASSUME NEW k \in Int, k * Prime < Prime, -Prime < k * Prime
  PROVE  k = 0
<1>1. ASSUME k >= 1 PROVE FALSE
  <2>1. k - 1 \in Nat /\ k * Prime = ((k - 1) * Prime) + Prime /\ (k - 1) * Prime \in Nat
    BY <1>1, PrimeType
  <2> QED BY <2>1, PrimeType
<1>2. ASSUME k <= -1 PROVE FALSE
  <2>1. -k - 1 \in Nat /\ k * Prime = -((-k - 1) * Prime) - Prime /\ (-k - 1) * Prime \in Nat
    BY <1>2, PrimeType
  <2> QED BY <2>1, PrimeType
<1> QED BY <1>1, <1>2

\* Scalars are elements of the field.
LEMMA SameScalar ==
  ASSUME NEW a \in Scalar, NEW b \in Scalar, Same(a, b)
  PROVE  a = b
<1>1. PICK k \in Int : a = b + (k * Prime)
  BY DEF Same
<1> DEFINE m == k * Prime
<1>2. m \in Int
  BY PrimeType
<1>3. a = b + m
  BY <1>1
<1> HIDE DEF m
<1>4. m < Prime /\ -Prime < m
  BY <1>2, <1>3, PrimeType DEF Scalar
<1>5. k = 0
  BY <1>4, OneMultiple DEF m
<1> QED BY <1>1, <1>5, PrimeType, ScalarType

\* Reducing a scalar changes nothing; reducing a number keeps its element.
LEMMA ModOf ==
  ASSUME NEW a \in Scalar
  PROVE  a % Prime = a
<1> QED BY PrimeType DEF Scalar

LEMMA ModSame ==
  ASSUME NEW a \in Int, NEW b \in Int, Same(a, b)
  PROVE  a % Prime = b % Prime
<1>1. Same(a % Prime, a) /\ Same(b % Prime, b) /\ a % Prime \in Scalar /\ b % Prime \in Scalar
  BY ModType
<1> DEFINE r == a % Prime
           s == b % Prime
<1> HIDE DEF r, s
<1>2. r \in Int /\ s \in Int
  BY <1>1, ScalarType DEF r, s
<1>3. Same(r, b)
  BY <1>1, <1>2, SameTrans DEF r
<1>4. Same(b, s)
  BY <1>1, <1>2, SameSym DEF s
<1>5. Same(r, s)
  BY <1>2, <1>3, <1>4, SameTrans
<1> QED BY <1>1, <1>5, SameScalar DEF r, s

\* A field has no zero divisors.
LEMMA NoZeroDivisors ==
  ASSUME NEW a \in Int, NEW b \in Int, Same(a * b, 0), ~Same(a, 0)
  PROVE  Same(b, 0)
<1> DEFINE r == a % Prime
<1>1. r \in Scalar /\ Same(r, a)
  BY ModType
<1> HIDE DEF r
<1>2. r \in Int
  BY <1>1, ScalarType
<1>3. r # 0
  <2> SUFFICES ASSUME r = 0 PROVE FALSE
    OBVIOUS
  <2>1. Same(a, r)
    BY <1>1, <1>2, SameSym
  <2> QED BY <2>1
<1>4. PICK s \in 1 .. (Prime - 1) : (r * s) % Prime = 1
  <2>1. r \in 1 .. (Prime - 1)
    BY <1>1, <1>3, PrimeType DEF Scalar
  <2> QED BY <2>1, FieldAssumption
<1>5. s \in Int /\ r * s \in Int
  BY <1>2, PrimeType
<1>6. Same(1, r * s)
  BY <1>4, <1>5, ModType
<1>7. Same(r * s, a * s)
  BY <1>1, <1>2, <1>5, SameRefl, SameTimes
<1>8. Same(1, a * s)
  BY <1>5, <1>6, <1>7, SameTrans
<1>9. Same(1 * b, (a * s) * b)
  <2>1. a * s \in Int /\ Same(b, b)
    BY <1>5, SameRefl
  <2> QED BY <1>8, <2>1, SameTimes
<1>10. Same((a * b) * s, 0 * s)
  <2>1. a * b \in Int /\ Same(s, s)
    BY <1>5, SameRefl
  <2> QED BY <1>5, <2>1, SameTimes
<1>11. (a * b) * s = (a * s) * b /\ 1 * b = b /\ 0 * s = 0 /\ (a * s) * b \in Int
  BY <1>5
<1> QED BY <1>9, <1>10, <1>11, SameTrans

\* What InverseOf computes.
LEMMA InverseOfIs ==
  ASSUME NEW a \in 1 .. (Prime - 1)
  PROVE  InverseOf[a] \in 1 .. (Prime - 1) /\ Same(a * InverseOf[a], 1)
<1>1. \E b \in 1 .. (Prime - 1) : (a * b) % Prime = 1
  BY FieldAssumption
<1>2. InverseOf[a] = CHOOSE b \in 1 .. (Prime - 1) : (a * b) % Prime = 1
  BY DEF InverseOf
<1> DEFINE b == InverseOf[a]
<1>3. b \in 1 .. (Prime - 1) /\ (a * b) % Prime = 1
  BY <1>1, <1>2
<1> HIDE DEF b
<1>4. a \in Int /\ b \in Int /\ a * b \in Int /\ 1 \in Int
  BY <1>3, PrimeType
<1>5. Same(1, a * b)
  BY <1>3, <1>4, ModType
<1>6. Same(a * b, 1)
  BY <1>4, <1>5, SameSym
<1> QED BY <1>3, <1>6 DEF b

-------------------------------------------------------------------------------
\* Powers.

\* Induction over an interval, from the least number that fails.
LEMMA UpTo ==
  ASSUME NEW N \in Nat, NEW T, 0 \in T,
         \A n \in 1 .. N : n - 1 \in T => n \in T
  PROVE  \A n \in 0 .. N : n \in T
<1> DEFINE M == {n \in 0 .. N : n \notin T}
<1>1. SUFFICES ASSUME M # {} PROVE FALSE
  OBVIOUS
<1>2. M \subseteq Nat
  OBVIOUS
<1>3. PICK n \in M : \A k \in M : ~(<< k, n >> \in OpToRel(<, Nat))
  <2> HIDE DEF M
  <2> QED BY <1>1, <1>2, NatLessThanWellFounded, WFMin
<1>4. n \in 1 .. N /\ n \notin T
  OBVIOUS
<1>5. n - 1 \in Nat /\ n - 1 < n /\ n - 1 \in 0 .. N
  BY <1>4
<1>6. n - 1 \notin M
  <2>1. << n - 1, n >> \in OpToRel(<, Nat)
    BY <1>4, <1>5 DEF OpToRel
  <2> HIDE DEF M
  <2> QED BY <1>3, <2>1
<1> QED BY <1>4, <1>5, <1>6

\* The function Power evaluates.
IsPower(x, n, f) == f = [i \in 0 .. n |-> IF i = 0 THEN 1 ELSE (f[i - 1] * x) % Prime]

\* There is one.
LEMMA PowerExists ==
  ASSUME NEW x, NEW N \in Nat
  PROVE  \E f : IsPower(x, N, f)
<1> DEFINE T == {n \in 0 .. N : \E f : IsPower(x, n, f)}
<1>1. 0 \in T
  <2> DEFINE f == [k \in 0 .. 0 |-> 1]
  <2>1. IsPower(x, 0, f)
    BY DEF IsPower
  <2> HIDE DEF f
  <2> QED BY <2>1
<1>2. ASSUME NEW n \in 1 .. N, n - 1 \in T PROVE n \in T
  <2>1. PICK f : IsPower(x, n - 1, f)
    BY <1>2
  <2> DEFINE g == [k \in 0 .. n |-> IF k = n THEN (f[n - 1] * x) % Prime ELSE f[k]]
  <2>2. \A k \in 0 .. n - 1 : f[k] = IF k = 0 THEN 1 ELSE (f[k - 1] * x) % Prime
    BY <2>1 DEF IsPower
  <2>3. \A k \in 0 .. n : /\ k # n => k \in 0 .. n - 1 /\ g[k] = f[k]
                          /\ k # 0 => k - 1 \in 0 .. n /\ g[k - 1] = f[k - 1]
    OBVIOUS
  <2>4. n # 0 /\ n \in 0 .. n /\ g[n] = (f[n - 1] * x) % Prime
    OBVIOUS
  <2>5. g = [k \in 0 .. n |-> g[k]]
    OBVIOUS
  <2> HIDE DEF g
  <2>6. ASSUME NEW k \in 0 .. n PROVE g[k] = IF k = 0 THEN 1 ELSE (g[k - 1] * x) % Prime
    <3>1. CASE k = n
      BY <2>3, <2>4, <3>1
    <3>2. CASE k # n
      BY <2>2, <2>3, <3>2
    <3> QED BY <3>1, <3>2
  <2>7. IsPower(x, n, g)
    BY <2>5, <2>6, Zenon DEF IsPower
  <2> QED BY <2>7
<1> HIDE DEF T
<1>3. \A n \in 0 .. N : n \in T
  BY <1>1, <1>2, UpTo
<1>4. N \in T
  BY <1>3
<1> QED BY <1>4 DEF T

\* Two such functions agree where both are defined.
LEMMA PowerAgree ==
  ASSUME NEW x, NEW N \in Nat, NEW M \in N .. N + 1, NEW f, NEW g, IsPower(x, N, f), IsPower(x, M, g)
  PROVE  f[N] = g[N]
<1> DEFINE T == {n \in 0 .. N : f[n] = g[n]}
<1>1. \A k \in 0 .. N : f[k] = IF k = 0 THEN 1 ELSE (f[k - 1] * x) % Prime
  BY DEF IsPower
<1>2. \A k \in 0 .. M : g[k] = IF k = 0 THEN 1 ELSE (g[k - 1] * x) % Prime
  BY DEF IsPower
<1>3. 0 \in T /\ \A n \in 1 .. N : n - 1 \in T => n \in T
  <2>1. 0 \in 0 .. N /\ 0 \in 0 .. M /\ f[0] = g[0]
    BY <1>1, <1>2
  <2>2. ASSUME NEW n \in 1 .. N, f[n - 1] = g[n - 1] PROVE f[n] = g[n]
    <3>1. n \in 0 .. N /\ n \in 0 .. M /\ n # 0
      OBVIOUS
    <3>2. f[n] = (f[n - 1] * x) % Prime
      BY <1>1, <3>1
    <3>3. g[n] = (g[n - 1] * x) % Prime
      BY <1>2, <3>1
    <3> QED BY <2>2, <3>2, <3>3
  <2>3. \A n \in 1 .. N : n \in 0 .. N
    OBVIOUS
  <2> QED BY <2>1, <2>2, <2>3
<1> HIDE DEF T
<1>4. \A n \in 0 .. N : n \in T
  BY <1>3, UpTo
<1>5. N \in T
  BY <1>4
<1> QED BY <1>5 DEF T

\* What Power computes.
LEMMA PowerIs ==
  ASSUME NEW x, NEW n \in Nat
  PROVE  \E f : IsPower(x, n, f) /\ Power(x, n) = f[n]
<1> DEFINE f == CHOOSE g : IsPower(x, n, g)
<1>1. IsPower(x, n, f)
  BY PowerExists, Zenon
<1>2. Power(x, n) = f[n]
  BY Zenon DEF Power, IsPower
<1> QED BY <1>1, <1>2

\* Power as a recursion.
LEMMA PowerStep ==
  ASSUME NEW x, NEW n \in Nat
  PROVE  Power(x, 0) = 1 /\ Power(x, n + 1) = (Power(x, n) * x) % Prime
<1>1. Power(x, 0) = 1
  <2>1. PICK f : IsPower(x, 0, f) /\ Power(x, 0) = f[0]
    BY PowerIs
  <2> QED BY <2>1 DEF IsPower
<1>2. Power(x, n + 1) = (Power(x, n) * x) % Prime
  <2>0. n + 1 \in Nat /\ n + 1 \in n .. n + 1 /\ n + 1 \in 0 .. n + 1 /\ n + 1 # 0 /\ (n + 1) - 1 = n
    OBVIOUS
  <2>1. PICK f : IsPower(x, n, f) /\ Power(x, n) = f[n]
    BY PowerIs
  <2>2. PICK g : IsPower(x, n + 1, g) /\ Power(x, n + 1) = g[n + 1]
    BY <2>0, PowerIs
  <2>3. f[n] = g[n]
    BY <2>0, <2>1, <2>2, PowerAgree
  <2>4. g[n + 1] = (g[(n + 1) - 1] * x) % Prime
    BY <2>0, <2>2 DEF IsPower
  <2> QED BY <2>0, <2>1, <2>2, <2>3, <2>4
<1> QED BY <1>1, <1>2

\* Powers are scalars; one more factor.
LEMMA PowerType ==
  ASSUME NEW x \in Int, NEW n \in Nat
  PROVE  /\ Power(x, n) \in Scalar /\ Power(x, n) \in Int
<1> DEFINE T == {k \in 0 .. n : Power(x, k) \in Scalar}
<1>1. 0 \in T /\ \A k \in 1 .. n : k - 1 \in T => k \in T
  <2>1. 0 \in T
    BY PowerStep, ScalarType
  <2>2. ASSUME NEW k \in 1 .. n, Power(x, k - 1) \in Scalar PROVE Power(x, k) \in Scalar
    <3>1. k - 1 \in Nat /\ (k - 1) + 1 = k
      OBVIOUS
    <3>2. Power(x, (k - 1) + 1) = (Power(x, k - 1) * x) % Prime
      BY <3>1, PowerStep
    <3>3. Power(x, k - 1) * x \in Int
      <4>1. Power(x, k - 1) \in Int
        BY <2>2, ScalarType
      <4> QED BY <4>1
    <3> QED BY <3>1, <3>2, <3>3, ModType
  <2>3. \A k \in 1 .. n : k \in 0 .. n
    OBVIOUS
  <2> QED BY <2>1, <2>2, <2>3
<1> HIDE DEF T
<1>2. \A k \in 0 .. n : k \in T
  BY <1>1, UpTo
<1>3. n \in T
  BY <1>2
<1> QED BY <1>3, ScalarType DEF T

LEMMA PowerNext ==
  ASSUME NEW x \in Int, NEW n \in Nat
  PROVE  Same(Power(x, n + 1), Power(x, n) * x)
<1>1. Power(x, n) * x \in Int
  BY PowerType
<1> QED BY <1>1, PowerStep, ModType

\* Powers of one base multiply by adding exponents, powers of two bases factor
\* by factor, and a power of a power multiplies exponents.
LEMMA PowerPlus ==
  ASSUME NEW x \in Int, NEW a \in Nat, NEW b \in Nat
  PROVE  Same(Power(x, a + b), Power(x, a) * Power(x, b))
<1> DEFINE p == Power(x, a)
           T == {k \in 0 .. b : Same(Power(x, a + k), p * Power(x, k))}
<1>0. p \in Int
  BY PowerType
<1>1. 0 \in T
  <2>1. a + 0 = a /\ p * 1 = p
    BY <1>0
  <2>2. Same(p, p)
    BY <1>0, SameRefl
  <2>3. Power(x, 0) = 1
    BY PowerStep
  <2> QED BY <2>1, <2>2, <2>3
<1>2. ASSUME NEW k \in 1 .. b, k - 1 \in T PROVE k \in T
  <2> DEFINE j == k - 1
             q == Power(x, j)
             r == Power(x, a + j)
             s == Power(x, j + 1)
             t == Power(x, (a + j) + 1)
  <2>1. j \in Nat /\ j + 1 = k /\ (a + j) + 1 = a + k /\ a + j \in Nat /\ k \in 0 .. b /\ j + 1 \in Nat
    OBVIOUS
  <2>2. Same(r, p * q)
    BY <1>2
  <2> HIDE DEF j
  <2>3. q \in Int /\ r \in Int /\ s \in Int /\ t \in Int
    BY <2>1, PowerType
  <2>4. Same(t, r * x)
    BY <2>1, PowerNext
  <2>5. Same(s, q * x)
    BY <2>1, PowerNext
  <2> HIDE DEF p, q, r, s, t
  <2>6. Same(r * x, (p * q) * x)
    <3>1. Same(x, x) /\ p * q \in Int
      BY <1>0, <2>3, SameRefl
    <3> QED BY <2>2, <2>3, <3>1, SameTimes
  <2>7. Same(p * (q * x), p * s)
    <3>1. Same(p, p) /\ q * x \in Int /\ Same(q * x, s)
      BY <1>0, <2>3, <2>5, SameRefl, SameSym
    <3> QED BY <1>0, <2>3, <3>1, SameTimes
  <2>8. (p * q) * x = p * (q * x) /\ p * (q * x) \in Int /\ r * x \in Int /\ p * s \in Int
    BY <1>0, <2>3
  <2>9. Same(t, p * (q * x))
    BY <2>3, <2>4, <2>6, <2>8, SameTrans
  <2>10. Same(t, p * s)
    BY <2>3, <2>7, <2>8, <2>9, SameTrans
  <2> QED BY <2>1, <2>10 DEF s, t, p
<1> HIDE DEF T
<1>3. \A k \in 0 .. b : k \in T
  BY <1>1, <1>2, UpTo
<1>4. b \in T
  BY <1>3
<1> QED BY <1>4 DEF T

LEMMA PowerOfProduct ==
  ASSUME NEW x \in Int, NEW y \in Int, NEW z \in Int, Same(z, x * y), NEW n \in Nat
  PROVE  Same(Power(z, n), Power(x, n) * Power(y, n))
<1> DEFINE T == {k \in 0 .. n : Same(Power(z, k), Power(x, k) * Power(y, k))}
<1>1. 0 \in T
  <2>1. Same(1, 1) /\ 1 * 1 = 1
    BY SameRefl
  <2>3. Power(x, 0) = 1 /\ Power(y, 0) = 1 /\ Power(z, 0) = 1
    BY PowerStep
  <2> QED BY <2>1, <2>3
<1>2. ASSUME NEW k \in 1 .. n, k - 1 \in T PROVE k \in T
  <2> DEFINE j == k - 1
             a == Power(x, j)
             b == Power(y, j)
             c == Power(z, j)
             d == Power(x, j + 1)
             e == Power(y, j + 1)
             f == Power(z, j + 1)
  <2>1. j \in Nat /\ j + 1 = k /\ k \in 0 .. n
    OBVIOUS
  <2>2. Same(c, a * b)
    BY <1>2
  <2> HIDE DEF j
  <2>3. a \in Int /\ b \in Int /\ c \in Int /\ d \in Int /\ e \in Int /\ f \in Int
    BY <2>1, PowerType
  <2>4. Same(d, a * x) /\ Same(e, b * y) /\ Same(f, c * z)
    BY <2>1, PowerNext
  <2> HIDE DEF a, b, c, d, e, f
  <2>5. a * b \in Int /\ x * y \in Int /\ a * x \in Int /\ b * y \in Int /\ c * z \in Int /\ d * e \in Int
    BY <2>3
  <2>6. Same(c * z, (a * b) * (x * y))
    BY <2>2, <2>3, <2>5, SameTimes
  <2>7. Same(d * e, (a * x) * (b * y))
    BY <2>3, <2>4, <2>5, SameTimes
  <2>8. (a * b) * (x * y) = (a * x) * (b * y) /\ (a * x) * (b * y) \in Int
    BY <2>3
  <2>9. Same((a * x) * (b * y), d * e)
    BY <2>5, <2>7, <2>8, SameSym
  <2>10. Same(f, (a * x) * (b * y))
    BY <2>3, <2>4, <2>5, <2>6, <2>8, SameTrans
  <2>11. Same(f, d * e)
    BY <2>3, <2>5, <2>8, <2>9, <2>10, SameTrans
  <2> QED BY <2>1, <2>11 DEF d, e, f
<1> HIDE DEF T
<1>3. \A k \in 0 .. n : k \in T
  BY <1>1, <1>2, UpTo
<1>4. n \in T
  BY <1>3
<1> QED BY <1>4 DEF T

LEMMA PowerOfPower ==
  ASSUME NEW x \in Int, NEW a \in Nat, NEW b \in Nat
  PROVE  a * b \in Nat /\ Power(x, a * b) = Power(Power(x, a), b)
<1> DEFINE y == Power(x, a)
           T == {k \in 0 .. b : Power(x, a * k) = Power(y, k)}
<1>0. y \in Int
  BY PowerType
<1>1. 0 \in T
  <2>1. Power(x, 0) = 1 /\ Power(y, 0) = 1 /\ a * 0 = 0
    BY PowerStep
  <2> QED BY <2>1
<1>2. ASSUME NEW k \in 1 .. b, k - 1 \in T PROVE k \in T
  <2> DEFINE j == k - 1
             m == a * j
             p == Power(x, m)
             q == Power(x, m + a)
             r == Power(y, j + 1)
  <2>1. j \in Nat /\ j + 1 = k /\ k \in 0 .. b
    OBVIOUS
  <2>2. p = Power(y, j)
    BY <1>2
  <2> HIDE DEF j
  <2>3. m \in Nat /\ m + a = a * (j + 1)
    BY <2>1
  <2> HIDE DEF m, y
  <2>4. Same(q, p * y)
    BY <2>3, PowerPlus DEF y
  <2>5. Same(r, p * y)
    BY <1>0, <2>1, <2>2, PowerNext
  <2>6. p \in Int /\ q \in Int /\ r \in Int /\ q \in Scalar /\ r \in Scalar
    BY <1>0, <2>1, <2>3, PowerType
  <2> HIDE DEF p, q, r
  <2>7. p * y \in Int
    BY <1>0, <2>6
  <2>8. Same(p * y, r)
    BY <2>5, <2>6, <2>7, SameSym
  <2>9. Same(q, r)
    BY <2>4, <2>6, <2>7, <2>8, SameTrans
  <2>10. q = r
    BY <2>6, <2>9, SameScalar
  <2> QED BY <2>1, <2>3, <2>10 DEF q, r
<1> HIDE DEF T
<1>3. \A k \in 0 .. b : k \in T
  BY <1>1, <1>2, UpTo
<1>4. b \in T
  BY <1>3
<1> QED BY <1>4 DEF T

-------------------------------------------------------------------------------
\* Evaluation by Horner's scheme.

\* The polynomials of fewer than n coefficients, and Horner's scheme.
Ints(n) == [Indices(n) -> Int]
IsHorner(c, n, x, h) ==
  h = [j \in 0 .. n |-> IF j = 0 THEN 0 ELSE (h[j - 1] * x + c[n - j]) % Prime]

\* There is a Horner function, and Eval takes its last value.
LEMMA HornerExists ==
  ASSUME NEW c, NEW x, NEW n \in Nat
  PROVE  \E h : IsHorner(c, n, x, h)
<1> DEFINE Is(m, h) == h = [j \in 0 .. m |-> IF j = 0 THEN 0 ELSE (h[j - 1] * x + c[n - j]) % Prime]
           T == {m \in 0 .. n : \E h : Is(m, h)}
<1>1. 0 \in T
  <2> DEFINE f == [k \in 0 .. 0 |-> 0]
  <2>1. Is(0, f)
    OBVIOUS
  <2> HIDE DEF f
  <2> QED BY <2>1
<1>2. ASSUME NEW m \in 1 .. n, m - 1 \in T PROVE m \in T
  <2>1. PICK f : Is(m - 1, f)
    BY <1>2
  <2> DEFINE g == [k \in 0 .. m |-> IF k = m THEN (f[m - 1] * x + c[n - m]) % Prime ELSE f[k]]
  <2>2. \A k \in 0 .. m - 1 : f[k] = IF k = 0 THEN 0 ELSE (f[k - 1] * x + c[n - k]) % Prime
    BY <2>1
  <2>3. \A k \in 0 .. m : /\ k # m => k \in 0 .. m - 1 /\ g[k] = f[k]
                          /\ k # 0 => k - 1 \in 0 .. m /\ g[k - 1] = f[k - 1]
    OBVIOUS
  <2>4. m # 0 /\ m \in 0 .. m /\ g[m] = (f[m - 1] * x + c[n - m]) % Prime
    OBVIOUS
  <2>5. g = [k \in 0 .. m |-> g[k]]
    OBVIOUS
  <2> HIDE DEF g
  <2>6. ASSUME NEW k \in 0 .. m PROVE g[k] = IF k = 0 THEN 0 ELSE (g[k - 1] * x + c[n - k]) % Prime
    <3>1. CASE k = m
      BY <2>3, <2>4, <3>1
    <3>2. CASE k # m
      BY <2>2, <2>3, <3>2
    <3> QED BY <3>1, <3>2
  <2>7. Is(m, g)
    BY <2>5, <2>6, Zenon
  <2> QED BY <2>7
<1> HIDE DEF T
<1>3. \A m \in 0 .. n : m \in T
  BY <1>1, <1>2, UpTo
<1>4. n \in T
  BY <1>3
<1>5. \E h : Is(n, h)
  BY <1>4 DEF T
<1> QED BY <1>5, Zenon DEF IsHorner

LEMMA EvalIs ==
  ASSUME NEW c, NEW x, NEW n \in Nat
  PROVE  \E h : IsHorner(c, n, x, h) /\ Eval(c, n, x) = h[n]
<1> DEFINE h == CHOOSE g : IsHorner(c, n, x, g)
<1>1. IsHorner(c, n, x, h)
  BY HornerExists, Zenon
<1>2. Eval(c, n, x) = h[n]
  BY Zenon DEF Eval, IsHorner
<1> QED BY <1>1, <1>2

\* Its values are scalars.
LEMMA HornerType ==
  ASSUME NEW n \in Nat, NEW c, \A k \in Indices(n) : c[k] \in Int, NEW x \in Int, NEW h, IsHorner(c, n, x, h)
  PROVE  /\ h[0] = 0
         /\ \A j \in 0 .. n : h[j] \in Scalar /\ h[j] \in Int
         /\ \A j \in 1 .. n : Same(h[j], h[j - 1] * x + c[n - j])
<1> DEFINE T == {j \in 0 .. n : h[j] \in Scalar}
<1>1. h[0] = 0 /\ \A j \in 1 .. n : h[j] = (h[j - 1] * x + c[n - j]) % Prime
  BY DEF IsHorner
<1>2. ASSUME NEW j \in 1 .. n, h[j - 1] \in Scalar
      PROVE  h[j] \in Scalar /\ Same(h[j], h[j - 1] * x + c[n - j])
  <2>1. h[j - 1] \in Int /\ n - j \in Indices(n)
    <3>1. h[j - 1] \in Int
      BY <1>2, ScalarType
    <3>2. n - j \in Indices(n)
      BY DEF Indices
    <3> QED BY <3>1, <3>2
  <2>2. c[n - j] \in Int
    BY <2>1
  <2> DEFINE e == h[j - 1] * x + c[n - j]
  <2>3. e \in Int
    BY <2>1, <2>2
  <2>4. h[j] = e % Prime
    BY <1>1
  <2> HIDE DEF e
  <2>5. h[j] \in Scalar /\ Same(h[j], e)
    BY <2>3, <2>4, ModType
  <2> QED BY <2>5 DEF e
<1>3. 0 \in T /\ \A j \in 1 .. n : j - 1 \in T => j \in T
  <2>1. 0 \in 0 .. n /\ \A j \in 1 .. n : j \in 0 .. n
    OBVIOUS
  <2> QED BY <1>1, <1>2, <2>1, ScalarType
<1> HIDE DEF T
<1>4. \A j \in 0 .. n : j \in T
  BY <1>3, UpTo
<1>5. \A j \in 0 .. n : h[j] \in Scalar
  BY <1>4 DEF T
<1>6. \A j \in 1 .. n : h[j - 1] \in Scalar
  <2>1. \A j \in 1 .. n : j - 1 \in 0 .. n
    OBVIOUS
  <2> QED BY <1>5, <2>1
<1> QED BY <1>1, <1>2, <1>5, <1>6, ScalarType

\* One coefficient more adds its term.
LEMMA EvalStep ==
  ASSUME NEW n \in Nat, NEW c, \A k \in Indices(n + 1) : c[k] \in Int, NEW x \in Int
  PROVE  /\ Eval(c, n, x) \in Scalar /\ Eval(c, n, x) \in Int
         /\ Eval(c, n + 1, x) \in Scalar /\ Eval(c, n + 1, x) \in Int
         /\ c[n] * Power(x, n) \in Int
         /\ Same(Eval(c, n + 1, x), Eval(c, n, x) + c[n] * Power(x, n))
<1>0. /\ n + 1 \in Nat /\ n \in Indices(n + 1) /\ \A k \in Indices(n) : k \in Indices(n + 1)
      /\ n \in 0 .. n /\ n + 1 \in 0 .. n + 1
  BY DEF Indices
<1>1. PICK h : IsHorner(c, n, x, h) /\ Eval(c, n, x) = h[n]
  BY EvalIs
<1>2. PICK g : IsHorner(c, n + 1, x, g) /\ Eval(c, n + 1, x) = g[n + 1]
  BY <1>0, EvalIs
<1>3. /\ h[0] = 0 /\ \A j \in 0 .. n : h[j] \in Scalar /\ h[j] \in Int
      /\ \A j \in 1 .. n : Same(h[j], h[j - 1] * x + c[n - j])
  <2>1. \A k \in Indices(n) : c[k] \in Int
    BY <1>0
  <2> QED BY <1>1, <2>1, HornerType
<1>4. /\ g[0] = 0 /\ \A j \in 0 .. n + 1 : g[j] \in Scalar /\ g[j] \in Int
      /\ \A j \in 1 .. n + 1 : Same(g[j], g[j - 1] * x + c[(n + 1) - j])
  BY <1>0, <1>2, HornerType
<1> DEFINE t == c[n]
           T == {j \in 0 .. n : Same(g[j + 1], h[j] + t * Power(x, j))}
<1>5. t \in Int
  BY <1>0
<1>6. 0 \in T
  <2>1. Power(x, 0) = 1
    BY PowerStep
  <2>2. 1 \in 1 .. n + 1 /\ 1 - 1 = 0 /\ (n + 1) - 1 = n /\ 0 + 1 = 1 /\ 0 \in 0 .. n
    OBVIOUS
  <2>3. Same(g[1], g[0] * x + t)
    BY <1>4, <2>2
  <2>4. 0 * x + t = 0 + t * 1
    BY <1>5
  <2> QED BY <1>3, <1>4, <2>1, <2>2, <2>3, <2>4
<1>7. ASSUME NEW j \in 1 .. n, j - 1 \in T PROVE j \in T
  <2> DEFINE i == j - 1
             p == Power(x, i)
             q == Power(x, i + 1)
             a == g[j + 1]
             b == g[j]
             d == h[j]
             e == h[i]
             s == c[n - j]
  <2>1. i \in Nat /\ i + 1 = j /\ j \in 0 .. n /\ i \in 0 .. n /\ j + 1 \in 0 .. n + 1 /\ j \in 0 .. n + 1
        /\ (n + 1) - (j + 1) = n - j /\ (j + 1) - 1 = j /\ j + 1 \in 1 .. n + 1 /\ n - j \in Indices(n + 1)
    BY DEF Indices
  <2>2. a \in Int /\ b \in Int /\ d \in Int /\ e \in Int /\ s \in Int /\ p \in Int /\ q \in Int
    <3>1. p \in Int /\ q \in Int
      BY <2>1, PowerType
    <3> QED BY <1>3, <1>4, <2>1, <3>1
  <2>3. Same(b, e + t * p)
    BY <1>7, <2>1
  <2>4. Same(a, b * x + s)
    BY <1>4, <2>1
  <2>5. Same(d, e * x + s)
    BY <1>3
  <2>6. Same(q, p * x)
    BY <2>1, PowerNext
  <2> HIDE DEF a, b, d, e, s, p, q, t, i
  <2>7. e + t * p \in Int /\ (e + t * p) * x \in Int /\ b * x \in Int /\ e * x + s \in Int /\ b * x + s \in Int
        /\ p * x \in Int /\ t * (p * x) \in Int /\ t * q \in Int /\ d + t * q \in Int
    BY <1>5, <2>2
  <2>8. Same(b * x, (e + t * p) * x)
    <3>1. Same(x, x)
      BY SameRefl
    <3> QED BY <2>2, <2>3, <2>7, <3>1, SameTimes
  <2>9. Same(b * x + s, (e + t * p) * x + s)
    <3>1. Same(s, s)
      BY <2>2, SameRefl
    <3> QED BY <2>2, <2>7, <2>8, <3>1, SamePlus
  <2>10. (e + t * p) * x + s = (e * x + s) + t * (p * x)
    BY <1>5, <2>2
  <2>11. Same(t * q, t * (p * x))
    <3>1. Same(t, t)
      BY <1>5, SameRefl
    <3> QED BY <1>5, <2>2, <2>6, <2>7, <3>1, SameTimes
  <2>12. Same(d + t * q, (e * x + s) + t * (p * x))
    BY <2>2, <2>5, <2>7, <2>11, SamePlus
  <2>13. Same((e * x + s) + t * (p * x), d + t * q)
    <3>1. (e * x + s) + t * (p * x) \in Int
      BY <2>7
    <3> QED BY <2>7, <2>12, <3>1, SameSym
  <2>14. Same(a, (e * x + s) + t * (p * x))
    <3>1. (e * x + s) + t * (p * x) \in Int
      BY <2>7
    <3> QED BY <2>2, <2>4, <2>7, <2>9, <2>10, <3>1, SameTrans
  <2>15. Same(a, d + t * q)
    <3>1. (e * x + s) + t * (p * x) \in Int
      BY <2>7
    <3> QED BY <2>2, <2>7, <2>13, <2>14, <3>1, SameTrans
  <2> QED BY <2>1, <2>15 DEF a, d, q
<1> HIDE DEF T
<1>8. \A j \in 0 .. n : j \in T
  BY <1>6, <1>7, UpTo
<1>9. n \in T
  BY <1>0, <1>8
<1>10. Same(g[n + 1], h[n] + t * Power(x, n))
  BY <1>9 DEF T
<1>11. t * Power(x, n) \in Int
  <2>1. Power(x, n) \in Int
    BY PowerType
  <2> HIDE DEF t
  <2> QED BY <1>5, <2>1
<1>12. h[n] \in Scalar /\ h[n] \in Int /\ g[n + 1] \in Scalar /\ g[n + 1] \in Int
  BY <1>0, <1>3, <1>4
<1> QED BY <1>1, <1>2, <1>10, <1>11, <1>12

\* No coefficients: 0.  Any coefficients: a scalar.
LEMMA EvalNone ==
  ASSUME NEW c, NEW x
  PROVE  Eval(c, 0, x) = 0
<1>1. PICK h : IsHorner(c, 0, x, h) /\ Eval(c, 0, x) = h[0]
  BY EvalIs
<1> QED BY <1>1 DEF IsHorner

LEMMA EvalType ==
  ASSUME NEW n \in Nat, NEW c, \A k \in Indices(n) : c[k] \in Int, NEW x \in Int
  PROVE  Eval(c, n, x) \in Scalar /\ Eval(c, n, x) \in Int
<1>1. PICK h : IsHorner(c, n, x, h) /\ Eval(c, n, x) = h[n]
  BY EvalIs
<1>2. h[n] \in Scalar /\ h[n] \in Int
  <2>1. n \in 0 .. n
    OBVIOUS
  <2> QED BY <1>1, <2>1, HornerType
<1> QED BY <1>1, <1>2

\* One element of a sum of products is replaced.
LEMMA SameAffine ==
  ASSUME NEW a \in Int, NEW b \in Int, NEW p \in Int, NEW q \in Int, Same(a, b)
  PROVE  Same((p * a) + q, (p * b) + q)
<1>1. Same(p, p) /\ Same(q, q)
  BY SameRefl
<1>2. Same(p * a, p * b)
  BY <1>1, SameTimes
<1>3. p * a \in Int /\ p * b \in Int
  OBVIOUS
<1> QED BY <1>1, <1>2, <1>3, SamePlus

\* Sums of the same elements are the same.
LEMMA SameSum ==
  ASSUME NEW a \in Int, NEW b \in Int, NEW p \in Int, NEW c \in Int, NEW d \in Int, NEW q \in Int,
         Same(a, b), Same(c, d)
  PROVE  Same((p * a) + (q * c), (p * b) + (q * d))
<1>1. Same(p, p) /\ Same(q, q)
  BY SameRefl
<1>2. Same(p * a, p * b) /\ Same(q * c, q * d)
  BY <1>1, SameTimes
<1>3. p * a \in Int /\ p * b \in Int /\ q * c \in Int /\ q * d \in Int
  OBVIOUS
<1> QED BY <1>2, <1>3, SamePlus

\* Evaluation is linear in the coefficients.
LEMMA EvalLinear ==
  ASSUME NEW n \in Nat, NEW c, NEW d, NEW e, NEW a \in Int, NEW b \in Int, NEW x \in Int,
         \A k \in Indices(n) : c[k] \in Int /\ d[k] \in Int /\ e[k] \in Int
                               /\ Same(e[k], (a * c[k]) + (b * d[k]))
  PROVE  Same(Eval(e, n, x), (a * Eval(c, n, x)) + (b * Eval(d, n, x)))
<1> DEFINE T == {j \in 0 .. n : Same(Eval(e, j, x), (a * Eval(c, j, x)) + (b * Eval(d, j, x)))}
<1>1. 0 \in T
  <2>1. Eval(e, 0, x) = 0 /\ Eval(c, 0, x) = 0 /\ Eval(d, 0, x) = 0
    BY EvalNone
  <2>2. (a * 0) + (b * 0) = 0 /\ Same(0, 0) /\ 0 \in 0 .. n
    BY SameRefl
  <2> QED BY <2>1, <2>2
<1>2. ASSUME NEW j \in 1 .. n, j - 1 \in T PROVE j \in T
  <2> DEFINE i == j - 1
             E0 == Eval(e, i, x)
             C0 == Eval(c, i, x)
             D0 == Eval(d, i, x)
             E1 == Eval(e, i + 1, x)
             C1 == Eval(c, i + 1, x)
             D1 == Eval(d, i + 1, x)
             p == Power(x, i)
             u == c[i]
             v == d[i]
             w == e[i]
  <2>1. i \in Nat /\ i + 1 = j /\ j \in 0 .. n /\ \A k \in Indices(i + 1) : k \in Indices(n)
    BY DEF Indices
  <2>2. i \in Indices(n)
    BY DEF Indices
  <2>3. Same(E0, (a * C0) + (b * D0))
    BY <1>2
  <2>4. u \in Int /\ v \in Int /\ w \in Int /\ Same(w, (a * u) + (b * v))
    BY <2>2
  <2> HIDE DEF i
  <2>5. /\ E0 \in Int /\ E1 \in Int /\ w * p \in Int /\ Same(E1, E0 + w * p)
        /\ C0 \in Int /\ C1 \in Int /\ u * p \in Int /\ Same(C1, C0 + u * p)
        /\ D0 \in Int /\ D1 \in Int /\ v * p \in Int /\ Same(D1, D0 + v * p)
    <3>1. \A k \in Indices(i + 1) : c[k] \in Int
      BY <2>1
    <3>2. \A k \in Indices(i + 1) : d[k] \in Int
      BY <2>1
    <3>3. \A k \in Indices(i + 1) : e[k] \in Int
      BY <2>1
    <3>4. E0 \in Int /\ E1 \in Int /\ w * p \in Int /\ Same(E1, E0 + w * p)
      BY <2>1, <3>3, EvalStep
    <3>5. C0 \in Int /\ C1 \in Int /\ u * p \in Int /\ Same(C1, C0 + u * p)
      BY <2>1, <3>1, EvalStep
    <3>6. D0 \in Int /\ D1 \in Int /\ v * p \in Int /\ Same(D1, D0 + v * p)
      BY <2>1, <3>2, EvalStep
    <3> QED BY <3>4, <3>5, <3>6
  <2>6. p \in Int
    BY <2>1, PowerType
  <2> HIDE DEF E0, C0, D0, E1, C1, D1, p, u, v, w
  <2>7. Same((1 * E0) + (p * w), (1 * ((a * C0) + (b * D0))) + (p * ((a * u) + (b * v))))
    <3>1. (a * C0) + (b * D0) \in Int /\ (a * u) + (b * v) \in Int
      BY <2>4, <2>5
    <3> DEFINE g == (a * C0) + (b * D0)
               h == (a * u) + (b * v)
    <3>2. Same(E0, g) /\ Same(w, h) /\ 1 \in Int
      BY <2>3, <2>4
    <3> HIDE DEF g, h
    <3>3. Same((1 * E0) + (p * w), (1 * g) + (p * h))
      BY <2>4, <2>5, <2>6, <3>1, <3>2, SameSum DEF g, h
    <3> QED BY <3>3 DEF g, h
  <2>8. (1 * E0) + (p * w) = E0 + w * p
    BY <2>4, <2>5, <2>6
  <2>9. (1 * ((a * C0) + (b * D0))) + (p * ((a * u) + (b * v))) = (a * (C0 + u * p)) + (b * (D0 + v * p))
    BY <2>4, <2>5, <2>6
  <2> DEFINE m == (a * (C0 + u * p)) + (b * (D0 + v * p))
             r == (a * C1) + (b * D1)
  <2>10. m \in Int /\ r \in Int /\ C0 + u * p \in Int /\ D0 + v * p \in Int /\ E0 + w * p \in Int
    BY <2>5
  <2>11. Same(r, m)
    BY <2>5, <2>10, SameSum
  <2> HIDE DEF m, r
  <2>12. Same(E1, m)
    BY <2>5, <2>7, <2>8, <2>9, <2>10, SameTrans DEF m
  <2>13. Same(E1, r)
    BY <2>5, <2>10, <2>11, <2>12, SameSym, SameTrans
  <2> QED BY <2>1, <2>13 DEF E1, r, C1, D1
<1> HIDE DEF T
<1>3. \A j \in 0 .. n : j \in T
  BY <1>1, <1>2, UpTo
<1>4. n \in T
  BY <1>3
<1> QED BY <1>4 DEF T

\* Only the elements the coefficients stand for count.
LEMMA EvalAgree ==
  ASSUME NEW n \in Nat, NEW c, NEW d, NEW x \in Int,
         \A k \in Indices(n) : c[k] \in Int /\ d[k] \in Int /\ Same(c[k], d[k])
  PROVE  Eval(c, n, x) = Eval(d, n, x)
<1>1. \A k \in Indices(n) : d[k] \in Int /\ d[k] \in Int /\ c[k] \in Int /\ Same(c[k], (1 * d[k]) + (0 * d[k]))
  <2> SUFFICES ASSUME NEW k \in Indices(n) PROVE Same(c[k], (1 * d[k]) + (0 * d[k]))
    OBVIOUS
  <2>1. (1 * d[k]) + (0 * d[k]) = d[k]
    OBVIOUS
  <2> QED BY <2>1
<1>2. Same(Eval(c, n, x), (1 * Eval(d, n, x)) + (0 * Eval(d, n, x)))
  BY <1>1, EvalLinear
<1>3. Eval(c, n, x) \in Scalar /\ Eval(d, n, x) \in Scalar /\ Eval(d, n, x) \in Int
  BY EvalType
<1>4. (1 * Eval(d, n, x)) + (0 * Eval(d, n, x)) = Eval(d, n, x)
  BY <1>3
<1> QED BY <1>2, <1>3, <1>4, SameScalar

\* Leading zeros add nothing.
LEMMA EvalTop ==
  ASSUME NEW m \in Nat, NEW n \in 0 .. m, NEW c, NEW x \in Int,
         \A k \in Indices(m) : c[k] \in Int /\ (k >= n => c[k] = 0)
  PROVE  Eval(c, m, x) = Eval(c, n, x)
<1> DEFINE N == m - n
           T == {j \in 0 .. N : Eval(c, n + j, x) = Eval(c, n, x)}
<1>1. N \in Nat /\ n + N = m /\ n + 0 = n
  OBVIOUS
<1>2. 0 \in T
  BY <1>1
<1>3. ASSUME NEW j \in 1 .. N, j - 1 \in T PROVE j \in T
  <2> DEFINE i == n + (j - 1)
             p == Power(x, i)
  <2>1. i \in Nat /\ i + 1 = n + j /\ i \in Indices(m) /\ i >= n /\ j \in 0 .. N
        /\ \A k \in Indices(i + 1) : k \in Indices(m)
    BY DEF Indices
  <2>2. Eval(c, i, x) = Eval(c, n, x)
    BY <1>3
  <2> HIDE DEF i, N
  <2>3. c[i] = 0 /\ \A k \in Indices(i + 1) : c[k] \in Int
    BY <2>1
  <2>4. /\ Eval(c, i, x) \in Scalar /\ Eval(c, i, x) \in Int
        /\ Eval(c, i + 1, x) \in Scalar
        /\ Same(Eval(c, i + 1, x), Eval(c, i, x) + c[i] * p)
    BY <2>1, <2>3, EvalStep
  <2>5. p \in Int
    BY <2>1, PowerType
  <2>6. Eval(c, i, x) + 0 * p = Eval(c, i, x)
    <3> HIDE DEF p
    <3> QED BY <2>4, <2>5
  <2>7. Eval(c, i + 1, x) = Eval(c, i, x)
    BY <2>3, <2>4, <2>6, SameScalar
  <2> QED BY <2>1, <2>2, <2>7
<1> HIDE DEF T
<1>4. \A j \in 0 .. N : j \in T
  BY <1>1, <1>2, <1>3, UpTo
<1>5. N \in T
  BY <1>1, <1>4
<1> QED BY <1>1, <1>5 DEF T

\* A polynomial multiplied by (x + s).
LEMMA EvalTimes ==
  ASSUME NEW n \in Nat \ {0}, NEW c, NEW e, NEW s \in Int, NEW x \in Int,
         \A k \in Indices(n) : c[k] \in Int,
         \A k \in Indices(n + 1) : e[k] \in Int,
         Same(e[0], s * c[0]), Same(e[n], c[n - 1]),
         \A k \in 1 .. n - 1 : Same(e[k], (s * c[k]) + c[k - 1])
  PROVE  Same(Eval(e, n + 1, x), (x + s) * Eval(c, n, x))
<1> DEFINE P(j) == Same(Eval(e, j + 1, x), (s * Eval(c, j + 1, x)) + (x * Eval(c, j, x)))
           N == n - 1
           T == {j \in 0 .. N : P(j)}
<1>0. N \in Nat /\ N + 1 = n
  OBVIOUS
<1>a. ASSUME NEW i \in 0 .. n
      PROVE  /\ Eval(e, i, x) \in Int /\ Eval(e, i + 1, x) \in Int /\ e[i] * Power(x, i) \in Int
             /\ Same(Eval(e, i + 1, x), Eval(e, i, x) + e[i] * Power(x, i))
             /\ Power(x, i) \in Int /\ e[i] \in Int
  <2>1. i \in Nat /\ \A k \in Indices(i + 1) : k \in Indices(n + 1)
    BY DEF Indices
  <2>2. \A k \in Indices(i + 1) : e[k] \in Int
    BY <2>1
  <2>3. i \in Indices(i + 1)
    BY DEF Indices
  <2> QED BY <2>1, <2>2, <2>3, EvalStep, PowerType
<1>b. ASSUME NEW i \in 0 .. N
      PROVE  /\ Eval(c, i, x) \in Int /\ Eval(c, i + 1, x) \in Int /\ c[i] * Power(x, i) \in Int
             /\ Same(Eval(c, i + 1, x), Eval(c, i, x) + c[i] * Power(x, i))
             /\ c[i] \in Int
  <2>1. i \in Nat /\ \A k \in Indices(i + 1) : k \in Indices(n)
    BY DEF Indices
  <2>2. \A k \in Indices(i + 1) : c[k] \in Int
    BY <2>1
  <2>3. i \in Indices(i + 1)
    BY DEF Indices
  <2> QED BY <2>1, <2>2, <2>3, EvalStep
<1>1. 0 \in T
  <2> DEFINE a == e[0]
             b == c[0]
             E1 == Eval(e, 1, x)
             C1 == Eval(c, 1, x)
  <2>1. 0 \in 0 .. n /\ 0 \in 0 .. N /\ 0 + 1 = 1
    OBVIOUS
  <2>2. Power(x, 0) = 1 /\ Eval(e, 0, x) = 0 /\ Eval(c, 0, x) = 0
    BY PowerStep, EvalNone
  <2>3. a \in Int /\ E1 \in Int /\ Same(E1, 0 + a * 1)
    BY <1>a, <2>1, <2>2
  <2>4. b \in Int /\ C1 \in Int /\ Same(C1, 0 + b * 1)
    BY <1>b, <2>1, <2>2
  <2>5. Same(a, s * b)
    OBVIOUS
  <2> HIDE DEF a, b, E1, C1
  <2>6. 0 + a * 1 = a /\ 0 + b * 1 = b /\ s * b \in Int
    BY <2>3, <2>4
  <2>7. Same(E1, s * b)
    BY <2>3, <2>5, <2>6, SameTrans
  <2>8. Same(s * C1, s * b)
    <3>1. Same(C1, b) /\ Same(s, s)
      BY <2>4, <2>6, SameRefl
    <3> QED BY <2>4, <3>1, SameTimes
  <2>9. s * C1 = (s * C1) + (x * 0) /\ (s * C1) + (x * 0) \in Int
    BY <2>4
  <2>10. Same(s * b, (s * C1) + (x * 0))
    BY <2>6, <2>8, <2>9, SameSym
  <2>11. Same(E1, (s * C1) + (x * 0))
    BY <2>3, <2>6, <2>7, <2>9, <2>10, SameTrans
  <2> QED BY <2>1, <2>2, <2>11 DEF E1, C1
<1>2. ASSUME NEW j \in 1 .. N, j - 1 \in T PROVE j \in T
  <2> DEFINE i == j - 1
             E1 == Eval(e, j, x)
             E2 == Eval(e, j + 1, x)
             C0 == Eval(c, i, x)
             C1 == Eval(c, j, x)
             C2 == Eval(c, j + 1, x)
             p == Power(x, i)
             q == Power(x, j)
             a == e[j]
             b == c[j]
             d == c[i]
  <2>1. i \in Nat /\ i + 1 = j /\ j \in 0 .. n /\ j \in 0 .. N /\ i \in 0 .. N /\ j \in 1 .. n - 1 /\ i \in 0 .. n
    OBVIOUS
  <2>2. Same(E1, (s * C1) + (x * C0))
    BY <1>2, <2>1
  <2>3. E1 \in Int /\ E2 \in Int /\ a \in Int /\ q \in Int /\ Same(E2, E1 + a * q)
    BY <1>a, <2>1
  <2>4. C1 \in Int /\ C2 \in Int /\ b \in Int /\ Same(C2, C1 + b * q)
    BY <1>b, <2>1
  <2>5. C0 \in Int /\ d \in Int /\ Same(C1, C0 + d * p)
    BY <1>b, <2>1
  <2>6. Same(a, (s * b) + d)
    BY <2>1
  <2>7. p \in Int /\ Same(q, p * x)
    BY <2>1, PowerType, PowerNext
  <2> HIDE DEF i, E1, E2, C0, C1, C2, p, q, a, b, d
  <2> DEFINE g == (s * C1) + (x * C0)
             h == (s * b) + d
             px == p * x
             m1 == (1 * E1) + (q * a)
             m2 == (1 * g) + (q * h)
             m3 == ((s * C1) + (q * (s * b))) + ((x * C0) + (q * d))
             m4 == (d * px) + ((s * C1) + (q * (s * b)) + (x * C0))
             m5 == (s * (C1 + b * q)) + (x * (C0 + d * p))
             m6 == (s * C2) + (x * C1)
  <2>8. g \in Int /\ h \in Int /\ px \in Int /\ m1 \in Int /\ m2 \in Int /\ m4 \in Int /\ m5 \in Int /\ m6 \in Int
    BY <2>3, <2>4, <2>5, <2>7
  <2>9. Same(m1, m2)
    <3>1. Same(E1, g) /\ Same(a, h) /\ 1 \in Int
      BY <2>2, <2>6
    <3> HIDE DEF g, h
    <3> QED BY <2>3, <2>8, <3>1, SameSum
  <2>10. m1 = E1 + a * q
    BY <2>3
  <2>11. Same(m2, m4)
    <3> DEFINE z == (s * C1) + (q * (s * b)) + (x * C0)
    <3>1. z \in Int
      BY <2>3, <2>4, <2>5
    <3>2. m2 = (d * q) + z
      BY <2>3, <2>4, <2>5
    <3>3. Same(q, px)
      BY <2>7
    <3>4. m4 = (d * px) + z
      OBVIOUS
    <3> HIDE DEF z, px, m2, m4
    <3> QED BY <2>3, <2>5, <2>8, <3>1, <3>2, <3>3, <3>4, SameAffine
  <2>12. m4 = m5
    BY <2>3, <2>4, <2>5, <2>7
  <2>13. Same(m6, m5)
    <3>1. C1 + b * q \in Int /\ C0 + d * p \in Int
      BY <2>3, <2>4, <2>5, <2>7
    <3> QED BY <2>4, <2>5, <3>1, SameSum
  <2> HIDE DEF m1, m2, m4, m5, m6
  <2>14. Same(E2, m5)
    BY <2>3, <2>8, <2>9, <2>10, <2>11, <2>12, SameTrans
  <2>15. Same(E2, m6)
    BY <2>3, <2>8, <2>13, <2>14, SameSym, SameTrans
  <2> QED BY <2>1, <2>15 DEF E2, m6, C1, C2
<1> HIDE DEF T
<1>3. \A j \in 0 .. N : j \in T
  BY <1>0, <1>1, <1>2, UpTo
<1>4. N \in T
  BY <1>0, <1>3
<1>5. P(N)
  BY <1>4 DEF T
<1> DEFINE E1 == Eval(e, n, x)
           E2 == Eval(e, n + 1, x)
           C0 == Eval(c, N, x)
           C1 == Eval(c, n, x)
           p == Power(x, N)
           q == Power(x, n)
           a == e[n]
           d == c[N]
<1>6. Same(E1, (s * C1) + (x * C0))
  BY <1>0, <1>5
<1>7. E1 \in Int /\ E2 \in Int /\ a \in Int /\ q \in Int /\ Same(E2, E1 + a * q)
  <2>1. n \in 0 .. n
    OBVIOUS
  <2> QED BY <1>a, <2>1
<1>8. C0 \in Int /\ d \in Int /\ C1 \in Int /\ Same(C1, C0 + d * p)
  <2>1. N \in 0 .. N
    BY <1>0
  <2> QED BY <1>0, <1>b, <2>1
<1>9. Same(a, d)
  OBVIOUS
<1>10. p \in Int /\ Same(q, p * x)
  BY <1>0, PowerType, PowerNext
<1> HIDE DEF E1, E2, C0, C1, p, q, a, d, N
<1> DEFINE g == (s * C1) + (x * C0)
           px == p * x
           m1 == (1 * E1) + (q * a)
           m2 == (1 * g) + (q * d)
           m3 == (d * px) + g
           m4 == (x * (C0 + d * p)) + (s * C1)
           m5 == (x * C1) + (s * C1)
<1>11. g \in Int /\ px \in Int /\ m1 \in Int /\ m2 \in Int /\ m3 \in Int /\ m4 \in Int /\ m5 \in Int
  BY <1>7, <1>8, <1>10
<1>12. Same(m1, m2)
  <2>1. Same(E1, g) /\ 1 \in Int
    BY <1>6
  <2> HIDE DEF g
  <2> QED BY <1>7, <1>8, <1>9, <1>11, <2>1, SameSum
<1>13. m1 = E1 + a * q
  BY <1>7
<1>14. Same(m2, m3)
  <2>1. m2 = (d * q) + g
    BY <1>7, <1>8, <1>11
  <2>2. Same(q, px)
    BY <1>10
  <2> HIDE DEF g, px, m2
  <2> QED BY <1>7, <1>8, <1>11, <2>1, <2>2, SameAffine
<1>15. m3 = m4
  BY <1>7, <1>8, <1>10
<1>16. Same(m5, m4)
  <2>1. C0 + d * p \in Int /\ s * C1 \in Int
    BY <1>8, <1>10
  <2> QED BY <1>8, <2>1, SameAffine
<1>17. m5 = (x + s) * C1
  BY <1>8
<1> HIDE DEF m1, m2, m3, m4, m5
<1>18. Same(E2, m4)
  BY <1>7, <1>11, <1>12, <1>13, <1>14, <1>15, SameTrans
<1>19. Same(E2, m5)
  BY <1>7, <1>11, <1>16, <1>18, SameSym, SameTrans
<1> QED BY <1>17, <1>19 DEF E2, C1

-------------------------------------------------------------------------------
\* Geometric sums and roots of unity.

\* Powers of 1, and of the same element.
LEMMA PowerOfOne ==
  ASSUME NEW n \in Nat
  PROVE  Power(1, n) = 1
<1> DEFINE T == {k \in 0 .. n : Power(1, k) = 1}
<1>1. 0 \in T
  BY PowerStep
<1>2. ASSUME NEW k \in 1 .. n, k - 1 \in T PROVE k \in T
  <2>1. k - 1 \in Nat /\ (k - 1) + 1 = k /\ k \in 0 .. n
    OBVIOUS
  <2>2. Power(1, (k - 1) + 1) = (1 * 1) % Prime
    BY <1>2, <2>1, PowerStep
  <2>3. 1 * 1 = 1 /\ 1 % Prime = 1
    BY ScalarType, ModOf
  <2> QED BY <2>1, <2>2, <2>3
<1> HIDE DEF T
<1>3. \A k \in 0 .. n : k \in T
  BY <1>1, <1>2, UpTo
<1>4. n \in T
  BY <1>3
<1> QED BY <1>4 DEF T

LEMMA PowerSame ==
  ASSUME NEW x \in Int, NEW y \in Int, Same(x, y), NEW n \in Nat
  PROVE  Power(x, n) = Power(y, n)
<1>1. y = y * 1 /\ 1 \in Int
  OBVIOUS
<1>2. Same(Power(x, n), Power(y, n) * Power(1, n))
  BY <1>1, PowerOfProduct
<1>3. Power(x, n) \in Scalar /\ Power(y, n) \in Scalar /\ Power(y, n) \in Int
  BY PowerType
<1>4. Power(y, n) * 1 = Power(y, n)
  BY <1>3
<1> QED BY <1>2, <1>3, <1>4, PowerOfOne, SameScalar

\* The values at b of the powers of a: a geometric sum.
LEMMA Geometric ==
  ASSUME NEW a \in Int, NEW b \in Int, NEW n \in Nat, NEW f,
         \A i \in Indices(n) : f[i] \in Int /\ Same(f[i], Power(a, i))
  PROVE  /\ Eval(f, n, b) \in Int
         /\ Same(((a * b) - 1) * Eval(f, n, b), Power(a * b, n) - 1)
         /\ Same(a * b, 1) => Same(Eval(f, n, b), n)
<1> DEFINE r == a * b
           T == {j \in 0 .. n : /\ Eval(f, j, b) \in Int
                                /\ Same((r - 1) * Eval(f, j, b), Power(r, j) - 1)
                                /\ Same(r, 1) => Same(Eval(f, j, b), j)}
<1>0. r \in Int /\ r - 1 \in Int
  OBVIOUS
<1>1. 0 \in T
  <2>1. Eval(f, 0, b) = 0 /\ Power(r, 0) = 1
    BY EvalNone, PowerStep
  <2>2. Same(0, 0) /\ (r - 1) * 0 = 0 /\ 1 - 1 = 0 /\ 0 \in 0 .. n
    BY SameRefl
  <2> QED BY <2>1, <2>2
<1>2. ASSUME NEW j \in 1 .. n, j - 1 \in T PROVE j \in T
  <2> DEFINE i == j - 1
             E0 == Eval(f, i, b)
             E1 == Eval(f, i + 1, b)
             p == Power(a, i)
             q == Power(b, i)
             s == Power(r, i)
             t == Power(r, i + 1)
             g == f[i]
  <2>1. i \in Nat /\ i + 1 = j /\ j \in 0 .. n /\ \A k \in Indices(i + 1) : k \in Indices(n)
    BY DEF Indices
  <2>a. i \in Indices(n)
    BY DEF Indices
  <2>2. E0 \in Int /\ Same((r - 1) * E0, s - 1) /\ (Same(r, 1) => Same(E0, i))
    BY <1>2
  <2> HIDE DEF i
  <2>3. g \in Int /\ Same(g, p)
    BY <2>a
  <2>4. E1 \in Int /\ g * q \in Int /\ Same(E1, E0 + g * q)
    <3>1. \A k \in Indices(i + 1) : f[k] \in Int
      BY <2>1
    <3> QED BY <2>1, <3>1, EvalStep
  <2>5. p \in Int /\ q \in Int /\ s \in Int /\ t \in Int /\ Same(t, s * r)
    <3>1. r \in Int
      BY <1>0
    <3> HIDE DEF r
    <3>2. i + 1 \in Nat
      BY <2>1
    <3>3. p \in Int /\ q \in Int /\ s \in Int
      BY <2>1, <3>1, PowerType
    <3>4. t \in Int
      BY <3>1, <3>2, PowerType
    <3>5. Same(t, s * r)
      BY <2>1, <3>1, PowerNext
    <3> QED BY <3>3, <3>4, <3>5
  <2>6. Same(s, p * q)
    <3>1. Same(r, a * b)
      BY <1>0, SameRefl
    <3> QED BY <1>0, <2>1, <3>1, PowerOfProduct
  <2>b. Same(r, 1) => s = 1
    BY <1>0, <2>1, PowerSame, PowerOfOne
  <2> HIDE DEF E0, E1, p, q, s, t, g, r
  <2>7. Same(g * q, s)
    <3>1. Same(q, q) /\ p * q \in Int
      BY <2>5, SameRefl
    <3>2. Same(g * q, p * q)
      BY <2>3, <2>5, <3>1, SameTimes
    <3>3. Same(p * q, s)
      BY <2>5, <2>6, <3>1, SameSym
    <3> QED BY <2>4, <2>5, <3>1, <3>2, <3>3, SameTrans
  <2>8. Same(E1, E0 + s)
    <3>1. Same(E0, E0) /\ E0 + g * q \in Int /\ E0 + s \in Int
      BY <2>2, <2>4, <2>5, SameRefl
    <3>2. Same(E0 + g * q, E0 + s)
      BY <2>2, <2>4, <2>5, <2>7, <3>1, SamePlus
    <3> QED BY <2>4, <3>1, <3>2, SameTrans
  <2>9. Same((r - 1) * E1, t - 1)
    <3> DEFINE l == (r - 1) * E0
               m1 == (r - 1) * E1
               m2 == (r - 1) * (E0 + s)
               m3 == (1 * l) + ((s * r) - s)
               m4 == (1 * (s - 1)) + ((s * r) - s)
               m5 == (1 * (s * r)) + (-1)
               m6 == (1 * t) + (-1)
    <3>1. l \in Int /\ m1 \in Int /\ m2 \in Int /\ m3 \in Int /\ m4 \in Int /\ m5 \in Int /\ m6 \in Int
          /\ s - 1 \in Int /\ (s * r) - s \in Int /\ s * r \in Int /\ -1 \in Int /\ 1 \in Int /\ E0 + s \in Int
      BY <1>0, <2>2, <2>4, <2>5
    <3>2. Same(m1, m2)
      <4>1. Same(r - 1, r - 1)
        BY <1>0, SameRefl
      <4> QED BY <1>0, <2>4, <2>8, <3>1, <4>1, SameTimes
    <3>3. m2 = m3
      BY <1>0, <2>2, <2>5
    <3>4. Same(m3, m4)
      <4>1. Same(l, s - 1)
        BY <2>2
      <4> HIDE DEF l
      <4> QED BY <3>1, <4>1, SameAffine
    <3>5. m4 = m5
      BY <1>0, <2>5
    <3>6. Same(m6, m5)
      BY <2>5, <3>1, SameAffine
    <3>7. m6 = t - 1
      BY <2>5
    <3> HIDE DEF l, m1, m2, m3, m4, m5, m6
    <3>8. Same(m1, m4)
      BY <3>1, <3>2, <3>3, <3>4, SameTrans
    <3>9. Same(m1, m6)
      BY <3>1, <3>5, <3>6, <3>8, SameSym, SameTrans
    <3> QED BY <3>7, <3>9 DEF m1
  <2>10. Same(r, 1) => Same(E1, i + 1)
    <3> SUFFICES ASSUME Same(r, 1) PROVE Same(E1, i + 1)
      OBVIOUS
    <3>1. Same(E0, i) /\ s = 1 /\ Same(s, 1)
      BY <2>2, <2>5, <2>b, SameRefl
    <3>2. Same(E0 + s, i + 1) /\ E0 + s \in Int /\ i + 1 \in Int
      BY <2>1, <2>2, <2>5, <3>1, SamePlus
    <3> QED BY <2>4, <2>8, <3>2, SameTrans
  <2> QED BY <2>1, <2>4, <2>9, <2>10 DEF E1, t
<1> HIDE DEF T
<1>3. \A j \in 0 .. n : j \in T
  BY <1>1, <1>2, UpTo
<1>4. n \in T
  BY <1>3
<1> QED BY <1>4 DEF T

\* The powers of w: a cyclic group of n elements, u the inverse of w.
Root(w, u, n) ==
  /\ w \in Scalar /\ u \in Scalar /\ Same(w * u, 1)
  /\ Power(w, n) = 1
  /\ \A i \in 1 .. n - 1 : Power(w, i) # 1

\* Powers of w and of its inverse cancel.
LEMMA InversePowers ==
  ASSUME NEW w \in Int, NEW u \in Int, Same(w * u, 1), NEW i \in Nat
  PROVE  Same(Power(w, i) * Power(u, i), 1)
<1>1. w * u \in Int
  OBVIOUS
<1>2. Same(w * u, w * u)
  BY <1>1, SameRefl
<1>3. Same(Power(w * u, i), Power(w, i) * Power(u, i))
  BY <1>1, <1>2, PowerOfProduct
<1>4. Power(w * u, i) = 1
  BY <1>1, PowerSame, PowerOfOne
<1>5. Power(w, i) * Power(u, i) \in Int
  <2>1. Power(w, i) \in Int /\ Power(u, i) \in Int
    BY PowerType
  <2> QED BY <2>1
<1> QED BY <1>3, <1>4, <1>5, SameSym

\* The inverse of a root of unity is one.
LEMMA RootSym ==
  ASSUME NEW w, NEW u, NEW n \in Nat, Root(w, u, n)
  PROVE  Root(u, w, n)
<1>1. w \in Scalar /\ u \in Scalar /\ w \in Int /\ u \in Int /\ Same(w * u, 1)
  BY ScalarType DEF Root
<1>2. Same(u * w, 1)
  <2>1. u * w = w * u
    BY <1>1
  <2> QED BY <1>1, <2>1
<1>3. ASSUME NEW i \in Nat PROVE (Power(w, i) = 1) <=> (Power(u, i) = 1)
  <2>1. Same(Power(w, i) * Power(u, i), 1)
    BY <1>1, InversePowers
  <2>2. Power(w, i) \in Scalar /\ Power(u, i) \in Scalar /\ Power(w, i) \in Int /\ Power(u, i) \in Int
    BY <1>1, PowerType
  <2>3. Power(w, i) * 1 = Power(w, i) /\ 1 * Power(u, i) = Power(u, i)
    BY <2>2
  <2> QED BY <2>1, <2>2, <2>3, SameScalar, ScalarType
<1>4. \A i \in 1 .. n - 1 : i \in Nat
  OBVIOUS
<1> QED BY <1>1, <1>2, <1>3, <1>4 DEF Root

\* Different exponents below n give different powers of w.
LEMMA PowersDiffer ==
  ASSUME NEW n \in Nat, NEW w, NEW u, Root(w, u, n), NEW i \in Indices(n), NEW j \in Indices(n), i < j
  PROVE  Power(w, i) # Power(w, j)
<1> DEFINE d == j - i
           a == Power(w, i)
           b == Power(w, j)
           v == Power(u, i)
           e == Power(w, d)
<1>1. w \in Int /\ u \in Int /\ Same(w * u, 1)
  BY ScalarType DEF Root
<1>2. i \in Nat /\ d \in Nat /\ j \in Nat /\ i + d = j /\ d \in 1 .. n - 1
  BY DEF Indices
<1>3. e # 1
  BY <1>2 DEF Root
<1> HIDE DEF d
<1>4. Same(b, a * e) /\ Same(a * v, 1)
  BY <1>1, <1>2, PowerPlus, InversePowers
<1>5. a \in Int /\ b \in Int /\ v \in Int /\ e \in Int /\ e \in Scalar
  BY <1>1, <1>2, PowerType
<1> HIDE DEF a, b, v, e
<1>6. ASSUME a = b PROVE FALSE
  <2>1. Same(a, a * e) /\ Same(v, v) /\ Same(e, e)
    BY <1>4, <1>5, <1>6, SameRefl
  <2>2. a * e \in Int /\ a * v \in Int /\ (a * e) * v \in Int /\ (a * e) * v = (a * v) * e /\ 1 * e = e
    BY <1>5
  <2>3. Same(a * v, (a * e) * v)
    BY <1>5, <2>1, <2>2, SameTimes
  <2>4. Same((a * v) * e, 1 * e)
    BY <1>4, <1>5, <2>1, <2>2, SameTimes
  <2>5. Same(1, a * v)
    BY <1>4, <1>5, <2>2, SameSym
  <2>6. Same(1, e)
    BY <1>5, <2>2, <2>3, <2>4, <2>5, SameTrans
  <2> QED BY <1>3, <1>5, <2>6, SameScalar, ScalarType
<1> QED BY <1>6 DEF a, b

\* The powers of the powers, summed: n on the diagonal and 0 off it.
LEMMA RootSum ==
  ASSUME NEW n \in Nat, NEW w, NEW u, Root(w, u, n), NEW j \in Indices(n), NEW k \in Indices(n),
         NEW f, \A i \in Indices(n) : f[i] \in Int /\ Same(f[i], Power(Power(w, j), i))
  PROVE  /\ Eval(f, n, Power(u, k)) \in Int
         /\ Same(Eval(f, n, Power(u, k)), IF j = k THEN n ELSE 0)
<1> DEFINE a == Power(w, j)
           b == Power(u, k)
           c == Power(w, k)
           E == Eval(f, n, b)
           r == a * b
<1>1. w \in Int /\ u \in Int /\ Same(w * u, 1) /\ Power(w, n) = 1 /\ Root(u, w, n) /\ Power(u, n) = 1
  <2>1. Root(u, w, n)
    BY RootSym
  <2>2. w \in Int /\ u \in Int /\ Same(w * u, 1) /\ Power(w, n) = 1
    BY ScalarType DEF Root
  <2>3. Power(u, n) = 1
    BY <2>1 DEF Root
  <2> QED BY <2>1, <2>2, <2>3
<1>2. j \in Nat /\ k \in Nat
  BY DEF Indices
<1>3. a \in Int /\ b \in Int /\ c \in Int /\ a \in Scalar /\ c \in Scalar
  BY <1>1, <1>2, PowerType
<1>4. Same(c * b, 1)
  BY <1>1, <1>2, InversePowers
<1>5. E \in Int /\ Same((r - 1) * E, Power(r, n) - 1) /\ (Same(r, 1) => Same(E, n))
  <2> HIDE DEF a, b
  <2>1. \A i \in Indices(n) : f[i] \in Int /\ Same(f[i], Power(a, i))
    BY DEF a
  <2>2. /\ Eval(f, n, b) \in Int
        /\ Same(((a * b) - 1) * Eval(f, n, b), Power(a * b, n) - 1)
        /\ Same(a * b, 1) => Same(Eval(f, n, b), n)
    BY <1>3, <2>1, Geometric
  <2> QED BY <2>2
<1>6. CASE j = k
  BY <1>4, <1>5, <1>6
<1>7. CASE j # k
  <2>1. a # c
    <3>1. j < k \/ k < j
      BY <1>2, <1>7
    <3> QED BY <3>1, PowersDiffer
  <2>2. Power(a, n) = 1 /\ Power(b, n) = 1
    <3>1. j * n = n * j /\ k * n = n * k
      BY <1>2
    <3>2. Power(a, n) = Power(w, j * n) /\ Power(Power(w, n), j) = Power(w, n * j)
      BY <1>1, <1>2, PowerOfPower
    <3>3. Power(b, n) = Power(u, k * n) /\ Power(Power(u, n), k) = Power(u, n * k)
      BY <1>1, <1>2, PowerOfPower
    <3>4. Power(1, j) = 1 /\ Power(1, k) = 1
      BY <1>2, PowerOfOne
    <3> HIDE DEF a, b
    <3> QED BY <1>1, <3>1, <3>2, <3>3, <3>4
  <2> HIDE DEF a, b, c, E
  <2>3. r \in Int /\ r - 1 \in Int
    BY <1>3
  <2>4. ~Same(r - 1, 0)
    <3> SUFFICES ASSUME Same(r - 1, 0) PROVE FALSE
      OBVIOUS
    <3>1. Same((r - 1) + 1, 0 + 1)
      BY <2>3, SameRefl, SamePlus
    <3>2. (r - 1) + 1 = r /\ 0 + 1 = 1
      BY <2>3
    <3>3. Same(r, 1)
      BY <3>1, <3>2
    <3>4. Same(r * c, 1 * c)
      BY <1>3, <2>3, <3>3, SameRefl, SameTimes
    <3>5. Same((c * b) * a, 1 * a)
      <4>1. c * b \in Int
        BY <1>3
      <4> QED BY <1>3, <1>4, <4>1, SameRefl, SameTimes
    <3>6. r * c = (c * b) * a /\ 1 * a = a /\ 1 * c = c /\ (c * b) * a \in Int
      BY <1>3
    <3>7. Same(a, (c * b) * a)
      BY <1>3, <3>5, <3>6, SameSym
    <3>8. Same(a, c)
      BY <1>3, <3>4, <3>6, <3>7, SameTrans
    <3> QED BY <1>3, <2>1, <3>8, SameScalar
  <2>5. Power(r, n) = 1
    <3>1. Same(r, r)
      BY <2>3, SameRefl
    <3>2. Same(Power(r, n), Power(a, n) * Power(b, n))
      BY <1>3, <2>3, <3>1, PowerOfProduct
    <3>3. Power(r, n) \in Scalar /\ Power(a, n) * Power(b, n) = 1
      BY <2>2, <2>3, PowerType
    <3> QED BY <3>2, <3>3, SameScalar, ScalarType
  <2>6. Same((r - 1) * E, 0)
    BY <1>5, <2>5 DEF E
  <2>7. E \in Int
    BY <1>5 DEF E
  <2> HIDE DEF r
  <2>8. Same(E, 0)
    BY <2>3, <2>4, <2>6, <2>7, NoZeroDivisors
  <2> QED BY <1>7, <2>7, <2>8 DEF E, b
<1> QED BY <1>6, <1>7

\* Values taken at the powers of w and evaluated at the powers of its inverse
\* give n times the coefficients.
LEMMA Fourier ==
  ASSUME NEW n \in Nat, NEW w, NEW u, Root(w, u, n), NEW c, \A k \in Indices(n) : c[k] \in Int,
         NEW g, \A i \in Indices(n) : g[i] \in Int /\ Same(g[i], Eval(c, n, Power(w, i))),
         NEW k \in Indices(n)
  PROVE  Same(Eval(g, n, Power(u, k)), n * c[k])
<1> DEFINE b == Power(u, k)
           V(j) == [i \in Indices(n) |-> Eval(c, j, Power(w, i))]
           R(j) == IF k < j THEN n * c[k] ELSE 0
           T == {j \in 0 .. n : Same(Eval(V(j), n, b), R(j))}
<1>1. w \in Int /\ u \in Int
  BY ScalarType DEF Root
<1>2. k \in Nat /\ k < n /\ b \in Int /\ \A i \in Indices(n) : i \in Nat /\ Power(w, i) \in Int
  <2>1. k \in Nat /\ k < n /\ \A i \in Indices(n) : i \in Nat
    BY DEF Indices
  <2> QED BY <1>1, <2>1, PowerType
<1>3. ASSUME NEW j \in 0 .. n, NEW i \in Indices(n) PROVE V(j)[i] = Eval(c, j, Power(w, i)) /\ V(j)[i] \in Int
  <2>1. j \in Nat /\ \A l \in Indices(j) : l \in Indices(n)
    BY DEF Indices
  <2>2. \A l \in Indices(j) : c[l] \in Int
    BY <2>1
  <2>3. V(j)[i] = Eval(c, j, Power(w, i))
    OBVIOUS
  <2>4. Power(w, i) \in Int
    BY <1>2
  <2> HIDE DEF V
  <2> QED BY <2>1, <2>2, <2>3, <2>4, EvalType
<1>4. 0 \in T
  <2>1. \A i \in Indices(n) : V(0)[i] \in Int /\ V(0)[i] = 0
    <3>1. \A i \in Indices(n) : V(0)[i] = Eval(c, 0, Power(w, i))
      OBVIOUS
    <3> QED BY <3>1, EvalNone
  <2> DEFINE v == V(0)
  <2>2. \A i \in Indices(n) : v[i] \in Int /\ v[i] = 0
    BY <2>1
  <2> HIDE DEF v, b
  <2>3. Eval(v, n, b) = Eval(v, 0, b)
    <3>1. \A i \in Indices(n) : v[i] \in Int /\ (i >= 0 => v[i] = 0)
      BY <2>2
    <3>2. 0 \in 0 .. n
      OBVIOUS
    <3> QED BY <1>2, <3>1, <3>2, EvalTop
  <2>4. Eval(v, n, b) = 0
    BY <2>3, EvalNone
  <2>5. Same(0, 0) /\ 0 \in 0 .. n /\ R(0) = 0
    BY <1>2, SameRefl
  <2> QED BY <2>4, <2>5 DEF v
<1>5. ASSUME NEW j \in 1 .. n, j - 1 \in T PROVE j \in T
  <2> DEFINE i == j - 1
             a == Power(w, i)
             F == [l \in Indices(n) |-> Power(a, l)]
             s == c[i]
             V0 == V(i)
             V1 == V(j)
             E0 == Eval(V0, n, b)
             E1 == Eval(V1, n, b)
             G == Eval(F, n, b)
             R0 == R(i)
             R1 == R(j)
  <2>1. i \in Nat /\ i + 1 = j /\ j \in 0 .. n /\ i \in 0 .. n /\ i \in Indices(n) /\ \A l \in Indices(i + 1) : l \in Indices(n)
    BY DEF Indices
  <2>2. Same(E0, R0)
    BY <1>5
  <2>3. a \in Int /\ s \in Int
    BY <1>1, <2>1, PowerType
  <2>4. \A l \in Indices(n) : V0[l] \in Int /\ V1[l] \in Int
    BY <1>3, <2>1
  <2>5. \A l \in Indices(n) : F[l] \in Int /\ Same(F[l], Power(a, l))
    <3> HIDE DEF a
    <3>1. \A l \in Indices(n) : F[l] = Power(a, l)
      OBVIOUS
    <3>2. \A l \in Indices(n) : Power(a, l) \in Int
      BY <1>2, <2>3, PowerType
    <3> QED BY <3>1, <3>2, SameRefl
  <2>6. ASSUME NEW l \in Indices(n) PROVE Same(V1[l], (1 * V0[l]) + (s * F[l]))
    <3> DEFINE x == Power(w, l)
    <3>1. x \in Int /\ l \in Nat
      BY <1>2
    <3>2. F[l] = Power(x, i)
      <4>1. F[l] = Power(Power(w, i), l)
        OBVIOUS
      <4>2. Power(Power(w, i), l) = Power(w, i * l) /\ Power(Power(w, l), i) = Power(w, l * i)
        BY <1>1, <2>1, <3>1, PowerOfPower
      <4>3. i * l = l * i
        BY <2>1, <3>1
      <4> QED BY <4>1, <4>2, <4>3
    <3>3. V1[l] = Eval(c, i + 1, x) /\ V0[l] = Eval(c, i, x)
      BY <1>3, <2>1
    <3>4. \A m \in Indices(i + 1) : c[m] \in Int
      BY <2>1
    <3> HIDE DEF x, V1, V0, F
    <3>5. Same(Eval(c, i + 1, x), Eval(c, i, x) + s * Power(x, i))
      BY <2>1, <3>1, <3>4, EvalStep
    <3>6. V0[l] \in Int /\ F[l] \in Int
      BY <2>4, <2>5
    <3>7. 1 * V0[l] = V0[l]
      BY <3>6
    <3> QED BY <3>2, <3>3, <3>5, <3>7
  <2> HIDE DEF V0, V1, F, s, R0, R1, b, E0, E1, G
  <2>7. G \in Int /\ Same(G, IF i = k THEN n ELSE 0)
    <3>1. G \in Int /\ Same(Eval(F, n, Power(u, k)), IF i = k THEN n ELSE 0)
      BY <2>1, <2>5, RootSum DEF G, b, a
    <3> QED BY <3>1 DEF G, b
  <2>8. E0 \in Int /\ E1 \in Int
    BY <1>2, <2>4, EvalType DEF E0, E1
  <2>9. Same(E1, (1 * E0) + (s * G))
    <3>1. \A l \in Indices(n) : V0[l] \in Int /\ F[l] \in Int /\ V1[l] \in Int
                                /\ Same(V1[l], (1 * V0[l]) + (s * F[l]))
      BY <2>4, <2>5, <2>6
    <3> QED BY <1>2, <2>3, <3>1, EvalLinear DEF E0, E1, G
  <2> DEFINE z == IF i = k THEN n ELSE 0
  <2>10. z \in Int /\ R0 \in Int /\ R1 \in Int /\ c[k] \in Int
    BY DEF R0, R1
  <2>11. (1 * R0) + (s * z) = R1
    <3>1. CASE i = k
      BY <1>2, <2>1, <2>10, <3>1 DEF R0, R1, s
    <3>2. CASE i # k
      <4>1. (k < i) <=> (k < j)
        BY <1>2, <2>1, <3>2
      <4>2. R0 = R1 /\ z = 0
        BY <3>2, <4>1 DEF R0, R1
      <4> QED BY <2>3, <2>10, <4>2
    <3> QED BY <3>1, <3>2
  <2>12. Same((1 * E0) + (s * G), (1 * R0) + (s * z))
    <3> HIDE DEF z
    <3>1. Same(G, z)
      BY <2>7 DEF z
    <3>5. s \in Int /\ G \in Int /\ z \in Int /\ Same(s, s)
      BY <2>3, <2>7, <2>10, SameRefl
    <3>6. Same(s * G, s * z)
      BY <3>1, <3>5, SameTimes
    <3>2. Same(s * G, s * z) /\ s * G \in Int /\ s * z \in Int
      BY <3>5, <3>6
    <3>3. Same(E0 + s * G, R0 + s * z)
      BY <2>2, <2>8, <2>10, <3>2, SamePlus
    <3>4. 1 * E0 = E0 /\ 1 * R0 = R0
      BY <2>8, <2>10
    <3> QED BY <3>3, <3>4
  <2>13. (1 * E0) + (s * G) \in Int
    BY <2>3, <2>7, <2>8
  <2>14. Same(E1, R1)
    BY <2>8, <2>9, <2>10, <2>11, <2>12, <2>13, SameTrans
  <2> QED BY <2>1, <2>14 DEF E1, R1, V1
<1>6. \A j \in 0 .. n : j \in T
  <2> HIDE DEF T
  <2> QED BY <1>4, <1>5, UpTo
<1>7. n \in T
  <2> HIDE DEF T
  <2>1. n \in 0 .. n
    OBVIOUS
  <2> QED BY <1>6, <2>1
<1>8. Same(Eval(V(n), n, b), n * c[k])
  BY <1>2, <1>7
<1> DEFINE v == V(n)
<1>9. \A i \in Indices(n) : v[i] \in Int /\ v[i] = Eval(c, n, Power(w, i))
  <2>1. n \in 0 .. n
    OBVIOUS
  <2> QED BY <1>3, <2>1
<1> HIDE DEF v
<1>10. Eval(g, n, b) = Eval(v, n, b)
  <2>1. \A i \in Indices(n) : g[i] \in Int /\ v[i] \in Int /\ Same(g[i], v[i])
    BY <1>9
  <2> HIDE DEF b
  <2> QED BY <1>2, <2>1, EvalAgree
<1> QED BY <1>8, <1>10 DEF v

-------------------------------------------------------------------------------
\* The domains and transforms of the code: fft and ifft undo each other.

\* A domain of the field: its size divides the order of the group.
Fits(size) == size \in Nat \ {0} /\ (Prime - 1) % size = 0
Scalars(n) == [Indices(n) -> Scalar]

\* The exponent GroupGen takes is the exact quotient.
LEMMA FitsIs ==
  ASSUME NEW n, Fits(n)
  PROVE  \E q \in Nat \ {0} : q = (Prime - 1) \div n /\ q * n = Prime - 1 /\ n \in 1 .. Prime - 1
<1> DEFINE m == Prime - 1
           q == m \div n
<1>1. m \in Nat \ {0} /\ n \in Nat \ {0} /\ m % n = 0
  BY PrimeType DEF Fits
<1> HIDE DEF m
<1>2. q \in Nat /\ m = n * q + (m % n)
  BY <1>1
<1> HIDE DEF q
<1>3. q * n = m /\ q # 0
  BY <1>1, <1>2
<1>4. n <= q * n
  BY <1>1, <1>2, <1>3
<1>5. q \in Nat \ {0} /\ n \in 1 .. m
  BY <1>1, <1>2, <1>3, <1>4
<1> QED BY <1>3, <1>5 DEF q, m

\* The generator of a domain is a root of unity of the domain's size.
LEMMA DomainRoot ==
  ASSUME NEW n, Fits(n)
  PROVE  /\ n \in Nat \ {0} /\ n \in 1 .. Prime - 1
         /\ GroupGen(n) \in 1 .. Prime - 1
         /\ Root(GroupGen(n), InverseOf[GroupGen(n)], n)
<1>1. PICK q \in Nat \ {0} : q = (Prime - 1) \div n /\ q * n = Prime - 1 /\ n \in 1 .. Prime - 1
  BY FitsIs
<1> DEFINE w == GroupGen(n)
<1>2. w = Power(Generator, q)
  BY <1>1 DEF GroupGen
<1>3. Generator \in Int /\ q \in Nat /\ n \in Nat
  BY <1>1, PrimeType, FieldAssumption
<1>4. w \in Scalar /\ w \in Int
  BY <1>2, <1>3, PowerType
<1>5. Power(w, n) = 1
  BY <1>1, <1>2, <1>3, PowerOfPower, GeneratorAssumption
<1>6. ASSUME NEW i \in 1 .. n - 1 PROVE Power(w, i) # 1
  <2>1. i \in Nat /\ i >= 1 /\ i <= n - 1
    BY <1>3
  <2>2. q * i \in Nat /\ Power(w, i) = Power(Generator, q * i)
    BY <1>2, <1>3, <2>1, PowerOfPower
  <2>3. q * i >= 1
    BY <1>1, <2>1
  <2>4. q * i < q * n
    <3>1. n - i \in Nat \ {0} /\ q * n = (q * i) + (q * (n - i))
      BY <1>1, <1>3, <2>1
    <3>2. q * (n - i) >= 1
      <4> DEFINE d == n - i
      <4>1. d \in Nat \ {0}
        BY <3>1
      <4> HIDE DEF d
      <4>2. q * d >= 1
        BY <1>1, <4>1
      <4> QED BY <4>2 DEF d
    <3>3. q * (n - i) \in Int /\ q * i \in Int /\ q * n \in Int
      BY <1>1, <1>3, <2>1
    <3> QED BY <3>1, <3>2, <3>3
  <2>5. q * i \in 1 .. Prime - 2
    BY <1>1, <2>2, <2>3, <2>4, PrimeType
  <2> QED BY <2>2, <2>5, GeneratorAssumption
<1> HIDE DEF w
<1>7. w # 0
  <2> SUFFICES ASSUME w = 0 PROVE FALSE
    OBVIOUS
  <2> DEFINE m == n - 1
  <2>1. m \in Nat /\ m + 1 = n
    BY <1>1
  <2> HIDE DEF m
  <2>2. Power(w, m + 1) = (Power(w, m) * w) % Prime
    BY <1>4, <2>1, PowerStep
  <2>3. Power(w, m) * w = 0
    <3>1. Power(w, m) \in Int
      BY <1>4, <2>1, PowerType
    <3> QED BY <3>1
  <2>4. 0 % Prime = 0
    BY ModOf, ScalarType
  <2> QED BY <1>5, <2>1, <2>2, <2>3, <2>4
<1>8. w \in 1 .. Prime - 1
  BY <1>4, <1>7, PrimeType DEF Scalar
<1>9. InverseOf[w] \in Scalar /\ Same(w * InverseOf[w], 1)
  <2>1. InverseOf[w] \in 1 .. Prime - 1 /\ Same(w * InverseOf[w], 1)
    BY <1>8, InverseOfIs
  <2> QED BY <2>1, PrimeType DEF Scalar
<1>10. \A i \in 1 .. n - 1 : Power(w, i) # 1
  BY <1>6 DEF w
<1>11. Power(w, n) = 1
  BY <1>5
<1>12. Root(w, InverseOf[w], n)
  BY <1>4, <1>9, <1>10, <1>11 DEF Root
<1>13. n \in Nat \ {0}
  BY <1>1
<1> QED BY <1>1, <1>8, <1>12, <1>13 DEF w

\* Resizing a vector of scalars gives one; to its own length, itself.
LEMMA ResizeType ==
  ASSUME NEW n \in Nat, NEW m \in Nat, NEW c \in Scalars(m)
  PROVE  /\ Resize(c, n) \in Scalars(n)
         /\ m = n => Resize(c, n) = c
<1>1. DOMAIN c = Indices(m) /\ \A i \in Indices(m) : c[i] \in Scalar
  BY DEF Scalars
<1>2. Resize(c, n) = [i \in Indices(n) |-> IF i \in Indices(m) THEN c[i] ELSE 0]
  BY <1>1 DEF Resize
<1>3. Resize(c, n) \in Scalars(n)
  BY <1>1, <1>2, ScalarType DEF Scalars
<1>4. ASSUME m = n PROVE Resize(c, n) = c
  <2>1. c = [i \in Indices(m) |-> c[i]]
    BY DEF Scalars
  <2>2. \A i \in Indices(n) : (IF i \in Indices(m) THEN c[i] ELSE 0) = c[i]
    BY <1>4
  <2> QED BY <1>2, <1>4, <2>1, <2>2
<1> QED BY <1>3, <1>4

\* The transforms: what they compute, and that they are scalars.
LEMMA FftIs ==
  ASSUME NEW n, Fits(n), NEW m \in Nat, NEW c \in Scalars(m)
  PROVE  /\ Fft(c, n) \in Scalars(n)
         /\ \A i \in Indices(n) : Fft(c, n)[i] = Eval(Resize(c, n), n, Power(GroupGen(n), i))
<1>1. n \in Nat /\ GroupGen(n) \in Int
  BY DomainRoot, PrimeType
<1>2. Resize(c, n) \in Scalars(n)
  BY <1>1, ResizeType
<1> DEFINE r == Resize(c, n)
<1> HIDE DEF r
<1>3. \A i \in Indices(n) : r[i] \in Int
  BY <1>2, ScalarType DEF Scalars, r
<1>4. ASSUME NEW i \in Indices(n) PROVE Eval(r, n, Power(GroupGen(n), i)) \in Scalar
  <2>1. i \in Nat
    BY DEF Indices
  <2>2. Power(GroupGen(n), i) \in Int
    BY <1>1, <2>1, PowerType
  <2> QED BY <1>1, <1>3, <2>2, EvalType
<1>5. Fft(c, n) = [i \in Indices(n) |-> Eval(r, n, Power(GroupGen(n), i))]
  BY DEF Fft, r
<1>6. Fft(c, n) \in Scalars(n)
  BY <1>4, <1>5 DEF Scalars
<1>7. \A i \in Indices(n) : Fft(c, n)[i] = Eval(r, n, Power(GroupGen(n), i))
  BY <1>5
<1> QED BY <1>6, <1>7 DEF r

LEMMA IfftIs ==
  ASSUME NEW n, Fits(n), NEW m \in Nat, NEW e \in Scalars(m)
  PROVE  /\ Ifft(e, n) \in Scalars(n)
         /\ InverseOf[n % Prime] \in Int /\ Same(n * InverseOf[n % Prime], 1)
         /\ \A i \in Indices(n) :
              /\ Eval(Resize(e, n), n, Power(InverseOf[GroupGen(n)], i)) \in Int
              /\ Same(Ifft(e, n)[i],
                      InverseOf[n % Prime] * Eval(Resize(e, n), n, Power(InverseOf[GroupGen(n)], i)))
<1> DEFINE u == InverseOf[GroupGen(n)]
           v == InverseOf[n % Prime]
           r == Resize(e, n)
<1>1. n \in Nat /\ n \in 1 .. Prime - 1 /\ GroupGen(n) \in 1 .. Prime - 1
  BY DomainRoot
<1>2. u \in Int
  <2>1. InverseOf[GroupGen(n)] \in 1 .. Prime - 1
    BY <1>1, InverseOfIs
  <2> QED BY <2>1
<1>3. n % Prime = n
  <2>1. n \in Scalar
    BY <1>1, PrimeType DEF Scalar
  <2> QED BY <2>1, ModOf
<1>4. v \in Int /\ Same(n * v, 1)
  <2>1. InverseOf[n] \in 1 .. Prime - 1 /\ Same(n * InverseOf[n], 1)
    BY <1>1, InverseOfIs
  <2> QED BY <1>3, <2>1
<1>5. r \in Scalars(n)
  BY <1>1, ResizeType
<1>6. Ifft(e, n) = [i \in Indices(n) |-> (v * Eval(r, n, Power(u, i))) % Prime]
  BY DEF Ifft
<1> HIDE DEF r, u, v
<1>7. \A i \in Indices(n) : r[i] \in Int
  BY <1>5, ScalarType DEF Scalars
<1>8. ASSUME NEW i \in Indices(n)
      PROVE  /\ Eval(r, n, Power(u, i)) \in Int
             /\ (v * Eval(r, n, Power(u, i))) % Prime \in Scalar
             /\ Same((v * Eval(r, n, Power(u, i))) % Prime, v * Eval(r, n, Power(u, i)))
  <2>1. i \in Nat
    BY DEF Indices
  <2>2. Power(u, i) \in Int
    BY <1>2, <2>1, PowerType
  <2>3. Eval(r, n, Power(u, i)) \in Int
    BY <1>1, <1>7, <2>2, EvalType
  <2>4. v * Eval(r, n, Power(u, i)) \in Int
    BY <1>4, <2>3
  <2> QED BY <2>3, <2>4, ModType
<1>9. Ifft(e, n) \in Scalars(n)
  BY <1>6, <1>8 DEF Scalars
<1>10. \A i \in Indices(n) : Ifft(e, n)[i] = (v * Eval(r, n, Power(u, i))) % Prime
  BY <1>6
<1> QED BY <1>4, <1>8, <1>9, <1>10 DEF r, u, v

\* The elements of a vector of scalars are numbers.
LEMMA ScalarsInt ==
  ASSUME NEW n, NEW c \in Scalars(n)
  PROVE  \A i \in Indices(n) : c[i] \in Int /\ c[i] \in Scalar
<1> QED BY ScalarType DEF Scalars

\* The coefficients come back from the values on the domain.
LEMMA IfftOfFft ==
  ASSUME NEW n, Fits(n), NEW c \in Scalars(n)
  PROVE  Ifft(Fft(c, n), n) = c
<1> DEFINE w == GroupGen(n)
           u == InverseOf[w]
           v == InverseOf[n % Prime]
           e == Fft(c, n)
           d == Ifft(e, n)
<1>1. n \in Nat /\ Root(w, u, n)
  BY DomainRoot
<1>2. Resize(c, n) = c
  BY <1>1, ResizeType
<1>3. e \in Scalars(n) /\ \A i \in Indices(n) : e[i] = Eval(c, n, Power(w, i))
  <2>1. /\ Fft(c, n) \in Scalars(n)
        /\ \A i \in Indices(n) : Fft(c, n)[i] = Eval(Resize(c, n), n, Power(GroupGen(n), i))
    BY <1>1, FftIs
  <2> QED BY <1>2, <2>1
<1> HIDE DEF e
<1>4. Resize(e, n) = e
  BY <1>1, <1>3, ResizeType
<1>5. /\ d \in Scalars(n) /\ v \in Int /\ Same(n * v, 1)
      /\ \A i \in Indices(n) : /\ Eval(e, n, Power(u, i)) \in Int
                               /\ Same(d[i], v * Eval(e, n, Power(u, i)))
  <2>1. /\ Ifft(e, n) \in Scalars(n)
        /\ InverseOf[n % Prime] \in Int /\ Same(n * InverseOf[n % Prime], 1)
        /\ \A i \in Indices(n) :
              /\ Eval(Resize(e, n), n, Power(InverseOf[GroupGen(n)], i)) \in Int
              /\ Same(Ifft(e, n)[i],
                      InverseOf[n % Prime] * Eval(Resize(e, n), n, Power(InverseOf[GroupGen(n)], i)))
    BY <1>1, <1>3, IfftIs
  <2> QED BY <1>4, <2>1
<1>6. (\A i \in Indices(n) : c[i] \in Int /\ c[i] \in Scalar) /\ (\A i \in Indices(n) : e[i] \in Int /\ e[i] \in Scalar)
      /\ (\A i \in Indices(n) : d[i] \in Int /\ d[i] \in Scalar)
  BY <1>3, <1>5, ScalarsInt
<1> HIDE DEF d, v, u, w
<1>7. ASSUME NEW k \in Indices(n) PROVE d[k] = c[k]
  <2> DEFINE E == Eval(e, n, Power(u, k))
             m == v * E
             x == c[k]
             y == d[k]
             nx == n * x
             p == n * v
  <2>1. E \in Int /\ Same(y, m) /\ x \in Int /\ x \in Scalar /\ y \in Int /\ y \in Scalar
    BY <1>5, <1>6
  <2>2. Same(E, nx)
    <3>1. \A i \in Indices(n) : e[i] \in Int /\ Same(e[i], Eval(c, n, Power(w, i)))
      BY <1>3, <1>6, SameRefl
    <3>2. \A i \in Indices(n) : c[i] \in Int
      BY <1>6
    <3> QED BY <1>1, <3>1, <3>2, Fourier
  <2> HIDE DEF E, x, y
  <2>3. m \in Int /\ nx \in Int /\ p \in Int /\ v * nx \in Int /\ v * nx = p * x /\ 1 * x = x
    BY <1>1, <1>5, <2>1
  <2>4. Same(m, v * nx)
    <3>1. Same(v, v)
      BY <1>5, SameRefl
    <3> HIDE DEF nx
    <3> QED BY <1>5, <2>1, <2>2, <2>3, <3>1, SameTimes
  <2>5. Same(p * x, 1 * x)
    <3>1. Same(x, x) /\ Same(p, 1)
      BY <1>5, <2>1, SameRefl
    <3> HIDE DEF p
    <3> QED BY <2>1, <2>3, <3>1, SameTimes
  <2> HIDE DEF m, nx, p
  <2>6. Same(y, v * nx)
    BY <2>1, <2>3, <2>4, SameTrans
  <2>7. Same(y, x)
    BY <2>1, <2>3, <2>5, <2>6, SameTrans
  <2>8. y = x
    BY <2>1, <2>7, SameScalar
  <2> QED BY <2>8 DEF x, y
<1>8. d = [i \in Indices(n) |-> d[i]] /\ c = [i \in Indices(n) |-> c[i]]
  BY <1>5 DEF Scalars
<1>9. d = c
  BY <1>7, <1>8
<1> QED BY <1>9 DEF d, e

\* The values on the domain come back from the coefficients.
LEMMA FftOfIfft ==
  ASSUME NEW n, Fits(n), NEW e \in Scalars(n)
  PROVE  Fft(Ifft(e, n), n) = e
<1> DEFINE w == GroupGen(n)
           u == InverseOf[w]
           v == InverseOf[n % Prime]
           d == Ifft(e, n)
           f == Fft(d, n)
           h == [i \in Indices(n) |-> Eval(e, n, Power(u, i))]
<1>1. n \in Nat /\ Root(w, u, n)
  BY DomainRoot
<1>2. Resize(e, n) = e
  BY <1>1, ResizeType
<1>3. /\ d \in Scalars(n) /\ v \in Int /\ Same(n * v, 1)
      /\ \A i \in Indices(n) : /\ Eval(e, n, Power(u, i)) \in Int
                               /\ Same(d[i], v * Eval(e, n, Power(u, i)))
  <2>1. /\ Ifft(e, n) \in Scalars(n)
        /\ InverseOf[n % Prime] \in Int /\ Same(n * InverseOf[n % Prime], 1)
        /\ \A i \in Indices(n) :
              /\ Eval(Resize(e, n), n, Power(InverseOf[GroupGen(n)], i)) \in Int
              /\ Same(Ifft(e, n)[i],
                      InverseOf[n % Prime] * Eval(Resize(e, n), n, Power(InverseOf[GroupGen(n)], i)))
    BY <1>1, IfftIs
  <2> QED BY <1>2, <2>1
<1> HIDE DEF d
<1>4. Resize(d, n) = d
  BY <1>1, <1>3, ResizeType
<1>5. f \in Scalars(n) /\ \A i \in Indices(n) : f[i] = Eval(d, n, Power(w, i))
  <2>1. /\ Fft(d, n) \in Scalars(n)
        /\ \A i \in Indices(n) : Fft(d, n)[i] = Eval(Resize(d, n), n, Power(GroupGen(n), i))
    BY <1>1, <1>3, FftIs
  <2> QED BY <1>4, <2>1
<1>6. (\A i \in Indices(n) : e[i] \in Int /\ e[i] \in Scalar) /\ (\A i \in Indices(n) : f[i] \in Int /\ f[i] \in Scalar)
      /\ (\A i \in Indices(n) : d[i] \in Int /\ d[i] \in Scalar)
  BY <1>3, <1>5, ScalarsInt
<1>7. \A i \in Indices(n) : h[i] = Eval(e, n, Power(u, i)) /\ h[i] \in Int
  BY <1>3
<1> HIDE DEF f, v, u, w, h
<1>8. ASSUME NEW k \in Indices(n) PROVE f[k] = e[k]
  <2> DEFINE b == Power(w, k)
             H == Eval(h, n, b)
             m == v * H
             x == e[k]
             y == f[k]
             nx == n * x
             p == n * v
  <2>0. b \in Int
    <3>1. k \in Nat /\ w \in Int
      BY <1>1, ScalarType DEF Indices, Root
    <3> QED BY <3>1, PowerType
  <2>1. H \in Int /\ x \in Int /\ x \in Scalar /\ y \in Int /\ y \in Scalar /\ y = Eval(d, n, b)
    <3>1. H \in Int
      <4> HIDE DEF b
      <4> QED BY <1>1, <1>7, <2>0, EvalType
    <3> QED BY <1>5, <1>6, <3>1
  <2>2. Same(H, nx)
    <3>1. \A i \in Indices(n) : h[i] \in Int /\ Same(h[i], Eval(e, n, Power(u, i)))
      BY <1>7, SameRefl
    <3>2. \A i \in Indices(n) : e[i] \in Int
      BY <1>6
    <3>3. Root(u, w, n)
      BY <1>1, RootSym
    <3> QED BY <1>1, <3>1, <3>2, <3>3, Fourier
  <2>z. PICK z \in Int : z = 0
    OBVIOUS
  <2>a. Same(Eval(d, n, b), (v * H) + (z * H))
    <3>1. ASSUME NEW i \in Indices(n)
          PROVE  h[i] \in Int /\ h[i] \in Int /\ d[i] \in Int /\ Same(d[i], (v * h[i]) + (z * h[i]))
      <4>1. Same(d[i], v * h[i]) /\ h[i] \in Int /\ d[i] \in Int
        BY <1>3, <1>6, <1>7
      <4>2. (v * h[i]) + (z * h[i]) = v * h[i]
        BY <1>3, <2>z, <4>1
      <4> QED BY <4>1, <4>2
    <3> HIDE DEF b
    <3> QED BY <1>1, <1>3, <2>0, <3>1, EvalLinear
  <2> HIDE DEF H, x, y, b
  <2>3. m \in Int /\ nx \in Int /\ p \in Int /\ v * nx \in Int /\ v * nx = p * x /\ 1 * x = x /\ (v * H) + (z * H) = m
    BY <1>1, <1>3, <2>1, <2>z
  <2>b. Same(y, m)
    BY <2>1, <2>a, <2>3
  <2>4. Same(m, v * nx)
    <3>1. Same(v, v)
      BY <1>3, SameRefl
    <3> HIDE DEF nx
    <3> QED BY <1>3, <2>1, <2>2, <2>3, <3>1, SameTimes
  <2>5. Same(p * x, 1 * x)
    <3>1. Same(x, x) /\ Same(p, 1)
      BY <1>3, <2>1, SameRefl
    <3> HIDE DEF p
    <3> QED BY <2>1, <2>3, <3>1, SameTimes
  <2> HIDE DEF m, nx, p
  <2>6. Same(y, v * nx)
    BY <2>1, <2>3, <2>4, <2>b, SameTrans
  <2>7. Same(y, x)
    BY <2>1, <2>3, <2>5, <2>6, SameTrans
  <2>8. y = x
    BY <2>1, <2>7, SameScalar
  <2> QED BY <2>8 DEF x, y
<1>9. f = [i \in Indices(n) |-> f[i]] /\ e = [i \in Indices(n) |-> e[i]]
  BY <1>5 DEF Scalars
<1>10. f = e
  BY <1>8, <1>9
<1> QED BY <1>10 DEF d, f

-------------------------------------------------------------------------------
\* The zero polynomial of zero_poly_fn.

\* Resizing upwards keeps the values.
LEMMA EvalResize ==
  ASSUME NEW m \in Nat, NEW n \in Nat, m <= n, NEW c \in Scalars(m), NEW x \in Int
  PROVE  Eval(Resize(c, n), n, x) = Eval(c, m, x)
<1> DEFINE r == Resize(c, n)
<1>1. /\ \A k \in Indices(n) : r[k] \in Int /\ (k >= m => r[k] = 0)
      /\ \A k \in Indices(m) : r[k] = c[k]
  <2>1. DOMAIN c = Indices(m)
    BY DEF Scalars
  <2>2. r \in Scalars(n)
    BY ResizeType
  <2>3. \A k \in Indices(n) : r[k] \in Int
    BY <2>2, ScalarsInt
  <2>4. \A k \in Indices(n) : r[k] = IF k \in Indices(m) THEN c[k] ELSE 0
    BY <2>1 DEF Resize
  <2>5. \A k \in Indices(n) : k >= m => k \notin Indices(m)
    BY DEF Indices
  <2>6. \A k \in Indices(m) : k \in Indices(n)
    BY DEF Indices
  <2> HIDE DEF r
  <2> QED BY <2>3, <2>4, <2>5, <2>6
<1> HIDE DEF r
<1>2. m \in 0 .. n
  OBVIOUS
<1>3. Eval(r, n, x) = Eval(r, m, x)
  BY <1>1, <1>2, EvalTop
<1>4. \A k \in Indices(m) : r[k] \in Int /\ c[k] \in Int /\ Same(r[k], c[k])
  BY <1>1, ScalarsInt, SameRefl
<1>5. Eval(r, m, x) = Eval(c, m, x)
  BY <1>4, EvalAgree
<1> QED BY <1>3, <1>5 DEF r

\* Scaling the coefficients by powers of s evaluates at s times the point.
LEMMA EvalShift ==
  ASSUME NEW n \in Nat, NEW s \in Int, NEW c, NEW e, NEW x \in Int,
         \A k \in Indices(n) : c[k] \in Int /\ e[k] \in Int /\ Same(e[k], c[k] * Power(s, k))
  PROVE  Eval(e, n, x) = Eval(c, n, s * x)
<1> DEFINE y == s * x
           T == {j \in 0 .. n : Eval(e, j, x) = Eval(c, j, y)}
<1>0. y \in Int
  OBVIOUS
<1>1. 0 \in T
  BY EvalNone
<1>2. ASSUME NEW j \in 1 .. n, j - 1 \in T PROVE j \in T
  <2> DEFINE i == j - 1
             E0 == Eval(e, i, x)
             E1 == Eval(e, i + 1, x)
             C1 == Eval(c, i + 1, y)
             a == e[i]
             b == c[i]
             p == Power(s, i)
             q == Power(x, i)
             r == Power(y, i)
             bp == b * p
             pq == p * q
  <2>1. i \in Nat /\ i + 1 = j /\ j \in 0 .. n /\ i \in Indices(n) /\ \A k \in Indices(i + 1) : k \in Indices(n)
    BY DEF Indices
  <2>2. E0 = Eval(c, i, y)
    BY <1>2
  <2> HIDE DEF i, y
  <2>3. a \in Int /\ b \in Int /\ Same(a, bp)
    BY <2>1
  <2>4. E0 \in Int /\ E1 \in Int /\ E1 \in Scalar /\ a * q \in Int /\ Same(E1, E0 + a * q)
    <3>1. \A k \in Indices(i + 1) : e[k] \in Int
      BY <2>1
    <3> QED BY <2>1, <3>1, EvalStep
  <2>5. C1 \in Int /\ C1 \in Scalar /\ b * r \in Int /\ Same(C1, E0 + b * r)
    <3>1. \A k \in Indices(i + 1) : c[k] \in Int
      BY <2>1
    <3> QED BY <1>0, <2>1, <2>2, <3>1, EvalStep
  <2>6. p \in Int /\ q \in Int
    BY <2>1, PowerType
  <2>a. r \in Int
    BY <1>0, <2>1, PowerType
  <2>7. Same(r, pq)
    <3>1. Same(y, s * x)
      BY <1>0, SameRefl DEF y
    <3> QED BY <1>0, <2>1, <3>1, PowerOfProduct
  <2> HIDE DEF E0, E1, C1, a, b, p, q, r
  <2>8. bp \in Int /\ pq \in Int /\ bp * q = b * pq /\ b * pq \in Int /\ bp * q \in Int
    BY <2>3, <2>6
  <2> HIDE DEF bp, pq
  <2>9. Same(a * q, bp * q)
    BY <2>3, <2>6, <2>8, SameRefl, SameTimes
  <2>10. Same(b * r, b * pq)
    BY <2>3, <2>7, <2>8, <2>a, SameRefl, SameTimes
  <2>11. Same(b * pq, b * r)
    BY <2>5, <2>8, <2>10, SameSym
  <2>12. Same(a * q, b * r)
    BY <2>4, <2>5, <2>8, <2>9, <2>11, SameTrans
  <2> DEFINE aq == a * q
             br == b * r
  <2>13. aq \in Int /\ br \in Int /\ Same(aq, br) /\ Same(E1, E0 + aq) /\ Same(C1, E0 + br)
    BY <2>4, <2>5, <2>12
  <2> HIDE DEF aq, br
  <2>14. Same(E0 + aq, E0 + br) /\ E0 + aq \in Int /\ E0 + br \in Int
    BY <2>4, <2>13, SameRefl, SamePlus
  <2>15. Same(E1, E0 + br)
    BY <2>4, <2>13, <2>14, SameTrans
  <2>16. Same(E1, C1)
    BY <2>4, <2>5, <2>13, <2>14, <2>15, SameSym, SameTrans
  <2>17. E1 = C1
    BY <2>4, <2>5, <2>16, SameScalar
  <2> QED BY <2>1, <2>17 DEF E1, C1
<1> HIDE DEF T
<1>3. \A j \in 0 .. n : j \in T
  BY <1>1, <1>2, UpTo
<1>4. n \in T
  BY <1>3
<1> QED BY <1>4 DEF T

\* The value at x of the monic polynomial with the given i lower coefficients.
MonicEval(zero, i, x) == Eval(Completed(zero, i, i), i + 1, x)

\* Horner's scheme on it: the power of x, and the polynomial of the lower ones.
LEMMA MonicIs ==
  ASSUME NEW i \in Nat, NEW zero, \A j \in 0 .. i - 1 : zero[j] \in Scalar, NEW L \in Nat
  PROVE  /\ \A j \in 0 .. i : Completed(zero, i, L)[j] = IF j < i THEN zero[j] ELSE 1
         /\ i < L => Completed(zero, i, L) \in Scalars(L)
         /\ i < L => \A j \in 0 .. L - 1 : j > i => Completed(zero, i, L)[j] = 0
         /\ \A j \in 0 .. i : Completed(zero, i, L)[j] \in Int
<1> DEFINE c == Completed(zero, i, L)
           D == 0 .. (IF i < L THEN L - 1 ELSE i)
<1>1. c = [j \in D |-> IF j < i THEN zero[j] ELSE IF j = i THEN 1 ELSE 0]
  BY DEF Completed
<1>2. \A j \in D : c[j] = IF j < i THEN zero[j] ELSE IF j = i THEN 1 ELSE 0
  BY <1>1
<1>3. \A j \in 0 .. i : j \in D /\ c[j] = IF j < i THEN zero[j] ELSE 1
  <2>1. \A j \in 0 .. i : j \in D /\ (j < i \/ j = i)
    OBVIOUS
  <2> HIDE DEF c, D
  <2> QED BY <1>2, <2>1
<1>4. i < L => /\ D = Indices(L) /\ \A j \in 0 .. L - 1 : j > i => c[j] = 0
  <2> SUFFICES ASSUME i < L PROVE D = Indices(L) /\ \A j \in 0 .. L - 1 : j > i => c[j] = 0
    OBVIOUS
  <2>1. D = Indices(L) /\ \A j \in 0 .. L - 1 : j \in D
    BY DEF Indices
  <2>2. \A j \in 0 .. L - 1 : j > i => ~(j < i) /\ j # i
    OBVIOUS
  <2> HIDE DEF c, D
  <2> QED BY <1>2, <2>1, <2>2
<1>5. \A j \in D : c[j] \in Scalar
  <2>1. \A j \in D : j < i => j \in 0 .. i - 1
    OBVIOUS
  <2> HIDE DEF c, D
  <2> QED BY <1>2, <2>1, ScalarType
<1>6. i < L => c \in Scalars(L)
  <2>1. c = [j \in D |-> c[j]]
    BY <1>1
  <2> HIDE DEF c, D
  <2> QED BY <1>4, <1>5, <2>1 DEF Scalars
<1>7. \A j \in 0 .. i : c[j] \in Int
  <2> HIDE DEF c, D
  <2> QED BY <1>3, <1>5, ScalarType
<1> QED BY <1>3, <1>4, <1>6, <1>7

\* Padding it with zeros changes no value.
LEMMA MonicPadded ==
  ASSUME NEW i \in Nat, NEW zero, \A j \in 0 .. i - 1 : zero[j] \in Scalar, NEW L \in Nat, i < L, NEW x \in Int
  PROVE  /\ Eval(Completed(zero, i, L), L, x) = MonicEval(zero, i, x)
         /\ MonicEval(zero, i, x) \in Int
<1> DEFINE c == Completed(zero, i, L)
           d == Completed(zero, i, i)
<1>1. /\ \A j \in 0 .. i : c[j] = (IF j < i THEN zero[j] ELSE 1) /\ c[j] \in Int
      /\ c \in Scalars(L) /\ \A j \in 0 .. L - 1 : j > i => c[j] = 0
  BY MonicIs
<1>2. \A j \in 0 .. i : d[j] = (IF j < i THEN zero[j] ELSE 1) /\ d[j] \in Int
  BY MonicIs
<1> HIDE DEF c, d
<1>3. i + 1 \in Nat /\ i + 1 \in 0 .. L /\ Indices(i + 1) = 0 .. i /\ Indices(L) = 0 .. L - 1
  BY DEF Indices
<1>4. \A j \in Indices(L) : c[j] \in Int /\ (j >= i + 1 => c[j] = 0)
  <2>1. \A j \in Indices(L) : c[j] \in Int
    BY <1>1, ScalarsInt
  <2>2. \A j \in 0 .. L - 1 : j >= i + 1 => j > i
    OBVIOUS
  <2> QED BY <1>1, <1>3, <2>1, <2>2
<1>5. Eval(c, L, x) = Eval(c, i + 1, x)
  BY <1>3, <1>4, EvalTop
<1>6. \A j \in Indices(i + 1) : c[j] \in Int /\ d[j] \in Int /\ Same(c[j], d[j])
  BY <1>1, <1>2, <1>3, SameRefl
<1>7. Eval(c, i + 1, x) = Eval(d, i + 1, x) /\ Eval(d, i + 1, x) \in Int
  <2>1. Eval(c, i + 1, x) = Eval(d, i + 1, x)
    BY <1>3, <1>6, EvalAgree
  <2>2. \A j \in Indices(i + 1) : d[j] \in Int
    BY <1>6
  <2>3. Eval(d, i + 1, x) \in Int
    BY <1>3, <2>2, EvalType
  <2> QED BY <2>1, <2>3
<1> QED BY <1>5, <1>7 DEF MonicEval, c, d

\* With no lower coefficients it is 1.
LEMMA MonicFirst ==
  ASSUME NEW zero, NEW x \in Int
  PROVE  MonicEval(zero, 0, x) = 1
<1> DEFINE d == Completed(zero, 0, 0)
<1>1. d[0] = 1
  BY DEF Completed
<1> HIDE DEF d
<1>2. 0 + 1 = 1 /\ 0 \in Nat /\ \A k \in Indices(1) : d[k] \in Int
  BY <1>1 DEF Indices
<1>3. Eval(d, 0 + 1, x) \in Scalar /\ Same(Eval(d, 0 + 1, x), Eval(d, 0, x) + d[0] * Power(x, 0))
  BY <1>2, EvalStep
<1>4. Eval(d, 0, x) + d[0] * Power(x, 0) = 1
  <2>1. Eval(d, 0, x) = 0 /\ Power(x, 0) = 1
    BY EvalNone, PowerStep
  <2> QED BY <1>1, <2>1
<1>5. Eval(d, 0 + 1, x) = 1
  BY <1>3, <1>4, SameScalar, ScalarType
<1> QED BY <1>5 DEF MonicEval, d

\* A round of zero_poly_fn multiplies the polynomial by (x + sub).
LEMMA MonicRound ==
  ASSUME NEW i \in Nat, NEW zero, \A j \in 0 .. i - 1 : zero[j] \in Scalar, NEW sub \in Scalar, NEW x \in Int
  PROVE  /\ \A j \in 0 .. i : TimesRoot(zero, i, sub)[j] \in Scalar
         /\ Same(MonicEval(TimesRoot(zero, i, sub), i + 1, x), (x + sub) * MonicEval(zero, i, x))
<1> DEFINE z == TimesRoot(zero, i, sub)
           c == Completed(zero, i, i)
           e == Completed(z, i + 1, i + 1)
           t(j) == (IF j = i THEN 1 ELSE zero[j]) * sub + (IF j = 0 THEN 0 ELSE zero[j - 1])
<1>1. \A j \in 0 .. i : z[j] = t(j) % Prime
  BY DEF TimesRoot
<1>2. \A j \in 0 .. i : c[j] = (IF j < i THEN zero[j] ELSE 1) /\ c[j] \in Int
  <2> HIDE DEF t, z
  <2>1. \A j \in 0 .. i : Completed(zero, i, i)[j] = IF j < i THEN zero[j] ELSE 1
    BY MonicIs
  <2>2. \A j \in 0 .. i : Completed(zero, i, i)[j] \in Int
    BY MonicIs
  <2> QED BY <2>1, <2>2
<1>3. sub \in Int
  BY ScalarType
<1>4. ASSUME NEW j \in 0 .. i
      PROVE  t(j) \in Int /\ t(j) = (sub * c[j]) + (IF j = 0 THEN 0 ELSE c[j - 1])
  <2>1. (j = i) => c[j] = 1
    BY <1>2
  <2>2. (j # i) => c[j] = zero[j]
    <3>1. j # i => j < i
      OBVIOUS
    <3> QED BY <1>2, <3>1
  <2>3. j # 0 => j - 1 \in 0 .. i /\ j - 1 < i
    OBVIOUS
  <2>4. j # 0 => c[j - 1] = zero[j - 1] /\ c[j - 1] \in Int
    BY <1>2, <2>3
  <2>5. (IF j = i THEN 1 ELSE zero[j]) = c[j] /\ (IF j = 0 THEN 0 ELSE zero[j - 1]) = (IF j = 0 THEN 0 ELSE c[j - 1])
    BY <2>1, <2>2, <2>4
  <2> DEFINE u == c[j]
             v == IF j = 0 THEN 0 ELSE c[j - 1]
  <2>6. u \in Int /\ v \in Int
    BY <1>2, <2>4
  <2>7. t(j) = u * sub + v
    BY <2>5
  <2> HIDE DEF u, v, t
  <2>8. t(j) \in Int /\ t(j) = (sub * u) + v
    BY <1>3, <2>6, <2>7
  <2> QED BY <2>8 DEF u, v
<1> HIDE DEF z, c, t
<1>5. \A j \in 0 .. i : z[j] \in Scalar /\ Same(z[j], (sub * c[j]) + (IF j = 0 THEN 0 ELSE c[j - 1]))
  BY <1>1, <1>4, ModType
<1>6. i + 1 \in Nat /\ (i + 1) - 1 = i /\ i + 1 \in Nat \ {0} /\ 0 \in 0 .. i /\ i \in 0 .. i
      /\ Indices(i + 1) = 0 .. i /\ Indices((i + 1) + 1) = 0 .. i + 1 /\ \A j \in 0 .. i : j \in 0 .. i + 1 /\ j < i + 1
  BY DEF Indices
<1>7. \A j \in 0 .. i + 1 : e[j] = (IF j < i + 1 THEN z[j] ELSE 1) /\ e[j] \in Int
  <2>1. \A j \in 0 .. (i + 1) - 1 : z[j] \in Scalar
    BY <1>5, <1>6
  <2> QED BY <1>6, <2>1, MonicIs
<1> HIDE DEF e
<1>8. \A j \in 0 .. i : e[j] = z[j]
  BY <1>6, <1>7
<1>9. e[i + 1] = 1 /\ c[i] = 1
  <2>1. i + 1 \in 0 .. i + 1 /\ ~(i + 1 < i + 1) /\ ~(i < i)
    BY <1>6
  <2> QED BY <1>2, <1>6, <1>7, <2>1
<1>10. Same(e[0], sub * c[0])
  <2>1. Same(z[0], (sub * c[0]) + 0)
    BY <1>5, <1>6
  <2>2. (sub * c[0]) + 0 = sub * c[0]
    BY <1>2, <1>3, <1>6
  <2> QED BY <1>6, <1>8, <2>1, <2>2
<1>11. \A k \in 1 .. (i + 1) - 1 : Same(e[k], (sub * c[k]) + c[k - 1])
  <2>1. \A k \in 1 .. (i + 1) - 1 : k \in 0 .. i /\ k # 0
    OBVIOUS
  <2> QED BY <1>5, <1>8, <2>1
<1>12. Same(e[i + 1], c[(i + 1) - 1])
  BY <1>6, <1>9, SameRefl
<1>13. Same(Eval(e, (i + 1) + 1, x), (x + sub) * Eval(c, i + 1, x))
  <2>1. \A k \in Indices(i + 1) : c[k] \in Int
    BY <1>2, <1>6
  <2>2. \A k \in Indices((i + 1) + 1) : e[k] \in Int
    BY <1>6, <1>7
  <2> DEFINE n == i + 1
  <2>3. n \in Nat \ {0}
    BY <1>6
  <2>4. Same(e[n], c[n - 1]) /\ \A k \in 1 .. n - 1 : Same(e[k], (sub * c[k]) + c[k - 1])
    BY <1>11, <1>12
  <2>5. (\A k \in Indices(n) : c[k] \in Int) /\ (\A k \in Indices(n + 1) : e[k] \in Int)
    BY <2>1, <2>2
  <2> HIDE DEF n
  <2>6. Same(Eval(e, n + 1, x), (x + sub) * Eval(c, n, x))
    BY <1>3, <1>10, <2>3, <2>4, <2>5, EvalTimes
  <2> QED BY <2>6 DEF n
<1> QED BY <1>5, <1>13 DEF MonicEval, z, c, e

\* After r rounds the zero polynomial vanishes exactly at the first r roots,
\* and its product with a polynomial of M coefficients has M + r.
ZeroIs(zero, r, f, M) ==
  /\ \A j \in 0 .. r - 1 : zero[j] \in Scalar
  /\ \A x \in Int : Same(MonicEval(zero, r, x), 0) <=> \E k \in 0 .. r - 1 : Same(x, f[k])
  /\ \A c \in Scalars(M) : \E q \in Scalars(M + r) : \A x \in Int :
       Same(Eval(q, M + r, x), Eval(c, M, x) * MonicEval(zero, r, x))

\* Completing it gives a vector of scalars.
LEMMA MonicType ==
  ASSUME NEW i \in Nat, NEW zero, \A j \in 0 .. i - 1 : zero[j] \in Scalar, NEW x \in Int
  PROVE  MonicEval(zero, i, x) \in Int
<1>1. i + 1 \in Nat /\ i < i + 1
  OBVIOUS
<1> QED BY <1>1, MonicPadded

\* 1 is not 0.
LEMMA NotZero == ~Same(1, 0)
<1> QED BY SameScalar, ScalarType

\* Before the first round the zero polynomial is 1,
LEMMA ZeroIsFirst ==
  ASSUME NEW zero, NEW f, NEW M \in Nat
  PROVE  ZeroIs(zero, 0, f, M)
<1>1. \A x \in Int : MonicEval(zero, 0, x) = 1
  BY MonicFirst
<1>2. \A j \in 0 .. 0 - 1 : zero[j] \in Scalar
  OBVIOUS
<1>3. ~ \E k \in 0 .. 0 - 1 : TRUE
  OBVIOUS
<1>4. ASSUME NEW c \in Scalars(M)
      PROVE  \E q \in Scalars(M + 0) : \A x \in Int :
               Same(Eval(q, M + 0, x), Eval(c, M, x) * MonicEval(zero, 0, x))
  <2>1. M + 0 = M
    OBVIOUS
  <2>2. ASSUME NEW x \in Int PROVE Same(Eval(c, M, x), Eval(c, M, x) * MonicEval(zero, 0, x))
    <3>1. Eval(c, M, x) \in Int
      BY ScalarsInt, EvalType
    <3>2. Eval(c, M, x) * 1 = Eval(c, M, x) /\ Same(Eval(c, M, x), Eval(c, M, x))
      BY <3>1, SameRefl
    <3> QED BY <1>1, <3>2
  <2> QED BY <2>1, <2>2
<1>5. \A x \in Int : Same(MonicEval(zero, 0, x), 0) <=> \E k \in 0 .. 0 - 1 : Same(x, f[k])
  BY <1>1, <1>3, NotZero
<1> QED BY <1>2, <1>4, <1>5 DEF ZeroIs

\* Multiplying a polynomial by (x + s) takes one more coefficient.
LEMMA TimesExists ==
  ASSUME NEW n \in Nat \ {0}, NEW c \in Scalars(n), NEW s \in Int
  PROVE  \E e \in Scalars(n + 1) : \A x \in Int : Same(Eval(e, n + 1, x), (x + s) * Eval(c, n, x))
<1> DEFINE t(k) == (IF k < n THEN s * c[k] ELSE 0) + (IF k > 0 THEN c[k - 1] ELSE 0)
           e == [k \in Indices(n + 1) |-> t(k) % Prime]
<1>1. Indices(n) = 0 .. n - 1 /\ Indices(n + 1) = 0 .. n
  BY DEF Indices
<1>2. \A k \in 0 .. n - 1 : c[k] \in Int
  BY <1>1, ScalarsInt
<1>3. ASSUME NEW k \in 0 .. n PROVE t(k) \in Int
  <2>1. (k < n => k \in 0 .. n - 1) /\ (k > 0 => k - 1 \in 0 .. n - 1)
    OBVIOUS
  <2>2. (k < n => c[k] \in Int) /\ (k > 0 => c[k - 1] \in Int)
    BY <1>2, <2>1
  <2>3. k < n => s * c[k] \in Int
    BY <2>2
  <2> QED BY <2>2, <2>3
<1>4. ASSUME NEW k \in 0 .. n PROVE e[k] \in Scalar /\ e[k] \in Int /\ Same(e[k], t(k))
  <2>1. e[k] = t(k) % Prime
    BY <1>1
  <2> HIDE DEF e, t
  <2> QED BY <1>3, <2>1, ModType, ScalarType
<1>5. e \in Scalars(n + 1)
  <2>1. e = [k \in Indices(n + 1) |-> e[k]]
    OBVIOUS
  <2> HIDE DEF e
  <2> QED BY <1>1, <1>4, <2>1 DEF Scalars
<1>6. t(0) = s * c[0]
  <2>1. 0 < n /\ ~(0 > 0) /\ 0 \in 0 .. n - 1
    OBVIOUS
  <2>2. s * c[0] \in Int
    BY <1>2, <2>1
  <2> QED BY <2>1, <2>2
<1>7. t(n) = c[n - 1]
  <2>1. ~(n < n) /\ n > 0 /\ n - 1 \in 0 .. n - 1
    OBVIOUS
  <2> QED BY <1>2, <2>1
<1>8. \A k \in 1 .. n - 1 : k \in 0 .. n /\ t(k) = (s * c[k]) + c[k - 1]
  OBVIOUS
<1> HIDE DEF e, t
<1>9. Same(e[0], s * c[0]) /\ Same(e[n], c[n - 1]) /\ \A k \in 1 .. n - 1 : Same(e[k], (s * c[k]) + c[k - 1])
  <2>1. 0 \in 0 .. n /\ n \in 0 .. n
    OBVIOUS
  <2> QED BY <1>4, <1>6, <1>7, <1>8, <2>1
<1>10. (\A k \in Indices(n) : c[k] \in Int) /\ (\A k \in Indices(n + 1) : e[k] \in Int)
  BY <1>1, <1>2, <1>4
<1>11. \A x \in Int : Same(Eval(e, n + 1, x), (x + s) * Eval(c, n, x))
  BY <1>9, <1>10, EvalTimes
<1> QED BY <1>5, <1>11

\* and a round with the next root keeps it a zero polynomial.
LEMMA ZeroIsNext ==
  ASSUME NEW r \in Nat, NEW zero, NEW f, NEW M \in Nat \ {0}, ZeroIs(zero, r, f, M),
         NEW sub \in Scalar, f[r] \in Int, Same(sub, -f[r]), \A k \in 0 .. r - 1 : f[k] \in Int
  PROVE  ZeroIs(TimesRoot(zero, r, sub), r + 1, f, M)
<1> DEFINE z == TimesRoot(zero, r, sub)
           Z0(x) == MonicEval(zero, r, x)
           Z1(x) == MonicEval(z, r + 1, x)
<1>1. \A j \in 0 .. r - 1 : zero[j] \in Scalar
  BY DEF ZeroIs
<1>2. \A j \in 0 .. r : z[j] \in Scalar
  BY <1>1, MonicRound, ScalarType
<1>3. ASSUME NEW x \in Int PROVE Z0(x) \in Int /\ Z1(x) \in Int /\ Same(Z1(x), (x + sub) * Z0(x))
  <2>1. Z0(x) \in Int
    BY <1>1, MonicType
  <2>2. Same(Z1(x), (x + sub) * Z0(x))
    BY <1>1, MonicRound
  <2>3. r + 1 \in Nat /\ (r + 1) - 1 = r
    OBVIOUS
  <2>4. Z1(x) \in Int
    <3> HIDE DEF z
    <3> QED BY <1>2, <2>3, MonicType
  <2> QED BY <2>1, <2>2, <2>4
<1>4. sub \in Int
  BY ScalarType
<1> HIDE DEF z
<1>5. ASSUME NEW x \in Int
      PROVE  Same(x + sub, 0) <=> Same(x, f[r])
  <2> DEFINE g == f[r]
  <2>1. g \in Int /\ Same(sub, -g)
    OBVIOUS
  <2> HIDE DEF g
  <2>2. ASSUME Same(x, g) PROVE Same(x + sub, 0)
    <3>1. Same(x + sub, g + (-g)) /\ g + (-g) = 0
      BY <1>4, <2>1, <2>2, SamePlus
    <3> QED BY <3>1
  <2>3. ASSUME Same(x + sub, 0) PROVE Same(x, g)
    <3> DEFINE y == x + sub
               h == -g
    <3>1. y \in Int /\ h \in Int /\ Same(y, 0) /\ Same(h, sub)
      BY <1>4, <2>1, <2>3, SameSym
    <3>2. y + (-sub) = x /\ sub + g \in Int /\ -sub \in Int
      BY <1>4, <2>1
    <3>3. Same(sub + g, h + g)
      BY <1>4, <2>1, <3>1, SameRefl, SamePlus
    <3>4. Same(g, -sub)
      <4>1. Same((sub + g) + (-sub), (h + g) + (-sub))
        <5>1. h + g \in Int /\ Same(-sub, -sub)
          BY <2>1, <3>1, <3>2, SameRefl
        <5> HIDE DEF h
        <5> QED BY <3>2, <3>3, <5>1, SamePlus
      <4>2. (sub + g) + (-sub) = g /\ (h + g) + (-sub) = -sub
        BY <1>4, <2>1
      <4> QED BY <4>1, <4>2
    <3> HIDE DEF y, h
    <3>5. Same(y + (-sub), 0 + (-sub)) /\ 0 + (-sub) = -sub
      <4> DEFINE m == -sub
      <4>1. m \in Int /\ Same(m, m) /\ 0 + m = m
        BY <3>2, SameRefl
      <4>z. PICK o \in Int : o = 0
        OBVIOUS
      <4> HIDE DEF m
      <4>2. Same(y + m, o + m)
        BY <3>1, <4>1, <4>z, SamePlus
      <4> QED BY <4>1, <4>2, <4>z DEF m
    <3>6. Same(x, -sub)
      BY <3>2, <3>5
    <3> QED BY <2>1, <3>2, <3>4, <3>6, SameSym, SameTrans
  <2> QED BY <2>2, <2>3 DEF g
<1>6. ASSUME NEW x \in Int
      PROVE  Same(Z1(x), 0) <=> \E k \in 0 .. r : Same(x, f[k])
  <2> DEFINE a == x + sub
             b == Z0(x)
             d == Z1(x)
  <2>1. a \in Int /\ b \in Int /\ d \in Int /\ Same(d, a * b)
    BY <1>3, <1>4
  <2>2. Same(b, 0) <=> \E k \in 0 .. r - 1 : Same(x, f[k])
    BY DEF ZeroIs
  <2>3. Same(a, 0) <=> Same(x, f[r])
    BY <1>5
  <2> HIDE DEF a, b, d
  <2>4. Same(d, 0) <=> Same(a, 0) \/ Same(b, 0)
    <3>1. a * b \in Int /\ 0 * b = 0 /\ a * 0 = 0
      BY <2>1
    <3>2. Same(d, 0) <=> Same(a * b, 0)
      BY <2>1, <3>1, SameSym, SameTrans
    <3>z. PICK o \in Int : o = 0
      OBVIOUS
    <3>a. o * b = 0 /\ a * o = 0 /\ Same(a, a) /\ Same(b, b)
      BY <2>1, <3>z, SameRefl
    <3>3. Same(a, 0) => Same(a * b, 0)
      <4>1. Same(a, o) => Same(a * b, o * b)
        BY <2>1, <3>a, SameTimes
      <4> QED BY <3>a, <3>z, <4>1
    <3>4. Same(b, 0) => Same(a * b, 0)
      <4>1. Same(b, o) => Same(a * b, a * o)
        BY <2>1, <3>a, SameTimes
      <4> QED BY <3>a, <3>z, <4>1
    <3>5. Same(a * b, 0) => Same(a, 0) \/ Same(b, 0)
      BY <2>1, NoZeroDivisors
    <3> QED BY <3>2, <3>3, <3>4, <3>5
  <2>5. \A k \in 0 .. r : k = r \/ k \in 0 .. r - 1
    OBVIOUS
  <2>6. r \in 0 .. r /\ \A k \in 0 .. r - 1 : k \in 0 .. r
    OBVIOUS
  <2>7. Same(d, 0) <=> \E k \in 0 .. r : Same(x, f[k])
    BY <2>2, <2>3, <2>4, <2>5, <2>6
  <2> QED BY <2>7 DEF d
<1>7. ASSUME NEW c \in Scalars(M)
      PROVE  \E q \in Scalars(M + (r + 1)) : \A x \in Int :
               Same(Eval(q, M + (r + 1), x), Eval(c, M, x) * Z1(x))
  <2> DEFINE n == M + r
  <2>1. PICK p \in Scalars(n) : \A x \in Int : Same(Eval(p, n, x), Eval(c, M, x) * Z0(x))
    BY DEF ZeroIs
  <2>2. n \in Nat \ {0} /\ n + 1 = M + (r + 1)
    OBVIOUS
  <2> HIDE DEF n
  <2>3. PICK q \in Scalars(n + 1) : \A x \in Int : Same(Eval(q, n + 1, x), (x + sub) * Eval(p, n, x))
    BY <1>4, <2>2, TimesExists
  <2>4. ASSUME NEW x \in Int PROVE Same(Eval(q, n + 1, x), Eval(c, M, x) * Z1(x))
    <3> DEFINE Q == Eval(q, n + 1, x)
               P == Eval(p, n, x)
               C == Eval(c, M, x)
               a == x + sub
               b == Z0(x)
               d == Z1(x)
               ab == a * b
               cb == C * b
    <3>1. P \in Int /\ C \in Int /\ Q \in Int
      <4>1. n + 1 \in Nat /\ n \in Nat
        BY <2>2
      <4>2. P \in Int
        BY <4>1, ScalarsInt, EvalType
      <4>3. C \in Int
        BY ScalarsInt, EvalType
      <4>4. Q \in Int
        BY <4>1, ScalarsInt, EvalType
      <4> QED BY <4>2, <4>3, <4>4
    <3>2. a \in Int /\ b \in Int /\ d \in Int /\ Same(d, ab)
      BY <1>3, <1>4
    <3>3. Same(Q, a * P)
      BY <2>3
    <3>4. Same(P, cb)
      BY <2>1
    <3> HIDE DEF Q, P, C, a, b, d
    <3>5. ab \in Int /\ cb \in Int /\ a * cb = C * ab /\ a * P \in Int /\ C * ab \in Int /\ C * d \in Int
      BY <3>1, <3>2
    <3> HIDE DEF ab, cb
    <3>6. Same(a * P, a * cb)
      BY <3>1, <3>2, <3>4, <3>5, SameRefl, SameTimes
    <3>7. Same(C * d, C * ab)
      BY <3>1, <3>2, <3>5, SameRefl, SameTimes
    <3>8. Same(C * ab, C * d)
      BY <3>5, <3>7, SameSym
    <3>9. Same(Q, C * ab)
      BY <3>1, <3>3, <3>5, <3>6, SameTrans
    <3>10. Same(Q, C * d)
      BY <3>1, <3>5, <3>8, <3>9, SameTrans
    <3> QED BY <3>10 DEF Q, C, d
  <2>5. \E qq \in Scalars(n + 1) : \A x \in Int : Same(Eval(qq, n + 1, x), Eval(c, M, x) * Z1(x))
    BY <2>4
  <2> QED BY <2>2, <2>5
<1>8. (r + 1) - 1 = r
  OBVIOUS
<1>9. ZeroIs(z, r + 1, f, M)
  BY <1>2, <1>6, <1>7, <1>8 DEF ZeroIs
<1> QED BY <1>9 DEF z

-------------------------------------------------------------------------------
\* shift_poly and the domain it leads to.

\* The inverse of the shift factor.
Unshift == InverseOf[ShiftFactor % Prime]

\* It is one.
LEMMA ShiftInverse ==
  /\ Unshift \in Int /\ ShiftFactor \in Int /\ Same(ShiftFactor * Unshift, 1)
  /\ Same(Unshift * ShiftFactor, 1)
<1>1. 5 \in Scalar /\ 5 \in 1 .. Prime - 1
  BY PrimeType DEF Scalar
<1>2. ShiftFactor % Prime = 5
  BY <1>1, ModOf DEF ShiftFactor
<1>3. InverseOf[5] \in 1 .. Prime - 1 /\ Same(5 * InverseOf[5], 1)
  BY <1>1, InverseOfIs
<1> DEFINE v == InverseOf[5]
<1>4. v \in Int /\ Same(5 * v, 1) /\ Unshift = v
  BY <1>2, <1>3 DEF Unshift
<1> HIDE DEF v
<1>5. 5 * v = v * 5
  BY <1>4
<1> QED BY <1>4, <1>5 DEF ShiftFactor

\* The shift scales the points, and is undone.
LEMMA ShiftIs ==
  ASSUME NEW n, Fits(n), NEW c \in Scalars(n)
  PROVE  /\ ShiftPoly(c) \in Scalars(n)
         /\ ShiftedEvals(c, n) \in Scalars(n)
         /\ \A i \in Indices(n) : /\ Power(GroupGen(n), i) \in Int
                                  /\ ShiftedEvals(c, n)[i] = Eval(c, n, Unshift * Power(GroupGen(n), i))
         /\ UnshiftPoly(ShiftPoly(c)) = c
<1> DEFINE d == ShiftPoly(c)
           e == UnshiftPoly(d)
<1>1. n \in Nat /\ GroupGen(n) \in Int
  BY DomainRoot
<1>2. DOMAIN c = Indices(n) /\ \A i \in Indices(n) : c[i] \in Int /\ c[i] \in Scalar /\ i \in Nat
  <2>1. \A i \in Indices(n) : i \in Nat
    BY DEF Indices
  <2> QED BY <2>1, ScalarsInt DEF Scalars
<1>3. d = [i \in Indices(n) |-> (c[i] * Power(Unshift, i)) % Prime]
  BY <1>2 DEF ShiftPoly, Unshift
<1>4. ASSUME NEW i \in Indices(n)
      PROVE  /\ Power(Unshift, i) \in Int /\ c[i] * Power(Unshift, i) \in Int
             /\ d[i] = (c[i] * Power(Unshift, i)) % Prime
             /\ d[i] \in Scalar /\ d[i] \in Int /\ Same(d[i], c[i] * Power(Unshift, i))
  <2>1. Power(Unshift, i) \in Int
    BY <1>2, ShiftInverse, PowerType
  <2>2. c[i] * Power(Unshift, i) \in Int
    BY <1>2, <2>1
  <2>3. d[i] = (c[i] * Power(Unshift, i)) % Prime
    BY <1>3
  <2> HIDE DEF d
  <2> QED BY <2>1, <2>2, <2>3, ModType, ScalarType
<1>5. d \in Scalars(n) /\ d = [i \in Indices(n) |-> d[i]] /\ DOMAIN d = Indices(n)
  <2>1. d = [i \in Indices(n) |-> d[i]]
    BY <1>3
  <2> HIDE DEF d
  <2> QED BY <1>4, <2>1 DEF Scalars
<1> HIDE DEF d
<1>6. ShiftedEvals(c, n) \in Scalars(n) /\ \A i \in Indices(n) : ShiftedEvals(c, n)[i] = Eval(d, n, Power(GroupGen(n), i))
  <2>1. Resize(d, n) = d
    BY <1>1, <1>5, ResizeType
  <2>2. /\ Fft(d, n) \in Scalars(n)
        /\ \A i \in Indices(n) : Fft(d, n)[i] = Eval(Resize(d, n), n, Power(GroupGen(n), i))
    BY <1>1, <1>5, FftIs
  <2> QED BY <2>1, <2>2 DEF ShiftedEvals, d
<1>7. ASSUME NEW i \in Indices(n)
      PROVE  /\ Power(GroupGen(n), i) \in Int
             /\ Eval(d, n, Power(GroupGen(n), i)) = Eval(c, n, Unshift * Power(GroupGen(n), i))
  <2>1. Power(GroupGen(n), i) \in Int
    BY <1>1, <1>2, PowerType
  <2>2. \A k \in Indices(n) : c[k] \in Int /\ d[k] \in Int /\ Same(d[k], c[k] * Power(Unshift, k))
    BY <1>2, <1>4
  <2> QED BY <1>1, <2>1, <2>2, ShiftInverse, EvalShift
<1>8. e = [i \in Indices(n) |-> (d[i] * Power(ShiftFactor, i)) % Prime]
  BY <1>5 DEF UnshiftPoly
<1>9. ASSUME NEW i \in Indices(n) PROVE e[i] = c[i]
  <2> DEFINE a == c[i]
             b == d[i]
             p == Power(Unshift, i)
             q == Power(ShiftFactor, i)
             ap == a * p
             pq == p * q
  <2>1. e[i] = (b * q) % Prime
    BY <1>8
  <2>2. a \in Int /\ a \in Scalar /\ b \in Int /\ p \in Int /\ Same(b, ap)
    BY <1>2, <1>4
  <2>3. q \in Int
    BY <1>2, ShiftInverse, PowerType
  <2>4. Same(pq, 1)
    BY <1>2, ShiftInverse, InversePowers
  <2> HIDE DEF a, b, p, q, e
  <2>5. ap \in Int /\ pq \in Int /\ b * q \in Int /\ ap * q = a * pq /\ ap * q \in Int
    BY <2>2, <2>3
  <2>o. PICK o \in Int : o = 1
    OBVIOUS
  <2>6. a * o = a
    BY <2>2, <2>o
  <2> HIDE DEF ap, pq
  <2>7. Same(b * q, ap * q)
    BY <2>2, <2>3, <2>5, SameRefl, SameTimes
  <2>8. Same(a * pq, a * o)
    BY <2>2, <2>4, <2>5, <2>o, SameRefl, SameTimes
  <2>9. Same(b * q, a)
    BY <2>2, <2>5, <2>6, <2>7, <2>8, SameTrans
  <2>10. (b * q) % Prime = a % Prime
    BY <2>2, <2>5, <2>9, ModSame
  <2>11. e[i] = a
    BY <2>1, <2>2, <2>10, ModOf
  <2> QED BY <2>11 DEF a
<1>10. e = c
  <2>1. c = [i \in Indices(n) |-> c[i]] /\ e = [i \in Indices(n) |-> e[i]]
    BY <1>8 DEF Scalars
  <2> HIDE DEF e
  <2> QED BY <1>9, <2>1
<1> QED BY <1>5, <1>6, <1>7, <1>10 DEF d

\* The shifted points are off the domain.
LEMMA OffDomain ==
  ASSUME NEW n, Fits(n), Power(ShiftFactor, n) # 1, NEW i \in Indices(n), NEW j \in Indices(n)
  PROVE  ~Same(Unshift * Power(GroupGen(n), i), Power(GroupGen(n), j))
<1> SUFFICES ASSUME Same(Unshift * Power(GroupGen(n), i), Power(GroupGen(n), j)) PROVE FALSE
  OBVIOUS
<1> DEFINE w == GroupGen(n)
           a == Power(w, i)
           b == Power(w, j)
           s == Unshift
           t == ShiftFactor
           y == s * a
<1>1. n \in Nat /\ w \in Int /\ Power(w, n) = 1 /\ i \in Nat /\ j \in Nat
  <2>1. i \in Nat /\ j \in Nat
    BY DEF Indices
  <2>2. n \in Nat /\ w \in Int /\ Root(w, InverseOf[w], n)
    BY DomainRoot
  <2> QED BY <2>1, <2>2 DEF Root
<1> HIDE DEF w
<1>2. a \in Int /\ b \in Int
  BY <1>1, PowerType
<1>3. Power(a, n) = 1 /\ Power(b, n) = 1
  <2>1. i * n = n * i /\ j * n = n * j
    BY <1>1
  <2>2. Power(a, n) = Power(w, i * n) /\ Power(Power(w, n), i) = Power(w, n * i)
    BY <1>1, PowerOfPower
  <2>3. Power(b, n) = Power(w, j * n) /\ Power(Power(w, n), j) = Power(w, n * j)
    BY <1>1, PowerOfPower
  <2>4. Power(1, i) = 1 /\ Power(1, j) = 1
    BY <1>1, PowerOfOne
  <2> HIDE DEF a, b
  <2> QED BY <1>1, <2>1, <2>2, <2>3, <2>4
<1>4. s \in Int /\ t \in Int /\ Same(t * s, 1)
  BY ShiftInverse
<1>5. Same(y, b)
  BY DEF w
<1> HIDE DEF a, b, s, t
<1>6. y \in Int
  BY <1>2, <1>4
<1>7. Power(y, n) = 1
  <2> HIDE DEF y
  <2> QED BY <1>1, <1>2, <1>3, <1>5, <1>6, PowerSame
<1>8. Same(Power(y, n), Power(s, n) * Power(a, n))
  <2>1. Same(y, s * a)
    BY <1>6, SameRefl
  <2> QED BY <1>1, <1>2, <1>4, <1>6, <2>1, PowerOfProduct
<1>9. Power(s, n) \in Int /\ Power(s, n) \in Scalar
  BY <1>1, <1>4, PowerType
<1>10. Power(s, n) * 1 = Power(s, n)
  BY <1>9
<1>11. Power(s, n) = 1
  BY <1>3, <1>7, <1>8, <1>9, <1>10, SameScalar, ScalarType
<1>12. Same(Power(t, n) * Power(s, n), 1)
  BY <1>1, <1>4, InversePowers
<1>13. Power(t, n) \in Scalar /\ Power(t, n) \in Int
  BY <1>1, <1>4, PowerType
<1>14. Power(t, n) * 1 = Power(t, n)
  BY <1>13
<1>15. Power(t, n) = 1
  BY <1>11, <1>12, <1>13, <1>14, SameScalar, ScalarType
<1> QED BY <1>15 DEF t

\* The zero polynomial on the domain and off it.
LEMMA ZeroEvals ==
  ASSUME NEW n, Fits(n), Power(ShiftFactor, n) # 1, NEW r \in Nat, r < n, NEW zero, NEW f, NEW M, ZeroIs(zero, r, f, M),
         \A k \in 0 .. r - 1 : \E j \in Indices(n) : f[k] = Power(GroupGen(n), j)
  PROVE  /\ Completed(zero, r, n) \in Scalars(n)
         /\ Fft(Completed(zero, r, n), n) \in Scalars(n)
         /\ ShiftedEvals(Completed(zero, r, n), n) \in Scalars(n)
         /\ \A i \in Indices(n) :
              /\ Fft(Completed(zero, r, n), n)[i] = MonicEval(zero, r, Power(GroupGen(n), i))
              /\ ShiftedEvals(Completed(zero, r, n), n)[i] = MonicEval(zero, r, Unshift * Power(GroupGen(n), i))
              /\ ShiftedEvals(Completed(zero, r, n), n)[i] # 0
<1> DEFINE c == Completed(zero, r, n)
           w == GroupGen(n)
<1>1. n \in Nat /\ w \in Int
  BY DomainRoot
<1>2. \A j \in 0 .. r - 1 : zero[j] \in Scalar
  BY DEF ZeroIs
<1>3. c \in Scalars(n)
  BY <1>1, <1>2, MonicIs
<1>4. \A x \in Int : Eval(c, n, x) = MonicEval(zero, r, x)
  BY <1>1, <1>2, MonicPadded
<1>a. \A x \in Int : MonicEval(zero, r, x) \in Int
  BY <1>2, MonicType
<1> HIDE DEF c
<1>5. Fft(c, n) \in Scalars(n) /\ \A i \in Indices(n) : Fft(c, n)[i] = Eval(c, n, Power(w, i))
  <2>1. Resize(c, n) = c
    BY <1>1, <1>3, ResizeType
  <2>2. /\ Fft(c, n) \in Scalars(n)
        /\ \A i \in Indices(n) : Fft(c, n)[i] = Eval(Resize(c, n), n, Power(GroupGen(n), i))
    BY <1>1, <1>3, FftIs
  <2> QED BY <2>1, <2>2
<1>6. /\ ShiftedEvals(c, n) \in Scalars(n)
      /\ \A i \in Indices(n) : Power(w, i) \in Int /\ ShiftedEvals(c, n)[i] = Eval(c, n, Unshift * Power(w, i))
  BY <1>3, ShiftIs
<1>7. ASSUME NEW i \in Indices(n)
      PROVE  /\ Fft(c, n)[i] = MonicEval(zero, r, Power(w, i))
             /\ ShiftedEvals(c, n)[i] = MonicEval(zero, r, Unshift * Power(w, i))
             /\ ShiftedEvals(c, n)[i] # 0
  <2> DEFINE x == Unshift * Power(w, i)
  <2>1. Power(w, i) \in Int /\ x \in Int
    BY <1>6, ShiftInverse
  <2>2. ~ \E k \in 0 .. r - 1 : Same(x, f[k])
    <3> SUFFICES ASSUME NEW k \in 0 .. r - 1, Same(x, f[k]) PROVE FALSE
      OBVIOUS
    <3>1. PICK j \in Indices(n) : f[k] = Power(w, j)
      OBVIOUS
    <3> QED BY <3>1, OffDomain
  <2>3. ShiftedEvals(c, n)[i] = Eval(c, n, x)
    BY <1>6
  <2> HIDE DEF x
  <2>4. ~Same(MonicEval(zero, r, x), 0)
    BY <2>1, <2>2 DEF ZeroIs
  <2>5. ~(MonicEval(zero, r, x) = 0)
    BY <2>4, SameRefl
  <2>6. Fft(c, n)[i] = MonicEval(zero, r, Power(w, i))
    BY <1>4, <1>5, <2>1
  <2>7. ShiftedEvals(c, n)[i] = MonicEval(zero, r, x)
    BY <1>4, <2>1, <2>3
  <2> QED BY <2>5, <2>6, <2>7 DEF x
<1> QED BY <1>3, <1>5, <1>6, <1>7 DEF c, w

\* With every cell missing the polynomial has one coefficient too many: what is
\* left of it is -1 on the whole domain.
LEMMA AllMissing ==
  ASSUME NEW n, Fits(n), NEW zero, NEW f, NEW M, ZeroIs(zero, n, f, M),
         NEW i \in Indices(n), \E k \in 0 .. n - 1 : f[k] = Power(GroupGen(n), i)
  PROVE  Fft(Completed(zero, n, n), n)[i] # 0
<1> DEFINE c == Completed(zero, n, n)
           w == GroupGen(n)
           x == Power(w, i)
           d == Resize(c, n)
<1>1. n \in Nat /\ w \in Int /\ Power(w, n) = 1 /\ i \in Nat
  <2>1. i \in Nat
    BY DEF Indices
  <2>2. n \in Nat /\ w \in Int /\ Root(w, InverseOf[w], n)
    BY DomainRoot
  <2> QED BY <2>1, <2>2 DEF Root
<1>2. \A j \in 0 .. n - 1 : zero[j] \in Scalar
  BY DEF ZeroIs
<1>3. (\A j \in 0 .. n : c[j] = IF j < n THEN zero[j] ELSE 1) /\ \A j \in 0 .. n : c[j] \in Int
  BY <1>1, <1>2, MonicIs
<1>4. DOMAIN c = 0 .. n
  <2>1. ~(n < n)
    BY <1>1
  <2> QED BY <2>1 DEF Completed
<1>5. Indices(n) = 0 .. n - 1 /\ Indices(n + 1) = 0 .. n /\ n \in 0 .. n /\ \A j \in 0 .. n - 1 : j \in 0 .. n
  BY <1>1 DEF Indices
<1> HIDE DEF c
<1>6. \A j \in Indices(n) : d[j] = c[j]
  BY <1>4, <1>5 DEF Resize
<1>7. Fft(c, n)[i] = Eval(d, n, x)
  BY DEF Fft
<1> HIDE DEF d
<1>8. x \in Int
  <2> HIDE DEF w
  <2> QED BY <1>1, PowerType
<1>9. Power(x, n) = 1
  <2> HIDE DEF w
  <2>1. i * n = n * i
    BY <1>1
  <2>2. Power(x, n) = Power(w, i * n) /\ Power(Power(w, n), i) = Power(w, n * i)
    BY <1>1, PowerOfPower
  <2>3. Power(1, i) = 1
    BY <1>1, PowerOfOne
  <2> HIDE DEF x
  <2> QED BY <1>1, <2>1, <2>2, <2>3
<1>10. Same(MonicEval(zero, n, x), 0)
  <2>1. PICK k \in 0 .. n - 1 : f[k] = x
    OBVIOUS
  <2>2. Same(x, f[k])
    BY <1>8, <2>1, SameRefl
  <2> HIDE DEF x
  <2> QED BY <1>8, <2>2 DEF ZeroIs
<1> HIDE DEF x
<1>11. Eval(d, n, x) = Eval(c, n, x)
  <2>1. \A j \in Indices(n) : d[j] \in Int /\ c[j] \in Int /\ Same(d[j], c[j])
    BY <1>3, <1>5, <1>6, SameRefl
  <2> QED BY <1>1, <1>8, <2>1, EvalAgree
<1> DEFINE E == Eval(c, n, x)
           F == Eval(c, n + 1, x)
<1>12. E \in Int /\ E \in Scalar /\ F \in Int /\ Same(F, E + 1)
  <2>1. \A j \in Indices(n + 1) : c[j] \in Int
    BY <1>3, <1>5
  <2>2. E \in Int /\ E \in Scalar /\ F \in Int /\ Same(F, E + c[n] * Power(x, n))
    BY <1>1, <1>8, <2>1, EvalStep
  <2>3. c[n] = 1
    BY <1>1, <1>3, <1>5
  <2>4. c[n] * Power(x, n) = 1
    BY <1>9, <2>3
  <2> QED BY <2>2, <2>4
<1>13. Same(F, 0)
  BY <1>10 DEF MonicEval, c
<1> HIDE DEF E, F
<1>14. E # 0
  <2> SUFFICES ASSUME E = 0 PROVE FALSE
    OBVIOUS
  <2>1. E + 1 = 1
    OBVIOUS
  <2>2. Same(F, 1)
    BY <1>12, <2>1
  <2>3. Same(1, 0)
    BY <1>12, <1>13, <2>2, SameSym, SameTrans
  <2> QED BY <2>3, NotZero
<1> QED BY <1>7, <1>11, <1>14 DEF E, c

-------------------------------------------------------------------------------
\* reconstruct_poly on a subset with half of the column.

\* The author's extension: the coefficients of the data, evaluated on twice
\* as many points.
LEMMA ExtendIs ==
  ASSUME NEW M, Fits(M), Fits(2 * M), NEW data \in Scalars(M)
  PROVE  /\ Ifft(data, M) \in Scalars(M)
         /\ Extend(M, data) \in Scalars(2 * M)
         /\ \A i \in Indices(2 * M) :
              Extend(M, data)[i] = Eval(Ifft(data, M), M, Power(GroupGen(2 * M), i))
<1> DEFINE d == Ifft(data, M)
           n == 2 * M
           w == GroupGen(n)
<1>1. M \in Nat /\ n \in Nat /\ M <= n /\ w \in Int
  BY DomainRoot
<1>2. d \in Scalars(M)
  BY <1>1, IfftIs
<1> HIDE DEF d, n
<1>3. /\ Fft(d, n) \in Scalars(n)
      /\ \A i \in Indices(n) : Fft(d, n)[i] = Eval(Resize(d, n), n, Power(w, i))
  <2>1. Fits(n)
    BY DEF n
  <2> QED BY <1>1, <1>2, <2>1, FftIs
<1>4. ASSUME NEW i \in Indices(n) PROVE Eval(Resize(d, n), n, Power(w, i)) = Eval(d, M, Power(w, i))
  <2>1. i \in Nat
    BY DEF Indices
  <2>2. Power(w, i) \in Int
    <3> HIDE DEF w
    <3> QED BY <1>1, <2>1, PowerType
  <2> QED BY <1>1, <1>2, <2>2, EvalResize
<1>5. Extend(M, data) = Fft(d, n)
  BY DEF Extend, d, n
<1> QED BY <1>2, <1>3, <1>4, <1>5 DEF d, n

\* All the stages after the zero polynomial: from any half of the coded cells
\* the data comes back.
LEMMA Reconstructs ==
  ASSUME NEW M, Fits(M), NEW n, n = 2 * M, Fits(n), n \div 2 = M, Power(ShiftFactor, n) # 1,
         NEW data \in Scalars(M),
         NEW some, DOMAIN some = Indices(n),
         \A i \in Indices(n) : some[i] = None \/ some[i] = Extend(M, data)[i],
         NEW r \in Nat, r <= M, NEW zero, NEW f, ZeroIs(zero, r, f, M),
         \A k \in 0 .. r - 1 : \E j \in Indices(n) : f[k] = Power(GroupGen(n), j),
         \A i \in Indices(n) : some[i] = None => \E k \in 0 .. r - 1 : f[k] = Power(GroupGen(n), i),
         NEW monic, monic = Completed(zero, r, n),
         NEW zeroEval, zeroEval = Fft(monic, n),
         NEW over, over = ShiftedEvals(Ifft(PolyEvalsWithZero(some, zeroEval), n), n),
         NEW under, under = ShiftedEvals(monic, n)
  PROVE  /\ \A i \in Indices(n) : some[i] = None => zeroEval[i] = 0
         /\ DataFrom(Quotient(over, under), n) = data
<1> DEFINE w == GroupGen(n)
           d == Ifft(data, M)
           s == Unshift
           e == PolyEvalsWithZero(some, zeroEval)
           p == Ifft(e, n)
           Z(x) == MonicEval(zero, r, x)
<1>1. M \in Nat \ {0} /\ n \in Nat /\ M + r \in Nat /\ M + r <= n /\ r < n /\ w \in Int /\ M <= n
  BY DomainRoot
<1>2. /\ d \in Scalars(M) /\ Extend(M, data) \in Scalars(n)
      /\ \A i \in Indices(n) : Extend(M, data)[i] = Eval(d, M, Power(w, i))
  BY ExtendIs
<1>3. /\ monic \in Scalars(n) /\ zeroEval \in Scalars(n) /\ under \in Scalars(n)
      /\ \A i \in Indices(n) : /\ zeroEval[i] = Z(Power(w, i))
                               /\ under[i] = Z(s * Power(w, i)) /\ under[i] # 0
  BY <1>1, ZeroEvals
<1>4. \A i \in Indices(n) : Power(w, i) \in Int /\ s * Power(w, i) \in Int
  <2>1. \A i \in Indices(n) : i \in Nat
    BY DEF Indices
  <2> HIDE DEF w
  <2>2. \A i \in Indices(n) : Power(w, i) \in Int
    BY <1>1, <2>1, PowerType
  <2> QED BY <2>2, ShiftInverse
<1>5. \A x \in Int : Z(x) \in Int /\ Eval(d, M, x) \in Int
  <2>1. \A j \in 0 .. r - 1 : zero[j] \in Scalar
    BY DEF ZeroIs
  <2>2. \A x \in Int : Z(x) \in Int
    BY <2>1, MonicType
  <2>3. \A x \in Int : Eval(d, M, x) \in Int
    <3> HIDE DEF d
    <3> QED BY <1>1, <1>2, ScalarsInt, EvalType
  <2> QED BY <2>2, <2>3
<1>6. ASSUME NEW i \in Indices(n), some[i] = None PROVE zeroEval[i] = 0
  <2>1. PICK k \in 0 .. r - 1 : f[k] = Power(w, i)
    BY <1>6
  <2>2. Same(Power(w, i), f[k])
    BY <1>4, <2>1, SameRefl
  <2>3. Same(Z(Power(w, i)), 0)
    BY <1>4, <2>2 DEF ZeroIs
  <2>4. zeroEval[i] \in Scalar /\ zeroEval[i] = Z(Power(w, i))
    BY <1>3, ScalarsInt
  <2> QED BY <2>3, <2>4, SameScalar, ScalarType
<1>7. PICK q \in Scalars(M + r) : \A x \in Int : Same(Eval(q, M + r, x), Eval(d, M, x) * Z(x))
  BY <1>2 DEF ZeroIs
<1> DEFINE g == Resize(q, n)
<1>8. g \in Scalars(n) /\ \A x \in Int : Eval(g, n, x) = Eval(q, M + r, x) /\ Eval(g, n, x) \in Scalar /\ Eval(g, n, x) \in Int
  <2>1. g \in Scalars(n)
    BY <1>1, ResizeType
  <2>2. \A x \in Int : Eval(g, n, x) = Eval(q, M + r, x)
    BY <1>1, EvalResize
  <2> HIDE DEF g
  <2>3. \A x \in Int : Eval(g, n, x) \in Scalar /\ Eval(g, n, x) \in Int
    BY <1>1, <2>1, ScalarsInt, EvalType
  <2> QED BY <2>1, <2>2, <2>3
<1> HIDE DEF g, w, d, s, Z
<1>9. \A x \in Int : Same(Eval(g, n, x), Eval(d, M, x) * Z(x))
  BY <1>7, <1>8
<1>a. ASSUME NEW i \in Indices(n) PROVE e[i] = Eval(g, n, Power(w, i))
  <2> DEFINE x == Power(w, i)
             G == Eval(g, n, x)
             C == Eval(d, M, x)
             z == Z(x)
  <2>1. x \in Int
    BY <1>4
  <2>2. G \in Int /\ G \in Scalar /\ C \in Int /\ z \in Int /\ Same(G, C * z)
    BY <1>5, <1>8, <1>9, <2>1
  <2>3. Extend(M, data)[i] = C /\ zeroEval[i] = z
    BY <1>2, <1>3
  <2>4. e[i] = IF some[i] = None THEN 0 ELSE (some[i] * zeroEval[i]) % Prime
    BY DEF PolyEvalsWithZero
  <2>5. CASE some[i] = None
    <3>1. z = 0 /\ e[i] = 0
      BY <1>6, <2>3, <2>4, <2>5
    <3>2. C * z = 0
      BY <2>2, <3>1
    <3> HIDE DEF G, C, z, e
    <3>3. G = 0
      BY <2>2, <3>2, SameScalar, ScalarType
    <3> QED BY <3>1, <3>3 DEF G, x
  <2>6. CASE some[i] # None
    <3>1. e[i] = (C * z) % Prime
      BY <2>3, <2>4, <2>6
    <3> HIDE DEF G, C, z, e
    <3>2. C * z \in Int
      BY <2>2
    <3>3. (C * z) % Prime = G % Prime
      BY <2>2, <3>2, ModSame
    <3>4. G % Prime = G
      BY <2>2, ModOf
    <3> QED BY <3>1, <3>3, <3>4 DEF G, x
  <2> QED BY <2>5, <2>6
<1>b. Fft(g, n) = e
  <2>1. Resize(g, n) = g
    BY <1>1, <1>8, ResizeType
  <2>2. /\ Fft(g, n) \in Scalars(n)
        /\ \A i \in Indices(n) : Fft(g, n)[i] = Eval(g, n, Power(w, i))
    <3>1. n \in Nat \ {0}
      BY <1>1
    <3>2. \A i \in Indices(n) : Fft(g, n)[i] = Eval(Resize(g, n), n, Power(GroupGen(n), i))
      BY <1>8, <3>1, FftIs
    <3>3. Fft(g, n) \in Scalars(n)
      BY <1>8, <3>1, FftIs
    <3> QED BY <2>1, <3>2, <3>3 DEF w
  <2>3. Fft(g, n) = [i \in Indices(n) |-> Fft(g, n)[i]]
    BY <2>2 DEF Scalars
  <2>4. e = [i \in Indices(n) |-> e[i]]
    BY DEF PolyEvalsWithZero
  <2> HIDE DEF e
  <2> QED BY <1>a, <2>2, <2>3, <2>4
<1>c. p = g
  <2> HIDE DEF e
  <2> QED BY <1>8, <1>b, IfftOfFft
<1>d. /\ over \in Scalars(n)
      /\ \A i \in Indices(n) : over[i] = Eval(g, n, s * Power(w, i))
  <2>1. over = ShiftedEvals(g, n)
    BY <1>c
  <2> QED BY <1>8, <2>1, ShiftIs DEF s, w
<1> DEFINE D == Resize(d, n)
           h == ShiftedEvals(D, n)
           u == Quotient(over, under)
<1>e. D \in Scalars(n) /\ \A x \in Int : Eval(D, n, x) = Eval(d, M, x)
  BY <1>1, <1>2, ResizeType, EvalResize
<1> HIDE DEF D
<1>f. h \in Scalars(n) /\ \A i \in Indices(n) : h[i] = Eval(d, M, s * Power(w, i))
  <2>1. h \in Scalars(n) /\ \A i \in Indices(n) : h[i] = Eval(D, n, s * Power(w, i))
    BY <1>e, ShiftIs DEF s, w
  <2> HIDE DEF h
  <2> QED BY <1>4, <1>e, <2>1
<1>g. DOMAIN over = Indices(n)
  BY <1>d DEF Scalars
<1>h. ASSUME NEW i \in Indices(n) PROVE u[i] = h[i]
  <2> DEFINE x == s * Power(w, i)
             A == over[i]
             B == under[i]
             C == Eval(d, M, x)
             v == InverseOf[B]
             CB == C * B
             Bv == B * v
  <2>1. x \in Int
    BY <1>4
  <2>2. A \in Int /\ B \in Scalar /\ B \in Int /\ B # 0 /\ C \in Int /\ h[i] = C /\ h[i] \in Scalar
    <3>1. A \in Int
      BY <1>d, ScalarsInt
    <3>2. B \in Scalar /\ B \in Int /\ B # 0
      BY <1>3, ScalarsInt
    <3>3. C \in Int /\ h[i] = C
      BY <1>5, <1>f, <2>1
    <3>4. h[i] \in Scalar
      <4> HIDE DEF h
      <4> QED BY <1>f, ScalarsInt
    <3> QED BY <3>1, <3>2, <3>3, <3>4
  <2>3. Same(A, CB)
    <3>1. A = Eval(g, n, x) /\ B = Z(x)
      BY <1>3, <1>d
    <3> QED BY <1>9, <2>1, <3>1
  <2>4. v \in Int /\ Same(Bv, 1)
    <3>1. B \in 1 .. Prime - 1
      BY <2>2, PrimeType DEF Scalar
    <3> HIDE DEF B
    <3>2. v \in 1 .. Prime - 1 /\ Same(B * v, 1)
      BY <3>1, InverseOfIs
    <3> QED BY <3>2
  <2>5. u[i] = (A * v) % Prime
    BY <1>g DEF Quotient
  <2> HIDE DEF x, A, B, C, v, u
  <2>o. PICK o \in Int : o = 1
    OBVIOUS
  <2>6. CB \in Int /\ Bv \in Int /\ A * v \in Int /\ CB * v = C * Bv /\ CB * v \in Int /\ C * o = C
    BY <2>2, <2>4, <2>o
  <2> HIDE DEF CB, Bv
  <2>7. Same(A * v, CB * v)
    BY <2>2, <2>3, <2>4, <2>6, SameRefl, SameTimes
  <2>8. Same(C * Bv, C * o)
    BY <2>2, <2>4, <2>6, <2>o, SameRefl, SameTimes
  <2>9. Same(A * v, C)
    BY <2>2, <2>6, <2>7, <2>8, SameTrans
  <2>10. (A * v) % Prime = C % Prime
    BY <2>2, <2>6, <2>9, ModSame
  <2>11. C % Prime = C
    BY <2>2, ModOf
  <2> QED BY <2>2, <2>5, <2>10, <2>11
<1>i. u = h
  <2>1. u = [i \in Indices(n) |-> u[i]]
    BY <1>g DEF Quotient
  <2>2. h = [i \in Indices(n) |-> h[i]]
    BY <1>f DEF Scalars
  <2> HIDE DEF u, h
  <2> QED BY <1>h, <2>1, <2>2
<1>j. UnshiftPoly(Ifft(u, n)) = D
  <2>1. ShiftPoly(D) \in Scalars(n) /\ UnshiftPoly(ShiftPoly(D)) = D
    BY <1>e, ShiftIs
  <2>2. Ifft(h, n) = ShiftPoly(D)
    BY <2>1, IfftOfFft DEF ShiftedEvals
  <2> QED BY <1>i, <2>1, <2>2
<1>k. Fft(D, M) = Fft(d, M)
  <2>1. DOMAIN d = Indices(M) /\ DOMAIN D = Indices(n)
    BY <1>2, <1>e DEF Scalars
  <2>2. \A i \in Indices(M) : i \in Indices(n)
    BY <1>1 DEF Indices
  <2>3. \A i \in Indices(M) : D[i] = d[i]
    BY <2>1, <2>2 DEF D, Resize
  <2>4. Resize(D, M) = [i \in Indices(M) |-> D[i]]
    BY <2>1, <2>2 DEF Resize
  <2>5. Resize(d, M) = [i \in Indices(M) |-> d[i]]
    BY <2>1 DEF Resize
  <2>6. Resize(D, M) = Resize(d, M)
    BY <2>3, <2>4, <2>5
  <2> QED BY <2>6, Zenon DEF Fft
<1>l. Fft(d, M) = data
  BY FftOfIfft DEF d
<1>m. DataFrom(u, n) = data
  <2> HIDE DEF u
  <2> QED BY <1>j, <1>k, <1>l DEF DataFrom
<1> QED BY <1>6, <1>m

-------------------------------------------------------------------------------
\* Rows that are missing, in ascending order.

\* The members of a finite set of naturals are counted in ascending order.
Below(S, x) == {other \in S : other < x}

\* How many members lie below one of them.
LEMMA BelowIs ==
  ASSUME NEW S, S \subseteq Nat, IsFiniteSet(S), NEW x \in S
  PROVE  Cardinality(Below(S, x)) \in 0 .. Cardinality(S) - 1
<1>1. Below(S, x) \in SUBSET S /\ x \notin Below(S, x) /\ Below(S, x) # S
  BY DEF Below
<1>2. /\ IsFiniteSet(Below(S, x))
      /\ Cardinality(Below(S, x)) <= Cardinality(S)
      /\ Cardinality(S) # Cardinality(Below(S, x))
  BY <1>1, FS_Subset
<1>3. Cardinality(Below(S, x)) \in Nat /\ Cardinality(S) \in Nat
  BY <1>2, FS_CardinalityType
<1> QED BY <1>2, <1>3

LEMMA BelowGrows ==
  ASSUME NEW S, S \subseteq Nat, IsFiniteSet(S), NEW x \in S, NEW y \in S, x < y
  PROVE  Cardinality(Below(S, x)) < Cardinality(Below(S, y))
<1>1. Below(S, y) \in SUBSET S
  BY DEF Below
<1>2. Below(S, x) \in SUBSET Below(S, y) /\ x \in Below(S, y) /\ x \notin Below(S, x)
  <2>1. \A z \in S : z \in Nat
    OBVIOUS
  <2>2. x \in Nat /\ y \in Nat
    OBVIOUS
  <2>3. \A z \in S : z < x => z < y
    BY <2>1, <2>2
  <2>4. Below(S, x) \in SUBSET Below(S, y)
    BY <2>3 DEF Below
  <2>5. x \in Below(S, y)
    BY DEF Below
  <2>6. ~(x < x)
    BY <2>2
  <2>7. x \notin Below(S, x)
    BY <2>6 DEF Below
  <2> QED BY <2>4, <2>5, <2>7
<1>3. IsFiniteSet(Below(S, y)) /\ Cardinality(Below(S, y)) \in Nat
  BY <1>1, FS_Subset, FS_CardinalityType
<1>4. /\ IsFiniteSet(Below(S, x)) /\ Cardinality(Below(S, x)) <= Cardinality(Below(S, y))
      /\ Cardinality(Below(S, y)) # Cardinality(Below(S, x))
  BY <1>2, <1>3, FS_Subset
<1>5. Cardinality(Below(S, x)) \in Nat
  BY <1>4, FS_CardinalityType
<1> QED BY <1>3, <1>4, <1>5

\* Nth goes through the members, each once.
LEMMA NthIs ==
  ASSUME NEW S, S \subseteq Nat, IsFiniteSet(S)
  PROVE  /\ Cardinality(S) \in Nat
         /\ \A k \in 0 .. Cardinality(S) - 1 : Nth(S, k) \in S
         /\ \A x \in S : \E k \in 0 .. Cardinality(S) - 1 : Nth(S, k) = x
<1> DEFINE n == Cardinality(S)
           T == 0 .. n - 1
           rank == [x \in S |-> Cardinality(Below(S, x))]
<1>1. n \in Nat
  BY FS_CardinalityType
<1>2. \A x \in S : rank[x] \in T
  BY BelowIs
<1>3. rank \in [S -> T]
  BY <1>2
<1>9. \A x \in S : rank[x] = Cardinality(Below(S, x))
  OBVIOUS
<1> HIDE DEF rank
<1>4. \A x, y \in S : rank[x] = rank[y] => x = y
  <2> SUFFICES ASSUME NEW x \in S, NEW y \in S, rank[x] = rank[y] PROVE x = y
    OBVIOUS
  <2>1. rank[x] \in Int /\ rank[y] \in Int
    BY <1>1, <1>2
  <2>2. Cardinality(Below(S, x)) = Cardinality(Below(S, y)) /\ Cardinality(Below(S, x)) \in Int
    BY <1>9, <2>1
  <2>3. ASSUME x < y PROVE FALSE
    <3>1. Cardinality(Below(S, x)) < Cardinality(Below(S, y))
      BY <2>3, BelowGrows
    <3> QED BY <2>2, <3>1
  <2>4. ASSUME y < x PROVE FALSE
    <3>1. Cardinality(Below(S, y)) < Cardinality(Below(S, x))
      BY <2>4, BelowGrows
    <3> QED BY <2>2, <3>1
  <2>5. x \in Nat /\ y \in Nat
    OBVIOUS
  <2> QED BY <2>3, <2>4, <2>5
<1>5. IsFiniteSet(T) /\ Cardinality(T) = n
  <2> HIDE DEF n
  <2>1. IsFiniteSet(0 .. n - 1) /\ Cardinality(0 .. n - 1) = IF 0 > n - 1 THEN 0 ELSE (n - 1) - 0 + 1
    BY <1>1, FS_Interval
  <2> QED BY <1>1, <2>1
<1>6. rank \in Injection(S, T)
  BY <1>3, <1>4 DEF Injection, IsInjective
<1>7. rank \in Surjection(S, T)
  BY <1>5, <1>6, FS_Injection
<1>8. \A k \in T : \E x \in S : rank[x] = k
  BY <1>7 DEF Surjection
<1>10. ASSUME NEW k \in T PROVE Nth(S, k) \in S /\ rank[Nth(S, k)] = k
  <2>1. \E x \in S : Cardinality({other \in S : other < x}) = k
    BY <1>8, <1>9 DEF Below
  <2>2. Nth(S, k) \in S /\ Cardinality({other \in S : other < Nth(S, k)}) = k
    BY <2>1, Zenon DEF Nth
  <2> QED BY <2>2, <1>9 DEF Below
<1>11. ASSUME NEW x \in S PROVE \E k \in T : Nth(S, k) = x
  <2>1. rank[x] \in T
    BY <1>2
  <2>2. Nth(S, rank[x]) \in S /\ rank[Nth(S, rank[x])] = rank[x]
    BY <2>1, <1>10
  <2> QED BY <2>1, <2>2, <1>4
<1> QED BY <1>1, <1>10, <1>11

\* Half of a domain.
LEMMA HalfFits ==
  ASSUME NEW n, Fits(n), n % 2 = 0
  PROVE  /\ n \div 2 \in Nat \ {0} /\ n = 2 * (n \div 2) /\ Fits(n \div 2)
<1>1. n \in Nat \ {0}
  BY DEF Fits
<1>2. PICK q \in Nat \ {0} : q * n = Prime - 1
  BY FitsIs
<1> DEFINE M == n \div 2
<1>3. M \in Nat /\ n = 2 * M
  BY <1>1
<1>4. M # 0
  BY <1>1, <1>3
<1>5. Prime - 1 \in Nat /\ Prime \in Int
  BY PrimeType
<1> DEFINE p == Prime - 1
           k == 2 * q
           d == p \div M
           r == p % M
<1>6. k * M = p /\ k \in Nat
  <2> HIDE DEF M
  <2>1. q * (2 * M) = p
    BY <1>2, <1>3
  <2> QED BY <2>1, <1>3
<1>7. p = M * d + r /\ r \in 0 .. M - 1 /\ d \in Int
  <2> HIDE DEF M
  <2> QED BY <1>3, <1>4, <1>5
<1>8. M * (k - d) = r
  <2> HIDE DEF M, d, r, k, p
  <2> QED BY <1>3, <1>6, <1>7
<1>9. r = 0
  <2> DEFINE e == k - d
  <2>1. e \in Int /\ M * e = r
    BY <1>6, <1>7, <1>8
  <2> HIDE DEF e, M, r, d, k, p
  <2>2. ASSUME e >= 1 PROVE FALSE
    <3>1. M * e >= M
      BY <2>1, <2>2, <1>3
    <3> QED BY <3>1, <2>1, <1>7, <1>3
  <2>3. ASSUME e <= -1 PROVE FALSE
    <3>1. M * e <= -M
      BY <2>1, <2>3, <1>3
    <3> QED BY <3>1, <2>1, <1>7, <1>3, <1>4
  <2>4. e = 0
    BY <2>1, <2>2, <2>3
  <2> QED BY <2>1, <2>4, <1>3
<1> QED BY <1>3, <1>4, <1>9 DEF Fits

-------------------------------------------------------------------------------
\* The invariant of ColumnRecovery: what comes in.

\* A set of naturals has a least element.
LEMMA LeastElement ==
  ASSUME NEW M, M \subseteq Nat, M # {}
  PROVE  \E n \in M : \A k \in M : n <= k
<1>1. PICK n \in M : \A k \in M : ~(<< k, n >> \in OpToRel(<, Nat))
  BY NatLessThanWellFounded, WFMin
<1>2. ASSUME NEW k \in M PROVE n <= k
  <2>1. k \in Nat /\ n \in Nat
    OBVIOUS
  <2>2. ASSUME k < n PROVE FALSE
    <3>1. << k, n >> \in OpToRel(<, Nat)
      BY <2>1, <2>2 DEF OpToRel
    <3> QED BY <1>1, <3>1
  <2> QED BY <2>1, <2>2
<1> QED BY <1>2

\* The row counts the algorithm is for: powers of two that the field has roots
\* of unity for, and that the shift leads out of.
RowsFit ==
  \A n \in RowCounts : /\ Fits(n) /\ DomainSize(n) = n /\ n % 2 = 0
                       /\ Power(ShiftFactor, n) # 1

\* What comes off the network: cells of rows of the column, each with the coded
\* scalar or with none.
CellsGood ==
  /\ cells \in Seq([col : {0, 1}, row : Indices(rowCount), data : Int])
  /\ \A k \in 1 .. Len(cells) : cells[k].data \in {None, Coded[cells[k].row]}

\* The row count is one of those tried, the column the author's.
InputInv == rowCount \in RowCounts /\ column \in Scalars(Half) /\ CellsGood

\* The points the zero polynomial vanishes at, round by round.
RootsOf(n, S) == [k \in Nat |-> Power(GroupGen(n), Nth(S, k))]
Roots == RootsOf(rowCount, Missing)

\* The row count, its half, and what the field has for them.
Shapes(n, M) ==
  /\ n \in Nat \ {0} /\ M \in Nat \ {0} /\ n = 2 * M /\ n \div 2 = M
  /\ Fits(n) /\ Fits(M) /\ Power(ShiftFactor, n) # 1

\* The row counts tried have this shape.
LEMMA Shape ==
  ASSUME RowsFit, rowCount \in RowCounts
  PROVE  Shapes(rowCount, Half) /\ FullSize = rowCount /\ Coded = Extend(Half, column)
<1>1. /\ Fits(rowCount) /\ DomainSize(rowCount) = rowCount /\ rowCount % 2 = 0
      /\ Power(ShiftFactor, rowCount) # 1
  BY DEF RowsFit
<1>2. /\ rowCount \div 2 \in Nat \ {0} /\ rowCount = 2 * (rowCount \div 2)
      /\ Fits(rowCount \div 2)
  BY <1>1, HalfFits
<1>3. rowCount \in Nat \ {0}
  BY <1>1 DEF Fits
<1>4. FullSize = rowCount
  BY <1>1 DEF FullSize
<1> QED BY <1>1, <1>2, <1>3, <1>4 DEF Shapes, Half, Coded

\* What zero_poly_fn adds to x in a round: minus the root of the row.
LEMMA MinusRootIs ==
  ASSUME NEW n, Fits(n), NEW i \in Indices(n)
  PROVE  /\ Power(GroupGen(n), i) \in Int
         /\ MinusRoot(i, n, n) \in Scalar
         /\ Same(MinusRoot(i, n, n), -Power(GroupGen(n), i))
<1>1. n \in Nat \ {0} /\ GroupGen(n) \in 1 .. Prime - 1
  BY DomainRoot
<1>2. i \in Nat
  BY <1>1 DEF Indices
<1> DEFINE p == Power(GroupGen(n), i)
<1>3. p \in Int
  BY <1>1, <1>2, PowerType
<1>4. n \div n = 1 /\ i * 1 = i
  BY <1>1, <1>2
<1>5. MinusRoot(i, n, n) = (Prime - p) % Prime
  BY <1>4 DEF MinusRoot
<1> HIDE DEF p
<1>6. Prime - p \in Int /\ -p \in Int
  BY <1>3, PrimeType
<1>7. (Prime - p) % Prime \in Scalar /\ Same((Prime - p) % Prime, Prime - p)
  BY <1>6, ModType
<1>8. Same(Prime - p, -p)
  <2>1. 1 \in Int /\ Prime - p = -p + (1 * Prime)
    BY <1>3, PrimeType
  <2> QED BY <2>1 DEF Same
<1>9. (Prime - p) % Prime \in Int
  BY <1>7, ScalarType
<1>10. Same((Prime - p) % Prime, -p)
  BY <1>6, <1>7, <1>8, <1>9, SameTrans
<1> QED BY <1>3, <1>5, <1>7, <1>10 DEF p

\* The rounds of the zero polynomial go through the rows that are missing.
LEMMA RootsIs ==
  ASSUME NEW n, Fits(n), NEW S, S \subseteq Indices(n)
  PROVE  /\ IsFiniteSet(S) /\ Cardinality(S) \in 0 .. n
         /\ Cardinality(S) = n => S = Indices(n)
         /\ \A k \in 0 .. Cardinality(S) - 1 :
              /\ Nth(S, k) \in Indices(n)
              /\ RootsOf(n, S)[k] = Power(GroupGen(n), Nth(S, k)) /\ RootsOf(n, S)[k] \in Int
         /\ \A k \in 0 .. Cardinality(S) - 1 :
              \E j \in Indices(n) : RootsOf(n, S)[k] = Power(GroupGen(n), j)
         /\ \A i \in S : \E k \in 0 .. Cardinality(S) - 1 :
              RootsOf(n, S)[k] = Power(GroupGen(n), i)
<1> DEFINE c == Cardinality(S)
           f == RootsOf(n, S)
<1>1. n \in Nat \ {0}
  BY DEF Fits
<1>2. S \in SUBSET Indices(n)
  OBVIOUS
<1>3. IsFiniteSet(Indices(n)) /\ Cardinality(Indices(n)) = n
  <2>1. IsFiniteSet(0 .. n - 1) /\ Cardinality(0 .. n - 1) = IF 0 > n - 1 THEN 0 ELSE (n - 1) - 0 + 1
    BY <1>1, FS_Interval
  <2> QED BY <1>1, <2>1 DEF Indices
<1>4. IsFiniteSet(S) /\ c <= n /\ (n = c => Indices(n) = S)
  BY <1>2, <1>3, FS_Subset
<1>5. S \subseteq Nat
  BY <1>1, <1>2 DEF Indices
<1>6. /\ c \in Nat
      /\ \A k \in 0 .. c - 1 : Nth(S, k) \in S
      /\ \A x \in S : \E k \in 0 .. c - 1 : Nth(S, k) = x
  BY <1>4, <1>5, NthIs
<1>7. \A k \in Nat : f[k] = Power(GroupGen(n), Nth(S, k))
  BY DEF RootsOf
<1> HIDE DEF f
<1>8. ASSUME NEW k \in 0 .. c - 1
      PROVE  /\ Nth(S, k) \in Indices(n)
             /\ f[k] = Power(GroupGen(n), Nth(S, k)) /\ f[k] \in Int
  <2>1. k \in Nat /\ Nth(S, k) \in Indices(n)
    BY <1>2, <1>6
  <2>2. Power(GroupGen(n), Nth(S, k)) \in Int
    BY <1>1, <2>1, MinusRootIs
  <2> QED BY <1>7, <2>1, <2>2
<1>9. ASSUME NEW i \in S
      PROVE  \E k \in 0 .. c - 1 : f[k] = Power(GroupGen(n), i)
  <2>1. PICK k \in 0 .. c - 1 : Nth(S, k) = i
    BY <1>6
  <2> QED BY <1>8, <2>1
<1> QED BY <1>1, <1>4, <1>6, <1>8, <1>9 DEF f

\* The same of the rows missing in the run.
LEMMA MissingIs ==
  ASSUME NEW M, Shapes(rowCount, M)
  PROVE  /\ Missing \subseteq Indices(rowCount) /\ IsFiniteSet(Missing)
         /\ Cardinality(Missing) \in 0 .. rowCount
         /\ Cardinality(Missing) = rowCount => Missing = Indices(rowCount)
         /\ \A k \in 0 .. Cardinality(Missing) - 1 :
              /\ Nth(Missing, k) \in Indices(rowCount)
              /\ Roots[k] = Power(GroupGen(rowCount), Nth(Missing, k)) /\ Roots[k] \in Int
         /\ \A k \in 0 .. Cardinality(Missing) - 1 :
              \E j \in Indices(rowCount) : Roots[k] = Power(GroupGen(rowCount), j)
         /\ \A i \in Missing : \E k \in 0 .. Cardinality(Missing) - 1 :
              Roots[k] = Power(GroupGen(rowCount), i)
<1>1. Fits(rowCount) /\ Missing \subseteq Indices(rowCount)
  BY DEF Shapes, Missing
<1> QED BY <1>1, RootsIs DEF Roots

\* A row found is the row of one of the cells, and one that is not a scalar is
\* as good as none.
LEMMA FindIs ==
  ASSUME NEW row, Len(cells) \in Nat
  PROVE  \/ FindRowByIndex(row) = None
         \/ \E k \in 1 .. Len(cells) : cells[k].row = row /\ FindRowByIndex(row) = cells[k].data
<1> DEFINE I == {i \in 1 .. Len(cells) : cells[i].row = row}
           k == IF I # {} THEN Min(I) ELSE 0
<1>1. FindRowByIndex(row) = IF k = 0 THEN None ELSE cells[k].data
  BY DEF FindRowByIndex, SelectInSeq
<1>2. CASE I = {}
  BY <1>1, <1>2
<1>3. CASE I # {}
  <2>1. I \subseteq Nat
    BY LenProperties
  <2> HIDE DEF I
  <2>2. \E x \in I : \A y \in I : x <= y
    BY <1>3, <2>1, LeastElement
  <2>3. Min(I) \in I
    BY <2>2, Zenon DEF Min
  <2>4. k = Min(I)
    BY <1>3
  <2> QED BY <1>1, <2>3, <2>4 DEF I
<1> QED BY <1>2, <1>3

-------------------------------------------------------------------------------
\* What Check makes of the cells.

\* What Check stores.
Found == [row \in Indices(rowCount) |-> FindRowByIndex(row)]

\* It is the coded row or nothing.
LEMMA FoundIs ==
  ASSUME CellsGood, NEW row \in Indices(rowCount)
  PROVE  FindRowByIndex(row) = None \/ FindRowByIndex(row) = Coded[row]
<1>1. Len(cells) \in Nat
  BY LenProperties DEF CellsGood
<1>2. \A k \in 1 .. Len(cells) : cells[k].data \in {None, Coded[cells[k].row]}
  BY DEF CellsGood
<1> QED BY <1>1, <1>2, FindIs

\* A usable row has a cell of its own.
LEMMA UsableBound ==
  ASSUME CellsGood, rowCount \in Nat
  PROVE  /\ Usable \subseteq Indices(rowCount) /\ IsFiniteSet(Usable)
         /\ Cardinality(Usable) \in Nat /\ Cardinality(Usable) <= Len(cells)
<1> DEFINE n == Len(cells)
           f == [row \in Usable |-> CHOOSE k \in 1 .. n : cells[k].row = row]
<1>1. n \in Nat
  BY LenProperties DEF CellsGood
<1>2. Usable \subseteq Indices(rowCount)
  BY DEF Usable
<1>3. ASSUME NEW row \in Usable PROVE f[row] \in 1 .. n /\ cells[f[row]].row = row
  <2>1. FindRowByIndex(row) # None
    BY DEF Usable
  <2>2. \E k \in 1 .. n : cells[k].row = row
    BY <1>1, <2>1, FindIs
  <2> QED BY <2>2
<1> HIDE DEF f
<1>4. f \in [Usable -> 1 .. n]
  <2>1. f = [row \in Usable |-> f[row]]
    BY DEF f
  <2> QED BY <1>3, <2>1
<1>5. f \in Injection(Usable, 1 .. n)
  BY <1>3, <1>4 DEF Injection, IsInjective
<1>6. IsFiniteSet(1 .. n) /\ Cardinality(1 .. n) = n
  <2> HIDE DEF n
  <2>1. IsFiniteSet(1 .. n) /\ Cardinality(1 .. n) = IF 1 > n THEN 0 ELSE n - 1 + 1
    BY <1>1, FS_Interval
  <2> QED BY <1>1, <2>1
<1>7. IsFiniteSet(Usable) /\ Cardinality(Usable) <= Cardinality(1 .. n)
  BY <1>5, <1>6, FS_Injection
<1>8. Cardinality(Usable) \in Nat
  BY <1>7, FS_CardinalityType
<1> QED BY <1>2, <1>6, <1>7, <1>8

\* With half of the rows usable at most half are missing.
LEMMA MissingCount ==
  ASSUME CellsGood, rowCount \in Nat \ {0}, subset = Found
  PROVE  Cardinality(Missing) = rowCount - Cardinality(Usable)
<1>1. Missing = Indices(rowCount) \ Usable
  BY DEF Missing, Usable, Found
<1>2. Usable \subseteq Indices(rowCount)
  BY DEF Usable
<1>3. Indices(rowCount) \cap Usable = Usable
  BY <1>2
<1>4. IsFiniteSet(Indices(rowCount)) /\ Cardinality(Indices(rowCount)) = rowCount
  <2> DEFINE n == rowCount
  <2>0. n \in Nat \ {0}
    OBVIOUS
  <2> HIDE DEF n
  <2>1. IsFiniteSet(0 .. n - 1) /\ Cardinality(0 .. n - 1) = IF 0 > n - 1 THEN 0 ELSE (n - 1) - 0 + 1
    BY <2>0, FS_Interval
  <2>2. IsFiniteSet(0 .. n - 1) /\ Cardinality(0 .. n - 1) = n
    BY <2>0, <2>1
  <2> QED BY <2>2 DEF Indices, n
<1> QED BY <1>1, <1>3, <1>4, FS_Difference

\* The whole computation on a subset with half of the column.
LEMMA Rebuilt ==
  ASSUME RowsFit, InputInv, subset = Found, NEW r \in Nat, r = Cardinality(Missing),
         ZeroIs(zeroPoly, r, Roots, Half), Cardinality(Usable) >= Half,
         NEW zeroEval, zeroEval = Fft(Completed(zeroPoly, r, rowCount), rowCount),
         NEW p, p = ShiftedEvals(Ifft(PolyEvalsWithZero(subset, zeroEval), rowCount), rowCount),
         NEW d, d = ShiftedEvals(Completed(zeroPoly, r, rowCount), rowCount)
  PROVE  /\ \A i \in Indices(rowCount) : subset[i] = None => zeroEval[i] = 0
         /\ DataFrom(Quotient(p, d), rowCount) = column
<1> DEFINE M == Half
           n == rowCount
           z == Completed(zeroPoly, r, n)
<1>1. Shapes(n, M) /\ Coded = Extend(M, column) /\ CellsGood /\ column \in Scalars(M)
  BY Shape DEF InputInv
<1>2. /\ n \in Nat \ {0} /\ M \in Nat \ {0} /\ n = 2 * M /\ n \div 2 = M
      /\ Fits(n) /\ Fits(M) /\ Power(ShiftFactor, n) # 1
  BY <1>1 DEF Shapes
<1>3. r <= M
  BY <1>1, <1>2, MissingCount, UsableBound
<1>4. DOMAIN subset = Indices(n) /\ \A i \in Indices(n) : subset[i] = None \/ subset[i] = Extend(M, column)[i]
  BY <1>1, FoundIs DEF Found
<1>5. /\ \A k \in 0 .. r - 1 : \E j \in Indices(n) : Roots[k] = Power(GroupGen(n), j)
      /\ \A i \in Missing : \E k \in 0 .. r - 1 : Roots[k] = Power(GroupGen(n), i)
  BY <1>1, MissingIs
<1>6. \A i \in Indices(n) : subset[i] = None => \E k \in 0 .. r - 1 : Roots[k] = Power(GroupGen(n), i)
  BY <1>5 DEF Missing
<1>7. z = Completed(zeroPoly, r, n) /\ zeroEval = Fft(z, n)
      /\ p = ShiftedEvals(Ifft(PolyEvalsWithZero(subset, zeroEval), n), n)
      /\ d = ShiftedEvals(z, n)
  OBVIOUS
<1>8. ZeroIs(zeroPoly, r, Roots, M)
  OBVIOUS
<1> HIDE DEF M, n, z
<1> QED BY <1>1, <1>2, <1>3, <1>4, <1>5, <1>6, <1>7, <1>8, Reconstructs DEF n

-------------------------------------------------------------------------------
\* The inductive invariant, and the steps that preserve it.

\* Before Check nothing is computed; after it the subset is what was found.
StageInv ==
  /\ pc \in {"collect", "zero", "divide", "done"}
  /\ pc = "collect" => rounds = 0
  /\ pc \in {"zero", "divide"} => subset = Found

\* Between the rounds the polynomial has the roots of the rows gone through.
ZeroInv ==
  pc \in {"zero", "divide"} =>
    rounds \in 0 .. Cardinality(Missing) /\ ZeroIs(zeroPoly, rounds, Roots, Half)

\* After Multiply: the evaluations come from a finished zero polynomial.
DivideInv ==
  pc = "divide" =>
    /\ rounds = Cardinality(Missing) /\ rounds < rowCount
    /\ product = ShiftedEvals(Ifft(PolyEvalsWithZero(subset, ZeroEval), rowCount), rowCount)
    /\ divisor = ShiftedEvals(Completed(zeroPoly, rounds, rowCount), rowCount)

\* The inductive invariant.  AnyHalfSuffices alone says nothing before the end.
Inv == InputInv /\ StageInv /\ ZeroInv /\ DivideInv /\ AnyHalfSuffices

\* The division meets no zero, whatever rows are missing.
LEMMA DivisorIs ==
  ASSUME RowsFit, Inv, pc = "divide"
  PROVE  DOMAIN divisor = Indices(rowCount) /\ \A i \in DOMAIN divisor : divisor[i] # 0
<1> DEFINE n == rowCount
           M == Half
           r == rounds
           D == ShiftedEvals(Completed(zeroPoly, r, n), n)
<1>1. Shapes(n, M)
  BY Shape DEF Inv, InputInv
<1>2. Fits(n) /\ Power(ShiftFactor, n) # 1
  BY <1>1 DEF Shapes
<1>3. r = Cardinality(Missing) /\ r < n /\ divisor = D /\ ZeroIs(zeroPoly, r, Roots, M)
  BY DEF Inv, DivideInv, ZeroInv
<1>4. r \in Nat /\ \A k \in 0 .. r - 1 : \E j \in Indices(n) : Roots[k] = Power(GroupGen(n), j)
  BY <1>1, <1>3, MissingIs
<1> HIDE DEF n, M, r
<1>5. D \in Scalars(n) /\ \A i \in Indices(n) : D[i] # 0
  BY <1>2, <1>3, <1>4, ZeroEvals
<1> QED BY <1>3, <1>5 DEF Scalars, n

\* One lemma per action: it keeps the invariant.
LEMMA InitInv == ASSUME RowsFit, Init PROVE Inv
<1>1. rowCount \in RowCounts /\ pc = "collect" /\ rounds = 0 /\ cells = << >>
      /\ column \in {c \in Columns : DOMAIN c = Indices(DomainSize(rowCount) \div 2)}
  BY DEF Init
<1>2. DomainSize(rowCount) = rowCount
  BY <1>1 DEF RowsFit
<1>3. column \in Scalars(Half)
  BY <1>1, <1>2, ColumnAssumption DEF Scalars, Half
<1>4. CellsGood
  BY <1>1, EmptySeq DEF CellsGood
<1> QED BY <1>1, <1>3, <1>4 DEF Inv, InputInv, StageInv, ZeroInv, DivideInv, AnyHalfSuffices, Done

LEMMA SupplyInv ==
  ASSUME RowsFit, Inv, NEW row \in Indices(rowCount), NEW isScalar \in BOOLEAN, NEW col \in {0, 1},
         Supply(row, isScalar, col)
  PROVE  Inv'
<1>1. /\ pc = "collect"
      /\ cells' = Append(cells, Cell(col, row, IF isScalar THEN Coded[row] ELSE None))
      /\ UNCHANGED << pc, rowCount, column, subset, zeroPoly, rounds, product, divisor, result >>
  BY DEF Supply
<1>2. InputInv /\ StageInv
  BY DEF Inv
<1> DEFINE data == IF isScalar THEN Coded[row] ELSE None
           cell == [col |-> col, row |-> row, data |-> data]
<1>3. Shapes(rowCount, Half) /\ Coded = Extend(Half, column)
  BY <1>2, Shape DEF InputInv
<1>4. Coded[row] \in Int
  <2>1. /\ Fits(Half) /\ Fits(2 * Half) /\ rowCount = 2 * Half
    BY <1>3 DEF Shapes
  <2>2. Extend(Half, column) \in Scalars(2 * Half)
    BY <1>2, <2>1, ExtendIs DEF InputInv
  <2> QED BY <1>3, <2>1, <2>2, ScalarsInt
<1>5. cell \in [col : {0, 1}, row : Indices(rowCount), data : Int]
  BY <1>4 DEF None
<1>6. Coded' = Coded
  BY <1>1 DEF Coded, FullSize
<1> DEFINE X == [col : {0, 1}, row : Indices(rowCount), data : Int]
<1>7. cells \in Seq(X) /\ \A k \in 1 .. Len(cells) : cells[k].data \in {None, Coded[cells[k].row]}
  BY <1>2 DEF InputInv, CellsGood
<1>8. cells' = Append(cells, cell)
  BY <1>1 DEF Cell
<1>9. cell.data = data /\ cell.row = row
  OBVIOUS
<1>10. cell.data \in {None, Coded[cell.row]}
  BY <1>9
<1> HIDE DEF cell, X
<1>11. /\ cells' \in Seq(X) /\ Len(cells') = Len(cells) + 1 /\ Len(cells) \in Nat
       /\ \A k \in 1 .. Len(cells) : cells'[k] = cells[k]
       /\ cells'[Len(cells) + 1] = cell
  BY <1>5, <1>7, <1>8, AppendProperties, LenProperties DEF X
<1>12. \A k \in 1 .. Len(cells') : cells'[k].data \in {None, Coded[cells'[k].row]}
  <2> SUFFICES ASSUME NEW k \in 1 .. Len(cells') PROVE cells'[k].data \in {None, Coded[cells'[k].row]}
    OBVIOUS
  <2>1. k \in 1 .. Len(cells) \/ k = Len(cells) + 1
    BY <1>11
  <2> QED BY <1>7, <1>10, <1>11, <2>1
<1>13. CellsGood'
  BY <1>1, <1>6, <1>11, <1>12 DEF CellsGood, X
<1>14. InputInv'
  BY <1>1, <1>2, <1>13 DEF InputInv, Half
<1> QED BY <1>1, <1>2, <1>14 DEF Inv, StageInv, ZeroInv, DivideInv, AnyHalfSuffices, Done

\* Steps that leave the input alone.
LEMMA SameInput ==
  ASSUME Inv, UNCHANGED input
  PROVE  InputInv' /\ Half' = Half /\ rowCount' = rowCount /\ Usable' = Usable /\ CheckCells' = CheckCells
         /\ cells' = cells /\ column' = column /\ Found' = Found
<1>1. /\ rowCount' = rowCount /\ column' = column /\ cells' = cells
  BY DEF input
<1>2. Coded' = Coded
  BY <1>1 DEF Coded, FullSize
<1>3. InputInv'
  BY <1>1, <1>2 DEF Inv, InputInv, CellsGood, Half
<1>4. \A row : FindRowByIndex(row)' = FindRowByIndex(row)
  BY <1>1 DEF FindRowByIndex, SelectInSeq
<1>5. Usable' = Usable /\ Found' = Found
  BY <1>1, <1>4 DEF Usable, Found
<1> QED BY <1>1, <1>3, <1>5 DEF Half, CheckCells

\* A column has rows.
LEMMA SomeRows ==
  ASSUME NEW n \in Nat \ {0}, NEW S, S \subseteq Indices(n)
  PROVE  Cardinality(S) \in Nat
<1>1. IsFiniteSet(0 .. n - 1)
  BY FS_Interval
<1>2. IsFiniteSet(S)
  BY <1>1, FS_Subset DEF Indices
<1> QED BY <1>2, FS_CardinalityType

LEMMA CheckInv == ASSUME RowsFit, Inv, Check PROVE Inv'
<1>1. /\ pc = "collect" /\ pc' = "zero" /\ UNCHANGED << input, zeroPoly, rounds, product, divisor, result >>
      /\ subset' = Found
  BY DEF Check, Found
<1>2. InputInv' /\ rowCount' = rowCount /\ Half' = Half /\ Found' = Found
  BY <1>1, SameInput
<1>3. rounds' = 0
  BY <1>1 DEF Inv, StageInv
<1>4. StageInv'
  BY <1>1, <1>2 DEF StageInv
<1>5. Shapes(rowCount, Half)'
  BY <1>2, Shape DEF Inv, InputInv
<1>6. Cardinality(Missing)' \in Nat
  <2>1. rowCount' \in Nat \ {0}
    BY <1>5 DEF Shapes
  <2>2. Missing' \subseteq Indices(rowCount')
    BY DEF Missing
  <2>3. Cardinality(Missing') \in Nat
    BY <2>1, <2>2, SomeRows
  <2> QED BY <2>3
<1>7. Half' \in Nat
  BY <1>5 DEF Shapes
<1>8. ZeroIs(zeroPoly', 0, Roots', Half')
  BY <1>7, ZeroIsFirst
<1>9. ZeroInv'
  BY <1>3, <1>6, <1>8 DEF ZeroInv
<1> QED BY <1>1, <1>2, <1>4, <1>9 DEF Inv, DivideInv, AnyHalfSuffices, Done

LEMMA RejectInv == ASSUME RowsFit, Inv, Reject PROVE Inv'
<1>1. /\ pc = "collect" /\ pc' = "done" /\ UNCHANGED << input, subset, zeroPoly, rounds, product, divisor >>
      /\ ArgumentError # "none" /\ result' = Err(ArgumentError)
  BY DEF Reject
<1>2. InputInv' /\ Half' = Half /\ Usable' = Usable /\ CheckCells' = CheckCells /\ cells' = cells
      /\ rowCount' = rowCount
  BY <1>1, SameInput
<1>3. ~Succeeded'
  BY <1>1 DEF Succeeded, Err
<1>4. ASSUME Cardinality(Usable) >= Half, CheckCells, Len(cells) <= rowCount PROVE FALSE
  <2>1. Shapes(rowCount, Half) /\ CellsGood
    BY Shape DEF Inv, InputInv
  <2>2. rowCount \in Nat \ {0} /\ Half \in Nat \ {0} /\ rowCount = 2 * Half
    BY <2>1 DEF Shapes
  <2>3. Cardinality(Usable) \in Nat /\ Cardinality(Usable) <= Len(cells) /\ Len(cells) \in Nat
    BY <2>1, <2>2, UsableBound, LenProperties DEF CellsGood
  <2>4. rowCount % 2 = 0
    BY DEF Inv, InputInv, RowsFit
  <2>5. ~(Len(cells) < Half) /\ ~(Len(cells) > rowCount)
    BY <1>4, <2>2, <2>3
  <2> QED BY <1>1, <1>4, <2>4, <2>5 DEF ArgumentError
<1>5. AnyHalfSuffices'
  BY <1>2, <1>3, <1>4 DEF AnyHalfSuffices
<1> QED BY <1>1, <1>2, <1>5 DEF Inv, StageInv, ZeroInv, DivideInv

LEMMA ZeroRoundInv == ASSUME RowsFit, Inv, ZeroRound PROVE Inv'
<1> DEFINE n == rowCount
           sub == MinusRoot(Nth(Missing, rounds), n, n)
<1>1. /\ pc = "zero" /\ rounds < Cardinality(Missing) /\ rounds' = rounds + 1
      /\ zeroPoly' = TimesRoot(zeroPoly, rounds, MinusRoot(Nth(Missing, rounds), FullSize, rowCount))
      /\ UNCHANGED << pc, input, subset, product, divisor, result >>
  BY DEF ZeroRound
<1>2. Shapes(rowCount, Half) /\ FullSize = rowCount
  BY Shape DEF Inv, InputInv
<1>3. zeroPoly' = TimesRoot(zeroPoly, rounds, sub)
  BY <1>1, <1>2
<1>4. InputInv' /\ rowCount' = rowCount /\ Half' = Half /\ Found' = Found
  BY <1>1, SameInput
<1>5. Missing' = Missing /\ Roots' = Roots
  BY <1>1, <1>4 DEF Missing, Roots, RootsOf
<1>6. rounds \in Nat /\ ZeroIs(zeroPoly, rounds, Roots, Half) /\ rounds + 1 \in Nat
      /\ Cardinality(Missing) \in Nat
  BY <1>1, <1>2, MissingIs DEF Inv, ZeroInv
<1>7. rounds \in 0 .. Cardinality(Missing) - 1 /\ rounds + 1 \in 0 .. Cardinality(Missing)
  BY <1>1, <1>6
<1>8. \A k \in 0 .. Cardinality(Missing) - 1 :
              /\ Nth(Missing, k) \in Indices(rowCount)
              /\ Roots[k] = Power(GroupGen(rowCount), Nth(Missing, k)) /\ Roots[k] \in Int
  BY <1>2, MissingIs
<1>9. \A k \in 0 .. rounds - 1 : Roots[k] \in Int
  <2>1. \A k \in 0 .. rounds - 1 : k \in 0 .. Cardinality(Missing) - 1
    BY <1>6, <1>7
  <2> QED BY <1>8, <2>1
<1>10. /\ Nth(Missing, rounds) \in Indices(n) /\ Roots[rounds] \in Int
       /\ Roots[rounds] = Power(GroupGen(n), Nth(Missing, rounds))
  BY <1>7, <1>8
<1>11. Fits(n) /\ Half \in Nat \ {0}
  BY <1>2 DEF Shapes
<1>12. sub \in Scalar /\ Same(sub, -Roots[rounds])
  BY <1>10, <1>11, MinusRootIs
<1> HIDE DEF sub, n
<1>13. ZeroIs(TimesRoot(zeroPoly, rounds, sub), rounds + 1, Roots, Half)
  BY <1>6, <1>9, <1>10, <1>11, <1>12, ZeroIsNext
<1>14. ZeroIs(zeroPoly, rounds, Roots, Half)'
  BY <1>1, <1>3, <1>4, <1>5, <1>13
<1>15. ZeroInv'
  BY <1>1, <1>5, <1>7, <1>14 DEF ZeroInv
<1>16. StageInv'
  BY <1>1, <1>4 DEF Inv, StageInv
<1> QED BY <1>1, <1>4, <1>15, <1>16 DEF Inv, DivideInv, AnyHalfSuffices, Done

LEMMA MultiplyInv == ASSUME RowsFit, Inv, Multiply PROVE Inv'
<1>1. /\ pc = "zero" /\ pc' = "divide" /\ rounds = Cardinality(Missing) /\ ~BadZero
      /\ product' = ShiftedEvals(Ifft(PolyEvalsWithZero(subset, ZeroEval), FullSize), FullSize)
      /\ divisor' = ShiftedEvals(Completed(zeroPoly, rounds, rowCount), FullSize)
      /\ UNCHANGED << input, subset, zeroPoly, rounds, result >>
  BY DEF Multiply
<1>2. Shapes(rowCount, Half) /\ FullSize = rowCount
  BY Shape DEF Inv, InputInv
<1>3. InputInv' /\ rowCount' = rowCount /\ Half' = Half /\ Found' = Found
  BY <1>1, SameInput
<1>4. Missing' = Missing /\ Roots' = Roots
  BY <1>1, <1>3 DEF Missing, Roots, RootsOf
<1>5. ZeroEval' = ZeroEval
  BY <1>1, <1>3 DEF ZeroEval, FullSize
<1>6. StageInv'
  BY <1>1, <1>3 DEF Inv, StageInv
<1>7. ZeroIs(zeroPoly, rounds, Roots, Half)
  BY <1>1 DEF Inv, ZeroInv
<1>8. ZeroIs(zeroPoly, rounds, Roots, Half)' /\ rounds \in 0 .. Cardinality(Missing)
  BY <1>1, <1>3, <1>4, <1>7 DEF Inv, ZeroInv
<1>9. ZeroInv'
  BY <1>1, <1>4, <1>8 DEF ZeroInv
<1>10. rounds < rowCount
  <2> DEFINE n == rowCount
  <2>1. /\ rounds \in 0 .. n /\ n \in Nat \ {0} /\ Fits(n)
        /\ rounds = n => Missing = Indices(n)
    BY <1>1, <1>2, MissingIs DEF Shapes
  <2>2. ASSUME rounds = n PROVE FALSE
    <3>1. 0 \in Indices(n)
      BY <2>1 DEF Indices
    <3>2. 0 \in Missing
      BY <2>1, <2>2, <3>1
    <3>3. \E k \in 0 .. n - 1 : Roots[k] = Power(GroupGen(n), 0)
      BY <1>1, <1>2, <2>2, <3>2, MissingIs
    <3>4. ZeroIs(zeroPoly, n, Roots, Half)
      BY <1>7, <2>2
    <3> HIDE DEF n
    <3>5. Fft(Completed(zeroPoly, n, n), n)[0] # 0
      BY <2>1, <3>1, <3>3, <3>4, AllMissing
    <3>6. ZeroEval[0] # 0
      BY <1>2, <2>2, <3>5 DEF ZeroEval, n
    <3>7. subset[0] = None
      BY <3>2 DEF Missing
    <3> QED BY <1>1, <3>1, <3>6, <3>7 DEF BadZero, n
  <2> QED BY <2>1, <2>2
<1>11. DivideInv'
  BY <1>1, <1>2, <1>3, <1>4, <1>5, <1>10 DEF DivideInv
<1> QED BY <1>1, <1>3, <1>6, <1>9, <1>11 DEF Inv, AnyHalfSuffices, Done

\* The last two stages: with half of the column as scalars the zero polynomial
\* is zero where it must be, and the quotient interpolates the author's data.
LEMMA HereRebuilt ==
  ASSUME RowsFit, Inv, pc \in {"zero", "divide"}, rounds = Cardinality(Missing),
         Cardinality(Usable) >= Half,
         NEW p, p = ShiftedEvals(Ifft(PolyEvalsWithZero(subset, ZeroEval), rowCount), rowCount),
         NEW d, d = ShiftedEvals(Completed(zeroPoly, rounds, rowCount), rowCount)
  PROVE  /\ \A i \in Indices(rowCount) : subset[i] = None => ZeroEval[i] = 0
         /\ DataFrom(Quotient(p, d), rowCount) = column
<1>1. Shapes(rowCount, Half) /\ FullSize = rowCount
  BY Shape DEF Inv, InputInv
<1>2. rounds \in Nat
  BY <1>1, MissingIs
<1>3. ZeroIs(zeroPoly, rounds, Roots, Half) /\ InputInv /\ subset = Found
  BY DEF Inv, ZeroInv, StageInv
<1>4. ZeroEval = Fft(Completed(zeroPoly, rounds, rowCount), rowCount)
  BY <1>1 DEF ZeroEval
<1> DEFINE e == ZeroEval
<1>5. e = Fft(Completed(zeroPoly, rounds, rowCount), rowCount)
  BY <1>4
<1>6. p = ShiftedEvals(Ifft(PolyEvalsWithZero(subset, e), rowCount), rowCount)
  OBVIOUS
<1> HIDE DEF e
<1>7. /\ \A i \in Indices(rowCount) : subset[i] = None => e[i] = 0
      /\ DataFrom(Quotient(p, d), rowCount) = column
  BY <1>2, <1>3, <1>5, <1>6, Rebuilt
<1> QED BY <1>7 DEF e

LEMMA FailZeroInv == ASSUME RowsFit, Inv, FailZero PROVE Inv'
<1>1. /\ pc = "zero" /\ pc' = "done" /\ rounds = Cardinality(Missing) /\ BadZero
      /\ UNCHANGED << input, subset, zeroPoly, rounds, product, divisor >>
      /\ result' = Err("BadZeroPoly")
  BY DEF FailZero
<1>2. InputInv' /\ Half' = Half /\ Usable' = Usable
  BY <1>1, SameInput
<1>3. ASSUME Cardinality(Usable) >= Half PROVE FALSE
  <2> DEFINE d == ShiftedEvals(Completed(zeroPoly, rounds, rowCount), rowCount)
             p == ShiftedEvals(Ifft(PolyEvalsWithZero(subset, ZeroEval), rowCount), rowCount)
  <2>1. d = ShiftedEvals(Completed(zeroPoly, rounds, rowCount), rowCount)
        /\ p = ShiftedEvals(Ifft(PolyEvalsWithZero(subset, ZeroEval), rowCount), rowCount)
    OBVIOUS
  <2> HIDE DEF d, p
  <2>2. \A i \in Indices(rowCount) : subset[i] = None => ZeroEval[i] = 0
    BY <1>1, <1>3, <2>1, HereRebuilt
  <2> QED BY <1>1, <2>2 DEF BadZero
<1>4. AnyHalfSuffices'
  BY <1>2, <1>3 DEF AnyHalfSuffices
<1> QED BY <1>1, <1>2, <1>4 DEF Inv, StageInv, ZeroInv, DivideInv

LEMMA DivideStepInv == ASSUME RowsFit, Inv, Divide PROVE Inv'
<1>1. /\ pc = "divide" /\ pc' = "done"
      /\ UNCHANGED << input, subset, zeroPoly, rounds, product, divisor >>
  BY DEF Divide
<1>2. InputInv' /\ Half' = Half /\ Usable' = Usable /\ column' = column
  BY <1>1, SameInput
<1>3. result' = Ok(DataFrom(Quotient(product, divisor), FullSize))
  BY <1>1, DivisorIs DEF Divide
<1>4. FullSize = rowCount
  BY Shape DEF Inv, InputInv
<1>5. /\ rounds = Cardinality(Missing)
      /\ product = ShiftedEvals(Ifft(PolyEvalsWithZero(subset, ZeroEval), rowCount), rowCount)
      /\ divisor = ShiftedEvals(Completed(zeroPoly, rounds, rowCount), rowCount)
  BY <1>1 DEF Inv, DivideInv
<1>6. ASSUME Cardinality(Usable) >= Half
      PROVE  DataFrom(Quotient(product, divisor), rowCount) = column
  BY <1>1, <1>5, <1>6, HereRebuilt
<1>7. Succeeded' /\ result'.scalars = DataFrom(Quotient(product, divisor), rowCount)
  BY <1>1, <1>3, <1>4 DEF Succeeded, Done, Ok
<1>8. AnyHalfSuffices'
  BY <1>2, <1>6, <1>7 DEF AnyHalfSuffices
<1> QED BY <1>1, <1>2, <1>8 DEF Inv, StageInv, ZeroInv, DivideInv

LEMMA StutterInv == ASSUME Inv, UNCHANGED vars PROVE Inv'
<1>1. UNCHANGED input /\ UNCHANGED << pc, subset, zeroPoly, rounds, product, divisor, result >>
  BY DEF vars, input
<1>2. InputInv' /\ Half' = Half /\ Usable' = Usable /\ column' = column /\ rowCount' = rowCount
      /\ CheckCells' = CheckCells /\ cells' = cells /\ Found' = Found
  BY <1>1, SameInput
<1>3. Missing' = Missing /\ Roots' = Roots /\ ZeroEval' = ZeroEval
  BY <1>1, <1>2 DEF Missing, Roots, RootsOf, ZeroEval, FullSize
<1>4. StageInv'
  BY <1>1, <1>2 DEF Inv, StageInv
<1>5. ZeroIs(zeroPoly, rounds, Roots, Half)' = ZeroIs(zeroPoly, rounds, Roots, Half)
  BY <1>1, <1>2, <1>3
<1>6. ZeroInv'
  BY <1>1, <1>3, <1>5 DEF Inv, ZeroInv
<1>7. DivideInv'
  BY <1>1, <1>2, <1>3 DEF Inv, DivideInv
<1>8. AnyHalfSuffices'
  BY <1>1, <1>2 DEF Inv, AnyHalfSuffices, Done, Succeeded
<1> QED BY <1>2, <1>4, <1>6, <1>7, <1>8 DEF Inv

\* Every step.
LEMMA StepInv == ASSUME RowsFit, Inv, [Next]_vars PROVE Inv'
<1>1. CASE \E row \in Indices(rowCount), isScalar \in BOOLEAN, col \in {0, 1} :
             Supply(row, isScalar, col)
  BY <1>1, SupplyInv
<1>2. CASE Check
  BY <1>2, CheckInv
<1>3. CASE Reject
  BY <1>3, RejectInv
<1>4. CASE ZeroRound
  BY <1>4, ZeroRoundInv
<1>5. CASE Multiply
  BY <1>5, MultiplyInv
<1>6. CASE FailZero
  BY <1>6, FailZeroInv
<1>7. CASE Divide
  BY <1>7, DivideStepInv
<1>8. CASE UNCHANGED vars
  BY <1>8, StutterInv
<1> QED BY <1>1, <1>2, <1>3, <1>4, <1>5, <1>6, <1>7, <1>8 DEF Next

LEMMA Invariance == ASSUME RowsFit PROVE Spec => []Inv
<1>1. Init => Inv
  BY InitInv
<1>2. Inv /\ [Next]_vars => Inv'
  BY StepInv
<1> QED BY <1>1, <1>2, PTL DEF Spec

\* shift_poly moves the domain off the zeros of the zero polynomial: when
\* reconstruct_poly divides, no divisor is zero, whatever rows are missing and
\* whatever defective cells came, for every prime field, every column and
\* every row count that is a domain of the field the shift factor leads out of.
THEOREM DivisionIsSafe == ASSUME RowsFit PROVE Spec => []ShiftedDivisorHasNoZero
<1>1. Inv => ShiftedDivisorHasNoZero
  BY DivisorIs DEF ShiftedDivisorHasNoZero
<1> QED BY <1>1, Invariance, PTL

\* reconstruct_column is a code of rate one half: from any half of the rows of
\* a coded column, with whatever defective or surplus cells among them, it
\* returns the author's column and nothing else, and refuses such a slice of
\* one column only when it has more cells than the column has rows.
THEOREM AnyHalfGivesTheColumn == ASSUME RowsFit PROVE Spec => []AnyHalfSuffices
<1>1. Inv => AnyHalfSuffices
  BY DEF Inv
<1> QED BY <1>1, Invariance, PTL

-------------------------------------------------------------------------------
\* The same computation in one call: the contract Recovery and MultiProof rely on.

\* The function reconstruct_poly's model recurses with.
IsZeros(n, S, r, f) ==
  f = [i \in 0 .. r |->
         IF i = 0 THEN << >> ELSE TimesRoot(f[i - 1], i - 1, MinusRoot(Nth(S, i - 1), n, n))]

\* There is one.
LEMMA ZerosExist ==
  ASSUME NEW n, NEW S, NEW N \in Nat
  PROVE  \E f : IsZeros(n, S, N, f)
<1> DEFINE next(f, i) == TimesRoot(f[i - 1], i - 1, MinusRoot(Nth(S, i - 1), n, n))
           T == {r \in 0 .. N : \E f : IsZeros(n, S, r, f)}
<1>1. 0 \in T
  <2> DEFINE f == [k \in 0 .. 0 |-> << >>]
  <2>1. IsZeros(n, S, 0, f)
    BY DEF IsZeros
  <2> HIDE DEF f
  <2> QED BY <2>1
<1>2. ASSUME NEW r \in 1 .. N, r - 1 \in T PROVE r \in T
  <2>1. PICK f : IsZeros(n, S, r - 1, f)
    BY <1>2
  <2> DEFINE g == [k \in 0 .. r |-> IF k = r THEN next(f, r) ELSE f[k]]
  <2>2. \A k \in 0 .. r - 1 : f[k] = IF k = 0 THEN << >> ELSE next(f, k)
    BY <2>1 DEF IsZeros
  <2>3. \A k \in 0 .. r : /\ k # r => k \in 0 .. r - 1 /\ g[k] = f[k]
                          /\ k # 0 => k - 1 \in 0 .. r /\ g[k - 1] = f[k - 1]
    <3> HIDE DEF next
    <3> QED OBVIOUS
  <2>4. r # 0 /\ r \in 0 .. r /\ g[r] = next(f, r)
    <3> HIDE DEF next
    <3> QED OBVIOUS
  <2>5. g = [k \in 0 .. r |-> g[k]]
    <3> HIDE DEF next
    <3> QED OBVIOUS
  <2> HIDE DEF g
  <2>6. ASSUME NEW k \in 0 .. r PROVE g[k] = IF k = 0 THEN << >> ELSE next(g, k)
    <3>1. CASE k = r
      BY <2>3, <2>4, <3>1
    <3>2. CASE k # r
      BY <2>2, <2>3, <3>2
    <3> QED BY <3>1, <3>2
  <2>7. IsZeros(n, S, r, g)
    BY <2>5, <2>6, Zenon DEF IsZeros
  <2> QED BY <2>7
<1> HIDE DEF T
<1>3. \A r \in 0 .. N : r \in T
  BY <1>1, <1>2, UpTo
<1>4. N \in T
  BY <1>3
<1> QED BY <1>4 DEF T

\* The polynomial of reconstruct_poly vanishes at the missing rows.
LEMMA ZerosAre ==
  ASSUME NEW n, Fits(n), NEW M \in Nat \ {0}, NEW S, S \subseteq Indices(n),
         NEW f, IsZeros(n, S, Cardinality(S), f)
  PROVE  ZeroIs(f[Cardinality(S)], Cardinality(S), RootsOf(n, S), M)
<1> DEFINE c == Cardinality(S)
           R == RootsOf(n, S)
           T == {r \in 0 .. c : ZeroIs(f[r], r, R, M)}
<1>1. /\ c \in Nat
      /\ \A k \in 0 .. c - 1 : /\ Nth(S, k) \in Indices(n)
                               /\ R[k] = Power(GroupGen(n), Nth(S, k)) /\ R[k] \in Int
  <2>1. n \in Nat
    BY DEF Fits
  <2> QED BY <2>1, RootsIs
<1>2. \A i \in 0 .. c : f[i] = IF i = 0 THEN << >>
                               ELSE TimesRoot(f[i - 1], i - 1, MinusRoot(Nth(S, i - 1), n, n))
  BY DEF IsZeros
<1> HIDE DEF R, c
<1>3. 0 \in T
  BY <1>1, ZeroIsFirst
<1>4. ASSUME NEW r \in 1 .. c, r - 1 \in T PROVE r \in T
  <2> DEFINE k == r - 1
             sub == MinusRoot(Nth(S, k), n, n)
  <2>1. k \in Nat /\ k \in 0 .. c - 1 /\ r \in 0 .. c /\ r # 0 /\ k + 1 = r
    BY <1>1
  <2>2. ZeroIs(f[k], k, R, M)
    BY <1>4
  <2>3. Nth(S, k) \in Indices(n) /\ R[k] = Power(GroupGen(n), Nth(S, k)) /\ R[k] \in Int
    BY <1>1, <2>1
  <2>4. \A j \in 0 .. k - 1 : R[j] \in Int
    <3>1. \A j \in 0 .. k - 1 : j \in 0 .. c - 1
      BY <1>1, <2>1
    <3> QED BY <1>1, <3>1
  <2>5. f[r] = TimesRoot(f[k], k, sub)
    BY <1>2, <2>1
  <2> HIDE DEF k
  <2>6. sub \in Scalar /\ Same(sub, -R[k])
    BY <2>3, MinusRootIs
  <2> HIDE DEF sub
  <2>7. ZeroIs(TimesRoot(f[k], k, sub), k + 1, R, M)
    BY <2>1, <2>2, <2>3, <2>4, <2>6, ZeroIsNext
  <2>8. ZeroIs(f[r], r, R, M)
    BY <2>1, <2>5, <2>7
  <2> QED BY <2>1, <2>8
<1> HIDE DEF T
<1>5. \A r \in 0 .. c : r \in T
  BY <1>1, <1>3, <1>4, UpTo
<1>6. c \in T
  BY <1>1, <1>5
<1> QED BY <1>6 DEF T, R, c

\* reconstruct_poly after the rounds of the zero polynomial.
FromZero(n, given, zero, r) ==
  LET poly == Completed(zero, r, n)
      evals == Fft(poly, n)
      over == ShiftedEvals(Ifft(PolyEvalsWithZero(given, evals), n), n)
      under == ShiftedEvals(poly, n)
  IN  IF \/ \E i \in DOMAIN given : given[i] = None /\ evals[i] # 0
         \/ \E i \in DOMAIN under : under[i] = 0
        THEN [err |-> "BadZeroPoly", scalars |-> << >>]
        ELSE [err |-> "none", scalars |-> DataFrom(Quotient(over, under), n)]

\* The rows without a scalar.
NoneOf(n, given) == {i \in Indices(n) : given[i] = None}

\* ReconstructPoly as its parts.
LEMMA ReconstructPolyIs ==
  ASSUME NEW n, NEW s, Cardinality(NoneOf(n, s)) \in Nat
  PROVE  \E f : /\ IsZeros(n, NoneOf(n, s), Cardinality(NoneOf(n, s)), f)
                /\ ReconstructPoly(n, n, s)
                     = FromZero(n, s, f[Cardinality(NoneOf(n, s))], Cardinality(NoneOf(n, s)))
<1> DEFINE f == CHOOSE g : IsZeros(n, NoneOf(n, s), Cardinality(NoneOf(n, s)), g)
<1>1. IsZeros(n, NoneOf(n, s), Cardinality(NoneOf(n, s)), f)
  BY ZerosExist, Zenon
<1>2. ReconstructPoly(n, n, s)
        = FromZero(n, s, f[Cardinality(NoneOf(n, s))], Cardinality(NoneOf(n, s)))
  BY Zenon DEF ReconstructPoly, IsZeros, FromZero, NoneOf
<1> QED BY <1>1, <1>2

\* The data rows of an extended column are the column.
LEMMA EvenRows ==
  ASSUME NEW M, Fits(M), Fits(2 * M), NEW data \in Scalars(M), NEW row \in Indices(M)
  PROVE  Extend(M, data)[2 * row] = data[row]
<1> DEFINE n == 2 * M
           d == Ifft(data, M)
           w == GroupGen(n)
           v == GroupGen(M)
<1>1. M \in Nat \ {0} /\ n \in Nat \ {0} /\ row \in Nat /\ 2 * row \in Indices(n)
      /\ 2 * row \in Nat
  BY DEF Fits, Indices
<1>2. w \in Int /\ v \in Int
  BY DomainRoot
<1>3. Power(w, 2) = v
  <2>1. PICK q \in Nat \ {0} : q = (Prime - 1) \div n /\ q * n = Prime - 1
    BY FitsIs
  <2>2. PICK p \in Nat \ {0} : p = (Prime - 1) \div M /\ p * M = Prime - 1
    BY FitsIs
  <2>3. p = q * 2
    <3>1. (q * 2) * M = p * M
      BY <2>1, <2>2, <1>1
    <3>2. M * (q * 2 - p) = 0
      BY <3>1, <1>1
    <3> DEFINE e == q * 2 - p
    <3>3. e \in Int /\ M * e = 0
      BY <3>2
    <3> HIDE DEF e
    <3>4. e = 0
      <4>1. ASSUME e >= 1 PROVE FALSE
        BY <3>3, <4>1, <1>1
      <4>2. ASSUME e <= -1 PROVE FALSE
        BY <3>3, <4>2, <1>1
      <4> QED BY <3>3, <4>1, <4>2
    <3> QED BY <3>4 DEF e
  <2>4. Power(Generator, q * 2) = Power(Power(Generator, q), 2)
    BY <2>1, FieldAssumption, PrimeType, PowerOfPower
  <2>5. w = Power(Generator, q) /\ v = Power(Generator, p)
    BY <2>1, <2>2 DEF GroupGen
  <2> QED BY <2>3, <2>4, <2>5
<1>4. Power(w, 2 * row) = Power(v, row)
  <2> HIDE DEF w, v
  <2>1. Power(w, 2 * row) = Power(Power(w, 2), row)
    BY <1>1, <1>2, PowerOfPower
  <2> QED BY <1>3, <2>1
<1>5. Extend(M, data)[2 * row] = Eval(d, M, Power(w, 2 * row))
  BY <1>1, ExtendIs
<1>6. Fft(d, M)[row] = Eval(Resize(d, M), M, Power(v, row)) /\ Resize(d, M) = d
  <2>1. d \in Scalars(M)
    BY <1>1, IfftIs
  <2> HIDE DEF d
  <2> QED BY <1>1, <2>1, FftIs, ResizeType
<1>7. Fft(d, M)[row] = data[row]
  BY FftOfIfft
<1> QED BY <1>4, <1>5, <1>6, <1>7

\* The column from half of its coded cells, in one call.
LEMMA PolyFromHalf ==
  ASSUME NEW M, Shapes(2 * M, M), NEW data \in Scalars(M),
         NEW given \in SUBSET Indices(2 * M), Cardinality(given) >= M,
         NEW s, s = [row \in Indices(2 * M) |-> IF row \in given THEN Extend(M, data)[row] ELSE None]
  PROVE  ReconstructPoly(2 * M, 2 * M, s) = [err |-> "none", scalars |-> data]
<1> DEFINE n == 2 * M
           S == NoneOf(n, s)
           c == Cardinality(S)
           R == RootsOf(n, S)
<1>1. /\ n \in Nat \ {0} /\ M \in Nat \ {0} /\ n = 2 * M /\ n \div 2 = M
      /\ Fits(n) /\ Fits(M) /\ Power(ShiftFactor, n) # 1
  BY DEF Shapes
<1>2. \A row \in Indices(n) : Extend(M, data)[row] # None
  <2>1. Extend(M, data) \in Scalars(n)
    BY <1>1, ExtendIs
  <2>2. \A x \in Scalar : x # None
    BY PrimeType DEF Scalar, None
  <2> QED BY <2>1, <2>2, ScalarsInt
<1>3. S = Indices(n) \ given /\ S \subseteq Indices(n) /\ given \subseteq Indices(n)
  BY <1>2 DEF NoneOf
<1>4. c = n - Cardinality(given) /\ Cardinality(given) \in Nat
  <2>1. IsFiniteSet(Indices(n)) /\ Cardinality(Indices(n)) = n
    <3> HIDE DEF n
    <3>1. IsFiniteSet(0 .. n - 1) /\ Cardinality(0 .. n - 1) = IF 0 > n - 1 THEN 0 ELSE (n - 1) - 0 + 1
      BY <1>1, FS_Interval
    <3> QED BY <1>1, <3>1 DEF Indices
  <2>2. Indices(n) \cap given = given
    BY <1>3
  <2>3. IsFiniteSet(given)
    BY <1>3, <2>1, FS_Subset
  <2> HIDE DEF n, S
  <2>4. Cardinality(Indices(n) \ given)
          = Cardinality(Indices(n)) - Cardinality(Indices(n) \cap given)
    BY <2>1, <2>3, FS_Difference
  <2>5. Cardinality(given) \in Nat
    BY <2>3, FS_CardinalityType
  <2> QED BY <1>3, <2>1, <2>2, <2>4, <2>5
<1>5. c \in Nat /\ c <= M /\ c < n
  <2>1. c \in 0 .. n
    BY <1>1, <1>3, RootsIs
  <2> HIDE DEF c, n, S
  <2> QED BY <1>1, <1>4, <2>1
<1>6. /\ \A k \in 0 .. c - 1 : \E j \in Indices(n) : R[k] = Power(GroupGen(n), j)
      /\ \A i \in S : \E k \in 0 .. c - 1 : R[k] = Power(GroupGen(n), i)
  <2> HIDE DEF n, S
  <2>1. \A k \in 0 .. Cardinality(S) - 1 :
          \E j \in Indices(n) : RootsOf(n, S)[k] = Power(GroupGen(n), j)
    BY <1>1, <1>3, RootsIs
  <2>2. \A i \in S : \E k \in 0 .. Cardinality(S) - 1 :
          RootsOf(n, S)[k] = Power(GroupGen(n), i)
    BY <1>1, <1>3, RootsIs
  <2> QED BY <2>1, <2>2
<1>7. \A i \in Indices(n) : s[i] = None => \E k \in 0 .. c - 1 : R[k] = Power(GroupGen(n), i)
  BY <1>6 DEF NoneOf
<1>8. PICK f : IsZeros(n, S, c, f) /\ ReconstructPoly(n, n, s) = FromZero(n, s, f[c], c)
  BY <1>5, ReconstructPolyIs
<1>9. ZeroIs(f[c], c, R, M)
  BY <1>1, <1>3, <1>8, ZerosAre
<1>10. DOMAIN s = Indices(n) /\ \A i \in Indices(n) : s[i] = None \/ s[i] = Extend(M, data)[i]
  OBVIOUS
<1> DEFINE zero == f[c]
           poly == Completed(zero, c, n)
           evals == Fft(poly, n)
           over == ShiftedEvals(Ifft(PolyEvalsWithZero(s, evals), n), n)
           under == ShiftedEvals(poly, n)
<1>11. /\ poly = Completed(zero, c, n) /\ evals = Fft(poly, n)
       /\ over = ShiftedEvals(Ifft(PolyEvalsWithZero(s, evals), n), n)
       /\ under = ShiftedEvals(poly, n)
       /\ ZeroIs(zero, c, R, M)
  BY <1>9
<1>12. FromZero(n, s, zero, c)
         = IF \/ \E i \in DOMAIN s : s[i] = None /\ evals[i] # 0
              \/ \E i \in DOMAIN under : under[i] = 0
             THEN [err |-> "BadZeroPoly", scalars |-> << >>]
             ELSE [err |-> "none", scalars |-> DataFrom(Quotient(over, under), n)]
  BY Zenon DEF FromZero
<1>13. ReconstructPoly(n, n, s) = FromZero(n, s, zero, c)
  BY <1>8
<1> HIDE DEF poly, evals, over, under, zero, R, c, S, n
<1>14. /\ \A i \in Indices(n) : s[i] = None => evals[i] = 0
       /\ DataFrom(Quotient(over, under), n) = data
  BY <1>1, <1>5, <1>6, <1>7, <1>10, <1>11, Reconstructs
<1>15. DOMAIN under = Indices(n) /\ \A i \in Indices(n) : under[i] # 0
  <2>1. /\ ShiftedEvals(Completed(zero, c, n), n) \in Scalars(n)
        /\ \A i \in Indices(n) : ShiftedEvals(Completed(zero, c, n), n)[i] # 0
    BY <1>1, <1>5, <1>6, <1>11, ZeroEvals
  <2> QED BY <1>11, <2>1 DEF Scalars
<1>16. FromZero(n, s, zero, c) = [err |-> "none", scalars |-> data]
  BY <1>10, <1>12, <1>14, <1>15
<1> QED BY <1>13, <1>16 DEF n

\* The cells a caller of reconstruct_column hands over, by row, the others
\* missing: what reconstruct_column answers.
ReconstructFrom(n, given) ==
  ReconstructPoly(n, n,
    [row \in Indices(n) |-> IF row \in DOMAIN given THEN given[row] ELSE None])

Promise == INSTANCE ErasurePromise WITH ExtendColumn <- Extend, Reconstruct <- ReconstructFrom

\* The promise counts cells with its own instance of Cardinality.
LEMMA SameCount ==
  ASSUME NEW S
  PROVE  Promise!Cardinality(S) = Cardinality(S)
BY Zenon DEF Promise!Cardinality, Cardinality, Promise!IsFiniteSet, IsFiniteSet

\* The erasure code of the program keeps the contract that Recovery and its
\* theorems are written against: par_extend_data_matrix leaves the author's
\* scalars in the even rows, and from whichever half of the coded column
\* reconstruct_poly is called with it returns those scalars and no error, for
\* every column of scalars and every row count the field has domains for.
THEOREM CodeKeepsContract ==
  ASSUME NEW M, Shapes(2 * M, M), NEW columns, columns \subseteq Scalars(M)
  PROVE  Promise!ErasureContract(M, columns)
<1>1. Promise!EXTENSION_FACTOR * M = 2 * M /\ Promise!EXTENSION_FACTOR = 2
  BY DEF Promise!EXTENSION_FACTOR
<1>2. ASSUME NEW data \in columns, NEW row \in Indices(M)
      PROVE  Extend(M, data)[2 * row] = data[row]
  <2>1. data \in Scalars(M)
    OBVIOUS
  <2> QED BY <2>1, EvenRows DEF Shapes
<1>3. ASSUME NEW data \in columns, NEW given \in SUBSET Indices(2 * M),
             Cardinality(given) >= M
      PROVE  ReconstructFrom(2 * M, [row \in given |-> Extend(M, data)[row]])
               = [err |-> "none", scalars |-> data]
  <2> DEFINE some == [row \in given |-> Extend(M, data)[row]]
             s == [row \in Indices(2 * M) |-> IF row \in DOMAIN some THEN some[row] ELSE None]
  <2>1. s = [row \in Indices(2 * M) |-> IF row \in given THEN Extend(M, data)[row] ELSE None]
    OBVIOUS
  <2>2. ReconstructFrom(2 * M, some) = ReconstructPoly(2 * M, 2 * M, s)
    BY Zenon DEF ReconstructFrom
  <2>3. data \in Scalars(M)
    OBVIOUS
  <2> HIDE DEF s, some
  <2>4. ReconstructPoly(2 * M, 2 * M, s) = [err |-> "none", scalars |-> data]
    BY <1>3, <2>1, <2>3, PolyFromHalf
  <2> QED BY <2>2, <2>4 DEF some
<1>4. ASSUME NEW data \in columns, NEW given \in SUBSET Indices(2 * M),
             Promise!Cardinality(given) >= M
      PROVE  ReconstructFrom(2 * M, [row \in given |-> Extend(M, data)[row]])
               = [err |-> "none", scalars |-> data]
  <2>1. Cardinality(given) >= M
    BY <1>4, SameCount
  <2> QED BY <1>3, <2>1
<1>5. /\ Indices(M) = 0 .. (M - 1)
      /\ Indices(2 * M) = 0 .. (2 * M - 1)
  BY DEF Indices
<1> QED BY <1>1, <1>2, <1>4, <1>5, Zenon DEF Promise!ErasureContract

-------------------------------------------------------------------------------
\* The code is linear, by rows and by columns: the polynomials a node opens are
\* those the commitments were extended to.

\* How the vectors e, c and d are related: e is a c + b d.
Combines(n, a, c, b, d, e) ==
  \A k \in Indices(n) : Same(e[k], (a * c[k]) + (b * d[k]))

\* The transforms are linear, forwards
LEMMA FftLinear ==
  ASSUME NEW m \in Nat, NEW n, Fits(n), m <= n, NEW a \in Int, NEW b \in Int,
         NEW c \in Scalars(m), NEW d \in Scalars(m), NEW e \in Scalars(m), Combines(m, a, c, b, d, e)
  PROVE  Combines(n, a, Fft(c, n), b, Fft(d, n), Fft(e, n))
<1>1. n \in Nat /\ GroupGen(n) \in Int
  BY DomainRoot
<1>2. ASSUME NEW v \in Scalars(m), NEW i \in Indices(n)
      PROVE  Fft(v, n)[i] = Eval(v, m, Power(GroupGen(n), i))
  <2>1. Power(GroupGen(n), i) \in Int
    BY <1>1, PowerType DEF Indices
  <2>2. Fft(v, n)[i] = Eval(Resize(v, n), n, Power(GroupGen(n), i))
    BY FftIs
  <2> QED BY <1>1, <2>1, <2>2, EvalResize
<1>3. \A k \in Indices(m) : c[k] \in Int /\ d[k] \in Int /\ e[k] \in Int
                            /\ Same(e[k], (a * c[k]) + (b * d[k]))
  BY ScalarsInt DEF Combines
<1>4. ASSUME NEW i \in Indices(n)
      PROVE  Same(Fft(e, n)[i], (a * Fft(c, n)[i]) + (b * Fft(d, n)[i]))
  <2> DEFINE x == Power(GroupGen(n), i)
  <2>1. x \in Int
    BY <1>1, PowerType DEF Indices
  <2>2. Fft(e, n)[i] = Eval(e, m, x) /\ Fft(c, n)[i] = Eval(c, m, x) /\ Fft(d, n)[i] = Eval(d, m, x)
    BY <1>2
  <2> HIDE DEF x
  <2>3. Same(Eval(e, m, x), (a * Eval(c, m, x)) + (b * Eval(d, m, x)))
    BY <1>3, <2>1, EvalLinear
  <2> QED BY <2>2, <2>3
<1> QED BY <1>4 DEF Combines

\* and backwards,
LEMMA IfftLinear ==
  ASSUME NEW n, Fits(n), NEW a \in Int, NEW b \in Int,
         NEW c \in Scalars(n), NEW d \in Scalars(n), NEW e \in Scalars(n), Combines(n, a, c, b, d, e)
  PROVE  Combines(n, a, Ifft(c, n), b, Ifft(d, n), Ifft(e, n))
<1> DEFINE u == InverseOf[GroupGen(n)]
           v == InverseOf[n % Prime]
<1>1. n \in Nat /\ u \in Int
  BY DomainRoot, ScalarType DEF Root
<1>2. ASSUME NEW w \in Scalars(n)
      PROVE  /\ Ifft(w, n) \in Scalars(n) /\ v \in Int
             /\ \A i \in Indices(n) : /\ Eval(w, n, Power(u, i)) \in Int
                                      /\ Same(Ifft(w, n)[i], v * Eval(w, n, Power(u, i)))
  <2>1. /\ Ifft(w, n) \in Scalars(n)
        /\ InverseOf[n % Prime] \in Int
        /\ \A i \in Indices(n) :
              /\ Eval(Resize(w, n), n, Power(InverseOf[GroupGen(n)], i)) \in Int
              /\ Same(Ifft(w, n)[i],
                      InverseOf[n % Prime] * Eval(Resize(w, n), n, Power(InverseOf[GroupGen(n)], i)))
    BY <1>1, IfftIs
  <2>2. Resize(w, n) = w
    BY <1>1, ResizeType
  <2> QED BY <2>1, <2>2
<1>3. \A k \in Indices(n) : c[k] \in Int /\ d[k] \in Int /\ e[k] \in Int
                            /\ Same(e[k], (a * c[k]) + (b * d[k]))
  BY ScalarsInt DEF Combines
<1>4. ASSUME NEW i \in Indices(n)
      PROVE  Same(Ifft(e, n)[i], (a * Ifft(c, n)[i]) + (b * Ifft(d, n)[i]))
  <2> DEFINE x == Power(u, i)
             C == Eval(c, n, x)
             D == Eval(d, n, x)
             F == Eval(e, n, x)
             Ic == Ifft(c, n)[i]
             Id == Ifft(d, n)[i]
             Ie == Ifft(e, n)[i]
  <2>1. x \in Int
    BY <1>1, PowerType DEF Indices
  <2>2. v \in Int /\ C \in Int /\ D \in Int /\ F \in Int
    BY <1>2
  <2>3. Same(Ic, v * C) /\ Same(Id, v * D) /\ Same(Ie, v * F)
    BY <1>2
  <2>4. Ic \in Int /\ Id \in Int /\ Ie \in Int
    <3>1. \A w \in Scalars(n) : Ifft(w, n) \in Scalars(n)
      BY <1>2
    <3> QED BY <3>1, ScalarsInt
  <2> HIDE DEF x
  <2>5. Same(F, (a * C) + (b * D))
    BY <1>1, <1>3, <2>1, EvalLinear
  <2> HIDE DEF C, D, F, Ic, Id, Ie, v
  <2>6. Same(v * F, v * ((a * C) + (b * D)))
    <3> DEFINE s == (a * C) + (b * D)
    <3>1. Same(v, v) /\ s \in Int /\ Same(F, s)
      BY <2>2, <2>5, SameRefl
    <3> HIDE DEF s
    <3>2. Same(v * F, v * s)
      BY <2>2, <3>1, SameTimes
    <3> QED BY <3>2 DEF s
  <2>7. v * ((a * C) + (b * D)) = (a * (v * C)) + (b * (v * D)) /\ v * F \in Int /\ v * C \in Int /\ v * D \in Int
    BY <2>2
  <2> DEFINE r == (a * Ic) + (b * Id)
             vC == v * C
             vD == v * D
             vF == v * F
             m == (a * vC) + (b * vD)
  <2>8. Same(Ie, vF) /\ Same(vF, m) /\ vF \in Int /\ vC \in Int /\ vD \in Int /\ Same(Ic, vC) /\ Same(Id, vD)
    BY <2>3, <2>6, <2>7
  <2> HIDE DEF vC, vD, vF
  <2>9. m \in Int /\ r \in Int
    BY <2>4, <2>8
  <2>10. Same(r, m)
    BY <2>4, <2>8, SameSum
  <2> HIDE DEF m, r
  <2>11. Same(Ie, m)
    BY <2>4, <2>8, <2>9, SameTrans
  <2>12. Same(Ie, r)
    BY <2>4, <2>9, <2>10, <2>11, SameSym, SameTrans
  <2> QED BY <2>12 DEF r, Ie, Ic, Id
<1> QED BY <1>4 DEF Combines

\* What the author makes of a column of R values: its extension to N rows,
Coding(R, N, v) == Fft(Ifft(v, R), N)

\* for a code of N values for each R,
Codes(R, N) == /\ R \in Nat /\ N \in Nat /\ R <= N
               /\ Fits(R) /\ Fits(N)

\* it yields scalars,
LEMMA CodingIs ==
  ASSUME NEW R, NEW N, Codes(R, N), NEW v \in Scalars(R)
  PROVE  /\ Coding(R, N, v) \in Scalars(N)
         /\ \A y \in Indices(N) : Coding(R, N, v)[y] \in Int /\ Coding(R, N, v)[y] \in Scalar
<1>1. Ifft(v, R) \in Scalars(R)
  BY IfftIs DEF Codes
<1>2. Fft(Ifft(v, R), N) \in Scalars(N)
  BY <1>1, FftIs DEF Codes
<1> QED BY <1>2, ScalarsInt DEF Coding

\* is linear,
LEMMA CodingLinear ==
  ASSUME NEW R, NEW N, Codes(R, N), NEW a \in Int, NEW b \in Int,
         NEW c \in Scalars(R), NEW d \in Scalars(R), NEW e \in Scalars(R), Combines(R, a, c, b, d, e)
  PROVE  Combines(N, a, Coding(R, N, c), b, Coding(R, N, d), Coding(R, N, e))
<1>1. \A v \in Scalars(R) : Ifft(v, R) \in Scalars(R)
  BY IfftIs DEF Codes
<1>2. Combines(R, a, Ifft(c, R), b, Ifft(d, R), Ifft(e, R))
  BY IfftLinear DEF Codes
<1>3. Ifft(c, R) \in Scalars(R) /\ Ifft(d, R) \in Scalars(R) /\ Ifft(e, R) \in Scalars(R)
  BY <1>1
<1>4. Combines(N, a, Fft(Ifft(c, R), N), b, Fft(Ifft(d, R), N), Fft(Ifft(e, R), N))
  BY <1>2, <1>3, FftLinear DEF Codes
<1> QED BY <1>4 DEF Coding

\* and codes nothing as nothing.
LEMMA CodingZero ==
  ASSUME NEW R, NEW N, Codes(R, N), NEW v \in Scalars(R), \A r \in Indices(R) : v[r] = 0, NEW y \in Indices(N)
  PROVE  Coding(R, N, v)[y] = 0
<1> DEFINE x == Coding(R, N, v)[y]
<1>z. PICK z \in Int : z = 0
  OBVIOUS
<1>1. Combines(R, z, v, z, v, v)
  <2>1. (z * 0) + (z * 0) = 0 /\ Same(0, 0)
    BY <1>z, SameRefl
  <2> QED BY <2>1 DEF Combines
<1>2. Same(x, (z * x) + (z * x))
  <2>1. Combines(N, z, Coding(R, N, v), z, Coding(R, N, v), Coding(R, N, v))
    BY <1>1, CodingLinear
  <2> QED BY <2>1 DEF Combines
<1>3. x \in Int /\ x \in Scalar
  BY CodingIs
<1> HIDE DEF x
<1>4. (z * x) + (z * x) = 0 /\ 0 \in Scalar
  BY <1>3, <1>z, ScalarType
<1>5. x = 0
  BY <1>2, <1>3, <1>4, SameScalar
<1> QED BY <1>5 DEF x

\* A column of a grid of R rows.
ColumnAt(R, c, k) == [r \in Indices(R) |-> c[r][k]]

\* The rows' polynomials at the same point.
RowsAt(R, c, n, z) == [r \in Indices(R) |-> Eval(c[r], n, z)]

\* These, too, are columns of scalars,
LEMMA RowsAtIs ==
  ASSUME NEW R, NEW m \in Nat, NEW n \in 0 .. m, NEW c \in [Indices(R) -> Scalars(m)], NEW z \in Int
  PROVE  /\ RowsAt(R, c, n, z) \in Scalars(R)
         /\ \A k \in Indices(m) : ColumnAt(R, c, k) \in Scalars(R)
         /\ \A r \in Indices(R) : \A k \in Indices(m) : c[r][k] \in Int
<1>1. \A r \in Indices(R) : \A k \in Indices(m) : c[r][k] \in Int /\ c[r][k] \in Scalar
  BY ScalarsInt
<1>2. ASSUME NEW r \in Indices(R) PROVE Eval(c[r], n, z) \in Scalar
  <2>1. \A k \in Indices(n) : k \in Indices(m)
    BY DEF Indices
  <2>2. \A k \in Indices(n) : c[r][k] \in Int
    BY <1>1, <2>1
  <2> QED BY <2>2, EvalType
<1> QED BY <1>1, <1>2 DEF RowsAt, ColumnAt, Scalars

\* and the row of the coded columns, as a polynomial, takes the value that the
\* coded column of the rows' values has in it.
LEMMA EvalOfCoded ==
  ASSUME NEW R, NEW N, Codes(R, N), NEW n \in Nat, NEW c \in [Indices(R) -> Scalars(n)],
         NEW z \in Int, NEW y \in Indices(N),
         NEW g, \A k \in Indices(n) : g[k] = Coding(R, N, ColumnAt(R, c, k))[y]
  PROVE  Coding(R, N, RowsAt(R, c, n, z))[y] = Eval(g, n, z)
<1> DEFINE T == {j \in 0 .. n : Coding(R, N, RowsAt(R, c, j, z))[y] = Eval(g, j, z)}
<1>0. \A k \in Indices(n) : g[k] \in Int
  <2>1. \A k \in Indices(n) : ColumnAt(R, c, k) \in Scalars(R)
    <3>1. n \in 0 .. n
      OBVIOUS
    <3> QED BY <3>1, RowsAtIs
  <2> QED BY <2>1, CodingIs
<1>1. 0 \in T
  <2>1. 0 \in 0 .. n
    OBVIOUS
  <2>2. RowsAt(R, c, 0, z) \in Scalars(R)
    BY <2>1, RowsAtIs
  <2>3. \A r \in Indices(R) : RowsAt(R, c, 0, z)[r] = 0
    BY EvalNone DEF RowsAt
  <2>4. Coding(R, N, RowsAt(R, c, 0, z))[y] = 0
    BY <2>2, <2>3, CodingZero
  <2> QED BY <2>1, <2>4, EvalNone
<1>2. ASSUME NEW j \in 1 .. n, j - 1 \in T PROVE j \in T
  <2> DEFINE i == j - 1
             p == Power(z, i)
             V0 == RowsAt(R, c, i, z)
             V1 == RowsAt(R, c, i + 1, z)
             W == ColumnAt(R, c, i)
             X0 == Coding(R, N, V0)[y]
             X1 == Coding(R, N, V1)[y]
             E1 == Eval(g, i + 1, z)
             w == g[i]
  <2>1. i \in Nat /\ i + 1 = j /\ j \in 0 .. n /\ i \in 0 .. n /\ i \in Indices(n) /\ i + 1 \in 0 .. n
        /\ \A k \in Indices(i + 1) : k \in Indices(n)
    BY DEF Indices
  <2>2. X0 = Eval(g, i, z)
    BY <1>2
  <2> HIDE DEF i
  <2>3. p \in Int
    BY <2>1, PowerType
  <2>4. V0 \in Scalars(R) /\ V1 \in Scalars(R) /\ W \in Scalars(R)
        /\ \A r \in Indices(R) : \A k \in Indices(n) : c[r][k] \in Int
    BY <2>1, RowsAtIs
  <2>5. \A r \in Indices(R) : V0[r] = Eval(c[r], i, z) /\ V1[r] = Eval(c[r], i + 1, z) /\ W[r] = c[r][i]
    BY DEF RowsAt, ColumnAt
  <2>6. PICK a \in Int : a = 1
    OBVIOUS
  <2>7. Combines(R, a, V0, p, W, V1)
    <3>1. ASSUME NEW r \in Indices(R) PROVE Same(V1[r], (a * V0[r]) + (p * W[r]))
      <4> DEFINE e0 == Eval(c[r], i, z)
                 e1 == Eval(c[r], i + 1, z)
                 x == c[r][i]
      <4>1. \A k \in Indices(i + 1) : c[r][k] \in Int
        BY <2>1, <2>4
      <4>2. e0 \in Int /\ e1 \in Int /\ x * p \in Int /\ Same(e1, e0 + x * p)
        BY <2>1, <4>1, EvalStep
      <4>3. x \in Int
        BY <2>1, <2>4
      <4>4. V0[r] = e0 /\ V1[r] = e1 /\ W[r] = x
        BY <2>5
      <4> HIDE DEF e0, e1, x, p
      <4>5. (a * e0) + (p * x) = e0 + x * p
        BY <2>3, <2>6, <4>2, <4>3
      <4> QED BY <4>2, <4>4, <4>5
    <3> QED BY <3>1 DEF Combines
  <2>8. w = Coding(R, N, W)[y]
    BY <2>1
  <2>9. Same(X1, (a * X0) + (p * w))
    <3> HIDE DEF V0, V1, W
    <3>1. Combines(N, a, Coding(R, N, V0), p, Coding(R, N, W), Coding(R, N, V1))
      BY <2>3, <2>4, <2>7, CodingLinear
    <3> QED BY <2>8, <3>1 DEF Combines
  <2>10. X0 \in Int /\ X1 \in Int /\ X1 \in Scalar
    <3> HIDE DEF V0, V1
    <3> QED BY <2>4, CodingIs
  <2>11. w \in Int
    BY <1>0, <2>1
  <2>12. E1 \in Scalar /\ E1 \in Int /\ w * p \in Int /\ Same(E1, X0 + w * p)
    <3>1. \A k \in Indices(i + 1) : g[k] \in Int
      BY <1>0, <2>1
    <3>2. /\ Eval(g, i + 1, z) \in Scalar /\ Eval(g, i + 1, z) \in Int
          /\ g[i] * Power(z, i) \in Int
          /\ Same(Eval(g, i + 1, z), Eval(g, i, z) + g[i] * Power(z, i))
      BY <2>1, <3>1, EvalStep
    <3> QED BY <2>2, <3>2
  <2> HIDE DEF X0, X1, w, p, E1
  <2>13. (a * X0) + (p * w) = X0 + w * p /\ X0 + w * p \in Int
    BY <2>3, <2>6, <2>10, <2>11
  <2>14. Same(X1, E1)
    <3>1. Same(X0 + w * p, E1)
      BY <2>12, <2>13, SameSym
    <3> QED BY <2>9, <2>10, <2>12, <2>13, <3>1, SameTrans
  <2>15. X1 = E1
    BY <2>10, <2>12, <2>14, SameScalar
  <2> QED BY <2>1, <2>15 DEF X1, E1, V1
<1> HIDE DEF T
<1>3. \A j \in 0 .. n : j \in T
  BY <1>1, <1>2, UpTo
<1>4. n \in T
  BY <1>3
<1> QED BY <1>4 DEF T

\* The coefficients of the interpolated rows, extended one by one, are those
\* of the rows that were extended value by value.
LEMMA ExtensionCommutes ==
  ASSUME NEW R, NEW N, Codes(R, N), NEW n, Fits(n), NEW m \in Nat, m <= n,
         NEW c \in [Indices(R) -> Scalars(m)], NEW y \in Indices(N),
         NEW d, d = [r \in Indices(R) |-> Ifft(c[r], n)],
         NEW g, g = [k \in Indices(m) |-> Coding(R, N, ColumnAt(R, c, k))[y]],
         NEW k \in Indices(n)
  PROVE  /\ g \in Scalars(m)
         /\ ColumnAt(R, d, k) \in Scalars(R)
         /\ Coding(R, N, ColumnAt(R, d, k))[y] = Ifft(g, n)[k]
<1> DEFINE u == InverseOf[GroupGen(n)]
           v == InverseOf[n % Prime]
           z == Power(u, k)
           V == RowsAt(R, c, m, z)
           W == ColumnAt(R, d, k)
           X == Coding(R, N, V)[y]
           Y == Coding(R, N, W)[y]
           I == Ifft(g, n)[k]
<1>1. n \in Nat /\ u \in Int /\ k \in Nat
  <2>1. n \in Nat
    BY DomainRoot
  <2>2. u \in Int
    BY DomainRoot, ScalarType DEF Root
  <2>3. k \in Nat
    BY <2>1 DEF Indices
  <2> QED BY <2>1, <2>2, <2>3
<1>2. z \in Int
  BY <1>1, PowerType
<1>3. \A j \in Indices(m) : ColumnAt(R, c, j) \in Scalars(R)
  BY RowsAtIs
<1>4. g \in Scalars(m)
  <2>1. \A j \in Indices(m) : Coding(R, N, ColumnAt(R, c, j))[y] \in Scalar
    BY <1>3, CodingIs
  <2> QED BY <2>1 DEF Scalars
<1>5. ASSUME NEW w \in Scalars(m)
      PROVE  /\ Ifft(w, n) \in Scalars(n) /\ v \in Int
             /\ Eval(w, m, z) \in Int
             /\ Same(Ifft(w, n)[k], v * Eval(w, m, z))
  <2>1. /\ Ifft(w, n) \in Scalars(n)
        /\ InverseOf[n % Prime] \in Int
        /\ Eval(Resize(w, n), n, Power(InverseOf[GroupGen(n)], k)) \in Int
        /\ Same(Ifft(w, n)[k],
                InverseOf[n % Prime] * Eval(Resize(w, n), n, Power(InverseOf[GroupGen(n)], k)))
    BY IfftIs
  <2> HIDE DEF z
  <2>2. Eval(Resize(w, n), n, z) = Eval(w, m, z)
    BY <1>1, <1>2, EvalResize
  <2> QED BY <2>1, <2>2 DEF z
<1>6. \A r \in Indices(R) : W[r] = Ifft(c[r], n)[k] /\ V[r] = Eval(c[r], m, z)
  BY DEF ColumnAt, RowsAt
<1>7. W \in Scalars(R)
  <2>1. ASSUME NEW r \in Indices(R) PROVE Ifft(c[r], n)[k] \in Scalar
    <3>1. Ifft(c[r], n) \in Scalars(n)
      BY <1>5
    <3> QED BY <3>1, ScalarsInt
  <2> QED BY <1>6, <2>1 DEF Scalars, ColumnAt
<1>8. V \in Scalars(R)
  <2> HIDE DEF z
  <2>1. m \in 0 .. m
    OBVIOUS
  <2> QED BY <1>2, <2>1, RowsAtIs
<1>z. PICK o \in Int : o = 0
  OBVIOUS
<1>9. v \in Int
  BY <1>4, <1>5
<1>10. Combines(R, v, V, o, V, W)
  <2>1. ASSUME NEW r \in Indices(R) PROVE Same(W[r], (v * V[r]) + (o * V[r]))
    <3>1. Same(Ifft(c[r], n)[k], v * Eval(c[r], m, z)) /\ Eval(c[r], m, z) \in Int
      BY <1>5
    <3> DEFINE E == Eval(c[r], m, z)
    <3> HIDE DEF v, z
    <3>2. (v * E) + (o * E) = v * E
      <4> HIDE DEF E
      <4>1. E \in Int
        BY <3>1 DEF E
      <4> QED BY <1>9, <1>z, <4>1
    <3> QED BY <1>6, <3>1, <3>2
  <2> HIDE DEF V, W, v
  <2> QED BY <2>1 DEF Combines
<1>11. Same(Y, (v * X) + (o * X))
  <2> HIDE DEF V, W, v
  <2>1. Combines(N, v, Coding(R, N, V), o, Coding(R, N, V), Coding(R, N, W))
    BY <1>7, <1>8, <1>9, <1>10, CodingLinear
  <2> QED BY <2>1 DEF Combines
<1>12. X = Eval(g, m, z)
  <2> HIDE DEF z
  <2>1. \A j \in Indices(m) : g[j] = Coding(R, N, ColumnAt(R, c, j))[y]
    OBVIOUS
  <2> HIDE DEF X, V
  <2>2. Coding(R, N, RowsAt(R, c, m, z))[y] = Eval(g, m, z)
    BY <1>2, <2>1, EvalOfCoded
  <2> QED BY <2>2 DEF X, V
<1>13. Same(I, v * X) /\ I \in Int /\ I \in Scalar
  <2>1. Same(Ifft(g, n)[k], v * Eval(g, m, z)) /\ Ifft(g, n) \in Scalars(n)
    BY <1>4, <1>5
  <2>2. Ifft(g, n)[k] \in Int /\ Ifft(g, n)[k] \in Scalar
    BY <2>1, ScalarsInt
  <2> QED BY <1>12, <2>1, <2>2
<1>14. X \in Int /\ Y \in Int /\ Y \in Scalar
  <2> HIDE DEF V, W
  <2> QED BY <1>7, <1>8, CodingIs
<1> HIDE DEF X, Y, I, v
<1>15. (v * X) + (o * X) = v * X /\ v * X \in Int
  BY <1>9, <1>14, <1>z
<1>16. Same(Y, I)
  <2>1. Same(v * X, I)
    BY <1>13, <1>15, SameSym
  <2> QED BY <1>11, <1>13, <1>14, <1>15, <2>1, SameTrans
<1>17. Y = I
  BY <1>13, <1>14, <1>16, SameScalar
<1> QED BY <1>4, <1>7, <1>17 DEF Y, I, W

\* The interpolated row takes the row's values at the points of the domain.
LEMMA InterpolationIs ==
  ASSUME NEW n, Fits(n), NEW m \in Nat, m <= n, NEW e \in Scalars(m), NEW x \in Indices(m)
  PROVE  /\ Ifft(e, n) \in Scalars(n)
         /\ Eval(Ifft(e, n), n, Power(GroupGen(n), x)) = e[x]
<1> DEFINE f == Resize(e, n)
           d == Ifft(f, n)
<1>1. n \in Nat /\ x \in Indices(n) /\ x \in Indices(m)
  BY DomainRoot DEF Indices
<1>2. f \in Scalars(n)
  BY <1>1, ResizeType
<1>3. Resize(f, n) = f
  <2> HIDE DEF f
  <2> QED BY <1>1, <1>2, ResizeType
<1>4. f[x] = e[x]
  BY <1>1 DEF Resize, Scalars
<1>5. Ifft(f, n) = Ifft(e, n)
  BY <1>3, Zenon DEF Ifft
<1> HIDE DEF f
<1>6. d \in Scalars(n)
  BY <1>1, <1>2, IfftIs
<1>7. Fft(d, n) = f
  BY <1>2, FftOfIfft
<1> HIDE DEF d
<1>8. Resize(d, n) = d
  BY <1>1, <1>6, ResizeType
<1>9. Fft(d, n)[x] = Eval(Resize(d, n), n, Power(GroupGen(n), x))
  BY <1>1, <1>6, FftIs
<1>10. Eval(d, n, Power(GroupGen(n), x)) = e[x]
  BY <1>4, <1>7, <1>8, <1>9
<1> QED BY <1>5, <1>6, <1>10 DEF d

-------------------------------------------------------------------------------
\* Powers of two, rounding and floats.

\* What TwoTo computes,
IsTwoTo(n, f) == f = [k \in 0 .. n |-> IF k = 0 THEN 1 ELSE 2 * f[k - 1]]

\* that there is such a function,
LEMMA TwoToExists ==
  ASSUME NEW N \in Nat
  PROVE  \E f : IsTwoTo(N, f)
<1> DEFINE T == {n \in 0 .. N : \E f : IsTwoTo(n, f)}
<1>1. 0 \in T
  <2> DEFINE f == [k \in 0 .. 0 |-> 1]
  <2>1. IsTwoTo(0, f)
    BY DEF IsTwoTo
  <2> HIDE DEF f
  <2> QED BY <2>1
<1>2. ASSUME NEW n \in 1 .. N, n - 1 \in T PROVE n \in T
  <2>1. PICK f : IsTwoTo(n - 1, f)
    BY <1>2
  <2> DEFINE g == [k \in 0 .. n |-> IF k = n THEN 2 * f[n - 1] ELSE f[k]]
  <2>2. \A k \in 0 .. n - 1 : f[k] = IF k = 0 THEN 1 ELSE 2 * f[k - 1]
    BY <2>1 DEF IsTwoTo
  <2>3. \A k \in 0 .. n : /\ k # n => k \in 0 .. n - 1 /\ g[k] = f[k]
                          /\ k # 0 => k - 1 \in 0 .. n /\ g[k - 1] = f[k - 1]
    OBVIOUS
  <2>4. n # 0 /\ n \in 0 .. n /\ g[n] = 2 * f[n - 1]
    OBVIOUS
  <2>5. g = [k \in 0 .. n |-> g[k]]
    OBVIOUS
  <2> HIDE DEF g
  <2>6. ASSUME NEW k \in 0 .. n PROVE g[k] = IF k = 0 THEN 1 ELSE 2 * g[k - 1]
    <3>1. CASE k = n
      BY <2>3, <2>4, <3>1
    <3>2. CASE k # n
      BY <2>2, <2>3, <3>2
    <3> QED BY <3>1, <3>2
  <2>7. IsTwoTo(n, g)
    BY <2>5, <2>6, Zenon DEF IsTwoTo
  <2> QED BY <2>7
<1> HIDE DEF T
<1>3. \A n \in 0 .. N : n \in T
  BY <1>1, <1>2, UpTo
<1>4. N \in T
  BY <1>3
<1> QED BY <1>4 DEF T

\* and only one,
LEMMA TwoToAgree ==
  ASSUME NEW N \in Nat, NEW M \in N .. N + 1, NEW f, NEW g, IsTwoTo(N, f), IsTwoTo(M, g)
  PROVE  f[N] = g[N]
<1> DEFINE T == {n \in 0 .. N : f[n] = g[n]}
<1>1. \A k \in 0 .. N : f[k] = IF k = 0 THEN 1 ELSE 2 * f[k - 1]
  BY DEF IsTwoTo
<1>2. \A k \in 0 .. M : g[k] = IF k = 0 THEN 1 ELSE 2 * g[k - 1]
  BY DEF IsTwoTo
<1>3. 0 \in T /\ \A n \in 1 .. N : n - 1 \in T => n \in T
  <2>1. 0 \in 0 .. N /\ 0 \in 0 .. M /\ f[0] = g[0]
    BY <1>1, <1>2
  <2>2. ASSUME NEW n \in 1 .. N, f[n - 1] = g[n - 1] PROVE f[n] = g[n]
    <3>1. n \in 0 .. N /\ n \in 0 .. M /\ n # 0
      OBVIOUS
    <3>2. f[n] = 2 * f[n - 1]
      BY <1>1, <3>1
    <3>3. g[n] = 2 * g[n - 1]
      BY <1>2, <3>1
    <3> QED BY <2>2, <3>2, <3>3
  <2>3. \A n \in 1 .. N : n \in 0 .. N
    OBVIOUS
  <2> QED BY <2>1, <2>2, <2>3
<1> HIDE DEF T
<1>4. \A n \in 0 .. N : n \in T
  BY <1>3, UpTo
<1>5. N \in T
  BY <1>4
<1> QED BY <1>5 DEF T

\* and that it is this.
LEMMA TwoToIs ==
  ASSUME NEW n \in Nat
  PROVE  \E f : IsTwoTo(n, f) /\ TwoTo(n) = f[n]
<1> DEFINE f == CHOOSE g : IsTwoTo(n, g)
<1>1. IsTwoTo(n, f)
  BY TwoToExists, Zenon
<1>2. TwoTo(n) = f[n]
  BY Zenon DEF TwoTo, IsTwoTo
<1> QED BY <1>1, <1>2

\* Hence the equations of the powers of two,
LEMMA TwoToStep ==
  ASSUME NEW n \in Nat
  PROVE  TwoTo(0) = 1 /\ TwoTo(n + 1) = 2 * TwoTo(n)
<1>1. TwoTo(0) = 1
  <2>1. PICK f : IsTwoTo(0, f) /\ TwoTo(0) = f[0]
    BY TwoToIs
  <2> QED BY <2>1 DEF IsTwoTo
<1>2. TwoTo(n + 1) = 2 * TwoTo(n)
  <2>0. n + 1 \in Nat /\ n + 1 \in n .. n + 1 /\ n + 1 \in 0 .. n + 1 /\ n + 1 # 0 /\ (n + 1) - 1 = n
    OBVIOUS
  <2>1. PICK f : IsTwoTo(n, f) /\ TwoTo(n) = f[n]
    BY TwoToIs
  <2>2. PICK g : IsTwoTo(n + 1, g) /\ TwoTo(n + 1) = g[n + 1]
    BY <2>0, TwoToIs
  <2>3. f[n] = g[n]
    BY <2>0, <2>1, <2>2, TwoToAgree
  <2>4. g[n + 1] = 2 * g[(n + 1) - 1]
    BY <2>0, <2>2 DEF IsTwoTo
  <2> QED BY <2>0, <2>1, <2>2, <2>3, <2>4
<1> QED BY <1>1, <1>2

\* their type,
LEMMA TwoToType ==
  ASSUME NEW n \in Nat
  PROVE  TwoTo(n) \in Nat \ {0} /\ TwoTo(n) \in Int /\ TwoTo(n) > 0
<1> DEFINE T == {k \in 0 .. n : TwoTo(k) \in Nat \ {0}}
<1>1. 0 \in T
  <2>1. TwoTo(0) = 1 /\ 0 \in 0 .. n
    BY TwoToStep
  <2> QED BY <2>1
<1>2. ASSUME NEW k \in 1 .. n, k - 1 \in T PROVE k \in T
  <2>1. k - 1 \in Nat /\ (k - 1) + 1 = k /\ k \in 0 .. n /\ TwoTo(k - 1) \in Nat \ {0}
    BY <1>2
  <2>2. TwoTo((k - 1) + 1) = 2 * TwoTo(k - 1)
    BY <2>1, TwoToStep
  <2>3. 2 * TwoTo(k - 1) \in Nat \ {0}
    BY <2>1
  <2> QED BY <2>1, <2>2, <2>3
<1> HIDE DEF T
<1>3. \A k \in 0 .. n : k \in T
  BY <1>1, <1>2, UpTo
<1>4. n \in T
  BY <1>3
<1>5. TwoTo(n) \in Nat \ {0}
  BY <1>4 DEF T
<1> QED BY <1>5

\* and the power of a sum.
LEMMA TwoToPlus ==
  ASSUME NEW a \in Nat, NEW b \in Nat
  PROVE  TwoTo(a + b) = TwoTo(a) * TwoTo(b)
<1> DEFINE T == {k \in 0 .. b : TwoTo(a + k) = TwoTo(a) * TwoTo(k)}
<1>0. TwoTo(a) \in Int
  BY TwoToType
<1>1. 0 \in T
  <2>1. TwoTo(0) = 1 /\ 0 \in 0 .. b /\ a + 0 = a
    BY TwoToStep
  <2>2. TwoTo(a) * 1 = TwoTo(a)
    BY <1>0
  <2> QED BY <2>1, <2>2
<1>2. ASSUME NEW k \in 1 .. b, k - 1 \in T PROVE k \in T
  <2> DEFINE i == k - 1
  <2>1. i \in Nat /\ i + 1 = k /\ k \in 0 .. b /\ a + i \in Nat /\ (a + i) + 1 = a + k
    OBVIOUS
  <2>2. TwoTo(a + i) = TwoTo(a) * TwoTo(i)
    BY <1>2
  <2> HIDE DEF i
  <2>3. TwoTo(i + 1) = 2 * TwoTo(i) /\ TwoTo((a + i) + 1) = 2 * TwoTo(a + i) /\ TwoTo(i) \in Int
    BY <2>1, TwoToStep, TwoToType
  <2>4. TwoTo(a + k) = 2 * (TwoTo(a) * TwoTo(i)) /\ TwoTo(k) = 2 * TwoTo(i)
    BY <2>1, <2>2, <2>3
  <2> DEFINE x == TwoTo(a)
             y == TwoTo(i)
  <2>5. x \in Int /\ y \in Int
    BY <1>0, <2>3
  <2> HIDE DEF x, y
  <2>6. 2 * (x * y) = x * (2 * y)
    BY <2>5
  <2>7. TwoTo(a + k) = TwoTo(a) * TwoTo(k)
    BY <2>4, <2>6 DEF x, y
  <2> QED BY <2>1, <2>7
<1> HIDE DEF T
<1>3. \A k \in 0 .. b : k \in T
  BY <1>1, <1>2, UpTo
<1>4. b \in T
  BY <1>3
<1> QED BY <1>4 DEF T

\* Division with remainder.
LEMMA DivIs ==
  ASSUME NEW n \in Int, NEW d \in Nat \ {0}
  PROVE  /\ n \div d \in Int /\ n % d \in Nat /\ n % d < d
         /\ n = d * (n \div d) + (n % d)
<1> QED OBVIOUS

\* Rounding moves a quotient by at most one half, and not past an integer.
LEMMA RoundedDivIs ==
  ASSUME NEW n \in Nat, NEW d \in Nat \ {0}
  PROVE  /\ RoundedDiv(n, d) \in Nat
         /\ 2 * n - d <= 2 * (RoundedDiv(n, d) * d)
         /\ 2 * (RoundedDiv(n, d) * d) <= 2 * n + d
         /\ \A c \in Nat : n < c * d => RoundedDiv(n, d) <= c
<1> DEFINE q == n \div d
           r == n % d
           m == RoundedDiv(n, d)
<1>1. q \in Int /\ r \in Nat /\ r < d /\ n = d * q + r
  BY DivIs
<1>2. /\ m = q \/ m = q + 1
      /\ m = q => 2 * r <= d
      /\ m = q + 1 => 2 * r >= d
  BY <1>1 DEF RoundedDiv
<1> HIDE DEF q, r, m
<1>3. q \in Nat
  <2>1. ASSUME q <= -1 PROVE FALSE
    <3>1. d * q <= -d
      BY <1>1, <2>1
    <3> QED BY <1>1, <3>1
  <2> QED BY <1>1, <2>1
<1> DEFINE x == d * q
<1>4. x \in Int /\ n = x + r /\ q * d = x /\ (q + 1) * d = x + d
  BY <1>1, <1>3
<1> HIDE DEF x
<1>5. 2 * n - d <= 2 * (m * d) /\ 2 * (m * d) <= 2 * n + d
  <2>1. CASE m = q
    <3>1. 2 * n - d <= 2 * x /\ 2 * x <= 2 * n + d
      BY <1>1, <1>2, <1>4, <2>1
    <3> QED BY <1>4, <2>1, <3>1
  <2>2. CASE m = q + 1
    <3>1. 2 * n - d <= 2 * (x + d) /\ 2 * (x + d) <= 2 * n + d
      BY <1>1, <1>2, <1>4, <2>2
    <3> QED BY <1>4, <2>2, <3>1
  <2> QED BY <1>2, <2>1, <2>2
<1>6. ASSUME NEW c \in Nat, n < c * d PROVE m <= c
  <2>1. q < c
    <3>1. ASSUME c <= q PROVE FALSE
      <4>1. c * d <= q * d
        BY <1>3, <3>1
      <4>2. c * d \in Int
        OBVIOUS
      <4> DEFINE y == c * d
      <4> HIDE DEF y
      <4> QED BY <1>1, <1>4, <1>6, <4>1, <4>2 DEF y
    <3> QED BY <1>3, <3>1
  <2> QED BY <1>2, <1>3, <2>1
<1>7. m \in Nat
  BY <1>2, <1>3
<1> QED BY <1>5, <1>6, <1>7 DEF m

\* The significands of a float.
LEMMA PrecisionIs ==
  /\ Precision \in Nat \ {0} /\ Precision - 1 \in Nat /\ 2 * Precision \in Nat
  /\ TwoTo(Precision) = 2 * TwoTo(Precision - 1)
  /\ TwoTo(2 * Precision) = TwoTo(Precision) * TwoTo(Precision)
  /\ TwoTo(Precision) \in Nat \ {0} /\ TwoTo(Precision - 1) \in Nat \ {0}
<1>1. Precision \in Nat \ {0} /\ Precision - 1 \in Nat /\ 2 * Precision \in Nat
      /\ (Precision - 1) + 1 = Precision /\ Precision + Precision = 2 * Precision
  BY PrecisionAssumption
<1>2. TwoTo((Precision - 1) + 1) = 2 * TwoTo(Precision - 1)
  BY <1>1, TwoToStep
<1>3. TwoTo(Precision + Precision) = TwoTo(Precision) * TwoTo(Precision)
  BY <1>1, TwoToPlus
<1>4. TwoTo(Precision) \in Nat \ {0} /\ TwoTo(Precision - 1) \in Nat \ {0}
  BY <1>1, TwoToType
<1> QED BY <1>1, <1>2, <1>3, <1>4

\* Multiplying keeps the order.
LEMMA TimesOrder ==
  ASSUME NEW a \in Int, NEW b \in Int, NEW c \in Nat \ {0}
  PROVE  /\ a * c \in Int /\ b * c \in Int
         /\ a <= b => a * c <= b * c
         /\ a < b => a * c < b * c
         /\ a * c <= b * c => a <= b
         /\ a * c < b * c => a < b
<1>1. a * c \in Int /\ b * c \in Int
  OBVIOUS
<1>2. ASSUME a <= b PROVE a * c <= b * c
  BY <1>2
<1>3. ASSUME a < b PROVE a * c < b * c
  BY <1>3
<1>4. ASSUME b <= a PROVE b * c <= a * c
  BY <1>4
<1>5. ASSUME b < a PROVE b * c < a * c
  BY <1>5
<1> QED BY <1>1, <1>2, <1>3, <1>4, <1>5

\* A quotient is off by at most half a unit of its last place,
LEMMA FloatDivIs ==
  ASSUME NEW a \in Nat \ {0}, NEW b \in Nat \ {0}, a < TwoTo(Precision), b <= TwoTo(Precision)
  PROVE  \E m \in Nat, e \in 0 .. 2 * Precision :
           /\ FloatDiv(a, b) = << m, e >>
           /\ TwoTo(e) \in Nat \ {0}
           /\ m <= TwoTo(Precision)
           /\ b * TwoTo(Precision - 1) <= a * TwoTo(e)
           /\ 2 * (a * TwoTo(e)) - b <= 2 * (m * b) /\ 2 * (m * b) <= 2 * (a * TwoTo(e)) + b
<1> DEFINE Q == TwoTo(Precision - 1)
           P == TwoTo(Precision)
           Right(e) == a * TwoTo(e) >= b * Q /\ a * TwoTo(e) < b * P
           S == {e \in 0 .. 2 * Precision : b * Q <= a * TwoTo(e)}
           e == CHOOSE x \in 0 .. 2 * Precision : Right(x)
           m == RoundedDiv(a * TwoTo(e), b)
<1>1. /\ Precision \in Nat \ {0} /\ 2 * Precision \in Nat
      /\ P = 2 * Q /\ TwoTo(2 * Precision) = P * P /\ P \in Nat \ {0} /\ Q \in Nat \ {0}
      /\ a < P /\ b <= P
  BY PrecisionIs
<1>2. \A x \in 0 .. 2 * Precision : TwoTo(x) \in Nat \ {0} /\ a * TwoTo(x) \in Nat
  <2>1. ASSUME NEW x \in 0 .. 2 * Precision PROVE TwoTo(x) \in Nat \ {0}
    BY <1>1, TwoToType
  <2> QED BY <2>1
<1>3. b * Q \in Nat /\ b * P \in Nat /\ b * P = 2 * (b * Q) /\ P <= b * P
  <2>1. b * Q \in Nat /\ b * P \in Nat /\ b * P = 2 * (b * Q)
    <3> HIDE DEF P, Q
    <3> QED BY <1>1
  <2>2. P <= b * P
    <3> HIDE DEF P, Q
    <3>1. 1 * P <= b * P
      BY <1>1, TimesOrder
    <3> QED BY <1>1, <3>1
  <2> QED BY <2>1, <2>2
<1>4. 2 * Precision \in S
  <2>1. b * Q <= P * Q
    <3> HIDE DEF P, Q
    <3> QED BY <1>1, TimesOrder
  <2>2. P * Q <= P * P
    <3> HIDE DEF P, Q
    <3> QED BY <1>1
  <2>3. 1 * (P * P) <= a * (P * P)
    <3> DEFINE PP == P * P
    <3>1. PP \in Nat \ {0}
      <4> HIDE DEF P
      <4> QED BY <1>1
    <3> HIDE DEF PP
    <3>2. 1 * PP <= a * PP
      BY <3>1, TimesOrder
    <3> QED BY <3>2 DEF PP
  <2>4. P * P \in Int /\ P * Q \in Int /\ a * (P * P) \in Int
    <3> HIDE DEF P, Q
    <3> QED BY <1>1
  <2>5. b * Q <= a * (P * P)
    <3> DEFINE x == P * P
               y == P * Q
               z == a * x
               w == b * Q
    <3>1. w <= y /\ y <= x /\ 1 * x <= z /\ x \in Int /\ y \in Int /\ z \in Int /\ w \in Int
      BY <1>3, <2>1, <2>2, <2>3, <2>4
    <3> HIDE DEF x, y, z, w
    <3>2. w <= z
      BY <3>1
    <3> QED BY <3>2 DEF w, z, x
  <2> HIDE DEF Q, P
  <2>6. b * Q <= a * TwoTo(2 * Precision)
    BY <1>1, <2>5
  <2> QED BY <1>1, <2>6 DEF S
<1>5. PICK least \in S : \A x \in S : least <= x
  <2>1. S \subseteq Nat /\ S # {}
    BY <1>4
  <2> HIDE DEF S
  <2> QED BY <2>1, LeastElement
<1>6. Right(least)
  <2>1. least \in 0 .. 2 * Precision /\ b * Q <= a * TwoTo(least)
    BY <1>5
  <2>2. a * TwoTo(least) < b * P
    <3>1. CASE least = 0
      <4>1. TwoTo(0) = 1
        BY TwoToStep
      <4>2. a * 1 < b * P
        <5> HIDE DEF P, Q
        <5> QED BY <1>1, <1>3
      <4> QED BY <3>1, <4>1, <4>2
    <3>2. CASE least # 0
      <4> DEFINE x == least - 1
                 t == TwoTo(x)
      <4>1. x \in Nat /\ x + 1 = least /\ x \in 0 .. 2 * Precision /\ x < least
        BY <1>1, <2>1, <3>2
      <4>2. x \notin S
        <5> HIDE DEF S, x
        <5>1. least \in Nat
          BY <1>1, <2>1
        <5> QED BY <1>5, <4>1, <5>1
      <4>3. ~(b * Q <= a * t)
        BY <4>1, <4>2
      <4> HIDE DEF x
      <4>4. TwoTo(x + 1) = 2 * t /\ t \in Nat \ {0}
        BY <4>1, TwoToStep, TwoToType
      <4>5. a * TwoTo(least) = 2 * (a * t) /\ a * t \in Nat
        <5>1. TwoTo(least) = 2 * t
          BY <4>1, <4>4
        <5> HIDE DEF t
        <5>2. a * (2 * t) = 2 * (a * t) /\ a * t \in Nat
          BY <4>4
        <5> QED BY <5>1, <5>2
      <4> DEFINE u == a * t
                 v == b * Q
                 w == b * P
                 y == a * TwoTo(least)
      <4>6. ~(v <= u) /\ y = 2 * u /\ u \in Nat /\ v \in Nat /\ w = 2 * v
        BY <1>3, <4>3, <4>5
      <4> HIDE DEF u, v, w, y
      <4>7. y < w
        BY <4>6
      <4> QED BY <4>7 DEF y, w
    <3> QED BY <3>1, <3>2
  <2> QED BY <2>1, <2>2
<1>7. e \in 0 .. 2 * Precision /\ Right(e)
  <2>1. least \in 0 .. 2 * Precision
    BY <1>5
  <2>2. \E x \in 0 .. 2 * Precision : Right(x)
    BY <1>6, <2>1
  <2> HIDE DEF Right
  <2> QED BY <2>2
<1>8. FloatDiv(a, b) = << m, e >>
  BY DEF FloatDiv
<1> HIDE DEF e
<1>9. a * TwoTo(e) \in Nat /\ b * Q <= a * TwoTo(e) /\ a * TwoTo(e) < b * P /\ b * P = P * b /\ TwoTo(e) \in Nat \ {0}
  <2>1. b * P = P * b
    <3> HIDE DEF P, Q
    <3> QED BY <1>1
  <2> QED BY <1>2, <1>7, <2>1
<1> DEFINE n == a * TwoTo(e)
<1> HIDE DEF P, Q
<1>10. n \in Nat /\ n < P * b
  BY <1>9
<1> HIDE DEF n
<1>11. /\ RoundedDiv(n, b) \in Nat
       /\ 2 * n - b <= 2 * (RoundedDiv(n, b) * b)
       /\ 2 * (RoundedDiv(n, b) * b) <= 2 * n + b
       /\ RoundedDiv(n, b) <= P
  BY <1>1, <1>10, RoundedDivIs
<1>12. m \in Nat /\ m <= P /\ 2 * n - b <= 2 * (m * b) /\ 2 * (m * b) <= 2 * n + b
  BY <1>11 DEF n
<1> HIDE DEF m
<1> QED BY <1>7, <1>8, <1>9, <1>12 DEF n, P, Q

\* and so is a product.
LEMMA FloatMulIs ==
  ASSUME NEW m \in Nat, NEW e \in Int, NEW n \in Nat, m * n < TwoTo(2 * Precision)
  PROVE  \E p \in Nat, s \in 0 .. Precision :
           /\ FloatMul(<< m, e >>, n) = << p, e - s >>
           /\ TwoTo(s) \in Nat \ {0}
           /\ p <= TwoTo(Precision) /\ p = RoundedDiv(m * n, TwoTo(s))
           /\ m * n < TwoTo(Precision) * TwoTo(s)
           /\ s > 0 => TwoTo(Precision) * TwoTo(s) <= 2 * (m * n)
           /\ 2 * (m * n) - TwoTo(s) <= 2 * (p * TwoTo(s))
           /\ 2 * (p * TwoTo(s)) <= 2 * (m * n) + TwoTo(s)
<1> DEFINE k == m * n
           Right(s) == k < TwoTo(Precision + s) /\ (s > 0 => k >= TwoTo(Precision + s - 1))
           S == {s \in 0 .. Precision : k < TwoTo(Precision + s)}
           s == CHOOSE x \in 0 .. Precision : Right(x)
           p == RoundedDiv(k, TwoTo(s))
           P == TwoTo(Precision)
<1>1. Precision \in Nat \ {0} /\ Precision + Precision = 2 * Precision /\ P \in Nat \ {0}
  BY PrecisionIs
<1>2. k \in Nat /\ k < TwoTo(2 * Precision)
  OBVIOUS
<1>3. Precision \in S
  BY <1>1, <1>2
<1> HIDE DEF k
<1>4. PICK least \in S : \A x \in S : least <= x
  <2>1. S \subseteq Nat /\ S # {}
    BY <1>3
  <2> HIDE DEF S
  <2> QED BY <2>1, LeastElement
<1>5. Right(least)
  <2>1. least \in 0 .. Precision /\ k < TwoTo(Precision + least)
    BY <1>4
  <2>2. ASSUME least > 0 PROVE k >= TwoTo(Precision + least - 1)
    <3> DEFINE x == least - 1
    <3>1. x \in Nat /\ x \in 0 .. Precision /\ x < least /\ Precision + least - 1 = Precision + x
          /\ Precision + x \in Nat /\ least \in Nat
      BY <1>1, <2>1, <2>2
    <3> HIDE DEF x
    <3>2. x \notin S
      <4> HIDE DEF S
      <4> QED BY <1>4, <3>1
    <3>3. ~(k < TwoTo(Precision + x))
      BY <3>1, <3>2
    <3>4. TwoTo(Precision + x) \in Nat
      BY <3>1, TwoToType
    <3> QED BY <1>2, <3>1, <3>3, <3>4
  <2> QED BY <2>1, <2>2
<1>6. s \in 0 .. Precision /\ Right(s)
  <2>1. least \in 0 .. Precision
    BY <1>4
  <2>2. \E x \in 0 .. Precision : Right(x)
    BY <1>5, <2>1
  <2> HIDE DEF Right
  <2> QED BY <2>2
<1>7. FloatMul(<< m, e >>, n) = << p, e - s >>
  BY DEF FloatMul, k
<1> HIDE DEF s
<1>8. s \in Nat /\ TwoTo(s) \in Nat \ {0} /\ TwoTo(Precision + s) = P * TwoTo(s)
  <2>1. s \in Nat
    BY <1>1, <1>6
  <2> QED BY <1>1, <2>1, TwoToType, TwoToPlus
<1>9. s > 0 => P * TwoTo(s) <= 2 * k
  <2> SUFFICES ASSUME s > 0 PROVE P * TwoTo(s) <= 2 * k
    OBVIOUS
  <2> DEFINE x == Precision + s - 1
  <2>1. x \in Nat /\ x + 1 = Precision + s
    BY <1>1, <1>8
  <2>2. k >= TwoTo(x)
    BY <1>6
  <2> HIDE DEF x
  <2>3. TwoTo(x + 1) = 2 * TwoTo(x) /\ TwoTo(x) \in Nat
    BY <2>1, TwoToStep, TwoToType
  <2>4. 2 * TwoTo(x) = P * TwoTo(s)
    BY <1>8, <2>1, <2>3
  <2>5. 2 * TwoTo(x) <= 2 * k
    BY <1>2, <2>2, <2>3
  <2> QED BY <2>4, <2>5
<1> DEFINE t == TwoTo(s)
<1>10. t \in Nat \ {0} /\ k < P * t
  BY <1>6, <1>8
<1> HIDE DEF t, P
<1>11. /\ RoundedDiv(k, t) \in Nat
       /\ 2 * k - t <= 2 * (RoundedDiv(k, t) * t)
       /\ 2 * (RoundedDiv(k, t) * t) <= 2 * k + t
       /\ RoundedDiv(k, t) <= P
  BY <1>1, <1>2, <1>10, RoundedDivIs
<1>12. p \in Nat /\ 2 * k - t <= 2 * (p * t) /\ 2 * (p * t) <= 2 * k + t /\ p <= P
       /\ p = RoundedDiv(k, t)
  BY <1>11 DEF t
<1> HIDE DEF p
<1> QED BY <1>6, <1>7, <1>8, <1>9, <1>10, <1>12 DEF t, P, k

-------------------------------------------------------------------------------
\* The slices of a matrix.

\* A float p 2^s / 2^e between the numbers it is rounded to.
Between(p, s, e, low, high) ==
  /\ low \in Nat /\ high \in Nat /\ low <= high
  /\ low * TwoTo(e) <= p * TwoTo(s) /\ p * TwoTo(s) < (low + 1) * TwoTo(e)
  /\ (high - 1) * TwoTo(e) < p * TwoTo(s) /\ p * TwoTo(s) <= high * TwoTo(e)

\* The floor and the ceiling of a float.
LEMMA RoundingIs ==
  ASSUME NEW p \in Nat, NEW s \in Nat, NEW e \in Nat
  PROVE  Between(p, s, e, Floor(<< p, e - s >>), Ceil(<< p, e - s >>))
<1> DEFINE f == << p, e - s >>
           A == TwoTo(s)
           B == TwoTo(e)
<1>1. A \in Nat \ {0} /\ B \in Nat \ {0}
  BY TwoToType
<1>2. CASE e < s
  <2> DEFINE t == TwoTo(s - e)
             x == p * t
  <2>1. s - e \in Nat /\ e + (s - e) = s /\ -(e - s) = s - e /\ e - s < 0
    BY <1>2
  <2>2. A = B * t /\ t \in Nat \ {0}
    BY <2>1, TwoToPlus, TwoToType
  <2>3. Floor(f) = x /\ Ceil(f) = x
    <3>1. f[1] = p /\ f[2] = e - s /\ -f[2] = s - e /\ f[2] < 0
      BY <2>1
    <3> HIDE DEF f
    <3> QED BY <3>1 DEF Floor, Ceil
  <2> HIDE DEF A, B, t
  <2>4. x \in Nat /\ x * B = p * A
    BY <1>1, <2>2
  <2> HIDE DEF x
  <2>5. (x - 1) * B < x * B /\ x * B < (x + 1) * B /\ x * B \in Int
    BY <1>1, <2>4
  <2>6. Between(p, s, e, x, x)
    BY <1>1, <2>4, <2>5 DEF Between, A, B
  <2> QED BY <2>3, <2>6
<1>3. CASE e >= s
  <2> DEFINE t == TwoTo(e - s)
             F == p \div t
             q == (-p) \div t
             C == -q
  <2>1. e - s \in Nat /\ s + (e - s) = e /\ ~(e - s < 0)
    BY <1>3
  <2>2. B = A * t /\ t \in Nat \ {0}
    BY <2>1, TwoToPlus, TwoToType
  <2>3. Floor(f) = F /\ Ceil(f) = C
    <3>1. f[1] = p /\ f[2] = e - s /\ ~(f[2] < 0)
      BY <2>1
    <3> HIDE DEF f
    <3> QED BY <3>1 DEF Floor, Ceil
  <2> HIDE DEF A, B, t
  <2>4. F \in Int /\ p % t \in Nat /\ p % t < t /\ p = t * F + (p % t)
    BY <2>2, DivIs
  <2>5. q \in Int /\ (-p) % t \in Nat /\ (-p) % t < t /\ -p = t * q + ((-p) % t)
    <3>1. -p \in Int
      OBVIOUS
    <3> QED BY <2>2, <3>1, DivIs
  <2> HIDE DEF F, q
  <2>6. F * t <= p /\ p < (F + 1) * t /\ F \in Int /\ F * t \in Int /\ (F + 1) * t \in Int
    <3> DEFINE x == t * F
    <3>1. x \in Int /\ F * t = x /\ (F + 1) * t = x + t
      BY <2>2, <2>4
    <3> HIDE DEF x
    <3>2. p = x + (p % t)
      BY <2>4 DEF x
    <3> QED BY <2>2, <2>4, <3>1, <3>2
  <2>7. (C - 1) * t < p /\ p <= C * t /\ C \in Int /\ C * t \in Int /\ (C - 1) * t \in Int
    <3> DEFINE x == t * q
    <3>1. x \in Int /\ C * t = -x /\ (C - 1) * t = (-x) - t
      BY <2>2, <2>5
    <3> HIDE DEF x, C
    <3>2. -p = x + ((-p) % t)
      BY <2>5 DEF x
    <3>3. C \in Int
      BY <2>5 DEF C
    <3> QED BY <2>2, <2>5, <3>1, <3>2, <3>3
  <2> HIDE DEF C
  <2>8. F \in Nat /\ C \in Nat /\ F <= C
    <3>1. (F + 1) > 0
      <4>1. ASSUME F + 1 <= 0 PROVE FALSE
        <5>1. (F + 1) * t <= 0
          BY <2>2, <2>6, <4>1
        <5> QED BY <2>6, <5>1
      <4> QED BY <2>6, <4>1
    <3>2. F <= C
      <4>1. F * t <= C * t
        BY <2>6, <2>7
      <4> QED BY <2>2, <2>6, <2>7, <4>1, TimesOrder
    <3> QED BY <2>6, <2>7, <3>1, <3>2
  <2>9. /\ (F * t) * A <= p * A /\ p * A < ((F + 1) * t) * A
        /\ ((C - 1) * t) * A < p * A /\ p * A <= (C * t) * A
    <3> DEFINE a == F * t
               b == (F + 1) * t
               c == (C - 1) * t
               d == C * t
    <3>1. a \in Int /\ b \in Int /\ c \in Int /\ d \in Int /\ a <= p /\ p < b /\ c < p /\ p <= d /\ p \in Int
      BY <2>6, <2>7
    <3> HIDE DEF a, b, c, d
    <3>2. a * A <= p * A /\ p * A < b * A
      BY <1>1, <3>1, TimesOrder
    <3>3. c * A < p * A /\ p * A <= d * A
      BY <1>1, <3>1, TimesOrder
    <3> QED BY <3>2, <3>3 DEF a, b, c, d
  <2>10. /\ (F * t) * A = F * B /\ ((F + 1) * t) * A = (F + 1) * B
         /\ ((C - 1) * t) * A = (C - 1) * B /\ (C * t) * A = C * B
    <3>1. ASSUME NEW z \in Int PROVE (z * t) * A = z * B
      BY <1>1, <2>2
    <3>2. F \in Int /\ F + 1 \in Int /\ C \in Int /\ C - 1 \in Int
      BY <2>8
    <3> QED BY <3>1, <3>2
  <2>11. Between(p, s, e, F, C)
    <3>1. /\ F * B <= p * A /\ p * A < (F + 1) * B
          /\ (C - 1) * B < p * A /\ p * A <= C * B
      BY <2>9, <2>10
    <3> QED BY <2>8, <3>1 DEF Between, A, B
  <2> QED BY <2>3, <2>11
<1> QED BY <1>2, <1>3

\* Sizes a float holds exactly, with two bits to spare.
Precise(size, fraction) ==
  /\ size \in Nat \ {0} /\ 4 * size <= TwoTo(Precision)
  /\ fraction \in Nat \ {0} /\ fraction < TwoTo(Precision)

\* Where the slices of a matrix begin and end.
LEMMA SliceIs ==
  ASSUME NEW size, NEW fraction, Precise(size, fraction)
  PROVE  /\ \A n \in 1 .. fraction :
              /\ SliceStart(size, n, fraction) \in Nat /\ SliceEnd(size, n, fraction) \in Nat
              /\ n < fraction => SliceStart(size, n + 1, fraction) <= SliceEnd(size, n, fraction)
         /\ SliceStart(size, 1, fraction) = 0
         /\ size <= SliceEnd(size, fraction, fraction)
<1> DEFINE P == TwoTo(Precision)
           Q == TwoTo(Precision - 1)
<1>1. /\ size \in Nat \ {0} /\ fraction \in Nat \ {0} /\ 4 * size <= P /\ fraction < P
      /\ P \in Nat \ {0} /\ Q \in Nat \ {0} /\ P = 2 * Q /\ TwoTo(2 * Precision) = P * P
      /\ 2 * Precision \in Nat /\ Precision \in Nat
  BY PrecisionIs DEF Precise
<1>2. PICK m \in Nat, e \in 0 .. 2 * Precision :
           /\ FloatDiv(size, fraction) = << m, e >>
           /\ TwoTo(e) \in Nat \ {0}
           /\ m <= TwoTo(Precision)
           /\ fraction * TwoTo(Precision - 1) <= size * TwoTo(e)
           /\ 2 * (size * TwoTo(e)) - fraction <= 2 * (m * fraction)
           /\ 2 * (m * fraction) <= 2 * (size * TwoTo(e)) + fraction
  <2>1. size < P /\ fraction <= P
    <3> HIDE DEF P
    <3> QED BY <1>1
  <2> QED BY <1>1, <2>1, FloatDivIs
<1> DEFINE E == TwoTo(e)
           D == FloatDiv(size, fraction)
<1>3. D = << m, e >> /\ e \in Nat /\ e \in Int /\ m <= P /\ E \in Nat \ {0}
  BY <1>1, <1>2
<1> HIDE DEF D
<1>4. ASSUME NEW n \in 0 .. fraction
      PROVE  \E p \in Nat, s \in 0 .. Precision :
               /\ FloatMul(D, n) = << p, e - s >>
               /\ TwoTo(s) \in Nat \ {0}
               /\ s > 0 => P * TwoTo(s) <= 2 * (m * n)
               /\ 2 * (m * n) - TwoTo(s) <= 2 * (p * TwoTo(s))
               /\ Between(p, s, e, Floor(FloatMul(D, n)), Ceil(FloatMul(D, n)))
               /\ n = 0 => p * TwoTo(s) = 0
  <2>1. n \in Nat /\ n <= fraction /\ n < P
    <3> HIDE DEF P
    <3> QED BY <1>1
  <2>2. m * n < TwoTo(2 * Precision)
    <3> HIDE DEF P
    <3>1. m * n <= P * n
      BY <1>1, <1>3, <2>1
    <3>2. P * n < P * P
      BY <1>1, <2>1
    <3>3. m * n \in Int /\ P * n \in Int /\ P * P \in Int
      BY <1>1, <2>1
    <3> DEFINE x == m * n
               y == P * n
               z == P * P
    <3>4. x <= y /\ y < z /\ x \in Int /\ y \in Int /\ z \in Int
      BY <3>1, <3>2, <3>3
    <3> HIDE DEF x, y, z
    <3>5. x < z
      BY <3>4
    <3> QED BY <1>1, <3>5 DEF x, z
  <2>3. PICK p \in Nat, s \in 0 .. Precision :
           /\ FloatMul(<< m, e >>, n) = << p, e - s >>
           /\ TwoTo(s) \in Nat \ {0}
           /\ p <= TwoTo(Precision)
           /\ m * n < TwoTo(Precision) * TwoTo(s)
           /\ s > 0 => TwoTo(Precision) * TwoTo(s) <= 2 * (m * n)
           /\ 2 * (m * n) - TwoTo(s) <= 2 * (p * TwoTo(s))
           /\ 2 * (p * TwoTo(s)) <= 2 * (m * n) + TwoTo(s)
    BY <1>3, <2>1, <2>2, FloatMulIs
  <2>4. FloatMul(D, n) = << p, e - s >>
    BY <1>3, <2>3
  <2>5. s \in Nat
    BY <1>1
  <2>6. Between(p, s, e, Floor(FloatMul(D, n)), Ceil(FloatMul(D, n)))
    BY <1>3, <2>4, <2>5, RoundingIs
  <2>7. n = 0 => p * TwoTo(s) = 0
    <3> SUFFICES ASSUME n = 0 PROVE p * TwoTo(s) = 0
      OBVIOUS
    <3>1. m * n = 0
      BY <1>2
    <3>2. s = 0
      <4> SUFFICES ASSUME s > 0 PROVE FALSE
        BY <2>5
      <4>1. P * TwoTo(s) <= 2 * 0
        BY <2>3, <3>1
      <4> DEFINE t == TwoTo(s)
      <4>2. t \in Nat \ {0}
        BY <2>3
      <4> HIDE DEF t, P
      <4>3. P * t > 0
        BY <1>1, <4>2
      <4> QED BY <1>1, <4>1, <4>2, <4>3 DEF t
    <3>3. TwoTo(s) = 1
      BY <3>2, TwoToStep
    <3>4. 2 * (p * 1) <= 2 * 0 + 1
      BY <2>3, <3>1, <3>3
    <3>5. p = 0
      BY <3>4
    <3> QED BY <3>3, <3>5
  <2> QED BY <2>3, <2>4, <2>6, <2>7
<1>5. ASSUME NEW n \in 0 .. fraction
      PROVE  /\ Floor(FloatMul(D, n)) \in Nat /\ Ceil(FloatMul(D, n)) \in Nat
             /\ Floor(FloatMul(D, n)) <= Ceil(FloatMul(D, n))
  BY <1>4 DEF Between
<1>6. ASSUME NEW n \in 1 .. fraction
      PROVE  /\ SliceStart(size, n, fraction) = Floor(FloatMul(D, n - 1))
             /\ SliceEnd(size, n, fraction) = Ceil(FloatMul(D, n))
             /\ n < fraction => SliceStart(size, n + 1, fraction) = Floor(FloatMul(D, n))
             /\ n \in 0 .. fraction /\ n - 1 \in 0 .. fraction
  <2>1. (n + 1) - 1 = n /\ n \in 0 .. fraction /\ n - 1 \in 0 .. fraction
    BY <1>1
  <2>2. \A k : /\ SliceStart(size, k, fraction) = Floor(FloatMul(D, k - 1))
               /\ SliceEnd(size, k, fraction) = Ceil(FloatMul(D, k))
    BY DEF SliceStart, SliceEnd, D
  <2>3. SliceStart(size, n + 1, fraction) = Floor(FloatMul(D, (n + 1) - 1))
    BY <2>2
  <2> QED BY <2>1, <2>2, <2>3
<1>7. SliceStart(size, 1, fraction) = 0
  <2>1. 1 \in 1 .. fraction /\ 1 - 1 = 0 /\ 0 \in 0 .. fraction
    BY <1>1
  <2>2. SliceStart(size, 1, fraction) = Floor(FloatMul(D, 0))
    BY <1>6, <2>1
  <2> DEFINE F == Floor(FloatMul(D, 0))
  <2>3. F \in Nat /\ F * E <= 0
    <3>1. PICK p \in Nat, s \in 0 .. Precision :
               /\ Between(p, s, e, Floor(FloatMul(D, 0)), Ceil(FloatMul(D, 0)))
               /\ 0 = 0 => p * TwoTo(s) = 0
      BY <1>4, <2>1
    <3> QED BY <3>1 DEF Between
  <2> HIDE DEF F, E
  <2>4. F = 0
    <3>1. ASSUME F >= 1 PROVE FALSE
      <4>1. F * E >= 1
        BY <1>3, <2>3, <3>1
      <4>2. F * E \in Int
        BY <1>3, <2>3
      <4> QED BY <2>3, <4>1, <4>2
    <3> QED BY <2>3, <3>1
  <2> QED BY <2>2, <2>4 DEF F
<1>8. size <= SliceEnd(size, fraction, fraction)
  <2>1. fraction \in 1 .. fraction /\ fraction \in 0 .. fraction
    BY <1>1
  <2>2. SliceEnd(size, fraction, fraction) = Ceil(FloatMul(D, fraction))
    BY <1>6, <2>1
  <2> DEFINE C == Ceil(FloatMul(D, fraction))
             sE == size * E
             mf == m * fraction
  <2>3. PICK p \in Nat, s \in 0 .. Precision :
               /\ TwoTo(s) \in Nat \ {0}
               /\ s > 0 => P * TwoTo(s) <= 2 * (m * fraction)
               /\ 2 * (m * fraction) - TwoTo(s) <= 2 * (p * TwoTo(s))
               /\ Between(p, s, e, Floor(FloatMul(D, fraction)), Ceil(FloatMul(D, fraction)))
    BY <1>4, <2>1
  <2> DEFINE t == TwoTo(s)
             v == p * t
  <2>4. /\ C \in Nat /\ v <= C * E /\ t \in Nat \ {0} /\ v \in Nat
        /\ s > 0 => P * t <= 2 * mf
        /\ 2 * mf - t <= 2 * v
    <3>1. v \in Nat
      BY <2>3
    <3> QED BY <2>3, <3>1 DEF Between
  <2>5. /\ fraction * Q <= sE /\ 2 * sE - fraction <= 2 * mf /\ 2 * mf <= 2 * sE + fraction
        /\ sE \in Nat /\ mf \in Nat
    <3>1. /\ fraction * Q <= sE /\ 2 * sE - fraction <= 2 * mf /\ 2 * mf <= 2 * sE + fraction
      BY <1>2
    <3>2. sE \in Nat /\ mf \in Nat
      <4> HIDE DEF E
      <4> QED BY <1>1, <1>3
    <3> QED BY <3>1, <3>2
  <2>6. s = 0 => t = 1
    BY TwoToStep
  <2>s. s \in Nat
    BY <1>1
  <2> HIDE DEF C, E, t, v, sE, mf, P, Q
  <2>7. 2 * sE - fraction - t <= 2 * v
    BY <1>1, <2>4, <2>5
  \* The error is less than one cell.
  <2>8. fraction + t < 2 * E
    <3>1. 2 * (size * fraction) <= sE
      <4>1. 2 * size <= Q
        BY <1>1
      <4>2. (2 * size) * fraction <= Q * fraction
        BY <1>1, <4>1, TimesOrder
      <4>3. (2 * size) * fraction = 2 * (size * fraction) /\ Q * fraction = fraction * Q
            /\ fraction * Q \in Int /\ size * fraction \in Int
        BY <1>1
      <4> QED BY <2>5, <4>2, <4>3
    <3>2. 2 * fraction <= E
      <4>1. 2 * (size * fraction) = (2 * fraction) * size /\ sE = E * size /\ 2 * fraction \in Int
        BY <1>1, <1>3 DEF sE
      <4> DEFINE f == 2 * fraction
      <4>2. f * size <= E * size /\ f \in Int
        BY <3>1, <4>1
      <4> HIDE DEF f
      <4>3. f <= E
        BY <1>1, <1>3, <4>2, TimesOrder
      <4> QED BY <4>3 DEF f
    <3>3. CASE s = 0
      <4>1. t = 1 /\ fraction >= 1
        BY <1>1, <2>6, <3>3
      <4> QED BY <1>1, <1>3, <3>2, <4>1
    <3>4. CASE s > 0
      <4>1. P * t <= 2 * mf
        BY <2>4, <3>4
      <4>2. 4 * (size * t) <= P * t
        <5>1. (4 * size) * t <= P * t
          BY <1>1, <2>4, TimesOrder
        <5>2. (4 * size) * t = 4 * (size * t)
          BY <1>1, <2>4
        <5> QED BY <5>1, <5>2
      <4>3. fraction <= sE
        <5>1. fraction <= size * fraction /\ size * fraction \in Nat
          <6>1. 1 * fraction <= size * fraction
            BY <1>1, TimesOrder
          <6> QED BY <1>1, <6>1
        <5> QED BY <1>1, <2>5, <3>1, <5>1
      <4>4. 4 * (size * t) <= 3 * sE
        <5> DEFINE x == size * t
                   y == P * t
        <5>1. x \in Int /\ y \in Int /\ 4 * x <= y /\ y <= 2 * mf
          BY <1>1, <2>4, <4>1, <4>2
        <5> HIDE DEF x, y
        <5>2. 4 * x <= 3 * sE
          BY <1>1, <2>5, <4>3, <5>1
        <5> QED BY <5>2 DEF x
      <4>5. 4 * t <= 3 * E
        <5>1. 4 * (size * t) = (4 * t) * size /\ 3 * sE = (3 * E) * size
          BY <1>1, <1>3, <2>4 DEF sE
        <5> DEFINE x == 4 * t
                   y == 3 * E
        <5>2. x * size <= y * size /\ x \in Int /\ y \in Int
          BY <1>3, <2>4, <4>4, <5>1
        <5> HIDE DEF x, y
        <5>3. x <= y
          BY <1>1, <5>2, TimesOrder
        <5> QED BY <5>3 DEF x, y
      <4> QED BY <1>1, <1>3, <2>4, <3>2, <4>5
    <3> QED BY <2>s, <3>3, <3>4
  <2>9. size <= C
    <3> SUFFICES ASSUME C < size PROVE FALSE
      BY <1>1, <2>4
    <3>1. (C + 1) * E <= size * E
      <4>1. C + 1 <= size /\ C + 1 \in Int
        BY <1>1, <2>4
      <4> QED BY <1>1, <1>3, <4>1, TimesOrder
    <3>2. (C + 1) * E = C * E + E /\ C * E \in Int
      BY <1>3, <2>4
    <3> DEFINE CE == C * E
    <3>3. CE \in Int /\ CE + E <= sE /\ v <= CE
      BY <2>4, <3>1, <3>2 DEF sE
    <3> HIDE DEF CE
    <3>4. 2 * CE + 2 * E <= 2 * sE /\ 2 * v <= 2 * CE
      BY <1>3, <2>4, <2>5, <3>3
    <3> QED BY <1>1, <1>3, <2>4, <2>5, <2>7, <2>8, <3>3, <3>4
  <2> QED BY <2>2, <2>9 DEF C
<1>9. ASSUME NEW n \in 1 .. fraction
      PROVE  /\ SliceStart(size, n, fraction) \in Nat /\ SliceEnd(size, n, fraction) \in Nat
             /\ n < fraction => SliceStart(size, n + 1, fraction) <= SliceEnd(size, n, fraction)
  BY <1>5, <1>6
<1> QED BY <1>7, <1>8, <1>9

\* At most half a unit above an even number is rounded down to it.
LEMMA RoundsDown ==
  ASSUME NEW n \in Nat, NEW d \in Nat \ {0}, NEW c \in Nat, c % 2 = 0,
         c * d <= n, 2 * (n - c * d) <= d
  PROVE  RoundedDiv(n, d) = c
<1> DEFINE q == n \div d
           r == n % d
<1>1. q \in Int /\ r \in Nat /\ r < d /\ n = d * q + r
  BY DivIs
<1>2. RoundedDiv(n, d) = IF 2 * r > d \/ (2 * r = d /\ q % 2 = 1) THEN q + 1 ELSE q
  BY DEF RoundedDiv
<1> HIDE DEF q, r
<1> DEFINE x == c * d
           y == d * q
<1>3. x \in Int /\ y \in Int /\ x <= n /\ 2 * (n - x) <= d /\ n = y + r
  BY <1>1
<1>4. q = c
  <2>1. ASSUME q <= c - 1 PROVE FALSE
    <3>1. q * d <= (c - 1) * d /\ (c - 1) * d = c * d - d /\ q * d = d * q
      BY <1>1, <2>1, TimesOrder
    <3>2. y <= x - d
      BY <3>1
    <3> HIDE DEF x, y
    <3> QED BY <1>1, <1>3, <3>2
  <2>2. ASSUME q >= c + 1 PROVE FALSE
    <3>1. (c + 1) * d <= q * d /\ (c + 1) * d = c * d + d /\ q * d = d * q
      BY <1>1, <2>2, TimesOrder
    <3>2. x + d <= y
      BY <3>1
    <3> HIDE DEF x, y
    <3> QED BY <1>1, <1>3, <3>2
  <2> QED BY <1>1, <2>1, <2>2
<1>5. y = x
  BY <1>1, <1>4
<1> HIDE DEF x, y
<1>6. 2 * r <= d
  BY <1>1, <1>3, <1>5
<1>7. ~(2 * r > d) /\ ~(q % 2 = 1)
  BY <1>1, <1>4, <1>6
<1> QED BY <1>2, <1>4, <1>7

\* A larger exponent, a larger power.
LEMMA TwoToOrder ==
  ASSUME NEW a \in Nat, NEW b \in Nat, a <= b
  PROVE  TwoTo(a) <= TwoTo(b) /\ (a < b => 2 * TwoTo(a) <= TwoTo(b))
<1>1. ASSUME NEW c \in Nat, NEW d \in Nat, c <= d PROVE TwoTo(c) <= TwoTo(d)
  <2> DEFINE x == TwoTo(c)
             y == TwoTo(d - c)
  <2>1. d - c \in Nat /\ c + (d - c) = d
    BY <1>1
  <2>2. TwoTo(d) = x * y /\ x \in Nat \ {0} /\ y \in Nat \ {0}
    BY <2>1, TwoToPlus, TwoToType
  <2> HIDE DEF x, y
  <2>3. 1 <= y /\ y * x = x * y
    BY <2>2
  <2>4. 1 * x <= y * x
    BY <2>2, <2>3, TimesOrder
  <2>5. x <= TwoTo(d)
    BY <2>2, <2>3, <2>4
  <2> QED BY <2>5 DEF x
<1>2. ASSUME a < b PROVE 2 * TwoTo(a) <= TwoTo(b)
  <2>1. a + 1 \in Nat /\ a + 1 <= b
    BY <1>2
  <2>2. TwoTo(a + 1) <= TwoTo(b)
    BY <1>1, <2>1
  <2> QED BY <2>2, TwoToStep
<1> QED BY <1>1, <1>2

\* In a matrix whose size is a power of two no slice ends behind the last cell.
LEMMA SliceInside ==
  ASSUME NEW k \in Nat, NEW size, size = TwoTo(k), NEW fraction, Precise(size, fraction),
         NEW n \in 1 .. fraction
  PROVE  SliceEnd(size, n, fraction) <= size
<1> DEFINE P == TwoTo(Precision)
           Q == TwoTo(Precision - 1)
<1>1. /\ size \in Nat \ {0} /\ fraction \in Nat \ {0} /\ 4 * size <= P /\ fraction < P
      /\ P \in Nat \ {0} /\ Q \in Nat \ {0} /\ P = 2 * Q /\ TwoTo(2 * Precision) = P * P
      /\ 2 * Precision \in Nat /\ Precision \in Nat /\ Precision - 1 \in Nat
      /\ n \in Nat \ {0} /\ n <= fraction
  BY PrecisionIs DEF Precise
<1>2. PICK m \in Nat, e \in 0 .. 2 * Precision :
           /\ FloatDiv(size, fraction) = << m, e >>
           /\ TwoTo(e) \in Nat \ {0}
           /\ m <= TwoTo(Precision)
           /\ fraction * TwoTo(Precision - 1) <= size * TwoTo(e)
           /\ 2 * (size * TwoTo(e)) - fraction <= 2 * (m * fraction)
           /\ 2 * (m * fraction) <= 2 * (size * TwoTo(e)) + fraction
  <2>1. size < P /\ fraction <= P
    <3> HIDE DEF P
    <3> QED BY <1>1
  <2> QED BY <1>1, <2>1, FloatDivIs
<1> DEFINE E == TwoTo(e)
           K == k + e
           S == TwoTo(K)
           mn == m * n
<1>3. e \in Nat /\ e \in Int /\ m <= P /\ E \in Nat \ {0} /\ K \in Nat /\ S = size * E /\ S \in Nat \ {0} /\ mn \in Nat
  <2>1. e \in Nat
    BY <1>1
  <2>2. S = size * E
    BY <2>1, TwoToPlus
  <2>3. K \in Nat
    BY <2>1
  <2>4. S \in Nat \ {0}
    <3> HIDE DEF K
    <3> QED BY <2>3, TwoToType
  <2>5. mn \in Nat
    BY <1>1
  <2> QED BY <1>2, <2>1, <2>2, <2>3, <2>4, <2>5
<1>4. m * n < TwoTo(2 * Precision)
  <2> HIDE DEF P
  <2>1. m * n <= P * n
    BY <1>1, <1>3
  <2>2. P * n < P * P
    BY <1>1
  <2>3. m * n \in Int /\ P * n \in Int /\ P * P \in Int
    BY <1>1
  <2> DEFINE x == m * n
             y == P * n
             z == P * P
  <2>4. x <= y /\ y < z /\ x \in Int /\ y \in Int /\ z \in Int
    BY <2>1, <2>2, <2>3
  <2> HIDE DEF x, y, z
  <2>5. x < z
    BY <2>4
  <2> QED BY <1>1, <2>5 DEF x, z
<1>5. PICK p \in Nat, s \in 0 .. Precision :
           /\ FloatMul(<< m, e >>, n) = << p, e - s >>
           /\ TwoTo(s) \in Nat \ {0}
           /\ p <= TwoTo(Precision) /\ p = RoundedDiv(m * n, TwoTo(s))
           /\ m * n < TwoTo(Precision) * TwoTo(s)
           /\ s > 0 => TwoTo(Precision) * TwoTo(s) <= 2 * (m * n)
           /\ 2 * (m * n) - TwoTo(s) <= 2 * (p * TwoTo(s))
           /\ 2 * (p * TwoTo(s)) <= 2 * (m * n) + TwoTo(s)
  BY <1>1, <1>3, <1>4, FloatMulIs
<1> DEFINE C == Ceil(<< p, e - s >>)
           t == TwoTo(s)
           v == p * t
<1>6. SliceEnd(size, n, fraction) = C
  BY <1>2, <1>5 DEF SliceEnd
<1>7. C \in Nat /\ (C - 1) * E < v /\ s \in Nat
  <2>1. s \in Nat
    BY <1>1
  <2>2. Between(p, s, e, Floor(<< p, e - s >>), C)
    BY <1>3, <2>1, RoundingIs
  <2> QED BY <2>1, <2>2 DEF Between
<1>8. fraction * Q <= S /\ 2 * mn <= 2 * S + fraction
  <2>1. fraction * Q <= S /\ 2 * (m * fraction) <= 2 * S + fraction
    BY <1>2, <1>3
  <2>2. mn <= m * fraction
    BY <1>1, <1>3
  <2>3. m * fraction \in Int
    BY <1>1
  <2> DEFINE mf == m * fraction
  <2>4. mf \in Int /\ mn <= mf /\ 2 * mf <= 2 * S + fraction
    BY <2>1, <2>2, <2>3
  <2> HIDE DEF mf, S, mn
  <2>5. 2 * mn <= 2 * S + fraction
    BY <1>1, <1>3, <2>4
  <2> QED BY <2>1, <2>5
<1>9. /\ t \in Nat \ {0} /\ p <= P /\ p = RoundedDiv(mn, t) /\ mn < P * t
      /\ s > 0 => P * t <= 2 * mn
      /\ 2 * v <= 2 * mn + t /\ v \in Nat /\ p \in Nat
  <2>1. v \in Nat
    BY <1>5
  <2> QED BY <1>5, <2>1
<1>10. v <= S
  <2>1. CASE s = 0
    <3>1. t = 1
      BY <2>1, TwoToStep
    <3>2. v <= mn /\ mn < P
      <4> HIDE DEF v, mn, P, t
      <4> QED BY <1>1, <1>3, <1>9, <3>1
    <3>3. CASE P <= S
      <4> HIDE DEF v, mn, P, S
      <4> QED BY <1>1, <1>3, <1>9, <3>2, <3>3
    <3>4. CASE S < P
      <4>1. fraction = 1
        <5> SUFFICES ASSUME 2 <= fraction PROVE FALSE
          BY <1>1
        <5> HIDE DEF Q, P, S
        <5>1. 2 * Q <= fraction * Q
          BY <1>1, TimesOrder
        <5>2. fraction * Q \in Int
          BY <1>1
        <5> DEFINE x == fraction * Q
        <5>3. 2 * Q <= x /\ x \in Int /\ x <= S
          BY <1>8, <5>1, <5>2
        <5> HIDE DEF x
        <5> QED BY <1>1, <1>3, <3>4, <5>3
      <4> HIDE DEF v, mn, S
      <4> QED BY <1>3, <1>8, <1>9, <3>2, <4>1
    <3> HIDE DEF P, S
    <3> QED BY <1>1, <1>3, <3>3, <3>4
  <2>2. CASE s > 0
    <3>1. P * t = TwoTo(Precision + s) /\ Q * t = TwoTo((Precision - 1) + s)
          /\ Precision + s \in Nat /\ (Precision - 1) + s \in Nat /\ ((Precision - 1) + s) + 1 = Precision + s
      BY <1>1, <1>7, TwoToPlus
    <3> DEFINE L == (Precision - 1) + s
    <3>2. CASE L < K
      <4>1. Precision + s <= K
        <5> HIDE DEF K
        <5> QED BY <1>1, <1>3, <1>7, <3>2
      <4>2. P * t <= S
        <5> HIDE DEF K
        <5>1. TwoTo(Precision + s) <= TwoTo(K)
          BY <1>3, <3>1, <4>1, TwoToOrder
        <5> QED BY <3>1, <5>1
      <4>3. v <= P * t
        <5> HIDE DEF P, t
        <5> QED BY <1>1, <1>9, TimesOrder
      <4> DEFINE x == P * t
      <4>4. x \in Int /\ v <= x /\ x <= S
        <5>1. x \in Int
          <6> HIDE DEF P, t
          <6> QED BY <1>1, <1>9
        <5> QED BY <4>2, <4>3, <5>1
      <4> HIDE DEF x, v, S
      <4> QED BY <1>3, <1>9, <4>4
    <3>3. CASE K < L
      \* Then the product is more than twice the size.
      <4>1. 2 * S <= Q * t
        <5> HIDE DEF K
        <5>1. 2 * TwoTo(K) <= TwoTo(L)
          <6> HIDE DEF L
          <6>1. L \in Nat
            BY <3>1 DEF L
          <6> QED BY <1>3, <3>3, <6>1, TwoToOrder
        <5> QED BY <3>1, <5>1
      <4>2. Q * t <= mn /\ Q * t \in Int
        <5> DEFINE x == Q * t
        <5>1. P * t = 2 * x /\ x \in Int
          <6> HIDE DEF P, Q, t
          <6> QED BY <1>1, <1>9
        <5>2. 2 * x <= 2 * mn
          BY <1>9, <2>2, <5>1
        <5> HIDE DEF x, mn
        <5>3. x <= mn
          BY <1>3, <5>1, <5>2
        <5> QED BY <5>1, <5>3 DEF x
      <4>3. fraction <= S
        <5>1. fraction * 1 <= fraction * Q /\ fraction * Q \in Int
          <6> HIDE DEF Q
          <6> QED BY <1>1
        <5> DEFINE x == fraction * Q
        <5>2. x \in Int /\ x <= S /\ fraction <= x
          BY <1>1, <1>8, <5>1
        <5> HIDE DEF x, S
        <5> QED BY <1>1, <1>3, <5>2
      <4> DEFINE x == Q * t
      <4>4. x \in Int /\ 2 * S <= x /\ x <= mn
        BY <4>1, <4>2
      <4> HIDE DEF x, S, mn, v
      <4>5. FALSE
        BY <1>1, <1>3, <1>8, <4>3, <4>4
      <4> QED BY <4>5
    <3>4. CASE K = L
      <4>1. S = Q * t
        BY <3>1, <3>4
      <4>2. Q % 2 = 0
        <5>1. 2 * size <= Q
          <6> HIDE DEF Q, P
          <6> QED BY <1>1
        <5>2. Precision - 1 # 0
          <6> SUFFICES ASSUME Precision - 1 = 0 PROVE FALSE
            OBVIOUS
          <6>1. Q = 1
            BY TwoToStep
          <6> QED BY <1>1, <5>1, <6>1
        <5>3. (Precision - 1) - 1 \in Nat /\ ((Precision - 1) - 1) + 1 = Precision - 1
          BY <1>1, <5>2
        <5> DEFINE x == TwoTo((Precision - 1) - 1)
        <5>4. Q = 2 * x /\ x \in Nat
          BY <5>3, TwoToStep, TwoToType
        <5> HIDE DEF x, Q
        <5> QED BY <5>4
      <4>3. fraction <= t
        <5> HIDE DEF Q, t, S
        <5>1. fraction * Q <= t * Q
          BY <1>1, <1>8, <1>9, <4>1
        <5> QED BY <1>1, <1>9, <5>1, TimesOrder
      <4>4. Q * t <= mn
        <5> DEFINE x == Q * t
        <5>1. P * t = 2 * x /\ x \in Int
          <6> HIDE DEF P, Q, t
          <6> QED BY <1>1, <1>9
        <5>2. 2 * x <= 2 * mn
          BY <1>9, <2>2, <5>1
        <5> HIDE DEF x, mn
        <5>3. x <= mn
          BY <1>3, <5>1, <5>2
        <5> QED BY <5>3 DEF x
      <4>5. 2 * (mn - Q * t) <= t
        <5> HIDE DEF mn, Q, t, S
        <5> QED BY <1>1, <1>3, <1>8, <1>9, <4>1, <4>3
      <4> HIDE DEF mn, t, Q
      <4>6. RoundedDiv(mn, t) = Q
        BY <1>1, <1>3, <1>9, <4>2, <4>4, <4>5, RoundsDown
      <4>7. v = Q * t
        BY <1>9, <4>6
      <4>8. Q * t \in Int
        BY <1>1, <1>9
      <4> QED BY <4>1, <4>7, <4>8
    <3> HIDE DEF L, K
    <3>5. L \in Int /\ K \in Int
      BY <1>3, <3>1 DEF L
    <3> QED BY <3>2, <3>3, <3>4, <3>5
  <2> QED BY <1>7, <2>1, <2>2
<1>11. C <= size
  <2> HIDE DEF C, E, v, S
  <2>1. (C - 1) * E < size * E
    <3> DEFINE x == (C - 1) * E
    <3>1. x \in Int /\ x < v
      BY <1>3, <1>7
    <3> HIDE DEF x
    <3>2. x < S
      BY <1>3, <1>9, <1>10, <3>1
    <3> QED BY <1>3, <3>2 DEF x
  <2>2. C - 1 < size
    <3>1. C - 1 \in Int /\ size \in Int
      BY <1>1, <1>7
    <3> QED BY <1>3, <2>1, <3>1, TimesOrder
  <2> QED BY <1>1, <1>7, <2>2
<1> QED BY <1>6, <1>11

-------------------------------------------------------------------------------
\* Blocks of cells tile the grid.

\* A factor of a power of two is a power of two.
LEMMA FactorOfPower ==
  ASSUME NEW k \in Nat, NEW a \in Nat, NEW b \in Nat, a * b = TwoTo(k)
  PROVE  \E i \in 0 .. k : a = TwoTo(i)
<1> DEFINE T == {n \in 0 .. k : \A x, y \in Nat : x * y = TwoTo(n) => \E i \in 0 .. n : x = TwoTo(i)}
<1>1. 0 \in T
  <2> SUFFICES ASSUME NEW x \in Nat, NEW y \in Nat, x * y = 1 PROVE x = 1
    <3>1. TwoTo(0) = 1 /\ 0 \in 0 .. 0 /\ 0 \in 0 .. k
      BY TwoToStep
    <3> QED BY <3>1
  <2>1. x # 0 /\ y # 0
    OBVIOUS
  <2>2. x * 1 <= x * y
    BY <2>1
  <2> QED BY <2>1, <2>2
<1>2. ASSUME NEW n \in 1 .. k, n - 1 \in T PROVE n \in T
  <2> DEFINE m == n - 1
  <2>1. m \in Nat /\ m + 1 = n /\ n \in 0 .. k
    OBVIOUS
  <2>2. TwoTo(n) = 2 * TwoTo(m) /\ TwoTo(m) \in Nat
    BY <2>1, TwoToStep, TwoToType
  <2>3. \A x, y \in Nat : x * y = TwoTo(m) => \E i \in 0 .. m : x = TwoTo(i)
    BY <1>2
  <2> SUFFICES \A x, y \in Nat : x * y = TwoTo(n) => \E i \in 0 .. n : x = TwoTo(i)
    <3> n \in 0 .. k
      OBVIOUS
    <3> QED BY Zenon
  <2> SUFFICES ASSUME NEW x \in Nat, NEW y \in Nat, x * y = TwoTo(n)
               PROVE  \E i \in 0 .. n : x = TwoTo(i)
    OBVIOUS
  <2> HIDE DEF m
  <2>4. CASE x % 2 = 0
    <3> DEFINE h == x \div 2
    <3>1. h \in Nat /\ x = 2 * h
      BY <2>4
    <3> HIDE DEF h
    <3>2. 2 * (h * y) = 2 * TwoTo(m) /\ h * y \in Nat
      BY <2>2, <3>1
    <3>3. h * y = TwoTo(m)
      <4> DEFINE v == h * y
                 w == TwoTo(m)
      <4>1. 2 * v = 2 * w /\ v \in Nat /\ w \in Nat
        BY <2>2, <3>2
      <4> HIDE DEF v, w
      <4>2. v = w
        BY <4>1
      <4> QED BY <4>2 DEF v, w
    <3>4. PICK i \in 0 .. m : h = TwoTo(i)
      BY <2>3, <3>1, <3>3
    <3>5. i \in Nat /\ i + 1 \in 0 .. n
      BY <2>1
    <3>6. TwoTo(i + 1) = 2 * h
      BY <3>4, <3>5, TwoToStep
    <3> QED BY <3>1, <3>5, <3>6
  <2>5. CASE x % 2 = 1
    <3>1. y % 2 = 0
      <4> SUFFICES ASSUME y % 2 = 1 PROVE FALSE
        OBVIOUS
      <4> DEFINE g == x \div 2
                 h == y \div 2
                 w == TwoTo(m)
      <4>1. g \in Nat /\ h \in Nat /\ x = 2 * g + 1 /\ y = 2 * h + 1
        BY <2>5
      <4> HIDE DEF g, h
      <4>2. x * y = 2 * (2 * (g * h) + g + h) + 1 /\ g * h \in Nat
        BY <4>1
      <4> DEFINE v == 2 * (g * h) + g + h
      <4>3. v \in Nat /\ 2 * v + 1 = 2 * w /\ w \in Nat
        BY <2>2, <4>1, <4>2
      <4> HIDE DEF v, w
      <4> QED BY <4>3
    <3> DEFINE h == y \div 2
    <3>2. h \in Nat /\ y = 2 * h
      BY <3>1
    <3> HIDE DEF h
    <3>3. 2 * (x * h) = 2 * TwoTo(m) /\ x * h \in Nat
      BY <2>2, <3>2
    <3>4. x * h = TwoTo(m)
      <4> DEFINE v == x * h
                 w == TwoTo(m)
      <4>1. 2 * v = 2 * w /\ v \in Nat /\ w \in Nat
        BY <2>2, <3>3
      <4> HIDE DEF v, w
      <4>2. v = w
        BY <4>1
      <4> QED BY <4>2 DEF v, w
    <3>5. PICK i \in 0 .. m : x = TwoTo(i)
      BY <2>3, <3>2, <3>4
    <3>6. i \in 0 .. n
      BY <2>1
    <3> QED BY <3>5, <3>6
  <2>6. x % 2 \in {0, 1}
    OBVIOUS
  <2> QED BY <2>4, <2>5, <2>6
<1> HIDE DEF T
<1>3. \A n \in 0 .. k : n \in T
  BY <1>1, <1>2, UpTo
<1>4. k \in T
  BY <1>3
<1> QED BY <1>4 DEF T

\* The least of two.
LEMMA MinOfTwo ==
  ASSUME NEW a \in Int, NEW b \in Int
  PROVE  Min({a, b}) \in {a, b} /\ Min({a, b}) <= a /\ Min({a, b}) <= b
<1>1. \E x \in {a, b} : \A y \in {a, b} : x <= y
  <2>1. CASE a <= b
    BY <2>1
  <2>2. CASE b <= a
    BY <2>2
  <2> QED BY <2>1, <2>2
<1>2. Min({a, b}) = CHOOSE x \in {a, b} : \A y \in {a, b} : x <= y
  BY DEF Min
<1> DEFINE m == Min({a, b})
<1>3. m \in {a, b} /\ \A y \in {a, b} : m <= y
  BY <1>1, <1>2
<1> HIDE DEF m
<1>4. m \in {a, b} /\ m <= a /\ m <= b
  BY <1>3
<1> QED BY <1>4 DEF m

\* Grids and targets of blocks have sides.
Sided(dims) == dims.rows \in Nat \ {0} /\ dims.cols \in Nat \ {0}

\* The blocks tile the grid.
LEMMA Tiles ==
  ASSUME NEW grid, NEW target, Sided(grid), Sided(target),
         MultiproofDims(grid, target) # NoDims
  PROVE  LET mp == MultiproofDims(grid, target)
             width == grid.cols \div mp.cols
             height == grid.rows \div mp.rows
         IN  /\ Sided(mp) /\ mp = Dimensions(mp.rows, mp.cols)
             /\ width \in Nat \ {0} /\ height \in Nat \ {0}
             /\ grid.cols = mp.cols * width /\ grid.rows = mp.rows * height
<1> DEFINE c == Min({grid.cols, target.cols})
           r == Min({grid.rows, target.rows})
           w == grid.cols \div c
           h == grid.rows \div r
<1>1. c \in Nat \ {0} /\ r \in Nat \ {0} /\ c <= grid.cols /\ r <= grid.rows
  <2>0. /\ grid.cols \in Int /\ target.cols \in Int
        /\ grid.rows \in Int /\ target.rows \in Int
    BY DEF Sided
  <2>1. c \in {grid.cols, target.cols} /\ c <= grid.cols
    BY <2>0, MinOfTwo
  <2>2. r \in {grid.rows, target.rows} /\ r <= grid.rows
    BY <2>0, MinOfTwo
  <2> HIDE DEF c, r
  <2> QED BY <2>1, <2>2 DEF Sided
<1>2. MultiproofDims(grid, target) = Dimensions(r, c) /\ grid.cols % c = 0 /\ grid.rows % r = 0
  BY DEF MultiproofDims
<1> HIDE DEF c, r
<1>3. Dimensions(r, c).rows = r /\ Dimensions(r, c).cols = c
  BY DEF Dimensions
<1>4. grid.cols \in Nat \ {0} /\ grid.rows \in Nat \ {0}
  BY DEF Sided
<1>5. w \in Nat \ {0} /\ grid.cols = c * w
  <2>0. grid.cols \in Int
    BY <1>4
  <2>1. w \in Int /\ grid.cols = c * w + 0
    BY <1>1, <1>2, <2>0, DivIs
  <2> HIDE DEF w
  <2>2. w > 0
    <3> SUFFICES ASSUME w <= 0 PROVE FALSE
      BY <2>1
    <3>1. c * w <= 0 /\ c * w \in Int
      BY <1>1, <2>1
    <3> QED BY <1>4, <2>1, <3>1
  <2> QED BY <1>1, <2>1, <2>2
<1>6. h \in Nat \ {0} /\ grid.rows = r * h
  <2>0. grid.rows \in Int
    BY <1>4
  <2>1. h \in Int /\ grid.rows = r * h + 0
    BY <1>1, <1>2, <2>0, DivIs
  <2> HIDE DEF h
  <2>2. h > 0
    <3> SUFFICES ASSUME h <= 0 PROVE FALSE
      BY <2>1
    <3>1. r * h <= 0 /\ r * h \in Int
      BY <1>1, <2>1
    <3> QED BY <1>4, <2>1, <3>1
  <2> QED BY <1>1, <2>1, <2>2
<1> QED BY <1>1, <1>2, <1>3, <1>5, <1>6 DEF Sided

-------------------------------------------------------------------------------
\* Flattening sequences.

\* What FlattenSeq computes.
IsJoined(seqs, N, f) == f = [i \in 1 .. N |-> IF i = 1 THEN seqs[i] ELSE f[i - 1] \o seqs[i]]

\* This holds of more than no sequence;
LEMMA JoinIs ==
  ASSUME NEW seqs, Len(seqs) # 0
  PROVE  FlattenSeq(seqs) = (CHOOSE f : IsJoined(seqs, Len(seqs), f))[Len(seqs)]
BY Zenon DEF FlattenSeq, IsJoined

\* of none, it returns none.
LEMMA JoinNothing ==
  ASSUME NEW seqs, Len(seqs) = 0
  PROVE  FlattenSeq(seqs) = seqs
BY Zenon DEF FlattenSeq

\* There is such a function.
LEMMA JoinedExists ==
  ASSUME NEW seqs, NEW N \in Nat
  PROVE  \E f : IsJoined(seqs, N, f)
<1> DEFINE T == {n \in 0 .. N : \E f : IsJoined(seqs, n, f)}
<1>1. 0 \in T
  <2> DEFINE f == [i \in 1 .. 0 |-> << >>]
  <2>1. IsJoined(seqs, 0, f)
    BY DEF IsJoined
  <2> HIDE DEF f
  <2> QED BY <2>1
<1>2. ASSUME NEW n \in 1 .. N, n - 1 \in T PROVE n \in T
  <2>1. PICK f : IsJoined(seqs, n - 1, f)
    BY <1>2
  <2> DEFINE g == [i \in 1 .. n |-> IF i = n THEN IF i = 1 THEN seqs[i] ELSE f[i - 1] \o seqs[i]
                                    ELSE f[i]]
  <2>2. \A i \in 1 .. n - 1 : f[i] = IF i = 1 THEN seqs[i] ELSE f[i - 1] \o seqs[i]
    BY <2>1 DEF IsJoined
  <2>3. \A i \in 1 .. n : i # 1 => i - 1 \in 1 .. n /\ i - 1 # n
    OBVIOUS
  <2>4. ASSUME NEW i \in 1 .. n
        PROVE  g[i] = IF i = 1 THEN seqs[i] ELSE g[i - 1] \o seqs[i]
    <3>1. i # 1 => g[i - 1] = f[i - 1]
      BY <2>3
    <3>2. CASE i = n
      <4>1. g[i] = IF i = 1 THEN seqs[i] ELSE f[i - 1] \o seqs[i]
        BY <3>2
      <4> HIDE DEF g
      <4> QED BY <3>1, <4>1, Zenon
    <3>3. CASE i # n
      <4>1. g[i] = f[i] /\ i \in 1 .. n - 1
        BY <3>3
      <4> HIDE DEF g
      <4> QED BY <2>2, <3>1, <4>1, Zenon
    <3> QED BY <3>2, <3>3
  <2>5. g = [i \in 1 .. n |-> g[i]]
    OBVIOUS
  <2> HIDE DEF g
  <2>6. IsJoined(seqs, n, g)
    BY <2>4, <2>5 DEF IsJoined
  <2>7. n \in 0 .. N
    OBVIOUS
  <2> QED BY <2>6, <2>7
<1> HIDE DEF T
<1>3. \A n \in 0 .. N : n \in T
  BY <1>1, <1>2, UpTo
<1>4. N \in T
  BY <1>3
<1> QED BY <1>4 DEF T

\* The concatenations of the first ones, up to the one of all.
LEMMA JoinSteps ==
  ASSUME NEW S, NEW seqs \in Seq(Seq(S)), Len(seqs) # 0
  PROVE  \E f : /\ \A i \in 1 .. Len(seqs) : f[i] \in Seq(S)
                /\ \A i \in 1 .. Len(seqs) : f[i] = IF i = 1 THEN seqs[i] ELSE f[i - 1] \o seqs[i]
                /\ FlattenSeq(seqs) = f[Len(seqs)]
<1> DEFINE N == Len(seqs)
           f == CHOOSE g : IsJoined(seqs, N, g)
<1>1. N \in Nat
  BY LenProperties
<1>2. IsJoined(seqs, N, f)
  <2>1. \E g : IsJoined(seqs, N, g)
    BY <1>1, JoinedExists
  <2> QED BY <2>1, Zenon
<1>3. FlattenSeq(seqs) = f[N]
  BY JoinIs
<1> HIDE DEF f
<1>4. \A i \in 1 .. N : f[i] = IF i = 1 THEN seqs[i] ELSE f[i - 1] \o seqs[i]
  BY <1>2 DEF IsJoined
<1> DEFINE T == {0} \cup {n \in 1 .. N : f[n] \in Seq(S)}
<1>5. \A n \in 0 .. N : n \in T
  <2>1. 0 \in T
    OBVIOUS
  <2>2. ASSUME NEW n \in 1 .. N, n - 1 \in T PROVE n \in T
    <3>1. seqs[n] \in Seq(S)
      BY ElementOfSeq
    <3>2. CASE n = 1
      BY <1>4, <3>1, <3>2
    <3>3. CASE n # 1
      <4>1. f[n] = f[n - 1] \o seqs[n]
        BY <1>4, <3>3
      <4>2. f[n - 1] \in Seq(S)
        BY <2>2, <3>3
      <4>3. f[n - 1] \o seqs[n] \in Seq(S)
        BY <3>1, <4>2, ConcatProperties
      <4> QED BY <4>1, <4>3
    <3> QED BY <3>2, <3>3
  <2> HIDE DEF T
  <2> QED BY <1>1, <2>1, <2>2, UpTo
<1>6. \A i \in 1 .. N : f[i] \in Seq(S)
  <2>1. \A i \in 1 .. N : i \in 0 .. N /\ i # 0
    OBVIOUS
  <2> QED BY <1>5, <2>1
<1> HIDE DEF N
<1>7. /\ \A i \in 1 .. N : f[i] \in Seq(S)
      /\ \A i \in 1 .. N : f[i] = IF i = 1 THEN seqs[i] ELSE f[i - 1] \o seqs[i]
      /\ FlattenSeq(seqs) = f[N]
  BY <1>3, <1>4, <1>6
<1> QED BY <1>7 DEF N

\* Rows of one length, one after the other.
LEMMA JoinRows ==
  ASSUME NEW S, NEW seqs \in Seq(Seq(S)), NEW m \in Nat, \A i \in 1 .. Len(seqs) : Len(seqs[i]) = m
  PROVE  /\ FlattenSeq(seqs) \in Seq(S)
         /\ Len(FlattenSeq(seqs)) = Len(seqs) * m
         /\ \A i \in 1 .. Len(seqs), j \in 1 .. m :
              /\ (i - 1) * m + j \in 1 .. (Len(seqs) * m)
              /\ FlattenSeq(seqs)[(i - 1) * m + j] = seqs[i][j]
<1> DEFINE N == Len(seqs)
<1>0. N \in Nat
  BY LenProperties
<1>1. CASE N = 0
  <2>1. FlattenSeq(seqs) = seqs /\ seqs = << >>
    BY <1>1, JoinNothing, EmptySeq
  <2> QED BY <1>1, <2>1
<1>2. CASE N # 0
  <2>1. PICK f : /\ \A i \in 1 .. N : f[i] \in Seq(S)
                 /\ \A i \in 1 .. N : f[i] = IF i = 1 THEN seqs[i] ELSE f[i - 1] \o seqs[i]
                 /\ FlattenSeq(seqs) = f[N]
    BY <1>2, JoinSteps
  <2> DEFINE Holds(n) == /\ Len(f[n]) = n * m
                         /\ \A i \in 1 .. n, j \in 1 .. m :
                              f[n][(i - 1) * m + j] = seqs[i][j]
             T == {0} \cup {n \in 1 .. N : Holds(n)}
  <2>2. ASSUME NEW n \in 1 .. N, n - 1 \in T PROVE Holds(n)
    <3>1. seqs[n] \in Seq(S) /\ Len(seqs[n]) = m
      BY ElementOfSeq
    <3>2. CASE n = 1
      <4>1. f[1] = seqs[1] /\ 1 * m = m
        BY <2>1, <3>2
      <4>2. \A i \in 1 .. 1, j \in 1 .. m : i = 1 /\ (i - 1) * m + j = j
        OBVIOUS
      <4> QED BY <3>1, <3>2, <4>1, <4>2
    <3>3. CASE n # 1
      <4> DEFINE k == n - 1
      <4>1. k \in 1 .. N /\ k \in Nat /\ n = k + 1
        BY <3>3
      <4>2. f[n] = f[k] \o seqs[n] /\ f[k] \in Seq(S) /\ Holds(k)
        <5>1. f[n] = f[k] \o seqs[n] /\ f[k] \in Seq(S)
          BY <2>1, <3>3, <4>1
        <5>2. Holds(k)
          <6> HIDE DEF Holds
          <6> QED BY <2>2, <3>3
        <5> QED BY <5>1, <5>2
      <4>6. /\ Len(f[n]) = Len(f[k]) + Len(seqs[n])
            /\ \A p \in 1 .. Len(f[k]) + Len(seqs[n]) :
                 f[n][p] = IF p <= Len(f[k]) THEN f[k][p] ELSE seqs[n][p - Len(f[k])]
        <5> DEFINE g == f[k]
                   h == seqs[n]
        <5>1. f[n] = g \o h /\ g \in Seq(S) /\ h \in Seq(S)
          BY <3>1, <4>2
        <5> HIDE DEF g, h
        <5>2. /\ Len(g \o h) = Len(g) + Len(h)
              /\ \A p \in 1 .. Len(g) + Len(h) :
                   (g \o h)[p] = IF p <= Len(g) THEN g[p] ELSE h[p - Len(g)]
          BY <5>1, ConcatProperties
        <5>3. /\ Len(f[n]) = Len(g) + Len(h)
              /\ \A p \in 1 .. Len(g) + Len(h) :
                   f[n][p] = IF p <= Len(g) THEN g[p] ELSE h[p - Len(g)]
          BY <5>1, <5>2, Zenon
        <5> QED BY <5>3 DEF g, h
      <4> HIDE DEF k
      <4> DEFINE km == k * m
      <4>3. km \in Nat /\ n * m = km + m /\ Len(f[k]) = km
        BY <4>1, <4>2
      <4>4. Len(f[n]) = n * m
        <5> HIDE DEF km
        <5> QED BY <3>1, <4>3, <4>6
      <4>5. ASSUME NEW i \in 1 .. n, NEW j \in 1 .. m
            PROVE  f[n][(i - 1) * m + j] = seqs[i][j]
        <5> DEFINE x == (i - 1) * m
        <5>1. CASE i = n
          <6>1. x = km /\ km + j \in 1 .. km + m
            BY <4>1, <4>3, <5>1
          <6>2. f[n][km + j] = seqs[n][(km + j) - km]
            <7> HIDE DEF km
            <7> QED BY <3>1, <4>3, <4>6, <6>1
          <6>3. (km + j) - km = j
            BY <4>3
          <6> QED BY <5>1, <6>1, <6>2, <6>3
        <5>2. CASE i # n
          <6>1. i \in 1 .. k /\ i - 1 \in Nat
            BY <4>1, <5>2
          <6>2. f[k][x + j] = seqs[i][j]
            BY <4>2, <6>1
          <6>3. x + j \in 1 .. km
            <7>1. x \in Nat /\ x + m = i * m
              BY <6>1
            <7>2. i * m <= k * m
              BY <4>1, <6>1
            <7>3. i * m \in Nat
              BY <6>1
            <7> DEFINE y == i * m
            <7>4. y \in Nat /\ y <= km /\ x + m = y
              BY <7>1, <7>2, <7>3
            <7> HIDE DEF x, y, km
            <7> QED BY <4>3, <7>1, <7>4
          <6>4. f[n][x + j] = f[k][x + j]
            <7> DEFINE p == x + j
            <7> HIDE DEF x, km, p
            <7>1. p \in 1 .. km
              BY <6>3 DEF p
            <7>2. p \in 1 .. km + m /\ p <= km
              BY <4>3, <7>1
            <7>3. f[n][p] = f[k][p]
              BY <3>1, <4>3, <4>6, <7>2
            <7> QED BY <7>3 DEF p
          <6> QED BY <6>2, <6>4
        <5> QED BY <5>1, <5>2
      <4> QED BY <4>4, <4>5
    <3> QED BY <3>2, <3>3
  <2>3. \A n \in 0 .. N : n \in T
    <3>1. 0 \in T /\ \A n \in 1 .. N : n - 1 \in T => n \in T
      <4>1. 0 \in T
        OBVIOUS
      <4>2. ASSUME NEW n \in 1 .. N, n - 1 \in T PROVE n \in T
        <5>1. Holds(n)
          BY <2>2, <4>2
        <5> HIDE DEF Holds
        <5> QED BY <5>1
      <4> HIDE DEF T
      <4> QED BY <4>1, <4>2
    <3> HIDE DEF T
    <3> QED BY <1>0, <3>1, UpTo
  <2>4. Holds(N)
    <3> HIDE DEF Holds
    <3>1. N \in T
      BY <1>0, <2>3
    <3> QED BY <1>2, <3>1
  <2>5. ASSUME NEW i \in 1 .. N, NEW j \in 1 .. m PROVE (i - 1) * m + j \in 1 .. (N * m)
    <3> HIDE DEF N
    <3> DEFINE x == (i - 1) * m
               y == i * m
               z == N * m
    <3>1. x \in Nat /\ y \in Nat /\ z \in Nat /\ x + m = y /\ y <= z
      <4>1. i \in Nat /\ i - 1 \in Nat /\ i <= N
        BY <1>0
      <4>2. i * m <= N * m
        BY <1>0, <4>1
      <4> QED BY <1>0, <4>1, <4>2
    <3> HIDE DEF x, y, z
    <3>2. x + j \in 1 .. z
      BY <3>1
    <3> QED BY <3>2 DEF x, z
  <2>6. f[N] \in Seq(S)
    BY <1>0, <1>2, <2>1
  <2> QED BY <2>1, <2>4, <2>5, <2>6
<1> QED BY <1>1, <1>2

-------------------------------------------------------------------------------
\* The block that is sampled.

\* What the proofs need of a block that was prepared: the matrix has sides, is
\* one of scalars, and the header has the commitment of each of its rows.
IsBlock(b) ==
  /\ Sided(b.dims) /\ Sided(b.grid) /\ Sided(b.target)
  /\ b.grid.cols = b.dims.cols /\ b.grid.rows = ExtendedRows(b.dims)
  /\ Domain(b.dims.cols) = b.dims.cols
  /\ b.fraction \in Nat \ {0} /\ b.kind \in {"cell", "mcell"}
  /\ b.evals \in [Indices(b.grid.rows) -> [Indices(b.grid.cols) -> Scalar]]
  /\ b.polys.points = DomainPoints(b.dims.cols)
  /\ DOMAIN b.header = Indices(b.grid.rows)
  /\ \A y \in Indices(b.grid.rows) :
       /\ b.header[y] = b.polys.inner[y] /\ DOMAIN b.header[y] = Indices(b.grid.cols)
       /\ \A x \in Indices(b.grid.cols) :
            Eval(b.header[y], b.grid.cols, DomainPoints(b.dims.cols)[x]) = b.evals[y][x]

\* The sizes the slices are computed from.
HasSizes(b) ==
  /\ \E i \in Nat : b.grid.rows = TwoTo(i)
  /\ \E i \in Nat : b.grid.cols = TwoTo(i)
  /\ 4 * (b.grid.rows * b.grid.cols) <= TwoTo(Precision)
  /\ b.fraction < TwoTo(Precision)

\* The sides of a prepared block.
LEMMA SidesAre ==
  ASSUME NEW q \in Jobs
  PROVE  /\ Sided(q.dims) /\ Sided(q.target) /\ Codes(q.dims.rows, ExtendedRows(q.dims))
         /\ Fits(q.dims.cols) /\ Domain(q.dims.cols) = q.dims.cols
         /\ ExtendedRows(q.dims) \in Nat \ {0} /\ 2 * q.dims.rows = ExtendedRows(q.dims)
         /\ q.dims.rows <= ExtendedRows(q.dims)
         /\ q.evals \in [Indices(q.dims.rows) -> Scalars(q.dims.cols)]
         /\ \E i \in Nat : ExtendedRows(q.dims) = TwoTo(i)
         /\ \E i \in Nat : q.dims.cols = TwoTo(i)
<1> DEFINE r == q.dims.rows
           c == q.dims.cols
<1>0. Precision \in Nat
  BY PrecisionAssumption
<1>1. PICK i \in 0 .. Precision : r = TwoTo(i)
  BY JobsAssumption DEF IsPowerOfTwo
<1>2. PICK j \in 0 .. Precision : c = TwoTo(j)
  BY JobsAssumption DEF IsPowerOfTwo
<1>3. i \in Nat /\ j \in Nat /\ i + 1 \in Nat
  BY <1>0
<1>4. r \in Nat \ {0} /\ c \in Nat \ {0} /\ TwoTo(i + 1) = 2 * r
  BY <1>1, <1>2, <1>3, TwoToType, TwoToStep
<1>5. ExtendedRows(q.dims) = r * 2
  BY DEF ExtendedRows, EXTENSION_FACTOR
<1>6. (Prime - 1) % r = 0 /\ (Prime - 1) % ExtendedRows(q.dims) = 0 /\ (Prime - 1) % c = 0
  BY JobsAssumption
<1>7. q.target.rows \in Nat \ {0} /\ q.target.cols \in Nat \ {0} /\ Domain(c) = c
  BY JobsAssumption
<1>8. q.evals \in [Indices(r) -> Scalars(c)]
  BY JobsAssumption DEF Scalars
<1> HIDE DEF r, c
<1>9. ExtendedRows(q.dims) \in Nat \ {0} /\ r <= ExtendedRows(q.dims) /\ 2 * r = ExtendedRows(q.dims)
  BY <1>4, <1>5
<1>10. Fits(r) /\ Fits(ExtendedRows(q.dims)) /\ Fits(c)
  BY <1>4, <1>6, <1>9 DEF Fits
<1>11. Codes(r, ExtendedRows(q.dims))
  BY <1>4, <1>9, <1>10 DEF Codes
<1>12. ExtendedRows(q.dims) = TwoTo(i + 1)
  BY <1>4, <1>9
<1>13. Sided(q.dims) /\ Sided(q.target)
  BY <1>4, <1>7 DEF Sided, r, c
<1> QED BY <1>2, <1>3, <1>7, <1>8, <1>9, <1>10, <1>11, <1>12, <1>13 DEF r, c

\* The header's commitments are those of the extended rows.
LEMMA PreparedIs ==
  ASSUME NEW q \in Jobs
  PROVE  IsBlock(Prepared(q)) /\ HasSizes(Prepared(q))
<1> DEFINE R == q.dims.rows
           N == ExtendedRows(q.dims)
           n == q.dims.cols
           c == q.evals
           b == Prepared(q)
           d == [r \in Indices(R) |-> Ifft(c[r], n)]
           grid == Dimensions(N, n)
           data == MakePolynomialGrid(q.dims, c)
           ext == ExtendedEvals(q.dims, c)
<1>1. /\ Sided(q.dims) /\ Sided(q.target) /\ Codes(R, N) /\ Fits(n) /\ Domain(n) = n
      /\ N \in Nat \ {0} /\ 2 * R = N /\ R <= N /\ c \in [Indices(R) -> Scalars(n)]
      /\ n \in Nat \ {0} /\ R \in Nat \ {0}
  BY SidesAre DEF Sided
<1>2. /\ q.fraction \in Nat \ {0} /\ q.kind \in {"cell", "mcell"}
      /\ 4 * (N * n) <= TwoTo(Precision) /\ q.fraction < TwoTo(Precision)
  BY JobsAssumption
<1>3. grid.rows = N /\ grid.cols = n /\ ExtendedDims(q.dims) = grid
  BY DEF ExtendedDims, Dimensions
<1>4. /\ b.dims = q.dims /\ b.target = q.target /\ b.fraction = q.fraction /\ b.kind = q.kind
      /\ b.grid = grid /\ b.evals = ext /\ b.polys = MakePolynomialGrid(grid, ext)
      /\ b.header = ExtendedCommitments(data, 2)
  BY <1>3 DEF Prepared, EXTENSION_FACTOR
<1> HIDE DEF b
<1>5. ASSUME NEW y \in Indices(N)
      PROVE  ext[y] = [x \in Indices(n) |-> Coding(R, N, ColumnAt(R, c, x))[y]]
  BY DEF ExtendedEvals, Coding, ColumnAt
<1>6. DOMAIN ext = Indices(N) /\ ext = [y \in Indices(N) |-> ext[y]]
  BY DEF ExtendedEvals
<1>7. /\ b.polys.points = DomainPoints(n)
      /\ \A y \in Indices(N) : b.polys.inner[y] = Ifft(ext[y], n)
  <2>1. b.polys = [dims |-> grid, points |-> DomainPoints(n),
                   inner |-> [y \in Indices(N) |-> Ifft(ext[y], n)]]
    BY <1>1, <1>3, <1>4 DEF MakePolynomialGrid
  <2> HIDE DEF ext
  <2> QED BY <2>1
<1>8. data.inner = d /\ data.dims.rows = R
  BY <1>1 DEF MakePolynomialGrid
<1>9. DOMAIN d[0] = Indices(n)
  <2>1. 0 \in Indices(R)
    BY <1>1 DEF Indices
  <2>2. d[0] = Ifft(c[0], n)
    BY <2>1
  <2> QED BY <2>2 DEF Ifft
<1>10. b.header = [y \in Indices(N) |-> [k \in Indices(n) |-> Coding(R, N, ColumnAt(R, d, k))[y]]]
  <2> DEFINE coefficient(k) == Fft(Ifft([y \in Indices(R) |-> data.inner[y][k]], R), 2 * R)
             extended == [k \in DOMAIN data.inner[0] |-> coefficient(k)]
  <2>1. b.header = [y \in Indices(2 * R) |-> [k \in DOMAIN extended |-> extended[k][y]]]
    BY <1>4, <1>8 DEF ExtendedCommitments
  <2>2. DOMAIN extended = Indices(n)
    BY <1>8, <1>9
  <2>3. ASSUME NEW k \in Indices(n) PROVE extended[k] = Coding(R, N, ColumnAt(R, d, k))
    <3>1. extended[k] = coefficient(k)
      BY <1>8, <1>9
    <3>2. coefficient(k) = Fft(Ifft([y \in Indices(R) |-> d[y][k]], R), N)
      <4> HIDE DEF d, data
      <4> QED BY <1>1, <1>8, Zenon
    <3> HIDE DEF coefficient, extended, d
    <3> QED BY <3>1, <3>2 DEF Coding, ColumnAt
  <2> HIDE DEF extended, d
  <2> QED BY <1>1, <2>1, <2>2, <2>3
<1>11. ASSUME NEW y \in Indices(N)
       PROVE  /\ ext[y] \in Scalars(n)
              /\ b.header[y] = Ifft(ext[y], n) /\ b.header[y] \in Scalars(n)
              /\ \A x \in Indices(n) : Eval(b.header[y], n, DomainPoints(n)[x]) = ext[y][x]
  <2> DEFINE g == [k \in Indices(n) |-> Coding(R, N, ColumnAt(R, c, k))[y]]
             p == Ifft(g, n)
             h == [k \in Indices(n) |-> Coding(R, N, ColumnAt(R, d, k))[y]]
  <2>1. ext[y] = g /\ b.header[y] = h
    <3>1. ext[y] = g
      BY <1>5
    <3>2. b.header[y] = h
      <4> HIDE DEF d
      <4> QED BY <1>10
    <3> QED BY <3>1, <3>2
  <2>2. n \in Nat /\ n <= n /\ 0 \in Indices(n)
    BY <1>1 DEF Indices
  <2>3. ASSUME NEW k \in Indices(n)
        PROVE  g \in Scalars(n) /\ Coding(R, N, ColumnAt(R, d, k))[y] = Ifft(g, n)[k]
    <3> HIDE DEF R, N, n, c
    <3>0. d = [r \in Indices(R) |-> Ifft(c[r], n)] /\ g = [x \in Indices(n) |-> Coding(R, N, ColumnAt(R, c, x))[y]]
      BY Zenon
    <3> HIDE DEF g, d
    <3> QED BY <1>1, <2>2, <3>0, ExtensionCommutes
  <2>4. g \in Scalars(n)
    BY <2>2, <2>3
  <2> HIDE DEF g, d, ext
  <2>5. h = p
    <3>1. p = [k \in Indices(n) |-> p[k]]
      BY DEF Ifft
    <3>2. \A k \in Indices(n) : Coding(R, N, ColumnAt(R, d, k))[y] = p[k]
      BY <2>3
    <3> HIDE DEF p
    <3> QED BY <3>1, <3>2, Zenon
  <2> HIDE DEF h
  <2>6. ASSUME NEW x \in Indices(n)
        PROVE  p \in Scalars(n) /\ Eval(p, n, DomainPoints(n)[x]) = g[x]
    <3>1. p \in Scalars(n) /\ Eval(p, n, Power(GroupGen(n), x)) = g[x]
      <4> HIDE DEF n
      <4> QED BY <1>1, <2>2, <2>4, InterpolationIs DEF p
    <3>2. DomainPoints(n)[x] = Power(GroupGen(n), x)
      <4> HIDE DEF n
      <4> QED BY <1>1 DEF DomainPoints
    <3> QED BY <3>1, <3>2
  <2>7. p \in Scalars(n)
    BY <2>2, <2>6
  <2> QED BY <2>1, <2>4, <2>5, <2>6, <2>7 DEF p
<1> HIDE DEF ext, grid
<1>12. ext \in [Indices(N) -> [Indices(n) -> Scalar]]
  BY <1>6, <1>11 DEF Scalars
<1>13. DOMAIN b.header = Indices(N)
  BY <1>10
<1>14. IsBlock(b)
  <2>1. ASSUME NEW y \in Indices(N) PROVE DOMAIN b.header[y] = Indices(n)
    BY <1>11 DEF Scalars
  <2>2. Sided(grid)
    BY <1>1, <1>3 DEF Sided
  <2> QED BY <1>1, <1>2, <1>3, <1>4, <1>7, <1>11, <1>12, <1>13, <2>1, <2>2 DEF IsBlock
<1>15. HasSizes(b)
  <2>1. (\E i \in Nat : N = TwoTo(i)) /\ (\E i \in Nat : n = TwoTo(i))
    BY SidesAre
  <2> QED BY <1>2, <1>3, <1>4, <2>1 DEF HasSizes
<1> QED BY <1>14, <1>15 DEF b

-------------------------------------------------------------------------------
\* The positions of a client.

\* The grid whose cells the positions number,
Numbered(b) == IF b.kind = "cell" THEN b.grid ELSE MultiproofDims(b.grid, b.target)

\* and that there is one.
Sampled(b) == b.kind = "mcell" => MultiproofDims(b.grid, b.target) # NoDims

\* The positions the model gives client c of block b.
PositionsOf(b, c) ==
  CASE b.kind = "cell" -> ExtendedPartitionPositions(b.dims, c, b.fraction)
    [] b.kind = "mcell" /\ MultiproofDims(b.grid, b.target) = NoDims -> << >>
    [] b.kind = "mcell" /\ MultiproofDims(b.grid, b.target) # NoDims ->
         McellPartitionPositions(MultiproofDims(b.grid, b.target), c, b.fraction)

\* They are those of the client whose turn it is.
LEMMA PositionsIs == Positions = PositionsOf(job, client)
BY Zenon DEF Positions, PositionsOf, McellDims

\* The numbered grid has sides, and as many cells as a float holds exactly.
LEMMA NumberedIs ==
  ASSUME NEW b, IsBlock(b), HasSizes(b), Sampled(b), NEW t, t = Numbered(b)
  PROVE  /\ Sided(t) /\ Precise(t.rows * t.cols, b.fraction)
         /\ \E k \in Nat : t.rows * t.cols = TwoTo(k)
<1> DEFINE R == b.grid.rows
           C == b.grid.cols
<1>1. R \in Nat \ {0} /\ C \in Nat \ {0} /\ b.fraction \in Nat \ {0} /\ b.kind \in {"cell", "mcell"}
  BY DEF IsBlock, Sided
<1>2. PICK i \in Nat : R = TwoTo(i)
  BY DEF HasSizes
<1>3. PICK j \in Nat : C = TwoTo(j)
  BY DEF HasSizes
<1>4. 4 * (R * C) <= TwoTo(Precision) /\ b.fraction < TwoTo(Precision) /\ TwoTo(Precision) \in Int
  <2>1. TwoTo(Precision) \in Int
    BY PrecisionAssumption, TwoToType
  <2> QED BY <2>1 DEF HasSizes
<1>5. \E w, h \in Nat \ {0} : t.rows * h = R /\ t.cols * w = C /\ Sided(t)
  <2>1. CASE b.kind = "cell"
    <3>1. t = b.grid /\ R * 1 = R /\ C * 1 = C /\ 1 \in Nat \ {0}
      BY <1>1, <2>1 DEF Numbered
    <3> QED BY <3>1 DEF IsBlock
  <2>2. CASE b.kind = "mcell"
    <3> DEFINE mp == MultiproofDims(b.grid, b.target)
               w == b.grid.cols \div mp.cols
               h == b.grid.rows \div mp.rows
    <3>1. t = mp /\ mp # NoDims
      BY <2>2 DEF Numbered, Sampled
    <3>2. /\ Sided(mp) /\ w \in Nat \ {0} /\ h \in Nat \ {0}
          /\ b.grid.cols = mp.cols * w /\ b.grid.rows = mp.rows * h
      BY <3>1, Tiles DEF IsBlock
    <3> HIDE DEF mp, w, h
    <3> QED BY <3>1, <3>2
  <2> QED BY <1>1, <2>1, <2>2
<1>6. PICK w, h \in Nat \ {0} : t.rows * h = R /\ t.cols * w = C /\ Sided(t)
  BY <1>5
<1> DEFINE r == t.rows
           c == t.cols
<1>7. r \in Nat \ {0} /\ c \in Nat \ {0} /\ r * h = R /\ c * w = C
  BY <1>6 DEF Sided
<1> HIDE DEF r, c, R, C
<1>8. PICK k \in Nat : r * c = TwoTo(k)
  <2>1. PICK m \in 0 .. i : r = TwoTo(m)
    BY <1>2, <1>7, FactorOfPower
  <2>2. PICK n \in 0 .. j : c = TwoTo(n)
    BY <1>3, <1>7, FactorOfPower
  <2>3. m \in Nat /\ n \in Nat /\ m + n \in Nat
    OBVIOUS
  <2>4. TwoTo(m + n) = r * c
    BY <2>1, <2>2, <2>3, TwoToPlus
  <2> QED BY <2>3, <2>4
<1>9. r * c \in Nat \ {0} /\ r * c <= R * C /\ R * C \in Nat
  <2>1. r <= R
    BY <1>1, <1>7
  <2>2. c <= C
    BY <1>1, <1>7
  <2>3. r * c <= R * c
    BY <1>1, <1>7, <2>1
  <2>4. R * c <= R * C
    BY <1>1, <1>7, <2>2
  <2>5. r * c \in Nat /\ r * c # 0 /\ R * c \in Nat /\ R * C \in Nat
    BY <1>1, <1>7
  <2> DEFINE x == r * c
             y == R * c
             z == R * C
  <2>6. x \in Nat \ {0} /\ x <= y /\ y <= z /\ y \in Nat /\ z \in Nat
    BY <2>3, <2>4, <2>5
  <2> HIDE DEF x, y, z
  <2>7. x \in Nat \ {0} /\ x <= z /\ z \in Nat
    BY <2>6
  <2> QED BY <2>7 DEF x, z
<1>10. Precise(r * c, b.fraction)
  <2> DEFINE x == r * c
             z == R * C
  <2>1. x \in Nat \ {0} /\ x <= z /\ z \in Nat /\ 4 * z <= TwoTo(Precision)
    BY <1>4, <1>9
  <2> HIDE DEF x, z
  <2>2. 4 * x <= TwoTo(Precision)
    BY <1>4, <2>1
  <2>3. Precise(x, b.fraction)
    BY <1>1, <1>4, <2>1, <2>2 DEF Precise
  <2> QED BY <2>3 DEF x
<1> QED BY <1>6, <1>8, <1>10 DEF r, c

\* Row and column of a cell's number,
LEMMA RowAndColumn ==
  ASSUME NEW r \in Nat \ {0}, NEW c \in Nat \ {0}, NEW z \in Nat, z < r * c
  PROVE  z \div c \in Indices(r) /\ z % c \in Indices(c)
<1> DEFINE q == z \div c
           m == z % c
<1>1. q \in Int /\ m \in Nat /\ m < c /\ z = c * q + m
  BY DivIs
<1> HIDE DEF q, m
<1>2. q >= 0
  <2> SUFFICES ASSUME q <= -1 PROVE FALSE
    BY <1>1
  <2>0. -1 \in Int /\ q \in Int /\ (-1) * c = -c /\ q * c = c * q
    BY <1>1
  <2>1. q * c <= (-1) * c /\ q * c = c * q /\ (-1) * c = -c
    BY <2>0, TimesOrder
  <2>2. c * q \in Int
    BY <1>1
  <2> QED BY <1>1, <2>1, <2>2
<1>3. q < r
  <2>1. c * q <= z /\ c * q \in Int /\ c * q = q * c /\ r * c \in Int
    <3>1. c * q \in Int
      BY <1>1
    <3> QED BY <1>1, <3>1
  <2>2. q * c < r * c
    <3> DEFINE x == c * q
               y == r * c
    <3>1. x <= z /\ z < y /\ x \in Int /\ y \in Int /\ q * c = x
      BY <2>1
    <3> HIDE DEF x, y
    <3>2. x < y
      BY <3>1
    <3> QED BY <3>1, <3>2 DEF y
  <2> QED BY <1>1, <2>2, TimesOrder
<1> QED BY <1>1, <1>2, <1>3 DEF Indices, q, m

\* and the number of a row and a column.
LEMMA NumberOf ==
  ASSUME NEW r \in Nat \ {0}, NEW c \in Nat \ {0}, NEW y \in Indices(r), NEW x \in Indices(c)
  PROVE  /\ y * c + x \in Nat /\ y * c + x < r * c
         /\ (y * c + x) \div c = y /\ (y * c + x) % c = x
<1>1. y \in Nat /\ x \in Nat /\ y <= r - 1 /\ x < c
  BY DEF Indices
<1>2. y * c \in Nat /\ (r - 1) * c = r * c - c /\ r * c \in Nat
  BY <1>1
<1>3. y * c <= (r - 1) * c
  BY <1>1, TimesOrder
<1> DEFINE v == y * c
           w == r * c
           z == v + x
<1>4. z \in Nat /\ z < w
  <2>1. v \in Nat /\ w \in Nat /\ v <= w - c
    BY <1>2, <1>3
  <2> HIDE DEF v, w
  <2> QED BY <1>1, <2>1
<1> DEFINE q == z \div c
           m == z % c
<1>5. q \in Int /\ m \in Nat /\ m < c /\ z = c * q + m
  <2>1. z \in Int
    BY <1>4
  <2> HIDE DEF z
  <2> QED BY <2>1, DivIs
<1> HIDE DEF q, m, z
<1>6. c * q + m = y * c + x
  BY <1>5 DEF z
<1>7. q = y
  <2>1. ASSUME q <= y - 1 PROVE FALSE
    <3>1. q * c <= (y - 1) * c /\ (y - 1) * c = y * c - c /\ q * c = c * q
      BY <1>1, <1>5, <2>1, TimesOrder
    <3>2. q * c \in Int /\ y * c \in Int
      BY <1>1, <1>5
    <3> QED BY <1>1, <1>5, <1>6, <3>1, <3>2
  <2>2. ASSUME q >= y + 1 PROVE FALSE
    <3>1. (y + 1) * c <= q * c /\ (y + 1) * c = y * c + c /\ q * c = c * q
      BY <1>1, <1>5, <2>2, TimesOrder
    <3>2. q * c \in Int /\ y * c \in Int
      BY <1>1, <1>5
    <3> QED BY <1>1, <1>5, <1>6, <3>1, <3>2
  <2> QED BY <1>1, <1>5, <2>1, <2>2
<1>8. m = x
  <2>1. c * q = y * c /\ y * c \in Int
    BY <1>1, <1>7
  <2> QED BY <1>1, <1>5, <1>6, <2>1
<1> QED BY <1>4, <1>7, <1>8 DEF q, m, z

\* A client's positions are the cells of its slice, all inside the grid.
LEMMA PositionsAre ==
  ASSUME NEW b, IsBlock(b), HasSizes(b), Sampled(b), NEW t, t = Numbered(b),
         NEW n \in 1 .. b.fraction,
         NEW s, s = SliceStart(t.rows * t.cols, n, b.fraction),
         NEW e, e = SliceEnd(t.rows * t.cols, n, b.fraction),
         NEW p, p = PositionsOf(b, n)
  PROVE  /\ s \in Nat /\ e \in Nat /\ Len(p) \in Nat /\ DOMAIN p = 1 .. Len(p)
         /\ \A k \in 1 .. Len(p) :
              /\ p[k].row \in Indices(t.rows) /\ p[k].col \in Indices(t.cols)
              /\ s + k - 1 \in Nat
              /\ p[k] = Position((s + k - 1) \div t.cols, (s + k - 1) % t.cols)
         /\ \A k \in 1 .. (e - s) : k \in 1 .. Len(p)
<1> DEFINE r == t.rows
           c == t.cols
           size == r * c
<1>1. r \in Nat \ {0} /\ c \in Nat \ {0} /\ Precise(size, b.fraction) /\ \E k \in Nat : size = TwoTo(k)
  BY NumberedIs DEF Sided
<1>2. b.fraction \in Nat \ {0} /\ b.kind \in {"cell", "mcell"} /\ size \in Nat
  BY <1>1 DEF IsBlock
<1>3. p = [k \in 1 .. (e - s) |-> Position((s + k - 1) \div c, (s + k - 1) % c)]
  <2>1. CASE b.kind = "cell"
    <3>1. t = b.grid
      BY <2>1 DEF Numbered
    <3>2. c = b.dims.cols /\ r = ExtendedRows(b.dims)
      BY <3>1 DEF IsBlock
    <3>3. p = SlicePositions(b.dims, ExtendedSize(b.dims), n, b.fraction)
      BY <2>1 DEF PositionsOf, ExtendedPartitionPositions
    <3>4. ExtendedSize(b.dims) = size
      BY <3>2 DEF ExtendedSize
    <3>5. p = [k \in 1 .. (e - s) |->
                 Position((s + k - 1) \div b.dims.cols, (s + k - 1) % b.dims.cols)]
      BY <3>3, <3>4, Zenon DEF SlicePositions
    <3> HIDE DEF c
    <3> QED BY <3>2, <3>5
  <2>2. CASE b.kind = "mcell"
    <3>1. t = MultiproofDims(b.grid, b.target) /\ t # NoDims
      BY <2>2 DEF Numbered, Sampled
    <3>2. p = McellPartitionPositions(t, n, b.fraction)
      BY <2>2, <3>1 DEF PositionsOf
    <3>3. p = SlicePositions(t, size, n, b.fraction)
      BY <3>2, Zenon DEF McellPartitionPositions, Size
    <3> QED BY <3>3, Zenon DEF SlicePositions
  <2> QED BY <1>2, <2>1, <2>2
<1>4. s \in Nat /\ e \in Nat /\ e <= size
  <2>1. s \in Nat /\ e \in Nat
    <3> HIDE DEF size
    <3> QED BY <1>1, SliceIs DEF size
  <2>2. PICK k \in Nat : size = TwoTo(k)
    BY <1>1
  <2>3. e <= size
    <3> HIDE DEF size
    <3>1. SliceEnd(size, n, b.fraction) <= size
      BY <1>1, <2>2, SliceInside
    <3> QED BY <3>1 DEF size
  <2> QED BY <2>1, <2>3
<1> DEFINE l == IF e > s THEN e - s ELSE 0
<1>5. l \in Nat /\ 1 .. l = 1 .. (e - s)
  BY <1>4
<1>6. Len(p) = l /\ DOMAIN p = 1 .. l
  <2> HIDE DEF l
  <2>1. p = [k \in 1 .. l |-> Position((s + k - 1) \div c, (s + k - 1) % c)]
    <3> HIDE DEF c
    <3> QED BY <1>3, <1>5
  <2> QED BY <1>5, <2>1
<1>7. ASSUME NEW k \in 1 .. l
      PROVE  /\ p[k].row \in Indices(r) /\ p[k].col \in Indices(c) /\ s + k - 1 \in Nat
             /\ p[k] = Position((s + k - 1) \div c, (s + k - 1) % c)
  <2> DEFINE z == s + k - 1
  <2>1. z \in Nat /\ z < size /\ k \in 1 .. (e - s)
    <3> HIDE DEF size
    <3> QED BY <1>2, <1>4, <1>5
  <2>2. p[k] = Position(z \div c, z % c)
    <3> HIDE DEF c
    <3> QED BY <1>3, <2>1
  <2> HIDE DEF z
  <2>3. z \div c \in Indices(r) /\ z % c \in Indices(c)
    <3> HIDE DEF r, c
    <3> QED BY <1>1, <2>1, RowAndColumn
  <2>4. p[k].row = z \div c /\ p[k].col = z % c
    <3> HIDE DEF c
    <3> QED BY <2>2 DEF Position
  <2>5. p[k].row \in Indices(r) /\ p[k].col \in Indices(c)
    <3> HIDE DEF r, c
    <3> QED BY <2>3, <2>4
  <2> QED BY <2>1, <2>2, <2>5 DEF z
<1> HIDE DEF r, c
<1> QED BY <1>4, <1>5, <1>6, <1>7 DEF r, c

\* The slices of all clients leave no cell out.
LEMMA SlicesCover ==
  ASSUME NEW b, IsBlock(b), HasSizes(b), Sampled(b), NEW t, t = Numbered(b),
         NEW y \in Indices(t.rows), NEW x \in Indices(t.cols)
  PROVE  \E n \in 1 .. b.fraction : \E k \in 1 .. Len(PositionsOf(b, n)) :
           PositionsOf(b, n)[k] = Position(y, x)
<1> DEFINE r == t.rows
           c == t.cols
           f == b.fraction
           z == y * c + x
           Start(n) == SliceStart(r * c, n, f)
           End(n) == SliceEnd(r * c, n, f)
<1>1. r \in Nat \ {0} /\ c \in Nat \ {0} /\ Precise(r * c, f)
  BY NumberedIs DEF Sided
<1>2. f \in Nat \ {0}
  BY DEF IsBlock
<1>3. z \in Nat /\ z < r * c /\ z \div c = y /\ z % c = x
  BY <1>1, NumberOf
<1>4. /\ \A n \in 1 .. f : Start(n) \in Nat /\ End(n) \in Nat /\ (n < f => Start(n + 1) <= End(n))
      /\ Start(1) = 0 /\ r * c <= End(f)
  <2> HIDE DEF r, c, f
  <2> DEFINE size == r * c
  <2>1. Precise(size, f)
    BY <1>1
  <2> HIDE DEF size
  <2>2. /\ \A n \in 1 .. f :
              /\ SliceStart(size, n, f) \in Nat /\ SliceEnd(size, n, f) \in Nat
              /\ n < f => SliceStart(size, n + 1, f) <= SliceEnd(size, n, f)
        /\ SliceStart(size, 1, f) = 0
        /\ size <= SliceEnd(size, f, f)
    BY <2>1, SliceIs
  <2>3. ASSUME NEW i \in 1 .. f
        PROVE  Start(i) \in Nat /\ End(i) \in Nat /\ (i < f => Start(i + 1) <= End(i))
    BY <2>2 DEF size
  <2>4. Start(1) = 0 /\ r * c <= End(f)
    BY <2>2 DEF size
  <2> HIDE DEF Start, End
  <2> QED BY <2>3, <2>4
<1> HIDE DEF Start, End
<1> DEFINE Covers(n) == Start(n) <= z /\ z < End(n)
           T == {0} \cup {n \in 1 .. f : z < End(n) => \E m \in 1 .. f : Covers(m)}
<1>5. ASSUME NEW n \in 1 .. f, n - 1 \in T PROVE n \in T
  <2> SUFFICES ASSUME z < End(n) PROVE \E m \in 1 .. f : Covers(m)
    OBVIOUS
  <2>1. CASE Start(n) <= z
    BY <2>1
  <2>2. CASE z < Start(n)
    <3>1. n # 1
      BY <1>3, <1>4, <2>2
    <3> DEFINE m == n - 1
    <3>2. m \in 1 .. f /\ m < f /\ m + 1 = n
      BY <1>2, <3>1
    <3>3. Start(n) <= End(m) /\ End(m) \in Nat /\ Start(n) \in Nat
      BY <1>4, <3>2
    <3>4. z < End(m)
      <4> HIDE DEF m, z
      <4> QED BY <1>3, <2>2, <3>3
    <3>5. m # 0 /\ m \in T
      BY <1>5, <3>2
    <3> HIDE DEF m, Covers
    <3> QED BY <3>4, <3>5
  <2>3. Start(n) \in Nat
    BY <1>4
  <2> HIDE DEF z
  <2> QED BY <1>3, <2>1, <2>2, <2>3
<1>6. \A n \in 0 .. f : n \in T
  <2>1. 0 \in T
    OBVIOUS
  <2> HIDE DEF T
  <2> QED BY <1>2, <1>5, <2>1, UpTo
<1>7. PICK n \in 1 .. f : Covers(n)
  <2>1. f \in T /\ f # 0 /\ f \in 1 .. f
    <3> HIDE DEF T
    <3> QED BY <1>2, <1>6
  <2>2. z < End(f)
    <3> DEFINE v == r * c
    <3>1. z < v /\ v <= End(f) /\ v \in Int /\ End(f) \in Int
      BY <1>1, <1>2, <1>3, <1>4
    <3> HIDE DEF v, z
    <3> QED BY <1>3, <3>1
  <2> HIDE DEF Covers
  <2> QED BY <2>1, <2>2
<1> DEFINE p == PositionsOf(b, n)
           s == Start(n)
           k == z - s + 1
<1>8. s \in Nat /\ End(n) \in Nat /\ s <= z /\ z < End(n)
  BY <1>4, <1>7
<1>9. k \in 1 .. (End(n) - s) /\ s + k - 1 = z
  <2> HIDE DEF z, s
  <2> QED BY <1>3, <1>8
<1>10. k \in 1 .. Len(p) /\ p[k] = Position((s + k - 1) \div c, (s + k - 1) % c)
  <2> DEFINE e == End(n)
  <2>1. /\ \A i \in 1 .. Len(p) : p[i] = Position((s + i - 1) \div c, (s + i - 1) % c)
        /\ \A i \in 1 .. (e - s) : i \in 1 .. Len(p)
    <3>1. s = SliceStart(t.rows * t.cols, n, b.fraction) /\ e = SliceEnd(t.rows * t.cols, n, b.fraction)
      BY DEF Start, End
    <3> HIDE DEF s, e, p
    <3>2. p = PositionsOf(b, n)
      BY DEF p
    <3> QED BY <3>1, <3>2, PositionsAre
  <2>2. k \in 1 .. Len(p)
    <3> HIDE DEF s, k, p
    <3> QED BY <1>9, <2>1
  <2> HIDE DEF s, k, p, c
  <2> QED BY <2>1, <2>2
<1>11. p[k] = Position(y, x)
  <2> HIDE DEF k, p, c, z, s
  <2> QED BY <1>3, <1>9, <1>10
<1> HIDE DEF k
<1> QED BY <1>10, <1>11

-------------------------------------------------------------------------------
\* Bytes of proofs.

\* A scalar comes back from its limbs.
LEMMA LimbsIs ==
  ASSUME NEW s \in Nat
  PROVE  /\ Limbs(s) \in Seq(Nat) /\ Len(Limbs(s)) = 2 /\ Limbs(s) = << Limbs(s)[1], Limbs(s)[2] >>
         /\ ScalarOf(Limbs(s)) = s /\ ScalarOf(<< Limbs(s)[1], Limbs(s)[2] >>) = s
<1>1. s \div 16 \in Nat /\ s % 16 \in Nat /\ (s \div 16) * 16 + (s % 16) = s
  OBVIOUS
<1> DEFINE a == s \div 16
           b == s % 16
<1>2. a \in Nat /\ b \in Nat /\ a * 16 + b = s /\ Limbs(s) = << a, b >>
  BY <1>1 DEF Limbs, LimbBase
<1> HIDE DEF a, b
<1>3. Limbs(s)[1] = a /\ Limbs(s)[2] = b
  BY <1>2
<1>4. ScalarOf(<< a, b >>) = s
  BY <1>2 DEF ScalarOf, LimbBase
<1>5. Limbs(s) \in Seq(Nat) /\ Len(Limbs(s)) = 2
  BY <1>2
<1> QED BY <1>2, <1>3, <1>4, <1>5

\* A function on 1 .. n is a sequence.
LEMMA FunctionIsSeq ==
  ASSUME NEW S, NEW n \in Nat, NEW f \in [1 .. n -> S]
  PROVE  f \in Seq(S) /\ Len(f) = n
<1>1. f \in Seq(S)
  BY SeqDef
<1>2. DOMAIN f = 1 .. Len(f) /\ Len(f) \in Nat /\ DOMAIN f = 1 .. n
  BY <1>1, LenProperties
<1> QED BY <1>1, <1>2

\* Numbers after numbers.
LEMMA NumbersJoined ==
  ASSUME NEW a \in Seq(Nat), NEW b \in Seq(Nat)
  PROVE  /\ a \o b \in Seq(Nat) /\ Len(a \o b) = Len(a) + Len(b)
         /\ \A i \in 1 .. Len(a) + Len(b) : (a \o b)[i] = IF i <= Len(a) THEN a[i] ELSE b[i - Len(a)]
BY ConcatProperties

\* A block of cells comes back from its bytes.
ComesBack(cell, bytes, number, block, scalars) ==
  /\ bytes \in Seq(Nat) /\ bytes # << >>
  /\ cell.ok /\ cell.proof = number /\ cell.block = block
  /\ Len(cell.scalars) = Len(scalars) /\ DOMAIN cell.scalars = 1 .. Len(scalars)
  /\ \A k \in 1 .. Len(scalars) : ScalarOf(cell.scalars[k]) = scalars[k]

\* to_bytes and from_bytes undo each other.
LEMMA BytesIs ==
  ASSUME NEW number \in Nat,
         NEW sx \in Nat, NEW sy \in Nat, NEW ex \in Nat, NEW ey \in Nat, NEW block,
         block = [start_x |-> sx, start_y |-> sy, end_x |-> ex, end_y |-> ey],
         NEW scalars \in Seq(Nat), NEW at,
         NEW bytes, bytes = ToBytes([proof |-> number, block |-> block,
                                     scalars |-> [i \in DOMAIN scalars |-> Limbs(scalars[i])]]),
         NEW cell, cell = FromBytes(at, bytes)
  PROVE  ComesBack(cell, bytes, number, block, scalars)
<1> DEFINE K == Len(scalars)
           limbs == [k \in DOMAIN scalars |-> Limbs(scalars[k])]
           head == << number, sx, sy, ex, ey, K >>
           data == FlattenSeq(limbs)
<1>1. K \in Nat /\ DOMAIN scalars = 1 .. K /\ \A k \in 1 .. K : scalars[k] \in Nat
  BY LenProperties
<1>2. limbs \in Seq(Seq(Nat)) /\ Len(limbs) = K /\ \A k \in 1 .. K : limbs[k] = Limbs(scalars[k])
  <2> HIDE DEF K
  <2>1. ASSUME NEW k \in 1 .. K PROVE limbs[k] = Limbs(scalars[k]) /\ limbs[k] \in Seq(Nat)
    <3>1. scalars[k] \in Nat /\ limbs[k] = Limbs(scalars[k])
      BY <1>1
    <3> HIDE DEF limbs
    <3> QED BY <3>1, LimbsIs
  <2>2. limbs = [k \in 1 .. K |-> limbs[k]]
    BY <1>1
  <2> HIDE DEF limbs
  <2>3. limbs \in [1 .. K -> Seq(Nat)]
    BY <2>1, <2>2
  <2> QED BY <1>1, <2>1, <2>3, FunctionIsSeq
<1>3. \A k \in 1 .. K : Len(limbs[k]) = 2
  <2> HIDE DEF limbs, K
  <2>1. ASSUME NEW k \in 1 .. K PROVE Len(limbs[k]) = 2
    <3>1. scalars[k] \in Nat /\ limbs[k] = Limbs(scalars[k])
      BY <1>1, <1>2
    <3> QED BY <3>1, LimbsIs
  <2> QED BY <2>1
<1>4. /\ data \in Seq(Nat) /\ Len(data) = K * 2
      /\ \A k \in 1 .. K, j \in 1 .. 2 :
           /\ (k - 1) * 2 + j \in 1 .. (K * 2)
           /\ data[(k - 1) * 2 + j] = limbs[k][j]
  <2> HIDE DEF limbs, K
  <2> DEFINE m == 2
  <2>1. /\ m \in Nat /\ limbs \in Seq(Seq(Nat)) /\ Len(limbs) = K
        /\ \A i \in 1 .. Len(limbs) : Len(limbs[i]) = m
    BY <1>2, <1>3
  <2> HIDE DEF m
  <2>2. /\ FlattenSeq(limbs) \in Seq(Nat)
        /\ Len(FlattenSeq(limbs)) = Len(limbs) * m
        /\ \A i \in 1 .. Len(limbs), j \in 1 .. m :
             /\ (i - 1) * m + j \in 1 .. (Len(limbs) * m)
             /\ FlattenSeq(limbs)[(i - 1) * m + j] = limbs[i][j]
    BY <2>1, JoinRows
  <2> QED BY <2>1, <2>2 DEF m
<1>5. bytes = head \o data
  BY <1>2 DEF ToBytes, CellData
<1>6. head \in Seq(Nat) /\ Len(head) = 6 /\ head[6] = K
  <2> HIDE DEF K
  <2> QED BY <1>1
<1>7. head[1] = number /\ head[2] = sx /\ head[3] = sy /\ head[4] = ex /\ head[5] = ey
  OBVIOUS
<1> HIDE DEF head, data, limbs, K
<1>8. /\ bytes \in Seq(Nat) /\ Len(bytes) = 6 + Len(data)
      /\ \A i \in 1 .. 6 + Len(data) : bytes[i] = IF i <= 6 THEN head[i] ELSE data[i - 6]
  <2>1. /\ head \o data \in Seq(Nat) /\ Len(head \o data) = Len(head) + Len(data)
        /\ \A i \in 1 .. Len(head) + Len(data) :
             (head \o data)[i] = IF i <= Len(head) THEN head[i] ELSE data[i - Len(head)]
    BY <1>4, <1>6, NumbersJoined, Zenon
  <2> QED BY <1>5, <1>6, <2>1
<1>17. Len(data) \in Nat
  BY <1>1, <1>4
<1>9. \A i \in 1 .. 6 : bytes[i] = head[i]
  <2> SUFFICES ASSUME NEW i \in 1 .. 6 PROVE bytes[i] = head[i]
    OBVIOUS
  <2>1. i \in 1 .. 6 + Len(data) /\ i <= 6
    BY <1>17
  <2>2. bytes[i] = IF i <= 6 THEN head[i] ELSE data[i - 6]
    BY <1>8, <2>1
  <2> QED BY <2>1, <2>2
<1>10. FixedLen = 6 /\ LIMBS = 2
  BY DEF FixedLen, PROOF_LEN, BLOCK_LEN, COUNT_LEN, LIMBS
<1>11. ~(Len(bytes) < FixedLen) /\ ~(Len(bytes) - FixedLen # LIMBS * bytes[FixedLen]) /\ bytes[6] = K
  <2>1. bytes[6] = K
    BY <1>6, <1>9
  <2>2. Len(bytes) = 6 + K * 2
    BY <1>4, <1>8
  <2>3. Len(bytes) = 6 + 2 * K /\ ~(Len(bytes) < 6)
    BY <1>1, <2>2
  <2>4. Len(bytes) - 6 = 2 * K
    BY <1>1, <2>3
  <2> QED BY <1>10, <2>1, <2>3, <2>4
<1> DEFINE parts == [k \in 1 .. K |-> SubSeq(bytes, 6 + 2 * (k - 1) + 1, 6 + 2 * k)]
<1>12. cell = [ok |-> TRUE, position |-> at, proof |-> bytes[1],
               block |-> [start_x |-> bytes[2], start_y |-> bytes[3], end_x |-> bytes[4],
                          end_y |-> bytes[5]],
               scalars |-> parts]
  BY <1>10, <1>11 DEF FromBytes
<1>18. DOMAIN parts = 1 .. K /\ Len(parts) = K
  BY <1>1
<1> HIDE DEF parts
<1>19. cell.scalars = parts
  BY <1>12
<1>13. cell.block = block /\ cell.proof = number /\ cell.ok
  <2>1. bytes[1] = number /\ bytes[2] = sx /\ bytes[3] = sy /\ bytes[4] = ex /\ bytes[5] = ey
    BY <1>7, <1>9
  <2> QED BY <1>12, <2>1
<1>14. ASSUME NEW k \in 1 .. K PROVE ScalarOf(cell.scalars[k]) = scalars[k]
  <2> DEFINE m == 6 + 2 * (k - 1) + 1
             n == 6 + 2 * k
             p == (k - 1) * 2
             sub == SubSeq(bytes, m, n)
  <2>1. /\ n - m + 1 = 2 /\ m <= n /\ m = 6 + (p + 1) /\ n = 6 + (p + 2) /\ p \in Nat
        /\ p + 2 <= K * 2 /\ m \in Int /\ n \in Int
    BY <1>1
  <2>2. cell.scalars[k] = sub
    BY <1>19 DEF parts
  <2> HIDE DEF m, n, p
  <2>8. m \in 1 .. 6 + Len(data) /\ n \in 1 .. 6 + Len(data)
    BY <1>1, <1>4, <2>1
  <2>3. sub[1] = bytes[m] /\ sub[2] = bytes[n]
    <3>1. ASSUME NEW i \in m .. n PROVE bytes[i] \in Nat
      <4>1. i \in 1 .. Len(bytes)
        BY <1>8, <1>17, <2>1, <2>8
      <4> QED BY <1>8, <4>1, ElementOfSeq
    <3>2. \A i \in 1 .. n - m + 1 : sub[i] = bytes[m + i - 1]
      BY <2>1, <3>1, SubSeqProperties
    <3>3. m + 1 - 1 = m /\ m + 2 - 1 = n /\ 1 \in 1 .. n - m + 1 /\ 2 \in 1 .. n - m + 1
      BY <2>1
    <3>4. sub[1] = bytes[m + 1 - 1] /\ sub[2] = bytes[m + 2 - 1]
      <4> HIDE DEF sub
      <4> QED BY <3>2, <3>3
    <3> QED BY <3>3, <3>4
  <2>4. bytes[m] = data[p + 1] /\ bytes[n] = data[p + 2]
    <3>1. m - 6 = p + 1 /\ n - 6 = p + 2 /\ ~(m <= 6) /\ ~(n <= 6)
      BY <2>1
    <3> QED BY <1>8, <2>8, <3>1
  <2>5. data[p + 1] = limbs[k][1] /\ data[p + 2] = limbs[k][2]
    <3>1. 1 \in 1 .. 2 /\ 2 \in 1 .. 2
      OBVIOUS
    <3> QED BY <1>4, <3>1 DEF p
  <2>6. sub[1] = Limbs(scalars[k])[1] /\ sub[2] = Limbs(scalars[k])[2]
    BY <1>2, <2>3, <2>4, <2>5
  <2>7. ScalarOf(sub) = ScalarOf(Limbs(scalars[k]))
    <3> HIDE DEF sub
    <3> QED BY <2>6 DEF ScalarOf
  <2> QED BY <1>1, <2>2, <2>7, LimbsIs
<1>15. bytes # << >>
  BY <1>4, <1>8
<1>16. Len(cell.scalars) = K /\ DOMAIN cell.scalars = 1 .. K
  BY <1>18, <1>19
<1> QED BY <1>8, <1>13, <1>14, <1>15, <1>16, Zenon DEF K, ComesBack

-------------------------------------------------------------------------------
\* What a verified proof shows.

\* As many numbers.
LEMMA IndicesCount ==
  ASSUME NEW n \in Nat
  PROVE  Cardinality(Indices(n)) = n
<1>1. 0 \in Int /\ n - 1 \in Int
  OBVIOUS
<1>2. Cardinality(0 .. (n - 1)) = IF 0 > n - 1 THEN 0 ELSE (n - 1) - 0 + 1
  BY <1>1, FS_Interval
<1> QED BY <1>2 DEF Indices

\* A verified cell has the value it shows.
LEMMA CellGenuine ==
  ASSUME NEW b, IsBlock(b), NEW os, NEW y \in Indices(b.grid.rows), NEW x \in Indices(b.grid.cols),
         NEW bytes, VerifyCell(os, b.dims, b.header[y], x, bytes) = "verified"
  PROVE  b.evals[y][x] = ScalarOf(SingleCellData(bytes))
<1> DEFINE v == ScalarOf(SingleCellData(bytes))
           p == DomainPoints(b.dims.cols)[x]
           h == b.header[y]
           claim == [commits |-> << h >>, points |-> << p >>, evals |-> << << v >> >>]
<1>1. Opens(os, SingleCellProof(bytes), claim)
  BY DEF VerifyCell
<1>2. claim.commits[1] = h /\ claim.points[1] = p /\ claim.evals[1][1] = v
  OBVIOUS
<1>3. 1 \in DOMAIN claim.commits /\ 1 \in DOMAIN claim.points
  OBVIOUS
<1> HIDE DEF claim, h, p, v
<1>4. Eval(h, Cardinality(DOMAIN h), p) = v
  BY <1>1, <1>2, <1>3, Zenon DEF Opens
<1>5. /\ DOMAIN h = Indices(b.grid.cols) /\ Eval(h, b.grid.cols, p) = b.evals[y][x]
      /\ b.grid.cols \in Nat
  BY DEF IsBlock, Sided, h, p
<1>6. Cardinality(DOMAIN h) = b.grid.cols
  BY <1>5, IndicesCount
<1> QED BY <1>4, <1>5, <1>6 DEF v

\* Openings claim as many rows of values as they have commitments.
Paired(os) == \A p \in DOMAIN os : DOMAIN os[p].commits = DOMAIN os[p].evals

\* A verified block lies in the matrix, and its cells have the values it shows.
LEMMA BlockGenuine ==
  ASSUME NEW b, IsBlock(b), NEW os, Paired(os), NEW at, NEW bytes \in Seq(Nat),
         NEW cell, cell = FromBytes(at, bytes), cell.ok,
         VerifyMultiProof(os, b.header, b.dims.cols, cell) = "verified",
         NEW z \in CellsOf(cell)
  PROVE  z.row < b.grid.rows /\ z.col < b.grid.cols /\ b.evals[z.row][z.col] = z.value
<1> DEFINE sx == cell.block.start_x
           sy == cell.block.start_y
           ex == cell.block.end_x
           ey == cell.block.end_y
           W == Width(cell.block)
           H == b.grid.rows
           C == b.grid.cols
           grid == EvalsGrid(cell)
           taken == TakenCommits(b.header, cell.block)
           points == [j \in 1 .. W |-> DomainPoints(b.dims.cols)[sx + j - 1]]
           claim == [commits |-> taken, points |-> points, evals |-> grid]
<1>1. sx \in Nat /\ sy \in Nat /\ ex \in Nat /\ ey \in Nat
  <2>1. ~(Len(bytes) < FixedLen)
    BY DEF FromBytes, Unreadable
  <2>2. Len(bytes) \in Nat /\ FixedLen = 6
    BY LenProperties DEF FixedLen, PROOF_LEN, BLOCK_LEN, COUNT_LEN
  <2>3. bytes[2] \in Nat /\ bytes[3] \in Nat /\ bytes[4] \in Nat /\ bytes[5] \in Nat
    <3>1. 2 \in 1 .. Len(bytes) /\ 3 \in 1 .. Len(bytes) /\ 4 \in 1 .. Len(bytes) /\ 5 \in 1 .. Len(bytes)
      BY <2>1, <2>2
    <3> QED BY <3>1, ElementOfSeq
  <2>4. cell.block = [start_x |-> bytes[2], start_y |-> bytes[3], end_x |-> bytes[4], end_y |-> bytes[5]]
    BY DEF FromBytes, Unreadable
  <2> QED BY <2>3, <2>4
<1>2. /\ ~(W <= 0) /\ cell.proof \in DOMAIN os /\ ~(ex > Domain(b.dims.cols))
      /\ Opens(os, cell.proof, claim)
  BY DEF VerifyMultiProof
<1>3. W = ex - sx
  BY DEF Width
<1>4. /\ H \in Nat /\ C \in Nat /\ b.dims.cols = C /\ Domain(b.dims.cols) = C
      /\ DOMAIN b.header = Indices(H)
  BY DEF IsBlock, Sided
<1> HIDE DEF sx, sy, ex, ey, W, H, C
<1>5. os[cell.proof] = claim
  BY <1>2, Zenon DEF Opens
<1>6. DOMAIN taken = DOMAIN grid
  <2>1. claim.commits = taken /\ claim.evals = grid
    OBVIOUS
  <2> HIDE DEF claim, taken, grid
  <2> QED BY <1>2, <1>5, <2>1 DEF Paired
<1> DEFINE last == Min({ey, H})
<1>7. taken = [i \in 1 .. (last - sy) |-> b.header[sy + i - 1]]
  <2>1. Cardinality(DOMAIN b.header) = H
    BY <1>4, IndicesCount
  <2> QED BY <2>1, Zenon DEF TakenCommits, ey, sy
<1>8. last \in Int /\ last <= H
  <2>1. ey \in Int /\ H \in Int
    BY <1>1, <1>4
  <2>2. last \in {ey, H} /\ last <= H
    BY <2>1, MinOfTwo
  <2> HIDE DEF last
  <2> QED BY <2>1, <2>2
<1> HIDE DEF last
<1>9. DOMAIN taken = 1 .. (last - sy)
  BY <1>7
<1>10. PICK i \in DOMAIN grid, j \in 1 .. W :
         z = [row |-> sy + i - 1, col |-> sx + j - 1, value |-> grid[i][j]]
  <2>1. CellsOf(cell) = {[row |-> sy + k - 1, col |-> sx + l - 1, value |-> grid[k][l]]
                           : k \in DOMAIN grid, l \in 1 .. W}
    BY DEF CellsOf, sx, sy, W
  <2> HIDE DEF grid
  <2> QED BY <2>1
<1> DEFINE y == sy + i - 1
           x == sx + j - 1
<1>11. i \in 1 .. (last - sy) /\ j \in 1 .. W /\ W \in Int
  BY <1>1, <1>3, <1>6, <1>9, <1>10
<1>12. y \in Indices(H) /\ x \in Indices(C)
  BY <1>1, <1>2, <1>3, <1>4, <1>8, <1>11 DEF Indices
<1>13. claim.commits[i] = b.header[y] /\ claim.points[j] = DomainPoints(b.dims.cols)[x]
  <2>1. taken[i] = b.header[y]
    BY <1>7, <1>11
  <2>2. points[j] = DomainPoints(b.dims.cols)[x]
    BY <1>11
  <2> HIDE DEF taken, points, grid, x, y
  <2> QED BY <2>1, <2>2
<1>14. claim.evals[i][j] = grid[i][j] /\ i \in DOMAIN claim.commits /\ j \in DOMAIN claim.points
  <2>1. i \in DOMAIN taken /\ j \in DOMAIN points
    BY <1>6, <1>10
  <2> HIDE DEF taken, points, grid
  <2> QED BY <2>1
<1> HIDE DEF claim, grid, taken, points, x, y
<1> DEFINE h == b.header[y]
<1>15. Eval(h, Cardinality(DOMAIN h), DomainPoints(b.dims.cols)[x]) = grid[i][j]
  <2>1. Eval(claim.commits[i], Cardinality(DOMAIN claim.commits[i]), claim.points[j]) = claim.evals[i][j]
    BY <1>2, <1>14, Zenon DEF Opens
  <2> QED BY <1>13, <1>14, <2>1
<1>16. DOMAIN h = Indices(C) /\ Eval(h, C, DomainPoints(b.dims.cols)[x]) = b.evals[y][x]
  BY <1>12 DEF IsBlock, H, C
<1>17. b.evals[y][x] = grid[i][j]
  <2>1. Cardinality(DOMAIN h) = C
    BY <1>4, <1>16, IndicesCount
  <2> QED BY <1>15, <1>16, <2>1
<1>18. z.row = y /\ z.col = x /\ z.value = grid[i][j]
  BY <1>10 DEF x, y
<1>19. y < H /\ x < C
  BY <1>4, <1>12 DEF Indices
<1> QED BY <1>17, <1>18, <1>19 DEF H, C

-------------------------------------------------------------------------------
\* What an honest proof shows.

\* The bytes of a cell,
CellBytes(number, value) == << number >> \o Limbs(value)

\* and that they verify against its opening.
LEMMA CellVerifies ==
  ASSUME NEW b, IsBlock(b), NEW y \in Indices(b.grid.rows), NEW x \in Indices(b.grid.cols),
         NEW number \in Nat, NEW os, number \in DOMAIN os,
         NEW o, o = OpenCell(b.polys, b.evals, x, y),
         NEW bytes, bytes = CellBytes(number, b.evals[y][x])
  PROVE  /\ bytes \in Seq(Nat) /\ bytes # << >> /\ Len(bytes) = PROOF_LEN + LIMBS
         /\ ScalarOf(SingleCellData(bytes)) = b.evals[y][x]
         /\ DOMAIN o.commits = DOMAIN o.evals
         /\ os[number] = o => VerifyCell(os, b.dims, b.header[y], x, bytes) = "verified"
<1> DEFINE v == b.evals[y][x]
           h == b.header[y]
           p == DomainPoints(b.dims.cols)[x]
           l == Limbs(v)
           claim == [commits |-> << h >>, points |-> << p >>, evals |-> << << v >> >>]
<1>1. v \in Scalar /\ v \in Nat /\ v < Prime
  <2>1. v \in Scalar
    BY DEF IsBlock
  <2> HIDE DEF v
  <2> QED BY <2>1, ScalarType, PrimeType DEF Scalar
<1>2. /\ h = b.polys.inner[y] /\ p = b.polys.points[x] /\ DOMAIN h = Indices(b.grid.cols)
      /\ Eval(h, b.grid.cols, p) = v /\ b.grid.cols \in Nat
  BY DEF IsBlock, Sided
<1>3. o = claim
  BY <1>2 DEF OpenCell
<1>4. Opens(os, number, claim) \/ os[number] # o
  <2> SUFFICES ASSUME os[number] = claim PROVE Opens(os, number, claim)
    BY <1>3
  <2>1. Cardinality(DOMAIN h) = b.grid.cols
    BY <1>2, IndicesCount
  <2>2. /\ claim.commits[1] = h /\ claim.points[1] = p /\ claim.evals[1][1] = v
        /\ DOMAIN claim.commits = {1} /\ DOMAIN claim.points = {1}
    OBVIOUS
  <2> HIDE DEF claim, h, p, v
  <2>3. ASSUME NEW i \in DOMAIN claim.commits, NEW j \in DOMAIN claim.points
        PROVE  Eval(claim.commits[i], Cardinality(DOMAIN claim.commits[i]), claim.points[j])
                 = claim.evals[i][j]
    <3>1. i = 1 /\ j = 1
      BY <2>2
    <3> QED BY <1>2, <2>1, <2>2, <3>1
  <2> QED BY <2>3, Zenon DEF Opens
<1>5. l \in Seq(Nat) /\ Len(l) = 2 /\ l = << l[1], l[2] >> /\ ScalarOf(l) = v
  <2> HIDE DEF v
  <2> QED BY <1>1, LimbsIs
<1>6. bytes = << number >> \o l
  BY DEF CellBytes
<1> HIDE DEF l, claim
<1>7. /\ bytes \in Seq(Nat) /\ Len(bytes) = 3
      /\ bytes[1] = number /\ bytes[2] = l[1] /\ bytes[3] = l[2]
  <2> DEFINE n == << number >>
  <2>1. n \in Seq(Nat) /\ Len(n) = 1 /\ n[1] = number
    OBVIOUS
  <2> HIDE DEF n
  <2>2. /\ n \o l \in Seq(Nat) /\ Len(n \o l) = Len(n) + Len(l)
        /\ \A i \in 1 .. Len(n) + Len(l) :
             (n \o l)[i] = IF i <= Len(n) THEN n[i] ELSE l[i - Len(n)]
    BY <1>5, <2>1, NumbersJoined
  <2>3. 1 \in 1 .. Len(n) + Len(l) /\ 2 \in 1 .. Len(n) + Len(l) /\ 3 \in 1 .. Len(n) + Len(l)
    BY <1>5, <2>1
  <2>4. bytes = n \o l
    BY <1>6 DEF n
  <2>5. bytes \in Seq(Nat) /\ Len(bytes) = 3
    BY <1>5, <2>1, <2>2, <2>4
  <2>6. bytes[1] = number
    BY <2>1, <2>2, <2>3, <2>4
  <2>7. bytes[2] = l[2 - 1] /\ bytes[3] = l[3 - 1]
    BY <2>1, <2>2, <2>3, <2>4
  <2> QED BY <2>5, <2>6, <2>7
<1>8. /\ bytes # << >> /\ PROOF_LEN + LIMBS = 3
      /\ SingleCellProof(bytes) = SubSeq(bytes, 1, 1)[1] /\ SingleCellData(bytes) = SubSeq(bytes, 2, 3)
  BY <1>7 DEF PROOF_LEN, LIMBS, SingleCellProof, SingleCellData
<1>9. SingleCellProof(bytes) = number /\ ScalarOf(SingleCellData(bytes)) = v
  <2>1. \A i \in 1 .. 3 : bytes[i] \in Nat
    BY <1>7, ElementOfSeq
  <2>2. \A i \in 1 .. 1 : SubSeq(bytes, 1, 1)[i] = bytes[1 + i - 1]
    <3> DEFINE m == 1
    <3>1. m \in Int /\ (\A i \in m .. m : bytes[i] \in Nat) /\ m - m + 1 = 1 /\ m = 1
      BY <2>1
    <3> HIDE DEF m
    <3>2. \A i \in 1 .. m - m + 1 : SubSeq(bytes, m, m)[i] = bytes[m + i - 1]
      BY <3>1, SubSeqProperties
    <3> QED BY <3>1, <3>2
  <2>3. \A i \in 1 .. 2 : SubSeq(bytes, 2, 3)[i] = bytes[2 + i - 1]
    <3> DEFINE m == 2
               n == 3
    <3>1. /\ m \in Int /\ n \in Int /\ (\A i \in m .. n : bytes[i] \in Nat)
          /\ n - m + 1 = 2 /\ m = 2 /\ n = 3
      BY <2>1
    <3> HIDE DEF m, n
    <3>2. \A i \in 1 .. n - m + 1 : SubSeq(bytes, m, n)[i] = bytes[m + i - 1]
      BY <3>1, SubSeqProperties
    <3> QED BY <3>1, <3>2
  <2> DEFINE d == SubSeq(bytes, 2, 3)
  <2>4. SubSeq(bytes, 1, 1)[1] = number /\ d[1] = l[1] /\ d[2] = l[2]
    <3>1. 1 \in 1 .. 1 /\ 1 \in 1 .. 2 /\ 2 \in 1 .. 2 /\ 1 + 1 - 1 = 1 /\ 2 + 1 - 1 = 2 /\ 2 + 2 - 1 = 3
      OBVIOUS
    <3> QED BY <1>7, <2>2, <2>3, <3>1
  <2> HIDE DEF d
  <2>5. ScalarOf(d) = ScalarOf(l)
    BY <2>4 DEF ScalarOf
  <2> QED BY <1>5, <1>8, <2>4, <2>5 DEF d
<1> HIDE DEF v, h, p
<1>10. ASSUME os[number] = o PROVE VerifyCell(os, b.dims, h, x, bytes) = "verified"
  <2>1. Opens(os, SingleCellProof(bytes),
              [commits |-> << h >>, points |-> << DomainPoints(b.dims.cols)[x] >>,
               evals |-> << << ScalarOf(SingleCellData(bytes)) >> >>])
    BY <1>4, <1>9, <1>10 DEF claim, p
  <2>2. IsScalar(SingleCellData(bytes)) /\ SingleCellProof(bytes) \in DOMAIN os
    BY <1>1, <1>9 DEF IsScalar
  <2> QED BY <2>1, <2>2, Zenon DEF VerifyCell
<1>11. DOMAIN o.commits = DOMAIN o.evals
  BY <1>3 DEF claim
<1> QED BY <1>7, <1>8, <1>9, <1>10, <1>11 DEF v, h

\* A block that lies in the grid.
Lies(b, k, sx, sy, ex, ey) ==
  /\ sx \in Nat /\ sy \in Nat /\ ex \in Nat /\ ey \in Nat
  /\ k = [start_x |-> sx, start_y |-> sy, end_x |-> ex, end_y |-> ey]
  /\ sx < ex /\ sy < ey /\ ex <= b.grid.cols /\ ey <= b.grid.rows

\* The opening of such a block: it claims the values of the matrix, and they
\* are those of the header's polynomials.
OpensBlock(b, o, sx, sy, ex, ey) ==
  /\ o = [commits |-> [i \in 1 .. (ey - sy) |-> b.header[sy + i - 1]],
          points |-> [j \in 1 .. (ex - sx) |-> DomainPoints(b.dims.cols)[sx + j - 1]],
          evals |-> o.evals]
  /\ o.evals = [i \in 1 .. (ey - sy) |-> [j \in 1 .. (ex - sx) |->
                  b.evals[sy + i - 1][sx + j - 1]]]
  /\ o.evals \in Seq(Seq(Nat)) /\ Len(o.evals) = ey - sy
  /\ \A i \in 1 .. Len(o.evals) : Len(o.evals[i]) = ex - sx
  /\ \A i \in 1 .. (ey - sy), j \in 1 .. (ex - sx) :
       /\ o.evals[i][j] \in Nat /\ o.evals[i][j] < Prime
       /\ Eval(b.header[sy + i - 1], b.grid.cols, DomainPoints(b.dims.cols)[sx + j - 1])
            = o.evals[i][j]
       /\ DOMAIN b.header[sy + i - 1] = Indices(b.grid.cols)

\* multiproof opens the block.
LEMMA BlockOpening ==
  ASSUME NEW b, IsBlock(b), NEW k, NEW sx, NEW sy, NEW ex, NEW ey, Lies(b, k, sx, sy, ex, ey),
         NEW o, o = OpenBlock(b.polys, b.evals, k)
  PROVE  OpensBlock(b, o, sx, sy, ex, ey)
<1> DEFINE ys == ey - sy
           xs == ex - sx
           E == [i \in 1 .. ys |-> [j \in 1 .. xs |-> b.evals[sy + i - 1][sx + j - 1]]]
           inner == [i \in 1 .. ys |-> b.polys.inner[sy + i - 1]]
           points == [j \in 1 .. xs |-> b.polys.points[sx + j - 1]]
           commits == [i \in 1 .. ys |-> b.header[sy + i - 1]]
<1>1. /\ sx \in Nat /\ sy \in Nat /\ ex \in Nat /\ ey \in Nat
      /\ sx < ex /\ sy < ey /\ ex <= b.grid.cols /\ ey <= b.grid.rows
      /\ b.grid.cols \in Nat /\ b.grid.rows \in Nat /\ ys \in Nat /\ xs \in Nat
  BY DEF IsBlock, Sided, Lies
<1>2. o = [commits |-> inner, points |-> points, evals |-> E]
  <2>1. k.start_x = sx /\ k.start_y = sy /\ k.end_x = ex /\ k.end_y = ey
    BY DEF Lies
  <2> QED BY <2>1 DEF OpenBlock
<1>3. ASSUME NEW i \in 1 .. ys PROVE sy + i - 1 \in Indices(b.grid.rows)
  BY <1>1 DEF Indices
<1>4. ASSUME NEW j \in 1 .. xs PROVE sx + j - 1 \in Indices(b.grid.cols)
  BY <1>1 DEF Indices
<1>5. inner = commits
  <2>1. \A i \in 1 .. ys : b.polys.inner[sy + i - 1] = b.header[sy + i - 1]
    BY <1>3 DEF IsBlock
  <2> HIDE DEF ys
  <2> QED BY <2>1
<1>6. points = [j \in 1 .. xs |-> DomainPoints(b.dims.cols)[sx + j - 1]]
  BY DEF IsBlock
<1>7. ASSUME NEW i \in 1 .. ys, NEW j \in 1 .. xs
      PROVE  /\ b.evals[sy + i - 1][sx + j - 1] \in Nat /\ b.evals[sy + i - 1][sx + j - 1] < Prime
             /\ Eval(b.header[sy + i - 1], b.grid.cols, DomainPoints(b.dims.cols)[sx + j - 1])
                  = b.evals[sy + i - 1][sx + j - 1]
             /\ DOMAIN b.header[sy + i - 1] = Indices(b.grid.cols)
  <2> DEFINE y == sy + i - 1
             x == sx + j - 1
  <2>1. y \in Indices(b.grid.rows) /\ x \in Indices(b.grid.cols)
    BY <1>3, <1>4
  <2> HIDE DEF y, x
  <2>2. /\ b.evals[y][x] \in Scalar /\ DOMAIN b.header[y] = Indices(b.grid.cols)
        /\ Eval(b.header[y], b.grid.cols, DomainPoints(b.dims.cols)[x]) = b.evals[y][x]
    BY <2>1 DEF IsBlock
  <2>3. b.evals[y][x] \in Nat /\ b.evals[y][x] < Prime
    BY <2>2, ScalarType, PrimeType DEF Scalar
  <2> QED BY <2>2, <2>3 DEF x, y
<1> HIDE DEF ys, xs
<1>8. ASSUME NEW i \in 1 .. ys PROVE E[i] \in Seq(Nat) /\ Len(E[i]) = xs
  <2> DEFINE f == E[i]
  <2>1. f \in [1 .. xs -> Nat]
    BY <1>7
  <2> HIDE DEF f
  <2>2. f \in Seq(Nat) /\ Len(f) = xs
    BY <1>1, <2>1, FunctionIsSeq
  <2> QED BY <2>2 DEF f
<1>9. E \in Seq(Seq(Nat)) /\ Len(E) = ys
  <2>1. E = [i \in 1 .. ys |-> E[i]]
    OBVIOUS
  <2> HIDE DEF E
  <2>2. E \in [1 .. ys -> Seq(Nat)]
    BY <1>8, <2>1
  <2> QED BY <1>1, <2>2, FunctionIsSeq
<1>10. ASSUME NEW i \in 1 .. ys, NEW j \in 1 .. xs PROVE E[i][j] = b.evals[sy + i - 1][sx + j - 1]
  OBVIOUS
<1>11. o.evals = E /\ o.commits = inner /\ o.points = points
  <2> HIDE DEF E, inner, points
  <2> QED BY <1>2
<1> HIDE DEF inner, points, commits
<1>12. /\ o.evals \in Seq(Seq(Nat)) /\ Len(o.evals) = ys
       /\ \A i \in 1 .. Len(o.evals) : Len(o.evals[i]) = xs
  <2> HIDE DEF E
  <2> QED BY <1>8, <1>9, <1>11
<1>13. \A i \in 1 .. ys, j \in 1 .. xs :
              /\ o.evals[i][j] \in Nat /\ o.evals[i][j] < Prime
              /\ Eval(b.header[sy + i - 1], b.grid.cols, DomainPoints(b.dims.cols)[sx + j - 1])
                   = o.evals[i][j]
              /\ DOMAIN b.header[sy + i - 1] = Indices(b.grid.cols)
  <2> HIDE DEF E
  <2> QED BY <1>7, <1>10, <1>11
<1>14. o = [commits |-> commits, points |-> points, evals |-> o.evals]
  <2> HIDE DEF E
  <2> QED BY <1>2, <1>5, <1>11
<1> QED BY <1>6, <1>11, <1>12, <1>13, <1>14, Zenon DEF ys, xs, commits, OpensBlock

\* The bytes of a block.
BlockBytes(number, k, o) ==
  ToBytes([proof |-> number, block |-> k,
           scalars |-> [i \in DOMAIN FlattenSeq(o.evals) |-> Limbs(FlattenSeq(o.evals)[i])]])

\* What the bytes show a client: the values of the block's cells, and a proof
\* that verifies against the node's opening.
Shows(b, o, number, os, sx, sy, ex, ey, bytes, cell) ==
  /\ bytes \in Seq(Nat) /\ bytes # << >> /\ cell.ok
  /\ DOMAIN o.commits = DOMAIN o.evals
  /\ os[number] = o => VerifyMultiProof(os, b.header, b.dims.cols, cell) = "verified"
  /\ \A y \in sy .. (ey - 1), x \in sx .. (ex - 1) :
       [row |-> y, col |-> x, value |-> b.evals[y][x]] \in CellsOf(cell)

\* They do.
LEMMA BlockVerifies ==
  ASSUME NEW b, IsBlock(b), NEW k, NEW sx, NEW sy, NEW ex, NEW ey, Lies(b, k, sx, sy, ex, ey),
         NEW o, o = OpenBlock(b.polys, b.evals, k),
         NEW number \in Nat, NEW os, number \in DOMAIN os, NEW at,
         NEW bytes, bytes = BlockBytes(number, k, o),
         NEW cell, cell = FromBytes(at, bytes)
  PROVE  Shows(b, o, number, os, sx, sy, ex, ey, bytes, cell)
<1> DEFINE ys == ey - sy
           xs == ex - sx
           E == o.evals
           flat == FlattenSeq(E)
<1>1. /\ sx \in Nat /\ sy \in Nat /\ ex \in Nat /\ ey \in Nat /\ ys \in Nat \ {0} /\ xs \in Nat \ {0}
      /\ sx < ex /\ sy < ey /\ ex <= b.grid.cols /\ ey <= b.grid.rows
      /\ b.grid.cols \in Nat /\ b.grid.rows \in Nat
      /\ k = [start_x |-> sx, start_y |-> sy, end_x |-> ex, end_y |-> ey]
  BY DEF IsBlock, Sided, Lies
<1>2. /\ o = [commits |-> [i \in 1 .. ys |-> b.header[sy + i - 1]],
              points |-> [j \in 1 .. xs |-> DomainPoints(b.dims.cols)[sx + j - 1]],
              evals |-> E]
      /\ E = [i \in 1 .. ys |-> [j \in 1 .. xs |-> b.evals[sy + i - 1][sx + j - 1]]]
      /\ E \in Seq(Seq(Nat)) /\ Len(E) = ys
      /\ \A i \in 1 .. Len(E) : Len(E[i]) = xs
      /\ \A i \in 1 .. ys, j \in 1 .. xs :
              /\ E[i][j] \in Nat /\ E[i][j] < Prime
              /\ Eval(b.header[sy + i - 1], b.grid.cols, DomainPoints(b.dims.cols)[sx + j - 1])
                   = E[i][j]
              /\ DOMAIN b.header[sy + i - 1] = Indices(b.grid.cols)
  <2>1. OpensBlock(b, o, sx, sy, ex, ey)
    BY BlockOpening
  <2> QED BY <2>1, Zenon DEF OpensBlock
<1> HIDE DEF E, ys, xs
<1>3. /\ flat \in Seq(Nat) /\ Len(flat) = ys * xs
      /\ \A i \in 1 .. ys, j \in 1 .. xs :
              /\ (i - 1) * xs + j \in 1 .. (ys * xs)
              /\ flat[(i - 1) * xs + j] = E[i][j]
  <2>1. /\ xs \in Nat /\ E \in Seq(Seq(Nat)) /\ Len(E) = ys
        /\ \A i \in 1 .. Len(E) : Len(E[i]) = xs
    BY <1>1, <1>2
  <2>2. /\ flat \in Seq(Nat) /\ Len(flat) = Len(E) * xs
        /\ \A i \in 1 .. Len(E), j \in 1 .. xs :
              /\ (i - 1) * xs + j \in 1 .. (Len(E) * xs)
              /\ flat[(i - 1) * xs + j] = E[i][j]
    BY <2>1, JoinRows
  <2> HIDE DEF flat
  <2> QED BY <2>1, <2>2
<1>4. bytes = ToBytes([proof |-> number, block |-> k, scalars |-> [i \in DOMAIN flat |-> Limbs(flat[i])]])
  BY Zenon DEF BlockBytes, E
<1> HIDE DEF flat
<1>5. /\ bytes \in Seq(Nat) /\ bytes # << >>
      /\ cell.ok /\ cell.proof = number /\ cell.block = k
      /\ Len(cell.scalars) = Len(flat) /\ DOMAIN cell.scalars = 1 .. Len(flat)
      /\ \A i \in 1 .. Len(flat) : ScalarOf(cell.scalars[i]) = flat[i]
  <2>1. sx \in Nat /\ sy \in Nat /\ ex \in Nat /\ ey \in Nat /\ flat \in Seq(Nat)
    BY <1>1, <1>3
  <2>2. k = [start_x |-> sx, start_y |-> sy, end_x |-> ex, end_y |-> ey]
    BY <1>1
  <2>3. ComesBack(cell, bytes, number, k, flat)
    BY <1>4, <2>1, <2>2, BytesIs
  <2> QED BY <2>3, Zenon DEF ComesBack
<1>6. Width(cell.block) = xs /\ Height(cell.block) = ys
  BY <1>1, <1>5 DEF Width, Height, xs, ys
<1>7. EvalsGrid(cell) = E
  <2>1. (ys * xs) \div xs = ys
    <3> DEFINE x == 0
    <3>1. ys \in Indices(ys + 1) /\ x \in Indices(xs) /\ ys + 1 \in Nat \ {0}
      BY <1>1 DEF Indices
    <3>2. (ys * xs + x) \div xs = ys
      <4> HIDE DEF x
      <4> QED BY <1>1, <3>1, NumberOf
    <3>3. ys * xs + x = ys * xs
      <4>1. ys * xs \in Int
        BY <1>1
      <4> QED BY <4>1
    <3> QED BY <3>2, <3>3
  <2>2. EvalsGrid(cell) = [i \in 1 .. ys |->
           [j \in 1 .. xs |-> ScalarOf(cell.scalars[(i - 1) * xs + j])]]
    BY <1>3, <1>5, <1>6, <2>1 DEF EvalsGrid
  <2>3. ASSUME NEW i \in 1 .. ys, NEW j \in 1 .. xs
        PROVE  ScalarOf(cell.scalars[(i - 1) * xs + j]) = b.evals[sy + i - 1][sx + j - 1]
    <3> DEFINE n == (i - 1) * xs + j
    <3>1. n \in 1 .. Len(flat) /\ flat[n] = E[i][j]
      BY <1>3
    <3> HIDE DEF n
    <3>2. ScalarOf(cell.scalars[n]) = E[i][j]
      BY <1>5, <3>1
    <3>3. E[i][j] = b.evals[sy + i - 1][sx + j - 1]
      BY <1>2
    <3> QED BY <3>2, <3>3 DEF n
  <2>4. E = [i \in 1 .. ys |-> [j \in 1 .. xs |-> b.evals[sy + i - 1][sx + j - 1]]]
    BY <1>2
  <2> QED BY <2>2, <2>3, <2>4
<1>8. ~\E i \in DOMAIN cell.scalars : ~IsScalar(cell.scalars[i])
  <2> SUFFICES ASSUME NEW n \in 1 .. (ys * xs) PROVE flat[n] < Prime
    BY <1>3, <1>5 DEF IsScalar
  <2> DEFINE i == ((n - 1) \div xs) + 1
             j == ((n - 1) % xs) + 1
  <2>1. n - 1 \in Nat /\ n - 1 < ys * xs /\ n - 1 \in Int
    <3>1. ys * xs \in Int
      BY <1>1
    <3> QED BY <3>1
  <2>2. (n - 1) \div xs \in Indices(ys) /\ (n - 1) % xs \in Indices(xs)
    <3> DEFINE z == n - 1
    <3> HIDE DEF z
    <3>1. z \in Nat /\ z < ys * xs
      BY <2>1 DEF z
    <3>2. z \div xs \in Indices(ys) /\ z % xs \in Indices(xs)
      BY <1>1, <3>1, RowAndColumn
    <3> QED BY <3>2 DEF z
  <2>3. i \in 1 .. ys /\ j \in 1 .. xs
    BY <1>1, <2>2 DEF Indices
  <2>4. (i - 1) * xs + j = n
    <3> DEFINE q == (n - 1) \div xs
               m == (n - 1) % xs
    <3>1. n - 1 = xs * q + m /\ q \in Int /\ m \in Int
      <4>1. n - 1 = xs * ((n - 1) \div xs) + ((n - 1) % xs)
        BY <1>1, <2>1, DivIs
      <4> QED BY <2>2, <4>1 DEF Indices
    <3> HIDE DEF q, m
    <3>2. i - 1 = q /\ j = m + 1 /\ xs * q = q * xs /\ q * xs \in Int
      BY <1>1, <3>1 DEF q, m
    <3> HIDE DEF i, j
    <3> QED BY <3>1, <3>2
  <2> HIDE DEF i, j
  <2> QED BY <1>2, <1>3, <2>3, <2>4
<1> DEFINE taken == TakenCommits(b.header, cell.block)
           points == [j \in 1 .. xs |-> DomainPoints(b.dims.cols)[sx + j - 1]]
           commits == [i \in 1 .. ys |-> b.header[sy + i - 1]]
           claim == [commits |-> taken, points |-> points, evals |-> E]
<1>9. taken = commits
  <2>1. DOMAIN b.header = Indices(b.grid.rows)
    BY DEF IsBlock
  <2>2. Cardinality(DOMAIN b.header) = b.grid.rows
    BY <1>1, <2>1, IndicesCount
  <2> DEFINE last == Min({ey, b.grid.rows})
  <2>3. last = ey
    <3>1. ey \in Int /\ b.grid.rows \in Int /\ ey <= b.grid.rows
      BY <1>1
    <3>2. last \in {ey, b.grid.rows} /\ last <= ey /\ last <= b.grid.rows
      BY <3>1, MinOfTwo
    <3> HIDE DEF last
    <3> QED BY <3>1, <3>2
  <2>4. cell.block.end_y = ey /\ cell.block.start_y = sy
    BY <1>1, <1>5
  <2>5. taken = [i \in 1 .. (last - sy) |-> b.header[sy + i - 1]]
    BY <2>2, <2>4, Zenon DEF TakenCommits
  <2> HIDE DEF last, taken
  <2> QED BY <2>3, <2>5 DEF ys
<1> HIDE DEF taken
<1>10. o = claim
  BY <1>2, <1>9
<1>11. DOMAIN o.commits = DOMAIN o.evals
  <2>1. DOMAIN commits = 1 .. ys
    OBVIOUS
  <2>2. DOMAIN E = 1 .. ys
    BY <1>2
  <2>3. o.commits = taken /\ o.evals = E
    <3> HIDE DEF points
    <3> QED BY <1>10
  <2> HIDE DEF commits
  <2> QED BY <1>9, <2>1, <2>2, <2>3
<1>12. ASSUME os[number] = o PROVE VerifyMultiProof(os, b.header, b.dims.cols, cell) = "verified"
  <2>1. ASSUME NEW i \in DOMAIN claim.commits, NEW j \in DOMAIN claim.points
        PROVE  Eval(claim.commits[i], Cardinality(DOMAIN claim.commits[i]), claim.points[j])
                 = claim.evals[i][j]
    <3>1. claim.commits = commits /\ claim.points = points /\ claim.evals = E
      <4> HIDE DEF commits, points
      <4> QED BY <1>9
    <3>2. i \in 1 .. ys /\ j \in 1 .. xs
      <4>1. DOMAIN commits = 1 .. ys /\ DOMAIN points = 1 .. xs
        OBVIOUS
      <4> HIDE DEF commits, points, claim
      <4> QED BY <3>1, <4>1
    <3>3. commits[i] = b.header[sy + i - 1] /\ points[j] = DomainPoints(b.dims.cols)[sx + j - 1]
      BY <3>2
    <3> HIDE DEF claim, commits, points
    <3> DEFINE h == b.header[sy + i - 1]
    <3>4. /\ Eval(h, b.grid.cols, DomainPoints(b.dims.cols)[sx + j - 1]) = E[i][j]
          /\ DOMAIN h = Indices(b.grid.cols)
      BY <1>2, <3>2
    <3> HIDE DEF h
    <3>5. Cardinality(DOMAIN h) = b.grid.cols
      BY <1>1, <3>4, IndicesCount
    <3> QED BY <3>1, <3>3, <3>4, <3>5 DEF h
  <2>2. Opens(os, number, claim)
    <3>1. os[number] = claim
      BY <1>10, <1>12
    <3> HIDE DEF claim
    <3> QED BY <2>1, <3>1, Zenon DEF Opens
  <2>3. /\ ~(Width(cell.block) <= 0) /\ ~(Height(cell.block) < 0)
        /\ ~(cell.block.end_x > Domain(b.dims.cols)) /\ cell.proof \in DOMAIN os
    <3>1. Domain(b.dims.cols) = b.grid.cols /\ cell.block.end_x = ex
      BY <1>1, <1>5 DEF IsBlock
    <3> QED BY <1>1, <1>5, <1>6, <3>1
  <2>4. claim = [commits |-> TakenCommits(b.header, cell.block),
                 points |-> [j \in 1 .. Width(cell.block) |->
                               DomainPoints(b.dims.cols)[cell.block.start_x + j - 1]],
                 evals |-> EvalsGrid(cell)]
    <3>1. cell.block.start_x = sx
      BY <1>1, <1>5
    <3> QED BY <1>6, <1>7, <3>1, Zenon DEF taken
  <2> HIDE DEF claim
  <2> QED BY <1>5, <1>8, <2>2, <2>3, <2>4, Zenon DEF VerifyMultiProof
<1>13. ASSUME NEW y \in sy .. (ey - 1), NEW x \in sx .. (ex - 1)
       PROVE  [row |-> y, col |-> x, value |-> b.evals[y][x]] \in CellsOf(cell)
  <2> DEFINE i == y - sy + 1
             j == x - sx + 1
  <2>1. i \in 1 .. ys /\ j \in 1 .. xs /\ sy + i - 1 = y /\ sx + j - 1 = x
    BY <1>1 DEF ys, xs
  <2> HIDE DEF i, j
  <2>2. E[i][j] = b.evals[y][x] /\ DOMAIN E = 1 .. ys
    <3>1. E[i][j] = b.evals[sy + i - 1][sx + j - 1] /\ DOMAIN E = 1 .. ys
      BY <1>2, <2>1
    <3> QED BY <2>1, <3>1
  <2>3. CellsOf(cell) = {[row |-> sy + m - 1, col |-> sx + n - 1, value |-> E[m][n]]
                           : m \in 1 .. ys, n \in 1 .. xs}
    <3>1. cell.block.start_x = sx /\ cell.block.start_y = sy
      BY <1>1, <1>5
    <3> QED BY <1>6, <1>7, <2>2, <3>1 DEF CellsOf
  <2>4. [row |-> sy + i - 1, col |-> sx + j - 1, value |-> E[i][j]] \in CellsOf(cell)
    BY <2>1, <2>3
  <2> QED BY <2>1, <2>2, <2>4
<1> QED BY <1>5, <1>11, <1>12, <1>13, Zenon DEF Shows

-------------------------------------------------------------------------------
\* Positions, blocks and cells.

\* The positions of the numbered grid.  At each of them there are
Places(b) == [row : Indices(Numbered(b).rows), col : Indices(Numbered(b).cols)]

\* The block of cells at a place,
BlockAt(b, at) == MultiproofBlock(at.col, at.row, b.grid, b.target)

\* what the node opens,
OpeningAt(b, at) ==
  IF b.kind = "cell" THEN OpenCell(b.polys, b.evals, at.col, at.row)
  ELSE OpenBlock(b.polys, b.evals, BlockAt(b, at))

\* what it sends,
BytesAt(b, at, number) ==
  IF b.kind = "cell" THEN CellBytes(number, b.evals[at.row][at.col])
  ELSE BlockBytes(number, BlockAt(b, at), OpeningAt(b, at))

\* and the cells it shows.
CellsAt(b, at) ==
  IF b.kind = "cell"
  THEN {[row |-> at.row, col |-> at.col, value |-> b.evals[at.row][at.col]]}
  ELSE {[row |-> y, col |-> x, value |-> b.evals[y][x]] :
          y \in BlockAt(b, at).start_y .. (BlockAt(b, at).end_y - 1),
          x \in BlockAt(b, at).start_x .. (BlockAt(b, at).end_x - 1)}

\* Where there are places, there is something to sample.
LEMMA PlacesAre ==
  ASSUME NEW b, IsBlock(b), NEW at \in Places(b), NEW t, t = Numbered(b)
  PROVE  /\ Sampled(b) /\ at.row \in Indices(t.rows) /\ at.col \in Indices(t.cols)
         /\ at.row \in Nat /\ at.col \in Nat
<1>1. at.row \in Indices(t.rows) /\ at.col \in Indices(t.cols)
  BY DEF Places
<1>2. at.row \in Nat /\ at.col \in Nat
  BY <1>1 DEF Indices
<1>3. Sampled(b)
  <2> SUFFICES ASSUME b.kind = "mcell", MultiproofDims(b.grid, b.target) = NoDims PROVE FALSE
    BY DEF Sampled
  <2>1. t.rows = 0
    BY DEF Numbered, NoDims, Dimensions
  <2> QED BY <1>1, <2>1 DEF Indices
<1> QED BY <1>1, <1>2, <1>3

\* The multiples of a number.
LEMMA NextMultiple ==
  ASSUME NEW a \in Nat, NEW c \in Nat
  PROVE  a * c \in Nat /\ (a + 1) * c = a * c + c
OBVIOUS

\* The block at a place.
LEMMA BlockPlaced ==
  ASSUME NEW b, IsBlock(b), b.kind = "mcell", NEW at \in Places(b),
         NEW t, t = Numbered(b),
         NEW w, w = b.grid.cols \div t.cols, NEW h, h = b.grid.rows \div t.rows
  PROVE  /\ Lies(b, BlockAt(b, at), at.col * w, at.row * h, (at.col + 1) * w, (at.row + 1) * h)
         /\ BlockAt(b, at) # NoBlock
<1>1. t = MultiproofDims(b.grid, b.target) /\ t # NoDims
  BY PlacesAre DEF Sampled, Numbered
<1>2. /\ Sided(t) /\ w \in Nat \ {0} /\ h \in Nat \ {0}
      /\ b.grid.cols = t.cols * w /\ b.grid.rows = t.rows * h
  BY <1>1, Tiles DEF IsBlock
<1> DEFINE x == at.col
           y == at.row
<1>3. x \in Nat /\ y \in Nat /\ x + 1 <= t.cols /\ y + 1 <= t.rows /\ t.cols \in Nat /\ t.rows \in Nat
  <2>1. x \in Indices(t.cols) /\ y \in Indices(t.rows) /\ x \in Nat /\ y \in Nat
    BY PlacesAre
  <2> HIDE DEF x, y
  <2> QED BY <1>2, <2>1 DEF Indices, Sided
<1> HIDE DEF x, y
<1>4. ~(x >= t.cols) /\ ~(y >= t.rows)
  BY <1>3
<1>5. BlockAt(b, at) = [start_x |-> x * w, start_y |-> y * h, end_x |-> (x + 1) * w,
                        end_y |-> (y + 1) * h]
  <2>1. BlockAt(b, at) = MultiproofBlock(x, y, b.grid, b.target)
    BY Zenon DEF BlockAt, x, y
  <2> QED BY <1>1, <1>4, <2>1, Zenon DEF MultiproofBlock
<1>6. (x + 1) * w <= t.cols * w /\ (y + 1) * h <= t.rows * h
  BY <1>2, <1>3, TimesOrder
<1>7. /\ x * w \in Nat /\ y * h \in Nat /\ (x + 1) * w \in Nat /\ (y + 1) * h \in Nat
      /\ (x + 1) * w = x * w + w /\ (y + 1) * h = y * h + h
  <2>1. x * w \in Nat /\ (x + 1) * w = x * w + w
    BY <1>2, <1>3, NextMultiple
  <2>2. y * h \in Nat /\ (y + 1) * h = y * h + h
    BY <1>2, <1>3, NextMultiple
  <2>3. x * w + w \in Nat /\ y * h + h \in Nat
    BY <1>2, <2>1, <2>2
  <2> QED BY <2>1, <2>2, <2>3
<1>8. x * w < (x + 1) * w /\ y * h < (y + 1) * h /\ (x + 1) * w # 0
  BY <1>2, <1>7
<1>9. BlockAt(b, at) # NoBlock
  <2>1. BlockAt(b, at).end_x = (x + 1) * w /\ NoBlock.end_x = 0
    BY <1>5 DEF NoBlock
  <2> QED BY <1>8, <2>1
<1>10. Lies(b, BlockAt(b, at), x * w, y * h, (x + 1) * w, (y + 1) * h)
  BY <1>2, <1>5, <1>6, <1>7, <1>8 DEF Lies
<1> QED BY <1>9, <1>10 DEF x, y

\* What a node opens and sends for a place convinces the client.
Convinces(b, at, number, os) ==
  LET bytes == BytesAt(b, at, number)
      cell == FromBytes(at, bytes)
  IN  /\ bytes \in Seq(Nat) /\ bytes # << >>
      /\ b.kind = "cell" =>
           /\ Len(bytes) = PROOF_LEN + LIMBS
           /\ VerifyCell(os, b.dims, b.header[at.row], at.col, bytes) = "verified"
           /\ ScalarOf(SingleCellData(bytes)) = b.evals[at.row][at.col]
      /\ b.kind = "mcell" =>
           /\ cell.ok
           /\ VerifyMultiProof(os, b.header, b.dims.cols, cell) = "verified"
           /\ CellsAt(b, at) \subseteq CellsOf(cell)

\* What a node sends for a place convinces the client.
LEMMA PlaceVerifies ==
  ASSUME NEW b, IsBlock(b), NEW at \in Places(b), NEW number \in Nat, NEW os, number \in DOMAIN os,
         NEW o, o = OpeningAt(b, at)
  PROVE  /\ DOMAIN o.commits = DOMAIN o.evals
         /\ BytesAt(b, at, number) \in Seq(Nat) /\ BytesAt(b, at, number) # << >>
         /\ os[number] = o => Convinces(b, at, number, os)
<1> DEFINE x == at.col
           y == at.row
           bytes == BytesAt(b, at, number)
           cell == FromBytes(at, bytes)
<1>1. CASE b.kind = "cell"
  <2>1. y \in Indices(b.grid.rows) /\ x \in Indices(b.grid.cols)
    BY <1>1 DEF Places, Numbered
  <2>2. o = OpenCell(b.polys, b.evals, x, y) /\ bytes = CellBytes(number, b.evals[y][x])
    BY <1>1 DEF OpeningAt, BytesAt
  <2> HIDE DEF x, y, bytes
  <2>3. /\ bytes \in Seq(Nat) /\ bytes # << >> /\ Len(bytes) = PROOF_LEN + LIMBS
        /\ ScalarOf(SingleCellData(bytes)) = b.evals[y][x]
        /\ DOMAIN o.commits = DOMAIN o.evals
        /\ os[number] = o => VerifyCell(os, b.dims, b.header[y], x, bytes) = "verified"
    BY <2>1, <2>2, CellVerifies
  <2>4. b.kind # "mcell"
    BY <1>1
  <2> QED BY <2>3, <2>4, Zenon DEF Convinces, x, y, bytes
<1>2. CASE b.kind = "mcell"
  <2> DEFINE k == BlockAt(b, at)
             w == b.grid.cols \div Numbered(b).cols
             h == b.grid.rows \div Numbered(b).rows
             sx == x * w
             sy == y * h
             ex == (x + 1) * w
             ey == (y + 1) * h
  <2>1. Lies(b, k, sx, sy, ex, ey)
    BY <1>2, BlockPlaced
  <2>2. b.kind # "cell"
    BY <1>2
  <2>3. o = OpenBlock(b.polys, b.evals, k) /\ bytes = BlockBytes(number, k, o)
    BY <2>2 DEF OpeningAt, BytesAt
  <2>4. cell = FromBytes(at, bytes)
    OBVIOUS
  <2> HIDE DEF sx, sy, ex, ey, k, bytes, cell
  <2>5. /\ bytes \in Seq(Nat) /\ bytes # << >> /\ cell.ok
        /\ DOMAIN o.commits = DOMAIN o.evals
        /\ os[number] = o => VerifyMultiProof(os, b.header, b.dims.cols, cell) = "verified"
        /\ \A v \in sy .. (ey - 1), u \in sx .. (ex - 1) :
             [row |-> v, col |-> u, value |-> b.evals[v][u]] \in CellsOf(cell)
    <3>1. Shows(b, o, number, os, sx, sy, ex, ey, bytes, cell)
      BY <2>1, <2>3, <2>4, BlockVerifies
    <3> QED BY <3>1, Zenon DEF Shows
  <2>6. CellsAt(b, at) \subseteq CellsOf(cell)
    <3>1. k.start_x = sx /\ k.start_y = sy /\ k.end_x = ex /\ k.end_y = ey
      BY <2>1 DEF Lies
    <3>2. CellsAt(b, at) = {[row |-> v, col |-> u, value |-> b.evals[v][u]] :
                               v \in sy .. (ey - 1), u \in sx .. (ex - 1)}
      BY <2>2, <3>1 DEF CellsAt, k
    <3> QED BY <2>5, <3>2
  <2> QED BY <2>2, <2>5, <2>6, Zenon DEF Convinces, bytes, cell
<1>3. b.kind \in {"cell", "mcell"}
  BY DEF IsBlock
<1> QED BY <1>1, <1>2, <1>3

\* A client's positions are places.
LEMMA PositionsIn ==
  ASSUME NEW b, IsBlock(b), HasSizes(b), NEW n \in 1 .. b.fraction, NEW p, p = PositionsOf(b, n)
  PROVE  /\ Len(p) \in Nat /\ DOMAIN p = 1 .. Len(p)
         /\ \A k \in 1 .. Len(p) : p[k] \in Places(b)
<1>1. CASE Sampled(b)
  <2> DEFINE t == Numbered(b)
             s == SliceStart(t.rows * t.cols, n, b.fraction)
             e == SliceEnd(t.rows * t.cols, n, b.fraction)
  <2>1. /\ Len(p) \in Nat /\ DOMAIN p = 1 .. Len(p)
        /\ \A k \in 1 .. Len(p) :
              /\ p[k].row \in Indices(t.rows) /\ p[k].col \in Indices(t.cols)
              /\ p[k] = Position((s + k - 1) \div t.cols, (s + k - 1) % t.cols)
    <3> HIDE DEF t, s, e
    <3>1. t = Numbered(b) /\ s = SliceStart(t.rows * t.cols, n, b.fraction)
          /\ e = SliceEnd(t.rows * t.cols, n, b.fraction)
      BY Zenon DEF t, s, e
    <3> QED BY <1>1, <3>1, PositionsAre
  <2> HIDE DEF s
  <2>2. ASSUME NEW k \in 1 .. Len(p) PROVE p[k] \in Places(b)
    <3> DEFINE u == (s + k - 1) \div t.cols
               v == (s + k - 1) % t.cols
    <3>1. p[k] = [row |-> u, col |-> v] /\ p[k].row \in Indices(t.rows) /\ p[k].col \in Indices(t.cols)
      BY <2>1 DEF Position
    <3> HIDE DEF u, v, t
    <3>2. p[k] \in [row : Indices(t.rows), col : Indices(t.cols)]
      BY <3>1
    <3> QED BY <3>2 DEF Places, t
  <2> QED BY <2>1, <2>2
<1>2. CASE ~Sampled(b)
  <2>1. p = << >>
    BY <1>2 DEF Sampled, PositionsOf
  <2> QED BY <2>1
<1> QED BY <1>1, <1>2

\* The places stand for every cell.
LEMMA PlacesCover ==
  ASSUME NEW b, IsBlock(b), HasSizes(b), Sampled(b),
         NEW y \in Indices(b.grid.rows), NEW x \in Indices(b.grid.cols)
  PROVE  \E at \in Places(b) : [row |-> y, col |-> x, value |-> b.evals[y][x]] \in CellsAt(b, at)
<1>1. CASE b.kind = "cell"
  <2> DEFINE at == [row |-> y, col |-> x]
  <2>1. at \in Places(b)
    BY <1>1 DEF Places, Numbered
  <2>2. [row |-> y, col |-> x, value |-> b.evals[y][x]] \in CellsAt(b, at)
    BY <1>1 DEF CellsAt
  <2> QED BY <2>1, <2>2
<1>2. CASE b.kind = "mcell"
  <2> DEFINE t == Numbered(b)
             w == b.grid.cols \div t.cols
             h == b.grid.rows \div t.rows
             u == x \div w
             v == y \div h
             at == [row |-> v, col |-> u]
             k == BlockAt(b, at)
  <2>1. t = MultiproofDims(b.grid, b.target) /\ t # NoDims
    BY <1>2 DEF Sampled, Numbered
  <2>2. /\ t.cols \in Nat \ {0} /\ t.rows \in Nat \ {0} /\ w \in Nat \ {0} /\ h \in Nat \ {0}
        /\ b.grid.cols = t.cols * w /\ b.grid.rows = t.rows * h
    BY <2>1, Tiles DEF IsBlock, Sided
  <2> HIDE DEF t, w, h
  <2>3. x \in Nat /\ y \in Nat /\ x < t.cols * w /\ y < t.rows * h
    <3>1. b.grid.cols \in Nat /\ b.grid.rows \in Nat
      BY DEF IsBlock, Sided
    <3>2. x < b.grid.cols /\ y < b.grid.rows /\ x \in Nat /\ y \in Nat
      BY <3>1 DEF Indices
    <3> QED BY <2>2, <3>2
  <2>4. u \in Indices(t.cols) /\ x % w \in Indices(w)
    BY <2>2, <2>3, RowAndColumn
  <2>5. v \in Indices(t.rows) /\ y % h \in Indices(h)
    BY <2>2, <2>3, RowAndColumn
  <2>6. x = u * w + (x % w) /\ y = v * h + (y % h) /\ u \in Nat /\ v \in Nat
        /\ x % w \in Nat /\ x % w < w /\ y % h \in Nat /\ y % h < h
    <3>1. x = w * u + (x % w) /\ x % w \in Nat /\ x % w < w
      BY <2>2, <2>3, DivIs
    <3>2. y = h * v + (y % h) /\ y % h \in Nat /\ y % h < h
      BY <2>2, <2>3, DivIs
    <3>3. u \in Nat /\ v \in Nat
      BY <2>4, <2>5 DEF Indices
    <3> HIDE DEF u, v
    <3>4. w * u = u * w /\ h * v = v * h
      BY <2>2, <3>3
    <3> QED BY <3>1, <3>2, <3>3, <3>4
  <2> HIDE DEF u, v
  <2>7. at \in Places(b)
    BY <2>4, <2>5 DEF Places, t
  <2>8. at.row = v /\ at.col = u
    OBVIOUS
  <2> HIDE DEF at, k
  <2>9. k = [start_x |-> u * w, start_y |-> v * h, end_x |-> (u + 1) * w, end_y |-> (v + 1) * h]
    <3>1. Lies(b, BlockAt(b, at), at.col * w, at.row * h, (at.col + 1) * w, (at.row + 1) * h)
      BY <1>2, <2>7, BlockPlaced DEF t, w, h
    <3> QED BY <2>8, <3>1, Zenon DEF Lies, k
  <2>10. x \in u * w .. ((u + 1) * w - 1)
    <3>1. u * w \in Nat /\ (u + 1) * w = u * w + w
      BY <2>2, <2>6, NextMultiple
    <3> DEFINE m == u * w
               n == (u + 1) * w
               r == x % w
    <3>2. m \in Nat /\ n = m + w /\ x = m + r /\ r \in Nat /\ r < w /\ n \in Nat
      BY <2>2, <2>6, <3>1
    <3> HIDE DEF m, n, r
    <3>3. x \in m .. (n - 1)
      BY <2>2, <3>2
    <3> QED BY <3>3 DEF m, n
  <2>11. y \in v * h .. ((v + 1) * h - 1)
    <3>1. v * h \in Nat /\ (v + 1) * h = v * h + h
      BY <2>2, <2>6, NextMultiple
    <3> DEFINE m == v * h
               n == (v + 1) * h
               r == y % h
    <3>2. m \in Nat /\ n = m + h /\ y = m + r /\ r \in Nat /\ r < h /\ n \in Nat
      BY <2>2, <2>6, <3>1
    <3> HIDE DEF m, n, r
    <3>3. y \in m .. (n - 1)
      BY <2>2, <3>2
    <3> QED BY <3>3 DEF m, n
  <2>12. y \in k.start_y .. (k.end_y - 1) /\ x \in k.start_x .. (k.end_x - 1)
    BY <2>9, <2>10, <2>11
  <2>13. [row |-> y, col |-> x, value |-> b.evals[y][x]] \in CellsAt(b, at)
    <3>1. b.kind # "cell"
      BY <1>2
    <3> QED BY <2>12, <3>1 DEF CellsAt, k
  <2> QED BY <2>7, <2>13
<1>3. b.kind \in {"cell", "mcell"}
  BY DEF IsBlock
<1> QED BY <1>1, <1>2, <1>3

\* Every place is a position of some client.
LEMMA ClientsCover ==
  ASSUME NEW b, IsBlock(b), HasSizes(b), NEW at \in Places(b)
  PROVE  \E n \in 1 .. b.fraction : \E k \in 1 .. Len(PositionsOf(b, n)) : PositionsOf(b, n)[k] = at
<1> DEFINE t == Numbered(b)
<1>1. Sampled(b) /\ at.row \in Indices(t.rows) /\ at.col \in Indices(t.cols)
  BY PlacesAre
<1>2. at = Position(at.row, at.col)
  BY DEF Places, Position
<1> QED BY <1>1, <1>2, SlicesCover

-------------------------------------------------------------------------------
\* The fleet.

\* What arrives damaged are bytes, too.
DamagedIsBytes == \A bytes \in Seq(Nat) : Mangle(bytes) \subseteq Seq(Nat)

\* The openings nodes make.
Openings(b) == {OpeningAt(b, at) : at \in Places(b)}

\* While nothing was damaged, what is under way is the answer for the client's
\* position, with the opening that was made last,
UnderWay ==
  LET at == PositionsOf(job, client)[asked]
  IN  /\ Len(opened) # 0 /\ opened[Len(opened)] = OpeningAt(job, at)
      /\ arrived = BytesAt(job, at, Len(opened))

\* and the cells of every position that was answered are confirmed,
Answered(c, k) == c < client \/ (c = client /\ (k < asked \/ (k = asked /\ arrived = << >>)))

\* that is,
Seen ==
  \A c \in 1 .. job.fraction : \A k \in 1 .. Len(PositionsOf(job, c)) :
    Answered(c, k) => CellsAt(job, PositionsOf(job, c)[k]) \subseteq confirmed

\* The invariant.
FleetInv ==
  /\ IsBlock(job) /\ HasSizes(job)
  /\ client \in 1 .. (job.fraction + 1) /\ asked \in Nat
  /\ opened \in Seq(Openings(job)) /\ arrived \in Seq(Nat)
  /\ arrived # << >> => client <= job.fraction /\ asked \in 1 .. Len(PositionsOf(job, client))
  /\ ConfirmedIsGenuine
  /\ HonestIsVerified
  /\ (intact /\ arrived # << >>) => UnderWay
  /\ intact => Seen

\* It holds in the beginning,
LEMMA FleetInitInv == ASSUME FleetInit PROVE FleetInv
<1>1. PICK q \in Jobs : job = Prepared(q)
  BY DEF FleetInit
<1>2. IsBlock(job) /\ HasSizes(job)
  BY <1>1, PreparedIs
<1>3. client = 1 /\ asked = 0 /\ opened = << >> /\ arrived = << >> /\ outcome = "none" /\ confirmed = {}
  BY DEF FleetInit
<1>4. job.fraction \in Nat \ {0}
  BY <1>2 DEF IsBlock
<1>5. Seen
  <2>1. ASSUME NEW c \in 1 .. job.fraction, NEW k \in 1 .. Len(PositionsOf(job, c)) PROVE ~Answered(c, k)
    BY <1>3, <1>4 DEF Answered
  <2> QED BY <2>1 DEF Seen
<1>6. client \in 1 .. (job.fraction + 1)
  BY <1>3, <1>4
<1>7. ConfirmedIsGenuine /\ HonestIsVerified
  BY <1>3 DEF ConfirmedIsGenuine, HonestIsVerified
<1> QED BY <1>2, <1>3, <1>5, <1>6, <1>7 DEF FleetInv

\* The openings have as many rows of values as commitments.
LEMMA OpenedArePaired == ASSUME FleetInv PROVE Paired(opened)
<1> SUFFICES ASSUME NEW p \in DOMAIN opened PROVE DOMAIN opened[p].commits = DOMAIN opened[p].evals
  BY DEF Paired
<1>1. opened \in Seq(Openings(job)) /\ IsBlock(job)
  BY DEF FleetInv
<1>2. opened[p] \in Openings(job)
  BY <1>1, LenProperties, ElementOfSeq
<1>3. PICK at \in Places(job) : opened[p] = OpeningAt(job, at)
  BY <1>2 DEF Openings
<1>4. 0 \in Nat /\ 0 \in DOMAIN [i \in {0} |-> 0]
  OBVIOUS
<1> QED BY <1>1, <1>3, <1>4, PlaceVerifies

\* An answer is for the next position.
LEMMA AnswerInv ==
  ASSUME DamagedIsBytes, FleetInv, client <= job.fraction, arrived = << >>,
         asked < Len(PositionsOf(job, client)),
         Answer(OpeningAt(job, PositionsOf(job, client)[asked + 1]),
                BytesAt(job, PositionsOf(job, client)[asked + 1], Len(opened) + 1))
  PROVE  FleetInv'
<1> DEFINE p == PositionsOf(job, client)
           at == p[asked + 1]
           o == OpeningAt(job, at)
           bytes == BytesAt(job, at, Len(opened) + 1)
<1>1. /\ IsBlock(job) /\ HasSizes(job) /\ client \in 1 .. job.fraction /\ asked \in Nat
      /\ opened \in Seq(Openings(job)) /\ job.fraction \in Nat
  <2>1. job.fraction \in Nat
    BY DEF FleetInv, IsBlock
  <2> QED BY <2>1 DEF FleetInv
<1>2. /\ opened' = Append(opened, o) /\ asked' = asked + 1 /\ outcome' = "none"
      /\ job' = job /\ client' = client /\ confirmed' = confirmed
      /\ \/ arrived' = bytes /\ intact' = intact
         \/ intact /\ arrived' \in Mangle(bytes) /\ intact' = FALSE
  BY DEF Answer
<1>3. at \in Places(job) /\ asked + 1 \in 1 .. Len(p)
  <2>1. Len(p) \in Nat /\ \A k \in 1 .. Len(p) : p[k] \in Places(job)
    BY <1>1, PositionsIn
  <2>2. asked + 1 \in 1 .. Len(p)
    BY <1>1, <2>1
  <2> QED BY <2>1, <2>2
<1> HIDE DEF o, bytes, at, p
<1>4. o \in Openings(job)
  BY <1>3 DEF Openings, o
<1>5. /\ opened' \in Seq(Openings(job)) /\ Len(opened') = Len(opened) + 1
      /\ opened'[Len(opened) + 1] = o /\ Len(opened) \in Nat
  BY <1>1, <1>2, <1>4, LenProperties
<1>6. bytes \in Seq(Nat) /\ bytes # << >>
  <2> DEFINE n == Len(opened) + 1
             os == [i \in {n} |-> o]
  <2>1. n \in Nat /\ n \in DOMAIN os
    BY <1>5
  <2>2. BytesAt(job, at, n) \in Seq(Nat) /\ BytesAt(job, at, n) # << >>
    <3> HIDE DEF n, os
    <3> QED BY <1>1, <1>3, <2>1, PlaceVerifies DEF o
  <2> QED BY <2>2 DEF bytes
<1>7. arrived' \in Seq(Nat)
  BY <1>2, <1>6 DEF DamagedIsBytes
<1>8. (arrived' # << >> => client' <= job'.fraction /\ asked' \in 1 .. Len(PositionsOf(job', client')))
  BY <1>1, <1>2, <1>3 DEF p
<1>9. ConfirmedIsGenuine'
  <2>1. ConfirmedIsGenuine
    BY DEF FleetInv
  <2> QED BY <1>2, <2>1 DEF ConfirmedIsGenuine
<1>10. HonestIsVerified'
  BY <1>2 DEF HonestIsVerified
<1>11. (intact' /\ arrived' # << >>) => UnderWay'
  <2> SUFFICES ASSUME intact' PROVE UnderWay'
    OBVIOUS
  <2>1. arrived' = bytes
    BY <1>2
  <2>2. PositionsOf(job', client')[asked'] = at
    BY <1>2 DEF at, p
  <2>3. OpeningAt(job', at) = o /\ BytesAt(job', at, Len(opened')) = bytes
    BY <1>2, <1>5 DEF o, bytes
  <2>4. Len(opened') # 0 /\ opened'[Len(opened')] = o
    BY <1>5
  <2> QED BY <2>1, <2>2, <2>3, <2>4, Zenon DEF UnderWay
<1>12. intact' => Seen'
  <2> SUFFICES ASSUME intact', NEW c \in 1 .. job.fraction, NEW k \in 1 .. Len(PositionsOf(job, c)),
                      Answered(c, k)'
               PROVE  CellsAt(job, PositionsOf(job, c)[k]) \subseteq confirmed
    BY <1>2, Zenon DEF Seen
  <2>1. intact /\ arrived' = bytes
    BY <1>2
  <2>2. c < client \/ (c = client /\ (k < asked + 1 \/ (k = asked + 1 /\ arrived' = << >>)))
    BY <1>2 DEF Answered
  <2>3. Answered(c, k)
    <3>1. Len(PositionsOf(job, c)) \in Nat
      BY <1>1, PositionsIn
    <3> QED BY <1>1, <1>6, <2>1, <2>2, <3>1 DEF Answered
  <2>4. Seen
    BY <2>1 DEF FleetInv
  <2> QED BY <2>3, <2>4 DEF Seen
<1>13. client' \in 1 .. (job'.fraction + 1) /\ asked' \in Nat
  BY <1>1, <1>2
<1> QED BY <1>1, <1>2, <1>5, <1>7, <1>8, <1>9, <1>10, <1>11, <1>12, <1>13 DEF FleetInv

\* A node's answer, a cell
LEMMA AskCellInv == ASSUME DamagedIsBytes, FleetInv, AskCell PROVE FleetInv'
<1> DEFINE p == PositionsOf(job, client)
           at == p[asked + 1]
<1>1. /\ IsBlock(job) /\ HasSizes(job) /\ client \in 1 .. job.fraction /\ asked \in Nat
      /\ client <= job.fraction /\ arrived = << >> /\ job.kind = "cell" /\ asked < Len(p)
  <2>1. job.fraction \in Nat
    BY DEF FleetInv, IsBlock
  <2> QED BY <2>1, PositionsIs DEF FleetInv, AskCell, Working
<1>2. at \in Places(job)
  <2>1. Len(p) \in Nat /\ \A k \in 1 .. Len(p) : p[k] \in Places(job)
    BY <1>1, PositionsIn
  <2> QED BY <1>1, <2>1
<1> HIDE DEF p, at
<1>3. ~(at.row >= job.grid.rows)
  <2>1. at.row \in Indices(job.grid.rows) /\ job.grid.rows \in Nat
    BY <1>1, <1>2 DEF Places, Numbered, IsBlock, Sided
  <2> QED BY <2>1 DEF Indices
<1>4. Answer(OpenCell(job.polys, job.evals, at.col, at.row),
             << Len(opened) + 1 >> \o Limbs(job.evals[at.row][at.col]))
  BY <1>3, PositionsIs, Zenon DEF AskCell, at, p
<1>5. Answer(OpeningAt(job, at), BytesAt(job, at, Len(opened) + 1))
  BY <1>1, <1>4, Zenon DEF OpeningAt, BytesAt, CellBytes
<1> QED BY <1>1, <1>5, AnswerInv DEF at, p

\* or a block,
LEMMA AskBlockInv == ASSUME DamagedIsBytes, FleetInv, AskBlock PROVE FleetInv'
<1> DEFINE p == PositionsOf(job, client)
           at == p[asked + 1]
<1>1. /\ IsBlock(job) /\ HasSizes(job) /\ client \in 1 .. job.fraction /\ asked \in Nat
      /\ client <= job.fraction /\ arrived = << >> /\ job.kind = "mcell" /\ asked < Len(p)
  <2>1. job.fraction \in Nat
    BY DEF FleetInv, IsBlock
  <2> QED BY <2>1, PositionsIs DEF FleetInv, AskBlock, Working
<1>2. at \in Places(job)
  <2>1. Len(p) \in Nat /\ \A k \in 1 .. Len(p) : p[k] \in Places(job)
    BY <1>1, PositionsIn
  <2> QED BY <1>1, <2>1
<1> HIDE DEF p, at
<1> DEFINE block == MultiproofBlock(at.col, at.row, job.grid, job.target)
           opening == OpenBlock(job.polys, job.evals, block)
           scalars == FlattenSeq(opening.evals)
<1>3. block # NoBlock
  <2>1. BlockAt(job, at) # NoBlock
    BY <1>1, <1>2, BlockPlaced
  <2> QED BY <2>1 DEF BlockAt
<1>4. Answer(opening, ToBytes([proof |-> Len(opened) + 1, block |-> block,
                               scalars |-> [k \in DOMAIN scalars |-> Limbs(scalars[k])]]))
  BY <1>3, PositionsIs, Zenon DEF AskBlock, at, p
<1>5. job.kind # "cell"
  BY <1>1
<1>6. OpeningAt(job, at) = opening /\ BlockAt(job, at) = block
  BY <1>5, Zenon DEF OpeningAt, BlockAt
<1>7. BytesAt(job, at, Len(opened) + 1) =
        ToBytes([proof |-> Len(opened) + 1, block |-> block,
                 scalars |-> [k \in DOMAIN scalars |-> Limbs(scalars[k])]])
  <2> HIDE DEF opening, block
  <2>1. BytesAt(job, at, Len(opened) + 1) = BlockBytes(Len(opened) + 1, block, opening)
    BY <1>5, <1>6, Zenon DEF BytesAt
  <2> QED BY <2>1, Zenon DEF BlockBytes
<1> HIDE DEF opening, block, scalars
<1>8. Answer(OpeningAt(job, at), BytesAt(job, at, Len(opened) + 1))
  BY <1>4, <1>6, <1>7
<1> QED BY <1>1, <1>8, AnswerInv DEF at, p

\* and the turn of the next client.
LEMMA NextClientInv == ASSUME FleetInv, NextClient PROVE FleetInv'
<1> DEFINE p == PositionsOf(job, client)
<1>1. /\ IsBlock(job) /\ HasSizes(job) /\ client \in 1 .. job.fraction /\ job.fraction \in Nat
      /\ arrived = << >> /\ asked = Len(p) /\ opened \in Seq(Openings(job))
      /\ ConfirmedIsGenuine /\ HonestIsVerified /\ (intact => Seen)
  <2>1. job.fraction \in Nat
    BY DEF FleetInv, IsBlock
  <2> QED BY <2>1, PositionsIs DEF FleetInv, NextClient, Working
<1>2. /\ client' = client + 1 /\ asked' = 0 /\ outcome' = "none" /\ job' = job /\ opened' = opened
      /\ arrived' = arrived /\ intact' = intact /\ confirmed' = confirmed
  BY DEF NextClient
<1> HIDE DEF p
<1>3. intact' => Seen'
  <2> SUFFICES ASSUME intact, NEW c \in 1 .. job.fraction, NEW k \in 1 .. Len(PositionsOf(job, c)),
                      Answered(c, k)'
               PROVE  CellsAt(job, PositionsOf(job, c)[k]) \subseteq confirmed
    BY <1>2, Zenon DEF Seen
  <2>1. Len(PositionsOf(job, c)) \in Nat
    BY <1>1, PositionsIn
  <2>2. c < client + 1 \/ (c = client + 1 /\ (k < 0 \/ k = 0))
    BY <1>2 DEF Answered
  <2>3. c < client \/ c = client
    BY <1>1, <2>1, <2>2
  <2>4. Answered(c, k)
    <3>1. c = client => k <= asked
      BY <1>1, <2>1 DEF p
    <3>2. asked \in Nat
      BY <1>1, PositionsIn DEF p
    <3> QED BY <1>1, <2>1, <2>3, <3>1, <3>2 DEF Answered
  <2> QED BY <1>1, <2>4 DEF Seen
<1>4. client' \in 1 .. (job'.fraction + 1) /\ asked' \in Nat
  BY <1>1, <1>2
<1>5. ConfirmedIsGenuine'
  BY <1>1, <1>2 DEF ConfirmedIsGenuine
<1>6. HonestIsVerified'
  BY <1>2 DEF HonestIsVerified
<1>7. arrived' = << >> /\ arrived' \in Seq(Nat)
  BY <1>1, <1>2
<1> QED BY <1>1, <1>2, <1>3, <1>4, <1>5, <1>6, <1>7 DEF FleetInv

\* Whatever the verification says, it is for the position asked for.
LEMMA SettleInv ==
  ASSUME FleetInv, arrived # << >>, NEW verdict, NEW found, Settle(verdict, found),
         verdict = "verified" => \A z \in found :
           /\ z.row < job.grid.rows /\ z.col < job.grid.cols
           /\ job.evals[z.row][z.col] = z.value,
         intact => /\ verdict = "verified"
                   /\ CellsAt(job, PositionsOf(job, client)[asked]) \subseteq found
  PROVE  FleetInv'
<1>1. /\ IsBlock(job) /\ HasSizes(job) /\ client \in 1 .. job.fraction /\ job.fraction \in Nat
      /\ client \in 1 .. (job.fraction + 1) /\ asked \in Nat
      /\ opened \in Seq(Openings(job)) /\ ConfirmedIsGenuine /\ (intact => Seen)
  <2>1. job.fraction \in Nat
    BY DEF FleetInv, IsBlock
  <2> QED BY <2>1 DEF FleetInv
<1>2. /\ outcome' = verdict /\ arrived' = << >> /\ job' = job /\ client' = client /\ asked' = asked
      /\ opened' = opened /\ intact' = intact
      /\ confirmed' = IF verdict = "verified" THEN confirmed \cup found ELSE confirmed
  BY DEF Settle
<1>3. ConfirmedIsGenuine'
  <2> SUFFICES ASSUME NEW z \in confirmed'
               PROVE  /\ z.row < job.grid.rows /\ z.col < job.grid.cols
                      /\ job.evals[z.row][z.col] = z.value
    BY <1>2 DEF ConfirmedIsGenuine
  <2>1. CASE z \in confirmed
    BY <1>1, <2>1 DEF ConfirmedIsGenuine
  <2>2. CASE z \notin confirmed
    <3>1. verdict = "verified" /\ z \in found
      BY <1>2, <2>2
    <3> QED BY <3>1
  <2> QED BY <2>1, <2>2
<1>4. HonestIsVerified'
  BY <1>2 DEF HonestIsVerified
<1>5. intact' => Seen'
  <2> SUFFICES ASSUME intact, NEW c \in 1 .. job.fraction, NEW k \in 1 .. Len(PositionsOf(job, c)),
                      Answered(c, k)'
               PROVE  CellsAt(job, PositionsOf(job, c)[k]) \subseteq confirmed'
    BY <1>2, Zenon DEF Seen
  <2>1. confirmed' = confirmed \cup found
    BY <1>2
  <2>2. c < client \/ (c = client /\ (k < asked \/ k = asked))
    BY <1>2 DEF Answered
  <2>3. CASE c = client /\ k = asked
    BY <2>1, <2>3
  <2>4. CASE ~(c = client /\ k = asked)
    <3>1. Answered(c, k)
      BY <2>2, <2>4 DEF Answered
    <3>2. CellsAt(job, PositionsOf(job, c)[k]) \subseteq confirmed
      BY <1>1, <3>1 DEF Seen
    <3> QED BY <2>1, <3>2
  <2> QED BY <2>3, <2>4
<1>6. arrived' \in Seq(Nat)
  BY <1>2
<1> QED BY <1>1, <1>2, <1>3, <1>4, <1>5, <1>6 DEF FleetInv

\* What is under way for a position that was asked for.
LEMMA Expected ==
  ASSUME FleetInv, arrived # << >>
  PROVE  /\ At = PositionsOf(job, client)[asked] /\ At \in Places(job)
         /\ intact => arrived = BytesAt(job, At, Len(opened)) /\ Convinces(job, At, Len(opened), opened)
<1>1. /\ IsBlock(job) /\ HasSizes(job) /\ client \in 1 .. job.fraction
      /\ asked \in 1 .. Len(PositionsOf(job, client)) /\ opened \in Seq(Openings(job))
      /\ (intact => UnderWay)
  <2>1. job.fraction \in Nat
    BY DEF FleetInv, IsBlock
  <2> QED BY <2>1 DEF FleetInv
<1>2. At = PositionsOf(job, client)[asked]
  BY PositionsIs DEF At
<1>3. At \in Places(job)
  <2> DEFINE p == PositionsOf(job, client)
  <2>1. \A k \in 1 .. Len(p) : p[k] \in Places(job)
    <3> HIDE DEF p
    <3> QED BY <1>1, PositionsIn DEF p
  <2> QED BY <1>1, <1>2, <2>1
<1>4. ASSUME intact PROVE arrived = BytesAt(job, At, Len(opened)) /\ Convinces(job, At, Len(opened), opened)
  <2> DEFINE n == Len(opened)
             o == OpeningAt(job, At)
  <2>1. n # 0 /\ opened[n] = o /\ arrived = BytesAt(job, At, n)
    BY <1>1, <1>2, <1>4 DEF UnderWay
  <2>2. n \in Nat /\ n \in DOMAIN opened
    BY <1>1, <2>1, LenProperties
  <2> HIDE DEF n
  <2>3. Convinces(job, At, n, opened)
    BY <1>1, <1>3, <2>1, <2>2, PlaceVerifies
  <2> QED BY <2>1, <2>3 DEF n
<1> QED BY <1>2, <1>3, <1>4

\* verify_v2 accepts only the matrix's value, and an honest answer always,
LEMMA CheckCellInv == ASSUME FleetInv, CheckCell PROVE FleetInv'
<1> DEFINE value == ScalarOf(SingleCellData(arrived))
           found == {[row |-> At.row, col |-> At.col, value |-> value]}
           verdict == VerifyCell(opened, job.dims, job.header[At.row], At.col, arrived)
<1>1. IsBlock(job) /\ arrived # << >> /\ job.kind = "cell"
  BY DEF FleetInv, CheckCell
<1>2. /\ At = PositionsOf(job, client)[asked] /\ At \in Places(job)
      /\ intact => arrived = BytesAt(job, At, Len(opened)) /\ Convinces(job, At, Len(opened), opened)
  BY <1>1, Expected
<1>3. At.row \in Indices(job.grid.rows) /\ At.col \in Indices(job.grid.cols)
      /\ job.grid.rows \in Nat /\ job.grid.cols \in Nat
  BY <1>1, <1>2 DEF Places, Numbered, IsBlock, Sided
<1>4. intact => /\ Len(arrived) = PROOF_LEN + LIMBS /\ verdict = "verified"
                /\ value = job.evals[At.row][At.col]
  BY <1>1, <1>2, Zenon DEF Convinces
<1>5. CASE Len(arrived) # PROOF_LEN + LIMBS
  <2>1. Settle("error", {})
    BY <1>5 DEF CheckCell
  <2>2. ~intact
    BY <1>4, <1>5
  <2> QED BY <1>1, <2>1, <2>2, SettleInv
<1>6. CASE ~(Len(arrived) # PROOF_LEN + LIMBS)
  <2>1. Settle(verdict, found)
    BY <1>6, Zenon DEF CheckCell
  <2>2. verdict = "verified" => job.evals[At.row][At.col] = value
    <3> DEFINE y == At.row
               x == At.col
    <3>1. y \in Indices(job.grid.rows) /\ x \in Indices(job.grid.cols)
      BY <1>3
    <3> HIDE DEF y, x
    <3>2. VerifyCell(opened, job.dims, job.header[y], x, arrived) = "verified"
            => job.evals[y][x] = ScalarOf(SingleCellData(arrived))
      BY <1>1, <3>1, CellGenuine
    <3> QED BY <3>2 DEF x, y
  <2>3. At.row < job.grid.rows /\ At.col < job.grid.cols
    BY <1>3 DEF Indices
  <2>4. intact => CellsAt(job, PositionsOf(job, client)[asked]) \subseteq found
    BY <1>1, <1>2, <1>4 DEF CellsAt
  <2> HIDE DEF verdict, value
  <2>5. verdict = "verified" => \A z \in found :
           /\ z.row < job.grid.rows /\ z.col < job.grid.cols
           /\ job.evals[z.row][z.col] = z.value
    BY <2>2, <2>3
  <2>6. intact => verdict = "verified"
    BY <1>4
  <2> HIDE DEF found
  <2> QED BY <1>1, <2>1, <2>4, <2>5, <2>6, SettleInv
<1> QED BY <1>5, <1>6

\* and verify_multi_proof only the matrix's values.
LEMMA CheckBlockInv == ASSUME FleetInv, CheckBlock PROVE FleetInv'
<1> DEFINE cell == FromBytes(At, arrived)
           found == CellsOf(cell)
           verdict == VerifyMultiProof(opened, job.header, job.dims.cols, cell)
<1>1. IsBlock(job) /\ arrived # << >> /\ job.kind = "mcell" /\ arrived \in Seq(Nat)
  BY DEF FleetInv, CheckBlock
<1>2. /\ At = PositionsOf(job, client)[asked] /\ At \in Places(job)
      /\ intact => arrived = BytesAt(job, At, Len(opened)) /\ Convinces(job, At, Len(opened), opened)
  BY <1>1, Expected
<1>3. intact => cell.ok /\ verdict = "verified" /\ CellsAt(job, At) \subseteq found
  BY <1>1, <1>2, Zenon DEF Convinces
<1>4. cell.ok \in BOOLEAN
  BY DEF FromBytes, Unreadable
<1>5. CASE ~cell.ok
  <2>1. Settle("error", {})
    BY <1>5, Zenon DEF CheckBlock
  <2>2. ~intact
    BY <1>3, <1>5
  <2> QED BY <1>1, <2>1, <2>2, SettleInv
<1>6. CASE cell.ok
  <2>1. Settle(verdict, found)
    BY <1>6, Zenon DEF CheckBlock
  <2>2. Paired(opened)
    BY OpenedArePaired
  <2>3. ASSUME verdict = "verified", NEW z \in found
        PROVE  /\ z.row < job.grid.rows /\ z.col < job.grid.cols
               /\ job.evals[z.row][z.col] = z.value
    <3>1. cell = FromBytes(At, arrived)
      OBVIOUS
    <3> HIDE DEF cell
    <3> QED BY <1>1, <1>6, <2>2, <2>3, <3>1, BlockGenuine
  <2> HIDE DEF verdict, found
  <2> QED BY <1>1, <1>2, <1>3, <2>1, <2>3, SettleInv
<1> QED BY <1>5, <1>6

\* Nothing happens,
LEMMA FleetStutterInv == ASSUME FleetInv, UNCHANGED fleetVars PROVE FleetInv'
<1>1. /\ job' = job /\ client' = client /\ asked' = asked /\ opened' = opened /\ arrived' = arrived
      /\ intact' = intact /\ outcome' = outcome /\ confirmed' = confirmed
  BY DEF fleetVars
<1> QED BY <1>1 DEF FleetInv, ConfirmedIsGenuine, HonestIsVerified, UnderWay, Seen, Answered

\* hence every step keeps the invariant,
LEMMA FleetStepInv == ASSUME DamagedIsBytes, FleetInv, [FleetNext]_fleetVars PROVE FleetInv'
<1>1. CASE AskCell
  BY <1>1, AskCellInv
<1>2. CASE AskBlock
  BY <1>2, AskBlockInv
<1>3. CASE NextClient
  BY <1>3, NextClientInv
<1>4. CASE CheckCell
  BY <1>4, CheckCellInv
<1>5. CASE CheckBlock
  BY <1>5, CheckBlockInv
<1>6. CASE UNCHANGED fleetVars
  BY <1>6, FleetStutterInv
<1>7. CASE FleetDone
  BY <1>7, FleetStutterInv DEF FleetDone
<1> QED BY <1>1, <1>2, <1>3, <1>4, <1>5, <1>6, <1>7 DEF FleetNext

\* and it holds of the fleet, always.
LEMMA FleetInvariance == ASSUME DamagedIsBytes PROVE FleetSpec => []FleetInv
<1>1. FleetInit => FleetInv
  BY FleetInitInv
<1>2. FleetInv /\ [FleetNext]_fleetVars => FleetInv'
  BY FleetStepInv
<1> QED BY <1>1, <1>2, PTL DEF FleetSpec

\* verify_v2 and verify_multi_proof are sound: a light client never takes a
\* value for a cell of the extended matrix that the author did not commit to
\* in the header, whatever bytes a node's answer is damaged to, whatever block
\* they name, and however many openings there are to show, for every prime
\* field, every matrix whose sides are powers of two and every target.
THEOREM VerifiedIsGenuine == ASSUME DamagedIsBytes PROVE FleetSpec => []ConfirmedIsGenuine
<1>1. FleetSpec => []FleetInv
  BY FleetInvariance
<1>2. FleetInv => ConfirmedIsGenuine
  BY DEF FleetInv
<1> QED BY <1>1, <1>2, PTL

\* They are complete: as long as nothing was damaged on the way, the proofs of
\* the node verify, for cells and for blocks.  The row polynomials the node
\* opens, interpolated from extended values, are then those the author's
\* commitments were extended to, coefficient by coefficient; the bytes carry
\* the proof unchanged; and the client puts the right commitments and points
\* to the right values.
THEOREM HonestAnswersVerify == ASSUME DamagedIsBytes PROVE FleetSpec => []HonestIsVerified
<1>1. FleetSpec => []FleetInv
  BY FleetInvariance
<1>2. FleetInv => HonestIsVerified
  BY DEF FleetInv
<1> QED BY <1>1, <1>2, PTL

\* The clients of a fleet share the matrix without a gap: when all had their
\* turn and nothing was damaged, each cell of the extended matrix has been
\* verified by one of them, although iter_extended_partition_positions and
\* iter_mcell_partition_positions compute the slices in floating point, for
\* every number of clients and every matrix JobsAssumption admits.
THEOREM NoCellIsLeftOut == ASSUME DamagedIsBytes PROVE FleetSpec => []FleetSeesAll
<1>1. FleetSpec => []FleetInv
  BY FleetInvariance
<1>2. FleetInv => FleetSeesAll
  <2> SUFFICES ASSUME FleetInv, client > job.fraction, intact, job.kind = "mcell" => McellDims # NoDims,
                      NEW y \in Indices(job.grid.rows), NEW x \in Indices(job.grid.cols)
               PROVE  [row |-> y, col |-> x, value |-> job.evals[y][x]] \in confirmed
    BY DEF FleetSeesAll
  <2>1. IsBlock(job) /\ HasSizes(job) /\ Seen /\ client \in 1 .. (job.fraction + 1) /\ job.fraction \in Nat
    BY DEF FleetInv, IsBlock
  <2>2. Sampled(job)
    BY DEF Sampled, McellDims
  <2>3. PICK at \in Places(job) : [row |-> y, col |-> x, value |-> job.evals[y][x]] \in CellsAt(job, at)
    BY <2>1, <2>2, PlacesCover
  <2>4. PICK n \in 1 .. job.fraction : \E k \in 1 .. Len(PositionsOf(job, n)) : PositionsOf(job, n)[k] = at
    BY <2>1, ClientsCover
  <2>5. PICK k \in 1 .. Len(PositionsOf(job, n)) : PositionsOf(job, n)[k] = at
    BY <2>4
  <2>6. Answered(n, k)
    BY <2>1 DEF Answered
  <2> QED BY <2>1, <2>3, <2>5, <2>6 DEF Seen
<1> QED BY <1>1, <1>2, PTL

===============================================================================
