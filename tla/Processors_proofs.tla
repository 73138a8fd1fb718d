-------------------------- MODULE Processors_proofs --------------------------
(***************************************************************************)
(* Theorems about Processors, for words, registers and memories of any      *)
(* size and any programs.                                                   *)
(***************************************************************************)
EXTENDS Processors, FiniteSetTheorems, FunctionTheorems, NaturalsInduction, WellFoundedInduction, TLAPS

-----------------------------------------------------------------------------
(* Numbers. *)

\* Induction, as a fact about sets.
LEMMA Induction ==
    ASSUME NEW S, 0 \in S, \A n \in Nat : n \in S => n + 1 \in S
    PROVE  Nat \subseteq S
<1> DEFINE R == OpToRel(<, Nat)
           Rest == Nat \ S
<1>1. \A m, n \in Nat : m < n => <<m, n>> \in R
  BY DEF OpToRel
<1>2. IsWellFoundedOn(R, Nat)
  BY NatLessThanWellFounded
<1> HIDE DEF R
<1>3. SUFFICES ASSUME Rest # {} PROVE FALSE
  OBVIOUS
<1>4. \E n \in Rest : \A m \in Rest : ~ (<<m, n>> \in R)
  <2>1. Rest \subseteq Nat
    OBVIOUS
  <2> HIDE DEF Rest
  <2> QED
    BY <1>2, <1>3, <2>1, WFMin, Zenon
<1>5. PICK n \in Rest : \A m \in Rest : ~ (<<m, n>> \in R)
  BY <1>4
<1>6. \A m \in Rest : ~ (m < n)
  BY <1>1, <1>5
<1>7. n \in Nat /\ n # 0
  BY <1>5
<1>8. n - 1 \in Nat /\ n - 1 < n
  BY <1>7
<1>9. n - 1 \in S
  BY <1>6, <1>8
<1> QED
  BY <1>5, <1>8, <1>9

\* A set of numbers has a least one.
LEMMA Least ==
    ASSUME NEW S \in SUBSET Nat, S # {}
    PROVE  \E n \in S : \A m \in S : n <= m
<1> SUFFICES ASSUME ~ \E n \in S : \A m \in S : n <= m PROVE FALSE
  OBVIOUS
<1> DEFINE T == {n \in Nat : \A m \in S : n < m}
<1>1. 0 \in T
  OBVIOUS
<1>2. \A n \in Nat : n \in T => n + 1 \in T
  OBVIOUS
<1>3. Nat \subseteq T
  <2> HIDE DEF T
  <2> QED BY <1>1, <1>2, Induction
<1>4. PICK n \in S : TRUE
  OBVIOUS
<1>5. n \in T
  BY <1>3, <1>4
<1> QED
  BY <1>4, <1>5

\* And a greatest one, if it is bounded.
LEMMA Greatest ==
    ASSUME NEW S \in SUBSET Nat, S # {}, NEW b \in Nat, \A n \in S : n <= b
    PROVE  Max(S) \in S /\ \A m \in S : m <= Max(S)
<1> DEFINE T == {b - n : n \in S}
<1>1. T \subseteq Nat /\ T # {}
  <2>1. \A n \in S : b - n \in Nat
    OBVIOUS
  <2> QED BY <2>1
<1>2. \E t \in T : \A u \in T : t <= u
  <2> HIDE DEF T
  <2> QED BY <1>1, Least
<1>3. \E n \in S : \A m \in S : n >= m
  <2>1. PICK t \in T : \A u \in T : t <= u
    BY <1>2
  <2>2. PICK n \in S : t = b - n
    BY <2>1
  <2>3. ASSUME NEW m \in S PROVE n >= m
    <3>1. b - m \in T
      OBVIOUS
    <3>2. b - n <= b - m
      BY <2>1, <2>2, <3>1
    <3> QED BY <3>2
  <2> QED BY <2>3
<1> QED
  BY <1>3 DEF Max

LEMMA MinIs ==
    ASSUME NEW S \in SUBSET Nat, S # {}
    PROVE  Min(S) \in S /\ \A m \in S : Min(S) <= m
BY Least DEF Min

LEMMA MinMaxOfTwo ==
    ASSUME NEW a \in Int, NEW b \in Int
    PROVE  /\ Min({a, b}) = IF a <= b THEN a ELSE b
           /\ Max({a, b}) = IF a >= b THEN a ELSE b
BY DEF Min, Max

\* Powers of two count subsets.
LEMMA PowerType ==
    ASSUME NEW n \in Nat PROVE 2^n \in Nat \ {0}
<1>1. IsFiniteSet(1 .. n) /\ Cardinality(1 .. n) = n
  BY FS_Interval
<1>2. IsFiniteSet(SUBSET (1 .. n)) /\ Cardinality(SUBSET (1 .. n)) = 2^n
  BY <1>1, FS_SUBSET
<1>3. Cardinality(SUBSET (1 .. n)) \in Nat
  BY <1>2, FS_CardinalityType
<1>4. SUBSET (1 .. n) # {}
  OBVIOUS
<1>5. Cardinality(SUBSET (1 .. n)) # 0
  BY <1>2, <1>4, FS_EmptySet
<1> QED
  BY <1>2, <1>3, <1>5

LEMMA PowerGrows ==
    ASSUME NEW n \in Nat, NEW m \in Nat, n <= m PROVE 2^n <= 2^m
<1>1. /\ IsFiniteSet(1 .. n) /\ Cardinality(1 .. n) = n
      /\ IsFiniteSet(1 .. m) /\ Cardinality(1 .. m) = m
  BY FS_Interval
<1>2. /\ Cardinality(SUBSET (1 .. n)) = 2^n
      /\ IsFiniteSet(SUBSET (1 .. m)) /\ Cardinality(SUBSET (1 .. m)) = 2^m
  BY <1>1, FS_SUBSET
<1>3. SUBSET (1 .. n) \in SUBSET (SUBSET (1 .. m))
  OBVIOUS
<1> QED
  BY <1>2, <1>3, FS_Subset

\* A subset more has n + 1 or not.
LEMMA PowerDoubles ==
    ASSUME NEW n \in Nat PROVE 2^(n + 1) = 2 * 2^n
<1> DEFINE S == SUBSET (1 .. n)
           T == {s \cup {n + 1} : s \in S}
           f == [s \in S |-> s \cup {n + 1}]
<1>1. /\ IsFiniteSet(1 .. n) /\ Cardinality(1 .. n) = n
      /\ IsFiniteSet(1 .. (n + 1)) /\ Cardinality(1 .. (n + 1)) = n + 1
  BY FS_Interval
<1>2. IsFiniteSet(S) /\ Cardinality(S) = 2^n /\ Cardinality(SUBSET (1 .. (n + 1))) = 2^(n + 1)
  BY <1>1, FS_SUBSET
<1>3. f \in Bijection(S, T)
  <2>1. f \in [S -> T] /\ \A t \in T : \E s \in S : f[s] = t
    OBVIOUS
  <2>2. ASSUME NEW s \in S, NEW t \in S, f[s] = f[t] PROVE s = t
    <3>1. n + 1 \notin s /\ n + 1 \notin t
      OBVIOUS
    <3> QED BY <2>2, <3>1
  <2> HIDE DEF S, T, f
  <2> QED BY <2>1, <2>2 DEF Bijection, Injection, Surjection, IsInjective
<1>4. IsFiniteSet(T) /\ Cardinality(T) = Cardinality(S)
  <2> HIDE DEF S, T, f
  <2>1. ExistsBijection(S, T)
    BY <1>3 DEF ExistsBijection
  <2> QED BY <1>2, <2>1, FS_Bijection
<1>5. SUBSET (1 .. (n + 1)) = S \cup T
  <2>1. ASSUME NEW s \in SUBSET (1 .. (n + 1)) PROVE s \in S \cup T
    <3>1. s \ {n + 1} \in S
      OBVIOUS
    <3>2. CASE n + 1 \in s
      <4>1. s = (s \ {n + 1}) \cup {n + 1}
        BY <3>2
      <4> QED BY <3>1, <4>1
    <3>3. CASE n + 1 \notin s
      <4>1. s = s \ {n + 1}
        BY <3>3
      <4> QED BY <3>1, <4>1
    <3> QED BY <3>2, <3>3
  <2>2. S \cup T \subseteq SUBSET (1 .. (n + 1))
    <3>1. ASSUME NEW s \in S PROVE s \subseteq 1 .. (n + 1) /\ s \cup {n + 1} \subseteq 1 .. (n + 1)
      OBVIOUS
    <3> QED BY <3>1
  <2> QED BY <2>1, <2>2
<1>6. S \cap T = {}
  <2>1. \A s \in S : n + 1 \notin s
    OBVIOUS
  <2> QED BY <2>1
<1>7. Cardinality(S \cup T) = Cardinality(S) + Cardinality(T)
  <2> HIDE DEF S, T, f
  <2>1. Cardinality(S \cup T) = Cardinality(S) + Cardinality(T) - Cardinality(S \cap T)
    BY <1>2, <1>4, FS_Union
  <2>2. Cardinality(S \cap T) = 0
    BY <1>6, FS_EmptySet
  <2>3. Cardinality(S) \in Nat /\ Cardinality(T) \in Nat
    BY <1>2, <1>4, FS_CardinalityType
  <2> QED BY <2>1, <2>2, <2>3
<1>8. 2^n \in Nat
  BY PowerType
<1> HIDE DEF S, T, f
<1>9. 2^(n + 1) = Cardinality(S) + Cardinality(T)
  BY <1>2, <1>5, <1>7
<1>10. Cardinality(S) = 2^n /\ Cardinality(T) = 2^n
  BY <1>2, <1>4
<1> QED
  BY <1>8, <1>9, <1>10

\* A quotient and its remainder.
LEMMA Divided ==
    ASSUME NEW a \in Int, NEW d \in Nat \ {0}
    PROVE  /\ a \div d \in Int /\ a % d \in 0 .. (d - 1)
           /\ a = (a \div d) * d + (a % d)
OBVIOUS

LEMMA RemainderIs ==
    \A a \in Int, d \in Nat \ {0} : a % d \in 0 .. (d - 1)
OBVIOUS

\* Factors compare as products do.
LEMMA FactorsCompare ==
    ASSUME NEW d \in Nat \ {0}, NEW m \in Int, NEW n \in Int, m * d < n * d
    PROVE  m < n
<1> SUFFICES ASSUME m >= n PROVE FALSE
  OBVIOUS
<1>1. m - n \in Nat
  OBVIOUS
<1>2. (m - n) * d >= 0
  BY <1>1
<1>3. (m - n) * d = m * d - n * d
  OBVIOUS
<1>4. m * d \in Int /\ n * d \in Int
  OBVIOUS
<1> QED
  BY <1>2, <1>3, <1>4

\* From a place of a ring back and forth again.
LEMMA ModBack ==
    ASSUME NEW m \in Nat \ {0}, NEW a \in 0 .. (m - 1), NEW f \in Int
    PROVE  (f + ((a - f) % m)) % m = a
<1> DEFINE t == (a - f) % m
           q == (a - f) \div m
           r == (f + t) % m
           p == (f + t) \div m
<1>1. q \in Int /\ t \in 0 .. (m - 1) /\ a - f = q * m + t
  <2> DEFINE x == a - f
  <2>1. x \in Int
    OBVIOUS
  <2> HIDE DEF x
  <2> QED BY <2>1, Divided DEF x
<1>2. f + t \in Int
  BY <1>1
<1>3. p \in Int /\ r \in 0 .. (m - 1) /\ f + t = p * m + r
  <2> HIDE DEF t
  <2> QED BY <1>2, Divided
<1> HIDE DEF t, q, r, p
<1>4. q * m \in Int /\ p * m \in Int /\ (p + q) * m = p * m + q * m
  BY <1>1, <1>3
<1>5. a - r = (p + q) * m
  BY <1>1, <1>3, <1>4
<1>6. (p + q) * m < 1 * m /\ (-1) * m < (p + q) * m
  BY <1>3, <1>5
<1>7. p + q < 1 /\ -1 < p + q
  <2>1. p + q \in Int
    BY <1>1, <1>3
  <2> DEFINE z == p + q
  <2> HIDE DEF z
  <2> QED BY <1>6, <2>1, FactorsCompare DEF z
<1>8. p + q = 0
  BY <1>1, <1>3, <1>7
<1>9. a = r
  BY <1>3, <1>5, <1>8
<1> QED
  BY <1>9 DEF r, t

-----------------------------------------------------------------------------
(* Powers and digits. *)

LEMMA ProductOfNats ==
    ASSUME NEW a \in Int, NEW b \in Int
    PROVE  /\ a * b \in Int /\ a * b = b * a
           /\ a \in Nat /\ b \in Nat => a * b \in Nat
           /\ a \in Nat \ {0} /\ b \in Nat \ {0} => a * b \in Nat \ {0}
OBVIOUS

LEMMA Distributes ==
    ASSUME NEW a \in Int, NEW b \in Int, NEW c \in Int
    PROVE  /\ (a + b) * c = a * c + b * c /\ (a - b) * c = a * c - b * c
           /\ c * (a + b) = c * a + c * b /\ c * (a - b) = c * a - c * b
           /\ (a * b) * c = a * (b * c)
OBVIOUS

LEMMA ProductGrows ==
    ASSUME NEW a \in Int, NEW b \in Int, a <= b, NEW c \in Nat
    PROVE  a * c <= b * c
<1>1. (b - a) * c >= 0
  <2>1. b - a \in Nat
    OBVIOUS
  <2> QED BY <2>1
<1>2. (b - a) * c = b * c - a * c /\ b * c \in Int /\ a * c \in Int
  BY Distributes
<1> QED
  BY <1>1, <1>2

LEMMA PowerAdds ==
    ASSUME NEW m \in Nat, NEW n \in Nat
    PROVE  2^(m + n) = 2^m * 2^n
<1> DEFINE T == {k \in Nat : 2^(m + k) = 2^m * 2^k}
<1>1. 0 \in T
  <2>1. m + 0 = m /\ 2^0 = 1 /\ 2^m \in Nat
    BY PowerType
  <2> QED BY <2>1
<1>2. ASSUME NEW k \in Nat, k \in T PROVE k + 1 \in T
  <2>1. m + (k + 1) = (m + k) + 1 /\ m + k \in Nat
    OBVIOUS
  <2>2. 2^(m + (k + 1)) = 2 * 2^(m + k) /\ 2^(k + 1) = 2 * 2^k
    BY <2>1, PowerDoubles
  <2> DEFINE a == 2^m
             b == 2^k
  <2>3. a \in Int /\ b \in Int
    BY PowerType
  <2>4. 2^(m + k) = a * b
    BY <1>2
  <2> HIDE DEF a, b
  <2>5. 2 * (a * b) = a * (2 * b)
    BY <2>3
  <2>6. 2^(m + (k + 1)) = 2^m * 2^(k + 1)
    BY <2>2, <2>4, <2>5 DEF a, b
  <2> QED BY <2>6
<1>3. Nat \subseteq T
  <2> HIDE DEF T
  <2> QED BY <1>1, <1>2, Induction
<1> QED
  BY <1>3

\* An exponent is less than its power.
LEMMA PowerExceeds ==
    ASSUME NEW n \in Nat PROVE n < 2^n
<1> DEFINE T == {k \in Nat : k < 2^k}
<1>1. 0 \in T
  OBVIOUS
<1>2. ASSUME NEW k \in Nat, k \in T PROVE k + 1 \in T
  <2>1. 2^(k + 1) = 2 * 2^k /\ 2^k \in Nat /\ k < 2^k
    BY <1>2, PowerDoubles, PowerType
  <2> DEFINE p == 2^k
             q == 2^(k + 1)
  <2>2. q = 2 * p /\ p \in Nat /\ k < p
    BY <2>1
  <2> HIDE DEF p, q
  <2>3. k + 1 < q
    BY <2>2
  <2> QED BY <2>3 DEF q
<1>3. Nat \subseteq T
  <2> HIDE DEF T
  <2> QED BY <1>1, <1>2, Induction
<1> QED
  BY <1>3

\* What a quotient and a remainder are if the number is given as such.
LEMMA DividedIs ==
    ASSUME NEW d \in Nat \ {0}, NEW q \in Int, NEW r \in 0 .. (d - 1)
    PROVE  (q * d + r) \div d = q /\ (q * d + r) % d = r
<1> DEFINE a == q * d + r
           p == a \div d
           s == a % d
<1>1. a \in Int /\ q * d \in Int
  OBVIOUS
<1>2. p \in Int /\ s \in 0 .. (d - 1) /\ a = p * d + s
  <2> HIDE DEF a
  <2> QED BY <1>1, Divided
<1>3. a = q * d + r
  OBVIOUS
<1> HIDE DEF a, p, s
<1>4. (p - q) * d = p * d - q * d /\ p * d \in Int /\ p - q \in Int
  BY <1>2, Distributes
<1>5. (p - q) * d = r - s
  BY <1>1, <1>2, <1>3, <1>4
<1>6. (p - q) * d < 1 * d /\ (-1) * d < (p - q) * d
  BY <1>2, <1>5
<1>7. p - q < 1 /\ -1 < p - q
  <2> DEFINE z == p - q
  <2>1. z \in Int
    BY <1>4
  <2> HIDE DEF z
  <2> QED BY <1>6, <2>1, FactorsCompare DEF z
<1>8. p = q
  BY <1>2, <1>4, <1>7
<1>9. s = r
  BY <1>2, <1>3, <1>8
<1> QED
  BY <1>8, <1>9 DEF a, p, s

\* A multiple more does not change the remainder.
LEMMA MultipleMore ==
    ASSUME NEW d \in Nat \ {0}, NEW a \in Int, NEW k \in Int
    PROVE  (a + k * d) \div d = a \div d + k /\ (a + k * d) % d = a % d
<1> DEFINE q == a \div d
           r == a % d
<1>1. q \in Int /\ r \in 0 .. (d - 1) /\ a = q * d + r
  BY Divided
<1> HIDE DEF q, r
<1>2. (q + k) * d = q * d + k * d /\ q * d \in Int /\ k * d \in Int
  BY <1>1, Distributes
<1>3. a + k * d = (q + k) * d + r
  BY <1>1, <1>2
<1>4. q + k \in Int
  BY <1>1
<1>5. ((q + k) * d + r) \div d = q + k /\ ((q + k) * d + r) % d = r
  BY <1>1, <1>4, DividedIs
<1> QED
  BY <1>3, <1>5 DEF q, r

\* Divided by one factor after the other.
LEMMA DividedTwice ==
    ASSUME NEW a \in Int, NEW d \in Nat \ {0}, NEW e \in Nat \ {0}
    PROVE  a \div (d * e) = (a \div d) \div e
<1> DEFINE q == a \div d
           r == a % d
<1>1. q \in Int /\ r \in 0 .. (d - 1) /\ a = q * d + r
  BY Divided
<1> HIDE DEF q, r
<1> DEFINE p == q \div e
           s == q % e
<1>2. p \in Int /\ s \in 0 .. (e - 1) /\ q = p * e + s
  BY <1>1, Divided
<1> HIDE DEF p, s
<1>3. d * e \in Nat \ {0} /\ p * e \in Int
  BY <1>2, ProductOfNats
<1>4. q * d = p * (d * e) + s * d
  <2>1. q * d = (p * e) * d + s * d
    BY <1>2, <1>3, Distributes
  <2>2. (p * e) * d = p * (e * d) /\ e * d = d * e
    BY <1>2, Distributes, ProductOfNats
  <2> QED BY <2>1, <2>2
<1>5. s * d + r \in 0 .. (d * e - 1)
  <2>1. s * d >= 0 /\ s * d \in Int
    BY <1>2
  <2>2. s * d <= (e - 1) * d
    <3>1. s <= e - 1 /\ s \in Int /\ e - 1 \in Int /\ d \in Nat
      BY <1>2
    <3> QED BY <3>1, ProductGrows
  <2>3. (e - 1) * d = e * d - d /\ e * d = d * e
    BY Distributes, ProductOfNats
  <2> QED BY <1>1, <1>3, <2>1, <2>2, <2>3
<1>6. a = p * (d * e) + (s * d + r)
  <2> DEFINE x == p * (d * e)
             y == s * d
  <2>1. x \in Int /\ y \in Int
    BY <1>2, <1>3, ProductOfNats
  <2>2. q * d = x + y
    BY <1>4
  <2> HIDE DEF x, y
  <2>3. a = x + (y + r)
    BY <1>1, <2>1, <2>2
  <2> QED BY <2>3 DEF x, y
<1>7. a \div (d * e) = p
  <2> DEFINE f == d * e
             t == s * d + r
  <2>1. f \in Nat \ {0} /\ t \in 0 .. (f - 1) /\ a = p * f + t
    BY <1>3, <1>5, <1>6
  <2> HIDE DEF f, t
  <2>2. a \div f = p
    BY <1>2, <2>1, DividedIs
  <2> QED BY <2>2 DEF f
<1> QED
  BY <1>7 DEF p, q

-----------------------------------------------------------------------------
(* Repetition. *)

\* Each value of f is that of F for the one before.
Steps(N, V) == [1 .. N -> [V -> V]]
Follows(f, N, a, F) == f = [n \in 0 .. N |-> IF n = 0 THEN a ELSE F[n][f[n - 1]]]

\* Such a function exists.
LEMMA Repeats ==
    ASSUME NEW N \in Nat, NEW V, NEW a \in V, NEW F \in Steps(N, V)
    PROVE  \E f \in [0 .. N -> V] : Follows(f, N, a, F)
<1> USE DEF Steps, Follows
<1> DEFINE Is(f, m) == f \in [0 .. m -> V] /\ \A n \in 0 .. m : f[n] = IF n = 0 THEN a ELSE F[n][f[n - 1]]
           T == {m \in Nat : m <= N => \E f : Is(f, m)}
<1>1. 0 \in T
  <2> DEFINE f == [n \in 0 .. 0 |-> a]
  <2>1. Is(f, 0)
    OBVIOUS
  <2>2. \E g : Is(g, 0)
    <3> HIDE DEF f, Is
    <3> QED BY <2>1
  <2> HIDE DEF Is
  <2> QED BY <2>2
<1>2. ASSUME NEW m \in Nat, m \in T PROVE m + 1 \in T
  <2>1. SUFFICES ASSUME m + 1 <= N PROVE \E g : Is(g, m + 1)
    <3> HIDE DEF Is
    <3> QED OBVIOUS
  <2>2. PICK f : Is(f, m)
    <3> HIDE DEF Is
    <3> QED BY <1>2, <2>1
  <2> DEFINE v == F[m + 1][f[m]]
             g == [n \in 0 .. (m + 1) |-> IF n = m + 1 THEN v ELSE f[n]]
  <2>3. f[m] \in V /\ m + 1 \in 1 .. N
    BY <2>1, <2>2
  <2>4. v \in V
    BY <2>3
  <2> HIDE DEF v
  <2>5. g \in [0 .. (m + 1) -> V]
    BY <2>2, <2>4
  <2>6. ASSUME NEW n \in 0 .. (m + 1) PROVE g[n] = IF n = 0 THEN a ELSE F[n][g[n - 1]]
    <3>1. CASE n = m + 1
      <4>1. n - 1 = m /\ m \in 0 .. (m + 1) /\ m # m + 1
        BY <3>1
      <4>2. g[n] = v /\ g[m] = f[m]
        BY <3>1, <4>1
      <4> QED BY <3>1, <4>1, <4>2 DEF v
    <3>2. CASE n # m + 1
      <4>1. n \in 0 .. m /\ (n # 0 => n - 1 \in 0 .. (m + 1) /\ n - 1 # m + 1)
        BY <3>2
      <4>2. g[n] = f[n] /\ (n # 0 => g[n - 1] = f[n - 1])
        BY <3>2, <4>1
      <4> QED BY <2>2, <4>1, <4>2
    <3> QED BY <3>1, <3>2
  <2>7. Is(g, m + 1)
    BY <2>5, <2>6
  <2> HIDE DEF g, Is
  <2> QED BY <2>7
<1>3. Nat \subseteq T
  <2> HIDE DEF T
  <2> QED BY <1>1, <1>2, Induction
<1>4. \E f : Is(f, N)
  <2>1. N \in T
    BY <1>3
  <2> HIDE DEF Is
  <2> QED BY <2>1
<1>5. PICK f : Is(f, N)
  BY <1>4
<1> QED
  BY <1>5

-----------------------------------------------------------------------------
(* Sums over sets of numbers. *)

Some(s) == CHOOSE x \in s : TRUE

\* it sums up the values of g, one element after the other.
Sums(it, g, S) ==
    it = [s \in SUBSET S |-> IF s = {} THEN 0 ELSE g[Some(s)] + it[s \ {Some(s)}]]

LEMMA OneLess ==
    ASSUME NEW S, IsFiniteSet(S), NEW s \in SUBSET S, s # {}
    PROVE  /\ Some(s) \in s /\ s \ {Some(s)} \in SUBSET S
           /\ Cardinality(s) \in Nat \ {0} /\ Cardinality(s \ {Some(s)}) = Cardinality(s) - 1
<1>1. Some(s) \in s
  BY DEF Some
<1>2. IsFiniteSet(s)
  BY FS_Subset
<1>3. Cardinality(s) \in Nat /\ Cardinality(s) # 0
  BY <1>2, FS_CardinalityType, FS_EmptySet
<1>4. Cardinality(s \ {Some(s)}) = Cardinality(s) - 1
  BY <1>1, <1>2, FS_RemoveElement
<1> QED
  BY <1>1, <1>3, <1>4

LEMMA SumsExist ==
    ASSUME NEW S, IsFiniteSet(S), NEW g \in [S -> Int]
    PROVE  \E it : Sums(it, g, S)
<1> DEFINE Up(n) == {s \in SUBSET S : Cardinality(s) <= n}
           Is(h, n) == \A s \in Up(n) : h[s] = IF s = {} THEN 0 ELSE g[Some(s)] + h[s \ {Some(s)}]
           T == {n \in Nat : \E h : Is(h, n)}
<1>1. 0 \in T
  <2> DEFINE h == [s \in Up(0) |-> 0]
  <2>1. ASSUME NEW s \in Up(0) PROVE s = {}
    BY FS_Subset, FS_CardinalityType, FS_EmptySet
  <2>2. Is(h, 0)
    BY <2>1
  <2> QED BY <2>2
<1>2. \A n \in Nat : n \in T => n + 1 \in T
  <2>0. SUFFICES ASSUME NEW n \in Nat, n \in T PROVE n + 1 \in T
    OBVIOUS
  <2>a. PICK h : Is(h, n)
    BY <2>0
  <2> DEFINE k == [s \in Up(n + 1) |-> IF Cardinality(s) <= n THEN h[s]
                                       ELSE g[Some(s)] + h[s \ {Some(s)}]]
  <2>1. ASSUME NEW s \in Up(n + 1)
        PROVE  k[s] = IF s = {} THEN 0 ELSE g[Some(s)] + k[s \ {Some(s)}]
    <3>1. CASE s = {}
      <4>1. Cardinality(s) = 0
        BY <3>1, FS_EmptySet
      <4>2. k[s] = h[s] /\ s \in Up(n)
        BY <4>1
      <4> QED BY <4>2, <3>1, <2>a
    <3>2. CASE s # {}
      <4>1. /\ Some(s) \in s /\ s \ {Some(s)} \in SUBSET S
            /\ Cardinality(s) \in Nat \ {0} /\ Cardinality(s \ {Some(s)}) = Cardinality(s) - 1
        BY <3>2, OneLess
      <4>2. s \ {Some(s)} \in Up(n + 1) /\ Cardinality(s \ {Some(s)}) <= n
        BY <4>1
      <4>3. k[s \ {Some(s)}] = h[s \ {Some(s)}]
        BY <4>2
      <4>4. CASE Cardinality(s) <= n
        <5>1. k[s] = h[s] /\ s \in Up(n)
          BY <4>4
        <5> QED BY <5>1, <3>2, <4>3, <2>a
      <4>5. CASE ~ (Cardinality(s) <= n)
        BY <4>3, <4>5, <3>2
      <4> QED BY <4>4, <4>5
    <3> QED BY <3>1, <3>2
  <2>2. Is(k, n + 1)
    BY <2>1
  <2>3. \E j : Is(j, n + 1)
    <3> HIDE DEF k, Is
    <3> QED BY <2>2
  <2> HIDE DEF Is
  <2> QED BY <2>3
<1>3. Nat \subseteq T
  <2> HIDE DEF T
  <2> QED BY <1>1, <1>2, Induction
<1>4. Cardinality(S) \in T
  <2>1. Cardinality(S) \in Nat
    BY FS_CardinalityType
  <2> QED BY <1>3, <2>1
<1>5. PICK h : Is(h, Cardinality(S))
  BY <1>4
<1>6. Up(Cardinality(S)) = SUBSET S
  BY FS_Subset
<1> DEFINE it == [s \in SUBSET S |-> h[s]]
<1>7. Sums(it, g, S)
  <2>1. ASSUME NEW s \in SUBSET S
        PROVE  it[s] = IF s = {} THEN 0 ELSE g[Some(s)] + it[s \ {Some(s)}]
    <3>1. s \in Up(Cardinality(S))
      BY <1>6
    <3>2. s \ {Some(s)} \in SUBSET S
      OBVIOUS
    <3> QED BY <1>5, <3>1, <3>2
  <2> QED BY <2>1 DEF Sums
<1> QED BY <1>7

\* The terms of a sum come in any order.
LEMMA SumTakesOut ==
    ASSUME NEW S, IsFiniteSet(S), NEW g \in [S -> Int], NEW it, Sums(it, g, S)
    PROVE  \A s \in SUBSET S : /\ it[s] \in Int /\ (s = {} => it[s] = 0)
                               /\ \A x \in s : it[s] = g[x] + it[s \ {x}]
<1> DEFINE Fine(s) == it[s] \in Int /\ \A x \in s : it[s] = g[x] + it[s \ {x}]
           T == {n \in Nat : \A s \in SUBSET S : Cardinality(s) <= n => Fine(s)}
<1>0. \A s \in SUBSET S : it[s] = IF s = {} THEN 0 ELSE g[Some(s)] + it[s \ {Some(s)}]
  BY Zenon DEF Sums
<1>1. 0 \in T
  <2>1. ASSUME NEW s \in SUBSET S, Cardinality(s) <= 0 PROVE Fine(s)
    <3>1. IsFiniteSet(s) /\ Cardinality(s) \in Nat
      BY FS_Subset, FS_CardinalityType
    <3>2. s = {}
      BY <2>1, <3>1, FS_EmptySet
    <3>3. it[s] = 0
      BY <1>0, <3>2
    <3> QED BY <3>2, <3>3
  <2> HIDE DEF Fine
  <2> QED BY <2>1
<1>2. ASSUME NEW n \in Nat, n \in T PROVE n + 1 \in T
  <2>1. ASSUME NEW s \in SUBSET S, Cardinality(s) <= n + 1 PROVE Fine(s)
    <3>1. CASE s = {}
      <4>1. it[s] = 0
        BY <1>0, <3>1
      <4> QED BY <3>1, <4>1
    <3>2. CASE s # {}
      <4> DEFINE y == Some(s)
      <4>1. y \in s /\ s \ {y} \in SUBSET S /\ Cardinality(s \ {y}) = Cardinality(s) - 1
            /\ Cardinality(s) \in Nat
        BY <3>2, OneLess
      <4>2. it[s] = g[y] + it[s \ {y}]
        BY <1>0, <3>2
      <4> HIDE DEF y
      <4>3. Fine(s \ {y})
        <5>1. Cardinality(s \ {y}) <= n
          BY <2>1, <4>1
        <5> QED BY <1>2, <4>1, <5>1
      <4>4. g[y] \in Int
        BY <4>1
      <4>5. it[s] \in Int
        BY <4>2, <4>3, <4>4
      <4>6. ASSUME NEW x \in s, x # y PROVE it[s] = g[x] + it[s \ {x}]
        <5>1. x \in s \ {y} /\ y \in s \ {x} /\ (s \ {y}) \ {x} = (s \ {x}) \ {y}
          BY <4>1, <4>6
        <5>2. it[s \ {y}] = g[x] + it[(s \ {y}) \ {x}]
          BY <4>3, <5>1
        <5>3. Fine(s \ {x})
          <6>1. IsFiniteSet(s)
            BY FS_Subset
          <6>2. Cardinality(s \ {x}) = Cardinality(s) - 1
            BY <6>1, FS_RemoveElement
          <6>3. Cardinality(s \ {x}) <= n /\ s \ {x} \in SUBSET S
            BY <2>1, <4>1, <6>2
          <6> QED BY <1>2, <6>3
        <5>4. it[s \ {x}] = g[y] + it[(s \ {x}) \ {y}]
          BY <5>1, <5>3
        <5>5. Fine((s \ {x}) \ {y})
          <6> DEFINE r == s \ {x}
          <6>1. r \in SUBSET S /\ IsFiniteSet(r) /\ y \in r
            BY <5>1, FS_Subset
          <6>2. Cardinality(r) <= n
            <7>1. IsFiniteSet(s)
              BY FS_Subset
            <7>2. Cardinality(s \ {x}) = Cardinality(s) - 1
              BY <7>1, FS_RemoveElement
            <7> QED BY <2>1, <4>1, <7>2
          <6> HIDE DEF r
          <6>3. Cardinality(r \ {y}) = Cardinality(r) - 1 /\ Cardinality(r) \in Nat
            BY <6>1, FS_RemoveElement, FS_CardinalityType
          <6>4. Cardinality(r \ {y}) <= n /\ r \ {y} \in SUBSET S
            BY <6>1, <6>2, <6>3
          <6>5. Fine(r \ {y})
            BY <1>2, <6>4
          <6> QED BY <6>5 DEF r
        <5>6. g[x] \in Int
          OBVIOUS
        <5> DEFINE a == it[(s \ {x}) \ {y}]
                   b == it[s \ {x}]
                   d == it[s \ {y}]
        <5>7. a \in Int /\ b = g[y] + a /\ d = g[x] + a /\ it[s] = g[y] + d
          BY <4>2, <5>1, <5>2, <5>4, <5>5
        <5> HIDE DEF a, b, d
        <5>8. it[s] = g[x] + b
          BY <4>4, <5>6, <5>7
        <5> QED BY <5>8 DEF b
      <4> QED BY <4>2, <4>5, <4>6
    <3> QED BY <3>1, <3>2
  <2> HIDE DEF Fine
  <2> QED BY <2>1
<1>3. Nat \subseteq T
  <2> HIDE DEF T
  <2> QED BY <1>1, <1>2, Induction
<1>4. ASSUME NEW s \in SUBSET S PROVE Fine(s)
  <2>1. Cardinality(s) \in Nat /\ Cardinality(s) <= Cardinality(s)
    BY FS_Subset, FS_CardinalityType
  <2> QED BY <1>3, <2>1
<1>5. \A s \in SUBSET S : s = {} => it[s] = 0
  BY <1>0
<1> QED
  BY <1>4, <1>5

\* it sums up digits of w bits; the one of x stands at P[x].
Digits(S, w, P, c, it) ==
    /\ IsFiniteSet(S) /\ P \in [S -> Nat] /\ \A x \in S, y \in S : P[x] = P[y] => x = y
    /\ c \in [S -> 0 .. (2^w - 1)]
    /\ Sums(it, [x \in S |-> c[x] * 2^(w * P[x])], S)

LEMMA DigitTerms ==
    ASSUME NEW w \in Nat, NEW S, NEW P, NEW c, NEW it, Digits(S, w, P, c, it)
    PROVE  /\ \A x \in S : c[x] \in 0 .. (2^w - 1) /\ P[x] \in Nat /\ 2^(w * P[x]) \in Nat \ {0}
           /\ \A s \in SUBSET S : /\ it[s] \in Int /\ (s = {} => it[s] = 0)
                                  /\ \A x \in s : it[s] = c[x] * 2^(w * P[x]) + it[s \ {x}]
<1> DEFINE g == [x \in S |-> c[x] * 2^(w * P[x])]
<1>1. IsFiniteSet(S) /\ Sums(it, g, S)
  BY DEF Digits
<1>2. ASSUME NEW x \in S PROVE c[x] \in 0 .. (2^w - 1) /\ P[x] \in Nat /\ 2^(w * P[x]) \in Nat \ {0}
  <2>1. P[x] \in Nat /\ c[x] \in 0 .. (2^w - 1)
    BY DEF Digits
  <2>2. w * P[x] \in Nat
    BY <2>1, ProductOfNats
  <2> QED BY <2>1, <2>2, PowerType
<1>3. g \in [S -> Int]
  <2>1. ASSUME NEW x \in S PROVE c[x] * 2^(w * P[x]) \in Int
    <3>1. c[x] \in Int /\ 2^(w * P[x]) \in Int
      BY <1>2, PowerType
    <3> QED BY <3>1, ProductOfNats
  <2> QED BY <2>1
<1>4. \A x \in S : g[x] = c[x] * 2^(w * P[x])
  OBVIOUS
<1> HIDE DEF g
<1>5. \A s \in SUBSET S : /\ it[s] \in Int /\ (s = {} => it[s] = 0)
                          /\ \A x \in s : it[s] = g[x] + it[s \ {x}]
  BY <1>1, <1>3, SumTakesOut
<1> QED
  BY <1>2, <1>4, <1>5

\* Digits below n make a number below the power of n.
LEMMA DigitsBelow ==
    ASSUME NEW w \in Nat, NEW S, NEW P, NEW c, NEW it, Digits(S, w, P, c, it),
           NEW n \in Nat, NEW s \in SUBSET S, \A x \in s : P[x] < n
    PROVE  it[s] \in 0 .. (2^(w * n) - 1)
<1> DEFINE Below(m) == \A t \in SUBSET S : (\A x \in t : P[x] < m) => it[t] \in 0 .. (2^(w * m) - 1)
           T == {m \in Nat : Below(m)}
<1>0. \A x \in S : P[x] \in Nat
  BY DigitTerms
<1>1. 0 \in T
  <2>1. w * 0 = 0 /\ 2^0 = 1
    OBVIOUS
  <2>2. ASSUME NEW t \in SUBSET S, \A x \in t : P[x] < 0 PROVE it[t] = 0
    <3>1. t = {}
      BY <1>0, <2>2
    <3> QED BY <3>1, DigitTerms
  <2>3. Below(0)
    <3>1. ASSUME NEW t \in SUBSET S, \A x \in t : P[x] < 0 PROVE it[t] \in 0 .. (2^(w * 0) - 1)
      <4>1. it[t] = 0 /\ 2^(w * 0) = 1
        BY <2>1, <2>2, <3>1
      <4>2. 0 \in 0 .. (1 - 1)
        OBVIOUS
      <4> QED BY <4>1, <4>2
    <3> QED BY <3>1
  <2> HIDE DEF Below
  <2> QED BY <2>3
<1>2. ASSUME NEW m \in Nat, m \in T PROVE m + 1 \in T
  <2> DEFINE p == 2^(w * m)
             q == 2^(w * (m + 1))
             r == 2^w
  <2>1. w * m \in Nat /\ w * (m + 1) = w * m + w
    BY ProductOfNats, Distributes
  <2>2. p \in Nat \ {0} /\ r \in Nat \ {0}
    BY <2>1, PowerType
  <2>3. q = p * r
    BY <2>1, PowerAdds
  <2>4. ASSUME NEW t \in SUBSET S, \A x \in t : P[x] < m + 1 PROVE it[t] \in 0 .. (q - 1)
    <3>1. CASE \E x \in t : P[x] = m
      <4>1. PICK x \in t : P[x] = m
        BY <3>1
      <4>2. c[x] \in 0 .. (r - 1) /\ it[t] = c[x] * p + it[t \ {x}]
        BY <4>1, DigitTerms
      <4>3. \A y \in t \ {x} : P[y] < m
        <5>1. ASSUME NEW y \in t \ {x} PROVE P[y] < m
          <6>1. P[y] # P[x]
            BY DEF Digits
          <6>2. P[y] \in Nat /\ P[y] < m + 1
            BY <1>0, <2>4
          <6> QED BY <4>1, <6>1, <6>2
        <5> QED BY <5>1
      <4>4. it[t \ {x}] \in 0 .. (p - 1)
        BY <1>2, <4>3
      <4> DEFINE e == c[x]
                 f == it[t \ {x}]
      <4>5. e \in 0 .. (r - 1) /\ f \in 0 .. (p - 1) /\ it[t] = e * p + f
        BY <4>2, <4>4
      <4> HIDE DEF e, f, p, q, r
      <4>6. e * p \in Nat /\ e * p <= (r - 1) * p
        <5>1. e \in Int /\ r - 1 \in Int /\ e <= r - 1 /\ p \in Nat
          BY <2>2, <4>5
        <5>2. e * p <= (r - 1) * p
          BY <5>1, ProductGrows
        <5>3. e \in Nat
          BY <2>2, <4>5
        <5> QED BY <5>1, <5>2, <5>3, ProductOfNats
      <4>7. (r - 1) * p = r * p - p /\ r * p = q /\ r * p \in Nat
        BY <2>2, <2>3, Distributes, ProductOfNats
      <4> QED BY <2>2, <4>5, <4>6, <4>7
    <3>2. CASE ~ \E x \in t : P[x] = m
      <4>1. \A x \in t : P[x] < m
        BY <1>0, <2>4, <3>2
      <4>2. it[t] \in 0 .. (p - 1)
        BY <1>2, <4>1
      <4> HIDE DEF p, q, r
      <4>3. p <= q
        <5>1. 1 * p <= r * p
          <6>1. 1 <= r /\ r \in Int /\ 1 \in Int /\ p \in Nat
            BY <2>2
          <6> QED BY <6>1, ProductGrows
        <5>2. r * p = q
          BY <2>2, <2>3, ProductOfNats
        <5> QED BY <2>2, <5>1, <5>2
      <4>4. q \in Nat
        BY <2>2, <2>3, ProductOfNats
      <4> QED BY <2>2, <4>2, <4>3, <4>4
    <3> QED BY <3>1, <3>2
  <2>5. Below(m + 1)
    BY <2>4
  <2> HIDE DEF Below
  <2> QED BY <2>5
<1>3. n \in T
  <2> HIDE DEF T
  <2> QED BY <1>1, <1>2, Induction
<1> QED
  BY <1>3

\* And each of them is found again.
Under(S, P, n) == \A y \in S : P[y] < n

LEMMA DigitOf ==
    ASSUME NEW w \in Nat, NEW S, NEW P, NEW c, NEW it, Digits(S, w, P, c, it),
           NEW n \in Nat, Under(S, P, n), NEW x \in S
    PROVE  (it[S] \div 2^(w * P[x])) % 2^w = c[x]
<1> USE DEF Under
<1> DEFINE p == 2^(w * P[x])
           r == 2^w
           Found(k) == \A s \in SUBSET S :
                          x \in s /\ (\A y \in s : P[y] < P[x] + 1 + k) => (it[s] \div p) % r = c[x]
           T == {k \in Nat : Found(k)}
<1>0. /\ \A y \in S : P[y] \in Nat
      /\ p \in Nat \ {0} /\ r \in Nat \ {0} /\ c[x] \in 0 .. (r - 1)
  BY DigitTerms, PowerType
<1>t. \A s \in SUBSET S : /\ it[s] \in Int /\ (s = {} => it[s] = 0)
                          /\ \A y \in s : it[s] = c[y] * 2^(w * P[y]) + it[s \ {y}]
  BY DigitTerms
<1>u. 0 .. (2^w - 1) \subseteq Int
  BY PowerType
<1>1. 0 \in T
  <2>1. ASSUME NEW s \in SUBSET S, x \in s, \A y \in s : P[y] < P[x] + 1
        PROVE  (it[s] \div p) % r = c[x]
    <3>1. it[s] = c[x] * p + it[s \ {x}]
      BY <1>t, <2>1, Zenon
    <3>2. ASSUME NEW y \in s \ {x} PROVE P[y] < P[x]
      <4>1. P[y] # P[x]
        BY DEF Digits
      <4>2. P[y] \in Nat /\ P[x] \in Nat /\ P[y] < P[x] + 1
        BY <1>0, <2>1
      <4> QED BY <4>1, <4>2
    <3>3. it[s \ {x}] \in 0 .. (p - 1)
      <4>1. P[x] \in Nat /\ s \ {x} \in SUBSET S
        BY <1>0
      <4> QED BY <3>2, <4>1, DigitsBelow
    <3> DEFINE e == c[x]
               f == it[s \ {x}]
    <3>4. e \in 0 .. (r - 1) /\ f \in 0 .. (p - 1) /\ it[s] = e * p + f
      BY <1>0, <3>1, <3>3
    <3> HIDE DEF e, f, p, r
    <3>5. (e * p + f) \div p = e
      <4>1. e \in Int
        BY <1>0, <3>4
      <4> QED BY <1>0, <3>4, <4>1, DividedIs
    <3>6. e % r = e
      BY <1>0, <3>4
    <3> QED BY <3>4, <3>5, <3>6 DEF e
  <2>2. P[x] + 1 + 0 = P[x] + 1
    BY <1>0
  <2>3. Found(0)
    BY <2>1, <2>2
  <2> HIDE DEF Found
  <2> QED BY <2>3
<1>2. ASSUME NEW k \in Nat, k \in T PROVE k + 1 \in T
  <2> DEFINE m == P[x] + 1 + k
  <2>0. P[x] \in Nat /\ m \in Nat /\ P[x] + 1 + (k + 1) = m + 1
    BY <1>0
  <2>1. ASSUME NEW s \in SUBSET S, x \in s, \A y \in s : P[y] < m + 1
        PROVE  (it[s] \div p) % r = c[x]
    <3>1. CASE \E y \in s : P[y] = m
      <4>1. PICK y \in s : P[y] = m
        BY <3>1
      <4>2. y # x
        BY <2>0, <4>1
      <4>3. c[y] \in Int /\ it[s] = c[y] * 2^(w * m) + it[s \ {y}] /\ it[s \ {y}] \in Int
        <5>1. c[y] \in Int /\ it[s] = c[y] * 2^(w * P[y]) + it[s \ {y}] /\ it[s \ {y}] \in Int
          <6>1. y \in S /\ s \ {y} \in SUBSET S
            BY <4>1
          <6>2. c[y] \in 0 .. (2^w - 1)
            BY <6>1, DigitTerms
          <6> QED BY <1>t, <4>1, <6>1, <6>2, Zenon, <1>u
        <5> QED BY <4>1, <5>1
      <4>4. \A z \in s \ {y} : P[z] < m
        <5>1. ASSUME NEW z \in s \ {y} PROVE P[z] < m
          <6>1. P[z] # P[y]
            BY DEF Digits
          <6>2. P[z] \in Nat /\ P[z] < m + 1
            BY <1>0, <2>1
          <6> QED BY <2>0, <4>1, <6>1, <6>2
        <5> QED BY <5>1
      <4>5. (it[s \ {y}] \div p) % r = c[x]
        <5>1. x \in s \ {y} /\ s \ {y} \in SUBSET S
          BY <2>1, <4>2
        <5> QED BY <1>2, <4>4, <5>1
      <4> DEFINE t == 2^(w * k)
      <4>6. 2^(w * m) = p * (r * t) /\ t \in Nat
        <5>1. w * P[x] \in Nat /\ w * k \in Nat /\ w * m = w * P[x] + (w + w * k)
          <6>1. w * P[x] \in Nat /\ w * k \in Nat
            BY <2>0, ProductOfNats
          <6> DEFINE h == P[x]
          <6>2. h \in Nat
            BY <2>0
          <6> HIDE DEF h
          <6>3. w * (h + 1 + k) = w * h + (w + w * k)
            BY <6>2
          <6> QED BY <6>1, <6>3 DEF h
        <5>2. w + w * k \in Nat
          BY <5>1
        <5>3. 2^(w * m) = p * 2^(w + w * k) /\ 2^(w + w * k) = r * t
          BY <5>1, <5>2, PowerAdds
        <5> QED BY <5>1, <5>3, PowerType
      <4> DEFINE e == c[y]
                 f == it[s \ {y}]
                 g == 2^(w * m)
                 u == e * t
      <4>7. e \in Int /\ f \in Int /\ it[s] = e * g + f /\ g = p * (r * t) /\ (f \div p) % r = c[x]
            /\ t \in Nat
        BY <4>3, <4>5, <4>6
      <4> HIDE DEF e, f, g, t, p, r, m
      <4>8. u \in Int
        BY <4>7, ProductOfNats
      <4>9. e * g = (u * r) * p
        <5>1. r * t \in Int /\ p \in Int /\ r \in Int /\ t \in Int /\ e \in Int
          BY <1>0, <4>7, ProductOfNats
        <5>2. e * (p * (r * t)) = ((e * t) * r) * p
          BY <5>1
        <5> QED BY <4>7, <5>2
      <4> HIDE DEF u
      <4>10. u * r \in Int
        BY <1>0, <4>8, ProductOfNats
      <4>11. (f + (u * r) * p) \div p = f \div p + u * r
        <5> DEFINE v == u * r
        <5>1. v \in Int
          BY <4>10
        <5> HIDE DEF v
        <5>2. (f + v * p) \div p = f \div p + v
          BY <1>0, <4>7, <5>1, MultipleMore
        <5> QED BY <5>2 DEF v
      <4>12. (f \div p + u * r) % r = (f \div p) % r
        <5> DEFINE v == f \div p
        <5>1. v \in Int
          BY <1>0, <4>7, Divided
        <5> HIDE DEF v
        <5>2. (v + u * r) % r = v % r
          BY <1>0, <4>8, <5>1, MultipleMore
        <5> QED BY <5>2 DEF v
      <4>13. it[s] = f + (u * r) * p
        <5>1. (u * r) * p \in Int
          BY <1>0, <4>10, ProductOfNats
        <5> QED BY <4>7, <4>9, <5>1
      <4> QED BY <4>7, <4>11, <4>12, <4>13
    <3>2. CASE ~ \E y \in s : P[y] = m
      <4>1. \A y \in s : P[y] < m
        BY <1>0, <2>0, <2>1, <3>2
      <4> QED BY <1>2, <2>1, <4>1
    <3> QED BY <3>1, <3>2
  <2>2. Found(k + 1)
    BY <2>0, <2>1
  <2> HIDE DEF Found
  <2> QED BY <2>2
<1>3. n \in T
  <2> HIDE DEF T
  <2> QED BY <1>1, <1>2, Induction
<1>4. \A y \in S : P[y] < P[x] + 1 + n
  BY <1>0
<1> HIDE DEF p, r
<1> QED
  BY <1>3, <1>4 DEF p, r

\* Bits, cells of a DDP and cells of a PP, as digits.
LEMMA OfBitsType ==
    ASSUME NEW n \in Nat, NEW bits \in SUBSET (0 .. (n - 1))
    PROVE  OfBits(bits) \in 0 .. (2^n - 1)
<1>1. IsFiniteSet(bits)
  <2>1. IsFiniteSet(0 .. (n - 1))
    BY FS_Interval
  <2> QED BY <2>1, FS_Subset
<1> DEFINE g == [i \in bits |-> 2^i]
<1>2. g \in [bits -> Int]
  <2>1. \A i \in bits : i \in Nat
    OBVIOUS
  <2> QED BY <2>1, PowerType
<1> DEFINE up == CHOOSE up : up = [s \in SUBSET bits |-> IF s = {} THEN 0 ELSE
                        2^(CHOOSE x \in s : TRUE) + up[s \ {CHOOSE x \in s : TRUE}]]
<1>3. OfBits(bits) = up[bits]
  BY DEF OfBits, MapThenSumSet, MapThenFoldSet
<1>4. ASSUME NEW it
      PROVE  Sums(it, g, bits) <=>
             it = [s \in SUBSET bits |-> IF s = {} THEN 0 ELSE
                        2^(CHOOSE x \in s : TRUE) + it[s \ {CHOOSE x \in s : TRUE}]]
  <2>1. ASSUME NEW s \in SUBSET bits, s # {} PROVE g[Some(s)] = 2^(CHOOSE x \in s : TRUE)
    <3>1. Some(s) \in bits
      BY <2>1 DEF Some
    <3> QED BY <3>1 DEF Some
  <2> QED BY <2>1 DEF Sums, Some
<1>5. \E it : it = [s \in SUBSET bits |-> IF s = {} THEN 0 ELSE
                        2^(CHOOSE x \in s : TRUE) + it[s \ {CHOOSE x \in s : TRUE}]]
  <2>1. \E it : Sums(it, g, bits)
    <3> HIDE DEF g
    <3> QED BY <1>1, <1>2, SumsExist
  <2>2. PICK it : Sums(it, g, bits)
    BY <2>1
  <2>3. it = [s \in SUBSET bits |-> IF s = {} THEN 0 ELSE
                        2^(CHOOSE x \in s : TRUE) + it[s \ {CHOOSE x \in s : TRUE}]]
    BY <1>4, <2>2
  <2> QED BY <2>3
<1>6. up = [s \in SUBSET bits |-> IF s = {} THEN 0 ELSE
                        2^(CHOOSE x \in s : TRUE) + up[s \ {CHOOSE x \in s : TRUE}]]
  BY <1>5
<1>7. Sums(up, g, bits)
  BY <1>4, <1>6
<1> DEFINE P == [i \in bits |-> i]
           c == [i \in bits |-> 1]
<1>8. Digits(bits, 1, P, c, up)
  <2>1. ASSUME NEW i \in bits PROVE c[i] * 2^(1 * P[i]) = 2^i
    <3>1. 2^i \in Int /\ 1 * i = i /\ c[i] = 1 /\ P[i] = i
      <4>1. i \in Nat
        OBVIOUS
      <4> QED BY <4>1, PowerType
    <3> QED BY <3>1
  <2>2. [i \in bits |-> c[i] * 2^(1 * P[i])] = g
    <3> HIDE DEF c, P
    <3> QED BY <2>1
  <2>3. P \in [bits -> Nat] /\ c \in [bits -> 0 .. (2^1 - 1)]
        /\ \A x \in bits, y \in bits : P[x] = P[y] => x = y
    OBVIOUS
  <2> HIDE DEF g, c, P, up
  <2> QED BY <1>1, <1>7, <2>2, <2>3, Zenon DEF Digits
<1>9. \A x \in bits : P[x] < n
  OBVIOUS
<1> HIDE DEF up, P, c
<1>10. up[bits] \in 0 .. (2^(1 * n) - 1)
  BY <1>8, <1>9, DigitsBelow
<1> QED
  BY <1>3, <1>10

LEMMA OfCellsType ==
    ASSUME CellBits \in Nat, CellsPerWord \in Nat,
           NEW cs \in [1 .. CellsPerWord -> 0 .. (2^CellBits - 1)]
    PROVE  /\ Dp!OfCells(cs) \in 0 .. (2^(CellBits * CellsPerWord) - 1)
           /\ Dp!ToCells(Dp!OfCells(cs)) = cs
<1>0. cs \in [1 .. CellsPerWord -> Int]
  BY PowerType
<1>1. IsFiniteSet(1 .. CellsPerWord)
  BY FS_Interval
<1> DEFINE g == [i \in 1 .. CellsPerWord |-> cs[i] * 2^(CellBits * (CellsPerWord - i))]
<1>2. g \in [1 .. CellsPerWord -> Int]
  <2>1. ASSUME NEW i \in 1 .. CellsPerWord PROVE cs[i] * 2^(CellBits * (CellsPerWord - i)) \in Int
    <3>1. CellsPerWord - i \in Nat
      OBVIOUS
    <3>2. CellBits * (CellsPerWord - i) \in Nat
      <4>1. ASSUME NEW a \in Nat, NEW b \in Nat PROVE a * b \in Nat
        OBVIOUS
      <4> QED BY <3>1, <4>1
    <3>3. 2^(CellBits * (CellsPerWord - i)) \in Int
      BY <3>2, PowerType
    <3>4. cs[i] \in Int
      BY <1>0
    <3> QED BY <3>3, <3>4
  <2> QED BY <2>1
<1> DEFINE Eq(it) == it = [s \in SUBSET (1 .. CellsPerWord) |-> IF s = {} THEN 0 ELSE
                        cs[CHOOSE x \in s : TRUE] *
                          2^(CellBits * (CellsPerWord - (CHOOSE x \in s : TRUE)))
                        + it[s \ {CHOOSE x \in s : TRUE}]]
           up == CHOOSE it : Eq(it)
<1>3. Dp!OfCells(cs) = up[1 .. CellsPerWord]
  BY DEF Dp!OfCells, Dp!MapThenSumSet, Dp!MapThenFoldSet
<1>4. ASSUME NEW it PROVE Sums(it, g, 1 .. CellsPerWord) <=> Eq(it)
  <2>1. ASSUME NEW s \in SUBSET (1 .. CellsPerWord), s # {}
        PROVE  g[Some(s)] = cs[CHOOSE x \in s : TRUE] *
                              2^(CellBits * (CellsPerWord - (CHOOSE x \in s : TRUE)))
    <3>1. Some(s) \in 1 .. CellsPerWord
      BY <2>1 DEF Some
    <3> QED BY <3>1 DEF Some
  <2> QED BY <2>1 DEF Sums, Some
<1>5. \E it : Eq(it)
  <2>1. \E it : Sums(it, g, 1 .. CellsPerWord)
    <3> HIDE DEF g
    <3> QED BY <1>1, <1>2, SumsExist
  <2>2. PICK it : Sums(it, g, 1 .. CellsPerWord)
    BY <2>1
  <2>3. Eq(it)
    BY <1>4, <2>2
  <2> QED BY <2>3
<1>6. Eq(up)
  BY <1>5
<1>7. Sums(up, g, 1 .. CellsPerWord)
  BY <1>4, <1>6
<1> DEFINE P == [i \in 1 .. CellsPerWord |-> CellsPerWord - i]
<1>8. Digits(1 .. CellsPerWord, CellBits, P, cs, up)
  <2>1. [i \in 1 .. CellsPerWord |-> cs[i] * 2^(CellBits * P[i])] = g
    OBVIOUS
  <2>2. P \in [1 .. CellsPerWord -> Nat]
        /\ \A x \in 1 .. CellsPerWord, y \in 1 .. CellsPerWord : P[x] = P[y] => x = y
    OBVIOUS
  <2> HIDE DEF g, P, up
  <2> QED BY <1>1, <1>7, <2>1, <2>2, Zenon DEF Digits
<1>9. \A x \in 1 .. CellsPerWord : P[x] < CellsPerWord /\ P[x] = CellsPerWord - x
  OBVIOUS
<1> HIDE DEF up, P
<1>10. up[1 .. CellsPerWord] \in 0 .. (2^(CellBits * CellsPerWord) - 1)
  <2>1. 1 .. CellsPerWord \in SUBSET (1 .. CellsPerWord)
    OBVIOUS
  <2> QED BY <1>8, <1>9, <2>1, DigitsBelow
<1>11. ASSUME NEW i \in 1 .. CellsPerWord
       PROVE  (up[1 .. CellsPerWord] \div 2^(CellBits * (CellsPerWord - i))) % 2^CellBits = cs[i]
  <2> DEFINE S == 1 .. CellsPerWord
  <2>0. i \in S /\ Under(S, P, CellsPerWord) /\ Digits(S, CellBits, P, cs, up)
    BY <1>8, <1>9 DEF Under
  <2> HIDE DEF S
  <2>1. (up[S] \div 2^(CellBits * P[i])) % 2^CellBits = cs[i]
    BY <2>0, DigitOf
  <2> QED BY <1>9, <2>1 DEF S
<1>12. Dp!ToCells(Dp!OfCells(cs)) =
          [i \in 1 .. CellsPerWord |->
             (up[1 .. CellsPerWord] \div 2^(CellBits * (CellsPerWord - i))) % 2^CellBits]
  BY <1>3 DEF Dp!ToCells, Dp!Cells
<1>13. Dp!ToCells(Dp!OfCells(cs)) = [i \in 1 .. CellsPerWord |-> cs[i]]
  BY <1>11, <1>12
<1> QED
  BY <1>3, <1>10, <1>13

LEMMA WordOfCellsType ==
    ASSUME CellBits \in Nat, CellsPerWord \in Nat, NEW m \in [Pp!Cell -> Pp!Cell], NEW at \in Nat
    PROVE  /\ Pp!WordOfCells(m, at) \in 0 .. (2^(CellBits * CellsPerWord) - 1)
           /\ \A i \in 0 .. (CellsPerWord - 1) :
                 Pp!CellOf(Pp!WordOfCells(m, at), i) = m[(at + i) % Pp!Cells]
<1>0. Pp!Cell \subseteq Int /\ Pp!Cell = 0 .. (2^CellBits - 1) /\ Pp!Cells = 2^CellBits
  BY PowerType DEF Pp!Cell, Pp!Cells
<1>1. IsFiniteSet(0 .. (CellsPerWord - 1))
  BY FS_Interval
<1> DEFINE g == [i \in 0 .. (CellsPerWord - 1) |->
                    m[(at + i) % Pp!Cells] * 2^(CellBits * (CellsPerWord - 1 - i))]
<1>2. g \in [0 .. (CellsPerWord - 1) -> Int]
  <2>1. ASSUME NEW i \in 0 .. (CellsPerWord - 1) PROVE g[i] \in Int
    <3>1. CellsPerWord - 1 - i \in Nat
      OBVIOUS
    <3>2. CellBits * (CellsPerWord - 1 - i) \in Nat
      <4>1. ASSUME NEW a \in Nat, NEW b \in Nat PROVE a * b \in Nat
        OBVIOUS
      <4> QED BY <3>1, <4>1
    <3>3. 2^(CellBits * (CellsPerWord - 1 - i)) \in Int
      BY <3>2, PowerType
    <3>4. Pp!Cells \in Nat \ {0}
      BY PowerType DEF Pp!Cells
    <3>5. (at + i) % Pp!Cells \in Pp!Cell
      BY <3>4 DEF Pp!Cell
    <3>6. m[(at + i) % Pp!Cells] \in Int
      BY <1>0, <3>5
    <3> QED BY <3>3, <3>6
  <2> QED BY <2>1
<1> DEFINE Eq(it) == it = [s \in SUBSET (0 .. (CellsPerWord - 1)) |-> IF s = {} THEN 0 ELSE
                        m[(at + (CHOOSE x \in s : TRUE)) % Pp!Cells] *
                          2^(CellBits * (CellsPerWord - 1 - (CHOOSE x \in s : TRUE)))
                        + it[s \ {CHOOSE x \in s : TRUE}]]
           up == CHOOSE it : Eq(it)
<1>3. Pp!WordOfCells(m, at) = up[0 .. (CellsPerWord - 1)]
  BY DEF Pp!WordOfCells, Pp!MapThenSumSet, Pp!MapThenFoldSet
<1>4. ASSUME NEW it PROVE Sums(it, g, 0 .. (CellsPerWord - 1)) <=> Eq(it)
  <2>1. ASSUME NEW s \in SUBSET (0 .. (CellsPerWord - 1)), s # {}
        PROVE  g[Some(s)] = m[(at + (CHOOSE x \in s : TRUE)) % Pp!Cells] *
                          2^(CellBits * (CellsPerWord - 1 - (CHOOSE x \in s : TRUE)))
    <3>1. Some(s) \in 0 .. (CellsPerWord - 1)
      BY <2>1 DEF Some
    <3> QED BY <3>1 DEF Some
  <2> QED BY <2>1 DEF Sums, Some
<1>5. \E it : Eq(it)
  <2>1. \E it : Sums(it, g, 0 .. (CellsPerWord - 1))
    <3> HIDE DEF g
    <3> QED BY <1>1, <1>2, SumsExist
  <2>2. PICK it : Sums(it, g, 0 .. (CellsPerWord - 1))
    BY <2>1
  <2>3. Eq(it)
    BY <1>4, <2>2
  <2> QED BY <2>3
<1>6. Eq(up)
  BY <1>5
<1>7. Sums(up, g, 0 .. (CellsPerWord - 1))
  BY <1>4, <1>6
<1> DEFINE P == [i \in 0 .. (CellsPerWord - 1) |-> CellsPerWord - 1 - i]
           c == [i \in 0 .. (CellsPerWord - 1) |-> m[(at + i) % Pp!Cells]]
<1>8. Digits(0 .. (CellsPerWord - 1), CellBits, P, c, up)
  <2>1. [i \in 0 .. (CellsPerWord - 1) |-> c[i] * 2^(CellBits * P[i])] = g
    OBVIOUS
  <2>2. P \in [0 .. (CellsPerWord - 1) -> Nat]
        /\ \A x \in 0 .. (CellsPerWord - 1), y \in 0 .. (CellsPerWord - 1) : P[x] = P[y] => x = y
    OBVIOUS
  <2>3. c \in [0 .. (CellsPerWord - 1) -> 0 .. (2^CellBits - 1)]
    <3>1. ASSUME NEW i \in 0 .. (CellsPerWord - 1) PROVE m[(at + i) % Pp!Cells] \in Pp!Cell
      <4>1. Pp!Cells \in Nat \ {0} /\ at + i \in Int
        BY PowerType DEF Pp!Cells
      <4> DEFINE q == (at + i) % Pp!Cells
      <4>2. q \in Pp!Cell
        BY <4>1, RemainderIs DEF Pp!Cell
      <4> HIDE DEF q
      <4>3. m[q] \in Pp!Cell
        BY <4>2
      <4> QED BY <4>3 DEF q
    <3> QED BY <1>0, <3>1
  <2> HIDE DEF g, P, c, up
  <2> QED BY <1>1, <1>7, <2>1, <2>2, <2>3, Zenon DEF Digits
<1>9. \A x \in 0 .. (CellsPerWord - 1) :
         /\ P[x] < CellsPerWord /\ P[x] = CellsPerWord - 1 - x
         /\ c[x] = m[(at + x) % Pp!Cells]
  OBVIOUS
<1> HIDE DEF up, P, c
<1>10. up[0 .. (CellsPerWord - 1)] \in 0 .. (2^(CellBits * CellsPerWord) - 1)
  <2>1. 0 .. (CellsPerWord - 1) \in SUBSET (0 .. (CellsPerWord - 1))
    OBVIOUS
  <2> QED BY <1>8, <1>9, <2>1, DigitsBelow
<1>11. ASSUME NEW i \in 0 .. (CellsPerWord - 1)
       PROVE  Pp!CellOf(Pp!WordOfCells(m, at), i) = m[(at + i) % Pp!Cells]
  <2> DEFINE S == 0 .. (CellsPerWord - 1)
  <2>0. i \in S /\ Under(S, P, CellsPerWord) /\ Digits(S, CellBits, P, c, up)
    BY <1>8, <1>9 DEF Under
  <2> HIDE DEF S
  <2>1. (up[S] \div 2^(CellBits * P[i])) % 2^CellBits = c[i]
    BY <2>0, DigitOf
  <2> QED BY <1>0, <1>3, <1>9, <2>1 DEF Pp!CellOf, S
<1> QED
  BY <1>3, <1>10, <1>11

-----------------------------------------------------------------------------
(* What the arithmetic makes of words are words; addresses stay addresses. *)

LEMMA Sizes ==
    /\ {Words, Coeffs, Bias, Counts, Uppers} \subseteq Nat \ {0}
    /\ {WordBits, CoeffBits, CountBits, LongCountBits, CharsPerWord, CellBits} \subseteq Nat
    /\ Half \in Int /\ ID \in Int /\ OR \in Int /\ CoeffBits < Counts
<1>1. CoeffBits \in Nat /\ ExpoBits \in Nat /\ ExpoBits - 1 \in Nat /\ AddressBits \in Nat
      /\ CountBits \in Nat /\ LongCountBits \in Nat /\ CharsPerWord \in Nat /\ CellBits \in Nat
      /\ CoeffBits < 2^AddressBits
  BY CpuArithmeticAssumption, CpuInstructionsAssumption, ProcessorsAssumption
<1>2. WordBits \in Nat
  BY <1>1 DEF WordBits
<1>3. Words \in Nat \ {0}
  BY <1>2, PowerType DEF Words
<1>4. Coeffs \in Nat \ {0}
  BY <1>1, PowerType DEF Coeffs
<1>5. Bias \in Nat \ {0}
  BY <1>1, PowerType DEF Bias
<1>6. Counts \in Nat \ {0}
  BY <1>1, PowerType DEF Counts
<1>7. Uppers \in Nat \ {0}
  BY <1>4 DEF Uppers
<1>8. Half \in Int /\ ID \in Int /\ OR \in Int
  BY <1>4, <1>5 DEF Half, ID, OR
<1> QED
  BY <1>1, <1>2, <1>3, <1>4, <1>5, <1>6, <1>7, <1>8 DEF Counts

LEMMA CoeffsLarge == Coeffs >= 16
<1>1. CoeffBits \in Nat /\ 4 <= CoeffBits
  BY CpuArithmeticAssumption
<1>2. 2^4 <= 2^CoeffBits
  BY <1>1, PowerGrows
<1>3. 2^4 = 16
  OBVIOUS
<1> QED
  BY <1>2, <1>3 DEF Coeffs

\* Magnitudes: half of the words.
Magnitudes == (2 * Bias) * Coeffs

LEMMA WordSizes ==
    /\ Words = 2 * Magnitudes /\ Magnitudes \in Nat \ {0} /\ Magnitudes >= 64
    /\ Coeffs = 2 * Half /\ Half \in Nat \ {0} /\ Bias >= 2 /\ Half >= 8
    /\ 2 * Counts <= Words /\ ID = Bias - 1
<1>1. CoeffBits \in Nat /\ ExpoBits \in Nat /\ ExpoBits - 2 \in Nat /\ CoeffBits - 1 \in Nat
      /\ AddressBits \in Nat /\ AddressBits < WordBits
  BY CpuArithmeticAssumption DEF WordBits
<1>2. Words = 2 * 2^(ExpoBits + CoeffBits)
  <2>1. WordBits = (ExpoBits + CoeffBits) + 1 /\ ExpoBits + CoeffBits \in Nat
    BY <1>1 DEF WordBits
  <2> QED BY <2>1, PowerDoubles DEF Words
<1>3. 2^(ExpoBits + CoeffBits) = 2^ExpoBits * Coeffs
  BY <1>1, PowerAdds DEF Coeffs
<1>4. 2^ExpoBits = 2 * Bias
  <2>1. ExpoBits = (ExpoBits - 1) + 1 /\ ExpoBits - 1 \in Nat
    BY <1>1
  <2> QED BY <2>1, PowerDoubles DEF Bias
<1>5. Coeffs = 2 * 2^(CoeffBits - 1) /\ 2^(CoeffBits - 1) \in Nat \ {0}
  <2>1. CoeffBits = (CoeffBits - 1) + 1
    BY <1>1
  <2> QED BY <1>1, <2>1, PowerDoubles, PowerType DEF Coeffs
<1>6. Coeffs = 2 * Half /\ Half \in Nat \ {0}
  BY <1>5 DEF Half
<1>7. Bias >= 2 /\ Bias \in Nat
  <2>1. ExpoBits - 1 = (ExpoBits - 2) + 1
    BY <1>1
  <2>2. Bias = 2 * 2^(ExpoBits - 2) /\ 2^(ExpoBits - 2) \in Nat \ {0}
    BY <1>1, <2>1, PowerDoubles, PowerType DEF Bias
  <2> QED BY <2>2
<1>8. Words = 2 * Magnitudes
  BY <1>2, <1>3, <1>4 DEF Magnitudes
<1>9. Magnitudes >= 64 /\ Magnitudes \in Nat
  <2> DEFINE b == 2 * Bias
  <2>1. b \in Nat /\ b >= 4 /\ Coeffs \in Nat /\ Coeffs >= 16
    BY <1>7, Sizes, CoeffsLarge
  <2> HIDE DEF b
  <2>2. b * Coeffs >= 4 * Coeffs /\ b * Coeffs \in Nat
    BY <2>1, ProductGrows
  <2> QED BY <2>1, <2>2 DEF Magnitudes, b
<1>10. 2 * Counts <= Words
  <2>1. 2 * Counts = 2^(AddressBits + 1)
    BY <1>1, PowerDoubles DEF Counts
  <2>2. AddressBits + 1 <= WordBits /\ WordBits \in Nat /\ AddressBits + 1 \in Nat
    BY <1>1, Sizes
  <2>3. 2^(AddressBits + 1) <= 2^WordBits
    BY <2>2, PowerGrows
  <2> QED BY <2>1, <2>3 DEF Words
<1>11. Half >= 8
  BY <1>6, CoeffsLarge
<1> QED
  BY <1>6, <1>7, <1>8, <1>9, <1>10, <1>11 DEF ID

LEMMA QuotientType ==
    ASSUME NEW a \in Int, NEW d \in Nat \ {0}
    PROVE  /\ a \div d \in Int /\ a % d \in 0 .. (d - 1)
           /\ a \in Nat => a \div d \in Nat
OBVIOUS

LEMMA RemainderType ==
    \A a \in Int, d \in Nat \ {0} : a % d \in Nat /\ a % d < d
OBVIOUS

LEMMA ProductType ==
    ASSUME NEW a \in Int, NEW b \in Int
    PROVE  a * b \in Int /\ (a \in Nat /\ b \in Nat => a * b \in Nat)
OBVIOUS

LEMMA NatDivided ==
    ASSUME NEW a \in Nat, NEW d \in Nat \ {0}
    PROVE  /\ a \div d \in Nat /\ a % d \in 0 .. (d - 1)
           /\ a = (a \div d) * d + (a % d)
<1>1. a \in Int
  OBVIOUS
<1>2. a \div d \in Nat
  BY <1>1, QuotientType
<1> QED
  BY <1>1, <1>2, Divided

\* A quotient is below a factor if its dividend is below the product.
LEMMA QuotientBelow ==
    ASSUME NEW a \in Nat, NEW d \in Nat \ {0}, NEW f \in Nat, a < f * d
    PROVE  a \div d \in Nat /\ a \div d < f
<1> DEFINE q == a \div d
<1>1. q \in Nat /\ a % d \in 0 .. (d - 1) /\ a = q * d + (a % d)
  <2>1. a \in Int
    OBVIOUS
  <2>2. a % d \in 0 .. (d - 1) /\ a = q * d + (a % d)
    BY <2>1, Divided
  <2>3. q \in Nat
    BY <2>1, QuotientType
  <2> QED BY <2>2, <2>3
<1> HIDE DEF q
<1>2. q * d \in Int /\ f * d \in Int
  BY <1>1
<1>3. q * d < f * d
  BY <1>1, <1>2
<1>4. q < f
  BY <1>1, <1>3, FactorsCompare
<1> QED
  BY <1>1, <1>4 DEF q

LEMMA RegisterType ==
    ASSUME NEW M \in Nat \ {0}, NEW a \in 0 .. (M - 1), NEW b \in 0 .. (M - 1)
    PROVE  /\ Complement(M, a) \in 0 .. (M - 1)
           /\ Subtract(M, a, b) \in 0 .. (M - 1)
           /\ Add(M, a, b) \in 0 .. (M - 1)
BY DEF Complement, Subtract, Add

Exponents == 0 .. (2 * Bias - 1)
Coefficients == 0 .. (Coeffs - 1)

\* Numbers that the exponent of a word can stand for; the largest one is for infinity.
Scales == (1 - Bias) .. (Bias - 1)

LEMMA ScalesType ==
    /\ \A e \in Exponents : /\ Unbias(e) \in Scales
                            /\ ~Special(e) => Unbias(e) < Bias - 1
    /\ \A x \in Scales : Rebias(x) \in Exponents
    /\ \A x \in Int : Rebias(x) \in Int /\ (x <= ID /\ Rebias(x) >= 0 => Rebias(x) \in Exponents)
<1>1. Bias \in Nat /\ Bias >= 2 /\ ID = Bias - 1
  BY WordSizes, Sizes
<1>2. ASSUME NEW e \in Exponents PROVE Unbias(e) \in Scales
  BY <1>1 DEF Exponents, Unbias, Scales
<1>3. ASSUME NEW e \in Exponents, ~Special(e) PROVE Unbias(e) < Bias - 1
  <2>1. CASE e = 2 * Bias - 1
    <3>1. e = 1 * Bias + (Bias - 1) /\ Bias - 1 \in 0 .. (Bias - 1)
      BY <1>1, <2>1
    <3>2. (1 * Bias + (Bias - 1)) % Bias = Bias - 1
      <4>1. Bias \in Nat \ {0} /\ 1 \in Int
        BY <1>1
      <4> QED BY <3>1, <4>1, DividedIs
    <3>3. e % Bias = ID
      BY <1>1, <3>1, <3>2
    <3> QED BY <1>3, <3>3 DEF Special
  <2>2. CASE e # 2 * Bias - 1
    BY <1>1, <2>2 DEF Exponents, Unbias
  <2> QED BY <2>1, <2>2
<1>4. ASSUME NEW x \in Scales PROVE Rebias(x) \in Exponents
  BY <1>1 DEF Exponents, Rebias, Scales
<1>5. ASSUME NEW x \in Int
      PROVE  Rebias(x) \in Int /\ (x <= ID /\ Rebias(x) >= 0 => Rebias(x) \in Exponents)
  BY <1>1 DEF Exponents, Rebias
<1> QED
  BY <1>2, <1>3, <1>4, <1>5

LEMMA CoefficientWords == Coefficients \subseteq Word /\ Coefficients \subseteq Nat
<1>1. /\ Words = 2 * Magnitudes /\ Magnitudes \in Nat \ {0} /\ Words \in Nat \ {0}
      /\ Coeffs \in Nat \ {0} /\ Bias \in Nat \ {0}
  BY WordSizes, Sizes
<1>2. Coeffs <= Words
  <2> DEFINE b == 2 * Bias
  <2>1. 1 <= b /\ b \in Int
    BY <1>1
  <2> HIDE DEF b
  <2>2. 1 * Coeffs <= b * Coeffs
    BY <1>1, <2>1, ProductGrows
  <2>3. 1 * Coeffs = Coeffs /\ b * Coeffs = Magnitudes
    BY <1>1 DEF Magnitudes, b
  <2> QED BY <1>1, <2>2, <2>3
<1> QED
  BY <1>1, <1>2 DEF Coefficients, Word

LEMMA PartsType ==
    ASSUME NEW w \in Word
    PROVE  /\ \A neg \in BOOLEAN : Flip(neg, w) \in Word
           /\ Magnitude(w) \in 0 .. (Magnitudes - 1)
           /\ Expo(w) \in Exponents /\ Coeff(w) \in Coefficients /\ Coeff(w) \in Word
           /\ Unbias(Expo(w)) \in Scales /\ (~Special(Expo(w)) => Unbias(Expo(w)) < Bias - 1)
           /\ IsNegative(w) \in BOOLEAN /\ Complement(Words, w) \in Word
<1>1. /\ Words = 2 * Magnitudes /\ Magnitudes \in Nat \ {0} /\ Words \in Nat \ {0}
      /\ Coeffs \in Nat \ {0} /\ Bias \in Nat \ {0} /\ w \in 0 .. (Words - 1)
  BY WordSizes, Sizes DEF Word
<1>2. Complement(Words, w) \in Word
  BY <1>1 DEF Complement, Word
<1>3. \A neg \in BOOLEAN : Flip(neg, w) \in Word
  BY <1>2 DEF Flip
<1>4. Magnitude(w) \in 0 .. (Magnitudes - 1)
  BY <1>1 DEF Magnitude, Flip, IsNegative, Negative, Complement
<1>5. Expo(w) \in Exponents /\ Coeff(w) \in Coefficients
  <2> DEFINE m == Magnitude(w)
             b == 2 * Bias
  <2>1. m \in Nat /\ m < b * Coeffs /\ b \in Nat
    BY <1>1, <1>4 DEF Magnitudes
  <2> HIDE DEF m, b
  <2>2. m \div Coeffs \in Nat /\ m \div Coeffs < b
    BY <1>1, <2>1, QuotientBelow
  <2>3. m % Coeffs \in 0 .. (Coeffs - 1)
    BY <1>1, <2>1, RemainderIs
  <2> QED BY <2>1, <2>2, <2>3 DEF Expo, Coeff, m, b, Exponents, Coefficients
<1>6. IsNegative(w) \in BOOLEAN
  BY DEF IsNegative, Negative
<1>7. Unbias(Expo(w)) \in Scales /\ (~Special(Expo(w)) => Unbias(Expo(w)) < Bias - 1)
  BY <1>5, ScalesType
<1>8. Coeff(w) \in Word
  BY <1>5, CoefficientWords
<1> QED
  BY <1>2, <1>3, <1>4, <1>5, <1>6, <1>7, <1>8

LEMMA JoinType ==
    ASSUME NEW e \in Exponents, NEW c \in Coefficients, NEW neg \in BOOLEAN
    PROVE  Join(e, c, neg) \in Word
<1>1. /\ Words = 2 * Magnitudes /\ Magnitudes \in Nat \ {0} /\ Words \in Nat \ {0}
      /\ Coeffs \in Nat \ {0} /\ Bias \in Nat \ {0}
  BY WordSizes, Sizes
<1> DEFINE b == 2 * Bias
<1>2. b \in Nat /\ e \in 0 .. (b - 1) /\ Magnitudes = b * Coeffs
  BY <1>1 DEF Exponents, Magnitudes
<1> HIDE DEF b
<1>3. e * Coeffs \in Nat /\ e * Coeffs <= (b - 1) * Coeffs
  <2>1. e \in Nat /\ e <= b - 1 /\ b - 1 \in Int /\ Coeffs \in Nat
    BY <1>1, <1>2
  <2> QED BY <2>1, ProductGrows, ProductType
<1>4. (b - 1) * Coeffs = b * Coeffs - Coeffs
  <2>1. (b - 1) * Coeffs = b * Coeffs - 1 * Coeffs
    BY <1>1, <1>2, Distributes
  <2> QED BY <1>1, <2>1
<1> DEFINE m == e * Coeffs + c
<1>5. m \in Word
  <2>1. c \in 0 .. (Coeffs - 1)
    BY DEF Coefficients
  <2>2. m >= 0 /\ m < Magnitudes /\ m \in Int
    BY <1>1, <1>2, <1>3, <1>4, <2>1
  <2> HIDE DEF m
  <2> QED BY <1>1, <2>2 DEF Word
<1> HIDE DEF m
<1> QED
  BY <1>5, PartsType DEF Join, m

LEMMA OverflowType ==
    /\ IND \in Word /\ 0 \in Word /\ \A neg \in BOOLEAN : OVFL(neg) \in Word
<1>1. /\ Words = 2 * Magnitudes /\ Magnitudes \in Nat \ {0} /\ Words \in Nat \ {0}
      /\ Coeffs \in Nat \ {0} /\ Bias \in Nat \ {0} /\ Bias >= 2 /\ ID = Bias - 1
  BY WordSizes, Sizes
<1>2. 0 \in Word
  BY <1>1 DEF Word
<1>3. ID \in Exponents /\ OR \in Exponents /\ 0 \in Coefficients
  BY <1>1 DEF OR, Exponents, Coefficients
<1>4. IND \in Word
  <2>1. Join(ID, 0, FALSE) = IND
    <3>1. ID * Coeffs + 0 = ID * Coeffs
      BY <1>1
    <3> QED BY <3>1 DEF Join, Flip, IND
  <2> QED BY <1>3, <2>1, JoinType
<1>5. OVFL(FALSE) \in Word
  <2>1. Join(OR, 0, FALSE) = OVFL(FALSE)
    <3>1. OR * Coeffs + 0 = OR * Coeffs
      BY <1>1, Sizes
    <3> QED BY <3>1 DEF Join, Flip, OVFL
  <2> QED BY <1>3, <2>1, JoinType
<1>6. OVFL(TRUE) \in Word
  <2>1. OVFL(TRUE) = Magnitudes
    BY DEF OVFL, Magnitudes
  <2>2. Magnitudes \in Word
    BY <1>1 DEF Word
  <2> QED BY <2>1, <2>2, Zenon
<1> QED
  BY <1>2, <1>4, <1>5, <1>6

LEMMA IntegerType ==
    ASSUME NEW M \in Nat \ {0}, NEW a \in Int, NEW b \in Int
    PROVE  /\ Complement(M, a) \in Int
           /\ Subtract(M, a, b) \in Int
           /\ Add(M, a, b) \in Int
BY DEF Complement, Subtract, Add

LEMMA ShiftType ==
    ASSUME NEW d \in Word, NEW n \in Nat
    PROVE  /\ shiftLeftCircular(d, n) \in Word /\ shiftMask(n) \in Word
           /\ shiftRightArithmetic(d, n) \in Word /\ ShiftRightLong(d, n) \in Word
<1>1. /\ Words \in Nat \ {0} /\ WordBits \in Nat
      /\ 2^CountBits \in Nat \ {0} /\ 2^LongCountBits \in Nat \ {0}
      /\ d \in Nat /\ d < Words
  BY Sizes, PowerType DEF Word
<1>2. WordBits < 2^CountBits /\ 2^CountBits <= 2 * WordBits
  BY CpuArithmeticAssumption DEF WordBits
<1>p. ASSUME NEW k \in Nat, NEW m \in Nat, k + m = WordBits
      PROVE  /\ 2^k \in Nat \ {0} /\ 2^m \in Nat \ {0} /\ Words = 2^m * 2^k
             /\ 2^k <= Words /\ 2^m <= Words /\ d \div 2^k \in 0 .. (2^m - 1)
  <2>1. 2^k \in Nat \ {0} /\ 2^m \in Nat \ {0}
    BY PowerType
  <2>2. Words = 2^m * 2^k
    <3>1. WordBits = m + k
      BY <1>p
    <3> QED BY <3>1, PowerAdds DEF Words
  <2>3. 2^k <= Words /\ 2^m <= Words
    BY <1>1, <1>p, PowerGrows DEF Words
  <2> DEFINE p == 2^k
             q == 2^m
  <2>4. p \in Nat \ {0} /\ q \in Nat /\ d < q * p
    BY <1>1, <2>1, <2>2
  <2> HIDE DEF p, q
  <2>5. d \div p \in Nat /\ d \div p < q
    BY <1>1, <2>4, QuotientBelow
  <2>6. d \div p \in 0 .. (q - 1)
    BY <2>4, <2>5
  <2> QED BY <2>1, <2>2, <2>3, <2>6 DEF p, q
<1>3. shiftLeftCircular(d, n) \in Word
  <2> DEFINE m == n % 2^CountBits
             k == IF m >= WordBits THEN m - WordBits ELSE m
  <2>1. m \in Nat /\ m < 2^CountBits
    BY <1>1, RemainderType
  <2>2. k \in Nat /\ WordBits - k \in Nat
    <3> HIDE DEF m
    <3> QED BY <1>1, <1>2, <2>1
  <2> HIDE DEF k
  <2> DEFINE p == 2^k
             q == 2^(WordBits - k)
             h == d \div q
             l == d % q
  <2>3. p \in Nat \ {0} /\ q \in Nat \ {0} /\ Words = p * q
    <3>1. (WordBits - k) + k = WordBits
      BY <1>1, <2>2
    <3> QED BY <2>2, <3>1, <1>p
  <2>4. h \in 0 .. (p - 1)
    <3>1. (WordBits - k) + k = WordBits
      BY <1>1, <2>2
    <3> QED BY <2>2, <3>1, <1>p
  <2> HIDE DEF p, q
  <2>5. l \in 0 .. (q - 1) /\ d = h * q + l
    BY <1>1, <2>3, Divided
  <2> HIDE DEF h, l
  <2>6. d * p = h * Words + l * p
    <3>1. h \in Int /\ l \in Int /\ p \in Int /\ q \in Int
      BY <2>3, <2>4, <2>5
    <3>2. (h * q + l) * p = h * (p * q) + l * p
      BY <3>1
    <3> QED BY <2>3, <2>5, <3>2
  <2>7. l * p \in Nat /\ l * p <= Words - p
    <3>1. l \in Nat /\ l <= q - 1 /\ q - 1 \in Int /\ p \in Nat /\ q \in Int
      BY <2>3, <2>5
    <3>2. l * p <= (q - 1) * p
      BY <3>1, ProductGrows
    <3>3. (q - 1) * p = p * q - p
      BY <3>1
    <3> QED BY <2>3, <3>1, <3>2, <3>3, ProductType
  <2>8. (h * Words + l * p) % Words = l * p
    <3> DEFINE r == l * p
    <3>1. r \in 0 .. (Words - 1) /\ h \in Int
      BY <1>1, <2>3, <2>4, <2>7
    <3> HIDE DEF r
    <3>2. (h * Words + r) % Words = r
      BY <1>1, <3>1, DividedIs
    <3> QED BY <3>2 DEF r
  <2>9. shiftLeftCircular(d, n) = ((d * p) % Words) + h
    BY DEF shiftLeftCircular, k, p, q, h
  <2>10. (d * p) % Words = l * p
    BY <2>6, <2>8
  <2> QED BY <1>1, <2>3, <2>4, <2>7, <2>9, <2>10 DEF Word
<1>4. ASSUME NEW c \in Nat PROVE shiftMask(c) \in Word
  <2> DEFINE p == WordBits - Min({c, WordBits})
  <2>1. p \in Nat /\ p <= WordBits
    BY <1>1, MinMaxOfTwo
  <2> HIDE DEF p
  <2>2. 2^p \in Nat \ {0} /\ 2^p <= 2^WordBits
    BY <1>1, <2>1, PowerType, PowerGrows
  <2>3. Words - 2^p \in 0 .. (Words - 1)
    BY <2>2, <1>1 DEF Words
  <2> QED BY <2>3 DEF shiftMask, p, Word
<1>5. ASSUME NEW c \in Nat PROVE shiftRightArithmetic(d, c) \in Word
  <2> DEFINE m == Min({c % 2^CountBits, WordBits})
             k == WordBits - m
  <2>0. c % 2^CountBits \in Nat
    BY <1>1, RemainderType
  <2>1. m \in Nat /\ m <= WordBits
    <3> DEFINE q == c % 2^CountBits
    <3>1. q \in Nat
      BY <2>0
    <3> HIDE DEF q
    <3>2. Min({q, WordBits}) \in Nat /\ Min({q, WordBits}) <= WordBits
      BY <1>1, <3>1, MinMaxOfTwo
    <3> QED BY <3>2 DEF q
  <2> HIDE DEF m
  <2>2. k \in Nat /\ m + k = WordBits
    BY <1>1, <2>1
  <2>3. d \div 2^m \in 0 .. (2^k - 1) /\ 2^k <= Words /\ 2^k \in Nat \ {0}
    BY <2>1, <2>2, <1>p
  <2>4. shiftMask(m) = Words - 2^k
    <3>1. Min({m, WordBits}) = m
      BY <1>1, <2>1, MinMaxOfTwo
    <3> QED BY <3>1 DEF shiftMask
  <2> DEFINE x == d \div 2^m
             y == 2^k
  <2>5. x \in 0 .. (y - 1) /\ y <= Words /\ y \in Nat \ {0} /\ shiftMask(m) = Words - y
    BY <2>3, <2>4
  <2>6. shiftRightArithmetic(d, c) = x + (IF IsNegative(d) THEN shiftMask(m) ELSE 0)
    BY DEF shiftRightArithmetic, m
  <2> HIDE DEF x, y
  <2> QED BY <1>1, <2>5, <2>6 DEF Word
<1>6. ShiftRightLong(d, n) \in Word
  <2>1. n % 2^LongCountBits \in Nat
    BY <1>1, RemainderType
  <2> QED BY <2>1, <1>5, OverflowType DEF ShiftRightLong
<1> QED
  BY <1>3, <1>4, <1>5, <1>6

LEMMA ShiftByType ==
    ASSUME NEW d \in Word, NEW b \in Address
    PROVE  LeftByB(d, b) \in Word /\ RightByB(d, b) \in Word /\ shiftPack(d, b) \in Word
<1>1. Counts \in Nat \ {0} /\ Bias \in Nat \ {0}
  BY Sizes
<1>2. b \in Nat /\ Complement(Counts, b) \in Nat
  BY <1>1 DEF Address, Complement
<1>3. LeftByB(d, b) \in Word /\ RightByB(d, b) \in Word
  BY <1>2, ShiftType DEF LeftByB, RightByB
<1>4. (b + Bias) % (2 * Bias) \in Exponents
  <2> DEFINE x == b + Bias
             y == 2 * Bias
  <2>1. x \in Int /\ y \in Nat \ {0}
    BY <1>1, <1>2
  <2> HIDE DEF x, y
  <2>2. x % y \in 0 .. (y - 1)
    BY <2>1, RemainderIs
  <2> QED BY <2>2 DEF x, y, Exponents
<1>5. shiftPack(d, b) \in Word
  BY <1>4, PartsType, JoinType DEF shiftPack
<1> QED
  BY <1>3, <1>5

\* A coefficient that is shifted until it is normalized stays one, with a rounding bit too.
LEMMA ShiftedType ==
    ASSUME NEW c \in Coefficients, NEW n \in Nat, NEW round \in BOOLEAN
    PROVE  /\ Shifted(c, n, round) \in Nat
           /\ n = 0 \/ ~Normalized(Shifted(c, n - 1, round)) => Shifted(c, n, round) \in Coefficients
<1>0. Coeffs = 2 * Half /\ Half \in Nat \ {0} /\ c \in Nat /\ c < Coeffs
  BY WordSizes, Sizes DEF Coefficients
<1>1. ASSUME NEW m \in Nat PROVE Shifted(c, m, round) \in Nat
  <2> DEFINE p == 2^m
             q == IF round /\ m > 0 THEN 2^(m - 1) ELSE 0
  <2>1. p \in Nat /\ q \in Nat
    BY PowerType
  <2>2. Shifted(c, m, round) = c * p + q
    BY DEF Shifted
  <2> HIDE DEF p, q
  <2>3. c * p \in Nat
    BY <1>0, <2>1, ProductType
  <2> QED BY <2>1, <2>2, <2>3
<1>2. ASSUME n = 0 PROVE Shifted(c, n, round) \in Coefficients
  <2>1. Shifted(c, 0, round) = c * 2^0 + 0 /\ 2^0 = 1
    BY DEF Shifted
  <2>2. c * 1 + 0 = c
    BY <1>0
  <2> QED BY <1>2, <2>1, <2>2
<1>3. ASSUME n # 0, ~Normalized(Shifted(c, n - 1, round)) PROVE Shifted(c, n, round) \in Coefficients
  <2> DEFINE m == n - 1
             s == Shifted(c, m, round)
             t == Shifted(c, n, round)
             p == 2^m
  <2>1. m \in Nat /\ n = m + 1
    BY <1>3
  <2>2. s \in Nat /\ t \in Nat /\ s < Half
    BY <1>0, <1>1, <1>3, <2>1 DEF Normalized
  <2>3. 2^n = 2 * p /\ p \in Nat
    BY <2>1, PowerDoubles, PowerType
  <2>4. c * (2 * p) = 2 * (c * p) /\ c * p \in Nat
    <3> HIDE DEF p
    <3> QED BY <1>0, <2>3, ProductType
  <2>5. t = 2 * (c * p) + (IF round THEN p ELSE 0)
    <3>1. n > 0 /\ n - 1 = m
      BY <2>1
    <3>2. t = c * 2^n + (IF round THEN p ELSE 0)
      BY <3>1 DEF Shifted
    <3> QED BY <2>3, <2>4, <3>2
  <2>6. t <= 2 * s + 1
    <3>1. CASE m = 0
      <4>1. p = 1 /\ s = c * p + 0
        BY <3>1 DEF Shifted
      <4> HIDE DEF s, t, p
      <4>2. t <= 2 * (c * p) + 1
        BY <2>4, <2>5, <4>1
      <4> QED BY <2>2, <2>4, <4>1, <4>2
    <3>2. CASE m # 0
      <4>1. m > 0 /\ m - 1 \in Nat /\ m = (m - 1) + 1
        BY <2>1, <3>2
      <4> DEFINE r == 2^(m - 1)
      <4>2. p = 2 * r /\ r \in Nat
        BY <4>1, PowerDoubles, PowerType
      <4>3. s = c * p + (IF round THEN r ELSE 0)
        BY <4>1 DEF Shifted
      <4> HIDE DEF s, t, p, r
      <4> DEFINE x == c * p
      <4>4. x \in Nat /\ s = x + (IF round THEN r ELSE 0) /\ t = 2 * x + (IF round THEN p ELSE 0)
        BY <2>4, <2>5, <4>3
      <4> HIDE DEF x
      <4> QED BY <2>2, <4>2, <4>4
    <3> QED BY <3>1, <3>2
  <2> HIDE DEF s, t
  <2>7. t \in Coefficients
    BY <1>0, <2>2, <2>6 DEF Coefficients
  <2> QED BY <2>7 DEF t
<1> QED
  BY <1>1, <1>2, <1>3

LEMMA NormalizeType ==
    ASSUME NEW w \in Word, NEW round \in BOOLEAN
    PROVE  /\ shiftNormalize(w, round).word \in Word
           /\ shiftNormalize(w, round).count \in 0 .. CoeffBits
<1> DEFINE c == Coeff(w)
           S == {n \in 0 .. CoeffBits : n = CoeffBits \/ Normalized(Shifted(c, n, round))}
           n == NormalizeCount(c, round)
           e == Rebias(Unbias(Expo(w)) - n)
<1>0. CoeffBits \in Nat
  BY Sizes
<1>1. \E m \in S : \A k \in S : m <= k
  <2>1. S \in SUBSET Nat /\ CoeffBits \in S
    BY <1>0
  <2> HIDE DEF S
  <2> QED BY <2>1, Least
<1>2. \E m \in 0 .. CoeffBits : /\ m = CoeffBits \/ Normalized(Shifted(c, m, round))
                                /\ \A k \in 0 .. (m - 1) : ~Normalized(Shifted(c, k, round))
  <2>1. PICK m \in S : \A k \in S : m <= k
    BY <1>1
  <2>2. ASSUME NEW k \in 0 .. (m - 1) PROVE ~Normalized(Shifted(c, k, round))
    BY <2>1, <2>2, <1>0
  <2> QED BY <2>1, <2>2
<1>3. n \in 0 .. CoeffBits /\ \A k \in 0 .. (n - 1) : ~Normalized(Shifted(c, k, round))
  BY <1>2 DEF NormalizeCount
<1>4. /\ c \in Coefficients /\ Unbias(Expo(w)) \in Scales /\ IsNegative(w) \in BOOLEAN
      /\ Bias \in Nat /\ ID = Bias - 1
  BY PartsType, Sizes, WordSizes
<1> HIDE DEF c, n
<1>5. e \in Int /\ (e >= 0 => e \in Exponents)
  <2> DEFINE x == Unbias(Expo(w)) - n
  <2>1. x \in Int /\ x <= ID
    BY <1>3, <1>4, <1>0 DEF Scales
  <2> HIDE DEF x
  <2>2. Rebias(x) \in Int /\ (x <= ID /\ Rebias(x) >= 0 => Rebias(x) \in Exponents)
    BY <2>1, ScalesType
  <2> QED BY <2>1, <2>2 DEF x
<1>6. Shifted(c, n, round) \in Coefficients
  <2>1. n # 0 => n - 1 \in 0 .. (n - 1)
    BY <1>0, <1>3
  <2>2. n = 0 \/ ~Normalized(Shifted(c, n - 1, round))
    BY <1>3, <2>1
  <2>3. n \in Nat
    BY <1>0, <1>3
  <2> QED BY <1>4, <2>2, <2>3, ShiftedType
<1> HIDE DEF e
<1>7. e >= 0 => Join(e, Shifted(c, n, round), IsNegative(w)) \in Word
  BY <1>4, <1>5, <1>6, JoinType
<1>8. shiftNormalize(w, round) =
        IF Special(Expo(w)) THEN [word |-> w, count |-> 0]
        ELSE IF ~round /\ c = 0 THEN [word |-> 0, count |-> CoeffBits]
        ELSE [word |-> IF e < 0 THEN 0 ELSE Join(e, Shifted(c, n, round), IsNegative(w)), count |-> n]
  BY DEF shiftNormalize, c, n, e
<1>9. (IF e < 0 THEN 0 ELSE Join(e, Shifted(c, n, round), IsNegative(w))) \in Word
  BY <1>5, <1>7, OverflowType
<1> QED
  BY <1>3, <1>8, <1>9, <1>0, OverflowType

\* Floating sums.
LEMMA AlignedType ==
    ASSUME NEW neg \in BOOLEAN, NEW c \in Int, NEW round \in BOOLEAN, NEW shift \in Nat
    PROVE  Aligned(neg, c, round, shift).upper \in Int /\ Aligned(neg, c, round, shift).lower \in Int
<1>1. Coeffs \in Nat \ {0} /\ Uppers \in Nat \ {0} /\ Half \in Int /\ CoeffBits \in Nat
  BY Sizes
<1>2. \A x \in Int : Upper(neg, x) \in Int /\ Lower(neg, x) \in Int
  BY <1>1 DEF Upper, Lower, Complement
<1>3. CASE shift < CoeffBits
  <2> DEFINE p == 2^shift
             q == 2^(CoeffBits - shift)
             high == c \div p
             low == ((c * q) % Coeffs) + (IF round THEN Half \div p ELSE 0)
  <2>1. p \in Nat \ {0} /\ q \in Nat \ {0}
    BY <1>1, <1>3, PowerType
  <2> HIDE DEF p, q
  <2>2. high \in Int /\ Half \div p \in Int
    BY <1>1, <2>1, QuotientType
  <2>3. (c * q) % Coeffs \in Int
    BY <1>1, <2>1, ProductType, RemainderType
  <2>4. low \in Int
    BY <2>2, <2>3
  <2>5. Aligned(neg, c, round, shift) = [upper |-> Upper(neg, high), lower |-> Lower(neg, low)]
    BY <1>3 DEF Aligned, p, q
  <2> HIDE DEF high, low
  <2>6. Upper(neg, high) \in Int /\ Lower(neg, low) \in Int
    BY <1>2, <2>2, <2>4 DEF high
  <2> QED BY <2>5, <2>6
<1>4. CASE ~ (shift < CoeffBits)
  <2> DEFINE p == 2^(shift - CoeffBits)
             low == IF shift < 2 * CoeffBits THEN c \div p ELSE 0
  <2>1. p \in Nat \ {0}
    BY <1>1, <1>4, PowerType
  <2> HIDE DEF p
  <2>2. c \div p \in Int
    BY <2>1, QuotientType
  <2>3. low \in Int
    BY <2>2
  <2>4. Aligned(neg, c, round, shift) = [upper |-> Upper(neg, 0), lower |-> Lower(neg, low)]
    BY <1>4 DEF Aligned, p
  <2> HIDE DEF low
  <2>5. Upper(neg, 0) \in Int /\ Lower(neg, low) \in Int
    BY <1>2, <2>3
  <2> QED BY <2>4, <2>5
<1> QED
  BY <1>3, <1>4

\* An adder's upper and lower part after the end-around carry.
LEMMA CarriedType ==
    ASSUME NEW u \in Int, NEW l \in Int
    PROVE  Carried(u, l).upper \in 0 .. (Uppers - 1) /\ Carried(u, l).lower \in Coefficients
<1>1. Coeffs \in Nat \ {0} /\ Uppers \in Nat \ {0}
  BY Sizes
<1> DEFINE up == u + (l \div Coeffs)
           low == l % Coeffs
           m == low + (up + (low + 1) \div Coeffs) \div Uppers
           s == up + m \div Coeffs
<1>2. up \in Int /\ low \in Int
  BY <1>1, QuotientType
<1> HIDE DEF up, low
<1>3. (low + 1) \div Coeffs \in Int
  BY <1>1, <1>2, QuotientType
<1>4. m \in Int
  BY <1>1, <1>2, <1>3, QuotientType
<1> HIDE DEF m
<1>5. m \div Coeffs \in Int /\ m % Coeffs \in 0 .. (Coeffs - 1)
  BY <1>1, <1>4, QuotientType
<1>6. s \in Int
  BY <1>2, <1>5
<1> HIDE DEF s
<1>7. s % Uppers \in 0 .. (Uppers - 1)
  BY <1>1, <1>6, QuotientType
<1>8. Carried(u, l) = [upper |-> s % Uppers, lower |-> m % Coeffs]
  BY DEF Carried, up, low, m, s
<1> QED
  BY <1>5, <1>7, <1>8 DEF Coefficients

LEMMA AddPartsType ==
    ASSUME NEW u \in 0 .. (2 * Coeffs - 1), NEW l \in Coefficients, NEW neg \in BOOLEAN,
           NEW x \in Scales, x < Bias - 1
    PROVE  AddSingle(u, x, neg) \in Word /\ AddDouble(u, l, x, neg) \in Word
<1>1. /\ Coeffs \in Nat \ {0} /\ Half \in Nat \ {0} /\ Coeffs = 2 * Half
      /\ CoeffBits \in Nat /\ ID = Bias - 1 /\ Bias \in Nat
  BY Sizes, WordSizes
<1>2. u \in Nat /\ u \div 2 \in 0 .. (Coeffs - 1) /\ u % 2 \in {0, 1}
  BY <1>1
<1>3. x \in Scales /\ x + 1 \in Scales
  BY <1>1 DEF Scales
<1>4. Rebias(x + 1) \in Exponents /\ Rebias(x) \in Exponents
  BY <1>3, ScalesType
<1>5. AddSingle(u, x, neg) \in Word
  <2>1. u \div 2 \in Coefficients
    BY <1>2 DEF Coefficients
  <2>2. Join(Rebias(x + 1), u \div 2, neg) \in Word
    BY <1>4, <2>1, JoinType
  <2>3. ASSUME ~ (u >= Coeffs) PROVE Join(Rebias(x), u, neg) \in Word
    <3>1. u \in Coefficients
      BY <1>1, <2>3 DEF Coefficients
    <3> QED BY <1>4, <3>1, JoinType
  <2> QED BY <2>2, <2>3 DEF AddSingle
<1>6. AddDouble(u, l, x, neg) \in Word
  <2> DEFINE low == IF u >= Coeffs THEN (u % 2) * Half + l \div 2 ELSE l
             y == IF u >= Coeffs THEN x + 1 ELSE x
             z == y - CoeffBits
  <2>1. low \in Coefficients
    <3>1. l \in 0 .. (2 * Half - 1)
      BY <1>1 DEF Coefficients
    <3>2. l \div 2 \in 0 .. (Half - 1)
      BY <1>1, <3>1
    <3>3. (u % 2) * Half + l \div 2 \in 0 .. (2 * Half - 1)
      <4> DEFINE b == u % 2
                 k == l \div 2
      <4>1. b \in {0, 1} /\ k \in 0 .. (Half - 1)
        BY <1>2, <3>2
      <4> HIDE DEF b, k
      <4>2. b * Half + k \in 0 .. (2 * Half - 1)
        BY <1>1, <4>1
      <4> QED BY <4>2 DEF b, k
    <3> QED BY <1>1, <3>3 DEF Coefficients
  <2>2. y \in Scales
    BY <1>3
  <2> HIDE DEF low
  <2>3. ASSUME ~ (y < CoeffBits - ID) PROVE z \in Scales
    BY <1>1, <2>2, <2>3 DEF Scales
  <2>4. AddDouble(u, l, x, neg) = IF y < CoeffBits - ID THEN 0 ELSE Join(Rebias(z), low, neg)
    BY DEF AddDouble, low, y, z
  <2> HIDE DEF y, z
  <2>5. ASSUME ~ (y < CoeffBits - ID) PROVE Join(Rebias(z), low, neg) \in Word
    <3>1. Rebias(z) \in Exponents
      BY <2>3, <2>5, ScalesType
    <3> QED BY <2>1, <3>1, JoinType
  <2> QED BY <2>4, <2>5, OverflowType
<1> QED
  BY <1>5, <1>6

LEMMA AddFiniteType ==
    ASSUME NEW v1 \in Word, NEW v2 \in Word, NEW doRound \in BOOLEAN, NEW doDouble \in BOOLEAN,
           ~Special(Expo(v1)), ~Special(Expo(v2))
    PROVE  AddFinite(v1, v2, doRound, doDouble) \in Word
<1> DEFINE x1 == Unbias(Expo(v1))
           x2 == Unbias(Expo(v2))
           big == IF x1 > x2 THEN v1 ELSE v2
           small == IF x1 > x2 THEN v2 ELSE v1
           x == Max({x1, x2})
           round == doRound /\ \/ IsNegative(v1) # IsNegative(v2)
                               \/ Normalized(Coeff(v1)) /\ Normalized(Coeff(v2))
           shift == x - Min({x1, x2})
           a == Aligned(IsNegative(small), Coeff(small), round, shift)
           ru == Upper(IsNegative(big), Coeff(big)) + a.upper
           rl == Lower(IsNegative(big), IF doRound THEN Half ELSE 0) + a.lower
           r == Carried(ru, rl)
           neg == r.upper >= 2 * Coeffs
           u == IF neg THEN Complement(Uppers, r.upper) ELSE r.upper
           l == IF neg THEN Complement(Coeffs, r.lower) ELSE r.lower
<1>1. x1 \in Scales /\ x2 \in Scales /\ x1 < Bias - 1 /\ x2 < Bias - 1
  BY PartsType
<1>2. big \in Word /\ small \in Word
  OBVIOUS
<1>3. round \in BOOLEAN
  OBVIOUS
<1>4. x \in Scales /\ x < Bias - 1 /\ shift \in Nat
  <2> HIDE DEF x1, x2
  <2>1. x1 \in Int /\ x2 \in Int /\ Bias \in Int
    BY <1>1, Sizes DEF Scales
  <2>2. x \in {x1, x2} /\ shift \in Nat
    BY <2>1, MinMaxOfTwo
  <2> HIDE DEF x
  <2> QED BY <1>1, <2>2
<1> HIDE DEF x1, x2, big, small, x, round, shift
<1>7. Coeffs \in Nat \ {0} /\ Uppers = 4 * Coeffs /\ Half \in Int
  BY Sizes DEF Uppers
<1>5. /\ Coeff(small) \in Int /\ IsNegative(small) \in BOOLEAN
      /\ Coeff(big) \in Int /\ IsNegative(big) \in BOOLEAN
  BY <1>2, <1>7, PartsType DEF Coefficients
<1>6. a.upper \in Int /\ a.lower \in Int
  BY <1>3, <1>4, <1>5, AlignedType
<1>8. Upper(IsNegative(big), Coeff(big)) \in Int
  BY <1>5, <1>7 DEF Upper, Complement
<1>9. Lower(IsNegative(big), IF doRound THEN Half ELSE 0) \in Int
  BY <1>5, <1>7 DEF Lower, Complement
<1> HIDE DEF a
<1>10. ru \in Int /\ rl \in Int
  BY <1>6, <1>8, <1>9
<1> HIDE DEF ru, rl
<1>11. r.upper \in 0 .. (Uppers - 1) /\ r.lower \in Coefficients
  BY <1>10, CarriedType
<1> HIDE DEF r
<1>12. u \in 0 .. (2 * Coeffs - 1) /\ l \in Coefficients /\ neg \in BOOLEAN
  BY <1>7, <1>11 DEF Complement, Coefficients
<1> HIDE DEF u, l, neg
<1>13. AddSingle(u, x, neg) \in Word /\ AddDouble(u, l, x, neg) \in Word
  BY <1>4, <1>12, AddPartsType
<1>14. AddFinite(v1, v2, doRound, doDouble) =
         IF doDouble THEN AddDouble(u, l, x, neg) ELSE AddSingle(u, x, neg)
  BY Zenon DEF AddFinite, u, l, neg, r, ru, rl, a, x, round, shift, big, small, x1, x2
<1> QED
  BY <1>13, <1>14

LEMMA FloatAddType ==
    ASSUME NEW v1 \in Word, NEW v2 \in Word, NEW doRound \in BOOLEAN, NEW doDouble \in BOOLEAN
    PROVE  floatAdd(v1, v2, doRound, doDouble) \in Word
<1>1. ~Special(Expo(v1)) /\ ~Special(Expo(v2)) => AddFinite(v1, v2, doRound, doDouble) \in Word
  BY AddFiniteType
<1>2. IND \in Word /\ OVFL(IsNegative(v1)) \in Word /\ OVFL(IsNegative(v2)) \in Word
  BY PartsType, OverflowType
<1> QED
  BY <1>1, <1>2 DEF floatAdd

\* Products: the two parts hold the product of the coefficients and the rounding bit.
LEMMA FloatProductType ==
    ASSUME NEW c1 \in Coefficients, NEW c2 \in Coefficients, NEW doRound \in BOOLEAN
    PROVE  /\ Product(c1, c2, doRound).upper \in Coefficients
           /\ Product(c1, c2, doRound).lower \in Coefficients
<1> DEFINE h == 2^(CoeffBits \div 2)
           a1 == c1 \div h
           b1 == c1 % h
           a2 == c2 \div h
           b2 == c2 % h
           rd == IF doRound THEN h \div 4 ELSE 0
           middle == b1 * a2 + a1 * b2 + rd
           lower == b1 * b2 + (middle % h) * h
           upper == a1 * a2 + middle \div h + lower \div Coeffs
<1>1. /\ Coeffs \in Nat \ {0} /\ Coeffs >= 16 /\ c1 \in Nat /\ c1 < Coeffs /\ c2 \in Nat
      /\ c2 < Coeffs
  BY Sizes, CoeffsLarge DEF Coefficients
<1>2. h \in Nat \ {0} /\ h * h = Coeffs
  <2> DEFINE n == CoeffBits \div 2
  <2>1. n \in Nat /\ n + n = CoeffBits
    BY CpuArithmeticAssumption
  <2> HIDE DEF n
  <2>2. 2^n \in Nat \ {0} /\ 2^(n + n) = 2^n * 2^n
    BY <2>1, PowerType, PowerAdds
  <2> QED BY <2>1, <2>2 DEF n, Coeffs
<1> HIDE DEF h
<1>h. h \in Nat \ {0}
  BY <1>2
<1>3. /\ a1 \in Nat /\ b1 \in Nat /\ a2 \in Nat /\ b2 \in Nat
      /\ c1 = a1 * h + b1 /\ c2 = a2 * h + b2
  <2>0. c1 \in Nat /\ c2 \in Nat
    BY <1>1
  <2>1. a1 \in Nat /\ b1 \in 0 .. (h - 1) /\ c1 = a1 * h + b1
    BY <1>h, <2>0, NatDivided
  <2>2. a2 \in Nat /\ b2 \in 0 .. (h - 1) /\ c2 = a2 * h + b2
    BY <1>h, <2>0, NatDivided
  <2> HIDE DEF a1, a2, b1, b2
  <2> QED BY <2>1, <2>2
<1> HIDE DEF a1, a2, b1, b2
<1>4. /\ b1 * a2 \in Nat /\ a1 * b2 \in Nat /\ b1 * b2 \in Nat /\ a1 * a2 \in Nat
      /\ rd \in Nat /\ 4 * rd <= h
  BY <1>2, <1>3, ProductType
<1> HIDE DEF rd
<1>5. middle \in Nat
  BY <1>4
<1>m. middle = b1 * a2 + a1 * b2 + rd
  OBVIOUS
<1> HIDE DEF middle
<1> DEFINE mh == middle \div h
           ml == middle % h
<1>6. ml \in Nat /\ mh \in Nat /\ middle = mh * h + ml
  BY <1>h, <1>5, NatDivided
<1> HIDE DEF mh, ml
<1>7. lower \in Nat /\ lower = b1 * b2 + ml * h
  <2>1. ml * h \in Nat
    BY <1>2, <1>6, ProductType
  <2> QED BY <1>4, <2>1 DEF ml
<1> HIDE DEF lower
<1> DEFINE lh == lower \div Coeffs
           ll == lower % Coeffs
<1>8. lh \in Nat /\ ll \in 0 .. (Coeffs - 1) /\ lower = lh * Coeffs + ll
  BY <1>1, <1>7, NatDivided
<1> HIDE DEF lh, ll
<1>9. upper \in Nat /\ upper = a1 * a2 + mh + lh
  BY <1>4, <1>6, <1>8 DEF mh, lh
<1>10. Product(c1, c2, doRound) = [upper |-> upper, lower |-> ll]
  BY DEF Product, upper, lower, middle, a1, a2, b1, b2, rd, h, ll
<1> HIDE DEF upper
<1>11. upper * Coeffs + ll = c1 * c2 + rd * h
  <2>1. upper * Coeffs = (a1 * a2) * (h * h) + mh * (h * h) + lh * Coeffs
    <3>1. (a1 * a2 + mh + lh) * Coeffs = (a1 * a2) * Coeffs + mh * Coeffs + lh * Coeffs
      <4> DEFINE p == a1 * a2
      <4>1. p \in Int /\ mh \in Int /\ lh \in Int /\ Coeffs \in Int
        BY <1>1, <1>4, <1>6, <1>8
      <4> HIDE DEF p
      <4>2. (p + mh + lh) * Coeffs = p * Coeffs + mh * Coeffs + lh * Coeffs
        BY <4>1
      <4> QED BY <4>2 DEF p
    <3> QED BY <1>2, <1>9, <3>1
  <2>2. upper * Coeffs + ll = (a1 * a2) * (h * h) + mh * (h * h) + b1 * b2 + ml * h
    <3> DEFINE p == (a1 * a2) * (h * h)
               q == mh * (h * h)
               s == b1 * b2
               t == ml * h
               w == lh * Coeffs
               v == upper * Coeffs
    <3>1. v = p + q + w /\ w + ll = s + t
      BY <1>7, <1>8, <2>1
    <3>2. p \in Int /\ q \in Int /\ s \in Int /\ t \in Int /\ w \in Int /\ ll \in Int
      BY <1>1, <1>2, <1>3, <1>4, <1>6, <1>8, ProductType
    <3> HIDE DEF p, q, s, t, w, v
    <3>3. v + ll = p + q + s + t
      BY <3>1, <3>2
    <3> QED BY <3>3 DEF p, q, s, t, w, v
  <2>3. mh * (h * h) + ml * h = (b1 * a2 + a1 * b2 + rd) * h
    <3>1. mh \in Int /\ ml \in Int /\ h \in Int
      BY <1>2, <1>6
    <3>2. mh * (h * h) + ml * h = (mh * h + ml) * h
      BY <3>1
    <3> QED BY <1>m, <1>6, <3>2
  <2>4. c1 * c2 = (a1 * a2) * (h * h) + (b1 * a2 + a1 * b2) * h + b1 * b2
    <3>1. a1 \in Int /\ a2 \in Int /\ b1 \in Int /\ b2 \in Int /\ h \in Int
      BY <1>2, <1>3
    <3>2. (a1 * h + b1) * (a2 * h + b2) = (a1 * a2) * (h * h) + (b1 * a2 + a1 * b2) * h + b1 * b2
      BY <3>1
    <3> QED BY <1>3, <3>2
  <2>5. (b1 * a2 + a1 * b2 + rd) * h = (b1 * a2 + a1 * b2) * h + rd * h
    <3> DEFINE p == b1 * a2 + a1 * b2
    <3>1. p \in Int /\ rd \in Int /\ h \in Int
      BY <1>2, <1>4
    <3> HIDE DEF p
    <3>2. (p + rd) * h = p * h + rd * h
      BY <3>1
    <3> QED BY <3>2 DEF p
  <2> DEFINE P == (a1 * a2) * (h * h)
             M == mh * (h * h)
             Q == b1 * b2
             L == ml * h
             N == (b1 * a2 + a1 * b2) * h
             R == rd * h
             C == c1 * c2
             U == upper * Coeffs
  <2>6. P \in Int /\ M \in Int /\ Q \in Int /\ L \in Int /\ N \in Int /\ R \in Int /\ C \in Int
        /\ U \in Int /\ ll \in Int
    <3>1. b1 * a2 + a1 * b2 \in Int
      BY <1>4
    <3>2. h * h \in Int
      BY <1>2
    <3> HIDE DEF P, M, Q, L, N, R, C, U
    <3>3. P \in Int /\ M \in Int
      BY <1>4, <1>6, <3>2, ProductType DEF P, M
    <3>4. Q \in Int /\ L \in Int /\ R \in Int
      BY <1>2, <1>4, <1>6, ProductType DEF Q, L, R
    <3>5. N \in Int
      BY <1>2, <3>1, ProductType DEF N
    <3>6. C \in Int /\ U \in Int /\ ll \in Int
      BY <1>1, <1>8, <1>9, ProductType DEF C, U
    <3> QED BY <3>3, <3>4, <3>5, <3>6
  <2>7. U + ll = P + M + Q + L /\ M + L = N + R /\ C = P + N + Q
    BY <2>2, <2>3, <2>4, <2>5
  <2> HIDE DEF P, M, Q, L, N, R, C, U
  <2>8. U + ll = C + R
    BY <2>6, <2>7
  <2> QED BY <2>8 DEF C, R, U
<1>12. c1 * c2 + rd * h < Coeffs * Coeffs
  <2>1. c1 * c2 <= (Coeffs - 1) * (Coeffs - 1)
    <3>1. c1 \in Nat /\ c1 <= Coeffs - 1 /\ Coeffs - 1 \in Nat /\ c2 \in Nat /\ c2 <= Coeffs - 1
      BY <1>1
    <3>2. c1 * c2 <= (Coeffs - 1) * c2
      BY <3>1, ProductGrows
    <3>3. c2 * (Coeffs - 1) <= (Coeffs - 1) * (Coeffs - 1)
      BY <3>1, ProductGrows
    <3>4. c1 * c2 \in Int /\ (Coeffs - 1) * c2 = c2 * (Coeffs - 1)
          /\ c2 * (Coeffs - 1) \in Int /\ (Coeffs - 1) * (Coeffs - 1) \in Int
      BY <3>1
    <3> QED BY <3>2, <3>3, <3>4
  <2>2. 4 * (rd * h) <= Coeffs
    <3>1. (4 * rd) * h <= h * h
      <4> DEFINE p == 4 * rd
      <4>1. p \in Int /\ p <= h /\ h \in Nat
        BY <1>2, <1>4
      <4> HIDE DEF p
      <4>2. p * h <= h * h
        BY <4>1, ProductGrows
      <4> QED BY <4>2 DEF p
    <3>2. (4 * rd) * h = 4 * (rd * h)
      BY <1>2, <1>4
    <3> QED BY <1>2, <3>1, <3>2
  <2>3. (Coeffs - 1) * (Coeffs - 1) = Coeffs * Coeffs - 2 * Coeffs + 1
    <3>1. Coeffs \in Int
      BY <1>1
    <3> QED BY <3>1
  <2>4. c1 * c2 \in Int /\ rd * h \in Int /\ Coeffs * Coeffs \in Int
    BY <1>1, <1>2, <1>4
  <2> DEFINE p == c1 * c2
             q == rd * h
             s == Coeffs * Coeffs
  <2>5. p <= s - 2 * Coeffs + 1 /\ 4 * q <= Coeffs /\ p \in Int /\ q \in Int /\ s \in Int
    BY <2>1, <2>2, <2>3, <2>4
  <2> HIDE DEF p, q, s
  <2>6. p + q < s
    BY <1>1, <2>5
  <2> QED BY <2>6 DEF p, q, s
<1>13. upper < Coeffs
  <2>1. upper * Coeffs \in Int /\ Coeffs * Coeffs \in Int /\ ll >= 0 /\ ll \in Int
    BY <1>1, <1>8, <1>9
  <2>2. upper * Coeffs < Coeffs * Coeffs
    BY <1>11, <1>12, <2>1
  <2> QED BY <1>1, <1>9, <2>2, FactorsCompare
<1>14. upper \in Coefficients /\ ll \in Coefficients
  BY <1>1, <1>8, <1>9, <1>13 DEF Coefficients
<1> QED
  BY <1>10, <1>14

LEMMA FloatMultiplyType ==
    ASSUME NEW v1 \in Word, NEW v2 \in Word, NEW doRound \in BOOLEAN, NEW doDouble \in BOOLEAN
    PROVE  floatMultiply(v1, v2, doRound, doDouble) \in Word
<1> DEFINE neg == IsNegative(v1) # IsNegative(v2)
           p == Product(Coeff(v1), Coeff(v2), doRound)
<1>1. /\ Coeff(v1) \in Coefficients /\ Coeff(v2) \in Coefficients /\ Unbias(Expo(v1)) \in Scales
      /\ Unbias(Expo(v2)) \in Scales /\ neg \in BOOLEAN
  BY PartsType
<1>2. p.upper \in Coefficients /\ p.lower \in Coefficients
  BY <1>1, FloatProductType
<1> HIDE DEF p, neg
<1>3. /\ Coeffs \in Nat \ {0} /\ Half \in Nat \ {0} /\ CoeffBits \in Int /\ ID \in Int
      /\ Coeffs = 2 * Half /\ Bias \in Int
  BY Sizes, WordSizes
<1>5. MultiplyFinite(v1, v2, p, doDouble, neg) \in Word
  <2> DEFINE both == Normalized(Coeff(v1)) /\ Normalized(Coeff(v2))
             adjust == both /\ ~Normalized(p.upper)
             low == IF adjust THEN (2 * p.lower) % Coeffs ELSE p.lower
             up == IF adjust THEN 2 * p.upper + p.lower \div Half ELSE p.upper
             x == Unbias(Expo(v1)) + Unbias(Expo(v2)) + (IF adjust THEN -1 ELSE 0)
                  + (IF doDouble THEN 0 ELSE CoeffBits)
  <2>1. (2 * p.lower) % Coeffs \in 0 .. (Coeffs - 1)
    <3> DEFINE d == 2 * p.lower
    <3>1. d \in Int
      BY <1>2, <1>3 DEF Coefficients
    <3> HIDE DEF d
    <3>2. d % Coeffs \in 0 .. (Coeffs - 1)
      BY <1>3, <3>1, QuotientType
    <3> QED BY <3>2 DEF d
  <2>3. p.lower \div Half \in {0, 1}
    <3>1. p.lower \in Nat /\ p.lower < 2 * Half
      BY <1>2, <1>3 DEF Coefficients
    <3>2. p.lower \div Half \in Nat /\ p.lower \div Half < 2
      BY <1>3, <3>1, QuotientBelow
    <3> QED BY <3>2
  <2>4. low \in Coefficients /\ up \in Coefficients
    <3>1. low \in Coefficients
      BY <1>2, <2>1 DEF Coefficients
    <3>2. ASSUME ~ (p.upper >= Half) PROVE 2 * p.upper + p.lower \div Half \in Coefficients
      <4> DEFINE d == p.lower \div Half
      <4>1. d \in {0, 1} /\ p.upper \in Nat
        BY <1>2, <2>3 DEF Coefficients
      <4> HIDE DEF d
      <4>2. 2 * p.upper + d \in 0 .. (Coeffs - 1)
        BY <1>3, <3>2, <4>1
      <4> QED BY <4>2 DEF d, Coefficients
    <3> QED BY <1>2, <3>1, <3>2 DEF Normalized
  <2>5. x \in Int
    BY <1>1, <1>3 DEF Scales
  <2> HIDE DEF low, up, x
  <2>6. x <= ID /\ Rebias(x) >= 0 => Rebias(x) \in Exponents
    BY <2>5, ScalesType
  <2> DEFINE c == IF doDouble THEN low ELSE up
  <2>7. c \in Coefficients
    BY <2>4
  <2> HIDE DEF c
  <2>8. Rebias(x) \in Exponents => Join(Rebias(x), c, neg) \in Word
    BY <1>1, <2>7, JoinType
  <2>9. MultiplyFinite(v1, v2, p, doDouble, neg) =
          IF x > ID THEN OVFL(neg) ELSE IF Rebias(x) < 0 THEN 0 ELSE Join(Rebias(x), c, neg)
    BY DEF MultiplyFinite, low, up, x, c
  <2>10. Rebias(x) \in Int /\ (x > ID \/ x <= ID) /\ (Rebias(x) < 0 \/ Rebias(x) >= 0)
    BY <1>3, <2>5, ScalesType
  <2>11. OVFL(neg) \in Word /\ 0 \in Word
    BY <1>1, OverflowType
  <2> QED BY <2>6, <2>8, <2>9, <2>10, <2>11
<1>6. IND \in Word /\ OVFL(neg) \in Word /\ 0 \in Word
  BY <1>1, OverflowType
<1>7. Flip(neg, IF doDouble THEN p.lower ELSE p.upper) \in Word
  <2> DEFINE c == IF doDouble THEN p.lower ELSE p.upper
  <2>1. c \in Word
    BY <1>2, CoefficientWords
  <2> HIDE DEF c
  <2>2. Flip(neg, c) \in Word
    BY <1>1, <2>1, PartsType
  <2> QED BY <2>2 DEF c
<1> QED
  BY <1>5, <1>6, <1>7 DEF floatMultiply, p, neg

\* Quotients have one bit per step.
LEMMA FloatQuotientType ==
    ASSUME NEW c1 \in Int, NEW c2 \in Int, NEW doRound \in BOOLEAN, NEW firstRound \in Int
    PROVE  Quotient(c1, c2, doRound, firstRound) \in Coefficients
<1> DEFINE V == [rest : Int, quotient : Nat]
           Body(n, v) ==
              LET b == v.rest >= c2
                  left == v.rest - (IF b THEN c2 ELSE 0)
                  bit == IF doRound THEN (firstRound + n - 1) % 2 ELSE 0
              IN  [rest |-> 2 * left + bit, quotient |-> 2 * v.quotient + (IF b THEN 1 ELSE 0)]
           start == [rest |-> c1, quotient |-> 0]
           Eq(f) == f = [n \in 0 .. CoeffBits |-> IF n = 0 THEN start ELSE Body(n, f[n - 1])]
           up == CHOOSE f : Eq(f)
<1>1. CoeffBits \in Nat
  BY Sizes
<1>2. start \in V /\ start.quotient = 0
  OBVIOUS
<1>3. \A n \in 1 .. CoeffBits, v \in V :
         Body(n, v) \in V /\ Body(n, v).quotient <= 2 * v.quotient + 1
  <2> SUFFICES ASSUME NEW n \in 1 .. CoeffBits, NEW v \in V
               PROVE  Body(n, v) \in V /\ Body(n, v).quotient <= 2 * v.quotient + 1
    OBVIOUS
  <2>1. n \in Int /\ v.rest \in Int /\ v.quotient \in Nat
    OBVIOUS
  <2>2. (firstRound + n - 1) % 2 \in Int
    BY <2>1
  <2>3. 2 * (v.rest - (IF v.rest >= c2 THEN c2 ELSE 0))
          + (IF doRound THEN (firstRound + n - 1) % 2 ELSE 0) \in Int
    BY <2>1, <2>2
  <2>4. /\ 2 * v.quotient + (IF v.rest >= c2 THEN 1 ELSE 0) \in Nat
        /\ 2 * v.quotient + (IF v.rest >= c2 THEN 1 ELSE 0) <= 2 * v.quotient + 1
    BY <2>1
  <2> QED BY <2>3, <2>4
<1>4. Quotient(c1, c2, doRound, firstRound) = up[CoeffBits].quotient
  BY Zenon DEF Quotient
<1> HIDE DEF V, Body, start
<1> DEFINE F == [n \in 1 .. CoeffBits |-> [v \in V |-> Body(n, v)]]
<1>5. F \in [1 .. CoeffBits -> [V -> V]]
  BY <1>3
<1>6. \E f \in [0 .. CoeffBits -> V] :
         f = [n \in 0 .. CoeffBits |-> IF n = 0 THEN start ELSE F[n][f[n - 1]]]
  <2>1. F \in Steps(CoeffBits, V) /\ start \in V
    BY <1>2, <1>5 DEF Steps
  <2> HIDE DEF F, V, start
  <2>2. \E f \in [0 .. CoeffBits -> V] : Follows(f, CoeffBits, start, F)
    BY <1>1, <2>1, Repeats
  <2> QED BY <2>2 DEF Follows
<1>7. PICK f \in [0 .. CoeffBits -> V] :
         f = [n \in 0 .. CoeffBits |-> IF n = 0 THEN start ELSE F[n][f[n - 1]]]
  BY <1>6
<1>8. Eq(f)
  <2>1. ASSUME NEW n \in 0 .. CoeffBits, n # 0 PROVE F[n][f[n - 1]] = Body(n, f[n - 1])
    <3>1. n - 1 \in 0 .. CoeffBits /\ n \in 1 .. CoeffBits
      BY <2>1, <1>1
    <3>2. f[n - 1] \in V
      BY <3>1, <1>7
    <3> QED BY <3>1, <3>2
  <2> HIDE DEF F
  <2> QED BY <1>7, <2>1
<1>9. Eq(up)
  BY <1>8
<1> HIDE DEF up
<1>a. \A n \in 0 .. CoeffBits : up[n] = IF n = 0 THEN start ELSE Body(n, up[n - 1])
  BY <1>9
<1> HIDE DEF Eq
<1> DEFINE T == {n \in Nat : n <= CoeffBits => up[n] \in V /\ up[n].quotient < 2^n}
<1>10. 0 \in T
  <2>1. up[0] = start /\ 0 < 2^0
    BY <1>1, <1>a
  <2> QED BY <1>2, <2>1
<1>11. ASSUME NEW n \in Nat, n \in T PROVE n + 1 \in T
  <2> SUFFICES ASSUME n + 1 <= CoeffBits PROVE up[n + 1] \in V /\ up[n + 1].quotient < 2^(n + 1)
    OBVIOUS
  <2>1. /\ up[n] \in V /\ up[n].quotient < 2^n
        /\ n + 1 \in 1 .. CoeffBits /\ n + 1 \in 0 .. CoeffBits /\ (n + 1) - 1 = n
    BY <1>1, <1>11
  <2>2. up[n + 1] = Body(n + 1, up[n])
    <3> HIDE DEF T
    <3>1. n + 1 # 0
      OBVIOUS
    <3> QED BY <1>a, <2>1, <3>1
  <2>3. up[n + 1] \in V /\ up[n + 1].quotient <= 2 * up[n].quotient + 1
    BY <1>3, <2>1, <2>2
  <2>4. 2^(n + 1) = 2 * 2^n /\ 2^n \in Nat
    BY PowerDoubles, PowerType
  <2>5. up[n].quotient \in Nat /\ up[n + 1].quotient \in Nat
    BY <2>1, <2>3 DEF V
  <2>6. up[n + 1].quotient < 2^(n + 1)
    BY <2>1, <2>3, <2>4, <2>5
  <2> QED BY <2>3, <2>6
<1>12. CoeffBits \in T
  <2> HIDE DEF T
  <2> QED BY <1>1, <1>10, <1>11, Induction
<1>13. up[CoeffBits] \in V /\ up[CoeffBits].quotient < Coeffs
  BY <1>1, <1>12 DEF Coeffs
<1>14. up[CoeffBits].quotient \in Nat /\ Coeffs \in Nat
  BY <1>13, Sizes DEF V
<1> QED
  BY <1>4, <1>13, <1>14 DEF Coefficients

LEMMA FloatDivideType ==
    ASSUME NEW v1 \in Word, NEW v2 \in Word, NEW doRound \in BOOLEAN
    PROVE  floatDivide(v1, v2, doRound) \in Word
<1> DEFINE neg == IsNegative(v1) # IsNegative(v2)
           c1 == Coeff(v1)
           c2 == Coeff(v2)
           pre == c1 < c2
           x == Unbias(Expo(v1)) - Unbias(Expo(v2)) - (IF pre THEN 1 ELSE 0)
           y == x - (CoeffBits - 1)
           d == IF pre THEN 2 * c1 ELSE c1
           q == Quotient(d, c2, doRound, IF pre /\ doRound THEN 1 ELSE 0)
<1>0. CoeffBits \in Int /\ Coeffs \in Int /\ Bias \in Int /\ ID \in Int
  BY Sizes
<1>1. /\ c1 \in Int /\ c2 \in Int /\ Unbias(Expo(v1)) \in Int
      /\ Unbias(Expo(v2)) \in Int /\ neg \in BOOLEAN
  BY <1>0, PartsType DEF Coefficients, Scales
<1>3. y \in Int /\ d \in Int
  BY <1>0, <1>1
<1>4. q \in Coefficients
  <2> HIDE DEF d, c2, c1
  <2>1. (IF pre /\ doRound THEN 1 ELSE 0) \in Int
    OBVIOUS
  <2> QED BY <1>1, <1>3, <2>1, FloatQuotientType
<1> HIDE DEF neg, y, q
<1>5. Rebias(y) \in Int /\ (y <= ID /\ Rebias(y) >= 0 => Rebias(y) \in Exponents)
  BY <1>3, ScalesType
<1>6. OVFL(neg) \in Word /\ IND \in Word /\ 0 \in Word
  BY <1>1, OverflowType
<1>7. Rebias(y) \in Exponents => Join(Rebias(y), q, neg) \in Word
  BY <1>1, <1>4, JoinType
<1>8. DivideFinite(v1, v2, doRound, neg) =
        IF c1 >= 2 * c2 THEN IND ELSE IF y > ID THEN OVFL(neg)
        ELSE IF Rebias(y) < 0 THEN 0 ELSE Join(Rebias(y), q, neg)
  BY Zenon DEF DivideFinite, y, q
<1>9. (y > ID \/ y <= ID) /\ (Rebias(y) < 0 \/ Rebias(y) >= 0)
  BY <1>0, <1>3, <1>5
<1>10. DivideFinite(v1, v2, doRound, neg) \in Word
  BY <1>5, <1>6, <1>7, <1>8, <1>9
<1> QED
  BY <1>6, <1>10 DEF floatDivide, neg

\* Bits of numbers.
LEMMA BitsType ==
    ASSUME NEW n \in Nat, NEW a, NEW b
    PROVE  /\ {And(n, a, b), Or(n, a, b), Xor(n, a, b)} \subseteq 0 .. (2^n - 1)
           /\ IsFiniteSet(Bits(n, a)) /\ Cardinality(Bits(n, a)) \in 0 .. n
<1>1. Bits(n, a) \in SUBSET (0 .. (n - 1)) /\ Bits(n, b) \in SUBSET (0 .. (n - 1))
  BY DEF Bits
<1>2. {And(n, a, b), Or(n, a, b), Xor(n, a, b)} \subseteq 0 .. (2^n - 1)
  <2>1. /\ Bits(n, a) \cap Bits(n, b) \in SUBSET (0 .. (n - 1))
        /\ Bits(n, a) \cup Bits(n, b) \in SUBSET (0 .. (n - 1))
        /\ (Bits(n, a) \ Bits(n, b)) \cup (Bits(n, b) \ Bits(n, a)) \in SUBSET (0 .. (n - 1))
    BY <1>1
  <2> DEFINE R == 0 .. (2^n - 1)
  <2>2. \A s \in SUBSET (0 .. (n - 1)) : OfBits(s) \in R
    BY OfBitsType
  <2> HIDE DEF R
  <2>3. And(n, a, b) \in R /\ Or(n, a, b) \in R /\ Xor(n, a, b) \in R
    BY <2>1, <2>2, Zenon DEF And, Or, Xor
  <2> QED BY <2>3 DEF R
<1>3. IsFiniteSet(0 .. (n - 1)) /\ Cardinality(0 .. (n - 1)) = n
  BY FS_Interval
<1>4. IsFiniteSet(Bits(n, a)) /\ Cardinality(Bits(n, a)) <= n
  BY <1>1, <1>3, FS_Subset
<1>5. Cardinality(Bits(n, a)) \in Nat
  BY <1>4, FS_CardinalityType
<1> QED
  BY <1>2, <1>4, <1>5

LEMMA FlagBitsAre == \A a : FlagWord(a) \subseteq 0 .. (FlagBits - 1)
BY DEF FlagWord, Bits

-----------------------------------------------------------------------------
(* Registers and memory of the CPU. *)

LEMMA WordIs == 0 \in Word /\ \A w \in Word : w \in Nat /\ w \in Int
BY Sizes, OverflowType DEF Word

\* What registers and memory hold are words and addresses.
CpuFits ==
    /\ setup \in Setups
    /\ regP \in Address /\ regA \in [Regs -> Address] /\ regB \in [Regs -> Address]
    /\ regX \in [Regs -> Word]
    /\ cm \in [0 .. (setup.cmSize - 1) -> Word] /\ ecs \in [0 .. (setup.ecsSize - 1) -> Word]

LEMMA SetupIs ==
    ASSUME setup \in Setups
    PROVE  /\ setup.raCm \in Nat /\ setup.flCm \in Nat /\ setup.raEcs \in Nat /\ setup.flEcs \in Nat
           /\ setup.ecsSize \in Nat /\ setup.cmSize \in Nat \ {0} /\ setup.cmSize <= Counts
           /\ setup.raCm < Counts /\ setup.flCm < Counts
           /\ setup.flCm <= setup.cmSize /\ setup.ecsSize <= Words
           /\ setup.ratio \in Nat \ {0} /\ setup.maxSteps \in Nat
<1>1. /\ setup.raCm \in Address /\ setup.flCm \in Address /\ setup.raEcs \in Nat /\ setup.flEcs \in Nat
      /\ setup.ecsSize \in Nat /\ setup.cmSize \in Nat \ {0} /\ setup.cmSize <= Counts
      /\ setup.flCm <= setup.cmSize /\ setup.ecsSize <= Words
      /\ setup.ratio \in Nat \ {0} /\ setup.maxSteps \in Nat
  BY ProcessorsAssumption
<1>2. \A a \in Address : a \in Nat /\ a < Counts
  BY Sizes DEF Address
<1> QED
  BY <1>1, <1>2

LEMMA InstructionIs ==
    ASSUME setup \in Setups, NEW in \in CpuPrograms[setup.part]
    PROVE  /\ in.i \in Regs /\ in.j \in Regs /\ in.k \in Regs /\ in.K \in Address
           /\ in.op \in {"LX", "AX", "MX"} => in.jk \in Nat /\ in.jk \in 0 .. (2^CountBits - 1)
           /\ in.op \in {"SA", "SB", "SX"} =>
                 in.sum \in {"A+K", "B+K", "X+K", "X+B", "A+B", "A-B", "B+B", "B-B"}
           /\ in.op \in MoveOps \cup CompareOps =>
                 /\ in.k1 \in Nat /\ in.c1 \in Nat /\ in.k2 \in Nat /\ in.c2 \in Nat /\ in.n \in Nat
                 /\ in.n < Words /\ 2 * in.n < Words
<1>1. ASSUME in.op \in {"LX", "AX", "MX"} PROVE in.jk \in Nat /\ in.jk \in 0 .. (2^CountBits - 1)
  BY <1>1, ProgramsAssumption
<1>2. ASSUME in.op \in MoveOps \cup CompareOps PROVE in.n \in Nat /\ in.n < Words /\ 2 * in.n < Words
  <2> DEFINE n == in.n
  <2>1. n \in Nat /\ 2 * n < Words
    BY <1>2, ProgramsAssumption
  <2>2. Words \in Int
    BY Sizes
  <2> HIDE DEF n
  <2>3. n < Words
    BY <2>1, <2>2
  <2> QED BY <2>1, <2>3 DEF n
<1> QED
  BY <1>1, <1>2, ProgramsAssumption

LEMMA ZeroRegister == 0 \in Regs
<1>1. IsFiniteSet(Regs) /\ Cardinality(Regs) > 1 /\ Regs = 0 .. (Cardinality(Regs) - 1)
  BY CpuInstructionsAssumption
<1>2. Cardinality(Regs) \in Nat
  BY <1>1, FS_CardinalityType
<1> QED
  BY <1>1, <1>2

LEMMA AddressType ==
    ASSUME NEW a \in Address, NEW b \in Address
    PROVE  /\ Add(Counts, a, b) \in Address /\ Subtract(Counts, a, b) \in Address
           /\ a \in Nat /\ Next18(a) \in Address
<1>1. Counts \in Nat \ {0}
  BY Sizes
<1>2. (a + 1) % Counts \in 0 .. (Counts - 1)
  BY <1>1 DEF Address
<1> QED
  BY <1>1, <1>2, RegisterType DEF Address, Next18

LEMMA LowType ==
    ASSUME NEW w \in Word PROVE Low18(w) \in Address
BY Sizes, RemainderType, WordIs DEF Low18, Address

LEMMA AddressSumType ==
    ASSUME CpuFits, NEW in \in CpuPrograms[setup.part], in.op \in {"SA", "SB", "SX"}
    PROVE  AddressSum(in) \in Address
<1>1. /\ in.i \in Regs /\ in.j \in Regs /\ in.k \in Regs /\ in.K \in Address
      /\ in.sum \in {"A+K", "B+K", "X+K", "X+B", "A+B", "A-B", "B+B", "B-B"}
  BY InstructionIs DEF CpuFits
<1>2. /\ A(in.j) \in Address /\ B(in.j) \in Address /\ B(in.k) \in Address
      /\ Low18(X(in.j)) \in Address
  BY <1>1, LowType DEF CpuFits, A, B, X
<1> DEFINE a == A(in.j)
           b == B(in.j)
           c == B(in.k)
           x == Low18(X(in.j))
           k == in.K
<1>3. a \in Address /\ b \in Address /\ c \in Address /\ x \in Address /\ k \in Address
  BY <1>1, <1>2
<1>4. AddressSum(in) \in {Add(Counts, a, k), Add(Counts, b, k), Add(Counts, x, k), Add(Counts, x, c),
                          Add(Counts, a, c), Subtract(Counts, a, c), Add(Counts, b, c),
                          Subtract(Counts, b, c)}
  <2> HIDE DEF a, b, c, x, k
  <2> QED BY <1>1 DEF AddressSum, a, b, c, x, k
<1> HIDE DEF a, b, c, x, k
<1>5. /\ Add(Counts, a, k) \in Address /\ Add(Counts, b, k) \in Address
      /\ Add(Counts, x, k) \in Address /\ Add(Counts, x, c) \in Address
      /\ Add(Counts, a, c) \in Address /\ Subtract(Counts, a, c) \in Address
      /\ Add(Counts, b, c) \in Address /\ Subtract(Counts, b, c) \in Address
  BY <1>3, AddressType
<1> QED
  BY <1>4, <1>5

LEMMA BooleanType ==
    ASSUME CpuFits, NEW in \in CpuPrograms[setup.part], in.op \in BooleanOps
    PROVE  Boolean(in) \in Word
<1>1. X(in.j) \in Word /\ X(in.k) \in Word
  BY InstructionIs DEF CpuFits, X
<1>2. Word = 0 .. (2^WordBits - 1) /\ WordBits \in Nat
  BY Sizes DEF Word, Words
<1>3. Complement(Words, X(in.k)) \in Word
  BY <1>1, PartsType
<1>4. \A a, b : {And(WordBits, a, b), Or(WordBits, a, b), Xor(WordBits, a, b)} \subseteq Word
  BY <1>2, BitsType
<1>5. \A a, b : And(WordBits, a, b) \in Word /\ Or(WordBits, a, b) \in Word /\ Xor(WordBits, a, b) \in Word
  BY <1>4, Zenon
<1> QED
  BY <1>1, <1>3, <1>5 DEF Boolean, BooleanOps

LEMMA ShiftOpsType ==
    ASSUME CpuFits, NEW in \in CpuPrograms[setup.part], in.op \in ShiftOps
    PROVE  Shift(in) \in Word
<1>1. X(in.i) \in Word /\ X(in.k) \in Word /\ B(in.j) \in Address
  BY InstructionIs DEF CpuFits, X, B
<1>2. WordBits \in Nat
  BY Sizes
<1>3. Cardinality(Bits(WordBits, X(in.k))) \in Word
  <2>1. Cardinality(Bits(WordBits, X(in.k))) \in 0 .. WordBits
    BY <1>2, BitsType
  <2>2. WordBits < Words
    BY <1>2, PowerExceeds DEF Words
  <2> QED BY <1>2, <2>1, <2>2, Sizes DEF Word
<1>4. /\ LeftByB(X(in.k), B(in.j)) \in Word /\ RightByB(X(in.k), B(in.j)) \in Word
      /\ shiftPack(X(in.k), B(in.j)) \in Word
  BY <1>1, ShiftByType
<1>5. CASE in.op \in {"LX", "AX", "MX"}
  <2>1. in.jk \in Nat
    BY <1>5, InstructionIs DEF CpuFits
  <2>2. /\ shiftLeftCircular(X(in.i), in.jk) \in Word /\ shiftMask(in.jk) \in Word
        /\ shiftRightArithmetic(X(in.i), in.jk) \in Word
    BY <1>1, <2>1, ShiftType
  <2> QED BY <1>5, <2>2 DEF Shift
<1>6. CASE in.op \in {"LXB", "AXB", "PX", "CX"}
  BY <1>3, <1>4, <1>6 DEF Shift
<1> QED
  BY <1>5, <1>6 DEF ShiftOps

LEMMA NumericType ==
    ASSUME CpuFits, NEW in \in CpuPrograms[setup.part], in.op \in NumericOps
    PROVE  Numeric(in) \in Word
<1> DEFINE a == X(in.j)
           b == X(in.k)
           minus == Complement(Words, b)
<1>1. a \in Word /\ b \in Word
  BY InstructionIs DEF CpuFits, X
<1>2. minus \in Word
  BY <1>1, PartsType
<1> HIDE DEF a, b, minus
<1>3. Add(Words, a, b) \in Word /\ Subtract(Words, a, b) \in Word
  BY <1>1, Sizes, RegisterType DEF Word
<1>4. \A r \in BOOLEAN, d \in BOOLEAN : /\ floatAdd(a, b, r, d) \in Word /\ floatAdd(a, minus, r, d) \in Word
                                       /\ floatMultiply(a, b, r, d) \in Word
                                       /\ floatDivide(a, b, r) \in Word
  BY <1>1, <1>2, FloatAddType, FloatMultiplyType, FloatDivideType
<1>5. /\ floatAdd(a, b, FALSE, FALSE) \in Word /\ floatAdd(a, minus, FALSE, FALSE) \in Word
      /\ floatAdd(a, b, FALSE, TRUE) \in Word /\ floatAdd(a, minus, FALSE, TRUE) \in Word
      /\ floatAdd(a, b, TRUE, FALSE) \in Word /\ floatAdd(a, minus, TRUE, FALSE) \in Word
      /\ floatMultiply(a, b, FALSE, FALSE) \in Word /\ floatMultiply(a, b, TRUE, FALSE) \in Word
      /\ floatMultiply(a, b, FALSE, TRUE) \in Word
      /\ floatDivide(a, b, FALSE) \in Word /\ floatDivide(a, b, TRUE) \in Word
  BY <1>4
<1> QED
  BY <1>3, <1>5 DEF Numeric, NumericOps, a, b, minus

LEMMA SignExtendedType ==
    ASSUME NEW a \in Address PROVE SignExtended(a) \in Word
<1>1. Words \in Nat /\ Counts \in Nat /\ 2 * Counts <= Words
  BY Sizes, WordSizes
<1> QED
  BY <1>1 DEF SignExtended, Negative, Address, Word

LEMMA ResultType ==
    ASSUME CpuFits, NEW in \in CpuPrograms[setup.part],
           in.op \in BooleanOps \cup ShiftOps \cup NumericOps \cup {"SX"}
    PROVE  Result(in) \in Word
<1>1. CASE in.op \in BooleanOps
  <2>1. in.op \notin ShiftOps /\ in.op \notin NumericOps /\ in.op # "SX"
    BY <1>1 DEF BooleanOps, ShiftOps, NumericOps
  <2>2. Result(in) = Boolean(in)
    BY <1>1, <2>1 DEF Result
  <2>3. Boolean(in) \in Word
    BY <1>1, BooleanType
  <2> QED BY <2>2, <2>3
<1>2. CASE in.op \in ShiftOps
  <2>1. in.op \notin BooleanOps /\ in.op \notin NumericOps /\ in.op # "SX"
    BY <1>2 DEF BooleanOps, ShiftOps, NumericOps
  <2>2. Result(in) = Shift(in)
    BY <1>2, <2>1 DEF Result
  <2>3. Shift(in) \in Word
    BY <1>2, ShiftOpsType
  <2> QED BY <2>2, <2>3
<1>3. CASE in.op \in NumericOps
  <2>1. in.op \notin BooleanOps /\ in.op \notin ShiftOps /\ in.op # "SX"
    BY <1>3 DEF BooleanOps, ShiftOps, NumericOps
  <2>2. Result(in) = Numeric(in)
    BY <1>3, <2>1 DEF Result
  <2>3. Numeric(in) \in Word
    BY <1>3, NumericType
  <2> QED BY <2>2, <2>3
<1>4. CASE in.op = "SX"
  <2>1. in.op \notin BooleanOps /\ in.op \notin ShiftOps /\ in.op \notin NumericOps
    BY <1>4 DEF BooleanOps, ShiftOps, NumericOps
  <2>2. AddressSum(in) \in Address
    BY <1>4, AddressSumType
  <2>3. SignExtended(AddressSum(in)) \in Word
    BY <2>2, SignExtendedType
  <2> QED BY <1>4, <2>1, <2>3 DEF Result
<1> QED
  BY <1>1, <1>2, <1>3, <1>4

\* Memory m comes of central memory by writes within the field.
Within(m) ==
    /\ m \in [0 .. (setup.cmSize - 1) -> Word]
    /\ \A a \in (DOMAIN cm) \ Field : m[a] = cm[a]

EcsWithin(m) ==
    /\ m \in [0 .. (setup.ecsSize - 1) -> Word]
    /\ \A a \in (DOMAIN ecs) \ EcsField : m[a] = ecs[a]

LEMMA NothingWritten ==
    ASSUME CpuFits PROVE Within(cm) /\ EcsWithin(ecs)
BY DEF CpuFits, Within, EcsWithin

LEMMA FieldIs ==
    ASSUME CpuFits
    PROVE  /\ \A a \in Nat : a < FlCm \/ a = 0 => (setup.raCm + a) % setup.cmSize \in Field
           /\ setup.raCm \in 0 .. (setup.cmSize - 1) => setup.raCm \in Field
           /\ setup.raCm + FlCm = Counts => 0 \in Field
<1>1. setup.raCm \in Nat /\ FlCm \in Nat /\ setup.cmSize \in Nat \ {0}
  BY SetupIs DEF CpuFits, FlCm
<1>2. Max({FlCm, 1}) = IF FlCm >= 1 THEN FlCm ELSE 1
  BY <1>1, MinMaxOfTwo
<1>3. ASSUME NEW a \in Nat, a < FlCm \/ a = 0 PROVE (setup.raCm + a) % setup.cmSize \in Field
  <2>1. a \in 0 .. (Max({FlCm, 1}) - 1)
    BY <1>1, <1>2, <1>3
  <2> QED BY <2>1 DEF Field
<1>4. ASSUME setup.raCm \in 0 .. (setup.cmSize - 1) PROVE setup.raCm \in Field
  <2>1. (setup.raCm + 0) % setup.cmSize \in Field
    BY <1>3
  <2>2. (setup.raCm + 0) % setup.cmSize = setup.raCm
    BY <1>1, <1>4
  <2> QED BY <2>1, <2>2
<1>5. setup.raCm + FlCm = Counts => 0 \in Field
  BY DEF Field
<1> QED
  BY <1>3, <1>4, <1>5

\* The last address, of a field that ends with it, is turned into 0.
LEMMA SumIs ==
    ASSUME NEW C \in Nat \ {0}, NEW a \in Nat, NEW ra \in Nat, ra + a < C
    PROVE  /\ Add(C, a, ra) = IF ra + a < C - 1 THEN ra + a ELSE 0
           /\ Add(C, ra, a) = IF ra + a < C - 1 THEN ra + a ELSE 0
BY DEF Add, Subtract, Complement

LEMMA AbsoluteIs ==
    ASSUME CpuFits, FieldsFit, NEW a \in Nat, a < FlCm
    PROVE  /\ setup.raCm + a < Counts
           /\ setup.raCm + a < Counts - 1 => Absolute(a) = (setup.raCm + a) % setup.cmSize
           /\ setup.raCm + a = Counts - 1 => Absolute(a) = 0 /\ setup.raCm + FlCm = Counts
           /\ Absolute(a) \in Field /\ Absolute(a) \in 0 .. (setup.cmSize - 1)
<1>1. setup.raCm \in Nat /\ FlCm \in Nat /\ setup.cmSize \in Nat \ {0} /\ setup.raCm + FlCm <= Counts
  BY SetupIs DEF CpuFits, FlCm, FieldsFit
<1>2. Counts \in Nat \ {0}
  BY Sizes
<1> DEFINE ra == setup.raCm
<1>3. ra + a < Counts /\ (ra + a = Counts - 1 => ra + FlCm = Counts)
  BY <1>1, <1>2
<1>4. Add(Counts, a, ra) = IF ra + a < Counts - 1 THEN ra + a ELSE 0
  <2>1. ra \in Nat
    BY <1>1
  <2> HIDE DEF ra
  <2> QED BY <1>2, <1>3, <2>1, SumIs
<1>5. (ra + a) % setup.cmSize \in 0 .. (setup.cmSize - 1) /\ 0 % setup.cmSize = 0
  BY <1>1
<1>6. CASE ra + a < Counts - 1
  <2>1. Absolute(a) = (ra + a) % setup.cmSize
    BY <1>4, <1>6 DEF Absolute
  <2>2. ra + a # Counts - 1
    BY <1>1, <1>2, <1>6
  <2> QED BY <1>3, <1>5, <2>1, <2>2, FieldIs
<1>7. CASE ~(ra + a < Counts - 1)
  <2>1. Absolute(a) = 0 % setup.cmSize
    BY <1>4, <1>7 DEF Absolute
  <2>2. ra + a = Counts - 1
    BY <1>1, <1>2, <1>3, <1>7
  <2>3. 0 \in 0 .. (setup.cmSize - 1)
    BY <1>1
  <2> QED BY <1>3, <1>5, <1>7, <2>1, <2>2, <2>3, FieldIs
<1> QED
  BY <1>6, <1>7

LEMMA RingIs ==
    ASSUME CpuFits
    PROVE  /\ Ring \in Nat \ {0} /\ Ring <= setup.cmSize /\ FlCm <= Ring
           /\ IF setup.cmSize = Counts THEN Ring = Counts - 1 ELSE Ring = setup.cmSize
<1>1. Counts \in Nat /\ Counts > 1
  BY Sizes, CpuArithmeticAssumption
<1>2. /\ FlCm \in Nat /\ FlCm < Counts /\ FlCm <= setup.cmSize
      /\ setup.cmSize \in Nat \ {0} /\ setup.cmSize <= Counts
  BY SetupIs DEF CpuFits, FlCm
<1> QED
  BY <1>1, <1>2 DEF Ring

\* A word of a block lies within the field, and where a load finds it.
LEMMA BlockWordIs ==
    ASSUME CpuFits, FieldsFit, NEW c \in Nat, NEW k \in Nat, c + k < FlCm
    PROVE  /\ BlockWord(c, k) \in Field
           /\ WordsApart => BlockWord(c, k) = Absolute(c + k)
<1> DEFINE ra == setup.raCm
           d == setup.cmSize
           sum == Add(Counts, ra, c)
           R == Ring
           F == FlCm
<1>1. /\ ra \in Nat /\ F \in Nat /\ ra + F <= Counts /\ Counts \in Nat \ {0}
      /\ d \in Nat \ {0} /\ d <= Counts /\ R \in Nat \ {0}
  BY SetupIs, RingIs, Sizes DEF CpuFits, FlCm, FieldsFit
<1>2. IF d = Counts THEN R = Counts - 1 ELSE R = d
  BY RingIs
<1>3. ra + c < Counts /\ c + k \in Nat
  BY <1>1
<1>4. sum = IF ra + c < Counts - 1 THEN ra + c ELSE 0
  <2> HIDE DEF ra
  <2> QED BY <1>1, <1>3, SumIs
<1>5. BlockWord(c, k) = (sum + k) % R
  BY DEF BlockWord
<1>6. ra + (c + k) < Counts - 1 => Absolute(c + k) = (ra + (c + k)) % d
  BY <1>3, AbsoluteIs
<1>7. ra + (c + k) = Counts - 1 => Absolute(c + k) = 0
  BY <1>3, AbsoluteIs
<1>8. (ra + (c + k)) % d \in Field
  BY <1>3, FieldIs
<1>9. ra + F = Counts => 0 \in Field
  BY FieldIs
<1>10. WordsApart => ra + F < Counts \/ d = Counts
  BY DEF WordsApart
<1> HIDE DEF ra, d, sum, R, F
<1>11. CASE ra + (c + k) < Counts - 1
  <2>1. sum + k = ra + (c + k)
    BY <1>1, <1>4, <1>11
  <2>2. d = Counts => (ra + (c + k)) % R = ra + (c + k) /\ (ra + (c + k)) % d = ra + (c + k)
    BY <1>1, <1>2, <1>11
  <2>3. (sum + k) % R = (ra + (c + k)) % d
    BY <1>2, <2>1, <2>2
  <2> QED BY <1>5, <1>6, <1>8, <1>11, <2>3
<1>12. CASE ra + (c + k) = Counts - 1
  <2>1. ra + F = Counts
    BY <1>1, <1>12 DEF F
  <2>2. CASE k = 0
    <3>1. sum + k = 0
      BY <1>1, <1>4, <1>12, <2>2
    <3>2. 0 % R = 0
      BY <1>1
    <3> QED BY <1>5, <1>7, <1>9, <1>12, <2>1, <3>1, <3>2
  <2>3. CASE k # 0 /\ d = Counts
    <3>1. sum + k = Counts - 1
      BY <1>1, <1>4, <1>12, <2>3
    <3>2. R = Counts - 1
      BY <1>2, <2>3
    <3>3. R % R = 0
      BY <1>1
    <3> QED BY <1>5, <1>7, <1>9, <1>12, <2>1, <3>1, <3>2, <3>3
  <2>4. CASE k # 0 /\ d # Counts
    <3>1. sum + k = ra + (c + k)
      BY <1>1, <1>4, <1>12, <2>4
    <3>2. ~WordsApart
      BY <1>1, <1>10, <2>1, <2>4
    <3> QED BY <1>2, <1>5, <1>8, <2>4, <3>1, <3>2
  <2> QED BY <2>2, <2>3, <2>4
<1>13. ra + (c + k) < Counts - 1 \/ ra + (c + k) = Counts - 1
  BY <1>1 DEF F
<1> QED
  BY <1>11, <1>12, <1>13

LEMMA StoreWithin ==
    ASSUME CpuFits, FieldsFit, NEW m, Within(m), NEW a \in Nat, a < FlCm, NEW v \in Word
    PROVE  Within([m EXCEPT ![Absolute(a)] = v])
<1>1. Absolute(a) \in Field
  BY AbsoluteIs
<1> DEFINE b == Absolute(a)
<1> HIDE DEF b
<1>2. DOMAIN cm = 0 .. (setup.cmSize - 1)
  BY DEF CpuFits
<1> QED
  BY <1>1, <1>2 DEF Within, b

\* What a return jump and an error exit leave.
LEMMA WordLeftType ==
    ASSUME NEW p \in Address PROVE JumpWord(p) \in Word /\ ExitWord(p) \in Word
<1>1. Words \in Nat /\ Counts \in Nat /\ 2 * Counts <= Words /\ Words >= 128
  <2>1. Words = 2 * Magnitudes /\ Magnitudes >= 64 /\ Magnitudes \in Nat
    BY WordSizes
  <2> QED BY <2>1, Sizes, WordSizes
<1>2. Next18(p) \in 0 .. (Counts - 1)
  BY AddressType DEF Address
<1> QED
  BY <1>1, <1>2 DEF JumpWord, ExitWord, Word

LEMMA ExitWithin ==
    ASSUME CpuFits, NEW m, Within(m), NEW p \in Address
    PROVE  Within(Exited(m, p))
<1>1. ExitWord(p) \in Word
  BY WordLeftType
<1>2. setup.raCm \in 0 .. (setup.cmSize - 1) => setup.raCm \in Field
  BY FieldIs
<1>3. DOMAIN cm = 0 .. (setup.cmSize - 1)
  BY DEF CpuFits
<1> QED
  BY <1>1, <1>2, <1>3 DEF Within, Exited

\* However an instruction ends.
LEMMA InstructionEnds ==
    ASSUME CpuFits, NEW m, Within(m), NEW left
    PROVE  /\ \A p \in Address : Fetch(p, m) \/ GoTo(p, m) => regP' \in Address /\ Within(cm')
           /\ Continue(left, m) \/ Proceed(left, m) \/ ErrorExit(left, m)
                 => regP' \in Address /\ Within(cm')
           /\ \A p \in Address : StopAt(p, left) => regP' \in Address
<1>1. regP \in Address /\ Next18(regP) \in Address /\ 0 \in Address
  BY AddressType, Sizes DEF CpuFits, Address
<1>2. ASSUME NEW p \in Address, Fetch(p, m) PROVE regP' \in Address /\ Within(cm')
  <2>1. Within(Exited(m, p))
    BY ExitWithin
  <2> QED BY <1>1, <1>2, <2>1 DEF Fetch, Within
<1>3. ASSUME NEW p \in Address, StopAt(p, left) PROVE regP' \in Address
  <2>1. Next18(p) \in Address
    BY AddressType
  <2> QED BY <1>3, <2>1 DEF StopAt
<1>4. ASSUME Continue(left, m) PROVE regP' \in Address /\ Within(cm')
  <2>1. CASE left = 0
    BY <1>1, <1>2, <1>4, <2>1 DEF Continue
  <2>2. CASE left # 0
    BY <1>1, <1>4, <2>2 DEF Continue
  <2> QED BY <2>1, <2>2
<1>5. ASSUME Proceed(left, m) PROVE regP' \in Address /\ Within(cm')
  BY <1>1, <1>3, <1>4, <1>5 DEF Proceed
<1>6. ASSUME ErrorExit(left, m) PROVE regP' \in Address /\ Within(cm')
  <2>1. Within(Exited(m, regP))
    BY <1>1, ExitWithin
  <2> QED BY <1>1, <1>3, <1>4, <1>6, <2>1 DEF ErrorExit
<1>7. ASSUME NEW p \in Address, GoTo(p, m) PROVE regP' \in Address /\ Within(cm')
  BY <1>2, <1>7 DEF GoTo
<1> QED
  BY <1>2, <1>3, <1>4, <1>5, <1>6, <1>7

\* What every instruction preserves.
StaysWithin == CpuFits' /\ Within(cm') /\ EcsWithin(ecs')

LEMMA AllStays ==
    ASSUME CpuFits, UNCHANGED setup, regP' \in Address, regA' \in [Regs -> Address],
           regB' \in [Regs -> Address], regX' \in [Regs -> Word], Within(cm'), EcsWithin(ecs')
    PROVE  StaysWithin
BY DEF StaysWithin, CpuFits, Within, EcsWithin

LEMMA SetXStays ==
    ASSUME CpuFits, UNCHANGED setup, NEW in \in CpuPrograms[setup.part], SetX(in)
    PROVE  StaysWithin
<1>1. Result(in) \in Word
  BY ResultType DEF SetX
<1>2. regX' \in [Regs -> Word]
  BY <1>1 DEF SetX, CpuFits
<1>3. regP' \in Address /\ Within(cm')
  BY NothingWritten, InstructionEnds DEF SetX
<1>4. regA' \in [Regs -> Address] /\ regB' \in [Regs -> Address] /\ EcsWithin(ecs')
  BY NothingWritten DEF SetX, CpuFits, ecsVars
<1> QED
  BY <1>2, <1>3, <1>4, AllStays

LEMMA SetXBStays ==
    ASSUME CpuFits, UNCHANGED setup, NEW in \in CpuPrograms[setup.part], SetXB(in)
    PROVE  StaysWithin
<1> DEFINE w == X(in.k)
           n == shiftNormalize(w, in.op = "ZX")
           x == IF in.op = "UX" THEN UnpackedCoeff(w) ELSE n.word
           b == IF in.j = 0 THEN 0 ELSE IF in.op = "UX" THEN UnpackedExpo(w) ELSE n.count
<1>1. w \in Word /\ in.i \in Regs /\ in.j \in Regs
  BY InstructionIs DEF CpuFits, X
<1> HIDE DEF w
<1>2. n.word \in Word /\ n.count \in 0 .. CoeffBits
  <2> DEFINE round == in.op = "ZX"
  <2>1. round \in BOOLEAN
    OBVIOUS
  <2> HIDE DEF round
  <2>2. shiftNormalize(w, round).word \in Word /\ shiftNormalize(w, round).count \in 0 .. CoeffBits
    BY <1>1, <2>1, NormalizeType
  <2> QED BY <2>2 DEF round
<1>3. /\ Coeff(w) \in Word /\ Expo(w) \in Int /\ IsNegative(w) \in BOOLEAN
      /\ Counts \in Nat \ {0} /\ Bias \in Nat /\ CoeffBits \in Nat /\ CoeffBits < Counts
  <2>1. Expo(w) \in Exponents /\ Coeff(w) \in Word /\ IsNegative(w) \in BOOLEAN
    BY <1>1, PartsType
  <2> QED BY <2>1, Sizes DEF Exponents
<1>4. UnpackedCoeff(w) \in Word
  <2> DEFINE c == Coeff(w)
             neg == IsNegative(w)
  <2>1. c \in Word /\ neg \in BOOLEAN
    BY <1>3
  <2> HIDE DEF c, neg
  <2>2. Flip(neg, c) \in Word
    BY <2>1, PartsType
  <2> QED BY <2>2 DEF UnpackedCoeff, c, neg
<1>5. UnpackedExpo(w) \in Address
  <2>1. Expo(w) - Bias \in Int
    BY <1>3
  <2> QED BY <1>3, <2>1, RemainderType DEF UnpackedExpo, Address
<1> HIDE DEF n
<1>6. x \in Word /\ b \in Address
  BY <1>2, <1>3, <1>4, <1>5 DEF Address
<1> HIDE DEF x, b
<1>7. regX' = [regX EXCEPT ![in.i] = x] /\ regB' = [regB EXCEPT ![in.j] = b]
  BY DEF SetXB, x, b, n, w
<1>8. regX' \in [Regs -> Word] /\ regB' \in [Regs -> Address]
  BY <1>6, <1>7 DEF CpuFits
<1>9. regP' \in Address /\ Within(cm')
  BY NothingWritten, InstructionEnds DEF SetXB
<1>10. regA' \in [Regs -> Address] /\ EcsWithin(ecs')
  BY NothingWritten DEF SetXB, CpuFits, ecsVars
<1> QED
  BY <1>8, <1>9, <1>10, AllStays

LEMMA SetBStays ==
    ASSUME CpuFits, UNCHANGED setup, NEW in \in CpuPrograms[setup.part], SetB(in)
    PROVE  StaysWithin
<1>1. AddressSum(in) \in Address /\ 0 \in Address
  BY AddressSumType, Sizes DEF SetB, Address
<1>2. regB' \in [Regs -> Address]
  BY <1>1 DEF SetB, CpuFits
<1>3. regP' \in Address /\ Within(cm')
  BY NothingWritten, InstructionEnds DEF SetB
<1>4. regA' \in [Regs -> Address] /\ regX' \in [Regs -> Word] /\ EcsWithin(ecs')
  BY NothingWritten DEF SetB, CpuFits, ecsVars
<1> QED
  BY <1>2, <1>3, <1>4, AllStays

LEMMA SetAStays ==
    ASSUME CpuFits, FieldsFit, UNCHANGED setup, NEW in \in CpuPrograms[setup.part], SetA(in)
    PROVE  StaysWithin
<1> DEFINE a == AddressSum(in)
           m == IF in.i \in StoreRegs /\ a < FlCm THEN [cm EXCEPT ![Absolute(a)] = X(in.i)] ELSE cm
<1>1. a \in Address /\ in.i \in Regs
  BY AddressSumType, InstructionIs DEF SetA, CpuFits
<1>2. a \in Nat
  BY <1>1, AddressType
<1> HIDE DEF a
<1>3. Within(m)
  <2>1. X(in.i) \in Word
    BY <1>1 DEF CpuFits, X
  <2> QED BY <1>2, <2>1, NothingWritten, StoreWithin
<1>4. regP' \in Address /\ Within(cm')
  <2>1. Proceed(Left(in), m) \/ ErrorExit(Left(in), m) \/ Continue(Left(in), m)
    BY DEF SetA, a
  <2> HIDE DEF m
  <2> QED BY <1>3, <2>1, InstructionEnds
<1>5. regX' \in [Regs -> Word]
  <2> DEFINE l == IF a < FlCm THEN Absolute(a) ELSE 0
  <2>1. l \in 0 .. (setup.cmSize - 1)
    <3>1. 0 \in 0 .. (setup.cmSize - 1)
      BY SetupIs DEF CpuFits
    <3> QED BY <1>2, <3>1, AbsoluteIs
  <2>2. cm'[l] \in Word
    BY <1>4, <2>1 DEF Within
  <2>3. regX' = IF in.i \in LoadRegs THEN [regX EXCEPT ![in.i] = cm'[l]] ELSE regX
    BY DEF SetA, a
  <2> HIDE DEF l
  <2> QED BY <2>2, <2>3 DEF CpuFits
<1>6. regA' \in [Regs -> Address] /\ regB' \in [Regs -> Address] /\ EcsWithin(ecs')
  BY <1>1, NothingWritten DEF SetA, CpuFits, ecsVars, a
<1> QED
  BY <1>4, <1>5, <1>6, AllStays

LEMMA JumpStays ==
    ASSUME CpuFits, UNCHANGED setup, NEW in \in CpuPrograms[setup.part], Jump(in)
    PROVE  StaysWithin
<1>1. in.K \in Address /\ B(in.i) \in Address
  BY InstructionIs DEF CpuFits, B
<1>2. Add(Counts, B(in.i), in.K) \in Address
  BY <1>1, AddressType
<1>3. GoTo(in.K, cm) \/ Proceed(Left(in), cm) \/ GoTo(Add(Counts, B(in.i), in.K), cm)
  BY DEF Jump
<1>4. regP' \in Address /\ Within(cm')
  BY <1>1, <1>2, <1>3, NothingWritten, InstructionEnds
<1>5. /\ regA' \in [Regs -> Address] /\ regB' \in [Regs -> Address] /\ regX' \in [Regs -> Word]
      /\ EcsWithin(ecs')
  BY NothingWritten DEF Jump, CpuFits, ecsVars, cpuRegisters
<1> QED
  BY <1>4, <1>5, AllStays

LEMMA RJStays ==
    ASSUME CpuFits, FieldsFit, UNCHANGED setup, NEW in \in CpuPrograms[setup.part], RJ(in)
    PROVE  StaysWithin
<1>1. in.K \in Address /\ in.K \in Nat /\ Next18(in.K) \in Address /\ regP \in Address
  BY InstructionIs, AddressType DEF CpuFits
<1> DEFINE m == IF in.K >= FlCm THEN cm ELSE [cm EXCEPT ![Absolute(in.K)] = JumpWord(regP)]
<1>2. Within(m)
  <2>1. JumpWord(regP) \in Word
    BY <1>1, WordLeftType
  <2>2. FlCm \in Nat
    BY SetupIs DEF CpuFits, FlCm
  <2> QED BY <1>1, <2>1, <2>2, NothingWritten, StoreWithin
<1>3. regP' \in Address /\ Within(cm')
  <2>1. CASE in.K >= FlCm /\ setup.exitMode
    <3>1. StopAt(in.K, 0) /\ cm' = Exited(cm, regP)
      BY <2>1 DEF RJ
    <3> QED BY <1>1, <3>1, NothingWritten, ExitWithin, InstructionEnds
  <2>2. CASE ~ (in.K >= FlCm /\ setup.exitMode)
    <3>1. Fetch(Next18(in.K), m)
      BY <2>2 DEF RJ
    <3> HIDE DEF m
    <3> QED BY <1>1, <1>2, <3>1, InstructionEnds
  <2> QED BY <2>1, <2>2
<1>4. /\ regA' \in [Regs -> Address] /\ regB' \in [Regs -> Address] /\ regX' \in [Regs -> Word]
      /\ EcsWithin(ecs')
  BY NothingWritten DEF RJ, CpuFits, ecsVars, cpuRegisters
<1> QED
  BY <1>3, <1>4, AllStays

LEMMA PassStays ==
    ASSUME CpuFits, UNCHANGED setup, NEW in \in CpuPrograms[setup.part], PS(in) \/ Pass(in)
    PROVE  StaysWithin
<1>1. regP' \in Address /\ Within(cm')
  <2>1. CASE PS(in)
    BY <2>1, NothingWritten, InstructionEnds DEF PS, CpuFits, memoryVars
  <2>2. CASE Pass(in)
    BY <2>2, NothingWritten, InstructionEnds DEF Pass
  <2> QED BY <2>1, <2>2
<1>2. /\ regA' \in [Regs -> Address] /\ regB' \in [Regs -> Address] /\ regX' \in [Regs -> Word]
      /\ EcsWithin(ecs')
  BY NothingWritten DEF PS, Pass, CpuFits, ecsVars, cpuRegisters, memoryVars
<1> QED
  BY <1>1, <1>2, AllStays

-----------------------------------------------------------------------------
(* Extended core storage. *)

LEMMA EcsSizeIs == ASSUME CpuFits PROVE EcsSize = setup.ecsSize /\ EcsSize \in Nat
<1>1. DOMAIN ecs = 0 .. (setup.ecsSize - 1) /\ setup.ecsSize \in Nat
  BY SetupIs DEF CpuFits
<1>2. Cardinality(0 .. (setup.ecsSize - 1)) = setup.ecsSize
  <2> DEFINE n == setup.ecsSize
  <2>1. n \in Nat
    BY <1>1
  <2> HIDE DEF n
  <2>2. CASE n = 0
    <3>1. 0 .. (n - 1) = {}
      BY <2>2
    <3>2. Cardinality({}) = 0
      BY FS_EmptySet
    <3> QED BY <2>2, <3>1, <3>2 DEF n
  <2>3. CASE n > 0
    <3>1. n - 1 \in Int
      BY <2>1
    <3>2. Cardinality(0 .. (n - 1)) = n
      BY <2>1, <2>3, FS_Interval
    <3> QED BY <3>2 DEF n
  <2> QED BY <2>1, <2>2, <2>3 DEF n
<1> QED
  BY <1>1, <1>2 DEF EcsSize

LEMMA FlagBounds ==
    2^(EcsBits - 3) \in Nat \ {0} /\ 2^(EcsBits - 1) = 4 * 2^(EcsBits - 3)
<1> DEFINE n == EcsBits - 3
<1>1. n \in Nat /\ n + 1 \in Nat /\ EcsBits - 1 = (n + 1) + 1
  BY EcsAssumption
<1>2. 2^n \in Nat \ {0} /\ 2^(n + 1) = 2 * 2^n /\ 2^((n + 1) + 1) = 2 * 2^(n + 1)
  <2> HIDE DEF n
  <2> QED BY <1>1, PowerType, PowerDoubles
<1>3. 2^(EcsBits - 1) = 2^((n + 1) + 1)
  BY <1>1
<1>4. 2^(EcsBits - 1) = 2 * (2 * 2^n)
  BY <1>2, <1>3
<1> QED BY <1>2, <1>4

\* A flag reference has a function.
LEMMA FunctionOfFlag ==
    ASSUME NEW a \in Int, FlagReference(a)
    PROVE  Function(a) \in {4, 5, 6, 7}
<1> DEFINE q == 2^(EcsBits - 3)
           h == 2^(EcsBits - 1)
           x == a \div q
           y == a \div h
<1>2. q \in Nat \ {0} /\ h = 4 * q
  BY FlagBounds
<1> HIDE DEF q, h
<1>3. /\ x \in Int /\ a % q \in 0 .. (q - 1) /\ a = x * q + (a % q)
      /\ y \in Int /\ a % h \in 0 .. (h - 1) /\ a = y * h + (a % h)
  <2>1. h \in Nat \ {0}
    BY <1>2
  <2> QED BY <1>2, <2>1, Divided
<1>4. y % 2 = 1
  BY DEF FlagReference, h
<1> HIDE DEF x, y
<1>5. x * q < (4 * y + 4) * q /\ (4 * y) * q < (x + 1) * q
  <2>1. y * h = (4 * y) * q /\ (4 * y + 4) * q = (4 * y) * q + h /\ (x + 1) * q = x * q + q
    BY <1>2, <1>3
  <2>2. x * q \in Int /\ (4 * y) * q \in Int
    BY <1>2, <1>3
  <2> QED BY <1>2, <1>3, <2>1, <2>2
<1>6. x < 4 * y + 4 /\ 4 * y < x + 1
  <2> DEFINE u == 4 * y
             v == 4 * y + 4
             w == x + 1
  <2>1. u \in Int /\ v \in Int /\ w \in Int /\ x \in Int
    BY <1>3
  <2> HIDE DEF u, v, w
  <2>2. x < v /\ u < w
    BY <1>2, <1>5, <2>1, FactorsCompare DEF u, v, w
  <2> QED BY <2>2 DEF u, v, w
<1>7. x % 8 \in {4, 5, 6, 7}
  BY <1>3, <1>4, <1>6
<1> QED
  BY <1>7 DEF Function, x, q

\* Below the functions that test and clear.
LEMMA FunctionThatSets ==
    ASSUME NEW a \in Nat, FlagReference(a), a < 2^(EcsBits - 1) + 2 * 2^(EcsBits - 3)
    PROVE  Function(a) \in {4, 5}
<1> DEFINE q == 2^(EcsBits - 3)
           h == 2^(EcsBits - 1)
           x == a \div q
<1>1. q \in Nat \ {0} /\ h = 4 * q /\ a < h + 2 * q
  BY FlagBounds
<1>2. x % 8 \in {4, 5, 6, 7}
  BY FunctionOfFlag DEF Function
<1> HIDE DEF q, h
<1>3. x \in Int /\ a % q \in 0 .. (q - 1) /\ a = x * q + (a % q)
  BY <1>1, Divided
<1>4. x * q < 6 * q /\ (-1) * q < x * q
  BY <1>1, <1>3
<1> HIDE DEF x
<1>5. x < 6 /\ -1 < x
  <2>1. 6 \in Int /\ -1 \in Int
    OBVIOUS
  <2> QED BY <1>1, <1>3, <1>4, <2>1, FactorsCompare
<1>6. x \in {4, 5} /\ x % 8 = x
  BY <1>2, <1>3, <1>5
<1> QED
  BY <1>6 DEF Function, x, q

\* What a transfer to ECS has come to.  It sets flags, and clears none where they are apart.
Transfers ==
    [ecs : {m \in [0 .. (setup.ecsSize - 1) -> Word] :
                \A a \in (DOMAIN ecs) \ EcsField : m[a] = ecs[a]},
     flags : {f \in SUBSET (ecsFlagRegister \cup 0 .. (FlagBits - 1)) :
                FlagsApart => ecsFlagRegister \subseteq f},
     failed : BOOLEAN]

LEMMA TransferIs ==
    ASSUME CpuFits
    PROVE  /\ [ecs |-> ecs, flags |-> ecsFlagRegister, failed |-> FALSE] \in Transfers
           /\ \A s \in Transfers : /\ EcsWithin(s.ecs)
                                   /\ s.flags \subseteq ecsFlagRegister \cup 0 .. (FlagBits - 1)
                                   /\ FlagsApart => ecsFlagRegister \subseteq s.flags
<1>1. EcsWithin(ecs)
  BY NothingWritten
<1> QED
  BY <1>1 DEF Transfers, EcsWithin

\* A word within the field, or a function of the flag register.
LEMMA EcsWrittenWithin ==
    ASSUME CpuFits, NEW s \in Transfers, NEW a \in Nat, a \in EcsField, NEW w \in Word
    PROVE  EcsWritten(s, a, w) \in Transfers
<1>1. CASE FlagReference(a)
  <2> DEFINE r == FlagFunction(s.flags, a)
  <2>1. Function(a) \in {4, 5, 6, 7} /\ FlagWord(a) \subseteq 0 .. (FlagBits - 1)
    BY <1>1, FunctionOfFlag, FlagBitsAre
  <2>2. FlagsApart => Function(a) \in {4, 5}
    <3>1. /\ setup.raEcs \in Nat /\ setup.flEcs \in Nat
          /\ FlagsApart => setup.raEcs + setup.flEcs <= 2^(EcsBits - 1) + 2 * 2^(EcsBits - 3)
      BY SetupIs DEF CpuFits, FlagsApart
    <3>2. a < setup.raEcs + setup.flEcs
      BY <3>1 DEF EcsField
    <3> DEFINE q == 2^(EcsBits - 3)
               h == 2^(EcsBits - 1)
    <3>3. q \in Nat /\ h \in Nat
      BY FlagBounds
    <3> HIDE DEF q, h
    <3>4. FlagsApart => a < h + 2 * q
      BY <3>1, <3>2, <3>3 DEF q, h
    <3> QED BY <1>1, <3>4, FunctionThatSets DEF q, h
  <2>3. /\ s.flags \subseteq ecsFlagRegister \cup 0 .. (FlagBits - 1)
        /\ FlagsApart => ecsFlagRegister \subseteq s.flags
        /\ s \in [ecs : {s.ecs}, flags : {s.flags}, failed : {s.failed}]
    BY DEF Transfers
  <2>4. r.ok \in BOOLEAN /\ r.flags \in SUBSET (ecsFlagRegister \cup 0 .. (FlagBits - 1))
    BY <2>1, <2>3 DEF FlagFunction
  <2>5. FlagsApart => ecsFlagRegister \subseteq r.flags
    BY <2>2, <2>3 DEF FlagFunction
  <2> HIDE DEF r
  <2>6. EcsWritten(s, a, w) = [s EXCEPT !.failed = ~r.ok, !.flags = r.flags]
    BY <1>1 DEF EcsWritten, r
  <2> QED BY <2>4, <2>5, <2>6 DEF Transfers
<1>2. CASE ~ FlagReference(a) /\ a >= EcsSize
  <2>1. EcsWritten(s, a, w) = [s EXCEPT !.failed = TRUE]
    BY <1>2 DEF EcsWritten
  <2> QED BY <2>1 DEF Transfers
<1>3. CASE ~ FlagReference(a) /\ a < EcsSize
  <2>1. EcsWritten(s, a, w) = [s EXCEPT !.ecs[a] = w]
    <3>1. ~ (a >= EcsSize)
      BY <1>3, EcsSizeIs
    <3> QED BY <1>3, <3>1 DEF EcsWritten
  <2>2. DOMAIN ecs = 0 .. (setup.ecsSize - 1)
    BY DEF CpuFits
  <2> QED BY <2>1, <2>2 DEF Transfers
<1> QED
  BY <1>1, <1>2, <1>3, EcsSizeIs

\* An address of the field of ECS.
LEMMA EcsFieldIs ==
    ASSUME CpuFits, NEW e \in Nat, e < setup.flEcs
    PROVE  e + setup.raEcs \in EcsField /\ e + setup.raEcs \in Nat
<1>1. setup.raEcs \in Nat /\ setup.flEcs \in Nat
  BY SetupIs DEF CpuFits
<1>2. e \in 0 .. (setup.flEcs - 1) /\ e + setup.raEcs = setup.raEcs + e
  BY <1>1
<1> QED
  BY <1>1, <1>2 DEF EcsField

\* Of words of central memory, one by one.
LEMMA WrittenRuns ==
    ASSUME CpuFits, NEW e \in Nat, NEW c \in Address, NEW n \in Nat, e + n <= setup.flEcs
    PROVE  \E g \in [0 .. n -> Transfers] :
               /\ g[0] = [ecs |-> ecs, flags |-> ecsFlagRegister, failed |-> FALSE]
               /\ g[n] = Written(e + setup.raEcs, c, n)
               /\ \A k \in 0 .. (n - 1) :
                     g[k + 1] = IF g[k].failed THEN g[k]
                                ELSE EcsWritten(g[k], e + setup.raEcs + k,
                                                cm[BlockWord(c, k)])
<1> DEFINE ea == e + setup.raEcs
           word(k) == cm[BlockWord(c, k - 1)]
           start == [ecs |-> ecs, flags |-> ecsFlagRegister, failed |-> FALSE]
           F == [k \in 1 .. n |-> [s \in Transfers |->
                    IF s.failed THEN s ELSE EcsWritten(s, ea + k - 1, word(k))]]
           after == CHOOSE f : f = [k \in 0 .. n |->
                       IF k = 0 THEN start
                       ELSE IF f[k - 1].failed THEN f[k - 1]
                       ELSE EcsWritten(f[k - 1], ea + k - 1, word(k))]
<1>1. setup.raEcs \in Nat /\ setup.flEcs \in Nat /\ setup.raCm \in Nat /\ setup.cmSize \in Nat \ {0}
  BY SetupIs DEF CpuFits
<1>2. \A k \in Int : word(k) \in Word
  <2> DEFINE sum == Add(Counts, setup.raCm, c)
             d == setup.cmSize
             R == Ring
  <2>1. sum \in Int
    <3>1. c \in Nat
      BY AddressType
    <3>2. c \in Int /\ setup.raCm \in Int
      BY <1>1, <3>1
    <3> QED BY <3>2, Sizes, IntegerType
  <2>2. d \in Nat \ {0} /\ cm \in [0 .. (d - 1) -> Word] /\ R \in Nat \ {0} /\ R <= d
    BY <1>1, RingIs DEF CpuFits
  <2> HIDE DEF sum, d, R
  <2>3. ASSUME NEW k \in Int PROVE (sum + (k - 1)) % R \in 0 .. (d - 1)
    <3> DEFINE x == sum + (k - 1)
    <3>1. x \in Int
      BY <2>1
    <3> HIDE DEF x
    <3>2. x % R \in 0 .. (R - 1)
      BY <2>2, <3>1, QuotientType
    <3> QED BY <2>2, <3>2 DEF x
  <2>4. \A k \in Int : cm[(sum + (k - 1)) % R] \in Word
    BY <2>2, <2>3
  <2> QED BY <2>4 DEF sum, d, R, BlockWord
<1>3. \A k \in 1 .. n : ea + k - 1 \in EcsField /\ ea + k - 1 \in Nat
  <2>1. ASSUME NEW k \in 1 .. n PROVE ea + k - 1 \in EcsField /\ ea + k - 1 \in Nat
    <3>1. e + (k - 1) \in Nat /\ e + (k - 1) < setup.flEcs /\ ea + k - 1 = (e + (k - 1)) + setup.raEcs
      BY <1>1
    <3> QED BY <3>1, EcsFieldIs
  <2> QED BY <2>1
<1>4. start \in Transfers
  BY TransferIs
<1> HIDE DEF ea, word, start
<1>5. F \in [1 .. n -> [Transfers -> Transfers]]
  <2>1. ASSUME NEW k \in 1 .. n, NEW s \in Transfers
        PROVE  (IF s.failed THEN s ELSE EcsWritten(s, ea + k - 1, word(k))) \in Transfers
    <3>1. word(k) \in Word
      BY <1>2
    <3>2. EcsWritten(s, ea + k - 1, word(k)) \in Transfers
      BY <1>3, <3>1, EcsWrittenWithin
    <3> QED BY <3>2
  <2> QED BY <2>1
<1>6. \E f \in [0 .. n -> Transfers] :
          f = [k \in 0 .. n |-> IF k = 0 THEN start ELSE F[k][f[k - 1]]]
  <2> HIDE DEF F, after
  <2>1. F \in Steps(n, Transfers)
    BY <1>5 DEF Steps
  <2>2. \E f \in [0 .. n -> Transfers] : Follows(f, n, start, F)
    BY <1>4, <2>1, Repeats
  <2> QED BY <2>2 DEF Follows
<1>7. ASSUME NEW f \in [0 .. n -> Transfers],
             f = [k \in 0 .. n |-> IF k = 0 THEN start ELSE F[k][f[k - 1]]]
      PROVE  f = [k \in 0 .. n |->
                     IF k = 0 THEN start
                     ELSE IF f[k - 1].failed THEN f[k - 1]
                     ELSE EcsWritten(f[k - 1], ea + k - 1, word(k))]
  <2>1. ASSUME NEW k \in 0 .. n, k # 0
        PROVE  F[k][f[k - 1]] = IF f[k - 1].failed THEN f[k - 1]
                                ELSE EcsWritten(f[k - 1], ea + k - 1, word(k))
    <3>1. k \in 1 .. n /\ k - 1 \in 0 .. n
      BY <2>1
    <3>2. f[k - 1] \in Transfers
      BY <3>1
    <3> QED BY <3>1, <3>2
  <2>2. \A k \in 0 .. n : f[k] = IF k = 0 THEN start
                                 ELSE IF f[k - 1].failed THEN f[k - 1]
                                 ELSE EcsWritten(f[k - 1], ea + k - 1, word(k))
    <3> HIDE DEF F
    <3> QED BY <1>7, <2>1
  <2> HIDE DEF F
  <2> QED BY <2>2
<1>8. after = [k \in 0 .. n |->
                  IF k = 0 THEN start
                  ELSE IF after[k - 1].failed THEN after[k - 1]
                  ELSE EcsWritten(after[k - 1], ea + k - 1, word(k))]
  <2> HIDE DEF F
  <2> QED BY <1>6, <1>7
<1> HIDE DEF after
<1>9. \A k \in 0 .. n : after[k] \in Transfers
  <2> DEFINE T == {k \in Nat : k <= n => after[k] \in Transfers}
  <2>1. 0 \in T
    BY <1>4, <1>8
  <2>2. ASSUME NEW k \in Nat, k \in T PROVE k + 1 \in T
    <3> SUFFICES ASSUME k + 1 <= n PROVE after[k + 1] \in Transfers
      OBVIOUS
    <3>1. after[k] \in Transfers /\ k + 1 \in 1 .. n /\ k + 1 \in 0 .. n /\ (k + 1) - 1 = k
      BY <2>2
    <3>2. after[k + 1] = IF after[k].failed THEN after[k]
                         ELSE EcsWritten(after[k], ea + (k + 1) - 1, word(k + 1))
      <4>1. after[k + 1] = IF k + 1 = 0 THEN start
                           ELSE IF after[(k + 1) - 1].failed THEN after[(k + 1) - 1]
                           ELSE EcsWritten(after[(k + 1) - 1], ea + (k + 1) - 1, word(k + 1))
        <5> HIDE DEF T
        <5> QED BY <1>8, <3>1
      <4> QED BY <3>1, <4>1
    <3>3. word(k + 1) \in Word
      BY <1>2
    <3>4. EcsWritten(after[k], ea + (k + 1) - 1, word(k + 1)) \in Transfers
      BY <1>3, <3>1, <3>3, EcsWrittenWithin
    <3> QED BY <3>1, <3>2, <3>4
  <2>3. Nat \subseteq T
    <3> HIDE DEF T
    <3> QED BY <2>1, <2>2, Induction
  <2> QED BY <2>3
<1>10. Written(ea, c, n) = after[n]
  BY DEF Written, after, start, word
<1>11. ASSUME NEW k \in 0 .. (n - 1)
       PROVE  after[k + 1] = IF after[k].failed THEN after[k]
                             ELSE EcsWritten(after[k], ea + k, cm[BlockWord(c, k)])
  <2>1. ea \in Int
    BY <1>1 DEF ea
  <2>2. word(k + 1) = cm[BlockWord(c, (k + 1) - 1)]
    BY DEF word
  <2>3. ea + (k + 1) - 1 = ea + k /\ (k + 1) - 1 = k /\ k + 1 # 0 /\ k + 1 \in 0 .. n
    BY <2>1
  <2>4. word(k + 1) = cm[BlockWord(c, k)]
    BY <2>2, <2>3
  <2>5. after[k + 1] = IF after[k].failed THEN after[k]
                       ELSE EcsWritten(after[k], ea + k, word(k + 1))
    BY <1>8, <2>3, Zenon
  <2> QED BY <2>4, <2>5
<1>12. after \in [0 .. n -> Transfers] /\ after[0] = start
  BY <1>8, <1>9
<1> QED
  BY <1>10, <1>11, <1>12 DEF ea, start

LEMMA WrittenWithin ==
    ASSUME CpuFits, NEW e \in Nat, NEW c \in Address, NEW n \in Nat, e + n <= setup.flEcs
    PROVE  Written(e + setup.raEcs, c, n) \in Transfers
<1>1. PICK g \in [0 .. n -> Transfers] : g[n] = Written(e + setup.raEcs, c, n)
  BY WrittenRuns
<1> QED
  BY <1>1

LEMMA EcsAddressIs ==
    ASSUME CpuFits, NEW in \in CpuPrograms[setup.part]
    PROVE  EcsAddress(in) \in Nat
<1> DEFINE r == IF ToRegister(in) THEN in.k ELSE 0
           d == 2^EcsBits
<1>1. X(r) \in Int
  BY InstructionIs, ZeroRegister, WordIs DEF CpuFits, X
<1>2. d \in Nat \ {0}
  BY EcsAssumption, PowerType
<1> HIDE DEF d
<1>3. X(r) % d \in Nat
  <2> DEFINE x == X(r)
  <2>1. x \in Int
    BY <1>1
  <2> HIDE DEF x
  <2> QED BY <1>2, <2>1, RemainderType DEF x
<1> QED
  BY <1>3 DEF EcsAddress, d

LEMMA EcsWordType ==
    ASSUME CpuFits, NEW a \in Nat
    PROVE  EcsWord(a) \in Word
BY EcsSizeIs, WordIs DEF EcsWord, CpuFits

\* Words that come from ECS are within the field, whatever turn they take in memory.
LEMMA ReadWithin ==
    ASSUME CpuFits, FieldsFit, NEW e \in Nat, NEW c \in Address, NEW n \in Nat, c + n <= FlCm
    PROVE  Within(ReadWords(e, c, n))
<1> DEFINE start == Add(Counts, setup.raCm, c)
           d == setup.cmSize
           R == Ring
           target(a) == (a - start) % R
<1>1. setup.raCm \in Nat /\ d \in Nat \ {0} /\ c \in Nat /\ R \in Nat \ {0} /\ R <= d /\ FlCm \in Nat
  BY SetupIs, RingIs, AddressType DEF CpuFits, FlCm
<1>2. start \in Int
  <2>1. setup.raCm \in Int /\ c \in Int
    BY <1>1
  <2> QED BY <2>1, Sizes, IntegerType
<1>3. \A k \in Nat : k < n => (start + k) % R \in Field
  <2>1. ASSUME NEW k \in Nat, k < n PROVE BlockWord(c, k) \in Field
    <3>1. c + k < FlCm
      BY <1>1, <2>1
    <3> QED BY <1>1, <3>1, BlockWordIs
  <2> QED BY <2>1 DEF BlockWord
<1>4. DOMAIN cm = 0 .. (d - 1) /\ \A a \in 0 .. (d - 1) : cm[a] \in Word
  BY DEF CpuFits
<1> HIDE DEF start, d, R
<1>5. \A a \in 0 .. (d - 1) : target(a) \in 0 .. (R - 1)
  <2>1. ASSUME NEW a \in 0 .. (d - 1) PROVE target(a) \in 0 .. (R - 1)
    <3> DEFINE x == a - start
    <3>1. x \in Int
      BY <1>1, <1>2
    <3> HIDE DEF x
    <3> QED BY <1>1, <3>1, QuotientType DEF x
  <2> QED BY <2>1
<1>6. ASSUME NEW a \in 0 .. (d - 1), a < R, target(a) < n PROVE a \in Field
  <2> DEFINE t == target(a)
  <2>1. (start + t) % R = a
    <3>1. a \in 0 .. (R - 1)
      BY <1>1, <1>6
    <3> QED BY <1>1, <1>2, <3>1, ModBack
  <2>2. t \in Nat /\ t < n
    BY <1>1, <1>5, <1>6
  <2> HIDE DEF t
  <2> QED BY <1>3, <2>1, <2>2
<1>7. \A a \in 0 .. (d - 1) : EcsWord(e + target(a)) \in Word
  <2>1. ASSUME NEW a \in 0 .. (d - 1) PROVE EcsWord(e + target(a)) \in Word
    <3>1. e + target(a) \in Nat
      BY <1>1, <1>5
    <3> QED BY <3>1, EcsWordType
  <2> QED BY <2>1
<1> DEFINE m == [a \in 0 .. (d - 1) |-> IF a < R /\ target(a) < n THEN EcsWord(e + target(a)) ELSE cm[a]]
<1>8. ReadWords(e, c, n) = m
  BY <1>4 DEF ReadWords, start, R
<1> HIDE DEF target
<1>9. m \in [0 .. (d - 1) -> Word] /\ \A a \in (0 .. (d - 1)) \ Field : m[a] = cm[a]
  BY <1>4, <1>6, <1>7
<1> HIDE DEF m
<1> QED
  BY <1>4, <1>8, <1>9 DEF Within, d

\* Only P and central memory change.
LEMMA QuietStays ==
    ASSUME CpuFits, UNCHANGED setup, UNCHANGED <<regA, regB, regX, ecs>>, regP' \in Address, Within(cm')
    PROVE  StaysWithin
<1>1. /\ regA' \in [Regs -> Address] /\ regB' \in [Regs -> Address] /\ regX' \in [Regs -> Word]
      /\ EcsWithin(ecs')
  BY NothingWritten DEF CpuFits
<1> QED
  BY <1>1, AllStays

LEMMA AbortStays ==
    ASSUME CpuFits, UNCHANGED setup, NEW left, EcsAbort(left), UNCHANGED <<regA, regB>>
    PROVE  StaysWithin
<1>1. regP' \in Address
  <2>1. 0 \in Address
    BY Sizes DEF Address
  <2> QED BY <2>1, NothingWritten, InstructionEnds DEF EcsAbort
<1>2. UNCHANGED <<regX, ecs>> /\ Within(cm')
  BY NothingWritten DEF EcsAbort, memoryVars
<1> QED
  BY <1>1, <1>2, QuietStays

LEMMA AcceptedStays ==
    ASSUME CpuFits, Accepted
    PROVE  regP' \in Address /\ Within(cm')
<1>1. regP \in Address /\ Next18(regP) \in Address
  BY AddressType DEF CpuFits
<1> QED
  BY <1>1, NothingWritten, InstructionEnds DEF Accepted

LEMMA EcsRegisterStays ==
    ASSUME CpuFits, UNCHANGED setup, NEW in \in CpuPrograms[setup.part], UNCHANGED <<regA, regB>>,
           NEW e \in Nat, e + 1 <= setup.flEcs, EcsRegister(in, e + setup.raEcs)
    PROVE  StaysWithin
<1> DEFINE ea == e + setup.raEcs
           start == [ecs |-> ecs, flags |-> ecsFlagRegister, failed |-> FALSE]
           s == EcsWritten(start, ea, X(in.j))
<1>1. regP' \in Address /\ Within(cm')
  BY NothingWritten, InstructionEnds DEF EcsRegister
<1>2. setup.flEcs \in Nat /\ X(in.j) \in Word /\ in.j \in Regs
  BY SetupIs, InstructionIs DEF CpuFits, X
<1>3. ea \in EcsField /\ ea \in Nat
  BY <1>2, EcsFieldIs
<1>4. CASE in.op = "WXE"
  <2>1. ecs' = s.ecs /\ UNCHANGED regX
    BY <1>4 DEF EcsRegister
  <2>2. s \in Transfers
    <3> HIDE DEF start, ea
    <3>1. start \in Transfers
      BY TransferIs DEF start
    <3> QED BY <1>2, <1>3, <3>1, EcsWrittenWithin
  <2> HIDE DEF s
  <2>3. EcsWithin(ecs')
    BY <2>1, <2>2, TransferIs
  <2>4. regA' \in [Regs -> Address] /\ regB' \in [Regs -> Address] /\ regX' \in [Regs -> Word]
    BY <2>1 DEF CpuFits
  <2> QED BY <1>1, <2>3, <2>4, AllStays
<1>5. CASE in.op # "WXE"
  <2>1. regX' = [regX EXCEPT ![in.j] = EcsWord(ea)] /\ UNCHANGED ecs
    BY <1>5 DEF EcsRegister, ecsVars
  <2>2. EcsWord(ea) \in Word
    BY <1>3, EcsWordType
  <2> HIDE DEF ea
  <2>3. EcsWithin(ecs')
    BY <2>1, NothingWritten
  <2>4. regA' \in [Regs -> Address] /\ regB' \in [Regs -> Address] /\ regX' \in [Regs -> Word]
    BY <1>2, <2>1, <2>2 DEF CpuFits
  <2> QED BY <1>1, <2>3, <2>4, AllStays
<1> QED
  BY <1>4, <1>5

LEMMA EcsBlockStays ==
    ASSUME CpuFits, FieldsFit, UNCHANGED setup, NEW in \in CpuPrograms[setup.part],
           UNCHANGED <<regA, regB>>, NEW e \in Nat, NEW n \in Nat, e + n <= setup.flEcs,
           A(0) + n <= FlCm, EcsBlock(in, e + setup.raEcs, n)
    PROVE  StaysWithin
<1> DEFINE ea == e + setup.raEcs
           c == A(0)
<1>1. c \in Address /\ regP \in Address /\ Next18(regP) \in Address /\ ea \in Nat
  <2>1. c \in Address /\ regP \in Address
    BY ZeroRegister DEF CpuFits, A
  <2>2. ea \in Nat
    BY SetupIs DEF CpuFits
  <2> QED BY <2>1, <2>2, AddressType
<1>2. CASE /\ in.op = "WE"
           /\ ecs' = Written(ea, c, n).ecs
           /\ Accepted \/ Proceed(Left(in), cm)
           /\ UNCHANGED regX
  <2>1. Written(ea, c, n) \in Transfers
    BY <1>1, WrittenWithin
  <2>2. EcsWithin(ecs')
    BY <1>2, <2>1, TransferIs
  <2>3. regP' \in Address /\ Within(cm')
    BY <1>2, AcceptedStays, NothingWritten, InstructionEnds
  <2>4. regA' \in [Regs -> Address] /\ regB' \in [Regs -> Address] /\ regX' \in [Regs -> Word]
    BY <1>2 DEF CpuFits
  <2> QED BY <2>2, <2>3, <2>4, AllStays
<1>3. CASE /\ Proceed(Left(in), ReadWords(ea, c, n)) \/ GoTo(Next18(regP), ReadWords(ea, c, n))
           /\ UNCHANGED <<regX, ecs>>
  <2>1. Within(ReadWords(ea, c, n))
    <3> HIDE DEF ea, c
    <3>1. c + n <= FlCm
      BY DEF c
    <3> QED BY <1>1, <3>1, ReadWithin
  <2>2. regP' \in Address /\ Within(cm')
    <3> DEFINE m == ReadWords(ea, c, n)
    <3> HIDE DEF m
    <3> QED BY <1>1, <1>3, <2>1, InstructionEnds DEF m
  <2> QED BY <1>3, <2>2, QuietStays
<1>4. \/ /\ in.op = "WE" /\ ecs' = Written(ea, c, n).ecs
         /\ Accepted \/ Proceed(Left(in), cm)
         /\ UNCHANGED regX
      \/ /\ Proceed(Left(in), ReadWords(ea, c, n)) \/ GoTo(Next18(regP), ReadWords(ea, c, n))
         /\ UNCHANGED <<regX, ecs>>
  BY Zenon DEF EcsBlock, ecsVars
<1> QED
  BY <1>2, <1>3, <1>4

\* A transfer that is no flag function, within the limits or not.
LEMMA TransferParts ==
    ASSUME CpuFits, NEW in \in CpuPrograms[setup.part], EcsTransfer(in), ~FlagTransfer(in)
    PROVE  \/ EcsAbort(Left(in))
           \/ Accepted /\ UNCHANGED <<regX, ecsVars>>
           \/ \E n \in Nat :
                 /\ EcsAddress(in) + n <= setup.flEcs
                 /\ \/ ToRegister(in) /\ n = 1 /\ EcsRegister(in, EcsAddress(in) + setup.raEcs)
                    \/ A(0) + n <= FlCm /\ EcsBlock(in, EcsAddress(in) + setup.raEcs, n)
<1> DEFINE sum == IF ToRegister(in) THEN 1 ELSE Add(Counts, B(in.j), in.K)
           n == IF sum = Counts - 1 THEN 0 ELSE sum
           e == EcsAddress(in)
           outside == \/ Negative(Counts, n)
                      \/ ~ToRegister(in) /\ FlCm < A(0) + n
                      \/ setup.flEcs < e + n
<1>1. n \in Nat /\ (ToRegister(in) => n = 1)
  <2>1. B(in.j) \in Address /\ in.K \in Address
    BY InstructionIs DEF CpuFits, B
  <2>2. Add(Counts, B(in.j), in.K) \in Address
    BY <2>1, AddressType
  <2>3. Add(Counts, B(in.j), in.K) \in Nat /\ Counts > 2
    <3>1. CoeffBits \in Nat /\ CoeffBits >= 4 /\ CoeffBits < Counts
      BY Sizes, CpuArithmeticAssumption
    <3> QED BY <2>2, <3>1, Sizes, AddressType
  <2> QED BY <2>3, Sizes
<1>2. e \in Nat
  BY EcsAddressIs
<1>3. CASE ~EcsUsable(in)
  BY <1>3 DEF EcsTransfer
<1>4. CASE EcsUsable(in) /\ outside
  BY <1>4, Zenon DEF EcsTransfer
<1>5. CASE EcsUsable(in) /\ ~outside
  <2>1. IF ToRegister(in) THEN EcsRegister(in, e + setup.raEcs) ELSE EcsBlock(in, e + setup.raEcs, n)
    BY <1>5, Zenon DEF EcsTransfer
  <2>2. e + n <= setup.flEcs /\ (~ToRegister(in) => A(0) + n <= FlCm)
    <3> DEFINE a == A(0)
               f == setup.flEcs
    <3>1. a \in Nat /\ f \in Nat /\ FlCm \in Nat
      BY ZeroRegister, SetupIs, AddressType DEF CpuFits, A, FlCm
    <3>2. ~ (f < e + n) /\ (~ToRegister(in) => ~ (FlCm < a + n))
      BY <1>5
    <3> HIDE DEF a, f, n, e
    <3>3. e + n <= f /\ (~ToRegister(in) => a + n <= FlCm)
      BY <1>1, <1>2, <3>1, <3>2
    <3> QED BY <3>3 DEF a, f
  <2> HIDE DEF n
  <2> QED BY <1>1, <2>1, <2>2
<1> QED
  BY <1>3, <1>4, <1>5

LEMMA EcsTransferStays ==
    ASSUME CpuFits, FieldsFit, UNCHANGED setup, NEW in \in CpuPrograms[setup.part], EcsTransfer(in)
    PROVE  StaysWithin
<1> DEFINE e == EcsAddress(in)
<1>1. e \in Nat
  BY EcsAddressIs
<1>2. UNCHANGED <<regA, regB>>
  BY DEF EcsTransfer
<1>3. CASE FlagTransfer(in)
  <2>1. (Accepted \/ Proceed(Left(in), cm)) /\ UNCHANGED <<regX, ecs>>
    BY <1>3 DEF EcsTransfer, FlagTransfer
  <2>2. regP' \in Address /\ Within(cm')
    BY <2>1, AcceptedStays, NothingWritten, InstructionEnds
  <2> QED BY <1>2, <2>1, <2>2, QuietStays
<1>4. CASE EcsAbort(Left(in))
  BY <1>2, <1>4, AbortStays
<1>5. CASE Accepted /\ UNCHANGED <<regX, ecsVars>>
  <2>1. UNCHANGED <<regX, ecs>>
    BY <1>5 DEF ecsVars
  <2> QED BY <1>2, <1>5, <2>1, AcceptedStays, QuietStays
<1> HIDE DEF e
<1>6. ASSUME NEW n \in Nat, e + n <= setup.flEcs, n = 1, EcsRegister(in, e + setup.raEcs)
      PROVE  StaysWithin
  BY <1>1, <1>2, <1>6, EcsRegisterStays
<1>7. ASSUME NEW n \in Nat, e + n <= setup.flEcs, A(0) + n <= FlCm, EcsBlock(in, e + setup.raEcs, n)
      PROVE  StaysWithin
  BY <1>1, <1>2, <1>7, EcsBlockStays
<1> QED
  BY <1>3, <1>4, <1>5, <1>6, <1>7, TransferParts DEF e

-----------------------------------------------------------------------------
(* Compare and move. *)

\* A number with another digit y in the place of weight W, to the base P.
PutsDigit(v, x, W, P, y) == v \in Nat /\ v \div W = ((x \div W) \div P) * P + y /\ v % W = x % W

\* A digit of weight W in a word is exchanged for y.
LEMMA DigitPut ==
    ASSUME NEW Q \in Nat, NEW P \in Nat \ {0}, NEW W \in Nat \ {0},
           NEW x \in Nat, x < (Q * P) * W, NEW y \in 0 .. (P - 1)
    PROVE  LET v == x + (y - ((x \div W) % P)) * W
           IN  v \in Nat /\ v < (Q * P) * W /\ PutsDigit(v, x, W, P, y)
<1> DEFINE q == x \div W
           r == x % W
           h == q \div P
           k == q % P
           F == Q * P
           g == h * P + y
           v == g * W + r
<1>1. F \in Nat /\ x < F * W
  BY ProductOfNats
<1>2. q \in Nat /\ q < F /\ r \in 0 .. (W - 1) /\ x = q * W + r
  <2>1. x \in Int
    OBVIOUS
  <2> HIDE DEF F
  <2> QED BY <1>1, <2>1, Divided, QuotientBelow
<1> HIDE DEF q, r
<1>3. h \in Nat /\ h < Q /\ k \in 0 .. (P - 1) /\ q = h * P + k
  <2>1. q \in Int /\ q < Q * P
    BY <1>2 DEF F
  <2> QED BY <1>2, <2>1, Divided, QuotientBelow
<1> HIDE DEF h, k
<1>4. g \in Nat /\ g < F
  <2>1. h * P <= (Q - 1) * P
    <3>1. h \in Int /\ Q - 1 \in Int /\ h <= Q - 1
      BY <1>3
    <3> QED BY <3>1, ProductGrows
  <2>2. (Q - 1) * P = Q * P - 1 * P /\ 1 * P = P
    BY Distributes
  <2>3. h * P \in Nat
    BY <1>3, ProductOfNats
  <2> QED BY <1>1, <2>1, <2>2, <2>3
<1>5. g = q + (y - k)
  <2>1. h * P \in Int
    BY <1>3, ProductOfNats
  <2> QED BY <1>3, <2>1
<1> HIDE DEF g, F
<1>6. v \in Nat /\ v < F * W
  <2>1. g * W <= (F - 1) * W
    <3>1. g \in Int /\ F - 1 \in Int /\ g <= F - 1
      BY <1>1, <1>4
    <3> QED BY <3>1, ProductGrows
  <2>2. (F - 1) * W = F * W - 1 * W /\ 1 * W = W
    BY <1>1, Distributes
  <2>3. g * W \in Nat /\ F * W \in Nat
    BY <1>1, <1>4, ProductOfNats
  <2> QED BY <1>2, <2>1, <2>2, <2>3
<1>7. v = x + (y - k) * W
  <2>1. y - k \in Int
    BY <1>3
  <2>2. (q + (y - k)) * W = q * W + (y - k) * W
    BY <1>2, <2>1, Distributes
  <2>3. q * W \in Int /\ (y - k) * W \in Int
    BY <1>2, <2>1, ProductOfNats
  <2> QED BY <1>2, <1>5, <2>2, <2>3
<1>8. v \div W = g /\ v % W = r
  BY <1>2, <1>4, DividedIs
<1> HIDE DEF v
<1>9. PutsDigit(v, x, W, P, y)
  BY <1>6, <1>8 DEF PutsDigit, q, r, h, g
<1>10. v = x + (y - ((x \div W) % P)) * W
  BY <1>7 DEF q, k
<1>11. v \in Nat /\ v < (Q * P) * W
  BY <1>6 DEF F
<1> QED
  BY <1>9, <1>10, <1>11, Zenon

\* A character in its word: below it W values, of it P, above it Q.
LEMMA CharacterIs ==
    ASSUME NEW place \in Nat
    PROVE  /\ Weight(place) \in Nat \ {0} /\ 2^CharBits \in Nat \ {0}
           /\ \E Q \in Nat : Words = (Q * 2^CharBits) * Weight(place)
<1> DEFINE c == CharsPerWord
           b == CharBits
           r == place % c
           low == c - 1 - r
<1>1. c \in Nat \ {0} /\ WordBits \in Nat /\ WordBits % c = 0
  BY Sizes, CpuInstructionsAssumption
<1>2. b \in Nat /\ WordBits = b * c
  <2>1. b = WordBits \div c /\ WordBits \in Int
    BY <1>1 DEF CharBits
  <2> HIDE DEF c, b
  <2>2. WordBits \div c \in Nat
    BY <1>1, <2>1, QuotientType
  <2>3. WordBits = (WordBits \div c) * c + (WordBits % c)
    BY <1>1, <2>1, Divided
  <2>4. b * c \in Int
    BY <1>1, <2>1, <2>2, ProductOfNats
  <2> QED BY <1>1, <2>1, <2>2, <2>3, <2>4
<1> HIDE DEF b
<1>3. r \in 0 .. (c - 1)
  <2>1. place \in Int
    OBVIOUS
  <2> HIDE DEF c
  <2> QED BY <1>1, <2>1, QuotientType
<1> HIDE DEF r
<1>4. low \in Nat /\ c = (r + 1) + low
  <2> HIDE DEF c
  <2> QED BY <1>1, <1>3
<1> HIDE DEF low, c
<1>5. b * low \in Nat /\ b * r \in Nat
  <2>1. r \in Nat
    BY <1>1, <1>3
  <2> QED BY <1>2, <1>4, <2>1, ProductOfNats
<1>6. WordBits = (b * r + b) + b * low
  <2>1. b * ((r + 1) + low) = b * (r + 1) + b * low /\ b * (r + 1) = b * r + b * 1
    <3>1. r \in Int /\ low \in Int /\ r + 1 \in Int /\ b \in Int
      BY <1>1, <1>2, <1>3, <1>4
    <3> QED BY <3>1, Distributes
  <2>2. b * c = b * ((r + 1) + low) /\ b * 1 = b
    BY <1>2, <1>4
  <2> QED BY <1>2, <1>5, <2>1, <2>2
<1>7. 2^WordBits = (2^(b * r) * 2^b) * 2^(b * low)
  <2> DEFINE y == b * r
             z == b * low
  <2>1. y \in Nat /\ z \in Nat /\ y + b \in Nat /\ WordBits = (y + b) + z
    BY <1>2, <1>5, <1>6
  <2> HIDE DEF y, z
  <2>2. 2^((y + b) + z) = 2^(y + b) * 2^z /\ 2^(y + b) = 2^y * 2^b
    BY <1>2, <2>1, PowerAdds
  <2> QED BY <2>1, <2>2 DEF y, z
<1>8. Weight(place) = 2^(b * low) /\ 2^CharBits = 2^b
  BY DEF Weight, b, c, low, r
<1>9. 2^(b * low) \in Nat \ {0} /\ 2^b \in Nat \ {0} /\ 2^(b * r) \in Nat
  BY <1>2, <1>5, PowerType
<1> QED
  BY <1>7, <1>8, <1>9 DEF Words

LEMMA WeightIs == ASSUME NEW place \in Nat PROVE Weight(place) \in Nat \ {0} /\ 2^CharBits \in Nat \ {0}
BY CharacterIs

\* Characters.
Char == 0 .. (2^CharBits - 1)

LEMMA CharInType ==
    ASSUME CpuFits, NEW m \in [0 .. (setup.cmSize - 1) -> Word], NEW place \in Nat
    PROVE  CharIn(m, place) \in Char
<1> DEFINE q == place \div CharsPerWord
           d == setup.cmSize
           a == Add(Counts, q, setup.raCm)
           p == 2^CharBits
           w == Weight(place)
<1>1. d \in Nat \ {0} /\ setup.raCm \in Int /\ CharsPerWord \in Nat \ {0}
  BY SetupIs, CpuInstructionsAssumption DEF CpuFits
<1>2. q \in Int
  BY <1>1, QuotientType
<1> HIDE DEF q
<1>3. a \in Int
  BY <1>1, <1>2, Sizes, IntegerType
<1> HIDE DEF a
<1>4. a % d \in 0 .. (d - 1)
  <2> HIDE DEF d
  <2> QED BY <1>1, <1>3, QuotientType
<1>5. m[a % d] \in Int
  BY <1>4, WordIs
<1>6. w \in Nat \ {0} /\ p \in Nat \ {0}
  BY WeightIs
<1> DEFINE x == m[a % d]
<1> HIDE DEF x, w, p
<1>7. x \div w \in Int
  BY <1>5, <1>6, QuotientType DEF x
<1>8. (x \div w) % p \in 0 .. (p - 1)
  <2> DEFINE y == x \div w
  <2>1. y \in Int
    BY <1>7
  <2> HIDE DEF y
  <2> QED BY <1>6, <2>1, RemainderIs DEF y
<1> QED
  BY <1>8 DEF Char, CharIn, Absolute, x, w, p, a, q

\* Memories that come of central memory by writes within the field.
Memories == {m \in [0 .. (setup.cmSize - 1) -> Word] : \A a \in (DOMAIN cm) \ Field : m[a] = cm[a]}

LEMMA PutCharWithin ==
    ASSUME CpuFits, FieldsFit, NEW m \in Memories, NEW place \in Nat, InField(place), NEW char \in Char
    PROVE  PutChar(m, place, char) \in Memories
<1> DEFINE q == place \div CharsPerWord
           a == Absolute(q)
           v == m[a] + (char - CharIn(m, place)) * Weight(place)
<1>1. q \in Nat /\ q < FlCm
  <2>1. CharsPerWord \in Nat \ {0} /\ FlCm \in Nat
    BY SetupIs, CpuInstructionsAssumption DEF CpuFits, FlCm
  <2> QED BY <2>1, QuotientBelow DEF InField
<1> HIDE DEF q
<1>2. a \in Field /\ a \in 0 .. (setup.cmSize - 1)
  BY <1>1, AbsoluteIs
<1> HIDE DEF a
<1>3. v \in Word
  <2> DEFINE P == 2^CharBits
             W == Weight(place)
             x == m[a]
  <2>1. W \in Nat \ {0} /\ P \in Nat \ {0} /\ \E Q \in Nat : Words = (Q * P) * W
    BY CharacterIs
  <2>2. PICK Q \in Nat : Words = (Q * P) * W
    BY <2>1
  <2>3. x \in Word
    BY <1>2 DEF Memories
  <2>4. x \in Nat /\ x < Words /\ char \in 0 .. (P - 1)
    BY <2>3, Sizes DEF Word, Char
  <2>5. CharIn(m, place) = (x \div W) % P
    BY DEF CharIn, a, q
  <2>6. v = x + (char - CharIn(m, place)) * W
    OBVIOUS
  <2> HIDE DEF P, W, x, v
  <2>7. x < (Q * P) * W
    BY <2>2, <2>4
  <2>8. x + (char - ((x \div W) % P)) * W \in Nat /\ x + (char - ((x \div W) % P)) * W < (Q * P) * W
    BY <2>1, <2>4, <2>7, DigitPut, Zenon
  <2>9. v \in Nat /\ v < Words
    <3>1. v = x + (char - ((x \div W) % P)) * W
      BY <2>5, <2>6, Zenon
    <3>2. v \in Nat /\ v < (Q * P) * W
      BY <2>8, <3>1, Zenon
    <3> QED BY <2>2, <3>2
  <2> QED BY <2>9, Sizes DEF Word
<1> HIDE DEF v
<1>4. [m EXCEPT ![a] = v] \in Memories
  <2>1. m \in [0 .. (setup.cmSize - 1) -> Word] /\ \A b \in (DOMAIN cm) \ Field : m[b] = cm[b]
    BY DEF Memories
  <2>2. DOMAIN cm = 0 .. (setup.cmSize - 1)
    BY DEF CpuFits
  <2>3. [m EXCEPT ![a] = v] \in [0 .. (setup.cmSize - 1) -> Word]
    BY <1>3, <2>1
  <2>4. \A b \in (DOMAIN cm) \ Field : [m EXCEPT ![a] = v][b] = cm[b]
    BY <1>2, <2>1, <2>2
  <2> QED BY <2>3, <2>4 DEF Memories
<1>5. PutChar(m, place, char) = [m EXCEPT ![a] = v]
  BY DEF PutChar, a, q, v
<1> QED
  BY <1>4, <1>5

\* The first characters are those that can be reached.
LEMMA ReachedIs ==
    ASSUME NEW from \in Nat, NEW to \in Nat, NEW n \in Nat, FlCm * CharsPerWord \in Int
    PROVE  /\ Reached(from, to, n) \in 0 .. n
           /\ \A k \in Nat : k < Reached(from, to, n) => InField(from + k) /\ InField(to + k)
<1> DEFINE limit == FlCm * CharsPerWord
           S == {k \in 0 .. (n - 1) : InField(from + k) /\ InField(to + k)}
<1>1. limit \in Int /\ \A k : InField(k) <=> k < limit
  BY DEF InField
<1> HIDE DEF limit
<1>2. /\ IsFiniteSet(0 .. (n - 1)) /\ Cardinality(0 .. (n - 1)) = n
      /\ \A k \in Nat : IsFiniteSet(0 .. (k - 1)) /\ Cardinality(0 .. (k - 1)) = k
  <2>1. ASSUME NEW k \in Nat PROVE IsFiniteSet(0 .. (k - 1)) /\ Cardinality(0 .. (k - 1)) = k
    <3>1. CASE k = 0
      <4>1. 0 .. (k - 1) = {}
        BY <3>1
      <4>2. IsFiniteSet({}) /\ Cardinality({}) = 0
        BY FS_EmptySet
      <4> QED BY <3>1, <4>1, <4>2
    <3>2. CASE k > 0
      <4>1. k - 1 \in Int
        OBVIOUS
      <4> QED BY <3>2, <4>1, FS_Interval
    <3> QED BY <3>1, <3>2
  <2> QED BY <2>1
<1>3. S \subseteq 0 .. (n - 1)
  OBVIOUS
<1>4. IsFiniteSet(S) /\ Cardinality(S) <= n /\ Cardinality(S) \in Nat
  <2> HIDE DEF S
  <2> QED BY <1>2, <1>3, FS_Subset, FS_CardinalityType
<1>5. ASSUME NEW k \in Nat, k < Cardinality(S) PROVE k \in S
  <2> SUFFICES ASSUME k \notin S PROVE FALSE
    OBVIOUS
  <2>1. k \in 0 .. (n - 1)
    <3> HIDE DEF S
    <3> QED BY <1>4, <1>5
  <2>2. ASSUME NEW j \in S PROVE j < k
    BY <1>1, <2>1
  <2>3. S \subseteq 0 .. (k - 1)
    BY <2>2
  <2>4. Cardinality(S) <= k
    <3>1. IsFiniteSet(0 .. (k - 1)) /\ Cardinality(0 .. (k - 1)) = k
      BY <1>2
    <3> DEFINE U == 0 .. (k - 1)
    <3>2. IsFiniteSet(U) /\ Cardinality(U) = k /\ S \subseteq U
      BY <2>3, <3>1
    <3> HIDE DEF S, U
    <3>3. S \in SUBSET U
      BY <3>2
    <3> QED BY <3>2, <3>3, FS_Subset
  <2> HIDE DEF S
  <2> QED BY <1>4, <1>5, <2>4
<1>6. Reached(from, to, n) = Cardinality(S)
  BY DEF Reached
<1>7. \A k \in S : InField(from + k) /\ InField(to + k)
  OBVIOUS
<1> HIDE DEF S
<1> QED
  BY <1>4, <1>5, <1>6, <1>7

\* Characters are moved one by one.
LEMMA MovedRuns ==
    ASSUME CpuFits, FieldsFit, NEW from \in Nat, NEW to \in Nat, NEW n \in Nat,
           \A k \in Nat : k < n => InField(to + k)
    PROVE  \E g \in [0 .. n -> Memories] :
               /\ g[0] = cm /\ g[n] = Moved(from, to, n)
               /\ \A k \in 0 .. (n - 1) : g[k + 1] = PutChar(g[k], to + k, CharIn(g[k], from + k))
<1> DEFINE Body(k, m) == PutChar(m, to + k - 1, CharIn(m, from + k - 1))
           F == [k \in 1 .. n |-> [m \in Memories |-> Body(k, m)]]
           after == CHOOSE f : f = [k \in 0 .. n |-> IF k = 0 THEN cm ELSE Body(k, f[k - 1])]
<1>1. cm \in Memories
  BY DEF CpuFits, Memories
<1>2. \A k \in 1 .. n, m \in Memories : Body(k, m) \in Memories
  <2> SUFFICES ASSUME NEW k \in 1 .. n, NEW m \in Memories PROVE Body(k, m) \in Memories
    OBVIOUS
  <2>1. k - 1 \in Nat /\ k - 1 < n /\ to + k - 1 \in Nat /\ from + k - 1 \in Nat
        /\ to + k - 1 = to + (k - 1)
    OBVIOUS
  <2>2. InField(to + k - 1)
    BY <2>1
  <2>3. CharIn(m, from + k - 1) \in Char
    BY <2>1, CharInType DEF Memories
  <2> QED BY <2>1, <2>2, <2>3, PutCharWithin
<1>3. Moved(from, to, n) = after[n]
  BY DEF Moved
<1> HIDE DEF Body
<1>4. F \in Steps(n, Memories)
  BY <1>2 DEF Steps
<1>5. PICK f \in [0 .. n -> Memories] : Follows(f, n, cm, F)
  <2> HIDE DEF F
  <2> QED BY <1>1, <1>4, Repeats
<1>6. f = [k \in 0 .. n |-> IF k = 0 THEN cm ELSE Body(k, f[k - 1])]
  <2>1. ASSUME NEW k \in 0 .. n, k # 0 PROVE F[k][f[k - 1]] = Body(k, f[k - 1])
    <3>1. k \in 1 .. n /\ k - 1 \in 0 .. n
      BY <2>1
    <3>2. f[k - 1] \in Memories
      BY <3>1
    <3> QED BY <3>1, <3>2
  <2> HIDE DEF F
  <2>2. \A k \in 0 .. n : f[k] = IF k = 0 THEN cm ELSE Body(k, f[k - 1])
    BY <1>5, <2>1 DEF Follows
  <2> QED BY <2>2
<1>7. after = [k \in 0 .. n |-> IF k = 0 THEN cm ELSE Body(k, after[k - 1])]
  <2> HIDE DEF F
  <2> QED BY <1>6
<1> HIDE DEF after
<1> DEFINE T == {k \in Nat : k <= n => after[k] \in Memories}
<1>8. 0 \in T
  BY <1>1, <1>7
<1>9. ASSUME NEW k \in Nat, k \in T PROVE k + 1 \in T
  <2> SUFFICES ASSUME k + 1 <= n PROVE after[k + 1] \in Memories
    OBVIOUS
  <2>1. after[k] \in Memories /\ k + 1 \in 1 .. n /\ k + 1 \in 0 .. n /\ (k + 1) - 1 = k
    BY <1>9
  <2>2. after[k + 1] = Body(k + 1, after[k])
    <3> HIDE DEF T
    <3>1. k + 1 # 0
      OBVIOUS
    <3> QED BY <1>7, <2>1, <3>1
  <2> QED BY <1>2, <2>1, <2>2
<1>10. Nat \subseteq T
  <2> HIDE DEF T
  <2> QED BY <1>8, <1>9, Induction
<1>11. \A k \in 0 .. n : after[k] \in Memories
  BY <1>10
<1>12. after \in [0 .. n -> Memories] /\ after[0] = cm
  BY <1>7, <1>11
<1>13. ASSUME NEW k \in 0 .. (n - 1)
       PROVE  after[k + 1] = PutChar(after[k], to + k, CharIn(after[k], from + k))
  <2>1. k + 1 \in 0 .. n /\ k + 1 # 0 /\ (k + 1) - 1 = k
        /\ to + (k + 1) - 1 = to + k /\ from + (k + 1) - 1 = from + k
    OBVIOUS
  <2>2. after[k + 1] = Body(k + 1, after[k])
    BY <1>7, <2>1, Zenon
  <2> QED BY <2>1, <2>2, Zenon DEF Body
<1> QED
  BY <1>3, <1>12, <1>13

\* They stay within the field.
LEMMA MovedWithin ==
    ASSUME CpuFits, FieldsFit, NEW from \in Nat, NEW to \in Nat, NEW n \in Nat,
           \A k \in Nat : k < n => InField(to + k)
    PROVE  Moved(from, to, n) \in Memories
<1>1. PICK g \in [0 .. n -> Memories] : g[n] = Moved(from, to, n)
  BY MovedRuns
<1> QED
  BY <1>1

LEMMA CmuDoneStays ==
    ASSUME CpuFits, UNCHANGED setup, UNCHANGED <<regA, regB>>, UNCHANGED ecsVars,
           NEW error, NEW m \in Memories, NEW x0 \in Word, CmuDone(error, m, x0)
    PROVE  StaysWithin
<1>1. Within(m)
  BY DEF Memories, Within
<1>2. regP \in Address /\ Next18(regP) \in Address /\ 0 \in Address /\ 0 \in Regs
  BY ZeroRegister, Sizes, AddressType DEF CpuFits, Address
<1>3. CASE error /\ setup.exitMode
  <2>1. StopAt(0, 3) /\ cm' = Exited(m, regP) /\ UNCHANGED <<regX, ecs>>
    BY <1>3 DEF CmuDone, ecsVars
  <2>2. regP' \in Address
    BY <1>2, <2>1, NothingWritten, InstructionEnds
  <2>3. Within(cm')
    BY <1>1, <1>2, <2>1, ExitWithin
  <2> QED BY <2>1, <2>2, <2>3, QuietStays
<1>4. CASE ~ (error /\ setup.exitMode)
  <2>1. GoTo(Next18(regP), m) /\ regX' = [regX EXCEPT ![0] = x0] /\ UNCHANGED ecs
    BY <1>4 DEF CmuDone, ecsVars
  <2>2. regP' \in Address /\ Within(cm')
    BY <1>1, <1>2, <2>1, InstructionEnds
  <2>3. /\ regA' \in [Regs -> Address] /\ regB' \in [Regs -> Address] /\ regX' \in [Regs -> Word]
        /\ EcsWithin(ecs')
    BY <1>2, <2>1, NothingWritten DEF CpuFits
  <2> QED BY <2>2, <2>3, AllStays
<1> QED
  BY <1>3, <1>4

\* The fields of an instruction.
LEMMA CharactersAre ==
    ASSUME CpuFits, NEW in \in CpuPrograms[setup.part], in.op \in MoveOps \cup CompareOps
    PROVE  /\ From(in) \in Nat /\ To(in) \in Nat /\ in.n \in Nat /\ FlCm * CharsPerWord \in Int
<1>1. in.k1 \in Nat /\ in.c1 \in Nat /\ in.k2 \in Nat /\ in.c2 \in Nat /\ in.n \in Nat
  BY InstructionIs DEF CpuFits
<1>2. CharsPerWord \in Nat /\ FlCm \in Nat
  BY SetupIs, CpuInstructionsAssumption DEF CpuFits, FlCm
<1>3. in.k1 * CharsPerWord \in Nat /\ in.k2 * CharsPerWord \in Nat /\ FlCm * CharsPerWord \in Int
  <2> DEFINE a == in.k1
             b == in.k2
  <2>1. a \in Nat /\ b \in Nat
    BY <1>1
  <2> HIDE DEF a, b
  <2>2. a * CharsPerWord \in Nat /\ b * CharsPerWord \in Nat /\ FlCm * CharsPerWord \in Int
    BY <1>2, <2>1, ProductType
  <2> QED BY <2>2 DEF a, b
<1> QED
  BY <1>1, <1>3 DEF From, To

LEMMA CmuMoveStays ==
    ASSUME CpuFits, FieldsFit, UNCHANGED setup, NEW in \in CpuPrograms[setup.part], CmuMove(in)
    PROVE  StaysWithin
<1> DEFINE n == IF Illegal(in) THEN 0 ELSE Reached(From(in), To(in), in.n)
           m == Moved(From(in), To(in), n)
<1>1. in.op \in MoveOps /\ UNCHANGED <<regA, regB>> /\ UNCHANGED ecsVars
  BY DEF CmuMove
<1>2. From(in) \in Nat /\ To(in) \in Nat /\ in.n \in Nat /\ FlCm * CharsPerWord \in Int
  BY <1>1, CharactersAre
<1>3. n \in Nat /\ \A k \in Nat : k < n => InField(To(in) + k)
  <2>1. /\ Reached(From(in), To(in), in.n) \in Nat
        /\ \A k \in Nat : k < Reached(From(in), To(in), in.n) => InField(To(in) + k)
    <3> DEFINE N == in.n
               f == From(in)
               t == To(in)
    <3>1. N \in Nat /\ f \in Nat /\ t \in Nat
      BY <1>2
    <3> HIDE DEF N, f, t
    <3>2. Reached(f, t, N) \in 0 .. N /\ \A k \in Nat : k < Reached(f, t, N) => InField(t + k)
      BY <1>2, <3>1, ReachedIs
    <3>3. Reached(f, t, N) \in Nat
      BY <3>1, <3>2
    <3> QED BY <3>2, <3>3 DEF N, f, t
  <2> QED BY <2>1
<1>4. CmuDone(TRUE, cm, 0) \/ CmuDone(Illegal(in) \/ n < in.n, m, 0)
  BY Zenon DEF CmuMove
<1> HIDE DEF n
<1>5. cm \in Memories /\ m \in Memories
  <2>1. cm \in Memories
    BY DEF CpuFits, Memories
  <2> QED BY <1>2, <1>3, <2>1, MovedWithin
<1> DEFINE short == Illegal(in) \/ n < in.n
<1> HIDE DEF m, short
<1>6. CASE CmuDone(TRUE, cm, 0)
  <2> DEFINE error == TRUE
  <2>1. CmuDone(error, cm, 0)
    BY <1>6
  <2> HIDE DEF error
  <2> QED BY <1>1, <1>5, <2>1, WordIs, CmuDoneStays
<1>7. CASE CmuDone(short, m, 0)
  BY <1>1, <1>5, <1>7, WordIs, CmuDoneStays
<1> QED
  BY <1>4, <1>6, <1>7 DEF short

LEMMA CmuCompareStays ==
    ASSUME CpuFits, UNCHANGED setup, NEW in \in CpuPrograms[setup.part], CmuCompare(in)
    PROVE  StaysWithin
<1> DEFINE n == IF Illegal(in) THEN 0 ELSE Reached(From(in), To(in), in.n)
           chars(k) == <<CharIn(cm, From(in) + k), CharIn(cm, To(in) + k)>>
           ends == {k \in 0 .. (n - 1) : Ends(in.op = "CC", chars(k)[1], chars(k)[2])}
           k == Min(ends)
           missing == in.op = "CC" /\ TableMissing(chars(k)[1], chars(k)[2])
<1>1. in.op \in CompareOps /\ UNCHANGED <<regA, regB>> /\ UNCHANGED ecsVars
  BY DEF CmuCompare
<1>2. in.n \in Nat /\ in.n < Words /\ n \in Nat /\ n <= in.n
  <2>1. From(in) \in Nat /\ To(in) \in Nat /\ in.n \in Nat /\ FlCm * CharsPerWord \in Int
    BY <1>1, CharactersAre
  <2>2. in.n < Words
    BY <1>1, InstructionIs DEF CpuFits
  <2>3. Reached(From(in), To(in), in.n) \in 0 .. in.n
    <3> DEFINE N == in.n
               f == From(in)
               t == To(in)
    <3>1. N \in Nat /\ f \in Nat /\ t \in Nat
      BY <2>1
    <3> HIDE DEF N, f, t
    <3>2. Reached(f, t, N) \in 0 .. N
      BY <2>1, <3>1, ReachedIs
    <3> QED BY <3>2 DEF N, f, t
  <2> QED BY <2>1, <2>2, <2>3
<1>3. IF ends = {} THEN CmuDone(Illegal(in) \/ n < in.n, cm, 0)
      ELSE CmuDone(missing, cm, IF missing THEN 0 ELSE Comparison(in, k))
  BY Zenon DEF CmuCompare
<1>4. cm \in Memories
  BY DEF CpuFits, Memories
<1>5. ends # {} => k \in Nat /\ k < n
  <2>1. ends \in SUBSET Nat /\ \A e \in ends : e < n
    BY <1>2
  <2> HIDE DEF ends
  <2> SUFFICES ASSUME ends # {} PROVE k \in Nat /\ k < n
    OBVIOUS
  <2>2. Min(ends) \in ends
    BY <2>1, MinIs
  <2> QED BY <2>1, <2>2
<1> HIDE DEF n, ends, k, missing
<1>6. ends # {} => Comparison(in, k) \in Word
  <2> SUFFICES ASSUME ends # {} PROVE Comparison(in, k) \in Word
    OBVIOUS
  <2> DEFINE a == CharIn(cm, From(in) + k)
             b == CharIn(cm, To(in) + k)
             smaller == IF in.op = "CC" THEN CharIn(cm, Collating(a)) < CharIn(cm, Collating(b))
                        ELSE a < b
  <2>2. in.n - k \in Word
    BY <1>2, <1>5, Sizes DEF Word
  <2>3. Comparison(in, k) = Flip(smaller, in.n - k)
    BY Zenon DEF Comparison
  <2> HIDE DEF smaller
  <2>4. Flip(TRUE, in.n - k) \in Word /\ Flip(FALSE, in.n - k) \in Word
    <3> DEFINE w == in.n - k
    <3>1. w \in Word
      BY <2>2
    <3> HIDE DEF w
    <3>2. \A neg \in BOOLEAN : Flip(neg, w) \in Word
      BY <3>1, PartsType
    <3> QED BY <3>2 DEF w
  <2>5. Flip(smaller, in.n - k) \in {Flip(TRUE, in.n - k), Flip(FALSE, in.n - k)}
    BY DEF Flip
  <2> QED BY <2>3, <2>4, <2>5
<1>7. CASE ends = {}
  <2>1. CmuDone(Illegal(in) \/ n < in.n, cm, 0)
    BY <1>3, <1>7
  <2> QED BY <1>1, <1>4, <2>1, WordIs, CmuDoneStays
<1>8. CASE ends # {}
  <2> DEFINE x0 == IF missing THEN 0 ELSE Comparison(in, k)
  <2>1. CmuDone(missing, cm, x0)
    BY <1>3, <1>8
  <2>2. x0 \in Word
    BY <1>6, <1>8, WordIs
  <2> HIDE DEF x0
  <2> QED BY <1>1, <1>4, <2>1, <2>2, CmuDoneStays
<1> QED
  BY <1>7, <1>8

-----------------------------------------------------------------------------
(* An instruction. *)

LEMMA CpuStepStays ==
    ASSUME CpuFits, FieldsFit, UNCHANGED setup, NEW in \in CpuPrograms[setup.part], CpuStep(in)
    PROVE  StaysWithin
<1>1. CASE InvalidPacking(in)
  <2>1. UNCHANGED <<regP, regA, regB, regX, cm, ecs>>
    BY <1>1 DEF InvalidPacking, cpuRegisters, memoryVars
  <2>2. regP' \in Address /\ Within(cm')
    BY <2>1, NothingWritten DEF CpuFits
  <2> QED BY <2>1, <2>2, QuietStays
<1>2. CASE Execute(in)
  <2>1. CASE SetX(in)
    BY <2>1, SetXStays
  <2>2. CASE SetXB(in)
    BY <2>2, SetXBStays
  <2>3. CASE SetB(in)
    BY <2>3, SetBStays
  <2>4. CASE SetA(in)
    BY <2>4, SetAStays
  <2>5. CASE Jump(in)
    BY <2>5, JumpStays
  <2>6. CASE RJ(in)
    BY <2>6, RJStays
  <2>7. CASE PS(in) \/ Pass(in)
    BY <2>7, PassStays
  <2>8. CASE EcsTransfer(in)
    BY <2>8, EcsTransferStays
  <2>9. CASE CmuMove(in)
    BY <2>9, CmuMoveStays
  <2>10. CASE CmuCompare(in)
    BY <2>10, CmuCompareStays
  <2> QED
    BY <1>2, <2>1, <2>2, <2>3, <2>4, <2>5, <2>6, <2>7, <2>8, <2>9, <2>10 DEF Execute
<1> QED
  BY <1>1, <1>2 DEF CpuStep

-----------------------------------------------------------------------------
(* Peripheral processors. *)

\* A PP reckons as a CPU does.
LEMMA SameBits ==
    /\ \A n, a, b : Pp!And(n, a, b) = And(n, a, b) /\ Pp!Xor(n, a, b) = Xor(n, a, b)
    /\ \A M, a, b : /\ Pp!Add(M, a, b) = Add(M, a, b) /\ Pp!Subtract(M, a, b) = Subtract(M, a, b)
                    /\ Pp!Complement(M, a) = Complement(M, a)
<1>1. \A n, a : Pp!Bits(n, a) = Bits(n, a)
  BY DEF Pp!Bits, Bits
<1>2. \A s : Pp!OfBits(s) = OfBits(s)
  BY Zenon DEF Pp!OfBits, OfBits, Pp!MapThenSumSet, Pp!MapThenFoldSet, MapThenSumSet, MapThenFoldSet
<1>3. \A n, a, b : Pp!And(n, a, b) = And(n, a, b) /\ Pp!Xor(n, a, b) = Xor(n, a, b)
  BY <1>1, <1>2, Zenon DEF Pp!And, And, Pp!Xor, Xor
<1> QED
  BY <1>3, Zenon DEF Pp!Add, Add, Pp!Subtract, Subtract, Pp!Complement, Complement

LEMMA PpSizes ==
    /\ {DBits, CellBits, Pp!ABits} \subseteq Nat /\ {Pp!Ds, Pp!Cells, Pp!As} \subseteq Nat \ {0}
    /\ CellsPerWord \in Nat \ {0} /\ Pp!D \subseteq Pp!Cell /\ 0 \in Pp!Cell
<1>1. DBits \in Nat /\ CellBits \in Nat /\ DBits <= CellBits /\ CellsPerWord \in Nat \ {0}
  BY ProcessorsAssumption
<1>2. Pp!ABits \in Nat
  BY <1>1 DEF Pp!ABits
<1>3. Pp!Ds \in Nat \ {0} /\ Pp!Cells \in Nat \ {0} /\ Pp!As \in Nat \ {0}
  BY <1>1, <1>2, PowerType DEF Pp!Ds, Pp!Cells, Pp!As
<1>4. Pp!Ds <= Pp!Cells
  BY <1>1, PowerGrows DEF Pp!Ds, Pp!Cells
<1>5. Pp!D \subseteq Pp!Cell /\ 0 \in Pp!Cell
  BY <1>3, <1>4 DEF Pp!D, Pp!Cell
<1> QED
  BY <1>1, <1>2, <1>3, <1>5

\* What the registers and the memory of a PP hold.
Accumulator == 0 .. (Pp!As - 1)
PpFits == ppP \in Pp!Cell /\ ppA \in Accumulator /\ ppMem \in [Pp!Cell -> Pp!Cell]

\* A holds an operand of a cell with d, and P of the CPU.
LEMMA AccumulatorIs ==
    /\ Pp!As = Pp!Ds * Pp!Cells /\ Pp!As = Counts /\ Accumulator = Address
    /\ Pp!Cell \subseteq Accumulator /\ Pp!D \subseteq Accumulator /\ {0, 1} \subseteq Accumulator
    /\ \A a \in Accumulator : a \in Nat /\ a \in Int
<1>1. DBits \in Nat \ {0} /\ CellBits \in Nat /\ CellBits >= DBits /\ DBits + CellBits = AddressBits
  BY ProcessorsAssumption
<1>2. Pp!As = Pp!Ds * Pp!Cells
  BY <1>1, PowerAdds DEF Pp!As, Pp!Ds, Pp!Cells, Pp!ABits
<1>3. Pp!As = Counts
  BY <1>1 DEF Pp!As, Pp!ABits, Counts
<1>4. Pp!Cells <= Pp!As /\ Pp!Ds <= Pp!As
  <2>1. Pp!ABits \in Nat /\ CellBits <= Pp!ABits /\ DBits <= Pp!ABits
    BY <1>1 DEF Pp!ABits
  <2> QED BY <1>1, <2>1, PowerGrows DEF Pp!As, Pp!Cells, Pp!Ds
<1>5. 1 < Pp!As
  <2>1. Pp!ABits \in Nat \ {0}
    BY <1>1 DEF Pp!ABits
  <2>2. Pp!ABits < Pp!As
    BY <2>1, PowerExceeds DEF Pp!As
  <2> QED BY <2>1, <2>2, PpSizes
<1>6. /\ Pp!Cell \subseteq Accumulator /\ Pp!D \subseteq Accumulator /\ {0, 1} \subseteq Accumulator
      /\ \A a \in Accumulator : a \in Nat /\ a \in Int
  BY <1>4, <1>5, PpSizes DEF Pp!Cell, Pp!D, Accumulator
<1> QED
  BY <1>2, <1>3, <1>6 DEF Accumulator, Address

LEMMA CellType ==
    /\ \A a \in Pp!Cell : a \in Nat
    /\ \A x \in Int : x % Pp!Cells \in Pp!Cell
<1>1. Pp!Cells \in Nat \ {0}
  BY PpSizes
<1>2. \A x \in Int : x % Pp!Cells \in Nat /\ x % Pp!Cells < Pp!Cells
  <2> DEFINE c == Pp!Cells
  <2>1. c \in Nat \ {0}
    BY <1>1
  <2> HIDE DEF c
  <2>2. \A x \in Int : x % c \in Nat /\ x % c < c
    BY <2>1, RemainderType
  <2> QED BY <2>2 DEF c
<1> QED
  BY <1>1, <1>2 DEF Pp!Cell

LEMMA PpIncrementType == \A a \in Pp!Cell : Pp!PpIncrement(a) \in Pp!Cell
<1>1. ASSUME NEW a \in Pp!Cell PROVE Pp!PpIncrement(a) \in Pp!Cell
  <2>1. a + 1 \in Int
    BY CellType
  <2> QED BY <2>1, CellType DEF Pp!PpIncrement
<1> QED
  BY <1>1

LEMMA PpInstructionIs ==
    ASSUME NEW in \in Pp!Instructions
    PROVE  /\ in.d \in Pp!D /\ in.d \in Pp!Cell /\ in.mode \in {"N", "C", "D", "I", "M"}
           /\ in.op = "ST" \/ in.op \in Pp!Replaces => in.mode \in {"D", "I", "M"}
<1>1. /\ in.d \in Pp!D /\ in.mode \in {"N", "C", "D", "I", "M"}
      /\ in.op = "ST" \/ in.op \in Pp!Replaces => in.mode \in {"D", "I", "M"}
  BY DEF Pp!Instructions, Pp!Loads, Pp!Replaces
<1> QED
  BY <1>1, PpSizes

\* Addresses of operands.
LEMMA LocationType ==
    ASSUME PpFits, NEW d \in Pp!D
    PROVE  /\ Pp!Next \in Pp!Cell /\ Pp!Following \in Pp!Cell /\ ppMem[d] \in Pp!Cell
           /\ Pp!IndexLocation(d) \in Pp!Cell
<1>1. Pp!Next \in Pp!Cell /\ Pp!Following \in Pp!Cell /\ ppMem[d] \in Pp!Cell /\ d \in Nat
  BY PpSizes, PpIncrementType, CellType DEF PpFits, Pp!Next, Pp!Following
<1> DEFINE sum == (IF d = 0 THEN 0 ELSE ppMem[d]) + Pp!Following
<1>2. sum \in Nat
  BY <1>1, CellType
<1>3. Pp!IndexLocation(d) = IF sum >= Pp!Cells \/ sum = Pp!Cells - 1 THEN (sum + 1) % Pp!Cells ELSE sum
  BY DEF Pp!IndexLocation
<1> HIDE DEF sum
<1>4. (sum + 1) % Pp!Cells \in Pp!Cell
  <2>1. sum + 1 \in Int
    BY <1>2
  <2> QED BY <2>1, CellType
<1>5. ~ (sum >= Pp!Cells) => sum \in Pp!Cell
  BY <1>2, PpSizes DEF Pp!Cell
<1> QED
  BY <1>1, <1>3, <1>4, <1>5

LEMMA OperandType ==
    ASSUME PpFits, NEW in \in Pp!Instructions
    PROVE  /\ in.mode \in {"D", "I", "M"} => Pp!Location(in) \in Pp!Cell
           /\ Pp!Operand(in) \in Accumulator /\ Pp!Behind(in) \in Pp!Cell
<1>1. in.d \in Pp!D /\ in.d \in Pp!Cell /\ in.mode \in {"N", "C", "D", "I", "M"}
  BY PpInstructionIs
<1>2. /\ Pp!Next \in Pp!Cell /\ Pp!Following \in Pp!Cell /\ ppMem[in.d] \in Pp!Cell
      /\ Pp!IndexLocation(in.d) \in Pp!Cell
  BY <1>1, LocationType
<1>3. in.mode \in {"D", "I", "M"} => Pp!Location(in) \in Pp!Cell
  BY <1>1, <1>2 DEF Pp!Location
<1>4. in.mode \in {"D", "I", "M"} => ppMem[Pp!Location(in)] \in Pp!Cell
  BY <1>3 DEF PpFits
<1>5. in.d * Pp!Cells + Pp!Following \in Accumulator
  <2> DEFINE a == in.d
             b == Pp!Cells
             c == Pp!Following
             e == Pp!Ds
  <2>1. a \in Nat /\ a < e /\ e \in Nat /\ b \in Nat \ {0} /\ c \in 0 .. (b - 1)
    BY <1>1, <1>2, PpSizes DEF Pp!D, Pp!Cell
  <2>2. Accumulator = 0 .. (e * b - 1)
    BY AccumulatorIs DEF Accumulator
  <2> HIDE DEF a, b, c, e
  <2>3. a * b <= (e - 1) * b
    <3>1. a \in Int /\ e - 1 \in Int /\ a <= e - 1
      BY <2>1
    <3> QED BY <2>1, <3>1, ProductGrows
  <2>4. (e - 1) * b = e * b - 1 * b /\ 1 * b = b
    BY <2>1, Distributes
  <2>5. a * b \in Nat /\ e * b \in Nat
    BY <2>1, ProductOfNats
  <2>6. a * b + c \in 0 .. (e * b - 1)
    BY <2>1, <2>3, <2>4, <2>5
  <2> QED BY <2>2, <2>6 DEF a, b, c
<1>6. Pp!Operand(in) \in Accumulator
  BY <1>1, <1>4, <1>5, AccumulatorIs DEF Pp!Operand
<1>7. Pp!Behind(in) \in Pp!Cell
  BY <1>2, PpIncrementType DEF Pp!Behind
<1> QED
  BY <1>3, <1>6, <1>7

LEMMA NewAType ==
    ASSUME PpFits, NEW in \in Pp!Instructions, in.op \in Pp!Loads \cup Pp!Replaces
    PROVE  Pp!NewA(in) \in Accumulator
<1> DEFINE m == Pp!Operand(in)
           M == Pp!As
<1>1. /\ M \in Nat \ {0} /\ m \in 0 .. (M - 1) /\ ppA \in 0 .. (M - 1) /\ 1 \in 0 .. (M - 1)
      /\ Accumulator = 0 .. (M - 1)
  BY OperandType, PpSizes, AccumulatorIs DEF PpFits, Accumulator
<1> HIDE DEF m, M
<1>2. /\ Pp!Complement(M, m) \in Accumulator /\ Pp!Add(M, ppA, m) \in Accumulator
      /\ Pp!Subtract(M, ppA, m) \in Accumulator
      /\ Pp!Add(M, m, 1) \in Accumulator /\ Pp!Subtract(M, m, 1) \in Accumulator
  <2>1. /\ Complement(M, m) \in Accumulator /\ Add(M, ppA, m) \in Accumulator
        /\ Subtract(M, ppA, m) \in Accumulator
        /\ Add(M, m, 1) \in Accumulator /\ Subtract(M, m, 1) \in Accumulator
    BY <1>1, RegisterType
  <2> QED BY <2>1, SameBits
<1>3. \A a, b : Pp!And(Pp!ABits, a, b) \in Accumulator /\ Pp!Xor(Pp!ABits, a, b) \in Accumulator
  <2>1. Pp!ABits \in Nat /\ Accumulator = 0 .. (2^(Pp!ABits) - 1)
    BY PpSizes DEF Accumulator, Pp!As
  <2>2. \A a, b : {And(Pp!ABits, a, b), Or(Pp!ABits, a, b), Xor(Pp!ABits, a, b)} \subseteq Accumulator
    BY <2>1, BitsType
  <2>3. \A a, b : And(Pp!ABits, a, b) \in Accumulator /\ Xor(Pp!ABits, a, b) \in Accumulator
    BY <2>2, Zenon
  <2> QED BY <2>3, SameBits
<1>4. m \in Accumulator
  BY <1>1
<1> QED
  BY <1>2, <1>3, <1>4 DEF Pp!NewA, Pp!Loads, Pp!Replaces, m, M

\* What a PP leaves central memory and itself with.
PpLeaves == PpFits' /\ cm' \in [0 .. (setup.cmSize - 1) -> Word]

LEMMA LoadLeaves ==
    ASSUME CpuFits, PpFits, NEW in \in Pp!Instructions, Pp!Load(in)
    PROVE  PpLeaves
<1>1. Pp!NewA(in) \in Accumulator /\ Pp!Behind(in) \in Pp!Cell
  BY NewAType, OperandType DEF Pp!Load
<1> QED
  BY <1>1 DEF Pp!Load, PpLeaves, PpFits, CpuFits

LEMMA ReplaceLeaves ==
    ASSUME CpuFits, PpFits, NEW in \in Pp!Instructions, Pp!Replace(in) \/ Pp!Store(in)
    PROVE  PpLeaves
<1>1. in.mode \in {"D", "I", "M"}
  BY PpInstructionIs DEF Pp!Replace, Pp!Store
<1>2. Pp!Location(in) \in Pp!Cell /\ Pp!Behind(in) \in Pp!Cell
  BY <1>1, OperandType
<1>3. CASE Pp!Replace(in)
  <2>1. Pp!NewA(in) \in Accumulator
    BY <1>3, NewAType DEF Pp!Replace
  <2>2. Pp!NewA(in) % Pp!Cells \in Pp!Cell
    BY <2>1, CellType, AccumulatorIs
  <2> QED BY <1>2, <1>3, <2>1, <2>2 DEF Pp!Replace, PpLeaves, PpFits, CpuFits
<1>4. CASE Pp!Store(in)
  <2>1. ppA % Pp!Cells \in Pp!Cell
    BY CellType, AccumulatorIs DEF PpFits
  <2> QED BY <1>2, <1>4, <2>1 DEF Pp!Store, PpLeaves, PpFits, CpuFits
<1> QED
  BY <1>3, <1>4

\* A number that goes round: its upper end, below D, becomes the lower one.
LEMMA RotateIs ==
    ASSUME NEW U \in Nat \ {0}, NEW D \in Nat \ {0}, NEW a \in Nat, a < U * D
    PROVE  /\ (a * U) % (U * D) = (a % D) * U /\ a \div D \in 0 .. (U - 1)
           /\ (a % D) * U + (a \div D) \in 0 .. (U * D - 1)
<1> DEFINE q == a \div D
           r == a % D
           M == U * D
<1>1. M \in Nat \ {0} /\ M = D * U /\ a \in Int
  BY ProductOfNats
<1>2. q \in Nat /\ q < U /\ r \in 0 .. (D - 1) /\ a = q * D + r
  BY <1>1, Divided, QuotientBelow
<1> HIDE DEF q, r
<1>3. a * U = q * M + r * U
  <2>1. q * D \in Int /\ r * U \in Int /\ q * M \in Int
    BY <1>1, <1>2, ProductOfNats
  <2>2. (q * D + r) * U = (q * D) * U + r * U
    BY <1>2, <2>1, Distributes
  <2>3. (q * D) * U = q * (D * U)
    BY <1>2, Distributes
  <2> QED BY <1>1, <1>2, <2>2, <2>3
<1> HIDE DEF M
<1>4. r * U \in Nat /\ r * U <= M - U
  <2>1. r * U <= (D - 1) * U
    <3>1. r \in Int /\ D - 1 \in Int /\ r <= D - 1
      BY <1>2
    <3> QED BY <3>1, ProductGrows
  <2>2. (D - 1) * U = D * U - 1 * U /\ 1 * U = U
    BY Distributes
  <2>3. r * U \in Nat
    BY <1>2, ProductOfNats
  <2> QED BY <1>1, <2>1, <2>2, <2>3
<1>5. (q * M + r * U) % M = r * U
  <2> DEFINE x == r * U
  <2>1. x \in 0 .. (M - 1) /\ q \in Int
    BY <1>1, <1>2, <1>4
  <2> HIDE DEF x
  <2>2. (q * M + x) % M = x
    BY <1>1, <2>1, DividedIs
  <2> QED BY <2>2 DEF x
<1>6. r * U + q \in 0 .. (M - 1)
  BY <1>1, <1>2, <1>4
<1>7. (a * U) % M = r * U
  BY <1>3, <1>5
<1>8. q \in 0 .. (U - 1)
  BY <1>2
<1> QED
  BY <1>6, <1>7, <1>8 DEF M, q, r

LEMMA SHNLeaves ==
    ASSUME CpuFits, PpFits, NEW in \in Pp!Instructions, Pp!SHN(in)
    PROVE  PpLeaves
<1> DEFINE n == in.d % Pp!ABits
           up == 2^n
           down == 2^(Pp!ABits - n)
           off == 2^(Pp!Ds - 1 - in.d)
           M == Pp!As
<1>1. in.d \in Pp!D /\ in.d \in Nat /\ Pp!ABits \in Nat \ {0} /\ M \in Nat \ {0} /\ Pp!Ds - 1 - in.d \in Nat
  <2>1. in.d \in Pp!D
    BY PpInstructionIs
  <2>2. Pp!ABits \in Nat \ {0}
    BY ProcessorsAssumption DEF Pp!ABits
  <2> QED BY <2>1, <2>2, PpSizes DEF Pp!D
<1>2. n \in Nat /\ Pp!ABits - n \in Nat
  <2> DEFINE w == Pp!ABits
             d == in.d
  <2>1. w \in Nat \ {0} /\ d \in Int
    BY <1>1
  <2> HIDE DEF w, d
  <2>2. d % w \in 0 .. (w - 1)
    BY <2>1, QuotientType
  <2> QED BY <2>1, <2>2 DEF w, d
<1> HIDE DEF n
<1>3. up \in Nat \ {0} /\ down \in Nat \ {0} /\ off \in Nat \ {0} /\ M = up * down
  <2>1. M = 2^(n + (Pp!ABits - n))
    BY <1>1, <1>2 DEF Pp!As
  <2> QED BY <1>1, <1>2, <2>1, PowerType, PowerAdds
<1>4. ppA \in Nat /\ ppA < M
  BY AccumulatorIs DEF PpFits, Accumulator
<1>5. ppA' = IF 2 * in.d < Pp!Ds THEN ((ppA * up) % M) + (ppA \div down) ELSE ppA \div off
  BY DEF Pp!SHN, n, up, down, off, M
<1>6. Accumulator = 0 .. (M - 1)
  BY DEF Accumulator
<1> HIDE DEF up, down, off, M
<1>7. ((ppA * up) % M) + (ppA \div down) \in 0 .. (M - 1)
  <2>1. ppA < up * down
    BY <1>3, <1>4
  <2>2. /\ (ppA * up) % (up * down) = (ppA % down) * up
        /\ (ppA % down) * up + (ppA \div down) \in 0 .. (up * down - 1)
    BY <1>3, <1>4, <2>1, RotateIs
  <2> QED BY <1>3, <2>2
<1>8. ppA \div off \in 0 .. (M - 1)
  <2>1. ppA \div off \in Nat /\ ppA \div off <= ppA
    BY <1>3, <1>4, NatDivided
  <2> QED BY <1>1, <1>4, <2>1
<1>9. ppA' \in Accumulator
  BY <1>5, <1>6, <1>7, <1>8
<1> QED
  BY <1>1, <1>9, LocationType DEF Pp!SHN, PpLeaves, PpFits, CpuFits

LEMMA JumpLeaves ==
    ASSUME CpuFits, PpFits, NEW in \in Pp!Instructions,
           Pp!PSN(in) \/ Pp!RPN(in) \/ Pp!ShortJump(in) \/ Pp!LJM(in) \/ Pp!RJM(in)
    PROVE  PpLeaves
<1>1. in.d \in Pp!D
  BY PpInstructionIs
<1>2. Pp!Next \in Pp!Cell /\ Pp!IndexLocation(in.d) \in Pp!Cell
  BY <1>1, LocationType
<1>3. regP \in Accumulator
  BY AccumulatorIs DEF CpuFits
<1>4. Pp!PpAddOffset(in.d) \in Pp!Cell
  <2> DEFINE to == ppP + (IF 2 * in.d < Pp!Ds THEN in.d ELSE in.d - (Pp!Ds - 1))
  <2>1. ppP \in Int /\ in.d \in Int /\ Pp!Ds \in Int
    BY <1>1, CellType, PpSizes DEF PpFits
  <2>2. to \in Int
    BY <2>1
  <2>3. Pp!PpAddOffset(in.d) = IF to \in Pp!Cell THEN to ELSE (to + 1) % Pp!Cells
    BY DEF Pp!PpAddOffset
  <2> HIDE DEF to
  <2>4. to + 1 \in Int
    BY <2>2
  <2>5. (to + 1) % Pp!Cells \in Pp!Cell
    BY <2>4, CellType
  <2> QED BY <2>3, <2>5
<1>5. Pp!PpIncrement(Pp!Next) \in Pp!Cell /\ Pp!PpIncrement(Pp!IndexLocation(in.d)) \in Pp!Cell
  BY <1>2, PpIncrementType
<1>6. CASE Pp!PSN(in)
  BY <1>2, <1>6 DEF Pp!PSN, PpLeaves, PpFits, CpuFits
<1>7. CASE Pp!RPN(in)
  BY <1>2, <1>3, <1>7 DEF Pp!RPN, PpLeaves, PpFits, CpuFits
<1>8. CASE Pp!ShortJump(in)
  BY <1>2, <1>4, <1>8 DEF Pp!ShortJump, PpLeaves, PpFits, CpuFits
<1>9. CASE Pp!LJM(in)
  BY <1>2, <1>9 DEF Pp!LJM, PpLeaves, PpFits, CpuFits
<1>10. CASE Pp!RJM(in)
  BY <1>2, <1>5, <1>10 DEF Pp!RJM, PpLeaves, PpFits, CpuFits
<1> QED
  BY <1>6, <1>7, <1>8, <1>9, <1>10

\* Words between central memory and a PP.
LEMMA SameMax == \A S : Pp!Max(S) = Max(S)
BY Zenon DEF Pp!Max, Max

LEMMA SameCardinality == \A S : Pp!Cardinality(S) = Cardinality(S)
BY Zenon DEF Pp!Cardinality, Cardinality

LEMMA CmAddressType ==
    ASSUME CpuFits, NEW a \in Int
    PROVE  Pp!CmAddress(a) \in 0 .. (setup.cmSize - 1) /\ cm[Pp!CmAddress(a)] \in Word
<1> DEFINE d == setup.cmSize
           M == Pp!As
<1>1. d \in Nat \ {0} /\ M \in Nat \ {0} /\ cm \in [0 .. (d - 1) -> Word]
  BY SetupIs, PpSizes DEF CpuFits
<1>2. Cardinality(DOMAIN cm) = d
  <2>1. DOMAIN cm = 0 .. (d - 1)
    BY <1>1
  <2> HIDE DEF d
  <2>2. 0 \in Int /\ d - 1 \in Int /\ 0 <= d - 1
    BY <1>1
  <2>3. Cardinality(0 .. (d - 1)) = d
    BY <1>1, <2>2, FS_Interval
  <2> QED BY <2>1, <2>3
<1> HIDE DEF d, M
<1>3. a % M \in Int
  <2>1. a % M \in Nat
    BY <1>1, RemainderType
  <2> QED BY <2>1
<1>4. (a % M) % d \in 0 .. (d - 1)
  <2> DEFINE x == a % M
  <2>1. x \in Int
    BY <1>3
  <2> HIDE DEF x
  <2>2. x % d \in 0 .. (d - 1)
    BY <1>1, <2>1, QuotientType
  <2> QED BY <2>2 DEF x
<1>5. Pp!CmAddress(a) = (a % M) % d
  BY <1>2, SameCardinality DEF Pp!CmAddress, M
<1> QED
  BY <1>1, <1>4, <1>5 DEF d

LEMMA CellOfType ==
    ASSUME NEW w \in Int, NEW i \in 0 .. (CellsPerWord - 1)
    PROVE  Pp!CellOf(w, i) \in Pp!Cell
<1> DEFINE x == CellsPerWord - 1 - i
           p == 2^(CellBits * x)
<1>1. CellBits \in Nat /\ x \in Nat
  BY PpSizes
<1> HIDE DEF x
<1>2. CellBits * x \in Nat
  BY <1>1, ProductType
<1>3. p \in Nat \ {0}
  BY <1>2, PowerType
<1> HIDE DEF p
<1>4. w \div p \in Int
  BY <1>3, QuotientType
<1>5. (w \div p) % Pp!Cells \in Pp!Cell
  BY <1>4, CellType
<1> QED
  BY <1>5 DEF Pp!CellOf, p, x

LEMMA ReadToType ==
    ASSUME CpuFits, NEW m \in [Pp!Cell -> Pp!Cell], NEW at \in Nat, NEW a \in Int, NEW n \in Nat
    PROVE  Pp!ReadTo(m, at, a, n) \in [Pp!Cell -> Pp!Cell]
<1> DEFINE total == n * CellsPerWord
           word(k) == cm[Pp!CmAddress(a + k \div CellsPerWord)]
           at_(k) == (at + k) % Pp!Cells
           S(c) == {k \in 0 .. (total - 1) : at_(k) = c}
           hit == {at_(k) : k \in 0 .. (total - 1)}
<1>1. total \in Nat /\ CellsPerWord \in Nat \ {0}
  BY PpSizes, ProductType
<1> HIDE DEF total, at_
<1>2. ASSUME NEW c \in hit PROVE Max(S(c)) \in Nat
  <2>1. PICK k \in 0 .. (total - 1) : c = at_(k)
    OBVIOUS
  <2>2. k \in S(c) /\ S(c) \in SUBSET Nat /\ \A j \in S(c) : j <= total
    BY <1>1, <2>1
  <2> DEFINE T == S(c)
  <2>3. T # {} /\ T \in SUBSET Nat /\ \A j \in T : j <= total
    BY <2>2
  <2> HIDE DEF T, S, hit
  <2>4. Max(T) \in T
    BY <1>1, <2>3, Greatest
  <2>5. Max(T) \in Nat
    BY <2>3, <2>4
  <2> QED BY <2>5 DEF T
<1>3. ASSUME NEW k \in Nat PROVE Pp!CellOf(word(k), k % CellsPerWord) \in Pp!Cell
  <2>1. k \in Int
    OBVIOUS
  <2>2. k \div CellsPerWord \in Int /\ k % CellsPerWord \in 0 .. (CellsPerWord - 1)
    BY <1>1, <2>1, QuotientType
  <2> DEFINE q == k \div CellsPerWord
             r == k % CellsPerWord
  <2>3. q \in Int /\ r \in 0 .. (CellsPerWord - 1)
    BY <2>2
  <2> HIDE DEF q, r
  <2>4. a + q \in Int
    BY <2>3
  <2>5. cm[Pp!CmAddress(a + q)] \in Int
    BY <2>4, CmAddressType, WordIs
  <2>6. Pp!CellOf(cm[Pp!CmAddress(a + q)], r) \in Pp!Cell
    BY <2>3, <2>5, CellOfType
  <2> QED BY <2>6 DEF q, r
<1> HIDE DEF word
<1>4. \A c \in hit : Pp!CellOf(word(Max(S(c))), Max(S(c)) % CellsPerWord) \in Pp!Cell
  <2> HIDE DEF S, hit
  <2> QED BY <1>2, <1>3
<1>5. Pp!ReadTo(m, at, a, n) =
        [c \in Pp!Cell |-> IF c \in hit THEN Pp!CellOf(word(Max(S(c))), Max(S(c)) % CellsPerWord)
                           ELSE m[c]]
  BY SameMax, Zenon DEF Pp!ReadTo, total, at_, word
<1> HIDE DEF S, hit
<1> QED
  BY <1>4, <1>5

LEMMA WrittenFromType ==
    ASSUME CpuFits, NEW m \in [Pp!Cell -> Pp!Cell], NEW at \in Nat, NEW a, NEW n \in Nat
    PROVE  Pp!WrittenFrom(m, at, a, n) \in [0 .. (setup.cmSize - 1) -> Word]
<1> DEFINE S(w) == {k \in 0 .. (n - 1) : Pp!CmAddress(a + k) = w}
           hit == {Pp!CmAddress(a + k) : k \in 0 .. (n - 1)}
           last_(w) == Max(S(w))
<1>1. ASSUME NEW w \in hit PROVE last_(w) \in Nat
  <2>1. PICK k \in 0 .. (n - 1) : w = Pp!CmAddress(a + k)
    OBVIOUS
  <2> DEFINE T == S(w)
  <2>2. T # {} /\ T \in SUBSET Nat /\ \A j \in T : j <= n
    BY <2>1
  <2> HIDE DEF T, S, hit
  <2>3. Max(T) \in T
    BY <2>2, Greatest
  <2>4. Max(T) \in Nat
    BY <2>2, <2>3
  <2> QED BY <2>4 DEF T
<1>2. ASSUME NEW k \in Nat PROVE Pp!WordOfCells(m, at + k * CellsPerWord) \in Word
  <2>1. CellsPerWord \in Nat /\ CellBits \in Nat
    BY PpSizes
  <2>2. k * CellsPerWord \in Nat
    BY <2>1, ProductType
  <2>3. at + k * CellsPerWord \in Nat
    BY <2>2
  <2>4. Pp!WordOfCells(m, at + k * CellsPerWord) \in 0 .. (2^(CellBits * CellsPerWord) - 1)
    BY <2>1, <2>3, WordOfCellsType
  <2>5. CellBits * CellsPerWord = WordBits
    BY ProcessorsAssumption
  <2> QED BY <2>4, <2>5 DEF Word, Words
<1>3. Pp!WrittenFrom(m, at, a, n) =
        [w \in DOMAIN cm |-> IF w \in hit THEN Pp!WordOfCells(m, at + last_(w) * CellsPerWord) ELSE cm[w]]
  BY SameMax, Zenon DEF Pp!WrittenFrom
<1> HIDE DEF S, hit, last_
<1> QED
  BY <1>1, <1>2, <1>3 DEF CpuFits

LEMMA BlockLeaves ==
    ASSUME CpuFits, PpFits, NEW in \in Pp!Instructions,
           Pp!CRD(in) \/ Pp!CWD(in) \/ Pp!CRM(in) \/ Pp!CWM(in)
    PROVE  PpLeaves
<1> DEFINE n == ppMem[in.d]
           at == Pp!Following
<1>1. in.d \in Pp!D /\ in.d \in Pp!Cell
  BY PpInstructionIs
<1>2. Pp!Next \in Pp!Cell /\ at \in Pp!Cell /\ n \in Pp!Cell
  BY <1>1, LocationType
<1>3. at \in Nat /\ n \in Nat /\ in.d \in Nat /\ 1 \in Nat
  BY <1>1, <1>2, CellType
<1>4. Pp!Saved \in [Pp!Cell -> Pp!Cell] /\ ppMem \in [Pp!Cell -> Pp!Cell] /\ ppA \in Int
  BY <1>2, PpSizes, AccumulatorIs DEF PpFits, Pp!Saved
<1>5. (ppA + n) % Pp!As \in Accumulator
  <2> DEFINE x == ppA + n
             M == Pp!As
  <2>1. x \in Int /\ M \in Nat \ {0}
    BY <1>3, <1>4, PpSizes
  <2> HIDE DEF x, M
  <2>2. x % M \in 0 .. (M - 1)
    BY <2>1, RemainderIs
  <2> QED BY <2>2 DEF x, M, Accumulator
<1>6. CASE Pp!CRD(in)
  <2>1. ppMem' \in [Pp!Cell -> Pp!Cell]
    BY <1>3, <1>4, <1>6, ReadToType DEF Pp!CRD
  <2> QED BY <1>2, <1>6, <2>1 DEF Pp!CRD, PpLeaves, PpFits, CpuFits
<1>7. CASE Pp!CWD(in)
  <2>1. cm' \in [0 .. (setup.cmSize - 1) -> Word]
    BY <1>3, <1>4, <1>7, WrittenFromType DEF Pp!CWD
  <2> QED BY <1>2, <1>7, <2>1 DEF Pp!CWD, PpLeaves, PpFits
<1>8. CASE Pp!CRM(in)
  <2>1. ppMem' = Pp!ReadTo(Pp!Saved, at, ppA, n) /\ ppP' = Pp!PpIncrement(ppMem'[0])
        /\ ppA' = (ppA + n) % Pp!As /\ UNCHANGED cm
    BY <1>8 DEF Pp!CRM
  <2> HIDE DEF n, at
  <2>2. ppMem' \in [Pp!Cell -> Pp!Cell]
    BY <1>3, <1>4, <2>1, ReadToType
  <2>3. ppMem'[0] \in Pp!Cell
    BY <2>2, PpSizes
  <2>4. ppP' \in Pp!Cell
    BY <2>1, <2>3, PpIncrementType
  <2> QED BY <1>5, <2>1, <2>2, <2>4 DEF PpLeaves, PpFits, CpuFits
<1>9. CASE Pp!CWM(in)
  <2>1. cm' = Pp!WrittenFrom(Pp!Saved, at, ppA, n) /\ ppMem' = Pp!Saved
        /\ ppP' = Pp!PpIncrement(Pp!Next) /\ ppA' = (ppA + n) % Pp!As
    BY <1>9 DEF Pp!CWM
  <2> HIDE DEF n, at
  <2>2. cm' \in [0 .. (setup.cmSize - 1) -> Word]
    BY <1>3, <1>4, <2>1, WrittenFromType
  <2>3. ppP' \in Pp!Cell
    BY <1>2, <2>1, PpIncrementType
  <2> QED BY <1>4, <1>5, <2>1, <2>2, <2>3 DEF PpLeaves, PpFits
<1> QED
  BY <1>6, <1>7, <1>8, <1>9

LEMMA PpStepLeaves ==
    ASSUME CpuFits, PpFits, NEW in \in Pp!Instructions, Pp!PpStep(in)
    PROVE  PpLeaves
<1>1. CASE Pp!Load(in)
  BY <1>1, LoadLeaves
<1>2. CASE Pp!Replace(in) \/ Pp!Store(in)
  BY <1>2, ReplaceLeaves
<1>3. CASE Pp!SHN(in)
  BY <1>3, SHNLeaves
<1>4. CASE Pp!PSN(in) \/ Pp!RPN(in) \/ Pp!ShortJump(in) \/ Pp!LJM(in) \/ Pp!RJM(in)
  BY <1>4, JumpLeaves
<1>5. CASE Pp!CRD(in) \/ Pp!CWD(in) \/ Pp!CRM(in) \/ Pp!CWM(in)
  BY <1>5, BlockLeaves
<1> QED
  BY <1>1, <1>2, <1>3, <1>4, <1>5 DEF Pp!PpStep

-----------------------------------------------------------------------------
(* The DDP. *)

\* The channel and the DDP, and how far an address has come.
DdpFlags ==
    /\ chActive \in BOOLEAN /\ chFull \in BOOLEAN /\ discAfterInput \in BOOLEAN /\ selected \in BOOLEAN
    /\ fcode \in {"none", "read", "write", "status"} /\ stat \in {"accept", "abort"}

DdpNumbers ==
    /\ chData \in Pp!Cell /\ curword \in [1 .. CellsPerWord -> Pp!Cell]
    /\ addr \in Nat /\ abyte \in 0 .. 2 /\ dbyte \in Nat \cup {-1} /\ first \in -1 .. (2^EcsBits - 1)
    /\ sent \in Seq(Nat)
    /\ abyte = 0 => addr = 0
    /\ abyte = 1 => addr < Dp!Cells

DdpFits == DdpFlags /\ DdpNumbers

DdpLeaves == DdpFits' /\ ecs' \in [0 .. (setup.ecsSize - 1) -> Word]

LEMMA SameCardinalities == \A S : Dp!Cardinality(S) = Cardinality(S)
BY Zenon DEF Dp!Cardinality, Cardinality

LEMMA DdpSizes ==
    /\ Dp!Cells \in Nat \ {0} /\ CellBits \in Nat /\ CellsPerWord \in Nat \ {0}
    /\ Dp!Cells = Pp!Cells /\ Pp!Cell = 0 .. (2^CellBits - 1) /\ Pp!Cell = 0 .. (Dp!Cells - 1)
    /\ 2^EcsBits = Dp!Cells * Dp!Cells
    /\ Dp!Zero \in [1 .. CellsPerWord -> Pp!Cell]
    /\ \A x \in Int : x % Dp!Cells \in Pp!Cell
<1>1. CellBits \in Nat /\ CellsPerWord \in Nat \ {0} /\ EcsBits = CellBits + CellBits
  BY PpSizes, ProcessorsAssumption
<1>2. Dp!Cells \in Nat \ {0}
  BY <1>1, PowerType DEF Dp!Cells
<1>3. Dp!Cells = Pp!Cells /\ Pp!Cell = 0 .. (2^CellBits - 1) /\ Pp!Cell = 0 .. (Dp!Cells - 1)
  BY DEF Dp!Cells, Pp!Cells, Pp!Cell
<1>4. \A x \in Int : x % Dp!Cells \in Pp!Cell
  BY <1>3, CellType
<1>5. Dp!Zero \in [1 .. CellsPerWord -> Pp!Cell]
  BY PpSizes DEF Dp!Zero
<1>6. 2^EcsBits = Dp!Cells * Dp!Cells
  BY <1>1, PowerAdds DEF Dp!Cells
<1> QED
  BY <1>1, <1>2, <1>3, <1>4, <1>5, <1>6

LEMMA DdpShiftType ==
    ASSUME NEW cs \in [1 .. CellsPerWord -> Pp!Cell], NEW c \in Pp!Cell
    PROVE  Dp!Shift(cs, c) \in [1 .. CellsPerWord -> Pp!Cell] /\ cs[1] \in Pp!Cell
<1> DEFINE n == CellsPerWord
           S == Pp!Cell
<1>1. n \in Nat \ {0} /\ cs \in [1 .. n -> S] /\ c \in S
  BY DdpSizes
<1> HIDE DEF n, S
<1>2. cs \in Seq(S) /\ Len(cs) = n
  BY <1>1
<1>3. Tail(cs) \in Seq(S) /\ Len(Tail(cs)) = n - 1
  BY <1>1, <1>2
<1>4. Append(Tail(cs), c) \in Seq(S) /\ Len(Append(Tail(cs), c)) = n
  BY <1>1, <1>3
<1>5. Append(Tail(cs), c) \in [1 .. n -> S]
  <2> DEFINE s == Append(Tail(cs), c)
  <2>1. s \in Seq(S) /\ Len(s) = n
    BY <1>4
  <2> HIDE DEF s
  <2>2. s \in [1 .. Len(s) -> S]
    BY <2>1
  <2> QED BY <2>1, <2>2 DEF s
<1>6. cs[1] \in S
  <2>1. 1 \in 1 .. n
    BY <1>1
  <2> QED BY <1>1, <2>1, Zenon
<1> QED
  BY <1>5, <1>6 DEF Dp!Shift, n, S

LEMMA ToCellsType ==
    ASSUME NEW w \in Word PROVE Dp!ToCells(w) \in [1 .. CellsPerWord -> Pp!Cell]
<1> DEFINE p(i) == 2^(CellBits * (CellsPerWord - i))
<1>1. ASSUME NEW i \in 1 .. CellsPerWord PROVE (w \div p(i)) % Dp!Cells \in Pp!Cell
  <2> DEFINE x == CellsPerWord - i
  <2>1. x \in Nat /\ CellBits \in Nat
    BY DdpSizes
  <2> HIDE DEF x
  <2>2. CellBits * x \in Nat
    BY <2>1, ProductType
  <2> DEFINE d == 2^(CellBits * x)
  <2>3. d \in Nat \ {0} /\ w \in Int
    BY <2>2, PowerType, WordIs
  <2> HIDE DEF d
  <2>4. w \div d \in Int
    BY <2>3, QuotientType
  <2>5. (w \div d) % Dp!Cells \in Pp!Cell
    BY <2>4, DdpSizes
  <2> QED BY <2>5 DEF d, x
<1>2. Dp!ToCells(w) = [i \in 1 .. CellsPerWord |-> (w \div p(i)) % Dp!Cells]
  BY DEF Dp!ToCells
<1> HIDE DEF p
<1> QED
  BY <1>1, <1>2

LEMMA FromCellsType ==
    ASSUME NEW cs \in [1 .. CellsPerWord -> Pp!Cell] PROVE Dp!OfCells(cs) \in Word
<1>1. CellBits \in Nat /\ CellsPerWord \in Nat /\ cs \in [1 .. CellsPerWord -> 0 .. (2^CellBits - 1)]
  BY DdpSizes
<1>2. Dp!OfCells(cs) \in 0 .. (2^(CellBits * CellsPerWord) - 1)
  BY <1>1, OfCellsType
<1>3. CellBits * CellsPerWord = WordBits
  BY ProcessorsAssumption
<1> QED
  BY <1>2, <1>3 DEF Word, Words

\* The PP of the DDP.
LEMMA DriverLeaves ==
    ASSUME CpuFits, DdpFits, Driver
    PROVE  DdpLeaves
<1> USE DEF Dp!deviceVars, Dp!ddpHistory, Dp!EcsUnchanged
<1>1. ecs' = ecs
  BY DEF Driver, Dp!DdpFunction, Dp!MasterClear, Dp!PpActivates, Dp!PpPuts, Dp!PpTakes,
         Dp!PpDisconnects
<1>2. (3 * Len(sent) + 1) % Dp!Cells \in Pp!Cell
  <2>1. Len(sent) \in Nat
    BY DEF DdpFits, DdpNumbers
  <2>2. 3 * Len(sent) + 1 \in Int
    BY <2>1
  <2> QED BY <2>2, DdpSizes
<1>3. {0, 1, 4, 7} \subseteq Pp!Cell
  <2>1. 3 \in Nat /\ CellBits \in Nat /\ 3 <= CellBits /\ 2^3 = 8
    BY ProcessorsAssumption
  <2>2. 2^3 <= 2^CellBits
    BY <2>1, PowerGrows
  <2>3. 2^CellBits \in Nat
    BY <2>1, PowerType
  <2> QED BY <2>1, <2>2, <2>3, DdpSizes
<1>4. CASE \E code \in DdpFunctions[setup.part] : Dp!DdpFunction(code)
  <2>1. PICK code \in DdpFunctions[setup.part] : Dp!DdpFunction(code)
    BY <1>4
  <2>2. code \in {"read", "write", "status"}
    BY StartsAssumption DEF CpuFits
  <2>3. DdpFlags'
    BY <2>1, <2>2 DEF Dp!DdpFunction, DdpFits, DdpFlags
  <2>4. DdpNumbers'
    <3>1. /\ addr' = 0 /\ abyte' = 0 /\ dbyte' = 0 /\ first' = -1 /\ sent' = <<>>
          /\ UNCHANGED <<chData, curword>>
      BY <2>1 DEF Dp!DdpFunction
    <3>2. -1 \in -1 .. (2^EcsBits - 1) /\ <<>> \in Seq(Nat)
      <4>1. 2^EcsBits \in Nat
        BY EcsAssumption, PowerType
      <4> QED BY <4>1
    <3> QED BY <3>1, <3>2 DEF DdpFits, DdpNumbers
  <2> QED BY <1>1, <2>3, <2>4 DEF DdpLeaves, DdpFits, CpuFits
<1>5. CASE Dp!MasterClear \/ Dp!PpActivates \/ Dp!PpDisconnects
  <2>1. DdpFlags'
    BY <1>5 DEF Dp!MasterClear, Dp!PpActivates, Dp!PpDisconnects, DdpFits, DdpFlags
  <2>2. UNCHANGED <<addr, abyte, dbyte, first, sent, chData, curword>>
    BY <1>5 DEF Dp!MasterClear, Dp!PpActivates, Dp!PpDisconnects
  <2>3. DdpNumbers'
    BY <2>2 DEF DdpFits, DdpNumbers
  <2> QED BY <1>1, <2>1, <2>3 DEF DdpLeaves, DdpFits, CpuFits
<1>6. CASE \E c \in Pp!Cell : Dp!PpPuts(c)
  <2>1. DdpFlags'
    BY <1>6 DEF Dp!PpPuts, DdpFits, DdpFlags
  <2>2. UNCHANGED <<addr, abyte, dbyte, first, sent, curword>> /\ chData' \in Pp!Cell
    BY <1>6 DEF Dp!PpPuts
  <2>3. DdpNumbers'
    BY <2>2 DEF DdpFits, DdpNumbers
  <2> QED BY <1>1, <2>1, <2>3 DEF DdpLeaves, DdpFits, CpuFits
<1>7. CASE Dp!PpTakes
  <2>1. DdpFlags'
    <3>1. /\ chFull' = FALSE /\ discAfterInput' = FALSE
          /\ chActive' = ~discAfterInput /\ selected' = ~discAfterInput /\ UNCHANGED <<fcode, stat>>
      BY <1>7 DEF Dp!PpTakes
    <3>2. chActive' \in BOOLEAN /\ selected' \in BOOLEAN
      BY <3>1, Zenon
    <3> QED BY <3>1, <3>2 DEF DdpFits, DdpFlags
  <2>2. UNCHANGED <<addr, abyte, dbyte, first, sent, chData, curword>>
    BY <1>7 DEF Dp!PpTakes
  <2>3. DdpNumbers'
    BY <2>2 DEF DdpFits, DdpNumbers
  <2> QED BY <1>1, <2>1, <2>3 DEF DdpLeaves, DdpFits, CpuFits
<1>8. \/ \E code \in DdpFunctions[setup.part] : Dp!DdpFunction(code)
      \/ Dp!MasterClear \/ Dp!PpActivates \/ Dp!PpDisconnects
      \/ \E c \in Pp!Cell : Dp!PpPuts(c)
      \/ Dp!PpTakes
  <2>1. \/ \E code \in DdpFunctions[setup.part] : Dp!DdpFunction(code)
        \/ Dp!MasterClear \/ Dp!PpActivates \/ Dp!PpDisconnects
        \/ \E c \in {0, 1, 4, 7} : Dp!PpPuts(c)
        \/ \E c \in {0, 1} : Dp!PpPuts(c)
        \/ Dp!PpPuts((3 * Len(sent) + 1) % Dp!Cells)
        \/ Dp!PpTakes
    BY Zenon DEF Driver
  <2>2. 0 \in Pp!Cell /\ 1 \in Pp!Cell /\ 4 \in Pp!Cell /\ 7 \in Pp!Cell
    BY <1>3
  <2>3. \A c \in {0, 1, 4, 7} : c \in Pp!Cell
    BY <2>2
  <2> QED BY <1>2, <2>1, <2>2, <2>3, Zenon
<1> QED
  BY <1>4, <1>5, <1>6, <1>7, <1>8

\* The DDP itself.
LEMMA DdpIoLeaves ==
    ASSUME CpuFits, DdpFits, Dp!ddpIo
    PROVE  DdpLeaves
<1>1. DdpFlags /\ DdpNumbers /\ ecs \in [0 .. (setup.ecsSize - 1) -> Word] /\ setup.ecsSize \in Nat
  BY SetupIs DEF DdpFits, CpuFits
<1>2. CASE Dp!GiveStatus
  <2>1. DdpFlags'
    BY <1>1, <1>2 DEF Dp!GiveStatus, DdpFlags
  <2>2. DdpNumbers'
    <3>1. 1 \in Pp!Cell /\ 2 \in Pp!Cell
      <4>1. 3 <= CellBits /\ CellBits \in Nat
        BY ProcessorsAssumption
      <4>2. CellBits < 2^CellBits /\ 2^CellBits \in Nat
        BY <4>1, PowerExceeds, PowerType
      <4> QED BY <4>1, <4>2, DdpSizes
    <3>2. chData' \in {1, 2} /\ UNCHANGED <<addr, abyte, dbyte, first, sent, curword>>
      BY <1>2 DEF Dp!GiveStatus, Dp!ddpHistory
    <3> QED BY <1>1, <3>1, <3>2 DEF DdpNumbers
  <2>3. UNCHANGED ecs
    BY <1>2 DEF Dp!GiveStatus
  <2> QED BY <1>1, <2>1, <2>2, <2>3 DEF DdpLeaves, DdpFits, CpuFits
<1>3. CASE Dp!TakeAddress
  <2> DEFINE a == addr * Dp!Cells + chData
             complete == abyte = 1
             flag == complete /\ fcode = "read" /\ Dp!FlagReference(a)
             f == Dp!FlagFunction(ecsFlagRegister, a)
  <2>1. /\ a \in Nat /\ (abyte = 0 => a < Dp!Cells)
        /\ abyte = 1 => a < 2^EcsBits
    <3> DEFINE c == Dp!Cells
    <3>1. c \in Nat \ {0} /\ chData \in 0 .. (c - 1) /\ addr \in Nat /\ 2^EcsBits = c * c
          /\ (abyte = 0 => addr = 0) /\ (abyte = 1 => addr < c)
      BY <1>1, DdpSizes DEF DdpNumbers
    <3> HIDE DEF c
    <3>2. addr * c \in Nat /\ c * c \in Nat /\ (addr = 0 => addr * c = 0)
      BY <3>1, ProductOfNats
    <3>3. abyte = 1 => addr * c <= (c - 1) * c
      <4>1. c - 1 \in Int /\ addr \in Int /\ c \in Nat /\ (abyte = 1 => addr <= c - 1)
        BY <3>1
      <4> QED BY <4>1, ProductGrows
    <3>4. (c - 1) * c = c * c - 1 * c /\ 1 * c = c
      BY <3>1, Distributes
    <3>5. addr * c + chData \in Nat /\ (abyte = 0 => addr * c + chData < c)
      BY <3>1, <3>2
    <3>6. abyte = 1 => addr * c + chData < c * c
      BY <3>1, <3>2, <3>3, <3>4
    <3> QED BY <3>1, <3>5, <3>6 DEF c
  <2>2. /\ addr' = a /\ abyte' = abyte + 1 /\ abyte < 2 /\ chFull' = FALSE
        /\ first' = IF abyte = 1 THEN a ELSE first
        /\ UNCHANGED <<chActive, chData, selected, fcode, sent, ecs>>
    BY <1>3 DEF Dp!TakeAddress
  <2>3. /\ dbyte' \in {0, -1, dbyte} /\ curword' \in {Dp!Zero, curword}
        /\ stat' \in {stat, "accept", "abort"}
    BY <1>3 DEF Dp!TakeAddress
  <2>4. discAfterInput' \in BOOLEAN
    <3>1. discAfterInput' = (discAfterInput \/ ~f.ok) \/ discAfterInput' = discAfterInput
      BY <1>3, Zenon DEF Dp!TakeAddress
    <3>2. (discAfterInput \/ ~f.ok) \in BOOLEAN
      OBVIOUS
    <3>3. discAfterInput \in BOOLEAN
      BY <1>1 DEF DdpFlags
    <3> QED BY <3>1, <3>2, <3>3, Zenon
  <2> HIDE DEF a, f
  <2>5. DdpFlags'
    <3>1. stat' \in {"accept", "abort"}
      BY <1>1, <2>3 DEF DdpFlags
    <3> QED BY <1>1, <2>2, <2>4, <3>1 DEF DdpFlags
  <2>6. first' \in -1 .. (2^EcsBits - 1)
    <3>1. first \in -1 .. (2^EcsBits - 1) /\ 2^EcsBits \in Nat
      BY <1>1, EcsAssumption, PowerType DEF DdpNumbers
    <3> QED BY <2>1, <2>2, <3>1
  <2>7. dbyte' \in Nat \cup {-1} /\ curword' \in [1 .. CellsPerWord -> Pp!Cell]
    <3>1. curword \in [1 .. CellsPerWord -> Pp!Cell] /\ dbyte \in Nat \cup {-1}
      BY <1>1 DEF DdpNumbers
    <3>2. Dp!Zero \in [1 .. CellsPerWord -> Pp!Cell]
      BY DdpSizes
    <3>3. curword' \in [1 .. CellsPerWord -> Pp!Cell]
      BY <2>3, <3>1, <3>2, Zenon
    <3>4. dbyte' \in Nat \cup {-1}
      BY <2>3, <3>1
    <3> QED BY <3>3, <3>4
  <2>8. abyte' \in 0 .. 2 /\ abyte' # 0 /\ (abyte' = 1 => abyte = 0)
    BY <1>1, <2>2 DEF DdpNumbers
  <2>9. DdpNumbers'
    BY <1>1, <2>1, <2>2, <2>6, <2>7, <2>8 DEF DdpNumbers
  <2> QED BY <1>1, <2>2, <2>5, <2>9 DEF DdpLeaves, DdpFits
<1>4. CASE Dp!GiveCell
  <2> DEFINE fetch == dbyte = -1
             ok == addr < Dp!EcsSize
             w == IF fetch /\ ok THEN Dp!ToCells(ecs[addr]) ELSE curword
             n == (IF fetch THEN 0 ELSE dbyte) + 1
             whole == n = CellsPerWord
  <2>1. w \in [1 .. CellsPerWord -> Pp!Cell]
    <3>1. Dp!EcsSize = setup.ecsSize
      BY EcsSizeIs, SameCardinalities DEF Dp!EcsSize, EcsSize
    <3>2. ok => addr \in 0 .. (setup.ecsSize - 1)
      BY <1>1, <3>1 DEF DdpNumbers
    <3>3. ok => Dp!ToCells(ecs[addr]) \in [1 .. CellsPerWord -> Pp!Cell]
      BY <1>1, <3>2, ToCellsType
    <3> QED BY <1>1, <3>3 DEF DdpNumbers
  <2>2. /\ chData' = w[1] /\ curword' = Dp!Shift(w, 0) /\ addr' \in {addr + 1, addr}
        /\ UNCHANGED <<sent, first, abyte, ecs>> /\ abyte = 2
    <3>1. chData' = w[1] /\ curword' = Dp!Shift(w, 0)
      BY <1>4, Zenon DEF Dp!GiveCell
    <3>2. addr' \in {addr + 1, addr} /\ UNCHANGED <<sent, first, abyte, ecs>> /\ abyte = 2
      BY <1>4 DEF Dp!GiveCell, Dp!ddpHistory
    <3> QED BY <3>1, <3>2
  <2>3. dbyte' \in Nat \cup {-1}
    <3>1. dbyte \in Nat \cup {-1}
      BY <1>1 DEF DdpNumbers
    <3>2. n \in Nat
      BY <3>1
    <3>3. dbyte' = -1 \/ dbyte' = n
      BY <1>4, Zenon DEF Dp!GiveCell
    <3> QED BY <3>2, <3>3
  <2>4. DdpFlags'
    <3>1. discAfterInput' \in BOOLEAN
      <4>1. discAfterInput' = (\/ discAfterInput \/ (fetch /\ ~ok)
                               \/ (whole /\ (Dp!ReadOne(addr) \/ Dp!FlagReference(addr))))
        BY <1>4, Zenon DEF Dp!GiveCell
      <4>2. (\/ discAfterInput \/ (fetch /\ ~ok)
             \/ (whole /\ (Dp!ReadOne(addr) \/ Dp!FlagReference(addr)))) \in BOOLEAN
        OBVIOUS
      <4> QED BY <4>1, <4>2, Zenon
    <3>2. stat' \in {stat, "accept", "abort"} /\ chFull' = TRUE /\ UNCHANGED <<chActive, selected, fcode>>
      BY <1>4 DEF Dp!GiveCell
    <3>3. stat' \in {"accept", "abort"}
      BY <1>1, <3>2 DEF DdpFlags
    <3> QED BY <1>1, <3>1, <3>2, <3>3 DEF DdpFlags
  <2> HIDE DEF w
  <2>5. w[1] \in Pp!Cell /\ Dp!Shift(w, 0) \in [1 .. CellsPerWord -> Pp!Cell]
    <3>1. 0 \in Pp!Cell
      BY PpSizes
    <3> QED BY <2>1, <3>1, DdpShiftType
  <2>6. addr' \in Nat
    BY <1>1, <2>2 DEF DdpNumbers
  <2>7. DdpNumbers'
    BY <1>1, <2>2, <2>3, <2>5, <2>6 DEF DdpNumbers
  <2> QED BY <1>1, <2>2, <2>4, <2>7 DEF DdpLeaves, DdpFits
<1>5. CASE Dp!TakeCell
  <2> DEFINE w == Dp!Shift(curword, chData)
             v == Dp!OfCells(w)
             whole == dbyte + 1 = CellsPerWord
             abort == whole /\ addr >= Dp!EcsSize
  <2>1. w \in [1 .. CellsPerWord -> Pp!Cell]
    BY <1>1, DdpShiftType DEF DdpNumbers
  <2> HIDE DEF w
  <2>2. v \in Word
    BY <2>1, FromCellsType
  <2>3. /\ curword' = w /\ sent' = Append(sent, chData) /\ UNCHANGED <<chData, abyte, first>>
        /\ addr' \in {addr + 1, addr} /\ dbyte' \in {dbyte + 1, 0} /\ abyte = 2
        /\ ecs' = ecs \/ ecs' = [ecs EXCEPT ![addr] = v]
    BY <1>5 DEF Dp!TakeCell, w
  <2> HIDE DEF v
  <2>4. DdpFlags'
    <3>1. chActive' = ~abort /\ selected' \in {TRUE, ~abort}
      BY <1>5, Zenon DEF Dp!TakeCell
    <3>2. chActive' \in BOOLEAN /\ selected' \in BOOLEAN
      BY <3>1, Zenon
    <3>3. stat' \in {"accept", "abort"} /\ chFull' = FALSE /\ UNCHANGED <<discAfterInput, fcode>>
      BY <1>5 DEF Dp!TakeCell
    <3> QED BY <1>1, <3>2, <3>3 DEF DdpFlags
  <2>5. chData \in Nat
    BY <1>1, CellType DEF DdpNumbers
  <2>6. addr' \in Nat /\ sent' \in Seq(Nat) /\ dbyte' \in Nat \cup {-1}
    BY <1>1, <2>3, <2>5 DEF DdpNumbers
  <2>7. ecs' \in [0 .. (setup.ecsSize - 1) -> Word]
    BY <1>1, <2>2, <2>3
  <2>8. DdpNumbers'
    BY <1>1, <2>1, <2>3, <2>6 DEF DdpNumbers
  <2> QED BY <1>1, <2>4, <2>7, <2>8 DEF DdpLeaves, DdpFits
<1> QED
  BY <1>2, <1>3, <1>4, <1>5 DEF Dp!ddpIo

-----------------------------------------------------------------------------
(* The processors. *)

\* The inductive invariant: numbers where the processors reckon, addresses where they address.
NumbersFit == CpuFits /\ PpFits /\ DdpFits

LEMMA NumbersFitFirst == Init => NumbersFit
<1> SUFFICES ASSUME Init PROVE NumbersFit
  OBVIOUS
<1> DEFINE t == Starts[setup.part]
<1>1. setup \in Setups
  BY DEF Init
<1>2. /\ t.regA \subseteq [Regs -> Address] /\ t.regX \subseteq [Regs -> Word]
      /\ \A b \in t.regB : b \in [Regs -> Address]
      /\ t.cm \in [0 .. (setup.cmSize - 1) -> Word]
      /\ t.ppP \subseteq Pp!Cell /\ t.ppA \subseteq 0 .. (Pp!As - 1)
      /\ t.ppMem \subseteq [Pp!Cell -> Pp!Cell]
  BY <1>1, StartsAssumption
<1>3. CpuInit(t.regA, t.regB, t.regX, t.cm) /\ ppP \in t.ppP /\ ppA \in t.ppA /\ ppMem \in t.ppMem
  BY DEF Init
<1> HIDE DEF t
<1>4. 0 \in Address
  BY Sizes DEF Address
<1>5. CpuFits
  <2>1. ecs \in [0 .. (setup.ecsSize - 1) -> Word]
    <3>1. ecs = [a \in 0 .. (setup.ecsSize - 1) |-> Words - 1 - a]
      BY <1>3 DEF CpuInit
    <3>2. setup.ecsSize \in Nat /\ setup.ecsSize <= Words /\ Words \in Nat
      BY <1>1, SetupIs, Sizes
    <3>3. \A a \in 0 .. (setup.ecsSize - 1) : Words - 1 - a \in Word
      BY <3>2 DEF Word
    <3> QED BY <3>1, <3>3
  <2>2. regX \in [Regs -> Word] /\ cm \in [0 .. (setup.cmSize - 1) -> Word]
    BY <1>2, <1>3 DEF CpuInit
  <2>3. regP \in Address /\ regA \in [Regs -> Address] /\ regB \in [Regs -> Address]
    BY <1>2, <1>3, <1>4 DEF CpuInit
  <2> QED BY <1>1, <2>1, <2>2, <2>3 DEF CpuFits
<1>6. PpFits
  BY <1>2, <1>3 DEF PpFits, Accumulator
<1>7. DdpFits
  <2>1. Dp!DdpInit
    BY DEF Init
  <2>2. DdpFlags
    BY <2>1 DEF Dp!DdpInit, DdpFlags
  <2>3. DdpNumbers
    <3>1. -1 \in -1 .. (2^EcsBits - 1) /\ <<>> \in Seq(Nat)
      <4>1. 2^EcsBits \in Nat
        BY EcsAssumption, PowerType
      <4> QED BY <4>1
    <3>2. /\ chData = 0 /\ addr = 0 /\ abyte = 0 /\ dbyte = 0 /\ first = -1 /\ sent = <<>>
          /\ curword = Dp!Zero
      BY <2>1 DEF Dp!DdpInit
    <3>3. 0 \in Pp!Cell
      BY DdpSizes
    <3>4. curword \in [1 .. CellsPerWord -> Pp!Cell] /\ sent \in Seq(Nat) /\ first \in -1 .. (2^EcsBits - 1)
      BY <3>1, <3>2, DdpSizes, Zenon
    <3> QED BY <3>2, <3>3, <3>4 DEF DdpNumbers
  <2> QED BY <2>2, <2>3 DEF DdpFits
<1> QED
  BY <1>5, <1>6, <1>7 DEF NumbersFit

\* An instruction of the CPU stays within its field, and everything else leaves the CPU alone.
LEMMA NextFits ==
    ASSUME NumbersFit, FieldsFit, [Next]_vars
    PROVE  NumbersFit' /\ (StaysWithin \/ UNCHANGED cpuVars)
<1> USE DEF NumbersFit
<1>1. CASE Cpu
  <2>1. PICK in \in CpuPrograms[setup.part] : CpuStep(in)
    BY <1>1 DEF Cpu
  <2>2. UNCHANGED <<setup, ppVars, ddpVars>>
    BY <1>1 DEF Cpu
  <2>3. StaysWithin
    BY <2>1, <2>2, CpuStepStays
  <2>4. PpFits' /\ DdpFits'
    BY <2>2 DEF PpFits, DdpFits, DdpFlags, DdpNumbers, ppVars, ddpVars
  <2> QED BY <2>3, <2>4 DEF StaysWithin
<1>2. CASE Peripheral
  <2>1. PICK in \in PpPrograms[setup.part] : Pp!PpStep(in)
    BY <1>2 DEF Peripheral
  <2>2. UNCHANGED <<setup, cpuVars, ecsVars, ddpVars>>
    BY <1>2 DEF Peripheral
  <2>3. in \in Pp!Instructions
    BY StartsAssumption DEF CpuFits
  <2>4. PpLeaves
    BY <2>1, <2>3, PpStepLeaves
  <2>5. CpuFits' /\ DdpFits'
    BY <2>2, <2>4 DEF CpuFits, DdpFits, DdpFlags, DdpNumbers, PpLeaves, cpuVars, cpuRegisters, ecsVars, ddpVars
  <2> QED BY <2>2, <2>4, <2>5 DEF PpLeaves
<1>3. CASE Driver
  <2>1. UNCHANGED <<setup, cpuVars, cm, ppVars>>
    BY <1>3 DEF Driver
  <2>2. DdpLeaves
    BY <1>3, DriverLeaves
  <2>3. CpuFits' /\ PpFits'
    BY <2>1, <2>2 DEF CpuFits, PpFits, DdpLeaves, cpuVars, cpuRegisters, ppVars
  <2> QED BY <2>1, <2>2, <2>3 DEF DdpLeaves
<1>4. CASE DdpIo
  <2>1. UNCHANGED <<setup, cpuVars, cm, ppVars>>
    BY <1>4 DEF DdpIo
  <2>2. DdpLeaves
    BY <1>4, DdpIoLeaves DEF DdpIo
  <2>3. CpuFits' /\ PpFits'
    BY <2>1, <2>2 DEF CpuFits, PpFits, DdpLeaves, cpuVars, cpuRegisters, ppVars
  <2> QED BY <2>1, <2>2, <2>3 DEF DdpLeaves
<1>5. CASE UNCHANGED vars
  BY <1>5 DEF vars, CpuFits, PpFits, DdpFits, DdpFlags, DdpNumbers, cpuVars, cpuRegisters, memoryVars, ppVars, ddpVars
<1> QED
  BY <1>1, <1>2, <1>3, <1>4, <1>5 DEF Next

\* No instruction of the CPU writes central memory outside its field, nor ECS outside its own:
\* not a store, a return jump, an error exit, a transfer of a word or a block between central
\* memory and ECS, nor a move of characters, whatever the registers hold (cpuRegASemantics,
\* cpuEcsTransfer, cpuCmuMoveDirect, cpuFlError and cpOp01 of cpu.c).  The fields are those
\* an operating system sets: none passes the end of the addresses.
THEOREM CpuConfined == ASSUME FieldsFit PROVE Spec => Confined
<1>1. Init => NumbersFit
  BY NumbersFitFirst
<1>2. NumbersFit /\ [Next]_vars => NumbersFit'
  BY NextFits
<1>3. NumbersFit /\ [Next]_vars =>
        [/\ \A a \in DOMAIN cm \ Field : cm'[a] = cm[a]
         /\ \A a \in DOMAIN ecs \ EcsField : ecs'[a] = ecs[a]]_cpuVars
  BY NextFits DEF StaysWithin, Within, EcsWithin
<1> QED
  BY <1>1, <1>2, <1>3, PTL DEF Spec, Confined

-----------------------------------------------------------------------------
(***************************************************************************)
(* The flag register as a lock.                                            *)
(***************************************************************************)

\* What programs hold is set, and by one of them.
Locked ==
    /\ held = [who \in {"cpu", "ddp"} |-> held[who]]
    /\ held["cpu"] \cap held["ddp"] = {}
    /\ held["cpu"] \cup held["ddp"] \subseteq ecsFlagRegister

\* A cell that completes the address of a DDP clears no flag of the CPU's program; a status is
\* asked for before an address.
Careful ==
    /\ fcode = "status" => abyte = 0
    /\ abyte = 1 /\ chFull => Allowed("ddp", addr * Dp!Cells + chData)

\* The DDP knows ECS as the CPU does.
LEMMA SameFlags ==
    /\ \A a : Dp!Function(a) = Function(a) /\ Dp!FlagReference(a) = FlagReference(a)
    /\ \A a : Dp!FlagWord(a) = FlagWord(a)
    /\ \A f, a : Dp!FlagFunction(f, a) = FlagFunction(f, a)
<1>1. \A a : Dp!Function(a) = Function(a) /\ Dp!FlagReference(a) = FlagReference(a)
  BY Zenon DEF Dp!Function, Function, Dp!FlagReference, FlagReference
<1>2. \A n, a : Dp!Bits(n, a) = Bits(n, a)
  BY DEF Dp!Bits, Bits
<1>3. \A a : Dp!FlagWord(a) = FlagWord(a)
  BY <1>2, Zenon DEF Dp!FlagWord, FlagWord
<1>4. \A f, a : Dp!FlagFunction(f, a) = FlagFunction(f, a)
  BY <1>1, <1>3, Zenon DEF Dp!FlagFunction, FlagFunction
<1> QED
  BY <1>1, <1>3, <1>4

\* A flag function of a program that clears only what it took.
LEMMA ReferenceKeeps ==
    ASSUME Locked, NEW who \in {"cpu", "ddp"}, NEW a \in Int, FlagReference(a), Allowed(who, a),
           After(who, a), ecsFlagRegister' = FlagFunction(ecsFlagRegister, a).flags
    PROVE  Locked'
<1> DEFINE w == FlagWord(a)
           f == FlagFunction(ecsFlagRegister, a)
<1>1. Function(a) \in {4, 5, 6, 7}
  BY FunctionOfFlag
<1>2. CASE Function(a) = 4 /\ f.ok
  <2> DEFINE busy == ecsFlagRegister \cap w # {}
  <2>1. ecsFlagRegister \cap w = {} /\ ecsFlagRegister' = ecsFlagRegister \cup w
    <3>1. f = [ok |-> ~busy, flags |-> IF busy THEN ecsFlagRegister ELSE ecsFlagRegister \cup w]
      BY <1>2 DEF FlagFunction
    <3>2. ecsFlagRegister' = f.flags /\ f.ok
      BY <1>2
    <3> HIDE DEF f, w
    <3>3. ~busy
      BY <3>1, <3>2
    <3>4. f.flags = ecsFlagRegister \cup w
      BY <3>1, <3>3
    <3> QED BY <3>2, <3>3, <3>4
  <2> HIDE DEF w, f, busy
  <2>2. held' = [held EXCEPT ![who] = @ \cup w]
    BY <1>2 DEF After, w, f
  <2> QED BY <2>1, <2>2 DEF Locked
<1>3. CASE Function(a) = 7
  <2>1. w \subseteq held[who] /\ ecsFlagRegister' = ecsFlagRegister \ w
    BY <1>3 DEF FlagFunction, Allowed
  <2> HIDE DEF w, f
  <2>2. held' = [held EXCEPT ![who] = @ \ w]
    BY <1>3 DEF After, w, f
  <2> QED BY <2>1, <2>2 DEF Locked
<1>4. CASE ~ (Function(a) = 4 /\ f.ok) /\ Function(a) # 7
  <2>1. ecsFlagRegister \subseteq ecsFlagRegister'
    BY <1>1, <1>4 DEF FlagFunction
  <2> HIDE DEF w, f
  <2>2. held' = [held EXCEPT ![who] = @]
    BY <1>4 DEF After, w, f
  <2> QED BY <2>1, <2>2 DEF Locked
<1> QED
  BY <1>2, <1>3, <1>4

\* A transfer of words sets flags at most.
SetsFlags ==
    /\ ecsFlagRegister' \subseteq ecsFlagRegister \cup 0 .. (FlagBits - 1)
    /\ FlagsApart => ecsFlagRegister \subseteq ecsFlagRegister'

LEMMA TransferSets ==
    ASSUME CpuFits, NEW in \in CpuPrograms[setup.part], EcsTransfer(in), ~FlagTransfer(in)
    PROVE  SetsFlags
<1> USE DEF SetsFlags
<1> DEFINE e == EcsAddress(in)
           start == [ecs |-> ecs, flags |-> ecsFlagRegister, failed |-> FALSE]
<1>1. e \in Nat /\ setup.flEcs \in Nat
  BY EcsAddressIs, SetupIs DEF CpuFits
<1>2. CASE EcsAbort(Left(in))
  BY <1>2 DEF EcsAbort, memoryVars
<1>3. CASE Accepted /\ UNCHANGED <<regX, ecsVars>>
  BY <1>3 DEF ecsVars
<1> HIDE DEF e
<1>4. ASSUME NEW n \in Nat, e + n <= setup.flEcs, n = 1, EcsRegister(in, e + setup.raEcs)
      PROVE  SetsFlags
  <2> DEFINE ea == e + setup.raEcs
             s == EcsWritten(start, ea, X(in.j))
  <2>1. ea \in EcsField /\ ea \in Nat /\ X(in.j) \in Word /\ start \in Transfers
    <3>1. e < setup.flEcs
      BY <1>1, <1>4
    <3>2. X(in.j) \in Word
      BY InstructionIs DEF CpuFits, X
    <3> QED BY <1>1, <3>1, <3>2, EcsFieldIs, TransferIs DEF CpuFits
  <2>2. s \in Transfers
    <3> HIDE DEF ea, start
    <3> QED BY <2>1, EcsWrittenWithin
  <2>3. ecsFlagRegister' = s.flags \/ UNCHANGED ecsVars
    BY <1>4 DEF EcsRegister
  <2> HIDE DEF s
  <2> QED BY <2>2, <2>3, TransferIs DEF ecsVars
<1>5. ASSUME NEW n \in Nat, e + n <= setup.flEcs, A(0) + n <= FlCm, EcsBlock(in, e + setup.raEcs, n)
      PROVE  SetsFlags
  <2> DEFINE s == Written(e + setup.raEcs, A(0), n)
  <2>1. s \in Transfers
    <3>1. A(0) \in Address
      BY ZeroRegister DEF CpuFits, A
    <3> QED BY <1>1, <1>5, <3>1, WrittenWithin
  <2>2. ecsFlagRegister' = s.flags \/ UNCHANGED ecsVars
    BY <1>5, Zenon DEF EcsBlock
  <2> HIDE DEF s
  <2> QED BY <2>1, <2>2, TransferIs DEF ecsVars
<1> QED
  BY <1>2, <1>3, <1>4, <1>5, TransferParts DEF e

\* Other instructions leave the flags alone.
LEMMA OnlyTransfers ==
    ASSUME NEW in, CpuStep(in)
    PROVE  \/ EcsTransfer(in)
           \/ /\ ~ (in.op \in {"RE", "WE", "RXE", "WXE"} /\ FlagTransfer(in))
              /\ UNCHANGED ecsFlagRegister
<1>1. CASE Long(in) /\ parcels = 1
  <2>1. UNCHANGED ecsFlagRegister
    BY <1>1 DEF CpuStep, InvalidPacking, memoryVars
  <2>2. in.op \in {"RXE", "WXE"} => FALSE
    BY <1>1 DEF Long
  <2>3. ~ ToRegister(in) /\ Left(in) # 2 /\ in.op \in {"RE", "WE"} => ~ FlagTransfer(in)
    BY DEF FlagTransfer, EcsUsable
  <2>4. Left(in) # 2
    BY <1>1 DEF Left
  <2>5. in.op \in {"RE", "WE"} => ~ ToRegister(in)
    BY DEF ToRegister
  <2> QED BY <2>1, <2>2, <2>3, <2>4, <2>5
<1>2. CASE Execute(in) /\ ~ EcsTransfer(in)
  <2>1. /\ UNCHANGED ecsFlagRegister
        /\ in.op \notin {"RE", "WE", "RXE", "WXE"}
    BY <1>2 DEF Execute, SetX, SetXB, SetB, SetA, Jump, RJ, PS, Pass, CmuMove, CmuCompare, ecsVars,
                memoryVars, BooleanOps, ShiftOps, NumericOps, MoveOps, CompareOps
  <2> QED BY <2>1
<1> QED
  BY <1>1, <1>2 DEF CpuStep

\* An instruction of the CPU keeps the lock.
LEMMA CpuKeepsLock ==
    ASSUME CpuFits, FlagsApart, Locked, Cpu
    PROVE  Locked'
<1>1. PICK in \in CpuPrograms[setup.part] :
        /\ CpuStep(in)
        /\ IF in.op \in {"RE", "WE", "RXE", "WXE"} /\ FlagTransfer(in)
           THEN Allowed("cpu", EcsAddress(in)) /\ After("cpu", EcsAddress(in))
           ELSE UNCHANGED held
  BY Zenon DEF Cpu
<1> DEFINE e == EcsAddress(in)
<1>2. e \in Int
  BY EcsAddressIs
<1>3. CASE EcsTransfer(in) /\ FlagTransfer(in)
  <2>1. in.op \in {"RE", "WE", "RXE", "WXE"} /\ EcsUsable(in) /\ FlagReference(e)
    BY <1>3 DEF EcsTransfer, FlagTransfer
  <2>2. ecsFlagRegister' = FlagFunction(ecsFlagRegister, e).flags
    BY <1>3, <2>1 DEF EcsTransfer
  <2>3. Allowed("cpu", e) /\ After("cpu", e)
    BY <1>1, <1>3, <2>1
  <2> HIDE DEF e
  <2> QED BY <1>2, <2>1, <2>2, <2>3, ReferenceKeeps
<1>4. CASE EcsTransfer(in) /\ ~FlagTransfer(in)
  <2>1. ecsFlagRegister \subseteq ecsFlagRegister' /\ held' = held
    BY <1>1, <1>4, TransferSets DEF SetsFlags
  <2> QED BY <2>1 DEF Locked
<1>5. CASE UNCHANGED <<held, ecsFlagRegister>>
  BY <1>5 DEF Locked
<1> QED
  BY <1>1, <1>3, <1>4, <1>5, OnlyTransfers

\* So does the PP of the DDP, which sends no address that clears what it has not got.
LEMMA DriverKeepsLock ==
    ASSUME Locked, Careful, Driver
    PROVE  Locked' /\ Careful'
<1>1. UNCHANGED <<held, ecsFlagRegister>>
  BY DEF Driver, Dp!DdpFunction, Dp!MasterClear, Dp!PpActivates, Dp!PpPuts, Dp!PpTakes,
         Dp!PpDisconnects, Dp!EcsUnchanged
<1>2. Locked'
  BY <1>1 DEF Locked
<1>3. \A a : Allowed("ddp", a)' <=> Allowed("ddp", a)
  BY <1>1 DEF Allowed
<1>4. CASE \E code \in DdpFunctions[setup.part] : Dp!DdpFunction(code)
  <2>1. abyte' = 0
    BY <1>4 DEF Dp!DdpFunction
  <2> QED BY <1>2, <2>1 DEF Careful
<1>5. CASE Dp!MasterClear
  <2>1. ~ chFull' /\ fcode' # "status"
    BY <1>5 DEF Dp!MasterClear
  <2> QED BY <1>2, <2>1 DEF Careful
<1>6. CASE Dp!PpActivates \/ Dp!PpDisconnects
  <2>1. UNCHANGED <<chFull, chData, fcode, addr, abyte>>
    BY <1>6 DEF Dp!PpActivates, Dp!PpDisconnects, Dp!deviceVars
  <2> QED BY <1>1, <1>2, <2>1, Zenon DEF Careful, Allowed
<1>7. CASE Dp!PpTakes
  <2>1. ~ chFull' /\ UNCHANGED <<fcode, abyte>>
    BY <1>7 DEF Dp!PpTakes, Dp!deviceVars
  <2> QED BY <1>2, <2>1 DEF Careful
<1>8. ASSUME NEW c, Dp!PpPuts(c), abyte = 1 => Allowed("ddp", addr * Dp!Cells + c)
      PROVE  Careful'
  <2>1. chData' = c /\ UNCHANGED <<fcode, addr, abyte>>
    BY <1>8 DEF Dp!PpPuts, Dp!deviceVars
  <2> QED BY <1>3, <1>8, <2>1 DEF Careful
<1>9. Careful'
  BY <1>4, <1>5, <1>6, <1>7, <1>8 DEF Driver
<1> QED
  BY <1>2, <1>9

\* And the DDP.
LEMMA DdpIoKeepsLock ==
    ASSUME DdpFits, Locked, Careful, DdpIo
    PROVE  Locked' /\ Careful'
<1> DEFINE a == addr * Dp!Cells + chData
<1>1. a \in Int
  <2>1. addr * Dp!Cells \in Nat /\ chData \in Nat
    <3>1. addr \in Nat /\ chData \in Pp!Cell
      BY DEF DdpFits, DdpNumbers
    <3>2. chData \in Nat /\ Dp!Cells \in Nat
      BY <3>1, DdpSizes
    <3> QED BY <3>1, <3>2, ProductType
  <2> QED BY <2>1
<1>2. IF fcode = "read" /\ abyte = 1 /\ FlagReference(a) THEN After("ddp", a) ELSE UNCHANGED held
  BY DEF DdpIo
<1> HIDE DEF a
<1>3. CASE Dp!GiveStatus \/ Dp!GiveCell \/ Dp!TakeCell
  <2>1. UNCHANGED <<abyte, ecsFlagRegister>> /\ abyte # 1 /\ fcode' \in {fcode, "none"}
    <3>1. CASE Dp!GiveStatus
      BY <3>1 DEF Careful, Dp!GiveStatus
    <3>2. CASE Dp!GiveCell
      BY <3>2 DEF Dp!GiveCell
    <3>3. CASE Dp!TakeCell
      BY <3>3 DEF Dp!TakeCell
    <3> QED BY <1>3, <3>1, <3>2, <3>3
  <2>2. UNCHANGED held
    BY <1>2, <2>1
  <2> QED BY <2>1, <2>2 DEF Locked, Careful
<1>4. CASE Dp!TakeAddress
  <2>1. ~ chFull' /\ fcode' = fcode /\ fcode # "status" /\ chFull
    BY <1>4 DEF Dp!TakeAddress
  <2>2. Careful'
    BY <2>1 DEF Careful
  <2>3. CASE fcode = "read" /\ abyte = 1 /\ FlagReference(a)
    <3>1. ecsFlagRegister' = FlagFunction(ecsFlagRegister, a).flags
      BY <1>4, <2>3, SameFlags DEF Dp!TakeAddress, a
    <3>2. Allowed("ddp", a) /\ After("ddp", a)
      BY <1>2, <2>1, <2>3 DEF Careful, a
    <3>3. Locked'
      BY <1>1, <2>3, <3>1, <3>2, ReferenceKeeps
    <3> QED BY <2>2, <3>3
  <2>4. CASE ~ (fcode = "read" /\ abyte = 1 /\ FlagReference(a))
    <3>1. UNCHANGED ecsFlagRegister
      BY <1>4, <2>4, SameFlags DEF Dp!TakeAddress, a
    <3>2. UNCHANGED held
      BY <1>2, <2>4
    <3> QED BY <2>2, <3>1, <3>2 DEF Locked
  <2> QED BY <2>3, <2>4
<1> QED
  BY <1>3, <1>4 DEF DdpIo, Dp!ddpIo

\* Ready and select is a lock: no flag is held by two programs, that of the CPU and that of
\* the DDP's PP, and none that is held is cleared, whatever else they transfer and however
\* the DDP leaves off in the middle of an address (cpuEcsFlagRegister, cpuEcsTransfer,
\* cpuEcsAccess, ddpIo).  ECS fields end below the references that clear flags.
THEOREM FlagsExclude == ASSUME FieldsFit, FlagsApart PROVE Spec => []LockExclusive
<1> DEFINE Inv == NumbersFit /\ Locked /\ Careful
<1>1. Init => Inv
  BY NumbersFitFirst DEF Init, CpuInit, Dp!DdpInit, Locked, Careful
<1>2. ASSUME Inv, [Next]_vars PROVE Inv'
  <2>1. NumbersFit'
    BY <1>2, NextFits
  <2>2. CASE Cpu
    <3>1. UNCHANGED ddpVars
      BY <2>2 DEF Cpu
    <3>2. Locked'
      BY <1>2, <2>2, CpuKeepsLock DEF NumbersFit
    <3>3. held'["ddp"] = held["ddp"]
      <4>1. UNCHANGED held \/ \E a : After("cpu", a)
        BY <2>2, Zenon DEF Cpu
      <4>2. ASSUME NEW a, After("cpu", a) PROVE held'["ddp"] = held["ddp"]
        <5>1. \E h : held' = [held EXCEPT !["cpu"] = h]
          BY <4>2 DEF After
        <5> QED BY <5>1
      <4> QED BY <4>1, <4>2
    <3>4. Careful'
      BY <1>2, <3>1, <3>3 DEF Careful, Allowed, ddpVars
    <3> QED BY <2>1, <3>2, <3>4
  <2>3. CASE Peripheral
    BY <1>2, <2>1, <2>3 DEF Peripheral, ecsVars, ddpVars, Locked, Careful, Allowed
  <2>4. CASE Driver
    BY <1>2, <2>1, <2>4, DriverKeepsLock
  <2>5. CASE DdpIo
    BY <1>2, <2>1, <2>5, DdpIoKeepsLock DEF NumbersFit
  <2>6. CASE UNCHANGED vars
    BY <1>2, <2>1, <2>6 DEF vars, memoryVars, ddpVars, Locked, Careful, Allowed
  <2> QED
    BY <1>2, <2>2, <2>3, <2>4, <2>5, <2>6 DEF Next
<1>3. Inv => LockExclusive
  BY DEF Locked, LockExclusive, Range
<1> QED
  BY <1>1, <1>2, <1>3, PTL DEF Spec

-----------------------------------------------------------------------------
(***************************************************************************)
(* The type invariant.                                                     *)
(***************************************************************************)

\* Where the CPU stands in a word and in its cycles.  At the end of a word it stands only when
\* it has stopped, and then it does not go on.
InTurn ==
    /\ parcels \in 0 .. 4 /\ cpucycle \in 0 .. (setup.ratio - 1) /\ cpuStopped \in BOOLEAN
    /\ parcels = 0 => cpuStopped /\ cpucycle = 0

\* However an instruction ends.
LEMMA EndsInTurn ==
    ASSUME setup \in Setups, UNCHANGED setup, InTurn, NEW left \in 0 .. 4, NEW m, NEW p
    PROVE  /\ StopAt(p, left) \/ GoTo(p, m) \/ (NextCycle /\ Fetch(p, m)) => InTurn'
           /\ Proceed(left, m) \/ Continue(left, m) \/ ErrorExit(left, m) => InTurn'
<1>1. setup.ratio \in Nat \ {0}
  BY SetupIs
<1>2. (cpucycle + 1) % setup.ratio \in 0 .. (setup.ratio - 1) /\ 0 \in 0 .. (setup.ratio - 1)
  <2> DEFINE c == cpucycle + 1
             r == setup.ratio
  <2>1. c \in Int /\ r \in Nat \ {0}
    BY <1>1 DEF InTurn
  <2> HIDE DEF c, r
  <2>2. c % r \in 0 .. (r - 1) /\ 0 \in 0 .. (r - 1)
    BY <2>1, RemainderIs
  <2> QED BY <2>2 DEF c, r
<1>3. \A q : StopAt(q, left) => InTurn'
  BY <1>2 DEF StopAt, InTurn
<1>4. \A q : Fetch(q, m) => parcels' = 4 /\ cpuStopped' \in BOOLEAN
  BY DEF Fetch
<1>5. NextCycle => cpucycle' \in 0 .. (setup.ratio - 1)
  BY <1>2 DEF NextCycle
<1>6. \A q : GoTo(q, m) \/ (NextCycle /\ Fetch(q, m)) => InTurn'
  BY <1>2, <1>4, <1>5 DEF GoTo, InTurn
<1>7. Continue(left, m) => InTurn'
  <2>1. CASE left = 0
    BY <1>6, <2>1 DEF Continue
  <2>2. CASE left # 0
    BY <2>2 DEF Continue, InTurn
  <2> QED BY <2>1, <2>2
<1>8. Proceed(left, m) => InTurn'
  BY <1>3, <1>7 DEF Proceed
<1>9. ErrorExit(left, m) => InTurn'
  BY <1>3, <1>7 DEF ErrorExit
<1> QED
  BY <1>3, <1>6, <1>7, <1>8, <1>9

\* Parcels are left when an instruction executes, and it has its own.
LEMMA ParcelsLeft ==
    ASSUME setup \in Setups, InTurn, NEW in, CpuStep(in)
    PROVE  InvalidPacking(in) \/ (Execute(in) /\ Left(in) \in 0 .. 4)
<1>1. parcels \in 1 .. 4
  BY DEF InTurn, CpuStep
<1>2. ~ (Long(in) /\ parcels = 1) => Left(in) \in 0 .. 4
  BY <1>1 DEF Left
<1> QED
  BY <1>2 DEF CpuStep

LEMMA CpuStepInTurn ==
    ASSUME setup \in Setups, UNCHANGED setup, InTurn, NEW in, CpuStep(in)
    PROVE  InTurn'
<1> DEFINE left == Left(in)
<1>1. CASE InvalidPacking(in)
  <2>1. setup.ratio \in Nat \ {0}
    BY SetupIs
  <2> QED BY <1>1, <2>1 DEF InvalidPacking, InTurn
<1>2. ASSUME left \in 0 .. 4,
             \E p, m : \/ StopAt(p, left) \/ GoTo(p, m) \/ (NextCycle /\ Fetch(p, m))
                       \/ Proceed(left, m) \/ Continue(left, m) \/ ErrorExit(left, m)
      PROVE  InTurn'
  <2> HIDE DEF left
  <2> QED BY <1>2, EndsInTurn
<1>3. ASSUME \E p : StopAt(p, 0) \/ StopAt(p, 3) PROVE InTurn'
  <2>1. 0 \in 0 .. 4 /\ 3 \in 0 .. 4
    OBVIOUS
  <2> QED BY <1>3, <2>1, EndsInTurn
<1>4. CASE Execute(in) /\ left \in 0 .. 4
  <2>1. CASE SetX(in) \/ SetXB(in) \/ SetB(in) \/ Pass(in)
    <3>1. Proceed(left, cm)
      BY <2>1 DEF SetX, SetXB, SetB, Pass
    <3> HIDE DEF left
    <3> QED BY <1>2, <1>4, <3>1
  <2>2. CASE SetA(in)
    <3>1. \E m : Proceed(left, m) \/ Continue(left, m) \/ ErrorExit(left, m)
      BY <2>2, Zenon DEF SetA
    <3> HIDE DEF left
    <3> QED BY <1>2, <1>4, <3>1
  <2>3. CASE Jump(in)
    <3>1. \E p : GoTo(p, cm) \/ Proceed(left, cm)
      BY <2>3, Zenon DEF Jump
    <3> HIDE DEF left
    <3> QED BY <1>2, <1>4, <3>1
  <2>4. CASE RJ(in)
    <3>1. \E p, m : StopAt(p, 0) \/ (NextCycle /\ Fetch(p, m))
      BY <2>4, Zenon DEF RJ
    <3> HIDE DEF left
    <3> QED BY <1>2, <1>3, <1>4, <3>1
  <2>5. CASE PS(in)
    <3>1. StopAt(regP, left)
      BY <2>5 DEF PS
    <3> HIDE DEF left
    <3> QED BY <1>2, <1>4, <3>1
  <2>6. CASE EcsTransfer(in)
    <3>1. EcsAbort(left) \/ Accepted \/ Proceed(left, cm)
          \/ (\E e : EcsRegister(in, e)) \/ (\E e, n : EcsBlock(in, e, n))
      BY <2>6, Zenon DEF EcsTransfer
    <3>2. \E p, m : StopAt(p, left) \/ GoTo(p, m) \/ Proceed(left, m)
      BY <3>1, Zenon DEF EcsAbort, Accepted, EcsRegister, EcsBlock
    <3> HIDE DEF left
    <3> QED BY <1>2, <1>4, <3>2
  <2>7. CASE CmuMove(in) \/ CmuCompare(in)
    <3>1. \E e, m, x : CmuDone(e, m, x)
      BY <2>7, Zenon DEF CmuMove, CmuCompare
    <3>2. \E p, m : StopAt(p, 3) \/ GoTo(p, m)
      BY <3>1, Zenon DEF CmuDone
    <3> HIDE DEF left
    <3> QED BY <1>2, <1>3, <1>4, <3>2
  <2> QED
    BY <1>4, <2>1, <2>2, <2>3, <2>4, <2>5, <2>6, <2>7 DEF Execute
<1> QED
  BY <1>1, <1>4, ParcelsLeft

\* Nothing is set in B0.
LEMMA CpuStepKeepsB0 ==
    ASSUME CpuFits, regB[0] = 0, NEW in, CpuStep(in)
    PROVE  regB'[0] = 0
<1>1. CASE SetXB(in)
  <2>1. \E b : regB' = [regB EXCEPT ![in.j] = IF in.j = 0 THEN 0 ELSE b]
    BY <1>1, Zenon DEF SetXB
  <2> QED BY <2>1, ZeroRegister DEF CpuFits
<1>2. CASE SetB(in)
  <2>1. \E b : regB' = [regB EXCEPT ![in.i] = IF in.i = 0 THEN 0 ELSE b]
    BY <1>2, Zenon DEF SetB
  <2> QED BY <2>1, ZeroRegister DEF CpuFits
<1>3. CASE InvalidPacking(in) \/ (Execute(in) /\ ~SetXB(in) /\ ~SetB(in))
  <2>1. UNCHANGED regB
    BY <1>3 DEF InvalidPacking, Execute, SetX, SetA, Jump, RJ, PS, Pass, EcsTransfer, CmuMove, CmuCompare,
                cpuRegisters
  <2> QED BY <2>1
<1> QED
  BY <1>1, <1>2, <1>3 DEF CpuStep, Execute

FlagsWithin == ecsFlagRegister \subseteq 0 .. (FlagBits - 1)

LEMMA FlagFunctionWithin ==
    ASSUME FlagsWithin, NEW a \in Int, FlagReference(a)
    PROVE  FlagFunction(ecsFlagRegister, a).flags \subseteq 0 .. (FlagBits - 1)
<1>1. Function(a) \in {4, 5, 6, 7} /\ FlagWord(a) \subseteq 0 .. (FlagBits - 1)
  BY FunctionOfFlag, FlagBitsAre
<1> QED
  BY <1>1 DEF FlagFunction, FlagsWithin

LEMMA CpuStepFlags ==
    ASSUME CpuFits, FlagsWithin, NEW in \in CpuPrograms[setup.part], CpuStep(in)
    PROVE  FlagsWithin'
<1> DEFINE e == EcsAddress(in)
<1>1. e \in Int
  BY EcsAddressIs
<1>2. CASE EcsTransfer(in) /\ FlagTransfer(in)
  <2>1. EcsUsable(in) /\ FlagReference(e)
    BY <1>2 DEF FlagTransfer
  <2>2. ecsFlagRegister' = FlagFunction(ecsFlagRegister, e).flags
    BY <1>2, <2>1 DEF EcsTransfer
  <2> HIDE DEF e
  <2> QED BY <1>1, <2>1, <2>2, FlagFunctionWithin DEF FlagsWithin
<1>3. CASE EcsTransfer(in) /\ ~FlagTransfer(in)
  BY <1>3, TransferSets DEF SetsFlags, FlagsWithin
<1>4. CASE UNCHANGED ecsFlagRegister
  BY <1>4 DEF FlagsWithin
<1> QED
  BY <1>2, <1>3, <1>4, OnlyTransfers

LEMMA DdpFlagsWithin ==
    ASSUME DdpFits, FlagsWithin, Driver \/ Dp!ddpIo
    PROVE  FlagsWithin'
<1> DEFINE a == addr * Dp!Cells + chData
<1>1. a \in Int
  <2>1. addr \in Nat /\ chData \in Pp!Cell
    BY DEF DdpFits, DdpNumbers
  <2>2. chData \in Nat /\ Dp!Cells \in Nat
    BY <2>1, DdpSizes
  <2>3. addr * Dp!Cells \in Nat
    BY <2>1, <2>2, ProductType
  <2> QED BY <2>2, <2>3
<1>2. CASE Dp!TakeAddress
  <2>1. UNCHANGED ecsFlagRegister
        \/ (FlagReference(a) /\ ecsFlagRegister' = FlagFunction(ecsFlagRegister, a).flags)
    BY <1>2, SameFlags DEF Dp!TakeAddress
  <2> HIDE DEF a
  <2> QED BY <1>1, <2>1, FlagFunctionWithin DEF FlagsWithin
<1>3. CASE Driver \/ Dp!GiveStatus \/ Dp!GiveCell \/ Dp!TakeCell
  <2>1. UNCHANGED ecsFlagRegister
    BY <1>3 DEF Driver, Dp!DdpFunction, Dp!MasterClear, Dp!PpActivates, Dp!PpPuts, Dp!PpTakes,
                Dp!PpDisconnects, Dp!EcsUnchanged, Dp!GiveStatus, Dp!GiveCell, Dp!TakeCell
  <2> QED BY <2>1 DEF FlagsWithin
<1> QED
  BY <1>2, <1>3 DEF Dp!ddpIo

\* The rest of the type invariant.
Paced == InTurn /\ steps \in 0 .. setup.maxSteps /\ regB[0] = 0 /\ FlagsWithin

LEMMA PacedFirst == ASSUME Init PROVE Paced
<1> DEFINE t == Starts[setup.part]
<1>1. setup \in Setups /\ CpuInit(t.regA, t.regB, t.regX, t.cm)
  BY DEF Init
<1>2. \A b \in t.regB : b[0] = 0
  BY <1>1, StartsAssumption
<1>3. setup.ratio \in Nat \ {0} /\ setup.maxSteps \in Nat
  BY <1>1, SetupIs
<1> HIDE DEF t
<1>4. /\ regB[0] = 0 /\ steps = 0 /\ parcels = 4 /\ cpucycle = 0 /\ cpuStopped = FALSE
      /\ ecsFlagRegister = {}
  BY <1>1, <1>2 DEF CpuInit
<1>5. InTurn
  <2>1. cpuStopped \in BOOLEAN
    BY <1>4, Zenon
  <2>2. cpucycle \in 0 .. (setup.ratio - 1) /\ parcels \in 0 .. 4 /\ parcels # 0
    BY <1>3, <1>4
  <2> QED BY <2>1, <2>2 DEF InTurn
<1>6. FlagsWithin
  BY <1>4 DEF FlagsWithin
<1>7. steps \in 0 .. setup.maxSteps
  BY <1>3, <1>4
<1> QED
  BY <1>4, <1>5, <1>6, <1>7 DEF Paced

LEMMA NextPaced ==
    ASSUME NumbersFit, Paced, [Next]_vars
    PROVE  Paced'
<1> USE DEF NumbersFit
<1>1. setup \in Setups /\ setup.maxSteps \in Nat
  BY SetupIs DEF CpuFits
<1>2. CASE Cpu
  <2>1. PICK in \in CpuPrograms[setup.part] : CpuStep(in)
    BY <1>2 DEF Cpu
  <2>2. UNCHANGED setup
    BY <1>2 DEF Cpu
  <2>3. InTurn'
    BY <1>1, <2>1, <2>2, CpuStepInTurn DEF Paced
  <2>4. steps' \in 0 .. setup'.maxSteps
    BY <1>1, <2>1, <2>2 DEF CpuStep, Paced
  <2>5. regB'[0] = 0
    BY <2>1, CpuStepKeepsB0 DEF Paced
  <2>6. FlagsWithin'
    BY <2>1, CpuStepFlags DEF Paced
  <2> QED BY <2>3, <2>4, <2>5, <2>6 DEF Paced
<1>3. ASSUME UNCHANGED <<setup, cpuVars>>, FlagsWithin' PROVE Paced'
  BY <1>3 DEF Paced, InTurn, cpuVars, cpuRegisters
<1>4. CASE Peripheral
  BY <1>3, <1>4 DEF Peripheral, ecsVars, Paced, FlagsWithin
<1>5. CASE Driver
  <2>1. UNCHANGED <<setup, cpuVars>>
    BY <1>5 DEF Driver
  <2> QED BY <1>3, <1>5, <2>1, DdpFlagsWithin DEF Paced
<1>6. CASE DdpIo
  <2>1. UNCHANGED <<setup, cpuVars>> /\ Dp!ddpIo
    BY <1>6 DEF DdpIo
  <2> QED BY <1>3, <2>1, DdpFlagsWithin DEF Paced
<1>7. CASE UNCHANGED vars
  BY <1>3, <1>7 DEF vars, memoryVars, Paced, FlagsWithin
<1> QED
  BY <1>2, <1>4, <1>5, <1>6, <1>7 DEF Next

\* Registers, cells and words keep to their widths in the processors, the DDP and memory; the
\* CPU never runs past the end of a word, B0 is 0 for ever, and flags are those there are
\* (cpuStep and every instruction of cpu.c, float.c and shift.c, ppStep and its of pp.c,
\* ddpFunc and ddpIo of ddp.c).
THEOREM ProcessorsTypes == ASSUME FieldsFit PROVE Spec => []TypeOK
<1> DEFINE Inv == NumbersFit /\ Paced
<1>1. Init => Inv
  BY NumbersFitFirst, PacedFirst
<1>2. Inv /\ [Next]_vars => Inv'
  BY NextFits, NextPaced
<1>3. Inv => TypeOK
  <2> SUFFICES ASSUME Inv PROVE TypeOK
    OBVIOUS
  <2>1. CpuTypeOK
    BY DEF CpuTypeOK, NumbersFit, CpuFits, Paced, InTurn, FlagsWithin
  <2>2. Pp!PpTypeOK
    BY DEF Pp!PpTypeOK, NumbersFit, PpFits, Accumulator
  <2>3. Dp!DdpTypeOK
    BY DdpSizes DEF Dp!DdpTypeOK, NumbersFit, DdpFits, DdpFlags, DdpNumbers
  <2> QED BY <2>1, <2>2, <2>3 DEF TypeOK
<1> QED
  BY <1>1, <1>2, <1>3, PTL DEF Spec

-----------------------------------------------------------------------------
(***************************************************************************)
(* What crosses the DDP.                                                   *)
(***************************************************************************)

CellAt(a, i) == Dp!ToCells(ecs[a])[i]

\* A cell given as the n-th is the one ECS holds at its place, if there is one.
Given(n, c) ==
    \A k \in Nat, i \in 1 .. CellsPerWord :
        n = k * CellsPerWord + i /\ first + k < setup.ecsSize => c = CellAt(first + k, i)

\* Cells given to the PP: those it took and the one that waits.
GivenCells == Len(got) + (IF chFull THEN 1 ELSE 0)

\* Nothing is sent or taken before the address is complete.
Begun ==
    /\ fcode \in {"read", "write"} /\ abyte < 2 =>
          first = -1 /\ sent = <<>> /\ got = <<>> /\ (fcode = "write" => dbyte = 0)
    /\ fcode \in {"read", "write"} /\ abyte = 2 => first \in Nat /\ addr - first \in Nat

\* A write has sent the words before addr and dbyte cells more, which curword ends with; with a
\* word beyond ECS it is over.
Writing ==
    fcode = "write" /\ abyte = 2 =>
        /\ dbyte \in Nat /\ Len(sent) = (addr - first) * CellsPerWord + dbyte
        /\ dbyte >= CellsPerWord => addr >= setup.ecsSize
        /\ dbyte < CellsPerWord =>
              \A i \in 1 .. dbyte : curword[CellsPerWord - dbyte + i]
                                    = sent[(addr - first) * CellsPerWord + i]

\* The word that a read is in has dbyte cells given and the others in curword.  Beyond ECS the
\* first cell is the last: it waits in a channel that is marked, or the channel is dropped.
Underway ==
    IF addr < setup.ecsSize
    THEN \A i \in 1 .. (CellsPerWord - dbyte) : curword[i] = CellAt(addr, dbyte + i)
    ELSE /\ dbyte = 1 /\ stat = "abort"
         /\ IF chFull THEN discAfterInput ELSE ~chActive /\ ~selected

Reading ==
    fcode = "read" /\ abyte = 2 /\ ~FlagReference(first) =>
        /\ dbyte = -1 => GivenCells = (addr - first) * CellsPerWord
        /\ dbyte # -1 => /\ dbyte \in 1 .. (CellsPerWord - 1)
                         /\ GivenCells = (addr - first) * CellsPerWord + dbyte
                         /\ Underway
        /\ addr > first => addr - 1 < setup.ecsSize
        /\ \A n \in 1 .. Len(got) : Given(n, got[n])
        /\ chFull => Given(Len(got) + 1, chData)

SentWhole ==
    \A k \in Nat : (k + 1) * CellsPerWord <= Len(sent) /\ first + k < setup.ecsSize
                   => ecs[first + k] = Dp!OfCells(Dp!WordAt(sent, k))

\* Where no PP works the DDP nothing ever crosses it.
Unused == DdpFunctions[setup.part] = {} => fcode = "none" /\ sent = <<>>

Crossing == Unused /\ Begun /\ Writing /\ Reading /\ SentWhole /\ got \in Seq(Nat)

\* A cell is in one word, at one place.
LEMMA OnePlace ==
    ASSUME NEW d \in Nat \ {0}, NEW k \in Int, NEW m \in Int, NEW i \in 1 .. d, NEW j \in 1 .. d,
           k * d + i = m * d + j
    PROVE  k = m /\ i = j
<1>1. k * d \in Int /\ m * d \in Int /\ (k + 1) * d = k * d + d /\ (m + 1) * d = m * d + d
  OBVIOUS
<1>2. k * d < (m + 1) * d /\ m * d < (k + 1) * d
  BY <1>1
<1>3. k < m + 1 /\ m < k + 1
  BY <1>2, FactorsCompare
<1>4. k = m
  BY <1>3
<1> QED
  BY <1>1, <1>4

\* A place before the end of a word is in it or in one before.
LEMMA WordsBefore ==
    ASSUME NEW d \in Nat \ {0}, NEW k \in Int, NEW m \in Int, NEW i \in 1 .. d, NEW j \in 0 .. d,
           k * d + i <= m * d + j
    PROVE  k <= m
<1>1. k * d \in Int /\ m * d \in Int /\ (m + 1) * d = m * d + d
  OBVIOUS
<1>2. k * d < (m + 1) * d
  BY <1>1
<1>3. k < m + 1
  BY <1>2, FactorsCompare
<1> QED
  BY <1>3

LEMMA CellsSize == CellsPerWord \in Nat \ {0} /\ CellsPerWord > 1
BY ProcessorsAssumption

LEMMA ShiftedCells ==
    ASSUME NEW cs \in [1 .. CellsPerWord -> Pp!Cell], NEW c \in Pp!Cell
    PROVE  /\ \A i \in 1 .. (CellsPerWord - 1) : Dp!Shift(cs, c)[i] = cs[i + 1]
           /\ Dp!Shift(cs, c)[CellsPerWord] = c
<1> DEFINE n == CellsPerWord
           S == Pp!Cell
<1>1. n \in Nat \ {0} /\ cs \in [1 .. n -> S] /\ c \in S
  BY DdpSizes
<1> HIDE DEF n, S
<1>2. cs \in Seq(S) /\ Len(cs) = n
  BY <1>1
<1>3. Tail(cs) \in Seq(S) /\ Len(Tail(cs)) = n - 1 /\ \A i \in 1 .. (n - 1) : Tail(cs)[i] = cs[i + 1]
  BY <1>1, <1>2
<1> DEFINE t == Tail(cs)
<1> HIDE DEF t
<1>4. t \in Seq(S) /\ Len(t) = n - 1 /\ \A i \in 1 .. (n - 1) : t[i] = cs[i + 1]
  BY <1>3 DEF t
<1>5. \A i \in 1 .. (n - 1) : Append(t, c)[i] = t[i]
  BY <1>1, <1>4
<1>6. Append(t, c)[n] = c
  BY <1>1, <1>4
<1> QED
  BY <1>4, <1>5, <1>6 DEF Dp!Shift, n, t

LEMMA Appended ==
    ASSUME NEW s \in Seq(Nat), NEW c \in Nat
    PROVE  /\ Append(s, c) \in Seq(Nat) /\ Len(Append(s, c)) = Len(s) + 1 /\ Len(s) \in Nat
           /\ \A n \in 1 .. Len(s) : Append(s, c)[n] = s[n]
           /\ Append(s, c)[Len(s) + 1] = c
OBVIOUS

LEMMA CrossingFirst == ASSUME Init PROVE Crossing
<1>1. fcode = "none" /\ sent = <<>> /\ got = <<>>
  BY DEF Init, Dp!DdpInit
<1>2. <<>> \in Seq(Nat) /\ Len(<<>>) = 0
  OBVIOUS
<1>3. \A k \in Nat : ~ ((k + 1) * CellsPerWord <= 0)
  <2>1. \A k \in Nat : (k + 1) * CellsPerWord \in Nat \ {0}
    <3> TAKE k \in Nat
    <3>1. k + 1 \in Nat \ {0} /\ CellsPerWord \in Nat \ {0}
      BY CellsSize
    <3> DEFINE n == k + 1
    <3>2. n \in Nat \ {0}
      BY <3>1
    <3> HIDE DEF n
    <3>3. n * CellsPerWord \in Nat \ {0}
      BY <3>1, <3>2, ProductOfNats
    <3> QED BY <3>3 DEF n
  <2> QED BY <2>1
<1>4. SentWhole
  BY <1>1, <1>2, <1>3 DEF SentWhole
<1> QED
  BY <1>1, <1>2, <1>4 DEF Crossing, Unused, Begun, Writing, Reading

\* What is left alone by everybody else.
LEMMA CrossingKept ==
    ASSUME Crossing, UNCHANGED <<ddpVars, setup, ecs>>
    PROVE  Crossing'
<1> USE DEF ddpVars
<1>1. \A n, c : Given(n, c)' <=> Given(n, c)
  BY DEF Given, CellAt
<1>2. Reading'
  BY <1>1 DEF Crossing, Reading, GivenCells, Underway, CellAt
<1>3. Begun' /\ Writing' /\ SentWhole' /\ Unused' /\ got' \in Seq(Nat)
  BY DEF Crossing, Begun, Writing, SentWhole, Unused
<1> QED
  BY <1>2, <1>3 DEF Crossing

\* Between cells: a function, a clear, the channel.
LEMMA DriverCrosses ==
    ASSUME DdpFits, Crossing, Driver
    PROVE  Crossing'
<1> USE DEF Dp!deviceVars, Dp!ddpHistory, Dp!EcsUnchanged
<1>1. UNCHANGED <<setup, ecs>>
  BY DEF Driver, Dp!DdpFunction, Dp!MasterClear, Dp!PpActivates, Dp!PpPuts, Dp!PpTakes,
         Dp!PpDisconnects
<1>2. got \in Seq(Nat) /\ chData \in Nat /\ CellsPerWord \in Nat \ {0}
  <2>1. chData \in Pp!Cell
    BY DEF DdpFits, DdpNumbers
  <2> QED BY <2>1, DdpSizes DEF Crossing
<1>3. CASE \E code \in DdpFunctions[setup.part] : Dp!DdpFunction(code)
  <2>1. /\ abyte' = 0 /\ dbyte' = 0 /\ first' = -1 /\ sent' = <<>> /\ got' = <<>>
        /\ DdpFunctions[setup.part] # {}
    BY <1>3 DEF Dp!DdpFunction
  <2>2. \A k \in Nat : ~ ((k + 1) * CellsPerWord <= Len(<<>>))
    <3> TAKE k \in Nat
    <3> DEFINE n == k + 1
    <3>1. n \in Nat \ {0}
      OBVIOUS
    <3> HIDE DEF n
    <3>2. n * CellsPerWord \in Nat \ {0} /\ Len(<<>>) = 0
      BY <1>2, <3>1, ProductOfNats
    <3> QED BY <3>2 DEF n
  <2>3. SentWhole'
    BY <1>1, <2>1, <2>2 DEF SentWhole
  <2>4. <<>> \in Seq(Nat)
    OBVIOUS
  <2> QED BY <1>1, <2>1, <2>3, <2>4 DEF Crossing, Unused, Begun, Writing, Reading
<1>4. ASSUME UNCHANGED <<sent, first>> PROVE SentWhole' /\ \A n, c : Given(n, c)' <=> Given(n, c)
  BY <1>1, <1>4 DEF Crossing, SentWhole, Given, CellAt
<1>5. CASE Dp!MasterClear
  <2>1. fcode' = "none" /\ UNCHANGED <<sent, got, first>>
    BY <1>5 DEF Dp!MasterClear
  <2> QED BY <1>1, <1>4, <2>1 DEF Crossing, Unused, Begun, Writing, Reading
<1>6. CASE Dp!PpActivates \/ Dp!PpDisconnects
  <2>1. /\ UNCHANGED <<chFull, chData, discAfterInput, selected, fcode, addr, abyte, curword, dbyte,
                       stat, sent, got, first>>
        /\ chActive' = FALSE \/ selected
    BY <1>6 DEF Dp!PpActivates, Dp!PpDisconnects
  <2>2. Underway => Underway'
    BY <1>1, <2>1 DEF Underway, CellAt
  <2>3. Reading'
    BY <1>1, <1>4, <2>1, <2>2 DEF Crossing, Reading, GivenCells
  <2> QED BY <1>1, <1>4, <2>1, <2>3 DEF Crossing, Unused, Begun, Writing
<1>7. ASSUME NEW c, Dp!PpPuts(c) PROVE Crossing'
  <2>1. /\ UNCHANGED <<fcode, addr, abyte, curword, dbyte, sent, got, first>>
        /\ fcode = "write" \/ (fcode = "read" /\ abyte < 2)
    BY <1>7 DEF Dp!PpPuts
  <2>2. Reading'
    BY <2>1 DEF Reading
  <2> QED BY <1>1, <1>4, <2>1, <2>2 DEF Crossing, Unused, Begun, Writing
<1>8. CASE Dp!PpTakes
  <2>1. /\ chFull /\ ~chFull' /\ got' = Append(got, chData) /\ fcode # "write" /\ (fcode = "read" => abyte = 2)
        /\ (discAfterInput => ~chActive' /\ ~selected')
        /\ UNCHANGED <<chData, fcode, addr, abyte, curword, dbyte, stat, sent, first>>
    BY <1>8 DEF Dp!PpTakes
  <2>2. /\ Len(got') = Len(got) + 1 /\ Len(got) \in Nat /\ got' \in Seq(Nat)
        /\ \A n \in 1 .. Len(got) : got'[n] = got[n]
        /\ got'[Len(got) + 1] = chData
    BY <1>2, <2>1, Appended
  <2>3. GivenCells' = GivenCells
    BY <2>1, <2>2 DEF GivenCells
  <2>4. Underway => Underway'
    BY <1>1, <2>1 DEF Underway, CellAt
  <2>5. ASSUME Reading PROVE Reading'
    <3> SUFFICES ASSUME fcode = "read", abyte = 2, ~FlagReference(first) PROVE Reading'
      BY <2>1 DEF Reading
    <3>1. \A n \in 1 .. Len(got') : Given(n, got'[n])
      <4> TAKE n \in 1 .. Len(got')
      <4>1. CASE n \in 1 .. Len(got)
        BY <2>2, <2>5, <4>1 DEF Reading
      <4>2. CASE n = Len(got) + 1
        BY <2>1, <2>2, <2>5, <4>2 DEF Reading
      <4> QED BY <2>2, <4>1, <4>2
    <3>2. (\A n \in 1 .. Len(got) : Given(n, got[n]))'
      BY <1>4, <2>1, <3>1
    <3> QED BY <1>1, <2>1, <2>3, <2>4, <2>5, <3>2 DEF Reading
  <2> QED BY <1>1, <1>4, <2>1, <2>2, <2>5 DEF Crossing, Unused, Begun, Writing
<1> QED
  BY <1>3, <1>5, <1>6, <1>7, <1>8 DEF Driver

\* A status ends what was under way.
LEMMA StatusCrosses ==
    ASSUME Crossing, UNCHANGED setup, Dp!GiveStatus
    PROVE  Crossing'
<1>1. fcode' = "none" /\ UNCHANGED <<sent, got, first, ecs>>
  BY DEF Dp!GiveStatus, Dp!ddpHistory
<1> QED
  BY <1>1 DEF Crossing, SentWhole, Unused, Begun, Writing, Reading

\* With its last cell the address stands, and nothing has crossed.
LEMMA AddressCrosses ==
    ASSUME DdpFits, Crossing, UNCHANGED setup, Dp!TakeAddress
    PROVE  Crossing'
<1> DEFINE a == addr * Dp!Cells + chData
<1>1. a \in Nat
  <2>1. addr \in Nat /\ chData \in Pp!Cell
    BY DEF DdpFits, DdpNumbers
  <2>2. chData \in Nat /\ Dp!Cells \in Nat
    BY <2>1, DdpSizes
  <2>3. addr * Dp!Cells \in Nat
    BY <2>1, <2>2, ProductType
  <2> QED BY <2>2, <2>3
<1>2. /\ fcode \in {"read", "write"} /\ abyte < 2 /\ addr' = a /\ abyte' = abyte + 1 /\ chFull' = FALSE
      /\ first' = IF abyte = 1 THEN a ELSE first
      /\ UNCHANGED <<fcode, sent, got, ecs>>
  BY DEF Dp!TakeAddress
<1>3. /\ fcode = "write" => dbyte' = dbyte
      /\ fcode = "read" /\ abyte = 1 /\ ~FlagReference(a) => dbyte' = -1
  BY SameFlags DEF Dp!TakeAddress
<1>4. first = -1 /\ sent = <<>> /\ got = <<>> /\ (fcode = "write" => dbyte = 0)
  BY <1>2 DEF Crossing, Begun
<1> HIDE DEF a
<1>5. abyte \in {0, 1} /\ abyte' \in {1, 2}
  BY <1>2 DEF DdpFits, DdpNumbers
<1>6. CellsPerWord \in Nat \ {0} /\ (a - a) * CellsPerWord = 0 /\ Len(<<>>) = 0
  BY <1>1, CellsSize
<1>7. SentWhole'
  <2>1. \A k \in Nat : ~ ((k + 1) * CellsPerWord <= Len(<<>>))
    <3> TAKE k \in Nat
    <3> DEFINE n == k + 1
    <3>1. n \in Nat \ {0}
      OBVIOUS
    <3> HIDE DEF n
    <3>2. n * CellsPerWord \in Nat \ {0}
      BY <1>6, <3>1, ProductOfNats
    <3> QED BY <1>6, <3>2 DEF n
  <2> QED BY <1>2, <1>4, <2>1 DEF SentWhole
<1>8. Begun' /\ Unused'
  BY <1>1, <1>2, <1>3, <1>4, <1>5 DEF Crossing, Begun, Unused
<1>9. Writing'
  <2> SUFFICES ASSUME fcode' = "write", abyte' = 2 PROVE Writing'
    BY DEF Writing
  <2>1. dbyte' = 0 /\ addr' = a /\ first' = a /\ sent' = <<>>
    BY <1>2, <1>3, <1>4, <1>5
  <2> QED BY <1>6, <2>1 DEF Writing
<1>10. Reading'
  <2> SUFFICES ASSUME fcode' = "read", abyte' = 2, ~FlagReference(first') PROVE Reading'
    BY DEF Reading, FlagReference
  <2>1. dbyte' = -1 /\ addr' = a /\ first' = a /\ got' = <<>> /\ chFull' = FALSE
    BY <1>2, <1>3, <1>4, <1>5
  <2>2. GivenCells' = 0
    BY <1>6, <2>1 DEF GivenCells
  <2> QED BY <1>1, <1>6, <2>1, <2>2 DEF Reading
<1>11. got' \in Seq(Nat)
  BY <1>2, <1>4
<1> QED
  BY <1>7, <1>8, <1>9, <1>10, <1>11 DEF Crossing

LEMMA GivenAt ==
    ASSUME NEW m \in Nat, NEW j \in 1 .. CellsPerWord, NEW c,
           first + m < setup.ecsSize => c = CellAt(first + m, j)
    PROVE  Given(m * CellsPerWord + j, c)
<1> SUFFICES ASSUME NEW k \in Nat, NEW i \in 1 .. CellsPerWord,
                    m * CellsPerWord + j = k * CellsPerWord + i, first + k < setup.ecsSize
             PROVE  c = CellAt(first + k, i)
  BY DEF Given
<1> DEFINE C == CellsPerWord
<1>1. C \in Nat \ {0} /\ i \in 1 .. C /\ j \in 1 .. C /\ k \in Int /\ m \in Int /\ k * C + i = m * C + j
  BY CellsSize
<1> HIDE DEF C
<1>2. k = m /\ i = j
  BY <1>1, OnePlace
<1> QED
  BY <1>2

\* A cell for the PP.
LEMMA GiveCellCrosses ==
    ASSUME CpuFits, DdpFits, Crossing, UNCHANGED setup, chActive, selected, Dp!GiveCell
    PROVE  Crossing'
<1> DEFINE C == CellsPerWord
           N == setup.ecsSize
           m == addr - first
           fetch == dbyte = -1
           ok == addr < Dp!EcsSize
           w == IF fetch /\ ok THEN Dp!ToCells(ecs[addr]) ELSE curword
           n == (IF fetch THEN 0 ELSE dbyte) + 1
           whole == n = CellsPerWord
<1>1. C \in Nat \ {0} /\ C > 1 /\ N \in Nat /\ Dp!EcsSize = N
  BY CellsSize, SetupIs, EcsSizeIs, SameCardinalities DEF Dp!EcsSize, EcsSize, CpuFits
<1>2. /\ fcode = "read" /\ abyte = 2 /\ ~chFull /\ chFull' = TRUE
      /\ UNCHANGED <<setup, fcode, abyte, sent, got, first, ecs>>
  BY DEF Dp!GiveCell, Dp!ddpHistory
<1>3. chData' = w[1] /\ curword' = Dp!Shift(w, 0)
  BY Zenon DEF Dp!GiveCell
<1>4. /\ dbyte' = (IF whole THEN -1 ELSE n) /\ addr' = (IF whole THEN addr + 1 ELSE addr)
      /\ fetch /\ ~ok => stat' = "abort" /\ discAfterInput'
  BY DEF Dp!GiveCell
<1>5. /\ addr \in Nat /\ dbyte \in Nat \cup {-1} /\ curword \in [1 .. C -> Pp!Cell] /\ 0 \in Pp!Cell
      /\ first \in Nat /\ m \in Nat /\ got \in Seq(Nat) /\ Len(got) \in Nat
  <2>1. got \in Seq(Nat) /\ first \in Nat /\ m \in Nat
    BY <1>2 DEF Crossing, Begun
  <2>2. addr \in Nat /\ dbyte \in Nat \cup {-1} /\ curword \in [1 .. C -> Pp!Cell]
    BY DEF DdpFits, DdpNumbers
  <2>3. 0 \in Pp!Cell
    BY PpSizes
  <2>4. Len(got) \in Nat
    BY <2>1
  <2> QED BY <2>1, <2>2, <2>3, <2>4
<1>6. w \in [1 .. C -> Pp!Cell]
  <2>1. fetch /\ ok => Dp!ToCells(ecs[addr]) \in [1 .. C -> Pp!Cell]
    <3>1. ok => addr \in 0 .. (N - 1)
      BY <1>1, <1>5
    <3>2. ok => ecs[addr] \in Word
      BY <3>1 DEF CpuFits
    <3> QED BY <3>2, ToCellsType
  <2> QED BY <1>5, <2>1
<1>7. \A i \in 1 .. (C - 1) : curword'[i] = w[i + 1]
  BY <1>3, <1>5, <1>6, ShiftedCells
<1>8. (\A j, c : Given(j, c)' <=> Given(j, c)) /\ \A a, i : CellAt(a, i)' = CellAt(a, i)
  BY <1>2 DEF Given, CellAt
<1>9. Begun' /\ Writing' /\ Unused' /\ SentWhole' /\ got' \in Seq(Nat)
  <2>1. addr' - first' \in Nat
    <3>1. addr' = addr \/ addr' = addr + 1
      BY <1>4
    <3> QED BY <1>2, <1>5, <3>1
  <2>2. Begun' /\ Writing'
    BY <1>2, <1>5, <2>1 DEF Begun, Writing
  <2>3. Unused' /\ SentWhole' /\ got' \in Seq(Nat)
    BY <1>2 DEF Crossing, Unused, SentWhole
  <2> QED BY <2>2, <2>3
<1>10. ASSUME ~FlagReference(first) PROVE Reading'
  <2>1. /\ fetch => Len(got) = m * C
        /\ ~fetch => dbyte \in 1 .. (C - 1) /\ Len(got) = m * C + dbyte /\ Underway
        /\ addr > first => addr - 1 < N
        /\ \A j \in 1 .. Len(got) : Given(j, got[j])
    BY <1>2, <1>5, <1>10 DEF Crossing, Reading, GivenCells
  <2>2. ~fetch => addr < N /\ \A i \in 1 .. (C - dbyte) : curword[i] = CellAt(addr, dbyte + i)
    BY <1>2, <2>1 DEF Underway
  <2>3. n \in 1 .. C /\ (fetch => n = 1 /\ ~whole) /\ Len(got) + 1 = m * C + n
    <3>1. m * C \in Nat
      BY <1>1, <1>5, ProductOfNats
    <3> QED BY <1>1, <2>1, <3>1
  <2>4. addr < N => w[1] = CellAt(addr, n)
    <3>1. CASE fetch
      <4>1. addr < N => w = Dp!ToCells(ecs[addr])
        BY <1>1, <3>1
      <4> HIDE DEF w
      <4> QED BY <2>3, <3>1, <4>1 DEF CellAt
    <3>2. CASE ~fetch
      <4>1. w = curword /\ n = dbyte + 1 /\ 1 \in 1 .. (C - dbyte)
        BY <1>1, <2>1, <3>2
      <4> HIDE DEF w, n
      <4> QED BY <2>1, <2>2, <3>2, <4>1
    <3> QED BY <3>1, <3>2
  <2>5. Given(Len(got) + 1, w[1])
    <3>1. first + m = addr
      BY <1>5
    <3> HIDE DEF w, n, m
    <3>2. Given(m * C + n, w[1])
      BY <1>5, <2>3, <2>4, <3>1, GivenAt
    <3> QED BY <2>3, <3>2
  <2>6. addr < N /\ ~whole => \A i \in 1 .. (C - n) : curword'[i] = CellAt(addr, n + i)
    <3> SUFFICES ASSUME addr < N, NEW i \in 1 .. (C - n) PROVE curword'[i] = CellAt(addr, n + i)
      OBVIOUS
    <3>1. i \in 1 .. (C - 1) /\ i \in Nat
      BY <1>1, <2>3
    <3>2. curword'[i] = w[i + 1]
      BY <1>7, <3>1
    <3>3. CASE fetch
      <4>1. w = Dp!ToCells(ecs[addr]) /\ n = 1
        BY <1>1, <3>3
      <4>2. n + i = i + 1
        BY <3>1, <4>1
      <4> HIDE DEF w, n
      <4> QED BY <3>2, <4>1, <4>2 DEF CellAt
    <3>4. CASE ~fetch
      <4>1. w = curword /\ n = dbyte + 1 /\ i + 1 \in 1 .. (C - dbyte) /\ n + i = dbyte + (i + 1)
        BY <1>1, <2>1, <3>1, <3>4
      <4> HIDE DEF w, n
      <4>2. curword[i + 1] = CellAt(addr, dbyte + (i + 1))
        BY <2>2, <3>4, <4>1
      <4> QED BY <3>2, <4>1, <4>2
    <3> QED BY <3>3, <3>4
  <2>7. (chFull => Given(Len(got) + 1, chData))' /\ (\A j \in 1 .. Len(got) : Given(j, got[j]))'
    BY <1>2, <1>3, <1>8, <2>1, <2>5
  <2>8. GivenCells' = m * C + n
    BY <1>2, <1>5, <2>3 DEF GivenCells
  <2>9. CASE whole
    <3>1. dbyte' = -1 /\ addr' = addr + 1 /\ n = C /\ ~fetch /\ addr < N
      BY <1>4, <2>2, <2>3, <2>9
    <3>2. GivenCells' = (addr' - first') * C
      <4>1. (m + 1) * C = m * C + C /\ addr' - first' = m + 1
        <5>1. (m + 1) * C = m * C + 1 * C /\ 1 * C = C
          BY <1>1, <1>5, Distributes
        <5> QED BY <1>2, <1>5, <3>1, <5>1
      <4> HIDE DEF m
      <4> QED BY <2>8, <3>1, <4>1
    <3>3. (addr > first => addr - 1 < setup.ecsSize)'
      BY <1>2, <1>5, <3>1
    <3> HIDE DEF m, n, w
    <3> QED BY <2>7, <3>1, <3>2, <3>3 DEF Reading
  <2>10. CASE ~whole
    <3>1. dbyte' = n /\ addr' = addr /\ n \in 1 .. (C - 1) /\ dbyte' # -1
      <4> HIDE DEF n
      <4>1. n # C
        BY <2>10
      <4> QED BY <1>1, <1>4, <2>3, <2>10, <4>1
    <3>2. Underway'
      <4>1. CASE addr < N
        <5> HIDE DEF n, w
        <5> QED BY <1>2, <1>8, <2>6, <2>10, <3>1, <4>1 DEF Underway
      <4>2. CASE ~ (addr < N)
        <5>1. fetch /\ ~ok
          BY <1>1, <2>2, <4>2
        <5>2. dbyte' = 1 /\ stat' = "abort" /\ discAfterInput' /\ chFull'
          BY <1>2, <1>4, <2>3, <3>1, <5>1
        <5> QED BY <1>2, <3>1, <4>2, <5>2 DEF Underway
      <4> QED BY <4>1, <4>2
    <3>3. GivenCells' = (addr' - first') * C + dbyte'
      BY <1>2, <2>8, <3>1
    <3>4. (addr > first => addr - 1 < setup.ecsSize)'
      BY <1>2, <2>1, <3>1
    <3> HIDE DEF m, n, w
    <3> QED BY <2>7, <3>1, <3>2, <3>3, <3>4 DEF Reading
  <2> QED BY <2>9, <2>10
<1>11. CASE FlagReference(first)
  <2>1. FlagReference(first')
    BY <1>2, <1>11
  <2>2. Reading'
    BY <2>1 DEF Reading, FlagReference
  <2> QED BY <1>9, <2>2 DEF Crossing
<1> QED
  BY <1>9, <1>10, <1>11 DEF Crossing

\* A word that was sent is what it was when more is sent.
LEMMA WordKept ==
    ASSUME NEW s \in Seq(Nat), NEW c \in Nat, NEW k \in Nat, (k + 1) * CellsPerWord <= Len(s)
    PROVE  Dp!WordAt(Append(s, c), k) = Dp!WordAt(s, k)
<1> DEFINE C == CellsPerWord
           t == Append(s, c)
<1>1. C \in Nat \ {0} /\ k * C \in Nat /\ (k + 1) * C = k * C + C
  <2>1. C \in Nat \ {0} /\ k \in Int
    BY CellsSize
  <2> HIDE DEF C
  <2>2. k * C \in Nat /\ (k + 1) * C = k * C + 1 * C /\ 1 * C = C
    BY <2>1, Distributes, ProductOfNats
  <2> QED BY <2>1, <2>2
<1>2. \A n \in 1 .. Len(s) : t[n] = s[n]
  BY Appended
<1>3. \A i \in 1 .. C : k * C + i \in 1 .. Len(s)
  <2>1. Len(s) \in Nat
    OBVIOUS
  <2> QED BY <1>1, <2>1
<1> HIDE DEF t
<1>4. \A i \in 1 .. C : t[k * C + i] = s[k * C + i]
  BY <1>2, <1>3
<1> QED
  BY <1>4 DEF Dp!WordAt, t

\* A cell from the PP.
LEMMA TakeCellCrosses ==
    ASSUME CpuFits, DdpFits, Crossing, UNCHANGED setup, Dp!TakeCell
    PROVE  Crossing'
<1> DEFINE C == CellsPerWord
           N == setup.ecsSize
           m == addr - first
           w == Dp!Shift(curword, chData)
           whole == dbyte + 1 = CellsPerWord
           abort == whole /\ addr >= Dp!EcsSize
<1>1. C \in Nat \ {0} /\ C > 1 /\ N \in Nat /\ Dp!EcsSize = N /\ DOMAIN ecs = 0 .. (N - 1)
  BY CellsSize, SetupIs, EcsSizeIs, SameCardinalities DEF Dp!EcsSize, EcsSize, CpuFits
<1>2. /\ fcode = "write" /\ abyte = 2
      /\ UNCHANGED <<setup, fcode, abyte, got, first>>
      /\ curword' = w /\ sent' = Append(sent, chData)
      /\ dbyte' = IF abort \/ ~whole THEN dbyte + 1 ELSE 0
      /\ ecs' = IF whole /\ ~abort THEN [ecs EXCEPT ![addr] = Dp!OfCells(w)] ELSE ecs
      /\ addr' = IF whole /\ ~abort THEN addr + 1 ELSE addr
  BY Zenon DEF Dp!TakeCell
<1>3. /\ addr \in Nat /\ curword \in [1 .. C -> Pp!Cell] /\ chData \in Pp!Cell /\ chData \in Nat
      /\ first \in Nat /\ m \in Nat /\ sent \in Seq(Nat) /\ Len(sent) \in Nat
  <2>1. first \in Nat /\ m \in Nat
    BY <1>2 DEF Crossing, Begun
  <2>2. addr \in Nat /\ curword \in [1 .. C -> Pp!Cell] /\ sent \in Seq(Nat) /\ chData \in Pp!Cell
    BY DEF DdpFits, DdpNumbers
  <2>3. Len(sent) \in Nat /\ chData \in Nat
    BY <2>2, DdpSizes
  <2> QED BY <2>1, <2>2, <2>3
<1>4. /\ dbyte \in Nat /\ Len(sent) = m * C + dbyte
      /\ dbyte >= C => addr >= N
      /\ dbyte < C => \A i \in 1 .. dbyte : curword[C - dbyte + i] = sent[m * C + i]
  BY <1>2 DEF Crossing, Writing
<1>5. /\ (\A i \in 1 .. (C - 1) : w[i] = curword[i + 1]) /\ w[C] = chData
      /\ \E S : w \in [1 .. C -> S]
  <2>1. w \in [1 .. C -> Pp!Cell]
    BY <1>3, DdpShiftType
  <2> QED BY <1>3, <2>1, ShiftedCells
<1>6. /\ Len(sent') = Len(sent) + 1 /\ sent' \in Seq(Nat)
      /\ (\A n \in 1 .. Len(sent) : sent'[n] = sent[n]) /\ sent'[Len(sent) + 1] = chData
  BY <1>2, <1>3, Appended
<1>7. m * C \in Nat /\ (m + 1) * C = m * C + C /\ first + m = addr
  <2>1. m \in Int /\ C \in Nat
    BY <1>1, <1>3
  <2>2. (m + 1) * C = m * C + 1 * C /\ 1 * C = C /\ m * C \in Nat
    BY <1>1, <1>3, <2>1, Distributes, ProductOfNats
  <2> QED BY <1>3, <2>2
<1> HIDE DEF w
\* The cells of the word under way, with this one.
<1>8. dbyte < C => \A i \in 1 .. (dbyte + 1) : w[C - (dbyte + 1) + i] = sent'[m * C + i]
  <2> HIDE DEF m
  <2> SUFFICES ASSUME dbyte < C, NEW i \in 1 .. (dbyte + 1)
               PROVE  w[C - (dbyte + 1) + i] = sent'[m * C + i]
    OBVIOUS
  <2>1. CASE i = dbyte + 1
    <3>1. C - (dbyte + 1) + i = C /\ m * C + i = Len(sent) + 1
      BY <1>1, <1>4, <1>7, <2>1
    <3> QED BY <1>5, <1>6, <3>1
  <2>2. CASE i \in 1 .. dbyte
    <3> DEFINE h == C - (dbyte + 1) + i
    <3>1. h \in 1 .. (C - 1) /\ h + 1 = C - dbyte + i
      BY <1>1, <1>4, <2>2
    <3> HIDE DEF h
    <3>2. w[h] = curword[C - dbyte + i]
      BY <1>5, <3>1
    <3>3. m * C + i \in 1 .. Len(sent)
      BY <1>4, <1>7, <2>2
    <3>4. sent'[m * C + i] = sent[m * C + i]
      BY <1>6, <3>3
    <3>5. curword[C - dbyte + i] = sent[m * C + i]
      BY <1>4, <2>2
    <3> QED BY <3>2, <3>4, <3>5 DEF h
  <2> QED BY <1>4, <2>1, <2>2
<1>9. CASE whole /\ ~abort
  <2>1. /\ dbyte = C - 1 /\ addr < N /\ ecs' = [ecs EXCEPT ![addr] = Dp!OfCells(w)] /\ addr \in DOMAIN ecs
        /\ dbyte' = 0 /\ addr' = addr + 1
    <3>1. dbyte + 1 = C /\ ~ (addr >= N)
      BY <1>1, <1>9
    <3>2. ecs' = [ecs EXCEPT ![addr] = Dp!OfCells(w)] /\ dbyte' = 0 /\ addr' = addr + 1
      BY <1>2, <1>9
    <3> QED BY <1>1, <1>3, <1>4, <3>1, <3>2
  <2>2. Len(sent') = (m + 1) * C /\ addr' - first' = m + 1
    <3> HIDE DEF m
    <3>1. addr - first = m
      BY DEF m
    <3> QED BY <1>1, <1>2, <1>3, <1>4, <1>6, <1>7, <2>1, <3>1
  <2>3. w = Dp!WordAt(sent', m)
    <3>1. \A i \in 1 .. C : w[i] = sent'[m * C + i]
      <4> HIDE DEF m
      <4>1. dbyte < C /\ dbyte + 1 = C
        BY <1>1, <2>1
      <4>2. \A i \in 1 .. C : C - (dbyte + 1) + i = i
        BY <1>1, <4>1
      <4> QED BY <1>8, <4>1, <4>2
    <3> HIDE DEF m
    <3>2. Dp!WordAt(sent', m) = [i \in 1 .. C |-> sent'[m * C + i]]
      BY DEF Dp!WordAt
    <3> QED BY <1>5, <3>1, <3>2
  <2>4. ASSUME NEW k \in Nat, (k + 1) * C <= Len(sent'), first + k < N
        PROVE  ecs'[first + k] = Dp!OfCells(Dp!WordAt(sent', k))
    <3> HIDE DEF m
    <3>1. k <= m
      <4>1. k * C \in Int /\ (k + 1) * C = k * C + C
        <5>1. (k + 1) * C = k * C + 1 * C /\ 1 * C = C /\ k * C \in Int
          BY <1>1, Distributes, ProductOfNats
        <5> QED BY <5>1
      <4>2. k * C + C <= m * C + C /\ C \in 1 .. C /\ C \in 0 .. C /\ m \in Int
        BY <1>1, <1>3, <1>7, <2>2, <2>4, <4>1
      <4> HIDE DEF C
      <4> QED BY <1>1, <4>2, WordsBefore
    <3>2. CASE k = m
      BY <1>7, <2>1, <2>3, <3>2
    <3>3. CASE k < m
      <4>1. (k + 1) * C <= m * C
        <5>1. k + 1 \in Int /\ m \in Int /\ k + 1 <= m /\ C \in Nat
          BY <1>1, <1>3, <3>3
        <5> QED BY <5>1, ProductGrows
      <4>2. (k + 1) * C <= Len(sent)
        <5>1. (k + 1) * C \in Int
          BY <1>1, ProductOfNats
        <5> QED BY <1>4, <1>7, <4>1, <5>1
      <4>3. ecs[first + k] = Dp!OfCells(Dp!WordAt(sent, k))
        BY <2>4, <4>2 DEF Crossing, SentWhole
      <4>4. Dp!WordAt(sent', k) = Dp!WordAt(sent, k)
        BY <1>2, <1>3, <4>2, WordKept
      <4>5. first + k # addr
        BY <1>3, <1>7, <3>3
      <4> HIDE DEF C
      <4> QED BY <2>1, <4>3, <4>4, <4>5
    <3> QED BY <1>3, <3>1, <3>2, <3>3
  <2>5. SentWhole'
    BY <1>2, <2>4 DEF SentWhole
  <2>6. Writing'
    <3>1. Len(sent') = (addr' - first') * C + 0
      <4> HIDE DEF m
      <4> QED BY <1>1, <1>7, <2>2
    <3> QED BY <1>1, <2>1, <3>1 DEF Writing
  <2>7. Begun' /\ Unused' /\ Reading' /\ got' \in Seq(Nat)
    <3>1. addr' - first' \in Nat
      BY <1>3, <2>2
    <3> QED BY <1>2, <1>3, <3>1 DEF Crossing, Begun, Unused, Reading
  <2> QED BY <2>5, <2>6, <2>7 DEF Crossing
<1>10. CASE ~ (whole /\ ~abort)
  <2>1. ecs' = ecs /\ dbyte' = dbyte + 1 /\ addr' = addr /\ (dbyte + 1 = C => addr >= N)
    <3>1. abort \/ ~whole
      BY <1>10
    <3>2. dbyte + 1 = C => addr >= N
      BY <1>1, <3>1
    <3> QED BY <1>2, <1>10, <3>1, <3>2
  <2>2. dbyte + 1 >= C => addr >= N
    BY <1>1, <1>4, <2>1
  <2>3. ASSUME NEW k \in Nat, (k + 1) * C <= Len(sent'), first + k < N
        PROVE  ecs'[first + k] = Dp!OfCells(Dp!WordAt(sent', k))
    <3> HIDE DEF m
    <3>1. k * C \in Int /\ (k + 1) * C = k * C + C
      <4>1. (k + 1) * C = k * C + 1 * C /\ 1 * C = C /\ k * C \in Int
        BY <1>1, Distributes, ProductOfNats
      <4> QED BY <4>1
    <3>2. k < m
      <4> SUFFICES ASSUME k >= m PROVE FALSE
        BY <1>3
      <4>1. m * C <= k * C
        <5>1. m \in Int /\ k \in Int /\ m <= k /\ C \in Nat
          BY <1>1, <1>3
        <5> QED BY <5>1, ProductGrows
      <4>2. dbyte + 1 >= C
        BY <1>1, <1>4, <1>6, <1>7, <2>3, <3>1, <4>1
      <4> QED BY <1>1, <1>3, <1>7, <2>2, <2>3, <4>2
    <3>3. (k + 1) * C <= Len(sent)
      <4>1. k + 1 \in Int /\ m \in Int /\ k + 1 <= m /\ C \in Nat
        BY <1>1, <1>3, <3>2
      <4>2. (k + 1) * C <= m * C
        BY <4>1, ProductGrows
      <4>3. (k + 1) * C \in Int
        BY <1>1, <3>1
      <4> QED BY <1>4, <1>7, <4>2, <4>3
    <3>4. ecs[first + k] = Dp!OfCells(Dp!WordAt(sent, k))
      BY <2>3, <3>3 DEF Crossing, SentWhole
    <3>5. Dp!WordAt(sent', k) = Dp!WordAt(sent, k)
      BY <1>2, <1>3, <3>3, WordKept
    <3> QED BY <2>1, <3>4, <3>5
  <2>4. SentWhole'
    BY <1>2, <2>3 DEF SentWhole
  <2>5. Writing'
    <3>1. Len(sent') = (addr' - first') * C + dbyte' /\ dbyte' \in Nat
      <4>1. addr' - first' = m
        BY <1>2, <2>1
      <4> HIDE DEF m
      <4> QED BY <1>4, <1>6, <1>7, <2>1, <4>1
    <3>2. dbyte' < C => \A i \in 1 .. dbyte' : curword'[C - dbyte' + i] = sent'[(addr' - first') * C + i]
      <4>1. addr' - first' = m /\ dbyte' = dbyte + 1 /\ curword' = w
        BY <1>2, <2>1
      <4> HIDE DEF m
      <4>2. dbyte + 1 < C => dbyte < C
        BY <1>1, <1>4
      <4> QED BY <1>8, <4>1, <4>2
    <3>3. (dbyte >= C => addr >= setup.ecsSize)'
      BY <1>2, <2>1, <2>2
    <3> QED BY <1>2, <3>1, <3>2, <3>3 DEF Writing
  <2>6. Begun' /\ Unused' /\ Reading' /\ got' \in Seq(Nat)
    BY <1>2, <1>3, <2>1 DEF Crossing, Begun, Unused, Reading
  <2> QED BY <2>4, <2>5, <2>6 DEF Crossing
<1> QED
  BY <1>9, <1>10

\* An instruction that writes no ECS.
LEMMA CpuLeavesEcs ==
    ASSUME NEW in, CpuStep(in), in.op \notin {"WE", "WXE"}
    PROVE  UNCHANGED ecs
<1>1. CASE EcsTransfer(in)
  <2>1. \/ UNCHANGED ecs \/ EcsAbort(Left(in)) \/ UNCHANGED ecsVars
        \/ (\E e : EcsRegister(in, e)) \/ (\E e, n : EcsBlock(in, e, n))
    BY <1>1, Zenon DEF EcsTransfer
  <2>2. ASSUME NEW e, EcsRegister(in, e) PROVE UNCHANGED ecs
    BY <2>2 DEF EcsRegister, ecsVars
  <2>3. ASSUME NEW e, NEW n, EcsBlock(in, e, n) PROVE UNCHANGED ecs
    BY <2>3 DEF EcsBlock, ecsVars
  <2> QED BY <2>1, <2>2, <2>3 DEF EcsAbort, memoryVars, ecsVars
<1>2. CASE InvalidPacking(in)
  BY <1>2 DEF InvalidPacking, memoryVars
<1>3. CASE Execute(in) /\ ~EcsTransfer(in)
  BY <1>3 DEF Execute, SetX, SetXB, SetB, SetA, Jump, RJ, PS, Pass, CmuMove, CmuCompare, ecsVars, memoryVars
<1> QED
  BY <1>1, <1>2, <1>3 DEF CpuStep

LEMMA NextCrosses ==
    ASSUME DdpAlone, NumbersFit, Crossing, [Next]_vars
    PROVE  Crossing'
<1> USE DEF NumbersFit
<1>1. CASE Cpu
  <2>1. PICK in \in CpuPrograms[setup.part] : CpuStep(in)
    BY <1>1 DEF Cpu
  <2>2. UNCHANGED <<setup, ddpVars>>
    BY <1>1 DEF Cpu
  <2>3. CASE DdpFunctions[setup.part] = {}
    <3>1. /\ fcode' = "none" /\ sent' = <<>> /\ got' = got /\ fcode = "none"
          /\ sent = <<>> /\ UNCHANGED first
      BY <2>2, <2>3 DEF Crossing, Unused, ddpVars
    <3>2. SentWhole'
      <4>1. \A k \in Nat : ~ ((k + 1) * CellsPerWord <= Len(<<>>))
        <5> TAKE k \in Nat
        <5> DEFINE n == k + 1
        <5>1. n \in Nat \ {0} /\ CellsPerWord \in Nat \ {0}
          BY CellsSize
        <5> HIDE DEF n
        <5>2. n * CellsPerWord \in Nat \ {0} /\ Len(<<>>) = 0
          BY <5>1, ProductOfNats
        <5> QED BY <5>2 DEF n
      <4> QED BY <3>1, <4>1 DEF SentWhole
    <3> QED BY <3>1, <3>2 DEF Crossing, Unused, Begun, Writing, Reading
  <2>4. CASE DdpFunctions[setup.part] # {}
    <3>1. in.op \notin {"WE", "WXE"}
      BY <2>4 DEF DdpAlone, CpuFits
    <3>2. UNCHANGED ecs
      BY <2>1, <3>1, CpuLeavesEcs
    <3> QED BY <2>2, <3>2, CrossingKept
  <2> QED BY <2>3, <2>4
<1>2. CASE Peripheral
  <2>1. UNCHANGED <<ddpVars, setup, ecs>>
    BY <1>2 DEF Peripheral, ecsVars
  <2> QED BY <2>1, CrossingKept
<1>3. CASE Driver
  BY <1>3, DriverCrosses
<1>4. CASE DdpIo
  <2>1. UNCHANGED setup /\ chActive /\ selected
        /\ (Dp!GiveStatus \/ Dp!TakeAddress \/ Dp!GiveCell \/ Dp!TakeCell)
    BY <1>4 DEF DdpIo, Dp!ddpIo
  <2> QED BY <2>1, StatusCrosses, AddressCrosses, GiveCellCrosses, TakeCellCrosses
<1>5. CASE UNCHANGED vars
  <2>1. UNCHANGED <<ddpVars, setup, ecs>>
    BY <1>5 DEF vars, memoryVars
  <2> QED BY <2>1, CrossingKept
<1> QED
  BY <1>1, <1>2, <1>3, <1>4, <1>5 DEF Next

\* What the invariant says of a transfer is that it is whole.
LEMMA CrossingExact ==
    ASSUME CpuFits, DdpFits, Crossing
    PROVE  Dp!DdpExact
<1> DEFINE C == CellsPerWord
           N == setup.ecsSize
           m == addr - first
<1>1. C \in Nat \ {0} /\ C > 1 /\ N \in Nat /\ Dp!EcsSize = N
  BY CellsSize, SetupIs, EcsSizeIs, SameCardinalities DEF Dp!EcsSize, EcsSize, CpuFits
<1>2. Len(sent) \in Nat /\ Len(got) \in Nat
  <2>1. sent \in Seq(Nat) /\ got \in Seq(Nat)
    BY DEF Crossing, DdpFits, DdpNumbers
  <2> QED BY <2>1
<1>3. ASSUME NEW k \in 0 .. (Dp!Words(sent) - 1), first + k < Dp!EcsSize
      PROVE  ecs[first + k] = Dp!OfCells(Dp!WordAt(sent, k))
  <2> DEFINE q == Len(sent) \div C
             l == Len(sent)
  <2>1. Dp!Words(sent) = q
    BY DEF Dp!Words
  <2>2. q \in Nat /\ q * C <= l /\ l \in Nat /\ k \in Nat /\ k + 1 <= q
    <3>1. l \in Nat
      BY <1>2
    <3> HIDE DEF l
    <3>2. l \div C \in Nat /\ l % C \in 0 .. (C - 1) /\ l = (l \div C) * C + (l % C)
      <4> HIDE DEF C
      <4> QED BY <1>1, <3>1, NatDivided
    <3> DEFINE p == l \div C
               r == l % C
    <3>3. p \in Nat /\ r \in Nat /\ l = p * C + r /\ p = q
      BY <1>1, <3>2 DEF l
    <3> HIDE DEF p, r, q
    <3>4. p * C <= l
      <4>1. p * C \in Int
        BY <1>1, <3>3, ProductOfNats
      <4> QED BY <3>3, <4>1
    <3> QED BY <2>1, <3>1, <3>3, <3>4
  <2> HIDE DEF q
  <2>3. (k + 1) * C <= q * C
    <3>1. k + 1 \in Int /\ q \in Int /\ k + 1 <= q /\ C \in Nat
      BY <1>1, <2>2
    <3> QED BY <3>1, ProductGrows
  <2>4. (k + 1) * C <= Len(sent)
    <3>1. (k + 1) * C \in Int /\ q * C \in Int
      BY <1>1, <2>2, ProductOfNats
    <3> QED BY <2>2, <2>3, <3>1
  <2> QED BY <1>1, <1>3, <2>2, <2>4 DEF Crossing, SentWhole
<1>4. ASSUME fcode = "read", first # -1, ~Dp!FlagReference(first), NEW n \in 1 .. Len(got)
      PROVE  LET k == (n - 1) \div CellsPerWord
             IN  IF first + k < Dp!EcsSize
                 THEN got[n] = Dp!ToCells(ecs[first + k])[((n - 1) % CellsPerWord) + 1]
                 ELSE n = Len(got) /\ n % CellsPerWord = 1 /\ stat = "abort" /\ ~chActive
  <2> DEFINE k == (n - 1) \div C
             i == ((n - 1) % C) + 1
  <2>1. k \in Nat /\ i \in 1 .. C /\ n = k * C + i /\ n \in Nat
    <3> DEFINE h == n - 1
               x == h \div C
               y == h % C
    <3>1. h \in Nat /\ n \in Nat /\ n = h + 1
      BY <1>2
    <3> HIDE DEF h
    <3>2. x \in Nat /\ y \in 0 .. (C - 1) /\ h = x * C + y
      <4> HIDE DEF C
      <4> QED BY <1>1, <3>1, NatDivided
    <3> HIDE DEF x, y
    <3>3. x * C \in Int
      BY <1>1, <3>2, ProductOfNats
    <3>4. y + 1 \in 1 .. C /\ n = x * C + (y + 1)
      BY <1>1, <3>1, <3>2, <3>3
    <3> QED BY <3>1, <3>2, <3>4 DEF x, y, h
  <2>2. abyte = 2 /\ first \in Nat /\ m \in Nat /\ addr \in Nat /\ first + m = addr
    <3>1. abyte = 2
      BY <1>4 DEF DdpFits, DdpNumbers, Crossing, Begun
    <3>2. first \in Nat /\ m \in Nat
      BY <1>4, <3>1 DEF Crossing, Begun
    <3>3. addr \in Nat
      BY DEF DdpFits, DdpNumbers
    <3> QED BY <3>1, <3>2, <3>3
  <2>3. /\ dbyte = -1 => GivenCells = m * C
        /\ dbyte # -1 => dbyte \in 1 .. (C - 1) /\ GivenCells = m * C + dbyte /\ Underway
        /\ addr > first => addr - 1 < N
        /\ Given(n, got[n])
    BY <1>4, <2>2, SameFlags DEF Crossing, Reading
  <2> HIDE DEF k, i, m
  <2>4. CASE first + k < N
    <3>1. got[n] = CellAt(first + k, i)
      BY <2>1, <2>3, <2>4 DEF Given
    <3> QED BY <1>1, <2>4, <3>1 DEF CellAt, k, i
  <2>5. CASE ~ (first + k < N)
    <3>1. n <= GivenCells /\ GivenCells \in {Len(got), Len(got) + 1} /\ (chFull => GivenCells = Len(got) + 1)
      BY <1>2 DEF GivenCells
    <3>2. m * C \in Nat /\ k * C \in Nat
      BY <1>1, <2>1, <2>2, ProductOfNats
    <3>3. dbyte # -1
      <4> SUFFICES ASSUME dbyte = -1 PROVE FALSE
        OBVIOUS
      <4>1. k * C + i <= m * C + 0 /\ 0 \in 0 .. C
        BY <1>1, <2>1, <2>3, <3>1, <3>2
      <4>2. k <= m /\ k # m
        <5>1. k \in Int /\ m \in Int
          BY <2>1, <2>2
        <5>2. k <= m
          <6> HIDE DEF C
          <6> QED BY <1>1, <2>1, <4>1, <5>1, WordsBefore
        <5>3. k # m
          BY <1>1, <2>1, <3>2, <4>1
        <5> QED BY <5>2, <5>3
      <4> QED BY <1>1, <2>1, <2>2, <2>3, <2>5, <4>2
    <3>4. dbyte \in 1 .. (C - 1) /\ GivenCells = m * C + dbyte /\ Underway
      BY <2>3, <3>3
    <3>5. k <= m
      <4>1. k * C + i <= m * C + dbyte /\ dbyte \in 0 .. C /\ k \in Int /\ m \in Int
        BY <1>1, <2>1, <2>2, <3>1, <3>2, <3>4
      <4> HIDE DEF C
      <4> QED BY <1>1, <2>1, <4>1, WordsBefore
    <3>6. k = m /\ ~ (addr < N)
      BY <1>1, <2>1, <2>2, <2>3, <2>5, <3>5
    <3>7. dbyte = 1 /\ stat = "abort" /\ (~chFull => ~chActive)
      BY <3>4, <3>6 DEF Underway
    <3>8. i = 1 /\ n = GivenCells
      BY <1>1, <2>1, <3>1, <3>2, <3>4, <3>6, <3>7
    <3>9. n = Len(got) /\ ~chFull
      BY <1>2, <3>1, <3>8
    <3>10. n % C = 1
      <4>1. k \in Int /\ 1 \in 0 .. (C - 1) /\ n = k * C + 1
        BY <1>1, <2>1, <3>8
      <4> HIDE DEF C
      <4>2. (k * C + 1) % C = 1
        BY <1>1, <4>1, DividedIs
      <4> QED BY <4>1, <4>2
    <3> QED BY <1>1, <2>5, <3>7, <3>9, <3>10 DEF k
  <2> QED BY <2>4, <2>5
<1> QED
  BY <1>3, <1>4, Zenon DEF Dp!DdpExact

\* Words cross the DDP whole: where a PP writes, ECS has from the first address on what the PP
\* sent, word by word, and where it reads it gets what ECS holds, cell by cell, but for one
\* cell after an abort, behind which the channel is dropped; with functions, disconnects and
\* clears at any time in between (ddpFunc, ddpIo, ddpActivate of ddp.c).  Nobody else writes
\* ECS meanwhile.  With it go the types and the lock.
THEOREM ProcessorsAreSafe ==
    ASSUME FieldsFit, FlagsApart, DdpAlone PROVE Spec => []ProcessorsSafe
<1> DEFINE Inv == NumbersFit /\ Crossing
<1>1. Init => Inv
  BY NumbersFitFirst, CrossingFirst
<1>2. Inv /\ [Next]_vars => Inv'
  BY NextFits, NextCrosses
<1>3. Inv => Dp!DdpExact
  BY CrossingExact DEF NumbersFit
<1>4. Spec => []Dp!DdpExact
  BY <1>1, <1>2, <1>3, PTL DEF Spec
<1>5. Spec => []TypeOK
  BY ProcessorsTypes
<1>6. Spec => []LockExclusive
  BY FlagsExclude
<1>7. TypeOK /\ LockExclusive /\ Dp!DdpExact => ProcessorsSafe
  BY DEF ProcessorsSafe
<1> QED
  BY <1>4, <1>5, <1>6, <1>7, PTL
-----------------------------------------------------------------------------
(* Blocks arrive as they are. *)

\* A run of numbers no longer than the ring meets none of its places twice.
LEMMA SameRemainder ==
    ASSUME NEW d \in Nat \ {0}, NEW b \in Int, NEW j \in Nat, NEW k \in Nat, j < d, k < d,
           (b + j) % d = (b + k) % d
    PROVE  j = k
<1> DEFINE x == b + j
           y == b + k
           q == x \div d
           p == y \div d
           r == x % d
<1>1. x \in Int /\ y \in Int /\ x - y = j - k /\ r = y % d
  OBVIOUS
<1> HIDE DEF x, y
<1>2. q \in Int /\ p \in Int /\ r \in 0 .. (d - 1) /\ x = q * d + r /\ y = p * d + r
  BY <1>1, Divided
<1> HIDE DEF q, p, r
<1>3. (q - p) * d = q * d - p * d /\ q * d \in Int /\ p * d \in Int /\ (q - p) * d \in Int
  BY <1>2, Distributes, ProductType
<1>4. (q - p) * d = j - k
  BY <1>1, <1>2, <1>3
<1>5. 1 * d = d /\ (0 - 1) * d = 0 - d
  OBVIOUS
<1>6. (q - p) * d < 1 * d /\ (0 - 1) * d < (q - p) * d
  BY <1>4, <1>5
<1>7. q - p < 1 /\ 0 - 1 < q - p
  <2>1. q - p \in Int /\ 1 \in Int /\ 0 - 1 \in Int
    BY <1>2
  <2> QED BY <1>6, <2>1, FactorsCompare
<1>8. q = p
  BY <1>2, <1>7
<1> QED
  BY <1>1, <1>2, <1>8

\* A number of cells and a word's cell.
LEMMA CellNumber ==
    ASSUME NEW n \in Nat, NEW k \in 0 .. (n - 1), NEW i \in 0 .. (CellsPerWord - 1)
    PROVE  /\ k * CellsPerWord + i \in 0 .. (n * CellsPerWord - 1)
           /\ (k * CellsPerWord + i) \div CellsPerWord = k /\ (k * CellsPerWord + i) % CellsPerWord = i
<1> DEFINE C == CellsPerWord
<1>1. C \in Nat \ {0} /\ k \in Int /\ k \in Nat
  BY PpSizes
<1> HIDE DEF C
<1>2. (k * C + i) \div C = k /\ (k * C + i) % C = i
  <2>1. i \in 0 .. (C - 1)
    BY DEF C
  <2> QED BY <1>1, <2>1, DividedIs
<1>3. k * C <= (n - 1) * C /\ (n - 1) * C = n * C - 1 * C /\ 1 * C = C
  <2>1. k \in Int /\ n - 1 \in Int /\ k <= n - 1 /\ C \in Nat
    BY <1>1
  <2> QED BY <2>1, ProductGrows, Distributes
<1>4. k * C \in Nat /\ n * C \in Nat
  BY <1>1, ProductType
<1>5. k * C + i \in 0 .. (n * C - 1)
  <2>1. i \in 0 .. (C - 1)
    BY DEF C
  <2> QED BY <1>1, <1>3, <1>4, <2>1
<1> QED
  BY <1>2, <1>5 DEF C

\* A block that a PP reads: each word's cells in turn, and nothing else.
LEMMA ReadToExact ==
    ASSUME CpuFits, NEW m \in [Pp!Cell -> Pp!Cell], NEW at \in Nat, NEW a \in Int, NEW n \in Nat,
           n * CellsPerWord <= Pp!Cells
    PROVE  /\ \A k \in 0 .. (n - 1), i \in 0 .. (CellsPerWord - 1) :
                 Pp!ReadTo(m, at, a, n)[(at + (k * CellsPerWord + i)) % Pp!Cells]
                 = Pp!CellOf(cm[Pp!CmAddress(a + k)], i)
           /\ \A c \in Pp!Cell : (\A j \in 0 .. (n * CellsPerWord - 1) : (at + j) % Pp!Cells # c)
                                 => Pp!ReadTo(m, at, a, n)[c] = m[c]
<1> DEFINE total == n * CellsPerWord
           word(k) == cm[Pp!CmAddress(a + k \div CellsPerWord)]
           at_(k) == (at + k) % Pp!Cells
           S(c) == {k \in 0 .. (total - 1) : at_(k) = c}
           hit == {at_(k) : k \in 0 .. (total - 1)}
           new == [c \in Pp!Cell |-> IF c \in hit
                                     THEN Pp!CellOf(word(Max(S(c))), Max(S(c)) % CellsPerWord)
                                     ELSE m[c]]
<1>1. total \in Nat /\ CellsPerWord \in Nat \ {0} /\ Pp!Cells \in Nat \ {0}
  BY PpSizes, ProductType
<1>2. Pp!ReadTo(m, at, a, n) = new
  BY SameMax, Zenon DEF Pp!ReadTo, total, at_, word
<1>3. \A k \in Nat : at_(k) \in Pp!Cell
  <2>1. \A k \in Nat : at + k \in Int
    OBVIOUS
  <2> QED BY <2>1, CellType
<1>4. ASSUME NEW k \in 0 .. (total - 1) PROVE Max(S(at_(k))) = k
  <2> DEFINE T == S(at_(k))
  <2>1. k \in T /\ T \in SUBSET Nat /\ \A j \in T : j <= total
    BY <1>1
  <2>2. ASSUME NEW j \in T PROVE j = k
    <3> DEFINE d == Pp!Cells
    <3>1. d \in Nat \ {0} /\ j \in Nat /\ k \in Nat /\ j < d /\ k < d /\ (at + j) % d = (at + k) % d
          /\ at \in Int
      BY <1>1, <2>2
    <3> HIDE DEF d
    <3> QED BY <3>1, SameRemainder
  <2> HIDE DEF T
  <2>3. Max(T) \in T
    BY <1>1, <2>1, Greatest
  <2> QED BY <2>2, <2>3 DEF T
<1>5. ASSUME NEW k \in 0 .. (n - 1), NEW i \in 0 .. (CellsPerWord - 1)
      PROVE  new[at_(k * CellsPerWord + i)] = Pp!CellOf(cm[Pp!CmAddress(a + k)], i)
  <2> DEFINE j == k * CellsPerWord + i
  <2>1. j \in 0 .. (total - 1) /\ j \div CellsPerWord = k /\ j % CellsPerWord = i
    BY CellNumber
  <2> HIDE DEF j
  <2>2. at_(j) \in hit /\ at_(j) \in Pp!Cell /\ Max(S(at_(j))) = j
    <3>1. j \in Nat
      BY <1>1, <2>1
    <3> HIDE DEF S, at_
    <3> QED BY <1>3, <1>4, <2>1, <3>1
  <2> DEFINE c == at_(j)
  <2>3. new[c] = Pp!CellOf(word(j), j % CellsPerWord)
    <3>1. c \in hit /\ c \in Pp!Cell /\ Max(S(c)) = j
      BY <2>2
    <3> HIDE DEF c, hit, S, word
    <3> QED BY <3>1
  <2> HIDE DEF new
  <2>4. new[at_(j)] = Pp!CellOf(cm[Pp!CmAddress(a + k)], i)
    BY <2>1, <2>3
  <2> QED BY <2>4 DEF j
<1>6. ASSUME NEW c \in Pp!Cell, \A j \in 0 .. (total - 1) : at_(j) # c
      PROVE  new[c] = m[c]
  <2>1. c \notin hit
    BY <1>6
  <2> HIDE DEF hit
  <2> QED BY <2>1
<1> HIDE DEF new
<1> QED
  BY <1>2, <1>5, <1>6

\* A block that a PP writes, to addresses of which none is met twice.
LEMMA WrittenFromExact ==
    ASSUME CpuFits, NEW m \in [Pp!Cell -> Pp!Cell], NEW at \in Nat, NEW a \in Int, NEW n \in Nat,
           \A j, k \in 0 .. (n - 1) : Pp!CmAddress(a + j) = Pp!CmAddress(a + k) => j = k
    PROVE  \A k \in 0 .. (n - 1), i \in 0 .. (CellsPerWord - 1) :
               Pp!CellOf(Pp!WrittenFrom(m, at, a, n)[Pp!CmAddress(a + k)], i)
               = m[(at + (k * CellsPerWord + i)) % Pp!Cells]
<1> DEFINE S(w) == {k \in 0 .. (n - 1) : Pp!CmAddress(a + k) = w}
           hit == {Pp!CmAddress(a + k) : k \in 0 .. (n - 1)}
           new == [w \in DOMAIN cm |-> IF w \in hit
                                       THEN Pp!WordOfCells(m, at + Max(S(w)) * CellsPerWord) ELSE cm[w]]
<1> SUFFICES ASSUME NEW k \in 0 .. (n - 1), NEW i \in 0 .. (CellsPerWord - 1)
             PROVE  Pp!CellOf(Pp!WrittenFrom(m, at, a, n)[Pp!CmAddress(a + k)], i)
                    = m[(at + (k * CellsPerWord + i)) % Pp!Cells]
  OBVIOUS
<1>1. Pp!WrittenFrom(m, at, a, n) = new
  BY SameMax, Zenon DEF Pp!WrittenFrom
<1> DEFINE w == Pp!CmAddress(a + k)
<1>2. Max(S(w)) = k
  <2> DEFINE T == S(w)
  <2>1. k \in T /\ T \in SUBSET Nat /\ \A j \in T : j <= n
    OBVIOUS
  <2>2. \A j \in T : j = k
    OBVIOUS
  <2> HIDE DEF T
  <2>3. Max(T) \in T
    BY <2>1, Greatest
  <2> QED BY <2>2, <2>3 DEF T
<1>3. w \in DOMAIN cm /\ w \in hit
  <2>1. a + k \in Int
    OBVIOUS
  <2>2. w \in 0 .. (setup.cmSize - 1)
    BY <2>1, CmAddressType
  <2> QED BY <2>2 DEF CpuFits
<1>4. new[w] = Pp!WordOfCells(m, at + k * CellsPerWord)
  <2> HIDE DEF w, hit, S
  <2> QED BY <1>2, <1>3
<1> HIDE DEF new, w
<1>5. CellBits \in Nat /\ CellsPerWord \in Nat /\ k * CellsPerWord \in Nat
  <2>1. k \in Nat
    OBVIOUS
  <2> QED BY <2>1, PpSizes, ProductType
<1> DEFINE b == at + k * CellsPerWord
<1>6. b \in Nat /\ b + i = at + (k * CellsPerWord + i)
  BY <1>5
<1> HIDE DEF b
<1>7. Pp!CellOf(Pp!WordOfCells(m, b), i) = m[(b + i) % Pp!Cells]
  BY <1>5, <1>6, WordOfCellsType
<1> QED
  BY <1>1, <1>4, <1>6, <1>7 DEF b, w

\* The blocks of CRM and CWM.
LEMMA PpBlocksAre ==
    ASSUME CpuFits, PpFits, NEW in \in Pp!Instructions, Pp!PpStep(in)
    PROVE  Pp!PpBlocksExact(in)
<1> DEFINE n == ppMem[in.d]
           at == Pp!Following
           fits == n * CellsPerWord <= Pp!Cells
           covered == \E k \in 0 .. (n * CellsPerWord - 1) : (at + k) % Pp!Cells = 0
           separate == \A j, k \in 0 .. (n - 1) : Pp!CmAddress(ppA + j) = Pp!CmAddress(ppA + k) => j = k
           Read == \A k \in 0 .. (n - 1), i \in 0 .. (CellsPerWord - 1) :
                       ppMem'[(at + (k * CellsPerWord + i)) % Pp!Cells]
                       = Pp!CellOf(cm[Pp!CmAddress(ppA + k)], i)
           Wrote == \A k \in 0 .. (n - 1), i \in 0 .. (CellsPerWord - 1) :
                        Pp!CellOf(cm'[Pp!CmAddress(ppA + k)], i)
                        = ppMem'[(at + (k * CellsPerWord + i)) % Pp!Cells]
<1>1. in.d \in Pp!Cell
  BY PpInstructionIs
<1>2. Pp!Next \in Pp!Cell /\ at \in Pp!Cell /\ n \in Pp!Cell
  BY <1>1, PpInstructionIs, LocationType
<1>3. at \in Nat /\ n \in Nat
  BY <1>2, CellType
<1>4. Pp!Saved \in [Pp!Cell -> Pp!Cell] /\ ppA \in Int /\ Pp!Saved[0] = Pp!Next /\ 0 \in Pp!Cell
  BY <1>2, PpSizes, AccumulatorIs DEF PpFits, Pp!Saved
<1>5. ASSUME in.op = "CRM", fits
      PROVE  Read /\ (~covered => ppP' = Pp!PpIncrement(Pp!Next) /\ ppMem'[0] = Pp!Next)
  <2>1. Pp!CRM(in)
    BY <1>5 DEF Pp!PpStep, Pp!Load, Pp!Replace, Pp!Store, Pp!SHN, Pp!PSN, Pp!RPN, Pp!ShortJump,
                Pp!LJM, Pp!RJM, Pp!CRD, Pp!CWD, Pp!CWM, Pp!Loads, Pp!Replaces
  <2>2. ppMem' = Pp!ReadTo(Pp!Saved, at, ppA, n) /\ ppP' = Pp!PpIncrement(ppMem'[0])
    BY <2>1 DEF Pp!CRM
  <2> HIDE DEF n, at
  <2>3. Read
    BY <1>3, <1>4, <1>5, <2>2, ReadToExact
  <2>4. ASSUME ~covered PROVE ppMem'[0] = Pp!Next
    <3>1. \A j \in 0 .. (n * CellsPerWord - 1) : (at + j) % Pp!Cells # 0
      BY <2>4
    <3>2. Pp!ReadTo(Pp!Saved, at, ppA, n)[0] = Pp!Saved[0]
      BY <1>3, <1>4, <1>5, <3>1, ReadToExact
    <3> QED BY <1>4, <2>2, <3>2
  <2> HIDE DEF Read, covered
  <2> QED BY <2>2, <2>3, <2>4
<1>6. ASSUME in.op = "CWM", fits, separate
      PROVE  Wrote /\ ppP' = Pp!PpIncrement(Pp!Next)
  <2>1. Pp!CWM(in)
    BY <1>6 DEF Pp!PpStep, Pp!Load, Pp!Replace, Pp!Store, Pp!SHN, Pp!PSN, Pp!RPN, Pp!ShortJump,
                Pp!LJM, Pp!RJM, Pp!CRD, Pp!CWD, Pp!CRM, Pp!Loads, Pp!Replaces
  <2>2. cm' = Pp!WrittenFrom(Pp!Saved, at, ppA, n) /\ ppMem' = Pp!Saved
        /\ ppP' = Pp!PpIncrement(Pp!Next)
    BY <2>1 DEF Pp!CWM
  <2> HIDE DEF n, at
  <2>3. Wrote
    BY <1>3, <1>4, <1>6, <2>2, WrittenFromExact
  <2> QED BY <2>2, <2>3
<1> QED
  BY <1>5, <1>6, Zenon DEF Pp!PpBlocksExact

-----------------------------------------------------------------------------
(* Words between central memory and ECS. *)

\* A place within a ring is found again behind its start.
LEMMA PlaceBack ==
    ASSUME NEW d \in Nat \ {0}, NEW f \in Int, NEW k \in Nat, k < d
    PROVE  (((f + k) % d) - f) % d = k
<1> DEFINE a == (f + k) % d
           t == (a - f) % d
<1>1. f + k \in Int
  OBVIOUS
<1>2. a \in 0 .. (d - 1)
  <2> DEFINE x == f + k
  <2>1. x \in Int
    BY <1>1
  <2> HIDE DEF x
  <2> QED BY <2>1, RemainderIs DEF x
<1>3. (f + t) % d = (f + k) % d
  BY <1>2, ModBack
<1>4. t \in Nat /\ t < d
  <2> DEFINE x == a - f
  <2>1. x \in Int
    BY <1>2
  <2> HIDE DEF x
  <2> QED BY <2>1, RemainderType DEF x
<1> HIDE DEF t
<1>5. t = k
  BY <1>3, <1>4, SameRemainder
<1> QED
  BY <1>5 DEF t

\* What is read from ECS is at its place.
LEMMA ReadExact ==
    ASSUME CpuFits, FieldsFit, WordsApart, NEW e \in Nat, NEW c \in Address, NEW n \in Nat,
           c + n <= FlCm, NEW k \in 0 .. (n - 1)
    PROVE  ReadWords(e, c, n)[Absolute(c + k)] = EcsWord(e + k)
<1> DEFINE R == Ring
           start == Add(Counts, setup.raCm, c)
           target(b) == (b - start) % R
           a == Absolute(c + k)
<1>1. FlCm \in Nat /\ R \in Nat \ {0} /\ FlCm <= R /\ c \in Nat /\ setup.raCm \in Nat
  BY SetupIs, RingIs, AddressType DEF CpuFits, FlCm
<1>2. k \in Nat /\ k < n /\ k < R /\ c + k < FlCm /\ c + k \in Nat
  BY <1>1
<1>3. a = (start + k) % R
  BY <1>1, <1>2, BlockWordIs DEF BlockWord
<1>4. start \in Int
  <2>1. setup.raCm \in Int /\ c \in Int
    BY <1>1
  <2> QED BY <2>1, Sizes, IntegerType
<1>5. a \in DOMAIN cm
  BY <1>2, AbsoluteIs DEF CpuFits
<1> HIDE DEF start, a, R
<1>6. a < R
  <2> DEFINE x == start + k
  <2>1. x \in Int
    BY <1>2, <1>4
  <2> HIDE DEF x
  <2>2. x % R \in 0 .. (R - 1)
    BY <1>1, <2>1, QuotientType
  <2> QED BY <1>1, <1>3, <2>2 DEF x
<1>7. target(a) = k
  BY <1>1, <1>2, <1>3, <1>4, PlaceBack
<1>8. ReadWords(e, c, n)
          = [b \in DOMAIN cm |-> IF b < R /\ target(b) < n THEN EcsWord(e + target(b)) ELSE cm[b]]
  BY DEF ReadWords, start, R
<1>9. ReadWords(e, c, n)[a] = EcsWord(e + k)
  <2> HIDE DEF target
  <2> QED BY <1>2, <1>5, <1>6, <1>7, <1>8
<1> QED
  BY <1>9 DEF a

\* Below the flag references an address is none of them.
LEMMA NoReference ==
    ASSUME NEW a \in Nat, a < 2^(EcsBits - 1)
    PROVE  ~FlagReference(a)
<1> DEFINE h == 2^(EcsBits - 1)
<1>1. h \in Nat \ {0}
  <2>1. EcsBits - 1 \in Nat
    BY EcsAssumption
  <2> QED BY <2>1, PowerType
<1>2. a \div h = 0
  <2>1. a < h
    OBVIOUS
  <2> HIDE DEF h
  <2>2. 0 * h + a = a /\ a \in 0 .. (h - 1)
    BY <1>1, <2>1
  <2>3. (0 * h + a) \div h = 0
    BY <1>1, <2>2, DividedIs
  <2> QED BY <2>2, <2>3
<1> QED
  BY <1>2 DEF FlagReference

\* What is written to ECS is at its place, up to the end of ECS, where the transfer fails.
LEMMA WrittenExact ==
    ASSUME CpuFits, FieldsFit, WordsApart, NEW e \in Nat, NEW c \in Address, NEW n \in Nat,
           e + n <= setup.flEcs, c + n <= FlCm, e + setup.raEcs + n <= 2^(EcsBits - 1)
    PROVE  LET ea == e + setup.raEcs
               s == Written(ea, c, n)
           IN  /\ s.failed <=> n > 0 /\ ea + n > EcsSize
               /\ \A k \in 0 .. (n - 1) : ea + k < EcsSize => s.ecs[ea + k] = cm[Absolute(c + k)]
<1> DEFINE ea == e + setup.raEcs
           word(k) == cm[BlockWord(c, k)]
           N == EcsSize
           Is(s, k) == /\ s.failed <=> k > 0 /\ ea + k > N
                       /\ \A j \in 0 .. (k - 1) : ea + j < N => s.ecs[ea + j] = word(j)
<1>1. N \in Nat /\ ea \in Nat /\ N = setup.ecsSize /\ FlCm \in Nat /\ c \in Nat
  <2>1. setup.raEcs \in Nat /\ FlCm \in Nat
    BY SetupIs DEF CpuFits, FlCm
  <2>2. c \in Nat
    BY AddressType
  <2>3. ea \in Nat
    BY <2>1
  <2> QED BY <2>1, <2>2, <2>3, EcsSizeIs
<1>2. PICK g \in [0 .. n -> Transfers] :
          /\ g[0] = [ecs |-> ecs, flags |-> ecsFlagRegister, failed |-> FALSE]
          /\ g[n] = Written(ea, c, n)
          /\ \A k \in 0 .. (n - 1) :
                g[k + 1] = IF g[k].failed THEN g[k] ELSE EcsWritten(g[k], ea + k, word(k))
  BY WrittenRuns
<1>3. \A s \in Transfers : /\ s.ecs \in [0 .. (N - 1) -> Word] /\ s.failed \in BOOLEAN
                           /\ s \in [ecs : {s.ecs}, flags : {s.flags}, failed : {s.failed}]
  BY <1>1 DEF Transfers
<1> DEFINE T == {k \in Nat : k <= n => Is(g[k], k)}
<1>4. 0 \in T
  BY <1>2
<1>5. ASSUME NEW k \in Nat, k \in T PROVE k + 1 \in T
  <2> SUFFICES ASSUME k + 1 <= n PROVE Is(g[k + 1], k + 1)
    OBVIOUS
  <2> DEFINE s == g[k]
             t == g[k + 1]
  <2>1. k \in 0 .. (n - 1) /\ k \in 0 .. n /\ Is(s, k) /\ k \in Int /\ ea + k \in Nat
    BY <1>1, <1>5
  <2>2. s \in Transfers /\ t = IF s.failed THEN s ELSE EcsWritten(s, ea + k, word(k))
    BY <1>2, <2>1
  <2>3. ~FlagReference(ea + k)
    <3> DEFINE h == 2^(EcsBits - 1)
    <3>1. ea + n <= h /\ h \in Nat
      <4>1. EcsBits - 1 \in Nat
        BY EcsAssumption
      <4> QED BY <4>1, PowerType
    <3> HIDE DEF h, ea
    <3>2. ea + k < h
      BY <1>1, <2>1, <3>1
    <3> QED BY <2>1, <3>2, NoReference DEF h
  <2> HIDE DEF s, t, T, word, ea, N
  <2>4. CASE s.failed
    <3>1. t = s /\ ea + k > N /\ k > 0
      BY <2>1, <2>2, <2>4
    <3>2. ea + (k + 1) > N /\ k + 1 > 0 /\ (k + 1) - 1 = k
      BY <1>1, <2>1, <3>1
    <3>3. ASSUME NEW j \in 0 .. k, ea + j < N PROVE s.ecs[ea + j] = word(j)
      <4>1. j \in 0 .. (k - 1)
        BY <1>1, <2>1, <3>1, <3>3
      <4> QED BY <2>1, <3>3, <4>1
    <3> QED BY <2>4, <3>1, <3>2, <3>3 DEF t
  <2>5. CASE ~s.failed /\ ea + k >= N
    <3>1. t = [s EXCEPT !.failed = TRUE]
      <4>1. ea + k >= EcsSize
        BY <2>5 DEF N
      <4> QED BY <2>2, <2>3, <2>5, <4>1 DEF EcsWritten
    <3>2. t.failed = TRUE /\ t.ecs = s.ecs
      BY <1>3, <2>2, <3>1
    <3> QED BY <1>1, <2>1, <2>5, <3>2 DEF t
  <2>6. CASE ~s.failed /\ ~(ea + k >= N)
    <3>1. t = [s EXCEPT !.ecs[ea + k] = word(k)]
      <4>1. ~(ea + k >= EcsSize)
        BY <2>6 DEF N
      <4> QED BY <2>2, <2>3, <2>6, <4>1 DEF EcsWritten
    <3>2. t.failed = FALSE /\ t.ecs = [s.ecs EXCEPT ![ea + k] = word(k)]
      BY <1>3, <2>2, <2>6, <3>1
    <3>3. s.ecs \in [0 .. (N - 1) -> Word]
      BY <1>3, <2>2
    <3>4. \A j \in 0 .. k : ea + j < N => t.ecs[ea + j] = word(j)
      <4>1. ASSUME NEW j \in 0 .. k, ea + j < N PROVE t.ecs[ea + j] = word(j)
        <5>1. ea + j \in 0 .. (N - 1) /\ (ea + j = ea + k <=> j = k) /\ (j # k => j \in 0 .. (k - 1))
          BY <1>1, <2>1, <4>1
        <5> QED BY <2>1, <3>2, <3>3, <4>1, <5>1
      <4> QED BY <4>1
    <3>5. ~(ea + (k + 1) > N) /\ (k + 1) - 1 = k
      BY <1>1, <2>1, <2>6
    <3> QED BY <3>2, <3>4, <3>5 DEF t
  <2>7. s.failed \/ ~s.failed
    OBVIOUS
  <2> QED BY <2>4, <2>5, <2>6
<1>6. Is(g[n], n)
  <2>1. Nat \subseteq T
    <3> HIDE DEF T
    <3> QED BY <1>4, <1>5, Induction
  <2> QED BY <2>1
<1>7. ASSUME NEW k \in 0 .. (n - 1) PROVE word(k) = cm[Absolute(c + k)]
  <2>1. k \in Nat /\ c + k < FlCm
    BY <1>1
  <2> QED BY <1>1, <2>1, BlockWordIs
<1> HIDE DEF word
<1> QED
  BY <1>2, <1>6, <1>7

\* The end of an instruction leaves memory as it is, but for the word of an error exit.
Exits(a) == setup.exitMode /\ cpuStopped' /\ a = setup.raCm

LEMMA EndKeeps ==
    ASSUME NEW m, NEW p, NEW left \in {2, 3, 4}
    PROVE  /\ GoTo(p, m) => parcels' = 4 /\ \A a \in DOMAIN m : Exits(a) \/ cm'[a] = m[a]
           /\ Proceed(left, m) => parcels' = left /\ \A a \in DOMAIN m : Exits(a) \/ cm'[a] = m[a]
<1>1. ASSUME GoTo(p, m) PROVE parcels' = 4 /\ \A a \in DOMAIN m : Exits(a) \/ cm'[a] = m[a]
  <2>1. parcels' = 4 /\ (cm' = m \/ (setup.exitMode /\ cpuStopped' = TRUE /\ cm' = Exited(m, p)))
    BY <1>1 DEF GoTo, Fetch
  <2>2. \A a \in DOMAIN m : a # setup.raCm => Exited(m, p)[a] = m[a]
    BY DEF Exited
  <2> QED BY <2>1, <2>2, Zenon DEF Exits
<1>2. ASSUME Proceed(left, m) PROVE parcels' = left /\ cm' = m
  BY <1>2 DEF Proceed, StopAt, Continue
<1> QED
  BY <1>1, <1>2

\* Which instruction it is.
LEMMA EcsOnly ==
    ASSUME NEW in, CpuStep(in), in.op \in {"RE", "WE"}, parcels = 4
    PROVE  EcsTransfer(in) /\ Left(in) = 2 /\ ~ToRegister(in)
<1>1. Long(in) /\ ~ToRegister(in)
  BY DEF Long, ToRegister
<1>2. Left(in) = 2
  BY <1>1 DEF Left
<1>3. Execute(in)
  BY DEF CpuStep
<1>4. EcsTransfer(in)
  BY <1>3 DEF Execute, SetX, SetXB, SetB, SetA, Jump, RJ, PS, Pass, CmuMove, CmuCompare,
              BooleanOps, ShiftOps, NumericOps, MoveOps, CompareOps
<1> QED
  BY <1>1, <1>2, <1>4

\* A transfer within the limits moves all of its words.
LEMMA WithinLimits ==
    ASSUME CpuFits, NEW in \in CpuPrograms[setup.part], CpuStep(in), in.op \in {"RE", "WE"},
           parcels = 4, EcsSize > 0, setup.flEcs < 2^(EcsBits - 1),
           NEW sum, sum = Add(Counts, B(in.j), in.K), sum < Counts \div 2,
           A(0) + sum <= FlCm, X(0) + sum <= setup.flEcs
    PROVE  sum \in Nat /\ X(0) \in Nat /\ A(0) \in Address /\ EcsBlock(in, X(0) + setup.raEcs, sum)
<1>1. EcsTransfer(in) /\ Left(in) = 2 /\ ~ToRegister(in)
  BY EcsOnly
<1>2. sum \in Address
  <2>1. B(in.j) \in Address /\ in.K \in Address
    BY InstructionIs DEF CpuFits, B
  <2> QED BY <2>1, AddressType
<1>3. A(0) \in Address /\ A(0) \in Nat /\ X(0) \in Nat
  <2>1. A(0) \in Address /\ X(0) \in Word
    BY ZeroRegister DEF CpuFits, A, X
  <2> QED BY <2>1, AddressType, Sizes DEF Word
<1>4. setup.flEcs \in Nat /\ FlCm \in Nat /\ Counts \in Nat \ {0} /\ sum \in Nat
  BY <1>2, SetupIs, Sizes, AddressType DEF CpuFits, FlCm
<1>5. ~Negative(Counts, sum) /\ sum # Counts - 1
  <2> DEFINE h == Counts \div 2
             r == Counts % 2
  <2>1. h \in Nat /\ r \in 0 .. 1 /\ Counts = 2 * h + r
    BY <1>4
  <2> HIDE DEF h, r
  <2>2. sum < h
    BY DEF h
  <2>3. 2 * sum < Counts /\ sum # Counts - 1
    BY <1>4, <2>1, <2>2
  <2>4. ~(2 * sum >= Counts)
    BY <1>4, <2>3
  <2> QED BY <2>3, <2>4, Zenon DEF Negative
<1>6. EcsAddress(in) = X(0)
  <2> DEFINE x == X(0)
             d == 2^EcsBits
             h == 2^(EcsBits - 1)
  <2>1. EcsBits \in Nat /\ EcsBits - 1 \in Nat
    BY EcsAssumption
  <2>2. d \in Nat \ {0} /\ h \in Nat /\ h <= d
    BY <2>1, PowerType, PowerGrows
  <2>3. x \in Nat /\ x < h
    <3> HIDE DEF x, h
    <3>1. x + sum <= setup.flEcs /\ setup.flEcs < h /\ x \in Nat
      BY <1>3 DEF x, h
    <3> QED BY <1>4, <2>2, <3>1
  <2> HIDE DEF x, d, h
  <2>4. x % d = x
    <3>1. x \in 0 .. (d - 1) /\ 0 * d + x = x
      BY <2>2, <2>3
    <3>2. (0 * d + x) % d = x
      BY <2>2, <3>1, DividedIs
    <3> QED BY <3>1, <3>2
  <2> QED BY <1>1, <2>4 DEF EcsAddress, x, d
<1>7. ~FlagTransfer(in)
  BY <1>4, NoReference DEF FlagTransfer
<1>8. EcsUsable(in)
  BY <1>1 DEF EcsUsable
<1> DEFINE n == IF sum = Counts - 1 THEN 0 ELSE sum
           a == A(0)
           x == X(0)
           outside == \/ Negative(Counts, n)
                      \/ ~ToRegister(in) /\ FlCm < a + n
                      \/ setup.flEcs < x + n
<1>9. n = sum
  BY <1>5
<1>10. ~outside
  <2>1. a \in Nat /\ x \in Nat /\ a + sum <= FlCm /\ x + sum <= setup.flEcs
    BY <1>3
  <2> HIDE DEF n, a, x
  <2> QED BY <1>4, <1>5, <1>9, <2>1
<1>11. EcsBlock(in, x + setup.raEcs, n)
  <2>1. n = IF Add(Counts, B(in.j), in.K) = Counts - 1 THEN 0 ELSE Add(Counts, B(in.j), in.K)
    OBVIOUS
  <2> HIDE DEF n, x, a
  <2> QED BY <1>1, <1>6, <1>7, <1>8, <1>10, <2>1, Zenon DEF EcsTransfer, a, x
<1> QED
  BY <1>3, <1>4, <1>9, <1>11

\* RE and WE.
LEMMA EcsBlocksAre ==
    ASSUME CpuFits, FieldsFit, WordsApart, NEW in \in CpuPrograms[setup.part], CpuStep(in),
           in.op \in {"RE", "WE"}, parcels = 4, EcsSize > 0, setup.flEcs < 2^(EcsBits - 1),
           NEW sum, sum = Add(Counts, B(in.j), in.K), sum < Counts \div 2,
           A(0) + sum <= FlCm, X(0) + sum <= setup.flEcs,
           NEW e, e = X(0) + setup.raEcs, e + sum <= 2^(EcsBits - 1)
    PROVE  /\ \A k \in 0 .. (sum - 1) :
                 IF in.op = "RE"
                 THEN Exits(Absolute(A(0) + k))
                      \/ cm'[Absolute(A(0) + k)] = (IF e + k < EcsSize THEN ecs[e + k] ELSE 0)
                 ELSE e + k < EcsSize => ecs'[e + k] = cm[Absolute(A(0) + k)]
           /\ parcels' = 2 <=> sum > 0 /\ e + sum > EcsSize
<1>1. sum \in Nat /\ X(0) \in Nat /\ A(0) \in Address /\ EcsBlock(in, e, sum) /\ Left(in) = 2
  BY WithinLimits, EcsOnly
<1>2. e \in Nat /\ A(0) \in Nat /\ FlCm \in Nat /\ EcsSize \in Nat /\ DOMAIN cm = 0 .. (setup.cmSize - 1)
  <2>1. setup.raEcs \in Nat /\ FlCm \in Nat
    BY SetupIs DEF CpuFits, FlCm
  <2>2. e \in Nat /\ A(0) \in Nat
    <3> DEFINE x == X(0)
               r == setup.raEcs
    <3>1. x \in Nat /\ r \in Nat /\ e = x + r
      BY <1>1, <2>1
    <3> HIDE DEF x, r
    <3>2. e \in Nat
      BY <3>1
    <3>3. A(0) \in Nat
      BY <1>1, AddressType
    <3> QED BY <3>2, <3>3
  <2> QED BY <2>1, <2>2, EcsSizeIs DEF CpuFits
<1>3. CASE in.op = "RE"
  <2> DEFINE m == ReadWords(e, A(0), sum)
  <2>1. IF sum > 0 /\ e + sum > EcsSize THEN Proceed(2, m) ELSE GoTo(Next18(regP), m)
    BY <1>1, <1>3 DEF EcsBlock
  <2>2. DOMAIN m = 0 .. (setup.cmSize - 1)
    BY <1>2 DEF ReadWords
  <2>3. ASSUME NEW k \in 0 .. (sum - 1)
        PROVE  m[Absolute(A(0) + k)] = (IF e + k < EcsSize THEN ecs[e + k] ELSE 0)
               /\ Absolute(A(0) + k) \in DOMAIN m
    <3> DEFINE a == A(0)
    <3>1. a \in Nat /\ a + sum <= FlCm /\ a \in Address
      BY <1>1, <1>2
    <3> HIDE DEF a
    <3>2. a + k \in Nat /\ a + k < FlCm
      BY <1>1, <1>2, <3>1
    <3>3. Absolute(a + k) \in 0 .. (setup.cmSize - 1)
      BY <3>2, AbsoluteIs
    <3>4. ReadWords(e, a, sum)[Absolute(a + k)] = EcsWord(e + k)
      BY <1>1, <1>2, <3>1, ReadExact
    <3>5. EcsWord(e + k) = IF e + k < EcsSize THEN ecs[e + k] ELSE 0
      BY <1>2 DEF EcsWord
    <3> QED BY <2>2, <3>3, <3>4, <3>5, Zenon DEF a
  <2> HIDE DEF m
  <2>4. (\A a \in DOMAIN m : Exits(a) \/ cm'[a] = m[a])
        /\ (parcels' = 2 <=> sum > 0 /\ e + sum > EcsSize)
    <3>1. 2 \in {2, 3, 4}
      OBVIOUS
    <3>2. CASE sum > 0 /\ e + sum > EcsSize
      <4>1. Proceed(2, m)
        BY <2>1, <3>2
      <4> QED BY <3>1, <3>2, <4>1, EndKeeps
    <3>3. CASE ~(sum > 0 /\ e + sum > EcsSize)
      <4>1. GoTo(Next18(regP), m)
        BY <2>1, <3>3
      <4>2. parcels' = 4 /\ \A a \in DOMAIN m : Exits(a) \/ cm'[a] = m[a]
        BY <3>1, <4>1, EndKeeps
      <4> QED BY <3>3, <4>2
    <3> QED BY <3>2, <3>3
  <2>5. \A k \in 0 .. (sum - 1) :
            Exits(Absolute(A(0) + k))
            \/ cm'[Absolute(A(0) + k)] = (IF e + k < EcsSize THEN ecs[e + k] ELSE 0)
    <3> TAKE k \in 0 .. (sum - 1)
    <3> QED BY <2>3, <2>4, Zenon
  <2> QED BY <1>3, <2>4, <2>5
<1>4. CASE in.op = "WE"
  <2> DEFINE s == Written(e, A(0), sum)
             x == X(0)
             a == A(0)
  <2>1. ecs' = s.ecs /\ IF s.failed THEN Proceed(2, cm) ELSE GoTo(Next18(regP), cm)
    BY <1>1, <1>4 DEF EcsBlock, Accepted
  <2>2. x \in Nat /\ a \in Address /\ x + sum <= setup.flEcs /\ a + sum <= FlCm
        /\ e = x + setup.raEcs
    BY <1>1
  <2>3. /\ s.failed <=> sum > 0 /\ e + sum > EcsSize
        /\ \A k \in 0 .. (sum - 1) : e + k < EcsSize => s.ecs[e + k] = cm[Absolute(a + k)]
    <3>1. s = Written(x + setup.raEcs, a, sum)
      BY <2>2
    <3>2. x + setup.raEcs + sum <= 2^(EcsBits - 1)
      BY <2>2
    <3> HIDE DEF s, x, a
    <3> QED BY <1>1, <2>2, <3>1, <3>2, WrittenExact
  <2> HIDE DEF s, x
  <2>4. parcels' = 2 <=> s.failed
    <3>1. Proceed(2, cm) => parcels' = 2
      BY EndKeeps
    <3>2. GoTo(Next18(regP), cm) => parcels' = 4
      <4>1. 2 \in {2, 3, 4}
        OBVIOUS
      <4> QED BY <4>1, EndKeeps
    <3> QED BY <2>1, <3>1, <3>2
  <2> QED BY <1>4, <2>1, <2>3, <2>4
<1> QED
  BY <1>3, <1>4

-----------------------------------------------------------------------------
(* Fields of characters. *)

\* Two numbers with the same digit of weight V, to the base P.
SameDigit(v, x, V, P) == (v \div V) % P = (x \div V) % P

\* Of two weights one is the other with digits to the base P below it.
WeightsDiffer(W, V, P) == \E U \in Nat \ {0} : W = (V * P) * U \/ V = (W * P) * U

\* A number whose digit of weight W, to the base P, is another one has the same other digits.
LEMMA DigitsApart ==
    ASSUME NEW P \in Nat \ {0}, NEW W \in Nat \ {0}, NEW V \in Nat \ {0},
           NEW x \in Nat, NEW v, NEW e \in 0 .. (P - 1), PutsDigit(v, x, W, P, e)
    PROVE  (v \div W) % P = e /\ (WeightsDiffer(W, V, P) => SameDigit(v, x, V, P))
<1> DEFINE a == x \div W
           b == a \div P
<1>10. b \in Int /\ v \in Nat /\ v \div W = b * P + e /\ v % W = x % W
  <2>1. a \in Int
    BY QuotientType
  <2>2. b \in Int
    <3> HIDE DEF a
    <3> QED BY <2>1, QuotientType
  <2> QED BY <2>2 DEF PutsDigit
<1>11. (v \div W) % P = e /\ (v \div W) \div P = (x \div W) \div P
  <2> HIDE DEF b
  <2>1. (b * P + e) % P = e /\ (b * P + e) \div P = b
    BY <1>10, DividedIs
  <2>2. (v \div W) % P = e /\ (v \div W) \div P = b
    BY <1>10, <2>1
  <2> QED BY <2>2 DEF b
<1> SUFFICES ASSUME NEW U \in Nat \ {0}, W = (V * P) * U \/ V = (W * P) * U
             PROVE  (v \div V) % P = (x \div V) % P
  BY <1>11 DEF WeightsDiffer, SameDigit
<1>1. ASSUME W = (V * P) * U, NEW y \in Nat
      PROVE  (y \div V) % P = ((y % W) \div V) % P
  <2> DEFINE t == y \div W
             r == y % W
             q == t * U
             k == q * P
             h == r \div V
  <2>1. t \in Int /\ r \in Nat /\ y = t * W + r
    <3>1. y \in Int
      OBVIOUS
    <3>2. r \in 0 .. (W - 1) /\ y = t * W + r /\ t \in Int
      BY <3>1, Divided
    <3> HIDE DEF r, t
    <3> QED BY <3>2
  <2> HIDE DEF t, r
  <2>2. q \in Int /\ k \in Int /\ h \in Int
    <3>1. q \in Int
      BY <2>1, ProductType
    <3> HIDE DEF q
    <3>2. k \in Int
      BY <3>1, ProductType
    <3>3. h \in Int
      BY <2>1, QuotientType
    <3> QED BY <3>1, <3>2, <3>3
  <2>3. t * W = k * V
    <3>1. W = (U * P) * V
      <4>1. (V * P) * U = V * (P * U) /\ P * U = U * P /\ V * (U * P) = (U * P) * V
        <5>1. V \in Int /\ P \in Int /\ U \in Int /\ P * U \in Int /\ U * P \in Int
          BY ProductType
        <5> QED BY <5>1, Distributes, ProductOfNats
      <4> QED BY <1>1, <4>1
    <3>2. t * ((U * P) * V) = (t * (U * P)) * V /\ t * (U * P) = (t * U) * P
      <4>1. V \in Int /\ P \in Int /\ U \in Int /\ U * P \in Int /\ t \in Int
        BY <2>1, ProductType
      <4> QED BY <4>1, Distributes
    <3> QED BY <3>1, <3>2
  <2> HIDE DEF q, k, h
  <2>4. y \div V = h + k
    <3>1. (r + k * V) \div V = r \div V + k
      BY <2>1, <2>2, MultipleMore
    <3>2. y = r + k * V
      <4>1. t * W \in Int
        BY <2>1, ProductType
      <4> QED BY <2>1, <2>3, <4>1
    <3> QED BY <3>1, <3>2 DEF h
  <2>5. (h + q * P) % P = h % P
    BY <2>2, MultipleMore
  <2> QED BY <2>4, <2>5 DEF k, h, r
<1>2. ASSUME V = (W * P) * U, NEW y \in Nat
      PROVE  y \div V = ((y \div W) \div P) \div U
  <2>1. W * P \in Nat \ {0} /\ y \in Int
    BY ProductOfNats
  <2>2. y \div ((W * P) * U) = (y \div (W * P)) \div U
    <3> DEFINE d == W * P
    <3>1. d \in Nat \ {0}
      BY <2>1
    <3> HIDE DEF d
    <3> QED BY <2>1, <3>1, DividedTwice DEF d
  <2>3. y \div (W * P) = (y \div W) \div P
    BY <2>1, DividedTwice
  <2> QED BY <1>2, <2>2, <2>3
<1>3. CASE W = (V * P) * U
  <2>1. (v \div V) % P = ((v % W) \div V) % P /\ (x \div V) % P = ((x % W) \div V) % P
    BY <1>1, <1>3, <1>10
  <2> QED BY <1>10, <2>1
<1>4. CASE V = (W * P) * U
  <2>1. v \div V = ((v \div W) \div P) \div U /\ x \div V = ((x \div W) \div P) \div U
    BY <1>2, <1>4, <1>10
  <2> QED BY <1>11, <2>1
<1> QED
  BY <1>3, <1>4

\* Of two positions in a word one's weight is that of the other with whole characters below it.
LEMMA WeightsApart ==
    ASSUME NEW p \in Nat, NEW q \in Nat, p % CharsPerWord # q % CharsPerWord
    PROVE  WeightsDiffer(Weight(p), Weight(q), 2^CharBits)
<1> DEFINE c == CharsPerWord
           b == CharBits
           low(place) == c - 1 - (place % c)
           Higher(r, s) == \E U \in Nat \ {0} : Weight(r) = (Weight(s) * 2^CharBits) * U
<1>1. c \in Nat \ {0} /\ WordBits \in Int
  BY Sizes, CpuInstructionsAssumption
<1>2. b \in Nat
  <2> DEFINE w == WordBits
  <2>1. w \in Nat
    BY Sizes
  <2> HIDE DEF w, c
  <2>2. w \div c \in Nat
    BY <1>1, <2>1, NatDivided
  <2> QED BY <2>2 DEF w, c, CharBits
<1>3. \A place \in Nat : low(place) \in Nat /\ Weight(place) = 2^(b * low(place))
  <2>1. ASSUME NEW place \in Nat PROVE low(place) \in Nat
    <3> HIDE DEF c
    <3>1. place % c \in 0 .. (c - 1)
      BY <1>1, NatDivided
    <3> QED BY <1>1, <3>1
  <2> QED BY <2>1 DEF Weight, b, c
<1>4. low(p) # low(q)
  <2> DEFINE r == p % c
             s == q % c
  <2>1. r \in 0 .. (c - 1) /\ s \in 0 .. (c - 1) /\ r # s
    <3>1. r # s
      OBVIOUS
    <3> HIDE DEF c
    <3>2. r \in 0 .. (c - 1) /\ s \in 0 .. (c - 1)
      BY <1>1, NatDivided
    <3> QED BY <3>1, <3>2
  <2> HIDE DEF r, s, c
  <2>2. c - 1 - r # c - 1 - s
    BY <1>1, <2>1
  <2> QED BY <2>2 DEF r, s
<1>5. ASSUME NEW r \in Nat, NEW s \in Nat, low(s) < low(r) PROVE Higher(r, s)
  <2> DEFINE k == low(s)
             m == low(r)
             g == m - k - 1
             y == b * k
             z == b * g
  <2>1. k \in Nat /\ g \in Nat /\ m = (k + 1) + g
    <3>1. k \in Nat /\ m \in Nat /\ k < m
      BY <1>3, <1>5
    <3> HIDE DEF k, m
    <3> QED BY <3>1
  <2>2. Weight(r) = 2^(b * m) /\ Weight(s) = 2^y
    BY <1>3
  <2> HIDE DEF k, g, m, b, low
  <2>3. b * m = (y + b) + z /\ y \in Nat /\ z \in Nat
    <3>1. b * ((k + 1) + g) = b * (k + 1) + b * g /\ b * (k + 1) = b * k + b * 1 /\ b * 1 = b
      <4>1. b \in Int /\ k \in Int /\ g \in Int /\ k + 1 \in Int
        BY <1>2, <2>1
      <4> QED BY <4>1, Distributes
    <3>2. y \in Nat /\ z \in Nat
      BY <1>2, <2>1, ProductOfNats
    <3> QED BY <2>1, <3>1, <3>2
  <2> HIDE DEF y, z
  <2>4. 2^((y + b) + z) = 2^(y + b) * 2^z /\ 2^(y + b) = 2^y * 2^b
    <3>1. y + b \in Nat
      BY <1>2, <2>3
    <3> QED BY <1>2, <2>3, <3>1, PowerAdds
  <2>5. 2^z \in Nat \ {0}
    BY <2>3, PowerType
  <2>6. Weight(r) = (Weight(s) * 2^CharBits) * 2^z
    BY <2>2, <2>3, <2>4 DEF b
  <2> QED BY <2>5, <2>6
<1>6. low(p) < low(q) \/ low(q) < low(p)
  <2>1. low(p) \in Nat /\ low(q) \in Nat
    BY <1>3
  <2> HIDE DEF low
  <2> QED BY <1>4, <2>1
<1>7. Higher(p, q) \/ Higher(q, p)
  <2> HIDE DEF low, Higher
  <2> QED BY <1>5, <1>6
<1> QED
  BY <1>7, Zenon DEF WeightsDiffer


\* Words of the field have places of their own.
LEMMA PlacesApart ==
    ASSUME CpuFits, FieldsFit, WordsApart, NEW a \in Nat, a < FlCm, NEW b \in Nat, b < FlCm,
           Absolute(a) = Absolute(b)
    PROVE  a = b
<1>1. 0 \in Nat /\ FlCm \in Nat /\ 0 + a < FlCm /\ 0 + b < FlCm /\ 0 + a = a /\ 0 + b = b
  BY SetupIs DEF CpuFits, FlCm
<1> DEFINE R == Ring
           start == Add(Counts, setup.raCm, 0)
<1>2. Absolute(a) = (start + a) % R /\ Absolute(b) = (start + b) % R
  BY <1>1, BlockWordIs DEF BlockWord
<1>3. R \in Nat \ {0} /\ FlCm <= R
  BY RingIs
<1>4. start \in Int
  <2>1. setup.raCm \in Int /\ 0 \in Int
    BY SetupIs DEF CpuFits
  <2> QED BY <2>1, Sizes, IntegerType
<1> HIDE DEF R, start
<1>5. a < R /\ b < R
  BY <1>1, <1>3
<1> QED
  BY <1>2, <1>3, <1>4, <1>5, SameRemainder

\* A character that is put is where it was put, and every other one is as it was.
LEMMA PutCharExact ==
    ASSUME CpuFits, FieldsFit, WordsApart, NEW m \in Memories, NEW p \in Nat, InField(p), NEW char \in Char,
           NEW q \in Nat, InField(q)
    PROVE  CharIn(PutChar(m, p, char), q) = IF q = p THEN char ELSE CharIn(m, q)
<1> DEFINE c == CharsPerWord
           P == 2^CharBits
           W == Weight(p)
           V == Weight(q)
           j == p \div c
           k == q \div c
           a == Absolute(j)
           b == Absolute(k)
           x == m[a]
           v == x + (char - ((x \div W) % P)) * W
           n == PutChar(m, p, char)
<1>1. c \in Nat \ {0} /\ FlCm \in Nat
  BY SetupIs, CpuInstructionsAssumption DEF CpuFits, FlCm
<1>2. j \in Nat /\ j < FlCm /\ k \in Nat /\ k < FlCm
  BY <1>1, QuotientBelow DEF InField
<1>3. W \in Nat \ {0} /\ V \in Nat \ {0} /\ P \in Nat \ {0}
  BY WeightIs
<1> HIDE DEF j, k
<1>4. a \in 0 .. (setup.cmSize - 1) /\ b \in 0 .. (setup.cmSize - 1)
  BY <1>2, AbsoluteIs
<1>5. n = [m EXCEPT ![a] = v] /\ CharIn(m, q) = (m[b] \div V) % P /\ CharIn(n, q) = (n[b] \div V) % P
  BY DEF PutChar, CharIn, j, k
<1>6. x \in Nat /\ x < Words /\ m \in [0 .. (setup.cmSize - 1) -> Word]
  <2>1. x \in Word /\ m \in [0 .. (setup.cmSize - 1) -> Word]
    BY <1>4 DEF Memories
  <2> QED BY <2>1, Sizes DEF Word
<1>7. (v \div W) % P = char /\ (WeightsDiffer(W, V, P) => SameDigit(v, x, V, P))
  <2>1. PICK Q \in Nat : Words = (Q * P) * W
    BY CharacterIs
  <2>2. char \in 0 .. (P - 1)
    BY DEF Char
  <2> HIDE DEF P, W, V, x
  <2>3. x < (Q * P) * W /\ x \in Nat
    BY <1>6, <2>1
  <2>4. W \in Nat \ {0} /\ V \in Nat \ {0} /\ P \in Nat \ {0}
    BY <1>3
  <2>5. PutsDigit(v, x, W, P, char)
    BY <2>2, <2>3, <2>4, DigitPut, Zenon
  <2> HIDE DEF v
  <2> QED BY <2>2, <2>3, <2>4, <2>5, DigitsApart
<1> HIDE DEF v
<1>9. CASE b # a
  <2>1. n[b] = m[b]
    BY <1>4, <1>5, <1>6, <1>9
  <2>2. q # p
    BY <1>9 DEF j, k
  <2> QED BY <1>5, <2>1, <2>2
<1>10. CASE b = a
  <2>1. n[b] = v /\ m[b] = x
    BY <1>4, <1>5, <1>6, <1>10
  <2>2. j = k
    <3> HIDE DEF n, x, W, V, P, c
    <3> QED BY <1>2, <1>10, PlacesApart
  <2>3. CASE q = p
    BY <1>5, <1>7, <2>1, <2>3
  <2>4. CASE q # p
    <3>1. p % c # q % c
      <4> DEFINE r == p % c
                 s == q % c
      <4>1. p \in Int /\ q \in Int
        OBVIOUS
      <4> HIDE DEF c
      <4>2. p = j * c + r /\ q = k * c + s
        BY <1>1, <4>1, Divided DEF j, k
      <4>3. r = s => p = q
        BY <2>2, <4>2
      <4> QED BY <2>4, <4>3
    <3>2. WeightsDiffer(W, V, P)
      BY <3>1, WeightsApart
    <3>3. (v \div V) % P = (x \div V) % P
      BY <1>7, <3>2, Zenon DEF SameDigit
    <3> QED BY <1>5, <2>1, <2>4, <3>3
  <2> QED BY <2>3, <2>4
<1> QED
  BY <1>9, <1>10

\* Where the k-th character of a field that is moved comes from: fields that run into themselves
\* repeat.
Source(from, to, k) == from + (IF to - from > 0 THEN k % (to - from) ELSE k)

LEMMA SourceIs ==
    ASSUME NEW from \in Nat, NEW to \in Nat, NEW k \in Nat
    PROVE  IF from + k \in to .. (to + k - 1) THEN Source(from, to, from + k - to) = Source(from, to, k)
           ELSE Source(from, to, k) = from + k
<1> DEFINE D == to - from
<1>1. D \in Int /\ from + k - to = k - D
  OBVIOUS
<1>2. CASE from + k \in to .. (to + k - 1)
  <2>1. D > 0 /\ D \in Nat \ {0}
    BY <1>2
  <2>2. (k - D) % D = k % D
    <3> HIDE DEF D
    <3> DEFINE z == 0 - 1
    <3>1. k + z * D = k - D /\ z \in Int /\ k \in Int
      BY <2>1
    <3> HIDE DEF z
    <3>2. (k + z * D) % D = k % D
      BY <2>1, <3>1, MultipleMore
    <3> QED BY <3>1, <3>2
  <2>3. Source(from, to, k - D) = from + ((k - D) % D) /\ Source(from, to, k) = from + (k % D)
    BY <2>1 DEF Source
  <2> QED BY <1>1, <1>2, <2>2, <2>3
<1>3. CASE from + k \notin to .. (to + k - 1) /\ D > 0
  <2>1. D \in Nat \ {0} /\ k \in 0 .. (D - 1)
    BY <1>3
  <2>2. Source(from, to, k) = from + (k % D)
    BY <1>3 DEF Source
  <2> HIDE DEF D
  <2>3. (0 * D + k) % D = k /\ 0 * D + k = k
    BY <2>1, DividedIs
  <2> QED BY <1>3, <2>2, <2>3
<1>4. CASE from + k \notin to .. (to + k - 1) /\ ~(D > 0)
  BY <1>4 DEF Source
<1> QED
  BY <1>2, <1>3, <1>4

\* A field that was moved has the characters of the other, and the rest is as it was.
MovedTo(m, from, to, n, p) ==
    CharIn(m, p) = IF p \in to .. (to + n - 1) THEN CharIn(cm, Source(from, to, p - to)) ELSE CharIn(cm, p)

LEMMA MovedExact ==
    ASSUME CpuFits, FieldsFit, WordsApart, NEW from \in Nat, NEW to \in Nat, NEW n \in Nat,
           \A k \in Nat : k < n => InField(from + k) /\ InField(to + k),
           NEW p \in Nat, InField(p)
    PROVE  MovedTo(Moved(from, to, n), from, to, n, p)
<1> DEFINE Is(m, k) == \A q \in Nat : InField(q) =>
                           CharIn(m, q) = IF q \in to .. (to + k - 1)
                                          THEN CharIn(cm, Source(from, to, q - to)) ELSE CharIn(cm, q)
<1>1. PICK g \in [0 .. n -> Memories] :
          /\ g[0] = cm /\ g[n] = Moved(from, to, n)
          /\ \A k \in 0 .. (n - 1) : g[k + 1] = PutChar(g[k], to + k, CharIn(g[k], from + k))
  BY MovedRuns
<1> DEFINE T == {k \in Nat : k <= n => Is(g[k], k)}
<1>2. 0 \in T
  <2>1. \A q \in Nat : q \notin to .. (to + 0 - 1)
    OBVIOUS
  <2> QED BY <1>1, <2>1
<1>3. ASSUME NEW k \in Nat, k \in T PROVE k + 1 \in T
  <2> SUFFICES ASSUME k + 1 <= n PROVE Is(g[k + 1], k + 1)
    OBVIOUS
  <2>1. k \in 0 .. (n - 1) /\ k \in 0 .. n /\ k < n /\ Is(g[k], k) /\ from + k \in Nat /\ to + k \in Nat
    BY <1>3
  <2>2. InField(from + k) /\ InField(to + k)
    BY <2>1
  <2> DEFINE m == g[k]
             char == CharIn(m, from + k)
  <2>3. m \in Memories /\ g[k + 1] = PutChar(m, to + k, char)
    BY <1>1, <2>1
  <2>4. char \in Char
    BY <2>1, <2>3, CharInType DEF Memories
  <2>5. char = CharIn(cm, Source(from, to, k))
    <3>1. char = IF from + k \in to .. (to + k - 1)
                 THEN CharIn(cm, Source(from, to, from + k - to)) ELSE CharIn(cm, from + k)
      BY <2>1, <2>2
    <3> HIDE DEF char
    <3> QED BY <3>1, SourceIs
  <2>6. ASSUME NEW q \in Nat, InField(q)
        PROVE  CharIn(g[k + 1], q) = IF q \in to .. (to + (k + 1) - 1)
                                     THEN CharIn(cm, Source(from, to, q - to)) ELSE CharIn(cm, q)
    <3>1. CharIn(m, q) = IF q \in to .. (to + k - 1)
                         THEN CharIn(cm, Source(from, to, q - to)) ELSE CharIn(cm, q)
      BY <2>1, <2>6
    <3> HIDE DEF m, char
    <3>2. CharIn(g[k + 1], q) = IF q = to + k THEN char ELSE CharIn(m, q)
      BY <2>1, <2>2, <2>3, <2>4, <2>6, PutCharExact
    <3>3. CASE q = to + k
      <4>1. q - to = k /\ q \in to .. (to + (k + 1) - 1)
        BY <3>3
      <4> QED BY <2>5, <3>2, <3>3, <4>1
    <3>4. CASE q # to + k
      <4>1. q \in to .. (to + (k + 1) - 1) <=> q \in to .. (to + k - 1)
        BY <3>4
      <4> QED BY <3>1, <3>2, <3>4, <4>1
    <3> QED BY <3>3, <3>4
  <2> QED BY <2>6
<1>4. Is(g[n], n)
  <2>1. Nat \subseteq T
    <3> HIDE DEF T
    <3> QED BY <1>2, <1>3, Induction
  <2> QED BY <2>1
<1> QED
  BY <1>1, <1>4 DEF MovedTo

\* IM and DM.
LEMMA MovesAre ==
    ASSUME CpuFits, FieldsFit, WordsApart, NEW in \in CpuPrograms[setup.part], CpuStep(in),
           in.op \in MoveOps, parcels = 4, ~Illegal(in),
           in.op = "IM" /\ setup.exitMode => Add(Counts, B(in.j), in.K) < FlCm,
           NEW p \in 0 .. (FlCm * CharsPerWord - 1)
    PROVE  \/ Exits(Absolute(p \div CharsPerWord))
           \/ CharIn(cm', p) =
                  IF p \in To(in) .. (To(in) + Reached(From(in), To(in), in.n) - 1)
                  THEN CharIn(cm, Source(From(in), To(in), p - To(in))) ELSE CharIn(cm, p)
<1> DEFINE N == in.n
           f == From(in)
           t == To(in)
           n == Reached(f, t, N)
           m == Moved(f, t, n)
           a == Absolute(p \div CharsPerWord)
           descriptor == Add(Counts, B(in.j), in.K)
           short == Illegal(in) \/ n < N
<1>1. f \in Nat /\ t \in Nat /\ N \in Nat /\ FlCm * CharsPerWord \in Int
  BY CharactersAre
<1>2. p \in Nat /\ InField(p)
  BY <1>1 DEF InField
<1>3. CmuMove(in)
  <2>1. Execute(in)
    BY DEF CpuStep
  <2> QED BY <2>1 DEF Execute, SetX, SetXB, SetB, SetA, Jump, RJ, PS, Pass, EcsTransfer, CmuCompare,
                      BooleanOps, ShiftOps, NumericOps, MoveOps, CompareOps
<1>4. n \in Nat /\ \A k \in Nat : k < n => InField(f + k) /\ InField(t + k)
  <2> HIDE DEF N, f, t
  <2>1. n \in 0 .. N /\ \A k \in Nat : k < n => InField(f + k) /\ InField(t + k)
    BY <1>1, ReachedIs
  <2> HIDE DEF n
  <2> QED BY <1>1, <2>1
<1>5. CharIn(m, p) = IF p \in t .. (t + n - 1) THEN CharIn(cm, Source(f, t, p - t)) ELSE CharIn(cm, p)
  <2> HIDE DEF f, t, n
  <2>1. MovedTo(m, f, t, n, p)
    BY <1>1, <1>2, <1>4, MovedExact
  <2> QED BY <2>1, Zenon DEF MovedTo
<1>6. m \in Memories
  <2>1. cm \in Memories
    BY DEF CpuFits, Memories
  <2> HIDE DEF f, t, n
  <2> QED BY <1>1, <1>4, <2>1, MovedWithin
<1>7. a \in DOMAIN m
  <2>1. CharsPerWord \in Nat \ {0} /\ FlCm \in Nat
    BY SetupIs, CpuInstructionsAssumption DEF CpuFits, FlCm
  <2>2. p \div CharsPerWord \in Nat /\ p \div CharsPerWord < FlCm
    BY <1>2, <2>1, QuotientBelow DEF InField
  <2>3. a \in 0 .. (setup.cmSize - 1)
    BY <2>2, AbsoluteIs
  <2> HIDE DEF a, m
  <2> QED BY <1>6, <2>3 DEF Memories
<1>8. CmuDone(short, m, 0)
  <2>1. ~(in.op = "IM" /\ descriptor >= FlCm /\ setup.exitMode)
    <3>1. descriptor \in Nat /\ FlCm \in Nat
      BY InstructionIs, AddressType, SetupIs DEF CpuFits, B, FlCm
    <3> HIDE DEF descriptor
    <3>2. in.op = "IM" /\ setup.exitMode => descriptor < FlCm
      BY DEF descriptor
    <3> QED BY <3>1, <3>2
  <2> QED BY <1>3, <2>1, Zenon DEF CmuMove
<1> HIDE DEF m, n, N, short
<1>9. Exits(a) \/ cm'[a] = m[a]
  <2>1. CASE short /\ setup.exitMode
    <3>1. cpuStopped' /\ cm' = Exited(m, regP)
      BY <1>8, <2>1 DEF CmuDone, StopAt
    <3>2. a # setup.raCm => Exited(m, regP)[a] = m[a]
      BY <1>7 DEF Exited
    <3> QED BY <2>1, <3>1, <3>2 DEF Exits
  <2>2. CASE ~(short /\ setup.exitMode)
    <3>1. GoTo(Next18(regP), m) /\ 4 \in {2, 3, 4}
      BY <1>8, <2>2 DEF CmuDone
    <3> HIDE DEF a
    <3> QED BY <1>7, <3>1, EndKeeps
  <2> QED BY <2>1, <2>2
<1>10. cm'[a] = m[a] => CharIn(cm', p) = CharIn(m, p)
  BY DEF CharIn
<1> HIDE DEF a, f, t
<1>11. Exits(a) \/ CharIn(cm', p) = IF p \in t .. (t + n - 1) THEN CharIn(cm, Source(f, t, p - t)) ELSE CharIn(cm, p)
  BY <1>5, <1>9, <1>10, Zenon
<1> QED
  BY <1>11, Zenon DEF a, f, t, n, N

\* Either instruction of the CPU that moves blocks.
LEMMA CpuBlocksAre ==
    ASSUME CpuFits, FieldsFit, NEW in \in CpuPrograms[setup.part], CpuStep(in)
    PROVE  CpuBlocksExact(in)
<1> DEFINE sum == Add(Counts, B(in.j), in.K)
           e == X(0) + setup.raEcs
           field(k) == Absolute(A(0) + k)
           moved == Reached(From(in), To(in), in.n)
           distance == To(in) - From(in)
           source(k) == From(in) + (IF distance > 0 THEN k % distance ELSE k)
           exited(a) == setup.exitMode /\ cpuStopped' /\ a = setup.raCm
<1>1. ASSUME in.op \in {"RE", "WE"}, WordsApart, sum < Counts \div 2, EcsSize > 0, parcels = 4,
             A(0) + sum <= FlCm, X(0) + sum <= setup.flEcs, setup.flEcs < 2^(EcsBits - 1),
             e + sum <= 2^(EcsBits - 1)
      PROVE  /\ \A k \in 0 .. (sum - 1) :
                   IF in.op = "RE"
                   THEN exited(field(k)) \/ cm'[field(k)] = (IF e + k < EcsSize THEN ecs[e + k] ELSE 0)
                   ELSE e + k < EcsSize => ecs'[e + k] = cm[field(k)]
             /\ parcels' = 2 <=> sum > 0 /\ e + sum > EcsSize
  <2> DEFINE s == sum
             f == e
  <2>1. s = sum /\ f = e
    OBVIOUS
  <2> HIDE DEF s, f
  <2>2. /\ in.op \in {"RE", "WE"} /\ parcels = 4 /\ EcsSize > 0 /\ setup.flEcs < 2^(EcsBits - 1)
        /\ WordsApart /\ s = Add(Counts, B(in.j), in.K) /\ s < Counts \div 2 /\ A(0) + s <= FlCm
        /\ X(0) + s <= setup.flEcs /\ f = X(0) + setup.raEcs /\ f + s <= 2^(EcsBits - 1)
    BY <1>1, <2>1, Zenon
  <2>3. /\ \A k \in 0 .. (s - 1) :
                 IF in.op = "RE"
                 THEN Exits(Absolute(A(0) + k))
                      \/ cm'[Absolute(A(0) + k)] = (IF f + k < EcsSize THEN ecs[f + k] ELSE 0)
                 ELSE f + k < EcsSize => ecs'[f + k] = cm[Absolute(A(0) + k)]
        /\ parcels' = 2 <=> s > 0 /\ f + s > EcsSize
    BY <2>2, EcsBlocksAre
  <2> QED BY <2>1, <2>3, Zenon DEF Exits
<1>2. ASSUME in.op \in MoveOps, WordsApart, parcels = 4, ~Illegal(in),
             in.op = "IM" /\ setup.exitMode => sum < FlCm,
             NEW p \in 0 .. (FlCm * CharsPerWord - 1)
      PROVE  \/ exited(Absolute(p \div CharsPerWord))
             \/ CharIn(cm', p) = IF p \in To(in) .. (To(in) + moved - 1)
                                THEN CharIn(cm, source(p - To(in))) ELSE CharIn(cm, p)
  <2>1. \/ Exits(Absolute(p \div CharsPerWord))
        \/ CharIn(cm', p) =
               IF p \in To(in) .. (To(in) + Reached(From(in), To(in), in.n) - 1)
               THEN CharIn(cm, Source(From(in), To(in), p - To(in))) ELSE CharIn(cm, p)
    BY <1>2, MovesAre, Zenon
  <2> QED BY <2>1, Zenon DEF Exits, Source
<1> QED
  BY <1>1, <1>2, Zenon DEF CpuBlocksExact

\* Blocks arrive: what a transfer between central memory and ECS, a move of characters, and a
\* PP's transfer of words leave where they go is what was where they came from (cpuEcsTransfer,
\* cpuCmuMoveDirect, cpuCmuMoveIndirect, ppOpCRM, ppOpCWM).
THEOREM BlocksArrive == ASSUME FieldsFit PROVE Spec => BlocksMoved
<1>1. Init => NumbersFit
  BY NumbersFitFirst
<1>2. NumbersFit /\ [Next]_vars => NumbersFit'
  BY NextFits
<1>3. ASSUME NumbersFit, Next
      PROVE  /\ steps' # steps => CpuBlocksExact(last')
             /\ ppSteps' # ppSteps => Pp!PpBlocksExact(ppLast')
  <2>1. CASE Cpu
    <3>1. PICK in \in CpuPrograms[setup.part] : CpuStep(in)
      BY <2>1 DEF Cpu
    <3>2. last' = in
      BY <3>1 DEF CpuStep
    <3>3. CpuBlocksExact(in)
      BY <1>3, <3>1, CpuBlocksAre DEF NumbersFit
    <3>4. ppSteps' = ppSteps
      BY <2>1 DEF Cpu, ppVars
    <3> QED BY <3>2, <3>3, <3>4, Zenon
  <2>2. CASE Peripheral
    <3>1. PICK in \in PpPrograms[setup.part] : Pp!PpStep(in)
      BY <2>2 DEF Peripheral
    <3>2. ppLast' = in
      BY <3>1 DEF Pp!PpStep
    <3>3. in \in Pp!Instructions
      BY <1>3, <3>1, StartsAssumption DEF NumbersFit, CpuFits
    <3>4. Pp!PpBlocksExact(in)
      BY <1>3, <3>1, <3>3, PpBlocksAre DEF NumbersFit
    <3>5. steps' = steps
      BY <2>2 DEF Peripheral, cpuVars
    <3> QED BY <3>2, <3>4, <3>5, Zenon
  <2>3. CASE Driver \/ DdpIo
    <3>1. UNCHANGED <<steps, ppSteps>>
      BY <2>3 DEF Driver, DdpIo, cpuVars, ppVars
    <3> QED BY <3>1
  <2> QED BY <1>3, <2>1, <2>2, <2>3 DEF Next
<1>4. NumbersFit /\ [Next]_vars =>
        [/\ steps' # steps => CpuBlocksExact(last')
         /\ ppSteps' # ppSteps => Pp!PpBlocksExact(ppLast')]_vars
  BY <1>3
<1> QED
  BY <1>1, <1>2, <1>4, PTL DEF Spec, BlocksMoved

-----------------------------------------------------------------------------
(* Comparisons. *)

\* The sign of a difference and the signs tell which of two registers ranks higher.
LEMMA RanksCompare ==
    ASSUME NEW p \in Address, NEW q \in Address,
           NEW d, d = Subtract(Counts, p, q), NEW s, s = Negative(Counts, p), NEW t, t = Negative(Counts, q)
    PROVE  /\ (~s /\ t) \/ ((s <=> t) /\ ~Negative(Counts, d)) <=> Rank(p) >= Rank(q)
           /\ (s /\ ~t) \/ ((s <=> t) /\ Negative(Counts, d) /\ d # 0) <=> Rank(p) < Rank(q)
<1> DEFINE M == Counts
<1>1. \E h \in Nat \ {0} : M = 2 * h
  <2>1. AddressBits - 1 \in Nat /\ (AddressBits - 1) + 1 = AddressBits
    BY CpuArithmeticAssumption
  <2>2. 2^(AddressBits - 1) \in Nat \ {0} /\ 2^AddressBits = 2 * 2^(AddressBits - 1)
    BY <2>1, PowerType, PowerDoubles
  <2> QED BY <2>2 DEF Counts
<1>2. PICK h \in Nat \ {0} : M = 2 * h
  BY <1>1
<1>3. p \in 0 .. (M - 1) /\ q \in 0 .. (M - 1)
  BY DEF Address
<1>4. d = (IF p >= q THEN p - q ELSE p - q - 1 + M)
  BY DEF Subtract
<1>5. /\ Rank(p) = 2 * (IF 2 * p >= M THEN p - (M - 1) ELSE p) - (IF p = M - 1 THEN 1 ELSE 0)
      /\ Rank(q) = 2 * (IF 2 * q >= M THEN q - (M - 1) ELSE q) - (IF q = M - 1 THEN 1 ELSE 0)
  BY DEF Rank, Value, Negative
<1>6. (s <=> 2 * p >= M) /\ (t <=> 2 * q >= M) /\ (Negative(Counts, d) <=> 2 * d >= M)
  BY DEF Negative
<1>7. d \in Int
  BY <1>2, <1>3, <1>4
<1> HIDE DEF M
<1>8. /\ (~(2 * p >= M) /\ 2 * q >= M) \/ ((2 * p >= M <=> 2 * q >= M) /\ ~(2 * d >= M)) <=> Rank(p) >= Rank(q)
      /\ (2 * p >= M /\ ~(2 * q >= M)) \/ ((2 * p >= M <=> 2 * q >= M) /\ 2 * d >= M /\ d # 0) <=> Rank(p) < Rank(q)
  BY <1>2, <1>3, <1>4, <1>5
<1> QED
  BY <1>6, <1>8

\* GE and LT.
LEMMA JumpsInOrder ==
    ASSUME CpuFits, NEW in \in CpuPrograms[setup.part], CpuStep(in), in.op \in {"GE", "LT"}, parcels = 4
    PROVE  parcels' = 4 <=> IF in.op = "GE" THEN Rank(B(in.i)) >= Rank(B(in.j))
                                            ELSE Rank(B(in.i)) < Rank(B(in.j))
<1> DEFINE p == B(in.i)
           q == B(in.j)
           d == Subtract(Counts, p, q)
           s == Negative(Counts, p)
           t == Negative(Counts, q)
<1>1. Long(in) /\ Left(in) = 2
  BY DEF Long, Left
<1>2. Jump(in)
  <2>1. Execute(in)
    BY DEF CpuStep
  <2> QED BY <2>1 DEF Execute, SetX, SetXB, SetB, SetA, RJ, PS, Pass, EcsTransfer, CmuMove, CmuCompare,
                      BooleanOps, ShiftOps, NumericOps, MoveOps, CompareOps
<1>3. parcels' = 4 <=> Compared(in)
  <2>1. IF Compared(in) THEN GoTo(in.K, cm) ELSE Proceed(2, cm)
    BY <1>1, <1>2 DEF Jump
  <2>2. 2 \in {2, 3, 4}
    OBVIOUS
  <2>3. (GoTo(in.K, cm) => parcels' = 4) /\ (Proceed(2, cm) => parcels' = 2)
    BY <2>2, EndKeeps
  <2> QED BY <2>1, <2>3
<1>4. p \in Address /\ q \in Address
  BY InstructionIs DEF CpuFits, B
<1>5. s \in BOOLEAN /\ t \in BOOLEAN
  BY DEF Negative
<1>6. /\ in.op = "GE" => (Compared(in) <=> (<<s, t>> = <<FALSE, TRUE>> \/ (s = t /\ ~Negative(Counts, d))))
      /\ in.op = "LT" => (Compared(in) <=> (<<s, t>> = <<TRUE, FALSE>> \/ (s = t /\ Negative(Counts, d) /\ d # 0)))
  BY DEF Compared
<1>7. /\ (~s /\ t) \/ ((s <=> t) /\ ~Negative(Counts, d)) <=> Rank(p) >= Rank(q)
      /\ (s /\ ~t) \/ ((s <=> t) /\ Negative(Counts, d) /\ d # 0) <=> Rank(p) < Rank(q)
  <2> HIDE DEF p, q
  <2> QED BY <1>4, RanksCompare
<1> HIDE DEF p, q, s, t, d
<1>8. /\ <<s, t>> = <<FALSE, TRUE>> <=> ~s /\ t
      /\ <<s, t>> = <<TRUE, FALSE>> <=> s /\ ~t
      /\ s = t <=> (s <=> t)
  BY <1>5
<1>9. CASE in.op = "GE"
  BY <1>3, <1>6, <1>7, <1>8, <1>9 DEF p, q
<1>10. CASE in.op = "LT"
  BY <1>3, <1>6, <1>7, <1>8, <1>10 DEF p, q
<1> QED
  BY <1>9, <1>10

\* A table that reaches the place of the last character reaches those of all.
LEMMA TableReached ==
    ASSUME CpuFits, InField(Collating(2^CharBits - 1)), NEW c \in Char
    PROVE  Collating(c) \in Nat /\ InField(Collating(c))
<1> DEFINE a == A(0)
           C == CharsPerWord
           T == 2^TableBits
           z == 2^CharBits - 1
           place(x) == (a + (x \div T)) * C + (x % T)
           limit == FlCm * C
<1>1. C \in Nat \ {0} /\ T \in Nat \ {0} /\ T <= C /\ a \in Nat /\ limit \in Int /\ z \in Nat /\ c \in 0 .. z
  <2>1. C \in Nat \ {0} /\ T \in Nat \ {0} /\ T <= C
    BY CpuInstructionsAssumption, PowerType
  <2>2. a \in Address
    BY ZeroRegister DEF CpuFits, A
  <2>3. a \in Nat
    BY <2>2, AddressType
  <2>4. FlCm \in Int
    BY SetupIs DEF CpuFits, FlCm
  <2>5. limit \in Int
    BY <2>1, <2>4, ProductType
  <2>6. 2^CharBits \in Nat \ {0}
    BY WeightIs
  <2>7. z \in Nat /\ c \in 0 .. z
    <3> DEFINE P == 2^CharBits
    <3>1. P \in Nat \ {0} /\ c \in 0 .. (P - 1)
      BY <2>6 DEF Char
    <3> HIDE DEF P
    <3> QED BY <3>1 DEF P
  <2> QED BY <2>1, <2>3, <2>5, <2>7
<1>2. Collating(c) = place(c) /\ place(z) < limit /\ (InField(Collating(c)) <=> place(c) < limit)
  BY DEF Collating, InField
<1> DEFINE q == c \div T
           r == c % T
           s == z \div T
           t == z % T
<1>3. q \in Nat /\ r \in 0 .. (T - 1) /\ c = q * T + r /\ s \in Nat /\ t \in 0 .. (T - 1) /\ z = s * T + t
  <2> HIDE DEF T, z
  <2>1. c \in Nat
    BY <1>1
  <2> QED BY <1>1, <2>1, NatDivided
<1>4. (a + q) * C + r \in Nat /\ (a + q) * C + r <= (a + s) * C + t
  <2> HIDE DEF q, r, s, t, a, z, T, C, limit
  <2>1. (a + q) * C \in Nat /\ (a + s) * C \in Nat
    <3>1. a + q \in Nat /\ a + s \in Nat /\ C \in Nat
      BY <1>1, <1>3
    <3> HIDE DEF q, s
    <3> QED BY <3>1, ProductOfNats
  <2>2. CASE q <= s - 1
    <3>1. (a + q) * C <= ((a + s) - 1) * C
      <4>1. a + q \in Int /\ (a + s) - 1 \in Int /\ a + q <= (a + s) - 1 /\ C \in Nat
        BY <1>1, <1>3, <2>2
      <4> QED BY <4>1, ProductGrows
    <3>2. ((a + s) - 1) * C = (a + s) * C - C
      <4> DEFINE y == a + s
      <4>1. y \in Int /\ 1 \in Int /\ C \in Int
        BY <1>1, <1>3
      <4> HIDE DEF y
      <4>2. (y - 1) * C = y * C - 1 * C /\ 1 * C = C
        BY <4>1, Distributes
      <4>3. (y - 1) * C = y * C - C
        BY <4>2
      <4> QED BY <4>3 DEF y
    <3> QED BY <1>1, <1>3, <2>1, <3>1, <3>2
  <2>3. CASE q = s
    <3>1. r <= t
      <4>1. s * T \in Int
        BY <1>1, <1>3, ProductType
      <4> QED BY <1>1, <1>3, <2>3, <4>1
    <3> QED BY <1>1, <1>3, <2>1, <2>3, <3>1
  <2>4. CASE q >= s + 1
    <3>1. (s + 1) * T <= q * T
      <4>1. s + 1 \in Int /\ q \in Int /\ s + 1 <= q /\ T \in Nat
        BY <1>1, <1>3, <2>4
      <4> QED BY <4>1, ProductGrows
    <3>2. (s + 1) * T = s * T + T
      <4>1. s \in Int /\ 1 \in Int /\ T \in Int
        BY <1>1, <1>3
      <4>2. (s + 1) * T = s * T + 1 * T /\ 1 * T = T
        BY <4>1, Distributes
      <4> QED BY <4>2
    <3>3. s * T \in Int /\ q * T \in Int
      BY <1>1, <1>3, ProductType
    <3> QED BY <1>1, <1>3, <3>1, <3>2, <3>3
  <2> QED BY <1>3, <2>2, <2>3, <2>4
<1>5. (a + s) * C + t < limit
  BY <1>2
<1>6. (a + s) * C + t \in Int
  <2>1. a + s \in Int /\ C \in Int
    BY <1>1, <1>3
  <2>2. (a + s) * C \in Int
    <3> DEFINE y == a + s
    <3>1. y \in Int
      BY <2>1
    <3> HIDE DEF y, C
    <3>2. y * C \in Int
      BY <2>1, <3>1, ProductType
    <3> QED BY <3>2 DEF y
  <2> HIDE DEF a, s, C, T, z
  <2> QED BY <1>1, <1>3, <2>2
<1> HIDE DEF limit, s, t, T, C, a, q, r
<1>7. (a + q) * C + r < limit
  BY <1>1, <1>4, <1>5, <1>6
<1> QED
  BY <1>2, <1>4, <1>7 DEF q, r

\* The sign of a comparison's X0.
LEMMA LeftNegative ==
    ASSUME NEW n \in Nat, 2 * n < Words, NEW k \in 0 .. (n - 1)
    PROVE  ~IsNegative(0) /\ ~IsNegative(n - k) /\ IsNegative(Complement(Words, n - k))
<1> DEFINE M == Words
<1>1. M \in Nat \ {0} /\ M = 2 * Magnitudes /\ Magnitudes \in Nat
  BY WordSizes, Sizes
<1> DEFINE r == n - k
           s == M - 1 - r
<1>2. r \in Nat /\ 2 * r < M /\ 2 * s >= M
  <2> HIDE DEF M
  <2> QED BY <1>1 DEF M
<1>3. ~IsNegative(0) /\ ~IsNegative(r) /\ IsNegative(s)
  <2>1. (IsNegative(0) <=> 2 * 0 >= M) /\ (IsNegative(r) <=> 2 * r >= M) /\ (IsNegative(s) <=> 2 * s >= M)
    BY DEF IsNegative, Negative
  <2> HIDE DEF M, r, s
  <2> QED BY <1>1, <1>2, <2>1
<1> QED
  BY <1>3 DEF Complement

\* CC and CU.
LEMMA FieldsInOrder ==
    ASSUME CpuFits, NEW in \in CpuPrograms[setup.part], CpuStep(in), in.op \in CompareOps,
           parcels = 4, Comparable(in)
    PROVE  IsNegative(regX'[0]) <=> Precedes(in)
<1> DEFINE N == in.n
           f == From(in)
           t == To(in)
           collated == in.op = "CC"
           a(k) == CharIn(cm, f + k)
           b(k) == CharIn(cm, t + k)
           rank(c) == IF collated THEN CharIn(cm, Collating(c)) ELSE c
           Differ(k) == rank(a(k)) # rank(b(k))
           ends == {k \in 0 .. (N - 1) : Differ(k)}
<1>1. f \in Nat /\ t \in Nat /\ N \in Nat /\ 2 * N < Words /\ Reached(f, t, N) = N /\ ~Illegal(in)
  <2>1. From(in) \in Nat /\ To(in) \in Nat
    BY CharactersAre
  <2>2. in.n \in Nat /\ 2 * in.n < Words
    BY InstructionIs DEF CpuFits
  <2> QED BY <2>1, <2>2 DEF Comparable
<1>2. \A k \in 0 .. (N - 1) : a(k) \in Char /\ b(k) \in Char
  <2> TAKE k \in 0 .. (N - 1)
  <2>1. f + k \in Nat /\ t + k \in Nat
    <3> HIDE DEF f, t, N
    <3> QED BY <1>1
  <2>2. cm \in [0 .. (setup.cmSize - 1) -> Word]
    BY DEF CpuFits
  <2> HIDE DEF f, t, N
  <2> QED BY <2>1, <2>2, CharInType
<1>3. \A c \in Char : rank(c) \in Char /\ (collated => InField(Collating(c)))
  <2> TAKE c \in Char
  <2>1. CASE collated
    <3>1. InField(Collating(2^CharBits - 1))
      BY <2>1 DEF Comparable
    <3>2. Collating(c) \in Nat /\ InField(Collating(c))
      BY <3>1, TableReached
    <3>3. cm \in [0 .. (setup.cmSize - 1) -> Word]
      BY DEF CpuFits
    <3>4. CharIn(cm, Collating(c)) \in Char
      BY <3>2, <3>3, CharInType
    <3> QED BY <2>1, <3>2, <3>4
  <2>2. CASE ~collated
    BY <2>2
  <2> QED BY <2>1, <2>2
<1>4. Char \subseteq Int
  <2> DEFINE P == 2^CharBits
  <2>1. P \in Int
    BY WeightIs
  <2> HIDE DEF P
  <2>2. 0 .. (P - 1) \subseteq Int
    BY <2>1
  <2> QED BY <2>2 DEF Char, P
<1>5. \A k \in 0 .. (N - 1) : Ends(collated, a(k), b(k)) <=> Differ(k)
  <2> TAKE k \in 0 .. (N - 1)
  <2> DEFINE x == a(k)
             y == b(k)
  <2>1. x \in Char /\ y \in Char
    BY <1>2
  <2> HIDE DEF x, y
  <2>2. ~TableMissing(x, y) \/ ~collated
    BY <1>3, <2>1 DEF TableMissing
  <2>3. Ends(collated, x, y) <=> rank(x) # rank(y)
    BY <2>2 DEF Ends
  <2> QED BY <2>3 DEF x, y
<1>6. CmuCompare(in)
  <2>1. Execute(in)
    BY DEF CpuStep
  <2> QED BY <2>1 DEF Execute, SetX, SetXB, SetB, SetA, Jump, RJ, PS, Pass, EcsTransfer, CmuMove,
                      BooleanOps, ShiftOps, NumericOps, MoveOps, CompareOps
<1> DEFINE e == Min(ends)
           missing == collated /\ TableMissing(a(e), b(e))
<1>7. IF ends = {} THEN CmuDone(FALSE, cm, 0) ELSE CmuDone(missing, cm, IF missing THEN 0 ELSE Comparison(in, e))
  <2> DEFINE n == IF Illegal(in) THEN 0 ELSE Reached(From(in), To(in), in.n)
             chars(k) == <<CharIn(cm, From(in) + k), CharIn(cm, To(in) + k)>>
             set == {k \in 0 .. (n - 1) : Ends(in.op = "CC", chars(k)[1], chars(k)[2])}
             k0 == Min(set)
             missed == in.op = "CC" /\ TableMissing(chars(k0)[1], chars(k0)[2])
  <2>1. n = N
    BY <1>1
  <2>2. \A k : chars(k)[1] = a(k) /\ chars(k)[2] = b(k)
    OBVIOUS
  <2>3. set = ends
    BY <1>5, <2>1, <2>2
  <2>4. IF set = {} THEN CmuDone(Illegal(in) \/ n < in.n, cm, 0)
        ELSE CmuDone(missed, cm, IF missed THEN 0 ELSE Comparison(in, k0))
    BY <1>6, Zenon DEF CmuCompare
  <2>5. ~(Illegal(in) \/ n < in.n)
    <3> HIDE DEF n, N
    <3>1. ~(n < N)
      BY <1>1, <2>1
    <3> QED BY <1>1, <3>1 DEF N
  <2> HIDE DEF set, n, ends
  <2>6. (Illegal(in) \/ n < in.n) = FALSE
    BY <2>5
  <2>7. missed = missing
    BY <2>2, <2>3, Zenon
  <2> HIDE DEF missed, missing
  <2> QED BY <2>3, <2>4, <2>6, <2>7
<1>8. ~missing \/ ends = {}
  <2> SUFFICES ASSUME ends # {} PROVE ~missing
    OBVIOUS
  <2>1. e \in 0 .. (N - 1)
    <3>1. ends \in SUBSET Nat /\ ends \subseteq 0 .. (N - 1)
      BY <1>1
    <3> HIDE DEF ends
    <3> QED BY <3>1, MinIs
  <2> HIDE DEF e, ends
  <2>2. a(e) \in Char /\ b(e) \in Char
    BY <1>2, <2>1
  <2> QED BY <1>3, <2>2 DEF TableMissing
<1>9. 0 \in DOMAIN regX
  BY ZeroRegister DEF CpuFits
<1>10. CASE ends = {}
  <2>1. regX'[0] = 0
    BY <1>7, <1>9, <1>10 DEF CmuDone
  <2>2. ~IsNegative(0)
    <3> DEFINE M == Words
    <3>1. M \in Nat \ {0} /\ (IsNegative(0) <=> 2 * 0 >= M)
      BY Sizes DEF IsNegative, Negative
    <3> HIDE DEF M
    <3> QED BY <3>1
  <2>3. ~Precedes(in)
    <3>1. \A k \in 0 .. (N - 1) : ~(rank(a(k)) < rank(b(k)))
      <4> TAKE k \in 0 .. (N - 1)
      <4>1. rank(a(k)) = rank(b(k))
        BY <1>10
      <4>2. rank(a(k)) \in Int
        BY <1>2, <1>3, <1>4
      <4> HIDE DEF rank, a, b
      <4> QED BY <4>1, <4>2
    <3>2. Precedes(in) => \E k \in 0 .. (N - 1) : rank(a(k)) < rank(b(k))
      BY DEF Precedes
    <3> QED BY <3>1, <3>2
  <2> QED BY <2>1, <2>2, <2>3
<1>11. CASE ends # {}
  <2> DEFINE smaller == IF collated THEN CharIn(cm, Collating(a(e))) < CharIn(cm, Collating(b(e))) ELSE a(e) < b(e)
  <2>1. e \in 0 .. (N - 1) /\ Differ(e) /\ \A h \in 0 .. (e - 1) : ~Differ(h)
    <3>1. ends \in SUBSET Nat
      BY <1>1
    <3>2. e \in ends /\ \A h \in ends : e <= h
      <4> HIDE DEF ends
      <4> QED BY <1>11, <3>1, MinIs
    <3>3. e \in 0 .. (N - 1) /\ Differ(e)
      BY <3>2
    <3>4. ASSUME NEW h \in 0 .. (e - 1) PROVE ~Differ(h)
      <4> HIDE DEF Differ, N, e
      <4>1. h \in 0 .. (N - 1) /\ ~(e <= h)
        BY <1>1, <3>3
      <4> QED BY <3>2, <4>1
    <3> QED BY <3>3, <3>4
  <2>2. regX'[0] = Comparison(in, e)
    <3>1. CmuDone(missing, cm, IF missing THEN 0 ELSE Comparison(in, e)) /\ ~missing
      BY <1>7, <1>8, <1>11
    <3> HIDE DEF missing, e
    <3> QED BY <1>9, <3>1 DEF CmuDone
  <2>3. Comparison(in, e) = Flip(smaller, N - e)
    BY Zenon DEF Comparison
  <2>4. smaller <=> rank(a(e)) < rank(b(e))
    <3> HIDE DEF e, a, b
    <3> QED OBVIOUS
  <2> HIDE DEF smaller, e, ends, missing
  <2>5. IsNegative(regX'[0]) <=> smaller
    <3>1. ~IsNegative(N - e) /\ IsNegative(Complement(Words, N - e))
      <4> HIDE DEF N
      <4> QED BY <1>1, <2>1, LeftNegative
    <3>2. Flip(smaller, N - e) = IF smaller THEN Complement(Words, N - e) ELSE N - e
      BY DEF Flip
    <3> HIDE DEF N
    <3> QED BY <2>2, <2>3, <3>1, <3>2
  <2>6. Precedes(in) <=> \E k \in 0 .. (N - 1) : rank(a(k)) < rank(b(k)) /\ \A h \in 0 .. (k - 1) : rank(a(h)) = rank(b(h))
    BY Zenon DEF Precedes
  <2>7. \A k \in 0 .. (N - 1) : rank(a(k)) \in Int /\ rank(b(k)) \in Int
    BY <1>2, <1>3, <1>4
  <2> HIDE DEF rank, a, b, N
  <2>8. ASSUME rank(a(e)) < rank(b(e)) PROVE Precedes(in)
    BY <2>1, <2>6, <2>8
  <2>9. ASSUME NEW k \in 0 .. (N - 1), rank(a(k)) < rank(b(k)), \A h \in 0 .. (k - 1) : rank(a(h)) = rank(b(h))
        PROVE  rank(a(e)) < rank(b(e))
    <3>1. k = e
      <4>1. rank(a(k)) # rank(b(k))
        BY <2>7, <2>9
      <4>2. ~(k < e)
        BY <1>1, <2>1, <4>1
      <4>3. ~(e < k)
        BY <1>1, <2>1, <2>9
      <4> QED BY <1>1, <2>1, <4>2, <4>3
    <3> QED BY <2>9, <3>1
  <2> QED BY <2>4, <2>5, <2>6, <2>8, <2>9
<1> QED
  BY <1>10, <1>11
\* Jumps on the order of two registers and comparisons of two fields go by what registers and
\* characters stand for, collated or not (cpOp06, cpOp07, cpuCmuCompareCollated,
\* cpuCmuCompareUncollated).
THEOREM ComparedInOrder == ASSUME FieldsFit PROVE Spec => OrderExact
<1> DEFINE Ordered ==
               LET in == last'
               IN  /\ in.op = "GE" /\ parcels = 4 => (parcels' = 4 <=> Rank(B(in.i)) >= Rank(B(in.j)))
                   /\ in.op = "LT" /\ parcels = 4 => (parcels' = 4 <=> Rank(B(in.i)) < Rank(B(in.j)))
                   /\ in.op \in CompareOps /\ parcels = 4 /\ Comparable(in) =>
                         (IsNegative(regX'[0]) <=> Precedes(in))
<1>1. Init => NumbersFit
  BY NumbersFitFirst
<1>2. NumbersFit /\ [Next]_vars => NumbersFit'
  BY NextFits
<1>3. ASSUME NumbersFit, Cpu PROVE Ordered
  <2>1. PICK in \in CpuPrograms[setup.part] : CpuStep(in)
    BY <1>3 DEF Cpu
  <2>2. last' = in /\ CpuFits
    BY <1>3, <2>1 DEF CpuStep, NumbersFit
  <2>3. ASSUME in.op \in {"GE", "LT"}, parcels = 4
        PROVE  parcels' = 4 <=> IF in.op = "GE" THEN Rank(B(in.i)) >= Rank(B(in.j))
                                                ELSE Rank(B(in.i)) < Rank(B(in.j))
    BY <2>1, <2>2, <2>3, JumpsInOrder
  <2>4. ASSUME in.op \in CompareOps, parcels = 4, Comparable(in)
        PROVE  IsNegative(regX'[0]) <=> Precedes(in)
    BY <2>1, <2>2, <2>4, FieldsInOrder
  <2> QED BY <2>2, <2>3, <2>4
<1>4. Next => Cpu \/ UNCHANGED cpuVars
  BY DEF Next, Peripheral, Driver, DdpIo
<1>5. NumbersFit /\ [Next]_vars => [Ordered]_cpuVars
  <2>1. UNCHANGED vars => UNCHANGED cpuVars
    BY DEF vars, cpuVars, cpuRegisters
  <2> HIDE DEF Ordered
  <2> QED BY <1>3, <1>4, <2>1
<1> QED
  BY <1>1, <1>2, <1>5, PTL DEF Spec, OrderExact
=============================================================================
