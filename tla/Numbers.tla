------------------------------ MODULE Numbers ------------------------------
(***************************************************************************)
(* Facts about integers. The least-number principle, in a form that takes  *)
(* no operator: loops that look for the lowest slot, pool or window find   *)
(* one. Arithmetic modulo m: registers that wrap.                          *)
(***************************************************************************)
EXTENDS Integers, FiniteSetTheorems, FunctionTheorems, WellFoundedInduction, TLAPS

\* A set of natural numbers that is not empty has a lowest element: of the
\* intervals that end in it, one has no other inside.
LEMMA LowestExists ==
  ASSUME NEW T, T \subseteq Nat, T # {}
  PROVE  \E i \in T : \A j \in T : i <= j
<1> DEFINE R == StrictSubsetOrdering(Nat)
           Upto == {0 .. i : i \in T}
<1>1. Upto \subseteq FiniteSubsetsOf(Nat)
  <2>1. \A i \in Nat : 0 .. i \in SUBSET Nat /\ IsFiniteSet(0 .. i)
    BY FS_Interval
  <2> QED BY <2>1 DEF FiniteSubsetsOf
<1>2. IsWellFoundedOn(R, FiniteSubsetsOf(Nat))
  BY FS_StrictSubsetOrderingWellFounded
<1>3. Upto # {}
  OBVIOUS
<1> HIDE DEF R
<1>4. PICK U \in Upto : \A V \in Upto : ~ (<<V, U>> \in R)
  <2> HIDE DEF Upto
  <2> QED BY <1>1, <1>2, <1>3, WFMin
<1>5. PICK i \in T : U = 0 .. i
  OBVIOUS
<1>6. ASSUME NEW j \in T, j < i
      PROVE  FALSE
  <2>1. 0 .. j \in Upto /\ <<0 .. j, 0 .. i>> \in R
    BY <1>6 DEF R, StrictSubsetOrdering
  <2> QED BY <2>1, <1>4, <1>5
<1> QED BY <1>6

\* What a loop over the elements in their order finds.
LEMMA LowestIn ==
  ASSUME NEW T, T \subseteq Nat, T # {}
  PROVE  (CHOOSE i \in T : \A j \in T : i <= j) \in T
  BY LowestExists

\* Induction over the numbers, as a fact about sets.
LEMMA EveryNatural ==
  ASSUME NEW T, 0 \in T, \A n \in Nat : n \in T => n + 1 \in T
  PROVE  Nat \subseteq T
<1> SUFFICES ASSUME Nat \ T # {} PROVE FALSE
  OBVIOUS
<1>1. PICK i \in Nat \ T : \A j \in Nat \ T : i <= j
  BY LowestExists
<1>2. i # 0 /\ i - 1 \in Nat /\ i - 1 \in T
  BY <1>1
<1>3. (i - 1) + 1 \in T
  BY <1>2
<1> QED BY <1>1, <1>3

-----------------------------------------------------------------------------
(* Arithmetic modulo m. *)

LEMMA NoMultipleBetween ==
  ASSUME NEW m \in Nat \ {0}, NEW k \in Int, -m < m * k, m * k < m
  PROVE  k = 0
<1>1. CASE k >= 1
  <2>1. m * k >= m * 1
    BY <1>1
  <2> QED BY <2>1
<1>2. CASE k <= -1
  <2>1. m * k <= m * (-1)
    BY <1>2
  <2> QED BY <2>1
<1> QED BY <1>1, <1>2

LEMMA DivMod ==
  ASSUME NEW m \in Nat \ {0}, NEW x \in Int
  PROVE  \E q \in Int : x = m * q + (x % m) /\ x % m \in 0 .. m - 1
<1> DEFINE q == x \div m
<1>1. q \in Int /\ x = m * q + (x % m) /\ x % m \in 0 .. m - 1
  BY SMT
<1> HIDE DEF q
<1> QED BY <1>1

LEMMA ModUnique ==
  ASSUME NEW m \in Nat \ {0}, NEW q \in Int, NEW r \in 0 .. m - 1, NEW x \in Int, x = m * q + r
  PROVE  x % m = r
<1>1. PICK p \in Int : x = m * p + (x % m) /\ x % m \in 0 .. m - 1
  BY DivMod
<1>2. m * (q - p) = (x % m) - r
  BY <1>1
<1>3. q - p = 0
  BY <1>1, <1>2, NoMultipleBetween
<1> QED BY <1>1, <1>2, <1>3

LEMMA ResidueOfZero ==
  ASSUME NEW m \in Nat \ {0}
  PROVE  0 % m = 0
<1>1. 0 = m * 0 + 0 /\ 0 \in 0 .. m - 1
  OBVIOUS
<1> QED BY <1>1, ModUnique

\* Less than m apart, equal residues are equal numbers.
LEMMA SameResidue ==
  ASSUME NEW m \in Nat \ {0}, NEW x \in Int, NEW y \in Int,
         x % m = y % m, -m < x - y, x - y < m
  PROVE  x = y
<1>1. PICK p \in Int : x = m * p + (x % m) /\ x % m \in 0 .. m - 1
  BY DivMod
<1>2. PICK q \in Int : y = m * q + (y % m) /\ y % m \in 0 .. m - 1
  BY DivMod
<1>3. m * (p - q) = x - y
  BY <1>1, <1>2
<1>4. p - q = 0
  BY <1>3, NoMultipleBetween
<1> QED BY <1>3, <1>4

\* The residue of the next number.
LEMMA NextResidue ==
  ASSUME NEW m \in Nat \ {0}, NEW x \in Int
  PROVE  (x + 1) % m = ((x % m) + 1) % m
<1>1. PICK p \in Int : x = m * p + (x % m) /\ x % m \in 0 .. m - 1
  BY DivMod
<1> DEFINE r == (x % m) + 1
           y == x + 1
<1>2. CASE r < m
  <2>1. y = m * p + r /\ r = m * 0 + r /\ r \in 0 .. m - 1 /\ y \in Int
    BY <1>1, <1>2
  <2> HIDE DEF r, y
  <2>2. y % m = r /\ r % m = r
    BY <2>1, ModUnique
  <2> QED BY <2>2 DEF r, y
<1>3. CASE r = m
  <2>1. y = m * (p + 1) + 0 /\ m = m * 1 + 0 /\ 0 \in 0 .. m - 1 /\ p + 1 \in Int /\ y \in Int
    BY <1>1, <1>3
  <2> HIDE DEF y
  <2>2. y % m = 0 /\ m % m = 0
    BY <2>1, ModUnique
  <2> HIDE DEF r
  <2> QED BY <1>3, <2>2 DEF r, y
<1> QED BY <1>1, <1>2, <1>3

IsResidue(r, x, m) == r = x % m

\* A clock that moves by d moves a difference of two readings by d, as long as
\* this does not take the difference round.
LEMMA AgeStep ==
  ASSUME NEW m \in Nat \ {0}, NEW n \in 0 .. m - 1, NEW i \in 0 .. m - 1, NEW d \in Nat,
         NEW before, IsResidue(before, n - i, m), before + d < m,
         NEW c, IsResidue(c, n + d, m)
  PROVE  IsResidue(before + d, c - i, m)
<1> DEFINE x == n - i
           y == n + d
<1>1. x \in Int /\ y \in Int /\ y = x + (i + d)
  OBVIOUS
<1>2. \E a \in 0 .. m - 1, p \in Int : x = m * p + a /\ a = x % m
  <2> HIDE DEF x
  <2> QED BY <1>1, DivMod
<1>3. \E b \in 0 .. m - 1, q \in Int : y = m * q + b /\ b = y % m
  <2> HIDE DEF y
  <2> QED BY <1>1, DivMod
<1>4. before = x % m /\ c = y % m
  BY DEF IsResidue
<1> HIDE DEF x, y
<1>5. PICK p \in Int, q \in Int : /\ x = m * p + before /\ before \in 0 .. m - 1
                                 /\ y = m * q + c /\ c \in 0 .. m - 1
  BY <1>2, <1>3, <1>4
<1>6. c - i = m * (p - q) + (before + d) /\ p - q \in Int
  <2> DEFINE u == m * p
             v == m * q
  <2>1. m * (p - q) = u - v /\ u \in Int /\ v \in Int
    OBVIOUS
  <2>2. x = u + before /\ y = v + c /\ y = x + (i + d)
        /\ before \in Int /\ c \in Int /\ x \in Int /\ y \in Int
    BY <1>1, <1>5
  <2> HIDE DEF u, v
  <2>3. c - i = (u - v) + (before + d)
    BY <2>1, <2>2
  <2> QED BY <2>1, <2>3
<1>7. before + d \in 0 .. m - 1 /\ c - i \in Int
  BY <1>5
<1>8. (c - i) % m = before + d
  <2> DEFINE z == c - i
             e == before + d
  <2>1. z = m * (p - q) + e /\ p - q \in Int /\ e \in 0 .. m - 1 /\ z \in Int
    BY <1>6, <1>7
  <2> HIDE DEF z, e
  <2>2. z % m = e
    BY <2>1, ModUnique
  <2> QED BY <2>2 DEF z, e
<1> QED BY <1>8 DEF IsResidue

\* Reducing first, then adding.
LEMMA ResiduePlus ==
  ASSUME NEW m \in Nat \ {0}, NEW x \in Int, NEW d \in Int
  PROVE  (x + d) % m = ((x % m) + d) % m
<1>1. PICK p \in Int : x = m * p + (x % m) /\ x % m \in 0 .. m - 1
  BY DivMod
<1> DEFINE r == (x % m) + d
           y == x + d
<1>2. r \in Int /\ y \in Int
  BY <1>1
<1>3. PICK q \in Int : r = m * q + (r % m) /\ r % m \in 0 .. m - 1
  <2> HIDE DEF r
  <2> QED BY <1>2, DivMod
<1>4. y = m * (p + q) + (r % m) /\ p + q \in Int
  <2> DEFINE e == r % m
  <2>1. y = m * p + r
    BY <1>1
  <2> HIDE DEF r
  <2>2. r = m * q + e /\ e \in Int
    BY <1>3
  <2> HIDE DEF y, e
  <2>3. y = m * (p + q) + e
    BY <1>2, <2>1, <2>2
  <2> QED BY <2>3 DEF e
<1> HIDE DEF r, y
<1>5. y % m = r % m
  BY <1>2, <1>3, <1>4, ModUnique
<1> QED BY <1>5 DEF r, y

\* How far apart two numbers are can be told from their residues.
LEMMA ResidueDifference ==
  ASSUME NEW m \in Nat \ {0}, NEW x \in Int, NEW y \in Int, x - y \in 0 .. m - 1
  PROVE  ((x % m) - (y % m)) % m = x - y
<1> DEFINE a == x % m
           b == y % m
           z == a - b
<1>1. PICK p \in Int : x = m * p + a /\ a \in 0 .. m - 1
  BY DivMod
<1>2. PICK q \in Int : y = m * q + b /\ b \in 0 .. m - 1
  BY DivMod
<1>3. z = m * (q - p) + (x - y) /\ q - p \in Int /\ z \in Int
  <2> HIDE DEF a, b
  <2> QED BY <1>1, <1>2
<1> HIDE DEF z
<1>4. z % m = x - y
  BY <1>3, ModUnique
<1> QED BY <1>4 DEF z

-----------------------------------------------------------------------------
(* Division. *)

LEMMA Division ==
  ASSUME NEW p \in Nat \ {0}, NEW x \in Int
  PROVE  /\ x \div p \in Int /\ x % p \in 0 .. p - 1
         /\ x = p * (x \div p) + (x % p)
  BY SMT

LEMMA DivUnique ==
  ASSUME NEW p \in Nat \ {0}, NEW q \in Int, NEW r \in 0 .. p - 1, NEW x \in Int, x = p * q + r
  PROVE  x \div p = q
<1> DEFINE d == x \div p
           e == x % p
<1>1. d \in Int /\ e \in 0 .. p - 1 /\ x = p * d + e
  BY Division
<1> HIDE DEF d, e
<1>2. p * (q - d) = e - r
  BY <1>1
<1>3. q - d = 0
  BY <1>1, <1>2, NoMultipleBetween
<1> QED BY <1>1, <1>3 DEF d

\* Adding a multiple of the divisor.
LEMMA DivPlus ==
  ASSUME NEW p \in Nat \ {0}, NEW x \in Int, NEW k \in Int
  PROVE  (x + p * k) \div p = (x \div p) + k
<1> DEFINE d == x \div p
           e == x % p
           y == x + p * k
<1>1. d \in Int /\ e \in 0 .. p - 1 /\ x = p * d + e
  BY Division
<1>2. y \in Int /\ d + k \in Int
  BY <1>1
<1>3. y = p * (d + k) + e
  <2> HIDE DEF d, e
  <2> QED BY <1>1
<1> HIDE DEF d, e, y
<1>4. y \div p = d + k
  BY <1>1, <1>2, <1>3, DivUnique
<1> QED BY <1>4 DEF y, d

\* Dividing twice.
LEMMA DivDiv ==
  ASSUME NEW p \in Nat \ {0}, NEW r \in Nat \ {0}, NEW x \in Int
  PROVE  (x \div p) \div r = x \div (p * r)
<1> DEFINE d == x \div p
           e == x % p
           h == d \div r
           f == d % r
           m == p * r
           g == p * f + e
<1>1. d \in Int /\ e \in 0 .. p - 1 /\ x = p * d + e
  BY Division
<1>2. h \in Int /\ f \in 0 .. r - 1 /\ d = r * h + f
  <2> HIDE DEF d
  <2> QED BY <1>1, Division
<1> HIDE DEF d, e, h, f
<1>3. m \in Nat \ {0} /\ m * h = p * (r * h)
  <2>1. m >= p * 1
    OBVIOUS
  <2>2. (p * r) * h = p * (r * h)
    BY <1>2
  <2> QED BY <2>1, <2>2
<1>4. p * f <= p * (r - 1) /\ p * f >= 0 /\ p * (r - 1) = m - p
  BY <1>2
<1>5. g \in 0 .. m - 1
  BY <1>1, <1>2, <1>3, <1>4
<1>6. x = m * h + g
  BY <1>1, <1>2, <1>3
<1> HIDE DEF m, g
<1>7. x \div m = h
  BY <1>2, <1>3, <1>5, <1>6, DivUnique
<1> QED BY <1>7 DEF m, d, h

\* The quotient of the next number.
LEMMA DivNext ==
  ASSUME NEW p \in Nat \ {0}, NEW x \in Int
  PROVE  (x + 1) \div p \in {x \div p, (x \div p) + 1}
<1> DEFINE d == x \div p
           e == x % p
           y == x + 1
<1>1. d \in Int /\ e \in 0 .. p - 1 /\ x = p * d + e
  BY Division
<1> HIDE DEF d, e
<1>2. CASE e + 1 < p
  <2>1. e + 1 \in 0 .. p - 1 /\ y \in Int /\ y = p * d + (e + 1)
    BY <1>1, <1>2
  <2> HIDE DEF y
  <2>2. y \div p = d
    BY <1>1, <2>1, DivUnique
  <2> QED BY <2>2 DEF y, d
<1>3. CASE e + 1 = p
  <2>1. 0 \in 0 .. p - 1 /\ y \in Int /\ d + 1 \in Int /\ y = p * (d + 1) + 0
    BY <1>1, <1>3
  <2> HIDE DEF y
  <2>2. y \div p = d + 1
    BY <1>1, <2>1, DivUnique
  <2> QED BY <2>2 DEF y, d
<1> QED BY <1>1, <1>2, <1>3

-----------------------------------------------------------------------------
(* Powers of two. *)

\* The provers know no law of the exponential; this one counts subsets.
LEMMA PowerStep ==
  ASSUME NEW n \in Nat
  PROVE  2^(n + 1) = 2 * 2^n
<1> DEFINE S == 1 .. n
           T == 1 .. n + 1
           A == SUBSET S
           f == [U \in A |-> U \cup {n + 1}]
           B == {U \cup {n + 1} : U \in A}
<1>1. /\ IsFiniteSet(S) /\ Cardinality(S) = n
      /\ IsFiniteSet(T) /\ Cardinality(T) = n + 1
  <2>1. 1 \in Int /\ n \in Int /\ n + 1 \in Int
    OBVIOUS
  <2>2. /\ IsFiniteSet(S) /\ Cardinality(S) = IF 1 > n THEN 0 ELSE n - 1 + 1
        /\ IsFiniteSet(T) /\ Cardinality(T) = IF 1 > n + 1 THEN 0 ELSE n + 1 - 1 + 1
    BY <2>1, FS_Interval
  <2> QED BY <2>2
<1>2. IsFiniteSet(A) /\ Cardinality(A) = 2^n
  BY <1>1, FS_SUBSET
<1>3. IsFiniteSet(SUBSET T) /\ Cardinality(SUBSET T) = 2^(n + 1)
  BY <1>1, FS_SUBSET
<1>4. SUBSET T = A \cup B
  <2>1. ASSUME NEW U \in SUBSET T PROVE U \in A \cup B
    <3>1. CASE n + 1 \notin U
      BY <3>1
    <3>2. CASE n + 1 \in U
      <4>1. U \ {n + 1} \in A /\ U = (U \ {n + 1}) \cup {n + 1}
        BY <3>2
      <4> QED BY <4>1
    <3> QED BY <3>1, <3>2
  <2>2. A \cup B \subseteq SUBSET T
    <3>1. S \subseteq T /\ n + 1 \in T
      OBVIOUS
    <3> HIDE DEF S, T
    <3> QED BY <3>1
  <2> QED BY <2>1, <2>2
<1>5. A \cap B = {}
  <2>1. n + 1 \notin S
    OBVIOUS
  <2> QED BY <2>1
<1>6. f \in Bijection(A, B)
  <2>1. f \in [A -> B]
    OBVIOUS
  <2>2. ASSUME NEW U \in A, NEW V \in A, f[U] = f[V] PROVE U = V
    <3>1. n + 1 \notin U /\ n + 1 \notin V /\ U \cup {n + 1} = V \cup {n + 1}
      BY <2>2
    <3> QED BY <3>1
  <2>3. \A W \in B : \E U \in A : f[U] = W
    OBVIOUS
  <2> HIDE DEF f, A, B
  <2> QED BY <2>1, <2>2, <2>3, Fun_IsBij
<1>7. IsFiniteSet(B) /\ Cardinality(B) = 2^n
  <2>1. ExistsBijection(A, B)
    BY <1>6 DEF ExistsBijection
  <2> HIDE DEF A, B
  <2> QED BY <1>2, <2>1, FS_Bijection
<1>8. 2^(n + 1) = 2^n + 2^n - 0
  <2>1. Cardinality(A \cap B) = 0
    BY <1>5, FS_EmptySet
  <2> HIDE DEF A, B
  <2> QED BY <1>2, <1>3, <1>4, <1>7, <2>1, FS_Union
<1>9. 2^n \in Int
  BY <1>2, FS_CardinalityType
<1> QED BY <1>8, <1>9

LEMMA PowerPositive ==
  ASSUME NEW n \in Nat
  PROVE  2^n \in Nat \ {0}
<1> DEFINE T == {k \in Nat : 2^k \in Nat \ {0}}
<1>1. 0 \in T
  OBVIOUS
<1>2. \A k \in Nat : k \in T => k + 1 \in T
  BY PowerStep
<1> HIDE DEF T
<1>3. n \in T
  BY <1>1, <1>2, EveryNatural
<1> QED BY <1>3 DEF T

LEMMA PowerSplit ==
  ASSUME NEW n \in Nat, NEW i \in 0 .. n
  PROVE  2^n = 2^i * 2^(n - i)
<1> DEFINE T == {k \in Nat : k <= n => 2^n = 2^k * 2^(n - k)}
<1>1. 0 \in T
  <2>1. 2^n \in Nat /\ 2^0 = 1 /\ n - 0 = n
    BY PowerPositive
  <2> QED BY <2>1
<1>2. ASSUME NEW k \in Nat, k \in T, k + 1 <= n PROVE 2^n = 2^(k + 1) * 2^(n - (k + 1))
  <2>1. PICK j \in Nat : j = n - (k + 1)
    BY <1>2
  <2>2. 2^n = 2^k * 2^(j + 1)
    <3>1. n - k = j + 1
      BY <2>1
    <3> QED BY <1>2, <3>1
  <2>3. 2^(j + 1) = 2 * 2^j /\ 2^(k + 1) = 2 * 2^k
    BY PowerStep
  <2>4. PICK a \in Nat, b \in Nat : a = 2^k /\ b = 2^j
    BY PowerPositive
  <2>5. a * (2 * b) = (2 * a) * b
    OBVIOUS
  <2> QED BY <2>1, <2>2, <2>3, <2>4, <2>5
<1>3. \A k \in Nat : k \in T => k + 1 \in T
  BY <1>2
<1> HIDE DEF T
<1>4. i \in T
  BY <1>1, <1>3, EveryNatural
<1> QED BY <1>4 DEF T
=============================================================================
