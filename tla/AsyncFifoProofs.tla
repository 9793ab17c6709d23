-------------------------- MODULE AsyncFifoProofs --------------------------
(***************************************************************************)
(* Theorems about AsyncFifo for every depth, every number of synchroniser  *)
(* flops and any payloads. A pointer is followed by its position, a number *)
(* that does not wrap: the invariant orders the positions of the pointers  *)
(* and of their copies, and facts about the Gray code carry it over to     *)
(* what the registers hold and to the comparisons full and empty make.     *)
(***************************************************************************)
EXTENDS AsyncFifoReplay, Numbers, SequenceTheorems

-----------------------------------------------------------------------------
(***************************************************************************)
(* The Gray code of b has bit i set when the two lowest bits of b \div 2^i *)
(* differ.                                                                 *)
(***************************************************************************)
Quot(b, i) == b \div 2^i
Mixed(q)   == q % 2 # (q \div 2) % 2

LEMMA QuotType ==
  ASSUME NEW b \in Int, NEW i \in Nat
  PROVE  Quot(b, i) \in Int
<1>1. 2^i \in Nat \ {0}
  BY PowerPositive
<1> QED BY <1>1, Division DEF Quot

LEMMA QuotZero ==
  ASSUME NEW b \in Int
  PROVE  Quot(b, 0) = b
<1>1. 2^0 = 1 /\ b = 1 * b + 0 /\ 0 \in 0 .. 1 - 1 /\ 1 \in Nat \ {0}
  OBVIOUS
<1> QED BY <1>1, DivUnique DEF Quot

LEMMA QuotNext ==
  ASSUME NEW b \in Int, NEW i \in Nat
  PROVE  Quot(b, i + 1) = Quot(b, i) \div 2
<1>1. PICK p \in Nat \ {0} : p = 2^i
  BY PowerPositive
<1>2. 2^(i + 1) = p * 2
  BY <1>1, PowerStep
<1>3. (b \div p) \div 2 = b \div (p * 2)
  <2>1. PICK r \in Nat \ {0} : r = 2
    OBVIOUS
  <2>2. (b \div p) \div r = b \div (p * r)
    BY DivDiv
  <2> QED BY <2>1, <2>2
<1> QED BY <1>1, <1>2, <1>3 DEF Quot

LEMMA GrayBit ==
  ASSUME NEW b \in Int, NEW i \in PtrBits
  PROVE  i \in b2g(b) <=> Mixed(Quot(b, i))
<1>1. i \in Nat
  BY FifoAssumption DEF PtrBits
<1>2. Quot(b, i + 1) = Quot(b, i) \div 2
  BY <1>1, QuotNext
<1> QED BY <1>2 DEF b2g, Bit, Quot, Mixed

\* The two lowest bits of a number.
LEMMA LowBits ==
  ASSUME NEW q \in Int
  PROVE  \E g \in Int, f \in 0 .. 1, e \in 0 .. 1 :
           /\ q = 4 * g + 2 * f + e /\ q \div 2 = 2 * g + f
           /\ Mixed(q) <=> e # f
<1>1. PICK h \in Int, e \in 0 .. 1 : h = q \div 2 /\ e = q % 2 /\ q = 2 * h + e
  BY Division
<1>2. PICK g \in Int, f \in 0 .. 1 : g = h \div 2 /\ f = h % 2 /\ h = 2 * g + f
  BY Division
<1>3. Mixed(q) <=> e # f
  BY <1>1, <1>2 DEF Mixed
<1>4. q = 4 * g + 2 * f + e
  BY <1>1, <1>2
<1> QED BY <1>1, <1>2, <1>3, <1>4

LEMMA MixedForm ==
  ASSUME NEW g \in Int, NEW f \in 0 .. 1, NEW e \in 0 .. 1
  PROVE  /\ Mixed(4 * g + 2 * f + e) <=> e # f
         /\ (4 * g + 2 * f + e) \div 2 = 2 * g + f
<1> DEFINE q == 4 * g + 2 * f + e
<1>1. q \in Int
  OBVIOUS
<1> HIDE DEF q
<1>2. PICK g1 \in Int, f1 \in 0 .. 1, e1 \in 0 .. 1 :
        /\ q = 4 * g1 + 2 * f1 + e1 /\ q \div 2 = 2 * g1 + f1
        /\ Mixed(q) <=> e1 # f1
  BY <1>1, LowBits
<1>3. g1 = g /\ f1 = f /\ e1 = e
  BY <1>2 DEF q
<1> QED BY <1>2, <1>3 DEF q

\* Counting up by one changes the Gray bit just when no carry leaves this bit.
LEMMA MixedNext ==
  ASSUME NEW q \in Int
  PROVE  (Mixed(q + 1) <=> Mixed(q)) <=> (q + 1) \div 2 # q \div 2
<1>1. PICK g \in Int, f \in 0 .. 1, e \in 0 .. 1 :
        /\ q = 4 * g + 2 * f + e /\ q \div 2 = 2 * g + f
        /\ Mixed(q) <=> e # f
  BY LowBits
<1> DEFINE r == q + 1
<1>2. CASE e = 0
  <2>1. r = 4 * g + 2 * f + 1 /\ 1 \in 0 .. 1
    BY <1>1, <1>2
  <2> HIDE DEF r
  <2>2. (Mixed(r) <=> 1 # f) /\ r \div 2 = 2 * g + f
    BY <2>1, MixedForm
  <2> QED BY <1>1, <1>2, <2>2 DEF r
<1>3. CASE e = 1 /\ f = 0
  <2>1. r = 4 * g + 2 * 1 + 0 /\ 1 \in 0 .. 1 /\ 0 \in 0 .. 1
    BY <1>1, <1>3
  <2> HIDE DEF r
  <2>2. (Mixed(r) <=> 0 # 1) /\ r \div 2 = 2 * g + 1
    BY <2>1, MixedForm
  <2> QED BY <1>1, <1>3, <2>2 DEF r
<1>4. CASE e = 1 /\ f = 1
  <2>1. r = 4 * (g + 1) + 2 * 0 + 0 /\ 0 \in 0 .. 1 /\ g + 1 \in Int
    BY <1>1, <1>4
  <2> HIDE DEF r
  <2>2. (Mixed(r) <=> 0 # 0) /\ r \div 2 = 2 * (g + 1) + 0
    BY <2>1, MixedForm
  <2> QED BY <1>1, <1>4, <2>2 DEF r
<1> QED BY <1>2, <1>3, <1>4

\* Adding two changes it, adding a multiple of four does not.
LEMMA MixedPlus ==
  ASSUME NEW q \in Int
  PROVE  /\ Mixed(q + 2) <=> ~ Mixed(q)
         /\ \A k \in Int : Mixed(q + 4 * k) <=> Mixed(q)
<1>1. PICK g \in Int, f \in 0 .. 1, e \in 0 .. 1 :
        /\ q = 4 * g + 2 * f + e /\ q \div 2 = 2 * g + f
        /\ Mixed(q) <=> e # f
  BY LowBits
<1>2. Mixed(q + 2) <=> ~ Mixed(q)
  <2> DEFINE r == q + 2
  <2>1. CASE f = 0
    <3>1. r = 4 * g + 2 * 1 + e /\ 1 \in 0 .. 1
      BY <1>1, <2>1
    <3> HIDE DEF r
    <3>2. Mixed(r) <=> e # 1
      BY <3>1, MixedForm
    <3> QED BY <1>1, <2>1, <3>2 DEF r
  <2>2. CASE f = 1
    <3>1. r = 4 * (g + 1) + 2 * 0 + e /\ 0 \in 0 .. 1 /\ g + 1 \in Int
      BY <1>1, <2>2
    <3> HIDE DEF r
    <3>2. Mixed(r) <=> e # 0
      BY <3>1, MixedForm
    <3> QED BY <1>1, <2>2, <3>2 DEF r
  <2> QED BY <2>1, <2>2
<1>3. ASSUME NEW k \in Int PROVE Mixed(q + 4 * k) <=> Mixed(q)
  <2> DEFINE r == q + 4 * k
  <2>1. r = 4 * (g + k) + 2 * f + e /\ g + k \in Int
    BY <1>1
  <2> HIDE DEF r
  <2>2. Mixed(r) <=> e # f
    BY <2>1, MixedForm
  <2> QED BY <1>1, <2>2 DEF r
<1> QED BY <1>2, <1>3

-----------------------------------------------------------------------------
(* What the crossing needs of the Gray code of a pointer. *)

LEMMA FifoSizes ==
  /\ FIFO_AW \in Nat /\ FIFO_AW >= 2 /\ STAGES \in Nat /\ STAGES >= 2
  /\ FifoDepth \in Nat \ {0} /\ PtrMod \in Nat \ {0} /\ PtrMod = 2 * FifoDepth
  /\ FifoDepth = 2^FIFO_AW /\ PtrMod = 2^(FIFO_AW + 1)
<1>1. FIFO_AW \in Nat
  BY FifoAssumption
<1>2. 2^FIFO_AW \in Nat \ {0} /\ 2^(FIFO_AW + 1) = 2 * 2^FIFO_AW
  BY <1>1, PowerPositive, PowerStep
<1> QED BY <1>2, FifoAssumption DEF FifoDepth, PtrMod

\* Dividing a power of two by a smaller one.
LEMMA QuotPower ==
  ASSUME NEW n \in Nat, NEW i \in 0 .. n
  PROVE  /\ Quot(2^n, i) = 2^(n - i)
         /\ \A b \in Int : Quot(b + 2^n, i) = Quot(b, i) + 2^(n - i)
<1>1. i \in Nat /\ n - i \in Nat
  OBVIOUS
<1>2. PICK p \in Nat \ {0}, k \in Nat \ {0}, m \in Nat \ {0} : p = 2^i /\ k = 2^(n - i) /\ m = 2^n
  BY <1>1, PowerPositive
<1>3. m = p * k
  BY <1>1, <1>2, PowerSplit
<1>4. ASSUME NEW b \in Int PROVE (b + m) \div p = (b \div p) + k
  <2>1. (b + p * k) \div p = (b \div p) + k
    BY DivPlus
  <2> QED BY <1>3, <2>1
<1>5. m \div p = k
  <2>1. m = p * k + 0 /\ 0 \in 0 .. p - 1
    BY <1>3
  <2> QED BY <2>1, DivUnique
<1> QED BY <1>2, <1>4, <1>5 DEF Quot

\* Once the quotients of two numbers agree they go on doing so.
LEMMA QuotsStayEqual ==
  ASSUME NEW a \in Int, NEW b \in Int, NEW i \in Nat, Quot(a, i) = Quot(b, i), NEW j \in Nat, i <= j
  PROVE  Quot(a, j) = Quot(b, j)
<1> DEFINE T == {k \in Nat : i <= k => Quot(a, k) = Quot(b, k)}
<1>1. 0 \in T
  OBVIOUS
<1>2. ASSUME NEW k \in Nat, k \in T, i <= k + 1 PROVE Quot(a, k + 1) = Quot(b, k + 1)
  <2>1. CASE i = k + 1
    BY <2>1
  <2>2. CASE i <= k
    BY <1>2, <2>2, QuotNext
  <2> QED BY <1>2, <2>1, <2>2
<1>3. \A k \in Nat : k \in T => k + 1 \in T
  BY <1>2
<1> HIDE DEF T
<1>4. j \in T
  BY <1>1, <1>3, EveryNatural
<1> QED BY <1>4 DEF T

\* Counting up by one changes a Gray bit where the carry stops.
LEMMA FlipAt ==
  ASSUME NEW b \in Int, NEW k \in PtrBits, k \in b2g(b) <=> k \notin b2g(b + 1)
  PROVE  /\ k \in Nat /\ Quot(b + 1, k) # Quot(b, k)
         /\ Quot(b + 1, k + 1) = Quot(b, k + 1)
<1>1. k \in Nat /\ b + 1 \in Int
  BY FifoSizes DEF PtrBits
<1>2. Mixed(Quot(b, k)) <=> ~ Mixed(Quot(b + 1, k))
  BY <1>1, GrayBit
<1>3. Quot(b + 1, k) # Quot(b, k)
  BY <1>2
<1>4. PICK p \in Nat \ {0} : p = 2^k
  BY <1>1, PowerPositive
<1>5. Quot(b + 1, k) = Quot(b, k) + 1 /\ Quot(b, k) \in Int
  BY <1>1, <1>3, <1>4, DivNext, QuotType DEF Quot
<1>6. Quot(b + 1, k) \div 2 = Quot(b, k) \div 2
  BY <1>2, <1>5, MixedNext
<1> QED BY <1>1, <1>3, <1>6, QuotNext

\* It stops at one place.
LEMMA OneBitUp ==
  ASSUME NEW b \in Int, NEW i \in PtrBits, NEW j \in PtrBits,
         i \in b2g(b) <=> i \notin b2g(b + 1), j \in b2g(b) <=> j \notin b2g(b + 1)
  PROVE  ~ (i < j)
<1> SUFFICES ASSUME i < j PROVE FALSE
  OBVIOUS
<1>1. i \in Nat /\ j \in Nat /\ b + 1 \in Int
  BY FlipAt
<1>2. Quot(b + 1, i + 1) = Quot(b, i + 1) /\ i + 1 \in Nat /\ i + 1 <= j
  BY <1>1, FlipAt
<1>3. Quot(b + 1, j) = Quot(b, j)
  BY <1>1, <1>2, QuotsStayEqual
<1> QED BY <1>3, FlipAt

LEMMA QuotSmall ==
  ASSUME NEW n \in Nat, NEW b \in 0 .. 2^n - 1
  PROVE  Quot(b, n) = 0
<1>1. PICK p \in Nat \ {0} : p = 2^n
  BY PowerPositive
<1>2. b = p * 0 + b /\ b \in 0 .. p - 1 /\ b \in Int
  BY <1>1
<1>3. b \div p = 0
  BY <1>2, DivUnique
<1> QED BY <1>1, <1>3 DEF Quot

LEMMA PowerMultiple ==
  ASSUME NEW n \in Nat
  PROVE  2^(n + 2) = 4 * 2^n
<1>1. PICK m \in Nat : m = n + 1
  OBVIOUS
<1>2. 2^(n + 1) = 2 * 2^n /\ 2^(m + 1) = 2 * 2^m /\ n + 2 = m + 1 /\ 2^n \in Int
  BY <1>1, PowerStep, PowerPositive
<1> QED BY <1>1, <1>2

LEMMA MixedSmall == ~ Mixed(0) /\ Mixed(1) /\ Mixed(2) /\ 2^0 = 1 /\ 2^1 = 2
<1>1. /\ Mixed(4 * 0 + 2 * 0 + 0) <=> 0 # 0
      /\ Mixed(4 * 0 + 2 * 0 + 1) <=> 1 # 0
      /\ Mixed(4 * 0 + 2 * 1 + 0) <=> 0 # 1
  <2>1. 0 \in Int /\ 0 \in 0 .. 1 /\ 1 \in 0 .. 1
    OBVIOUS
  <2> QED BY <2>1, MixedForm
<1>2. /\ 4 * 0 + 2 * 0 + 0 = 0 /\ 4 * 0 + 2 * 0 + 1 = 1 /\ 4 * 0 + 2 * 1 + 0 = 2
  OBVIOUS
<1>3. 2^0 = 1 /\ 2^1 = 2
  OBVIOUS
<1> QED BY <1>1, <1>2, <1>3

LEMMA GrayOfZero == b2g(0) = {}
<1>1. ASSUME NEW i \in PtrBits PROVE i \notin b2g(0)
  <2>1. i \in Nat
    BY FifoSizes DEF PtrBits
  <2>2. 0 \in 0 .. 2^i - 1
    BY <2>1, PowerPositive
  <2>3. Quot(0, i) = 0
    BY <2>1, <2>2, QuotSmall
  <2> QED BY <2>3, GrayBit, MixedSmall
<1> QED BY <1>1 DEF b2g

\* Adding a power of two that is at least the top bit of a place changes its
\* Gray bit only if the quotient moves by one or two.
LEMMA MixedPower ==
  ASSUME NEW q \in Int, NEW n \in Nat
  PROVE  /\ n >= 2 => (Mixed(q + 2^n) <=> Mixed(q))
         /\ n = 1 => (Mixed(q + 2^n) <=> ~ Mixed(q))
<1>1. CASE n >= 2
  <2>1. PICK m \in Nat : n = m + 2
    BY <1>1
  <2>2. PICK k \in Int : k = 2^m
    BY PowerPositive
  <2>3. 2^n = 4 * k
    BY <2>1, <2>2, PowerMultiple
  <2>4. Mixed(q + 4 * k) <=> Mixed(q)
    BY MixedPlus
  <2> QED BY <1>1, <2>3, <2>4
<1>2. CASE n = 1
  <2>1. 2^n = 2
    BY <1>2, MixedSmall
  <2> QED BY <1>2, <2>1, MixedPlus
<1>3. CASE n = 0
  BY <1>3
<1> QED BY <1>1, <1>2, <1>3

\* The last pointer value: only the top bit of its Gray code is set.
LEMMA GrayOfLast == b2g(PtrMod - 1) = {FIFO_AW}
<1> DEFINE n == FIFO_AW + 1
           b == PtrMod - 1
<1>1. n \in Nat /\ PtrMod = 2^n /\ b \in Int /\ b + 1 = PtrMod /\ PtrMod \in Nat \ {0}
  BY FifoSizes
<1>2. Quot(b, n) = 0 /\ Quot(b + 1, n) = 1
  <2>1. b \in 0 .. 2^n - 1 /\ n \in 0 .. n /\ n - n = 0
    BY <1>1
  <2>2. Quot(b, n) = 0
    BY <1>1, <2>1, QuotSmall
  <2>3. Quot(2^n, n) = 2^(n - n)
    BY <1>1, <2>1, QuotPower
  <2> QED BY <1>1, <2>1, <2>2, <2>3, MixedSmall
<1>3. ASSUME NEW i \in PtrBits PROVE i \in b2g(b) <=> i \in b2g(PtrMod)
  <2> SUFFICES ASSUME i \in b2g(b) <=> i \notin b2g(b + 1) PROVE FALSE
    BY <1>1
  <2>1. i \in Nat /\ Quot(b + 1, i + 1) = Quot(b, i + 1) /\ i + 1 \in Nat /\ i + 1 <= n
    BY <1>1, FlipAt, FifoSizes DEF PtrBits
  <2>2. b + 1 \in Int
    BY <1>1
  <2> HIDE DEF b, n
  <2>3. Quot(b + 1, n) = Quot(b, n)
    BY <1>1, <2>1, <2>2, QuotsStayEqual
  <2> QED BY <1>2, <2>3
<1>4. ASSUME NEW i \in PtrBits PROVE i \in b2g(PtrMod) <=> i = FIFO_AW
  <2>1. i \in 0 .. n /\ n - i \in Nat /\ PtrMod \in Int
    BY <1>1, FifoSizes DEF PtrBits
  <2>2. Quot(PtrMod, i) = 2^(n - i)
    BY <1>1, <2>1, QuotPower
  <2>3. CASE i = FIFO_AW
    <3>1. n - i = 1
      BY <2>3, FifoSizes
    <3> QED BY <2>1, <2>2, <2>3, <3>1, GrayBit, MixedSmall
  <2>4. CASE i # FIFO_AW
    <3>1. n - i >= 2
      BY <1>1, <2>4, FifoSizes DEF PtrBits
    <3>2. PICK m \in Nat : m = n - i
      BY <2>1
    <3>3. 0 + 2^m = 2^m
      BY <3>2, PowerPositive
    <3>4. ~ Mixed(2^m)
      BY <3>1, <3>2, <3>3, MixedPower, MixedSmall
    <3> QED BY <2>1, <2>2, <2>4, <3>2, <3>4, GrayBit
  <2> QED BY <2>3, <2>4
<1>5. FIFO_AW \in PtrBits
  BY FifoSizes DEF PtrBits
<1> QED BY <1>3, <1>4, <1>5 DEF b2g

\* From each pointer value to the next at most one bit of the Gray code changes.
LEMMA OneBitChanges ==
  ASSUME NEW b \in 0 .. PtrMod - 1,
         NEW i \in Flipped(b2g(b), b2g(Step(b))), NEW j \in Flipped(b2g(b), b2g(Step(b)))
  PROVE  i = j
<1>1. b \in Int /\ b + 1 \in Int /\ b + 1 \in 0 .. PtrMod /\ PtrMod \in Nat \ {0}
  BY FifoSizes
<1>2. CASE b + 1 = PtrMod
  <2>1. Step(b) = 0
    <3>1. b + 1 = PtrMod * 1 + 0 /\ 0 \in 0 .. PtrMod - 1
      BY <1>1, <1>2
    <3> QED BY <1>1, <3>1, ModUnique DEF Step
  <2>2. b2g(b) = {FIFO_AW} /\ b2g(Step(b)) = {}
    <3>1. b = PtrMod - 1
      BY <1>1, <1>2
    <3> QED BY <2>1, <3>1, GrayOfLast, GrayOfZero
  <2> QED BY <2>2 DEF Flipped
<1>3. CASE b + 1 < PtrMod
  <2>1. Step(b) = b + 1
    <3>1. b + 1 = PtrMod * 0 + (b + 1) /\ b + 1 \in 0 .. PtrMod - 1
      BY <1>1, <1>3
    <3> QED BY <1>1, <3>1, ModUnique DEF Step
  <2>2. /\ i \in PtrBits /\ j \in PtrBits
        /\ i \in b2g(b) <=> i \notin b2g(b + 1)
        /\ j \in b2g(b) <=> j \notin b2g(b + 1)
    BY <2>1 DEF Flipped, b2g
  <2>3. ~ (i < j) /\ ~ (j < i)
    BY <1>1, <2>2, OneBitUp
  <2>4. i \in Int /\ j \in Int
    BY <2>2, FifoSizes DEF PtrBits
  <2> QED BY <2>3, <2>4
<1> QED BY <1>1, <1>2, <1>3

\* So a flop that samples a pointer while it moves takes its old or its new value.
LEMMA SampledStep ==
  ASSUME NEW b \in 0 .. PtrMod - 1, NEW c \in {b, Step(b)}, NEW g \in Sampled(b2g(b), b2g(c))
  PROVE  g \in {b2g(b), b2g(c)}
<1> DEFINE F == Flipped(b2g(b), b2g(c))
<1>1. PICK e \in SUBSET F : g = (b2g(b) \cap b2g(c)) \cup e
  BY DEF Sampled
<1>2. \A i, j \in F : i = j
  <2>1. CASE c = b
    BY <2>1 DEF Flipped
  <2>2. CASE c = Step(b)
    BY <2>2, OneBitChanges
  <2> QED BY <2>1, <2>2
<1>3. e = {} \/ e = F
  BY <1>2
<1>4. \A x, y : (\A i, j \in Flipped(x, y) : i = j) =>
        /\ (x \cap y) \cup {} \in {x, y} /\ (x \cap y) \cup Flipped(x, y) \in {x, y}
  <2> SUFFICES ASSUME NEW x, NEW y, \A i, j \in Flipped(x, y) : i = j
               PROVE  /\ (x \cap y) \cup {} \in {x, y}
                      /\ (x \cap y) \cup Flipped(x, y) \in {x, y}
    OBVIOUS
  <2>1. CASE x \ y = {}
    BY <2>1 DEF Flipped
  <2>2. CASE x \ y # {}
    <3>1. y \ x = {}
      BY <2>2 DEF Flipped
    <3> QED BY <3>1 DEF Flipped
  <2> QED BY <2>1, <2>2
<1> QED BY <1>1, <1>2, <1>3, <1>4

\* Different pointer values have different Gray codes.
LEMMA GrayInjective ==
  ASSUME NEW a \in 0 .. PtrMod - 1, NEW b \in 0 .. PtrMod - 1, b2g(a) = b2g(b)
  PROVE  a = b
<1> DEFINE T == {i \in 0 .. FIFO_AW + 1 : Quot(a, i) = Quot(b, i)}
<1>1. FIFO_AW + 1 \in T
  BY QuotSmall, FifoSizes
<1>2. a \in Int /\ b \in Int /\ T \subseteq Nat
  BY FifoSizes
<1>3. PICK i \in T : \A j \in T : i <= j
  <2> HIDE DEF T
  <2> QED BY <1>1, <1>2, LowestExists
<1>4. i = 0
  <2> SUFFICES ASSUME i # 0 PROVE FALSE
    OBVIOUS
  <2>1. PICK k \in Nat : i = k + 1
    BY <1>2
  <2>2. k \in PtrBits
    BY <2>1, FifoSizes DEF PtrBits
  <2>3. /\ Quot(a, k) \in Int /\ Quot(a, i) = Quot(a, k) \div 2
        /\ Quot(b, k) \in Int /\ Quot(b, i) = Quot(b, k) \div 2
    BY <1>2, <2>1, QuotNext, QuotType
  <2>4. Mixed(Quot(a, k)) <=> Mixed(Quot(b, k))
    BY <1>2, <2>2, GrayBit
  <2>5. Quot(a, k) = Quot(b, k)
    <3>1. PICK x \in Int, y \in Int :
            /\ x = Quot(a, k) /\ y = Quot(b, k) /\ x \div 2 = y \div 2 /\ (Mixed(x) <=> Mixed(y))
      BY <1>3, <2>3, <2>4
    <3>2. PICK g \in Int, f \in 0 .. 1, e \in 0 .. 1 :
            x = 4 * g + 2 * f + e /\ x \div 2 = 2 * g + f /\ (Mixed(x) <=> e # f)
      BY LowBits
    <3>3. PICK u \in Int, v \in 0 .. 1, w \in 0 .. 1 :
            y = 4 * u + 2 * v + w /\ y \div 2 = 2 * u + v /\ (Mixed(y) <=> w # v)
      BY LowBits
    <3> QED BY <3>1, <3>2, <3>3
  <2>6. k \in T
    BY <2>1, <2>5, FifoSizes
  <2> QED BY <1>3, <2>1, <2>6
<1>5. Quot(a, 0) = a /\ Quot(b, 0) = b
  BY <1>2, QuotZero
<1> QED BY <1>4, <1>5

\* The Gray code of the pointer half a turn on differs in the two top bits.
LEMMA GrayLapUp ==
  ASSUME NEW b \in 0 .. FifoDepth - 1
  PROVE  b2g(b + FifoDepth) = Flipped(b2g(b), {FIFO_AW, FIFO_AW - 1})
<1> DEFINE c == b + FifoDepth
<1>1. b \in Int /\ c \in Int /\ FIFO_AW \in Nat /\ FIFO_AW - 1 \in PtrBits /\ FIFO_AW \in PtrBits
  BY FifoSizes DEF PtrBits
<1>2. ASSUME NEW i \in PtrBits
      PROVE  IF i \in {FIFO_AW, FIFO_AW - 1} THEN i \in b2g(c) <=> i \notin b2g(b)
                                             ELSE i \in b2g(c) <=> i \in b2g(b)
  <2>1. i \in 0 .. FIFO_AW /\ i \in Nat /\ Quot(b, i) \in Int
    BY <1>1, QuotType DEF PtrBits
  <2>2. PICK n \in Nat : n = FIFO_AW - i
    BY <1>1, <2>1
  <2>3. Quot(c, i) = Quot(b, i) + 2^n
    BY <1>1, <2>1, <2>2, QuotPower, FifoSizes
  <2>4. /\ i \in b2g(c) <=> Mixed(Quot(b, i) + 2^n)
        /\ i \in b2g(b) <=> Mixed(Quot(b, i))
    <3> HIDE DEF c
    <3> QED BY <1>1, <2>3, GrayBit
  <2>5. CASE i = FIFO_AW
    <3>1. Quot(b, i) = 0 /\ n = 0
      BY <2>2, <2>5, QuotSmall, FifoSizes
    <3>2. 0 + 2^0 = 1
      OBVIOUS
    <3> QED BY <2>4, <2>5, <3>1, <3>2, MixedSmall
  <2>6. CASE i = FIFO_AW - 1
    <3>1. n = 1
      BY <1>1, <2>2, <2>6
    <3> QED BY <2>1, <2>4, <2>6, <3>1, MixedPower
  <2>7. CASE i \notin {FIFO_AW, FIFO_AW - 1}
    <3>1. n >= 2
      BY <1>1, <2>1, <2>2, <2>7
    <3> QED BY <2>1, <2>4, <2>7, <3>1, MixedPower
  <2> QED BY <2>5, <2>6, <2>7
<1> HIDE DEF c
<1>3. \A i : i \in b2g(c) => i \in PtrBits
  BY DEF b2g
<1>4. \A i : i \in b2g(b) => i \in PtrBits
  BY DEF b2g
<1>5. b2g(c) = Flipped(b2g(b), {FIFO_AW, FIFO_AW - 1})
  BY <1>1, <1>2, <1>3, <1>4 DEF Flipped
<1> QED BY <1>5 DEF c

LEMMA GrayLap ==
  ASSUME NEW b \in 0 .. PtrMod - 1
  PROVE  b2g((b + FifoDepth) % PtrMod) = Flipped(b2g(b), {FIFO_AW, FIFO_AW - 1})
<1>1. PtrMod = 2 * FifoDepth /\ FifoDepth \in Nat \ {0} /\ PtrMod \in Nat \ {0}
  BY FifoSizes
<1> DEFINE c == b + FifoDepth
<1>2. CASE b < FifoDepth
  <2>1. c = PtrMod * 0 + c /\ c \in 0 .. PtrMod - 1 /\ c \in Int /\ b \in 0 .. FifoDepth - 1
    BY <1>1, <1>2
  <2>2. c % PtrMod = c
    BY <1>1, <2>1, ModUnique
  <2> QED BY <2>1, <2>2, GrayLapUp
<1>3. CASE b >= FifoDepth
  <2> DEFINE d == b - FifoDepth
  <2>1. c = PtrMod * 1 + d /\ d \in 0 .. PtrMod - 1 /\ c \in Int /\ d \in 0 .. FifoDepth - 1
        /\ d + FifoDepth = b
    BY <1>1, <1>3
  <2>2. c % PtrMod = d
    <3> HIDE DEF c, d
    <3> QED BY <1>1, <2>1, ModUnique
  <2>3. b2g(b) = Flipped(b2g(d), {FIFO_AW, FIFO_AW - 1})
    BY <2>1, GrayLapUp
  <2> QED BY <2>2, <2>3 DEF Flipped
<1> QED BY <1>1, <1>2, <1>3

\* The binary value can be read back from the Gray code.
LEMMA GrayDecodes ==
  ASSUME NEW b \in 0 .. PtrMod - 1
  PROVE  g2b(b2g(b)) = b
<1> DEFINE c == CHOOSE c \in 0 .. PtrMod - 1 : b2g(c) = b2g(b)
<1>1. c \in 0 .. PtrMod - 1 /\ b2g(c) = b2g(b)
  OBVIOUS
<1>2. g2b(b2g(b)) = c
  BY DEF g2b
<1> HIDE DEF c
<1> QED BY <1>1, <1>2, GrayInjective

-----------------------------------------------------------------------------
(***************************************************************************)
(* The invariant. W and R count what was ever written and read since the   *)
(* last reset; X and Y are the counts that the flops of the synchronisers  *)
(* show. No flop shows news from the future, a later flop no newer news    *)
(* than an earlier one, what the reader sees was written and what the      *)
(* writer sees leaves it no more room than there is.                       *)
(***************************************************************************)
Chain == [1 .. STAGES -> Nat]

Trail(W, R, X, Y) ==
  /\ W \in Nat /\ R \in Nat /\ X \in Chain /\ Y \in Chain
  /\ \A s \in 1 .. STAGES : X[s] <= R /\ W - X[s] <= FifoDepth /\ R <= Y[s] /\ Y[s] <= W
  /\ \A s, t \in 1 .. STAGES : s < t => X[t] <= X[s] /\ Y[t] <= Y[s]

Shows(W, R, X, Y) ==
  /\ wbin = W % PtrMod /\ wgray = b2g(wbin)
  /\ rbin = R % PtrMod /\ rgray = b2g(rbin)
  /\ \A s \in 1 .. STAGES : r2w[s] = b2g(X[s] % PtrMod) /\ w2r[s] = b2g(Y[s] % PtrMod)

FifoTypeOK ==
  /\ fmem \in [0 .. FifoDepth - 1 -> Payloads]
  /\ r2w \in [1 .. STAGES -> SUBSET PtrBits] /\ w2r \in [1 .. STAGES -> SUBSET PtrBits]
  /\ wr_sr \in 0 .. STAGES /\ rd_sr \in 0 .. STAGES /\ arst \in BOOLEAN

FifoInv ==
  /\ FifoTypeOK
  /\ \E W \in Nat, R \in Nat, X \in Chain, Y \in Chain : Trail(W, R, X, Y) /\ Shows(W, R, X, Y)

LEMMA StagesFacts == 1 \in 1 .. STAGES /\ 2 \in 1 .. STAGES /\ STAGES \in 1 .. STAGES
  BY FifoSizes

LEMMA PointerRange ==
  ASSUME NEW x \in Int
  PROVE  x % PtrMod \in 0 .. PtrMod - 1
  BY FifoSizes, Division

\* Distances between pointers are distances between positions.
LEMMA LagOfPosition ==
  ASSUME NEW W \in Nat, NEW P \in Nat, P <= W, W - P < PtrMod, wbin = W % PtrMod
  PROVE  Lag(P % PtrMod) = W - P
<1>1. W - P \in 0 .. PtrMod - 1 /\ PtrMod \in Nat \ {0}
  BY FifoSizes
<1>2. ((W % PtrMod) - (P % PtrMod)) % PtrMod = W - P
  <2>1. PICK m \in Nat \ {0}, x \in Int, y \in Int : m = PtrMod /\ x = W /\ y = P
    BY <1>1
  <2>2. x - y \in 0 .. m - 1
    BY <1>1, <2>1
  <2>3. ((x % m) - (y % m)) % m = x - y
    BY <2>2, ResidueDifference
  <2> QED BY <2>1, <2>3
<1> QED BY <1>2 DEF Lag

LEMMA FifoInvTrails == FifoInv => SyncedPointersTrail
<1> SUFFICES ASSUME FifoInv PROVE SyncedPointersTrail
  OBVIOUS
<1>1. PICK W \in Nat, R \in Nat, X \in Chain, Y \in Chain :
        Trail(W, R, X, Y) /\ Shows(W, R, X, Y)
  BY DEF FifoInv
<1>2. /\ X[2] \in Nat /\ X[1] \in Nat /\ Y[2] \in Nat /\ Y[1] \in Nat
      /\ X[2] <= X[1] /\ X[1] <= R /\ R <= Y[2] /\ Y[2] <= Y[1] /\ Y[1] <= W
      /\ W - X[2] <= FifoDepth
  BY <1>1, StagesFacts, FifoSizes DEF Trail, Chain
<1>3. ASSUME NEW P \in Nat, X[2] <= P, P <= W
      PROVE  Lag(P % PtrMod) = W - P
  <2>1. W - P < PtrMod
    BY <1>2, <1>3, FifoSizes
  <2> QED BY <1>1, <1>3, <2>1, LagOfPosition DEF Shows
<1>4. ASSUME NEW P \in Nat
      PROVE  g2b(b2g(P % PtrMod)) = P % PtrMod
  BY PointerRange, GrayDecodes
<1>5. /\ Lag(g2b(r2w[2])) = W - X[2] /\ Lag(g2b(r2w[1])) = W - X[1] /\ Lag(rbin) = W - R
      /\ Lag(g2b(w2r[2])) = W - Y[2] /\ Lag(g2b(w2r[1])) = W - Y[1]
  <2>1. /\ r2w[2] = b2g(X[2] % PtrMod) /\ r2w[1] = b2g(X[1] % PtrMod) /\ rbin = R % PtrMod
        /\ w2r[2] = b2g(Y[2] % PtrMod) /\ w2r[1] = b2g(Y[1] % PtrMod)
    BY <1>1, StagesFacts DEF Shows
  <2>2. X[2] <= X[1] /\ X[2] <= R /\ X[2] <= Y[2] /\ X[2] <= Y[1] /\ X[2] <= X[2]
        /\ X[1] <= W /\ R <= W /\ Y[2] <= W /\ Y[1] <= W /\ X[2] <= W
    BY <1>2
  <2> QED BY <1>2, <1>3, <1>4, <2>1, <2>2
<1>6. \A a, b, c, d, e \in Int :
        a <= FifoDepth /\ a >= b /\ b >= c /\ c >= d /\ d >= e =>
          LET chain == <<a, b, c, d, e>>
          IN  chain[1] <= FifoDepth /\ \A k \in 1 .. 4 : chain[k] >= chain[k + 1]
  <2> SUFFICES ASSUME NEW a \in Int, NEW b \in Int, NEW c \in Int, NEW d \in Int, NEW e \in Int,
                      a <= FifoDepth, a >= b, b >= c, c >= d, d >= e, NEW k \in 1 .. 4
               PROVE  <<a, b, c, d, e>>[1] <= FifoDepth
                      /\ <<a, b, c, d, e>>[k] >= <<a, b, c, d, e>>[k + 1]
    OBVIOUS
  <2>1. k = 1 \/ k = 2 \/ k = 3 \/ k = 4
    OBVIOUS
  <2> QED BY <2>1
<1> QED BY <1>2, <1>5, <1>6 DEF SyncedPointersTrail

-----------------------------------------------------------------------------
(* An edge of either clock or of both. *)

Shifting(X, N) == [s \in 1 .. STAGES |-> IF s = 1 THEN N ELSE X[s - 1]]

\* Positions move by what is written and read, and the chains take news that is
\* one edge old at most.
LEMMA TrailMoves ==
  ASSUME NEW W \in Nat, NEW R \in Nat, NEW X \in Chain, NEW Y \in Chain, Trail(W, R, X, Y),
         NEW a \in 0 .. 1, a = 1 => W - X[STAGES] < FifoDepth,
         NEW t \in 0 .. 1, t = 1 => R < Y[STAGES],
         NEW N \in {R, R + t}, NEW X2 \in {X, Shifting(X, N)},
         NEW K \in {W, W + a}, NEW Y2 \in {Y, Shifting(Y, K)}
  PROVE  Trail(W + a, R + t, X2, Y2)
<1>1. \A s \in 1 .. STAGES : X[STAGES] <= X[s] /\ Y[STAGES] <= Y[s] /\ X[s] \in Nat /\ Y[s] \in Nat
  <2> SUFFICES ASSUME NEW s \in 1 .. STAGES
               PROVE  X[STAGES] <= X[s] /\ Y[STAGES] <= Y[s] /\ X[s] \in Nat /\ Y[s] \in Nat
    OBVIOUS
  <2>1. X[s] \in Nat /\ Y[s] \in Nat
    BY DEF Chain
  <2>2. s = STAGES \/ s < STAGES
    BY FifoSizes
  <2> QED BY <2>1, <2>2, StagesFacts DEF Trail
<1>2. R <= W /\ N \in Nat /\ K \in Nat
  BY <1>1, StagesFacts DEF Trail
<1>3. X2 \in Chain /\ Y2 \in Chain
  <2>1. \A s \in 1 .. STAGES : s # 1 => s - 1 \in 1 .. STAGES
    BY FifoSizes
  <2> QED BY <1>1, <1>2, <2>1 DEF Shifting, Chain
<1>4. ASSUME NEW s \in 1 .. STAGES
      PROVE  /\ X2[s] <= R + t /\ (W + a) - X2[s] <= FifoDepth
             /\ R + t <= Y2[s] /\ Y2[s] <= W + a
  <2>1. s # 1 => s - 1 \in 1 .. STAGES
    BY FifoSizes
  <2>2. FifoDepth \in Nat /\ R + t <= W /\ (W + a) - R <= FifoDepth
    BY <1>1, <1>2, StagesFacts, FifoSizes DEF Trail
  <2>3. X2[s] \in {X[s], N} \/ (s # 1 /\ X2[s] = X[s - 1])
    BY DEF Shifting
  <2>4. Y2[s] \in {Y[s], K} \/ (s # 1 /\ Y2[s] = Y[s - 1])
    BY DEF Shifting
  <2>5. \A r \in 1 .. STAGES : /\ X[r] <= R + t /\ (W + a) - X[r] <= FifoDepth
                               /\ R + t <= Y[r] /\ Y[r] <= W + a
    BY <1>1, StagesFacts, FifoSizes DEF Trail
  <2> QED BY <1>2, <2>1, <2>2, <2>3, <2>4, <2>5
<1>5. ASSUME NEW r \in 1 .. STAGES, NEW s \in 1 .. STAGES, r < s
      PROVE  X2[s] <= X2[r] /\ Y2[s] <= Y2[r]
  <2>1. s # 1 /\ s - 1 \in 1 .. STAGES /\ (r # 1 => r - 1 \in 1 .. STAGES /\ r - 1 < s - 1)
    BY <1>5, FifoSizes
  <2>2. /\ X[s] <= X[r] /\ Y[s] <= Y[r]
        /\ X[s - 1] <= N /\ Y[s - 1] <= K
        /\ r # 1 => X[s - 1] <= X[r - 1] /\ Y[s - 1] <= Y[r - 1]
    BY <1>1, <1>2, <1>5, <2>1 DEF Trail
  <2> QED BY <2>1, <2>2 DEF Shifting
<1> QED BY <1>2, <1>3, <1>4, <1>5 DEF Trail

\* The pointer after it has moved by n places or stood still.
LEMMA PositionStep ==
  ASSUME NEW P \in Nat
  PROVE  Step(P % PtrMod) = (P + 1) % PtrMod
<1>1. PICK m \in Nat \ {0}, x \in Int : m = PtrMod /\ x = P
  BY FifoSizes
<1>2. (x + 1) % m = ((x % m) + 1) % m
  BY NextResidue
<1> QED BY <1>1, <1>2 DEF Step

\* When the writer's view leaves it no room it sees the FIFO full.
LEMMA NoRoomIsFull ==
  ASSUME NEW W \in Nat, NEW R \in Nat, NEW X \in Chain, NEW Y \in Chain,
         Trail(W, R, X, Y), Shows(W, R, X, Y), W - X[STAGES] >= FifoDepth
  PROVE  full
<1>1. PICK P \in Nat : P = X[STAGES] /\ W = P + FifoDepth
  BY StagesFacts, FifoSizes DEF Trail, Chain
<1>2. (P + FifoDepth) % PtrMod = ((P % PtrMod) + FifoDepth) % PtrMod
  <2>1. PICK m \in Nat \ {0}, x \in Int, d \in Int : m = PtrMod /\ x = P /\ d = FifoDepth
    BY FifoSizes
  <2>2. (x + d) % m = ((x % m) + d) % m
    BY ResiduePlus
  <2> QED BY <2>1, <2>2
<1>3. P % PtrMod \in 0 .. PtrMod - 1
  BY PointerRange
<1>4. PICK b \in 0 .. PtrMod - 1 : b = P % PtrMod
  BY <1>3
<1>5. b2g((b + FifoDepth) % PtrMod) = Flipped(b2g(b), {FIFO_AW, FIFO_AW - 1})
  BY GrayLap
<1>6. rgray_s = b2g(b)
  BY <1>1, <1>4, StagesFacts DEF Shows, rgray_s
<1>7. wgray = b2g((b + FifoDepth) % PtrMod)
  BY <1>1, <1>2, <1>4 DEF Shows
<1> QED BY <1>5, <1>6, <1>7 DEF full

\* When the reader has caught up with its view it sees the FIFO empty.
LEMMA CaughtUpIsEmpty ==
  ASSUME NEW W \in Nat, NEW R \in Nat, NEW X \in Chain, NEW Y \in Chain,
         Trail(W, R, X, Y), Shows(W, R, X, Y), R >= Y[STAGES]
  PROVE  empty
<1>1. R = Y[STAGES]
  BY StagesFacts DEF Trail, Chain
<1> QED BY <1>1, StagesFacts DEF Shows, empty, wgray_s

Moved(b) == IF b THEN 1 ELSE 0

\* The write domain at one of its edges.
LEMMA WriteMoves ==
  ASSUME NEW W \in Nat, NEW R \in Nat, NEW X \in Chain, NEW Y \in Chain,
         FifoTypeOK, Trail(W, R, X, Y), Shows(W, R, X, Y),
         NEW item \in Payloads \cup {None}, NEW N \in Nat, NEW seen, seen = b2g(N % PtrMod),
         WriteDomain(item, seen)
  PROVE  /\ accepted(item) => W - X[STAGES] < FifoDepth
         /\ wbin' = (W + Moved(accepted(item))) % PtrMod /\ wgray' = b2g(wbin')
         /\ r2w' \in [1 .. STAGES -> SUBSET PtrBits] /\ wr_sr' \in 0 .. STAGES
         /\ fmem' \in [0 .. FifoDepth - 1 -> Payloads]
         /\ \E X2 \in {X, Shifting(X, N)} : \A s \in 1 .. STAGES : r2w'[s] = b2g(X2[s] % PtrMod)
<1>1. accepted(item) => W - X[STAGES] < FifoDepth
  <2>1. X[STAGES] \in Nat
    BY StagesFacts DEF Chain
  <2> QED BY <2>1, NoRoomIsFull, FifoSizes DEF accepted
<1>2. wbin' = (W + Moved(accepted(item))) % PtrMod /\ wgray' = b2g(wbin')
  <2>1. Step(W % PtrMod) = (W + 1) % PtrMod /\ W + 0 = W
    BY PositionStep
  <2> QED BY <2>1 DEF Shows, WriteDomain, wbin_n, wgray_n, Moved
<1>3. /\ r2w' \in [1 .. STAGES -> SUBSET PtrBits]
      /\ \E X2 \in {X, Shifting(X, N)} : \A s \in 1 .. STAGES : r2w'[s] = b2g(X2[s] % PtrMod)
  <2>1. CASE Released(wr_sr)
    <3>1. r2w' = Shifted(r2w, seen)
      BY <2>1 DEF WriteDomain
    <3>2. seen \in SUBSET PtrBits
      BY DEF b2g
    <3>3. \A s \in 1 .. STAGES : s # 1 => s - 1 \in 1 .. STAGES
      BY FifoSizes
    <3>4. r2w' \in [1 .. STAGES -> SUBSET PtrBits]
      BY <3>1, <3>2, <3>3 DEF Shifted, FifoTypeOK
    <3>5. \A s \in 1 .. STAGES : r2w'[s] = b2g(Shifting(X, N)[s] % PtrMod)
      BY <3>1, <3>3 DEF Shifted, Shifting, Shows
    <3> QED BY <3>4, <3>5
  <2>2. CASE ~ Released(wr_sr)
    BY <2>2 DEF WriteDomain, FifoTypeOK, Shows
  <2> QED BY <2>1, <2>2
<1>4. wr_sr' \in 0 .. STAGES
  BY FifoSizes DEF WriteDomain, ShiftIn, FifoTypeOK
<1>5. fmem' \in [0 .. FifoDepth - 1 -> Payloads]
  BY DEF WriteDomain, accepted, FifoTypeOK
<1> QED BY <1>1, <1>2, <1>3, <1>4, <1>5

\* The read domain at one of its edges.
LEMMA ReadMoves ==
  ASSUME NEW W \in Nat, NEW R \in Nat, NEW X \in Chain, NEW Y \in Chain,
         FifoTypeOK, Trail(W, R, X, Y), Shows(W, R, X, Y),
         NEW rd_en \in BOOLEAN, NEW K \in Nat, NEW seen, seen = b2g(K % PtrMod),
         ReadDomain(rd_en, seen)
  PROVE  /\ taken(rd_en) => R < Y[STAGES]
         /\ rbin' = (R + Moved(taken(rd_en))) % PtrMod /\ rgray' = b2g(rbin')
         /\ w2r' \in [1 .. STAGES -> SUBSET PtrBits] /\ rd_sr' \in 0 .. STAGES
         /\ \E Y2 \in {Y, Shifting(Y, K)} : \A s \in 1 .. STAGES : w2r'[s] = b2g(Y2[s] % PtrMod)
<1>1. taken(rd_en) => R < Y[STAGES]
  <2>1. Y[STAGES] \in Nat
    BY StagesFacts DEF Chain
  <2> QED BY <2>1, CaughtUpIsEmpty DEF taken
<1>2. rbin' = (R + Moved(taken(rd_en))) % PtrMod /\ rgray' = b2g(rbin')
  <2>1. Step(R % PtrMod) = (R + 1) % PtrMod /\ R + 0 = R
    BY PositionStep
  <2> QED BY <2>1 DEF Shows, ReadDomain, rbin_n, rgray_n, Moved
<1>3. /\ w2r' \in [1 .. STAGES -> SUBSET PtrBits]
      /\ \E Y2 \in {Y, Shifting(Y, K)} : \A s \in 1 .. STAGES : w2r'[s] = b2g(Y2[s] % PtrMod)
  <2>1. CASE Released(rd_sr)
    <3>1. w2r' = Shifted(w2r, seen)
      BY <2>1 DEF ReadDomain
    <3>2. seen \in SUBSET PtrBits
      BY DEF b2g
    <3>3. \A s \in 1 .. STAGES : s # 1 => s - 1 \in 1 .. STAGES
      BY FifoSizes
    <3>4. w2r' \in [1 .. STAGES -> SUBSET PtrBits]
      BY <3>1, <3>2, <3>3 DEF Shifted, FifoTypeOK
    <3>5. \A s \in 1 .. STAGES : w2r'[s] = b2g(Shifting(Y, K)[s] % PtrMod)
      BY <3>1, <3>3 DEF Shifted, Shifting, Shows
    <3> QED BY <3>4, <3>5
  <2>2. CASE ~ Released(rd_sr)
    BY <2>2 DEF ReadDomain, FifoTypeOK, Shows
  <2> QED BY <2>1, <2>2
<1>4. rd_sr' \in 0 .. STAGES
  BY FifoSizes DEF ReadDomain, ShiftIn, FifoTypeOK
<1> QED BY <1>1, <1>2, <1>3, <1>4

\* A flop that samples a pointer at one of the pointer's own edges.
LEMMA TornSample ==
  ASSUME NEW P \in Nat, NEW n \in 0 .. 1, NEW g \in Sampled(b2g(P % PtrMod), b2g((P + n) % PtrMod))
  PROVE  \E N \in {P, P + n} : N \in Nat /\ g = b2g(N % PtrMod)
<1>1. PICK b \in 0 .. PtrMod - 1 : b = P % PtrMod
  BY PointerRange
<1>2. PICK c \in {b, Step(b)} : c = (P + n) % PtrMod
  <2>1. P + 0 = P /\ Step(b) = (P + 1) % PtrMod
    BY <1>1, PositionStep
  <2> QED BY <1>1, <2>1
<1>3. g \in {b2g(b), b2g(c)}
  BY <1>1, <1>2, SampledStep
<1> QED BY <1>1, <1>2, <1>3

\* An edge that writes a items and takes t.
LEMMA EdgeMoves ==
  ASSUME NEW W \in Nat, NEW R \in Nat, NEW X \in Chain, NEW Y \in Chain,
         FifoTypeOK, Trail(W, R, X, Y), Shows(W, R, X, Y),
         NEW item \in Payloads \cup {None}, NEW rd_en \in BOOLEAN,
         NEW a \in 0 .. 1, NEW t \in 0 .. 1,
         \/ WrEdge(item) /\ a = Moved(accepted(item)) /\ t = 0
         \/ RdEdge(rd_en) /\ a = 0 /\ t = Moved(taken(rd_en))
         \/ BothEdges(item, rd_en) /\ a = Moved(accepted(item)) /\ t = Moved(taken(rd_en))
  PROVE  /\ FifoTypeOK'
         /\ \E X2 \in Chain, Y2 \in Chain :
              Trail(W + a, R + t, X2, Y2) /\ Shows(W + a, R + t, X2, Y2)'
<1>1. /\ rgray = b2g(R % PtrMod) /\ wgray = b2g(W % PtrMod)
      /\ W + 0 = W /\ R + 0 = R
  BY DEF Shows
<1>2. CASE WrEdge(item) /\ a = Moved(accepted(item)) /\ t = 0
  <2>1. WriteDomain(item, rgray) /\ UNCHANGED <<rdVars, arst>>
    BY <1>2 DEF WrEdge
  <2>2. /\ accepted(item) => W - X[STAGES] < FifoDepth
        /\ wbin' = (W + a) % PtrMod /\ wgray' = b2g(wbin')
        /\ r2w' \in [1 .. STAGES -> SUBSET PtrBits] /\ wr_sr' \in 0 .. STAGES
        /\ fmem' \in [0 .. FifoDepth - 1 -> Payloads]
        /\ \E X2 \in {X, Shifting(X, R)} : \A s \in 1 .. STAGES : r2w'[s] = b2g(X2[s] % PtrMod)
    BY <1>1, <1>2, <2>1, WriteMoves
  <2>3. PICK X2 \in {X, Shifting(X, R)} : \A s \in 1 .. STAGES : r2w'[s] = b2g(X2[s] % PtrMod)
    BY <2>2
  <2>4. Trail(W + a, R + t, X2, Y)
    <3>1. a = 1 => W - X[STAGES] < FifoDepth
      BY <1>2, <2>2 DEF Moved
    <3> QED BY <1>2, <2>3, <3>1, TrailMoves
  <2>5. Shows(W + a, R + t, X2, Y)'
    BY <1>1, <1>2, <2>1, <2>2, <2>3 DEF Shows, rdVars
  <2>6. X2 \in Chain
    BY <2>4 DEF Trail
  <2>7. FifoTypeOK'
    BY <2>1, <2>2 DEF FifoTypeOK, rdVars
  <2> QED BY <2>4, <2>5, <2>6, <2>7
<1>3. CASE RdEdge(rd_en) /\ a = 0 /\ t = Moved(taken(rd_en))
  <2>1. ReadDomain(rd_en, wgray) /\ UNCHANGED <<fmem, wrVars, arst>>
    BY <1>3 DEF RdEdge
  <2>2. /\ taken(rd_en) => R < Y[STAGES]
        /\ rbin' = (R + t) % PtrMod /\ rgray' = b2g(rbin')
        /\ w2r' \in [1 .. STAGES -> SUBSET PtrBits] /\ rd_sr' \in 0 .. STAGES
        /\ \E Y2 \in {Y, Shifting(Y, W)} : \A s \in 1 .. STAGES : w2r'[s] = b2g(Y2[s] % PtrMod)
    BY <1>1, <1>3, <2>1, ReadMoves
  <2>3. PICK Y2 \in {Y, Shifting(Y, W)} : \A s \in 1 .. STAGES : w2r'[s] = b2g(Y2[s] % PtrMod)
    BY <2>2
  <2>4. Trail(W + a, R + t, X, Y2)
    <3>1. t = 1 => R < Y[STAGES]
      BY <1>3, <2>2 DEF Moved
    <3> QED BY <1>3, <2>3, <3>1, TrailMoves
  <2>5. Shows(W + a, R + t, X, Y2)'
    BY <1>1, <1>3, <2>1, <2>2, <2>3 DEF Shows, wrVars
  <2>6. Y2 \in Chain
    BY <2>4 DEF Trail
  <2>7. FifoTypeOK'
    BY <2>1, <2>2 DEF FifoTypeOK, wrVars
  <2> QED BY <2>4, <2>5, <2>6, <2>7
<1>4. CASE BothEdges(item, rd_en) /\ a = Moved(accepted(item)) /\ t = Moved(taken(rd_en))
  <2>1. PICK seen_r \in Sampled(rgray, rgray_n(rd_en)), seen_w \in Sampled(wgray, wgray_n(item)) :
          WriteDomain(item, seen_r) /\ ReadDomain(rd_en, seen_w) /\ UNCHANGED arst
    BY <1>4 DEF BothEdges
  <2>2. /\ rgray_n(rd_en) = b2g((R + t) % PtrMod)
        /\ wgray_n(item) = b2g((W + a) % PtrMod)
    <3>1. Step(R % PtrMod) = (R + 1) % PtrMod /\ Step(W % PtrMod) = (W + 1) % PtrMod
      BY PositionStep
    <3> QED BY <1>1, <1>4, <3>1 DEF Shows, rgray_n, rbin_n, wgray_n, wbin_n, Moved
  <2>3. PICK N \in {R, R + t} : N \in Nat /\ seen_r = b2g(N % PtrMod)
    BY <1>1, <2>1, <2>2, TornSample
  <2>4. PICK K \in {W, W + a} : K \in Nat /\ seen_w = b2g(K % PtrMod)
    BY <1>1, <2>1, <2>2, TornSample
  <2>5. /\ accepted(item) => W - X[STAGES] < FifoDepth
        /\ wbin' = (W + a) % PtrMod /\ wgray' = b2g(wbin')
        /\ r2w' \in [1 .. STAGES -> SUBSET PtrBits] /\ wr_sr' \in 0 .. STAGES
        /\ fmem' \in [0 .. FifoDepth - 1 -> Payloads]
        /\ \E X2 \in {X, Shifting(X, N)} : \A s \in 1 .. STAGES : r2w'[s] = b2g(X2[s] % PtrMod)
    BY <1>4, <2>1, <2>3, WriteMoves
  <2>6. /\ taken(rd_en) => R < Y[STAGES]
        /\ rbin' = (R + t) % PtrMod /\ rgray' = b2g(rbin')
        /\ w2r' \in [1 .. STAGES -> SUBSET PtrBits] /\ rd_sr' \in 0 .. STAGES
        /\ \E Y2 \in {Y, Shifting(Y, K)} : \A s \in 1 .. STAGES : w2r'[s] = b2g(Y2[s] % PtrMod)
    BY <1>4, <2>1, <2>4, ReadMoves
  <2>7. PICK X2 \in {X, Shifting(X, N)} : \A s \in 1 .. STAGES : r2w'[s] = b2g(X2[s] % PtrMod)
    BY <2>5
  <2>8. PICK Y2 \in {Y, Shifting(Y, K)} : \A s \in 1 .. STAGES : w2r'[s] = b2g(Y2[s] % PtrMod)
    BY <2>6
  <2>9. Trail(W + a, R + t, X2, Y2)
    <3>1. (a = 1 => W - X[STAGES] < FifoDepth) /\ (t = 1 => R < Y[STAGES])
      BY <1>4, <2>5, <2>6 DEF Moved
    <3> QED BY <2>3, <2>4, <2>7, <2>8, <3>1, TrailMoves
  <2>10. Shows(W + a, R + t, X2, Y2)'
    BY <2>5, <2>6, <2>7, <2>8 DEF Shows
  <2>11. X2 \in Chain /\ Y2 \in Chain
    BY <2>9 DEF Trail
  <2>12. FifoTypeOK'
    BY <2>1, <2>5, <2>6 DEF FifoTypeOK
  <2> QED BY <2>9, <2>10, <2>11, <2>12
<1> QED BY <1>2, <1>3, <1>4

\* Cleared or initial registers show the position zero everywhere.
AllClear == /\ wbin = 0 /\ wgray = {} /\ r2w = Cleared
            /\ rbin = 0 /\ rgray = {} /\ w2r = Cleared

LEMMA ZeroShows ==
  AllClear => \E X \in Chain, Y \in Chain : Trail(0, 0, X, Y) /\ Shows(0, 0, X, Y)
<1> SUFFICES ASSUME AllClear
             PROVE  \E X \in Chain, Y \in Chain : Trail(0, 0, X, Y) /\ Shows(0, 0, X, Y)
  OBVIOUS
<1> DEFINE Z == [s \in 1 .. STAGES |-> 0]
<1>1. 0 % PtrMod = 0
  <2>1. PICK m \in Nat \ {0} : m = PtrMod
    BY FifoSizes
  <2>2. 0 % m = 0
    BY ResidueOfZero
  <2> QED BY <2>1, <2>2
<1>2. Z \in Chain /\ \A s \in 1 .. STAGES : Z[s] = 0
  BY DEF Chain
<1> HIDE DEF Z
<1>3. Trail(0, 0, Z, Z)
  BY <1>2, FifoSizes DEF Trail
<1>4. Shows(0, 0, Z, Z)
  BY <1>1, <1>2, GrayOfZero DEF Shows, Cleared, AllClear
<1> QED BY <1>2, <1>3, <1>4

LEMMA InitFifoInv == FifoInit => FifoInv
<1> SUFFICES ASSUME FifoInit PROVE FifoInv
  OBVIOUS
<1>1. FifoTypeOK
  BY FifoSizes DEF FifoInit, FifoTypeOK, Cleared
<1>2. \E X \in Chain, Y \in Chain : Trail(0, 0, X, Y) /\ Shows(0, 0, X, Y)
  BY ZeroShows DEF FifoInit, AllClear
<1> QED BY <1>1, <1>2 DEF FifoInv

LEMMA ResetFifoInv ==
  ASSUME FifoTypeOK, AssertReset
  PROVE  /\ FifoTypeOK'
         /\ \E X \in Chain, Y \in Chain : Trail(0, 0, X, Y) /\ Shows(0, 0, X, Y)'
<1>1. FifoTypeOK'
  BY FifoSizes DEF AssertReset, FifoTypeOK, Cleared
<1>2. (AllClear => \E X \in Chain, Y \in Chain : Trail(0, 0, X, Y) /\ Shows(0, 0, X, Y))'
  BY ZeroShows, PTL
<1> QED BY <1>1, <1>2 DEF AssertReset, Cleared, AllClear

-----------------------------------------------------------------------------
(* The queue that the FIFO implements. *)

\* An offset from a pointer names the place of the same offset from its position.
LEMMA PlaceOfPosition ==
  ASSUME NEW P \in Nat, NEW j \in Int
  PROVE  Place((P % PtrMod) + j) = (P + j) % FifoDepth
<1>1. PICK d \in Nat \ {0} : d = FifoDepth /\ PtrMod = 2 * d
  BY FifoSizes
<1> DEFINE b == P % PtrMod
           x == b + j
           y == P + j
<1>2. PICK q \in Int : P = PtrMod * q + b /\ b \in 0 .. PtrMod - 1
  <2>1. PICK m \in Nat \ {0} : m = PtrMod
    BY FifoSizes
  <2>2. P \in Int
    OBVIOUS
  <2>3. \E q \in Int : P = m * q + (P % m) /\ P % m \in 0 .. m - 1
    BY <2>2, DivMod
  <2> QED BY <2>1, <2>3
<1> HIDE DEF b
<1>3. x \in Int /\ y \in Int
  BY <1>1, <1>2
<1>4. PICK p \in Int : x = d * p + (x % d) /\ x % d \in 0 .. d - 1
  <2> HIDE DEF x
  <2> QED BY <1>3, DivMod
<1>5. y = d * (p + 2 * q) + (x % d) /\ p + 2 * q \in Int
  <2> DEFINE e == x % d
  <2>1. (2 * d) * q = d * (2 * q)
    OBVIOUS
  <2>2. y = d * (2 * q) + x
    BY <1>1, <1>2, <2>1
  <2> HIDE DEF x, y
  <2>3. x = d * p + e /\ e \in Int
    BY <1>4
  <2> HIDE DEF e
  <2>4. y = d * (p + 2 * q) + e
    BY <1>3, <2>2, <2>3
  <2> QED BY <2>4 DEF e
<1> HIDE DEF x, y
<1>6. y % d = x % d
  BY <1>3, <1>4, <1>5, ModUnique
<1> QED BY <1>1, <1>6 DEF x, y, b, Place

\* The contents are what the storage holds from the read position to the write
\* position.
HeldBetween ==
  \A V, P \in Nat, A, B \in Chain :
    FifoTypeOK /\ Trail(V, P, A, B) /\ Shows(V, P, A, B) =>
      /\ V - P \in 0 .. FifoDepth
      /\ Contents \in Seq(Payloads) /\ Len(Contents) = V - P
      /\ \A k \in 1 .. V - P : Contents[k] = fmem[(P + (k - 1)) % FifoDepth]

LEMMA ContentsFacts == HeldBetween
<1> SUFFICES ASSUME NEW W \in Nat, NEW R \in Nat, NEW X \in Chain, NEW Y \in Chain,
                    FifoTypeOK, Trail(W, R, X, Y), Shows(W, R, X, Y)
             PROVE  /\ W - R \in 0 .. FifoDepth
                    /\ Contents \in Seq(Payloads) /\ Len(Contents) = W - R
                    /\ \A k \in 1 .. W - R : Contents[k] = fmem[(R + (k - 1)) % FifoDepth]
  BY DEF HeldBetween
<1>1. W - R \in 0 .. FifoDepth
  <2>1. X[1] \in Nat /\ Y[1] \in Nat
    BY StagesFacts DEF Chain
  <2> QED BY <2>1, StagesFacts, FifoSizes DEF Trail
<1>2. Lag(rbin) = W - R
  <2>1. R <= W /\ W - R < PtrMod
    BY <1>1, FifoSizes
  <2> QED BY <2>1, LagOfPosition DEF Shows
<1>3. PICK n \in Nat : n = W - R
  BY <1>1
<1>4. \A k \in 1 .. n : Place(rbin + k - 1) = (R + (k - 1)) % FifoDepth
  <2> SUFFICES ASSUME NEW k \in 1 .. n
               PROVE  Place(rbin + k - 1) = (R + (k - 1)) % FifoDepth
    OBVIOUS
  <2>1. Place((R % PtrMod) + (k - 1)) = (R + (k - 1)) % FifoDepth
    BY PlaceOfPosition
  <2>2. rbin + k - 1 = (R % PtrMod) + (k - 1)
    <3>1. R % PtrMod \in Int
      BY PointerRange
    <3> QED BY <3>1 DEF Shows
  <2> QED BY <2>1, <2>2
<1>5. \A k \in 1 .. n : fmem[Place(rbin + k - 1)] \in Payloads
  <2>1. \A x \in Int : x % FifoDepth \in 0 .. FifoDepth - 1
    BY FifoSizes, Division
  <2>2. \A k \in 1 .. n : (R + (k - 1)) % FifoDepth \in 0 .. FifoDepth - 1
    BY <2>1
  <2> QED BY <1>4, <2>2 DEF FifoTypeOK
<1>6. Contents = [k \in 1 .. n |-> fmem[Place(rbin + k - 1)]]
  BY <1>2, <1>3 DEF Contents
<1>7. Contents \in Seq(Payloads) /\ Len(Contents) = n
  BY <1>5, <1>6
<1> QED BY <1>1, <1>3, <1>4, <1>6, <1>7

LEMMA ContentsFactsNext == HeldBetween'
  BY ContentsFacts, PTL

\* The kinds of steps, with the numbers of items they write and take.
FifoStep(item, rd_en, a, t) ==
  \/ WrEdge(item) /\ a = Moved(accepted(item)) /\ t = 0
  \/ RdEdge(rd_en) /\ a = 0 /\ t = Moved(taken(rd_en))
  \/ BothEdges(item, rd_en) /\ a = Moved(accepted(item)) /\ t = Moved(taken(rd_en))

LEMMA StepKinds ==
  ASSUME FifoNext
  PROVE  \/ AssertReset
         \/ ReleaseReset
         \/ \E item \in Payloads \cup {None}, rd_en \in BOOLEAN, a, t \in 0 .. 1 :
              FifoStep(item, rd_en, a, t)
<1>1. \A b : Moved(b) \in 0 .. 1
  BY DEF Moved
<1>2. 0 \in 0 .. 1 /\ TRUE \in BOOLEAN /\ None \in Payloads \cup {None}
  OBVIOUS
<1>3. CASE WrTick
  <2>1. PICK item \in Payloads \cup {None} : WrEdge(item)
    BY <1>3 DEF WrTick
  <2>2. PICK a \in 0 .. 1 : a = Moved(accepted(item))
    BY <1>1
  <2>3. FifoStep(item, TRUE, a, 0)
    BY <2>1, <2>2 DEF FifoStep
  <2> QED BY <1>2, <2>3
<1>4. CASE RdTick
  <2>1. PICK rd_en \in BOOLEAN : RdEdge(rd_en)
    BY <1>4 DEF RdTick
  <2>2. PICK t \in 0 .. 1 : t = Moved(taken(rd_en))
    BY <1>1
  <2>3. FifoStep(None, rd_en, 0, t)
    BY <2>1, <2>2 DEF FifoStep
  <2> QED BY <1>2, <2>3
<1>5. CASE BothTick
  <2>1. PICK item \in Payloads \cup {None}, rd_en \in BOOLEAN : BothEdges(item, rd_en)
    BY <1>5 DEF BothTick
  <2>2. PICK a \in 0 .. 1, t \in 0 .. 1 : a = Moved(accepted(item)) /\ t = Moved(taken(rd_en))
    BY <1>1
  <2>3. FifoStep(item, rd_en, a, t)
    BY <2>1, <2>2 DEF FifoStep
  <2> QED BY <2>3
<1> QED BY <1>3, <1>4, <1>5 DEF FifoNext

LEMMA NextFifoInv == FifoInv /\ [FifoNext]_fifoVars => FifoInv'
<1> SUFFICES ASSUME FifoInv, [FifoNext]_fifoVars PROVE FifoInv'
  OBVIOUS
<1>1. PICK W \in Nat, R \in Nat, X \in Chain, Y \in Chain :
        FifoTypeOK /\ Trail(W, R, X, Y) /\ Shows(W, R, X, Y)
  BY DEF FifoInv
<1>2. CASE AssertReset
  <2>1. /\ FifoTypeOK'
        /\ \E X2 \in Chain, Y2 \in Chain : Trail(0, 0, X2, Y2) /\ Shows(0, 0, X2, Y2)'
    BY <1>1, <1>2, ResetFifoInv
  <2> QED BY <2>1 DEF FifoInv
<1>3. CASE ReleaseReset \/ UNCHANGED fifoVars
  <2>1. FifoTypeOK' /\ Shows(W, R, X, Y)'
    BY <1>1, <1>3 DEF ReleaseReset, fifoVars, wrVars, rdVars, FifoTypeOK, Shows
  <2> QED BY <1>1, <2>1 DEF FifoInv
<1>4. ASSUME NEW item \in Payloads \cup {None}, NEW rd_en \in BOOLEAN,
             NEW a \in 0 .. 1, NEW t \in 0 .. 1, FifoStep(item, rd_en, a, t)
      PROVE  FifoInv'
  <2>1. /\ FifoTypeOK'
        /\ \E X2 \in Chain, Y2 \in Chain :
             Trail(W + a, R + t, X2, Y2) /\ Shows(W + a, R + t, X2, Y2)'
    BY <1>1, <1>4, EdgeMoves DEF FifoStep
  <2>2. W + a \in Nat /\ R + t \in Nat
    OBVIOUS
  <2> QED BY <2>1, <2>2 DEF FifoInv
<1> QED BY <1>2, <1>3, <1>4, StepKinds

\* The invariant holds for every depth and every number of flops, whatever the
\* clocks, the resets and the metastable bits do.
THEOREM FifoCorrect == FifoSpec => []FifoInv
  BY InitFifoInv, NextFifoInv, PTL DEF FifoSpec

\* The pointers that have crossed trail those they copy, and the writer never
\* believes in more room than there is (async_fifo.sv, full and empty).
THEOREM PointersAlwaysTrail == FifoSpec => []SyncedPointersTrail
  BY FifoCorrect, FifoInvTrails, PTL

\* An item enters the queue behind what is left of it.
LEMMA Slide ==
  ASSUME NEW S, NEW q \in Seq(S), NEW q2 \in Seq(S), NEW e \in Seq(S),
         NEW t \in Nat, t <= Len(q), Len(q2) = (Len(q) - t) + Len(e),
         \A k \in 1 .. Len(q) - t : q2[k] = q[k + t],
         \A j \in 1 .. Len(e) : q2[(Len(q) - t) + j] = e[j]
  PROVE  q2 = SubSeq(q, t + 1, Len(q)) \o e
<1> DEFINE r == SubSeq(q, t + 1, Len(q))
<1>1. PICK n \in Nat, m \in Nat : n = Len(q) - t /\ m = Len(e)
  <2>1. Len(q) - t \in Nat /\ Len(e) \in Nat
    OBVIOUS
  <2> QED BY <2>1
<1>2. r \in Seq(S) /\ Len(r) = n /\ \A k \in 1 .. n : r[k] = q[k + t]
  <2>1. \A i \in t + 1 .. Len(q) : q[i] \in S
    BY <1>1
  <2>2. /\ r \in Seq(S)
        /\ Len(r) = IF t + 1 <= Len(q) THEN Len(q) - (t + 1) + 1 ELSE 0
        /\ \A i \in 1 .. Len(q) - (t + 1) + 1 : r[i] = q[(t + 1) + i - 1]
    BY <1>1, <2>1, SubSeqProperties
  <2>3. Len(q) - (t + 1) + 1 = n /\ \A k \in 1 .. n : (t + 1) + k - 1 = k + t
    BY <1>1
  <2> HIDE DEF r
  <2> QED BY <1>1, <2>2, <2>3
<1> HIDE DEF r
<1> DEFINE c == r \o e
<1>3. /\ c \in Seq(S) /\ Len(c) = Len(r) + Len(e)
      /\ \A i \in 1 .. Len(r) + Len(e) : c[i] = IF i <= Len(r) THEN r[i] ELSE e[i - Len(r)]
  <2>1. PICK x \in Seq(S) : x = r
    BY <1>2
  <2>2. /\ x \o e \in Seq(S) /\ Len(x \o e) = Len(x) + Len(e)
        /\ \A i \in 1 .. Len(x) + Len(e) : (x \o e)[i] = IF i <= Len(x) THEN x[i] ELSE e[i - Len(x)]
    BY ConcatProperties
  <2> QED BY <2>1, <2>2
<1> HIDE DEF c
<1>4. ASSUME NEW i \in 1 .. n + m PROVE q2[i] = c[i]
  <2>1. CASE i <= n
    <3>1. i \in 1 .. n
      BY <2>1
    <3> QED BY <1>1, <1>2, <1>3, <2>1, <3>1
  <2>2. CASE i > n
    <3>1. PICK j \in 1 .. m : j = i - n /\ i = n + j
      BY <2>2
    <3>2. q2[i] = e[j]
      BY <1>1, <3>1
    <3> QED BY <1>1, <1>2, <1>3, <2>2, <3>1, <3>2
  <2> QED BY <1>1, <2>1, <2>2
<1>5. q2 = c
  BY <1>1, <1>2, <1>3, <1>4, SeqEqual
<1> QED BY <1>5 DEF r, c

\* What an edge does to the storage, and when it may write or take.
StoreStep(W, R, item, a, t) ==
  /\ a = 1 => /\ item \in Payloads /\ W - R < FifoDepth
              /\ fmem' = [fmem EXCEPT ![W % FifoDepth] = item]
  /\ a = 0 => fmem' = fmem
  /\ t = 1 => R < W

LEMMA StepStores ==
  ASSUME NEW W \in Nat, NEW R \in Nat, NEW X \in Chain, NEW Y \in Chain,
         FifoTypeOK, Trail(W, R, X, Y), Shows(W, R, X, Y),
         NEW item \in Payloads \cup {None}, NEW rd_en \in BOOLEAN,
         NEW a \in 0 .. 1, NEW t \in 0 .. 1, FifoStep(item, rd_en, a, t)
  PROVE  StoreStep(W, R, item, a, t)
<1>1. X[STAGES] \in Nat /\ Y[STAGES] \in Nat /\ X[STAGES] <= R /\ Y[STAGES] <= W
  BY StagesFacts DEF Trail, Chain
<1>2. Place(wbin) = W % FifoDepth
  <2>1. Place((W % PtrMod) + 0) = (W + 0) % FifoDepth
    BY PlaceOfPosition
  <2>2. W % PtrMod \in Int
    BY PointerRange
  <2> QED BY <2>1, <2>2 DEF Shows
<1>3. a = 1 => accepted(item) /\ fmem' = [fmem EXCEPT ![W % FifoDepth] = item]
  BY <1>2 DEF FifoStep, Moved, WrEdge, BothEdges, WriteDomain
<1>4. accepted(item) => item \in Payloads /\ W - R < FifoDepth
  <2>1. accepted(item) => W - X[STAGES] < FifoDepth
    BY <1>1, NoRoomIsFull, FifoSizes DEF accepted
  <2> QED BY <1>1, <2>1, FifoSizes DEF accepted
<1>5. a = 0 => fmem' = fmem
  BY DEF FifoStep, Moved, WrEdge, RdEdge, BothEdges, WriteDomain
<1>6. t = 1 => taken(rd_en)
  BY DEF FifoStep, Moved
<1>7. taken(rd_en) => R < W
  <2>1. taken(rd_en) => R < Y[STAGES]
    BY <1>1, CaughtUpIsEmpty DEF taken
  <2> QED BY <1>1, <2>1
<1> QED BY <1>3, <1>4, <1>5, <1>6, <1>7 DEF StoreStep

\* Every edge adds at most one item, removes at most one and keeps the others in
\* their order.
LEMMA StepMovesQueue ==
  ASSUME NEW W \in Nat, NEW R \in Nat, NEW X \in Chain, NEW Y \in Chain,
         FifoTypeOK, Trail(W, R, X, Y), Shows(W, R, X, Y),
         NEW item \in Payloads \cup {None}, NEW rd_en \in BOOLEAN,
         NEW a \in 0 .. 1, NEW t \in 0 .. 1, FifoStep(item, rd_en, a, t)
  PROVE  \E added \in {<<>>} \cup {<<d>> : d \in Payloads} : Queue!Move(added, t)
<1>1. PICK n \in Nat : n = W - R /\ n <= FifoDepth
  BY ContentsFacts DEF HeldBetween
<1>2. /\ Contents \in Seq(Payloads) /\ Len(Contents) = n
      /\ \A k \in 1 .. n : Contents[k] = fmem[(R + (k - 1)) % FifoDepth]
  BY <1>1, ContentsFacts DEF HeldBetween
<1>3. /\ W + a - (R + t) \in 0 .. FifoDepth
      /\ Contents' \in Seq(Payloads) /\ Len(Contents') = W + a - (R + t)
      /\ \A k \in 1 .. W + a - (R + t) : Contents'[k] = fmem'[((R + t) + (k - 1)) % FifoDepth]
  <2>1. /\ FifoTypeOK'
        /\ \E X2 \in Chain, Y2 \in Chain :
             Trail(W + a, R + t, X2, Y2) /\ Shows(W + a, R + t, X2, Y2)'
    BY EdgeMoves DEF FifoStep
  <2>2. PICK X2 \in Chain, Y2 \in Chain :
          Trail(W + a, R + t, X2, Y2) /\ Shows(W + a, R + t, X2, Y2)'
    BY <2>1
  <2>3. W + a \in Nat /\ R + t \in Nat
    OBVIOUS
  <2> QED BY <2>1, <2>2, <2>3, ContentsFactsNext DEF HeldBetween
<1>4. /\ a = 1 => /\ item \in Payloads /\ n < FifoDepth
                  /\ fmem' = [fmem EXCEPT ![W % FifoDepth] = item]
      /\ a = 0 => fmem' = fmem
      /\ t <= n
  <2>1. StoreStep(W, R, item, a, t)
    BY StepStores
  <2>2. t <= n
    BY <1>1, <2>1 DEF StoreStep
  <2> QED BY <1>1, <2>1, <2>2 DEF StoreStep
<1> DEFINE added == IF a = 1 THEN <<item>> ELSE <<>>
<1>5. /\ added \in {<<>>} \cup {<<d>> : d \in Payloads}
      /\ added \in Seq(Payloads) /\ Len(added) = a
  BY <1>4
<1>6. Len(Contents') = (n - t) + a
  BY <1>1, <1>3
<1>7. ASSUME NEW k \in 1 .. n - t PROVE Contents'[k] = Contents[k + t]
  <2> DEFINE x == (R + t) + (k - 1)
  <2>1. k \in 1 .. W + a - (R + t) /\ k + t \in 1 .. n /\ x = R + ((k + t) - 1) /\ x \in Nat
        /\ 0 < W - x /\ W - x <= n
    BY <1>1
  <2> HIDE DEF x
  <2>2. Contents[k + t] = fmem[x % FifoDepth]
    BY <1>2, <2>1
  <2>3. Contents'[k] = fmem'[x % FifoDepth]
    BY <1>3, <2>1 DEF x
  <2>4. a = 1 => x % FifoDepth # W % FifoDepth
    <3>1. PICK m \in Nat \ {0}, y \in Int, z \in Int : m = FifoDepth /\ y = x /\ z = W
      BY <2>1, FifoSizes
    <3>2. a = 1 => -m < y - z /\ y - z < m /\ y # z
      BY <1>4, <2>1, <3>1
    <3>3. a = 1 => y % m # z % m
      BY <3>2, SameResidue
    <3> QED BY <3>1, <3>3
  <2>5. x % FifoDepth \in 0 .. FifoDepth - 1
    BY <2>1, FifoSizes, Division
  <2>6. fmem'[x % FifoDepth] = fmem[x % FifoDepth]
    <3>1. PICK i \in 0 .. FifoDepth - 1, j \in Int : i = x % FifoDepth /\ j = W % FifoDepth
      <4>1. W % FifoDepth \in Int
        BY FifoSizes, Division
      <4> QED BY <2>5, <4>1
    <3>2. a = 1 => fmem' = [fmem EXCEPT ![j] = item] /\ i # j
      BY <1>4, <2>4, <3>1
    <3>3. fmem'[i] = fmem[i]
      <4>1. CASE a = 0
        BY <1>4, <4>1
      <4>2. CASE a = 1
        BY <3>1, <3>2, <4>2 DEF FifoTypeOK
      <4> QED BY <4>1, <4>2
    <3> QED BY <3>1, <3>3
  <2> QED BY <2>2, <2>3, <2>6
<1>8. ASSUME NEW j \in 1 .. a PROVE Contents'[(n - t) + j] = added[j]
  <2>1. a = 1 /\ j = 1
    OBVIOUS
  <2>2. Contents'[(n - t) + 1] = fmem'[((R + t) + (((n - t) + 1) - 1)) % FifoDepth]
    <3>1. (n - t) + 1 \in 1 .. W + a - (R + t)
      BY <1>1, <1>4, <2>1
    <3> QED BY <1>3, <3>1
  <2>3. (R + t) + (((n - t) + 1) - 1) = W
    BY <1>1
  <2>4. W % FifoDepth \in 0 .. FifoDepth - 1
    BY FifoSizes, Division
  <2> QED BY <1>4, <2>1, <2>2, <2>3, <2>4 DEF FifoTypeOK
<1>9. PICK e \in Seq(Payloads), q \in Seq(Payloads), q2 \in Seq(Payloads) :
        e = added /\ q = Contents /\ q2 = Contents'
  BY <1>2, <1>3, <1>5
<1>10. q2 = SubSeq(q, t + 1, Len(q)) \o e
  <2>1. t \in Nat /\ t <= Len(q) /\ Len(q2) = (Len(q) - t) + Len(e)
    BY <1>2, <1>4, <1>5, <1>6, <1>9
  <2>2. \A k \in 1 .. Len(q) - t : q2[k] = q[k + t]
    BY <1>2, <1>7, <1>9
  <2>3. \A j \in 1 .. Len(e) : q2[(Len(q) - t) + j] = e[j]
    BY <1>2, <1>5, <1>8, <1>9
  <2> HIDE DEF added
  <2> QED BY <2>1, <2>2, <2>3, Slide
<1>11. Queue!Move(added, t)
  <2>1. Contents' = SubSeq(Contents, t + 1, Len(Contents)) \o added
    BY <1>9, <1>10
  <2>2. Len(Contents) + Len(added) <= FifoDepth /\ t <= Len(Contents)
    BY <1>1, <1>2, <1>4, <1>5, FifoSizes
  <2> HIDE DEF added
  <2> QED BY <2>1, <2>2 DEF Queue!Move
<1> QED BY <1>5, <1>11

\* After a reset the queue is empty.
ClearIsEmpty == AllClear => Contents = <<>>

LEMMA ClearHoldsNothing == ClearIsEmpty
<1>1. 0 % PtrMod = 0
  <2>1. PICK m \in Nat \ {0} : m = PtrMod
    BY FifoSizes
  <2> QED BY <2>1, ResidueOfZero
<1>2. AllClear => Lag(rbin) = 0
  BY <1>1 DEF AllClear, Lag
<1>3. [k \in 1 .. 0 |-> fmem[Place(rbin + k - 1)]] = <<>>
  OBVIOUS
<1> QED BY <1>2, <1>3 DEF ClearIsEmpty, Contents

LEMMA ClearHoldsNothingNext == ClearIsEmpty'
  BY ClearHoldsNothing, PTL

LEMMA InitQueue == FifoInit => Queue!QueueInit
  BY ClearHoldsNothing DEF FifoInit, AllClear, ClearIsEmpty, Queue!QueueInit

LEMMA StepQueue == FifoInv /\ [FifoNext]_fifoVars => [Queue!QueueNext]_Contents
<1> SUFFICES ASSUME FifoInv, [FifoNext]_fifoVars PROVE [Queue!QueueNext]_Contents
  OBVIOUS
<1>1. PICK W \in Nat, R \in Nat, X \in Chain, Y \in Chain :
        FifoTypeOK /\ Trail(W, R, X, Y) /\ Shows(W, R, X, Y)
  BY DEF FifoInv
<1>2. CASE AssertReset
  <2>1. AllClear'
    BY <1>2 DEF AssertReset, AllClear, Cleared
  <2>2. Queue!Clear
    BY <2>1, ClearHoldsNothingNext DEF ClearIsEmpty, Queue!Clear
  <2> QED BY <2>2 DEF Queue!QueueNext
<1>3. CASE ReleaseReset \/ UNCHANGED fifoVars
  <2>1. UNCHANGED <<fmem, wbin, rbin>>
    BY <1>3 DEF ReleaseReset, fifoVars, wrVars, rdVars
  <2>2. Contents' = Contents
    BY <2>1 DEF Contents, Lag, Place
  <2> QED BY <2>2
<1>4. ASSUME NEW item \in Payloads \cup {None}, NEW rd_en \in BOOLEAN,
             NEW a \in 0 .. 1, NEW t \in 0 .. 1, FifoStep(item, rd_en, a, t)
      PROVE  Queue!QueueNext
  <2>1. \E added \in {<<>>} \cup {<<d>> : d \in Payloads} : Queue!Move(added, t)
    BY <1>1, <1>4, StepMovesQueue
  <2>2. t \in {0, 1}
    OBVIOUS
  <2> QED BY <2>1, <2>2 DEF Queue!QueueNext
<1> QED BY <1>2, <1>3, <1>4, StepKinds

\* What is written into the FIFO comes out once, in order and unchanged, unless a
\* reset loses it: for every depth, every number of flops and every interleaving
\* of the two clocks (async_fifo.sv as a whole).
THEOREM FifoImplementsQueue == FifoSpec => ImplementsQueue
<1>1. FifoInit => Queue!QueueInit
  BY InitQueue
<1>2. FifoInv /\ [FifoNext]_fifoVars => [Queue!QueueNext]_Contents
  BY StepQueue
<1> QED BY <1>1, <1>2, FifoCorrect, PTL DEF FifoSpec, ImplementsQueue, Queue!QueueSpec

-----------------------------------------------------------------------------
(***************************************************************************)
(* The reference model: an event of the bench changes the object as it     *)
(* changes the registers.                                                  *)
(***************************************************************************)
LEMMA SameSizes == Ref!DEPTH = FifoDepth /\ Ref!PMOD = PtrMod /\ 0 .. Ref!PW - 1 = PtrBits
  BY FifoSizes DEF Ref!DEPTH, Ref!PMOD, Ref!PW, PtrBits

\* b ^ (b >> 1) differs from b in the bits that differ from the next one.
LEMMA SameGray ==
  ASSUME NEW b \in Int
  PROVE  Ref!b2g(b) = b2g(b)
<1>1. Ref!bits(b) = {i \in PtrBits : Bit(b, i) = 1}
  BY SameSizes DEF Ref!bits, Bit
<1>2. ASSUME NEW i \in PtrBits PROVE ((b \div 2) \div 2^i) % 2 = Bit(b, i + 1)
  <2>1. PICK p \in Nat \ {0}, two \in Nat \ {0} : p = 2^i /\ two = 2 /\ 2^(i + 1) = two * p
    <3>1. i \in Nat
      BY FifoSizes DEF PtrBits
    <3>2. 2^i \in Nat \ {0} /\ 2^(i + 1) = 2 * 2^i
      BY <3>1, PowerPositive, PowerStep
    <3> QED BY <3>2
  <2>2. (b \div two) \div p = b \div (two * p)
    BY DivDiv
  <2> QED BY <2>1, <2>2 DEF Bit
<1>3. Ref!bits(b \div 2) = {i \in PtrBits : Bit(b, i + 1) = 1}
  BY <1>2, SameSizes DEF Ref!bits
<1>4. \A i \in PtrBits : Bit(b, i) \in 0 .. 1 /\ Bit(b, i + 1) \in 0 .. 1
  <2> SUFFICES ASSUME NEW i \in PtrBits
               PROVE  Bit(b, i) \in 0 .. 1 /\ Bit(b, i + 1) \in 0 .. 1
    OBVIOUS
  <2>1. i \in Nat /\ i + 1 \in Nat
    BY FifoSizes DEF PtrBits
  <2>2. Quot(b, i) \in Int /\ Quot(b, i + 1) \in Int
    BY <2>1, QuotType
  <2> QED BY <2>2 DEF Bit, Quot
<1> DEFINE B == {i \in PtrBits : Bit(b, i) = 1}
           S == {i \in PtrBits : Bit(b, i + 1) = 1}
<1>5. (B \ S) \cup (S \ B) = {i \in PtrBits : Bit(b, i) # Bit(b, i + 1)}
  BY <1>4
<1>6. Ref!b2g(b) = (B \ S) \cup (S \ B)
  <2> HIDE DEF B, S
  <2>1. Ref!bits(b) = B /\ Ref!bits(b \div 2) = S
    BY <1>1, <1>3 DEF B, S
  <2> QED BY <2>1 DEF Ref!b2g
<1> QED BY <1>5, <1>6 DEF b2g

LEMMA SameInversion ==
  ASSUME NEW g
  PROVE  Ref!inv_top2(g) = Flipped(g, {FIFO_AW, FIFO_AW - 1})
<1>1. Ref!PW - 1 = FIFO_AW /\ Ref!PW - 2 = FIFO_AW - 1
  BY FifoSizes DEF Ref!PW
<1> QED BY <1>1 DEF Ref!inv_top2, Flipped

Object(wb, rb, wg, rg, a, b, m) ==
  [wbin |-> wb, rbin |-> rb, wgray |-> wg, rgray |-> rg, r2w |-> a, w2r |-> b, mem |-> m]

LEMMA ObjectFields ==
  ASSUME NEW wb, NEW rb, NEW wg, NEW rg, NEW a, NEW b, NEW m,
         NEW f, f = Object(wb, rb, wg, rg, a, b, m)
  PROVE  /\ f.wbin = wb /\ f.rbin = rb /\ f.wgray = wg /\ f.rgray = rg
         /\ f.r2w = a /\ f.w2r = b /\ f.mem = m
  BY DEF Object

\* The assignments of an edge, as operations on the object.
Wrote(f, m2, wb2, wg2) == [f EXCEPT !.mem = m2, !.wbin = wb2, !.wgray = wg2]
Took(f, rb2, rg2)      == [f EXCEPT !.rbin = rb2, !.rgray = rg2]
SampledR(f, c)         == [f EXCEPT !.r2w = c]
SampledW(f, c)         == [f EXCEPT !.w2r = c]

LEMMA ObjectWrites ==
  ASSUME NEW wb, NEW rb, NEW wg, NEW rg, NEW a, NEW b, NEW m, NEW wb2, NEW wg2, NEW m2
  PROVE  Wrote(Object(wb, rb, wg, rg, a, b, m), m2, wb2, wg2)
           = Object(wb2, rb, wg2, rg, a, b, m2)
<1> DEFINE f == Object(wb, rb, wg, rg, a, b, m)
<1>1. [f EXCEPT !.mem = m2] = Object(wb, rb, wg, rg, a, b, m2)
  BY DEF Object
<1>2. [Object(wb, rb, wg, rg, a, b, m2) EXCEPT !.wbin = wb2] = Object(wb2, rb, wg, rg, a, b, m2)
  BY DEF Object
<1>3. [Object(wb2, rb, wg, rg, a, b, m2) EXCEPT !.wgray = wg2]
        = Object(wb2, rb, wg2, rg, a, b, m2)
  BY DEF Object
<1>4. [f EXCEPT !.mem = m2, !.wbin = wb2] = Object(wb2, rb, wg, rg, a, b, m2)
  BY <1>1, <1>2, Zenon
<1>5. [f EXCEPT !.mem = m2, !.wbin = wb2, !.wgray = wg2] = Object(wb2, rb, wg2, rg, a, b, m2)
  BY <1>3, <1>4, Zenon
<1> QED BY <1>5 DEF Wrote

LEMMA ObjectReads ==
  ASSUME NEW wb, NEW rb, NEW wg, NEW rg, NEW a, NEW b, NEW m, NEW rb2, NEW rg2
  PROVE  Took(Object(wb, rb, wg, rg, a, b, m), rb2, rg2)
           = Object(wb, rb2, wg, rg2, a, b, m)
<1> DEFINE f == Object(wb, rb, wg, rg, a, b, m)
<1>1. [f EXCEPT !.rbin = rb2] = Object(wb, rb2, wg, rg, a, b, m)
  BY DEF Object
<1>2. [Object(wb, rb2, wg, rg, a, b, m) EXCEPT !.rgray = rg2] = Object(wb, rb2, wg, rg2, a, b, m)
  BY DEF Object
<1>3. [f EXCEPT !.rbin = rb2, !.rgray = rg2] = Object(wb, rb2, wg, rg2, a, b, m)
  BY <1>1, <1>2, Zenon
<1> QED BY <1>3 DEF Took

LEMMA ObjectSamples ==
  ASSUME NEW wb, NEW rb, NEW wg, NEW rg, NEW a, NEW b, NEW m, NEW c
  PROVE  /\ SampledR(Object(wb, rb, wg, rg, a, b, m), c) = Object(wb, rb, wg, rg, c, b, m)
         /\ SampledW(Object(wb, rb, wg, rg, a, b, m), c) = Object(wb, rb, wg, rg, a, c, m)
  BY DEF Object, SampledR, SampledW

\* What full compares, in the object.
FullAt(wg, a) == wg = Flipped(a[2], {FIFO_AW, FIFO_AW - 1})

\* The object after an edge that writes, or takes, something or nothing.
AfterWrite(wb, rb, wg, rg, a, b, m, item, put, next) ==
  Object(IF put THEN next ELSE wb, rb, IF put THEN b2g(next) ELSE wg, rg, <<rg, a[1]>>, b,
         IF put THEN [m EXCEPT ![wb % FifoDepth] = item] ELSE m)

AfterRead(wb, rb, wg, rg, a, b, m, take, next) ==
  Object(wb, IF take THEN next ELSE rb, wg, IF take THEN b2g(next) ELSE rg, a, <<wg, b[1]>>, m)

\* The edges of the object, field by field.
LEMMA WriteObject ==
  ASSUME NEW wb \in Int, NEW rb, NEW wg, NEW rg, NEW a, NEW b, NEW m, NEW item,
         NEW next \in Int, next = (wb + 1) % PtrMod,
         NEW put \in BOOLEAN, put <=> ~(item = None \/ FullAt(wg, a))
  PROVE  Ref!wr_edge(Object(wb, rb, wg, rg, a, b, m), item)
           = AfterWrite(wb, rb, wg, rg, a, b, m, item, put, next)
<1> DEFINE f == Object(wb, rb, wg, rg, a, b, m)
           m2 == [m EXCEPT ![wb % FifoDepth] = item]
           c == <<rg, a[1]>>
           g == IF put THEN Object(next, rb, b2g(next), rg, a, b, m2) ELSE f
<1>1. /\ f.wbin = wb /\ f.rbin = rb /\ f.wgray = wg /\ f.rgray = rg
      /\ f.r2w = a /\ f.w2r = b /\ f.mem = m
  BY ObjectFields
<1>2. (item = None \/ Ref!is_full(f)) <=> ~put
  <2> HIDE DEF f
  <2> QED BY <1>1, SameInversion DEF Ref!is_full, FullAt
<1>3. (f.wbin + 1) % Ref!PMOD = next /\ Ref!b2g(next) = b2g(next)
  <2> HIDE DEF f
  <2> QED BY <1>1, SameSizes, SameGray
<1>4. [f EXCEPT !.mem[f.wbin % Ref!DEPTH] = item, !.wbin = next, !.wgray = b2g(next)]
        = Wrote(f, m2, next, b2g(next))
  <2>1. [f.mem EXCEPT ![f.wbin % Ref!DEPTH] = item] = m2
    <3> HIDE DEF f
    <3> QED BY <1>1, SameSizes, Zenon
  <2> HIDE DEF f, m2
  <2> QED BY <2>1 DEF Wrote
<1>5. Wrote(f, m2, next, b2g(next))
        = Object(next, rb, b2g(next), rg, a, b, m2)
  <2> HIDE DEF m2
  <2> QED BY ObjectWrites
<1>6. Ref!wr_edge(f, item) = SampledR(g, c)
  <2> DEFINE n == (f.wbin + 1) % Ref!PMOD
             h == IF item = None \/ Ref!is_full(f) THEN f
                  ELSE [f EXCEPT !.mem[f.wbin % Ref!DEPTH] = item, !.wbin = n, !.wgray = Ref!b2g(n)]
  <2>1. Ref!wr_edge(f, item) = SampledR(h, <<f.rgray, f.r2w[1]>>)
    <3> HIDE DEF f
    <3> QED BY Zenon DEF Ref!wr_edge, SampledR
  <2>2. n = next /\ Ref!b2g(n) = b2g(next)
    BY <1>3
  <2> HIDE DEF n
  <2>3. h = g
    <3>1. CASE put
      <4>1. h = [f EXCEPT !.mem[f.wbin % Ref!DEPTH] = item, !.wbin = n, !.wgray = Ref!b2g(n)]
        BY <1>2, <3>1, Zenon
      <4>2. h = [f EXCEPT !.mem[f.wbin % Ref!DEPTH] = item, !.wbin = next, !.wgray = b2g(next)]
        <5> HIDE DEF f, h
        <5> QED BY <2>2, <4>1, Zenon
      <4> HIDE DEF f, h, m2
      <4> QED BY <1>4, <1>5, <3>1, <4>2, Zenon
    <3>2. CASE ~put
      <4> HIDE DEF f, m2
      <4> QED BY <1>2, <3>2, Zenon
    <3> QED BY <3>1, <3>2
  <2>4. <<f.rgray, f.r2w[1]>> = c
    <3> HIDE DEF f
    <3> QED BY <1>1
  <2> HIDE DEF f, g, h, c
  <2> QED BY <2>1, <2>3, <2>4, Zenon
<1>7. SampledR(Object(next, rb, b2g(next), rg, a, b, m2), c)
        = Object(next, rb, b2g(next), rg, c, b, m2)
  <2> HIDE DEF m2, c
  <2> QED BY ObjectSamples
<1>8. SampledR(f, c) = Object(wb, rb, wg, rg, c, b, m)
  <2> HIDE DEF c
  <2> QED BY ObjectSamples
<1>9. CASE put
  <2>1. g = Object(next, rb, b2g(next), rg, a, b, m2)
    BY <1>9
  <2>2. /\ (IF put THEN next ELSE wb) = next /\ (IF put THEN b2g(next) ELSE wg) = b2g(next)
        /\ (IF put THEN m2 ELSE m) = m2
    BY <1>9
  <2> HIDE DEF f, g, m2, c
  <2>3. Ref!wr_edge(f, item) = Object(next, rb, b2g(next), rg, c, b, m2)
    BY <1>6, <1>7, <2>1, Zenon
  <2> QED BY <2>2, <2>3, Zenon DEF f, m2, c, AfterWrite
<1>10. CASE ~put
  <2>1. g = f
    BY <1>10
  <2>2. /\ (IF put THEN next ELSE wb) = wb /\ (IF put THEN b2g(next) ELSE wg) = wg
        /\ (IF put THEN m2 ELSE m) = m
    BY <1>10
  <2> HIDE DEF f, g, m2, c
  <2>3. Ref!wr_edge(f, item) = Object(wb, rb, wg, rg, c, b, m)
    BY <1>6, <1>8, <2>1, Zenon
  <2> QED BY <2>2, <2>3, Zenon DEF f, m2, c, AfterWrite
<1> QED BY <1>9, <1>10

LEMMA ReadObject ==
  ASSUME NEW wb, NEW rb \in Int, NEW wg, NEW rg, NEW a, NEW b, NEW m, NEW rd_en \in BOOLEAN,
         NEW next \in Int, next = (rb + 1) % PtrMod,
         NEW take \in BOOLEAN, take <=> ~(~rd_en \/ rg = b[2])
  PROVE  Ref!rd_edge(Object(wb, rb, wg, rg, a, b, m), rd_en)
           = AfterRead(wb, rb, wg, rg, a, b, m, take, next)
<1> DEFINE f == Object(wb, rb, wg, rg, a, b, m)
           c == <<wg, b[1]>>
           g == IF take THEN Object(wb, next, wg, b2g(next), a, b, m) ELSE f
<1>1. /\ f.wbin = wb /\ f.rbin = rb /\ f.wgray = wg /\ f.rgray = rg
      /\ f.r2w = a /\ f.w2r = b /\ f.mem = m
  BY ObjectFields
<1>2. (~rd_en \/ Ref!is_empty(f)) <=> ~take
  <2> HIDE DEF f
  <2> QED BY <1>1 DEF Ref!is_empty
<1>3. (f.rbin + 1) % Ref!PMOD = next /\ Ref!b2g(next) = b2g(next)
  <2> HIDE DEF f
  <2> QED BY <1>1, SameSizes, SameGray
<1>4. Took(f, next, b2g(next)) = Object(wb, next, wg, b2g(next), a, b, m)
  BY ObjectReads
<1>5. Ref!rd_edge(f, rd_en) = SampledW(g, c)
  <2> DEFINE n == (f.rbin + 1) % Ref!PMOD
             h == IF ~rd_en \/ Ref!is_empty(f) THEN f
                  ELSE [f EXCEPT !.rbin = n, !.rgray = Ref!b2g(n)]
  <2>1. Ref!rd_edge(f, rd_en) = SampledW(h, <<f.wgray, f.w2r[1]>>)
    <3> HIDE DEF f
    <3> QED BY Zenon DEF Ref!rd_edge, SampledW
  <2>2. n = next /\ Ref!b2g(n) = b2g(next)
    BY <1>3
  <2> HIDE DEF n
  <2>3. h = g
    <3>1. CASE take
      <4>1. h = [f EXCEPT !.rbin = n, !.rgray = Ref!b2g(n)]
        BY <1>2, <3>1, Zenon
      <4>2. h = Took(f, next, b2g(next))
        <5> HIDE DEF f, h
        <5> QED BY <2>2, <4>1, Zenon DEF Took
      <4> HIDE DEF f, h
      <4> QED BY <1>4, <3>1, <4>2, Zenon
    <3>2. CASE ~take
      <4> HIDE DEF f
      <4> QED BY <1>2, <3>2, Zenon
    <3> QED BY <3>1, <3>2
  <2>4. <<f.wgray, f.w2r[1]>> = c
    <3> HIDE DEF f
    <3> QED BY <1>1
  <2> HIDE DEF f, g, h, c
  <2> QED BY <2>1, <2>3, <2>4, Zenon
<1>6. SampledW(Object(wb, next, wg, b2g(next), a, b, m), c)
        = Object(wb, next, wg, b2g(next), a, c, m)
  <2> HIDE DEF c
  <2> QED BY ObjectSamples
<1>7. SampledW(f, c) = Object(wb, rb, wg, rg, a, c, m)
  <2> HIDE DEF c
  <2> QED BY ObjectSamples
<1>8. CASE take
  <2>1. g = Object(wb, next, wg, b2g(next), a, b, m)
    BY <1>8
  <2>2. (IF take THEN next ELSE rb) = next /\ (IF take THEN b2g(next) ELSE rg) = b2g(next)
    BY <1>8
  <2> HIDE DEF f, g, c
  <2>3. Ref!rd_edge(f, rd_en) = Object(wb, next, wg, b2g(next), a, c, m)
    BY <1>5, <1>6, <2>1, Zenon
  <2> QED BY <2>2, <2>3, Zenon DEF f, c, AfterRead
<1>9. CASE ~take
  <2>1. g = f
    BY <1>9
  <2>2. (IF take THEN next ELSE rb) = rb /\ (IF take THEN b2g(next) ELSE rg) = rg
    BY <1>9
  <2> HIDE DEF f, g, c
  <2>3. Ref!rd_edge(f, rd_en) = Object(wb, rb, wg, rg, a, c, m)
    BY <1>5, <1>7, <2>1, Zenon
  <2> QED BY <2>2, <2>3, Zenon DEF f, c, AfterRead
<1> QED BY <1>8, <1>9

\* The code has two flops in a synchroniser (async_fifo.sv, STAGES(2)).
TwoFlops == STAGES = 2

LEMMA TwoShifted ==
  ASSUME TwoFlops, NEW chain, NEW d
  PROVE  Shifted(chain, d) = <<d, chain[1]>>
  BY DEF TwoFlops, Shifted

LEMMA TwoCleared ==
  ASSUME TwoFlops
  PROVE  Cleared = <<{}, {}>>
  BY DEF TwoFlops, Cleared

\* What the invariant says of the registers themselves.
LEMMA RegisterFacts ==
  ASSUME FifoInv
  PROVE  /\ wbin \in 0 .. PtrMod - 1 /\ wgray = b2g(wbin)
         /\ rbin \in 0 .. PtrMod - 1 /\ rgray = b2g(rbin)
         /\ FifoTypeOK
<1>1. PICK W \in Nat, R \in Nat, X \in Chain, Y \in Chain :
        FifoTypeOK /\ Trail(W, R, X, Y) /\ Shows(W, R, X, Y)
  BY DEF FifoInv
<1>2. W % PtrMod \in 0 .. PtrMod - 1 /\ R % PtrMod \in 0 .. PtrMod - 1
  BY PointerRange
<1> QED BY <1>1, <1>2 DEF Shows

LEMMA RegistersAsObject ==
  ModelOfRegisters = Object(wbin, rbin, wgray, rgray, r2w, w2r, fmem)
  BY DEF ModelOfRegisters, Object

LEMMA RegistersAsObjectNext ==
  ModelOfRegisters' = Object(wbin', rbin', wgray', rgray', r2w', w2r', fmem')
  BY DEF ModelOfRegisters, Object

LEMMA WriteMatches ==
  ASSUME TwoFlops, FifoInv, NEW item \in Payloads \cup {None}, WrEdge(item), Released(wr_sr)
  PROVE  Ref!wr_edge(ModelOfRegisters, item) = ModelOfRegisters'
<1>1. /\ wbin \in Int /\ wgray = b2g(wbin) /\ PtrMod \in Nat \ {0}
  BY RegisterFacts, FifoSizes
<1>2. PICK next \in Int : next = (wbin + 1) % PtrMod
  BY <1>1
<1>3. PICK put \in BOOLEAN : put <=> ~(item = None \/ FullAt(wgray, r2w))
  OBVIOUS
<1>4. accepted(item) <=> put
  BY <1>3 DEF FullAt, accepted, full, rgray_s, TwoFlops
<1>5. /\ wbin' = (IF put THEN next ELSE wbin)
      /\ wgray' = (IF put THEN b2g(next) ELSE wgray)
      /\ fmem' = (IF put THEN [fmem EXCEPT ![wbin % FifoDepth] = item] ELSE fmem)
      /\ r2w' = <<rgray, r2w[1]>>
      /\ rbin' = rbin /\ rgray' = rgray /\ w2r' = w2r
  <2>1. r2w' = Shifted(r2w, rgray)
    BY DEF WrEdge, WriteDomain
  <2>2. wbin' = (IF put THEN next ELSE wbin) /\ wgray' = b2g(wbin')
    BY <1>2, <1>4 DEF WrEdge, WriteDomain, wbin_n, wgray_n, Step
  <2>3. fmem' = IF put THEN [fmem EXCEPT ![wbin % FifoDepth] = item] ELSE fmem
    BY <1>4 DEF WrEdge, WriteDomain, Place
  <2>4. rbin' = rbin /\ rgray' = rgray /\ w2r' = w2r
    BY DEF WrEdge, rdVars
  <2> QED BY <1>1, <2>1, <2>2, <2>3, <2>4, TwoShifted
<1>6. Ref!wr_edge(Object(wbin, rbin, wgray, rgray, r2w, w2r, fmem), item)
        = AfterWrite(wbin, rbin, wgray, rgray, r2w, w2r, fmem, item, put, next)
  BY <1>1, <1>2, <1>3, WriteObject
<1> QED BY <1>5, <1>6, RegistersAsObject, RegistersAsObjectNext, Zenon DEF AfterWrite

LEMMA ReadMatches ==
  ASSUME TwoFlops, FifoInv, NEW rd_en \in BOOLEAN, RdEdge(rd_en), Released(rd_sr)
  PROVE  Ref!rd_edge(ModelOfRegisters, rd_en) = ModelOfRegisters'
<1>1. rbin \in Int /\ rgray = b2g(rbin) /\ PtrMod \in Nat \ {0}
  BY RegisterFacts, FifoSizes
<1>2. PICK next \in Int : next = (rbin + 1) % PtrMod
  BY <1>1
<1>3. PICK take \in BOOLEAN : take <=> ~(~rd_en \/ rgray = w2r[2])
  OBVIOUS
<1>4. taken(rd_en) <=> take
  BY <1>3 DEF taken, empty, wgray_s, TwoFlops
<1>5. /\ rbin' = (IF take THEN next ELSE rbin)
      /\ rgray' = (IF take THEN b2g(next) ELSE rgray)
      /\ w2r' = <<wgray, w2r[1]>>
      /\ wbin' = wbin /\ wgray' = wgray /\ r2w' = r2w /\ fmem' = fmem
  <2>1. w2r' = Shifted(w2r, wgray)
    BY DEF RdEdge, ReadDomain
  <2>2. rbin' = (IF take THEN next ELSE rbin) /\ rgray' = b2g(rbin')
    BY <1>2, <1>4 DEF RdEdge, ReadDomain, rbin_n, rgray_n, Step
  <2>3. wbin' = wbin /\ wgray' = wgray /\ r2w' = r2w /\ fmem' = fmem
    BY DEF RdEdge, wrVars
  <2> QED BY <1>1, <2>1, <2>2, <2>3, TwoShifted
<1>6. Ref!rd_edge(Object(wbin, rbin, wgray, rgray, r2w, w2r, fmem), rd_en)
        = AfterRead(wbin, rbin, wgray, rgray, r2w, w2r, fmem, take, next)
  BY <1>1, <1>2, <1>3, ReadObject
<1> QED BY <1>5, <1>6, RegistersAsObject, RegistersAsObjectNext, Zenon DEF AfterRead

\* A domain that has not come out of reset does not move at its edge.
LEMMA HeldEdges ==
  ASSUME FifoInv, NEW item, NEW rd_en,
         \/ WrEdge(item) /\ ~Released(wr_sr)
         \/ RdEdge(rd_en) /\ ~Released(rd_sr)
         \/ BothEdges(item, rd_en) /\ ~Released(wr_sr) /\ ~Released(rd_sr)
  PROVE  ModelOfRegisters' = ModelOfRegisters
<1>1. wgray = b2g(wbin) /\ rgray = b2g(rbin)
  BY RegisterFacts
<1>2. WrEdge(item) /\ ~Released(wr_sr) =>
        UNCHANGED <<fmem, wbin, wgray, r2w, rbin, rgray, w2r>>
  BY <1>1 DEF WrEdge, WriteDomain, wbin_n, wgray_n, accepted, rdVars
<1>3. RdEdge(rd_en) /\ ~Released(rd_sr) =>
        UNCHANGED <<fmem, wbin, wgray, r2w, rbin, rgray, w2r>>
  BY <1>1 DEF RdEdge, ReadDomain, rbin_n, rgray_n, taken, wrVars
<1>4. BothEdges(item, rd_en) /\ ~Released(wr_sr) /\ ~Released(rd_sr) =>
        UNCHANGED <<fmem, wbin, wgray, r2w, rbin, rgray, w2r>>
  BY <1>1 DEF BothEdges, WriteDomain, wbin_n, wgray_n, accepted,
             ReadDomain, rbin_n, rgray_n, taken
<1> QED BY <1>2, <1>3, <1>4 DEF ModelOfRegisters

LEMMA ResetMatches == TwoFlops /\ AllClear => Ref!New(fmem) = ModelOfRegisters
  BY TwoCleared DEF Ref!New, ModelOfRegisters, AllClear

LEMMA ReplayIsFifo == [ReplayNext]_replayVars => [FifoNext]_fifoVars
  BY DEF ReplayNext, ReplayWrTick, ReplayRdTick, ReplayBothTick, ReplayWr, ReplayRd, ReplayBoth,
         ReplayReset, FifoNext, WrTick, RdTick, BothTick, replayVars

\* The invariant also holds of the FIFO that is replayed.
THEOREM ReplayCorrect == ReplaySpec => []FifoInv
<1>1. ReplayInit => FifoInv
  BY InitFifoInv DEF ReplayInit
<1>2. FifoInv /\ [ReplayNext]_replayVars => FifoInv'
  BY ReplayIsFifo, NextFifoInv
<1> QED BY <1>1, <1>2, PTL DEF ReplaySpec

LEMMA StepMatches ==
  ASSUME TwoFlops, FifoInv, FifoMatchesModel, [ReplayNext]_replayVars
  PROVE  FifoMatchesModel'
<1>1. ASSUME NEW item \in Payloads \cup {None}, ReplayWr(item) PROVE FifoMatchesModel'
  <2>1. CASE ref # None /\ Released(wr_sr)
    <3>1. ref' = Ref!wr_edge(ModelOfRegisters, item)
      BY <1>1, <2>1 DEF ReplayWr, Event, FifoMatchesModel
    <3> QED BY <1>1, <2>1, <3>1, WriteMatches DEF ReplayWr, FifoMatchesModel
  <2>2. CASE ref = None
    BY <1>1, <2>2 DEF ReplayWr, Event, FifoMatchesModel
  <2>3. CASE ~Released(wr_sr)
    <3>1. ref' = ref /\ ModelOfRegisters' = ModelOfRegisters
      BY <1>1, <2>3, HeldEdges DEF ReplayWr, Event
    <3> QED BY <3>1 DEF FifoMatchesModel
  <2> QED BY <2>1, <2>2, <2>3
<1>2. ASSUME NEW rd_en \in BOOLEAN, ReplayRd(rd_en) PROVE FifoMatchesModel'
  <2>1. CASE ref # None /\ Released(rd_sr)
    <3>1. ref' = Ref!rd_edge(ModelOfRegisters, rd_en)
      BY <1>2, <2>1 DEF ReplayRd, Event, FifoMatchesModel
    <3> QED BY <1>2, <2>1, <3>1, ReadMatches DEF ReplayRd, FifoMatchesModel
  <2>2. CASE ref = None
    BY <1>2, <2>2 DEF ReplayRd, Event, FifoMatchesModel
  <2>3. CASE ~Released(rd_sr)
    <3>1. ref' = ref /\ ModelOfRegisters' = ModelOfRegisters
      BY <1>2, <2>3, HeldEdges DEF ReplayRd, Event
    <3> QED BY <3>1 DEF FifoMatchesModel
  <2> QED BY <2>1, <2>2, <2>3
<1>3. ASSUME NEW item \in Payloads \cup {None}, NEW rd_en \in BOOLEAN, ReplayBoth(item, rd_en)
      PROVE  FifoMatchesModel'
  <2>1. CASE Released(wr_sr) \/ Released(rd_sr)
    BY <1>3, <2>1 DEF ReplayBoth, FifoMatchesModel
  <2>2. CASE ~Released(wr_sr) /\ ~Released(rd_sr)
    <3>1. ref' = ref /\ ModelOfRegisters' = ModelOfRegisters
      BY <1>3, <2>2, HeldEdges DEF ReplayBoth
    <3> QED BY <3>1 DEF FifoMatchesModel
  <2> QED BY <2>1, <2>2
<1>4. CASE ReplayReset
  <2>1. AllClear' /\ fmem' = fmem
    BY <1>4 DEF ReplayReset, AssertReset, AllClear, Cleared
  <2>2. (TwoFlops /\ AllClear => Ref!New(fmem) = ModelOfRegisters)'
    BY ResetMatches, PTL
  <2> QED BY <1>4, <2>1, <2>2 DEF ReplayReset, FifoMatchesModel, TwoFlops
<1>5. CASE (ReleaseReset /\ UNCHANGED ref) \/ UNCHANGED replayVars
  BY <1>5 DEF ReleaseReset, replayVars, fifoVars, wrVars, rdVars, FifoMatchesModel, ModelOfRegisters
<1> QED BY <1>1, <1>2, <1>3, <1>4, <1>5
        DEF ReplayNext, ReplayWrTick, ReplayRdTick, ReplayBothTick

\* After any interleaving of single edges the FIFO and its reference model hold
\* the same, for every depth (tb_async_fifo.sv compares them for random ones).
THEOREM FifoAlwaysMatchesModel ==
  ASSUME TwoFlops
  PROVE  ReplaySpec => []FifoMatchesModel
<1>1. ReplayInit => FifoMatchesModel
  BY ResetMatches DEF ReplayInit, FifoInit, AllClear, FifoMatchesModel
<1>2. FifoInv /\ FifoMatchesModel /\ [ReplayNext]_replayVars => FifoMatchesModel'
  BY StepMatches
<1> QED BY <1>1, <1>2, ReplayCorrect, PTL DEF ReplaySpec
=============================================================================
