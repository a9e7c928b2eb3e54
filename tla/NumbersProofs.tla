--------------------------- MODULE NumbersProofs ---------------------------
(***************************************************************************)
(* Proofs about Numbers, for limbs of any even number of bits, any array   *)
(* and any length of the classes.                                          *)
(***************************************************************************)
EXTENDS Numbers, WellFoundedInduction, TLAPS

-----------------------------------------------------------------------------
(* Numbers, and loops over them. *)

\* A set of numbers that is not empty has a least one.
LEMMA NatLeast ==
  ASSUME NEW T \in SUBSET Nat, T # {}
  PROVE  \E x \in T : \A y \in T : x <= y
<1> DEFINE R == {ss \in Nat \X Nat : ss[1] < ss[2]}
<1>1. IsWellFoundedOn(R, Nat)
  BY NatLessThanWellFounded, Zenon DEF OpToRel
<1>2. \A a, b \in Nat : <<a, b>> \in R <=> a < b
  OBVIOUS
<1> HIDE DEF R
<1>3. \E x \in T : \A y \in T : ~ (<<y, x>> \in R)
  BY <1>1, WFMin, Zenon
<1>4. PICK x \in T : \A y \in T : ~ (<<y, x>> \in R)
  BY <1>3
<1>5. \A y \in T : ~(y < x)
  <2>1. \A y \in T : y \in Nat /\ x \in Nat
    OBVIOUS
  <2> QED BY <1>2, <1>4, <2>1, Zenon
<1> QED BY <1>5

\* Induction over the numbers up to n
LEMMA UpTo ==
  ASSUME NEW n \in Nat, NEW S, 0 \in S, \A k \in Nat : k < n /\ k \in S => k + 1 \in S
  PROVE  \A k \in 0..n : k \in S
<1> SUFFICES ASSUME NEW k \in 0..n, k \notin S
             PROVE  FALSE
  OBVIOUS
<1> DEFINE T == {j \in 0..n : j \notin S}
<1>1. PICK x \in T : \A y \in T : x <= y
  <2>1. T \in SUBSET Nat /\ T # {}
    OBVIOUS
  <2> HIDE DEF T
  <2> QED BY <2>1, NatLeast
<1>2. x # 0
  OBVIOUS
<1>3. x - 1 \in Nat /\ x - 1 < n /\ x - 1 \in S
  BY <1>1, <1>2
<1> QED BY <1>3

\* Division by any number: what quotient and remainder there are, and that there are.
LEMMA DivIs ==
  ASSUME NEW d \in Nat, d > 0, NEW q \in Int, NEW r \in Nat, r < d
  PROVE  (q * d + r) \div d = q /\ (q * d + r) % d = r
<1> DEFINE x == q * d + r
           e == x \div d
<1>1. x \in Int /\ e \in Int /\ d * e <= x /\ x < d * e + d /\ x = d * e + (x % d)
  OBVIOUS
<1>2. q * d = d * q /\ d * q \in Int /\ d * e \in Int
  BY <1>1
<1>3. ~(e < q)
  <2>1. SUFFICES ASSUME e < q PROVE FALSE
    OBVIOUS
  <2>2. PICK k \in Nat : q = e + 1 + k
    <3>1. q - e - 1 \in Nat /\ q = e + 1 + (q - e - 1)
      BY <1>1, <2>1
    <3> QED BY <3>1
  <2>3. d * q = d * e + d + d * k /\ d * k \in Nat
    BY <1>1, <2>2
  <2> QED BY <1>1, <1>2, <2>3
<1>4. ~(q < e)
  <2>1. SUFFICES ASSUME q < e PROVE FALSE
    OBVIOUS
  <2>2. PICK k \in Nat : e = q + 1 + k
    <3>1. e - q - 1 \in Nat /\ e = q + 1 + (e - q - 1)
      BY <1>1, <2>1
    <3> QED BY <3>1
  <2>3. d * e = d * q + d + d * k /\ d * k \in Nat
    BY <1>1, <2>2
  <2> QED BY <1>1, <1>2, <2>3
<1>5. e = q
  BY <1>1, <1>3, <1>4
<1>6. x % d = r
  BY <1>1, <1>2, <1>5
<1> QED BY <1>5, <1>6

LEMMA DivOf ==
  ASSUME NEW d \in Nat, d > 0, NEW t \in Nat
  PROVE  /\ t \div d \in Nat /\ t % d \in 0..(d - 1)
         /\ t = (t \div d) * d + (t % d)
<1>1. t \div d \in Nat /\ t % d \in 0..(d - 1) /\ t = d * (t \div d) + (t % d)
  OBVIOUS
<1>2. d * (t \div d) = (t \div d) * d
  BY <1>1
<1> QED BY <1>1, <1>2

\* Products keep order.
LEMMA MulMono ==
  ASSUME NEW d \in Nat, NEW a \in Nat, NEW b \in Nat, a < b
  PROVE  a * d + d <= b * d /\ a * d \in Nat /\ b * d \in Nat /\ (a + 1) * d = a * d + d
<1>1. PICK k \in Nat : b = a + 1 + k
  <2>1. b - a - 1 \in Nat /\ b = a + 1 + (b - a - 1)
    OBVIOUS
  <2> QED BY <2>1
<1>2. b * d = a * d + d + k * d /\ (a + 1) * d = a * d + d
  BY <1>1
<1>3. k * d \in Nat /\ a * d \in Nat
  OBVIOUS
<1> QED BY <1>2, <1>3

\* A loop of n turns, whose turn i makes G[i][v] of v, ends.
Turns(S, n, G) == \A i \in 1..n : G[i] \in [S -> S]
Loops(f, S, x, n, G) ==
    f \in [0..n -> S] /\ f[0] = x /\ \A i \in 1..n : f[i] = G[i][f[i - 1]]
LEMMA LoopExists ==
  ASSUME NEW S, NEW x \in S, NEW n \in Nat, NEW G, Turns(S, n, G)
  PROVE  \E f : Loops(f, S, x, n, G)
<1> DEFINE Part(f, m) == /\ f \in [0..m -> S]
                         /\ f[0] = x
                         /\ \A i \in 1..m : f[i] = G[i][f[i - 1]]
           P == {m \in Nat : m <= n => \E f : Part(f, m)}
<1>1. 0 \in P
  <2>1. Part([i \in 0..0 |-> x], 0)
    OBVIOUS
  <2> QED BY <2>1
<1>2. ASSUME NEW m \in Nat, m < n, m \in P
      PROVE  m + 1 \in P
  <2>1. PICK f : Part(f, m)
    BY <1>2
  <2> DEFINE h == [i \in 0..(m + 1) |-> IF i = m + 1 THEN G[m + 1][f[m]] ELSE f[i]]
  <2>2. f[m] \in S /\ G[m + 1] \in [S -> S]
    BY <1>2, <2>1 DEF Turns
  <2>3. h \in [0..(m + 1) -> S]
    BY <2>1, <2>2
  <2>4. h[0] = x
    BY <2>1
  <2>5. ASSUME NEW i \in 1..(m + 1)
        PROVE  h[i] = G[i][h[i - 1]]
    <3>1. CASE i = m + 1
      <4>1. i - 1 = m /\ m \in 0..(m + 1) /\ m # m + 1 /\ m + 1 \in 0..(m + 1)
        BY <3>1
      <4>2. h[m] = f[m] /\ h[m + 1] = G[m + 1][f[m]]
        BY <4>1
      <4> HIDE DEF h
      <4> QED BY <3>1, <4>1, <4>2
    <3>2. CASE i # m + 1
      <4>1. i \in 1..m /\ i - 1 \in 0..(m + 1) /\ i - 1 # m + 1 /\ i \in 0..(m + 1)
        BY <3>2
      <4>2. h[i] = f[i] /\ h[i - 1] = f[i - 1]
        BY <3>2, <4>1
      <4> HIDE DEF h
      <4> QED BY <2>1, <4>1, <4>2
    <3> QED BY <3>1, <3>2
  <2>6. Part(h, m + 1)
    <3> HIDE DEF h
    <3> QED BY <2>3, <2>4, <2>5
  <2> HIDE DEF Part, h
  <2> QED BY <2>6
<1> HIDE DEF P
<1>3. n \in P
  BY <1>1, <1>2, UpTo
<1>4. PICK f : Part(f, n)
  BY <1>3 DEF P
<1> QED BY <1>4 DEF Loops

\* Powers of two
TwoLoop(f, k) == f = [i \in 0..k |-> IF i = 0 THEN 1 ELSE 2 * f[i - 1]]
LEMMA TwoLoops == ASSUME NEW k \in Nat PROVE \E f \in [0..k -> Nat] : TwoLoop(f, k)
<1> DEFINE G == [i \in 1..k |-> [v \in Nat |-> 2 * v]]
<1>1. Turns(Nat, k, G)
  BY DEF Turns
<1>2. \A i \in 1..k : \A v \in Nat : G[i][v] = 2 * v
  OBVIOUS
<1> HIDE DEF G
<1>3. PICK f : Loops(f, Nat, 1, k, G)
  <2>1. 1 \in Nat
    OBVIOUS
  <2> QED BY <1>1, <2>1, LoopExists, Zenon
<1>4. ASSUME NEW i \in 1..k PROVE f[i] = 2 * f[i - 1]
  <2>1. f[i - 1] \in Nat
    <3>1. i - 1 \in 0..k
      OBVIOUS
    <3> QED BY <1>3, <3>1 DEF Loops
  <2> QED BY <1>2, <1>3, <2>1 DEF Loops
<1>5. \A i \in 0..k : f[i] = IF i = 0 THEN 1 ELSE 2 * f[i - 1]
  BY <1>3, <1>4 DEF Loops
<1>6. TwoLoop(f, k) /\ f \in [0..k -> Nat]
  BY <1>3, <1>5 DEF TwoLoop, Loops
<1> QED BY <1>6

LEMMA TwoLoopsAgree ==
  ASSUME NEW k \in Nat, NEW l \in Nat, NEW f, NEW g, TwoLoop(f, k), TwoLoop(g, l), k <= l
  PROVE  f[k] = g[k] /\ f[k] \in Nat /\ f[k] >= 1
<1> DEFINE P == {i \in 0..k : f[i] = g[i] /\ f[i] \in Nat /\ f[i] >= 1}
<1>1. \A i \in 0..k : f[i] = IF i = 0 THEN 1 ELSE 2 * f[i - 1]
  BY DEF TwoLoop
<1>2. \A i \in 0..l : g[i] = IF i = 0 THEN 1 ELSE 2 * g[i - 1]
  BY DEF TwoLoop
<1>3. 0 \in P
  BY <1>1, <1>2
<1>4. ASSUME NEW i \in Nat, i < k, i \in P
      PROVE  i + 1 \in P
  <2>1. i + 1 \in 0..k /\ i + 1 \in 0..l /\ i + 1 # 0 /\ i + 1 - 1 = i
    BY <1>4
  <2>2. f[i + 1] = 2 * f[i] /\ g[i + 1] = 2 * g[i]
    BY <1>1, <1>2, <2>1
  <2> QED BY <1>4, <2>1, <2>2
<1> HIDE DEF P
<1>5. k \in P
  BY <1>3, <1>4, UpTo
<1> QED BY <1>5 DEF P

LEMMA TwoAt == ASSUME NEW k \in Nat PROVE \E f : TwoLoop(f, k) /\ Two(k) = f[k]
<1> DEFINE two == CHOOSE f : TwoLoop(f, k)
<1>1. Two(k) = two[k]
  BY DEF Two, TwoLoop
<1>2. TwoLoop(two, k)
  BY TwoLoops, Zenon
<1> QED BY <1>1, <1>2

LEMMA TwoIs == /\ Two(0) = 1
               /\ \A k \in Nat : Two(k) \in Nat /\ Two(k) >= 1 /\ Two(k + 1) = 2 * Two(k)
<1>1. Two(0) = 1
  <2>1. PICK f : TwoLoop(f, 0) /\ Two(0) = f[0]
    BY TwoAt
  <2> QED BY <2>1 DEF TwoLoop
<1>2. ASSUME NEW k \in Nat
      PROVE  Two(k) \in Nat /\ Two(k) >= 1 /\ Two(k + 1) = 2 * Two(k)
  <2>1. PICK f : TwoLoop(f, k) /\ Two(k) = f[k]
    BY TwoAt
  <2>2. PICK g : TwoLoop(g, k + 1) /\ Two(k + 1) = g[k + 1]
    BY TwoAt
  <2>3. f[k] = g[k] /\ f[k] \in Nat /\ f[k] >= 1
    BY <2>1, <2>2, TwoLoopsAgree
  <2>4. g[k + 1] = 2 * g[k]
    BY <2>2 DEF TwoLoop
  <2> QED BY <2>1, <2>2, <2>3, <2>4
<1> QED BY <1>1, <1>2

\* Products with an unknown factor, where the prover would have to multiply out
LEMMA TimesAssoc == \A a, b, c \in Int : a * (b * c) = (a * b) * c /\ a * b \in Int
OBVIOUS
LEMMA TimesSum == \A a, b, c \in Int : a * (b + c) = a * b + a * c /\ (b + c) * a = b * a + c * a
OBVIOUS

LEMMA TwoSum == \A a, b \in Nat : Two(a + b) = Two(a) * Two(b)
<1> SUFFICES ASSUME NEW a \in Nat, NEW b \in Nat PROVE Two(a + b) = Two(a) * Two(b)
  OBVIOUS
<1> DEFINE P == {i \in Nat : Two(a + i) = Two(a) * Two(i)}
<1>1. 0 \in P
  BY TwoIs
<1>2. ASSUME NEW i \in Nat, i < b, i \in P
      PROVE  i + 1 \in P
  <2>1. a + (i + 1) = (a + i) + 1 /\ a + i \in Nat
    OBVIOUS
  <2>2. Two(a + (i + 1)) = 2 * Two(a + i) /\ Two(i + 1) = 2 * Two(i)
    BY <2>1, TwoIs
  <2>3. Two(a) \in Int /\ Two(i) \in Int
    BY TwoIs
  <2>4. Two(a) * (2 * Two(i)) = 2 * (Two(a) * Two(i))
    BY <2>3
  <2> QED BY <1>2, <2>2, <2>4
<1> HIDE DEF P
<1>3. b \in P
  BY <1>1, <1>2, UpTo
<1> QED BY <1>3 DEF P

-----------------------------------------------------------------------------
(* Sums. *)

Terms(a, k) == \A i \in 0..(k - 1) : a[i] \in Int
Alike(a, b, k) == \A i \in 0..(k - 1) : a[i] = b[i]
SumLoop(f, a, k) == f = [i \in 0..k |-> IF i = 0 THEN 0 ELSE f[i - 1] + a[i - 1]]

LEMMA SumLoops ==
  ASSUME NEW k \in Nat, NEW a, Terms(a, k)
  PROVE  \E f : SumLoop(f, a, k) /\ f \in [0..k -> Int]
<1> DEFINE G == [i \in 1..k |-> [v \in Int |-> v + a[i - 1]]]
<1>0. \A i \in 1..k : a[i - 1] \in Int
  <2>1. \A i \in 1..k : i - 1 \in 0..(k - 1)
    OBVIOUS
  <2> QED BY <2>1 DEF Terms
<1>1. Turns(Int, k, G)
  BY <1>0 DEF Turns
<1>2. \A i \in 1..k : \A v \in Int : G[i][v] = v + a[i - 1]
  OBVIOUS
<1> HIDE DEF G
<1>3. PICK f : Loops(f, Int, 0, k, G)
  <2>1. 0 \in Int
    OBVIOUS
  <2> QED BY <1>1, <2>1, LoopExists, Zenon
<1>4. ASSUME NEW i \in 1..k PROVE f[i] = f[i - 1] + a[i - 1]
  <2>1. f[i - 1] \in Int
    <3>1. i - 1 \in 0..k
      OBVIOUS
    <3> QED BY <1>3, <3>1 DEF Loops
  <2> QED BY <1>2, <1>3, <2>1 DEF Loops
<1>5. \A i \in 0..k : f[i] = IF i = 0 THEN 0 ELSE f[i - 1] + a[i - 1]
  BY <1>3, <1>4 DEF Loops
<1>6. SumLoop(f, a, k) /\ f \in [0..k -> Int]
  BY <1>3, <1>5 DEF SumLoop, Loops
<1> QED BY <1>6

LEMMA SumLoopsAgree ==
  ASSUME NEW k \in Nat, NEW l \in Nat, k <= l, NEW a, NEW b, NEW f, NEW g,
         Terms(a, k), Alike(a, b, k), SumLoop(f, a, k), SumLoop(g, b, l)
  PROVE  f[k] = g[k] /\ f[k] \in Int
<1> DEFINE P == {i \in 0..k : f[i] = g[i] /\ f[i] \in Int}
<1>1. \A i \in 0..k : f[i] = IF i = 0 THEN 0 ELSE f[i - 1] + a[i - 1]
  BY DEF SumLoop
<1>2. \A i \in 0..l : g[i] = IF i = 0 THEN 0 ELSE g[i - 1] + b[i - 1]
  BY DEF SumLoop
<1>3. 0 \in P
  BY <1>1, <1>2
<1>4. ASSUME NEW i \in Nat, i < k, i \in P
      PROVE  i + 1 \in P
  <2>1. i + 1 \in 0..k /\ i + 1 \in 0..l /\ i + 1 # 0 /\ i + 1 - 1 = i /\ i \in 0..(k - 1)
    BY <1>4
  <2>2. f[i + 1] = f[i] + a[i] /\ g[i + 1] = g[i] + b[i]
    BY <1>1, <1>2, <2>1
  <2>3. a[i] \in Int /\ a[i] = b[i]
    BY <2>1 DEF Terms, Alike
  <2> QED BY <1>4, <2>1, <2>2, <2>3
<1> HIDE DEF P
<1>5. k \in P
  BY <1>3, <1>4, UpTo
<1> QED BY <1>5 DEF P

LEMMA SumAt ==
  ASSUME NEW k \in Nat, NEW a, Terms(a, k)
  PROVE  \E f : SumLoop(f, a, k) /\ SumTo(a, k) = f[k]
<1> DEFINE sum == CHOOSE f : SumLoop(f, a, k)
<1>1. SumTo(a, k) = sum[k]
  BY DEF SumTo, SumLoop
<1>2. SumLoop(sum, a, k)
  BY SumLoops, Zenon
<1> QED BY <1>1, <1>2

LEMMA SumSame ==
  ASSUME NEW k \in Nat, NEW a, NEW b, Terms(a, k), \A i \in 0..(k - 1) : a[i] = b[i]
  PROVE  SumTo(a, k) = SumTo(b, k) /\ SumTo(a, k) \in Int
<1>1. Terms(b, k)
  BY DEF Terms
<1>2. PICK f : SumLoop(f, a, k) /\ SumTo(a, k) = f[k]
  BY SumAt
<1>3. PICK g : SumLoop(g, b, k) /\ SumTo(b, k) = g[k]
  BY <1>1, SumAt
<1>4. k <= k /\ Alike(a, b, k)
  BY DEF Alike
<1>5. f[k] = g[k] /\ f[k] \in Int
  BY <1>2, <1>3, <1>4, SumLoopsAgree, Zenon
<1> QED BY <1>2, <1>3, <1>5

LEMMA SumNone == ASSUME NEW a PROVE SumTo(a, 0) = 0
<1>1. Terms(a, 0)
  BY DEF Terms
<1>2. PICK f : SumLoop(f, a, 0) /\ SumTo(a, 0) = f[0]
  BY <1>1, SumAt
<1> QED BY <1>2 DEF SumLoop

LEMMA SumNext ==
  ASSUME NEW k \in Nat, NEW a, Terms(a, k + 1)
  PROVE  /\ SumTo(a, k + 1) = SumTo(a, k) + a[k]
         /\ SumTo(a, k) \in Int /\ SumTo(a, k + 1) \in Int /\ a[k] \in Int
<1>1. Terms(a, k) /\ a[k] \in Int
  BY DEF Terms
<1>2. PICK f : SumLoop(f, a, k) /\ SumTo(a, k) = f[k]
  BY <1>1, SumAt
<1>3. PICK g : SumLoop(g, a, k + 1) /\ SumTo(a, k + 1) = g[k + 1]
  BY SumAt
<1>4. f[k] = g[k] /\ f[k] \in Int
  <2>1. k <= k + 1 /\ k + 1 \in Nat /\ Alike(a, a, k)
    BY DEF Alike
  <2> QED BY <1>1, <1>2, <1>3, <2>1, SumLoopsAgree, Zenon
<1>5. g[k + 1] = g[k] + a[k]
  BY <1>3 DEF SumLoop
<1> QED BY <1>1, <1>2, <1>3, <1>4, <1>5

LEMMA TermsBelow == ASSUME NEW k \in Nat, NEW a, Terms(a, k), NEW i \in 0..k PROVE Terms(a, i)
BY DEF Terms

LEMMA SumIsInt == ASSUME NEW k \in Nat, NEW a, Terms(a, k) PROVE SumTo(a, k) \in Int
<1>1. \A i \in 0..(k - 1) : a[i] = a[i]
  OBVIOUS
<1> QED BY <1>1, SumSame, Zenon

\* Sums of terms that are at least as large, of terms each times c, of two terms each
LEMMA SumAtMost ==
  ASSUME NEW k \in Nat, NEW a, NEW b, Terms(a, k), Terms(b, k), \A i \in 0..(k - 1) : a[i] <= b[i]
  PROVE  SumTo(a, k) <= SumTo(b, k)
<1> DEFINE P == {i \in 0..k : SumTo(a, i) <= SumTo(b, i)}
<1>1. 0 \in P
  BY SumNone
<1>2. ASSUME NEW i \in Nat, i < k, i \in P
      PROVE  i + 1 \in P
  <2>1. i + 1 \in 0..k /\ i \in 0..(k - 1)
    BY <1>2
  <2>2. Terms(a, i + 1) /\ Terms(b, i + 1)
    BY <2>1, TermsBelow
  <2>3. /\ SumTo(a, i + 1) = SumTo(a, i) + a[i] /\ SumTo(a, i) \in Int /\ a[i] \in Int
        /\ SumTo(b, i + 1) = SumTo(b, i) + b[i] /\ SumTo(b, i) \in Int /\ b[i] \in Int
    BY <2>2, SumNext
  <2>4. a[i] <= b[i]
    BY <2>1
  <2> QED BY <1>2, <2>1, <2>3, <2>4
<1> HIDE DEF P
<1>3. k \in P
  BY <1>1, <1>2, UpTo
<1> QED BY <1>3 DEF P

LEMMA SumTimes ==
  ASSUME NEW k \in Nat, NEW c \in Int, NEW a, NEW b, Terms(a, k), \A i \in 0..(k - 1) : b[i] = c * a[i]
  PROVE  SumTo(b, k) = c * SumTo(a, k)
<1>0. Terms(b, k)
  BY DEF Terms
<1> DEFINE P == {i \in 0..k : SumTo(b, i) = c * SumTo(a, i)}
<1>1. 0 \in P
  BY SumNone
<1>2. ASSUME NEW i \in Nat, i < k, i \in P
      PROVE  i + 1 \in P
  <2>1. i + 1 \in 0..k /\ i \in 0..(k - 1)
    BY <1>2
  <2>2. Terms(a, i + 1) /\ Terms(b, i + 1)
    BY <1>0, <2>1, TermsBelow
  <2>3. /\ SumTo(a, i + 1) = SumTo(a, i) + a[i] /\ SumTo(a, i) \in Int /\ a[i] \in Int
        /\ SumTo(b, i + 1) = SumTo(b, i) + b[i] /\ SumTo(b, i) \in Int /\ b[i] \in Int
    BY <2>2, SumNext
  <2>4. b[i] = c * a[i] /\ SumTo(b, i) = c * SumTo(a, i)
    BY <1>2, <2>1
  <2>5. c * (SumTo(a, i) + a[i]) = c * SumTo(a, i) + c * a[i]
    BY <2>3, TimesSum
  <2> QED BY <2>1, <2>3, <2>4, <2>5
<1> HIDE DEF P
<1>3. k \in P
  BY <1>1, <1>2, UpTo
<1> QED BY <1>3 DEF P

LEMMA SumPlus ==
  ASSUME NEW k \in Nat, NEW a, NEW b, NEW c, Terms(a, k), Terms(b, k),
         \A i \in 0..(k - 1) : c[i] = a[i] + b[i]
  PROVE  SumTo(c, k) = SumTo(a, k) + SumTo(b, k)
<1>0. Terms(c, k)
  BY DEF Terms
<1> DEFINE P == {i \in 0..k : SumTo(c, i) = SumTo(a, i) + SumTo(b, i)}
<1>1. 0 \in P
  BY SumNone
<1>2. ASSUME NEW i \in Nat, i < k, i \in P
      PROVE  i + 1 \in P
  <2>1. i + 1 \in 0..k /\ i \in 0..(k - 1)
    BY <1>2
  <2>2. Terms(a, i + 1) /\ Terms(b, i + 1) /\ Terms(c, i + 1)
    BY <1>0, <2>1, TermsBelow
  <2>3. /\ SumTo(a, i + 1) = SumTo(a, i) + a[i] /\ SumTo(a, i) \in Int /\ a[i] \in Int
        /\ SumTo(b, i + 1) = SumTo(b, i) + b[i] /\ SumTo(b, i) \in Int /\ b[i] \in Int
        /\ SumTo(c, i + 1) = SumTo(c, i) + c[i] /\ SumTo(c, i) \in Int /\ c[i] \in Int
    BY <2>2, SumNext
  <2>4. c[i] = a[i] + b[i] /\ SumTo(c, i) = SumTo(a, i) + SumTo(b, i)
    BY <1>2, <2>1
  <2> QED BY <2>1, <2>3, <2>4
<1> HIDE DEF P
<1>3. k \in P
  BY <1>1, <1>2, UpTo
<1> QED BY <1>3 DEF P

-----------------------------------------------------------------------------
(* Limbs and windows. *)

LEMMA BaseIs ==
  /\ H \in Nat /\ H >= 1
  /\ Half \in Nat /\ Half >= 2 /\ Half = 2 * Two(H - 1) /\ Two(H - 1) \in Nat
  /\ Base \in Nat /\ Base >= 4 /\ Base = Half * Half /\ Base = Two(2 * H)
  /\ Base = 2 * Two(2 * H - 1) /\ Two(2 * H - 1) \in Nat
  /\ Limb = 0..(Base - 1)
<1>1. H \in Nat /\ H >= 1
  BY HAssumption
<1>2. H - 1 \in Nat /\ (H - 1) + 1 = H /\ 2 * H = H + H /\ 2 * H - 1 \in Nat /\ (2 * H - 1) + 1 = 2 * H
  BY <1>1
<1>3. Half = 2 * Two(H - 1) /\ Two(H - 1) \in Nat /\ Two(H - 1) >= 1
  BY <1>2, TwoIs DEF Half
<1>4. Base = Half * Half
  BY DEF Base
<1>5. Base = Two(2 * H)
  <2>1. Two(H + H) = Two(H) * Two(H)
    BY <1>1, TwoSum
  <2> QED BY <1>2, <1>4, <2>1 DEF Half
<1>6. Two(2 * H - 1) \in Nat /\ Base = 2 * Two(2 * H - 1)
  BY <1>2, <1>5, TwoIs
<1>7. Half * Half >= 4 /\ Half * Half \in Nat
  <2> DEFINE t == Two(H - 1)
  <2>1. t \in Nat /\ t >= 1 /\ Half = 2 * t
    BY <1>3
  <2> HIDE DEF t
  <2>2. t * t >= 1 /\ t * t \in Nat
    <3>1. PICK u \in Nat : t = u + 1
      <4>1. t - 1 \in Nat /\ t = (t - 1) + 1
        BY <2>1
      <4> QED BY <4>1
    <3>2. t * t = u * u + u + u + 1 /\ u * u \in Nat
      BY <3>1
    <3> QED BY <3>1, <3>2
  <2>3. Half * Half = 4 * (t * t)
    BY <2>1
  <2> QED BY <2>2, <2>3
<1>8. Limb = 0..(Base - 1)
  BY DEF Limb
<1>9. Base \in Nat /\ Base >= 4
  BY <1>4, <1>7, Zenon
<1>10. Half \in Nat /\ Half >= 2 /\ 2 * H \in Nat
  <2> DEFINE t == Two(H - 1)
  <2>1. t \in Nat /\ t >= 1 /\ Half = 2 * t
    BY <1>3
  <2> HIDE DEF t
  <2> QED BY <1>1, <2>1
<1> QED BY <1>1, <1>2, <1>3, <1>4, <1>5, <1>6, <1>8, <1>9, <1>10, Zenon

LEMMA LimbIs == \A x : x \in Limb <=> x \in Int /\ 0 <= x /\ x < Base
<1>1. Base \in Nat
  BY BaseIs
<1> QED BY <1>1 DEF Limb

LEMMA BitsIs ==
  \A i \in Nat : /\ Bits(i) \in Nat /\ Two(Bits(i)) \in Nat /\ Two(Bits(i)) >= 1
                 /\ Two(Bits(i + 1)) = Base * Two(Bits(i)) /\ Bits(0) = 0
<1> SUFFICES ASSUME NEW i \in Nat
             PROVE  /\ Bits(i) \in Nat /\ Two(Bits(i)) \in Nat /\ Two(Bits(i)) >= 1
                    /\ Two(Bits(i + 1)) = Base * Two(Bits(i)) /\ Bits(0) = 0
  OBVIOUS
<1> DEFINE w == 2 * H
<1>1. w \in Nat
  BY BaseIs
<1>2. Bits(i) = w * i /\ Bits(i + 1) = w * (i + 1) /\ Bits(0) = w * 0
  BY DEF Bits
<1>3. Base = Two(w)
  BY BaseIs
<1> HIDE DEF w
<1>4. w * i \in Nat /\ w * (i + 1) = w + w * i /\ w * 0 = 0
  BY <1>1
<1>5. Two(w + w * i) = Two(w) * Two(w * i)
  BY <1>1, <1>4, TwoSum
<1> QED BY <1>2, <1>3, <1>4, <1>5, TwoIs

\* A window of k limbs at p
Window(m, p, k) == \A i \in 0..(k - 1) : m[p + i] \in Limb
Weighed(m, p) == [i \in Nat |-> Two(Bits(i)) * m[p + i]]

LEMMA WeighedTerms ==
  ASSUME NEW m, NEW p, NEW k \in Nat, Window(m, p, k)
  PROVE  Terms(Weighed(m, p), k)
<1>1. ASSUME NEW i \in 0..(k - 1)
      PROVE  Weighed(m, p)[i] \in Int
  <2>1. i \in Nat /\ m[p + i] \in Int
    <3>1. m[p + i] \in Limb
      BY DEF Window
    <3> QED BY <3>1, LimbIs
  <2>2. Two(Bits(i)) \in Int
    BY <2>1, BitsIs
  <2> QED BY <2>1, <2>2 DEF Weighed
<1> QED BY <1>1 DEF Terms

LEMMA ValueIs ==
  ASSUME NEW m, NEW p, NEW k \in Nat, Window(m, p, k)
  PROVE  Value(m, p, k) = SumTo(Weighed(m, p), k) /\ Value(m, p, k) \in Int
<1> DEFINE a == Weighed(m, p)
           b == [i \in 0..(k - 1) |-> Two(Bits(i)) * m[p + i]]
<1>1. \A i \in 0..(k - 1) : a[i] = b[i]
  BY DEF Weighed
<1>2. Terms(a, k)
  BY WeighedTerms
<1>3. Value(m, p, k) = SumTo(b, k)
  BY DEF Value
<1> HIDE DEF a, b
<1>4. SumTo(a, k) = SumTo(b, k) /\ SumTo(a, k) \in Int
  BY <1>1, <1>2, SumSame, Zenon
<1> QED BY <1>3, <1>4 DEF a

LEMMA ValueNone == ASSUME NEW m, NEW p PROVE Value(m, p, 0) = 0
<1>1. Window(m, p, 0)
  BY DEF Window
<1> QED BY <1>1, ValueIs, SumNone

LEMMA ValueNext ==
  ASSUME NEW m, NEW p, NEW k \in Nat, Window(m, p, k + 1)
  PROVE  /\ Window(m, p, k)
         /\ Value(m, p, k + 1) = Value(m, p, k) + Two(Bits(k)) * m[p + k]
         /\ m[p + k] \in Limb /\ Value(m, p, k) \in Int
<1>1. Window(m, p, k) /\ m[p + k] \in Limb
  BY DEF Window
<1>2. Value(m, p, k + 1) = SumTo(Weighed(m, p), k + 1)
  BY ValueIs
<1>3. Value(m, p, k) = SumTo(Weighed(m, p), k) /\ Value(m, p, k) \in Int
  BY <1>1, ValueIs
<1>4. Terms(Weighed(m, p), k + 1)
  BY WeighedTerms
<1>5. SumTo(Weighed(m, p), k + 1) = SumTo(Weighed(m, p), k) + Weighed(m, p)[k]
  BY <1>4, SumNext
<1>6. Weighed(m, p)[k] = Two(Bits(k)) * m[p + k]
  BY DEF Weighed
<1> QED BY <1>1, <1>2, <1>3, <1>5, <1>6

LEMMA WindowBelow ==
  ASSUME NEW m, NEW p, NEW k \in Nat, Window(m, p, k), NEW i \in 0..k
  PROVE  Window(m, p, i)
BY DEF Window

\* One more limb of weight w above a number below w: no more than the base times w
LEMMA PlaceBound ==
  ASSUME NEW w \in Nat, w >= 1, NEW v \in Nat, v < w, NEW x \in Limb
  PROVE  v + w * x < Base * w /\ v + w * x >= 0 /\ w * x \in Nat /\ Base * w \in Nat
<1>1. x \in Nat /\ x <= Base - 1 /\ Base \in Nat
  BY LimbIs, BaseIs
<1>2. PICK y \in Nat : Base = x + 1 + y
  <2>1. Base - 1 - x \in Nat /\ Base = x + 1 + (Base - 1 - x)
    BY <1>1
  <2> QED BY <2>1
<1>3. Base * w = w * x + w + w * y /\ w * y \in Nat /\ w * x \in Nat
  BY <1>1, <1>2
<1> QED BY <1>3

LEMMA ValueRange ==
  ASSUME NEW m, NEW p, NEW k \in Nat, Window(m, p, k)
  PROVE  Value(m, p, k) \in Nat /\ Value(m, p, k) < Two(Bits(k))
<1> DEFINE P == {i \in 0..k : Value(m, p, i) \in Nat /\ Value(m, p, i) < Two(Bits(i))}
<1>1. 0 \in P
  BY ValueNone, BitsIs
<1>2. ASSUME NEW i \in Nat, i < k, i \in P
      PROVE  i + 1 \in P
  <2>1. i + 1 \in 0..k
    BY <1>2
  <2>2. Window(m, p, i + 1)
    BY <2>1, WindowBelow
  <2>3. Value(m, p, i + 1) = Value(m, p, i) + Two(Bits(i)) * m[p + i] /\ m[p + i] \in Limb
    BY <2>2, ValueNext
  <2> DEFINE w == Two(Bits(i))
             v == Value(m, p, i)
             x == m[p + i]
  <2>4. w \in Nat /\ w >= 1 /\ v \in Nat /\ v < w /\ x \in Limb
    BY <1>2, <2>3, BitsIs
  <2>5. Two(Bits(i + 1)) = Base * w /\ Value(m, p, i + 1) = v + w * x
    BY <2>3, BitsIs
  <2> HIDE DEF w, v, x
  <2>6. v + w * x < Base * w /\ v + w * x >= 0 /\ w * x \in Nat
    BY <2>4, PlaceBound
  <2>7. v + w * x \in Nat
    BY <2>4, <2>6
  <2> QED BY <2>1, <2>5, <2>6, <2>7
<1> HIDE DEF P
<1>3. k \in P
  BY <1>1, <1>2, UpTo
<1> QED BY <1>3 DEF P

-----------------------------------------------------------------------------
(* Comparisons. *)

LEMMA AllEqual ==
  ASSUME NEW m, NEW p, NEW q, NEW k \in Nat, Window(m, p, k), Window(m, q, k),
         \A i \in 0..(k - 1) : m[p + i] = m[q + i]
  PROVE  Value(m, p, k) = Value(m, q, k)
<1> DEFINE a == Weighed(m, p)
           b == Weighed(m, q)
<1>1. \A i \in 0..(k - 1) : a[i] = b[i]
  BY DEF Weighed
<1>2. Terms(a, k)
  BY WeighedTerms
<1>3. Value(m, p, k) = SumTo(a, k) /\ Value(m, q, k) = SumTo(b, k)
  BY ValueIs
<1> HIDE DEF a, b
<1>4. SumTo(a, k) = SumTo(b, k)
  BY <1>1, <1>2, SumSame, Zenon
<1> QED BY <1>3, <1>4

LEMMA NoneLarger ==
  ASSUME NEW m, NEW p, NEW q, NEW k \in Nat, Window(m, p, k), Window(m, q, k),
         \A i \in 0..(k - 1) : m[p + i] <= m[q + i]
  PROVE  Value(m, p, k) <= Value(m, q, k)
<1> DEFINE a == Weighed(m, p)
           b == Weighed(m, q)
<1>1. ASSUME NEW i \in 0..(k - 1)
      PROVE  a[i] <= b[i]
  <2> DEFINE w == Two(Bits(i))
             x == m[p + i]
             y == m[q + i]
  <2>1. x \in Limb /\ y \in Limb /\ x <= y
    BY DEF Window
  <2>2. i \in Nat /\ w \in Nat
    BY BitsIs
  <2>3. a[i] = w * x /\ b[i] = w * y
    BY <2>2 DEF Weighed
  <2>4. x \in Nat /\ y \in Nat
    BY <2>1, LimbIs
  <2> HIDE DEF w, x, y, a, b
  <2>5. PICK d \in Nat : y = x + d
    <3>1. y - x \in Nat /\ y = x + (y - x)
      BY <2>1, <2>4
    <3> QED BY <3>1
  <2>6. w * y = w * x + w * d /\ w * d \in Nat /\ w * x \in Nat
    BY <2>2, <2>4, <2>5
  <2> QED BY <2>3, <2>6
<1>2. Terms(a, k) /\ Terms(b, k)
  BY WeighedTerms
<1>3. Value(m, p, k) = SumTo(a, k) /\ Value(m, q, k) = SumTo(b, k)
  BY ValueIs
<1> HIDE DEF a, b
<1>4. SumTo(a, k) <= SumTo(b, k)
  BY <1>1, <1>2, SumAtMost, Zenon
<1> QED BY <1>3, <1>4

\* The highest limb that differs decides.
LEMMA HighestDecides ==
  ASSUME NEW m, NEW p, NEW q, NEW k \in Nat, Window(m, p, k), Window(m, q, k),
         NEW i \in 0..(k - 1), m[p + i] > m[q + i],
         \A j \in (i + 1)..(k - 1) : m[p + j] = m[q + j]
  PROVE  Value(m, p, k) > Value(m, q, k)
<1> DEFINE P == {j \in 0..k : j > i => Value(m, p, j) > Value(m, q, j)}
<1>1. 0 \in P
  OBVIOUS
<1>2. ASSUME NEW j \in Nat, j < k, j \in P
      PROVE  j + 1 \in P
  <2>1. j + 1 \in 0..k /\ j \in 0..k
    BY <1>2
  <2>2. Window(m, p, j + 1) /\ Window(m, q, j + 1) /\ Window(m, p, j) /\ Window(m, q, j)
    BY <2>1, WindowBelow
  <2> DEFINE w == Two(Bits(j))
             x == m[p + j]
             y == m[q + j]
             v == Value(m, p, j)
             u == Value(m, q, j)
  <2>3. Value(m, p, j + 1) = v + w * x /\ Value(m, q, j + 1) = u + w * y /\ x \in Limb /\ y \in Limb
    BY <2>2, ValueNext
  <2>4. v \in Nat /\ u \in Nat /\ u < w /\ w \in Nat
    BY <2>2, ValueRange, BitsIs
  <2>5. x \in Nat /\ y \in Nat
    BY <2>3, LimbIs
  <2>6. CASE j = i
    <3>1. x > y
      BY <2>6
    <3> HIDE DEF w, x, y, v, u
    <3>2. PICK d \in Nat : x = y + 1 + d
      <4>1. x - y - 1 \in Nat /\ x = y + 1 + (x - y - 1)
        BY <2>5, <3>1
      <4> QED BY <4>1
    <3>3. w * x = w * y + w + w * d /\ w * d \in Nat /\ w * y \in Nat
      BY <2>4, <2>5, <3>2
    <3>4. v + w * x > u + w * y
      BY <2>4, <3>3
    <3> QED BY <2>1, <2>3, <3>4
  <2>7. CASE j > i
    <3>1. j \in (i + 1)..(k - 1)
      BY <1>2, <2>7
    <3>2. x = y /\ v > u
      BY <1>2, <2>7, <3>1
    <3> HIDE DEF w, x, y, v, u
    <3>3. w * x \in Nat /\ w * y = w * x
      BY <2>4, <2>5, <3>2
    <3>4. v + w * x > u + w * y
      BY <2>4, <3>2, <3>3
    <3> QED BY <2>1, <2>3, <3>4
  <2>8. CASE j < i
    <3>1. ~(j + 1 > i)
      BY <2>8
    <3> QED BY <2>1, <3>1
  <2> QED BY <2>6, <2>7, <2>8
<1> HIDE DEF P
<1>3. k \in P
  BY <1>1, <1>2, UpTo
<1>4. k > i
  OBVIOUS
<1> QED BY <1>3, <1>4 DEF P

LEMMA NatGreatest ==
  ASSUME NEW k \in Nat, NEW T \in SUBSET (0..k), T # {}
  PROVE  \E x \in T : \A y \in T : y <= x
<1> DEFINE U == {j \in 0..k : k - j \in T}
<1>1. U \in SUBSET Nat /\ U # {}
  <2>1. PICK x : x \in T
    OBVIOUS
  <2>2. x \in 0..k /\ k - x \in 0..k /\ k - (k - x) = x
    BY <2>1
  <2>3. k - x \in U
    BY <2>1, <2>2
  <2> QED BY <2>3
<1>2. PICK z \in U : \A y \in U : z <= y
  <2> HIDE DEF U
  <2> QED BY <1>1, NatLeast
<1>3. k - z \in T /\ z \in 0..k
  BY <1>2
<1>4. ASSUME NEW y \in T PROVE y <= k - z
  <2>1. y \in 0..k /\ k - y \in 0..k /\ k - (k - y) = y
    OBVIOUS
  <2>2. k - y \in U
    BY <2>1
  <2>3. z <= k - y
    BY <1>2, <2>2
  <2> QED BY <1>3, <2>1, <2>3
<1> QED BY <1>3, <1>4

LEMMA DecisiveIs ==
  ASSUME NEW m, NEW p, NEW q, NEW k \in Nat, k >= 1
  PROVE  /\ Decisive(m, p, q, k) \in 0..(k - 1)
         /\ \A j \in (Decisive(m, p, q, k) + 1)..(k - 1) : m[p + j] = m[q + j]
         /\ m[p + Decisive(m, p, q, k)] = m[q + Decisive(m, p, q, k)] =>
              \A j \in 0..(k - 1) : m[p + j] = m[q + j]
<1> DEFINE diff == {i \in 0..(k - 1) : m[p + i] # m[q + i]}
           i == Decisive(m, p, q, k)
<1>1. i = IF diff = {} THEN 0 ELSE CHOOSE x \in diff : \A y \in diff : y <= x
  BY DEF Decisive
<1>2. CASE diff = {}
  <2>1. i = 0
    BY <1>1, <1>2
  <2>2. \A j \in 0..(k - 1) : m[p + j] = m[q + j]
    BY <1>2
  <2>3. \A j \in (0 + 1)..(k - 1) : j \in 0..(k - 1)
    OBVIOUS
  <2> HIDE DEF i
  <2>4. i \in 0..(k - 1)
    BY <2>1
  <2>5. \A j \in (i + 1)..(k - 1) : m[p + j] = m[q + j]
    BY <2>1, <2>2, <2>3
  <2> QED BY <2>2, <2>4, <2>5 DEF i
<1>3. CASE diff # {}
  <2>1. \E x \in diff : \A y \in diff : y <= x
    <3>1. diff \in SUBSET (0..(k - 1)) /\ k - 1 \in Nat
      OBVIOUS
    <3> HIDE DEF diff
    <3> QED BY <1>3, <3>1, NatGreatest
  <2>2. i \in diff /\ \A y \in diff : y <= i
    <3>1. i = CHOOSE x \in diff : \A y \in diff : y <= x
      BY <1>1, <1>3
    <3> HIDE DEF diff, i
    <3> QED BY <2>1, <3>1, Zenon
  <2> HIDE DEF i
  <2>3. i \in 0..(k - 1) /\ m[p + i] # m[q + i]
    BY <2>2
  <2>4. ASSUME NEW j \in (i + 1)..(k - 1)
        PROVE  m[p + j] = m[q + j]
    <3>1. j \in 0..(k - 1) /\ ~(j <= i)
      BY <2>3
    <3> QED BY <2>2, <3>1
  <2> QED BY <2>3, <2>4 DEF i
<1> QED BY <1>2, <1>3

LEMMA ComparesRight ==
  ASSUME NEW m, NEW p, NEW q, NEW k \in Nat, k >= 1, Window(m, p, k), Window(m, q, k)
  PROVE  /\ gt(m, p, q, k) <=> Value(m, p, k) > Value(m, q, k)
         /\ gte(m, p, q, k) <=> Value(m, p, k) >= Value(m, q, k)
         /\ lt(m, p, q, k) <=> Value(m, p, k) < Value(m, q, k)
         /\ lte(m, p, q, k) <=> Value(m, p, k) <= Value(m, q, k)
         /\ eq(m, p, q, k) <=> Value(m, p, k) = Value(m, q, k)
<1> DEFINE i == Decisive(m, p, q, k)
           a == m[p + i]
           b == m[q + i]
           x == Value(m, p, k)
           y == Value(m, q, k)
<1>1. /\ i \in 0..(k - 1)
      /\ \A j \in (i + 1)..(k - 1) : m[p + j] = m[q + j]
      /\ a = b => \A j \in 0..(k - 1) : m[p + j] = m[q + j]
  BY DecisiveIs
<1>2. x \in Nat /\ y \in Nat
  BY ValueRange
<1>3. a \in Nat /\ b \in Nat
  <2>1. a \in Limb /\ b \in Limb
    <3> HIDE DEF i
    <3> QED BY <1>1 DEF Window
  <2> QED BY <2>1, LimbIs
<1>4. a > b => x > y
  <2> HIDE DEF i
  <2> QED BY <1>1, HighestDecides
<1>5. b > a => y > x
  <2>1. \A j \in (i + 1)..(k - 1) : m[q + j] = m[p + j]
    BY <1>1
  <2> HIDE DEF i
  <2> QED BY <1>1, <2>1, HighestDecides
<1>6. a = b => x = y /\ eq(m, p, q, k)
  <2>1. a = b => x = y
    BY <1>1, AllEqual
  <2> QED BY <1>1, <2>1 DEF eq
<1>7. eq(m, p, q, k) => a = b
  <2> HIDE DEF i
  <2> QED BY <1>1 DEF eq
<1>8. /\ gt(m, p, q, k) <=> a > b
      /\ gte(m, p, q, k) <=> a >= b
      /\ lt(m, p, q, k) <=> a < b
      /\ lte(m, p, q, k) <=> a <= b
  BY DEF gt, gte, lt, lte
<1> HIDE DEF a, b, x, y
<1>9. /\ gt(m, p, q, k) <=> x > y
      /\ gte(m, p, q, k) <=> x >= y
      /\ lt(m, p, q, k) <=> x < y
      /\ lte(m, p, q, k) <=> x <= y
      /\ eq(m, p, q, k) <=> x = y
  BY <1>2, <1>3, <1>4, <1>5, <1>6, <1>7, <1>8
<1> QED BY <1>9 DEF x, y

\* The sign of a window is that of its number: half the range or more.
LEMMA SignIs ==
  ASSUME NEW m, NEW p, NEW k \in Nat, k >= 1, Window(m, p, k)
  PROVE  /\ negative(m, p, k) <=> Value(m, p, k) >= Two(Bits(k) - 1)
         /\ Two(Bits(k)) = 2 * Two(Bits(k) - 1) /\ Two(Bits(k) - 1) \in Nat
<1> DEFINE h == k - 1
           w == Two(Bits(h))
           v == Value(m, p, h)
           top == m[p + h]
           c == Two(2 * H - 1)
<1>1. h \in Nat /\ h + 1 = k
  OBVIOUS
<1>2. Value(m, p, k) = v + w * top /\ top \in Limb /\ Window(m, p, h)
  <2> HIDE DEF h
  <2> QED BY <1>1, ValueNext
<1>3. v \in Nat /\ v < w /\ w \in Nat /\ w >= 1
  <2> HIDE DEF h
  <2> QED BY <1>1, <1>2, ValueRange, BitsIs
<1>4. c \in Nat /\ Base = 2 * c
  BY BaseIs
<1>5. Base \div 2 = c
  <2> HIDE DEF c
  <2> QED BY <1>4
<1>6. negative(m, p, k) <=> top >= c
  <2>1. negative(m, p, k) <=> m[p + k - 1] >= Base \div 2
    BY DEF negative
  <2>2. p + k - 1 = p + (k - 1)
    OBVIOUS
  <2> QED BY <1>5, <2>1, <2>2
<1>7. Two(Bits(k)) = Base * w /\ Two(Bits(k) - 1) = c * w
  <2>1. Two(Bits(k)) = Base * w
    <3> HIDE DEF h
    <3> QED BY <1>1, BitsIs
  <2>2. Bits(k) - 1 = (2 * H - 1) + Bits(h) /\ 2 * H - 1 \in Nat /\ Bits(h) \in Nat
    <3> DEFINE u == 2 * H
    <3>1. u \in Nat /\ u >= 2
      BY BaseIs
    <3>2. Bits(k) = u * k /\ Bits(h) = u * h
      BY DEF Bits
    <3> HIDE DEF u, h
    <3>3. u * k = u * h + u /\ u * h \in Nat
      BY <1>1, <3>1
    <3> QED BY <3>1, <3>2, <3>3 DEF u
  <2>3. Two((2 * H - 1) + Bits(h)) = Two(2 * H - 1) * Two(Bits(h))
    BY <2>2, TwoSum
  <2> QED BY <2>1, <2>2, <2>3
<1>8. top \in Nat /\ top < 2 * c
  BY <1>2, <1>4, LimbIs
<1> HIDE DEF w, v, top, c, h
<1>9. c * w \in Nat /\ Base * w = 2 * (c * w)
  BY <1>3, <1>4
<1>10. top >= c => v + w * top >= c * w
  <2>1. SUFFICES ASSUME top >= c PROVE v + w * top >= c * w
    OBVIOUS
  <2>2. PICK d \in Nat : top = c + d
    <3>1. top - c \in Nat /\ top = c + (top - c)
      BY <1>4, <1>8, <2>1
    <3> QED BY <3>1
  <2>3. w * top = c * w + w * d /\ w * d \in Nat
    BY <1>3, <1>4, <2>2
  <2> QED BY <1>3, <1>9, <2>3
<1>11. top < c => v + w * top < c * w
  <2>1. SUFFICES ASSUME top < c PROVE v + w * top < c * w
    OBVIOUS
  <2>2. PICK d \in Nat : c = top + 1 + d
    <3>1. c - top - 1 \in Nat /\ c = top + 1 + (c - top - 1)
      BY <1>4, <1>8, <2>1
    <3> QED BY <3>1
  <2>3. c * w = w * top + w + w * d /\ w * d \in Nat /\ w * top \in Nat
    BY <1>3, <1>8, <2>2
  <2> QED BY <1>3, <2>3
<1>12. w * top \in Nat
  BY <1>3, <1>8
<1> QED BY <1>2, <1>3, <1>4, <1>6, <1>7, <1>8, <1>9, <1>10, <1>11, <1>12

LEMMA SignedRight ==
  ASSUME NEW m, NEW p, NEW q, NEW k \in Nat, k >= 1, Window(m, p, k), Window(m, q, k)
  PROVE  /\ signedGt(m, p, q, k) <=> AsSigned(Value(m, p, k), k) > AsSigned(Value(m, q, k), k)
         /\ signedLt(m, p, q, k) <=> AsSigned(Value(m, p, k), k) < AsSigned(Value(m, q, k), k)
<1> DEFINE x == Value(m, p, k)
           y == Value(m, q, k)
           c == Two(Bits(k) - 1)
           r == Two(Bits(k))
           np == negative(m, p, k)
           nq == negative(m, q, k)
<1>1. x \in Nat /\ x < r /\ y \in Nat /\ y < r
  BY ValueRange
<1>2. (np <=> x >= c) /\ (nq <=> y >= c) /\ r = 2 * c /\ c \in Nat
  BY SignIs
<1>3. AsSigned(x, k) = (IF x >= c THEN x - r ELSE x) /\ AsSigned(y, k) = (IF y >= c THEN y - r ELSE y)
  BY DEF AsSigned
<1>4. (gt(m, p, q, k) <=> x > y) /\ (lt(m, p, q, k) <=> x < y)
  BY ComparesRight
<1>5. (signedGt(m, p, q, k) <=> IF np # nq THEN nq ELSE gt(m, p, q, k))
  BY Zenon DEF signedGt
<1>6. (signedLt(m, p, q, k) <=> IF np # nq THEN np ELSE lt(m, p, q, k))
  BY Zenon DEF signedLt
<1>7. np \in BOOLEAN /\ nq \in BOOLEAN
  BY DEF negative
<1> HIDE DEF x, y, c, r, np, nq
<1>8. signedGt(m, p, q, k) <=> AsSigned(x, k) > AsSigned(y, k)
  <2>1. CASE np /\ nq
    BY <1>1, <1>2, <1>3, <1>4, <1>5, <2>1
  <2>2. CASE ~np /\ ~nq
    BY <1>1, <1>2, <1>3, <1>4, <1>5, <1>7, <2>2
  <2>3. CASE np /\ ~nq
    <3>1. signedGt(m, p, q, k) <=> nq
      BY <1>5, <1>7, <2>3, Zenon
    <3> QED BY <1>1, <1>2, <1>3, <2>3, <3>1
  <2>4. CASE ~np /\ nq
    <3>1. signedGt(m, p, q, k) <=> nq
      BY <1>5, <1>7, <2>4, Zenon
    <3> QED BY <1>1, <1>2, <1>3, <2>4, <3>1
  <2> QED BY <2>1, <2>2, <2>3, <2>4
<1>9. signedLt(m, p, q, k) <=> AsSigned(x, k) < AsSigned(y, k)
  <2>1. CASE np /\ nq
    BY <1>1, <1>2, <1>3, <1>4, <1>6, <2>1
  <2>2. CASE ~np /\ ~nq
    BY <1>1, <1>2, <1>3, <1>4, <1>6, <1>7, <2>2
  <2>3. CASE np /\ ~nq
    <3>1. signedLt(m, p, q, k) <=> np
      BY <1>6, <1>7, <2>3, Zenon
    <3> QED BY <1>1, <1>2, <1>3, <2>3, <3>1
  <2>4. CASE ~np /\ nq
    <3>1. signedLt(m, p, q, k) <=> np
      BY <1>6, <1>7, <2>4, Zenon
    <3> QED BY <1>1, <1>2, <1>3, <2>4, <3>1
  <2> QED BY <2>1, <2>2, <2>3, <2>4
<1> QED BY <1>8, <1>9 DEF x, y

-----------------------------------------------------------------------------
(* Half limbs. *)

LEMMA HalfOfLimb ==
  ASSUME NEW x \in Limb
  PROVE  /\ x % Half \in 0..(Half - 1) /\ x \div Half \in 0..(Half - 1)
         /\ x = (x % Half) + Half * (x \div Half)
<1> DEFINE h == Half
           d == x \div h
           r == x % h
<1>1. h \in Nat /\ h >= 2 /\ Base = h * h
  BY BaseIs
<1>2. x \in Nat /\ x < h * h
  BY <1>1, LimbIs
<1> HIDE DEF h
<1>3. d \in Nat /\ r \in 0..(h - 1) /\ x = d * h + r
  BY <1>1, <1>2, DivOf
<1> HIDE DEF d, r
<1>4. d < h
  <2>1. SUFFICES ASSUME d >= h PROVE FALSE
    BY <1>1, <1>3
  <2>2. PICK e \in Nat : d = h + e
    <3>1. d - h \in Nat /\ d = h + (d - h)
      BY <1>1, <1>3, <2>1
    <3> QED BY <3>1
  <2>3. d * h = h * h + e * h /\ e * h \in Nat
    BY <1>1, <2>2
  <2>4. h * h \in Nat /\ r \in Nat
    BY <1>1, <1>3
  <2> QED BY <1>2, <1>3, <2>3, <2>4
<1>5. d * h = h * d /\ h * d \in Nat
  BY <1>1, <1>3
<1>6. d \in 0..(h - 1) /\ r \in 0..(h - 1) /\ x = r + h * d
  BY <1>1, <1>3, <1>4, <1>5
<1> QED BY <1>6 DEF h, d, r

LEMMA EvenOdd ==
  ASSUME NEW i \in Nat
  PROVE  /\ (2 * i) % 2 = 0 /\ (2 * i) \div 2 = i
         /\ (2 * i + 1) % 2 = 1 /\ (2 * i + 1) \div 2 = i
OBVIOUS

LEMMA HalvesAt ==
  ASSUME NEW m, NEW p, NEW i \in Nat
  PROVE  /\ HalfOf(m, p, 2 * i) = m[p + i] % Half
         /\ HalfOf(m, p, 2 * i + 1) = m[p + i] \div Half
<1>1. (2 * i) % 2 = 0 /\ (2 * i) \div 2 = i /\ (2 * i + 1) % 2 = 1 /\ (2 * i + 1) \div 2 = i
  BY EvenOdd
<1>2. HalfOf(m, p, 2 * i) = IF (2 * i) % 2 = 0 THEN m[p + ((2 * i) \div 2)] % Half
                            ELSE m[p + ((2 * i) \div 2)] \div Half
  BY DEF HalfOf
<1>3. HalfOf(m, p, 2 * i + 1) = IF (2 * i + 1) % 2 = 0 THEN m[p + ((2 * i + 1) \div 2)] % Half
                                ELSE m[p + ((2 * i + 1) \div 2)] \div Half
  BY DEF HalfOf
<1>4. 1 # 0
  OBVIOUS
<1> QED BY <1>1, <1>2, <1>3, <1>4, Zenon

\* None of p's half limbs is larger: neither is the number.
LEMMA ConstantTime ==
  ASSUME NEW m, NEW p, NEW q, NEW k \in Nat, Window(m, p, k), Window(m, q, k), ctNone(m, p, q, k)
  PROVE  Value(m, p, k) <= Value(m, q, k)
<1>1. ASSUME NEW i \in 0..(k - 1)
      PROVE  m[p + i] <= m[q + i]
  <2> DEFINE x == m[p + i]
             y == m[q + i]
  <2>1. i \in Nat /\ 2 * i \in 0..(2 * k - 1) /\ 2 * i + 1 \in 0..(2 * k - 1)
    OBVIOUS
  <2>2. HalfOf(m, p, 2 * i) - HalfOf(m, q, 2 * i) - 1 < 0
    BY <2>1 DEF ctNone
  <2>3. HalfOf(m, p, 2 * i + 1) - HalfOf(m, q, 2 * i + 1) - 1 < 0
    BY <2>1 DEF ctNone
  <2>4. /\ HalfOf(m, p, 2 * i) = x % Half /\ HalfOf(m, p, 2 * i + 1) = x \div Half
        /\ HalfOf(m, q, 2 * i) = y % Half /\ HalfOf(m, q, 2 * i + 1) = y \div Half
    BY <2>1, HalvesAt
  <2>5. x \in Limb /\ y \in Limb
    BY DEF Window
  <2> DEFINE a == x % Half
             b == x \div Half
             c == y % Half
             d == y \div Half
  <2>6. /\ a \in 0..(Half - 1) /\ b \in 0..(Half - 1) /\ x = a + Half * b
        /\ c \in 0..(Half - 1) /\ d \in 0..(Half - 1) /\ y = c + Half * d
    BY <2>5, HalfOfLimb
  <2>7. a - c - 1 < 0 /\ b - d - 1 < 0
    BY <2>2, <2>3, <2>4
  <2>8. Half \in Nat
    BY BaseIs
  <2> HIDE DEF a, b, c, d, x, y
  <2>9. PICK e \in Nat : d = b + e
    <3>1. d - b \in Nat /\ d = b + (d - b)
      BY <2>6, <2>7
    <3> QED BY <3>1
  <2>10. Half * d = Half * b + Half * e /\ Half * e \in Nat /\ Half * b \in Nat
    BY <2>6, <2>8, <2>9
  <2> QED BY <2>6, <2>7, <2>10 DEF x, y
<1> QED BY <1>1, NoneLarger

-----------------------------------------------------------------------------
(* Bits. *)

LEMMA BitIs ==
  ASSUME NEW x \in Nat, NEW i \in Nat
  PROVE  BitOf(x, i) \in 0..1
<1>1. Two(i) \in Nat /\ Two(i) >= 1
  BY TwoIs
<1>2. x \div Two(i) \in Nat
  BY <1>1, DivOf
<1> QED BY <1>2 DEF BitOf

\* The i-th bit is what a number below 2^(i + 1) has more than one below 2^i.
LEMMA NextBit ==
  ASSUME NEW x \in Nat, NEW i \in Nat
  PROVE  x % Two(i + 1) = (x % Two(i)) + Two(i) * BitOf(x, i)
<1> DEFINE t == Two(i)
           q == x \div t
           r == x % t
           b == q % 2
           e == q \div 2
<1>1. t \in Nat /\ t >= 1 /\ Two(i + 1) = 2 * t
  BY TwoIs
<1>2. BitOf(x, i) = b
  BY DEF BitOf
<1> HIDE DEF t
<1>3. q \in Nat /\ r \in 0..(t - 1) /\ x = q * t + r
  BY <1>1, DivOf
<1> HIDE DEF q, r
<1>4. e \in Nat /\ b \in 0..1 /\ q = 2 * e + b
  BY <1>3
<1> HIDE DEF b, e
<1>5. q * t = e * (2 * t) + b * t
  BY <1>1, <1>4
<1>6. b * t = t * b /\ t * b \in Nat /\ t * b + r < 2 * t /\ r \in Nat
  <2>1. b = 0 \/ b = 1
    BY <1>4
  <2>2. t * 0 = 0 /\ 0 * t = 0 /\ t * 1 = t /\ 1 * t = t
    BY <1>1
  <2> QED BY <1>1, <1>3, <2>1, <2>2
<1> DEFINE d == 2 * t
           s == t * b + r
<1>7. d \in Nat /\ d > 0 /\ s \in Nat /\ s < d
  BY <1>1, <1>6
<1>8. x = e * d + s
  <2> DEFINE ed == e * (2 * t)
             tb == t * b
  <2>1. ed \in Int /\ tb \in Int
    BY <1>1, <1>4
  <2>2. q * t = ed + tb
    BY <1>5, <1>6
  <2> HIDE DEF ed, tb
  <2>3. x = ed + (tb + r)
    BY <1>3, <1>6, <2>1, <2>2
  <2> QED BY <2>3 DEF ed, tb
<1> HIDE DEF d, s
<1>9. x % d = s
  BY <1>4, <1>7, <1>8, DivIs
<1>10. t * b + r = r + t * b
  BY <1>3, <1>6
<1>11. x % Two(i + 1) = r + t * b
  BY <1>1, <1>9, <1>10, Zenon DEF d, s
<1>12. r + t * b = (x % Two(i)) + Two(i) * BitOf(x, i)
  BY <1>2, Zenon DEF r, t
<1> QED BY <1>11, <1>12, Zenon

\* A number is the sum of its bits' powers, and such sums of any bits are small.
Powers(b) == [i \in Nat |-> Two(i) * b[i]]
Binary01(b, k) == \A i \in 0..(k - 1) : b[i] \in 0..1

LEMMA PowersTerms ==
  ASSUME NEW k \in Nat, NEW b, Binary01(b, k)
  PROVE  Terms(Powers(b), k)
<1>1. ASSUME NEW i \in 0..(k - 1)
      PROVE  Powers(b)[i] \in Int
  <2>1. i \in Nat /\ b[i] \in 0..1
    BY DEF Binary01
  <2>2. Two(i) \in Int /\ b[i] \in Int
    BY <2>1, TwoIs
  <2> QED BY <2>1, <2>2 DEF Powers
<1> QED BY <1>1 DEF Terms

LEMMA PowersSmall ==
  ASSUME NEW k \in Nat, NEW b, Binary01(b, k)
  PROVE  SumTo(Powers(b), k) \in Nat /\ SumTo(Powers(b), k) < Two(k)
<1> DEFINE a == Powers(b)
           P == {i \in 0..k : SumTo(a, i) \in Nat /\ SumTo(a, i) < Two(i)}
<1>0. Terms(a, k)
  BY PowersTerms
<1>1. 0 \in P
  BY SumNone, TwoIs
<1>2. ASSUME NEW i \in Nat, i < k, i \in P
      PROVE  i + 1 \in P
  <2>1. i + 1 \in 0..k /\ i \in 0..(k - 1)
    BY <1>2
  <2>2. Terms(a, i + 1)
    BY <1>0, <2>1, TermsBelow
  <2>3. SumTo(a, i + 1) = SumTo(a, i) + a[i]
    BY <2>2, SumNext
  <2> DEFINE t == Two(i)
             c == b[i]
  <2>4. a[i] = t * c /\ (c = 0 \/ c = 1) /\ t \in Nat /\ Two(i + 1) = 2 * t
    BY <2>1, TwoIs DEF Powers, Binary01
  <2> HIDE DEF t, c
  <2>5. t * c \in Nat /\ t * c <= t
    <3>1. t * 0 = 0 /\ t * 1 = t
      BY <2>4
    <3> QED BY <2>4, <3>1
  <2> HIDE DEF a
  <2>6. SumTo(a, i) \in Nat /\ SumTo(a, i) < t
    BY <1>2 DEF t
  <2>7. SumTo(a, i + 1) \in Nat /\ SumTo(a, i + 1) < Two(i + 1)
    BY <2>3, <2>4, <2>5, <2>6
  <2> QED BY <2>1, <2>7
<1> HIDE DEF P
<1>3. k \in P
  BY <1>1, <1>2, UpTo
<1> QED BY <1>3 DEF P

LEMMA PowersOf ==
  ASSUME NEW x \in Nat, NEW k \in Nat, NEW b, \A i \in 0..(k - 1) : b[i] = BitOf(x, i)
  PROVE  SumTo(Powers(b), k) = x % Two(k) /\ Binary01(b, k)
<1>0. Binary01(b, k)
  <2>1. ASSUME NEW i \in 0..(k - 1) PROVE b[i] \in 0..1
    <3>1. i \in Nat
      OBVIOUS
    <3> QED BY <3>1, BitIs
  <2> QED BY <2>1 DEF Binary01
<1> DEFINE a == Powers(b)
           P == {i \in 0..k : SumTo(a, i) = x % Two(i)}
<1>1. 0 \in P
  <2>1. x % Two(0) = 0
    BY TwoIs
  <2> QED BY <2>1, SumNone
<1>2. ASSUME NEW i \in Nat, i < k, i \in P
      PROVE  i + 1 \in P
  <2>1. i + 1 \in 0..k /\ i \in 0..(k - 1)
    BY <1>2
  <2>2. Terms(a, i + 1)
    <3>1. Terms(a, k)
      BY <1>0, PowersTerms
    <3> HIDE DEF a
    <3> QED BY <2>1, <3>1, TermsBelow
  <2>3. SumTo(a, i + 1) = SumTo(a, i) + a[i]
    BY <2>2, SumNext
  <2>4. a[i] = Two(i) * BitOf(x, i)
    BY <2>1 DEF Powers
  <2>5. x % Two(i + 1) = (x % Two(i)) + Two(i) * BitOf(x, i)
    BY NextBit
  <2>6. SumTo(a, i) = x % Two(i)
    BY <1>2
  <2>7. SumTo(a, i + 1) = x % Two(i + 1)
    BY <2>3, <2>4, <2>5, <2>6, Zenon
  <2> QED BY <2>1, <2>7
<1> HIDE DEF P
<1>3. k \in P
  BY <1>1, <1>2, UpTo
<1> QED BY <1>0, <1>3 DEF P

-----------------------------------------------------------------------------
(* Bitwise operators. *)

BitMaps == {XorBit, OrBit, AndBit}
LEMMA BitTables ==
  \A a, b \in 0..1 : /\ XorBit[a][b] \in 0..1 /\ OrBit[a][b] \in 0..1 /\ AndBit[a][b] \in 0..1
                     /\ OrBit[a][b] + AndBit[a][b] = a + b
                     /\ XorBit[a][b] + 2 * AndBit[a][b] = a + b
                     /\ AndBit[a][b] = a * b
BY DEF XorBit, OrBit, AndBit

\* The bits of a word of two
Bitwise(x, y, f) == [i \in Nat |-> f[BitOf(x, i)][BitOf(y, i)]]

LEMMA BitwiseBits ==
  ASSUME NEW x \in Nat, NEW y \in Nat, NEW f \in BitMaps, NEW k \in Nat
  PROVE  Binary01(Bitwise(x, y, f), k)
<1>1. ASSUME NEW i \in 0..(k - 1)
      PROVE  Bitwise(x, y, f)[i] \in 0..1
  <2>1. i \in Nat /\ Bitwise(x, y, f)[i] = f[BitOf(x, i)][BitOf(y, i)]
    BY DEF Bitwise
  <2>2. BitOf(x, i) \in 0..1 /\ BitOf(y, i) \in 0..1
    BY <2>1, BitIs
  <2>3. f[BitOf(x, i)][BitOf(y, i)] \in 0..1
    BY <2>2, BitTables DEF BitMaps
  <2> QED BY <2>1, <2>3
<1> QED BY <1>1 DEF Binary01

LEMMA MixedSum ==
  ASSUME NEW x \in Nat, NEW y \in Nat, NEW f \in BitMaps
  PROVE  Mixed(x, y, f) = SumTo(Powers(Bitwise(x, y, f)), 2 * H) /\ Mixed(x, y, f) \in Limb
<1> DEFINE k == 2 * H
           a == Powers(Bitwise(x, y, f))
           b == [i \in 0..(k - 1) |-> Two(i) * f[BitOf(x, i)][BitOf(y, i)]]
<1>1. k \in Nat /\ Base = Two(k)
  BY BaseIs
<1>2. Binary01(Bitwise(x, y, f), k)
  <2> HIDE DEF k
  <2> QED BY <1>1, BitwiseBits
<1>3. \A i \in 0..(k - 1) : a[i] = b[i]
  <2>1. k - 1 \in Int
    BY <1>1
  <2> HIDE DEF k
  <2> QED BY <2>1 DEF Powers, Bitwise
<1>4. Mixed(x, y, f) = SumTo(b, k)
  BY DEF Mixed
<1> HIDE DEF k
<1>5. Terms(a, k) /\ SumTo(a, k) \in Nat /\ SumTo(a, k) < Two(k)
  BY <1>1, <1>2, PowersTerms, PowersSmall
<1> HIDE DEF a, b
<1>6. SumTo(a, k) = SumTo(b, k)
  BY <1>1, <1>3, <1>5, SumSame, Zenon
<1>7. Mixed(x, y, f) = SumTo(a, k) /\ Mixed(x, y, f) \in Limb
  <2>1. SumTo(a, k) \in Limb
    BY <1>1, <1>5, LimbIs
  <2> QED BY <1>4, <1>6, <2>1
<1> QED BY <1>7 DEF a, k

\* A limb is the sum of its bits' powers.
LEMMA LimbPowers ==
  ASSUME NEW x \in Limb
  PROVE  LET b == [i \in Nat |-> BitOf(x, i)]
         IN  SumTo(Powers(b), 2 * H) = x /\ Binary01(b, 2 * H)
<1> DEFINE k == 2 * H
           b == [i \in Nat |-> BitOf(x, i)]
<1>1. k \in Nat /\ Base = Two(k) /\ Base \in Nat
  BY BaseIs
<1>2. x \in Nat /\ x < Base
  BY LimbIs
<1>3. \A i \in 0..(k - 1) : b[i] = BitOf(x, i)
  <2> HIDE DEF k
  <2> QED OBVIOUS
<1> HIDE DEF k, b
<1>4. SumTo(Powers(b), k) = x % Two(k) /\ Binary01(b, k)
  BY <1>1, <1>2, <1>3, PowersOf
<1>5. x % Base = x
  BY <1>1, <1>2
<1> QED BY <1>1, <1>4, <1>5 DEF k, b

LEMMA OrAndXor ==
  ASSUME NEW x \in Limb, NEW y \in Limb
  PROVE  /\ Mixed(x, y, OrBit) + Mixed(x, y, AndBit) = x + y
         /\ Mixed(x, y, XorBit) + 2 * Mixed(x, y, AndBit) = x + y
         /\ Mixed(x, y, OrBit) \in Limb /\ Mixed(x, y, AndBit) \in Limb /\ Mixed(x, y, XorBit) \in Limb
<1> DEFINE k == 2 * H
           bx == [i \in Nat |-> BitOf(x, i)]
           by == [i \in Nat |-> BitOf(y, i)]
           o == Bitwise(x, y, OrBit)
           d == Bitwise(x, y, AndBit)
           e == Bitwise(x, y, XorBit)
           s == [i \in Nat |-> Powers(bx)[i] + Powers(by)[i]]
           t == [i \in Nat |-> 2 * Powers(d)[i]]
<1>1. k \in Nat /\ x \in Nat /\ y \in Nat
  BY BaseIs, LimbIs
<1>2. /\ SumTo(Powers(bx), k) = x /\ Binary01(bx, k)
      /\ SumTo(Powers(by), k) = y /\ Binary01(by, k)
  BY LimbPowers
<1>3. Binary01(o, k) /\ Binary01(d, k) /\ Binary01(e, k)
  <2> HIDE DEF k
  <2> QED BY <1>1, BitwiseBits DEF BitMaps
<1>4. /\ Mixed(x, y, OrBit) = SumTo(Powers(o), k) /\ Mixed(x, y, OrBit) \in Limb
      /\ Mixed(x, y, AndBit) = SumTo(Powers(d), k) /\ Mixed(x, y, AndBit) \in Limb
      /\ Mixed(x, y, XorBit) = SumTo(Powers(e), k) /\ Mixed(x, y, XorBit) \in Limb
  BY <1>1, MixedSum DEF BitMaps
<1>5. ASSUME NEW i \in 0..(k - 1)
      PROVE  /\ Powers(bx)[i] \in Int /\ Powers(by)[i] \in Int /\ Powers(o)[i] \in Int
             /\ Powers(d)[i] \in Int /\ Powers(e)[i] \in Int
             /\ s[i] = Powers(o)[i] + Powers(d)[i]
             /\ s[i] = Powers(e)[i] + t[i]
             /\ t[i] = 2 * Powers(d)[i] /\ s[i] = Powers(bx)[i] + Powers(by)[i]
  <2>0. i \in Nat
    <3> HIDE DEF k
    <3> QED BY <1>1
  <2> DEFINE p == Two(i)
             u == BitOf(x, i)
             v == BitOf(y, i)
             uo == OrBit[u][v]
             ud == AndBit[u][v]
             ue == XorBit[u][v]
  <2>1. p \in Nat
    BY <2>0, TwoIs
  <2>2. u \in 0..1 /\ v \in 0..1
    BY <1>1, <2>0, BitIs
  <2>3. uo \in 0..1 /\ ud \in 0..1 /\ ue \in 0..1 /\ uo + ud = u + v /\ ue + 2 * ud = u + v
    BY <2>2, BitTables
  <2>4. /\ Powers(bx)[i] = p * u /\ Powers(by)[i] = p * v /\ Powers(o)[i] = p * uo
        /\ Powers(d)[i] = p * ud /\ Powers(e)[i] = p * ue
    BY <2>0 DEF Powers, Bitwise
  <2>5. s[i] = Powers(bx)[i] + Powers(by)[i] /\ t[i] = 2 * Powers(d)[i]
    BY <2>0
  <2> HIDE DEF p, u, v, uo, ud, ue, s, t, bx, by, o, d, e, k
  <2>6. p * u + p * v = p * uo + p * ud /\ p * u + p * v = p * ue + 2 * (p * ud)
    <3>1. p * (u + v) = p * (uo + ud) /\ p * (u + v) = p * (ue + 2 * ud)
      BY <2>3
    <3>2. /\ p * (u + v) = p * u + p * v
          /\ p * (uo + ud) = p * uo + p * ud
          /\ p * (ue + 2 * ud) = p * ue + 2 * (p * ud)
      BY <2>1, <2>2, <2>3
    <3> QED BY <3>1, <3>2
  <2>7. p * u \in Int /\ p * v \in Int /\ p * uo \in Int /\ p * ud \in Int /\ p * ue \in Int
    BY <2>1, <2>2, <2>3
  <2> QED BY <2>4, <2>5, <2>6, <2>7
<1> HIDE DEF s, t, bx, by, o, d, e, k
<1>6. /\ Terms(Powers(bx), k) /\ Terms(Powers(by), k) /\ Terms(Powers(o), k)
      /\ Terms(Powers(d), k) /\ Terms(Powers(e), k) /\ Terms(t, k)
  <2>1. Terms(t, k)
    BY <1>5 DEF Terms
  <2> QED BY <1>1, <1>2, <1>3, <2>1, PowersTerms
<1>7. SumTo(s, k) = x + y
  <2>1. \A i \in 0..(k - 1) : s[i] = Powers(bx)[i] + Powers(by)[i]
    BY <1>5
  <2>2. SumTo(s, k) = SumTo(Powers(bx), k) + SumTo(Powers(by), k)
    BY <1>1, <1>6, <2>1, SumPlus, Zenon
  <2> QED BY <1>2, <2>2
<1>8. SumTo(s, k) = SumTo(Powers(o), k) + SumTo(Powers(d), k)
  <2>1. \A i \in 0..(k - 1) : s[i] = Powers(o)[i] + Powers(d)[i]
    BY <1>5
  <2> QED BY <1>1, <1>6, <2>1, SumPlus, Zenon
<1>9. SumTo(s, k) = SumTo(Powers(e), k) + SumTo(t, k)
  <2>1. \A i \in 0..(k - 1) : s[i] = Powers(e)[i] + t[i]
    BY <1>5
  <2> QED BY <1>1, <1>6, <2>1, SumPlus, Zenon
<1>10. SumTo(t, k) = 2 * SumTo(Powers(d), k)
  <2>1. \A i \in 0..(k - 1) : t[i] = 2 * Powers(d)[i]
    BY <1>5
  <2>2. 2 \in Int
    OBVIOUS
  <2> QED BY <1>1, <1>6, <2>1, <2>2, SumTimes, Zenon
<1> QED BY <1>4, <1>7, <1>8, <1>9, <1>10

\* The mean of two limbs, rounded up, from their bits
LEMMA AverageRight ==
  ASSUME NEW x \in Limb, NEW y \in Limb
  PROVE  Cut(average(x, y)) = (x + y + 1) \div 2
<1> DEFINE o == Mixed(x, y, OrBit)
           e == Mixed(x, y, XorBit)
           d == Mixed(x, y, AndBit)
           r == (x + y + 1) \div 2
<1>1. o + d = x + y /\ e + 2 * d = x + y /\ o \in Limb /\ d \in Limb /\ e \in Limb
  BY OrAndXor
<1>2. /\ x \in Nat /\ x < Base /\ y \in Nat /\ y < Base
      /\ o \in Nat /\ o < Base /\ d \in Nat /\ d < Base /\ e \in Nat /\ e < Base
  BY <1>1, LimbIs
<1>3. average(x, y) = (IF o >= Base \div 2 THEN o - Base ELSE o) - e \div 2
  BY DEF average, Signed
<1>4. Base \in Nat /\ Base >= 4
  BY BaseIs
<1> HIDE DEF o, e, d
<1>5. o - e \div 2 = r
  BY <1>1, <1>2
<1>6. r \in Nat /\ r < Base
  BY <1>2, <1>4
<1> HIDE DEF r
<1>7. average(x, y) = r \/ average(x, y) = r - Base
  <2> DEFINE h == e \div 2
  <2>1. h \in Int
    BY <1>2
  <2> HIDE DEF h
  <2> QED BY <1>2, <1>3, <1>4, <1>5, <2>1 DEF h
<1>8. r % Base = r
  BY <1>4, <1>6
<1>9. (r - Base) % Base = r
  <2> DEFINE b == Base
             z == r - Base
  <2>1. b \in Nat /\ b > 0 /\ z = (-1) * b + r /\ r \in Nat /\ r < b /\ -1 \in Int
    BY <1>4, <1>6
  <2> HIDE DEF b, z
  <2>2. z % b = r
    BY <2>1, DivIs
  <2> QED BY <2>2 DEF b, z
<1> QED BY <1>7, <1>8, <1>9 DEF Cut, r

-----------------------------------------------------------------------------
(* Bytes. *)

HalvesOf(m, p) == [j \in Nat |-> Two(H * j) * HalfOf(m, p, j)]

LEMMA HalfWeights ==
  ASSUME NEW i \in Nat
  PROVE  Two(H * (2 * i)) = Two(Bits(i)) /\ Two(H * (2 * i + 1)) = Two(Bits(i)) * Half
<1> DEFINE h == H
<1>1. h \in Nat
  BY BaseIs
<1>2. Bits(i) = 2 * h * i
  BY DEF Bits
<1>3. Half = Two(h)
  BY DEF Half
<1> HIDE DEF h
<1>4. h * (2 * i) = 2 * h * i /\ h * (2 * i + 1) = 2 * h * i + h /\ 2 * h * i \in Nat
  BY <1>1
<1>5. Two(2 * h * i + h) = Two(2 * h * i) * Two(h)
  BY <1>1, <1>4, TwoSum
<1>6. Two(h * (2 * i)) = Two(Bits(i)) /\ Two(h * (2 * i + 1)) = Two(Bits(i)) * Half
  BY <1>2, <1>3, <1>4, <1>5
<1> QED BY <1>6 DEF h

\* The halves of a limb, and where they stand
LEMMA HalvesIs ==
  ASSUME NEW m, NEW p, NEW k \in Nat, Window(m, p, k), NEW i \in 0..(k - 1)
  PROVE  /\ HalfOf(m, p, 2 * i) \in 0..(Half - 1) /\ HalfOf(m, p, 2 * i + 1) \in 0..(Half - 1)
         /\ m[p + i] = HalfOf(m, p, 2 * i) + Half * HalfOf(m, p, 2 * i + 1)
<1>1. i \in Nat /\ m[p + i] \in Limb
  BY DEF Window
<1>2. HalfOf(m, p, 2 * i) = m[p + i] % Half /\ HalfOf(m, p, 2 * i + 1) = m[p + i] \div Half
  BY <1>1, HalvesAt
<1> QED BY <1>1, <1>2, HalfOfLimb

LEMMA ValueOfHalves ==
  ASSUME NEW m, NEW p, NEW k \in Nat, Window(m, p, k)
  PROVE  SumTo(HalvesOf(m, p), 2 * k) = Value(m, p, k) /\ Terms(HalvesOf(m, p), 2 * k)
<1> DEFINE a == HalvesOf(m, p)
<1>1. Terms(a, 2 * k)
  <2>1. ASSUME NEW j \in 0..(2 * k - 1)
        PROVE  a[j] \in Int
    <3>1. PICK i \in 0..(k - 1) : j = 2 * i \/ j = 2 * i + 1
      <4>1. j \div 2 \in 0..(k - 1) /\ (j = 2 * (j \div 2) \/ j = 2 * (j \div 2) + 1)
        OBVIOUS
      <4> QED BY <4>1
    <3>2. HalfOf(m, p, 2 * i) \in 0..(Half - 1) /\ HalfOf(m, p, 2 * i + 1) \in 0..(Half - 1)
      BY HalvesIs
    <3>3. j \in Nat /\ a[j] = Two(H * j) * HalfOf(m, p, j)
      BY DEF HalvesOf
    <3>4. HalfOf(m, p, j) \in Int
      <4>1. CASE j = 2 * i
        BY <3>2, <4>1
      <4>2. CASE j = 2 * i + 1
        BY <3>2, <4>2
      <4> QED BY <3>1, <4>1, <4>2
    <3>5. Two(H * j) \in Int
      <4>1. H * j \in Nat
        BY <3>3, BaseIs
      <4> QED BY <4>1, TwoIs
    <3> DEFINE t == Two(H * j)
               h == HalfOf(m, p, j)
    <3> HIDE DEF a, t, h
    <3> QED BY <3>3, <3>4, <3>5 DEF t, h
  <2> HIDE DEF a
  <2> QED BY <2>1 DEF Terms
<1> DEFINE P == {i \in 0..k : SumTo(a, 2 * i) = Value(m, p, i)}
<1>2. 0 \in P
  BY SumNone, ValueNone
<1>3. ASSUME NEW i \in Nat, i < k, i \in P
      PROVE  i + 1 \in P
  <2>1. i + 1 \in 0..k /\ i \in 0..(k - 1) /\ 2 * i \in Nat /\ 2 * i + 1 \in Nat
        /\ 2 * i + 1 \in 0..(2 * k) /\ (2 * i + 1) + 1 \in 0..(2 * k) /\ 2 * (i + 1) = (2 * i + 1) + 1
    BY <1>3
  <2>2. Terms(a, 2 * i + 1) /\ Terms(a, (2 * i + 1) + 1)
    <3>1. 2 * k \in Nat
      OBVIOUS
    <3> HIDE DEF a
    <3> QED BY <1>1, <2>1, <3>1, TermsBelow
  <2> DEFINE w == Two(Bits(i))
             lo == HalfOf(m, p, 2 * i)
             hi == HalfOf(m, p, 2 * i + 1)
  <2>3. /\ SumTo(a, 2 * i + 1) = SumTo(a, 2 * i) + a[2 * i]
        /\ SumTo(a, (2 * i + 1) + 1) = SumTo(a, 2 * i + 1) + a[2 * i + 1]
        /\ SumTo(a, 2 * i) \in Int
    <3> HIDE DEF a
    <3> QED BY <2>1, <2>2, SumNext
  <2>4. a[2 * i] = w * lo /\ a[2 * i + 1] = (w * Half) * hi
    <3>1. a[2 * i] = Two(H * (2 * i)) * HalfOf(m, p, 2 * i)
          /\ a[2 * i + 1] = Two(H * (2 * i + 1)) * HalfOf(m, p, 2 * i + 1)
      BY <2>1 DEF HalvesOf
    <3>2. Two(H * (2 * i)) = w /\ Two(H * (2 * i + 1)) = w * Half
      BY HalfWeights
    <3> HIDE DEF w, a
    <3> QED BY <3>1, <3>2
  <2>5. /\ lo \in 0..(Half - 1) /\ hi \in 0..(Half - 1)
        /\ m[p + i] = lo + Half * hi
    BY <2>1, HalvesIs
  <2>6. Window(m, p, i + 1)
    BY <2>1, WindowBelow
  <2>7. Value(m, p, i + 1) = Value(m, p, i) + w * m[p + i] /\ Value(m, p, i) \in Int
    BY <2>6, ValueNext
  <2>8. w \in Nat /\ Half \in Nat
    BY BitsIs, BaseIs
  <2> HIDE DEF w, lo, hi, a
  <2>9. w * (lo + Half * hi) = w * lo + (w * Half) * hi /\ w * lo \in Int /\ (w * Half) * hi \in Int
    <3> DEFINE h == Half
    <3>1. h \in Nat /\ lo \in Nat /\ hi \in Nat
      BY <2>5, <2>8
    <3> HIDE DEF h
    <3>2. w * (lo + h * hi) = w * lo + (w * h) * hi /\ w * lo \in Int /\ (w * h) * hi \in Int
      BY <2>8, <3>1
    <3> QED BY <3>2 DEF h
  <2>10. SumTo(a, 2 * i) = Value(m, p, i)
    BY <1>3 DEF a
  <2>11. SumTo(a, 2 * (i + 1)) = Value(m, p, i + 1)
    BY <2>1, <2>3, <2>4, <2>5, <2>7, <2>9, <2>10
  <2> QED BY <2>1, <2>11 DEF a
<1> HIDE DEF P
<1>4. k \in P
  BY <1>2, <1>3, UpTo
<1> QED BY <1>1, <1>4 DEF P

\* What is written as bytes is read back, and is the number.
\* The number that is written is read back.
ReadBack(m, p, k) ==
    LET w == [i \in 0..(k - 1) |-> m[p + i]]
        be == toBytesBE(m, p, k)
    IN  /\ Value(m, p, k) =
             SumTo([j \in 0..(2 * k - 1) |-> Two(H * j) * be[2 * k - 1 - j]], 2 * k)
        /\ fromBytesBE(be, k) = w
        /\ fromBytesLE(toBytesLE(m, p, k), k) = w

LEMMA WrittenRight ==
  ASSUME NEW m, NEW p, NEW k \in Nat, Window(m, p, k)
  PROVE  ReadBack(m, p, k)
<1> DEFINE w == [i \in 0..(k - 1) |-> m[p + i]]
           le == toBytesLE(m, p, k)
           be == toBytesBE(m, p, k)
           s == [j \in 0..(2 * k - 1) |-> Two(H * j) * be[2 * k - 1 - j]]
<1>1. le = [j \in 0..(2 * k - 1) |-> HalfOf(m, p, j)]
  BY DEF toBytesLE
<1>2. be = [j \in 0..(2 * k - 1) |-> le[2 * k - 1 - j]]
  BY DEF toBytesBE, Backward
<1>3. ASSUME NEW j \in 0..(2 * k - 1)
      PROVE  2 * k - 1 - j \in 0..(2 * k - 1) /\ be[2 * k - 1 - j] = le[j] /\ le[j] = HalfOf(m, p, j)
  <2> DEFINE i == 2 * k - 1 - j
  <2>1. i \in 0..(2 * k - 1) /\ 2 * k - 1 - i = j
    OBVIOUS
  <2> HIDE DEF i, le, be
  <2>2. be[i] = le[2 * k - 1 - i] /\ le[j] = HalfOf(m, p, j)
    BY <1>1, <1>2, <2>1
  <2>3. be[i] = le[j]
    BY <2>1, <2>2
  <2> QED BY <2>1, <2>2, <2>3 DEF i
<1>4. Value(m, p, k) = SumTo(s, 2 * k)
  <2>1. SumTo(HalvesOf(m, p), 2 * k) = Value(m, p, k) /\ Terms(HalvesOf(m, p), 2 * k)
    BY ValueOfHalves
  <2>2. \A j \in 0..(2 * k - 1) : HalvesOf(m, p)[j] = s[j]
    <3> HIDE DEF be
    <3> QED BY <1>3 DEF HalvesOf
  <2>3. 2 * k \in Nat
    OBVIOUS
  <2> HIDE DEF s
  <2>4. SumTo(HalvesOf(m, p), 2 * k) = SumTo(s, 2 * k)
    BY <2>1, <2>2, <2>3, SumSame, Zenon
  <2> QED BY <2>1, <2>4
<1>5. ASSUME NEW h, \A j \in 0..(2 * k - 1) : h[j] = HalfOf(m, p, j)
      PROVE  Paired(h, k) = w
  <2>1. ASSUME NEW i \in 0..(k - 1)
        PROVE  h[2 * i] + Half * h[2 * i + 1] = m[p + i]
    <3>1. 2 * i \in 0..(2 * k - 1) /\ 2 * i + 1 \in 0..(2 * k - 1)
      OBVIOUS
    <3>2. m[p + i] = HalfOf(m, p, 2 * i) + Half * HalfOf(m, p, 2 * i + 1)
      BY HalvesIs
    <3>3. h[2 * i] = HalfOf(m, p, 2 * i) /\ h[2 * i + 1] = HalfOf(m, p, 2 * i + 1)
      BY <1>5, <3>1
    <3> QED BY <3>2, <3>3, Zenon
  <2> QED BY <2>1 DEF Paired
<1>6. fromBytesLE(le, k) = w
  <2>1. \A j \in 0..(2 * k - 1) : le[j] = HalfOf(m, p, j)
    BY <1>3
  <2> HIDE DEF le, w
  <2>2. Paired(le, k) = w
    BY <1>5, <2>1
  <2> QED BY <2>2 DEF fromBytesLE
<1>7. fromBytesBE(be, k) = w
  <2> DEFINE h == Backward(be, k)
  <2>1. \A j \in 0..(2 * k - 1) : h[j] = HalfOf(m, p, j)
    <3> HIDE DEF be, le
    <3> QED BY <1>3 DEF Backward
  <2> HIDE DEF h, w
  <2>2. Paired(h, k) = w
    BY <1>5, <2>1
  <2> QED BY <2>2 DEF fromBytesBE, h
<1> QED BY <1>4, <1>6, <1>7 DEF ReadBack

-----------------------------------------------------------------------------
(* Loops that change an array limb by limb. *)

\* The positions that the first j turns change; what turn j finds and makes
Places(p, order, j) == {p + order[i] : i \in 1..j}
Turned(m, r, D, p, order, F, l, j) ==
    /\ l \in [D -> Limb]
    /\ r[p + order[j]] = F[order[j]][l]
    /\ \A x \in D \ Places(p, order, j - 1) : l[x] = m[x]
    /\ \A x \in Places(p, order, j - 1) : l[x] = r[x]
Ordered(D, p, order, F) ==
    /\ order \in Seq(Int)
    /\ \A i, j \in 1..Len(order) : order[i] = order[j] => i = j
    /\ \A j \in 1..Len(order) : p + order[j] \in D /\ F[order[j]] \in [[D -> Limb] -> Limb]
AllTurned(m, r, D, p, order, F, k) ==
    /\ r \in [D -> Limb]
    /\ \A x \in D \ Places(p, order, k) : r[x] = m[x]
    /\ \A j \in 1..k : \E l : Turned(m, r, D, p, order, F, l, j)

LEMMA PlacesGrow ==
  ASSUME NEW p \in Int, NEW order \in Seq(Int), NEW j \in Nat, j < Len(order)
  PROVE  Places(p, order, j + 1) = Places(p, order, j) \cup {p + order[j + 1]}
<1>1. \A i \in 1..(j + 1) : i \in 1..j \/ i = j + 1
  OBVIOUS
<1>2. j + 1 \in 1..(j + 1) /\ \A i \in 1..j : i \in 1..(j + 1)
  OBVIOUS
<1> QED BY <1>1, <1>2 DEF Places

LEMMA OneTurn ==
  ASSUME NEW D, NEW m \in [D -> Limb], NEW p \in Int, NEW order, NEW F, Ordered(D, p, order, F),
         NEW j \in Nat, j < Len(order), NEW r, AllTurned(m, r, D, p, order, F, j),
         NEW s, s = [r EXCEPT ![p + order[j + 1]] = F[order[j + 1]][r]]
  PROVE  AllTurned(m, s, D, p, order, F, j + 1)
<1> DEFINE x == p + order[j + 1]
           v == F[order[j + 1]][r]
<1>0. j + 1 \in 1..Len(order) /\ order \in Seq(Int) /\ Len(order) \in Nat
  BY DEF Ordered
<1>1. r \in [D -> Limb] /\ x \in D /\ v \in Limb
  <2>1. r \in [D -> Limb]
    BY DEF AllTurned
  <2>2. x \in D /\ F[order[j + 1]] \in [[D -> Limb] -> Limb]
    BY <1>0 DEF Ordered
  <2> QED BY <2>1, <2>2
<1>2. s = [r EXCEPT ![x] = v]
  OBVIOUS
<1>3. x \notin Places(p, order, j)
  <2> SUFFICES ASSUME x \in Places(p, order, j) PROVE FALSE
    OBVIOUS
  <2>1. PICK i \in 1..j : p + order[j + 1] = p + order[i]
    BY DEF Places
  <2>2. i \in 1..Len(order) /\ i # j + 1
    BY <1>0
  <2>3. order[i] \in Int /\ order[j + 1] \in Int
    BY <1>0, <2>2
  <2>4. order[i] = order[j + 1]
    <3> DEFINE a == order[i]
               b == order[j + 1]
    <3>1. p + b = p + a /\ a \in Int /\ b \in Int
      BY <2>1, <2>3
    <3> HIDE DEF a, b
    <3>2. a = b
      BY <3>1
    <3> QED BY <3>2 DEF a, b
  <2> QED BY <1>0, <2>2, <2>4 DEF Ordered
<1>4. Places(p, order, j + 1) = Places(p, order, j) \cup {x}
  BY <1>0, PlacesGrow
<1> HIDE DEF x, v
<1>5. s \in [D -> Limb] /\ s[x] = v /\ \A y \in D : y # x => s[y] = r[y]
  BY <1>1, <1>2
<1>6. \A y \in D \ Places(p, order, j + 1) : s[y] = m[y]
  BY <1>4, <1>5 DEF AllTurned
<1>7. \A i \in 0..j : Places(p, order, i) \subseteq Places(p, order, j) /\ Places(p, order, i) \subseteq D
  <2>1. ASSUME NEW i \in 0..j, NEW y \in Places(p, order, i)
        PROVE  y \in Places(p, order, j) /\ y \in D
    <3>1. PICK h \in 1..i : y = p + order[h]
      BY DEF Places
    <3>2. h \in 1..j /\ h \in 1..Len(order)
      BY <1>0
    <3> QED BY <3>1, <3>2 DEF Places, Ordered
  <2> QED BY <2>1
<1>8. ASSUME NEW i \in 1..(j + 1)
      PROVE  \E l : Turned(m, s, D, p, order, F, l, i)
  <2>1. CASE i = j + 1
    <3>1. i - 1 = j /\ j \in 0..j
      BY <2>1
    <3>2. s[p + order[i]] = F[order[i]][r]
      BY <1>5, <2>1 DEF x, v
    <3>3. \A y \in D \ Places(p, order, j) : r[y] = m[y]
      BY DEF AllTurned
    <3>4. \A y \in Places(p, order, j) : r[y] = s[y]
      BY <1>3, <1>5, <1>7, <3>1
    <3>5. Turned(m, s, D, p, order, F, r, i)
      BY <1>1, <3>1, <3>2, <3>3, <3>4, Zenon DEF Turned
    <3> QED BY <3>5
  <2>2. CASE i # j + 1
    <3>1. i \in 1..j /\ i - 1 \in 0..j
      BY <2>2
    <3>2. PICK l : Turned(m, r, D, p, order, F, l, i)
      BY <3>1 DEF AllTurned
    <3>3. p + order[i] \in Places(p, order, j)
      BY <3>1 DEF Places
    <3>4. p + order[i] \in D /\ p + order[i] # x
      <4>1. i \in 1..Len(order)
        BY <1>0, <3>1
      <4> QED BY <1>3, <3>3, <4>1 DEF Ordered
    <3>5. s[p + order[i]] = r[p + order[i]]
      BY <1>5, <3>4
    <3>6. \A y \in Places(p, order, i - 1) : l[y] = s[y]
      <4>1. ASSUME NEW y \in Places(p, order, i - 1) PROVE l[y] = s[y]
        <5>1. y \in Places(p, order, j) /\ y \in D
          BY <1>7, <3>1
        <5>2. y # x /\ s[y] = r[y]
          BY <1>3, <1>5, <5>1
        <5>3. l[y] = r[y]
          BY <3>2 DEF Turned
        <5> QED BY <5>2, <5>3
      <4> QED BY <4>1
    <3>7. Turned(m, s, D, p, order, F, l, i)
      BY <3>2, <3>5, <3>6 DEF Turned
    <3> QED BY <3>7
  <2> QED BY <2>1, <2>2
<1> QED BY <1>5, <1>6, <1>8 DEF AllTurned

TurnLoop(f, m, p, order, F) ==
    f = [j \in 0..Len(order) |->
           IF j = 0 THEN m ELSE [f[j - 1] EXCEPT ![p + order[j]] = F[order[j]][f[j - 1]]]]

LEMMA TurnLoops ==
  ASSUME NEW D, NEW m \in [D -> Limb], NEW p \in Int, NEW order, NEW F, Ordered(D, p, order, F)
  PROVE  \E f : TurnLoop(f, m, p, order, F)
<1> DEFINE k == Len(order)
           S == [D -> Limb]
           G == [j \in 1..k |-> [l \in S |-> [l EXCEPT ![p + order[j]] = F[order[j]][l]]]]
<1>0. k \in Nat
  BY DEF Ordered
<1>1. Turns(S, k, G)
  <2>1. ASSUME NEW j \in 1..k, NEW l \in S
        PROVE  [l EXCEPT ![p + order[j]] = F[order[j]][l]] \in S
    <3>1. F[order[j]] \in [S -> Limb]
      BY DEF Ordered
    <3>2. F[order[j]][l] \in Limb
      BY <3>1
    <3> QED BY <3>2
  <2> HIDE DEF k, S
  <2> QED BY <2>1 DEF Turns
<1>2. \A j \in 1..k : \A l \in S : G[j][l] = [l EXCEPT ![p + order[j]] = F[order[j]][l]]
  <2> HIDE DEF k, S
  <2> QED OBVIOUS
<1> HIDE DEF G
<1>3. PICK f : Loops(f, S, m, k, G)
  <2>1. m \in S
    OBVIOUS
  <2> HIDE DEF S, k
  <2> QED BY <1>0, <1>1, <2>1, LoopExists, Zenon
<1>4. ASSUME NEW j \in 1..k PROVE f[j] = [f[j - 1] EXCEPT ![p + order[j]] = F[order[j]][f[j - 1]]]
  <2>1. f[j - 1] \in S
    <3>1. j - 1 \in 0..k
      BY <1>0
    <3> HIDE DEF S, k
    <3> QED BY <1>3, <3>1 DEF Loops
  <2> HIDE DEF S, k
  <2> QED BY <1>2, <1>3, <2>1 DEF Loops
<1>5. \A j \in 0..k : f[j] = IF j = 0 THEN m
                             ELSE [f[j - 1] EXCEPT ![p + order[j]] = F[order[j]][f[j - 1]]]
  <2>1. f[0] = m
    BY <1>3 DEF Loops
  <2>2. \A j \in 0..k : j # 0 => j \in 1..k
    BY <1>0
  <2> HIDE DEF S, k
  <2> QED BY <1>4, <2>1, <2>2, Zenon
<1>6. TurnLoop(f, m, p, order, F)
  <2>1. \E T : f \in [0..k -> T]
    BY <1>3 DEF Loops
  <2> HIDE DEF S
  <2> QED BY <1>5, <2>1, Zenon DEF TurnLoop, k
<1> QED BY <1>6

LEMMA InTurnIs ==
  ASSUME NEW D, NEW m \in [D -> Limb], NEW p \in Int, NEW order, NEW F, Ordered(D, p, order, F)
  PROVE  AllTurned(m, InTurn(m, p, order, F), D, p, order, F, Len(order))
<1> DEFINE k == Len(order)
           done == CHOOSE f : TurnLoop(f, m, p, order, F)
<1>1. InTurn(m, p, order, F) = done[k]
  BY DEF InTurn, TurnLoop
<1>2. TurnLoop(done, m, p, order, F)
  BY TurnLoops, Zenon
<1> HIDE DEF done
<1>3. k \in Nat
  BY DEF Ordered
<1> DEFINE Next1(l, r, j) == r = [l EXCEPT ![p + order[j]] = F[order[j]][l]]
<1>4. done[0] = m /\ \A j \in 1..k : Next1(done[j - 1], done[j], j)
  <2>1. 0 \in 0..k /\ \A j \in 1..k : j \in 0..k /\ j # 0
    BY <1>3
  <2> QED BY <1>2, <2>1 DEF TurnLoop
<1> DEFINE P == {j \in 0..k : AllTurned(m, done[j], D, p, order, F, j)}
<1>5. 0 \in P
  <2>1. AllTurned(m, m, D, p, order, F, 0)
    BY DEF AllTurned
  <2> QED BY <1>3, <1>4, <2>1
<1>6. ASSUME NEW j \in Nat, j < k, j \in P
      PROVE  j + 1 \in P
  <2>1. j + 1 \in 1..k /\ j + 1 - 1 = j /\ j + 1 \in 0..k
    BY <1>3, <1>6
  <2>2. done[j + 1] = [done[j] EXCEPT ![p + order[j + 1]] = F[order[j + 1]][done[j]]]
    <3> HIDE DEF Next1
    <3>1. Next1(done[j + 1 - 1], done[j + 1], j + 1)
      BY <1>4, <2>1
    <3>2. Next1(done[j], done[j + 1], j + 1)
      BY <2>1, <3>1, Zenon
    <3> QED BY <3>2 DEF Next1
  <2>3. AllTurned(m, done[j], D, p, order, F, j)
    BY <1>6
  <2> DEFINE r == done[j]
             s == done[j + 1]
  <2> HIDE DEF r, s
  <2>4. AllTurned(m, s, D, p, order, F, j + 1)
    BY <1>6, <2>2, <2>3, OneTurn DEF r, s, k
  <2> QED BY <2>1, <2>4 DEF s
<1> HIDE DEF P
<1>7. k \in P
  <2> HIDE DEF k
  <2> QED BY <1>3, <1>5, <1>6, UpTo
<1> QED BY <1>1, <1>7 DEF P

\* r is m but for the window of k limbs at p.
Inside(m, r, D, p, k) == r \in [D -> Limb] /\ \A x \in D : x \notin p..(p + k - 1) => r[x] = m[x]
Fits(D, p, k) == \A i \in 0..(k - 1) : p + i \in D

\* The limbs up to i, or from i on, are new when the one at i is made.
UpRead(m, r, D, p, F, i, l) ==
    /\ l \in [D -> Limb] /\ r[p + i] = F[i][l]
    /\ \A x \in D : x \notin p..(p + i - 1) => l[x] = m[x]
    /\ \A x \in p..(p + i - 1) : l[x] = r[x]
DownRead(m, r, D, p, f, F, i, l) ==
    /\ l \in [D -> Limb] /\ r[p + i] = F[i][l]
    /\ \A x \in D : x \notin (p + i + 1)..(p + f) => l[x] = m[x]

LEMMA UpwardIs ==
  ASSUME NEW D \in SUBSET Int, NEW m \in [D -> Limb], NEW p \in Int, NEW k \in Nat, Fits(D, p, k),
         NEW F, \A i \in 0..(k - 1) : F[i] \in [[D -> Limb] -> Limb]
  PROVE  /\ Inside(m, Upward(m, p, k, F), D, p, k)
         /\ \A i \in 0..(k - 1) : \E l : UpRead(m, Upward(m, p, k, F), D, p, F, i, l)
<1> DEFINE order == [j \in 1..k |-> j - 1]
           r == Upward(m, p, k, F)
<1>1. order \in Seq(Int) /\ Len(order) = k /\ \A j \in 1..k : order[j] = j - 1
  <2>1. order \in [1..k -> Int]
    OBVIOUS
  <2> QED BY <2>1
<1>2. Ordered(D, p, order, F)
  <2>1. \A i, j \in 1..k : order[i] = order[j] => i = j
    BY <1>1
  <2>2. ASSUME NEW j \in 1..k PROVE p + order[j] \in D /\ F[order[j]] \in [[D -> Limb] -> Limb]
    <3>1. order[j] \in 0..(k - 1)
      BY <1>1
    <3> HIDE DEF order
    <3> QED BY <3>1 DEF Fits
  <2> HIDE DEF order
  <2> QED BY <1>1, <2>1, <2>2 DEF Ordered
<1>3. r = InTurn(m, p, order, F)
  BY DEF Upward
<1>4. ASSUME NEW j \in 0..k PROVE Places(p, order, j) = p..(p + j - 1)
  <2>1. ASSUME NEW x \in Places(p, order, j) PROVE x \in p..(p + j - 1)
    <3>1. PICK i \in 1..j : x = p + order[i]
      BY DEF Places
    <3>2. order[i] = i - 1
      BY <1>1
    <3> HIDE DEF order
    <3> QED BY <3>1, <3>2
  <2>2. ASSUME NEW x \in p..(p + j - 1) PROVE x \in Places(p, order, j)
    <3>1. x - p + 1 \in 1..j /\ x - p + 1 \in 1..k
      OBVIOUS
    <3>2. order[x - p + 1] = x - p + 1 - 1
      BY <1>1, <3>1
    <3>3. x = p + (x - p + 1 - 1)
      OBVIOUS
    <3> HIDE DEF order
    <3> QED BY <3>1, <3>2, <3>3 DEF Places
  <2> QED BY <2>1, <2>2
<1> HIDE DEF order, r
<1>5. AllTurned(m, r, D, p, order, F, k)
  BY <1>1, <1>2, <1>3, InTurnIs
<1>6. Inside(m, r, D, p, k)
  <2>1. Places(p, order, k) = p..(p + k - 1)
    BY <1>4
  <2> QED BY <1>5, <2>1 DEF AllTurned, Inside
<1>7. ASSUME NEW i \in 0..(k - 1)
      PROVE  \E l : UpRead(m, r, D, p, F, i, l)
  <2> DEFINE j == i + 1
  <2>1. j \in 1..k /\ j - 1 = i /\ i \in 0..k
    OBVIOUS
  <2>2. order[j] = i
    BY <1>1, <2>1
  <2>3. Places(p, order, i) = p..(p + i - 1)
    BY <1>4, <2>1
  <2> HIDE DEF j
  <2>4. PICK l : Turned(m, r, D, p, order, F, l, j)
    BY <1>5, <2>1 DEF AllTurned
  <2>5. UpRead(m, r, D, p, F, i, l)
    BY <2>1, <2>2, <2>3, <2>4 DEF Turned, UpRead
  <2> QED BY <2>5
<1> QED BY <1>6, <1>7 DEF r

LEMMA DownwardIs ==
  ASSUME NEW D \in SUBSET Int, NEW m \in [D -> Limb], NEW p \in Int, NEW f \in Int, NEW t \in Int,
         \A i \in t..f : p + i \in D,
         NEW F, \A i \in t..f : F[i] \in [[D -> Limb] -> Limb]
  PROVE  /\ Downward(m, p, f, t, F) \in [D -> Limb]
         /\ \A x \in D : x \notin (p + t)..(p + f) => Downward(m, p, f, t, F)[x] = m[x]
         /\ \A i \in t..f : \E l : DownRead(m, Downward(m, p, f, t, F), D, p, f, F, i, l)
<1> DEFINE k == IF t > f THEN 0 ELSE f - t + 1
           order == IF t > f THEN <<>> ELSE [j \in 1..(f - t + 1) |-> f + 1 - j]
           r == Downward(m, p, f, t, F)
<1>0. k \in Nat
  OBVIOUS
<1>1. order \in Seq(Int) /\ Len(order) = k /\ \A j \in 1..k : order[j] = f + 1 - j
  <2>1. CASE t > f
    BY <2>1
  <2>2. CASE ~(t > f)
    <3>1. order \in [1..k -> Int]
      BY <2>2
    <3> QED BY <1>0, <2>2, <3>1
  <2> QED BY <2>1, <2>2
<1>2. \A j \in 1..k : f + 1 - j \in t..f
  OBVIOUS
<1>3. r = InTurn(m, p, order, F)
  BY DEF Downward
<1>4. \A i \in t..f : f + 1 - i \in 1..k
  OBVIOUS
<1>5. (p + t)..(p + f) = (p + f + 1 - k)..(p + f)
  OBVIOUS
<1> HIDE DEF order, r, k
<1>6. Ordered(D, p, order, F)
  <2>1. \A i, j \in 1..k : order[i] = order[j] => i = j
    BY <1>1
  <2>2. ASSUME NEW j \in 1..k PROVE p + order[j] \in D /\ F[order[j]] \in [[D -> Limb] -> Limb]
    <3>1. order[j] \in t..f
      BY <1>1, <1>2
    <3> QED BY <3>1
  <2> QED BY <1>1, <2>1, <2>2 DEF Ordered
<1>7. ASSUME NEW j \in 0..k PROVE Places(p, order, j) = (p + f + 1 - j)..(p + f)
  <2>1. ASSUME NEW x \in Places(p, order, j) PROVE x \in (p + f + 1 - j)..(p + f)
    <3>1. PICK i \in 1..j : x = p + order[i]
      BY DEF Places
    <3>2. order[i] = f + 1 - i
      BY <1>0, <1>1
    <3> QED BY <1>0, <3>1, <3>2
  <2>2. ASSUME NEW x \in (p + f + 1 - j)..(p + f) PROVE x \in Places(p, order, j)
    <3> DEFINE i == p + f + 1 - x
    <3>1. i \in 1..j /\ i \in 1..k /\ x = p + (f + 1 - i)
      BY <1>0
    <3> HIDE DEF i
    <3>2. order[i] = f + 1 - i
      BY <1>1, <3>1
    <3> QED BY <3>1, <3>2 DEF Places
  <2> QED BY <2>1, <2>2
<1>8. AllTurned(m, r, D, p, order, F, k)
  BY <1>1, <1>3, <1>6, InTurnIs
<1>9. r \in [D -> Limb] /\ \A x \in D : x \notin (p + t)..(p + f) => r[x] = m[x]
  <2>1. Places(p, order, k) = (p + t)..(p + f)
    BY <1>0, <1>5, <1>7
  <2> QED BY <1>8, <2>1 DEF AllTurned
<1>10. ASSUME NEW i \in t..f
       PROVE  \E l : DownRead(m, r, D, p, f, F, i, l)
  <2> DEFINE j == f + 1 - i
  <2>1. j \in 1..k /\ j - 1 \in 0..k /\ f + 1 - j = i /\ p + f + 1 - (j - 1) = p + i + 1
    BY <1>0, <1>4
  <2> HIDE DEF j
  <2>2. order[j] = i
    BY <1>1, <2>1
  <2>3. Places(p, order, j - 1) = (p + i + 1)..(p + f)
    BY <1>7, <2>1
  <2>4. PICK l : Turned(m, r, D, p, order, F, l, j)
    BY <1>8, <2>1 DEF AllTurned
  <2>5. DownRead(m, r, D, p, f, F, i, l)
    BY <2>1, <2>2, <2>3, <2>4 DEF Turned, DownRead
  <2> QED BY <2>5
<1> QED BY <1>9, <1>10 DEF r

-----------------------------------------------------------------------------
(* Limbs stay limbs. *)

LEMMA CutIs == ASSUME NEW x \in Int PROVE Cut(x) \in Limb /\ x = Base * (x \div Base) + Cut(x) /\ x \div Base \in Int
<1> DEFINE b == Base
<1>1. b \in Nat /\ b > 0
  BY BaseIs
<1> HIDE DEF b
<1>2. (x % b) \in 0..(b - 1) /\ x = b * (x \div b) + (x % b) /\ x \div b \in Int
  BY <1>1
<1>3. 0 <= (x % b) /\ (x % b) < b /\ (x % b) \in Int
  BY <1>1, <1>2
<1>4. Cut(x) = x % b
  BY DEF Cut, b
<1>5. Cut(x) \in Limb
  BY <1>3, <1>4, LimbIs DEF b
<1> QED BY <1>2, <1>4, <1>5 DEF b

LEMMA ShiftBits == ASSUME NEW by \in Nat PROVE (by % (2 * H)) \in Nat /\ (by % (2 * H)) < 2 * H /\ Two(by % (2 * H)) \in Nat /\ Two(by % (2 * H)) >= 1
<1> DEFINE w == 2 * H
<1>1. w \in Nat /\ w > 0
  BY BaseIs
<1> HIDE DEF w
<1>2. (by % w) \in Nat /\ (by % w) < w
  BY <1>1
<1>3. Two(by % w) \in Nat /\ Two(by % w) >= 1
  BY <1>2, TwoIs
<1> QED BY <1>2, <1>3 DEF w

LEMMA ShlLimb == ASSUME NEW x \in Limb, NEW by \in Nat PROVE Shl(x, by) \in Limb
<1>1. x \in Nat /\ Two(by % (2 * H)) \in Nat
  BY LimbIs, ShiftBits
<1> DEFINE t == Two(by % (2 * H))
<1>2. Shl(x, by) = Cut(x * t)
  BY DEF Shl
<1> HIDE DEF t
<1>3. x * t \in Int
  BY <1>1 DEF t
<1> QED BY <1>2, <1>3, CutIs

LEMMA ShrLimb == ASSUME NEW x \in Limb, NEW by \in Nat PROVE Shr(x, by) \in Limb
<1> DEFINE t == Two(by % (2 * H))
           q == x \div t
<1>2. Shr(x, by) = q
  BY DEF Shr
<1>0. t \in Nat /\ t >= 1
  BY ShiftBits
<1> HIDE DEF t
<1>1. x \in Nat /\ x < Base /\ t \in Nat /\ t >= 1 /\ Base \in Nat
  BY <1>0, LimbIs, BaseIs
<1>3. q \in Nat /\ x = q * t + (x % t) /\ (x % t) \in 0..(t - 1)
  BY <1>1, DivOf
<1> HIDE DEF q
<1>4. q * t >= q
  <2>1. PICK u \in Nat : t = u + 1
    <3>1. t - 1 \in Nat /\ t = (t - 1) + 1
      BY <1>1
    <3> QED BY <3>1
  <2>2. q * t = q * u + q /\ q * u \in Nat
    BY <1>3, <2>1
  <2> QED BY <1>3, <2>2
<1>5. q * t \in Nat
  BY <1>1, <1>3
<1>6. q < Base
  BY <1>1, <1>3, <1>4, <1>5
<1> QED BY <1>1, <1>2, <1>3, <1>6, LimbIs

LEMMA CrossingLimb ==
  ASSUME NEW x \in Limb, NEW by \in Nat
  PROVE  CrossingUp(x, by) \in Limb /\ CrossingDown(x, by) \in Limb
<1> DEFINE e == 2 * H - (by % (2 * H))
<1>1. e \in Nat
  <2>1. 2 * H \in Nat
    BY BaseIs
  <2> DEFINE w == 2 * H
             v == by % (2 * H)
  <2>2. w \in Nat /\ v \in Nat /\ v < w
    BY <2>1, ShiftBits
  <2> HIDE DEF w, v
  <2>3. w - v \in Nat
    BY <2>2
  <2> QED BY <2>3 DEF w, v
<1>2. 0 \in Limb
  BY LimbIs, BaseIs
<1> HIDE DEF e
<1>3. Shr(x, e) \in Limb /\ Shl(x, e) \in Limb
  BY <1>1, ShrLimb, ShlLimb
<1> QED BY <1>2, <1>3, Zenon DEF CrossingUp, CrossingDown, e

LEMMA NotLimb == ASSUME NEW x \in Limb PROVE Base - 1 - x \in Limb
<1> DEFINE b == Base
<1>0. \A y : y \in Limb <=> y \in Int /\ 0 <= y /\ y < b
  BY LimbIs
<1>3. b \in Nat
  BY BaseIs
<1> HIDE DEF b
<1>1. x \in Nat /\ x < b
  BY <1>0
<1>2. b - 1 - x \in Nat /\ b - 1 - x < b
  BY <1>1, <1>3
<1> QED BY <1>0, <1>2 DEF b

LEMMA MixedLimb == ASSUME NEW x \in Limb, NEW y \in Limb, NEW f \in BitMaps PROVE Mixed(x, y, f) \in Limb
BY LimbIs, MixedSum

-----------------------------------------------------------------------------
(* The loop with a carry. *)

Carries(at, carry, m, D, p, k, S) ==
    /\ at \in [0..k -> [D -> Limb]] /\ carry \in [0..k -> Int]
    /\ at[0] = m /\ carry[0] = 0
    /\ \A i \in 0..(k - 1) :
         /\ at[i + 1] = [at[i] EXCEPT ![p + i] = Cut(S[i][at[i]] + carry[i])]
         /\ carry[i + 1] = (S[i][at[i]] + carry[i]) \div Base

\* What the loop ends with
CarryRun(r, m, D, p, k, S) ==
    \E at, carry : Carries(at, carry, m, D, p, k, S) /\ r = at[k]
Columns(S, D, k) == \A i \in 0..(k - 1) : S[i] \in [[D -> Limb] -> Int]
CarryTo(u, g, x) == [m |-> [u.m EXCEPT ![x] = Cut(g[u.m] + u.c)], c |-> (g[u.m] + u.c) \div Base]
CarryLoop(f, m, p, k, S) ==
    f = [i \in 0..k |->
          IF i = 0 THEN [m |-> m, c |-> 0] ELSE CarryTo(f[i - 1], S[i - 1], p + i - 1)]

LEMMA CarryStep ==
  ASSUME NEW D, NEW l \in [D -> Limb], NEW c \in Int, NEW s \in Int, NEW x
  PROVE  [l EXCEPT ![x] = Cut(s + c)] \in [D -> Limb] /\ (s + c) \div Base \in Int
<1>1. s + c \in Int
  OBVIOUS
<1>2. Cut(s + c) \in Limb /\ (s + c) \div Base \in Int
  BY <1>1, CutIs
<1> QED BY <1>2

LEMMA CarryLoops ==
  ASSUME NEW D, NEW m \in [D -> Limb], NEW p \in Int, NEW k \in Nat,
         NEW S, Columns(S, D, k)
  PROVE  \E f : CarryLoop(f, m, p, k, S)
<1> DEFINE M == [D -> Limb]
           T == [m : M, c : Int]
           after(l, i) == [m |-> [l.m EXCEPT ![p + i - 1] = Cut(S[i - 1][l.m] + l.c)],
                           c |-> (S[i - 1][l.m] + l.c) \div Base]
           G == [i \in 1..k |-> [l \in T |-> after(l, i)]]
<1>1. ASSUME NEW i \in 1..k, NEW l \in T
      PROVE  after(l, i) \in T
  <2>1. l.m \in M /\ l.c \in Int
    OBVIOUS
  <2>2. S[i - 1][l.m] \in Int
    <3>1. i - 1 \in 0..(k - 1)
      OBVIOUS
    <3>2. S[i - 1] \in [M -> Int]
      BY <3>1 DEF Columns
    <3> HIDE DEF M
    <3> QED BY <2>1, <3>2
  <2> DEFINE s == S[i - 1][l.m]
             x == p + i - 1
  <2> HIDE DEF s, x
  <2>3. [l.m EXCEPT ![x] = Cut(s + l.c)] \in M /\ (s + l.c) \div Base \in Int
    BY <2>1, <2>2, CarryStep DEF s
  <2>4. [m |-> [l.m EXCEPT ![x] = Cut(s + l.c)], c |-> (s + l.c) \div Base] \in T
    <3> HIDE DEF M
    <3> QED BY <2>3
  <2> QED BY <2>4 DEF s, x
<1>2. \A i \in 1..k : \A l \in T : G[i][l] = after(l, i)
  <2> HIDE DEF after, T
  <2> QED OBVIOUS
<1>3. Turns(T, k, G)
  <2> HIDE DEF after, T
  <2> QED BY <1>1 DEF Turns
<1> HIDE DEF G
<1>4. [m |-> m, c |-> 0] \in T
  OBVIOUS
<1>5. PICK f : Loops(f, T, [m |-> m, c |-> 0], k, G)
  <2> HIDE DEF T
  <2> QED BY <1>3, <1>4, LoopExists, Zenon
<1> HIDE DEF after, T
<1>6. ASSUME NEW i \in 1..k PROVE f[i] = after(f[i - 1], i)
  <2>1. f[i - 1] \in T
    <3>1. i - 1 \in 0..k
      OBVIOUS
    <3> QED BY <1>5, <3>1 DEF Loops
  <2> QED BY <1>2, <1>5, <2>1 DEF Loops
<1>7. \A i \in 0..k : f[i] = IF i = 0 THEN [m |-> m, c |-> 0] ELSE after(f[i - 1], i)
  <2>1. f[0] = [m |-> m, c |-> 0]
    BY <1>5, Zenon DEF Loops
  <2>2. \A i \in 0..k : i # 0 => i \in 1..k
    OBVIOUS
  <2> QED BY <1>6, <2>1, <2>2, Zenon
<1>8. f \in [0..k -> T]
  BY <1>5 DEF Loops
<1>9. f = [i \in 0..k |-> IF i = 0 THEN [m |-> m, c |-> 0] ELSE after(f[i - 1], i)]
  BY <1>7, <1>8, Zenon
<1>10. CarryLoop(f, m, p, k, S)
  BY <1>9, Zenon DEF CarryLoop, CarryTo, after
<1> QED BY <1>10

LEMMA CarriedIs ==
  ASSUME NEW D, NEW m \in [D -> Limb], NEW p \in Int, NEW k \in Nat,
         NEW S, Columns(S, D, k)
  PROVE  CarryRun(Carried(m, p, k, S), m, D, p, k, S)
<1> DEFINE upTo == CHOOSE f : CarryLoop(f, m, p, k, S)
<1>1. Carried(m, p, k, S) = upTo[k].m
  BY DEF Carried, CarryLoop, CarryTo
<1>2. CarryLoop(upTo, m, p, k, S)
  BY CarryLoops, Zenon
<1> HIDE DEF upTo
<1> DEFINE at == [i \in 0..k |-> upTo[i].m]
           carry == [i \in 0..k |-> upTo[i].c]
           s(i) == S[i][at[i]] + carry[i]
<1>3. upTo[0] = [m |-> m, c |-> 0]
  BY <1>2 DEF CarryLoop
<1>4. ASSUME NEW i \in 0..(k - 1)
      PROVE  /\ at[i + 1] = [at[i] EXCEPT ![p + i] = Cut(S[i][at[i]] + carry[i])]
             /\ carry[i + 1] = (S[i][at[i]] + carry[i]) \div Base
  <2>1. i + 1 \in 0..k /\ i + 1 # 0 /\ i + 1 - 1 = i /\ i \in 0..k /\ p + (i + 1) - 1 = p + i
    OBVIOUS
  <2>2. upTo[i + 1] = CarryTo(upTo[i], S[i], p + i)
    BY <1>2, <2>1 DEF CarryLoop
  <2>3. at[i + 1] = upTo[i + 1].m /\ carry[i + 1] = upTo[i + 1].c /\ at[i] = upTo[i].m /\ carry[i] = upTo[i].c
    BY <2>1
  <2> HIDE DEF at, carry
  <2>4. upTo[i + 1].m = [upTo[i].m EXCEPT ![p + i] = Cut(S[i][upTo[i].m] + upTo[i].c)]
        /\ upTo[i + 1].c = (S[i][upTo[i].m] + upTo[i].c) \div Base
    BY <2>2 DEF CarryTo
  <2> QED BY <2>3, <2>4, Zenon
<1>5. at[0] = m /\ carry[0] = 0
  BY <1>3
<1> HIDE DEF at, carry
<1> DEFINE P == {i \in 0..k : at[i] \in [D -> Limb] /\ carry[i] \in Int}
<1>6. 0 \in P
  BY <1>5
<1>7. ASSUME NEW i \in Nat, i < k, i \in P PROVE i + 1 \in P
  <2>1. i \in 0..(k - 1) /\ i + 1 \in 0..k
    BY <1>7
  <2>2. at[i] \in [D -> Limb] /\ carry[i] \in Int /\ S[i] \in [[D -> Limb] -> Int]
    BY <1>7, <2>1 DEF Columns
  <2> DEFINE l == at[i]
             c == carry[i]
             t == S[i][at[i]]
             x == p + i
  <2>3. l \in [D -> Limb] /\ c \in Int /\ t \in Int
    BY <2>2
  <2>4. at[i + 1] = [l EXCEPT ![x] = Cut(t + c)] /\ carry[i + 1] = (t + c) \div Base
    BY <1>4, <2>1
  <2> HIDE DEF l, c, t, x
  <2>5. [l EXCEPT ![x] = Cut(t + c)] \in [D -> Limb] /\ (t + c) \div Base \in Int
    BY <2>3, CarryStep
  <2> QED BY <2>1, <2>4, <2>5
<1> HIDE DEF P
<1>8. \A i \in 0..k : i \in P
  BY <1>6, <1>7, UpTo
<1>9. at \in [0..k -> [D -> Limb]] /\ carry \in [0..k -> Int]
  <2>1. \A i \in 0..k : at[i] \in [D -> Limb] /\ carry[i] \in Int
    BY <1>8 DEF P
  <2> QED BY <2>1 DEF at, carry
<1>10. Carries(at, carry, m, D, p, k, S)
  BY <1>4, <1>5, <1>9 DEF Carries
<1>11. Carried(m, p, k, S) = at[k]
  BY <1>1 DEF at
<1> QED BY <1>10, <1>11 DEF CarryRun

-----------------------------------------------------------------------------
(* What the methods do limb by limb. *)

LEMMA ReadLimb ==
  ASSUME NEW D, NEW l \in [D -> Limb], NEW p, NEW k, Fits(D, p, k), NEW i \in 0..(k - 1)
  PROVE  p + i \in D /\ l[p + i] \in Limb
BY DEF Fits

LEMMA WindowFits ==
  ASSUME NEW D, NEW l \in [D -> Limb], NEW p, NEW k, Fits(D, p, k)
  PROVE  Window(l, p, k)
BY ReadLimb DEF Window

LEMMA MemIs == ASSUME NEW D, NEW m \in [D -> Limb] PROVE Mem(m) = [D -> Limb]
BY DEF Mem

\* Two windows are the same or have nothing in common.
Free(p, q, k) == p = q \/ p + k <= q \/ q + k <= p

LEMMA InsideTwice ==
  ASSUME NEW D \in SUBSET Int, NEW p \in Int, NEW j \in Nat, NEW k \in Nat, j <= k,
         NEW m, NEW r, NEW s, Inside(m, r, D, p, k), Inside(r, s, D, p, j)
  PROVE  Inside(m, s, D, p, k)
<1>1. ASSUME NEW x \in D, x \notin p..(p + k - 1) PROVE s[x] = m[x]
  <2>1. x \notin p..(p + j - 1)
    BY <1>1
  <2> QED BY <1>1, <2>1 DEF Inside
<1> QED BY <1>1 DEF Inside

\* xorEq(), orEq() and andEq()
BitwiseUp(m, p, q, k, f) ==
    Upward(m, p, k, [i \in 0..(k - 1) |-> [l \in Mem(m) |-> Mixed(l[p + i], l[q + i], f)]])
LEMMA BitwiseEq ==
  ASSUME NEW D \in SUBSET Int, NEW m \in [D -> Limb], NEW p \in Int, NEW q \in Int, NEW k \in Nat,
         Fits(D, p, k), Fits(D, q, k), NEW f \in BitMaps
  PROVE  /\ Inside(m, BitwiseUp(m, p, q, k, f), D, p, k)
         /\ Free(p, q, k) =>
              \A i \in 0..(k - 1) : BitwiseUp(m, p, q, k, f)[p + i] = Mixed(m[p + i], m[q + i], f)
<1> DEFINE F == [i \in 0..(k - 1) |-> [l \in Mem(m) |-> Mixed(l[p + i], l[q + i], f)]]
           r == Upward(m, p, k, F)
<1>0. BitwiseUp(m, p, q, k, f) = r
  BY DEF BitwiseUp
<1>1. \A i \in 0..(k - 1) : F[i] = [l \in [D -> Limb] |-> Mixed(l[p + i], l[q + i], f)]
  BY MemIs
<1> HIDE DEF F
<1>2. ASSUME NEW i \in 0..(k - 1) PROVE F[i] \in [[D -> Limb] -> Limb]
  <2>1. ASSUME NEW l \in [D -> Limb] PROVE Mixed(l[p + i], l[q + i], f) \in Limb
    <3>1. l[p + i] \in Limb /\ l[q + i] \in Limb
      BY ReadLimb
    <3> QED BY <3>1, MixedLimb
  <2> QED BY <1>1, <2>1
<1>3. /\ Inside(m, r, D, p, k)
      /\ \A i \in 0..(k - 1) : \E l : UpRead(m, r, D, p, F, i, l)
  BY <1>2, UpwardIs
<1> HIDE DEF r
<1>4. ASSUME Free(p, q, k), NEW i \in 0..(k - 1)
      PROVE  r[p + i] = Mixed(m[p + i], m[q + i], f)
  <2>1. PICK l : UpRead(m, r, D, p, F, i, l)
    BY <1>3
  <2>2. p + i \in D /\ q + i \in D
    BY ReadLimb
  <2>3. p + i \notin p..(p + i - 1) /\ q + i \notin p..(p + i - 1)
    BY <1>4 DEF Free
  <2>4. l \in [D -> Limb] /\ l[p + i] = m[p + i] /\ l[q + i] = m[q + i] /\ r[p + i] = F[i][l]
    BY <2>1, <2>2, <2>3 DEF UpRead
  <2>5. F[i][l] = Mixed(l[p + i], l[q + i], f)
    BY <1>1, <2>4
  <2> QED BY <2>4, <2>5
<1> QED BY <1>0, <1>3, <1>4

LEMMA NotEq ==
  ASSUME NEW D \in SUBSET Int, NEW m \in [D -> Limb], NEW p \in Int, NEW k \in Nat, Fits(D, p, k)
  PROVE  /\ Inside(m, notEq(m, p, k), D, p, k)
         /\ \A i \in 0..(k - 1) : notEq(m, p, k)[p + i] = Base - 1 - m[p + i]
<1> DEFINE F == [i \in 0..(k - 1) |-> [l \in Mem(m) |-> Base - 1 - l[p + i]]]
           r == Upward(m, p, k, F)
<1>0. notEq(m, p, k) = r
  BY DEF notEq
<1>1. \A i \in 0..(k - 1) : F[i] = [l \in [D -> Limb] |-> Base - 1 - l[p + i]]
  BY MemIs
<1> HIDE DEF F
<1>2. ASSUME NEW i \in 0..(k - 1) PROVE F[i] \in [[D -> Limb] -> Limb]
  <2>1. ASSUME NEW l \in [D -> Limb] PROVE Base - 1 - l[p + i] \in Limb
    BY ReadLimb, NotLimb
  <2> QED BY <1>1, <2>1
<1>3. /\ Inside(m, r, D, p, k)
      /\ \A i \in 0..(k - 1) : \E l : UpRead(m, r, D, p, F, i, l)
  BY <1>2, UpwardIs
<1> HIDE DEF r
<1>4. ASSUME NEW i \in 0..(k - 1)
      PROVE  r[p + i] = Base - 1 - m[p + i]
  <2>1. PICK l : UpRead(m, r, D, p, F, i, l)
    BY <1>3
  <2>2. p + i \in D
    BY ReadLimb
  <2>3. p + i \notin p..(p + i - 1)
    OBVIOUS
  <2>4. l \in [D -> Limb] /\ l[p + i] = m[p + i] /\ r[p + i] = F[i][l]
    BY <2>1, <2>2, <2>3 DEF UpRead
  <2>5. F[i][l] = Base - 1 - l[p + i]
    BY <1>1, <2>4
  <2> QED BY <2>4, <2>5
<1> QED BY <1>0, <1>3, <1>4

LEMMA SetEq ==
  ASSUME NEW D \in SUBSET Int, NEW m \in [D -> Limb], NEW p \in Int, NEW q \in Int, NEW k \in Nat,
         Fits(D, p, k), Fits(D, q, k)
  PROVE  /\ Inside(m, setValue(m, p, q, k), D, p, k)
         /\ Free(p, q, k) => \A i \in 0..(k - 1) : setValue(m, p, q, k)[p + i] = m[q + i]
<1> DEFINE F == [i \in 0..(k - 1) |-> [l \in Mem(m) |-> l[q + i]]]
           r == Upward(m, p, k, F)
<1>0. setValue(m, p, q, k) = r
  BY DEF setValue
<1>1. \A i \in 0..(k - 1) : F[i] = [l \in [D -> Limb] |-> l[q + i]]
  BY MemIs
<1> HIDE DEF F
<1>2. ASSUME NEW i \in 0..(k - 1) PROVE F[i] \in [[D -> Limb] -> Limb]
  <2>1. ASSUME NEW l \in [D -> Limb] PROVE l[q + i] \in Limb
    BY ReadLimb
  <2> HIDE DEF r
  <2> QED BY <1>1, <2>1
<1>3. /\ Inside(m, r, D, p, k)
      /\ \A i \in 0..(k - 1) : \E l : UpRead(m, r, D, p, F, i, l)
  BY <1>2, UpwardIs
<1> HIDE DEF r
<1>4. ASSUME Free(p, q, k), NEW i \in 0..(k - 1)
      PROVE  r[p + i] = m[q + i]
  <2>1. PICK l : UpRead(m, r, D, p, F, i, l)
    BY <1>3
  <2>2. q + i \in D
    BY ReadLimb
  <2>3. q + i \notin p..(p + i - 1)
    BY <1>4 DEF Free
  <2>4. l \in [D -> Limb] /\ l[q + i] = m[q + i] /\ r[p + i] = F[i][l]
    BY <2>1, <2>2, <2>3 DEF UpRead
  <2>5. F[i][l] = l[q + i]
    BY <1>1, <2>4
  <2> QED BY <2>4, <2>5
<1> QED BY <1>0, <1>3, <1>4

\* Part of a window filled with a limb, or turned round
LEMMA FilledIs ==
  ASSUME NEW D \in SUBSET Int, NEW m \in [D -> Limb], NEW p \in Int, NEW k \in Nat,
         NEW x \in Limb, NEW a \in Int, NEW b \in Int, p <= a, b <= p + k
  PROVE  /\ Inside(m, filled(m, x, a, b), D, p, k)
         /\ \A y \in D : filled(m, x, a, b)[y] = IF y \in a..(b - 1) THEN x ELSE m[y]
<1> DEFINE r == filled(m, x, a, b)
<1>1. r = [y \in D |-> IF y \in a..(b - 1) THEN x ELSE m[y]]
  BY DEF filled
<1> HIDE DEF r
<1>2. \A y \in D : r[y] = IF y \in a..(b - 1) THEN x ELSE m[y]
  BY <1>1
<1>3. r \in [D -> Limb]
  BY <1>1
<1>4. ASSUME NEW y \in D, y \notin p..(p + k - 1) PROVE r[y] = m[y]
  <2>1. y \notin a..(b - 1)
    BY <1>4
  <2> QED BY <1>2, <2>1
<1> QED BY <1>2, <1>3, <1>4 DEF Inside, r

\* What the limb at y of r is when m is turned round between a and b
Mirrored(m, r, a, b, y) == r[y] = IF y \in a..(b - 1) THEN m[a + b - 1 - y] ELSE m[y]

LEMMA ReversedIs ==
  ASSUME NEW D \in SUBSET Int, NEW m \in [D -> Limb], NEW p \in Int, NEW k \in Nat, Fits(D, p, k),
         NEW a \in Int, NEW b \in Int, p <= a, b <= p + k
  PROVE  /\ Inside(m, reversed(m, a, b), D, p, k)
         /\ \A y \in D : Mirrored(m, reversed(m, a, b), a, b, y)
<1> DEFINE r == reversed(m, a, b)
<1>1. r = [y \in D |-> IF y \in a..(b - 1) THEN m[a + b - 1 - y] ELSE m[y]]
  BY DEF reversed
<1> HIDE DEF r
<1>2. \A y \in D : r[y] = IF y \in a..(b - 1) THEN m[a + b - 1 - y] ELSE m[y]
  BY <1>1
<1>3. r \in [D -> Limb]
  <2>1. ASSUME NEW y \in D, y \in a..(b - 1) PROVE m[a + b - 1 - y] \in Limb
    <3> DEFINE x == a + b - 1 - y
    <3>1. x - p \in 0..(k - 1) /\ p + (x - p) = x
      BY <2>1
    <3> HIDE DEF x
    <3>2. m[p + (x - p)] \in Limb
      BY <3>1, ReadLimb
    <3>3. m[x] \in Limb
      BY <3>1, <3>2
    <3> QED BY <3>3 DEF x
  <2> QED BY <1>1, <2>1
<1>4. ASSUME NEW y \in D, y \notin p..(p + k - 1) PROVE r[y] = m[y]
  <2>1. y \notin a..(b - 1)
    BY <1>4
  <2> QED BY <1>2, <2>1
<1>5. \A y \in D : Mirrored(m, r, a, b, y)
  BY <1>2 DEF Mirrored
<1> QED BY <1>3, <1>4, <1>5 DEF Inside, r

LEMMA PutInside ==
  ASSUME NEW D \in SUBSET Int, NEW m \in [D -> Limb], NEW p \in Int, NEW k \in Nat, Fits(D, p, k),
         NEW i \in 0..(k - 1), NEW x \in Limb
  PROVE  Inside(m, [m EXCEPT ![p + i] = x], D, p, k)
<1>1. p + i \in p..(p + k - 1)
  OBVIOUS
<1> QED BY <1>1 DEF Inside

\* Shifts: what is read at a limb has not been written yet.
LEMMA ByPos ==
  ASSUME NEW by \in Nat, NEW k \in Nat
  PROVE  byPos(by, k) \in 0..k /\ (by \div (2 * H) <= k => byPos(by, k) = by \div (2 * H))
         /\ (by \div (2 * H) > k => byPos(by, k) = k)
<1> DEFINE w == 2 * H
           x == by \div w
<1>1. w \in Nat /\ w > 0
  BY BaseIs
<1> HIDE DEF w
<1>2. x \in Nat
  BY <1>1
<1> HIDE DEF x
<1>3. byPos(by, k) = IF x < k THEN x ELSE k
  BY DEF byPos, Smaller, x, w
<1>4. byPos(by, k) \in 0..k /\ (x <= k => byPos(by, k) = x) /\ (x > k => byPos(by, k) = k)
  BY <1>2, <1>3
<1> QED BY <1>4 DEF x, w

LEMMA ShiftedLimb ==
  ASSUME NEW x \in Limb, NEW y \in Limb, NEW by \in Nat
  PROVE  /\ Mixed(Shl(x, by), CrossingUp(y, by), OrBit) \in Limb
         /\ Mixed(Shr(x, by), CrossingDown(y, by), OrBit) \in Limb
<1>1. OrBit \in BitMaps
  BY DEF BitMaps
<1>2. Shl(x, by) \in Limb /\ Shr(x, by) \in Limb /\ CrossingUp(y, by) \in Limb /\ CrossingDown(y, by) \in Limb
  BY ShlLimb, ShrLimb, CrossingLimb
<1> QED BY <1>1, <1>2, MixedLimb, LimbIs

\* The limbs of q, b limbs further up, zeros below them
LShifted(r, p, m, q, k, by) ==
    \A i \in 0..(k - 1) :
      r[p + i] = IF i < byPos(by, k) THEN 0
                 ELSE IF i = byPos(by, k) THEN Shl(m[q], by)
                 ELSE Mixed(Shl(m[q + i - byPos(by, k)], by),
                            CrossingUp(m[q + i - 1 - byPos(by, k)], by), OrBit)

LEMMA LShiftEq ==
  ASSUME NEW D \in SUBSET Int, NEW m \in [D -> Limb], NEW p \in Int, NEW k \in Nat, k >= 1,
         Fits(D, p, k), NEW by \in Nat
  PROVE  LET r == lShiftEq(m, p, k, by)
             b == byPos(by, k)
         IN  /\ Inside(m, r, D, p, k)
             /\ \A i \in 0..(k - 1) :
                  r[p + i] = IF i < b THEN 0
                             ELSE IF i = b THEN Shl(m[p], by)
                             ELSE Mixed(Shl(m[p + i - b], by), CrossingUp(m[p + i - 1 - b], by), OrBit)
<1> DEFINE r == lShiftEq(m, p, k, by)
           b == byPos(by, k)
           F == [i \in (b + 1)..(k - 1) |->
                   [l \in Mem(m) |->
                      Mixed(Shl(l[p + i - b], by), CrossingUp(l[p + i - 1 - b], by), OrBit)]]
           high == Downward(m, p, k - 1, b + 1, F)
<1>0. r = IF b = k THEN filled(high, 0, p, p + k)
          ELSE filled([high EXCEPT ![p + b] = Shl(high[p], by)], 0, p, p + b)
  BY DEF lShiftEq
<1>1. b \in 0..k
  BY ByPos
<1> HIDE DEF b
<1>2. \A i \in (b + 1)..(k - 1) :
        F[i] = [l \in [D -> Limb] |->
                  Mixed(Shl(l[p + i - b], by), CrossingUp(l[p + i - 1 - b], by), OrBit)]
  BY MemIs
<1> HIDE DEF F
<1>3. ASSUME NEW i \in (b + 1)..(k - 1)
      PROVE  p + i \in D /\ p + i - b \in D /\ p + i - 1 - b \in D
  <2>1. i \in 0..(k - 1) /\ i - b \in 0..(k - 1) /\ i - 1 - b \in 0..(k - 1)
    BY <1>1
  <2>2. p + i \in D /\ p + (i - b) \in D /\ p + (i - 1 - b) \in D
    BY <2>1 DEF Fits
  <2>3. p + (i - b) = p + i - b /\ p + (i - 1 - b) = p + i - 1 - b
    BY <1>1
  <2> QED BY <2>2, <2>3
<1>4. ASSUME NEW i \in (b + 1)..(k - 1) PROVE F[i] \in [[D -> Limb] -> Limb]
  <2>1. ASSUME NEW l \in [D -> Limb]
        PROVE  Mixed(Shl(l[p + i - b], by), CrossingUp(l[p + i - 1 - b], by), OrBit) \in Limb
    <3>1. l[p + i - b] \in Limb /\ l[p + i - 1 - b] \in Limb
      BY <1>3
    <3> QED BY <3>1, ShiftedLimb
  <2> QED BY <1>2, <2>1
<1>5. /\ high \in [D -> Limb]
      /\ \A x \in D : x \notin (p + (b + 1))..(p + (k - 1)) => high[x] = m[x]
      /\ \A i \in (b + 1)..(k - 1) : \E l : DownRead(m, high, D, p, k - 1, F, i, l)
  <2> DEFINE t == b + 1
             f == k - 1
  <2>1. t \in Int /\ f \in Int
    BY <1>1
  <2>2. high = Downward(m, p, f, t, F)
    OBVIOUS
  <2>3. \A i \in t..f : p + i \in D
    BY <1>3
  <2>5. \A i \in t..f : F[i] \in [[D -> Limb] -> Limb]
    BY <1>4
  <2> HIDE DEF t, f, high
  <2>6. /\ Downward(m, p, f, t, F) \in [D -> Limb]
        /\ \A x \in D : x \notin (p + t)..(p + f) => Downward(m, p, f, t, F)[x] = m[x]
        /\ \A i \in t..f : \E l : DownRead(m, Downward(m, p, f, t, F), D, p, f, F, i, l)
    BY <2>1, <2>3, <2>5, DownwardIs, Zenon
  <2>4. /\ high \in [D -> Limb]
        /\ \A x \in D : x \notin (p + t)..(p + f) => high[x] = m[x]
        /\ \A i \in t..f : \E l : DownRead(m, high, D, p, f, F, i, l)
    BY <2>2, <2>6, Zenon
  <2> QED BY <2>4 DEF t, f
<1> HIDE DEF high
<1>6. Inside(m, high, D, p, k)
  <2>1. ASSUME NEW x \in D, x \notin p..(p + k - 1) PROVE high[x] = m[x]
    <3>1. x \notin (p + (b + 1))..(p + (k - 1))
      BY <1>1, <2>1
    <3> QED BY <1>5, <3>1
  <2> QED BY <1>5, <2>1 DEF Inside
<1>7. ASSUME NEW i \in (b + 1)..(k - 1)
      PROVE  high[p + i] = Mixed(Shl(m[p + i - b], by), CrossingUp(m[p + i - 1 - b], by), OrBit)
  <2>1. PICK l : DownRead(m, high, D, p, k - 1, F, i, l)
    BY <1>5
  <2>2. p + i - b \notin (p + i + 1)..(p + (k - 1)) /\ p + i - 1 - b \notin (p + i + 1)..(p + (k - 1))
    BY <1>1
  <2>3. l \in [D -> Limb] /\ l[p + i - b] = m[p + i - b] /\ l[p + i - 1 - b] = m[p + i - 1 - b]
        /\ high[p + i] = F[i][l]
    BY <1>3, <2>1, <2>2 DEF DownRead
  <2>4. F[i][l] = Mixed(Shl(l[p + i - b], by), CrossingUp(l[p + i - 1 - b], by), OrBit)
    BY <1>2, <2>3
  <2> QED BY <2>3, <2>4
<1>8. 0 \in Limb
  BY LimbIs, BaseIs
<1>9. CASE b = k
  <2>1. r = filled(high, 0, p, p + k)
    BY <1>0, <1>9
  <2>2. Inside(high, r, D, p, k) /\ \A y \in D : r[y] = IF y \in p..(p + k - 1) THEN 0 ELSE high[y]
    BY <1>5, <1>8, <2>1, FilledIs
  <2>3. Inside(m, r, D, p, k)
    BY <1>6, <2>2, InsideTwice
  <2>4. ASSUME NEW i \in 0..(k - 1) PROVE r[p + i] = 0 /\ i < b
    <3>1. p + i \in D /\ p + i \in p..(p + k - 1)
      BY DEF Fits
    <3> QED BY <1>9, <2>2, <3>1
  <2> HIDE DEF r
  <2> QED BY <2>3, <2>4 DEF r, b
<1>10. CASE b # k
  <2> DEFINE s == [high EXCEPT ![p + b] = Shl(high[p], by)]
  <2>1. r = filled(s, 0, p, p + b)
    BY <1>0, <1>10
  <2>2. b \in 0..(k - 1) /\ p + b \in D /\ 0 \in 0..(k - 1) /\ p + 0 \in D
    BY <1>1, <1>10 DEF Fits
  <2>3. high[p] = m[p] /\ high[p] \in Limb
    <3>1. p \notin (p + (b + 1))..(p + (k - 1)) /\ p + 0 = p
      BY <1>1
    <3> QED BY <1>5, <2>2, <3>1
  <2>4. Shl(high[p], by) \in Limb
    BY <2>3, ShlLimb
  <2>5. Inside(high, s, D, p, k) /\ s \in [D -> Limb]
    BY <1>5, <2>2, <2>4, PutInside DEF Inside
  <2>6. s[p + b] = Shl(m[p], by) /\ \A i \in (b + 1)..(k - 1) : s[p + i] = high[p + i]
    BY <1>1, <1>3, <1>5, <2>2, <2>3
  <2> HIDE DEF s
  <2>7. Inside(s, r, D, p, k) /\ \A y \in D : r[y] = IF y \in p..(p + b - 1) THEN 0 ELSE s[y]
    <3>1. p + b <= p + k
      BY <1>1
    <3> QED BY <1>1, <1>8, <2>1, <2>5, <3>1, FilledIs
  <2>8. Inside(m, r, D, p, k)
    BY <1>6, <2>5, <2>7, InsideTwice
  <2> HIDE DEF r
  <2>9. ASSUME NEW i \in 0..(k - 1)
        PROVE  r[p + i] = IF i < b THEN 0
                          ELSE IF i = b THEN Shl(m[p], by)
                          ELSE Mixed(Shl(m[p + i - b], by), CrossingUp(m[p + i - 1 - b], by), OrBit)
    <3>1. p + i \in D
      BY DEF Fits
    <3>2. CASE i < b
      <4>1. p + i \in p..(p + b - 1)
        BY <1>1, <3>2
      <4> QED BY <2>7, <3>1, <3>2, <4>1
    <3>3. CASE i = b
      <4>1. p + i \notin p..(p + b - 1)
        BY <1>1, <3>3
      <4> QED BY <1>1, <2>6, <2>7, <3>1, <3>3, <4>1
    <3>4. CASE i > b
      <4>1. p + i \notin p..(p + b - 1) /\ i \in (b + 1)..(k - 1)
        BY <1>1, <3>4
      <4>2. r[p + i] = s[p + i]
        BY <2>7, <3>1, <4>1
      <4>3. s[p + i] = high[p + i]
        BY <2>6, <4>1
      <4>4. ~(i < b) /\ i # b
        BY <1>1, <3>4
      <4> QED BY <1>7, <4>1, <4>2, <4>3, <4>4, Zenon
    <3> QED BY <1>1, <3>2, <3>3, <3>4
  <2> QED BY <2>8, <2>9 DEF r, b
<1> QED BY <1>9, <1>10

\* The limbs of q, b limbs further down, with top above them
RShifted(r, p, m, q, k, by, top) ==
    \A i \in 0..(k - 1) :
      r[p + i] = IF i >= k - byPos(by, k) THEN top
                 ELSE Mixed(Shr(m[q + i + byPos(by, k)], by),
                            CrossingDown(IF i = k - byPos(by, k) - 1 THEN top
                                         ELSE m[q + i + byPos(by, k) + 1], by), OrBit)

LEMMA RShiftEq ==
  ASSUME NEW D \in SUBSET Int, NEW m \in [D -> Limb], NEW p \in Int, NEW k \in Nat, k >= 1,
         Fits(D, p, k), NEW by \in Nat, NEW top \in Limb
  PROVE  /\ Inside(m, rShiftEq(m, p, k, by, top), D, p, k)
         /\ RShifted(rShiftEq(m, p, k, by, top), p, m, p, k, by, top)
<1> DEFINE r == rShiftEq(m, p, k, by, top)
           b == byPos(by, k)
           Above(l, i) == IF i = k - b - 1 THEN top ELSE l[p + i + b + 1]
           F == [i \in 0..(k - b - 1) |->
                   [l \in Mem(m) |->
                      Mixed(Shr(l[p + i + b], by), CrossingDown(Above(l, i), by), OrBit)]]
           c == k - b
           low == Upward(m, p, c, F)
<1>0. r = filled(low, top, p + k - b, p + k)
  BY DEF rShiftEq
<1>1. b \in 0..k
  BY ByPos
<1> HIDE DEF b
<1>2. \A i \in 0..(c - 1) :
        F[i] = [l \in [D -> Limb] |->
                  Mixed(Shr(l[p + i + b], by), CrossingDown(Above(l, i), by), OrBit)]
  BY MemIs
<1> HIDE DEF F
<1>3. ASSUME NEW i \in 0..(c - 1)
      PROVE  p + i \in D /\ p + i + b \in D /\ (i # k - b - 1 => p + i + b + 1 \in D)
  <2>1. i \in 0..(k - 1) /\ i + b \in 0..(k - 1) /\ (i # k - b - 1 => i + b + 1 \in 0..(k - 1))
    BY <1>1
  <2>2. p + i \in D /\ p + (i + b) \in D /\ (i # k - b - 1 => p + (i + b + 1) \in D)
    BY <2>1 DEF Fits
  <2>3. p + (i + b) = p + i + b /\ p + (i + b + 1) = p + i + b + 1
    BY <1>1
  <2> QED BY <2>2, <2>3
<1>4. ASSUME NEW i \in 0..(c - 1), NEW l \in [D -> Limb]
      PROVE  l[p + i + b] \in Limb /\ Above(l, i) \in Limb
  BY <1>3
<1> HIDE DEF Above
<1>5. ASSUME NEW i \in 0..(c - 1) PROVE F[i] \in [[D -> Limb] -> Limb]
  <2>1. ASSUME NEW l \in [D -> Limb]
        PROVE  Mixed(Shr(l[p + i + b], by), CrossingDown(Above(l, i), by), OrBit) \in Limb
    BY <1>4, ShiftedLimb
  <2> QED BY <1>2, <2>1
<1>6. c \in Nat /\ c <= k /\ Fits(D, p, c)
  BY <1>1 DEF Fits
<1> HIDE DEF c
<1>7. /\ Inside(m, low, D, p, c)
      /\ \A i \in 0..(c - 1) : \E l : UpRead(m, low, D, p, F, i, l)
  BY <1>5, <1>6, UpwardIs
<1> HIDE DEF low
<1>8. ASSUME NEW i \in 0..(c - 1)
      PROVE  low[p + i] = Mixed(Shr(m[p + i + b], by), CrossingDown(Above(m, i), by), OrBit)
  <2>1. PICK l : UpRead(m, low, D, p, F, i, l)
    BY <1>7
  <2>2. p + i + b \notin p..(p + i - 1) /\ p + i + b + 1 \notin p..(p + i - 1)
    BY <1>1
  <2>3. l \in [D -> Limb] /\ l[p + i + b] = m[p + i + b] /\ low[p + i] = F[i][l]
    BY <1>3, <2>1, <2>2 DEF UpRead
  <2>4. Above(l, i) = Above(m, i)
    <3>1. i # k - b - 1 => l[p + i + b + 1] = m[p + i + b + 1]
      BY <1>3, <2>1, <2>2 DEF UpRead
    <3> QED BY <3>1 DEF Above
  <2>5. F[i][l] = Mixed(Shr(l[p + i + b], by), CrossingDown(Above(l, i), by), OrBit)
    BY <1>2, <2>3
  <2> QED BY <2>3, <2>4, <2>5
<1>9. Inside(low, r, D, p, k) /\ \A y \in D : r[y] = IF y \in (p + k - b)..(p + k - 1) THEN top ELSE low[y]
  <2> DEFINE x == p + k - b
             z == p + k
  <2>1. x \in Int /\ z \in Int /\ p <= x /\ z <= p + k /\ low \in [D -> Limb]
    BY <1>1, <1>7 DEF Inside
  <2> HIDE DEF x, z
  <2>2. Inside(low, filled(low, top, x, z), D, p, k)
        /\ \A y \in D : filled(low, top, x, z)[y] = IF y \in x..(z - 1) THEN top ELSE low[y]
    BY <2>1, FilledIs
  <2> QED BY <1>0, <2>2 DEF x, z
<1>10. Inside(m, low, D, p, k)
  <2>1. ASSUME NEW x \in D, x \notin p..(p + k - 1) PROVE x \notin p..(p + c - 1)
    BY <1>6, <2>1
  <2> QED BY <1>7, <2>1 DEF Inside
<1>11. Inside(m, r, D, p, k)
  BY <1>9, <1>10, InsideTwice
<1> HIDE DEF r
<1>12. ASSUME NEW i \in 0..(k - 1)
       PROVE  r[p + i] = IF i >= k - b THEN top
                         ELSE Mixed(Shr(m[p + i + b], by), CrossingDown(Above(m, i), by), OrBit)
  <2>1. p + i \in D
    BY DEF Fits
  <2>2. CASE i >= k - b
    <3>1. p + i \in (p + k - b)..(p + k - 1)
      BY <1>1, <2>2
    <3> QED BY <1>9, <2>1, <2>2, <3>1
  <2>3. CASE ~(i >= k - b)
    <3>1. p + i \notin (p + k - b)..(p + k - 1) /\ i \in 0..(c - 1)
      BY <1>1, <2>3 DEF c
    <3>2. r[p + i] = low[p + i]
      BY <1>9, <2>1, <3>1
    <3> QED BY <1>8, <2>3, <3>1, <3>2, Zenon
  <2> QED BY <2>2, <2>3
<1> QED BY <1>11, <1>12, Zenon DEF r, b, Above, RShifted

\* The window is turned round three times: its limbs move up by b, round the end.
LEMMA ThreeTurns ==
  ASSUME NEW D \in SUBSET Int, NEW m \in [D -> Limb], NEW p \in Int, NEW k \in Nat, k >= 1,
         Fits(D, p, k), NEW b \in 0..(k - 1)
  PROVE  LET r == reversed(reversed(reversed(m, p, p + k), p, p + b), p + b, p + k)
         IN  /\ Inside(m, r, D, p, k)
             /\ \A i \in 0..(k - 1) : r[p + i] = IF i >= b THEN m[p + (i - b)] ELSE m[p + (i - b + k)]
<1> DEFINE u == reversed(m, p, p + k)
           v == reversed(u, p, p + b)
           r == reversed(v, p + b, p + k)
           e == p + k
           d == p + b
<1>0. e \in Int /\ d \in Int /\ p <= p /\ p <= e /\ p <= d /\ d <= p + k /\ e <= p + k
  OBVIOUS
<1>1. Inside(m, u, D, p, k) /\ \A y \in D : Mirrored(m, u, p, e, y)
  <2>1. u = reversed(m, p, e)
    OBVIOUS
  <2> HIDE DEF u, e, d
  <2> QED BY <1>0, <2>1, ReversedIs, Zenon
<1>2. Inside(u, v, D, p, k) /\ \A y \in D : Mirrored(u, v, p, d, y)
  <2>1. u \in [D -> Limb]
    BY <1>1 DEF Inside
  <2>2. v = reversed(u, p, d)
    OBVIOUS
  <2> HIDE DEF u, v, e, d
  <2> QED BY <1>0, <2>1, <2>2, ReversedIs, Zenon
<1>3. Inside(v, r, D, p, k) /\ \A y \in D : Mirrored(v, r, d, e, y)
  <2>1. v \in [D -> Limb]
    BY <1>2 DEF Inside
  <2>2. r = reversed(v, d, e)
    OBVIOUS
  <2> HIDE DEF v, r, e, d
  <2> QED BY <1>0, <2>1, <2>2, ReversedIs, Zenon
<1> HIDE DEF u, v, r
<1>4. Inside(m, r, D, p, k)
  <2>1. Inside(m, v, D, p, k)
    BY <1>1, <1>2, InsideTwice
  <2> QED BY <1>3, <2>1, InsideTwice
<1>5. ASSUME NEW i \in 0..(k - 1)
      PROVE  r[p + i] = IF i >= b THEN m[p + (i - b)] ELSE m[p + (i - b + k)]
  <2>1. \A j \in 0..(k - 1) : p + j \in D
    BY DEF Fits
  <2>2. CASE i >= b
    <3> DEFINE j == b + k - 1 - i
               g == i - b
    <3>1. j \in 0..(k - 1) /\ g \in 0..(k - 1) /\ p + i \in d..(e - 1) /\ d + e - 1 - (p + i) = p + j
          /\ p + j \notin p..(d - 1) /\ p + j \in p..(e - 1) /\ p + e - 1 - (p + j) = p + g
      BY <2>2
    <3> HIDE DEF j, e, d, g
    <3>2. p + i \in D /\ p + j \in D
      BY <2>1, <3>1
    <3>3. r[p + i] = v[p + j]
      BY <1>3, <3>1, <3>2 DEF Mirrored
    <3>4. v[p + j] = u[p + j]
      BY <1>2, <3>1, <3>2 DEF Mirrored
    <3>5. u[p + j] = m[p + g]
      BY <1>1, <3>1, <3>2 DEF Mirrored
    <3> QED BY <2>2, <3>3, <3>4, <3>5 DEF g
  <2>3. CASE i < b
    <3> DEFINE j == b - 1 - i
               g == i - b + k
    <3>1. j \in 0..(k - 1) /\ g \in 0..(k - 1) /\ p + i \notin d..(e - 1) /\ p + i \in p..(d - 1)
          /\ p + d - 1 - (p + i) = p + j
          /\ p + j \in p..(e - 1) /\ p + e - 1 - (p + j) = p + g
      BY <2>3
    <3> HIDE DEF j, e, d, g
    <3>2. p + i \in D /\ p + j \in D
      BY <2>1, <3>1
    <3>3. r[p + i] = v[p + i]
      BY <1>3, <3>1, <3>2 DEF Mirrored
    <3>4. v[p + i] = u[p + j]
      BY <1>2, <3>1, <3>2 DEF Mirrored
    <3>5. u[p + j] = m[p + g]
      BY <1>1, <3>1, <3>2 DEF Mirrored
    <3> QED BY <2>3, <3>3, <3>4, <3>5 DEF g
  <2> QED BY <2>2, <2>3
<1> QED BY <1>4, <1>5 DEF u, v, r

\* The limbs moved round by b
TurnedBy(m, q, k, b) == [i \in 0..(k - 1) |-> IF i >= b THEN m[q + (i - b)] ELSE m[q + (i - b + k)]]
Rotated(r, p, g, k, by) ==
    \A i \in 0..(k - 1) :
      r[p + i] = Mixed(Shl(g[i], by), CrossingUp(g[IF i = 0 THEN k - 1 ELSE i - 1], by), OrBit)

LEMMA RotEq ==
  ASSUME NEW D \in SUBSET Int, NEW m \in [D -> Limb], NEW p \in Int, NEW k \in Nat, k >= 1,
         Fits(D, p, k), NEW by \in Nat
  PROVE  /\ Inside(m, lRotEq(m, p, k, by), D, p, k)
         /\ Rotated(lRotEq(m, p, k, by), p, TurnedBy(m, p, k, (by \div (2 * H)) % k), k, by)
<1> DEFINE r == lRotEq(m, p, k, by)
           b == (by \div (2 * H)) % k
           from(i) == IF i >= b THEN m[p + (i - b)] ELSE m[p + (i - b + k)]
           moved == reversed(reversed(reversed(m, p, p + k), p, p + b), p + b, p + k)
           back == moved[p + k - 1]
           F == [i \in 1..(k - 1) |->
                   [l \in Mem(m) |-> Mixed(Shl(l[p + i], by), CrossingUp(l[p + i - 1], by), OrBit)]]
           f == k - 1
           high == Downward(moved, p, f, 1, F)
<1>0. r = [high EXCEPT ![p] = Mixed(Shl(high[p], by), CrossingUp(back, by), OrBit)]
  BY DEF lRotEq
<1>1. b \in 0..(k - 1)
  <2> DEFINE w == 2 * H
             x == by \div w
  <2>1. w \in Nat /\ w > 0
    BY BaseIs
  <2> HIDE DEF w
  <2>2. x \in Nat
    BY <2>1
  <2> HIDE DEF x
  <2>3. (x % k) \in 0..(k - 1)
    BY <2>2
  <2> QED BY <2>3 DEF x, w
<1> HIDE DEF b
<1>2. Inside(m, moved, D, p, k) /\ \A i \in 0..(k - 1) : moved[p + i] = from(i)
  <2>1. /\ Inside(m, moved, D, p, k)
        /\ \A i \in 0..(k - 1) : moved[p + i] = IF i >= b THEN m[p + (i - b)] ELSE m[p + (i - b + k)]
    BY <1>1, ThreeTurns, ZenonT(60)
  <2> HIDE DEF moved
  <2> QED BY <2>1
<1> DEFINE g == TurnedBy(m, p, k, b)
<1>g. \A i \in 0..(k - 1) : g[i] = from(i)
  BY DEF TurnedBy
<1> HIDE DEF moved, from, g
<1>3. moved \in [D -> Limb]
  BY <1>2 DEF Inside
<1>4. \A i \in 1..f : F[i] = [l \in [D -> Limb] |->
                                Mixed(Shl(l[p + i], by), CrossingUp(l[p + i - 1], by), OrBit)]
  BY MemIs
<1> HIDE DEF F
<1>5. ASSUME NEW i \in 1..f PROVE p + i \in D /\ p + i - 1 \in D /\ i \in 0..(k - 1) /\ i - 1 \in 0..(k - 1)
  <2>1. i \in 0..(k - 1) /\ i - 1 \in 0..(k - 1) /\ p + (i - 1) = p + i - 1
    OBVIOUS
  <2>2. p + i \in D /\ p + (i - 1) \in D
    BY <2>1 DEF Fits
  <2> QED BY <2>1, <2>2
<1>6. f \in Int /\ 1 \in Int /\ p \in D /\ p + 0 = p /\ 0 \in 0..(k - 1) /\ p + f \in D /\ f \in 0..(k - 1)
      /\ p + f = p + k - 1
  <2>1. p + 0 \in D /\ p + f \in D
    BY DEF Fits
  <2> QED BY <2>1
<1>7. \A i \in 1..f : F[i] \in [[D -> Limb] -> Limb]
  <2>1. ASSUME NEW i \in 1..f, NEW l \in [D -> Limb]
        PROVE  Mixed(Shl(l[p + i], by), CrossingUp(l[p + i - 1], by), OrBit) \in Limb
    <3>1. l[p + i] \in Limb /\ l[p + i - 1] \in Limb
      BY <1>5
    <3> QED BY <3>1, ShiftedLimb
  <2> QED BY <1>4, <2>1
<1>8. back = from(f)
  BY <1>2, <1>6
<1> HIDE DEF back, f
<1>9. /\ high \in [D -> Limb]
      /\ \A x \in D : x \notin (p + 1)..(p + f) => high[x] = moved[x]
      /\ \A i \in 1..f : \E l : DownRead(moved, high, D, p, f, F, i, l)
  <2>1. \A i \in 1..f : p + i \in D
    BY <1>5
  <2> QED BY <1>3, <1>6, <1>7, <2>1, DownwardIs, Zenon
<1> HIDE DEF high
<1>10. ASSUME NEW i \in 1..f
       PROVE  high[p + i] = Mixed(Shl(from(i), by), CrossingUp(from(i - 1), by), OrBit)
  <2>1. PICK l : DownRead(moved, high, D, p, f, F, i, l)
    BY <1>9
  <2>2. p + i \notin (p + i + 1)..(p + f) /\ p + i - 1 \notin (p + i + 1)..(p + f) /\ p + (i - 1) = p + i - 1
    BY <1>6
  <2>3. l \in [D -> Limb] /\ l[p + i] = moved[p + i] /\ l[p + i - 1] = moved[p + i - 1]
        /\ high[p + i] = F[i][l]
    BY <1>5, <2>1, <2>2 DEF DownRead
  <2>4. F[i][l] = Mixed(Shl(l[p + i], by), CrossingUp(l[p + i - 1], by), OrBit)
    BY <1>4, <2>3
  <2>5. moved[p + i] = from(i) /\ moved[p + i - 1] = from(i - 1)
    BY <1>2, <1>5, <2>2
  <2> QED BY <2>3, <2>4, <2>5
<1>11. high[p] = from(0)
  <2>1. p \notin (p + 1)..(p + f)
    BY <1>6
  <2> QED BY <1>2, <1>6, <1>9, <2>1
<1>12. high[p] \in Limb /\ back \in Limb
  <2>1. back = moved[p + f]
    BY <1>6 DEF back
  <2> QED BY <1>3, <1>6, <1>9, <2>1
<1> DEFINE x == Mixed(Shl(high[p], by), CrossingUp(back, by), OrBit)
<1>13. x \in Limb
  BY <1>12, ShiftedLimb
<1>14. x = Mixed(Shl(from(0), by), CrossingUp(from(f), by), OrBit)
  BY <1>8, <1>11
<1>15. r = [high EXCEPT ![p] = x]
  BY <1>0
<1> HIDE DEF x
<1>16. Inside(m, r, D, p, k)
  <2>1. Inside(moved, high, D, p, k)
    <3>1. ASSUME NEW y \in D, y \notin p..(p + k - 1) PROVE y \notin (p + 1)..(p + f)
      BY <1>6, <3>1
    <3> QED BY <1>9, <3>1 DEF Inside
  <2>2. Inside(high, r, D, p, k)
    <3>1. r = [high EXCEPT ![p + 0] = x]
      BY <1>6, <1>15
    <3>2. high \in [D -> Limb]
      BY <1>9
    <3> DEFINE s == [high EXCEPT ![p + 0] = x]
    <3>3. Inside(high, s, D, p, k)
      BY <1>6, <1>13, <3>2, PutInside
    <3> HIDE DEF s
    <3> QED BY <3>1, <3>3 DEF s
  <2> QED BY <1>2, <2>1, <2>2, InsideTwice
<1>17. ASSUME NEW i \in 0..(k - 1)
       PROVE  r[p + i] = Mixed(Shl(g[i], by), CrossingUp(g[IF i = 0 THEN k - 1 ELSE i - 1], by), OrBit)
  <2>1. CASE i = 0
    <3>1. r[p + i] = Mixed(Shl(from(0), by), CrossingUp(from(f), by), OrBit)
      BY <1>6, <1>9, <1>14, <1>15, <2>1
    <3>2. g[0] = from(0) /\ g[f] = from(f)
      BY <1>6, <1>g
    <3>3. (IF i = 0 THEN k - 1 ELSE i - 1) = f
      BY <2>1 DEF f
    <3> QED BY <2>1, <3>1, <3>2, <3>3, Zenon
  <2>2. CASE i # 0
    <3>1. i \in 1..f
      BY <2>2 DEF f
    <3>2. p + i # p
      BY <3>1
    <3>3. r[p + i] = high[p + i]
      BY <1>5, <1>9, <1>15, <3>1, <3>2
    <3>4. g[i] = from(i) /\ g[i - 1] = from(i - 1)
      BY <1>5, <1>g, <3>1
    <3>5. (IF i = 0 THEN k - 1 ELSE i - 1) = i - 1
      BY <2>2
    <3> QED BY <1>10, <3>1, <3>3, <3>4, <3>5, Zenon
  <2> QED BY <2>1, <2>2
<1> QED BY <1>16, <1>17, Zenon DEF r, b, g, Rotated

LEMMA BitsPositive == \A k \in Nat : k >= 1 => Bits(k) \in Nat /\ Bits(k) > 0
<1> SUFFICES ASSUME NEW k \in Nat, k >= 1 PROVE Bits(k) \in Nat /\ Bits(k) > 0
  OBVIOUS
<1> DEFINE j == k - 1
           w == 2 * H
<1>1. j \in Nat /\ k = j + 1 /\ w \in Nat /\ w > 0
  BY BaseIs
<1>2. Bits(k) = w * k
  BY DEF Bits
<1> HIDE DEF j, w
<1>3. w * k = w * j + w /\ w * j \in Nat
  BY <1>1
<1> QED BY <1>1, <1>2, <1>3

LEMMA RRotEq ==
  ASSUME NEW D \in SUBSET Int, NEW m \in [D -> Limb], NEW p \in Int, NEW k \in Nat, k >= 1,
         Fits(D, p, k), NEW by \in Int
  PROVE  /\ (Bits(k) - by) % Bits(k) \in Nat
         /\ Inside(m, rRotEq(m, p, k, by), D, p, k)
<1> DEFINE w == Bits(k)
<1>1. w \in Nat /\ w > 0
  BY BitsPositive
<1> HIDE DEF w
<1>2. ((w - by) % w) \in Nat
  BY <1>1
<1>3. Inside(m, lRotEq(m, p, k, (w - by) % w), D, p, k)
  <2> DEFINE c == (w - by) % w
  <2>1. c \in Nat
    BY <1>2
  <2> HIDE DEF c
  <2> QED BY <2>1, RotEq DEF c
<1> QED BY <1>2, <1>3 DEF w, rRotEq

\* The loops with a carry
LEMMA CarriedInside ==
  ASSUME NEW D \in SUBSET Int, NEW m \in [D -> Limb], NEW p \in Int, NEW k \in Nat, Fits(D, p, k),
         NEW S, NEW at, NEW carry, Carries(at, carry, m, D, p, k, S)
  PROVE  \A i \in 0..k : Inside(m, at[i], D, p, i)
<1> DEFINE P == {i \in 0..k : Inside(m, at[i], D, p, i)}
<1>1. 0 \in P
  <2>1. at[0] = m
    BY DEF Carries
  <2> QED BY <2>1 DEF Inside
<1>2. ASSUME NEW i \in Nat, i < k, i \in P PROVE i + 1 \in P
  <2>1. i \in 0..(k - 1) /\ i + 1 \in 0..k /\ i \in 0..k
    BY <1>2
  <2> DEFINE x == Cut(S[i][at[i]] + carry[i])
  <2>2. at[i + 1] = [at[i] EXCEPT ![p + i] = x] /\ at[i + 1] \in [D -> Limb] /\ at[i] \in [D -> Limb]
    BY <2>1 DEF Carries
  <2> HIDE DEF x
  <2>3. ASSUME NEW y \in D, y \notin p..(p + (i + 1) - 1) PROVE at[i + 1][y] = m[y]
    <3>1. y # p + i /\ y \notin p..(p + i - 1)
      BY <2>3
    <3>2. at[i + 1][y] = at[i][y]
      BY <2>2, <3>1
    <3>3. at[i][y] = m[y]
      BY <1>2, <3>1 DEF Inside
    <3> QED BY <3>2, <3>3
  <2>4. Inside(m, at[i + 1], D, p, i + 1)
    BY <2>2, <2>3 DEF Inside
  <2> QED BY <2>1, <2>4
<1> HIDE DEF P
<1>3. \A i \in 0..k : i \in P
  BY <1>1, <1>2, UpTo
<1> QED BY <1>3 DEF P

LEMMA AddEq ==
  ASSUME NEW D \in SUBSET Int, NEW m \in [D -> Limb], NEW p \in Int, NEW q \in Int, NEW k \in Nat,
         Fits(D, p, k), Fits(D, q, k)
  PROVE  /\ Inside(m, addEq(m, p, q, k), D, p, k)
         /\ Inside(m, subEq(m, p, q, k), D, p, k)
<1> DEFINE A == [i \in 0..(k - 1) |-> [l \in Mem(m) |-> l[p + i] + l[q + i]]]
           S == [i \in 0..(k - 1) |-> [l \in Mem(m) |-> l[p + i] - l[q + i]]]
<1>1. addEq(m, p, q, k) = Carried(m, p, k, A) /\ subEq(m, p, q, k) = Carried(m, p, k, S)
  BY DEF addEq, subEq
<1>2. \A i \in 0..(k - 1) : /\ A[i] = [l \in [D -> Limb] |-> l[p + i] + l[q + i]]
                            /\ S[i] = [l \in [D -> Limb] |-> l[p + i] - l[q + i]]
  BY MemIs
<1> HIDE DEF A, S
<1>3. ASSUME NEW i \in 0..(k - 1) PROVE A[i] \in [[D -> Limb] -> Int] /\ S[i] \in [[D -> Limb] -> Int]
  <2>1. ASSUME NEW l \in [D -> Limb] PROVE l[p + i] \in Int /\ l[q + i] \in Int
    BY ReadLimb, LimbIs
  <2>2. ASSUME NEW l \in [D -> Limb] PROVE l[p + i] + l[q + i] \in Int /\ l[p + i] - l[q + i] \in Int
    BY <2>1
  <2> QED BY <1>2, <2>2
<1>4. ASSUME NEW T, Columns(T, D, k)
      PROVE  Inside(m, Carried(m, p, k, T), D, p, k)
  <2>1. PICK at, carry : Carries(at, carry, m, D, p, k, T) /\ Carried(m, p, k, T) = at[k]
    <3>1. CarryRun(Carried(m, p, k, T), m, D, p, k, T)
      BY <1>4, CarriedIs
    <3> QED BY <3>1 DEF CarryRun
  <2>2. Inside(m, at[k], D, p, k)
    <3>1. k \in 0..k
      OBVIOUS
    <3> QED BY <2>1, <3>1, CarriedInside, Zenon
  <2> QED BY <2>1, <2>2
<1>5. Columns(A, D, k) /\ Columns(S, D, k)
  BY <1>3 DEF Columns
<1> QED BY <1>1, <1>4, <1>5

\* One is carried as far as s.
Negated(m, r, p, k, s) ==
    /\ s \in 0..(k - 1)
    /\ \A i \in 0..(s - 1) : m[p + i] = 0
    /\ s < k - 1 => m[p + s] # 0
    /\ \A i \in 0..(k - 1) : r[p + i] = IF i <= s THEN Cut(Base - 1 - m[p + i] + 1)
                                         ELSE Base - 1 - m[p + i]
LEMMA NegEq ==
  ASSUME NEW D \in SUBSET Int, NEW m \in [D -> Limb], NEW p \in Int, NEW k \in Nat, k >= 1, Fits(D, p, k)
  PROVE  /\ Inside(m, negEq(m, p, k), D, p, k)
         /\ \E s : Negated(m, negEq(m, p, k), p, k, s)
<1> DEFINE not == notEq(m, p, k)
           stop == {i \in 0..(k - 1) : not[p + i] # Base - 1}
           upTo == IF stop = {} THEN k - 1 ELSE CHOOSE i \in stop : \A j \in stop : i <= j
           n == upTo + 1
           F == [i \in 0..upTo |-> [l \in Mem(m) |-> Cut(l[p + i] + 1)]]
           r == Upward(not, p, n, F)
<1>0. negEq(m, p, k) = r
  BY DEF negEq
<1>1. Inside(m, not, D, p, k) /\ \A i \in 0..(k - 1) : not[p + i] = Base - 1 - m[p + i]
  BY NotEq
<1> HIDE DEF not
<1>2. not \in [D -> Limb]
  BY <1>1 DEF Inside
<1>3. /\ upTo \in 0..(k - 1)
      /\ \A i \in 0..(upTo - 1) : not[p + i] = Base - 1
      /\ upTo < k - 1 => not[p + upTo] # Base - 1
  <2>1. CASE stop = {}
    <3>1. upTo = k - 1
      BY <2>1
    <3>2. \A i \in 0..(k - 1) : not[p + i] = Base - 1
      BY <2>1
    <3> HIDE DEF upTo
    <3> QED BY <3>1, <3>2
  <2>2. CASE stop # {}
    <3>1. stop \in SUBSET Nat
      OBVIOUS
    <3>2. \E i \in stop : \A j \in stop : i <= j
      <4> HIDE DEF stop
      <4> QED BY <2>2, <3>1, NatLeast
    <3>3. upTo \in stop /\ \A j \in stop : upTo <= j
      <4>1. upTo = CHOOSE i \in stop : \A j \in stop : i <= j
        BY <2>2
      <4> HIDE DEF stop, upTo
      <4> QED BY <3>2, <4>1
    <3>4. upTo \in 0..(k - 1) /\ not[p + upTo] # Base - 1
      <4> HIDE DEF upTo
      <4> QED BY <3>3
    <3>5. ASSUME NEW i \in 0..(upTo - 1) PROVE not[p + i] = Base - 1
      <4> HIDE DEF upTo
      <4>1. i \in 0..(k - 1) /\ ~(upTo <= i)
        BY <3>4
      <4>2. i \notin stop
        BY <3>3, <4>1
      <4> QED BY <4>1, <4>2
    <3> QED BY <3>4, <3>5
  <2> QED BY <2>1, <2>2
<1> HIDE DEF upTo, stop
<1>4. n \in Nat /\ n <= k /\ n - 1 = upTo /\ Fits(D, p, n)
  <2>1. \A i \in 0..(n - 1) : i \in 0..(k - 1)
    BY <1>3
  <2> QED BY <1>3, <2>1 DEF Fits
<1>5. \A i \in 0..(n - 1) : F[i] = [l \in [D -> Limb] |-> Cut(l[p + i] + 1)]
  BY <1>4, MemIs
<1> HIDE DEF F
<1>6. ASSUME NEW i \in 0..(n - 1) PROVE F[i] \in [[D -> Limb] -> Limb]
  <2>1. ASSUME NEW l \in [D -> Limb] PROVE Cut(l[p + i] + 1) \in Limb
    <3>1. l[p + i] \in Int
      BY <1>4, ReadLimb, LimbIs
    <3>2. l[p + i] + 1 \in Int
      BY <3>1
    <3> QED BY <3>2, CutIs
  <2> QED BY <1>5, <2>1
<1> HIDE DEF n
<1>7. /\ Inside(not, r, D, p, n)
      /\ \A i \in 0..(n - 1) : \E l : UpRead(not, r, D, p, F, i, l)
  BY <1>2, <1>4, <1>6, UpwardIs
<1> HIDE DEF r
<1>8. Inside(m, r, D, p, k)
  BY <1>1, <1>4, <1>7, InsideTwice
<1>9. ASSUME NEW i \in 0..(k - 1)
      PROVE  r[p + i] = IF i <= upTo THEN Cut(Base - 1 - m[p + i] + 1) ELSE Base - 1 - m[p + i]
  <2>0. p + i \in D /\ not[p + i] = Base - 1 - m[p + i]
    BY <1>1 DEF Fits
  <2>1. CASE i <= upTo
    <3>1. i \in 0..(n - 1)
      BY <1>3, <1>4, <2>1
    <3>2. PICK l : UpRead(not, r, D, p, F, i, l)
      BY <1>7, <3>1
    <3>3. p + i \notin p..(p + i - 1)
      OBVIOUS
    <3>4. l \in [D -> Limb] /\ r[p + i] = F[i][l] /\ l[p + i] = not[p + i]
      BY <2>0, <3>2, <3>3 DEF UpRead
    <3>5. F[i][l] = Cut(l[p + i] + 1)
      BY <1>5, <3>1, <3>4
    <3>6. r[p + i] = Cut(not[p + i] + 1)
      BY <3>4, <3>5
    <3> QED BY <2>0, <2>1, <3>6
  <2>2. CASE ~(i <= upTo)
    <3>1. p + i \notin p..(p + n - 1)
      BY <1>3, <1>4, <2>2
    <3>2. r[p + i] = not[p + i]
      BY <1>7, <2>0, <3>1 DEF Inside
    <3> QED BY <2>0, <2>2, <3>2
  <2> QED BY <2>1, <2>2
<1>10. ASSUME NEW i \in 0..(k - 1) PROVE (not[p + i] = Base - 1) <=> (m[p + i] = 0)
  <2> DEFINE x == m[p + i]
             b == Base
  <2>1. not[p + i] = b - 1 - x
    BY <1>1
  <2>0. m[p + i] \in Limb
    BY ReadLimb
  <2>4. b \in Int
    BY BaseIs
  <2>5. x \in Int
    BY <2>0, LimbIs
  <2>2. x \in Int /\ b \in Int
    BY <2>4, <2>5
  <2> HIDE DEF x, b
  <2>3. (b - 1 - x = b - 1) <=> (x = 0)
    BY <2>2
  <2> QED BY <2>1, <2>3 DEF x, b
<1>11. /\ \A i \in 0..(upTo - 1) : m[p + i] = 0
       /\ upTo < k - 1 => m[p + upTo] # 0
  <2>1. \A i \in 0..(upTo - 1) : i \in 0..(k - 1)
    BY <1>3
  <2> QED BY <1>3, <1>10, <2>1
<1>12. Negated(m, r, p, k, upTo)
  BY <1>3, <1>9, <1>11 DEF Negated
<1> QED BY <1>0, <1>8, <1>12, Zenon

-----------------------------------------------------------------------------
(* Products and quotients: half limbs put together. *)

HalfLimbs(h, k) == \A i \in 0..(2 * k - 1) : h[i] \in 0..(Half - 1)

LEMMA PairedLimbs ==
  ASSUME NEW k \in Nat, NEW h, HalfLimbs(h, k)
  PROVE  \A i \in 0..(k - 1) : /\ Paired(h, k)[i] = h[2 * i] + Half * h[2 * i + 1]
                               /\ Paired(h, k)[i] \in Limb
<1> SUFFICES ASSUME NEW i \in 0..(k - 1)
             PROVE  /\ Paired(h, k)[i] = h[2 * i] + Half * h[2 * i + 1]
                    /\ Paired(h, k)[i] \in Limb
  OBVIOUS
<1>1. Paired(h, k)[i] = h[2 * i] + Half * h[2 * i + 1]
  BY DEF Paired
<1> DEFINE x == h[2 * i]
           y == h[2 * i + 1]
           b == Half
<1>2. x \in 0..(b - 1) /\ y \in 0..(b - 1)
  <2>1. 2 * i \in 0..(2 * k - 1) /\ 2 * i + 1 \in 0..(2 * k - 1)
    OBVIOUS
  <2> QED BY <2>1 DEF HalfLimbs
<1>3. b \in Nat /\ b >= 2 /\ Base = b * b
  BY BaseIs
<1> HIDE DEF x, y, b
<1>4. x + b * y \in Nat /\ x + b * y < b * b
  <2>1. y * b \in Nat /\ y * b + b <= b * b
    <3>1. y \in Nat /\ y < b
      BY <1>2, <1>3
    <3> QED BY <1>3, <3>1, MulMono
  <2>2. b * y = y * b
    BY <1>2, <1>3
  <2> DEFINE z == y * b
             w == b * b
             v == b * y
  <2>3. z \in Nat /\ z + b <= w /\ v = z /\ w \in Int
    BY <1>3, <2>1, <2>2
  <2> HIDE DEF z, w, v
  <2>4. x + v \in Nat /\ x + v < w
    BY <1>2, <1>3, <2>3
  <2> QED BY <2>4 DEF v, w
<1>5. x + b * y \in Limb
  BY <1>3, <1>4, LimbIs
<1> QED BY <1>1, <1>5 DEF x, y, b

LEMMA HalfOfIs ==
  ASSUME NEW m, NEW p, NEW k \in Nat, Window(m, p, k), NEW i \in 0..(2 * k - 1)
  PROVE  HalfOf(m, p, i) \in 0..(Half - 1)
<1> DEFINE j == i \div 2
<1>1. j \in 0..(k - 1)
  OBVIOUS
<1> HIDE DEF j
<1>2. m[p + j] \in Limb
  BY <1>1 DEF Window
<1>3. m[p + j] % Half \in 0..(Half - 1) /\ m[p + j] \div Half \in 0..(Half - 1)
  BY <1>2, HalfOfLimb
<1>4. HalfOf(m, p, i) = IF i % 2 = 0 THEN m[p + j] % Half ELSE m[p + j] \div Half
  BY DEF HalfOf, j
<1> QED BY <1>3, <1>4

\* The columns of the long multiplication, and the sums with the carry into them
Products(m, p, q, j) == [i \in 0..j |-> HalfOf(m, p, i) * HalfOf(m, q, j - i)]
Column(m, p, q, j) == SumTo(Products(m, p, q, j), j + 1)
MulLoop(f, m, p, q, k) ==
    f = [j \in 0..(2 * k - 1) |-> Column(m, p, q, j) + (IF j = 0 THEN 0 ELSE f[j - 1] \div Half)]
Multiplied(f, m, p, q, k) ==
    /\ f \in [0..(2 * k - 1) -> Int]
    /\ f[0] = Column(m, p, q, 0)
    /\ \A j \in 1..(2 * k - 1) : f[j] = Column(m, p, q, j) + (f[j - 1] \div Half)

LEMMA ProductTerms ==
  ASSUME NEW m, NEW p, NEW q, NEW k \in Nat, Window(m, p, k), Window(m, q, k), NEW j \in 0..(2 * k - 1)
  PROVE  Terms(Products(m, p, q, j), j + 1) /\ Column(m, p, q, j) \in Int
<1>1. ASSUME NEW i \in 0..(j + 1 - 1) PROVE Products(m, p, q, j)[i] \in Int
  <2>1. i \in 0..j /\ i \in 0..(2 * k - 1) /\ j - i \in 0..(2 * k - 1)
    OBVIOUS
  <2>2. HalfOf(m, p, i) \in Int /\ HalfOf(m, q, j - i) \in Int
    <3>1. HalfOf(m, p, i) \in 0..(Half - 1) /\ HalfOf(m, q, j - i) \in 0..(Half - 1)
      BY <2>1, HalfOfIs
    <3> QED BY <3>1
  <2>3. HalfOf(m, p, i) * HalfOf(m, q, j - i) \in Int
    BY <2>2
  <2> QED BY <2>1, <2>3 DEF Products
<1>2. Terms(Products(m, p, q, j), j + 1)
  BY <1>1 DEF Terms
<1>3. j + 1 \in Nat
  OBVIOUS
<1>4. SumTo(Products(m, p, q, j), j + 1) \in Int
  BY <1>2, <1>3, SumIsInt
<1> QED BY <1>2, <1>4 DEF Column

LEMMA HalfDivInt == ASSUME NEW x \in Int PROVE x \div Half \in Int /\ (x % Half) \in 0..(Half - 1)
                                              /\ x = Half * (x \div Half) + (x % Half)
<1> DEFINE b == Half
<1>1. b \in Nat /\ b > 0
  BY BaseIs
<1> HIDE DEF b
<1>2. x \div b \in Int /\ (x % b) \in 0..(b - 1) /\ x = b * (x \div b) + (x % b)
  BY <1>1
<1> QED BY <1>2 DEF b

LEMMA MulLoops ==
  ASSUME NEW m, NEW p, NEW q, NEW k \in Nat, k >= 1, Window(m, p, k), Window(m, q, k)
  PROVE  \E f : MulLoop(f, m, p, q, k) /\ Multiplied(f, m, p, q, k)
<1> DEFINE n == 2 * k - 1
           C == [j \in 0..n |-> Column(m, p, q, j)]
           G == [j \in 1..n |-> [v \in Int |-> C[j] + (v \div Half)]]
<1>1. n \in Nat /\ 0 \in 0..n
  OBVIOUS
<1>2. C \in [0..n -> Int] /\ \A j \in 0..n : C[j] = Column(m, p, q, j)
  BY ProductTerms
<1> HIDE DEF C, n
<1>3. Turns(Int, n, G)
  <2>1. ASSUME NEW j \in 1..n, NEW v \in Int PROVE C[j] + (v \div Half) \in Int
    <3>0. j \in 0..n
      BY <1>1
    <3>1. C[j] \in Int /\ v \div Half \in Int
      BY <1>2, <3>0, HalfDivInt
    <3> QED BY <3>1
  <2> QED BY <2>1 DEF Turns
<1>4. \A j \in 1..n : \A v \in Int : G[j][v] = C[j] + (v \div Half)
  OBVIOUS
<1>5. C[0] \in Int
  BY <1>1, <1>2
<1> HIDE DEF G
<1>6. PICK f : Loops(f, Int, C[0], n, G)
  BY <1>1, <1>3, <1>5, LoopExists, Zenon
<1>7. f \in [0..n -> Int] /\ f[0] = C[0] /\ \A j \in 1..n : f[j] = C[j] + (f[j - 1] \div Half)
  <2>1. f \in [0..n -> Int] /\ f[0] = C[0] /\ \A j \in 1..n : f[j] = G[j][f[j - 1]]
    BY <1>6 DEF Loops
  <2>2. ASSUME NEW j \in 1..n PROVE f[j] = C[j] + (f[j - 1] \div Half)
    <3>1. f[j - 1] \in Int
      BY <1>1, <2>1
    <3> QED BY <1>4, <2>1, <3>1
  <2> QED BY <2>1, <2>2
<1>8. \A j \in 1..n : f[j] = Column(m, p, q, j) + (f[j - 1] \div Half)
  BY <1>1, <1>2, <1>7
<1>9. f[0] = Column(m, p, q, 0)
  BY <1>1, <1>2, <1>7
<1>10. Multiplied(f, m, p, q, k)
  BY <1>7, <1>8, <1>9 DEF Multiplied, n
<1>11. \A j \in 0..n : f[j] = Column(m, p, q, j) + (IF j = 0 THEN 0 ELSE f[j - 1] \div Half)
  <2>1. Column(m, p, q, 0) + 0 = Column(m, p, q, 0)
    <3>1. Column(m, p, q, 0) \in Int
      BY <1>1, <1>2
    <3> QED BY <3>1
  <2>2. \A j \in 0..n : j # 0 => j \in 1..n
    BY <1>1
  <2> QED BY <1>8, <1>9, <2>1, <2>2
<1>12. MulLoop(f, m, p, q, k)
  <2>1. f = [j \in 0..n |-> f[j]]
    BY <1>7
  <2> QED BY <1>11, <2>1, Zenon DEF MulLoop, n
<1> QED BY <1>10, <1>12

LEMMA MulIs ==
  ASSUME NEW m, NEW p, NEW q, NEW k \in Nat, k >= 1, Window(m, p, k), Window(m, q, k)
  PROVE  \E f : /\ Multiplied(f, m, p, q, k)
                /\ mul(m, p, q, k) = Paired([j \in 0..(2 * k - 1) |-> f[j] % Half], k)
                /\ HalfLimbs([j \in 0..(2 * k - 1) |-> f[j] % Half], k)
<1> DEFINE sum == CHOOSE f : MulLoop(f, m, p, q, k)
           n == 2 * k - 1
<1>1. mul(m, p, q, k) = Paired([j \in 0..n |-> sum[j] % Half], k)
  BY DEF mul, MulLoop, Column, Products
<1>2. MulLoop(sum, m, p, q, k)
  BY MulLoops, Zenon
<1> HIDE DEF sum
<1>3. Multiplied(sum, m, p, q, k)
  <2> DEFINE c(j) == IF j = 0 THEN 0 ELSE sum[j - 1] \div Half
  <2>1. \A j \in 0..n : sum[j] = Column(m, p, q, j) + c(j)
    BY <1>2 DEF MulLoop
  <2>2. \A j \in 1..n : j \in 0..n /\ j # 0
    OBVIOUS
  <2>3. 0 \in 0..n
    OBVIOUS
  <2>4. sum[0] = Column(m, p, q, 0)
    <3>1. sum[0] = Column(m, p, q, 0) + 0
      BY <2>1, <2>3
    <3>2. Column(m, p, q, 0) \in Int
      BY <2>3, ProductTerms
    <3> QED BY <3>1, <3>2
  <2>5. \A j \in 1..n : sum[j] = Column(m, p, q, j) + (sum[j - 1] \div Half)
    BY <2>1, <2>2, Zenon
  <2> DEFINE P == {i \in 0..n : sum[i] \in Int}
  <2>6. 0 \in P
    BY <2>3, <2>4, ProductTerms
  <2>7. ASSUME NEW i \in Nat, i < n, i \in P PROVE i + 1 \in P
    <3>1. i + 1 \in 1..n /\ i + 1 \in 0..n /\ i + 1 - 1 = i /\ sum[i] \in Int
      BY <2>7
    <3>2. sum[i + 1] = Column(m, p, q, i + 1) + (sum[i] \div Half)
      BY <2>5, <3>1
    <3>3. Column(m, p, q, i + 1) \in Int /\ sum[i] \div Half \in Int
      BY <3>1, ProductTerms, HalfDivInt
    <3> QED BY <3>1, <3>2, <3>3
  <2>8. \A i \in 0..n : i \in P
    <3> HIDE DEF P
    <3>1. n \in Nat
      OBVIOUS
    <3> HIDE DEF n
    <3> QED BY <2>6, <2>7, <3>1, UpTo
  <2>9. sum \in [0..n -> Int]
    <3>1. sum = [j \in 0..n |-> Column(m, p, q, j) + c(j)]
      BY <1>2 DEF MulLoop
    <3> HIDE DEF c
    <3> QED BY <2>8, <3>1
  <2> QED BY <2>4, <2>5, <2>9 DEF Multiplied
<1>4. HalfLimbs([j \in 0..n |-> sum[j] % Half], k)
  <2>1. ASSUME NEW j \in 0..n PROVE (sum[j] % Half) \in 0..(Half - 1)
    <3>1. sum[j] \in Int
      BY <1>3 DEF Multiplied
    <3> QED BY <3>1, HalfDivInt
  <2> QED BY <2>1 DEF HalfLimbs
<1> QED BY <1>1, <1>3, <1>4

\* The long division, half limb by half limb from the top
DivLoop(f, m, p, k, o) ==
    f = [j \in 0..(2 * k) |->
          IF j = 0 THEN 0
          ELSE Signed(Cut(Remainder(f[j - 1] + HalfOf(m, p, 2 * k - j), o) * Half))]
Divided(f, m, p, k, o) ==
    /\ f \in [0..(2 * k) -> Int]
    /\ f[0] = 0
    /\ \A j \in 1..(2 * k) :
         f[j] = Signed(Cut(Remainder(f[j - 1] + HalfOf(m, p, 2 * k - j), o) * Half))

LEMMA DivStep ==
  ASSUME NEW o \in Nat \ {0}, NEW x \in Int
  PROVE  /\ Remainder(x, o) \in Int /\ Signed(Cut(Remainder(x, o) * Half)) \in Int
         /\ Quotient(x, o) \in 0..(Half - 1)
<1>1. Remainder(x, o) \in Int
  <2>1. x % o \in Int /\ (-x) % o \in Int
    OBVIOUS
  <2>2. -((-x) % o) \in Int
    BY <2>1
  <2> QED BY <2>1, <2>2 DEF Remainder
<1> DEFINE r == Remainder(x, o)
           c == Cut(r * Half)
<1> HIDE DEF r
<1>2. r * Half \in Int
  BY <1>1, BaseIs DEF r
<1>3. c \in Limb
  BY <1>2, CutIs
<1> HIDE DEF c
<1>4. Signed(c) \in Int
  <2>1. c \in Int
    BY <1>3, LimbIs
  <2>2. Base \in Int
    BY BaseIs
  <2> QED BY <2>1, <2>2 DEF Signed
<1>5. Quotient(x, o) \in 0..(Half - 1)
  <2> DEFINE y == IF x >= 0 THEN x \div o ELSE -((-x) \div o)
  <2>1. x \div o \in Int /\ (-x) \div o \in Int
    OBVIOUS
  <2>2. y \in Int
    BY <2>1
  <2>3. Quotient(x, o) = y % Half
    BY DEF Quotient
  <2> HIDE DEF y
  <2> QED BY <2>2, <2>3, HalfDivInt
<1> QED BY <1>1, <1>4, <1>5 DEF r, c

LEMMA DivLoops ==
  ASSUME NEW m, NEW p, NEW k \in Nat, Window(m, p, k), NEW o \in Nat \ {0}
  PROVE  \E f : DivLoop(f, m, p, k, o) /\ Divided(f, m, p, k, o)
<1> DEFINE n == 2 * k
           C == [j \in 1..n |-> HalfOf(m, p, n - j)]
           after(v, h) == Signed(Cut(Remainder(v + h, o) * Half))
           G == [j \in 1..n |-> [v \in Int |-> after(v, C[j])]]
<1>1. n \in Nat
  OBVIOUS
<1>2. \A j \in 1..n : C[j] = HalfOf(m, p, n - j) /\ C[j] \in Int
  <2>1. ASSUME NEW j \in 1..n PROVE C[j] \in Int
    <3>1. n - j \in 0..(2 * k - 1)
      OBVIOUS
    <3>2. HalfOf(m, p, n - j) \in 0..(Half - 1)
      BY <3>1, HalfOfIs
    <3> HIDE DEF n
    <3> QED BY <3>2
  <2> QED BY <2>1
<1> HIDE DEF C, n
<1>3. \A v, h \in Int : after(v, h) \in Int
  <2>1. ASSUME NEW v \in Int, NEW h \in Int PROVE after(v, h) \in Int
    <3>1. v + h \in Int
      OBVIOUS
    <3> QED BY <3>1, DivStep
  <2> QED BY <2>1
<1> HIDE DEF after
<1>4. Turns(Int, n, G)
  BY <1>2, <1>3 DEF Turns
<1>5. \A j \in 1..n : \A v \in Int : G[j][v] = after(v, C[j])
  OBVIOUS
<1> HIDE DEF G
<1>6. 0 \in Int
  OBVIOUS
<1>7. PICK f : Loops(f, Int, 0, n, G)
  BY <1>1, <1>4, <1>6, LoopExists, Zenon
<1>8. f \in [0..n -> Int] /\ f[0] = 0 /\ \A j \in 1..n : f[j] = G[j][f[j - 1]]
  BY <1>7 DEF Loops
<1>9. ASSUME NEW j \in 1..n PROVE f[j] = after(f[j - 1], HalfOf(m, p, n - j))
  <2>1. f[j - 1] \in Int
    BY <1>1, <1>8
  <2>2. f[j] = after(f[j - 1], C[j])
    BY <1>5, <1>8, <2>1
  <2> QED BY <1>2, <2>2
<1>10. \A j \in 0..n : j # 0 => j \in 1..n
  BY <1>1
<1>11. Divided(f, m, p, k, o)
  BY <1>8, <1>9, Zenon DEF Divided, after, n
<1>12. DivLoop(f, m, p, k, o)
  <2>1. \A j \in 0..n : f[j] = IF j = 0 THEN 0 ELSE after(f[j - 1], HalfOf(m, p, n - j))
    BY <1>8, <1>9, <1>10, Zenon
  <2>2. f = [j \in 0..n |-> f[j]]
    BY <1>8
  <2> QED BY <2>1, <2>2, Zenon DEF DivLoop, after, n
<1> QED BY <1>11, <1>12

LEMMA DivIsPaired ==
  ASSUME NEW m, NEW p, NEW k \in Nat, Window(m, p, k), NEW o \in Nat \ {0}
  PROVE  LET Q(f) == [j \in 0..(2 * k - 1) |-> Quotient(f[2 * k - 1 - j] + HalfOf(m, p, j), o)]
         IN  \E f : /\ Divided(f, m, p, k, o)
                    /\ div32(m, p, k, o) = Paired(Q(f), k)
                    /\ HalfLimbs(Q(f), k)
<1> DEFINE Q(f) == [j \in 0..(2 * k - 1) |-> Quotient(f[2 * k - 1 - j] + HalfOf(m, p, j), o)]
           rem == CHOOSE f : DivLoop(f, m, p, k, o)
<1>1. div32(m, p, k, o) = Paired(Q(rem), k)
  BY DEF div32, DivLoop
<1>2. DivLoop(rem, m, p, k, o)
  BY DivLoops, Zenon
<1> HIDE DEF rem
<1> DEFINE n == 2 * k
           h(j) == HalfOf(m, p, n - j)
           after(j) == Signed(Cut(Remainder(rem[j - 1] + h(j), o) * Half))
<1>3. n \in Nat /\ 0 \in 0..n
  OBVIOUS
<1>4. \A j \in 1..n : h(j) \in Int
  <2>1. ASSUME NEW j \in 1..n PROVE h(j) \in Int
    <3>1. n - j \in 0..(2 * k - 1)
      OBVIOUS
    <3>2. HalfOf(m, p, n - j) \in 0..(Half - 1)
      BY <3>1, HalfOfIs
    <3>3. \A x : x \in 0..(Half - 1) => x \in Int
      OBVIOUS
    <3> QED BY <3>2, <3>3, Zenon
  <2> QED BY <2>1
<1>5. rem = [j \in 0..n |-> IF j = 0 THEN 0 ELSE after(j)]
  BY <1>2, Zenon DEF DivLoop
<1> HIDE DEF h
<1>6. \A j \in 1..n : \A v \in Int : v = rem[j - 1] => after(j) \in Int
  <2>1. ASSUME NEW j \in 1..n, rem[j - 1] \in Int PROVE after(j) \in Int
    <3>1. rem[j - 1] + h(j) \in Int
      BY <1>4, <2>1
    <3> QED BY <3>1, DivStep
  <2> HIDE DEF after
  <2> QED BY <2>1
<1>7. rem[0] = 0 /\ \A j \in 1..n : rem[j] = after(j)
  <2> HIDE DEF after
  <2>1. rem[0] = 0
    BY <1>3, <1>5
  <2>2. \A j \in 1..n : j \in 0..n /\ j # 0
    BY <1>3
  <2> QED BY <1>5, <2>1, <2>2
<1> DEFINE P == {i \in 0..n : rem[i] \in Int}
<1>8. 0 \in P
  BY <1>3, <1>7
<1>9. ASSUME NEW i \in Nat, i < n, i \in P PROVE i + 1 \in P
  <2>1. i + 1 \in 1..n /\ i + 1 \in 0..n /\ i + 1 - 1 = i /\ rem[i] \in Int
    BY <1>9
  <2> HIDE DEF after
  <2>2. rem[i + 1] = after(i + 1)
    BY <1>7, <2>1
  <2>3. after(i + 1) \in Int
    BY <1>6, <2>1
  <2> QED BY <2>1, <2>2, <2>3
<1>10. \A i \in 0..n : rem[i] \in Int
  <2> HIDE DEF P, n
  <2>1. \A i \in 0..n : i \in P
    BY <1>3, <1>8, <1>9, UpTo
  <2> QED BY <2>1 DEF P
<1>11. Divided(rem, m, p, k, o)
  <2>1. rem \in [0..n -> Int]
    <3> HIDE DEF after, n
    <3> QED BY <1>5, <1>10
  <2> QED BY <1>7, <2>1, Zenon DEF Divided, h, n
<1>12. HalfLimbs(Q(rem), k)
  <2>1. ASSUME NEW j \in 0..(2 * k - 1) PROVE Q(rem)[j] \in 0..(Half - 1)
    <3> DEFINE i == 2 * k - 1 - j
               x == rem[i] + HalfOf(m, p, j)
    <3>1. i \in 0..n
      OBVIOUS
    <3>2. HalfOf(m, p, j) \in 0..(Half - 1)
      BY HalfOfIs
    <3>3. x \in Int
      <4> HIDE DEF i
      <4> QED BY <1>10, <3>1, <3>2
    <3>4. Q(rem)[j] = Quotient(x, o)
      OBVIOUS
    <3> HIDE DEF x, Q
    <3> QED BY <3>3, <3>4, DivStep
  <2> QED BY <2>1 DEF HalfLimbs
<1> QED BY <1>1, <1>11, <1>12

-----------------------------------------------------------------------------
(* The methods of the classes, and the specification. *)

Positions == 0..(Size - 1)

\* The array holds limbs, and the class is one of the code's.
NumbersTyped == /\ mem \in [Positions -> Limb]
                /\ kind \in DOMAIN Classes

Kinds == {"U32", "U32Mut", "U64", "U64Mut", "I64", "I64Mut", "U128", "U128Mut", "U256", "U512"}
LEMMA KindsAre ==
  /\ DOMAIN Classes = Kinds
  /\ \A x \in Kinds : Classes[x].size \in Sizes32 /\ (x \in {"U32", "U32Mut"} => Classes[x].size = "U32")
BY DEF Kinds, Sizes32, Classes, Class, U32, U32Mut, U64, U64Mut, I64, I64Mut, U128, U128Mut, U256, U512

LEMMA LimbsIs ==
  ASSUME kind \in DOMAIN Classes
  PROVE  Limbs \in Nat /\ Limbs >= 1 /\ (kind \in {"U32", "U32Mut"} => Limbs = 1)
<1>1. Classes[kind].size \in Sizes32 /\ (kind \in {"U32", "U32Mut"} => Classes[kind].size = "U32")
  BY KindsAre
<1>2. Limbs32[Classes[kind].size] \in Nat \ {0}
  BY <1>1, NumbersAssumption
<1> QED BY <1>1, <1>2, NumbersAssumption DEF Limbs

LEMMA WindowsFit ==
  ASSUME kind \in DOMAIN Classes, NEW p \in Windows
  PROVE  p \in Int /\ Fits(Positions, p, Limbs)
<1>1. Limbs \in Nat /\ Size \in Nat
  BY LimbsIs, NumbersAssumption
<1> DEFINE n == Limbs
<1>2. p \in 0..(Size - n) /\ n \in Nat
  BY <1>1 DEF Windows
<1> HIDE DEF n
<1>3. \A i \in 0..(n - 1) : p + i \in 0..(Size - 1)
  BY <1>1, <1>2
<1> QED BY <1>2, <1>3 DEF Fits, Positions, n

Methods == Binary \cup Moving \cup Unary \cup {"div"}

LEMMA OverInside ==
  ASSUME NEW D \in SUBSET Int, NEW m \in [D -> Limb], NEW p \in Int, kind \in DOMAIN Classes,
         NEW w, \A i \in 0..(Limbs - 1) : w[i] \in Limb
  PROVE  /\ Inside(m, Over(m, p, w), D, p, Limbs)
         /\ \A i \in 0..(Limbs - 1) : p + i \in D => Over(m, p, w)[p + i] = w[i]
<1> DEFINE n == Limbs
           r == Over(m, p, w)
<1>1. n \in Nat /\ \A i \in 0..(n - 1) : w[i] \in Limb
  BY LimbsIs
<1>2. r = [x \in D |-> IF x \in p..(p + n - 1) THEN w[x - p] ELSE m[x]]
  BY DEF Over
<1> HIDE DEF n, r
<1>3. r \in [D -> Limb]
  <2>1. ASSUME NEW x \in D, x \in p..(p + n - 1) PROVE w[x - p] \in Limb
    <3>1. x - p \in 0..(n - 1)
      BY <1>1, <2>1
    <3> QED BY <1>1, <3>1
  <2> QED BY <1>2, <2>1
<1>4. ASSUME NEW i \in 0..(n - 1), p + i \in D PROVE r[p + i] = w[i]
  <2>1. p + i \in p..(p + n - 1) /\ p + i - p = i
    BY <1>1
  <2> QED BY <1>2, <1>4, <2>1
<1> QED BY <1>2, <1>3, <1>4 DEF Inside, n, r

LEMMA CalledInside ==
  ASSUME NEW D \in SUBSET Int, NEW m \in [D -> Limb], NEW p \in Int, NEW q \in Int,
         kind \in DOMAIN Classes, Fits(D, p, Limbs), Fits(D, q, Limbs),
         NEW op \in Methods, NEW by \in Nat, op = "div" => by # 0
  PROVE  Inside(m, Called(op, m, p, q, by), D, p, Limbs)
<1> DEFINE n == Limbs
           r == Called(op, m, p, q, by)
<1>1. n \in Nat /\ n >= 1 /\ Fits(D, p, n) /\ Fits(D, q, n)
  BY LimbsIs
<1>2. Window(m, p, n) /\ Window(m, q, n)
  BY <1>1, WindowFits
<1>0. 0 \in Limb /\ Base - 1 \in Limb
  <2>1. 0 \in Limb
    BY LimbIs, BaseIs
  <2>2. Base - 1 - 0 \in Limb
    BY <2>1, NotLimb
  <2>3. Base - 1 - 0 = Base - 1
    BY BaseIs
  <2> QED BY <2>1, <2>2, <2>3
<1>3. CASE op \in {"xor", "or", "and"}
  <2>1. r = IF op = "xor" THEN xorEq(m, p, q, n) ELSE IF op = "or" THEN orEq(m, p, q, n)
            ELSE andEq(m, p, q, n)
    BY <1>3 DEF Called
  <2>2. /\ Inside(m, xorEq(m, p, q, n), D, p, n)
        /\ Inside(m, orEq(m, p, q, n), D, p, n)
        /\ Inside(m, andEq(m, p, q, n), D, p, n)
    <3>1. XorBit \in BitMaps /\ OrBit \in BitMaps /\ AndBit \in BitMaps
      BY DEF BitMaps
    <3> HIDE DEF n
    <3>2. ASSUME NEW f \in BitMaps
          PROVE  Inside(m, BitwiseUp(m, p, q, n, f), D, p, n)
      BY <1>1, BitwiseEq
    <3> QED BY <3>1, <3>2, Zenon DEF xorEq, orEq, andEq, BitwiseUp
  <2> HIDE DEF r, n
  <2> QED BY <2>1, <2>2 DEF r, n
<1>4. CASE op \in {"add", "sub", "not", "set"}
  <2>1. r = IF op = "add" THEN addEq(m, p, q, n) ELSE IF op = "sub" THEN subEq(m, p, q, n)
            ELSE IF op = "not" THEN notEq(m, p, n) ELSE setValue(m, p, q, n)
    BY <1>4 DEF Called
  <2> HIDE DEF r, n
  <2>2. /\ Inside(m, addEq(m, p, q, n), D, p, n) /\ Inside(m, subEq(m, p, q, n), D, p, n)
        /\ Inside(m, notEq(m, p, n), D, p, n) /\ Inside(m, setValue(m, p, q, n), D, p, n)
    BY <1>1, AddEq, NotEq, SetEq
  <2> QED BY <2>1, <2>2 DEF r, n
<1>5. CASE op = "mul"
  <2>1. r = Over(m, p, mul(m, p, q, n))
    BY <1>5 DEF Called
  <2>2. \A i \in 0..(n - 1) : mul(m, p, q, n)[i] \in Limb
    <3> HIDE DEF n, r
    <3>1. PICK f : /\ mul(m, p, q, n) = Paired([j \in 0..(2 * n - 1) |-> f[j] % Half], n)
                   /\ HalfLimbs([j \in 0..(2 * n - 1) |-> f[j] % Half], n)
      BY <1>1, <1>2, MulIs
    <3> DEFINE h == [j \in 0..(2 * n - 1) |-> f[j] % Half]
    <3>2. mul(m, p, q, n) = Paired(h, n) /\ HalfLimbs(h, n)
      BY <3>1
    <3> HIDE DEF h
    <3> QED BY <1>1, <3>2, PairedLimbs
  <2> HIDE DEF r
  <2> QED BY <2>1, <2>2, OverInside DEF r
<1>6. CASE op = "div"
  <2>1. r = Over(m, p, div32(m, p, n, by))
    BY <1>6 DEF Called
  <2>2. \A i \in 0..(n - 1) : div32(m, p, n, by)[i] \in Limb
    <3>0. by \in Nat \ {0}
      BY <1>6
    <3> HIDE DEF n, r
    <3> DEFINE Q(f) == [j \in 0..(2 * n - 1) |-> Quotient(f[2 * n - 1 - j] + HalfOf(m, p, j), by)]
    <3>1. PICK f : div32(m, p, n, by) = Paired(Q(f), n) /\ HalfLimbs(Q(f), n)
      BY <1>1, <1>2, <3>0, DivIsPaired
    <3> HIDE DEF Q
    <3> QED BY <1>1, <3>1, PairedLimbs
  <2> HIDE DEF r
  <2> QED BY <2>1, <2>2, OverInside DEF r
<1>7. CASE op = "zero"
  <2>1. r = filled(m, 0, p, p + n)
    BY <1>7 DEF Called, setZero
  <2> DEFINE z == p + n
  <2>2. z \in Int /\ z <= p + n /\ p <= p
    BY <1>1
  <2> HIDE DEF z, n, r
  <2>3. Inside(m, filled(m, 0, p, z), D, p, n)
    BY <1>0, <1>1, <2>2, FilledIs
  <2> QED BY <2>1, <2>3 DEF z, n, r
<1>8. CASE op = "abs"
  <2>1. r = IF negative(m, p, n) THEN negEq(m, p, n) ELSE m
    BY <1>8 DEF Called
  <2> HIDE DEF r, n
  <2>2. Inside(m, negEq(m, p, n), D, p, n)
    BY <1>1, NegEq
  <2>3. Inside(m, m, D, p, n)
    BY DEF Inside
  <2> QED BY <2>1, <2>2, <2>3 DEF r, n
<1>9. CASE op \in {"lShift", "rShift", "signedRShift"}
  <2> DEFINE top == IF negative(m, p, n) THEN Base - 1 ELSE 0
  <2>1. r = IF op = "lShift" THEN lShiftEq(m, p, n, by) ELSE IF op = "rShift" THEN rShiftEq(m, p, n, by, 0)
            ELSE rShiftEq(m, p, n, by, top)
    BY <1>9 DEF Called
  <2>2. top \in Limb
    BY <1>0
  <2> HIDE DEF r, n, top
  <2>3. Inside(m, lShiftEq(m, p, n, by), D, p, n)
    BY <1>1, LShiftEq
  <2>4. ASSUME NEW x \in Limb PROVE Inside(m, rShiftEq(m, p, n, by, x), D, p, n)
    BY <1>1, RShiftEq
  <2> QED BY <1>0, <2>1, <2>2, <2>3, <2>4 DEF r, n
<1>10. CASE op \in {"lRot", "rRot"}
  <2>1. r = IF op = "lRot" THEN lRotEq(m, p, n, by) ELSE rRotEq(m, p, n, by)
    BY <1>10 DEF Called
  <2> HIDE DEF r, n
  <2>2. Inside(m, lRotEq(m, p, n, by), D, p, n)
    BY <1>1, RotEq
  <2>3. Inside(m, rRotEq(m, p, n, by), D, p, n)
    <3>1. by \in Int
      OBVIOUS
    <3> QED BY <1>1, <3>1, RRotEq
  <2> QED BY <2>1, <2>2, <2>3 DEF r, n
<1> QED BY <1>3, <1>4, <1>5, <1>6, <1>7, <1>8, <1>9, <1>10 DEF Methods, Binary, Moving, Unary

LEMMA U32CalledLimb ==
  ASSUME NEW x \in Limb, NEW y \in Limb, NEW by \in Nat,
         NEW op \in U32Mut.methods
  PROVE  U32Called(op, x, y, by) \in Limb
<1>1. op \in {"xor", "or", "and", "not", "add", "sub", "mul", "set", "zero", "lShift", "rShift", "lRot", "rRot"}
  BY DEF U32Mut, IUint, Class
<1>2. x \in Int /\ y \in Int
  BY LimbIs
<1>3. 0 \in Limb
  BY LimbIs, BaseIs
<1>4. XorBit \in BitMaps /\ OrBit \in BitMaps /\ AndBit \in BitMaps
  BY DEF BitMaps
<1>5. Mixed(x, y, XorBit) \in Limb /\ Mixed(x, y, OrBit) \in Limb /\ Mixed(x, y, AndBit) \in Limb
  BY <1>4, MixedLimb
<1>6. Cut(x + y) \in Limb /\ Cut(x - y) \in Limb /\ Cut(x * y) \in Limb
  <2>1. x + y \in Int /\ x - y \in Int /\ x * y \in Int
    BY <1>2
  <2> QED BY <2>1, CutIs
<1>7. Shl(x, by) \in Limb /\ Shr(x, by) \in Limb /\ Base - 1 - x \in Limb
  BY ShlLimb, ShrLimb, NotLimb
<1>8. Mixed(Shl(x, by), CrossingUp(x, by), OrBit) \in Limb
      /\ Mixed(Shr(x, by), CrossingDown(x, by), OrBit) \in Limb
  BY ShiftedLimb
<1> QED BY <1>1, <1>3, <1>5, <1>6, <1>7, <1>8 DEF U32Called

LEMMA U32Methods ==
  ASSUME kind \in {"U32", "U32Mut"}
  PROVE  Classes[kind].methods \subseteq U32Mut.methods
BY DEF Classes, U32, U32Mut, Class

\* A step is a call of a method on two windows, or builds a number.
Call(op, p, q, by) ==
    /\ op \in Methods /\ op \in Classes[kind].methods
    /\ p \in Windows /\ q \in Windows /\ by \in Nat
    /\ op = "div" => by # 0
LEMMA StepsAre ==
  ASSUME NumbersTyped, NNext
  PROVE  /\ last = NoCall
         /\ \/ \E op, p, q, by : Call(op, p, q, by) /\ (InPlace(op, p, q, by) \/ Pure(op, p, q, by))
            \/ \E op, x : x \in Ints /\ op \in {"fromInt", "fromI32s"} /\ Build(op, x)
<1>1. 0 \in Nat /\ "div" \in Methods
  BY DEF Methods
<1>2. ASSUME NEW p \in Windows, NEW q \in Windows, NEW op \in Binary, Step(op, p, q, 0)
      PROVE  Call(op, p, q, 0) /\ (InPlace(op, p, q, 0) \/ Pure(op, p, q, 0))
  <2>1. op \in Methods /\ op # "div"
    BY DEF Methods, Binary
  <2> QED BY <1>1, <1>2, <2>1 DEF Step, Call
<1>3. ASSUME NEW p \in Windows, NEW by \in Amounts, NEW op \in Moving, Step(op, p, p, by)
      PROVE  Call(op, p, p, by) /\ (InPlace(op, p, p, by) \/ Pure(op, p, p, by))
  <2>1. op \in Methods /\ op # "div"
    BY DEF Methods, Moving
  <2>2. by \in Nat
    BY NumbersAssumption
  <2> QED BY <1>3, <2>1, <2>2 DEF Step, Call
<1>4. ASSUME NEW p \in Windows, NEW op \in Unary, Step(op, p, p, 0)
      PROVE  Call(op, p, p, 0) /\ (InPlace(op, p, p, 0) \/ Pure(op, p, p, 0))
  <2>1. op \in Methods /\ op # "div"
    BY DEF Methods, Unary
  <2> QED BY <1>1, <1>4, <2>1 DEF Step, Call
<1>5. ASSUME NEW p \in Windows, NEW by \in Divisors, Step("div", p, p, by)
      PROVE  Call("div", p, p, by) /\ (InPlace("div", p, p, by) \/ Pure("div", p, p, by))
  <2>1. by \in Nat /\ by # 0
    <3>1. by \in Limb /\ by # 0
      BY NumbersAssumption
    <3> QED BY <3>1, LimbIs
  <2> QED BY <1>1, <1>5, <2>1 DEF Step, Call
<1> QED BY <1>2, <1>3, <1>4, <1>5, Zenon DEF NNext

LEMMA InPlaceInside ==
  ASSUME NumbersTyped, NEW op, NEW p, NEW q, NEW by, Call(op, p, q, by), InPlace(op, p, q, by)
  PROVE  Inside(mem, mem', Positions, p, Limbs)
<1>1. mem \in [Positions -> Limb] /\ kind \in DOMAIN Classes
  BY DEF NumbersTyped
<1>2. p \in Int /\ q \in Int /\ Fits(Positions, p, Limbs) /\ Fits(Positions, q, Limbs)
  BY <1>1, WindowsFit DEF Call
<1>3. Positions \in SUBSET Int
  BY NumbersAssumption DEF Positions
<1>4. CASE kind = "U32Mut"
  <2>1. Limbs = 1
    BY <1>1, <1>4, LimbsIs
  <2>2. p + 0 \in Positions /\ q + 0 \in Positions
    BY <1>2, <2>1 DEF Fits
  <2>3. p \in Positions /\ q \in Positions
    BY <1>2, <2>2
  <2> DEFINE x == U32Called(op, mem[p], mem[q], by)
  <2>4. op \in U32Mut.methods /\ by \in Nat
    BY <1>4, U32Methods DEF Call
  <2>5. mem[p] \in Limb /\ mem[q] \in Limb
    BY <1>1, <2>3
  <2>6. x \in Limb
    BY <2>4, <2>5, U32CalledLimb
  <2>7. mem' = [mem EXCEPT ![p] = x]
    BY <1>4 DEF InPlace
  <2> HIDE DEF x
  <2>8. mem' \in [Positions -> Limb] /\ \A y \in Positions : y # p => mem'[y] = mem[y]
    BY <1>1, <2>6, <2>7
  <2>9. p \in p..(p + 1 - 1)
    BY <1>2
  <2> QED BY <2>1, <2>8, <2>9 DEF Inside
<1>5. CASE kind # "U32Mut"
  <2>1. mem' = Called(op, mem, p, q, by)
    BY <1>5 DEF InPlace
  <2>2. op \in Methods /\ by \in Nat /\ (op = "div" => by # 0)
    BY DEF Call
  <2>3. Inside(mem, Called(op, mem, p, q, by), Positions, p, Limbs)
    BY <1>1, <1>2, <1>3, <2>2, CalledInside
  <2> QED BY <2>1, <2>3
<1> QED BY <1>4, <1>5

LEMMA NumbersStep ==
  ASSUME NumbersTyped, [NNext]_nVars
  PROVE  NumbersTyped'
<1>1. CASE NNext
  <2>1. CASE \E op, p, q, by : Call(op, p, q, by) /\ (InPlace(op, p, q, by) \/ Pure(op, p, q, by))
    <3>1. PICK op, p, q, by : Call(op, p, q, by) /\ (InPlace(op, p, q, by) \/ Pure(op, p, q, by))
      BY <2>1
    <3>2. CASE InPlace(op, p, q, by)
      <4>1. Inside(mem, mem', Positions, p, Limbs)
        BY <3>1, <3>2, InPlaceInside
      <4>2. kind' = kind
        BY <3>2 DEF InPlace
      <4> QED BY <4>1, <4>2 DEF NumbersTyped, Inside, Positions
    <3>3. CASE Pure(op, p, q, by)
      BY <3>3 DEF Pure, NumbersTyped, Positions
    <3> QED BY <3>1, <3>2, <3>3
  <2>2. CASE \E op, x : x \in Ints /\ op \in {"fromInt", "fromI32s"} /\ Build(op, x)
    BY <2>2 DEF Build, NumbersTyped, Positions
  <2> QED BY <1>1, <2>1, <2>2, StepsAre
<1>2. CASE UNCHANGED nVars
  BY <1>2 DEF nVars, NumbersTyped, Positions
<1> QED BY <1>1, <1>2

LEMMA NumbersStart == NInit => NumbersTyped
BY NumbersAssumption DEF NInit, NumbersTyped, Positions

\* Every method leaves limbs in the array: no carry, borrow or half limb grows
\* beyond its width, whatever number of limbs the classes have.
THEOREM NumbersTypeCorrect == NSpec => []NumbersTyped
<1>1. NInit => NumbersTyped
  BY NumbersStart
<1>2. NumbersTyped /\ [NNext]_nVars => NumbersTyped'
  BY NumbersStep
<1> QED BY <1>1, <1>2, PTL DEF NSpec

LEMMA OthersStep ==
  ASSUME NumbersTyped, OthersKept, [NNext]_nVars
  PROVE  OthersKept'
<1>1. CASE NNext
  <2>1. CASE \E op, p, q, by : Call(op, p, q, by) /\ (InPlace(op, p, q, by) \/ Pure(op, p, q, by))
    <3>1. PICK op, p, q, by : Call(op, p, q, by) /\ (InPlace(op, p, q, by) \/ Pure(op, p, q, by))
      BY <2>1
    <3>2. kind' = kind /\ Limbs' = Limbs
      BY <3>1 DEF InPlace, Pure, Limbs
    <3>3. last'.p = p /\ last'.before = mem
      BY <3>1 DEF InPlace, Pure, Recorded
    <3>4. CASE InPlace(op, p, q, by)
      <4>1. Inside(mem, mem', Positions, p, Limbs)
        BY <3>1, <3>4, InPlaceInside
      <4> QED BY <3>2, <3>3, <4>1 DEF OthersKept, Inside, Positions
    <3>5. CASE Pure(op, p, q, by)
      BY <3>3, <3>5 DEF Pure, OthersKept
    <3> QED BY <3>1, <3>4, <3>5
  <2>2. CASE \E op, x : x \in Ints /\ op \in {"fromInt", "fromI32s"} /\ Build(op, x)
    <3>1. mem' = mem /\ last'.before = mem
      BY <2>2 DEF Build, Recorded
    <3> QED BY <3>1 DEF OthersKept
  <2> QED BY <1>1, <2>1, <2>2, StepsAre
<1>2. CASE UNCHANGED nVars
  BY <1>2 DEF nVars, OthersKept, Limbs
<1> QED BY <1>1, <1>2

\* What a method does to its window it does to nothing else in the array.
THEOREM OthersAlwaysKept == NSpec => []OthersKept
<1>1. NInit => OthersKept
  BY DEF NInit, OthersKept
<1>2. NumbersTyped /\ OthersKept /\ [NNext]_nVars => OthersKept'
  BY OthersStep
<1> QED BY <1>1, <1>2, NumbersTypeCorrect, PTL DEF NSpec

LEMMA OrderHolds == ASSUME NumbersTyped PROVE OrderRight
<1> SUFFICES ASSUME NEW p \in Windows, NEW q \in Windows
             PROVE  LET x == Value(mem, p, Limbs)  y == Value(mem, q, Limbs) IN
                    /\ gt(mem, p, q, Limbs) <=> x > y
                    /\ gte(mem, p, q, Limbs) <=> x >= y
                    /\ lt(mem, p, q, Limbs) <=> x < y
                    /\ lte(mem, p, q, Limbs) <=> x <= y
                    /\ eq(mem, p, q, Limbs) <=> x = y
                    /\ signedGt(mem, p, q, Limbs) <=> AsSigned(x, Limbs) > AsSigned(y, Limbs)
                    /\ signedLt(mem, p, q, Limbs) <=> AsSigned(x, Limbs) < AsSigned(y, Limbs)
                    /\ ctLte(mem, p, q, Limbs) => x <= y
                    /\ ctGte(mem, p, q, Limbs) => x >= y
                    /\ x > y => ctGt(mem, p, q, Limbs)
                    /\ x < y => ctLt(mem, p, q, Limbs)
                    /\ Cut(average(mem[p], mem[q])) = (mem[p] + mem[q] + 1) \div 2
  BY DEF OrderRight
<1> DEFINE k == Limbs
           x == Value(mem, p, k)
           y == Value(mem, q, k)
<1>1. mem \in [Positions -> Limb] /\ kind \in DOMAIN Classes
  BY DEF NumbersTyped
<1>2. k \in Nat /\ k >= 1
  BY <1>1, LimbsIs
<1>3. p \in Int /\ q \in Int /\ Fits(Positions, p, k) /\ Fits(Positions, q, k)
  BY <1>1, WindowsFit
<1> HIDE DEF k
<1>4. Window(mem, p, k) /\ Window(mem, q, k)
  BY <1>1, <1>3, WindowFits
<1>5. mem[p] \in Limb /\ mem[q] \in Limb
  <2>1. 0 \in 0..(k - 1) /\ p + 0 = p /\ q + 0 = q
    BY <1>2, <1>3
  <2>2. mem[p + 0] \in Limb /\ mem[q + 0] \in Limb
    BY <1>4, <2>1 DEF Window
  <2> QED BY <2>1, <2>2
<1>6. x \in Int /\ y \in Int
  BY <1>2, <1>4, ValueIs
<1>7. /\ gt(mem, p, q, k) <=> x > y
      /\ gte(mem, p, q, k) <=> x >= y
      /\ lt(mem, p, q, k) <=> x < y
      /\ lte(mem, p, q, k) <=> x <= y
      /\ eq(mem, p, q, k) <=> x = y
  BY <1>2, <1>4, ComparesRight
<1>8. /\ signedGt(mem, p, q, k) <=> AsSigned(x, k) > AsSigned(y, k)
      /\ signedLt(mem, p, q, k) <=> AsSigned(x, k) < AsSigned(y, k)
  BY <1>2, <1>4, SignedRight
<1>9. Cut(average(mem[p], mem[q])) = (mem[p] + mem[q] + 1) \div 2
  BY <1>5, AverageRight
<1>10. (ctNone(mem, p, q, k) => x <= y) /\ (ctNone(mem, q, p, k) => y <= x)
  BY <1>2, <1>4, ConstantTime
<1> HIDE DEF x, y
<1>11. /\ ctLte(mem, p, q, k) => x <= y
       /\ ctGte(mem, p, q, k) => x >= y
       /\ x > y => ctGt(mem, p, q, k)
       /\ x < y => ctLt(mem, p, q, k)
  BY <1>6, <1>10 DEF ctLte, ctGte, ctGt, ctLt
<1> QED BY <1>7, <1>8, <1>9, <1>11 DEF x, y, k

\* The highest limb in which two numbers differ orders them; the signed, the
\* constant-time comparisons and the average agree with their values.
THEOREM OrderAlwaysRight == NSpec => []OrderRight
<1>1. NumbersTyped => OrderRight
  BY OrderHolds
<1> QED BY <1>1, NumbersTypeCorrect, PTL

LEMMA BytesHold == ASSUME NumbersTyped PROVE BytesRight
<1>1. mem \in [Positions -> Limb] /\ kind \in DOMAIN Classes
  BY DEF NumbersTyped
<1> DEFINE k == Limbs
<1>2. k \in Nat
  BY <1>1, LimbsIs
<1>3. ASSUME NEW p \in Windows PROVE Window(mem, p, k)
  BY <1>1, <1>2, WindowsFit, WindowFits
<1> HIDE DEF k
<1>4. ASSUME NEW p \in Windows PROVE ReadBack(mem, p, k)
  BY <1>2, <1>3, WrittenRight
<1> QED BY <1>4, Zenon DEF BytesRight, ReadBack, k

\* A number written as bytes is read back from them, in both orders.
THEOREM BytesAlwaysRight == NSpec => []BytesRight
<1>1. NumbersTyped => BytesRight
  BY BytesHold
<1> QED BY <1>1, NumbersTypeCorrect, PTL

-----------------------------------------------------------------------------
(* Numbers as sums of limbs: what the methods do to the values. *)

LEMMA ModIs ==
  ASSUME NEW w \in Nat, w >= 1, NEW c \in Int, NEW r \in Nat, r < w, NEW x \in Int, x = w * c + r
  PROVE  x % w = r /\ x \div w = c
<1>1. x = c * w + r
  OBVIOUS
<1> QED BY <1>1, DivIs

LEMMA Weight ==
  ASSUME NEW i \in Nat, NEW j \in Nat
  PROVE  /\ Two(Bits(i + j)) = Two(Bits(i)) * Two(Bits(j))
         /\ Two(Bits(i)) \in Nat /\ Two(Bits(i)) >= 1
<1> DEFINE w == 2 * H
<1>1. w \in Nat
  BY BaseIs
<1>2. Bits(i) = w * i /\ Bits(j) = w * j /\ Bits(i + j) = w * (i + j)
  BY DEF Bits
<1> HIDE DEF w
<1>3. w * (i + j) = w * i + w * j
  BY <1>1
<1>4. Bits(i) \in Nat /\ Bits(j) \in Nat
  BY BitsIs
<1>5. Two(Bits(i) + Bits(j)) = Two(Bits(i)) * Two(Bits(j))
  BY <1>4, TwoSum
<1>6. Bits(i + j) = Bits(i) + Bits(j)
  BY <1>2, <1>3
<1>7. Two(Bits(i)) \in Nat /\ Two(Bits(i)) >= 1
  BY BitsIs
<1> QED BY <1>5, <1>6, <1>7

LEMMA WeightNone == Two(Bits(0)) = 1
BY BitsIs, TwoIs

LEMMA ValueSame ==
  ASSUME NEW r, NEW p, NEW m, NEW q, NEW k \in Nat, Window(m, q, k),
         \A i \in 0..(k - 1) : r[p + i] = m[q + i]
  PROVE  Value(r, p, k) = Value(m, q, k) /\ Window(r, p, k)
<1>1. Window(r, p, k)
  BY DEF Window
<1>2. \A i \in 0..(k - 1) : Weighed(m, q)[i] = Weighed(r, p)[i]
  BY DEF Weighed
<1>3. Terms(Weighed(m, q), k)
  BY WeighedTerms
<1>4. SumTo(Weighed(m, q), k) = SumTo(Weighed(r, p), k)
  BY <1>2, <1>3, SumSame, Zenon
<1> QED BY <1>1, <1>4, ValueIs

LEMMA ValueSplit ==
  ASSUME NEW m, NEW p \in Int, NEW i \in Nat, NEW k \in Nat, Window(m, p, i + k)
  PROVE  /\ Window(m, p, i) /\ Window(m, p + i, k)
         /\ Value(m, p, i + k) = Value(m, p, i) + Two(Bits(i)) * Value(m, p + i, k)
<1>0. Window(m, p, i)
  BY DEF Window
<1>1. Window(m, p + i, k)
  <2>1. ASSUME NEW j \in 0..(k - 1) PROVE m[p + i + j] \in Limb
    <3>1. i + j \in 0..(i + k - 1) /\ p + (i + j) = p + i + j
      BY <2>1
    <3>2. m[p + (i + j)] \in Limb
      BY <3>1 DEF Window
    <3> QED BY <3>1, <3>2
  <2> QED BY <2>1 DEF Window
<1> DEFINE w == Two(Bits(i))
           v == Value(m, p, i)
           P == {j \in 0..k : Value(m, p, i + j) = v + w * Value(m, p + i, j)}
<1>2. w \in Nat /\ v \in Int
  BY <1>0, BitsIs, ValueIs
<1>3. 0 \in P
  <2>1. Value(m, p + i, 0) = 0 /\ i + 0 = i
    BY ValueNone
  <2>2. v = v + w * 0
    BY <1>2
  <2> HIDE DEF w
  <2> QED BY <2>1, <2>2
<1>4. ASSUME NEW j \in Nat, j < k, j \in P PROVE j + 1 \in P
  <2>1. Window(m, p, i + j + 1) /\ Window(m, p + i, j + 1) /\ i + j \in Nat /\ i + (j + 1) = i + j + 1
    <3>1. i + j + 1 \in 0..(i + k) /\ j + 1 \in 0..k /\ i + j \in Nat /\ i + k \in Nat /\ i + (j + 1) = i + j + 1
      BY <1>4
    <3> QED BY <1>1, <3>1, WindowBelow
  <2>2. /\ Value(m, p, (i + j) + 1) = Value(m, p, i + j) + Two(Bits(i + j)) * m[p + (i + j)]
        /\ m[p + (i + j)] \in Limb
    BY <2>1, ValueNext
  <2>3. /\ Value(m, p + i, j + 1) = Value(m, p + i, j) + Two(Bits(j)) * m[p + i + j]
        /\ Value(m, p + i, j) \in Int
    BY <2>1, ValueNext
  <2>4. Two(Bits(i + j)) = w * Two(Bits(j)) /\ p + (i + j) = p + i + j /\ Two(Bits(j)) \in Nat
    BY Weight
  <2> DEFINE a == m[p + i + j]
             u == Two(Bits(j))
             s == Value(m, p + i, j)
  <2>5. a \in Int /\ u \in Nat /\ s \in Int
    BY <2>2, <2>3, <2>4, LimbIs
  <2>6. Value(m, p, i + j) = v + w * s
    BY <1>4
  <2>7. Value(m, p, i + (j + 1)) = v + w * s + (w * u) * a
    BY <2>1, <2>2, <2>4, <2>6
  <2>8. Value(m, p + i, j + 1) = s + u * a
    BY <2>3
  <2> HIDE DEF w, v, a, u, s
  <2>9. v + w * s + (w * u) * a = v + w * (s + u * a)
    <3>1. (w * u) * a = w * (u * a) /\ u * a \in Int
      BY <1>2, <2>5, TimesAssoc
    <3>2. w * (s + u * a) = w * s + w * (u * a)
      BY <1>2, <2>5, <3>1, TimesSum
    <3>3. w * s \in Int /\ w * (u * a) \in Int
      BY <1>2, <2>5, <3>1
    <3> QED BY <1>2, <3>1, <3>2, <3>3
  <2>10. Value(m, p, i + (j + 1)) = v + w * Value(m, p + i, j + 1)
    BY <2>7, <2>8, <2>9
  <2>11. j + 1 \in 0..k
    BY <1>4
  <2> QED BY <2>10, <2>11 DEF v, w
<1>5. k \in P
  <2> HIDE DEF P
  <2> QED BY <1>3, <1>4, UpTo
<1> QED BY <1>0, <1>1, <1>5

\* One limb more
LEMMA ValueFirst ==
  ASSUME NEW m, NEW p, m[p + 0] \in Limb
  PROVE  Value(m, p, 1) = m[p + 0] /\ Window(m, p, 1)
<1>1. Window(m, p, 0 + 1)
  BY DEF Window
<1>2. Value(m, p, 0 + 1) = Value(m, p, 0) + Two(Bits(0)) * m[p + 0]
  BY <1>1, ValueNext
<1>3. Value(m, p, 0) = 0 /\ Two(Bits(0)) = 1
  BY ValueNone, WeightNone
<1>4. m[p + 0] \in Int
  BY LimbIs
<1> QED BY <1>1, <1>2, <1>3, <1>4

-----------------------------------------------------------------------------
(* not, add and sub *)

LEMMA NotValue ==
  ASSUME NEW m, NEW p, NEW r, NEW k \in Nat, Window(m, p, k),
         \A i \in 0..(k - 1) : r[p + i] = Base - 1 - m[p + i]
  PROVE  Value(r, p, k) = Two(Bits(k)) - 1 - Value(m, p, k) /\ Window(r, p, k)
<1>0. Window(r, p, k)
  BY NotLimb DEF Window
<1> DEFINE P == {j \in 0..k : Value(r, p, j) = Two(Bits(j)) - 1 - Value(m, p, j)}
<1>1. 0 \in P
  BY ValueNone, WeightNone
<1>2. ASSUME NEW j \in Nat, j < k, j \in P PROVE j + 1 \in P
  <2>1. Window(m, p, j + 1) /\ Window(r, p, j + 1) /\ j \in 0..(k - 1) /\ j + 1 \in 0..k
    <3>1. j + 1 \in 0..k /\ j \in 0..(k - 1)
      BY <1>2
    <3> QED BY <1>0, <3>1, WindowBelow
  <2> DEFINE w == Two(Bits(j))
             a == m[p + j]
             b == Base
             v == Value(m, p, j)
             u == Value(r, p, j)
  <2>2. Value(m, p, j + 1) = v + w * a /\ a \in Limb /\ v \in Int
    BY <2>1, ValueNext
  <2>3. Value(r, p, j + 1) = u + w * (b - 1 - a) /\ u \in Int
    <3>1. Value(r, p, j + 1) = u + w * r[p + j] /\ u \in Int
      BY <2>1, ValueNext
    <3> QED BY <2>1, <3>1
  <2>4. w \in Nat /\ Two(Bits(j + 1)) = b * w /\ b \in Nat /\ a \in Int
    BY <2>2, BitsIs, BaseIs, LimbIs
  <2>5. u = w - 1 - v
    BY <1>2
  <2> HIDE DEF w, a, b, v, u
  <2>6. u + w * (b - 1 - a) = b * w - 1 - (v + w * a)
    <3>1. w * (b - 1 - a) = w * b - w - w * a
      BY <2>4
    <3>2. w * b = b * w /\ w * b \in Int /\ w * a \in Int
      BY <2>4
    <3> QED BY <2>2, <2>3, <2>4, <2>5, <3>1, <3>2
  <2>7. Value(r, p, j + 1) = Two(Bits(j + 1)) - 1 - Value(m, p, j + 1)
    BY <2>2, <2>3, <2>4, <2>6
  <2> QED BY <2>1, <2>7
<1>3. k \in P
  <2> HIDE DEF P
  <2> QED BY <1>1, <1>2, UpTo
<1> QED BY <1>0, <1>3

\* One column of an addition or a subtraction
LEMMA CarryColumn ==
  ASSUME NEW w \in Int, NEW b \in Int, NEW u \in Int, NEW x \in Int, NEW y \in Int, NEW a \in Int,
         NEW e \in Int, NEW c \in Int, NEW d \in Int, NEW f \in Int,
         u + w * c = x + y, a + e + c = b * d + f
  PROVE  (u + w * f) + (b * w) * d = (x + w * a) + (y + w * e)
<1>1. w * (a + e + c) = w * a + w * e + w * c
  OBVIOUS
<1>2. w * (b * d + f) = w * (b * d) + w * f
  <2>1. b * d \in Int
    OBVIOUS
  <2> QED BY <2>1, TimesSum
<1>3. w * (b * d) = (b * w) * d
  <2>1. w * (b * d) = (w * b) * d
    BY TimesAssoc
  <2>2. w * b = b * w
    OBVIOUS
  <2> QED BY <2>1, <2>2
<1> DEFINE wa == w * a
           we == w * e
           wc == w * c
           wf == w * f
           z == (b * w) * d
<1>4. wa \in Int /\ we \in Int /\ wc \in Int /\ wf \in Int /\ z \in Int
  <2>1. b * w \in Int
    OBVIOUS
  <2> QED BY <2>1
<1>5. wa + we + wc = z + wf /\ u + wc = x + y
  BY <1>1, <1>2, <1>3
<1> HIDE DEF wa, we, wc, wf, z
<1>6. (u + wf) + z = (x + wa) + (y + we)
  BY <1>4, <1>5
<1> QED BY <1>6 DEF wa, we, wf, z

\* The sum, or the difference, of the limbs seen so far
LEMMA CarriedValue ==
  ASSUME NEW D \in SUBSET Int, NEW m \in [D -> Limb], NEW p \in Int, NEW q \in Int, NEW k \in Nat,
         Fits(D, p, k), Fits(D, q, k), NEW g \in {1, -1},
         NEW S, NEW at, NEW carry, Carries(at, carry, m, D, p, k, S),
         \A i \in 0..(k - 1) : S[i][at[i]] = m[p + i] + g * m[q + i]
  PROVE  \E c \in Int : Value(at[k], p, k) + Two(Bits(k)) * c = Value(m, p, k) + g * Value(m, q, k)
<1>0. Window(m, p, k) /\ Window(m, q, k) /\ \A i \in 0..k : at[i] \in [D -> Limb] /\ carry[i] \in Int
  <2>1. \A i \in 0..k : at[i] \in [D -> Limb] /\ carry[i] \in Int
    BY DEF Carries
  <2> QED BY <2>1, WindowFits
<1>9. \A i \in 0..k : Window(at[i], p, k)
  <2> SUFFICES ASSUME NEW i \in 0..k PROVE Window(at[i], p, k)
    OBVIOUS
  <2>1. at[i] \in [D -> Limb]
    BY <1>0
  <2> QED BY <2>1, WindowFits
<1> DEFINE P == {i \in 0..k : Value(at[i], p, i) + Two(Bits(i)) * carry[i]
                                = Value(m, p, i) + g * Value(m, q, i)}
<1>1. 0 \in P
  <2>1. carry[0] = 0
    BY DEF Carries
  <2>2. Value(at[0], p, 0) = 0 /\ Value(m, p, 0) = 0 /\ Value(m, q, 0) = 0 /\ Two(Bits(0)) = 1
    BY ValueNone, WeightNone
  <2>3. 0 + 1 * 0 = 0 + g * 0
    OBVIOUS
  <2> QED BY <2>1, <2>2, <2>3
<1>2. ASSUME NEW i \in Nat, i < k, i \in P PROVE i + 1 \in P
  <2>1. i \in 0..(k - 1) /\ i \in 0..k /\ i + 1 \in 0..k
    BY <1>2
  <2> DEFINE w == Two(Bits(i))
             a == m[p + i]
             h == m[q + i]
             e == g * h
             c == carry[i]
             f == Cut(a + e + c)
             d == (a + e + c) \div Base
             u == Value(at[i], p, i)
             x == Value(m, p, i)
             y == Value(m, q, i)
             b == Base
  <2>2. Window(m, p, i + 1) /\ Window(m, q, i + 1) /\ Window(at[i + 1], p, i + 1) /\ Window(at[i], p, i)
    BY <1>0, <1>9, <2>1, WindowBelow
  <2>3. Value(m, p, i + 1) = x + w * a /\ Value(m, q, i + 1) = y + w * h /\ x \in Int /\ y \in Int
        /\ a \in Limb /\ h \in Limb
    BY <2>2, ValueNext
  <2>4. at[i + 1] = [at[i] EXCEPT ![p + i] = f] /\ carry[i + 1] = d
    <3>1. /\ at[i + 1] = [at[i] EXCEPT ![p + i] = Cut(S[i][at[i]] + carry[i])]
          /\ carry[i + 1] = (S[i][at[i]] + carry[i]) \div Base
      BY <2>1 DEF Carries
    <3>2. S[i][at[i]] = a + e
      BY <2>1
    <3> QED BY <3>1, <3>2
  <2>5. a \in Int /\ h \in Int /\ e \in Int /\ c \in Int /\ u \in Int /\ w \in Nat /\ b \in Nat
    <3>1. a \in Int /\ h \in Int
      BY <2>3, LimbIs
    <3>2. e \in Int
      BY <3>1
    <3>3. c \in Int
      BY <1>0, <2>1
    <3>4. u \in Int /\ w \in Nat /\ b \in Nat
      BY <2>2, ValueIs, BitsIs, BaseIs
    <3> QED BY <3>1, <3>2, <3>3, <3>4
  <2>6. f \in Limb /\ f \in Int /\ d \in Int /\ a + e + c = b * d + f
    <3>1. a + e + c \in Int
      BY <2>5
    <3> DEFINE z == a + e + c
    <3> HIDE DEF z
    <3>2. Cut(z) \in Limb /\ z = Base * (z \div Base) + Cut(z) /\ z \div Base \in Int
      BY <3>1, CutIs DEF z
    <3>3. Cut(z) \in Int
      BY <3>2, LimbIs
    <3> QED BY <3>2, <3>3 DEF z
  <2> HIDE DEF f, d
  <2>7. Value(at[i + 1], p, i + 1) = u + w * f
    <3>1. Value(at[i + 1], p, i + 1) = Value(at[i + 1], p, i) + w * at[i + 1][p + i]
      BY <2>2, ValueNext
    <3>2. at[i] \in [D -> Limb] /\ p + i \in D
      BY <1>0, <2>1 DEF Fits
    <3>3. at[i + 1][p + i] = f
      BY <2>4, <3>2
    <3>4. \A j \in 0..(i - 1) : at[i + 1][p + j] = at[i][p + j]
      <4>1. ASSUME NEW j \in 0..(i - 1) PROVE at[i + 1][p + j] = at[i][p + j]
        <5>1. p + j # p + i /\ j \in 0..(k - 1)
          BY <2>1
        <5>2. p + j \in D
          BY <5>1 DEF Fits
        <5> QED BY <2>4, <3>2, <5>1, <5>2
      <4> QED BY <4>1
    <3>5. Value(at[i + 1], p, i) = u
      BY <2>2, <3>4, ValueSame
    <3> QED BY <3>1, <3>3, <3>5
  <2>8. u + w * c = x + g * y
    BY <1>2
  <2>9. g * Value(m, q, i + 1) = g * y + w * e
    <3>1. g * (y + w * h) = g * y + g * (w * h)
      <4>1. w * h \in Int
        BY <2>5
      <4> QED BY <2>3, <4>1, TimesSum
    <3>2. g * (w * h) = w * (g * h)
      <4>1. g = 1 \/ g = -1
        OBVIOUS
      <4>2. CASE g = 1
        BY <2>5, <4>2
      <4>3. CASE g = -1
        BY <2>5, <4>3
      <4> QED BY <4>1, <4>2, <4>3
    <3> QED BY <2>3, <3>1, <3>2
  <2>10. Two(Bits(i + 1)) = b * w
    BY BitsIs
  <2> DEFINE gy == g * y
  <2>11. gy \in Int
    BY <2>3
  <2> HIDE DEF w, a, e, c, u, x, y, b, gy
  <2>12. (u + w * f) + (b * w) * d = (x + w * a) + (gy + w * e)
    <3>1. w \in Int /\ b \in Int /\ u + w * c = x + gy /\ a + e + c = b * d + f
      BY <2>5, <2>6, <2>8 DEF gy
    <3> QED BY <2>3, <2>5, <2>6, <2>11, <3>1, CarryColumn
  <2>13. Value(at[i + 1], p, i + 1) + Two(Bits(i + 1)) * carry[i + 1]
           = Value(m, p, i + 1) + g * Value(m, q, i + 1)
    BY <2>3, <2>4, <2>7, <2>9, <2>10, <2>12 DEF gy
  <2> QED BY <2>1, <2>13
<1>3. k \in P
  <2> HIDE DEF P
  <2> QED BY <1>1, <1>2, UpTo
<1>4. carry[k] \in Int
  BY <1>0
<1> QED BY <1>3, <1>4

LEMMA WrapIs ==
  ASSUME NEW m, NEW p, NEW k \in Nat, Window(m, p, k), NEW c \in Int, NEW z \in Int,
         Value(m, p, k) + Two(Bits(k)) * c = z
  PROVE  Value(m, p, k) = z % Two(Bits(k)) /\ c = z \div Two(Bits(k))
<1> DEFINE w == Two(Bits(k))
           v == Value(m, p, k)
<1>1. w \in Nat /\ w >= 1 /\ v \in Nat /\ v < w
  BY BitsIs, ValueRange
<1>2. v + w * c = z
  OBVIOUS
<1> HIDE DEF w, v
<1>3. z = w * c + v
  BY <1>1, <1>2
<1>4. z % w = v /\ z \div w = c
  BY <1>1, <1>3, ModIs
<1> QED BY <1>4 DEF w, v

LEMMA AddValue ==
  ASSUME NEW D \in SUBSET Int, NEW m \in [D -> Limb], NEW p \in Int, NEW q \in Int, NEW k \in Nat,
         Fits(D, p, k), Fits(D, q, k), Free(p, q, k)
  PROVE  /\ Value(addEq(m, p, q, k), p, k) = (Value(m, p, k) + Value(m, q, k)) % Two(Bits(k))
         /\ Value(subEq(m, p, q, k), p, k) = (Value(m, p, k) - Value(m, q, k)) % Two(Bits(k))
<1> DEFINE A == [i \in 0..(k - 1) |-> [l \in Mem(m) |-> l[p + i] + l[q + i]]]
           S == [i \in 0..(k - 1) |-> [l \in Mem(m) |-> l[p + i] - l[q + i]]]
<1>1. addEq(m, p, q, k) = Carried(m, p, k, A) /\ subEq(m, p, q, k) = Carried(m, p, k, S)
  BY DEF addEq, subEq
<1>2. \A i \in 0..(k - 1) : /\ A[i] = [l \in [D -> Limb] |-> l[p + i] + l[q + i]]
                            /\ S[i] = [l \in [D -> Limb] |-> l[p + i] - l[q + i]]
  BY MemIs
<1> HIDE DEF A, S
<1>3. ASSUME NEW i \in 0..(k - 1), NEW l \in [D -> Limb]
      PROVE  l[p + i] \in Int /\ l[q + i] \in Int
  BY ReadLimb, LimbIs
<1>4. Columns(A, D, k) /\ Columns(S, D, k)
  <2>1. ASSUME NEW i \in 0..(k - 1) PROVE A[i] \in [[D -> Limb] -> Int] /\ S[i] \in [[D -> Limb] -> Int]
    <3>1. ASSUME NEW l \in [D -> Limb] PROVE l[p + i] + l[q + i] \in Int /\ l[p + i] - l[q + i] \in Int
      BY <1>3
    <3> QED BY <1>2, <3>1
  <2> QED BY <2>1 DEF Columns
<1>5. Window(m, p, k) /\ Window(m, q, k)
  BY WindowFits
<1> DEFINE x == Value(m, p, k)
           y == Value(m, q, k)
           w == Two(Bits(k))
<1>6. x \in Int /\ y \in Int
  BY <1>5, ValueIs
<1>7. ASSUME NEW T, Columns(T, D, k), NEW g \in {1, -1},
             \A i \in 0..(k - 1) : \A l \in [D -> Limb] : T[i][l] = l[p + i] + g * l[q + i]
      PROVE  Value(Carried(m, p, k, T), p, k) = (x + g * y) % w
  <2>1. PICK at, carry : Carries(at, carry, m, D, p, k, T) /\ Carried(m, p, k, T) = at[k]
    <3>1. CarryRun(Carried(m, p, k, T), m, D, p, k, T)
      BY <1>7, CarriedIs
    <3> QED BY <3>1 DEF CarryRun
  <2>2. ASSUME NEW i \in 0..(k - 1) PROVE T[i][at[i]] = m[p + i] + g * m[q + i]
    <3>1. i \in 0..k
      OBVIOUS
    <3>5. \A j \in 0..k : Inside(m, at[j], D, p, j)
      BY <2>1, CarriedInside
    <3>2. at[i] \in [D -> Limb] /\ Inside(m, at[i], D, p, i)
      BY <3>1, <3>5 DEF Inside
    <3>3. p + i \in D /\ q + i \in D /\ p + i \notin p..(p + i - 1) /\ q + i \notin p..(p + i - 1)
      BY DEF Free, Fits
    <3>4. at[i][p + i] = m[p + i] /\ at[i][q + i] = m[q + i]
      BY <3>2, <3>3 DEF Inside
    <3> QED BY <1>7, <3>2, <3>4
  <2>3. PICK c \in Int : Value(at[k], p, k) + w * c = x + g * y
    BY <2>1, <2>2, CarriedValue
  <2>4. Window(at[k], p, k)
    <3>1. k \in 0..k
      OBVIOUS
    <3>2. at[k] \in [D -> Limb]
      BY <2>1, <3>1 DEF Carries
    <3> QED BY <3>2, WindowFits
  <2>5. x + g * y \in Int
    BY <1>6
  <2> QED BY <2>1, <2>3, <2>4, <2>5, WrapIs
<1> HIDE DEF x, y, w
<1>8. \A i \in 0..(k - 1) : \A l \in [D -> Limb] :
        /\ A[i][l] = l[p + i] + 1 * l[q + i]
        /\ S[i][l] = l[p + i] + (-1) * l[q + i]
  <2> SUFFICES ASSUME NEW i \in 0..(k - 1), NEW l \in [D -> Limb]
               PROVE  /\ A[i][l] = l[p + i] + 1 * l[q + i]
                      /\ S[i][l] = l[p + i] + (-1) * l[q + i]
    OBVIOUS
  <2>1. A[i][l] = l[p + i] + l[q + i] /\ S[i][l] = l[p + i] - l[q + i]
    BY <1>2
  <2>2. l[p + i] \in Int /\ l[q + i] \in Int
    BY <1>3
  <2> QED BY <2>1, <2>2
<1>9. Value(addEq(m, p, q, k), p, k) = (x + 1 * y) % w
  BY <1>1, <1>4, <1>7, <1>8
<1>10. Value(subEq(m, p, q, k), p, k) = (x + (-1) * y) % w
  BY <1>1, <1>4, <1>7, <1>8
<1>11. x + 1 * y = x + y /\ x + (-1) * y = x - y
  BY <1>6
<1> QED BY <1>9, <1>10, <1>11 DEF x, y, w

-----------------------------------------------------------------------------
(* abs, set and zero *)

LEMMA ZeroValue ==
  ASSUME NEW m, NEW p, NEW k \in Nat, \A i \in 0..(k - 1) : m[p + i] = 0
  PROVE  Value(m, p, k) = 0 /\ Window(m, p, k)
<1>0. Window(m, p, k)
  <2>1. 0 \in Limb
    BY LimbIs, BaseIs
  <2> QED BY <2>1 DEF Window
<1> DEFINE P == {j \in 0..k : Value(m, p, j) = 0}
<1>1. 0 \in P
  BY ValueNone
<1>2. ASSUME NEW j \in Nat, j < k, j \in P PROVE j + 1 \in P
  <2>1. Window(m, p, j + 1) /\ j \in 0..(k - 1) /\ j + 1 \in 0..k
    <3>1. j + 1 \in 0..k /\ j \in 0..(k - 1)
      BY <1>2
    <3> QED BY <1>0, <3>1, WindowBelow
  <2>2. Value(m, p, j + 1) = Value(m, p, j) + Two(Bits(j)) * m[p + j]
    BY <2>1, ValueNext
  <2>3. m[p + j] = 0 /\ Value(m, p, j) = 0 /\ Two(Bits(j)) \in Nat
    BY <1>2, <2>1, BitsIs
  <2>4. Two(Bits(j)) * 0 = 0
    BY <2>3
  <2> QED BY <2>1, <2>2, <2>3, <2>4
<1>3. k \in P
  <2> HIDE DEF P
  <2> QED BY <1>1, <1>2, UpTo
<1> QED BY <1>0, <1>3

\* Up to the first limb that is not zero nothing changes but that limb; above it
\* the limbs are turned over.
LEMMA NegValue ==
  ASSUME NEW m, NEW p \in Int, NEW r, NEW k \in Nat, Window(m, p, k), NEW s \in 0..(k - 1),
         \A i \in 0..(s - 1) : m[p + i] = 0, m[p + s] # 0,
         \A i \in 0..(k - 1) : r[p + i] = IF i <= s THEN Cut(Base - 1 - m[p + i] + 1)
                                          ELSE Base - 1 - m[p + i]
  PROVE  Value(r, p, k) = Two(Bits(k)) - Value(m, p, k)
<1>1. \A i \in 0..(s - 1) : r[p + i] = 0
  <2> SUFFICES ASSUME NEW i \in 0..(s - 1) PROVE r[p + i] = 0
    OBVIOUS
  <2> DEFINE b == Base
  <2>1. i \in 0..(k - 1) /\ i <= s /\ m[p + i] = 0
    OBVIOUS
  <2>2. b \in Nat /\ b >= 4
    BY BaseIs
  <2>3. r[p + i] = (b - 1 - 0 + 1) % b
    BY <2>1 DEF Cut
  <2> HIDE DEF b
  <2>4. b - 1 - 0 + 1 = b /\ b % b = 0
    BY <2>2
  <2> QED BY <2>3, <2>4
<1> DEFINE x == m[p + s]
           b == Base
           w == Two(Bits(s))
           j == k - s - 1
           u == Two(Bits(j))
           v == Value(m, p + (s + 1), j)
           n == Value(r, p + (s + 1), j)
<1>2. x \in Int /\ 0 < x /\ x < b /\ b \in Nat
  <2>1. x \in Limb
    BY DEF Window
  <2>2. b \in Nat
    BY BaseIs
  <2>3. x \in Int /\ 0 <= x /\ x < b
    BY <2>1, LimbIs
  <2> QED BY <2>2, <2>3
<1>3. r[p + s] = b - x
  <2>1. r[p + s] = (b - 1 - x + 1) % b
    BY DEF Cut
  <2> HIDE DEF x, b
  <2>2. b - 1 - x + 1 = b - x /\ (b - x) % b = b - x
    BY <1>2
  <2> QED BY <2>1, <2>2
<1>4. s \in Nat /\ j \in Nat /\ s + 1 \in Nat /\ (s + 1) + j = k /\ s + 1 \in 0..k
  OBVIOUS
<1>5. Window(m, p, (s + 1) + j) /\ Window(m, p, s + 1) /\ Window(m, p, s)
  <2>1. s \in 0..k
    OBVIOUS
  <2> HIDE DEF j
  <2> QED BY <1>4, <2>1, WindowBelow
<1>6. Window(m, p + (s + 1), j) /\ Value(m, p, k) = Value(m, p, s + 1) + Two(Bits(s + 1)) * v
  <2> DEFINE c == s + 1
  <2>1. c \in Nat /\ j \in Nat /\ c + j = k /\ Window(m, p, c + j)
    BY <1>4, <1>5
  <2> HIDE DEF j, c
  <2>2. Window(m, p + c, j) /\ Value(m, p, c + j) = Value(m, p, c) + Two(Bits(c)) * Value(m, p + c, j)
    BY <2>1, ValueSplit
  <2> QED BY <2>1, <2>2 DEF c
<1>7. Value(m, p, s + 1) = w * x
  <2>1. Value(m, p, s + 1) = Value(m, p, s) + w * x
    BY <1>4, <1>5, ValueNext
  <2>2. Value(m, p, s) = 0
    BY <1>4, ZeroValue
  <2>3. w * x \in Int
    BY <1>2, <1>4, BitsIs
  <2> QED BY <2>1, <2>2, <2>3
<1>8. n = u - 1 - v /\ Window(r, p + (s + 1), j)
  <2>1. ASSUME NEW i \in 0..(j - 1) PROVE r[p + (s + 1) + i] = Base - 1 - m[p + (s + 1) + i]
    <3>1. s + 1 + i \in 0..(k - 1) /\ ~(s + 1 + i <= s) /\ p + (s + 1 + i) = p + (s + 1) + i
      OBVIOUS
    <3>2. r[p + (s + 1 + i)] = Base - 1 - m[p + (s + 1 + i)]
      BY <3>1
    <3> QED BY <3>1, <3>2
  <2> DEFINE o == p + (s + 1)
  <2>2. \A i \in 0..(j - 1) : r[o + i] = Base - 1 - m[o + i]
    BY <2>1
  <2>3. j \in Nat /\ Window(m, o, j)
    BY <1>4, <1>6
  <2> HIDE DEF j, o
  <2>4. Value(r, o, j) = Two(Bits(j)) - 1 - Value(m, o, j) /\ Window(r, o, j)
    BY <2>2, <2>3, NotValue
  <2> QED BY <2>4 DEF o
<1>9. Window(r, p, (s + 1) + j) /\ Window(r, p, s + 1) /\ Window(r, p, s)
  <2>1. ASSUME NEW i \in 0..(k - 1) PROVE r[p + i] \in Limb
    <3>1. m[p + i] \in Limb
      BY DEF Window
    <3>2. Base - 1 - m[p + i] \in Limb
      BY <3>1, NotLimb
    <3>3. Cut(Base - 1 - m[p + i] + 1) \in Limb
      <4> DEFINE y == Base - 1 - m[p + i]
      <4>1. y \in Int
        BY <3>2, LimbIs
      <4> HIDE DEF y
      <4>3. y + 1 \in Int
        BY <4>1
      <4>2. Base - 1 - m[p + i] + 1 \in Int
        BY <4>3 DEF y
      <4> QED BY <4>2, CutIs
    <3> QED BY <3>2, <3>3
  <2>2. Window(r, p, k)
    BY <2>1 DEF Window
  <2>3. s \in 0..k
    OBVIOUS
  <2> HIDE DEF j
  <2> QED BY <1>4, <2>2, <2>3, WindowBelow
<1>10. Value(r, p, k) = Value(r, p, s + 1) + Two(Bits(s + 1)) * n
  <2> DEFINE c == s + 1
  <2>1. c \in Nat /\ j \in Nat /\ c + j = k /\ Window(r, p, c + j)
    BY <1>4, <1>9
  <2> HIDE DEF j, c
  <2>2. Value(r, p, c + j) = Value(r, p, c) + Two(Bits(c)) * Value(r, p + c, j)
    BY <2>1, ValueSplit
  <2> QED BY <2>1, <2>2 DEF c
<1>11. Value(r, p, s + 1) = w * (b - x)
  <2>1. Value(r, p, s + 1) = Value(r, p, s) + w * r[p + s]
    BY <1>4, <1>9, ValueNext
  <2>2. Value(r, p, s) = 0
    BY <1>1, <1>4, ZeroValue
  <2>3. w * (b - x) \in Int
    BY <1>2, <1>4, BitsIs
  <2> QED BY <1>3, <2>1, <2>2, <2>3
<1> DEFINE t == Two(Bits(s + 1))
<1>12. t = b * w /\ w \in Nat
  BY <1>4, BitsIs
<1>13. Two(Bits(k)) = t * u /\ u \in Nat /\ t \in Nat
  <2> HIDE DEF j
  <2> QED BY <1>4, Weight
<1>14. v \in Int
  <2> HIDE DEF j
  <2> QED BY <1>4, <1>6, ValueIs
<1> HIDE DEF x, b, w, j, u, v, n, t
<1>15. w * (b - x) + t * (u - 1 - v) = t * u - (w * x + t * v)
  <2>1. w * (b - x) = w * b - w * x /\ w * b = t
    BY <1>2, <1>12
  <2>2. t * (u - 1 - v) = t * u - t - t * v
    BY <1>13, <1>14
  <2>3. w * x \in Int /\ t * u \in Int /\ t * v \in Int
    BY <1>2, <1>12, <1>13, <1>14
  <2> QED BY <1>13, <2>1, <2>2, <2>3
<1> QED BY <1>6, <1>7, <1>8, <1>10, <1>11, <1>13, <1>15 DEF t

LEMMA AbsValue ==
  ASSUME NEW D \in SUBSET Int, NEW m \in [D -> Limb], NEW p \in Int, NEW k \in Nat, k >= 1, Fits(D, p, k),
         negative(m, p, k)
  PROVE  Value(negEq(m, p, k), p, k) = Two(Bits(k)) - Value(m, p, k)
<1> DEFINE r == negEq(m, p, k)
<1>0. PICK s : Negated(m, r, p, k, s)
  BY NegEq, Zenon
<1> HIDE DEF r
<1>1. /\ s \in 0..(k - 1)
      /\ \A i \in 0..(s - 1) : m[p + i] = 0
      /\ s < k - 1 => m[p + s] # 0
      /\ \A i \in 0..(k - 1) : r[p + i] = IF i <= s THEN Cut(Base - 1 - m[p + i] + 1)
                                           ELSE Base - 1 - m[p + i]
  BY <1>0 DEF Negated
<1>2. m[p + s] # 0
  <2>1. CASE s < k - 1
    BY <1>1, <2>1
  <2>2. CASE ~(s < k - 1)
    <3>1. s = k - 1 /\ p + k - 1 = p + s
      BY <1>1, <2>2
    <3>2. m[p + s] >= Base \div 2
      BY <3>1 DEF negative
    <3>3. Base \div 2 >= 1
      <4> DEFINE b == Base
      <4>1. b \in Nat /\ b >= 4
        BY BaseIs
      <4> HIDE DEF b
      <4>2. b \div 2 >= 1
        BY <4>1
      <4> QED BY <4>2 DEF b
    <3>4. Base \div 2 \in Int
      BY BaseIs
    <3> HIDE <3>1
    <3> QED BY <3>2, <3>3, <3>4
  <2> QED BY <2>1, <2>2
<1>3. Window(m, p, k)
  BY WindowFits
<1>4. Value(r, p, k) = Two(Bits(k)) - Value(m, p, k)
  BY <1>1, <1>2, <1>3, NegValue
<1> QED BY <1>4 DEF r

-----------------------------------------------------------------------------
(* Bits: those of a number are the bits of its limbs. *)

\* The bit of x of the weight t, above low, is the lowest of d.
Digit(x, i, t, low, d, c) ==
    /\ t \in Nat /\ t >= 1 /\ Two(i) = t /\ low \in Nat /\ low < t /\ d \in Nat /\ c \in Nat
    /\ x \in Nat /\ x = low + t * d + (2 * t) * c
LEMMA DigitBit ==
  ASSUME NEW x, NEW i, NEW t, NEW low, NEW d, NEW c, Digit(x, i, t, low, d, c)
  PROVE  BitOf(x, i) = d % 2
<1>0. /\ t \in Nat /\ t >= 1 /\ Two(i) = t /\ low \in Nat /\ low < t /\ d \in Nat /\ c \in Nat
      /\ x \in Nat /\ x = low + t * d + (2 * t) * c
  BY DEF Digit
<1> DEFINE n == d + 2 * c
<1>1. n \in Nat /\ n % 2 = d % 2
  BY <1>0
<1>2. x = t * n + low
  <2>1. t * n = t * d + t * (2 * c)
    BY <1>0, TimesSum
  <2>2. t * (2 * c) = (2 * t) * c
    BY <1>0
  <2> DEFINE td == t * d
             tc == (2 * t) * c
  <2>3. td \in Int /\ tc \in Int /\ x = low + td + tc /\ t * n = td + tc
    BY <1>0, <2>1, <2>2
  <2> HIDE DEF td, tc, n
  <2>4. low \in Int
    BY <1>0
  <2> QED BY <2>3, <2>4
<1> HIDE DEF n
<1>3. x \div t = n
  <2>1. t \in Nat /\ t >= 1 /\ low \in Nat /\ low < t /\ x \in Int /\ n \in Int
    BY <1>0, <1>1
  <2> QED BY <1>2, <2>1, ModIs
<1> QED BY <1>0, <1>1, <1>3 DEF BitOf

LEMMA SumBit ==
  ASSUME NEW k \in Nat, NEW b, Binary01(b, k), NEW i \in 0..(k - 1)
  PROVE  BitOf(SumTo(Powers(b), k), i) = b[i]
<1> DEFINE s(j) == SumTo(Powers(b), j)
           t == Two(i)
           u == Two(i + 1)
           P == {j \in 0..k : j > i => \E c \in Nat : s(j) = s(i) + t * b[i] + u * c}
<1>0. \A j \in 0..k : s(j) \in Nat /\ s(j) < Two(j)
  <2> SUFFICES ASSUME NEW j \in 0..k PROVE s(j) \in Nat /\ s(j) < Two(j)
    OBVIOUS
  <2>1. Binary01(b, j) /\ j \in Nat
    BY DEF Binary01
  <2> QED BY <2>1, PowersSmall
<1>1. b[i] \in 0..1 /\ t \in Nat /\ t >= 1 /\ u \in Nat /\ u = 2 * t
  <2>1. i \in Nat
    OBVIOUS
  <2> QED BY <2>1, TwoIs DEF Binary01
<1>2. \A j \in 0..(k - 1) : s(j + 1) = s(j) + Two(j) * b[j]
  <2> SUFFICES ASSUME NEW j \in 0..(k - 1) PROVE s(j + 1) = s(j) + Two(j) * b[j]
    OBVIOUS
  <2>1. Binary01(b, j + 1) /\ j \in Nat /\ j + 1 \in Nat
    BY DEF Binary01
  <2>2. Terms(Powers(b), j + 1)
    BY <2>1, PowersTerms
  <2>3. s(j + 1) = s(j) + Powers(b)[j]
    BY <2>1, <2>2, SumNext
  <2>4. Powers(b)[j] = Two(j) * b[j]
    BY <2>1 DEF Powers
  <2> QED BY <2>3, <2>4
<1> HIDE DEF s, t, u
<1>3. 0 \in P
  OBVIOUS
<1>4. ASSUME NEW j \in Nat, j < k, j \in P PROVE j + 1 \in P
  <2>0. j + 1 \in 0..k /\ j \in 0..(k - 1) /\ i \in 0..k
    BY <1>4
  <2>1. CASE j < i
    <3>1. ~(j + 1 > i)
      BY <2>1
    <3> QED BY <2>0, <3>1
  <2>2. CASE j = i
    <3>1. s(j + 1) = s(i) + t * b[i]
      BY <1>2, <2>0, <2>2 DEF t
    <3>2. t * b[i] \in Int /\ s(i) \in Int
      BY <1>0, <1>1, <2>0
    <3>3. s(j + 1) = s(i) + t * b[i] + u * 0
      BY <1>1, <3>1, <3>2
    <3> QED BY <2>0, <3>3
  <2>3. CASE j > i
    <3>1. PICK c \in Nat : s(j) = s(i) + t * b[i] + u * c
      BY <1>4, <2>3
    <3> DEFINE n == j - (i + 1)
               e == Two(n)
    <3>2. n \in Nat /\ (i + 1) + n = j /\ i + 1 \in Nat
      BY <2>3
    <3> HIDE DEF n
    <3>3. Two(j) = u * e /\ e \in Nat
      BY <3>2, TwoSum, TwoIs DEF u
    <3>4. b[j] \in Nat
      BY <2>0 DEF Binary01
    <3> HIDE DEF e
    <3>5. s(j + 1) = s(i) + t * b[i] + u * c + (u * e) * b[j]
      BY <1>2, <2>0, <3>1, <3>3
    <3>6. u * c + (u * e) * b[j] = u * (c + e * b[j]) /\ c + e * b[j] \in Nat
      <4>1. (u * e) * b[j] = u * (e * b[j]) /\ e * b[j] \in Nat
        BY <1>1, <3>3, <3>4, TimesAssoc
      <4>2. u * (c + e * b[j]) = u * c + u * (e * b[j])
        BY <1>1, <4>1, TimesSum
      <4> QED BY <4>1, <4>2
    <3> DEFINE z == c + e * b[j]
               uc == u * c
               ue == (u * e) * b[j]
               tb == t * b[i]
    <3>7. uc \in Int /\ ue \in Int /\ tb \in Int /\ s(i) \in Int /\ z \in Nat /\ uc + ue = u * z
          /\ s(j + 1) = s(i) + tb + uc + ue
      <4>1. u * e \in Int
        BY <1>1, <3>3
      <4>2. (u * e) * b[j] \in Int
        BY <3>4, <4>1
      <4> QED BY <1>0, <1>1, <2>0, <3>5, <3>6, <4>2
    <3> HIDE DEF z, uc, ue
    <3>8. s(j + 1) = s(i) + t * b[i] + u * z
      <4>1. u * z \in Int
        BY <1>1, <3>7
      <4> HIDE DEF tb
      <4>2. s(j + 1) = s(i) + tb + u * z
        BY <3>7, <4>1
      <4> QED BY <4>2 DEF tb
    <3> QED BY <2>0, <3>7, <3>8
  <2> QED BY <1>4, <2>1, <2>2, <2>3
<1>5. \A j \in 0..k : j \in P
  <2> HIDE DEF P
  <2> QED BY <1>3, <1>4, UpTo
<1>6. PICK c \in Nat : s(k) = s(i) + t * b[i] + u * c
  <2>1. k \in 0..k /\ k > i
    OBVIOUS
  <2> QED BY <1>5, <2>1
<1>7. s(k) \in Nat /\ s(i) \in Nat /\ s(i) < t
  <2>1. k \in 0..k /\ i \in 0..k
    OBVIOUS
  <2> QED BY <1>0, <2>1 DEF t
<1>8. BitOf(s(k), i) = b[i] % 2
  <2>1. b[i] \in Nat /\ i \in Nat /\ Two(i) = t
    BY <1>1 DEF t
  <2>2. s(k) = s(i) + t * b[i] + (2 * t) * c
    BY <1>1, <1>6
  <2> DEFINE x == s(k)
             low == s(i)
             d == b[i]
  <2>3. x \in Nat /\ low \in Nat /\ low < t /\ d \in Nat /\ x = low + t * d + (2 * t) * c
    BY <1>7, <2>1, <2>2
  <2> HIDE DEF x, low, d
  <2>5. Digit(x, i, t, low, d, c)
    BY <1>1, <2>1, <2>3 DEF Digit
  <2>4. BitOf(x, i) = d % 2
    BY <2>5, DigitBit, Zenon
  <2> QED BY <2>4 DEF x, d
<1>9. b[i] % 2 = b[i]
  BY <1>1
<1> QED BY <1>8, <1>9 DEF s

LEMMA MixedBit ==
  ASSUME NEW x \in Limb, NEW y \in Limb, NEW f \in BitMaps, NEW e \in 0..(2 * H - 1)
  PROVE  BitOf(Mixed(x, y, f), e) = f[BitOf(x, e)][BitOf(y, e)]
<1>1. x \in Nat /\ y \in Nat
  BY LimbIs
<1>2. Mixed(x, y, f) = SumTo(Powers(Bitwise(x, y, f)), 2 * H)
  BY <1>1, MixedSum
<1>3. 2 * H \in Nat
  BY BaseIs
<1>4. Binary01(Bitwise(x, y, f), 2 * H)
  BY <1>1, <1>3, BitwiseBits
<1>5. BitOf(Mixed(x, y, f), e) = Bitwise(x, y, f)[e]
  BY <1>2, <1>3, <1>4, SumBit
<1>6. e \in Nat
  BY <1>3
<1> QED BY <1>5, <1>6 DEF Bitwise

\* A number is what lies below a limb, the limb, and what lies above.
LEMMA ValueAround ==
  ASSUME NEW m, NEW p \in Int, NEW k \in Nat, Window(m, p, k), NEW j \in 0..(k - 1)
  PROVE  \E c \in Nat : /\ Value(m, p, k) = Value(m, p, j) + Two(Bits(j)) * (m[p + j] + Base * c)
                        /\ Value(m, p, j) \in Nat /\ Value(m, p, j) < Two(Bits(j))
<1> DEFINE i == j + 1
           n == k - i
           c == Value(m, p + i, n)
           w == Two(Bits(j))
           v == Value(m, p, j)
           x == m[p + j]
           b == Base
<1>1. j \in Nat /\ i \in Nat /\ n \in Nat /\ i + n = k /\ i \in 0..k /\ j \in 0..k
  OBVIOUS
<1>2. Window(m, p, i) /\ Window(m, p, j) /\ Window(m, p, i + n)
  <2> HIDE DEF i, n
  <2> QED BY <1>1, WindowBelow
<1>3. Window(m, p + i, n) /\ Value(m, p, k) = Value(m, p, i) + Two(Bits(i)) * c
  <2> HIDE DEF i, n
  <2>1. Window(m, p + i, n)
        /\ Value(m, p, i + n) = Value(m, p, i) + Two(Bits(i)) * Value(m, p + i, n)
    BY <1>1, <1>2, ValueSplit
  <2> QED BY <1>1, <2>1
<1>4. Value(m, p, i) = v + w * x /\ x \in Limb
  BY <1>1, <1>2, ValueNext
<1>5. Two(Bits(i)) = b * w /\ w \in Nat /\ b \in Nat
  BY <1>1, BitsIs, BaseIs
<1>6. c \in Nat
  <2> HIDE DEF i, n
  <2> QED BY <1>1, <1>3, ValueRange
<1>7. v \in Nat /\ v < w
  BY <1>1, <1>2, ValueRange
<1>8. x \in Int
  BY <1>4, LimbIs
<1> HIDE DEF c, w, v, x, b
<1>9. v + w * x + (b * w) * c = v + w * (x + b * c)
  <2>1. (b * w) * c = w * (b * c) /\ b * c \in Int
    <3>1. b * w = w * b
      BY <1>5
    <3>2. (w * b) * c = w * (b * c) /\ b * c \in Int
      BY <1>5, <1>6, TimesAssoc
    <3> QED BY <3>1, <3>2
  <2>2. w * (x + b * c) = w * x + w * (b * c)
    BY <1>5, <1>8, <2>1, TimesSum
  <2>3. w * x \in Int /\ w * (b * c) \in Int
    BY <1>5, <1>8, <2>1
  <2> QED BY <1>7, <2>1, <2>2, <2>3
<1> QED BY <1>3, <1>4, <1>5, <1>6, <1>7, <1>9 DEF w, v, x, b

LEMMA ValueBit ==
  ASSUME NEW m, NEW p \in Int, NEW k \in Nat, Window(m, p, k), NEW j \in 0..(k - 1), NEW e \in 0..(2 * H - 1)
  PROVE  BitOf(Value(m, p, k), Bits(j) + e) = BitOf(m[p + j], e)
<1>1. PICK c \in Nat : /\ Value(m, p, k) = Value(m, p, j) + Two(Bits(j)) * (m[p + j] + Base * c)
                       /\ Value(m, p, j) \in Nat /\ Value(m, p, j) < Two(Bits(j))
  BY ValueAround
<1> DEFINE w == Two(Bits(j))
           v == Value(m, p, j)
           x == m[p + j]
           b == Base
           t == Two(e)
           n == 2 * H - 1 - e
           u == Two(n)
           d == x \div t
           l == x % t
           i == Bits(j) + e
<1>2. x \in Nat
  <2>1. x \in Limb
    BY DEF Window
  <2> QED BY <2>1, LimbIs
<1>3. j \in Nat /\ e \in Nat /\ n \in Nat /\ e + (n + 1) = 2 * H /\ n + 1 \in Nat
  BY BaseIs
<1>4. w \in Nat /\ w >= 1 /\ Bits(j) \in Nat
  BY <1>3, BitsIs
<1>5. t \in Nat /\ t >= 1 /\ u \in Nat
  <2> HIDE DEF n
  <2> QED BY <1>3, TwoIs
<1>6. b = t * (2 * u)
  <2> HIDE DEF n
  <2>1. b = Two(e + (n + 1))
    BY <1>3, BaseIs
  <2>2. Two(e + (n + 1)) = Two(e) * Two(n + 1)
    BY <1>3, TwoSum
  <2>3. Two(n + 1) = 2 * Two(n)
    BY <1>3, TwoIs
  <2> QED BY <2>1, <2>2, <2>3
<1>7. Two(i) = w * t /\ i \in Nat
  <2> DEFINE a == Bits(j)
  <2>1. a \in Nat /\ e \in Nat
    BY <1>3, <1>4
  <2> HIDE DEF a
  <2>2. Two(a + e) = Two(a) * Two(e) /\ a + e \in Nat
    BY <2>1, TwoSum
  <2> QED BY <2>2 DEF a
<1>8. d \in Nat /\ l \in Nat /\ l < t /\ x = d * t + l
  <2> HIDE DEF x, t
  <2>1. x \div t \in Nat /\ x % t \in 0..(t - 1) /\ x = (x \div t) * t + (x % t)
    BY <1>2, <1>5, DivOf
  <2> QED BY <1>5, <2>1
<1>9. BitOf(x, e) = d % 2
  BY DEF BitOf
<1>10. v \in Nat /\ v < w /\ Value(m, p, k) = v + w * (x + b * c)
  BY <1>1
<1> HIDE DEF w, v, x, b, t, n, u, d, l, i
<1> DEFINE g == w * t
           low == v + w * l
           h == u * c
<1>11. g \in Nat /\ g >= 1 /\ h \in Nat
  <2>1. g \in Nat
    BY <1>4, <1>5
  <2>2. g >= 1
    <3>1. g # 0
      BY <1>4, <1>5
    <3> QED BY <2>1, <3>1
  <2> QED BY <1>5, <2>1, <2>2
<1>12. low \in Nat /\ low < g
  <2>1. l * w + w <= t * w /\ l * w \in Nat
    BY <1>4, <1>5, <1>8, MulMono
  <2>2. l * w = w * l /\ t * w = w * t
    BY <1>4, <1>5, <1>8
  <2> DEFINE z == w * l
  <2>3. z \in Nat /\ z + w <= g
    BY <2>1, <2>2
  <2> HIDE DEF z, g
  <2>4. v + z \in Nat /\ v + z < g
    BY <1>4, <1>10, <1>11, <2>3
  <2> QED BY <2>4 DEF z
<1>13. v + w * (x + b * c) = low + g * d + (2 * g) * h
  <2>1. w * (x + b * c) = w * x + w * (b * c)
    <3>1. b * c \in Int
      BY <1>5, <1>6
    <3> QED BY <1>2, <1>4, <3>1, TimesSum
  <2>2. w * x = g * d + w * l
    <3>1. w * x = w * (d * t) + w * l
      <4>1. d * t \in Int
        BY <1>5, <1>8
      <4> QED BY <1>4, <1>8, <4>1, TimesSum
    <3>2. w * (d * t) = (w * t) * d
      <4>1. d * t = t * d
        BY <1>5, <1>8
      <4>2. w * (t * d) = (w * t) * d
        BY <1>4, <1>5, <1>8, TimesAssoc
      <4> QED BY <4>1, <4>2
    <3> QED BY <3>1, <3>2
  <2>3. w * (b * c) = (2 * g) * h
    <3>1. b * c = t * (2 * h)
      <4>1. (t * (2 * u)) * c = t * ((2 * u) * c)
        BY <1>5, TimesAssoc
      <4>2. (2 * u) * c = 2 * (u * c)
        BY <1>5
      <4> QED BY <1>6, <4>1, <4>2
    <3>2. w * (t * (2 * h)) = (w * t) * (2 * h)
      <4>1. 2 * h \in Int
        BY <1>11
      <4> HIDE DEF h
      <4> QED BY <1>4, <1>5, <4>1, TimesAssoc
    <3>3. g * (2 * h) = (2 * g) * h
      <4> HIDE DEF g, h
      <4> QED BY <1>11
    <3> QED BY <3>1, <3>2, <3>3
  <2> DEFINE gd == g * d
             gh == (2 * g) * h
             wl == w * l
  <2>4. gd \in Int /\ gh \in Int /\ wl \in Int
    <3> HIDE DEF g, h
    <3> QED BY <1>4, <1>8, <1>11
  <2>5. w * (x + b * c) = gd + wl + gh
    BY <2>1, <2>2, <2>3
  <2> HIDE DEF gd, gh
  <2>6. v + (gd + wl + gh) = (v + wl) + gd + gh
    <3> HIDE DEF wl
    <3> QED BY <1>10, <2>4
  <2> QED BY <2>5, <2>6 DEF gd, gh
<1> HIDE DEF g, low, h
<1>14. Value(m, p, k) = low + g * d + (2 * g) * h
  BY <1>10, <1>13
<1>15. Value(m, p, k) \in Nat
  BY ValueRange
<1>16. BitOf(Value(m, p, k), i) = d % 2
  <2> DEFINE y == Value(m, p, k)
  <2>1. Two(i) = g /\ i \in Nat
    BY <1>7 DEF g
  <2>2. y \in Nat /\ y = low + g * d + (2 * g) * h
    BY <1>14, <1>15
  <2> HIDE DEF y
  <2>4. Digit(y, i, g, low, d, h)
    BY <1>8, <1>11, <1>12, <2>1, <2>2 DEF Digit
  <2>3. BitOf(y, i) = d % 2
    BY <2>4, DigitBit, Zenon
  <2> QED BY <2>3 DEF y
<1> QED BY <1>9, <1>16 DEF x, i

\* A bit of a number is a bit of one of its limbs.
LEMMA BitPlace ==
  ASSUME NEW k \in Nat, NEW x \in 0..(Bits(k) - 1)
  PROVE  \E j \in 0..(k - 1), e \in 0..(2 * H - 1) : x = Bits(j) + e
<1> DEFINE d == 2 * H
           j == x \div d
           e == x % d
<1>1. d \in Nat /\ d > 0
  BY BaseIs
<1>2. x \in Nat /\ x < d * k
  <2>1. Bits(k) = d * k /\ Bits(k) \in Nat
    BY BitsIs DEF Bits
  <2> HIDE DEF d
  <2> QED BY <2>1
<1>3. j \in Nat /\ e \in 0..(d - 1) /\ x = j * d + e
  <2> HIDE DEF d
  <2>1. x \div d \in Nat /\ x % d \in 0..(d - 1) /\ x = (x \div d) * d + (x % d)
    BY <1>1, <1>2, DivOf
  <2> QED BY <2>1
<1> HIDE DEF j, e
<1>4. j < k
  <2> HIDE DEF d
  <2> SUFFICES ASSUME k <= j PROVE FALSE
    BY <1>3
  <2>1. k * d <= j * d /\ k * d = d * k
    <3>1. CASE k = j
      <4>1. k * d \in Nat /\ k * d = d * k
        BY <1>1
      <4> QED BY <3>1, <4>1
    <3>2. CASE k < j
      <4>1. k * d + d <= j * d /\ k * d \in Nat /\ j * d \in Nat
        BY <1>1, <1>3, <3>2, MulMono
      <4>2. k * d = d * k
        BY <1>1
      <4> QED BY <1>1, <4>1, <4>2
    <3> QED BY <1>3, <3>1, <3>2
  <2>2. j * d \in Nat
    BY <1>1, <1>3
  <2> DEFINE jd == j * d
             kd == d * k
  <2>3. kd <= jd /\ x < kd /\ x = jd + e /\ jd \in Nat /\ kd \in Int
    BY <1>1, <1>2, <1>3, <2>1, <2>2
  <2> HIDE DEF jd, kd
  <2> QED BY <1>1, <1>3, <2>3
<1>5. Bits(j) = j * d
  <2>1. Bits(j) = d * j
    BY DEF Bits
  <2> HIDE DEF d
  <2> QED BY <1>1, <1>3, <2>1
<1>6. j \in 0..(k - 1) /\ e \in 0..(2 * H - 1) /\ x = Bits(j) + e
  BY <1>3, <1>4, <1>5
<1> QED BY <1>6

LEMMA BitwiseValue ==
  ASSUME NEW m, NEW p \in Int, NEW q \in Int, NEW k \in Nat, Window(m, p, k), Window(m, q, k),
         NEW f \in BitMaps, NEW r, NEW s \in Int,
         \A i \in 0..(k - 1) : r[s + i] = Mixed(m[p + i], m[q + i], f)
  PROVE  \A x \in 0..(Bits(k) - 1) :
           BitOf(Value(r, s, k), x) = f[BitOf(Value(m, p, k), x)][BitOf(Value(m, q, k), x)]
<1> SUFFICES ASSUME NEW x \in 0..(Bits(k) - 1)
             PROVE  BitOf(Value(r, s, k), x) = f[BitOf(Value(m, p, k), x)][BitOf(Value(m, q, k), x)]
  OBVIOUS
<1>1. PICK j \in 0..(k - 1), e \in 0..(2 * H - 1) : x = Bits(j) + e
  BY BitPlace
<1>2. Window(r, s, k)
  <2> SUFFICES ASSUME NEW i \in 0..(k - 1) PROVE r[s + i] \in Limb
    BY DEF Window
  <2>1. m[p + i] \in Limb /\ m[q + i] \in Limb
    BY DEF Window
  <2>2. Mixed(m[p + i], m[q + i], f) \in Limb
    BY <2>1, MixedLimb
  <2> QED BY <2>2
<1>3. BitOf(Value(r, s, k), x) = BitOf(r[s + j], e)
  BY <1>1, <1>2, ValueBit
<1>4. BitOf(Value(m, p, k), x) = BitOf(m[p + j], e)
  BY <1>1, ValueBit
<1>5. BitOf(Value(m, q, k), x) = BitOf(m[q + j], e)
  BY <1>1, ValueBit
<1>6. m[p + j] \in Limb /\ m[q + j] \in Limb
  BY DEF Window
<1>7. BitOf(Mixed(m[p + j], m[q + j], f), e) = f[BitOf(m[p + j], e)][BitOf(m[q + j], e)]
  BY <1>6, MixedBit
<1>8. r[s + j] = Mixed(m[p + j], m[q + j], f)
  OBVIOUS
<1> QED BY <1>3, <1>4, <1>5, <1>7, <1>8, Zenon

\* What a shift by whole limbs and some bits moves by within a limb, and the rest
ShiftBy(by, t, u) ==
    /\ t = Two(by % (2 * H)) /\ u = Two(2 * H - (by % (2 * H)))
    /\ t \in Nat /\ t >= 1 /\ u \in Nat /\ u >= 1 /\ Base = t * u /\ Base = u * t

LEMMA ShiftParts ==
  ASSUME NEW by \in Nat
  PROVE  ShiftBy(by, Two(by % (2 * H)), Two(2 * H - (by % (2 * H))))
<1> DEFINE e == by % (2 * H)
           n == 2 * H - e
           t == Two(e)
           u == Two(n)
<1>1. e \in Nat /\ e < 2 * H
  BY ShiftBits
<1>2. n \in Nat /\ e + n = 2 * H
  <2> HIDE DEF e
  <2> QED BY <1>1, BaseIs
<1> HIDE DEF e, n
<1>3. t \in Nat /\ t >= 1 /\ u \in Nat /\ u >= 1
  BY <1>1, <1>2, TwoIs
<1>4. Base = t * u
  <2>1. Two(e + n) = Two(e) * Two(n)
    BY <1>1, <1>2, TwoSum
  <2> QED BY <1>2, <2>1, BaseIs
<1>5. t * u = u * t
  BY <1>3
<1> QED BY <1>3, <1>4, <1>5 DEF ShiftBy, e, n

\* (d * t + l) * u, cut to a limb of t * u
LEMMA CutTimes ==
  ASSUME NEW x \in Nat, NEW t \in Nat, t >= 1, NEW u \in Nat, u >= 1, Base = t * u
  PROVE  Cut(x * u) = u * (x % t)
<1> DEFINE d == x \div t
           l == x % t
<1>1. d \in Nat /\ l \in Nat /\ l < t /\ x = d * t + l
  <2>1. x \div t \in Nat /\ x % t \in 0..(t - 1) /\ x = (x \div t) * t + (x % t)
    BY DivOf
  <2> QED BY <2>1
<1> HIDE DEF d, l
<1>2. x * u = (t * u) * d + u * l
  <2>1. (d * t + l) * u = (t * u) * d + u * l
    BY <1>1
  <2> QED BY <1>1, <2>1
<1>3. u * l \in Nat /\ u * l < t * u
  <2>1. l * u + u <= t * u /\ l * u \in Nat
    BY <1>1, MulMono
  <2>2. l * u = u * l
    BY <1>1
  <2> DEFINE v == u * l
             w == t * u
  <2>3. v + u <= w /\ v \in Nat /\ w \in Nat
    BY <2>1, <2>2
  <2> HIDE DEF v, w
  <2>4. v \in Nat /\ v < w
    BY <2>3
  <2> QED BY <2>4 DEF v, w
<1>4. Base \in Nat /\ Base >= 1 /\ u * l < Base
  BY <1>3, BaseIs
<1>5. x * u \in Int
  OBVIOUS
<1> DEFINE w == Base
           r == u * l
           z == x * u
<1>6. w \in Nat /\ w >= 1 /\ r \in Nat /\ r < w /\ z \in Int /\ z = w * d + r /\ d \in Int
  BY <1>1, <1>2, <1>3, <1>4, <1>5
<1>7. z % w = r
  <2> HIDE DEF w, r, z
  <2> QED BY <1>6, ModIs
<1> QED BY <1>7 DEF Cut, l

LEMMA UpPart ==
  ASSUME NEW x \in Limb, NEW by \in Nat, NEW t, NEW u, ShiftBy(by, t, u)
  PROVE  Shl(x, by) = t * (x % u) /\ CrossingUp(x, by) = x \div u
<1> DEFINE e == by % (2 * H)
           n == 2 * H - e
<1>0. /\ t = Two(e) /\ u = Two(n)
      /\ t \in Nat /\ t >= 1 /\ u \in Nat /\ u >= 1 /\ Base = t * u /\ Base = u * t
  BY DEF ShiftBy
<1>1. x \in Nat /\ x < Base
  BY LimbIs
<1>2. Shl(x, by) = t * (x % u)
  <2>1. Cut(x * t) = t * (x % u)
    BY <1>0, <1>1, CutTimes
  <2> QED BY <1>0, <2>1 DEF Shl
<1>3. e \in Nat /\ e < 2 * H
  BY ShiftBits
<1>4. CASE e = 0
  <2>1. CrossingUp(x, by) = 0
    BY <1>4 DEF CrossingUp
  <2>2. t = 1
    BY <1>0, <1>4, TwoIs
  <2>3. u = Base
    BY <1>0, <2>2
  <2>4. x \div u = 0
    <3> HIDE DEF e, n
    <3>1. x \in Nat /\ u \in Nat /\ x < u
      BY <1>0, <1>1, <2>3
    <3> QED BY <3>1
  <2> QED BY <1>2, <2>1, <2>4
<1>5. CASE e # 0
  <2>1. CrossingUp(x, by) = Shr(x, n)
    BY <1>5 DEF CrossingUp
  <2>2. n % (2 * H) = n
    <3> DEFINE d == 2 * H
    <3>1. d \in Nat /\ n = d - e
      BY BaseIs
    <3> HIDE DEF d, n, e
    <3>2. n % d = n
      BY <1>3, <1>5, <3>1 DEF d
    <3> QED BY <3>2 DEF d
  <2>3. Shr(x, n) = x \div u
    BY <1>0, <2>2 DEF Shr
  <2> QED BY <1>2, <2>1, <2>3
<1> QED BY <1>4, <1>5

LEMMA DownPart ==
  ASSUME NEW x \in Limb, NEW by \in Nat, NEW t, NEW u, ShiftBy(by, t, u)
  PROVE  Shr(x, by) = x \div t /\ CrossingDown(x, by) = u * (x % t)
<1> DEFINE e == by % (2 * H)
           n == 2 * H - e
<1>0. /\ t = Two(e) /\ u = Two(n)
      /\ t \in Nat /\ t >= 1 /\ u \in Nat /\ u >= 1 /\ Base = t * u /\ Base = u * t
  BY DEF ShiftBy
<1>1. x \in Nat /\ x < Base
  BY LimbIs
<1>2. Shr(x, by) = x \div t
  BY <1>0 DEF Shr
<1>3. e \in Nat /\ e < 2 * H
  BY ShiftBits
<1>4. CASE e = 0
  <2>1. CrossingDown(x, by) = 0
    BY <1>4 DEF CrossingDown
  <2>2. t = 1
    BY <1>0, <1>4, TwoIs
  <2>3. x % t = 0
    BY <1>1, <2>2
  <2>4. u * (x % t) = 0
    BY <1>0, <2>3
  <2> QED BY <1>2, <2>1, <2>4
<1>5. CASE e # 0
  <2>1. CrossingDown(x, by) = Shl(x, n)
    BY <1>5 DEF CrossingDown
  <2>2. n % (2 * H) = n
    <3> DEFINE d == 2 * H
    <3>1. d \in Nat /\ n = d - e
      BY BaseIs
    <3> HIDE DEF d, n, e
    <3>2. n % d = n
      BY <1>3, <1>5, <3>1 DEF d
    <3> QED BY <3>2 DEF d
  <2>3. Shl(x, n) = Cut(x * u)
    BY <1>0, <2>2 DEF Shl
  <2>4. Cut(x * u) = u * (x % t)
    BY <1>0, <1>1, CutTimes
  <2> QED BY <1>2, <2>1, <2>3, <2>4
<1> QED BY <1>4, <1>5

\* A multiple of 2 to the e has no bit below e, a number below it none from e on.
LEMMA BitOfMultiple ==
  ASSUME NEW e \in Nat, NEW i \in Nat, i < e, NEW c \in Nat
  PROVE  BitOf(Two(e) * c, i) = 0
<1> DEFINE n == e - (i + 1)
           t == Two(i)
           v == Two(n)
           d == 2 * (v * c)
           x == Two(e) * c
<1>1. n \in Nat /\ e = (i + 1) + n /\ i + 1 \in Nat
  OBVIOUS
<1> HIDE DEF n
<1>2. Two(e) = (2 * t) * v
  BY <1>1, TwoSum, TwoIs
<1>3. t \in Nat /\ t >= 1 /\ v \in Nat
  BY <1>1, TwoIs
<1>4. x = t * d + 0 /\ v * c \in Nat /\ d \in Nat
  <2> HIDE DEF t, v
  <2>1. ((2 * t) * v) * c = t * (2 * (v * c))
    BY <1>3
  <2>2. v * c \in Nat
    BY <1>3
  <2>3. t * (2 * (v * c)) \in Int
    BY <1>3, <2>2
  <2> QED BY <1>2, <2>1, <2>2, <2>3
<1>5. x \in Int /\ d \in Int
  BY <1>3, <1>4, TwoIs
<1>6. x \div t = d
  <2> HIDE DEF x, t, d
  <2> QED BY <1>3, <1>4, <1>5, ModIs
<1>7. d % 2 = 0
  <2> DEFINE y == v * c
  <2> HIDE DEF y
  <2>1. y \in Nat
    BY <1>4 DEF y
  <2>2. (2 * y) % 2 = 0
    BY <2>1
  <2> QED BY <2>2 DEF y
<1> QED BY <1>6, <1>7 DEF BitOf, t

LEMMA BitOfSmaller ==
  ASSUME NEW e \in Nat, NEW i \in Nat, e <= i, NEW y \in Nat, y < Two(e)
  PROVE  BitOf(y, i) = 0
<1> DEFINE n == i - e
           t == Two(i)
<1>1. n \in Nat /\ i = e + n
  OBVIOUS
<1> HIDE DEF n
<1>2. t = Two(e) * Two(n) /\ Two(e) \in Nat /\ Two(n) \in Nat /\ Two(n) >= 1
  BY <1>1, TwoSum, TwoIs
<1>3. t \in Nat /\ Two(e) <= t
  <2> DEFINE a == Two(e)
             b == Two(n)
  <2>0. a \in Nat /\ b \in Nat /\ b >= 1 /\ t = a * b
    BY <1>2
  <2> HIDE DEF a, b, t
  <2>1. PICK c \in Nat : b = c + 1
    <3>1. b - 1 \in Nat /\ b = (b - 1) + 1
      BY <2>0
    <3> QED BY <3>1
  <2>2. a * (c + 1) = a * c + a /\ a * c \in Nat
    BY <2>0
  <2>3. t = a * c + a
    BY <2>0, <2>1, <2>2
  <2> DEFINE ac == a * c
  <2>4. ac \in Nat /\ t = ac + a
    BY <2>2, <2>3
  <2> HIDE DEF ac
  <2> QED BY <2>0, <2>4 DEF a
<1>4. y \div t = 0
  <2>1. y < t
    BY <1>2, <1>3
  <2> HIDE DEF t
  <2> QED BY <1>3, <2>1
<1> QED BY <1>4 DEF BitOf, t

LEMMA SumNothing ==
  ASSUME NEW k \in Nat, NEW a, \A i \in 0..(k - 1) : a[i] = 0
  PROVE  SumTo(a, k) = 0 /\ Terms(a, k)
<1>1. Terms(a, k)
  BY DEF Terms
<1>2. \A i \in 0..(k - 1) : a[i] = 0 * a[i]
  OBVIOUS
<1>3. SumTo(a, k) = 0 * SumTo(a, k)
  BY <1>1, <1>2, SumTimes
<1>4. SumTo(a, k) \in Int
  BY <1>1, SumIsInt
<1>5. 0 * SumTo(a, k) = 0
  BY <1>4
<1> QED BY <1>1, <1>3, <1>5

\* Bits that do not meet are added up by "or".
LEMMA OrApart ==
  ASSUME NEW x \in Limb, NEW y \in Limb, NEW e \in Nat, NEW c \in Nat, x = Two(e) * c, y < Two(e)
  PROVE  Mixed(x, y, OrBit) = x + y /\ Mixed(y, x, OrBit) = x + y
<1>1. x \in Nat /\ y \in Nat
  BY LimbIs
<1>2. \A i \in Nat : BitOf(x, i) \in 0..1 /\ BitOf(y, i) \in 0..1 /\ (BitOf(x, i) = 0 \/ BitOf(y, i) = 0)
  <2> SUFFICES ASSUME NEW i \in Nat
               PROVE  BitOf(x, i) \in 0..1 /\ BitOf(y, i) \in 0..1 /\ (BitOf(x, i) = 0 \/ BitOf(y, i) = 0)
    OBVIOUS
  <2>1. BitOf(x, i) \in 0..1 /\ BitOf(y, i) \in 0..1
    BY <1>1, BitIs
  <2>2. CASE i < e
    BY <2>1, <2>2, BitOfMultiple
  <2>3. CASE e <= i
    BY <1>1, <2>1, <2>3, BitOfSmaller
  <2> QED BY <2>2, <2>3
<1> DEFINE a == Powers(Bitwise(x, y, AndBit))
           b == Powers(Bitwise(y, x, AndBit))
<1>3. 2 * H \in Nat
  BY BaseIs
<1>4. \A i \in 0..(2 * H - 1) : a[i] = 0 /\ b[i] = 0
  <2> SUFFICES ASSUME NEW i \in 0..(2 * H - 1) PROVE a[i] = 0 /\ b[i] = 0
    OBVIOUS
  <2>0. i \in Nat
    BY <1>3
  <2>1. Bitwise(x, y, AndBit)[i] = AndBit[BitOf(x, i)][BitOf(y, i)]
        /\ Bitwise(y, x, AndBit)[i] = AndBit[BitOf(y, i)][BitOf(x, i)]
    BY <2>0 DEF Bitwise
  <2> DEFINE g == BitOf(x, i)
             h == BitOf(y, i)
  <2>2. g \in 0..1 /\ h \in 0..1 /\ (g = 0 \/ h = 0)
    BY <1>2, <2>0
  <2> HIDE DEF g, h
  <2>3. AndBit[g][h] = g * h /\ AndBit[h][g] = h * g
    BY <2>2, BitTables
  <2>4. g * h = 0 /\ h * g = 0
    BY <2>2
  <2>5. Bitwise(x, y, AndBit)[i] = 0 /\ Bitwise(y, x, AndBit)[i] = 0
    BY <2>1, <2>3, <2>4 DEF g, h
  <2>6. a[i] = Two(i) * 0 /\ b[i] = Two(i) * 0
    BY <2>0, <2>5 DEF Powers
  <2>7. Two(i) \in Nat
    BY <2>0, TwoIs
  <2>8. Two(i) * 0 = 0
    BY <2>7
  <2> QED BY <2>6, <2>8
<1>5. SumTo(a, 2 * H) = 0 /\ SumTo(b, 2 * H) = 0
  <2> HIDE DEF a, b
  <2> QED BY <1>3, <1>4, SumNothing
<1>6. AndBit \in BitMaps
  BY DEF BitMaps
<1>7. Mixed(x, y, AndBit) = 0 /\ Mixed(y, x, AndBit) = 0
  BY <1>1, <1>5, <1>6, MixedSum
<1>8. Mixed(x, y, OrBit) + Mixed(x, y, AndBit) = x + y
      /\ Mixed(y, x, OrBit) + Mixed(y, x, AndBit) = y + x
      /\ Mixed(x, y, OrBit) \in Limb /\ Mixed(y, x, OrBit) \in Limb
  BY OrAndXor
<1>9. Mixed(x, y, OrBit) \in Int /\ Mixed(y, x, OrBit) \in Int
  BY <1>8, LimbIs
<1> QED BY <1>1, <1>7, <1>8, <1>9

\* One limb of a shift up and of a shift down
LEMMA UpLimb ==
  ASSUME NEW x \in Limb, NEW y \in Limb, NEW by \in Nat, NEW t, NEW u, ShiftBy(by, t, u)
  PROVE  /\ Mixed(Shl(x, by), CrossingUp(y, by), OrBit) = t * (x % u) + y \div u
         /\ Shl(x, by) = t * (x % u)
<1> DEFINE e == by % (2 * H)
           c == x % u
           a == Shl(x, by)
           z == CrossingUp(y, by)
<1>0. t = Two(e) /\ t \in Nat /\ t >= 1 /\ u \in Nat /\ u >= 1 /\ Base = u * t
  BY DEF ShiftBy
<1>1. a = t * c
  BY UpPart
<1>2. z = y \div u
  BY UpPart
<1>3. e \in Nat
  BY ShiftBits
<1>4. a \in Limb /\ z \in Limb
  BY ShlLimb, CrossingLimb
<1>5. c \in Nat
  <2>1. x \in Nat
    BY LimbIs
  <2>2. x % u \in 0..(u - 1)
    BY <1>0, <2>1, DivOf
  <2> QED BY <1>0, <2>2
<1>6. z < t
  <2>1. y \in Nat /\ y < u * t
    BY <1>0, LimbIs
  <2>2. y \div u \in Nat /\ y % u \in 0..(u - 1) /\ y = (y \div u) * u + (y % u)
    BY <1>0, <2>1, DivOf
  <2> DEFINE d == y \div u
             l == y % u
  <2>3. d \in Nat /\ l \in Nat /\ y = d * u + l
    BY <1>0, <2>2
  <2> HIDE DEF d, l, z
  <2>4. d < t
    <3> SUFFICES ASSUME t <= d PROVE FALSE
      BY <1>0, <2>3
    <3>1. PICK f \in Nat : d = t + f
      <4>1. d - t \in Nat /\ d = t + (d - t)
        BY <1>0, <2>3
      <4> QED BY <4>1
    <3>2. (t + f) * u = u * t + f * u /\ f * u \in Nat /\ u * t \in Nat
      BY <1>0, <2>3
    <3> DEFINE g == f * u
               w == u * t
    <3>3. g \in Nat /\ w \in Nat /\ y = w + g + l /\ y < w
      BY <2>1, <2>3, <3>1, <3>2
    <3> HIDE DEF g, w
    <3> QED BY <2>3, <3>3
  <2> QED BY <1>2, <2>4 DEF d
<1> HIDE DEF e, c, a, z
<1>7. Mixed(a, z, OrBit) = a + z
  <2>1. a = Two(e) * c /\ z < Two(e)
    BY <1>0, <1>1, <1>6
  <2> QED BY <1>3, <1>4, <1>5, <2>1, OrApart
<1> QED BY <1>1, <1>2, <1>7 DEF a, z, c

LEMMA DownLimb ==
  ASSUME NEW x \in Limb, NEW y \in Limb, NEW by \in Nat, NEW t, NEW u, ShiftBy(by, t, u)
  PROVE  /\ Mixed(Shr(x, by), CrossingDown(y, by), OrBit) = x \div t + u * (y % t)
         /\ Shr(x, by) = x \div t
<1> DEFINE n == 2 * H - (by % (2 * H))
           c == y % t
           a == CrossingDown(y, by)
           z == Shr(x, by)
<1>0. u = Two(n) /\ t \in Nat /\ t >= 1 /\ u \in Nat /\ u >= 1 /\ Base = t * u
  BY DEF ShiftBy
<1>1. a = u * c
  BY DownPart
<1>2. z = x \div t
  BY DownPart
<1>3. n \in Nat
  <2> DEFINE e == by % (2 * H)
  <2>1. e \in Nat /\ e < 2 * H
    BY ShiftBits
  <2> HIDE DEF e
  <2>2. 2 * H - e \in Nat
    BY <2>1, BaseIs
  <2> QED BY <2>2 DEF e
<1>4. a \in Limb /\ z \in Limb
  BY ShrLimb, CrossingLimb
<1>5. c \in Nat
  <2>1. y \in Nat
    BY LimbIs
  <2>2. y % t \in 0..(t - 1)
    BY <1>0, <2>1, DivOf
  <2> QED BY <1>0, <2>2
<1>6. z < u
  <2>1. x \in Nat /\ x < t * u
    BY <1>0, LimbIs
  <2>2. x \div t \in Nat /\ x % t \in 0..(t - 1) /\ x = (x \div t) * t + (x % t)
    BY <1>0, <2>1, DivOf
  <2> DEFINE d == x \div t
             l == x % t
  <2>3. d \in Nat /\ l \in Nat /\ x = d * t + l
    BY <1>0, <2>2
  <2> HIDE DEF d, l, z
  <2>4. d < u
    <3> SUFFICES ASSUME u <= d PROVE FALSE
      BY <1>0, <2>3
    <3>1. PICK f \in Nat : d = u + f
      <4>1. d - u \in Nat /\ d = u + (d - u)
        BY <1>0, <2>3
      <4> QED BY <4>1
    <3>2. (u + f) * t = t * u + f * t /\ f * t \in Nat /\ t * u \in Nat
      BY <1>0, <2>3
    <3> DEFINE g == f * t
               w == t * u
    <3>3. g \in Nat /\ w \in Nat /\ x = w + g + l /\ x < w
      BY <2>1, <2>3, <3>1, <3>2
    <3> HIDE DEF g, w
    <3> QED BY <2>3, <3>3
  <2> QED BY <1>2, <2>4 DEF d
<1> HIDE DEF n, c, a, z
<1>7. Mixed(z, a, OrBit) = a + z
  <2>1. a = Two(n) * c /\ z < Two(n)
    BY <1>0, <1>1, <1>6
  <2> QED BY <1>3, <1>4, <1>5, <2>1, OrApart
<1>8. a \in Int /\ z \in Int
  BY <1>4, LimbIs
<1>9. a + z = z + a
  BY <1>8
<1>10. Mixed(z, a, OrBit) = z + a
  BY <1>7, <1>9
<1> QED BY <1>1, <1>2, <1>10 DEF a, z, c

LEMMA UpStep ==
  ASSUME NEW v \in Int, NEW s \in Int, NEW w \in Int, NEW t \in Int, NEW u \in Int, NEW c \in Int,
         NEW l \in Int, NEW o \in Int, NEW y \in Int, v + w * o = t * s + y
  PROVE  (v + w * (t * l + o)) + ((t * u) * w) * c = t * (s + w * (u * c + l)) + y
<1>1. w * (t * l + o) = t * (w * l) + w * o
  OBVIOUS
<1>2. t * (s + w * (u * c + l)) = t * s + ((t * u) * w) * c + t * (w * l)
  OBVIOUS
<1> DEFINE a == w * o
           b == t * s
           g == ((t * u) * w) * c
           h == t * (w * l)
<1>3. a \in Int /\ b \in Int /\ g \in Int /\ h \in Int /\ v + a = b + y
  OBVIOUS
<1>4. (v + (h + a)) + g = (b + g + h) + y
  <2> HIDE DEF a, b, g, h
  <2> QED BY <1>3
<1> QED BY <1>1, <1>2, <1>4

\* What a shift up makes of each limb, with in coming in at the bottom, and what
\* is left over at the top
Ups(r, p, m, q, k, t, u, in) ==
    \A i \in 0..(k - 1) :
      r[p + i] = t * (m[q + i] % u) + (IF i = 0 THEN in ELSE m[q + i - 1] \div u)
UpOut(m, q, k, u, in) == IF k = 0 THEN in ELSE m[q + k - 1] \div u

LEMMA UpRun ==
  ASSUME NEW m, NEW q \in Int, NEW r, NEW p \in Int, NEW k \in Nat, Window(m, q, k), Window(r, p, k),
         NEW t \in Nat, NEW u \in Nat, t >= 1, u >= 1, Base = t * u, NEW in \in Nat,
         Ups(r, p, m, q, k, t, u, in)
  PROVE  /\ Value(r, p, k) + Two(Bits(k)) * UpOut(m, q, k, u, in) = t * Value(m, q, k) + in
         /\ UpOut(m, q, k, u, in) \in Nat
<1> DEFINE Good(j) == /\ Value(r, p, j) + Two(Bits(j)) * UpOut(m, q, j, u, in) = t * Value(m, q, j) + in
                      /\ UpOut(m, q, j, u, in) \in Nat
           P == {j \in 0..k : Good(j)}
<1>1. 0 \in P
  <2>1. Value(r, p, 0) = 0 /\ Value(m, q, 0) = 0 /\ Two(Bits(0)) = 1
    BY ValueNone, WeightNone
  <2>2. UpOut(m, q, 0, u, in) = in
    BY DEF UpOut
  <2>3. 0 + 1 * in = t * 0 + in
    OBVIOUS
  <2> QED BY <2>1, <2>2, <2>3
<1>2. ASSUME NEW j \in Nat, j < k, j \in P PROVE j + 1 \in P
  <2> DEFINE o == UpOut(m, q, j, u, in)
             w == Two(Bits(j))
             x == m[q + j]
             c == x \div u
             l == x % u
             v == Value(r, p, j)
             s == Value(m, q, j)
  <2>1. v + w * o = t * s + in /\ o \in Nat
    BY <1>2
  <2>2. j \in 0..(k - 1) /\ j + 1 \in 0..k /\ j + 1 \in Nat
    BY <1>2
  <2>3. Window(m, q, j + 1) /\ Window(r, p, j + 1)
    BY <2>2, WindowBelow
  <2>4. Value(m, q, j + 1) = s + w * x /\ x \in Limb /\ s \in Int
    BY <2>3, ValueNext
  <2>5. Value(r, p, j + 1) = v + w * r[p + j] /\ v \in Int
    BY <2>3, ValueNext
  <2>6. w \in Nat /\ Two(Bits(j + 1)) = Base * w
    BY BitsIs
  <2>7. c \in Nat /\ l \in Nat /\ x = u * c + l
    <3>1. x \in Nat
      BY <2>4, LimbIs
    <3> HIDE DEF x
    <3>2. x \div u \in Nat /\ x % u \in 0..(u - 1) /\ x = (x \div u) * u + (x % u)
      BY <3>1, DivOf
    <3>3. c \in Nat /\ l \in Nat /\ x = c * u + l
      BY <3>2
    <3> HIDE DEF c, l
    <3>4. c * u = u * c
      BY <3>3
    <3> QED BY <3>3, <3>4
  <2>8. r[p + j] = t * l + o
    <3>1. r[p + j] = t * (m[q + j] % u) + (IF j = 0 THEN in ELSE m[q + j - 1] \div u)
      BY <2>2 DEF Ups
    <3> QED BY <3>1 DEF UpOut
  <2>9. UpOut(m, q, j + 1, u, in) = c
    <3>1. j + 1 # 0 /\ q + (j + 1) - 1 = q + j
      BY <1>2
    <3> QED BY <3>1 DEF UpOut
  <2> HIDE DEF o, w, x, c, l, v, s
  <2>10. (v + w * (t * l + o)) + ((t * u) * w) * c = t * (s + w * (u * c + l)) + in
    <3>1. v \in Int /\ s \in Int /\ w \in Int /\ t \in Int /\ u \in Int /\ c \in Int /\ l \in Int
          /\ o \in Int /\ in \in Int
      BY <2>1, <2>4, <2>5, <2>6, <2>7
    <3> QED BY <2>1, <3>1, UpStep
  <2>11. Value(r, p, j + 1) + Two(Bits(j + 1)) * UpOut(m, q, j + 1, u, in)
           = t * Value(m, q, j + 1) + in
    BY <2>4, <2>5, <2>6, <2>7, <2>8, <2>9, <2>10
  <2> QED BY <2>2, <2>7, <2>9, <2>11
<1>3. \A j \in 0..k : j \in P
  <2> HIDE DEF P
  <2> QED BY <1>1, <1>2, UpTo
<1>4. k \in P
  BY <1>3
<1> QED BY <1>4

LEMMA DownStep ==
  ASSUME NEW v \in Int, NEW s \in Int, NEW w \in Int, NEW t \in Int, NEW u \in Int, NEW c \in Int,
         NEW l \in Int, NEW f \in Int, NEW y \in Int, t * v + y = s + w * l
  PROVE  t * (v + w * (c + u * f)) + y = (s + w * (t * c + l)) + ((t * u) * w) * f
<1>1. t * (v + w * (c + u * f)) = t * v + t * (w * c) + ((t * u) * w) * f
  OBVIOUS
<1>2. w * (t * c + l) = t * (w * c) + w * l
  OBVIOUS
<1> DEFINE a == t * v
           b == w * l
           g == ((t * u) * w) * f
           h == t * (w * c)
<1>3. a \in Int /\ b \in Int /\ g \in Int /\ h \in Int /\ a + y = s + b
  OBVIOUS
<1>4. (a + h + g) + y = (s + (h + b)) + g
  <2> HIDE DEF a, b, g, h
  <2> QED BY <1>3
<1> QED BY <1>1, <1>2, <1>4

Downs(r, p, m, q, k, t, u, top) ==
    \A i \in 0..(k - 1) :
      r[p + i] = m[q + i] \div t + u * ((IF i = k - 1 THEN top ELSE m[q + i + 1]) % t)
DownOut(m, q, k, i, t, top) == (IF i = k THEN top ELSE m[q + i]) % t

LEMMA DownRun ==
  ASSUME NEW m, NEW q \in Int, NEW r, NEW p \in Int, NEW k \in Nat, Window(m, q, k), Window(r, p, k),
         NEW t \in Nat, NEW u \in Nat, t >= 1, u >= 1, Base = t * u, NEW top \in Limb,
         Downs(r, p, m, q, k, t, u, top)
  PROVE  /\ t * Value(r, p, k) + DownOut(m, q, k, 0, t, top) = Value(m, q, k) + Two(Bits(k)) * (top % t)
         /\ DownOut(m, q, k, 0, t, top) \in 0..(t - 1)
<1> DEFINE O(i) == DownOut(m, q, k, i, t, top)
           y == O(0)
           Good(j) == t * Value(r, p, j) + y = Value(m, q, j) + Two(Bits(j)) * O(j)
           P == {j \in 0..k : Good(j)}
<1>0. \A i \in 0..k : O(i) \in 0..(t - 1)
  <2> SUFFICES ASSUME NEW i \in 0..k PROVE O(i) \in 0..(t - 1)
    OBVIOUS
  <2> DEFINE x == IF i = k THEN top ELSE m[q + i]
  <2>1. x \in Limb
    <3>1. i = k \/ i \in 0..(k - 1)
      OBVIOUS
    <3> QED BY <3>1 DEF Window
  <2>2. x \in Nat
    BY <2>1, LimbIs
  <2> HIDE DEF x
  <2>3. x % t \in 0..(t - 1)
    BY <2>2, DivOf
  <2> QED BY <2>3 DEF x, DownOut
<1>00. y \in Int
  <2>1. 0 \in 0..k
    OBVIOUS
  <2>2. y \in 0..(t - 1)
    BY <1>0, <2>1
  <2> HIDE DEF y
  <2> QED BY <2>2
<1>1. 0 \in P
  <2>1. Value(r, p, 0) = 0 /\ Value(m, q, 0) = 0 /\ Two(Bits(0)) = 1
    BY ValueNone, WeightNone
  <2>3. t * 0 + y = 0 + 1 * y
    <3> HIDE DEF y
    <3> QED BY <1>00
  <2> QED BY <2>1, <2>3
<1>2. ASSUME NEW j \in Nat, j < k, j \in P PROVE j + 1 \in P
  <2> DEFINE w == Two(Bits(j))
             x == m[q + j]
             c == x \div t
             l == O(j)
             f == O(j + 1)
             v == Value(r, p, j)
             s == Value(m, q, j)
  <2>1. t * v + y = s + w * l
    BY <1>2
  <2>2. j \in 0..(k - 1) /\ j + 1 \in 0..k /\ j + 1 \in Nat /\ j \in 0..k
    BY <1>2
  <2>3. Window(m, q, j + 1) /\ Window(r, p, j + 1)
    BY <2>2, WindowBelow
  <2>4. Value(m, q, j + 1) = s + w * x /\ x \in Limb /\ s \in Int
    BY <2>3, ValueNext
  <2>5. Value(r, p, j + 1) = v + w * r[p + j] /\ v \in Int
    BY <2>3, ValueNext
  <2>6. w \in Nat /\ Two(Bits(j + 1)) = Base * w
    BY BitsIs
  <2>7. c \in Nat /\ l \in Nat /\ x = t * c + l
    <3>1. x \in Nat
      BY <2>4, LimbIs
    <3>2. j # k
      BY <1>2
    <3>3. l = x % t
      BY <3>2 DEF DownOut
    <3> HIDE DEF x, l
    <3>4. x \div t \in Nat /\ x % t \in 0..(t - 1) /\ x = (x \div t) * t + (x % t)
      BY <3>1, DivOf
    <3>5. c \in Nat /\ l \in Nat /\ x = c * t + l
      BY <3>3, <3>4
    <3> HIDE DEF c
    <3>6. c * t = t * c
      BY <3>5
    <3> QED BY <3>5, <3>6
  <2>8. r[p + j] = c + u * f
    <3>1. r[p + j] = m[q + j] \div t + u * ((IF j = k - 1 THEN top ELSE m[q + j + 1]) % t)
      BY <2>2 DEF Downs
    <3>2. (j = k - 1 <=> j + 1 = k) /\ q + j + 1 = q + (j + 1)
      BY <1>2
    <3> QED BY <3>1, <3>2 DEF DownOut
  <2>9. f \in Int
    <3>1. f \in 0..(t - 1)
      BY <1>0, <2>2
    <3> HIDE DEF f
    <3> QED BY <3>1
  <2> HIDE DEF w, x, c, l, v, s, f, y
  <2>10. t * (v + w * (c + u * f)) + y = (s + w * (t * c + l)) + ((t * u) * w) * f
    <3>1. v \in Int /\ s \in Int /\ w \in Int /\ t \in Int /\ u \in Int /\ c \in Int /\ l \in Int
      BY <2>1, <2>4, <2>5, <2>6, <2>7
    <3> QED BY <1>00, <2>1, <2>9, <3>1, DownStep
  <2>11. t * Value(r, p, j + 1) + y = Value(m, q, j + 1) + Two(Bits(j + 1)) * f
    BY <2>4, <2>5, <2>6, <2>7, <2>8, <2>10
  <2> QED BY <2>2, <2>11 DEF f
<1>3. \A j \in 0..k : j \in P
  <2> HIDE DEF P
  <2> QED BY <1>1, <1>2, UpTo
<1>4. k \in P /\ 0 \in 0..k
  BY <1>3
<1>5. O(k) = top % t
  BY DEF DownOut
<1> QED BY <1>0, <1>4, <1>5

\* An amount is whole limbs and what is left.
LEMMA AmountIs ==
  ASSUME NEW by \in Nat, NEW g \in Nat, g <= by \div (2 * H)
  PROVE  /\ by - Bits(g) \in Nat /\ Two(by) = Two(Bits(g)) * Two(by - Bits(g))
         /\ g = by \div (2 * H) => by - Bits(g) = by % (2 * H)
<1> DEFINE d == 2 * H
           a == by \div d
           e == by % d
           z == Bits(g)
<1>1. d \in Nat /\ d > 0
  BY BaseIs
<1>2. a \in Nat /\ e \in Nat /\ by = a * d + e
  <2> HIDE DEF d
  <2>1. by \div d \in Nat /\ by % d \in 0..(d - 1) /\ by = (by \div d) * d + (by % d)
    BY <1>1, DivOf
  <2> QED BY <1>1, <2>1
<1>3. z = d * g /\ z \in Nat
  BY BitsIs DEF Bits
<1>4. g <= a
  OBVIOUS
<1> HIDE DEF d, a, e, z
<1>5. PICK c \in Nat : a = g + c
  <2>1. a - g \in Nat /\ a = g + (a - g)
    BY <1>2, <1>4
  <2> QED BY <2>1
<1>6. a * d = z + c * d /\ c * d \in Nat
  <2>1. (g + c) * d = d * g + c * d /\ c * d \in Nat
    BY <1>1
  <2> QED BY <1>3, <1>5, <2>1
<1>7. by - z = c * d + e /\ by - z \in Nat
  <2> DEFINE cd == c * d
             ad == a * d
  <2>1. cd \in Nat /\ ad = z + cd /\ by = ad + e
    BY <1>2, <1>6
  <2> HIDE DEF cd, ad
  <2>2. by - z = cd + e /\ by - z \in Nat
    BY <1>2, <1>3, <2>1
  <2> QED BY <2>2 DEF cd
<1> DEFINE f == by - z
<1>8. Two(by) = Two(z) * Two(f)
  <2>1. f \in Nat /\ z + f = by
    BY <1>3, <1>7
  <2> HIDE DEF f
  <2> QED BY <1>3, <2>1, TwoSum
<1>9. ASSUME g = a PROVE by - z = e
  <2>1. c = 0
    BY <1>2, <1>5, <1>9
  <2>2. c * d = 0
    BY <1>1, <2>1
  <2> QED BY <1>2, <1>7, <2>2
<1> QED BY <1>7, <1>8, <1>9 DEF z, a, e, d

\* Weights of windows side by side
LEMMA WeightParts ==
  ASSUME NEW b \in Nat, NEW n \in Nat
  PROVE  /\ Two(Bits(b)) \in Nat /\ Two(Bits(b)) >= 1 /\ Two(Bits(n)) \in Nat /\ Two(Bits(n)) >= 1
         /\ Two(Bits(b + n)) = Two(Bits(b)) * Two(Bits(n)) /\ Two(Bits(b)) * Two(Bits(n)) >= 1
         /\ Two(Bits(n + b)) = Two(Bits(b)) * Two(Bits(n))
<1>1. Two(Bits(b + n)) = Two(Bits(b)) * Two(Bits(n))
  BY Weight
<1>2. Two(Bits(b)) \in Nat /\ Two(Bits(b)) >= 1 /\ Two(Bits(n)) \in Nat /\ Two(Bits(n)) >= 1
  BY BitsIs
<1>3. b + n \in Nat /\ b + n = n + b
  OBVIOUS
<1>4. Two(Bits(b + n)) >= 1
  BY <1>3, BitsIs
<1> QED BY <1>1, <1>2, <1>3, <1>4

LEMMA LShiftedLimbs ==
  ASSUME NEW m, NEW q \in Int, NEW k \in Nat, Window(m, q, k), NEW by \in Nat,
         NEW r, NEW p \in Int, LShifted(r, p, m, q, k, by)
  PROVE  Window(r, p, k)
<1> SUFFICES ASSUME NEW i \in 0..(k - 1) PROVE r[p + i] \in Limb
  BY DEF Window
<1> DEFINE b == byPos(by, k)
<1>1. b \in 0..k
  BY ByPos
<1>2. r[p + i] = IF i < b THEN 0 ELSE IF i = b THEN Shl(m[q], by)
                 ELSE Mixed(Shl(m[q + i - b], by), CrossingUp(m[q + i - 1 - b], by), OrBit)
  BY DEF LShifted
<1> HIDE DEF b
<1>3. CASE i < b
  <2>1. 0 \in Limb
    BY LimbIs, BaseIs
  <2> QED BY <1>2, <1>3, <2>1
<1>4. CASE i = b
  <2>1. m[q + 0] \in Limb
    <3>1. 0 \in 0..(k - 1)
      OBVIOUS
    <3> QED BY <3>1 DEF Window
  <2>2. m[q] \in Limb
    BY <2>1
  <2>3. Shl(m[q], by) \in Limb
    BY <2>2, ShlLimb
  <2> QED BY <1>2, <1>4, <2>3
<1>5. CASE i > b
  <2>1. i - b \in 0..(k - 1) /\ i - 1 - b \in 0..(k - 1) /\ q + i - b = q + (i - b)
        /\ q + i - 1 - b = q + (i - 1 - b)
    BY <1>1, <1>5
  <2>2. m[q + i - b] \in Limb /\ m[q + i - 1 - b] \in Limb
    BY <2>1 DEF Window
  <2>3. Mixed(Shl(m[q + i - b], by), CrossingUp(m[q + i - 1 - b], by), OrBit) \in Limb
    BY <2>2, ShiftedLimb
  <2>4. ~(i < b) /\ i # b
    BY <1>1, <1>5
  <2> QED BY <1>2, <2>3, <2>4
<1> QED BY <1>1, <1>3, <1>4, <1>5

LEMMA ShiftedUp ==
  ASSUME NEW wb \in Int, NEW wn \in Int, NEW t \in Int, NEW v \in Int, NEW s \in Int, NEW g \in Int,
         NEW o \in Int, v + wn * o = t * s
  PROVE  (s + wn * g) * (wb * t) = (wb * wn) * (o + t * g) + wb * v
<1>1. (s + wn * g) * (wb * t) = wb * (t * s) + (wb * wn) * (t * g)
  OBVIOUS
<1>2. wb * (t * s) = wb * v + (wb * wn) * o
  <2>1. wb * (v + wn * o) = wb * v + (wb * wn) * o
    OBVIOUS
  <2> QED BY <2>1
<1>3. (wb * wn) * (o + t * g) = (wb * wn) * o + (wb * wn) * (t * g)
  OBVIOUS
<1> DEFINE a == wb * v
           b == (wb * wn) * o
           c == (wb * wn) * (t * g)
<1>4. a \in Int /\ b \in Int /\ c \in Int
  OBVIOUS
<1>5. (a + b) + c = (b + c) + a
  <2> HIDE DEF a, b, c
  <2> QED BY <1>4
<1> QED BY <1>1, <1>2, <1>3, <1>5

LEMMA LShiftValue ==
  ASSUME NEW m, NEW q \in Int, NEW k \in Nat, k >= 1, Window(m, q, k), NEW by \in Nat,
         NEW r, NEW p \in Int, LShifted(r, p, m, q, k, by)
  PROVE  Value(r, p, k) = (Value(m, q, k) * Two(by)) % Two(Bits(k))
<1> DEFINE b == byPos(by, k)
           a == by \div (2 * H)
           n == k - b
<1>1. b \in 0..k /\ (a <= k => b = a) /\ (a > k => b = k)
  BY ByPos
<1>2. Window(r, p, k)
  BY LShiftedLimbs
<1>3. \A i \in 0..(k - 1) :
        r[p + i] = IF i < b THEN 0 ELSE IF i = b THEN Shl(m[q], by)
                   ELSE Mixed(Shl(m[q + i - b], by), CrossingUp(m[q + i - 1 - b], by), OrBit)
  BY DEF LShifted
<1>4. a \in Nat
  <2> DEFINE d == 2 * H
  <2>1. d \in Nat /\ d > 0
    BY BaseIs
  <2> HIDE DEF d
  <2>2. by \div d \in Nat
    BY <2>1, DivOf
  <2> QED BY <2>2 DEF d
<1> HIDE DEF b, a
<1>5. b \in Nat /\ n \in Nat /\ b + n = k /\ n + b = k /\ b <= a
  BY <1>1, <1>4
<1> HIDE DEF n
<1> DEFINE x == Value(m, q, k)
           w == Two(Bits(k))
<1>6. x \in Nat /\ x < w
  BY ValueRange
<1>7. w \in Nat /\ w >= 1
  BY BitsIs
<1>8. CASE b = k
  <2> DEFINE c == Two(by - Bits(b))
             z == x * Two(by)
  <2>1. Two(by) = w * c /\ c \in Nat
    <3>1. by - Bits(b) \in Nat /\ Two(by) = Two(Bits(b)) * Two(by - Bits(b))
      BY <1>5, AmountIs DEF a
    <3> QED BY <1>8, <3>1, TwoIs
  <2>2. Value(r, p, k) = 0
    <3>1. \A i \in 0..(k - 1) : r[p + i] = 0
      BY <1>3, <1>8
    <3> QED BY <3>1, ZeroValue
  <2> HIDE DEF x, w, c
  <2>3. z = w * (x * c) + 0 /\ x * c \in Int /\ z \in Int
    <3>1. x * (w * c) = w * (x * c) + 0 /\ x * c \in Int /\ x * (w * c) \in Int
      BY <1>6, <1>7, <2>1
    <3> QED BY <2>1, <3>1
  <2> HIDE DEF z
  <2> DEFINE f == x * c
  <2>4. f \in Int /\ z = w * f + 0
    BY <2>3
  <2> HIDE DEF f
  <2>5. z % w = 0
    BY <1>7, <2>3, <2>4, ModIs
  <2> QED BY <2>2, <2>5 DEF x, w, z
<1>9. CASE b < k
  <2> DEFINE t == Two(by % (2 * H))
             u == Two(2 * H - (by % (2 * H)))
             wb == Two(Bits(b))
             wn == Two(Bits(n))
             s == Value(m, q, n)
             g == Value(m, q + n, b)
             v == Value(r, p + b, n)
             o == UpOut(m, q, n, u, 0)
  <2>1. b = a
    BY <1>1, <1>4, <1>9
  <2>2. ShiftBy(by, t, u)
    BY ShiftParts
  <2>3. t \in Nat /\ t >= 1 /\ u \in Nat /\ u >= 1 /\ Base = t * u
    <3> HIDE DEF t, u
    <3> QED BY <2>2 DEF ShiftBy
  <2>4. Two(by) = wb * t
    <3>1. Two(by) = Two(Bits(b)) * Two(by - Bits(b)) /\ by - Bits(b) = by % (2 * H)
      BY <1>5, <2>1, AmountIs DEF a
    <3> QED BY <3>1
  <2>5. wb \in Nat /\ wb >= 1 /\ wn \in Nat /\ wn >= 1 /\ w = wb * wn
    BY <1>5, WeightParts
  <2>6. Window(m, q, n) /\ Window(m, q + n, b) /\ x = s + wn * g
    <3>1. Window(m, q, n + b)
      BY <1>5
    <3>2. Window(m, q, n) /\ Window(m, q + n, b)
          /\ Value(m, q, n + b) = Value(m, q, n) + Two(Bits(n)) * Value(m, q + n, b)
      BY <1>5, <3>1, ValueSplit
    <3> QED BY <1>5, <3>2
  <2>7. Window(r, p + b, n) /\ Value(r, p, k) = 0 + wb * v
    <3>1. Window(r, p, b + n)
      BY <1>2, <1>5
    <3>2. Window(r, p + b, n) /\ Value(r, p, b + n) = Value(r, p, b) + Two(Bits(b)) * Value(r, p + b, n)
      BY <1>5, <3>1, ValueSplit
    <3>3. \A i \in 0..(b - 1) : r[p + i] = 0
      BY <1>3, <1>1
    <3>4. Value(r, p, b) = 0
      BY <1>5, <3>3, ZeroValue
    <3> QED BY <1>5, <3>2, <3>4
  <2>8. Ups(r, p + b, m, q, n, t, u, 0)
    <3> SUFFICES ASSUME NEW i \in 0..(n - 1)
                 PROVE  r[(p + b) + i] = t * (m[q + i] % u) + (IF i = 0 THEN 0 ELSE m[q + i - 1] \div u)
      BY DEF Ups
    <3> DEFINE j == b + i
    <3>1. j \in 0..(k - 1) /\ (p + b) + i = p + j /\ ~(j < b) /\ i \in Nat
      BY <1>1, <1>5
    <3>2. m[q + i] \in Limb
      BY <2>6 DEF Window
    <3> HIDE DEF t, u
    <3>3. CASE i = 0
      <4>0. j = b
        BY <1>5, <3>3
      <4>1. r[p + j] = Shl(m[q], by)
        BY <1>3, <3>1, <4>0
      <4>2. m[q] = m[q + i]
        BY <3>3
      <4>3. Shl(m[q + i], by) = t * (m[q + i] % u)
        BY <2>2, <3>2, UpLimb
      <4> DEFINE y == m[q + i]
      <4>4. t * (y % u) \in Int
        <5>1. y \in Nat
          BY <3>2, LimbIs
        <5> HIDE DEF y
        <5>2. y % u \in Nat
          BY <2>3, <5>1, DivOf
        <5> QED BY <2>3, <5>2
      <4>5. t * (y % u) = t * (y % u) + 0
        BY <4>4
      <4> QED BY <3>1, <3>3, <4>1, <4>2, <4>3, <4>5
    <3>4. CASE i # 0
      <4>1. i - 1 \in 0..(n - 1) /\ j # b /\ q + j - b = q + i /\ q + j - 1 - b = q + (i - 1)
            /\ q + i - 1 = q + (i - 1)
        BY <1>5, <3>1, <3>4
      <4>2. m[q + (i - 1)] \in Limb
        BY <2>6, <4>1 DEF Window
      <4>3. r[p + j] = Mixed(Shl(m[q + j - b], by), CrossingUp(m[q + j - 1 - b], by), OrBit)
        BY <1>3, <3>1, <4>1
      <4>4. r[p + j] = Mixed(Shl(m[q + i], by), CrossingUp(m[q + (i - 1)], by), OrBit)
        BY <4>1, <4>3
      <4>5. Mixed(Shl(m[q + i], by), CrossingUp(m[q + (i - 1)], by), OrBit)
              = t * (m[q + i] % u) + m[q + (i - 1)] \div u
        BY <2>2, <3>2, <4>2, UpLimb
      <4> QED BY <3>1, <3>4, <4>1, <4>4, <4>5
    <3> QED BY <3>3, <3>4
  <2>9. v + wn * o = t * s + 0 /\ o \in Nat
    <3>1. p + b \in Int
      BY <1>5
    <3> HIDE DEF t, u
    <3> QED BY <1>5, <2>3, <2>6, <2>7, <2>8, <3>1, UpRun
  <2>10. s \in Nat /\ g \in Nat /\ v \in Nat /\ v < wn
    BY <1>5, <2>6, <2>7, ValueRange
  <2> HIDE DEF t, u, wb, wn, s, g, v, o, x, w
  <2>11. v + wn * o = t * s
    <3>1. t * s \in Int
      BY <2>3, <2>10
    <3> QED BY <2>9, <3>1
  <2>12. (s + wn * g) * (wb * t) = (wb * wn) * (o + t * g) + wb * v
    <3>1. wb \in Int /\ wn \in Int /\ t \in Int /\ v \in Int /\ s \in Int /\ g \in Int /\ o \in Int
      BY <2>3, <2>5, <2>9, <2>10
    <3> QED BY <2>11, <3>1, ShiftedUp
  <2> DEFINE f == o + t * g
             y == wb * v
             z == x * Two(by)
  <2>13. z = w * f + y
    BY <2>4, <2>5, <2>6, <2>12
  <2>14. f \in Int /\ y \in Nat
    BY <2>3, <2>5, <2>9, <2>10
  <2>15. y < w
    <3>1. v * wb + wb <= wn * wb /\ v * wb \in Nat
      BY <2>5, <2>10, MulMono
    <3>2. v * wb = wb * v /\ wn * wb = wb * wn
      BY <2>5, <2>10
    <3>3. y + wb <= w
      BY <2>5, <3>1, <3>2
    <3> HIDE DEF y
    <3> QED BY <1>7, <2>5, <2>14, <3>3
  <2>16. z \in Int
    <3>1. Two(by) \in Nat
      BY TwoIs
    <3> QED BY <1>6, <3>1
  <2>17. Value(r, p, k) = y
    BY <2>7, <2>14
  <2> HIDE DEF f, y, z
  <2>18. z % w = y
    BY <1>7, <2>13, <2>14, <2>15, <2>16, ModIs
  <2> QED BY <2>17, <2>18 DEF z, x, w
<1> QED BY <1>1, <1>5, <1>8, <1>9

\* All ones, or all zeros
LEMMA OnesValue ==
  ASSUME NEW m, NEW p \in Int, NEW k \in Nat, NEW s \in 0..1, \A i \in 0..(k - 1) : m[p + i] = s * (Base - 1)
  PROVE  Value(m, p, k) = s * (Two(Bits(k)) - 1) /\ Window(m, p, k)
<1>1. Two(Bits(k)) \in Nat /\ Base \in Nat
  BY BitsIs, BaseIs
<1>2. CASE s = 0
  <2>1. 0 * (Base - 1) = 0 /\ 0 * (Two(Bits(k)) - 1) = 0
    BY <1>1
  <2>2. \A i \in 0..(k - 1) : m[p + i] = 0
    BY <1>2, <2>1
  <2>3. Value(m, p, k) = 0 /\ Window(m, p, k)
    BY <2>2, ZeroValue
  <2> QED BY <1>2, <2>1, <2>3
<1>3. CASE s = 1
  <2> DEFINE z == [x \in Int |-> 0]
  <2>1. \A i \in 0..(k - 1) : z[p + i] = 0
    OBVIOUS
  <2> HIDE DEF z
  <2>2. Value(z, p, k) = 0 /\ Window(z, p, k)
    BY <2>1, ZeroValue
  <2>3. \A i \in 0..(k - 1) : m[p + i] = Base - 1 - z[p + i]
    <3>1. 1 * (Base - 1) = Base - 1 - 0
      BY <1>1
    <3> QED BY <1>3, <2>1, <3>1
  <2>4. Value(m, p, k) = Two(Bits(k)) - 1 - Value(z, p, k) /\ Window(m, p, k)
    BY <2>2, <2>3, NotValue
  <2>5. Two(Bits(k)) - 1 - 0 = 1 * (Two(Bits(k)) - 1)
    BY <1>1
  <2> QED BY <1>3, <2>2, <2>4, <2>5
<1> QED BY <1>2, <1>3

Repeated(m, p, k, c) == \A i \in 0..(k - 1) : m[p + i] = c
LEMMA OnesRepeated ==
  ASSUME NEW m, NEW p \in Int, NEW k \in Nat, NEW s \in 0..1, NEW c, c = s * (Base - 1), Repeated(m, p, k, c)
  PROVE  Value(m, p, k) = s * (Two(Bits(k)) - 1)
<1>1. \A i \in 0..(k - 1) : m[p + i] = s * (Base - 1)
  BY Zenon DEF Repeated
<1> QED BY <1>1, OnesValue, Zenon

LEMMA OnesAbove ==
  ASSUME NEW r, NEW p \in Int, NEW n \in Int, NEW b \in Nat, NEW s \in 0..1,
         \A i \in 0..(b - 1) : r[(p + n) + i] = s * (Base - 1)
  PROVE  Value(r, p + n, b) = s * (Two(Bits(b)) - 1)
<1> DEFINE o == p + n
           c == s * (Base - 1)
<1>1. o \in Int
  OBVIOUS
<1>2. Repeated(r, o, b, c) /\ c = s * (Base - 1)
  BY Zenon DEF Repeated
<1> HIDE DEF o, c
<1>3. Value(r, o, b) = s * (Two(Bits(b)) - 1)
  BY <1>1, <1>2, OnesRepeated, Zenon
<1> QED BY <1>3 DEF o

LEMMA RShiftedLimbs ==
  ASSUME NEW m, NEW q \in Int, NEW k \in Nat, Window(m, q, k), NEW by \in Nat, NEW top \in Limb,
         NEW r, NEW p \in Int, RShifted(r, p, m, q, k, by, top)
  PROVE  Window(r, p, k)
<1> SUFFICES ASSUME NEW i \in 0..(k - 1) PROVE r[p + i] \in Limb
  BY DEF Window
<1> DEFINE b == byPos(by, k)
           y == IF i = k - b - 1 THEN top ELSE m[q + i + b + 1]
<1>1. b \in 0..k
  BY ByPos
<1>2. r[p + i] = IF i >= k - b THEN top ELSE Mixed(Shr(m[q + i + b], by), CrossingDown(y, by), OrBit)
  BY DEF RShifted
<1> HIDE DEF b
<1>3. CASE i >= k - b
  BY <1>2, <1>3
<1>4. CASE i < k - b
  <2>1. i + b \in 0..(k - 1) /\ q + i + b = q + (i + b)
    BY <1>1, <1>4
  <2>2. m[q + i + b] \in Limb
    BY <2>1 DEF Window
  <2>3. y \in Limb
    <3>1. CASE i = k - b - 1
      BY <3>1
    <3>2. CASE i # k - b - 1
      <4>1. i + b + 1 \in 0..(k - 1) /\ q + i + b + 1 = q + (i + b + 1)
        BY <1>1, <1>4, <3>2
      <4>2. m[q + i + b + 1] \in Limb
        BY <4>1 DEF Window
      <4> QED BY <3>2, <4>2
    <3> QED BY <3>1, <3>2
  <2> HIDE DEF y
  <2>4. Mixed(Shr(m[q + i + b], by), CrossingDown(y, by), OrBit) \in Limb
    BY <2>2, <2>3, ShiftedLimb
  <2>5. ~(i >= k - b)
    BY <1>1, <1>4
  <2> QED BY <1>2, <2>4, <2>5
<1> QED BY <1>1, <1>3, <1>4

LEMMA ShiftedDown ==
  ASSUME NEW wb \in Int, NEW wn \in Int, NEW t \in Int, NEW v \in Int, NEW s \in Int, NEW lo \in Int,
         NEW hi \in Int, NEW y \in Int, t * v + y = hi + wn * (s * (t - 1))
  PROVE  /\ (lo + wb * hi) - s * (wb * wn) = (wb * t) * (v - s * wn) + (lo + wb * y)
         /\ v - s * wn = (v + wn * (s * (wb - 1))) - s * (wb * wn)
<1>1. wb * hi = wb * (t * v + y - wn * (s * (t - 1)))
  <2> DEFINE a == t * v
             b == wn * (s * (t - 1))
  <2>1. a \in Int /\ b \in Int /\ a + y = hi + b
    OBVIOUS
  <2> HIDE DEF a, b
  <2>2. hi = a + y - b
    BY <2>1
  <2> QED BY <2>2 DEF a, b
<1>2. wb * (t * v + y - wn * (s * (t - 1))) - s * (wb * wn) = (wb * t) * (v - s * wn) + wb * y
  OBVIOUS
<1> DEFINE a == wb * hi
           b == s * (wb * wn)
           c == (wb * t) * (v - s * wn)
           d == wb * y
<1>3. a \in Int /\ b \in Int /\ c \in Int /\ d \in Int /\ a - b = c + d
  BY <1>1, <1>2
<1>4. (lo + a) - b = c + (lo + d)
  <2> HIDE DEF a, b, c, d
  <2> QED BY <1>3
<1>5. v - s * wn = (v + wn * (s * (wb - 1))) - s * (wb * wn)
  OBVIOUS
<1> QED BY <1>4, <1>5

LEMMA LowPart ==
  ASSUME NEW w \in Nat, NEW t \in Nat, NEW v \in Nat, v < w, NEW y \in Nat, y < t
  PROVE  v + w * y \in Nat /\ v + w * y < w * t
<1>1. y * w + w <= t * w /\ y * w \in Nat
  BY MulMono
<1>2. y * w = w * y /\ t * w = w * t
  OBVIOUS
<1> DEFINE z == w * y
           u == w * t
<1>3. z \in Nat /\ u \in Nat /\ z + w <= u
  BY <1>1, <1>2
<1> HIDE DEF z, u
<1>4. v + z \in Nat /\ v + z < u
  BY <1>3
<1> QED BY <1>4 DEF z, u

\* A shift down, of a number that counts as s times the range less: rounded down
LEMMA RShiftValue ==
  ASSUME NEW m, NEW q \in Int, NEW k \in Nat, k >= 1, Window(m, q, k), NEW by \in Nat,
         NEW s \in 0..1, NEW top \in Limb, top = s * (Base - 1),
         NEW r, NEW p \in Int, RShifted(r, p, m, q, k, by, top)
  PROVE  (Value(m, q, k) - s * Two(Bits(k))) \div Two(by) = Value(r, p, k) - s * Two(Bits(k))
<1> DEFINE b == byPos(by, k)
           a == by \div (2 * H)
           n == k - b
           above(i) == IF i = k - b - 1 THEN top ELSE m[q + i + b + 1]
<1>1. b \in 0..k /\ (a <= k => b = a) /\ (a > k => b = k)
  BY ByPos
<1>2. Window(r, p, k)
  BY RShiftedLimbs
<1>3. \A i \in 0..(k - 1) :
        r[p + i] = IF i >= k - b THEN top ELSE Mixed(Shr(m[q + i + b], by), CrossingDown(above(i), by), OrBit)
  BY DEF RShifted
<1>4. a \in Nat
  <2> DEFINE d == 2 * H
  <2>1. d \in Nat /\ d > 0
    BY BaseIs
  <2> HIDE DEF d
  <2>2. by \div d \in Nat
    BY <2>1, DivOf
  <2> QED BY <2>2 DEF d
<1> HIDE DEF b, a
<1>5. b \in Nat /\ n \in Nat /\ b + n = k /\ n + b = k /\ b <= a
  BY <1>1, <1>4
<1> HIDE DEF n
<1> DEFINE x == Value(m, q, k)
           w == Two(Bits(k))
           z == x - s * w
           e == Two(by)
<1>6. x \in Nat /\ x < w
  BY ValueRange
<1>7. w \in Nat /\ w >= 1 /\ e \in Nat /\ e >= 1
  BY BitsIs, TwoIs
<1>8. z \in Int
  <2> HIDE DEF x, w
  <2>1. s * w \in Int
    BY <1>7
  <2> QED BY <1>6, <2>1
<1>9. CASE b = k
  <2> DEFINE c == Two(by - Bits(b))
  <2>1. e = w * c /\ c \in Nat /\ c >= 1
    <3>1. by - Bits(b) \in Nat /\ Two(by) = Two(Bits(b)) * Two(by - Bits(b))
      BY <1>5, AmountIs DEF a
    <3> QED BY <1>9, <3>1, TwoIs
  <2>2. Value(r, p, k) = s * (w - 1)
    <3>1. \A i \in 0..(k - 1) : r[p + i] = s * (Base - 1)
      BY <1>3, <1>9
    <3> QED BY <3>1, OnesValue
  <2> HIDE DEF x, w, c, z, e
  <2>3. Value(r, p, k) - s * w = 0 - s
    <3>1. s * (w - 1) - s * w = 0 - s
      BY <1>7
    <3> QED BY <2>2, <3>1
  <2>4. z \div e = 0 - s
    <3>1. CASE s = 0
      <4>1. z = x
        <5>1. 0 * w = 0
          BY <1>7
        <5> QED BY <1>6, <3>1, <5>1 DEF z
      <4>2. x < e
        <5>1. CASE c = 1
          BY <1>6, <1>7, <2>1, <5>1
        <5>2. CASE c # 1
          <6>1. 1 * w + w <= c * w /\ c * w = w * c
            <7>1. 1 < c
              BY <2>1, <5>2
            <7> QED BY <1>7, <2>1, <7>1, MulMono
          <6> DEFINE f == c * w
          <6>2. w + w <= f /\ f = e
            <7>1. 1 * w = w
              BY <1>7
            <7> QED BY <2>1, <6>1, <7>1
          <6> HIDE DEF f
          <6> QED BY <1>6, <1>7, <6>2
        <5> QED BY <5>1, <5>2
      <4>3. x \div e = 0
        BY <1>6, <1>7, <4>2
      <4>4. 0 - s = 0
        <5>1. s \in Int /\ s = 0
          BY <3>1
        <5> QED BY <5>1, SMT
      <4> QED BY <4>1, <4>3, <4>4
    <3>2. CASE s = 1
      <4>1. z = x - w
        <5>1. 1 * w = w
          BY <1>7
        <5> QED BY <3>2, <5>1 DEF z
      <4>2. w <= e
        <5>1. PICK f \in Nat : c = f + 1
          <6>1. c - 1 \in Nat /\ c = (c - 1) + 1
            BY <2>1
          <6> QED BY <6>1
        <5>2. w * (f + 1) = w * f + w /\ w * f \in Nat
          BY <1>7
        <5> DEFINE g == w * f
        <5>3. g \in Nat /\ e = g + w
          BY <2>1, <5>1, <5>2
        <5> HIDE DEF g
        <5> QED BY <1>7, <5>3
      <4>3. z + e \in Nat /\ z + e < e /\ z = e * (-1) + (z + e)
        BY <1>6, <1>7, <4>1, <4>2
      <4> DEFINE y == z + e
                 j == -1
      <4>4. y \in Nat /\ y < e /\ z = e * j + y /\ j \in Int
        BY <4>3
      <4> HIDE DEF y, j
      <4>5. z \div e = j
        BY <1>7, <1>8, <4>4, ModIs
      <4> QED BY <3>2, <4>5 DEF j
    <3> QED BY <3>1, <3>2
  <2> QED BY <2>3, <2>4 DEF z, e, w, x
<1>10. CASE b < k
  <2> DEFINE t == Two(by % (2 * H))
             u == Two(2 * H - (by % (2 * H)))
             wb == Two(Bits(b))
             wn == Two(Bits(n))
             lo == Value(m, q, b)
             hi == Value(m, q + b, n)
             v == Value(r, p, n)
             y == DownOut(m, q + b, n, 0, t, top)
  <2>1. b = a
    BY <1>1, <1>4, <1>10
  <2>2. ShiftBy(by, t, u)
    BY ShiftParts
  <2>3. t \in Nat /\ t >= 1 /\ u \in Nat /\ u >= 1 /\ Base = t * u
    <3> HIDE DEF t, u
    <3> QED BY <2>2 DEF ShiftBy
  <2>4. e = wb * t
    <3>1. Two(by) = Two(Bits(b)) * Two(by - Bits(b)) /\ by - Bits(b) = by % (2 * H)
      BY <1>5, <2>1, AmountIs DEF a
    <3> QED BY <3>1
  <2>5. wb \in Nat /\ wb >= 1 /\ wn \in Nat /\ wn >= 1 /\ w = wb * wn
    BY <1>5, WeightParts
  <2>6. Window(m, q, b) /\ Window(m, q + b, n) /\ x = lo + wb * hi
    <3>1. Window(m, q, b + n)
      BY <1>5
    <3>2. Window(m, q, b) /\ Window(m, q + b, n)
          /\ Value(m, q, b + n) = Value(m, q, b) + Two(Bits(b)) * Value(m, q + b, n)
      BY <1>5, <3>1, ValueSplit
    <3> QED BY <1>5, <3>2
  <2>7. Window(r, p, n) /\ Value(r, p, k) = v + wn * (s * (wb - 1))
    <3>1. Window(r, p, n + b)
      BY <1>2, <1>5
    <3>2. Window(r, p, n) /\ Value(r, p, n + b) = Value(r, p, n) + Two(Bits(n)) * Value(r, p + n, b)
      BY <1>5, <3>1, ValueSplit
    <3>3. \A i \in 0..(b - 1) : r[(p + n) + i] = s * (Base - 1)
      <4> SUFFICES ASSUME NEW i \in 0..(b - 1) PROVE r[(p + n) + i] = s * (Base - 1)
        OBVIOUS
      <4>1. n + i \in 0..(k - 1) /\ (p + n) + i = p + (n + i) /\ n + i >= k - b
        BY <1>5
      <4> QED BY <1>3, <4>1
    <3>4. Value(r, p + n, b) = s * (Two(Bits(b)) - 1)
      <4>1. b \in Nat /\ n \in Int
        BY <1>5
      <4> HIDE DEF b, n
      <4> QED BY <3>3, <4>1, OnesAbove, SMTT(30)
    <3> QED BY <1>5, <3>2, <3>4
  <2>8. Downs(r, p, m, q + b, n, t, u, top)
    <3> SUFFICES ASSUME NEW i \in 0..(n - 1)
                 PROVE  r[p + i] = m[(q + b) + i] \div t
                                   + u * ((IF i = n - 1 THEN top ELSE m[(q + b) + i + 1]) % t)
      BY DEF Downs
    <3> DEFINE up == IF i = n - 1 THEN top ELSE m[(q + b) + i + 1]
    <3>1. /\ i \in 0..(k - 1) /\ ~(i >= k - b) /\ q + i + b = (q + b) + i
          /\ q + i + b + 1 = (q + b) + i + 1 /\ k - b - 1 = n - 1
      BY <1>1, <1>5
    <3>2. above(i) = up
      BY <3>1
    <3>3. m[(q + b) + i] \in Limb
      BY <2>6 DEF Window
    <3>4. up \in Limb
      <4>1. CASE i = n - 1
        BY <4>1
      <4>2. CASE i # n - 1
        <5>1. i + 1 \in 0..(n - 1) /\ (q + b) + i + 1 = (q + b) + (i + 1)
          BY <1>5, <4>2
        <5>2. m[(q + b) + i + 1] \in Limb
          BY <2>6, <5>1 DEF Window
        <5> QED BY <4>2, <5>2
      <4> QED BY <4>1, <4>2
    <3>5. r[p + i] = Mixed(Shr(m[q + i + b], by), CrossingDown(above(i), by), OrBit)
      BY <1>3, <3>1
    <3>6. r[p + i] = Mixed(Shr(m[(q + b) + i], by), CrossingDown(up, by), OrBit)
      BY <3>1, <3>2, <3>5
    <3> HIDE DEF up, above, t, u
    <3>7. Mixed(Shr(m[(q + b) + i], by), CrossingDown(up, by), OrBit) = m[(q + b) + i] \div t + u * (up % t)
      <4> DEFINE l == m[(q + b) + i]
      <4>1. l \in Limb
        BY <3>3
      <4> HIDE DEF l
      <4>2. Mixed(Shr(l, by), CrossingDown(up, by), OrBit) = l \div t + u * (up % t)
        BY <2>2, <3>4, <4>1, DownLimb
      <4> QED BY <4>2 DEF l
    <3>8. r[p + i] = m[(q + b) + i] \div t + u * (up % t)
      BY <3>6, <3>7
    <3> QED BY <3>8 DEF up
  <2>9. t * v + y = hi + wn * (top % t) /\ y \in 0..(t - 1)
    <3>1. q + b \in Int
      BY <1>5
    <3> HIDE DEF t, u
    <3> QED BY <1>5, <2>3, <2>6, <2>7, <2>8, <3>1, DownRun
  <2>10. lo \in Nat /\ lo < wb /\ hi \in Nat /\ v \in Nat
    BY <1>5, <2>6, <2>7, ValueRange
  <2> HIDE DEF t, u, wb, wn, lo, hi, v, y, x, w, e, z
  <2>11. top % t = s * (t - 1)
    <3>1. CASE s = 0
      <4>1. 0 * (Base - 1) = 0 /\ 0 * (t - 1) = 0
        BY <2>3, BaseIs
      <4>2. 0 % t = 0
        BY <2>3
      <4> QED BY <3>1, <4>1, <4>2
    <3>2. CASE s = 1
      <4>1. top = Base - 1
        <5>1. 1 * (Base - 1) = Base - 1
          BY BaseIs
        <5> QED BY <3>2, <5>1
      <4> DEFINE f == u - 1
                 g == t - 1
      <4>2. t * u - 1 = t * f + g
        BY <2>3
      <4>3. f \in Int /\ g \in Nat /\ g < t
        BY <2>3
      <4>4. top = t * f + g /\ top \in Int
        BY <2>3, <4>1, <4>2, LimbIs
      <4>5. 1 * g = g
        BY <4>3
      <4> HIDE DEF f, g
      <4>6. top % t = g
        <5> DEFINE h == top
        <5>1. t \in Nat /\ t >= 1 /\ h \in Int /\ h = t * f + g
          BY <2>3, <4>4
        <5> HIDE DEF h
        <5>2. h % t = g
          BY <4>3, <5>1, ModIs
        <5> QED BY <5>2 DEF h
      <4>7. s * g = g
        BY <3>2, <4>5
      <4> QED BY <4>6, <4>7 DEF g
    <3> QED BY <3>1, <3>2
  <2>12. y \in Nat /\ y < t
    BY <2>3, <2>9
  <2>13. /\ (lo + wb * hi) - s * (wb * wn) = (wb * t) * (v - s * wn) + (lo + wb * y)
         /\ v - s * wn = (v + wn * (s * (wb - 1))) - s * (wb * wn)
    <3>1. t * v + y = hi + wn * (s * (t - 1))
      BY <2>9, <2>11
    <3>2. wb \in Int /\ wn \in Int /\ t \in Int /\ v \in Int /\ s \in Int /\ lo \in Int /\ hi \in Int
          /\ y \in Int
      BY <2>3, <2>5, <2>10, <2>12
    <3> QED BY <3>1, <3>2, ShiftedDown
  <2>14. lo + wb * y \in Nat /\ lo + wb * y < wb * t
    BY <2>3, <2>5, <2>10, <2>12, LowPart
  <2> DEFINE f == v - s * wn
             g == lo + wb * y
  <2>15. z = e * f + g
    BY <2>4, <2>5, <2>6, <2>13 DEF z
  <2>16. f \in Int /\ g \in Nat /\ g < e
    BY <2>4, <2>5, <2>10, <2>14
  <2>17. Value(r, p, k) - s * w = f
    BY <2>5, <2>7, <2>13
  <2> HIDE DEF f, g
  <2>18. z \div e = f
    BY <1>7, <1>8, <2>15, <2>16, ModIs
  <2> QED BY <2>17, <2>18 DEF z, e, w, x
<1> QED BY <1>1, <1>5, <1>9, <1>10

LEMMA RotAmount ==
  ASSUME NEW by \in Nat, NEW k \in Nat, k >= 1, NEW b, b = (by \div (2 * H)) % k
  PROVE  /\ b \in 0..(k - 1)
         /\ by % Bits(k) = Bits(b) + (by % (2 * H))
         /\ Bits(k) - (by % Bits(k)) = Bits(k - b - 1) + (2 * H - (by % (2 * H)))
<1> DEFINE d == 2 * H
           a == by \div d
           e == by % d
           f == a \div k
           n == k - b - 1
<1>1. d \in Nat /\ d > 0
  BY BaseIs
<1>2. a \in Nat /\ e \in Nat /\ e < d /\ by = a * d + e
  <2> HIDE DEF d
  <2>1. by \div d \in Nat /\ by % d \in 0..(d - 1) /\ by = (by \div d) * d + (by % d)
    BY <1>1, DivOf
  <2> QED BY <1>1, <2>1
<1>3. b \in Nat /\ b < k /\ f \in Nat /\ a = f * k + b
  <2>1. b = a % k
    OBVIOUS
  <2> HIDE DEF a
  <2>2. a \div k \in Nat /\ a % k \in 0..(k - 1) /\ a = (a \div k) * k + (a % k)
    BY <1>2, DivOf
  <2> QED BY <2>1, <2>2
<1>4. Bits(k) = d * k /\ Bits(b) = d * b /\ Bits(n) = d * n
  BY DEF Bits
<1> HIDE DEF d, a, e, f
<1>5. n \in Nat /\ k = b + n + 1
  BY <1>3
<1> HIDE DEF n
<1>6. d * k = d * b + d * n + d /\ d * b \in Nat /\ d * n \in Nat /\ d * k \in Nat
  <2>1. d * (b + n + 1) = d * b + d * n + d /\ d * b \in Nat /\ d * n \in Nat
    BY <1>1, <1>3, <1>5
  <2>2. d * k \in Nat
    BY <1>1
  <2> QED BY <1>5, <2>1, <2>2
<1>7. by = (d * k) * f + (d * b + e)
  <2>1. (f * k + b) * d = (d * k) * f + d * b
    BY <1>1, <1>3
  <2> DEFINE x == (d * k) * f
             y == d * b
             z == a * d
  <2>2. x \in Int /\ y \in Int /\ z = x + y /\ by = z + e
    BY <1>1, <1>2, <1>3, <2>1
  <2> HIDE DEF x, y, z
  <2>3. by = x + (y + e)
    BY <1>2, <2>2
  <2> QED BY <2>3 DEF x, y
<1> DEFINE w == d * k
           y == d * b
           z == d * n
           r == y + e
<1>8. w \in Nat /\ y \in Nat /\ z \in Nat /\ w = y + z + d /\ by = w * f + r
  BY <1>6, <1>7
<1> HIDE DEF w, y, z
<1>9. r \in Nat /\ r < w /\ w >= 1 /\ w - r = z + (d - e)
  BY <1>1, <1>2, <1>8
<1> HIDE DEF r
<1>10. by % w = r
  <2>1. f \in Int /\ by \in Int
    BY <1>3
  <2> QED BY <1>8, <1>9, <2>1, ModIs
<1>11. by % w = y + e /\ w - (by % w) = z + (d - e)
  BY <1>9, <1>10 DEF r
<1> QED BY <1>3, <1>4, <1>11 DEF w, y, z, d, e, n

LEMMA RotatedParts ==
  ASSUME NEW wb \in Int, NEW g \in Int, NEW t \in Int, NEW c \in Int, NEW hi \in Int, NEW h \in Int,
         NEW lo \in Int, NEW x \in Int, NEW v \in Int,
         lo = g * c + h, x = lo + (t * g) * hi, v + (wb * (t * g)) * c = t * (hi + wb * lo) + c
  PROVE  /\ x = g * (c + t * hi) + h
         /\ x * (wb * t) = (wb * (t * g)) * (c + t * hi) + wb * (t * h)
         /\ v = wb * (t * h) + (c + t * hi)
<1>1. x = g * (c + t * hi) + h
  <2>1. g * (c + t * hi) = g * c + (t * g) * hi
    OBVIOUS
  <2> DEFINE a == g * c
             b == (t * g) * hi
             z == g * (c + t * hi)
  <2>2. a \in Int /\ b \in Int /\ z = a + b /\ lo = a + h /\ x = lo + b
    BY <2>1
  <2> HIDE DEF a, b, z
  <2>3. x = z + h
    BY <2>2
  <2> QED BY <2>3 DEF z
<1>2. (g * (c + t * hi) + h) * (wb * t) = (wb * (t * g)) * (c + t * hi) + wb * (t * h)
  OBVIOUS
<1>3. t * (hi + wb * lo) = t * hi + (wb * (t * g)) * c + wb * (t * h)
  <2>1. t * (hi + wb * (g * c + h)) = t * hi + (wb * (t * g)) * c + wb * (t * h)
    OBVIOUS
  <2> QED BY <2>1
<1> DEFINE a == (wb * (t * g)) * c
           b == t * hi
           d == wb * (t * h)
           z == t * (hi + wb * lo)
<1>4. a \in Int /\ b \in Int /\ d \in Int /\ v + a = z + c /\ z = b + a + d
  BY <1>3
<1>5. v = d + (c + b)
  <2> HIDE DEF a, b, d, z
  <2> QED BY <1>4
<1> QED BY <1>1, <1>2, <1>5

\* The upper limbs come first, then the lower ones.
Rounded(g, m, q, k, b, n) ==
    /\ Window(g, 0, k)
    /\ \A i \in 0..(b - 1) : g[0 + i] = m[(q + n) + i]
    /\ \A i \in 0..(n - 1) : g[(0 + b) + i] = m[q + i]

LEMMA TurnedLimbs ==
  ASSUME NEW m, NEW q \in Int, NEW k \in Nat, Window(m, q, k), NEW b \in 0..(k - 1)
  PROVE  Rounded(TurnedBy(m, q, k, b), m, q, k, b, k - b)
<1> DEFINE g == TurnedBy(m, q, k, b)
<1>1. \A i \in 0..(k - 1) : g[i] = IF i >= b THEN m[q + (i - b)] ELSE m[q + (i - b + k)]
  BY DEF TurnedBy
<1> HIDE DEF g
<1>2. Window(g, 0, k)
  <2> SUFFICES ASSUME NEW i \in 0..(k - 1) PROVE g[0 + i] \in Limb
    BY DEF Window
  <2>1. 0 + i = i
    OBVIOUS
  <2>2. CASE i >= b
    <3>1. i - b \in 0..(k - 1)
      BY <2>2
    <3>2. g[i] = m[q + (i - b)]
      BY <1>1, <2>2
    <3> QED BY <2>1, <3>1, <3>2 DEF Window
  <2>3. CASE ~(i >= b)
    <3>1. i - b + k \in 0..(k - 1)
      BY <2>3
    <3>2. g[i] = m[q + (i - b + k)]
      BY <1>1, <2>3
    <3> QED BY <2>1, <3>1, <3>2 DEF Window
  <2> QED BY <2>2, <2>3
<1>3. \A i \in 0..(b - 1) : g[0 + i] = m[(q + (k - b)) + i]
  <2> SUFFICES ASSUME NEW i \in 0..(b - 1) PROVE g[0 + i] = m[(q + (k - b)) + i]
    OBVIOUS
  <2>1. i \in 0..(k - 1) /\ ~(i >= b) /\ 0 + i = i /\ (q + (k - b)) + i = q + (i - b + k)
    OBVIOUS
  <2>2. g[i] = m[q + (i - b + k)]
    BY <1>1, <2>1
  <2> QED BY <2>1, <2>2
<1>4. \A i \in 0..((k - b) - 1) : g[(0 + b) + i] = m[q + i]
  <2> SUFFICES ASSUME NEW i \in 0..((k - b) - 1) PROVE g[(0 + b) + i] = m[q + i]
    OBVIOUS
  <2> DEFINE j == b + i
  <2>1. j \in 0..(k - 1) /\ j >= b /\ (0 + b) + i = j /\ j - b = i
    OBVIOUS
  <2> HIDE DEF j
  <2>2. g[j] = m[q + (j - b)]
    BY <1>1, <2>1
  <2> QED BY <2>1, <2>2
<1> QED BY <1>2, <1>3, <1>4 DEF g, Rounded

LEMMA RotValue ==
  ASSUME NEW m, NEW q \in Int, NEW k \in Nat, k >= 1, Window(m, q, k), NEW by \in Nat,
         NEW b, b = (by \div (2 * H)) % k,
         NEW r, NEW p \in Int, Rotated(r, p, TurnedBy(m, q, k, b), k, by)
  PROVE  Value(r, p, k) = ((Value(m, q, k) * Two(by % Bits(k))) % Two(Bits(k)))
                          + Value(m, q, k) \div Two(Bits(k) - (by % Bits(k)))
<1> DEFINE g == TurnedBy(m, q, k, b)
           n == k - b
           t == Two(by % (2 * H))
           u == Two(2 * H - (by % (2 * H)))
           wb == Two(Bits(b))
           wn == Two(Bits(n))
           wl == Two(Bits(n - 1))
           w == Two(Bits(k))
           x == Value(m, q, k)
           lo == Value(m, q, n)
           hi == Value(m, q + n, b)
           low == Value(m, q, n - 1)
           top == m[q + (n - 1)]
           c == top \div u
           l == top % u
           v == Value(r, p, k)
<1>1. /\ b \in 0..(k - 1)
      /\ by % Bits(k) = Bits(b) + (by % (2 * H))
      /\ Bits(k) - (by % Bits(k)) = Bits(k - b - 1) + (2 * H - (by % (2 * H)))
  BY RotAmount
<1>2. n \in Nat /\ n >= 1 /\ n - 1 \in Nat /\ b + n = k /\ n + b = k /\ b \in Nat /\ k - b - 1 = n - 1
  BY <1>1
<1>3. ShiftBy(by, t, u)
  BY ShiftParts
<1>4. t \in Nat /\ t >= 1 /\ u \in Nat /\ u >= 1 /\ Base = t * u
  <2> HIDE DEF t, u
  <2> QED BY <1>3 DEF ShiftBy
<1>5. Two(by % Bits(k)) = wb * t /\ Two(Bits(k) - (by % Bits(k))) = wl * u
  <2> DEFINE e == by % (2 * H)
             f == 2 * H - e
             y == Bits(b)
             z == Bits(n - 1)
  <2>1. e \in Nat /\ e < 2 * H
    BY ShiftBits
  <2>2. f \in Nat
    <3> HIDE DEF e
    <3> QED BY <2>1, BaseIs
  <2>3. y \in Nat /\ z \in Nat
    <3> HIDE DEF n
    <3> QED BY <1>2, BitsIs
  <2>4. by % Bits(k) = y + e /\ Bits(k) - (by % Bits(k)) = z + f
    <3> HIDE DEF n
    <3> QED BY <1>1, <1>2
  <2> HIDE DEF e, f, y, z
  <2>5. Two(y + e) = Two(y) * Two(e) /\ Two(z + f) = Two(z) * Two(f)
    BY <2>1, <2>2, <2>3, TwoSum
  <2> QED BY <2>4, <2>5 DEF e, f, y, z
<1> HIDE DEF n
<1>6. wb \in Nat /\ wb >= 1 /\ wn \in Nat /\ w = wb * wn /\ w \in Nat /\ w >= 1
  BY <1>2, WeightParts, BitsIs
<1>7. wl \in Nat /\ wl >= 1 /\ wn = Base * wl
  <2> DEFINE j == n - 1
  <2>1. j \in Nat /\ n = j + 1
    BY <1>2
  <2> HIDE DEF j
  <2>2. Two(Bits(j)) \in Nat /\ Two(Bits(j)) >= 1 /\ Two(Bits(j + 1)) = Base * Two(Bits(j))
    BY <2>1, BitsIs
  <2> QED BY <2>1, <2>2 DEF j
<1>8. Window(m, q, n) /\ Window(m, q + n, b) /\ x = lo + wn * hi
  <2>1. Window(m, q, n + b)
    BY <1>2
  <2>2. Window(m, q, n) /\ Window(m, q + n, b)
        /\ Value(m, q, n + b) = Value(m, q, n) + Two(Bits(n)) * Value(m, q + n, b)
    BY <1>2, <2>1, ValueSplit
  <2> QED BY <1>2, <2>2
<1>9. Window(m, q, n - 1) /\ lo = low + wl * top /\ top \in Limb
  <2> DEFINE j == n - 1
  <2>1. j \in Nat /\ n = j + 1
    BY <1>2
  <2> HIDE DEF j
  <2>2. Window(m, q, j + 1)
    BY <1>8, <2>1
  <2>3. Window(m, q, j) /\ Value(m, q, j + 1) = Value(m, q, j) + Two(Bits(j)) * m[q + j] /\ m[q + j] \in Limb
    BY <2>1, <2>2, ValueNext
  <2> QED BY <2>1, <2>3 DEF j
<1>10. /\ Window(g, 0, k)
       /\ \A i \in 0..(b - 1) : g[0 + i] = m[(q + n) + i]
       /\ \A i \in 0..(n - 1) : g[(0 + b) + i] = m[q + i]
  <2> HIDE DEF g
  <2>1. Rounded(TurnedBy(m, q, k, b), m, q, k, b, k - b)
    BY <1>1, TurnedLimbs
  <2> QED BY <2>1 DEF g, n, Rounded
<1>11. Rotated(r, p, g, k, by)
  OBVIOUS
<1> HIDE DEF g
<1>12. Value(g, 0, k) = hi + wb * lo
  <2>1. Window(g, 0, b + n)
    BY <1>2, <1>10
  <2>2. Value(g, 0, b + n) = Value(g, 0, b) + Two(Bits(b)) * Value(g, 0 + b, n)
    BY <1>2, <2>1, ValueSplit
  <2>3. Value(g, 0, b) = hi
    <3> DEFINE s == q + n
    <3>1. Window(m, s, b) /\ \A i \in 0..(b - 1) : g[0 + i] = m[s + i]
      BY <1>8, <1>10
    <3> HIDE DEF s
    <3>2. Value(g, 0, b) = Value(m, s, b)
      BY <1>2, <3>1, ValueSame
    <3> QED BY <3>2 DEF s
  <2>4. Value(g, 0 + b, n) = lo
    BY <1>2, <1>8, <1>10, ValueSame
  <2> QED BY <1>2, <2>2, <2>3, <2>4
<1>13. g[k - 1] = top
  <2>1. n - 1 \in 0..(n - 1) /\ (0 + b) + (n - 1) = k - 1
    BY <1>2
  <2> QED BY <1>10, <2>1
<1>14. c \in Nat /\ l \in Nat /\ l < u /\ top = u * c + l
  <2>1. top \in Nat
    BY <1>9, LimbIs
  <2> HIDE DEF top, u
  <2>2. top \div u \in Nat /\ top % u \in 0..(u - 1) /\ top = (top \div u) * u + (top % u)
    BY <1>4, <2>1, DivOf
  <2>3. c \in Nat /\ l \in Nat /\ l < u /\ top = c * u + l
    BY <1>4, <2>2
  <2> HIDE DEF c, l
  <2>4. c * u = u * c
    BY <1>4, <2>3
  <2> QED BY <2>3, <2>4
<1>15. \A i \in 0..(k - 1) : g[i] \in Limb
  <2> SUFFICES ASSUME NEW i \in 0..(k - 1) PROVE g[i] \in Limb
    OBVIOUS
  <2>1. g[0 + i] \in Limb /\ 0 + i = i
    BY <1>10 DEF Window
  <2> QED BY <2>1
<1>16. \A i \in 0..(k - 1) :
         r[p + i] = t * (g[i] % u) + g[IF i = 0 THEN k - 1 ELSE i - 1] \div u /\ r[p + i] \in Limb
  <2> SUFFICES ASSUME NEW i \in 0..(k - 1)
               PROVE  r[p + i] = t * (g[i] % u) + g[IF i = 0 THEN k - 1 ELSE i - 1] \div u /\ r[p + i] \in Limb
    OBVIOUS
  <2> DEFINE j == IF i = 0 THEN k - 1 ELSE i - 1
             y == g[i]
             z == g[j]
  <2>1. j \in 0..(k - 1)
    OBVIOUS
  <2>2. y \in Limb /\ z \in Limb
    BY <1>15, <2>1
  <2>3. r[p + i] = Mixed(Shl(y, by), CrossingUp(z, by), OrBit)
    BY <1>11 DEF Rotated
  <2> HIDE DEF y, z, t, u
  <2>4. Mixed(Shl(y, by), CrossingUp(z, by), OrBit) = t * (y % u) + z \div u
    BY <1>3, <2>2, UpLimb
  <2>5. Mixed(Shl(y, by), CrossingUp(z, by), OrBit) \in Limb
    BY <2>2, ShiftedLimb
  <2> QED BY <2>3, <2>4, <2>5 DEF y, z
<1>17. Window(r, p, k)
  BY <1>16 DEF Window
<1>18. Ups(r, p, g, 0, k, t, u, c)
  <2> SUFFICES ASSUME NEW i \in 0..(k - 1)
               PROVE  r[p + i] = t * (g[0 + i] % u) + (IF i = 0 THEN c ELSE g[0 + i - 1] \div u)
    BY DEF Ups
  <2>1. 0 + i = i /\ 0 + i - 1 = i - 1
    OBVIOUS
  <2>2. r[p + i] = t * (g[i] % u) + g[IF i = 0 THEN k - 1 ELSE i - 1] \div u
    BY <1>16
  <2>3. CASE i = 0
    BY <1>13, <2>1, <2>2, <2>3
  <2>4. CASE i # 0
    BY <2>1, <2>2, <2>4
  <2> QED BY <2>3, <2>4
<1>19. v + w * c = t * Value(g, 0, k) + c
  <2>1. UpOut(g, 0, k, u, c) = c
    <3>1. k # 0 /\ 0 + k - 1 = k - 1
      OBVIOUS
    <3> QED BY <1>13, <3>1 DEF UpOut
  <2> HIDE DEF t, u, c
  <2>2. Value(r, p, k) + Two(Bits(k)) * UpOut(g, 0, k, u, c) = t * Value(g, 0, k) + c
    BY <1>4, <1>10, <1>14, <1>17, <1>18, UpRun
  <2> QED BY <2>1, <2>2
<1>20. lo \in Nat /\ hi \in Nat /\ low \in Nat /\ low < wl /\ x \in Nat /\ v \in Nat
  BY <1>2, <1>8, <1>9, <1>17, ValueRange
<1> HIDE DEF t, u, wb, wn, wl, w, x, lo, hi, low, top, c, l, v
<1> DEFINE G == wl * u
           R == low + wl * l
<1>21. R \in Nat /\ R < G /\ G \in Nat /\ G >= 1
  <2>1. R \in Nat /\ R < G
    BY <1>4, <1>7, <1>14, <1>20, LowPart
  <2>2. G \in Nat
    BY <1>4, <1>7
  <2> HIDE DEF R, G
  <2> QED BY <2>1, <2>2
<1>22. lo = G * c + R
  <2>1. low + wl * (u * c + l) = (wl * u) * c + (low + wl * l)
    <3>1. wl * (u * c + l) = (wl * u) * c + wl * l
      BY <1>4, <1>7, <1>14
    <3> DEFINE a == (wl * u) * c
               d == wl * l
    <3>2. a \in Int /\ d \in Int
      BY <1>4, <1>7, <1>14
    <3>3. low + (a + d) = a + (low + d)
      <4> HIDE DEF a, d
      <4> QED BY <1>20, <3>2
    <3> QED BY <3>1, <3>3
  <2> QED BY <1>9, <1>14, <2>1
<1>23. wn = t * G
  <2>1. (t * u) * wl = t * (wl * u)
    BY <1>4, <1>7
  <2> QED BY <1>4, <1>7, <2>1
<1> HIDE DEF G, R
<1>24. /\ x = G * (c + t * hi) + R
       /\ x * (wb * t) = (wb * (t * G)) * (c + t * hi) + wb * (t * R)
       /\ v = wb * (t * R) + (c + t * hi)
  <2>1. x = lo + (t * G) * hi /\ v + (wb * (t * G)) * c = t * (hi + wb * lo) + c
    BY <1>6, <1>8, <1>12, <1>19, <1>23
  <2>2. wb \in Int /\ G \in Int /\ t \in Int /\ c \in Int /\ hi \in Int /\ R \in Int /\ lo \in Int
        /\ x \in Int /\ v \in Int
    BY <1>4, <1>6, <1>14, <1>20, <1>21
  <2> QED BY <1>22, <2>1, <2>2, RotatedParts
<1> DEFINE f == c + t * hi
           y == wb * (t * R)
           z == x * (wb * t)
<1>25. f \in Int /\ y \in Nat /\ z \in Int
  BY <1>4, <1>6, <1>14, <1>20, <1>21
<1>26. y < w
  <2>1. R * (wb * t) + (wb * t) <= G * (wb * t) /\ R * (wb * t) \in Nat
    <3>1. wb * t \in Nat
      BY <1>4, <1>6
    <3> QED BY <1>21, <3>1, MulMono
  <2>2. R * (wb * t) = y /\ G * (wb * t) = wb * (t * G) /\ wb * t >= 1
    <3>1. R * (wb * t) = y /\ G * (wb * t) = wb * (t * G)
      BY <1>4, <1>6, <1>21
    <3>2. wb * t >= 1
      <4>1. wb * t # 0 /\ wb * t \in Nat
        BY <1>4, <1>6
      <4> QED BY <4>1
    <3> QED BY <3>1, <3>2
  <2> DEFINE s == wb * t
             ys == R * (wb * t)
             ws == G * (wb * t)
  <2>3. s \in Nat /\ s >= 1 /\ ys + s <= ws /\ ys = y /\ ws = w /\ ws \in Int
    BY <1>4, <1>6, <1>21, <1>23, <2>1, <2>2
  <2> HIDE DEF s, ys, ws, y
  <2> QED BY <1>25, <2>3
<1>27. z % w = y
  <2>1. z = w * f + y
    BY <1>6, <1>23, <1>24
  <2> HIDE DEF z, f, y, w
  <2>2. w \in Nat /\ w >= 1 /\ f \in Int /\ y \in Nat /\ y < w /\ z \in Int
    BY <1>6, <1>25, <1>26
  <2> QED BY <2>1, <2>2, ModIs
<1>28. x \div G = f
  <2>1. x = G * f + R
    BY <1>24
  <2> HIDE DEF f, y, z
  <2>2. x \in Int
    BY <1>20
  <2> QED BY <1>21, <1>25, <2>1, <2>2, ModIs
<1>29. v = (z % w) + x \div G
  BY <1>24, <1>27, <1>28
<1>30. v = ((x * Two(by % Bits(k))) % w) + x \div Two(Bits(k) - (by % Bits(k)))
  BY <1>5, <1>29 DEF G
<1> QED BY <1>30 DEF v, x, w

\* A rotation down is one up by the rest.
LEMMA RoundBack ==
  ASSUME NEW k \in Nat, k >= 1, NEW by \in Nat, NEW x \in Nat, x < Two(Bits(k)),
         NEW y, y = (Bits(k) - by) % Bits(k)
  PROVE  ((x * Two(y % Bits(k))) % Two(Bits(k))) + x \div Two(Bits(k) - (y % Bits(k)))
           = x \div Two(by % Bits(k)) + ((x * Two(Bits(k) - (by % Bits(k)))) % Two(Bits(k)))
<1> DEFINE w == Bits(k)
           a == by % w
           f == by \div w
           W == Two(w)
<1>1. w \in Nat /\ w > 0
  BY BitsPositive
<1>2. W \in Nat /\ W >= 1 /\ x < W
  <2>1. x < W
    OBVIOUS
  <2> HIDE DEF w
  <2>2. W \in Nat /\ W >= 1
    BY <1>1, TwoIs
  <2> QED BY <2>1, <2>2
<1> HIDE DEF w
<1>3. a \in Nat /\ a < w /\ f \in Nat /\ by = f * w + a
  <2>1. by \div w \in Nat /\ by % w \in 0..(w - 1) /\ by = (by \div w) * w + (by % w)
    BY <1>1, DivOf
  <2> QED BY <1>1, <2>1
<1> HIDE DEF a, f
<1>4. CASE a = 0
  <2>1. y = 0
    <3> DEFINE z == w - by
               c == 1 - f
    <3>1. z = w * c + 0 /\ z \in Int /\ c \in Int
      <4>1. w - (f * w + 0) = w * (1 - f) + 0
        BY <1>1, <1>3
      <4> QED BY <1>1, <1>3, <1>4, <4>1
    <3> HIDE DEF z, c
    <3>2. z % w = 0
      BY <1>1, <3>1, ModIs
    <3> QED BY <3>2 DEF z, w
  <2>2. y % w = 0 /\ w - 0 = w
    BY <1>1, <2>1
  <2>3. Two(0) = 1
    BY TwoIs
  <2>4. x * 1 = x /\ x % W = x /\ x \div W = 0 /\ x \div 1 = x /\ x + 0 = x
    <3> HIDE DEF W
    <3> QED BY <1>2
  <2>5. (x * W) % W = 0
    <3> DEFINE z == x * W
    <3> HIDE DEF W
    <3>1. z = W * x + 0 /\ z \in Int /\ x \in Int /\ 0 < W
      BY <1>2
    <3>3. W \in Nat /\ W >= 1
      BY <1>2
    <3> HIDE DEF z
    <3>2. z % W = 0
      BY <3>1, <3>3, ModIs
    <3> QED BY <3>2 DEF z
  <2>6. ((x * Two(y % w)) % W) + x \div Two(w - (y % w)) = x
    BY <2>2, <2>3, <2>4
  <2>7. x \div Two(a) + ((x * Two(w - a)) % W) = x
    BY <1>4, <2>2, <2>3, <2>4, <2>5
  <2> QED BY <2>6, <2>7 DEF a, w
<1>5. CASE a # 0
  <2>1. y = w - a
    <3> DEFINE z == w - by
               c == 0 - f
               g == w - a
    <3>1. z = w * c + g /\ z \in Int /\ c \in Int /\ g \in Nat /\ g < w
      <4>1. w - (f * w + a) = w * (0 - f) + (w - a)
        BY <1>1, <1>3
      <4> QED BY <1>1, <1>3, <1>5, <4>1
    <3> HIDE DEF z, c, g
    <3>2. z % w = g
      BY <1>1, <3>1, ModIs
    <3> QED BY <3>2 DEF z, w, g
  <2>2. y % w = w - a /\ w - (w - a) = a
    BY <1>1, <1>3, <1>5, <2>1
  <2>3. ((x * Two(y % w)) % W) + x \div Two(w - (y % w)) = ((x * Two(w - a)) % W) + x \div Two(a)
    BY <2>2
  <2>4. (x * Two(w - a)) % W \in Int /\ x \div Two(a) \in Int
    <3> DEFINE g == w - a
    <3>1. g \in Nat
      BY <1>1, <1>3
    <3> HIDE DEF g, W
    <3>2. Two(g) \in Nat /\ Two(a) \in Nat /\ Two(a) >= 1
      BY <1>3, <3>1, TwoIs
    <3>3. x * Two(g) \in Nat
      BY <3>2
    <3>4. (x * Two(g)) % W \in 0..(W - 1)
      BY <1>2, <3>3, DivOf
    <3>5. x \div Two(a) \in Nat
      BY <3>2, DivOf
    <3> DEFINE s == (x * Two(g)) % W
    <3>6. s \in 0..(W - 1)
      BY <3>4
    <3> HIDE DEF s
    <3>7. s \in Int
      BY <1>2, <3>6
    <3> QED BY <3>5, <3>7 DEF s, g
  <2> DEFINE s == (x * Two(w - a)) % W
             z == x \div Two(a)
  <2>5. s + z = z + s
    <3> HIDE DEF s, z
    <3>1. s \in Int /\ z \in Int
      BY <2>4 DEF s, z
    <3> QED BY <3>1
  <2> QED BY <2>3, <2>5 DEF a, w
<1> QED BY <1>4, <1>5

\* The weights of half limbs
LEMMA HalfWeight ==
  ASSUME NEW i \in Nat, NEW j \in Nat
  PROVE  /\ Two(H * i) \in Nat /\ Two(H * i) >= 1 /\ Two(H * 0) = 1
         /\ Two(H * (i + j)) = Two(H * i) * Two(H * j)
         /\ Two(H * (i + 1)) = Half * Two(H * i)
<1> DEFINE a == H * i
           b == H * j
<1>1. a \in Nat /\ b \in Nat /\ H * (i + j) = a + b /\ H * (i + 1) = H + a /\ H * 0 = 0
  BY BaseIs
<1> HIDE DEF a, b
<1>2. Two(a + b) = Two(a) * Two(b)
  BY <1>1, TwoSum
<1>3. Two(H + a) = Two(H) * Two(a)
  BY <1>1, BaseIs, TwoSum
<1>4. Two(a) \in Nat /\ Two(a) >= 1 /\ Two(0) = 1
  BY <1>1, TwoIs
<1>5. Two(H * (i + 1)) = Half * Two(a)
  BY <1>1, <1>3 DEF Half
<1>6. Two(H * (i + j)) = Two(a) * Two(b)
  BY <1>1, <1>2
<1> QED BY <1>1, <1>4, <1>5, <1>6 DEF a, b

\* Half limbs, weighed
Scaled(a) == [i \in Nat |-> Two(H * i) * a[i]]

LEMMA ScaledTerms ==
  ASSUME NEW n \in Nat, NEW a, Terms(a, n)
  PROVE  Terms(Scaled(a), n)
<1> SUFFICES ASSUME NEW i \in 0..(n - 1) PROVE Scaled(a)[i] \in Int
  BY DEF Terms
<1>1. i \in Nat /\ a[i] \in Int
  BY DEF Terms
<1>2. Two(H * i) \in Nat
  BY <1>1, HalfWeight
<1>3. Scaled(a)[i] = Two(H * i) * a[i]
  BY <1>1 DEF Scaled
<1>4. Two(H * i) * a[i] \in Int
  BY <1>1, <1>2
<1> QED BY <1>3, <1>4

LEMMA ScaledNext ==
  ASSUME NEW n \in Nat, NEW a, Terms(a, n + 1)
  PROVE  /\ Terms(a, n) /\ a[n] \in Int
         /\ SumTo(Scaled(a), n) \in Int
         /\ SumTo(Scaled(a), n + 1) = SumTo(Scaled(a), n) + Two(H * n) * a[n]
<1>1. n + 1 \in Nat /\ n \in 0..(n + 1)
  OBVIOUS
<1>2. Terms(Scaled(a), n + 1) /\ Terms(a, n)
  BY <1>1, ScaledTerms, TermsBelow
<1>3. /\ SumTo(Scaled(a), n + 1) = SumTo(Scaled(a), n) + Scaled(a)[n]
      /\ SumTo(Scaled(a), n) \in Int
  BY <1>2, SumNext
<1>4. Scaled(a)[n] = Two(H * n) * a[n]
  BY DEF Scaled
<1>5. a[n] \in Int
  BY DEF Terms
<1> QED BY <1>2, <1>3, <1>4, <1>5

LEMMA TailDivides ==
  ASSUME NEW n \in Nat, NEW a, Terms(a, n), NEW s \in 0..n
  PROVE  \E e \in Int : SumTo(Scaled(a), n) = SumTo(Scaled(a), s) + Two(H * s) * e
<1> DEFINE S(i) == SumTo(Scaled(a), i)
           w == Two(H * s)
           P == {j \in 0..(n - s) : \E e \in Int : S(s + j) = S(s) + w * e}
<1>0. s \in Nat /\ n - s \in Nat
  OBVIOUS
<1>1. w \in Nat
  BY <1>0, HalfWeight
<1>2. S(s) \in Int
  BY <1>0, TermsBelow, ScaledTerms, SumIsInt
<1>3. 0 \in P
  <2>1. s + 0 = s
    BY <1>0
  <2> HIDE DEF S, w
  <2>2. S(s + 0) = S(s) + w * 0
    BY <1>1, <1>2, <2>1
  <2> QED BY <1>0, <2>2
<1>4. ASSUME NEW j \in Nat, j < n - s, j \in P PROVE j + 1 \in P
  <2>1. PICK e \in Int : S(s + j) = S(s) + w * e
    BY <1>4
  <2> DEFINE i == s + j
             g == Two(H * j)
  <2>2. i \in Nat /\ i + 1 \in 0..n /\ s + (j + 1) = i + 1
    BY <1>0, <1>4
  <2>3. Two(H * i) = w * g /\ g \in Nat
    BY <1>0, HalfWeight
  <2> HIDE DEF i
  <2>4. Terms(a, i + 1)
    BY <2>2, TermsBelow
  <2>5. S(i + 1) = S(i) + Two(H * i) * a[i] /\ a[i] \in Int
    BY <2>2, <2>4, ScaledNext
  <2>6. S(i) = S(s) + w * e
    BY <2>1 DEF i
  <2> DEFINE c == a[i]
             f == e + g * c
  <2>7. c \in Int
    BY <2>5
  <2> HIDE DEF w, g, c
  <2>8. w * e + (w * g) * c = w * f /\ f \in Int
    BY <1>1, <2>3, <2>7
  <2> DEFINE x == w * e
             y == (w * g) * c
             z == w * f
             b == S(s)
  <2>9. x \in Int /\ y \in Int /\ z \in Int /\ x + y = z /\ b \in Int
    BY <1>1, <1>2, <2>3, <2>7, <2>8
  <2>10. S(i + 1) = (b + x) + y
    BY <2>3, <2>5, <2>6 DEF c
  <2> HIDE DEF x, y, z, b, S
  <2>11. S(i + 1) = b + z
    BY <2>9, <2>10
  <2>12. S(s + (j + 1)) = S(s) + w * f
    BY <2>2, <2>11 DEF b, z
  <2>13. j + 1 \in 0..(n - s)
    BY <1>4
  <2> HIDE DEF f
  <2> QED BY <2>8, <2>12, <2>13
<1>5. \A j \in 0..(n - s) : j \in P
  <2> HIDE DEF P
  <2> QED BY <1>0, <1>3, <1>4, UpTo
<1>6. n - s \in P /\ s + (n - s) = n
  BY <1>0, <1>5
<1> QED BY <1>6

\* Long multiplication, by rows and by columns
Crossed(a, c, j) == [i \in 0..j |-> a[i] * c[j - i]]
Diagonal(a, c) == [j \in Nat |-> Two(H * j) * SumTo(Crossed(a, c, j), j + 1)]
Rows(a, c, n) == [i \in Nat |-> Two(H * i) * (a[i] * SumTo(Scaled(c), n - i))]

LEMMA CrossedTerms ==
  ASSUME NEW n \in Nat, NEW a, NEW c, Terms(a, n), Terms(c, n), NEW j \in 0..(n - 1)
  PROVE  Terms(Crossed(a, c, j), j + 1) /\ SumTo(Crossed(a, c, j), j + 1) \in Int
<1>1. Terms(Crossed(a, c, j), j + 1)
  <2> SUFFICES ASSUME NEW i \in 0..((j + 1) - 1) PROVE Crossed(a, c, j)[i] \in Int
    BY DEF Terms
  <2>1. i \in 0..j /\ i \in 0..(n - 1) /\ j - i \in 0..(n - 1)
    OBVIOUS
  <2>2. a[i] \in Int /\ c[j - i] \in Int
    BY <2>1 DEF Terms
  <2>3. Crossed(a, c, j)[i] = a[i] * c[j - i]
    BY <2>1 DEF Crossed
  <2>4. a[i] * c[j - i] \in Int
    BY <2>2
  <2> QED BY <2>3, <2>4
<1>2. j + 1 \in Nat
  OBVIOUS
<1> QED BY <1>1, <1>2, SumIsInt

LEMMA DiagonalTerms ==
  ASSUME NEW n \in Nat, NEW a, NEW c, Terms(a, n), Terms(c, n)
  PROVE  Terms(Diagonal(a, c), n)
<1> SUFFICES ASSUME NEW j \in 0..(n - 1) PROVE Diagonal(a, c)[j] \in Int
  BY DEF Terms
<1> DEFINE s == SumTo(Crossed(a, c, j), j + 1)
<1>1. j \in Nat
  OBVIOUS
<1>2. s \in Int
  BY CrossedTerms
<1>3. Diagonal(a, c)[j] = Two(H * j) * s
  BY <1>1 DEF Diagonal
<1>4. Two(H * j) \in Nat
  BY <1>1, HalfWeight
<1> HIDE DEF s
<1>5. Two(H * j) * s \in Int
  BY <1>2, <1>4
<1> QED BY <1>3, <1>5

LEMMA RowsTerms ==
  ASSUME NEW n \in Nat, NEW a, NEW c, Terms(a, n), Terms(c, n)
  PROVE  Terms(Rows(a, c, n), n)
<1> SUFFICES ASSUME NEW i \in 0..(n - 1) PROVE Rows(a, c, n)[i] \in Int
  BY DEF Terms
<1> DEFINE s == SumTo(Scaled(c), n - i)
           z == n - i
<1>1. i \in Nat /\ a[i] \in Int /\ z \in 0..n /\ z \in Nat
  BY DEF Terms
<1>2. s \in Int
  <2>1. Terms(c, z)
    <3> HIDE DEF z
    <3> QED BY <1>1, TermsBelow
  <2> HIDE DEF z
  <2>2. SumTo(Scaled(c), z) \in Int
    BY <1>1, <2>1, ScaledTerms, SumIsInt
  <2> QED BY <2>2 DEF z
<1>3. Rows(a, c, n)[i] = Two(H * i) * (a[i] * s)
  BY <1>1 DEF Rows
<1>4. Two(H * i) \in Nat
  BY <1>1, HalfWeight
<1> HIDE DEF s
<1>5. Two(H * i) * (a[i] * s) \in Int
  BY <1>1, <1>2, <1>4
<1> QED BY <1>3, <1>5

\* A row grows by one product when the numbers grow by a half limb.
LEMMA RowGrows ==
  ASSUME NEW n \in Nat, NEW a, NEW c, Terms(a, n + 1), Terms(c, n + 1), NEW i \in 0..n
  PROVE  Rows(a, c, n + 1)[i] = Two(H * i) * (a[i] * SumTo(Scaled(c), n - i))
                                + Two(H * n) * (a[i] * c[n - i])
<1> DEFINE j == n - i
           s == SumTo(Scaled(c), j)
           w == Two(H * i)
           g == Two(H * j)
<1>1. i \in Nat /\ j \in Nat /\ i + j = n /\ j + 1 \in 0..(n + 1) /\ (n + 1) - i = j + 1
  OBVIOUS
<1> HIDE DEF j
<1>2. Terms(c, j + 1)
  BY <1>1, TermsBelow
<1>3. SumTo(Scaled(c), j + 1) = s + g * c[j] /\ s \in Int /\ c[j] \in Int
  BY <1>1, <1>2, ScaledNext
<1>4. a[i] \in Int
  BY DEF Terms
<1>5. Two(H * n) = w * g /\ w \in Nat /\ g \in Nat
  BY <1>1, HalfWeight
<1>6. Rows(a, c, n + 1)[i] = w * (a[i] * SumTo(Scaled(c), j + 1))
  BY <1>1 DEF Rows
<1> DEFINE x == a[i]
           y == c[j]
<1>7. x \in Int /\ y \in Int
  BY <1>3, <1>4
<1> HIDE DEF x, y, s, w, g
<1>8. w * (x * (s + g * y)) = w * (x * s) + (w * g) * (x * y)
  BY <1>3, <1>5, <1>7
<1> QED BY <1>3, <1>5, <1>6, <1>8 DEF x, y, s, w, j

LEMMA RowsAre ==
  ASSUME NEW n \in Nat, NEW a, NEW c, Terms(a, n), Terms(c, n)
  PROVE  SumTo(Rows(a, c, n), n) = SumTo(Diagonal(a, c), n)
<1> DEFINE P == {j \in 0..n : SumTo(Rows(a, c, j), j) = SumTo(Diagonal(a, c), j)}
<1>1. 0 \in P
  BY SumNone
<1>2. ASSUME NEW j \in Nat, j < n, j \in P PROVE j + 1 \in P
  <2> DEFINE w == Two(H * j)
             pr == Crossed(a, c, j)
             ex == [i \in Nat |-> w * (a[i] * c[j - i])]
  <2>1. j + 1 \in 0..n /\ j + 1 \in Nat /\ j \in 0..n /\ j \in 0..(n - 1) /\ j \in 0..((j + 1) - 1)
    BY <1>2
  <2>2. Terms(a, j + 1) /\ Terms(c, j + 1) /\ Terms(a, j) /\ Terms(c, j)
    BY <2>1, TermsBelow
  <2>3. w \in Nat
    BY HalfWeight
  <2>4. \A i \in 0..j : pr[i] = a[i] * c[j - i] /\ pr[i] \in Int /\ a[i] \in Int
    <3> SUFFICES ASSUME NEW i \in 0..j PROVE pr[i] = a[i] * c[j - i] /\ pr[i] \in Int /\ a[i] \in Int
      OBVIOUS
    <3>1. i \in 0..((j + 1) - 1) /\ j - i \in 0..((j + 1) - 1)
      OBVIOUS
    <3>2. a[i] \in Int /\ c[j - i] \in Int
      BY <2>2, <3>1 DEF Terms
    <3>3. pr[i] = a[i] * c[j - i]
      BY DEF Crossed
    <3>4. a[i] * c[j - i] \in Int
      BY <3>2
    <3> QED BY <3>2, <3>3, <3>4
  <2>5. Terms(pr, j + 1) /\ Terms(pr, j)
    BY <2>4 DEF Terms
  <2> HIDE DEF pr
  <2>6. SumTo(pr, j + 1) = SumTo(pr, j) + pr[j] /\ SumTo(pr, j) \in Int
    BY <2>5, SumNext
  <2>7. \A i \in 0..(j - 1) : ex[i] = w * pr[i]
    <3> SUFFICES ASSUME NEW i \in 0..(j - 1) PROVE ex[i] = w * pr[i]
      OBVIOUS
    <3>1. i \in Nat /\ i \in 0..j
      OBVIOUS
    <3> HIDE DEF w
    <3> QED BY <2>4, <3>1
  <2> HIDE DEF w, ex
  <2>8. SumTo(ex, j) = w * SumTo(pr, j)
    BY <2>3, <2>5, <2>7, SumTimes
  <2>9. Terms(ex, j)
    <3> SUFFICES ASSUME NEW i \in 0..(j - 1) PROVE ex[i] \in Int
      BY DEF Terms
    <3>1. ex[i] = w * pr[i] /\ pr[i] \in Int
      BY <2>5, <2>7 DEF Terms
    <3>2. w * pr[i] \in Int
      BY <2>3, <3>1
    <3> QED BY <3>1, <3>2
  <2> DEFINE rj == Rows(a, c, j)
             rn == Rows(a, c, j + 1)
             dg == Diagonal(a, c)
  <2>10. Terms(rj, j) /\ Terms(rn, j + 1) /\ Terms(dg, j + 1)
    BY <2>1, <2>2, RowsTerms, DiagonalTerms
  <2>11. \A i \in 0..(j - 1) : rn[i] = rj[i] + ex[i]
    <3> SUFFICES ASSUME NEW i \in 0..(j - 1) PROVE rn[i] = rj[i] + ex[i]
      OBVIOUS
    <3>1. i \in 0..j /\ i \in Nat
      OBVIOUS
    <3>2. rn[i] = Two(H * i) * (a[i] * SumTo(Scaled(c), j - i)) + Two(H * j) * (a[i] * c[j - i])
      BY <2>2, <3>1, RowGrows
    <3>3. rj[i] = Two(H * i) * (a[i] * SumTo(Scaled(c), j - i))
      BY <3>1 DEF Rows
    <3>4. ex[i] = Two(H * j) * (a[i] * c[j - i])
      BY <3>1 DEF ex, w
    <3> QED BY <3>2, <3>3, <3>4
  <2>12. rn[j] = w * pr[j]
    <3> DEFINE x == a[j]
               y == c[0]
    <3>1. j \in 0..j /\ j - j = 0
      OBVIOUS
    <3>2. rn[j] = Two(H * j) * (a[j] * SumTo(Scaled(c), 0)) + Two(H * j) * (a[j] * c[0])
      <4>1. rn[j] = Two(H * j) * (a[j] * SumTo(Scaled(c), j - j)) + Two(H * j) * (a[j] * c[j - j])
        BY <2>2, <3>1, RowGrows
      <4> QED BY <3>1, <4>1
    <3>3. SumTo(Scaled(c), 0) = 0
      BY SumNone
    <3>4. pr[j] = x * y /\ x \in Int
      BY <2>4, <3>1
    <3>5. y \in Int
      <4>1. 0 \in 0..((j + 1) - 1)
        OBVIOUS
      <4> QED BY <2>2, <4>1 DEF Terms
    <3>6. rn[j] = w * (x * 0) + w * (x * y)
      BY <3>2, <3>3 DEF w
    <3> HIDE DEF x, y, rn
    <3>7. w * (x * 0) + w * (x * y) = w * (x * y)
      BY <2>3, <3>4, <3>5
    <3> QED BY <3>4, <3>6, <3>7
  <2>13. dg[j] = w * SumTo(pr, j + 1)
    BY DEF Diagonal, pr, w
  <2>14. SumTo(rj, j) = SumTo(dg, j)
    BY <1>2
  <2> HIDE DEF rj, rn, dg
  <2>15. SumTo(rn, j) = SumTo(rj, j) + SumTo(ex, j)
    BY <2>9, <2>10, <2>11, SumPlus
  <2>16. SumTo(rn, j + 1) = SumTo(rn, j) + rn[j]
    BY <2>10, SumNext
  <2>17. SumTo(dg, j + 1) = SumTo(dg, j) + dg[j] /\ SumTo(dg, j) \in Int
    BY <2>10, SumNext
  <2>18. w * SumTo(pr, j + 1) = w * SumTo(pr, j) + w * pr[j]
         /\ w * SumTo(pr, j) \in Int /\ w * pr[j] \in Int
    <3> DEFINE x == SumTo(pr, j)
               y == pr[j]
    <3>1. x \in Int /\ y \in Int /\ SumTo(pr, j + 1) = x + y
      BY <2>4, <2>6
    <3> HIDE DEF x, y
    <3>2. w * (x + y) = w * x + w * y /\ w * x \in Int /\ w * y \in Int
      BY <2>3, <3>1
    <3> QED BY <3>1, <3>2 DEF x, y
  <2> DEFINE d == SumTo(dg, j)
             f == w * SumTo(pr, j)
             g == w * pr[j]
  <2>19. SumTo(rn, j + 1) = (d + f) + g
    BY <2>8, <2>12, <2>14, <2>15, <2>16
  <2>20. SumTo(dg, j + 1) = d + (f + g)
    BY <2>13, <2>17, <2>18
  <2>21. d \in Int /\ f \in Int /\ g \in Int
    BY <2>17, <2>18
  <2> HIDE DEF d, f, g
  <2>22. SumTo(rn, j + 1) = SumTo(dg, j + 1)
    BY <2>19, <2>20, <2>21
  <2> QED BY <2>1, <2>22 DEF rn, dg
<1>3. \A j \in 0..n : j \in P
  <2> HIDE DEF P
  <2> QED BY <1>1, <1>2, UpTo
<1>4. n \in P
  BY <1>3
<1> QED BY <1>4

LEMMA TermTail ==
  ASSUME NEW w \in Int, NEW g \in Int, NEW x \in Int, NEW y \in Int, NEW e \in Int, NEW s \in Int,
         s = y + g * e
  PROVE  s * (w * x) = w * (x * y) + (w * g) * (x * e)
<1>1. (y + g * e) * (w * x) = w * (x * y) + (w * g) * (x * e)
  OBVIOUS
<1> QED BY <1>1

\* What the columns leave out is past the last half limb.
LEMMA ProductIs ==
  ASSUME NEW n \in Nat, NEW a, NEW c, Terms(a, n), Terms(c, n)
  PROVE  \E e \in Int : SumTo(Scaled(a), n) * SumTo(Scaled(c), n)
                          = SumTo(Diagonal(a, c), n) + Two(H * n) * e
<1> DEFINE sa == Scaled(a)
           s == SumTo(Scaled(c), n)
           w == Two(H * n)
           Rest(i, e) == e \in Int /\ s = SumTo(Scaled(c), n - i) + Two(H * (n - i)) * e
           tail == [i \in Nat |-> CHOOSE e : Rest(i, e)]
           rest == [i \in Nat |-> a[i] * tail[i]]
           past == [i \in Nat |-> w * rest[i]]
           all == [i \in Nat |-> s * sa[i]]
           rows == Rows(a, c, n)
<1>1. w \in Nat
  BY HalfWeight
<1>2. s \in Int /\ Terms(sa, n) /\ Terms(rows, n)
  BY ScaledTerms, RowsTerms, SumIsInt
<1>3. \A i \in 0..(n - 1) : Rest(i, tail[i])
  <2> SUFFICES ASSUME NEW i \in 0..(n - 1) PROVE Rest(i, tail[i])
    OBVIOUS
  <2>1. i \in Nat /\ n - i \in 0..n
    OBVIOUS
  <2>2. \E e \in Int : s = SumTo(Scaled(c), n - i) + Two(H * (n - i)) * e
    BY <2>1, TailDivides
  <2>3. \E e : Rest(i, e)
    BY <2>2
  <2>4. tail[i] = CHOOSE e : Rest(i, e)
    BY <2>1
  <2> HIDE DEF Rest, tail
  <2> QED BY <2>3, <2>4, Zenon
<1> HIDE DEF tail
<1>4. \A i \in 0..(n - 1) : rest[i] \in Int /\ past[i] = w * rest[i] /\ all[i] = rows[i] + past[i]
                            /\ all[i] = s * sa[i]
  <2> SUFFICES ASSUME NEW i \in 0..(n - 1)
               PROVE  rest[i] \in Int /\ past[i] = w * rest[i] /\ all[i] = rows[i] + past[i]
                      /\ all[i] = s * sa[i]
    OBVIOUS
  <2> DEFINE z == n - i
             v == Two(H * i)
             g == Two(H * z)
             x == a[i]
             y == SumTo(Scaled(c), z)
             e == tail[i]
  <2>1. i \in Nat /\ z \in Nat /\ z \in 0..n /\ i + z = n
    OBVIOUS
  <2>2. e \in Int /\ s = y + g * e
    BY <1>3
  <2>3. x \in Int
    BY DEF Terms
  <2> HIDE DEF z
  <2>4. w = v * g /\ v \in Nat /\ g \in Nat
    BY <2>1, HalfWeight
  <2>5. y \in Int
    <3>1. Terms(c, z)
      BY <2>1, TermsBelow
    <3> QED BY <2>1, <3>1, ScaledTerms, SumIsInt
  <2>6. sa[i] = v * x
    BY <2>1 DEF Scaled
  <2>7. rows[i] = v * (x * y)
    BY <2>1 DEF Rows, z
  <2>8. rest[i] = x * e
    BY <2>1
  <2>9. past[i] = w * rest[i] /\ all[i] = s * sa[i]
    BY <2>1
  <2> HIDE DEF past, all, rest, rows, sa, v, g, x, y, e, s, w
  <2>10. s * (v * x) = v * (x * y) + (v * g) * (x * e)
    <3>1. v \in Int /\ g \in Int
      BY <2>4
    <3> QED BY <1>2, <2>2, <2>3, <2>5, <3>1, TermTail
  <2>11. x * e \in Int
    BY <2>2, <2>3
  <2> QED BY <2>4, <2>6, <2>7, <2>8, <2>9, <2>10, <2>11
<1> HIDE DEF past, all, rest, rows, sa, s, w
<1>5. Terms(rest, n)
  BY <1>4 DEF Terms
<1>6. SumTo(past, n) = w * SumTo(rest, n) /\ Terms(past, n)
  <2>1. SumTo(past, n) = w * SumTo(rest, n)
    BY <1>1, <1>4, <1>5, SumTimes
  <2>2. Terms(past, n)
    <3> SUFFICES ASSUME NEW i \in 0..(n - 1) PROVE past[i] \in Int
      BY DEF Terms
    <3>1. rest[i] \in Int /\ past[i] = w * rest[i]
      BY <1>4
    <3>2. w * rest[i] \in Int
      BY <1>1, <3>1
    <3> QED BY <3>1, <3>2
  <2> QED BY <2>1, <2>2
<1>7. SumTo(all, n) = SumTo(rows, n) + SumTo(past, n)
  BY <1>2, <1>4, <1>6, SumPlus
<1>8. SumTo(all, n) = s * SumTo(sa, n)
  BY <1>2, <1>4, SumTimes
<1>9. SumTo(rows, n) = SumTo(Diagonal(a, c), n)
  BY RowsAre DEF rows
<1>10. SumTo(rest, n) \in Int /\ SumTo(sa, n) \in Int
  BY <1>2, <1>5, SumIsInt
<1>11. SumTo(sa, n) * s = s * SumTo(sa, n)
  BY <1>2, <1>10
<1>12. SumTo(sa, n) * s = SumTo(Diagonal(a, c), n) + w * SumTo(rest, n)
  BY <1>6, <1>7, <1>8, <1>9, <1>11
<1> QED BY <1>10, <1>12 DEF sa, s, w

\* The carry goes from column to column.
Carrying(f, a, c, n) ==
    /\ \A j \in 0..(n - 1) : f[j] \in Int
    /\ \A j \in 0..(n - 1) :
         f[j] = SumTo(Crossed(a, c, j), j + 1) + (IF j = 0 THEN 0 ELSE f[j - 1] \div Half)
CarryInto(f, j) == IF j = 0 THEN 0 ELSE f[j - 1] \div Half
LowHalves(f) == [j \in Nat |-> f[j] % Half]

LEMMA LowTerms ==
  ASSUME NEW n \in Nat, NEW f, \A j \in 0..(n - 1) : f[j] \in Int
  PROVE  Terms(LowHalves(f), n)
<1> SUFFICES ASSUME NEW j \in 0..(n - 1) PROVE LowHalves(f)[j] \in Int
  BY DEF Terms
<1>1. j \in Nat /\ f[j] \in Int
  OBVIOUS
<1>2. (f[j] % Half) \in 0..(Half - 1)
  BY <1>1, HalfDivInt
<1>3. f[j] % Half \in Int
  <2> DEFINE x == f[j] % Half
  <2>1. x \in 0..(Half - 1)
    BY <1>2
  <2> HIDE DEF x
  <2>2. x \in Int
    BY <2>1, BaseIs
  <2> QED BY <2>2 DEF x
<1> QED BY <1>1, <1>3 DEF LowHalves

LEMMA HalvesStep ==
  ASSUME NEW v \in Int, NEW d \in Int, NEW w \in Int, NEW b \in Int, NEW l \in Int, NEW q \in Int,
         NEW s \in Int, NEW o \in Int, v + w * o = d, b * q + l = s + o
  PROVE  (v + w * l) + (b * w) * q = d + w * s
<1>1. w * (b * q + l) = (b * w) * q + w * l /\ w * (s + o) = w * s + w * o
  OBVIOUS
<1> DEFINE e == (b * w) * q
           f == w * l
           g == w * s
           h == w * o
<1>2. e \in Int /\ f \in Int /\ g \in Int /\ h \in Int /\ e + f = g + h /\ v + h = d
  BY <1>1
<1>3. (v + f) + e = d + g
  <2> HIDE DEF e, f, g, h
  <2> QED BY <1>2
<1> QED BY <1>3

LEMMA CarryHalves ==
  ASSUME NEW n \in Nat, NEW a, NEW c, Terms(a, n), Terms(c, n), NEW f, Carrying(f, a, c, n)
  PROVE  /\ SumTo(Scaled(LowHalves(f)), n) + Two(H * n) * CarryInto(f, n) = SumTo(Diagonal(a, c), n)
         /\ CarryInto(f, n) \in Int
<1> DEFINE h == LowHalves(f)
           dg == Diagonal(a, c)
           V(j) == SumTo(Scaled(h), j)
           D(j) == SumTo(dg, j)
           P == {j \in 0..n : V(j) + Two(H * j) * CarryInto(f, j) = D(j) /\ CarryInto(f, j) \in Int}
<1>0. Terms(h, n) /\ Terms(dg, n) /\ \A j \in 0..(n - 1) : f[j] \in Int
  <2>1. \A j \in 0..(n - 1) : f[j] \in Int
    BY DEF Carrying
  <2> QED BY <2>1, LowTerms, DiagonalTerms
<1>1. 0 \in P
  <2>1. V(0) = 0 /\ D(0) = 0
    BY SumNone
  <2>2. CarryInto(f, 0) = 0
    BY DEF CarryInto
  <2>3. Two(H * 0) = 1
    BY HalfWeight
  <2>4. 0 + 1 * 0 = 0
    OBVIOUS
  <2> QED BY <2>1, <2>2, <2>3, <2>4
<1> HIDE DEF h
<1>2. ASSUME NEW j \in Nat, j < n, j \in P PROVE j + 1 \in P
  <2> DEFINE w == Two(H * j)
             o == CarryInto(f, j)
             q == f[j] \div Half
             l == f[j] % Half
             s == SumTo(Crossed(a, c, j), j + 1)
  <2>1. j + 1 \in 0..n /\ j + 1 \in Nat /\ j \in 0..(n - 1)
    BY <1>2
  <2>2. Terms(h, j + 1) /\ Terms(dg, j + 1)
    BY <1>0, <2>1, TermsBelow
  <2>3. f[j] \in Int
    BY <1>0, <2>1
  <2>4. f[j] = s + o
    BY <2>1 DEF Carrying, CarryInto
  <2>5. q \in Int /\ l \in Int /\ f[j] = Half * q + l
    <3>1. f[j] \div Half \in Int /\ (f[j] % Half) \in 0..(Half - 1)
          /\ f[j] = Half * (f[j] \div Half) + (f[j] % Half)
      BY <2>3, HalfDivInt
    <3>2. l \in Int
      <4>1. l \in 0..(Half - 1)
        BY <3>1
      <4> HIDE DEF l
      <4> QED BY <4>1, BaseIs
    <3> QED BY <3>1, <3>2
  <2>6. V(j + 1) = V(j) + w * h[j] /\ V(j) \in Int
    BY <2>2, ScaledNext
  <2>7. h[j] = l
    BY DEF h, LowHalves
  <2>8. D(j + 1) = D(j) + dg[j] /\ D(j) \in Int
    <3> HIDE DEF dg
    <3> QED BY <2>2, SumNext
  <2>9. dg[j] = w * s
    BY DEF Diagonal
  <2>10. CarryInto(f, j + 1) = q
    <3>1. j + 1 # 0 /\ (j + 1) - 1 = j
      OBVIOUS
    <3> QED BY <3>1 DEF CarryInto
  <2>11. w \in Nat /\ Two(H * (j + 1)) = Half * w
    BY HalfWeight
  <2>12. s \in Int
    BY <2>1, CrossedTerms
  <2>13. V(j) + w * o = D(j) /\ o \in Int
    BY <1>2
  <2>14. Half \in Int
    BY BaseIs
  <2> HIDE DEF w, o, q, l, s, dg, V, D
  <2>15. (V(j) + w * l) + (Half * w) * q = D(j) + w * s
    <3> DEFINE v == V(j)
               d == D(j)
               b == Half
    <3>1. v \in Int /\ d \in Int /\ b \in Int /\ w \in Int /\ v + w * o = d /\ b * q + l = s + o
      BY <2>4, <2>5, <2>6, <2>8, <2>11, <2>13, <2>14
    <3> HIDE DEF v, d, b
    <3>2. (v + w * l) + (b * w) * q = d + w * s
      BY <2>5, <2>12, <2>13, <3>1, HalvesStep
    <3> QED BY <3>2 DEF v, d, b
  <2>16. V(j + 1) + Two(H * (j + 1)) * CarryInto(f, j + 1) = D(j + 1)
    BY <2>6, <2>7, <2>8, <2>9, <2>10, <2>11, <2>15
  <2> QED BY <2>1, <2>5, <2>10, <2>16
<1>3. \A j \in 0..n : j \in P
  <2> HIDE DEF P
  <2> QED BY <1>1, <1>2, UpTo
<1>4. n \in P
  BY <1>3
<1> QED BY <1>4 DEF h

LEMMA Parity ==
  ASSUME NEW k \in Nat, NEW j \in 0..(2 * k - 1)
  PROVE  \E i \in 0..(k - 1) : j = 2 * i \/ j = 2 * i + 1
<1> DEFINE i == j \div 2
           e == j % 2
<1>1. i \in Nat /\ e \in 0..1 /\ j = 2 * i + e
  OBVIOUS
<1> HIDE DEF i, e
<1>2. i \in 0..(k - 1) /\ (j = 2 * i \/ j = 2 * i + 1)
  BY <1>1
<1> QED BY <1>2

\* The number that pairs of half limbs make
LEMMA PairedValue ==
  ASSUME NEW k \in Nat, NEW h, HalfLimbs(h, k)
  PROVE  /\ Window(Paired(h, k), 0, k) /\ Terms(h, 2 * k)
         /\ Value(Paired(h, k), 0, k) = SumTo(Scaled(h), 2 * k)
<1> DEFINE w == Paired(h, k)
<1>1. \A i \in 0..(k - 1) : w[i] = h[2 * i] + Half * h[2 * i + 1] /\ w[i] \in Limb
  BY PairedLimbs
<1> HIDE DEF w
<1>2. Window(w, 0, k)
  <2>1. \A i \in 0..(k - 1) : 0 + i = i
    OBVIOUS
  <2> QED BY <1>1, <2>1 DEF Window
<1>3. \A j \in 0..(2 * k - 1) : HalfOf(w, 0, j) = h[j] /\ h[j] \in Int
  <2> SUFFICES ASSUME NEW j \in 0..(2 * k - 1) PROVE HalfOf(w, 0, j) = h[j] /\ h[j] \in Int
    OBVIOUS
  <2>1. PICK i \in 0..(k - 1) : j = 2 * i \/ j = 2 * i + 1
    BY Parity
  <2> DEFINE x == h[2 * i]
             y == h[2 * i + 1]
             l == w[0 + i]
             b == Half
  <2>2. i \in Nat /\ 2 * i \in 0..(2 * k - 1) /\ 2 * i + 1 \in 0..(2 * k - 1) /\ 0 + i = i
    OBVIOUS
  <2>3. x \in 0..(b - 1) /\ y \in 0..(b - 1)
    BY <2>2 DEF HalfLimbs
  <2>4. l = x + b * y
    BY <1>1, <2>2
  <2>5. HalfOf(w, 0, 2 * i) = l % b /\ HalfOf(w, 0, 2 * i + 1) = l \div b
    BY <2>2, HalvesAt
  <2>6. b \in Nat /\ b >= 1
    BY BaseIs
  <2> HIDE DEF x, y, l, b
  <2>7. x \in Nat /\ x < b /\ y \in Int /\ l = b * y + x /\ l \in Int
    <3>1. x \in Nat /\ x < b /\ y \in Nat
      BY <2>3, <2>6
    <3>2. x + b * y = b * y + x /\ b * y \in Int
      BY <2>6, <3>1
    <3> QED BY <2>4, <3>1, <3>2
  <2>8. l % b = x /\ l \div b = y
    BY <2>6, <2>7, ModIs
  <2>9. CASE j = 2 * i
    BY <2>5, <2>7, <2>8, <2>9 DEF x
  <2>10. CASE j = 2 * i + 1
    BY <2>5, <2>7, <2>8, <2>10 DEF y
  <2> QED BY <2>1, <2>9, <2>10
<1>4. Terms(h, 2 * k)
  BY <1>3 DEF Terms
<1>5. SumTo(HalvesOf(w, 0), 2 * k) = Value(w, 0, k) /\ Terms(HalvesOf(w, 0), 2 * k)
  BY <1>2, ValueOfHalves
<1>6. \A j \in 0..(2 * k - 1) : HalvesOf(w, 0)[j] = Scaled(h)[j]
  <2> SUFFICES ASSUME NEW j \in 0..(2 * k - 1) PROVE HalvesOf(w, 0)[j] = Scaled(h)[j]
    OBVIOUS
  <2>1. j \in Nat
    OBVIOUS
  <2> QED BY <1>3, <2>1 DEF HalvesOf, Scaled
<1>7. SumTo(HalvesOf(w, 0), 2 * k) = SumTo(Scaled(h), 2 * k)
  <2> DEFINE n == 2 * k
             u == HalvesOf(w, 0)
             v == Scaled(h)
  <2>1. n \in Nat /\ Terms(u, n) /\ \A j \in 0..(n - 1) : u[j] = v[j]
    BY <1>5, <1>6
  <2> HIDE DEF n, u, v
  <2>2. SumTo(u, n) = SumTo(v, n)
    BY <2>1, SumSame
  <2> QED BY <2>2 DEF n, u, v
<1> QED BY <1>2, <1>4, <1>5, <1>7 DEF w

\* The half limbs of a window
Halved(m, p) == [j \in Nat |-> HalfOf(m, p, j)]

LEMMA HalvedValue ==
  ASSUME NEW m, NEW p, NEW k \in Nat, Window(m, p, k)
  PROVE  /\ Terms(Halved(m, p), 2 * k)
         /\ Value(m, p, k) = SumTo(Scaled(Halved(m, p)), 2 * k)
         /\ \A j \in 0..(2 * k - 1) : Halved(m, p)[j] \in 0..(Half - 1)
<1> DEFINE a == Halved(m, p)
<1>1. \A j \in 0..(2 * k - 1) : a[j] = HalfOf(m, p, j) /\ a[j] \in 0..(Half - 1)
  <2> SUFFICES ASSUME NEW j \in 0..(2 * k - 1) PROVE a[j] = HalfOf(m, p, j) /\ a[j] \in 0..(Half - 1)
    OBVIOUS
  <2>1. HalfOf(m, p, j) \in 0..(Half - 1)
    BY HalfOfIs
  <2>2. a[j] = HalfOf(m, p, j)
    BY DEF Halved
  <2> QED BY <2>1, <2>2
<1>2. Terms(a, 2 * k)
  <2> HIDE DEF a
  <2> SUFFICES ASSUME NEW j \in 0..(2 * k - 1) PROVE a[j] \in Int
    BY DEF Terms
  <2> DEFINE x == a[j]
  <2>1. x \in 0..(Half - 1)
    BY <1>1
  <2> HIDE DEF x
  <2>2. x \in Int
    BY <2>1, BaseIs
  <2> QED BY <2>2 DEF x
<1>3. SumTo(HalvesOf(m, p), 2 * k) = Value(m, p, k) /\ Terms(HalvesOf(m, p), 2 * k)
  BY ValueOfHalves
<1>4. \A j \in 0..(2 * k - 1) : HalvesOf(m, p)[j] = Scaled(a)[j]
  <2> SUFFICES ASSUME NEW j \in 0..(2 * k - 1) PROVE HalvesOf(m, p)[j] = Scaled(a)[j]
    OBVIOUS
  <2>1. j \in Nat
    OBVIOUS
  <2> QED BY <1>1, <2>1 DEF HalvesOf, Scaled
<1>5. SumTo(HalvesOf(m, p), 2 * k) = SumTo(Scaled(a), 2 * k)
  <2> DEFINE n == 2 * k
             u == HalvesOf(m, p)
             v == Scaled(a)
  <2>1. n \in Nat /\ Terms(u, n) /\ \A j \in 0..(n - 1) : u[j] = v[j]
    BY <1>3, <1>4
  <2> HIDE DEF n, u, v
  <2>2. SumTo(u, n) = SumTo(v, n)
    BY <2>1, SumSame
  <2> QED BY <2>2 DEF n, u, v
<1> QED BY <1>1, <1>2, <1>3, <1>5

LEMMA AllHalves == ASSUME NEW k \in Nat PROVE Two(H * (2 * k)) = Two(Bits(k))
BY HalfWeights

LEMMA MulValue ==
  ASSUME NEW m, NEW p, NEW q, NEW k \in Nat, k >= 1, Window(m, p, k), Window(m, q, k)
  PROVE  /\ Window(mul(m, p, q, k), 0, k)
         /\ Value(mul(m, p, q, k), 0, k) = (Value(m, p, k) * Value(m, q, k)) % Two(Bits(k))
<1> DEFINE n == 2 * k
           a == Halved(m, p)
           c == Halved(m, q)
           w == Two(Bits(k))
           x == Value(m, p, k)
           y == Value(m, q, k)
<1>1. PICK f : /\ Multiplied(f, m, p, q, k)
               /\ mul(m, p, q, k) = Paired([j \in 0..(2 * k - 1) |-> f[j] % Half], k)
               /\ HalfLimbs([j \in 0..(2 * k - 1) |-> f[j] % Half], k)
  BY MulIs
<1> DEFINE h == [j \in 0..(2 * k - 1) |-> f[j] % Half]
           r == Paired(h, k)
<1>2. n \in Nat /\ n >= 1
  OBVIOUS
<1>3. Terms(a, n) /\ Terms(c, n) /\ x = SumTo(Scaled(a), n) /\ y = SumTo(Scaled(c), n)
  BY HalvedValue
<1>4. Carrying(f, a, c, n)
  <2>1. \A j \in 0..(n - 1) : f[j] \in Int
    BY <1>1 DEF Multiplied
  <2>2. \A j \in 0..(n - 1) : Crossed(a, c, j) = Products(m, p, q, j)
    <3> SUFFICES ASSUME NEW j \in 0..(n - 1) PROVE Crossed(a, c, j) = Products(m, p, q, j)
      OBVIOUS
    <3>1. \A i \in 0..j : a[i] = HalfOf(m, p, i) /\ c[j - i] = HalfOf(m, q, j - i)
      <4> SUFFICES ASSUME NEW i \in 0..j PROVE a[i] = HalfOf(m, p, i) /\ c[j - i] = HalfOf(m, q, j - i)
        OBVIOUS
      <4>1. i \in Nat /\ j - i \in Nat
        OBVIOUS
      <4> QED BY <4>1 DEF Halved
    <3> HIDE DEF a, c
    <3> QED BY <3>1 DEF Crossed, Products
  <2>3. \A j \in 0..(n - 1) :
          f[j] = SumTo(Crossed(a, c, j), j + 1) + (IF j = 0 THEN 0 ELSE f[j - 1] \div Half)
    <3> SUFFICES ASSUME NEW j \in 0..(n - 1)
                 PROVE  f[j] = SumTo(Crossed(a, c, j), j + 1) + (IF j = 0 THEN 0 ELSE f[j - 1] \div Half)
      OBVIOUS
    <3>1. SumTo(Crossed(a, c, j), j + 1) = Column(m, p, q, j)
      BY <2>2 DEF Column
    <3>2. CASE j = 0
      <4>1. f[0] = Column(m, p, q, 0)
        BY <1>1 DEF Multiplied
      <4>2. Column(m, p, q, j) \in Int
        BY ProductTerms
      <4>3. Column(m, p, q, j) + 0 = Column(m, p, q, j)
        BY <4>2
      <4> QED BY <3>1, <3>2, <4>1, <4>3
    <3>3. CASE j # 0
      <4>1. j \in 1..(2 * k - 1)
        BY <3>3
      <4>2. f[j] = Column(m, p, q, j) + (f[j - 1] \div Half)
        BY <1>1, <4>1 DEF Multiplied
      <4> QED BY <3>1, <3>3, <4>2
    <3> QED BY <3>2, <3>3
  <2> HIDE DEF a, c, n
  <2> QED BY <2>1, <2>3 DEF Carrying
<1>5. HalfLimbs(h, k) /\ mul(m, p, q, k) = r
  BY <1>1
<1> HIDE DEF h, r, a, c, x, y
<1>6. Window(r, 0, k) /\ Terms(h, n) /\ Value(r, 0, k) = SumTo(Scaled(h), n)
  <2>1. Window(Paired(h, k), 0, k) /\ Terms(h, 2 * k)
        /\ Value(Paired(h, k), 0, k) = SumTo(Scaled(h), 2 * k)
    BY <1>5, PairedValue
  <2> QED BY <2>1 DEF r
<1>7. SumTo(Scaled(h), n) = SumTo(Scaled(LowHalves(f)), n)
  <2> DEFINE u == Scaled(h)
             v == Scaled(LowHalves(f))
  <2>1. \A j \in 0..(n - 1) : u[j] = v[j]
    <3> SUFFICES ASSUME NEW j \in 0..(n - 1) PROVE u[j] = v[j]
      OBVIOUS
    <3>1. j \in Nat /\ h[j] = f[j] % Half
      BY DEF h
    <3>2. LowHalves(f)[j] = f[j] % Half
      BY <3>1 DEF LowHalves
    <3> QED BY <3>1, <3>2 DEF Scaled
  <2>2. Terms(u, n)
    BY <1>2, <1>6, ScaledTerms
  <2> HIDE DEF u, v, n
  <2>3. SumTo(u, n) = SumTo(v, n)
    BY <1>2, <2>1, <2>2, SumSame
  <2> QED BY <2>3 DEF u, v
<1> DEFINE o == CarryInto(f, n)
           d == SumTo(Diagonal(a, c), n)
           s == Value(r, 0, k)
<1>8. s + w * o = d /\ o \in Int
  <2>1. SumTo(Scaled(LowHalves(f)), n) + Two(H * n) * CarryInto(f, n) = SumTo(Diagonal(a, c), n)
        /\ CarryInto(f, n) \in Int
    <3> HIDE DEF n
    <3> QED BY <1>2, <1>3, <1>4, CarryHalves
  <2>2. Two(H * n) = w
    BY AllHalves
  <2> QED BY <1>6, <1>7, <2>1, <2>2
<1>9. PICK e \in Int : x * y = d + w * e
  <2>1. \E e \in Int : SumTo(Scaled(a), n) * SumTo(Scaled(c), n) = SumTo(Diagonal(a, c), n) + Two(H * n) * e
    <3> HIDE DEF n
    <3> QED BY <1>2, <1>3, ProductIs
  <2>2. Two(H * n) = w
    BY AllHalves
  <2> QED BY <1>3, <2>1, <2>2
<1>10. w \in Nat /\ s \in Nat
  <2>1. s \in Nat
    BY <1>6, ValueRange
  <2> QED BY <2>1, BitsIs
<1>11. x \in Nat /\ y \in Nat
  BY ValueRange DEF x, y
<1> DEFINE z == x * y
           g == o + e
<1>12. z \in Int /\ g \in Int /\ s + w * g = z
  <2>1. g \in Int /\ z \in Int
    BY <1>8, <1>11
  <2> HIDE DEF s, w, o, d
  <2>2. w * (o + e) = w * o + w * e
    BY <1>8, <1>10
  <2> DEFINE wo == w * o
             we == w * e
  <2>3. wo \in Int /\ we \in Int /\ s + wo = d /\ z = d + we
    BY <1>8, <1>9, <1>10
  <2> HIDE DEF wo, we, z
  <2>4. s + (wo + we) = z
    BY <1>10, <2>3
  <2> QED BY <2>1, <2>2, <2>4 DEF wo, we
<1> HIDE DEF z, g
<1>13. Value(r, 0, k) = z % Two(Bits(k))
  BY <1>6, <1>12, WrapIs
<1> QED BY <1>5, <1>6, <1>13 DEF z, x, y

\* One step of the long division: nothing is lost while the divisor is small.
DivideStep(x, o, q, r) ==
    /\ q \in 0..(Half - 1) /\ r \in 0..(o - 1) /\ x = o * q + r
    /\ Quotient(x, o) = q /\ Signed(Cut(Remainder(x, o) * Half)) = Half * r

LEMMA QuotientStep ==
  ASSUME NEW o \in Nat, o >= 1, o <= Half \div 2, NEW r \in 0..(o - 1), NEW a \in 0..(Half - 1)
  PROVE  \E q, l : DivideStep(Half * r + a, o, q, l)
<1> DEFINE b == Half
           h == Two(H - 1)
           x == b * r + a
           q == x \div o
           l == x % o
<1>1. b \in Nat /\ b >= 2 /\ b = 2 * h /\ h \in Nat /\ Base = b * b /\ Base \in Nat
  BY BaseIs
<1>2. b \div 2 = h
  <2> HIDE DEF b, h
  <2>1. (2 * h) \div 2 = h
    BY <1>1
  <2> QED BY <1>1, <2>1
<1>3. o <= h
  BY <1>2
<1>4. r \in Nat /\ r < o /\ a \in Nat /\ a < b
  BY <1>1
<1> HIDE DEF b, h
<1>5. x \in Nat /\ x < b * o
  <2>1. r * b + b <= o * b /\ r * b \in Nat
    BY <1>1, <1>4, MulMono
  <2>2. r * b = b * r /\ o * b = b * o /\ b * o \in Nat
    BY <1>1, <1>4
  <2> DEFINE y == b * r
             z == b * o
  <2>3. y \in Nat /\ z \in Nat /\ y + b <= z
    BY <2>1, <2>2
  <2> HIDE DEF y, z
  <2>4. y + a \in Nat /\ y + a < z
    BY <1>1, <1>4, <2>3
  <2> QED BY <2>4 DEF y, z
<1> HIDE DEF x
<1>6. q \in Nat /\ l \in Nat /\ l < o /\ x = q * o + l
  <2>1. x \div o \in Nat /\ x % o \in 0..(o - 1) /\ x = (x \div o) * o + (x % o)
    BY <1>5, DivOf
  <2> QED BY <2>1
<1>7. Quotient(x, o) = q % b /\ Remainder(x, o) = l
  <2>1. x >= 0
    BY <1>5
  <2> QED BY <2>1 DEF Quotient, Remainder, b
<1> HIDE DEF q, l
<1>8. q < b
  <2> SUFFICES ASSUME b <= q PROVE FALSE
    BY <1>1, <1>6
  <2>1. PICK f \in Nat : q = b + f
    <3>1. q - b \in Nat /\ q = b + (q - b)
      BY <1>1, <1>6
    <3> QED BY <3>1
  <2>2. (b + f) * o = b * o + f * o /\ b * o \in Nat /\ f * o \in Nat
    BY <1>1
  <2> DEFINE y == b * o
             z == f * o
  <2>3. y \in Nat /\ z \in Nat /\ x = y + z + l /\ x < y
    BY <1>5, <1>6, <2>1, <2>2
  <2> HIDE DEF y, z
  <2> QED BY <1>6, <2>3
<1>9. q % b = q
  BY <1>1, <1>6, <1>8
<1>10. x = o * q + l
  <2>1. q * o = o * q
    BY <1>6
  <2> QED BY <1>6, <2>1
<1>11. l * b \in Nat /\ l * b < h * b /\ Base = 2 * (h * b) /\ h * b \in Nat
  <2>1. l < h
    BY <1>1, <1>3, <1>6
  <2>2. l * b + b <= h * b /\ l * b \in Nat /\ h * b \in Nat
    BY <1>1, <1>6, <2>1, MulMono
  <2>3. (2 * h) * b = 2 * (h * b)
    BY <1>1
  <2> DEFINE y == l * b
             z == h * b
  <2>4. y \in Nat /\ z \in Nat /\ y + b <= z /\ Base = 2 * z
    BY <1>1, <2>2, <2>3
  <2> HIDE DEF y, z
  <2>5. y < z
    BY <1>1, <2>4
  <2> QED BY <2>4, <2>5 DEF y, z
<1>12. Signed(Cut(l * b)) = l * b
  <2> DEFINE y == l * b
             z == h * b
             e == Base
  <2>1. y \in Nat /\ y < z /\ z \in Nat /\ e = 2 * z /\ e \in Nat
    BY <1>1, <1>11
  <2> HIDE DEF y, z, e
  <2>2. y % e = y
    BY <2>1
  <2>3. ~(y >= e \div 2)
    BY <2>1
  <2>4. Cut(y) = y
    BY <2>2 DEF Cut, e
  <2> QED BY <2>3, <2>4 DEF Signed, e, y
<1>13. l * b = b * l
  BY <1>1, <1>6
<1>14. Quotient(x, o) = q /\ Signed(Cut(Remainder(x, o) * Half)) = Half * l
  <2>1. Signed(Cut(Remainder(x, o) * b)) = b * l
    BY <1>7, <1>12, <1>13
  <2> QED BY <1>7, <1>9, <2>1 DEF b
<1>15. q \in 0..(Half - 1) /\ l \in 0..(o - 1)
  <2>1. q \in 0..(b - 1)
    BY <1>1, <1>6, <1>8
  <2> QED BY <1>6, <2>1 DEF b
<1>16. DivideStep(x, o, q, l)
  BY <1>10, <1>14, <1>15 DEF DivideStep
<1> QED BY <1>16 DEF x, b

LEMMA DividedStep ==
  ASSUME NEW an \in Int, NEW a1 \in Int, NEW a0 \in Int, NEW qn \in Int, NEW q1 \in Int, NEW q0 \in Int,
         NEW w \in Int, NEW b \in Int, NEW a \in Int, NEW q \in Int, NEW r \in Int, NEW l \in Int, NEW o \in Int,
         an - a1 = o * (qn - q1) + (b * w) * r, a1 = a0 + w * a, q1 = q0 + w * q, b * r + a = o * q + l
  PROVE  an - a0 = o * (qn - q0) + w * l
<1>1. o * (qn - q0) = o * (qn - q1) + w * (o * q)
  <2>1. o * (qn - q0) = o * (qn - (q0 + w * q)) + w * (o * q)
    OBVIOUS
  <2> QED BY <2>1
<1>2. (b * w) * r + w * a = w * (o * q) + w * l
  <2>1. w * (b * r + a) = (b * w) * r + w * a /\ w * (o * q + l) = w * (o * q) + w * l
    OBVIOUS
  <2> QED BY <2>1
<1> DEFINE s == o * (qn - q1)
           t == w * (o * q)
           u == (b * w) * r
           v == w * a
           y == w * l
           z == o * (qn - q0)
<1>3. s \in Int /\ t \in Int /\ u \in Int /\ v \in Int /\ y \in Int /\ z \in Int /\ z = s + t
      /\ u + v = t + y /\ an - a1 = s + u /\ a1 = a0 + v
  BY <1>1, <1>2
<1>4. an - a0 = z + y
  <2> HIDE DEF s, t, u, v, y, z
  <2> QED BY <1>3
<1> QED BY <1>4

LEMMA DivValue ==
  ASSUME NEW m, NEW p, NEW k \in Nat, Window(m, p, k), NEW o \in Nat, o >= 1, o <= Half \div 2
  PROVE  /\ Window(div32(m, p, k, o), 0, k)
         /\ Value(div32(m, p, k, o), 0, k) = Value(m, p, k) \div o
<1> DEFINE n == 2 * k
           Q(g) == [j \in 0..(2 * k - 1) |-> Quotient(g[2 * k - 1 - j] + HalfOf(m, p, j), o)]
           a == Halved(m, p)
<1>1. PICK f : /\ Divided(f, m, p, k, o)
               /\ div32(m, p, k, o) = Paired(Q(f), k)
               /\ HalfLimbs(Q(f), k)
  <2>1. o \in Nat \ {0}
    OBVIOUS
  <2> QED BY <2>1, DivIsPaired
<1> DEFINE h == Q(f)
           r == Paired(h, k)
<1>2. n \in Nat
  OBVIOUS
<1>3. HalfLimbs(h, k) /\ div32(m, p, k, o) = r
  BY <1>1
<1>4. \A j \in 0..(n - 1) : h[j] = Quotient(f[n - 1 - j] + a[j], o)
  BY DEF Halved
<1>5. Terms(a, n) /\ Value(m, p, k) = SumTo(Scaled(a), n) /\ \A j \in 0..(n - 1) : a[j] \in 0..(Half - 1)
  BY HalvedValue
<1>6. /\ f[0] = 0
      /\ \A j \in 1..n : f[j] = Signed(Cut(Remainder(f[j - 1] + a[n - j], o) * Half))
  <2> SUFFICES ASSUME NEW j \in 1..n
               PROVE  f[0] = 0 /\ f[j] = Signed(Cut(Remainder(f[j - 1] + a[n - j], o) * Half))
    BY <1>1 DEF Divided
  <2>1. n - j \in Nat
    OBVIOUS
  <2>2. a[n - j] = HalfOf(m, p, 2 * k - j)
    BY <2>1 DEF Halved
  <2> QED BY <1>1, <2>2 DEF Divided
<1> HIDE DEF h, r, a
<1>7. Window(r, 0, k) /\ Terms(h, n) /\ Value(r, 0, k) = SumTo(Scaled(h), n)
  <2>1. Window(Paired(h, k), 0, k) /\ Terms(h, 2 * k)
        /\ Value(Paired(h, k), 0, k) = SumTo(Scaled(h), 2 * k)
    BY <1>3, PairedValue
  <2> QED BY <2>1 DEF r
<1> DEFINE A(j) == SumTo(Scaled(a), j)
           B(j) == SumTo(Scaled(h), j)
           Good(j, l) == /\ l \in 0..(o - 1) /\ f[j] = Half * l
                         /\ A(n) - A(n - j) = o * (B(n) - B(n - j)) + Two(H * (n - j)) * l
           P == {j \in 0..n : \E l : Good(j, l)}
<1> HIDE DEF n
<1>8. \A j \in 0..n : A(j) \in Int /\ B(j) \in Int
  <2> SUFFICES ASSUME NEW j \in 0..n PROVE A(j) \in Int /\ B(j) \in Int
    OBVIOUS
  <2>1. j \in Nat /\ Terms(a, j) /\ Terms(h, j)
    BY <1>2, <1>5, <1>7, TermsBelow
  <2> QED BY <2>1, ScaledTerms, SumIsInt
<1>9. 0 \in P
  <2>1. A(n) \in Int /\ B(n) \in Int
    BY <1>2, <1>8
  <2>2. n - 0 = n /\ 0 \in 0..n
    BY <1>2
  <2>3. Two(H * n) \in Nat
    BY <1>2, HalfWeight
  <2> DEFINE x == A(n)
             y == B(n)
             w == Two(H * n)
  <2>4. x - x = o * (y - y) + w * 0 /\ 0 = Half * 0
    <3>1. x \in Int /\ y \in Int /\ w \in Nat
      BY <2>1, <2>3
    <3> HIDE DEF x, y, w
    <3> QED BY <3>1, BaseIs
  <2>5. Good(0, 0)
    BY <1>6, <2>2, <2>4
  <2> HIDE DEF Good
  <2> QED BY <2>2, <2>5
<1>10. ASSUME NEW j \in Nat, j < n, j \in P PROVE j + 1 \in P
  <2>1. PICK c : Good(j, c)
    BY <1>10
  <2> DEFINE i == n - (j + 1)
  <2>2. i \in Nat /\ i \in 0..(n - 1) /\ i + 1 = n - j /\ i + 1 \in 0..n /\ j + 1 \in 0..n
        /\ j + 1 \in 1..n /\ (j + 1) - 1 = j /\ n - 1 - i = j /\ i \in 0..n
    BY <1>2, <1>10
  <2>3. c \in 0..(o - 1) /\ f[j] = Half * c /\ a[i] \in 0..(Half - 1)
    BY <1>5, <2>1, <2>2
  <2>4. f[j + 1] = Signed(Cut(Remainder(f[j] + a[i], o) * Half))
    BY <1>6, <2>2
  <2>5. h[i] = Quotient(f[j] + a[i], o)
    BY <1>4, <2>2
  <2>6. A(n) - A(n - j) = o * (B(n) - B(n - j)) + Two(H * (n - j)) * c
    BY <2>1
  <2>60. n - (j + 1) = i
    OBVIOUS
  <2> HIDE DEF i
  <2>7. PICK q, l : DivideStep(Half * c + a[i], o, q, l)
    BY <2>3, QuotientStep
  <2>8. /\ q \in 0..(Half - 1) /\ l \in 0..(o - 1) /\ Half * c + a[i] = o * q + l
        /\ h[i] = q /\ f[j + 1] = Half * l
    BY <2>3, <2>4, <2>5, <2>7 DEF DivideStep
  <2>9. A(i + 1) = A(i) + Two(H * i) * a[i] /\ B(i + 1) = B(i) + Two(H * i) * h[i]
    <3>1. Terms(a, i + 1) /\ Terms(h, i + 1)
      BY <1>2, <1>5, <1>7, <2>2, TermsBelow
    <3> QED BY <2>2, <3>1, ScaledNext
  <2>10. Two(H * (i + 1)) = Half * Two(H * i) /\ Two(H * i) \in Nat
    BY <2>2, HalfWeight
  <2> DEFINE an == A(n)
             a1 == A(i + 1)
             a0 == A(i)
             qn == B(n)
             q1 == B(i + 1)
             q0 == B(i)
             w == Two(H * i)
             b == Half
             x == a[i]
  <2>11. an \in Int /\ a1 \in Int /\ a0 \in Int /\ qn \in Int /\ q1 \in Int /\ q0 \in Int
    BY <1>2, <1>8, <2>2
  <2>12. b \in Int
    BY BaseIs
  <2>13. w \in Int /\ o \in Int
    BY <2>10
  <2>14. an - a1 = o * (qn - q1) + (b * w) * c
    <3> HIDE DEF A, B
    <3> QED BY <2>2, <2>6, <2>10
  <2>15. a1 = a0 + w * x /\ q1 = q0 + w * q /\ b * c + x = o * q + l
    BY <2>8, <2>9
  <2>16. x \in 0..(b - 1) /\ q \in 0..(b - 1) /\ c \in 0..(o - 1) /\ l \in 0..(o - 1)
    BY <2>3, <2>8
  <2> HIDE DEF an, a1, a0, qn, q1, q0, w, b, x
  <2>17. x \in Int /\ q \in Int /\ c \in Int /\ l \in Int
    BY <2>12, <2>16
  <2>18. an - a0 = o * (qn - q0) + w * l
    BY <2>11, <2>12, <2>13, <2>14, <2>15, <2>17, DividedStep
  <2>19. Good(j + 1, l)
    <3>1. A(n) - A(i) = o * (B(n) - B(i)) + Two(H * i) * l
      BY <2>18 DEF an, a0, qn, q0, w
    <3> HIDE DEF A, B
    <3> QED BY <2>8, <2>60, <3>1
  <2> HIDE DEF Good
  <2> QED BY <2>2, <2>19
<1>11. \A j \in 0..n : j \in P
  <2> HIDE DEF P
  <2> QED BY <1>2, <1>9, <1>10, UpTo
<1>12. PICK l : Good(n, l)
  <2>1. n \in P
    BY <1>2, <1>11
  <2> QED BY <2>1
<1>13. A(0) = 0 /\ B(0) = 0 /\ Two(H * 0) = 1
  BY SumNone, HalfWeight
<1>14. A(n) = o * B(n) + l /\ l \in Nat /\ l < o
  <2> DEFINE x == A(n)
             y == B(n)
  <2>1. l \in 0..(o - 1) /\ n - n = 0
    BY <1>2, <1>12
  <2>2. x - 0 = o * (y - 0) + 1 * l
    BY <1>12, <1>13, <2>1
  <2>3. x \in Int /\ y \in Int
    BY <1>2, <1>8
  <2> HIDE DEF x, y
  <2>4. x = o * y + l /\ l \in Nat /\ l < o
    BY <2>1, <2>2, <2>3
  <2> QED BY <2>4 DEF x, y
<1> DEFINE x == A(n)
           y == B(n)
<1>15. x \in Int /\ y \in Int /\ x = o * y + l
  BY <1>2, <1>8, <1>14
<1> HIDE DEF x, y
<1>16. x \div o = y
  BY <1>14, <1>15, ModIs
<1> QED BY <1>3, <1>5, <1>7, <1>16 DEF x, y

-----------------------------------------------------------------------------
(* Every method against what it promises. *)

Fulfilled(op, x, y, by, got) ==
    IF op \in {"xor", "or", "and"}
    THEN BitsOf(got) = CASE op = "xor" -> (BitsOf(x) \cup BitsOf(y)) \ (BitsOf(x) \cap BitsOf(y))
                         [] op = "or" -> BitsOf(x) \cup BitsOf(y)
                         [] op = "and" -> BitsOf(x) \cap BitsOf(y)
    ELSE got = Promised(op, x, y, by)

\* A method called on windows that do not overlap in part
Ready(D, m, p, q) ==
    /\ D \in SUBSET Int /\ m \in [D -> Limb] /\ p \in Int /\ q \in Int
    /\ kind \in DOMAIN Classes /\ Fits(D, p, Limbs) /\ Fits(D, q, Limbs) /\ Free(p, q, Limbs)

LEMMA ReadyIs ==
  ASSUME NEW D, NEW m, NEW p, NEW q, Ready(D, m, p, q)
  PROVE  /\ Limbs \in Nat /\ Limbs >= 1
         /\ Window(m, p, Limbs) /\ Window(m, q, Limbs)
         /\ Value(m, p, Limbs) \in Nat /\ Value(m, p, Limbs) < Two(Bits(Limbs))
         /\ Value(m, q, Limbs) \in Nat /\ Value(m, q, Limbs) < Two(Bits(Limbs))
         /\ Bits(Limbs) \in Nat /\ Two(Bits(Limbs)) \in Nat /\ Two(Bits(Limbs)) >= 1
<1>1. Limbs \in Nat /\ Limbs >= 1
  BY LimbsIs DEF Ready
<1>2. Window(m, p, Limbs) /\ Window(m, q, Limbs)
  BY WindowFits DEF Ready
<1>3. Bits(Limbs) \in Nat /\ Two(Bits(Limbs)) \in Nat /\ Two(Bits(Limbs)) >= 1
  BY <1>1, BitsIs
<1> QED BY <1>1, <1>2, <1>3, ValueRange

\* The table of an operation on bits
TableOf(op) == IF op = "xor" THEN XorBit ELSE IF op = "or" THEN OrBit ELSE AndBit

LEMMA BitsRight ==
  ASSUME NEW op \in {"xor", "or", "and"}, NEW x \in Nat, NEW y \in Nat, NEW z \in Nat, NEW by,
         Bits(Limbs) \in Nat,
         \A i \in 0..(Bits(Limbs) - 1) : BitOf(z, i) = TableOf(op)[BitOf(x, i)][BitOf(y, i)]
  PROVE  Fulfilled(op, x, y, by, z)
<1> DEFINE I == 0..(Bits(Limbs) - 1)
           u == BitOf(x, 0)
<1>1. \A i \in I : BitOf(x, i) \in 0..1 /\ BitOf(y, i) \in 0..1 /\ BitOf(z, i) \in 0..1
  <2>1. \A i \in I : i \in Nat
    OBVIOUS
  <2> QED BY <2>1, BitIs
<1>2. \A a, b \in 0..1 : /\ XorBit[a][b] = 1 <=> ((a = 1 \/ b = 1) /\ ~(a = 1 /\ b = 1))
                         /\ OrBit[a][b] = 1 <=> (a = 1 \/ b = 1)
                         /\ AndBit[a][b] = 1 <=> (a = 1 /\ b = 1)
  BY DEF XorBit, OrBit, AndBit
<1> DEFINE bx(i) == BitOf(x, i)  bb(i) == BitOf(y, i)  bz(i) == BitOf(z, i)
<1>3. /\ BitsOf(x) = {i \in I : bx(i) = 1} /\ BitsOf(y) = {i \in I : bb(i) = 1}
      /\ BitsOf(z) = {i \in I : bz(i) = 1}
  BY DEF BitsOf
<1>4. \A i \in I : bz(i) = TableOf(op)[bx(i)][bb(i)] /\ bx(i) \in 0..1 /\ bb(i) \in 0..1
  BY <1>1
<1> HIDE DEF bx, bb, bz, I
<1>5. CASE op = "xor"
  <2>1. \A i \in I : bz(i) = 1 <=> ((bx(i) = 1 \/ bb(i) = 1) /\ ~(bx(i) = 1 /\ bb(i) = 1))
    BY <1>2, <1>4, <1>5 DEF TableOf
  <2>2. BitsOf(z) = (BitsOf(x) \cup BitsOf(y)) \ (BitsOf(x) \cap BitsOf(y))
    BY <1>3, <2>1
  <2> QED BY <1>5, <2>2 DEF Fulfilled
<1>6. CASE op = "or"
  <2>1. \A i \in I : bz(i) = 1 <=> (bx(i) = 1 \/ bb(i) = 1)
    BY <1>2, <1>4, <1>6 DEF TableOf
  <2>2. BitsOf(z) = BitsOf(x) \cup BitsOf(y)
    BY <1>3, <2>1
  <2> QED BY <1>6, <2>2 DEF Fulfilled
<1>7. CASE op = "and"
  <2>1. \A i \in I : bz(i) = 1 <=> (bx(i) = 1 /\ bb(i) = 1)
    BY <1>2, <1>4, <1>7 DEF TableOf
  <2>2. BitsOf(z) = BitsOf(x) \cap BitsOf(y)
    BY <1>3, <2>1
  <2> QED BY <1>7, <2>2 DEF Fulfilled
<1> QED BY <1>5, <1>6, <1>7

LEMMA TableIs == ASSUME NEW op PROVE TableOf(op) \in BitMaps
BY DEF TableOf, BitMaps

LEMMA CalledBits ==
  ASSUME NEW D, NEW m, NEW p, NEW q, Ready(D, m, p, q), NEW op \in {"xor", "or", "and"}, NEW by
  PROVE  Fulfilled(op, Value(m, p, Limbs), Value(m, q, Limbs), by,
                   Value(Called(op, m, p, q, by), p, Limbs))
<1> DEFINE n == Limbs
           f == TableOf(op)
           r == BitwiseUp(m, p, q, n, f)
<1>0. /\ n \in Nat /\ n >= 1 /\ Window(m, p, n) /\ Window(m, q, n) /\ Bits(n) \in Nat
      /\ Value(m, p, n) \in Nat /\ Value(m, q, n) \in Nat
  BY ReadyIs
<1>1. Called(op, m, p, q, by) = r
  BY DEF Called, TableOf, BitwiseUp, xorEq, orEq, andEq
<1>2. f \in BitMaps
  BY TableIs
<1>3. /\ D \in SUBSET Int /\ m \in [D -> Limb] /\ p \in Int /\ q \in Int
      /\ Fits(D, p, n) /\ Fits(D, q, n) /\ Free(p, q, n)
  BY DEF Ready
<1> HIDE DEF n, f
<1>4. Inside(m, r, D, p, n) /\ \A i \in 0..(n - 1) : r[p + i] = Mixed(m[p + i], m[q + i], f)
  BY <1>0, <1>2, <1>3, BitwiseEq
<1> HIDE DEF r
<1>5. \A x \in 0..(Bits(n) - 1) : BitOf(Value(r, p, n), x) = f[BitOf(Value(m, p, n), x)][BitOf(Value(m, q, n), x)]
  BY <1>0, <1>2, <1>3, <1>4, BitwiseValue
<1>6. Value(r, p, n) \in Nat
  <2>1. Window(r, p, n)
    BY <1>3, <1>4, WindowFits DEF Inside
  <2> QED BY <1>0, <2>1, ValueRange
<1> QED BY <1>0, <1>1, <1>5, <1>6, BitsRight DEF n, f

LEMMA CalledSums ==
  ASSUME NEW D, NEW m, NEW p, NEW q, Ready(D, m, p, q), NEW op \in {"add", "sub", "not", "set"}, NEW by
  PROVE  Fulfilled(op, Value(m, p, Limbs), Value(m, q, Limbs), by,
                   Value(Called(op, m, p, q, by), p, Limbs))
<1> DEFINE n == Limbs
           x == Value(m, p, n)
           y == Value(m, q, n)
           w == Two(Bits(n))
<1>0. n \in Nat /\ Window(m, p, n) /\ Window(m, q, n)
  BY ReadyIs
<1>1. /\ D \in SUBSET Int /\ m \in [D -> Limb] /\ p \in Int /\ q \in Int
      /\ Fits(D, p, n) /\ Fits(D, q, n) /\ Free(p, q, n)
  BY DEF Ready
<1>2. /\ Promised("add", x, y, by) = (x + y) % w /\ Promised("sub", x, y, by) = (x - y) % w
      /\ Promised("not", x, y, by) = w - 1 - x /\ Promised("set", x, y, by) = y
  BY DEF Promised, Wrapped
<1>3. /\ Called("add", m, p, q, by) = addEq(m, p, q, n) /\ Called("sub", m, p, q, by) = subEq(m, p, q, n)
      /\ Called("not", m, p, q, by) = notEq(m, p, n) /\ Called("set", m, p, q, by) = setValue(m, p, q, n)
  BY DEF Called
<1> HIDE DEF n
<1>4. Value(addEq(m, p, q, n), p, n) = (x + y) % w /\ Value(subEq(m, p, q, n), p, n) = (x - y) % w
  BY <1>0, <1>1, AddValue
<1>5. Value(notEq(m, p, n), p, n) = w - 1 - x
  <2>1. \A i \in 0..(n - 1) : notEq(m, p, n)[p + i] = Base - 1 - m[p + i]
    BY <1>0, <1>1, NotEq
  <2> QED BY <1>0, <2>1, NotValue
<1>6. Value(setValue(m, p, q, n), p, n) = y
  <2>1. \A i \in 0..(n - 1) : setValue(m, p, q, n)[p + i] = m[q + i]
    BY <1>0, <1>1, SetEq
  <2> QED BY <1>0, <2>1, ValueSame
<1> HIDE DEF x, y, w
<1>7. Value(Called(op, m, p, q, by), p, n) = Promised(op, x, y, by)
  BY <1>2, <1>3, <1>4, <1>5, <1>6
<1>8. op \notin {"xor", "or", "and"}
  OBVIOUS
<1> QED BY <1>7, <1>8 DEF Fulfilled, x, y, n

\* A window put over the array
LEMMA OverValue ==
  ASSUME NEW D, NEW m, NEW p, NEW q, Ready(D, m, p, q), NEW w, Window(w, 0, Limbs)
  PROVE  Value(Over(m, p, w), p, Limbs) = Value(w, 0, Limbs)
<1> DEFINE n == Limbs
           r == Over(m, p, w)
<1>0. n \in Nat
  BY ReadyIs
<1>1. /\ D \in SUBSET Int /\ m \in [D -> Limb] /\ p \in Int /\ kind \in DOMAIN Classes
      /\ Fits(D, p, n)
  BY DEF Ready
<1>2. \A i \in 0..(n - 1) : 0 + i = i /\ p + i \in D
  <2>1. \A i \in 0..(n - 1) : 0 + i = i
    BY <1>0
  <2> QED BY <1>1, <2>1 DEF Fits
<1>3. \A i \in 0..(n - 1) : w[i] \in Limb
  BY <1>2 DEF Window
<1>4. \A i \in 0..(n - 1) : p + i \in D => r[p + i] = w[i]
  BY <1>1, <1>3, OverInside
<1> HIDE DEF r, n
<1>5. \A i \in 0..(n - 1) : r[p + i] = w[0 + i]
  BY <1>2, <1>4
<1>6. Window(w, 0, n)
  BY DEF n
<1>7. Value(r, p, n) = Value(w, 0, n)
  BY <1>0, <1>5, <1>6, ValueSame
<1> QED BY <1>7 DEF r, n

LEMMA CalledProducts ==
  ASSUME NEW D, NEW m, NEW p, NEW q, Ready(D, m, p, q), NEW op \in {"mul", "div", "zero", "abs"}, NEW by \in Nat,
         op = "div" => by >= 1 /\ by <= Half \div 2
  PROVE  Fulfilled(op, Value(m, p, Limbs), Value(m, q, Limbs), by,
                   Value(Called(op, m, p, q, by), p, Limbs))
<1> DEFINE n == Limbs
           x == Value(m, p, n)
           y == Value(m, q, n)
           w == Two(Bits(n))
           r == Called(op, m, p, q, by)
<1>0. n \in Nat /\ n >= 1 /\ Window(m, p, n) /\ Window(m, q, n) /\ x \in Nat
  BY ReadyIs
<1>1. /\ D \in SUBSET Int /\ m \in [D -> Limb] /\ p \in Int /\ q \in Int
      /\ Fits(D, p, n) /\ Fits(D, q, n)
  BY DEF Ready
<1>2. op \notin {"xor", "or", "and"}
  OBVIOUS
<1>3. SUFFICES Value(r, p, n) = Promised(op, x, y, by)
  BY <1>2 DEF Fulfilled
<1>4. CASE op = "mul"
  <2> DEFINE u == mul(m, p, q, n)
  <2>1. Window(u, 0, n) /\ Value(u, 0, n) = (x * y) % w
    <3> HIDE DEF n
    <3> QED BY <1>0, MulValue
  <2>2. r = Over(m, p, u)
    BY <1>4 DEF Called
  <2>3. Promised(op, x, y, by) = (x * y) % w
    BY <1>4 DEF Promised, Wrapped
  <2> HIDE DEF u
  <2>4. Value(Over(m, p, u), p, n) = Value(u, 0, n)
    BY <2>1, OverValue
  <2> QED BY <2>1, <2>2, <2>3, <2>4
<1>5. CASE op = "div"
  <2> DEFINE u == div32(m, p, n, by)
  <2>1. Window(u, 0, n) /\ Value(u, 0, n) = x \div by
    <3> HIDE DEF n
    <3> QED BY <1>0, <1>5, DivValue
  <2>2. r = Over(m, p, u)
    BY <1>5 DEF Called
  <2>3. Promised(op, x, y, by) = x \div by
    BY <1>5 DEF Promised
  <2> HIDE DEF u
  <2>4. Value(Over(m, p, u), p, n) = Value(u, 0, n)
    BY <2>1, OverValue
  <2> QED BY <2>1, <2>2, <2>3, <2>4
<1>6. CASE op = "zero"
  <2>1. r = filled(m, 0, p, p + n)
    BY <1>6 DEF Called, setZero
  <2>2. Promised(op, x, y, by) = 0
    BY <1>6 DEF Promised
  <2> DEFINE z == p + n
             s == filled(m, 0, p, z)
  <2>3. z \in Int /\ z <= p + n /\ p <= p /\ \A i \in 0..(n - 1) : p + i \in p..(z - 1)
    BY <1>0, <1>1
  <2>4. r = s
    BY <2>1
  <2>5. 0 \in Limb
    BY LimbIs, BaseIs
  <2> HIDE DEF z, n, r
  <2>6. \A t \in D : s[t] = IF t \in p..(z - 1) THEN 0 ELSE m[t]
    BY <1>0, <1>1, <2>3, <2>5, FilledIs
  <2> HIDE DEF s
  <2>7. \A i \in 0..(n - 1) : s[p + i] = 0
    BY <1>1, <2>3, <2>6 DEF Fits
  <2>8. Value(s, p, n) = 0
    BY <1>0, <2>7, ZeroValue
  <2> QED BY <2>2, <2>4, <2>8
<1>7. CASE op = "abs"
  <2>1. r = IF negative(m, p, n) THEN negEq(m, p, n) ELSE m
    BY <1>7 DEF Called
  <2>2. Promised(op, x, y, by) = IF x >= Two(Bits(n) - 1) THEN w - x ELSE x
    BY <1>7 DEF Promised
  <2> HIDE DEF n, r
  <2>3. negative(m, p, n) <=> x >= Two(Bits(n) - 1)
    BY <1>0, SignIs
  <2>4. negative(m, p, n) => Value(negEq(m, p, n), p, n) = w - x
    BY <1>0, <1>1, AbsValue
  <2> HIDE DEF w
  <2> QED BY <2>1, <2>2, <2>3, <2>4 DEF x
<1> QED BY <1>4, <1>5, <1>6, <1>7

-----------------------------------------------------------------------------

\* A number shifted down fits, so nothing of it is cut; one with its sign in
\* front is cut to the same number of limbs.
LEMMA SignedBack ==
  ASSUME NEW w \in Nat, NEW v \in Nat, v < w, NEW s \in 0..1
  PROVE  (v - s * w) % w = v
<1>1. CASE s = 0
  <2>1. v - s * w = w * 0 + v /\ v - s * w \in Int /\ w >= 1
    BY <1>1
  <2> QED BY <2>1, ModIs
<1>2. CASE s = 1
  <2>1. v - s * w = w * (0 - 1) + v /\ v - s * w \in Int /\ 0 - 1 \in Int /\ w >= 1
    BY <1>2
  <2> QED BY <2>1, ModIs
<1> QED BY <1>1, <1>2

LEMMA LShiftIs ==
  ASSUME NEW D \in SUBSET Int, NEW m \in [D -> Limb], NEW p \in Int, NEW k \in Nat, k >= 1,
         Fits(D, p, k), NEW by \in Nat
  PROVE  LShifted(lShiftEq(m, p, k, by), p, m, p, k, by)
BY LShiftEq, ZenonT(40) DEF LShifted

LEMMA CalledShifts ==
  ASSUME NEW D, NEW m, NEW p, NEW q, Ready(D, m, p, q), NEW op \in {"lShift", "rShift", "signedRShift"},
         NEW by \in Nat
  PROVE  Fulfilled(op, Value(m, p, Limbs), Value(m, q, Limbs), by,
                   Value(Called(op, m, p, q, by), p, Limbs))
<1> DEFINE n == Limbs
           x == Value(m, p, n)
           y == Value(m, q, n)
           w == Two(Bits(n))
           r == Called(op, m, p, q, by)
           s == IF negative(m, p, n) THEN 1 ELSE 0
           top == s * (Base - 1)
<1>0. n \in Nat /\ n >= 1 /\ Window(m, p, n) /\ x \in Nat /\ w \in Nat
  BY ReadyIs
<1>1. D \in SUBSET Int /\ m \in [D -> Limb] /\ p \in Int /\ Fits(D, p, n)
  BY DEF Ready
<1>2. op \notin {"xor", "or", "and"}
  OBVIOUS
<1>3. SUFFICES Value(r, p, n) = Promised(op, x, y, by)
  BY <1>2 DEF Fulfilled
<1>4. CASE op = "lShift"
  <2>1. r = lShiftEq(m, p, n, by)
    BY <1>4 DEF Called
  <2>2. Promised(op, x, y, by) = (x * Two(by)) % w
    BY <1>4 DEF Promised, Wrapped
  <2> HIDE DEF n, r
  <2>3. LShifted(lShiftEq(m, p, n, by), p, m, p, n, by)
    BY <1>0, <1>1, LShiftIs
  <2> HIDE DEF w
  <2>4. Value(lShiftEq(m, p, n, by), p, n) = (x * Two(by)) % w
    <3> DEFINE z == lShiftEq(m, p, n, by)
    <3>1. LShifted(z, p, m, p, n, by)
      BY <2>3
    <3> HIDE DEF z
    <3>2. Value(z, p, n) = (Value(m, p, n) * Two(by)) % Two(Bits(n))
      BY <1>0, <1>1, <3>1, LShiftValue
    <3> QED BY <3>2 DEF z, w
  <2> QED BY <2>1, <2>2, <2>4
<1>5. 0 \in Limb /\ Base - 1 \in Limb /\ Base \in Nat
  <2>1. 0 \in Limb /\ Base \in Nat
    BY LimbIs, BaseIs
  <2>2. Base - 1 \in Limb
    <3>1. Base - 1 - 0 \in Limb
      BY <2>1, NotLimb
    <3>2. Base - 1 - 0 = Base - 1
      BY <2>1
    <3> QED BY <3>1, <3>2
  <2> QED BY <2>1, <2>2
<1>6. ASSUME NEW e \in 0..1, NEW t \in Limb, t = e * (Base - 1)
      PROVE  /\ (x - e * w) \div Two(by) = Value(rShiftEq(m, p, n, by, t), p, n) - e * w
             /\ Value(rShiftEq(m, p, n, by, t), p, n) \in Nat /\ Value(rShiftEq(m, p, n, by, t), p, n) < w
  <2> DEFINE z == rShiftEq(m, p, n, by, t)
  <2> HIDE DEF n
  <2>1. RShifted(z, p, m, p, n, by, t) /\ Inside(m, z, D, p, n)
    BY <1>0, <1>1, RShiftEq
  <2> HIDE DEF z
  <2>2. (Value(m, p, n) - e * Two(Bits(n))) \div Two(by) = Value(z, p, n) - e * Two(Bits(n))
    BY <1>0, <1>1, <1>6, <2>1, RShiftValue
  <2>3. Window(z, p, n)
    BY <1>1, <2>1, WindowFits DEF Inside
  <2>4. Value(z, p, n) \in Nat /\ Value(z, p, n) < Two(Bits(n))
    BY <1>0, <2>3, ValueRange
  <2> QED BY <2>2, <2>4 DEF z
<1>7. CASE op = "rShift"
  <2>1. r = rShiftEq(m, p, n, by, 0)
    BY <1>7 DEF Called
  <2>2. Promised(op, x, y, by) = x \div Two(by)
    BY <1>7 DEF Promised
  <2> HIDE DEF r, n, x, w
  <2>3. 0 = 0 * (Base - 1) /\ 0 \in 0..1
    BY <1>5
  <2> DEFINE v == Value(rShiftEq(m, p, n, by, 0), p, n)
  <2>4. (x - 0 * w) \div Two(by) = v - 0 * w /\ v \in Nat
    BY <1>5, <1>6, <2>3
  <2> HIDE DEF v
  <2>5. x - 0 * w = x /\ v - 0 * w = v
    BY <1>0, <2>4
  <2>6. v = x \div Two(by)
    BY <2>4, <2>5
  <2> QED BY <2>1, <2>2, <2>6 DEF v
<1>8. CASE op = "signedRShift"
  <2> DEFINE t == IF negative(m, p, n) THEN Base - 1 ELSE 0
             v == Value(rShiftEq(m, p, n, by, t), p, n)
  <2>1. r = rShiftEq(m, p, n, by, t)
    BY <1>8 DEF Called
  <2>2. Promised(op, x, y, by) = (AsSigned(x, n) \div Two(by)) % w
    BY <1>8 DEF Promised, Wrapped
  <2>3. s \in 0..1 /\ t = s * (Base - 1) /\ t \in Limb
    BY <1>5
  <2>4. AsSigned(x, n) = x - s * w
    <3>1. negative(m, p, n) <=> x >= Two(Bits(n) - 1)
      <4> HIDE DEF n
      <4> QED BY <1>0, SignIs
    <3>2. AsSigned(x, n) = IF x >= Two(Bits(n) - 1) THEN x - w ELSE x
      BY DEF AsSigned
    <3> HIDE DEF x, n, w
    <3>3. x - 1 * w = x - w /\ x - 0 * w = x
      BY <1>0
    <3> QED BY <3>1, <3>2, <3>3
  <2> HIDE DEF r, n, x, w, s, t
  <2>5. (x - s * w) \div Two(by) = v - s * w /\ v \in Nat /\ v < w
    BY <1>6, <2>3
  <2> HIDE DEF v
  <2>6. (v - s * w) % w = v
    BY <1>0, <2>3, <2>5, SignedBack
  <2>7. v = Promised(op, x, y, by)
    BY <2>2, <2>4, <2>5, <2>6
  <2> QED BY <2>1, <2>7 DEF v
<1> QED BY <1>4, <1>7, <1>8

LEMMA CalledRotations ==
  ASSUME NEW D, NEW m, NEW p, NEW q, Ready(D, m, p, q), NEW op \in {"lRot", "rRot"}, NEW by \in Nat
  PROVE  Fulfilled(op, Value(m, p, Limbs), Value(m, q, Limbs), by,
                   Value(Called(op, m, p, q, by), p, Limbs))
<1> DEFINE n == Limbs
           x == Value(m, p, n)
           y == Value(m, q, n)
           w == Bits(n)
           r == Called(op, m, p, q, by)
           left(e) == ((x * Two(e % w)) % Two(w)) + x \div Two(w - (e % w))
<1>0. n \in Nat /\ n >= 1 /\ Window(m, p, n) /\ x \in Nat /\ x < Two(w)
  BY ReadyIs
<1>1. D \in SUBSET Int /\ m \in [D -> Limb] /\ p \in Int /\ Fits(D, p, n)
  BY DEF Ready
<1>2. op \notin {"xor", "or", "and"}
  OBVIOUS
<1>3. SUFFICES Value(r, p, n) = Promised(op, x, y, by)
  BY <1>2 DEF Fulfilled
<1>4. ASSUME NEW e \in Nat
      PROVE  Value(lRotEq(m, p, n, e), p, n) = left(e)
  <2> DEFINE z == lRotEq(m, p, n, e)
             b == (e \div (2 * H)) % n
  <2> HIDE DEF n
  <2>1. Rotated(z, p, TurnedBy(m, p, n, b), n, e)
    BY <1>0, <1>1, RotEq
  <2> HIDE DEF z, b
  <2>2. b = (e \div (2 * H)) % n
    BY DEF b
  <2>3. Value(z, p, n) = ((Value(m, p, n) * Two(e % Bits(n))) % Two(Bits(n)))
                           + Value(m, p, n) \div Two(Bits(n) - (e % Bits(n)))
    BY <1>0, <1>1, <2>1, <2>2, RotValue
  <2> QED BY <2>3 DEF z
<1>5. CASE op = "lRot"
  <2>1. r = lRotEq(m, p, n, by)
    BY <1>5 DEF Called
  <2>2. Promised(op, x, y, by) = left(by)
    BY <1>5 DEF Promised, Wrapped
  <2> HIDE DEF r, n, left
  <2> QED BY <1>4, <2>1, <2>2
<1>6. CASE op = "rRot"
  <2> DEFINE e == (w - by) % w
  <2>1. r = lRotEq(m, p, n, e)
    BY <1>6 DEF Called, rRotEq
  <2>2. Promised(op, x, y, by) = x \div Two(by % w) + ((x * Two(w - (by % w))) % Two(w))
    BY <1>6 DEF Promised, Wrapped
  <2> HIDE DEF r, n
  <2>3. e \in Nat
    <3>1. by \in Int
      OBVIOUS
    <3> QED BY <1>0, <1>1, <3>1, RRotEq
  <2>4. left(e) = x \div Two(by % w) + ((x * Two(w - (by % w))) % Two(w))
    <3> HIDE DEF x
    <3> QED BY <1>0, RoundBack
  <2> HIDE DEF e, left, w
  <2> QED BY <1>4, <2>1, <2>2, <2>3, <2>4
<1> QED BY <1>5, <1>6

\* A method of several limbs keeps its promise.
LEMMA CalledRight ==
  ASSUME NEW D, NEW m, NEW p, NEW q, Ready(D, m, p, q), NEW op \in Methods, NEW by \in Nat,
         op = "div" => by >= 1 /\ by <= Half \div 2
  PROVE  Fulfilled(op, Value(m, p, Limbs), Value(m, q, Limbs), by,
                   Value(Called(op, m, p, q, by), p, Limbs))
<1>1. \/ op \in {"xor", "or", "and"} \/ op \in {"add", "sub", "not", "set"}
      \/ op \in {"mul", "div", "zero", "abs"} \/ op \in {"lShift", "rShift", "signedRShift"}
      \/ op \in {"lRot", "rRot"}
  BY DEF Methods, Binary, Moving, Unary
<1>2. CASE op \in {"xor", "or", "and"}
  BY <1>2, CalledBits
<1>3. CASE op \in {"add", "sub", "not", "set"}
  BY <1>3, CalledSums
<1>4. CASE op \in {"mul", "div", "zero", "abs"}
  BY <1>4, CalledProducts
<1>5. CASE op \in {"lShift", "rShift", "signedRShift"}
  BY <1>5, CalledShifts
<1>6. CASE op \in {"lRot", "rRot"}
  BY <1>6, CalledRotations
<1> QED BY <1>1, <1>2, <1>3, <1>4, <1>5, <1>6

-----------------------------------------------------------------------------
(* U32: a number of one limb, without loops. *)

Single(z) == [i \in {0} |-> z]
LEMMA SingleIs ==
  ASSUME NEW z \in Limb
  PROVE  Single(z)[0] = z /\ Window(Single(z), 0, 1) /\ Value(Single(z), 0, 1) = z
<1>1. Single(z)[0] = z /\ 0 + 0 = 0
  BY DEF Single
<1>2. Single(z)[0 + 0] = z
  BY <1>1
<1>3. Value(Single(z), 0, 1) = Single(z)[0 + 0] /\ Window(Single(z), 0, 1)
  BY <1>2, ValueFirst
<1> QED BY <1>1, <1>2, <1>3

LEMMA OneLimb == Bits(1) = 2 * H /\ Two(Bits(1)) = Base
<1>1. Bits(1) = 2 * H
  BY BaseIs DEF Bits
<1> QED BY <1>1, BaseIs

LEMMA SingleBits ==
  ASSUME Limbs = 1, NEW op \in {"xor", "or", "and"}, NEW x \in Limb, NEW y \in Limb, NEW by
  PROVE  Fulfilled(op, x, y, by, Mixed(x, y, TableOf(op)))
<1> DEFINE f == TableOf(op)
           z == Mixed(x, y, f)
           m == [i \in 0..1 |-> IF i = 0 THEN x ELSE y]
           r == Single(z)
<1>1. f \in BitMaps
  BY TableIs
<1>2. z \in Limb
  BY <1>1, MixedLimb
<1>3. m[0 + 0] = x /\ m[1 + 0] = y
  OBVIOUS
<1> HIDE DEF m, f
<1>4. Window(m, 0, 1) /\ Window(m, 1, 1) /\ Value(m, 0, 1) = x /\ Value(m, 1, 1) = y
  BY <1>3, ValueFirst
<1>5. \A i \in 0..(1 - 1) : r[0 + i] = Mixed(m[0 + i], m[1 + i], f)
  <2>1. r[0] = z
    BY <1>2, SingleIs
  <2> HIDE DEF r
  <2>2. \A i \in 0..(1 - 1) : i = 0 /\ 0 + i = 0
    OBVIOUS
  <2> QED BY <1>3, <2>1, <2>2
<1> HIDE DEF r
<1>6. \A i \in 0..(Bits(1) - 1) : BitOf(Value(r, 0, 1), i) = f[BitOf(Value(m, 0, 1), i)][BitOf(Value(m, 1, 1), i)]
  BY <1>1, <1>4, <1>5, BitwiseValue
<1>7. Value(r, 0, 1) = z
  BY <1>2, SingleIs DEF r
<1> HIDE DEF z
<1>8. \A i \in 0..(Bits(1) - 1) : BitOf(z, i) = f[BitOf(x, i)][BitOf(y, i)]
  BY <1>4, <1>6, <1>7
<1>9. x \in Nat /\ y \in Nat /\ z \in Nat /\ Bits(1) \in Nat
  <2>1. Bits(1) \in Nat
    BY BitsIs
  <2> QED BY <1>2, <2>1, LimbIs
<1>10. Fulfilled(op, x, y, by, z)
  BY <1>8, <1>9, BitsRight DEF f
<1> QED BY <1>10 DEF z, f

LEMMA SingleSums ==
  ASSUME Limbs = 1, NEW op \in {"add", "sub", "mul", "not", "set", "zero"}, NEW x \in Limb, NEW y \in Limb, NEW by
  PROVE  Fulfilled(op, x, y, by, U32Called(op, x, y, by))
<1>1. Two(Bits(Limbs)) = Base
  BY OneLimb
<1>2. op \notin {"xor", "or", "and"}
  OBVIOUS
<1>3. U32Called(op, x, y, by) = Promised(op, x, y, by)
  BY <1>1, Zenon DEF U32Called, Promised, Wrapped, Cut
<1> QED BY <1>2, <1>3 DEF Fulfilled

LEMMA SingleShifts ==
  ASSUME Limbs = 1, NEW op \in {"lShift", "rShift"}, NEW x \in Limb, NEW y, NEW by \in Nat
  PROVE  Fulfilled(op, x, y, by, U32Called(op, x, y, by))
<1> DEFINE m == Single(x)
           z == U32Called(op, x, y, by)
           r == Single(z)
           b == byPos(by, 1)
           t == Two(by % (2 * H))
           u == Two(2 * H - (by % (2 * H)))
<1>0. m[0] = x /\ Window(m, 0, 1) /\ Value(m, 0, 1) = x
  BY SingleIs
<1> HIDE DEF m
<1>1. /\ b \in 0..1 /\ (b = 0 <=> by \div (2 * H) = 0)
  <2>1. (by \div (2 * H)) \in Nat
    <3>1. 2 * H \in Nat /\ 2 * H > 0
      BY BaseIs
    <3> QED BY <3>1
  <2> QED BY <2>1 DEF byPos, Smaller
<1>2. z = IF b = 0 THEN (IF op = "lShift" THEN Shl(x, by) ELSE Shr(x, by)) ELSE 0
  BY <1>1 DEF U32Called
<1>3. 0 \in Limb
  BY LimbIs, BaseIs
<1>4. z \in Limb
  BY <1>2, <1>3, ShlLimb, ShrLimb
<1> HIDE DEF z
<1>5. r[0] = z /\ Value(r, 0, 1) = z
  BY <1>4, SingleIs
<1> HIDE DEF r
<1>6. op \notin {"xor", "or", "and"}
  OBVIOUS
<1>7. SUFFICES z = Promised(op, x, y, by)
  BY <1>6 DEF Fulfilled, z
<1>8. \A i \in 0..(1 - 1) : i = 0 /\ 0 + i = 0
  OBVIOUS
<1>9. CASE op = "lShift"
  <2>1. ASSUME NEW i \in 0..(1 - 1)
        PROVE  r[0 + i] = IF i < b THEN 0 ELSE IF i = b THEN Shl(m[0], by)
                          ELSE Mixed(Shl(m[0 + i - b], by), CrossingUp(m[0 + i - 1 - b], by), OrBit)
    <3>1. i = 0 /\ 0 + i = 0 /\ (i < b <=> b # 0)
      BY <1>1, <1>8
    <3>2. r[0 + i] = IF b # 0 THEN 0 ELSE Shl(m[0], by)
      BY <1>0, <1>2, <1>5, <1>9, <3>1
    <3> HIDE DEF b
    <3>3. CASE b # 0
      BY <3>1, <3>2, <3>3, Zenon
    <3>4. CASE b = 0
      BY <3>1, <3>2, <3>4, Zenon
    <3> QED BY <3>3, <3>4
  <2>2. LShifted(r, 0, m, 0, 1, by)
    BY <2>1, Zenon DEF LShifted
  <2>3. Value(r, 0, 1) = (Value(m, 0, 1) * Two(by)) % Two(Bits(1))
    BY <1>0, <2>2, LShiftValue
  <2>4. Promised(op, x, y, by) = (x * Two(by)) % Two(Bits(1))
    BY <1>9 DEF Promised, Wrapped
  <2> QED BY <1>0, <1>5, <2>3, <2>4
<1>10. CASE op = "rShift"
  <2>0. Mixed(Shr(x, by), CrossingDown(0, by), OrBit) = Shr(x, by)
    <3>1. ShiftBy(by, t, u)
      BY ShiftParts
    <3> HIDE DEF t, u
    <3>2. Mixed(Shr(x, by), CrossingDown(0, by), OrBit) = x \div t + u * (0 % t) /\ Shr(x, by) = x \div t
      BY <1>3, <3>1, DownLimb
    <3>3. t \in Nat /\ t >= 1 /\ u \in Nat /\ x \in Nat
      BY <3>1, LimbIs DEF ShiftBy
    <3>4. 0 % t = 0 /\ (x \div t) \in Nat
      BY <3>3
    <3>5. u * 0 = 0
      BY <3>3
    <3> QED BY <3>2, <3>4, <3>5
  <2>1. ASSUME NEW i \in 0..(1 - 1)
        PROVE  r[0 + i] = IF i >= 1 - b THEN 0
                          ELSE Mixed(Shr(m[0 + i + b], by),
                                     CrossingDown(IF i = 1 - b - 1 THEN 0 ELSE m[0 + i + b + 1], by), OrBit)
    <3>1. i = 0 /\ 0 + i = 0 /\ (i >= 1 - b <=> b # 0) /\ (b = 0 => i = 1 - b - 1 /\ 0 + i + b = 0)
      BY <1>1, <1>8
    <3>2. r[0 + i] = IF b # 0 THEN 0 ELSE Shr(m[0], by)
      BY <1>0, <1>2, <1>5, <1>10, <3>1
    <3> HIDE DEF b
    <3>3. CASE b # 0
      BY <3>1, <3>2, <3>3, Zenon
    <3>4. CASE b = 0
      <4> DEFINE c == IF i = 1 - b - 1 THEN 0 ELSE m[0 + i + b + 1]
      <4>1. c = 0
        BY <3>1, <3>4
      <4>2. ~(i >= 1 - b) /\ m[0 + i + b] = x
        BY <1>0, <3>1, <3>4
      <4> HIDE DEF c
      <4>3. r[0 + i] = Mixed(Shr(m[0 + i + b], by), CrossingDown(c, by), OrBit)
        BY <1>0, <2>0, <3>2, <3>4, <4>1, <4>2, Zenon
      <4> QED BY <4>2, <4>3, Zenon DEF c
    <3> QED BY <3>3, <3>4
  <2>2. RShifted(r, 0, m, 0, 1, by, 0)
    BY <2>1, Zenon DEF RShifted
  <2>3. 0 = 0 * (Base - 1) /\ 0 \in 0..1
    BY BaseIs
  <2>4. (Value(m, 0, 1) - 0 * Two(Bits(1))) \div Two(by) = Value(r, 0, 1) - 0 * Two(Bits(1))
    BY <1>0, <1>3, <2>2, <2>3, RShiftValue
  <2>5. x \in Int /\ z \in Int /\ Base \in Int
    BY <1>4, LimbIs, BaseIs
  <2>6. x - 0 * Base = x /\ z - 0 * Base = z
    BY <2>5
  <2>7. Promised(op, x, y, by) = x \div Two(by)
    BY <1>10 DEF Promised
  <2> QED BY <1>0, <1>5, <2>4, <2>6, <2>7, OneLimb
<1> QED BY <1>9, <1>10

LEMMA SingleRotations ==
  ASSUME Limbs = 1, NEW op \in {"lRot", "rRot"}, NEW x \in Limb, NEW y, NEW by \in Nat
  PROVE  Fulfilled(op, x, y, by, U32Called(op, x, y, by))
<1> DEFINE m == Single(x)
           z == U32Called(op, x, y, by)
           r == Single(z)
           w == Bits(1)
<1>0. m[0] = x /\ Window(m, 0, 1) /\ Value(m, 0, 1) = x
  BY SingleIs
<1> HIDE DEF m
<1>4. z \in Limb
  BY ShiftedLimb DEF U32Called
<1>6. op \notin {"xor", "or", "and"}
  OBVIOUS
<1>7. SUFFICES z = Promised(op, x, y, by)
  BY <1>6 DEF Fulfilled
<1>8. CASE op = "lRot"
  <2>1. z = Mixed(Shl(x, by), CrossingUp(x, by), OrBit)
    BY <1>8 DEF U32Called
  <2>2. Promised(op, x, y, by) = ((x * Two(by % w)) % Two(w)) + x \div Two(w - (by % w))
    BY <1>8 DEF Promised, Wrapped
  <2> HIDE DEF z
  <2>3. r[0] = z /\ Value(r, 0, 1) = z
    BY <1>4, SingleIs
  <2> DEFINE b == (by \div (2 * H)) % 1
             g == TurnedBy(m, 0, 1, b)
  <2>4. b = 0
    <3>1. 2 * H \in Nat /\ 2 * H > 0
      BY BaseIs
    <3>2. (by \div (2 * H)) \in Nat
      BY <3>1
    <3> QED BY <3>2
  <2> HIDE DEF b, r
  <2>5. g[0] = x
    BY <1>0, <2>4 DEF TurnedBy
  <2> HIDE DEF g
  <2>6. ASSUME NEW i \in 0..(1 - 1)
        PROVE  r[0 + i] = Mixed(Shl(g[i], by), CrossingUp(g[IF i = 0 THEN 1 - 1 ELSE i - 1], by), OrBit)
    <3>1. i = 0 /\ 0 + i = 0 /\ (IF i = 0 THEN 1 - 1 ELSE i - 1) = 0
      OBVIOUS
    <3> QED BY <2>1, <2>3, <2>5, <3>1, Zenon
  <2>7. Rotated(r, 0, g, 1, by)
    BY <2>6, Zenon DEF Rotated
  <2>8. Rotated(r, 0, TurnedBy(m, 0, 1, b), 1, by) /\ b = (by \div (2 * H)) % 1
    BY <2>7 DEF g, b
  <2>9. Value(r, 0, 1) = ((Value(m, 0, 1) * Two(by % Bits(1))) % Two(Bits(1)))
                           + Value(m, 0, 1) \div Two(Bits(1) - (by % Bits(1)))
    BY <1>0, <2>8, RotValue
  <2> QED BY <1>0, <2>2, <2>3, <2>9
<1>9. CASE op = "rRot"
  <2> DEFINE t == Two(by % (2 * H))
             u == Two(2 * H - (by % (2 * H)))
  <2>1. z = Mixed(Shr(x, by), CrossingDown(x, by), OrBit)
    BY <1>9 DEF U32Called
  <2>2. Promised(op, x, y, by) = x \div Two(by % w) + ((x * Two(w - (by % w))) % Two(w))
    BY <1>9 DEF Promised, Wrapped
  <2>3. Promised(op, x, y, by) = x \div t + ((x * u) % Base)
    BY <2>2, OneLimb
  <2>4. ShiftBy(by, t, u)
    BY ShiftParts
  <2> HIDE DEF t, u, z
  <2>5. z = x \div t + u * (x % t)
    BY <2>1, <2>4, DownLimb
  <2>6. (x * u) % Base = u * (x % t)
    <3>1. t \in Nat /\ t >= 1 /\ u \in Nat /\ u >= 1 /\ Base = t * u
      BY <2>4 DEF ShiftBy
    <3>2. x \in Nat
      BY LimbIs
    <3> QED BY <3>1, <3>2, CutTimes DEF Cut
  <2> QED BY <2>3, <2>5, <2>6
<1> QED BY <1>8, <1>9

LEMMA SingleRight ==
  ASSUME Limbs = 1, NEW op \in U32Mut.methods, NEW x \in Limb, NEW y \in Limb, NEW by \in Nat
  PROVE  Fulfilled(op, x, y, by, U32Called(op, x, y, by))
<1>1. \/ op \in {"xor", "or", "and"} \/ op \in {"add", "sub", "mul", "not", "set", "zero"}
      \/ op \in {"lShift", "rShift"} \/ op \in {"lRot", "rRot"}
  BY DEF U32Mut, IUint, Class
<1>2. CASE op \in {"xor", "or", "and"}
  <2>1. U32Called(op, x, y, by) = Mixed(x, y, TableOf(op))
    BY <1>2 DEF U32Called, TableOf
  <2> QED BY <1>2, <2>1, SingleBits
<1>3. CASE op \in {"add", "sub", "mul", "not", "set", "zero"}
  BY <1>3, SingleSums
<1>4. CASE op \in {"lShift", "rShift"}
  BY <1>4, SingleShifts
<1>5. CASE op \in {"lRot", "rRot"}
  BY <1>5, SingleRotations
<1> QED BY <1>1, <1>2, <1>3, <1>4, <1>5

-----------------------------------------------------------------------------
(* Builders. *)

\* Only the lowest limb, and below a sign
LEMMA FirstAndSigns ==
  ASSUME NEW r, NEW k \in Nat, k >= 1, NEW s \in 0..1, r[0] \in Limb,
         \A i \in 1..(k - 1) : r[i] = s * (Base - 1)
  PROVE  Value(r, 0, k) = (r[0] - s * Base) + s * Two(Bits(k)) /\ Window(r, 0, k)
<1> DEFINE n == k - 1
           v == Value(r, 0 + 1, n)
           w == Two(Bits(n))
<1>1. n \in Nat /\ 1 + n = k /\ 0 + 0 = 0 /\ 0 + 1 = 1
  OBVIOUS
<1>2. s * (Base - 1) \in Limb
  <2>1. 0 \in Limb /\ Base \in Nat
    BY LimbIs, BaseIs
  <2>2. Base - 1 \in Limb
    <3>1. Base - 1 - 0 \in Limb
      BY <2>1, NotLimb
    <3>2. Base - 1 - 0 = Base - 1
      BY <2>1
    <3> QED BY <3>1, <3>2
  <2>3. 0 * (Base - 1) = 0 /\ 1 * (Base - 1) = Base - 1
    BY <2>1
  <2> QED BY <2>1, <2>2, <2>3
<1>3. \A i \in 0..(n - 1) : r[(0 + 1) + i] = s * (Base - 1)
  <2>1. ASSUME NEW i \in 0..(n - 1) PROVE (0 + 1) + i \in 1..(k - 1)
    OBVIOUS
  <2> QED BY <2>1
<1>4. Window(r, 0, k)
  <2>1. ASSUME NEW i \in 0..(k - 1) PROVE r[0 + i] \in Limb
    <3>1. 0 + i = i /\ (i = 0 \/ i \in 1..(k - 1))
      OBVIOUS
    <3> QED BY <1>2, <3>1
  <2> QED BY <2>1 DEF Window
<1> HIDE DEF n
<1>5. Value(r, 0, 1 + n) = Value(r, 0, 1) + Two(Bits(1)) * v
  <2>1. Window(r, 0, 1 + n) /\ 0 \in Int /\ 1 \in Nat
    BY <1>1, <1>4
  <2> QED BY <1>1, <2>1, ValueSplit
<1>6. Value(r, 0, 1) = r[0]
  <2>1. r[0 + 0] \in Limb
    BY <1>1
  <2> QED BY <1>1, <2>1, ValueFirst
<1>7. v = s * (w - 1)
  BY <1>1, <1>3, OnesValue
<1>8. Two(Bits(k)) = Base * w /\ w \in Int /\ Base \in Int /\ r[0] \in Int
  <2>1. k = n + 1 /\ r[0] \in Int
    BY <1>1, LimbIs
  <2>2. Base \in Int
    BY BaseIs
  <2> QED BY <1>1, <2>1, <2>2, BitsIs
<1> HIDE DEF w
<1>9. Base * (s * (w - 1)) = s * (Base * w) - s * Base
  <2>1. CASE s = 0
    BY <1>8, <2>1
  <2>2. CASE s = 1
    BY <1>8, <2>2
  <2> QED BY <2>1, <2>2
<1> DEFINE a == s * (Base * w)
           b == s * Base
<1>10. a \in Int /\ b \in Int
  BY <1>8
<1>11. Value(r, 0, k) = r[0] + (a - b)
  BY <1>1, <1>5, <1>6, <1>7, <1>9, OneLimb
<1> HIDE DEF a, b
<1>12. r[0] + (a - b) = (r[0] - b) + a
  BY <1>8, <1>10
<1> QED BY <1>4, <1>8, <1>11, <1>12 DEF a, b

LEMMA BuiltSigned ==
  ASSUME NEW k \in Nat, k >= 1, NEW x \in Int
  PROVE  /\ Value(fromSignedSet(<<x>>, k), 0, k)
              = (IF x < 0 THEN Cut(x) - Base ELSE Cut(x)) % Two(Bits(k))
         /\ ~(x < 0) => Value(fromSignedSet(<<x>>, k), 0, k) = Cut(x)
<1> DEFINE s == IF x < 0 THEN 1 ELSE 0
           r == fromSignedSet(<<x>>, k)
           w == Two(Bits(k))
           z == IF x < 0 THEN Cut(x) - Base ELSE Cut(x)
<1>0. Base \in Nat /\ Base >= 4 /\ w \in Int
  BY BaseIs, BitsIs
<1>1. Cut(x) \in Limb /\ Cut(x) \in Int
  BY CutIs, LimbIs
<1>2. s \in 0..1 /\ s * (Base - 1) = IF x < 0 THEN Base - 1 ELSE 0
  BY <1>0
<1>3. /\ r[0] = Cut(x)
      /\ \A i \in 1..(k - 1) : r[i] = s * (Base - 1)
  <2>1. Len(<<x>>) = 1 /\ <<x>>[1] = x /\ <<x>> # <<>>
    OBVIOUS
  <2>2. \A i \in 0..(k - 1) : r[i] = IF i < 1 THEN Cut(<<x>>[i + 1])
                                     ELSE IF <<x>> # <<>> /\ <<x>>[1] < 0 THEN Base - 1 ELSE 0
    BY <2>1 DEF fromSignedSet
  <2> HIDE DEF r, s
  <2>3. 0 \in 0..(k - 1) /\ 0 < 1 /\ 0 + 1 = 1
    OBVIOUS
  <2>4. r[0] = Cut(x)
    BY <2>1, <2>2, <2>3
  <2>5. ASSUME NEW i \in 1..(k - 1) PROVE r[i] = s * (Base - 1)
    <3>1. i \in 0..(k - 1) /\ ~(i < 1)
      OBVIOUS
    <3> QED BY <1>2, <2>1, <2>2, <3>1
  <2> QED BY <2>4, <2>5
<1>4. z = Cut(x) - s * Base /\ z \in Int /\ (~(x < 0) => s * Base = 0 /\ s * w = 0 /\ z = Cut(x))
  <2>1. CASE x < 0
    BY <1>0, <1>1, <2>1
  <2>2. CASE ~(x < 0)
    BY <1>0, <1>1, <2>2
  <2> QED BY <2>1, <2>2
<1>5. r[0] \in Limb
  BY <1>1, <1>3
<1> HIDE DEF r, s
<1>6. Value(r, 0, k) = (r[0] - s * Base) + s * w /\ Window(r, 0, k)
  BY <1>2, <1>3, <1>5, FirstAndSigns
<1> HIDE DEF w, z
<1>7. s * w \in Int /\ w * (0 - s) = 0 - s * w /\ 0 - s \in Int
  BY <1>0, <1>2
<1>8. Value(r, 0, k) = z + s * w
  BY <1>3, <1>4, <1>6
<1>9. Value(r, 0, k) + w * (0 - s) = z
  BY <1>4, <1>7, <1>8
<1>10. Value(r, 0, k) = z % w
  BY <1>4, <1>6, <1>7, <1>9, WrapIs DEF w
<1>11. ~(x < 0) => Value(r, 0, k) = Cut(x)
  BY <1>1, <1>4, <1>8
<1> QED BY <1>10, <1>11 DEF r, w, z

LEMMA BuiltUnsigned ==
  ASSUME NEW k \in Nat, k >= 1, NEW x \in Int
  PROVE  Value(fromSet(<<x>>, k), 0, k) = Cut(x)
<1> DEFINE r == fromSet(<<x>>, k)
<1>0. Base \in Int /\ Two(Bits(k)) \in Int
  BY BaseIs, BitsIs
<1>1. \A i \in 0..(k - 1) : r[i] = IF i < 1 THEN Cut(<<x>>[i + 1]) ELSE 0
  BY DEF fromSet
<1> HIDE DEF r
<1>2. r[0] = Cut(x)
  <2>1. 0 \in 0..(k - 1) /\ 0 < 1 /\ 0 + 1 = 1 /\ <<x>>[1] = x
    OBVIOUS
  <2> QED BY <1>1, <2>1
<1>3. \A i \in 1..(k - 1) : r[i] = 0 * (Base - 1)
  <2>1. ASSUME NEW i \in 1..(k - 1) PROVE r[i] = 0 * (Base - 1)
    <3>1. i \in 0..(k - 1) /\ ~(i < 1)
      OBVIOUS
    <3>2. 0 * (Base - 1) = 0
      BY <1>0
    <3> QED BY <1>1, <3>1, <3>2
  <2> QED BY <2>1
<1>4. r[0] \in Limb /\ 0 \in 0..1
  BY <1>2, CutIs
<1>5. Value(r, 0, k) = (r[0] - 0 * Base) + 0 * Two(Bits(k))
  BY <1>3, <1>4, FirstAndSigns
<1>6. r[0] \in Int
  BY <1>4, LimbIs
<1>7. Value(r, 0, k) = r[0]
  BY <1>0, <1>5, <1>6
<1> QED BY <1>2, <1>7 DEF r

LEMMA BuiltInt ==
  ASSUME NEW k \in Nat, k >= 1, NEW x \in Int, x < Base * Base, x < 0 => k <= 2
  PROVE  Value(fromInt(x, k), 0, k) = x % Two(Bits(k))
<1> DEFINE r == fromInt(x, k)
           d == x \div Base
<1>0. Base \in Nat /\ Base >= 4
  BY BaseIs
<1>1. \A i \in 0..(k - 1) : r[i] = IF i = 0 THEN Cut(x) ELSE IF i = 1 THEN Cut(d) ELSE 0
  BY DEF fromInt
<1> HIDE DEF r
<1>2. d \in Int /\ x = Base * d + Cut(x) /\ Cut(x) \in Limb /\ Cut(d) \in Limb /\ d = Base * (d \div Base) + Cut(d)
      /\ (d \div Base) \in Int
  BY CutIs
<1> HIDE DEF d
<1>3. 0 \in 0..(k - 1) /\ 0 + 0 = 0
  OBVIOUS
<1>4. r[0] = Cut(x)
  BY <1>1, <1>3
<1>5. Window(r, 0, k)
  <2>1. 0 \in Limb
    BY LimbIs, BaseIs
  <2>2. ASSUME NEW i \in 0..(k - 1) PROVE r[0 + i] \in Limb
    <3>1. 0 + i = i
      OBVIOUS
    <3> QED BY <1>1, <1>2, <2>1, <3>1
  <2> QED BY <2>2 DEF Window
<1>6. Value(r, 0, 1) = Cut(x)
  BY <1>2, <1>3, <1>4, ValueFirst
<1>7. CASE k = 1
  <2>1. Value(r, 0, k) + Two(Bits(k)) * d = x
    <3> DEFINE a == Base * d
    <3>1. a \in Int /\ Cut(x) \in Int
      BY <1>0, <1>2, LimbIs
    <3>2. Two(Bits(k)) * d = a
      BY <1>7, OneLimb
    <3>3. x = a + Cut(x) /\ Value(r, 0, k) = Cut(x)
      BY <1>2, <1>6, <1>7
    <3> HIDE DEF a
    <3> QED BY <3>1, <3>2, <3>3
  <2> QED BY <1>2, <1>5, <2>1, WrapIs DEF r
<1>8. CASE k # 1
  <2> DEFINE n == k - 2
             hi == Value(r, 0 + 2, n)
             v == Value(r, 0, 2)
  <2>1. n \in Nat /\ 2 + n = k /\ 1 \in 0..(k - 1) /\ 0 + 1 = 1 /\ 1 + 0 = 1 /\ 1 + 1 = 2
    BY <1>8
  <2>2. Window(r, 0, 2) /\ Value(r, 0, 2 + n) = v + Two(Bits(2)) * hi
    <3>1. Window(r, 0, 2 + n) /\ 0 \in Int /\ 2 \in Nat
      BY <1>5, <2>1
    <3> HIDE DEF n
    <3> QED BY <2>1, <3>1, ValueSplit
  <2>3. hi = 0
    <3>1. ASSUME NEW i \in 0..(n - 1) PROVE r[(0 + 2) + i] = 0
      <4>1. (0 + 2) + i \in 0..(k - 1) /\ (0 + 2) + i # 0 /\ (0 + 2) + i # 1
        BY <2>1
      <4> QED BY <1>1, <4>1
    <3> HIDE DEF n
    <3> QED BY <2>1, <3>1, ZeroValue
  <2>4. v = Cut(x) + Base * Cut(d)
    <3> DEFINE y == Value(r, 0 + 1, 1)
    <3>1. Value(r, 0, 1 + 1) = Value(r, 0, 1) + Two(Bits(1)) * y
      <4>1. Window(r, 0, 1 + 1) /\ 0 \in Int /\ 1 \in Nat
        BY <2>1, <2>2
      <4> QED BY <4>1, ValueSplit
    <3>2. y = Cut(d)
      <4>1. r[1] = Cut(d) /\ r[1] \in Limb
        BY <1>1, <1>2, <2>1
      <4>2. r[1 + 0] \in Limb
        BY <2>1, <4>1
      <4>3. Value(r, 1, 1) = r[1 + 0]
        BY <4>2, ValueFirst
      <4> QED BY <2>1, <4>1, <4>3
    <3> HIDE DEF y
    <3> QED BY <1>6, <2>1, <3>1, <3>2, OneLimb
  <2>5. Value(r, 0, k) = v
    <3>1. Two(Bits(2)) \in Int
      BY BitsIs
    <3>2. Two(Bits(2)) * hi = 0
      BY <2>3, <3>1
    <3>3. v \in Int
      BY <2>2, ValueIs
    <3> QED BY <2>1, <2>2, <3>2, <3>3
  <2>6. Two(Bits(2)) = Base * Base
    <3>1. Two(Bits(1 + 1)) = Base * Two(Bits(1))
      BY BitsIs
    <3> QED BY <2>1, <3>1, OneLimb
  <2> DEFINE e == d \div Base
             a == Base * d
             b == Base * (Base * e)
             c == Base * Cut(d)
  <2>7. e \in Int /\ a \in Int /\ b \in Int /\ c \in Int /\ Cut(x) \in Int /\ a = b + c
    <3>1. Cut(d) \in Int /\ Cut(x) \in Int
      BY <1>2, LimbIs
    <3> DEFINE f == Base * e
    <3>2. f \in Int /\ d = f + Cut(d)
      BY <1>0, <1>2
    <3> HIDE DEF f
    <3>3. Base * (f + Cut(d)) = Base * f + Base * Cut(d)
      BY <1>0, <3>1, <3>2, TimesSum
    <3>4. Base * d = Base * f + Base * Cut(d)
      BY <3>2, <3>3
    <3>5. Base * d \in Int /\ Base * f \in Int /\ Base * Cut(d) \in Int
      BY <1>0, <1>2, <3>1, <3>2
    <3> QED BY <1>2, <3>1, <3>4, <3>5 DEF f
  <2>8. (Base * Base) * e = b
    BY <1>0, <2>7, TimesAssoc
  <2>9. Value(r, 0, k) + (Base * Base) * e = x
    <3>1. x = a + Cut(x) /\ v = Cut(x) + c
      BY <1>2, <2>4
    <3> HIDE DEF a, b, c, v, e
    <3> QED BY <2>5, <2>7, <2>8, <3>1
  <2>10. CASE k = 2
    <3>1. Value(r, 0, k) + Two(Bits(k)) * e = x
      BY <2>6, <2>9, <2>10
    <3> HIDE DEF e
    <3> QED BY <1>5, <2>7, <3>1, WrapIs DEF r
  <2>11. CASE k # 2
    <3>1. x >= 0 /\ x < Base * Base
      BY <1>8, <2>11
    <3>2. v >= 0 /\ v < Base * Base /\ v \in Int
      <4>1. v \in Nat /\ v < Two(Bits(2))
        BY <2>2, ValueRange
      <4> HIDE DEF v
      <4> QED BY <2>6, <4>1
    <3> DEFINE g == Base * Base
    <3>3. g \in Nat /\ v + g * e = x /\ 0 <= v /\ v < g /\ 0 <= x /\ x < g
      BY <1>0, <2>5, <2>9, <3>1, <3>2
    <3> HIDE DEF g, v, e
    <3>4. e = 0
      <4>1. CASE e >= 1
        <5>1. PICK j \in Nat : e = 1 + j
          <6>1. e - 1 \in Nat /\ e = 1 + (e - 1)
            BY <2>7, <4>1
          <6> QED BY <6>1
        <5>2. g * e = g + g * j /\ g * j \in Nat
          BY <3>3, <5>1
        <5> QED BY <3>2, <3>3, <5>2
      <4>2. CASE e <= 0 - 1
        <5>1. PICK j \in Nat : e = (0 - 1) - j
          <6>1. (0 - 1) - e \in Nat /\ e = (0 - 1) - ((0 - 1) - e)
            BY <2>7, <4>2
          <6> QED BY <6>1
        <5>2. g * e = (0 - g) - g * j /\ g * j \in Nat
          BY <3>3, <5>1
        <5> QED BY <3>2, <3>3, <5>2
      <4> QED BY <2>7, <4>1, <4>2
    <3>5. v = x
      BY <3>2, <3>3, <3>4
    <3>6. Two(Bits(k)) \in Int /\ Two(Bits(k)) * 0 = 0
      BY BitsIs
    <3>7. Value(r, 0, k) + Two(Bits(k)) * 0 = x
      BY <2>5, <3>2, <3>5, <3>6
    <3> QED BY <1>5, <3>7, WrapIs DEF r
  <2> QED BY <2>10, <2>11
<1> QED BY <1>7, <1>8

-----------------------------------------------------------------------------
(* Every step. *)

\* What ArithmeticRight says of the record of a call
RecordRight(l) ==
    \/ Classes[kind].mut /\ ~Free(l.p, l.q, Limbs)
    \/ l.op = "div" /\ l.by > Half \div 2
    \/ l.op = "fromInt" /\ l.by < 0 /\ Limbs > 2
    \/ l.op = "fromI32s" /\ OnesPromised(l.by) # OnesFilled(l.by)
    \/ Fulfilled(l.op, l.x, l.y, l.by, l.got)

LEMMA RecordedIs ==
  ASSUME NEW op, NEW p, NEW q, NEW by, NEW got, NEW l, l = Recorded(op, p, q, by, got)
  PROVE  /\ l.op = op /\ l.p = p /\ l.q = q /\ l.by = by /\ l.got = got
         /\ l.x = Value(mem, p, Limbs) /\ l.y = Value(mem, q, Limbs)
BY DEF Recorded

LEMMA InPlaceRight ==
  ASSUME NumbersTyped, NEW op, NEW p, NEW q, NEW by, Call(op, p, q, by), InPlace(op, p, q, by)
  PROVE  \E l : last' = l /\ RecordRight(l)
<1> DEFINE n == Limbs
<1>1. mem \in [Positions -> Limb] /\ kind \in DOMAIN Classes
  BY DEF NumbersTyped
<1>2. p \in Int /\ q \in Int /\ Fits(Positions, p, n) /\ Fits(Positions, q, n)
  BY <1>1, WindowsFit DEF Call
<1>3. Positions \in SUBSET Int
  BY NumbersAssumption DEF Positions
<1>4. op \in Methods /\ by \in Nat /\ (op = "div" => by # 0)
  BY DEF Call
<1>5. Classes[kind].mut /\ last' = Recorded(op, p, q, by, Value(mem', p, n))
  BY DEF InPlace
<1>6. PICK m : m = mem'
  OBVIOUS
<1> DEFINE got == Value(m, p, n)
           l == Recorded(op, p, q, by, got)
<1>7. last' = l
  BY <1>5, <1>6
<1>8. /\ l.op = op /\ l.p = p /\ l.q = q /\ l.by = by /\ l.got = got
      /\ l.x = Value(mem, p, n) /\ l.y = Value(mem, q, n)
  <2> HIDE DEF got
  <2> QED BY RecordedIs
<1> HIDE DEF l
<1>9. CASE Free(p, q, n) /\ ~(op = "div" /\ by > Half \div 2)
  <2>1. Fulfilled(op, Value(mem, p, n), Value(mem, q, n), by, got)
    <3>1. CASE kind = "U32Mut"
      <4>1. n = 1
        BY <1>1, <3>1, LimbsIs
      <4>2. p + 0 \in Positions /\ q + 0 \in Positions
        BY <1>2, <4>1 DEF Fits
      <4>3. p \in Positions /\ q \in Positions /\ p + 0 = p /\ q + 0 = q
        BY <1>2, <4>2
      <4> DEFINE x == U32Called(op, mem[p], mem[q], by)
      <4>4. op \in U32Mut.methods
        BY <3>1, U32Methods DEF Call
      <4>5. mem[p] \in Limb /\ mem[q] \in Limb
        BY <1>1, <4>3
      <4>6. x \in Limb
        BY <1>4, <4>4, <4>5, U32CalledLimb
      <4>7. Fulfilled(op, mem[p], mem[q], by, x)
        BY <1>4, <4>1, <4>4, <4>5, SingleRight
      <4>8. m = [mem EXCEPT ![p] = x]
        BY <1>6, <3>1 DEF InPlace
      <4> HIDE DEF x
      <4>9. m[p + 0] = x
        BY <1>1, <4>3, <4>8
      <4>10. Value(m, p, 1) = x /\ Value(mem, p, 1) = mem[p] /\ Value(mem, q, 1) = mem[q]
        <5>1. Value(m, p, 1) = m[p + 0]
          BY <4>6, <4>9, ValueFirst
        <5>2. Value(mem, p, 1) = mem[p + 0] /\ Value(mem, q, 1) = mem[q + 0]
          BY <4>3, <4>5, ValueFirst
        <5> QED BY <4>3, <4>9, <5>1, <5>2
      <4> HIDE DEF n
      <4> QED BY <4>1, <4>7, <4>10
    <3>2. CASE kind # "U32Mut"
      <4>1. m = Called(op, mem, p, q, by)
        BY <1>6, <3>2 DEF InPlace
      <4>2. Ready(Positions, mem, p, q)
        BY <1>1, <1>2, <1>3, <1>9 DEF Ready
      <4>3. op = "div" => by >= 1 /\ by <= Half \div 2
        <5>1. Half \in Nat
          BY BaseIs
        <5> QED BY <1>4, <1>9, <5>1
      <4>4. Fulfilled(op, Value(mem, p, Limbs), Value(mem, q, Limbs), by,
                      Value(Called(op, mem, p, q, by), p, Limbs))
        BY <1>4, <4>2, <4>3, CalledRight
      <4> QED BY <4>1, <4>4
    <3> QED BY <3>1, <3>2
  <2>2. RecordRight(l)
    <3> HIDE DEF got, n
    <3> QED BY <1>8, <2>1 DEF RecordRight
  <2> QED BY <1>7, <2>2
<1>10. CASE ~Free(p, q, n)
  BY <1>5, <1>7, <1>8, <1>10 DEF RecordRight
<1>11. CASE op = "div" /\ by > Half \div 2
  BY <1>7, <1>8, <1>11 DEF RecordRight
<1> QED BY <1>9, <1>10, <1>11

LEMMA PureRight ==
  ASSUME NumbersTyped, NEW op, NEW p, NEW q, NEW by, Call(op, p, q, by), Pure(op, p, q, by)
  PROVE  \E l : last' = l /\ RecordRight(l)
<1> DEFINE n == Limbs
           D == 0..(Size + n - 1)
           m == WithCopy(p)
           x == Value(mem, p, n)
           y == Value(mem, q, n)
           got == IF kind = "U32" THEN U32Called(op, mem[p], mem[q], by)
                  ELSE Value(Called(op, m, Size, q, by), Size, n)
           l == Recorded(op, p, q, by, got)
<1>1. mem \in [Positions -> Limb] /\ kind \in DOMAIN Classes /\ Size \in Nat
  BY NumbersAssumption DEF NumbersTyped
<1>2. p \in Int /\ q \in Int /\ Fits(Positions, p, n) /\ Fits(Positions, q, n)
  BY <1>1, WindowsFit DEF Call
<1>3. n \in Nat /\ n >= 1
  BY <1>1, LimbsIs
<1>4. op \in Methods /\ by \in Nat /\ (op = "div" => by # 0)
  BY DEF Call
<1>5. last' = l
  BY DEF Pure
<1>6. /\ l.op = op /\ l.by = by /\ l.got = got /\ l.x = x /\ l.y = y
  <2> HIDE DEF got
  <2> QED BY RecordedIs
<1> HIDE DEF l
<1>7. CASE op = "div" /\ by > Half \div 2
  BY <1>5, <1>6, <1>7 DEF RecordRight
<1>8. CASE ~(op = "div" /\ by > Half \div 2)
  <2>1. Fulfilled(op, x, y, by, got)
    <3>1. CASE kind = "U32"
      <4>1. n = 1
        BY <1>1, <3>1, LimbsIs
      <4>2. p + 0 \in Positions /\ q + 0 \in Positions
        BY <1>2, <4>1 DEF Fits
      <4>3. p \in Positions /\ q \in Positions /\ p + 0 = p /\ q + 0 = q
        BY <1>2, <4>2
      <4>4. op \in U32Mut.methods
        BY <3>1, U32Methods DEF Call
      <4>5. mem[p] \in Limb /\ mem[q] \in Limb
        BY <1>1, <4>3
      <4>6. Fulfilled(op, mem[p], mem[q], by, U32Called(op, mem[p], mem[q], by))
        BY <1>4, <4>1, <4>4, <4>5, SingleRight
      <4>7. Value(mem, p, 1) = mem[p] /\ Value(mem, q, 1) = mem[q]
        <5>1. Value(mem, p, 1) = mem[p + 0] /\ Value(mem, q, 1) = mem[q + 0]
          BY <4>3, <4>5, ValueFirst
        <5> QED BY <4>3, <5>1
      <4>8. got = U32Called(op, mem[p], mem[q], by)
        BY <3>1
      <4> HIDE DEF got, n
      <4> QED BY <4>1, <4>6, <4>7, <4>8
    <3>2. CASE kind # "U32"
      <4>1. D \in SUBSET Int /\ Size \in Int
        BY <1>1, <1>3
      <4>2. q \in 0..(Size - n) /\ p \in 0..(Size - n)
        BY DEF Call, Windows
      <4>3. m = [k \in D |-> IF k < Size THEN mem[k] ELSE mem[p + k - Size]]
        BY DEF WithCopy
      <4> HIDE DEF m
      <4>4. ASSUME NEW k \in D PROVE m[k] \in Limb
        <5>1. CASE k < Size
          <6>1. k \in Positions
            BY <1>1, <5>1 DEF Positions
          <6> QED BY <1>1, <4>3, <5>1, <6>1
        <5>2. CASE ~(k < Size)
          <6>1. p + k - Size \in Positions
            BY <1>1, <1>3, <4>2, <5>2 DEF Positions
          <6>2. m[k] = mem[p + k - Size]
            BY <4>3, <5>2
          <6> QED BY <1>1, <6>1, <6>2
        <5> QED BY <5>1, <5>2
      <4>5. m \in [D -> Limb]
        BY <4>3, <4>4
      <4>6. Fits(D, Size, n) /\ Fits(D, q, n)
        <5>1. ASSUME NEW i \in 0..(n - 1) PROVE Size + i \in D /\ q + i \in D
          BY <1>1, <1>3, <4>2
        <5> QED BY <5>1 DEF Fits
      <4>7. Free(Size, q, n)
        BY <1>1, <1>3, <4>2 DEF Free
      <4>8. Ready(D, m, Size, q)
        BY <1>1, <1>2, <4>1, <4>5, <4>6, <4>7 DEF Ready
      <4>9. op = "div" => by >= 1 /\ by <= Half \div 2
        <5>1. Half \in Nat
          BY BaseIs
        <5> QED BY <1>4, <1>8, <5>1
      <4>10. Fulfilled(op, Value(m, Size, n), Value(m, q, n), by, Value(Called(op, m, Size, q, by), Size, n))
        <5> HIDE DEF D
        <5> QED BY <1>4, <4>8, <4>9, CalledRight
      <4>11. Window(mem, p, n) /\ Window(mem, q, n)
        <5> HIDE DEF n
        <5> QED BY <1>1, <1>2, WindowFits
      <4>12. Value(m, Size, n) = x /\ Value(m, q, n) = y
        <5>1. ASSUME NEW i \in 0..(n - 1) PROVE m[Size + i] = mem[p + i] /\ m[q + i] = mem[q + i]
          <6>1. Size + i \in D /\ q + i \in D /\ ~(Size + i < Size) /\ q + i < Size /\ p + (Size + i) - Size = p + i
            BY <1>1, <1>2, <1>3, <4>2
          <6> HIDE DEF D
          <6> QED BY <4>3, <6>1
        <5> HIDE DEF n, D
        <5> QED BY <1>3, <4>11, <5>1, ValueSame
      <4>13. got = Value(Called(op, m, Size, q, by), Size, n)
        BY <3>2
      <4> HIDE DEF got, x, y, n
      <4> QED BY <4>10, <4>12, <4>13
    <3> QED BY <3>1, <3>2
  <2> HIDE DEF got, x, y
  <2> QED BY <1>5, <1>6, <2>1 DEF RecordRight
<1> QED BY <1>7, <1>8

LEMMA BuildRight ==
  ASSUME NumbersTyped, NEW x \in Ints, NEW op \in {"fromInt", "fromI32s"}, Build(op, x)
  PROVE  \E l : last' = l /\ RecordRight(l)
<1> DEFINE n == Limbs
           signed == Classes[kind].mut \/ Classes[kind].signed
           built == IF op = "fromInt" THEN fromInt(x, n)
                    ELSE IF signed THEN fromSignedSet(<<x>>, n) ELSE fromSet(<<x>>, n)
           got == Value(built, 0, n)
           l == Recorded(op, 0, 0, x, got)
<1>1. n \in Nat /\ n >= 1
  BY LimbsIs DEF NumbersTyped
<1>2. x \in Int /\ x < Base * Base
  <2> DEFINE b == Base * Base
  <2>1. b \in Int
    BY BaseIs
  <2>2. x \in (-b)..(b - 1)
    BY NumbersAssumption
  <2> HIDE DEF b
  <2>3. x \in Int /\ x < b
    BY <2>1, <2>2
  <2> QED BY <2>3 DEF b
<1>3. last' = l
  BY DEF Build, FillsWithSign
<1>4. l.op = op /\ l.by = x /\ l.got = got
  <2> HIDE DEF got
  <2> QED BY RecordedIs
<1> HIDE DEF l
<1>5. CASE op = "fromInt"
  <2>1. CASE x < 0 /\ n > 2
    BY <1>3, <1>4, <1>5, <2>1 DEF RecordRight
  <2>2. CASE ~(x < 0 /\ n > 2)
    <3>1. x < 0 => n <= 2
      BY <1>1, <2>2
    <3> DEFINE w == Two(Bits(n))
    <3>2. Value(fromInt(x, n), 0, n) = x % w
      <4> HIDE DEF n
      <4> QED BY <1>1, <1>2, <3>1, BuiltInt
    <3>3. got = x % w
      BY <1>5, <3>2
    <3>4. Promised(op, l.x, l.y, x) = x % w
      BY <1>5 DEF Promised, Wrapped
    <3> HIDE DEF got, w
    <3>5. Fulfilled(op, l.x, l.y, x, got)
      BY <1>5, <3>3, <3>4 DEF Fulfilled
    <3> QED BY <1>3, <1>4, <3>5 DEF RecordRight
  <2> QED BY <2>1, <2>2
<1>6. CASE op = "fromI32s"
  <2>1. CASE OnesPromised(x) # OnesFilled(x)
    BY <1>3, <1>4, <1>6, <2>1 DEF RecordRight
  <2>2. CASE OnesPromised(x) = OnesFilled(x)
    <3> DEFINE w == Two(Bits(n))
               z == IF x < 0 THEN Cut(x) - Base ELSE Cut(x)
    <3>1. /\ Value(fromSignedSet(<<x>>, n), 0, n) = z % w
          /\ ~(x < 0) => Value(fromSignedSet(<<x>>, n), 0, n) = Cut(x)
          /\ Value(fromSet(<<x>>, n), 0, n) = Cut(x)
      <4> HIDE DEF n
      <4> QED BY <1>1, <1>2, BuiltSigned, BuiltUnsigned
    <3>2. got = IF signed THEN Value(fromSignedSet(<<x>>, n), 0, n) ELSE Value(fromSet(<<x>>, n), 0, n)
      BY <1>6
    <3>3. Promised(op, l.x, l.y, x) = IF Classes[kind].signed THEN Signed(Cut(x)) % w ELSE Cut(x)
      BY <1>6 DEF Promised, Wrapped
    <3> HIDE DEF got, w
    <3>4. ASSUME Classes[kind].signed PROVE got = Promised(op, l.x, l.y, x)
      <4>1. Cut(x) >= Base \div 2 <=> x < 0
        BY <2>2, <3>4 DEF OnesPromised, OnesFilled, FillsWithSign
      <4>2. Signed(Cut(x)) = z
        BY <4>1 DEF Signed
      <4> HIDE DEF z
      <4> QED BY <3>1, <3>2, <3>3, <3>4, <4>2
    <3>5. ASSUME ~Classes[kind].signed PROVE got = Promised(op, l.x, l.y, x)
      <4>1. signed => ~(x < 0)
        BY <2>2, <3>5 DEF OnesPromised, OnesFilled, FillsWithSign
      <4> QED BY <3>1, <3>2, <3>3, <3>5, <4>1
    <3>6. got = Promised(op, l.x, l.y, x)
      BY <3>4, <3>5
    <3>7. Fulfilled(op, l.x, l.y, x, got)
      BY <1>6, <3>6 DEF Fulfilled
    <3> QED BY <1>3, <1>4, <3>7 DEF RecordRight
  <2> QED BY <2>1, <2>2
<1> QED BY <1>5, <1>6

\* A class does not change, so what is right before is right after.
LEMMA RecordKept ==
  ASSUME NEW l, last' = l, kind' = kind, RecordRight(l)
  PROVE  ArithmeticRight'
<1>1. Limbs' = Limbs
  BY DEF Limbs
<1>2. \A op, x, y, by, got : Fulfilled(op, x, y, by, got)' <=> Fulfilled(op, x, y, by, got)
  <2> SUFFICES ASSUME NEW op, NEW x, NEW y, NEW by, NEW got
               PROVE  Fulfilled(op, x, y, by, got)' <=> Fulfilled(op, x, y, by, got)
    OBVIOUS
  <2>1. BitsOf(x)' = BitsOf(x) /\ BitsOf(y)' = BitsOf(y) /\ BitsOf(got)' = BitsOf(got)
    BY <1>1 DEF BitsOf
  <2>2. Promised(op, x, y, by)' = Promised(op, x, y, by)
    BY <1>1 DEF Promised, Wrapped
  <2> QED BY <2>1, <2>2 DEF Fulfilled
<1>3. CASE Fulfilled(l.op, l.x, l.y, l.by, l.got)
  <2>1. Fulfilled(l.op, l.x, l.y, l.by, l.got)'
    BY <1>2, <1>3
  <2> QED BY <2>1 DEF ArithmeticRight, Fulfilled
<1>4. CASE ~Fulfilled(l.op, l.x, l.y, l.by, l.got)
  BY <1>1, <1>4 DEF ArithmeticRight, RecordRight, Apart, Free, OnesPromised, OnesFilled, FillsWithSign
<1> QED BY <1>3, <1>4

LEMMA ArithmeticStep ==
  ASSUME NumbersTyped, ArithmeticRight, [NNext]_nVars
  PROVE  ArithmeticRight'
<1>1. CASE NNext
  <2>1. kind' = kind /\ \E l : last' = l /\ RecordRight(l)
    <3>1. CASE \E op, p, q, by : Call(op, p, q, by) /\ (InPlace(op, p, q, by) \/ Pure(op, p, q, by))
      <4>1. PICK op, p, q, by : Call(op, p, q, by) /\ (InPlace(op, p, q, by) \/ Pure(op, p, q, by))
        BY <3>1
      <4>2. kind' = kind
        BY <4>1 DEF InPlace, Pure
      <4> QED BY <4>1, <4>2, InPlaceRight, PureRight
    <3>2. CASE \E op, x : x \in Ints /\ op \in {"fromInt", "fromI32s"} /\ Build(op, x)
      <4>1. PICK op, x : x \in Ints /\ op \in {"fromInt", "fromI32s"} /\ Build(op, x)
        BY <3>2
      <4>2. kind' = kind
        BY <4>1 DEF Build
      <4> QED BY <4>1, <4>2, BuildRight
    <3> QED BY <1>1, <3>1, <3>2, StepsAre
  <2> QED BY <2>1, RecordKept
<1>2. CASE UNCHANGED nVars
  <2>1. last' = last /\ kind' = kind
    BY <1>2 DEF nVars
  <2>2. CASE last = NoCall
    BY <2>1, <2>2 DEF ArithmeticRight
  <2>3. CASE last # NoCall
    <3>1. PICK l : last' = l /\ last = l
      BY <2>1
    <3>2. RecordRight(l)
      BY <2>3, <3>1 DEF ArithmeticRight, RecordRight, Apart, Free, Fulfilled
    <3> QED BY <2>1, <3>1, <3>2, RecordKept
  <2> QED BY <2>2, <2>3
<1> QED BY <1>1, <1>2

\* Every method gives the number of ordinary arithmetic modulo 2 to the width,
\* whatever the limbs, their width, the amount and the windows.
THEOREM ArithmeticAlwaysRight == NSpec => []ArithmeticRight
<1>1. NInit => ArithmeticRight
  BY DEF NInit, ArithmeticRight
<1>2. NumbersTyped /\ ArithmeticRight /\ [NNext]_nVars => ArithmeticRight'
  BY ArithmeticStep
<1> QED BY <1>1, <1>2, NumbersTypeCorrect, PTL DEF NSpec
=============================================================================
