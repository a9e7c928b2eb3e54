----------------------------- MODULE PrngProofs -----------------------------
(***************************************************************************)
(* Proofs about Prng, for every generator whose rawNext() returns words of *)
(* bitGen bits: a number of any width is the leading bits of the words     *)
(* drawn for it, what fillBytes() writes is the stream of the safe bits,   *)
(* and what was saved is restored.                                         *)
(***************************************************************************)
EXTENDS Prng, WellFoundedInduction, TLAPS

-----------------------------------------------------------------------------
(* Numbers. *)

\* A set of numbers that is not empty has a least one.
LEMMA NatLeast ==
  ASSUME NEW T \in SUBSET Nat, T # {}
  PROVE  \E x \in T : \A y \in T : x <= y
<1> DEFINE R == {ss \in Nat \X Nat : ss[1] < ss[2]}
<1>1. IsWellFoundedOn(R, Nat)
  BY NatLessThanWellFounded, Zenon DEF OpToRel
<1>2. \A a, b \in Nat : <<a, b>> \in R <=> a < b
  OBVIOUS
<1> HIDE DEF R
<1>3. \E x \in T : \A y \in T : ~ (<<y, x>> \in R)
  BY <1>1, WFMin, Zenon
<1>4. PICK x \in T : \A y \in T : ~ (<<y, x>> \in R)
  BY <1>3
<1>5. \A y \in T : ~(y < x)
  <2>1. \A y \in T : y \in Nat /\ x \in Nat
    OBVIOUS
  <2> QED BY <1>2, <1>4, <2>1, Zenon
<1> QED BY <1>5

\* Induction over the numbers up to n
LEMMA UpTo ==
  ASSUME NEW n \in Nat, NEW S, 0 \in S, \A k \in Nat : k < n /\ k \in S => k + 1 \in S
  PROVE  \A k \in 0..n : k \in S
<1> SUFFICES ASSUME NEW k \in 0..n, k \notin S
             PROVE  FALSE
  OBVIOUS
<1> DEFINE T == {j \in 0..n : j \notin S}
<1>1. PICK x \in T : \A y \in T : x <= y
  <2>1. T \in SUBSET Nat /\ T # {}
    OBVIOUS
  <2> HIDE DEF T
  <2> QED BY <2>1, NatLeast
<1>2. x # 0
  OBVIOUS
<1>3. x - 1 \in Nat /\ x - 1 < n /\ x - 1 \in S
  BY <1>1, <1>2
<1> QED BY <1>3

\* Division by any number: what quotient and remainder there are, and that there are.
LEMMA DivIs ==
  ASSUME NEW d \in Nat, d > 0, NEW q \in Int, NEW r \in Nat, r < d
  PROVE  (q * d + r) \div d = q /\ (q * d + r) % d = r
<1> DEFINE x == q * d + r
           e == x \div d
<1>1. x \in Int /\ e \in Int /\ d * e <= x /\ x < d * e + d /\ x = d * e + (x % d)
  OBVIOUS
<1>2. q * d = d * q /\ d * q \in Int /\ d * e \in Int
  BY <1>1
<1>3. ~(e < q)
  <2>1. SUFFICES ASSUME e < q PROVE FALSE
    OBVIOUS
  <2>2. PICK k \in Nat : q = e + 1 + k
    <3>1. q - e - 1 \in Nat /\ q = e + 1 + (q - e - 1)
      BY <1>1, <2>1
    <3> QED BY <3>1
  <2>3. d * q = d * e + d + d * k /\ d * k \in Nat
    BY <1>1, <2>2
  <2> QED BY <1>1, <1>2, <2>3
<1>4. ~(q < e)
  <2>1. SUFFICES ASSUME q < e PROVE FALSE
    OBVIOUS
  <2>2. PICK k \in Nat : e = q + 1 + k
    <3>1. e - q - 1 \in Nat /\ e = q + 1 + (e - q - 1)
      BY <1>1, <2>1
    <3> QED BY <3>1
  <2>3. d * e = d * q + d + d * k /\ d * k \in Nat
    BY <1>1, <2>2
  <2> QED BY <1>1, <1>2, <2>3
<1>5. e = q
  BY <1>1, <1>3, <1>4
<1>6. x % d = r
  BY <1>1, <1>2, <1>5
<1> QED BY <1>5, <1>6

LEMMA DivOf ==
  ASSUME NEW d \in Nat, d > 0, NEW t \in Nat
  PROVE  /\ t \div d \in Nat /\ t % d \in 0..(d - 1)
         /\ t = (t \div d) * d + (t % d)
<1>1. t \div d \in Nat /\ t % d \in 0..(d - 1) /\ t = d * (t \div d) + (t % d)
  OBVIOUS
<1>2. d * (t \div d) = (t \div d) * d
  BY <1>1
<1> QED BY <1>1, <1>2

\* Products keep order.
LEMMA MulMono ==
  ASSUME NEW d \in Nat, NEW a \in Nat, NEW b \in Nat, a < b
  PROVE  a * d + d <= b * d /\ a * d \in Nat /\ b * d \in Nat /\ (a + 1) * d = a * d + d
<1>1. PICK k \in Nat : b = a + 1 + k
  <2>1. b - a - 1 \in Nat /\ b = a + 1 + (b - a - 1)
    OBVIOUS
  <2> QED BY <2>1
<1>2. b * d = a * d + d + k * d /\ (a + 1) * d = a * d + d
  BY <1>1
<1>3. k * d \in Nat /\ a * d \in Nat
  OBVIOUS
<1> QED BY <1>2, <1>3

LEMMA NoneBelow == ASSUME NEW x \in Int, x < 0, NEW n PROVE ~(x \in 0..n)
OBVIOUS

LEMMA ProductOf ==
  ASSUME NEW a \in Nat, NEW size \in 1..64
  PROVE  a * size \in Nat /\ (a + 1) * size = a * size + size
OBVIOUS

-----------------------------------------------------------------------------
(* Sequences of anything. *)

IsSeq(s) == \E S : s \in Seq(S)

LEMMA NoneIsSeq == IsSeq(<<>>) /\ Len(<<>>) = 0
<1>1. <<>> \in Seq({})
  OBVIOUS
<1> QED BY <1>1 DEF IsSeq

LEMMA LenOf == ASSUME NEW s, IsSeq(s) PROVE Len(s) \in Nat /\ DOMAIN s = 1..Len(s)
BY DEF IsSeq

LEMMA Appended ==
  ASSUME NEW s, IsSeq(s), NEW x
  PROVE  /\ IsSeq(Append(s, x)) /\ Len(Append(s, x)) = Len(s) + 1
         /\ \A i \in 1..Len(s) : Append(s, x)[i] = s[i]
         /\ Append(s, x)[Len(s) + 1] = x
<1>1. PICK S : s \in Seq(S)
  BY DEF IsSeq
<1> DEFINE T == S \cup {x}
<1>2. s \in Seq(T)
  BY <1>1
<1>3. x \in T
  OBVIOUS
<1> HIDE DEF T
<1>4. Append(s, x) \in Seq(T)
  BY <1>2, <1>3
<1>5. /\ Len(Append(s, x)) = Len(s) + 1
      /\ \A i \in 1..Len(s) : Append(s, x)[i] = s[i]
      /\ Append(s, x)[Len(s) + 1] = x
  BY <1>2, <1>3
<1> QED BY <1>4, <1>5 DEF IsSeq

LEMMA JoinedSeq ==
  ASSUME NEW a, IsSeq(a), NEW b, IsSeq(b)
  PROVE  /\ IsSeq(a \o b) /\ Len(a \o b) = Len(a) + Len(b)
         /\ \A i \in 1..Len(a) : (a \o b)[i] = a[i]
         /\ \A i \in 1..Len(b) : (a \o b)[Len(a) + i] = b[i]
<1>1. PICK S : a \in Seq(S)
  BY DEF IsSeq
<1>2. PICK R : b \in Seq(R)
  BY DEF IsSeq
<1> DEFINE T == S \cup R
<1>3. a \in Seq(T) /\ b \in Seq(T)
  BY <1>1, <1>2
<1> HIDE DEF T
<1>4. a \o b \in Seq(T) /\ Len(a \o b) = Len(a) + Len(b) /\ Len(a) \in Nat /\ Len(b) \in Nat
  BY <1>3
<1>5. ASSUME NEW i \in 1..(Len(a) + Len(b))
      PROVE  (a \o b)[i] = IF i <= Len(a) THEN a[i] ELSE b[i - Len(a)]
  BY <1>3
<1>6. \A i \in 1..Len(a) : (a \o b)[i] = a[i]
  BY <1>4, <1>5
<1>7. ASSUME NEW i \in 1..Len(b)
      PROVE  (a \o b)[Len(a) + i] = b[i]
  <2>1. Len(a) + i \in 1..(Len(a) + Len(b)) /\ ~(Len(a) + i <= Len(a)) /\ (Len(a) + i) - Len(a) = i
    BY <1>4
  <2> QED BY <1>5, <2>1
<1> QED BY <1>4, <1>6, <1>7 DEF IsSeq

\* The rest of a sequence behind the first n
LEMMA RestOf ==
  ASSUME NEW s, IsSeq(s), NEW n \in 0..Len(s)
  PROVE  /\ IsSeq(SubSeq(s, n + 1, Len(s))) /\ Len(SubSeq(s, n + 1, Len(s))) = Len(s) - n
         /\ \A i \in 1..(Len(s) - n) : SubSeq(s, n + 1, Len(s))[i] = s[n + i]
<1>1. PICK S : s \in Seq(S)
  BY DEF IsSeq
<1>2. Len(s) \in Nat
  BY <1>1
<1>3. SubSeq(s, n + 1, Len(s)) \in Seq(S)
  BY <1>1, <1>2
<1>4. Len(SubSeq(s, n + 1, Len(s))) = Len(s) - n
  BY <1>1, <1>2
<1>5. ASSUME NEW i \in 1..(Len(s) - n)
      PROVE  SubSeq(s, n + 1, Len(s))[i] = s[n + i]
  <2>1. SubSeq(s, n + 1, Len(s))[i] = s[(n + 1) + i - 1]
    BY <1>1, <1>2
  <2>2. (n + 1) + i - 1 = n + i
    BY <1>2
  <2> QED BY <2>1, <2>2
<1> QED BY <1>3, <1>4, <1>5 DEF IsSeq

-----------------------------------------------------------------------------
(* The numbers that _nextU() makes of the words it draws. *)

\* Every word has the bits of its class.
Fits(ws, size) == \A i \in 1..Len(ws) : ws[i] \subseteq 0..(size - 1)

\* The bits of a number from shift on are the first of the words.
Leads(ret, ws, bits, shift, size) ==
    \A p \in 0..(bits - 1) : p \in ret <=> (p >= shift /\ TopBit(ws, size, size, bits - 1 - p))

\* What is drawn after i turns of the loop
DrawInv(d, i, bits, size) ==
    /\ IsSeq(d.raws)
    /\ d.shift = bits - Len(d.raws) * size
    /\ d.shift > 0 => Len(d.raws) = i
    /\ Len(d.raws) > 0 => d.shift + size > 0
    /\ Fits(d.raws, size) => Leads(d.ret, d.raws, bits, d.shift, size)

\* A word put at its place among the 64 bits of a number keeps every bit from there on.
LEMMA ShiftedIn ==
  ASSUME NEW size \in 1..64, NEW out \in SUBSET (0..(size - 1)),
         NEW left \in Int, left + size <= 64, NEW p \in Nat
  PROVE  p \in (IF left >= 0 THEN D!Shl(out, left) ELSE D!Shr(out, -left)) <=> (p - left) \in out
<1>1. CASE left >= 0
  <2>1. p \in D!Shl(out, left) <=> \E j \in out : j + left < 64 /\ p = j + left
    BY Zenon DEF D!Shl
  <2>2. \A j \in out : j \in Int /\ j + left < 64
    OBVIOUS
  <2>3. \A j \in out : p = j + left <=> j = p - left
    BY <2>2
  <2> QED BY <1>1, <2>1, <2>2, <2>3
<1>2. CASE ~(left >= 0)
  <2>1. p \in D!Shr(out, -left) <=> \E j \in out : j >= -left /\ p = j - (-left)
    BY Zenon DEF D!Shr
  <2>2. \A j \in out : j \in Int
    OBVIOUS
  <2>3. \A j \in out : (j >= -left /\ p = j - (-left)) <=> j = p - left
    BY <2>2
  <2> QED BY <1>2, <2>1, <2>3
<1> QED BY <1>1, <1>2

\* The bits of one more word follow those of the words before.
LEMMA TopOfAppended ==
  ASSUME NEW size, NEW safe \in 1..64, NEW ws, IsSeq(ws), NEW out, NEW t \in Nat
  PROVE  /\ t < Len(ws) * safe => (TopBit(Append(ws, out), size, safe, t) <=> TopBit(ws, size, safe, t))
         /\ (Len(ws) * safe <= t /\ t < Len(ws) * safe + safe)
            => (TopBit(Append(ws, out), size, safe, t) <=> (size - 1 - (t - Len(ws) * safe)) \in out)
<1> DEFINE L == Len(ws)
           q == t \div safe
           r == t % safe
<1>1. L \in Nat
  BY LenOf
<1>2. q \in Nat /\ r \in 0..(safe - 1) /\ t = q * safe + r
  BY DivOf
<1>3. /\ \A i \in 1..L : Append(ws, out)[i] = ws[i]
      /\ Append(ws, out)[L + 1] = out
  BY Appended
<1>4. TopBit(Append(ws, out), size, safe, t) <=> (size - 1 - r) \in Append(ws, out)[q + 1]
  BY Zenon DEF TopBit
<1>5. TopBit(ws, size, safe, t) <=> (size - 1 - r) \in ws[q + 1]
  BY Zenon DEF TopBit
<1>6. ASSUME t < L * safe
      PROVE  q + 1 \in 1..L
  <2>1. ~(L <= q)
    <3>1. L < q => L * safe + safe <= q * safe
      BY <1>1, <1>2, MulMono
    <3>2. L * safe \in Nat /\ q * safe \in Nat
      BY <1>1, <1>2
    <3> HIDE DEF q, r, L
    <3> QED BY <1>1, <1>2, <1>6, <3>1, <3>2
  <2> QED BY <1>1, <1>2, <2>1
<1>7. ASSUME L * safe <= t, t < L * safe + safe
      PROVE  q = L /\ r = t - L * safe
  <2>1. L * safe \in Nat
    BY <1>1
  <2> DEFINE e == t - L * safe
             m == L * safe
  <2>2. e \in Nat /\ e < safe /\ t = m + e
    BY <1>7, <2>1
  <2>3. (m + e) \div safe = L /\ (m + e) % safe = e
    <3> HIDE DEF e
    <3> QED BY <1>1, <2>2, DivIs
  <2> HIDE DEF m, e
  <2>4. q = L /\ r = e
    BY <2>2, <2>3
  <2> QED BY <2>4 DEF e, m
<1>8. t < L * safe => (TopBit(Append(ws, out), size, safe, t) <=> TopBit(ws, size, safe, t))
  BY <1>3, <1>4, <1>5, <1>6
<1>9. (L * safe <= t /\ t < L * safe + safe)
      => (TopBit(Append(ws, out), size, safe, t) <=> (size - 1 - (t - L * safe)) \in out)
  BY <1>3, <1>4, <1>7
<1> QED BY <1>8, <1>9

\* One turn of the loop
LEMMA TakenKeeps ==
  ASSUME NEW k, NEW g, NEW size \in 1..64, size = bitGen(k), NEW bits \in 1..64,
         NEW i \in Nat, NEW d, DrawInv(d, i, bits, size), d.shift > 0
  PROVE  DrawInv(Taken(d, g, d.shift - bitGen(k)), i + 1, bits, size)
<1> DEFINE left == d.shift - size
           e == Taken(d, g, left)
           L == Len(d.raws)
           m == L * size
           new == IF left >= 0 THEN D!Shl(g.out, left) ELSE D!Shr(g.out, -left)
<1>1. /\ IsSeq(d.raws) /\ d.shift = bits - m /\ L = i /\ d.shift > 0
      /\ Fits(d.raws, size) => Leads(d.ret, d.raws, bits, d.shift, size)
  BY DEF DrawInv
<1>2. /\ e.shift = left /\ e.raws = Append(d.raws, g.out) /\ e.ret = d.ret \cup new
      /\ Taken(d, g, d.shift - bitGen(k)) = e /\ left = d.shift - size
  BY DEF Taken
<1>3. new = IF left >= 0 THEN D!Shl(g.out, left) ELSE D!Shr(g.out, -left)
  OBVIOUS
<1> HIDE DEF e, left, new
<1>4. L \in Nat /\ m \in Nat
  <2>1. L \in Nat
    BY <1>1, LenOf, Zenon
  <2> QED BY <2>1, ProductOf, Zenon
<1>0. (L + 1) * size = m + size
  BY <1>4, ProductOf, Zenon
<1>5. /\ IsSeq(e.raws) /\ Len(e.raws) = L + 1
      /\ \A j \in 1..L : e.raws[j] = d.raws[j]
      /\ e.raws[L + 1] = g.out
  <2> DEFINE ws == Append(d.raws, g.out)
  <2>1. /\ IsSeq(ws) /\ Len(ws) = L + 1
        /\ \A j \in 1..L : ws[j] = d.raws[j]
        /\ ws[L + 1] = g.out
    BY <1>1, Appended, Zenon
  <2>2. e.raws = ws
    BY <1>2
  <2> HIDE DEF ws
  <2> QED BY <2>1, <2>2
<1> HIDE DEF m, L
<1>6. left \in Int /\ d.shift \in Int /\ d.shift = bits - m /\ left = d.shift - size
  <2>1. d.shift = bits - m /\ left = d.shift - size
    BY <1>1, <1>2, Zenon
  <2>2. bits - m \in Int /\ \A n \in Int : n - size \in Int
    BY <1>4
  <2> QED BY <2>1, <2>2, Zenon
<1>7. e.shift = bits - Len(e.raws) * size /\ Len(e.raws) = i + 1 /\ e.shift + size > 0
  <2>1. Len(e.raws) * size = m + size
    BY <1>0, <1>5, Zenon
  <2>2. Len(e.raws) = i + 1
    BY <1>1, <1>5
  <2>3. e.shift = left
    BY <1>2
  <2> DEFINE x == Len(e.raws) * size
  <2>4. x = m + size
    BY <2>1
  <2> HIDE DEF x
  <2>5. e.shift = bits - x /\ e.shift + size > 0
    BY <1>1, <1>4, <1>6, <2>3, <2>4
  <2> QED BY <2>2, <2>5 DEF x
<1>8. ASSUME Fits(e.raws, size)
      PROVE  Leads(e.ret, e.raws, bits, e.shift, size)
  <2>1. Fits(d.raws, size) /\ g.out \in SUBSET (0..(size - 1))
    <3>1. \A j \in 1..L : j \in 1..(L + 1)
      BY <1>4
    <3>2. L + 1 \in 1..(L + 1)
      BY <1>4
    <3> QED BY <1>5, <1>8, <3>1, <3>2, Zenon DEF Fits, L
  <2>2. SUFFICES ASSUME NEW p \in 0..(bits - 1)
                 PROVE  p \in e.ret <=> (p >= left /\ TopBit(e.raws, size, size, bits - 1 - p))
    BY <1>2, Zenon DEF Leads
  <2> DEFINE t == bits - 1 - p
  <2>3. p \in d.ret <=> (p >= d.shift /\ TopBit(d.raws, size, size, t))
    BY <1>1, <2>1, Zenon DEF Leads
  <2>4. p \in new <=> (p - left) \in g.out
    <3>0. p \in Nat
      OBVIOUS
    <3>1. left + size <= 64
      BY <1>4, <1>6
    <3> QED BY <1>3, <1>6, <2>1, <3>0, <3>1, ShiftedIn, Zenon
  <2>5. p \in e.ret <=> p \in d.ret \/ p \in new
    BY <1>2, Zenon
  <2>6. t \in Nat /\ t = bits - 1 - p
    OBVIOUS
  <2> HIDE DEF t
  <2>7. /\ t < m => (TopBit(e.raws, size, size, t) <=> TopBit(d.raws, size, size, t))
        /\ (m <= t /\ t < m + size)
           => (TopBit(e.raws, size, size, t) <=> (size - 1 - (t - m)) \in g.out)
    <3> DEFINE ws == Append(d.raws, g.out)
    <3>1. /\ t < m => (TopBit(ws, size, size, t) <=> TopBit(d.raws, size, size, t))
          /\ (m <= t /\ t < m + size)
             => (TopBit(ws, size, size, t) <=> (size - 1 - (t - m)) \in g.out)
      BY <1>1, <2>6, TopOfAppended, Zenon DEF m, L
    <3>2. e.raws = ws
      BY <1>2
    <3> HIDE DEF ws
    <3> QED BY <3>1, <3>2
  <2>8. CASE p >= d.shift
    <3>1. t < m /\ p - left >= size /\ p >= left
      BY <1>4, <1>6, <2>6, <2>8
    <3>2. ~((p - left) \in 0..(size - 1))
      BY <1>6, <3>1
    <3>3. ~((p - left) \in g.out)
      BY <2>1, <3>2, Zenon
    <3> QED BY <2>3, <2>4, <2>5, <2>6, <2>7, <2>8, <3>1, <3>3, Zenon
  <2>9. CASE ~(p >= d.shift) /\ p >= left
    <3>1. m <= t /\ t < m + size /\ size - 1 - (t - m) = p - left
      BY <1>4, <1>6, <2>6, <2>9
    <3> QED BY <2>3, <2>4, <2>5, <2>6, <2>7, <2>9, <3>1, Zenon
  <2>10. CASE ~(p >= d.shift) /\ ~(p >= left)
    <3>1. ~((p - left) \in 0..(size - 1))
      BY <1>6, <2>10
    <3>2. ~((p - left) \in g.out)
      BY <2>1, <3>1, Zenon
    <3> QED BY <2>3, <2>4, <2>5, <2>6, <2>10, <3>2, Zenon
  <2> QED BY <2>8, <2>9, <2>10, Zenon
<1>9. DrawInv(e, i + 1, bits, size)
  BY <1>5, <1>7, <1>8, Zenon DEF DrawInv
<1> QED BY <1>2, <1>9

\* What the whole loop returns: the words that the width needs, and their first bits.
Number(d, bits, size) ==
    /\ IsSeq(d.raws) /\ Len(d.raws) = (bits + size - 1) \div size
    /\ Fits(d.raws, size) =>
         \A t \in 0..(bits - 1) : (bits - 1 - t) \in d.ret <=> TopBit(d.raws, size, size, t)

LEMMA NextUIsNumber ==
  ASSUME NEW k, NEW g, NEW size \in 1..64, size = bitGen(k), NEW bits \in 1..64
  PROVE  Number(nextU(k, g, bits), bits, size)
<1> DEFINE most == bits \div bitGen(k) + 1
           zero == [g |-> g, shift |-> bits, ret |-> {}, raws |-> <<>>]
           turn(d) == IF d.shift <= 0 THEN d
                      ELSE Taken(d, rawNext(k, d.g), d.shift - bitGen(k))
           Def(f) == f = [i \in 0..most |-> IF i = 0 THEN zero ELSE turn(f[i - 1])]
           draw == CHOOSE f : Def(f)
<1>1. nextU(k, g, bits) = draw[most]
  BY DEF nextU, Drawn
<1>2. most \in Nat /\ bits \div size \in Nat /\ most = bits \div size + 1
  BY DivOf
<1> HIDE DEF most, turn, zero
<1>3. Def(draw)
  <2> DEFINE Part(f, n) == f = [i \in 0..n |-> IF i = 0 THEN zero ELSE turn(f[i - 1])]
             P == {n \in Nat : \E f : Part(f, n)}
  <2>1. 0 \in P
    <3>1. Part([i \in 0..0 |-> zero], 0)
      OBVIOUS
    <3> QED BY <3>1
  <2>2. ASSUME NEW n \in Nat, n \in P
        PROVE  n + 1 \in P
    <3>1. PICK f : Part(f, n)
      BY <2>2
    <3> DEFINE h == [i \in 0..(n + 1) |-> IF i = n + 1 THEN turn(f[n]) ELSE f[i]]
    <3>2. ASSUME NEW i \in 0..(n + 1)
          PROVE  h[i] = IF i = 0 THEN zero ELSE turn(h[i - 1])
      <4>1. CASE i = n + 1
        <5>1. i # 0 /\ i - 1 = n /\ i - 1 \in 0..(n + 1) /\ i - 1 # n + 1
          BY <4>1
        <5>2. h[i - 1] = f[n] /\ h[i] = turn(f[n])
          BY <4>1, <5>1
        <5> HIDE DEF h
        <5> QED BY <5>1, <5>2
      <4>2. CASE i # n + 1
        <5>1. i \in 0..n /\ h[i] = f[i]
          BY <4>2
        <5>2. f[i] = IF i = 0 THEN zero ELSE turn(f[i - 1])
          BY <3>1, <5>1
        <5>3. i # 0 => h[i - 1] = f[i - 1]
          BY <4>2, <5>1
        <5> HIDE DEF h
        <5> QED BY <5>1, <5>2, <5>3
      <4> QED BY <4>1, <4>2
    <3>3. h = [i \in 0..(n + 1) |-> h[i]]
      OBVIOUS
    <3> HIDE DEF h
    <3>4. Part(h, n + 1)
      BY <3>2, <3>3
    <3> QED BY <3>4
  <2> HIDE DEF P
  <2>3. most \in P
    BY <1>2, <2>1, <2>2, UpTo
  <2>4. \E f : Def(f)
    BY <2>3 DEF P
  <2> QED BY <2>4
<1> HIDE DEF draw
<1>4. \A i \in 0..most : draw[i] = IF i = 0 THEN zero ELSE turn(draw[i - 1])
  BY <1>3
<1> HIDE DEF Def
<1> DEFINE P == {i \in 0..most : DrawInv(draw[i], i, bits, size)}
<1>5. 0 \in P
  <2>1. draw[0] = zero /\ 0 \in 0..most
    BY <1>2, <1>4
  <2>2. DrawInv(zero, 0, bits, size)
    BY NoneIsSeq DEF DrawInv, zero, Leads
  <2> QED BY <2>1, <2>2
<1>6. ASSUME NEW i \in Nat, i < most, i \in P
      PROVE  i + 1 \in P
  <2>1. draw[i + 1] = turn(draw[i]) /\ i + 1 \in 0..most
    BY <1>2, <1>4, <1>6
  <2>2. DrawInv(draw[i], i, bits, size)
    BY <1>6
  <2>3. CASE draw[i].shift <= 0
    <3>1. turn(draw[i]) = draw[i]
      BY <2>3, Zenon DEF turn
    <3>2. ~(draw[i].shift > 0)
      <4>1. draw[i].shift \in Int
        BY <2>2, LenOf DEF DrawInv
      <4> QED BY <2>3, <4>1
    <3>3. DrawInv(draw[i], i + 1, bits, size)
      BY <2>2, <3>2, Zenon DEF DrawInv
    <3> QED BY <2>1, <3>1, <3>3
  <2>4. CASE ~(draw[i].shift <= 0)
    <3>1. turn(draw[i]) = Taken(draw[i], rawNext(k, draw[i].g), draw[i].shift - bitGen(k))
      BY <2>4, Zenon DEF turn
    <3>2. draw[i].shift > 0
      <4>1. draw[i].shift \in Int
        BY <2>2, LenOf DEF DrawInv
      <4> QED BY <2>4, <4>1
    <3>3. DrawInv(turn(draw[i]), i + 1, bits, size)
      BY <2>2, <3>1, <3>2, TakenKeeps
    <3> QED BY <2>1, <3>3
  <2> QED BY <2>3, <2>4
<1> HIDE DEF P
<1>7. most \in P
  BY <1>2, <1>5, <1>6, UpTo
<1> DEFINE d == draw[most]
           L == Len(d.raws)
<1>8. DrawInv(d, most, bits, size)
  BY <1>7 DEF P
<1> HIDE DEF d
<1>9. /\ IsSeq(d.raws) /\ L \in Nat /\ d.shift = bits - L * size /\ L * size \in Int /\ d.shift \in Int
      /\ d.shift > 0 => L = most
      /\ L > 0 => d.shift + size > 0
      /\ Fits(d.raws, size) => Leads(d.ret, d.raws, bits, d.shift, size)
  <2>1. IsSeq(d.raws) /\ L \in Nat
    BY <1>8, LenOf DEF DrawInv
  <2> QED BY <1>8, <2>1 DEF DrawInv
<1>10. d.shift <= 0
  <2>1. SUFFICES ASSUME d.shift > 0 PROVE FALSE
    BY <1>9
  <2> DEFINE q == bits \div size
             r == bits % size
             m == q * size
  <2>2. q \in Nat /\ r \in 0..(size - 1) /\ bits = m + r
    BY DivOf
  <2>3. L = q + 1
    BY <1>2, <1>9, <2>1
  <2> HIDE DEF q, r
  <2>4. (q + 1) * size = m + size /\ m \in Nat
    BY <2>2, ProductOf, Zenon
  <2>5. L * size = m + size
    BY <2>3, <2>4
  <2> HIDE DEF m, L
  <2> QED BY <1>9, <2>1, <2>2, <2>4, <2>5
<1>11. L = (bits + size - 1) \div size
  <2>1. L # 0
    <3>1. L = 0 => L * size = 0
      OBVIOUS
    <3> HIDE DEF L
    <3> QED BY <1>9, <1>10, <3>1
  <2> DEFINE m == L * size
             r == bits + size - 1 - m
  <2>2. m \in Int /\ d.shift = bits - m /\ d.shift <= 0 /\ d.shift + size > 0
    <3>1. L > 0
      BY <1>9, <2>1
    <3> QED BY <1>9, <1>10, <3>1
  <2> HIDE DEF m
  <2>3. r \in Nat /\ r < size /\ bits + size - 1 = m + r
    BY <2>2
  <2> HIDE DEF r
  <2>4. (m + r) \div size = L
    <3>1. size \in Nat /\ size > 0
      OBVIOUS
    <3>2. L \in Int
      <4>1. L \in Nat
        BY <1>9, Zenon
      <4> HIDE DEF L
      <4> QED BY <4>1
    <3> QED BY <2>3, <3>1, <3>2, DivIs, Zenon DEF m
  <2> QED BY <2>3, <2>4
<1>12. ASSUME Fits(d.raws, size), NEW t \in 0..(bits - 1)
       PROVE  (bits - 1 - t) \in d.ret <=> TopBit(d.raws, size, size, t)
  <2> DEFINE p == bits - 1 - t
  <2>1. p \in 0..(bits - 1) /\ bits - 1 - p = t /\ p >= d.shift
    BY <1>9, <1>10
  <2>2. p \in d.ret <=> (p >= d.shift /\ TopBit(d.raws, size, size, bits - 1 - p))
    <3> HIDE DEF p
    <3> QED BY <1>9, <1>12, <2>1, Zenon DEF Leads
  <2> HIDE DEF p
  <2>3. p \in d.ret <=> TopBit(d.raws, size, size, t)
    BY <2>1, <2>2
  <2> QED BY <2>3 DEF p
<1>13. Number(d, bits, size)
  BY <1>9, <1>11, <1>12 DEF Number
<1> QED BY <1>1, <1>13 DEF d

\* A number's words, wherever they stand among those drawn.
LEMMA TopOfWindow ==
  ASSUME NEW size \in 1..64, NEW bits \in 1..64, NEW d, Number(d, bits, size),
         NEW ws, IsSeq(ws), NEW n \in Nat, n + Len(d.raws) <= Len(ws),
         \A j \in 1..Len(d.raws) : ws[n + j] = d.raws[j], Fits(ws, size),
         NEW t \in 0..(bits - 1)
  PROVE  (bits - 1 - t) \in d.ret <=> TopBit(SubSeq(ws, n + 1, Len(ws)), size, size, t)
<1> DEFINE L == Len(d.raws)
           q == t \div size
           tail == SubSeq(ws, n + 1, Len(ws))
<1>1. IsSeq(d.raws) /\ L = (bits + size - 1) \div size
  BY Zenon DEF Number
<1>2. L \in Nat /\ Len(ws) \in Nat
  BY <1>1, LenOf, Zenon
<1>3. q \in 0..(L - 1)
  <2> DEFINE r == t % size
             mq == q * size
             mL == L * size
             e == (bits + size - 1) % size
  <2>1. q \in Nat /\ r \in Nat /\ t = mq + r
    BY DivOf
  <2>2. bits + size - 1 \in Nat /\ size \in Nat /\ size > 0
    OBVIOUS
  <2>3. e \in 0..(size - 1) /\ bits + size - 1 = mL + e
    BY <1>1, <2>2, DivOf, Zenon
  <2>4. mq \in Nat /\ mL \in Nat
    BY <1>2, <2>1, ProductOf, Zenon
  <2>5. L < q => mL + size <= mq
    BY <1>2, <2>1, <2>2, MulMono, Zenon
  <2>6. L = q => mL = mq
    OBVIOUS
  <2> HIDE DEF q, r, L, mq, mL, e
  <2> QED BY <1>2, <2>1, <2>3, <2>4, <2>5, <2>6
<1>4. Fits(d.raws, size)
  <2>1. ASSUME NEW j \in 1..L PROVE n + j \in 1..Len(ws)
    <3> HIDE DEF L
    <3>1. n + L <= Len(ws)
      BY DEF L
    <3> QED BY <1>2, <3>1
  <2> QED BY <2>1, Zenon DEF Fits
<1>5. (bits - 1 - t) \in d.ret <=> TopBit(d.raws, size, size, t)
  BY <1>4, Zenon DEF Number
<1>6. tail[q + 1] = d.raws[q + 1]
  <2>1. n + L <= Len(ws) /\ \A j \in 1..L : ws[n + j] = d.raws[j]
    OBVIOUS
  <2> HIDE DEF L, q
  <2>2. n \in 0..Len(ws) /\ q + 1 \in 1..(Len(ws) - n) /\ q + 1 \in 1..L
    BY <1>2, <1>3, <2>1
  <2>3. tail[q + 1] = ws[n + (q + 1)]
    BY <2>2, RestOf, Zenon
  <2> QED BY <2>1, <2>2, <2>3, Zenon
<1>7. TopBit(tail, size, size, t) <=> TopBit(d.raws, size, size, t)
  BY <1>6, Zenon DEF TopBit
<1> QED BY <1>5, <1>7

\* What a call for numbers leaves: one of them, or the two halves of a double.
OneNumber(bits) ==
    \E d : /\ Number(d, bits, bitGen(kind))
           /\ raws = d.raws /\ got = <<[n |-> d.ret, bits |-> bits]>>
TwoNumbers(high, low) ==
    \E d, e : /\ Number(d, high, bitGen(kind)) /\ Number(e, low, bitGen(kind))
              /\ raws = d.raws \o e.raws
              /\ got = <<[n |-> d.ret, bits |-> high], [n |-> e.ret, bits |-> low]>>

\* The inductive invariant: the numbers at hand are of the words at hand, and none
\* are while an array is filled.
NumbersInv ==
    /\ kind \in Kinds
    /\ busy \in BOOLEAN
    /\ busy => got = <<>>
    /\ \/ got = <<>>
       \/ \E bits \in 1..64 : OneNumber(bits)
       \/ \E high, low \in 1..64 : TwoNumbers(high, low)

LEMMA AskedIs ==
  ASSUME NEW k, NEW ask \in Asked(k)
  PROVE  /\ ask[1] \in 1..64
         /\ Len(ask) = 1 \/ (Len(ask) = 2 /\ ask[2] \in 1..64)
BY DEF Asked

LEMMA SizesAreBits == ASSUME kind \in Kinds PROVE bitGen(kind) \in 1..64
BY ClassesAssumption

LEMMA InitNumbers == Init => NumbersInv
BY DEF Init, NumbersInv

LEMMA NextNumbers == NumbersInv /\ [Next]_vars => NumbersInv'
<1> SUFFICES ASSUME NumbersInv, [Next]_vars
             PROVE  NumbersInv'
  OBVIOUS
<1>1. kind \in Kinds /\ busy \in BOOLEAN /\ (busy => got = <<>>)
  BY DEF NumbersInv
<1>2. CASE Numbers
  <2>1. PICK ask \in Asked(kind) : \E one \in {nextU(kind, gen, ask[1])} :
         IF Len(ask) = 1
         THEN /\ gen' = one.g /\ raws' = one.raws
              /\ got' = <<[n |-> one.ret, bits |-> ask[1]]>>
         ELSE \E two \in {nextU(kind, one.g, ask[2])} :
              /\ gen' = two.g /\ raws' = one.raws \o two.raws
              /\ got' = <<[n |-> one.ret, bits |-> ask[1]], [n |-> two.ret, bits |-> ask[2]]>>
    BY <1>2, Zenon DEF Numbers
  <2> DEFINE one == nextU(kind, gen, ask[1])
             two == nextU(kind, one.g, ask[2])
  <2>2. kind' = kind /\ busy' = busy /\ ~busy
    BY <1>2 DEF Numbers, Called
  <2>3. bitGen(kind) \in 1..64 /\ bitGen(kind)' = bitGen(kind)
    BY <1>1, <2>2, SizesAreBits DEF bitGen
  <2>4. ask[1] \in 1..64 /\ (Len(ask) = 1 \/ (Len(ask) = 2 /\ ask[2] \in 1..64))
    BY AskedIs
  <2>5. Number(one, ask[1], bitGen(kind))
    BY <2>3, <2>4, NextUIsNumber, Zenon
  <2>6. CASE Len(ask) = 1
    <3>1. raws' = one.raws /\ got' = <<[n |-> one.ret, bits |-> ask[1]]>>
      BY <2>1, <2>6, Zenon
    <3> HIDE DEF one
    <3>2. OneNumber(ask[1])'
      BY <2>3, <2>5, <3>1 DEF OneNumber
    <3> QED BY <1>1, <2>2, <2>4, <3>2 DEF NumbersInv
  <2>7. CASE Len(ask) # 1
    <3>1. /\ raws' = one.raws \o two.raws
          /\ got' = <<[n |-> one.ret, bits |-> ask[1]], [n |-> two.ret, bits |-> ask[2]]>>
      BY <2>1, <2>7, Zenon
    <3>2. ask[2] \in 1..64
      BY <2>4, <2>7, Zenon
    <3>3. Number(two, ask[2], bitGen(kind))
      BY <2>3, <3>2, NextUIsNumber, Zenon
    <3> HIDE DEF one, two
    <3>4. TwoNumbers(ask[1], ask[2])'
      BY <2>3, <2>5, <3>1, <3>3 DEF TwoNumbers
    <3> QED BY <1>1, <2>2, <2>4, <3>2, <3>4 DEF NumbersInv
  <2> QED BY <2>6, <2>7
<1>3. CASE FillBytes
  BY <1>1, <1>3 DEF FillBytes, NumbersInv
<1>4. CASE FillTurn
  BY <1>1, <1>4 DEF FillTurn, NumbersInv
<1>5. ASSUME kind' = kind, busy' = FALSE, raws' = raws, got' = got
      PROVE  NumbersInv'
  <2>1. bitGen(kind)' = bitGen(kind)
    BY <1>5 DEF bitGen
  <2> QED BY <1>5, <2>1 DEF NumbersInv, OneNumber, TwoNumbers
<1>6. CASE FillReturn
  BY <1>5, <1>6 DEF FillReturn
<1>7. ASSUME NEW big \in BOOLEAN, Save(big) \/ Restore(big)
      PROVE  NumbersInv'
  BY <1>1, <1>7 DEF Save, Restore, Called, NumbersInv
<1>8. CASE UNCHANGED vars
  <2>1. kind' = kind /\ busy' = busy /\ raws' = raws /\ got' = got
    BY <1>8 DEF vars
  <2>2. bitGen(kind)' = bitGen(kind)
    BY <2>1 DEF bitGen
  <2> QED BY <2>1, <2>2 DEF NumbersInv, OneNumber, TwoNumbers
<1> QED BY <1>2, <1>3, <1>4, <1>6, <1>7, <1>8 DEF Next

LEMMA NumbersFollow == NumbersInv /\ WordsFit => NumbersAreLeadingBits
<1> SUFFICES ASSUME NumbersInv, WordsFit
             PROVE  NumbersAreLeadingBits
  OBVIOUS
<1> DEFINE size == bitGen(kind)
           Right(i) == \A t \in 0..(got[i].bits - 1) :
                          (got[i].bits - 1 - t) \in got[i].n
                              <=> TopBit(SubSeq(raws, From(i) + 1, Len(raws)), size, size, t)
           Enough == Len(raws) = From(Len(got)) + Needed(got[Len(got)].bits)
<1>1. size \in 1..64 /\ kind \in Kinds
  BY SizesAreBits DEF NumbersInv
<1>2. Fits(raws, size)
  BY DEF WordsFit, Fits
<1>3. SUFFICES /\ got # <<>> => Enough
               /\ \A i \in 1..Len(got) : Right(i)
  BY Zenon DEF NumbersAreLeadingBits
<1>4. CASE got = <<>>
  <2>1. \A i \in 1..Len(got) : FALSE
    BY <1>4
  <2> QED BY <1>4, <2>1, Zenon
<1>5. ASSUME NEW bits \in 1..64, OneNumber(bits)
      PROVE  Enough /\ \A i \in 1..Len(got) : Right(i)
  <2>1. PICK d : /\ Number(d, bits, size)
                 /\ raws = d.raws /\ got = <<[n |-> d.ret, bits |-> bits]>>
    BY <1>5, Zenon DEF OneNumber
  <2>2. Len(got) = 1 /\ got[1].n = d.ret /\ got[1].bits = bits
    BY <2>1
  <2>3. From(1) = 0 /\ Needed(bits) = (bits + size - 1) \div size
    BY DEF From, Needed
  <2>4. IsSeq(raws) /\ Len(raws) = (bits + size - 1) \div size
    BY <2>1, Zenon DEF Number
  <2>5. Len(raws) \in Nat
    BY <2>4, LenOf, Zenon
  <2>6. Enough
    BY <2>2, <2>3, <2>4, <2>5
  <2>7. Right(1)
    <3>1. ASSUME NEW t \in 0..(bits - 1)
          PROVE  (bits - 1 - t) \in d.ret <=> TopBit(SubSeq(raws, 0 + 1, Len(raws)), size, size, t)
      <4>1. 0 \in Nat /\ 0 + Len(d.raws) <= Len(raws) /\ \A j \in 1..Len(d.raws) : raws[0 + j] = d.raws[j]
        BY <2>1, <2>5
      <4> HIDE DEF size
      <4> QED BY <1>1, <1>2, <2>1, <2>4, <4>1, TopOfWindow, Zenon
    <3> HIDE DEF size
    <3> QED BY <2>2, <2>3, <3>1, Zenon
  <2>8. \A i \in 1..Len(got) : i = 1
    BY <2>2
  <2> QED BY <2>6, <2>7, <2>8, Zenon
<1>6. ASSUME NEW high \in 1..64, NEW low \in 1..64, TwoNumbers(high, low)
      PROVE  Enough /\ \A i \in 1..Len(got) : Right(i)
  <2>1. PICK d, e : /\ Number(d, high, size) /\ Number(e, low, size)
                    /\ raws = d.raws \o e.raws
                    /\ got = <<[n |-> d.ret, bits |-> high], [n |-> e.ret, bits |-> low]>>
    BY <1>6, Zenon DEF TwoNumbers
  <2>2. /\ Len(got) = 2 /\ got[1].n = d.ret /\ got[1].bits = high
        /\ got[2].n = e.ret /\ got[2].bits = low
    BY <2>1
  <2> DEFINE L == Len(d.raws)
             M == Len(e.raws)
  <2>3. IsSeq(d.raws) /\ IsSeq(e.raws) /\ L = (high + size - 1) \div size /\ M = (low + size - 1) \div size
    BY <2>1, Zenon DEF Number
  <2>4. L \in Nat /\ M \in Nat
    BY <2>3, LenOf, Zenon
  <2>5. /\ IsSeq(raws) /\ Len(raws) = L + M
        /\ \A j \in 1..L : raws[j] = d.raws[j]
        /\ \A j \in 1..M : raws[L + j] = e.raws[j]
    <3> DEFINE ws == d.raws \o e.raws
    <3>1. /\ IsSeq(ws) /\ Len(ws) = L + M
          /\ \A j \in 1..L : ws[j] = d.raws[j]
          /\ \A j \in 1..M : ws[L + j] = e.raws[j]
      <4> DEFINE a == d.raws
                 b == e.raws
      <4>1. IsSeq(a) /\ IsSeq(b)
        BY <2>3, Zenon
      <4>2. ws = a \o b /\ L = Len(a) /\ M = Len(b)
        OBVIOUS
      <4> HIDE DEF a, b, ws, L, M
      <4>3. /\ IsSeq(ws) /\ Len(ws) = L + M
            /\ \A j \in 1..L : ws[j] = a[j]
            /\ \A j \in 1..M : ws[L + j] = b[j]
        BY <4>1, <4>2, JoinedSeq
      <4> QED BY <4>3 DEF a, b
    <3>2. raws = ws
      BY <2>1
    <3> HIDE DEF ws
    <3> QED BY <3>1, <3>2
  <2>6. From(1) = 0 /\ From(2) = L /\ Needed(low) = M
    <3> HIDE DEF L, M
    <3> QED BY <2>2, <2>3 DEF From, Needed
  <2>7. Enough
    BY <2>2, <2>5, <2>6, Zenon
  <2>8. Right(1)
    <3>1. ASSUME NEW t \in 0..(high - 1)
          PROVE  (high - 1 - t) \in d.ret <=> TopBit(SubSeq(raws, 0 + 1, Len(raws)), size, size, t)
      <4>1. 0 \in Nat /\ 0 + L <= Len(raws) /\ \A j \in 1..L : raws[0 + j] = d.raws[j]
        <5> HIDE DEF L, M
        <5> QED BY <2>4, <2>5
      <4>2. IsSeq(raws) /\ Number(d, high, size)
        BY <2>1, <2>5, Zenon
      <4> HIDE DEF size
      <4> QED BY <1>1, <1>2, <4>1, <4>2, TopOfWindow, Zenon
    <3> HIDE DEF size
    <3> QED BY <2>2, <2>6, <3>1, Zenon
  <2>9. Right(2)
    <3>1. ASSUME NEW t \in 0..(low - 1)
          PROVE  (low - 1 - t) \in e.ret <=> TopBit(SubSeq(raws, L + 1, Len(raws)), size, size, t)
      <4>1. L \in Nat /\ L + M <= Len(raws) /\ \A j \in 1..M : raws[L + j] = e.raws[j]
        <5> HIDE DEF L, M
        <5> QED BY <2>4, <2>5
      <4>2. IsSeq(raws) /\ Number(e, low, size)
        BY <2>1, <2>5, Zenon
      <4> HIDE DEF size, L, M
      <4>3. L \in Nat /\ L + Len(e.raws) <= Len(raws) /\ \A j \in 1..Len(e.raws) : raws[L + j] = e.raws[j]
        BY <4>1, Zenon DEF M
      <4> QED BY <1>1, <1>2, <4>2, <4>3, TopOfWindow, Zenon
    <3> HIDE DEF size
    <3> QED BY <2>2, <2>6, <3>1, Zenon
  <2>10. \A i \in 1..Len(got) : i = 1 \/ i = 2
    BY <2>2
  <2> QED BY <2>7, <2>8, <2>9, <2>10, Zenon
<1> QED BY <1>4, <1>5, <1>6, Zenon DEF NumbersInv

\* Whatever the generator, as long as rawNext() returns words of its bits, every
\* number is the leading bits of the words drawn for it, and none is drawn too many.
THEOREM NumbersAlwaysLeadingBits == Spec => [](WordsFit => NumbersAreLeadingBits)
<1>1. Spec => []NumbersInv
  BY InitNumbers, NextNumbers, PTL DEF Spec
<1> QED BY <1>1, NumbersFollow, PTL

-----------------------------------------------------------------------------
(* What was saved is restored. *)

\* The halves of words of 64 bits make the words again.
LEMMA HalvesJoin ==
  ASSUME NEW k, NEW w \in Seq(SUBSET (0..63))
  PROVE  /\ Joined(k, Halves(k, w)) = w
         /\ Len(Halves(k, w)) \in Nat
         /\ Halves(k, w) = [i \in 1..Len(Halves(k, w)) |-> Halves(k, w)[i]]
<1>1. CASE ~Wide(k)
  BY <1>1 DEF Joined, Halves
<1>2. CASE Wide(k)
  <2> DEFINE n == Len(w)
             half(i) == LET a == w[(i + 1) \div 2]
                        IN  IF i % 2 = 1 THEN a \cap (0..31) ELSE {j - 32 : j \in {b \in a : b >= 32}}
             h == [i \in 1..(2 * n) |-> half(i)]
  <2>1. Halves(k, w) = h
    BY <1>2 DEF Halves
  <2>2. n \in Nat /\ DOMAIN w = 1..n /\ w = [i \in 1..n |-> w[i]]
    OBVIOUS
  <2>3. \A i \in 1..n : w[i] \in SUBSET (0..63)
    <3> DEFINE S == SUBSET (0..63)
    <3>1. w \in Seq(S)
      OBVIOUS
    <3> HIDE DEF S
    <3>2. \A i \in 1..Len(w) : w[i] \in S
      BY <3>1
    <3> QED BY <3>2 DEF S
  <2>4. h \in Seq({half(i) : i \in 1..(2 * n)}) /\ Len(h) = 2 * n
    <3>1. 2 * n \in Nat
      BY <2>2
    <3> HIDE DEF half, n
    <3> QED BY <3>1
  <2>5. ASSUME NEW i \in 1..n
        PROVE  h[2 * i - 1] = w[i] \cap (0..31) /\ h[2 * i] = {j - 32 : j \in {b \in w[i] : b >= 32}}
    <3>1. 2 * i - 1 \in 1..(2 * n) /\ 2 * i \in 1..(2 * n)
      <4> HIDE DEF n
      <4> QED BY <2>2
    <3>2. h[2 * i - 1] = half(2 * i - 1) /\ h[2 * i] = half(2 * i)
      <4> HIDE DEF half, n
      <4> QED BY <3>1
    <3>3. i \in Int
      OBVIOUS
    <3>4. /\ ((2 * i - 1) + 1) \div 2 = i /\ (2 * i - 1) % 2 = 1
          /\ (2 * i + 1) \div 2 = i /\ (2 * i) % 2 = 0
      BY <3>3
    <3> QED BY <3>2, <3>4
  <2>6. ASSUME NEW a \in SUBSET (0..63)
        PROVE  (a \cap (0..31)) \cup {j + 32 : j \in {m - 32 : m \in {b \in a : b >= 32}}} = a
    <3> DEFINE high == {m - 32 : m \in {b \in a : b >= 32}}
               back == {j + 32 : j \in high}
    <3>1. ASSUME NEW x \in a
          PROVE  x \in 0..31 \/ x \in back
      <4>1. x \in 0..63
        OBVIOUS
      <4>2. CASE x >= 32
        <5>1. x - 32 \in high
          BY <4>2
        <5>2. x = (x - 32) + 32
          BY <4>1
        <5> HIDE DEF high
        <5> QED BY <5>1, <5>2
      <4> QED BY <4>1, <4>2
    <3>2. ASSUME NEW x \in back
          PROVE  x \in a
      <4>1. PICK j \in high : x = j + 32
        OBVIOUS
      <4>2. PICK m \in a : j = m - 32
        BY <4>1
      <4>3. m \in 0..63
        OBVIOUS
      <4> HIDE DEF back, high
      <4> QED BY <4>1, <4>2, <4>3
    <3>3. (a \cap (0..31)) \cup back = a
      <4> HIDE DEF back
      <4> QED BY <3>1, <3>2
    <3> QED BY <3>3, Zenon
  <2>7. (2 * n) \div 2 = n
    <3> HIDE DEF n
    <3> QED BY <2>2
  <2>8. Joined(k, h) = [i \in 1..n |-> h[2 * i - 1] \cup {j + 32 : j \in h[2 * i]}]
    <3>1. Joined(k, h) = [i \in 1..(Len(h) \div 2) |-> h[2 * i - 1] \cup {j + 32 : j \in h[2 * i]}]
      BY <1>2, Zenon DEF Joined
    <3> HIDE DEF h, n
    <3> QED BY <2>4, <2>7, <3>1
  <2> HIDE DEF h, n
  <2>9. ASSUME NEW i \in 1..n
        PROVE  h[2 * i - 1] \cup {j + 32 : j \in h[2 * i]} = w[i]
    BY <2>3, <2>5, <2>6
  <2>10. Joined(k, h) = w
    BY <2>2, <2>8, <2>9
  <2>11. 2 * n \in Nat
    BY <2>2
  <2>12. h = [i \in 1..(2 * n) |-> h[i]]
    BY DEF h
  <2> QED BY <2>1, <2>4, <2>10, <2>11, <2>12
<1> QED BY <1>1, <1>2

LEMMA WordsSaved ==
  ASSUME NEW k \in Kinds
  PROVE  Classes[k].restoreLE \in Nat /\ (Wide(k) => Classes[k].perWord \in Nat)
BY ClassesAssumption, Zenon

\* The inductive invariant: the file is what save() made of the generator kept.
FileInv ==
    /\ kind \in Kinds
    /\ file # NoFile => \E big \in BOOLEAN : file = Saved(kind, kept, big)

LEMMA InitFile == Init => FileInv
BY DEF Init, FileInv

LEMMA NextFile == FileInv /\ [Next]_vars => FileInv'
<1> SUFFICES ASSUME FileInv, [Next]_vars
             PROVE  FileInv'
  OBVIOUS
<1>1. ASSUME kind' = kind, file' = file, kept' = kept
      PROVE  FileInv'
  <2>1. \A big : Saved(kind, kept, big)' = Saved(kind, kept, big)
    BY <1>1 DEF Saved, Halves, SavedLE, Swapped, Wide
  <2> QED BY <1>1, <2>1, Zenon DEF FileInv
<1>2. ASSUME NEW big \in BOOLEAN, Save(big)
      PROVE  FileInv'
  <2>1. kind' = kind /\ file' = Saved(kind, gen, big) /\ kept' = gen
    BY <1>2 DEF Save
  <2>2. kind' \in Kinds
    BY <2>1 DEF FileInv
  <2>3. file' = Saved(kind', kept', big)
    BY <2>1, Zenon
  <2> QED BY <2>2, <2>3, Zenon DEF FileInv
<1>3. CASE Numbers
  BY <1>1, <1>3 DEF Numbers
<1>4. CASE FillBytes
  BY <1>1, <1>4 DEF FillBytes
<1>5. CASE FillTurn
  BY <1>1, <1>5 DEF FillTurn
<1>6. CASE FillReturn
  BY <1>1, <1>6 DEF FillReturn
<1>7. ASSUME NEW big \in BOOLEAN, Restore(big)
      PROVE  FileInv'
  BY <1>1, <1>7 DEF Restore
<1>8. CASE UNCHANGED vars
  BY <1>1, <1>8 DEF vars
<1> QED BY <1>2, <1>3, <1>4, <1>5, <1>6, <1>7, <1>8 DEF Next

LEMMA FileRestores == FileInv /\ WordsFit => RestoreContinues
<1> SUFFICES ASSUME FileInv, WordsFit, file # NoFile, Len(file.w) = Exactly(kind),
                    NEW big \in BOOLEAN,
                    ~(file.big /\ SavedLE(kind, kept) < Len(file.w)),
                    ~(big /\ Classes[kind].restoreLE < Len(file.w))
             PROVE  LET g == Restored(kind, file, big) IN g.w = kept.w /\ g.p = kept.p
  BY Zenon DEF RestoreContinues
<1> DEFINE h == Halves(kind, kept.w)
<1>1. kept.w \in Seq(SUBSET (0..63))
  BY DEF WordsFit
<1>2. Joined(kind, h) = kept.w /\ Len(h) \in Nat /\ h = [i \in 1..Len(h) |-> h[i]]
  BY <1>1, HalvesJoin, Zenon
<1>3. PICK there \in BOOLEAN : file = Saved(kind, kept, there)
  BY DEF FileInv
<1> HIDE DEF h
<1> DEFINE LE == SavedLE(kind, kept)
           f == [i \in 1..Len(h) |-> IF there /\ i > LE THEN Swapped(kind, h[i]) ELSE h[i]]
<1>4. file.w = f /\ file.p = kept.p /\ file.big = there
  BY <1>3 DEF Saved, h
<1>5. Len(f) = Len(h)
  <2> HIDE DEF LE
  <2> QED BY <1>2
<1>6. f = h
  <2>1. there => ~(LE < Len(h))
    BY <1>4, <1>5
  <2>2. LE \in Nat
    <3>1. Len(kept.w) \in Nat
      BY <1>1
    <3>2. Wide(kind) => Classes[kind].perWord \in Nat
      BY WordsSaved DEF FileInv
    <3> QED BY <3>1, <3>2 DEF SavedLE
  <2> HIDE DEF LE
  <2>3. ASSUME NEW i \in 1..Len(h), there
        PROVE  ~(i > LE)
    BY <1>2, <2>1, <2>2, <2>3
  <2> QED BY <1>2, <2>3
<1> HIDE DEF f
<1>7. Restored(kind, file, big) = Fresh(Joined(kind, h), kept.p)
  <2>1. CASE ~big
    BY <1>4, <1>6, <2>1 DEF Restored
  <2>2. CASE big
    <3> DEFINE least == Classes[kind].restoreLE
    <3>1. ~(least < Len(file.w)) /\ kind \in Kinds
      BY <2>2 DEF FileInv
    <3>2. kind # "Pcg64"
      BY <3>1, ClassesAssumption
    <3>3. least \in Nat
      BY <3>1, WordsSaved
    <3>4. Len(file.w) = Len(h)
      BY <1>4, <1>6
    <3> HIDE DEF least
    <3> DEFINE g == [i \in 1..Len(file.w) |->
                       IF i > least THEN Swapped(kind, file.w[i]) ELSE file.w[i]]
    <3>5. g = h
      <4>1. \A i \in 1..Len(h) : ~(i > least)
        BY <1>2, <3>1, <3>3, <3>4
      <4> QED BY <1>2, <1>4, <1>6, <3>4, <4>1
    <3>6. Restored(kind, file, big) = Fresh(Joined(kind, g), file.p)
      BY <2>2, <3>2, Zenon DEF Restored, least
    <3> HIDE DEF g
    <3> QED BY <1>4, <3>5, <3>6
  <2> QED BY <2>1, <2>2
<1>8. Fresh(kept.w, kept.p).w = kept.w /\ Fresh(kept.w, kept.p).p = kept.p
  BY DEF Fresh, Raw
<1> QED BY <1>2, <1>7, <1>8

\* Whatever is drawn meanwhile, restore() leads back to the generator that save() saw,
\* but for the platforms on which the classes read and write their words unlike.
THEOREM RestoreAlwaysContinues == Spec => [](WordsFit => RestoreContinues)
<1>1. Spec => []FileInv
  BY InitFile, NextFile, PTL DEF Spec
<1> QED BY <1>1, FileRestores, PTL

-----------------------------------------------------------------------------
(* What pushNumberBE() writes. *)

\* A bit of the array, and how many are written
At(buff, t) == (7 - (t % 8)) \in buff[t \div 8 + 1]
Pos(bw) == 8 * bw.ptr + bw.bit

\* A writer that the methods leave: within its array, and nothing yet in what is left
\* of the byte it has begun.
Placed(bw) ==
    /\ bw \in BitWriter
    /\ bw.ptr <= Len(bw.buff)
    /\ bw.bit > 0 => /\ bw.ptr < Len(bw.buff)
                     /\ \A p \in 0..(7 - bw.bit) : p \notin bw.buff[bw.ptr + 1]

\* The byte a turn writes: what was there, and the bits of the number at their place.
LEMMA ByteWritten ==
  ASSUME NEW n \in SUBSET (0..31), NEW share, NEW s \in Int, NEW p \in 0..7
  PROVE  /\ s >= 0 => (p \in Octet(share \cup Int32!Shr(n, s)) <=> (p \in share \/ (p + s) \in n))
         /\ s < 0 => (p \in Octet(share \cup Int32!Shl(n, -s)) <=> (p \in share \/ (p + s) \in n))
<1>1. ASSUME s >= 0
      PROVE  p \in Int32!Shr(n, s) <=> (p + s) \in n
  <2>1. p \in Int32!Shr(n, s) <=> \E j \in n : j >= s /\ p = j - s
    BY Zenon DEF Int32!Shr
  <2>2. \A j \in n : j \in Int
    OBVIOUS
  <2>3. \A j \in n : (j >= s /\ p = j - s) <=> j = p + s
    BY <1>1, <2>2
  <2> QED BY <2>1, <2>3
<1>2. ASSUME s < 0
      PROVE  p \in Int32!Shl(n, -s) <=> (p + s) \in n
  <2>1. p \in Int32!Shl(n, -s) <=> \E j \in n : j + (-s) < 32 /\ p = j + (-s)
    BY Zenon DEF Int32!Shl
  <2>2. \A j \in n : j \in Int
    OBVIOUS
  <2>3. \A j \in n : (j + (-s) < 32 /\ p = j + (-s)) <=> j = p + s
    BY <1>2, <2>2
  <2> QED BY <2>1, <2>3
<1> QED BY <1>1, <1>2 DEF Octet

\* Bytes and the bits of them
LEMMA ByteOf ==
  ASSUME NEW ptr \in Nat, NEW t \in Nat
  PROVE  /\ t < 8 * ptr => t \div 8 + 1 \in 1..ptr
         /\ (8 * ptr <= t /\ t < 8 * ptr + 8) => (t \div 8 = ptr /\ t % 8 = t - 8 * ptr)
OBVIOUS

\* A byte B that takes so many bits of n, from the place the writer is at, and what it
\* leaves of the array.
Takes(buff, ptr, bit, n, bits, B) ==
    /\ bit > 0 => n \subseteq 0..(bits - 1)
    /\ bit > 0 => \A p \in 0..(7 - bit) : p \notin buff[ptr + 1]
    /\ \A p \in 0..7 : p \in B <=> ((bit > 0 /\ p \in buff[ptr + 1]) \/ (p + (bits - (8 - bit))) \in n)
Wrote(buff, ptr, bit, n, bits, B, new) ==
    /\ new \in Seq(SUBSET (0..7)) /\ Len(new) = Len(buff) /\ new[ptr + 1] = B
    /\ \A t \in 0..((8 * ptr + bit) - 1) : At(new, t) <=> At(buff, t)
    /\ \A t \in (8 * ptr + bit)..(8 * ptr + 7) :
          At(new, t) <=> (bits - 1 - (t - (8 * ptr + bit))) \in n
    /\ \A p \in 0..(7 - bit - bits) : p \notin B

\* One turn of the loop, in the bits of the array: none before the place it writes at
\* changes, from there on they are the number's, and what is left of the byte is empty.
LEMMA ByteTurn ==
  ASSUME NEW buff \in Seq(SUBSET (0..7)), NEW ptr \in Nat, ptr < Len(buff), NEW bit \in 0..7,
         NEW n \in SUBSET (0..31), NEW bits \in Nat, NEW B \in SUBSET (0..7),
         Takes(buff, ptr, bit, n, bits, B)
  PROVE  Wrote(buff, ptr, bit, n, bits, B, [buff EXCEPT ![ptr + 1] = B])
<1> DEFINE new == [buff EXCEPT ![ptr + 1] = B]
           s == bits - (8 - bit)
           share == IF bit = 0 THEN {} ELSE buff[ptr + 1]
<1>1. /\ Len(buff) \in Nat /\ new \in Seq(SUBSET (0..7)) /\ Len(new) = Len(buff) /\ new[ptr + 1] = B
      /\ \A i \in 1..Len(buff) : i # ptr + 1 => new[i] = buff[i]
  <2> DEFINE S == SUBSET (0..7)
  <2>1. buff \in Seq(S) /\ B \in S
    OBVIOUS
  <2> HIDE DEF S
  <2>2. Len(buff) \in Nat
    BY <2>1
  <2>3. ptr + 1 \in 1..Len(buff)
    BY <2>2
  <2>4. new \in Seq(S) /\ Len(new) = Len(buff) /\ new[ptr + 1] = B
        /\ \A i \in 1..Len(buff) : i # ptr + 1 => new[i] = buff[i]
    BY <2>1, <2>2, <2>3
  <2> QED BY <2>2, <2>4 DEF S
<1> HIDE DEF new
<1>2. s = bits - (8 - bit) /\ s \in Int
  OBVIOUS
<1>a. /\ bit > 0 => n \subseteq 0..(bits - 1)
      /\ bit > 0 => \A p \in 0..(7 - bit) : p \notin buff[ptr + 1]
  BY Zenon DEF Takes
<1>b. share = IF bit = 0 THEN {} ELSE buff[ptr + 1]
  OBVIOUS
<1> HIDE DEF share
<1>c. \A p : p \in share <=> (bit > 0 /\ p \in buff[ptr + 1])
  BY <1>b
<1>3. \A p \in 0..7 : p \in B <=> (p \in share \/ (p + s) \in n)
  BY <1>c, Zenon DEF Takes
<1> HIDE DEF s
<1>4. \A p \in 0..(7 - bit) : p \notin share
  <2>1. CASE bit = 0
    BY <1>c, <2>1
  <2>2. CASE bit # 0
    <3>1. bit > 0
      BY <2>2
    <3> QED BY <1>a, <1>c, <3>1, Zenon
  <2> QED BY <2>1, <2>2
<1>5. ASSUME NEW t \in 0..((8 * ptr + bit) - 1)
      PROVE  At(new, t) <=> At(buff, t)
  <2>1. CASE t < 8 * ptr
    <3> DEFINE L == Len(buff)
               i == t \div 8 + 1
    <3>0. L \in Nat /\ ptr < L
      BY <1>1
    <3>2. t \in Nat
      OBVIOUS
    <3>3. i \in 1..ptr
      BY <2>1, <3>2, ByteOf, Zenon
    <3>1. i \in 1..L /\ i # ptr + 1
      <4> HIDE DEF i, L
      <4> QED BY <3>0, <3>3
    <3> QED BY <1>1, <3>1, Zenon DEF At
  <2>2. CASE ~(t < 8 * ptr)
    <3> DEFINE p == 7 - (t % 8)
    <3>1. t \div 8 = ptr /\ t % 8 = t - 8 * ptr /\ bit > 0
      BY <2>2, ByteOf
    <3>2. p = 7 - (t - 8 * ptr) /\ p \in 0..7 /\ p >= 8 - bit
      BY <2>2, <3>1
    <3> HIDE DEF p
    <3>3. ~((p + s) \in 0..(bits - 1))
      BY <1>2, <3>2
    <3>4. ~((p + s) \in n)
      BY <1>a, <3>1, <3>3, Zenon
    <3>5. p \in share <=> p \in buff[ptr + 1]
      BY <1>c, <3>1, Zenon
    <3>6. p \in new[ptr + 1] <=> p \in buff[ptr + 1]
      BY <1>1, <1>3, <3>2, <3>4, <3>5, Zenon
    <3> QED BY <3>1, <3>6 DEF At, p
  <2> QED BY <2>1, <2>2
<1>6. ASSUME NEW t \in (8 * ptr + bit)..(8 * ptr + 7)
      PROVE  At(new, t) <=> (bits - 1 - (t - (8 * ptr + bit))) \in n
  <2> DEFINE p == 7 - (t % 8)
  <2>1. t \in Nat /\ 8 * ptr <= t /\ t < 8 * ptr + 8
    OBVIOUS
  <2>2. t \div 8 = ptr /\ t % 8 = t - 8 * ptr
    BY <2>1, ByteOf
  <2>3. p \in 0..(7 - bit) /\ p \in 0..7 /\ p + s = bits - 1 - (t - (8 * ptr + bit))
    BY <1>2, <2>1, <2>2
  <2> HIDE DEF p
  <2>4. p \in new[ptr + 1] <=> (p + s) \in n
    BY <1>1, <1>3, <1>4, <2>3, Zenon
  <2>5. At(new, t) <=> p \in new[ptr + 1]
    BY <2>2 DEF At, p
  <2> QED BY <2>3, <2>4, <2>5
<1>7. ASSUME NEW p \in 0..(7 - bit - bits)
      PROVE  p \notin B
  <2>0. p \in Nat /\ p <= 7 - bit - bits
    OBVIOUS
  <2>a. p \in 0..7 /\ p \in 0..(7 - bit)
    BY <2>0
  <2>b. p + s < 0 /\ p + s \in Int
    BY <1>2, <2>0
  <2>1. ~((p + s) \in 0..31)
    BY <2>b, NoneBelow, Zenon
  <2>2. ~((p + s) \in n)
    BY <2>1, Zenon
  <2> QED BY <1>3, <1>4, <2>a, <2>2, Zenon
<1> QED BY <1>1, <1>5, <1>6, <1>7, Zenon DEF new, Wrote

\* What i turns leave of a number of bits pushed to bw
TurnInv(bw, n, bits, i, a) ==
    /\ a \in Push /\ a.n = n /\ a.bits \in Nat
    /\ Placed(a.bw) /\ Len(a.bw.buff) = Len(bw.buff)
    /\ Pos(bw) <= Pos(a.bw) /\ a.bits = bits + Pos(bw) - Pos(a.bw)
    /\ a.bits = 0 \/ Full(a.bw) \/ a.bw.ptr = bw.ptr + i
    /\ a.bits = 0 \/ a.bw.bit = 0 \/ n \subseteq 0..(a.bits - 1)
    /\ \A t \in 0..(Pos(bw) - 1) : At(a.bw.buff, t) <=> At(bw.buff, t)
    /\ \A t \in Pos(bw)..(Pos(a.bw) - 1) : At(a.bw.buff, t) <=> (bits - 1 - (t - Pos(bw))) \in n

\* How many bits a turn writes, and what it leaves
Took(a) == IF a.bits >= 8 - a.bw.bit THEN 8 - a.bw.bit ELSE a.bits
Written(a, r, took) ==
    /\ r \in Push /\ r.n = a.n /\ r.bits = a.bits - took
    /\ Placed(r.bw) /\ Len(r.bw.buff) = Len(a.bw.buff) /\ Pos(r.bw) = Pos(a.bw) + took
    /\ r.bits = 0 \/ (r.bw.bit = 0 /\ r.bw.ptr = a.bw.ptr + 1)
    /\ \A t \in 0..(Pos(a.bw) - 1) : At(r.bw.buff, t) <=> At(a.bw.buff, t)
    /\ \A t \in Pos(a.bw)..(Pos(r.bw) - 1) :
          At(r.bw.buff, t) <=> (a.bits - 1 - (t - Pos(a.bw))) \in a.n

\* A turn that writes, in the fields of the writer
LEMMA TurnWrites ==
  ASSUME NEW a \in Push, a.bits \in Nat, a.bits > 0, Placed(a.bw), ~Full(a.bw),
         a.bw.bit = 0 \/ a.n \subseteq 0..(a.bits - 1),
         NEW r, r = PutBits[a]
  PROVE  Written(a, r, Took(a))
<1> DEFINE took == Took(a)
           buff == a.bw.buff
           ptr == a.bw.ptr
           bit == a.bw.bit
           bits == a.bits
           n == a.n
           share == IF bit = 0 THEN {} ELSE buff[ptr + 1]
           s == bits - (8 - bit)
           B == IF s >= 0 THEN Octet(share \cup Int32!Shr(n, s)) ELSE Octet(share \cup Int32!Shl(n, -s))
           new == [buff EXCEPT ![ptr + 1] = B]
<1>1. /\ buff \in Seq(SUBSET (0..7)) /\ ptr \in Nat /\ bit \in 0..7
      /\ n \in SUBSET (0..31) /\ bits \in Nat /\ bits > 0
  BY DEF Push, BitWriter, Int32!Word, Int32!Bit
<1>2. ptr < Len(buff)
  <2>1. Len(buff) \in Nat
    BY <1>1
  <2> QED BY <1>1, <2>1 DEF Full
<1>3. bit > 0 => n \subseteq 0..(bits - 1) /\ \A p \in 0..(7 - bit) : p \notin buff[ptr + 1]
  BY <1>1 DEF Placed
<1>4. r = IF bits >= 8 - bit
          THEN [bw |-> [buff |-> new, ptr |-> ptr + 1, bit |-> 0], n |-> n, bits |-> bits - (8 - bit)]
          ELSE [bw |-> [buff |-> new, ptr |-> ptr, bit |-> bit + bits], n |-> n, bits |-> 0]
  <2>1. ~(bits <= 0 \/ Full(a.bw))
    BY <1>1
  <2>2. bits >= 8 - bit <=> s >= 0
    BY <1>1
  <2>3. -s = (8 - bit) - bits
    BY <1>1
  <2>4. r = IF bits >= 8 - bit
            THEN [bw |-> [buff |-> [buff EXCEPT ![ptr + 1] = Octet(share \cup Int32!Shr(n, bits - (8 - bit)))],
                          ptr |-> ptr + 1, bit |-> 0],
                  n |-> n, bits |-> bits - (8 - bit)]
            ELSE [bw |-> [buff |-> [buff EXCEPT ![ptr + 1] = Octet(share \cup Int32!Shl(n, (8 - bit) - bits))],
                          ptr |-> ptr, bit |-> bit + bits],
                  n |-> n, bits |-> 0]
    BY <2>1, Zenon DEF PutBits
  <2>5. CASE s >= 0
    BY <2>2, <2>4, <2>5, Zenon
  <2>6. CASE ~(s >= 0)
    BY <2>2, <2>3, <2>4, <2>6, Zenon
  <2> QED BY <2>5, <2>6, Zenon
<1>0. took = IF bits >= 8 - bit THEN 8 - bit ELSE bits
  BY DEF Took
<1> HIDE DEF share, B, s, took
<1>5. s \in Int /\ s = bits - (8 - bit)
  BY <1>1 DEF s
<1>6. \A p \in 0..7 : p \in B <=> (p \in share \/ (p + s) \in n)
  <2>1. CASE s >= 0
    BY <1>1, <1>5, <2>1, ByteWritten, Zenon DEF B
  <2>2. CASE ~(s >= 0)
    <3>1. s < 0
      BY <1>5, <2>2
    <3> QED BY <1>1, <1>5, <2>2, <3>1, ByteWritten, Zenon DEF B
  <2> QED BY <2>1, <2>2
<1>7. B \in SUBSET (0..7)
  BY DEF B, Octet
<1>8. share = IF bit = 0 THEN {} ELSE buff[ptr + 1]
  BY DEF share
<1>9. /\ new \in Seq(SUBSET (0..7)) /\ Len(new) = Len(buff) /\ new[ptr + 1] = B
      /\ \A t \in 0..((8 * ptr + bit) - 1) : At(new, t) <=> At(buff, t)
      /\ \A t \in (8 * ptr + bit)..(8 * ptr + 7) :
            At(new, t) <=> (bits - 1 - (t - (8 * ptr + bit))) \in n
      /\ \A p \in 0..(7 - bit - bits) : p \notin B
  <2> HIDE DEF buff, ptr, bit, bits, n
  <2>1. \A p : p \in share <=> (bit > 0 /\ p \in buff[ptr + 1])
    BY <1>1, <1>8
  <2>2. Takes(buff, ptr, bit, n, bits, B)
    BY <1>3, <1>5, <1>6, <2>1, Zenon DEF Takes
  <2>3. Wrote(buff, ptr, bit, n, bits, B, new)
    BY <1>1, <1>2, <1>7, <2>2, ByteTurn, Zenon
  <2> QED BY <2>3, Zenon DEF Wrote
<1>10. Pos(a.bw) = 8 * ptr + bit /\ Len(buff) \in Nat
  BY <1>1 DEF Pos
<1> HIDE DEF new
<1>11. CASE bits >= 8 - bit
  <2>1. took = 8 - bit
    BY <1>0, <1>11
  <2>2. r = [bw |-> [buff |-> new, ptr |-> ptr + 1, bit |-> 0], n |-> n, bits |-> bits - (8 - bit)]
    BY <1>4, <1>11, Zenon
  <2>3. /\ r.n = n /\ r.bits = bits - took
        /\ r.bw.buff = new /\ r.bw.ptr = ptr + 1 /\ r.bw.bit = 0
        /\ r.bw = [buff |-> new, ptr |-> ptr + 1, bit |-> 0]
    BY <2>1, <2>2
  <2>4. r \in Push
    BY <1>1, <1>9, <2>2 DEF Push, BitWriter, Int32!Word, Int32!Bit
  <2>5. Placed(r.bw) /\ Len(r.bw.buff) = Len(buff)
    BY <1>1, <1>2, <1>9, <1>10, <2>3 DEF Placed, BitWriter
  <2>6. Pos(r.bw) = 8 * ptr + 8 /\ Pos(r.bw) = Pos(a.bw) + took
    <3>1. Pos(r.bw) = 8 * (ptr + 1) + 0
      BY <2>3, Zenon DEF Pos
    <3>2. ptr \in Nat /\ bit \in 0..7
      BY <1>1
    <3> HIDE DEF buff, ptr, bit, bits, n
    <3>3. Pos(r.bw) = 8 * ptr + 8
      BY <3>1, <3>2
    <3> QED BY <1>10, <2>1, <3>2, <3>3
  <2> HIDE DEF buff, ptr, bit, bits, n
  <2>7. \A t \in Pos(a.bw)..(Pos(r.bw) - 1) : t \in (8 * ptr + bit)..(8 * ptr + 7)
    BY <1>1, <1>10, <2>6
  <2>8. \A t \in 0..(Pos(a.bw) - 1) : At(r.bw.buff, t) <=> At(buff, t)
    BY <1>9, <1>10, <2>3, Zenon
  <2>9. \A t \in Pos(a.bw)..(Pos(r.bw) - 1) :
           At(r.bw.buff, t) <=> (bits - 1 - (t - Pos(a.bw))) \in n
    BY <1>9, <1>10, <2>3, <2>7, Zenon
  <2>10. Len(r.bw.buff) = Len(buff) /\ r.bw.bit = 0 /\ r.bw.ptr = ptr + 1 /\ r.bits = bits - took
    BY <2>3, <2>5, Zenon
  <2> QED BY <2>3, <2>4, <2>5, <2>6, <2>8, <2>9, <2>10, Zenon DEF buff, ptr, bit, bits, n, took, Written
<1>12. CASE ~(bits >= 8 - bit)
  <2>1. took = bits
    BY <1>0, <1>12
  <2>2. r = [bw |-> [buff |-> new, ptr |-> ptr, bit |-> bit + bits], n |-> n, bits |-> 0]
    BY <1>4, <1>12, Zenon
  <2>3. /\ r.n = n /\ r.bits = 0 /\ bits - took = 0
        /\ r.bw.buff = new /\ r.bw.ptr = ptr /\ r.bw.bit = bit + bits
        /\ r.bw = [buff |-> new, ptr |-> ptr, bit |-> bit + bits]
    <3>1. bits \in Int
      BY <1>1
    <3> HIDE DEF buff, ptr, bit, bits, n, took, new
    <3>2. bits - took = 0
      BY <2>1, <3>1
    <3>3. /\ r.n = n /\ r.bits = 0 /\ r.bw = [buff |-> new, ptr |-> ptr, bit |-> bit + bits]
          /\ r.bw.buff = new /\ r.bw.ptr = ptr /\ r.bw.bit = bit + bits
      BY <2>2
    <3> QED BY <3>2, <3>3, Zenon
  <2>4. bit + bits \in 0..7 /\ 7 - (bit + bits) = 7 - bit - bits
    <3>1. bit \in 0..7 /\ bits \in Nat
      BY <1>1
    <3> HIDE DEF buff, ptr, bit, bits, n, took, new
    <3> QED BY <1>12, <3>1
  <2>5. r \in Push
    BY <1>1, <1>9, <2>2, <2>4 DEF Push, BitWriter, Int32!Word, Int32!Bit
  <2>6. Placed(r.bw) /\ Len(r.bw.buff) = Len(buff)
    <3>1. \A p \in 0..(7 - (bit + bits)) : p \notin new[ptr + 1]
      BY <1>9, <2>4, Zenon
    <3>2. r.bw \in BitWriter
      BY <1>1, <1>9, <2>3, <2>4 DEF BitWriter
    <3>3. ptr <= Len(new) /\ ptr < Len(new) /\ Len(new) = Len(buff)
      BY <1>1, <1>2, <1>9, <1>10
    <3> QED BY <2>3, <3>1, <3>2, <3>3, Zenon DEF Placed
  <2>7. Pos(r.bw) = 8 * ptr + (bit + bits) /\ Pos(r.bw) = Pos(a.bw) + took
    <3>1. Pos(r.bw) = 8 * ptr + (bit + bits)
      BY <2>3, Zenon DEF Pos
    <3> HIDE DEF buff, ptr, bit, bits, n
    <3> QED BY <1>1, <1>10, <2>1, <3>1
  <2> HIDE DEF buff, ptr, bit, bits, n
  <2>8. \A t \in Pos(a.bw)..(Pos(r.bw) - 1) : t \in (8 * ptr + bit)..(8 * ptr + 7)
    BY <1>1, <1>10, <2>4, <2>7
  <2>9. \A t \in 0..(Pos(a.bw) - 1) : At(r.bw.buff, t) <=> At(buff, t)
    BY <1>9, <1>10, <2>3, Zenon
  <2>10. \A t \in Pos(a.bw)..(Pos(r.bw) - 1) :
           At(r.bw.buff, t) <=> (bits - 1 - (t - Pos(a.bw))) \in n
    BY <1>9, <1>10, <2>3, <2>8, Zenon
  <2>11. Len(r.bw.buff) = Len(buff) /\ r.bits = 0 /\ r.bits = bits - took
    BY <2>3, <2>6, Zenon
  <2> QED BY <2>3, <2>5, <2>6, <2>7, <2>9, <2>10, <2>11, Zenon DEF buff, ptr, bit, bits, n, took, Written
<1> QED BY <1>11, <1>12

LEMMA PlacedIs ==
  ASSUME NEW bw, Placed(bw)
  PROVE  /\ Pos(bw) \in Nat /\ bw.ptr \in Nat /\ bw.bit \in 0..7 /\ Len(bw.buff) \in Nat
         /\ Pos(bw) = 8 * bw.ptr + bw.bit
         /\ bw.ptr <= Len(bw.buff) /\ Pos(bw) <= 8 * Len(bw.buff)
         /\ Full(bw) <=> Pos(bw) = 8 * Len(bw.buff)
<1>1. /\ bw.ptr \in Nat /\ bw.bit \in 0..7 /\ bw.buff \in Seq(SUBSET (0..7))
      /\ bw.ptr <= Len(bw.buff) /\ (bw.bit > 0 => bw.ptr < Len(bw.buff))
  BY DEF Placed, BitWriter
<1> DEFINE ptr == bw.ptr
           bit == bw.bit
           L == Len(bw.buff)
<1>2. L \in Nat
  BY <1>1
<1>3. Pos(bw) = 8 * ptr + bit
  BY DEF Pos
<1>4. Full(bw) <=> ptr >= L
  BY DEF Full
<1>5. ptr \in Nat /\ bit \in 0..7 /\ ptr <= L /\ (bit > 0 => ptr < L)
  BY <1>1
<1> HIDE DEF ptr, bit, L
<1>6. /\ Pos(bw) \in Nat /\ Pos(bw) <= 8 * L
      /\ Full(bw) <=> Pos(bw) = 8 * L
  BY <1>2, <1>3, <1>4, <1>5
<1> QED BY <1>2, <1>3, <1>5, <1>6, Zenon DEF ptr, bit, L

\* Every turn keeps it.
LEMMA TurnKeeps ==
  ASSUME NEW bw, Placed(bw), NEW n, NEW bits \in Nat, NEW i \in Nat,
         NEW a, TurnInv(bw, n, bits, i, a)
  PROVE  TurnInv(bw, n, bits, i + 1, PutBits[a])
<1> DEFINE r == PutBits[a]
<1>1. /\ a \in Push /\ a.n = n /\ a.bits \in Nat
      /\ Placed(a.bw) /\ Len(a.bw.buff) = Len(bw.buff)
      /\ Pos(bw) <= Pos(a.bw) /\ a.bits = bits + Pos(bw) - Pos(a.bw)
      /\ a.bits = 0 \/ Full(a.bw) \/ a.bw.ptr = bw.ptr + i
      /\ a.bits = 0 \/ a.bw.bit = 0 \/ n \subseteq 0..(a.bits - 1)
      /\ \A t \in 0..(Pos(bw) - 1) : At(a.bw.buff, t) <=> At(bw.buff, t)
      /\ \A t \in Pos(bw)..(Pos(a.bw) - 1) : At(a.bw.buff, t) <=> (bits - 1 - (t - Pos(bw))) \in n
  BY Zenon DEF TurnInv
<1>2. CASE a.bits = 0 \/ Full(a.bw)
  <2>1. a.bits <= 0 \/ Full(a.bw)
    BY <1>2
  <2>2. r = a
    BY <1>1, <2>1, Zenon DEF PutBits
  <2> QED BY <1>1, <1>2, <2>2, Zenon DEF TurnInv
<1>3. CASE a.bits # 0 /\ ~Full(a.bw)
  <2> DEFINE took == Took(a)
             bit == a.bw.bit
             left == a.bits
             p0 == Pos(bw)
             p == Pos(a.bw)
  <2>1. a.bits > 0 /\ a.bw.ptr = bw.ptr + i /\ (a.bw.bit = 0 \/ n \subseteq 0..(a.bits - 1))
    BY <1>1, <1>3
  <2>2. a.bw.bit \in 0..7 /\ p \in Nat /\ bw.ptr \in Nat /\ p0 \in Nat
    BY <1>1, PlacedIs, Zenon
  <2>3. took \in Nat /\ took <= left /\ left \in Nat
    <3>1. took = IF left >= 8 - bit THEN 8 - bit ELSE left
      BY DEF Took
    <3>2. left \in Nat /\ bit \in 0..7
      BY <1>1, <2>2, Zenon
    <3> HIDE DEF took, left, bit
    <3> QED BY <3>1, <3>2
  <2>5. /\ r \in Push /\ r.n = a.n /\ r.bits = a.bits - took
        /\ Placed(r.bw) /\ Len(r.bw.buff) = Len(a.bw.buff) /\ Pos(r.bw) = Pos(a.bw) + took
        /\ r.bits = 0 \/ (r.bw.bit = 0 /\ r.bw.ptr = a.bw.ptr + 1)
        /\ \A t \in 0..(Pos(a.bw) - 1) : At(r.bw.buff, t) <=> At(a.bw.buff, t)
        /\ \A t \in Pos(a.bw)..(Pos(r.bw) - 1) :
              At(r.bw.buff, t) <=> (a.bits - 1 - (t - Pos(a.bw))) \in a.n
    <3>1. a.bw.bit = 0 \/ a.n \subseteq 0..(a.bits - 1)
      BY <1>1, <2>1, Zenon
    <3>2. Written(a, r, took)
      BY <1>1, <1>3, <2>1, <3>1, TurnWrites, Zenon
    <3> HIDE DEF r, took
    <3> QED BY <3>2, Zenon DEF Written
  <2> HIDE DEF r, took, left, p0, p
  <2>6. p0 <= p /\ left = bits + p0 - p /\ r.bits = left - took /\ Pos(r.bw) = p + took
    BY <1>1, <2>5, Zenon DEF p0, p, left
  <2>7. r.bits \in Nat /\ p0 <= Pos(r.bw) /\ r.bits = bits + p0 - Pos(r.bw)
    BY <2>2, <2>3, <2>6
  <2>8. r.bits = 0 \/ r.bw.ptr = bw.ptr + (i + 1)
    <3>1. a.bw.ptr + 1 = bw.ptr + (i + 1)
      BY <2>1, <2>2
    <3> QED BY <2>5, <3>1, Zenon
  <2>9. ASSUME NEW t \in 0..(p0 - 1)
        PROVE  At(r.bw.buff, t) <=> At(bw.buff, t)
    <3>1. t \in 0..(p - 1)
      BY <2>2, <2>6
    <3> QED BY <1>1, <2>5, <3>1, Zenon DEF p0, p
  <2>10. ASSUME NEW t \in p0..(Pos(r.bw) - 1)
        PROVE  At(r.bw.buff, t) <=> (bits - 1 - (t - p0)) \in n
    <3>1. CASE t < p
      <4>1. t \in 0..(p - 1) /\ t \in p0..(p - 1)
        BY <2>2, <2>6, <3>1
      <4> QED BY <1>1, <2>5, <4>1, Zenon DEF p0, p
    <3>2. CASE ~(t < p)
      <4>1. t \in p..(Pos(r.bw) - 1) /\ left - 1 - (t - p) = bits - 1 - (t - p0)
        BY <2>2, <2>3, <2>6, <3>2
      <4>2. At(r.bw.buff, t) <=> (left - 1 - (t - p)) \in n
        BY <1>1, <2>5, <4>1, Zenon DEF p, left
      <4> QED BY <4>1, <4>2
    <3> QED BY <3>1, <3>2
  <2>11. r.n = n /\ Len(r.bw.buff) = Len(bw.buff) /\ (r.bits = 0 \/ r.bw.bit = 0)
    BY <1>1, <2>5, Zenon
  <2>12. TurnInv(bw, n, bits, i + 1, r)
    BY <2>5, <2>7, <2>8, <2>9, <2>10, <2>11, Zenon DEF TurnInv, p0
  <2> QED BY <2>12 DEF r
<1> QED BY <1>2, <1>3

\* What pushNumberBE() leaves of an array: the bits before are as they were, and as many
\* of the number's as there is room for follow, the most significant first.
PushedTo(bw, n, bits, r) ==
    /\ Placed(r) /\ Len(r.buff) = Len(bw.buff)
    /\ Pos(bw) <= Pos(r) /\ Pos(r) <= Pos(bw) + bits
    /\ Full(r) \/ Pos(r) = Pos(bw) + bits
    /\ \A t \in 0..(Pos(bw) - 1) : At(r.buff, t) <=> At(bw.buff, t)
    /\ \A t \in Pos(bw)..(Pos(r) - 1) : At(r.buff, t) <=> (bits - 1 - (t - Pos(bw))) \in n

\* What a function of turns returns after any number of them.
TurnsFrom(f, F, x, n) == f = [i \in 0..n |-> IF i = 0 THEN x ELSE F[f[i - 1]]]
LEMMA TurnsExist ==
  ASSUME NEW F, NEW x, NEW n \in Nat
  PROVE  \E f : TurnsFrom(f, F, x, n)
<1> DEFINE Part(f, m) == f = [i \in 0..m |-> IF i = 0 THEN x ELSE F[f[i - 1]]]
           P == {m \in Nat : \E f : Part(f, m)}
<1>1. 0 \in P
  <2>1. Part([i \in 0..0 |-> x], 0)
    OBVIOUS
  <2> QED BY <2>1
<1>2. ASSUME NEW m \in Nat, m \in P
      PROVE  m + 1 \in P
  <2>1. PICK f : Part(f, m)
    BY <1>2
  <2> DEFINE h == [i \in 0..(m + 1) |-> IF i = m + 1 THEN F[f[m]] ELSE f[i]]
  <2>2. ASSUME NEW i \in 0..(m + 1)
        PROVE  h[i] = IF i = 0 THEN x ELSE F[h[i - 1]]
    <3>1. CASE i = m + 1
      <4>1. i # 0 /\ i - 1 = m /\ i - 1 \in 0..(m + 1) /\ i - 1 # m + 1
        BY <3>1
      <4>2. h[i - 1] = f[m] /\ h[i] = F[f[m]]
        BY <3>1, <4>1
      <4> HIDE DEF h
      <4> QED BY <4>1, <4>2
    <3>2. CASE i # m + 1
      <4>1. i \in 0..m /\ h[i] = f[i]
        BY <3>2
      <4>2. f[i] = IF i = 0 THEN x ELSE F[f[i - 1]]
        BY <2>1, <4>1
      <4>3. i # 0 => h[i - 1] = f[i - 1]
        BY <3>2, <4>1
      <4> HIDE DEF h
      <4> QED BY <4>1, <4>2, <4>3
    <3> QED BY <3>1, <3>2
  <2>3. h = [i \in 0..(m + 1) |-> h[i]]
    OBVIOUS
  <2> HIDE DEF h
  <2>4. Part(h, m + 1)
    BY <2>2, <2>3
  <2> QED BY <2>4
<1> HIDE DEF P
<1>3. n \in P
  BY <1>1, <1>2, UpTo
<1>4. PICK f : Part(f, n)
  BY <1>3 DEF P
<1>5. TurnsFrom(f, F, x, n)
  BY <1>4, Zenon DEF TurnsFrom
<1> QED BY <1>5

LEMMA PushIs ==
  ASSUME NEW bw, Placed(bw), NEW bits \in Nat, NEW n \in SUBSET (0..31), n \subseteq 0..(bits - 1)
  PROVE  PushedTo(bw, n, bits, pushNumberBE(bw, n, bits).bw)
<1> DEFINE most == Turns(bw, bits)
           zero == [bw |-> bw, n |-> n, bits |-> bits]
           put == PutBits
           Def(f) == f = [i \in 0..most |-> IF i = 0 THEN zero ELSE put[f[i - 1]]]
           after == CHOOSE f : Def(f)
           p0 == Pos(bw)
<1>1. pushNumberBE(bw, n, bits) = after[most]
  BY DEF pushNumberBE
<1>2. /\ p0 \in Nat /\ bw.ptr \in Nat /\ bw.bit \in 0..7 /\ p0 = 8 * bw.ptr + bw.bit
      /\ Len(bw.buff) \in Nat
  BY PlacedIs, Zenon
<1>3. most \in Nat /\ (bits = 0 \/ 8 * most >= bw.bit + bits) /\ (bits = 0 => most = 0)
  <2> DEFINE bit == bw.bit
  <2>1. most = IF bits <= 0 THEN 0 ELSE (bit + bits + 7) \div 8
    BY DEF Turns
  <2>2. bit \in 0..7
    BY <1>2
  <2>3. bits > 0 => (bit + bits + 7) \div 8 \in Nat /\ 8 * ((bit + bits + 7) \div 8) >= bit + bits
    <3> HIDE DEF bit
    <3> QED BY <2>2
  <2> HIDE DEF bit, most
  <2>4. most \in Nat /\ (bits = 0 \/ 8 * most >= bit + bits) /\ (bits = 0 => most = 0)
    BY <2>1, <2>2, <2>3
  <2> QED BY <2>4 DEF bit
<1>4. zero \in Push /\ zero.n = n /\ zero.bits = bits /\ zero.bw = bw
  BY DEF Push, Placed, Int32!Word, Int32!Bit
<1> HIDE DEF most, zero, put
<1>5. \A i \in 0..most : after[i] = IF i = 0 THEN zero ELSE put[after[i - 1]]
  <2>1. \E f : Def(f)
    <3>1. PICK f : TurnsFrom(f, put, zero, most)
      BY <1>3, TurnsExist, Zenon
    <3>2. Def(f)
      BY <3>1, Zenon DEF TurnsFrom
    <3> HIDE DEF Def
    <3> QED BY <3>2
  <2>2. Def(after)
    <3> HIDE DEF Def
    <3> QED BY <2>1
  <2> HIDE DEF after
  <2> QED BY <2>2
<1> HIDE DEF after
<1> DEFINE P == {i \in 0..most : TurnInv(bw, n, bits, i, after[i])}
<1>6. 0 \in P
  <2>1. after[0] = zero /\ 0 \in 0..most
    BY <1>3, <1>5
  <2>2. TurnInv(bw, n, bits, 0, zero)
    <3>1. Pos(bw) <= Pos(bw) /\ bits = bits + Pos(bw) - Pos(bw) /\ bw.ptr = bw.ptr + 0
      BY <1>2
    <3>2. \A t \in Pos(bw)..(Pos(bw) - 1) : FALSE
      BY <1>2
    <3> QED BY <1>4, <3>1, <3>2, Zenon DEF TurnInv
  <2> QED BY <2>1, <2>2
<1>7. ASSUME NEW i \in Nat, i < most, i \in P
      PROVE  i + 1 \in P
  <2>1. after[i + 1] = put[after[i]] /\ i + 1 \in 0..most
    BY <1>3, <1>5, <1>7
  <2>2. TurnInv(bw, n, bits, i, after[i])
    BY <1>7
  <2>3. TurnInv(bw, n, bits, i + 1, put[after[i]])
    BY <2>2, TurnKeeps, Zenon DEF put
  <2> QED BY <2>1, <2>3
<1> HIDE DEF P
<1>8. most \in P
  BY <1>3, <1>6, <1>7, UpTo
<1> DEFINE a == after[most]
           r == a.bw
           p == Pos(r)
<1>9. TurnInv(bw, n, bits, most, a)
  BY <1>8 DEF P
<1>10. /\ a.bits \in Nat /\ Placed(r) /\ Len(r.buff) = Len(bw.buff)
       /\ p0 <= p /\ a.bits = bits + p0 - p
       /\ a.bits = 0 \/ Full(r) \/ r.ptr = bw.ptr + most
       /\ \A t \in 0..(Pos(bw) - 1) : At(r.buff, t) <=> At(bw.buff, t)
       /\ \A t \in Pos(bw)..(Pos(r) - 1) : At(r.buff, t) <=> (bits - 1 - (t - Pos(bw))) \in n
  BY <1>9, Zenon DEF TurnInv
<1> HIDE DEF a
<1>11. p \in Nat /\ r.bit \in 0..7 /\ p = 8 * r.ptr + r.bit /\ r.ptr \in Nat
  BY <1>10, PlacedIs, Zenon
<1>12. p <= p0 + bits /\ (Full(r) \/ p = p0 + bits)
  <2> DEFINE left == a.bits
             ptr == r.ptr
             ptr0 == bw.ptr
             bit == r.bit
             bit0 == bw.bit
  <2>1. left \in Nat /\ left = bits + p0 - p
    BY <1>10, Zenon
  <2>2. p \in Nat /\ bit \in 0..7 /\ p = 8 * ptr + bit /\ ptr \in Nat
    BY <1>11, Zenon
  <2>3. p0 \in Nat /\ bit0 \in 0..7 /\ p0 = 8 * ptr0 + bit0 /\ ptr0 \in Nat
    BY <1>2, Zenon
  <2>4. most \in Nat /\ (bits = 0 \/ 8 * most >= bit0 + bits) /\ (bits = 0 => most = 0)
    BY <1>3, Zenon
  <2>5. p0 <= p
    BY <1>10, Zenon
  <2> HIDE DEF left, ptr, ptr0, bit, bit0, p, p0
  <2>6. ptr = ptr0 + most => left = 0
    BY <2>1, <2>2, <2>3, <2>4, <2>5
  <2>7. left = 0 \/ Full(r)
    BY <1>10, <2>6, Zenon DEF left, ptr, ptr0
  <2>8. left = 0 => p = p0 + bits
    BY <2>1, <2>2, <2>3
  <2>9. p <= p0 + bits
    BY <2>1, <2>2, <2>3
  <2> QED BY <2>7, <2>8, <2>9, Zenon
<1>13. PushedTo(bw, n, bits, r)
  BY <1>10, <1>12, Zenon DEF PushedTo
<1> QED BY <1>1, <1>13 DEF a

-----------------------------------------------------------------------------
(* What fillBytes() writes. *)

\* The safe top bits of a word, written behind what there is
Streamed(bw, out, size, safe, r) ==
    /\ Placed(r) /\ Len(r.buff) = Len(bw.buff)
    /\ Pos(bw) <= Pos(r) /\ Pos(r) <= Pos(bw) + safe
    /\ Full(r) \/ Pos(r) = Pos(bw) + safe
    /\ \A t \in 0..(Pos(bw) - 1) : At(r.buff, t) <=> At(bw.buff, t)
    /\ \A t \in Pos(bw)..(Pos(r) - 1) : At(r.buff, t) <=> (size - 1 - (t - Pos(bw))) \in out

\* A number pushed that is the top of the word, or two that are
LEMMA PushStreams ==
  ASSUME NEW bw, Placed(bw), NEW size \in Int, NEW safe \in Nat, NEW out, NEW n, NEW r,
         PushedTo(bw, n, safe, r),
         \A u \in 0..(safe - 1) : (safe - 1 - u) \in n <=> (size - 1 - u) \in out
  PROVE  Streamed(bw, out, size, safe, r)
<1> DEFINE p0 == Pos(bw)
           p == Pos(r)
<1>1. /\ Placed(r) /\ Len(r.buff) = Len(bw.buff)
      /\ p0 <= p /\ p <= p0 + safe
      /\ Full(r) \/ p = p0 + safe
      /\ \A t \in 0..(p0 - 1) : At(r.buff, t) <=> At(bw.buff, t)
      /\ \A t \in p0..(p - 1) : At(r.buff, t) <=> (safe - 1 - (t - p0)) \in n
  BY Zenon DEF PushedTo
<1>2. p0 \in Nat /\ p \in Nat
  BY <1>1, PlacedIs, Zenon
<1>3. ASSUME NEW t \in p0..(p - 1)
      PROVE  At(r.buff, t) <=> (size - 1 - (t - p0)) \in out
  <2> DEFINE u == t - p0
  <2>1. u \in 0..(safe - 1)
    <3>1. p <= p0 + safe
      BY <1>1, Zenon
    <3> HIDE DEF p, p0
    <3> QED BY <1>2, <3>1 DEF u
  <2> HIDE DEF u, p, p0
  <2>2. At(r.buff, t) <=> (safe - 1 - u) \in n
    BY <1>1, Zenon DEF u
  <2>3. (safe - 1 - u) \in n <=> (size - 1 - u) \in out
    BY <2>1, Zenon
  <2> QED BY <2>2, <2>3, Zenon DEF u
<1> QED BY <1>1, <1>3, Zenon DEF Streamed

LEMMA PushesStream ==
  ASSUME NEW bw, Placed(bw), NEW size \in Int, NEW safe \in Nat, NEW out,
         NEW m, NEW first \in Nat, NEW r, PushedTo(bw, m, first, r),
         NEW n, NEW rest \in Nat, NEW q, PushedTo(r, n, rest, q), safe = first + rest,
         \A u \in 0..(first - 1) : (first - 1 - u) \in m <=> (size - 1 - u) \in out,
         \A u \in first..(safe - 1) : (safe - 1 - u) \in n <=> (size - 1 - u) \in out
  PROVE  Streamed(bw, out, size, safe, q)
<1> DEFINE p0 == Pos(bw)
           p1 == Pos(r)
           p2 == Pos(q)
           L == Len(bw.buff)
<1>1. /\ Placed(r) /\ Len(r.buff) = L
      /\ p0 <= p1 /\ p1 <= p0 + first
      /\ Full(r) \/ p1 = p0 + first
      /\ \A t \in 0..(p0 - 1) : At(r.buff, t) <=> At(bw.buff, t)
      /\ \A t \in p0..(p1 - 1) : At(r.buff, t) <=> (first - 1 - (t - p0)) \in m
  BY Zenon DEF PushedTo
<1>2. /\ Placed(q) /\ Len(q.buff) = Len(r.buff)
      /\ p1 <= p2 /\ p2 <= p1 + rest
      /\ Full(q) \/ p2 = p1 + rest
      /\ \A t \in 0..(p1 - 1) : At(q.buff, t) <=> At(r.buff, t)
      /\ \A t \in p1..(p2 - 1) : At(q.buff, t) <=> (rest - 1 - (t - p1)) \in n
  BY Zenon DEF PushedTo
<1>3. /\ p0 \in Nat /\ p1 \in Nat /\ p2 \in Nat /\ L \in Nat
      /\ p1 <= 8 * L /\ (Full(r) <=> p1 = 8 * L)
      /\ p2 <= 8 * L /\ (Full(q) <=> p2 = 8 * L)
  <2>1. Len(q.buff) = L
    BY <1>1, <1>2, Zenon
  <2>2. p0 \in Nat /\ L \in Nat
    BY PlacedIs, Zenon
  <2>3. p1 \in Nat /\ p1 <= 8 * L /\ (Full(r) <=> p1 = 8 * L)
    <3>1. Len(r.buff) = L
      BY <1>1, Zenon
    <3>2. p1 \in Nat /\ p1 <= 8 * Len(r.buff) /\ (Full(r) <=> p1 = 8 * Len(r.buff))
      BY <1>1, PlacedIs, Zenon
    <3> QED BY <3>1, <3>2
  <2>4. p2 \in Nat /\ p2 <= 8 * L /\ (Full(q) <=> p2 = 8 * L)
    <3>2. p2 \in Nat /\ p2 <= 8 * Len(q.buff) /\ (Full(q) <=> p2 = 8 * Len(q.buff))
      BY <1>2, PlacedIs, Zenon
    <3> QED BY <2>1, <3>2
  <2> QED BY <2>2, <2>3, <2>4, Zenon
<1> HIDE DEF p0, p1, p2, L
<1>4. p0 <= p1 /\ p1 <= p0 + first /\ p1 <= p2 /\ p2 <= p1 + rest
  BY <1>1, <1>2, Zenon
<1>5. p1 = p0 + first \/ p1 = 8 * L
  BY <1>1, <1>3, Zenon
<1>6. p2 = p1 + rest \/ p2 = 8 * L
  BY <1>2, <1>3, Zenon
<1>7. p0 <= p2 /\ p2 <= p0 + safe /\ (p2 = 8 * L \/ p2 = p0 + safe)
  BY <1>3, <1>4, <1>5, <1>6
<1>8. ASSUME NEW t \in 0..(p0 - 1)
      PROVE  At(q.buff, t) <=> At(bw.buff, t)
  <2>1. t \in 0..(p1 - 1)
    BY <1>3, <1>4
  <2> QED BY <1>1, <1>2, <2>1, Zenon
<1>9. ASSUME NEW t \in p0..(p2 - 1)
      PROVE  At(q.buff, t) <=> (size - 1 - (t - p0)) \in out
  <2> DEFINE u == t - p0
  <2>1. CASE t < p1
    <3>1. t \in 0..(p1 - 1) /\ t \in p0..(p1 - 1) /\ u \in 0..(first - 1)
      BY <1>3, <1>4, <2>1
    <3>2. At(q.buff, t) <=> (first - 1 - u) \in m
      BY <1>1, <1>2, <3>1, Zenon
    <3> HIDE DEF u
    <3>3. (first - 1 - u) \in m <=> (size - 1 - u) \in out
      BY <3>1, Zenon
    <3> QED BY <3>2, <3>3, Zenon DEF u
  <2>2. CASE ~(t < p1)
    <3>1. t \in p1..(p2 - 1)
      BY <1>3, <1>4, <2>2
    <3>2. p1 # 8 * L
      BY <1>3, <3>1
    <3>3. p1 = p0 + first
      BY <1>5, <3>2, Zenon
    <3>4. u \in first..(safe - 1) /\ rest - 1 - (t - p1) = safe - 1 - u
      BY <1>3, <1>4, <3>1, <3>3
    <3>5. At(q.buff, t) <=> (safe - 1 - u) \in n
      BY <1>2, <3>1, <3>4
    <3> HIDE DEF u
    <3>6. (safe - 1 - u) \in n <=> (size - 1 - u) \in out
      BY <3>4, Zenon
    <3> QED BY <3>5, <3>6, Zenon DEF u
  <2> QED BY <2>1, <2>2, Zenon
<1>10. Len(q.buff) = L /\ (Full(q) \/ p2 = p0 + safe)
  BY <1>1, <1>2, <1>3, <1>7, Zenon
<1> QED BY <1>2, <1>7, <1>8, <1>9, <1>10, Zenon DEF Streamed, p0, p2, L

\* The bits of part of a word, moved down to the end of it
LEMMA MovedDown ==
  ASSUME NEW out \in SUBSET Nat, NEW k \in Nat, NEW p \in Nat
  PROVE  p \in {i - k : i \in {j \in out : j >= k}} <=> (p + k) \in out
<1>1. \A j \in out : j \in Int
  OBVIOUS
<1>2. p \in {i - k : i \in {j \in out : j >= k}} <=> \E j \in out : j >= k /\ p = j - k
  BY Zenon
<1>3. \A j \in out : (j >= k /\ p = j - k) <=> j = p + k
  BY <1>1
<1> QED BY <1>2, <1>3

LEMMA MovedSmall ==
  ASSUME NEW k \in Nat, NEW n \in Nat, NEW out \in SUBSET (0..(n + k))
  PROVE  {i - k : i \in {j \in out : j >= k}} \subseteq 0..n
OBVIOUS

\* What a class that fills arrays is
LEMMA FillingIs ==
  ASSUME NEW k \in Kinds \cap Filling
  PROVE  /\ bitGen(k) \in 1..64
         /\ (Wide(k) /\ bitGen(k) = 64) => safeBits(k) \in 32..64
         /\ ~(Wide(k) /\ bitGen(k) = 64) =>
               /\ bitGen(k) <= 32
               /\ safeBits(k) = Undefined \/ safeBits(k) \in 1..bitGen(k)
<1>1. bitGen(k) \in 1..64
  BY ClassesAssumption, Zenon
<1>2. IF Wide(k) /\ bitGen(k) = 64 THEN safeBits(k) \in 32..64
      ELSE bitGen(k) <= 32 /\ safeBits(k) \in {Undefined} \cup 1..bitGen(k)
  BY ClassesAssumption, Zenon
<1> QED BY <1>1, <1>2

LEMMA SafeIs ==
  ASSUME NEW k \in Kinds \cap Filling
  PROVE  safeBits(k) = Undefined \/ safeBits(k) \in 1..64
<1> DEFINE safe == safeBits(k)
           size == bitGen(k)
           wide == Wide(k) /\ size = 64
<1>1. /\ size \in 1..64
      /\ wide => safe \in 32..64
      /\ ~wide => size <= 32 /\ (safe = Undefined \/ safe \in 1..size)
  BY FillingIs, Zenon
<1> HIDE DEF safe, size, wide
<1>2. safe = Undefined \/ safe \in 1..64
  BY <1>1
<1> QED BY <1>2 DEF safe

LEMMA PushedIs ==
  ASSUME NEW k \in Kinds \cap Filling, safeBits(k) # Undefined, NEW bw, Placed(bw),
         NEW out \in SUBSET (0..(bitGen(k) - 1))
  PROVE  Streamed(bw, out, bitGen(k), safeBits(k), Pushed(k, bw, out))
<1> DEFINE size == bitGen(k)
           safe == safeBits(k)
<1>1. size \in 1..64 /\ out \in SUBSET (0..(size - 1))
  BY FillingIs
<1>2. CASE Wide(k) /\ size = 64
  <2> DEFINE m == {i - 32 : i \in {j \in out : j >= 32}}
             low == out \cap (0..31)
             down == 64 - safe
             n == N!Shr(low, down)
             r == pushNumberBE(bw, m, 32).bw
             q == pushNumberBE(r, n, safe - 32).bw
  <2>1. safe \in 32..64
    BY <1>2, FillingIs
  <2>2. Pushed(k, bw, out) = q
    BY <1>2 DEF Pushed
  <2>3. down \in Nat /\ safe - 32 \in Nat /\ safe \in Nat /\ 32 + (safe - 32) = safe
    BY <2>1
  <2>4. n = {i - down : i \in {j \in low : j >= down}}
    BY DEF N!Shr
  <2>5. out \in SUBSET Nat /\ low \in SUBSET Nat /\ out \in SUBSET (0..(31 + 32)) /\ low \in SUBSET (0..31)
    BY <1>1, <1>2
  <2>6. m \in SUBSET (0..31)
    <3>1. 31 \in Nat /\ 32 \in Nat
      OBVIOUS
    <3>2. m \subseteq 0..31
      BY <2>5, <3>1, MovedSmall, Zenon
    <3> QED BY <3>2, Zenon
  <2>7. n \in SUBSET (0..31) /\ n \subseteq 0..((safe - 32) - 1)
    <3> HIDE DEF n
    <3>1. ASSUME NEW x \in n PROVE x \in 0..31 /\ x \in 0..((safe - 32) - 1)
      <4>1. PICK i \in low : i >= down /\ x = i - down
        BY <2>4
      <4>2. i \in 0..31
        BY <2>5, <4>1, Zenon
      <4> HIDE DEF low, safe
      <4> QED BY <2>1, <4>1, <4>2
    <3> QED BY <3>1
  <2> HIDE DEF m, n, low, r, q, size, safe, down
  <2>8. PushedTo(bw, m, 32, r)
    <3>1. m \subseteq 0..(32 - 1) /\ 32 \in Nat
      BY <2>6
    <3> QED BY <2>6, <3>1, PushIs, Zenon DEF r
  <2>9. Placed(r)
    BY <2>8, Zenon DEF PushedTo
  <2>10. PushedTo(r, n, safe - 32, q)
    BY <2>3, <2>7, <2>9, PushIs, Zenon DEF q
  <2>11. ASSUME NEW u \in 0..(32 - 1)
         PROVE  (32 - 1 - u) \in m <=> (size - 1 - u) \in out
    <3> DEFINE p == 32 - 1 - u
    <3>1. p \in Nat /\ p + 32 = size - 1 - u /\ 32 \in Nat
      BY <1>2
    <3>2. p \in m <=> (p + 32) \in out
      <4> HIDE DEF p
      <4> QED BY <2>5, <3>1, MovedDown, Zenon DEF m
    <3> HIDE DEF p
    <3>3. p \in m <=> (size - 1 - u) \in out
      BY <3>1, <3>2, Zenon
    <3> QED BY <3>3 DEF p
  <2>12. ASSUME NEW u \in 32..(safe - 1)
         PROVE  (safe - 1 - u) \in n <=> (size - 1 - u) \in out
    <3> DEFINE p == safe - 1 - u
    <3>1. p \in Nat /\ p + down = size - 1 - u /\ p + down \in 0..31
      BY <1>2, <2>1 DEF down
    <3>2. p \in n <=> (p + down) \in low
      <4> HIDE DEF p
      <4> QED BY <2>3, <2>4, <2>5, <3>1, MovedDown, Zenon
    <3> HIDE DEF p
    <3>3. (p + down) \in low <=> (p + down) \in out
      BY <3>1, Zenon DEF low
    <3>4. p \in n <=> (size - 1 - u) \in out
      BY <3>1, <3>2, <3>3, Zenon
    <3> QED BY <3>4 DEF p
  <2>13. Streamed(bw, out, size, safe, q)
    <3>1. size \in Int /\ 32 \in Nat /\ safe = 32 + (safe - 32)
      BY <1>1, <2>3
    <3> QED BY <2>3, <2>8, <2>10, <2>11, <2>12, <3>1, PushesStream, Zenon
  <2> QED BY <2>2, <2>13 DEF size, safe
<1>3. CASE ~(Wide(k) /\ size = 64)
  <2> DEFINE down == size - safe
             n == N!Shr(out, down)
             r == pushNumberBE(bw, n, safe).bw
  <2>1. size <= 32 /\ safe \in 1..size
    BY <1>3, FillingIs
  <2>2. Pushed(k, bw, out) = r
    BY <1>3 DEF Pushed
  <2>3. down \in Nat /\ safe \in Nat
    BY <1>1, <2>1
  <2>4. n = {i - down : i \in {j \in out : j >= down}}
    BY DEF N!Shr
  <2>5. out \in SUBSET Nat
    BY <1>1
  <2>6. n \in SUBSET (0..31) /\ n \subseteq 0..(safe - 1)
    <3> HIDE DEF n
    <3>1. ASSUME NEW x \in n PROVE x \in 0..31 /\ x \in 0..(safe - 1)
      <4>1. PICK i \in out : i >= down /\ x = i - down
        BY <2>4
      <4>2. i \in 0..(size - 1)
        BY <1>1, <4>1, Zenon
      <4> HIDE DEF safe, size
      <4> QED BY <1>1, <2>1, <4>1, <4>2
    <3> QED BY <3>1
  <2> HIDE DEF n, r, size, safe, down
  <2>7. PushedTo(bw, n, safe, r)
    BY <2>3, <2>6, PushIs, Zenon DEF r
  <2>8. ASSUME NEW u \in 0..(safe - 1)
        PROVE  (safe - 1 - u) \in n <=> (size - 1 - u) \in out
    <3> DEFINE p == safe - 1 - u
    <3>1. p \in Nat /\ p + down = size - 1 - u
      BY <1>1, <2>1 DEF down
    <3>2. p \in n <=> (p + down) \in out
      <4> HIDE DEF p
      <4> QED BY <2>3, <2>4, <2>5, <3>1, MovedDown, Zenon
    <3> HIDE DEF p
    <3>3. p \in n <=> (size - 1 - u) \in out
      BY <3>1, <3>2, Zenon
    <3> QED BY <3>3 DEF p
  <2>9. Streamed(bw, out, size, safe, r)
    <3>1. size \in Int
      BY <1>1
    <3> QED BY <2>3, <2>7, <2>8, <3>1, PushStreams, Zenon
  <2> QED BY <2>2, <2>9 DEF size, safe
<1> QED BY <1>2, <1>3

\* The inductive invariant: while an array is filled, what is written of it is the
\* stream of the words drawn, and every bit of that stream is, while there is room.
FillRight ==
    /\ Placed(target)
    /\ safeBits(kind) = Undefined => Pos(target) = 0
    /\ safeBits(kind) # Undefined =>
         /\ Full(target) \/ Pos(target) = Len(raws) * safeBits(kind)
         /\ Pos(target) <= Len(raws) * safeBits(kind)
         /\ \A t \in 0..(Pos(target) - 1) :
               At(target.buff, t) <=> TopBit(raws, bitGen(kind), safeBits(kind), t)
FillInv ==
    /\ kind \in Kinds
    /\ busy \in BOOLEAN
    /\ busy => /\ kind \in Filling /\ IsSeq(raws)
               /\ Fits(raws, bitGen(kind)) => FillRight

LEMMA InitFill == Init => FillInv
BY DEF Init, FillInv

\* A turn that fits, of a class that knows how many bits are safe
LEMMA FillTurns ==
  ASSUME kind \in Kinds \cap Filling, safeBits(kind) # Undefined, IsSeq(raws),
         FillRight, ~Full(target), NEW out \in SUBSET (0..(bitGen(kind) - 1)),
         NEW q, Streamed(target, out, bitGen(kind), safeBits(kind), q),
         NEW ws, ws = Append(raws, out)
  PROVE  /\ Placed(q)
         /\ Full(q) \/ Pos(q) = Len(ws) * safeBits(kind)
         /\ Pos(q) <= Len(ws) * safeBits(kind)
         /\ \A t \in 0..(Pos(q) - 1) : At(q.buff, t) <=> TopBit(ws, bitGen(kind), safeBits(kind), t)
<1> DEFINE size == bitGen(kind)
           safe == safeBits(kind)
           L == Len(raws)
           m == L * safe
           p0 == Pos(target)
           p == Pos(q)
<1>1. safe \in 1..64
  BY SafeIs, Zenon
<1>2. /\ Placed(target) /\ p0 = m
      /\ \A t \in 0..(p0 - 1) : At(target.buff, t) <=> TopBit(raws, size, safe, t)
  BY Zenon DEF FillRight
<1>3. /\ Placed(q) /\ p0 <= p /\ p <= p0 + safe /\ (Full(q) \/ p = p0 + safe)
      /\ \A t \in 0..(p0 - 1) : At(q.buff, t) <=> At(target.buff, t)
      /\ \A t \in p0..(p - 1) : At(q.buff, t) <=> (size - 1 - (t - p0)) \in out
  BY Zenon DEF Streamed
<1>4. p0 \in Nat /\ p \in Nat
  BY <1>2, <1>3, PlacedIs, Zenon
<1>5. L \in Nat /\ Len(ws) = L + 1
  BY LenOf, Appended, Zenon
<1> HIDE DEF size, safe
<1>6. Len(ws) * safe = m + safe
  BY <1>1, <1>5, ProductOf, Zenon
<1>7. ASSUME NEW t \in 0..(p - 1)
      PROVE  At(q.buff, t) <=> TopBit(ws, size, safe, t)
  <2>0. t \in Nat
    OBVIOUS
  <2>1. /\ t < m => (TopBit(ws, size, safe, t) <=> TopBit(raws, size, safe, t))
        /\ (m <= t /\ t < m + safe) => (TopBit(ws, size, safe, t) <=> (size - 1 - (t - m)) \in out)
    BY <1>1, <2>0, TopOfAppended, Zenon
  <2> HIDE DEF L, m, p0, p
  <2>2. CASE t < p0
    <3>1. t \in 0..(p0 - 1)
      BY <1>4, <2>2
    <3> QED BY <1>2, <1>3, <2>1, <2>2, <3>1, Zenon
  <2>3. CASE ~(t < p0)
    <3>1. t \in p0..(p - 1) /\ p0 <= t /\ t < p0 + safe
      BY <1>1, <1>3, <1>4, <2>3
    <3> QED BY <1>2, <1>3, <2>1, <3>1
  <2> QED BY <2>2, <2>3, Zenon
<1>8. p <= Len(ws) * safe /\ (Full(q) \/ p = Len(ws) * safe)
  BY <1>2, <1>3, <1>6, Zenon
<1> QED BY <1>3, <1>7, <1>8, Zenon DEF size, safe

LEMMA NextFill == FillInv /\ [Next]_vars => FillInv'
<1> SUFFICES ASSUME FillInv, [Next]_vars
             PROVE  FillInv'
  OBVIOUS
<1>1. kind \in Kinds /\ busy \in BOOLEAN
  BY DEF FillInv
<1>2. CASE Numbers
  <2>1. kind' = kind /\ busy' = busy /\ ~busy
    BY <1>2 DEF Numbers, Called
  <2> QED BY <1>1, <2>1 DEF FillInv
<1>3. CASE FillBytes
  <2>1. PICK n \in Sizes : target' = Mounted([i \in 1..n |-> 0..7])
    BY <1>3, Zenon DEF FillBytes
  <2>2. kind' = kind /\ kind \in Filling /\ busy' = TRUE /\ raws' = <<>>
    BY <1>3 DEF FillBytes
  <2>3. n \in Nat
    BY ClassesAssumption
  <2> DEFINE b == [i \in 1..n |-> 0..7]
  <2>4. b \in Seq(SUBSET (0..7)) /\ Len(b) \in Nat
    BY <2>3
  <2> HIDE DEF b
  <2>5. target'.buff = b /\ target'.ptr = 0 /\ target'.bit = 0 /\ target' = [buff |-> b, ptr |-> 0, bit |-> 0]
    BY <2>1 DEF Mounted, b
  <2>6. Placed(target)'
    BY <2>4, <2>5 DEF Placed, BitWriter
  <2>7. Pos(target)' = 0
    BY <2>5 DEF Pos
  <2>8. Len(raws') * safeBits(kind') = 0 \/ safeBits(kind') = Undefined
    <3>1. safeBits(kind) = Undefined \/ safeBits(kind) \in 1..64
      <4>1. kind \in Kinds \cap Filling
        BY <1>1, <2>2
      <4> QED BY <4>1, SafeIs, Zenon
    <3>2. Len(raws') = 0 /\ safeBits(kind') = safeBits(kind)
      BY <2>2
    <3>3. \A x \in 1..64 : 0 * x = 0
      OBVIOUS
    <3> QED BY <3>1, <3>2, <3>3
  <2>9. \A t \in 0..(Pos(target)' - 1) : FALSE
    BY <2>7
  <2>10. FillRight'
    BY <2>6, <2>7, <2>8, <2>9 DEF FillRight
  <2>11. IsSeq(raws)'
    BY <2>2, NoneIsSeq
  <2> QED BY <1>1, <2>2, <2>10, <2>11 DEF FillInv
<1>4. CASE FillTurn
  <2>1. /\ busy /\ ~Full(target) /\ kind' = kind /\ busy' = busy
        /\ target' = Pushed(kind, target, gen'.out)
        /\ raws' = IF safeBits(kind) = Undefined THEN raws ELSE Append(raws, gen'.out)
    BY <1>4 DEF FillTurn
  <2>2. kind \in Filling /\ IsSeq(raws) /\ (Fits(raws, bitGen(kind)) => FillRight)
    BY <2>1, Zenon DEF FillInv
  <2>3. bitGen(kind)' = bitGen(kind) /\ safeBits(kind)' = safeBits(kind)
    BY <2>1 DEF bitGen, safeBits
  <2>4. CASE safeBits(kind) = Undefined
    <3>1. raws' = raws
      BY <2>1, <2>4
    <3>2. ~(Wide(kind) /\ bitGen(kind) = 64)
      <4>1. ~(Undefined \in 32..64)
        BY DEF Undefined
      <4> QED BY <1>1, <2>2, <2>4, <4>1, FillingIs
    <3>3. Pushed(kind, target, gen'.out) = pushNumberBE(target, gen'.out, -1).bw
      BY <2>4, <3>2 DEF Pushed, Undefined
    <3>4. pushNumberBE(target, gen'.out, -1).bw = target
      <4> DEFINE zero == [bw |-> target, n |-> gen'.out, bits |-> -1]
                 put == PutBits
                 Def(f) == f = [i \in 0..0 |-> IF i = 0 THEN zero ELSE put[f[i - 1]]]
                 after == CHOOSE f : Def(f)
      <4>1. Turns(target, -1) = 0
        BY DEF Turns
      <4>2. pushNumberBE(target, gen'.out, -1) = after[0]
        BY <4>1 DEF pushNumberBE
      <4>3. zero.bw = target
        OBVIOUS
      <4> HIDE DEF zero, put
      <4>4. Def([i \in 0..0 |-> zero])
        OBVIOUS
      <4>5. Def(after)
        <5> HIDE DEF Def
        <5> QED BY <4>4
      <4> HIDE DEF after
      <4>6. after[0] = zero
        BY <4>5
      <4> QED BY <4>2, <4>3, <4>6
    <3>5. target' = target
      BY <2>1, <3>3, <3>4
    <3>6. FillRight => FillRight'
      BY <2>3, <2>4, <3>1, <3>5 DEF FillRight
    <3> QED BY <1>1, <2>1, <2>2, <2>3, <3>1, <3>6 DEF FillInv
  <2>5. CASE safeBits(kind) # Undefined
    <3> DEFINE out == gen'.out
    <3>1. raws' = Append(raws, out)
      BY <2>1, <2>5
    <3>2. /\ IsSeq(raws') /\ Len(raws') = Len(raws) + 1 /\ Len(raws) \in Nat
          /\ \A i \in 1..Len(raws) : raws'[i] = raws[i]
          /\ raws'[Len(raws) + 1] = out
      BY <2>2, <3>1, Appended, LenOf
    <3> HIDE DEF out
    <3>3. ASSUME Fits(raws', bitGen(kind))
          PROVE  FillRight'
      <4>1. out \in SUBSET (0..(bitGen(kind) - 1)) /\ Fits(raws, bitGen(kind))
        <5>1. Len(raws) + 1 \in 1..Len(raws') /\ \A i \in 1..Len(raws) : i \in 1..Len(raws')
          BY <3>2
        <5> QED BY <3>2, <3>3, <5>1, Zenon DEF Fits
      <4>2. FillRight /\ Placed(target)
        BY <2>2, <4>1, Zenon DEF FillRight
      <4>3. kind \in Kinds \cap Filling
        BY <1>1, <2>2
      <4>4. Streamed(target, out, bitGen(kind), safeBits(kind), target')
        <5>1. target' = Pushed(kind, target, out)
          BY <2>1 DEF out
        <5>2. Streamed(target, out, bitGen(kind), safeBits(kind), Pushed(kind, target, out))
          BY <2>5, <4>1, <4>2, <4>3, PushedIs, Zenon
        <5> QED BY <5>1, <5>2, Zenon
      <4>5. /\ Placed(target')
            /\ Full(target') \/ Pos(target') = Len(raws') * safeBits(kind)
            /\ Pos(target') <= Len(raws') * safeBits(kind)
            /\ \A t \in 0..(Pos(target') - 1) :
                  At(target'.buff, t) <=> TopBit(raws', bitGen(kind), safeBits(kind), t)
        BY <2>1, <2>2, <2>5, <3>1, <4>1, <4>2, <4>3, <4>4, FillTurns, Zenon
      <4> QED BY <2>3, <2>5, <4>5 DEF FillRight
    <3> QED BY <1>1, <2>1, <2>2, <2>3, <3>2, <3>3 DEF FillInv
  <2> QED BY <2>4, <2>5
<1>5. CASE FillReturn
  BY <1>1, <1>5 DEF FillReturn, FillInv
<1>6. ASSUME NEW big \in BOOLEAN, Save(big) \/ Restore(big)
      PROVE  FillInv'
  <2>1. kind' = kind /\ busy' = busy /\ ~busy
    BY <1>6 DEF Save, Restore, Called
  <2> QED BY <1>1, <2>1 DEF FillInv
<1>7. CASE UNCHANGED vars
  BY <1>7 DEF vars, FillInv, FillRight, bitGen, safeBits
<1> QED BY <1>2, <1>3, <1>4, <1>5, <1>6, <1>7 DEF Next

LEMMA FillFollows == FillInv /\ WordsFit => FilledFromStream
<1> SUFFICES ASSUME FillInv, WordsFit, busy,
                    NEW t \in 0..(8 * target.ptr + target.bit - 1)
             PROVE  (7 - (t % 8)) \in target.buff[t \div 8 + 1]
                       <=> TopBit(raws, bitGen(kind), safeBits(kind), t)
  BY Zenon DEF FilledFromStream
<1>1. Fits(raws, bitGen(kind))
  BY DEF WordsFit, Fits
<1>2. FillRight
  BY <1>1, Zenon DEF FillInv
<1>3. Placed(target)
  BY <1>2, Zenon DEF FillRight
<1>4. t \in 0..(Pos(target) - 1)
  <2>1. Pos(target) = 8 * target.ptr + target.bit /\ target.ptr \in Nat /\ target.bit \in 0..7
    BY <1>3, PlacedIs, Zenon
  <2> QED BY <2>1
<1>5. safeBits(kind) # Undefined
  <2>1. Pos(target) # 0
    BY <1>4
  <2> QED BY <1>2, <2>1, Zenon DEF FillRight
<1>6. At(target.buff, t) <=> TopBit(raws, bitGen(kind), safeBits(kind), t)
  BY <1>2, <1>4, <1>5, Zenon DEF FillRight
<1> QED BY <1>6, Zenon DEF At

\* Whatever the generator, as long as rawNext() returns words of its bits: what
\* fillBytes() has written of the array is the stream of their safe bits, to the bit.
THEOREM AlwaysFilledFromStream == Spec => [](WordsFit => FilledFromStream)
<1>1. Spec => []FillInv
  BY InitFill, NextFill, PTL DEF Spec
<1> QED BY <1>1, FillFollows, PTL

=============================================================================
