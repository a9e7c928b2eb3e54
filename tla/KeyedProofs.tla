----------------------------- MODULE KeyedProofs ----------------------------
(***************************************************************************)
(* Proofs about what works under a key: FullCrypt and BlockModes, then     *)
(* HmacHash.                                                               *)
(*                                                                         *)
(* FullCrypt: for every set of objects that the constructors make, every   *)
(* block cipher whose decryptBlock() undoes its encryptBlock(), every      *)
(* length of a block up to 255 bytes, every set of messages and any number *)
(* of them, the receiver finds what the sender was given, and the two      *)
(* objects stay at the same block of keystream.  First numbers, bytes and  *)
(* blocks; then the keystream; then each mode and padding on one call of   *)
(* encryptInto() and the decryptInto() after it; then the invariant of the *)
(* two objects.                                                            *)
(*                                                                         *)
(* HmacHash: for every finite set of Hmac objects and every block size,    *)
(* the hashes that Hmacs share stay as they were built and every digest is *)
(* RFC 2104's.                                                             *)
(***************************************************************************)
EXTENDS FullCrypt, HmacHash, FiniteSetTheorems, WellFoundedInduction, TLAPS

-----------------------------------------------------------------------------
(* Induction on numbers, by sets of them; functions defined from below. *)

\* A set of numbers has a least one.
LEMMA NatLeast ==
  ASSUME NEW T \in SUBSET Nat, T # {}
  PROVE  \E x \in T : \A y \in T : x <= y
<1> DEFINE R == {ss \in Nat \X Nat : ss[1] < ss[2]}
<1>1. IsWellFoundedOn(R, Nat)
  BY NatLessThanWellFounded, Zenon DEF OpToRel
<1>2. \A a, b \in Nat : <<a, b>> \in R <=> a < b
  OBVIOUS
<1> HIDE DEF R
<1>3. \E x \in T : \A y \in T : ~ (<<y, x>> \in R)
  BY <1>1, WFMin, Zenon
<1>4. PICK x \in T : \A y \in T : ~ (<<y, x>> \in R)
  BY <1>3
<1>5. \A y \in T : ~(y < x)
  <2>1. \A y \in T : y \in Nat /\ x \in Nat
    OBVIOUS
  <2> QED BY <1>2, <1>4, <2>1, Zenon
<1> QED BY <1>5

\* Induction over the numbers up to n
LEMMA UpTo ==
  ASSUME NEW n \in Nat, NEW S, 0 \in S, \A k \in Nat : k < n /\ k \in S => k + 1 \in S
  PROVE  \A k \in 0..n : k \in S
<1> SUFFICES ASSUME NEW k \in 0..n, k \notin S
             PROVE  FALSE
  OBVIOUS
<1> DEFINE T == {j \in 0..n : j \notin S}
<1>1. PICK x \in T : \A y \in T : x <= y
  <2>1. T \in SUBSET Nat /\ T # {}
    OBVIOUS
  <2> HIDE DEF T
  <2> QED BY <2>1, NatLeast
<1>2. x # 0
  OBVIOUS
<1>3. x - 1 \in Nat /\ x - 1 < n /\ x - 1 \in S
  BY <1>1, <1>2
<1> QED BY <1>3

\* A recursive function on the numbers up to n exists.
Steps(f, a, G, n) == f[0] = a /\ \A k \in 1..n : f[k] = G[<<f[k - 1], k>>]
\* There is a function that starts at a and takes each value from the one before by G.
LEMMA Recursive ==
  ASSUME NEW S, NEW a \in S, NEW G \in [S \X Nat -> S], NEW n \in Nat
  PROVE  \E f \in [0..n -> S] : Steps(f, a, G, n)
<1> DEFINE Is(f, m) == /\ f \in [0..m -> S]
                       /\ f[0] = a
                       /\ \A k \in 1..m : f[k] = G[<<f[k - 1], k>>]
           T == {m \in Nat : \E f : Is(f, m)}
<1>1. 0 \in T
  <2> DEFINE g == [k \in 0..0 |-> a]
  <2>1. g \in [0..0 -> S] /\ g[0] = a
    OBVIOUS
  <2> HIDE DEF g
  <2>2. Is(g, 0)
    BY <2>1
  <2> QED BY <2>2
<1>2. ASSUME NEW m \in Nat, m < n, m \in T
      PROVE  m + 1 \in T
  <2>1. PICK f : Is(f, m)
    BY <1>2
  <2> DEFINE g == [k \in 0..(m + 1) |-> IF k = m + 1 THEN G[<<f[m], m + 1>>] ELSE f[k]]
  <2>2. f[m] \in S /\ <<f[m], m + 1>> \in S \X Nat
    BY <2>1
  <2>3. g \in [0..(m + 1) -> S] /\ g[0] = a
    BY <2>1, <2>2
  <2>4. ASSUME NEW k \in 1..(m + 1)
        PROVE  g[k] = G[<<g[k - 1], k>>]
    <3>1. CASE k = m + 1
      <4>1. k - 1 = m /\ g[k] = G[<<f[m], m + 1>>] /\ g[m] = f[m]
        BY <3>1
      <4> HIDE DEF g
      <4> QED BY <3>1, <4>1
    <3>2. CASE k # m + 1
      <4>1. k \in 1..m /\ g[k] = f[k] /\ g[k - 1] = f[k - 1]
        BY <3>2
      <4> HIDE DEF g
      <4> QED BY <2>1, <4>1
    <3> QED BY <3>1, <3>2
  <2> HIDE DEF g
  <2>5. Is(g, m + 1)
    BY <2>3, <2>4
  <2> QED BY <2>5
<1> HIDE DEF T
<1>3. n \in T
  BY <1>1, <1>2, UpTo
<1> QED BY <1>3 DEF T, Steps

-----------------------------------------------------------------------------
(* Bytes: `^` undoes itself. *)

\* The bits of `a ^ b`, each by itself
LEMMA BitOfXor ==
  ASSUME NEW a \in M!Byte, NEW b \in M!Byte
  PROVE  /\ M!Xor(a, b) \in M!Byte
         /\ \A p \in {1, 2, 4, 8, 16, 32, 64, 128} :
               (M!Xor(a, b) \div p) % 2 = M!BitSum(a, b, p)
<1> DEFINE s(p) == M!BitSum(a, b, p)
<1>1. \A p \in {1, 2, 4, 8, 16, 32, 64, 128} : s(p) \in 0..1
  <2>1. \A p \in {1, 2, 4, 8, 16, 32, 64, 128} : a \div p \in Nat /\ b \div p \in Nat
    BY DEF M!Byte
  <2> QED BY <2>1 DEF M!BitSum
<1>2. M!Xor(a, b) = s(1) + 2 * s(2) + 4 * s(4) + 8 * s(8) + 16 * s(16) + 32 * s(32)
                    + 64 * s(64) + 128 * s(128)
  BY DEF M!Xor
<1> HIDE DEF s
<1> QED BY <1>1, <1>2 DEF M!Byte, s

\* A byte is the sum of its bits.
LEMMA BitsOf ==
  ASSUME NEW a \in M!Byte
  PROVE  a = (a % 2) + 2 * ((a \div 2) % 2) + 4 * ((a \div 4) % 2) + 8 * ((a \div 8) % 2)
             + 16 * ((a \div 16) % 2) + 32 * ((a \div 32) % 2) + 64 * ((a \div 64) % 2)
             + 128 * ((a \div 128) % 2)
  BY DEF M!Byte

\* `a ^ b ^ b` is a.
LEMMA XorTwice ==
  ASSUME NEW a \in M!Byte, NEW b \in M!Byte
  PROVE  M!Xor(a, b) \in M!Byte /\ M!Xor(M!Xor(a, b), b) = a
<1> DEFINE x == M!Xor(a, b)
<1>1. x \in M!Byte /\ \A p \in {1, 2, 4, 8, 16, 32, 64, 128} : (x \div p) % 2 = M!BitSum(a, b, p)
  BY BitOfXor
<1> HIDE DEF x
<1>2. \A p \in {1, 2, 4, 8, 16, 32, 64, 128} : M!BitSum(x, b, p) = (a \div p) % 2
  <2>1. ASSUME NEW p \in {1, 2, 4, 8, 16, 32, 64, 128}
        PROVE  M!BitSum(x, b, p) = (a \div p) % 2
    <3>1. x \div p \in Nat /\ b \div p \in Nat /\ a \div p \in Nat
      BY <1>1 DEF M!Byte
    <3>2. (x \div p) % 2 = ((a \div p) + (b \div p)) % 2
      BY <1>1 DEF M!BitSum
    <3> DEFINE u == x \div p
               v == b \div p
               w == a \div p
    <3> HIDE DEF u, v, w
    <3>3. ASSUME u \in Nat, v \in Nat, w \in Nat, u % 2 = (w + v) % 2
          PROVE  (u + v) % 2 = w % 2
      BY <3>3
    <3> QED BY <3>1, <3>2, <3>3 DEF M!BitSum, u, v, w
  <2> QED BY <2>1
<1>3. M!Xor(x, b) = ((a \div 1) % 2) + 2 * ((a \div 2) % 2) + 4 * ((a \div 4) % 2)
                    + 8 * ((a \div 8) % 2) + 16 * ((a \div 16) % 2) + 32 * ((a \div 32) % 2)
                    + 64 * ((a \div 64) % 2) + 128 * ((a \div 128) % 2)
  BY <1>2 DEF M!Xor
<1>4. a \div 1 = a
  BY DEF M!Byte
<1>5. M!Xor(x, b) = a
  BY <1>3, <1>4, BitsOf
<1> QED BY <1>1, <1>5 DEF x

-----------------------------------------------------------------------------
(* Places and blocks. *)

\* The constants as numbers
LEMMA Sizes == /\ BlockLen \in Nat /\ BlockLen > 0 /\ BlockLen <= 255
               /\ CountLen \in Nat /\ SalsaCounts \in Nat \ {0} /\ ChaChaCounts \in Nat \ {0}
BY CryptAssumption

\* The only facts on products: one block more, and order
LEMMA Times ==
  ASSUME NEW q \in Nat
  PROVE  q * BlockLen \in Nat /\ (q + 1) * BlockLen = q * BlockLen + BlockLen
BY Sizes

\* What lies in an earlier block lies wholly before a later one.
LEMMA TimesMono ==
  ASSUME NEW q \in Nat, NEW d \in Nat, q < d
  PROVE  q * BlockLen + BlockLen <= d * BlockLen
<1> DEFINE S == {k \in Nat : (q + 1 + k) * BlockLen >= q * BlockLen + BlockLen}
<1>1. 0 \in S
  BY Times
<1>2. ASSUME NEW k \in Nat, k < d - q - 1 /\ k \in S
      PROVE  k + 1 \in S
  <2> DEFINE j == q + 1 + k
  <2>1. j \in Nat /\ q + 1 + (k + 1) = j + 1
    OBVIOUS
  <2>2. j * BlockLen >= q * BlockLen + BlockLen
    BY <1>2
  <2> HIDE DEF j
  <2>3. (j + 1) * BlockLen >= q * BlockLen + BlockLen
    BY <2>1, <2>2, Times, Sizes
  <2> QED BY <2>1, <2>3
<1>3. d - q - 1 \in Nat /\ d - q - 1 \in 0..(d - q - 1) /\ q + 1 + (d - q - 1) = d
  OBVIOUS
<1> HIDE DEF S
<1>4. d - q - 1 \in S
  BY <1>1, <1>2, <1>3, UpTo
<1> QED BY <1>3, <1>4 DEF S

\* A place by its block and its place in the block
LEMMA Parts ==
  ASSUME NEW x \in Nat
  PROVE  /\ x \div BlockLen \in Nat
         /\ x % BlockLen \in Nat /\ x % BlockLen < BlockLen
         /\ x = (x \div BlockLen) * BlockLen + (x % BlockLen)
<1> DEFINE d == x \div BlockLen
           r == x % BlockLen
<1>1. d \in Nat /\ r \in Nat /\ r < BlockLen /\ x = BlockLen * d + r
  BY Sizes
<1>2. d * BlockLen = BlockLen * d
  BY <1>1, Sizes
<1> HIDE DEF d, r
<1> QED BY <1>1, <1>2 DEF d, r

\* ... which are the only ones
LEMMA PartsAre ==
  ASSUME NEW q \in Nat, NEW r \in Nat, r < BlockLen
  PROVE  (q * BlockLen + r) \div BlockLen = q /\ (q * BlockLen + r) % BlockLen = r
<1> DEFINE x == q * BlockLen + r
           d == x \div BlockLen
           m == x % BlockLen
           y == q * BlockLen
           z == d * BlockLen
<1>1. y \in Nat /\ x \in Nat
  BY Times
<1>2. d \in Nat /\ m \in Nat /\ m < BlockLen /\ x = z + m
  BY <1>1, Parts
<1>3. z \in Nat /\ x = y + r
  BY <1>2, Times
<1>4. (d < q => z + BlockLen <= y) /\ (q < d => y + BlockLen <= z)
  BY <1>2, TimesMono
<1> HIDE DEF d, m, y, z, x
<1>5. d = q
  BY <1>1, <1>2, <1>3, <1>4, Sizes
<1>6. y = z
  BY <1>5 DEF y, z
<1>7. m = r
  BY <1>1, <1>2, <1>3, <1>6
<1> QED BY <1>5, <1>7 DEF d, m, x

\* The place p of something that follows q whole blocks
LEMMA PartsAfter ==
  ASSUME NEW q \in Nat, NEW p \in Nat
  PROVE  /\ (q * BlockLen + p) \div BlockLen = q + p \div BlockLen
         /\ (q * BlockLen + p) % BlockLen = p % BlockLen
<1> DEFINE d == p \div BlockLen
           r == p % BlockLen
<1>1. d \in Nat /\ r \in Nat /\ r < BlockLen /\ p = d * BlockLen + r
  BY Parts
<1> HIDE DEF d, r
<1>2. q * BlockLen + p = (q + d) * BlockLen + r
  BY <1>1, Sizes
<1>3. q + d \in Nat
  BY <1>1
<1> QED BY <1>1, <1>2, <1>3, PartsAre DEF d, r

\* Whole blocks in front add to the blocks a call takes.
LEMMA BlocksOfAfter ==
  ASSUME NEW q \in Nat, NEW p \in Nat
  PROVE  BlocksOf(p) \in Nat /\ BlocksOf(q * BlockLen + p) = q + BlocksOf(p)
<1> DEFINE w == (p + BlockLen) - 1
<1>1. w \in Nat /\ q * BlockLen \in Nat
  BY Sizes, Times
<1>2. ((q * BlockLen + p) + BlockLen) - 1 = q * BlockLen + w
  BY <1>1, Sizes
<1>3. (q * BlockLen + w) \div BlockLen = q + w \div BlockLen /\ w \div BlockLen \in Nat
  BY <1>1, PartsAfter, Parts
<1>4. BlocksOf(p) = w \div BlockLen /\ BlocksOf(q * BlockLen + p) = (q * BlockLen + w) \div BlockLen
  <2>1. p + BlockLen - 1 = w /\ (q * BlockLen + p) + BlockLen - 1 = q * BlockLen + w
    BY <1>1, <1>2, Sizes
  <2> HIDE DEF w
  <2> QED BY <2>1 DEF BlocksOf
<1> HIDE DEF w
<1> QED BY <1>3, <1>4

\* Whole blocks are all taken.
LEMMA BlocksOfWhole ==
  ASSUME NEW p \in Nat, p % BlockLen = 0
  PROVE  p = BlocksOf(p) * BlockLen
<1> DEFINE d == p \div BlockLen
<1>1. d \in Nat /\ p = d * BlockLen /\ p = d * BlockLen + 0
  BY Parts, Times
<1> HIDE DEF d
<1>2. BlocksOf(0) = 0
  <2>1. 0 + BlockLen - 1 = 0 * BlockLen + (BlockLen - 1)
    BY Sizes
  <2>2. BlockLen - 1 \in Nat /\ BlockLen - 1 < BlockLen
    BY Sizes
  <2>3. (0 * BlockLen + (BlockLen - 1)) \div BlockLen = 0
    BY <2>2, PartsAre
  <2> QED BY <2>1, <2>3 DEF BlocksOf
<1>3. BlocksOf(d * BlockLen + 0) = d
  BY <1>1, <1>2, BlocksOfAfter
<1>4. BlocksOf(p) = d
  BY <1>1, <1>3
<1> QED BY <1>1, <1>4

-----------------------------------------------------------------------------
(* The keystream: blocks of bytes, whatever the class and the count. *)

\* A sequence as a function
LEMMA SeqIs ==
  ASSUME NEW S, NEW s \in Seq(S)
  PROVE  Len(s) \in Nat /\ s = [i \in 1..Len(s) |-> s[i]] /\ s \in [1..Len(s) -> S]
OBVIOUS

\* fill()
LEMMA FilledIs ==
  ASSUME NEW n \in Nat, NEW b \in M!Byte
  PROVE  /\ M!Filled(n, b) \in Seq(M!Byte) /\ Len(M!Filled(n, b)) = n
         /\ \A i \in 1..n : M!Filled(n, b)[i] = b
<1> DEFINE f == M!Filled(n, b)
<1>1. f \in [1..n -> M!Byte] /\ \A i \in 1..n : f[i] = b
  BY DEF M!Filled
<1> HIDE DEF f
<1>2. f \in Seq(M!Byte) /\ Len(f) = n
  BY <1>1
<1> QED BY <1>1, <1>2 DEF f

\* A counter stays as long as it was, and of bytes.
LEMMA PlusType ==
  ASSUME NEW b \in Seq(M!Byte), NEW n \in Nat
  PROVE  M!Plus(b, n) \in Seq(M!Byte) /\ Len(M!Plus(b, n)) = Len(b)
<1> DEFINE len == Len(b)
           Def(f) == f = [j \in 0..len |-> IF j = 0 THEN n
                                          ELSE (b[len + 1 - j] + f[j - 1]) \div 256]
           carry == CHOOSE f : Def(f)
           G == [x \in Nat \X Nat |-> IF x[2] \in 1..len
                                      THEN (b[(len + 1) - x[2]] + x[1]) \div 256 ELSE 0]
<1>1. len \in Nat /\ \A i \in 1..len : b[i] \in Nat
  <2>1. len \in Nat /\ \A i \in 1..len : b[i] \in M!Byte
    OBVIOUS
  <2>2. M!Byte \subseteq Nat
    BY DEF M!Byte
  <2> QED BY <2>1, <2>2
<1>2. G \in [Nat \X Nat -> Nat]
  <2>1. ASSUME NEW x \in Nat \X Nat, x[2] \in 1..len
        PROVE  (b[(len + 1) - x[2]] + x[1]) \div 256 \in Nat
    <3>1. (len + 1) - x[2] \in 1..len /\ x[1] \in Nat
      BY <1>1, <2>1
    <3>2. b[(len + 1) - x[2]] \in Nat
      BY <1>1, <3>1
    <3> QED BY <3>1, <3>2
  <2> QED BY <2>1
<1>3. PICK f \in [0..len -> Nat] : f[0] = n /\ \A k \in 1..len : f[k] = G[<<f[k - 1], k>>]
  <2> HIDE DEF G, len, Def, carry
  <2>1. \E f \in [0..len -> Nat] : Steps(f, n, G, len)
    BY <1>1, <1>2, Recursive
  <2> QED BY <2>1 DEF Steps
<1>4. Def(f)
  <2>1. ASSUME NEW j \in 0..len
        PROVE  f[j] = IF j = 0 THEN n ELSE (b[len + 1 - j] + f[j - 1]) \div 256
    <3>1. CASE j = 0
      BY <1>3, <3>1
    <3>2. CASE j # 0
      <4>1. j \in 1..len /\ j - 1 \in 0..len /\ f[j - 1] \in Nat /\ (len + 1) - j = len + 1 - j
        BY <1>1, <1>3, <3>2
      <4>2. <<f[j - 1], j>> \in Nat \X Nat
        BY <1>1, <4>1
      <4>3. G[<<f[j - 1], j>>] = (b[(len + 1) - j] + f[j - 1]) \div 256
        BY <4>1, <4>2
      <4> HIDE DEF G, len
      <4> QED BY <1>3, <3>2, <4>1, <4>3
    <3> QED BY <3>1, <3>2
  <2>2. f = [j \in 0..len |-> f[j]]
    BY <1>3
  <2> HIDE DEF G, len
  <2> QED BY <2>1, <2>2
<1>5. Def(carry)
  <2> HIDE DEF Def
  <2> QED BY <1>4
<1>6. M!Plus(b, n) = [i \in 1..len |-> (b[i] + carry[len - i]) % 256]
  BY DEF M!Plus
<1> HIDE DEF carry, G
<1> DEFINE S == {j \in Nat : j <= len => carry[j] \in Nat}
<1>7. \A j \in 0..len : carry[j] \in Nat
  <2>1. 0 \in S
    <3>1. 0 \in 0..len
      BY <1>1
    <3>2. carry[0] = n
      BY <1>5, <3>1
    <3> QED BY <3>2
  <2>2. ASSUME NEW k \in Nat, k < len /\ k \in S
        PROVE  k + 1 \in S
    <3>1. k + 1 \in 0..len /\ k + 1 # 0 /\ (k + 1) - 1 = k /\ carry[k] \in Nat
      BY <1>1, <2>2
    <3>2. carry[k + 1] = (b[len + 1 - (k + 1)] + carry[k]) \div 256
      BY <1>5, <3>1
    <3>3. len + 1 - (k + 1) \in 1..len
      BY <1>1, <3>1, <2>2
    <3>4. b[len + 1 - (k + 1)] \in Nat
      BY <1>1, <3>3
    <3> QED BY <3>1, <3>2, <3>4
  <2> HIDE DEF S
  <2>3. \A k \in 0..len : k \in S
    BY <1>1, <2>1, <2>2, UpTo
  <2> QED BY <2>3 DEF S
<1>8. \A i \in 1..len : (b[i] + carry[len - i]) % 256 \in M!Byte
  <2>1. ASSUME NEW i \in 1..len
        PROVE  (b[i] + carry[len - i]) % 256 \in M!Byte
    <3>1. b[i] \in Nat /\ len - i \in 0..len
      BY <1>1
    <3>2. carry[len - i] \in Nat
      BY <1>7, <3>1
    <3> DEFINE x == b[i] + carry[len - i]
    <3>3. x \in Nat
      BY <3>1, <3>2
    <3> HIDE DEF x
    <3>4. x % 256 \in 0..255
      BY <3>3
    <3> QED BY <3>4 DEF x, M!Byte
  <2> QED BY <2>1
<1> DEFINE p == M!Plus(b, n)
<1>9. p \in [1..len -> M!Byte]
  BY <1>6, <1>8
<1> HIDE DEF p, len
<1>10. p \in Seq(M!Byte) /\ Len(p) = len
  BY <1>1, <1>9
<1> QED BY <1>10 DEF p, len

\* xor of as many bytes
LEMMA XoredType ==
  ASSUME NEW a \in Seq(M!Byte), NEW b \in [DOMAIN a -> M!Byte]
  PROVE  /\ M!Xored(a, b) \in Seq(M!Byte) /\ Len(M!Xored(a, b)) = Len(a)
         /\ \A i \in 1..Len(a) : M!Xored(a, b)[i] = M!Xor(a[i], b[i])
<1> DEFINE x == M!Xored(a, b)
<1>1. x = [i \in 1..Len(a) |-> M!Xor(a[i], b[i])]
  BY DEF M!Xored
<1>2. \A i \in 1..Len(a) : a[i] \in M!Byte /\ b[i] \in M!Byte
  OBVIOUS
<1>3. \A i \in 1..Len(a) : M!Xor(a[i], b[i]) \in M!Byte
  BY <1>2, XorTwice
<1>4. x \in [1..Len(a) -> M!Byte]
  BY <1>1, <1>3
<1> HIDE DEF x
<1>5. x \in Seq(M!Byte) /\ Len(x) = Len(a)
  BY <1>4
<1> QED BY <1>1, <1>5 DEF x

\* A block is a sequence of BlockLen bytes.
LEMMA BlockIs ==
  ASSUME NEW b
  PROVE  b \in M!Block <=> b \in Seq(M!Byte) /\ Len(b) = BlockLen
<1>1. b \in [1..BlockLen -> M!Byte] <=> b \in Seq(M!Byte) /\ Len(b) = BlockLen
  BY Sizes
<1> QED BY <1>1 DEF M!Block

\* xor of two blocks
LEMMA XoredBlock ==
  ASSUME NEW a \in M!Block, NEW b \in M!Block
  PROVE  M!Xored(a, b) \in M!Block
<1>1. a \in Seq(M!Byte) /\ b \in Seq(M!Byte) /\ Len(a) = BlockLen /\ Len(b) = BlockLen
  BY BlockIs
<1>2. b \in [DOMAIN a -> M!Byte]
  BY <1>1
<1>3. M!Xored(a, b) \in Seq(M!Byte) /\ Len(M!Xored(a, b)) = BlockLen
  BY <1>1, <1>2, XoredType
<1> QED BY <1>3, BlockIs

\* The cipher, by its assumption
LEMMA CipherBlock ==
  ASSUME NEW b \in M!Block
  PROVE  M!encryptBlock(b) \in M!Block /\ M!decryptBlock(M!encryptBlock(b)) = b
BY CryptAssumption DEF M!encryptBlock, M!decryptBlock

\* The count of Salsa, ChaCha and Rabbit is a block.
LEMMA CountedBlock == ASSUME NEW n \in Nat PROVE Counted(n) \in M!Block
<1>1. M!Zero \in M!Byte
  BY DEF M!Zero, M!Byte
<1>2. /\ M!Filled(BlockLen, M!Zero) \in Seq(M!Byte)
      /\ Len(M!Filled(BlockLen, M!Zero)) = BlockLen
  BY <1>1, FilledIs, Sizes
<1>3. Counted(n) \in Seq(M!Byte) /\ Len(Counted(n)) = BlockLen
  BY <1>2, PlusType DEF Counted
<1> QED BY <1>3, BlockIs

\* An object of Salsa, ChaCha or Rabbit
Streaming == IsClass(o) /\ o.mode \in StreamModes

\* What the constructors of the stream ciphers set
LEMMA StreamKind ==
  ASSUME Streaming
  PROVE  /\ o.key \in M!Block /\ o.nonce \in M!Block /\ o.count \in Nat /\ o.wrap \in Nat \ {0}
         /\ o.mode \in {"salsa", "chacha", "rabbit"} /\ (o.byTarget => o.mode = "rabbit")
<1>1. /\ o.mode \in {"salsa", "chacha", "rabbit"}
      /\ o.key \in M!Block /\ o.nonce \in M!Block /\ o.count \in Nat
      /\ o \in {Salsa(o.key, o.nonce, o.count), ChaCha(o.key, o.nonce, o.count),
                Rabbit(o.key, o.nonce)}
  BY DEF Streaming, IsClass, StreamModes
<1> DEFINE k == o.key
           n == o.nonce
           c == o.count
<1>2. CASE o = Salsa(k, n, c)
  <2> HIDE DEF k, n, c
  <2>1. o.wrap = SalsaCounts /\ ~o.byTarget
    BY <1>2 DEF Salsa
  <2> QED BY <1>1, <2>1, Sizes
<1>3. CASE o = ChaCha(k, n, c)
  <2> HIDE DEF k, n, c
  <2>1. o.wrap = ChaChaCounts /\ ~o.byTarget
    BY <1>3 DEF ChaCha
  <2> QED BY <1>1, <2>1, Sizes
<1>4. CASE o = Rabbit(k, n)
  <2> HIDE DEF k, n, c
  <2>1. o.wrap = SalsaCounts /\ o.mode = "rabbit"
    BY <1>4 DEF Rabbit
  <2> QED BY <1>1, <2>1, Sizes
<1> QED BY <1>1, <1>2, <1>3, <1>4

\* Each block of keystream is a block of bytes.
LEMMA KeystreamBlock ==
  ASSUME Streaming, NEW t \in Nat
  PROVE  Keystream(t) \in M!Block
<1> DEFINE c == (o.count + t) % o.wrap
<1>1. /\ o.key \in M!Block /\ o.nonce \in M!Block /\ c \in Nat
      /\ o.mode \in {"salsa", "chacha", "rabbit"}
  BY StreamKind
<1>2. Counted(c) \in M!Block
  BY <1>1, CountedBlock
<1>3. SalsaBlock(o.key, o.nonce, c) \in M!Block
  BY <1>1, <1>2, XoredBlock, CipherBlock DEF SalsaBlock
<1>4. ChaChaBlock(o.key, o.nonce, c) \in M!Block
  BY <1>1, <1>2, XoredBlock, CipherBlock DEF ChaChaBlock
<1>5. RabbitBlock(o.key, o.nonce, c) \in M!Block
  BY <1>1, <1>2, XoredBlock, CipherBlock DEF RabbitBlock
<1> HIDE DEF c
<1>6. /\ o.mode = "salsa" => Keystream(t) = SalsaBlock(o.key, o.nonce, c)
      /\ o.mode = "chacha" => Keystream(t) = ChaChaBlock(o.key, o.nonce, c)
      /\ o.mode = "rabbit" => Keystream(t) = RabbitBlock(o.key, o.nonce, c)
  BY DEF Keystream, c
<1> QED BY <1>1, <1>3, <1>4, <1>5, <1>6

-----------------------------------------------------------------------------
(* What a stream cipher writes: each byte under the keystream's of its place. *)

\* The byte of keystream over byte i of a call that starts t blocks on
At(t, i) == Keystream(t + (i - 1) \div BlockLen)[((i - 1) % BlockLen) + 1]

\* ... and each byte of it a byte.
LEMMA AtByte ==
  ASSUME Streaming, NEW t \in Nat, NEW i \in Nat \ {0}
  PROVE  At(t, i) \in M!Byte
<1> DEFINE q == (i - 1) \div BlockLen
           r == (i - 1) % BlockLen
<1>1. q \in Nat /\ r \in Nat /\ r < BlockLen
  <2>1. i - 1 \in Nat
    OBVIOUS
  <2> QED BY <2>1, Parts
<1> HIDE DEF q, r
<1>2. Keystream(t + q) \in M!Block
  BY <1>1, KeystreamBlock
<1>3. r + 1 \in 1..BlockLen
  BY <1>1, Sizes
<1>4. Keystream(t + q)[r + 1] \in M!Byte
  BY <1>2, <1>3 DEF M!Block
<1> QED BY <1>4 DEF At, q, r

\* encryptInto() of a stream cipher, byte by byte
LEMMA StreamIs ==
  ASSUME Streaming, NEW t \in Nat, NEW a \in Seq(M!Byte)
  PROVE  /\ StreamInto(t, a) \in Seq(M!Byte)
         /\ Len(StreamInto(t, a)) = Len(a)
         /\ \A i \in 1..Len(a) : StreamInto(t, a)[i] = M!Xor(a[i], At(t, i))
<1> DEFINE x == StreamInto(t, a)
<1>1. x = [i \in 1..Len(a) |-> M!Xor(a[i], At(t, i))]
  <2>1. \A i \in 1..Len(a) : At(t, i) = Keystream(t + (i - 1) \div BlockLen)[((i - 1) % BlockLen) + 1]
    BY DEF At
  <2> QED BY <2>1, Zenon DEF StreamInto
<1>2. ASSUME NEW i \in 1..Len(a)
      PROVE  M!Xor(a[i], At(t, i)) \in M!Byte
  <2>1. a[i] \in M!Byte /\ i \in Nat \ {0}
    OBVIOUS
  <2>2. At(t, i) \in M!Byte
    BY <2>1, AtByte
  <2> QED BY <2>1, <2>2, XorTwice
<1>3. x \in [1..Len(a) -> M!Byte]
  BY <1>1, <1>2
<1> HIDE DEF x
<1>4. x \in Seq(M!Byte) /\ Len(x) = Len(a)
  BY <1>3
<1> QED BY <1>1, <1>4 DEF x

\* The same keystream again takes it off.
LEMMA StreamTwice ==
  ASSUME Streaming, NEW t \in Nat, NEW a \in Seq(M!Byte)
  PROVE  StreamInto(t, StreamInto(t, a)) = a
<1> DEFINE x == StreamInto(t, a)
           y == StreamInto(t, x)
<1>1. /\ x \in Seq(M!Byte) /\ Len(x) = Len(a)
      /\ \A i \in 1..Len(a) : x[i] = M!Xor(a[i], At(t, i))
  BY StreamIs
<1> HIDE DEF x
<1>2. /\ y \in Seq(M!Byte) /\ Len(y) = Len(x)
      /\ \A i \in 1..Len(x) : y[i] = M!Xor(x[i], At(t, i))
  BY <1>1, StreamIs
<1> HIDE DEF y
<1>3. ASSUME NEW i \in 1..Len(a)
      PROVE  y[i] = a[i]
  <2>1. a[i] \in M!Byte /\ i \in Nat \ {0}
    OBVIOUS
  <2>2. At(t, i) \in M!Byte
    BY <2>1, AtByte
  <2>3. M!Xor(M!Xor(a[i], At(t, i)), At(t, i)) = a[i]
    BY <2>1, <2>2, XorTwice
  <2> QED BY <1>1, <1>2, <2>3
<1>4. y = a
  BY <1>1, <1>2, <1>3
<1> QED BY <1>4 DEF y, x

\* Concatenation, place by place
LEMMA ConcatIs ==
  ASSUME NEW S, NEW a \in Seq(S), NEW b \in Seq(S)
  PROVE  /\ a \o b \in Seq(S) /\ Len(a \o b) = Len(a) + Len(b)
         /\ \A i \in 1..Len(a) : (a \o b)[i] = a[i]
         /\ \A i \in 1..Len(b) : (a \o b)[Len(a) + i] = b[i]
OBVIOUS

\* After whole blocks the stream goes on where they end.
LEMMA StreamJoin ==
  ASSUME Streaming, NEW t \in Nat, NEW q \in Nat,
         NEW a \in Seq(M!Byte), NEW b \in Seq(M!Byte), Len(a) = q * BlockLen
  PROVE  StreamInto(t, a \o b) = StreamInto(t, a) \o StreamInto(t + q, b)
<1> DEFINE x == StreamInto(t, a \o b)
           y == StreamInto(t, a)
           z == StreamInto(t + q, b)
           c == a \o b
<1>1. /\ c \in Seq(M!Byte) /\ Len(c) = Len(a) + Len(b) /\ t + q \in Nat
      /\ \A i \in 1..Len(a) : c[i] = a[i]
      /\ \A i \in 1..Len(b) : c[Len(a) + i] = b[i]
  OBVIOUS
<1>2. /\ x \in Seq(M!Byte) /\ Len(x) = Len(c)
      /\ \A i \in 1..Len(c) : x[i] = M!Xor(c[i], At(t, i))
  <2> HIDE DEF c
  <2>1. x = StreamInto(t, c)
    BY DEF c
  <2> QED BY <1>1, <2>1, StreamIs
<1>3. /\ y \in Seq(M!Byte) /\ Len(y) = Len(a)
      /\ \A i \in 1..Len(a) : y[i] = M!Xor(a[i], At(t, i))
  BY StreamIs
<1>4. /\ z \in Seq(M!Byte) /\ Len(z) = Len(b)
      /\ \A i \in 1..Len(b) : z[i] = M!Xor(b[i], At(t + q, i))
  BY <1>1, StreamIs
<1> HIDE DEF x, y, z, c
<1>5. ASSUME NEW i \in 1..Len(b)
      PROVE  At(t, Len(a) + i) = At(t + q, i)
  <2> DEFINE p == i - 1
             d == p \div BlockLen
             r == p % BlockLen
  <2>1. p \in Nat /\ (Len(a) + i) - 1 = q * BlockLen + p
    <3>1. q * BlockLen \in Nat
      BY Times
    <3> QED BY <3>1
  <2>2. (q * BlockLen + p) \div BlockLen = q + d /\ (q * BlockLen + p) % BlockLen = r
    BY <2>1, PartsAfter
  <2>3. d \in Nat /\ t + (q + d) = (t + q) + d
    <3>1. d \in Nat
      BY <2>1, Parts
    <3> HIDE DEF d
    <3> QED BY <3>1
  <2> HIDE DEF p
  <2>4. At(t, Len(a) + i) = Keystream(t + (q * BlockLen + p) \div BlockLen)[((q * BlockLen + p) % BlockLen) + 1]
    BY <2>1, Zenon DEF At
  <2>5. At(t + q, i) = Keystream((t + q) + p \div BlockLen)[(p % BlockLen) + 1]
    BY Zenon DEF At, p
  <2> QED BY <2>2, <2>3, <2>4, <2>5, Zenon
<1> DEFINE w == y \o z
<1>6. /\ w \in Seq(M!Byte) /\ Len(w) = Len(a) + Len(b)
      /\ \A i \in 1..Len(a) : w[i] = y[i]
      /\ \A i \in 1..Len(b) : w[Len(a) + i] = z[i]
  <2>1. y \in Seq(M!Byte) /\ z \in Seq(M!Byte)
    BY <1>3, <1>4
  <2>2. /\ w \in Seq(M!Byte) /\ Len(w) = Len(y) + Len(z)
        /\ \A i \in 1..Len(y) : w[i] = y[i]
        /\ \A i \in 1..Len(z) : w[Len(y) + i] = z[i]
    BY <2>1, ConcatIs
  <2> HIDE DEF w
  <2> QED BY <1>3, <1>4, <2>2
<1> HIDE DEF w
<1>7. ASSUME NEW i \in 1..Len(c)
      PROVE  x[i] = w[i]
  <2>1. CASE i <= Len(a)
    BY <1>1, <1>2, <1>3, <1>6, <2>1
  <2>2. CASE i > Len(a)
    <3>1. i - Len(a) \in 1..Len(b) /\ Len(a) + (i - Len(a)) = i
      BY <1>1, <2>2
    <3>2. PICK j \in 1..Len(b) : i = Len(a) + j
      BY <3>1
    <3>3. x[i] = M!Xor(c[i], At(t, i)) /\ c[i] = b[j] /\ w[i] = z[j] /\ z[j] = M!Xor(b[j], At(t + q, j))
      BY <1>1, <1>2, <1>4, <1>6, <3>2
    <3>4. At(t, i) = At(t + q, j)
      BY <1>5, <3>2
    <3> QED BY <3>3, <3>4
  <2> QED BY <2>1, <2>2, <1>1
<1>8. x = w
  BY <1>1, <1>2, <1>6, <1>7
<1> QED BY <1>8 DEF x, w, y, z, c

\* to.set(), place by place
LEMMA SetIs ==
  ASSUME NEW to \in Seq(M!Byte), NEW b \in Seq(M!Byte), NEW at \in Nat
  PROVE  /\ M!Set(to, b, at) \in Seq(M!Byte) /\ Len(M!Set(to, b, at)) = Len(to)
         /\ \A i \in 1..Len(to) : M!Set(to, b, at)[i] =
               IF i > at /\ i <= at + Len(b) THEN b[i - at] ELSE to[i]
<1> DEFINE x == M!Set(to, b, at)
<1>1. x = [i \in 1..Len(to) |-> IF i > at /\ i <= at + Len(b) THEN b[i - at] ELSE to[i]]
  BY DEF M!Set
<1>2. ASSUME NEW i \in 1..Len(to)
      PROVE  (IF i > at /\ i <= at + Len(b) THEN b[i - at] ELSE to[i]) \in M!Byte
  <2>1. CASE i > at /\ i <= at + Len(b)
    <3>1. i - at \in 1..Len(b)
      BY <2>1
    <3> QED BY <2>1, <3>1
  <2>2. CASE ~(i > at /\ i <= at + Len(b))
    BY <2>2
  <2> QED BY <2>1, <2>2
<1>3. x \in [1..Len(to) -> M!Byte]
  BY <1>1, <1>2
<1> HIDE DEF x
<1>4. x \in Seq(M!Byte) /\ Len(x) = Len(to)
  BY <1>3
<1> QED BY <1>1, <1>4 DEF x

\* subarray(), place by place
LEMMA SubSeqIs ==
  ASSUME NEW S, NEW s \in Seq(S), NEW a \in Nat \ {0}, NEW n \in Nat, n <= Len(s), a <= n + 1
  PROVE  /\ SubSeq(s, a, n) \in Seq(S) /\ Len(SubSeq(s, a, n)) = (n - a) + 1
         /\ \A i \in 1..((n - a) + 1) : SubSeq(s, a, n)[i] = s[(i - 1) + a]
OBVIOUS

\* Sequences that agree everywhere are one.
LEMMA SameSeq ==
  ASSUME NEW S, NEW s \in Seq(S), NEW t \in Seq(S), Len(s) = Len(t), \A i \in 1..Len(s) : s[i] = t[i]
  PROVE  s = t
OBVIOUS

\* What `plain.set(found)` leaves of what was found, at its start
LEMMA SetStart ==
  ASSUME NEW to \in Seq(M!Byte), NEW b \in Seq(M!Byte), Len(b) <= Len(to)
  PROVE  SubSeq(M!Set(to, b, 0), 1, Len(b)) = b
<1> DEFINE x == M!Set(to, b, 0)
           y == SubSeq(x, 1, Len(b))
<1>1. /\ x \in Seq(M!Byte) /\ Len(x) = Len(to)
      /\ \A i \in 1..Len(to) : x[i] = IF i > 0 /\ i <= 0 + Len(b) THEN b[i - 0] ELSE to[i]
  BY SetIs
<1> HIDE DEF x
<1>2. \A i \in 1..Len(b) : x[i] = b[i]
  BY <1>1
<1>3. /\ y \in Seq(M!Byte) /\ Len(y) = Len(b)
      /\ \A i \in 1..Len(b) : y[i] = x[i]
  BY <1>1, SubSeqIs
<1> HIDE DEF y
<1>4. y = b
  BY <1>2, <1>3, SameSeq
<1> QED BY <1>4 DEF x, y

\* An object of Ecb, Cbc, Cfb, Ofb or Ctr
Moding == IsClass(o) /\ o.mode \notin StreamModes

\* decryptInto() of e, into an array of the plaintext's length or into its own
Target(p, e, same, slack) == IF same THEN e ELSE M!Filled(Len(p) + slack, M!Zero)
Found(p, e, same, slack) == M!decryptInto(o, Target(p, e, same, slack), e, same)

-----------------------------------------------------------------------------
(* The modes: blocks in a message. *)

\* The loop over the blocks of a message reaches each byte, and no block past it.
LEMMA BlocksBound ==
  ASSUME NEW len \in Nat
  PROVE  /\ BlocksOf(len) \in Nat /\ len <= BlocksOf(len) * BlockLen
         /\ \A k \in Nat : k < BlocksOf(len) => k * BlockLen < len
<1> DEFINE n == BlocksOf(len)
           w == (len + BlockLen) - 1
           r == w % BlockLen
           y == n * BlockLen
<1>1. w \in Nat /\ n = w \div BlockLen
  <2>1. w \in Nat /\ len + BlockLen - 1 = w
    BY Sizes
  <2> HIDE DEF w
  <2> QED BY <2>1 DEF BlocksOf
<1>2. n \in Nat /\ r \in Nat /\ r < BlockLen /\ w = y + r
  BY <1>1, Parts
<1>3. y \in Nat
  BY <1>2, Times
<1> HIDE DEF n, r, y
<1>4. len <= y
  BY <1>2, <1>3, Sizes
<1>5. ASSUME NEW k \in Nat, k < n
      PROVE  k * BlockLen < len
  <2> DEFINE z == k * BlockLen
  <2>1. z \in Nat /\ z + BlockLen <= y
    BY <1>2, <1>5, TimesMono, Times DEF y
  <2> HIDE DEF z
  <2>2. z < len
    BY <1>2, <1>3, <2>1, Sizes
  <2> QED BY <2>2 DEF z
<1> QED BY <1>2, <1>4, <1>5 DEF n, y

\* A block of a message, place by place
LEMMA BlockAtIs ==
  ASSUME NEW m \in Seq(M!Byte), NEW k \in Nat, k * BlockLen + BlockLen <= Len(m)
  PROVE  /\ M!BlockAt(m, k) \in M!Block
         /\ \A j \in 1..BlockLen : M!BlockAt(m, k)[j] = m[k * BlockLen + j]
<1> DEFINE a == k * BlockLen
           b == SubSeq(m, a + 1, a + BlockLen)
<1>1. a \in Nat /\ a + BlockLen <= Len(m)
  BY Times
<1> HIDE DEF a
<1>2. a + 1 \in Nat \ {0} /\ a + BlockLen \in Nat /\ a + 1 <= (a + BlockLen) + 1
      /\ ((a + BlockLen) - (a + 1)) + 1 = BlockLen
  BY <1>1, Sizes
<1>3. b \in Seq(M!Byte) /\ Len(b) = BlockLen /\ \A i \in 1..BlockLen : b[i] = m[(i - 1) + (a + 1)]
  BY <1>1, <1>2, SubSeqIs
<1>4. \A i \in 1..BlockLen : (i - 1) + (a + 1) = a + i
  BY <1>1, Sizes
<1>5. b \in M!Block
  BY <1>3, BlockIs
<1> QED BY <1>3, <1>4, <1>5 DEF M!BlockAt, a

\* Blocks that agree everywhere are one.
LEMMA SameBlock ==
  ASSUME NEW a \in M!Block, NEW b \in M!Block, \A j \in 1..BlockLen : a[j] = b[j]
  PROVE  a = b
<1>1. a \in Seq(M!Byte) /\ b \in Seq(M!Byte) /\ Len(a) = BlockLen /\ Len(b) = BlockLen
  BY BlockIs
<1> QED BY <1>1, SameSeq

\* Where a place of the message stands: in which block, and where in it
LEMMA PlaceIs ==
  ASSUME NEW k \in Nat, NEW i \in Nat, k * BlockLen < i, i <= k * BlockLen + BlockLen
  PROVE  i - k * BlockLen \in 1..BlockLen /\ k * BlockLen + (i - k * BlockLen) = i
<1>1. k * BlockLen \in Nat
  BY Times
<1> QED BY <1>1, Sizes

\* What the constructors of the modes set
LEMMA ModeKind ==
  ASSUME Moding
  PROVE  /\ o.mode \in {"ecb", "cbc", "cfb", "ofb", "ctr", "ctr32"}
         /\ o.mode \in {"ecb", "cbc"} => o.pad \in {"pkcs7", "ansi", "iso", "zero"}
         /\ o.mode \in {"cbc", "cfb", "ofb", "ctr"} => o.iv \in M!Block
         /\ o.mode = "ctr32" => /\ o.iv \in Seq(M!Byte) /\ Len(o.iv) + CountLen = BlockLen
                                /\ o.count \in Nat
<1>1. CASE o.mode = "ecb"
  BY <1>1 DEF Moding, IsClass, M!Paddings, StreamModes
<1>2. CASE o.mode = "cbc"
  <2>1. o.pad \in M!Paddings /\ o.iv \in Seq(M!Byte) /\ o \in M!Cbc(o.pad, o.iv)
    BY <1>2 DEF Moding, IsClass, StreamModes
  <2>2. Len(o.iv) = BlockLen
    BY <2>1 DEF M!Cbc
  <2>3. o.iv \in M!Block
    BY <2>1, <2>2, BlockIs
  <2> QED BY <1>2, <2>1, <2>3 DEF M!Paddings
<1>3. CASE o.mode = "cfb"
  <2>1. o.iv \in Seq(M!Byte) /\ o \in M!Cfb(o.iv)
    BY <1>3 DEF Moding, IsClass, StreamModes
  <2>2. Len(o.iv) = BlockLen
    BY <2>1 DEF M!Cfb
  <2>3. o.iv \in M!Block
    BY <2>1, <2>2, BlockIs
  <2> QED BY <1>3, <2>1, <2>3
<1>4. CASE o.mode = "ofb"
  <2>1. o.iv \in Seq(M!Byte) /\ o \in M!Ofb(o.iv)
    BY <1>4 DEF Moding, IsClass, StreamModes
  <2>2. Len(o.iv) = BlockLen
    BY <2>1 DEF M!Ofb
  <2>3. o.iv \in M!Block
    BY <2>1, <2>2, BlockIs
  <2> QED BY <1>4, <2>1, <2>3
<1>5. CASE o.mode = "ctr"
  <2>1. o.iv \in Seq(M!Byte) /\ o \in M!Ctr(o.iv, {})
    BY <1>5 DEF Moding, IsClass, StreamModes
  <2>2. Len(o.iv) = BlockLen
    BY <2>1 DEF M!Ctr
  <2>3. o.iv \in M!Block
    BY <2>1, <2>2, BlockIs
  <2> QED BY <1>5, <2>1, <2>3
<1>6. CASE o.mode = "ctr32"
  <2>1. o.count \in Nat /\ o.iv \in Seq(M!Byte) /\ o \in M!Ctr(o.iv, {o.count})
    BY <1>6 DEF Moding, IsClass, StreamModes
  <2>2. {o.count} # {}
    OBVIOUS
  <2>3. Len(o.iv) + CountLen = BlockLen
    BY <2>1, <2>2 DEF M!Ctr
  <2> QED BY <1>6, <2>1, <2>3
<1> QED BY <1>1, <1>2, <1>3, <1>4, <1>5, <1>6 DEF Moding, IsClass

\* What Cfb, Ofb and Ctr encrypt to xor with is a block.
LEMMA InputBlock ==
  ASSUME Moding, ~M!Padded(o), NEW k \in Nat, NEW fed \in Seq(M!Byte),
         o.mode # "ctr32" => fed \in M!Block
  PROVE  M!encryptBlock(M!Input(o, fed, k)) \in M!Block
<1>1. o.mode \in {"cfb", "ofb", "ctr", "ctr32"}
  BY ModeKind DEF M!Padded
<1>2. M!Input(o, fed, k) \in M!Block
  <2>1. CASE o.mode \in {"cfb", "ofb"}
    BY <2>1 DEF M!Input
  <2>2. CASE o.mode = "ctr"
    <3>1. o.iv \in Seq(M!Byte) /\ Len(o.iv) = BlockLen
      BY <2>2, ModeKind, BlockIs
    <3>2. M!Plus(o.iv, k) \in M!Block
      BY <3>1, PlusType, BlockIs
    <3> QED BY <2>2, <3>2 DEF M!Input, M!IncrBytes
  <2>3. CASE o.mode = "ctr32"
    <3>1. o.iv \in Seq(M!Byte) /\ Len(o.iv) + CountLen = BlockLen /\ o.count + k \in Nat
      BY <2>3, ModeKind
    <3> DEFINE z == M!Filled(CountLen, M!Zero)
               c == M!Plus(z, o.count + k)
    <3>2. z \in Seq(M!Byte) /\ Len(z) = CountLen
      <4>1. M!Zero \in M!Byte
        BY DEF M!Zero, M!Byte
      <4> QED BY <4>1, FilledIs, Sizes
    <3> HIDE DEF z
    <3>3. c \in Seq(M!Byte) /\ Len(c) = CountLen
      BY <3>1, <3>2, PlusType
    <3> HIDE DEF c
    <3>4. o.iv \o c \in M!Block
      BY <3>1, <3>3, ConcatIs, BlockIs, ZenonT(30)
    <3> QED BY <2>3, <3>4 DEF M!Input, M!Concat32, c, z
  <2> QED BY <1>1, <2>1, <2>2, <2>3
<1> QED BY <1>2, CipherBlock

-----------------------------------------------------------------------------
(* Cfb, Ofb and Ctr: the states between the blocks. *)

\* What block k - 1 is xored with
Ks(fed, k) == M!encryptBlock(M!Input(o, fed, k - 1))
\* Between two turns: the array, of length l, and what is encrypted next
States(l) == {s \in [mem : Seq(M!Byte), fed : Seq(M!Byte)] :
                 Len(s.mem) = l /\ (o.mode # "ctr32" => s.fed \in M!Block)}
\* The body of the loop in Streamed, and what it does place by place
StreamStep(s, k, enc, own) ==
    LET len == Len(enc)
        ks == M!encryptBlock(M!Input(o, s.fed, k - 1))
        at == (k - 1) * BlockLen
        end == IF at + BlockLen > len THEN len ELSE at + BlockLen
        m == M!Set(s.mem, M!Xored(SubSeq(s.mem, at + 1, end), ks), at)
    IN  [mem |-> m, fed |-> IF o.mode # "cfb" \/ k * BlockLen > len THEN ks
                            ELSE M!BlockAt(IF own THEN m ELSE enc, k - 1)]
Stepped(s, k, x, enc, own) ==
    /\ x \in States(Len(s.mem))
    /\ \A i \in 1..Len(s.mem) :
          x.mem[i] = IF (k - 1) * BlockLen < i /\ i <= (k - 1) * BlockLen + BlockLen /\ i <= Len(enc)
                     THEN M!Xor(s.mem[i], Ks(s.fed, k)[i - (k - 1) * BlockLen])
                     ELSE s.mem[i]
    /\ o.mode # "cfb" \/ k * BlockLen > Len(enc) => x.fed = Ks(s.fed, k)
    /\ o.mode = "cfb" /\ k * BlockLen <= Len(enc) =>
          x.fed = M!BlockAt(IF own THEN x.mem ELSE enc, k - 1)

\* A turn of the loop: one block of the message, or what is left, is xored.
LEMMA StepIs ==
  ASSUME Moding, ~M!Padded(o), NEW l \in Nat, NEW s \in States(l), NEW enc \in Seq(M!Byte),
         Len(enc) <= l, NEW k \in Nat, k # 0, (k - 1) * BlockLen < Len(enc), NEW own \in BOOLEAN
  PROVE  /\ Stepped(s, k, StreamStep(s, k, enc, own), enc, own)
         /\ StreamStep(s, k, enc, own) \in States(l)
         /\ Ks(s.fed, k) \in M!Block
<1> DEFINE len == Len(enc)
           ks == Ks(s.fed, k)
           at == (k - 1) * BlockLen
           end == IF at + BlockLen > len THEN len ELSE at + BlockLen
           part == SubSeq(s.mem, at + 1, end)
           new == M!Xored(part, ks)
           m == M!Set(s.mem, new, at)
           x == StreamStep(s, k, enc, own)
<1>1. /\ s.mem \in Seq(M!Byte) /\ Len(s.mem) = l /\ s.fed \in Seq(M!Byte)
      /\ o.mode # "ctr32" => s.fed \in M!Block
  BY DEF States
<1>2. k - 1 \in Nat /\ at \in Nat /\ k * BlockLen = at + BlockLen /\ len \in Nat /\ at < len
  <2>1. k - 1 \in Nat /\ (k - 1) + 1 = k /\ len \in Nat
    OBVIOUS
  <2>2. at \in Nat /\ ((k - 1) + 1) * BlockLen = at + BlockLen
    BY <2>1, Times
  <2> QED BY <2>1, <2>2
<1>3. ks \in M!Block
  BY <1>1, <1>2, InputBlock DEF Ks
<1>4. x = [mem |-> m, fed |-> IF o.mode # "cfb" \/ k * BlockLen > len THEN ks
                              ELSE M!BlockAt(IF own THEN m ELSE enc, k - 1)]
  BY Zenon DEF StreamStep, Ks
<1> HIDE DEF at, len, x, ks
<1>5. end \in Nat /\ at + 1 <= end /\ end <= len /\ end <= at + BlockLen
  BY <1>2, Sizes
<1>6. /\ part \in Seq(M!Byte) /\ Len(part) = end - at
      /\ \A i \in 1..(end - at) : part[i] = s.mem[at + i]
  <2> HIDE DEF end
  <2>1. /\ at + 1 \in Nat \ {0} /\ end <= Len(s.mem) /\ (end - (at + 1)) + 1 = end - at
        /\ at + 1 <= end + 1
    BY <1>1, <1>2, <1>5 DEF len
  <2>2. /\ part \in Seq(M!Byte) /\ Len(part) = end - at
        /\ \A i \in 1..(end - at) : part[i] = s.mem[(i - 1) + (at + 1)]
    BY <1>1, <1>5, <2>1, SubSeqIs
  <2>3. \A i \in 1..(end - at) : (i - 1) + (at + 1) = at + i
    BY <1>2, <1>5
  <2> HIDE DEF part
  <2> QED BY <2>2, <2>3
<1> HIDE DEF part, end
<1>7. /\ new \in Seq(M!Byte) /\ Len(new) = end - at
      /\ \A i \in 1..(end - at) : new[i] = M!Xor(part[i], ks[i])
  <2>1. \A i \in DOMAIN part : ks[i] \in M!Byte
    BY <1>2, <1>3, <1>5, <1>6, Sizes DEF M!Block
  <2> DEFINE b == [i \in DOMAIN part |-> ks[i]]
  <2>2. b \in [DOMAIN part -> M!Byte]
    BY <2>1
  <2>3. M!Xored(part, ks) = M!Xored(part, b)
    <3>1. \A i \in 1..Len(part) : b[i] = ks[i]
      BY <1>6
    <3> HIDE DEF b
    <3> QED BY <3>1 DEF M!Xored
  <2>4. \A i \in 1..Len(part) : b[i] = ks[i]
    BY <1>6
  <2> HIDE DEF b
  <2>5. /\ M!Xored(part, b) \in Seq(M!Byte) /\ Len(M!Xored(part, b)) = Len(part)
        /\ \A i \in 1..Len(part) : M!Xored(part, b)[i] = M!Xor(part[i], b[i])
    BY <1>6, <2>2, XoredType
  <2> QED BY <1>6, <2>3, <2>4, <2>5
<1> HIDE DEF new
<1>8. /\ m \in Seq(M!Byte) /\ Len(m) = l
      /\ \A i \in 1..l : m[i] = IF i > at /\ i <= at + Len(new) THEN new[i - at] ELSE s.mem[i]
  BY <1>1, <1>2, <1>7, SetIs, ZenonT(30)
<1> HIDE DEF m
<1>9. ASSUME NEW i \in 1..l
      PROVE  m[i] = IF at < i /\ i <= at + BlockLen /\ i <= len THEN M!Xor(s.mem[i], ks[i - at])
                    ELSE s.mem[i]
  <2>1. (i > at /\ i <= at + Len(new)) <=> (at < i /\ i <= at + BlockLen /\ i <= len)
    BY <1>2, <1>5, <1>7, Sizes DEF end
  <2>2. CASE i > at /\ i <= at + Len(new)
    <3>1. i - at \in 1..(end - at) /\ at + (i - at) = i
      BY <1>2, <1>5, <1>7, <2>2
    <3>2. m[i] = new[i - at] /\ new[i - at] = M!Xor(part[i - at], ks[i - at])
          /\ part[i - at] = s.mem[at + (i - at)]
      BY <1>6, <1>7, <1>8, <2>2, <3>1
    <3> QED BY <2>1, <2>2, <3>1, <3>2
  <2>3. CASE ~(i > at /\ i <= at + Len(new))
    BY <1>8, <2>1, <2>3
  <2> QED BY <2>2, <2>3
<1>10. x.mem = m /\ (o.mode # "cfb" \/ k * BlockLen > len => x.fed = ks)
       /\ (o.mode = "cfb" /\ k * BlockLen <= len => x.fed = M!BlockAt(IF own THEN m ELSE enc, k - 1))
  BY <1>2, <1>4, Sizes
<1>11. x \in States(l)
  <2>1. CASE o.mode # "cfb" \/ k * BlockLen > len
    <3>1. x.fed = ks /\ x = [mem |-> m, fed |-> ks]
      BY <1>4, <2>1
    <3>2. ks \in Seq(M!Byte)
      BY <1>3, BlockIs
    <3> QED BY <1>3, <1>8, <3>1, <3>2 DEF States
  <2>2. CASE ~(o.mode # "cfb" \/ k * BlockLen > len)
    <3>1. (k - 1) * BlockLen + BlockLen <= len
      BY <1>2, <2>2, Sizes DEF at
    <3> DEFINE y == IF own THEN m ELSE enc
    <3>2. y \in Seq(M!Byte) /\ (k - 1) * BlockLen + BlockLen <= Len(y)
      <4>1. (k - 1) * BlockLen + BlockLen <= l
        BY <1>2, <3>1, Sizes DEF at, len
      <4> QED BY <1>8, <3>1, <4>1 DEF len
    <3> HIDE DEF y
    <3> DEFINE b == M!BlockAt(y, k - 1)
    <3>3. b \in M!Block
      BY <1>2, <3>2, BlockAtIs
    <3>4. b \in Seq(M!Byte)
      BY <3>3, BlockIs
    <3>5. x = [mem |-> m, fed |-> b]
      BY <1>4, <2>2 DEF y
    <3> HIDE DEF b
    <3> QED BY <1>8, <3>3, <3>4, <3>5 DEF States
  <2> QED BY <2>1, <2>2
<1>12. Stepped(s, k, x, enc, own)
  <2>1. \A i \in 1..Len(s.mem) :
          x.mem[i] = IF (k - 1) * BlockLen < i /\ i <= (k - 1) * BlockLen + BlockLen /\ i <= Len(enc)
                     THEN M!Xor(s.mem[i], Ks(s.fed, k)[i - (k - 1) * BlockLen])
                     ELSE s.mem[i]
    BY <1>1, <1>9, <1>10 DEF at, len, ks
  <2>2. x \in States(Len(s.mem))
    BY <1>1, <1>11
  <2> QED BY <1>10, <2>1, <2>2 DEF Stepped, len, ks
<1> QED BY <1>3, <1>11, <1>12 DEF x, ks

\* F is the run of one call.
Streams(F, mem, enc, own) ==
    /\ F \in [0..BlocksOf(Len(enc)) -> States(Len(mem))]
    /\ F[0].mem = mem /\ F[0].fed = o.iv
    /\ \A k \in 1..BlocksOf(Len(enc)) : /\ Stepped(F[k - 1], k, F[k], enc, own)
                                        /\ Ks(F[k - 1].fed, k) \in M!Block

\* The states of a call, turn by turn
LEMMA StreamedRun ==
  ASSUME Moding, ~M!Padded(o), NEW mem \in Seq(M!Byte), NEW enc \in Seq(M!Byte),
         Len(enc) <= Len(mem), NEW own \in BOOLEAN
  PROVE  \E F : /\ Streams(F, mem, enc, own)
                /\ M!Streamed(o, mem, enc, own) = F[BlocksOf(Len(enc))].mem
<1> DEFINE len == Len(enc)
           n == (len + BlockLen - 1) \div BlockLen
           Def(f) == f = [k \in 0..n |-> IF k = 0 THEN [mem |-> mem, fed |-> o.iv]
                                         ELSE StreamStep(f[k - 1], k, enc, own)]
           F == CHOOSE f : Def(f)
           l == Len(mem)
           T == States(l)
           s0 == [mem |-> mem, fed |-> o.iv]
           HH == [x \in T \X Nat |-> IF x[2] \in 1..n THEN StreamStep(x[1], x[2], enc, own) ELSE s0]
<1>1. len \in Nat /\ l \in Nat /\ len <= l
  OBVIOUS
<1>2. n = BlocksOf(len) /\ n \in Nat /\ \A k \in Nat : k < n => k * BlockLen < len
  <2>1. n = BlocksOf(len)
    BY DEF BlocksOf
  <2> QED BY <1>1, <2>1, BlocksBound
<1>3. M!Streamed(o, mem, enc, own) = F[n].mem
  BY Zenon DEF M!Streamed, StreamStep
<1> HIDE DEF n
<1>4. s0 \in T
  <2>1. o.mode \in {"cfb", "ofb", "ctr", "ctr32"}
    BY ModeKind DEF M!Padded
  <2>2. o.iv \in Seq(M!Byte) /\ (o.mode # "ctr32" => o.iv \in M!Block)
    <3>1. CASE o.mode = "ctr32"
      BY <3>1, ModeKind
    <3>2. CASE o.mode # "ctr32"
      <4>1. o.iv \in M!Block
        BY <2>1, <3>2, ModeKind
      <4> QED BY <4>1, BlockIs
    <3> QED BY <3>1, <3>2
  <2> QED BY <2>2 DEF States
<1>5. ASSUME NEW s \in T, NEW k \in 1..n
      PROVE  /\ StreamStep(s, k, enc, own) \in T
             /\ Stepped(s, k, StreamStep(s, k, enc, own), enc, own)
             /\ Ks(s.fed, k) \in M!Block
  <2>1. k \in Nat /\ k # 0 /\ k - 1 \in Nat /\ k - 1 < n
    BY <1>2
  <2>2. (k - 1) * BlockLen < Len(enc)
    BY <1>2, <2>1
  <2> HIDE DEF len, l
  <2> QED BY <1>1, <2>1, <2>2, StepIs DEF len, l
<1>6. HH \in [T \X Nat -> T]
  BY <1>4, <1>5
<1>7. PICK f \in [0..n -> T] : f[0] = s0 /\ \A k \in 1..n : f[k] = HH[<<f[k - 1], k>>]
  <2> HIDE DEF HH, T, s0, Def, F
  <2>1. \E f \in [0..n -> T] : Steps(f, s0, HH, n)
    BY <1>2, <1>4, <1>6, Recursive
  <2> QED BY <2>1 DEF Steps
<1>8. \A k \in 1..n : f[k - 1] \in T /\ f[k] = StreamStep(f[k - 1], k, enc, own)
  <2>1. ASSUME NEW k \in 1..n
        PROVE  f[k - 1] \in T /\ f[k] = StreamStep(f[k - 1], k, enc, own)
    <3>1. f[k - 1] \in T /\ <<f[k - 1], k>> \in T \X Nat
      BY <1>2, SMTT(30)
    <3>2. HH[<<f[k - 1], k>>] = StreamStep(f[k - 1], k, enc, own)
      BY <3>1
    <3> HIDE DEF HH, T
    <3> QED BY <1>7, <3>1, <3>2
  <2> QED BY <2>1
<1> HIDE DEF HH, T
<1>9. Def(f)
  <2>1. \A k \in 0..n : f[k] = IF k = 0 THEN s0 ELSE StreamStep(f[k - 1], k, enc, own)
    <3> HIDE DEF s0, F, Def
    <3>1. \A k \in 0..n : k = 0 \/ k \in 1..n
      BY <1>2
    <3> QED BY <1>7, <1>8, <3>1
  <2>2. f = [k \in 0..n |-> f[k]]
    BY <1>7
  <2> QED BY <2>1, <2>2
<1>10. Def(F)
  <2> HIDE DEF Def
  <2> QED BY <1>9
<1>11. F = f
  <2> DEFINE P == {k \in Nat : k <= n => F[k] = f[k]}
  <2>1. /\ \A k \in 0..n : F[k] = IF k = 0 THEN s0 ELSE StreamStep(F[k - 1], k, enc, own)
        /\ F = [k \in 0..n |-> F[k]]
    <3> HIDE DEF F
    <3> QED BY <1>10
  <2> HIDE DEF F, Def, s0
  <2>2. 0 \in P
    <3>1. 0 \in 0..n
      BY <1>2
    <3> QED BY <1>7, <2>1, <3>1
  <2>3. ASSUME NEW k \in Nat, k < n /\ k \in P
        PROVE  k + 1 \in P
    <3>1. k + 1 \in 0..n /\ k + 1 \in 1..n /\ k + 1 # 0 /\ (k + 1) - 1 = k /\ F[k] = f[k]
      BY <1>2, <2>3
    <3>2. F[k + 1] = f[k + 1]
      <4> HIDE DEF P
      <4>1. F[k + 1] = StreamStep(F[(k + 1) - 1], k + 1, enc, own)
        BY <2>1, <3>1
      <4>2. f[k + 1] = StreamStep(f[(k + 1) - 1], k + 1, enc, own)
        BY <1>8, <3>1
      <4> QED BY <3>1, <4>1, <4>2
    <3> QED BY <3>2
  <2>4. \A k \in 0..n : k \in P
    <3> HIDE DEF P
    <3> QED BY <1>2, <2>2, <2>3, UpTo
  <2>5. \A k \in 0..n : F[k] = f[k]
    BY <2>4
  <2> HIDE DEF P
  <2>6. f = [k \in 0..n |-> f[k]]
    BY <1>7
  <2> QED BY <2>1, <2>5, <2>6
<1>12. Streams(f, mem, enc, own)
  <2>1. f[0].mem = mem /\ f[0].fed = o.iv
    BY <1>7
  <2>2. \A k \in 1..n : Stepped(f[k - 1], k, f[k], enc, own) /\ Ks(f[k - 1].fed, k) \in M!Block
    BY <1>5, <1>8
  <2> HIDE DEF s0, F, Def
  <2> QED BY <1>2, <1>7, <2>1, <2>2 DEF Streams, T
<1>13. M!Streamed(o, mem, enc, own) = f[BlocksOf(Len(enc))].mem
  <2> HIDE DEF F, Def
  <2> QED BY <1>2, <1>3, <1>11
<1> QED BY <1>12, <1>13

\* Block k, once written, stays; what is after it is still to come.
Placed(F, mem, enc, own, k) ==
    /\ F[k].mem \in Seq(M!Byte) /\ Len(F[k].mem) = Len(mem)
    /\ F[k + 1].mem \in Seq(M!Byte) /\ Len(F[k + 1].mem) = Len(mem)
    /\ k * BlockLen \in Nat /\ (k + 1) * BlockLen = k * BlockLen + BlockLen
    /\ k * BlockLen < Len(enc) /\ Ks(F[k].fed, k + 1) \in M!Block
    /\ \A i \in 1..Len(mem) :
          F[k + 1].mem[i] = IF k * BlockLen < i /\ i <= k * BlockLen + BlockLen /\ i <= Len(enc)
                            THEN M!Xor(F[k].mem[i], Ks(F[k].fed, k + 1)[i - k * BlockLen])
                            ELSE F[k].mem[i]
    /\ o.mode # "cfb" \/ (k + 1) * BlockLen > Len(enc) => F[k + 1].fed = Ks(F[k].fed, k + 1)
    /\ o.mode = "cfb" /\ (k + 1) * BlockLen <= Len(enc) =>
          F[k + 1].fed = M!BlockAt(IF own THEN F[k + 1].mem ELSE enc, k)

\* Turn k writes block k, and takes what the next turn encrypts.
LEMMA StepPlaces ==
  ASSUME Moding, NEW F, NEW mem \in Seq(M!Byte), NEW enc \in Seq(M!Byte), NEW own \in BOOLEAN,
         Streams(F, mem, enc, own), Len(enc) <= Len(mem),
         NEW k \in Nat, k < BlocksOf(Len(enc))
  PROVE  Placed(F, mem, enc, own, k)
<1> DEFINE n == BlocksOf(Len(enc))
           l == Len(mem)
<1>1. n \in Nat /\ Len(enc) \in Nat /\ k * BlockLen < Len(enc)
  BY BlocksBound
<1>2. k \in 0..n /\ k + 1 \in 0..n /\ k + 1 \in 1..n /\ (k + 1) - 1 = k
  BY <1>1
<1>3. F[k] \in States(l) /\ F[k + 1] \in States(l)
  BY <1>2 DEF Streams
<1>4. Stepped(F[(k + 1) - 1], k + 1, F[k + 1], enc, own) /\ Ks(F[(k + 1) - 1].fed, k + 1) \in M!Block
  BY <1>2 DEF Streams
<1>5. Stepped(F[k], k + 1, F[k + 1], enc, own) /\ Ks(F[k].fed, k + 1) \in M!Block
  BY <1>2, <1>4
<1>6. k * BlockLen \in Nat /\ (k + 1) * BlockLen = k * BlockLen + BlockLen
  BY Times
<1>7. /\ F[k].mem \in Seq(M!Byte) /\ Len(F[k].mem) = l
      /\ F[k + 1].mem \in Seq(M!Byte) /\ Len(F[k + 1].mem) = l
  BY <1>3 DEF States
<1> QED BY <1>1, <1>2, <1>5, <1>6, <1>7 DEF Stepped, Placed

\* A byte is as it was until its block is reached, and as it then is for good.
LEMMA StreamedFrame ==
  ASSUME Moding, NEW F, NEW mem \in Seq(M!Byte), NEW enc \in Seq(M!Byte), NEW own \in BOOLEAN,
         Streams(F, mem, enc, own), Len(enc) <= Len(mem), NEW i \in 1..Len(mem)
  PROVE  /\ \A k \in 0..BlocksOf(Len(enc)) : i > k * BlockLen => F[k].mem[i] = mem[i]
         /\ \A k \in 0..BlocksOf(Len(enc)) :
               i <= k * BlockLen => F[BlocksOf(Len(enc))].mem[i] = F[k].mem[i]
<1> DEFINE n == BlocksOf(Len(enc))
<1>1. n \in Nat /\ i \in Nat
  BY BlocksBound
<1>2. ASSUME NEW k \in Nat, k < n
      PROVE  /\ i > (k + 1) * BlockLen => F[k + 1].mem[i] = F[k].mem[i] /\ i > k * BlockLen
             /\ i <= k * BlockLen => F[k + 1].mem[i] = F[k].mem[i] /\ i <= (k + 1) * BlockLen
  <2> DEFINE z == k * BlockLen
  <2>1. z \in Nat /\ (k + 1) * BlockLen = z + BlockLen
        /\ F[k + 1].mem[i] = IF z < i /\ i <= z + BlockLen /\ i <= Len(enc)
                             THEN M!Xor(F[k].mem[i], Ks(F[k].fed, k + 1)[i - z])
                             ELSE F[k].mem[i]
    <3>1. Placed(F, mem, enc, own, k)
      BY <1>2, StepPlaces
    <3> QED BY <3>1 DEF Placed
  <2> HIDE DEF z
  <2>2. /\ i > z + BlockLen => F[k + 1].mem[i] = F[k].mem[i] /\ i > z
        /\ i <= z => F[k + 1].mem[i] = F[k].mem[i] /\ i <= z + BlockLen
    BY <1>1, <2>1, Sizes
  <2> QED BY <2>1, <2>2 DEF z
<1> DEFINE P == {k \in Nat : k <= n /\ i > k * BlockLen => F[k].mem[i] = mem[i]}
<1>3. 0 \in P
  BY DEF Streams
<1>4. ASSUME NEW k \in Nat, k < n /\ k \in P
      PROVE  k + 1 \in P
  <2>1. i > (k + 1) * BlockLen => F[k + 1].mem[i] = mem[i]
    BY <1>1, <1>2, <1>4
  <2> QED BY <2>1
<1>5. \A k \in 0..n : k \in P
  <2> HIDE DEF P
  <2> QED BY <1>1, <1>3, <1>4, UpTo
<1>6. ASSUME NEW k \in 0..n, i <= k * BlockLen
      PROVE  F[n].mem[i] = F[k].mem[i]
  <2> DEFINE Q == {j \in Nat : k + j <= n => /\ F[k + j].mem[i] = F[k].mem[i]
                                            /\ i <= (k + j) * BlockLen}
  <2>1. 0 \in Q
    <3>1. k + 0 = k
      BY <1>1
    <3> QED BY <1>6, <3>1
  <2>2. ASSUME NEW j \in Nat, j < n - k /\ j \in Q
        PROVE  j + 1 \in Q
    <3>1. k + j \in Nat /\ k + j < n /\ k + (j + 1) = (k + j) + 1
          /\ F[k + j].mem[i] = F[k].mem[i] /\ i <= (k + j) * BlockLen
      BY <1>1, <2>2
    <3>2. F[(k + j) + 1].mem[i] = F[k + j].mem[i] /\ i <= ((k + j) + 1) * BlockLen
      BY <1>2, <3>1
    <3> QED BY <3>1, <3>2
  <2>3. n - k \in Nat /\ n - k \in 0..(n - k) /\ k + (n - k) = n
    BY <1>1
  <2>4. n - k \in Q
    <3> HIDE DEF Q
    <3> QED BY <2>1, <2>2, <2>3, UpTo
  <2> QED BY <1>1, <2>3, <2>4
<1> QED BY <1>1, <1>5, <1>6

\* The stream of a mode is taken off by the same mode: `dest` starts with the ciphertext.
Backing(F, HH, p, dest, c, yes, own) ==
    /\ Streams(F, p, p, yes) /\ yes /\ Streams(HH, dest, c, own)
    /\ Len(c) = Len(p) /\ Len(p) <= Len(dest)
    /\ \A i \in 1..Len(p) : c[i] = F[BlocksOf(Len(p))].mem[i]
    /\ \A i \in 1..Len(p) : dest[i] = c[i]
    /\ own /\ o.mode = "cfb" => Len(p) <= BlockLen

\* Both calls encrypt the same blocks, so that one takes off what the other put on.
LEMMA StreamedBack ==
  ASSUME Moding, NEW p \in Seq(M!Byte), NEW dest \in Seq(M!Byte), NEW c \in Seq(M!Byte),
         NEW yes \in BOOLEAN, NEW own \in BOOLEAN, NEW F, NEW HH, Backing(F, HH, p, dest, c, yes, own)
  PROVE  /\ HH[BlocksOf(Len(p))].mem \in Seq(M!Byte)
         /\ Len(HH[BlocksOf(Len(p))].mem) = Len(dest)
         /\ \A i \in 1..Len(p) : HH[BlocksOf(Len(p))].mem[i] = p[i]
<1> DEFINE len == Len(p)
           n == BlocksOf(len)
<1>1. len \in Nat /\ n \in Nat /\ len <= n * BlockLen /\ \A k \in Nat : k < n => k * BlockLen < len
  BY BlocksBound, SMTT(30)
<1>2. /\ Streams(F, p, p, yes) /\ yes /\ Streams(HH, dest, c, own)
      /\ Len(c) = len /\ len <= Len(dest) /\ Len(dest) \in Nat
      /\ \A i \in 1..len : dest[i] = c[i]
      /\ \A i \in 1..len : c[i] = F[n].mem[i]
      /\ own /\ o.mode = "cfb" => len <= BlockLen
  BY DEF Backing
<1> DEFINE Good(k) == /\ \A i \in 1..len : /\ i <= k * BlockLen => HH[k].mem[i] = p[i]
                                           /\ i > k * BlockLen => HH[k].mem[i] = c[i]
                      /\ k < n => HH[k].fed = F[k].fed
           P == {k \in Nat : Good(k)}
<1>4. 0 \in P
  <2>1. HH[0].mem = dest /\ HH[0].fed = o.iv /\ F[0].fed = o.iv
    BY <1>2 DEF Streams
  <2>2. \A i \in 1..len : ~(i <= 0 * BlockLen)
    BY Sizes
  <2>3. Good(0)
    BY <1>2, <2>1, <2>2
  <2> HIDE DEF Good
  <2> QED BY <2>3
<1>5. ASSUME NEW k \in Nat, k < n /\ k \in P
      PROVE  k + 1 \in P
  <2> DEFINE z == k * BlockLen
             ks == Ks(F[k].fed, k + 1)
  <2>1. Good(k)
    BY <1>5
  <2>2. HH[k].fed = F[k].fed
    BY <1>5, <2>1
  <2>f. /\ F[k + 1].mem \in Seq(M!Byte) /\ Len(F[k + 1].mem) = Len(p)
        /\ k * BlockLen \in Nat /\ (k + 1) * BlockLen = k * BlockLen + BlockLen
        /\ k * BlockLen < Len(p) /\ Ks(F[k].fed, k + 1) \in M!Block
        /\ \A i \in 1..Len(p) :
              F[k + 1].mem[i] = IF k * BlockLen < i /\ i <= k * BlockLen + BlockLen /\ i <= Len(p)
                                THEN M!Xor(F[k].mem[i], Ks(F[k].fed, k + 1)[i - k * BlockLen])
                                ELSE F[k].mem[i]
        /\ o.mode # "cfb" \/ (k + 1) * BlockLen > Len(p) => F[k + 1].fed = Ks(F[k].fed, k + 1)
        /\ o.mode = "cfb" /\ (k + 1) * BlockLen <= Len(p) =>
              F[k + 1].fed = M!BlockAt(IF yes THEN F[k + 1].mem ELSE p, k)
    <3>1. Streams(F, p, p, yes) /\ Len(p) <= Len(p) /\ k < BlocksOf(Len(p))
      BY <1>1, <1>2, <1>5
    <3> HIDE DEF len, n, Good, P
    <3>2. Placed(F, p, p, yes, k)
      BY <3>1, StepPlaces, Zenon
    <3> QED BY <3>2 DEF Placed
  <2>h. /\ \A i \in 1..Len(dest) :
              HH[k + 1].mem[i] = IF k * BlockLen < i /\ i <= k * BlockLen + BlockLen /\ i <= Len(c)
                                THEN M!Xor(HH[k].mem[i], Ks(HH[k].fed, k + 1)[i - k * BlockLen])
                                ELSE HH[k].mem[i]
        /\ o.mode # "cfb" \/ (k + 1) * BlockLen > Len(c) => HH[k + 1].fed = Ks(HH[k].fed, k + 1)
        /\ o.mode = "cfb" /\ (k + 1) * BlockLen <= Len(c) =>
              HH[k + 1].fed = M!BlockAt(IF own THEN HH[k + 1].mem ELSE c, k)
    <3>1. Streams(HH, dest, c, own) /\ k < BlocksOf(Len(c)) /\ Len(c) <= Len(dest)
      BY <1>2, <1>5
    <3> HIDE DEF len, n, Good, P
    <3>2. Placed(HH, dest, c, own, k)
      BY <3>1, StepPlaces, Zenon
    <3> QED BY <3>2 DEF Placed
  <2>3. /\ F[k + 1].mem \in Seq(M!Byte) /\ Len(F[k + 1].mem) = len
        /\ z \in Nat /\ (k + 1) * BlockLen = z + BlockLen /\ z < len /\ ks \in M!Block
        /\ \A i \in 1..len :
              F[k + 1].mem[i] = IF z < i /\ i <= z + BlockLen /\ i <= len
                                THEN M!Xor(F[k].mem[i], ks[i - z]) ELSE F[k].mem[i]
        /\ o.mode # "cfb" \/ (k + 1) * BlockLen > len => F[k + 1].fed = ks
        /\ o.mode = "cfb" /\ (k + 1) * BlockLen <= len => F[k + 1].fed = M!BlockAt(F[k + 1].mem, k)
    BY <1>2, <2>f
  <2>4. /\ \A i \in 1..Len(dest) :
              HH[k + 1].mem[i] = IF z < i /\ i <= z + BlockLen /\ i <= len
                                THEN M!Xor(HH[k].mem[i], ks[i - z]) ELSE HH[k].mem[i]
        /\ o.mode # "cfb" \/ (k + 1) * BlockLen > len => HH[k + 1].fed = ks
        /\ o.mode = "cfb" /\ (k + 1) * BlockLen <= len =>
              HH[k + 1].fed = M!BlockAt(IF own THEN HH[k + 1].mem ELSE c, k)
    BY <1>2, <2>2, <2>h
  <2> HIDE DEF ks, Good
  <2>5. ASSUME NEW i \in 1..len
        PROVE  /\ i > z => F[k].mem[i] = p[i]
               /\ i <= z + BlockLen => F[k + 1].mem[i] = c[i]
    <3>1. k \in 0..n /\ k + 1 \in 0..n
      BY <1>1, <1>5
    <3>2. /\ \A m \in 0..BlocksOf(Len(p)) : i > m * BlockLen => F[m].mem[i] = p[i]
          /\ \A m \in 0..BlocksOf(Len(p)) :
                i <= m * BlockLen => F[BlocksOf(Len(p))].mem[i] = F[m].mem[i]
      <4>1. Len(p) <= Len(p) /\ i \in 1..Len(p)
        BY <1>1
      <4> QED BY <1>2, <4>1, StreamedFrame, ZenonT(30)
    <3>3. /\ i > z => F[k].mem[i] = p[i]
          /\ i <= (k + 1) * BlockLen => c[i] = F[k + 1].mem[i]
      BY <1>2, <3>1, <3>2
    <3> QED BY <2>3, <3>2, <3>3
  <2>6. ASSUME NEW i \in 1..len
        PROVE  /\ i <= (k + 1) * BlockLen => HH[k + 1].mem[i] = p[i]
               /\ i > (k + 1) * BlockLen => HH[k + 1].mem[i] = c[i]
    <3>1. /\ i <= z => HH[k].mem[i] = p[i]
          /\ i > z => HH[k].mem[i] = c[i]
      BY <2>1 DEF Good
    <3>2. i \in 1..Len(dest)
      BY <1>1, <1>2
    <3>z. z \in Nat /\ (k + 1) * BlockLen = z + BlockLen
      BY <2>3
    <3> HIDE DEF z
    <3>3. CASE i <= z
      BY <2>3, <2>4, <3>1, <3>2, <3>3, Sizes
    <3>4. CASE z < i /\ i <= z + BlockLen
      <4>1. i - z \in 1..BlockLen
        BY <2>3, <3>4, Sizes
      <4>2. ks[i - z] \in M!Byte /\ p[i] \in M!Byte
        BY <2>3, <4>1 DEF M!Block
      <4>3. c[i] = M!Xor(p[i], ks[i - z])
        BY <2>3, <2>5, <3>4
      <4>4. HH[k + 1].mem[i] = M!Xor(c[i], ks[i - z])
        BY <2>4, <3>1, <3>2, <3>4
      <4>5. HH[k + 1].mem[i] = p[i]
        BY <4>2, <4>3, <4>4, XorTwice
      <4>6. i <= (k + 1) * BlockLen
        BY <3>z, <3>4, Sizes
      <4> QED BY <3>z, <4>5, <4>6, Sizes
    <3>5. CASE i > z + BlockLen
      BY <2>3, <2>4, <3>1, <3>2, <3>5, Sizes
    <3> QED BY <2>3, <3>3, <3>4, <3>5, Sizes
  <2>7. ASSUME k + 1 < n
        PROVE  HH[k + 1].fed = F[k + 1].fed
    <3>1. CASE o.mode # "cfb" \/ (k + 1) * BlockLen > len
      BY <2>3, <2>4, <3>1
    <3>2. CASE ~(o.mode # "cfb" \/ (k + 1) * BlockLen > len)
      <4>1. (k + 1) * BlockLen < len
        BY <1>1, <2>7
      <4>2. ~own
        <5>1. o.mode = "cfb" /\ z + BlockLen < len /\ z \in Nat
          BY <2>3, <3>2, <4>1
        <5> HIDE DEF z
        <5> QED BY <1>1, <1>2, <5>1, Sizes
      <4>3. z + BlockLen <= len
        BY <2>3, <4>1, Sizes
      <4>4. /\ M!BlockAt(c, k) \in M!Block /\ M!BlockAt(F[k + 1].mem, k) \in M!Block
            /\ \A j \in 1..BlockLen : M!BlockAt(c, k)[j] = c[z + j]
            /\ \A j \in 1..BlockLen : M!BlockAt(F[k + 1].mem, k)[j] = F[k + 1].mem[z + j]
        <5>1. Len(c) = len /\ Len(F[k + 1].mem) = len /\ F[k + 1].mem \in Seq(M!Byte)
          BY <1>2, <2>3
        <5>2. k * BlockLen + BlockLen <= Len(c) /\ k * BlockLen + BlockLen <= Len(F[k + 1].mem)
          BY <4>3, <5>1
        <5> HIDE DEF len, n, P
        <5> QED BY <5>1, <5>2, BlockAtIs
      <4>5. ASSUME NEW j \in 1..BlockLen
            PROVE  M!BlockAt(c, k)[j] = M!BlockAt(F[k + 1].mem, k)[j]
        <5> HIDE DEF z
        <5>1. z + j \in 1..len /\ z + j <= z + BlockLen
          BY <2>3, <4>3, Sizes
        <5> QED BY <2>5, <4>4, <5>1
      <4>6. M!BlockAt(c, k) = M!BlockAt(F[k + 1].mem, k)
        BY <4>4, <4>5, SameBlock
      <4>7. F[k + 1].fed = M!BlockAt(F[k + 1].mem, k)
            /\ HH[k + 1].fed = M!BlockAt(IF own THEN HH[k + 1].mem ELSE c, k)
        <5>1. o.mode = "cfb" /\ (k + 1) * BlockLen <= len
          <6>1. (k + 1) * BlockLen = z + BlockLen /\ z \in Nat /\ len \in Nat
            BY <1>1, <2>3
          <6> HIDE DEF z, len
          <6> QED BY <3>2, <4>1, <6>1, Sizes
        <5> HIDE DEF z
        <5> QED BY <5>1, <2>3, <2>4
      <4> QED BY <4>2, <4>6, <4>7
    <3> QED BY <3>1, <3>2
  <2>8. Good(k + 1)
    BY <2>6, <2>7 DEF Good
  <2> QED BY <2>8
<1>6. n \in P
  <2>1. n \in 0..n
    BY <1>1
  <2> HIDE DEF P, n
  <2> QED BY <1>1, <1>4, <1>5, <2>1, UpTo
<1>7. \A i \in 1..len : HH[n].mem[i] = p[i]
  <2>1. Good(n)
    BY <1>6
  <2>2. \A i \in 1..len : i <= n * BlockLen
    <3> DEFINE y == n * BlockLen
    <3>1. y \in Nat
      BY <1>1, Times
    <3> QED BY <1>1, <3>1
  <2> QED BY <2>1, <2>2
<1>8. HH[n].mem \in Seq(M!Byte) /\ Len(HH[n].mem) = Len(dest)
  <2>1. n \in 0..BlocksOf(Len(c))
    BY <1>1, <1>2
  <2>2. HH[n] \in States(Len(dest))
    BY <1>2, <2>1 DEF Streams
  <2> QED BY <2>2 DEF States
<1> QED BY <1>7, <1>8

-----------------------------------------------------------------------------
(* The paddings. *)

\* The length without the zeros at the end: the last byte in it is no zero.
LEMMA EndsIs ==
  ASSUME NEW x \in Seq(M!Byte)
  PROVE  /\ M!Ends(x) \in 0..Len(x)
         /\ \A i \in 1..Len(x) : i > M!Ends(x) => x[i] = M!Zero
         /\ M!Ends(x) > 0 => x[M!Ends(x)] # M!Zero
<1> DEFINE n == Len(x)
           Def(f) == f = [k \in 0..n |-> IF k = 0 THEN 0
                                         ELSE IF x[k] = M!Zero THEN f[k - 1] ELSE k]
           F == CHOOSE f : Def(f)
           HH == [y \in Nat \X Nat |-> IF x[y[2]] = M!Zero THEN y[1] ELSE y[2]]
<1>1. M!Ends(x) = F[n]
  BY Zenon DEF M!Ends
<1>2. n \in Nat
  OBVIOUS
<1>3. HH \in [Nat \X Nat -> Nat]
  OBVIOUS
<1>4. PICK f \in [0..n -> Nat] : f[0] = 0 /\ \A k \in 1..n : f[k] = HH[<<f[k - 1], k>>]
  <2> HIDE DEF HH, Def, F, n
  <2>1. \E f \in [0..n -> Nat] : Steps(f, 0, HH, n)
    BY <1>2, <1>3, Recursive
  <2> QED BY <2>1 DEF Steps
<1>5. \A k \in 1..n : f[k - 1] \in Nat /\ f[k] = IF x[k] = M!Zero THEN f[k - 1] ELSE k
  <2>1. ASSUME NEW k \in 1..n
        PROVE  f[k - 1] \in Nat /\ f[k] = IF x[k] = M!Zero THEN f[k - 1] ELSE k
    <3>1. k - 1 \in 0..n /\ k \in Nat
      BY <1>2
    <3>2. f[k - 1] \in Nat /\ <<f[k - 1], k>> \in Nat \X Nat
      BY <3>1
    <3>3. HH[<<f[k - 1], k>>] = IF x[k] = M!Zero THEN f[k - 1] ELSE k
      BY <3>2
    <3> HIDE DEF HH
    <3> QED BY <1>4, <3>2, <3>3
  <2> QED BY <2>1
<1>6. Def(f)
  <2>1. \A k \in 0..n : f[k] = IF k = 0 THEN 0 ELSE IF x[k] = M!Zero THEN f[k - 1] ELSE k
    <3>1. \A k \in 0..n : k = 0 \/ k \in 1..n
      BY <1>2
    <3> HIDE DEF F, Def, HH
    <3> QED BY <1>4, <1>5, <3>1
  <2>2. f = [k \in 0..n |-> f[k]]
    BY <1>4
  <2> QED BY <2>1, <2>2
<1>7. Def(F)
  <2> HIDE DEF Def
  <2> QED BY <1>6
<1> HIDE DEF F, HH
<1>8. \A k \in 0..n : F[k] = IF k = 0 THEN 0 ELSE IF x[k] = M!Zero THEN F[k - 1] ELSE k
  BY <1>7
<1> HIDE DEF Def
<1> DEFINE Q(k) == /\ F[k] \in 0..k
                   /\ \A i \in 1..k : i > F[k] => x[i] = M!Zero
                   /\ F[k] > 0 => x[F[k]] # M!Zero
           P == {k \in Nat : k <= n => Q(k)}
<1>9. 0 \in P
  <2>1. F[0] = 0
    BY <1>2, <1>8
  <2> QED BY <2>1
<1>10. ASSUME NEW k \in Nat, k < n /\ k \in P
       PROVE  k + 1 \in P
  <2>1. /\ F[k] \in 0..k
        /\ \A i \in 1..k : i > F[k] => x[i] = M!Zero
        /\ F[k] > 0 => x[F[k]] # M!Zero
    BY <1>2, <1>10
  <2>2. k + 1 \in 0..n /\ k + 1 # 0 /\ (k + 1) - 1 = k
    BY <1>2, <1>10
  <2>3. F[k + 1] = IF x[k + 1] = M!Zero THEN F[k] ELSE k + 1
    <3>1. F[k + 1] = IF x[k + 1] = M!Zero THEN F[(k + 1) - 1] ELSE k + 1
      BY <1>8, <2>2
    <3> QED BY <2>2, <3>1
  <2>4. /\ F[k + 1] \in 0..(k + 1)
        /\ \A i \in 1..(k + 1) : i > F[k + 1] => x[i] = M!Zero
        /\ F[k + 1] > 0 => x[F[k + 1]] # M!Zero
    <3> HIDE DEF P, n
    <3>1. CASE x[k + 1] = M!Zero
      <4>1. F[k + 1] = F[k]
        BY <2>3, <3>1
      <4>2. \A i \in 1..(k + 1) : i = k + 1 \/ i \in 1..k
        OBVIOUS
      <4> QED BY <2>1, <3>1, <4>1, <4>2
    <3>2. CASE x[k + 1] # M!Zero
      <4>1. F[k + 1] = k + 1
        BY <2>3, <3>2
      <4> QED BY <3>2, <4>1
    <3> QED BY <3>1, <3>2
  <2> QED BY <2>4
<1>11. n \in P
  <2>1. n \in 0..n
    BY <1>2
  <2> HIDE DEF P, n
  <2> QED BY <1>2, <1>9, <1>10, <2>1, UpTo
<1>12. Q(n)
  BY <1>2, <1>11
<1> QED BY <1>1, <1>12

\* ... and only that length is so.
LEMMA EndsAre ==
  ASSUME NEW x \in Seq(M!Byte), NEW e \in 0..Len(x),
         \A i \in 1..Len(x) : i > e => x[i] = M!Zero, e > 0 => x[e] # M!Zero
  PROVE  M!Ends(x) = e
<1> DEFINE d == M!Ends(x)
<1>1. d \in 0..Len(x) /\ (\A i \in 1..Len(x) : i > d => x[i] = M!Zero) /\ (d > 0 => x[d] # M!Zero)
  BY EndsIs
<1> HIDE DEF d
<1>2. ~(d < e)
  BY <1>1
<1>3. ~(e < d)
  BY <1>1
<1>4. d = e
  BY <1>1, <1>2, <1>3
<1> QED BY <1>4 DEF d

\* Zero, Mark and what a count of padding can be are bytes.
LEMMA ByteValues == /\ M!Zero \in M!Byte /\ M!Mark \in M!Byte /\ M!Mark # M!Zero
                    /\ M!Zero = 0
                    /\ \A n \in Nat : n <= 255 => n \in M!Byte /\ n % 256 = n
<1>1. \A n \in Nat : n <= 255 => n % 256 = n
  OBVIOUS
<1> QED BY <1>1 DEF M!Zero, M!Mark, M!Byte

\* The block t is padded to, b, and what is found in it again
PadsTo(p, t, b) == /\ b \in M!Block
                   /\ \A j \in 1..Len(t) : b[j] = t[j]
                   /\ p # "zero" => M!unpad(p, b) = {t}
                   /\ p = "zero" => \A j \in 1..BlockLen : j > Len(t) => b[j] = M!Zero

\* b is t and z.
IsJoin(b, t, z) == b = t \o z

\* A rest t and the padding z fill a block.
LEMMA PartJoined ==
  ASSUME NEW t \in Seq(M!Byte), NEW z \in Seq(M!Byte), NEW b, IsJoin(b, t, z), Len(t) + Len(z) = BlockLen
  PROVE  /\ b \in M!Block /\ b \in Seq(M!Byte) /\ Len(b) = BlockLen
         /\ \A j \in 1..Len(t) : b[j] = t[j]
         /\ \A j \in 1..BlockLen : j > Len(t) => j - Len(t) \in 1..Len(z) /\ b[j] = z[j - Len(t)]
         /\ SubSeq(b, 1, Len(t)) = t
<1>1. /\ t \o z \in Seq(M!Byte) /\ Len(t \o z) = Len(t) + Len(z)
      /\ \A i \in 1..Len(t) : (t \o z)[i] = t[i]
      /\ \A i \in 1..Len(z) : (t \o z)[Len(t) + i] = z[i]
  BY ConcatIs
<1> DEFINE c == t \o z
           m == Len(t)
           l == Len(z)
<1> HIDE DEF c
<1>2. /\ c \in Seq(M!Byte) /\ Len(c) = BlockLen /\ m \in Nat /\ l \in Nat /\ m + l = BlockLen
      /\ \A i \in 1..m : c[i] = t[i]
      /\ \A i \in 1..l : c[m + i] = z[i]
  BY <1>1 DEF c
<1>3. ASSUME NEW j \in 1..BlockLen, j > m
      PROVE  j - m \in 1..l /\ c[j] = z[j - m]
  <2>1. j - m \in 1..l /\ m + (j - m) = j
    BY <1>2, <1>3, Sizes
  <2>2. c[m + (j - m)] = z[j - m]
    BY <1>2, <2>1
  <2> QED BY <2>1, <2>2
<1>4. c \in M!Block
  BY <1>2, BlockIs
<1> DEFINE s == SubSeq(c, 1, m)
<1>5. s \in Seq(M!Byte) /\ Len(s) = m /\ \A i \in 1..m : s[i] = c[i]
  <2>1. /\ s \in Seq(M!Byte) /\ Len(s) = (m - 1) + 1
        /\ \A i \in 1..((m - 1) + 1) : s[i] = c[(i - 1) + 1]
    BY <1>2, SubSeqIs, Sizes
  <2> HIDE DEF s, m
  <2> QED BY <1>2, <2>1
<1> HIDE DEF s
<1>6. s = t
  BY <1>2, <1>5, SameSeq
<1>7. b = c
  BY DEF c, IsJoin
<1> QED BY <1>2, <1>3, <1>4, <1>6, <1>7 DEF s

\* A count of padding in the last byte takes just the padding off.
LEMMA Counted1 ==
  ASSUME NEW b \in Seq(M!Byte), NEW m \in Nat, NEW need \in Nat, need > 0, m + need = Len(b),
         b[Len(b)] = need
  PROVE  /\ M!unpad("ansi", b) = {SubSeq(b, 1, m)}
         /\ (\A i \in (m + 1)..Len(b) : b[i] = need) => M!unpad("pkcs7", b) = {SubSeq(b, 1, m)}
<1> DEFINE n == Len(b)
           count == b[n]
<1>1. n \in Nat /\ count = need /\ ~(count > n) /\ ~(count = 0)
  OBVIOUS
<1>2. M!unpadCount(b) = m
  BY <1>1 DEF M!unpadCount
<1>3. M!unpad("ansi", b) = IF count > n THEN {} ELSE {SubSeq(b, 1, M!unpadCount(b))}
  BY DEF M!unpad
<1>4. M!unpad("pkcs7", b) = IF count > n \/ (\E i \in (n - count + 1)..n : b[i] # b[n]) THEN {}
                            ELSE {SubSeq(b, 1, IF count = 0 THEN n - 1 ELSE M!unpadCount(b))}
  BY DEF M!unpad
<1>5. n - count + 1 = m + 1
  BY <1>1
<1> HIDE DEF count, n
<1>6. ASSUME \A i \in (m + 1)..n : b[i] = need
      PROVE  M!unpad("pkcs7", b) = {SubSeq(b, 1, m)}
  <2>1. ~ (\E i \in (n - count + 1)..n : b[i] # b[n])
    BY <1>1, <1>5, <1>6 DEF count
  <2>2. M!unpad("pkcs7", b) = {SubSeq(b, 1, IF count = 0 THEN n - 1 ELSE M!unpadCount(b))}
    BY <1>1, <1>4, <2>1, Zenon
  <2> QED BY <1>1, <1>2, <2>2
<1>7. M!unpad("ansi", b) = {SubSeq(b, 1, m)}
  BY <1>1, <1>2, <1>3
<1> QED BY <1>6, <1>7 DEF n

\* The block each padding makes of a rest t
Pkcs7Block(t) == t \o M!Filled(BlockLen - Len(t), (BlockLen - Len(t)) % 256)
AnsiBlock(t, fill) == t \o (M!Filled(BlockLen - Len(t) - 1, fill) \o <<(BlockLen - Len(t)) % 256>>)
IsoBlock(t) == t \o (<<M!Mark>> \o M!Filled(BlockLen - Len(t) - 1, M!Zero))
ZeroBlock(t) == t \o M!Filled(BlockLen - Len(t), M!Zero)

\* Each padding of a rest shorter than a block: Pkcs7
LEMMA Pkcs7Is ==
  ASSUME NEW t \in Seq(M!Byte), Len(t) < BlockLen
  PROVE  PadsTo("pkcs7", t, Pkcs7Block(t))
<1> DEFINE b == Pkcs7Block(t)
           m == Len(t)
           need == BlockLen - m
           z == M!Filled(need, need)
<1>1. m \in Nat /\ need \in Nat /\ need > 0 /\ need <= 255 /\ m + need = BlockLen
  BY Sizes
<1>2. need \in M!Byte /\ need % 256 = need
  BY <1>1, ByteValues
<1>3. z \in Seq(M!Byte) /\ Len(z) = need /\ \A i \in 1..need : z[i] = need
  BY <1>1, <1>2, FilledIs
<1>4. IsJoin(b, t, z)
  BY <1>2 DEF IsJoin, Pkcs7Block
<1> HIDE DEF z, need, b
<1>5. /\ b \in M!Block /\ b \in Seq(M!Byte) /\ Len(b) = BlockLen
      /\ \A j \in 1..m : b[j] = t[j]
      /\ \A j \in 1..BlockLen : j > m => j - m \in 1..need /\ b[j] = z[j - m]
      /\ SubSeq(b, 1, m) = t
  BY <1>1, <1>3, <1>4, PartJoined
<1> HIDE DEF m
<1>6. \A j \in 1..BlockLen : j > m => b[j] = need
  BY <1>3, <1>5
<1>7. BlockLen \in 1..BlockLen /\ BlockLen > m /\ \A i \in (m + 1)..BlockLen : i \in 1..BlockLen /\ i > m
  BY <1>1, Sizes
<1>8. b[BlockLen] = need /\ \A i \in (m + 1)..BlockLen : b[i] = need
  BY <1>6, <1>7
<1>9. M!unpad("pkcs7", b) = {SubSeq(b, 1, m)}
  <2>1. /\ b \in Seq(M!Byte) /\ m + need = Len(b) /\ b[Len(b)] = need
        /\ \A i \in (m + 1)..Len(b) : b[i] = need
    BY <1>1, <1>5, <1>8
  <2> QED BY <1>1, <2>1, Counted1
<1>10. PadsTo("pkcs7", t, b)
  BY <1>5, <1>9 DEF PadsTo, m
<1> QED BY <1>10 DEF b

\* Ansi X9.23, whatever fills it
LEMMA AnsiIs ==
  ASSUME NEW t \in Seq(M!Byte), Len(t) < BlockLen, NEW fill \in M!Byte
  PROVE  PadsTo("ansi", t, AnsiBlock(t, fill))
<1> DEFINE b == AnsiBlock(t, fill)
           m == Len(t)
           need == BlockLen - m
           y == M!Filled(need - 1, fill)
           z == y \o <<need>>
<1>1. m \in Nat /\ need \in Nat /\ need > 0 /\ need <= 255 /\ m + need = BlockLen /\ need - 1 \in Nat
  BY Sizes
<1>2. need \in M!Byte /\ need % 256 = need
  BY <1>1, ByteValues
<1>3. y \in Seq(M!Byte) /\ Len(y) = need - 1
  BY <1>1, FilledIs
<1>4. IsJoin(b, t, z)
  BY <1>2 DEF IsJoin, AnsiBlock
<1> HIDE DEF y, b
<1>5. z \in Seq(M!Byte) /\ Len(z) = need /\ z[need] = need
  <2> HIDE DEF need
  <2>1. <<need>> \in Seq(M!Byte) /\ Len(<<need>>) = 1 /\ <<need>>[1] = need
    BY <1>2
  <2> DEFINE w == <<need>>
  <2> HIDE DEF w
  <2>2. z = y \o w
    BY DEF w
  <2>3. z \in Seq(M!Byte) /\ Len(z) = Len(y) + Len(w) /\ \A i \in 1..Len(w) : z[Len(y) + i] = w[i]
    BY <1>3, <2>1, <2>2, ConcatIs DEF w
  <2>4. Len(y) + 1 = need
    BY <1>1, <1>3
  <2> HIDE DEF z
  <2> QED BY <2>1, <2>3, <2>4 DEF w
<1> HIDE DEF z, need
<1>6. /\ b \in M!Block /\ b \in Seq(M!Byte) /\ Len(b) = BlockLen
      /\ \A j \in 1..m : b[j] = t[j]
      /\ \A j \in 1..BlockLen : j > m => j - m \in 1..need /\ b[j] = z[j - m]
      /\ SubSeq(b, 1, m) = t
  BY <1>1, <1>4, <1>5, PartJoined
<1> HIDE DEF m
<1>7. b[BlockLen] = need
  <2>1. BlockLen - m = need /\ BlockLen > m /\ BlockLen \in 1..BlockLen
    BY <1>1, Sizes
  <2> QED BY <1>5, <1>6, <2>1
<1>8. M!unpad("ansi", b) = {SubSeq(b, 1, m)}
  BY <1>1, <1>6, <1>7, Counted1
<1>9. PadsTo("ansi", t, b)
  BY <1>6, <1>8 DEF PadsTo, m
<1> QED BY <1>9 DEF b

\* ISO 7816: the mark is found again behind the zeros, though the rest end in zeros or marks.
LEMMA IsoIs ==
  ASSUME NEW t \in Seq(M!Byte), Len(t) < BlockLen
  PROVE  PadsTo("iso", t, IsoBlock(t))
<1> DEFINE b == IsoBlock(t)
           m == Len(t)
           need == BlockLen - m
           y == M!Filled(need - 1, M!Zero)
           w == <<M!Mark>>
           z == w \o y
<1>1. m \in Nat /\ need \in Nat /\ need > 0 /\ m + need = BlockLen /\ need - 1 \in Nat
  BY Sizes
<1>2. y \in Seq(M!Byte) /\ Len(y) = need - 1 /\ \A i \in 1..(need - 1) : y[i] = M!Zero
  BY <1>1, ByteValues, FilledIs, ZenonT(30)
<1>3. IsJoin(b, t, z)
  BY DEF IsJoin, IsoBlock
<1> HIDE DEF b
<1>4. w \in Seq(M!Byte) /\ Len(w) = 1 /\ w[1] = M!Mark
  BY ByteValues
<1> HIDE DEF y, w, need
<1>5. z \in Seq(M!Byte) /\ Len(z) = need /\ z[1] = M!Mark /\ \A i \in 2..need : z[i] = M!Zero
  <2>1. /\ z \in Seq(M!Byte) /\ Len(z) = Len(w) + Len(y) /\ (\A i \in 1..Len(w) : z[i] = w[i])
        /\ \A i \in 1..Len(y) : z[Len(w) + i] = y[i]
    <3>1. w \in Seq(M!Byte) /\ y \in Seq(M!Byte)
      BY <1>2, <1>4
    <3> QED BY <3>1, ConcatIs
  <2> HIDE DEF z
  <2>2. \A i \in 2..need : i - 1 \in 1..(need - 1) /\ 1 + (i - 1) = i
    BY <1>1
  <2>3. ASSUME NEW i \in 2..need
        PROVE  z[i] = M!Zero
    <3>1. z[1 + (i - 1)] = y[i - 1]
      BY <1>1, <1>2, <1>4, <2>1, <2>2
    <3> QED BY <1>2, <2>2, <3>1
  <2> QED BY <1>1, <1>2, <1>4, <2>1, <2>3
<1> HIDE DEF z
<1>6. /\ b \in M!Block /\ b \in Seq(M!Byte) /\ Len(b) = BlockLen
      /\ \A j \in 1..m : b[j] = t[j]
      /\ \A j \in 1..BlockLen : j > m => j - m \in 1..need /\ b[j] = z[j - m]
      /\ SubSeq(b, 1, m) = t
  BY <1>1, <1>3, <1>5, PartJoined
<1> HIDE DEF m
<1>7. m + 1 \in 1..BlockLen /\ b[m + 1] = M!Mark
  <2>1. m + 1 \in 1..BlockLen /\ m + 1 > m /\ (m + 1) - m = 1
    BY <1>1, Sizes
  <2> QED BY <1>5, <1>6, <2>1
<1>8. \A j \in 1..BlockLen : j > m + 1 => b[j] = M!Zero
  <2>1. ASSUME NEW j \in 1..BlockLen, j > m + 1
        PROVE  b[j] = M!Zero
    <3>1. j - m \in 2..need /\ j > m
      BY <1>1, <2>1, Sizes
    <3> QED BY <1>5, <1>6, <3>1
  <2> QED BY <2>1
<1>9. M!Ends(b) = m + 1
  <2> DEFINE e == m + 1
  <2>1. e \in 0..Len(b) /\ (\A j \in 1..Len(b) : j > e => b[j] = M!Zero) /\ b[e] # M!Zero
    BY <1>1, <1>6, <1>7, <1>8, ByteValues, Sizes
  <2> HIDE DEF e
  <2>2. M!Ends(b) = e
    BY <1>6, <2>1, EndsAre
  <2> QED BY <2>2 DEF e
<1>10. M!unpad("iso", b) = {SubSeq(b, 1, m)}
  <2>1. m + 1 > 0 /\ (m + 1) - 1 = m
    BY <1>1
  <2> QED BY <1>7, <1>9, <2>1 DEF M!unpad
<1>11. PadsTo("iso", t, b)
  BY <1>6, <1>10 DEF PadsTo, m
<1> QED BY <1>11 DEF b

\* Zero: the rest is there, but not where it ends.
LEMMA ZeroIs ==
  ASSUME NEW t \in Seq(M!Byte), Len(t) < BlockLen
  PROVE  PadsTo("zero", t, ZeroBlock(t))
<1> DEFINE b == ZeroBlock(t)
           m == Len(t)
           need == BlockLen - m
           z == M!Filled(need, M!Zero)
<1>1. m \in Nat /\ need \in Nat /\ m + need = BlockLen
  BY Sizes
<1>2. z \in Seq(M!Byte) /\ Len(z) = need /\ \A i \in 1..need : z[i] = M!Zero
  BY <1>1, ByteValues, FilledIs
<1>3. IsJoin(b, t, z)
  BY DEF IsJoin, ZeroBlock
<1> HIDE DEF z, need, b
<1>4. /\ b \in M!Block
      /\ \A j \in 1..m : b[j] = t[j]
      /\ \A j \in 1..BlockLen : j > m => j - m \in 1..need /\ b[j] = z[j - m]
  BY <1>1, <1>2, <1>3, PartJoined
<1>5. PadsTo("zero", t, b)
  BY <1>2, <1>4 DEF PadsTo
<1> QED BY <1>5 DEF b

\* pad() gives one block, and unpad() finds the rest in it.
LEMMA PadIs ==
  ASSUME NEW p \in {"pkcs7", "ansi", "iso", "zero"}, NEW t \in Seq(M!Byte), Len(t) < BlockLen,
         NEW fill \in M!Byte
  PROVE  \E b : M!pad(p, t, BlockLen, fill) = {b} /\ PadsTo(p, t, b)
<1> DEFINE need == BlockLen - Len(t)
<1>1. need \in Nat /\ ~(need < 0) /\ ~(need = 0)
  BY Sizes
<1>2. CASE p = "pkcs7"
  <2> DEFINE b == Pkcs7Block(t)
  <2>1. M!pad("pkcs7", t, BlockLen, fill) = {b}
    BY <1>1 DEF M!pad, Pkcs7Block
  <2>2. PadsTo("pkcs7", t, b)
    BY Pkcs7Is
  <2> HIDE DEF b
  <2> QED BY <1>2, <2>1, <2>2
<1>3. CASE p = "ansi"
  <2> DEFINE b == AnsiBlock(t, fill)
  <2>1. M!pad("ansi", t, BlockLen, fill) = {b}
    BY <1>1 DEF M!pad, AnsiBlock
  <2>2. PadsTo("ansi", t, b)
    BY AnsiIs
  <2> HIDE DEF b
  <2> QED BY <1>3, <2>1, <2>2
<1>4. CASE p = "iso"
  <2> DEFINE b == IsoBlock(t)
  <2>1. M!pad("iso", t, BlockLen, fill) = {b}
    BY <1>1 DEF M!pad, IsoBlock
  <2>2. PadsTo("iso", t, b)
    BY IsoIs
  <2> HIDE DEF b
  <2> QED BY <1>4, <2>1, <2>2
<1>5. CASE p = "zero"
  <2> DEFINE b == ZeroBlock(t)
  <2>1. M!pad("zero", t, BlockLen, fill) = {b}
    BY <1>1 DEF M!pad, ZeroBlock
  <2>2. PadsTo("zero", t, b)
    BY ZeroIs
  <2> HIDE DEF b
  <2> QED BY <1>5, <2>1, <2>2
<1> QED BY <1>2, <1>3, <1>4, <1>5

-----------------------------------------------------------------------------
(* Ecb and Cbc: whole blocks in place. *)

\* A place has one block, and one place in it.
LEMMA Parted ==
  ASSUME NEW j \in Nat, NEW k \in Nat, NEW i \in 1..BlockLen, NEW h \in 1..BlockLen,
         j * BlockLen + i = k * BlockLen + h
  PROVE  j = k /\ i = h
<1>1. j * BlockLen \in Nat /\ k * BlockLen \in Nat
  BY Times
<1>2. /\ j < k => j * BlockLen + BlockLen <= k * BlockLen
      /\ k < j => k * BlockLen + BlockLen <= j * BlockLen
  BY TimesMono
<1> DEFINE x == j * BlockLen
           y == k * BlockLen
<1>3. ~(j < k) /\ ~(k < j)
  <2>1. x \in Nat /\ y \in Nat /\ x + i = y + h /\ (j < k => x + BlockLen <= y) /\ (k < j => y + BlockLen <= x)
    BY <1>1, <1>2
  <2> HIDE DEF x, y
  <2> QED BY <2>1, Sizes
<1>4. j = k
  BY <1>3
<1> QED BY <1>1, <1>4

\* A block written in place: that block, and no other
LEMMA BlockSet ==
  ASSUME NEW mem \in Seq(M!Byte), NEW b \in M!Block, NEW k \in Nat,
         k * BlockLen + BlockLen <= Len(mem)
  PROVE  /\ M!Set(mem, b, k * BlockLen) \in Seq(M!Byte)
         /\ Len(M!Set(mem, b, k * BlockLen)) = Len(mem)
         /\ M!BlockAt(M!Set(mem, b, k * BlockLen), k) = b
         /\ \A j \in Nat : j # k /\ j * BlockLen + BlockLen <= Len(mem) =>
               M!BlockAt(M!Set(mem, b, k * BlockLen), j) = M!BlockAt(mem, j)
         /\ \A i \in 1..Len(mem) : i > k * BlockLen + BlockLen =>
               M!Set(mem, b, k * BlockLen)[i] = mem[i]
<1> DEFINE y == k * BlockLen
           x == M!Set(mem, b, y)
<1>1. y \in Nat /\ b \in Seq(M!Byte) /\ Len(b) = BlockLen
  BY Times, BlockIs
<1>2. /\ x \in Seq(M!Byte) /\ Len(x) = Len(mem)
      /\ \A i \in 1..Len(mem) : x[i] = IF i > y /\ i <= y + Len(b) THEN b[i - y] ELSE mem[i]
  BY <1>1, SetIs
<1> HIDE DEF x
<1>3. M!BlockAt(x, k) = b
  <2>1. /\ M!BlockAt(x, k) \in M!Block
        /\ \A j \in 1..BlockLen : M!BlockAt(x, k)[j] = x[y + j]
    BY <1>2, BlockAtIs
  <2>2. ASSUME NEW j \in 1..BlockLen
        PROVE  x[y + j] = b[j]
    <3> HIDE DEF y
    <3>1. y + j \in 1..Len(mem) /\ y + j > y /\ y + j <= y + BlockLen /\ (y + j) - y = j
      BY <1>1, Sizes DEF y
    <3> QED BY <1>1, <1>2, <3>1
  <2> QED BY <2>1, <2>2, SameBlock
<1>4. ASSUME NEW j \in Nat, j # k, j * BlockLen + BlockLen <= Len(mem)
      PROVE  M!BlockAt(x, j) = M!BlockAt(mem, j)
  <2> DEFINE z == j * BlockLen
  <2>1. /\ M!BlockAt(x, j) \in M!Block /\ M!BlockAt(mem, j) \in M!Block
        /\ \A i \in 1..BlockLen : M!BlockAt(x, j)[i] = x[z + i]
        /\ \A i \in 1..BlockLen : M!BlockAt(mem, j)[i] = mem[z + i]
    BY <1>2, <1>4, BlockAtIs
  <2>2. ASSUME NEW i \in 1..BlockLen
        PROVE  x[z + i] = mem[z + i]
    <3>1. z \in Nat /\ z + i \in 1..Len(mem)
      <4>1. z \in Nat /\ z + BlockLen <= Len(mem)
        BY <1>4, Times
      <4> HIDE DEF z
      <4> QED BY <4>1, Sizes
    <3>2. ~(z + i > y /\ z + i <= y + BlockLen)
      <4>1. ASSUME z + i > y, z + i <= y + BlockLen
            PROVE  FALSE
        <5>1. (z + i) - y \in 1..BlockLen /\ z + i = y + ((z + i) - y)
          <6> HIDE DEF z, y
          <6> QED BY <1>1, <3>1, <4>1, Sizes
        <5> DEFINE h == (z + i) - y
        <5>2. h \in 1..BlockLen /\ j * BlockLen + i = k * BlockLen + h
          BY <5>1
        <5> HIDE DEF h
        <5> QED BY <1>4, <5>2, Parted
      <4> QED BY <4>1
    <3> HIDE DEF y, z
    <3> QED BY <1>1, <1>2, <3>1, <3>2
  <2> QED BY <2>1, <2>2, SameBlock
<1>5. ASSUME NEW i \in 1..Len(mem), i > y + BlockLen
      PROVE  x[i] = mem[i]
  <2> HIDE DEF y
  <2> QED BY <1>1, <1>2, <1>5, Sizes
<1> QED BY <1>2, <1>3, <1>4, <1>5 DEF x

\* Messages with the same blocks have the same bytes.
LEMMA SameStart ==
  ASSUME NEW a \in Seq(M!Byte), NEW b \in Seq(M!Byte), NEW n \in Nat,
         n * BlockLen <= Len(a), n * BlockLen <= Len(b),
         \A j \in Nat : j < n => M!BlockAt(a, j) = M!BlockAt(b, j),
         NEW i \in 1..(n * BlockLen)
  PROVE  a[i] = b[i]
<1> DEFINE p == i - 1
           q == p \div BlockLen
           r == p % BlockLen
           x == n * BlockLen
           y == q * BlockLen
<1>1. x \in Nat /\ i \in Nat /\ i > 0 /\ i <= x
  <2>1. x \in Nat
    BY Times
  <2> HIDE DEF x
  <2> QED BY <2>1 DEF x
<1>2. p \in Nat
  BY <1>1
<1>3. q \in Nat /\ r \in Nat /\ r < BlockLen /\ p = y + r
  BY <1>2, Parts
<1> HIDE DEF q, r
<1>4. y \in Nat /\ (n < q => x + BlockLen <= y) /\ (q < n => y + BlockLen <= x)
  BY <1>3, Times, TimesMono
<1>5. q < n
  <2>1. q = n => y = x
    OBVIOUS
  <2> HIDE DEF x, y
  <2> QED BY <1>1, <1>3, <1>4, <2>1, Sizes
<1>6. y + BlockLen <= Len(a) /\ y + BlockLen <= Len(b)
  <2>1. x <= Len(a) /\ x <= Len(b) /\ Len(a) \in Nat /\ Len(b) \in Nat
    OBVIOUS
  <2> HIDE DEF x, y
  <2> QED BY <1>1, <1>4, <1>5, <2>1, Sizes
<1>7. r + 1 \in 1..BlockLen /\ y + (r + 1) = i
  <2> HIDE DEF y
  <2> QED BY <1>1, <1>3, <1>4, Sizes
<1>8. /\ \A j \in 1..BlockLen : M!BlockAt(a, q)[j] = a[y + j]
      /\ \A j \in 1..BlockLen : M!BlockAt(b, q)[j] = b[y + j]
  BY <1>3, <1>6, BlockAtIs
<1>9. M!BlockAt(a, q) = M!BlockAt(b, q)
  BY <1>3, <1>5
<1> HIDE DEF y, p
<1> QED BY <1>7, <1>8, <1>9

\* xor with a block, twice
LEMMA XoredTwice ==
  ASSUME NEW a \in M!Block, NEW b \in M!Block
  PROVE  /\ M!Xored(a, b) \in M!Block
         /\ M!Xored(M!Xored(a, b), b) = a
<1> DEFINE x == M!Xored(a, b)
           y == M!Xored(x, b)
<1>1. x \in M!Block
  BY XoredBlock
<1>2. y \in M!Block
  BY <1>1, XoredBlock
<1>3. ASSUME NEW c \in M!Block
      PROVE  \A i \in 1..BlockLen : M!Xored(c, b)[i] = M!Xor(c[i], b[i])
  <2>1. c \in Seq(M!Byte) /\ b \in Seq(M!Byte) /\ Len(c) = BlockLen /\ Len(b) = BlockLen
    BY BlockIs
  <2>2. b \in [DOMAIN c -> M!Byte]
    BY <2>1
  <2> QED BY <2>1, <2>2, XoredType
<1>4. \A i \in 1..BlockLen : x[i] = M!Xor(a[i], b[i])
  BY <1>3
<1>5. \A i \in 1..BlockLen : y[i] = M!Xor(x[i], b[i])
  BY <1>1, <1>3
<1> HIDE DEF x, y
<1>6. ASSUME NEW i \in 1..BlockLen
      PROVE  y[i] = a[i]
  <2>1. a[i] \in M!Byte /\ b[i] \in M!Byte
    BY DEF M!Block
  <2> QED BY <1>4, <1>5, <2>1, XorTwice
<1>7. y = a
  BY <1>2, <1>6, SameBlock
<1> QED BY <1>1, <1>7 DEF x, y

\* What block k is xored with before it is encrypted: the block of ciphertext before
Prev(c, k) == IF k = 0 THEN M!Start(o) ELSE M!Next(o, M!BlockAt(c, k - 1))
\* n whole blocks
Whole(w, n) == w \in Seq(M!Byte) /\ n \in Nat /\ Len(w) = n * BlockLen
\* The block of ciphertext that follows c, of block k of w
EncOf(w, c, k) == M!encryptBlock(M!Xored(M!BlockAt(w, k), Prev(c, k)))
\* c is the ciphertext of w, block by block.
Chained(w, c, n) == /\ Whole(w, n) /\ Whole(c, n)
                    /\ \A k \in Nat : k < n => M!BlockAt(c, k) = EncOf(w, c, k)

\* What Cbc xors with is a block.
LEMMA NextBlock ==
  ASSUME Moding, M!Padded(o)
  PROVE  /\ M!Start(o) \in M!Block
         /\ \A b \in M!Block : M!Next(o, b) \in M!Block
<1>1. M!Filled(BlockLen, M!Zero) \in M!Block
  BY FilledIs, ByteValues, Sizes, BlockIs
<1>2. o.mode = "cbc" => o.iv \in M!Block
  BY ModeKind
<1> QED BY <1>1, <1>2 DEF M!Start, M!Next

\* Every block of whole blocks is a block.
LEMMA InWhole ==
  ASSUME NEW w, NEW n, Whole(w, n), NEW k \in Nat, k < n
  PROVE  k * BlockLen + BlockLen <= Len(w) /\ M!BlockAt(w, k) \in M!Block
<1>1. w \in Seq(M!Byte) /\ n \in Nat /\ Len(w) = n * BlockLen
  BY DEF Whole
<1>2. k * BlockLen + BlockLen <= Len(w)
  BY <1>1, TimesMono
<1> QED BY <1>1, <1>2, BlockAtIs

\* ... and what it is xored with.
LEMMA PrevBlock ==
  ASSUME Moding, M!Padded(o), NEW c, NEW n, Whole(c, n), NEW k \in Nat, k <= n
  PROVE  Prev(c, k) \in M!Block
<1>1. CASE k = 0
  BY <1>1, NextBlock DEF Prev
<1>2. CASE k # 0
  <2>1. k - 1 \in Nat /\ k - 1 < n
    BY <1>2 DEF Whole
  <2>2. M!BlockAt(c, k - 1) \in M!Block
    BY <2>1, InWhole
  <2> QED BY <1>2, <2>2, NextBlock DEF Prev
<1> QED BY <1>1, <1>2

-----------------------------------------------------------------------------
(* Encryption. *)

\* Between two turns: the array, of length l, and what is xored next
BlockStates(l) == {s \in [mem : Seq(M!Byte), prev : M!Block] : Len(s.mem) = l}
\* The body of the loop of encryption, and what it does to the blocks
EncStep(s, k) ==
    LET b == M!encryptBlock(M!Xored(M!BlockAt(s.mem, k - 1), s.prev))
    IN  [mem |-> M!Set(s.mem, b, (k - 1) * BlockLen), prev |-> M!Next(o, b)]
EncStepped(s, k, x) ==
    /\ M!BlockAt(x.mem, k) = M!encryptBlock(M!Xored(M!BlockAt(s.mem, k), s.prev))
    /\ x.prev = M!Next(o, M!BlockAt(x.mem, k))
    /\ \A j \in Nat : j # k /\ j * BlockLen + BlockLen <= Len(s.mem) =>
          M!BlockAt(x.mem, j) = M!BlockAt(s.mem, j)

\* A turn of encryption: the block in its place, the others as they were
LEMMA EncStepIs ==
  ASSUME Moding, M!Padded(o), NEW l \in Nat, NEW s \in BlockStates(l), NEW k \in Nat \ {0},
         (k - 1) * BlockLen + BlockLen <= l
  PROVE  EncStep(s, k) \in BlockStates(l) /\ EncStepped(s, k - 1, EncStep(s, k))
<1> DEFINE b == M!encryptBlock(M!Xored(M!BlockAt(s.mem, k - 1), s.prev))
           m == M!Set(s.mem, b, (k - 1) * BlockLen)
           x == EncStep(s, k)
           h == k - 1
<1>1. s.mem \in Seq(M!Byte) /\ s.prev \in M!Block /\ Len(s.mem) = l /\ h \in Nat
  BY DEF BlockStates
<1>2. M!BlockAt(s.mem, h) \in M!Block
  BY <1>1, BlockAtIs
<1>3. b \in M!Block
  BY <1>1, <1>2, XoredBlock, CipherBlock
<1>4. x = [mem |-> m, prev |-> M!Next(o, b)]
  BY Zenon DEF EncStep
<1> HIDE DEF x, b, h
<1>5. M!Next(o, b) \in M!Block
  BY <1>3, NextBlock
<1>6. m = M!Set(s.mem, b, h * BlockLen) /\ h * BlockLen + BlockLen <= Len(s.mem)
  BY <1>1 DEF h
<1> HIDE DEF m
<1>7. /\ m \in Seq(M!Byte) /\ Len(m) = l
      /\ M!BlockAt(m, h) = b
      /\ \A j \in Nat : j # h /\ j * BlockLen + BlockLen <= Len(s.mem) => M!BlockAt(m, j) = M!BlockAt(s.mem, j)
  BY <1>1, <1>3, <1>6, BlockSet
<1>8. x.mem = m /\ x.prev = M!Next(o, b)
  BY <1>4
<1>9. x \in BlockStates(l)
  BY <1>4, <1>5, <1>7 DEF BlockStates
<1>10. EncStepped(s, h, x)
  BY <1>7, <1>8 DEF EncStepped, b, h
<1> QED BY <1>9, <1>10 DEF x, h

\* The states of encryption, turn by turn
LEMMA EncRun ==
  ASSUME Moding, M!Padded(o), NEW w, NEW n, Whole(w, n)
  PROVE  \E F \in [0..n -> BlockStates(Len(w))] :
            /\ F[0].mem = w /\ F[0].prev = M!Start(o)
            /\ \A k \in 1..n : EncStepped(F[k - 1], k - 1, F[k])
            /\ M!EncryptedBlocks(o, w, n) = F[n]
<1> DEFINE Def(f) == f = [k \in 0..n |-> IF k = 0 THEN [mem |-> w, prev |-> M!Start(o)]
                                         ELSE EncStep(f[k - 1], k)]
           F == CHOOSE f : Def(f)
           T == BlockStates(Len(w))
           s0 == [mem |-> w, prev |-> M!Start(o)]
           HH == [x \in T \X Nat |-> IF x[2] \in 1..n THEN EncStep(x[1], x[2]) ELSE s0]
<1>1. w \in Seq(M!Byte) /\ n \in Nat /\ Len(w) = n * BlockLen /\ Len(w) \in Nat
  BY DEF Whole
<1>2. M!EncryptedBlocks(o, w, n) = F[n]
  BY Zenon DEF M!EncryptedBlocks, EncStep
<1>3. s0 \in T
  BY <1>1, NextBlock DEF BlockStates
<1>4. ASSUME NEW s \in T, NEW k \in 1..n
      PROVE  EncStep(s, k) \in T /\ EncStepped(s, k - 1, EncStep(s, k))
  <2>1. k \in Nat \ {0} /\ k - 1 \in Nat /\ k - 1 < n
    BY <1>1
  <2>2. (k - 1) * BlockLen + BlockLen <= Len(w)
    BY <2>1, InWhole
  <2> QED BY <1>1, <2>1, <2>2, EncStepIs
<1>5. HH \in [T \X Nat -> T]
  BY <1>3, <1>4
<1>6. PICK f \in [0..n -> T] : f[0] = s0 /\ \A k \in 1..n : f[k] = HH[<<f[k - 1], k>>]
  <2> HIDE DEF HH, T, s0, Def, F
  <2>1. \E f \in [0..n -> T] : Steps(f, s0, HH, n)
    BY <1>1, <1>3, <1>5, Recursive
  <2> QED BY <2>1 DEF Steps
<1>7. \A k \in 1..n : f[k - 1] \in T /\ f[k] = EncStep(f[k - 1], k)
  <2>1. ASSUME NEW k \in 1..n
        PROVE  f[k - 1] \in T /\ f[k] = EncStep(f[k - 1], k)
    <3>1. f[k - 1] \in T /\ <<f[k - 1], k>> \in T \X Nat
      BY <1>1
    <3>2. HH[<<f[k - 1], k>>] = EncStep(f[k - 1], k)
      BY <3>1
    <3> HIDE DEF HH, T
    <3> QED BY <1>6, <3>1, <3>2
  <2> QED BY <2>1
<1> HIDE DEF HH, T
<1>8. Def(f)
  <2>1. \A k \in 0..n : f[k] = IF k = 0 THEN s0 ELSE EncStep(f[k - 1], k)
    <3> HIDE DEF s0, F, Def
    <3>1. \A k \in 0..n : k = 0 \/ k \in 1..n
      BY <1>1
    <3> QED BY <1>6, <1>7, <3>1
  <2>2. f = [k \in 0..n |-> f[k]]
    BY <1>6
  <2> QED BY <2>1, <2>2
<1>9. Def(F)
  <2> HIDE DEF Def
  <2> QED BY <1>8
<1> HIDE DEF F
<1>10. /\ \A k \in 0..n : F[k] = IF k = 0 THEN s0 ELSE EncStep(F[k - 1], k)
       /\ F = [k \in 0..n |-> F[k]]
  BY <1>9
<1> HIDE DEF Def, s0
<1> DEFINE P == {k \in Nat : k <= n => F[k] \in T}
<1>11. 0 \in P
  <2>1. 0 \in 0..n
    BY <1>1
  <2> QED BY <1>3, <1>10, <2>1
<1>12. ASSUME NEW k \in Nat, k < n /\ k \in P
       PROVE  k + 1 \in P
  <2>1. k + 1 \in 0..n /\ k + 1 \in 1..n /\ (k + 1) - 1 = k /\ k + 1 # 0 /\ F[k] \in T
    BY <1>1, <1>12
  <2>2. F[k + 1] = EncStep(F[(k + 1) - 1], k + 1)
    BY <1>10, <2>1
  <2>3. F[k + 1] \in T
    BY <1>4, <2>1, <2>2
  <2> QED BY <2>3
<1>13. \A k \in 0..n : k \in P
  <2> HIDE DEF P
  <2> QED BY <1>1, <1>11, <1>12, UpTo
<1>14. \A k \in 0..n : F[k] \in T
  BY <1>13
<1>15. F \in [0..n -> T]
  BY <1>10, <1>14
<1>16. \A k \in 1..n : EncStepped(F[k - 1], k - 1, F[k])
  <2>1. ASSUME NEW k \in 1..n
        PROVE  EncStepped(F[k - 1], k - 1, F[k])
    <3>1. k \in 0..n /\ k - 1 \in 0..n /\ k # 0
      BY <1>1
    <3>2. F[k] = EncStep(F[k - 1], k) /\ F[k - 1] \in T
      BY <1>10, <1>14, <3>1
    <3> QED BY <1>4, <3>2
  <2> QED BY <2>1
<1>17. F[0].mem = w /\ F[0].prev = M!Start(o)
  <2>1. 0 \in 0..n
    BY <1>1
  <2>2. F[0] = s0
    BY <1>10, <2>1
  <2> QED BY <2>2 DEF s0
<1> QED BY <1>2, <1>15, <1>16, <1>17 DEF T

\* Each block is the cipher's of the plaintext's and what went before.
LEMMA EncChained ==
  ASSUME Moding, M!Padded(o), NEW w, NEW n, Whole(w, n)
  PROVE  /\ Chained(w, M!EncryptedBlocks(o, w, n).mem, n)
         /\ M!EncryptedBlocks(o, w, n).prev = Prev(M!EncryptedBlocks(o, w, n).mem, n)
<1>1. w \in Seq(M!Byte) /\ n \in Nat /\ Len(w) = n * BlockLen
  BY DEF Whole
<1>2. PICK F \in [0..n -> BlockStates(Len(w))] :
            /\ F[0].mem = w /\ F[0].prev = M!Start(o)
            /\ \A k \in 1..n : EncStepped(F[k - 1], k - 1, F[k])
            /\ M!EncryptedBlocks(o, w, n) = F[n]
  BY EncRun
<1> DEFINE c(k) == F[k].mem
           Good(k) == /\ \A j \in Nat : j < k => M!BlockAt(c(k), j) = EncOf(w, c(k), j)
                      /\ \A j \in Nat : k <= j /\ j < n => M!BlockAt(c(k), j) = M!BlockAt(w, j)
                      /\ F[k].prev = Prev(c(k), k)
           P == {k \in Nat : k <= n => Good(k)}
<1>3. \A k \in 0..n : Whole(c(k), n)
  <2>1. \A k \in 0..n : F[k] \in BlockStates(Len(w))
    BY <1>2
  <2> QED BY <1>1, <2>1 DEF BlockStates, Whole
<1> HIDE DEF c
<1>4. 0 \in P
  <2>1. c(0) = w /\ F[0].prev = M!Start(o)
    BY <1>2 DEF c
  <2>2. Good(0)
    BY <2>1 DEF Prev
  <2> HIDE DEF Good
  <2> QED BY <2>2
<1>5. ASSUME NEW k \in Nat, k < n /\ k \in P
      PROVE  k + 1 \in P
  <2>1. Good(k)
    BY <1>1, <1>5
  <2>2. k \in 0..n /\ k + 1 \in 0..n /\ k + 1 \in 1..n /\ (k + 1) - 1 = k
    BY <1>1, <1>5
  <2>3. EncStepped(F[k], k, F[k + 1])
    <3>1. EncStepped(F[(k + 1) - 1], (k + 1) - 1, F[k + 1])
      BY <1>2, <2>2
    <3> QED BY <2>2, <3>1
  <2>4. \A j \in Nat : j < n => j * BlockLen + BlockLen <= Len(c(k))
    BY <1>3, <2>2, InWhole
  <2>5. /\ M!BlockAt(c(k + 1), k) = M!encryptBlock(M!Xored(M!BlockAt(c(k), k), F[k].prev))
        /\ F[k + 1].prev = M!Next(o, M!BlockAt(c(k + 1), k))
        /\ \A j \in Nat : j # k /\ j < n => M!BlockAt(c(k + 1), j) = M!BlockAt(c(k), j)
    BY <2>3, <2>4 DEF EncStepped, c
  <2>6. ASSUME NEW j \in Nat, j <= k
        PROVE  Prev(c(k + 1), j) = Prev(c(k), j)
    <3>1. CASE j = 0
      BY <3>1 DEF Prev
    <3>2. CASE j # 0
      <4>1. j - 1 \in Nat /\ j - 1 # k /\ j - 1 < n
        BY <1>1, <1>5, <2>6, <3>2
      <4> QED BY <2>5, <3>2, <4>1 DEF Prev
    <3> QED BY <3>1, <3>2
  <2>7. ASSUME NEW j \in Nat, j < k + 1
        PROVE  M!BlockAt(c(k + 1), j) = EncOf(w, c(k + 1), j)
    <3>1. CASE j = k
      <4>1. M!BlockAt(c(k), k) = M!BlockAt(w, k) /\ F[k].prev = Prev(c(k), k)
        BY <1>5, <2>1
      <4>2. Prev(c(k + 1), k) = Prev(c(k), k)
        BY <2>6
      <4> QED BY <2>5, <3>1, <4>1, <4>2 DEF EncOf
    <3>2. CASE j # k
      <4>1. j < k /\ j <= k /\ j < n
        BY <1>1, <1>5, <2>7, <3>2
      <4>2. M!BlockAt(c(k), j) = EncOf(w, c(k), j) /\ M!BlockAt(c(k + 1), j) = M!BlockAt(c(k), j)
        BY <2>1, <2>5, <3>2, <4>1
      <4> QED BY <2>6, <4>1, <4>2 DEF EncOf
    <3> QED BY <3>1, <3>2
  <2>8. \A j \in Nat : k + 1 <= j /\ j < n => M!BlockAt(c(k + 1), j) = M!BlockAt(w, j)
    <3>1. \A j \in Nat : k + 1 <= j => j # k /\ k <= j
      BY <1>5
    <3> QED BY <2>1, <2>5, <3>1
  <2>9. F[k + 1].prev = Prev(c(k + 1), k + 1)
    BY <2>2, <2>5 DEF Prev
  <2>10. Good(k + 1)
    BY <2>7, <2>8, <2>9
  <2> HIDE DEF Good
  <2> QED BY <2>10
<1>6. n \in P
  <2>1. n \in 0..n
    BY <1>1
  <2> HIDE DEF P
  <2> QED BY <1>1, <1>4, <1>5, <2>1, UpTo
<1>7. Good(n)
  BY <1>1, <1>6
<1>8. Chained(w, c(n), n) /\ F[n].prev = Prev(c(n), n)
  BY <1>1, <1>3, <1>7 DEF Chained
<1> QED BY <1>2, <1>8 DEF c

\* A block more at the end leaves those before.
LEMMA WholeJoin ==
  ASSUME NEW w, NEW n, Whole(w, n), NEW b \in M!Block
  PROVE  /\ Whole(w \o b, n + 1)
         /\ \A j \in Nat : j < n => M!BlockAt(w \o b, j) = M!BlockAt(w, j)
         /\ M!BlockAt(w \o b, n) = b
<1> DEFINE x == w \o b
           y == n * BlockLen
<1>1. w \in Seq(M!Byte) /\ n \in Nat /\ Len(w) = y /\ b \in Seq(M!Byte) /\ Len(b) = BlockLen
  BY BlockIs DEF Whole
<1>2. /\ x \in Seq(M!Byte) /\ Len(x) = Len(w) + Len(b)
      /\ \A i \in 1..Len(w) : x[i] = w[i]
      /\ \A i \in 1..Len(b) : x[Len(w) + i] = b[i]
  <2>1. w \in Seq(M!Byte) /\ b \in Seq(M!Byte)
    BY <1>1
  <2> HIDE DEF y
  <2> QED BY <2>1, ConcatIs
<1>3. y \in Nat /\ (n + 1) * BlockLen = y + BlockLen
  BY <1>1, Times
<1> HIDE DEF x
<1>4. Whole(x, n + 1)
  <2> HIDE DEF y
  <2> QED BY <1>1, <1>2, <1>3, Sizes DEF Whole
<1>5. ASSUME NEW j \in Nat, j < n
      PROVE  M!BlockAt(x, j) = M!BlockAt(w, j)
  <2> DEFINE z == j * BlockLen
  <2>1. z \in Nat /\ z + BlockLen <= Len(w) /\ z + BlockLen <= Len(x)
    <3>1. z \in Nat /\ z + BlockLen <= y
      BY <1>1, <1>5, Times, TimesMono
    <3> HIDE DEF z, y
    <3> QED BY <1>1, <1>2, <1>3, <3>1, Sizes
  <2>2. /\ M!BlockAt(x, j) \in M!Block /\ M!BlockAt(w, j) \in M!Block
        /\ \A i \in 1..BlockLen : M!BlockAt(x, j)[i] = x[z + i]
        /\ \A i \in 1..BlockLen : M!BlockAt(w, j)[i] = w[z + i]
    BY <1>1, <1>2, <2>1, BlockAtIs
  <2>3. \A i \in 1..BlockLen : z + i \in 1..Len(w)
    <3> HIDE DEF z, y
    <3> QED BY <1>1, <1>3, <2>1, Sizes
  <2> HIDE DEF z
  <2> QED BY <1>2, <2>2, <2>3, SameBlock
<1>6. M!BlockAt(x, n) = b
  <2>1. y + BlockLen <= Len(x)
    <3> HIDE DEF y
    <3> QED BY <1>1, <1>2, <1>3, Sizes
  <2>2. /\ M!BlockAt(x, n) \in M!Block
        /\ \A i \in 1..BlockLen : M!BlockAt(x, n)[i] = x[y + i]
    BY <1>1, <1>2, <2>1, BlockAtIs
  <2> HIDE DEF y
  <2> QED BY <1>1, <1>2, <2>2, SameBlock
<1> QED BY <1>4, <1>5, <1>6 DEF x

\* ... in the plaintext and in the ciphertext.
LEMMA ChainAppend ==
  ASSUME Moding, M!Padded(o), NEW w, NEW c, NEW n, Chained(w, c, n), NEW b \in M!Block
  PROVE  Chained(w \o b, c \o M!encryptBlock(M!Xored(b, Prev(c, n))), n + 1)
<1> DEFINE d == M!encryptBlock(M!Xored(b, Prev(c, n)))
           x == w \o b
           y == c \o d
<1>1. Whole(w, n) /\ Whole(c, n) /\ n \in Nat /\ \A k \in Nat : k < n => M!BlockAt(c, k) = EncOf(w, c, k)
  BY DEF Chained, Whole
<1>2. Prev(c, n) \in M!Block
  BY <1>1, PrevBlock
<1>3. d \in M!Block
  BY <1>2, XoredBlock, CipherBlock
<1>4. /\ Whole(x, n + 1) /\ M!BlockAt(x, n) = b
      /\ \A j \in Nat : j < n => M!BlockAt(x, j) = M!BlockAt(w, j)
  BY <1>1, WholeJoin
<1>5. /\ Whole(y, n + 1) /\ M!BlockAt(y, n) = d
      /\ \A j \in Nat : j < n => M!BlockAt(y, j) = M!BlockAt(c, j)
  <2> HIDE DEF d
  <2> QED BY <1>1, <1>3, WholeJoin
<1> HIDE DEF x, y
<1>6. ASSUME NEW j \in Nat, j <= n
      PROVE  Prev(y, j) = Prev(c, j)
  <2>1. CASE j = 0
    BY <2>1 DEF Prev
  <2>2. CASE j # 0
    <3>1. j - 1 \in Nat /\ j - 1 < n
      BY <1>1, <1>6, <2>2
    <3> QED BY <1>5, <2>2, <3>1 DEF Prev
  <2> QED BY <2>1, <2>2
<1>7. ASSUME NEW k \in Nat, k < n + 1
      PROVE  M!BlockAt(y, k) = EncOf(x, y, k)
  <2>1. CASE k = n
    BY <1>1, <1>4, <1>5, <1>6, <2>1 DEF EncOf, d
  <2>2. CASE k # n
    <3>1. k < n /\ k <= n
      BY <1>1, <1>7, <2>2
    <3>2. M!BlockAt(y, k) = EncOf(w, c, k)
      BY <1>1, <1>5, <3>1
    <3> QED BY <1>4, <1>6, <3>1, <3>2 DEF EncOf
  <2> QED BY <2>1, <2>2
<1>8. Chained(x, y, n + 1)
  BY <1>4, <1>5, <1>7 DEF Chained
<1> QED BY <1>8 DEF x, y, d

\* The plaintext's whole blocks and what is left
Cut(p, w, q, t) == /\ Whole(w, q) /\ t \in Seq(M!Byte) /\ Len(t) < BlockLen
                   /\ Len(p) = Len(w) + Len(t)
                   /\ \A i \in 1..Len(w) : p[i] = w[i]
                   /\ \A i \in 1..Len(t) : p[Len(w) + i] = t[i]
Bare(p, e, q) == o.pad = "zero" /\ Len(p) % BlockLen = 0 /\ Chained(p, e, q)
Sealed(p, e, w, q, t, b) == /\ Cut(p, w, q, t)
                            /\ ~(o.pad = "zero" /\ Len(p) % BlockLen = 0)
                            /\ PadsTo(o.pad, t, b) /\ Chained(w \o b, e, q + 1)

\* encryptInto() cuts the plaintext into whole blocks and a rest.
LEMMA CutIs ==
  ASSUME NEW p \in Seq(M!Byte), NEW q, q = Len(p) \div BlockLen
  PROVE  /\ Cut(p, SubSeq(p, 1, q * BlockLen), q, SubSeq(p, q * BlockLen + 1, Len(p)))
         /\ q \in Nat /\ q * BlockLen = Len(p) - (Len(p) % BlockLen)
         /\ Len(p) % BlockLen = 0 => SubSeq(p, 1, q * BlockLen) = p
<1> DEFINE len == Len(p)
           r == len % BlockLen
           y == q * BlockLen
           w == SubSeq(p, 1, y)
           t == SubSeq(p, y + 1, len)
<1>1. len \in Nat
  OBVIOUS
<1>2. q \in Nat /\ r \in Nat /\ r < BlockLen /\ len = y + r
  BY <1>1, Parts
<1>3. y \in Nat
  BY <1>2, Times
<1> HIDE DEF r, y
<1>4. w \in Seq(M!Byte) /\ Len(w) = y /\ \A i \in 1..y : w[i] = p[i]
  <2>1. /\ w \in Seq(M!Byte) /\ Len(w) = (y - 1) + 1
        /\ \A i \in 1..((y - 1) + 1) : w[i] = p[(i - 1) + 1]
    BY <1>1, <1>2, <1>3, SubSeqIs
  <2> HIDE DEF w
  <2> QED BY <1>3, <2>1
<1>5. t \in Seq(M!Byte) /\ Len(t) = r /\ \A i \in 1..r : t[i] = p[y + i]
  <2>1. /\ t \in Seq(M!Byte) /\ Len(t) = (len - (y + 1)) + 1
        /\ \A i \in 1..((len - (y + 1)) + 1) : t[i] = p[(i - 1) + (y + 1)]
    BY <1>1, <1>2, <1>3, SubSeqIs
  <2>2. (len - (y + 1)) + 1 = r /\ \A i \in 1..r : (i - 1) + (y + 1) = y + i
    BY <1>1, <1>2, <1>3
  <2> HIDE DEF t
  <2> QED BY <2>1, <2>2
<1> HIDE DEF w, t
<1>6. Whole(w, q)
  BY <1>2, <1>4 DEF Whole, y
<1>7. Cut(p, w, q, t)
  BY <1>2, <1>4, <1>5, <1>6 DEF Cut
<1>8. ASSUME r = 0
      PROVE  w = p
  BY <1>1, <1>2, <1>3, <1>4, <1>8, SameSeq
<1>9. y = len - r
  BY <1>1, <1>2, <1>3
<1> QED BY <1>2, <1>7, <1>8, <1>9 DEF w, t, y, r

\* padSize() of what it asks: nothing only for Zero behind whole blocks
LEMMA PadSizeIs ==
  ASSUME Moding, M!Padded(o), NEW len \in Nat
  PROVE  M!padSize(o.pad, M!LastSize(len), BlockLen) =
            IF o.pad = "zero" /\ len % BlockLen = 0 THEN 0 ELSE BlockLen
<1> DEFINE r == len % BlockLen
<1>1. r \in Nat /\ r < BlockLen
  BY Parts
<1>2. M!LastSize(len) = IF r = 0 THEN BlockLen ELSE r
  BY DEF M!LastSize
<1> HIDE DEF r
<1> QED BY <1>1, <1>2, Sizes DEF M!padSize, r

\* encryptInto() of Ecb and Cbc: the chain of the padded plaintext
LEMMA SentIs ==
  ASSUME Moding, M!Padded(o), NEW p \in Seq(M!Byte), NEW fill \in M!Byte,
         NEW e \in M!encryptPadded(o, p, fill)
  PROVE  \/ \E q : Bare(p, e, q)
         \/ \E w, q, t, b : Sealed(p, e, w, q, t, b)
<1> DEFINE q == Len(p) \div BlockLen
           y == q * BlockLen
           safeLen == Len(p) - (Len(p) % BlockLen)
           w == SubSeq(p, 1, y)
           t == SubSeq(p, y + 1, Len(p))
           s == M!EncryptedBlocks(o, w, q)
           bare == o.pad = "zero" /\ Len(p) % BlockLen = 0
<1>1. /\ Cut(p, w, q, t) /\ q \in Nat /\ y = safeLen /\ (Len(p) % BlockLen = 0 => w = p)
  BY CutIs
<1>2. safeLen \div BlockLen = q
  <2>1. (q * BlockLen + 0) \div BlockLen = q
    BY <1>1, Sizes, PartsAre
  <2>2. y + 0 = y
    BY <1>1, Times, SMTT(30)
  <2> QED BY <1>1, <2>1, <2>2
<1>3. Whole(w, q)
  BY <1>1 DEF Cut
<1>4. M!padSize(o.pad, M!LastSize(Len(p)), BlockLen) = IF bare THEN 0 ELSE BlockLen
  BY PadSizeIs
<1>5. M!EncryptedBlocks(o, SubSeq(p, 1, safeLen), safeLen \div BlockLen) = s
  BY <1>1, <1>2
<1>6. e \in IF M!padSize(o.pad, M!LastSize(Len(p)), BlockLen) = 0 THEN {s.mem}
            ELSE {s.mem \o M!encryptBlock(M!Xored(last, s.prev)) :
                     last \in M!pad(o.pad, SubSeq(p, safeLen + 1, Len(p)), BlockLen, fill)}
  BY <1>5, Zenon DEF M!encryptPadded
<1>7. SubSeq(p, safeLen + 1, Len(p)) = t
  BY <1>1
<1>8. Chained(w, s.mem, q) /\ s.prev = Prev(s.mem, q)
  <2> HIDE DEF w, q
  <2> QED BY <1>3, EncChained
<1> HIDE DEF w, t, s, q, safeLen
<1>9. CASE bare
  <2>1. e = s.mem
    BY <1>4, <1>6, <1>9
  <2>2. Bare(p, e, q)
    BY <1>1, <1>8, <1>9, <2>1 DEF Bare
  <2> QED BY <2>2
<1>10. CASE ~bare
  <2>1. t \in Seq(M!Byte) /\ Len(t) < BlockLen /\ o.pad \in {"pkcs7", "ansi", "iso", "zero"}
    BY <1>1, ModeKind DEF Cut, M!Padded
  <2>2. PICK b : M!pad(o.pad, t, BlockLen, fill) = {b} /\ PadsTo(o.pad, t, b)
    BY <2>1, PadIs
  <2>3. e = s.mem \o M!encryptBlock(M!Xored(b, s.prev))
    <3>1. ~(M!padSize(o.pad, M!LastSize(Len(p)), BlockLen) = 0)
      BY <1>4, <1>10, Sizes
    <3>2. M!pad(o.pad, SubSeq(p, safeLen + 1, Len(p)), BlockLen, fill) = {b}
      BY <1>7, <2>2
    <3>3. e \in {s.mem \o M!encryptBlock(M!Xored(last, s.prev)) : last \in {b}}
      BY <1>6, <3>1, <3>2, Zenon
    <3> QED BY <3>3, Zenon
  <2>4. b \in M!Block
    BY <2>2 DEF PadsTo
  <2>5. Chained(w \o b, e, q + 1)
    BY <1>8, <2>3, <2>4, ChainAppend
  <2>6. Sealed(p, e, w, q, t, b)
    BY <1>1, <1>10, <2>2, <2>5 DEF Sealed
  <2> QED BY <2>6
<1> QED BY <1>9, <1>10

\* A call wrote what encryptSize() announced.
LEMMA SealedSize ==
  ASSUME Moding, M!Padded(o), NEW p \in Seq(M!Byte), NEW fill \in M!Byte,
         NEW e \in M!encryptPadded(o, p, fill)
  PROVE  e \in Seq(M!Byte) /\ Len(e) = M!encryptSize(o, Len(p))
<1> DEFINE r == Len(p) % BlockLen
<1>1. Len(p) \in Nat /\ r \in Nat /\ r < BlockLen
  <2>1. Len(p) \in Nat
    OBVIOUS
  <2> QED BY <2>1, Parts
<1>2. M!encryptSize(o, Len(p)) = (IF o.pad = "zero" /\ r = 0 THEN 0 ELSE BlockLen) - r + Len(p)
  BY <1>1, PadSizeIs DEF M!encryptSize
<1>3. CASE \E q : Bare(p, e, q)
  <2>1. PICK q : Bare(p, e, q)
    BY <1>3
  <2>2. e \in Seq(M!Byte) /\ Len(e) = Len(p) /\ o.pad = "zero" /\ r = 0
    BY <2>1 DEF Bare, Chained, Whole
  <2> HIDE DEF r
  <2> QED BY <1>1, <1>2, <2>2
<1>4. CASE \E w, q, t, b : Sealed(p, e, w, q, t, b)
  <2>1. PICK w, q, t, b : Sealed(p, e, w, q, t, b)
    BY <1>4
  <2>2. e \in Seq(M!Byte) /\ Len(e) = (q + 1) * BlockLen /\ ~(o.pad = "zero" /\ r = 0)
    BY <2>1 DEF Sealed, Chained, Whole
  <2>3. q \in Nat /\ Len(w) = q * BlockLen /\ Len(t) \in Nat /\ Len(t) < BlockLen
        /\ Len(p) = q * BlockLen + Len(t)
    BY <2>1 DEF Sealed, Cut, Whole
  <2>4. r = Len(t)
    BY <2>3, PartsAre
  <2> DEFINE y == q * BlockLen
  <2>5. y \in Nat /\ (q + 1) * BlockLen = y + BlockLen
    BY <2>3, Times
  <2> HIDE DEF r, y
  <2>6. Len(e) = y + BlockLen /\ Len(p) = y + r
    BY <2>2, <2>3, <2>4, <2>5 DEF y
  <2> QED BY <1>1, <1>2, <2>2, <2>5, <2>6, Sizes
<1> QED BY <1>3, <1>4, SentIs

-----------------------------------------------------------------------------
(* Decryption. *)

\* decryptBlock() of a block is a block.
LEMMA DecipherBlock ==
  ASSUME NEW b \in M!Block
  PROVE  M!decryptBlock(b) \in M!Block
BY CryptAssumption DEF M!decryptBlock

\* The body of the loop of decryption, and what it does to the blocks
DecStep(s, k, enc, same) ==
    LET b == M!Xored(M!decryptBlock(M!BlockAt(s.mem, k - 1)), s.prev)
    IN  [mem |-> M!Set(s.mem, b, (k - 1) * BlockLen),
         prev |-> M!Next(o, IF same THEN b ELSE M!BlockAt(enc, k - 1))]
DecStepped(s, k, x, enc, same) ==
    /\ M!BlockAt(x.mem, k) = M!Xored(M!decryptBlock(M!BlockAt(s.mem, k)), s.prev)
    /\ o.mode = "ecb" \/ ~same => x.prev = M!Next(o, M!BlockAt(enc, k))
    /\ \A j \in Nat : j # k /\ j * BlockLen + BlockLen <= Len(s.mem) =>
          M!BlockAt(x.mem, j) = M!BlockAt(s.mem, j)
    /\ \A i \in 1..Len(s.mem) : i > k * BlockLen + BlockLen => x.mem[i] = s.mem[i]

\* x is mem with b as its block k.
BlockWritten(x, mem, b, k) ==
    /\ x \in Seq(M!Byte) /\ Len(x) = Len(mem)
    /\ M!BlockAt(x, k) = b
    /\ \A j \in Nat : j # k /\ j * BlockLen + BlockLen <= Len(mem) =>
          M!BlockAt(x, j) = M!BlockAt(mem, j)
    /\ \A i \in 1..Len(mem) : i > k * BlockLen + BlockLen => x[i] = mem[i]

\* BlockSet, by name
LEMMA SetWritten ==
  ASSUME NEW mem \in Seq(M!Byte), NEW b \in M!Block, NEW k \in Nat,
         k * BlockLen + BlockLen <= Len(mem)
  PROVE  BlockWritten(M!Set(mem, b, k * BlockLen), mem, b, k)
<1>1. /\ M!Set(mem, b, k * BlockLen) \in Seq(M!Byte)
      /\ Len(M!Set(mem, b, k * BlockLen)) = Len(mem)
      /\ M!BlockAt(M!Set(mem, b, k * BlockLen), k) = b
      /\ \A j \in Nat : j # k /\ j * BlockLen + BlockLen <= Len(mem) =>
            M!BlockAt(M!Set(mem, b, k * BlockLen), j) = M!BlockAt(mem, j)
      /\ \A i \in 1..Len(mem) : i > k * BlockLen + BlockLen =>
            M!Set(mem, b, k * BlockLen)[i] = mem[i]
  BY BlockSet
<1> QED BY <1>1, Zenon DEF BlockWritten

\* A turn of decryption; in one array the plaintext is what follows, if it is Cbc.
LEMMA DecStepIs ==
  ASSUME Moding, M!Padded(o), NEW l \in Nat, NEW s \in BlockStates(l), NEW k \in Nat \ {0},
         (k - 1) * BlockLen + BlockLen <= l, NEW enc, NEW same \in BOOLEAN,
         M!BlockAt(enc, k - 1) \in M!Block
  PROVE  /\ DecStep(s, k, enc, same) \in BlockStates(l)
         /\ DecStepped(s, k - 1, DecStep(s, k, enc, same), enc, same)
<1> DEFINE b == M!Xored(M!decryptBlock(M!BlockAt(s.mem, k - 1)), s.prev)
           m == M!Set(s.mem, b, (k - 1) * BlockLen)
           c == IF same THEN b ELSE M!BlockAt(enc, k - 1)
           x == DecStep(s, k, enc, same)
           h == k - 1
<1>1. s.mem \in Seq(M!Byte) /\ s.prev \in M!Block /\ Len(s.mem) = l /\ h \in Nat
  BY DEF BlockStates
<1>2. M!BlockAt(s.mem, h) \in M!Block
  BY <1>1, BlockAtIs
<1>3. b \in M!Block
  BY <1>1, <1>2, XoredBlock, DecipherBlock
<1>4. x = [mem |-> m, prev |-> M!Next(o, c)]
  BY Zenon DEF DecStep
<1> HIDE DEF x, b, h
<1>5. c \in M!Block
  BY <1>3
<1>6. o.mode = "ecb" \/ ~same => M!Next(o, c) = M!Next(o, M!BlockAt(enc, h))
  BY DEF M!Next, h
<1> HIDE DEF c
<1>7. M!Next(o, c) \in M!Block
  BY <1>5, NextBlock
<1>8. m = M!Set(s.mem, b, h * BlockLen) /\ h * BlockLen + BlockLen <= Len(s.mem)
  BY <1>1 DEF h
<1> HIDE DEF m
<1>9. /\ m \in Seq(M!Byte) /\ Len(m) = l
      /\ M!BlockAt(m, h) = b
      /\ \A j \in Nat : j # h /\ j * BlockLen + BlockLen <= Len(s.mem) => M!BlockAt(m, j) = M!BlockAt(s.mem, j)
      /\ \A i \in 1..Len(s.mem) : i > h * BlockLen + BlockLen => m[i] = s.mem[i]
  <2> DEFINE a == s.mem
  <2>1. a \in Seq(M!Byte) /\ b \in M!Block /\ h \in Nat /\ h * BlockLen + BlockLen <= Len(a)
        /\ Len(a) = l
    BY <1>1, <1>3, <1>8
  <2>2. m = M!Set(a, b, h * BlockLen)
    BY <1>8
  <2> HIDE DEF a
  <2>3. BlockWritten(M!Set(a, b, h * BlockLen), a, b, h)
    BY <2>1, SetWritten
  <2>4. BlockWritten(m, a, b, h)
    BY <2>2, <2>3
  <2> QED BY <2>1, <2>4 DEF a, BlockWritten
<1>10. x.mem = m /\ x.prev = M!Next(o, c)
  BY <1>4
<1>11. x \in BlockStates(l)
  BY <1>4, <1>7, <1>9 DEF BlockStates
<1>12. DecStepped(s, h, x, enc, same)
  BY <1>6, <1>9, <1>10 DEF DecStepped, b, h
<1> QED BY <1>11, <1>12 DEF x, h

\* The blocks before the last, and what is found in the last
Last(e, n, prev) == M!unpad(o.pad, M!Xored(M!decryptBlock(M!BlockAt(e, n)), prev))
DecRuns(F, to, e, n, same) ==
    /\ F \in [0..n -> BlockStates(Len(to))]
    /\ F[0].mem = M!Set(to, SubSeq(e, 1, n * BlockLen), 0) /\ F[0].prev = M!Start(o)
    /\ \A k \in 1..n : DecStepped(F[k - 1], k - 1, F[k], e, same)
    /\ M!decryptPadded(o, to, e, same) =
          {M!Set(F[n].mem, end, n * BlockLen) : end \in Last(e, n, F[n].prev)}

\* The states of decryption, turn by turn
LEMMA DecRun ==
  ASSUME Moding, M!Padded(o), NEW e, NEW n \in Nat, Whole(e, n + 1), NEW to \in Seq(M!Byte),
         n * BlockLen <= Len(to), NEW same \in BOOLEAN
  PROVE  \E F : DecRuns(F, to, e, n, same)
<1> DEFINE safeLen == Len(e) - BlockLen
           m == safeLen \div BlockLen
           l == Len(to)
           start == SubSeq(e, 1, safeLen)
           s0 == [mem |-> M!Set(to, start, 0), prev |-> M!Start(o)]
           Def(f) == f = [k \in 0..m |-> IF k = 0 THEN s0
                                         ELSE DecStep(f[k - 1], k, e, same)]
           F == CHOOSE f : Def(f)
           T == BlockStates(l)
           HH == [x \in T \X Nat |-> IF x[2] \in 1..n THEN DecStep(x[1], x[2], e, same) ELSE s0]
<1>1. e \in Seq(M!Byte) /\ Len(e) = (n + 1) * BlockLen /\ l \in Nat
  BY DEF Whole
<1>2. safeLen = n * BlockLen /\ m = n /\ n * BlockLen \in Nat
  <2>1. n * BlockLen \in Nat /\ (n + 1) * BlockLen = n * BlockLen + BlockLen
    BY Times
  <2> DEFINE y == n * BlockLen
  <2>2. (y + BlockLen) - BlockLen = y /\ y + 0 = y
    <3>1. y \in Nat
      BY <2>1
    <3> HIDE DEF y
    <3> QED BY <3>1, Sizes
  <2>3. safeLen = y
    BY <1>1, <2>1, <2>2
  <2>4. (n * BlockLen + 0) \div BlockLen = n
    BY Sizes, PartsAre
  <2> QED BY <2>1, <2>2, <2>3, <2>4
<1>3. M!decryptPadded(o, to, e, same) =
         IF safeLen < 0 THEN {}
         ELSE {M!Set(F[m].mem, end, safeLen) :
                  end \in M!unpad(o.pad, M!Xored(M!decryptBlock(M!BlockAt(e, m)), F[m].prev))}
  BY Zenon DEF M!decryptPadded, DecStep
<1> HIDE DEF safeLen, m
<1>4. ~(safeLen < 0)
  BY <1>2
<1>5. M!decryptPadded(o, to, e, same) =
         {M!Set(F[n].mem, end, n * BlockLen) : end \in Last(e, n, F[n].prev)}
  BY <1>2, <1>3, <1>4, Zenon DEF Last
<1>6. start \in Seq(M!Byte)
  <2>1. safeLen <= Len(e) /\ safeLen \in Nat
    <3>1. safeLen \in Nat /\ Len(e) = safeLen + BlockLen
      BY <1>1, <1>2, Times
    <3> QED BY <3>1, Sizes
  <2> QED BY <1>1, <2>1, SubSeqIs
<1>7. s0 \in T
  <2>1. M!Set(to, start, 0) \in Seq(M!Byte) /\ Len(M!Set(to, start, 0)) = l
    <3> HIDE DEF start
    <3> QED BY <1>6, SetIs
  <2> QED BY <2>1, NextBlock DEF BlockStates
<1> HIDE DEF start
<1>8. ASSUME NEW s \in T, NEW k \in 1..n
      PROVE  /\ DecStep(s, k, e, same) \in T
             /\ DecStepped(s, k - 1, DecStep(s, k, e, same), e, same)
  <2>1. k \in Nat \ {0} /\ k - 1 \in Nat /\ k - 1 < n /\ k - 1 < n + 1
    OBVIOUS
  <2>2. (k - 1) * BlockLen + BlockLen <= n * BlockLen
    BY <2>1, TimesMono
  <2>3. (k - 1) * BlockLen + BlockLen <= l
    <3>1. (k - 1) * BlockLen \in Nat
      BY <2>1, Times
    <3> DEFINE y == (k - 1) * BlockLen
               z == n * BlockLen
    <3>2. y \in Nat /\ z \in Nat /\ z <= l /\ y + BlockLen <= z
      BY <1>2, <2>2, <3>1
    <3> HIDE DEF y, z, l
    <3>3. y + BlockLen <= l
      BY <1>1, <3>2, Sizes
    <3> QED BY <3>3 DEF y
  <2>4. M!BlockAt(e, k - 1) \in M!Block
    BY <2>1, InWhole
  <2> HIDE DEF l
  <2> QED BY <1>1, <2>1, <2>3, <2>4, DecStepIs
<1>9. HH \in [T \X Nat -> T]
  BY <1>7, <1>8
<1>10. PICK f \in [0..n -> T] : f[0] = s0 /\ \A k \in 1..n : f[k] = HH[<<f[k - 1], k>>]
  <2> HIDE DEF HH, T, s0, Def, F
  <2>1. \E f \in [0..n -> T] : Steps(f, s0, HH, n)
    BY <1>7, <1>9, Recursive
  <2> QED BY <2>1 DEF Steps
<1>11. \A k \in 1..n : f[k - 1] \in T /\ f[k] = DecStep(f[k - 1], k, e, same)
  <2>1. ASSUME NEW k \in 1..n
        PROVE  f[k - 1] \in T /\ f[k] = DecStep(f[k - 1], k, e, same)
    <3>1. f[k - 1] \in T /\ <<f[k - 1], k>> \in T \X Nat
      OBVIOUS
    <3>2. HH[<<f[k - 1], k>>] = DecStep(f[k - 1], k, e, same)
      BY <3>1
    <3> HIDE DEF HH, T
    <3> QED BY <1>10, <3>1, <3>2
  <2> QED BY <2>1
<1> HIDE DEF HH, T
<1>12. Def(f)
  <2>1. \A k \in 0..n : f[k] = IF k = 0 THEN s0 ELSE DecStep(f[k - 1], k, e, same)
    <3> HIDE DEF s0, F, Def
    <3>1. \A k \in 0..n : k = 0 \/ k \in 1..n
      OBVIOUS
    <3> QED BY <1>10, <1>11, <3>1
  <2>2. f = [k \in 0..n |-> f[k]]
    BY <1>10
  <2> QED BY <1>2, <2>1, <2>2
<1>13. Def(F)
  <2> HIDE DEF Def
  <2> QED BY <1>12
<1> HIDE DEF F
<1>14. /\ \A k \in 0..n : F[k] = IF k = 0 THEN s0 ELSE DecStep(F[k - 1], k, e, same)
       /\ F = [k \in 0..n |-> F[k]]
  BY <1>2, <1>13
<1> HIDE DEF Def, s0
<1> DEFINE P == {k \in Nat : k <= n => F[k] \in T}
<1>15. 0 \in P
  <2>1. 0 \in 0..n
    OBVIOUS
  <2> QED BY <1>7, <1>14, <2>1
<1>16. ASSUME NEW k \in Nat, k < n /\ k \in P
       PROVE  k + 1 \in P
  <2>1. k + 1 \in 0..n /\ k + 1 \in 1..n /\ (k + 1) - 1 = k /\ k + 1 # 0 /\ F[k] \in T
    BY <1>16
  <2>2. F[k + 1] = DecStep(F[(k + 1) - 1], k + 1, e, same)
    BY <1>14, <2>1
  <2>3. F[k + 1] \in T
    BY <1>8, <2>1, <2>2
  <2> QED BY <2>3
<1>17. \A k \in 0..n : k \in P
  <2> HIDE DEF P
  <2> QED BY <1>15, <1>16, UpTo
<1>18. \A k \in 0..n : F[k] \in T
  BY <1>17
<1>19. F \in [0..n -> T]
  BY <1>14, <1>18
<1>20. \A k \in 1..n : DecStepped(F[k - 1], k - 1, F[k], e, same)
  <2>1. ASSUME NEW k \in 1..n
        PROVE  DecStepped(F[k - 1], k - 1, F[k], e, same)
    <3>1. k \in 0..n /\ k - 1 \in 0..n /\ k # 0
      OBVIOUS
    <3>2. F[k] = DecStep(F[k - 1], k, e, same) /\ F[k - 1] \in T
      BY <1>14, <1>18, <3>1
    <3> QED BY <1>8, <3>2
  <2> QED BY <2>1
<1>21. F[0].mem = M!Set(to, SubSeq(e, 1, n * BlockLen), 0) /\ F[0].prev = M!Start(o)
  <2>1. 0 \in 0..n
    OBVIOUS
  <2>2. F[0] = s0
    BY <1>14, <2>1
  <2> QED BY <1>2, <2>2 DEF s0, start
<1>22. DecRuns(F, to, e, n, same)
  BY <1>5, <1>19, <1>20, <1>21 DEF DecRuns, T
<1> QED BY <1>22

\* A block of the chain gives its plaintext.
LEMMA Undo ==
  ASSUME Moding, M!Padded(o), NEW w, NEW e, NEW m, Chained(w, e, m), NEW k \in Nat, k < m
  PROVE  M!Xored(M!decryptBlock(M!BlockAt(e, k)), Prev(e, k)) = M!BlockAt(w, k)
<1> DEFINE a == M!BlockAt(w, k)
           b == Prev(e, k)
           x == M!Xored(a, b)
<1>1. Whole(w, m) /\ Whole(e, m) /\ m \in Nat /\ k <= m
  BY DEF Chained, Whole
<1>2. a \in M!Block
  BY <1>1, InWhole
<1>3. b \in M!Block
  BY <1>1, PrevBlock
<1>4. M!BlockAt(e, k) = M!encryptBlock(x)
  BY DEF Chained, EncOf
<1> HIDE DEF a, b
<1>5. x \in M!Block /\ M!Xored(x, b) = a
  BY <1>2, <1>3, XoredTwice
<1> HIDE DEF x
<1>6. M!decryptBlock(M!encryptBlock(x)) = x
  BY <1>5, CipherBlock
<1>7. M!Xored(M!decryptBlock(M!BlockAt(e, k)), b) = a
  BY <1>4, <1>5, <1>6
<1> QED BY <1>7 DEF a, b

\* Block j of the ciphertext as the target got it
LEMMA FirstBlocks ==
  ASSUME NEW e \in Seq(M!Byte), NEW to \in Seq(M!Byte), NEW n \in Nat,
         n * BlockLen <= Len(to), n * BlockLen <= Len(e)
  PROVE  /\ \A j \in Nat : j < n =>
               M!BlockAt(M!Set(to, SubSeq(e, 1, n * BlockLen), 0), j) = M!BlockAt(e, j)
         /\ \A i \in 1..Len(to) : i > n * BlockLen =>
               M!Set(to, SubSeq(e, 1, n * BlockLen), 0)[i] = to[i]
<1> DEFINE y == n * BlockLen
           a == SubSeq(e, 1, y)
           x == M!Set(to, a, 0)
<1>1. y \in Nat /\ Len(e) \in Nat /\ Len(to) \in Nat /\ y <= Len(e) /\ y <= Len(to)
  <2>1. y \in Nat
    BY Times
  <2>2. Len(e) \in Nat /\ Len(to) \in Nat
    OBVIOUS
  <2> QED BY <2>1, <2>2
<1>2. a \in Seq(M!Byte) /\ Len(a) = y /\ \A i \in 1..y : a[i] = e[i]
  <2> HIDE DEF y
  <2>1. /\ a \in Seq(M!Byte) /\ Len(a) = (y - 1) + 1
        /\ \A i \in 1..((y - 1) + 1) : a[i] = e[(i - 1) + 1]
    BY <1>1, SubSeqIs
  <2> HIDE DEF a
  <2> QED BY <1>1, <2>1
<1> HIDE DEF a
<1>3. /\ x \in Seq(M!Byte) /\ Len(x) = Len(to)
      /\ \A i \in 1..Len(to) : x[i] = IF i > 0 /\ i <= 0 + Len(a) THEN a[i - 0] ELSE to[i]
  BY <1>2, SetIs
<1> HIDE DEF x
<1>4. \A i \in 1..y : x[i] = e[i]
  <2> HIDE DEF y
  <2> QED BY <1>1, <1>2, <1>3
<1>5. \A i \in 1..Len(to) : i > y => x[i] = to[i]
  <2> HIDE DEF y
  <2> QED BY <1>1, <1>2, <1>3
<1>6. ASSUME NEW j \in Nat, j < n
      PROVE  M!BlockAt(x, j) = M!BlockAt(e, j)
  <2> DEFINE z == j * BlockLen
  <2>1. z \in Nat /\ z + BlockLen <= y
    BY <1>6, Times, TimesMono
  <2>2. z + BlockLen <= Len(x) /\ z + BlockLen <= Len(e)
    <3> HIDE DEF y, z
    <3> QED BY <1>1, <1>3, <2>1, Sizes
  <2>3. /\ M!BlockAt(x, j) \in M!Block /\ M!BlockAt(e, j) \in M!Block
        /\ \A i \in 1..BlockLen : M!BlockAt(x, j)[i] = x[z + i]
        /\ \A i \in 1..BlockLen : M!BlockAt(e, j)[i] = e[z + i]
    BY <1>3, <2>2, BlockAtIs
  <2>4. \A i \in 1..BlockLen : z + i \in 1..y
    <3> HIDE DEF y, z
    <3> QED BY <1>1, <2>1, Sizes
  <2> HIDE DEF y, z
  <2> QED BY <1>4, <2>3, <2>4, SameBlock
<1> QED BY <1>5, <1>6 DEF x, a

\* All blocks but the last are plaintext, and the rest of the array is as it was.
Undone(F, w, to, e, n) ==
    /\ F[n].mem \in Seq(M!Byte) /\ Len(F[n].mem) = Len(to)
    /\ \A j \in Nat : j < n => M!BlockAt(F[n].mem, j) = M!BlockAt(w, j)
    /\ \A i \in 1..Len(to) : i > n * BlockLen => F[n].mem[i] = to[i]
    /\ F[n].prev = Prev(e, n)

\* All blocks but the last, and what the last is xored with
LEMMA DecUndoes ==
  ASSUME Moding, M!Padded(o), NEW w, NEW e, NEW n \in Nat, Chained(w, e, n + 1),
         NEW to \in Seq(M!Byte), n * BlockLen <= Len(to), NEW same \in BOOLEAN,
         same /\ o.mode = "cbc" => n = 0, NEW F, DecRuns(F, to, e, n, same)
  PROVE  Undone(F, w, to, e, n)
<1>1. Whole(e, n + 1) /\ Whole(w, n + 1) /\ e \in Seq(M!Byte) /\ Len(e) = (n + 1) * BlockLen
  BY DEF Chained, Whole
<1>2. n * BlockLen \in Nat /\ n * BlockLen <= Len(e)
  <2>1. n * BlockLen \in Nat /\ (n + 1) * BlockLen = n * BlockLen + BlockLen
    BY Times
  <2> DEFINE y == n * BlockLen
  <2>2. y <= y + BlockLen
    <3>1. y \in Nat
      BY <2>1
    <3> HIDE DEF y
    <3> QED BY <3>1, Sizes
  <2> QED BY <1>1, <2>1, <2>2
<1>3. /\ F \in [0..n -> BlockStates(Len(to))]
      /\ F[0].mem = M!Set(to, SubSeq(e, 1, n * BlockLen), 0) /\ F[0].prev = M!Start(o)
      /\ \A k \in 1..n : DecStepped(F[k - 1], k - 1, F[k], e, same)
  BY DEF DecRuns
<1> DEFINE c(k) == F[k].mem
           Good(k) == /\ \A j \in Nat : j < k => M!BlockAt(c(k), j) = M!BlockAt(w, j)
                      /\ \A j \in Nat : k <= j /\ j < n => M!BlockAt(c(k), j) = M!BlockAt(e, j)
                      /\ \A i \in 1..Len(to) : i > n * BlockLen => c(k)[i] = to[i]
                      /\ F[k].prev = Prev(e, k)
           P == {k \in Nat : k <= n => Good(k)}
<1>4. \A k \in 0..n : c(k) \in Seq(M!Byte) /\ Len(c(k)) = Len(to)
  BY <1>3 DEF BlockStates
<1>5. /\ \A j \in Nat : j < n => M!BlockAt(c(0), j) = M!BlockAt(e, j)
      /\ \A i \in 1..Len(to) : i > n * BlockLen => c(0)[i] = to[i]
  <2> DEFINE x == M!Set(to, SubSeq(e, 1, n * BlockLen), 0)
  <2>1. /\ \A j \in Nat : j < n => M!BlockAt(x, j) = M!BlockAt(e, j)
        /\ \A i \in 1..Len(to) : i > n * BlockLen => x[i] = to[i]
    BY <1>1, <1>2, FirstBlocks
  <2>2. c(0) = x
    BY <1>3
  <2> HIDE DEF x, c
  <2> QED BY <2>1, <2>2
<1> HIDE DEF c
<1>6. 0 \in P
  <2>1. F[0].prev = Prev(e, 0)
    BY <1>3 DEF Prev
  <2>2. Good(0)
    BY <1>5, <2>1
  <2> HIDE DEF Good
  <2> QED BY <2>2
<1>7. ASSUME NEW k \in Nat, k < n /\ k \in P
      PROVE  k + 1 \in P
  <2>1. Good(k)
    BY <1>7
  <2>2. k \in 0..n /\ k + 1 \in 1..n /\ (k + 1) - 1 = k /\ k < n + 1 /\ n # 0
    BY <1>7
  <2>3. DecStepped(F[k], k, F[k + 1], e, same)
    <3>1. DecStepped(F[(k + 1) - 1], (k + 1) - 1, F[k + 1], e, same)
      BY <1>3, <2>2
    <3> QED BY <2>2, <3>1
  <2>4. /\ M!BlockAt(c(k + 1), k) = M!Xored(M!decryptBlock(M!BlockAt(c(k), k)), F[k].prev)
        /\ o.mode = "ecb" \/ ~same => F[k + 1].prev = M!Next(o, M!BlockAt(e, k))
        /\ \A j \in Nat : j # k /\ j * BlockLen + BlockLen <= Len(to) =>
              M!BlockAt(c(k + 1), j) = M!BlockAt(c(k), j)
        /\ \A i \in 1..Len(to) : i > k * BlockLen + BlockLen => c(k + 1)[i] = c(k)[i]
    BY <1>4, <2>2, <2>3 DEF DecStepped, c
  <2>5. ASSUME NEW j \in Nat, j < n
        PROVE  j * BlockLen + BlockLen <= n * BlockLen /\ j * BlockLen + BlockLen <= Len(to)
               /\ j * BlockLen \in Nat
    <3> DEFINE z == j * BlockLen
               y == n * BlockLen
    <3>1. z \in Nat /\ y \in Nat /\ z + BlockLen <= y /\ y <= Len(to)
      BY <1>2, <2>5, Times, TimesMono
    <3> HIDE DEF z, y
    <3>2. z + BlockLen <= Len(to)
      BY <3>1, Sizes
    <3> QED BY <3>1, <3>2 DEF z, y
  <2>6. M!BlockAt(c(k + 1), k) = M!BlockAt(w, k)
    <3>1. M!BlockAt(c(k), k) = M!BlockAt(e, k) /\ F[k].prev = Prev(e, k)
      BY <1>7, <2>1
    <3>2. M!Xored(M!decryptBlock(M!BlockAt(e, k)), Prev(e, k)) = M!BlockAt(w, k)
      BY <2>2, Undo
    <3> QED BY <2>4, <3>1, <3>2
  <2>7. \A j \in Nat : j < k + 1 => M!BlockAt(c(k + 1), j) = M!BlockAt(w, j)
    <3>1. ASSUME NEW j \in Nat, j < k + 1, j # k
          PROVE  M!BlockAt(c(k + 1), j) = M!BlockAt(w, j)
      <4>1. j < k /\ j < n
        BY <1>7, <3>1
      <4> QED BY <2>1, <2>4, <2>5, <3>1, <4>1
    <3> QED BY <2>6, <3>1
  <2>8. \A j \in Nat : k + 1 <= j /\ j < n => M!BlockAt(c(k + 1), j) = M!BlockAt(e, j)
    <3>1. ASSUME NEW j \in Nat, k + 1 <= j, j < n
          PROVE  M!BlockAt(c(k + 1), j) = M!BlockAt(e, j)
      <4>1. k <= j /\ j # k
        BY <1>7, <3>1
      <4> QED BY <2>1, <2>4, <2>5, <3>1, <4>1
    <3> QED BY <3>1
  <2>9. ASSUME NEW i \in 1..Len(to), i > n * BlockLen
        PROVE  c(k + 1)[i] = to[i]
    <3>1. i > k * BlockLen + BlockLen
      <4> DEFINE z == k * BlockLen
                 y == n * BlockLen
      <4>1. z \in Nat /\ y \in Nat /\ z + BlockLen <= y /\ i > y
        BY <1>2, <1>7, <2>5, <2>9
      <4> HIDE DEF z, y
      <4>2. i > z + BlockLen
        BY <4>1, Sizes
      <4> QED BY <4>2 DEF z
    <3> QED BY <2>1, <2>4, <2>9, <3>1
  <2>10. F[k + 1].prev = Prev(e, k + 1)
    <3>1. o.mode = "ecb" \/ ~same
      BY <2>2, ModeKind DEF M!Padded
    <3>2. F[k + 1].prev = M!Next(o, M!BlockAt(e, k))
      BY <2>4, <3>1
    <3>3. Prev(e, k + 1) = M!Next(o, M!BlockAt(e, (k + 1) - 1))
      BY <1>7 DEF Prev
    <3> QED BY <2>2, <3>2, <3>3
  <2>11. Good(k + 1)
    BY <2>7, <2>8, <2>9, <2>10
  <2> HIDE DEF Good
  <2> QED BY <2>11
<1>8. n \in P
  <2>1. n \in 0..n
    OBVIOUS
  <2> HIDE DEF P
  <2> QED BY <1>6, <1>7, <2>1, UpTo
<1>9. Good(n)
  BY <1>8
<1> QED BY <1>4, <1>9 DEF Undone, c

\* The last block, b, ends with t: what is before is whole blocks.
Ended(p, w, e, n, b, t) ==
    /\ Chained(w, e, n + 1) /\ n \in Nat
    /\ b \in M!Block /\ M!BlockAt(w, n) = b
    /\ t \in Seq(M!Byte) /\ Len(t) <= BlockLen
    /\ Len(p) = n * BlockLen + Len(t)
    /\ \A i \in 1..(n * BlockLen) : p[i] = w[i]
    /\ \A i \in 1..Len(t) : p[n * BlockLen + i] = t[i]
    /\ \A i \in 1..Len(t) : b[i] = t[i]
    /\ o.pad # "zero" => M!unpad(o.pad, b) = {t}
    /\ o.pad = "zero" => /\ Len(t) > 0
                         /\ \A i \in 1..BlockLen : i > Len(t) => b[i] = M!Zero

\* What is taken for the end: no more than t, and no less than its last byte not zero
TakenFor(found, t) ==
    /\ found \in Seq(M!Byte) /\ Len(found) <= Len(t)
    /\ \A i \in 1..Len(found) : found[i] = t[i]
    /\ \A i \in 1..Len(t) : i > Len(found) => t[i] = M!Zero
    /\ o.pad # "zero" => Len(found) = Len(t)
    /\ o.pad = "zero" /\ t[Len(t)] # M!Zero => Len(found) = Len(t)

\* What unpad() finds in the last block
LEMMA EndFound ==
  ASSUME Moding, NEW p, NEW w, NEW e, NEW n, NEW b, NEW t, Ended(p, w, e, n, b, t)
  PROVE  \E found : M!unpad(o.pad, b) = {found} /\ TakenFor(found, t)
<1>1. /\ b \in M!Block /\ b \in Seq(M!Byte) /\ Len(b) = BlockLen
      /\ t \in Seq(M!Byte) /\ Len(t) <= BlockLen /\ Len(t) \in Nat
      /\ \A i \in 1..Len(t) : b[i] = t[i]
  <2>1. b \in M!Block /\ t \in Seq(M!Byte) /\ Len(t) <= BlockLen /\ \A i \in 1..Len(t) : b[i] = t[i]
    BY DEF Ended
  <2>2. Len(t) \in Nat
    BY <2>1
  <2> QED BY <2>1, <2>2, BlockIs
<1>2. CASE o.pad # "zero"
  <2>1. M!unpad(o.pad, b) = {t}
    BY <1>2 DEF Ended
  <2>2. TakenFor(t, t)
    BY <1>1, <1>2 DEF TakenFor
  <2> QED BY <2>1, <2>2
<1>3. CASE o.pad = "zero"
  <2> DEFINE d == M!Ends(b)
             m == Len(t)
             found == SubSeq(b, 1, d)
  <2>1. m > 0 /\ \A i \in 1..BlockLen : i > m => b[i] = M!Zero
    BY <1>3 DEF Ended
  <2>2. /\ d \in 0..BlockLen /\ (d > 0 => b[d] # M!Zero)
        /\ \A i \in 1..BlockLen : i > d => b[i] = M!Zero
    BY <1>1, EndsIs
  <2>3. M!unpad(o.pad, b) = {found}
    <3>1. M!unpad("zero", b) = {found}
      BY DEF M!unpad
    <3> QED BY <1>3, <3>1
  <2> HIDE DEF d
  <2>4. d <= m /\ d \in Nat
    BY <1>1, <2>1, <2>2, Sizes
  <2>5. found \in Seq(M!Byte) /\ Len(found) = d /\ \A i \in 1..d : found[i] = b[i]
    <3>1. /\ found \in Seq(M!Byte) /\ Len(found) = (d - 1) + 1
          /\ \A i \in 1..((d - 1) + 1) : found[i] = b[(i - 1) + 1]
      BY <1>1, <2>2, <2>4, SubSeqIs
    <3> HIDE DEF found
    <3> QED BY <2>4, <3>1
  <2> HIDE DEF found, m
  <2>6. /\ m \in Nat /\ m <= BlockLen /\ \A i \in 1..m : b[i] = t[i]
    BY <1>1 DEF m
  <2>7. \A i \in 1..m : i > d => t[i] = M!Zero
    BY <2>2, <2>6, Sizes
  <2>8. t[m] # M!Zero => d = m
    BY <2>1, <2>4, <2>6, <2>7
  <2>9. TakenFor(found, t)
    BY <1>3, <2>4, <2>5, <2>6, <2>7, <2>8 DEF TakenFor, m
  <2> QED BY <2>3, <2>9
<1> QED BY <1>2, <1>3

\* The array decrypted into, when the code does not go astray
Ready(p, e, to, same) ==
    /\ to \in Seq(M!Byte) /\ Len(p) <= Len(to)
    /\ ~same => \A i \in 1..Len(to) : to[i] = M!Zero
    /\ same /\ o.mode = "cbc" => Len(e) <= BlockLen
    /\ same /\ o.pad = "zero" => M!Ends(p) = Len(p)

\* decryptInto() of the chain: the blocks, and what is found in the last
LEMMA EndedBack ==
  ASSUME Moding, M!Padded(o), NEW p \in Seq(M!Byte), NEW w, NEW e, NEW n, NEW b, NEW t,
         Ended(p, w, e, n, b, t), NEW to, NEW same \in BOOLEAN, Ready(p, e, to, same)
  PROVE  /\ M!decryptPadded(o, to, e, same) # {}
         /\ \A f \in M!decryptPadded(o, to, e, same) : SubSeq(f, 1, Len(p)) = p
<1> DEFINE y == n * BlockLen
           l == Len(p)
           m == Len(t)
<1>1. /\ Chained(w, e, n + 1) /\ n \in Nat /\ b \in M!Block /\ M!BlockAt(w, n) = b
      /\ t \in Seq(M!Byte) /\ m <= BlockLen /\ l = y + m
      /\ \A i \in 1..y : p[i] = w[i]
      /\ \A i \in 1..m : p[y + i] = t[i]
  BY DEF Ended
<1>2. Whole(e, n + 1) /\ Whole(w, n + 1) /\ Len(e) = (n + 1) * BlockLen
      /\ w \in Seq(M!Byte) /\ Len(w) = (n + 1) * BlockLen
  BY <1>1 DEF Chained, Whole
<1>3. /\ to \in Seq(M!Byte) /\ l <= Len(to)
      /\ ~same => \A i \in 1..Len(to) : to[i] = M!Zero
      /\ same /\ o.mode = "cbc" => Len(e) <= BlockLen
      /\ same /\ o.pad = "zero" => M!Ends(p) = Len(p)
  BY DEF Ready
<1>4. y \in Nat /\ (n + 1) * BlockLen = y + BlockLen /\ l \in Nat /\ m \in Nat /\ Len(to) \in Nat
  <2>1. y \in Nat /\ (n + 1) * BlockLen = y + BlockLen
    BY <1>1, Times
  <2>2. l \in Nat /\ m \in Nat /\ Len(to) \in Nat
    BY <1>1, <1>3
  <2> QED BY <2>1, <2>2
<1>5. y <= Len(to) /\ y <= Len(w)
  <2> HIDE DEF y, l, m
  <2> QED BY <1>1, <1>2, <1>3, <1>4, Sizes
<1>6. same /\ o.mode = "cbc" => n = 0
  <2> SUFFICES ASSUME same, o.mode = "cbc", n # 0
               PROVE  FALSE
    OBVIOUS
  <2>1. 0 \in Nat /\ 0 < n
    BY <1>1
  <2>2. 0 * BlockLen + BlockLen <= y /\ 0 * BlockLen = 0
    BY <1>1, <2>1, TimesMono, Sizes
  <2> HIDE DEF y
  <2> QED BY <1>2, <1>3, <1>4, <2>2, Sizes
<1>7. PICK F : DecRuns(F, to, e, n, same)
  BY <1>1, <1>2, <1>3, <1>5, DecRun
<1>8. Undone(F, w, to, e, n)
  BY <1>1, <1>3, <1>5, <1>6, <1>7, DecUndoes
<1> DEFINE mem == F[n].mem
<1>9. /\ mem \in Seq(M!Byte) /\ Len(mem) = Len(to)
      /\ \A j \in Nat : j < n => M!BlockAt(mem, j) = M!BlockAt(w, j)
      /\ \A i \in 1..Len(to) : i > y => mem[i] = to[i]
      /\ F[n].prev = Prev(e, n)
  BY <1>8 DEF Undone
<1>10. Last(e, n, F[n].prev) = M!unpad(o.pad, b)
  <2>1. n < n + 1
    BY <1>1
  <2>2. M!Xored(M!decryptBlock(M!BlockAt(e, n)), Prev(e, n)) = b
    BY <1>1, <2>1, Undo
  <2> QED BY <1>9, <2>2, Zenon DEF Last
<1>11. PICK found : M!unpad(o.pad, b) = {found} /\ TakenFor(found, t)
  BY EndFound
<1>12. M!decryptPadded(o, to, e, same) = {M!Set(mem, found, y)}
  <2>1. M!decryptPadded(o, to, e, same) =
           {M!Set(F[n].mem, end, n * BlockLen) : end \in Last(e, n, F[n].prev)}
    BY <1>7 DEF DecRuns
  <2>2. M!decryptPadded(o, to, e, same) = {M!Set(mem, end, y) : end \in {found}}
    BY <1>10, <1>11, <2>1, Zenon
  <2> QED BY <2>2, Zenon
<1>13. \A i \in 1..y : mem[i] = p[i]
  <2>1. ASSUME NEW i \in 1..y
        PROVE  mem[i] = w[i]
    <3>1. n * BlockLen <= Len(mem) /\ n * BlockLen <= Len(w)
      BY <1>5, <1>9
    <3> HIDE DEF mem
    <3> QED BY <1>1, <1>2, <1>9, <2>1, <3>1, SameStart
  <2> QED BY <1>1, <2>1
<1> HIDE DEF mem
<1>14. /\ found \in Seq(M!Byte) /\ Len(found) <= m /\ Len(found) \in Nat
       /\ \A i \in 1..Len(found) : found[i] = t[i]
       /\ \A i \in 1..m : i > Len(found) => t[i] = M!Zero
       /\ o.pad # "zero" => Len(found) = m
       /\ o.pad = "zero" /\ t[m] # M!Zero => Len(found) = m
  <2>1. found \in Seq(M!Byte)
    BY <1>11 DEF TakenFor
  <2>2. Len(found) \in Nat
    BY <2>1
  <2> QED BY <1>11, <2>2 DEF TakenFor
<1> DEFINE f == M!Set(mem, found, y)
<1>15. /\ f \in Seq(M!Byte) /\ Len(f) = Len(to)
       /\ \A i \in 1..Len(to) : f[i] = IF i > y /\ i <= y + Len(found) THEN found[i - y] ELSE mem[i]
  BY <1>4, <1>9, <1>14, SetIs
<1> HIDE DEF f
<1>16. same => Len(found) = m
  <2> SUFFICES ASSUME same, o.pad = "zero"
               PROVE  Len(found) = m
    BY <1>14
  <2>1. m > 0
    BY DEF Ended
  <2>2. l > 0
    <3> HIDE DEF y, l, m
    <3> QED BY <1>1, <1>4, <2>1
  <2>3. p[l] # M!Zero
    BY <1>3, <2>2, EndsIs
  <2>4. p[l] = t[m]
    <3>1. m \in 1..m
      BY <1>4, <2>1
    <3> HIDE DEF m, l
    <3> QED BY <1>1, <3>1
  <2> QED BY <1>14, <2>3, <2>4
<1>17. ASSUME NEW i \in 1..l
       PROVE  f[i] = p[i]
  <2>1. i \in 1..Len(to)
    BY <1>3, <1>4
  <2>2. CASE i <= y
    <3> HIDE DEF y
    <3> QED BY <1>4, <1>13, <1>15, <2>1, <2>2
  <2>3. CASE i > y
    <3> DEFINE h == i - y
    <3>1. h \in 1..m /\ y + h = i
      <4> HIDE DEF y, l, m
      <4> QED BY <1>1, <1>4, <2>3
    <3>2. p[i] = t[h]
      BY <1>1, <3>1
    <3>3. CASE i <= y + Len(found)
      <4>1. f[i] = found[h]
        BY <1>15, <2>1, <2>3, <3>3
      <4>2. h \in 1..Len(found)
        <5> HIDE DEF y, m
        <5> QED BY <1>4, <1>14, <2>3, <3>3
      <4> QED BY <1>14, <3>2, <4>1, <4>2
    <3>4. CASE i > y + Len(found)
      <4>1. h > Len(found)
        <5> HIDE DEF y, m
        <5> QED BY <1>4, <1>14, <3>4
      <4>2. p[i] = M!Zero /\ ~same
        <5> HIDE DEF h, m, l, y
        <5> QED BY <1>4, <1>14, <1>16, <3>1, <3>2, <4>1
      <4>3. f[i] = mem[i] /\ mem[i] = to[i]
        <5>1. ~(i <= y + Len(found))
          <6> HIDE DEF y
          <6> QED BY <1>4, <1>14, <3>4
        <5>2. f[i] = mem[i]
          BY <1>15, <2>1, <5>1
        <5>3. mem[i] = to[i]
          BY <1>9, <2>1, <2>3
        <5> QED BY <5>2, <5>3
      <4> QED BY <1>3, <2>1, <4>2, <4>3
    <3> QED BY <1>4, <1>14, <3>3, <3>4
  <2> QED BY <1>4, <2>2, <2>3
<1>18. SubSeq(f, 1, l) = p
  <2> DEFINE g == SubSeq(f, 1, l)
  <2>1. g \in Seq(M!Byte) /\ Len(g) = l /\ \A i \in 1..l : g[i] = f[i]
    <3>1. /\ g \in Seq(M!Byte) /\ Len(g) = (l - 1) + 1
          /\ \A i \in 1..((l - 1) + 1) : g[i] = f[(i - 1) + 1]
      <4> HIDE DEF l
      <4> QED BY <1>3, <1>4, <1>15, SubSeqIs
    <3> HIDE DEF g, l
    <3> QED BY <1>4, <3>1
  <2> HIDE DEF g
  <2>2. g = p
    BY <1>4, <1>17, <2>1, SameSeq
  <2> QED BY <2>2 DEF g
<1> QED BY <1>12, <1>18 DEF f

\* A padded plaintext ends in the block that holds its rest.
LEMMA SealedEnds ==
  ASSUME Moding, M!Padded(o), NEW p \in Seq(M!Byte), NEW e, NEW w, NEW q, NEW t, NEW b,
         Sealed(p, e, w, q, t, b)
  PROVE  Ended(p, w \o b, e, q, b, t)
<1>1. /\ Whole(w, q) /\ t \in Seq(M!Byte) /\ Len(t) < BlockLen
      /\ Len(p) = Len(w) + Len(t)
      /\ \A i \in 1..Len(w) : p[i] = w[i]
      /\ \A i \in 1..Len(t) : p[Len(w) + i] = t[i]
      /\ ~(o.pad = "zero" /\ Len(p) % BlockLen = 0)
      /\ PadsTo(o.pad, t, b) /\ Chained(w \o b, e, q + 1)
  BY DEF Sealed, Cut
<1>2. w \in Seq(M!Byte) /\ q \in Nat /\ Len(w) = q * BlockLen
  BY <1>1 DEF Whole
<1>3. /\ b \in M!Block /\ \A j \in 1..Len(t) : b[j] = t[j]
      /\ o.pad # "zero" => M!unpad(o.pad, b) = {t}
      /\ o.pad = "zero" => \A j \in 1..BlockLen : j > Len(t) => b[j] = M!Zero
  BY <1>1 DEF PadsTo
<1>4. M!BlockAt(w \o b, q) = b
  BY <1>1, <1>3, WholeJoin
<1>5. \A i \in 1..Len(w) : (w \o b)[i] = w[i]
  <2>1. w \in Seq(M!Byte) /\ b \in Seq(M!Byte)
    BY <1>2, <1>3, BlockIs
  <2> QED BY <2>1, ConcatIs
<1>6. Len(t) \in Nat /\ Len(t) <= BlockLen
  <2>1. Len(t) \in Nat
    BY <1>1
  <2> QED BY <1>1, <2>1, Sizes
<1>7. o.pad = "zero" => Len(t) > 0
  <2>1. (q * BlockLen + Len(t)) % BlockLen = Len(t)
    BY <1>1, <1>2, <1>6, PartsAre
  <2>2. Len(p) % BlockLen = Len(t)
    BY <1>1, <1>2, <2>1
  <2> QED BY <1>1, <1>6, <2>2
<1> DEFINE x == w \o b
<1>8. /\ Chained(x, e, q + 1) /\ M!BlockAt(x, q) = b
      /\ \A i \in 1..(q * BlockLen) : p[i] = x[i]
  BY <1>1, <1>2, <1>4, <1>5
<1> HIDE DEF x
<1>9. /\ Len(p) = q * BlockLen + Len(t)
      /\ \A i \in 1..Len(t) : p[q * BlockLen + i] = t[i]
  BY <1>1, <1>2
<1>10. Ended(p, x, e, q, b, t)
  BY <1>1, <1>2, <1>3, <1>6, <1>7, <1>8, <1>9 DEF Ended
<1> QED BY <1>10 DEF x

\* Zero behind whole blocks: the last one is the end.
LEMMA BareEnds ==
  ASSUME Moding, M!Padded(o), NEW p \in Seq(M!Byte), NEW e, NEW n \in Nat, Bare(p, e, n + 1)
  PROVE  Ended(p, p, e, n, M!BlockAt(p, n), M!BlockAt(p, n))
<1> DEFINE b == M!BlockAt(p, n)
           y == n * BlockLen
<1>1. o.pad = "zero" /\ Chained(p, e, n + 1)
  BY DEF Bare
<1>2. Len(p) = (n + 1) * BlockLen /\ Whole(p, n + 1)
  BY <1>1 DEF Chained, Whole
<1>3. y \in Nat /\ Len(p) = y + BlockLen
  BY <1>2, Times
<1>4. y + BlockLen <= Len(p)
  <2> HIDE DEF y
  <2> QED BY <1>3, Sizes
<1>5. b \in M!Block /\ \A j \in 1..BlockLen : b[j] = p[y + j]
  BY <1>4, BlockAtIs
<1> HIDE DEF b
<1>6. b \in Seq(M!Byte) /\ Len(b) = BlockLen
  BY <1>5, BlockIs
<1>7. /\ Len(b) <= BlockLen /\ Len(b) > 0
      /\ \A i \in 1..Len(b) : p[y + i] = b[i]
      /\ \A i \in 1..BlockLen : i > Len(b) => b[i] = M!Zero
  BY <1>5, <1>6, Sizes
<1>8. Len(p) = y + Len(b)
  BY <1>3, <1>6
<1>9. Ended(p, p, e, n, b, b)
  BY <1>1, <1>5, <1>6, <1>7, <1>8 DEF Ended, b
<1> QED BY <1>9 DEF b

\* A ciphertext is no shorter than its plaintext.
LEMMA SealedLonger ==
  ASSUME Moding, M!Padded(o), NEW p \in Seq(M!Byte), NEW fill \in M!Byte,
         NEW e \in M!encryptPadded(o, p, fill)
  PROVE  Len(p) <= Len(e)
<1> DEFINE r == Len(p) % BlockLen
           l == Len(p)
<1>1. l \in Nat
  OBVIOUS
<1>2. r \in Nat /\ r < BlockLen
  BY <1>1, Parts
<1>3. M!padSize(o.pad, M!LastSize(l), BlockLen) = IF o.pad = "zero" /\ r = 0 THEN 0 ELSE BlockLen
  BY <1>1, PadSizeIs
<1>4. Len(e) = M!padSize(o.pad, M!LastSize(l), BlockLen) - r + l
  BY SealedSize DEF M!encryptSize
<1> HIDE DEF r, l
<1>5. l <= Len(e)
  BY <1>1, <1>2, <1>3, <1>4, Sizes
<1> QED BY <1>5 DEF l

\* What a padded mode made of a plaintext, it finds again.
LEMMA PaddedFound ==
  ASSUME Moding, M!Padded(o), NEW p \in Seq(M!Byte), NEW fill \in M!Byte,
         NEW e \in M!encryptPadded(o, p, fill), NEW to, NEW same \in BOOLEAN, Ready(p, e, to, same)
  PROVE  \/ M!decryptPadded(o, to, e, same) = {} /\ p = <<>> /\ o.pad = "zero"
         \/ /\ M!decryptPadded(o, to, e, same) # {}
            /\ \A f \in M!decryptPadded(o, to, e, same) : SubSeq(f, 1, Len(p)) = p
<1>1. CASE \E w, q, t, b : Sealed(p, e, w, q, t, b)
  <2>1. PICK w, q, t, b : Sealed(p, e, w, q, t, b)
    BY <1>1
  <2> DEFINE x == w \o b
  <2>2. Ended(p, x, e, q, b, t)
    BY <2>1, SealedEnds
  <2> HIDE DEF x
  <2> QED BY <2>2, EndedBack
<1>2. CASE \E q : Bare(p, e, q)
  <2>1. PICK q : Bare(p, e, q)
    BY <1>2
  <2>2. q \in Nat /\ Len(e) = q * BlockLen /\ Len(p) = q * BlockLen /\ o.pad = "zero"
    BY <2>1 DEF Bare, Chained, Whole
  <2>3. CASE q = 0
    <3>1. Len(p) = 0 /\ Len(e) = 0
      BY <2>2, <2>3, Sizes
    <3>2. p = <<>>
      BY <3>1
    <3>3. Len(e) - BlockLen < 0
      BY <3>1, Sizes
    <3>4. M!decryptPadded(o, to, e, same) = {}
      BY <3>3, Zenon DEF M!decryptPadded
    <3> QED BY <2>2, <3>2, <3>4
  <2>4. CASE q # 0
    <3> DEFINE n == q - 1
    <3>1. n \in Nat /\ n + 1 = q
      BY <2>2, <2>4
    <3> HIDE DEF n
    <3>2. Bare(p, e, n + 1)
      BY <2>1, <3>1
    <3> DEFINE b == M!BlockAt(p, n)
    <3>3. Ended(p, p, e, n, b, b)
      BY <3>1, <3>2, BareEnds
    <3> HIDE DEF b
    <3> QED BY <3>3, EndedBack
  <2> QED BY <2>3, <2>4
<1> QED BY <1>1, <1>2, SentIs

-----------------------------------------------------------------------------
(* A call of encryptInto() and the call of decryptInto() that follows. *)

\* encryptInto() writes what encryptSize() announces.
LEMMA ModeSent ==
  ASSUME Moding, NEW p \in Seq(M!Byte), NEW fill \in M!Byte, NEW e \in M!encryptInto(o, p, fill)
  PROVE  e \in Seq(M!Byte) /\ Len(e) = M!encryptSize(o, Len(p))
<1>1. CASE M!Padded(o)
  <2>1. e \in M!encryptPadded(o, p, fill)
    BY <1>1 DEF M!encryptInto
  <2> QED BY <1>1, <2>1, SealedSize
<1>2. CASE ~M!Padded(o)
  <2>1. e = M!Streamed(o, p, p, TRUE)
    BY <1>2 DEF M!encryptInto
  <2>2. PICK yes \in BOOLEAN : yes = TRUE
    OBVIOUS
  <2>3. Len(p) \in Nat /\ Len(p) <= Len(p)
    OBVIOUS
  <2>4. PICK F : Streams(F, p, p, yes) /\ M!Streamed(o, p, p, yes) = F[BlocksOf(Len(p))].mem
    BY <1>2, <2>3, StreamedRun
  <2>5. BlocksOf(Len(p)) \in 0..BlocksOf(Len(p))
    BY <2>3, BlocksBound
  <2>6. F[BlocksOf(Len(p))] \in States(Len(p))
    BY <2>4, <2>5 DEF Streams
  <2>7. e = F[BlocksOf(Len(p))].mem
    BY <2>1, <2>2, <2>4
  <2>8. M!encryptSize(o, Len(p)) = Len(p)
    BY <1>2 DEF M!encryptSize
  <2> QED BY <2>6, <2>7, <2>8 DEF States
<1> QED BY <1>1, <1>2

\* Cfb, Ofb and Ctr find the plaintext again.
LEMMA StreamFound ==
  ASSUME Moding, ~M!Padded(o), NEW p \in Seq(M!Byte), NEW fill \in M!Byte,
         NEW e \in M!encryptInto(o, p, fill), NEW same \in BOOLEAN,
         NEW to \in Seq(M!Byte), Len(p) <= Len(to), same /\ o.mode = "cfb" => Len(e) <= BlockLen
  PROVE  SubSeq(M!Streamed(o, M!Set(to, e, 0), e, same), 1, Len(p)) = p
<1> DEFINE len == Len(p)
           n == BlocksOf(len)
           dest == M!Set(to, e, 0)
<1>1. e = M!Streamed(o, p, p, TRUE)
  BY DEF M!encryptInto
<1>2. e \in Seq(M!Byte) /\ Len(e) = len
  <2>1. M!encryptSize(o, Len(p)) = Len(p)
    BY DEF M!encryptSize
  <2> QED BY <2>1, ModeSent
<1>3. PICK yes \in BOOLEAN : yes = TRUE
  OBVIOUS
<1>4. len \in Nat /\ len <= len
  OBVIOUS
<1>5. PICK F : Streams(F, p, p, yes) /\ M!Streamed(o, p, p, yes) = F[BlocksOf(Len(p))].mem
  BY <1>4, StreamedRun
<1>6. /\ dest \in Seq(M!Byte) /\ Len(dest) = Len(to)
      /\ \A i \in 1..Len(to) : dest[i] = IF i > 0 /\ i <= 0 + Len(e) THEN e[i - 0] ELSE to[i]
  BY <1>2, SetIs
<1> HIDE DEF dest
<1>7. \A i \in 1..len : dest[i] = e[i]
  <2>1. Len(to) \in Nat /\ len <= Len(to)
    OBVIOUS
  <2> HIDE DEF len
  <2> QED BY <1>2, <1>4, <1>6, <2>1
<1>8. PICK HH : Streams(HH, dest, e, same) /\ M!Streamed(o, dest, e, same) = HH[BlocksOf(Len(e))].mem
  <2>1. Len(e) <= Len(dest)
    BY <1>2, <1>6
  <2> QED BY <1>2, <1>6, <2>1, StreamedRun
<1>9. Backing(F, HH, p, dest, e, yes, same)
  <2>1. \A i \in 1..Len(p) : e[i] = F[BlocksOf(Len(p))].mem[i]
    BY <1>1, <1>3, <1>5
  <2>2. yes /\ Len(e) = Len(p) /\ Len(p) <= Len(dest) /\ (\A i \in 1..Len(p) : dest[i] = e[i])
        /\ (same /\ o.mode = "cfb" => Len(p) <= BlockLen)
    BY <1>2, <1>3, <1>6, <1>7
  <2> QED BY <1>5, <1>8, <2>1, <2>2 DEF Backing
<1> DEFINE x == M!Streamed(o, dest, e, same)
<1>10. x \in Seq(M!Byte) /\ Len(x) = Len(dest) /\ \A i \in 1..len : x[i] = p[i]
  <2>1. /\ HH[BlocksOf(Len(p))].mem \in Seq(M!Byte)
        /\ Len(HH[BlocksOf(Len(p))].mem) = Len(dest)
        /\ \A i \in 1..Len(p) : HH[BlocksOf(Len(p))].mem[i] = p[i]
    BY <1>2, <1>6, <1>9, StreamedBack
  <2>2. x = HH[BlocksOf(Len(p))].mem
    BY <1>2, <1>8
  <2> HIDE DEF x
  <2> QED BY <2>1, <2>2
<1> HIDE DEF x
<1> DEFINE g == SubSeq(x, 1, len)
<1>11. g \in Seq(M!Byte) /\ Len(g) = len /\ \A i \in 1..len : g[i] = x[i]
  <2>1. len <= Len(x)
    BY <1>6, <1>10
  <2> HIDE DEF len
  <2>2. /\ g \in Seq(M!Byte) /\ Len(g) = (len - 1) + 1
        /\ \A i \in 1..((len - 1) + 1) : g[i] = x[(i - 1) + 1]
    BY <1>4, <1>10, <2>1, SubSeqIs
  <2> HIDE DEF g
  <2> QED BY <1>4, <2>2
<1> HIDE DEF g
<1>12. g = p
  BY <1>10, <1>11, SameSeq
<1> QED BY <1>12 DEF g, x, dest

\* Whatever the class, its padding and its iv, and the length of the message:
\* decryptInto() finds what encryptInto() was given, in a new array or in place, but where
\* FullCrypt says it goes astray.
THEOREM ModeFound ==
  ASSUME Moding, NEW p \in Seq(M!Byte), NEW fill \in M!Byte, NEW e \in M!encryptInto(o, p, fill),
         NEW same \in BOOLEAN, NEW slack \in Nat, same => slack = 0,
         ~Overwritten([plain |-> p, enc |-> e], same)
  PROVE  \/ Found(p, e, same, slack) = {} /\ p = <<>> /\ o.pad = "zero"
         \/ /\ Found(p, e, same, slack) # {}
            /\ \A f \in Found(p, e, same, slack) : SubSeq(f, 1, Len(p)) = p
<1> DEFINE to == Target(p, e, same, slack)
<1>1. /\ same /\ o.mode \in {"cbc", "cfb"} => ~(Len(e) > BlockLen)
      /\ same /\ M!Padded(o) /\ o.pad = "zero" => ~(M!Ends(p) < Len(p))
  BY DEF Overwritten
<1>2. e \in Seq(M!Byte) /\ Len(e) \in Nat /\ Len(p) \in Nat
  <2>1. e \in Seq(M!Byte)
    BY ModeSent
  <2> QED BY <2>1
<1>3. Len(p) <= Len(e)
  <2>1. CASE M!Padded(o)
    <3>1. e \in M!encryptPadded(o, p, fill)
      BY <2>1 DEF M!encryptInto
    <3> QED BY <2>1, <3>1, SealedLonger
  <2>2. CASE ~M!Padded(o)
    <3>1. Len(e) = Len(p)
      BY <2>2, ModeSent DEF M!encryptSize
    <3> QED BY <1>2, <3>1
  <2> QED BY <2>1, <2>2
<1>4. /\ to \in Seq(M!Byte) /\ Len(p) <= Len(to)
      /\ ~same => \A i \in 1..Len(to) : to[i] = M!Zero
  <2>1. CASE same
    BY <1>2, <1>3, <2>1 DEF Target
  <2>2. CASE ~same
    <3>1. to = M!Filled(Len(p) + slack, M!Zero) /\ Len(p) + slack \in Nat
      BY <1>2, <2>2 DEF Target
    <3> HIDE DEF to
    <3>2. /\ to \in Seq(M!Byte) /\ Len(to) = Len(p) + slack
          /\ \A i \in 1..(Len(p) + slack) : to[i] = M!Zero
      BY <3>1, ByteValues, FilledIs
    <3> QED BY <1>2, <3>2
  <2> QED BY <2>1, <2>2
<1>5. Found(p, e, same, slack) = M!decryptInto(o, to, e, same)
  BY DEF Found
<1> HIDE DEF to
<1>6. CASE M!Padded(o)
  <2>1. e \in M!encryptPadded(o, p, fill)
    BY <1>6 DEF M!encryptInto
  <2>2. M!Ends(p) \in 0..Len(p)
    BY EndsIs
  <2>3. /\ same /\ o.mode = "cbc" => Len(e) <= BlockLen
        /\ same /\ o.pad = "zero" => M!Ends(p) = Len(p)
    BY <1>1, <1>2, <1>6, <2>2, Sizes
  <2>4. Ready(p, e, to, same)
    BY <1>4, <2>3 DEF Ready
  <2>5. Found(p, e, same, slack) = M!decryptPadded(o, to, e, same)
    BY <1>5, <1>6 DEF M!decryptInto
  <2> QED BY <1>6, <2>1, <2>4, <2>5, PaddedFound
<1>7. CASE ~M!Padded(o)
  <2> DEFINE x == M!Streamed(o, M!Set(to, e, 0), e, same)
  <2>1. same /\ o.mode = "cfb" => Len(e) <= BlockLen
    BY <1>1, <1>2, Sizes
  <2>2. SubSeq(x, 1, Len(p)) = p
    BY <1>4, <1>7, <2>1, StreamFound
  <2>3. Found(p, e, same, slack) = {x}
    BY <1>5, <1>7 DEF M!decryptInto
  <2> HIDE DEF x
  <2> QED BY <2>2, <2>3
<1> QED BY <1>6, <1>7

-----------------------------------------------------------------------------
(* The invariant. *)

\* What the sender did of a piece, with `at` blocks of keystream behind it
Delivered(piece, at) ==
    IF Stateful THEN piece.enc = StreamInto(at, piece.plain)
    ELSE \E fill \in {0, 255} : piece.enc \in M!encryptInto(o, piece.plain, fill)

\* The blocks taken before each piece, and the plaintext
Stands(B) == /\ B \in [0..Len(wire) -> Nat] /\ B[0] = 0
             /\ \A i \in 1..Len(wire) :
                    /\ B[i] = B[i - 1] + Taken(Len(wire[i].plain))
                    /\ Delivered(wire[i], B[i - 1])
             /\ Stateful => sent = B[Len(wire)] /\ (~astray => got = B[heard])
Says(S) == /\ S \in [0..Len(wire) -> Seq(M!Byte)] /\ S[0] = <<>>
           /\ \A i \in 1..Len(wire) : S[i] = S[i - 1] \o wire[i].plain
           /\ ~astray => plain = S[heard]

\* The pieces on the wire
Pieces == [plain : Seq(M!Byte), enc : Seq(M!Byte)]
\* The invariant
CInv == /\ IsClass(o)
        /\ wire \in Seq(Pieces)
        /\ heard \in 0..Len(wire)
        /\ astray \in BOOLEAN
        /\ ~Stateful => sent = 0 /\ got = 0
        /\ \E B : Stands(B)
        /\ \E S : Says(S)

\* The invariant holds before the first call.
LEMMA CInitially == CInit => CInv
<1> SUFFICES ASSUME CInit PROVE CInv
  OBVIOUS
<1>1. IsClass(o)
  BY CryptAssumption DEF CInit
<1>2. wire = <<>> /\ wire \in Seq(Pieces) /\ Len(wire) = 0 /\ heard = 0 /\ heard \in 0..0
      /\ sent = 0 /\ got = 0 /\ plain = <<>> /\ astray = FALSE
  BY DEF CInit
<1>3. \E B : Stands(B)
  <2> DEFINE B == [i \in 0..0 |-> 0]
  <2>1. B \in [0..0 -> Nat] /\ B[0] = 0
    OBVIOUS
  <2> HIDE DEF B
  <2>2. Stands(B)
    BY <1>2, <2>1 DEF Stands
  <2> QED BY <2>2
<1>4. \E S : Says(S)
  <2> DEFINE S == [i \in 0..0 |-> <<>>]
  <2>1. S \in [0..0 -> Seq(M!Byte)] /\ S[0] = <<>>
    OBVIOUS
  <2> HIDE DEF S
  <2>2. Says(S)
    BY <1>2, <2>1 DEF Says
  <2> QED BY <2>2
<1> QED BY <1>1, <1>2, <1>3, <1>4 DEF CInv

\* encryptInto() of a piece keeps it: the sender stands behind the last piece.
LEMMA SentKeeps ==
  ASSUME CInv, NEW piece \in Messages, NEW fill \in {0, 255}, Sent(piece, fill)
  PROVE  CInv'
<1> DEFINE n == Len(wire)
<1>1. /\ IsClass(o) /\ wire \in Seq(Pieces) /\ heard \in 0..n /\ astray \in BOOLEAN
      /\ ~Stateful => sent = 0 /\ got = 0
  BY DEF CInv
<1>2. PICK B : Stands(B)
  BY DEF CInv
<1>3. PICK S : Says(S)
  BY DEF CInv
<1>4. PICK enc \in Encrypted(piece, fill) : wire' = Append(wire, [plain |-> piece, enc |-> enc])
  BY DEF Sent
<1>5. /\ sent' = IF Stateful THEN sent + Taken(Len(piece)) ELSE sent
      /\ o' = o /\ got' = got /\ heard' = heard /\ plain' = plain /\ astray' = astray
  BY DEF Sent
<1>6. piece \in Seq(M!Byte) /\ fill \in M!Byte /\ n \in Nat /\ B[n] \in Nat /\ S[n] \in Seq(M!Byte)
  BY <1>1, <1>2, <1>3, CryptAssumption DEF M!Byte, Stands, Says
<1>7. /\ enc \in Seq(M!Byte)
      /\ Delivered([plain |-> piece, enc |-> enc], B[n])
  <2>1. CASE Stateful
    <3>1. Streaming
      BY <1>1, <2>1 DEF Streaming, Stateful
    <3>2. enc = StreamInto(sent, piece) /\ sent = B[n]
      BY <1>2, <1>4, <2>1 DEF Encrypted, Stands
    <3>3. enc \in Seq(M!Byte)
      BY <1>6, <3>1, <3>2, StreamIs
    <3> QED BY <2>1, <3>2, <3>3 DEF Delivered
  <2>2. CASE ~Stateful
    <3>1. Moding
      BY <1>1, <2>2 DEF Moding, Stateful
    <3>2. enc \in M!encryptInto(o, piece, fill)
      BY <1>4, <2>2 DEF Encrypted
    <3>3. enc \in Seq(M!Byte)
      BY <1>6, <3>1, <3>2, ModeSent
    <3> QED BY <2>2, <3>2, <3>3 DEF Delivered
  <2> QED BY <2>1, <2>2
<1> DEFINE new == [plain |-> piece, enc |-> enc]
<1>8. new \in Pieces /\ new.plain = piece /\ new.enc = enc
  BY <1>6, <1>7 DEF Pieces
<1> HIDE DEF new
<1>9. /\ wire' \in Seq(Pieces) /\ Len(wire') = n + 1 /\ wire'[n + 1] = new
      /\ \A i \in 1..n : wire'[i] = wire[i]
  <2>1. wire' = Append(wire, new)
    BY <1>4 DEF new
  <2> QED BY <1>1, <1>8, <2>1
<1>10. \A pc, at : Delivered(pc, at)' <=> Delivered(pc, at)
  BY <1>5 DEF Delivered, Stateful, StreamInto, Keystream
<1>11. Stateful' <=> Stateful
  BY <1>5 DEF Stateful
<1>12. BlocksOf(Len(piece)) \in Nat
  <2>1. Len(piece) \in Nat /\ 0 * BlockLen + Len(piece) = Len(piece)
    BY <1>6, Sizes
  <2> QED BY <2>1, BlocksOfAfter
<1>13. \E X : Stands(X)'
  <2>1. B \in [0..n -> Nat] /\ B[0] = 0
    BY <1>2 DEF Stands
  <2>2. PICK X \in [0..(n + 1) -> Nat] : /\ X[0] = 0 /\ X[n + 1] = B[n] + Taken(Len(piece))
                                          /\ \A i \in 0..n : X[i] = B[i]
    <3> DEFINE Y == [i \in 0..(n + 1) |-> IF i = n + 1 THEN B[n] + Taken(Len(piece)) ELSE B[i]]
    <3>1. Y \in [0..(n + 1) -> Nat] /\ Y[0] = 0 /\ Y[n + 1] = B[n] + Taken(Len(piece))
          /\ \A i \in 0..n : Y[i] = B[i]
      BY <1>6, <1>12, <2>1 DEF Taken
    <3> HIDE DEF Y
    <3> QED BY <3>1
  <2>3. ASSUME NEW i \in 1..(n + 1)
        PROVE  X[i] = X[i - 1] + Taken(Len(wire'[i].plain)) /\ Delivered(wire'[i], X[i - 1])
    <3>1. CASE i = n + 1
      <4>1. X[i - 1] = B[n] /\ wire'[i] = new
        BY <1>6, <1>9, <2>2, <3>1
      <4> QED BY <1>7, <1>8, <2>2, <3>1, <4>1 DEF new
    <3>2. CASE i # n + 1
      <4>1. i \in 1..n /\ i - 1 \in 0..n /\ i \in 0..n
        BY <1>6, <3>2
      <4>2. X[i] = B[i] /\ X[i - 1] = B[i - 1] /\ wire'[i] = wire[i]
        BY <1>9, <2>2, <4>1
      <4>3. B[i] = B[i - 1] + Taken(Len(wire[i].plain)) /\ Delivered(wire[i], B[i - 1])
        BY <1>2, <4>1 DEF Stands
      <4> QED BY <4>2, <4>3
    <3> QED BY <3>1, <3>2
  <2>4. Stateful => sent' = X[n + 1] /\ (~astray => got = X[heard])
    BY <1>1, <1>2, <1>5, <2>2 DEF Stands
  <2>5. Stands(X)'
    BY <1>5, <1>9, <1>10, <1>11, <2>2, <2>3, <2>4 DEF Stands
  <2> QED BY <2>5
<1>14. \E X : Says(X)'
  <2>1. S \in [0..n -> Seq(M!Byte)] /\ S[0] = <<>>
    BY <1>3 DEF Says
  <2>2. PICK X \in [0..(n + 1) -> Seq(M!Byte)] : /\ X[0] = <<>> /\ X[n + 1] = S[n] \o piece
                                                /\ \A i \in 0..n : X[i] = S[i]
    <3> DEFINE Y == [i \in 0..(n + 1) |-> IF i = n + 1 THEN S[n] \o piece ELSE S[i]]
    <3>1. S[n] \o piece \in Seq(M!Byte)
      BY <1>6
    <3>2. Y \in [0..(n + 1) -> Seq(M!Byte)] /\ Y[0] = <<>> /\ Y[n + 1] = S[n] \o piece
          /\ \A i \in 0..n : Y[i] = S[i]
      BY <1>6, <2>1, <3>1
    <3> HIDE DEF Y
    <3> QED BY <3>2, SMTT(30)
  <2>3. ASSUME NEW i \in 1..(n + 1)
        PROVE  X[i] = X[i - 1] \o wire'[i].plain
    <3>1. CASE i = n + 1
      <4>1. X[i - 1] = S[n] /\ wire'[i] = new
        BY <1>6, <1>9, <2>2, <3>1
      <4> QED BY <1>8, <2>2, <3>1, <4>1
    <3>2. CASE i # n + 1
      <4>1. i \in 1..n /\ i - 1 \in 0..n /\ i \in 0..n
        BY <1>6, <3>2
      <4>2. X[i] = S[i] /\ X[i - 1] = S[i - 1] /\ wire'[i] = wire[i]
        BY <1>9, <2>2, <4>1
      <4>3. S[i] = S[i - 1] \o wire[i].plain
        BY <1>3, <4>1 DEF Says
      <4> QED BY <4>2, <4>3
    <3> QED BY <3>1, <3>2
  <2>4. ~astray => plain = X[heard]
    BY <1>1, <1>3, <2>2 DEF Says
  <2>5. Says(X)'
    BY <1>5, <1>9, <2>2, <2>3, <2>4 DEF Says
  <2> QED BY <2>5
<1>15. IsClass(o') /\ heard' \in 0..Len(wire') /\ astray' \in BOOLEAN
       /\ (~Stateful => sent' = 0 /\ got' = 0)
  BY <1>1, <1>5, <1>6, <1>9
<1> QED BY <1>9, <1>11, <1>13, <1>14, <1>15 DEF CInv

\* A piece decrypted while nothing went astray is the next of the plaintext.
LEMMA HeardNext ==
  ASSUME CInv, NEW B, NEW S, Stands(B), Says(S), heard + 1 \in 1..Len(wire), ~astray,
         NEW x, x = wire[heard + 1].plain, plain' = plain \o x, ~astray', heard' = heard + 1
  PROVE  plain' = S[heard']
<1>1. S[heard + 1] = S[(heard + 1) - 1] \o wire[heard + 1].plain /\ (heard + 1) - 1 = heard
  <2>1. heard \in Int /\ Len(wire) \in Nat
    BY DEF CInv
  <2>2. \A i \in 1..Len(wire) : S[i] = S[i - 1] \o wire[i].plain
    BY DEF Says
  <2>3. S[heard + 1] = S[(heard + 1) - 1] \o wire[heard + 1].plain
    BY <2>2
  <2> QED BY <2>1, <2>3
<1>2. plain = S[heard]
  BY DEF Says
<1> QED BY <1>1, <1>2

\* decryptInto() of a piece keeps it.
LEMMA HeardKeeps ==
  ASSUME CInv, NEW same \in BOOLEAN, NEW slack \in {0, BlockLen}, Heard(same, slack)
  PROVE  CInv'
<1> DEFINE n == Len(wire)
           piece == wire[heard + 1]
           target == IF same THEN piece.enc
                     ELSE M!Filled(Len(piece.plain) + slack, M!Zero)
           len == IF Stateful /\ o.byTarget THEN Len(target) ELSE Len(piece.enc)
           found == IF Stateful
                    THEN {M!Set(target, StreamInto(got, piece.enc), 0)}
                    ELSE M!decryptInto(o, target, piece.enc, same)
<1>1. /\ IsClass(o) /\ wire \in Seq(Pieces) /\ heard \in 0..n /\ astray \in BOOLEAN
      /\ ~Stateful => sent = 0 /\ got = 0
  BY DEF CInv
<1>2. PICK B : Stands(B)
  BY DEF CInv
<1>3. PICK S : Says(S)
  BY DEF CInv
<1>4. heard < n /\ (same => slack = 0) /\ heard' = heard + 1 /\ o' = o /\ sent' = sent /\ wire' = wire
  BY DEF Heard
<1>5. /\ got' = IF Stateful THEN got + Taken(len) ELSE got
      /\ plain' = IF found = {} THEN plain
                  ELSE plain \o SubSeq(CHOOSE f \in found : TRUE, 1, Len(piece.plain))
      /\ astray' = (\/ astray
                    \/ found = {} /\ piece.plain = <<>> /\ o.pad = "zero"
                    \/ Overwritten(piece, same)
                    \/ o.mode = "rabbit" /\ slack > 0)
  BY Zenon DEF Heard
<1>6. /\ n \in Nat /\ heard \in Nat /\ heard + 1 \in 1..n /\ piece \in Pieces
      /\ (heard + 1) - 1 = heard
  BY <1>1, <1>4
<1>7. /\ piece.plain \in Seq(M!Byte) /\ piece.enc \in Seq(M!Byte)
      /\ piece = [plain |-> piece.plain, enc |-> piece.enc]
  <2> HIDE DEF piece
  <2> QED BY <1>6 DEF Pieces
<1>8. slack \in Nat
  BY Sizes
<1>9. /\ B[heard + 1] = B[heard] + Taken(Len(piece.plain))
      /\ Delivered(piece, B[heard])
      /\ B[heard] \in Nat
  <2>1. B[heard + 1] = B[(heard + 1) - 1] + Taken(Len(wire[heard + 1].plain)) /\ Delivered(wire[heard + 1], B[(heard + 1) - 1])
    BY <1>2, <1>6 DEF Stands
  <2>2. B[heard] \in Nat
    BY <1>1, <1>2 DEF Stands
  <2> QED BY <1>6, <2>1, <2>2
<1> HIDE DEF piece, target, len, found
<1>10. ASSUME ~astray'
       PROVE  /\ ~astray
              /\ Stateful => got' = B[heard + 1]
              /\ plain' = plain \o piece.plain
  <2>1. /\ ~astray /\ ~Overwritten(piece, same) /\ ~(o.mode = "rabbit" /\ slack > 0)
        /\ ~(found = {} /\ piece.plain = <<>> /\ o.pad = "zero")
    BY <1>5, <1>10
  <2>2. CASE Stateful
    <3>1. Streaming
      BY <1>1, <2>2 DEF Streaming, Stateful
    <3>2. piece.enc = StreamInto(got, piece.plain) /\ got = B[heard]
      BY <1>2, <1>9, <2>1, <2>2 DEF Stands, Delivered
    <3>3. StreamInto(got, piece.enc) = piece.plain /\ Len(piece.enc) = Len(piece.plain)
      BY <1>7, <1>9, <3>1, <3>2, StreamIs, StreamTwice
    <3>4. target \in Seq(M!Byte) /\ Len(target) = Len(piece.plain) + slack
      <4>1. CASE same
        BY <1>4, <1>7, <3>3, <4>1 DEF target
      <4>2. CASE ~same
        <5>1. M!Zero \in M!Byte /\ Len(piece.plain) + slack \in Nat
          BY <1>7, <1>8 DEF M!Zero, M!Byte
        <5>2. target = M!Filled(Len(piece.plain) + slack, M!Zero)
          BY <4>2 DEF target
        <5> QED BY <5>1, <5>2, FilledIs
      <4> QED BY <4>1, <4>2
    <3>5. len = Len(piece.plain)
      <4>1. o.byTarget => o.mode = "rabbit"
        BY <3>1, StreamKind
      <4>2. o.byTarget => slack = 0
        BY <1>8, <2>1, <4>1
      <4> QED BY <1>7, <1>8, <2>2, <3>3, <3>4, <4>2 DEF len
    <3>6. got' = B[heard + 1]
      BY <1>5, <1>9, <2>2, <3>2, <3>5
    <3>7. found = {M!Set(target, piece.plain, 0)}
      BY <2>2, <3>3 DEF found
    <3>8. found # {} /\ (CHOOSE f \in found : TRUE) = M!Set(target, piece.plain, 0)
      BY <3>7
    <3>9. SubSeq(M!Set(target, piece.plain, 0), 1, Len(piece.plain)) = piece.plain
      BY <1>7, <1>8, <3>4, SetStart
    <3> QED BY <1>5, <2>1, <3>6, <3>8, <3>9
  <2>3. CASE ~Stateful
    <3>1. Moding
      BY <1>1, <2>3 DEF Moding, Stateful
    <3>2. PICK fill \in {0, 255} : piece.enc \in M!encryptInto(o, piece.plain, fill)
      BY <1>9, <2>3 DEF Delivered
    <3>3. fill \in M!Byte
      BY DEF M!Byte
    <3>4. found = Found(piece.plain, piece.enc, same, slack)
      BY <2>3 DEF found, Found, Target, target
    <3>5. ~Overwritten([plain |-> piece.plain, enc |-> piece.enc], same)
      BY <1>7, <2>1
    <3>6. \/ found = {} /\ piece.plain = <<>> /\ o.pad = "zero"
          \/ /\ found # {}
             /\ \A f \in found : SubSeq(f, 1, Len(piece.plain)) = piece.plain
      BY <1>4, <1>7, <1>8, <3>1, <3>2, <3>3, <3>4, <3>5, ModeFound
    <3>7. (CHOOSE f \in found : TRUE) \in found
      BY <2>1, <3>6
    <3> QED BY <1>5, <2>1, <2>3, <3>6, <3>7
  <2> QED BY <2>2, <2>3
<1>11. \A pc, at : Delivered(pc, at)' <=> Delivered(pc, at)
  BY <1>4 DEF Delivered, Stateful, StreamInto, Keystream
<1>12. Stateful' <=> Stateful
  BY <1>4 DEF Stateful
<1>13. Stands(B)'
  <2>1. Stateful' => sent' = B[Len(wire')] /\ (~astray' => got' = B[heard'])
    BY <1>2, <1>4, <1>10, <1>12 DEF Stands
  <2> QED BY <1>2, <1>4, <1>11, <2>1 DEF Stands
<1>14. Says(S)'
  <2>1. ~astray' => plain' = S[heard']
    BY <1>2, <1>3, <1>4, <1>6, <1>10, HeardNext DEF piece
  <2> QED BY <1>3, <1>4, <2>1 DEF Says
<1>15. IsClass(o') /\ wire' \in Seq(Pieces) /\ heard' \in 0..Len(wire') /\ astray' \in BOOLEAN
       /\ (~Stateful' => sent' = 0 /\ got' = 0)
  BY <1>1, <1>4, <1>5, <1>6, <1>12
<1> QED BY <1>13, <1>14, <1>15 DEF CInv

\* Concatenation in any order
LEMMA JoinAssoc ==
  ASSUME NEW S, NEW a \in Seq(S), NEW b \in Seq(S), NEW c \in Seq(S)
  PROVE  (a \o b) \o c = a \o (b \o c)
OBVIOUS

\* The ciphertext f of some pieces decrypts to what leads from s0 to s, and
\* takes d blocks, whole ones when more is to follow.
JoinedTo(s0, t, f, s, d, more) == /\ f \in Seq(M!Byte) /\ d \in Nat
                                  /\ s0 \o StreamInto(t, f) = s
                                  /\ BlocksOf(Len(f)) = d
                                  /\ more => Len(f) = d * BlockLen

Becomes(e, t, p) == e = StreamInto(t, p)

\* HeardJoined: no piece yet
LEMMA JoinedStart ==
  ASSUME Streaming, NEW t \in Nat, NEW s \in Seq(M!Byte), NEW more
  PROVE  JoinedTo(s, t, <<>>, s, 0, more)
<1>1. <<>> \in Seq(M!Byte) /\ Len(<<>>) = 0
  OBVIOUS
<1>2. StreamInto(t, <<>>) \in Seq(M!Byte) /\ Len(StreamInto(t, <<>>)) = 0
  BY <1>1, StreamIs
<1> DEFINE x == StreamInto(t, <<>>)
<1> HIDE DEF x
<1>3. s \o x = s
  BY <1>2 DEF x
<1>4. BlocksOf(0) = 0 /\ 0 = 0 * BlockLen
  <2>1. 0 % BlockLen = 0 /\ BlocksOf(0) \in Nat /\ 0 * BlockLen + 0 = 0
    BY Sizes, BlocksOfAfter
  <2>2. 0 = BlocksOf(0) * BlockLen
    BY <2>1, BlocksOfWhole
  <2>3. BlocksOf(0) # 0 => 0 * BlockLen + BlockLen <= BlocksOf(0) * BlockLen
    BY <2>1, TimesMono
  <2> QED BY <2>1, <2>2, <2>3, Sizes
<1> QED BY <1>1, <1>3, <1>4 DEF JoinedTo, x

\* ... one more, behind whole blocks
LEMMA JoinedStep ==
  ASSUME Streaming, NEW t \in Nat, NEW s0 \in Seq(M!Byte), NEW f, NEW s, NEW q,
         JoinedTo(s0, t, f, s, q, TRUE),
         NEW p \in Seq(M!Byte), NEW e, Becomes(e, t + q, p), NEW more,
         more => Len(e) % BlockLen = 0
  PROVE  /\ JoinedTo(s0, t, f \o e, s \o p, q + BlocksOf(Len(p)), more)
         /\ BlocksOf(Len(p)) \in Nat
<1>1. /\ f \in Seq(M!Byte) /\ q \in Nat /\ Len(f) = q * BlockLen /\ t + q \in Nat
      /\ s0 \o StreamInto(t, f) = s
  BY DEF JoinedTo
<1>2. /\ e \in Seq(M!Byte) /\ Len(e) = Len(p) /\ StreamInto(t + q, e) = p
  BY <1>1, StreamIs, StreamTwice DEF Becomes
<1>3. StreamInto(t, f \o e) = StreamInto(t, f) \o p
  <2>1. StreamInto(t, f \o e) = StreamInto(t, f) \o StreamInto(t + q, e)
    BY <1>1, <1>2, StreamJoin, ZenonT(30)
  <2> QED BY <1>2, <2>1
<1>4. StreamInto(t, f) \in Seq(M!Byte)
  BY <1>1, StreamIs
<1> DEFINE x == StreamInto(t, f)
<1>5. s0 \o (x \o p) = (s0 \o x) \o p
  <2> HIDE DEF x
  <2>1. x \in Seq(M!Byte)
    BY <1>4 DEF x
  <2> QED BY <2>1, JoinAssoc
<1>6. s0 \o StreamInto(t, f \o e) = s \o p
  BY <1>1, <1>3, <1>5
<1>7. Len(f \o e) = q * BlockLen + Len(p) /\ Len(p) \in Nat /\ f \o e \in Seq(M!Byte)
  <2>0. f \in Seq(M!Byte) /\ e \in Seq(M!Byte)
    BY <1>1, <1>2
  <2>1. Len(f \o e) = Len(f) + Len(e) /\ f \o e \in Seq(M!Byte) /\ Len(p) \in Nat
    BY <2>0, ConcatIs
  <2> QED BY <1>1, <1>2, <2>1
<1>8. BlocksOf(Len(f \o e)) = q + BlocksOf(Len(p)) /\ BlocksOf(Len(p)) \in Nat
  BY <1>1, <1>7, BlocksOfAfter
<1>9. ASSUME more
      PROVE  Len(f \o e) = (q + BlocksOf(Len(p))) * BlockLen
  <2>1. Len(p) = BlocksOf(Len(p)) * BlockLen
    BY <1>2, <1>7, <1>9, BlocksOfWhole
  <2> DEFINE d == BlocksOf(Len(p))
             l == Len(p)
             g == Len(f \o e)
  <2>2. d \in Nat /\ q \in Nat /\ l = d * BlockLen /\ g = q * BlockLen + l
    BY <1>1, <1>7, <1>8, <2>1
  <2> HIDE DEF d, l, g
  <2>3. g = (q + d) * BlockLen
    BY <2>2, Sizes
  <2> QED BY <2>3 DEF g, d
<1> DEFINE g == f \o e
           d == q + BlocksOf(Len(p))
           u == s \o p
<1>10. d \in Nat /\ g \in Seq(M!Byte) /\ s0 \o StreamInto(t, g) = u /\ BlocksOf(Len(g)) = d
       /\ (more => Len(g) = d * BlockLen)
  BY <1>1, <1>6, <1>7, <1>8, <1>9
<1> HIDE DEF g, d, u, x
<1>11. JoinedTo(s0, t, g, u, d, more)
  BY <1>10 DEF JoinedTo
<1> QED BY <1>8, <1>11 DEF g, d, u

\* decryptInto() of the pieces left, in one call, keeps it.
LEMMA JoinedKeeps ==
  ASSUME CInv, HeardJoined
  PROVE  CInv'
<1> DEFINE n == Len(wire)
           Def(f) == f = [i \in heard..n |-> IF i = heard THEN <<>> ELSE f[i - 1] \o wire[i].enc]
           F == CHOOSE f : Def(f)
           rest == F[n]
<1>1. /\ IsClass(o) /\ wire \in Seq(Pieces) /\ heard \in 0..n /\ astray \in BOOLEAN
  BY DEF CInv
<1>2. PICK B : Stands(B)
  BY DEF CInv
<1>3. PICK S : Says(S)
  BY DEF CInv
<1>4. /\ Stateful /\ heard + 1 < n
      /\ heard' = n /\ o' = o /\ sent' = sent /\ wire' = wire
      /\ astray' = (astray \/ \E i \in (heard + 1)..(n - 1) : Len(wire[i].enc) % BlockLen # 0)
  BY DEF HeardJoined
<1>5. plain' = plain \o StreamInto(got, rest) /\ got' = got + Taken(Len(rest))
  BY Zenon DEF HeardJoined
<1> HIDE DEF Def
<1>6. n \in Nat /\ heard \in Nat /\ \A i \in 1..n : wire[i] \in Pieces
  BY <1>1
<1>7. \A i \in 1..n : wire[i].plain \in Seq(M!Byte) /\ wire[i].enc \in Seq(M!Byte)
  BY <1>6 DEF Pieces
<1>8. Def(F)
  <2> DEFINE HH == [x \in Seq(M!Byte) \X Nat |-> IF x[2] \in 1..(n - heard)
                                                THEN x[1] \o wire[heard + x[2]].enc ELSE <<>>]
             m == n - heard
             T == Seq(M!Byte)
  <2>1. m \in Nat /\ <<>> \in T
    BY <1>1, <1>6
  <2>2. HH \in [T \X Nat -> T]
    <3>1. ASSUME NEW x \in T \X Nat, x[2] \in 1..(n - heard)
          PROVE  x[1] \o wire[heard + x[2]].enc \in T
      <4>1. heard + x[2] \in 1..n /\ x[1] \in T
        BY <1>6, <3>1
      <4>2. wire[heard + x[2]].enc \in T
        BY <1>7, <4>1
      <4> QED BY <4>1, <4>2
    <3> QED BY <2>1, <3>1
  <2>3. PICK f \in [0..m -> T] : Steps(f, <<>>, HH, m)
    <3> HIDE DEF HH, m, T
    <3> QED BY <2>1, <2>2, Recursive
  <2>4. f[0] = <<>> /\ \A k \in 1..m : f[k] = f[k - 1] \o wire[heard + k].enc
    <3>1. ASSUME NEW k \in 1..m
          PROVE  f[k] = f[k - 1] \o wire[heard + k].enc
      <4>1. f[k] = HH[<<f[k - 1], k>>]
        BY <2>3, <3>1 DEF Steps
      <4>2. k - 1 \in 0..m /\ k \in Nat
        BY <2>1
      <4>3. f[k - 1] \in T
        BY <2>3, <4>2
      <4>4. <<f[k - 1], k>> \in T \X Nat
        BY <4>2, <4>3
      <4>5. HH[<<f[k - 1], k>>] = f[k - 1] \o wire[heard + k].enc
        BY <3>1, <4>4
      <4> QED BY <4>1, <4>5
    <3> QED BY <2>3, <3>1 DEF Steps
  <2> DEFINE g == [i \in heard..n |-> f[i - heard]]
  <2>5. Def(g)
    <3>1. ASSUME NEW i \in heard..n
          PROVE  g[i] = IF i = heard THEN <<>> ELSE g[i - 1] \o wire[i].enc
      <4>1. CASE i = heard
        <5>1. g[i] = f[0]
          BY <1>6, <4>1
        <5> QED BY <2>4, <4>1, <5>1
      <4>2. CASE i # heard
        <5>1. g[i] = f[i - heard] /\ g[i - 1] = f[(i - heard) - 1] /\ i - heard \in 1..m
              /\ heard + (i - heard) = i
          BY <1>6, <4>2
        <5> HIDE DEF g, m
        <5> QED BY <2>4, <4>2, <5>1
      <4> QED BY <4>1, <4>2
    <3>2. g = [i \in heard..n |-> g[i]]
      OBVIOUS
    <3> HIDE DEF g
    <3> QED BY <3>1, <3>2 DEF Def
  <2> HIDE DEF g
  <2> QED BY <2>5, Zenon
<1> HIDE DEF F
<1>9. F[heard] = <<>> /\ \A i \in (heard + 1)..n : F[i] = F[i - 1] \o wire[i].enc
  <2>1. F = [i \in heard..n |-> IF i = heard THEN <<>> ELSE F[i - 1] \o wire[i].enc]
    BY <1>8 DEF Def
  <2>2. heard \in heard..n /\ \A i \in (heard + 1)..n : i \in heard..n /\ i # heard
    BY <1>1, <1>6
  <2> QED BY <2>1, <2>2
<1>10. Streaming
  BY <1>1, <1>4 DEF Streaming, Stateful
<1>11. ASSUME ~astray'
       PROVE  plain' = S[n] /\ got' = B[n]
  <2>1. ~astray /\ \A i \in (heard + 1)..(n - 1) : Len(wire[i].enc) % BlockLen = 0
    BY <1>4, <1>11
  <2>2. got = B[heard] /\ plain = S[heard] /\ B[heard] \in Nat /\ S[heard] \in Seq(M!Byte)
    BY <1>1, <1>2, <1>3, <1>4, <2>1 DEF Stands, Says
  <2> DEFINE Q(i) == JoinedTo(S[heard], got, F[i], S[i], B[i] - got, i < n)
             P == {k \in Nat : Q(heard + k)}
  <2>3. 0 \in P
    <3>1. heard + 0 = heard /\ B[heard] - got = 0
      BY <1>6, <2>2
    <3>2. Q(heard)
      BY <1>9, <1>10, <2>2, <3>1, JoinedStart
    <3> HIDE DEF Q
    <3> QED BY <3>1, <3>2
  <2>4. ASSUME NEW k \in Nat, k < n - heard /\ k \in P
        PROVE  k + 1 \in P
    <3> DEFINE i == heard + k
               q == B[i] - got
               p == wire[i + 1].plain
               e == wire[i + 1].enc
    <3>1. /\ i \in 0..(n - 1) /\ heard + (k + 1) = i + 1 /\ i + 1 \in 1..n /\ i + 1 \in (heard + 1)..n
          /\ (i + 1) - 1 = i /\ i < n /\ (i + 1 < n => i + 1 \in (heard + 1)..(n - 1))
      BY <1>6, <2>4
    <3>2. JoinedTo(S[heard], got, F[i], S[i], q, TRUE)
      <4>1. Q(i)
        BY <2>4
      <4>2. (i < n) = TRUE
        BY <3>1
      <4> HIDE DEF i
      <4> QED BY <4>1, <4>2
    <3> HIDE DEF i, p, e
    <3>3. B[i] = got + q /\ B[i] \in Nat /\ got \in Nat /\ q \in Nat
      <4>1. B[i] \in Nat
        BY <1>2, <1>6, <3>1 DEF Stands
      <4>2. q \in Nat
        BY <3>2 DEF JoinedTo
      <4> QED BY <2>2, <4>1, <4>2
    <3>4. /\ S[i + 1] = S[i] \o p
          /\ B[i + 1] = B[i] + BlocksOf(Len(p))
          /\ e = StreamInto(B[i], p)
      <4>1. S[i + 1] = S[(i + 1) - 1] \o wire[i + 1].plain
        BY <1>3, <3>1 DEF Says
      <4>2. B[i + 1] = B[(i + 1) - 1] + BlocksOf(Len(wire[i + 1].plain))
            /\ Delivered(wire[i + 1], B[(i + 1) - 1])
        BY <1>2, <3>1 DEF Stands, Taken
      <4> QED BY <1>4, <3>1, <4>1, <4>2 DEF Delivered, e, p
    <3>5. F[i + 1] = F[i] \o e
      <4>1. F[i + 1] = F[(i + 1) - 1] \o wire[i + 1].enc
        BY <1>9, <3>1
      <4> QED BY <3>1, <4>1 DEF e
    <3>6. p \in Seq(M!Byte)
      BY <1>7, <3>1 DEF p
    <3>7. i + 1 < n => Len(e) % BlockLen = 0
      BY <2>1, <3>1 DEF e
    <3> HIDE DEF q
    <3>8. /\ JoinedTo(S[heard], got, F[i] \o e, S[i] \o p, q + BlocksOf(Len(p)), i + 1 < n)
          /\ BlocksOf(Len(p)) \in Nat
      <4>1. e = StreamInto(got + q, p)
        BY <3>3, <3>4
      <4> DEFINE more == i + 1 < n
                 f == F[i]
                 s == S[i]
                 s0 == S[heard]
                 t == got
      <4>2. t \in Nat /\ s0 \in Seq(M!Byte) /\ JoinedTo(s0, t, f, s, q, TRUE)
            /\ Becomes(e, t + q, p) /\ (more => Len(e) % BlockLen = 0)
        BY <2>2, <3>2, <3>7, <4>1 DEF Becomes
      <4> HIDE DEF more, f, s, s0, t
      <4>3. JoinedTo(s0, t, f \o e, s \o p, q + BlocksOf(Len(p)), more) /\ BlocksOf(Len(p)) \in Nat
        BY <1>10, <3>6, <4>2, JoinedStep
      <4> QED BY <4>3 DEF more, f, s, s0, t
    <3>9. B[i + 1] - got = q + BlocksOf(Len(p))
      <4> DEFINE d == BlocksOf(Len(p))
      <4>1. d \in Nat /\ B[i + 1] = B[i] + d
        BY <3>4, <3>8
      <4> HIDE DEF d
      <4>2. B[i + 1] - got = q + d
        BY <3>3, <4>1
      <4> QED BY <4>2 DEF d
    <3>10. Q(i + 1)
      BY <3>4, <3>5, <3>8, <3>9
    <3> HIDE DEF Q
    <3> QED BY <3>1, <3>10
  <2>5. \A k \in 0..(n - heard) : k \in P
    <3>1. n - heard \in Nat
      BY <1>1, <1>6
    <3> HIDE DEF P
    <3> QED BY <2>3, <2>4, <3>1, UpTo
  <2>6. Q(n)
    <3>1. n - heard \in 0..(n - heard) /\ heard + (n - heard) = n
      BY <1>1, <1>6
    <3>2. n - heard \in P
      BY <2>5, <3>1
    <3>3. Q(heard + (n - heard))
      BY <3>2
    <3> HIDE DEF Q
    <3> QED BY <3>1, <3>3
  <2>7. /\ S[heard] \o StreamInto(got, F[n]) = S[n]
        /\ B[n] - got \in Nat
        /\ BlocksOf(Len(F[n])) = B[n] - got
    BY <2>6 DEF JoinedTo
  <2>8. B[n] \in Nat
    BY <1>2, <1>6 DEF Stands
  <2>9. got' = B[n]
    BY <1>5, <2>2, <2>7, <2>8 DEF Taken
  <2> QED BY <1>5, <2>2, <2>7, <2>9
<1>12. \A pc, at : Delivered(pc, at)' <=> Delivered(pc, at)
  BY <1>4 DEF Delivered, Stateful, StreamInto, Keystream
<1>13. Stateful' <=> Stateful
  BY <1>4 DEF Stateful
<1>14. Stands(B)'
  <2>1. Stateful' => sent' = B[Len(wire')] /\ (~astray' => got' = B[heard'])
    BY <1>2, <1>4, <1>11, <1>13 DEF Stands
  <2> QED BY <1>2, <1>4, <1>12, <2>1 DEF Stands
<1>15. Says(S)'
  <2>1. ~astray' => plain' = S[heard']
    BY <1>4, <1>11
  <2> QED BY <1>3, <1>4, <2>1 DEF Says
<1>16. IsClass(o') /\ wire' \in Seq(Pieces) /\ heard' \in 0..Len(wire') /\ astray' \in BOOLEAN
       /\ (~Stateful' => sent' = 0 /\ got' = 0)
  BY <1>1, <1>4, <1>6, <1>13
<1> QED BY <1>14, <1>15, <1>16 DEF CInv

\* Every step keeps it.
LEMMA NextKeeps == CInv /\ [CNext]_cryptVars => CInv'
<1> SUFFICES ASSUME CInv, [CNext]_cryptVars PROVE CInv'
  OBVIOUS
<1>1. ASSUME NEW piece \in Messages, NEW fill \in {0, 255}, Sent(piece, fill)
      PROVE  CInv'
  BY <1>1, SentKeeps
<1>2. ASSUME NEW same \in BOOLEAN, NEW slack \in {0, BlockLen}, Heard(same, slack)
      PROVE  CInv'
  BY <1>2, HeardKeeps
<1>3. CASE HeardJoined
  BY <1>3, JoinedKeeps
<1>4. CASE UNCHANGED cryptVars
  <2>1. /\ o' = o /\ sent' = sent /\ got' = got /\ wire' = wire /\ heard' = heard
        /\ plain' = plain /\ astray' = astray
    BY <1>4 DEF cryptVars
  <2>2. \A pc, at : Delivered(pc, at)' <=> Delivered(pc, at)
    BY <2>1 DEF Delivered, Stateful, StreamInto, Keystream
  <2>3. Stateful' <=> Stateful
    BY <2>1 DEF Stateful
  <2>4. \A B : Stands(B)' <=> Stands(B)
    BY <2>1, <2>2, <2>3 DEF Stands
  <2>5. \A S : Says(S)' <=> Says(S)
    BY <2>1 DEF Says
  <2> QED BY <2>1, <2>3, <2>4, <2>5 DEF CInv
<1> QED BY <1>1, <1>2, <1>3, <1>4 DEF CNext

\* The invariant gives that the objects are in step ...
LEMMA InStepHolds == CInv => InStep
<1> SUFFICES ASSUME CInv, ~astray, heard = Len(wire) PROVE sent = got
  BY DEF InStep
<1>1. CASE Stateful
  <2>1. PICK B : Stands(B)
    BY DEF CInv
  <2> QED BY <1>1, <2>1 DEF Stands
<1>2. CASE ~Stateful
  BY <1>2 DEF CInv
<1> QED BY <1>1, <1>2

\* ... and that what is found is what was sent.
LEMMA CameBackHolds == CInv => CameBack
<1> SUFFICES ASSUME CInv PROVE CameBack
  OBVIOUS
<1> DEFINE n == Len(wire)
<1>1. IsClass(o) /\ wire \in Seq(Pieces) /\ heard \in 0..n /\ n \in Nat
  BY DEF CInv
<1>2. ASSUME ~astray
      PROVE  plain = Said
  <2>1. PICK S : Says(S)
    BY DEF CInv
  <2> DEFINE Def(f) == f = [i \in 0..heard |-> IF i = 0 THEN <<>> ELSE f[i - 1] \o wire[i].plain]
             F == CHOOSE f : Def(f)
             g == [i \in 0..heard |-> S[i]]
  <2>2. Said = F[heard]
    BY Zenon DEF Said
  <2>3. S[0] = <<>> /\ (\A i \in 1..n : S[i] = S[i - 1] \o wire[i].plain) /\ plain = S[heard]
    BY <1>2, <2>1 DEF Says
  <2>4. Def(g)
    <3>1. ASSUME NEW i \in 0..heard
          PROVE  g[i] = IF i = 0 THEN <<>> ELSE g[i - 1] \o wire[i].plain
      <4>1. CASE i = 0
        BY <2>3, <4>1
      <4>2. CASE i # 0
        <5>1. i \in 1..n /\ i - 1 \in 0..heard /\ i \in 0..heard
          BY <1>1, <4>2
        <5>2. g[i] = S[i] /\ g[i - 1] = S[i - 1]
          BY <5>1
        <5> HIDE DEF g
        <5> QED BY <2>3, <4>2, <5>1, <5>2
      <4> QED BY <4>1, <4>2
    <3>2. g = [i \in 0..heard |-> g[i]]
      OBVIOUS
    <3> HIDE DEF g
    <3> QED BY <3>1, <3>2
  <2>5. Def(F)
    <3> HIDE DEF Def, g
    <3> QED BY <2>4
  <2> HIDE DEF F, g
  <2>6. \A i \in 0..heard : F[i] = IF i = 0 THEN <<>> ELSE F[i - 1] \o wire[i].plain
    BY <2>5
  <2> HIDE DEF Def
  <2> DEFINE P == {i \in Nat : i <= heard => F[i] = S[i]}
  <2>7. 0 \in P
    <3>1. 0 \in 0..heard
      BY <1>1
    <3> QED BY <2>3, <2>6, <3>1
  <2>8. ASSUME NEW k \in Nat, k < heard /\ k \in P
        PROVE  k + 1 \in P
    <3>1. k + 1 \in 0..heard /\ k + 1 \in 1..n /\ (k + 1) - 1 = k /\ k + 1 # 0 /\ F[k] = S[k]
      BY <1>1, <2>8
    <3>2. F[k + 1] = F[(k + 1) - 1] \o wire[k + 1].plain
      BY <2>6, <3>1
    <3>3. S[k + 1] = S[(k + 1) - 1] \o wire[k + 1].plain
      BY <2>3, <3>1
    <3>4. F[k + 1] = S[k + 1]
      <4> HIDE DEF P
      <4> QED BY <3>1, <3>2, <3>3
    <3> QED BY <3>4
  <2>9. heard \in P
    <3>1. heard \in Nat /\ heard \in 0..heard
      BY <1>1
    <3> HIDE DEF P
    <3> QED BY <2>7, <2>8, <3>1, UpTo
  <2> QED BY <1>1, <2>2, <2>3, <2>9
<1>3. ASSUME NEW i \in 1..n, ~Stateful
      PROVE  Len(wire[i].enc) = M!encryptSize(o, Len(wire[i].plain))
  <2>1. PICK B : Stands(B)
    BY DEF CInv
  <2>2. Delivered(wire[i], B[i - 1])
    BY <2>1 DEF Stands
  <2>3. PICK fill \in {0, 255} : wire[i].enc \in M!encryptInto(o, wire[i].plain, fill)
    BY <1>3, <2>2 DEF Delivered
  <2>4. fill \in M!Byte /\ Moding /\ wire[i].plain \in Seq(M!Byte)
    <3>1. wire[i] \in Pieces
      BY <1>1
    <3> QED BY <1>1, <1>3, <3>1 DEF M!Byte, Moding, Stateful, Pieces
  <2> QED BY <2>3, <2>4, ModeSent
<1> QED BY <1>2, <1>3 DEF CameBack

\* Once all is decrypted the two objects stand at the same block of keystream.
THEOREM ObjectsInStep == CSpec => []InStep
<1>1. CInit => CInv
  BY CInitially
<1>2. CInv /\ [CNext]_cryptVars => CInv'
  BY NextKeeps
<1>3. CInv => InStep
  BY InStepHolds
<1> QED BY <1>1, <1>2, <1>3, PTL DEF CSpec

\* Whatever the class, its padding and iv, its block cipher and the messages, the receiver
\* finds them again.
THEOREM AlwaysCameBack == CSpec => []CameBack
<1>1. CInit => CInv
  BY CInitially
<1>2. CInv /\ [CNext]_cryptVars => CInv'
  BY NextKeeps
<1>3. CInv => CameBack
  BY CameBackHolds
<1> QED BY <1>1, <1>2, <1>3, PTL DEF CSpec

-----------------------------------------------------------------------------
(* Hmac. *)

\* An Hmac refers to the pair of shared hashes with the name f and to its own _iHash
Joined(c, f) == [oHash |-> OuterOf(f), start |-> StartOf(f), iHash |-> Own(c)]
Refs == [oHash : Addr, start : Addr, iHash : Addr]
Hash(m, spent) == [msg |-> m, spent |-> spent]

\* The pair of c is what the constructor made of the key of c
Paired(c, f) == /\ mac[c] = Joined(c, f)
                /\ heap[OuterOf(f)] = Hash(Tagged(key[c], OPad), FALSE)
                /\ heap[StartOf(f)] = Hash(Tagged(key[c], IPad), FALSE)

\* _iHash is the inner hash with the message, until sumIn()
Inner(c) == Tagged(key[c], IPad) \o msg[c]
Holds(c) == heap[Own(c)] = Hash(Inner(c), FALSE) \/ heap[Own(c)] = Hash(Inner(c), TRUE)

\* Those who share a pair have one key: no call on one of them changes what another needs
HeapOK == heap = [a \in Addr |-> heap[a]]
Inv ==
  /\ HeapOK
  /\ key \in [Mac -> MacKeys]
  /\ msg \in [Mac -> Seq(MacByte)]
  /\ mac \in [Mac -> Refs]
  /\ \A c \in Mac : \E f \in Mac : Paired(c, f)
  /\ \A c, d \in Mac, f \in Mac : Paired(c, f) /\ Paired(d, f) => key[c] = key[d]
  /\ \A c \in Mac : Holds(c)

-----------------------------------------------------------------------------
(* Places. *)

LEMMA Apart ==
  ASSUME NEW c \in Mac, NEW d \in Mac
  PROVE  /\ Caller \in Addr /\ Own(c) \in Addr /\ OuterOf(c) \in Addr /\ StartOf(c) \in Addr
         /\ Own(c) # Caller /\ OuterOf(c) # Caller /\ StartOf(c) # Caller
         /\ Own(c) # OuterOf(d) /\ Own(c) # StartOf(d) /\ OuterOf(c) # StartOf(d)
         /\ (Own(c) = Own(d) => c = d)
         /\ (OuterOf(c) = OuterOf(d) => c = d)
         /\ (StartOf(c) = StartOf(d) => c = d)
  BY DEF Caller, Own, OuterOf, StartOf, Addr

LEMMA JoinedAgain ==
  ASSUME NEW c \in Mac, NEW d \in Mac, NEW f \in Mac
  PROVE  [Joined(c, f) EXCEPT !.iHash = Own(d)] = Joined(d, f)
<1> DEFINE r == [x \in {"oHash", "start", "iHash"} |->
                  IF x = "oHash" THEN OuterOf(f) ELSE IF x = "start" THEN StartOf(f) ELSE Own(d)]
<1>1. [Joined(c, f) EXCEPT !.iHash = Own(d)] = r
  BY DEF Joined
<1>2. Joined(d, f) = r
  BY DEF Joined
<1> QED BY <1>1, <1>2

LEMMA JoinedType == \A c, f \in Mac : Joined(c, f) \in Refs
  BY Apart DEF Joined, Refs

\* Fewer others than objects: a name is left for the shared hashes of a new Hmac
LEMMA NameLeft ==
  ASSUME IsFiniteSet(Mac), NEW c \in Mac
  PROVE  \E f \in Mac : \A d \in Mac \ {c} : mac[d].oHash # OuterOf(f)
<1> SUFFICES ASSUME \A f \in Mac : \E d \in Mac \ {c} : mac[d].oHash = OuterOf(f)
             PROVE  FALSE
  OBVIOUS
<1> DEFINE user == [f \in Mac |-> CHOOSE d \in Mac \ {c} : mac[d].oHash = OuterOf(f)]
<1>1. \A f \in Mac : user[f] \in Mac \ {c} /\ mac[user[f]].oHash = OuterOf(f)
  OBVIOUS
<1>2. IsFiniteSet(Mac \ {c}) /\ Cardinality(Mac \ {c}) = Cardinality(Mac) - 1
      /\ Cardinality(Mac) \in Nat
  BY FS_RemoveElement, FS_CardinalityType
<1>3. user \in Injection(Mac, Mac \ {c})
  <2>1. user \in [Mac -> Mac \ {c}]
    BY <1>1
  <2>2. \A f, g \in Mac : user[f] = user[g] => f = g
    <3> HIDE DEF user
    <3>1. \A f, g \in Mac : user[f] = user[g] => OuterOf(f) = OuterOf(g)
      BY <1>1
    <3> QED BY <3>1, Apart
  <2> HIDE DEF user
  <2> QED BY <2>1, <2>2 DEF Injection, IsInjective
<1> HIDE DEF user
<1>4. Cardinality(Mac) <= Cardinality(Mac \ {c})
  BY <1>2, <1>3, FS_Injection
<1> QED BY <1>2, <1>4

-----------------------------------------------------------------------------
(* Keys, blocks and messages. *)

\* A key's block has as many elements as the hash's; hashing a zero key again does nothing
LEMMA TaggedSeq ==
  ASSUME NEW k, NEW pad
  PROVE  /\ DOMAIN Tagged(k, pad) = 1..HashBlockSize
         /\ \E S : MacByte \subseteq S /\ Tagged(k, pad) \in Seq(S)
<1> DEFINE t == Tagged(k, pad)
           S == MacByte \union {t[i] : i \in 1..HashBlockSize}
<1>1. HashBlockSize \in Nat /\ DOMAIN t = 1..HashBlockSize /\ t \in [1..HashBlockSize -> S]
  BY HmacAssumption DEF Tagged
<1> HIDE DEF t
<1>2. t \in Seq(S)
  BY <1>1
<1> QED BY <1>1, <1>2 DEF t

LEMMA Associates ==
  ASSUME NEW S, NEW r \in Seq(S), NEW s \in Seq(S), NEW t \in Seq(S)
  PROVE  (r \o s) \o t = r \o (s \o t)
  OBVIOUS

LEMMA TaggedAppend ==
  ASSUME NEW k, NEW pad, NEW m \in Seq(MacByte), NEW data \in Seq(MacByte)
  PROVE  /\ (Tagged(k, pad) \o m) \o data = Tagged(k, pad) \o (m \o data)
         /\ Tagged(k, pad) \o <<>> = Tagged(k, pad)
         /\ <<>> \o Tagged(k, pad) = Tagged(k, pad)
<1>1. PICK S : MacByte \subseteq S /\ Tagged(k, pad) \in Seq(S)
  BY TaggedSeq
<1>2. m \in Seq(S) /\ data \in Seq(S)
  BY <1>1
<1> QED BY <1>1, <1>2, Associates

LEMMA ConcatAt ==
  ASSUME NEW S, NEW s \in Seq(S), NEW t \in Seq(S), NEW i \in 1..(Len(s) + Len(t))
  PROVE  (s \o t)[i] = IF i <= Len(s) THEN s[i] ELSE t[i - Len(s)]
  OBVIOUS

LEMMA ZeroKeyKept ==
  ASSUME NEW h
  PROVE  FixedHash(h, ZeroKey) = h
<1>1. HashBlockSize \in Nat /\ Len(ZeroKey) = HashBlockSize
  BY HmacAssumption DEF ZeroKey
<1> QED BY <1>1 DEF FixedHash

\* What the constructor xors is RFC 2104's block, for keys shorter than a block, as long
\* and longer
LEMMA KeyBlock ==
  ASSUME NEW k \in MacKeys, NEW pad
  PROVE  Xored(FixKey(k), pad) = Tagged(k, pad)
<1>1. HashBlockSize \in Nat /\ 1 < HashBlockSize /\ k \in Seq(MacByte) /\ Len(k) \in Nat
  BY HmacAssumption
<1>2. CASE Len(k) > HashBlockSize
  <2>1. <<>> \o k = k
    BY <1>1
  <2>2. FixKey(k) = H(k)
    BY <1>2, <2>1 DEF FixKey, Sum, Written, EmptyHash, H
  <2>3. Len(H(k)) = 1 /\ H(k) \in Seq({H(k)[1]})
    BY DEF H
  <2>4. ~(Len(k) <= HashBlockSize)
    BY <1>1, <1>2
  <2>5. Block(k) = H(k) \o [i \in 1..(HashBlockSize - 1) |-> NulByte]
    BY <2>4 DEF Block
  <2> DEFINE h == H(k)
             z == [i \in 1..(HashBlockSize - 1) |-> NulByte]
  <2>6. HashBlockSize - 1 \in Nat /\ z \in Seq({NulByte}) /\ Len(z) = HashBlockSize - 1
    BY <1>1
  <2>7. \A i \in 1..(HashBlockSize - 1) : z[i] = NulByte
    OBVIOUS
  <2>8. h \in Seq({h[1], NulByte}) /\ z \in Seq({h[1], NulByte}) /\ Len(h) = 1
    BY <2>3, <2>6
  <2>9. Block(k) = h \o z
    BY <2>5
  <2> HIDE DEF h, z
  <2>10. \A i \in 1..HashBlockSize : Block(k)[i] = IF i <= 1 THEN h[i] ELSE NulByte
    <3> SUFFICES ASSUME NEW i \in 1..HashBlockSize
                 PROVE  Block(k)[i] = IF i <= 1 THEN h[i] ELSE NulByte
      OBVIOUS
    <3>1. Len(h) + Len(z) = HashBlockSize /\ i \in 1..(Len(h) + Len(z))
      BY <1>1, <2>6, <2>8
    <3>2. (h \o z)[i] = IF i <= Len(h) THEN h[i] ELSE z[i - Len(h)]
      BY <2>8, <3>1, ConcatAt
    <3>3. ~(i <= 1) => i - 1 \in 1..(HashBlockSize - 1)
      BY <1>1
    <3> QED BY <2>7, <2>8, <2>9, <3>2, <3>3
  <2>11. FixKey(k) = h /\ Len(FixKey(k)) = 1
    BY <2>2, <2>8 DEF h
  <2> QED BY <2>10, <2>11 DEF Xored, Tagged
<1>3. CASE ~(Len(k) > HashBlockSize)
  <2>1. /\ FixKey(k) = Padded(k)
        /\ Block(k) = k \o [i \in 1..(HashBlockSize - Len(k)) |-> NulByte]
    BY <1>1, <1>3 DEF FixKey, Block
  <2>2. Len(Padded(k)) = HashBlockSize
    BY <1>1 DEF Padded
  <2>3. [i \in 1..(HashBlockSize - Len(k)) |-> NulByte] \in Seq({NulByte})
    BY <1>1, <1>3
  <2>4. \A i \in 1..HashBlockSize : Block(k)[i] = IF i <= Len(k) THEN k[i] ELSE NulByte
    BY <1>1, <1>3, <2>1, <2>3
  <2>5. \A i \in 1..HashBlockSize : Padded(k)[i] = Block(k)[i] /\ i <= Len(Padded(k))
    BY <1>1, <2>2, <2>4 DEF Padded
  <2> QED BY <2>1, <2>5 DEF Xored, Tagged
<1> QED BY <1>2, <1>3

-----------------------------------------------------------------------------
(* The invariant. *)

LEMMA HashChanged ==
  ASSUME NEW m, NEW b, NEW x
  PROVE  /\ [Hash(m, b) EXCEPT !.msg = x] = Hash(x, b)
         /\ [Hash(m, b) EXCEPT !.spent = x] = Hash(m, x)
<1>1. /\ [Hash(m, b) EXCEPT !.msg = x] = [f \in {"msg", "spent"} |-> IF f = "msg" THEN x ELSE b]
      /\ Hash(x, b) = [f \in {"msg", "spent"} |-> IF f = "msg" THEN x ELSE b]
  BY DEF Hash
<1>2. /\ [Hash(m, b) EXCEPT !.spent = x] = [f \in {"msg", "spent"} |-> IF f = "msg" THEN m ELSE x]
      /\ Hash(m, x) = [f \in {"msg", "spent"} |-> IF f = "msg" THEN m ELSE x]
  BY DEF Hash
<1> QED BY <1>1, <1>2

LEMMA HashWritten ==
  ASSUME NEW m, NEW b, NEW data
  PROVE  Written(Hash(m, b), data) = Hash(m \o data, b)
<1>1. Hash(m, b).msg = m
  BY DEF Hash
<1>2. Written(Hash(m, b), data) = [Hash(m, b) EXCEPT !.msg = m \o data]
  BY <1>1 DEF Written
<1>3. \A x : [Hash(m, b) EXCEPT !.msg = x] = Hash(x, b)
  BY HashChanged
<1> QED BY <1>2, <1>3

\* What the constructor writes to a new hash
LEMMA BuiltHash ==
  ASSUME NEW k, NEW pad
  PROVE  Written(EmptyHash, Tagged(k, pad)) = Hash(Tagged(k, pad), FALSE)
<1>1. <<>> \o Tagged(k, pad) = Tagged(k, pad)
  <2>1. <<>> \in Seq(MacByte)
    OBVIOUS
  <2> QED BY <2>1, TaggedAppend
<1>2. EmptyHash = Hash(<<>>, FALSE)
  BY DEF EmptyHash, Hash
<1> QED BY <1>1, <1>2, HashWritten

\* _startIHash, cloned, is the inner hash of the empty message
LEMMA StartIsEmpty ==
  ASSUME NEW k
  PROVE  Hash(Tagged(k, IPad), FALSE) = Hash(Tagged(k, IPad) \o <<>>, FALSE)
<1>1. <<>> \in Seq(MacByte)
  OBVIOUS
<1> QED BY <1>1, TaggedAppend

LEMMA InitInv == ASSUME Init PROVE Inv
<1>1. PICK k \in MacKeys :
        /\ mac = [c \in Mac |-> [oHash |-> OuterOf(c), start |-> StartOf(c), iHash |-> Own(c)]]
        /\ key = [c \in Mac |-> k]
        /\ msg = [c \in Mac |-> <<>>]
        /\ heap = [a \in Addr |->
             IF a = Caller THEN FixedHash(EmptyHash, k)
             ELSE Written(EmptyHash, Xored(FixKey(k), IF a[1] = "o" THEN OPad ELSE IPad))]
  BY DEF Init
<1>2. /\ \A c \in Mac : OuterOf(c)[1] = "o" /\ StartOf(c)[1] = "s" /\ Own(c)[1] = "i"
      /\ \A pad : Written(EmptyHash, Xored(FixKey(k), pad)) = Hash(Tagged(k, pad), FALSE)
  BY KeyBlock, BuiltHash DEF OuterOf, StartOf, Own
<1>3. \A c \in Mac : /\ heap[OuterOf(c)] = Hash(Tagged(k, OPad), FALSE)
                     /\ heap[StartOf(c)] = Hash(Tagged(k, IPad), FALSE)
                     /\ heap[Own(c)] = Hash(Tagged(k, IPad), FALSE)
  BY <1>1, <1>2, Apart
<1>4. \A c \in Mac : mac[c] = Joined(c, c) /\ key[c] = k /\ msg[c] = <<>>
  BY <1>1 DEF Joined
<1>5. \A c \in Mac : Paired(c, c)
  BY <1>3, <1>4 DEF Paired
<1>6. \A c \in Mac : Holds(c)
  BY <1>3, <1>4, StartIsEmpty DEF Holds, Inner
<1>7. key \in [Mac -> MacKeys] /\ msg \in [Mac -> Seq(MacByte)] /\ HeapOK
  BY <1>1 DEF HeapOK
<1>9. mac \in [Mac -> Refs]
  BY <1>1, JoinedType DEF Joined
<1>8. \A c, d \in Mac : key[c] = key[d]
  BY <1>4
<1> QED BY <1>5, <1>6, <1>7, <1>8, <1>9 DEF Inv

LEMMA PairedRefers ==
  ASSUME NEW c \in Mac, NEW f \in Mac, Paired(c, f)
  PROVE  mac[c].oHash = OuterOf(f) /\ mac[c].start = StartOf(f) /\ mac[c].iHash = Own(c)
  BY DEF Paired, Joined

LEMMA FreshRight ==
  ASSUME Inv, NEW c \in Mac
  PROVE  \E f \in Mac : Fresh(c) = Joined(c, f) /\ \A d \in Mac \ {c} : ~Paired(d, f)
<1>1. \E f \in Mac : \A d \in Mac \ {c} : mac[d].oHash # OuterOf(f)
  BY NameLeft, HmacAssumption
<1>2. \E f \in Mac : Fresh(c) = Joined(c, f) /\ \A d \in Mac \ {c} : mac[d].oHash # OuterOf(f)
  BY <1>1 DEF Fresh, Joined
<1> QED BY <1>2, PairedRefers

\* A step that leaves the hashes of d, its key and its message alone
LEMMA Untouched ==
  ASSUME NEW d \in Mac, NEW f \in Mac, Paired(d, f), Holds(d),
         mac'[d] = mac[d], key'[d] = key[d],
         heap'[OuterOf(f)] = heap[OuterOf(f)], heap'[StartOf(f)] = heap[StartOf(f)]
  PROVE  /\ Paired(d, f)'
         /\ msg'[d] = msg[d] /\ heap'[Own(d)] = heap[Own(d)] => Holds(d)'
  BY DEF Paired, Holds, Inner

\* A pair has one name
LEMMA PairedOnce ==
  ASSUME NEW c \in Mac, NEW f \in Mac, NEW g \in Mac, Paired(c, f), Paired(c, g)
  PROVE  f = g
  BY PairedRefers, Apart

LEMMA NewInv ==
  ASSUME Inv, NEW c \in Mac, NEW k \in MacKeys, New(c, k)
  PROVE  Inv'
<1>1. PICK f \in Mac : Fresh(c) = Joined(c, f) /\ \A d \in Mac \ {c} : ~Paired(d, f)
  BY FreshRight
<1>2. /\ mac' = [mac EXCEPT ![c] = Joined(c, f)]
      /\ key' = [key EXCEPT ![c] = k]
      /\ msg' = [msg EXCEPT ![c] = <<>>]
      /\ heap' = Built(heap, k, Joined(c, f))
  BY <1>1 DEF New
<1>3. \A pad : Written(EmptyHash, Xored(FixKey(k), pad)) = Hash(Tagged(k, pad), FALSE)
  BY KeyBlock, BuiltHash
<1>4. /\ HeapOK'
      /\ heap'[OuterOf(f)] = Hash(Tagged(k, OPad), FALSE)
      /\ heap'[StartOf(f)] = Hash(Tagged(k, IPad), FALSE)
      /\ heap'[Own(c)] = Hash(Tagged(k, IPad), FALSE)
      /\ \A a \in Addr : a \notin {Caller, OuterOf(f), StartOf(f), Own(c)} => heap'[a] = heap[a]
  BY <1>2, <1>3, Apart DEF Built, Joined, Inv, HeapOK
<1>5. /\ key' \in [Mac -> MacKeys] /\ msg' \in [Mac -> Seq(MacByte)] /\ mac' \in [Mac -> Refs]
      /\ mac'[c] = Joined(c, f) /\ key'[c] = k /\ msg'[c] = <<>>
      /\ \A d \in Mac \ {c} : mac'[d] = mac[d] /\ key'[d] = key[d] /\ msg'[d] = msg[d]
  BY <1>2, JoinedType DEF Inv
<1>6. Paired(c, f)' /\ Holds(c)'
  BY <1>4, <1>5, StartIsEmpty DEF Paired, Holds, Inner
<1>7. ASSUME NEW d \in Mac \ {c}, NEW g \in Mac, Paired(d, g)
      PROVE  g # f /\ Paired(d, g)' /\ Holds(d)'
  <2>1. g # f
    BY <1>1, <1>7
  <2>2. heap'[OuterOf(g)] = heap[OuterOf(g)] /\ heap'[StartOf(g)] = heap[StartOf(g)]
        /\ heap'[Own(d)] = heap[Own(d)]
    BY <1>4, <2>1, Apart
  <2> QED BY <1>5, <1>7, <2>1, <2>2, Untouched DEF Inv
<1>8. \A d \in Mac : (\E g \in Mac : Paired(d, g)') /\ Holds(d)'
  BY <1>6, <1>7 DEF Inv
<1>9. ASSUME NEW d \in Mac, NEW e \in Mac, NEW g \in Mac, Paired(d, g)', Paired(e, g)'
      PROVE  key'[d] = key'[e]
  <2>1. \A x \in Mac \ {c} : Paired(x, g)' => Paired(x, g) /\ g # f
    <3> SUFFICES ASSUME NEW x \in Mac \ {c}, Paired(x, g)'
                 PROVE  Paired(x, g) /\ g # f
      OBVIOUS
    <3>1. PICK y \in Mac : Paired(x, y)
      BY DEF Inv
    <3>2. Paired(x, y)' /\ y # f
      BY <1>7, <3>1
    <3>3. y = g
      BY <3>2, Apart DEF Paired, Joined
    <3> QED BY <3>1, <3>2, <3>3
  <2>2. Paired(c, g)' => g = f
    BY <1>6, Apart DEF Paired, Joined
  <2> QED BY <1>5, <1>9, <2>1, <2>2 DEF Inv
<1> QED BY <1>4, <1>5, <1>8, <1>9 DEF Inv

\* A step that changes no key, no reference and no shared hash
LEMMA SharedKept ==
  ASSUME Inv, UNCHANGED <<mac, key>>, HeapOK', msg' \in [Mac -> Seq(MacByte)],
         \A f \in Mac : heap'[OuterOf(f)] = heap[OuterOf(f)] /\ heap'[StartOf(f)] = heap[StartOf(f)],
         \A c \in Mac : Holds(c)'
  PROVE  Inv'
<1>1. \A c, f \in Mac : Paired(c, f)' <=> Paired(c, f)
  BY DEF Paired
<1> QED BY <1>1 DEF Inv

LEMMA IHashOwn == ASSUME Inv, NEW c \in Mac PROVE mac[c].iHash = Own(c)
  BY PairedRefers DEF Inv

LEMMA OwnChanged ==
  ASSUME Inv, NEW c \in Mac, NEW h, heap' = [heap EXCEPT ![Own(c)] = h]
  PROVE  /\ HeapOK' /\ heap'[Own(c)] = h
         /\ \A d \in Mac \ {c} : heap'[Own(d)] = heap[Own(d)]
         /\ \A f \in Mac : heap'[OuterOf(f)] = heap[OuterOf(f)] /\ heap'[StartOf(f)] = heap[StartOf(f)]
  BY Apart DEF Inv, HeapOK

LEMMA UnspentHolds ==
  ASSUME Inv, NEW c \in Mac, ~Spent(c)
  PROVE  heap[Own(c)] = Hash(Inner(c), FALSE)
<1>1. ~heap[Own(c)].spent
  BY IHashOwn DEF Spent
<1>2. Hash(Inner(c), TRUE).spent
  BY DEF Hash
<1> QED BY <1>1, <1>2 DEF Inv, Holds

LEMMA HoldsKept ==
  ASSUME Inv, NEW d \in Mac, key'[d] = key[d], msg'[d] = msg[d], heap'[Own(d)] = heap[Own(d)]
  PROVE  Holds(d)'
  BY DEF Inv, Holds, Inner

LEMMA WriteInv ==
  ASSUME Inv, NEW c \in Mac, NEW data \in Data, Write(c, data)
  PROVE  Inv'
<1>1. heap' = [heap EXCEPT ![Own(c)] = Written(heap[Own(c)], data)]
      /\ msg' = [msg EXCEPT ![c] = msg[c] \o data] /\ UNCHANGED <<mac, key>>
  BY IHashOwn DEF Write
<1>2. data \in Seq(MacByte) /\ msg[c] \in Seq(MacByte)
  BY HmacAssumption DEF Inv
<1>3. msg' \in [Mac -> Seq(MacByte)] /\ msg'[c] = msg[c] \o data
      /\ \A d \in Mac \ {c} : msg'[d] = msg[d]
  BY <1>1, <1>2 DEF Inv
<1>4. Written(heap[Own(c)], data) = Hash(Inner(c) \o data, FALSE)
  BY UnspentHolds, HashWritten DEF Write
<1>5. Inner(c) \o data = Inner(c)'
  BY <1>1, <1>2, <1>3, TaggedAppend DEF Inner
<1>6. Holds(c)'
  BY <1>1, <1>4, <1>5, OwnChanged DEF Holds
<1>7. \A d \in Mac \ {c} : Holds(d)'
  BY <1>1, <1>3, OwnChanged, HoldsKept
<1> QED BY <1>1, <1>3, <1>6, <1>7, OwnChanged, SharedKept

LEMMA SumInInv == ASSUME Inv, NEW c \in Mac, SumIn(c) PROVE Inv'
<1>1. heap' = [heap EXCEPT ![Own(c)] = [heap[Own(c)] EXCEPT !.spent = TRUE]] /\ UNCHANGED <<mac, key, msg>>
  BY IHashOwn DEF SumIn
<1>2. heap'[Own(c)] = Hash(Inner(c), TRUE)
  <2>1. heap[Own(c)] = Hash(Inner(c), FALSE)
    BY UnspentHolds DEF SumIn
  <2>2. [Hash(Inner(c), FALSE) EXCEPT !.spent = TRUE] = Hash(Inner(c), TRUE)
    <3> DEFINE before == FALSE
               after == TRUE
    <3> HIDE DEF before, after
    <3>1. [Hash(Inner(c), before) EXCEPT !.spent = after] = Hash(Inner(c), after)
      BY HashChanged
    <3> QED BY <3>1 DEF before, after
  <2> QED BY <1>1, <2>1, <2>2, OwnChanged
<1>3. Holds(c)'
  BY <1>1, <1>2 DEF Holds, Inner
<1>4. \A d \in Mac \ {c} : Holds(d)'
  BY <1>1, OwnChanged, HoldsKept
<1>5. msg' \in [Mac -> Seq(MacByte)]
  BY <1>1 DEF Inv
<1> QED BY <1>1, <1>3, <1>4, <1>5, OwnChanged, SharedKept

LEMMA ResetInv == ASSUME Inv, NEW c \in Mac, Reset(c) PROVE Inv'
<1>1. PICK f \in Mac : Paired(c, f)
  BY DEF Inv
<1>2. heap' = [heap EXCEPT ![Own(c)] = heap[StartOf(f)]] /\ msg' = [msg EXCEPT ![c] = <<>>]
      /\ key' = key
  BY <1>1, PairedRefers DEF Reset
<1>3. mac' = mac
  <2>1. mac[c] = [mac[c] EXCEPT !.iHash = Own(c)]
    BY <1>1 DEF Paired, Joined
  <2>2. mac' = [mac EXCEPT ![c] = mac[c]]
    BY <2>1 DEF Reset
  <2>3. mac = [e \in Mac |-> mac[e]]
    BY DEF Inv
  <2> QED BY <2>2, <2>3
<1>4. msg' \in [Mac -> Seq(MacByte)] /\ msg'[c] = <<>> /\ \A d \in Mac \ {c} : msg'[d] = msg[d]
  BY <1>2 DEF Inv
<1>5. heap[StartOf(f)] = Hash(Tagged(key[c], IPad) \o <<>>, FALSE)
  BY <1>1, StartIsEmpty DEF Paired
<1>6. Holds(c)'
  BY <1>2, <1>4, <1>5, OwnChanged DEF Holds, Inner
<1>7. \A d \in Mac \ {c} : Holds(d)'
  BY <1>2, <1>4, OwnChanged, HoldsKept
<1> QED BY <1>2, <1>3, <1>4, <1>6, <1>7, OwnChanged, SharedKept

\* newEmpty() and clone(): whatever becomes of d, its pair is that of c
LEMMA DerivedInv ==
  ASSUME Inv, NEW c \in Mac, NEW d \in Mac, c # d, NEW from \in Addr,
         Derived(c, d, from), NEW m \in Seq(MacByte), msg' = [msg EXCEPT ![d] = m],
         heap[from] = Hash(Tagged(key[c], IPad) \o m, FALSE)
  PROVE  Inv'
<1>1. PICK f \in Mac : Paired(c, f)
  BY DEF Inv
<1>2. Dropped(heap, mac[c].oHash) = heap
  <2>1. OuterOf(f) \in Addr /\ mac[c].oHash = OuterOf(f) /\ HeapOK
    BY <1>1, Apart, PairedRefers DEF Inv
  <2> QED BY <2>1, ZeroKeyKept DEF Dropped, HeapOK
<1>3. heap' = [heap EXCEPT ![Own(d)] = heap[from]]
  BY <1>2 DEF Derived
<1>4. /\ mac' = [mac EXCEPT ![d] = Joined(d, f)]
      /\ key' = [key EXCEPT ![d] = key[c]]
  <2>1. [mac[c] EXCEPT !.iHash = Own(d)] = Joined(d, f)
    BY <1>1, JoinedAgain DEF Paired
  <2> QED BY <2>1 DEF Derived
<1>5. /\ key' \in [Mac -> MacKeys] /\ msg' \in [Mac -> Seq(MacByte)] /\ mac' \in [Mac -> Refs]
      /\ mac'[d] = Joined(d, f) /\ key'[d] = key[c] /\ msg'[d] = m
      /\ \A e \in Mac \ {d} : mac'[e] = mac[e] /\ key'[e] = key[e] /\ msg'[e] = msg[e]
  BY <1>4, JoinedType DEF Inv
<1>6. Paired(d, f)' /\ Holds(d)'
  BY <1>1, <1>3, <1>5, OwnChanged DEF Paired, Holds, Inner
<1>7. ASSUME NEW e \in Mac \ {d}
      PROVE  Holds(e)' /\ \A g \in Mac : Paired(e, g)' <=> Paired(e, g)
  BY <1>3, <1>5, OwnChanged, HoldsKept DEF Paired
<1>8. \A e \in Mac : (\E g \in Mac : Paired(e, g)') /\ Holds(e)'
  BY <1>6, <1>7 DEF Inv
<1>9. ASSUME NEW a \in Mac, NEW e \in Mac, NEW g \in Mac, Paired(a, g)', Paired(e, g)'
      PROVE  key'[a] = key'[e]
  <2>1. Paired(d, g)' => g = f
    BY <1>6, Apart DEF Paired, Joined
  <2>2. \A x \in Mac : Paired(x, g)' => \E y \in Mac : Paired(y, g) /\ key'[x] = key[y]
    BY <1>1, <1>5, <1>7, <2>1
  <2> QED BY <1>9, <2>2 DEF Inv
<1>10. HeapOK'
  BY <1>3, OwnChanged
<1> QED BY <1>5, <1>8, <1>9, <1>10, ZenonT(30) DEF Inv

LEMMA NewEmptyInv ==
  ASSUME Inv, NEW c \in Mac, NEW d \in Mac, NewEmpty(c, d)
  PROVE  Inv'
<1>1. PICK f \in Mac : Paired(c, f)
  BY DEF Inv
<1>2. mac[c].start = StartOf(f) /\ StartOf(f) \in Addr
  BY <1>1, PairedRefers, Apart
<1>3. heap[mac[c].start] = Hash(Tagged(key[c], IPad) \o <<>>, FALSE)
  BY <1>1, <1>2, StartIsEmpty DEF Paired
<1>4. <<>> \in Seq(MacByte)
  OBVIOUS
<1> QED BY <1>2, <1>3, <1>4, DerivedInv DEF NewEmpty

LEMMA CloneInv ==
  ASSUME Inv, NEW c \in Mac, NEW d \in Mac, Clone(c, d)
  PROVE  Inv'
<1>1. mac[c].iHash = Own(c) /\ Own(c) \in Addr
  BY IHashOwn, Apart
<1>2. heap[mac[c].iHash] = Hash(Tagged(key[c], IPad) \o msg[c], FALSE)
  BY <1>1, UnspentHolds DEF Clone, Inner
<1>3. msg[c] \in Seq(MacByte)
  BY DEF Inv
<1> QED BY <1>1, <1>2, <1>3, DerivedInv DEF Clone

\* The hash the caller gave to the constructor is none of an Hmac's
LEMMA CallerInv ==
  ASSUME Inv, NEW h, heap' = [heap EXCEPT ![Caller] = h], UNCHANGED <<mac, key, msg>>
  PROVE  Inv'
<1>1. HeapOK' /\ \A c \in Mac : /\ heap'[Own(c)] = heap[Own(c)]
                                 /\ heap'[OuterOf(c)] = heap[OuterOf(c)]
                                 /\ heap'[StartOf(c)] = heap[StartOf(c)]
  BY Apart DEF Inv, HeapOK
<1>2. msg' \in [Mac -> Seq(MacByte)]
  BY DEF Inv
<1> QED BY <1>1, <1>2, HoldsKept, SharedKept

LEMMA NextInv == ASSUME Inv, [Next]_vars PROVE Inv'
<1>1. ASSUME NEW c \in Mac, NEW k \in MacKeys, New(c, k)
      PROVE  Inv'
  BY <1>1, NewInv
<1>2. ASSUME NEW c \in Mac, NEW data \in Data, Write(c, data)
      PROVE  Inv'
  BY <1>2, WriteInv
<1>3. ASSUME NEW c \in Mac, SumOf(c)
      PROVE  Inv'
  BY <1>3 DEF SumOf, Inv, HeapOK, Paired, Holds, Inner
<1>4. ASSUME NEW c \in Mac, SumIn(c)
      PROVE  Inv'
  BY <1>4, SumInInv
<1>5. ASSUME NEW c \in Mac, Reset(c)
      PROVE  Inv'
  BY <1>5, ResetInv
<1>6. ASSUME NEW c \in Mac, NEW d \in Mac, NewEmpty(c, d) \/ Clone(c, d)
      PROVE  Inv'
  BY <1>6, NewEmptyInv, CloneInv
<1>7. ASSUME NEW data \in Data, CallerWrites(data)
      PROVE  Inv'
  BY <1>7, CallerInv DEF CallerWrites
<1>8. ASSUME CallerSums
      PROVE  Inv'
  BY <1>8, CallerInv DEF CallerSums
<1>9. ASSUME UNCHANGED vars
      PROVE  Inv'
  BY <1>9 DEF vars, Inv, HeapOK, Paired, Holds, Inner
<1> QED BY <1>1, <1>2, <1>3, <1>4, <1>5, <1>6, <1>7, <1>8, <1>9 DEF Next

LEMMA InvAlways == Spec => []Inv
  BY InitInv, NextInv, PTL DEF Spec

-----------------------------------------------------------------------------
(* The properties. *)

LEMMA FourApart ==
  ASSUME NEW x, NEW y, NEW z, NEW w, x # y, x # z, x # w, y # z, y # w, z # w
  PROVE  Cardinality({x, y, z, w}) = 4
<1>1. IsFiniteSet({x}) /\ Cardinality({x}) = 1
  BY FS_Singleton
<1>2. IsFiniteSet({x} \union {y}) /\ Cardinality({x} \union {y}) = 2
  BY <1>1, FS_AddElement
<1>3. IsFiniteSet({x} \union {y} \union {z}) /\ Cardinality({x} \union {y} \union {z}) = 3
  BY <1>2, FS_AddElement
<1>4. Cardinality({x} \union {y} \union {z} \union {w}) = 4
  BY <1>3, FS_AddElement
<1>5. {x, y, z, w} = {x} \union {y} \union {z} \union {w}
  OBVIOUS
<1> QED BY <1>4, <1>5

\* The three hashes of an Hmac are apart from each other and from the caller's, and no
\* other Hmac has its _iHash
THEOREM HmacsApart == Spec => []TypeOK
<1>1. Inv => TypeOK
  <2> SUFFICES ASSUME Inv PROVE TypeOK
    OBVIOUS
  <2>1. DOMAIN heap = Addr /\ mac \in [Mac -> [oHash : Addr, start : Addr, iHash : Addr]]
    BY DEF Inv, HeapOK, Refs
  <2>2. ASSUME NEW c \in Mac
        PROVE  Cardinality({Caller, mac[c].oHash, mac[c].start, mac[c].iHash}) = 4
    <3>1. PICK f \in Mac : Paired(c, f)
      BY DEF Inv
    <3>2. mac[c].oHash = OuterOf(f) /\ mac[c].start = StartOf(f) /\ mac[c].iHash = Own(c)
      BY <3>1, PairedRefers
    <3>3. Cardinality({Caller, OuterOf(f), StartOf(f), Own(c)}) = 4
      <4>1. /\ Caller # OuterOf(f) /\ Caller # StartOf(f) /\ Caller # Own(c)
            /\ OuterOf(f) # StartOf(f) /\ OuterOf(f) # Own(c) /\ StartOf(f) # Own(c)
        BY Apart
      <4> QED BY <4>1, FourApart
    <3> QED BY <3>2, <3>3
  <2>3. ASSUME NEW c \in Mac, NEW d \in Mac \ {c}
        PROVE  mac[c].iHash \notin {mac[d].oHash, mac[d].start, mac[d].iHash}
    <3>1. PICK f \in Mac : Paired(d, f)
      BY DEF Inv
    <3> QED BY <3>1, IHashOwn, PairedRefers, Apart
  <2> QED BY <2>1, <2>2, <2>3 DEF TypeOK
<1> QED BY <1>1, InvAlways, PTL

\* "Outside hash, initialized with oPad, never write directly (clone first)": no call on any
\* Hmac, and nothing done with the hash the caller gave, changes a hash that Hmacs share
THEOREM SharedStayAsBuilt == Spec => []SharedAsBuilt
<1>1. Inv => SharedAsBuilt
  <2> SUFFICES ASSUME Inv, NEW c \in Mac
               PROVE  /\ heap[mac[c].oHash] = Written(EmptyHash, Tagged(key[c], OPad))
                      /\ heap[mac[c].start] = Written(EmptyHash, Tagged(key[c], IPad))
    BY DEF SharedAsBuilt
  <2>1. PICK f \in Mac : Paired(c, f)
    BY DEF Inv
  <2>2. \A pad : Written(EmptyHash, Tagged(key[c], pad)) = Hash(Tagged(key[c], pad), FALSE)
    BY BuiltHash
  <2> QED BY <2>1, <2>2, PairedRefers DEF Paired
<1> QED BY <1>1, InvAlways, PTL

LEMMA SumHash == \A m : Sum(Hash(m, FALSE)) = H(m)
<1> DEFINE no == FALSE
<1> HIDE DEF no
<1>1. \A m : Sum(Hash(m, no)) = << <<DigestMark, no, m>> >>
  BY DEF Sum, Hash
<1> QED BY <1>1 DEF no, H

\* Every digest, of sum() or of sumIn(), is RFC 2104's of the key and of the message
THEOREM DigestsAlwaysRight == Spec => []DigestRight
<1>1. Init => DigestRight
  BY DEF Init, DigestRight
<1>2. ASSUME Inv, NEW c \in Mac, ~Spent(c),
             out' = Returned(c, Outer(c, Sum(heap[mac[c].iHash])))
      PROVE  DigestRight'
  <2>1. PICK f \in Mac : Paired(c, f)
    BY <1>2 DEF Inv
  <2>2. Sum(heap[mac[c].iHash]) = H(Inner(c))
    BY <1>2, UnspentHolds, IHashOwn, SumHash
  <2>3. Outer(c, H(Inner(c))) = H(Tagged(key[c], OPad) \o H(Inner(c)))
    <3>1. heap[mac[c].oHash] = Hash(Tagged(key[c], OPad), FALSE)
      BY <2>1, PairedRefers DEF Paired
    <3>2. \A data : Written(Hash(Tagged(key[c], OPad), FALSE), data)
                     = Hash(Tagged(key[c], OPad) \o data, FALSE)
      BY HashWritten
    <3> QED BY <3>1, <3>2, SumHash DEF Outer
  <2> QED BY <1>2, <2>2, <2>3 DEF Returned, DigestRight, Rfc2104, Inner
<1>3. ASSUME Inv, DigestRight, [Next]_vars
      PROVE  DigestRight'
  <2>1. out' = {} => DigestRight'
    BY DEF DigestRight
  <2>2. out' = out => DigestRight'
    BY <1>3 DEF DigestRight
  <2>3. ASSUME NEW c \in Mac, SumOf(c) \/ SumIn(c)
        PROVE  DigestRight'
    BY <1>2, <1>3, <2>3 DEF SumOf, SumIn
  <2> QED BY <1>3, <2>1, <2>2, <2>3
          DEF Next, New, Write, Reset, NewEmpty, Clone, Derived, CallerWrites, CallerSums, vars
<1> QED BY <1>1, <1>3, InvAlways, PTL DEF Spec

\* The three together
THEOREM HmacAlwaysRight == Spec => []HmacRight
<1>1. TypeOK /\ DigestRight /\ SharedAsBuilt => HmacRight
  BY DEF HmacRight
<1> QED BY <1>1, HmacsApart, SharedStayAsBuilt, DigestsAlwaysRight, PTL
=============================================================================
