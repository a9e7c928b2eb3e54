-------------------------- MODULE Blake2HashProofs --------------------------
(***************************************************************************)
(* Proofs about Blake2Hash, for every block size, set of keys, set of data *)
(* and bound on the message that Blake2Sizes allows.                       *)
(***************************************************************************)
EXTENDS Blake2Hash, TLAPS

-----------------------------------------------------------------------------
(* Arithmetic of blocks: the prover's only facts about products. *)

LEMMA BlockArith ==
  ASSUME Blake2Sizes
  PROVE  /\ BlockSize \in Nat
         /\ BlockSize > 0
         /\ Idx = {j \in Nat : j < BlockSize}
         /\ 0 \in Idx
BY DEF Blake2Sizes, Idx

LEMMA Products ==
  ASSUME Blake2Sizes, NEW n \in Nat
  PROVE  /\ n * BlockSize \in Nat
         /\ (n + 1) * BlockSize = n * BlockSize + BlockSize
         /\ (n + 2) * BlockSize = n * BlockSize + BlockSize + BlockSize
         /\ 0 * BlockSize = 0
BY BlockArith

LEMMA ProductsGrow ==
  ASSUME Blake2Sizes, NEW a \in Nat, NEW b \in Nat, a < b
  PROVE  a * BlockSize + BlockSize <= b * BlockSize
<1>1. b - a - 1 \in Nat /\ b = a + 1 + (b - a - 1)
  OBVIOUS
<1>2. PICK k \in Nat : b = a + 1 + k
  BY <1>1
<1>3. b * BlockSize = a * BlockSize + BlockSize + k * BlockSize
  BY <1>2, BlockArith
<1>4. k * BlockSize \in Nat /\ a * BlockSize \in Nat
  BY Products
<1> QED BY <1>3, <1>4, BlockArith

\* What a length says of its blocks
LEMMA Quotient ==
  ASSUME Blake2Sizes, NEW q \in Nat, NEW r \in Nat, r < BlockSize
  PROVE  /\ (q * BlockSize + r) \div BlockSize = q
         /\ (q * BlockSize + r) % BlockSize = r
<1> DEFINE x == q * BlockSize + r
           d == x \div BlockSize
           e == x % BlockSize
<1>1. x \in Nat /\ q * BlockSize \in Nat
  BY Products
<1>2. d \in Nat /\ e \in Nat /\ e < BlockSize /\ x = d * BlockSize + e
  <2>0. x \in Nat /\ BlockSize \in Nat /\ BlockSize > 0
    BY <1>1, BlockArith
  <2> HIDE DEF x
  <2>1. d \in Nat /\ e \in Nat /\ e < BlockSize
    BY <2>0
  <2>2. x = BlockSize * d + e
    BY <2>0
  <2>3. BlockSize * d = d * BlockSize
    BY <2>0, <2>1
  <2> QED BY <2>1, <2>2, <2>3
<1>3. d * BlockSize \in Nat
  BY <1>2, Products
<1> HIDE DEF d, e
<1>4. ~(d < q)
  <2> SUFFICES ASSUME d < q PROVE FALSE
    OBVIOUS
  <2>1. d * BlockSize + BlockSize <= q * BlockSize
    BY <1>2, ProductsGrow
  <2> DEFINE y == q * BlockSize
             z == d * BlockSize
  <2>2. y \in Nat /\ z \in Nat /\ z + BlockSize <= y /\ y + r = z + e
    BY <1>1, <1>2, <1>3, <2>1
  <2> HIDE DEF y, z
  <2> QED BY <1>2, <2>2, BlockArith
<1>5. ~(q < d)
  <2> SUFFICES ASSUME q < d PROVE FALSE
    OBVIOUS
  <2>1. q * BlockSize + BlockSize <= d * BlockSize
    BY <1>2, ProductsGrow
  <2> DEFINE y == q * BlockSize
             z == d * BlockSize
  <2>2. y \in Nat /\ z \in Nat /\ y + BlockSize <= z /\ y + r = z + e
    BY <1>1, <1>2, <1>3, <2>1
  <2> HIDE DEF y, z
  <2> QED BY <1>2, <2>2, BlockArith
<1>6. d = q
  BY <1>2, <1>4, <1>5
<1>7. e = r
  <2> DEFINE y == q * BlockSize
  <2>1. y \in Nat /\ y + r = y + e
    BY <1>1, <1>2, <1>6
  <2> HIDE DEF y
  <2> QED BY <1>2, <2>1
<1> QED BY <1>6, <1>7 DEF d, e

-----------------------------------------------------------------------------
(* What an object holds. *)

Base(o) == Len(o.chain) * BlockSize
Position(o) == Base(o) + o.bPos

\* The object o has taken the first p bytes of m
Took(o, m, p) ==
  /\ o \in Obj
  /\ m \in Seq(ByteVal)
  /\ Position(o) = p
  /\ p <= Len(m)
  /\ \A k \in 1..Len(o.chain) : \A j \in Idx :
       o.chain[k].block[j] = m[(k - 1) * BlockSize + j + 1]
  /\ \A j \in 0..(o.bPos - 1) : o.block[j] = m[Base(o) + j + 1]

\* Every compression was given the right count, and none was the last
Counted(o) ==
  \A k \in 1..Len(o.chain) : o.chain[k].count = k * BlockSize /\ o.chain[k].last = FALSE

LEMMA ObjFields ==
  ASSUME Blake2Sizes, NEW o \in Obj
  PROVE  /\ o.chain \in Seq(Compressed) /\ Len(o.chain) \in Nat
         /\ o.block \in Block /\ o.block \in [Idx -> ByteVal]
         /\ o.bPos \in Idx /\ o.bPos \in Nat /\ o.bPos < BlockSize
         /\ o.key \in Keys /\ o.counter \in Counter
         /\ Base(o) \in Nat
         /\ Position(o) \in Nat
<1>1. /\ o.chain \in Seq(Compressed) /\ Len(o.chain) \in Nat
      /\ o.block \in Block /\ o.bPos \in Idx
      /\ o.key \in Keys /\ o.counter \in Counter
  BY DEF Obj
<1>2. o.bPos \in Nat /\ o.bPos < BlockSize
  BY <1>1, BlockArith
<1>3. Base(o) \in Nat
  BY <1>1, Products DEF Base
<1> QED BY <1>1, <1>2, <1>3 DEF Block, Position

\* What the record says, in the words the provers need
LEMMA TookFields ==
  ASSUME Blake2Sizes, NEW o, NEW m, NEW p, Took(o, m, p)
  PROVE  /\ o \in Obj /\ m \in Seq(ByteVal)
         /\ o.bPos \in Nat /\ o.bPos < BlockSize /\ o.bPos \in Idx
         /\ Len(o.chain) \in Nat /\ Base(o) \in Nat
         /\ p = Base(o) + o.bPos /\ p \in Nat
         /\ p <= Len(m) /\ Len(m) \in Nat
<1>1. o \in Obj /\ m \in Seq(ByteVal) /\ Position(o) = p /\ p <= Len(m)
  BY DEF Took
<1>2. Len(m) \in Nat
  BY <1>1
<1> QED BY <1>1, <1>2, ObjFields DEF Position

\* A byte inside a compressed block lies before the position
LEMMA InsideBlock ==
  ASSUME Blake2Sizes, NEW q \in Nat, NEW k \in 1..q, NEW j \in Idx
  PROVE  /\ (k - 1) * BlockSize \in Nat
         /\ (k - 1) * BlockSize + j < q * BlockSize
         /\ k * BlockSize <= q * BlockSize
         /\ k * BlockSize = (k - 1) * BlockSize + BlockSize
<1>1. k - 1 \in Nat /\ k - 1 < q /\ k = (k - 1) + 1 /\ j \in Nat /\ j < BlockSize
  BY BlockArith
<1>2. (k - 1) * BlockSize + BlockSize <= q * BlockSize
  BY <1>1, ProductsGrow
<1>3. k * BlockSize = (k - 1) * BlockSize + BlockSize
  BY <1>1, Products
<1> DEFINE x == (k - 1) * BlockSize
           y == q * BlockSize
<1>4. x \in Nat /\ y \in Nat
  BY <1>1, Products
<1>5. x + BlockSize <= y /\ k * BlockSize = x + BlockSize
  BY <1>2, <1>3
<1> HIDE DEF x, y
<1>6. x + j < y /\ k * BlockSize <= y
  BY <1>1, <1>4, <1>5, BlockArith
<1> QED BY <1>4, <1>5, <1>6 DEF x, y

\* More of the message changes nothing of what was taken
LEMMA TookLonger ==
  ASSUME Blake2Sizes, NEW o, NEW m, NEW p \in Nat, Took(o, m, p),
         NEW data \in Seq(ByteVal)
  PROVE  Took(o, m \o data, p)
<1> DEFINE M == m \o data
           y == Base(o)
<1>1. o \in Obj /\ m \in Seq(ByteVal) /\ Position(o) = p /\ p <= Len(m)
  BY DEF Took
<1>2. /\ M \in Seq(ByteVal) /\ Len(M) = Len(m) + Len(data)
      /\ Len(m) \in Nat /\ Len(data) \in Nat
      /\ \A i \in 1..Len(m) : M[i] = m[i]
  BY <1>1
<1> HIDE DEF M
<1>3. y \in Nat /\ o.bPos \in Nat /\ p = y + o.bPos /\ Len(o.chain) \in Nat
  BY <1>1, ObjFields DEF Position
<1>4. \A k \in 1..Len(o.chain) : \A j \in Idx :
        o.chain[k].block[j] = M[(k - 1) * BlockSize + j + 1]
  <2> TAKE k \in 1..Len(o.chain)
  <2> TAKE j \in Idx
  <2>1. (k - 1) * BlockSize \in Nat /\ (k - 1) * BlockSize + j < y /\ j \in Nat
    <3>1. j \in Nat
      BY BlockArith
    <3> QED BY <1>3, <3>1, InsideBlock DEF Base
  <2> DEFINE x == (k - 1) * BlockSize
  <2>2. x \in Nat /\ x + j < y
    BY <2>1
  <2>3. o.chain[k].block[j] = m[x + j + 1]
    BY DEF Took
  <2> HIDE DEF x, y
  <2>4. x + j + 1 \in 1..Len(m)
    BY <1>1, <1>2, <1>3, <2>1, <2>2
  <2> QED BY <1>2, <2>3, <2>4 DEF x
<1>5. \A j \in 0..(o.bPos - 1) : o.block[j] = M[y + j + 1]
  <2> TAKE j \in 0..(o.bPos - 1)
  <2>1. o.block[j] = m[y + j + 1]
    BY DEF Took
  <2> HIDE DEF y
  <2>2. y + j + 1 \in 1..Len(m)
    BY <1>1, <1>2, <1>3, SMTT(30)
  <2> QED BY <1>2, <2>1, <2>2
<1>6. p <= Len(M)
  BY <1>1, <1>2
<1> QED BY <1>1, <1>2, <1>4, <1>5, <1>6 DEF Took, M

-----------------------------------------------------------------------------
(* The helpers on an object. *)

LEMMA HashFields ==
  ASSUME Blake2Sizes, NEW o \in Obj, NEW n \in Nat, NEW last \in BOOLEAN
  PROVE  /\ Hash(o, n, last) \in Obj
         /\ Hash(o, n, last).bPos = 0
         /\ Hash(o, n, last).key = o.key
         /\ Hash(o, n, last).counter = o.counter
         /\ Len(o.chain) \in Nat
         /\ Len(Hash(o, n, last).chain) = Len(o.chain) + 1
         /\ \A k \in 1..Len(o.chain) : Hash(o, n, last).chain[k] = o.chain[k]
         /\ Hash(o, n, last).chain[Len(o.chain) + 1].block = o.block
         /\ Hash(o, n, last).chain[Len(o.chain) + 1].count = n
         /\ Hash(o, n, last).chain[Len(o.chain) + 1].last = last
<1> DEFINE triple == [block |-> o.block, count |-> n, last |-> last]
           ch == Append(o.chain, triple)
<1>1. /\ o.chain \in Seq(Compressed) /\ o.block \in Block
  BY DEF Obj
<1>2. triple \in Compressed /\ triple.block = o.block /\ triple.count = n /\ triple.last = last
  BY <1>1 DEF Compressed
<1>3. Hash(o, n, last) = [o EXCEPT !.chain = ch, !.bPos = 0]
  BY DEF Hash
<1> HIDE DEF triple
<1>4. /\ ch \in Seq(Compressed) /\ Len(o.chain) \in Nat /\ Len(ch) = Len(o.chain) + 1
      /\ \A k \in 1..Len(o.chain) : ch[k] = o.chain[k]
      /\ ch[Len(o.chain) + 1] = triple
  BY <1>1, <1>2
<1> HIDE DEF ch
<1>5. /\ Hash(o, n, last) \in Obj
      /\ Hash(o, n, last).chain = ch /\ Hash(o, n, last).bPos = 0
      /\ Hash(o, n, last).key = o.key /\ Hash(o, n, last).counter = o.counter
  <2>1. 0 \in Idx
    BY BlockArith
  <2> QED BY <1>1, <1>3, <1>4, <2>1 DEF Obj
<1> QED BY <1>2, <1>4, <1>5

LEMMA FillFields ==
  ASSUME Blake2Sizes, NEW o \in Obj, NEW data \in Seq(ByteVal),
         NEW dPos \in Nat, NEW n \in Nat, dPos + n <= Len(data)
  PROVE  /\ Fill(o, data, dPos, n) \in Obj
         /\ Fill(o, data, dPos, n).chain = o.chain
         /\ Fill(o, data, dPos, n).bPos = o.bPos
         /\ Fill(o, data, dPos, n).key = o.key
         /\ Fill(o, data, dPos, n).counter = o.counter
         /\ \A j \in Idx : Fill(o, data, dPos, n).block[j] =
              IF j \in o.bPos..(o.bPos + n - 1) THEN data[dPos + (j - o.bPos) + 1]
              ELSE o.block[j]
<1> DEFINE blk == [j \in Idx |-> IF j \in o.bPos..(o.bPos + n - 1)
                                 THEN data[dPos + (j - o.bPos) + 1]
                                 ELSE o.block[j]]
<1>1. o.bPos \in Nat /\ o.block \in [Idx -> ByteVal] /\ Len(data) \in Nat
  BY ObjFields
<1>2. \A j \in Idx : j \in o.bPos..(o.bPos + n - 1) =>
        data[dPos + (j - o.bPos) + 1] \in ByteVal
  <2> TAKE j \in Idx
  <2> HAVE j \in o.bPos..(o.bPos + n - 1)
  <2>1. dPos + (j - o.bPos) + 1 \in 1..Len(data)
    BY <1>1
  <2> QED BY <2>1
<1>3. blk \in Block
  BY <1>1, <1>2 DEF Block
<1>4. Fill(o, data, dPos, n) = [o EXCEPT !.block = blk]
  BY DEF Fill
<1>5. \A j \in Idx : blk[j] = IF j \in o.bPos..(o.bPos + n - 1)
                              THEN data[dPos + (j - o.bPos) + 1]
                              ELSE o.block[j]
  OBVIOUS
<1> HIDE DEF blk
<1> QED BY <1>3, <1>4, <1>5 DEF Obj

\* The len bytes of data from dPos on are those of m from p on
Brings(data, dPos, len, m, p) ==
  /\ data \in Seq(ByteVal)
  /\ dPos \in Nat
  /\ len \in Nat
  /\ dPos + len <= Len(data)
  /\ p + len <= Len(m)
  /\ \A i \in 1..len : data[dPos + i] = m[p + i]

\* Part of what is brought, and the rest of it
LEMMA BringsParts ==
  ASSUME NEW data, NEW dPos, NEW len, NEW m, NEW p, p \in Nat,
         Brings(data, dPos, len, m, p), NEW k \in Nat, k <= len
  PROVE  /\ Brings(data, dPos, k, m, p)
         /\ Brings(data, dPos + k, len - k, m, p + k)
<1>1. data \in Seq(ByteVal) /\ Len(data) \in Nat
  BY DEF Brings
<1>2. dPos \in Nat /\ len \in Nat /\ dPos + len <= Len(data) /\ p + len <= Len(m)
  BY DEF Brings
<1>3. \A i \in 1..len : data[dPos + i] = m[p + i]
  BY DEF Brings
<1>4. Brings(data, dPos, k, m, p)
  <2>1. dPos + k <= Len(data) /\ p + k <= Len(m)
    <3>1. dPos + k <= dPos + len /\ p + k <= p + len
      BY <1>2
    <3>2. p + k \in Nat /\ p + len \in Nat
      BY <1>2
    <3> QED BY <1>1, <1>2, <3>1, <3>2
  <2>2. \A i \in 1..k : i \in 1..len
    BY <1>2
  <2> QED BY <1>1, <1>2, <1>3, <2>1, <2>2, Zenon DEF Brings
<1>5. Brings(data, dPos + k, len - k, m, p + k)
  <2>1. /\ dPos + k \in Nat /\ len - k \in Nat
        /\ (dPos + k) + (len - k) = dPos + len
        /\ (p + k) + (len - k) = p + len
    BY <1>2
  <2>2. ASSUME NEW i \in 1..(len - k)
        PROVE  data[(dPos + k) + i] = m[(p + k) + i]
    <3>1. /\ k + i \in 1..len
          /\ (dPos + k) + i = dPos + (k + i)
          /\ (p + k) + i = p + (k + i)
      BY <1>2
    <3> QED BY <1>3, <3>1, Zenon
  <2> QED BY <1>1, <1>2, <2>1, <2>2, Zenon DEF Brings
<1> QED BY <1>4, <1>5

\* What set() puts behind the position continues the message
LEMMA FillHolds ==
  ASSUME Blake2Sizes, NEW o, NEW m, NEW p, Took(o, m, p),
         NEW data, NEW dPos, NEW len, Brings(data, dPos, len, m, p),
         o.bPos + len <= BlockSize
  PROVE  \A j \in 0..((o.bPos + len) - 1) :
           Fill(o, data, dPos, len).block[j] = m[Base(o) + j + 1]
<1> DEFINE y == Base(o)
<1>1. o \in Obj
  BY DEF Took
<1>2. y \in Nat /\ o.bPos \in Nat /\ p = y + o.bPos
  BY TookFields
<1>3. \A j \in 0..(o.bPos - 1) : o.block[j] = m[y + j + 1]
  BY DEF Took
<1>0. data \in Seq(ByteVal) /\ dPos \in Nat /\ len \in Nat /\ dPos + len <= Len(data)
      /\ \A i \in 1..len : data[dPos + i] = m[p + i]
  BY DEF Brings
<1> HIDE DEF y
<1>a. len \in Nat
  BY <1>0
<1> SUFFICES ASSUME NEW j \in 0..((o.bPos + len) - 1)
             PROVE  Fill(o, data, dPos, len).block[j] = m[y + j + 1]
  BY DEF y
<1>4. j \in Idx
  <2>1. j \in Nat /\ j < o.bPos + len /\ o.bPos + len \in Nat
    BY <1>a, <1>2
  <2> QED BY <2>1, BlockArith
<1>5. CASE j < o.bPos
  <2>1. j \notin o.bPos..(o.bPos + len - 1) /\ j \in 0..(o.bPos - 1)
    BY <1>0, <1>2, <1>5
  <2>2. Fill(o, data, dPos, len).block[j] = o.block[j]
    BY <1>0, <1>1, <1>4, <2>1, FillFields
  <2> QED BY <1>3, <2>1, <2>2
<1>6. CASE j >= o.bPos
  <2>0. j \in o.bPos..(o.bPos + len - 1)
    BY <1>0, <1>2, <1>6
  <2>1. Fill(o, data, dPos, len).block[j] = data[dPos + (j - o.bPos) + 1]
    BY <1>0, <1>1, <1>4, <2>0, FillFields
  <2>2. (j - o.bPos) + 1 \in 1..len
    <3>1. j \in Nat /\ j < o.bPos + len
      BY <1>a, <1>2
    <3> QED BY <1>a, <1>2, <1>6, <3>1
  <2>3. data[dPos + ((j - o.bPos) + 1)] = m[p + ((j - o.bPos) + 1)]
    BY <1>0, <2>2
  <2>4. dPos + (j - o.bPos) + 1 = dPos + ((j - o.bPos) + 1)
        /\ p + ((j - o.bPos) + 1) = y + j + 1
    BY <1>0, <1>2
  <2> QED BY <2>1, <2>3, <2>4
<1> QED BY <1>0, <1>2, <1>5, <1>6

\* "More space than data, copy in verbatim"
LEMMA TailTook ==
  ASSUME Blake2Sizes, NEW o, NEW m, NEW p, Took(o, m, p),
         NEW data, NEW dPos, NEW len, Brings(data, dPos, len, m, p),
         o.bPos + len < BlockSize
  PROVE  /\ Took(Advance(o, data, dPos, len), m, p + len)
         /\ Counted(o) => Counted(Advance(o, data, dPos, len))
         /\ Advance(o, data, dPos, len).key = o.key
         /\ Advance(o, data, dPos, len).counter = o.counter
<1>1. data \in Seq(ByteVal) /\ dPos \in Nat /\ dPos + len <= Len(data)
  BY DEF Brings
<1>2. len \in Nat
  BY DEF Brings
<1>3. p + len <= Len(m)
  BY DEF Brings
<1>5. Base(o) \in Nat /\ o.bPos \in Nat /\ p = Base(o) + o.bPos
  BY TookFields
<1>6. o \in Obj /\ m \in Seq(ByteVal)
  BY TookFields
<1>7. o.bPos + len \in Nat
  BY <1>2, <1>5
<1>8. o.bPos + len \in Idx
  BY <1>7, BlockArith
<1>9. \A j \in 0..((o.bPos + len) - 1) : Fill(o, data, dPos, len).block[j] = m[Base(o) + j + 1]
  <2>1. o.bPos + len <= BlockSize
    BY <1>7, BlockArith
  <2> QED BY <2>1, FillHolds
<1>12. Base(o) + (o.bPos + len) = p + len
  BY <1>2, <1>5
<1> DEFINE f == Fill(o, data, dPos, len)
           pos == o.bPos + len
           r == Advance(o, data, dPos, len)
<1>13. r = [f EXCEPT !.bPos = pos]
  BY DEF Advance
<1> HIDE DEF r
<1>14. \A j \in 0..(pos - 1) : f.block[j] = m[Base(o) + j + 1]
  BY <1>9
<1> HIDE DEF pos
<1>15. f \in Obj /\ f.chain = o.chain /\ f.key = o.key /\ f.counter = o.counter
  BY <1>1, <1>2, <1>6, FillFields
<1> HIDE DEF f
<1>18. pos \in Idx /\ Base(o) + pos = p + len
  BY <1>8, <1>12 DEF pos
<1>19. /\ r.chain = o.chain /\ r.bPos = pos /\ r.block = f.block
       /\ r.key = o.key /\ r.counter = o.counter
       /\ r \in Obj
  BY <1>13, <1>15, <1>18 DEF Obj
<1>20. Base(r) = Base(o)
  BY <1>19, Zenon DEF Base
<1>21. Position(r) = p + len
  BY <1>18, <1>19, <1>20, Zenon DEF Position
<1>23. \A j \in 0..(r.bPos - 1) : r.block[j] = m[Base(r) + j + 1]
  BY <1>14, <1>19, <1>20, Zenon
<1>24. \A k \in 1..Len(r.chain) : \A j \in Idx :
         r.chain[k].block[j] = m[(k - 1) * BlockSize + j + 1]
  BY <1>19, Zenon DEF Took
<1>26. Took(r, m, p + len)
  BY <1>3, <1>6, <1>19, <1>21, <1>23, <1>24, Zenon DEF Took
<1>27. Counted(o) => Counted(r)
  BY <1>19, Zenon DEF Counted
<1> QED BY <1>19, <1>26, <1>27 DEF r

\* A full block joins the chain, with the count n
LEMMA BlockTook ==
  ASSUME Blake2Sizes, NEW o, NEW m, NEW p, Took(o, m, p),
         NEW data, NEW dPos, NEW len, Brings(data, dPos, len, m, p),
         o.bPos + len = BlockSize, NEW n \in Nat
  PROVE  /\ Took(Hash(Fill(o, data, dPos, len), n, FALSE), m, p + len)
         /\ Hash(Fill(o, data, dPos, len), n, FALSE).bPos = 0
         /\ Hash(Fill(o, data, dPos, len), n, FALSE).key = o.key
         /\ Hash(Fill(o, data, dPos, len), n, FALSE).counter = o.counter
         /\ Counted(o) /\ n = Base(o) + BlockSize =>
              Counted(Hash(Fill(o, data, dPos, len), n, FALSE))
<1>1. data \in Seq(ByteVal) /\ dPos \in Nat /\ dPos + len <= Len(data)
  BY DEF Brings
<1>2. len \in Nat /\ BlockSize \in Nat
  BY BlockArith DEF Brings
<1>3. p + len <= Len(m)
  BY DEF Brings
<1>5. Base(o) \in Nat /\ o.bPos \in Nat /\ p = Base(o) + o.bPos
  BY TookFields
<1>6. o \in Obj /\ m \in Seq(ByteVal) /\ Len(o.chain) \in Nat
  BY TookFields
<1>7. \A j \in Idx : Fill(o, data, dPos, len).block[j] = m[Base(o) + j + 1]
  <2>1. o.bPos + len <= BlockSize
    BY <1>2
  <2>2. \A j \in 0..((o.bPos + len) - 1) : Fill(o, data, dPos, len).block[j] = m[Base(o) + j + 1]
    BY <2>1, FillHolds
  <2>3. Idx = 0..((o.bPos + len) - 1)
    <3>1. (o.bPos + len) - 1 = BlockSize - 1
      BY <1>2, <1>5
    <3>2. Idx = 0..(BlockSize - 1)
      BY DEF Idx
    <3> QED BY <3>1, <3>2, Zenon
  <2> QED BY <2>2, <2>3, Zenon
<1>9. (Len(o.chain) + 1) * BlockSize = Base(o) + BlockSize
  <2>1. (Len(o.chain) + 1) * BlockSize = Len(o.chain) * BlockSize + BlockSize
    BY <1>6, Products
  <2> QED BY <2>1, Zenon DEF Base
<1>10. Base(o) + BlockSize = p + len
  BY <1>2, <1>5
<1> DEFINE f == Fill(o, data, dPos, len)
           r == Hash(f, n, FALSE)
           L == Len(o.chain)
<1>13. f \in Obj /\ f.chain = o.chain /\ f.key = o.key /\ f.counter = o.counter
  BY <1>1, <1>2, <1>6, FillFields
<1> HIDE DEF f
<1>18. /\ r \in Obj /\ r.bPos = 0 /\ Len(r.chain) = L + 1
       /\ r.key = o.key /\ r.counter = o.counter
       /\ \A k \in 1..L : r.chain[k] = o.chain[k]
       /\ r.chain[L + 1].block = f.block
       /\ r.chain[L + 1].count = n
       /\ r.chain[L + 1].last = FALSE
  <2>1. /\ r \in Obj /\ r.bPos = 0 /\ Len(r.chain) = Len(f.chain) + 1
        /\ r.key = f.key /\ r.counter = f.counter
        /\ \A k \in 1..Len(f.chain) : r.chain[k] = f.chain[k]
        /\ r.chain[Len(f.chain) + 1].block = f.block
        /\ r.chain[Len(f.chain) + 1].count = n
        /\ r.chain[Len(f.chain) + 1].last = FALSE
    <3>1. FALSE \in BOOLEAN
      OBVIOUS
    <3> QED BY <1>13, <3>1, HashFields, ZenonT(30)
  <2> HIDE DEF r
  <2> QED BY <1>13, <2>1, Zenon
<1> HIDE DEF r
<1>a. \A k \in 1..(L + 1) : k \in 1..L \/ (k = L + 1 /\ k - 1 = L)
  <2> HIDE DEF L
  <2>1. L \in Nat
    BY <1>6 DEF L
  <2> QED BY <2>1
<1>19. \A k \in 1..Len(r.chain) : \A j \in Idx :
         r.chain[k].block[j] = m[(k - 1) * BlockSize + j + 1]
  <2> SUFFICES ASSUME NEW k \in 1..(L + 1), NEW j \in Idx
               PROVE  r.chain[k].block[j] = m[(k - 1) * BlockSize + j + 1]
    BY <1>18
  <2>1. CASE k \in 1..L
    <3>1. r.chain[k] = o.chain[k]
      BY <1>18, <2>1
    <3>2. o.chain[k].block[j] = m[(k - 1) * BlockSize + j + 1]
      BY <2>1 DEF Took
    <3> QED BY <3>1, <3>2, Zenon
  <2>2. CASE k = L + 1 /\ k - 1 = L
    <3>1. r.chain[k].block = f.block
      BY <1>18, <2>2, Zenon
    <3>2. (k - 1) * BlockSize = Base(o)
      BY <2>2, Zenon DEF Base
    <3> QED BY <1>7, <3>1, <3>2, Zenon DEF f
  <2> QED BY <1>a, <2>1, <2>2
<1>20. Base(r) = p + len
  BY <1>9, <1>10, <1>18, Zenon DEF Base
<1>21. Position(r) = p + len
  <2>1. p + len \in Nat
    BY <1>2, <1>5
  <2>2. Position(r) = (p + len) + 0
    BY <1>18, <1>20, Zenon DEF Position
  <2> QED BY <2>1, <2>2
<1>22. ASSUME Counted(o), n = Base(o) + BlockSize PROVE Counted(r)
  <2> SUFFICES ASSUME NEW k \in 1..(L + 1)
               PROVE  r.chain[k].count = k * BlockSize /\ r.chain[k].last = FALSE
    BY <1>18, Zenon DEF Counted
  <2>1. CASE k \in 1..L
    BY <1>18, <1>22, <2>1, Zenon DEF Counted
  <2>2. CASE k = L + 1
    BY <1>9, <1>18, <1>22, <2>2, Zenon
  <2> QED BY <1>a, <2>1, <2>2
<1>23. \A j \in 0..(r.bPos - 1) : r.block[j] = m[Base(r) + j + 1]
  <2>1. 0..(r.bPos - 1) = {}
    BY <1>18
  <2> QED BY <2>1, Zenon
<1>24. Took(r, m, p + len)
  BY <1>3, <1>6, <1>18, <1>19, <1>21, <1>23, Zenon DEF Took
<1> QED BY <1>18, <1>22, <1>24 DEF r, f

LEMMA ZeroBlockType == ZeroBlock \in Block
BY DEF ZeroBlock, Block, ByteVal, ZeroByte

\* A new object, and one that reset() cleared, holds its key
LEMMA KeyedTook ==
  ASSUME Blake2Sizes, NEW key \in Keys, NEW b \in Block, NEW x \in Counter
  PROVE  /\ Took(Keyed(key, b, x), key, Len(key))
         /\ Counted(Keyed(key, b, x))
         /\ Keyed(key, b, x).key = key
         /\ Keyed(key, b, x).counter = x
<1> DEFINE o == [key |-> key, chain |-> <<>>, block |-> b, bPos |-> 0, counter |-> x]
<1>1. key \in Seq(ByteVal) /\ Len(key) \in Nat /\ Len(key) < BlockSize
  BY DEF Blake2Sizes
<1>2. /\ o \in Obj /\ o.chain = <<>> /\ o.bPos = 0 /\ o.key = key /\ o.counter = x
  BY BlockArith DEF Obj
<1>3. Keyed(key, b, x) = Advance(o, key, 0, Len(key))
  BY DEF Keyed
<1> HIDE DEF o
<1>4. Position(o) = 0
  BY <1>2, Products DEF Position, Base
<1>5. Took(o, key, 0) /\ Counted(o)
  BY <1>1, <1>2, <1>4 DEF Took, Counted
<1>6. Brings(key, 0, Len(key), key, 0)
  <2>1. \A i \in 1..Len(key) : 0 + i = i
    BY <1>1
  <2>2. 0 \in Nat /\ 0 + Len(key) <= Len(key)
    BY <1>1
  <2> QED BY <1>1, <2>1, <2>2, Zenon DEF Brings
<1>7. o.bPos + Len(key) < BlockSize /\ 0 + Len(key) = Len(key)
  BY <1>1, <1>2
<1> QED BY <1>2, <1>3, <1>5, <1>6, <1>7, TailTook

-----------------------------------------------------------------------------
(* sumIn(): what it computes. *)

\* The byte j of the block of o once the rest of it is cleared
Kept(o, j) == IF j < o.bPos THEN o.block[j] ELSE ZeroByte

LEMMA ZeroRestFields ==
  ASSUME Blake2Sizes, NEW o \in Obj
  PROVE  /\ ZeroRest(o) \in Obj
         /\ ZeroRest(o).chain = o.chain
         /\ ZeroRest(o).key = o.key
         /\ ZeroRest(o).counter = o.counter
         /\ \A j \in Idx : ZeroRest(o).block[j] = Kept(o, j)
<1> DEFINE blk == [j \in Idx |-> IF j < o.bPos THEN o.block[j] ELSE ZeroByte]
<1>1. o.block \in [Idx -> ByteVal]
  BY ObjFields
<1>2. \A j \in Idx : blk[j] = Kept(o, j) /\ Kept(o, j) \in ByteVal
  BY <1>1 DEF Kept, ByteVal, ZeroByte
<1>3. blk \in Block
  BY <1>2 DEF Block
<1>4. ZeroRest(o) = [o EXCEPT !.block = blk]
  BY DEF ZeroRest
<1> HIDE DEF blk
<1> QED BY <1>2, <1>3, <1>4 DEF Obj

LEMMA FinalFields ==
  ASSUME Blake2Sizes, NEW o \in Obj, NEW n \in Nat
  PROVE  /\ Final(o, n) \in Obj
         /\ Final(o, n).key = o.key
         /\ Final(o, n).counter = o.counter
         /\ Len(o.chain) \in Nat
         /\ Len(Final(o, n).chain) = Len(o.chain) + 1
         /\ \A k \in 1..Len(o.chain) : Final(o, n).chain[k] = o.chain[k]
         /\ \A j \in Idx : Final(o, n).chain[Len(o.chain) + 1].block[j] = Kept(o, j)
         /\ Final(o, n).chain[Len(o.chain) + 1].count = n
         /\ Final(o, n).chain[Len(o.chain) + 1].last = TRUE
<1> DEFINE z == ZeroRest(o)
           r == Hash(z, n, TRUE)
<1>1. /\ z \in Obj /\ z.chain = o.chain /\ z.key = o.key /\ z.counter = o.counter
      /\ \A j \in Idx : z.block[j] = Kept(o, j)
  BY ZeroRestFields
<1> HIDE DEF z
<1>2. /\ r \in Obj /\ Len(r.chain) = Len(z.chain) + 1
      /\ r.key = z.key /\ r.counter = z.counter
      /\ Len(z.chain) \in Nat
      /\ \A k \in 1..Len(z.chain) : r.chain[k] = z.chain[k]
      /\ r.chain[Len(z.chain) + 1].block = z.block
      /\ r.chain[Len(z.chain) + 1].count = n
      /\ r.chain[Len(z.chain) + 1].last = TRUE
  <2>1. TRUE \in BOOLEAN
    OBVIOUS
  <2> QED BY <1>1, <2>1, HashFields, ZenonT(30)
<1>3. Final(o, n) = r
  BY Zenon DEF Final, z
<1> HIDE DEF r
<1> QED BY <1>1, <1>2, <1>3, Zenon

\* The byte i of M, and zeros behind it; and a row of the digest of M
ByteOf(M, i) == IF i < Len(M) THEN M[i + 1] ELSE ZeroByte
Row(M, full, k) ==
  [block |-> [j \in Idx |-> ByteOf(M, (k - 1) * BlockSize + j)],
   count |-> IF k <= full THEN k * BlockSize ELSE Len(M),
   last  |-> k = full + 1]

\* triple is that row
IsRow(M, full, k, triple) ==
  /\ triple \in Compressed
  /\ triple.count = IF k <= full THEN k * BlockSize ELSE Len(M)
  /\ triple.last = (k = full + 1)
  /\ \A j \in Idx : triple.block[j] = ByteOf(M, (k - 1) * BlockSize + j)

LEMMA RowIs ==
  ASSUME NEW M, NEW full, NEW k, NEW triple, IsRow(M, full, k, triple)
  PROVE  triple = Row(M, full, k)
<1> DEFINE blk == [j \in Idx |-> ByteOf(M, (k - 1) * BlockSize + j)]
           n == IF k <= full THEN k * BlockSize ELSE Len(M)
           l == (k = full + 1)
<1>1. triple \in Compressed /\ triple.count = n /\ triple.last = l
  BY Zenon DEF IsRow
<1>2. \A j \in Idx : triple.block[j] = blk[j]
  BY Zenon DEF IsRow
<1>3. triple.block = [j \in Idx |-> triple.block[j]]
  <2> HIDE DEF n, l, blk
  <2> QED BY <1>1 DEF Compressed, Block
<1>4. triple.block = blk
  BY <1>2, <1>3, Zenon
<1>5. Row(M, full, k) = [block |-> blk, count |-> n, last |-> l]
  BY DEF Row
<1> HIDE DEF blk, n, l
<1> QED BY <1>1, <1>4, <1>5 DEF Compressed

\* The digest of an object that took all of the key and the message, and counted right
LEMMA FinalRight ==
  ASSUME Blake2Sizes, NEW key, NEW m, NEW o, Took(o, key \o m, Len(key \o m)),
         Counted(o), NEW n, n = Len(key \o m)
  PROVE  Final(o, n).chain = Blocks(key, m)
<1> DEFINE M == key \o m
           L == Len(o.chain)
           y == Base(o)
           b == o.bPos
           ch == Final(o, n).chain
<1>1. /\ o \in Obj /\ M \in Seq(ByteVal) /\ L \in Nat /\ b \in Idx /\ b \in Nat
      /\ y \in Nat /\ Len(M) \in Nat /\ Len(M) = y + b /\ b < BlockSize
  BY TookFields
<1>2. Len(M) \div BlockSize = L
  <2>1. Len(M) = L * BlockSize + b
    BY <1>1, Zenon DEF Base
  <2>2. (L * BlockSize + b) \div BlockSize = L
    BY <1>1, Quotient
  <2> QED BY <2>1, <2>2, Zenon
<1>3. /\ ch \in Seq(Compressed) /\ Len(ch) = L + 1
      /\ \A k \in 1..L : ch[k] = o.chain[k]
      /\ \A j \in Idx : ch[L + 1].block[j] = Kept(o, j)
      /\ ch[L + 1].count = Len(M) /\ ch[L + 1].last = TRUE
  <2>1. /\ Final(o, n) \in Obj /\ Len(ch) = L + 1
        /\ \A k \in 1..L : ch[k] = o.chain[k]
        /\ \A j \in Idx : ch[L + 1].block[j] = Kept(o, j)
        /\ ch[L + 1].count = n /\ ch[L + 1].last = TRUE
    <3>1. n \in Nat
      BY <1>1
    <3> QED BY <1>1, <3>1, FinalFields, Zenon
  <2>2. ch \in Seq(Compressed)
    BY <2>1, ObjFields
  <2> QED BY <2>1, <2>2, Zenon
<1>4. Blocks(key, m) = [k \in 1..(L + 1) |-> Row(M, L, k)]
  BY <1>2, Zenon DEF Blocks, Row, ByteOf
<1> HIDE DEF ch
<1>5. ASSUME NEW k \in 1..L
      PROVE  IsRow(M, L, k, ch[k])
  <2>1. ch[k] = o.chain[k] /\ o.chain[k] \in Compressed
    BY <1>1, <1>3, ObjFields
  <2>2. k <= L /\ k # L + 1
    <3> HIDE DEF L
    <3> QED BY <1>1
  <2>3. o.chain[k].count = k * BlockSize /\ o.chain[k].last = FALSE
    BY Zenon DEF Counted
  <2>4. ASSUME NEW j \in Idx
        PROVE  o.chain[k].block[j] = ByteOf(M, (k - 1) * BlockSize + j)
    <3> DEFINE x == (k - 1) * BlockSize
    <3>1. x \in Nat /\ x + j < y
      BY <1>1, InsideBlock DEF Base
    <3>2. o.chain[k].block[j] = M[x + j + 1]
      BY DEF Took
    <3>3. j \in Nat
      BY BlockArith
    <3> HIDE DEF x, y, M, b
    <3>4. x + j < Len(M)
      BY <1>1, <3>1, <3>3
    <3> QED BY <3>2, <3>4, Zenon DEF ByteOf, x
  <2>5. (k = L + 1) = FALSE
    BY <2>2
  <2> HIDE DEF L, M
  <2> QED BY <2>1, <2>2, <2>3, <2>4, <2>5, Zenon DEF IsRow
<1>6. IsRow(M, L, L + 1, ch[L + 1])
  <2>1. ch[L + 1] \in Compressed
    <3> HIDE DEF L
    <3>1. L + 1 \in 1..Len(ch)
      BY <1>1, <1>3
    <3> QED BY <1>3, <3>1
  <2>2. ~(L + 1 <= L) /\ (L + 1) - 1 = L
    <3> HIDE DEF L
    <3> QED BY <1>1
  <2>3. ASSUME NEW j \in Idx
        PROVE  ch[L + 1].block[j] = ByteOf(M, ((L + 1) - 1) * BlockSize + j)
    <3>1. ((L + 1) - 1) * BlockSize = y
      BY <2>2, Zenon DEF Base
    <3>2. j \in Nat
      BY BlockArith
    <3>3. CASE j < b
      <4>1. ch[L + 1].block[j] = o.block[j]
        BY <1>3, <3>3, Zenon DEF Kept
      <4>2. j \in 0..(b - 1)
        <5> HIDE DEF b
        <5> QED BY <1>1, <3>2, <3>3
      <4>3. o.block[j] = M[y + j + 1]
        BY <4>2, Zenon DEF Took
      <4>4. y + j < Len(M)
        <5> HIDE DEF y, b, M
        <5> QED BY <1>1, <3>2, <3>3
      <4> QED BY <3>1, <4>1, <4>3, <4>4, Zenon DEF ByteOf
    <3>4. CASE ~(j < b)
      <4>1. ch[L + 1].block[j] = ZeroByte
        BY <1>3, <3>4, Zenon DEF Kept
      <4>2. ~(y + j < Len(M))
        <5> HIDE DEF y, b, M
        <5> QED BY <1>1, <3>2, <3>4
      <4> QED BY <3>1, <4>1, <4>2, Zenon DEF ByteOf
    <3> QED BY <3>3, <3>4
  <2>4. TRUE = (L + 1 = L + 1)
    OBVIOUS
  <2> HIDE DEF L, M
  <2> QED BY <1>3, <2>1, <2>2, <2>3, <2>4, Zenon DEF IsRow
<1>7. \A k \in 1..(L + 1) : ch[k] = Row(M, L, k)
  <2> TAKE k \in 1..(L + 1)
  <2>1. k \in 1..L \/ k = L + 1
    <3> HIDE DEF L
    <3> QED BY <1>1
  <2> HIDE DEF L, M
  <2>2. IsRow(M, L, k, ch[k])
    BY <1>5, <1>6, <2>1, Zenon
  <2> QED BY <2>2, RowIs, Zenon
<1>8. ch = [k \in 1..(L + 1) |-> ch[k]]
  <2>1. ch = [k \in 1..Len(ch) |-> ch[k]]
    BY <1>3
  <2> QED BY <1>3, <2>1, Zenon
<1> HIDE DEF L, M
<1>9. ch = Blocks(key, m)
  BY <1>4, <1>7, <1>8, Zenon
<1> QED BY <1>9 DEF ch

-----------------------------------------------------------------------------
(* The inductive invariant: what every live object took, that a write() in  *)
(* progress has still to bring the end of the message, and that the counter *)
(* of an object nobody disturbed is its position in the message.            *)

\* What an object is to hash: its key, if any, and its message
Full(c) == obj[c].key \o msg[c]

\* No block begun by one write was completed by another, and no other object's call
\* changed the counter
Alone(c) == c \notin drifted \union touched

Holds(c, p) ==
  /\ Took(obj[c], Full(c), p)
  /\ Alone(c) => Counted(obj[c]) /\ count[obj[c].counter] = p

Writing == [ctx : Ctx, data : Seq(ByteVal), dPos : Nat, nToWrite : Nat, space : Nat]

InCall(w) ==
  /\ call = {w}
  /\ w \in Writing
  /\ w.ctx \in Ctx \ spent
  /\ w.space = BlockSize - obj[w.ctx].bPos
  /\ Brings(w.data, w.dPos, w.nToWrite, Full(w.ctx), Len(Full(w.ctx)) - w.nToWrite)
  /\ w.nToWrite <= Len(msg[w.ctx])
  /\ Holds(w.ctx, Len(Full(w.ctx)) - w.nToWrite)

AtRest(c) == Holds(c, Len(Full(c)))

IInv ==
  /\ obj \in [Ctx -> Obj]
  /\ count \in [Counter -> Nat]
  /\ msg \in [Ctx -> Seq(ByteVal)]
  /\ spent \subseteq Ctx /\ drifted \subseteq Ctx /\ touched \subseteq Ctx
  /\ \A c \in Ctx : Len(msg[c]) <= MaxLen
  /\ \A w \in call : InCall(w)
  /\ \A c \in Ctx \ spent : (\A w \in call : w.ctx # c) => AtRest(c)
  /\ call # {} => out = {}
  /\ DigestRightWhenAlone

LEMMA FullLength ==
  ASSUME Blake2Sizes, IInv, NEW c \in Ctx
  PROVE  /\ obj[c] \in Obj /\ obj[c].key \in Seq(ByteVal) /\ msg[c] \in Seq(ByteVal)
         /\ obj[c].key \in Keys /\ obj[c].counter \in Counter
         /\ Full(c) \in Seq(ByteVal)
         /\ Len(Full(c)) = Len(obj[c].key) + Len(msg[c])
         /\ Len(Full(c)) \in Nat /\ Len(msg[c]) \in Nat /\ Len(obj[c].key) \in Nat
<1>1. obj[c] \in Obj /\ msg[c] \in Seq(ByteVal)
  BY DEF IInv
<1>2. obj[c].key \in Keys /\ obj[c].counter \in Counter
  BY <1>1, ObjFields
<1>3. obj[c].key \in Seq(ByteVal)
  BY <1>2 DEF Blake2Sizes
<1> DEFINE key == obj[c].key
           m == msg[c]
<1>4. key \in Seq(ByteVal) /\ m \in Seq(ByteVal)
  BY <1>1, <1>3
<1> HIDE DEF key, m
<1>5. /\ key \o m \in Seq(ByteVal) /\ Len(key \o m) = Len(key) + Len(m)
      /\ Len(key \o m) \in Nat /\ Len(m) \in Nat /\ Len(key) \in Nat
  BY <1>4
<1> QED BY <1>1, <1>2, <1>3, <1>5 DEF Full, key, m

LEMMA IdleRest ==
  ASSUME IInv, Idle
  PROVE  \A c \in Ctx \ spent : AtRest(c)
BY DEF IInv, Idle

\* An object that a step did not touch holds what it held
LEMMA OtherHolds ==
  ASSUME NEW c, NEW p, Holds(c, p), obj'[c] = obj[c], msg'[c] = msg[c],
         Alone(c)' => Alone(c) /\ count'[obj[c].counter] = count[obj[c].counter]
  PROVE  Holds(c, p)' /\ Full(c)' = Full(c)
<1>1. Full(c)' = Full(c)
  BY Zenon DEF Full
<1>2. Took(obj'[c], Full(c)', p)
  BY <1>1, Zenon DEF Holds
<1>3. ASSUME Alone(c)'
      PROVE  Counted(obj'[c]) /\ count'[obj'[c].counter] = p
  BY <1>3, Zenon DEF Holds
<1> QED BY <1>1, <1>2, <1>3, Zenon DEF Holds

LEMMA OtherAtRest ==
  ASSUME NEW c, AtRest(c), obj'[c] = obj[c], msg'[c] = msg[c],
         Alone(c)' => Alone(c) /\ count'[obj[c].counter] = count[obj[c].counter]
  PROVE  AtRest(c)'
BY OtherHolds, Zenon DEF AtRest

\* addEq() on the counter of c: of the others, those that share it are no longer alone
LEMMA CountMoreLeaves ==
  ASSUME IInv, NEW c \in Ctx, NEW n, CountMore(c, n), drifted \subseteq drifted',
         NEW d \in Ctx, d # c, Alone(d)'
  PROVE  Alone(d) /\ count'[obj[d].counter] = count[obj[d].counter]
<1>1. count \in [Counter -> Nat] /\ obj[c].counter \in Counter /\ obj[d].counter \in Counter
  BY DEF IInv, Obj
<1>2. d \notin touched \union Sharers(c) /\ d \notin drifted
  BY DEF CountMore, Alone
<1>3. obj[d].counter # obj[c].counter
  BY <1>2 DEF Sharers
<1> QED BY <1>1, <1>2, <1>3 DEF CountMore, Alone

LEMMA EmptyEnd == ASSUME NEW s \in Seq(ByteVal) PROVE s \o <<>> = s
OBVIOUS

LEMMA InitHolds == ASSUME Blake2Sizes, Init PROVE IInv
<1>1. PICK k \in [Ctx -> Keys], f \in Bijection(Ctx, Counter) :
        /\ obj = [c \in Ctx |-> Keyed(k[c], ZeroBlock, f[c])]
        /\ count = [x \in Counter |-> Len(k[Inverse(f, Ctx, Counter)[x]])]
  BY DEF Init
<1>2. /\ call = {} /\ msg = [c \in Ctx |-> <<>>] /\ spent = {} /\ drifted = {} /\ touched = {}
      /\ out = {}
  BY DEF Init
<1>3. /\ f \in [Ctx -> Counter]
      /\ \A a, b \in Ctx : f[a] = f[b] => a = b
      /\ \A x \in Counter : \E c \in Ctx : f[c] = x
  BY DEF Bijection, Injection, Surjection, IsInjective
<1>4. \A x \in Counter : Inverse(f, Ctx, Counter)[x] \in Ctx /\ f[Inverse(f, Ctx, Counter)[x]] = x
  <2> TAKE x \in Counter
  <2>1. PICK c \in Ctx : f[c] = x
    BY <1>3
  <2>2. x \in Range(f)
    BY <1>3, <2>1 DEF Range
  <2>3. Inverse(f, Ctx, Counter)[x] = CHOOSE s \in Ctx : x \in Range(f) => f[s] = x
    BY DEF Inverse
  <2> QED BY <2>1, <2>2, <2>3
<1>5. ASSUME NEW c \in Ctx
      PROVE  /\ obj[c] \in Obj /\ obj[c].key = k[c] /\ obj[c].counter = f[c]
             /\ Took(obj[c], k[c], Len(k[c])) /\ Counted(obj[c])
             /\ k[c] \in Seq(ByteVal)
  <2>1. obj[c] = Keyed(k[c], ZeroBlock, f[c])
    BY <1>1
  <2>2. k[c] \in Keys /\ f[c] \in Counter /\ ZeroBlock \in Block
    BY <1>3, ZeroBlockType
  <2>3. /\ Took(obj[c], k[c], Len(k[c])) /\ Counted(obj[c])
        /\ obj[c].key = k[c] /\ obj[c].counter = f[c]
    BY <2>1, <2>2, KeyedTook
  <2>4. k[c] \in Seq(ByteVal)
    BY <2>2 DEF Blake2Sizes
  <2> QED BY <2>3, <2>4 DEF Took
<1>6. obj \in [Ctx -> Obj]
  BY <1>1, <1>5
<1>7. \A x \in Counter : Len(k[Inverse(f, Ctx, Counter)[x]]) \in Nat
  BY <1>4, <1>5
<1>8. count \in [Counter -> Nat]
  BY <1>1, <1>7
<1>9. ASSUME NEW c \in Ctx
      PROVE  AtRest(c)
  <2>1. Full(c) = k[c]
    BY <1>2, <1>5, EmptyEnd DEF Full
  <2>2. count[f[c]] = Len(k[c])
    <3>1. Inverse(f, Ctx, Counter)[f[c]] = c
      BY <1>3, <1>4
    <3> QED BY <1>1, <1>3, <3>1
  <2> QED BY <1>5, <2>1, <2>2, Zenon DEF AtRest, Holds
<1>10. msg \in [Ctx -> Seq(ByteVal)] /\ \A c \in Ctx : Len(msg[c]) <= MaxLen
  BY <1>2 DEF Blake2Sizes
<1> QED BY <1>2, <1>6, <1>8, <1>9, <1>10 DEF IInv, DigestRightWhenAlone

LEMMA WriteBeginKeeps ==
  ASSUME Blake2Sizes, IInv, NEW c \in Ctx, NEW data \in Data, WriteBegin(c, data)
  PROVE  IInv'
<1> DEFINE m == msg[c] \o data
           o == obj[c]
           M == o.key \o m
           w == [ctx |-> c, data |-> data, dPos |-> 0, nToWrite |-> Len(data),
                 space |-> BlockSize - o.bPos]
<1>1. /\ obj \in [Ctx -> Obj] /\ msg \in [Ctx -> Seq(ByteVal)]
      /\ count \in [Counter -> Nat]
      /\ \A d \in Ctx : Len(msg[d]) <= MaxLen
  BY DEF IInv
<1>2. /\ call = {} /\ c \notin spent /\ Len(msg[c]) + Len(data) <= MaxLen
      /\ call' = {w} /\ msg' = [msg EXCEPT ![c] = m] /\ out' = {}
      /\ UNCHANGED <<obj, count, spent, drifted, touched>>
  BY DEF WriteBegin, Idle
<1>3. Holds(c, Len(Full(c)))
  BY <1>2, IdleRest DEF AtRest, Idle
<1>4. data \in Seq(ByteVal)
  BY DEF Blake2Sizes
<1>5. /\ m \in Seq(ByteVal) /\ Len(m) = Len(msg[c]) + Len(data)
      /\ Len(data) \in Nat /\ Len(msg[c]) \in Nat
      /\ o.key \in Seq(ByteVal)
  BY <1>1, <1>4, FullLength
<1>6. /\ M = Full(c) \o data /\ Full(c) \in Seq(ByteVal)
      /\ Len(Full(c)) \in Nat
  <2>1. Full(c) \in Seq(ByteVal) /\ Len(Full(c)) \in Nat
    BY FullLength
  <2> DEFINE key == o.key
             s == msg[c]
  <2>2. key \in Seq(ByteVal) /\ s \in Seq(ByteVal)
    BY <1>1, <1>5
  <2> HIDE DEF key, s
  <2>3. key \o (s \o data) = (key \o s) \o data
    BY <1>4, <2>2
  <2> QED BY <2>1, <2>3 DEF Full, key, s
<1>7. /\ M \in Seq(ByteVal) /\ Len(M) = Len(Full(c)) + Len(data)
      /\ \A i \in 1..Len(data) : M[Len(Full(c)) + i] = data[i]
  <2> DEFINE s == Full(c)
  <2>1. M = s \o data /\ s \in Seq(ByteVal)
    BY <1>6
  <2> HIDE DEF s, M
  <2> QED BY <1>4, <2>1 DEF s
<1>8. Took(o, M, Len(Full(c)))
  <2>1. Took(o, Full(c), Len(Full(c)))
    BY <1>3 DEF Holds
  <2>2. Took(o, Full(c) \o data, Len(Full(c)))
    BY <1>4, <1>6, <2>1, TookLonger
  <2> QED BY <1>6, <2>2
<1>9. w \in Writing
  <2>1. BlockSize - o.bPos \in Nat
    BY <1>8, TookFields, BlockArith
  <2> QED BY <1>4, <1>5, <2>1 DEF Writing
<1>10. /\ w.ctx = c /\ w.data = data /\ w.dPos = 0 /\ w.nToWrite = Len(data)
       /\ w.space = BlockSize - o.bPos
  OBVIOUS
<1>11. msg'[c] = m /\ \A d \in Ctx : d # c => msg'[d] = msg[d]
  BY <1>1, <1>2
<1>12. Full(c)' = M
  BY <1>2, <1>11 DEF Full
<1> HIDE DEF m, w, M, o
<1>13. Len(M) - Len(data) = Len(Full(c))
  <2> DEFINE x == Len(Full(c))
  <2>1. x \in Nat /\ Len(M) = x + Len(data)
    BY <1>6, <1>7
  <2> HIDE DEF x
  <2> QED BY <1>5, <2>1 DEF x
<1>14. Brings(data, 0, Len(data), M, Len(M) - Len(data))
  <2>1. /\ 0 \in Nat /\ 0 + Len(data) <= Len(data)
        /\ \A i \in 1..Len(data) : 0 + i = i
    BY <1>5
  <2>2. Len(Full(c)) + Len(data) <= Len(M)
    <3> DEFINE x == Len(Full(c))
    <3>1. x \in Nat /\ Len(M) = x + Len(data)
      BY <1>6, <1>7
    <3> HIDE DEF x
    <3> QED BY <1>5, <3>1 DEF x
  <2> QED BY <1>4, <1>5, <1>7, <1>13, <2>1, <2>2, Zenon DEF Brings
<1>15. /\ Took(obj'[c], M, Len(M) - Len(data))
       /\ Alone(c)' => Counted(obj'[c]) /\ count'[obj'[c].counter] = Len(M) - Len(data)
  <2>1. Took(obj'[c], M, Len(Full(c)))
    BY <1>2, <1>8, Zenon DEF o
  <2>2. Alone(c)' => Counted(obj'[c]) /\ count'[obj'[c].counter] = Len(Full(c))
    BY <1>2, <1>3, Zenon DEF Holds, Alone
  <2> QED BY <1>13, <2>1, <2>2, Zenon
<1>16. \A v \in call' : InCall(v)'
  <2> TAKE v \in call'
  <2>1. v = w /\ call' = {v}
    BY <1>2
  <2>2. /\ v \in Writing /\ v.ctx = c /\ v.data = data /\ v.dPos = 0 /\ v.nToWrite = Len(data)
        /\ v.space = BlockSize - o.bPos
    BY <1>9, <1>10, <2>1, Zenon
  <2>3. c \in Ctx \ spent' /\ v.space = BlockSize - obj'[c].bPos
    BY <1>2, <2>2 DEF o
  <2>4. v.nToWrite <= Len(msg'[c])
    <3>1. Len(data) <= Len(m)
      BY <1>5
    <3> QED BY <1>11, <2>2, <3>1
  <2> QED BY <1>12, <1>14, <1>15, <2>1, <2>2, <2>3, <2>4, Zenon DEF InCall, Holds
<1>17. \A d \in Ctx \ spent' : (\A v \in call' : v.ctx # d) => AtRest(d)'
  <2> TAKE d \in Ctx \ spent'
  <2> HAVE \A v \in call' : v.ctx # d
  <2>1. d # c /\ d \in Ctx \ spent
    BY <1>2, <1>10
  <2>2. AtRest(d)
    BY <1>2, <2>1, IdleRest DEF Idle
  <2>3. Alone(d)' => Alone(d) /\ count'[obj[d].counter] = count[obj[d].counter]
    BY <1>2 DEF Alone
  <2> QED BY <1>2, <1>11, <2>1, <2>2, <2>3, OtherAtRest, Zenon
<1>18. \A d \in Ctx : Len(msg'[d]) <= MaxLen
  BY <1>1, <1>2, <1>5, <1>11
<1>19. msg' \in [Ctx -> Seq(ByteVal)]
  BY <1>1, <1>2, <1>5
<1>20. spent \subseteq Ctx /\ drifted \subseteq Ctx /\ touched \subseteq Ctx
  BY DEF IInv
<1> QED BY <1>1, <1>2, <1>16, <1>17, <1>18, <1>19, <1>20 DEF IInv, DigestRightWhenAlone

\* What the invariant says of the object that a write() is working on
LEMMA CallFacts ==
  ASSUME Blake2Sizes, IInv, NEW w \in call
  PROVE  /\ call = {w} /\ w \in Writing /\ w.ctx \in Ctx /\ w.ctx \notin spent
         /\ w.nToWrite \in Nat /\ w.space = BlockSize - obj[w.ctx].bPos
         /\ Brings(w.data, w.dPos, w.nToWrite, Full(w.ctx), Len(Full(w.ctx)) - w.nToWrite)
         /\ w.dPos \in Nat /\ w.nToWrite <= Len(msg[w.ctx])
         /\ Holds(w.ctx, Len(Full(w.ctx)) - w.nToWrite)
         /\ Took(obj[w.ctx], Full(w.ctx), Len(Full(w.ctx)) - w.nToWrite)
         /\ Len(Full(w.ctx)) - w.nToWrite \in Nat
         /\ Len(Full(w.ctx)) \in Nat
         /\ out = {}
         /\ \A c \in Ctx \ spent : c # w.ctx => AtRest(c)
<1>1. InCall(w)
  BY DEF IInv
<1>2. /\ call = {w} /\ w \in Writing /\ w.ctx \in Ctx /\ w.ctx \notin spent
      /\ w.space = BlockSize - obj[w.ctx].bPos
      /\ Brings(w.data, w.dPos, w.nToWrite, Full(w.ctx), Len(Full(w.ctx)) - w.nToWrite)
      /\ w.nToWrite <= Len(msg[w.ctx])
      /\ Holds(w.ctx, Len(Full(w.ctx)) - w.nToWrite)
  BY <1>1 DEF InCall
<1>3. w.dPos \in Nat /\ w.nToWrite \in Nat
  BY <1>2 DEF Writing
<1>4. Took(obj[w.ctx], Full(w.ctx), Len(Full(w.ctx)) - w.nToWrite)
  BY <1>2, Zenon DEF Holds
<1>5. Len(Full(w.ctx)) - w.nToWrite \in Nat /\ Len(Full(w.ctx)) \in Nat
  BY <1>4, TookFields
<1>6. out = {}
  BY <1>2 DEF IInv
<1>7. \A c \in Ctx \ spent : c # w.ctx => AtRest(c)
  BY <1>2 DEF IInv
<1> QED BY <1>2, <1>3, <1>4, <1>5, <1>6, <1>7

\* A write() ends: its object has taken all, the others are as they were
LEMMA CallEnds ==
  ASSUME Blake2Sizes, IInv, NEW w \in call, NEW o,
         Took(o, Full(w.ctx), Len(Full(w.ctx))), o.key = obj[w.ctx].key,
         Alone(w.ctx)' => Counted(o) /\ count'[o.counter] = Len(Full(w.ctx)),
         obj' = [obj EXCEPT ![w.ctx] = o],
         count' \in [Counter -> Nat], touched' \subseteq Ctx, call' = {},
         \A d \in Ctx : d # w.ctx /\ Alone(d)' =>
            Alone(d) /\ count'[obj[d].counter] = count[obj[d].counter],
         UNCHANGED <<msg, spent, drifted, out>>
  PROVE  IInv'
<1>1. /\ obj \in [Ctx -> Obj] /\ w.ctx \in Ctx /\ out = {}
      /\ \A c \in Ctx \ spent : c # w.ctx => AtRest(c)
  BY CallFacts DEF IInv
<1>2. o \in Obj
  BY DEF Took
<1>3. obj' \in [Ctx -> Obj]
  BY <1>1, <1>2
<1>4. obj'[w.ctx] = o /\ \A c \in Ctx : c # w.ctx => obj'[c] = obj[c]
  BY <1>1
<1>5. ASSUME NEW c \in Ctx \ spent' PROVE AtRest(c)'
  <2>1. CASE c = w.ctx
    <3>1. Full(c)' = Full(c)
      BY <1>4, <2>1, Zenon DEF Full
    <3> QED BY <1>4, <2>1, <3>1, Zenon DEF AtRest, Holds
  <2>2. CASE c # w.ctx
    <3>1. AtRest(c) /\ obj'[c] = obj[c] /\ msg'[c] = msg[c]
      BY <1>1, <1>4, <2>2
    <3> QED BY <2>2, <3>1, OtherAtRest
  <2> QED BY <2>1, <2>2
<1>6. /\ msg \in [Ctx -> Seq(ByteVal)] /\ spent \subseteq Ctx /\ drifted \subseteq Ctx
      /\ \A c \in Ctx : Len(msg[c]) <= MaxLen
  BY DEF IInv
<1> QED BY <1>1, <1>3, <1>5, <1>6 DEF IInv, DigestRightWhenAlone

LEMMA WriteEndKeeps ==
  ASSUME Blake2Sizes, IInv, WriteEnd
  PROVE  IInv'
<1>1. PICK w \in call : w.nToWrite = 0
  BY DEF WriteEnd
<1>2. call' = {} /\ UNCHANGED <<obj, count, msg, spent, drifted, touched, out>>
  BY DEF WriteEnd
<1>3. Holds(w.ctx, Len(Full(w.ctx)))
  <2>1. Holds(w.ctx, Len(Full(w.ctx)) - 0)
    BY <1>1, CallFacts
  <2>2. Len(Full(w.ctx)) - 0 = Len(Full(w.ctx))
    BY CallFacts
  <2> QED BY <2>1, <2>2, Zenon
<1>4. obj' = [obj EXCEPT ![w.ctx] = obj[w.ctx]]
  <2>1. obj \in [Ctx -> Obj]
    BY DEF IInv
  <2> QED BY <1>2, <2>1
<1>5. \A d : Alone(d)' => Alone(d)
  BY <1>2 DEF Alone
<1>6. count' \in [Counter -> Nat] /\ touched' \subseteq Ctx
  BY <1>2 DEF IInv
<1>7. Took(obj[w.ctx], Full(w.ctx), Len(Full(w.ctx)))
  BY <1>3, Zenon DEF Holds
<1>8. Alone(w.ctx)' => Counted(obj[w.ctx]) /\ count'[obj[w.ctx].counter] = Len(Full(w.ctx))
  BY <1>2, <1>3, <1>5, Zenon DEF Holds
<1> QED BY <1>2, <1>4, <1>5, <1>6, <1>7, <1>8, CallEnds, Zenon

LEMMA CountMoreType ==
  ASSUME Blake2Sizes, IInv, NEW c \in Ctx, NEW n \in Nat, CountMore(c, n)
  PROVE  /\ count' \in [Counter -> Nat]
         /\ count'[obj[c].counter] = count[obj[c].counter] + n
         /\ touched' \subseteq Ctx
         /\ Alone(c)' /\ drifted \subseteq drifted' => Alone(c)
<1>1. count \in [Counter -> Nat] /\ obj[c].counter \in Counter /\ touched \subseteq Ctx
  BY DEF IInv, Obj
<1>2. count' = [count EXCEPT ![obj[c].counter] = count[obj[c].counter] + n]
      /\ touched' = touched \union Sharers(c)
  BY DEF CountMore
<1>3. count[obj[c].counter] + n \in Nat
  BY <1>1
<1> DEFINE k == count[obj[c].counter] + n
           x == obj[c].counter
<1>4. k \in Nat /\ x \in Counter /\ count' = [count EXCEPT ![x] = k]
  BY <1>1, <1>2, <1>3
<1> HIDE DEF k, x
<1>5. count' \in [Counter -> Nat] /\ count'[x] = k
  BY <1>1, <1>4
<1>6. Alone(c)' /\ drifted \subseteq drifted' => Alone(c)
  BY <1>2 DEF Alone
<1>7. touched' \subseteq Ctx
  BY <1>1, <1>2 DEF Sharers
<1> QED BY <1>5, <1>6, <1>7 DEF k, x

LEMMA WriteTailKeeps ==
  ASSUME Blake2Sizes, IInv, WriteTail
  PROVE  IInv'
<1>1. PICK w \in call :
        /\ w.space > w.nToWrite
        /\ obj' = [obj EXCEPT ![w.ctx] = Advance(obj[w.ctx], w.data, w.dPos, w.nToWrite)]
        /\ CountMore(w.ctx, w.nToWrite)
  BY DEF WriteTail
<1>2. call' = {} /\ UNCHANGED <<msg, spent, drifted, out>>
  BY DEF WriteTail
<1> DEFINE c == w.ctx
           o == obj[c]
           m == Full(c)
           n == w.nToWrite
           p == Len(m) - n
           r == Advance(o, w.data, w.dPos, n)
<1>3. /\ Holds(c, p) /\ Took(o, m, p) /\ Brings(w.data, w.dPos, n, m, p) /\ c \in Ctx
      /\ w.space = BlockSize - o.bPos /\ n \in Nat /\ p \in Nat /\ Len(m) \in Nat
  BY CallFacts
<1>4. o.bPos \in Nat
  BY <1>3, TookFields
<1>5. o.bPos + n < BlockSize
  <2> HIDE DEF n
  <2>1. BlockSize - o.bPos > n
    BY <1>1, <1>3 DEF n
  <2> QED BY <1>3, <1>4, <2>1, BlockArith
<1>6. /\ Took(r, m, p + n) /\ r.key = o.key /\ r.counter = o.counter
      /\ Counted(o) => Counted(r)
  BY <1>3, <1>5, TailTook
<1>7. p + n = Len(m)
  <2> DEFINE x == Len(m)
  <2>1. x \in Nat /\ p = x - n
    BY <1>3
  <2> HIDE DEF x, n, p
  <2> QED BY <1>3, <2>1 DEF x
<1>8. /\ count' \in [Counter -> Nat] /\ count'[o.counter] = count[o.counter] + n
      /\ touched' \subseteq Ctx /\ (Alone(c)' => Alone(c))
  BY <1>1, <1>2, <1>3, CountMoreType
<1> HIDE DEF r
<1>9. Alone(c)' => Counted(r) /\ count'[r.counter] = Len(m)
  <2> HAVE Alone(c)'
  <2>1. Counted(o) /\ count[o.counter] = p
    BY <1>3, <1>8, Zenon DEF Holds
  <2> QED BY <1>6, <1>7, <1>8, <2>1, Zenon
<1>10. \A d \in Ctx : d # c /\ Alone(d)' =>
          Alone(d) /\ count'[obj[d].counter] = count[obj[d].counter]
  <2>1. drifted \subseteq drifted'
    BY <1>2
  <2> QED BY <1>1, <1>3, <2>1, CountMoreLeaves
<1>11. Took(r, m, Len(m)) /\ r.key = o.key
  BY <1>6, <1>7, Zenon
<1>12. obj' = [obj EXCEPT ![c] = r]
  BY <1>1 DEF r
<1> QED BY <1>2, <1>8, <1>9, <1>10, <1>11, <1>12, CallEnds, Zenon

LEMMA WriteThrowsKeeps ==
  ASSUME Blake2Sizes, IInv, WriteThrows
  PROVE  IInv'
<1>1. PICK w \in call : spent' = spent \union {w.ctx}
  BY DEF WriteThrows
<1>2. call' = {} /\ UNCHANGED <<obj, count, msg, drifted, touched, out>>
  BY DEF WriteThrows
<1>3. w.ctx \in Ctx /\ out = {} /\ \A c \in Ctx \ spent : c # w.ctx => AtRest(c)
  BY CallFacts
<1>4. \A c \in Ctx \ spent' : AtRest(c)'
  <2> TAKE c \in Ctx \ spent'
  <2>1. c \in Ctx \ spent /\ c # w.ctx
    BY <1>1
  <2>2. Alone(c)' => Alone(c)
    BY <1>2 DEF Alone
  <2> QED BY <1>2, <1>3, <2>1, <2>2, OtherAtRest
<1> QED BY <1>1, <1>2, <1>3, <1>4 DEF IInv, DigestRightWhenAlone

LEMMA WriteBlockKeeps ==
  ASSUME Blake2Sizes, IInv, WriteBlock
  PROVE  IInv'
<1>1. PICK w \in call :
        /\ w.space <= w.nToWrite
        /\ CountMore(w.ctx, BlockSize)
        /\ obj' = [obj EXCEPT ![w.ctx] =
                     Hash(Fill(obj[w.ctx], w.data, w.dPos, w.space),
                          count'[obj[w.ctx].counter], FALSE)]
        /\ drifted' = IF obj[w.ctx].bPos > 0 THEN drifted \union {w.ctx} ELSE drifted
        /\ call' = {[w EXCEPT !.dPos = @ + w.space, !.nToWrite = @ - w.space,
                              !.space = BlockSize]}
  <2>1. PICK w \in call :
          /\ w.space <= w.nToWrite
          /\ CountMore(w.ctx, BlockSize)
          /\ obj' = [obj EXCEPT ![w.ctx] =
                       Hash(Fill(@, w.data, w.dPos, w.space), count'[@.counter], FALSE)]
          /\ drifted' = IF obj[w.ctx].bPos > 0 THEN drifted \union {w.ctx} ELSE drifted
          /\ call' = {[w EXCEPT !.dPos = @ + w.space, !.nToWrite = @ - w.space,
                                !.space = BlockSize]}
    BY Zenon DEF WriteBlock
  <2> QED BY <2>1, Zenon
<1>2. UNCHANGED <<msg, spent, out>>
  BY DEF WriteBlock
<1>3. PICK c \in Ctx : c = w.ctx /\ c \notin spent
  BY CallFacts
<1> DEFINE o == obj[c]
           m == Full(c)
           len == w.space
           left == w.nToWrite
           p == Len(m) - left
           n == count'[o.counter]
           r == Hash(Fill(o, w.data, w.dPos, len), n, FALSE)
<1>4. /\ Holds(c, p) /\ Took(o, m, p) /\ Brings(w.data, w.dPos, left, m, p)
      /\ len = BlockSize - o.bPos /\ left \in Nat /\ p \in Nat /\ Len(m) \in Nat
      /\ w.dPos \in Nat /\ left <= Len(msg[c]) /\ out = {}
      /\ \A d \in Ctx \ spent : d # c => AtRest(d)
  BY <1>3, CallFacts
<1>5. /\ o.bPos \in Nat /\ o.bPos < BlockSize /\ BlockSize \in Nat
  BY <1>4, TookFields, BlockArith
<1>6. /\ obj \in [Ctx -> Obj] /\ o.counter \in Counter /\ msg[c] \in Seq(ByteVal)
      /\ drifted \subseteq drifted'
  BY <1>1, FullLength DEF IInv
<1>7. len \in Nat /\ o.bPos + len = BlockSize /\ len <= left
  <2>1. len <= left
    BY <1>1
  <2> HIDE DEF len, left
  <2> QED BY <1>4, <1>5, <2>1
<1>8. /\ Brings(w.data, w.dPos, len, m, p)
      /\ Brings(w.data, w.dPos + len, left - len, m, p + len)
  BY <1>4, <1>7, BringsParts
<1>9. /\ count' \in [Counter -> Nat] /\ n = count[o.counter] + BlockSize
      /\ touched' \subseteq Ctx /\ (Alone(c)' => Alone(c))
  BY <1>1, <1>3, <1>5, <1>6, CountMoreType
<1>10. n \in Nat
  BY <1>6, <1>9
<1> HIDE DEF n
<1>11. /\ Took(r, m, p + len) /\ r.bPos = 0 /\ r.key = o.key /\ r.counter = o.counter
       /\ Counted(o) /\ n = Base(o) + BlockSize => Counted(r)
  <2> HIDE DEF o, m, len, left, p, r
  <2>1. Took(o, m, p) /\ Brings(w.data, w.dPos, len, m, p) /\ o.bPos + len = BlockSize
    BY <1>4, <1>7, <1>8
  <2>2. /\ Took(Hash(Fill(o, w.data, w.dPos, len), n, FALSE), m, p + len)
        /\ Hash(Fill(o, w.data, w.dPos, len), n, FALSE).bPos = 0
        /\ Hash(Fill(o, w.data, w.dPos, len), n, FALSE).key = o.key
        /\ Hash(Fill(o, w.data, w.dPos, len), n, FALSE).counter = o.counter
        /\ Counted(o) /\ n = Base(o) + BlockSize =>
             Counted(Hash(Fill(o, w.data, w.dPos, len), n, FALSE))
    BY <1>10, <2>1, BlockTook, Zenon
  <2> QED BY <2>2, Zenon DEF r
<1>12. r \in Obj
  BY <1>11 DEF Took
<1> DEFINE w1 == [w EXCEPT !.dPos = @ + len, !.nToWrite = @ - len, !.space = BlockSize]
<1>13. call' = {w1} /\ obj' = [obj EXCEPT ![c] = r]
  BY <1>1, <1>3, Zenon DEF n
<1>14. /\ obj'[c] = r /\ \A d \in Ctx : d # c => obj'[d] = obj[d]
       /\ obj' \in [Ctx -> Obj]
  <2> HIDE DEF r
  <2> QED BY <1>6, <1>12, <1>13
<1>15. /\ w1 \in Writing /\ w1.ctx = c /\ w1.data = w.data /\ w1.dPos = w.dPos + len
       /\ w1.nToWrite = left - len /\ w1.space = BlockSize
  <2>1. w \in Writing
    BY CallFacts
  <2>2. w.dPos + len \in Nat /\ left - len \in Nat
    <3> HIDE DEF len, left
    <3> QED BY <1>4, <1>7
  <2> DEFINE d1 == w.dPos + len
             n1 == left - len
  <2>3. w1 = [w EXCEPT !.dPos = d1, !.nToWrite = n1, !.space = BlockSize]
    BY <2>1 DEF Writing
  <2>4. d1 \in Nat /\ n1 \in Nat
    BY <2>2
  <2> HIDE DEF d1, n1, w1
  <2>5. /\ w1 \in Writing /\ w1.ctx = w.ctx /\ w1.data = w.data /\ w1.dPos = d1
        /\ w1.nToWrite = n1 /\ w1.space = BlockSize
    BY <1>5, <2>1, <2>3, <2>4 DEF Writing
  <2> QED BY <1>3, <2>5, Zenon DEF d1, n1
<1>16. /\ Len(m) - (left - len) = p + len
       /\ left - len \in Nat /\ BlockSize - 0 = BlockSize
       /\ left - len <= Len(msg[c])
  <2> DEFINE q == Len(m)
             x == Len(msg[c])
  <2>1. /\ q \in Nat /\ left \in Nat /\ len \in Nat /\ x \in Nat
        /\ len <= left /\ left <= x
    BY <1>4, <1>6, <1>7
  <2> HIDE DEF len, left, q, x
  <2>2. q - (left - len) = (q - left) + len
    BY <2>1
  <2>4. left - len \in Nat /\ BlockSize - 0 = BlockSize /\ left - len <= x
    BY <1>5, <2>1
  <2> QED BY <2>1, <2>2, <2>4, Zenon DEF q, x
<1>17. ASSUME Alone(c)'
       PROVE  Counted(r) /\ count'[r.counter] = p + len
  <2>1. Alone(c) /\ ~(o.bPos > 0)
    BY <1>1, <1>3, <1>9, <1>17 DEF Alone
  <2>2. Counted(o) /\ count[o.counter] = p
    BY <1>4, <2>1, Zenon DEF Holds
  <2>3. p = Base(o) + o.bPos /\ Base(o) \in Nat
    BY <1>4, TookFields
  <2>4. n = p + len /\ n = Base(o) + BlockSize
    <3> DEFINE y == Base(o)
               b == o.bPos
    <3>1. y \in Nat /\ b \in Nat /\ ~(b > 0) /\ p = y + b /\ b + len = BlockSize
          /\ n = p + BlockSize
      BY <1>5, <1>7, <1>9, <2>1, <2>2, <2>3
    <3> HIDE DEF y, b, p, len
    <3>2. b = 0 /\ BlockSize \in Nat
      BY <1>5, <3>1
    <3>3. len \in Nat
      BY <1>7
    <3> QED BY <3>1, <3>2, <3>3 DEF y
  <2> QED BY <1>11, <2>2, <2>4, Zenon DEF n
<1> HIDE DEF r, w1
<1>18. Full(c)' = m
  BY <1>2, <1>11, <1>14, Zenon DEF Full
<1>19. \A v \in call' : InCall(v)'
  <2> TAKE v \in call'
  <2>1. v = w1 /\ call' = {v}
    BY <1>13
  <2>2. /\ v \in Writing /\ v.ctx = c /\ v.data = w.data /\ v.dPos = w.dPos + len
        /\ v.nToWrite = left - len /\ v.space = BlockSize
    BY <1>15, <2>1
  <2>3. msg'[c] = msg[c] /\ spent' = spent /\ c \in Ctx \ spent
    BY <1>2, <1>3
  <2>4. v.space = BlockSize - obj'[c].bPos
    BY <1>11, <1>14, <1>16, <2>2, Zenon
  <2>5. Brings(v.data, v.dPos, v.nToWrite, m, Len(m) - v.nToWrite)
    BY <1>8, <1>16, <1>18, <2>2, Zenon
  <2>6. v.nToWrite <= Len(msg'[c])
    BY <1>16, <2>2, <2>3, Zenon
  <2>7. Took(obj'[c], m, Len(m) - v.nToWrite)
    BY <1>11, <1>14, <1>16, <2>2, Zenon
  <2>8. Alone(c)' => Counted(obj'[c]) /\ count'[obj'[c].counter] = Len(m) - v.nToWrite
    BY <1>14, <1>14, <1>16, <1>17, <2>2, Zenon
  <2>9. v.ctx \in Ctx \ spent'
    BY <2>2, <2>3
  <2> QED BY <2>1, <2>2, <2>4, <2>5, <2>6, <2>7, <2>8, <2>9, <1>18, Zenon DEF InCall, Holds
<1>20. \A d \in Ctx \ spent' : (\A v \in call' : v.ctx # d) => AtRest(d)'
  <2> TAKE d \in Ctx \ spent'
  <2> HAVE \A v \in call' : v.ctx # d
  <2>1. d # c /\ d \in Ctx \ spent
    BY <1>2, <1>13, <1>15
  <2>2. AtRest(d)
    BY <1>4, <2>1
  <2>3. Alone(d)' => Alone(d) /\ count'[obj[d].counter] = count[obj[d].counter]
    BY <1>1, <1>3, <1>6, <2>1, CountMoreLeaves
  <2> QED BY <1>2, <1>14, <2>1, <2>2, <2>3, OtherAtRest, Zenon
<1>21. /\ msg \in [Ctx -> Seq(ByteVal)] /\ spent \subseteq Ctx /\ drifted' \subseteq Ctx
       /\ \A d \in Ctx : Len(msg[d]) <= MaxLen
  BY <1>1, <1>3 DEF IInv
<1> QED BY <1>2, <1>4, <1>9, <1>14, <1>19, <1>20, <1>21 DEF IInv, DigestRightWhenAlone

\* Both sums return the digest of the key and the message
LEMMA ReturnedRight ==
  ASSUME Blake2Sizes, NEW c, AtRest(c), Alone(c)
  PROVE  DigestOf(c) = Blocks(obj[c].key, msg[c])
<1>1. Took(obj[c], obj[c].key \o msg[c], Len(obj[c].key \o msg[c]))
  BY Zenon DEF AtRest, Holds, Full
<1>2. Counted(obj[c]) /\ count[obj[c].counter] = Len(obj[c].key \o msg[c])
  BY Zenon DEF AtRest, Holds, Full
<1> DEFINE o == obj[c]
           n == count[obj[c].counter]
           key == obj[c].key
           m == msg[c]
<1>3. Took(o, key \o m, Len(key \o m)) /\ Counted(o) /\ n = Len(key \o m)
  BY <1>1, <1>2, Zenon
<1> HIDE DEF o, n, key, m
<1>4. Final(o, n).chain = Blocks(key, m)
  BY <1>3, FinalRight
<1> QED BY <1>4, Zenon DEF DigestOf, o, n, key, m

LEMMA SumKeeps ==
  ASSUME Blake2Sizes, IInv, NEW c \in Ctx, Sum(c)
  PROVE  IInv'
<1>1. /\ AtRest(c) /\ out' = Returned(c) /\ call = {} /\ call' = {}
      /\ UNCHANGED <<obj, count, msg, spent, drifted, touched>>
  BY IdleRest DEF Sum, Idle
<1>2. DigestRightWhenAlone'
  <2> SUFFICES ASSUME NEW r \in out', r.ctx \notin drifted \union touched
               PROVE  r.digest = Blocks(obj[r.ctx].key, msg[r.ctx])
    BY <1>1 DEF DigestRightWhenAlone
  <2>1. r.ctx = c /\ r.digest = DigestOf(c)
    BY <1>1 DEF Returned
  <2>2. Alone(c)
    BY <2>1 DEF Alone
  <2> QED BY <1>1, <2>1, <2>2, ReturnedRight
<1>3. \A d \in Ctx \ spent' : AtRest(d)'
  <2> TAKE d \in Ctx \ spent'
  <2>1. AtRest(d)
    BY <1>1, IdleRest DEF Idle
  <2>2. Alone(d)' => Alone(d)
    BY <1>1 DEF Alone
  <2> QED BY <1>1, <2>1, <2>2, OtherAtRest
<1> QED BY <1>1, <1>2, <1>3 DEF IInv

LEMMA SumInKeeps ==
  ASSUME Blake2Sizes, IInv, NEW c \in Ctx, SumIn(c)
  PROVE  IInv'
<1>1. /\ AtRest(c) /\ out' = Returned(c) /\ call = {} /\ call' = {}
      /\ UNCHANGED <<count, msg, drifted, touched>>
      /\ obj' = [obj EXCEPT ![c] = Final(obj[c], count[obj[c].counter])]
      /\ spent' = spent \union {c}
  BY IdleRest DEF SumIn, Idle
<1> DEFINE o == Final(obj[c], count[obj[c].counter])
<1>2. obj \in [Ctx -> Obj] /\ count[obj[c].counter] \in Nat /\ obj[c] \in Obj
  BY DEF IInv, Obj
<1>3. o \in Obj /\ o.key = obj[c].key
  BY <1>2, FinalFields
<1> HIDE DEF o
<1>4. /\ obj' \in [Ctx -> Obj] /\ obj'[c] = o
      /\ \A d \in Ctx : d # c => obj'[d] = obj[d]
  BY <1>1, <1>2, <1>3 DEF o
<1>5. DigestRightWhenAlone'
  <2> SUFFICES ASSUME NEW r \in out', r.ctx \notin drifted \union touched
               PROVE  r.digest = Blocks(obj'[r.ctx].key, msg[r.ctx])
    BY <1>1 DEF DigestRightWhenAlone
  <2>1. r.ctx = c /\ r.digest = DigestOf(c)
    BY <1>1 DEF Returned
  <2>2. Alone(c)
    BY <2>1 DEF Alone
  <2> QED BY <1>1, <1>3, <1>4, <2>1, <2>2, ReturnedRight
<1>6. \A d \in Ctx \ spent' : AtRest(d)'
  <2> TAKE d \in Ctx \ spent'
  <2>0. d # c
    BY <1>1
  <2>1. AtRest(d)
    BY <1>1, IdleRest DEF Idle
  <2>2. Alone(d)' => Alone(d)
    BY <1>1 DEF Alone
  <2> QED BY <1>1, <1>4, <2>0, <2>1, <2>2, OtherAtRest
<1>7. spent' \subseteq Ctx
  BY <1>1 DEF IInv
<1> QED BY <1>1, <1>4, <1>5, <1>6, <1>7 DEF IInv

\* The object d becomes o, with the message m; of the others, those that are still alone
\* keep their counter
LEMMA BecomesKeeps ==
  ASSUME Blake2Sizes, IInv, NEW d \in Ctx, NEW o, NEW m \in Seq(ByteVal),
         Idle, call' = {}, out' = {},
         obj' = [obj EXCEPT ![d] = o], msg' = [msg EXCEPT ![d] = m], spent' = spent \ {d},
         count' \in [Counter -> Nat], drifted' \subseteq Ctx, touched' \subseteq Ctx,
         Took(o, o.key \o m, Len(o.key \o m)), Len(m) <= MaxLen,
         Alone(d)' => Counted(o) /\ count'[o.counter] = Len(o.key \o m),
         \A e \in Ctx : e # d /\ Alone(e)' =>
            Alone(e) /\ count'[obj[e].counter] = count[obj[e].counter]
  PROVE  IInv'
<1>1. /\ obj \in [Ctx -> Obj] /\ msg \in [Ctx -> Seq(ByteVal)]
      /\ \A c \in Ctx : Len(msg[c]) <= MaxLen
      /\ spent \subseteq Ctx
  BY DEF IInv
<1>2. o \in Obj
  BY DEF Took
<1>3. obj' \in [Ctx -> Obj] /\ msg' \in [Ctx -> Seq(ByteVal)]
  BY <1>1, <1>2
<1>4. /\ obj'[d] = o /\ msg'[d] = m
      /\ \A c \in Ctx : c # d => obj'[c] = obj[c] /\ msg'[c] = msg[c]
  BY <1>1
<1>5. \A c \in Ctx \ spent' : AtRest(c)'
  <2> TAKE c \in Ctx \ spent'
  <2>1. CASE c = d
    <3>1. Full(c)' = o.key \o m
      BY <1>4, <2>1, Zenon DEF Full
    <3> QED BY <1>4, <2>1, <3>1, Zenon DEF AtRest, Holds
  <2>2. CASE c # d
    <3>1. AtRest(c)
      BY <2>2, IdleRest
    <3> QED BY <1>4, <2>2, <3>1, OtherAtRest
  <2> QED BY <2>1, <2>2
<1>6. \A c \in Ctx : Len(msg'[c]) <= MaxLen
  BY <1>1, <1>4
<1> QED BY <1>1, <1>3, <1>5, <1>6 DEF IInv, DigestRightWhenAlone

LEMMA ResetKeeps ==
  ASSUME Blake2Sizes, IInv, NEW c \in Ctx, Reset(c)
  PROVE  IInv'
<1> DEFINE key == obj[c].key
           x == obj[c].counter
           o == Keyed(key, obj[c].block, x)
<1>1. /\ Idle /\ call' = {} /\ out' = {}
      /\ obj' = [obj EXCEPT ![c] = o] /\ msg' = [msg EXCEPT ![c] = <<>>]
      /\ spent' = spent \ {c} /\ drifted' = drifted \ {c}
      /\ touched' = (touched \union Sharers(c)) \ {c}
      /\ count' = [count EXCEPT ![x] = Len(key)]
  BY Zenon DEF Reset, Idle
<1>2. /\ key \in Keys /\ key \in Seq(ByteVal) /\ Len(key) \in Nat /\ x \in Counter
      /\ obj[c].block \in Block /\ count \in [Counter -> Nat]
      /\ drifted \subseteq Ctx /\ touched \subseteq Ctx
  BY FullLength, ObjFields DEF IInv
<1>3. /\ Took(o, key, Len(key)) /\ Counted(o) /\ o.key = key /\ o.counter = x
  BY <1>2, KeyedTook
<1>4. key \o <<>> = key
  BY <1>2, EmptyEnd
<1>5. count' \in [Counter -> Nat] /\ count'[x] = Len(key)
  <2> HIDE DEF key, x
  <2> QED BY <1>1, <1>2
<1>6. drifted' \subseteq Ctx /\ touched' \subseteq Ctx
  BY <1>1, <1>2 DEF Sharers
<1>7. ASSUME NEW e \in Ctx, e # c, Alone(e)'
      PROVE  Alone(e) /\ count'[obj[e].counter] = count[obj[e].counter]
  <2>1. e \notin drifted /\ e \notin touched /\ e \notin Sharers(c)
    BY <1>1, <1>7 DEF Alone
  <2>2. obj[e].counter # x /\ obj[e].counter \in Counter
    BY <1>7, <2>1, FullLength DEF Sharers
  <2>3. count'[obj[e].counter] = count[obj[e].counter]
    <3> HIDE DEF key, x
    <3> QED BY <1>1, <1>2, <2>2
  <2> QED BY <2>1, <2>3 DEF Alone
<1>8. Took(o, o.key \o <<>>, Len(o.key \o <<>>))
  BY <1>3, <1>4, Zenon
<1>9. Counted(o) /\ count'[o.counter] = Len(o.key \o <<>>)
  BY <1>3, <1>4, <1>5, Zenon
<1>10. Len(<<>>) <= MaxLen /\ <<>> \in Seq(ByteVal)
  BY DEF Blake2Sizes
<1> HIDE DEF o
<1> QED BY <1>1, <1>5, <1>6, <1>7, <1>8, <1>9, <1>10, BecomesKeeps

LEMMA NewEmptyKeeps ==
  ASSUME Blake2Sizes, IInv, NEW c \in Ctx, NEW d \in Ctx, NewEmpty(c, d)
  PROVE  IInv'
<1> DEFINE key == obj[c].key
<1>1. PICK x \in Counter :
        /\ IsFresh(x, d)
        /\ obj' = [obj EXCEPT ![d] = Keyed(key, ZeroBlock, x)]
        /\ count' = [count EXCEPT ![x] = Len(key)]
  BY DEF NewEmpty
<1> DEFINE o == Keyed(key, ZeroBlock, x)
<1>2. /\ Idle /\ call' = {} /\ out' = {} /\ msg' = [msg EXCEPT ![d] = <<>>]
      /\ spent' = spent \ {d} /\ drifted' = drifted \ {d} /\ touched' = touched \ {d}
  BY Zenon DEF NewEmpty, Idle
<1>3. /\ key \in Keys /\ key \in Seq(ByteVal) /\ Len(key) \in Nat
      /\ count \in [Counter -> Nat]
      /\ drifted \subseteq Ctx /\ touched \subseteq Ctx
  BY FullLength DEF IInv
<1>4. /\ Took(o, key, Len(key)) /\ Counted(o) /\ o.key = key /\ o.counter = x
  BY <1>3, ZeroBlockType, KeyedTook
<1>5. key \o <<>> = key
  BY <1>3, EmptyEnd
<1>6. count' \in [Counter -> Nat] /\ count'[x] = Len(key)
  <2> HIDE DEF key
  <2> QED BY <1>1, <1>3
<1>7. drifted' \subseteq Ctx /\ touched' \subseteq Ctx
  BY <1>2, <1>3
<1>8. ASSUME NEW e \in Ctx, e # d, Alone(e)'
      PROVE  Alone(e) /\ count'[obj[e].counter] = count[obj[e].counter]
  <2>1. obj[e].counter # x /\ obj[e].counter \in Counter
    BY <1>1, <1>8, FullLength DEF IsFresh
  <2>2. count'[obj[e].counter] = count[obj[e].counter]
    <3> HIDE DEF key
    <3> QED BY <1>1, <1>3, <2>1
  <2> QED BY <1>2, <1>8, <2>2 DEF Alone
<1>9. Took(o, o.key \o <<>>, Len(o.key \o <<>>))
  BY <1>4, <1>5, Zenon
<1>10. Counted(o) /\ count'[o.counter] = Len(o.key \o <<>>)
  BY <1>4, <1>5, <1>6, Zenon
<1>11. Len(<<>>) <= MaxLen /\ <<>> \in Seq(ByteVal)
  BY DEF Blake2Sizes
<1>12. obj' = [obj EXCEPT ![d] = o]
  BY <1>1
<1> HIDE DEF o
<1> QED BY <1>2, <1>6, <1>7, <1>8, <1>9, <1>10, <1>11, <1>12, BecomesKeeps

LEMMA CloneKeeps ==
  ASSUME Blake2Sizes, IInv, NEW c \in Ctx, NEW d \in Ctx, Clone(c, d)
  PROVE  IInv'
<1>1. /\ Idle /\ call' = {} /\ out' = {} /\ c \in Ctx \ spent
      /\ obj' = [obj EXCEPT ![d] = obj[c]] /\ msg' = [msg EXCEPT ![d] = msg[c]]
      /\ spent' = spent \ {d} /\ count' = count
      /\ drifted' = Follows(drifted, c, d) /\ touched' = Follows(touched, c, d)
  BY DEF Clone, Idle
<1>2. AtRest(c)
  BY <1>1, IdleRest
<1>3. /\ msg[c] \in Seq(ByteVal) /\ Len(msg[c]) <= MaxLen /\ count \in [Counter -> Nat]
      /\ drifted \subseteq Ctx /\ touched \subseteq Ctx
  BY DEF IInv
<1>4. drifted' \subseteq Ctx /\ touched' \subseteq Ctx
  BY <1>1, <1>3 DEF Follows
<1>5. Alone(d)' => Alone(c)
  BY <1>1 DEF Follows, Alone
<1>6. \A e \in Ctx : e # d /\ Alone(e)' => Alone(e)
  BY <1>1 DEF Follows, Alone
<1>7. /\ Took(obj[c], obj[c].key \o msg[c], Len(obj[c].key \o msg[c]))
      /\ Alone(d)' => Counted(obj[c]) /\ count'[obj[c].counter] = Len(obj[c].key \o msg[c])
  BY <1>1, <1>2, <1>5, Zenon DEF AtRest, Holds, Full
<1>8. count' \in [Counter -> Nat]
  BY <1>1, <1>3
<1>9. \A e \in Ctx : e # d /\ Alone(e)' =>
        Alone(e) /\ count'[obj[e].counter] = count[obj[e].counter]
  BY <1>1, <1>6
<1> DEFINE o == obj[c]
           m == msg[c]
<1> HIDE DEF o, m
<1>10. /\ Took(o, o.key \o m, Len(o.key \o m)) /\ m \in Seq(ByteVal) /\ Len(m) <= MaxLen
       /\ Alone(d)' => Counted(o) /\ count'[o.counter] = Len(o.key \o m)
       /\ obj' = [obj EXCEPT ![d] = o] /\ msg' = [msg EXCEPT ![d] = m]
  BY <1>1, <1>3, <1>7, Zenon DEF o, m
<1> QED BY <1>1, <1>4, <1>8, <1>9, <1>10, BecomesKeeps

LEMMA NextKeeps == ASSUME Blake2Sizes, IInv, [Next]_vars PROVE IInv'
<1>1. CASE UNCHANGED vars
  <2>1. \A w \in call' : InCall(w)'
    BY <1>1 DEF IInv, InCall, Holds, Full, Alone, vars
  <2>2. \A d \in Ctx \ spent' : (\A w \in call' : w.ctx # d) => AtRest(d)'
    BY <1>1 DEF IInv, AtRest, Holds, Full, Alone, vars
  <2> QED BY <1>1, <2>1, <2>2 DEF IInv, DigestRightWhenAlone, vars
<1>2. CASE WriteEnd
  BY <1>2, WriteEndKeeps
<1>3. CASE WriteTail
  BY <1>3, WriteTailKeeps
<1>4. CASE WriteBlock
  BY <1>4, WriteBlockKeeps
<1>5. CASE WriteThrows
  BY <1>5, WriteThrowsKeeps
<1>6. ASSUME NEW c \in Ctx, NEW data \in Data, WriteBegin(c, data) PROVE IInv'
  BY <1>6, WriteBeginKeeps
<1>7. ASSUME NEW c \in Ctx, Sum(c) PROVE IInv'
  BY <1>7, SumKeeps
<1>8. ASSUME NEW c \in Ctx, SumIn(c) PROVE IInv'
  BY <1>8, SumInKeeps
<1>9. ASSUME NEW c \in Ctx, Reset(c) PROVE IInv'
  BY <1>9, ResetKeeps
<1>10. ASSUME NEW c \in Ctx, NEW d \in Ctx, Clone(c, d) PROVE IInv'
  BY <1>10, CloneKeeps
<1>11. ASSUME NEW c \in Ctx, NEW d \in Ctx, NewEmpty(c, d) PROVE IInv'
  BY <1>11, NewEmptyKeeps
<1> QED
  BY <1>1, <1>2, <1>3, <1>4, <1>5, <1>6, <1>7, <1>8, <1>9, <1>10, <1>11 DEF Next

LEMMA Inductive == ASSUME Blake2Sizes PROVE Spec => []IInv
<1>1. Init => IInv
  BY InitHolds
<1>2. IInv /\ [Next]_vars => IInv'
  BY NextKeeps
<1> QED BY <1>1, <1>2, PTL DEF Spec

-----------------------------------------------------------------------------
(* The theorems. *)

LEMMA InvImpliesType == ASSUME Blake2Sizes, IInv PROVE TypeOK
<1>1. ASSUME NEW w \in call
      PROVE  w.ctx \in Ctx \ spent /\ w.nToWrite \in 0..MaxLen /\ w.space \in 1..BlockSize
  <2>1. /\ w.ctx \in Ctx \ spent /\ w.nToWrite \in Nat
        /\ w.nToWrite <= Len(msg[w.ctx]) /\ Len(msg[w.ctx]) \in Nat
        /\ w.space = BlockSize - obj[w.ctx].bPos
    BY CallFacts, FullLength
  <2>2. Len(msg[w.ctx]) <= MaxLen /\ MaxLen \in Nat
    BY <2>1 DEF IInv, Blake2Sizes
  <2>3. /\ obj[w.ctx].bPos \in Nat /\ obj[w.ctx].bPos < BlockSize /\ BlockSize \in Nat
    BY <2>1, CallFacts, TookFields, BlockArith
  <2>4. BlockSize - obj[w.ctx].bPos \in 1..BlockSize
    BY <2>3
  <2>5. w.nToWrite \in 0..MaxLen
    BY <2>1, <2>2
  <2> QED BY <2>1, <2>4, <2>5
<1> QED BY <1>1 DEF IInv, TypeOK

LEMMA InvImpliesCounts == ASSUME Blake2Sizes, IInv PROVE CountsOwnBytes
<1> SUFFICES ASSUME Idle, NEW c \in Ctx \ (spent \union drifted \union touched)
             PROVE  count[obj[c].counter] = Len(obj[c].key) + Len(msg[c])
  BY DEF CountsOwnBytes
<1>1. AtRest(c) /\ Alone(c)
  BY IdleRest DEF Alone
<1>2. count[obj[c].counter] = Len(Full(c))
  BY <1>1, Zenon DEF AtRest, Holds
<1> QED BY <1>2, FullLength

\* Every field has its type, and a write() works on a live object, inside its block and
\* its data.
THEOREM TypeCorrect == ASSUME Blake2Sizes PROVE Spec => []TypeOK
<1>1. IInv => TypeOK
  BY InvImpliesType
<1> QED BY <1>1, Inductive, PTL

\* The counter of Blake2 holds the key and the message of every object that refers to it
\* alone, and whose blocks were each completed by the write() that began them; an object
\* made by newEmpty(), or reset, is such an object again.
THEOREM CountsAreOwn == ASSUME Blake2Sizes PROVE Spec => []CountsOwnBytes
<1>1. IInv => CountsOwnBytes
  BY InvImpliesCounts
<1> QED BY <1>1, Inductive, PTL

\* What sum() and sumIn() of such an object return is the digest of one write() of its
\* message to a new object under the same key.
THEOREM RightWhenAlone == ASSUME Blake2Sizes PROVE Spec => []DigestRightWhenAlone
<1>1. IInv => DigestRightWhenAlone
  BY DEF IInv
<1> QED BY <1>1, Inductive, PTL

\* All of it together: what Blake2 counts and returns is right but for the two ways in
\* which its counter is shared between clones or counts a block twice.
THEOREM Blake2AlwaysRight == ASSUME Blake2Sizes PROVE Spec => []Blake2Right
<1>1. IInv => Blake2Right
  BY InvImpliesType, InvImpliesCounts DEF Blake2Right, IInv
<1> QED BY <1>1, Inductive, PTL

=============================================================================
