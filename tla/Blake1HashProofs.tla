-------------------------- MODULE Blake1HashProofs --------------------------
(***************************************************************************)
(* Proofs about Blake1Hash, for every block size, length field, set of     *)
(* data and bound on the message that BlakeSizes allows.                   *)
(***************************************************************************)
EXTENDS Blake1Hash, TLAPS

-----------------------------------------------------------------------------
(* Arithmetic of blocks: the prover's only facts about products. *)

LEMMA BlockArith ==
  ASSUME BlakeSizes
  PROVE  /\ BlockSize \in Nat
         /\ LenSpace \in Nat
         /\ SizeSpace \in Nat
         /\ SizeSpace > 1
         /\ LenSpace > 0
         /\ SizeSpace + LenSpace = BlockSize
         /\ Idx = {j \in Nat : j < BlockSize}
BY DEF BlakeSizes, SizeSpace, Idx

LEMMA Products ==
  ASSUME BlakeSizes, NEW n \in Nat
  PROVE  /\ n * BlockSize \in Nat
         /\ (n + 1) * BlockSize = n * BlockSize + BlockSize
         /\ (n + 2) * BlockSize = n * BlockSize + BlockSize + BlockSize
         /\ 0 * BlockSize = 0
BY BlockArith

LEMMA ProductsGrow ==
  ASSUME BlakeSizes, NEW a \in Nat, NEW b \in Nat, a < b
  PROVE  a * BlockSize + BlockSize <= b * BlockSize
<1>1. b - a - 1 \in Nat /\ b = a + 1 + (b - a - 1)
  OBVIOUS
<1>2. PICK k \in Nat : b = a + 1 + k
  BY <1>1
<1>3. b * BlockSize = a * BlockSize + BlockSize + k * BlockSize
  BY <1>2, BlockArith
<1>4. k * BlockSize \in Nat /\ a * BlockSize \in Nat
  BY Products
<1> QED BY <1>3, <1>4, BlockArith

\* What a length says of its blocks
LEMMA Quotient ==
  ASSUME BlakeSizes, NEW q \in Nat, NEW r \in Nat, r < BlockSize
  PROVE  /\ (q * BlockSize + r) \div BlockSize = q
         /\ (q * BlockSize + r) % BlockSize = r
<1> DEFINE x == q * BlockSize + r
           d == x \div BlockSize
           e == x % BlockSize
<1>1. x \in Nat /\ q * BlockSize \in Nat
  BY Products
<1>2. d \in Nat /\ e \in Nat /\ e < BlockSize /\ x = d * BlockSize + e
  <2>0. x \in Nat /\ BlockSize \in Nat /\ BlockSize > 0
    BY <1>1, BlockArith
  <2> HIDE DEF x
  <2>1. d \in Nat /\ e \in Nat /\ e < BlockSize
    BY <2>0
  <2>2. x = BlockSize * d + e
    BY <2>0
  <2>3. BlockSize * d = d * BlockSize
    BY <2>0, <2>1
  <2> QED BY <2>1, <2>2, <2>3
<1>3. d * BlockSize \in Nat
  BY <1>2, Products
<1> HIDE DEF d, e
<1>4. ~(d < q)
  <2> SUFFICES ASSUME d < q PROVE FALSE
    OBVIOUS
  <2>1. d * BlockSize + BlockSize <= q * BlockSize
    BY <1>2, ProductsGrow
  <2> DEFINE y == q * BlockSize
             z == d * BlockSize
  <2>2. y \in Nat /\ z \in Nat /\ z + BlockSize <= y /\ y + r = z + e
    BY <1>1, <1>2, <1>3, <2>1
  <2> HIDE DEF y, z
  <2> QED BY <1>2, <2>2, BlockArith
<1>5. ~(q < d)
  <2> SUFFICES ASSUME q < d PROVE FALSE
    OBVIOUS
  <2>1. q * BlockSize + BlockSize <= d * BlockSize
    BY <1>2, ProductsGrow
  <2> DEFINE y == q * BlockSize
             z == d * BlockSize
  <2>2. y \in Nat /\ z \in Nat /\ y + BlockSize <= z /\ y + r = z + e
    BY <1>1, <1>2, <1>3, <2>1
  <2> HIDE DEF y, z
  <2> QED BY <1>2, <2>2, BlockArith
<1>6. d = q
  BY <1>2, <1>4, <1>5
<1>7. e = r
  <2> DEFINE y == q * BlockSize
  <2>1. y \in Nat /\ y + r = y + e
    BY <1>1, <1>2, <1>6
  <2> HIDE DEF y
  <2> QED BY <1>2, <2>1
<1> QED BY <1>6, <1>7 DEF d, e

-----------------------------------------------------------------------------
(* What an object holds. *)

Base(o) == Len(o.chain) * BlockSize
Position(o) == Base(o) + o.bPos

\* The object o has taken the first p bytes of m.  Its count is n too high; if that
\* is none, every compression was given the right count.
Took(o, m, n, p) ==
  /\ o \in Obj
  /\ m \in Seq(ByteVal)
  /\ n \in Nat
  /\ Position(o) = p
  /\ p <= Len(m)
  /\ o.ingest = p + n
  /\ \A k \in 1..Len(o.chain) : \A j \in Idx :
       o.chain[k].block[j] = m[(k - 1) * BlockSize + j + 1]
  /\ \A j \in 0..(o.bPos - 1) : o.block[j] = m[Base(o) + j + 1]
  /\ n = 0 => \A k \in 1..Len(o.chain) : o.chain[k].count = k * BlockSize

LEMMA ObjFields ==
  ASSUME BlakeSizes, NEW o \in Obj
  PROVE  /\ o.chain \in Seq(Compressed) /\ Len(o.chain) \in Nat
         /\ o.block \in Block /\ o.block \in [Idx -> ByteVal]
         /\ o.bPos \in Idx /\ o.bPos \in Nat /\ o.bPos < BlockSize
         /\ o.ingest \in Nat
         /\ Base(o) \in Nat
         /\ Position(o) \in Nat
<1>1. /\ o.chain \in Seq(Compressed) /\ Len(o.chain) \in Nat
      /\ o.block \in Block /\ o.bPos \in Idx /\ o.ingest \in Nat
  BY DEF Obj
<1>2. o.bPos \in Nat /\ o.bPos < BlockSize
  BY <1>1, BlockArith
<1>3. Base(o) \in Nat
  BY <1>1, Products DEF Base
<1> QED BY <1>1, <1>2, <1>3 DEF Block, Position

\* A byte inside a compressed block lies before the position
LEMMA InsideBlock ==
  ASSUME BlakeSizes, NEW q \in Nat, NEW k \in 1..q, NEW j \in Idx
  PROVE  /\ (k - 1) * BlockSize \in Nat
         /\ (k - 1) * BlockSize + j < q * BlockSize
         /\ k * BlockSize <= q * BlockSize
         /\ k * BlockSize = (k - 1) * BlockSize + BlockSize
<1>1. k - 1 \in Nat /\ k - 1 < q /\ k = (k - 1) + 1 /\ j \in Nat /\ j < BlockSize
  BY BlockArith
<1>2. (k - 1) * BlockSize + BlockSize <= q * BlockSize
  BY <1>1, ProductsGrow
<1>3. k * BlockSize = (k - 1) * BlockSize + BlockSize
  BY <1>1, Products
<1> DEFINE x == (k - 1) * BlockSize
           y == q * BlockSize
<1>4. x \in Nat /\ y \in Nat
  BY <1>1, Products
<1>5. x + BlockSize <= y /\ k * BlockSize = x + BlockSize
  BY <1>2, <1>3
<1> HIDE DEF x, y
<1>6. x + j < y /\ k * BlockSize <= y
  BY <1>1, <1>4, <1>5, BlockArith
<1> QED BY <1>4, <1>5, <1>6 DEF x, y

LEMMA EmptyTook ==
  ASSUME BlakeSizes, NEW b \in Block
  PROVE  Took(Empty(b), <<>>, 0, 0)
<1>1. /\ Empty(b) \in Obj
      /\ Empty(b).chain = <<>> /\ Empty(b).bPos = 0 /\ Empty(b).ingest = 0
  BY BlockArith DEF Empty, Obj
<1>2. Position(Empty(b)) = 0
  BY <1>1, Products DEF Position, Base
<1> QED BY <1>1, <1>2 DEF Took

LEMMA ZeroBlockType == ZeroBlock \in Block
BY DEF ZeroBlock, Block, ByteVal, ZeroByte

\* More of the message changes nothing of what was taken
LEMMA TookLonger ==
  ASSUME BlakeSizes, NEW o, NEW m, NEW n, NEW p \in Nat, Took(o, m, n, p),
         NEW data \in Seq(ByteVal)
  PROVE  Took(o, m \o data, n, p)
<1> DEFINE M == m \o data
           y == Base(o)
<1>1. /\ o \in Obj /\ m \in Seq(ByteVal) /\ n \in Nat /\ Position(o) = p /\ p <= Len(m)
  BY DEF Took
<1>2. /\ M \in Seq(ByteVal) /\ Len(M) = Len(m) + Len(data)
      /\ Len(m) \in Nat /\ Len(data) \in Nat
      /\ \A i \in 1..Len(m) : M[i] = m[i]
  BY <1>1
<1> HIDE DEF M
<1>3. y \in Nat /\ o.bPos \in Nat /\ p = y + o.bPos /\ Len(o.chain) \in Nat
  BY <1>1, ObjFields DEF Position
<1>4. \A k \in 1..Len(o.chain) : \A j \in Idx :
        o.chain[k].block[j] = M[(k - 1) * BlockSize + j + 1]
  <2> TAKE k \in 1..Len(o.chain)
  <2> TAKE j \in Idx
  <2>1. (k - 1) * BlockSize \in Nat /\ (k - 1) * BlockSize + j < y /\ j \in Nat
    <3>1. j \in Nat
      BY BlockArith
    <3> QED BY <1>3, <3>1, InsideBlock DEF Base
  <2> DEFINE x == (k - 1) * BlockSize
  <2>2. x \in Nat /\ x + j < y
    BY <2>1
  <2>3. o.chain[k].block[j] = m[x + j + 1]
    BY DEF Took
  <2> HIDE DEF x, y
  <2>4. x + j + 1 \in 1..Len(m)
    BY <1>1, <1>2, <1>3, <2>1, <2>2
  <2> QED BY <1>2, <2>3, <2>4 DEF x
<1>5. \A j \in 0..(o.bPos - 1) : o.block[j] = M[y + j + 1]
  <2> TAKE j \in 0..(o.bPos - 1)
  <2>1. o.block[j] = m[y + j + 1]
    BY DEF Took
  <2> HIDE DEF y
  <2>2. y + j + 1 \in 1..Len(m)
    BY <1>1, <1>2, <1>3, SMTT(30)
  <2> QED BY <1>2, <2>1, <2>2
<1>6. p <= Len(M)
  BY <1>1, <1>2
<1> QED BY <1>1, <1>2, <1>4, <1>5, <1>6 DEF Took, M

-----------------------------------------------------------------------------
(* The helpers on an object. *)

\* An object inside a call: the block may be full
Wide == [chain : Seq(Compressed), block : Block, bPos : 0..BlockSize, ingest : Nat]

LEMMA ObjIsWide == ASSUME BlakeSizes PROVE Obj \subseteq Wide
<1>1. Idx \subseteq 0..BlockSize
  BY BlockArith
<1> QED BY <1>1 DEF Obj, Wide

LEMMA HashWithFields ==
  ASSUME BlakeSizes, NEW o \in Wide, NEW count \in Nat
  PROVE  /\ HashWith(o, count) \in Obj
         /\ HashWith(o, count).bPos = 0
         /\ HashWith(o, count).ingest = o.ingest
         /\ HashWith(o, count).block = o.block
         /\ Len(o.chain) \in Nat
         /\ Len(HashWith(o, count).chain) = Len(o.chain) + 1
         /\ \A k \in 1..Len(o.chain) : HashWith(o, count).chain[k] = o.chain[k]
         /\ HashWith(o, count).chain[Len(o.chain) + 1].block = o.block
         /\ HashWith(o, count).chain[Len(o.chain) + 1].count = count
<1> DEFINE pair == [block |-> o.block, count |-> count]
           ch == Append(o.chain, pair)
<1>1. /\ o.chain \in Seq(Compressed) /\ o.block \in Block /\ o.ingest \in Nat
  BY DEF Wide
<1>2. pair \in Compressed /\ pair.block = o.block /\ pair.count = count
  BY <1>1 DEF Compressed
<1>3. HashWith(o, count) = [o EXCEPT !.chain = ch, !.bPos = 0]
  BY DEF HashWith
<1> HIDE DEF pair
<1>4. /\ ch \in Seq(Compressed) /\ Len(o.chain) \in Nat /\ Len(ch) = Len(o.chain) + 1
      /\ \A k \in 1..Len(o.chain) : ch[k] = o.chain[k]
      /\ ch[Len(o.chain) + 1] = pair
  BY <1>1, <1>2
<1> HIDE DEF ch
<1>5. /\ HashWith(o, count) \in Obj
      /\ HashWith(o, count).chain = ch /\ HashWith(o, count).bPos = 0
      /\ HashWith(o, count).ingest = o.ingest /\ HashWith(o, count).block = o.block
  <2>1. 0 \in Idx
    BY BlockArith
  <2> QED BY <1>1, <1>3, <1>4, <2>1 DEF Wide, Obj
<1> QED BY <1>2, <1>4, <1>5

LEMMA FillFields ==
  ASSUME BlakeSizes, NEW o \in Obj, NEW data \in Seq(ByteVal),
         NEW dPos \in Nat, NEW n \in Nat, dPos + n <= Len(data)
  PROVE  /\ Fill(o, data, dPos, n) \in Obj
         /\ Fill(o, data, dPos, n).chain = o.chain
         /\ Fill(o, data, dPos, n).bPos = o.bPos
         /\ Fill(o, data, dPos, n).ingest = o.ingest
         /\ \A j \in Idx : Fill(o, data, dPos, n).block[j] =
              IF j \in o.bPos..(o.bPos + n - 1) THEN data[dPos + (j - o.bPos) + 1]
              ELSE o.block[j]
<1> DEFINE blk == [j \in Idx |-> IF j \in o.bPos..(o.bPos + n - 1)
                                 THEN data[dPos + (j - o.bPos) + 1]
                                 ELSE o.block[j]]
<1>1. o.bPos \in Nat /\ o.block \in [Idx -> ByteVal] /\ Len(data) \in Nat
  BY ObjFields
<1>2. \A j \in Idx : j \in o.bPos..(o.bPos + n - 1) =>
        data[dPos + (j - o.bPos) + 1] \in ByteVal
  <2> TAKE j \in Idx
  <2> HAVE j \in o.bPos..(o.bPos + n - 1)
  <2>1. dPos + (j - o.bPos) + 1 \in 1..Len(data)
    BY <1>1
  <2> QED BY <2>1
<1>3. blk \in Block
  BY <1>1, <1>2 DEF Block
<1>4. Fill(o, data, dPos, n) = [o EXCEPT !.block = blk]
  BY DEF Fill
<1>5. \A j \in Idx : blk[j] = IF j \in o.bPos..(o.bPos + n - 1)
                              THEN data[dPos + (j - o.bPos) + 1]
                              ELSE o.block[j]
  OBVIOUS
<1> HIDE DEF blk
<1> QED BY <1>3, <1>4, <1>5 DEF Obj

\* The len bytes of data from dPos on are those of m from p on
Brings(data, dPos, len, m, p) ==
  /\ data \in Seq(ByteVal)
  /\ dPos \in Nat
  /\ len \in Nat
  /\ dPos + len <= Len(data)
  /\ p + len <= Len(m)
  /\ \A i \in 1..len : data[dPos + i] = m[p + i]

\* What the record says, in the words the provers need
LEMMA TookFields ==
  ASSUME BlakeSizes, NEW o, NEW m, NEW n, NEW p, Took(o, m, n, p)
  PROVE  /\ o \in Obj /\ m \in Seq(ByteVal) /\ n \in Nat /\ o.ingest = p + n
         /\ o.bPos \in Nat /\ o.bPos < BlockSize /\ o.bPos \in Idx
         /\ Len(o.chain) \in Nat /\ Base(o) \in Nat
         /\ p = Base(o) + o.bPos /\ p \in Nat
         /\ p <= Len(m) /\ Len(m) \in Nat
<1>1. o \in Obj /\ m \in Seq(ByteVal) /\ n \in Nat /\ Position(o) = p /\ o.ingest = p + n
      /\ p <= Len(m)
  BY DEF Took
<1>2. Len(m) \in Nat
  BY <1>1
<1> QED BY <1>1, <1>2, ObjFields DEF Position

\* What set() puts behind the position continues the message
LEMMA FillHolds ==
  ASSUME BlakeSizes, NEW o, NEW m, NEW n, NEW p, Took(o, m, n, p),
         NEW data, NEW dPos, NEW len, Brings(data, dPos, len, m, p),
         o.bPos + len <= BlockSize
  PROVE  \A j \in 0..((o.bPos + len) - 1) :
           Fill(o, data, dPos, len).block[j] = m[Base(o) + j + 1]
<1> DEFINE y == Base(o)
<1>1. o \in Obj
  BY DEF Took
<1>2. y \in Nat /\ o.bPos \in Nat /\ p = y + o.bPos
  BY TookFields
<1>3. \A j \in 0..(o.bPos - 1) : o.block[j] = m[y + j + 1]
  BY DEF Took
<1>0. data \in Seq(ByteVal) /\ dPos \in Nat /\ len \in Nat /\ dPos + len <= Len(data)
      /\ \A i \in 1..len : data[dPos + i] = m[p + i]
  BY DEF Brings
<1> HIDE DEF y
<1>a. len \in Nat
  BY <1>0
<1> SUFFICES ASSUME NEW j \in 0..((o.bPos + len) - 1)
             PROVE  Fill(o, data, dPos, len).block[j] = m[y + j + 1]
  BY DEF y
<1>4. j \in Idx
  <2>1. j \in Nat /\ j < o.bPos + len /\ o.bPos + len \in Nat
    BY <1>a, <1>2
  <2> QED BY <2>1, BlockArith
<1>5. CASE j < o.bPos
  <2>1. j \notin o.bPos..(o.bPos + len - 1) /\ j \in 0..(o.bPos - 1)
    BY <1>0, <1>2, <1>5
  <2>2. Fill(o, data, dPos, len).block[j] = o.block[j]
    BY <1>0, <1>1, <1>4, <2>1, FillFields
  <2> QED BY <1>3, <2>1, <2>2
<1>6. CASE j >= o.bPos
  <2>0. j \in o.bPos..(o.bPos + len - 1)
    BY <1>0, <1>2, <1>6
  <2>1. Fill(o, data, dPos, len).block[j] = data[dPos + (j - o.bPos) + 1]
    BY <1>0, <1>1, <1>4, <2>0, FillFields
  <2>2. (j - o.bPos) + 1 \in 1..len
    <3>1. j \in Nat /\ j < o.bPos + len
      BY <1>a, <1>2
    <3> QED BY <1>a, <1>2, <1>6, <3>1
  <2>3. data[dPos + ((j - o.bPos) + 1)] = m[p + ((j - o.bPos) + 1)]
    BY <1>0, <2>2
  <2>4. dPos + (j - o.bPos) + 1 = dPos + ((j - o.bPos) + 1)
        /\ p + ((j - o.bPos) + 1) = y + j + 1
    BY <1>0, <1>2
  <2> QED BY <2>1, <2>3, <2>4
<1> QED BY <1>0, <1>2, <1>5, <1>6

\* "More space than data, copy in verbatim": all of it is counted
LEMMA TailTook ==
  ASSUME BlakeSizes, NEW o, NEW m, NEW n, NEW p, Took(o, m, n, p),
         NEW data, NEW dPos, NEW len, Brings(data, dPos, len, m, p),
         o.bPos + len < BlockSize
  PROVE  Took(Tailed(o, data, dPos, len), m, n, p + len)
<1>1. data \in Seq(ByteVal) /\ dPos \in Nat /\ dPos + len <= Len(data)
  BY DEF Brings
<1>2. len \in Nat
  BY DEF Brings
<1>3. p + len <= Len(m)
  BY DEF Brings
<1>4. n \in Nat /\ p \in Nat /\ o.ingest = p + n
  BY TookFields
<1>5. Base(o) \in Nat /\ o.bPos \in Nat /\ p = Base(o) + o.bPos
  BY TookFields
<1>6. o \in Obj /\ m \in Seq(ByteVal)
  BY TookFields
<1>7. o.bPos + len \in Nat
  BY <1>2, <1>5
<1>8. o.bPos + len \in Idx
  BY <1>7, BlockArith
<1>9. \A j \in 0..((o.bPos + len) - 1) : Fill(o, data, dPos, len).block[j] = m[Base(o) + j + 1]
  <2>1. o.bPos + len <= BlockSize
    BY <1>7, BlockArith
  <2> QED BY <2>1, FillHolds
<1>10. o.ingest + len \in Nat
  BY <1>2, <1>4
<1>11. o.ingest + len = (p + len) + n
  BY <1>2, <1>4
<1>12. Base(o) + (o.bPos + len) = p + len
  BY <1>2, <1>5
<1> DEFINE f == Fill(o, data, dPos, len)
           pos == o.bPos + len
           count == o.ingest + len
           r == [Advance(o, data, dPos, len) EXCEPT !.ingest = @ + len]
<1>13. r = [[f EXCEPT !.bPos = pos] EXCEPT !.ingest = @ + len]
  BY DEF Advance
<1> HIDE DEF r
<1>14. \A j \in 0..(pos - 1) : f.block[j] = m[Base(o) + j + 1]
  BY <1>9
<1> HIDE DEF pos
<1>15. f \in Obj /\ f.chain = o.chain /\ f.ingest = o.ingest
  <2> HIDE DEF count
  <2> QED BY <1>1, <1>2, <1>6, FillFields
<1> HIDE DEF f
<1>16. r = [f EXCEPT !.bPos = pos, !.ingest = count]
  BY <1>13, <1>15 DEF Obj
<1>17. count \in Nat /\ count = (p + len) + n
  BY <1>10, <1>11
<1>18. pos \in Idx /\ Base(o) + pos = p + len
  BY <1>8, <1>12 DEF pos
<1> HIDE DEF count
<1>19. /\ r.chain = o.chain /\ r.bPos = pos /\ r.block = f.block /\ r.ingest = count
       /\ r \in Obj
  BY <1>15, <1>16, <1>17, <1>18 DEF Obj
<1>20. Base(r) = Base(o)
  BY <1>19, Zenon DEF Base
<1>21. Position(r) = p + len
  BY <1>18, <1>19, <1>20, Zenon DEF Position
<1>22. r.ingest = (p + len) + n
  BY <1>17, <1>19, Zenon
<1>23. \A j \in 0..(r.bPos - 1) : r.block[j] = m[Base(r) + j + 1]
  BY <1>14, <1>19, <1>20, Zenon
<1>24. \A k \in 1..Len(r.chain) : \A j \in Idx :
         r.chain[k].block[j] = m[(k - 1) * BlockSize + j + 1]
  BY <1>19, Zenon DEF Took
<1>25. n = 0 => \A k \in 1..Len(r.chain) : r.chain[k].count = k * BlockSize
  BY <1>19, Zenon DEF Took
<1>26. Took(r, m, n, p + len)
  BY <1>3, <1>4, <1>6, <1>19, <1>21, <1>22, <1>23, <1>24, <1>25, Zenon DEF Took
<1> QED BY <1>26 DEF r, Tailed

\* A block compressed with the count c: o held the first bytes of m, and now holds none
LEMMA HashTook ==
  ASSUME BlakeSizes, NEW o \in Wide, NEW m \in Seq(ByteVal), NEW count \in Nat,
         \A k \in 1..Len(o.chain) : \A j \in Idx :
           o.chain[k].block[j] = m[(k - 1) * BlockSize + j + 1],
         \A j \in Idx : o.block[j] = m[Base(o) + j + 1]
  PROVE  \A k \in 1..Len(HashWith(o, count).chain) : \A j \in Idx :
           HashWith(o, count).chain[k].block[j] = m[(k - 1) * BlockSize + j + 1]
<1> DEFINE L == Len(o.chain)
<1>1. L \in Nat
  BY HashWithFields
<1>2. \A k \in 1..(L + 1) : k \in 1..L \/ k = L + 1
  <2> HIDE DEF L
  <2> QED BY <1>1
<1>3. Len(HashWith(o, count).chain) = L + 1
  BY HashWithFields
<1> SUFFICES ASSUME NEW k \in 1..(L + 1), NEW j \in Idx
             PROVE  HashWith(o, count).chain[k].block[j] = m[(k - 1) * BlockSize + j + 1]
  BY <1>3
<1>4. CASE k \in 1..L
  <2>1. HashWith(o, count).chain[k] = o.chain[k]
    BY <1>4, HashWithFields
  <2>2. o.chain[k].block[j] = m[(k - 1) * BlockSize + j + 1]
    BY <1>4
  <2> QED BY <2>1, <2>2
<1>5. CASE k = L + 1
  <2>1. HashWith(o, count).chain[k].block = o.block
    BY <1>5, HashWithFields
  <2>2. k - 1 = L
    <3> HIDE DEF L
    <3> QED BY <1>1, <1>5
  <2>3. (k - 1) * BlockSize = Base(o)
    BY <2>2, Zenon DEF Base
  <2>4. o.block[j] = m[Base(o) + j + 1]
    OBVIOUS
  <2> QED BY <2>1, <2>3, <2>4, Zenon
<1> QED BY <1>2, <1>4, <1>5

LEMMA HashCounts ==
  ASSUME BlakeSizes, NEW o \in Wide, NEW count \in Nat,
         \A k \in 1..Len(o.chain) : o.chain[k].count = k * BlockSize,
         count = (Len(o.chain) + 1) * BlockSize
  PROVE  \A k \in 1..Len(HashWith(o, count).chain) :
           HashWith(o, count).chain[k].count = k * BlockSize
<1> DEFINE L == Len(o.chain)
<1>1. L \in Nat
  BY HashWithFields
<1>2. \A k \in 1..(L + 1) : k \in 1..L \/ k = L + 1
  <2> HIDE DEF L
  <2> QED BY <1>1
<1>3. Len(HashWith(o, count).chain) = L + 1
  BY HashWithFields
<1> SUFFICES ASSUME NEW k \in 1..(L + 1)
             PROVE  HashWith(o, count).chain[k].count = k * BlockSize
  BY <1>3
<1>4. CASE k \in 1..L
  BY <1>4, HashWithFields
<1>5. CASE k = L + 1
  BY <1>5, HashWithFields
<1> QED BY <1>2, <1>4, <1>5

\* A full block: what lay in it is counted a second time
LEMMA BlockTook ==
  ASSUME BlakeSizes, NEW o, NEW m, NEW n, NEW p, Took(o, m, n, p),
         NEW data, NEW dPos, NEW len, Brings(data, dPos, len, m, p),
         o.bPos + len = BlockSize
  PROVE  /\ Took(Blocked(o, data, dPos, len), m, n + o.bPos, p + len)
         /\ Blocked(o, data, dPos, len).bPos = 0
<1>1. data \in Seq(ByteVal) /\ dPos \in Nat /\ dPos + len <= Len(data)
  BY DEF Brings
<1>2. len \in Nat /\ BlockSize \in Nat
  BY BlockArith DEF Brings
<1>3. p + len <= Len(m)
  BY DEF Brings
<1>4. n \in Nat /\ p \in Nat /\ o.ingest = p + n
  BY TookFields
<1>5. Base(o) \in Nat /\ o.bPos \in Nat /\ p = Base(o) + o.bPos
  BY TookFields
<1>6. o \in Obj /\ m \in Seq(ByteVal) /\ Len(o.chain) \in Nat
  BY TookFields
<1>7. \A j \in Idx : Fill(o, data, dPos, len).block[j] = m[Base(o) + j + 1]
  <2>1. o.bPos + len <= BlockSize
    BY <1>2
  <2>2. \A j \in 0..((o.bPos + len) - 1) : Fill(o, data, dPos, len).block[j] = m[Base(o) + j + 1]
    BY <2>1, FillHolds
  <2>3. Idx = 0..((o.bPos + len) - 1)
    <3>1. (o.bPos + len) - 1 = BlockSize - 1
      BY <1>2, <1>5
    <3>2. Idx = 0..(BlockSize - 1)
      BY DEF Idx
    <3> QED BY <3>1, <3>2, Zenon
  <2> QED BY <2>2, <2>3, Zenon
<1>8. o.ingest + BlockSize \in Nat
  BY <1>2, <1>4
<1>9. (Len(o.chain) + 1) * BlockSize = Base(o) + BlockSize
  <2>1. (Len(o.chain) + 1) * BlockSize = Len(o.chain) * BlockSize + BlockSize
    BY <1>6, Products
  <2> QED BY <2>1, Zenon DEF Base
<1>10. Base(o) + BlockSize = p + len
  BY <1>2, <1>5
<1>11. o.ingest + BlockSize = (p + len) + (n + o.bPos) /\ n + o.bPos \in Nat
  <2>1. BlockSize = o.bPos + len
    OBVIOUS
  <2>2. n + o.bPos \in Nat
    BY <1>4, <1>5
  <2>3. (p + n) + (o.bPos + len) = (p + len) + (n + o.bPos)
    BY <1>2, <1>4, <1>5
  <2> QED BY <1>4, <2>1, <2>2, <2>3, Zenon
<1> DEFINE f == Fill(o, data, dPos, len)
           count == o.ingest + BlockSize
           g == [f EXCEPT !.ingest = @ + BlockSize]
           r == Hash(g)
<1>12. count \in Nat /\ count = (p + len) + (n + o.bPos)
  BY <1>8, <1>11, Zenon
<1> HIDE DEF g, r
<1>13. f \in Obj /\ f.chain = o.chain /\ f.ingest = o.ingest
  <2> HIDE DEF count
  <2> QED BY <1>1, <1>2, <1>6, FillFields
<1> HIDE DEF f
<1>14. g = [f EXCEPT !.ingest = count]
  BY <1>13 DEF Obj, g
<1> HIDE DEF count
<1>15. g \in Obj /\ g.chain = o.chain /\ g.block = f.block /\ g.ingest = count
  BY <1>12, <1>13, <1>14 DEF Obj
<1>16. g \in Wide
  BY <1>15, ObjIsWide
<1>17. r = HashWith(g, count)
  BY <1>15, Zenon DEF Hash, r
<1>18. /\ r \in Obj /\ r.bPos = 0 /\ r.ingest = count /\ Len(r.chain) = Len(o.chain) + 1
  BY <1>12, <1>15, <1>16, <1>17, HashWithFields
<1>19. \A k \in 1..Len(r.chain) : \A j \in Idx :
         r.chain[k].block[j] = m[(k - 1) * BlockSize + j + 1]
  <2>1. \A k \in 1..Len(g.chain) : \A j \in Idx :
          g.chain[k].block[j] = m[(k - 1) * BlockSize + j + 1]
    BY <1>15, Zenon DEF Took
  <2>2. Base(g) = Base(o)
    BY <1>15, Zenon DEF Base
  <2>3. \A j \in Idx : g.block[j] = m[Base(g) + j + 1]
    BY <1>7, <1>15, <2>2, Zenon DEF f
  <2> HIDE DEF f
  <2>4. \A k \in 1..Len(HashWith(g, count).chain) : \A j \in Idx :
          HashWith(g, count).chain[k].block[j] = m[(k - 1) * BlockSize + j + 1]
    BY <1>6, <1>12, <1>16, <2>1, <2>3, HashTook, Zenon
  <2> QED BY <1>17, <2>4, Zenon
<1>20. Base(r) = p + len
  BY <1>9, <1>10, <1>18, Zenon DEF Base
<1>21. Position(r) = p + len
  <2>1. p + len \in Nat
    BY <1>2, <1>4
  <2>2. Position(r) = (p + len) + 0
    BY <1>18, <1>20, Zenon DEF Position
  <2> QED BY <2>1, <2>2
<1>22. n + o.bPos = 0 => \A k \in 1..Len(r.chain) : r.chain[k].count = k * BlockSize
  <2> HAVE n + o.bPos = 0
  <2>1. n = 0 /\ o.bPos = 0
    BY <1>4, <1>5
  <2>2. \A k \in 1..Len(g.chain) : g.chain[k].count = k * BlockSize
    BY <1>15, <2>1, Zenon DEF Took
  <2>3. count = p + len
    <3>1. p + len \in Nat
      BY <1>2, <1>4
    <3>2. count = (p + len) + 0
      BY <1>12
    <3> QED BY <3>1, <3>2
  <2>4. count = (Len(g.chain) + 1) * BlockSize
    BY <1>9, <1>10, <1>15, <2>3, Zenon
  <2>5. \A k \in 1..Len(HashWith(g, count).chain) :
          HashWith(g, count).chain[k].count = k * BlockSize
    BY <1>12, <1>16, <2>2, <2>4, HashCounts, Zenon
  <2> QED BY <1>17, <2>5, Zenon
<1>23. \A j \in 0..(r.bPos - 1) : r.block[j] = m[Base(r) + j + 1]
  <2>1. 0..(r.bPos - 1) = {}
    BY <1>18
  <2> QED BY <2>1, Zenon
<1>24. Took(r, m, n + o.bPos, p + len)
  BY <1>3, <1>6, <1>11, <1>12, <1>18, <1>19, <1>21, <1>22, <1>23, Zenon DEF Took
<1> QED BY <1>18, <1>24 DEF r, g, f, Blocked

-----------------------------------------------------------------------------
(* sumIn(): the types, then what it computes. *)

LEMMA LenByteType ==
  ASSUME BlakeSizes, NEW n \in Nat, NEW i \in 0..(LenSpace - 1)
  PROVE  LenByte(n, i) \in ByteVal
<1> DEFINE k == LenSpace - 1 - i
           word == IF k < 4 THEN 8 * n ELSE IF k < 8 THEN n \div 536870912 ELSE 0
           unit == <<1, 256, 65536, 16777216>>[(k % 4) + 1]
<1>1. k \in Nat
  BY BlockArith
<1> HIDE DEF k
<1>2. word \in Nat
  BY <1>1
<1>3. unit \in Nat /\ unit > 0
  <2>1. k % 4 \in 0..3
    BY <1>1
  <2> QED BY <2>1
<1>4. LenByte(n, i) = (word \div unit) % 256
  BY DEF LenByte, BitLenByte, k
<1> HIDE DEF word, unit
<1>5. word \div unit \in Nat
  BY <1>2, <1>3
<1>6. (word \div unit) % 256 \in 0..255
  BY <1>5
<1> QED BY <1>4, <1>6 DEF ByteVal

LEMMA LowBitType == ASSUME NEW b \in ByteVal PROVE LowBit(b) \in ByteVal
<1>1. CASE b % 2 = 0
  BY <1>1 DEF LowBit, ByteVal
<1>2. CASE b % 2 # 0
  BY <1>2 DEF LowBit, ByteVal
<1> QED BY <1>1, <1>2

LEMMA MarkedFields ==
  ASSUME BlakeSizes, NEW o \in Obj
  PROVE  /\ Marked(o) \in Wide
         /\ Marked(o).chain = o.chain
         /\ Marked(o).bPos = o.bPos + 1
         /\ Marked(o).ingest = o.ingest
         /\ \A j \in Idx : Marked(o).block[j] =
                             IF j = o.bPos THEN MarkByte ELSE o.block[j]
<1> DEFINE blk == [o.block EXCEPT ![o.bPos] = MarkByte]
<1>1. o.block \in [Idx -> ByteVal] /\ o.bPos \in Idx /\ o.bPos \in Nat /\ o.bPos < BlockSize
  BY ObjFields
<1>2. blk \in Block
  BY <1>1 DEF Block, ByteVal, MarkByte
<1>3. \A j \in Idx : blk[j] = IF j = o.bPos THEN MarkByte ELSE o.block[j]
  BY <1>1
<1>4. o.bPos + 1 \in 0..BlockSize
  BY <1>1, BlockArith
<1>5. Marked(o) = [o EXCEPT !.block = blk, !.bPos = o.bPos + 1]
  BY DEF Marked
<1> HIDE DEF blk
<1> QED BY <1>2, <1>3, <1>4, <1>5 DEF Obj, Wide

\* The byte j of the block of o once the rest of it is cleared
Kept(o, j) == IF j < o.bPos THEN o.block[j] ELSE ZeroByte

LEMMA ZeroRestFields ==
  ASSUME BlakeSizes, NEW o \in Wide
  PROVE  /\ ZeroRest(o) \in Wide
         /\ ZeroRest(o).chain = o.chain
         /\ ZeroRest(o).ingest = o.ingest
         /\ \A j \in Idx : ZeroRest(o).block[j] = Kept(o, j) /\ Kept(o, j) \in ByteVal
<1> DEFINE blk == [j \in Idx |-> IF j < o.bPos THEN o.block[j] ELSE ZeroByte]
<1>1. o.block \in [Idx -> ByteVal]
  BY DEF Wide, Block
<1>2. \A j \in Idx : blk[j] = Kept(o, j) /\ Kept(o, j) \in ByteVal
  BY <1>1 DEF Kept, ByteVal, ZeroByte
<1>3. blk \in Block
  BY <1>2 DEF Block
<1>4. ZeroRest(o) = [o EXCEPT !.block = blk]
  BY DEF ZeroRest
<1> HIDE DEF blk
<1> QED BY <1>2, <1>3, <1>4 DEF Wide

LEMMA SizedFields ==
  ASSUME BlakeSizes, NEW o \in Wide
  PROVE  /\ Sized(o) \in Wide
         /\ Sized(o).chain = o.chain
         /\ Sized(o).ingest = o.ingest
         /\ \A j \in Idx : Sized(o).block[j] =
              IF j >= SizeSpace THEN LenByte(o.ingest, j - SizeSpace)
              ELSE IF j = SizeSpace - 1 THEN LowBit(Kept(o, j)) ELSE Kept(o, j)
<1> DEFINE z == ZeroRest(o)
           blk == [j \in Idx |-> IF j >= SizeSpace THEN LenByte(o.ingest, j - SizeSpace)
                                 ELSE IF j = SizeSpace - 1 THEN LowBit(z.block[j])
                                 ELSE z.block[j]]
<1>1. /\ z \in Wide /\ z.chain = o.chain /\ z.ingest = o.ingest
      /\ \A j \in Idx : z.block[j] = Kept(o, j) /\ Kept(o, j) \in ByteVal
  BY ZeroRestFields
<1>2. o.ingest \in Nat
  BY DEF Wide
<1>3. Sized(o) = [z EXCEPT !.block = blk]
  BY DEF Sized
<1> HIDE DEF z
<1>4. \A j \in Idx : blk[j] =
        IF j >= SizeSpace THEN LenByte(o.ingest, j - SizeSpace)
        ELSE IF j = SizeSpace - 1 THEN LowBit(Kept(o, j)) ELSE Kept(o, j)
  BY <1>1
<1>5. \A j \in Idx : blk[j] \in ByteVal
  <2> TAKE j \in Idx
  <2>1. CASE j >= SizeSpace
    <3>1. j - SizeSpace \in 0..(LenSpace - 1)
      BY <2>1, BlockArith
    <3> QED BY <1>2, <1>4, <2>1, <3>1, LenByteType
  <2>2. CASE ~(j >= SizeSpace)
    BY <1>1, <1>4, <2>2, LowBitType
  <2> QED BY <2>1, <2>2
<1>6. blk \in Block
  BY <1>5 DEF Block
<1> HIDE DEF blk
<1> QED BY <1>1, <1>3, <1>4, <1>6 DEF Wide

LEMMA FinalType ==
  ASSUME BlakeSizes, NEW o \in Obj
  PROVE  Final(o) \in Obj
<1> DEFINE k == Marked(o)
<1>1. k \in Wide
  BY MarkedFields
<1> HIDE DEF k
<1>2. CASE k.bPos > SizeSpace
  <2>1. ZeroRest(k) \in Wide /\ ZeroRest(k).ingest \in Nat
    BY <1>1, ZeroRestFields DEF Wide
  <2>2. Hash(ZeroRest(k)) \in Wide
    BY <2>1, HashWithFields, ObjIsWide DEF Hash
  <2>3. Sized(Hash(ZeroRest(k))) \in Wide
    BY <2>2, SizedFields
  <2>4. HashWith(Sized(Hash(ZeroRest(k))), 0) \in Obj
    BY <2>3, HashWithFields
  <2> QED BY <1>2, <2>4 DEF Final, k
<1>3. CASE ~(k.bPos > SizeSpace)
  <2>1. Sized(k) \in Wide /\ Sized(k).ingest \in Nat
    BY <1>1, SizedFields DEF Wide
  <2>2. Hash(Sized(k)) \in Obj
    BY <2>1, HashWithFields DEF Hash
  <2> QED BY <1>3, <2>2 DEF Final, k
<1> QED BY <1>2, <1>3

\* How many blocks a message takes whose last block holds b bytes
LEMMA NBlocksIs ==
  ASSUME BlakeSizes, NEW q \in Nat, NEW b \in Idx, NEW len, len = q * BlockSize + b
  PROVE  /\ len % BlockSize = b
         /\ b + 1 <= SizeSpace => NBlocks(len) = q + 1
         /\ b + 1 > SizeSpace => NBlocks(len) = q + 2
<1>1. b \in Nat /\ b < BlockSize
  BY BlockArith
<1>2. len % BlockSize = b
  BY <1>1, Quotient
<1> DEFINE y == q * BlockSize
<1>3. y \in Nat
  BY Products
<1>4. b + 1 <= SizeSpace => NBlocks(len) = q + 1
  <2> HAVE b + 1 <= SizeSpace
  <2> DEFINE r == b + LenSpace
  <2>1. r \in Nat /\ r < BlockSize
    BY <1>1, BlockArith
  <2>2. len + LenSpace = y + r
    <3> HIDE DEF y
    <3>1. len = y + b
      BY DEF y
    <3> QED BY <1>1, <1>3, <3>1, BlockArith
  <2> HIDE DEF r
  <2>3. (q * BlockSize + r) \div BlockSize = q
    BY <2>1, Quotient
  <2> QED BY <2>2, <2>3, Zenon DEF NBlocks
<1>5. b + 1 > SizeSpace => NBlocks(len) = q + 2
  <2> HAVE b + 1 > SizeSpace
  <2> DEFINE r == b + LenSpace - BlockSize
             x == (q + 1) * BlockSize
  <2>1. r \in Nat /\ r < BlockSize
    BY <1>1, BlockArith
  <2>2. x = y + BlockSize
    BY Products
  <2>3. len + LenSpace = x + r
    <3> HIDE DEF y, x
    <3>1. len = y + b
      BY DEF y
    <3> QED BY <1>1, <1>3, <2>2, <3>1, BlockArith
  <2> HIDE DEF r
  <2>4. q + 1 \in Nat /\ (q + 1) + 1 = q + 2
    OBVIOUS
  <2>5. ((q + 1) * BlockSize + r) \div BlockSize = q + 1
    BY <2>1, <2>4, Quotient
  <2> QED BY <2>3, <2>4, <2>5, Zenon DEF NBlocks
<1> QED BY <1>2, <1>4, <1>5

\* What PadByte puts behind the message, in a padded message of t bytes
LEMMA PadCases ==
  ASSUME BlakeSizes, NEW m \in Seq(ByteVal), NEW t \in Nat, NEW i \in Nat
  PROVE  /\ i < Len(m) => PadByte(m, t, i) = m[i + 1]
         /\ (i >= Len(m) /\ i >= t - LenSpace) =>
              PadByte(m, t, i) = LenByte(Len(m), i - (t - LenSpace))
         /\ (i >= Len(m) /\ i < t - LenSpace) =>
              PadByte(m, t, i) = (IF i = Len(m) THEN MarkByte ELSE ZeroByte)
                                 + (IF i = t - LenSpace - 1 THEN 1 ELSE 0)
<1> DEFINE len == Len(m)
           last == t - LenSpace - 1
<1>1. len \in Nat /\ LenSpace \in Nat
  BY BlockArith
<1>2. PadByte(m, t, i) =
        IF i < len THEN m[i + 1]
        ELSE IF i > last THEN LenByte(len, i - last - 1)
        ELSE (IF i = len THEN MarkByte ELSE ZeroByte) + (IF i = last THEN 1 ELSE 0)
  BY DEF PadByte
<1>3. i < len => PadByte(m, t, i) = m[i + 1]
  BY <1>2
<1>4. (i >= len /\ i >= t - LenSpace) => PadByte(m, t, i) = LenByte(len, i - (t - LenSpace))
  <2> HAVE i >= len /\ i >= t - LenSpace
  <2>1. ~(i < len) /\ i > last /\ i - last - 1 = i - (t - LenSpace)
    BY <1>1
  <2> QED BY <1>2, <2>1
<1>5. (i >= len /\ i < t - LenSpace) =>
        PadByte(m, t, i) = (IF i = len THEN MarkByte ELSE ZeroByte) + (IF i = last THEN 1 ELSE 0)
  <2> HAVE i >= len /\ i < t - LenSpace
  <2>1. ~(i < len) /\ ~(i > last)
    BY <1>1
  <2> QED BY <1>2, <2>1
<1> QED BY <1>3, <1>4, <1>5

\* pair is the k-th of the n pairs of the padded message
IsRow(m, n, k, pair) ==
  /\ pair \in Compressed
  /\ pair.count = Count(Len(m), k)
  /\ \A j \in Idx : pair.block[j] = PadByte(m, n * BlockSize, (k - 1) * BlockSize + j)

LEMMA RowsAreAll ==
  ASSUME NEW m, NEW ch \in Seq(Compressed), Len(ch) = NBlocks(Len(m)),
         \A k \in 1..Len(ch) : IsRow(m, Len(ch), k, ch[k])
  PROVE  ch = Padded(m)
<1> DEFINE n == Len(ch)
           row(k) == [block |-> [j \in Idx |->
                                   PadByte(m, n * BlockSize, (k - 1) * BlockSize + j)],
                      count |-> Count(Len(m), k)]
<1>1. Padded(m) = [k \in 1..n |-> row(k)]
  BY DEF Padded
<1>2. ASSUME NEW k \in 1..n PROVE ch[k] = row(k)
  <2>1. IsRow(m, n, k, ch[k])
    BY Zenon
  <2> HIDE DEF n
  <2> DEFINE pair == ch[k]
             blk == [j \in Idx |-> PadByte(m, n * BlockSize, (k - 1) * BlockSize + j)]
  <2>2. pair \in Compressed /\ pair.count = Count(Len(m), k)
    BY <2>1 DEF IsRow
  <2>3. \A j \in Idx : pair.block[j] = blk[j]
    BY <2>1, Zenon DEF IsRow
  <2> HIDE DEF pair
  <2>4. pair.block \in [Idx -> ByteVal]
    BY <2>2 DEF Compressed, Block
  <2>5. pair.block = [j \in Idx |-> pair.block[j]]
    BY <2>4
  <2>6. pair.block = blk
    BY <2>3, <2>5, Zenon
  <2> HIDE DEF blk
  <2>7. pair = [block |-> blk, count |-> Count(Len(m), k)]
    BY <2>2, <2>6 DEF Compressed
  <2> QED BY <2>7 DEF pair, blk
<1>3. ch = [k \in 1..n |-> ch[k]]
  OBVIOUS
<1> HIDE DEF n, row
<1> QED BY <1>1, <1>2, <1>3, Zenon

\* The blocks that hold message bytes alone
LEMMA MessageRow ==
  ASSUME BlakeSizes, NEW o, NEW m, Took(o, m, 0, Len(m)),
         NEW n \in Nat, NEW k \in 1..Len(o.chain)
  PROVE  IsRow(m, n, k, o.chain[k])
<1> DEFINE L == Len(o.chain)
           y == Base(o)
           t == n * BlockSize
<1>1. /\ o \in Obj /\ m \in Seq(ByteVal) /\ L \in Nat /\ y \in Nat
      /\ o.bPos \in Nat /\ Len(m) \in Nat /\ Len(m) = y + o.bPos
  BY TookFields
<1>2. t \in Nat
  BY Products
<1>3. o.chain[k] \in Compressed
  BY <1>1, ObjFields
<1>4. k \in Nat /\ k * BlockSize \in Nat /\ k * BlockSize <= y
  <2>1. 0 \in Idx
    BY BlockArith
  <2>2. k \in Nat
    <3> HIDE DEF L
    <3> QED BY <1>1 DEF L
  <2> QED BY <1>1, <2>1, <2>2, InsideBlock, Products DEF Base
<1>5. k * BlockSize <= Len(m)
  <2> DEFINE x == k * BlockSize
  <2> HIDE DEF x, y
  <2>1. x \in Nat /\ x <= y
    BY <1>4 DEF x
  <2> QED BY <1>1, <2>1 DEF x
<1>6. o.chain[k].count = Count(Len(m), k)
  <2>1. o.chain[k].count = k * BlockSize
    BY DEF Took
  <2> QED BY <1>5, <2>1, Zenon DEF Count
<1>7. ASSUME NEW j \in Idx
      PROVE  o.chain[k].block[j] = PadByte(m, t, (k - 1) * BlockSize + j)
  <2> DEFINE x == (k - 1) * BlockSize
  <2>1. x \in Nat /\ x + j < y
    BY <1>1, InsideBlock DEF Base
  <2>2. o.chain[k].block[j] = m[x + j + 1]
    BY DEF Took
  <2> HIDE DEF x, y, t
  <2>3. j \in Nat
    BY BlockArith
  <2>4. x + j \in Nat /\ x + j < Len(m)
    BY <1>1, <2>1, <2>3
  <2>5. PadByte(m, t, x + j) = m[x + j + 1]
    BY <1>1, <1>2, <2>4, PadCases
  <2> QED BY <2>2, <2>5, Zenon DEF x
<1> QED BY <1>3, <1>6, <1>7, Zenon DEF IsRow

\* The marked block, its rest cleared: the message, the mark, zeros
LEMMA KeptMarked ==
  ASSUME BlakeSizes, NEW o, NEW m, Took(o, m, 0, Len(m)), NEW j \in Idx
  PROVE  /\ j < o.bPos => Kept(Marked(o), j) = m[Base(o) + j + 1]
         /\ j = o.bPos => Kept(Marked(o), j) = MarkByte
         /\ j > o.bPos => Kept(Marked(o), j) = ZeroByte
<1>1. o \in Obj /\ o.bPos \in Nat /\ j \in Nat
  BY TookFields, BlockArith
<1>2. Marked(o).bPos = o.bPos + 1
      /\ Marked(o).block[j] = IF j = o.bPos THEN MarkByte ELSE o.block[j]
  BY <1>1, MarkedFields
<1>3. j < o.bPos => o.block[j] = m[Base(o) + j + 1]
  <2> HAVE j < o.bPos
  <2>1. j \in 0..(o.bPos - 1)
    BY <1>1
  <2> QED BY <2>1, Zenon DEF Took
<1>4. j < o.bPos => j < o.bPos + 1 /\ j # o.bPos
  BY <1>1
<1>5. j = o.bPos => j < o.bPos + 1
  BY <1>1
<1>6. j > o.bPos => ~(j < o.bPos + 1)
  BY <1>1
<1> QED BY <1>2, <1>3, <1>4, <1>5, <1>6 DEF Kept

\* The length fits behind the mark: one more block
LEMMA FinalFits ==
  ASSUME BlakeSizes, NEW o, NEW m, Took(o, m, 0, Len(m)), o.bPos + 1 <= SizeSpace
  PROVE  Final(o).chain = Padded(m)
<1> DEFINE L == Len(o.chain)
           y == Base(o)
           b == o.bPos
           k1 == Marked(o)
           z == Sized(k1)
           ch == Final(o).chain
           t == (L + 1) * BlockSize
<1>1. /\ o \in Obj /\ m \in Seq(ByteVal) /\ L \in Nat /\ b \in Idx
  BY TookFields
<1>2. y \in Nat /\ b \in Nat /\ Len(m) \in Nat /\ Len(m) = y + b
  BY TookFields
<1>3. o.ingest = Len(m)
  <2>1. o.ingest = Len(m) + 0
    BY TookFields
  <2> QED BY <1>2, <2>1
<1>4. /\ k1 \in Wide /\ k1.chain = o.chain /\ k1.bPos = b + 1 /\ k1.ingest = Len(m)
  BY <1>1, <1>3, MarkedFields
<1>5. ~(k1.bPos > SizeSpace)
  BY <1>2, <1>4, BlockArith
<1>6. Final(o) = HashWith(z, z.ingest)
  BY <1>5, Zenon DEF Final, Hash
<1>7. /\ z \in Wide /\ z.chain = o.chain /\ z.ingest = Len(m)
      /\ \A j \in Idx : z.block[j] =
           IF j >= SizeSpace THEN LenByte(Len(m), j - SizeSpace)
           ELSE IF j = SizeSpace - 1 THEN LowBit(Kept(k1, j)) ELSE Kept(k1, j)
  BY <1>4, SizedFields
<1> HIDE DEF z
<1>8. /\ ch \in Seq(Compressed) /\ Len(ch) = L + 1
      /\ \A k \in 1..L : ch[k] = o.chain[k]
      /\ ch[L + 1].block = z.block /\ ch[L + 1].count = Len(m)
  <2> DEFINE h == HashWith(z, Len(m))
  <2>1. /\ h \in Obj /\ Len(h.chain) = Len(z.chain) + 1
        /\ \A k \in 1..Len(z.chain) : h.chain[k] = z.chain[k]
        /\ h.chain[Len(z.chain) + 1].block = z.block
        /\ h.chain[Len(z.chain) + 1].count = Len(m)
    BY <1>2, <1>7, HashWithFields
  <2> HIDE DEF h
  <2>2. h.chain \in Seq(Compressed)
    BY <2>1, ObjFields
  <2>3. ch = h.chain
    BY <1>6, <1>7, Zenon DEF h
  <2> HIDE DEF ch
  <2> QED BY <1>7, <2>1, <2>2, <2>3, Zenon
<1>9. NBlocks(Len(m)) = L + 1 /\ Len(m) % BlockSize = b
  <2>1. Len(m) = L * BlockSize + b
    BY <1>2, Zenon DEF Base
  <2> QED BY <1>1, <2>1, NBlocksIs
<1>10. t = y + BlockSize /\ t \in Nat
  <2>1. t = L * BlockSize + BlockSize
    BY <1>1, Products
  <2>2. t \in Nat
    <3> HIDE DEF L
    <3>1. L + 1 \in Nat
      BY <1>1
    <3> QED BY <3>1, Products
  <2> QED BY <2>1, <2>2, Zenon DEF Base
<1>11. Count(Len(m), L + 1) = Len(m)
  <2>1. ~(t <= Len(m))
    <3> HIDE DEF t, y, b
    <3>1. b < BlockSize /\ BlockSize \in Nat
      BY <1>1, BlockArith
    <3> QED BY <1>2, <1>10, <3>1
  <2>2. ~(b + 1 > SizeSpace)
    BY <1>2, BlockArith
  <2> QED BY <1>9, <2>1, <2>2, Zenon DEF Count
<1> HIDE DEF ch, t
<1>12. ASSUME NEW j \in Idx
       PROVE  z.block[j] = PadByte(m, t, y + j)
  <2> HIDE DEF y, b, k1
  <2>1. /\ j \in Nat /\ BlockSize \in Nat /\ LenSpace \in Nat /\ SizeSpace \in Nat
        /\ SizeSpace + LenSpace = BlockSize
    BY BlockArith
  <2>2. b + 1 <= SizeSpace
    BY DEF b
  <2>3. y + j \in Nat /\ t - LenSpace = y + SizeSpace
    BY <1>2, <1>10, <2>1
  <2>4. CASE j >= SizeSpace
    <3>1. y + j >= Len(m) /\ y + j >= t - LenSpace /\ (y + j) - (t - LenSpace) = j - SizeSpace
      BY <1>2, <2>1, <2>2, <2>3, <2>4
    <3>2. PadByte(m, t, y + j) = LenByte(Len(m), (y + j) - (t - LenSpace))
      BY <1>1, <1>10, <2>3, <3>1, PadCases
    <3>3. z.block[j] = LenByte(Len(m), j - SizeSpace)
      BY <1>7, <2>4
    <3> QED BY <3>1, <3>2, <3>3, Zenon
  <2>5. CASE j < b
    <3>1. y + j < Len(m) /\ ~(j >= SizeSpace) /\ j # SizeSpace - 1
      BY <1>2, <2>1, <2>2, <2>5
    <3>2. PadByte(m, t, y + j) = m[y + j + 1]
      BY <1>1, <1>10, <2>3, <3>1, PadCases
    <3>3. z.block[j] = Kept(k1, j)
      BY <1>7, <3>1
    <3>4. Kept(k1, j) = m[y + j + 1]
      BY <2>5, KeptMarked DEF k1, b, y
    <3> QED BY <3>2, <3>3, <3>4, Zenon
  <2>6. CASE j >= b /\ j < SizeSpace
    <3>1. y + j >= Len(m) /\ y + j < t - LenSpace
      BY <1>2, <2>1, <2>3, <2>6
    <3>2. /\ y + j = Len(m) <=> j = b
          /\ y + j = t - LenSpace - 1 <=> j = SizeSpace - 1
      BY <1>2, <1>10, <2>1, <2>3
    <3>3. PadByte(m, t, y + j) = (IF j = b THEN MarkByte ELSE ZeroByte)
                                 + (IF j = SizeSpace - 1 THEN 1 ELSE 0)
      <4>1. PadByte(m, t, y + j) = (IF y + j = Len(m) THEN MarkByte ELSE ZeroByte)
                                   + (IF y + j = t - LenSpace - 1 THEN 1 ELSE 0)
        BY <1>1, <1>10, <2>3, <3>1, PadCases
      <4> QED BY <3>2, <4>1, Zenon
    <3>4. Kept(k1, j) = IF j = b THEN MarkByte ELSE ZeroByte
      <4>1. j = b \/ j > b
        BY <1>2, <2>1, <2>6
      <4>2. (j = b => Kept(k1, j) = MarkByte) /\ (j > b => Kept(k1, j) = ZeroByte)
        BY KeptMarked DEF k1, b
      <4>3. j > b => j # b
        BY <1>2, <2>1
      <4> QED BY <4>1, <4>2, <4>3, Zenon
    <3>5. z.block[j] = IF j = SizeSpace - 1 THEN LowBit(Kept(k1, j)) ELSE Kept(k1, j)
      BY <1>7, <2>1, <2>6
    <3> QED BY <3>3, <3>4, <3>5 DEF LowBit, MarkByte, ZeroByte
  <2> QED BY <1>2, <2>1, <2>2, <2>4, <2>5, <2>6
<1>13. ASSUME NEW k \in 1..(L + 1)
       PROVE  IsRow(m, L + 1, k, ch[k])
  <2>1. k \in 1..L \/ k = L + 1
    <3> HIDE DEF L
    <3> QED BY <1>1
  <2>2. CASE k \in 1..L
    <3>1. L + 1 \in Nat
      BY <1>1
    <3>2. IsRow(m, L + 1, k, o.chain[k])
      BY <2>2, <3>1, MessageRow
    <3> QED BY <1>8, <2>2, <3>2, Zenon
  <2>3. CASE k = L + 1
    <3>1. (k - 1) * BlockSize = y
      <4>1. k - 1 = L
        <5> HIDE DEF L
        <5> QED BY <1>1, <2>3
      <4> QED BY <4>1, Zenon DEF Base
    <3>2. ch[k] \in Compressed
      <4> HIDE DEF L
      <4>1. k \in 1..Len(ch)
        BY <1>8
      <4> QED BY <1>8, <4>1
    <3>3. ch[k].count = Count(Len(m), k)
      BY <1>8, <1>11, <2>3, Zenon
    <3>4. \A j \in Idx : ch[k].block[j] = PadByte(m, (L + 1) * BlockSize, (k - 1) * BlockSize + j)
      BY <1>8, <1>12, <2>3, <3>1, Zenon DEF t
    <3> QED BY <3>2, <3>3, <3>4, Zenon DEF IsRow
  <2> QED BY <2>1, <2>2, <2>3
<1>14. ch = Padded(m)
  <2> HIDE DEF L
  <2>1. Len(ch) = NBlocks(Len(m))
    BY <1>8, <1>9, Zenon
  <2>2. \A k \in 1..Len(ch) : IsRow(m, Len(ch), k, ch[k])
    BY <1>8, <1>13, Zenon
  <2> QED BY <1>8, <2>1, <2>2, RowsAreAll, Zenon
<1> QED BY <1>14, Zenon DEF ch

\* The length does not fit: the block is closed, and the length goes in the next, which
\* is compressed with the count 0
LEMMA FinalSpills ==
  ASSUME BlakeSizes, NEW o, NEW m, Took(o, m, 0, Len(m)), o.bPos + 1 > SizeSpace
  PROVE  Final(o).chain = Padded(m)
<1> DEFINE L == Len(o.chain)
           y == Base(o)
           b == o.bPos
           k1 == Marked(o)
           z1 == ZeroRest(k1)
           h1 == HashWith(z1, Len(m))
           z2 == Sized(h1)
           ch == Final(o).chain
           t == (L + 2) * BlockSize
<1>1. /\ o \in Obj /\ m \in Seq(ByteVal) /\ L \in Nat /\ b \in Idx
  BY TookFields
<1>2. y \in Nat /\ b \in Nat /\ Len(m) \in Nat /\ Len(m) = y + b
  BY TookFields
<1>3. o.ingest = Len(m)
  <2>1. o.ingest = Len(m) + 0
    BY TookFields
  <2> QED BY <1>2, <2>1
<1>4. /\ k1 \in Wide /\ k1.chain = o.chain /\ k1.bPos = b + 1 /\ k1.ingest = Len(m)
  BY <1>1, <1>3, MarkedFields
<1>5. k1.bPos > SizeSpace
  BY <1>4
<1>6. /\ z1 \in Wide /\ z1.chain = o.chain /\ z1.ingest = Len(m)
      /\ \A j \in Idx : z1.block[j] = Kept(k1, j)
  <2> HIDE DEF k1
  <2>1. /\ z1 \in Wide /\ z1.chain = k1.chain /\ z1.ingest = k1.ingest
        /\ \A j \in Idx : z1.block[j] = Kept(k1, j)
    BY <1>4, ZeroRestFields
  <2> QED BY <1>4, <2>1, Zenon
<1> HIDE DEF z1
<1>7. /\ h1 \in Obj /\ h1.bPos = 0 /\ h1.ingest = Len(m) /\ Len(h1.chain) = L + 1
      /\ \A k \in 1..L : h1.chain[k] = o.chain[k]
      /\ h1.chain[L + 1].block = z1.block /\ h1.chain[L + 1].count = Len(m)
  <2>1. /\ h1 \in Obj /\ h1.bPos = 0 /\ h1.ingest = z1.ingest
        /\ Len(h1.chain) = Len(z1.chain) + 1
        /\ \A k \in 1..Len(z1.chain) : h1.chain[k] = z1.chain[k]
        /\ h1.chain[Len(z1.chain) + 1].block = z1.block
        /\ h1.chain[Len(z1.chain) + 1].count = Len(m)
    BY <1>2, <1>6, HashWithFields
  <2> HIDE DEF h1
  <2> QED BY <1>6, <2>1, Zenon
<1>8. Final(o) = HashWith(z2, 0)
  <2>1. Hash(z1) = h1
    BY <1>6, Zenon DEF Hash
  <2> QED BY <1>5, <2>1, Zenon DEF Final, z1
<1> HIDE DEF h1
<1>9. /\ z2 \in Wide /\ z2.chain = h1.chain
      /\ \A j \in Idx : z2.block[j] =
           IF j >= SizeSpace THEN LenByte(Len(m), j - SizeSpace)
           ELSE IF j = SizeSpace - 1 THEN LowBit(ZeroByte) ELSE ZeroByte
  <2>1. h1 \in Wide
    BY <1>7, ObjIsWide
  <2>2. \A j \in Idx : Kept(h1, j) = ZeroByte
    <3> TAKE j \in Idx
    <3>1. ~(j < h1.bPos)
      BY <1>7, BlockArith
    <3> QED BY <3>1, Zenon DEF Kept
  <2>3. /\ z2 \in Wide /\ z2.chain = h1.chain
        /\ \A j \in Idx : z2.block[j] =
             IF j >= SizeSpace THEN LenByte(h1.ingest, j - SizeSpace)
             ELSE IF j = SizeSpace - 1 THEN LowBit(Kept(h1, j)) ELSE Kept(h1, j)
    BY <2>1, SizedFields
  <2> HIDE DEF z2
  <2> QED BY <1>7, <2>2, <2>3, Zenon
<1> HIDE DEF z2
<1>10. /\ ch \in Seq(Compressed) /\ Len(ch) = (L + 1) + 1
       /\ \A k \in 1..(L + 1) : ch[k] = h1.chain[k]
       /\ ch[(L + 1) + 1].block = z2.block /\ ch[(L + 1) + 1].count = 0
  <2> DEFINE h == HashWith(z2, 0)
  <2>1. /\ h \in Obj /\ Len(h.chain) = Len(z2.chain) + 1
        /\ \A k \in 1..Len(z2.chain) : h.chain[k] = z2.chain[k]
        /\ h.chain[Len(z2.chain) + 1].block = z2.block
        /\ h.chain[Len(z2.chain) + 1].count = 0
    BY <1>9, HashWithFields
  <2> HIDE DEF h
  <2>2. h.chain \in Seq(Compressed)
    BY <2>1, ObjFields
  <2>3. ch = h.chain
    BY <1>8, Zenon DEF h
  <2> HIDE DEF ch
  <2> QED BY <1>7, <1>9, <2>1, <2>2, <2>3, Zenon
<1>11. NBlocks(Len(m)) = L + 2 /\ Len(m) % BlockSize = b
  <2>1. Len(m) = L * BlockSize + b
    BY <1>2, Zenon DEF Base
  <2> QED BY <1>1, <2>1, NBlocksIs
<1>12. /\ t = y + BlockSize + BlockSize /\ t \in Nat
       /\ (L + 1) * BlockSize = y + BlockSize
  <2>1. t = L * BlockSize + BlockSize + BlockSize
    BY <1>1, Products
  <2>2. (L + 1) * BlockSize = L * BlockSize + BlockSize
    BY <1>1, Products
  <2>3. t \in Nat
    <3> HIDE DEF L
    <3>1. L + 2 \in Nat
      BY <1>1
    <3> QED BY <3>1, Products
  <2> QED BY <2>1, <2>2, <2>3, Zenon DEF Base
<1>13. Count(Len(m), L + 1) = Len(m) /\ Count(Len(m), L + 2) = 0
  <2> DEFINE x == (L + 1) * BlockSize
  <2>1. ~(x <= Len(m)) /\ ~(t <= Len(m))
    <3> HIDE DEF t, x, y, b
    <3>1. b < BlockSize /\ BlockSize \in Nat
      BY <1>1, BlockArith
    <3>2. x = y + BlockSize
      BY <1>12 DEF x
    <3> QED BY <1>2, <1>12, <3>1, <3>2
  <2>2. L + 1 # L + 2
    <3> HIDE DEF L
    <3> QED BY <1>1
  <2> QED BY <1>11, <2>1, <2>2, Zenon DEF Count
<1> HIDE DEF ch, t
<1>14. ASSUME NEW j \in Idx
       PROVE  z1.block[j] = PadByte(m, t, y + j)
  <2> HIDE DEF y, b, k1
  <2>1. /\ j \in Nat /\ j < BlockSize /\ BlockSize \in Nat /\ LenSpace \in Nat
        /\ SizeSpace \in Nat /\ SizeSpace > 1 /\ SizeSpace + LenSpace = BlockSize
    BY BlockArith
  <2>2. y + j \in Nat /\ t - LenSpace = y + BlockSize + SizeSpace
    BY <1>2, <1>12, <2>1
  <2>3. z1.block[j] = Kept(k1, j)
    BY <1>6
  <2>4. CASE j < b
    <3>1. y + j < Len(m)
      BY <1>2, <2>1, <2>4
    <3>2. PadByte(m, t, y + j) = m[y + j + 1]
      BY <1>1, <1>12, <2>2, <3>1, PadCases
    <3>3. Kept(k1, j) = m[y + j + 1]
      BY <2>4, KeptMarked DEF k1, b, y
    <3> QED BY <2>3, <3>2, <3>3, Zenon
  <2>5. CASE j >= b
    <3>1. y + j >= Len(m) /\ y + j < t - LenSpace /\ y + j # t - LenSpace - 1
      BY <1>2, <2>1, <2>2, <2>5
    <3>2. y + j = Len(m) <=> j = b
      BY <1>2, <2>1
    <3>3. PadByte(m, t, y + j) = (IF j = b THEN MarkByte ELSE ZeroByte) + 0
      <4>1. PadByte(m, t, y + j) = (IF y + j = Len(m) THEN MarkByte ELSE ZeroByte)
                                   + (IF y + j = t - LenSpace - 1 THEN 1 ELSE 0)
        BY <1>1, <1>12, <2>2, <3>1, PadCases
      <4> QED BY <3>1, <3>2, <4>1, Zenon
    <3>4. Kept(k1, j) = IF j = b THEN MarkByte ELSE ZeroByte
      <4>1. j = b \/ j > b
        BY <1>2, <2>1, <2>5
      <4>2. (j = b => Kept(k1, j) = MarkByte) /\ (j > b => Kept(k1, j) = ZeroByte)
        BY KeptMarked DEF k1, b
      <4>3. j > b => j # b
        BY <1>2, <2>1
      <4> QED BY <4>1, <4>2, <4>3, Zenon
    <3> QED BY <2>3, <3>3, <3>4 DEF MarkByte, ZeroByte
  <2> QED BY <1>2, <2>1, <2>4, <2>5
<1>15. ASSUME NEW j \in Idx
       PROVE  z2.block[j] = PadByte(m, t, (y + BlockSize) + j)
  <2> HIDE DEF y, b
  <2> DEFINE i == (y + BlockSize) + j
  <2>1. /\ j \in Nat /\ BlockSize \in Nat /\ LenSpace \in Nat /\ SizeSpace \in Nat
        /\ SizeSpace + LenSpace = BlockSize
    BY BlockArith
  <2>2. b < BlockSize
    BY <1>1, BlockArith
  <2>3. /\ i \in Nat /\ i > Len(m)
        /\ i >= t - LenSpace <=> j >= SizeSpace
        /\ i - (t - LenSpace) = j - SizeSpace
        /\ i = t - LenSpace - 1 <=> j = SizeSpace - 1
    BY <1>2, <1>12, <2>1, <2>2
  <2> HIDE DEF i
  <2>4. CASE j >= SizeSpace
    <3>1. PadByte(m, t, i) = LenByte(Len(m), i - (t - LenSpace))
      <4>1. i >= Len(m) /\ i >= t - LenSpace
        BY <1>2, <2>3, <2>4
      <4> QED BY <1>1, <1>12, <2>3, <4>1, PadCases
    <3>2. z2.block[j] = LenByte(Len(m), j - SizeSpace)
      BY <1>9, <2>4
    <3> QED BY <2>3, <3>1, <3>2, Zenon DEF i
  <2>5. CASE ~(j >= SizeSpace)
    <3>1. i < t - LenSpace /\ i >= Len(m) /\ i # Len(m)
      BY <1>2, <1>12, <2>1, <2>3, <2>5
    <3>2. PadByte(m, t, i) = (IF i = Len(m) THEN MarkByte ELSE ZeroByte)
                             + (IF i = t - LenSpace - 1 THEN 1 ELSE 0)
      BY <1>1, <1>12, <2>3, <3>1, PadCases
    <3>3. PadByte(m, t, i) = ZeroByte + (IF j = SizeSpace - 1 THEN 1 ELSE 0)
      BY <2>3, <3>1, <3>2, Zenon
    <3>4. z2.block[j] = IF j = SizeSpace - 1 THEN LowBit(ZeroByte) ELSE ZeroByte
      BY <1>9, <2>5
    <3>5. z2.block[j] = PadByte(m, t, i)
      BY <3>3, <3>4 DEF LowBit, ZeroByte
    <3> QED BY <3>5 DEF i
  <2> QED BY <2>4, <2>5
<1>16. ASSUME NEW k \in 1..(L + 2)
       PROVE  IsRow(m, L + 2, k, ch[k])
  <2>1. k \in 1..L \/ k = L + 1 \/ k = (L + 1) + 1
    <3> HIDE DEF L
    <3> QED BY <1>1
  <2>2. /\ L + 2 \in Nat /\ \A i \in 1..L : i \in 1..(L + 1)
        /\ L + 1 \in 1..(L + 1) /\ (L + 1) + 1 = L + 2
    <3> HIDE DEF L
    <3> QED BY <1>1
  <2>3. ch[k] \in Compressed
    <3> HIDE DEF L
    <3>1. k \in 1..Len(ch)
      BY <1>10, <2>2
    <3> QED BY <1>10, <3>1
  <2>4. CASE k \in 1..L
    <3>1. IsRow(m, L + 2, k, o.chain[k])
      BY <2>2, <2>4, MessageRow
    <3>2. ch[k] = h1.chain[k] /\ h1.chain[k] = o.chain[k]
      BY <1>7, <1>10, <2>2, <2>4, Zenon
    <3> QED BY <3>1, <3>2, Zenon
  <2>5. CASE k = L + 1
    <3>1. (k - 1) * BlockSize = y
      <4>1. k - 1 = L
        <5> HIDE DEF L
        <5> QED BY <1>1, <2>5
      <4> QED BY <4>1, Zenon DEF Base
    <3>2. ch[k].block = z1.block /\ ch[k].count = Len(m)
      BY <1>7, <1>10, <2>2, <2>5, Zenon
    <3>3. ch[k].count = Count(Len(m), k)
      BY <1>13, <2>5, <3>2, Zenon
    <3>4. \A j \in Idx : ch[k].block[j] = PadByte(m, (L + 2) * BlockSize, (k - 1) * BlockSize + j)
      BY <1>14, <3>1, <3>2, Zenon DEF t
    <3> QED BY <2>3, <3>3, <3>4, Zenon DEF IsRow
  <2>6. CASE k = (L + 1) + 1
    <3>1. (k - 1) * BlockSize = y + BlockSize
      <4>1. k - 1 = L + 1
        <5> HIDE DEF L
        <5> QED BY <1>1, <2>6
      <4> QED BY <1>12, <4>1, Zenon
    <3>2. ch[k].block = z2.block /\ ch[k].count = 0
      BY <1>10, <2>6, Zenon
    <3>3. ch[k].count = Count(Len(m), k)
      BY <1>13, <2>2, <2>6, <3>2, Zenon
    <3>4. \A j \in Idx : ch[k].block[j] = PadByte(m, (L + 2) * BlockSize, (k - 1) * BlockSize + j)
      BY <1>15, <3>1, <3>2, Zenon DEF t
    <3> QED BY <2>3, <3>3, <3>4, Zenon DEF IsRow
  <2> QED BY <2>1, <2>4, <2>5, <2>6
<1>17. ch = Padded(m)
  <2>1. (L + 1) + 1 = L + 2
    <3> HIDE DEF L
    <3> QED BY <1>1
  <2> HIDE DEF L
  <2>2. Len(ch) = NBlocks(Len(m))
    BY <1>10, <1>11, <2>1, Zenon
  <2>3. \A k \in 1..Len(ch) : IsRow(m, Len(ch), k, ch[k])
    BY <1>10, <1>16, <2>1, Zenon
  <2> QED BY <1>10, <2>2, <2>3, RowsAreAll, Zenon
<1> QED BY <1>17, Zenon DEF ch

LEMMA FinalRight ==
  ASSUME BlakeSizes, NEW o, NEW m, Took(o, m, 0, Len(m))
  PROVE  Final(o).chain = Padded(m)
<1>1. o.bPos \in Nat
  BY TookFields
<1>2. o.bPos + 1 <= SizeSpace \/ o.bPos + 1 > SizeSpace
  BY <1>1, BlockArith
<1> QED BY <1>2, FinalFits, FinalSpills

-----------------------------------------------------------------------------
(* The inductive invariant: what every live object took, and that a write() *)
(* in progress has still to bring the end of the message.                   *)

Writing == [ctx : Ctx, data : Seq(ByteVal), dPos : Nat, nToWrite : Nat, space : Nat]

InCall(w) ==
  /\ call = {w}
  /\ w \in Writing
  /\ w.ctx \in Ctx \ spent
  /\ w.nToWrite \in Nat
  /\ w.space = BlockSize - obj[w.ctx].bPos
  /\ Brings(w.data, w.dPos, w.nToWrite, msg[w.ctx], Len(msg[w.ctx]) - w.nToWrite)
  /\ w.dPos + w.nToWrite = Len(w.data)
  /\ Took(obj[w.ctx], msg[w.ctx], over[w.ctx], Len(msg[w.ctx]) - w.nToWrite)

AtRest(c) == Took(obj[c], msg[c], over[c], Len(msg[c]))

IInv ==
  /\ obj \in [Ctx -> Obj]
  /\ msg \in [Ctx -> Seq(ByteVal)]
  /\ over \in [Ctx -> Nat]
  /\ spent \subseteq Ctx
  /\ \A c \in Ctx : Len(msg[c]) <= MaxLen
  /\ \A w \in call : InCall(w)
  /\ \A c \in Ctx \ spent : (\A w \in call : w.ctx # c) => AtRest(c)
  /\ \A r \in out : r.over = 0 => r.digest = Padded(r.msg)

\* Part of what is brought, and the rest of it
LEMMA BringsParts ==
  ASSUME NEW data, NEW dPos, NEW len, NEW m, NEW p, p \in Nat,
         Brings(data, dPos, len, m, p), NEW k \in Nat, k <= len
  PROVE  /\ Brings(data, dPos, k, m, p)
         /\ Brings(data, dPos + k, len - k, m, p + k)
<1>1. data \in Seq(ByteVal) /\ Len(data) \in Nat
  BY DEF Brings
<1>2. dPos \in Nat /\ len \in Nat /\ dPos + len <= Len(data) /\ p + len <= Len(m)
  BY DEF Brings
<1>3. \A i \in 1..len : data[dPos + i] = m[p + i]
  BY DEF Brings
<1>4. Brings(data, dPos, k, m, p)
  <2>1. dPos + k <= Len(data) /\ p + k <= Len(m)
    <3>1. dPos + k <= dPos + len /\ p + k <= p + len
      BY <1>2
    <3>2. p + k \in Nat /\ p + len \in Nat
      BY <1>2
    <3> QED BY <1>1, <1>2, <3>1, <3>2
  <2>2. \A i \in 1..k : i \in 1..len
    BY <1>2
  <2> QED BY <1>1, <1>2, <1>3, <2>1, <2>2, Zenon DEF Brings
<1>5. Brings(data, dPos + k, len - k, m, p + k)
  <2>1. /\ dPos + k \in Nat /\ len - k \in Nat
        /\ (dPos + k) + (len - k) = dPos + len
        /\ (p + k) + (len - k) = p + len
    BY <1>2
  <2>2. ASSUME NEW i \in 1..(len - k)
        PROVE  data[(dPos + k) + i] = m[(p + k) + i]
    <3>1. /\ k + i \in 1..len
          /\ (dPos + k) + i = dPos + (k + i)
          /\ (p + k) + i = p + (k + i)
      BY <1>2
    <3> QED BY <1>3, <3>1, Zenon
  <2> QED BY <1>1, <1>2, <2>1, <2>2, Zenon DEF Brings
<1> QED BY <1>4, <1>5

LEMMA IdleRest ==
  ASSUME IInv, Idle
  PROVE  \A c \in Ctx \ spent : AtRest(c)
BY DEF IInv, Idle

LEMMA InitHolds == ASSUME BlakeSizes, Init PROVE IInv
<1>1. ZeroBlock \in Block
  BY ZeroBlockType
<1>2. Took(Empty(ZeroBlock), <<>>, 0, 0)
  BY <1>1, EmptyTook
<1>3. Empty(ZeroBlock) \in Obj
  BY <1>2 DEF Took
<1>4. /\ obj \in [Ctx -> Obj] /\ msg \in [Ctx -> Seq(ByteVal)] /\ over \in [Ctx -> Nat]
      /\ spent \subseteq Ctx /\ call = {} /\ out = {}
  BY <1>3 DEF Init
<1>5. \A c \in Ctx : Len(msg[c]) = 0
  BY DEF Init
<1>6. \A c \in Ctx : AtRest(c)
  BY <1>2 DEF Init, AtRest
<1>7. \A c \in Ctx : Len(msg[c]) <= MaxLen
  BY <1>5 DEF BlakeSizes
<1> QED BY <1>4, <1>6, <1>7 DEF IInv

LEMMA WriteBeginKeeps ==
  ASSUME BlakeSizes, IInv, NEW c \in Ctx, NEW data \in Data, WriteBegin(c, data)
  PROVE  IInv'
<1> DEFINE m == msg[c] \o data
           o == obj[c]
           w == [ctx |-> c, data |-> data, dPos |-> 0, nToWrite |-> Len(data),
                 space |-> BlockSize - o.bPos]
<1>1. /\ obj \in [Ctx -> Obj] /\ msg \in [Ctx -> Seq(ByteVal)] /\ over \in [Ctx -> Nat]
      /\ spent \subseteq Ctx /\ \A d \in Ctx : Len(msg[d]) <= MaxLen
  BY DEF IInv
<1>2. /\ call = {} /\ c \notin spent /\ Len(msg[c]) + Len(data) <= MaxLen
      /\ call' = {w} /\ msg' = [msg EXCEPT ![c] = m] /\ out' = {}
      /\ obj' = obj /\ spent' = spent /\ over' = over
  BY DEF WriteBegin, Idle
<1>3. Took(o, msg[c], over[c], Len(msg[c]))
  BY <1>2, IdleRest DEF AtRest, Idle
<1>4. data \in Seq(ByteVal)
  BY DEF BlakeSizes
<1>5. /\ m \in Seq(ByteVal) /\ Len(m) = Len(msg[c]) + Len(data)
      /\ Len(data) \in Nat /\ Len(msg[c]) \in Nat
      /\ \A i \in 1..Len(data) : m[Len(msg[c]) + i] = data[i]
  BY <1>1, <1>4
<1>6. Took(o, m, over[c], Len(msg[c]))
  BY <1>3, <1>4, <1>5, TookLonger
<1>7. w.ctx = c /\ w.data = data /\ w.dPos = 0 /\ w.nToWrite = Len(data)
      /\ w.space = BlockSize - o.bPos
  OBVIOUS
<1>a. w \in Writing
  <2>1. BlockSize - o.bPos \in Nat
    BY <1>3, TookFields, BlockArith
  <2> QED BY <1>4, <1>5, <2>1 DEF Writing
<1>8. msg'[c] = m /\ \A d \in Ctx : d # c => msg'[d] = msg[d]
  BY <1>1, <1>2
<1> HIDE DEF m, w
<1>9. Len(m) - Len(data) = Len(msg[c])
  BY <1>5
<1>10. Brings(data, 0, Len(data), m, Len(m) - Len(data))
  <2>1. /\ 0 \in Nat /\ 0 + Len(data) <= Len(data) /\ Len(msg[c]) + Len(data) <= Len(m)
        /\ \A i \in 1..Len(data) : 0 + i = i
    BY <1>5
  <2> QED BY <1>4, <1>5, <1>9, <2>1, Zenon DEF Brings
<1>11. \A v \in call' : InCall(v)'
  <2> TAKE v \in call'
  <2>0. /\ call' = {v} /\ v \in Writing /\ v.ctx = c /\ v.data = data /\ v.dPos = 0 /\ v.nToWrite = Len(data)
        /\ v.space = BlockSize - o.bPos
    BY <1>2, <1>7, <1>a
  <2>1. 0 + Len(data) = Len(data)
    BY <1>5
  <2>2. c \in Ctx \ spent
    BY <1>2
  <2>3. /\ obj'[c] = o /\ over'[c] = over[c] /\ msg'[c] = m /\ c \in Ctx \ spent'
    BY <1>2, <1>8, <2>2
  <2> HIDE DEF o
  <2> QED BY <1>5, <1>6, <1>9, <1>10, <2>0, <2>1, <2>3 DEF InCall
<1>12. \A d \in Ctx \ spent' : (\A v \in call' : v.ctx # d) => AtRest(d)'
  <2> TAKE d \in Ctx \ spent'
  <2> HAVE \A v \in call' : v.ctx # d
  <2>1. d # c /\ d \in Ctx \ spent
    BY <1>2, <1>7
  <2>2. AtRest(d)
    BY <1>2, <2>1, IdleRest DEF Idle
  <2> QED BY <1>2, <1>8, <2>1, <2>2, Zenon DEF AtRest
<1>13. \A d \in Ctx : Len(msg'[d]) <= MaxLen
  BY <1>1, <1>2, <1>5, <1>8
<1>14. msg' \in [Ctx -> Seq(ByteVal)]
  BY <1>1, <1>2, <1>5
<1> QED BY <1>1, <1>2, <1>11, <1>12, <1>13, <1>14 DEF IInv

\* What the invariant says of the object that a write() is working on
LEMMA CallFacts ==
  ASSUME BlakeSizes, IInv, NEW w \in call
  PROVE  /\ InCall(w)
         /\ call = {w} /\ w \in Writing /\ w.ctx \in Ctx /\ w.ctx \notin spent
         /\ w.nToWrite \in Nat /\ w.space = BlockSize - obj[w.ctx].bPos
         /\ Brings(w.data, w.dPos, w.nToWrite, msg[w.ctx], Len(msg[w.ctx]) - w.nToWrite)
         /\ w.dPos \in Nat /\ w.dPos + w.nToWrite = Len(w.data)
         /\ Took(obj[w.ctx], msg[w.ctx], over[w.ctx], Len(msg[w.ctx]) - w.nToWrite)
         /\ Len(msg[w.ctx]) - w.nToWrite \in Nat
         /\ Len(msg[w.ctx]) \in Nat
         /\ \A c \in Ctx \ spent : c # w.ctx => AtRest(c)
<1>1. InCall(w)
  BY DEF IInv
<1>2. /\ call = {w} /\ w \in Writing /\ w.ctx \in Ctx /\ w.ctx \notin spent
      /\ w.nToWrite \in Nat /\ w.space = BlockSize - obj[w.ctx].bPos
      /\ Brings(w.data, w.dPos, w.nToWrite, msg[w.ctx], Len(msg[w.ctx]) - w.nToWrite)
      /\ w.dPos + w.nToWrite = Len(w.data)
      /\ Took(obj[w.ctx], msg[w.ctx], over[w.ctx], Len(msg[w.ctx]) - w.nToWrite)
  BY <1>1 DEF InCall
<1>3. w.dPos \in Nat
  BY <1>2 DEF Brings
<1>4. Len(msg[w.ctx]) - w.nToWrite \in Nat /\ Len(msg[w.ctx]) \in Nat
  BY <1>2, TookFields
<1>5. \A c \in Ctx \ spent : c # w.ctx => AtRest(c)
  BY <1>2 DEF IInv
<1> QED BY <1>1, <1>2, <1>3, <1>4, <1>5

\* The write() of w ends with the object o, which holds all of its message
LEMMA CallEnds ==
  ASSUME BlakeSizes, IInv, NEW w \in call, NEW o,
         Took(o, msg[w.ctx], over[w.ctx], Len(msg[w.ctx])),
         obj' = [obj EXCEPT ![w.ctx] = o],
         call' = {},
         UNCHANGED <<msg, spent, over, out>>
  PROVE  IInv'
<1>1. /\ obj \in [Ctx -> Obj] /\ w.ctx \in Ctx
      /\ \A c \in Ctx \ spent : c # w.ctx => AtRest(c)
  BY CallFacts DEF IInv
<1>2. o \in Obj
  BY DEF Took
<1>3. obj' \in [Ctx -> Obj]
  BY <1>1, <1>2
<1>4. obj'[w.ctx] = o /\ \A c \in Ctx : c # w.ctx => obj'[c] = obj[c]
  BY <1>1
<1>5. \A c \in Ctx \ spent' : AtRest(c)'
  <2> TAKE c \in Ctx \ spent'
  <2>1. CASE c = w.ctx
    BY <1>4, <2>1 DEF AtRest
  <2>2. CASE c # w.ctx
    BY <1>1, <1>4, <2>2 DEF AtRest
  <2> QED BY <2>1, <2>2
<1> QED BY <1>3, <1>5 DEF IInv

LEMMA WriteEndKeeps ==
  ASSUME BlakeSizes, IInv, WriteEnd
  PROVE  IInv'
<1>1. PICK w \in call : w.nToWrite = 0
  BY DEF WriteEnd
<1>2. call' = {} /\ obj' = obj /\ UNCHANGED <<msg, spent, over, out>>
  BY DEF WriteEnd
<1>3. Took(obj[w.ctx], msg[w.ctx], over[w.ctx], Len(msg[w.ctx]))
  <2>1. Took(obj[w.ctx], msg[w.ctx], over[w.ctx], Len(msg[w.ctx]) - 0)
    BY <1>1, CallFacts
  <2>2. Len(msg[w.ctx]) - 0 = Len(msg[w.ctx])
    BY CallFacts
  <2> QED BY <2>1, <2>2, Zenon
<1>4. obj' = [obj EXCEPT ![w.ctx] = obj[w.ctx]]
  <2>1. obj \in [Ctx -> Obj]
    BY DEF IInv
  <2> QED BY <1>2, <2>1
<1> QED BY <1>2, <1>3, <1>4, CallEnds

LEMMA WriteTailKeeps ==
  ASSUME BlakeSizes, IInv, WriteTail
  PROVE  IInv'
<1>1. PICK w \in call :
        /\ w.space > w.nToWrite
        /\ obj' = [obj EXCEPT ![w.ctx] = Tailed(obj[w.ctx], w.data, w.dPos, w.nToWrite)]
  BY DEF WriteTail
<1>2. call' = {} /\ UNCHANGED <<msg, spent, over, out>>
  BY DEF WriteTail
<1> DEFINE o == obj[w.ctx]
           m == msg[w.ctx]
           n == w.nToWrite
           p == Len(m) - n
<1>3. /\ Took(o, m, over[w.ctx], p) /\ Brings(w.data, w.dPos, n, m, p)
      /\ w.space = BlockSize - o.bPos /\ n \in Nat /\ p \in Nat /\ Len(m) \in Nat
  BY CallFacts
<1>4. o.bPos \in Nat
  BY <1>3, TookFields
<1>5. o.bPos + n < BlockSize
  <2> HIDE DEF n
  <2>1. BlockSize - o.bPos > n
    BY <1>1, <1>3 DEF n
  <2> QED BY <1>3, <1>4, <2>1, BlockArith
<1>6. Took(Tailed(o, w.data, w.dPos, n), m, over[w.ctx], p + n)
  BY <1>3, <1>5, TailTook
<1>7. p + n = Len(m)
  BY <1>3
<1>8. Took(Tailed(o, w.data, w.dPos, n), m, over[w.ctx], Len(m))
  BY <1>6, <1>7
<1> QED BY <1>1, <1>2, <1>8, CallEnds, Zenon

LEMMA WriteThrowsKeeps ==
  ASSUME BlakeSizes, IInv, WriteThrows
  PROVE  IInv'
<1>1. PICK w \in call : spent' = spent \union {w.ctx}
  BY DEF WriteThrows
<1>2. call' = {} /\ UNCHANGED <<obj, msg, over, out>>
  BY DEF WriteThrows
<1>3. w.ctx \in Ctx /\ \A c \in Ctx \ spent : c # w.ctx => AtRest(c)
  BY CallFacts
<1>4. \A c \in Ctx \ spent' : AtRest(c)'
  <2> TAKE c \in Ctx \ spent'
  <2>1. c \in Ctx \ spent /\ c # w.ctx
    BY <1>1
  <2> QED BY <1>2, <1>3, <2>1 DEF AtRest
<1> QED BY <1>1, <1>2, <1>3, <1>4 DEF IInv

LEMMA WriteBlockKeeps ==
  ASSUME BlakeSizes, IInv, WriteBlock
  PROVE  IInv'
<1>1. PICK w \in call :
        /\ w.space <= w.nToWrite
        /\ obj' = [obj EXCEPT ![w.ctx] = Blocked(obj[w.ctx], w.data, w.dPos, w.space)]
        /\ over' = [over EXCEPT ![w.ctx] = @ + obj[w.ctx].bPos]
        /\ call' = {[w EXCEPT !.dPos = @ + w.space, !.nToWrite = @ - w.space,
                              !.space = BlockSize]}
  BY DEF WriteBlock
<1>2. UNCHANGED <<msg, spent, out>>
  BY DEF WriteBlock
<1>3. PICK c \in Ctx : c = w.ctx /\ c \notin spent
  BY CallFacts
<1> DEFINE o == obj[c]
           m == msg[c]
           len == w.space
           left == w.nToWrite
           p == Len(m) - left
           r == Blocked(o, w.data, w.dPos, len)
<1>4. /\ Took(o, m, over[c], p) /\ Brings(w.data, w.dPos, left, m, p)
      /\ len = BlockSize - o.bPos /\ left \in Nat /\ p \in Nat /\ Len(m) \in Nat
      /\ w.dPos \in Nat /\ w.dPos + left = Len(w.data)
      /\ \A d \in Ctx \ spent : d # c => AtRest(d)
  BY <1>3, CallFacts
<1>5. /\ o.bPos \in Nat /\ o.bPos < BlockSize /\ BlockSize \in Nat
  BY <1>4, TookFields, BlockArith
<1>6. over[c] \in Nat
  BY <1>4, TookFields
<1>7. len \in Nat /\ o.bPos + len = BlockSize /\ len <= left
  <2>1. len <= left
    BY <1>1
  <2> HIDE DEF len, left
  <2> QED BY <1>4, <1>5, <2>1
<1>8. /\ Brings(w.data, w.dPos, len, m, p)
      /\ Brings(w.data, w.dPos + len, left - len, m, p + len)
  BY <1>4, <1>7, BringsParts
<1>9. Took(r, m, over[c] + o.bPos, p + len) /\ r.bPos = 0
  <2>1. Took(o, m, over[c], p)
    BY <1>4
  <2>2. Brings(w.data, w.dPos, len, m, p)
    BY <1>8
  <2>3. o.bPos + len = BlockSize
    BY <1>7
  <2> HIDE DEF o, m, len, left, p
  <2>4. Took(Blocked(o, w.data, w.dPos, len), m, over[c] + o.bPos, p + len)
        /\ Blocked(o, w.data, w.dPos, len).bPos = 0
    BY <2>1, <2>2, <2>3, BlockTook
  <2> QED BY <2>4
<1>10. r \in Obj
  BY <1>9 DEF Took
<1> DEFINE w1 == [w EXCEPT !.dPos = @ + len, !.nToWrite = @ - len, !.space = BlockSize]
<1>11. call' = {w1} /\ obj' = [obj EXCEPT ![c] = r] /\ over' = [over EXCEPT ![c] = @ + o.bPos]
  BY <1>1, <1>3, Zenon
<1>12. /\ obj \in [Ctx -> Obj] /\ over \in [Ctx -> Nat]
  BY DEF IInv
<1>13. /\ obj'[c] = r /\ over'[c] = over[c] + o.bPos
       /\ \A d \in Ctx : d # c => obj'[d] = obj[d] /\ over'[d] = over[d]
  <2> HIDE DEF r
  <2> QED BY <1>11, <1>12
<1>14. obj' \in [Ctx -> Obj] /\ over' \in [Ctx -> Nat]
  <2> HIDE DEF r
  <2>1. over[c] + o.bPos \in Nat
    BY <1>5, <1>6
  <2> QED BY <1>10, <1>11, <1>12, <2>1
<1>15. /\ w1 \in Writing /\ w1.ctx = c /\ w1.data = w.data /\ w1.dPos = w.dPos + len
       /\ w1.nToWrite = left - len /\ w1.space = BlockSize
  <2>1. w \in Writing
    BY CallFacts
  <2>2. w.dPos + len \in Nat /\ left - len \in Nat
    <3> HIDE DEF len, left
    <3> QED BY <1>4, <1>7
  <2> DEFINE d1 == w.dPos + len
             n1 == left - len
  <2>3. w1 = [w EXCEPT !.dPos = d1, !.nToWrite = n1, !.space = BlockSize]
    BY <2>1 DEF Writing
  <2>4. d1 \in Nat /\ n1 \in Nat
    BY <2>2
  <2> HIDE DEF d1, n1, w1
  <2>5. /\ w1 \in Writing /\ w1.ctx = w.ctx /\ w1.data = w.data /\ w1.dPos = d1
        /\ w1.nToWrite = n1 /\ w1.space = BlockSize
    BY <1>5, <2>1, <2>3, <2>4 DEF Writing
  <2> QED BY <1>3, <2>5, Zenon DEF d1, n1
<1>16. /\ Len(m) - (left - len) = p + len
       /\ (w.dPos + len) + (left - len) = Len(w.data)
       /\ left - len \in Nat /\ BlockSize - 0 = BlockSize
  <2> DEFINE q == Len(m)
  <2>1. /\ q \in Nat /\ left \in Nat /\ len \in Nat /\ w.dPos \in Nat
        /\ w.dPos + left = Len(w.data) /\ len <= left
    BY <1>4, <1>7
  <2> HIDE DEF len, left, q
  <2>2. q - (left - len) = (q - left) + len
    BY <2>1
  <2>3. (w.dPos + len) + (left - len) = w.dPos + left
    BY <2>1
  <2>4. left - len \in Nat /\ BlockSize - 0 = BlockSize
    BY <1>5, <2>1
  <2> QED BY <2>1, <2>2, <2>3, <2>4, Zenon DEF q
<1> HIDE DEF r, w1
<1>17. \A v \in call' : InCall(v)'
  <2> TAKE v \in call'
  <2>1. v = w1 /\ call' = {v}
    BY <1>11
  <2>2. /\ v \in Writing /\ v.ctx = c /\ v.data = w.data /\ v.dPos = w.dPos + len
        /\ v.nToWrite = left - len /\ v.space = BlockSize
    BY <1>15, <2>1
  <2>3. msg'[c] = m /\ spent' = spent /\ c \in Ctx \ spent
    BY <1>2, <1>3
  <2>4. v.space = BlockSize - obj'[c].bPos
    BY <1>9, <1>13, <1>16, <2>2, Zenon
  <2>5. Brings(v.data, v.dPos, v.nToWrite, msg'[c], Len(msg'[c]) - v.nToWrite)
    BY <1>8, <1>16, <2>2, <2>3, Zenon
  <2>6. v.dPos + v.nToWrite = Len(v.data) /\ v.nToWrite \in Nat
    BY <1>16, <2>2, Zenon
  <2>7. Took(obj'[c], msg'[c], over'[c], Len(msg'[c]) - v.nToWrite)
    BY <1>9, <1>13, <1>16, <2>2, <2>3, Zenon
  <2>8. v.ctx \in Ctx \ spent'
    BY <2>2, <2>3
  <2> QED BY <2>1, <2>2, <2>4, <2>5, <2>6, <2>7, <2>8, Zenon DEF InCall
<1>18. \A d \in Ctx \ spent' : (\A v \in call' : v.ctx # d) => AtRest(d)'
  <2> TAKE d \in Ctx \ spent'
  <2> HAVE \A v \in call' : v.ctx # d
  <2>1. d # c /\ d \in Ctx \ spent
    BY <1>2, <1>11, <1>15
  <2>2. AtRest(d)
    BY <1>4, <2>1
  <2> QED BY <1>2, <1>13, <2>1, <2>2, Zenon DEF AtRest
<1> QED BY <1>2, <1>14, <1>17, <1>18 DEF IInv

\* Both sums return the padded message, when the count has not drifted
LEMMA ReturnedRight ==
  ASSUME BlakeSizes, NEW c, AtRest(c), out' = Returned(c)
  PROVE  \A r \in out' : r.over = 0 => r.digest = Padded(r.msg)
<1> TAKE r \in out'
<1> HAVE r.over = 0
<1>1. r.msg = msg[c] /\ r.over = over[c] /\ r.digest = Final(obj[c]).chain
  BY DEF Returned
<1>2. Took(obj[c], msg[c], 0, Len(msg[c]))
  BY <1>1, Zenon DEF AtRest
<1> QED BY <1>1, <1>2, FinalRight

LEMMA SumKeeps ==
  ASSUME BlakeSizes, IInv, NEW c \in Ctx, Sum(c)
  PROVE  IInv'
<1>1. AtRest(c) /\ out' = Returned(c) /\ UNCHANGED <<obj, call, msg, spent, over>>
  BY IdleRest DEF Sum
<1>2. \A r \in out' : r.over = 0 => r.digest = Padded(r.msg)
  BY <1>1, ReturnedRight
<1>3. \A w \in call' : InCall(w)'
  BY <1>1 DEF IInv, InCall
<1>4. \A d \in Ctx \ spent' : (\A w \in call' : w.ctx # d) => AtRest(d)'
  BY <1>1 DEF IInv, AtRest
<1> QED BY <1>1, <1>2, <1>3, <1>4 DEF IInv

LEMMA SumInKeeps ==
  ASSUME BlakeSizes, IInv, NEW c \in Ctx, SumIn(c)
  PROVE  IInv'
<1>1. /\ AtRest(c) /\ out' = Returned(c) /\ call' = {} /\ UNCHANGED <<msg, over>>
      /\ obj' = [obj EXCEPT ![c] = Final(obj[c])] /\ spent' = spent \union {c}
  BY IdleRest DEF SumIn, Idle
<1>2. \A r \in out' : r.over = 0 => r.digest = Padded(r.msg)
  BY <1>1, ReturnedRight
<1>3. obj \in [Ctx -> Obj] /\ Final(obj[c]) \in Obj
  BY FinalType DEF IInv
<1>4. obj' \in [Ctx -> Obj] /\ \A d \in Ctx : d # c => obj'[d] = obj[d]
  BY <1>1, <1>3
<1>5. \A d \in Ctx \ spent' : AtRest(d)'
  <2> TAKE d \in Ctx \ spent'
  <2>1. d # c /\ d \in Ctx \ spent
    BY <1>1
  <2>2. AtRest(d)
    BY <2>1, IdleRest DEF SumIn
  <2> QED BY <1>1, <1>4, <2>1, <2>2 DEF AtRest
<1> QED BY <1>1, <1>2, <1>4, <1>5 DEF IInv

LEMMA BecomesKeeps ==
  ASSUME BlakeSizes, IInv, NEW d \in Ctx, NEW o, NEW m, NEW n,
         Took(o, m, n, Len(m)), Len(m) <= MaxLen, Becomes(d, o, m, n)
  PROVE  IInv'
<1>1. /\ call' = {} /\ out' = {}
      /\ obj' = [obj EXCEPT ![d] = o] /\ msg' = [msg EXCEPT ![d] = m]
      /\ over' = [over EXCEPT ![d] = n] /\ spent' = spent \ {d}
  BY DEF Becomes, Idle
<1>2. /\ obj \in [Ctx -> Obj] /\ msg \in [Ctx -> Seq(ByteVal)] /\ over \in [Ctx -> Nat]
      /\ spent \subseteq Ctx /\ \A c \in Ctx : Len(msg[c]) <= MaxLen
  BY DEF IInv
<1>3. o \in Obj /\ m \in Seq(ByteVal) /\ n \in Nat
  BY TookFields
<1>4. obj' \in [Ctx -> Obj] /\ msg' \in [Ctx -> Seq(ByteVal)] /\ over' \in [Ctx -> Nat]
  BY <1>1, <1>2, <1>3
<1>5. /\ obj'[d] = o /\ msg'[d] = m /\ over'[d] = n
      /\ \A c \in Ctx : c # d => obj'[c] = obj[c] /\ msg'[c] = msg[c] /\ over'[c] = over[c]
  BY <1>1, <1>2
<1>6. \A c \in Ctx \ spent' : AtRest(c)'
  <2> TAKE c \in Ctx \ spent'
  <2>1. CASE c = d
    BY <1>5, <2>1 DEF AtRest
  <2>2. CASE c # d
    <3>1. AtRest(c)
      BY <1>1, <2>2, IdleRest DEF Becomes
    <3> QED BY <1>5, <2>2, <3>1 DEF AtRest
  <2> QED BY <2>1, <2>2
<1>7. \A c \in Ctx : Len(msg'[c]) <= MaxLen
  BY <1>2, <1>5
<1> QED BY <1>1, <1>2, <1>4, <1>6, <1>7 DEF IInv

\* reset() keeps the bytes of the block; newEmpty() has a block of zeros
LEMMA EmptyKeeps ==
  ASSUME BlakeSizes, IInv, NEW d \in Ctx, NEW b \in Block, Becomes(d, Empty(b), <<>>, 0)
  PROVE  IInv'
<1>1. Len(<<>>) = 0 /\ 0 <= MaxLen
  BY DEF BlakeSizes
<1>2. Took(Empty(b), <<>>, 0, Len(<<>>))
  BY <1>1, EmptyTook
<1> QED BY <1>1, <1>2, BecomesKeeps

LEMMA NextKeeps == ASSUME BlakeSizes, IInv, [Next]_vars PROVE IInv'
<1>1. CASE UNCHANGED vars
  <2>1. \A w \in call' : InCall(w)'
    BY <1>1 DEF IInv, InCall, vars
  <2>2. \A d \in Ctx \ spent' : (\A w \in call' : w.ctx # d) => AtRest(d)'
    BY <1>1 DEF IInv, AtRest, vars
  <2> QED BY <1>1, <2>1, <2>2 DEF IInv, vars
<1>2. CASE WriteEnd
  BY <1>2, WriteEndKeeps
<1>3. CASE WriteTail
  BY <1>3, WriteTailKeeps
<1>4. CASE WriteBlock
  BY <1>4, WriteBlockKeeps
<1>5. CASE WriteThrows
  BY <1>5, WriteThrowsKeeps
<1>6. ASSUME NEW c \in Ctx, NEW data \in Data, WriteBegin(c, data) PROVE IInv'
  BY <1>6, WriteBeginKeeps
<1>7. ASSUME NEW c \in Ctx, Sum(c) PROVE IInv'
  BY <1>7, SumKeeps
<1>8. ASSUME NEW c \in Ctx, SumIn(c) PROVE IInv'
  BY <1>8, SumInKeeps
<1>9. ASSUME NEW c \in Ctx, Reset(c) PROVE IInv'
  <2>1. obj[c].block \in Block
    BY DEF IInv, Obj
  <2> QED BY <1>9, <2>1, EmptyKeeps DEF Reset
<1>10. ASSUME NEW c \in Ctx, NEW d \in Ctx, Clone(c, d) PROVE IInv'
  <2>1. AtRest(c) /\ Becomes(d, obj[c], msg[c], over[c])
    BY <1>10, IdleRest DEF Clone, Becomes
  <2>2. Len(msg[c]) <= MaxLen
    BY DEF IInv
  <2> QED BY <2>1, <2>2, BecomesKeeps DEF AtRest
<1>11. ASSUME NEW c \in Ctx, NEW d \in Ctx, NewEmpty(c, d) PROVE IInv'
  BY <1>11, ZeroBlockType, EmptyKeeps DEF NewEmpty
<1> QED
  BY <1>1, <1>2, <1>3, <1>4, <1>5, <1>6, <1>7, <1>8, <1>9, <1>10, <1>11 DEF Next

LEMMA Inductive == ASSUME BlakeSizes PROVE Spec => []IInv
<1>1. Init => IInv
  BY InitHolds
<1>2. IInv /\ [Next]_vars => IInv'
  BY NextKeeps
<1> QED BY <1>1, <1>2, PTL DEF Spec

-----------------------------------------------------------------------------
(* The theorems. *)

LEMMA InvImpliesType == ASSUME BlakeSizes, IInv PROVE TypeOK
<1>1. ASSUME NEW w \in call
      PROVE  w.ctx \in Ctx \ spent /\ w.nToWrite \in 0..MaxLen /\ w.space \in 1..BlockSize
  <2> DEFINE c == w.ctx
             n == w.nToWrite
  <2>1. /\ c \in Ctx \ spent /\ n \in Nat /\ Len(msg[c]) - n \in Nat /\ Len(msg[c]) \in Nat
        /\ w.space = BlockSize - obj[c].bPos
        /\ Took(obj[c], msg[c], over[c], Len(msg[c]) - n)
    BY CallFacts
  <2>2. Len(msg[c]) <= MaxLen /\ MaxLen \in Nat
    BY <2>1 DEF IInv, BlakeSizes
  <2>3. obj[c].bPos \in Nat /\ obj[c].bPos < BlockSize /\ BlockSize \in Nat
    BY <2>1, TookFields, BlockArith
  <2>4. BlockSize - obj[c].bPos \in 1..BlockSize
    BY <2>3
  <2>5. n \in 0..MaxLen
    <3> HIDE DEF n, c
    <3>1. n <= Len(msg[c])
      BY <2>1
    <3> QED BY <2>1, <2>2, <3>1
  <2> QED BY <2>1, <2>4, <2>5
<1> QED BY <1>1 DEF IInv, TypeOK

LEMMA InvImpliesDrift == ASSUME BlakeSizes, IInv PROVE CountDrift
<1> SUFFICES ASSUME NEW c \in Ctx \ spent
             PROVE  /\ \A w \in call : w.ctx = c =>
                         obj[c].ingest + w.nToWrite = Len(msg[c]) + over[c]
                    /\ (\A w \in call : w.ctx # c) => obj[c].ingest = Len(msg[c]) + over[c]
  BY DEF CountDrift
<1>1. ASSUME NEW w \in call, w.ctx = c
      PROVE  obj[c].ingest + w.nToWrite = Len(msg[c]) + over[c]
  <2> DEFINE n == w.nToWrite
             p == Len(msg[c]) - n
  <2>1. Took(obj[c], msg[c], over[c], p) /\ n \in Nat /\ p \in Nat /\ Len(msg[c]) \in Nat
    BY <1>1, CallFacts
  <2>2. obj[c].ingest = p + over[c] /\ over[c] \in Nat
    BY <2>1, TookFields
  <2>3. (p + over[c]) + n = Len(msg[c]) + over[c]
    <3> HIDE DEF n
    <3> QED BY <2>1, <2>2
  <2> QED BY <2>2, <2>3
<1>2. ASSUME \A w \in call : w.ctx # c
      PROVE  obj[c].ingest = Len(msg[c]) + over[c]
  <2>1. AtRest(c)
    BY <1>2 DEF IInv
  <2> QED BY <2>1, TookFields DEF AtRest
<1> QED BY <1>1, <1>2

LEMMA InvImpliesOrder == ASSUME BlakeSizes, IInv PROVE BlocksInOrder
<1> SUFFICES ASSUME NEW c \in Ctx \ spent
             PROVE  \A k \in 1..Len(obj[c].chain) : \A j \in Idx :
                      obj[c].chain[k].block[j] = msg[c][(k - 1) * BlockSize + j + 1]
  BY DEF BlocksInOrder
<1>1. PICK p : Took(obj[c], msg[c], over[c], p)
  <2>1. CASE \A w \in call : w.ctx # c
    BY <2>1 DEF IInv, AtRest
  <2>2. CASE \E w \in call : w.ctx = c
    BY <2>2, CallFacts
  <2> QED BY <2>1, <2>2
<1> QED BY <1>1, Zenon DEF Took

\* Every field has its type, and a write() works on a live object, inside its block and
\* its data.
THEOREM TypeCorrect == ASSUME BlakeSizes PROVE Spec => []TypeOK
<1>1. IInv => TypeOK
  BY InvImpliesType
<1> QED BY <1>1, Inductive, PTL

\* The count of Blake1 is too high by the bytes that lay in a block when a later write()
\* completed it, and by no others.
THEOREM DriftIsExact == ASSUME BlakeSizes PROVE Spec => []CountDrift
<1>1. IInv => CountDrift
  BY InvImpliesDrift
<1> QED BY <1>1, Inductive, PTL

\* However the message came, the blocks that go through hash() are its blocks, in order.
THEOREM BlocksAlwaysInOrder == ASSUME BlakeSizes PROVE Spec => []BlocksInOrder
<1>1. IInv => BlocksInOrder
  BY InvImpliesOrder
<1> QED BY <1>1, Inductive, PTL

\* sum() and sumIn() return the digest of the padded message whenever no write() completed
\* a block that an earlier one had begun.
THEOREM RightUnlessDrifted == ASSUME BlakeSizes PROVE Spec => []DigestRightUnlessDrifted
<1>1. IInv => DigestRightUnlessDrifted
  BY DEF IInv, DigestRightUnlessDrifted
<1> QED BY <1>1, Inductive, PTL

\* All of it together: Blake1 keeps the blocks of a message in order, and its count and its
\* digest are right but for that drift.
THEOREM BlakeAlwaysRight == ASSUME BlakeSizes PROVE Spec => []BlakeRight
<1>1. IInv => BlakeRight
  BY InvImpliesType, InvImpliesDrift, InvImpliesOrder
  DEF BlakeRight, IInv, DigestRightUnlessDrifted
<1> QED BY <1>1, Inductive, PTL

=============================================================================
