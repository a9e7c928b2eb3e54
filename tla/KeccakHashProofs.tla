-------------------------- MODULE KeccakHashProofs --------------------------
(***************************************************************************)
(* Proofs about the sponge of KeccakHash, for every rate, every suffix but *)
(* zero, every set of data and every bound on the message: padding keeps   *)
(* messages apart, and the class is an IHash.                              *)
(***************************************************************************)
EXTENDS KeccakHash, TLAPS

-----------------------------------------------------------------------------
(* Arithmetic of blocks: the prover's only facts about products. *)

LEMMA BlockArith == BlockSize \in Nat /\ BlockSize > 0 /\ 0 \in Idx /\ BlockSize - 1 \in Idx
BY SpongeAssumption DEF Idx

LEMMA MulSucc ==
  ASSUME NEW n \in Nat
  PROVE  /\ n * BlockSize \in Nat
         /\ (n + 1) * BlockSize = n * BlockSize + BlockSize
BY BlockArith

LEMMA MulMono ==
  ASSUME NEW a \in Nat, NEW b \in Nat, a < b
  PROVE  a * BlockSize + BlockSize <= b * BlockSize
<1>1. PICK k \in Nat : b = a + 1 + k
  <2>1. b - a - 1 \in Nat /\ b = a + 1 + (b - a - 1)
    OBVIOUS
  <2> QED BY <2>1
<1>2. b * BlockSize = a * BlockSize + BlockSize + k * BlockSize
  BY <1>1, BlockArith
<1>3. k * BlockSize \in Nat /\ a * BlockSize \in Nat
  BY MulSucc
<1> QED BY <1>2, <1>3, BlockArith

LEMMA DivBounds ==
  ASSUME NEW x \in Nat
  PROVE  /\ x \div BlockSize \in Nat
         /\ (x \div BlockSize) * BlockSize <= x
         /\ x < (x \div BlockSize) * BlockSize + BlockSize
<1> DEFINE d == x \div BlockSize
<1>1. d \in Nat /\ BlockSize * d <= x /\ x < BlockSize * d + BlockSize
  BY BlockArith
<1>2. d * BlockSize = BlockSize * d
  BY <1>1, BlockArith
<1> HIDE DEF d
<1> QED BY <1>1, <1>2 DEF d

LEMMA DivUnique ==
  ASSUME NEW q \in Nat, NEW r \in Nat, r < BlockSize
  PROVE  (q * BlockSize + r) \div BlockSize = q
<1> DEFINE x == q * BlockSize + r
           d == x \div BlockSize
<1>1. q * BlockSize \in Nat /\ x \in Nat
  BY MulSucc
<1>2. d \in Nat /\ d * BlockSize <= x /\ x < d * BlockSize + BlockSize
  BY <1>1, DivBounds
<1>3. d * BlockSize \in Nat
  BY <1>2, MulSucc
<1> HIDE DEF d
<1> DEFINE y == q * BlockSize
           z == d * BlockSize
<1>4. y \in Nat /\ z \in Nat /\ z <= y + r /\ y + r < z + BlockSize
  BY <1>1, <1>2, <1>3
<1>5. (d < q => z + BlockSize <= y) /\ (q < d => y + BlockSize <= z)
  BY <1>2, MulMono
<1> HIDE DEF y, z
<1>6. d = q
  BY <1>2, <1>4, <1>5, BlockArith
<1> QED BY <1>6 DEF d

-----------------------------------------------------------------------------
(* What the sponge holds. *)

\* o took in the first n bytes of m: whole blocks in the chain, and the rest in the block,
\* which is zero past it
Good(o, m, n) ==
  /\ o \in Obj
  /\ n = Len(o.chain) * BlockSize + o.bPos
  /\ \A k \in 1..Len(o.chain) : \A j \in Idx : o.chain[k][j] = m[(k - 1) * BlockSize + j + 1]
  /\ \A j \in Idx : o.block[j] = IF j < o.bPos THEN m[Len(o.chain) * BlockSize + j + 1] ELSE {}

\* How much of the message of w.ctx the write() in progress took in
Taken(w) == Len(msg[w.ctx]) - Len(w.data) + w.i

IInv ==
  /\ obj \in [Ctx -> Obj]
  /\ msg \in [Ctx -> Seq(Byte)]
  /\ spent \subseteq Ctx
  /\ call \subseteq [ctx : Ctx, data : Data, i : Nat]
  /\ \A v, w \in call : v = w
  /\ \A w \in call :
       /\ w.ctx \in Ctx \ spent /\ w.data \in Data /\ w.i \in 0..Len(w.data)
       /\ Len(w.data) <= Len(msg[w.ctx])
       /\ \A j \in 1..Len(w.data) :
            w.data[j] = msg[w.ctx][Len(msg[w.ctx]) - Len(w.data) + j]
       /\ Good(obj[w.ctx], msg[w.ctx], Taken(w))
  /\ \A c \in Ctx \ spent : (\A w \in call : w.ctx # c) => Good(obj[c], msg[c], Len(msg[c]))

LEMMA XorType ==
  ASSUME NEW x \in Byte, NEW y \in Byte
  PROVE  Xor(x, y) \in Byte /\ Xor({}, x) = x /\ Xor(x, {}) = x
  BY DEF Xor, Byte

LEMMA EmptyGood == ASSUME NEW m PROVE Good(Empty, m, 0) /\ Empty \in Obj
<1>1. ZeroBlock \in [Idx -> Byte]
  BY DEF ZeroBlock, Byte
<1>2. Empty \in Obj
  BY <1>1, BlockArith DEF Empty, Obj
<1>3. Empty.chain = <<>> /\ Len(Empty.chain) = 0 /\ Empty.bPos = 0 /\ Empty.block = ZeroBlock
  BY DEF Empty
<1>4. 0 * BlockSize = 0
  BY BlockArith
<1>5. \A j \in Idx : ~(j < 0)
  BY BlockArith DEF Idx
<1> QED BY <1>2, <1>3, <1>4, <1>5 DEF Good, ZeroBlock

LEMMA Fields ==
  ASSUME NEW o \in Obj
  PROVE  /\ o.chain \in Seq([Idx -> Byte]) /\ Len(o.chain) \in Nat
         /\ o.block \in [Idx -> Byte]
         /\ o.bPos \in Idx /\ o.bPos \in Nat /\ o.bPos < BlockSize
         /\ Len(o.chain) * BlockSize \in Nat
         /\ o = [chain |-> o.chain, block |-> o.block, bPos |-> o.bPos]
<1>1. o.chain \in Seq([Idx -> Byte]) /\ o.block \in [Idx -> Byte] /\ o.bPos \in Idx
      /\ o = [chain |-> o.chain, block |-> o.block, bPos |-> o.bPos]
  BY DEF Obj
<1>2. Len(o.chain) \in Nat /\ o.bPos \in Nat /\ o.bPos < BlockSize
  BY <1>1, BlockArith DEF Idx
<1> QED BY <1>1, <1>2, MulSucc

-----------------------------------------------------------------------------
(* write(): each byte goes where it belongs. *)

LEMMA AbsorbFields ==
  ASSUME NEW o \in Obj, NEW b \in Byte
  PROVE  LET blk == [o.block EXCEPT ![o.bPos] = Xor(o.block[o.bPos], b)]
         IN  Absorb(o, b) =
               IF o.bPos + 1 = BlockSize
               THEN [chain |-> Append(o.chain, blk), block |-> ZeroBlock, bPos |-> 0]
               ELSE [chain |-> o.chain, block |-> blk, bPos |-> o.bPos + 1]
<1> DEFINE blk == [o.block EXCEPT ![o.bPos] = Xor(o.block[o.bPos], b)]
           p == [o EXCEPT !.block[o.bPos] = Xor(@, b), !.bPos = @ + 1]
<1> DEFINE q == [f \in {"chain", "block", "bPos"} |->
                    IF f = "chain" THEN o.chain ELSE IF f = "block" THEN blk ELSE o.bPos + 1]
<1>a. o = [chain |-> o.chain, block |-> o.block, bPos |-> o.bPos]
  BY Fields
<1>b. p = q
  BY <1>a
<1>c. q = [chain |-> o.chain, block |-> blk, bPos |-> o.bPos + 1]
  OBVIOUS
<1>1. p = [chain |-> o.chain, block |-> blk, bPos |-> o.bPos + 1]
  BY <1>b, <1>c
<1>2. Absorb(o, b) = IF p.bPos = BlockSize THEN Hash(p) ELSE p
  BY DEF Absorb
<1> HIDE DEF p, blk
<1>3. p.bPos = o.bPos + 1 /\ p.chain = o.chain /\ p.block = blk
  BY <1>1
<1> QED BY <1>1, <1>2, <1>3 DEF Hash, blk

LEMMA AbsorbGood ==
  ASSUME NEW o, NEW m, NEW n, Good(o, m, n), n \in Nat, m[n + 1] \in Byte
  PROVE  Good(Absorb(o, m[n + 1]), m, n + 1)
<1> DEFINE b == m[n + 1]
           blk == [o.block EXCEPT ![o.bPos] = Xor(o.block[o.bPos], b)]
           q == Len(o.chain)
           base == q * BlockSize
<1>1. o \in Obj /\ n = base + o.bPos
  BY DEF Good
<1>2. /\ o.chain \in Seq([Idx -> Byte]) /\ q \in Nat /\ base \in Nat
      /\ o.block \in [Idx -> Byte] /\ o.bPos \in Idx /\ o.bPos \in Nat /\ o.bPos < BlockSize
  BY <1>1, Fields
<1>3. o.block[o.bPos] = {} /\ Xor(o.block[o.bPos], b) = b
  BY <1>2, XorType DEF Good
<1>4. blk \in [Idx -> Byte] /\ \A j \in Idx : blk[j] = IF j = o.bPos THEN b ELSE o.block[j]
  BY <1>2, <1>3
<1>5. \A j \in Idx : j < o.bPos + 1 => blk[j] = m[base + j + 1]
  <2> SUFFICES ASSUME NEW j \in Idx, j < o.bPos + 1
               PROVE  blk[j] = m[base + j + 1]
    OBVIOUS
  <2>1. j \in Nat /\ (j < o.bPos \/ j = o.bPos)
    BY <1>2, BlockArith DEF Idx
  <2> QED BY <1>1, <1>2, <1>4, <2>1 DEF Good
<1>6. \A j \in Idx : ~(j < o.bPos + 1) => blk[j] = {}
  <2> SUFFICES ASSUME NEW j \in Idx, ~(j < o.bPos + 1)
               PROVE  blk[j] = {}
    OBVIOUS
  <2>1. j # o.bPos /\ ~(j < o.bPos)
    BY <1>2, BlockArith DEF Idx
  <2> QED BY <1>4, <2>1 DEF Good
<1>7. CASE o.bPos + 1 = BlockSize
  <2> DEFINE r == [chain |-> Append(o.chain, blk), block |-> ZeroBlock, bPos |-> 0]
  <2>1. Absorb(o, b) = r
    BY <1>1, <1>7, AbsorbFields
  <2>2. Append(o.chain, blk) \in Seq([Idx -> Byte]) /\ Len(Append(o.chain, blk)) = q + 1
    BY <1>2, <1>4
  <2>3. ZeroBlock \in [Idx -> Byte]
    BY DEF ZeroBlock, Byte
  <2>4. r \in Obj
    BY <2>2, <2>3, BlockArith DEF Obj
  <2>5. n + 1 = Len(r.chain) * BlockSize + r.bPos
    BY <1>1, <1>2, <1>7, <2>2, MulSucc, BlockArith, SMTT(30)
  <2>6. ASSUME NEW k \in 1..Len(r.chain), NEW j \in Idx
        PROVE  r.chain[k][j] = m[(k - 1) * BlockSize + j + 1]
    <3>1. CASE k \in 1..q
      <4>1. r.chain[k] = o.chain[k]
        BY <1>2, <1>4, <3>1
      <4> QED BY <3>1, <4>1 DEF Good
    <3>2. CASE k = q + 1
      <4>1. r.chain[k] = blk /\ k - 1 = q
        BY <1>2, <1>4, <3>2
      <4>2. j < o.bPos + 1
        BY <1>7, BlockArith DEF Idx
      <4> QED BY <1>5, <4>1, <4>2
    <3> QED BY <1>2, <2>2, <3>1, <3>2
  <2>7. \A j \in Idx : r.block[j] = {} /\ ~(j < r.bPos)
    BY BlockArith DEF ZeroBlock, Idx
  <2> HIDE DEF r
  <2>8. Good(r, m, n + 1)
    BY <2>4, <2>5, <2>6, <2>7 DEF Good
  <2> QED BY <2>1, <2>8
<1>8. CASE o.bPos + 1 # BlockSize
  <2> DEFINE r == [chain |-> o.chain, block |-> blk, bPos |-> o.bPos + 1]
  <2>1. Absorb(o, b) = r
    BY <1>1, <1>8, AbsorbFields
  <2>2. o.bPos + 1 \in Idx
    BY <1>2, <1>8, BlockArith DEF Idx
  <2>3. r \in Obj
    BY <1>2, <1>4, <2>2 DEF Obj
  <2>4. n + 1 = Len(r.chain) * BlockSize + r.bPos
    BY <1>1, <1>2
  <2>5. r.chain = o.chain /\ r.block = blk /\ r.bPos = o.bPos + 1
    OBVIOUS
  <2>6. \A k \in 1..Len(o.chain) : \A j \in Idx : o.chain[k][j] = m[(k - 1) * BlockSize + j + 1]
    BY DEF Good
  <2> HIDE DEF r, blk
  <2>7. Good(r, m, n + 1)
    BY <1>5, <1>6, <2>3, <2>4, <2>5, <2>6, ZenonT(30) DEF Good
  <2> QED BY <2>1, <2>7
<1> QED BY <1>7, <1>8
-----------------------------------------------------------------------------
(* sumIn(): what it permutes is the padded message. *)

LEMMA SuffixedFields ==
  ASSUME NEW o \in Obj
  PROVE  LET blk == [o.block EXCEPT ![o.bPos] = Xor(o.block[o.bPos], Suffix)]
         IN  Suffixed(o) = [chain |-> o.chain,
                            block |-> [blk EXCEPT ![BlockSize - 1] = Xor(blk[BlockSize - 1], TopBit)],
                            bPos |-> o.bPos]
<1> DEFINE blk == [o.block EXCEPT ![o.bPos] = Xor(o.block[o.bPos], Suffix)]
           last == [blk EXCEPT ![BlockSize - 1] = Xor(blk[BlockSize - 1], TopBit)]
           p == [o EXCEPT !.block[o.bPos] = Xor(@, Suffix)]
           r == [p EXCEPT !.block[BlockSize - 1] = Xor(@, TopBit)]
           Rec(x) == [f \in {"chain", "block", "bPos"} |->
                        IF f = "chain" THEN o.chain ELSE IF f = "block" THEN x ELSE o.bPos]
<1>1. o = [chain |-> o.chain, block |-> o.block, bPos |-> o.bPos]
  BY Fields
<1>2. p = Rec(blk)
  BY <1>1
<1>3. p = [chain |-> o.chain, block |-> blk, bPos |-> o.bPos]
  BY <1>2
<1>4. Suffixed(o) = r
  BY DEF Suffixed
<1> HIDE DEF p, blk
<1>5. r = Rec(last)
  BY <1>3
<1>6. r = [chain |-> o.chain, block |-> last, bPos |-> o.bPos]
  BY <1>5
<1> QED BY <1>4, <1>6 DEF blk

LEMMA FinalFields ==
  ASSUME NEW o \in Obj
  PROVE  /\ Final(o).chain = Append(o.chain, Suffixed(o).block) \o Squeezed
         /\ Final(o) = [chain |-> Final(o).chain, block |-> ZeroBlock, bPos |-> 0]
         /\ Suffixed(o).block \in [Idx -> Byte]
<1> DEFINE blk == [o.block EXCEPT ![o.bPos] = Xor(o.block[o.bPos], Suffix)]
           last == [blk EXCEPT ![BlockSize - 1] = Xor(blk[BlockSize - 1], TopBit)]
           h == Hash(Suffixed(o))
           r == [h EXCEPT !.chain = @ \o Squeezed]
           ch == Append(o.chain, last)
           cs == ch \o Squeezed
           Rec(x) == [f \in {"chain", "block", "bPos"} |->
                        IF f = "chain" THEN x ELSE IF f = "block" THEN ZeroBlock ELSE 0]
<1>0. Suffix \in Byte /\ TopBit \in Byte
  BY SpongeAssumption DEF TopBit, Byte, Bit
<1>1. blk \in [Idx -> Byte]
  <2>1. Xor(o.block[o.bPos], Suffix) \in Byte
    BY <1>0, Fields, XorType
  <2> QED BY <2>1, Fields
<1>2. last \in [Idx -> Byte]
  <2> HIDE DEF blk
  <2>1. Xor(blk[BlockSize - 1], TopBit) \in Byte
    BY <1>0, <1>1, BlockArith, XorType
  <2> QED BY <1>1, <2>1
<1> HIDE DEF blk
<1>3. Suffixed(o) = [chain |-> o.chain, block |-> last, bPos |-> o.bPos]
  BY SuffixedFields DEF blk
<1> HIDE DEF last
<1>4. h = [chain |-> ch, block |-> ZeroBlock, bPos |-> 0] /\ Suffixed(o).block = last
  BY <1>3 DEF Hash
<1>5. Final(o) = r
  BY DEF Final
<1> HIDE DEF h, ch
<1>6. r = Rec(cs)
  BY <1>4, SMTT(30)
<1> HIDE DEF r, cs
<1>7. r = [chain |-> cs, block |-> ZeroBlock, bPos |-> 0]
  BY <1>6
<1> QED BY <1>2, <1>4, <1>5, <1>7 DEF ch, cs

LEMMA SqueezedType == Squeezed \in Seq([Idx -> Byte]) /\ ZeroBlock \in [Idx -> Byte]
<1>1. Squeezes \in Nat /\ ZeroBlock \in [Idx -> Byte]
  BY SpongeAssumption DEF ZeroBlock, Byte
<1>2. Squeezed \in [1..Squeezes -> [Idx -> Byte]]
  BY <1>1 DEF Squeezed
<1> QED BY <1>1, <1>2

\* Padded without the blocks that are squeezed out
Blocks(m) ==
  [k \in 1..NBlocks(Len(m)) |->
     [j \in Idx |-> PadByte(m, NBlocks(Len(m)) * BlockSize, (k - 1) * BlockSize + j)]]

LEMMA PaddedBlocks == ASSUME NEW m PROVE Padded(m) = Blocks(m) \o Squeezed
BY DEF Padded, Blocks

LEMMA LastBlock ==
  ASSUME NEW m \in Seq(Byte), NEW o, Good(o, m, Len(m)), NEW j \in Idx
  PROVE  Suffixed(o).block[j] =
           PadByte(m, (Len(o.chain) + 1) * BlockSize, Len(o.chain) * BlockSize + j)
<1> DEFINE blk == [o.block EXCEPT ![o.bPos] = Xor(o.block[o.bPos], Suffix)]
           last == [blk EXCEPT ![BlockSize - 1] = Xor(blk[BlockSize - 1], TopBit)]
           base == Len(o.chain) * BlockSize
           total == (Len(o.chain) + 1) * BlockSize
<1>1. o \in Obj /\ Len(m) = base + o.bPos
  BY DEF Good
<1>2. /\ o.block \in [Idx -> Byte] /\ o.bPos \in Idx /\ o.bPos \in Nat /\ o.bPos < BlockSize
      /\ base \in Nat /\ total = base + BlockSize
  BY <1>1, Fields, MulSucc
<1>3. j \in Nat /\ j < BlockSize
  BY BlockArith DEF Idx
<1>4. Suffix \in Byte /\ TopBit \in Byte
  BY SpongeAssumption DEF TopBit, Byte, Bit
<1>5. Suffixed(o).block = last
  <2> HIDE DEF blk
  <2>1. Suffixed(o) = [chain |-> o.chain, block |-> last, bPos |-> o.bPos]
    BY <1>1, SuffixedFields DEF blk
  <2> HIDE DEF last
  <2> QED BY <2>1
<1>6. blk \in [Idx -> Byte] /\ blk[j] = IF j < o.bPos THEN m[base + j + 1]
                                        ELSE IF j = o.bPos THEN Suffix ELSE {}
  <2>1. o.block[o.bPos] = {}
    BY <1>2 DEF Good
  <2>2. Xor(o.block[o.bPos], Suffix) = Suffix
    BY <1>4, <2>1, XorType
  <2>3. o.block[j] = IF j < o.bPos THEN m[base + j + 1] ELSE {}
    BY DEF Good
  <2> QED BY <1>2, <1>3, <1>4, <2>2, <2>3
<1> HIDE DEF blk
<1>7. last[j] = IF j = BlockSize - 1 THEN Xor(blk[j], TopBit) ELSE blk[j]
  BY <1>6, BlockArith
<1> HIDE DEF last
<1> DEFINE i == base + j
<1>a. Len(m) = base + o.bPos /\ o.bPos \in Nat
  BY <1>1, <1>2
<1> HIDE DEF base, total
<1>8. /\ i < Len(m) <=> j < o.bPos
      /\ i = Len(m) <=> j = o.bPos
      /\ i = total - 1 <=> j = BlockSize - 1
  BY <1>a, <1>2, <1>3, BlockArith
<1>9. CASE j < o.bPos
  <2>1. j # BlockSize - 1 /\ i < Len(m)
    BY <1>2, <1>3, <1>8, <1>9, BlockArith
  <2>2. last[j] = m[i + 1]
    BY <1>6, <1>7, <1>9, <2>1
  <2>3. PadByte(m, total, i) = m[i + 1]
    BY <2>1 DEF PadByte
  <2> QED BY <1>5, <2>2, <2>3 DEF base, total
<1>10. CASE ~(j < o.bPos)
  <2> DEFINE x == IF j = o.bPos THEN Suffix ELSE {}
             y == IF j = BlockSize - 1 THEN TopBit ELSE {}
  <2>1. x \in Byte /\ y \in Byte /\ blk[j] = x
    BY <1>4, <1>6, <1>10 DEF Byte
  <2>2. last[j] = Xor(x, y)
    BY <1>7, <2>1, XorType
  <2>3. PadByte(m, total, i) = Xor(x, y)
    BY <1>8, <1>10 DEF PadByte
  <2> QED BY <1>5, <2>2, <2>3 DEF base, total
<1> QED BY <1>9, <1>10

LEMMA FinalIsPadded ==
  ASSUME NEW m \in Seq(Byte), NEW o, Good(o, m, Len(m))
  PROVE  Final(o).chain = Padded(m)
<1> DEFINE q == Len(o.chain)
           s == Append(o.chain, Suffixed(o).block)
           Row(k) == [j \in Idx |-> PadByte(m, (q + 1) * BlockSize, (k - 1) * BlockSize + j)]
<1>1. o \in Obj /\ Len(m) = q * BlockSize + o.bPos
  BY DEF Good
<1>2. /\ o.chain \in Seq([Idx -> Byte]) /\ q \in Nat /\ q * BlockSize \in Nat
      /\ o.bPos \in Nat /\ o.bPos < BlockSize /\ Suffixed(o).block \in [Idx -> Byte]
  BY <1>1, Fields, FinalFields
<1>3. NBlocks(Len(m)) = q + 1
  BY <1>1, <1>2, DivUnique DEF NBlocks
<1>4. Blocks(m) = [k \in 1..(q + 1) |-> Row(k)]
  BY <1>3 DEF Blocks
<1>5. s \in [1..(q + 1) -> [Idx -> Byte]]
  <2>1. s \in Seq([Idx -> Byte]) /\ Len(s) = q + 1
    BY <1>2
  <2> HIDE DEF s, q
  <2> QED BY <2>1
<1>6. ASSUME NEW k \in 1..(q + 1)
      PROVE  s[k] = Row(k)
  <2>1. CASE k \in 1..q
    <3>1. s[k] = o.chain[k] /\ o.chain[k] \in [Idx -> Byte]
      BY <1>2, <2>1
    <3>2. ASSUME NEW j \in Idx
          PROVE  o.chain[k][j] = Row(k)[j]
      <4> DEFINE base == (k - 1) * BlockSize
      <4>a. k - 1 \in Nat /\ k - 1 < q
        BY <1>2, <2>1
      <4>1. base \in Nat /\ base + BlockSize <= q * BlockSize
        <5> HIDE DEF q
        <5> QED BY <1>2, <4>a, MulSucc, MulMono
      <4>2. j \in Nat /\ j < BlockSize
        BY BlockArith DEF Idx
      <4>3. base + j < Len(m)
        <5> DEFINE z == q * BlockSize
        <5>1. z \in Nat /\ base + BlockSize <= z /\ Len(m) = z + o.bPos
          BY <1>1, <1>2, <4>1
        <5> HIDE DEF z, base
        <5> QED BY <1>2, <4>1, <4>2, <5>1, BlockArith
      <4>4. o.chain[k][j] = m[base + j + 1]
        BY <2>1 DEF Good
      <4> QED BY <4>3, <4>4 DEF PadByte
    <3> QED BY <3>1, <3>2
  <2>2. CASE k = q + 1
    <3>1. s[k] = Suffixed(o).block /\ k - 1 = q
      BY <1>2, <2>2
    <3>2. \A j \in Idx : Suffixed(o).block[j] = Row(k)[j]
      BY <3>1, LastBlock
    <3> QED BY <1>2, <3>1, <3>2
  <2>3. k \in 1..q \/ k = q + 1
    BY <1>2
  <2> QED BY <2>1, <2>2, <2>3
<1> HIDE DEF Row, s
<1>7. s = Blocks(m)
  BY <1>4, <1>5, <1>6
<1> QED BY <1>1, <1>7, FinalFields, PaddedBlocks DEF s

-----------------------------------------------------------------------------
(* Padding keeps messages apart. *)

LEMMA XorCancels ==
  ASSUME NEW x, NEW y, Xor(x, y) = Xor({}, y)
  PROVE  x = {}
BY DEF Xor

LEMMA ConcatAt ==
  ASSUME NEW S, NEW s \in Seq(S), NEW t \in Seq(S)
  PROVE  /\ Len(s \o t) = Len(s) + Len(t)
         /\ \A i \in 1..Len(s) : (s \o t)[i] = s[i]
OBVIOUS

LEMMA PadByteInjective ==
  ASSUME NEW a \in Seq(Byte), NEW b \in Seq(Byte), NEW total \in Nat,
         Len(a) < total, Len(b) < total,
         \A i \in 0..(total - 1) : PadByte(a, total, i) = PadByte(b, total, i)
  PROVE  a = b
<1>0. Suffix # {}
  BY SpongeAssumption
<1>1. ASSUME NEW x \in Seq(Byte), NEW y \in Seq(Byte), Len(y) < total, Len(x) < Len(y),
             \A i \in 0..(total - 1) : PadByte(x, total, i) = PadByte(y, total, i)
      PROVE  FALSE
  <2> DEFINE i == Len(y)
             t == IF i = total - 1 THEN TopBit ELSE {}
  <2>1. PadByte(x, total, i) = PadByte(y, total, i)
    BY <1>1
  <2>2. PadByte(x, total, i) = Xor({}, t) /\ PadByte(y, total, i) = Xor(Suffix, t)
    BY <1>1 DEF PadByte
  <2> HIDE DEF t
  <2> QED BY <1>0, <2>1, <2>2, XorCancels
<1>2. Len(a) = Len(b)
  <2>1. ~(Len(a) < Len(b))
    BY <1>1
  <2>2. ~(Len(b) < Len(a))
    BY <1>1
  <2> QED BY <2>1, <2>2
<1>3. ASSUME NEW i \in 1..Len(a)
      PROVE  a[i] = b[i]
  <2>1. i - 1 \in 0..(total - 1) /\ i - 1 < Len(a) /\ i - 1 < Len(b) /\ (i - 1) + 1 = i
    BY <1>2
  <2>2. PadByte(a, total, i - 1) = a[(i - 1) + 1] /\ PadByte(b, total, i - 1) = b[(i - 1) + 1]
    BY <2>1 DEF PadByte
  <2> QED BY <2>1, <2>2
<1>4. a \in [1..Len(a) -> Byte] /\ b \in [1..Len(b) -> Byte]
  OBVIOUS
<1> QED BY <1>2, <1>3, <1>4

LEMMA PadByteType ==
  ASSUME NEW m \in Seq(Byte), NEW total \in Nat, NEW i \in Nat
  PROVE  PadByte(m, total, i) \in Byte
<1> DEFINE x == IF i = Len(m) THEN Suffix ELSE {}
           y == IF i = total - 1 THEN TopBit ELSE {}
<1>1. x \in Byte /\ y \in Byte
  BY SpongeAssumption DEF TopBit, Byte, Bit
<1>2. CASE i < Len(m)
  BY <1>2 DEF PadByte
<1>3. CASE ~(i < Len(m))
  <2>1. PadByte(m, total, i) = Xor(x, y)
    BY <1>3 DEF PadByte
  <2> HIDE DEF x, y
  <2> QED BY <1>1, <2>1, XorType
<1> QED BY <1>2, <1>3

LEMMA BlocksType ==
  ASSUME NEW m \in Seq(Byte)
  PROVE  /\ NBlocks(Len(m)) \in Nat /\ Len(m) < NBlocks(Len(m)) * BlockSize
         /\ NBlocks(Len(m)) * BlockSize \in Nat
         /\ Blocks(m) \in Seq([Idx -> Byte]) /\ Len(Blocks(m)) = NBlocks(Len(m))
<1> DEFINE n == NBlocks(Len(m))
           d == Len(m) \div BlockSize
<1>1. d \in Nat /\ n = d + 1 /\ Len(m) < d * BlockSize + BlockSize
  BY DivBounds DEF NBlocks
<1> HIDE DEF d, n
<1>2. n \in Nat /\ n * BlockSize \in Nat /\ Len(m) < n * BlockSize
  BY <1>1, MulSucc
<1>3. ASSUME NEW k \in 1..n, NEW j \in Idx
      PROVE  PadByte(m, n * BlockSize, (k - 1) * BlockSize + j) \in Byte
  <2>1. k - 1 \in Nat /\ (k - 1) * BlockSize \in Nat /\ j \in Nat
    BY <1>2, MulSucc, BlockArith DEF Idx
  <2>2. (k - 1) * BlockSize + j \in Nat
    BY <2>1
  <2> QED BY <1>2, <2>2, PadByteType
<1>4. Blocks(m) = [k \in 1..n |-> [j \in Idx |-> PadByte(m, n * BlockSize, (k - 1) * BlockSize + j)]]
  BY DEF Blocks, n
<1>5. Blocks(m) \in [1..n -> [Idx -> Byte]]
  BY <1>3, <1>4
<1> QED BY <1>2, <1>5 DEF n

LEMMA PaddedInjective ==
  ASSUME NEW a \in Seq(Byte), NEW b \in Seq(Byte), Padded(a) = Padded(b)
  PROVE  a = b
<1> DEFINE n == NBlocks(Len(a))
           total == n * BlockSize
<1>1. Squeezed \in Seq([Idx -> Byte])
  BY SqueezedType
<1>2. Blocks(a) \o Squeezed = Blocks(b) \o Squeezed
  BY PaddedBlocks
<1>3. /\ n \in Nat /\ total \in Nat /\ Len(a) < total
      /\ Blocks(a) \in Seq([Idx -> Byte]) /\ Len(Blocks(a)) = n
      /\ Blocks(b) \in Seq([Idx -> Byte]) /\ Len(Blocks(b)) = NBlocks(Len(b))
      /\ NBlocks(Len(b)) \in Nat
  BY BlocksType
<1>4. NBlocks(Len(b)) = n
  <2>1. Len(Blocks(a) \o Squeezed) = n + Len(Squeezed)
    BY <1>1, <1>3, ConcatAt
  <2>2. Len(Blocks(b) \o Squeezed) = NBlocks(Len(b)) + Len(Squeezed)
    BY <1>1, <1>3, ConcatAt
  <2>3. Len(Squeezed) \in Nat
    BY <1>1
  <2> HIDE DEF n
  <2> QED BY <1>2, <1>3, <2>1, <2>2, <2>3
<1>5. \A k \in 1..n : Blocks(a)[k] = Blocks(b)[k]
  <2> SUFFICES ASSUME NEW k \in 1..n
               PROVE  Blocks(a)[k] = Blocks(b)[k]
    OBVIOUS
  <2>1. (Blocks(a) \o Squeezed)[k] = Blocks(a)[k]
    BY <1>1, <1>3, ConcatAt
  <2>2. (Blocks(b) \o Squeezed)[k] = Blocks(b)[k]
    BY <1>1, <1>3, <1>4, ConcatAt
  <2> QED BY <1>2, <2>1, <2>2
<1>6. ASSUME NEW i \in 0..(total - 1)
      PROVE  PadByte(a, total, i) = PadByte(b, total, i)
  <2> DEFINE k == i \div BlockSize + 1
             j == i - (k - 1) * BlockSize
             d == i \div BlockSize
             z == d * BlockSize
  <2>1. d \in Nat /\ z <= i /\ i < z + BlockSize
    BY <1>3, DivBounds
  <2>a. k - 1 = d
    <3> HIDE DEF d
    <3>1. k = d + 1
      BY DEF d
    <3> HIDE DEF k
    <3> QED BY <2>1, <3>1
  <2>2. z \in Nat /\ k - 1 = d /\ (k - 1) * BlockSize = z
    BY <2>1, <2>a, MulSucc
  <2>3. k \in 1..n
    <3>1. d < n
      <4>1. ASSUME n <= d
            PROVE  FALSE
        <5>1. n < d => total + BlockSize <= z
          BY <1>3, <2>1, MulMono
        <5>2. n = d => total = z
          OBVIOUS
        <5>3. n < d \/ n = d
          BY <1>3, <2>1, <4>1
        <5>4. total <= z
          <6> HIDE DEF total, z
          <6> QED BY <1>3, <2>2, <5>1, <5>2, <5>3, BlockArith
        <5> HIDE DEF total, z
        <5> QED BY <1>3, <2>1, <2>2, <5>4
      <4> HIDE DEF d, n
      <4> QED BY <1>3, <2>1, <4>1
    <3> HIDE DEF n, d
    <3> QED BY <1>3, <2>1, <3>1 DEF d
  <2>4. j \in Idx /\ (k - 1) * BlockSize + j = i
    <3>1. j = i - z
      BY <2>2
    <3> HIDE DEF j, z
    <3> QED BY <1>3, <2>1, <2>2, <3>1, BlockArith DEF Idx
  <2> HIDE DEF k, j
  <2>5. /\ Blocks(a)[k][j] = PadByte(a, total, (k - 1) * BlockSize + j)
        /\ Blocks(b)[k][j] = PadByte(b, total, (k - 1) * BlockSize + j)
    BY <1>4, <2>3, <2>4 DEF Blocks
  <2> QED BY <1>5, <2>3, <2>4, <2>5
<1>7. Len(b) < total
  BY <1>4, BlocksType
<1> HIDE DEF total
<1> QED BY <1>3, <1>6, <1>7, PadByteInjective
-----------------------------------------------------------------------------
(* One lemma per action that changes an object. *)

LEMMA IdleInv ==
  ASSUME IInv, Idle, NEW c \in Ctx \ spent
  PROVE  Good(obj[c], msg[c], Len(msg[c])) /\ msg[c] \in Seq(Byte)
BY DEF IInv, Idle

\* Good looks at the first n bytes only
LEMMA GoodAgrees ==
  ASSUME NEW o, NEW m, NEW m2, NEW n, Good(o, m, n), \A i \in 1..n : m2[i] = m[i]
  PROVE  Good(o, m2, n)
<1> DEFINE q == Len(o.chain)
<1>1. /\ o \in Obj /\ q \in Nat /\ q * BlockSize \in Nat /\ n = q * BlockSize + o.bPos
      /\ o.bPos \in Nat /\ o.bPos < BlockSize
  <2>1. o \in Obj /\ n = q * BlockSize + o.bPos
    BY DEF Good
  <2> QED BY <2>1, Fields
<1>2. ASSUME NEW k \in 1..q, NEW j \in Idx
      PROVE  m2[(k - 1) * BlockSize + j + 1] = m[(k - 1) * BlockSize + j + 1]
  <2> DEFINE base == (k - 1) * BlockSize
             z == q * BlockSize
  <2>1. k - 1 \in Nat /\ k - 1 < q
    BY <1>1
  <2>2. base \in Nat /\ base + BlockSize <= z
    <3> HIDE DEF q
    <3> QED BY <1>1, <2>1, MulSucc, MulMono
  <2>3. j \in Nat /\ j < BlockSize
    BY BlockArith DEF Idx
  <2>4. base + j + 1 \in 1..n
    <3>1. z \in Nat /\ n = z + o.bPos
      BY <1>1
    <3> HIDE DEF z, base
    <3> QED BY <1>1, <2>2, <2>3, <3>1, BlockArith, SMTT(30)
  <2> QED BY <2>4
<1>3. ASSUME NEW j \in Idx, j < o.bPos
      PROVE  m2[q * BlockSize + j + 1] = m[q * BlockSize + j + 1]
  <2> DEFINE z == q * BlockSize
  <2>1. j \in Nat
    BY BlockArith DEF Idx
  <2>2. z + j + 1 \in 1..n
    <3>1. z \in Nat /\ n = z + o.bPos
      BY <1>1
    <3> HIDE DEF z
    <3> QED BY <1>1, <1>3, <2>1, <3>1
  <2> QED BY <2>2
<1> QED BY <1>1, <1>2, <1>3 DEF Good

\* A call that gives the object d a good state, and leaves no write() behind
LEMMA SetGood ==
  ASSUME IInv, Idle, NEW d \in Ctx, NEW o, NEW m \in Seq(Byte), Good(o, m, Len(m)),
         Becomes(d, o, m)
  PROVE  IInv'
<1>1. /\ obj \in [Ctx -> Obj] /\ msg \in [Ctx -> Seq(Byte)] /\ spent \subseteq Ctx
      /\ call = {}
  BY DEF IInv, Idle
<1>2. /\ obj' = [obj EXCEPT ![d] = o] /\ msg' = [msg EXCEPT ![d] = m]
      /\ spent' = spent \ {d} /\ call' = {}
  BY <1>1 DEF Becomes
<1>3. o \in Obj
  BY DEF Good
<1>4. obj' \in [Ctx -> Obj] /\ msg' \in [Ctx -> Seq(Byte)] /\ spent' \subseteq Ctx
  BY <1>1, <1>2, <1>3
<1>5. \A c \in Ctx \ spent' : Good(obj'[c], msg'[c], Len(msg'[c]))
  <2> SUFFICES ASSUME NEW c \in Ctx \ spent'
               PROVE  Good(obj'[c], msg'[c], Len(msg'[c]))
    OBVIOUS
  <2>1. CASE c = d
    BY <1>1, <1>2, <2>1
  <2>2. CASE c # d
    <3>1. c \in Ctx \ spent /\ obj'[c] = obj[c] /\ msg'[c] = msg[c]
      BY <1>1, <1>2, <2>2
    <3> QED BY <3>1, IdleInv
  <2> QED BY <2>1, <2>2
<1> QED BY <1>2, <1>4, <1>5 DEF IInv

LEMMA WriteBeginKeeps ==
  ASSUME IInv, NEW c \in Ctx, NEW data \in Data, WriteBegin(c, data)
  PROVE  IInv'
<1> DEFINE m == msg[c] \o data
           w == [ctx |-> c, data |-> data, i |-> 0]
<1>1. /\ obj \in [Ctx -> Obj] /\ msg \in [Ctx -> Seq(Byte)] /\ spent \subseteq Ctx
      /\ call = {} /\ Idle /\ c \in Ctx \ spent
  BY DEF IInv, WriteBegin, Idle
<1>2. /\ obj' = obj /\ call' = {w} /\ msg' = [msg EXCEPT ![c] = m] /\ spent' = spent
  BY DEF WriteBegin
<1>3. msg[c] \in Seq(Byte) /\ data \in Seq(Byte)
  BY <1>1, BytesAssumption
<1>4. /\ m \in Seq(Byte) /\ Len(m) = Len(msg[c]) + Len(data)
      /\ Len(data) \in Nat /\ Len(msg[c]) \in Nat
      /\ \A i \in 1..Len(msg[c]) : m[i] = msg[c][i]
      /\ \A i \in 1..Len(data) : m[Len(msg[c]) + i] = data[i]
  BY <1>3
<1> HIDE DEF m
<1>5. msg' \in [Ctx -> Seq(Byte)] /\ msg'[c] = m
  BY <1>1, <1>2, <1>4
<1>6. Good(obj'[c], m, Len(msg[c]))
  <2>1. Good(obj[c], msg[c], Len(msg[c]))
    BY <1>1, IdleInv
  <2> QED BY <1>2, <1>4, <2>1, GoodAgrees
<1>7. w.ctx = c /\ w.data = data /\ w.i = 0 /\ w \in [ctx : Ctx, data : Data, i : Nat]
  OBVIOUS
<1> HIDE DEF w
<1>8. Taken(w)' = Len(msg[c])
  BY <1>4, <1>5, <1>7 DEF Taken
<1>9. \A v \in call' :
        /\ v.ctx \in Ctx \ spent' /\ v.data \in Data /\ v.i \in 0..Len(v.data)
        /\ Len(v.data) <= Len(msg'[v.ctx])
        /\ \A j \in 1..Len(v.data) :
             v.data[j] = msg'[v.ctx][Len(msg'[v.ctx]) - Len(v.data) + j]
        /\ Good(obj'[v.ctx], msg'[v.ctx], Taken(v)')
  <2> SUFFICES ASSUME TRUE
               PROVE  /\ w.ctx \in Ctx \ spent' /\ w.data \in Data /\ w.i \in 0..Len(w.data)
                      /\ Len(w.data) <= Len(msg'[w.ctx])
                      /\ \A j \in 1..Len(w.data) :
                           w.data[j] = msg'[w.ctx][Len(msg'[w.ctx]) - Len(w.data) + j]
                      /\ Good(obj'[w.ctx], msg'[w.ctx], Taken(w)')
    BY <1>2
  <2>1. Len(m) - Len(data) = Len(msg[c])
    BY <1>4
  <2>2. Good(obj'[w.ctx], msg'[w.ctx], Taken(w)')
    BY <1>5, <1>6, <1>7, <1>8
  <2>3. w.ctx \in Ctx \ spent' /\ w.data \in Data /\ w.i \in 0..Len(w.data)
    BY <1>1, <1>2, <1>4, <1>7
  <2>4. Len(w.data) <= Len(msg'[w.ctx])
    BY <1>4, <1>5, <1>7
  <2>5. \A j \in 1..Len(data) : data[j] = m[Len(m) - Len(data) + j]
    BY <1>4, <2>1
  <2> QED BY <1>5, <1>7, <2>2, <2>3, <2>4, <2>5
<1>10. \A d \in Ctx \ spent' : d # c => Good(obj'[d], msg'[d], Len(msg'[d]))
  BY <1>1, <1>2, IdleInv
<1>11. \A d \in Ctx \ spent' :
         (\A v \in call' : v.ctx # d) => Good(obj'[d], msg'[d], Len(msg'[d]))
  BY <1>2, <1>7, <1>10
<1>12. call' \subseteq [ctx : Ctx, data : Data, i : Nat] /\ \A v, u \in call' : v = u
  BY <1>2, <1>7
<1> QED BY <1>1, <1>2, <1>5, <1>9, <1>11, <1>12 DEF IInv

LEMMA CallInv ==
  ASSUME IInv, NEW w \in call
  PROVE  /\ w \in [ctx : Ctx, data : Data, i : Nat] /\ call = {w}
         /\ w.ctx \in Ctx \ spent /\ w.data \in Data /\ w.data \in Seq(Byte)
         /\ w.i \in 0..Len(w.data)
         /\ msg[w.ctx] \in Seq(Byte) /\ Len(w.data) <= Len(msg[w.ctx])
         /\ \A j \in 1..Len(w.data) :
              w.data[j] = msg[w.ctx][Len(msg[w.ctx]) - Len(w.data) + j]
         /\ Good(obj[w.ctx], msg[w.ctx], Taken(w))
         /\ \A c \in Ctx \ spent : c # w.ctx => Good(obj[c], msg[c], Len(msg[c]))
<1>1. w \in [ctx : Ctx, data : Data, i : Nat] /\ \A v \in call : v = w
  BY DEF IInv
<1>2. call = {w}
  BY <1>1
<1>3. /\ w.ctx \in Ctx \ spent /\ w.data \in Data /\ w.i \in 0..Len(w.data)
      /\ Len(w.data) <= Len(msg[w.ctx])
      /\ \A j \in 1..Len(w.data) :
           w.data[j] = msg[w.ctx][Len(msg[w.ctx]) - Len(w.data) + j]
      /\ Good(obj[w.ctx], msg[w.ctx], Taken(w))
  BY DEF IInv
<1>4. w.data \in Seq(Byte) /\ msg[w.ctx] \in Seq(Byte)
  BY <1>3, BytesAssumption DEF IInv
<1>5. \A c \in Ctx \ spent : c # w.ctx => Good(obj[c], msg[c], Len(msg[c]))
  BY <1>2 DEF IInv
<1> QED BY <1>1, <1>2, <1>3, <1>4, <1>5

LEMMA WriteByteKeeps ==
  ASSUME IInv, WriteByte
  PROVE  IInv'
<1> PICK w \in call :
      /\ w.i < Len(w.data)
      /\ obj' = [obj EXCEPT ![w.ctx] = Absorb(@, w.data[w.i + 1])]
      /\ call' = {[w EXCEPT !.i = @ + 1]}
      /\ UNCHANGED <<msg, spent, out>>
  BY DEF WriteByte
<1> DEFINE c == w.ctx
           m == msg[c]
           n == Taken(w)
           o == Absorb(obj[c], w.data[w.i + 1])
           u == [w EXCEPT !.i = @ + 1]
           i1 == w.i + 1
<1>1. obj \in [Ctx -> Obj] /\ msg \in [Ctx -> Seq(Byte)] /\ spent \subseteq Ctx
  BY DEF IInv
<1>2. /\ w \in [ctx : Ctx, data : Data, i : Nat] /\ call = {w}
      /\ c \in Ctx \ spent /\ w.data \in Data /\ w.data \in Seq(Byte)
      /\ w.i \in 0..Len(w.data) /\ m \in Seq(Byte) /\ Len(w.data) <= Len(m)
      /\ \A j \in 1..Len(w.data) : w.data[j] = m[Len(m) - Len(w.data) + j]
      /\ Good(obj[c], m, n)
      /\ \A d \in Ctx \ spent : d # c => Good(obj[d], msg[d], Len(msg[d]))
  BY CallInv
<1>3. n = Len(m) - Len(w.data) + w.i /\ n \in Nat /\ n + 1 = Len(m) - Len(w.data) + i1
      /\ i1 \in 1..Len(w.data) /\ i1 \in Nat /\ i1 \in 0..Len(w.data)
  <2> DEFINE ld == Len(w.data)
             lm == Len(m)
             wi == w.i
  <2>1. n = lm - ld + wi /\ ld \in Nat /\ lm \in Nat /\ wi \in Nat /\ wi < ld /\ ld <= lm
    BY <1>2 DEF Taken
  <2>2. i1 = wi + 1
    OBVIOUS
  <2> HIDE DEF n, ld, lm, wi, i1
  <2>3. n \in Nat /\ n + 1 = lm - ld + i1 /\ i1 \in 1..ld /\ i1 \in Nat /\ i1 \in 0..ld
    BY <2>1, <2>2
  <2> QED BY <2>1, <2>3 DEF ld, lm, wi
<1>4. w.data[i1] = m[n + 1] /\ m[n + 1] \in Byte
  BY <1>2, <1>3, SMTT(30)
<1>5. Good(o, m, n + 1)
  <2> HIDE DEF n, m, c
  <2>1. Good(Absorb(obj[c], m[n + 1]), m, n + 1)
    BY <1>2, <1>3, <1>4, AbsorbGood
  <2> QED BY <1>4, <2>1
<1> HIDE DEF o
<1>6. obj' \in [Ctx -> Obj] /\ obj'[c] = o /\ \A d \in Ctx : d # c => obj'[d] = obj[d]
  <2>1. o \in Obj
    BY <1>5 DEF Good
  <2> QED BY <1>1, <1>2, <2>1 DEF o
<1>7. u \in [ctx : Ctx, data : Data, i : Nat] /\ u.ctx = c /\ u.data = w.data /\ u.i = i1
  <2>1. u = [w EXCEPT !.i = i1]
    OBVIOUS
  <2> HIDE DEF i1, u
  <2> QED BY <1>2, <1>3, <2>1
<1> HIDE DEF u
<1>8. call' = {u} /\ msg' = msg /\ spent' = spent
  BY DEF u
<1>9. Taken(u)' = n + 1
  BY <1>2, <1>3, <1>7, <1>8 DEF Taken
<1>10. /\ u.ctx \in Ctx \ spent' /\ u.data \in Data /\ u.i \in 0..Len(u.data)
       /\ Len(u.data) <= Len(msg'[u.ctx])
       /\ \A j \in 1..Len(u.data) :
            u.data[j] = msg'[u.ctx][Len(msg'[u.ctx]) - Len(u.data) + j]
       /\ Good(obj'[u.ctx], msg'[u.ctx], Taken(u)')
  <2>1. Good(obj'[u.ctx], msg'[u.ctx], Taken(u)')
    BY <1>5, <1>6, <1>7, <1>8, <1>9
  <2> HIDE DEF i1
  <2> QED BY <1>2, <1>3, <1>7, <1>8, <2>1
<1>11. \A d \in Ctx \ spent' :
         (\A v \in call' : v.ctx # d) => Good(obj'[d], msg'[d], Len(msg'[d]))
  BY <1>2, <1>6, <1>7, <1>8
<1>12. call' \subseteq [ctx : Ctx, data : Data, i : Nat] /\ \A x, y \in call' : x = y
  BY <1>7, <1>8
<1>13. \A v \in call' : v = u
  BY <1>8
<1>14. msg' \in [Ctx -> Seq(Byte)] /\ spent' \subseteq Ctx
  BY <1>1, <1>8
<1> QED BY <1>6, <1>10, <1>11, <1>12, <1>13, <1>14 DEF IInv

LEMMA WriteEndKeeps ==
  ASSUME IInv, WriteEnd
  PROVE  IInv'
<1> PICK w \in call : w.i = Len(w.data)
  BY DEF WriteEnd
<1>1. obj' = obj /\ msg' = msg /\ spent' = spent /\ call' = {}
  BY DEF WriteEnd
<1>2. Good(obj[w.ctx], msg[w.ctx], Len(msg[w.ctx]))
  <2>1. Taken(w) = Len(msg[w.ctx])
    BY CallInv DEF Taken
  <2> QED BY <2>1, CallInv
<1>3. \A c \in Ctx \ spent' : Good(obj'[c], msg'[c], Len(msg'[c]))
  BY <1>1, <1>2, CallInv
<1> QED BY <1>1, <1>3 DEF IInv

LEMMA FinalType == ASSUME NEW o \in Obj PROVE Final(o) \in Obj
<1>1. Squeezed \in Seq([Idx -> Byte]) /\ ZeroBlock \in [Idx -> Byte]
  BY SqueezedType
<1>2. Append(o.chain, Suffixed(o).block) \in Seq([Idx -> Byte])
  BY Fields, FinalFields
<1>3. Final(o).chain \in Seq([Idx -> Byte])
  <2> DEFINE s == Append(o.chain, Suffixed(o).block)
  <2>1. Final(o).chain = s \o Squeezed
    BY FinalFields
  <2> HIDE DEF s
  <2> QED BY <1>1, <1>2, <2>1 DEF s
<1> DEFINE ch == Final(o).chain
<1>4. Final(o) = [chain |-> ch, block |-> ZeroBlock, bPos |-> 0]
  BY FinalFields
<1> HIDE DEF ch
<1> QED BY <1>1, <1>3, <1>4, BlockArith DEF Obj, ch

LEMMA SumInKeeps ==
  ASSUME IInv, NEW c \in Ctx, SumIn(c)
  PROVE  IInv'
<1>1. /\ obj' = [obj EXCEPT ![c] = Final(obj[c])] /\ msg' = msg
      /\ spent' = spent \union {c} /\ call' = {} /\ call = {} /\ Idle
  BY DEF SumIn, Idle
<1>2. obj \in [Ctx -> Obj] /\ msg \in [Ctx -> Seq(Byte)] /\ spent \subseteq Ctx
  BY DEF IInv
<1>3. obj' \in [Ctx -> Obj]
  BY <1>1, <1>2, FinalType
<1>4. \A d \in Ctx \ spent' : Good(obj'[d], msg'[d], Len(msg'[d]))
  BY <1>1, <1>2, IdleInv
<1> QED BY <1>1, <1>2, <1>3, <1>4 DEF IInv

LEMMA NextKeeps == IInv /\ [Next]_vars => IInv'
<1> SUFFICES ASSUME IInv, [Next]_vars
             PROVE  IInv'
  OBVIOUS
<1>1. CASE WriteByte
  BY <1>1, WriteByteKeeps
<1>2. CASE WriteEnd
  BY <1>2, WriteEndKeeps
<1>3. ASSUME NEW c \in Ctx, NEW data \in Data, WriteBegin(c, data)
      PROVE  IInv'
  BY <1>3, WriteBeginKeeps
<1>4. ASSUME NEW c \in Ctx, Sum(c)
      PROVE  IInv'
  BY <1>4 DEF Sum, IInv, Taken
<1>5. ASSUME NEW c \in Ctx, SumIn(c)
      PROVE  IInv'
  BY <1>5, SumInKeeps
<1>6. /\ <<>> \in Seq(Byte) /\ Len(<<>>) = 0 /\ Good(Empty, <<>>, 0)
  BY EmptyGood
<1>7. ASSUME NEW c \in Ctx, Reset(c)
      PROVE  IInv'
  BY <1>6, <1>7, SetGood DEF Reset, Becomes
<1>8. ASSUME NEW c \in Ctx, NEW d \in Ctx, Clone(c, d)
      PROVE  IInv'
  <2>1. Idle /\ c \in Ctx \ spent /\ Becomes(d, obj[c], msg[c])
    BY <1>8 DEF Clone, Becomes
  <2> QED BY <2>1, IdleInv, SetGood
<1>9. ASSUME NEW c \in Ctx, NEW d \in Ctx, NewEmpty(c, d)
      PROVE  IInv'
  BY <1>6, <1>9, SetGood DEF NewEmpty, Becomes
<1>10. CASE UNCHANGED vars
  BY <1>10 DEF vars, IInv, Taken
<1> QED BY <1>1, <1>2, <1>3, <1>4, <1>5, <1>7, <1>8, <1>9, <1>10 DEF Next

LEMMA InitHolds == Init => IInv
<1> SUFFICES ASSUME Init
             PROVE  IInv
  OBVIOUS
<1>1. /\ obj = [c \in Ctx |-> Empty] /\ msg = [c \in Ctx |-> <<>>]
      /\ call = {} /\ spent = {}
  BY DEF Init
<1>2. <<>> \in Seq(Byte) /\ Len(<<>>) = 0 /\ Empty \in Obj /\ Good(Empty, <<>>, 0)
  BY EmptyGood
<1> QED BY <1>1, <1>2 DEF IInv

LEMMA Inductive == Spec => []IInv
BY InitHolds, NextKeeps, PTL DEF Spec

-----------------------------------------------------------------------------
(* The theorems. *)

\* Every field keeps its type, and the position is inside the block between two
\* bytes: write() never runs past the rate, and the suffix has a byte to go into.
THEOREM TypeCorrect == Spec => []TypeOK
<1>1. IInv => TypeOK
  BY DEF IInv, TypeOK
<1> QED BY <1>1, Inductive, PTL

\* Two live sponges would return the same digest exactly when the same bytes were
\* written to them, at every rate: the suffix and the end bit keep messages apart.
THEOREM DigestIsInjective == Spec => []SameDigestIffSameMessage
<1>1. IInv => SameDigestIffSameMessage
  <2> SUFFICES ASSUME IInv, Idle, NEW c \in Ctx \ spent, NEW d \in Ctx \ spent
               PROVE  (Final(obj[c]).chain = Final(obj[d]).chain) <=> (msg[c] = msg[d])
    BY DEF SameDigestIffSameMessage
  <2>1. /\ Final(obj[c]).chain = Padded(msg[c]) /\ msg[c] \in Seq(Byte)
        /\ Final(obj[d]).chain = Padded(msg[d]) /\ msg[d] \in Seq(Byte)
    BY IdleInv, FinalIsPadded
  <2> QED BY <2>1, PaddedInjective
<1> QED BY <1>1, Inductive, PTL

\* The two together, as the run checks them: two sponges sum alike exactly when
\* their messages are equal.
THEOREM SpongesAlwaysApart == Spec => []SpongesApart
BY TypeCorrect, DigestIsInjective, PTL DEF SpongesApart

\* Keccak implements the contract of IHash: a digest is a function of the bytes
\* written, whatever the cuts, the clones and the resets.
THEOREM ImplementsContract == Spec => ImplementsIHash
<1>1. Init => Contract!CInit
  BY DEF Init, Contract!CInit
<1>2. IInv /\ [Next]_vars => [Contract!CNext]_(Contract!cvars)
  <2> SUFFICES ASSUME IInv, [Next]_vars
               PROVE  Contract!CNext \/ UNCHANGED Contract!cvars
    OBVIOUS
  <2>1. CASE WriteEnd \/ WriteByte \/ UNCHANGED vars
    BY <2>1 DEF WriteEnd, WriteByte, vars, Contract!cvars
  <2>2. ASSUME NEW c \in Ctx, NEW data \in Data, WriteBegin(c, data)
        PROVE  Contract!CNext
    <3>1. Contract!CWrite(c, data)
      BY <2>2 DEF WriteBegin, Contract!CWrite
    <3> QED BY <3>1 DEF Contract!CNext
  <2>3. ASSUME NEW c \in Ctx, Sum(c) \/ SumIn(c)
        PROVE  Contract!CNext
    <3>1. Idle /\ c \in Ctx \ spent
      BY <2>3 DEF Sum, SumIn
    <3>2. Final(obj[c]).chain = Padded(msg[c])
      BY <3>1, IdleInv, FinalIsPadded
    <3>3. Contract!CSum(c) \/ Contract!CSumIn(c)
      BY <2>3, <3>2 DEF Sum, SumIn, Returned, Contract!CSum, Contract!CSumIn, Contract!Returned
    <3> QED BY <3>3 DEF Contract!CNext
  <2>4. ASSUME NEW c \in Ctx, Reset(c)
        PROVE  Contract!CNext
    <3>1. Contract!CReset(c)
      BY <2>4 DEF Reset, Becomes, Contract!CReset
    <3> QED BY <3>1 DEF Contract!CNext
  <2>5. ASSUME NEW c \in Ctx, NEW d \in Ctx, Clone(c, d) \/ NewEmpty(c, d)
        PROVE  Contract!CNext
    <3>1. Contract!CClone(c, d) \/ Contract!CNewEmpty(c, d)
      BY <2>5 DEF Clone, NewEmpty, Becomes, Contract!CClone, Contract!CNewEmpty
    <3> QED BY <3>1 DEF Contract!CNext
  <2> QED BY <2>1, <2>2, <2>3, <2>4, <2>5 DEF Next
<1> QED BY <1>1, <1>2, Inductive, PTL DEF Spec, Contract!CSpec, ImplementsIHash
=============================================================================
