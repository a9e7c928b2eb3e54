---------------------------- MODULE MdHashProofs ----------------------------
(***************************************************************************)
(* Proofs about MdHash and Sha2Hash, for every block size, length field,   *)
(* set of data and bound on the message.                                   *)
(***************************************************************************)
EXTENDS Sha2Hash, TLAPS

-----------------------------------------------------------------------------
(* Arithmetic of blocks: the prover's only facts about products. *)

LEMMA BlockArith ==
  /\ BlockSize \in Nat
  /\ SizeSpace \in Nat
  /\ BlockSize > 1
  /\ SizeSpace > 0
  /\ SizeSpace + LenSpace = BlockSize
  /\ 0 \in Idx
BY SizesAssumption DEF SizeSpace, Idx

LEMMA MulSucc ==
  ASSUME NEW n \in Nat
  PROVE  /\ n * BlockSize \in Nat
         /\ (n + 1) * BlockSize = n * BlockSize + BlockSize
BY BlockArith

LEMMA MulMono ==
  ASSUME NEW a \in Nat, NEW b \in Nat, a < b
  PROVE  a * BlockSize + BlockSize <= b * BlockSize
<1>1. PICK k \in Nat : b = a + 1 + k
  <2>1. b - a - 1 \in Nat
    OBVIOUS
  <2>2. b = a + 1 + (b - a - 1)
    OBVIOUS
  <2> QED BY <2>1, <2>2
<1>2. b * BlockSize = a * BlockSize + BlockSize + k * BlockSize
  BY <1>1, BlockArith
<1>3. k * BlockSize \in Nat /\ a * BlockSize \in Nat
  BY MulSucc
<1> QED BY <1>2, <1>3, BlockArith

-----------------------------------------------------------------------------
(* Types of the helpers. *)

\* An object inside a call: the block may be full
Wide == [chain : Seq(Block), block : Block, bPos : 0..BlockSize, ingest : Nat]

LEMMA ObjIsWide == Obj \subseteq Wide
BY BlockArith DEF Obj, Wide, Idx

LEMMA EmptyType ==
  ASSUME NEW b \in Block
  PROVE  Empty(b) \in Obj
BY BlockArith DEF Empty, Obj

LEMMA HashType ==
  ASSUME NEW o \in Wide
  PROVE  /\ Hash(o) \in Obj
         /\ Hash(o).chain = Append(o.chain, o.block)
         /\ Hash(o).bPos = 0
         /\ Hash(o).ingest = o.ingest
         /\ Hash(o).block = o.block
<1> DEFINE ch == Append(o.chain, o.block)
<1>1. ch \in Seq(Block)
  BY DEF Wide
<1>2. Hash(o) = [o EXCEPT !.chain = ch, !.bPos = 0]
  BY DEF Hash
<1> HIDE DEF ch
<1>3. /\ Hash(o) \in Obj
      /\ Hash(o).chain = ch
      /\ Hash(o).bPos = 0
      /\ Hash(o).ingest = o.ingest
      /\ Hash(o).block = o.block
  BY <1>1, <1>2, BlockArith DEF Wide, Obj
<1> QED BY <1>3 DEF ch

LEMMA FillType ==
  ASSUME NEW o \in Obj, NEW data \in Seq(ByteVal), NEW dPos \in Nat, NEW n \in Nat,
         dPos + n <= Len(data)
  PROVE  /\ Fill(o, data, dPos, n) \in Obj
         /\ Fill(o, data, dPos, n).chain = o.chain
         /\ Fill(o, data, dPos, n).bPos = o.bPos
         /\ Fill(o, data, dPos, n).ingest = o.ingest
         /\ \A j \in 0..(o.bPos - 1) : Fill(o, data, dPos, n).block[j] = o.block[j]
         /\ \A j \in Idx : j \in o.bPos..(o.bPos + n - 1) =>
              Fill(o, data, dPos, n).block[j] = data[dPos + (j - o.bPos) + 1]
<1> DEFINE blk == [j \in Idx |-> IF j \in o.bPos..(o.bPos + n - 1)
                                 THEN data[dPos + (j - o.bPos) + 1]
                                 ELSE o.block[j]]
<1>1. /\ o.bPos \in Idx /\ o.bPos \in Nat /\ o.bPos < BlockSize
      /\ o.block \in [Idx -> ByteVal]
  BY BlockArith DEF Obj, Idx, Block
<1>2. \A j \in Idx : j \in o.bPos..(o.bPos + n - 1) =>
        data[dPos + (j - o.bPos) + 1] \in ByteVal
  <2> SUFFICES ASSUME NEW j \in Idx, j \in o.bPos..(o.bPos + n - 1)
               PROVE  data[dPos + (j - o.bPos) + 1] \in ByteVal
    OBVIOUS
  <2>1. dPos + (j - o.bPos) + 1 \in 1..Len(data)
    BY <1>1 DEF Idx
  <2> QED BY <2>1
<1>3. blk \in Block
  BY <1>1, <1>2 DEF Block
<1>4. Fill(o, data, dPos, n) = [o EXCEPT !.block = blk]
  BY DEF Fill
<1>5. Fill(o, data, dPos, n).block = blk
  BY <1>4 DEF Obj
<1>6. \A j \in 0..(o.bPos - 1) : j \in Idx /\ j \notin o.bPos..(o.bPos + n - 1)
  BY <1>1, BlockArith DEF Idx
<1>7. \A j \in 0..(o.bPos - 1) : Fill(o, data, dPos, n).block[j] = o.block[j]
  BY <1>5, <1>6
<1>8. \A j \in Idx : j \in o.bPos..(o.bPos + n - 1) =>
              Fill(o, data, dPos, n).block[j] = data[dPos + (j - o.bPos) + 1]
  BY <1>5
<1> HIDE DEF blk
<1> QED BY <1>3, <1>4, <1>7, <1>8 DEF Obj

LEMMA ZeroRestType ==
  ASSUME NEW o \in Wide
  PROVE  /\ ZeroRest(o) \in Wide
         /\ ZeroRest(o).chain = o.chain
         /\ ZeroRest(o).bPos = o.bPos
         /\ ZeroRest(o).ingest = o.ingest
         /\ \A j \in Idx : ZeroRest(o).block[j] =
                             IF j < o.bPos THEN o.block[j] ELSE ZeroByte
<1> DEFINE blk == [j \in Idx |-> IF j < o.bPos THEN o.block[j] ELSE ZeroByte]
<1>1. o.block \in [Idx -> ByteVal]
  BY DEF Wide, Block
<1>2. blk \in Block
  BY <1>1 DEF Block, ByteVal, ZeroByte
<1>3. ZeroRest(o) = [o EXCEPT !.block = blk]
  BY DEF ZeroRest
<1>4. \A j \in Idx : blk[j] = IF j < o.bPos THEN o.block[j] ELSE ZeroByte
  OBVIOUS
<1> HIDE DEF blk
<1> QED BY <1>2, <1>3, <1>4 DEF Wide

LEMMA LenByteType ==
  ASSUME NEW n \in Nat, NEW i \in 0..LenSpace-1
  PROVE  LenByte(n, i) \in ByteVal
<1> DEFINE k == IF BigEndian THEN LenSpace - 1 - i ELSE i
           word == IF k < 4 THEN 8 * n ELSE IF k < 8 THEN n \div 536870912 ELSE 0
           unit == <<1, 256, 65536, 16777216>>[(k % 4) + 1]
<1>1. k \in Nat
  BY SizesAssumption
<1>2. word \in Nat
  BY <1>1
<1>3. unit \in Nat /\ unit > 0
  <2>1. k % 4 \in 0..3
    BY <1>1
  <2> QED BY <2>1
<1>4. LenByte(n, i) = (word \div unit) % 256
  BY DEF LenByte, BitLenByte
<1> HIDE DEF word, unit
<1>5. word \div unit \in Nat
  BY <1>2, <1>3
<1>6. (word \div unit) % 256 \in 0..255
  BY <1>5
<1> QED BY <1>4, <1>6 DEF ByteVal

LEMMA HashChain ==
  ASSUME NEW o \in Wide
  PROVE  /\ Len(o.chain) \in Nat
         /\ Len(Hash(o).chain) = Len(o.chain) + 1
         /\ \A k \in 1..Len(o.chain) : Hash(o).chain[k] = o.chain[k]
         /\ Hash(o).chain[Len(o.chain) + 1] = o.block
<1>1. Hash(o).chain = Append(o.chain, o.block)
  BY HashType
<1>2. o.chain \in Seq(Block)
  BY DEF Wide
<1> QED BY <1>1, <1>2

-----------------------------------------------------------------------------
(* write(): one turn of its loop keeps the object a prefix of the message. *)

LEMMA PositionType ==
  ASSUME NEW o \in Obj
  PROVE  /\ Position(o) \in Nat
         /\ Len(o.chain) \in Nat
         /\ o.bPos \in Nat /\ o.bPos < BlockSize
         /\ Position(o) = Len(o.chain) * BlockSize + o.bPos
<1>1. Len(o.chain) \in Nat
  BY DEF Obj
<1>2. o.bPos \in Nat /\ o.bPos < BlockSize
  BY BlockArith DEF Obj, Idx
<1>3. Len(o.chain) * BlockSize \in Nat
  BY <1>1, MulSucc
<1> QED BY <1>1, <1>2, <1>3 DEF Position

LEMMA FillHolds ==
  ASSUME NEW o \in Obj, NEW m \in Seq(ByteVal), HoldsPrefix(o, m),
         NEW data \in Seq(ByteVal), NEW dPos \in Nat, NEW n \in Nat,
         dPos + n <= Len(data),
         o.bPos + n <= BlockSize,
         \A i \in 1..n : data[dPos + i] = m[Position(o) + i]
  PROVE  \A j \in 0..(o.bPos + n - 1) :
           Fill(o, data, dPos, n).block[j] = m[Len(o.chain) * BlockSize + j + 1]
<1> DEFINE base == Len(o.chain) * BlockSize
<1>1. o.bPos \in Nat /\ base \in Nat /\ Position(o) = base + o.bPos
  BY PositionType, MulSucc
<1> HIDE DEF base
<1> SUFFICES ASSUME NEW j \in 0..(o.bPos + n - 1)
             PROVE  Fill(o, data, dPos, n).block[j] = m[base + j + 1]
  BY DEF base
<1>2. j \in Idx
  BY <1>1, BlockArith DEF Idx
<1>3. CASE j < o.bPos
  <2>1. Fill(o, data, dPos, n).block[j] = o.block[j]
    BY <1>1, <1>3, FillType
  <2>2. \A i \in 0..(o.bPos - 1) : o.block[i] = m[base + i + 1]
    BY DEF HoldsPrefix, base
  <2> QED BY <1>1, <1>3, <2>1, <2>2
<1>4. CASE j >= o.bPos
  <2>1. j \in o.bPos..(o.bPos + n - 1)
    BY <1>1, <1>4
  <2>2. Fill(o, data, dPos, n).block[j] = data[dPos + (j - o.bPos) + 1]
    BY <1>2, <2>1, FillType
  <2>3. (j - o.bPos) + 1 \in 1..n
    BY <1>1, <2>1, SMTT(30)
  <2>4. data[dPos + ((j - o.bPos) + 1)] = m[Position(o) + ((j - o.bPos) + 1)]
    BY <2>3
  <2>5. dPos + (j - o.bPos) + 1 = dPos + ((j - o.bPos) + 1)
    BY <1>1, <2>1
  <2>6. Position(o) + ((j - o.bPos) + 1) = base + j + 1
    BY <1>1, <2>1
  <2> QED BY <2>2, <2>4, <2>5, <2>6
<1> QED BY <1>1, <1>3, <1>4

\* "More space than data": the rest of the data goes into the block
LEMMA TailHolds ==
  ASSUME NEW o \in Obj, NEW m \in Seq(ByteVal), HoldsPrefix(o, m),
         NEW data \in Seq(ByteVal), NEW dPos \in Nat, NEW n \in Nat,
         dPos + n <= Len(data),
         o.bPos + n < BlockSize,
         Position(o) + n <= Len(m),
         \A i \in 1..n : data[dPos + i] = m[Position(o) + i]
  PROVE  /\ Advance(o, data, dPos, n) \in Obj
         /\ HoldsPrefix(Advance(o, data, dPos, n), m)
         /\ Position(Advance(o, data, dPos, n)) = Position(o) + n
<1> DEFINE f == Fill(o, data, dPos, n)
           r == Advance(o, data, dPos, n)
<1>1. f \in Obj /\ f.chain = o.chain /\ f.bPos = o.bPos /\ f.ingest = o.ingest
  BY FillType
<1>2. \A j \in 0..(o.bPos + n - 1) :
        f.block[j] = m[Len(o.chain) * BlockSize + j + 1]
  <2>1. o.bPos + n <= BlockSize
    BY PositionType, BlockArith
  <2> QED BY <2>1, FillHolds
<1>3. o.bPos \in Nat /\ o.bPos + n \in Idx
  BY PositionType, BlockArith DEF Idx
<1>4. r = [f EXCEPT !.bPos = o.bPos + n]
  BY DEF Advance
<1> HIDE DEF f, r
<1>5. /\ r \in Obj
      /\ r.chain = o.chain /\ r.bPos = o.bPos + n
      /\ r.ingest = o.ingest /\ r.block = f.block
  BY <1>1, <1>3, <1>4 DEF Obj
<1>6. Position(r) = Position(o) + n
  <2>1. Len(o.chain) * BlockSize \in Nat
    BY PositionType, MulSucc
  <2> QED BY <1>3, <1>5, <2>1 DEF Position
<1>7. HoldsPrefix(r, m)
  <2>1. r.ingest = Len(m)
    BY <1>5 DEF HoldsPrefix
  <2>2. \A k \in 1..Len(r.chain) : \A j \in Idx :
          r.chain[k][j] = m[(k - 1) * BlockSize + j + 1]
    BY <1>5 DEF HoldsPrefix
  <2>3. \A j \in 0..(r.bPos - 1) : r.block[j] = m[Len(r.chain) * BlockSize + j + 1]
    <3>1. \A j \in 0..(r.bPos - 1) : j \in 0..(o.bPos + n - 1)
      BY <1>3, <1>5
    <3>2. r.block = f.block /\ r.chain = o.chain
      BY <1>5, Zenon
    <3> QED BY <1>2, <3>1, <3>2, Zenon
  <2> QED BY <1>6, <2>1, <2>2, <2>3 DEF HoldsPrefix
<1> QED BY <1>5, <1>6, <1>7 DEF r

\* The block is filled to its end and compressed
LEMMA BlockHolds ==
  ASSUME NEW o \in Obj, NEW m \in Seq(ByteVal), HoldsPrefix(o, m),
         NEW data \in Seq(ByteVal), NEW dPos \in Nat, NEW n \in Nat,
         dPos + n <= Len(data),
         o.bPos + n = BlockSize,
         Position(o) + n <= Len(m),
         \A i \in 1..n : data[dPos + i] = m[Position(o) + i]
  PROVE  /\ Hash(Fill(o, data, dPos, n)) \in Obj
         /\ Hash(Fill(o, data, dPos, n)).bPos = 0
         /\ HoldsPrefix(Hash(Fill(o, data, dPos, n)), m)
         /\ Position(Hash(Fill(o, data, dPos, n))) = Position(o) + n
<1> DEFINE f == Fill(o, data, dPos, n)
           r == Hash(f)
<1>1. f \in Obj /\ f.chain = o.chain /\ f.bPos = o.bPos /\ f.ingest = o.ingest
  BY FillType
<1>2. \A j \in Idx : f.block[j] = m[Len(o.chain) * BlockSize + j + 1]
  <2>1. o.bPos + n <= BlockSize
    BY PositionType, BlockArith
  <2>2. \A j \in 0..(o.bPos + n - 1) :
          f.block[j] = m[Len(o.chain) * BlockSize + j + 1]
    BY <2>1, FillHolds, ZenonT(30)
  <2>3. \A j \in Idx : j \in 0..(o.bPos + n - 1)
    BY PositionType, BlockArith DEF Idx
  <2> QED BY <2>2, <2>3, Zenon
<1>3. r = Hash(f)
  OBVIOUS
<1> HIDE DEF f, r
<1>4. f \in Wide
  BY <1>1, ObjIsWide
<1>5. /\ r \in Obj /\ r.bPos = 0 /\ r.ingest = o.ingest
      /\ Len(o.chain) \in Nat
      /\ Len(r.chain) = Len(o.chain) + 1
      /\ \A k \in 1..Len(o.chain) : r.chain[k] = o.chain[k]
      /\ r.chain[Len(o.chain) + 1] = f.block
  BY <1>1, <1>3, <1>4, HashType, HashChain
<1>6. Position(r) = Position(o) + n
  <2>1. Position(r) = Len(o.chain) * BlockSize + BlockSize
    <3>1. Len(r.chain) * BlockSize = Len(o.chain) * BlockSize + BlockSize
      BY <1>5, MulSucc
    <3>2. Len(r.chain) * BlockSize \in Nat
      <4>1. Len(r.chain) \in Nat
        BY <1>5
      <4> QED BY <4>1, MulSucc, Zenon
    <3> QED BY <1>5, <3>1, <3>2 DEF Position
  <2>2. Position(o) = Len(o.chain) * BlockSize + o.bPos
    BY DEF Position
  <2>3. Len(o.chain) * BlockSize \in Nat /\ o.bPos \in Nat
    BY PositionType, MulSucc
  <2> QED BY <2>1, <2>2, <2>3
<1>7. \A k \in 1..Len(r.chain) : \A j \in Idx :
        r.chain[k][j] = m[(k - 1) * BlockSize + j + 1]
  <2> TAKE k \in 1..Len(r.chain)
  <2>1. CASE k \in 1..Len(o.chain)
    <3>1. \A j \in Idx : o.chain[k][j] = m[(k - 1) * BlockSize + j + 1]
      BY <2>1, Zenon DEF HoldsPrefix
    <3>2. r.chain[k] = o.chain[k]
      BY <1>5, <2>1, Zenon
    <3> QED BY <3>1, <3>2, Zenon
  <2>2. CASE k = Len(o.chain) + 1
    <3>1. k - 1 = Len(o.chain)
      BY <1>5, <2>2
    <3>2. r.chain[k] = f.block
      BY <1>5, <2>2, Zenon
    <3> QED BY <1>2, <3>1, <3>2, Zenon
  <2> QED BY <1>5, <2>1, <2>2
<1>8. HoldsPrefix(r, m)
  <2>1. r.ingest = Len(m)
    BY <1>5 DEF HoldsPrefix
  <2>2. \A j \in 0..(r.bPos - 1) : r.block[j] = m[Len(r.chain) * BlockSize + j + 1]
    BY <1>5
  <2> QED BY <1>6, <1>7, <2>1, <2>2 DEF HoldsPrefix
<1> QED BY <1>5, <1>6, <1>8 DEF f, r

-----------------------------------------------------------------------------
(* sumIn(): the types, then what it computes. *)

LEMMA MarkedType ==
  ASSUME NEW o \in Obj
  PROVE  /\ Marked(o) \in Wide
         /\ Marked(o).chain = o.chain
         /\ Marked(o).bPos = o.bPos + 1
         /\ Marked(o).ingest = o.ingest
         /\ \A j \in Idx : Marked(o).block[j] =
                             IF j = o.bPos THEN MarkByte ELSE o.block[j]
<1> DEFINE blk == [o.block EXCEPT ![o.bPos] = MarkByte]
<1>1. o.block \in [Idx -> ByteVal] /\ o.bPos \in Idx
  BY DEF Obj, Block
<1>2. blk \in Block
  BY <1>1 DEF Block, ByteVal, MarkByte
<1>3. \A j \in Idx : blk[j] = IF j = o.bPos THEN MarkByte ELSE o.block[j]
  BY <1>1
<1>4. o.bPos + 1 \in 0..BlockSize
  BY PositionType, BlockArith
<1>5. Marked(o) = [o EXCEPT !.block = blk, !.bPos = o.bPos + 1]
  BY DEF Marked
<1> HIDE DEF blk
<1> QED BY <1>2, <1>3, <1>4, <1>5 DEF Obj, Wide

LEMMA SizedType ==
  ASSUME NEW o \in Wide
  PROVE  /\ Sized(o) \in Wide
         /\ Sized(o).chain = o.chain
         /\ Sized(o).ingest = o.ingest
         /\ \A j \in Idx : Sized(o).block[j] =
              IF j >= SizeSpace THEN LenByte(o.ingest, j - SizeSpace)
              ELSE IF j < o.bPos THEN o.block[j] ELSE ZeroByte
<1> DEFINE z == ZeroRest(o)
           blk == [j \in Idx |-> IF j < SizeSpace THEN z.block[j]
                                  ELSE LenByte(o.ingest, j - SizeSpace)]
<1>1. /\ z \in Wide /\ z.chain = o.chain /\ z.ingest = o.ingest
      /\ \A j \in Idx : z.block[j] = IF j < o.bPos THEN o.block[j] ELSE ZeroByte
  BY ZeroRestType
<1>2. z.block \in [Idx -> ByteVal] /\ o.ingest \in Nat
  BY <1>1 DEF Wide, Block
<1>3. Sized(o) = [z EXCEPT !.block = blk]
  BY DEF Sized
<1> HIDE DEF z
<1>4. blk \in Block
  <2> SUFFICES ASSUME NEW j \in Idx
               PROVE  (IF j < SizeSpace THEN z.block[j]
                       ELSE LenByte(o.ingest, j - SizeSpace)) \in ByteVal
    BY DEF Block
  <2>1. CASE j < SizeSpace
    BY <1>2, <2>1
  <2>2. CASE ~(j < SizeSpace)
    <3>1. j - SizeSpace \in 0..LenSpace-1
      BY <2>2, BlockArith, SizesAssumption DEF Idx
    <3>2. LenByte(o.ingest, j - SizeSpace) \in ByteVal
      BY <1>2, <3>1, LenByteType
    <3> QED BY <2>2, <3>2
  <2> QED BY <2>1, <2>2
<1>5. \A j \in Idx : blk[j] =
        IF j >= SizeSpace THEN LenByte(o.ingest, j - SizeSpace)
        ELSE IF j < o.bPos THEN o.block[j] ELSE ZeroByte
  <2> TAKE j \in Idx
  <2>1. j \in Nat
    BY DEF Idx
  <2> QED BY <1>1, <2>1, BlockArith
<1> HIDE DEF blk
<1> QED BY <1>1, <1>3, <1>4, <1>5 DEF Wide

LEMMA FlushedType ==
  ASSUME NEW o \in Wide
  PROVE  /\ Flushed(o) \in Wide
         /\ Flushed(o).ingest = o.ingest
<1>1. ZeroRest(o) \in Wide /\ ZeroRest(o).ingest = o.ingest
  BY ZeroRestType
<1>2. Hash(ZeroRest(o)) \in Wide /\ Hash(ZeroRest(o)).ingest = o.ingest
  BY <1>1, HashType, ObjIsWide
<1> QED BY <1>2 DEF Flushed

LEMMA FinalType ==
  ASSUME NEW o \in Obj
  PROVE  Final(o) \in Obj
BY MarkedType, FlushedType, SizedType, HashType DEF Final

-----------------------------------------------------------------------------
(* The inductive invariant: TypeOK needs Absorbed, which keeps a write() in *)
(* progress inside its data and its block.                                  *)

IInv == TypeOK /\ Absorbed

\* An object that no write() is working on
Good(o, m) ==
  /\ o \in Obj
  /\ m \in Seq(ByteVal)
  /\ HoldsPrefix(o, m)
  /\ Position(o) = Len(m)

LEMMA EmptyGood ==
  ASSUME NEW b \in Block
  PROVE  Good(Empty(b), <<>>)
<1>1. Empty(b) \in Obj
  BY EmptyType
<1>2. /\ Empty(b).chain = <<>> /\ Empty(b).bPos = 0 /\ Empty(b).ingest = 0
      /\ Len(Empty(b).chain) = 0
  BY DEF Empty
<1>3. 0 * BlockSize = 0
  BY BlockArith
<1>4. Position(Empty(b)) = 0
  BY <1>2, <1>3 DEF Position
<1>5. HoldsPrefix(Empty(b), <<>>)
  BY <1>2, <1>4 DEF HoldsPrefix
<1> QED BY <1>1, <1>4, <1>5 DEF Good

LEMMA ZeroBlockType == ZeroBlock \in Block
BY DEF ZeroBlock, Block, ByteVal, ZeroByte

\* Between calls the invariant says that every live object is good
LEMMA IdleInv ==
  ASSUME IInv, Idle
  PROVE  /\ \A c \in Ctx \ spent : Good(obj[c], msg[c])
         /\ \A c \in Ctx : obj[c] \in Obj /\ msg[c] \in Seq(ByteVal) /\ obj[c].block \in Block
BY DEF IInv, TypeOK, Absorbed, Idle, Good, Obj

\* A call that gives the object c a good state, and leaves no write() behind
LEMMA SetGood ==
  ASSUME IInv, Idle, NEW c \in Ctx, NEW o, NEW m, Good(o, m),
         obj' = [obj EXCEPT ![c] = o],
         msg' = [msg EXCEPT ![c] = m],
         spent' = spent \ {c},
         call' = call
  PROVE  IInv'
<1>1. /\ obj \in [Ctx -> Obj] /\ msg \in [Ctx -> Seq(ByteVal)] /\ spent \in SUBSET Ctx
      /\ call = {}
  BY DEF IInv, TypeOK, Idle
<1>2. o \in Obj /\ m \in Seq(ByteVal)
  BY DEF Good
<1>3. TypeOK'
  BY <1>1, <1>2 DEF TypeOK
<1>4. \A d \in Ctx \ spent' : Good(obj'[d], msg'[d])
  BY <1>1, IdleInv
<1>5. Absorbed'
  BY <1>1, <1>4 DEF Absorbed, Good
<1> QED BY <1>3, <1>5 DEF IInv

-----------------------------------------------------------------------------
(* One lemma per action that changes an object. *)

LEMMA WriteBeginKeeps ==
  ASSUME IInv, NEW c \in Ctx, NEW data \in Data, WriteBegin(c, data)
  PROVE  IInv'
<1> DEFINE m == msg[c] \o data
           o == obj[c]
           n == [o EXCEPT !.ingest = @ + Len(data)]
           w == [ctx |-> c, data |-> data, dPos |-> 0, nToWrite |-> Len(data),
                 space |-> BlockSize - o.bPos]
<1>1. /\ obj \in [Ctx -> Obj] /\ msg \in [Ctx -> Seq(ByteVal)] /\ spent \in SUBSET Ctx
      /\ call = {} /\ c \notin spent
  BY DEF IInv, TypeOK, WriteBegin, Idle
<1>2. /\ obj' = [obj EXCEPT ![c] = n] /\ call' = {w}
      /\ msg' = [msg EXCEPT ![c] = m] /\ spent' = spent
  BY DEF WriteBegin
<1>3. /\ o \in Obj /\ msg[c] \in Seq(ByteVal) /\ HoldsPrefix(o, msg[c])
      /\ Position(o) = Len(msg[c])
  BY <1>1, IdleInv DEF WriteBegin, Good
<1>4. data \in Seq(ByteVal)
  BY DataAssumption
<1>5. /\ m \in Seq(ByteVal) /\ Len(m) = Len(msg[c]) + Len(data)
      /\ Len(data) \in Nat /\ Len(msg[c]) \in Nat
      /\ \A i \in 1..Len(msg[c]) : m[i] = msg[c][i]
      /\ \A i \in 1..Len(data) : m[Len(msg[c]) + i] = data[i]
  BY <1>3, <1>4
<1>6. /\ n \in Obj /\ n.chain = o.chain /\ n.block = o.block /\ n.bPos = o.bPos
      /\ n.ingest = o.ingest + Len(data)
  <2> DEFINE total == o.ingest + Len(data)
  <2>1. total \in Nat
    BY <1>3, <1>5 DEF Obj
  <2>2. n = [o EXCEPT !.ingest = total]
    OBVIOUS
  <2> HIDE DEF total, n
  <2>3. n \in Obj /\ n.chain = o.chain /\ n.block = o.block /\ n.bPos = o.bPos
        /\ n.ingest = total
    BY <1>3, <2>1, <2>2 DEF Obj
  <2> QED BY <2>3 DEF total
<1>7. BlockSize - o.bPos \in 1..BlockSize
  BY <1>3, PositionType, BlockArith
<1> HIDE DEF m, n
<1>8. HoldsPrefix(n, m)
  <2>1. n.ingest = Len(m)
    BY <1>3, <1>5, <1>6 DEF HoldsPrefix
  <2>2. Position(n) = Position(o) /\ Position(o) \in Nat
    BY <1>3, <1>6, PositionType DEF Position
  <2>3. Position(n) <= Len(m)
    BY <1>3, <1>5, <2>2
  <2>4. \A k \in 1..Len(n.chain) : \A j \in Idx :
          n.chain[k][j] = m[(k - 1) * BlockSize + j + 1]
    <3> SUFFICES ASSUME NEW k \in 1..Len(o.chain), NEW j \in Idx
                 PROVE  o.chain[k][j] = m[(k - 1) * BlockSize + j + 1]
      BY <1>6
    <3>1. o.chain[k][j] = msg[c][(k - 1) * BlockSize + j + 1]
      BY <1>3 DEF HoldsPrefix
    <3>2. (k - 1) * BlockSize + j + 1 \in 1..Len(msg[c])
      <4>1. Len(o.chain) \in Nat /\ Position(o) = Len(o.chain) * BlockSize + o.bPos
            /\ o.bPos \in Nat
        BY <1>3, PositionType
      <4>2. k - 1 \in Nat /\ k - 1 < Len(o.chain)
        BY <4>1
      <4>3. (k - 1) * BlockSize + BlockSize <= Len(o.chain) * BlockSize
        BY <4>1, <4>2, MulMono
      <4>4. (k - 1) * BlockSize \in Nat /\ Len(o.chain) * BlockSize \in Nat
        BY <4>1, <4>2, MulSucc
      <4>5. j \in Nat /\ j + 1 <= BlockSize
        BY BlockArith DEF Idx
      <4> DEFINE x == (k - 1) * BlockSize
                 y == Len(o.chain) * BlockSize
      <4>6. x \in Nat /\ y \in Nat /\ x + BlockSize <= y /\ Len(msg[c]) = y + o.bPos
        BY <1>3, <4>1, <4>3, <4>4
      <4> HIDE DEF x, y
      <4>7. x + j + 1 \in 1..Len(msg[c])
        BY <1>5, <4>1, <4>5, <4>6, BlockArith
      <4> QED BY <4>7 DEF x
    <3> QED BY <1>5, <3>1, <3>2
  <2>5. \A j \in 0..(n.bPos - 1) : n.block[j] = m[Len(n.chain) * BlockSize + j + 1]
    <3> SUFFICES ASSUME NEW j \in 0..(o.bPos - 1)
                 PROVE  o.block[j] = m[Len(o.chain) * BlockSize + j + 1]
      BY <1>6
    <3>1. o.block[j] = msg[c][Len(o.chain) * BlockSize + j + 1]
      BY <1>3 DEF HoldsPrefix
    <3>2. Len(o.chain) * BlockSize + j + 1 \in 1..Len(msg[c])
      <4> DEFINE y == Len(o.chain) * BlockSize
      <4>1. y \in Nat /\ Len(msg[c]) = y + o.bPos /\ o.bPos \in Nat
        BY <1>3, PositionType, MulSucc
      <4> HIDE DEF y
      <4>2. y + j + 1 \in 1..Len(msg[c])
        BY <1>5, <4>1
      <4> QED BY <4>2 DEF y
    <3> QED BY <1>5, <3>1, <3>2
  <2> QED BY <2>1, <2>3, <2>4, <2>5 DEF HoldsPrefix
<1>9. Position(n) = Len(msg[c])
  BY <1>3, <1>6 DEF Position
<1>10. TypeOK'
  <2>1. w \in [ctx : Ctx, data : Data, dPos : Nat, nToWrite : Nat, space : 1..BlockSize]
    BY <1>5, <1>7
  <2> QED BY <1>1, <1>2, <1>5, <1>6, <2>1 DEF TypeOK
<1>11. Absorbed'
  <2>1. \A d \in Ctx \ spent' :
          /\ HoldsPrefix(obj'[d], msg'[d])
          /\ (\A v \in call' : v.ctx # d) => Position(obj'[d]) = Len(msg'[d])
    <3> TAKE d \in Ctx \ spent'
    <3>1. CASE d = c
      <4>1. w \in call' /\ w.ctx = d
        BY <1>2, <3>1
      <4>2. obj'[d] = n /\ msg'[d] = m
        BY <1>1, <1>2, <3>1
      <4> QED BY <1>8, <4>1, <4>2
    <3>2. CASE d # c
      <4>1. obj'[d] = obj[d] /\ msg'[d] = msg[d]
        BY <1>1, <1>2, <3>2
      <4>2. Good(obj[d], msg[d])
        BY <1>1, <1>2, IdleInv DEF Idle
      <4> QED BY <4>1, <4>2 DEF Good
    <3> QED BY <3>1, <3>2
  <2>2. \A v \in call' :
          /\ Position(obj'[v.ctx]) + v.nToWrite = Len(msg'[v.ctx])
          /\ v.dPos + v.nToWrite = Len(v.data)
          /\ v.space = BlockSize - obj'[v.ctx].bPos
          /\ \A i \in 1..v.nToWrite :
               v.data[v.dPos + i] = msg'[v.ctx][Position(obj'[v.ctx]) + i]
    <3> TAKE v \in call'
    <3>1. v = w
      BY <1>2
    <3>2. v.data = data /\ v.nToWrite = Len(data) /\ v.dPos = 0
          /\ v.space = BlockSize - o.bPos /\ v.ctx = c
      BY <3>1
    <3> HIDE DEF w
    <3>3. obj'[v.ctx] = n /\ msg'[v.ctx] = m
      BY <1>1, <1>2, <3>2
    <3>4. \A i \in 1..Len(data) : 0 + i = i
      BY <1>5
    <3>5. Position(n) + v.nToWrite = Len(m)
      BY <1>5, <1>9, <3>2
    <3>6. v.dPos + v.nToWrite = Len(v.data) /\ v.space = BlockSize - n.bPos
      BY <1>5, <1>6, <3>2
    <3>7. \A i \in 1..v.nToWrite : v.data[v.dPos + i] = m[Position(n) + i]
      BY <1>5, <1>9, <3>2, <3>4
    <3> QED BY <3>3, <3>5, <3>6, <3>7
  <2> QED BY <2>1, <2>2 DEF Absorbed
<1> QED BY <1>10, <1>11 DEF IInv

\* What the invariant says of the write() in progress
LEMMA CallInv ==
  ASSUME IInv, NEW w \in call
  PROVE  /\ w.ctx \in Ctx \ spent
         /\ obj[w.ctx] \in Obj /\ msg[w.ctx] \in Seq(ByteVal)
         /\ HoldsPrefix(obj[w.ctx], msg[w.ctx])
         /\ w.data \in Data /\ w.data \in Seq(ByteVal)
         /\ w.dPos \in Nat /\ w.nToWrite \in Nat /\ w.space \in 1..BlockSize
         /\ Position(obj[w.ctx]) + w.nToWrite = Len(msg[w.ctx])
         /\ w.dPos + w.nToWrite = Len(w.data)
         /\ w.space = BlockSize - obj[w.ctx].bPos
         /\ \A i \in 1..w.nToWrite :
              w.data[w.dPos + i] = msg[w.ctx][Position(obj[w.ctx]) + i]
         /\ \A d \in Ctx \ spent : d # w.ctx => Good(obj[d], msg[d])
         /\ call = {w}
<1>1. /\ obj \in [Ctx -> Obj] /\ msg \in [Ctx -> Seq(ByteVal)]
      /\ w \in [ctx : Ctx, data : Data, dPos : Nat, nToWrite : Nat, space : 1..BlockSize]
      /\ \A v \in call : v = w
      /\ w.ctx \notin spent
  BY DEF IInv, TypeOK
<1>2. w.data \in Data /\ w.data \in Seq(ByteVal)
  BY <1>1, DataAssumption
<1>3. call = {w}
  BY <1>1
<1>4. \A d \in Ctx \ spent : d # w.ctx => Good(obj[d], msg[d])
  BY <1>1, <1>3 DEF IInv, Absorbed, Good
<1> QED BY <1>1, <1>2, <1>3, <1>4 DEF IInv, Absorbed

LEMMA WriteTailKeeps ==
  ASSUME IInv, WriteTail
  PROVE  IInv'
<1> PICK w \in call :
      /\ w.nToWrite > 0
      /\ w.space > w.nToWrite
      /\ obj' = [obj EXCEPT ![w.ctx] = Advance(@, w.data, w.dPos, w.nToWrite)]
      /\ call' = {}
      /\ UNCHANGED <<msg, spent, out>>
  BY DEF WriteTail
<1> DEFINE c == w.ctx
           o == obj[c]
           m == msg[c]
           r == Advance(o, w.data, w.dPos, w.nToWrite)
<1>1. /\ obj \in [Ctx -> Obj] /\ msg \in [Ctx -> Seq(ByteVal)] /\ spent \in SUBSET Ctx
      /\ c \in Ctx \ spent
      /\ o \in Obj /\ m \in Seq(ByteVal) /\ HoldsPrefix(o, m)
      /\ w.data \in Seq(ByteVal) /\ w.dPos \in Nat /\ w.nToWrite \in Nat
      /\ Position(o) + w.nToWrite = Len(m)
      /\ w.dPos + w.nToWrite = Len(w.data)
      /\ w.space = BlockSize - o.bPos
      /\ \A i \in 1..w.nToWrite : w.data[w.dPos + i] = m[Position(o) + i]
      /\ \A d \in Ctx \ spent : d # c => Good(obj[d], msg[d])
  BY CallInv DEF IInv, TypeOK
<1>2. /\ obj' = [obj EXCEPT ![c] = r] /\ msg' = msg /\ spent' = spent /\ call' = {}
  OBVIOUS
<1>3. /\ w.dPos + w.nToWrite <= Len(w.data)
      /\ o.bPos + w.nToWrite < BlockSize
      /\ Position(o) + w.nToWrite <= Len(m)
  BY <1>1, PositionType, BlockArith
<1>4. r \in Obj /\ HoldsPrefix(r, m) /\ Position(r) = Position(o) + w.nToWrite
  BY <1>1, <1>3, TailHolds, ZenonT(30)
<1> HIDE DEF r, c, o, m
<1>5. Good(r, m)
  BY <1>1, <1>4 DEF Good
<1>6. \A d \in Ctx \ spent' : Good(obj'[d], msg'[d])
  BY <1>1, <1>2, <1>5 DEF m
<1>7. TypeOK'
  BY <1>1, <1>2, <1>4 DEF TypeOK
<1>8. Absorbed'
  BY <1>2, <1>6 DEF Absorbed, Good
<1> QED BY <1>7, <1>8 DEF IInv

LEMMA WriteBlockKeeps ==
  ASSUME IInv, WriteBlock
  PROVE  IInv'
<1> PICK w \in call :
      /\ w.nToWrite > 0
      /\ w.space <= w.nToWrite
      /\ obj' = [obj EXCEPT ![w.ctx] = Hash(Fill(@, w.data, w.dPos, w.space))]
      /\ call' = {[w EXCEPT !.dPos = @ + w.space, !.nToWrite = @ - w.space,
                            !.space = BlockSize]}
      /\ UNCHANGED <<msg, spent, out>>
  BY DEF WriteBlock
<1> DEFINE c == w.ctx
           o == obj[c]
           m == msg[c]
           r == Hash(Fill(o, w.data, w.dPos, w.space))
           v == [w EXCEPT !.dPos = @ + w.space, !.nToWrite = @ - w.space,
                          !.space = BlockSize]
<1>1. /\ obj \in [Ctx -> Obj] /\ msg \in [Ctx -> Seq(ByteVal)] /\ spent \in SUBSET Ctx
      /\ w \in [ctx : Ctx, data : Data, dPos : Nat, nToWrite : Nat, space : 1..BlockSize]
      /\ c \in Ctx \ spent
      /\ \A d \in Ctx \ spent : d # c => Good(obj[d], msg[d])
  BY CallInv DEF IInv, TypeOK
<1>2. o \in Obj /\ m \in Seq(ByteVal) /\ HoldsPrefix(o, m) /\ w.data \in Seq(ByteVal)
  BY CallInv
<1>3. \A i \in 1..w.nToWrite : w.data[w.dPos + i] = m[Position(o) + i]
  BY CallInv
<1>4. /\ w.nToWrite \in Nat /\ w.dPos \in Nat
      /\ Position(o) + w.nToWrite = Len(m) /\ w.dPos + w.nToWrite = Len(w.data)
      /\ w.space = BlockSize - o.bPos
  BY CallInv
<1>5. /\ obj' = [obj EXCEPT ![c] = r] /\ msg' = msg /\ spent' = spent /\ call' = {v}
  OBVIOUS
<1> HIDE DEF c, o, m, v
<1>6. Position(o) \in Nat /\ o.bPos \in Nat /\ o.bPos < BlockSize
  BY <1>2, PositionType
<1>7. w.space \in Nat /\ w.space <= w.nToWrite
  BY <1>4, <1>6, BlockArith
<1>8. /\ r \in Obj /\ r.bPos = 0 /\ HoldsPrefix(r, m)
      /\ Position(r) = Position(o) + w.space
  <2>1. w.dPos + w.space <= Len(w.data) /\ Position(o) + w.space <= Len(m)
    BY <1>4, <1>6, <1>7
  <2>2. o.bPos + w.space = BlockSize
    BY <1>4, <1>6, BlockArith
  <2>3. \A i \in 1..w.space : w.data[w.dPos + i] = m[Position(o) + i]
    <3>1. \A i \in 1..w.space : i \in 1..w.nToWrite
      BY <1>4, <1>7
    <3> QED BY <1>3, <3>1
  <2>4. w.dPos \in Nat /\ w.space \in Nat
    BY <1>4, <1>7
  <2> QED BY <1>2, <2>1, <2>2, <2>3, <2>4, BlockHolds
<1> HIDE DEF r
<1>9. /\ v \in [ctx : Ctx, data : Data, dPos : Nat, nToWrite : Nat, space : 1..BlockSize]
      /\ v.ctx = c /\ v.data = w.data /\ v.dPos = w.dPos + w.space
      /\ v.nToWrite = w.nToWrite - w.space /\ v.space = BlockSize
  <2> DEFINE left == w.nToWrite - w.space
             next == w.dPos + w.space
  <2>1. left \in Nat /\ next \in Nat /\ BlockSize \in 1..BlockSize
    BY <1>4, <1>7, BlockArith
  <2>2. v = [w EXCEPT !.dPos = next, !.nToWrite = left, !.space = BlockSize]
    BY DEF v
  <2> HIDE DEF left, next
  <2>3. /\ v \in [ctx : Ctx, data : Data, dPos : Nat, nToWrite : Nat, space : 1..BlockSize]
        /\ v.ctx = w.ctx /\ v.data = w.data /\ v.dPos = next
        /\ v.nToWrite = left /\ v.space = BlockSize
    BY <1>1, <2>1, <2>2
  <2> QED BY <2>3 DEF left, next, c
<1>10. obj'[c] = r /\ msg'[c] = m
  BY <1>1, <1>5 DEF m
<1>11. TypeOK'
  <2>1. obj' \in [Ctx -> Obj]
    BY <1>1, <1>5, <1>8
  <2>2. /\ call' \in SUBSET [ctx : Ctx, data : Data, dPos : Nat, nToWrite : Nat,
                             space : 1..BlockSize]
        /\ \A t, u \in call' : t = u
        /\ \A u \in call' : u.ctx \notin spent'
    BY <1>1, <1>5, <1>9
  <2> QED BY <1>1, <1>5, <2>1, <2>2 DEF TypeOK
<1>12. \A d \in Ctx \ spent' :
         /\ HoldsPrefix(obj'[d], msg'[d])
         /\ (\A u \in call' : u.ctx # d) => Position(obj'[d]) = Len(msg'[d])
  <2> TAKE d \in Ctx \ spent'
  <2>1. CASE d = c
    <3>1. v \in call' /\ v.ctx = d
      BY <1>5, <1>9, <2>1
    <3> QED BY <1>8, <1>10, <2>1, <3>1
  <2>2. CASE d # c
    <3>1. obj'[d] = obj[d] /\ msg'[d] = msg[d] /\ Good(obj[d], msg[d])
      BY <1>1, <1>5, <2>2
    <3> QED BY <3>1 DEF Good
  <2> QED BY <2>1, <2>2
<1>13. v.nToWrite = w.nToWrite - w.space /\ v.dPos = w.dPos + w.space
       /\ v.data = w.data /\ v.space = BlockSize
  BY <1>9
<1>14. \A i \in 1..v.nToWrite : v.data[v.dPos + i] = m[Position(r) + i]
  <2> SUFFICES ASSUME NEW i \in 1..v.nToWrite
               PROVE  v.data[v.dPos + i] = m[Position(r) + i]
    OBVIOUS
  <2>1. i \in Nat /\ w.space + i \in 1..w.nToWrite
    BY <1>4, <1>7, <1>13
  <2>2. w.data[w.dPos + (w.space + i)] = m[Position(o) + (w.space + i)]
    BY <1>3, <2>1
  <2>3. w.dPos + (w.space + i) = v.dPos + i
    BY <1>4, <1>7, <1>13, <2>1
  <2>4. Position(o) + (w.space + i) = Position(r) + i
    BY <1>6, <1>7, <1>8, <2>1
  <2> QED BY <1>13, <2>2, <2>3, <2>4
<1>15. /\ Position(r) + v.nToWrite = Len(m)
       /\ v.dPos + v.nToWrite = Len(v.data)
       /\ v.space = BlockSize - r.bPos
  <2>1. Position(r) + v.nToWrite = Len(m)
    BY <1>4, <1>6, <1>7, <1>8, <1>13
  <2>2. v.dPos + v.nToWrite = Len(v.data)
    BY <1>4, <1>7, <1>13
  <2>3. v.space = BlockSize - r.bPos
    BY <1>8, <1>13, BlockArith
  <2> QED BY <2>1, <2>2, <2>3
<1>16. Absorbed'
  <2>1. \A u \in call' :
          /\ Position(obj'[u.ctx]) + u.nToWrite = Len(msg'[u.ctx])
          /\ u.dPos + u.nToWrite = Len(u.data)
          /\ u.space = BlockSize - obj'[u.ctx].bPos
          /\ \A i \in 1..u.nToWrite :
               u.data[u.dPos + i] = msg'[u.ctx][Position(obj'[u.ctx]) + i]
    <3> TAKE u \in call'
    <3>1. u = v
      BY <1>5
    <3>2. obj'[u.ctx] = r /\ msg'[u.ctx] = m
      BY <1>9, <1>10, <3>1
    <3> QED BY <1>14, <1>15, <3>1, <3>2
  <2> QED BY <1>12, <2>1, Zenon DEF Absorbed
<1> QED BY <1>11, <1>16 DEF IInv

LEMMA WriteEndKeeps ==
  ASSUME IInv, WriteEnd
  PROVE  IInv'
<1> PICK w \in call : w.nToWrite = 0
  BY DEF WriteEnd
<1>1. /\ obj' = obj /\ msg' = msg /\ spent' = spent /\ call' = {}
  BY DEF WriteEnd
<1>2. TypeOK'
  BY <1>1 DEF IInv, TypeOK
<1>3. Good(obj[w.ctx], msg[w.ctx])
  <2>1. /\ obj[w.ctx] \in Obj /\ msg[w.ctx] \in Seq(ByteVal)
        /\ HoldsPrefix(obj[w.ctx], msg[w.ctx])
        /\ Position(obj[w.ctx]) + 0 = Len(msg[w.ctx])
    BY CallInv
  <2>2. Position(obj[w.ctx]) \in Nat
    BY <2>1, PositionType
  <2> QED BY <2>1, <2>2 DEF Good
<1>4. \A d \in Ctx \ spent' : Good(obj'[d], msg'[d])
  BY <1>1, <1>3, CallInv
<1>5. Absorbed'
  BY <1>1, <1>4 DEF Absorbed, Good
<1> QED BY <1>2, <1>5 DEF IInv

LEMMA SumInKeeps ==
  ASSUME IInv, NEW c \in Ctx, SumIn(c)
  PROVE  IInv'
<1>1. /\ obj' = [obj EXCEPT ![c] = Final(obj[c])] /\ msg' = msg
      /\ spent' = spent \union {c} /\ call' = {} /\ call = {}
  BY DEF SumIn, Idle
<1>2. obj \in [Ctx -> Obj] /\ msg \in [Ctx -> Seq(ByteVal)] /\ spent \in SUBSET Ctx
  BY DEF IInv, TypeOK
<1>3. Final(obj[c]) \in Obj
  BY <1>2, FinalType
<1>4. TypeOK'
  BY <1>1, <1>2, <1>3 DEF TypeOK
<1>5. \A d \in Ctx \ spent' : Good(obj'[d], msg'[d])
  BY <1>1, <1>2, IdleInv DEF Idle
<1>6. Absorbed'
  BY <1>1, <1>5 DEF Absorbed, Good
<1> QED BY <1>4, <1>6 DEF IInv

LEMMA NextKeeps == IInv /\ [Next]_vars => IInv'
<1> SUFFICES ASSUME IInv, [Next]_vars
             PROVE  IInv'
  OBVIOUS
<1>1. CASE WriteEnd
  BY <1>1, WriteEndKeeps
<1>2. CASE WriteTail
  BY <1>2, WriteTailKeeps
<1>3. CASE WriteBlock
  BY <1>3, WriteBlockKeeps
<1>4. ASSUME NEW c \in Ctx, NEW data \in Data, WriteBegin(c, data)
      PROVE  IInv'
  BY <1>4, WriteBeginKeeps
<1>5. ASSUME NEW c \in Ctx, Sum(c)
      PROVE  IInv'
  BY <1>5 DEF Sum, IInv, TypeOK, Absorbed
<1>6. ASSUME NEW c \in Ctx, SumIn(c)
      PROVE  IInv'
  BY <1>6, SumInKeeps
<1>7. ASSUME NEW c \in Ctx, Reset(c)
      PROVE  IInv'
  <2>1. Idle /\ obj[c].block \in Block
    BY <1>7, IdleInv DEF Reset
  <2>2. Good(Empty(obj[c].block), <<>>)
    BY <2>1, EmptyGood
  <2> QED BY <1>7, <2>1, <2>2, SetGood DEF Reset
<1>8. ASSUME NEW c \in Ctx, NEW d \in Ctx, Clone(c, d)
      PROVE  IInv'
  <2>1. Idle /\ c \in Ctx \ spent
    BY <1>8 DEF Clone
  <2>2. Good(obj[c], msg[c])
    BY <2>1, IdleInv
  <2> QED BY <1>8, <2>1, <2>2, SetGood DEF Clone
<1>9. ASSUME NEW c \in Ctx, NEW d \in Ctx, NewEmpty(c, d)
      PROVE  IInv'
  <2>1. Good(Empty(ZeroBlock), <<>>)
    BY ZeroBlockType, EmptyGood
  <2> QED BY <1>9, <2>1, SetGood DEF NewEmpty
<1>10. CASE UNCHANGED vars
  BY <1>10 DEF vars, IInv, TypeOK, Absorbed
<1> QED BY <1>1, <1>2, <1>3, <1>4, <1>5, <1>6, <1>7, <1>8, <1>9, <1>10 DEF Next

LEMMA InitHolds == Init => IInv
<1> SUFFICES ASSUME Init
             PROVE  IInv
  OBVIOUS
<1> DEFINE e == Empty(ZeroBlock)
<1>1. Good(e, <<>>)
  BY ZeroBlockType, EmptyGood
<1> HIDE DEF e
<1>2. /\ obj = [c \in Ctx |-> e] /\ msg = [c \in Ctx |-> <<>>]
      /\ call = {} /\ spent = {}
  BY DEF Init, e
<1>3. TypeOK
  BY <1>1, <1>2 DEF Good, TypeOK
<1>4. Absorbed
  BY <1>1, <1>2 DEF Good, Absorbed
<1> QED BY <1>3, <1>4 DEF IInv

LEMMA Inductive == Spec => []IInv
BY InitHolds, NextKeeps, PTL DEF Spec

-----------------------------------------------------------------------------
(* sumIn() computes the padding of the algorithm. *)

LEMMA DivUnique ==
  ASSUME NEW q \in Nat, NEW r \in Nat, r < BlockSize
  PROVE  (q * BlockSize + r) \div BlockSize = q
<1> DEFINE x == q * BlockSize + r
           d == x \div BlockSize
<1>1. x \in Nat /\ q * BlockSize \in Nat
  BY MulSucc
<1>2. d \in Nat /\ d * BlockSize <= x /\ x < d * BlockSize + BlockSize
  <2> HIDE DEF x
  <2>1. d \in Nat
    BY <1>1, BlockArith
  <2>2. d * BlockSize = BlockSize * d
    BY <2>1, BlockArith
  <2> QED BY <1>1, <2>1, <2>2, BlockArith
<1> HIDE DEF d
<1>3. ~(d < q)
  <2> SUFFICES ASSUME d < q PROVE FALSE
    OBVIOUS
  <2>1. d * BlockSize + BlockSize <= q * BlockSize
    BY <1>2, MulMono
  <2> QED BY <1>1, <1>2, <2>1, MulSucc
<1>4. ~(q < d)
  <2> SUFFICES ASSUME q < d PROVE FALSE
    OBVIOUS
  <2>1. q * BlockSize + BlockSize <= d * BlockSize
    BY <1>2, MulMono
  <2> DEFINE y == q * BlockSize
             z == d * BlockSize
  <2>2. y \in Nat /\ z \in Nat /\ y + BlockSize <= z /\ z <= y + r
    BY <1>1, <1>2, <2>1, MulSucc
  <2> HIDE DEF y, z
  <2> QED BY <2>2, BlockArith
<1>5. d = q
  BY <1>2, <1>3, <1>4
<1> QED BY <1>5 DEF d

\* Two sequences of blocks are equal when their bytes are
LEMMA BlocksEqual ==
  ASSUME NEW s \in Seq(Block), NEW t \in Seq(Block), Len(s) = Len(t),
         \A k \in 1..Len(s) : \A j \in Idx : s[k][j] = t[k][j]
  PROVE  s = t
<1>1. \A k \in 1..Len(s) : s[k] = t[k]
  <2> TAKE k \in 1..Len(s)
  <2>1. s[k] \in [Idx -> ByteVal] /\ t[k] \in [Idx -> ByteVal]
    BY DEF Block
  <2> QED BY <2>1
<1>2. /\ s \in [1..Len(s) -> Block] /\ t \in [1..Len(t) -> Block]
  OBVIOUS
<1> QED BY <1>1, <1>2

LEMMA PadByteType ==
  ASSUME NEW m \in Seq(ByteVal), NEW n \in Nat, n > 0,
         NEW i \in Nat, i < n * BlockSize
  PROVE  PadByte(m, n * BlockSize, i) \in ByteVal
<1> DEFINE total == n * BlockSize
<1>1. total \in Nat /\ Len(m) \in Nat
  BY MulSucc
<1>2. total >= BlockSize
  BY MulMono, <1>1, BlockArith
<1> HIDE DEF total
<1>3. CASE i < Len(m)
  <2>1. i + 1 \in 1..Len(m)
    BY <1>1, <1>3
  <2> QED BY <1>3, <2>1 DEF PadByte
<1>4. CASE i = Len(m)
  BY <1>1, <1>4 DEF PadByte, MarkByte, ByteVal
<1>5. CASE i > Len(m)
  <2>1. CASE i < total - LenSpace
    BY <1>1, <1>5, <2>1 DEF PadByte, ZeroByte, ByteVal, total
  <2>2. CASE ~(i < total - LenSpace)
    <3>1. i - (total - LenSpace) \in 0..LenSpace-1
      BY <1>1, <1>2, <2>2, SizesAssumption DEF total
    <3>2. LenByte(Len(m), i - (total - LenSpace)) \in ByteVal
      BY <1>1, <3>1, LenByteType
    <3> QED BY <1>1, <1>5, <2>2, <3>2 DEF PadByte, total
  <2> QED BY <2>1, <2>2
<1> QED BY <1>1, <1>3, <1>4, <1>5

\* The bytes of the message are in their places
LEMMA MessageBytes ==
  ASSUME NEW o, NEW m, Good(o, m), NEW total \in Nat
  PROVE  /\ \A k \in 1..Len(o.chain) : \A j \in Idx :
              o.chain[k][j] = PadByte(m, total, (k - 1) * BlockSize + j)
         /\ \A j \in 0..(o.bPos - 1) :
              o.block[j] = PadByte(m, total, Len(o.chain) * BlockSize + j)
<1> DEFINE L == Len(o.chain)
<1>1. /\ o \in Obj /\ m \in Seq(ByteVal) /\ Len(m) \in Nat
      /\ Position(o) = Len(m) /\ HoldsPrefix(o, m)
  BY DEF Good
<1>2. /\ L \in Nat /\ o.bPos \in Nat /\ L * BlockSize \in Nat
      /\ Len(m) = L * BlockSize + o.bPos
  BY <1>1, PositionType, MulSucc
<1>3. ASSUME NEW k \in 1..L, NEW j \in Idx
      PROVE  o.chain[k][j] = PadByte(m, total, (k - 1) * BlockSize + j)
  <2>1. o.chain[k][j] = m[(k - 1) * BlockSize + j + 1]
    BY <1>1, <1>3 DEF HoldsPrefix
  <2>2. k - 1 \in Nat /\ k - 1 < L /\ j \in Nat /\ j < BlockSize
    BY <1>2, BlockArith DEF Idx
  <2>3. (k - 1) * BlockSize + BlockSize <= L * BlockSize /\ (k - 1) * BlockSize \in Nat
    BY <1>2, <2>2, MulMono, MulSucc
  <2> DEFINE x == (k - 1) * BlockSize
             y == L * BlockSize
  <2>4. x \in Nat /\ y \in Nat /\ x + BlockSize <= y /\ Len(m) = y + o.bPos
    BY <1>2, <2>3
  <2> HIDE DEF x, y
  <2>5. x + j < Len(m)
    BY <1>2, <2>2, <2>4, BlockArith
  <2>6. PadByte(m, total, x + j) = m[(x + j) + 1]
    BY <2>5 DEF PadByte
  <2> QED BY <2>1, <2>6 DEF x
<1>4. ASSUME NEW j \in 0..(o.bPos - 1)
      PROVE  o.block[j] = PadByte(m, total, L * BlockSize + j)
  <2>1. o.block[j] = m[L * BlockSize + j + 1]
    BY <1>1, <1>4 DEF HoldsPrefix
  <2> DEFINE y == L * BlockSize
  <2>2. y \in Nat /\ Len(m) = y + o.bPos
    BY <1>2
  <2> HIDE DEF y
  <2>3. y + j < Len(m)
    BY <1>2, <2>2
  <2>4. PadByte(m, total, y + j) = m[(y + j) + 1]
    BY <2>3 DEF PadByte
  <2> QED BY <2>1, <2>4 DEF y
<1> QED BY <1>3, <1>4

LEMMA PaddedType ==
  ASSUME NEW m \in Seq(ByteVal)
  PROVE  LET n == NBlocks(Len(m))
         IN  /\ n \in Nat /\ n > 0
             /\ Padded(m) \in Seq(Block)
             /\ Len(Padded(m)) = n
             /\ \A k \in 1..n : \A j \in Idx :
                  Padded(m)[k][j] = PadByte(m, n * BlockSize, (k - 1) * BlockSize + j)
<1> DEFINE n == NBlocks(Len(m))
           b(k) == [j \in Idx |-> PadByte(m, n * BlockSize, (k - 1) * BlockSize + j)]
<1>1. n \in Nat /\ n > 0
  <2>1. (Len(m) + LenSpace) \div BlockSize \in Nat
    BY BlockArith, SizesAssumption
  <2> QED BY <2>1 DEF NBlocks
<1> HIDE DEF n
<1>2. ASSUME NEW k \in 1..n
      PROVE  b(k) \in Block
  <2> SUFFICES ASSUME NEW j \in Idx
               PROVE  PadByte(m, n * BlockSize, (k - 1) * BlockSize + j) \in ByteVal
    BY DEF Block
  <2>1. k - 1 \in Nat /\ k - 1 < n /\ j \in Nat /\ j < BlockSize
    BY <1>1, BlockArith DEF Idx
  <2>2. (k - 1) * BlockSize + BlockSize <= n * BlockSize /\ (k - 1) * BlockSize \in Nat
        /\ n * BlockSize \in Nat
    BY <1>1, <2>1, MulMono, MulSucc
  <2> DEFINE x == (k - 1) * BlockSize
             y == n * BlockSize
  <2>3. x \in Nat /\ y \in Nat /\ x + BlockSize <= y
    BY <2>2
  <2> HIDE DEF x, y
  <2>4. x + j \in Nat /\ x + j < y
    BY <2>1, <2>3, BlockArith
  <2>5. PadByte(m, n * BlockSize, x + j) \in ByteVal
    BY <1>1, <2>4, PadByteType DEF y
  <2> QED BY <2>5 DEF x
<1>3. Padded(m) = [k \in 1..n |-> b(k)]
  BY DEF Padded, n
<1>4. \A k \in 1..n : Padded(m)[k] = b(k)
  BY <1>3
<1>5. \A k \in 1..n : \A j \in Idx :
        Padded(m)[k][j] = PadByte(m, n * BlockSize, (k - 1) * BlockSize + j)
  BY <1>4
<1> HIDE DEF b
<1>6. Padded(m) \in Seq(Block) /\ Len(Padded(m)) = n
  BY <1>1, <1>2, <1>3
<1> QED BY <1>1, <1>5, <1>6 DEF n

\* The mark, the zeros and the length, in a padded message whose end is known
LEMMA TailBytes ==
  ASSUME NEW m \in Seq(ByteVal), NEW total \in Nat, NEW i \in Nat,
         Len(m) + LenSpace < total
  PROVE  /\ i = Len(m) => PadByte(m, total, i) = MarkByte
         /\ (i > Len(m) /\ i < total - LenSpace) => PadByte(m, total, i) = ZeroByte
         /\ i >= total - LenSpace =>
              PadByte(m, total, i) = LenByte(Len(m), i - (total - LenSpace))
<1>1. Len(m) \in Nat /\ LenSpace \in Nat
  BY SizesAssumption
<1> DEFINE len == Len(m)
<1>2. len \in Nat /\ len + LenSpace < total
  BY <1>1
<1>3. PadByte(m, total, i) =
        IF i < len THEN m[i + 1]
        ELSE IF i = len THEN MarkByte
        ELSE IF i < total - LenSpace THEN ZeroByte
        ELSE LenByte(len, i - (total - LenSpace))
  BY DEF PadByte
<1> HIDE DEF len
<1>4. i = len => ~(i < len)
  BY <1>2
<1>5. (i > len /\ i < total - LenSpace) => ~(i < len) /\ i # len
  BY <1>2
<1>6. i >= total - LenSpace => ~(i < len) /\ i # len /\ ~(i < total - LenSpace)
  BY <1>1, <1>2
<1> QED BY <1>3, <1>4, <1>5, <1>6 DEF len

\* The length fits behind the mark: one more block
LEMMA FinalFits ==
  ASSUME NEW o, NEW m, Good(o, m), o.bPos + 1 <= SizeSpace
  PROVE  Final(o).chain = Padded(m)
<1> DEFINE L == Len(o.chain)
           p == o.bPos
           k1 == Marked(o)
           z == Sized(k1)
           s == Final(o).chain
           base == L * BlockSize
           total == (L + 1) * BlockSize
<1>1. /\ o \in Obj /\ m \in Seq(ByteVal) /\ Len(m) \in Nat /\ o.ingest = Len(m)
  BY DEF Good, HoldsPrefix
<1>2. /\ L \in Nat /\ p \in Nat /\ base \in Nat /\ Len(m) = base + p
      /\ total \in Nat /\ total = base + BlockSize
  <2>1. L \in Nat /\ p \in Nat /\ Position(o) = base + p /\ Position(o) = Len(m)
    BY <1>1, PositionType DEF Good
  <2>2. base \in Nat /\ total = base + BlockSize
    BY <2>1, MulSucc
  <2> HIDE DEF L, p, base, total
  <2> QED BY <2>1, <2>2, BlockArith
<1>3. /\ k1 \in Wide /\ k1.chain = o.chain /\ k1.bPos = p + 1 /\ k1.ingest = Len(m)
      /\ \A j \in Idx : k1.block[j] = IF j = p THEN MarkByte ELSE o.block[j]
  BY <1>1, MarkedType
<1>4. Flushed(k1) = k1
  BY <1>2, <1>3, BlockArith DEF Flushed
<1>5. /\ z \in Wide /\ z.chain = o.chain
      /\ \A j \in Idx : z.block[j] =
           IF j >= SizeSpace THEN LenByte(Len(m), j - SizeSpace)
           ELSE IF j < p + 1 THEN k1.block[j] ELSE ZeroByte
  BY <1>3, SizedType
<1>6. Final(o) = Hash(z)
  BY <1>4 DEF Final
<1> HIDE DEF k1, z
<1>7. /\ s \in Seq(Block) /\ Len(s) = L + 1
      /\ \A k \in 1..L : s[k] = o.chain[k]
      /\ s[L + 1] = z.block
  <2>1. Hash(z) \in Obj
    BY <1>5, HashType
  <2>2. /\ Len(Hash(z).chain) = Len(z.chain) + 1
        /\ \A k \in 1..Len(z.chain) : Hash(z).chain[k] = z.chain[k]
        /\ Hash(z).chain[Len(z.chain) + 1] = z.block
    BY <1>5, HashChain
  <2> QED BY <1>5, <1>6, <2>1, <2>2 DEF Obj
<1>8. NBlocks(Len(m)) = L + 1
  <2>1. p + LenSpace \in Nat /\ p + LenSpace < BlockSize
    BY <1>2, BlockArith, SizesAssumption
  <2>2. (base + (p + LenSpace)) \div BlockSize = L
    BY <1>2, <2>1, DivUnique
  <2>3. Len(m) + LenSpace = base + (p + LenSpace)
    BY <1>2, SizesAssumption
  <2> QED BY <2>2, <2>3 DEF NBlocks
<1>9. /\ Padded(m) \in Seq(Block) /\ Len(Padded(m)) = L + 1
      /\ \A k \in 1..(L + 1) : \A j \in Idx :
           Padded(m)[k][j] = PadByte(m, total, (k - 1) * BlockSize + j)
  BY <1>1, <1>8, PaddedType
<1>10. /\ \A k \in 1..L : \A j \in Idx :
            o.chain[k][j] = PadByte(m, total, (k - 1) * BlockSize + j)
       /\ \A j \in 0..(p - 1) : o.block[j] = PadByte(m, total, base + j)
  BY <1>2, MessageBytes
<1> HIDE DEF s
<1>11. ASSUME NEW j \in Idx
       PROVE  z.block[j] = PadByte(m, total, base + j)
  <2> HIDE DEF total, base, p, L
  <2>1. /\ j \in Nat /\ base + j \in Nat /\ Len(m) + LenSpace < total
        /\ LenSpace \in Nat /\ SizeSpace + LenSpace = BlockSize /\ SizeSpace \in Nat
    BY <1>2, BlockArith, SizesAssumption DEF p, Idx
  <2>2. CASE j >= SizeSpace
    <3>1. base + j >= total - LenSpace /\ (base + j) - (total - LenSpace) = j - SizeSpace
      BY <1>2, <2>1, <2>2
    <3>2. PadByte(m, total, base + j)
             = LenByte(Len(m), (base + j) - (total - LenSpace))
      BY <1>1, <1>2, <2>1, <3>1, TailBytes
    <3> QED BY <1>5, <2>2, <3>1, <3>2
  <2>3. CASE j < SizeSpace /\ j < p
    <3>1. z.block[j] = o.block[j]
      BY <1>2, <1>3, <1>5, <2>1, <2>3
    <3>2. j \in 0..(p - 1)
      BY <1>2, <2>1, <2>3
    <3> QED BY <1>10, <3>1, <3>2
  <2>4. CASE j < SizeSpace /\ j = p
    <3>1. z.block[j] = MarkByte
      BY <1>2, <1>3, <1>5, <2>1, <2>4
    <3>2. base + j = Len(m)
      BY <1>2, <2>4
    <3> QED BY <1>1, <1>2, <2>1, <3>1, <3>2, TailBytes
  <2>5. CASE j < SizeSpace /\ j > p
    <3>1. z.block[j] = ZeroByte
      BY <1>2, <1>5, <2>1, <2>5
    <3>2. base + j > Len(m) /\ base + j < total - LenSpace
      BY <1>2, <2>1, <2>5
    <3> QED BY <1>1, <1>2, <2>1, <3>1, <3>2, TailBytes
  <2> QED BY <1>2, <2>1, <2>2, <2>3, <2>4, <2>5
<1>12. \A k \in 1..(L + 1) : \A j \in Idx : s[k][j] = Padded(m)[k][j]
  <2> TAKE k \in 1..(L + 1)
  <2> TAKE j \in Idx
  <2>1. CASE k \in 1..L
    BY <1>7, <1>9, <1>10, <2>1
  <2>2. CASE k = L + 1
    <3>1. k - 1 = L
      BY <1>2, <2>2
    <3> QED BY <1>7, <1>9, <1>11, <2>2, <3>1
  <2> QED BY <1>2, <2>1, <2>2
<1>13. s = Padded(m)
  BY <1>7, <1>9, <1>12, BlocksEqual
<1> QED BY <1>13 DEF s

\* The length does not fit: the block is closed, and the length goes in the next
LEMMA FinalSpills ==
  ASSUME NEW o, NEW m, Good(o, m), o.bPos + 1 > SizeSpace
  PROVE  Final(o).chain = Padded(m)
<1> DEFINE L == Len(o.chain)
           p == o.bPos
           k1 == Marked(o)
           z1 == ZeroRest(k1)
           h1 == Hash(z1)
           z == Sized(h1)
           s == Final(o).chain
           base == L * BlockSize
           total == ((L + 1) + 1) * BlockSize
<1>1. /\ o \in Obj /\ m \in Seq(ByteVal) /\ Len(m) \in Nat /\ o.ingest = Len(m)
  BY DEF Good, HoldsPrefix
<1>2. /\ L \in Nat /\ p \in Nat /\ p < BlockSize /\ base \in Nat /\ Len(m) = base + p
      /\ total \in Nat /\ total = base + BlockSize + BlockSize
      /\ (L + 1) * BlockSize = base + BlockSize
  <2>1. /\ L \in Nat /\ p \in Nat /\ p < BlockSize
        /\ Position(o) = base + p /\ Position(o) = Len(m)
    BY <1>1, PositionType DEF Good
  <2>2. base \in Nat /\ (L + 1) * BlockSize = base + BlockSize
    BY <2>1, MulSucc
  <2>3. L + 1 \in Nat
    BY <2>1
  <2>4. total = (L + 1) * BlockSize + BlockSize
    BY <2>3, MulSucc
  <2> HIDE DEF L, p, base, total
  <2> QED BY <2>1, <2>2, <2>4, BlockArith
<1>3. /\ k1 \in Wide /\ k1.chain = o.chain /\ k1.bPos = p + 1 /\ k1.ingest = Len(m)
      /\ \A j \in Idx : k1.block[j] = IF j = p THEN MarkByte ELSE o.block[j]
  BY <1>1, MarkedType
<1>4. Flushed(k1) = h1
  BY <1>3 DEF Flushed
<1>5. /\ z1 \in Wide /\ z1.chain = o.chain /\ z1.ingest = Len(m)
      /\ \A j \in Idx : z1.block[j] = IF j < p + 1 THEN k1.block[j] ELSE ZeroByte
  BY <1>3, ZeroRestType
<1>6. Final(o) = Hash(z)
  BY <1>4 DEF Final
<1> HIDE DEF k1, z1
<1>7. /\ h1 \in Wide /\ h1.bPos = 0 /\ h1.ingest = Len(m)
      /\ Len(h1.chain) = L + 1
      /\ \A k \in 1..L : h1.chain[k] = o.chain[k]
      /\ h1.chain[L + 1] = z1.block
  BY <1>5, HashType, HashChain, ObjIsWide
<1> HIDE DEF h1
<1>8. /\ z \in Wide /\ z.chain = h1.chain
      /\ \A j \in Idx : z.block[j] =
           IF j >= SizeSpace THEN LenByte(Len(m), j - SizeSpace)
           ELSE IF j < 0 THEN h1.block[j] ELSE ZeroByte
  BY <1>7, SizedType
<1> HIDE DEF z
<1>9. /\ s \in Seq(Block) /\ Len(s) = (L + 1) + 1
      /\ \A k \in 1..L : s[k] = o.chain[k]
      /\ s[L + 1] = z1.block
      /\ s[(L + 1) + 1] = z.block
  <2>1. Hash(z) \in Obj
    BY <1>8, HashType
  <2>2. /\ Len(Hash(z).chain) = Len(z.chain) + 1
        /\ \A k \in 1..Len(z.chain) : Hash(z).chain[k] = z.chain[k]
        /\ Hash(z).chain[Len(z.chain) + 1] = z.block
    BY <1>8, HashChain
  <2> HIDE DEF L
  <2>3. /\ \A k \in 1..L : k \in 1..(L + 1)
        /\ L + 1 \in 1..(L + 1)
    BY <1>2
  <2> QED BY <1>6, <1>7, <1>8, <2>1, <2>2, <2>3 DEF Obj
<1>10. NBlocks(Len(m)) = (L + 1) + 1
  <2> DEFINE r == p + LenSpace - BlockSize
  <2> HIDE DEF L, p, base
  <2>1. r \in Nat /\ r < BlockSize
    BY <1>2, BlockArith, SizesAssumption DEF p
  <2>2. ((L + 1) * BlockSize + r) \div BlockSize = L + 1
    <3>1. L + 1 \in Nat
      BY <1>2
    <3> HIDE DEF r
    <3> QED BY <2>1, <3>1, DivUnique
  <2>3. Len(m) + LenSpace = (L + 1) * BlockSize + r
    BY <1>2, BlockArith, SizesAssumption
  <2> QED BY <2>2, <2>3 DEF NBlocks
<1>11. /\ Padded(m) \in Seq(Block) /\ Len(Padded(m)) = (L + 1) + 1
       /\ \A k \in 1..((L + 1) + 1) : \A j \in Idx :
            Padded(m)[k][j] = PadByte(m, total, (k - 1) * BlockSize + j)
  BY <1>1, <1>10, PaddedType
<1>12. /\ \A k \in 1..L : \A j \in Idx :
            o.chain[k][j] = PadByte(m, total, (k - 1) * BlockSize + j)
       /\ \A j \in 0..(p - 1) : o.block[j] = PadByte(m, total, base + j)
  BY <1>2, MessageBytes
<1> HIDE DEF s
<1>13. /\ Len(m) + LenSpace < total
       /\ Len(m) < base + BlockSize
       /\ LenSpace \in Nat /\ SizeSpace + LenSpace = BlockSize /\ SizeSpace \in Nat
       /\ p >= SizeSpace
  <2> HIDE DEF L, base, total
  <2> QED BY <1>2, BlockArith, SizesAssumption
<1>14. ASSUME NEW j \in Idx
       PROVE  z1.block[j] = PadByte(m, total, base + j)
  <2> HIDE DEF total, base, p, L
  <2>1. j \in Nat /\ base + j \in Nat /\ j < BlockSize
    BY <1>2, BlockArith DEF Idx
  <2>2. CASE j < p
    <3>1. z1.block[j] = o.block[j]
      BY <1>2, <1>3, <1>5, <2>1, <2>2
    <3>2. j \in 0..(p - 1)
      BY <1>2, <2>1, <2>2
    <3> QED BY <1>12, <3>1, <3>2
  <2>3. CASE j = p
    <3>1. z1.block[j] = MarkByte
      BY <1>2, <1>3, <1>5, <2>1, <2>3
    <3>2. base + j = Len(m)
      BY <1>2, <2>3
    <3> QED BY <1>1, <1>2, <1>13, <2>1, <3>1, <3>2, TailBytes
  <2>4. CASE j > p
    <3>1. z1.block[j] = ZeroByte
      BY <1>2, <1>5, <2>1, <2>4
    <3>2. base + j > Len(m) /\ base + j < total - LenSpace
      BY <1>2, <1>13, <2>1, <2>4, SizesAssumption
    <3> QED BY <1>1, <1>2, <1>13, <2>1, <3>1, <3>2, TailBytes
  <2> QED BY <1>2, <2>1, <2>2, <2>3, <2>4
<1>15. ASSUME NEW j \in Idx
       PROVE  z.block[j] = PadByte(m, total, (L + 1) * BlockSize + j)
  <2> DEFINE next == (L + 1) * BlockSize
  <2>0. next \in Nat /\ next = base + BlockSize /\ total = next + BlockSize
    BY <1>2, BlockArith
  <2> HIDE DEF total, base, p, L, next
  <2>1. j \in Nat /\ next + j \in Nat /\ j < BlockSize /\ ~(j < 0)
    BY <2>0, BlockArith DEF Idx
  <2>2. CASE j >= SizeSpace
    <3>1. next + j >= total - LenSpace /\ (next + j) - (total - LenSpace) = j - SizeSpace
      <4>1. total - LenSpace = next + SizeSpace
        BY <1>13, <2>0, BlockArith
      <4> QED BY <1>13, <2>0, <2>1, <2>2, <4>1
    <3>2. PadByte(m, total, next + j) = LenByte(Len(m), (next + j) - (total - LenSpace))
      BY <1>1, <1>2, <1>13, <2>1, <3>1, TailBytes
    <3> QED BY <1>8, <2>2, <3>1, <3>2 DEF next
  <2>3. CASE j < SizeSpace
    <3>1. z.block[j] = ZeroByte
      BY <1>8, <1>13, <2>1, <2>3
    <3>2. next + j > Len(m) /\ next + j < total - LenSpace
      <4>1. next > Len(m)
        BY <1>13, <2>0
      <4>2. total - LenSpace = next + SizeSpace
        BY <1>13, <2>0, BlockArith
      <4> QED BY <1>1, <1>13, <2>0, <2>1, <2>3, <4>1, <4>2
    <3>3. PadByte(m, total, next + j) = ZeroByte
      BY <1>1, <1>2, <1>13, <2>1, <3>2, TailBytes
    <3> QED BY <3>1, <3>3 DEF next
  <2> QED BY <1>13, <2>1, <2>2, <2>3
<1>16. \A k \in 1..((L + 1) + 1) : \A j \in Idx : s[k][j] = Padded(m)[k][j]
  <2> TAKE k \in 1..((L + 1) + 1)
  <2> TAKE j \in Idx
  <2>1. CASE k \in 1..L
    BY <1>9, <1>11, <1>12, <2>1
  <2>2. CASE k = L + 1
    <3>1. k - 1 = L
      BY <1>2, <2>2
    <3> QED BY <1>9, <1>11, <1>14, <2>2, <3>1
  <2>3. CASE k = (L + 1) + 1
    <3>1. k - 1 = L + 1
      BY <1>2, <2>3
    <3> QED BY <1>9, <1>11, <1>15, <2>3, <3>1
  <2> HIDE DEF L
  <2> QED BY <1>2, <2>1, <2>2, <2>3
<1>17. s = Padded(m)
  BY <1>9, <1>11, <1>16, BlocksEqual
<1> QED BY <1>17 DEF s

LEMMA FinalIsPadded ==
  ASSUME NEW o, NEW m, Good(o, m)
  PROVE  Final(o).chain = Padded(m)
<1>1. o.bPos \in Nat
  BY PositionType DEF Good
<1> QED BY <1>1, BlockArith, FinalFits, FinalSpills

\* The mark ends the message: where the shorter of two messages ends, the longer
\* one's padding and its own differ, so no two messages share a padding.
LEMMA NBlocksRoom ==
  ASSUME NEW len \in Nat
  PROVE  len + LenSpace < NBlocks(len) * BlockSize /\ NBlocks(len) * BlockSize \in Nat
<1> DEFINE x == len + LenSpace
           d == x \div BlockSize
<1>1. x \in Nat
  BY SizesAssumption
<1>2. d \in Nat /\ x < d * BlockSize + BlockSize
  <2> HIDE DEF x
  <2>1. d \in Nat
    BY <1>1, BlockArith
  <2>2. d * BlockSize = BlockSize * d
    BY <2>1, BlockArith
  <2> QED BY <1>1, <2>1, <2>2, BlockArith
<1>3. NBlocks(len) = d + 1
  BY DEF NBlocks
<1> HIDE DEF x, d
<1>4. (d + 1) * BlockSize = d * BlockSize + BlockSize /\ (d + 1) * BlockSize \in Nat
  BY <1>2, MulSucc
<1> QED BY <1>2, <1>3, <1>4 DEF x

LEMMA PaddedDiffers ==
  ASSUME NEW a \in Seq(ByteVal), NEW b \in Seq(ByteVal), Len(a) < Len(b)
  PROVE  Padded(a) # Padded(b)
<1> SUFFICES ASSUME Padded(a) = Padded(b) PROVE FALSE
  OBVIOUS
<1> DEFINE n == NBlocks(Len(a))
           total == n * BlockSize
           k == Len(b) \div BlockSize
           j == Len(b) % BlockSize
<1>1. /\ Len(a) \in Nat /\ Len(b) \in Nat /\ n \in Nat
      /\ NBlocks(Len(b)) = n
  BY PaddedType
<1>2. /\ Len(a) + LenSpace < total /\ Len(b) + LenSpace < total /\ total \in Nat
  BY <1>1, NBlocksRoom
<1>3. /\ \A i \in 1..n : \A x \in Idx :
           Padded(a)[i][x] = PadByte(a, total, (i - 1) * BlockSize + x)
      /\ \A i \in 1..n : \A x \in Idx :
           Padded(b)[i][x] = PadByte(b, total, (i - 1) * BlockSize + x)
  BY <1>1, PaddedType
<1>4. k \in Nat /\ j \in Idx /\ k * BlockSize + j = Len(b)
  <2>1. k \in Nat /\ j \in Nat /\ j < BlockSize
    BY <1>1, BlockArith
  <2>2. BlockSize * k + j = Len(b)
    BY <1>1, BlockArith
  <2>3. BlockSize * k = k * BlockSize
    BY <2>1, BlockArith
  <2> QED BY <2>1, <2>2, <2>3, BlockArith DEF Idx
<1> HIDE DEF n, k, j
<1>5. k + 1 \in 1..n
  <2>1. CASE n <= k
    <3>1. total <= k * BlockSize
      <4>1. CASE n = k
        BY <1>2, <4>1
      <4>2. CASE n < k
        BY <1>1, <1>2, <1>4, <4>2, MulMono, MulSucc, BlockArith
      <4> QED BY <1>1, <1>4, <2>1, <4>1, <4>2
    <3>2. k * BlockSize \in Nat /\ j \in Nat
      BY <1>4, MulSucc DEF Idx
    <3> HIDE DEF total
    <3> QED BY <1>1, <1>2, <1>4, <3>1, <3>2, SizesAssumption
  <2> QED BY <1>1, <1>4, <2>1
<1> HIDE DEF total
<1>6. PadByte(a, total, Len(b)) = PadByte(b, total, Len(b))
  <2>1. (k + 1) - 1 = k
    BY <1>4
  <2> QED BY <1>3, <1>4, <1>5, <2>1
<1>7. PadByte(b, total, Len(b)) = MarkByte
  BY <1>1, <1>2, TailBytes
<1>8. PadByte(a, total, Len(b)) = ZeroByte
  <2>1. Len(b) < total - LenSpace
    BY <1>1, <1>2, SizesAssumption
  <2> QED BY <1>1, <1>2, <2>1, TailBytes
<1> QED BY <1>6, <1>7, <1>8 DEF MarkByte, ZeroByte

LEMMA PaddedInjective ==
  ASSUME NEW a \in Seq(ByteVal), NEW b \in Seq(ByteVal), Padded(a) = Padded(b)
  PROVE  a = b
<1>1. Len(a) = Len(b) /\ Len(a) \in Nat
  <2>1. Len(a) \in Nat /\ Len(b) \in Nat
    OBVIOUS
  <2>2. ~(Len(a) < Len(b)) /\ ~(Len(b) < Len(a))
    BY PaddedDiffers
  <2> QED BY <2>1, <2>2
<1> DEFINE n == NBlocks(Len(a))
           total == n * BlockSize
<1>2. n \in Nat /\ total \in Nat /\ Len(a) + LenSpace < total
  BY <1>1, NBlocksRoom, PaddedType
<1>3. /\ \A i \in 1..n : \A x \in Idx :
           Padded(a)[i][x] = PadByte(a, total, (i - 1) * BlockSize + x)
      /\ \A i \in 1..n : \A x \in Idx :
           Padded(b)[i][x] = PadByte(b, total, (i - 1) * BlockSize + x)
  BY <1>1, PaddedType
<1> HIDE DEF n
<1>4. ASSUME NEW i \in 1..Len(a)
      PROVE  a[i] = b[i]
  <2> DEFINE k == (i - 1) \div BlockSize
             j == (i - 1) % BlockSize
  <2>1. i - 1 \in Nat /\ i - 1 < Len(a)
    BY <1>1
  <2>2. k \in Nat /\ j \in Idx /\ k * BlockSize + j = i - 1
    <3> DEFINE y == i - 1
    <3>1. y \in Nat
      BY <2>1
    <3> HIDE DEF y
    <3>2. y \div BlockSize \in Nat /\ y % BlockSize \in Nat /\ y % BlockSize < BlockSize
      BY <3>1, BlockArith
    <3>3. BlockSize * (y \div BlockSize) + (y % BlockSize) = y
      BY <3>1, BlockArith
    <3>4. BlockSize * (y \div BlockSize) = (y \div BlockSize) * BlockSize
      BY <3>2, BlockArith
    <3>5. (y \div BlockSize) * BlockSize + (y % BlockSize) = y
      BY <3>3, <3>4
    <3>6. y % BlockSize \in Idx
      BY <3>2, BlockArith DEF Idx
    <3> QED BY <3>2, <3>5, <3>6 DEF y
  <2> HIDE DEF k, j
  <2>3. k + 1 \in 1..n
    <3>1. CASE n <= k
      <4>1. total <= k * BlockSize
        <5>1. CASE n = k
          BY <1>2, <5>1
        <5>2. CASE n < k
          BY <1>2, <2>2, <5>2, MulMono, MulSucc, BlockArith
        <5> QED BY <1>2, <2>2, <3>1, <5>1, <5>2
      <4>2. k * BlockSize \in Nat /\ j \in Nat
        BY <2>2, MulSucc DEF Idx
      <4> HIDE DEF total
      <4> QED BY <1>1, <1>2, <2>1, <2>2, <4>1, <4>2, SizesAssumption
    <3> QED BY <1>2, <2>2, <3>1
  <2>4. PadByte(a, total, i - 1) = PadByte(b, total, i - 1)
    <3>1. (k + 1) - 1 = k
      BY <2>2
    <3> HIDE DEF total
    <3> QED BY <1>3, <2>2, <2>3, <3>1
  <2>5. /\ PadByte(a, total, i - 1) = a[(i - 1) + 1]
        /\ PadByte(b, total, i - 1) = b[(i - 1) + 1]
    BY <1>1, <2>1 DEF PadByte
  <2>6. (i - 1) + 1 = i
    BY <1>1
  <2> QED BY <2>4, <2>5, <2>6
<1>5. a \in [1..Len(a) -> ByteVal] /\ b \in [1..Len(b) -> ByteVal]
  OBVIOUS
<1> QED BY <1>1, <1>4, <1>5

-----------------------------------------------------------------------------
(* The theorems. *)

\* Every field keeps its type and a write() in progress stays inside its data
\* and its block: the copies of write() never run past either array.
THEOREM TypeCorrect == Spec => []TypeOK
<1>1. IInv => TypeOK
  BY DEF IInv
<1> QED BY <1>1, Inductive, PTL

\* However a message is cut into writes, the object holds its bytes in order, and
\* the write() in progress points at the bytes that are left.
THEOREM AbsorbedAlways == Spec => []Absorbed
<1>1. IInv => Absorbed
  BY DEF IInv
<1> QED BY <1>1, Inductive, PTL

\* A digest that sum() or sumIn() returns is that of the padded message.
THEOREM DigestAlwaysRight == Spec => []DigestRight
<1>1. Init => DigestRight
  BY DEF Init, DigestRight
<1>2. IInv /\ DigestRight /\ [Next]_vars => DigestRight'
  <2> SUFFICES ASSUME IInv, DigestRight, [Next]_vars
               PROVE  DigestRight'
    OBVIOUS
  <2>1. ASSUME out' = out \/ out' = {}
        PROVE  DigestRight'
    BY <2>1 DEF DigestRight
  <2>2. ASSUME NEW c \in Ctx, Sum(c) \/ SumIn(c)
        PROVE  DigestRight'
    <3>1. Good(obj[c], msg[c])
      BY <2>2, IdleInv DEF Sum, SumIn
    <3>2. Final(obj[c]).chain = Padded(msg[c])
      BY <3>1, FinalIsPadded
    <3>3. out' = {[msg |-> msg[c], digest |-> Padded(msg[c])]}
      BY <2>2, <3>2 DEF Sum, SumIn
    <3> QED BY <3>3 DEF DigestRight
  <2> QED BY <2>1, <2>2
       DEF Next, vars, WriteBegin, WriteEnd, WriteTail, WriteBlock, Reset, Clone, NewEmpty
<1> QED BY <1>1, <1>2, Inductive, PTL DEF Spec

\* Two live objects would return the same digest exactly when they hold the same
\* message: nothing but the bytes written reaches a digest.
THEOREM DigestIsInjective == Spec => []SameDigestIffSameMessage
<1>1. IInv => SameDigestIffSameMessage
  <2> SUFFICES ASSUME IInv, Idle, NEW c \in Ctx \ spent, NEW d \in Ctx \ spent
               PROVE  (Final(obj[c]).chain = Final(obj[d]).chain) <=> (msg[c] = msg[d])
    BY DEF SameDigestIffSameMessage
  <2>1. Good(obj[c], msg[c]) /\ Good(obj[d], msg[d])
    BY IdleInv
  <2>2. Final(obj[c]).chain = Padded(msg[c]) /\ Final(obj[d]).chain = Padded(msg[d])
    BY <2>1, FinalIsPadded
  <2>3. msg[c] \in Seq(ByteVal) /\ msg[d] \in Seq(ByteVal)
    BY <2>1 DEF Good
  <2> QED BY <2>2, <2>3, PaddedInjective
<1> QED BY <1>1, Inductive, PTL

\* The class implements the contract of IHash: a digest is a function of the
\* bytes written, whatever the cuts, the clones and the resets.
THEOREM ImplementsContract == Spec => ImplementsIHash
<1>1. Init => Contract!CInit
  BY DEF Init, Contract!CInit
<1>2. IInv /\ [Next]_vars => [Contract!CNext]_(Contract!cvars)
  <2> SUFFICES ASSUME IInv, [Next]_vars
               PROVE  Contract!CNext \/ UNCHANGED Contract!cvars
    OBVIOUS
  <2>1. CASE WriteEnd \/ WriteTail \/ WriteBlock \/ UNCHANGED vars
    BY <2>1 DEF WriteEnd, WriteTail, WriteBlock, vars, Contract!cvars
  <2>2. ASSUME NEW c \in Ctx, NEW data \in Data, WriteBegin(c, data)
        PROVE  Contract!CNext
    <3>1. Contract!CWrite(c, data)
      BY <2>2 DEF WriteBegin, Contract!CWrite
    <3> QED BY <3>1 DEF Contract!CNext
  <2>3. ASSUME NEW c \in Ctx, Sum(c) \/ SumIn(c)
        PROVE  Contract!CNext
    <3>1. Good(obj[c], msg[c])
      BY <2>3, IdleInv DEF Sum, SumIn
    <3>2. Final(obj[c]).chain = Padded(msg[c])
      BY <3>1, FinalIsPadded
    <3>3. Contract!CSum(c) \/ Contract!CSumIn(c)
      BY <2>3, <3>2 DEF Sum, SumIn, Contract!CSum, Contract!CSumIn, Contract!Returned
    <3> QED BY <3>3 DEF Contract!CNext
  <2>4. ASSUME NEW c \in Ctx, Reset(c)
        PROVE  Contract!CNext
    <3>1. Contract!CReset(c)
      BY <2>4 DEF Reset, Contract!CReset
    <3> QED BY <3>1 DEF Contract!CNext
  <2>5. ASSUME NEW c \in Ctx, NEW d \in Ctx, Clone(c, d) \/ NewEmpty(c, d)
        PROVE  Contract!CNext
    <3>1. Contract!CClone(c, d) \/ Contract!CNewEmpty(c, d)
      BY <2>5 DEF Clone, NewEmpty, Contract!CClone, Contract!CNewEmpty
    <3> QED BY <3>1 DEF Contract!CNext
  <2> QED BY <2>1, <2>2, <2>3, <2>4, <2>5 DEF Next
<1> QED BY <1>1, <1>2, Inductive, PTL DEF Spec, Contract!CSpec, ImplementsIHash

-----------------------------------------------------------------------------
(* Sha2Hash: the invariant of MdHash survives the loop that may throw, and *)
(* the loop throws in its first turn or not at all.                        *)

\* In a later turn of the loop the block is empty
LaterTurn == \A w \in call : w.dPos = 0 \/ obj[w.ctx].bPos = 0

ShaInv == IInv /\ DigestRight /\ LaterTurn /\ failed \subseteq spent

LEMMA ShaInitHolds == ShaInit => ShaInv
BY InitHolds DEF ShaInit, ShaInv, Init, DigestRight, LaterTurn

\* What Next does to the digests, from the proof of MdHash
LEMMA NextKeepsDigest ==
  ASSUME IInv, DigestRight, Next
  PROVE  DigestRight'
<1>1. ASSUME out' = out \/ out' = {}
      PROVE  DigestRight'
  BY <1>1 DEF DigestRight
<1>2. ASSUME NEW c \in Ctx, Sum(c) \/ SumIn(c)
      PROVE  DigestRight'
  <2>1. Good(obj[c], msg[c])
    BY <1>2, IdleInv DEF Sum, SumIn
  <2>2. Final(obj[c]).chain = Padded(msg[c])
    BY <2>1, FinalIsPadded
  <2>3. out' = {[msg |-> msg[c], digest |-> Padded(msg[c])]}
    BY <1>2, <2>2 DEF Sum, SumIn
  <2> QED BY <2>3 DEF DigestRight
<1> QED BY <1>1, <1>2
     DEF Next, WriteBegin, WriteEnd, WriteTail, WriteBlock, Reset, Clone, NewEmpty

LEMMA WriteThrowsKeeps ==
  ASSUME ShaInv, WriteThrows
  PROVE  ShaInv'
<1> PICK w \in call :
      /\ call' = {}
      /\ failed' = failed \union {w.ctx}
      /\ spent' = spent \union {w.ctx}
      /\ UNCHANGED <<obj, msg, out>>
  BY DEF WriteThrows
<1>1. w.ctx \in Ctx \ spent /\ \A d \in Ctx \ spent : d # w.ctx => Good(obj[d], msg[d])
  BY CallInv DEF ShaInv
<1>2. TypeOK'
  BY <1>1 DEF ShaInv, IInv, TypeOK
<1>3. Absorbed'
  BY <1>1 DEF Absorbed, Good
<1>4. DigestRight' /\ LaterTurn' /\ failed' \subseteq spent'
  BY DEF ShaInv, DigestRight, LaterTurn
<1> QED BY <1>2, <1>3, <1>4 DEF ShaInv, IInv

LEMMA WriteBlockLater ==
  ASSUME IInv, WriteBlock
  PROVE  LaterTurn'
<1> PICK w \in call :
      /\ w.space <= w.nToWrite
      /\ obj' = [obj EXCEPT ![w.ctx] = Hash(Fill(@, w.data, w.dPos, w.space))]
      /\ call' = {[w EXCEPT !.dPos = @ + w.space, !.nToWrite = @ - w.space,
                            !.space = BlockSize]}
  BY DEF WriteBlock
<1> DEFINE o == obj[w.ctx]
           r == Hash(Fill(o, w.data, w.dPos, w.space))
<1>1. /\ obj \in [Ctx -> Obj] /\ w.ctx \in Ctx /\ o \in Obj
      /\ w.data \in Seq(ByteVal) /\ w.dPos \in Nat /\ w.nToWrite \in Nat /\ w.space \in Nat
      /\ w.dPos + w.nToWrite = Len(w.data)
      /\ w \in [ctx : Ctx, data : Data, dPos : Nat, nToWrite : Nat, space : 1..BlockSize]
  BY CallInv, BlockArith DEF IInv, TypeOK
<1>2. w.dPos + w.space <= Len(w.data)
  BY <1>1
<1>3. Fill(o, w.data, w.dPos, w.space) \in Wide
  BY <1>1, <1>2, FillType, ObjIsWide
<1>4. r.bPos = 0
  BY <1>3, HashType
<1>5. obj'[w.ctx] = r
  BY <1>1
<1>6. \A v \in call' : v.ctx = w.ctx
  BY <1>1
<1> HIDE DEF r
<1> QED BY <1>4, <1>5, <1>6 DEF LaterTurn

LEMMA ShaNextKeeps == ShaInv /\ [ShaNext]_svars => ShaInv'
<1> SUFFICES ASSUME ShaInv, [ShaNext]_svars
             PROVE  ShaInv'
  OBVIOUS
<1>1. CASE WriteThrows
  BY <1>1, WriteThrowsKeeps
<1>2. CASE UNCHANGED svars
  BY <1>2 DEF svars, vars, ShaInv, IInv, TypeOK, Absorbed, DigestRight, LaterTurn
<1>3. ASSUME Next, failed' \subseteq spent', LaterTurn'
      PROVE  ShaInv'
  BY <1>3, NextKeeps, NextKeepsDigest DEF ShaInv
<1>4. CASE ShaWriteBlock
  <2>1. Next /\ failed' \subseteq spent'
    BY <1>4 DEF ShaWriteBlock, WriteBlock, Next, ShaInv
  <2> QED BY <1>3, <1>4, <2>1, WriteBlockLater DEF ShaWriteBlock, ShaInv
<1>5. CASE (WriteEnd \/ WriteTail) /\ UNCHANGED failed
  <2>1. Next /\ call' = {} /\ failed' = failed /\ spent' = spent
    BY <1>5 DEF WriteEnd, WriteTail, Next
  <2>2. failed' \subseteq spent' /\ LaterTurn'
    BY <2>1 DEF ShaInv, LaterTurn
  <2> QED BY <1>3, <2>1, <2>2
<1>6. ASSUME NEW c \in Ctx, NEW data \in Data, WriteBegin(c, data), UNCHANGED failed
      PROVE  ShaInv'
  <2>1. Next
    BY <1>6 DEF Next
  <2>2. failed' \subseteq spent'
    BY <1>6 DEF WriteBegin, ShaInv
  <2>3. \A w \in call' : w.dPos = 0
    BY <1>6 DEF WriteBegin
  <2> QED BY <1>3, <2>1, <2>2, <2>3 DEF LaterTurn
<1>7. ASSUME NEW c \in Ctx, Sum(c) \/ SumIn(c), UNCHANGED failed
      PROVE  ShaInv'
  <2>1. Next /\ failed' \subseteq spent' /\ LaterTurn'
    BY <1>7 DEF Sum, SumIn, Idle, Next, ShaInv, LaterTurn
  <2> QED BY <1>3, <2>1
<1>8. ASSUME NEW c \in Ctx, ShaReset(c)
      PROVE  ShaInv'
  <2>1. Next /\ failed' \subseteq spent' /\ LaterTurn'
    BY <1>8 DEF ShaReset, Reset, Idle, Next, ShaInv, LaterTurn
  <2> QED BY <1>3, <2>1
<1>9. ASSUME NEW c \in Ctx, NEW d \in Ctx, ShaClone(c, d) \/ ShaNewEmpty(c, d)
      PROVE  ShaInv'
  <2>1. Next /\ failed' \subseteq spent' /\ LaterTurn'
    BY <1>9 DEF ShaClone, ShaNewEmpty, Clone, NewEmpty, Idle, Next, ShaInv, LaterTurn
  <2> QED BY <1>3, <2>1
<1> QED BY <1>1, <1>2, <1>4, <1>5, <1>6, <1>7, <1>8, <1>9 DEF ShaNext

LEMMA ShaInductive == ShaSpec => []ShaInv
BY ShaInitHolds, ShaNextKeeps, PTL DEF ShaSpec

\* Live objects hold their messages, and a write() in progress the bytes left
THEOREM ShaAbsorbedAlways == ShaSpec => []Absorbed
<1>1. ShaInv => Absorbed
  BY DEF ShaInv, IInv
<1> QED BY <1>1, ShaInductive, PTL

\* Types hold, and an object with a failed write is not live
THEOREM ShaTypeCorrect == ShaSpec => []ShaTypeOK
<1>1. ShaInv => ShaTypeOK
  BY DEF ShaInv, IInv, ShaTypeOK
<1> QED BY <1>1, ShaInductive, PTL

\* sum() and sumIn() return the digest of the padded message, or were not reached
THEOREM ShaDigestAlwaysRight == ShaSpec => []DigestRight
<1>1. ShaInv => DigestRight
  BY DEF ShaInv
<1> QED BY <1>1, ShaInductive, PTL

\* A failed object is not live, so no step but one that empties or replaces it, and
\* takes it out of failed, changes what is said of it.
LEMMA FailedStays ==
  ASSUME ShaInv, FailedCountsTooMuch, NEW c \in failed',
         obj'[c] = obj[c], msg'[c] = msg[c], c \in failed
  PROVE  /\ obj'[c].ingest = Len(msg'[c])
         /\ Position(obj'[c]) < obj'[c].ingest
         /\ HoldsPrefix(obj'[c], msg'[c])
BY Zenon DEF FailedCountsTooMuch

LEMMA FailedNextKeeps ==
  ASSUME ShaInv, FailedCountsTooMuch, [ShaNext]_svars
  PROVE  FailedCountsTooMuch'
<1>0. /\ failed \subseteq spent /\ spent \subseteq Ctx
      /\ obj \in [Ctx -> Obj] /\ DOMAIN msg = Ctx
  BY DEF ShaInv, IInv, TypeOK
<1>1. ASSUME NEW e \in Ctx, e \notin failed',
             \A c \in Ctx \ {e} : obj'[c] = obj[c] /\ msg'[c] = msg[c],
             failed' \subseteq failed
      PROVE  FailedCountsTooMuch'
  BY <1>0, <1>1, FailedStays DEF FailedCountsTooMuch
<1>2. ASSUME UNCHANGED <<obj, msg, failed>>
      PROVE  FailedCountsTooMuch'
  BY <1>2, FailedStays DEF FailedCountsTooMuch
<1>3. CASE WriteThrows
  <2> PICK w \in call : /\ w.nToWrite > 0
                        /\ failed' = failed \union {w.ctx}
                        /\ UNCHANGED <<obj, msg>>
    BY <1>3 DEF WriteThrows
  <2>1. /\ w.nToWrite \in Nat /\ w.ctx \in Ctx
        /\ HoldsPrefix(obj[w.ctx], msg[w.ctx])
        /\ Position(obj[w.ctx]) + w.nToWrite = Len(msg[w.ctx])
        /\ Position(obj[w.ctx]) \in Nat
    BY <1>0, CallInv, PositionType DEF ShaInv
  <2>2. obj[w.ctx].ingest = Len(msg[w.ctx]) /\ Position(obj[w.ctx]) < obj[w.ctx].ingest
    BY <2>1 DEF HoldsPrefix
  <2> QED BY <2>1, <2>2, FailedStays DEF FailedCountsTooMuch
<1>4. ASSUME NEW w \in call, UNCHANGED <<msg, failed>>,
             \A c \in Ctx \ {w.ctx} : obj'[c] = obj[c]
      PROVE  FailedCountsTooMuch'
  <2>1. w.ctx \in Ctx \ spent
    BY CallInv DEF ShaInv
  <2> QED BY <1>0, <1>1, <1>4, <2>1
<1>5. CASE ShaWriteBlock
  BY <1>0, <1>4, <1>5 DEF ShaWriteBlock, WriteBlock
<1>6. CASE (WriteEnd \/ WriteTail) /\ UNCHANGED failed
  BY <1>0, <1>2, <1>4, <1>6 DEF WriteEnd, WriteTail
<1>7. ASSUME NEW c \in Ctx, NEW data \in Data, WriteBegin(c, data), UNCHANGED failed
      PROVE  FailedCountsTooMuch'
  <2>1. /\ c \notin failed'
        /\ \A d \in Ctx \ {c} : obj'[d] = obj[d] /\ msg'[d] = msg[d]
    BY <1>0, <1>7 DEF WriteBegin
  <2> QED BY <1>1, <1>7, <2>1
<1>8. ASSUME NEW c \in Ctx, Sum(c) \/ SumIn(c), UNCHANGED failed
      PROVE  FailedCountsTooMuch'
  <2>1. /\ c \notin failed'
        /\ \A d \in Ctx \ {c} : obj'[d] = obj[d] /\ msg'[d] = msg[d]
    BY <1>0, <1>8 DEF Sum, SumIn
  <2> QED BY <1>1, <1>8, <2>1
<1>9. ASSUME NEW c \in Ctx, ShaReset(c)
      PROVE  FailedCountsTooMuch'
  <2>1. /\ c \notin failed' /\ failed' \subseteq failed
        /\ \A d \in Ctx \ {c} : obj'[d] = obj[d] /\ msg'[d] = msg[d]
    BY <1>0, <1>9 DEF ShaReset, Reset
  <2> QED BY <1>1, <2>1
<1>10. ASSUME NEW c \in Ctx, NEW d \in Ctx, ShaClone(c, d) \/ ShaNewEmpty(c, d)
       PROVE  FailedCountsTooMuch'
  <2>1. /\ d \notin failed' /\ failed' \subseteq failed
        /\ \A e \in Ctx \ {d} : obj'[e] = obj[e] /\ msg'[e] = msg[e]
    BY <1>0, <1>10 DEF ShaClone, ShaNewEmpty, Clone, NewEmpty
  <2> QED BY <1>1, <2>1
<1>11. CASE UNCHANGED svars
  BY <1>2, <1>11 DEF svars, vars
<1> QED BY <1>3, <1>5, <1>6, <1>7, <1>8, <1>9, <1>10, <1>11 DEF ShaNext

\* What a write() that threw leaves behind: a count ahead of the bytes held, and the
\* bytes of the earlier writes in place, whatever is called until reset()
THEOREM FailedAlwaysCountsTooMuch == ShaSpec => []FailedCountsTooMuch
<1>1. ShaInit => FailedCountsTooMuch
  BY DEF ShaInit, FailedCountsTooMuch
<1>2. ShaInv /\ FailedCountsTooMuch /\ [ShaNext]_svars => FailedCountsTooMuch'
  BY FailedNextKeeps
<1> QED BY <1>1, <1>2, ShaInductive, PTL DEF ShaSpec

\* The position of an object that holds whole blocks only
LEMMA WholeBlocks ==
  ASSUME NEW o \in Obj, NEW n \in Nat, Position(o) = n, n % BlockSize = 0
  PROVE  o.bPos = 0
<1>1. /\ Len(o.chain) \in Nat /\ o.bPos \in Nat /\ o.bPos < BlockSize
      /\ n = Len(o.chain) * BlockSize + o.bPos
  BY PositionType
<1> DEFINE q == Len(o.chain)
           b == o.bPos
<1>2. q \in Nat /\ b \in Nat /\ b < BlockSize /\ n = q * BlockSize + b
  BY <1>1
<1> HIDE DEF q, b
<1>3. n \div BlockSize = q
  BY <1>2, DivUnique
<1>4. BlockSize * (n \div BlockSize) + (n % BlockSize) = n
  BY BlockArith
<1>5. BlockSize * q = q * BlockSize /\ q * BlockSize \in Nat
  BY <1>2, BlockArith, MulSucc
<1>6. b = 0
  BY <1>2, <1>3, <1>4, <1>5
<1> QED BY <1>6 DEF b

\* A write that starts on a block boundary is never refused
THEOREM AlignedWriteAlwaysCompletes == ShaSpec => AlignedWriteCompletes
<1>1. ShaInv /\ [ShaNext]_svars =>
        [\A w \in call :
           (Len(msg[w.ctx]) - Len(w.data)) % BlockSize = 0 => w.ctx \notin failed']_svars
  <2> SUFFICES ASSUME ShaInv, ShaNext, NEW w \in call,
                      (Len(msg[w.ctx]) - Len(w.data)) % BlockSize = 0,
                      w.ctx \in failed'
               PROVE  FALSE
    BY DEF svars
  <2>1. /\ w.ctx \notin failed /\ call # {}
        /\ w.ctx \in Ctx \ spent /\ obj[w.ctx] \in Obj
        /\ w.data \in Seq(ByteVal) /\ msg[w.ctx] \in Seq(ByteVal)
        /\ w.dPos \in Nat /\ w.nToWrite \in Nat /\ w.space \in 1..BlockSize
        /\ Position(obj[w.ctx]) + w.nToWrite = Len(msg[w.ctx])
        /\ w.dPos + w.nToWrite = Len(w.data)
        /\ call = {w}
    BY CallInv DEF ShaInv
  <2>2. WriteThrows
    BY <2>1 DEF ShaNext, ShaWriteBlock, ShaReset, ShaClone, ShaNewEmpty, Reset, Clone,
                NewEmpty, Idle
  <2>3. ~Fits(w)
    BY <2>1, <2>2 DEF WriteThrows
  <2>4. obj[w.ctx].bPos # 0
    <3>1. ASSUME obj[w.ctx].bPos = 0
          PROVE  Fits(w)
      BY <2>1, <3>1, BlockArith DEF Fits, CopyLen
    <3> QED BY <2>3, <3>1
  <2>5. w.dPos = 0
    BY <2>1, <2>4 DEF ShaInv, LaterTurn
  <2>6. Position(obj[w.ctx]) = Len(msg[w.ctx]) - Len(w.data)
        /\ Len(msg[w.ctx]) - Len(w.data) \in Nat
    <3> DEFINE p == Position(obj[w.ctx])
               a == Len(msg[w.ctx])
               b == Len(w.data)
    <3>1. p \in Nat /\ a \in Nat /\ b \in Nat /\ p + w.nToWrite = a /\ 0 + w.nToWrite = b
      BY <2>1, <2>5, PositionType
    <3> HIDE DEF p, a, b
    <3>2. p = a - b /\ a - b \in Nat
      BY <2>1, <3>1
    <3> QED BY <3>2 DEF p, a, b
  <2>7. obj[w.ctx].bPos = 0
    BY <2>1, <2>6, WholeBlocks
  <2> QED BY <2>4, <2>7
<1> QED BY <1>1, ShaInductive, PTL DEF ShaSpec, AlignedWriteCompletes
=============================================================================
