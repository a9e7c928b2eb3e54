------------------------------- MODULE MdHash -------------------------------
(***************************************************************************)
(* The block-buffered hashes of src/src/crypto/hash that share one control *)
(* flow: Md5 (whose lines the map names), Md4, RipeMd and Sha1.  write()   *)
(* gathers bytes in a block of BlockSize bytes and compresses each block   *)
(* as soon as it is full; sumIn() marks the end of the message, pads, puts *)
(* the length in the last LenSpace bytes and compresses the last block.    *)
(*                                                                         *)
(* The compression function is ideal: the chaining state is the sequence   *)
(* of the blocks compressed so far, so two states are equal exactly when   *)
(* the same blocks went through hash() in the same order.                  *)
(*                                                                         *)
(* A call of write() is a loop; each turn of the loop is a step here, and  *)
(* no other call starts before it returns (the program is one thread).     *)
(***************************************************************************)
EXTENDS BlockBuffer

CONSTANTS
  Ctx,         \* the hash objects a caller holds
  Data,        \* the byte arrays a caller passes to write()
  MaxLen,      \* bound: the longest message
  LenSpace,    \* 8, 16 (Sha2_64bit) or 32 (Whirlpool) in the code
  BigEndian    \* byte order of the length: FALSE for Md4, Md5 and RipeMd

ASSUME SizesAssumption ==
  /\ BlockSize \in Nat
  /\ LenSpace \in Nat
  /\ 0 < LenSpace
  /\ LenSpace < BlockSize
  /\ BigEndian \in BOOLEAN

ASSUME DataAssumption == Data \subseteq Seq(ByteVal)

VARIABLES
  obj,     \* obj[c]: the fields of the object c
  call,    \* {} or {the write() in progress}
  msg,     \* history: what was written to each object (see HashContract)
  spent,   \* history: the objects past sumIn() and not reset
  out      \* what the last call returned

vars == <<obj, call, msg, spent, out>>

Obj == [chain : Seq(Block), block : Block, bPos : Idx, ingest : Nat]
SizeSpace == BlockSize - LenSpace

-----------------------------------------------------------------------------
(* The fields of an object and the helpers on them. *)

\* constructor, reset(): the state is the IV, no byte counted, block position 0
Empty(block) == [chain |-> <<>>, block |-> block, bPos |-> 0, ingest |-> 0]

\* Mutant of Hash: the block pointer is not put back
HashKeepsPos(o) == [o EXCEPT !.chain = Append(@, o.block)]

\* hash(): the block joins the chain; "Reset block pointer"
Hash(o) == [o EXCEPT !.chain = Append(@, o.block), !.bPos = 0]

\* Byte i of the LenSpace bytes at the end of the last block
LenByte(n, i) == BitLenByte(n, IF BigEndian THEN LenSpace - 1 - i ELSE i)

-----------------------------------------------------------------------------
(* sumIn(), statement by statement. *)

\* this.#block[this._bPos] = 0x80; this._bPos++
Marked(o) == [o EXCEPT !.block[o.bPos] = MarkByte, !.bPos = @ + 1]

\* Mutant of Flushed: >= for >
FlushedEarly(o) == IF o.bPos >= SizeSpace THEN Hash(ZeroRest(o)) ELSE o

\* if (this._bPos > sizeSpace) { fill; hash }
Flushed(o) == IF o.bPos > SizeSpace THEN Hash(ZeroRest(o)) ELSE o

\* fill, then the length over the last LenSpace bytes
Sized(o) ==
  LET z == ZeroRest(o)
  IN  [z EXCEPT !.block = [j \in Idx |-> IF j < SizeSpace THEN z.block[j]
                                         ELSE LenByte(o.ingest, j - SizeSpace)]]

Final(o) == Hash(Sized(Flushed(Marked(o))))

-----------------------------------------------------------------------------
Idle == call = {}

Init ==
  /\ obj = [c \in Ctx |-> Empty(ZeroBlock)]
  /\ call = {}
  /\ msg = [c \in Ctx |-> <<>>]
  /\ spent = {}
  /\ out = {}

\* write() up to its loop: the bytes are counted at once, then copied
WriteBegin(c, data) ==
  /\ Idle
  /\ c \notin spent
  /\ Len(msg[c]) + Len(data) <= MaxLen
  /\ obj' = [obj EXCEPT ![c].ingest = @ + Len(data)]
  /\ call' = {[ctx |-> c, data |-> data, dPos |-> 0, nToWrite |-> Len(data),
               space |-> BlockSize - obj[c].bPos]}
  /\ msg' = [msg EXCEPT ![c] = @ \o data]
  /\ out' = {}
  /\ UNCHANGED spent

\* while (nToWrite > 0) is over
WriteEnd ==
  /\ \E w \in call : w.nToWrite = 0
  /\ call' = {}
  /\ UNCHANGED <<obj, msg, spent, out>>

\* Mutant of WriteTail: >= for >, a block that is exactly full is left in place
WriteTailFull ==
  \E w \in call :
    /\ w.nToWrite > 0
    /\ w.space >= w.nToWrite
    /\ obj' = [obj EXCEPT ![w.ctx] = Advance(@, w.data, w.dPos, w.nToWrite)]
    /\ call' = {}
    /\ UNCHANGED <<msg, spent, out>>

\* if (space > nToWrite) "More space than data, copy in verbatim" and return
WriteTail ==
  \E w \in call :
    /\ w.nToWrite > 0
    /\ w.space > w.nToWrite
    /\ obj' = [obj EXCEPT ![w.ctx] = Advance(@, w.data, w.dPos, w.nToWrite)]
    /\ call' = {}
    /\ UNCHANGED <<msg, spent, out>>

\* the rest of the loop: fill the block, compress it, go on with the next
WriteBlock ==
  \E w \in call :
    /\ w.nToWrite > 0
    /\ w.space <= w.nToWrite
    /\ obj' = [obj EXCEPT ![w.ctx] = Hash(Fill(@, w.data, w.dPos, w.space))]
    /\ call' = {[w EXCEPT !.dPos = @ + w.space, !.nToWrite = @ - w.space,
                          !.space = BlockSize]}
    /\ UNCHANGED <<msg, spent, out>>

\* sum(): this.clone().sumIn(); the clone is dropped
Sum(c) ==
  /\ Idle
  /\ c \notin spent
  /\ out' = {[msg |-> msg[c], digest |-> Final(obj[c]).chain]}
  /\ UNCHANGED <<obj, call, msg, spent>>

SumIn(c) ==
  /\ Idle
  /\ c \notin spent
  /\ out' = {[msg |-> msg[c], digest |-> Final(obj[c]).chain]}
  /\ obj' = [obj EXCEPT ![c] = Final(@)]
  /\ spent' = spent \union {c}
  /\ UNCHANGED <<call, msg>>

\* Mutant of Reset: the byte count survives
ResetKeepsCount(c) ==
  /\ Idle
  /\ obj' = [obj EXCEPT ![c] = [Empty(@.block) EXCEPT !.ingest = obj[c].ingest]]
  /\ msg' = [msg EXCEPT ![c] = <<>>]
  /\ spent' = spent \ {c}
  /\ out' = {}
  /\ UNCHANGED call

\* reset() restores the IV and both counters; the block keeps its bytes
Reset(c) ==
  /\ Idle
  /\ obj' = [obj EXCEPT ![c] = Empty(@.block)]
  /\ msg' = [msg EXCEPT ![c] = <<>>]
  /\ spent' = spent \ {c}
  /\ out' = {}
  /\ UNCHANGED call

\* Mutant of Clone: the partial block is not copied
CloneDropsBlock(c, d) ==
  /\ Idle
  /\ c # d
  /\ c \notin spent
  /\ obj' = [obj EXCEPT ![d] = [obj[c] EXCEPT !.block = obj[d].block]]
  /\ msg' = [msg EXCEPT ![d] = msg[c]]
  /\ spent' = spent \ {d}
  /\ out' = {}
  /\ UNCHANGED call

\* d := c.clone()
Clone(c, d) ==
  /\ Idle
  /\ c # d
  /\ c \notin spent
  /\ obj' = [obj EXCEPT ![d] = obj[c]]
  /\ msg' = [msg EXCEPT ![d] = msg[c]]
  /\ spent' = spent \ {d}
  /\ out' = {}
  /\ UNCHANGED call

\* d := c.newEmpty()
NewEmpty(c, d) ==
  /\ Idle
  /\ c # d
  /\ obj' = [obj EXCEPT ![d] = Empty(ZeroBlock)]
  /\ msg' = [msg EXCEPT ![d] = <<>>]
  /\ spent' = spent \ {d}
  /\ out' = {}
  /\ UNCHANGED call

Next ==
  \/ WriteEnd
  \/ WriteTail
  \/ WriteBlock
  \/ \E c \in Ctx :
       \/ \E data \in Data : WriteBegin(c, data)
       \/ Sum(c)
       \/ SumIn(c)
       \/ Reset(c)
       \/ \E d \in Ctx : Clone(c, d) \/ NewEmpty(c, d)

Spec == Init /\ [][Next]_vars

-----------------------------------------------------------------------------
(* The digest by its definition (RFC 1321, 3.1 and 3.2), with no buffer.   *)

\* How many blocks hold len bytes, the mark and the length
NBlocks(len) == (len + LenSpace) \div BlockSize + 1

\* Byte i of the padded message of total bytes in all
PadByte(m, total, i) ==
  IF i < Len(m) THEN m[i + 1]
  ELSE IF i = Len(m) THEN MarkByte
  ELSE IF i < total - LenSpace THEN ZeroByte
  ELSE LenByte(Len(m), i - (total - LenSpace))

Padded(m) ==
  LET n == NBlocks(Len(m))
  IN  [k \in 1..n |->
         [j \in Idx |-> PadByte(m, n * BlockSize, (k - 1) * BlockSize + j)]]

Contract == INSTANCE HashContract WITH Digest <- Padded

-----------------------------------------------------------------------------
(* Properties. *)

\* Every field has its type; a call in progress is one write() on a live object.
TypeOK ==
  /\ obj \in [Ctx -> Obj]
  /\ call \in SUBSET [ctx : Ctx, data : Data, dPos : Nat, nToWrite : Nat, space : 1..BlockSize]
  /\ \A v, w \in call : v = w
  /\ msg \in [Ctx -> Seq(ByteVal)]
  /\ spent \in SUBSET Ctx
  /\ \A w \in call : w.ctx \notin spent

\* How many bytes have reached the chain or the block of o
Position(o) == Len(o.chain) * BlockSize + o.bPos

\* The chain and the block of o hold the first Position(o) bytes of m, in order
HoldsPrefix(o, m) ==
  /\ o.ingest = Len(m)
  /\ Position(o) <= Len(m)
  /\ \A k \in 1..Len(o.chain) : \A j \in Idx :
       o.chain[k][j] = m[(k - 1) * BlockSize + j + 1]
  /\ \A j \in 0..(o.bPos - 1) : o.block[j] = m[Len(o.chain) * BlockSize + j + 1]

\* The loop invariant of write(), between and inside calls: an object holds its
\* message in order, however it was cut into writes, and the variables of a
\* write() in progress point at exactly the bytes that are left.
Absorbed ==
  /\ \A c \in Ctx \ spent :
       /\ HoldsPrefix(obj[c], msg[c])
       /\ (\A w \in call : w.ctx # c) => Position(obj[c]) = Len(msg[c])
  /\ \A w \in call :
       /\ Position(obj[w.ctx]) + w.nToWrite = Len(msg[w.ctx])
       /\ w.dPos + w.nToWrite = Len(w.data)
       /\ w.space = BlockSize - obj[w.ctx].bPos
       /\ \A i \in 1..w.nToWrite :
            w.data[w.dPos + i] = msg[w.ctx][Position(obj[w.ctx]) + i]

\* A digest returned by sum() or sumIn() is that of the bytes written, padded as
\* the algorithm says, at every position of the buffer the call may find.
DigestRight == \A r \in out : r.digest = Padded(r.msg)

\* Two objects would return the same digest exactly when the same bytes were
\* written to them: neither the cuts between writes nor stale bytes of the block
\* (after reset(), clone() or a longer message) reach a digest, and no two
\* messages pad to the same blocks.
SameDigestIffSameMessage ==
  Idle => \A c, d \in Ctx \ spent :
            (Final(obj[c]).chain = Final(obj[d]).chain) <=> (msg[c] = msg[d])

\* The class implements IHash: with the buffer hidden, each step is a call of the
\* contract or no step at all.
ImplementsIHash == Contract!CSpec
=============================================================================
