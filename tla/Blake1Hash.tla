----------------------------- MODULE Blake1Hash -----------------------------
(***************************************************************************)
(* Blake1_32bit and Blake1_64bit (src/src/crypto/hash/Blake1.ts).  The     *)
(* compression takes the block and a count of message bytes, so the chain  *)
(* is the sequence of the pairs that went through hash().                  *)
(*                                                                         *)
(* write() counts as it goes, and a turn of its loop that completes a      *)
(* block adds blockSize to the count, not the bytes it brought.  As in     *)
(* Sha2Hash it copies data.subarray(dPos, dPos + blockSize), which throws  *)
(* when the block holds something and more than the space is left.         *)
(***************************************************************************)
EXTENDS BlockBuffer

CONSTANTS
  Ctx,         \* the hash objects a caller holds
  Data,        \* the byte arrays a caller passes to write()
  MaxLen,      \* bound: the longest message
  LenSpace     \* 8 or 16 in the code

\* Assumed where the module is instantiated
BlakeSizes ==
  /\ BlockSize \in Nat
  /\ LenSpace \in 1..(BlockSize - 2)
  /\ Data \subseteq Seq(ByteVal)
  /\ MaxLen \in Nat

VARIABLES
  obj,     \* obj[c]: the fields of the object c
  call,    \* {} or {the write() in progress}
  msg,     \* history: what was written to each object
  spent,   \* history: past sumIn() or a write() that threw, and not reset
  over,    \* history: bytes that were in a block when a later write completed it
  out      \* what the last call returned

vars == <<obj, call, msg, spent, over, out>>

Compressed == [block : Block, count : Nat]
Obj == [chain : Seq(Compressed), block : Block, bPos : Idx, ingest : Nat]
SizeSpace == BlockSize - LenSpace

-----------------------------------------------------------------------------
Empty(block) == [chain |-> <<>>, block |-> block, bPos |-> 0, ingest |-> 0]

\* Mutant of HashWith: the block pointer is not put back
HashKeepsPos(o, count) ==
  [o EXCEPT !.chain = Append(@, [block |-> o.block, count |-> count])]

\* hash(countOverride): the pair joins the chain; "Reset block pointer"
HashWith(o, count) ==
  [o EXCEPT !.chain = Append(@, [block |-> o.block, count |-> count]), !.bPos = 0]

\* hash(): countOverride ?? this._ingestBytes
Hash(o) == HashWith(o, o.ingest)

\* A turn of write() that leaves the block open, and one that completes it:
\* this._ingestBytes += nToWrite, or += this.blockSize and this.hash()
Tailed(o, data, dPos, n) == [Advance(o, data, dPos, n) EXCEPT !.ingest = @ + n]
Blocked(o, data, dPos, n) == Hash([Fill(o, data, dPos, n) EXCEPT !.ingest = @ + BlockSize])

LenByte(n, i) == BitLenByte(n, LenSpace - 1 - i)

\* "End with a 0b1 in MSB"
Marked(o) == [o EXCEPT !.block[o.bPos] = MarkByte, !.bPos = @ + 1]

\* this.#block[sizeSpace - 1] |= 1, on a block filled with zeros or just marked
LowBit(b) == IF b % 2 = 0 THEN b + 1 ELSE b

\* fill, "Add a 0b1 in LSB before length", then the length
Sized(o) ==
  LET z == ZeroRest(o)
  IN  [z EXCEPT !.block =
         [j \in Idx |-> IF j >= SizeSpace THEN LenByte(o.ingest, j - SizeSpace)
                        ELSE IF j = SizeSpace - 1 THEN LowBit(z.block[j])
                        ELSE z.block[j]]]

\* Mutant of Final: the count of the block that holds no message is not overridden
FinalNoOverride(o) ==
  LET k == Marked(o)
  IN  IF k.bPos > SizeSpace THEN Hash(Sized(Hash(ZeroRest(k)))) ELSE Hash(Sized(k))

\* sumIn(): a block added for the length alone is compressed with count 0
Final(o) ==
  LET k == Marked(o)
  IN  IF k.bPos > SizeSpace THEN HashWith(Sized(Hash(ZeroRest(k))), 0)
      ELSE Hash(Sized(k))

-----------------------------------------------------------------------------
Idle == call = {}

Init ==
  /\ obj = [c \in Ctx |-> Empty(ZeroBlock)]
  /\ call = {}
  /\ msg = [c \in Ctx |-> <<>>]
  /\ spent = {}
  /\ over = [c \in Ctx |-> 0]
  /\ out = {}

WriteBegin(c, data) ==
  /\ Idle
  /\ c \notin spent
  /\ Len(msg[c]) + Len(data) <= MaxLen
  /\ call' = {[ctx |-> c, data |-> data, dPos |-> 0, nToWrite |-> Len(data),
               space |-> BlockSize - obj[c].bPos]}
  /\ msg' = [msg EXCEPT ![c] = @ \o data]
  /\ out' = {}
  /\ UNCHANGED <<obj, spent, over>>

WriteEnd ==
  /\ \E w \in call : w.nToWrite = 0
  /\ call' = {}
  /\ UNCHANGED <<obj, msg, spent, over, out>>

\* Mutant of WriteTail: the bytes left in the block are not counted
WriteTailUncounted ==
  \E w \in call :
    /\ w.nToWrite > 0
    /\ w.space > w.nToWrite
    /\ obj' = [obj EXCEPT ![w.ctx] = Advance(@, w.data, w.dPos, w.nToWrite)]
    /\ call' = {}
    /\ UNCHANGED <<msg, spent, over, out>>

\* Mutant of WriteTail: >= for >, a block that is exactly full is left in place
WriteTailFull ==
  \E w \in call :
    /\ w.nToWrite > 0
    /\ w.space >= w.nToWrite
    /\ obj' = [obj EXCEPT ![w.ctx] = Tailed(@, w.data, w.dPos, w.nToWrite)]
    /\ call' = {}
    /\ UNCHANGED <<msg, spent, over, out>>

\* "More space than data, copy in verbatim"
WriteTail ==
  \E w \in call :
    /\ w.nToWrite > 0
    /\ w.space > w.nToWrite
    /\ obj' = [obj EXCEPT ![w.ctx] = Tailed(@, w.data, w.dPos, w.nToWrite)]
    /\ call' = {}
    /\ UNCHANGED <<msg, spent, over, out>>

\* data.subarray(dPos, dPos + this.blockSize) fits at _bPos
Fits(w) ==
  obj[w.ctx].bPos + (IF w.nToWrite < BlockSize THEN w.nToWrite ELSE BlockSize) <= BlockSize

\* Mutant of WriteBlock: the block is compressed before it is counted
WriteBlockCountsLate ==
  \E w \in call :
    /\ w.nToWrite > 0
    /\ w.space <= w.nToWrite
    /\ Fits(w)
    /\ obj' = [obj EXCEPT ![w.ctx] =
                 [Hash(Fill(@, w.data, w.dPos, w.space)) EXCEPT !.ingest = @ + BlockSize]]
    /\ over' = [over EXCEPT ![w.ctx] = @ + obj[w.ctx].bPos]
    /\ call' = {[w EXCEPT !.dPos = @ + w.space, !.nToWrite = @ - w.space,
                          !.space = BlockSize]}
    /\ UNCHANGED <<msg, spent, out>>

WriteBlock ==
  \E w \in call :
    /\ w.nToWrite > 0
    /\ w.space <= w.nToWrite
    /\ Fits(w)
    /\ obj' = [obj EXCEPT ![w.ctx] = Blocked(@, w.data, w.dPos, w.space)]
    /\ over' = [over EXCEPT ![w.ctx] = @ + obj[w.ctx].bPos]
    /\ call' = {[w EXCEPT !.dPos = @ + w.space, !.nToWrite = @ - w.space,
                          !.space = BlockSize]}
    /\ UNCHANGED <<msg, spent, out>>

\* RangeError out of TypedArray.set(): nothing of this turn is done
WriteThrows ==
  \E w \in call :
    /\ w.nToWrite > 0
    /\ w.space <= w.nToWrite
    /\ ~Fits(w)
    /\ call' = {}
    /\ spent' = spent \union {w.ctx}
    /\ UNCHANGED <<obj, msg, over, out>>

Returned(c) ==
  {[msg |-> msg[c], over |-> over[c], digest |-> Final(obj[c]).chain]}

Sum(c) ==
  /\ Idle
  /\ c \notin spent
  /\ out' = Returned(c)
  /\ UNCHANGED <<obj, call, msg, spent, over>>

SumIn(c) ==
  /\ Idle
  /\ c \notin spent
  /\ out' = Returned(c)
  /\ obj' = [obj EXCEPT ![c] = Final(@)]
  /\ spent' = spent \union {c}
  /\ UNCHANGED <<call, msg, over>>

\* d becomes an object with the state o and the history of c, or an empty one
Becomes(d, o, m, n) ==
  /\ Idle
  /\ obj' = [obj EXCEPT ![d] = o]
  /\ msg' = [msg EXCEPT ![d] = m]
  /\ over' = [over EXCEPT ![d] = n]
  /\ spent' = spent \ {d}
  /\ out' = {}
  /\ UNCHANGED call

Reset(c) == Becomes(c, Empty(obj[c].block), <<>>, 0)
Clone(c, d) == c # d /\ c \notin spent /\ Becomes(d, obj[c], msg[c], over[c])
NewEmpty(c, d) == c # d /\ Becomes(d, Empty(ZeroBlock), <<>>, 0)

Next ==
  \/ WriteEnd
  \/ WriteTail
  \/ WriteBlock
  \/ WriteThrows
  \/ \E c \in Ctx :
       \/ \E data \in Data : WriteBegin(c, data)
       \/ Sum(c)
       \/ SumIn(c)
       \/ Reset(c)
       \/ \E d \in Ctx : Clone(c, d) \/ NewEmpty(c, d)

Spec == Init /\ [][Next]_vars

-----------------------------------------------------------------------------
(* What one write() of the whole message would return: the padded blocks,  *)
(* each with the number of message bytes up to its end, or 0 when the      *)
(* block was added for the length alone.                                   *)

NBlocks(len) == (len + LenSpace) \div BlockSize + 1

PadByte(m, total, i) ==
  LET last == total - LenSpace - 1
  IN  IF i < Len(m) THEN m[i + 1]
      ELSE IF i > last THEN LenByte(Len(m), i - last - 1)
      ELSE (IF i = Len(m) THEN MarkByte ELSE ZeroByte) + (IF i = last THEN 1 ELSE 0)

Count(len, k) ==
  IF k * BlockSize <= len THEN k * BlockSize
  ELSE IF (len % BlockSize) + 1 > SizeSpace /\ k = NBlocks(len) THEN 0
  ELSE len

Padded(m) ==
  LET n == NBlocks(Len(m))
  IN  [k \in 1..n |->
         [block |-> [j \in Idx |-> PadByte(m, n * BlockSize, (k - 1) * BlockSize + j)],
          count |-> Count(Len(m), k)]]

-----------------------------------------------------------------------------
(* Properties. *)

\* Every field has its type, and a write() in progress works on a live object.
TypeOK ==
  /\ obj \in [Ctx -> Obj]
  /\ \A w \in call : w.ctx \in Ctx \ spent /\ w.nToWrite \in 0..MaxLen /\ w.space \in 1..BlockSize
  /\ \A c \in Ctx : Len(msg[c]) <= MaxLen
  /\ spent \subseteq Ctx

\* The count drifts by exactly the bytes that lay in a block when a later write
\* completed it, and by nothing else: throws, clones and sums add no drift.
CountDrift ==
  \A c \in Ctx \ spent :
    /\ \A w \in call : w.ctx = c => obj[c].ingest + w.nToWrite = Len(msg[c]) + over[c]
    /\ (\A w \in call : w.ctx # c) => obj[c].ingest = Len(msg[c]) + over[c]

\* A digest is that of the message written in one call, unless a later write
\* completed a block that an earlier one had begun.
DigestRightUnlessDrifted == \A r \in out : r.over = 0 => r.digest = Padded(r.msg)

\* Even then the blocks are those of the message, in order; the counts, and the
\* length at the end, are what is wrong.
BlocksInOrder ==
  \A c \in Ctx \ spent : \A k \in 1..Len(obj[c].chain) :
    \A j \in Idx : obj[c].chain[k].block[j] = msg[c][(k - 1) * BlockSize + j + 1]

\* The blocks are always those of the message, in order, and without drift a digest does
\* not depend on how the message came.  The count drifts by exactly the bytes that lay in
\* blocks a later write completed (Blake1.ts write()).
BlakeRight == TypeOK /\ CountDrift /\ BlocksInOrder /\ DigestRightUnlessDrifted
=============================================================================
