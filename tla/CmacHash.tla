------------------------------ MODULE CmacHash ------------------------------
(***************************************************************************)
(* Cmac of src/src/crypto/mac/Cmac.ts.  It xors the message into #block    *)
(* and leaves a full block there until more comes.  The cipher is any: a   *)
(* block that was encrypted e times is the sequence of the e inputs, and   *)
(* the bytes xored over it since.                                          *)
(*                                                                         *)
(* write() begins at _bPos, wherever that is, and bytes past the end of    *)
(* #block are dropped, as a typed array does.  The array sumIn() returns   *)
(* is #block itself.                                                       *)
(***************************************************************************)
EXTENDS Naturals, Sequences, SequencesExt

CONSTANTS
  Ctx,        \* the objects a caller holds, all of one key
  Data,       \* the byte arrays a caller passes to write()
  MaxLen,     \* bound: the longest message
  BlockSize   \* 16 in the code

\* Assumed where the module is instantiated
BlockSizeAssumption == BlockSize \in Nat \ {0}

VARIABLES
  obj,      \* obj[c]: the fields of c
  msg,      \* history: what was written to c since it was last empty
  split,    \* history: the objects with a write() that found the block not empty,
            \*   and had more to write than the room in it
  spent,    \* history: past sumIn(), and not reset
  out       \* what the last call returned

vars == <<obj, msg, split, spent, out>>

Idx == 1..BlockSize
Mark == 128                       \* the end marker 0x80
NoBytes == [i \in Idx |-> <<>>]   \* each place of #block: the bytes xored into it

\* chain: the inputs of the cipher so far; over: the bytes xored over its output
EmptyObj == [chain |-> <<>>, over |-> NoBytes, bPos |-> 0]

-----------------------------------------------------------------------------
(* The methods. *)

\* for the n bytes of data from dPos: this.#block[this._bPos++] ^= data[dPos++]
XorIn(o, data, dPos, n) ==
  [o EXCEPT !.over = [i \in Idx |-> IF i \in (o.bPos + 1)..(o.bPos + n)
                                    THEN Append(o.over[i], data[dPos + (i - o.bPos)])
                                    ELSE o.over[i]],
            !.bPos = @ + n]

\* this._aes.encryptBlock(this.#block), once the subkey k was xored in, if any
Encrypted(o, k) ==
  [o EXCEPT !.chain = Append(@, [bytes |-> o.over, subKey |-> k]), !.over = NoBytes]

\* Mutant of FullBlocks: >= for >
FullBlocksEager(n) == n \div BlockSize

\* The full blocks that are not the last: while (nToWrite > blockSize)
FullBlocks(n) == IF n = 0 THEN 0 ELSE (n - 1) \div BlockSize

Block(data, b) == SubSeq(data, (b - 1) * BlockSize + 1, b * BlockSize)

WriteBlock(o, block) == [Encrypted(XorIn(o, block, 0, BlockSize), "none") EXCEPT !.bPos = 0]

Written(o, data) ==
  LET n == FullBlocks(Len(data))
      full == FoldLeft(WriteBlock, o, [b \in 1..n |-> Block(data, b)])
  IN  XorIn(full, data, n * BlockSize, Len(data) - n * BlockSize)

\* Mutant of Summed: _bPos stays where the marker put it
SummedKeepsPos(o) ==
  Encrypted(IF o.bPos = BlockSize THEN o ELSE XorIn(o, <<Mark>>, 0, 1),
            IF o.bPos = BlockSize THEN "k1" ELSE "k2")

\* sumIn(), as it leaves the object
Summed(o) ==
  [Encrypted(IF o.bPos = BlockSize THEN o ELSE XorIn(o, <<Mark>>, 0, 1),
             IF o.bPos = BlockSize THEN "k1" ELSE "k2") EXCEPT !.bPos = 0]

Returned(c, data) == {[of |-> c, msg |-> msg[c], tag |-> data]}

-----------------------------------------------------------------------------
(* The calls.  A caller keeps to IHash: past sumIn() only reset() and         *)
(* newEmpty() follow.                                                         *)

Splits(o, data) == o.bPos # 0 /\ o.bPos + Len(data) > BlockSize

Write(c, data) ==
  /\ c \notin spent
  /\ Len(msg[c]) + Len(data) <= MaxLen
  /\ obj' = [obj EXCEPT ![c] = Written(@, data)]
  /\ msg' = [msg EXCEPT ![c] = @ \o data]
  /\ split' = IF Splits(obj[c], data) THEN split \union {c} ELSE split
  /\ out' = {}
  /\ UNCHANGED spent

\* Mutant of Sum: without the clone, the marker goes into the object itself
SumInPlace(c) ==
  /\ c \notin spent
  /\ out' = Returned(c, Summed(obj[c]).chain)
  /\ obj' = [obj EXCEPT ![c] = Summed(@)]
  /\ UNCHANGED <<msg, split, spent>>

\* this.clone().sumIn(): the array is the clone's block
Sum(c) ==
  /\ c \notin spent
  /\ out' = Returned(c, Summed(obj[c]).chain)
  /\ UNCHANGED <<obj, msg, split, spent>>

SumIn(c) ==
  /\ c \notin spent
  /\ obj' = [obj EXCEPT ![c] = Summed(@)]
  /\ out' = Returned(c, Summed(obj[c]).chain)
  /\ spent' = spent \union {c}
  /\ UNCHANGED <<msg, split>>

\* Mutant of ResetOf: _bPos is put back, the block is left
ResetOfKeepsBlock(o) == [o EXCEPT !.bPos = 0]

ResetOf(o) == EmptyObj

\* d becomes o, an object for the message m, split if c is
Becomes(d, o, m, isSplit) ==
  /\ obj' = [obj EXCEPT ![d] = o]
  /\ msg' = [msg EXCEPT ![d] = m]
  /\ split' = IF isSplit THEN split \union {d} ELSE split \ {d}
  /\ spent' = spent \ {d}
  /\ out' = {}

Reset(c) == Becomes(c, ResetOf(obj[c]), <<>>, FALSE)

NewEmpty(c, d) == c # d /\ Becomes(d, EmptyObj, <<>>, FALSE)

Clone(c, d) == c # d /\ c \notin spent /\ Becomes(d, obj[c], msg[c], c \in split)

Init ==
  /\ obj = [c \in Ctx |-> EmptyObj]
  /\ msg = [c \in Ctx |-> <<>>]
  /\ split = {}
  /\ spent = {}
  /\ out = {}

Next ==
  \E c \in Ctx :
    \/ \E data \in Data : Write(c, data)
    \/ Sum(c) \/ SumIn(c) \/ Reset(c)
    \/ \E d \in Ctx : NewEmpty(c, d) \/ Clone(c, d)

Spec == Init /\ [][Next]_vars

-----------------------------------------------------------------------------
(* RFC 4493: the inputs of the cipher for a whole message.                    *)

Rfc4493(m) ==
  LET n == Cardinality({i \in 1..(Len(m) - 1) : i % BlockSize = 0})   \* blocks but the last
      last == SubSeq(m, n * BlockSize + 1, Len(m))
      Bytes(s) == [i \in Idx |-> IF i \in DOMAIN s THEN <<s[i]>> ELSE <<>>]
  IN  [b \in 1..(n + 1) |->
         IF b <= n THEN [bytes |-> Bytes(Block(m, b)), subKey |-> "none"]
         ELSE IF Len(last) = BlockSize THEN [bytes |-> Bytes(last), subKey |-> "k1"]
         ELSE [bytes |-> Bytes(Append(last, Mark)), subKey |-> "k2"]]

(* An object is at a place of its block or at its end, unless a write was split; *)
(* one that was summed in place has an empty block.                              *)
TypeOK ==
  \A c \in Ctx : /\ c \notin split => obj[c].bPos \in 0..BlockSize
                 /\ c \in spent => obj[c].bPos = 0

(* As long as every write() either began a block or fitted in what was left of  *)
(* one, sum() and sumIn() return the RFC's tag of all that was written: a full  *)
(* block waits for its successor, so the last one gets its subkey.              *)
TagRightUnlessSplit ==
  \A r \in out : r.of \notin split => r.tag = Rfc4493(r.msg)
=============================================================================
