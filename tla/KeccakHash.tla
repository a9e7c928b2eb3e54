----------------------------- MODULE KeccakHash -----------------------------
(***************************************************************************)
(* KeccakCore (src/src/crypto/hash/Keccak.ts), the sponge under Keccak,    *)
(* SHA-3, SHAKE and TurboSHAKE.  write() xors the message into the first   *)
(* BlockSize bytes of the state, one byte at a time, and permutes whenever *)
(* they are used up; sumIn() xors the suffix after the last byte and 0x80  *)
(* into the last one, permutes, and reads the digest off the state, with   *)
(* one more permutation for each further block of it.                      *)
(*                                                                         *)
(* The permutation is ideal: the state is the sequence of the blocks that  *)
(* were xored in before each permutation, and the block xored in since the *)
(* last.  A byte is the set of its bits, so that xor is what the code does.*)
(***************************************************************************)
EXTENDS Naturals, Sequences

CONSTANTS
  Ctx,         \* the hash objects a caller holds
  Data,        \* the byte arrays a caller passes to write()
  MaxLen,      \* bound: the longest message
  BlockSize,   \* 200 bytes less twice the capacity
  Suffix,      \* 1 Keccak, 6 SHA3, 0x1f SHAKE, 4 cSHAKE, 0x01..0x7f TurboSHAKE
  Squeezes     \* permutations between the blocks of a digest

Bit == 0..7
Byte == SUBSET Bit
TopBit == {7}        \* 0x80

ASSUME SpongeAssumption ==
  /\ BlockSize \in Nat \ {0}
  /\ Squeezes \in Nat
  /\ Suffix \in Byte \ {{}}

ASSUME BytesAssumption == Data \subseteq Seq(Byte)

VARIABLES
  obj,     \* obj[c]: the fields of c
  call,    \* {} or {the write() in progress}, at byte i of its data
  msg,     \* history: what was written to each object (see HashContract)
  spent,   \* history: the objects past sumIn() and not reset
  out      \* what the last call returned

vars == <<obj, call, msg, spent, out>>

Idx == 0..BlockSize-1
ZeroBlock == [j \in Idx |-> {}]
Obj == [chain : Seq([Idx -> Byte]), block : [Idx -> Byte], bPos : Idx]

-----------------------------------------------------------------------------
\* x ^ y
Xor(x, y) == (x \ y) \union (y \ x)

Empty == [chain |-> <<>>, block |-> ZeroBlock, bPos |-> 0]

\* hash(): permute; "Reset block pointer"
Hash(o) == [chain |-> Append(o.chain, o.block), block |-> ZeroBlock, bPos |-> 0]

\* Mutant of Absorb: > for ===
AbsorbLate(o, b) ==
  LET p == [o EXCEPT !.block[o.bPos] = Xor(@, b), !.bPos = @ + 1]
  IN  IF p.bPos > BlockSize THEN Hash(p) ELSE p

\* One turn of write(): this.block[this.bPos++] ^= data[i], and hash() at blockSize
Absorb(o, b) ==
  LET p == [o EXCEPT !.block[o.bPos] = Xor(@, b), !.bPos = @ + 1]
  IN  IF p.bPos = BlockSize THEN Hash(p) ELSE p

\* Mutant of Suffixed: "End with a 0b1 in MSB" is left out
SuffixedNoEnd(o) == [o EXCEPT !.block[o.bPos] = Xor(@, Suffix)]

\* xorSuffix(), then "End with a 0b1 in MSB"; both may fall on the last byte
Suffixed(o) ==
  LET p == [o EXCEPT !.block[o.bPos] = Xor(@, Suffix)]
  IN  [p EXCEPT !.block[BlockSize - 1] = Xor(@, TopBit)]

Squeezed == [k \in 1..Squeezes |-> ZeroBlock]

\* sumIn(): every block of the digest is read from this chain or a prefix of it
Final(o) ==
  LET p == Hash(Suffixed(o))
  IN  [p EXCEPT !.chain = @ \o Squeezed]

-----------------------------------------------------------------------------
Idle == call = {}

Init ==
  /\ obj = [c \in Ctx |-> Empty]
  /\ call = {}
  /\ msg = [c \in Ctx |-> <<>>]
  /\ spent = {}
  /\ out = {}

WriteBegin(c, data) ==
  /\ Idle
  /\ c \notin spent
  /\ Len(msg[c]) + Len(data) <= MaxLen
  /\ call' = {[ctx |-> c, data |-> data, i |-> 0]}
  /\ msg' = [msg EXCEPT ![c] = @ \o data]
  /\ out' = {}
  /\ UNCHANGED <<obj, spent>>

WriteByte ==
  \E w \in call :
    /\ w.i < Len(w.data)
    /\ obj' = [obj EXCEPT ![w.ctx] = Absorb(@, w.data[w.i + 1])]
    /\ call' = {[w EXCEPT !.i = @ + 1]}
    /\ UNCHANGED <<msg, spent, out>>

WriteEnd ==
  /\ \E w \in call : w.i = Len(w.data)
  /\ call' = {}
  /\ UNCHANGED <<obj, msg, spent, out>>

Returned(c) == {[msg |-> msg[c], digest |-> Final(obj[c]).chain]}

\* Mutant of Sum: without the clone, the suffix goes into the object itself
SumInPlace(c) ==
  /\ Idle
  /\ c \notin spent
  /\ out' = Returned(c)
  /\ obj' = [obj EXCEPT ![c] = Suffixed(@)]
  /\ UNCHANGED <<call, msg, spent>>

Sum(c) ==
  /\ Idle
  /\ c \notin spent
  /\ out' = Returned(c)
  /\ UNCHANGED <<obj, call, msg, spent>>

SumIn(c) ==
  /\ Idle
  /\ c \notin spent
  /\ out' = Returned(c)
  /\ obj' = [obj EXCEPT ![c] = Final(@)]
  /\ spent' = spent \union {c}
  /\ UNCHANGED <<call, msg>>

Becomes(d, o, m) ==
  /\ Idle
  /\ obj' = [obj EXCEPT ![d] = o]
  /\ msg' = [msg EXCEPT ![d] = m]
  /\ spent' = spent \ {d}
  /\ out' = {}
  /\ UNCHANGED call

\* Mutant of Reset: only the position is put back, the state keeps the message
ResetKeepsState(c) == Becomes(c, [obj[c] EXCEPT !.bPos = 0], <<>>)

Reset(c) == Becomes(c, Empty, <<>>)
Clone(c, d) == c # d /\ c \notin spent /\ Becomes(d, obj[c], msg[c])
NewEmpty(c, d) == c # d /\ Becomes(d, Empty, <<>>)

Next ==
  \/ WriteByte
  \/ WriteEnd
  \/ \E c \in Ctx :
       \/ \E data \in Data : WriteBegin(c, data)
       \/ Sum(c)
       \/ SumIn(c)
       \/ Reset(c)
       \/ \E d \in Ctx : Clone(c, d) \/ NewEmpty(c, d)

Spec == Init /\ [][Next]_vars

-----------------------------------------------------------------------------
(* The digest by its definition (FIPS 202, 4 and 5.1), with no buffer: the *)
(* suffix, zeros and a last one bit after the message, cut into blocks.    *)

NBlocks(len) == len \div BlockSize + 1

PadByte(m, total, i) ==
  IF i < Len(m) THEN m[i + 1]
  ELSE Xor(IF i = Len(m) THEN Suffix ELSE {}, IF i = total - 1 THEN TopBit ELSE {})

Padded(m) ==
  LET n == NBlocks(Len(m))
  IN  [k \in 1..n |->
         [j \in Idx |-> PadByte(m, n * BlockSize, (k - 1) * BlockSize + j)]] \o Squeezed

Contract == INSTANCE HashContract WITH Digest <- Padded

-----------------------------------------------------------------------------
(* Properties. *)

\* Every field has its type; the position is inside the block between calls, so the
\* suffix always has a byte to go into.
TypeOK ==
  /\ obj \in [Ctx -> Obj]
  /\ \A w \in call : w.ctx \in Ctx \ spent /\ w.data \in Data /\ w.i \in 0..Len(w.data)
  /\ msg \in [Ctx -> Seq(Byte)]
  /\ spent \subseteq Ctx

\* Two objects would return the same digest exactly when the same bytes were
\* written to them: the suffix and the end bit keep every two messages apart, also
\* where they share the last byte, and where a message ends with what they add.
SameDigestIffSameMessage ==
  Idle => \A c, d \in Ctx \ spent :
            (Final(obj[c]).chain = Final(obj[d]).chain) <=> (msg[c] = msg[d])

\* Two sponges sum alike exactly when their messages are equal.
SpongesApart == TypeOK /\ SameDigestIffSameMessage

\* Keccak implements IHash: a digest is that of the bytes written, however they
\* were cut into writes, and whatever was cloned, summed or reset in between.
ImplementsIHash == Contract!CSpec
=============================================================================
