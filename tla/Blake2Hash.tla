----------------------------- MODULE Blake2Hash -----------------------------
(***************************************************************************)
(* Blake2_32bit and Blake2_64bit (src/src/crypto/hash/Blake2.ts).  The     *)
(* compression takes the block, a count of bytes and a flag for the last   *)
(* block; the chain is the sequence of the triples that went through it.   *)
(*                                                                         *)
(* The count is a U64Mut, an object of its own that _ingestBytes refers    *)
(* to, and clone() copies the reference.  So the module has a heap of      *)
(* counters: every constructor makes one, and clones share their source's. *)
(* reset() clears it in place and writes the key.                          *)
(***************************************************************************)
EXTENDS BlockBuffer, FiniteSets, Functions

CONSTANTS
  Ctx,         \* the hash objects a caller holds
  Data,        \* the byte arrays a caller passes to write()
  MaxLen,      \* bound: the longest message
  MaxCount,    \* bound: the counter at which no more is written, as a counter that
               \* many objects share may count more than the message of any
  Keys         \* the keys of objects, possibly empty: at most half a block in the code

\* Assumed where the module is instantiated
Blake2Sizes ==
  /\ BlockSize \in Nat \ {0}
  /\ \A key \in Keys : key \in Seq(ByteVal) /\ Len(key) < BlockSize
  /\ Data \subseteq Seq(ByteVal)
  /\ MaxLen \in Nat

VARIABLES
  obj,      \* obj[c]: the fields of c; obj[c].counter is a reference
  count,    \* count[x]: the value of the U64Mut x
  call,     \* {} or {the write() in progress}
  msg,      \* history: what was written to each object
  spent,    \* history: past sumIn() or a write() that threw, and not reset
  drifted,  \* history: the objects with a block completed by a later write
  touched,  \* history: the objects whose counter a call on another object changed
  out       \* what the last call returned

vars == <<obj, count, call, msg, spent, drifted, touched, out>>

\* Enough counters: one per object, as none is reachable but from an object
Counter == 1..Cardinality(Ctx)

Compressed == [block : Block, count : Nat, last : BOOLEAN]
Obj == [key : Keys, chain : Seq(Compressed), block : Block, bPos : Idx, counter : Counter]

-----------------------------------------------------------------------------
\* this._ingestBytes.zero() and write(key), on a block that keeps its bytes: the key
\* is shorter than a block, so it stays in the block
Keyed(key, block, x) ==
  Advance([key |-> key, chain |-> <<>>, block |-> block, bPos |-> 0, counter |-> x],
          key, 0, Len(key))

\* hash(last), with n in the counter
Hash(o, n, last) ==
  [o EXCEPT !.chain = Append(@, [block |-> o.block, count |-> n, last |-> last]), !.bPos = 0]

\* sumIn()
Final(o, n) == Hash(ZeroRest(o), n, TRUE)

\* The objects, other than c, that refer to c's counter
Sharers(c) == {d \in Ctx \ {c} : obj[d].counter = obj[c].counter}

\* A counter that no object but d refers to, for what d is about to hold
IsFresh(x, d) == \A e \in Ctx \ {d} : obj[e].counter # x

-----------------------------------------------------------------------------
Idle == call = {}

Init ==
  /\ \E k \in [Ctx -> Keys], f \in Bijection(Ctx, Counter) :
       /\ obj = [c \in Ctx |-> Keyed(k[c], ZeroBlock, f[c])]
       /\ count = [x \in Counter |-> Len(k[Inverse(f, Ctx, Counter)[x]])]
  /\ call = {}
  /\ msg = [c \in Ctx |-> <<>>]
  /\ spent = {}
  /\ drifted = {}
  /\ touched = {}
  /\ out = {}

WriteBegin(c, data) ==
  /\ Idle
  /\ c \notin spent
  /\ Len(msg[c]) + Len(data) <= MaxLen
  /\ count[obj[c].counter] + Len(data) <= MaxCount
  /\ call' = {[ctx |-> c, data |-> data, dPos |-> 0, nToWrite |-> Len(data),
               space |-> BlockSize - obj[c].bPos]}
  /\ msg' = [msg EXCEPT ![c] = @ \o data]
  /\ out' = {}
  /\ UNCHANGED <<obj, count, spent, drifted, touched>>

WriteEnd ==
  /\ \E w \in call : w.nToWrite = 0
  /\ call' = {}
  /\ UNCHANGED <<obj, count, msg, spent, drifted, touched, out>>

\* this._ingestBytes.addEq(n): in place, for every object that refers to it
CountMore(c, n) ==
  /\ count' = [count EXCEPT ![obj[c].counter] = @ + n]
  /\ touched' = touched \union Sharers(c)

\* Mutant of WriteTail: >= for >, a block that is exactly full is left in place
WriteTailFull ==
  \E w \in call :
    /\ w.nToWrite > 0
    /\ w.space >= w.nToWrite
    /\ obj' = [obj EXCEPT ![w.ctx] = Advance(@, w.data, w.dPos, w.nToWrite)]
    /\ CountMore(w.ctx, w.nToWrite)
    /\ call' = {}
    /\ UNCHANGED <<msg, spent, drifted, out>>

\* "More space than data, copy in verbatim"
WriteTail ==
  \E w \in call :
    /\ w.nToWrite > 0
    /\ w.space > w.nToWrite
    /\ obj' = [obj EXCEPT ![w.ctx] = Advance(@, w.data, w.dPos, w.nToWrite)]
    /\ CountMore(w.ctx, w.nToWrite)
    /\ call' = {}
    /\ UNCHANGED <<msg, spent, drifted, out>>

\* data.subarray(dPos, dPos + this.blockSize) fits at _bPos
Fits(w) ==
  obj[w.ctx].bPos + (IF w.nToWrite < BlockSize THEN w.nToWrite ELSE BlockSize) <= BlockSize

\* Mutant of WriteBlock: the block is compressed before it is counted
WriteBlockCountsLate ==
  \E w \in call :
    /\ w.nToWrite > 0
    /\ w.space <= w.nToWrite
    /\ Fits(w)
    /\ CountMore(w.ctx, BlockSize)
    /\ obj' = [obj EXCEPT ![w.ctx] =
                 Hash(Fill(@, w.data, w.dPos, w.space), count[@.counter], FALSE)]
    /\ drifted' = IF obj[w.ctx].bPos > 0 THEN drifted \union {w.ctx} ELSE drifted
    /\ call' = {[w EXCEPT !.dPos = @ + w.space, !.nToWrite = @ - w.space,
                          !.space = BlockSize]}
    /\ UNCHANGED <<msg, spent, out>>

\* this._ingestBytes.addEq(blockSize); this.hash(): a full block is never the last
WriteBlock ==
  \E w \in call :
    /\ w.nToWrite > 0
    /\ w.space <= w.nToWrite
    /\ Fits(w)
    /\ CountMore(w.ctx, BlockSize)
    /\ obj' = [obj EXCEPT ![w.ctx] =
                 Hash(Fill(@, w.data, w.dPos, w.space), count'[@.counter], FALSE)]
    /\ drifted' = IF obj[w.ctx].bPos > 0 THEN drifted \union {w.ctx} ELSE drifted
    /\ call' = {[w EXCEPT !.dPos = @ + w.space, !.nToWrite = @ - w.space,
                          !.space = BlockSize]}
    /\ UNCHANGED <<msg, spent, out>>

\* RangeError out of TypedArray.set(): nothing of this turn is done
WriteThrows ==
  \E w \in call :
    /\ w.nToWrite > 0
    /\ w.space <= w.nToWrite
    /\ ~Fits(w)
    /\ call' = {}
    /\ spent' = spent \union {w.ctx}
    /\ UNCHANGED <<obj, count, msg, drifted, touched, out>>

DigestOf(c) == Final(obj[c], count[obj[c].counter]).chain
Returned(c) == {[ctx |-> c, digest |-> DigestOf(c)]}

\* sum(): the clone it sums shares the counter, but sumIn() only reads it
Sum(c) ==
  /\ Idle
  /\ c \notin spent
  /\ out' = Returned(c)
  /\ UNCHANGED <<obj, count, call, msg, spent, drifted, touched>>

SumIn(c) ==
  /\ Idle
  /\ c \notin spent
  /\ out' = Returned(c)
  /\ obj' = [obj EXCEPT ![c] = Final(@, count[@.counter])]
  /\ spent' = spent \union {c}
  /\ UNCHANGED <<count, call, msg, drifted, touched>>

\* Mutant of Reset: the count of the key is lost
ResetForgetsKey(c) ==
  /\ Idle
  /\ obj' = [obj EXCEPT ![c] = Keyed(@.key, @.block, @.counter)]
  /\ count' = [count EXCEPT ![obj[c].counter] = 0]
  /\ touched' = (touched \union Sharers(c)) \ {c}
  /\ drifted' = drifted \ {c}
  /\ msg' = [msg EXCEPT ![c] = <<>>]
  /\ spent' = spent \ {c}
  /\ out' = {}
  /\ UNCHANGED call

\* reset(): the counter is cleared in place, then counts the key
Reset(c) ==
  /\ Idle
  /\ obj' = [obj EXCEPT ![c] = Keyed(@.key, @.block, @.counter)]
  /\ count' = [count EXCEPT ![obj[c].counter] = Len(obj[c].key)]
  /\ touched' = (touched \union Sharers(c)) \ {c}
  /\ drifted' = drifted \ {c}
  /\ msg' = [msg EXCEPT ![c] = <<>>]
  /\ spent' = spent \ {c}
  /\ out' = {}
  /\ UNCHANGED call

\* The membership of d in a set becomes that of c
Follows(S, c, d) == IF c \in S THEN S \union {d} ELSE S \ {d}

\* d := c.clone(): ret._ingestBytes = this._ingestBytes
Clone(c, d) ==
  /\ Idle
  /\ c # d
  /\ c \notin spent
  /\ obj' = [obj EXCEPT ![d] = obj[c]]
  /\ touched' = Follows(touched, c, d)
  /\ drifted' = Follows(drifted, c, d)
  /\ msg' = [msg EXCEPT ![d] = msg[c]]
  /\ spent' = spent \ {d}
  /\ out' = {}
  /\ UNCHANGED <<count, call>>

\* d := c.newEmpty(): a new object with the same key, and a new counter
NewEmpty(c, d) ==
  /\ Idle
  /\ c # d
  /\ \E x \in Counter :
       /\ IsFresh(x, d)
       /\ obj' = [obj EXCEPT ![d] = Keyed(obj[c].key, ZeroBlock, x)]
       /\ count' = [count EXCEPT ![x] = Len(obj[c].key)]
  /\ touched' = touched \ {d}
  /\ drifted' = drifted \ {d}
  /\ msg' = [msg EXCEPT ![d] = <<>>]
  /\ spent' = spent \ {d}
  /\ out' = {}
  /\ UNCHANGED call

Next ==
  \/ WriteEnd
  \/ WriteTail
  \/ WriteBlock
  \/ WriteThrows
  \/ \E c \in Ctx :
       \/ \E data \in Data : WriteBegin(c, data)
       \/ Sum(c)
       \/ SumIn(c)
       \/ Reset(c)
       \/ \E d \in Ctx : Clone(c, d) \/ NewEmpty(c, d)

Spec == Init /\ [][Next]_vars

-----------------------------------------------------------------------------
(* What one write() of the whole message to a new object would return.     *)

Blocks(key, m) ==
  LET keyed == key \o m
      full  == Len(keyed) \div BlockSize
      Byte(i) == IF i < Len(keyed) THEN keyed[i + 1] ELSE ZeroByte
  IN  [k \in 1..(full + 1) |->
         [block |-> [j \in Idx |-> Byte((k - 1) * BlockSize + j)],
          count |-> IF k <= full THEN k * BlockSize ELSE Len(keyed),
          last  |-> k = full + 1]]

-----------------------------------------------------------------------------
(* Properties. *)

\* Every field has its type; counters never run out, as only objects hold them.
TypeOK ==
  /\ obj \in [Ctx -> Obj]
  /\ count \in [Counter -> Nat]
  /\ \A w \in call : w.ctx \in Ctx \ spent /\ w.nToWrite \in 0..MaxLen /\ w.space \in 1..BlockSize
  /\ spent \subseteq Ctx /\ drifted \subseteq Ctx /\ touched \subseteq Ctx

\* The counter of an object counts its key and its message, while no block begun by
\* one write was completed by another and no other object shared the counter.
CountsOwnBytes ==
  Idle => \A c \in Ctx \ (spent \union drifted \union touched) :
            count[obj[c].counter] = Len(obj[c].key) + Len(msg[c])

\* The same of the digests that sum() and sumIn() return.
DigestRightWhenAlone ==
  \A r \in out : r.ctx \notin drifted \union touched => r.digest = Blocks(obj[r.ctx].key, msg[r.ctx])

\* The counter holds the key and the message through resets, copies and new objects, and
\* an object whose counter no other call touched returns what one write() of its message
\* to a new object would (Blake2.ts).
Blake2Right == TypeOK /\ CountsOwnBytes /\ DigestRightWhenAlone
=============================================================================
