----------------------------- MODULE SkeinHash -----------------------------
(***************************************************************************)
(* SkeinCore (src/src/crypto/hash/Skein.ts), the hash, MAC and KDF built   *)
(* on the UBI chaining of Threefish, and the Tweak of                      *)
(* src/src/crypto/sym/Threefish.ts, which counts the bytes, names the kind *)
(* of block and caches the xor of its two words behind a lock.             *)
(*                                                                         *)
(* The cipher is ideal: the chaining value is the sequence of the blocks   *)
(* encrypted so far, each with the tweak it was encrypted under and the    *)
(* cached word the cipher really read.  encryptBlock() works in place, so  *)
(* the block holds ciphertext afterwards.                                  *)
(*                                                                         *)
(* A turn of write() either ends the call or meets an empty block, so a    *)
(* whole call is one step here.                                            *)
(***************************************************************************)
EXTENDS BlockBuffer, SequencesExt

CONSTANTS
  Ctx,         \* the hash objects a caller holds
  Data,        \* the byte arrays a caller passes to write()
  MaxLen,      \* bound: the longest message
  Key, Kdf,    \* the key and the key-id of the first objects, possibly empty
  OutBlocks    \* how many blocks the digest takes

VARIABLES
  obj,      \* obj[c]: the fields of c
  msg,      \* history: what was written to each object
  writes,   \* history: how many calls with data each object accepted
  keyed,    \* history: the objects that should have Key and Kdf
  spent,    \* history: past sumIn(), and not reset
  out       \* what the last call returned

vars == <<obj, msg, writes, keyed, spent, out>>

Cipher == 256        \* stands for a byte of ciphertext
CfgByte == 257       \* stands for a byte of the configuration: schema, version, size

-----------------------------------------------------------------------------
(* class Tweak.  third is t64[2], the xor of the other two words when it   *)
(* was computed; each setter clears _lock, each encryption sets it.        *)

Kinds == {"key", "cfg", "kdf", "msg", "out"}
Value(t) == [kind |-> t.kind, pos |-> t.pos, first |-> t.first, last |-> t.last]
NoValue == [kind |-> "key", pos |-> 0, first |-> FALSE, last |-> FALSE]

\* new Tweak(), and NewKey()
NewTweak ==
  [kind |-> "key", pos |-> 0, first |-> TRUE, last |-> FALSE,
   locked |-> FALSE, third |-> NoValue]

\* Mutant of Make: the lock is left as it was
MakeKeepsLock(t, kind) ==
  [kind |-> kind,
   pos |-> IF kind = "cfg" THEN 32 ELSE IF kind = "out" THEN 8 ELSE 0,
   first |-> TRUE, last |-> kind \in {"cfg", "out"},
   locked |-> t.locked, third |-> NoValue]

\* makeCfg, makeKdf, makeMsg, makeOut: t8.fill(0) clears the third word too
Make(t, kind) ==
  [kind |-> kind,
   pos |-> IF kind = "cfg" THEN 32 ELSE IF kind = "out" THEN 8 ELSE 0,
   first |-> TRUE, last |-> kind \in {"cfg", "out"},
   locked |-> FALSE, third |-> NoValue]

Incr(t, by) == [t EXCEPT !.pos = @ + by, !.locked = FALSE]
NotFirst(t) == [t EXCEPT !.first = FALSE, !.locked = FALSE]
IsLast(t) == [t EXCEPT !.last = TRUE, !.locked = FALSE]

\* lock = true, from encryptBlock()
Lock(t) == IF t.locked THEN t ELSE [t EXCEPT !.locked = TRUE, !.third = Value(t)]

-----------------------------------------------------------------------------
(* class SkeinCore, method by method. *)

Ubi(o) ==
  LET t == Lock(o.tweak)
  IN  [o EXCEPT !.tweak = t,
                !.chain = Append(@, [block |-> o.block, tweak |-> Value(t), third |-> t.third]),
                !.block = [j \in Idx |-> Cipher]]

\* Mutant of Hash: every block says it is the first
HashStaysFirst(o) ==
  [Ubi([o EXCEPT !.tweak = Incr(@, BlockSize)]) EXCEPT !.bPos = 0]

Hash(o) ==
  [Ubi([o EXCEPT !.tweak = Incr(@, BlockSize)]) EXCEPT !.tweak = NotFirst(@), !.bPos = 0]

Finalize(o) ==
  [Ubi(ZeroRest([o EXCEPT !.tweak = IsLast(Incr(@, o.bPos))])) EXCEPT !.bPos = 0]

\* set() accepts every turn: the data goes over the block from its start (space >=
\* nToWrite), or the block is empty
Accepts(o, data) == o.bPos = 0 \/ Len(data) <= BlockSize - o.bPos

\* Mutant of Turns: a full block is not kept back
TurnsEager(o, data) ==
  IF Len(data) < BlockSize - o.bPos THEN 0 ELSE Len(data) \div BlockSize

\* How many turns of the loop hash a block: the last block stays, even when full
Turns(o, data) ==
  IF Len(data) <= BlockSize - o.bPos THEN 0 ELSE (Len(data) - 1) \div BlockSize

\* this._block.set(data.subarray(dPos)): at 0, not at _bPos; then _bPos += nToWrite
Overwrite(o, data, dPos, n) ==
  [Fill([o EXCEPT !.bPos = 0], data, dPos, n) EXCEPT !.bPos = o.bPos + n]

Written(o, data) ==
  LET Turn(p, k) == Hash(Fill(p, data, (k - 1) * BlockSize, BlockSize))
      turns == Turns(o, data)
      p == FoldLeft(Turn, [o EXCEPT !.hasData = TRUE], [k \in 1..turns |-> k])
  IN  Overwrite(p, data, turns * BlockSize, Len(data) - turns * BlockSize)

\* The constructor: the key, the configuration and the key-id, each UBI in turn
New(key, kdf) ==
  LET fresh == [chain |-> <<>>, cfg |-> <<>>, block |-> ZeroBlock, bPos |-> 0,
                hasData |-> FALSE, tweak |-> NewTweak]
      withKey == IF key = <<>> THEN fresh ELSE Finalize(Written(fresh, key))
      withCfg == Ubi([withKey EXCEPT !.block = [j \in Idx |-> CfgByte], !.tweak = Make(@, "cfg")])
      withKdf == IF kdf = <<>> THEN withCfg
                 ELSE Finalize(Written([withCfg EXCEPT !.tweak = Make(@, "kdf")], kdf))
  IN  [withKdf EXCEPT !.cfg = withKdf.chain, !.tweak = Make(@, "msg"), !.hasData = FALSE]

\* The state sumIn() leaves, before the output blocks
Final(o) == IF o.hasData THEN Finalize(o) ELSE o

\* Output block k: the counter in a zero block, from the same chaining value
Output(o, k) ==
  LET p == Ubi([o EXCEPT !.tweak = Make(@, "out"), !.block = [ZeroBlock EXCEPT ![0] = k - 1]])
  IN  p.chain[Len(p.chain)]

Digest(o) == [chain |-> Final(o).chain, output |-> [k \in 1..OutBlocks |-> Output(Final(o), k)]]

-----------------------------------------------------------------------------
Init ==
  /\ obj = [c \in Ctx |-> New(Key, Kdf)]
  /\ msg = [c \in Ctx |-> <<>>]
  /\ writes = [c \in Ctx |-> 0]
  /\ keyed = Ctx
  /\ spent = {}
  /\ out = {}

Write(c, data) ==
  /\ c \notin spent
  /\ Len(msg[c]) + Len(data) <= MaxLen
  /\ Accepts(obj[c], data)
  /\ obj' = [obj EXCEPT ![c] = Written(@, data)]
  /\ msg' = [msg EXCEPT ![c] = @ \o data]
  /\ writes' = [writes EXCEPT ![c] = IF data = <<>> THEN @ ELSE @ + 1]
  /\ out' = {}
  /\ UNCHANGED <<keyed, spent>>

\* RangeError out of the first turn; _hasData was set already
WriteThrows(c, data) ==
  /\ c \notin spent
  /\ ~Accepts(obj[c], data)
  /\ obj' = [obj EXCEPT ![c].hasData = TRUE]
  /\ out' = {}
  /\ UNCHANGED <<msg, writes, keyed, spent>>

Returned(c) ==
  {[msg |-> msg[c], writes |-> writes[c], keyed |-> c \in keyed,
    hasData |-> obj[c].hasData, digest |-> Digest(obj[c])]}

Sum(c) ==
  /\ c \notin spent
  /\ out' = Returned(c)
  /\ UNCHANGED <<obj, msg, writes, keyed, spent>>

SumIn(c) ==
  /\ c \notin spent
  /\ out' = Returned(c)
  /\ obj' = [obj EXCEPT ![c] = [Final(@) EXCEPT !.tweak = Lock(Make(@, "out")),
                                                !.block = [j \in Idx |-> Cipher]]]
  /\ spent' = spent \union {c}
  /\ UNCHANGED <<msg, writes, keyed>>

\* d holds o, to which m was written in n calls
Becomes(d, o, m, n) ==
  /\ obj' = [obj EXCEPT ![d] = o]
  /\ msg' = [msg EXCEPT ![d] = m]
  /\ writes' = [writes EXCEPT ![d] = n]
  /\ spent' = spent \ {d}
  /\ out' = {}

\* Mutant of ResetOf: the tweak goes on from the last message
ResetKeepsTweak(o) == [o EXCEPT !.hasData = FALSE, !.bPos = 0, !.chain = o.cfg]

\* reset(): back to the state after the configuration, key and key-id included
ResetOf(o) ==
  [o EXCEPT !.hasData = FALSE, !.bPos = 0, !.chain = o.cfg, !.tweak = Make(@, "msg")]

Reset(c) == Becomes(c, ResetOf(obj[c]), <<>>, 0) /\ UNCHANGED keyed

\* Mutant of CopyOf: the backup stays that of the keyless object clone() builds
CopyKeepsCfg(o) == [o EXCEPT !.tweak.locked = FALSE, !.cfg = New(<<>>, <<>>).chain]

\* clone(): built without key, then every field is copied over
CopyOf(o) == [o EXCEPT !.tweak.locked = FALSE]

Clone(c, d) ==
  /\ c # d
  /\ c \notin spent
  /\ Becomes(d, CopyOf(obj[c]), msg[c], writes[c])
  /\ keyed' = IF c \in keyed THEN keyed \union {d} ELSE keyed \ {d}

\* newEmpty(): without the key and the key-id
NewEmpty(c, d) ==
  /\ c # d
  /\ Becomes(d, New(<<>>, <<>>), <<>>, 0)
  /\ keyed' = keyed \ {d}

Next ==
  \E c \in Ctx :
    \/ \E data \in Data : Write(c, data) \/ WriteThrows(c, data)
    \/ Sum(c)
    \/ SumIn(c)
    \/ Reset(c)
    \/ \E d \in Ctx : Clone(c, d) \/ NewEmpty(c, d)

Spec == Init /\ [][Next]_vars

-----------------------------------------------------------------------------
(* The digest by its definition (Skein 1.3, 3.4 and 3.5), with no buffer.  *)

\* UBI over m: at least one block, zeros after m, the position at the end of each
UbiOf(kind, m) ==
  LET n == IF m = <<>> THEN 1 ELSE (Len(m) + BlockSize - 1) \div BlockSize
      Byte(i) == IF i < Len(m) THEN m[i + 1] ELSE ZeroByte
      At(k) == [kind |-> kind, first |-> k = 1, last |-> k = n,
                pos |-> IF k = n THEN Len(m) ELSE k * BlockSize]
  IN  [k \in 1..n |-> [block |-> [j \in Idx |-> Byte((k - 1) * BlockSize + j)],
                       tweak |-> At(k), third |-> At(k)]]

CfgUbi ==
  LET t == Value(Make(NewTweak, "cfg"))
  IN  <<[block |-> [j \in Idx |-> CfgByte], tweak |-> t, third |-> t]>>

Optional(kind, m) == IF m = <<>> THEN <<>> ELSE UbiOf(kind, m)

Setup(isKeyed) ==
  IF isKeyed THEN Optional("key", Key) \o CfgUbi \o Optional("kdf", Kdf) ELSE CfgUbi

\* An object that write() was never called on has no message block at all
DigestChain(r) == Setup(r.keyed) \o (IF r.hasData THEN UbiOf("msg", r.msg) ELSE <<>>)

-----------------------------------------------------------------------------
(* Properties. *)

\* Every field has its type; a block is full only in wait of more data, and the
\* chain never loses the configuration that reset() goes back to.
TypeOK ==
  /\ \A c \in Ctx :
       /\ obj[c].bPos \in 0..BlockSize
       /\ obj[c].block \in [Idx -> 0..CfgByte]
       /\ obj[c].tweak.kind \in Kinds
       /\ IsPrefix(obj[c].cfg, obj[c].chain)
  /\ spent \subseteq Ctx /\ keyed \subseteq Ctx

\* A message written in one call has the digest Skein defines, with or without a
\* key, on a new, a reset or a cloned object: in particular no tweak and no byte is
\* left from an earlier message.
OneWriteDigest == \A r \in out : r.writes <= 1 => r.digest.chain = DigestChain(r)

\* Whatever the calls, the cipher never reads a cached tweak word that is stale, and
\* the output blocks of a digest are all different.
TweakWordFresh ==
  \A r \in out :
    /\ \A u \in ToSet(r.digest.chain) \union ToSet(r.digest.output) : u.third = u.tweak
    /\ IsInjective(r.digest.output)

\* The message blocks in a chain say where they are: only the first is first, none
\* but the one a sum adds is last, and the positions grow by a block.
MessageTweaks ==
  \A c \in Ctx \ spent :
    \A k \in (Len(obj[c].cfg) + 1)..Len(obj[c].chain) :
      LET n == k - Len(obj[c].cfg)
      IN  obj[c].chain[k].tweak = [kind |-> "msg", pos |-> n * BlockSize,
                                   first |-> n = 1, last |-> FALSE]
=============================================================================
