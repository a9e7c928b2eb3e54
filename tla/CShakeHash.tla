----------------------------- MODULE CShakeHash -----------------------------
(***************************************************************************)
(* The classes of src/src/crypto/hash/Keccak.ts that are built on a Keccak *)
(* sponge they own: CShake (also as SHAKE), and its heirs KmacCore,        *)
(* TupleHashCore and ParallelHashCore, with what each inherits.            *)
(*                                                                         *)
(* By KeccakHash a sponge is the bytes written to it, so it is the         *)
(* sequence of them here; the digest of a sub-hash, which ParallelHash     *)
(* writes in place of a block, is one element of it, with its size.        *)
(***************************************************************************)
EXTENDS Sp800185

CONSTANTS
  Ctx,          \* the hash objects a caller holds
  Classes,      \* the classes they may be of
  Data,         \* the byte arrays a caller passes to write()
  MaxLen,       \* bound: the longest message, and how many writes it takes
  Pad,          \* 168 or 136 in the code
  Name, Custom, \* function name and customization
  Key,          \* the key of a KMAC
  OutLen,       \* the block of a ParallelHash
  Sizes,        \* the sizes of digest a caller asks for
  SubSize,      \* the size the standard has for the digest of a block: 32 or 64
  AppendSize    \* FALSE for the XOF variants

\* Assumed where the module is instantiated.  bytePad() returns for the name, the
\* customization and the key (see Sp800185).
CShakeAssumption ==
  /\ Classes \subseteq {"shake", "cshake", "kmac", "tuple", "parallel"}
  /\ OutLen \in Nat \ {0}
  /\ Sizes \subseteq Nat /\ SubSize \in Nat
  /\ ~PadThrows(Pad, EncodeString(Name) \o EncodeString(Custom))
  /\ ~PadThrows(Pad, EncodeString(Key))

VARIABLES
  obj,      \* obj[c]: the fields of c and the class it really has
  class,    \* history: the class c should have
  size,     \* history: the size of digest that was asked for
  wrote,    \* history: the arrays written to c since it was last empty
  strayed,  \* history: the objects that are not what their class says
  spent,    \* history: past sumIn(), and not reset
  out       \* what the last call returned

vars == <<obj, class, size, wrote, strayed, spent, out>>

Heirs == {"kmac", "tuple", "parallel"}

\* A sponge is a sequence of elements: a byte alone, or a digest of a sub-hash
Bytes(s) == [i \in DOMAIN s |-> <<s[i]>>]
SubDigest(s, z) == << <<Base, z>> \o s >>

Concat(ss) == FoldLeft(LAMBDA s, t : s \o t, <<>>, ss)

-----------------------------------------------------------------------------
(* The fields of an object, and the methods on them. *)

\* What CShake's constructor and reset() write: nothing for SHAKE
Prefix(k) ==
  IF k = "shake" THEN <<>>
  ELSE Bytes(BytePad(Pad, EncodeString(Name) \o EncodeString(Custom)))

ZeroOut == [i \in 1..OutLen |-> 0]

\* What the constructor of the class k writes after the prefix
Opening(k) ==
  IF k = "kmac" THEN Bytes(BytePad(Pad, EncodeString(Key)))
  ELSE IF k = "parallel" THEN Bytes(LeftEncode(OutLen)) ELSE <<>>

New(k, z) ==
  [class |-> k, size |-> z, sponge |-> Prefix(k) \o Opening(k),
   outBlock |-> ZeroOut, obPos |-> 0, obCount |-> 0]

\* super.write() of the heirs
Absorb(o, s) == [o EXCEPT !.sponge = @ \o s]

\* this.#outBlock.set(data.subarray(dPos, dPos + n), this._obPos)
OutSet(o, data, dPos, n) ==
  [o EXCEPT !.outBlock = [i \in 1..OutLen |->
     IF i \in (o.obPos + 1)..(o.obPos + n) THEN data[dPos + i - o.obPos] ELSE o.outBlock[i]]]

\* "Instead of hash, we subhash, write that result".  _subHash was built with the
\* size of the digest, and clone() and reset() leave it that.
SubHashed(o) == [Absorb(o, SubDigest(o.outBlock, o.size)) EXCEPT !.obPos = 0, !.obCount = @ + 1]

\* The first turn of ParallelHash's loop copies OutLen bytes, or what there is, to
\* _obPos: it throws when a block is begun and more than its rest is written
Accepts(o, data) ==
  o.class = "parallel" /\ o.obPos > 0 => Len(data) <= OutLen - o.obPos

\* Mutant of ParallelWritten: >= for >, a block that is exactly full is left in place
ParallelWrittenFull(o, data) ==
  LET space == OutLen - o.obPos
      n     == Len(data)
      turns == IF n <= space THEN 0 ELSE 1 + ((n - space) \div OutLen)
      From(k) == IF k = 1 THEN 0 ELSE space + (k - 2) * OutLen
      Turn(p, k) == SubHashed(OutSet(p, data, From(k), OutLen - p.obPos))
      p == FoldLeft(Turn, o, [k \in 1..turns |-> k])
      rest == n - From(turns + 1)
  IN  [OutSet(p, data, From(turns + 1), rest) EXCEPT !.obPos = @ + rest]

\* write() of a ParallelHash: the loop, when no turn throws
ParallelWritten(o, data) ==
  LET space == OutLen - o.obPos
      n     == Len(data)
      turns == IF n < space THEN 0 ELSE 1 + ((n - space) \div OutLen)
      From(k) == IF k = 1 THEN 0 ELSE space + (k - 2) * OutLen
      Turn(p, k) == SubHashed(OutSet(p, data, From(k), OutLen - p.obPos))
      p == FoldLeft(Turn, o, [k \in 1..turns |-> k])
      rest == n - From(turns + 1)
  IN  [OutSet(p, data, From(turns + 1), rest) EXCEPT !.obPos = @ + rest]

Written(o, data) ==
  CASE o.class = "tuple"    -> Absorb(o, Bytes(EncodeString(data)))
    [] o.class = "parallel" -> ParallelWritten(o, data)
    [] OTHER                -> Absorb(o, Bytes(data))

SizeBytes(z) == Bytes(RightEncode(IF AppendSize THEN z * ByteBits ELSE 0))

\* Mutant of Closed: the bytes of the block that were not written are hashed as well
ClosedWholeBlock(o) ==
  LET p == IF o.class = "parallel" /\ o.obPos > 0
           THEN Absorb(o, SubDigest(o.outBlock, o.size)) ELSE o
      q == IF o.class = "parallel" THEN Absorb(p, Bytes(RightEncode(p.obCount))) ELSE p
  IN  IF o.class \in Heirs THEN Absorb(q, SizeBytes(o.size)) ELSE q

\* What sumIn() writes before it sums the sponge
Closed(o) ==
  LET p == IF o.class = "parallel" /\ o.obPos > 0
           THEN Absorb(o, SubDigest(SubSeq(o.outBlock, 1, o.obPos), o.size)) ELSE o
      q == IF o.class = "parallel" THEN Absorb(p, Bytes(RightEncode(p.obCount))) ELSE p
  IN  IF o.class \in Heirs THEN Absorb(q, SizeBytes(o.size)) ELSE q

\* The sponge, whether it is padded as SHAKE or as cSHAKE, and how much is squeezed
Digest(o) == [shake |-> o.class = "shake", input |-> Closed(o).sponge, size |-> o.size]

\* reset(): CShake writes the prefix again and no heir but ParallelHash adds to it
ResetOf(o) ==
  [New(o.class, o.size) EXCEPT !.sponge =
     IF o.class = "parallel" THEN Prefix(o.class) \o Opening(o.class) ELSE Prefix(o.class)]

\* newEmpty(): no heir overrides it
EmptyOf(o) == New(IF o.class = "shake" THEN "shake" ELSE "cshake", o.size)

-----------------------------------------------------------------------------
Init ==
  /\ class \in [Ctx -> Classes]
  /\ size \in [Ctx -> Sizes]
  /\ obj = [c \in Ctx |-> New(class[c], size[c])]
  /\ wrote = [c \in Ctx |-> <<>>]
  /\ strayed = {}
  /\ spent = {}
  /\ out = {}

Write(c, data) ==
  /\ c \notin spent
  /\ Len(wrote[c]) < MaxLen
  /\ Len(Concat(wrote[c])) + Len(data) <= MaxLen
  /\ Accepts(obj[c], data)
  /\ obj' = [obj EXCEPT ![c] = Written(@, data)]
  /\ wrote' = [wrote EXCEPT ![c] = Append(@, data)]
  /\ out' = {}
  /\ UNCHANGED <<class, size, strayed, spent>>

\* RangeError, before anything of the call is done
WriteThrows(c, data) ==
  /\ c \notin spent
  /\ ~Accepts(obj[c], data)
  /\ out' = {}
  /\ UNCHANGED <<obj, class, size, wrote, strayed, spent>>

Returned(c) ==
  {[class |-> class[c], size |-> size[c], strayed |-> c \in strayed, wrote |-> wrote[c],
    digest |-> Digest(obj[c])]}

Sum(c) ==
  /\ c \notin spent
  /\ out' = Returned(c)
  /\ UNCHANGED <<obj, class, size, wrote, strayed, spent>>

SumIn(c) ==
  /\ c \notin spent
  /\ out' = Returned(c)
  /\ obj' = [obj EXCEPT ![c] = Closed(@)]
  /\ spent' = spent \union {c}
  /\ UNCHANGED <<class, size, wrote, strayed>>

\* d holds o, which should be what c was made as, with m written to it
Becomes(d, o, c, m) ==
  /\ obj' = [obj EXCEPT ![d] = o]
  /\ class' = [class EXCEPT ![d] = class[c]]
  /\ size' = [size EXCEPT ![d] = size[c]]
  /\ wrote' = [wrote EXCEPT ![d] = m]
  /\ spent' = spent \ {d}
  /\ out' = {}

Marks(d, isStrayed) == strayed' = IF isStrayed THEN strayed \union {d} ELSE strayed \ {d}

Reset(c) ==
  /\ Becomes(c, ResetOf(obj[c]), c, <<>>)
  /\ Marks(c, c \in strayed \/ class[c] = "kmac")

\* clone(): whatever the constructor wrote, the sponge is then replaced
Clone(c, d) ==
  /\ c # d
  /\ c \notin spent
  /\ Becomes(d, obj[c], c, wrote[c])
  /\ Marks(d, c \in strayed)

NewEmpty(c, d) ==
  /\ c # d
  /\ Becomes(d, EmptyOf(obj[c]), c, <<>>)
  /\ Marks(d, c \in strayed \/ class[c] \in Heirs)

Next ==
  \E c \in Ctx :
    \/ \E data \in Data : Write(c, data) \/ WriteThrows(c, data)
    \/ Sum(c)
    \/ SumIn(c)
    \/ Reset(c)
    \/ \E d \in Ctx : Clone(c, d) \/ NewEmpty(c, d)

Spec == Init /\ [][Next]_vars

-----------------------------------------------------------------------------
(* A digest by its definition (SP 800-185), from the list of arrays        *)
(* written; sub is the size of the digest of a block of a ParallelHash and *)
(* n the count that ends it, the two in which the code goes its own way.   *)

FullBlocks(m) == [k \in 1..(Len(m) \div OutLen) |-> SubSeq(m, (k - 1) * OutLen + 1, k * OutLen)]
LastBlock(m) ==
  IF Len(m) % OutLen = 0 THEN <<>> ELSE << SubSeq(m, Len(m) - (Len(m) % OutLen) + 1, Len(m)) >>

Content(k, ws, sub, n) ==
  LET m      == Concat(ws)
      blocks == FullBlocks(m) \o LastBlock(m)
  IN  CASE k = "tuple" -> Bytes(Concat([i \in DOMAIN ws |-> EncodeString(ws[i])]))
        [] k = "parallel" -> Concat([i \in DOMAIN blocks |-> SubDigest(blocks[i], sub)])
                               \o Bytes(RightEncode(n))
        [] OTHER -> Bytes(m)

Defined(k, z, ws, sub, n) ==
  [shake |-> k = "shake",
   input |-> Prefix(k) \o Opening(k) \o Content(k, ws, sub, n)
               \o (IF k \in Heirs THEN SizeBytes(z) ELSE <<>>),
   size |-> z]

\* What the standard has: blocks of SubSize, all of them counted
Standard(k, z, ws) ==
  Defined(k, z, ws, SubSize, (Len(Concat(ws)) + OutLen - 1) \div OutLen)

\* Where the code and the standard agree
AsStandard(k, z, m) ==
  k = "parallel" => Len(m) % OutLen = 0 /\ (z = SubSize \/ Len(m) = 0)

-----------------------------------------------------------------------------
(* Properties. *)

\* Every field has its type, the block of a ParallelHash is never left full, and
\* only an object that strayed is of another class than it should be.
TypeOK ==
  /\ \A c \in Ctx :
       /\ obj[c].obPos \in 0..(OutLen - 1)
       /\ obj[c].obPos > 0 \/ obj[c].obCount > 0 => obj[c].class = "parallel"
       /\ c \notin strayed => obj[c].class = class[c]
  /\ spent \subseteq Ctx /\ strayed \subseteq Ctx

\* However an object was filled, reset or cloned, its digest is the one SP 800-185
\* defines for the arrays written, but for two things in a ParallelHash.  The digest of
\* a block has the size that was asked for the whole (Keccak.ts:923), where 6.3 of the
\* standard fixes 256 or 512 bits; and a last block that is not full is not counted
\* (line 974).  So a ParallelHash is the standard's exactly when its message is whole
\* blocks and the size asked for is the one fixed, or it is empty.  KMACs that were
\* reset, and what newEmpty() makes of an heir, are left out.
DigestRight ==
  \A r \in out : ~r.strayed =>
    LET m == Concat(r.wrote)
    IN  /\ r.digest = Defined(r.class, r.size, r.wrote, r.size, Len(m) \div OutLen)
        /\ (r.digest = Standard(r.class, r.size, r.wrote)) <=> AsStandard(r.class, r.size, m)

\* "Careful write(a), write(b) is not the same as write(ab)": two TupleHash objects
\* of one size agree exactly when they took the same arrays, and of the other classes
\* when they took the same bytes.
TuplesApart ==
  \A c, d \in Ctx \ (spent \union strayed) : class[c] = class[d] /\ size[c] = size[d] =>
    LET Taken(x) == IF class[x] = "tuple" THEN wrote[x] ELSE <<Concat(wrote[x])>>
    IN  (Digest(obj[c]) = Digest(obj[d])) <=> (Taken(c) = Taken(d))
=============================================================================
