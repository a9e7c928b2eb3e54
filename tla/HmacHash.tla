------------------------------ MODULE HmacHash ------------------------------
(***************************************************************************)
(* Hmac of src/src/crypto/mac/Hmac.ts over any hash that keeps the IHash   *)
(* contract.  The hashes live in a heap, because an Hmac, its clones and   *)
(* what it makes with newEmpty() share two of them: _oHash and             *)
(* _startIHash.  The caller holds the hash given to the constructor too.   *)
(* A hash nothing refers to is gone, and its place is used again.          *)
(*                                                                         *)
(* A hash is the message written to it (HashContract); its digest of a     *)
(* message is one element, unlike every other.  x ^ pad is a pair.         *)
(***************************************************************************)
EXTENDS Naturals, Sequences, FiniteSets

CONSTANTS
  Mac,          \* the Hmac objects a caller holds
  MacByte,      \* the bytes
  MacKeys,      \* the keys a caller gives
  Data,         \* the byte arrays a caller passes to write()
  MaxLen,       \* bound: the longest message
  HashBlockSize, \* of the hash; digests are shorter
  NulByte,      \* the byte 0
  IPad, OPad,   \* 0x36 and 0x5c
  DigestMark    \* what tells a digest from a byte

ASSUME HmacAssumption ==
  /\ IsFiniteSet(Mac) /\ HashBlockSize \in Nat \ {0, 1}
  /\ NulByte \in MacByte /\ MacKeys \subseteq Seq(MacByte) /\ Data \subseteq Seq(MacByte)

VARIABLES
  heap,     \* heap[a]: the hash at a
  mac,      \* mac[c]: where the three hashes of c are
  key,      \* history: the key c is meant to use
  msg,      \* history: what was written to c since it was last empty
  out       \* what the last call returned: {} for void

vars == <<heap, mac, key, msg, out>>

\* Places of hashes: the one the caller builds Hmacs with; the _iHash made for c;
\* the two that an Hmac built for c, and all made from it, share
Caller == <<"hash">>
Own(c) == <<"i", c>>
OuterOf(c) == <<"o", c>>
StartOf(c) == <<"s", c>>
Addr == {Caller} \union {Own(c) : c \in Mac} \union {OuterOf(c) : c \in Mac}
        \union {StartOf(c) : c \in Mac}

-----------------------------------------------------------------------------
(* The hashes. *)

EmptyHash == [msg |-> <<>>, spent |-> FALSE]
Written(h, data) == [h EXCEPT !.msg = @ \o data]

\* The digest, as an array.  Past sumIn() a hash promises nothing.
Sum(h) == << <<DigestMark, h.spent, h.msg>> >>

-----------------------------------------------------------------------------
(* The constructor: new Hmac(hash, k), with the hash at a. *)

Padded(k) == [i \in 1..HashBlockSize |-> IF i <= Len(k) THEN k[i] ELSE NulByte]
Xored(fk, pad) == [i \in 1..HashBlockSize |-> <<pad, IF i <= Len(fk) THEN fk[i] ELSE NulByte>>]

\* Mutant: ">=" for ">" in fixKey: the zero key of newEmpty() is hashed too, with _oHash
FixedHashFull(h, k) == IF Len(k) >= HashBlockSize THEN Written(EmptyHash, k) ELSE h

\* "Keys longer than blockSize are shortened by hashing": by the hash of the caller
FixedHash(h, k) == IF Len(k) > HashBlockSize THEN Written(EmptyHash, k) ELSE h
FixKey(k) == IF Len(k) > HashBlockSize THEN Sum(Written(EmptyHash, k)) ELSE Padded(k)

\* _oHash, _startIHash and its clone _iHash are made from hash.newEmpty()
Built(hp, k, at) ==
  LET inner == Written(EmptyHash, Xored(FixKey(k), IPad))
      outer == Written(EmptyHash, Xored(FixKey(k), OPad))
  IN  [hp EXCEPT ![Caller] = FixedHash(@, k),
                 ![at.oHash] = outer, ![at.start] = inner, ![at.iHash] = inner]

\* newEmpty() and clone() build an Hmac on _oHash first, and drop its three hashes
ZeroKey == [i \in 1..HashBlockSize |-> NulByte]
Dropped(hp, a) == [hp EXCEPT ![a] = FixedHash(@, ZeroKey)]

-----------------------------------------------------------------------------
(* The calls.  A caller keeps to IHash: past sumIn() only reset() and         *)
(* newEmpty() follow.                                                         *)

Spent(c) == heap[mac[c].iHash].spent

\* oh = _oHash.clone(); oh.write(iHash); oh.sumIn(): the clone is dropped
Outer(c, inner) == Sum(Written(heap[mac[c].oHash], inner))

Returned(c, digest) == {[key |-> key[c], msg |-> msg[c], digest |-> digest]}

\* Places for the hashes of a new Hmac that no other refers to
Fresh(c) ==
  LET f == CHOOSE f \in Mac : \A d \in Mac \ {c} : mac[d].oHash # OuterOf(f)
  IN  [oHash |-> OuterOf(f), start |-> StartOf(f), iHash |-> Own(c)]

New(c, k) ==
  /\ heap' = Built(heap, k, Fresh(c))
  /\ mac' = [mac EXCEPT ![c] = Fresh(c)]
  /\ key' = [key EXCEPT ![c] = k]
  /\ msg' = [msg EXCEPT ![c] = <<>>]
  /\ out' = {}

Write(c, data) ==
  /\ ~Spent(c)
  /\ Len(msg[c]) + Len(data) <= MaxLen
  /\ heap' = [heap EXCEPT ![mac[c].iHash] = Written(@, data)]
  /\ msg' = [msg EXCEPT ![c] = @ \o data]
  /\ out' = {}
  /\ UNCHANGED <<mac, key>>

\* Mutant: sum() on _oHash itself, no clone
SumOfInPlace(c) ==
  /\ ~Spent(c)
  /\ out' = Returned(c, Outer(c, Sum(heap[mac[c].iHash])))
  /\ heap' = [heap EXCEPT ![mac[c].oHash] = Written(@, Sum(heap[mac[c].iHash]))]
  /\ UNCHANGED <<mac, key, msg>>

SumOf(c) ==
  /\ ~Spent(c)
  /\ out' = Returned(c, Outer(c, Sum(heap[mac[c].iHash])))
  /\ UNCHANGED <<heap, mac, key, msg>>

SumIn(c) ==
  /\ ~Spent(c)
  /\ out' = Returned(c, Outer(c, Sum(heap[mac[c].iHash])))
  /\ heap' = [heap EXCEPT ![mac[c].iHash].spent = TRUE]
  /\ UNCHANGED <<mac, key, msg>>

\* Mutant: "this._iHash = this._startIHash", no clone
ResetShares(c) ==
  /\ mac' = [mac EXCEPT ![c].iHash = mac[c].start]
  /\ msg' = [msg EXCEPT ![c] = <<>>]
  /\ out' = {}
  /\ UNCHANGED <<heap, key>>

\* _iHash = _startIHash.clone()
Reset(c) ==
  /\ heap' = [heap EXCEPT ![Own(c)] = heap[mac[c].start]]
  /\ mac' = [mac EXCEPT ![c].iHash = Own(c)]
  /\ msg' = [msg EXCEPT ![c] = <<>>]
  /\ out' = {}
  /\ UNCHANGED key

\* d takes the shared hashes of c, and its own copy of the hash at from
Derived(c, d, from) ==
  /\ heap' = [Dropped(heap, mac[c].oHash) EXCEPT ![Own(d)] = heap[from]]
  /\ mac' = [mac EXCEPT ![d] = [mac[c] EXCEPT !.iHash = Own(d)]]
  /\ key' = [key EXCEPT ![d] = key[c]]
  /\ out' = {}

\* d := c.newEmpty()
NewEmpty(c, d) ==
  /\ c # d
  /\ Derived(c, d, mac[c].start)
  /\ msg' = [msg EXCEPT ![d] = <<>>]

\* d := c.clone()
Clone(c, d) ==
  /\ c # d
  /\ ~Spent(c)
  /\ Derived(c, d, mac[c].iHash)
  /\ msg' = [msg EXCEPT ![d] = msg[c]]

\* The caller goes on with the hash it built c with: any call, seen from an Hmac
CallerWrites(data) ==
  /\ Len(heap[Caller].msg) + Len(data) <= MaxLen
  /\ heap' = [heap EXCEPT ![Caller] = Written(@, data)]
  /\ out' = {}
  /\ UNCHANGED <<mac, key, msg>>

CallerSums ==
  /\ heap' = [heap EXCEPT ![Caller].spent = TRUE]
  /\ out' = {}
  /\ UNCHANGED <<mac, key, msg>>

\* Each object was built by itself, on a hash that is new
Init ==
  \E k \in MacKeys :
    /\ mac = [c \in Mac |-> [oHash |-> OuterOf(c), start |-> StartOf(c), iHash |-> Own(c)]]
    /\ key = [c \in Mac |-> k]
    /\ msg = [c \in Mac |-> <<>>]
    /\ out = {}
    /\ heap = [a \in Addr |->
         IF a = Caller THEN FixedHash(EmptyHash, k)
         ELSE Written(EmptyHash, Xored(FixKey(k), IF a[1] = "o" THEN OPad ELSE IPad))]

Next ==
  \/ \E c \in Mac :
       \/ \E k \in MacKeys : New(c, k)
       \/ \E data \in Data : Write(c, data)
       \/ SumOf(c) \/ SumIn(c) \/ Reset(c)
       \/ \E d \in Mac : NewEmpty(c, d) \/ Clone(c, d)
  \/ \E data \in Data : CallerWrites(data)
  \/ CallerSums

Spec == Init /\ [][Next]_vars

-----------------------------------------------------------------------------
(* RFC 2104, of a key and a message: H(K ^ opad, H(K ^ ipad, m)). *)

H(m) == << <<DigestMark, FALSE, m>> >>
Block(k) == IF Len(k) <= HashBlockSize
            THEN k \o [i \in 1..(HashBlockSize - Len(k)) |-> NulByte]
            ELSE H(k) \o [i \in 1..(HashBlockSize - 1) |-> NulByte]
Tagged(k, pad) == [i \in 1..HashBlockSize |-> <<pad, Block(k)[i]>>]
Rfc2104(k, m) == H(Tagged(k, OPad) \o H(Tagged(k, IPad) \o m))

(* The three hashes of an Hmac are apart, and its _iHash is apart from every  *)
(* hash another Hmac or the caller can reach.                                 *)
TypeOK ==
  /\ DOMAIN heap = Addr
  /\ mac \in [Mac -> [oHash : Addr, start : Addr, iHash : Addr]]
  /\ \A c \in Mac :
       /\ Cardinality({Caller, mac[c].oHash, mac[c].start, mac[c].iHash}) = 4
       /\ \A d \in Mac \ {c} : mac[c].iHash \notin {mac[d].oHash, mac[d].start, mac[d].iHash}

(* Every digest is the RFC's, of the key the object was built with (by itself *)
(* or by the Hmac it comes from) and of what was written to it: whatever other *)
(* Hmacs on the same two hashes, and the caller with the hash it built them    *)
(* on, did meanwhile, and whatever was built on that hash again.               *)
DigestRight == \A r \in out : r.digest = Rfc2104(r.key, r.msg)

(* "Outside hash, initialized with oPad, never write directly (clone first)":  *)
(* the two hashes several Hmacs share stay what the constructor made them,     *)
(* whatever is called on any of these, the throwaway Hmac that newEmpty() and  *)
(* clone() build on _oHash included.                                           *)
SharedAsBuilt ==
  \A c \in Mac :
    /\ heap[mac[c].oHash] = Written(EmptyHash, Tagged(key[c], OPad))
    /\ heap[mac[c].start] = Written(EmptyHash, Tagged(key[c], IPad))

(* Clones, newEmpty() and the hash they are built on: each Hmac computes its own. *)
HmacRight == TypeOK /\ DigestRight /\ SharedAsBuilt
=============================================================================
