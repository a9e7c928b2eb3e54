------------------------------- MODULE MacHash --------------------------------
(***************************************************************************)
(* The hashes of Ascon.ts and the mac of Poly1305.ts as IHash objects: a   *)
(* write() that does not meet the end of a block where it expects it runs  *)
(* over it (Ascon) or throws (Poly1305).  The rest of IHash is done as     *)
(* the contract has it.                                                    *)
(***************************************************************************)
EXTENDS Integers, Sequences

CONSTANTS Kind,     \* the class of hash
          Ctx,      \* the objects a caller holds
          Data,     \* what write() is given
          MaxLen,   \* bound: the longest message
          Strays    \* bound: whether callers make the writes that miss a block's end

A == INSTANCE Ascon
P == INSTANCE Poly1305

VARIABLES obj, msg, spent, out
vars == <<obj, msg, spent, out>>

IsAscon == "rate" \in DOMAIN Kind
New == IF IsAscon THEN A!NewHash(Kind) ELSE P!NewMac(Kind)
Written(o, data) == IF IsAscon THEN [m |-> A!hashWrite(o, data), ok |-> TRUE] ELSE P!write(o, data)
Final(o) == IF IsAscon THEN A!hashSumIn(o) ELSE P!sumIn(o)
DigestOf(o) == IF IsAscon THEN o.s.perm ELSE o.acc

\* A block that is full and was not taken in.
Overrun(o) == IsAscon /\ o.s.pos >= Kind.rate

Init == /\ obj = [c \in Ctx |-> New]
        /\ msg = [c \in Ctx |-> <<>>]
        /\ spent = {}
        /\ out = {}

Write(c, data) ==
    /\ c \notin spent
    /\ Len(msg[c]) + Len(data) <= MaxLen
    /\ LET w == Written(obj[c], data)
       IN  /\ Strays \/ (w.ok /\ ~Overrun(w.m))
           /\ obj' = [obj EXCEPT ![c] = w.m]
           /\ msg' = IF w.ok THEN [msg EXCEPT ![c] = @ \o data] ELSE msg
    /\ out' = {}
    /\ UNCHANGED spent

Returned(c) == {[msg |-> msg[c], digest |-> DigestOf(Final(obj[c]))]}
\* Mutant of sum: the clone is left out
sumInPlace(c) == /\ c \notin spent
                 /\ out' = Returned(c)
                 /\ obj' = [obj EXCEPT ![c] = Final(@)]
                 /\ UNCHANGED <<msg, spent>>
sum(c) == /\ c \notin spent
          /\ out' = Returned(c)
          /\ UNCHANGED <<obj, msg, spent>>
sumIn(c) == /\ c \notin spent
            /\ out' = Returned(c)
            /\ obj' = [obj EXCEPT ![c] = Final(@)]
            /\ spent' = spent \cup {c}
            /\ UNCHANGED msg

Becomes(d, o, m) == /\ obj' = [obj EXCEPT ![d] = o]
                    /\ msg' = [msg EXCEPT ![d] = m]
                    /\ spent' = spent \ {d}
                    /\ out' = {}
reset(c) == Becomes(c, IF IsAscon THEN New ELSE P!reset(obj[c]), <<>>)
newEmpty(c, d) == c # d /\ Becomes(d, IF IsAscon THEN New ELSE P!NewMac(obj[c].key), <<>>)
clone(c, d) == c # d /\ c \notin spent /\ Becomes(d, obj[c], msg[c])

Next == \E c \in Ctx : \/ \E data \in Data : Write(c, data)
                       \/ sum(c) \/ sumIn(c) \/ reset(c)
                       \/ \E d \in Ctx : newEmpty(c, d) \/ clone(c, d)
Spec == Init /\ [][Next]_vars

\* What the algorithms say of a message, cut in blocks (Ascon v1.2, 2.5; RFC 8439, 2.5).
BlockSize == IF IsAscon THEN Kind.rate ELSE P!Bs
Whole(m) == Len(m) \div BlockSize
Rest(m) == SubSeq(m, Whole(m) * BlockSize + 1, Len(m))
Block(m, k) == SubSeq(m, (k - 1) * BlockSize + 1, k * BlockSize)
CellsOf(bytes) == [i \in A!Cells |-> IF i < Len(bytes) THEN bytes[i + 1] ELSE {}]
Digest(m) ==
    IF IsAscon
    THEN <<[cells |-> A!Clear, rounds |-> Kind.name]>>
         \o [k \in 1..Whole(m) |-> [cells |-> CellsOf(Block(m, k)), rounds |-> Kind.b]]
         \o <<[cells |-> CellsOf(Append(Rest(m), {A!Mark})), rounds |-> Kind.a]>>
    ELSE [k \in 1..Whole(m) |-> [block |-> Block(m, k), last |-> FALSE]]
         \o (IF Rest(m) = <<>> THEN <<>>
             ELSE <<[last |-> TRUE,
                     block |-> SubSeq(Rest(m) \o <<{P!LastOne}>> \o P!Zeros(BlockSize),
                                      1, BlockSize)]>>)

Contract == INSTANCE HashContract

\* While no write misses the end of a block, the classes implement IHash, and two
\* messages have one digest only if they are the same.
ImplementsIHash == Contract!CSpec
=============================================================================
