----------------------------- MODULE AeadSession -----------------------------
(***************************************************************************)
(* IAeadCrypt, as two callers use it: one writes associated data, encrypts *)
(* and finalizes; the other, with an object of the same class, key and     *)
(* nonce, writes what it believes to be the associated data, decrypts what *)
(* it received, which may have been changed on the way, and verifies.      *)
(***************************************************************************)
EXTENDS Integers, Sequences

CONSTANTS Kinds,      \* classes of Ascon and ciphers under Poly1305
          Cuts,       \* how long a piece may be
          Messages,   \* associated data, plaintext, data believed, change on the way
          Strays      \* bound: the unexpected things (see astray) that callers do

A == INSTANCE Ascon
P == INSTANCE Poly1305

VARIABLES kind,
          snd, rcv,    \* the two objects
          msg,         \* [ad, pt, believed, change]
          wrote,       \* how far the sender is in [ad, pt], the receiver in [believed, ct]
          ct,          \* what the sender encrypted
          found,       \* what the receiver decrypted
          tag, verdict, \* {} until finalize and verify
          asked,       \* whose writeAD() was called: the sender's, the receiver's
          astray       \* what it did that the code does not expect: a piece that began
                       \* inside a block of "ad" or "data", decryption in "place"
vars == <<kind, snd, rcv, msg, wrote, ct, found, tag, verdict, asked, astray>>

IsAscon == "rate" \in DOMAIN kind
New(k) == IF "rate" \in DOMAIN k THEN A!NewAead(k) ELSE P!NewAead(k)

writeAD(o, data) == IF IsAscon THEN [o |-> A!writeAD(o, data), ok |-> TRUE] ELSE P!writeAD(o, data)
encryptInto(o, data) == IF IsAscon THEN A!encryptInto(o, data) ELSE P!encryptInto(o, data)
decryptInto(o, data, same) ==
    IF IsAscon THEN A!decryptInto(o, data, same) ELSE P!decryptInto(o, data, same)
finalize(o) == IF IsAscon THEN A!finalize(o) ELSE P!finalize(o)

Init == /\ kind \in Kinds
        /\ snd = New(kind) /\ rcv = New(kind)
        /\ msg \in Messages
        /\ wrote = [ad |-> 0, pt |-> 0, believed |-> 0, ct |-> 0]
        /\ ct = <<>> /\ found = <<>>
        /\ tag = {} /\ verdict = {}
        /\ asked = {}
        /\ astray = {}

\* A piece may only begin where a block of the mac, and of the cipher, does.
Inside(what, at, n, block) == IF n > 0 /\ at % block # 0 THEN {what} ELSE {}
AdBlock == IF IsAscon THEN kind.rate ELSE P!Bs
DataBlock == IF IsAscon THEN kind.rate ELSE P!CryptBs

Piece(seq, at, n) == SubSeq(seq, at + 1, at + n)

SenderWritesAD(n) ==
    /\ snd.stage \in {"init", "ad"}
    /\ wrote.ad + n <= Len(msg.ad)
    /\ snd' = writeAD(snd, Piece(msg.ad, wrote.ad, n)).o
    /\ wrote' = [wrote EXCEPT !.ad = @ + n]
    /\ asked' = asked \cup {"sender"}
    /\ astray' = astray \cup Inside("ad", wrote.ad, n, AdBlock)
    /\ UNCHANGED <<kind, rcv, msg, ct, found, tag, verdict>>
SenderEncrypts(n) ==
    /\ snd.stage # "done"
    /\ wrote.ad = Len(msg.ad)
    /\ wrote.pt + n <= Len(msg.pt)
    /\ LET r == encryptInto(snd, Piece(msg.pt, wrote.pt, n))
       IN  /\ snd' = r.o
           /\ ct' = ct \o r.out
    /\ wrote' = [wrote EXCEPT !.pt = @ + n]
    /\ astray' = astray \cup Inside("data", wrote.pt, n, DataBlock)
    /\ UNCHANGED <<kind, rcv, msg, found, tag, verdict, asked>>
SenderFinalizes ==
    /\ tag = {}
    /\ wrote.ad = Len(msg.ad) /\ wrote.pt = Len(msg.pt)
    /\ snd' = finalize(snd).o
    /\ tag' = {finalize(snd).tag}
    /\ UNCHANGED <<kind, rcv, msg, wrote, ct, found, verdict, asked, astray>>

\* What arrives: the ciphertext, with a byte changed, cut off, or added, or without its
\* first two, which may be passed off as associated data.
Arrived == CASE msg.change = "none" -> ct
             [] msg.change = "flipped" -> IF ct = <<>> THEN ct
                                          ELSE [ct EXCEPT ![Len(ct)] = A!Xor(@, {A!One})]
             [] msg.change = "cut" -> IF ct = <<>> THEN ct ELSE SubSeq(ct, 1, Len(ct) - 1)
             [] msg.change = "added" -> Append(ct, {})
             [] msg.change = "beheaded" -> SubSeq(ct, 3, Len(ct))

ReceiverWritesAD(n) ==
    /\ tag # {}
    /\ rcv.stage \in {"init", "ad"}
    /\ wrote.believed + n <= Len(msg.believed)
    /\ rcv' = writeAD(rcv, Piece(msg.believed, wrote.believed, n)).o
    /\ wrote' = [wrote EXCEPT !.believed = @ + n]
    /\ asked' = asked \cup {"receiver"}
    /\ astray' = astray \cup Inside("ad", wrote.believed, n, AdBlock)
    /\ UNCHANGED <<kind, snd, msg, ct, found, tag, verdict>>
ReceiverDecrypts(n, same) ==
    /\ tag # {}
    /\ rcv.stage # "done"
    /\ wrote.believed = Len(msg.believed)
    /\ wrote.ct + n <= Len(Arrived)
    /\ LET r == decryptInto(rcv, Piece(Arrived, wrote.ct, n), same)
       IN  /\ rcv' = r.o
           /\ found' = found \o r.out
    /\ wrote' = [wrote EXCEPT !.ct = @ + n]
    /\ astray' = astray \cup Inside("data", wrote.ct, n, DataBlock)
                      \cup (IF same THEN {"place"} ELSE {})
    /\ UNCHANGED <<kind, snd, msg, ct, tag, verdict, asked>>
\* verify(): the tag that finalize() would give is compared with the one received.
ReceiverVerifies ==
    /\ tag # {}
    /\ verdict = {}
    /\ wrote.believed = Len(msg.believed) /\ wrote.ct = Len(Arrived)
    /\ LET r == finalize(rcv)
       IN  /\ rcv' = r.o
           /\ verdict' = {r.tag \in tag}
    /\ UNCHANGED <<kind, snd, msg, wrote, ct, found, tag, asked, astray>>

Calls == \/ \E n \in Cuts : SenderWritesAD(n) \/ SenderEncrypts(n) \/ ReceiverWritesAD(n)
         \/ SenderFinalizes
         \/ \E n \in Cuts, same \in BOOLEAN : ReceiverDecrypts(n, same)
         \/ ReceiverVerifies
Next == Calls /\ astray' \subseteq Strays
Spec == Init /\ [][Next]_vars

\* What verify() should say.  Ascon tells writeAD() of nothing from no writeAD().
Same == /\ msg.believed = msg.ad
        /\ Arrived = ct
        /\ IsAscon => ("sender" \in asked <=> "receiver" \in asked)

\* Written in pieces that end with their blocks, however many, a message is
\* verified by who received it whole with the associated data it was sent with,
\* and by no one else: no byte, no length, and no shift of bytes between
\* associated data, ciphertext and padding goes unnoticed.
VerifiesSent == verdict # {} /\ astray = {} => verdict = {Same}

\* What was verified was decrypted to what was encrypted, though each side cut
\* it in pieces of its own.
VerifiedIsPlain == verdict = {TRUE} /\ astray = {} => found = msg.pt

\* writeAD() "can be called multiple times" (Ascon.ts, Poly1305.ts): the same
\* associated data and ciphertext verify, in whatever pieces the former comes.
AdInPieces == verdict # {} /\ astray \subseteq {"ad"} /\ Same => verdict = {TRUE}
=============================================================================
