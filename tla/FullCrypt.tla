------------------------------ MODULE FullCrypt ------------------------------
(***************************************************************************)
(* IFullCrypt: one object encrypts a message piece by piece, another, made *)
(* with the same key and iv, decrypts what it sent.  The modes of          *)
(* BlockModes start each call anew; Salsa, ChaCha and Rabbit count blocks  *)
(* of keystream from call to call.                                         *)
(***************************************************************************)
EXTENDS Integers, Sequences

CONSTANTS Kinds,      \* the classes, with their padding and iv
          Messages,   \* what a call of encryptInto is given
          MaxPieces,  \* bound on the calls of encryptInto
          SalsaCounts, ChaChaCounts,  \* where their block counts wrap: 2^64, 2^32
          BlockLen, CountLen, Cipher(_), Decipher(_)  \* as in BlockModes

M == INSTANCE BlockModes

VARIABLES o,        \* both objects' class, padding and iv
          sent,     \* blocks of keystream the sender took
          got,      \* and the receiver
          wire,     \* the pieces: what was encrypted, and into what
          heard,    \* the number of pieces decrypted
          plain,    \* the plaintext of those pieces, as the receiver found it
          astray    \* a call the code gives no right answer to
cryptVars == <<o, sent, got, wire, heard, plain, astray>>

\* The stream ciphers, over the same blocks.  A block of Salsa or ChaCha mixes the
\* key, the nonce and the count; Rabbit's mixes what is left of the one before,
\* which its count stands for.
Counted(count) == M!Plus(M!Filled(BlockLen, M!Zero), count)
SalsaBlock(key, nonce, count) ==
    M!encryptBlock(M!Xored(M!encryptBlock(M!Xored(Counted(count), nonce)), key))
ChaChaBlock(key, nonce, count) ==
    M!encryptBlock(M!Xored(M!encryptBlock(M!Xored(key, nonce)), Counted(count)))
RabbitBlock(key, iv, count) == M!encryptBlock(M!Xored(Counted(count), M!Xored(key, iv)))

\* hSalsa and hChaCha: a key from a key and the first bytes of a longer nonce.
hSalsa(key, nonce) == M!decryptBlock(M!Xored(key, nonce))
hChaCha(key, nonce) == M!encryptBlock(M!decryptBlock(M!Xored(key, nonce)))

\* The classes, by what a piece takes of its object: where the block count wraps,
\* and whether decryptInto() goes by the length of its target.
Salsa(key, nonce, count) == [mode |-> "salsa", key |-> key, nonce |-> nonce,
                             count |-> count, wrap |-> SalsaCounts, byTarget |-> FALSE]
XSalsa(key, nonce, rest, count) == Salsa(hSalsa(key, nonce), rest, count)
\* Mutant of ChaCha: decryptInto() goes by the length of plain, as in Rabbit
ChaChaByTarget(key, nonce, count) ==
    [mode |-> "chacha", key |-> key, nonce |-> nonce,
     count |-> count, wrap |-> ChaChaCounts, byTarget |-> TRUE]
ChaCha(key, nonce, count) == [mode |-> "chacha", key |-> key, nonce |-> nonce,
                              count |-> count, wrap |-> ChaChaCounts, byTarget |-> FALSE]
XChaCha(key, nonce, rest, count) == ChaCha(hChaCha(key, nonce), M!Filled(BlockLen - Len(rest), M!Zero) \o rest, count)
Rabbit(key, iv) == [mode |-> "rabbit", key |-> key, nonce |-> iv,
                    count |-> 0, wrap |-> SalsaCounts, byTarget |-> TRUE]

StreamModes == {"salsa", "chacha", "rabbit"}
Stateful == o.mode \in StreamModes

Keystream(taken) ==
    LET count == (o.count + taken) % o.wrap
    IN  CASE o.mode = "salsa" -> SalsaBlock(o.key, o.nonce, count)
          [] o.mode = "chacha" -> ChaChaBlock(o.key, o.nonce, count)
          [] o.mode = "rabbit" -> RabbitBlock(o.key, o.nonce, count)
\* What the constructors make of a key, an iv or nonce, and a count.
IsClass(k) ==
    \/ k.mode = "ecb" /\ k.pad \in M!Paddings /\ k \in M!Ecb(k.pad)
    \/ /\ k.mode = "cbc" /\ k.pad \in M!Paddings
       /\ k.iv \in Seq(M!Byte) /\ k \in M!Cbc(k.pad, k.iv)
    \/ k.mode = "cfb" /\ k.iv \in Seq(M!Byte) /\ k \in M!Cfb(k.iv)
    \/ k.mode = "ofb" /\ k.iv \in Seq(M!Byte) /\ k \in M!Ofb(k.iv)
    \/ k.mode = "ctr" /\ k.iv \in Seq(M!Byte) /\ k \in M!Ctr(k.iv, {})
    \/ /\ k.mode = "ctr32" /\ k.count \in Nat
       /\ k.iv \in Seq(M!Byte) /\ k \in M!Ctr(k.iv, {k.count})
    \/ /\ k.mode \in StreamModes
       /\ k.key \in M!Block /\ k.nonce \in M!Block /\ k.count \in Nat
       /\ k \in {Salsa(k.key, k.nonce, k.count), ChaCha(k.key, k.nonce, k.count),
                 Rabbit(k.key, k.nonce)}
ASSUME CryptAssumption ==
    /\ BlockLen \in 1..255 /\ CountLen \in Nat
    /\ SalsaCounts \in Nat \ {0} /\ ChaChaCounts \in Nat \ {0} /\ MaxPieces \in Nat
    /\ \A b \in M!Block : /\ Cipher(b) \in M!Block /\ Decipher(b) \in M!Block
                          /\ Decipher(Cipher(b)) = b
    /\ Messages \subseteq Seq(M!Byte)
    /\ \A k \in Kinds : IsClass(k)

BlocksOf(len) == (len + BlockLen - 1) \div BlockLen
\* The blocks a call takes: the rest of the last one is thrown away.
Taken(len) == BlocksOf(len)

StreamInto(taken, input) ==
    [i \in 1..Len(input) |->
        LET at == i - 1
        IN  M!Xor(input[i], Keystream(taken + at \div BlockLen)[(at % BlockLen) + 1])]

Encrypted(piece, fill) ==
    IF Stateful THEN {StreamInto(sent, piece)} ELSE M!encryptInto(o, piece, fill)

CInit == /\ o \in Kinds
         /\ sent = 0 /\ got = 0
         /\ wire = <<>>
         /\ heard = 0
         /\ plain = <<>>
         /\ astray = FALSE

Sent(piece, fill) ==
    /\ Len(wire) < MaxPieces
    /\ \E enc \in Encrypted(piece, fill) :
           wire' = Append(wire, [plain |-> piece, enc |-> enc])
    /\ sent' = IF Stateful THEN sent + Taken(Len(piece)) ELSE sent
    /\ UNCHANGED <<o, got, heard, plain, astray>>

\* In one array, Cbc and Cfb find their own plaintext where the ciphertext was,
\* and an unpadded Zero leaves the ciphertext under the zeros it takes away.
Overwritten(piece, same) ==
    \/ same /\ o.mode \in {"cbc", "cfb"} /\ Len(piece.enc) > BlockLen
    \/ same /\ M!Padded(o) /\ o.pad = "zero" /\ M!Ends(piece.plain) < Len(piece.plain)

\* decryptInto() of the next piece, into zeroed bytes of the plaintext's length
\* and `slack` more, or into the array of the ciphertext.
Heard(same, slack) ==
    /\ heard < Len(wire)
    /\ same => slack = 0
    /\ LET piece == wire[heard + 1]
           target == IF same THEN piece.enc
                     ELSE M!Filled(Len(piece.plain) + slack, M!Zero)
           len == IF Stateful /\ o.byTarget THEN Len(target) ELSE Len(piece.enc)
           found == IF Stateful
                    THEN {M!Set(target, StreamInto(got, piece.enc), 0)}
                    ELSE M!decryptInto(o, target, piece.enc, same)
       IN  /\ got' = IF Stateful THEN got + Taken(len) ELSE got
           /\ plain' = IF found = {} THEN plain
                       ELSE plain \o SubSeq(CHOOSE f \in found : TRUE, 1, Len(piece.plain))
           /\ astray' = (\/ astray
                         \/ found = {} /\ piece.plain = <<>> /\ o.pad = "zero"
                         \/ Overwritten(piece, same)
                         \/ o.mode = "rabbit" /\ slack > 0)
    /\ heard' = heard + 1
    /\ UNCHANGED <<o, sent, wire>>

\* The rest in one call: a piece that ends inside a block leaves the two apart.
HeardJoined ==
    /\ Stateful
    /\ heard + 1 < Len(wire)
    /\ LET F[i \in heard..Len(wire)] == IF i = heard THEN <<>> ELSE F[i - 1] \o wire[i].enc
           rest == F[Len(wire)]
       IN  /\ plain' = plain \o StreamInto(got, rest)
           /\ got' = got + Taken(Len(rest))
    /\ astray' = (astray \/ \E i \in (heard + 1)..(Len(wire) - 1) :
                                Len(wire[i].enc) % BlockLen # 0)
    /\ heard' = Len(wire)
    /\ UNCHANGED <<o, sent, wire>>

CNext == \/ \E piece \in Messages, fill \in {0, 255} : Sent(piece, fill)
         \/ \E same \in BOOLEAN, slack \in {0, BlockLen} : Heard(same, slack)
         \/ HeardJoined
CSpec == CInit /\ [][CNext]_cryptVars

Said == LET F[i \in 0..heard] == IF i = 0 THEN <<>> ELSE F[i - 1] \o wire[i].plain
        IN  F[heard]

\* The receiver finds what the sender was given, byte for byte, through every
\* mode and padding, at every length, whether it decrypts in place or not and
\* (streams) whatever whole blocks it takes at once, except where the code goes
\* astray; and a call wrote what encryptSize() announced.
CameBack == /\ ~astray => plain = Said
            /\ \A i \in 1..Len(wire) :
                   Stateful \/ Len(wire[i].enc) = M!encryptSize(o, Len(wire[i].plain))

\* Once all is decrypted the two objects stand at the same block of keystream,
\* so that the next piece can follow.
InStep == ~astray /\ heard = Len(wire) => sent = got
=============================================================================
