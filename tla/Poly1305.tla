------------------------------- MODULE Poly1305 -------------------------------
(***************************************************************************)
(* src/crypto/mac/Poly1305.ts: the mac and the AEAD on Salsa or ChaCha.  A *)
(* cell stands for eight bytes: a block of the mac is two, of the cipher   *)
(* eight, and a length one.  Bytes are sets of atoms, as in Ascon.  The    *)
(* polynomial is ideal: an accumulator is the blocks it took in.           *)
(***************************************************************************)
EXTENDS Integers, Sequences

Bs == 2
CryptBs == 8

Atom(n) == [perm |-> <<>>, at |-> n]
LastOne == Atom(-2)
Length(n) == IF n = 0 THEN {} ELSE {Atom(1000 + n)}
Xor(a, b) == (a \ b) \cup (b \ a)
Sub(q, from, to) == SubSeq(q, from + 1, IF to > Len(q) THEN Len(q) ELSE to)
Zeros(n) == [i \in 1..n |-> {}]

\* The mac: #a, #block, _bPos.  hash() leaves the block as it is.
NewMac(key) == [key |-> key, acc |-> <<>>, block |-> Zeros(Bs), bPos |-> 0]
hash(m, last) == [m EXCEPT !.acc = Append(@, [block |-> m.block, last |-> last]), !.bPos = 0]
Set(m, bytes) == [m EXCEPT !.block = [i \in 1..Bs |-> IF i > m.bPos /\ i <= m.bPos + Len(bytes)
                                                      THEN bytes[i - m.bPos] ELSE @[i]]]

\* Mutant of write: a block is taken to be empty
writeFromStart(m, data) ==
    LET n == Len(data) \div Bs
        F[k \in 0..n] == IF k = 0 THEN [m EXCEPT !.bPos = 0]
                         ELSE LET t == F[k - 1]
                              IN  hash(Set(t, Sub(data, (k - 1) * Bs, k * Bs)), FALSE)
    IN  [m |-> [Set(F[n], Sub(data, n * Bs, Len(data))) EXCEPT !.bPos = Len(data) % Bs],
         ok |-> TRUE]
\* write(): the slice that fills a block is a whole block long, or all that is left;
\* `#block.set` throws if it does not fit behind _bPos.
write(m, data) ==
    LET F[k \in 0..Len(data)] ==
            IF k = 0 THEN [m |-> m, at |-> 0, ok |-> TRUE]
            ELSE LET t == F[k - 1]
                     left == Len(data) - t.at
                     space == Bs - t.m.bPos
                     slice == Sub(data, t.at, t.at + Bs)
                 IN  IF left = 0 \/ ~t.ok THEN t
                     ELSE IF space > left
                     THEN [m |-> [Set(t.m, slice) EXCEPT !.bPos = @ + left],
                           at |-> Len(data), ok |-> TRUE]
                     ELSE IF Len(slice) > space THEN [t EXCEPT !.ok = FALSE]
                     ELSE [m |-> hash(Set(t.m, slice), FALSE), at |-> t.at + space, ok |-> TRUE]
    IN  F[Len(data)]

\* sumIn(): the block under way ends with a one and zeros; then #s is added to #a.
sumIn(m) ==
    IF m.bPos = 0 THEN m
    ELSE hash([m EXCEPT !.block = [i \in 1..Bs |-> IF i <= m.bPos THEN @[i]
                                                  ELSE IF i = m.bPos + 1 THEN {LastOne} ELSE {}]],
              TRUE)
Tag(m) == <<m.key, m.acc>>
reset(m) == [NewMac(m.key) EXCEPT !.bPos = 0]

\* Salsa20 and ChaCha20 and their X forms: as in FullCrypt, a call takes whole blocks.
Keystream(crypt, taken, i) ==
    {[perm |-> <<[cells |-> <<>>, rounds |-> crypt]>>,
      at |-> (taken + (i - 1) \div CryptBs) * CryptBs + ((i - 1) % CryptBs)]}
cryptInto(crypt, taken, bytes) ==
    [i \in 1..Len(bytes) |-> Xor(Keystream(crypt, taken, i), bytes[i])]
\* Mutant of Taken: a block is left even when the bytes end with one
TakenOneMore(bytes) == Len(bytes) \div CryptBs + 1
Taken(bytes) == (Len(bytes) + CryptBs - 1) \div CryptBs

\* The AEAD.  fromCrypt() makes the key of the mac of the first block of keystream.
fromCrypt(crypt) == [taken |-> 1, mac |-> NewMac(crypt)]
NewAead(crypt) ==
    LET c == fromCrypt(crypt)
    IN  [class |-> crypt, stage |-> "init", taken |-> c.taken, mac |-> c.mac, adLen |-> 0, cLen |-> 0]

\* Zeros up to a whole block; a length is counted in bytes, so in cells of eight.
PadTo(m, len) == IF len % Bs = 0 THEN m ELSE write(m, Zeros(Bs - (len % Bs))).m

writeAD(o, data) ==
    LET w == write(o.mac, data)
    IN  [o |-> [o EXCEPT !.stage = "ad", !.adLen = @ + Len(data), !.mac = w.m], ok |-> w.ok]
finalizeAD(o) ==
    CASE o.stage = "ad" -> [o EXCEPT !.stage = "data", !.mac = PadTo(@, o.adLen)]
      [] o.stage = "init" -> [o EXCEPT !.stage = "data"]
      [] OTHER -> o

\* The cipher goes first: its count has moved on when the mac throws.
encryptInto(obj, plain) ==
    LET o == finalizeAD(obj)
        enc == cryptInto(o.class, o.taken, plain)
        w == write(o.mac, enc)
        moved == [o EXCEPT !.taken = @ + Taken(plain), !.mac = w.m]
    IN  [out |-> enc, ok |-> w.ok,
         o |-> IF w.ok THEN [moved EXCEPT !.cLen = @ + Len(plain)] ELSE moved]
\* `same`: what the mac is given of enc is the plaintext that replaced it.
decryptInto(obj, enc, same) ==
    LET o == finalizeAD(obj)
        plain == cryptInto(o.class, o.taken, enc)
        w == write(o.mac, IF same THEN plain ELSE enc)
        moved == [o EXCEPT !.taken = @ + Taken(enc), !.mac = w.m]
    IN  [out |-> plain, ok |-> w.ok,
         o |-> IF w.ok THEN [moved EXCEPT !.cLen = @ + Len(enc)] ELSE moved]

\* What ends the data, once: zeros up to a whole block, and the two lengths.
Lengths(o) ==
    write(write(PadTo(o.mac, o.cLen), <<Length(o.adLen)>>).m, <<Length(o.cLen)>>).m
finalize(obj) ==
    LET o == finalizeAD(obj)
        m == sumIn(IF o.stage = "data" THEN Lengths(o) ELSE o.mac)
    IN  [o |-> [o EXCEPT !.stage = "done", !.mac = m], tag |-> Tag(m)]
=============================================================================
