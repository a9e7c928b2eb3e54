----------------------------- MODULE BlockModes ------------------------------
(***************************************************************************)
(* The modes of src/crypto/block and the paddings of src/crypto/pad over   *)
(* any block cipher.  An object is a record: its mode, its padding, and    *)
(* its iv or counter.                                                      *)
(***************************************************************************)
EXTENDS Integers, Sequences

CONSTANTS BlockLen,     \* bytes of a block
          CountLen,     \* bytes of the count that Concat32 adds, 4 in the code
          Cipher(_), Decipher(_)   \* of a block, under the key of both objects

Byte == 0..255
Block == [1..BlockLen -> Byte]
Zero == 0
Mark == 128

\* What the modes know of IBlockCrypt: encryptBlock and decryptBlock of a block
\* undo each other.
encryptBlock(b) == Cipher(b)
decryptBlock(b) == Decipher(b)

\* `a ^ b` of bytes
BitSum(a, b, p) == ((a \div p) + (b \div p)) % 2
Xor(a, b) == BitSum(a, b, 1) + 2 * BitSum(a, b, 2) + 4 * BitSum(a, b, 4)
             + 8 * BitSum(a, b, 8) + 16 * BitSum(a, b, 16) + 32 * BitSum(a, b, 32)
             + 64 * BitSum(a, b, 64) + 128 * BitSum(a, b, 128)

\* pad() and unpad() of an input, by padding; {} is an exception, and `fill` is
\* what getRandomValues() gives.
Filled(n, byte) == [i \in 1..n |-> byte]
pad(p, input, len, fill) ==
    LET need == len - Len(input)
    IN  IF need < 0 \/ (p \in {"iso", "ansi"} /\ need = 0) THEN {}
        ELSE {input \o (CASE p = "pkcs7" -> Filled(need, need % 256)
                         [] p = "ansi" -> Filled(need - 1, fill) \o <<need % 256>>
                         [] p = "iso" -> <<Mark>> \o Filled(need - 1, Zero)
                         [] p = "zero" -> Filled(need, Zero))}

\* The length of the input without the zeros at its end.
Ends(input) == LET last[n \in 0..Len(input)] ==
                       IF n = 0 THEN 0 ELSE IF input[n] = Zero THEN last[n - 1] ELSE n
               IN  last[Len(input)]
\* Mutant of unpadCount: the byte of the count is taken off once more
unpadCountMore(input) == Len(input) - input[Len(input)] - 1
unpadCount(input) == Len(input) - input[Len(input)]
unpad(p, input) ==
    LET n == Len(input)
        count == input[n]
        end == Ends(input)
    IN  CASE p = "zero" -> {SubSeq(input, 1, end)}
          [] p = "iso" -> IF end > 0 /\ input[end] = Mark THEN {SubSeq(input, 1, end - 1)}
                          ELSE {}
          [] p = "ansi" -> IF count > n THEN {} ELSE {SubSeq(input, 1, unpadCount(input))}
          [] p = "pkcs7" -> IF count > n \/ (\E i \in (n - count + 1)..n : input[i] # input[n])
                            THEN {}
                            ELSE {SubSeq(input, 1, IF count = 0 THEN n - 1
                                                  ELSE unpadCount(input))}
padSize(p, inputSize, len) ==
    IF p = "zero" THEN IF inputSize < len /\ inputSize > 0 THEN len ELSE 0
    ELSE IF inputSize <= len THEN len ELSE 0

\* The classes: a constructor gives {} where it throws.
Paddings == {"pkcs7", "ansi", "iso", "zero"}
Ecb(p) == {[mode |-> "ecb", pad |-> p]}
Cbc(p, iv) == {[mode |-> "cbc", pad |-> p, iv |-> i] : i \in {j \in {iv} : Len(j) = BlockLen}}
Cfb(iv) == {[mode |-> "cfb", iv |-> i] : i \in {j \in {iv} : Len(j) = BlockLen}}
Ofb(iv) == {[mode |-> "ofb", iv |-> i] : i \in {j \in {iv} : Len(j) = BlockLen}}
\* Concat32 adds a count of its own to the iv.
Ctr(iv, count) ==
    IF count = {} THEN {[mode |-> "ctr", iv |-> i] : i \in {j \in {iv} : Len(j) = BlockLen}}
    ELSE {[mode |-> "ctr32", iv |-> iv, count |-> c] :
              c \in {d \in count : Len(iv) + CountLen = BlockLen}}

Padded(o) == o.mode \in {"ecb", "cbc"}
LastSize(plainLen) == IF plainLen % BlockLen = 0 THEN BlockLen ELSE plainLen % BlockLen
encryptSize(o, plainLen) ==
    IF Padded(o) THEN padSize(o.pad, LastSize(plainLen), BlockLen) - (plainLen % BlockLen) + plainLen
    ELSE plainLen

Xored(a, b) == [i \in 1..Len(a) |-> Xor(a[i], b[i])]
BlockAt(m, k) == SubSeq(m, k * BlockLen + 1, k * BlockLen + BlockLen)
\* `to.set(bytes, at)`
Set(to, bytes, at) ==
    [i \in 1..Len(to) |-> IF i > at /\ i <= at + Len(bytes) THEN bytes[i - at] ELSE to[i]]

\* Ecb and Cbc, blocks in place: `prev` is what Cbc xors with, nothing in Ecb.
Start(o) == IF o.mode = "cbc" THEN o.iv ELSE Filled(BlockLen, Zero)
Next(o, block) == IF o.mode = "cbc" THEN block ELSE Filled(BlockLen, Zero)

EncryptedBlocks(o, plain, n) ==
    LET F[k \in 0..n] ==
            IF k = 0 THEN [mem |-> plain, prev |-> Start(o)]
            ELSE LET s == F[k - 1]
                     b == encryptBlock(Xored(BlockAt(s.mem, k - 1), s.prev))
                 IN  [mem |-> Set(s.mem, b, (k - 1) * BlockLen), prev |-> Next(o, b)]
    IN  F[n]
encryptPadded(o, plain, fill) ==
    LET rem == Len(plain) % BlockLen
        safeLen == Len(plain) - rem
        s == EncryptedBlocks(o, SubSeq(plain, 1, safeLen), safeLen \div BlockLen)
    IN  IF padSize(o.pad, LastSize(Len(plain)), BlockLen) = 0 THEN {s.mem}
        ELSE {s.mem \o encryptBlock(Xored(last, s.prev)) :
                 last \in pad(o.pad, SubSeq(plain, safeLen + 1, Len(plain)), BlockLen, fill)}

\* `same`: enc and plain are one array, and what is read of enc was written before.
decryptPadded(o, plain, enc, same) ==
    LET safeLen == Len(enc) - BlockLen
        n == safeLen \div BlockLen
        F[k \in 0..n] ==
            IF k = 0 THEN [mem |-> Set(plain, SubSeq(enc, 1, safeLen), 0), prev |-> Start(o)]
            ELSE LET s == F[k - 1]
                     b == Xored(decryptBlock(BlockAt(s.mem, k - 1)), s.prev)
                 IN  [mem |-> Set(s.mem, b, (k - 1) * BlockLen),
                      prev |-> Next(o, IF same THEN b ELSE BlockAt(enc, k - 1))]
        last == unpad(o.pad, Xored(decryptBlock(BlockAt(enc, n)), F[n].prev))
    IN  IF safeLen < 0 THEN {} ELSE {Set(F[n].mem, end, safeLen) : end \in last}

\* n more than the bytes say, as a big-endian number of their length
Plus(bytes, n) ==
    LET len == Len(bytes)
        carry[j \in 0..len] ==
            IF j = 0 THEN n ELSE (bytes[len + 1 - j] + carry[j - 1]) \div 256
    IN  [i \in 1..len |-> (bytes[i] + carry[len - i]) % 256]

\* Ctr's counters: IncrBytes counts in all its bytes, Concat32 in the last four.
IncrBytes(iv, k) == Plus(iv, k)
Concat32(iv, count, k) == iv \o Plus(Filled(CountLen, Zero), count + k)

\* Cfb, Ofb and Ctr: the block that is encrypted for block k, `fed` by the last one.
Input(o, fed, k) == CASE o.mode \in {"cfb", "ofb"} -> fed
                      [] o.mode = "ctr" -> IncrBytes(o.iv, k)
                      [] o.mode = "ctr32" -> Concat32(o.iv, o.count, k)
\* Both directions; Cfb takes the ciphertext from enc, or from `mem` if `own`.
Streamed(o, mem, enc, own) ==
    LET len == Len(enc)
        n == (len + BlockLen - 1) \div BlockLen
        F[k \in 0..n] ==
            IF k = 0 THEN [mem |-> mem, fed |-> o.iv]
            ELSE LET s == F[k - 1]
                     ks == encryptBlock(Input(o, s.fed, k - 1))
                     at == (k - 1) * BlockLen
                     end == IF at + BlockLen > len THEN len ELSE at + BlockLen
                     m == Set(s.mem, Xored(SubSeq(s.mem, at + 1, end), ks), at)
                 IN  [mem |-> m, fed |-> IF o.mode # "cfb" \/ k * BlockLen > len THEN ks
                                         ELSE BlockAt(IF own THEN m ELSE enc, k - 1)]
    IN  F[n].mem

\* encryptInto(): what is in the caller's array of encryptSize(plain.length) bytes.
encryptInto(o, plain, fill) ==
    IF Padded(o) THEN encryptPadded(o, plain, fill)
    ELSE {Streamed(o, plain, plain, TRUE)}
\* decryptInto(): what is in `plain` after it.
decryptInto(o, plain, enc, same) ==
    IF Padded(o) THEN decryptPadded(o, plain, enc, same)
    ELSE {Streamed(o, Set(plain, enc, 0), enc, same)}
=============================================================================
