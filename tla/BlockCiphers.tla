---------------------------- MODULE BlockCiphers -----------------------------
(***************************************************************************)
(* The classes of src/crypto/sym that implement IBlockCrypt with Speck or  *)
(* Simon: a caller's key array, the ciphers built from it, and a caller's  *)
(* array of blocks, a view that starts some blocks into its buffer.        *)
(***************************************************************************)
EXTENDS Integers, Sequences

CONSTANTS Names,     \* the classes tried
          Blocks,    \* blocks of the buffer
          MaxCalls   \* bound on the calls of encryptBlock and decryptBlock
\* Assumed where the module is instantiated
BlocksAssumption == Blocks \in Nat \ {0} /\ MaxCalls \in Nat

A32 == INSTANCE Arx WITH W <- 32
A64 == INSTANCE Arx WITH W <- 64

VARIABLES name,   \* the class
          key,    \* words of the caller's key array
          built,  \* round keys of the ciphers built from it, in turn
          base,   \* the block of the buffer the caller's array starts at
          buff,   \* words of the buffer, two a block
          net,    \* by block, the encryptions the caller asked for less the decryptions
          calls,
          astray  \* a 128 bit class was built twice or used past the first block
vars == <<name, key, built, base, buff, net, calls, astray>>

\* The bits of z, the lowest first, then what the code writes out after them.
ZBits(low, high, tail) ==
    [j \in 1..64 |-> IF j <= 32 THEN IF j - 1 \in low THEN 1 ELSE 0
                                ELSE IF j - 33 \in high THEN 1 ELSE 0] \o tail
z0 == <<A32!Lit(6444, 3829), A32!Lit(29545, 63621)>>
z2 == <<A32!Lit(1958, 13787), A32!Lit(64556, 58642)>>
z4 == <<A32!Lit(1133, 26507), A32!Lit(64969, 19514)>>

Speck(wide, m, rounds) == [simon |-> FALSE, wide |-> wide, m |-> m, rounds |-> rounds]
Simon(wide, m, rounds, z, tail) ==
    [simon |-> TRUE, wide |-> wide, m |-> m, rounds |-> rounds,
     z |-> ZBits(z[1], z[2], tail)]

Speck64_96 == Speck(FALSE, 3, 26)
Speck64_128 == Speck(FALSE, 4, 27)
Speck128_128 == Speck(TRUE, 2, 32)
Speck128_192 == Speck(TRUE, 3, 33)
Speck128_256 == Speck(TRUE, 4, 34)
Simon64_96 == Simon(FALSE, 3, 42, z0, <<>>)
Simon64_128 == Simon(FALSE, 4, 44, z2, <<>>)
Simon128_128 == Simon(TRUE, 2, 68, z0, <<1, 0>>)
Simon128_192 == Simon(TRUE, 3, 69, z2, <<0, 1>>)
Simon128_256 == Simon(TRUE, 4, 72, z4, <<0, 1, 0, 0>>)

Class == [Speck64_96 |-> Speck64_96, Speck64_128 |-> Speck64_128,
          Speck128_128 |-> Speck128_128, Speck128_192 |-> Speck128_192,
          Speck128_256 |-> Speck128_256,
          Simon64_96 |-> Simon64_96, Simon64_128 |-> Simon64_128,
          Simon128_128 |-> Simon128_128, Simon128_192 |-> Simon128_192,
          Simon128_256 |-> Simon128_256]
Of == Class[name]

Schedule(c, k) ==
    CASE ~c.simon /\ ~c.wide -> A32!SpeckSchedule(k, c.rounds)
      [] ~c.simon /\ c.wide -> A64!SpeckSchedule(k, c.rounds)
      [] c.simon /\ ~c.wide -> A32!SimonSchedule(k, c.rounds, c.z)
      [] c.simon /\ c.wide -> A64!SimonSchedule(k, c.rounds, c.z)
Encrypted(c, rk, b) ==
    CASE ~c.simon /\ ~c.wide -> A32!SpeckEncrypt(rk, b)
      [] ~c.simon /\ c.wide -> A64!SpeckEncrypt(rk, b)
      [] c.simon /\ ~c.wide -> A32!SimonEncrypt(rk, b)
      [] c.simon /\ c.wide -> A64!SimonEncrypt(rk, b)
Decrypted(c, rk, b) ==
    CASE ~c.simon /\ ~c.wide -> A32!SpeckDecrypt(rk, b)
      [] ~c.simon /\ c.wide -> A64!SpeckDecrypt(rk, b)
      [] c.simon /\ ~c.wide -> A32!SimonDecrypt(rk, b)
      [] c.simon /\ c.wide -> A64!SimonDecrypt(rk, b)

\* The caller's words, before any call.
KeyOf(c) == [i \in 1..c.m |-> {4 * i + 1, i, 30 - i}]
Given == [i \in 1..(2 * Blocks) |-> {i, 3 * i, 31}]

\* Mutant of Worked: narrow classes take the view of the whole buffer too
WorkedFromBuffer(c, at, offset) == IF c.wide THEN 0 ELSE offset

\* The block of the buffer a call works on: the classes on Uint32Array take the
\* view of the offset, the ones on U64MutArray mount the buffer under it.
Worked(c, at, offset) == IF c.wide THEN 0 ELSE at + offset
\* sLen('block', block).atLeast(byteStart + 8), in both.
LongEnough(c, blocks, offset) == offset * 8 + 8 <= blocks * (IF c.wide THEN 16 ELSE 8)

BlockOf(words, b) == <<words[2 * b + 1], words[2 * b + 2]>>
Placed(words, b, block) == [words EXCEPT ![2 * b + 1] = block[1], ![2 * b + 2] = block[2]]

Init == /\ name \in Names
        /\ key = KeyOf(Of)
        /\ built = <<>>
        /\ base \in 0..(Blocks - 1)
        /\ buff = Given
        /\ net = [b \in 0..(Blocks - 1) |-> 0]
        /\ calls = 0
        /\ astray = FALSE

\* The 64 bit classes slice the key; the 128 bit ones run their schedule in it.
Build == /\ Len(built) < 2
         /\ LET s == Schedule(Of, key)
            IN  /\ built' = Append(built, s.rk)
                /\ key' = IF Of.wide THEN s.left ELSE key
         /\ astray' = (astray \/ (Of.wide /\ built # <<>>))
         /\ UNCHANGED <<name, base, buff, net, calls>>

Called(offset, step) ==
    /\ calls < MaxCalls
    /\ LongEnough(Of, Blocks - base, offset)
    /\ calls' = calls + 1
    /\ net' = IF base + offset < Blocks THEN [net EXCEPT ![base + offset] = @ + step] ELSE net
    /\ astray' = (astray \/ (Of.wide /\ base + offset > 0))
    /\ UNCHANGED <<name, key, built, base>>

encryptBlock(i, offset) ==
    /\ Called(offset, 1)
    /\ LET b == Worked(Of, base, offset)
       IN  buff' = Placed(buff, b, Encrypted(Of, built[i], BlockOf(buff, b)))
decryptBlock(i, offset) ==
    /\ Called(offset, -1)
    /\ LET b == Worked(Of, base, offset)
       IN  buff' = Placed(buff, b, Decrypted(Of, built[i], BlockOf(buff, b)))

Next == \/ Build
        \/ \E i \in 1..Len(built), offset \in 0..Blocks :
               encryptBlock(i, offset) \/ decryptBlock(i, offset)
Spec == Init /\ [][Next]_vars

\* The block after n encryptions, or -n decryptions, of what the caller gave.
After(n, b) ==
    LET given == BlockOf(Given, b)
        T[k \in 0..MaxCalls] ==
            IF k = 0 THEN given
            ELSE LET d == T[k - 1] IN IF n > 0 THEN Encrypted(Of, built[1], d)
                                              ELSE Decrypted(Of, built[1], d)
    IN  T[IF n < 0 THEN -n ELSE n]

\* Whatever ciphers of one class are built from one key array, and in whatever
\* order they encrypt and decrypt blocks of a view, each block of the buffer is
\* what its own calls make of it: decryptBlock undoes encryptBlock, of another
\* object too, and no call reaches a block it was not given.  Of the 128 bit
\* classes this is asked only while one cipher works on the first block of a
\* buffer (U64MutArray.fromBytes(data.buffer)).
CallsCancel ==
    ~astray => \A b \in 0..(Blocks - 1) : BlockOf(buff, b) = After(net[b], b)

\* A call of encryptBlock or decryptBlock changes the block its offset names
\* (Simon128.ts, `offset` "Block-offset").
BlockAtOffset ==
    [][\A b \in 0..(Blocks - 1) :
           net'[b] # net[b] => BlockOf(buff', b) # BlockOf(buff, b)]_vars

=============================================================================
