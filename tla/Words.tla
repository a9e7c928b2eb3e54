------------------------------- MODULE Words --------------------------------
(***************************************************************************)
(* Machine words of W bits, as the set of the positions of their one bits, *)
(* with the operators the code applies to numbers, to Uint32Array elements *)
(* and to U64: exclusive or, shifts, rotations, and arithmetic mod 2^W.    *)
(* A word is read here at the width the code gives it, 32 or 64 bits.      *)
(***************************************************************************)
EXTENDS Integers, Sequences

CONSTANT W

Bit == 0..(W - 1)
Word == SUBSET Bit

a \oplus b == (a \ b) \cup (b \ a)
Not(a) == Bit \ a

Shl(a, k) == {i + k : i \in {j \in a : j + k < W}}
Shr(a, k) == {i - k : i \in {j \in a : j >= k}}

\* U32.lRot and U32.rRot; the U64 methods of the same name do as much for 64.
Rotl(a, k) == {(i + k) % W : i \in a}
Rotr(a, k) == {(i + W - (k % W)) % W : i \in a}

\* Sums and products lose what does not fit: `| 0`, `>>> 0`, an array element.
Carried[p \in Word \X Word] ==
    IF p[2] = {} THEN p[1]
    ELSE Carried[<<p[1] \oplus p[2], Shl(p[1] \cap p[2], 1)>>]
a ++ b == Carried[<<a, b>>]
a -- b == a ++ (Not(b) ++ {0})

Scaled[p \in Word \X Word] ==
    IF p[2] = {} THEN {}
    ELSE LET i == CHOOSE j \in p[2] : TRUE
         IN  Shl(p[1], i) ++ Scaled[<<p[1], p[2] \ {i}>>]
Times(a, b) == Scaled[<<a, b>>]

\* The word of a number below 2^31, and of the hexadecimal quarters of one.
Num(n) == {i \in 0..(IF W > 31 THEN 30 ELSE W - 1) : (n \div 2^i) % 2 = 1}
Lit(h, l) == {i + 16 : i \in {j \in 0..15 : (h \div 2^j) % 2 = 1}}
             \cup {j \in 0..15 : (l \div 2^j) % 2 = 1}
Lit64(h, g, f, l) == {i + 32 : i \in Lit(h, g)} \cup Lit(f, l)

\* The order of words as unsigned numbers.
Leq(a, b) == \/ a = b
             \/ \E i \in b \ a : \A j \in a \oplus b : j <= i

Val(a) == LET sum[i \in 0..W] == IF i = W THEN 0
                                ELSE sum[i + 1] + (IF i \in a THEN 2^i ELSE 0)
          IN  sum[0]

\* The word with its bytes in the opposite order.
Swap(a) == {W - 8 - 8 * (i \div 8) + (i % 8) : i \in a}
=============================================================================
