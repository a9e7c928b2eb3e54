------------------------------ MODULE BitStream ------------------------------
(***************************************************************************)
(* BitWriter and BitReader of src/primitive: a byte array, the byte at     *)
(* which the next bit goes (from 0), and the bits of it already taken.  A  *)
(* byte is the set of its one bits; a number, the set of a 32 bit word's.  *)
(***************************************************************************)
EXTENDS Integers, Sequences
Int32 == INSTANCE Words WITH W <- 32

Mounted(bytes) == [buff |-> bytes, ptr |-> 0, bit |-> 0]
Full(bw) == bw.ptr >= Len(bw.buff)
BitsLeft(bw) == (Len(bw.buff) - bw.ptr) * 8 - bw.bit

Octet(a) == a \cap (0..7)

BitWriter == [buff : Seq(SUBSET (0..7)), ptr : Nat, bit : 0..7]
Push == [bw : BitWriter, n : Int32!Word, bits : Int]
\* A turn fills what is left of the current byte, or puts what is left of the number
\* there; past the end of either it does nothing.  `share` is an earlier number's.
PutBits[a \in Push] ==
    LET bw == a.bw
        share == IF bw.bit = 0 THEN {} ELSE bw.buff[bw.ptr + 1]
        space == 8 - bw.bit
    IN  IF a.bits <= 0 \/ Full(bw) THEN a
        ELSE IF a.bits >= space
        THEN [bw |-> [buff |-> [bw.buff EXCEPT ![bw.ptr + 1] =
                                    Octet(share \cup Int32!Shr(a.n, a.bits - space))],
                      ptr |-> bw.ptr + 1, bit |-> 0],
              n |-> a.n, bits |-> a.bits - space]
        ELSE [bw |-> [buff |-> [bw.buff EXCEPT ![bw.ptr + 1] =
                                    Octet(share \cup Int32!Shl(a.n, space - a.bits))],
                      ptr |-> bw.ptr, bit |-> bw.bit + a.bits],
              n |-> a.n, bits |-> 0]
\* The bytes that so many bits are put in
Turns(bw, bits) == IF bits <= 0 THEN 0 ELSE (bw.bit + bits + 7) \div 8
\* The writer after, and how many bits did not fit
pushNumberBE(bw, n, bits) ==
    LET after[i \in 0..Turns(bw, bits)] ==
          IF i = 0 THEN [bw |-> bw, n |-> n, bits |-> bits] ELSE PutBits[after[i - 1]]
    IN  after[Turns(bw, bits)]

\* What the reader takes: the first bits, the most significant first.
readNumberBE(br, bits) ==
    LET at == br.ptr * 8 + br.bit
        set(i) == (7 - (i % 8)) \in br.buff[i \div 8 + 1]
    IN  [br |-> [br EXCEPT !.ptr = (at + bits) \div 8, !.bit = (at + bits) % 8],
         n |-> {k \in 0..(bits - 1) : set(at + bits - 1 - k)}]

\* skipBits(), the same in both.
skipBits(bw, count) ==
    LET over == bw.bit + (count % 8)
    IN  [bw EXCEPT !.ptr = @ + count \div 8 + over \div 8, !.bit = over % 8]
=============================================================================
