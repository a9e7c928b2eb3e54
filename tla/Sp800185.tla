------------------------------ MODULE Sp800185 ------------------------------
(***************************************************************************)
(* The encodings that src/src/crypto/hash/Keccak.ts builds the functions   *)
(* derived from SHA-3 with: leftEncode, rightEncode, encodeString and      *)
(* bytePad of SP 800-185, and k12LengthEncode of KangarooTwelve.           *)
(*                                                                         *)
(* The base and the width of the buffer are parameters, as the interesting *)
(* cases lie at powers of the base that TLC's integers do not reach.       *)
(***************************************************************************)
EXTENDS Naturals, SequencesExt

CONSTANTS
  Base,       \* 256 in the code
  Width,      \* the length of the buffer, 7 in the code
  ByteBits    \* << 3 in the code, that is times 8

\* How many times the do..while loops turn: at least once
NDigits(w) == CHOOSE n \in 1..(w + 1) : w < Base^n /\ (n = 1 \/ w >= Base^(n - 1))

\* Mutant of Digits: stored from the front of the buffer
DigitsLittle(w) == [i \in 1..NDigits(w) |-> (w \div Base^(i - 1)) % Base]

\* The bytes they store, the most significant first
Digits(w) == [i \in 1..NDigits(w) |-> (w \div Base^(NDigits(w) - i)) % Base]

\* A number of Width digits leaves no room for their count: ret[-1] is a store to no
\* element, and subarray(-1) the last byte alone
LeftEncode(w) ==
  IF NDigits(w) < Width THEN <<NDigits(w)>> \o Digits(w) ELSE <<w % Base>>

RightEncode(w) ==
  IF NDigits(w) < Width THEN Digits(w) \o <<NDigits(w)>> ELSE <<Width>>

\* Mutant of K12LengthEncode: a do..while as in rightEncode
K12LengthAlwaysDigit(w) == RightEncode(w)

\* "Almost the same as Keccak rightEncode except 0=[0] (vs 0=[0,0])"
K12LengthEncode(w) == IF w = 0 THEN <<0>> ELSE RightEncode(w)

\* Mutant of EncodeString: the length is left out
EncodeStringBare(s) == s

EncodeString(s) == LeftEncode(Len(s) * ByteBits) \o s

\* alloc: w, then more w until it is at least what the inputs require, without l
Alloc(w, req) == IF req <= w THEN w ELSE w * ((req + w - 1) \div w)

\* The set() that goes past alloc throws; x is the inputs, one after the other
PadThrows(w, x) == Len(LeftEncode(w)) + Len(x) > Alloc(w, Len(x))

\* Mutant of BytePad: l is put in after the inputs
BytePadLenLast(w, x) ==
  LET s == x \o LeftEncode(w)
  IN  [i \in 1..Alloc(w, Len(x)) |-> IF i <= Len(s) THEN s[i] ELSE 0]

\* bytePad(w, ...x), when it returns
BytePad(w, x) ==
  LET s == LeftEncode(w) \o x
  IN  [i \in 1..Alloc(w, Len(x)) |-> IF i <= Len(s) THEN s[i] ELSE 0]
=============================================================================
