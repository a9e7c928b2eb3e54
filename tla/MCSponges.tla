----------------------------- MODULE MCSponges ------------------------------
(***************************************************************************)
(* Keccak.ts: the sponge, the classes of SP 800-185, KangarooTwelve, and   *)
(* the encodings they stand on.  A behaviour is one family's; the others   *)
(* rest.  The encodings are tried on every number up to MaxNumber, and on  *)
(* byte strings as long, in a small base: the behaviour counts round, and  *)
(* each property compares the number reached with every smaller one.       *)
(***************************************************************************)
EXTENDS KeccakHash, SequencesExt, TLC

CONSTANTS Families,    \* bound: whose behaviours
          c1, c2, d1, d2, MaxNumber

VARIABLES family,
          cObj, cClass, cSize, cWrote, cStrayed, cSpent, cOut,
          kObj, kChunks, kWrote, kTainted, kSpent, kOut,
          n
cVars == <<cObj, cClass, cSize, cWrote, cStrayed, cSpent, cOut>>
kVars == <<kObj, kChunks, kWrote, kTainted, kSpent, kOut>>

\* The sponge: bytes are sets of bits; zero, the suffix, the end bit and both; less than
\* a block and more than a block
SpongeData == {<<{}>>, <<{7}>>, <<{0}, {0, 7}, {}>>}
SpongeSuffix == {0}

\* SP 800-185: no byte, one byte, which is also the encoding of a length, and a block
\* or more
Two == {c1, c2}
C == INSTANCE CShakeHash WITH
       Base <- 256, Width <- 7, ByteBits <- 8,
       Ctx <- Two, Classes <- {"shake", "cshake", "kmac", "tuple", "parallel"},
       Data <- {<<>>, <<8>>, <<1, 2, 3>>}, MaxLen <- 4, Pad <- 8,
       Name <- <<5>>, Custom <- <<6>>, Key <- <<7>>, OutLen <- 2,
       Sizes <- {32, 64}, SubSize <- 32, AppendSize <- TRUE,
       obj <- cObj, class <- cClass, size <- cSize, wrote <- cWrote, strayed <- cStrayed, spent <- cSpent,
       out <- cOut
TwoObjects == {d1, d2}
MCSymmetry == Permutations(Two) \union Permutations(TwoObjects)

\* One byte, and more than a chunk
K == INSTANCE K12Hash WITH
       Base <- 256, Width <- 7, ByteBits <- 8,
       Ctx <- TwoObjects, Data <- {<<7>>, <<1, 2, 3, 4>>}, MaxLen <- 5, MaxHeld <- 1,
       MaxChunkSize <- 4, Custom <- <<9>>,
       obj <- kObj, chunks <- kChunks, wrote <- kWrote, tainted <- kTainted, spent <- kSpent,
       out <- kOut

SmallBase == 3
SmallWidth == 5
E == INSTANCE Sp800185 WITH Base <- SmallBase, Width <- SmallWidth, ByteBits <- 2

ASSUME InstanceAssumptions == C!CShakeAssumption /\ K!ChunkAssumption

AllInit == /\ family \in Families
           /\ Init /\ C!Init /\ K!Init /\ n = 0
           /\ \A c, e \in Two :    \* bound: objects of two classes or sizes share nothing
                cClass[c] = cClass[e] /\ cSize[c] = cSize[e]
           /\ (family # "SP 800-185" => \A c \in Two : cClass[c] = "shake" /\ cSize[c] = 32)
AllNext == /\ UNCHANGED family
           /\ \/ family = "Keccak" /\ Next /\ UNCHANGED <<cVars, kVars, n>>
              \/ family = "SP 800-185" /\ C!Next /\ UNCHANGED <<vars, kVars, n>>
              \/ family = "KangarooTwelve" /\ K!Next /\ UNCHANGED <<vars, cVars, n>>
              \/ family = "encodings" /\ n' = (n + 1) % (MaxNumber + 1)
                                      /\ UNCHANGED <<vars, cVars, kVars>>
AllSpec == AllInit /\ [][AllNext]_<<family, vars, cVars, kVars, n>>
-----------------------------------------------------------------------------
\* A string of k bytes; two of the same length differ in their last byte
Str(k, last) == [i \in 1..k |-> IF i = k THEN last ELSE 1]
Strings(k) == {Str(k, last) : last \in {0, 1}}

Value(digits) == FoldLeft(LAMBDA v, d : v * SmallBase + d, 0, digits)
DecodeLeft(s) == IF Len(s) = s[1] + 1 THEN Value(Tail(s)) ELSE MaxNumber + 1
Encodable == n < SmallBase^(SmallWidth - 1)

\* leftEncode() can be decoded exactly for the numbers that leave a byte of the
\* buffer free for the count; "so we only require 7 bytes" is true up to there.
LeftHoldsSmall == (DecodeLeft(E!LeftEncode(n)) = n) <=> Encodable

\* What follows the encoding of a string cannot be taken for a part of it: no
\* encoding is the beginning of another.  TupleHash and cSHAKE rely on it.
StringsPrefixFree ==
  \A k \in 0..n : \A s \in Strings(n), t \in Strings(k) :
    n * 2 < SmallBase^(SmallWidth - 1) /\ s # t =>
      /\ ~IsPrefix(E!EncodeString(t), E!EncodeString(s))
      /\ ~IsPrefix(E!EncodeString(s), E!EncodeString(t))

\* No length of a KangarooTwelve customization ends another's, and 0 is one byte.
K12SuffixFree ==
  /\ Len(E!K12LengthEncode(0)) = 1
  /\ \A k \in 0..(n - 1) :
       Encodable => ~IsSuffix(E!K12LengthEncode(k), E!K12LengthEncode(n))

\* bytePad() returns whole blocks that begin with the block size and the inputs, and
\* throws only when the inputs end in the last few bytes of a block.
PadIsWhole ==
  \A w \in 2..(SmallBase^(SmallWidth - 1) - 1) : \A x \in Strings(n) :
    LET head == E!LeftEncode(w) \o x
        over == Len(head) % w
    IN  IF E!PadThrows(w, x) THEN Len(x) % w = 0 \/ over \in 1..(Len(E!LeftEncode(w)) - 1)
        ELSE /\ Len(E!BytePad(w, x)) % w = 0
             /\ IsPrefix(head, E!BytePad(w, x))
             /\ Len(E!BytePad(w, x)) < Len(head) + w

\* The encodings decode, and are prefix or suffix free where the sponge relies on it
\* (leftEncode, encodeString, k12LengthEncode and bytePad of Keccak.ts).
EncodingsRight ==
  family = "encodings" => LeftHoldsSmall /\ StringsPrefixFree /\ K12SuffixFree /\ PadIsWhole

\* The classes over a sponge: every digest is the standard's, but for the size of a
\* block's digest and the count in a ParallelHash; and TupleHash tells apart what the
\* others do not (CShakeHash).
CShakeRight == family = "SP 800-185" => C!TypeOK /\ C!DigestRight
TuplesApart == family = "SP 800-185" => C!TuplesApart

\* KangarooTwelve: what the sponge and the array of chunks hold is what was written, and
\* the digest of an object no other call reached is the definition's.
K12Right == family = "KangarooTwelve" => K!TypeOK /\ K!HoldsMessage /\ K!DigestRightWhenAlone

\* "does not mutate state" (IHash.ts): a second sum() returns what the first did.
SumDoesNotMutate == K!SumDoesNotMutate
=============================================================================
