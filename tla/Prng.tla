-------------------------------- MODULE Prng --------------------------------
(***************************************************************************)
(* A generator of src/prng in use: APrng32 and APrng64 over any class in   *)
(* the form of Prng32.  It is asked for numbers, fills byte arrays one turn *)
(* of the loop at a time, and is saved on one platform and restored,       *)
(* maybe on another with the other byte order.                             *)
(***************************************************************************)
EXTENDS Prng32, BitStream
D == INSTANCE Words WITH W <- 64
N == INSTANCE Words WITH W <- 32
LOCAL H == INSTANCE Words WITH W <- 16
LOCAL Ext == INSTANCE SequencesExt

CONSTANTS Classes,    \* the classes, by name
          rawNext(_, _),  \* of a class and a generator, the generator after
          Kinds,      \* classes in use, of those named in Classes
          Filling,    \* those of them that fillBytes() is called on
          Sizes,      \* lengths of the arrays it fills
          MaxCalls,   \* calls of the generator's methods
          NoFile      \* nothing saved yet

VARIABLES kind, gen,  \* the class, and the generator's fields
          file,       \* what save() returned, and on which platform
          kept,       \* the generator when it was saved
          target,     \* the BitWriter over the array that fillBytes() fills
          busy,       \* fillBytes() has not returned
          raws,       \* what rawNext() returned in the current call
          got,        \* the numbers that call returned, and the bits of each
          calls       \* calls so far
vars == <<kind, gen, file, kept, target, busy, raws, got, calls>>
-----------------------------------------------------------------------------
Wide(k) == "perWord" \in DOMAIN Classes[k]     \* the state is made of U64s
bitGen(k) == Classes[k].bits
\* Mutant of safeBits: every class reads bitGen before its constructor sets it
safeBitsTooEarly(k) == IF k \in {"Marsaglia", "Arc4"} THEN Undefined ELSE Classes[k].safe
safeBits(k) == Classes[k].safe

New(k) == {Classes[k].fresh} \cup Classes[k].seeded

\* _nextU(): the generator after, the words drawn, the number made of their
\* bits.  Words are drawn until no more than last bits are missing, each of a bit at least.
Taken(d, g, left) ==
    [g |-> g, shift |-> left, raws |-> Append(d.raws, g.out),
     ret |-> d.ret \cup (IF left >= 0 THEN D!Shl(g.out, left) ELSE D!Shr(g.out, -left))]
Drawn(k, g, bits, last) ==
    LET most == bits \div bitGen(k) + 1
        draw[i \in 0..most] ==
          IF i = 0 THEN [g |-> g, shift |-> bits, ret |-> {}, raws |-> <<>>]
          ELSE LET d == draw[i - 1] IN
               IF d.shift <= last THEN d
               ELSE Taken(d, rawNext(k, d.g), d.shift - bitGen(k))
    IN  draw[most]
\* Mutant of nextU: a width that is a multiple of bitGen draws one word more
nextUDrawsOn(k, g, bits) == Drawn(k, g, bits, -1)
nextU(k, g, bits) == Drawn(k, g, bits, 0)

\* What each method asks for: a boolean, a byte, 16, 31 or 32 bits, a float's
\* bits (24), a double's (two numbers, or one of 53 bits), a U64.
Asked(k) == {<<1>>, <<8>>, <<16>>, <<31>>, <<32>>, <<24>>}
            \cup (IF Wide(k) /\ bitGen(k) = 64 THEN {<<53>>, <<64>>} ELSE {<<27, 26>>})
-----------------------------------------------------------------------------
\* The state in units of save(): halves of a U64, the low one first.
Halves(k, w) ==
    IF Wide(k) THEN [i \in 1..(2 * Len(w)) |->
                        LET a == w[(i + 1) \div 2]
                        IN  IF i % 2 = 1 THEN a \cap (0..31) ELSE {j - 32 : j \in {b \in a : b >= 32}}]
    ELSE w
Joined(k, h) ==
    IF Wide(k) THEN [i \in 1..(Len(h) \div 2) |-> h[2 * i - 1] \cup {j + 32 : j \in h[2 * i]}]
    ELSE h
Swapped(k, a) == IF k = "Sfc16" THEN H!Swap(a) ELSE N!Swap(a)

\* Numbers read in little-endian order from the bytes that save() returns.
SavedLE(k, g) == IF Wide(k) THEN Classes[k].perWord * Len(g.w) ELSE Len(g.w)
Saved(k, g, big) ==
    LET h == Halves(k, g.w)
    IN  [w |-> [i \in 1..Len(h) |-> IF big /\ i > SavedLE(k, g) THEN Swapped(k, h[i]) ELSE h[i]],
         p |-> g.p, big |-> big]

Exactly(k) == Len(Halves(k, Classes[k].fresh.w))
\* Mutant of Restored: the pointers kept beside the words start from zero
RestoredAtZero(k, f, big) == Fresh(Joined(k, f.w), [i \in DOMAIN f.p |-> 0])
Restored(k, f, big) ==
    LET h == IF ~big THEN f.w
             ELSE IF k = "Pcg64" THEN Ext!Reverse(SubSeq(f.w, 1, 4)) \o Ext!Reverse(SubSeq(f.w, 5, 8))
             ELSE [i \in 1..Len(f.w) |->
                      IF i > Classes[k].restoreLE THEN Swapped(k, f.w[i]) ELSE f.w[i]]
    IN  Fresh(Joined(k, h), f.p)

\* Numbers are of a bit to 64; fillBytes() takes the top bits of a word, which are the
\* number that safeBits says, and pushes 32 at most at a time.
ASSUME ClassesAssumption ==
    /\ \A k \in Kinds : bitGen(k) \in 1..64
    /\ \A k \in Kinds \cap Filling :
          IF Wide(k) /\ bitGen(k) = 64 THEN safeBits(k) \in 32..64
          ELSE bitGen(k) <= 32 /\ safeBits(k) \in {Undefined} \cup 1..bitGen(k)
    /\ Sizes \subseteq Nat
    /\ \A k \in Kinds : /\ Classes[k].restoreLE \in Nat
                        /\ Wide(k) => Classes[k].perWord \in Nat
    /\ "Pcg64" \in Kinds => Classes["Pcg64"].restoreLE < Exactly("Pcg64")
-----------------------------------------------------------------------------
Init == /\ kind \in Kinds
        /\ gen \in New(kind)
        /\ file = NoFile /\ kept = NoFile
        /\ target = Mounted(<<>>) /\ busy = FALSE
        /\ raws = <<>> /\ got = <<>> /\ calls = 0

Called == ~busy /\ calls < MaxCalls /\ calls' = calls + 1

Numbers ==
    /\ Called
    /\ \E ask \in Asked(kind) : \E one \in {nextU(kind, gen, ask[1])} :
         IF Len(ask) = 1
         THEN /\ gen' = one.g /\ raws' = one.raws
              /\ got' = <<[n |-> one.ret, bits |-> ask[1]]>>
         ELSE \E two \in {nextU(kind, one.g, ask[2])} :
              /\ gen' = two.g /\ raws' = one.raws \o two.raws
              /\ got' = <<[n |-> one.ret, bits |-> ask[1]], [n |-> two.ret, bits |-> ask[2]]>>
    /\ UNCHANGED <<kind, file, kept, target, busy>>

\* The bytes of the array before are all ones: none may survive.
FillBytes ==
    /\ Called /\ kind \in Filling
    /\ \E n \in Sizes : target' = Mounted([i \in 1..n |-> 0..7])
    /\ busy' = TRUE /\ raws' = <<>> /\ got' = <<>>
    /\ UNCHANGED <<kind, gen, file, kept>>

\* Mutant of Pushed: the unsafe bits are not shifted out
PushedWhole(k, bw, out) ==
    pushNumberBE(bw, out \cap (0..31), IF bitGen(k) = 64 THEN 32 ELSE safeBits(k)).bw
Pushed(k, bw, out) ==
    IF Wide(k) /\ bitGen(k) = 64
    THEN pushNumberBE(pushNumberBE(bw, {i - 32 : i \in {j \in out : j >= 32}}, 32).bw,
                      N!Shr(out \cap (0..31), 64 - safeBits(k)), safeBits(k) - 32).bw
    ELSE pushNumberBE(bw, IF safeBits(k) = Undefined THEN out
                          ELSE N!Shr(out, bitGen(k) - safeBits(k)), safeBits(k)).bw

FillTurn ==
    /\ busy /\ ~Full(target)
    /\ gen' = rawNext(kind, gen)
    /\ target' = Pushed(kind, target, gen'.out)
    /\ raws' = IF safeBits(kind) = Undefined THEN raws ELSE Append(raws, gen'.out)
    /\ UNCHANGED <<kind, file, kept, busy, got, calls>>

FillReturn ==
    /\ busy /\ Full(target)
    /\ busy' = FALSE
    /\ UNCHANGED <<kind, gen, file, kept, target, raws, got, calls>>

Save(big) ==
    /\ Called
    /\ file' = Saved(kind, gen, big) /\ kept' = gen
    /\ raws' = <<>> /\ got' = <<>>
    /\ UNCHANGED <<kind, gen, target, busy>>

Restore(big) ==
    /\ Called /\ file # NoFile /\ Len(file.w) = Exactly(kind)
    /\ gen' = Restored(kind, file, big)
    /\ raws' = <<>> /\ got' = <<>>
    /\ UNCHANGED <<kind, file, kept, target, busy>>

Next == \/ Numbers
        \/ FillBytes \/ FillTurn \/ FillReturn
        \/ \E big \in BOOLEAN : Save(big) \/ Restore(big)

Spec == Init /\ [][Next]_vars

\* fillBytes() is one synchronous call: once begun, nothing else runs.
FairSpec == Spec /\ WF_vars(FillTurn) /\ WF_vars(FillReturn)
-----------------------------------------------------------------------------
\* The b-th most significant bits of the words drawn, each of size bits of which
\* the top safe ones are used, one word after the other.
TopBit(ws, size, safe, t) == (size - 1 - (t % safe)) \in ws[t \div safe + 1]

\* What rawNext() returned has the bits of its class, and what was saved is words.
WordsFit ==
    /\ LET size == bitGen(kind)
       IN  \A i \in 1..Len(raws) : raws[i] \subseteq 0..(size - 1)
    /\ file # NoFile => kept.w \in Seq(SUBSET (0..63))

\* A number of any width is the leading bits of the words drawn for it, in the
\* order drawn, and no word more than needed is drawn: _nextU() neither loses
\* nor repeats bits where a width is a multiple of what a generator makes.
Needed(bits) == (bits + bitGen(kind) - 1) \div bitGen(kind)
From(i) == IF i = 1 THEN 0 ELSE Needed(got[1].bits)
NumbersAreLeadingBits ==
    /\ WordsFit
    /\ got # <<>> => Len(raws) = From(Len(got)) + Needed(got[Len(got)].bits)
    /\ \A i \in 1..Len(got) :
          LET bits == got[i].bits
              size == bitGen(kind)
              words == SubSeq(raws, From(i) + 1, Len(raws))
          IN  \A t \in 0..(bits - 1) :
                 (bits - 1 - t) \in got[i].n <=> TopBit(words, size, size, t)

\* fillBytes() writes the safe top bits of each word, the most significant into
\* the first byte: what is written so far is what was drawn so far, to the bit.
FilledFromStream ==
    busy => LET size == bitGen(kind)
                safe == safeBits(kind)
            IN  \A t \in 0..(8 * target.ptr + target.bit - 1) :
                   (7 - (t % 8)) \in target.buff[t \div 8 + 1] <=> TopBit(raws, size, safe, t)

\* What restore() makes of what save() returned has every field of the
\* generator saved, whatever was drawn since; on big-endian platforms too for
\* the classes whose save() and restore() put every word in order.
RestoreContinues ==
    (file # NoFile /\ Len(file.w) = Exactly(kind))
    => \A big \in BOOLEAN :
         \/ file.big /\ SavedLE(kind, kept) < Len(file.w)
         \/ big /\ Classes[kind].restoreLE < Len(file.w)
         \/ LET g == Restored(kind, file, big) IN g.w = kept.w /\ g.p = kept.p

\* Every fillBytes() returns: each turn of its loop writes something.
FillReturns == busy ~> ~busy
=============================================================================
