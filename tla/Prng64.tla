------------------------------- MODULE Prng64 -------------------------------
(***************************************************************************)
(* The pseudo-random generators of src/prng whose state is made of U64s    *)
(* (one of U128s), in the form of Prng32: w, the state words; out, what    *)
(* rawNext() last returned; a class as a record, here with the state a     *)
(* seed() leaves; perWord is how many 32 bit halves save() puts in order   *)
(* for each word: toBytesLE() of an array stops at as many as it has words.*)
(***************************************************************************)
EXTENDS Integers, Sequences
LOCAL INSTANCE Words WITH W <- 64
LOCAL N == INSTANCE Words WITH W <- 32
LOCAL D == INSTANCE Words WITH W <- 128

LOCAL Raw(w, out) == [w |-> w, p |-> <<>>, out |-> out]
LOCAL Fresh64(w) == Raw(w, {})
LOCAL Class(safe, new, seeded) ==
    [bits |-> 64, safe |-> safe, perWord |-> 1, restoreLE |-> 2 * Len(new),
     fresh |-> Fresh64(new), seeded |-> {Fresh64(seeded)}]
LOCAL Single(new, seeded) ==
    [Class(64, <<new>>, <<seeded>>) EXCEPT !.perWord = 2]

\* The default state of most classes.
Default4 == <<Lit64(\he220, \ha839, \h7b1d, \hcdaf), Lit64(\h6e78, \h9e6a, \ha1b9, \h65f4),
              Lit64(\h6c4, \h5d18, \h8009, \h454f), Lit64(\hf88b, \hb8a8, \h724c, \h81ec)>>

XorShift64Next(g) ==
    LET a == g.w[1] \oplus Shl(g.w[1], 13)
        b == a \oplus Shr(a, 7)
        c == b \oplus Shl(b, 17)
    IN  Raw(<<c>>, c)
XorShift64 == Single(Lit64(\h139, \h408d, \hcbbf, \h7a44), {0})

SplitMix64Next(g) ==
    LET s == g.w[1] ++ Lit64(\h9e37, \h79b9, \h7f4a, \h7c15)
        y == Times(s \oplus Shr(s, 30), Lit64(\hbf58, \h476d, \h1ce4, \he5b9))
        z == Times(y \oplus Shr(y, 27), Lit64(\h94d0, \h49bb, \h1331, \h11eb))
    IN  Raw(<<s>>, z \oplus Shr(z, 31))
SplitMix64 == Single({}, {0})

\* The class and its V8 variant differ by their three shifts.
XorShift128pStep(g, a, b, c) ==
    LET s1 == g.w[1] \oplus Shl(g.w[1], a)
        s0 == g.w[2]
    IN  Raw(<<s0, s1 \oplus s0 \oplus Shr(s1, b) \oplus Shr(s0, c)>>, s0 ++ g.w[1])
XorShift128pNext(g) == XorShift128pStep(g, 23, 18, 5)
XorShift128pV8Next(g) == XorShift128pStep(g, 23, 17, 26)
XorShift128p == Class(64, SubSeq(Default4, 1, 2), <<{0}, {1}>>)
XorShift128pV8 == Class(64, SubSeq(Default4, 1, 2), <<{0}, {1}>>)

\* s0 and s1 are the state's own words: each step reads what the last one left.
Xoroshiro128Step(g, a, b, c, out) ==
    LET s1 == g.w[2] \oplus g.w[1]
    IN  Raw(<<Rotl(g.w[1], a) \oplus s1 \oplus Shl(s1, b), Rotl(s1, c)>>, out)
Xoroshiro128pNext(g) == Xoroshiro128Step(g, 24, 16, 37, g.w[1] ++ g.w[2])
Xoroshiro128p_2016Next(g) == Xoroshiro128Step(g, 55, 14, 36, g.w[1] ++ g.w[2])
Xoroshiro128ppNext(g) ==
    Xoroshiro128Step(g, 49, 21, 28, Rotl(g.w[1] ++ g.w[2], 17) ++ g.w[1])
Xoroshiro128ssNext(g) ==
    Xoroshiro128Step(g, 24, 16, 37,
        Times(Rotl(Times(g.w[1], {0, 2}), 7), {0, 3}))
Xoroshiro128p == Class(53, SubSeq(Default4, 1, 2), <<{0}, {1}>>)
Xoroshiro128p_2016 == Class(53, SubSeq(Default4, 1, 2), <<{0}, {1}>>)
Xoroshiro128pp == Class(64, SubSeq(Default4, 1, 2), <<{0}, {1}>>)
Xoroshiro128ss == Class(64, SubSeq(Default4, 1, 2), <<{0}, {1}>>)

Xoshiro256Step(g, out) ==
    LET c == g.w[3] \oplus g.w[1]
        d == g.w[4] \oplus g.w[2]
    IN  Raw(<<g.w[1] \oplus d, g.w[2] \oplus c, c \oplus Shl(g.w[2], 17), Rotl(d, 45)>>,
            out)
Xoshiro256pNext(g) == Xoshiro256Step(g, g.w[1] ++ g.w[4])
Xoshiro256ppNext(g) == Xoshiro256Step(g, Rotl(g.w[1] ++ g.w[4], 23) ++ g.w[1])
Xoshiro256ssNext(g) ==
    Xoshiro256Step(g, Times(Rotl(Times(g.w[2], {0, 2}), 7), {0, 3}))
Xoshiro256p == Class(53, Default4, <<{0}, {1}, {2}, {3}>>)
Xoshiro256pp == Class(64, Default4, <<{0}, {1}, {2}, {3}>>)
Xoshiro256ss == Class(64, Default4, <<{0}, {1}, {2}, {3}>>)

\* What n calls of rawNext() leave, for the classes that warm up their seed.
LOCAL Warmed(Next64(_), g, n) ==
    LET after[i \in 0..n] == IF i = 0 THEN g ELSE Next64(after[i - 1]) IN after[n]

\* seed() allocates eight words, of which the generator uses four.
Gjrand64Next(g) ==
    LET b1 == g.w[2] ++ g.w[3]
        c1 == Rotl(g.w[3] \oplus b1, 23)
        d1 == g.w[4] ++ Lit64(\h0, \h0, \h55aa, \h96a5)
        a1 == Rotl(g.w[1], 32) ++ b1
        a2 == a1 ++ c1
    IN  Raw([g.w EXCEPT ![1] = a2, ![2] = Rotl(b1 \oplus a1, 19) ++ d1,
                        ![3] = c1 ++ a2, ![4] = d1], a2)
LOCAL Gjrand64Seeds ==
    {Warmed(Gjrand64Next, Fresh64(<<{0}, s[1], s[2], {}, {}, {}, {}, {}>>), 14) :
        s \in {<<{}, Num(1000001)>>, <<{}, Num(2000001)>>, <<{1}, Num(5000001)>>}}
Gjrand64 ==
    [Class(64, <<Lit64(\h8998, \h1441, \h8cc8, \h9697), Lit64(\hf0b5, \h26de, \hff7a, \hf845),
                Lit64(\hfdad, \hc2d9, \h1811, \hde81), Lit64(\h0, \h4, \haf54, \h3d06)>>,
           <<>>) EXCEPT !.seeded = Gjrand64Seeds]

\* rShiftEq() works on the word that xorEq() is called on: the word xored with
\* itself leaves zero as the first word, whatever it held.
Sfc64Next(g) ==
    LET t == g.w[1] ++ g.w[2] ++ g.w[4]
        b == Shr(g.w[2], 11)
    IN  Raw([g.w EXCEPT ![1] = b \oplus b, ![2] = g.w[3] ++ Shl(g.w[3], 3),
                        ![3] = Rotl(g.w[3], 24) ++ t, ![4] = g.w[4] ++ {0}], t)
LOCAL Sfc64Seeds ==
    {Warmed(Sfc64Next, Fresh64(<<{0}, {0}, {0}, {0}, {}, {}, {}, {}>>), 12),
     Warmed(Sfc64Next, Fresh64(<<{0}, {1}, {2}, {0}, {}, {}, {}, {}>>), 18)}
Sfc64 == [Class(64, <<Default4[1], Default4[2], Default4[3], {0}>>, <<>>)
             EXCEPT !.seeded = Sfc64Seeds]

\* Words: the state and the increment, which save() writes after it.
LOCAL Pcg32Mul == Lit64(\h5851, \hf42d, \h4c95, \h7f2d)
Pcg32Next(g) ==
    LET s == g.w[1]
        r == Shr(s \oplus Shr(s, 18), 27) \cap (0..31)
    IN  Raw(<<Times(s, Pcg32Mul) ++ g.w[2], g.w[2]>>, N!Rotr(r, N!Val(Shr(s, 59))))
LOCAL Pcg32Seeded(seed, inc) ==
    <<Times(inc ++ seed, Pcg32Mul) ++ inc, inc>>
Pcg32 == [Class(32, <<Lit64(\h853c, \h49e6, \h748f, \hea9b), Lit64(\hda3e, \h39cb, \h94b9, \h5bdb)>>,
                Pcg32Seeded({1}, Shl({0, 1}, 1) \oplus {0})) EXCEPT !.bits = 32, !.perWord = 2]

\* One word of 128 bits is kept as its two halves, the low one first.
LOCAL Wide(l, h) == l \cup {i + 64 : i \in h}
LOCAL Halves[a \in D!Word] == <<a \cap (0..63), {i - 64 : i \in {j \in a : j >= 64}}>>
LOCAL Pcg64Mul == Wide(Lit64(\h4385, \hdf64, \h9fcc, \hf645), Lit64(\h2360, \hed05, \h1fc6, \h5da4))
LOCAL Stepped(s, inc) == D!++(D!Times(s, Pcg64Mul), inc)
LOCAL Folded[s \in Seq(Word)] ==     \* low and high, rotated by the top six bits
    Raw(s, Rotr(s[1] \oplus s[2], N!Val(Shr(s[2], 58))))
Pcg64Next(g) ==
    Folded[Halves[Stepped(Wide(g.w[1], g.w[2]), Wide(g.w[3], g.w[4]))] \o SubSeq(g.w, 3, 4)]
LOCAL Pcg64Seeded(seed, inc) == Halves[Stepped(D!++(inc, seed), inc)] \o Halves[inc]
\* restore() reads no half on its own: it reverses all 16 bytes of a number.
Pcg64 == [Class(64, <<Lit64(\h7d3e, \h9cb6, \hcfe0, \h549b), Lit64(\h979c, \h9a98, \hd846, \h2005),
                     Lit64(\hda3e, \h39cb, \h94b9, \h5bdb), {0}>>,
                Pcg64Seeded({0}, {0, 2})) EXCEPT !.perWord = 2, !.restoreLE = 0]
=============================================================================
