------------------------------- MODULE Prng32 -------------------------------
(***************************************************************************)
(* The pseudo-random generators of src/prng whose state is an array of     *)
(* numbers of at most 32 bits.  A generator is a record: its state words w *)
(* (sets of bits), its other fields p (numbers), and out, what rawNext()   *)
(* last returned.  A class is a record of what its static methods fix: the *)
(* state new() starts from, those each branch of seed() leaves for a small *)
(* seed, bitGen, safeBits, and how many words restore() reads in little-   *)
(* endian order (asLE.i32); save() writes all of them so.                  *)
(***************************************************************************)
EXTENDS Integers, Sequences
LOCAL INSTANCE Words WITH W <- 32
LOCAL H == INSTANCE Words WITH W <- 16

CONSTANTS MtN, MtM,  \* words of a Mersenne Twister (624), and its middle (397)
          ArcN       \* elements of an Arc4 permutation (256)

ASSUME SizesAssumption == /\ MtN \in Nat /\ MtM \in 1..(MtN - 1)
                          /\ ArcN \in Nat \ {0}

Raw(w, p, out) == [w |-> w, p |-> p, out |-> out]
Fresh(w, p) == Raw(w, p, {})

\* What n calls of rawNext() leave, for the classes that warm up their seed.
LOCAL Warmed(NextOf(_), w, n) ==
    LET after[i \in 0..n] == IF i = 0 THEN Fresh(w, <<>>) ELSE NextOf(after[i - 1])
    IN  after[n]
LOCAL Small == <<{0}, {1}, {2}, {3}>>     \* seeds: 1, 2, 4, 8

\* safeBits of the classes whose initialiser reads bitGen before the
\* constructor sets it: undefined, which no comparison holds of.
Undefined == -1

XorShift32Next(g) ==
    LET a == g.w[1] \oplus Shl(g.w[1], 13)
        b == a \oplus Shr(a, 17)
        c == b \oplus Shl(b, 5)
    IN  Raw(<<c>>, g.p, c)
XorShift32 == [bits |-> 32, safe |-> 32, restoreLE |-> 1,
               seeded |-> {Fresh(<<{0}>>, <<>>)},
               fresh |-> Fresh(<<Lit(\h92d6, \h8ca2)>>, <<>>)]

XorShift128Next(g) ==
    LET t == g.w[1] \oplus Shl(g.w[1], 11)
        d == g.w[4] \oplus Shr(g.w[4], 19) \oplus (t \oplus Shr(t, 8))
    IN  Raw(<<g.w[2], g.w[3], g.w[4], d>>, g.p, d)
XorShift128 == [bits |-> 32, safe |-> 32, restoreLE |-> 4,
                seeded |-> {Fresh(Small, <<>>)},
                fresh |-> Fresh(<<Lit(\h75b, \hcd15), Lit(\h159a, \h55e5), Lit(\h1f12, \h3bb5), Lit(\h549, \h1333)>>, <<>>)]

\* The third rotation reads c where the 64 bit generator reads b.
Gjrand32bNext(g) ==
    LET b1 == g.w[2] ++ g.w[3]
        c1 == Rotl(g.w[3] \oplus b1, 11)
        d1 == g.w[4] ++ Lit(\h0, \h96a5)
        a1 == Rotl(g.w[1], 16) ++ b1
        a2 == a1 ++ c1
    IN  Raw(<<a2, Rotl(c1, 19) ++ d1, c1 ++ a2, d1>>, g.p, a2)
Gjrand32b == [bits |-> 32, safe |-> 32, restoreLE |-> 4,
              seeded |-> {Warmed(Gjrand32bNext, <<{0}, {}, Num(1000001), {}>>, 14),
                          Warmed(Gjrand32bNext, <<{0}, {1}, Num(2000001), {}>>, 14)},
              fresh |-> Fresh(<<Lit(\h8b92, \hc0f7), Lit(\h15ef, \haa03), Lit(\h7932, \h63b3), Lit(\h8, \h3d06)>>, <<>>)]

Mulberry32Next(g) ==
    LET s == g.w[1] ++ Lit(\h6d2b, \h79f5)
        q == Times(s \oplus Shr(s, 15), s \cup {0})
        r == q \oplus (q ++ Times(q \oplus Shr(q, 7), q \cup Num(61)))
    IN  Raw(<<s>>, g.p, r \oplus Shr(r, 14))
Mulberry32 == [bits |-> 32, safe |-> 32, restoreLE |-> 1,
               seeded |-> {Fresh(<<{0}>>, <<>>)},
               fresh |-> Fresh(<<{}>>, <<>>)]

SplitMix32Next(g) ==
    LET s == g.w[1] ++ Lit(\h9e37, \h79b9)
        q == Times(s \oplus Shr(s, 16), Lit(\h85eb, \hca6b))
        r == Times(q \oplus Shr(q, 13), Lit(\hc2b2, \hae35))
    IN  Raw(<<s>>, g.p, r \oplus Shr(r, 16))
SplitMix32 == [bits |-> 32, safe |-> 32, restoreLE |-> 1,
               seeded |-> {Fresh(<<{0}>>, <<>>)},
               fresh |-> Fresh(<<{}>>, <<>>)]

Sfc32Next(g) ==
    LET t == g.w[1] ++ g.w[2] ++ g.w[4]
    IN  Raw(<<g.w[2] \oplus Shr(g.w[2], 9), g.w[3] ++ Shl(g.w[3], 3),
              Rotl(g.w[3], 21) ++ t, g.w[4] ++ {0}>>, g.p, t)
Sfc32 == [bits |-> 32, safe |-> 32, restoreLE |-> 4,
          seeded |-> {Warmed(Sfc32Next, <<{}, {0}, {1}, {0}>>, 12),
                      Warmed(Sfc32Next, <<{0}, {1}, {2}, {0}>>, 15)},
          fresh |-> Fresh(<<Lit(\h78db, \h9b27), Lit(\hd6ed, \h41f), Lit(\ha362, \hd64d), Lit(\h0, \h10)>>, <<>>)]

\* Words of 16 bits; restore() puts three of the four in order.
Sfc16Next(g) ==
    LET t == H!++(H!++(g.w[1], g.w[2]), g.w[4])
    IN  Raw(<<g.w[2] \oplus Shr(g.w[2], 5), H!++(g.w[3], H!Shl(g.w[3], 3)),
              H!++(H!Rotl(g.w[3], 5), t), H!++(g.w[4], {0})>>, g.p, t)
Sfc16 == [bits |-> 16, safe |-> 16, restoreLE |-> 3,
          seeded |-> {Warmed(Sfc16Next, <<{0}, {1}, {2}, c>>, 10) : c \in {{0}, {3}}},
          fresh |-> Fresh(<<Num(13030), Num(58465), Num(13184), Num(11)>>, <<>>)]

\* restore() puts two of the four words in order.
TycheiNext(g) ==
    LET b1 == Rotl(g.w[2], 25) \oplus g.w[3]
        c1 == g.w[3] -- g.w[4]
        d1 == Rotl(g.w[4], 24) \oplus g.w[1]
        a1 == g.w[1] -- b1
        b2 == Rotl(b1, 20) \oplus c1
        c2 == c1 -- d1
        a2 == a1 -- b2
    IN  Raw(<<a2, b2, c2, Rotl(d1, 16) \oplus a1>>, g.p, a2)
Tychei == [bits |-> 32, safe |-> 32, restoreLE |-> 2,
           seeded |-> {Warmed(TycheiNext, <<{0}, {1}, Lit(\h9e37, \h79b9),
                                      Lit(\h517c, \hc1b7)>>, 20)},
           fresh |-> Fresh(<<Lit(\h8602, \hc089), Lit(\h52a0, \ha3bc), Lit(\h442, \h1f8c), Lit(\hd063, \h494d)>>, <<>>)]

Xoroshiro64Step(g, out) ==
    LET b == g.w[2] \oplus g.w[1]
    IN  Raw(<<Rotl(g.w[1], 26) \oplus b \oplus Shl(b, 9), Rotl(b, 13)>>, g.p, out)
Xoroshiro64 == [bits |-> 32, safe |-> 32, restoreLE |-> 2,
                seeded |-> {Fresh(<<{0}, {1}>>, <<>>)},
                fresh |-> Fresh(<<Lit(\h7b1d, \hcdaf), Lit(\he220, \ha839)>>, <<>>)]
Xoroshiro64sNext(g) == Xoroshiro64Step(g, Times(g.w[1], Lit(\h9e37, \h79bb)))
Xoroshiro64ssNext(g) ==
    Xoroshiro64Step(g, Times(Rotl(Times(g.w[1], Lit(\h9e37, \h79bb)), 5), Num(5)))

\* Xoshiro128p is safe for 24 bits only; the other two for 32.
Xoshiro128Step(g, out) ==
    LET c == g.w[3] \oplus g.w[1]
        d == g.w[4] \oplus g.w[2]
    IN  Raw(<<g.w[1] \oplus d, g.w[2] \oplus c, c \oplus Shl(g.w[2], 9), Rotl(d, 11)>>,
            g.p, out)
Xoshiro128(safe) == [bits |-> 32, safe |-> safe, restoreLE |-> 4,
                     seeded |-> {Fresh(Small, <<>>)},
                     fresh |-> Fresh(<<Lit(\h0, \h35), Lit(\h0, \h765d), Lit(\h1, \h16ff), Lit(\h0, \hc0ab)>>, <<>>)]
Xoshiro128pNext(g) == Xoshiro128Step(g, g.w[1] ++ g.w[4])
Xoshiro128ppNext(g) == Xoshiro128Step(g, Rotl(g.w[1] ++ g.w[4], 7) ++ g.w[1])
Xoshiro128ssNext(g) ==
    Xoshiro128Step(g, Times(Rotl(Times(g.w[2], Num(5)), 7), Num(9)))

Well512Next(g) ==
    LET ptr  == g.p[1]
        prev == (ptr + 15) % 16
        w(i) == g.w[((ptr + i) % 16) + 1]
        b == w(0) \oplus Shl(w(0), 16) \oplus w(13) \oplus Shl(w(13), 15)
        c == w(9) \oplus Shr(w(9), 11)
        a == b \oplus c
        d == a \oplus (Shl(a, 5) \cap Lit(\hda44, \h2d24))
        z == w(15) \oplus b \oplus d \oplus Shl(w(15), 2) \oplus Shl(b, 18) \oplus Shl(c, 28)
    IN  Raw([g.w EXCEPT ![ptr + 1] = a, ![prev + 1] = z], <<prev>>, z)
Well512 == [bits |-> 32, safe |-> 32, restoreLE |-> 16,
            seeded |-> {Fresh([i \in 1..16 |-> {i}], <<0>>)},
            fresh |-> Fresh(
  <<Lit(\hbb40, \he64d), Lit(\h2327, \h87d6), Lit(\h1b93, \h60b7), Lit(\ha698, \hc169), Lit(\h39ea, \hdfa9), Lit(\h2cc4, \h3d21),
    Lit(\h2cab, \ha323), Lit(\h2e96, \he3b4), Lit(\h2502, \h2e16), Lit(\h2fe4, \h2ba6), Lit(\h7e2f, \he4ce), Lit(\h5844, \h356c),
    Lit(\h310e, \hff66), Lit(\h37ef, \h8d0f), Lit(\h1e26, \h3c6d), Lit(\h9727, \h62cc)>>, <<0>>)]

\* Every word of the array in turn, the later ones from words already replaced.
Mixed[a \in Seq(Word) \X (1..(MtN + 1))] ==
    LET s == a[1]
        i == a[2]
        y == (s[i] \cap {31}) \cup (s[(i % MtN) + 1] \ {31})
        m == s[((i + MtM - 1) % MtN) + 1] \oplus Shr(y, 1)
    IN  IF i > MtN THEN s
        ELSE Mixed[<<[s EXCEPT ![i] = IF 0 \in y THEN m \oplus Lit(\h9908, \hb0df) ELSE m],
                     i + 1>>]
Twist(w) == Mixed[<<w, 1>>]

Mt19937Next(g) ==
    LET w == IF g.p[1] >= MtN THEN Twist(g.w) ELSE g.w
        p == IF g.p[1] >= MtN THEN 0 ELSE g.p[1]
        a == w[p + 1] \oplus Shr(w[p + 1], 11)
        b == a \oplus (Shl(a, 7) \cap Lit(\h9d2c, \h5680))
        c == b \oplus (Shl(b, 15) \cap Lit(\hefc6, \h0))
    IN  Raw(w, <<p + 1>>, c \oplus Shr(c, 18))

Mt19937Init(seed) ==
    LET w[i \in 1..MtN] ==
          IF i = 1 THEN seed
          ELSE LET l == w[i - 1]
               IN  Times(Lit(\h6c07, \h8965), l \oplus Shr(l, 30)) ++ Num(i - 1)
    IN  Fresh(Twist([i \in 1..MtN |-> w[i]]), <<0>>)
Mt19937 == [bits |-> 32, safe |-> 32, restoreLE |-> MtN,
            seeded |-> {Mt19937Init({0})},
            fresh |-> Mt19937Init(Num(19650218))]

\* Arc4 keeps its permutation and its two indexes as bytes: p, no words.
Exchange(s, i, j) == [s EXCEPT ![i] = s[j], ![j] = s[i]]

Arc4Next(g) ==
    LET i == (g.p[ArcN + 1] + 1) % ArcN
        j == (g.p[ArcN + 2] + g.p[i + 1]) % ArcN
        s == Exchange(g.p, i + 1, j + 1)
    IN  Raw(<<>>, [s EXCEPT ![ArcN + 1] = i, ![ArcN + 2] = j],
            Num(s[((s[i + 1] + s[j + 1]) % ArcN) + 1]))

Arc4Ksa(key) ==
    LET mixed[i \in 0..ArcN] ==
          IF i = 0 THEN [s |-> [k \in 1..ArcN |-> k - 1], j |-> 0]
          ELSE LET m == mixed[i - 1]
                   j == (m.j + m.s[i] + key[((i - 1) % Len(key)) + 1]) % ArcN
               IN  [s |-> Exchange(m.s, i, j + 1), j |-> j]
    IN  Fresh(<<>>, mixed[ArcN].s \o <<0, 0>>)
Arc4 == [bits |-> 8, safe |-> 8, restoreLE |-> 0,
         seeded |-> {Arc4Ksa(<<1>>), Arc4Ksa([i \in 1..ArcN |-> i - 1])},
         fresh |-> Arc4Ksa(<<\h92, \hca, \h2f, \h0e, \h3c, \hd6, \he3, \hf3,
                             \h1b, \h14, \h7d, \hcc, \h4c, \h08, \h1d, \hbf>>)]

MarsagliaNext(g) ==
    LET s == (g.p[1] \div 10) + 6 * (g.p[1] % 10)
    IN  Raw(<<>>, <<s>>, Num(s % 10))
Marsaglia == [bits |-> 4, safe |-> 3, restoreLE |-> 0,
              seeded |-> {Fresh(<<>>, <<s>>) : s \in {0, 99}},
              fresh |-> Fresh(<<>>, <<23>>)]

\* The second number, the count of digits, is saved as the fifth byte, whatever
\* the platform's order; restore() reads the bytes of both one by one.
MiddleSquareNext(g) ==
    LET n == Val(g.w[2])
        v == ((Val(g.w[1]) * Val(g.w[1])) \div 10^(n \div 2)) % 10^n
    IN  Raw(<<Num(v), g.w[2]>>, g.p, Num(v))
MiddleSquare == [bits |-> 14, safe |-> Undefined, restoreLE |-> 2,
                 seeded |-> {Fresh(<<Num(12), Num(2)>>, <<>>), Fresh(<<Num(12), Num(4)>>, <<>>)},
                 fresh |-> Fresh(<<Num(5772), Num(4)>>, <<>>)]

\* Words: seed, multiplier, increment, modulus; the product is exact, below 2^48.
LOCAL D == INSTANCE Words WITH W <- 64
Remainder(a, m) ==
    LET left[i \in 0..32] ==
          IF i = 32 THEN a
          ELSE LET r == left[i + 1] IN
               IF D!Leq(D!Shl(m, i), r) THEN D!--(r, D!Shl(m, i)) ELSE r
    IN  left[0]
McgNext(g) ==
    LET s == Remainder(D!++(D!Times(g.w[1], g.w[2]), g.w[3]), g.w[4])
    IN  Raw(<<s, g.w[2], g.w[3], g.w[4]>>, g.p, Shr(s, g.p[1]))
Mcg(seed, mul, add, mod, shift) ==
    [bits |-> 31 - shift, safe |-> Undefined, restoreLE |-> 4,
     seeded |-> {Fresh(<<{1}, mul, add, mod>>, <<shift>>)},
     fresh |-> Fresh(<<seed, mul, add, mod>>, <<shift>>)]
Lehmer(mul) == Mcg({0}, mul, {}, Lit(\h7fff, \hffff), 0)
Mcg16807 == Lehmer(Num(16807))
Mcg48271 == Lehmer(Num(48271))
Mcg69621 == Lehmer(Num(69621))
McgRandu == Mcg({0}, Num(65539), {}, {31}, 0)
\* newMsvc() shifts by 0, seedMsvc() by 16.
McgMsvc == Mcg({0}, Num(214013), Num(2531011), {31}, 0)
McgMsvcSeeded == Mcg({0, 5}, Num(214013), Num(2531011), {31}, 16)
=============================================================================
