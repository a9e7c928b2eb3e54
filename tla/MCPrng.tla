------------------------------- MODULE MCPrng -------------------------------
(***************************************************************************)
(* Every class of src/prng by name, some once for each of their seeded     *)
(* forms: what each is made of, and its rawNext(); on small permutations   *)
(* and twisters.                                                           *)
(***************************************************************************)
EXTENDS Prng, Prng64

Generators == [
    XorShift32 |-> XorShift32, XorShift128 |-> XorShift128, Gjrand32b |-> Gjrand32b,
    Mulberry32 |-> Mulberry32, SplitMix32 |-> SplitMix32, Sfc32 |-> Sfc32, Sfc16 |-> Sfc16,
    Tychei |-> Tychei, Xoroshiro64s |-> Xoroshiro64, Xoroshiro64ss |-> Xoroshiro64,
    Xoshiro128p |-> Xoshiro128(24), Xoshiro128pp |-> Xoshiro128(32),
    Xoshiro128ss |-> Xoshiro128(32), Well512 |-> Well512, Mt19937 |-> Mt19937,
    Arc4 |-> Arc4, Marsaglia |-> Marsaglia, MiddleSquare |-> MiddleSquare, Mcg16807 |-> Mcg16807,
    Mcg48271 |-> Mcg48271, Mcg69621 |-> Mcg69621, McgRandu |-> McgRandu,
    McgMsvc |-> McgMsvc, McgMsvcSeeded |-> McgMsvcSeeded, XorShift64 |-> XorShift64, SplitMix64 |-> SplitMix64,
    XorShift128p |-> XorShift128p, XorShift128pV8 |-> XorShift128pV8,
    Xoroshiro128p |-> Xoroshiro128p, Xoroshiro128p_2016 |-> Xoroshiro128p_2016,
    Xoroshiro128pp |-> Xoroshiro128pp, Xoroshiro128ss |-> Xoroshiro128ss,
    Xoshiro256p |-> Xoshiro256p, Xoshiro256pp |-> Xoshiro256pp, Xoshiro256ss |-> Xoshiro256ss,
    Gjrand64 |-> Gjrand64, Sfc64 |-> Sfc64, Pcg32 |-> Pcg32, Pcg64 |-> Pcg64]

nextOf(k, g) ==
    CASE k = "XorShift32" -> XorShift32Next(g)
      [] k = "XorShift128" -> XorShift128Next(g)
      [] k = "Gjrand32b" -> Gjrand32bNext(g)
      [] k = "Mulberry32" -> Mulberry32Next(g)
      [] k = "SplitMix32" -> SplitMix32Next(g)
      [] k = "Sfc32" -> Sfc32Next(g)
      [] k = "Sfc16" -> Sfc16Next(g)
      [] k = "Tychei" -> TycheiNext(g)
      [] k = "Xoroshiro64s" -> Xoroshiro64sNext(g)
      [] k = "Xoroshiro64ss" -> Xoroshiro64ssNext(g)
      [] k = "Xoshiro128p" -> Xoshiro128pNext(g)
      [] k = "Xoshiro128pp" -> Xoshiro128ppNext(g)
      [] k = "Xoshiro128ss" -> Xoshiro128ssNext(g)
      [] k = "Well512" -> Well512Next(g)
      [] k = "Mt19937" -> Mt19937Next(g)
      [] k = "Arc4" -> Arc4Next(g)
      [] k = "Marsaglia" -> MarsagliaNext(g)
      [] k = "MiddleSquare" -> MiddleSquareNext(g)
      [] k \in {"Mcg16807", "Mcg48271", "Mcg69621", "McgRandu", "McgMsvc", "McgMsvcSeeded"} -> McgNext(g)
      [] k = "XorShift64" -> XorShift64Next(g)
      [] k = "SplitMix64" -> SplitMix64Next(g)
      [] k = "XorShift128p" -> XorShift128pNext(g)
      [] k = "XorShift128pV8" -> XorShift128pV8Next(g)
      [] k = "Xoroshiro128p" -> Xoroshiro128pNext(g)
      [] k = "Xoroshiro128p_2016" -> Xoroshiro128p_2016Next(g)
      [] k = "Xoroshiro128pp" -> Xoroshiro128ppNext(g)
      [] k = "Xoroshiro128ss" -> Xoroshiro128ssNext(g)
      [] k = "Xoshiro256p" -> Xoshiro256pNext(g)
      [] k = "Xoshiro256pp" -> Xoshiro256ppNext(g)
      [] k = "Xoshiro256ss" -> Xoshiro256ssNext(g)
      [] k = "Gjrand64" -> Gjrand64Next(g)
      [] k = "Sfc64" -> Sfc64Next(g)
      [] k = "Pcg32" -> Pcg32Next(g)
      [] k = "Pcg64" -> Pcg64Next(g)
-----------------------------------------------------------------------------
AllKinds == DOMAIN Generators
\* fillBytes() of the other classes does not return: see MCPrngFill.
Defined == AllKinds \ {"MiddleSquare", "Mcg16807", "Mcg48271", "Mcg69621", "McgRandu",
                       "McgMsvc", "McgMsvcSeeded"}
SizesSmall == {0, 3, 9}
=============================================================================
