------------------------------ MODULE Numbers -------------------------------
(***************************************************************************)
(* The integers of src/primitive/number.  First AInt: integers of several  *)
(* limbs, kept in a window of an array that other integers may have their  *)
(* windows in, and changed in place one limb at a time, in the order of    *)
(* the code's loops.  The array is a function m from positions to limbs of *)
(* 2*H bits; the code has H = 16.  A window is its first position p and    *)
(* its length n.                                                           *)
(*                                                                         *)
(* Then U64, I64, U128 and their siblings in use: numbers whose windows    *)
(* lie in one Uint32Array, maybe the same window, maybe overlapping ones,  *)
(* since mount() shares memory.  A method of a Mut class changes its own   *)
(* window in place; the method of the same name of the other classes works *)
(* on a copy.  What the last call worked on and what came out is kept.     *)
(***************************************************************************)
EXTENDS Integers, Sequences

CONSTANT H
ASSUME HAssumption == H \in Nat \ {0}

\* 2 to the power k
Two(k) == LET two[i \in 0..k] == IF i = 0 THEN 1 ELSE 2 * two[i - 1] IN two[k]

\* a[0] + ... + a[k - 1]
SumTo(a, k) == LET sum[i \in 0..k] == IF i = 0 THEN 0 ELSE sum[i - 1] + a[i - 1] IN sum[k]

Half == Two(H)
Base == Half * Half
Bits(n) == 2 * H * n
Limb == 0..(Base - 1)

\* The limb and its bits; every operator of JavaScript cuts to a limb.
BitOf(x, i) == (x \div Two(i)) % 2
Cut(x) == x % Base
Shl(x, k) == Cut(x * Two(k % (2 * H)))
Shr(x, k) == x \div Two(k % (2 * H))
Signed(x) == IF x >= Base \div 2 THEN x - Base ELSE x

Mixed(x, y, f) == SumTo([i \in 0..(2 * H - 1) |-> Two(i) * f[BitOf(x, i)][BitOf(y, i)]], 2 * H)
XorBit == [a \in 0..1 |-> [b \in 0..1 |-> (a + b) % 2]]
OrBit == [a \in 0..1 |-> [b \in 0..1 |-> IF a + b > 0 THEN 1 ELSE 0]]
AndBit == [a \in 0..1 |-> [b \in 0..1 |-> a * b]]

\* m with F[i][m] put at p + i, for each i of a sequence in turn; the i from 0
\* to k - 1, or from f down to t.
Mem(m) == [DOMAIN m -> Limb]
InTurn(m, p, order, F) ==
    LET done[j \in 0..Len(order)] ==
          IF j = 0 THEN m
          ELSE LET l == done[j - 1] IN [l EXCEPT ![p + order[j]] = F[order[j]][l]]
    IN  done[Len(order)]
Upward(m, p, k, F) == InTurn(m, p, [j \in 1..k |-> j - 1], F)
Downward(m, p, f, t, F) ==
    InTurn(m, p, IF t > f THEN <<>> ELSE [j \in 1..(f - t + 1) |-> f + 1 - j], F)
filled(m, x, from, to) == [k \in DOMAIN m |-> IF k \in from..(to - 1) THEN x ELSE m[k]]
reversed(m, from, to) ==
    [k \in DOMAIN m |-> IF k \in from..(to - 1) THEN m[from + to - 1 - k] ELSE m[k]]
-----------------------------------------------------------------------------
setValue(m, p, q, n) ==
    Upward(m, p, n, [i \in 0..(n - 1) |-> [l \in Mem(m) |-> l[q + i]]])
setZero(m, p, n) == filled(m, 0, p, p + n)

xorEq(m, p, q, n) ==
    Upward(m, p, n, [i \in 0..(n - 1) |-> [l \in Mem(m) |-> Mixed(l[p + i], l[q + i], XorBit)]])
orEq(m, p, q, n) ==
    Upward(m, p, n, [i \in 0..(n - 1) |-> [l \in Mem(m) |-> Mixed(l[p + i], l[q + i], OrBit)]])
andEq(m, p, q, n) ==
    Upward(m, p, n, [i \in 0..(n - 1) |-> [l \in Mem(m) |-> Mixed(l[p + i], l[q + i], AndBit)]])
notEq(m, p, n) ==
    Upward(m, p, n, [i \in 0..(n - 1) |-> [l \in Mem(m) |-> Base - 1 - l[p + i]]])

Smaller(a, b) == IF a < b THEN a ELSE b
byPos(by, n) == Smaller(by \div (2 * H), n)
\* What crosses from the next limb; nothing when limbs move whole (zeroRshift).
CrossingUp(x, by) ==
    LET by32 == by % (2 * H) IN IF by32 = 0 THEN 0 ELSE Shr(x, 2 * H - by32)
CrossingDown(x, by) ==
    LET by32 == by % (2 * H) IN IF by32 = 0 THEN 0 ELSE Shl(x, 2 * H - by32)

\* Mutant of lShiftEq: zeros from the start of the array, not of the window
lShiftEqFromStart(m, p, n, by) ==
    LET b == byPos(by, n)
        F == [i \in (b + 1)..(n - 1) |->
                [l \in Mem(m) |->
                   Mixed(Shl(l[p + i - b], by), CrossingUp(l[p + i - 1 - b], by), OrBit)]]
        high == Downward(m, p, n - 1, b + 1, F)
    IN  IF b = n THEN filled(high, 0, 0, p + n)
        ELSE filled([high EXCEPT ![p + b] = Shl(high[p], by)], 0, 0, p + b)
lShiftEq(m, p, n, by) ==
    LET b == byPos(by, n)
        F == [i \in (b + 1)..(n - 1) |->
                [l \in Mem(m) |->
                   Mixed(Shl(l[p + i - b], by), CrossingUp(l[p + i - 1 - b], by), OrBit)]]
        high == Downward(m, p, n - 1, b + 1, F)
    IN  IF b = n THEN filled(high, 0, p, p + n)
        ELSE filled([high EXCEPT ![p + b] = Shl(high[p], by)], 0, p, p + b)

\* top is what comes in at the top: 0, or all ones (written -1 in the code).
rShiftEq(m, p, n, by, top) ==
    LET b == byPos(by, n)
        Above(l, i) == IF i = n - b - 1 THEN top ELSE l[p + i + b + 1]
        F == [i \in 0..(n - b - 1) |->
                [l \in Mem(m) |->
                   Mixed(Shr(l[p + i + b], by), CrossingDown(Above(l, i), by), OrBit)]]
    IN  filled(Upward(m, p, n - b, F), top, p + n - b, p + n)

\* Mutant of lRotEq: the last limb takes its bits from the one already shifted
lRotEqLate(m, p, n, by) ==
    LET b == (by \div (2 * H)) % n
        moved == reversed(reversed(reversed(m, p, p + n), p, p + b), p + b, p + n)
        F == [i \in 1..(n - 1) |->
                [l \in Mem(m) |-> Mixed(Shl(l[p + i], by), CrossingUp(l[p + i - 1], by), OrBit)]]
        high == Downward(moved, p, n - 1, 1, F)
    IN  [high EXCEPT ![p] = Mixed(Shl(high[p], by), CrossingUp(high[p + n - 1], by), OrBit)]
lRotEq(m, p, n, by) ==
    LET b == (by \div (2 * H)) % n
        moved == reversed(reversed(reversed(m, p, p + n), p, p + b), p + b, p + n)
        back == moved[p + n - 1]
        F == [i \in 1..(n - 1) |->
                [l \in Mem(m) |-> Mixed(Shl(l[p + i], by), CrossingUp(l[p + i - 1], by), OrBit)]]
        high == Downward(moved, p, n - 1, 1, F)
    IN  [high EXCEPT ![p] = Mixed(Shl(high[p], by), CrossingUp(back, by), OrBit)]
\* A negative amount is one of 32 bits: a multiple of every width away.
rRotEq(m, p, n, by) == lRotEq(m, p, n, (Bits(n) - by) % Bits(n))
-----------------------------------------------------------------------------
\* The carry, or the borrow as -1, goes from limb to limb.
Carried(m, p, n, S) ==
    LET upTo[i \in 0..n] ==
          IF i = 0 THEN [m |-> m, c |-> 0]
          ELSE LET l == upTo[i - 1]
                   s == S[i - 1][l.m] + l.c
               IN  [m |-> [l.m EXCEPT ![p + i - 1] = Cut(s)], c |-> s \div Base]
    IN  upTo[n].m
addEq(m, p, q, n) ==
    Carried(m, p, n, [i \in 0..(n - 1) |-> [l \in Mem(m) |-> l[p + i] + l[q + i]]])
subEq(m, p, q, n) ==
    Carried(m, p, n, [i \in 0..(n - 1) |-> [l \in Mem(m) |-> l[p + i] - l[q + i]]])

\* One is added up to the first limb that does not overflow.
negEq(m, p, n) ==
    LET not == notEq(m, p, n)
        stop == {i \in 0..(n - 1) : not[p + i] # Base - 1}
        upTo == IF stop = {} THEN n - 1 ELSE CHOOSE i \in stop : \A j \in stop : i <= j
    IN  Upward(not, p, upTo + 1, [i \in 0..upTo |-> [l \in Mem(m) |-> Cut(l[p + i] + 1)]])

\* Half limbs, the low one of each limb first.
HalfOf(m, p, k) == IF k % 2 = 0 THEN m[p + (k \div 2)] % Half ELSE m[p + (k \div 2)] \div Half
Paired(h, n) == [i \in 0..(n - 1) |-> h[2 * i] + Half * h[2 * i + 1]]

\* Column k of the long multiplication and the carry into it.
mul(m, p, q, n) ==
    LET column(k) == SumTo([i \in 0..k |-> HalfOf(m, p, i) * HalfOf(m, q, k - i)], k + 1)
        sum[k \in 0..(2 * n - 1)] ==
          column(k) + (IF k = 0 THEN 0 ELSE sum[k - 1] \div Half)
    IN  Paired([k \in 0..(2 * n - 1) |-> sum[k] % Half], n)

\* The remainder is moved up by `<< 16`, which cuts it to a signed limb; the
\* quotients, cut to a half limb, are rounded to zero.
Quotient(x, o) == (IF x >= 0 THEN x \div o ELSE -((-x) \div o)) % Half
Remainder(x, o) == IF x >= 0 THEN x % o ELSE -((-x) % o)
div32(m, p, n, o) ==
    LET rem[j \in 0..(2 * n)] ==       \* what reaches the half limb after j, from the top
          IF j = 0 THEN 0
          ELSE Signed(Cut(Remainder(rem[j - 1] + HalfOf(m, p, 2 * n - j), o) * Half))
    IN  Paired([k \in 0..(2 * n - 1) |->
                  Quotient(rem[2 * n - 1 - k] + HalfOf(m, p, k), o)], n)
-----------------------------------------------------------------------------
\* Mutant of Decisive: the lowest limb in which they differ
DecisiveLow(m, p, q, n) ==
    LET diff == {i \in 0..(n - 1) : m[p + i] # m[q + i]}
    IN  IF diff = {} THEN 0 ELSE CHOOSE i \in diff : \A j \in diff : i <= j
\* The limb that decides is the highest in which they differ, or the lowest.
Decisive(m, p, q, n) ==
    LET diff == {i \in 0..(n - 1) : m[p + i] # m[q + i]}
    IN  IF diff = {} THEN 0 ELSE CHOOSE i \in diff : \A j \in diff : j <= i
eq(m, p, q, n) == \A i \in 0..(n - 1) : m[p + i] = m[q + i]
gt(m, p, q, n) == LET i == Decisive(m, p, q, n) IN m[p + i] > m[q + i]
gte(m, p, q, n) == LET i == Decisive(m, p, q, n) IN m[p + i] >= m[q + i]
lt(m, p, q, n) == LET i == Decisive(m, p, q, n) IN m[p + i] < m[q + i]
lte(m, p, q, n) == LET i == Decisive(m, p, q, n) IN m[p + i] <= m[q + i]

\* I64: the sign decides first.
negative(m, p, n) == m[p + n - 1] >= Base \div 2
signedGt(m, p, q, n) ==
    IF negative(m, p, n) # negative(m, q, n) THEN negative(m, q, n) ELSE gt(m, p, q, n)
signedLt(m, p, q, n) ==
    IF negative(m, p, n) # negative(m, q, n) THEN negative(m, p, n) ELSE lt(m, p, q, n)

\* Constant time, half limb by half limb: the sign bits of the differences.
ctNone(m, p, q, n) ==
    \A k \in 0..(2 * n - 1) : HalfOf(m, p, k) - HalfOf(m, q, k) - 1 < 0
ctGt(m, p, q, n) == ~ctNone(m, p, q, n)
ctGte(m, p, q, n) == ctNone(m, q, p, n)
ctLt(m, p, q, n) == ~ctNone(m, q, p, n)
ctLte(m, p, q, n) == ctNone(m, p, q, n)

\* U32.average: `-` of a signed limb and an unsigned one.
average(x, y) == Signed(Mixed(x, y, OrBit)) - Mixed(x, y, XorBit) \div 2
-----------------------------------------------------------------------------
\* Builders.  A number of up to 52 bits fills two limbs, the second rounded
\* down; a set fills as many as it has, the signed one the rest with its sign.
fromInt(x, n) ==
    [i \in 0..(n - 1) |-> IF i = 0 THEN Cut(x)
                         ELSE IF i = 1 THEN Cut(x \div Base) ELSE 0]
fromSet(ns, n) == [i \in 0..(n - 1) |-> IF i < Len(ns) THEN Cut(ns[i + 1]) ELSE 0]
fromSignedSet(ns, n) ==
    [i \in 0..(n - 1) |-> IF i < Len(ns) THEN Cut(ns[i + 1])
                         ELSE IF ns # <<>> /\ ns[Len(ns)] < 0 THEN Base - 1 ELSE 0]

\* The bytes of a window, two halves to a limb, on a little-endian platform (a
\* big-endian one reverses each limb first, asLE and asBE): low half first.
Backward(b, n) == [k \in 0..(2 * n - 1) |-> b[2 * n - 1 - k]]
fromBytesBE(b, n) == Paired(Backward(b, n), n)
fromBytesLE(b, n) == Paired(b, n)
\* Mutant of toBytesLE: the limbs from the highest, each in little-endian order
toBytesLEMixed(m, p, n) == [k \in 0..(2 * n - 1) |-> HalfOf(m, p, 2 * (n - 1 - (k \div 2)) + (k % 2))]
toBytesLE(m, p, n) == [k \in 0..(2 * n - 1) |-> HalfOf(m, p, k)]
toBytesBE(m, p, n) == Backward(toBytesLE(m, p, n), n)
-----------------------------------------------------------------------------
CONSTANTS Size,      \* limbs of the array
          Limbs32,   \* limbs of a number: how many U32 has, and so on, by the
                     \*   name of the class; bounds stand for the longer ones
          Samples,   \* values of a limb that the array may hold
          Amounts,   \* what shifts and rotations move by
          Divisors,  \* of divEq32()
          Ints,      \* given to the builders
          NoCall       \* no call yet

Sizes32 == {"U32", "U64", "U128", "U256", "U512"}
ASSUME NumbersAssumption ==
    /\ Size \in Nat
    /\ Limbs32 \in [Sizes32 -> Nat \ {0}] /\ Limbs32["U32"] = 1
    /\ Samples \subseteq Limb
    /\ Amounts \subseteq Nat
    /\ Divisors \subseteq Limb \ {0}
    \* the code's safe integers have 53 bits and a sign, two limbs 64
    /\ Ints \subseteq -(Base * Base)..(Base * Base - 1)

VARIABLES mem, kind, last
nVars == <<mem, kind, last>>
-----------------------------------------------------------------------------
\* A class: its size, and its methods; those of a Mut class work in place.
Binary == {"xor", "or", "and", "add", "sub", "mul", "set"}
Moving == {"lShift", "rShift", "signedRShift", "lRot", "rRot"}
Unary == {"not", "abs", "zero"}
IUint == {"lShift", "rShift", "lRot", "rRot", "xor", "or", "and", "not", "add", "sub", "mul"}
IInt == (IUint \ {"rShift"}) \cup {"signedRShift", "abs"}
Class(size, mut, signed, methods) ==
    [size |-> size, mut |-> mut, signed |-> signed, methods |-> methods]

U32 == Class("U32", FALSE, FALSE, IUint)
U32Mut == Class("U32", TRUE, FALSE, IUint \cup {"set", "zero"})
U64 == Class("U64", FALSE, FALSE, IUint)
U64Mut == Class("U64", TRUE, FALSE, IUint \cup {"set", "zero", "div"})
I64 == Class("U64", FALSE, TRUE, IInt)
I64Mut == Class("U64", TRUE, TRUE, IInt \cup {"set", "zero"})
U128 == Class("U128", FALSE, FALSE, IUint)
U128Mut == Class("U128", TRUE, FALSE, IUint \cup {"set", "zero"})
U256 == Class("U256", FALSE, FALSE, IUint)
U512 == Class("U512", FALSE, FALSE, IUint)
Classes == [U32 |-> U32, U32Mut |-> U32Mut, U64 |-> U64, U64Mut |-> U64Mut, I64 |-> I64,
            I64Mut |-> I64Mut, U128 |-> U128, U128Mut |-> U128Mut, U256 |-> U256, U512 |-> U512]

Limbs == Limbs32[Classes[kind].size]
Windows == 0..(Size - Limbs)

\* The unsigned number of a window.
Value(m, p, k) == SumTo([i \in 0..(k - 1) |-> Two(Bits(i)) * m[p + i]], k)
AsSigned(x, k) == IF x >= Two(Bits(k) - 1) THEN x - Two(Bits(k)) ELSE x

Over(m, p, window) == [k \in DOMAIN m |-> IF k \in p..(p + Limbs - 1) THEN window[k - p] ELSE m[k]]

\* U32 has one limb and none of AInt's loops.
U32Called(op, x, y, by) ==
    CASE op = "xor" -> Mixed(x, y, XorBit)
      [] op = "or" -> Mixed(x, y, OrBit)
      [] op = "and" -> Mixed(x, y, AndBit)
      [] op = "not" -> Base - 1 - x
      [] op = "add" -> Cut(x + y)
      [] op = "sub" -> Cut(x - y)
      [] op = "mul" -> Cut(x * y)
      [] op = "set" -> y
      [] op = "zero" -> 0
      [] op = "lShift" -> IF by \div (2 * H) = 0 THEN Shl(x, by) ELSE 0
      [] op = "rShift" -> IF by \div (2 * H) = 0 THEN Shr(x, by) ELSE 0
      [] op = "lRot" -> Mixed(Shl(x, by), CrossingUp(x, by), OrBit)
      [] op = "rRot" -> Mixed(Shr(x, by), CrossingDown(x, by), OrBit)

\* m after the method op of the number at p.
Called(op, m, p, q, by) ==
    CASE op = "xor" -> xorEq(m, p, q, Limbs)
      [] op = "or" -> orEq(m, p, q, Limbs)
      [] op = "and" -> andEq(m, p, q, Limbs)
      [] op = "not" -> notEq(m, p, Limbs)
      [] op = "add" -> addEq(m, p, q, Limbs)
      [] op = "sub" -> subEq(m, p, q, Limbs)
      [] op = "mul" -> Over(m, p, mul(m, p, q, Limbs))
      [] op = "div" -> Over(m, p, div32(m, p, Limbs, by))
      [] op = "set" -> setValue(m, p, q, Limbs)
      [] op = "zero" -> setZero(m, p, Limbs)
      [] op = "abs" -> IF negative(m, p, Limbs) THEN negEq(m, p, Limbs) ELSE m
      [] op = "lShift" -> lShiftEq(m, p, Limbs, by)
      [] op = "rShift" -> rShiftEq(m, p, Limbs, by, 0)
      [] op = "signedRShift" ->
           rShiftEq(m, p, Limbs, by, IF negative(m, p, Limbs) THEN Base - 1 ELSE 0)
      [] op = "lRot" -> lRotEq(m, p, Limbs, by)
      [] op = "rRot" -> rRotEq(m, p, Limbs, by)
-----------------------------------------------------------------------------
NInit == /\ mem \in [0..(Size - 1) -> Samples]
         /\ kind \in DOMAIN Classes
         /\ last = NoCall

Recorded(op, p, q, by, got) ==
    [op |-> op, x |-> Value(mem, p, Limbs), y |-> Value(mem, q, Limbs), by |-> by,
     got |-> got, p |-> p, q |-> q, before |-> mem]

\* A method of a Mut class: the array itself is changed.
InPlace(op, p, q, by) ==
    /\ Classes[kind].mut
    /\ mem' = IF kind = "U32Mut" THEN [mem EXCEPT ![p] = U32Called(op, @, mem[q], by)]
              ELSE Called(op, mem, p, q, by)
    /\ last' = Recorded(op, p, q, by, Value(mem', p, Limbs))
    /\ UNCHANGED kind

\* The method of an immutable class: on a copy of the window, elsewhere.
WithCopy(p) == [k \in 0..(Size + Limbs - 1) |-> IF k < Size THEN mem[k] ELSE mem[p + k - Size]]
Pure(op, p, q, by) ==
    /\ ~Classes[kind].mut
    /\ last' = Recorded(op, p, q, by, IF kind = "U32" THEN U32Called(op, mem[p], mem[q], by)
                                      ELSE Value(Called(op, WithCopy(p), Size, q, by), Size, Limbs))
    /\ UNCHANGED <<mem, kind>>

\* A number built from what a caller gives, fromI32s() from one number.  That of the
\* unsigned classes fills up with zeros, that of the others, and of every Mut class,
\* with the sign of the number as it was given.
FillsWithSign == Classes[kind].mut \/ Classes[kind].signed
Build(op, x) ==
    LET built == IF op = "fromInt" THEN fromInt(x, Limbs)
                 ELSE IF FillsWithSign THEN fromSignedSet(<<x>>, Limbs)
                 ELSE fromSet(<<x>>, Limbs)
    IN  /\ Classes[kind].size = "U32" => op = "fromInt" /\ x \in 0..(Base - 1)
        /\ last' = Recorded(op, 0, 0, x, Value(built, 0, Limbs))
        /\ UNCHANGED <<mem, kind>>

Step(op, p, q, by) == op \in Classes[kind].methods /\ (InPlace(op, p, q, by) \/ Pure(op, p, q, by))
NNext ==
    /\ last = NoCall
    /\ \/ \E p, q \in Windows, op \in Binary : Step(op, p, q, 0)
       \/ \E p \in Windows, by \in Amounts, op \in Moving : Step(op, p, p, by)
       \/ \E p \in Windows, op \in Unary : Step(op, p, p, 0)
       \/ \E p \in Windows, by \in Divisors : Step("div", p, p, by)
       \/ \E x \in Ints, op \in {"fromInt", "fromI32s"} : Build(op, x)

NSpec == NInit /\ [][NNext]_nVars
-----------------------------------------------------------------------------
\* What each method promises, in plain arithmetic modulo the number's range.
Wrapped(x) == x % Two(Bits(Limbs))
BitsOf(x) == {i \in 0..(Bits(Limbs) - 1) : BitOf(x, i) = 1}
Promised(op, x, y, by) ==
    LET w == Bits(Limbs) IN
    CASE op = "add" -> Wrapped(x + y)
      [] op = "sub" -> Wrapped(x - y)
      [] op = "mul" -> Wrapped(x * y)
      [] op = "div" -> x \div by
      [] op = "set" -> y
      [] op = "zero" -> 0
      [] op = "fromInt" -> Wrapped(by)
      [] op = "fromI32s" -> IF Classes[kind].signed THEN Wrapped(Signed(Cut(by))) ELSE Cut(by)
      [] op = "not" -> Two(w) - 1 - x
      [] op = "abs" -> IF x >= Two(w - 1) THEN Two(w) - x ELSE x
      [] op = "lShift" -> Wrapped(x * Two(by))
      [] op = "rShift" -> x \div Two(by)
      [] op = "signedRShift" -> Wrapped(AsSigned(x, Limbs) \div Two(by))
      [] op = "lRot" -> Wrapped(x * Two(by % w)) + x \div Two(w - (by % w))
      [] op = "rRot" -> x \div Two(by % w) + Wrapped(x * Two(w - (by % w)))

Apart(p, q) == p = q \/ p + Limbs <= q \/ q + Limbs <= p

\* The limbs that fromI32s() is not given: the docs have zeros for the unsigned classes
\* (U64.ts:273, U128.ts:210) and the top bit of the last limb for the signed ones
\* (I64.ts:31); the code goes by the sign of the raw number (_AInt.ts:54).
OnesPromised(x) == Classes[kind].signed /\ Cut(x) >= Base \div 2
OnesFilled(x) == FillsWithSign /\ x < 0

\* Carries, borrows and bits cross the limbs: every method gives the number of
\* ordinary arithmetic modulo 2 to the width, whatever the limbs, the amount
\* (whole limbs, the width and more included) and also when a number is its own
\* operand.  Four cases are left out, each by a disjunct.  In place the windows
\* must not overlap in part.  A divisor's remainders must stay positive when they are
\* moved up as int32.  A negative fromInt() fills two limbs only, which are not all of
\* a U128.  And fromI32s() keeps its docs only where what it fills with is what they
\* say: U64Mut and U128Mut fill with ones after a negative number, where the docs say
\* "Assumes unspecified values are 0"; I64 does not after a positive one of 2^31 or
\* more (0xffffffff), whose "MSB" is set, and does after a negative one whose cut has
\* that bit clear.
ArithmeticRight ==
    last # NoCall =>
      \/ Classes[kind].mut /\ ~Apart(last.p, last.q)
      \/ last.op = "div" /\ last.by > Half \div 2
      \/ last.op = "fromInt" /\ last.by < 0 /\ Limbs > 2
      \/ last.op = "fromI32s" /\ OnesPromised(last.by) # OnesFilled(last.by)
      \/ IF last.op \in {"xor", "or", "and"}
         THEN BitsOf(last.got) =
                CASE last.op = "xor" -> (BitsOf(last.x) \cup BitsOf(last.y))
                                          \ (BitsOf(last.x) \cap BitsOf(last.y))
                  [] last.op = "or" -> BitsOf(last.x) \cup BitsOf(last.y)
                  [] last.op = "and" -> BitsOf(last.x) \cap BitsOf(last.y)
         ELSE last.got = Promised(last.op, last.x, last.y, last.by)

\* What a method does to its window it does to nothing else in the array.
OthersKept ==
    last # NoCall => \A k \in 0..(Size - 1) :
        k \in last.p..(last.p + Limbs - 1) \/ mem[k] = last.before[k]

\* The comparisons order unsigned and signed numbers as their values, and the
\* average of two limbs, rounded up, is right though their sum would not fit.  Of
\* the constant time ones that say "at most" only this holds: what they say is so.
OrderRight ==
    \A p, q \in Windows :
      LET x == Value(mem, p, Limbs)  y == Value(mem, q, Limbs) IN
      /\ gt(mem, p, q, Limbs) <=> x > y
      /\ gte(mem, p, q, Limbs) <=> x >= y
      /\ lt(mem, p, q, Limbs) <=> x < y
      /\ lte(mem, p, q, Limbs) <=> x <= y
      /\ eq(mem, p, q, Limbs) <=> x = y
      /\ signedGt(mem, p, q, Limbs) <=> AsSigned(x, Limbs) > AsSigned(y, Limbs)
      /\ signedLt(mem, p, q, Limbs) <=> AsSigned(x, Limbs) < AsSigned(y, Limbs)
      /\ ctLte(mem, p, q, Limbs) => x <= y
      /\ ctGte(mem, p, q, Limbs) => x >= y
      /\ x > y => ctGt(mem, p, q, Limbs)
      /\ x < y => ctLt(mem, p, q, Limbs)
      /\ Cut(average(mem[p], mem[q])) = (mem[p] + mem[q] + 1) \div 2

\* A number written as bytes is read back from them, in both orders, and the
\* big-endian ones read as one number in the order people write; on a platform
\* whose own order is little-endian.
BytesRight ==
    \A p \in Windows :
      LET w == [i \in 0..(Limbs - 1) |-> mem[p + i]]
          be == toBytesBE(mem, p, Limbs)
      IN  /\ Value(mem, p, Limbs) =
               SumTo([k \in 0..(2 * Limbs - 1) |-> Two(H * k) * be[2 * Limbs - 1 - k]], 2 * Limbs)
          /\ fromBytesBE(be, Limbs) = w
          /\ fromBytesLE(toBytesLE(mem, p, Limbs), Limbs) = w
=============================================================================
