-------------------------------- MODULE Ascon --------------------------------
(***************************************************************************)
(* src/crypto/sym/Ascon.ts: the sponge, the AEAD and the hash.  A cell     *)
(* stands for four bytes: the state has ten, a rate of 8 or 16 bytes is    *)
(* two or four, a key four or five, a tag four.  The permutation is ideal: *)
(* what it leaves in a cell is named by all that was xored in before it.   *)
(*                                                                         *)
(* A byte is a set of atoms, so that xor is symmetric difference: {} is 0, *)
(* {Mark} is 0x80, and {Key(i)}, {Left(perm, i)} are unknown to all but    *)
(* who computed them.                                                      *)
(***************************************************************************)
EXTENDS Integers, Sequences

Size == 10
TagAt == 6
Cells == 0..(Size - 1)

Atom(n) == [perm |-> <<>>, at |-> n]
Mark == Atom(0)
One == Atom(-1)
Key(i) == Atom(-10 - i)
Left(perm, i) == [perm |-> perm, at |-> i]
Xor(a, b) == (a \ b) \cup (b \ a)

\* The classes: rate, the rounds between blocks, the length of the key.
Ascon128 == [name |-> "Ascon128", rate |-> 2, a |-> 12, b |-> 6, key |-> 4]
Ascon128a == [name |-> "Ascon128a", rate |-> 4, a |-> 12, b |-> 8, key |-> 4]
Ascon80pq == [name |-> "Ascon80pq", rate |-> 2, a |-> 12, b |-> 6, key |-> 5]
AsconHash == [name |-> "AsconHash", rate |-> 2, a |-> 12, b |-> 12]
AsconHashA == [name |-> "AsconHashA", rate |-> 2, a |-> 12, b |-> 8]
AsconXof == [name |-> "AsconXof", rate |-> 2, a |-> 12, b |-> 12]
AsconXofA == [name |-> "AsconXofA", rate |-> 2, a |-> 12, b |-> 8]

\* The state: what p() left, what was xored in since, and _sPos.
Clear == [i \in Cells |-> {}]
p(s, rounds) == [s EXCEPT !.perm = Append(@, [cells |-> s.cells, rounds |-> rounds]),
                         !.cells = Clear, !.pos = 0]
ByteOf(s, i) == Xor({Left(s.perm, i)}, s.cells[i])

\* `this.state[at + i] ^= bytes[i]`: past the end of the state a typed array takes nothing.
XorAt(s, at, bytes) ==
    [s EXCEPT !.cells = [i \in Cells |-> IF i >= at /\ i < at + Len(bytes)
                                         THEN Xor(@[i], bytes[i - at + 1]) ELSE @[i]]]
\* The same at _sPos, which moves on.
XorIn(s, bytes) == [XorAt(s, s.pos, bytes) EXCEPT !.pos = @ + Len(bytes)]
\* `this.state.set(bytes)`
SetAtStart(s, bytes) ==
    [s EXCEPT !.cells = [i \in Cells |-> IF i < Len(bytes)
                                         THEN Xor({Left(s.perm, i)}, bytes[i + 1]) ELSE @[i]]]

Keys(c) == [i \in 1..c.key |-> {Key(i)}]
Sub(q, from, to) == SubSeq(q, from + 1, IF to > Len(q) THEN Len(q) ELSE to)

NewState(c) == [perm |-> <<[cells |-> Clear, rounds |-> c.name]>>, cells |-> Clear, pos |-> 0]

\* The object: `stage` is one of init, ad, data, done.
NewAead(c) ==
    [class |-> c, stage |-> "init", s |-> XorAt(NewState(c), Size - c.key, Keys(c))]

\* writeAD(): whole blocks from _sPos on, whatever is there already, then the rest.
Blocks(s, data, rate, rounds) ==
    LET F[k \in 0..(Len(data) \div rate)] ==
            IF k = 0 THEN s
            ELSE LET t == F[k - 1]
                 IN  p(XorIn(t, Sub(data, (k - 1) * rate, k * rate)), rounds)
    IN  F[Len(data) \div rate]
writeAD(o, data) ==
    LET rate == o.class.rate
        s == Blocks(o.s, data, rate, o.class.b)
    IN  [o EXCEPT !.stage = "ad", !.s = XorIn(s, Sub(data, (Len(data) \div rate) * rate, Len(data)))]

\* Mutant of finalizeAD: no domain separator
finalizeADUnseparated(o) ==
    IF o.stage \notin {"init", "ad"} THEN o
    ELSE [o EXCEPT !.stage = "data",
                   !.s = IF o.stage = "ad" THEN p(XorAt(o.s, o.s.pos, <<{Mark}>>), o.class.b)
                         ELSE o.s]
finalizeAD(o) ==
    IF o.stage \notin {"init", "ad"} THEN o
    ELSE LET s == IF o.stage = "ad" THEN p(XorAt(o.s, o.s.pos, <<{Mark}>>), o.class.b) ELSE o.s
         IN  [o EXCEPT !.stage = "data", !.s = XorAt(s, Size - 1, <<{One}>>)]

Put(to, at, bytes) ==
    [i \in 1..Len(to) |-> IF i > at /\ i <= at + Len(bytes) THEN bytes[i - at] ELSE to[i]]
Read(s, n) == [i \in 1..(IF n > Size THEN Size ELSE n) |-> ByteOf(s, i - 1)]
Room(s, rate) == IF s.pos < rate THEN rate - s.pos ELSE 0

\* encryptInto(), into zeros: the first block goes on at _sPos; what is written of
\* it starts with the whole rate; the last `set` throws if that is before enc[0].
encryptInto(obj, plain) ==
    LET o == finalizeAD(obj)
        rate == o.class.rate
        n == Len(plain) \div rate
        F[k \in 0..n] ==
            IF k = 0 THEN [s |-> o.s, at |-> 0, enc |-> [i \in 1..Len(plain) |-> {}]]
            ELSE LET t == F[k - 1]
                     to == t.at + Room(t.s, rate)
                     s == XorIn(t.s, Sub(plain, t.at, to))
                 IN  [s |-> p(s, o.class.b), at |-> to, enc |-> Put(t.enc, (k - 1) * rate, Read(s, rate))]
        last == XorIn(F[n].s, Sub(plain, F[n].at, Len(plain)))
        start == Len(plain) - last.pos
    IN  IF F[n].at = Len(plain) THEN [o |-> [o EXCEPT !.s = F[n].s], out |-> F[n].enc, ok |-> TRUE]
        ELSE [o |-> [o EXCEPT !.s = last], ok |-> start >= 0,
              out |-> IF start < 0 THEN F[n].enc ELSE Put(F[n].enc, start, Read(last, last.pos))]

\* decryptInto(), into an array of the length of enc or (`same`) into enc itself:
\* the bytes of a block that were read go to the start of the state.
Turned(s, bytes) == [i \in 1..Len(bytes) |->
                        IF s.pos + i > Size THEN bytes[i] ELSE Xor(ByteOf(s, s.pos + i - 1), bytes[i])]
decryptInto(obj, enc, same) ==
    LET o == finalizeAD(obj)
        rate == o.class.rate
        n == Len(enc) \div rate
        Took(t, to) ==
            LET plain == Put(t.plain, t.at, Turned(t.s, Sub(enc, t.at, to)))
            IN  [plain |-> plain, at |-> to,
                 s |-> [SetAtStart(t.s, Sub(IF same THEN plain ELSE enc, t.at, to))
                           EXCEPT !.pos = @ + to - t.at]]
        F[k \in 0..n] ==
            IF k = 0 THEN [s |-> o.s, at |-> 0, plain |-> enc]
            ELSE LET t == F[k - 1]
                     u == Took(t, t.at + Room(t.s, rate))
                 IN  [u EXCEPT !.s = p(u.s, o.class.b)]
        last == IF F[n].at < Len(enc) THEN Took(F[n], Len(enc)) ELSE F[n]
    IN  [o |-> [o EXCEPT !.s = last.s], out |-> last.plain, ok |-> TRUE]

\* finalize(), and what verify() compares with.
finalize(obj) ==
    LET o == finalizeAD(obj)
        s == p(XorAt(XorAt(o.s, o.s.pos, <<{Mark}>>), o.class.rate, Keys(o.class)), o.class.a)
        t == XorAt(s, Size - 4, Sub(Keys(o.class), o.class.key - 4, o.class.key))
    IN  [o |-> [o EXCEPT !.stage = "done", !.s = t],
         tag |-> [i \in 1..(Size - TagAt) |-> ByteOf(t, TagAt + i - 1)]]

\* The hash: write() takes the whole rate off its count for a block it only filled up.
NewHash(c) == [class |-> c, s |-> NewState(c)]
\* Mutant of hashWrite: the rest is taken off only while a block's worth is left
hashWriteLate(o, data) ==
    [o EXCEPT !.s = XorIn(Blocks(o.s, data, o.class.rate, o.class.b),
                          Sub(data, (Len(data) \div o.class.rate) * o.class.rate, Len(data)))]
hashWrite(o, data) ==
    LET rate == o.class.rate
        F[k \in 0..(Len(data) + 1)] ==
            IF k = 0 THEN [s |-> o.s, left |-> Len(data), need |-> rate - o.s.pos, at |-> 0]
            ELSE LET t == F[k - 1]
                     to == t.at + Room(t.s, rate)
                 IN  IF t.left < t.need THEN t
                     ELSE [s |-> p(XorIn(t.s, Sub(data, t.at, to)), o.class.b),
                           left |-> t.left - rate, need |-> rate, at |-> to]
        done == F[Len(data) + 1]
    IN  [o EXCEPT !.s = XorIn(done.s, Sub(data, done.at, Len(data)))]
hashSumIn(o) == [o EXCEPT !.s = p(XorAt(o.s, o.s.pos, <<{Mark}>>), o.class.a)]
=============================================================================
