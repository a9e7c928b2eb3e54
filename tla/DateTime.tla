------------------------------ MODULE DateTime ------------------------------
(***************************************************************************)
(* A date and time of src/datetime on its way: DateTimeLocal and           *)
(* DateTimeUtc over DateTimeShared, DateOnly beside them.  Durations are   *)
(* added and taken away, it is serialized, written and parsed, turned into *)
(* numbers and back; beside it goes the instant it should denote, in the   *)
(* Gregorian calendar and plain arithmetic.                                *)
(*                                                                         *)
(* First come DurationExact (days and smaller) and Duration (years and     *)
(* months too) of src/datetime/Duration.ts.  The largest, 134117046 days   *)
(* or 367200 years in the code, is a constant; a month is 720 parts.  The  *)
(* parts new() is given may be fractions: years, days, hours, minutes and  *)
(* seconds are given in quarters here, months in MonthParts.               *)
(***************************************************************************)
EXTENDS Dates, TLC
LOCAL W32 == INSTANCE Words WITH W <- 32

CONSTANTS Starts,      \* the dates and times it begins with
          ExactParts,  \* the parts of the DurationExacts that are added
          SpanParts,   \* the parts of the Durations that are added
          LongParts,   \* of Durations of centuries, added to Durations only
          DayCounts,   \* what DateOnly.addSafe() is given
          MonthCounts, \* what DateOnly.add() is given, <<years, months>>
          Layouts,     \* spaces before, spaces after and what follows the window
          MaxDays, MaxYears,  \* the largest durations
          MaxSteps
ASSUME MaximaAssumption == MaxDays \in Nat /\ MaxYears \in Nat

VARIABLES at,       \* the DateTime
          due,      \* the instant it should denote
          from,     \* the DateTime it began with
          added, taken,  \* the exact durations added to it and taken from it
          total,    \* the Duration of all that was added
          sound,    \* no operation so far was one that the code gets wrong
          steps
vars == <<at, due, from, added, taken, total, sound, steps>>
-----------------------------------------------------------------------------
MonthParts == 2000
monthFrac == 720
mfPerYear == 12 * monthFrac
hPerCD == daysPerCD * 24

DurationDays == [bits |-> 27, zero |-> 0]
SpanDays     == [bits |-> 19, zero |-> 0]
SpanMonths   == [bits |-> 32, zero |-> 0]
-----------------------------------------------------------------------------
\* _loadHISU() and the classes' own fields, at the width of their bytes.
loadHISU(h, i, s, u) == [h |-> h % 256, i |-> i % 256, s |-> s % 256, u |-> u % 2^24]
loadDHISU(d, us) ==
    [d |-> d] @@ loadHISU(us \div usPerHour, (us \div usPerMin) % 60, (us \div usPerSec) % 60,
                          us % usPerSec)
loadYMfDHISU(y, mf, d, us) == [y |-> y % 2^24, mf |-> mf % 2^16] @@ loadDHISU(d % 2^24, us)

\* _dh_misu(): hours with those of the days, microseconds of the hour.
dh(du) == du.d * 24 + du.h
misu(du) == du.i * usPerMin + du.s * usPerSec + du.u
ymf(dv) == dv.y * mfPerYear + dv.mf

partsToUs(parts) ==
    ((parts.h * usPerHour + parts.i * usPerMin + parts.s * usPerSec + 2) \div 4) + parts.us
RoundedDay(quarters) == ((quarters % 4) * usPerDay + 2) \div 4

\* DurationExact.new(): days above the largest are refused before hours and
\* smaller are rolled up into them, and only the largest itself after that.
exactNew(parts) ==
    LET us == partsToUs(parts) + RoundedDay(parts.d)
        d == parts.d \div 4 + us \div usPerDay
    IN  IF parts.d > 4 * MaxDays \/ (d = MaxDays /\ us % usPerDay > 0) THEN Thrown
        ELSE loadDHISU(d, us % usPerDay)
exactFromUs(days, us) == IF days > MaxDays THEN Thrown ELSE loadDHISU(days, us)

NoParts == [y |-> 0, m |-> 0, d |-> 0, h |-> 0, i |-> 0, s |-> 0, us |-> 0]
maxE == loadDHISU(MaxDays, 0)
zeroE == loadDHISU(0, 0)

exactGt(a, b) == \/ a.d > b.d
                 \/ a.d = b.d /\ timeValueOf(a) > timeValueOf(b)
exactValid(de) == de.d <= MaxDays /\ timeValid(de) /\ ~exactGt(de, maxE)

exactAdd(a, b) ==
    LET over == misu(a) + misu(b) >= usPerHour
        hours == dh(a) + dh(b) + (IF over THEN 1 ELSE 0)
        us == misu(a) + misu(b) - (IF over THEN usPerHour ELSE 0)
    IN  IF hours >= MaxDays * 24 THEN maxE
        ELSE loadDHISU(hours \div 24, (hours % 24) * usPerHour + us)

exactSub(a, b) ==
    LET under == misu(a) < misu(b)
        hours == dh(a) - dh(b) - (IF under THEN 1 ELSE 0)
        us == misu(a) - misu(b) + (IF under THEN usPerHour ELSE 0)
    IN  IF hours < 0 THEN zeroE
        ELSE loadDHISU(hours \div 24, (hours % 24) * usPerHour + us)
-----------------------------------------------------------------------------
\* Duration.new(): a whole number of 400 years is taken out of the days.
spanNew(parts) ==
    LET us == partsToUs(parts) + RoundedDay(parts.d)
        days == parts.d + 4 * (us \div usPerDay)
        cd == IF days > 4 * daysPerCD THEN days \div (4 * daysPerCD) ELSE 0
        d == days - 4 * cd * daysPerCD
        m == parts.y * 3 * MonthParts + parts.m + cd * 4800 * MonthParts
        max == MaxYears * 12 * MonthParts
        mf == ((m % (12 * MonthParts)) * monthFrac + MonthParts \div 2) \div MonthParts
    IN  IF \/ parts.y > 4 * MaxYears \/ m > max
           \/ m = max /\ (d > 0 \/ us % usPerDay > 0) THEN Thrown
        ELSE loadYMfDHISU(m \div (12 * MonthParts), mf, d \div 4, us % usPerDay)
maxV == loadYMfDHISU(MaxYears, 0, 0, 0)
zeroV == loadYMfDHISU(0, 0, 0, 0)

spanValid(dv) == dv.y <= MaxYears /\ dv.mf < mfPerYear /\ dv.d < daysPerCD /\ timeValid(dv)
spanGt(a, b) == \/ a.y > b.y
                \/ a.y = b.y /\ (a.mf > b.mf \/ (a.mf = b.mf /\ exactGt(a, b)))

\* What is added to or taken from a Duration may be a DurationExact.
MonthsOf(du) == IF "y" \in DOMAIN du THEN ymf(du) ELSE 0

spanAdd(a, b) ==
    LET over == misu(a) + misu(b) >= usPerHour
        hours == dh(a) + dh(b) + (IF over THEN 1 ELSE 0)
        us == misu(a) + misu(b) - (IF over THEN usPerHour ELSE 0)
        cd == IF hours >= hPerCD THEN 1 ELSE 0
        months == ymf(a) + MonthsOf(b) + cd * 400 * mfPerYear
        rest == hours - cd * hPerCD
    IN  IF months >= MaxYears * mfPerYear THEN maxV
        ELSE loadYMfDHISU(months \div mfPerYear, months % mfPerYear, rest \div 24,
                          (rest % 24) * usPerHour + us)

\* Mutant of spanSub: the 400 years borrowed for days stay
spanSubKeepsYears(a, b) ==
    LET under == misu(a) < misu(b)
        hours == dh(a) - dh(b) - (IF under THEN 1 ELSE 0)
        us == misu(a) - misu(b) + (IF under THEN usPerHour ELSE 0)
        cd == IF hours < 0 THEN 1 ELSE 0
        months == ymf(a) - MonthsOf(b)
        rest == hours + cd * hPerCD
    IN  IF months < 0 THEN zeroV
        ELSE loadYMfDHISU(months \div mfPerYear, months % mfPerYear, Trunc(rest, 24),
                          Rem(rest, 24) * usPerHour + us)
spanSub(a, b) ==
    LET under == misu(a) < misu(b)
        hours == dh(a) - dh(b) - (IF under THEN 1 ELSE 0)
        us == misu(a) - misu(b) + (IF under THEN usPerHour ELSE 0)
        cd == IF hours < 0 THEN 1 ELSE 0
        months == ymf(a) - MonthsOf(b) - cd * 400 * mfPerYear
        rest == hours + cd * hPerCD
    IN  IF months < 0 THEN zeroV
        ELSE loadYMfDHISU(months \div mfPerYear, months % mfPerYear, Trunc(rest, 24),
                          Rem(rest, 24) * usPerHour + us)
-----------------------------------------------------------------------------
serHISU(bw, du) ==
    pushPart(pushPart(pushPart(pushPart(bw, Hour, du.h), Minute, du.i), Second, du.s),
             Microsecond, du.u)
deserHISU(br) ==
    LET h == readPart(br, Hour)
        i == readPart(h.br, Minute)
        s == readPart(i.br, Second)
        u == readPart(s.br, Microsecond)
    IN  [br |-> u.br, time |-> loadHISU(h.v, i.v, s.v, u.v)]

serExact(bw, de) == serHISU(pushPart(bw, DurationDays, de.d), de)
deserExact(br) ==
    LET d == readPart(br, DurationDays)
        t == deserHISU(d.br)
    IN  [br |-> t.br, du |-> [d |-> d.v] @@ t.time]

serSpan(bw, dv) == serHISU(pushPart(pushPart(bw, SpanMonths, ymf(dv)), SpanDays, dv.d), dv)
deserSpan(br) ==
    LET ym == readPart(br, SpanMonths)
        d == readPart(ym.br, SpanDays)
        t == deserHISU(d.br)
    IN  [br |-> t.br,
         du |-> [y |-> ym.v \div mfPerYear, mf |-> ym.v % mfPerYear, d |-> d.v] @@ t.time]
-----------------------------------------------------------------------------
DatePart(dt) == [y |-> dt.y, m |-> dt.m, d |-> dt.d]
TimePart(dt) == [h |-> dt.h, i |-> dt.i, s |-> dt.s, u |-> dt.u]
-----------------------------------------------------------------------------
\* The reference: Gregorian leap years, days counted year by year.
Gregorian(y) == y % 4 = 0 /\ (y % 100 = 0 => y % 400 = 0)
LeapsBefore(y) == (y - 1) \div 4 - (y - 1) \div 100 + (y - 1) \div 400
MonthDays(y, m) == IF m = 2 THEN IF Gregorian(y) THEN 29 ELSE 28
                   ELSE IF m \in {4, 6, 9, 11} THEN 30 ELSE 31
DaysBefore(y, m) == LET before[k \in 1..12] == IF k = 1 THEN 0
                                              ELSE before[k - 1] + MonthDays(y, k - 1)
                    IN  before[m]
DayNumber(y, m, d) ==
    365 * (y - 1970) + LeapsBefore(y) - LeapsBefore(1970) + DaysBefore(y, m) + d - 1
Instant(dt) == [days |-> DayNumber(dt.y, dt.m, dt.d), us |-> timeToUs(dt)]
\* hours may be negative, us is less than an hour
Later(t, hours, us) ==
    LET all == t.us + (hours % 24) * usPerHour + us
    IN  [days |-> t.days + hours \div 24 + all \div usPerDay, us |-> all % usPerDay]
Before(s, t) == s.days < t.days \/ (s.days = t.days /\ s.us < t.us)
-----------------------------------------------------------------------------
addDe(dt, de) ==
    LET miso == (timeToUs(dt) % usPerHour) + misu(de)
        over == miso >= usPerHour
        hours == toUnixDays(dt) * 24 + dt.h + dh(de) + (IF over THEN 1 ELSE 0)
        us == (IF over THEN miso - usPerHour ELSE miso) + Rem(hours, 24) * usPerHour
    IN  wTimeOf(us) @@ dateFromUnixDays(Trunc(hours, 24), FALSE)

subDe(dt, de) ==
    LET miso == (timeToUs(dt) % usPerHour) - misu(de)
        under == miso < 0
        hours == dt.h + toUnixDays(dt) * 24 - dh(de) - (IF under THEN 1 ELSE 0)
        us == (IF under THEN miso + usPerHour ELSE miso) + Rem(hours, 24) * usPerHour
    IN  wTimeOf(us) @@ dateFromUnixDays(Trunc(hours, 24), FALSE)

\* Hours since the first of a month, or since the day before it.
MonthHours == [y : Int, m : 0..12, hours : Int]

\* The days are counted from 1, the loop leaves them below dim * 24 + 23 hours.
Rolled[q \in MonthHours] ==
    LET dim == lastDay(q.m, q.y) IN
    IF q.hours < dim * 24 + 23 THEN q
    ELSE Rolled[[y |-> IF q.m = 12 THEN q.y + 1 ELSE q.y, m |-> IF q.m = 12 THEN 1 ELSE q.m + 1,
                 hours |-> q.hours - dim * 24]]

\* Months are floats, here in monthFracs: a fraction of December is above 12.
addDv(dt, dv) ==
    LET mfs == dt.m * monthFrac + dv.mf
        over == mfs > 12 * monthFrac
        y == dt.y + dv.y + (IF over THEN 1 ELSE 0)
        mf == IF over THEN mfs - 12 * monthFrac ELSE mfs
        m == mf \div monthFrac
        dim == lastDay(m, y)
        d == (IF dt.d > dim THEN dim ELSE dt.d) + (dim * (mf % monthFrac)) \div monthFrac
        miso == (timeToUs(dt) % usPerHour) + misu(dv)
        hours == d * 24 + dt.h + dh(dv) + (IF miso >= usPerHour THEN 1 ELSE 0)
        end == Rolled[[y |-> y, m |-> m, hours |-> hours]]
    IN  wTimeOf((miso % usPerHour) + (end.hours % 24) * usPerHour)
        @@ wDate(end.y, end.m, end.hours \div 24)

Unrolled[q \in MonthHours] ==
    IF q.hours >= 0 THEN q
    ELSE LET y == IF q.m = 1 THEN q.y - 1 ELSE q.y
             m == IF q.m = 1 THEN 12 ELSE q.m - 1
         IN  Unrolled[[y |-> y, m |-> m, hours |-> q.hours + lastDay(m, y) * 24]]

\* Below January the fraction is turned round after Math.ceil() has used it.
subDv(dt, dv) ==
    LET mfs == dt.m * monthFrac - dv.mf
        ceil == -((-mfs) \div monthFrac)
        under == ceil < 1
        y == dt.y - dv.y - (IF under THEN 1 ELSE 0)
        m == IF under THEN ceil + 12 ELSE ceil
        frac == IF under THEN -Rem(mfs, monthFrac) ELSE Rem(mfs, monthFrac)
        dim == lastDay(m, y)
        d == (IF dt.d > dim THEN dim ELSE dt.d)
             - (IF frac > 0 THEN (dim * (monthFrac - frac)) \div monthFrac ELSE 0)
        miso == (timeToUs(dt) % usPerHour) - misu(dv)
        hours == dt.h + (d - 1) * 24 - dh(dv) - (IF miso < 0 THEN 1 ELSE 0)
        end == Unrolled[[y |-> y, m |-> m, hours |-> hours]]
    IN  wTimeOf((miso % usPerHour) + (end.hours % 24) * usPerHour)
        @@ wDate(end.y, end.m, 1 + end.hours \div 24)

\* cmp(): three little-endian words of the bytes, the latter first.
\* Mutant of CmpWords: the words read big-endian
CmpWordsBE(dt) == <<dt.y - Year.zero, (dt.i * 256 + dt.h) * 2^16 + (dt.d - 1) * 256 + dt.m - 1,
                    dt.u * 256 + dt.s>>
CmpWords(dt) == <<dt.y - Year.zero, ((dt.m - 1) * 256 + dt.d - 1) * 2^16 + dt.h * 256 + dt.i,
                  dt.s * 2^24 + dt.u>>
cmpGt(a, b) ==
    \E k \in 1..3 : CmpWords(a)[k] > CmpWords(b)[k]
                    /\ \A j \in 1..(k - 1) : CmpWords(a)[j] = CmpWords(b)[j]

\* diff() and diffExact(): the fields are subtracted, each borrows from the next.
\* Mutant of Borrowed: the hours borrow nothing from the days
BorrowedNoDay(lt, erl) ==
    LET us == lt.u - erl.u
        s == lt.s - erl.s - (IF us < 0 THEN 1 ELSE 0)
        i == lt.i - erl.i - (IF s < 0 THEN 1 ELSE 0)
        h == lt.h - erl.h - (IF i < 0 THEN 1 ELSE 0)
    IN  [us |-> us % usPerSec, s |-> s % 60, i |-> i % 60, h |-> h % 24, day |-> 0]
Borrowed(lt, erl) ==
    LET us == lt.u - erl.u
        s == lt.s - erl.s - (IF us < 0 THEN 1 ELSE 0)
        i == lt.i - erl.i - (IF s < 0 THEN 1 ELSE 0)
        h == lt.h - erl.h - (IF i < 0 THEN 1 ELSE 0)
    IN  [us |-> us % usPerSec, s |-> s % 60, i |-> i % 60, h |-> h % 24, day |-> IF h < 0 THEN 1 ELSE 0]

\* Mutant of diffParts: a day is borrowed from the later month
diffPartsLater(lt, erl) ==
    LET t == Borrowed(lt, erl)
        days == lt.d - erl.d - t.day
        m == lt.m - erl.m - (IF days < 0 THEN 1 ELSE 0)
        d == IF days < 0 THEN days + lastDay(lt.m, lt.y) ELSE days
        y == lt.y - erl.y - (IF m < 0 THEN 1 ELSE 0)
    IN  [y |-> 4 * y, m |-> MonthParts * (m % 12), d |-> 4 * d,
         h |-> 4 * t.h, i |-> 4 * t.i, s |-> 4 * t.s, us |-> t.us]
diffParts(lt, erl) ==
    LET t == Borrowed(lt, erl)
        days == lt.d - erl.d - t.day
        m == lt.m - erl.m - (IF days < 0 THEN 1 ELSE 0)
        d == IF days < 0 THEN days + lastDay(erl.m, erl.y) ELSE days
        y == lt.y - erl.y - (IF m < 0 THEN 1 ELSE 0)
    IN  [y |-> 4 * y, m |-> MonthParts * (m % 12), d |-> 4 * d,
         h |-> 4 * t.h, i |-> 4 * t.i, s |-> 4 * t.s, us |-> t.us]
diffExactParts(lt, erl) ==
    LET t == Borrowed(lt, erl)
    IN  [y |-> 0, m |-> 0, d |-> 4 * (toUnixDays(lt) - toUnixDays(erl) - t.day),
         h |-> 4 * t.h, i |-> 4 * t.i, s |-> 4 * t.s, us |-> t.us]
diff(a, b) == spanNew(IF cmpGt(b, a) THEN diffParts(b, a) ELSE diffParts(a, b))
diffExact(a, b) == exactNew(IF cmpGt(b, a) THEN diffExactParts(b, a) ELSE diffExactParts(a, b))
-----------------------------------------------------------------------------
Init == /\ at \in Starts /\ from = at /\ due = Instant(at)
        /\ added = zeroE /\ taken = zeroE /\ total = zeroV
        /\ sound = TRUE /\ steps = 0

\* Years of 16 bits: add() and sub() past them are not checked.
InYears(t) == t.days \in DayNumber(Year.least, 1, 1)..DayNumber(Year.most, 12, 31)

Valid(dt) == ~Failed(dt) /\ vetDate(dt.y, dt.m, dt.d) /\ vetTime(dt.h, dt.i, dt.s, dt.u)

Turn(dt, t, clean) ==
    /\ at' = dt /\ due' = t
    /\ sound' = (sound /\ clean /\ InYears(t)) /\ steps' = steps + 1

\* Below 1970 the hours since the epoch are negative: hazards.
AddExact(p) ==
    LET de == exactNew(p)
        t == Later(due, p.d * 6, (p.h * usPerHour + p.i * usPerMin + p.s * usPerSec) \div 4 + p.us)
    IN  /\ ~Failed(de)
        /\ Turn(addDe(at, de), t, t.days >= 0)
        /\ added' = exactAdd(added, de) /\ total' = spanAdd(total, de)
        /\ UNCHANGED <<from, taken>>

SubExact(p) ==
    LET de == exactNew(p)
        t == Later(due, -p.d * 6, -((p.h * usPerHour + p.i * usPerMin + p.s * usPerSec) \div 4 + p.us))
    IN  /\ ~Failed(de)
        /\ Turn(subDe(at, de), t, t.days >= 0)
        /\ taken' = exactAdd(taken, de) /\ total' = spanSub(total, de)
        /\ UNCHANGED <<from, added>>

\* The comment on add(): years and whole months, the day corrected down, the
\* fraction in days of that month, the rest exactly; sub() the same backwards.
Whole(dt, months) ==
    LET all == dt.y * 12 + dt.m - 1 + months
        y == all \div 12
        m == (all % 12) + 1
    IN  [y |-> y, m |-> m, d |-> IF dt.d > MonthDays(y, m) THEN MonthDays(y, m) ELSE dt.d]
FractionDays(w, dv) == (MonthDays(w.y, w.m) * (dv.mf % monthFrac)) \div monthFrac
LastHour(t) == t.us >= 23 * usPerHour
               /\ dateFromUnixDays(t.days + 1, FALSE).d = 1

AddSpan(p) ==
    LET dv == spanNew(p)
        w == Whole(at, dv.y * 12 + dv.mf \div monthFrac)
        t == Later([days |-> DayNumber(w.y, w.m, w.d) + FractionDays(w, dv), us |-> timeToUs(at)],
                   dh(dv), misu(dv))
    IN  /\ ~Failed(dv)
        /\ Turn(addDv(at, dv), t,
                ~LastHour(t) /\ ~(at.m = 12 - dv.mf \div monthFrac /\ dv.mf % monthFrac > 0))
        /\ total' = spanAdd(total, dv) /\ from' = at'
        /\ added' = zeroE /\ taken' = zeroE

SubSpan(p) ==
    LET dv == spanNew(p)
        w == Whole(at, -(dv.y * 12 + dv.mf \div monthFrac))
        t == Later([days |-> DayNumber(w.y, w.m, w.d) - FractionDays(w, dv), us |-> timeToUs(at)],
                   -dh(dv), -misu(dv))
    IN  /\ ~Failed(dv)
        /\ Turn(subDv(at, dv), t,
                dv.mf % monthFrac \in {0, monthFrac \div 2} \/ at.m > dv.mf \div monthFrac)
        /\ total' = spanSub(total, dv) /\ from' = at'
        /\ added' = zeroE /\ taken' = zeroE

\* DateOnly, the time of day apart.
AddDays(n) ==
    /\ Turn(TimePart(at) @@ addSafe(DatePart(at), n), [due EXCEPT !.days = @ + n], TRUE)
    /\ from' = at' /\ added' = zeroE /\ taken' = zeroE /\ UNCHANGED total

AddMonths(c) ==
    LET w == Whole(at, c[1] * 12 + c[2])
    IN  /\ Turn(TimePart(at) @@ addDate(at, c[1], c[2]),
                [due EXCEPT !.days = DayNumber(w.y, w.m, w.d)],
                at.m + Rem(c[1] * 12 + c[2], 12) \in 1..12)
        /\ from' = at' /\ added' = zeroE /\ taken' = zeroE /\ UNCHANGED total
-----------------------------------------------------------------------------
Same(dt, clean) == Turn(dt, due, clean) /\ UNCHANGED <<from, added, taken, total>>

\* serialize() after some bits of something else, and deserialize().
Bits(skip) ==
    LET bw == skipBits(Mounted([i \in 1..9 |-> {}]), skip)
        date == deserDate([serTime(serDate(bw, at), at) EXCEPT !.ptr = skip \div 8, !.bit = skip % 8])
    IN  Same(date.date @@ deserTime(date.br).time, TRUE)

\* valueOf() and fromValue(), of years that are not negative.
Value == /\ at.y >= 0
         /\ LET date == dateFromValue(dateValueOf(at))
                time == timeFromValue(timeValueOf(at))
            IN  Same(Both(date, time), TRUE)

\* toUnixTimeMs() and fromUnixTimeMs().
Unix == LET t == [days |-> toUnixDays(at), us |-> timeToUs(at)]
        IN  Same(timeFromUnixTimeUs(t) @@ dateFromUnixTime(t), t.days >= 0 \/ t.us = 0)

\* toString() and valueOf(), parsed from a window with something round it.  A Z
\* is found only in a window that starts at the first character.
Framed(text, l) ==
    LET spaces(n) == [i \in 1..n |-> " "]
    IN  Window(spaces(l.before) \o text \o spaces(l.after) \o l.next, 0,
               l.before + Len(text) + l.after)
Text(l, strict) ==
    \/ Same(parseLocal(Framed(dateIso(at, <<"-">>) \o <<"T">> \o timeIso(at, <<":">>, <<".">>), l),
                       strict), TRUE)
    \/ Same(parseUtc(Framed(dateIso(at, <<"-">>) \o <<"T">> \o timeIso(at, <<":">>, <<".">>)
                            \o <<"Z">>, l), strict), l.before = 0)
    \/ Same(parseUtc(Framed(dateIso(at, <<>>) \o timeIso(at, <<>>, <<>>), l), strict), TRUE)
    \/ Same(Both(parseDateOnly(Framed(dateIso(at, <<"-">>), l), strict),
                 parseTimeOnly(Framed(timeIso(at, <<>>, <<>>), l), strict)), TRUE)

\* TimeOnlyMs drops what is below a millisecond.
TimeMs == [h |-> at.h, i |-> at.i, s |-> at.s, ms |-> at.u \div usPerMs]
FromMs(tm) == [h |-> tm.h, i |-> tm.i, s |-> tm.s, u |-> tm.ms * usPerMs]
ToMs(tm, clean) ==
    /\ Turn(IF Failed(tm) THEN tm ELSE FromMs(tm) @@ DatePart(at),
            [due EXCEPT !.us = @ - (@ % usPerMs)], clean)
    /\ from' = at' /\ added' = zeroE /\ taken' = zeroE /\ UNCHANGED total
Milliseconds ==
    \/ ToMs(timeMsFromUnixTimeUs([days |-> toUnixDays(at), us |-> timeToUs(at)]),
            toUnixDays(at) >= 0)
    \/ ToMs(timeMsFromValue(timeMsValueOf(TimeMs)), TRUE)
    \/ ToMs(deserTimeMs(Mounted(serTimeMs(Mounted([k \in 1..4 |-> {}]), TimeMs).buff)).time, TRUE)
    \/ \E l \in Layouts, strict \in BOOLEAN :
         ToMs(parseTimeOnlyMs(Framed(partIso(Hour, at.h) \o <<":">> \o partIso(Minute, at.i) \o <<":">>
                                     \o partIso(Second, at.s) \o <<".">>
                                     \o partIso(Millisecond, TimeMs.ms), l), strict), TRUE)

\* What is not a date and time is not used further.
Next == /\ steps < MaxSteps /\ Valid(at)
        /\ \/ \E p \in ExactParts : AddExact(p) \/ SubExact(p)
           \/ \E p \in SpanParts : AddSpan(p) \/ SubSpan(p)
           \/ \E n \in DayCounts : AddDays(n)
           \/ \E c \in MonthCounts : AddMonths(c)
           \/ \E skip \in {0, 3} : Bits(skip)
           \/ Value \/ Unix \/ Milliseconds
           \/ \E l \in Layouts, strict \in BOOLEAN : Text(l, strict)

Spec == Init /\ [][Next]_vars
-----------------------------------------------------------------------------
\* However a date and time came about, by adding and subtracting durations, days
\* and months, in bits, numbers and text and back, it denotes the instant that
\* the Gregorian calendar and plain arithmetic give, unless an operation was one
\* of those that the hazards name.
KeepsTime == sound => Valid(at) /\ Instant(at) = due

\* diffExact() of a walk is the sum of the durations added less the sum of those
\* taken away, whatever fields they carried through, up to the largest.
ElapsedAddsUp ==
    (sound /\ exactGt(maxE, added) /\ exactGt(maxE, taken))
    => diffExact(at, from) = IF exactGt(taken, added) THEN exactSub(taken, added)
                             ELSE exactSub(added, taken)

\* diff() leads back: added to the earlier date or taken from the later it gives
\* the other one, where no day needs correcting for a short month.
DiffLeadsBack ==
    \A other \in Starts :
      (sound /\ at.d <= 28 /\ other.d <= 28) =>
        LET lt == IF cmpGt(at, other) THEN at ELSE other
            erl == IF cmpGt(at, other) THEN other ELSE at
            dv == diff(at, other)
        IN  Failed(dv) \/ addDv(erl, dv) = lt \/ subDv(lt, dv) = erl

\* The comparisons read the bytes as three words: they order dates and times as
\* the instants are ordered, also around years that are negative or beyond 9999.
CmpIsChronological ==
    sound => \A other \in Starts : cmpGt(at, other) <=> Before(Instant(other), due)

\* Durations are kept in range, come back from the bits they are serialized in,
\* and sub() undoes add(), whatever carries from microseconds to hours and from
\* days to 400 years, short of the largest.
InBits(ser(_, _), deser(_), du, bytes) ==
    deser(Mounted(ser(Mounted([i \in 1..bytes |-> {}]), du).buff)).du = du
DurationsKept ==
    /\ exactValid(added) /\ exactValid(taken) /\ spanValid(total)
    /\ InBits(serExact, deserExact, added, 8) /\ InBits(serSpan, deserSpan, total, 11)
    /\ exactFromUs(added.d, added.h * usPerHour + misu(added)) = added
    /\ \A p \in ExactParts :
         LET de == exactNew(p) IN
         Failed(de) \/ exactAdd(added, de) = maxE \/ exactSub(exactAdd(added, de), de) = added
    /\ \A p \in SpanParts \cup LongParts :
         LET dv == spanNew(p)
             sum == spanAdd(total, dv)
         IN  Failed(dv) \/ sum = maxV \/ (~spanGt(total, sum) /\ spanSub(sum, dv) = total)

\* What add() and sub() return is a date and time that validate() accepts (dt.ts:3565),
\* as the last day of February four years on is in the doc of add() (dt.ts:3612).
AddedIsValid == dateValid(at) /\ timeValid(at)
=============================================================================
