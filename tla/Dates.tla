-------------------------------- MODULE Dates --------------------------------
(***************************************************************************)
(* The calendar of src/datetime/dt.ts: the components of a date and time   *)
(* and the bytes they are kept in, the conversions to and from days and    *)
(* microseconds, DateOnly, TimeOnly and TimeOnlyMs.                        *)
(*                                                                         *)
(* A second is 10^MicroDigits microseconds and 10^MilliDigits milliseconds *)
(* here; every other unit is the code's.  An instant is the number of days *)
(* since 1970-01-01 with the microseconds of that day, so that no number   *)
(* passes 2^31; the code has one float, whose % keeps the sign.            *)
(***************************************************************************)
EXTENDS BitStream
LOCAL INSTANCE SequencesExt
LOCAL W32 == INSTANCE Words WITH W <- 32

CONSTANTS MilliDigits, MicroDigits
ASSUME DigitsAssumption == MilliDigits \in Nat /\ MicroDigits \in Nat
                           /\ MilliDigits <= MicroDigits

msPerSec == 10^MilliDigits
usPerSec == 10^MicroDigits
usPerMs  == usPerSec \div msPerSec
usPerMin  == 60 * usPerSec
usPerHour == 60 * usPerMin
usPerDay  == 24 * usPerHour
daysPerCD  == 146097
epochShift == 719468
-----------------------------------------------------------------------------
\* `(a / b) | 0` and `a % b`: towards zero, the sign of a.
Trunc(a, b) == IF a >= 0 THEN a \div b ELSE -((-a) \div b)
Rem(a, b) == a - b * Trunc(a, b)

(* A component: its range, the value of zero bytes, the bytes and the bits *)
(* it is stored and serialized in, the digits of its ISO form.             *)
Year        == [least |-> -10000, most |-> 22767, zero |-> -10000, bytes |-> 2, bits |-> 15, digits |-> 4]
Month       == [least |-> 1, most |-> 12, zero |-> 1, bytes |-> 1, bits |-> 4, digits |-> 2]
Day         == [least |-> 1, most |-> 31, zero |-> 1, bytes |-> 1, bits |-> 5, digits |-> 2]
Hour        == [least |-> 0, most |-> 23, zero |-> 0, bytes |-> 1, bits |-> 5, digits |-> 2]
Minute      == [least |-> 0, most |-> 59, zero |-> 0, bytes |-> 1, bits |-> 6, digits |-> 2]
Second      == [least |-> 0, most |-> 59, zero |-> 0, bytes |-> 1, bits |-> 6, digits |-> 2]
Millisecond == [least |-> 0, most |-> msPerSec - 1, zero |-> 0, bytes |-> 2, bits |-> 10, digits |-> MilliDigits]
Microsecond == [least |-> 0, most |-> usPerSec - 1, zero |-> 0, bytes |-> 3, bits |-> 20, digits |-> MicroDigits]

\* What is read back of a value written: wYear() and rYear(), and so on.
Kept(c, v) == ((v - c.zero) % (256^c.bytes)) + c.zero
InRange(c, v) == v \in c.least..c.most

wDate(y, m, d) == [y |-> Kept(Year, y), m |-> Kept(Month, m), d |-> Kept(Day, d)]
wTime(h, i, s, u) == [h |-> Kept(Hour, h), i |-> Kept(Minute, i), s |-> Kept(Second, s),
                      u |-> Kept(Microsecond, u)]
wTimeMs(h, i, s, ms) == [h |-> Kept(Hour, h), i |-> Kept(Minute, i), s |-> Kept(Second, s),
                         ms |-> Kept(Millisecond, ms)]

\* `y & 3` and `y & 15` of a negative number are its remainders by 4 and 16.
isLeap(y) == IF y % 4 # 0 THEN FALSE ELSE IF y % 16 = 0 THEN TRUE ELSE Rem(y, 25) # 0

\* DIM[13] is undefined, which no day exceeds.
DIM == <<31, 28, 31, 30, 31, 30, 31, 31, 30, 31, 30, 31>>
lastDay(m, y) == IF m = 2 /\ isLeap(y) THEN 29
                 ELSE IF m \in 1..12 THEN DIM[m] ELSE IF m = 0 THEN 0 ELSE 255

\* vetDate() and vetTime() throw, validate() too, unless:
vetDate(y, m, d) == InRange(Year, y) /\ InRange(Month, m) /\ d >= 1 /\ d <= lastDay(m, y)
vetTime(h, i, s, u) == InRange(Hour, h) /\ InRange(Minute, i) /\ InRange(Second, s)
                       /\ InRange(Microsecond, u)
dateValid(dt) == dt.m <= 12 /\ dt.d <= lastDay(dt.m, dt.y)
timeValid(tm) == tm.h < 24 /\ tm.i < 60 /\ tm.s < 60 /\ tm.u < usPerSec
-----------------------------------------------------------------------------
\* The year starts on the first of March; CD is a segment of 400 years.
toUnixDays(dt) ==
    LET yv == IF dt.m > 2 THEN dt.y ELSE dt.y - 1
        mv == IF dt.m > 2 THEN dt.m - 3 ELSE dt.m + 9
        CD == Trunc(IF yv >= 0 THEN yv ELSE yv - 399, 400)
        yearOfCD == yv - CD * 400
        dayOfYear == (153 * mv + 2 + 5 * (dt.d - 1)) \div 5
    IN  CD * daysPerCD + yearOfCD * 365 + yearOfCD \div 4 - yearOfCD \div 100
        + dayOfYear - epochShift

\* Mutant of dateFromUnixDays: the leap day that ends 400 years starts the next
dateFromUnixDaysLate(days, more) ==
    LET source == days + epochShift + (IF more /\ days + epochShift < 0 THEN 1 ELSE 0)
        CD == Trunc(IF source >= 0 THEN source ELSE source - daysPerCD + 1, daysPerCD)
        dayOfCD == source - CD * daysPerCD
        yearOfCD == (dayOfCD - dayOfCD \div 1460 + dayOfCD \div 36524) \div 365
        dayOfYear == dayOfCD - 365 * yearOfCD - yearOfCD \div 4 + yearOfCD \div 100
        mp == (5 * dayOfYear + 2) \div 153
        m == IF mp < 10 THEN mp + 3 ELSE mp - 9
    IN  wDate(yearOfCD + CD * 400 + (IF m <= 2 THEN 1 ELSE 0), m,
              dayOfYear + 1 - (153 * mp + 2) \div 5)

\* days is a float: whole days, and whether more of a day follows.
dateFromUnixDays(days, more) ==
    LET source == days + epochShift + (IF more /\ days + epochShift < 0 THEN 1 ELSE 0)
        CD == Trunc(IF source >= 0 THEN source ELSE source - daysPerCD + 1, daysPerCD)
        dayOfCD == source - CD * daysPerCD
        yearOfCD == (dayOfCD - dayOfCD \div 1460 + dayOfCD \div 36524
                     - dayOfCD \div (daysPerCD - 1)) \div 365
        dayOfYear == dayOfCD - 365 * yearOfCD - yearOfCD \div 4 + yearOfCD \div 100
        mp == (5 * dayOfYear + 2) \div 153
        m == IF mp < 10 THEN mp + 3 ELSE mp - 9
    IN  wDate(yearOfCD + CD * 400 + (IF m <= 2 THEN 1 ELSE 0), m,
              dayOfYear + 1 - (153 * mp + 2) \div 5)

timeToUs(tm) == tm.h * usPerHour + tm.i * usPerMin + tm.s * usPerSec + tm.u

\* The bytes made of microseconds, of any sign, less than a day of them: a
\* float is cut towards zero when it is stored.
wTimeOf(us) == wTime(Trunc(us, usPerHour), Trunc(Rem(us, usPerHour), usPerMin),
                     Trunc(Rem(us, usPerMin), usPerSec), Rem(us, usPerSec))

\* `us % usPerDay` of the float that an instant is.
UsOfDay(t) == IF t.days < 0 /\ t.us > 0 THEN t.us - usPerDay ELSE t.us
dateFromUnixTime(t) == dateFromUnixDays(t.days, t.us > 0)
timeFromUnixTimeUs(t) == wTimeOf(UsOfDay(t))
timeMsFromUnixTimeUs(t) ==
    LET us == UsOfDay(t)
    IN  wTimeMs(Trunc(us, usPerHour), Trunc(Rem(us, usPerHour), usPerMin),
                Trunc(Rem(us, usPerMin), usPerSec), Trunc(Rem(us, usPerSec), usPerMs))
-----------------------------------------------------------------------------
\* valueOf() and fromValue(): decimal fields.  The sign of a negative year is
\* the sign of the whole number, and of each remainder.
dateValueOf(dt) == IF dt.y < 0 THEN dt.y * 10000 - dt.m * 100 - dt.d
                   ELSE dt.y * 10000 + dt.m * 100 + dt.d
Thrown == [thrown |-> TRUE]
dateFromValue(v) ==
    LET d == Rem(v, 100)
        m == Rem((v - d) \div 100, 100)
        y == ((v - d) \div 100 - m) \div 100
    IN  IF vetDate(y, m, d) THEN wDate(y, m, d) ELSE Thrown

timeValueOf(tm) == ((tm.h * 100 + tm.i) * 100 + tm.s) * usPerSec + tm.u
timeFromValue(v) ==
    LET u == v % usPerSec
        his == v \div usPerSec
    IN  IF vetTime(his \div 10000, (his \div 100) % 100, his % 100, u)
        THEN wTime(his \div 10000, (his \div 100) % 100, his % 100, u) ELSE Thrown

timeMsValueOf(tm) == ((tm.h * 100 + tm.i) * 100 + tm.s) * msPerSec + tm.ms
timeMsFromValue(v) ==
    LET ms == v % msPerSec
        his == v \div msPerSec
    IN  IF vetTime(his \div 10000, (his \div 100) % 100, his % 100, 0) /\ InRange(Millisecond, ms)
        THEN wTimeMs(his \div 10000, (his \div 100) % 100, his % 100, ms) ELSE Thrown

\* DateOnly.dayOfWeek(), 0 is Sunday.
dayOfWeek(unixDays) == IF unixDays >= -4 THEN Rem(unixDays + 4, 7) ELSE Rem(unixDays + 5, 7) + 6

addSafe(dt, days) == dateFromUnixDays(toUnixDays(dt) + days, FALSE)

\* DateOnly.add(): m is not brought back to 1..12.
addDate(dt, ys, ms) ==
    LET months == ys * 12 + ms
        y == dt.y + Trunc(months, 12)
        m == dt.m + Rem(months, 12)
        dim == lastDay(m, y)
    IN  wDate(y, m, IF dt.d > dim THEN dim ELSE dt.d)
-----------------------------------------------------------------------------
pushPart(bw, c, v) == pushNumberBE(bw, W32!Num(v - c.zero), c.bits).bw
readPart(br, c) ==
    LET r == readNumberBE(br, c.bits)
    IN  [br |-> r.br, v |-> W32!Val(r.n) + c.zero]

serDate(bw, dt) == pushPart(pushPart(pushPart(bw, Day, dt.d), Month, dt.m), Year, dt.y)
deserDate(br) ==
    LET d == readPart(br, Day)
        m == readPart(d.br, Month)
        y == readPart(m.br, Year)
    IN  [br |-> y.br, date |-> [y |-> y.v, m |-> m.v, d |-> d.v]]

serTime(bw, tm) ==
    pushPart(pushPart(pushPart(pushPart(bw, Microsecond, tm.u), Second, tm.s), Minute, tm.i),
             Hour, tm.h)
deserTime(br) ==
    LET u == readPart(br, Microsecond)
        s == readPart(u.br, Second)
        i == readPart(s.br, Minute)
        h == readPart(i.br, Hour)
    IN  [br |-> h.br, time |-> [h |-> h.v, i |-> i.v, s |-> s.v, u |-> u.v]]

serTimeMs(bw, tm) ==
    pushPart(pushPart(pushPart(pushPart(bw, Millisecond, tm.ms), Second, tm.s), Minute, tm.i),
             Hour, tm.h)
deserTimeMs(br) ==
    LET ms == readPart(br, Millisecond)
        s == readPart(ms.br, Second)
        i == readPart(s.br, Minute)
        h == readPart(i.br, Hour)
    IN  [br |-> h.br, time |-> [h |-> h.v, i |-> i.v, s |-> s.v, ms |-> ms.v]]
-----------------------------------------------------------------------------
(* The text of dates and times: the ISO forms of src/datetime/dt.ts, the   *)
(* WindowStr of src/primitive they are parsed from, and parse() of the     *)
(* classes.  A text is a sequence of characters; "now" and the names of    *)
(* months, which depend on the clock and the locale, are left out.         *)

CharOf == <<"0", "1", "2", "3", "4", "5", "6", "7", "8", "9">>
DigitChars == {CharOf[i] : i \in 1..10}
DigitOf(c) == (CHOOSE i \in 1..10 : CharOf[i] = c) - 1

\* The last digits of a number, padded with zeros.
Padded(n, digits) == [k \in 1..digits |-> CharOf[((n \div 10^(digits - k)) % 10) + 1]]

yearIso(y) == IF y > 9999 THEN <<"+">> \o Padded(y, 5)
              ELSE IF y < 0 THEN <<"-">> \o Padded(-y, IF y < -9999 THEN 5 ELSE 4)
              ELSE Padded(y, 4)
partIso(c, v) == Padded(v, c.digits)
dateIso(dt, sep) == yearIso(dt.y) \o sep \o partIso(Month, dt.m) \o sep \o partIso(Day, dt.d)
timeIso(tm, sep1, sep2) ==
    partIso(Hour, tm.h) \o sep1 \o partIso(Minute, tm.i) \o sep1 \o partIso(Second, tm.s)
    \o sep2 \o partIso(Microsecond, tm.u)
-----------------------------------------------------------------------------
\* A WindowStr: indexes count from 0, -1 is not found.
Window(src, start, len) == [src |-> src, start |-> start, len |-> len]
toText(w) == SubSeq(w.src, w.start + 1, w.start + w.len)
charAt(w, i) == w.src[w.start + i + 1]
left(w, n) == [w EXCEPT !.len = n]
shrink(w, n) == [w EXCEPT !.start = @ + n, !.len = @ - n]
shrinkEnd(w, n) == [w EXCEPT !.len = @ - n]

indexOfAny(w, chars, start) ==
    LET found == {i \in start..(w.len - 1) : charAt(w, i) \in chars}
    IN  IF found = {} THEN -1 ELSE CHOOSE i \in found : \A j \in found : i <= j

\* The search starts at the length of the window, counted from the start of
\* the source.
lastIndexOfAny(w, chars) ==
    LET found == {p \in w.start..(w.len - 1) : w.src[p + 1] \in chars}
    IN  IF found = {} THEN -1 ELSE (CHOOSE p \in found : \A q \in found : q <= p) - w.start

WindowStr == [src : Seq(STRING), start : Nat, len : Nat]
trimStart[w \in WindowStr] ==
    IF w.len > 0 /\ charAt(w, 0) = " " THEN trimStart[shrink(w, 1)] ELSE w
trimEnd[w \in WindowStr] ==
    IF w.len > 0 /\ charAt(w, w.len - 1) = " " THEN trimEnd[shrinkEnd(w, 1)] ELSE w
trim(w) == trimEnd[trimStart[w]]
-----------------------------------------------------------------------------
AllDigits(text) == \A i \in 1..Len(text) : text[i] \in DigitChars
IntOf(text) == FoldLeft(LAMBDA n, c : 10 * n + DigitOf(c), 0, text)
Signed(text) == Len(text) > 0 /\ text[1] \in {"+", "-"}
Unsigned(text) == IF Signed(text) THEN Tail(text) ELSE text
Run(text, least, most) == AllDigits(text) /\ Len(text) \in least..most

\* A part that does not parse.
Bad == -99999
\* What a parser returns: a date or time, or an Error.
Failed(r) == "thrown" \in DOMAIN r

\* parseYear(): nine digits and more are out of range anyway.
parseYear(w, strict) ==
    LET digits == Unsigned(toText(w))
        signed == Signed(toText(w))
        y == IF signed /\ toText(w)[1] = "-" THEN -IntOf(digits) ELSE IntOf(digits)
    IN  IF \/ ~Run(digits, 1, 9)
           \/ strict /\ (Len(digits) \notin {4, 5} \/ (Len(digits) = 5 /\ ~signed))
           \/ ~InRange(Year, y) THEN Bad
        ELSE y

\* parseMonth() to parseMicro(); the digits of a fraction that are missing are
\* zeros on its right.
parsePart(c, w, strict, fraction) ==
    LET digits == toText(w)
        short == IF fraction /\ Len(digits) < c.digits THEN c.digits - Len(digits) ELSE 0
    IN  IF ~Run(digits, 1, 9) \/ (strict /\ Len(digits) # c.digits)
           \/ ~InRange(c, IntOf(digits) * 10^short) THEN Bad
        ELSE IntOf(digits) * 10^short

\* The day is held against the month only by sNum(), which throws.
DateOf(y, m, d) ==
    IF Bad \in {y, m, d} THEN Thrown
    ELSE IF d > lastDay(m, y) THEN Thrown ELSE wDate(y, m, d)

parseDateUndelim(w, strict) ==
    DateOf(parseYear(shrinkEnd(w, 4), strict),
           parsePart(Month, left(shrink(w, w.len - 4), 2), strict, FALSE),
           parsePart(Day, shrink(w, w.len - 2), strict, FALSE))

parseDate(w, strict) ==
    LET delim1 == indexOfAny(w, IF strict THEN {"-"} ELSE {"-", "/", "."}, 1)
        delim2 == indexOfAny(w, {charAt(w, delim1)}, delim1 + 1)
        month == shrink(w, delim1 + 1)
    IN  IF Run(Unsigned(toText(w)), 8, 9) THEN parseDateUndelim(w, strict)
        ELSE IF w.len = 0 \/ delim1 = -1 THEN Thrown
        ELSE IF delim2 - delim1 - 1 <= 0 THEN Thrown
        ELSE DateOf(parseYear(trimEnd[left(w, delim1)], strict),
                    parsePart(Month, trim(left(month, delim2 - delim1 - 1)), strict, FALSE),
                    parsePart(Day, trim(shrink(w, delim2 + 1)), strict, FALSE))

TimeOf(h, i, s, u) == IF Bad \in {h, i, s, u} THEN Thrown ELSE wTime(h, i, s, u)
TimeMsOf(h, i, s, ms) ==
    IF Bad \in {h, i, s, ms} THEN Thrown ELSE wTimeMs(h, i, s, ms)

parseTimeUndelim(w, strict) ==
    TimeOf(parsePart(Hour, left(w, 2), strict, FALSE),
           parsePart(Minute, left(shrink(w, 2), 2), strict, FALSE),
           parsePart(Second, left(shrink(w, 4), 2), strict, FALSE),
           parsePart(Microsecond, shrink(w, 6), strict, FALSE))

\* Where the parts of hh:mm:ss.uu begin and end.
TimeParts(w) ==
    LET delim1 == indexOfAny(w, {":"}, 0)
        delim2 == indexOfAny(w, {":"}, delim1 + 1)
        delim3 == indexOfAny(w, {"."}, delim2 + 1)
    IN  IF delim1 > 0 /\ delim2 - delim1 > 1 /\ delim3 - delim2 > 1
        THEN <<left(w, delim1), left(shrink(w, delim1 + 1), delim2 - delim1 - 1),
               left(shrink(w, delim2 + 1), delim3 - delim2 - 1), shrink(w, delim3 + 1)>>
        ELSE <<>>

parseTime(w, strict) ==
    LET part == TimeParts(w) IN
    IF Run(toText(w), 6 + MicroDigits, 6 + MicroDigits) THEN parseTimeUndelim(w, strict)
    ELSE IF part = <<>> THEN Thrown
    ELSE TimeOf(parsePart(Hour, trim(part[1]), strict, FALSE),
                parsePart(Minute, trim(part[2]), strict, FALSE),
                parsePart(Second, trim(part[3]), strict, FALSE),
                parsePart(Microsecond, trim(part[4]), strict, TRUE))
-----------------------------------------------------------------------------
\* parse() of the classes.
parseDateOnly(w, strict) == parseDate(trim(w), strict)
parseTimeOnly(w, strict) == parseTime(trim(w), strict)

\* The hour is not trimmed.
parseTimeOnlyMs(w, strict) ==
    LET t == trim(w)
        run == Run(toText(t), 6 + MilliDigits, 6 + MilliDigits)
        part == IF run
                THEN <<left(t, 2), left(shrink(t, 2), 2), left(shrink(t, 4), 2), shrink(t, 6)>>
                ELSE TimeParts(t)
        gap(q) == IF run THEN q ELSE trim(q)
    IN  IF part = <<>> THEN Thrown
        ELSE TimeMsOf(parsePart(Hour, part[1], strict, FALSE),
                      parsePart(Minute, gap(part[2]), strict, FALSE),
                      parsePart(Second, gap(part[3]), strict, FALSE),
                      parsePart(Millisecond, gap(part[4]), strict, ~run))

\* A date and a time make one value, unless either failed; the date first.
Both(date, time) == IF Failed(date) THEN date ELSE IF Failed(time) THEN time
                    ELSE [y |-> date.y, m |-> date.m, d |-> date.d,
                          h |-> time.h, i |-> time.i, s |-> time.s, u |-> time.u]
IsRun(t) == Run(Unsigned(toText(t)), 14 + MicroDigits, 15 + MicroDigits)
RunDateTime(t, strict) ==
    Both(parseDateUndelim(shrinkEnd(t, 6 + MicroDigits), strict),
         parseTimeUndelim(shrink(t, t.len - 6 - MicroDigits), strict))
SplitDateTime(t, strict) ==
    LET tPos == indexOfAny(t, {"t", "T"}, 0)
    IN  IF tPos <= 0 THEN Thrown
        ELSE Both(parseDate(left(t, tPos), strict), parseTime(shrink(t, tPos + 1), strict))

parseLocal(w, strict) ==
    LET t == trim(w) IN
    IF IsRun(t) THEN RunDateTime(t, strict) ELSE SplitDateTime(t, strict)

\* DateTimeUtc.parse(): a Z at the end is taken off first.
parseUtc(w, strict) ==
    LET t == trim(w)
        hasZ == lastIndexOfAny(t, {"z", "Z"}) = t.len - 1
        z == IF hasZ THEN shrinkEnd(t, 1) ELSE t
    IN  IF t.len = 0 THEN Thrown
        ELSE IF IsRun(z) THEN RunDateTime(z, strict)
        ELSE IF hasZ \/ ~strict THEN SplitDateTime(z, strict)
        ELSE Thrown
=============================================================================
