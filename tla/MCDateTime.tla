----------------------------- MODULE MCDateTime -----------------------------
(***************************************************************************)
(* Dates at the ends of months, years and centuries, before and after the  *)
(* epoch; durations that carry through every field.                        *)
(***************************************************************************)
EXTENDS DateTime

At(y, m, d, h, i, s, u) == [y |-> y, m |-> m, d |-> d, h |-> h, i |-> i, s |-> s, u |-> u]
SomeStarts == {At(1970, 1, 1, 0, 0, 0, 0), At(2024, 1, 31, 23, 30, 0, 1), At(2023, 12, 31, 12, 0, 59, 99),
               At(2000, 2, 29, 0, 59, 59, 99), At(1900, 3, 1, 6, 0, 0, 50), At(2099, 10, 15, 22, 1, 2, 3),
               At(-1, 2, 28, 1, 0, 0, 0), At(-9999, 1, 30, 0, 0, 0, 7), At(9999, 12, 31, 23, 59, 59, 99),
               At(12000, 6, 5, 4, 3, 2, 10)}
\* The example "2024-02-29 +4y = 2028-02-29" of the doc of add(), at some hours of the day
LeapDays == {At(2024, 2, 29, h, 30, 0, 0) : h \in {0, 12, 22, 23}}
FourYears == {[NoParts EXCEPT !.y = 16]}
SomeExacts == {[NoParts EXCEPT !.us = 1], [NoParts EXCEPT !.h = 4 * 26 + 1, !.i = 3],
               [NoParts EXCEPT !.d = 4 * 59 + 1, !.s = 4 * 59 + 1, !.us = 150],
               [NoParts EXCEPT !.d = 4 * 365]}
SomeSpans == {[NoParts EXCEPT !.m = MonthParts], [NoParts EXCEPT !.m = (3 * MonthParts) \div 2],
              [NoParts EXCEPT !.m = MonthParts \div 4], [NoParts EXCEPT !.y = 4, !.d = 4, !.h = 4],
              [NoParts EXCEPT !.y = 6, !.m = 7 * MonthParts, !.i = 4 * 61],
              [NoParts EXCEPT !.d = 4 * 100, !.h = 4 * 30]}
SomeLong == {[NoParts EXCEPT !.d = 4 * 146096, !.h = 4 * 23], [NoParts EXCEPT !.d = 4 * 146098 + 2]}
SomeDays == {-1, 1, 365, -146097}
SomeMonths == {<<1, 0>>, <<0, -1>>, <<-4, 3>>, <<0, 13>>}
SomeLayouts == {[before |-> 0, after |-> 0, next |-> <<>>],
                [before |-> 2, after |-> 1, next |-> <<"Z", "9">>]}
=============================================================================
