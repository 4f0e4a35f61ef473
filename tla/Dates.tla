-------------------------------- MODULE Dates --------------------------------
(***************************************************************************)
(* The date conversions of libk/time.c and rtc.c, in whole days, and the   *)
(* calendar they compute.  In C the day numbers are unsigned 32-bit: from  *)
(* 1970 on they stay far below that width; those of earlier dates wrap,    *)
(* which Rtc takes up where they become a timestamp.                       *)
(***************************************************************************)
EXTENDS Integers

-----------------------------------------------------------------------------
(* rtc.c *)

\* Fault: February is counted with the months after it.
ShiftedJanuary(y, m) == IF m < 2 THEN [y |-> y - 1, m |-> m + 12] ELSE [y |-> y, m |-> m]

\* January and February are counted as months 13 and 14 of the year before.
Shifted(y, m) == IF m <= 2 THEN [y |-> y - 1, m |-> m + 12] ELSE [y |-> y, m |-> m]

\* RTC_DateToTimestamp, up to the day, before it is reduced to its 32 bits: negative for
\* the dates before 1970.
DateToDays(year, mon, mday) ==
  LET s == Shifted(year, mon)
  IN  365 * s.y + s.y \div 4 - s.y \div 100 + s.y \div 400
      + 30 * s.m + (3 * (s.m + 1)) \div 5 + mday - 719561

-----------------------------------------------------------------------------
(* time.c *)

\* Fault: the last year of a century is taken for a leap year.
IsLeapJulian(y) == y % 4 = 0

IsLeap(y) == y % 400 = 0 \/ (y % 4 = 0 /\ ~(y % 100 = 0))

DaysPerMonth(y) == <<31, IF IsLeap(y) THEN 29 ELSE 28, 31, 30, 31, 30, 31, 31, 30, 31, 30, 31>>

GetDayOfYear(y, m, d) ==
  LET before[i \in 0 .. 12] == IF i = 0 THEN 0 ELSE before[i - 1] + DaysPerMonth(y)[i]
  IN  before[m - 1] + d

\* Zeller's congruence.
GetDayOfWeek(y, m, d) ==
  LET s == Shifted(y, m)
      j == s.y \div 100
      k == s.y % 100
      h == d + (26 * (s.m + 1)) \div 10 + k + k \div 4 + 5 * j + j \div 4
  IN  ((h + 5) % 7) + 1

YearMonth(e, c) == IF e <= 13 THEN [y |-> c - 4716, m |-> e - 1] ELSE [y |-> c - 4715, m |-> e - 13]

\* ts_to_date, from the day on: the year, and the rest as it is stored.
DaysToDate(times) ==
  LET a == (4 * times + 102032) \div 146097 + 15
      b == times + 2442113 + a - a \div 4
      c == (20 * b - 2442) \div 7305
      d == b - 365 * c - c \div 4
      e == (d * 1000) \div 30601
      f == d - e * 30 - (e * 601) \div 1000
      ym == YearMonth(e, c)
  IN  [year |-> ym.y, mon |-> ym.m, mday |-> f,
       wday |-> GetDayOfWeek(ym.y, ym.m, f), yday |-> GetDayOfYear(ym.y, ym.m, f)]

\* The fields it stores in its struct tm.
ts_to_date(times) ==
  LET t == DaysToDate(times)
  IN  [tm_year |-> t.year - 1900, tm_mon |-> t.mon, tm_mday |-> t.mday,
       tm_wday |-> t.wday, tm_yday |-> t.yday]

wday_name == <<"Mon", "Tue", "Wed", "Thu", "Fri", "Sat", "Sun">>
mon_name == <<"Jan", "Feb", "Mar", "Apr", "May", "Jun", "Jul", "Aug", "Sep", "Oct", "Nov", "Dec">>

\* What asctime_r writes of a day.  It takes one from tm_wday and tm_mon to index its
\* tables, which here begin at one.
asctime_r(tm) ==
  [wday |-> wday_name[tm.tm_wday], mon |-> mon_name[tm.tm_mon],
   mday |-> tm.tm_mday, year |-> 1900 + tm.tm_year]

-----------------------------------------------------------------------------
(* The calendar: months, days of the week from Monday and days of the year, from one. *)

DayName(w) ==
  CASE w = 1 -> "Mon" [] w = 2 -> "Tue" [] w = 3 -> "Wed" [] w = 4 -> "Thu"
    [] w = 5 -> "Fri" [] w = 6 -> "Sat" [] w = 7 -> "Sun"

MonthName(m) ==
  CASE m = 1 -> "Jan" [] m = 2 -> "Feb" [] m = 3 -> "Mar" [] m = 4 -> "Apr" [] m = 5 -> "May"
    [] m = 6 -> "Jun" [] m = 7 -> "Jul" [] m = 8 -> "Aug" [] m = 9 -> "Sep" [] m = 10 -> "Oct"
    [] m = 11 -> "Nov" [] m = 12 -> "Dec"

MonthLength(y, m) ==
  CASE m \in {4, 6, 9, 11} -> 30
    [] m = 2 -> IF 4 * (y \div 4) # y \/ (100 * (y \div 100) = y /\ 400 * (y \div 400) # y)
                THEN 28 ELSE 29
    [] m \in {1, 3, 5, 7, 8, 10, 12} -> 31

Tomorrow(t) ==
  LET last == t.mday >= MonthLength(t.year, t.mon)
      end == last /\ t.mon = 12
  IN  [year |-> IF end THEN t.year + 1 ELSE t.year,
       mon |-> IF end THEN 1 ELSE IF last THEN t.mon + 1 ELSE t.mon,
       mday |-> IF last THEN 1 ELSE t.mday + 1,
       wday |-> IF t.wday = 7 THEN 1 ELSE t.wday + 1,
       yday |-> IF end THEN 1 ELSE t.yday + 1]

\* A date of the calendar: the day is one of its month, and the days of the week and of
\* the year are the ones it has.
Proper(t) ==
  /\ t \in [year : Nat \ {0}, mon : 1 .. 12, mday : 1 .. 31, wday : 1 .. 7, yday : Nat]
  /\ t.mday <= MonthLength(t.year, t.mon)
  /\ t.wday = ((DateToDays(t.year, t.mon, t.mday) + 3) % 7) + 1
  /\ t.yday = GetDayOfYear(t.year, t.mon, t.mday)

=============================================================================
