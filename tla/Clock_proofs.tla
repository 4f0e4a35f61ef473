----------------------------- MODULE Clock_proofs -----------------------------
(***************************************************************************)
(* Proofs about Calendar and Rtc: the conversions between days and dates   *)
(* are right for every day there will be, and the date shown at boot is    *)
(* the one the clock had.                                                  *)
(***************************************************************************)
EXTENDS Calendar, Rtc, TLAPS

-----------------------------------------------------------------------------
(* Numbers. *)

\* A quotient is known by its bounds.
LEMMA Quotients ==
  ASSUME NEW p \in Int, NEW n \in Int
  PROVE  /\ 146097 * p <= n /\ n < 146097 * p + 146097 => n \div 146097 = p
         /\ 7305 * p <= n /\ n < 7305 * p + 7305 => n \div 7305 = p
         /\ 30601 * p <= n /\ n < 30601 * p + 30601 => n \div 30601 = p
  <1>1. ASSUME 146097 * p <= n, n < 146097 * p + 146097
        PROVE  n \div 146097 = p
    BY <1>1, SMT
  <1>2. ASSUME 7305 * p <= n, n < 7305 * p + 7305
        PROVE  n \div 7305 = p
    BY <1>2, SMT
  <1>3. ASSUME 30601 * p <= n, n < 30601 * p + 30601
        PROVE  n \div 30601 = p
    BY <1>3, SMT
  <1>4. QED
    BY <1>1, <1>2, <1>3, SMT

\* A year, its quarter, its century and its cycle of four centuries.
LEMMA Cycles ==
  ASSUME NEW y \in Nat
  PROVE  LET c == y \div 100
             z == y % 100
             q == y \div 400
         IN  /\ c \in Nat /\ z \in 0 .. 99 /\ q \in Nat /\ y = 100 * c + z
             /\ c - 4 * q \in 0 .. 3 /\ c \div 4 = q
             /\ y \div 4 = 25 * c + z \div 4 /\ z \div 4 \in 0 .. 24
             /\ y \div 4 \in Nat /\ y - 4 * (y \div 4) \in 0 .. 3
  BY SMT

-----------------------------------------------------------------------------
(* Months. *)

\* The calendar's rule for leap years.
Leap(y) == 4 * (y \div 4) = y /\ ~(100 * (y \div 100) = y /\ 400 * (y \div 400) # y)

\* The months as RTC_DateToTimestamp counts them, from March on.
LEMMA ShiftedMonth ==
  ASSUME NEW y \in Nat \ {0}, NEW m \in 1 .. 12
  PROVE  /\ Shifted(y, m).y \in Nat /\ Shifted(y, m).m \in 3 .. 14
         /\ m <= 2 => Shifted(y, m).y = y - 1 /\ Shifted(y, m).m = m + 12
         /\ m > 2 => Shifted(y, m).y = y /\ Shifted(y, m).m = m
  BY SMT DEF Shifted

\* The lengths of the months.
LEMMA Lengths ==
  ASSUME NEW y \in Nat
  PROVE  /\ \A m \in {1, 3, 5, 7, 8, 10, 12} : MonthLength(y, m) = 31
         /\ \A m \in {4, 6, 9, 11} : MonthLength(y, m) = 30
         /\ MonthLength(y, 2) = IF Leap(y) THEN 29 ELSE 28
  BY SMT DEF MonthLength, Leap

\* The days before each month of the year that starts in March.
LEMMA MarchDays ==
  /\ (3 * (3 + 1)) \div 5 = 2 /\ (3 * (4 + 1)) \div 5 = 3 /\ (3 * (5 + 1)) \div 5 = 3
  /\ (3 * (6 + 1)) \div 5 = 4 /\ (3 * (7 + 1)) \div 5 = 4 /\ (3 * (8 + 1)) \div 5 = 5
  /\ (3 * (9 + 1)) \div 5 = 6 /\ (3 * (10 + 1)) \div 5 = 6 /\ (3 * (11 + 1)) \div 5 = 7
  /\ (3 * (12 + 1)) \div 5 = 7 /\ (3 * (13 + 1)) \div 5 = 8 /\ (3 * (14 + 1)) \div 5 = 9
  BY SMT

\* A date as the conversions know it: the year and month from March on, and the day.
Counts(y, m, d, t) ==
  /\ y \in Nat /\ m \in 3 .. 14 /\ d \in 1 .. 31
  /\ m \in {4, 6, 9, 11} => d <= 30
  /\ m = 14 => d <= 29
  /\ m = 14 /\ d = 29 => Leap(y + 1)
  /\ t = 30 * m + (3 * (m + 1)) \div 5 + d

\* The days of the years before, from March on, as RTC_DateToTimestamp counts them.
YearsDays(y) == 365 * y + y \div 4 - y \div 100 + y \div 400 - 719561

\* Dates of the calendar are counted so.
LEMMA Counted ==
  ASSUME NEW y \in Nat \ {0}, NEW m \in 1 .. 12, NEW d \in 1 .. 31, d <= MonthLength(y, m)
  PROVE  LET s == Shifted(y, m)
             t == 30 * s.m + (3 * (s.m + 1)) \div 5 + d
         IN  /\ Counts(s.y, s.m, d, t)
             /\ DateToDays(y, m, d) = YearsDays(s.y) + t
  <1> DEFINE s == Shifted(y, m)
             u == s.y
             v == s.m
             t == 30 * v + (3 * (v + 1)) \div 5 + d
  <1>1. /\ u \in Nat /\ v \in 3 .. 14
        /\ m <= 2 => u = y - 1 /\ v = m + 12
        /\ m > 2 => u = y /\ v = m
    BY ShiftedMonth, SMT
  <1>2. DateToDays(y, m, d)
          = 365 * u + u \div 4 - u \div 100 + u \div 400 + 30 * v + (3 * (v + 1)) \div 5 + d - 719561
    BY SMT DEF DateToDays
  <1> HIDE DEF s
  <1>3. v \in {4, 6, 9, 11} => d <= 30
    BY <1>1, Lengths, SMT
  <1>4. v = 14 => m = 2 /\ y = u + 1
    BY <1>1, SMT
  <1>5. (v = 14 => d <= 29) /\ (v = 14 /\ d = 29 => Leap(u + 1))
    BY <1>4, Lengths, SMT
  <1>6. Counts(u, v, d, t)
    BY <1>1, <1>3, <1>5, SMT DEF Counts
  <1> HIDE DEF u, v
  <1>7. DateToDays(y, m, d) = YearsDays(u) + t
    BY <1>1, <1>2, SMT DEF YearsDays
  <1>8. QED
    BY <1>6, <1>7, SMT DEF s, u, v

\* The day of the year that starts in March.
LEMMA YearDay ==
  ASSUME NEW y, NEW m, NEW d, NEW t, Counts(y, m, d, t)
  PROVE  t \in 93 .. 458 /\ (t = 458 => Leap(y + 1))
  BY MarchDays, SMT DEF Counts

-----------------------------------------------------------------------------
(* From the number of a day to its date: the steps of ts_to_date. *)

\* The century.
LEMMA CenturyFound ==
  ASSUME NEW y \in Nat, NEW t \in 93 .. 458, t = 458 => Leap(y + 1)
  PROVE  (4 * (365 * y + y \div 4 - y \div 100 + y \div 400 + t - 719561) + 102032) \div 146097 + 15
            = y \div 100 - 4
  <1> DEFINE c == y \div 100
             z == y % 100
             q == y \div 400
             w == z \div 4
             f == y \div 4
             n == 4 * (365 * y + f - c + q + t - 719561) + 102032
  <1>1. /\ c \in Nat /\ z \in 0 .. 99 /\ q \in Nat /\ y = 100 * c + z
        /\ c - 4 * q \in 0 .. 3 /\ f = 25 * c + w /\ w \in 0 .. 24
    BY Cycles, SMT
  <1>2. z = 99 /\ t = 458 => c - 4 * q = 3
    <2>1. HAVE z = 99 /\ t = 458
    <2>2. Leap(y + 1) /\ y + 1 = 100 * (c + 1)
      BY <1>1, <2>1, SMT
    <2>3. (y + 1) \div 100 = c + 1
      BY <1>1, <2>2, SMT
    <2>4. 400 * ((y + 1) \div 400) = y + 1
      BY <1>1, <2>2, <2>3, SMT DEF Leap
    <2>5. QED
      BY <1>1, <2>1, <2>2, <2>4, SMT
  <1> HIDE DEF c, z, q, w, f
  <1>3. n = 146097 * (c - 19) + (4 * (365 * z + w + t) - 369 - (c - 4 * q))
    BY <1>1, SMT
  <1>4. /\ n \in Int /\ c - 19 \in Int
        /\ 146097 * (c - 19) <= n /\ n < 146097 * (c - 19) + 146097
    BY <1>1, <1>2, <1>3, SMT
  <1> HIDE DEF n
  <1>5. n \div 146097 = c - 19
    BY <1>4, Quotients, SMT
  <1>6. n \div 146097 + 15 = c - 4
    BY <1>1, <1>5, SMT
  <1>7. QED
    BY <1>6, SMT DEF n, c, q, f

\* The year.
LEMMA YearFound ==
  ASSUME NEW y \in Nat, NEW t \in 93 .. 458, t = 458 => Leap(y + 1)
  PROVE  (20 * (365 * y + y \div 4 + t + 1722549) - 2442) \div 7305 = y + 4716
  <1> DEFINE f == y \div 4
             n == 20 * (365 * y + f + t + 1722549) - 2442
  <1>1. f \in Nat /\ y - 4 * f \in 0 .. 3
    BY Cycles, SMT
  <1>2. t = 458 => y - 4 * f = 3
    BY <1>1, SMT DEF Leap
  <1> HIDE DEF f
  <1>3. n = 7305 * (y + 4716) + (20 * t - 1842 - 5 * (y - 4 * f))
    BY <1>1, SMT
  <1>4. /\ n \in Int /\ y + 4716 \in Int
        /\ 7305 * (y + 4716) <= n /\ n < 7305 * (y + 4716) + 7305
    BY <1>1, <1>2, <1>3, SMT
  <1> HIDE DEF n
  <1>5. QED
    BY <1>4, Quotients, SMT DEF n, f

\* The month and the day.
LEMMA MonthFound ==
  ASSUME NEW y, NEW m, NEW d, NEW t, Counts(y, m, d, t)
  PROVE  /\ ((t + 30) * 1000) \div 30601 = m + 1
         /\ (t + 30) - (m + 1) * 30 - ((m + 1) * 601) \div 1000 = d
  <1> DEFINE n == (t + 30) * 1000
  <1>1. /\ m \in 3 .. 14 /\ d \in 1 .. 31 /\ t = 30 * m + (3 * (m + 1)) \div 5 + d
        /\ m \in {4, 6, 9, 11} => d <= 30
        /\ m = 14 => d <= 29
    BY SMT DEF Counts
  <1>2. /\ n \in Int /\ m + 1 \in Int
        /\ 30601 * (m + 1) <= n /\ n < 30601 * (m + 1) + 30601
    BY <1>1, MarchDays, SMT
  <1>3. ((m + 1) * 601) \div 1000 = (3 * (m + 1)) \div 5
    <2>1. /\ (4 * 601) \div 1000 = 2 /\ (5 * 601) \div 1000 = 3 /\ (6 * 601) \div 1000 = 3
          /\ (7 * 601) \div 1000 = 4 /\ (8 * 601) \div 1000 = 4 /\ (9 * 601) \div 1000 = 5
          /\ (10 * 601) \div 1000 = 6 /\ (11 * 601) \div 1000 = 6 /\ (12 * 601) \div 1000 = 7
          /\ (13 * 601) \div 1000 = 7 /\ (14 * 601) \div 1000 = 8 /\ (15 * 601) \div 1000 = 9
      BY SMT
    <2>2. QED
      BY <1>1, <2>1, MarchDays, SMT
  <1>4. (3 * (m + 1)) \div 5 \in Int
    BY <1>1, SMT
  <1> HIDE DEF n
  <1>5. n \div 30601 = m + 1
    BY <1>2, Quotients, SMT
  <1>6. QED
    BY <1>1, <1>3, <1>4, <1>5, SMT DEF n

\* ts_to_date finds the year, the month and the day again.
LEMMA DateFound ==
  ASSUME NEW y \in Nat \ {0}, NEW m \in 1 .. 12, NEW d \in 1 .. 31, d <= MonthLength(y, m)
  PROVE  DaysToDate(DateToDays(y, m, d))
           = [year |-> y, mon |-> m, mday |-> d, wday |-> GetDayOfWeek(y, m, d), yday |-> GetDayOfYear(y, m, d)]
  <1> DEFINE u == Shifted(y, m).y
             v == Shifted(y, m).m
             t == 30 * v + (3 * (v + 1)) \div 5 + d
             times == DateToDays(y, m, d)
  <1>1. /\ u \in Nat /\ v \in 3 .. 14
        /\ m <= 2 => u = y - 1 /\ v = m + 12
        /\ m > 2 => u = y /\ v = m
    BY ShiftedMonth, SMT
  <1>2. /\ Counts(u, v, d, t)
        /\ times = YearsDays(u) + t
    BY Counted, Zenon
  <1> HIDE DEF u, v, t, times
  <1> DEFINE a == (4 * times + 102032) \div 146097 + 15
             b == times + 2442113 + a - a \div 4
             c == (20 * b - 2442) \div 7305
             d2 == b - 365 * c - c \div 4
             e == (d2 * 1000) \div 30601
             f == d2 - e * 30 - (e * 601) \div 1000
             ym == YearMonth(e, c)
  <1>3. DaysToDate(times) = [year |-> ym.y, mon |-> ym.m, mday |-> f,
                             wday |-> GetDayOfWeek(ym.y, ym.m, f), yday |-> GetDayOfYear(ym.y, ym.m, f)]
    BY SMT DEF DaysToDate
  <1>4. t \in 93 .. 458 /\ (t = 458 => Leap(u + 1))
    BY <1>2, YearDay, SMT
  <1>5. a = u \div 100 - 4
    BY <1>1, <1>2, <1>4, CenturyFound, SMT DEF YearsDays
  <1>6. a \div 4 = u \div 400 - 1 /\ u \div 100 \in Int /\ u \div 400 \in Int /\ u \div 4 \in Int
    BY <1>1, <1>5, SMT
  <1> HIDE DEF a
  <1>7. b = 365 * u + u \div 4 + t + 1722549
    BY <1>1, <1>2, <1>4, <1>5, <1>6, SMT DEF YearsDays
  <1> HIDE DEF b
  <1>8. c = u + 4716
    BY <1>1, <1>4, <1>7, YearFound, SMT
  <1>9. c \div 4 = u \div 4 + 1179
    BY <1>1, <1>8, SMT
  <1> HIDE DEF c
  <1>10. d2 = t + 30
    BY <1>1, <1>4, <1>6, <1>7, <1>8, <1>9, SMT
  <1> HIDE DEF d2
  <1>11. e = v + 1 /\ (t + 30) - (v + 1) * 30 - ((v + 1) * 601) \div 1000 = d
    BY <1>2, <1>10, MonthFound, SMT
  <1> HIDE DEF e
  <1>12. f = d
    BY <1>10, <1>11, SMT
  <1> HIDE DEF f
  <1>13. ym.y = y /\ ym.m = m
    BY <1>1, <1>8, <1>11, SMT DEF YearMonth
  <1> HIDE DEF ym
  <1>14. QED
    BY <1>3, <1>12, <1>13, SMT DEF times

-----------------------------------------------------------------------------
(* The day of the week and the day of the year. *)

\* Whole weeks do not change the day of the week.
LEMMA WholeWeeks == \A n, p \in Int : (n + 7 * p) % 7 = n % 7
  BY SMT

\* Zeller's months, beside the months of RTC_DateToTimestamp.
LEMMA ZellerMonths ==
  \A v \in 3 .. 14 : (26 * (v + 1)) \div 10 = 2 * (v + 1) + (3 * (v + 1)) \div 5
  <1>1. /\ (26 * (3 + 1)) \div 10 = 10 /\ (26 * (4 + 1)) \div 10 = 13 /\ (26 * (5 + 1)) \div 10 = 15
        /\ (26 * (6 + 1)) \div 10 = 18 /\ (26 * (7 + 1)) \div 10 = 20 /\ (26 * (8 + 1)) \div 10 = 23
        /\ (26 * (9 + 1)) \div 10 = 26 /\ (26 * (10 + 1)) \div 10 = 28 /\ (26 * (11 + 1)) \div 10 = 31
        /\ (26 * (12 + 1)) \div 10 = 33 /\ (26 * (13 + 1)) \div 10 = 36 /\ (26 * (14 + 1)) \div 10 = 39
    BY SMT
  <1>2. QED
    BY <1>1, MarchDays, SMT

\* The day of the week goes with the number of the day.
LEMMA WeekDay ==
  ASSUME NEW y \in Nat \ {0}, NEW m \in 1 .. 12, NEW d \in Int
  PROVE  GetDayOfWeek(y, m, d) = ((DateToDays(y, m, d) + 3) % 7) + 1
  <1> DEFINE u == Shifted(y, m).y
             v == Shifted(y, m).m
             j == u \div 100
             z == u % 100
             q == u \div 400
             w == z \div 4
             g == (3 * (v + 1)) \div 5
             h == d + (26 * (v + 1)) \div 10 + z + w + 5 * j + j \div 4
             times == DateToDays(y, m, d)
             p == 5217 * j + 52 * z + 4 * v - 102795
  <1>1. u \in Nat /\ v \in 3 .. 14
    BY ShiftedMonth, SMT
  <1>2. times = 365 * u + u \div 4 - j + q + 30 * v + g + d - 719561
    BY SMT DEF DateToDays
  <1>3. GetDayOfWeek(y, m, d) = ((h + 5) % 7) + 1
    BY SMT DEF GetDayOfWeek
  <1> HIDE DEF u, v, times
  <1>4. /\ j \in Nat /\ z \in 0 .. 99 /\ q \in Nat /\ u = 100 * j + z
        /\ j \div 4 = q /\ u \div 4 = 25 * j + w /\ w \in 0 .. 24
    BY <1>1, Cycles, SMT
  <1>5. (26 * (v + 1)) \div 10 = 2 * (v + 1) + g /\ g \in Int
    BY <1>1, ZellerMonths, SMT
  <1> HIDE DEF j, z, q, w, g
  <1>6. h \in Int /\ p \in Int /\ h + 5 \in Int
    BY <1>1, <1>4, <1>5, SMT
  <1>7. times + 3 = (h + 5) + 7 * p
    BY <1>1, <1>2, <1>4, <1>5, SMT
  <1> HIDE DEF h, p
  <1>8. (times + 3) % 7 = (h + 5) % 7
    BY <1>6, <1>7, WholeWeeks, SMT
  <1>9. QED
    BY <1>3, <1>8, SMT DEF times

\* The days of a year before each month.
DaysBefore(y) ==
  LET l == IF IsLeap(y) THEN 29 ELSE 28
  IN  [i \in 0 .. 12 |->
         CASE i = 0 -> 0 [] i = 1 -> 31 [] i = 2 -> 31 + l [] i = 3 -> 62 + l [] i = 4 -> 92 + l
           [] i = 5 -> 123 + l [] i = 6 -> 153 + l [] i = 7 -> 184 + l [] i = 8 -> 215 + l
           [] i = 9 -> 245 + l [] i = 10 -> 276 + l [] i = 11 -> 306 + l [] i = 12 -> 337 + l]

\* The calendar's leap years are the leap years of the code.
LEMMA LeapYears ==
  ASSUME NEW y \in Nat
  PROVE  IsLeap(y) <=> Leap(y)
  <1>1. (y % 400 = 0 <=> 400 * (y \div 400) = y) /\ (y % 4 = 0 <=> 4 * (y \div 4) = y)
        /\ (y % 100 = 0 <=> 100 * (y \div 100) = y) /\ (y % 400 = 0 => y % 100 = 0 /\ y % 4 = 0)
    BY SMT
  <1>2. QED
    BY <1>1, SMT DEF IsLeap, Leap

\* The sum that get_day_of_year computes month by month.
LEMMA MonthSums ==
  ASSUME NEW y \in Nat, NEW m \in 1 .. 12, NEW d \in Int
  PROVE  GetDayOfYear(y, m, d) = DaysBefore(y)[m - 1] + d
  <1> DEFINE L == DaysPerMonth(y)
             g == DaysBefore(y)
             Sums(f) == f = [i \in 0 .. 12 |-> IF i = 0 THEN 0 ELSE f[i - 1] + L[i]]
             before == CHOOSE f : Sums(f)
  <1>1. GetDayOfYear(y, m, d) = before[m - 1] + d
    BY SMT DEF GetDayOfYear
  <1>2. Sums(g)
    BY SMT DEF DaysBefore, DaysPerMonth
  <1>3. Sums(before)
    BY <1>2
  <1> HIDE DEF before
  <1>4. before[0] = 0 /\ \A i \in 1 .. 12 : before[i] = before[i - 1] + L[i]
    BY <1>3, SMT
  <1>5. g[0] = 0 /\ \A i \in 1 .. 12 : g[i] = g[i - 1] + L[i]
    BY <1>2, SMT
  <1> HIDE DEF g, L
  <1>6. \A i \in 0 .. 11 : before[i] = g[i]
    BY <1>4, <1>5, SMT
  <1>7. QED
    BY <1>1, <1>6, SMT DEF g

-----------------------------------------------------------------------------
(* From one day to the next. *)

\* A year has 365 days, and a leap year one more.
LEMMA YearLength ==
  ASSUME NEW y \in Nat \ {0}
  PROVE  YearsDays(y) = YearsDays(y - 1) + (IF Leap(y) THEN 366 ELSE 365)
  <1> DEFINE a == y \div 4
             b == y \div 100
             c == y \div 400
  <1>1. (y - 1) \div 4 = IF 4 * a = y THEN a - 1 ELSE a
    BY SMT
  <1>2. (y - 1) \div 100 = IF 100 * b = y THEN b - 1 ELSE b
    BY SMT
  <1>3. (y - 1) \div 400 = IF 400 * c = y THEN c - 1 ELSE c
    BY SMT
  <1>4. /\ a \in Nat /\ b \in Nat /\ c \in Nat
        /\ (400 * c = y => 100 * b = y) /\ (100 * b = y => 4 * a = y)
    BY SMT
  <1> HIDE DEF a, b, c
  <1>5. Leap(y) <=> 4 * a = y /\ ~(100 * b = y /\ 400 * c # y)
    BY SMT DEF Leap, a, b, c
  <1>6. YearsDays(y) = 365 * y + a - b + c - 719561
    BY SMT DEF YearsDays, a, b, c
  <1>7. YearsDays(y - 1) = 365 * (y - 1) + (y - 1) \div 4 - (y - 1) \div 100 + (y - 1) \div 400 - 719561
    BY SMT DEF YearsDays
  <1>8. QED
    BY <1>1, <1>2, <1>3, <1>4, <1>5, <1>6, <1>7, SMT

\* The days of the months before, from March on.
MonthsDays(v) == 30 * v + (3 * (v + 1)) \div 5

\* The months from March on, one after the other.
LEMMA MonthDays ==
  /\ \A v \in 3 .. 14 : MonthsDays(v) \in Int
  /\ \A v \in {3, 5, 7, 8, 10, 12, 13} : MonthsDays(v + 1) = MonthsDays(v) + 31
  /\ \A v \in {4, 6, 9, 11} : MonthsDays(v + 1) = MonthsDays(v) + 30
  /\ MonthsDays(14) = MonthsDays(3) + 337
  <1>1. \A v \in 3 .. 14 : MonthsDays(v) \in Int
    BY SMT DEF MonthsDays
  <1>2. /\ MonthsDays(3) = 92 /\ MonthsDays(4) = 123 /\ MonthsDays(5) = 153 /\ MonthsDays(6) = 184
        /\ MonthsDays(7) = 214 /\ MonthsDays(8) = 245 /\ MonthsDays(9) = 276 /\ MonthsDays(10) = 306
        /\ MonthsDays(11) = 337 /\ MonthsDays(12) = 367 /\ MonthsDays(13) = 398 /\ MonthsDays(14) = 429
    BY MarchDays, SMT DEF MonthsDays
  <1>3. QED
    BY <1>1, <1>2, SMT

\* The number of a day, by the year and the month from March on.
LEMMA DayNumber ==
  ASSUME NEW y \in Nat \ {0}
  PROVE  /\ YearsDays(y) \in Int /\ YearsDays(y - 1) \in Int
         /\ \A m \in 1 .. 2 : \A d \in Int : DateToDays(y, m, d) = YearsDays(y - 1) + MonthsDays(m + 12) + d
         /\ \A m \in 3 .. 12 : \A d \in Int : DateToDays(y, m, d) = YearsDays(y) + MonthsDays(m) + d
  <1>1. YearsDays(y) \in Int /\ YearsDays(y - 1) \in Int
    BY SMT DEF YearsDays
  <1>2. ASSUME NEW m \in 1 .. 2, NEW d \in Int
        PROVE  DateToDays(y, m, d) = YearsDays(y - 1) + MonthsDays(m + 12) + d
    <2>1. Shifted(y, m) = [y |-> y - 1, m |-> m + 12]
      BY <1>2, SMT DEF Shifted
    <2>2. QED
      BY <1>1, <1>2, <2>1, SMT DEF DateToDays, YearsDays, MonthsDays
  <1>3. ASSUME NEW m \in 3 .. 12, NEW d \in Int
        PROVE  DateToDays(y, m, d) = YearsDays(y) + MonthsDays(m) + d
    <2>1. Shifted(y, m) = [y |-> y, m |-> m]
      BY <1>3, SMT DEF Shifted
    <2>2. QED
      BY <1>1, <1>3, <2>1, SMT DEF DateToDays, YearsDays, MonthsDays
  <1>4. QED
    BY <1>1, <1>2, <1>3, SMT

\* The numbers of the days of a month follow each other.
LEMMA NextInMonth ==
  ASSUME NEW y \in Nat \ {0}, NEW m \in 1 .. 12, NEW d \in Int
  PROVE  DateToDays(y, m, d) \in Int /\ DateToDays(y, m, d + 1) = DateToDays(y, m, d) + 1
  <1>1. d + 1 \in Int /\ (m \in 1 .. 2 \/ m \in 3 .. 12)
    BY SMT
  <1>2. CASE m \in 1 .. 2
    <2>1. /\ DateToDays(y, m, d) = YearsDays(y - 1) + MonthsDays(m + 12) + d
          /\ DateToDays(y, m, d + 1) = YearsDays(y - 1) + MonthsDays(m + 12) + (d + 1)
      BY <1>1, <1>2, DayNumber, Zenon
    <2>2. MonthsDays(m + 12) \in Int
      BY <1>2, MonthDays, SMT
    <2>3. YearsDays(y - 1) \in Int
      BY DayNumber, Zenon
    <2>4. QED
      BY <2>1, <2>2, <2>3, SMT
  <1>3. CASE m \in 3 .. 12
    <2>1. /\ DateToDays(y, m, d) = YearsDays(y) + MonthsDays(m) + d
          /\ DateToDays(y, m, d + 1) = YearsDays(y) + MonthsDays(m) + (d + 1)
      BY <1>1, <1>3, DayNumber, Zenon
    <2>2. MonthsDays(m) \in Int
      BY <1>3, MonthDays, SMT
    <2>3. YearsDays(y) \in Int
      BY DayNumber, Zenon
    <2>4. QED
      BY <2>1, <2>2, <2>3, SMT
  <1>4. QED
    BY <1>1, <1>2, <1>3, Zenon

\* The day after the last one of a month is the first one of the next.
LEMMA MonthEnd ==
  ASSUME NEW y \in Nat \ {0}, NEW m \in 1 .. 11
  PROVE  DateToDays(y, m + 1, 1) = DateToDays(y, m, MonthLength(y, m)) + 1
  <1>1. MonthLength(y, m) \in Int
    BY Lengths, SMT
  <1>2. CASE m = 1
    <2>1. DateToDays(y, 2, 1) = YearsDays(y - 1) + MonthsDays(14) + 1
      BY DayNumber, SMT
    <2>2. DateToDays(y, 1, 31) = YearsDays(y - 1) + MonthsDays(13) + 31
      BY DayNumber, SMT
    <2>3. MonthsDays(13) \in Int /\ MonthsDays(14) = MonthsDays(13) + 31
      BY MonthDays, SMT
    <2>4. QED
      BY <1>2, <2>1, <2>2, <2>3, DayNumber, Lengths, SMT
  <1>3. CASE m = 2
    <2>1. DateToDays(y, 3, 1) = YearsDays(y) + MonthsDays(3) + 1
      BY DayNumber, SMT
    <2>2. DateToDays(y, 2, MonthLength(y, 2)) = YearsDays(y - 1) + MonthsDays(14) + MonthLength(y, 2)
      BY <1>1, <1>3, DayNumber, SMT
    <2>3. MonthsDays(3) \in Int /\ MonthsDays(14) = MonthsDays(3) + 337
      BY MonthDays, SMT
    <2>4. /\ YearsDays(y) \in Int /\ YearsDays(y - 1) \in Int
          /\ YearsDays(y) = YearsDays(y - 1) + 337 + MonthLength(y, 2)
      BY DayNumber, YearLength, Lengths, SMT
    <2>5. QED
      BY <1>1, <1>3, <2>1, <2>2, <2>3, <2>4, SMT
  <1>4. CASE m > 2
    <2>1. DateToDays(y, m + 1, 1) = YearsDays(y) + MonthsDays(m + 1) + 1
      BY <1>4, DayNumber, SMT
    <2>2. DateToDays(y, m, MonthLength(y, m)) = YearsDays(y) + MonthsDays(m) + MonthLength(y, m)
      BY <1>1, <1>4, DayNumber, SMT
    <2>3. MonthsDays(m) \in Int /\ MonthsDays(m + 1) = MonthsDays(m) + MonthLength(y, m)
      BY <1>4, MonthDays, Lengths, SMT
    <2>4. QED
      BY <1>1, <2>1, <2>2, <2>3, DayNumber, SMT
  <1>5. QED
    BY <1>2, <1>3, <1>4, SMT

\* The day after 31 December is 1 January.
LEMMA YearEnd ==
  ASSUME NEW y \in Nat \ {0}
  PROVE  DateToDays(y + 1, 1, 1) = DateToDays(y, 12, 31) + 1
  <1>1. DateToDays(y + 1, 1, 1) = YearsDays(y) + MonthsDays(13) + 1
    BY DayNumber, SMT
  <1>2. DateToDays(y, 12, 31) = YearsDays(y) + MonthsDays(12) + 31
    BY DayNumber, SMT
  <1>3. MonthsDays(12) \in Int /\ MonthsDays(13) = MonthsDays(12) + 31
    BY MonthDays, SMT
  <1>4. QED
    BY <1>1, <1>2, <1>3, DayNumber, SMT

\* The days before the months of a year, and the months' lengths.
LEMMA DaysBeforeMonths ==
  ASSUME NEW y \in Nat
  PROVE  /\ DaysBefore(y)[0] = 0
         /\ \A m \in 1 .. 12 : /\ DaysBefore(y)[m - 1] \in Nat
                               /\ DaysBefore(y)[m] = DaysBefore(y)[m - 1] + MonthLength(y, m)
  <1>1. \A i \in 0 .. 12 : DaysBefore(y)[i] \in Nat
    BY SMT DEF DaysBefore
  <1>2. MonthLength(y, 2) = IF IsLeap(y) THEN 29 ELSE 28
    BY Lengths, LeapYears, SMT
  <1>3. DaysBefore(y)[0] = 0 /\ \A m \in 1 .. 12 : DaysBefore(y)[m] = DaysBefore(y)[m - 1] + MonthLength(y, m)
    BY <1>2, Lengths, SMT DEF DaysBefore
  <1>4. QED
    BY <1>1, <1>3, SMT

\* 1 January is the first day of the year.
LEMMA FirstOfYear ==
  ASSUME NEW y \in Nat
  PROVE  GetDayOfYear(y, 1, 1) = 1
  <1>1. 1 \in 1 .. 12 /\ 1 \in Int /\ 1 - 1 = 0 /\ 0 + 1 = 1
    BY SMT
  <1>2. GetDayOfYear(y, 1, 1) = DaysBefore(y)[1 - 1] + 1
    BY <1>1, MonthSums, Zenon
  <1>3. DaysBefore(y)[0] = 0
    BY DaysBeforeMonths, Zenon
  <1>4. QED
    BY <1>1, <1>2, <1>3, Zenon

\* The day of the year, from one day to the next.
LEMMA NextYearDay ==
  ASSUME NEW y \in Nat \ {0}, NEW m \in 1 .. 12, NEW d \in Int
  PROVE  /\ GetDayOfYear(y, m, d) \in Int
         /\ GetDayOfYear(y, m, d + 1) = GetDayOfYear(y, m, d) + 1
         /\ m < 12 => GetDayOfYear(y, m + 1, 1) = GetDayOfYear(y, m, MonthLength(y, m)) + 1
         /\ GetDayOfYear(y + 1, 1, 1) = 1
  <1> DEFINE b == DaysBefore(y)
  <1>1. MonthLength(y, m) \in Int
    BY Lengths, SMT
  <1>2. b[m - 1] \in Nat /\ b[m] = b[m - 1] + MonthLength(y, m)
    BY DaysBeforeMonths, SMT
  <1>3. /\ GetDayOfYear(y, m, d) = b[m - 1] + d
        /\ GetDayOfYear(y, m, d + 1) = b[m - 1] + (d + 1)
        /\ GetDayOfYear(y, m, MonthLength(y, m)) = b[m - 1] + MonthLength(y, m)
    BY <1>1, MonthSums, SMT
  <1>4. m < 12 => GetDayOfYear(y, m + 1, 1) = b[m] + 1
    BY MonthSums, SMT
  <1>5. GetDayOfYear(y + 1, 1, 1) = 1
    <2>1. y + 1 \in Nat
      BY SMT
    <2>2. QED
      BY <2>1, FirstOfYear, Zenon
  <1> HIDE DEF b
  <1>6. QED
    BY <1>1, <1>2, <1>3, <1>4, <1>5, SMT

\* The day of the week, from one day to the next.
LEMMA NextWeekDay ==
  ASSUME NEW n \in Int
  PROVE  LET w == ((n + 3) % 7) + 1
         IN  w \in 1 .. 7 /\ ((n + 1 + 3) % 7) + 1 = IF w = 7 THEN 1 ELSE w + 1
  BY SMT

\* The day after a date of the calendar is one too, and has the next number.
LEMMA TomorrowProper ==
  ASSUME NEW t, Proper(t)
  PROVE  /\ Proper(Tomorrow(t))
         /\ DateToDays(Tomorrow(t).year, Tomorrow(t).mon, Tomorrow(t).mday)
              = DateToDays(t.year, t.mon, t.mday) + 1
         /\ Tomorrow(t).year \in {t.year, t.year + 1}
  <1> DEFINE y == t.year
             m == t.mon
             d == t.mday
             n == DateToDays(y, m, d)
             s == Tomorrow(t)
             l == MonthLength(y, m)
             w == IF t.wday = 7 THEN 1 ELSE t.wday + 1
             Follows(r) == Proper(r) /\ DateToDays(r.year, r.mon, r.mday) = n + 1 /\ r.year \in {y, y + 1}
  <1>1. /\ t = [year |-> y, mon |-> m, mday |-> d, wday |-> t.wday, yday |-> t.yday]
        /\ y \in Nat \ {0} /\ m \in 1 .. 12 /\ d \in 1 .. 31 /\ t.wday \in 1 .. 7 /\ t.yday \in Nat
        /\ d <= l /\ t.wday = ((n + 3) % 7) + 1 /\ t.yday = GetDayOfYear(y, m, d)
    BY SMT DEF Proper
  <1>2. /\ d < l => s = [year |-> y, mon |-> m, mday |-> d + 1, wday |-> w, yday |-> t.yday + 1]
        /\ ~(d < l) /\ m < 12
             => s = [year |-> y, mon |-> m + 1, mday |-> 1, wday |-> w, yday |-> t.yday + 1]
        /\ ~(d < l) /\ ~(m < 12)
             => s = [year |-> y + 1, mon |-> 1, mday |-> 1, wday |-> w, yday |-> 1]
    <2>1. l \in Int
      BY <1>1, Lengths, SMT
    <2> HIDE DEF l
    <2>2. QED
      BY <1>1, <2>1, SMT DEF Tomorrow, l
  <1>3. n \in Int /\ w \in 1 .. 7 /\ l \in Int
    BY <1>1, NextInMonth, Lengths, SMT
  <1>4. w = ((n + 1 + 3) % 7) + 1
    BY <1>1, <1>3, NextWeekDay, SMT
  <1>5. ASSUME NEW y2 \in Nat \ {0}, NEW m2 \in 1 .. 12, NEW d2 \in 1 .. 31, NEW yd \in Nat,
               d2 <= MonthLength(y2, m2), DateToDays(y2, m2, d2) = n + 1, yd = GetDayOfYear(y2, m2, d2),
               y2 \in {y, y + 1}
        PROVE  Follows([year |-> y2, mon |-> m2, mday |-> d2, wday |-> w, yday |-> yd])
    <2> HIDE DEF n, w, y
    <2>1. QED
      BY <1>3, <1>4, <1>5, SMT DEF Proper
  <1> HIDE DEF Follows, s, w
  <1>6. ASSUME d < l
        PROVE  Follows(s)
    <2>1. d + 1 \in 1 .. 31 /\ d + 1 <= MonthLength(y, m) /\ t.yday + 1 \in Nat
      BY <1>1, <1>6, Lengths, SMT
    <2>2. DateToDays(y, m, d + 1) = n + 1 /\ t.yday + 1 = GetDayOfYear(y, m, d + 1)
      BY <1>1, NextInMonth, NextYearDay, SMT
    <2> HIDE DEF n, y, m, d, l
    <2>3. QED
      BY <1>1, <1>2, <1>5, <1>6, <2>1, <2>2, Zenon
  <1>7. ASSUME ~(d < l), m < 12
        PROVE  Follows(s)
    <2>1. /\ m + 1 \in 1 .. 12 /\ 1 \in 1 .. 31 /\ 1 <= MonthLength(y, m + 1) /\ t.yday + 1 \in Nat
          /\ d = MonthLength(y, m)
      BY <1>1, <1>3, <1>7, Lengths, SMT
    <2>2. DateToDays(y, m + 1, 1) = n + 1 /\ t.yday + 1 = GetDayOfYear(y, m + 1, 1)
      BY <1>1, <1>7, <2>1, MonthEnd, NextYearDay, SMT
    <2> HIDE DEF n, y, m, d, l
    <2>3. QED
      BY <1>1, <1>2, <1>5, <1>7, <2>1, <2>2, Zenon
  <1>8. ASSUME ~(d < l), ~(m < 12)
        PROVE  Follows(s)
    <2>1. /\ y + 1 \in Nat \ {0} /\ 1 \in 1 .. 12 /\ 1 \in 1 .. 31 /\ 1 \in Nat
          /\ m = 12 /\ d = 31 /\ 1 <= MonthLength(y + 1, 1)
      BY <1>1, <1>3, <1>8, Lengths, SMT
    <2>2. DateToDays(y + 1, 1, 1) = n + 1 /\ 1 = GetDayOfYear(y + 1, 1, 1)
      BY <1>1, <2>1, YearEnd, NextYearDay, SMT
    <2> HIDE DEF n, y, m, d, l
    <2>3. QED
      BY <1>1, <1>2, <1>5, <1>8, <2>1, <2>2, Zenon
  <1>9. QED
    BY <1>6, <1>7, <1>8, SMT DEF Follows, s

\* The two conversions are inverse to each other: a date of the calendar comes back
\* from its number with the days of the week and of the year it has.
THEOREM RoundTrip ==
  ASSUME NEW t, Proper(t)
  PROVE  DaysToDate(DateToDays(t.year, t.mon, t.mday)) = t
  <1> DEFINE y == t.year
             m == t.mon
             d == t.mday
  <1>1. /\ t = [year |-> y, mon |-> m, mday |-> d, wday |-> t.wday, yday |-> t.yday]
        /\ y \in Nat \ {0} /\ m \in 1 .. 12 /\ d \in 1 .. 31
        /\ d <= MonthLength(y, m) /\ t.wday = ((DateToDays(y, m, d) + 3) % 7) + 1
        /\ t.yday = GetDayOfYear(y, m, d)
    BY SMT DEF Proper
  <1> HIDE DEF y, m, d
  <1>2. t.wday = GetDayOfWeek(y, m, d)
    BY <1>1, WeekDay, SMT
  <1>3. DaysToDate(DateToDays(y, m, d))
          = [year |-> y, mon |-> m, mday |-> d, wday |-> GetDayOfWeek(y, m, d), yday |-> GetDayOfYear(y, m, d)]
    BY <1>1, DateFound, Zenon
  <1>4. QED
    BY <1>1, <1>2, <1>3, Zenon DEF y, m, d

-----------------------------------------------------------------------------
(* Calendar *)

\* The walk through the calendar keeps the number of the day beside its date.
LEMMA WalkOnTheWay == Walk => []OnTheWay
  <1>1. FirstDay => OnTheWay
    <2> SUFFICES ASSUME FirstDay PROVE OnTheWay
      OBVIOUS
    <2>1. /\ day = 0 /\ date = [year |-> 1970, mon |-> 1, mday |-> 1, wday |-> 4, yday |-> 1]
          /\ date.year = 1970 /\ date.mon = 1 /\ date.mday = 1
      BY SMT DEF FirstDay
    <2>2. DateToDays(1970, 1, 1) = 0
      BY SMT DEF DateToDays, Shifted
    <2>3. MonthLength(1970, 1) = 31
      BY Lengths, SMT
    <2>4. GetDayOfYear(1970, 1, 1) = 1
      BY FirstOfYear, SMT
    <2>5. QED
      BY <2>1, <2>2, <2>3, <2>4, SMT DEF OnTheWay, Proper, DayOfEveryDate
  <1>2. OnTheWay /\ [NextDay]_<<day, date>> => OnTheWay'
    <2> SUFFICES ASSUME OnTheWay, [NextDay]_<<day, date>> PROVE OnTheWay'
      OBVIOUS
    <2>1. CASE NextDay
      <3>1. /\ Proper(Tomorrow(date))
            /\ DateToDays(Tomorrow(date).year, Tomorrow(date).mon, Tomorrow(date).mday)
                 = DateToDays(date.year, date.mon, date.mday) + 1
        BY TomorrowProper, SMT DEF OnTheWay
      <3>2. QED
        BY <2>1, <3>1, SMT DEF NextDay, OnTheWay, DayOfEveryDate
    <2>2. CASE UNCHANGED <<day, date>>
      BY <2>2, SMT DEF OnTheWay, DayOfEveryDate
    <2>3. QED
      BY <2>1, <2>2, SMT
  <1>3. QED
    BY <1>1, <1>2, PTL DEF Walk

\* What ts_to_date and asctime_r make of a day is right for every day from 1970 on, for
\* walks of every length.
THEOREM DatesOfDays == Walk => []DateOfEveryDay
  <1>1. OnTheWay => DateOfEveryDay
    <2> SUFFICES ASSUME OnTheWay PROVE DateOfEveryDay
      OBVIOUS
    <2>1. Proper(date) /\ DaysToDate(day) = date
      BY RoundTrip, SMT DEF OnTheWay, DayOfEveryDate
    <2>2. /\ date.year \in Nat \ {0} /\ date.mon \in 1 .. 12 /\ date.mday \in Int
          /\ date.wday \in 1 .. 7 /\ date.yday \in Int
      BY <2>1, SMT DEF Proper
    <2>3. ts_to_date(day) = [tm_year |-> date.year - 1900, tm_mon |-> date.mon, tm_mday |-> date.mday,
                             tm_wday |-> date.wday, tm_yday |-> date.yday]
      BY <2>1, SMT DEF ts_to_date
    <2>4. wday_name[date.wday] = DayName(date.wday)
      BY <2>2, SMT DEF wday_name, DayName
    <2>5. mon_name[date.mon] = MonthName(date.mon)
      BY <2>2, SMT DEF mon_name, MonthName
    <2>6. 1900 + (date.year - 1900) = date.year
      BY <2>2, SMT
    <2>7. GetDayOfYear(date.year, 1, 1) = 1
      BY <2>2, FirstOfYear, SMT
    <2>8. asctime_r(ts_to_date(day)) = [wday |-> DayName(date.wday), mon |-> MonthName(date.mon),
                                        mday |-> date.mday, year |-> date.year]
      BY <2>3, <2>4, <2>5, <2>6, SMT DEF asctime_r
    <2>9. ts_to_date(day).tm_yday - GetDayOfYear(date.year, 1, 1) = date.yday - 1
      BY <2>2, <2>3, <2>7, SMT
    <2>10. QED
      BY <2>8, <2>9, Zenon DEF DateOfEveryDay
  <1>2. QED
    BY <1>1, WalkOnTheWay, PTL

\* RTC_DateToTimestamp is right for every date from 1970 on, for walks of every length.
THEOREM DaysOfDates == Walk => []DayOfEveryDate
  <1>1. OnTheWay => DayOfEveryDate
    BY SMT DEF OnTheWay
  <1>2. QED
    BY <1>1, WalkOnTheWay, PTL

-----------------------------------------------------------------------------
(* Rtc: what the registers hold. *)

\* A number comes back from its decimal digits, and no hour reaches the top bit.
LEMMA Digits ==
  /\ \A v \in Nat : Bcd(v) \in Nat /\ Bcd2Dec(Bcd(v)) = v
  /\ \A v \in 0 .. 23 : Bcd(v) % 128 = Bcd(v)
  <1>1. ASSUME NEW v \in Nat
        PROVE  Bcd(v) \in Nat /\ Bcd(v) \div 16 = v \div 10 /\ Bcd(v) % 16 = v % 10
               /\ v = 10 * (v \div 10) + (v % 10)
    BY SMT DEF Bcd
  <1>2. \A v \in Nat : Bcd(v) \in Nat /\ Bcd2Dec(Bcd(v)) = v
    BY <1>1, SMT DEF Bcd2Dec
  <1>3. \A v \in 0 .. 23 : Bcd(v) % 128 = Bcd(v)
    BY SMT DEF Bcd
  <1>4. QED
    BY <1>2, <1>3, Zenon

\* What the registers of an instant stand for.
LEMMA ValuesOf ==
  ASSUME NEW t, Instant(t)
  PROVE  /\ Values(t) \in Seq(Nat) /\ Len(Values(t)) = 8
         /\ \A i \in 1 .. 8 : Values(t)[i] \in Nat
         /\ Values(t)[1] = t.sec /\ t.sec \in 0 .. 59 /\ Values(t)[3] \in 0 .. 23
  <1>1. /\ t.sec \in 0 .. 59 /\ t.min \in 0 .. 59 /\ t.hours \in 0 .. 23
        /\ t.date.wday \in Nat /\ t.date.mday \in Nat /\ t.date.mon \in Nat /\ t.date.year \in Nat
    BY SMT DEF Instant, Proper
  <1>2. t.date.year % 100 \in Nat /\ t.date.year \div 100 \in Nat
    BY <1>1, SMT
  <1>3. QED
    BY <1>1, <1>2, SMT DEF Values

\* The instant a second later.
LEMMA NextInstant ==
  ASSUME NEW t, Instant(t)
  PROVE  Instant(NextSecond(t)) /\ NextSecond(t).sec = (t.sec + 1) % 60
  <1>1. /\ t = [sec |-> t.sec, min |-> t.min, hours |-> t.hours, date |-> t.date]
        /\ t.sec \in 0 .. 59 /\ t.min \in 0 .. 59 /\ t.hours \in 0 .. 23 /\ Proper(t.date)
    BY SMT DEF Instant
  <1>2. Proper(Tomorrow(t.date))
    BY <1>1, TomorrowProper, Zenon
  <1>3. QED
    BY <1>1, <1>2, SMT DEF NextSecond, Instant

\* A register read while an update carries is the old or the new one.
LEMMA RegisterRead ==
  ASSUME TypeOK, NEW i \in 1 .. 8
  PROVE  /\ ReadReg(i) = IF i <= carried THEN Values(NextSecond(now))[i] ELSE Values(now)[i]
         /\ ReadReg(i) \in Nat
  <1>1. Instant(now) /\ Instant(NextSecond(now))
    BY NextInstant, Zenon DEF TypeOK
  <1>2. ASSUME NEW t, Instant(t)
        PROVE  Bcd2Dec(IF i = 3 THEN Registers(t)[i] % 128 ELSE Registers(t)[i]) = Values(t)[i]
    <2>1. Registers(t)[i] = Bcd(Values(t)[i])
      BY SMT DEF Registers
    <2>2. Values(t)[i] \in Nat /\ (i = 3 => Values(t)[i] \in 0 .. 23)
      BY <1>2, ValuesOf, Zenon
    <2>3. QED
      BY <2>1, <2>2, Digits, Zenon
  <1>3. ReadReg(i) = IF i <= carried THEN Values(NextSecond(now))[i] ELSE Values(now)[i]
    <2>1. CASE i <= carried
      <3>1. Cmos(i) = Registers(NextSecond(now))[i]
        BY <2>1, Zenon DEF Cmos
      <3>2. QED
        BY <1>1, <1>2, <2>1, <3>1, Zenon DEF ReadReg
    <2>2. CASE ~(i <= carried)
      <3>1. Cmos(i) = Registers(now)[i]
        BY <2>2, Zenon DEF Cmos
      <3>2. QED
        BY <1>1, <1>2, <2>2, <3>1, Zenon DEF ReadReg
    <2>3. QED
      BY <2>1, <2>2, Zenon
  <1>4. QED
    BY <1>1, <1>3, ValuesOf, Zenon

\* A number that fits stays as it is, and any other becomes one that does.
LEMMA Reduced ==
  ASSUME NEW x \in Int, NEW n \in Nat \ {0}
  PROVE  x % n \in Int /\ (x \in 0 .. n - 1 => x % n = x)
  OBVIOUS

\* The date and time of an instant come back from its seconds.
LEMMA TimestampBack ==
  ASSUME NEW t, Instant(t), NEW ts, ts = Seconds(Values(t))
  PROVE  [sec |-> ts % 60, min |-> (ts \div 60) % 60, hours |-> (ts \div 3600) % 24,
          date |-> DaysToDate(ts \div 86400)] = t
  <1> DEFINE n == DateToDays(t.date.year, t.date.mon, t.date.mday)
             y == t.date.year
  <1>1. /\ t = [sec |-> t.sec, min |-> t.min, hours |-> t.hours, date |-> t.date]
        /\ t.sec \in 0 .. 59 /\ t.min \in 0 .. 59 /\ t.hours \in 0 .. 23 /\ Proper(t.date)
    BY SMT DEF Instant
  <1>2. y \in Nat \ {0} /\ t.date.mon \in 1 .. 12 /\ t.date.mday \in Int
    BY <1>1, SMT DEF Proper
  <1>3. n \in Int
    BY <1>2, NextInMonth, Zenon
  <1>4. (y % 100) + 100 * (y \div 100) = y
    BY <1>2, SMT
  <1> HIDE DEF n, y
  <1>5. ts = 86400 * n + 3600 * t.hours + 60 * t.min + t.sec
    BY <1>4, SMT DEF Seconds, Values, n, y
  <1>6. /\ ts \div 86400 = n /\ (ts \div 3600) % 24 = t.hours
        /\ (ts \div 60) % 60 = t.min /\ ts % 60 = t.sec
    <2> DEFINE h == t.hours
               m == t.min
               s == t.sec
    <2>1. h \in 0 .. 23 /\ m \in 0 .. 59 /\ s \in 0 .. 59 /\ ts = 86400 * n + 3600 * h + 60 * m + s
      BY <1>1, <1>5, SMT
    <2> HIDE DEF h, m, s
    <2>2. ts \div 86400 = n
      BY <1>3, <2>1, SMT
    <2>3. ts \div 3600 = 24 * n + h
      BY <1>3, <2>1, SMT
    <2>4. ts \div 60 = 60 * (24 * n + h) + m
      BY <1>3, <2>1, SMT
    <2>5. ts % 60 = s
      BY <1>3, <2>1, SMT
    <2>6. (24 * n + h) % 24 = h /\ (60 * (24 * n + h) + m) % 60 = m
      BY <1>3, <2>1, SMT
    <2>7. QED
      BY <2>2, <2>3, <2>4, <2>5, <2>6, SMT DEF h, m, s
  <1>7. DaysToDate(n) = t.date
    BY <1>1, RoundTrip, SMT DEF n
  <1>8. QED
    BY <1>1, <1>6, <1>7, SMT

-----------------------------------------------------------------------------
(* Rtc: the steps. *)

\* A register more in one of the reads.
LEMMA Appended ==
  ASSUME reads \in [1 .. 2 -> Seq(Nat)], NEW n \in 1 .. 2, NEW x \in Nat,
         reads' = [reads EXCEPT ![n] = Append(@, x)]
  PROVE  /\ reads' \in [1 .. 2 -> Seq(Nat)]
         /\ \A i \in 1 .. 2 : i # n => reads'[i] = reads[i]
         /\ reads'[n] = Append(reads[n], x) /\ Len(reads'[n]) = Len(reads[n]) + 1
         /\ \A i \in 1 .. Len(reads[n]) : reads'[n][i] = reads[n][i]
         /\ reads'[n][Len(reads[n]) + 1] = x
  <1>1. reads[n] \in Seq(Nat) /\ Append(reads[n], x) \in Seq(Nat)
    BY SMT
  <1>2. reads' \in [1 .. 2 -> Seq(Nat)]
    BY <1>1, SMT
  <1>3. reads'[n] = Append(reads[n], x) /\ \A i \in 1 .. 2 : i # n => reads'[i] = reads[i]
    BY SMT
  <1>4. QED
    BY <1>1, <1>2, <1>3, SMT

\* Two sequences of the same eight registers are the same.
LEMMA SameRead ==
  ASSUME NEW a \in Seq(Nat), NEW b \in Seq(Nat), Len(a) = 8, Len(b) = 8, \A i \in 1 .. 8 : a[i] = b[i]
  PROVE  a = b
  <1>1. DOMAIN a = 1 .. 8 /\ DOMAIN b = 1 .. 8
    BY SMT
  <1>2. a = [i \in DOMAIN a |-> a[i]] /\ b = [i \in DOMAIN b |-> b[i]]
    BY SMT
  <1>3. [i \in 1 .. 8 |-> a[i]] = [i \in 1 .. 8 |-> b[i]]
    BY Zenon
  <1>4. QED
    BY <1>1, <1>2, <1>3, Zenon

\* Two reads that have not begun.
LEMMA NothingRead ==
  ASSUME NEW r, r = << <<>>, <<>> >>
  PROVE  r \in [1 .. 2 -> Seq(Nat)] /\ Len(r[1]) = 0 /\ Len(r[2]) = 0
  <1>1. r[1] = <<>> /\ r[2] = <<>> /\ r = [i \in 1 .. 2 |-> r[i]]
    BY SMT
  <1>2. <<>> \in Seq(Nat) /\ Len(<<>>) = 0
    BY SMT
  <1>3. \A i \in 1 .. 2 : i = 1 \/ i = 2
    BY SMT
  <1>4. \A i \in 1 .. 2 : r[i] \in Seq(Nat)
    BY <1>1, <1>2, <1>3, Zenon
  <1>5. [i \in 1 .. 2 |-> r[i]] \in [1 .. 2 -> Seq(Nat)]
    BY <1>4, Zenon
  <1>6. QED
    BY <1>1, <1>2, <1>5, Zenon

\* The first state.
LEMMA RtcInit == Init => IndInv
  <1> SUFFICES ASSUME Init PROVE IndInv
    OBVIOUS
  <1>1. Instant(now)
    BY RtcAssumption, Zenon DEF Init
  <1>2. reads \in [1 .. 2 -> Seq(Nat)] /\ Len(reads[1]) = 0 /\ Len(reads[2]) = 0
    BY NothingRead, SMT DEF Init
  <1>3. TypeOK
    <2>1. carried \in 0 .. 8 /\ ~(carried > 0) /\ k \in 0 .. 7 /\ timestamp \in Int
      BY SMT DEF Init
    <2>2. QED
      BY <1>1, <1>2, <2>1, Zenon DEF Init, TypeOK
  <1>4. QED
    BY <1>2, <1>3, SMT DEF Init, IndInv, ReadsFit, FirstReadDated, SecondReadDated, TimestampDated, ShowsTheClock

\* Nothing but the place changes when RTC_GetTimestamp is called.
LEMMA RtcCall == IndInv /\ Call => IndInv'
  BY SMT DEF IndInv, TypeOK, ReadsFit, FirstReadDated, SecondReadDated, TimestampDated, ShowsTheClock,
             Call, clockVars

\* A wait that ends has seen the flag.
LEMMA RtcPoll == IndInv /\ Poll => IndInv'
  <1> SUFFICES ASSUME IndInv, Poll PROVE IndInv'
    OBVIOUS
  <1>1. /\ TypeOK /\ ReadsFit /\ pc \in {"wait1", "wait2"}
        /\ UNCHANGED <<now, flag, carried, k, reads, timestamp, shown, late, asked>>
    BY Zenon DEF IndInv, Poll, clockVars
  <1>2. \/ flag /\ pc = "wait1" /\ pc' = "read1" /\ polled' = FALSE
        \/ flag /\ pc = "wait2" /\ pc' = "read2" /\ polled' = FALSE
        \/ ~flag /\ pc' = pc /\ polled' = TRUE
    BY Zenon DEF Poll
  <1>3. k = 0
    BY <1>1, SMT DEF TypeOK, ReadsFit
  <1>4. TypeOK'
    BY <1>1, <1>2, Zenon DEF TypeOK
  <1>5. ReadsFit'
    BY <1>1, <1>2, <1>3, SMT DEF ReadsFit
  <1>6. FirstReadDated'
    BY <1>1, <1>2, <1>3, SMT DEF IndInv, FirstReadDated
  <1>7. SecondReadDated' /\ TimestampDated' /\ ShowsTheClock'
    BY <1>1, <1>2, <1>3, SMT DEF SecondReadDated, TimestampDated, ShowsTheClock
  <1>8. QED
    BY <1>4, <1>5, <1>6, <1>7, Zenon DEF IndInv

\* A register of the first read: of the instant the first one is of, or an update has
\* begun to change the registers since.
LEMMA RtcReadFirst == IndInv /\ ReadFirst => IndInv'
  <1> SUFFICES ASSUME IndInv, ReadFirst PROVE IndInv'
    OBVIOUS
  <1> DEFINE x == ReadReg(k + 1)
  <1>1. /\ TypeOK /\ ReadsFit /\ pc = "read1" /\ k + 1 \in 1 .. 8 /\ ~polled
        /\ Len(reads[1]) = k /\ Len(reads[2]) = 0
    BY SMT DEF IndInv, TypeOK, ReadsFit, ReadFirst, Read
  <1>2. x \in Nat /\ (carried = 0 => x = Values(now)[k + 1])
    <2>1. /\ x = IF k + 1 <= carried THEN Values(NextSecond(now))[k + 1] ELSE Values(now)[k + 1]
          /\ x \in Nat
      BY <1>1, RegisterRead, Zenon
    <2>2. carried = 0 => ~(k + 1 <= carried)
      BY <1>1, SMT
    <2>3. QED
      BY <2>1, <2>2, Zenon
  <1> HIDE DEF x
  <1>3. /\ reads' \in [1 .. 2 -> Seq(Nat)] /\ reads'[2] = reads[2]
        /\ Len(reads'[1]) = k + 1 /\ reads'[1][k + 1] = x
        /\ \A i \in 1 .. k : reads'[1][i] = reads[1][i]
    <2>1. reads' = [reads EXCEPT ![1] = Append(@, x)] /\ reads \in [1 .. 2 -> Seq(Nat)]
      BY <1>1, SMT DEF ReadFirst, Read, x, TypeOK
    <2>2. 1 \in 1 .. 2 /\ 2 \in 1 .. 2 /\ 1 # 2
      BY SMT
    <2>3. /\ reads' \in [1 .. 2 -> Seq(Nat)] /\ reads'[2] = reads[2]
          /\ Len(reads'[1]) = Len(reads[1]) + 1 /\ reads'[1][Len(reads[1]) + 1] = x
          /\ \A i \in 1 .. Len(reads[1]) : reads'[1][i] = reads[1][i]
      BY <1>2, <2>1, <2>2, Appended, ZenonT(30)
    <2>4. QED
      BY <1>1, <2>3, Zenon
  <1>4. /\ k' = (k + 1) % 8 /\ pc' = (IF k = 7 THEN "wait2" ELSE "read1")
        /\ UNCHANGED <<now, flag, carried, updates, polled, timestamp, shown, asked>>
        /\ late' = IF k = 0 THEN carried > 0 ELSE late
    BY SMT DEF ReadFirst, Read, clockVars
  <1>5. TypeOK'
    BY <1>1, <1>3, <1>4, SMT DEF TypeOK
  <1>6. ReadsFit'
    <2>1. k \in 0 .. 7
      BY <1>1, Zenon DEF TypeOK
    <2>2. CASE k = 7
      <3>1. k' = 0 /\ pc' = "wait2" /\ Len(reads'[1]) = 8 /\ Len(reads'[2]) = 0
        BY <1>1, <1>3, <1>4, <2>2, SMT
      <3>2. QED
        BY <3>1, SMT DEF ReadsFit
    <2>3. CASE k < 7
      <3>1. k' = k + 1 /\ pc' = "read1" /\ Len(reads'[1]) = k' /\ Len(reads'[2]) = 0
        <4>1. (k + 1) % 8 = k + 1 /\ k # 7
          BY <2>1, <2>3, SMT
        <4>2. QED
          BY <1>1, <1>3, <1>4, <4>1, Zenon
      <3>2. QED
        BY <3>1, SMT DEF ReadsFit
    <2>4. QED
      BY <2>1, <2>2, <2>3, SMT
  <1>7. FirstReadDated'
    <2> SUFFICES ASSUME ~late'
                 PROVE  \/ /\ now.sec = reads'[1][1]
                           /\ carried = 0 => \A i \in 1 .. (k + 1) : reads'[1][i] = Values(now)[i]
                        \/ /\ now.sec = (reads'[1][1] + 1) % 60
                           /\ ~flag
      BY <1>1, <1>3, <1>4, SMT DEF FirstReadDated
    <2>1. CASE k = 0
      <3>1. carried = 0
        BY <1>4, <2>1, SMT DEF IndInv, TypeOK
      <3>2. Values(now)[1] = now.sec
        BY <1>1, ValuesOf, Zenon DEF TypeOK
      <3>3. QED
        BY <1>2, <1>3, <2>1, <3>1, <3>2, SMT
    <2>2. CASE k > 0
      <3>1. \/ /\ now.sec = reads[1][1]
               /\ carried = 0 => \A i \in 1 .. k : reads[1][i] = Values(now)[i]
            \/ /\ now.sec = (reads[1][1] + 1) % 60
               /\ ~flag
        BY <1>1, <1>4, <2>2, SMT DEF IndInv, FirstReadDated
      <3>2. reads'[1][1] = reads[1][1]
        BY <1>1, <1>3, <2>2, SMT
      <3>3. ASSUME carried = 0, \A i \in 1 .. k : reads[1][i] = Values(now)[i]
            PROVE  \A i \in 1 .. (k + 1) : reads'[1][i] = Values(now)[i]
        <4>1. \A i \in 1 .. (k + 1) : i \in 1 .. k \/ i = k + 1
          BY <1>1, SMT
        <4>2. QED
          BY <1>2, <1>3, <3>3, <4>1, Zenon
      <3>4. QED
        BY <3>1, <3>2, <3>3, Zenon
    <2>3. QED
      BY <1>1, <2>1, <2>2, SMT DEF TypeOK
  <1>8. QED
    BY <1>1, <1>4, <1>5, <1>6, <1>7, SMT DEF IndInv, SecondReadDated, TimestampDated, ShowsTheClock

\* A register of the second read.  When the first one shows the seconds of the first
\* read no update has ended since and none has changed a register, so that the first
\* read is the instant of now.
LEMMA RtcReadSecond == IndInv /\ ReadSecond => IndInv'
  <1> SUFFICES ASSUME IndInv, ReadSecond PROVE IndInv'
    OBVIOUS
  <1> DEFINE x == ReadReg(k + 1)
  <1>1. /\ TypeOK /\ ReadsFit /\ pc = "read2" /\ k \in 0 .. 7 /\ k + 1 \in 1 .. 8
        /\ Len(reads[1]) = 8 /\ Len(reads[2]) = k
    BY SMT DEF IndInv, TypeOK, ReadsFit, ReadSecond, Read
  <1>2. /\ x = IF k + 1 <= carried THEN Values(NextSecond(now))[k + 1] ELSE Values(now)[k + 1]
        /\ x \in Nat
    BY <1>1, RegisterRead, Zenon
  <1> HIDE DEF x
  <1>3. /\ reads' \in [1 .. 2 -> Seq(Nat)] /\ reads'[1] = reads[1]
        /\ Len(reads'[2]) = k + 1 /\ reads'[2][k + 1] = x
        /\ \A i \in 1 .. k : reads'[2][i] = reads[2][i]
    <2>1. reads' = [reads EXCEPT ![2] = Append(@, x)] /\ reads \in [1 .. 2 -> Seq(Nat)]
      BY <1>1, SMT DEF ReadSecond, Read, x, TypeOK
    <2>2. 1 \in 1 .. 2 /\ 2 \in 1 .. 2 /\ 1 # 2
      BY SMT
    <2>3. /\ reads' \in [1 .. 2 -> Seq(Nat)] /\ reads'[1] = reads[1]
          /\ Len(reads'[2]) = Len(reads[2]) + 1 /\ reads'[2][Len(reads[2]) + 1] = x
          /\ \A i \in 1 .. Len(reads[2]) : reads'[2][i] = reads[2][i]
      BY <1>2, <2>1, <2>2, Appended, ZenonT(30)
    <2>4. QED
      BY <1>1, <2>3, Zenon
  <1>4. /\ k' = (k + 1) % 8 /\ pc' = (IF k = 7 THEN "compare" ELSE "read2")
        /\ UNCHANGED <<now, flag, carried, polled, timestamp, shown, late>>
        /\ asked' = IF k = 0 THEN now ELSE asked
    BY SMT DEF ReadSecond, Read, clockVars
  <1>5. \/ k = 7 /\ k' = 0 /\ pc' = "compare"
        \/ k < 7 /\ k' = k + 1 /\ pc' = "read2"
    BY <1>1, <1>4, SMT
  <1>6. TypeOK'
    <2>1. k' \in 0 .. 7 /\ ~polled
      BY <1>1, <1>5, SMT DEF TypeOK
    <2>2. QED
      BY <1>1, <1>3, <1>4, <1>5, <2>1, Zenon DEF TypeOK
  <1>7. ReadsFit'
    <2>1. CASE k = 7
      <3>1. k' = 0 /\ pc' = "compare" /\ Len(reads'[1]) = 8 /\ Len(reads'[2]) = 8
        BY <1>1, <1>3, <1>5, <2>1, SMT
      <3>2. QED
        BY <3>1, SMT DEF ReadsFit
    <2>2. CASE k < 7
      <3>1. pc' = "read2" /\ Len(reads'[1]) = 8 /\ Len(reads'[2]) = k'
        <4>1. k # 7
          BY <2>2, SMT
        <4>2. QED
          BY <1>1, <1>3, <1>5, <4>1, Zenon
      <3>2. QED
        BY <3>1, SMT DEF ReadsFit
    <2>3. QED
      BY <1>1, <2>1, <2>2, SMT
  <1>8. FirstReadDated'
    BY <1>1, <1>5, SMT DEF FirstReadDated
  <1>9. SecondReadDated'
    <2> SUFFICES ASSUME ~late, reads[1][1] = reads'[2][1]
                 PROVE  reads[1] = Values(asked')
      BY <1>3, <1>4, Zenon DEF SecondReadDated
    <2>1. CASE k > 0
      <3>1. reads'[2][1] = reads[2][1] /\ asked' = asked
        BY <1>1, <1>3, <1>4, <2>1, SMT
      <3>2. QED
        BY <1>1, <2>1, <3>1, Zenon DEF IndInv, SecondReadDated
    <2>2. CASE k = 0
      <3>1. asked' = now /\ reads[1][1] = x /\ reads[1] \in Seq(Nat) /\ reads[1][1] \in Nat
        BY <1>1, <1>2, <1>3, <1>4, <2>2, SMT DEF TypeOK
      <3>2. /\ Instant(now) /\ Instant(NextSecond(now)) /\ now.sec \in 0 .. 59
            /\ NextSecond(now).sec = (now.sec + 1) % 60
            /\ Values(now)[1] = now.sec /\ Values(NextSecond(now))[1] = NextSecond(now).sec
            /\ Values(now) \in Seq(Nat) /\ Len(Values(now)) = 8
        BY <1>1, NextInstant, ValuesOf, Zenon DEF TypeOK
      <3>3. reads[1][1] = IF carried > 0 THEN (now.sec + 1) % 60 ELSE now.sec
        <4>1. carried \in 0 .. 8 /\ k + 1 = 1 /\ (1 <= carried <=> carried > 0)
          BY <1>1, <2>2, SMT DEF TypeOK
        <4>2. QED
          BY <1>2, <3>1, <3>2, <4>1, Zenon
      <3>4. \/ /\ now.sec = reads[1][1]
               /\ carried = 0 => \A i \in 1 .. 8 : reads[1][i] = Values(now)[i]
            \/ now.sec = (reads[1][1] + 1) % 60
            \/ now.sec = (reads[1][1] + 2) % 60 /\ ~(carried > 0)
        BY <1>1, <2>2, Zenon DEF IndInv, FirstReadDated, TypeOK
      <3>5. carried = 0 /\ \A i \in 1 .. 8 : reads[1][i] = Values(now)[i]
        <4>1. carried \in 0 .. 8
          BY <1>1, Zenon DEF TypeOK
        <4> DEFINE Same == \A i \in 1 .. 8 : reads[1][i] = Values(now)[i]
                   r == reads[1][1]
                   n == now.sec
        <4>2. /\ r \in Nat /\ n \in 0 .. 59 /\ r = IF carried > 0 THEN (n + 1) % 60 ELSE n
              /\ \/ n = r /\ (carried = 0 => Same)
                 \/ n = (r + 1) % 60
                 \/ n = (r + 2) % 60 /\ ~(carried > 0)
          BY <3>1, <3>2, <3>3, <3>4, Zenon
        <4> HIDE DEF Same, r, n
        <4>3. carried = 0 /\ Same
          BY <4>1, <4>2, SMT
        <4>4. QED
          BY <4>3, Zenon DEF Same
      <3>6. QED
        BY <1>1, <3>1, <3>2, <3>5, SameRead, Zenon
    <2>3. QED
      BY <1>1, <2>1, <2>2, SMT
  <1>10. TimestampDated' /\ ShowsTheClock'
    BY <1>5, SMT DEF TimestampDated, ShowsTheClock
  <1>11. QED
    BY <1>6, <1>7, <1>8, <1>9, <1>10, Zenon DEF IndInv

\* The timestamp of two equal reads is the one of the instant they are of.
LEMMA RtcCompare == IndInv /\ Compare => IndInv'
  <1> SUFFICES ASSUME IndInv, Compare PROVE IndInv'
    OBVIOUS
  <1>1. /\ TypeOK /\ ReadsFit /\ pc = "compare" /\ reads' = << <<>>, <<>> >> /\ pc' \in {"show", "wait1"}
        /\ timestamp' = IF Agree THEN DateToTimestamp(reads[2]) ELSE 0
        /\ UNCHANGED <<now, flag, carried, polled, k, shown, late, asked>>
    BY Zenon DEF IndInv, Compare, clockVars
  <1>2. k = 0 /\ ~polled /\ Len(reads[2]) = 8 /\ reads[2] \in Seq(Nat)
    BY <1>1, SMT DEF TypeOK, ReadsFit
  <1>3. reads' \in [1 .. 2 -> Seq(Nat)] /\ Len(reads'[1]) = 0 /\ Len(reads'[2]) = 0
    BY <1>1, NothingRead, Zenon
  <1>4. timestamp' \in Int
    <2>1. DateToTimestamp(reads[2]) \in Int
      <3>1. \A i \in 1 .. 8 : reads[2][i] \in Nat
        BY <1>2, SMT
      <3>2. ASSUME NEW y \in Int, NEW m \in Int, NEW d \in Int
            PROVE  DateToDays(y, m, d) \in Int
        BY SMT DEF DateToDays, Shifted
      <3>3. DateToDays(reads[2][7] + 100 * reads[2][8], reads[2][6], reads[2][5]) \in Int
        <4>1. reads[2][7] + 100 * reads[2][8] \in Int /\ reads[2][6] \in Int /\ reads[2][5] \in Int
          BY <3>1, SMT
        <4>2. QED
          BY <3>2, <4>1, Zenon
      <3>4. reads[2][1] \in Int /\ reads[2][2] \in Int /\ reads[2][3] \in Int
        BY <3>1, SMT
      <3>5. QED
        <4>1. Seconds(reads[2]) \in Int
          BY <3>3, <3>4, SMT DEF Seconds
        <4>2. QED
          BY <4>1, Reduced, RtcAssumption, Zenon DEF DateToTimestamp
    <2>2. QED
      BY <1>1, <2>1, SMT
  <1>5. TypeOK'
    BY <1>1, <1>2, <1>3, <1>4, Zenon DEF TypeOK
  <1>6. ReadsFit'
    BY <1>1, <1>2, <1>3, SMT DEF ReadsFit
  <1>7. FirstReadDated' /\ SecondReadDated' /\ ShowsTheClock'
    BY <1>1, SMT DEF FirstReadDated, SecondReadDated, ShowsTheClock
  <1>8. TimestampDated'
    <2> SUFFICES ASSUME ~late, timestamp' >= 1
                 PROVE  timestamp' = DateToTimestamp(Values(asked))
      BY <1>1, Zenon DEF TimestampDated
    <2>1. Agree
      BY <1>1, SMT
    <2>2. reads[1] = reads[2] /\ reads[1] = Values(asked)
      BY <1>1, <2>1, Zenon DEF IndInv, SecondReadDated, Agree
    <2>3. QED
      BY <1>1, <2>1, <2>2, Zenon
  <1>9. QED
    BY <1>5, <1>6, <1>7, <1>8, Zenon DEF IndInv

\* The date shown is the one of the timestamp.
LEMMA RtcShow == IndInv /\ Show => IndInv'
  <1> SUFFICES ASSUME IndInv, Show PROVE IndInv'
    OBVIOUS
  <1>1. /\ TypeOK /\ ReadsFit /\ pc = "show" /\ pc' = "shown"
        /\ UNCHANGED <<now, flag, carried, polled, k, reads, timestamp, late, asked>>
    BY SMT DEF IndInv, Show, clockVars
  <1>2. TypeOK'
    BY <1>1, Zenon DEF TypeOK
  <1>3. ReadsFit'
    <2>1. ~(k > 0) /\ Len(reads[1]) = 0 /\ Len(reads[2]) = 0
      BY <1>1, SMT DEF ReadsFit
    <2>2. ~(k' > 0) /\ Len(reads'[1]) = 0 /\ Len(reads'[2]) = 0
      BY <1>1, <2>1, Zenon
    <2>3. QED
      BY <1>1, <2>2, SMT DEF ReadsFit
  <1>4. FirstReadDated' /\ SecondReadDated' /\ TimestampDated'
    BY <1>1, SMT DEF FirstReadDated, SecondReadDated, TimestampDated
  <1>5. ShowsTheClock'
    <2> SUFFICES ASSUME ~late, shown' # NoDate, Holds(asked)
                 PROVE  shown' = asked
      BY <1>1, Zenon DEF ShowsTheClock, NoDate
    <2>1. /\ ~(timestamp < 1)
          /\ shown' = [sec |-> timestamp % 60, min |-> (timestamp \div 60) % 60,
                       hours |-> (timestamp \div 3600) % 24, date |-> DaysToDate(timestamp \div 86400)]
      BY SMT DEF Show
    <2>2. timestamp >= 1 /\ Instant(asked)
      BY <1>1, <2>1, SMT DEF TypeOK
    <2>3. timestamp = Seconds(Values(asked))
      <3>1. timestamp = DateToTimestamp(Values(asked))
        BY <1>1, <2>2, Zenon DEF IndInv, TimestampDated
      <3>2. Seconds(Values(asked)) \in Int /\ Seconds(Values(asked)) \in 0 .. UINT32 - 1
        BY RtcAssumption, SMT DEF Holds
      <3>3. QED
        BY <3>1, <3>2, Reduced, RtcAssumption, Zenon DEF DateToTimestamp
    <2>4. QED
      BY <2>1, <2>2, <2>3, TimestampBack, SMT
  <1>6. QED
    BY <1>2, <1>3, <1>4, <1>5, Zenon DEF IndInv

\* An update begins only under a wait that has seen none.
LEMMA RtcBeginUpdate == IndInv /\ BeginUpdate => IndInv'
  <1> SUFFICES ASSUME IndInv, BeginUpdate PROVE IndInv'
    OBVIOUS
  <1>1. /\ TypeOK /\ ReadsFit /\ flag' = TRUE /\ (polled \/ pc = "start")
        /\ UNCHANGED <<now, carried, pc, polled, k, reads, timestamp, shown, late, asked>>
    BY Zenon DEF IndInv, BeginUpdate, KeepCpu
  <1>2. pc = "start" \/ (polled /\ pc \in {"wait1", "wait2"})
    BY <1>1, Zenon DEF TypeOK
  <1>3. TypeOK'
    BY <1>1, Zenon DEF TypeOK
  <1>4. FirstReadDated'
    BY <1>1, <1>2, Zenon DEF IndInv, FirstReadDated
  <1>5. ReadsFit' /\ SecondReadDated' /\ TimestampDated' /\ ShowsTheClock'
    BY <1>1, Zenon DEF IndInv, ReadsFit, SecondReadDated, TimestampDated, ShowsTheClock
  <1>6. QED
    BY <1>3, <1>4, <1>5, Zenon DEF IndInv

\* A register carries.
LEMMA RtcCarry == IndInv /\ Carry => IndInv'
  <1> SUFFICES ASSUME IndInv, Carry PROVE IndInv'
    OBVIOUS
  <1>1. /\ TypeOK /\ ReadsFit /\ flag /\ carried < 8 /\ carried' = carried + 1
        /\ UNCHANGED <<now, flag, pc, polled, k, reads, timestamp, shown, late, asked>>
    BY Zenon DEF IndInv, Carry, KeepCpu
  <1>2. carried' \in 0 .. 8 /\ carried' # 0
    BY <1>1, SMT DEF TypeOK
  <1>3. TypeOK'
    BY <1>1, <1>2, Zenon DEF TypeOK
  <1>4. FirstReadDated'
    BY <1>1, <1>2, Zenon DEF IndInv, FirstReadDated
  <1>5. ReadsFit' /\ SecondReadDated' /\ TimestampDated' /\ ShowsTheClock'
    BY <1>1, Zenon DEF IndInv, ReadsFit, SecondReadDated, TimestampDated, ShowsTheClock
  <1>6. QED
    BY <1>3, <1>4, <1>5, Zenon DEF IndInv

\* An update ends: the seconds are one more than before, and at most two more than the
\* first read found.
LEMMA RtcEndUpdate == IndInv /\ EndUpdate => IndInv'
  <1> SUFFICES ASSUME IndInv, EndUpdate PROVE IndInv'
    OBVIOUS
  <1>1. /\ TypeOK /\ ReadsFit /\ ~polled /\ carried = 8 /\ now' = NextSecond(now) /\ ~flag' /\ flag' = FALSE
        /\ carried' = 0
        /\ UNCHANGED <<pc, polled, k, reads, timestamp, shown, late, asked>>
    BY Zenon DEF IndInv, EndUpdate, KeepCpu
  <1>2. flag /\ 0 \in 0 .. 8 /\ ~(0 > 0) /\ carried # 0
    BY <1>1, SMT DEF TypeOK
  <1>3. Instant(now) /\ Instant(now') /\ now'.sec = (now.sec + 1) % 60
    BY <1>1, NextInstant, Zenon DEF TypeOK
  <1>4. TypeOK'
    BY <1>1, <1>2, <1>3, Zenon DEF TypeOK
  <1>5. FirstReadDated'
    <2> DEFINE r == reads[1][1]
               n == now.sec
    <2> SUFFICES ASSUME (pc = "read1" /\ k > 0) \/ pc = "wait2" \/ (pc = "read2" /\ k = 0), ~late
                 PROVE  \/ now'.sec = (r + 1) % 60
                        \/ now'.sec = (r + 2) % 60 /\ pc = "read2"
      BY <1>1, Zenon DEF FirstReadDated
    <2>1. n = r \/ (n = (r + 1) % 60 /\ pc = "read2")
      BY <1>1, <1>2, Zenon DEF IndInv, FirstReadDated
    <2>2. r \in Nat
      <3>1. reads[1] \in Seq(Nat) /\ k \in 0 .. 7
        BY <1>1, SMT DEF TypeOK
      <3>2. 1 \in 1 .. Len(reads[1])
        BY <1>1, <3>1, SMT DEF ReadsFit
      <3>3. QED
        BY <3>1, <3>2, SMT
    <2> HIDE DEF r, n
    <2>3. n = (r + 1) % 60 => (n + 1) % 60 = (r + 2) % 60
      BY <2>2, SMT
    <2>4. QED
      BY <1>3, <2>1, <2>3, Zenon DEF n
  <1>6. ReadsFit' /\ SecondReadDated' /\ TimestampDated' /\ ShowsTheClock'
    BY <1>1, Zenon DEF IndInv, ReadsFit, SecondReadDated, TimestampDated, ShowsTheClock
  <1>7. QED
    BY <1>4, <1>5, <1>6, Zenon DEF IndInv

\* Nothing happens.
LEMMA RtcStutter == IndInv /\ UNCHANGED vars => IndInv'
  <1> SUFFICES ASSUME IndInv, UNCHANGED vars PROVE IndInv'
    OBVIOUS
  <1>1. UNCHANGED <<now, flag, carried, pc, polled, k, reads, timestamp, shown, late, asked>>
    BY Zenon DEF vars, clockVars
  <1>2. TypeOK' /\ ReadsFit'
    BY <1>1, Zenon DEF IndInv, TypeOK, ReadsFit
  <1>3. FirstReadDated' /\ SecondReadDated'
    BY <1>1, Zenon DEF IndInv, FirstReadDated, SecondReadDated
  <1>4. TimestampDated' /\ ShowsTheClock'
    BY <1>1, Zenon DEF IndInv, TimestampDated, ShowsTheClock
  <1>5. QED
    BY <1>2, <1>3, <1>4, Zenon DEF IndInv

\* The date shown at boot is the instant the clock stood at when the read that is used
\* began, from every date that a timestamp holds, for every number of updates and every interleaving of the
\* clock's carries with the reads.
THEOREM DateShown == Spec => []ShowsTheClock
  <1>1. IndInv /\ [Next]_vars => IndInv'
    BY RtcCall, RtcPoll, RtcReadFirst, RtcReadSecond, RtcCompare, RtcShow, RtcBeginUpdate, RtcCarry,
       RtcEndUpdate, RtcStutter, Zenon DEF Next, Cpu, Clock
  <1>2. IndInv => ShowsTheClock
    BY Zenon DEF IndInv
  <1>3. QED
    BY RtcInit, <1>1, <1>2, PTL DEF Spec
=============================================================================
