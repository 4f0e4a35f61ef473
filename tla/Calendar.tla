------------------------------- MODULE Calendar -------------------------------
(***************************************************************************)
(* The conversions of Dates beside a walk through the calendar, from       *)
(* 1 January 1970, a Thursday, day by day.                                 *)
(***************************************************************************)
EXTENDS Dates

CONSTANT MAX_DAY  \* days walked

ASSUME CalendarAssumption == MAX_DAY \in Nat

VARIABLES
  day,   \* days since 1 January 1970
  date   \* that day: [year, mon, mday, wday, yday], month and days counted
         \* from one and from Monday, as the calendar does

FirstDay == day = 0 /\ date = [year |-> 1970, mon |-> 1, mday |-> 1, wday |-> 4, yday |-> 1]

NextDay == day < MAX_DAY /\ day' = day + 1 /\ date' = Tomorrow(date)

Walk == FirstDay /\ [][NextDay]_<<day, date>>

-----------------------------------------------------------------------------
(* Properties. *)

\* ts_to_date and asctime_r together: for every day the name of the day of the week,
\* the name of the month, the day and the year that are written are the calendar's, and
\* tm_yday is as far beyond what 1 January has as the day is; across leap years and the
\* centuries that are none.
DateOfEveryDay ==
  /\ asctime_r(ts_to_date(day)) = [wday |-> DayName(date.wday), mon |-> MonthName(date.mon),
                                   mday |-> date.mday, year |-> date.year]
  /\ ts_to_date(day).tm_yday - GetDayOfYear(date.year, 1, 1) = date.yday - 1

\* RTC_DateToTimestamp gives the clock's date of every day the number of that day.
DayOfEveryDate == DateToDays(date.year, date.mon, date.mday) = day

-----------------------------------------------------------------------------
(* The inductive invariant behind them. *)

\* The walk stays in the calendar, with the number of the day its date has.
OnTheWay == day \in Nat /\ Proper(date) /\ DayOfEveryDate
=============================================================================
