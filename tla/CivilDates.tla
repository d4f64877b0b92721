---------------------------- MODULE CivilDates ----------------------------
(***************************************************************************)
(* The civil-calendar arithmetic of app/lua/check.lua, which names the     *)
(* month a check counts against and the second it ends, next to a calendar *)
(* that is turned one day at a time.                                       *)
(***************************************************************************)
EXTENDS Integers

CONSTANT LastDay  \* bound: days since the epoch that are explored

ASSUME LastDayAssumption == LastDay \in Nat

VARIABLES
  day,   \* days since the epoch
  date   \* the reference calendar's date of that day

calendar == <<day, date>>

Date(y, m, d) == [y |-> y, m |-> m, d |-> d]

-----------------------------------------------------------------------------
(* What the script computes                                                *)

\* Days in the era's years before year yoe, which starts in March.
DaysBeforeYear(yoe) == 365 * yoe + yoe \div 4 - yoe \div 100

\* Days in the year before the month mp; March is 0.
DaysBeforeMonth(mp) == (153 * mp + 2) \div 5

SlipYearOfEra(doe) == (doe - doe \div 1460 + doe \div 36524) \div 365
YearOfEra(doe) == (doe - doe \div 1460 + doe \div 36524 - doe \div 146096) \div 365

civil_from_days(days) ==
  LET z == days + 719468
      era == z \div 146097
      doe == z % 146097
      yoe == YearOfEra(doe)
      doy == doe - DaysBeforeYear(yoe)
      mp == (5 * doy + 2) \div 153
      m == IF mp >= 10 THEN mp - 9 ELSE mp + 3
  IN  Date(yoe + era * 400 + (IF m <= 2 THEN 1 ELSE 0), m,
           doy - DaysBeforeMonth(mp) + 1)

SlipEraYear(y, m) == y

\* The year counts from March.
EraYear(y, m) == IF m <= 2 THEN y - 1 ELSE y

days_from_civil(y, m, d) ==
  LET era == EraYear(y, m) \div 400
      yoe == EraYear(y, m) % 400
      mp == IF m <= 2 THEN m + 9 ELSE m - 3
  IN  era * 146097 + DaysBeforeYear(yoe) + DaysBeforeMonth(mp) + d - 1 - 719468

SlipMonthAfter(c) == Date(c.y, (c.m % 12) + 1, 1)

MonthAfter(c) ==
  IF c.m = 12 THEN Date(c.y + 1, 1, 1) ELSE Date(c.y, c.m + 1, 1)

\* month_end_s, in days
MonthEndDay(days) ==
  LET next == MonthAfter(civil_from_days(days))
  IN  days_from_civil(next.y, next.m, next.d)

-----------------------------------------------------------------------------
(* The reference calendar                                                  *)

Leap(y) == y % 4 = 0 /\ (y % 100 = 0 => y % 400 = 0)

DaysIn(y, m) ==
  IF m = 2 THEN (IF Leap(y) THEN 29 ELSE 28)
  ELSE IF m \in {4, 6, 9, 11} THEN 30 ELSE 31

DayAfter(c) ==
  IF c.d < DaysIn(c.y, c.m) THEN [c EXCEPT !.d = @ + 1]
  ELSE IF c.m < 12 THEN Date(c.y, c.m + 1, 1)
  ELSE Date(c.y + 1, 1, 1)

CalendarInit == day = 0 /\ date = Date(1970, 1, 1)

CalendarNext ==
  /\ day < LastDay
  /\ day' = day + 1
  /\ date' = DayAfter(date)

CalendarSpec == CalendarInit /\ [][CalendarNext]_calendar

-----------------------------------------------------------------------------
(* Properties                                                              *)

\* Every day is counted against the month it is in.
DateIsRight == civil_from_days(day) = date

\* The inverse gives back the day.
DayIsRight == days_from_civil(date.y, date.m, date.d) = day

\* The reported reset, and with it the expiry of the quota and the flag, is the
\* first day of the month after this one.
MonthEndIsRight == MonthEndDay(day) = day + DaysIn(date.y, date.m) - date.d + 1
=============================================================================
