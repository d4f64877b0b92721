-------------------------- MODULE CivilDatesProofs --------------------------
(***************************************************************************)
(* Proofs that the month arithmetic of check.lua agrees with the calendar  *)
(* on every day, however many are explored.                                *)
(***************************************************************************)
EXTENDS CivilDates, TLAPS

\* The days before the year Y, which starts in March, and whether it has 366.
DaysTo(Y) == (Y \div 400) * 146097 + DaysBeforeYear(Y % 400)
LongYear(Y) == Leap(Y + 1)

\* The months of a year.
MonthNumbers == 1 .. 12

\* The months counted from March.
MarchMonth(m) == IF m <= 2 THEN m + 9 ELSE m - 3

\* The dates the calendar can show.
DateOK(c) ==
  /\ c = Date(c.y, c.m, c.d)
  /\ c.y \in Nat /\ c.y >= 1970
  /\ c.m \in MonthNumbers
  /\ c.d \in 1 .. DaysIn(c.y, c.m)

-----------------------------------------------------------------------------
(* Years                                                                   *)

\* A year in its era, century and group of four.
LEMMA YearParts ==
  ASSUME NEW n \in 0 .. 399
  PROVE  \E c \in 0 .. 3, q \in 0 .. 24, r \in 0 .. 3 :
           /\ n = 100 * c + 4 * q + r
           /\ n \div 4 = 25 * c + q /\ n \div 100 = c
<1>1. PICK c : c = n \div 100
  OBVIOUS
<1>2. PICK k : k = n - 100 * c
  OBVIOUS
<1>3. PICK q : q = k \div 4
  OBVIOUS
<1>4. PICK r : r = k - 4 * q
  OBVIOUS
<1>5. c \in 0 .. 3 /\ k \in 0 .. 99
  BY <1>1, <1>2
<1>6. q \in 0 .. 24 /\ r \in 0 .. 3
  BY <1>3, <1>4, <1>5
<1>7. n = 100 * c + 4 * q + r
  BY <1>2, <1>4, <1>5, <1>6
<1>8. n \div 4 = 25 * c + q /\ n \div 100 = c
  BY <1>5, <1>6, <1>7
<1> QED
  BY <1>5, <1>6, <1>7, <1>8

\* The year before the next has 365 days, or 366 before a leap February.
LEMMA YearLength ==
  ASSUME NEW Y \in Nat
  PROVE  /\ LongYear(Y) => DaysTo(Y + 1) = DaysTo(Y) + 366
         /\ ~LongYear(Y) => DaysTo(Y + 1) = DaysTo(Y) + 365
<1>1. PICK e, n : e = Y \div 400 /\ n = Y % 400
  OBVIOUS
<1>2. e \in Nat /\ n \in 0 .. 399 /\ Y = 400 * e + n
  BY <1>1
<1>3. PICK c \in 0 .. 3, q \in 0 .. 24, r \in 0 .. 3 :
        /\ n = 100 * c + 4 * q + r
        /\ n \div 4 = 25 * c + q /\ n \div 100 = c
  BY <1>2, YearParts
<1>4. DaysBeforeYear(n) = 365 * n + 25 * c + q - c
  BY <1>2, <1>3 DEF DaysBeforeYear
<1>5. LongYear(Y) <=> r = 3 /\ (q = 24 => c = 3)
  <2>1. (Y + 1) % 4 = 0 <=> r = 3
    BY <1>2, <1>3
  <2>2. (Y + 1) % 100 = 0 <=> q = 24 /\ r = 3
    BY <1>2, <1>3
  <2>3. (Y + 1) % 400 = 0 <=> c = 3 /\ q = 24 /\ r = 3
    BY <1>2, <1>3
  <2> QED
    BY <2>1, <2>2, <2>3 DEF LongYear, Leap
<1>6. CASE n = 399
  <2>1. (Y + 1) \div 400 = e + 1 /\ (Y + 1) % 400 = 0
    BY <1>2, <1>6
  <2>2. DaysBeforeYear(0) = 0
    BY DEF DaysBeforeYear
  <2>3. c = 3 /\ q = 24 /\ r = 3
    BY <1>3, <1>6
  <2> QED
    BY <1>1, <1>2, <1>4, <1>5, <1>6, <2>1, <2>2, <2>3 DEF DaysTo
<1>7. CASE n < 399
  <2>1. (Y + 1) \div 400 = e /\ (Y + 1) % 400 = n + 1
    BY <1>2, <1>7
  <2>2. (n + 1) \div 4 = 25 * c + q + (IF r = 3 THEN 1 ELSE 0)
    BY <1>2, <1>3
  <2>3. (n + 1) \div 100 = c + (IF q = 24 /\ r = 3 THEN 1 ELSE 0)
    BY <1>2, <1>3
  <2>4. q = 24 /\ r = 3 => c # 3
    BY <1>3, <1>7
  <2> QED
    BY <1>1, <1>2, <1>4, <1>5, <2>1, <2>2, <2>3, <2>4 DEF DaysTo, DaysBeforeYear
<1> QED
  BY <1>2, <1>6, <1>7

\* The year is found again from a day of it.
LEMMA YearOfEraIs ==
  ASSUME NEW Y \in Nat, NEW doy \in Nat, doy <= 365, doy = 365 => LongYear(Y)
  PROVE  /\ YearOfEra(DaysBeforeYear(Y % 400) + doy) = Y % 400
         /\ DaysBeforeYear(Y % 400) + doy \in Nat
         /\ DaysBeforeYear(Y % 400) + doy < 146097
<1>1. PICK e, n : e = Y \div 400 /\ n = Y % 400
  OBVIOUS
<1>2. e \in Nat /\ n \in 0 .. 399 /\ Y = 400 * e + n
  BY <1>1
<1>3. PICK c \in 0 .. 3, q \in 0 .. 24, r \in 0 .. 3 :
        /\ n = 100 * c + 4 * q + r
        /\ n \div 4 = 25 * c + q /\ n \div 100 = c
  BY <1>2, YearParts
<1>4. LongYear(Y) <=> r = 3 /\ (q = 24 => c = 3)
  <2>1. (Y + 1) % 4 = 0 <=> r = 3
    BY <1>2, <1>3
  <2>2. (Y + 1) % 100 = 0 <=> q = 24 /\ r = 3
    BY <1>2, <1>3
  <2>3. (Y + 1) % 400 = 0 <=> c = 3 /\ q = 24 /\ r = 3
    BY <1>2, <1>3
  <2> QED
    BY <2>1, <2>2, <2>3 DEF LongYear, Leap
<1>5. PICK doe : doe = DaysBeforeYear(n) + doy
  OBVIOUS
<1>6. doe = 36524 * c + 1461 * q + 365 * r + doy
  BY <1>2, <1>3, <1>5 DEF DaysBeforeYear
<1>7. doy <= 364 \/ (r = 3 /\ (q = 24 => c = 3))
  BY <1>4
<1>8. doe \in Nat /\ doe < 146097
  BY <1>3, <1>6, <1>7
<1>9. doe \div 1460 = 25 * c + q + (IF 24 * c + q + 365 * r + doy >= 1460 THEN 1 ELSE 0)
  BY <1>3, <1>6, <1>7
<1>10. doe \div 36524 = c + (IF doe = 146096 THEN 1 ELSE 0)
  BY <1>3, <1>6, <1>7
<1>11. doe \div 146096 = IF doe = 146096 THEN 1 ELSE 0
  <2>1. CASE doe = 146096
    BY <2>1
  <2>2. CASE doe < 146096
    BY <1>8, <2>2
  <2> QED
    BY <1>8, <2>1, <2>2
<1>12. YearOfEra(doe) = n
  <2>1. PICK a, b : /\ a = IF 24 * c + q + 365 * r + doy >= 1460 THEN 1 ELSE 0
                    /\ b = IF doe = 146096 THEN 1 ELSE 0
    OBVIOUS
  <2>2. a \in {0, 1} /\ b \in {0, 1} /\ (a = 1 => doy >= 1) /\ (doy = 365 => a = 1)
    <3>1. doy = 365 => r = 3
      BY <1>7
    <3> QED
      BY <1>3, <2>1, <3>1
  <2>3. doe - doe \div 1460 + doe \div 36524 - doe \div 146096 = 365 * n + (doy - a)
    BY <1>3, <1>6, <1>8, <1>9, <1>10, <1>11, <2>1, <2>2
  <2>4. doy - a \in 0 .. 364
    BY <2>2
  <2>5. PICK k : k = doy - a
    OBVIOUS
  <2>6. (365 * n + k) \div 365 = n
    BY <1>2, <2>4, <2>5
  <2> QED
    BY <2>3, <2>5, <2>6 DEF YearOfEra
<1> QED
  BY <1>1, <1>5, <1>8, <1>12

-----------------------------------------------------------------------------
(* Months                                                                  *)

\* The days before each month of a year that starts in March.
LEMMA MonthTable ==
  /\ DaysBeforeMonth(0) = 0 /\ DaysBeforeMonth(1) = 31 /\ DaysBeforeMonth(2) = 61
  /\ DaysBeforeMonth(3) = 92 /\ DaysBeforeMonth(4) = 122 /\ DaysBeforeMonth(5) = 153
  /\ DaysBeforeMonth(6) = 184 /\ DaysBeforeMonth(7) = 214 /\ DaysBeforeMonth(8) = 245
  /\ DaysBeforeMonth(9) = 275 /\ DaysBeforeMonth(10) = 306 /\ DaysBeforeMonth(11) = 337
<1>1. DaysBeforeMonth(0) = 0 /\ DaysBeforeMonth(1) = 31 /\ DaysBeforeMonth(2) = 61
  BY DEF DaysBeforeMonth
<1>2. DaysBeforeMonth(3) = 92 /\ DaysBeforeMonth(4) = 122 /\ DaysBeforeMonth(5) = 153
  BY DEF DaysBeforeMonth
<1>3. DaysBeforeMonth(6) = 184 /\ DaysBeforeMonth(7) = 214 /\ DaysBeforeMonth(8) = 245
  BY DEF DaysBeforeMonth
<1>4. DaysBeforeMonth(9) = 275 /\ DaysBeforeMonth(10) = 306 /\ DaysBeforeMonth(11) = 337
  BY DEF DaysBeforeMonth
<1> QED
  BY <1>1, <1>2, <1>3, <1>4

\* A month begins where the one before it ends; a year that starts in March ends with
\* its February.
LEMMA MonthLength ==
  ASSUME NEW y \in Nat, y >= 1, NEW m \in MonthNumbers
  PROVE  /\ m # 2 => DaysBeforeMonth(MarchMonth(m)) + DaysIn(y, m)
                       = DaysBeforeMonth(MarchMonth(m) + 1)
         /\ m = 2 /\ LongYear(EraYear(y, m)) =>
              DaysBeforeMonth(MarchMonth(m)) + DaysIn(y, m) = 366
         /\ m = 2 /\ ~LongYear(EraYear(y, m)) =>
              DaysBeforeMonth(MarchMonth(m)) + DaysIn(y, m) = 365
         /\ DaysIn(y, m) \in Nat /\ DaysIn(y, m) >= 28 /\ DaysIn(y, m) <= 31
         /\ DaysBeforeMonth(MarchMonth(m)) \in Nat /\ MarchMonth(m) \in 0 .. 11 /\ EraYear(y, m) \in Nat
<1>1. m \in {1, 2, 3, 4, 5, 6, 7, 8, 9, 10, 11, 12}
  BY DEF MonthNumbers
<1>2. EraYear(y, m) \in Nat /\ MarchMonth(m) \in 0 .. 11
  BY <1>1 DEF EraYear, MarchMonth
<1>3. CASE m = 2
  <2>1. EraYear(y, m) + 1 = y
    BY <1>3 DEF EraYear
  <2>2. DaysIn(y, m) = IF Leap(y) THEN 29 ELSE 28
    BY <1>3 DEF DaysIn
  <2>3. DaysBeforeMonth(MarchMonth(m)) = 337
    BY <1>3, MonthTable DEF MarchMonth
  <2> QED
    BY <1>2, <1>3, <2>1, <2>2, <2>3 DEF LongYear
<1>4. CASE m \in {1, 3, 5, 7, 8, 10, 12}
  <2>1. DaysIn(y, m) = 31
    BY <1>4 DEF DaysIn
  <2> QED
    BY <1>2, <1>4, <2>1, MonthTable DEF MarchMonth
<1>5. CASE m \in {4, 6, 9, 11}
  <2>1. DaysIn(y, m) = 30
    BY <1>5 DEF DaysIn
  <2> QED
    BY <1>2, <1>5, <2>1, MonthTable DEF MarchMonth
<1> QED
  BY <1>1, <1>3, <1>4, <1>5

\* The month is found again from the day of the year.
LEMMA MonthOfYearIs ==
  ASSUME NEW mp \in 0 .. 11, NEW d \in 1 .. 31,
         mp < 11 => DaysBeforeMonth(mp) + d <= DaysBeforeMonth(mp + 1),
         mp = 11 => d <= 29
  PROVE  (5 * (DaysBeforeMonth(mp) + (d - 1)) + 2) \div 153 = mp
<1>1. mp \in {0, 1, 2, 3, 4, 5, 6, 7, 8, 9, 10, 11}
  OBVIOUS
<1>2. CASE mp \in {0, 1, 2}
  BY <1>2, MonthTable
<1>3. CASE mp \in {3, 4, 5}
  BY <1>3, MonthTable
<1>4. CASE mp \in {6, 7, 8}
  BY <1>4, MonthTable
<1>5. CASE mp \in {9, 10, 11}
  BY <1>5, MonthTable
<1> QED
  BY <1>1, <1>2, <1>3, <1>4, <1>5

-----------------------------------------------------------------------------
(* Days                                                                    *)

\* The day that day 0 of the calendar's first year comes before, 1 January 1970.
Offset == 719469

\* days_from_civil adds the days to the March year, to the month and to the day.
LEMMA DaysFromCivilIs ==
  ASSUME NEW y \in Nat, NEW m \in MonthNumbers, NEW d \in Nat, y >= 1
  PROVE  /\ days_from_civil(y, m, d)
              = (DaysTo(EraYear(y, m)) + DaysBeforeMonth(MarchMonth(m)) + d) - Offset
         /\ DaysTo(EraYear(y, m)) \in Nat /\ DaysBeforeMonth(MarchMonth(m)) \in Nat
         /\ Offset \in Nat
<1>1. PICK Y : Y = EraYear(y, m)
  OBVIOUS
<1>2. Y \in Nat /\ Y \div 400 \in Nat /\ Y % 400 \in 0 .. 399
  BY <1>1 DEF EraYear, MonthNumbers
<1>3. DaysBeforeYear(Y % 400) \in Nat
  <2>1. PICK n \in 0 .. 399 : n = Y % 400
    BY <1>2
  <2>2. DaysBeforeYear(n) \in Nat
    BY DEF DaysBeforeYear
  <2> QED
    BY <2>1, <2>2
<1>4. DaysTo(Y) \in Nat
  BY SMT, <1>2, <1>3 DEF DaysTo
<1>5. DaysBeforeMonth(MarchMonth(m)) \in Nat
  BY MonthLength
<1>6. days_from_civil(y, m, d)
        = DaysTo(Y) + DaysBeforeMonth(MarchMonth(m)) + d - 1 - 719468
  BY SMT, <1>1 DEF days_from_civil, DaysTo, MarchMonth
<1> QED
  BY SMT, <1>1, <1>4, <1>5, <1>6 DEF Offset

\* The first of the next month is as many days on as the month is long.
LEMMA NextMonthIs ==
  ASSUME NEW c, c.y \in Nat, c.y >= 1, c.m \in MonthNumbers
  PROVE  /\ MonthAfter(c) = Date(MonthAfter(c).y, MonthAfter(c).m, 1)
         /\ MonthAfter(c).y \in Nat /\ MonthAfter(c).y >= c.y /\ MonthAfter(c).m \in MonthNumbers
         /\ days_from_civil(MonthAfter(c).y, MonthAfter(c).m, 1)
              = days_from_civil(c.y, c.m, 1) + DaysIn(c.y, c.m)
<1>1. PICK y, m : y = c.y /\ m = c.m
  OBVIOUS
<1>2. /\ y \in Nat /\ y >= 1 /\ m \in MonthNumbers /\ m \in Nat /\ y + 1 \in Nat
      /\ m # 12 => m + 1 \in MonthNumbers
      /\ 1 \in MonthNumbers /\ 3 \in MonthNumbers
  BY <1>1 DEF MonthNumbers
<1>3. PICK Y, mp : Y = EraYear(y, m) /\ mp = MarchMonth(m)
  OBVIOUS
<1>4. PICK one : one = 1
  OBVIOUS
<1>5. /\ days_from_civil(y, m, one) = (DaysTo(Y) + DaysBeforeMonth(mp) + one) - Offset
      /\ DaysTo(Y) \in Nat /\ DaysBeforeMonth(mp) \in Nat /\ Offset \in Nat
  BY <1>2, <1>3, <1>4, DaysFromCivilIs
<1>6. /\ m # 2 => DaysBeforeMonth(mp) + DaysIn(y, m) = DaysBeforeMonth(mp + 1)
      /\ m = 2 /\ LongYear(Y) => DaysBeforeMonth(mp) + DaysIn(y, m) = 366
      /\ m = 2 /\ ~LongYear(Y) => DaysBeforeMonth(mp) + DaysIn(y, m) = 365
      /\ DaysIn(y, m) \in Nat /\ Y \in Nat
  <2>1. /\ m # 2 => DaysBeforeMonth(mp) + DaysIn(y, m) = DaysBeforeMonth(mp + 1)
        /\ DaysIn(y, m) \in Nat /\ Y \in Nat
    BY <1>2, <1>3, MonthLength
  <2>2. m = 2 /\ LongYear(Y) => DaysBeforeMonth(mp) + DaysIn(y, m) = 366
    BY <1>2, <1>3, MonthLength
  <2>3. m = 2 /\ ~LongYear(Y) => DaysBeforeMonth(mp) + DaysIn(y, m) = 365
    BY <1>2, <1>3, MonthLength
  <2> QED
    BY <2>1, <2>2, <2>3
<1>7. CASE m = 12
  <2>1. MonthAfter(c) = Date(y + 1, 1, 1)
    BY <1>1, <1>7 DEF MonthAfter
  <2>2. EraYear(y + 1, 1) = Y /\ MarchMonth(1) = mp + 1
    BY <1>2, <1>3, <1>7 DEF EraYear, MarchMonth
  <2>3. days_from_civil(y + 1, 1, one) = (DaysTo(Y) + DaysBeforeMonth(mp + 1) + one) - Offset
    BY <1>2, <1>4, <2>2, DaysFromCivilIs
  <2>4. days_from_civil(y + 1, 1, 1) = days_from_civil(y, m, 1) + DaysIn(y, m)
    BY <1>4, <1>5, <1>6, <1>7, <2>3
  <2>5. MonthAfter(c).y = y + 1 /\ MonthAfter(c).m = 1
    BY <2>1 DEF Date
  <2> QED
    BY <1>1, <1>2, <2>1, <2>4, <2>5
<1>8. CASE m = 2
  <2>1. MonthAfter(c) = Date(y, 3, 1)
    BY <1>1, <1>8 DEF MonthAfter
  <2>2. EraYear(y, 3) = Y + 1 /\ MarchMonth(3) = 0 /\ DaysBeforeMonth(0) = 0
    BY <1>2, <1>3, <1>8, MonthTable DEF EraYear, MarchMonth
  <2>3. days_from_civil(y, 3, one) = (DaysTo(Y + 1) + 0 + one) - Offset
    BY <1>2, <1>4, <2>2, DaysFromCivilIs
  <2>4. /\ LongYear(Y) => DaysTo(Y + 1) = DaysTo(Y) + 366
        /\ ~LongYear(Y) => DaysTo(Y + 1) = DaysTo(Y) + 365
    BY <1>6, YearLength
  <2>5. days_from_civil(y, 3, 1) = days_from_civil(y, m, 1) + DaysIn(y, m)
    BY <1>4, <1>5, <1>6, <1>8, <2>3, <2>4
  <2>6. MonthAfter(c).y = y /\ MonthAfter(c).m = 3
    BY <2>1 DEF Date
  <2> QED
    BY <1>1, <1>2, <2>1, <2>5, <2>6
<1>9. CASE m # 12 /\ m # 2
  <2>1. MonthAfter(c) = Date(y, m + 1, 1)
    BY <1>1, <1>9 DEF MonthAfter
  <2>2. EraYear(y, m + 1) = Y /\ MarchMonth(m + 1) = mp + 1
    BY <1>2, <1>3, <1>9 DEF EraYear, MarchMonth
  <2>3. days_from_civil(y, m + 1, one)
         = (DaysTo(Y) + DaysBeforeMonth(mp + 1) + one) - Offset
    BY <1>2, <1>4, <1>9, <2>2, DaysFromCivilIs
  <2>4. days_from_civil(y, m + 1, 1) = days_from_civil(y, m, 1) + DaysIn(y, m)
    BY <1>4, <1>5, <1>6, <1>9, <2>3
  <2>5. MonthAfter(c).y = y /\ MonthAfter(c).m = m + 1
    BY <2>1 DEF Date
  <2> QED
    BY <1>1, <1>2, <1>9, <2>1, <2>4, <2>5
<1> QED
  BY <1>7, <1>8, <1>9

\* The days are counted one after the other.
LEMMA NextDayIs ==
  ASSUME NEW c, DateOK(c), NEW next, next = DayAfter(c)
  PROVE  /\ DateOK(next)
         /\ days_from_civil(next.y, next.m, next.d) = days_from_civil(c.y, c.m, c.d) + 1
<1>1. PICK y, m, d : y = c.y /\ m = c.m /\ d = c.d
  OBVIOUS
<1>2. /\ y \in Nat /\ y >= 1970 /\ m \in MonthNumbers /\ d \in 1 .. DaysIn(y, m)
      /\ c = Date(y, m, d)
  BY <1>1 DEF DateOK
<1>3. /\ DaysIn(y, m) \in Nat /\ DaysIn(y, m) >= 28
      /\ d \in Nat /\ 1 <= d /\ d <= DaysIn(y, m)
  BY <1>2, MonthLength
<1>4. PICK D, b : D = DaysTo(EraYear(y, m)) /\ b = DaysBeforeMonth(MarchMonth(m))
  OBVIOUS
<1>5. /\ D \in Nat /\ b \in Nat /\ Offset \in Nat
      /\ days_from_civil(y, m, d) = (D + b + d) - Offset
      /\ days_from_civil(y, m, 1) = (D + b + 1) - Offset
      /\ days_from_civil(y, m, d + 1) = (D + b + (d + 1)) - Offset
  <2>1. \A n \in Nat : days_from_civil(y, m, n) = (D + b + n) - Offset /\ D \in Nat
    BY SMT, <1>2, <1>4, DaysFromCivilIs
  <2>2. d + 1 \in Nat /\ 1 \in Nat /\ b \in Nat /\ Offset \in Nat
    BY SMT, <1>2, <1>3, <1>4, MonthLength DEF Offset
  <2> QED
    BY SMT, <1>3, <2>1, <2>2
<1>6. CASE d < DaysIn(y, m)
  <2>1. DayAfter(c) = [c EXCEPT !.d = @ + 1]
    BY SMT, <1>1, <1>6 DEF DayAfter
  <2>2. [c EXCEPT !.d = @ + 1] = Date(y, m, d + 1)
    BY SMT, <1>2 DEF Date
  <2>3. next.y = y /\ next.m = m /\ next.d = d + 1 /\ next = Date(y, m, d + 1)
    BY SMT, <2>1, <2>2 DEF Date
  <2>4. d + 1 \in 1 .. DaysIn(y, m)
    BY <1>2, <1>3, <1>6
  <2>5. days_from_civil(y, m, d + 1) = days_from_civil(y, m, d) + 1
    BY <1>3, <1>5
  <2> QED
    BY <1>1, <1>2, <2>3, <2>4, <2>5 DEF DateOK
<1>7. CASE ~(d < DaysIn(y, m))
  <2>1. d = DaysIn(y, m)
    BY <1>2, <1>3, <1>7
  <2>2. DayAfter(c) = MonthAfter(c)
    <3>1. m < 12 <=> m # 12
      BY <1>2 DEF MonthNumbers
    <3>2. ~(c.d < DaysIn(c.y, c.m))
      BY <1>1, <1>7
    <3> QED
      BY SMT, <1>1, <3>1, <3>2 DEF DayAfter, MonthAfter
  <2>3. /\ next = Date(next.y, next.m, 1) /\ next.y \in Nat /\ next.y >= y
        /\ next.m \in MonthNumbers
        /\ days_from_civil(next.y, next.m, 1) = days_from_civil(y, m, 1) + DaysIn(y, m)
    BY <1>1, <1>2, <2>2, NextMonthIs
  <2>4. next.d = 1
    BY <2>3 DEF Date
  <2>5. DaysIn(next.y, next.m) \in Nat /\ DaysIn(next.y, next.m) >= 28
    <3>1. next.y >= 1
      BY <1>2, <2>3
    <3> QED
      BY <2>3, <3>1, MonthLength
  <2>6. next.d \in 1 .. DaysIn(next.y, next.m) /\ next.y >= 1970
    BY <1>2, <2>3, <2>4, <2>5
  <2>7. days_from_civil(next.y, next.m, next.d) = days_from_civil(y, m, d) + 1
    BY <1>3, <1>5, <2>1, <2>3, <2>4
  <2> QED
    BY <1>1, <2>3, <2>4, <2>6, <2>7 DEF DateOK
<1> QED
  BY <1>6, <1>7

\* The script finds the date again from the day.
LEMMA CivilIsInverse ==
  ASSUME NEW c, DateOK(c)
  PROVE  civil_from_days(days_from_civil(c.y, c.m, c.d)) = c
<1>1. PICK y, m, d : y = c.y /\ m = c.m /\ d = c.d
  OBVIOUS
<1>2. /\ y \in Nat /\ y >= 1970 /\ y >= 1 /\ m \in MonthNumbers /\ d \in 1 .. DaysIn(y, m)
      /\ c = Date(y, m, d)
  BY <1>1 DEF DateOK
<1>3. /\ DaysIn(y, m) \in Nat /\ DaysIn(y, m) <= 31 /\ DaysIn(y, m) >= 28
      /\ d \in Nat /\ 1 <= d /\ d <= DaysIn(y, m)
  BY <1>2, MonthLength
<1>4. PICK Y, mp : Y = EraYear(y, m) /\ mp = MarchMonth(m)
  OBVIOUS
<1>5. PICK b : b = DaysBeforeMonth(mp)
  OBVIOUS
<1>6. PICK doy : doy = b + (d - 1)
  OBVIOUS
<1>7. Y \in Nat /\ mp \in 0 .. 11 /\ b \in Nat
  BY <1>2, <1>4, <1>5, MonthLength
<1>8. /\ d \in 1 .. 31
      /\ mp < 11 => b + d <= DaysBeforeMonth(mp + 1)
      /\ mp = 11 => d <= 29 /\ (d = 29 => LongYear(Y))
  <2>1. m = 2 <=> mp = 11
    BY <1>2, <1>4 DEF MarchMonth, MonthNumbers
  <2>2. d \in 1 .. 31
    BY <1>3
  <2>3. m # 2 => b + DaysIn(y, m) = DaysBeforeMonth(mp + 1)
    BY <1>2, <1>4, <1>5, MonthLength
  <2>4. mp < 11 => b + d <= DaysBeforeMonth(mp + 1)
    <3> SUFFICES ASSUME mp < 11 PROVE b + d <= DaysBeforeMonth(mp + 1)
      OBVIOUS
    <3>1. b + DaysIn(y, m) = DaysBeforeMonth(mp + 1)
      BY <1>7, <2>1, <2>3
    <3>2. b + d <= b + DaysIn(y, m)
      BY <1>3, <1>7
    <3> QED
      BY <3>1, <3>2
  <2>5. mp = 11 => b = 337
    BY <1>5, MonthTable
  <2>6. m = 2 /\ LongYear(Y) => b + DaysIn(y, m) = 366
    BY <1>2, <1>4, <1>5, MonthLength
  <2>7. m = 2 /\ ~LongYear(Y) => b + DaysIn(y, m) = 365
    BY <1>2, <1>4, <1>5, MonthLength
  <2>8. mp = 11 => d <= 29 /\ (d = 29 => LongYear(Y))
    BY <1>3, <2>1, <2>5, <2>6, <2>7
  <2> QED
    BY <2>2, <2>4, <2>8
<1>9. (5 * doy + 2) \div 153 = mp
  BY <1>5, <1>6, <1>7, <1>8, MonthOfYearIs
<1>10. doy \in Nat /\ doy <= 365 /\ (doy = 365 => LongYear(Y))
  <2>1. mp < 11 => DaysBeforeMonth(mp + 1) <= 337
    <3>1. mp \in {0, 1, 2, 3, 4, 5, 6, 7, 8, 9, 10, 11}
      BY <1>7
    <3> QED
      BY <3>1, MonthTable
  <2>2. mp = 11 => b = 337
    BY <1>5, MonthTable
  <2>3. mp < 11 => b + d <= 337
    <3> SUFFICES ASSUME mp < 11 PROVE b + d <= 337
      OBVIOUS
    <3>1. b + d <= DaysBeforeMonth(mp + 1) /\ DaysBeforeMonth(mp + 1) <= 337
      BY <1>8, <2>1
    <3>2. DaysBeforeMonth(mp + 1) \in Int
      BY <1>7 DEF DaysBeforeMonth
    <3> QED
      BY <1>3, <1>7, <3>1, <3>2
  <2>4. mp < 11 \/ mp = 11
    BY <1>7
  <2> QED
    BY <1>3, <1>6, <1>7, <1>8, <2>2, <2>3, <2>4
<1>11. PICK e, n : e = Y \div 400 /\ n = Y % 400
  OBVIOUS
<1>12. e \in Nat /\ n \in Nat /\ Y = 400 * e + n
  BY <1>7, <1>11
<1>13. PICK doe : doe = DaysBeforeYear(n) + doy
  OBVIOUS
<1>14. doe \in Nat /\ doe < 146097 /\ YearOfEra(doe) = n
  BY SMT, <1>7, <1>10, <1>11, <1>13, YearOfEraIs
<1>15. PICK z : z = days_from_civil(y, m, d) + 719468
  OBVIOUS
<1>16. z = e * 146097 + doe
  <2>1. /\ days_from_civil(y, m, d) = (DaysTo(Y) + b + d) - Offset
        /\ DaysTo(Y) \in Nat
    BY <1>2, <1>3, <1>4, <1>5, DaysFromCivilIs
  <2>2. DaysTo(Y) = e * 146097 + DaysBeforeYear(n)
    BY <1>11 DEF DaysTo
  <2>3. DaysBeforeYear(n) \in Int
    BY <1>12 DEF DaysBeforeYear
  <2> QED
    BY SMT, <1>3, <1>6, <1>7, <1>12, <1>13, <1>15, <2>1, <2>2, <2>3 DEF Offset
<1>17. z \div 146097 = e /\ z % 146097 = doe
  BY SMT, <1>12, <1>14, <1>16
<1>18. doe - DaysBeforeYear(n) = doy
  <2>1. DaysBeforeYear(n) \in Int
    BY <1>12 DEF DaysBeforeYear
  <2> QED
    BY <1>10, <1>13, <2>1
<1>19. (IF mp >= 10 THEN mp - 9 ELSE mp + 3) = m
  BY <1>2, <1>4 DEF MarchMonth, MonthNumbers
<1>20. n + e * 400 + (IF m <= 2 THEN 1 ELSE 0) = y
  BY <1>2, <1>4, <1>12 DEF EraYear, MonthNumbers
<1>21. doy - DaysBeforeMonth(mp) + 1 = d
  BY <1>3, <1>5, <1>6, <1>7
<1>22. civil_from_days(days_from_civil(y, m, d)) = Date(y, m, d)
  BY SMT, <1>9, <1>14, <1>15, <1>17, <1>18, <1>19, <1>20, <1>21 DEF civil_from_days
<1> QED
  BY <1>1, <1>2, <1>22

-----------------------------------------------------------------------------
(* Theorems                                                                *)

\* The date is one of the calendar and the inverse gives back its day: the induction
\* that the other two rest on.
DayInv == DateOK(date) /\ DayIsRight

\* DayInv holds in every behaviour: a day on, the date and its number both move by one.
LEMMA DayInvariant == CalendarSpec => []DayInv
<1>1. CalendarInit => DayInv
  <2> SUFFICES ASSUME CalendarInit PROVE DayInv
    OBVIOUS
  <2>1. date.y = 1970 /\ date.m = 1 /\ date.d = 1 /\ date = Date(1970, 1, 1) /\ day = 0
    BY DEF CalendarInit, Date
  <2>2. DaysIn(1970, 1) = 31
    BY SMT DEF DaysIn
  <2>3. DateOK(date)
    BY SMT, <2>1, <2>2 DEF DateOK, MonthNumbers
  <2>4. EraYear(1970, 1) = 1969 /\ 1969 \div 400 = 4 /\ 1969 % 400 = 369
    BY SMT DEF EraYear
  <2>5. DaysBeforeYear(369) = 134774
    BY SMT DEF DaysBeforeYear
  <2>6. days_from_civil(1970, 1, 1) = 0
    BY SMT, <2>4, <2>5, MonthTable DEF days_from_civil
  <2> QED
    BY SMT, <2>1, <2>3, <2>6 DEF DayInv, DayIsRight
<1>2. DayInv /\ [CalendarNext]_calendar => DayInv'
  <2> SUFFICES ASSUME DayInv, [CalendarNext]_calendar PROVE DayInv'
    OBVIOUS
  <2>1. CASE CalendarNext
    <3>1. date' = DayAfter(date) /\ day' = day + 1
      BY <2>1 DEF CalendarNext
    <3>2. /\ DateOK(date')
          /\ days_from_civil(date'.y, date'.m, date'.d)
               = days_from_civil(date.y, date.m, date.d) + 1
      BY <3>1, NextDayIs DEF DayInv
    <3> QED
      BY <3>1, <3>2 DEF DayInv, DayIsRight, DateOK
  <2>2. CASE UNCHANGED calendar
    BY <2>2 DEF DayInv, DayIsRight, DateOK, calendar
  <2> QED
    BY <2>1, <2>2
<1> QED
  BY <1>1, <1>2, PTL DEF CalendarSpec

\* On every day from 1970 on, days_from_civil is the day of the calendar's date.
THEOREM DayOfDate == CalendarSpec => []DayIsRight
<1>1. DayInv => DayIsRight
  BY DEF DayInv
<1> QED
  BY <1>1, DayInvariant, PTL

\* On every day from 1970 on, civil_from_days names the calendar's date, and so the
\* month a check is counted against.
THEOREM DateOfDay == CalendarSpec => []DateIsRight
<1>1. DayInv => DateIsRight
  BY CivilIsInverse DEF DayInv, DayIsRight, DateIsRight
<1> QED
  BY <1>1, DayInvariant, PTL

\* On every day from 1970 on, the month ends on the first of the next.
THEOREM EndOfMonth == CalendarSpec => []MonthEndIsRight
<1>1. ASSUME DayInv
      PROVE  MonthEndIsRight
  <2>1. civil_from_days(day) = date /\ days_from_civil(date.y, date.m, date.d) = day
    BY <1>1, CivilIsInverse DEF DayInv, DayIsRight
  <2>2. PICK next : next = MonthAfter(date)
    OBVIOUS
  <2>3. /\ date.y \in Nat /\ date.y >= 1 /\ date.m \in MonthNumbers
        /\ DaysIn(date.y, date.m) \in Nat /\ date.d \in Nat /\ date.d >= 1
    <3>1. date.y \in Nat /\ date.y >= 1 /\ date.m \in MonthNumbers
      BY <1>1 DEF DayInv, DateOK
    <3>2. DaysIn(date.y, date.m) \in Nat
      BY <3>1, MonthLength
    <3> QED
      BY <1>1, <3>1, <3>2 DEF DayInv, DateOK
  <2>4. /\ next = Date(next.y, next.m, 1)
        /\ days_from_civil(next.y, next.m, 1)
             = days_from_civil(date.y, date.m, 1) + DaysIn(date.y, date.m)
    BY <2>2, <2>3, NextMonthIs
  <2>5. next.d = 1
    BY <2>4 DEF Date
  <2>6. MonthEndDay(day) = days_from_civil(date.y, date.m, 1) + DaysIn(date.y, date.m)
    BY <2>1, <2>2, <2>4, <2>5 DEF MonthEndDay
  <2>7. days_from_civil(date.y, date.m, 1) = day - date.d + 1 /\ day \in Int
    <3>1. PICK D, one : /\ one = 1
                        /\ D = DaysTo(EraYear(date.y, date.m))
                                 + DaysBeforeMonth(MarchMonth(date.m))
      OBVIOUS
    <3>2. \A n \in Nat : /\ days_from_civil(date.y, date.m, n) = (D + n) - Offset
                         /\ D \in Nat /\ Offset \in Nat
      BY <2>3, <3>1, DaysFromCivilIs
    <3>3. /\ day = (D + date.d) - Offset /\ D \in Nat /\ Offset \in Nat
          /\ days_from_civil(date.y, date.m, one) = (D + one) - Offset
      BY <2>1, <2>3, <3>1, <3>2
    <3> QED
      BY <2>3, <3>1, <3>3
  <2> QED
    BY <2>1, <2>3, <2>6, <2>7 DEF MonthEndIsRight
<1> QED
  BY <1>1, DayInvariant, PTL
=============================================================================
