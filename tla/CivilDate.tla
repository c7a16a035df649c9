------------------------------ MODULE CivilDate ------------------------------
(***************************************************************************)
(* The dates the record parser prints: civil_from_days computes one from a *)
(* day number in closed form, here beside a calendar that turns one day at *)
(* a time.                                                                 *)
(***************************************************************************)
EXTENDS Integers

CONSTANT LastDay   \* the last day a 32-bit timestamp reaches (49710)

ASSUME DayAssumption == LastDay \in Nat

VARIABLES
  day,    \* days since 1970-01-01
  date    \* that day's date: year, month and day of the month

dateVars == <<day, date>>

\* Variant: January and February stay in the year counted from March.
YearOfMarch(y, mo) == y

YearOf(y, mo) == IF mo <= 2 THEN y + 1 ELSE y

\* civil_from_days: years begin in March, so that a leap day is a year's last,
\* and come in eras of 400.
CivilFromDays(days) ==
  LET d == days + 719468
      era == d \div 146097
      doe == d - era * 146097
      yoe == (doe - doe \div 1460 + doe \div 36524 - doe \div 146096) \div 365
      doy == doe - (365 * yoe + yoe \div 4 - yoe \div 100)
      mp == (5 * doy + 2) \div 153
      mo == IF mp < 10 THEN mp + 3 ELSE mp - 9
  IN <<YearOf(yoe + era * 400, mo), mo, doy - (153 * mp + 2) \div 5 + 1>>

Leap(y) == y % 4 = 0 /\ (y % 100 # 0 \/ y % 400 = 0)

DaysIn(y, m) ==
  CASE m = 2 -> IF Leap(y) THEN 29 ELSE 28
    [] m \in {4, 6, 9, 11} -> 30
    [] OTHER -> 31

DateInit == day = 0 /\ date = <<1970, 1, 1>>

Midnight ==
  /\ day < LastDay
  /\ day' = day + 1
  /\ LET y == date[1]
         m == date[2]
         d == date[3]
     IN date' = IF d < DaysIn(y, m) THEN <<y, m, d + 1>>
                ELSE IF m < 12 THEN <<y, m + 1, 1>> ELSE <<y + 1, 1, 1>>

DateSpec == DateInit /\ [][Midnight]_dateVars

\* The closed form is the calendar, on every day a timestamp can name.
DatesAreCivil == date # <<>> => CivilFromDays(day) = date
=============================================================================
