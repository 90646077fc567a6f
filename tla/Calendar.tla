------------------------------ MODULE Calendar ------------------------------
(***************************************************************************)
(* LDateTime counts days from the first day of the year 1, and turns a count     *)
(* into a date with divisions that need a correction on the last day of a leap    *)
(* year.  The clock here moves from a day to the next one as a script does it:     *)
(* the date becomes a count, and the count plus one a date.                      *)
(*                                                                         *)
(* The time of the day is left out; all counts are positive.                     *)
(***************************************************************************)
EXTENDS Integers

CONSTANT Years  \* the years that the clock goes through

ASSUME CalendarAssumption == Years \subseteq 1 .. 9999

VARIABLE date  \* year, month, day and week of an LDateTime

IsLeapYear(y) == y % 4 = 0 /\ (y % 100 # 0 \/ y % 400 = 0)

DaysOfMonth(y, m) ==
    IF m \in {4, 6, 9, 11} THEN 30
    ELSE IF m # 2 THEN 31
    ELSE IF IsLeapYear(y) THEN 29 ELSE 28

(* The days of the year y before its month m. *)
DaysBefore(y, m) ==
    LET before[k \in 1 .. m] == IF k = 1 THEN 0 ELSE before[k - 1] + DaysOfMonth(y, k - 1)
    IN  before[m]

NumberOfDays(y, m, d) ==
    (y - 1) * 365 + (y - 1) \div 4 - (y - 1) \div 100 + (y - 1) \div 400 + DaysBefore(y, m) + d - 1

(* The date of the day with the number n (from 0) in the year y. *)
DayOfYear(y, n) ==
    LET m == CHOOSE k \in 1 .. 12 : DaysBefore(y, k) <= n /\ n < DaysBefore(y, k) + DaysOfMonth(y, k)
        d == n - DaysBefore(y, m) + 1
    IN  [year |-> y, month |-> m, day |-> d, week |-> (NumberOfDays(y, m, d) + 1) % 7]

(* Mutant: no correction. *)
SetNumberOfDaysPlain(n) ==
    LET in400 == n % 146097
        in100 == in400 % 36524
        in4 == in100 % 1461
        y == (n \div 146097) * 400 + (in400 \div 36524) * 100 + (in100 \div 1461) * 4 + in4 \div 365 + 1
    IN  DayOfYear(y, in4 % 365)

(* The divisions find a fifth year in four (or in four hundred) on the last day of      *)
(* the fourth, if that is a leap year.                                                *)
SetNumberOfDays(n) ==
    LET in400 == n % 146097
        in100 == in400 % 36524
        in4 == in100 % 1461
        y == (n \div 146097) * 400 + (in400 \div 36524) * 100 + (in100 \div 1461) * 4 + in4 \div 365 + 1
    IN  IF in4 % 365 = 0 /\ n + 1 = NumberOfDays(y, 1, 1) THEN DayOfYear(y - 1, 365)
        ELSE DayOfYear(y, in4 % 365)

-----------------------------------------------------------------------------
CalendarInit == \E y \in Years, m \in 1 .. 12 : date = DayOfYear(y, DaysBefore(y, m))

CalendarNext ==
    /\ date.year \in Years
    /\ date' = SetNumberOfDays(NumberOfDays(date.year, date.month, date.day) + 1)

CalendarSpec == CalendarInit /\ [][CalendarNext]_date

(* The successor of a date in the Gregorian calendar. *)
Successor(d) ==
    LET w == (d.week + 1) % 7
    IN  IF d.day < DaysOfMonth(d.year, d.month)
            THEN [d EXCEPT !.day = @ + 1, !.week = w]
        ELSE IF d.month < 12
            THEN [d EXCEPT !.day = 1, !.month = @ + 1, !.week = w]
        ELSE [year |-> d.year + 1, month |-> 1, day |-> 1, week |-> w]

(* No day is lost or repeated: the day after each date is its successor. *)
DaysFollow == [][date' = Successor(date)]_date
=============================================================================
