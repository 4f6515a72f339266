------------------------------ MODULE Calendar ------------------------------
(***************************************************************************)
(* The civil calendar, what gmtime and pandas compute, and the month and    *)
(* quarter that partitions are named by.  Time is in seconds: of UTC, or   *)
(* of a wall clock (a datetime without a time zone).                       *)
(***************************************************************************)
EXTENDS Integers

CONSTANTS FirstYear, LastYear  \* bound: years GmTime is computed for

(* Since 1992 Shanghai is eight hours ahead of UTC all the year: the loader *)
(* and the writer, which ask pandas for "Asia/Shanghai", and the reader,    *)
(* which adds eight hours (utils.pyx:42), agree.  In the summers from 1986 *)
(* to 1991 pandas takes nine.                                              *)
ASSUME YearsAssumption ==
  FirstYear \in 1992 .. 9999 /\ LastYear \in FirstYear .. 9999

Day == 86400
Offset == 28800

Leap(y) == (y % 4 = 0 /\ y % 100 # 0) \/ y % 400 = 0
MonthLength(y, m) ==
  CASE m = 2               -> IF Leap(y) THEN 29 ELSE 28
    [] m \in {4, 6, 9, 11} -> 30
    [] OTHER               -> 31
DaysToMonth == <<0, 31, 59, 90, 120, 151, 181, 212, 243, 273, 304, 334>>

\* days from 1970-01-01 to the given date
DayNumber(y, m, d) ==
  LET p == y - 1
      leaps == (p \div 4 - p \div 100 + p \div 400) - 477
  IN 365 * (y - 1970) + leaps + DaysToMonth[m]
       + (IF m > 2 /\ Leap(y) THEN 1 ELSE 0) + d - 1

\* the wall clock at a minute of a date
Wall(y, m, d, minute) == DayNumber(y, m, d) * Day + 60 * minute

GmTime(t) ==
  LET n == t \div Day
      y == CHOOSE k \in FirstYear .. LastYear :
             DayNumber(k, 1, 1) <= n /\ n < DayNumber(k + 1, 1, 1)
      m == CHOOSE k \in 1 .. 12 :
             LET i == n - DayNumber(y, k, 1) IN 0 <= i /\ i < MonthLength(y, k)
  IN [y |-> y, m |-> m, d |-> n - DayNumber(y, m, 1) + 1]

\* the seconds of these years
Clocks == DayNumber(FirstYear, 1, 1) * Day .. DayNumber(LastYear + 1, 1, 1) * Day - 1

PartitionSet == [year : FirstYear .. LastYear, quarter : 1 .. 4, date : Nat]
=============================================================================
