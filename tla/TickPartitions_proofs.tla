----------------------- MODULE TickPartitions_proofs -----------------------
(***************************************************************************)
(* Theorems about TickPartitions and the store under it: any graph files,  *)
(* any directories, any number of loads, failures and kills, frames put    *)
(* twice, requests with any dates and epochs, any years from 1992 to 9999. *)
(***************************************************************************)
EXTENDS TickPartitions, Orders_proofs, SequenceTheorems

-----------------------------------------------------------------------------
(* The calendar.                                                           *)

First(year, month) == DayNumber(year, month, 1)
Leaps(year) == (year - 1) \div 4 - (year - 1) \div 100 + (year - 1) \div 400
YearStart(year) == 365 * (year - 1970) + Leaps(year) - 477

LEMMA DivStep4 ==
  ASSUME NEW year \in Nat \ {0}
  PROVE  year \div 4 = (year - 1) \div 4 + (IF year % 4 = 0 THEN 1 ELSE 0)
  OBVIOUS

LEMMA DivStep100 ==
  ASSUME NEW year \in Nat \ {0}
  PROVE  year \div 100 = (year - 1) \div 100 + (IF year % 100 = 0 THEN 1 ELSE 0)
  OBVIOUS

LEMMA DivStep400 ==
  ASSUME NEW year \in Nat \ {0}
  PROVE  year \div 400 = (year - 1) \div 400 + (IF year % 400 = 0 THEN 1 ELSE 0)
  OBVIOUS

LEMMA Multiples ==
  ASSUME NEW year \in Nat \ {0}
  PROVE  (year % 400 = 0 => year % 100 = 0) /\ (year % 100 = 0 => year % 4 = 0)
  OBVIOUS

LEMMA LeapsGrow ==
  ASSUME NEW year \in Nat \ {0}
  PROVE  /\ Leaps(year) \in Int
         /\ Leaps(year + 1) = Leaps(year) + (IF Leap(year) THEN 1 ELSE 0)
  BY DivStep4, DivStep100, DivStep400, Multiples DEF Leaps, Leap

LEMMA LeapsMonotone ==
  ASSUME NEW year \in Nat \ {0}, NEW later \in Nat, year <= later
  PROVE  Leaps(year) <= Leaps(later)
  BY DEF Leaps

\* DaysToMonth, entry by entry.
LEMMA DaysToMonthIs ==
  /\ DaysToMonth[1] = 0 /\ DaysToMonth[2] = 31 /\ DaysToMonth[3] = 59
  /\ DaysToMonth[4] = 90 /\ DaysToMonth[5] = 120 /\ DaysToMonth[6] = 151
  /\ DaysToMonth[7] = 181 /\ DaysToMonth[8] = 212 /\ DaysToMonth[9] = 243
  /\ DaysToMonth[10] = 273 /\ DaysToMonth[11] = 304 /\ DaysToMonth[12] = 334
  BY DEF DaysToMonth

LEMMA FirstIs ==
  ASSUME NEW year \in Nat \ {0}, NEW month \in 1 .. 12
  PROVE  /\ YearStart(year) \in Int /\ DaysToMonth[month] \in Int
         /\ First(year, month) = YearStart(year) + DaysToMonth[month]
              + (IF month > 2 /\ Leap(year) THEN 1 ELSE 0)
<1>1. DaysToMonth[month] \in Int
  BY DaysToMonthIs
<1>2. Leaps(year) \in Int
  BY LeapsGrow
<1> QED  BY <1>1, <1>2 DEF First, DayNumber, YearStart, Leaps

\* Every month but the last of a year ends where the next one starts.
LEMMA MonthEnds ==
  ASSUME NEW year \in Nat \ {0}, NEW month \in 1 .. 11
  PROVE  First(year, month) + MonthLength(year, month) = First(year, month + 1)
<1> DEFINE b == YearStart(year)
           leap == Leap(year)
<1>1. b \in Int /\ month \in 1 .. 12 /\ month + 1 \in 1 .. 12
  BY FirstIs
<1>2. /\ First(year, month) = b + DaysToMonth[month]
           + (IF month > 2 /\ leap THEN 1 ELSE 0)
      /\ First(year, month + 1) = b + DaysToMonth[month + 1]
           + (IF month + 1 > 2 /\ leap THEN 1 ELSE 0)
  BY <1>1, FirstIs
<1> HIDE DEF b, leap
<1>3. MonthLength(year, month) =
        IF month = 2 THEN IF leap THEN 29 ELSE 28
        ELSE IF month \in {4, 6, 9, 11} THEN 30 ELSE 31
  BY DEF MonthLength, leap
<1>4. DaysToMonth[month + 1] = DaysToMonth[month] +
        (IF month = 2 THEN 28 ELSE IF month \in {4, 6, 9, 11} THEN 30 ELSE 31)
  BY DaysToMonthIs
<1>5. DaysToMonth[month] \in Int
  BY DaysToMonthIs
<1> QED  BY <1>1, <1>2, <1>3, <1>4, <1>5

LEMMA YearEnds ==
  ASSUME NEW year \in Nat \ {0}
  PROVE  First(year, 12) + MonthLength(year, 12) = First(year + 1, 1)
<1>1. /\ First(year, 12) = YearStart(year) + DaysToMonth[12]
           + (IF Leap(year) THEN 1 ELSE 0)
      /\ First(year + 1, 1) = YearStart(year + 1) + DaysToMonth[1]
      /\ YearStart(year) \in Int /\ YearStart(year + 1) \in Int
  BY FirstIs
<1>2. MonthLength(year, 12) = 31
  BY DEF MonthLength
<1>3. YearStart(year + 1) = YearStart(year) + 365 + (IF Leap(year) THEN 1 ELSE 0)
  BY LeapsGrow DEF YearStart
<1> QED  BY <1>1, <1>2, <1>3, DaysToMonthIs

LEMMA LengthIs ==
  ASSUME NEW year \in Nat \ {0}, NEW month \in 1 .. 12
  PROVE  MonthLength(year, month) \in 28 .. 31 /\ First(year, month) \in Int
<1>1. MonthLength(year, month) \in 28 .. 31
  BY DEF MonthLength
<1>2. First(year, month) \in Int
  BY FirstIs
<1> QED  BY <1>1, <1>2

\* A month ends before any later one starts.
LEMMA LaterMonth ==
  ASSUME NEW year \in Nat \ {0}, NEW month \in 1 .. 12, NEW k \in 1 .. 12, month < k
  PROVE  First(year, month) + MonthLength(year, month) <= First(year, k)
<1>1. month \in 1 .. 11 /\ month + 1 \in 1 .. 12 /\ month + 1 <= k
  OBVIOUS
<1>2. First(year, month) + MonthLength(year, month) = First(year, month + 1)
  BY <1>1, MonthEnds
<1>3. DaysToMonth[month + 1] <= DaysToMonth[k]
  BY <1>1, DaysToMonthIs
<1>4. First(year, month + 1) <= First(year, k)
  BY <1>1, <1>3, FirstIs, SMTT(30)
<1>5. First(year, month) \in Int /\ MonthLength(year, month) \in Int
  BY LengthIs
<1> QED  BY ONLY <1>2, <1>4, <1>5

LEMMA LaterYear ==
  ASSUME NEW year \in Nat \ {0}, NEW month \in 1 .. 12,
         NEW later \in Nat \ {0}, NEW k \in 1 .. 12, year < later
  PROVE  First(year, month) + MonthLength(year, month) <= First(later, k)
<1>1. First(year, 12) + MonthLength(year, 12) = First(year + 1, 1)
  BY YearEnds
<1>2. First(year, month) + MonthLength(year, month) <= First(year + 1, 1)
  <2>1. CASE month = 12
    BY <1>1, <2>1, LengthIs
  <2>2. CASE month < 12
    <3>1. First(year, month) + MonthLength(year, month) <= First(year, 12)
      BY <2>2, LaterMonth
    <3> QED  BY <1>1, <3>1, LengthIs
  <2> QED  BY <2>1, <2>2
<1>3. Leaps(year + 1) <= Leaps(later) /\ year + 1 <= later
  BY LeapsMonotone
<1>4. YearStart(year + 1) <= YearStart(later)
  BY <1>3, LeapsGrow DEF YearStart
<1>5. First(year + 1, 1) <= First(later, 1)
  BY <1>4, FirstIs
<1>6. First(later, 1) <= First(later, k)
  <2>1. CASE k = 1
    BY <2>1, LengthIs
  <2>2. CASE k > 1
    BY <2>2, LaterMonth, LengthIs
  <2> QED  BY ONLY <2>1, <2>2, k \in 1 .. 12
<1>7. /\ First(year, month) \in Int /\ MonthLength(year, month) \in Int
      /\ First(year + 1, 1) \in Int /\ First(later, 1) \in Int /\ First(later, k) \in Int
  BY LengthIs
<1> QED  BY ONLY <1>2, <1>5, <1>6, <1>7

LEMMA MonthsInOrder ==
  ASSUME NEW year \in Nat \ {0}, NEW month \in 1 .. 12,
         NEW later \in Nat \ {0}, NEW k \in 1 .. 12,
         12 * year + month < 12 * later + k
  PROVE  First(year, month) + MonthLength(year, month) <= First(later, k)
<1>1. CASE year = later
  BY <1>1, LaterMonth
<1>2. CASE year < later
  BY <1>2, LaterYear
<1> QED  BY <1>1, <1>2

\* gmtime finds the month and day of every clock of the years at hand.
LEMMA FirstAndDay ==
  ASSUME NEW year \in Nat \ {0}, NEW month \in 1 .. 12, NEW d \in Int
  PROVE  DayNumber(year, month, d) = First(year, month) + d - 1
<1> DEFINE b == 365 * (year - 1970)
                  + (((year - 1) \div 4 - (year - 1) \div 100 + (year - 1) \div 400) - 477)
           later == IF month > 2 /\ Leap(year) THEN 1 ELSE 0
<1>1. DaysToMonth[month] \in Int
  BY FirstIs
<1>2. b \in Int /\ later \in Int
  OBVIOUS
<1>3. DayNumber(year, month, d) = b + DaysToMonth[month] + later + d - 1
  BY DEF DayNumber
<1>4. First(year, month) = b + DaysToMonth[month] + later + 1 - 1
  BY DEF DayNumber, First
<1> HIDE DEF b, later
<1> QED  BY <1>1, <1>2, <1>3, <1>4

LEMMA ClocksAreIntegers == Clocks \subseteq Int
<1>1. FirstYear \in Nat \ {0} /\ LastYear + 1 \in Nat \ {0} /\ 1 \in 1 .. 12
  BY YearsAssumption
<1>2. First(FirstYear, 1) \in Int /\ First(LastYear + 1, 1) \in Int
  BY <1>1, LengthIs
<1> QED  BY <1>2 DEF Clocks, First, Day

LEMMA GmTimeFacts ==
  ASSUME NEW t \in Int,
         First(FirstYear, 1) <= t \div Day, t \div Day < First(LastYear + 1, 1)
  PROVE  LET c == GmTime(t) IN
         /\ c.y \in FirstYear .. LastYear /\ c.m \in 1 .. 12
         /\ First(c.y, c.m) <= t \div Day
         /\ t \div Day < First(c.y, c.m) + MonthLength(c.y, c.m)
<1> DEFINE n == t \div Day
<1>1. n \in Int
  BY DEF Day
<1>2. FirstYear \in Nat \ {0} /\ LastYear \in Nat \ {0} /\ FirstYear <= LastYear
  BY YearsAssumption
<1>3. First(FirstYear, 1) <= n /\ n < First(LastYear + 1, 1)
  OBVIOUS
<1> HIDE DEF n
<1>4. PICK year \in FirstYear .. LastYear :
        First(year, 1) <= n /\ n < First(year + 1, 1)
  <2> DEFINE Past == {k \in FirstYear .. LastYear : n < First(k + 1, 1)}
  <2>1. Past \in SUBSET Nat /\ LastYear \in Past
    BY <1>2, <1>3
  <2>2. PICK k \in Past : \A j \in Past : k <= j
    BY <2>1, LeastExists
  <2>3. k \in FirstYear .. LastYear /\ n < First(k + 1, 1)
    OBVIOUS
  <2>4. CASE k = FirstYear
    BY <1>3, <2>3, <2>4
  <2>5. CASE k > FirstYear
    <3>1. k - 1 \in FirstYear .. LastYear /\ k - 1 \notin Past
      BY <1>2, <2>2, <2>3, <2>5
    <3>2. (k - 1) + 1 = k
      BY <1>2, <2>3
    <3>3. ~ (n < First(k, 1))
      BY <3>1, <3>2
    <3>4. First(k, 1) \in Int
      BY <1>2, <2>3, LengthIs
    <3> QED  BY <1>1, <2>3, <3>3, <3>4
  <2> QED  BY <1>2, <2>3, <2>4, <2>5
<1> DEFINE Y == CHOOSE k \in FirstYear .. LastYear :
                  DayNumber(k, 1, 1) <= n /\ n < DayNumber(k + 1, 1, 1)
<1>5. /\ Y \in FirstYear .. LastYear
      /\ First(Y, 1) <= n /\ n < First(Y + 1, 1)
  BY <1>4 DEF First
<1> HIDE DEF Y
<1>6. Y \in Nat \ {0}
  BY <1>2, <1>5
<1>7. PICK month \in 1 .. 12 :
        First(Y, month) <= n /\ n < First(Y, month) + MonthLength(Y, month)
  <2> DEFINE Past == {k \in 1 .. 12 : n < First(Y, k) + MonthLength(Y, k)}
  <2>1. Past \in SUBSET Nat /\ 12 \in Past
    BY <1>5, <1>6, YearEnds
  <2>2. PICK k \in Past : \A j \in Past : k <= j
    BY <2>1, LeastExists
  <2>3. k \in 1 .. 12 /\ n < First(Y, k) + MonthLength(Y, k)
    OBVIOUS
  <2>4. CASE k = 1
    BY <1>5, <2>3, <2>4
  <2>5. CASE k > 1
    <3>1. k - 1 \in 1 .. 11 /\ k - 1 \notin Past /\ (k - 1) + 1 = k
      BY <2>2, <2>3, <2>5
    <3>2. First(Y, k - 1) + MonthLength(Y, k - 1) = First(Y, k)
      BY <1>6, <3>1, MonthEnds
    <3>3. ~ (n < First(Y, k))
      BY <3>1, <3>2
    <3>4. First(Y, k) \in Int
      BY <1>6, <2>3, LengthIs
    <3> QED  BY <1>1, <2>3, <3>3, <3>4
  <2> QED  BY <2>3, <2>4, <2>5
<1> DEFINE M == CHOOSE k \in 1 .. 12 :
                  LET i == n - DayNumber(Y, k, 1) IN 0 <= i /\ i < MonthLength(Y, k)
<1>8. /\ M \in 1 .. 12
      /\ 0 <= n - First(Y, M) /\ n - First(Y, M) < MonthLength(Y, M)
  <2>1. /\ 0 <= n - DayNumber(Y, month, 1)
        /\ n - DayNumber(Y, month, 1) < MonthLength(Y, month)
    BY <1>1, <1>6, <1>7, LengthIs DEF First
  <2> QED  BY <2>1 DEF First
<1>9. GmTime(t).y = Y /\ GmTime(t).m = M
  BY DEF GmTime, n, Y, M
<1> HIDE DEF M
<1>10. First(Y, M) <= n /\ n < First(Y, M) + MonthLength(Y, M)
  BY <1>1, <1>6, <1>8, LengthIs
<1> QED  BY <1>5, <1>8, <1>9, <1>10 DEF n

-----------------------------------------------------------------------------
(* Months in a row, and the clocks that lie in them.                       *)

Index(c) == 12 * c.y + c.m
MonthEnd(c) == First(c.y, c.m) + MonthLength(c.y, c.m)
IsMonth(c) == c.y \in FirstYear .. LastYear /\ c.m \in 1 .. 12

\* The seconds of a day, and a day of seconds.
LEMMA DayOf ==
  ASSUME NEW t \in Int, NEW n \in Int
  PROVE  /\ t \div 86400 \in Int
         /\ n * 86400 <= t <=> n <= t \div 86400
         /\ t < n * 86400 <=> t \div 86400 < n
  OBVIOUS

LEMMA MonthFacts ==
  ASSUME NEW c, IsMonth(c)
  PROVE  /\ c.y \in Nat \ {0} /\ c.m \in 1 .. 12 /\ Index(c) \in Int
         /\ First(c.y, c.m) \in Int /\ MonthEnd(c) \in Int
         /\ First(c.y, c.m) < MonthEnd(c)
<1>0. FirstYear \in Nat \ {0} /\ LastYear \in Nat
  BY YearsAssumption
<1>1. c.y \in Nat \ {0} /\ c.m \in 1 .. 12
  BY <1>0 DEF IsMonth
<1>2. First(c.y, c.m) \in Int /\ MonthLength(c.y, c.m) \in 28 .. 31
  BY <1>1, LengthIs
<1> QED  BY <1>1, <1>2 DEF Index, MonthEnd

LEMMA SameMonth ==
  ASSUME NEW c, NEW d, IsMonth(c), IsMonth(d), Index(c) = Index(d)
  PROVE  c.y = d.y /\ c.m = d.m
  BY MonthFacts DEF Index

LEMMA MonthsApart ==
  ASSUME NEW c, NEW d, IsMonth(c), IsMonth(d), Index(c) < Index(d)
  PROVE  MonthEnd(c) <= First(d.y, d.m)
  BY MonthFacts, MonthsInOrder DEF Index, MonthEnd

\* The month gmtime names is the one the clock is in.
LEMMA MonthOfClock ==
  ASSUME NEW t \in Clocks
  PROVE  LET c == GmTime(t) IN
         /\ IsMonth(c)
         /\ First(c.y, c.m) * Day <= t /\ t < MonthEnd(c) * Day
<1> DEFINE c == GmTime(t)
<1>1. /\ FirstYear \in Nat \ {0} /\ LastYear + 1 \in Nat \ {0}
  BY YearsAssumption
<1>2. First(FirstYear, 1) \in Int /\ First(LastYear + 1, 1) \in Int
  BY <1>1, LengthIs
<1>3. /\ t \in Int /\ First(FirstYear, 1) * 86400 <= t
      /\ t < First(LastYear + 1, 1) * 86400
  BY <1>2 DEF Clocks, First, Day
<1>4. First(FirstYear, 1) <= t \div Day /\ t \div Day < First(LastYear + 1, 1)
  BY <1>2, <1>3, DayOf DEF Day
<1>5. /\ c.y \in FirstYear .. LastYear /\ c.m \in 1 .. 12
      /\ First(c.y, c.m) <= t \div Day
      /\ t \div Day < First(c.y, c.m) + MonthLength(c.y, c.m)
  BY <1>3, <1>4, GmTimeFacts
<1> HIDE DEF c
<1>6. IsMonth(c)
  BY <1>5 DEF IsMonth
<1>7. First(c.y, c.m) \in Int /\ MonthEnd(c) \in Int
  BY <1>6, MonthFacts
<1> QED  BY <1>3, <1>5, <1>6, <1>7, DayOf DEF Day, MonthEnd, c

\* A clock at or after the start of a month, and one before its end.
LEMMA ClockAfter ==
  ASSUME NEW c, IsMonth(c), NEW t \in Clocks, First(c.y, c.m) * Day <= t
  PROVE  Index(c) <= Index(GmTime(t))
<1> DEFINE g == GmTime(t)
<1>1. IsMonth(g) /\ t < MonthEnd(g) * Day
  BY MonthOfClock
<1> HIDE DEF g
<1>2. /\ Index(c) \in Int /\ Index(g) \in Int
      /\ First(c.y, c.m) \in Int /\ MonthEnd(g) \in Int
  BY <1>1, MonthFacts
<1>3. ~ (MonthEnd(g) <= First(c.y, c.m))
  <2>1. t \in Int
    BY ClocksAreIntegers
  <2>2. First(c.y, c.m) <= t \div 86400 /\ t \div 86400 < MonthEnd(g)
    BY <1>1, <1>2, <2>1, DayOf DEF Day
  <2> QED  BY <1>2, <2>1, <2>2, DayOf
<1> QED  BY <1>1, <1>2, <1>3, MonthsApart DEF g

LEMMA ClockBefore ==
  ASSUME NEW c, IsMonth(c), NEW t \in Clocks, t < MonthEnd(c) * Day
  PROVE  Index(GmTime(t)) <= Index(c)
<1> DEFINE g == GmTime(t)
<1>1. IsMonth(g) /\ First(g.y, g.m) * Day <= t
  BY MonthOfClock
<1> HIDE DEF g
<1>2. /\ Index(c) \in Int /\ Index(g) \in Int
      /\ First(g.y, g.m) \in Int /\ MonthEnd(c) \in Int
  BY <1>1, MonthFacts
<1>3. ~ (MonthEnd(c) <= First(g.y, g.m))
  <2>1. t \in Int
    BY ClocksAreIntegers
  <2>2. First(g.y, g.m) <= t \div 86400 /\ t \div 86400 < MonthEnd(c)
    BY <1>1, <1>2, <2>1, DayOf DEF Day
  <2> QED  BY <1>2, <2>1, <2>2, DayOf
<1> QED  BY <1>1, <1>2, <1>3, MonthsApart DEF g

-----------------------------------------------------------------------------
(* The stamps of a request.                                                *)

LEMMA DayInMonth ==
  ASSUME NEW f \in Int, NEW l \in Int, NEW d \in 1 .. l, NEW b \in {0, 86399}
  PROVE  /\ (f + d - 1) * 86400 - 28800 + b \in Int
         /\ f * 86400 - 28800 <= (f + d - 1) * 86400 - 28800 + b
         /\ (f + d - 1) * 86400 - 28800 + b < (f + l) * 86400 - 28800
  OBVIOUS

\* Both bounds the filter may take from a stamp lie in the month that the
\* partitions are planned from: the shift to Shanghai and the one of the filter
\* agree.
LEMMA BoundsInMonth ==
  ASSUME NEW stamp \in Starts \cup Ends, NEW isEnd \in BOOLEAN
  PROVE  LET c == ParseToYmd(stamp) IN
         /\ IsMonth(c)
         /\ FilterBound(stamp, isEnd) \in Int
         /\ First(c.y, c.m) * Day - Offset <= FilterBound(stamp, isEnd)
         /\ FilterBound(stamp, isEnd) < MonthEnd(c) * Day - Offset
<1> DEFINE c == ParseToYmd(stamp)
<1>1. stamp \in Int /\ Valid(stamp)
  BY StampsAssumption
<1>2. CASE IsDate(stamp)
  <2>1. c = DateOf(stamp)
    BY <1>2 DEF ParseToYmd
  <2> HIDE DEF c
  <2>2. IsMonth(c) /\ c.d \in 1 .. MonthLength(c.y, c.m)
    BY <1>1, <1>2, <2>1 DEF Valid, IsMonth
  <2>3. /\ c.y \in Nat \ {0} /\ First(c.y, c.m) \in Int
        /\ MonthLength(c.y, c.m) \in 28 .. 31 /\ c.m \in 1 .. 12
    BY <2>2, MonthFacts, LengthIs
  <2>4. DayNumber(c.y, c.m, c.d) = First(c.y, c.m) + c.d - 1
    BY <2>2, <2>3, FirstAndDay, SMTT(20)
  <2>5. FilterBound(stamp, isEnd) =
          DayNumber(c.y, c.m, c.d) * 86400 - 28800 + (IF isEnd THEN 86400 - 1 ELSE 0)
    BY <1>2, <2>1 DEF FilterBound, Day, Offset
  <2>6. MonthEnd(c) = First(c.y, c.m) + MonthLength(c.y, c.m)
    BY DEF MonthEnd
  <2>8. (IF isEnd THEN 86400 - 1 ELSE 0) \in {0, 86399}
    OBVIOUS
  <2> QED  BY <2>2, <2>3, <2>4, <2>5, <2>6, <2>8, DayInMonth DEF Day, Offset, c
<1>3. CASE ~ IsDate(stamp)
  <2>1. c = GmTime(stamp + Offset) /\ FilterBound(stamp, isEnd) = stamp
    BY <1>3 DEF ParseToYmd, FilterBound
  <2>2. stamp + Offset \in Clocks
    BY <1>1, <1>3 DEF Valid
  <2>3. /\ IsMonth(c)
        /\ First(c.y, c.m) * Day <= stamp + Offset /\ stamp + Offset < MonthEnd(c) * Day
    BY <2>1, <2>2, MonthOfClock
  <2> HIDE DEF c
  <2>4. First(c.y, c.m) \in Int /\ MonthEnd(c) \in Int
    BY <2>3, MonthFacts
  <2> QED  BY <1>1, <2>1, <2>3, <2>4 DEF Day, Offset, c
<1> QED  BY <1>2, <1>3

LEMMA FromShanghai ==
  ASSUME NEW f \in Int, NEW b \in Int, NEW t \in Int,
         f * 86400 - 28800 <= b, b <= t - 28800
  PROVE  f * 86400 <= t
  OBVIOUS

LEMMA ToShanghai ==
  ASSUME NEW f \in Int, NEW b \in Int, NEW t \in Int,
         t - 28800 <= b, b < f * 86400 - 28800
  PROVE  t < f * 86400
  OBVIOUS

\* The month of a clock that the filter lets through is one of the plan.
LEMMA MonthWanted ==
  ASSUME NEW s \in Starts, NEW e \in Ends, NEW clock \in Clocks,
         FilterBound(s, FALSE) <= clock - Offset,
         clock - Offset <= FilterBound(e, TRUE)
  PROVE  /\ Index(ParseToYmd(s)) <= Index(GmTime(clock))
         /\ Index(GmTime(clock)) <= Index(ParseToYmd(e))
<1> DEFINE a == ParseToYmd(s)
           z == ParseToYmd(e)
<1>0. clock \in Int
  BY ClocksAreIntegers
<1>1. /\ IsMonth(a) /\ FilterBound(s, FALSE) \in Int
      /\ First(a.y, a.m) * Day - Offset <= FilterBound(s, FALSE)
  BY BoundsInMonth
<1>2. /\ IsMonth(z) /\ FilterBound(e, TRUE) \in Int
      /\ FilterBound(e, TRUE) < MonthEnd(z) * Day - Offset
  BY BoundsInMonth
<1> HIDE DEF a, z
<1> PICK b \in Int : /\ First(a.y, a.m) * Day - Offset <= b /\ b <= clock - Offset
  BY <1>1, Zenon
<1> PICK d \in Int : /\ clock - Offset <= d /\ d < MonthEnd(z) * Day - Offset
  BY <1>2, Zenon
<1>3. First(a.y, a.m) \in Int /\ MonthEnd(z) \in Int
  BY <1>1, <1>2, MonthFacts
<1>4. First(a.y, a.m) * Day <= clock
  <2>1. First(a.y, a.m) * 86400 - 28800 <= b /\ b <= clock - 28800
    BY DEF Day, Offset
  <2>2. First(a.y, a.m) * 86400 <= clock
    BY ONLY <1>0, <1>3, <2>1, b \in Int, FromShanghai
  <2> QED  BY <2>2 DEF Day
<1>5. clock < MonthEnd(z) * Day
  <2>1. clock - 28800 <= d /\ d < MonthEnd(z) * 86400 - 28800
    BY DEF Day, Offset
  <2>2. clock < MonthEnd(z) * 86400
    BY ONLY <1>0, <1>3, <2>1, d \in Int, ToShanghai
  <2> QED  BY <2>2 DEF Day
<1> QED  BY <1>1, <1>2, <1>4, <1>5, ClockAfter, ClockBefore DEF a, z
-----------------------------------------------------------------------------
(* Partitions.                                                             *)

LEMMA PartitionFacts ==
  ASSUME NEW c, IsMonth(c)
  PROVE  LET p == Partition(c.y, c.m) IN
         /\ p \in PartitionSet /\ p.year = c.y
         /\ p.date = 100 * c.y + c.m /\ p.date % 100 = c.m
<1>1. c.y \in Nat \ {0} /\ c.m \in 1 .. 12 /\ c.y \in FirstYear .. LastYear
  BY MonthFacts DEF IsMonth
<1>2. Quarter(c.m) \in 1 .. 4
  BY <1>1 DEF Quarter
<1>3. (100 * c.y + c.m) % 100 = c.m /\ 100 * c.y + c.m \in Nat
  BY ONLY <1>1
<1> QED  BY <1>1, <1>2, <1>3 DEF Partition, PartitionSet

\* The months between those of the request's dates.
LEMMA MonthInVain ==
  ASSUME NEW s \in Starts, NEW e \in Ends, NEW c, IsMonth(c),
         Index(ParseToYmd(s)) <= Index(c), Index(c) <= Index(ParseToYmd(e))
  PROVE  LET first == DayNumber(c.y, c.m, 1) * Day - Offset
         IN  /\ FilterBound(s, FALSE) < first + MonthLength(c.y, c.m) * Day
             /\ first <= FilterBound(e, TRUE)
<1> DEFINE a == ParseToYmd(s)
           z == ParseToYmd(e)
<1>1. /\ IsMonth(a) /\ FilterBound(s, FALSE) \in Int
      /\ FilterBound(s, FALSE) < MonthEnd(a) * Day - Offset
  BY BoundsInMonth
<1>2. /\ IsMonth(z) /\ FilterBound(e, TRUE) \in Int
      /\ First(z.y, z.m) * Day - Offset <= FilterBound(e, TRUE)
  BY BoundsInMonth
<1> HIDE DEF a, z
<1>8. PICK b \in Int : b = FilterBound(s, FALSE) /\ b < MonthEnd(a) * Day - Offset
  BY <1>1, Zenon
<1>9. PICK d \in Int : d = FilterBound(e, TRUE) /\ First(z.y, z.m) * Day - Offset <= d
  BY <1>2, Zenon
<1>3. /\ First(z.y, z.m) \in Int /\ MonthEnd(a) \in Int
      /\ First(c.y, c.m) \in Int /\ MonthEnd(c) \in Int
      /\ Index(a) \in Int /\ Index(c) \in Int /\ Index(z) \in Int
  BY <1>1, <1>2, MonthFacts
<1>4. MonthEnd(a) <= MonthEnd(c)
  <2>1. CASE Index(a) < Index(c)
    BY <1>1, <1>3, <2>1, MonthsApart, MonthFacts
  <2>2. CASE Index(a) = Index(c)
    BY <1>1, <1>3, <2>2, SameMonth DEF MonthEnd
  <2> QED  BY <1>3, <2>1, <2>2 DEF a
<1>5. First(c.y, c.m) <= First(z.y, z.m)
  <2>1. CASE Index(c) < Index(z)
    BY <1>2, <1>3, <2>1, MonthsApart, MonthFacts
  <2>2. CASE Index(c) = Index(z)
    BY <1>2, <1>3, <2>2, SameMonth
  <2> QED  BY <1>3, <2>1, <2>2 DEF z
<1>6. b < First(c.y, c.m) * 86400 - 28800 + MonthLength(c.y, c.m) * 86400
  <2>1. MonthLength(c.y, c.m) \in Int
    BY MonthFacts, LengthIs
  <2>2. MonthEnd(c) = First(c.y, c.m) + MonthLength(c.y, c.m)
    BY DEF MonthEnd
  <2>4. b < MonthEnd(a) * Day - Offset
    BY <1>8, Zenon
  <2>3. b < MonthEnd(a) * 86400 - 28800
    BY ONLY <2>4 DEF Day, Offset
  <2> QED  BY ONLY <1>3, <1>4, <2>1, <2>2, <2>3, b \in Int
<1>7. First(c.y, c.m) * 86400 - 28800 <= d
  <2>2. First(z.y, z.m) * Day - Offset <= d
    BY <1>9, Zenon
  <2>1. First(z.y, z.m) * 86400 - 28800 <= d
    BY ONLY <2>2 DEF Day, Offset
  <2> QED  BY ONLY <1>3, <1>5, <2>1, d \in Int
<1>10. /\ b < DayNumber(c.y, c.m, 1) * Day - Offset + MonthLength(c.y, c.m) * Day
       /\ DayNumber(c.y, c.m, 1) * Day - Offset <= d
  BY ONLY <1>6, <1>7 DEF Day, Offset, First
<1> QED  BY <1>8, <1>9, <1>10, Zenon

-----------------------------------------------------------------------------
(* What the loads leave on disk.                                           *)

\* What is on disk: every entry is a file of a load that was, under the name
\* all full loads use or a name of the load's own.
IsFile(x) == "dir" \in DOMAIN x /\ "name" \in DOMAIN x /\ "load" \in DOMAIN x
FilesInv ==
  \A x \in disk : /\ IsFile(x) /\ x.load \in 1 .. loads
                  /\ x.name \in {0, x.load}

\* The load that runs: an incremental one has names of its own, and where a
\* full one has opened a file there is no other.
LoadInv ==
  /\ loads \in Nat
  /\ graph # NoLoad => loads > 0
  /\ graph # NoLoad /\ graph.incr =>
       \A x \in disk : x.load = loads => x.name = loads
  /\ graph # NoLoad /\ ~graph.incr =>
       \A x, z \in disk : x.dir = z.dir /\ x.load = loads => z = x

\* Nothing is written when no load runs.
JobInv ==
  graph = NoLoad => /\ todo = {} /\ again = {} /\ converted = {}
                    /\ \A c \in Consumers : job[c] = NoJob

StoreInv == FilesInv /\ LoadInv /\ JobInv /\ FullLoadReplaces

LEMMA StoreInitInv == StoreInit => StoreInv
  BY DEF StoreInit, StoreInv, FilesInv, LoadInv, JobInv, FullLoadReplaces

(* A step that leaves the disk alone and starts no load.                   *)
LEMMA DiskKept ==
  ASSUME StoreInv, disk' = disk, loads' = loads, graph' = graph \/ graph' = NoLoad,
         JobInv'
  PROVE  StoreInv'
  BY DEF StoreInv, FilesInv, LoadInv, FullLoadReplaces, IsFile

LEMMA LoadStep ==
  ASSUME StoreInv, NEW g \in Graphs, NEW directory \in Directories,
         Load(g, directory)
  PROVE  StoreInv'
<1>1. /\ disk' = disk /\ loads' = loads + 1 /\ loads \in Nat
      /\ \A x \in disk : x.load \in 1 .. loads
  BY DEF Load, StoreInv, LoadInv, FilesInv
<1>2. \A x \in disk : x.load \in 1 .. loads' /\ x.load # loads'
  BY <1>1
<1>3. FilesInv'
  BY <1>1, <1>2 DEF StoreInv, FilesInv, IsFile
<1>4. LoadInv'
  BY <1>1, <1>2 DEF LoadInv
<1>5. JobInv'
  BY NoLoadAssumption DEF Load, JobInv
<1> QED  BY <1>1, <1>3, <1>4, <1>5 DEF StoreInv, FullLoadReplaces

(* A file is opened: what is left beside it is older, and stays older.     *)
LEMMA OpenStep ==
  ASSUME StoreInv, NEW c \in Consumers, NEW d, OpenPartition(c, d), graph # NoLoad
  PROVE  StoreInv'
<1> PICK w \in Holders(c, d) :
       disk' = {x \in disk : x.dir = d => SurvivesIn(graph, x)}
                 \cup {[dir |-> d, name |-> Basename(graph), load |-> loads,
                        file |-> job[c].file, by |-> w,
                        complete |-> FALSE, rows |-> {}]}
  BY DEF OpenPartition
<1> DEFINE new == [dir |-> d, name |-> Basename(graph), load |-> loads,
                   file |-> job[c].file, by |-> w, complete |-> FALSE, rows |-> {}]
<1>0. FilesInv /\ LoadInv /\ FullLoadReplaces /\ loads \in Nat /\ loads > 0
  BY DEF StoreInv, LoadInv
<1>1. /\ disk' = {x \in disk : x.dir = d => SurvivesIn(graph, x)} \cup {new}
      /\ graph' = graph /\ loads' = loads
  BY DEF OpenPartition
<1>2. /\ new.dir = d /\ new.load = loads /\ ~new.complete
      /\ new.name = IF graph.incr THEN loads ELSE 0
      /\ IsFile(new)
  BY DEF Basename, IsFile
<1>3. FilesInv'
  BY <1>0, <1>1, <1>2 DEF FilesInv, IsFile
<1>4. LoadInv'
  <2>1. CASE graph.incr
    BY <1>0, <1>1, <1>2, <2>1 DEF LoadInv
  <2>2. CASE ~graph.incr
    <3>1. \A x \in disk' : x.dir = d => x = new
      BY <1>1, <1>2, <2>2 DEF SurvivesIn
    <3>2. \A x \in disk' : x = new \/ x \in disk
      BY <1>1
    <3>3. \A x, z \in disk' : x.dir = z.dir /\ x.load = loads => z = x
      BY <1>0, <1>2, <2>2, <3>1, <3>2 DEF LoadInv
    <3> QED  BY <1>0, <1>1, <2>2, <3>3 DEF LoadInv
  <2> QED  BY <2>1, <2>2
<1>5. FullLoadReplaces'
  <2> SUFFICES ASSUME NEW x \in disk', NEW z \in disk', x.dir = z.dir,
                      x.complete, x.name = 0, z # x
               PROVE  z.load > x.load
    BY DEF FullLoadReplaces
  <2>1. x \in disk /\ (x.dir = d => SurvivesIn(graph, x))
    BY <1>1, <1>2
  <2>2. CASE z = new
    <3>1. graph.incr
      BY <1>2, <2>1, <2>2 DEF SurvivesIn
    <3>2. x.load # loads /\ x.load \in 1 .. loads
      BY <1>0, <2>1, <3>1 DEF LoadInv, FilesInv
    <3> QED  BY <1>0, <1>2, <2>2, <3>2
  <2>3. CASE z # new
    <3>1. z \in disk
      BY <1>1, <2>3
    <3> QED  BY <1>0, <2>1, <3>1 DEF FullLoadReplaces
  <2> QED  BY <2>2, <2>3
<1> QED  BY <1>1, <1>3, <1>4, <1>5 DEF StoreInv, JobInv

(* The files of a writer are closed: only the running load's.              *)
LEMMA CloseStep ==
  ASSUME StoreInv, NEW c \in Consumers, CloseFiles(c), graph # NoLoad
  PROVE  StoreInv'
<1> DEFINE W == WrittenBy(c)
           shut(x) == [x EXCEPT !.by = NoWriter, !.complete = TRUE,
                                !.rows = RowsFor(job[c].table, x.dir)]
<1>0. FilesInv /\ LoadInv /\ FullLoadReplaces /\ loads \in Nat /\ loads > 0
  BY DEF StoreInv, LoadInv
<1>1. disk' = (disk \ W) \cup {shut(x) : x \in W} /\ graph' = graph /\ loads' = loads
  BY DEF CloseFiles
<1>2. W \subseteq disk /\ \A x \in W : x.load = loads
  BY DEF WrittenBy
<1>3. ASSUME NEW x \in W
      PROVE  /\ shut(x).dir = x.dir /\ shut(x).name = x.name
             /\ shut(x).load = x.load /\ IsFile(shut(x))
  <2>1. IsFile(x)
    BY <1>0, <1>2 DEF FilesInv
  <2> QED  BY <2>1 DEF IsFile
<1> HIDE DEF W, shut
<1>4. \A x \in disk' : \E o \in disk :
        /\ x = IF o \in W THEN shut(o) ELSE o
        /\ x.dir = o.dir /\ x.name = o.name /\ x.load = o.load /\ IsFile(x)
        /\ x.complete => o.complete \/ o \in W
  <2> SUFFICES ASSUME NEW x \in disk'
               PROVE  \E o \in disk :
                        /\ x = IF o \in W THEN shut(o) ELSE o
                        /\ x.dir = o.dir /\ x.name = o.name /\ x.load = o.load
                        /\ IsFile(x)
                        /\ x.complete => o.complete \/ o \in W
    OBVIOUS
  <2>1. CASE x \in disk \ W
    BY <1>0, <2>1 DEF FilesInv
  <2>2. CASE x \in {shut(o) : o \in W}
    <3>1. PICK o \in W : x = shut(o)
      BY <2>2
    <3> QED  BY <1>2, <1>3, <3>1
  <2> QED  BY <1>1, <2>1, <2>2
<1>5. FilesInv'
  BY <1>0, <1>1, <1>4 DEF FilesInv
<1>6. LoadInv'
  BY <1>0, <1>1, <1>4 DEF LoadInv
<1>7. FullLoadReplaces'
  <2> SUFFICES ASSUME NEW x \in disk', NEW z \in disk', x.dir = z.dir,
                      x.complete, x.name = 0, z # x
               PROVE  z.load > x.load
    BY DEF FullLoadReplaces
  <2>1. PICK o \in disk :
          /\ x = IF o \in W THEN shut(o) ELSE o
          /\ x.dir = o.dir /\ x.name = o.name /\ x.load = o.load
          /\ x.complete => o.complete \/ o \in W
    BY <1>4
  <2>2. PICK p \in disk : /\ z = IF p \in W THEN shut(p) ELSE p
                          /\ z.dir = p.dir /\ z.load = p.load
    BY <1>4
  <2>3. p # o
    BY <2>1, <2>2
  <2>4. CASE o \in W
    <3>1. ~graph.incr
      BY <1>0, <1>2, <2>1, <2>4 DEF LoadInv
    <3> QED  BY <1>0, <1>2, <2>1, <2>2, <2>3, <2>4, <3>1 DEF LoadInv
  <2>5. CASE o.complete
    BY <1>0, <2>1, <2>2, <2>3, <2>5 DEF FullLoadReplaces
  <2> QED  BY <2>1, <2>4, <2>5
<1> QED  BY <1>1, <1>5, <1>6, <1>7 DEF StoreInv, JobInv

LEMMA StoreStep ==
  ASSUME StoreInv, [StoreNext]_storeVars
  PROVE  StoreInv'
<1>0. JobInv
  BY DEF StoreInv
<1>1. ASSUME NEW f \in todo, Lose(f) PROVE StoreInv'
  BY <1>0, <1>1, DiskKept DEF Lose, JobInv, twiceVars
<1>2. ASSUME NEW f \in todo, NEW c \in Consumers, Take(c, f) PROVE StoreInv'
  <2>1. graph # NoLoad
    BY <1>0, <1>2 DEF JobInv
  <2> QED  BY <1>2, <2>1, DiskKept DEF Take, JobInv
<1>3. ASSUME NEW c \in Consumers, NEW j \in again, TakeAgain(c, j) PROVE StoreInv'
  <2>1. graph # NoLoad
    BY <1>0, <1>3 DEF JobInv
  <2> QED  BY <1>3, <2>1, DiskKept DEF TakeAgain, JobInv
<1>4. ASSUME NEW c \in Consumers, job[c] # NoJob,
             \/ MakePartition(c) \/ WriteFails(c) \/ CloseFiles(c)
             \/ \E d \in DirsOf(job[c].table) : OpenPartition(c, d)
      PROVE  StoreInv'
  <2>1. graph # NoLoad
    BY <1>0, <1>4 DEF JobInv
  <2>2. CASE MakePartition(c)
    BY <2>1, <2>2, DiskKept DEF MakePartition, JobInv
  <2>3. CASE WriteFails(c)
    BY <2>1, <2>3, DiskKept DEF WriteFails, JobInv
  <2> QED  BY <1>4, <2>1, <2>2, <2>3, OpenStep, CloseStep
<1>5. CASE Kill
  BY <1>5, DiskKept DEF Kill, JobInv
<1>6. CASE EndLoad
  BY <1>6, DiskKept DEF EndLoad, JobInv
<1>7. CASE UNCHANGED storeVars
  BY <1>0, <1>7, DiskKept DEF storeVars, twiceVars, JobInv
<1>8. \A c \in Consumers :
        MakePartition(c) \/ WriteFails(c) \/ CloseFiles(c) => job[c] # NoJob
  BY DEF MakePartition, WriteFails, CloseFiles
<1> QED
  BY <1>1, <1>2, <1>3, <1>4, <1>5, <1>6, <1>7, <1>8, LoadStep DEF StoreNext

(* Requests only read the store.                                           *)
LEMMA RequestsRead == [Next]_vars => [StoreNext]_storeVars
  BY DEF Next, vars, storeVars, Request, Parse, AddMonth, EndOfRange, GlobPath,
         Done

-----------------------------------------------------------------------------
(* The chain a file goes through.                                          *)

\* The fold of a chain over a file, as a function on sets of places.
Folded(c, f, n, h) ==
  [s \in SUBSET (1 .. n) |->
     IF s = {} THEN Path(f) ELSE NextNode(h[s \ {Max(s)}], c[Max(s)])]

LEMMA FoldIs ==
  ASSUME NEW c, NEW f, NEW n \in Nat, DOMAIN c = 1 .. n
  PROVE  RunPipeline(c, f) = (CHOOSE h : h = Folded(c, f, n, h))[1 .. n]
  BY Zenon DEF RunPipeline, FoldLeft, MapThenFoldSet, Folded

LEMMA MaxFacts ==
  ASSUME NEW n \in Nat, NEW s \in SUBSET (1 .. n), s # {}
  PROVE  /\ Max(s) \in s /\ \A k \in s : k <= Max(s)
         /\ n > 0 => s \ {Max(s)} \in SUBSET (1 .. n - 1)
<1> DEFINE top == Max(s)
<1>1. PICK high \in s : \A k \in s : k <= high
  BY GreatestExists
<1>2. \A k \in s : high >= k
  BY <1>1
<1>3. top \in s /\ \A k \in s : top >= k
  BY <1>2, Zenon DEF Max
<1> HIDE DEF top
<1>4. top \in 1 .. n /\ \A k \in s : k <= top
  BY <1>3
<1>5. \A k \in s \ {top} : k \in 1 .. n - 1
  BY <1>4
<1> QED  BY <1>3, <1>4, <1>5 DEF top

LEMMA MaxOfInterval ==
  ASSUME NEW k \in Nat \ {0}
  PROVE  /\ Max(1 .. k) = k /\ (1 .. k) \ {k} = 1 .. k - 1 /\ 1 .. k # {}
<1>1. 1 .. k # {} /\ k \in 1 .. k
  OBVIOUS
<1>2. Max(1 .. k) \in 1 .. k /\ k <= Max(1 .. k)
  BY <1>1, MaxFacts
<1>3. Max(1 .. k) = k
  BY <1>2
<1> QED  BY <1>1, <1>3

\* The fold is defined on sets of one place, of two, and so on.
LEMMA FoldExists ==
  ASSUME NEW c, NEW f, NEW n \in Nat
  PROVE  \E h : h = Folded(c, f, n, h)
<1> DEFINE Bad == {k \in Nat : ~ \E h : h = Folded(c, f, k, h)}
<1> SUFFICES ASSUME Bad # {} PROVE FALSE
  BY Zenon
<1>1. PICK k \in Bad : \A j \in Bad : k <= j
  BY LeastExists
<1>2. k \in Nat /\ ~ \E h : h = Folded(c, f, k, h)
  BY <1>1
<1>3. k # 0
  <2>1. SUBSET (1 .. 0) = {{}}
    OBVIOUS
  <2>2. [s \in SUBSET (1 .. 0) |-> Path(f)]
          = Folded(c, f, 0, [s \in SUBSET (1 .. 0) |-> Path(f)])
    BY <2>1, Zenon DEF Folded
  <2> QED  BY <1>2, <2>2
<1>4. k - 1 \in Nat /\ k - 1 \notin Bad
  BY <1>1, <1>2, <1>3
<1>5. PICK h : h = Folded(c, f, k - 1, h)
  BY <1>4
<1> DEFINE g == Folded(c, f, k, h)
<1>6. \A s \in SUBSET (1 .. k - 1) : s \in SUBSET (1 .. k) /\ g[s] = h[s]
  <2> SUFFICES ASSUME NEW s \in SUBSET (1 .. k - 1)
               PROVE  s \in SUBSET (1 .. k) /\ g[s] = h[s]
    OBVIOUS
  <2>1. s \in SUBSET (1 .. k)
    BY <1>2
  <2>2. h[s] = Folded(c, f, k - 1, h)[s]
    BY <1>5
  <2> QED  BY <2>1, <2>2, Zenon DEF Folded
<1>7. \A s \in SUBSET (1 .. k) : s # {} => s \ {Max(s)} \in SUBSET (1 .. k - 1)
  BY <1>2, <1>3, MaxFacts
<1>8. g = Folded(c, f, k, g)
  <2>1. \A s \in SUBSET (1 .. k) : s # {} => g[s \ {Max(s)}] = h[s \ {Max(s)}]
    BY <1>6, <1>7, Zenon
  <2> HIDE DEF g
  <2>2. \A s \in SUBSET (1 .. k) :
          (IF s = {} THEN Path(f) ELSE NextNode(h[s \ {Max(s)}], c[Max(s)]))
            = (IF s = {} THEN Path(f) ELSE NextNode(g[s \ {Max(s)}], c[Max(s)]))
    BY <2>1, Zenon
  <2>3. Folded(c, f, k, h) = Folded(c, f, k, g)
    BY <2>2, Zenon DEF Folded
  <2> QED  BY <2>3 DEF g
<1> QED  BY <1>2, <1>8

(* What flows through a chain, before its first node and after each.       *)
Flows(v, c, f, n) ==
  /\ v[0] = Path(f) /\ RunPipeline(c, f) = v[n]
  /\ \A k \in 1 .. n : v[k] = NextNode(v[k - 1], c[k])

LEMMA ChainSteps ==
  ASSUME NEW c, NEW f, NEW n \in Nat, DOMAIN c = 1 .. n
  PROVE  \E v : Flows(v, c, f, n)
<1> DEFINE h == CHOOSE h : h = Folded(c, f, n, h)
           v == [k \in 0 .. n |-> h[1 .. k]]
<1>1. h = Folded(c, f, n, h)
  BY FoldExists, Zenon
<1>2. RunPipeline(c, f) = h[1 .. n]
  BY FoldIs
<1> HIDE DEF h
<1>3. h[{}] = Path(f)
  <2>1. h[{}] = Folded(c, f, n, h)[{}]
    BY <1>1
  <2> QED  BY <2>1, Zenon DEF Folded
<1>4. \A k \in 1 .. n : h[1 .. k] = NextNode(h[1 .. k - 1], c[k])
  <2> SUFFICES ASSUME NEW k \in 1 .. n
               PROVE  h[1 .. k] = NextNode(h[1 .. k - 1], c[k])
    OBVIOUS
  <2>1. h[1 .. k] = Folded(c, f, n, h)[1 .. k]
    BY <1>1
  <2>2. 1 .. k \in SUBSET (1 .. n)
    OBVIOUS
  <2>3. /\ 1 .. k # {} /\ Max(1 .. k) = k /\ (1 .. k) \ {k} = 1 .. k - 1
    <3>1. k \in Nat \ {0}
      OBVIOUS
    <3> QED  BY <3>1, MaxOfInterval
  <2> QED  BY <2>1, <2>2, <2>3, Zenon DEF Folded
<1>5. v[0] = Path(f) /\ v[n] = h[1 .. n]
  <2>1. 1 .. 0 = {}
    OBVIOUS
  <2> QED  BY <1>3, <2>1
<1>6. \A k \in 1 .. n : v[k] = NextNode(v[k - 1], c[k])
  <2> SUFFICES ASSUME NEW k \in 1 .. n PROVE v[k] = NextNode(v[k - 1], c[k])
    OBVIOUS
  <2>1. k \in 0 .. n /\ k - 1 \in 0 .. n
    OBVIOUS
  <2>2. v[k] = h[1 .. k] /\ v[k - 1] = h[1 .. k - 1]
    BY <2>1
  <2> QED  BY <1>4, <2>2
<1> HIDE DEF v
<1>7. Flows(v, c, f, n)
  BY <1>2, <1>5, <1>6 DEF Flows
<1> QED  BY <1>7

\* A node that survives in a chain is a node of the graph.
LEMMA NodesOfChain ==
  ASSUME NEW g \in Graphs, NEW chain \in Pipelines(g.nodes)
  PROVE  \E n \in Nat :
           /\ DOMAIN chain = 1 .. n
           /\ \A k \in 1 .. n : \E i \in DOMAIN g.nodes : chain[k] = g.nodes[i]
<1>1. PICK failed \in SUBSET MayFail :
        chain = Select(g.nodes, LAMBDA node : node.name \notin failed)
  BY DEF Pipelines
<1> DEFINE I == {i \in DOMAIN g.nodes : g.nodes[i].name \notin failed}
           n == Cardinality(I)
<1>2. chain = [k \in DOMAIN Ascending(I) |-> g.nodes[Ascending(I)[k]]]
  BY <1>1, Zenon DEF Select
<1>3. DOMAIN g.nodes = 1 .. Len(g.nodes) /\ Len(g.nodes) \in Nat
  BY NodesAssumption
<1>4. n \in Nat /\ Ascending(I) \in [1 .. n -> I]
  BY <1>3, AscendingFacts
<1>5. \A k \in 1 .. n : Ascending(I)[k] \in DOMAIN g.nodes
  BY <1>4
<1> HIDE DEF I, n
<1>6. DOMAIN Ascending(I) = 1 .. n
  BY <1>4
<1> QED  BY <1>2, <1>4, <1>5, <1>6

(* What the parsers say of the time of a row.                              *)
RowLag(r, text) ==
  "datetime" \in DOMAIN r =>
    /\ "tick" \in DOMAIN r
    /\ r.tick = IF text THEN r.datetime ELSE Localized(r.datetime)
RowsLag(v, text) == \A r \in v.rows : RowLag(r, text)

LEMMA ParsedLag ==
  ASSUME NEW r
  PROVE  RowLag(ParseStruct(r), FALSE) /\ RowLag(ParseText(r), TRUE)
<1>1. ASSUME NEW a, NEW b, NEW rest
      PROVE  LET row == With(rest, [datetime |-> a, tick |-> b])
             IN  "tick" \in DOMAIN row /\ row.datetime = a /\ row.tick = b
  BY DEF With
<1>2. RowLag(ParseStruct(r), FALSE)
  BY <1>1 DEF ParseStruct, RowLag
<1>3. RowLag(ParseText(r), TRUE)
  BY <1>1 DEF ParseText, RowLag
<1> QED  BY <1>2, <1>3

LEMMA ScaledLag ==
  ASSUME NEW r, NEW text \in BOOLEAN, NEW factors, RowLag(r, text)
  PROVE  RowLag(ScaleBy(factors, r), text)
  BY DEF RowLag, ScaleBy, Exclude

LEMMA IntegerLag ==
  ASSUME NEW r, NEW text \in BOOLEAN, RowLag(r, text)
  PROVE  RowLag(ToInteger(r), text)
  BY DEF RowLag, ToInteger

LEMMA NodeKeepsLag ==
  ASSUME NEW text \in BOOLEAN, NEW v, NEW node, node.name \in NodeNames(text),
         RowsLag(v, text)
  PROVE  RowsLag(NextNode(v, node), text)
<1> DEFINE w == NextNode(v, node)
<1> SUFFICES ASSUME v.kind # "none", IsLoader(node) = (v.kind = "path")
             PROVE  RowsLag(w, text)
  <2>1. CASE v.kind = "none"
    <3>1. w = v
      BY <2>1 DEF NextNode
    <3> QED  BY <3>1
  <2>2. CASE v.kind # "none" /\ IsLoader(node) # (v.kind = "path")
    <3>1. w = Dropped(v.file)
      BY <2>2 DEF NextNode
    <3> QED  BY <3>1 DEF Dropped, RowsLag
  <2> QED  BY <2>1, <2>2 DEF IsLoader
<1>1. CASE node.name = "StructUnpacker"
  <2>1. w = Unpack(v.file)
    BY <1>1 DEF NextNode
  <2> QED  BY <2>1 DEF Unpack, Frame, RowsLag, RowLag
<1>2. CASE node.name = "TextLoader"
  <2>1. w = LoadText(v.file)
    BY <1>2 DEF NextNode
  <2> QED  BY <2>1 DEF LoadText, Frame, RowsLag, RowLag
<1>3. CASE node.name = "StructDateParser"
  <2>1. text = FALSE
    BY <1>3 DEF NodeNames
  <2>2. w = Dropped(v.file) \/ w = EachRow(ParseStruct, v)
    BY <1>3 DEF NextNode
  <2>3. w.rows = {} \/ w.rows = {ParseStruct(r) : r \in v.rows}
    BY <2>2 DEF EachRow, Frame, Dropped
  <2> HIDE DEF w
  <2>4. \A r \in v.rows : RowLag(ParseStruct(r), text)
    BY <2>1, ParsedLag
  <2> QED  BY <2>3, <2>4 DEF RowsLag
<1>4. CASE node.name = "UniverseDateParser"
  <2>1. text = TRUE
    BY <1>4 DEF NodeNames
  <2>2. w = v \/ w = EachRow(ParseText, v)
    BY <1>4 DEF NextNode
  <2>3. w = v \/ w.rows = {ParseText(r) : r \in v.rows}
    BY <2>2 DEF EachRow, Frame
  <2> HIDE DEF w
  <2>4. \A r \in v.rows : RowLag(ParseText(r), text)
    BY <2>1, ParsedLag
  <2> QED  BY <2>3, <2>4 DEF RowsLag
<1>5. CASE node.name = "Multiply"
  <2>1. w = EachRow(LAMBDA r : ScaleBy(node.factors, r), v)
    BY <1>5 DEF NextNode
  <2> QED  BY <2>1, ScaledLag DEF EachRow, Frame, RowsLag
<1>6. CASE node.name = "Dtypes"
  <2>1. w = EachRow(ToInteger, v)
    BY <1>6 DEF NextNode
  <2> QED  BY <2>1, IntegerLag DEF EachRow, Frame, RowsLag
<1> QED  BY <1>1, <1>2, <1>3, <1>4, <1>5, <1>6 DEF NodeNames

LEMMA FramesLag ==
  ASSUME NEW g \in Graphs, NEW frame \in FramesOf(g)
  PROVE  RowsLag(frame, g.suffix = "csv")
<1> DEFINE text == g.suffix = "csv"
<1>1. PICK chain \in Pipelines(g.nodes), f \in FilesOf(g) : frame = RunPipeline(chain, f)
  BY DEF FramesOf
<1>2. PICK n \in Nat : /\ DOMAIN chain = 1 .. n
                       /\ \A k \in 1 .. n : \E i \in DOMAIN g.nodes : chain[k] = g.nodes[i]
  BY NodesOfChain
<1>3. PICK v : Flows(v, chain, f, n)
  BY <1>2, ChainSteps
<1>4. \A k \in 1 .. n : chain[k].name \in NodeNames(text)
  BY <1>2, NodesAssumption
<1> HIDE DEF text
<1>5. text \in BOOLEAN
  BY DEF text
<1>6. RowsLag(v[0], text)
  BY <1>3 DEF Flows, Path, RowsLag
<1>7. \A k \in 1 .. n : RowsLag(v[k - 1], text) => RowsLag(v[k], text)
  BY <1>3, <1>4, <1>5, NodeKeepsLag DEF Flows
<1> DEFINE Bad == {k \in 0 .. n : ~ RowsLag(v[k], text)}
<1>8. Bad = {}
  <2> SUFFICES ASSUME Bad # {} PROVE FALSE
    OBVIOUS
  <2>1. Bad \in SUBSET Nat
    OBVIOUS
  <2>2. PICK k \in Bad : \A j \in Bad : k <= j
    BY <2>1, LeastExists
  <2>3. k \in 1 .. n /\ k - 1 \in 0 .. n /\ k - 1 \notin Bad
    BY <1>6, <2>2
  <2> QED  BY <1>7, <2>2, <2>3
<1>9. RowsLag(v[n], text)
  BY <1>8
<1> QED  BY <1>1, <1>3, <1>9 DEF Flows, text

-----------------------------------------------------------------------------
(* What becomes of a line.                                                 *)

\* The calendar finds the date and the minute that a clock was made of.
LEMMA GmTimeOfWall ==
  ASSUME NEW c, NEW minute, IsMinute(c, minute)
  PROVE  LET t == Wall(c.y, c.m, c.d, minute) IN
         /\ t \in Clocks /\ t \in Int
         /\ GmTime(t).y = c.y /\ GmTime(t).m = c.m /\ GmTime(t).d = c.d
         /\ (t % Day) \div 60 = minute
<1> DEFINE t == Wall(c.y, c.m, c.d, minute)
           n == First(c.y, c.m) + c.d - 1
           g == GmTime(t)
           F == First(c.y, c.m)
           M == MonthEnd(c)
<1>1. /\ IsMonth(c) /\ c.d \in 1 .. MonthLength(c.y, c.m) /\ minute \in 0 .. 1439
  BY DEF IsMinute, IsMonth
<1>2. /\ c.y \in Nat \ {0} /\ c.m \in 1 .. 12 /\ F \in Int /\ M \in Int
      /\ MonthLength(c.y, c.m) \in 28 .. 31 /\ M = F + MonthLength(c.y, c.m)
  BY <1>1, MonthFacts, LengthIs DEF MonthEnd
<1>3. c.d \in Int /\ n \in Int /\ F <= n /\ n < M
  BY <1>1, <1>2
<1>4. DayNumber(c.y, c.m, c.d) = n
  BY <1>2, <1>3, FirstAndDay
<1>5. t = n * 86400 + 60 * minute
  BY <1>4 DEF Wall, Day
<1> HIDE DEF t, n, F, M
<1>6. t \in Int /\ t \div 86400 = n /\ (t % 86400) \div 60 = minute
  <2>1. n \in Int /\ minute \in 0 .. 1439
    BY <1>1, <1>3
  <2> QED  BY ONLY <1>5, <2>1
<1>7. F * 86400 <= t /\ t < M * 86400
  BY <1>2, <1>3, <1>6, DayOf
<1>8. t \in Clocks
  <2> DEFINE A == First(FirstYear, 1)
             B == First(LastYear + 1, 1)
  <2>1. FirstYear \in Nat \ {0} /\ LastYear \in Nat \ {0} /\ FirstYear <= LastYear
    BY YearsAssumption
  <2>2. A \in Int /\ B \in Int
    BY <2>1, LengthIs
  <2>3. A <= F
    <3>1. CASE c.y = FirstYear /\ c.m = 1
      BY <2>2, <3>1 DEF F
    <3>2. CASE ~ (c.y = FirstYear /\ c.m = 1)
      <4>1. FirstYear < c.y \/ (FirstYear = c.y /\ 1 < c.m)
        BY <1>1, <1>2, <2>1, <3>2 DEF IsMonth
      <4>2. A + MonthLength(FirstYear, 1) <= F
        BY <1>2, <2>1, <4>1, MonthsInOrder DEF F
      <4> QED  BY <1>2, <2>1, <2>2, <4>2, LengthIs
    <3> QED  BY <3>1, <3>2
  <2>4. M <= B
    <3>1. c.y < LastYear + 1 /\ LastYear + 1 \in Nat \ {0} /\ 1 \in 1 .. 12
      BY <1>1, <1>2, <2>1 DEF IsMonth
    <3> QED  BY <1>2, <3>1, LaterYear DEF F
  <2> HIDE DEF A, B
  <2>5. A * 86400 <= t /\ t < B * 86400
    BY <1>2, <1>6, <1>7, <2>2, <2>3, <2>4
  <2>6. Clocks = A * 86400 .. B * 86400 - 1
    BY DEF Clocks, A, B, First, Day
  <2> QED  BY <1>6, <2>2, <2>5, <2>6
<1>9. Index(c) = Index(g) /\ IsMonth(g)
  <2>1. First(c.y, c.m) * Day <= t /\ t < MonthEnd(c) * Day
    BY <1>7 DEF F, M, Day
  <2>2. Index(c) <= Index(g) /\ Index(g) <= Index(c) /\ IsMonth(g)
    BY <1>1, <1>8, <2>1, ClockAfter, ClockBefore, MonthOfClock
  <2>3. Index(c) \in Int /\ Index(g) \in Int
    BY <1>1, <2>2, MonthFacts
  <2> QED  BY <2>2, <2>3
<1>10. g.y = c.y /\ g.m = c.m
  BY <1>1, <1>9, SameMonth
<1>11. g.d = t \div 86400 - DayNumber(g.y, g.m, 1) + 1
  BY DEF GmTime, Day, g
<1>12. g.d = c.d
  <2>1. DayNumber(g.y, g.m, 1) = F
    BY <1>10 DEF First, F
  <2> QED  BY <1>2, <1>3, <1>6, <1>11, <2>1 DEF n, F
<1> QED  BY <1>6, <1>8, <1>10, <1>12 DEF t, g, Day

\* A line, as the loader, the parser, Multiply and Dtypes leave it.
LoadedRow(f, line) ==
  IF f.suffix = "csv" THEN [text |-> line.text, open |-> line.open]
  ELSE [dates |-> line.dates, sub_dates |-> line.sub_dates, open |-> line.open * Hundred]
ParsedRow(f, line) ==
  IF f.suffix = "csv" THEN ParseText(LoadedRow(f, line)) ELSE ParseStruct(LoadedRow(f, line))
ScaledRow(g, f, line) == ScaleBy(g.nodes[3].factors, ParsedRow(f, line))
RowOfLine(g, f, line) == ToInteger(ScaledRow(g, f, line))

Multiplied(v, node) == Frame(v.file, {ScaleBy(node.factors, r) : r \in v.rows})

\* What a parser, and the two formatters, make of a frame.
LEMMA NodeOnFrame ==
  ASSUME NEW v, NEW node, v.kind = "frame"
  PROVE  /\ node.name = "UniverseDateParser" /\ HasColumn(v, "text") =>
              NextNode(v, node) = Frame(v.file, {ParseText(r) : r \in v.rows})
         /\ node.name = "StructDateParser" /\ HasColumn(v, "dates") =>
              NextNode(v, node) = Frame(v.file, {ParseStruct(r) : r \in v.rows})
         /\ node.name = "Multiply" =>
              NextNode(v, node) = Multiplied(v, node)
         /\ node.name = "Dtypes" =>
              NextNode(v, node) = Frame(v.file, {ToInteger(r) : r \in v.rows})
<1>1. v.kind # "none" /\ v.kind # "path"
  OBVIOUS
<1>2. CASE node.name = "UniverseDateParser"
  <2>1. IsLoader(node) = (v.kind = "path")
    BY <1>1, <1>2 DEF IsLoader
  <2>2. HasColumn(v, "text") => NextNode(v, node) = EachRow(ParseText, v)
    BY <1>1, <1>2, <2>1 DEF NextNode
  <2> QED  BY <1>2, <2>2 DEF EachRow
<1>3. CASE node.name = "StructDateParser"
  <2>1. IsLoader(node) = (v.kind = "path")
    BY <1>1, <1>3 DEF IsLoader
  <2>2. HasColumn(v, "dates") => NextNode(v, node) = EachRow(ParseStruct, v)
    BY <1>1, <1>3, <2>1 DEF NextNode
  <2> QED  BY <1>3, <2>2 DEF EachRow
<1>4. CASE node.name = "Multiply"
  <2>1. IsLoader(node) = (v.kind = "path")
    BY <1>1, <1>4 DEF IsLoader
  <2>2. NextNode(v, node) = EachRow(LAMBDA r : ScaleBy(node.factors, r), v)
    BY <1>1, <1>4, <2>1 DEF NextNode
  <2> QED  BY <1>4, <2>2 DEF EachRow, Multiplied
<1>5. CASE node.name = "Dtypes"
  <2>1. IsLoader(node) = (v.kind = "path")
    BY <1>1, <1>5 DEF IsLoader
  <2>2. NextNode(v, node) = EachRow(ToInteger, v)
    BY <1>1, <1>5, <2>1 DEF NextNode
  <2> QED  BY <1>5, <2>2 DEF EachRow
<1> QED  BY <1>2, <1>3, <1>4, <1>5

\* The same of the chains in xml/, which have four nodes before the writer.
LEMMA FourNodes ==
  ASSUME NEW c, NEW f, DOMAIN c = 1 .. 4
  PROVE  \E v : Flows(v, c, f, 4)
<1>1. PICK n \in Nat : n = 4
  OBVIOUS
<1>2. DOMAIN c = 1 .. n
  BY <1>1
<1>3. \E v : Flows(v, c, f, n)
  BY <1>2, ChainSteps
<1> QED  BY <1>1, <1>3

\* A shipped chain makes one row of every line.
LEMMA FrameOfFile ==
  ASSUME NEW g \in Graphs, ShippedChain(g), NEW f, f.suffix = g.suffix
  PROVE  RunPipeline(g.nodes, f)
           = Frame(f, {RowOfLine(g, f, line) : line \in ToSet(f.lines)})
<1> DEFINE L == ToSet(f.lines)
           text == f.suffix = "csv"
<1>1. DOMAIN g.nodes = 1 .. 4
  BY NodesAssumption DEF ShippedChain
<1>2. PICK v : /\ v[0] = Path(f) /\ RunPipeline(g.nodes, f) = v[4]
               /\ \A k \in 1 .. 4 : v[k] = NextNode(v[k - 1], g.nodes[k])
  BY <1>1, FourNodes DEF Flows
<1>3. /\ v[1] = NextNode(v[0], g.nodes[1]) /\ v[2] = NextNode(v[1], g.nodes[2])
      /\ v[3] = NextNode(v[2], g.nodes[3]) /\ v[4] = NextNode(v[3], g.nodes[4])
  BY <1>2
<1>4. v[1] = Frame(f, {LoadedRow(f, line) : line \in L})
  <2>1. v[0].kind = "path" /\ v[0].file = f
    BY <1>2 DEF Path
  <2>2. CASE text
    <3>1. g.nodes[1].name = "TextLoader"
      BY <2>2 DEF ShippedChain
    <3>2. v[1] = LoadText(f)
      BY <1>3, <2>1, <3>1 DEF NextNode, IsLoader
    <3> QED  BY <2>2, <3>2 DEF LoadText, LoadedRow
  <2>3. CASE ~ text
    <3>1. g.nodes[1].name = "StructUnpacker"
      BY <2>3 DEF ShippedChain
    <3>2. v[1] = Unpack(f)
      BY <1>3, <2>1, <3>1 DEF NextNode, IsLoader
    <3> QED  BY <2>3, <3>2 DEF Unpack, LoadedRow
  <2> QED  BY <2>2, <2>3
<1>5. v[2] = Frame(f, {ParsedRow(f, line) : line \in L})
  <2>1. /\ v[1].kind = "frame" /\ v[1].file = f
        /\ v[1].rows = {LoadedRow(f, line) : line \in L}
    BY <1>4 DEF Frame
  <2>2. CASE text
    <3>1. g.nodes[2].name = "UniverseDateParser" /\ HasColumn(v[1], "text")
      BY <2>1, <2>2 DEF ShippedChain, HasColumn, LoadedRow
    <3>2. v[2] = Frame(f, {ParseText(r) : r \in v[1].rows})
      BY <1>3, <2>1, <3>1, NodeOnFrame
    <3>3. {ParseText(r) : r \in v[1].rows} = {ParsedRow(f, line) : line \in L}
      BY <2>1, <2>2 DEF ParsedRow
    <3> QED  BY <3>2, <3>3
  <2>3. CASE ~ text
    <3>1. g.nodes[2].name = "StructDateParser" /\ HasColumn(v[1], "dates")
      BY <2>1, <2>3 DEF ShippedChain, HasColumn, LoadedRow
    <3>2. v[2] = Frame(f, {ParseStruct(r) : r \in v[1].rows})
      BY <1>3, <2>1, <3>1, NodeOnFrame
    <3>3. {ParseStruct(r) : r \in v[1].rows} = {ParsedRow(f, line) : line \in L}
      BY <2>1, <2>3 DEF ParsedRow
    <3> QED  BY <3>2, <3>3
  <2> QED  BY <2>2, <2>3
<1>6. v[3] = Frame(f, {ScaledRow(g, f, line) : line \in L})
  <2>1. /\ v[2].kind = "frame" /\ v[2].file = f
        /\ v[2].rows = {ParsedRow(f, line) : line \in L}
    BY <1>5 DEF Frame
  <2>2. g.nodes[3].name = "Multiply"
    BY DEF ShippedChain
  <2>3. v[3] = Frame(f, {ScaleBy(g.nodes[3].factors, r) : r \in v[2].rows})
    <3>1. v[3] = Multiplied(v[2], g.nodes[3])
      BY <1>3, <2>1, <2>2, NodeOnFrame
    <3> QED  BY <2>1, <3>1 DEF Multiplied
  <2>4. {ScaleBy(g.nodes[3].factors, r) : r \in v[2].rows}
          = {ScaledRow(g, f, line) : line \in L}
    BY <2>1 DEF ScaledRow
  <2> QED  BY <2>3, <2>4
<1>7. v[4] = Frame(f, {RowOfLine(g, f, line) : line \in L})
  <2>1. /\ v[3].kind = "frame" /\ v[3].file = f
        /\ v[3].rows = {ScaledRow(g, f, line) : line \in L}
    BY <1>6 DEF Frame
  <2>2. g.nodes[4].name = "Dtypes"
    BY DEF ShippedChain
  <2>3. v[4] = Frame(f, {ToInteger(r) : r \in v[3].rows})
    BY <1>3, <2>1, <2>2, NodeOnFrame
  <2>4. {ToInteger(r) : r \in v[3].rows} = {RowOfLine(g, f, line) : line \in L}
    BY <2>1 DEF RowOfLine
  <2> QED  BY <2>3, <2>4
<1> QED  BY <1>2, <1>7

\* A price in cents is not truncated, and its cents are found again.
LEMMA WholeCents ==
  ASSUME NEW open \in Nat
  PROVE  /\ Truncate(open * Hundred * 1000) = open * 100000
         /\ Truncate(open * 100000) = open * 100000
         /\ (open * 100000) \div (1000 * Hundred) = open
<1>1. open * 100 * 1000 = open * 100000
  OBVIOUS
<1>2. (open * 100000) % 100 = 0 /\ (open * 100000) \div 100000 = open
  OBVIOUS
<1> QED  BY <1>1, <1>2 DEF Truncate, Hundred

\* Either parser makes the clock of the line's date and minute.
LEMMA ParsedFacts ==
  ASSUME NEW f, NEW line, LineOK(f, line)
  PROVE  LET c == DateOfLine(f, line)
             p == ParsedRow(f, line) IN
         /\ DOMAIN p = {"datetime", "tick", "open"}
         /\ p.datetime = Wall(c.y, c.m, c.d, MinuteOfLine(f, line))
         /\ p.open = IF f.suffix = "csv" THEN line.open ELSE line.open * Hundred
<1> DEFINE p == ParsedRow(f, line)
           r == LoadedRow(f, line)
<1>1. CASE f.suffix = "csv"
  <2>1. DOMAIN r = {"text", "open"} /\ r.text = line.text /\ r.open = line.open
    BY <1>1 DEF LoadedRow
  <2>2. p = ParseText(r)
    BY <1>1 DEF ParsedRow
  <2> HIDE DEF r
  <2> QED  BY <1>1, <2>1, <2>2 DEF ParseText, With, Without, Restrict, DateOfLine, MinuteOfLine
<1>2. CASE f.suffix # "csv"
  <2>1. /\ DOMAIN r = {"dates", "sub_dates", "open"} /\ r.dates = line.dates
        /\ r.sub_dates = line.sub_dates /\ r.open = line.open * Hundred
    BY <1>2 DEF LoadedRow
  <2>2. p = ParseStruct(r)
    BY <1>2 DEF ParsedRow
  <2> HIDE DEF r
  <2>3. p = With(Without(r, {"dates", "sub_dates"}),
                 [datetime |-> ClockOf(r), tick |-> Localized(ClockOf(r))])
    BY <2>2 DEF ParseStruct
  <2>4. /\ DOMAIN p = {"datetime", "tick", "open"}
        /\ p.datetime = ClockOf(r) /\ p.open = r.open
    BY <2>1, <2>3 DEF With, Without, Restrict
  <2>5. ClockOf(r) = LET c == DateOfLine(f, line)
                     IN  Wall(c.y, c.m, c.d, MinuteOfLine(f, line))
    BY <1>2, <2>1 DEF ClockOf, DateOfLine, MinuteOfLine
  <2> QED  BY <1>2, <2>1, <2>4, <2>5
<1> QED  BY <1>1, <1>2

\* A date of a binary file, taken apart and put together.
LEMMA DatesOf ==
  ASSUME NEW dates \in Nat
  PROVE  LET d == dates % 2048
         IN  ((dates \div 2048 + 2004) - 2004) * 2048 + 100 * (d \div 100) + (d % 100)
               = dates
<1>1. PICK q \in Nat, d \in Nat :
        dates \div 2048 = q /\ dates % 2048 = d /\ dates = 2048 * q + d
  OBVIOUS
<1>2. PICK a \in Nat, b \in Nat : d \div 100 = a /\ d % 100 = b /\ d = 100 * a + b
  OBVIOUS
<1> QED  BY <1>1, <1>2

\* The row made of a line tells of that line.
LEMMA LineOfRow ==
  ASSUME NEW g, ShippedChain(g), NEW f, f.suffix = g.suffix, NEW line, LineOK(f, line)
  PROVE  LET r == RowOfLine(g, f, line) IN
         /\ "datetime" \in DOMAIN r /\ r.datetime \in Clocks
         /\ LineOf(f, InUtc(r, 1)) = line
<1> DEFINE c == DateOfLine(f, line)
           minute == MinuteOfLine(f, line)
           t == Wall(c.y, c.m, c.d, minute)
           p == ParsedRow(f, line)
           s == ScaledRow(g, f, line)
           r == RowOfLine(g, f, line)
           u == InUtc(r, 1)
           date == GmTime(t)
           factors == g.nodes[3].factors
<1>1. IsMinute(c, minute) /\ line.open \in Nat
  BY DEF LineOK
<1>2. /\ t \in Clocks /\ t \in Int
      /\ date.y = c.y /\ date.m = c.m /\ date.d = c.d
      /\ (t % Day) \div 60 = minute
  BY <1>1, GmTimeOfWall
<1>3. /\ DOMAIN p = {"datetime", "tick", "open"} /\ p.datetime = t
      /\ p.open = IF f.suffix = "csv" THEN line.open ELSE line.open * Hundred
  BY ParsedFacts
<1> HIDE DEF p
<1>4. /\ DOMAIN s = {"datetime", "tick", "open"} /\ s.datetime = t
      /\ s.open = line.open * 100000
  <2>1. s = ScaleBy(factors, p)
    BY DEF ScaledRow, p
  <2>2. /\ "open" \in DOMAIN factors
        /\ factors["open"] = IF f.suffix = "csv" THEN 100000 ELSE 1000
    BY DEF ShippedChain
  <2> HIDE DEF factors, s
  <2>3. /\ DOMAIN s = DOMAIN p /\ s.datetime = p.datetime
        /\ s.open = Truncate(p.open * factors["open"])
    BY <1>3, <2>1, <2>2 DEF ScaleBy, Exclude
  <2>4. Truncate(p.open * factors["open"]) = line.open * 100000
    BY <1>1, <1>3, <2>2, WholeCents
  <2> QED  BY <1>3, <2>3, <2>4
<1> HIDE DEF s
<1>5. /\ DOMAIN r = {"datetime", "tick", "open"} /\ r.datetime = t
      /\ r.open = line.open * 100000
  <2>1. r = ToInteger(s)
    BY DEF RowOfLine, s
  <2> HIDE DEF r
  <2>2. DOMAIN r = DOMAIN s /\ r.datetime = s.datetime /\ r.open = Truncate(s.open)
    BY <1>4, <2>1 DEF ToInteger
  <2> QED  BY <1>1, <1>4, <2>2, WholeCents
<1> HIDE DEF r
<1>6. u.datetime = t - Offset /\ u.open = line.open * 100000
  <2>1. u.datetime = t - 1 * Offset /\ u.open = line.open * 100000
    BY <1>5 DEF InUtc
  <2> QED  BY <1>2, <2>1 DEF Offset
<1> HIDE DEF u
<1>7. u.datetime + Offset = t /\ u.open \div (1000 * Hundred) = line.open
  BY <1>1, <1>2, <1>6, WholeCents DEF Offset
<1>8. LineOf(f, u) =
        IF f.suffix = "csv"
        THEN [text |-> [y |-> c.y, m |-> c.m, d |-> c.d, minute |-> minute],
              open |-> line.open]
        ELSE [dates |-> (c.y - 2004) * 2048 + 100 * c.m + c.d,
              sub_dates |-> minute, open |-> line.open]
  BY <1>2, <1>7 DEF LineOf
<1> HIDE DEF t, date
<1>9. CASE f.suffix = "csv"
  <2>1. line = [text |-> [y |-> c.y, m |-> c.m, d |-> c.d, minute |-> minute],
                open |-> line.open]
    BY <1>9 DEF LineOK
  <2>2. LineOf(f, u) = line
    BY <1>8, <1>9, <2>1
  <2> QED  BY <1>2, <1>5, <2>2 DEF r, u
<1>10. CASE f.suffix # "csv"
  <2>1. /\ line.dates \in Nat
        /\ line = [dates |-> line.dates, sub_dates |-> minute, open |-> line.open]
    BY <1>10 DEF LineOK
  <2>2. (c.y - 2004) * 2048 + 100 * c.m + c.d = line.dates
    BY <1>10, <2>1, DatesOf DEF DateOfLine
  <2>3. LineOf(f, u) = line
    BY <1>8, <1>10, <2>1, <2>2
  <2> QED  BY <1>2, <1>5, <2>3 DEF r, u
<1> QED  BY <1>9, <1>10

\* The lines that a frame's rows tell of, when nothing is missing from the chain.
LEMMA LinesOfFrame ==
  ASSUME ReadableInput, NEW g \in Graphs, NEW f \in FilesOf(g)
  PROVE  LET v == RunPipeline(g.nodes, f) IN
         /\ v.kind = "frame" /\ v.file = f /\ HasColumn(v, "datetime")
         /\ {LineOf(f, InUtc(r, 1)) : r \in v.rows} = ToSet(f.lines)
<1> DEFINE v == RunPipeline(g.nodes, f)
<1>1. /\ ShippedChain(g) /\ f.suffix = g.suffix
      /\ \A line \in ToSet(f.lines) : LineOK(f, line)
  BY DEF ReadableInput, FilesOf, RecursiveGlob
<1>2. v = Frame(f, {RowOfLine(g, f, line) : line \in ToSet(f.lines)})
  BY <1>1, FrameOfFile
<1> HIDE DEF v
<1>3. /\ v.kind = "frame" /\ v.file = f
      /\ v.rows = {RowOfLine(g, f, line) : line \in ToSet(f.lines)}
  BY <1>2 DEF Frame
<1>4. \A line \in ToSet(f.lines) :
        LET r == RowOfLine(g, f, line)
        IN  "datetime" \in DOMAIN r /\ LineOf(f, InUtc(r, 1)) = line
  BY <1>1, LineOfRow
<1>5. HasColumn(v, "datetime")
  BY <1>3, <1>4 DEF HasColumn
<1>6. {LineOf(f, InUtc(r, 1)) : r \in v.rows} = ToSet(f.lines)
  BY <1>3, <1>4
<1> QED  BY <1>3, <1>5, <1>6 DEF v

-----------------------------------------------------------------------------
(* What the writers write, and where.                                      *)

\* A directory where the reader looks for what is in it.
DirInv(d) ==
  d \in DirOf /\ (d.kind = "benchmark" \/ d.kind = Category(d.sid))

\* A stored row is in the directory of the month of its wall clock.
RowInv(r, d) ==
  r.datetime + Offset \in Clocks /\ d.month = MonthOf(r.datetime + Offset)

\* The tick of a stored row is its datetime, or lags it by the offset; and by
\* one more if the frame was put twice.
StoredLag(r, n, f) ==
  LET lag == IF f.suffix = "csv" THEN Offset ELSE 0
  IN  \/ r.tick - r.datetime = lag
      \/ <<n, f>> \in twice /\ r.tick - r.datetime = lag + Offset

\* What the n-th load may put in a directory, of a file.
Stowed(r, d, n, f) ==
  /\ DirInv(d) /\ d.sid = f.sid /\ r.datetime \in Int
  /\ <<n, f>> \notin raced => RowInv(r, d)
  /\ StoredLag(r, n, f)

EntryInv(x) ==
  /\ {"dir", "name", "load", "file", "by", "complete", "rows"} \subseteq DOMAIN x
  /\ DirInv(x.dir) /\ x.complete \in BOOLEAN
  /\ \A r \in x.rows : Stowed(r, x.dir, x.load, x.file)

\* What a writer has in hand, or will be given a second time.
Held(j) == j \in again \/ \E c \in Consumers : job[c] = j

CanWrite(j) ==
  /\ graph \in Graphs /\ j.file \in FilesOf(graph)
  /\ j.frame \in FramesOf(graph) /\ HasColumn(j.frame, "datetime") /\ j.frame.rows # {}
  /\ j.opened \subseteq DirsOf(j.table)
  /\ \A t \in j.table : Stowed(t.row, t.dir, loads, j.file)

HiveInv ==
  /\ graph \in Graphs \cup {NoLoad}
  /\ loads \in 0 .. MaxLoads /\ faulty \subseteq 1 .. loads
  /\ graph # NoLoad => todo \subseteq FilesOf(graph)
  /\ job \in [Consumers -> Jobs \cup {NoJob}] /\ again \subseteq Jobs
  /\ \A j \in Jobs : Held(j) => CanWrite(j)
  /\ \A x \in disk : EntryInv(x)

\* A frame is in the hands of one writer, and converted once, unless it is put
\* twice.
Twice(f) == <<loads, f>> \in twice
FramesInv ==
  /\ twice \subseteq (1 .. loads) \X AllFiles /\ raced \subseteq twice
  /\ converted \subseteq AllFiles
  /\ \A f \in todo : f \notin converted /\ ~ Twice(f)
  /\ \A j \in again : /\ j.file \notin todo /\ Twice(j.file)
                      /\ j.table = {} /\ j.opened = {}
  /\ \A c \in Consumers : job[c] # NoJob =>
       /\ job[c].file \notin todo
       /\ job[c].table = {} /\ job[c].file \in converted => Twice(job[c].file)
       /\ \A k \in Consumers \ {c} :
            job[k] # NoJob /\ job[k].file = job[c].file => Twice(job[c].file)

LEMMA MonthOfFacts ==
  ASSUME NEW clock \in Clocks
  PROVE  LET c == GmTime(clock) IN
         /\ IsMonth(c) /\ MonthOf(clock) = Partition(c.y, c.m)
         /\ MonthOf(clock) \in PartitionSet
<1> DEFINE c == GmTime(clock)
<1>1. IsMonth(c)
  BY MonthOfClock
<1>2. MonthOf(clock) = Partition(c.y, c.m)
  BY DEF MonthOf, Partition, Quarter
<1> HIDE DEF c
<1>3. Partition(c.y, c.m) \in PartitionSet
  BY <1>1, PartitionFacts
<1> QED  BY <1>1, <1>2, <1>3 DEF c

\* Each partition column is of a month of the calendar, whichever conversions
\* came before it; and of one month, if the same came before all.
LEMMA MonthAfterFacts ==
  ASSUME NEW clock \in Clocks, clock - Offset \in Clocks, NEW n \in Conversions
  PROVE  /\ MonthAfter(clock, n) \in PartitionSet
         /\ \A k \in 0 .. 1 : n.year = k /\ n.quarter = k /\ n.date = k =>
              MonthAfter(clock, n) = MonthOf(clock - k * Offset)
<1>1. clock \in Int
  BY ClocksAreIntegers
<1>2. ASSUME NEW k \in 0 .. 1 PROVE MonthOf(clock - k * Offset) \in PartitionSet
  <2>1. clock - k * Offset = clock \/ clock - k * Offset = clock - Offset
    BY <1>1 DEF Offset
  <2> QED  BY <2>1, MonthOfFacts
<1>3. n.year \in 0 .. 1 /\ n.quarter \in 0 .. 1 /\ n.date \in 0 .. 1
  BY DEF Conversions
<1>4. MonthAfter(clock, n) \in PartitionSet
  BY <1>2, <1>3 DEF MonthAfter, PartitionSet
<1>5. ASSUME NEW k \in 0 .. 1, n.year = k, n.quarter = k, n.date = k
      PROVE  MonthAfter(clock, n) = MonthOf(clock - k * Offset)
  <2>1. MonthAfter(clock, n) = [year    |-> MonthOf(clock - k * Offset).year,
                               quarter |-> MonthOf(clock - k * Offset).quarter,
                               date    |-> MonthOf(clock - k * Offset).date]
    BY <1>5 DEF MonthAfter
  <2> QED  BY <1>2, <2>1 DEF PartitionSet
<1> QED  BY <1>4, <1>5

\* The name of a file in the source is that of the directory the writer makes,
\* and its kind the one the reader gives the security.
LEMMA RowsOfFrame ==
  ASSUME NEW g \in Graphs, NEW v \in FramesOf(g), HasColumn(v, "datetime"),
         NEW r \in v.rows, NEW f \in FilesOf(g), NEW n \in Conversions
  PROVE  /\ v \in Frames /\ "datetime" \in DOMAIN r
         /\ r.datetime \in Clocks /\ r.datetime - Offset \in Clocks
         /\ DirInv(DirectoryOf(g, f, r, n))
         /\ DirectoryOf(g, f, r, n).sid = f.sid
         /\ DirectoryOf(g, f, r, n).month = MonthAfter(r.datetime, n)
<1> DEFINE d == DirectoryOf(g, f, r, n)
<1>1. v \in Frames /\ "datetime" \in DOMAIN r
  BY DEF Frames, HasColumn
<1>2. r.datetime \in Clocks /\ r.datetime - Offset \in Clocks
  BY <1>1, ClocksAssumption
<1>3. d.kind = g.kind /\ d.sid = f.sid /\ d.month = MonthAfter(r.datetime, n)
  BY DEF DirectoryOf
<1>4. f \in AllFiles /\ NameMatches(f, g.kind)
  BY DEF FilesOf, RecursiveGlob
<1>5. d \in DirOf
  BY <1>2, <1>4, MonthAfterFacts DEF DirOf, DirectoryOf
<1>6. g.kind \in {"stock", "fund", "benchmark"}
  BY KindsAssumption
<1>7. g.kind = "benchmark" \/ g.kind = Category(f.sid)
  <2>1. CASE g.kind = "stock"
    BY <1>4, <2>1 DEF NameMatches, StockNames, Category, MatchesRule
  <2>2. CASE g.kind = "fund"
    BY <1>4, <2>2 DEF NameMatches, FundNames, Category, MatchesRule
  <2> QED  BY <1>6, <2>1, <2>2
<1> HIDE DEF d
<1> QED  BY <1>1, <1>2, <1>3, <1>5, <1>7 DEF DirInv, d

\* A row of a table: it has been through one conversion, or through two if its
\* frame was put twice; and unless threads raced, its directory is of the month
\* that the row had before the last of them.
LEMMA RowOfTable ==
  ASSUME NEW g \in Graphs, NEW v \in FramesOf(g), HasColumn(v, "datetime"),
         NEW r \in v.rows, NEW f \in FilesOf(g), NEW n \in Conversions,
         NEW k \in 1 .. 2, k = 2 => Twice(f),
         <<loads, f>> \notin raced =>
           n.year = k - 1 /\ n.quarter = k - 1 /\ n.date = k - 1
  PROVE  /\ Stowed(InUtc(r, k), DirectoryOf(g, f, r, n), loads, f)
         /\ InUtc(r, k) \in StoredRows
<1> DEFINE u == InUtc(r, k)
           d == DirectoryOf(g, f, r, n)
<1>1. /\ v \in Frames /\ "datetime" \in DOMAIN r
      /\ r.datetime \in Clocks /\ r.datetime - Offset \in Clocks
      /\ DirInv(d) /\ d.sid = f.sid /\ d.month = MonthAfter(r.datetime, n)
  BY RowsOfFrame
<1>2. r.datetime \in Int
  BY <1>1, ClocksAreIntegers
<1>3. u \in StoredRows
  BY <1>1 DEF StoredRows
<1>4. /\ u.datetime = r.datetime - k * Offset
      /\ "tick" \in DOMAIN r => u.tick = r.tick
  BY <1>1 DEF InUtc
<1> HIDE DEF u, d
<1>5. u.datetime \in Int /\ u.datetime + Offset = r.datetime - (k - 1) * Offset
  BY <1>2, <1>4 DEF Offset
<1>6. ASSUME <<loads, f>> \notin raced PROVE RowInv(u, d)
  <2>1. d.month = MonthOf(r.datetime - (k - 1) * Offset)
    <3>1. k - 1 \in 0 .. 1 /\ n.year = k - 1 /\ n.quarter = k - 1 /\ n.date = k - 1
      BY <1>6
    <3> QED  BY <1>1, <3>1, MonthAfterFacts
  <2>2. r.datetime - (k - 1) * Offset \in Clocks
    <3>1. \/ r.datetime - (k - 1) * Offset = r.datetime
          \/ r.datetime - (k - 1) * Offset = r.datetime - Offset
      BY <1>2 DEF Offset
    <3> QED  BY <1>1, <3>1
  <2> QED  BY <1>5, <2>1, <2>2 DEF RowInv
<1>7. StoredLag(u, loads, f)
  <2>1. f.suffix = g.suffix
    BY DEF FilesOf, RecursiveGlob
  <2>2. RowLag(r, f.suffix = "csv")
    BY <2>1, FramesLag DEF RowsLag
  <2>3. u.tick = IF f.suffix = "csv" THEN r.datetime ELSE r.datetime - Offset
    BY <1>1, <1>4, <2>2 DEF RowLag, Localized
  <2>4. CASE k = 1
    BY <1>2, <1>4, <2>3, <2>4 DEF StoredLag, Offset
  <2>5. CASE k = 2
    BY <1>2, <1>4, <2>3, <2>5 DEF StoredLag, Twice, Offset
  <2> QED  BY <2>4, <2>5
<1> QED  BY <1>1, <1>3, <1>5, <1>6, <1>7 DEF Stowed, u, d

LEMMA HiveInit == StoreInit => HiveInv /\ FramesInv
<1> SUFFICES ASSUME StoreInit PROVE HiveInv /\ FramesInv
  OBVIOUS
<1>1. job \in [Consumers -> {NoJob}] /\ again = {}
  BY DEF StoreInit
<1>2. \A j \in Jobs : ~ Held(j)
  BY <1>1, NoJobAssumption DEF Held
<1> QED  BY <1>1, <1>2, LoadsAssumption DEF StoreInit, HiveInv, FramesInv

\* More frames that are put twice, or raced on, leave all as it may be.
LEMMA Kept ==
  ASSUME twice \subseteq twice', raced \subseteq raced'
  PROVE  /\ \A x : EntryInv(x) => EntryInv(x)'
         /\ loads' = loads /\ graph' = graph => \A j : CanWrite(j) => CanWrite(j)'
<1>1. \A r, d, n, f : Stowed(r, d, n, f) => Stowed(r, d, n, f)'
  BY DEF Stowed, StoredLag
<1>2. \A x : EntryInv(x) => EntryInv(x)'
  BY <1>1 DEF EntryInv
<1>3. ASSUME loads' = loads, graph' = graph, NEW j, CanWrite(j) PROVE CanWrite(j)'
  <2> PICK n : n = loads
    OBVIOUS
  <2>1. \A t \in j.table : Stowed(t.row, t.dir, n, j.file)'
    BY <1>1, <1>3 DEF CanWrite
  <2>2. \A t \in j.table : Stowed(t.row, t.dir, loads, j.file)'
    BY <1>3, <2>1 DEF Stowed, StoredLag
  <2> QED  BY <1>3, <2>2 DEF CanWrite
<1> QED  BY <1>2, <1>3

\* A step of the load that runs.
LEMMA HiveKept ==
  ASSUME HiveInv, LoadInv, graph # NoLoad, UNCHANGED <<loads, graph>>,
         todo' \subseteq todo, faulty' \subseteq faulty \cup {loads},
         twice \subseteq twice', raced \subseteq raced',
         job' \in [Consumers -> Jobs \cup {NoJob}], again' \subseteq Jobs,
         \A j \in Jobs : Held(j)' => Held(j) \/ CanWrite(j),
         \A x \in disk' : x \in disk \/ EntryInv(x)
  PROVE  HiveInv'
<1>1. faulty' \subseteq 1 .. loads'
  BY DEF HiveInv, LoadInv
<1>2. \A j \in Jobs : Held(j)' => CanWrite(j)'
  BY Kept DEF HiveInv
<1>3. \A x \in disk' : EntryInv(x)'
  BY Kept DEF HiveInv
<1> QED  BY <1>1, <1>2, <1>3 DEF HiveInv

LEMMA LoadHive ==
  ASSUME HiveInv, FramesInv, JobInv, NEW g \in Graphs, NEW directory \in Directories,
         Load(g, directory)
  PROVE  HiveInv' /\ FramesInv'
<1>1. /\ graph = NoLoad /\ loads < MaxLoads /\ graph' = g /\ loads' = loads + 1
      /\ todo' = RecursiveGlob(directory, g.suffix, g.kind)
      /\ UNCHANGED <<job, disk, faulty, again, converted, twice, raced>>
  BY DEF Load, twiceVars
<1>2. todo' \subseteq FilesOf(g)
  BY <1>1 DEF RecursiveGlob, FilesOf, AllFiles
<1>3. (\A c \in Consumers : job[c] = NoJob) /\ again = {} /\ converted = {}
  BY <1>1 DEF JobInv
<1>4. loads \in Nat /\ loads' \in 0 .. MaxLoads /\ faulty' \subseteq 1 .. loads'
  BY <1>1, LoadsAssumption DEF HiveInv
<1>5. \A x \in disk' : EntryInv(x)'
  BY <1>1, Kept DEF HiveInv
<1>6. \A j \in Jobs : ~ Held(j)'
  BY <1>1, <1>3, NoJobAssumption DEF Held
<1>7. HiveInv'
  BY <1>1, <1>2, <1>4, <1>5, <1>6 DEF HiveInv
<1>8. /\ twice' \subseteq (1 .. loads') \X AllFiles
      /\ \A f : ~ Twice(f)'
  BY <1>1, <1>4 DEF FramesInv, Twice
<1> QED  BY <1>1, <1>3, <1>7, <1>8 DEF FramesInv

LEMMA TakeHive ==
  ASSUME HiveInv, LoadInv, FramesInv, graph # NoLoad,
         NEW c \in Consumers, NEW f \in todo, Take(c, f)
  PROVE  HiveInv' /\ FramesInv'
<1>1. /\ graph \in Graphs /\ f \in FilesOf(graph) /\ f \in AllFiles
      /\ loads \in Nat /\ loads > 0
  BY DEF HiveInv, LoadInv, FilesOf, RecursiveGlob
<1> PICK pipeline \in Pipelines(graph.nodes) :
       LET v == RunPipeline(pipeline, f)
           j == [file |-> f, frame |-> v, table |-> {}, opened |-> {}]
       IN /\ v.kind # "none"
          /\ IF pipeline = graph.nodes THEN UNCHANGED faulty ELSE Fault
          /\ job' = [job EXCEPT ![c] = IF Writable(v) THEN j ELSE NoJob]
          /\ UNCHANGED <<again, twice>> \/ (Writable(v) /\ PutTwice(j))
  BY DEF Take
<1> PICK v : v = RunPipeline(pipeline, f)
  OBVIOUS
<1> PICK j : j = [file |-> f, frame |-> v, table |-> {}, opened |-> {}]
  OBVIOUS
<1>2. v \in FramesOf(graph) /\ v \in Frames
  BY <1>1 DEF FramesOf, Frames
<1>3. /\ job' = [job EXCEPT ![c] = IF Writable(v) THEN j ELSE NoJob]
      /\ faulty' = faulty \/ faulty' = faulty \cup {loads}
      /\ \/ UNCHANGED <<again, twice>>
         \/ /\ Writable(v) /\ again' = again \cup {j}
            /\ twice' = twice \cup {<<loads, f>>}
      /\ todo' = todo \ {f} /\ UNCHANGED <<graph, loads, disk, converted, raced>>
  BY DEF Take, Fault, PutTwice
<1>4. /\ j \in Jobs /\ j # NoJob
      /\ j.file = f /\ j.frame = v /\ j.table = {} /\ j.opened = {}
  BY <1>1, <1>2, NoJobAssumption DEF Jobs
<1>5. Writable(v) => CanWrite(j)
  BY <1>1, <1>2, <1>4 DEF Writable, CanWrite
<1>6. /\ job \in [Consumers -> Jobs \cup {NoJob}]
      /\ job' \in [Consumers -> Jobs \cup {NoJob}]
      /\ job'[c] = IF Writable(v) THEN j ELSE NoJob
      /\ \A k \in Consumers \ {c} : job'[k] = job[k]
  BY <1>3, <1>4 DEF HiveInv
<1>7. again \subseteq Jobs /\ again' \subseteq Jobs
  BY <1>3, <1>4 DEF HiveInv
<1>8. \A i \in Jobs : Held(i)' => Held(i) \/ CanWrite(i)
  BY <1>3, <1>5, <1>6, NoJobAssumption DEF Held
<1>9. HiveInv'
  <2>1. /\ todo' \subseteq todo /\ faulty' \subseteq faulty \cup {loads}
        /\ twice \subseteq twice' /\ raced \subseteq raced'
        /\ disk' = disk /\ UNCHANGED <<loads, graph>>
    BY <1>3
  <2> QED  BY <1>6, <1>7, <1>8, <2>1, HiveKept
<1>10. /\ \A e \in todo' : e \notin converted' /\ ~ Twice(e)'
       /\ \A e : Twice(e) => Twice(e)'
  BY <1>3 DEF FramesInv, Twice
<1>11. ASSUME NEW i \in again'
       PROVE  i.file \notin todo' /\ Twice(i.file)' /\ i.table = {} /\ i.opened = {}
  <2>1. CASE i \in again
    BY <1>3, <1>10, <2>1 DEF FramesInv
  <2>2. CASE i = j /\ twice' = twice \cup {<<loads, f>>}
    BY <1>3, <1>4, <2>2 DEF Twice
  <2> QED  BY <1>3, <1>11, <2>1, <2>2
<1>12. ASSUME NEW k \in Consumers, job'[k] # NoJob
       PROVE  /\ job'[k].file \notin todo'
              /\ job'[k].table = {} /\ job'[k].file \in converted' =>
                   <<loads', job'[k].file>> \in twice'
              /\ \A i \in Consumers \ {k} :
                   job'[i] # NoJob /\ job'[i].file = job'[k].file =>
                     <<loads', job'[k].file>> \in twice'
  <2>1. /\ f \notin converted
        /\ \A i \in Consumers : job[i] # NoJob => job[i].file # f
    BY DEF FramesInv
  <2>2. CASE k = c
    BY <1>3, <1>4, <1>6, <1>12, <2>1, <2>2
  <2>3. CASE k # c
    BY <1>3, <1>4, <1>6, <1>12, <2>1, <2>3 DEF FramesInv, Twice
  <2> QED  BY <2>2, <2>3
<1>13. twice' \subseteq (1 .. loads') \X AllFiles /\ raced' \subseteq twice'
  BY <1>1, <1>3 DEF FramesInv
<1>14. converted' \subseteq AllFiles
  BY <1>3 DEF FramesInv
<1> QED  BY <1>9, <1>10, <1>11, <1>12, <1>13, <1>14 DEF FramesInv, Twice

LEMMA TakeAgainHive ==
  ASSUME HiveInv, LoadInv, FramesInv, graph # NoLoad,
         NEW c \in Consumers, NEW j \in again, TakeAgain(c, j)
  PROVE  HiveInv' /\ FramesInv'
<1>1. /\ j \in Jobs /\ j # NoJob
      /\ j.file \notin todo /\ Twice(j.file) /\ j.table = {} /\ j.opened = {}
  BY NoJobAssumption DEF HiveInv, FramesInv
<1>2. /\ again' = again \ {j} /\ job' = [job EXCEPT ![c] = j]
      /\ raced' = raced \/ raced' = raced \cup {<<loads, j.file>>}
      /\ UNCHANGED <<graph, loads, todo, disk, faulty, twice, converted>>
  BY DEF TakeAgain
<1>3. /\ job' \in [Consumers -> Jobs \cup {NoJob}] /\ again' \subseteq Jobs
      /\ job'[c] = j /\ \A k \in Consumers \ {c} : job'[k] = job[k]
  BY <1>1, <1>2 DEF HiveInv
<1>4. \A i \in Jobs : Held(i)' => Held(i)
  BY <1>2, <1>3 DEF Held
<1>5. HiveInv'
  <2>1. raced \subseteq raced'
    BY <1>2
  <2> QED  BY <1>2, <1>3, <1>4, <2>1, HiveKept
<1>6. raced' \subseteq twice'
  BY <1>1, <1>2 DEF FramesInv, Twice
<1>7. ASSUME NEW k \in Consumers, job'[k] # NoJob
      PROVE  /\ job'[k].file \notin todo'
             /\ job'[k].table = {} /\ job'[k].file \in converted' =>
                  <<loads', job'[k].file>> \in twice'
             /\ \A i \in Consumers \ {k} :
                  job'[i] # NoJob /\ job'[i].file = job'[k].file =>
                    <<loads', job'[k].file>> \in twice'
  <2>1. CASE job'[k].file = j.file
    BY <1>1, <1>2, <2>1 DEF Twice
  <2>2. CASE job'[k].file # j.file
    BY <1>2, <1>3, <1>7, <2>2 DEF FramesInv, Twice
  <2> QED  BY <2>1, <2>2
<1> QED  BY <1>2, <1>5, <1>6, <1>7 DEF FramesInv, Twice

\* A writer's table is made: every column after the conversions it was after.
LEMMA MadeTable ==
  ASSUME HiveInv, FramesInv, NEW c \in Consumers, job[c] # NoJob, job[c].table = {},
         NEW n \in Conversions, NEW k \in 1 .. 2, k = 2 => Twice(job[c].file),
         <<loads, job[c].file>> \notin raced =>
           n.year = k - 1 /\ n.quarter = k - 1 /\ n.date = k - 1,
         NEW j, j = [job[c] EXCEPT !.table = TableOf(graph, job[c], n, k)]
  PROVE  /\ j \in Jobs /\ CanWrite(j)
         /\ j.file = job[c].file /\ j.frame = job[c].frame /\ j.opened = job[c].opened
         /\ j.table = TableOf(graph, job[c], n, k) /\ j.table # {}
<1> PICK table : table = TableOf(graph, job[c], n, k)
  OBVIOUS
<1> PICK i : i = job[c]
  OBVIOUS
<1>1. i \in Jobs /\ CanWrite(i)
  BY DEF HiveInv, Held
<1>2. /\ graph \in Graphs /\ i.file \in FilesOf(graph) /\ i.frame \in FramesOf(graph)
      /\ HasColumn(i.frame, "datetime") /\ i.frame.rows # {} /\ i.opened = {}
  BY <1>1 DEF CanWrite, DirsOf
<1>3. table = {[dir |-> DirectoryOf(graph, i.file, r, n), row |-> InUtc(r, k)] :
                 r \in i.frame.rows}
  BY DEF TableOf
<1>4. ASSUME NEW r \in i.frame.rows
      PROVE  /\ Stowed(InUtc(r, k), DirectoryOf(graph, i.file, r, n), loads, i.file)
             /\ InUtc(r, k) \in StoredRows
  BY <1>2, RowOfTable
<1>5. \A t \in table : /\ Stowed(t.row, t.dir, loads, i.file) /\ t.row \in StoredRows
                       /\ t = [dir |-> t.dir, row |-> t.row]
  BY <1>3, <1>4
<1>6. table # {} /\ table \subseteq [dir : DirOf, row : StoredRows]
  <2>1. table # {}
    BY <1>2, <1>3
  <2>2. \A t \in table : t.dir \in DirOf /\ t.row \in StoredRows
    BY <1>5 DEF Stowed, DirInv
  <2> QED  BY <1>5, <2>1, <2>2
<1>7. j = [i EXCEPT !.table = table]
  OBVIOUS
<1>8. /\ j \in Jobs /\ j.file = i.file /\ j.frame = i.frame /\ j.opened = i.opened
      /\ j.table = table
  BY <1>1, <1>6, <1>7 DEF Jobs
<1>9. CanWrite(j)
  BY <1>2, <1>5, <1>8 DEF CanWrite
<1> QED  BY <1>6, <1>8, <1>9

\* What becomes of the job: it has its table, or pandas raised.
LEMMA MakeCases ==
  ASSUME HiveInv, FramesInv, NEW c \in Consumers, MakePartition(c)
  PROVE  \/ /\ <<loads, job[c].file>> \in raced
            /\ job' = [job EXCEPT ![c] = NoJob]
         \/ \E n \in Conversions, k \in 1 .. 2 :
              /\ k = 2 => Twice(job[c].file)
              /\ <<loads, job[c].file>> \notin raced =>
                   /\ n.year = k - 1 /\ n.quarter = k - 1 /\ n.date = k - 1
                   /\ k = IF job[c].file \in converted THEN 2 ELSE 1
              /\ job' = [job EXCEPT ![c].table = TableOf(graph, job[c], n, k)]
<1>1. CASE <<loads, job[c].file>> \in raced
  <2>1. Twice(job[c].file)
    BY <1>1 DEF FramesInv, Twice
  <2> QED  BY <1>1, <2>1, RacesAssumption DEF MakePartition
<1>2. CASE <<loads, job[c].file>> \notin raced
  <2> PICK once \in 0 .. 1 : once = IF job[c].file \in converted THEN 1 ELSE 0
    OBVIOUS
  <2> PICK n \in Conversions : n = [year |-> once, quarter |-> once, date |-> once]
    BY DEF Conversions
  <2>1. job' = [job EXCEPT ![c].table = TableOf(graph, job[c], n, once + 1)]
    BY <1>2 DEF MakePartition
  <2>2. once + 1 = 2 => Twice(job[c].file)
    BY DEF FramesInv, MakePartition
  <2>3. /\ once + 1 \in 1 .. 2 /\ (once + 1) - 1 = once
        /\ once + 1 = IF job[c].file \in converted THEN 2 ELSE 1
    OBVIOUS
  <2>4. n.year = once /\ n.quarter = once /\ n.date = once
    OBVIOUS
  <2> QED  BY <2>1, <2>2, <2>3, <2>4
<1> QED  BY <1>1, <1>2

LEMMA MakePartitionHive ==
  ASSUME HiveInv, LoadInv, FramesInv, graph # NoLoad,
         NEW c \in Consumers, MakePartition(c)
  PROVE  HiveInv' /\ FramesInv'
<1> PICK f : f = job[c].file
  OBVIOUS
<1>1. /\ job[c] # NoJob /\ job[c].table = {}
      /\ converted' = converted \cup {f}
      /\ UNCHANGED <<graph, loads, todo, disk, faulty, again, twice, raced>>
  BY DEF MakePartition
<1>2. PICK j \in Jobs \cup {NoJob} :
        /\ job' = [job EXCEPT ![c] = j]
        /\ j # NoJob => CanWrite(j) /\ j.file = f /\ j.table # {}
  <2>1. CASE job' = [job EXCEPT ![c] = NoJob]
    BY <2>1
  <2>2. CASE \E n \in Conversions, k \in 1 .. 2 :
               /\ k = 2 => Twice(job[c].file)
               /\ <<loads, job[c].file>> \notin raced =>
                    n.year = k - 1 /\ n.quarter = k - 1 /\ n.date = k - 1
               /\ job' = [job EXCEPT ![c].table = TableOf(graph, job[c], n, k)]
    <3> PICK n \in Conversions, k \in 1 .. 2 :
               /\ k = 2 => Twice(job[c].file)
               /\ <<loads, job[c].file>> \notin raced =>
                    n.year = k - 1 /\ n.quarter = k - 1 /\ n.date = k - 1
               /\ job' = [job EXCEPT ![c].table = TableOf(graph, job[c], n, k)]
      BY <2>2
    <3> PICK j : j = [job[c] EXCEPT !.table = TableOf(graph, job[c], n, k)]
      OBVIOUS
    <3>1. j \in Jobs /\ CanWrite(j) /\ j.file = f /\ j.table # {}
      BY <1>1, MadeTable
    <3> QED  BY <3>1
  <2> QED  BY <2>1, <2>2, MakeCases
<1>3. /\ job' \in [Consumers -> Jobs \cup {NoJob}]
      /\ job'[c] = j /\ \A k \in Consumers \ {c} : job'[k] = job[k]
  BY <1>2 DEF HiveInv
<1>4. \A i \in Jobs : Held(i)' => Held(i) \/ CanWrite(i)
  BY <1>1, <1>2, <1>3, NoJobAssumption DEF Held
<1>5. HiveInv'
  BY <1>1, <1>3, <1>4, HiveKept DEF HiveInv
<1>6. f \in AllFiles /\ f \notin todo
  BY <1>1, NoJobAssumption DEF HiveInv, Jobs, FramesInv
<1>7. ASSUME NEW k \in Consumers, job'[k] # NoJob
      PROVE  /\ job'[k].file \notin todo'
             /\ job'[k].table = {} /\ job'[k].file \in converted' =>
                  <<loads', job'[k].file>> \in twice'
             /\ \A i \in Consumers \ {k} :
                  job'[i] # NoJob /\ job'[i].file = job'[k].file =>
                    <<loads', job'[k].file>> \in twice'
  <2>1. CASE k = c
    BY <1>1, <1>2, <1>3, <1>7, <2>1 DEF FramesInv, Twice
  <2>2. CASE k # c
    BY <1>1, <1>2, <1>3, <1>7, <2>2 DEF FramesInv, Twice
  <2> QED  BY <2>1, <2>2
<1> QED  BY <1>1, <1>5, <1>6, <1>7 DEF FramesInv, Twice

LEMMA OpenHive ==
  ASSUME HiveInv, LoadInv, FramesInv, graph # NoLoad,
         NEW c \in Consumers, NEW d, OpenPartition(c, d)
  PROVE  HiveInv' /\ FramesInv'
<1> PICK j : j = [job[c] EXCEPT !.opened = @ \cup {d}]
  OBVIOUS
<1> PICK i : i = job[c]
  OBVIOUS
<1> PICK w \in Holders(c, d) :
       disk' = {x \in disk : x.dir = d => SurvivesIn(graph, x)}
                 \cup {[dir |-> d, name |-> Basename(graph), load |-> loads,
                        file |-> job[c].file, by |-> w,
                        complete |-> FALSE, rows |-> {}]}
  BY DEF OpenPartition
<1>1. /\ i # NoJob /\ d \in DirsOf(i.table) \ i.opened /\ job' = [job EXCEPT ![c] = j]
      /\ UNCHANGED <<graph, loads, todo, faulty, again, converted, twice, raced>>
  BY DEF OpenPartition, twiceVars
<1>2. i \in Jobs /\ CanWrite(i)
  BY <1>1 DEF HiveInv, Held
<1>3. DirInv(d) /\ d \in DirOf
  BY <1>1, <1>2 DEF CanWrite, DirsOf, Stowed, DirInv
<1>4. /\ j \in Jobs /\ j.file = i.file /\ j.frame = i.frame /\ j.table = i.table
      /\ j.opened = i.opened \cup {d} /\ j # NoJob
  BY <1>2, <1>3, NoJobAssumption DEF Jobs
<1>5. CanWrite(j)
  BY <1>1, <1>2, <1>4 DEF CanWrite
<1>6. ASSUME NEW x \in disk', x \notin disk PROVE EntryInv(x)
  <2>1. x = [dir |-> d, name |-> Basename(graph), load |-> loads,
             file |-> job[c].file, by |-> w, complete |-> FALSE, rows |-> {}]
    BY <1>6
  <2> QED  BY <1>3, <2>1 DEF EntryInv
<1>7. /\ job' \in [Consumers -> Jobs \cup {NoJob}]
      /\ job'[c] = j /\ \A k \in Consumers \ {c} : job'[k] = job[k]
  BY <1>1, <1>4 DEF HiveInv
<1>8. \A k \in Jobs : Held(k)' => Held(k) \/ CanWrite(k)
  BY <1>1, <1>5, <1>7 DEF Held
<1>9. HiveInv'
  BY <1>1, <1>6, <1>7, <1>8, HiveKept DEF HiveInv
<1>10. \A k \in Consumers : job'[k] # NoJob =>
         job[k] # NoJob /\ job'[k].file = job[k].file /\ job'[k].table = job[k].table
  BY <1>1, <1>4, <1>7
<1> QED  BY <1>1, <1>9, <1>10 DEF FramesInv, Twice

\* A writer is done, or gives up.
LEMMA JobOver ==
  ASSUME HiveInv, LoadInv, FramesInv, graph # NoLoad, NEW c \in Consumers,
         job[c] # NoJob, job' = [job EXCEPT ![c] = NoJob],
         converted' \in {converted, converted \cup {job[c].file}},
         UNCHANGED <<graph, loads, todo, again, twice, raced>>,
         faulty' \subseteq faulty \cup {loads},
         \A x \in disk' : x \in disk \/ EntryInv(x)
  PROVE  HiveInv' /\ FramesInv'
<1>1. /\ job' \in [Consumers -> Jobs \cup {NoJob}]
      /\ job'[c] = NoJob /\ \A k \in Consumers \ {c} : job'[k] = job[k]
  BY DEF HiveInv
<1>2. \A j \in Jobs : Held(j)' => Held(j)
  BY <1>1, NoJobAssumption DEF Held
<1>3. HiveInv'
  BY <1>1, <1>2, HiveKept DEF HiveInv
<1> PICK f : f = job[c].file
  OBVIOUS
<1>4. f \in AllFiles /\ f \notin todo
  BY NoJobAssumption DEF HiveInv, Jobs, FramesInv
<1>5. converted' \subseteq converted \cup {f}
  OBVIOUS
<1>6. ASSUME NEW k \in Consumers, job'[k] # NoJob
      PROVE  /\ job'[k].file \notin todo'
             /\ job'[k].table = {} /\ job'[k].file \in converted' =>
                  <<loads', job'[k].file>> \in twice'
             /\ \A i \in Consumers \ {k} :
                  job'[i] # NoJob /\ job'[i].file = job'[k].file =>
                    <<loads', job'[k].file>> \in twice'
  <2>1. k # c /\ job'[k] = job[k] /\ job[k] # NoJob
    BY <1>1, <1>6
  <2>2. job[k].file = f => <<loads, f>> \in twice
    BY <2>1 DEF FramesInv, Twice
  <2> QED  BY <1>1, <1>5, <2>1, <2>2 DEF FramesInv, Twice
<1> QED  BY <1>3, <1>4, <1>5, <1>6 DEF FramesInv, Twice

LEMMA CloseHive ==
  ASSUME HiveInv, LoadInv, FramesInv, graph # NoLoad,
         NEW c \in Consumers, CloseFiles(c)
  PROVE  HiveInv' /\ FramesInv'
<1> PICK i : i = job[c]
  OBVIOUS
<1> DEFINE shut(x) == [x EXCEPT !.by = NoWriter, !.complete = TRUE,
                                !.rows = RowsFor(job[c].table, x.dir)]
<1>1. /\ i # NoJob /\ job' = [job EXCEPT ![c] = NoJob]
      /\ disk' = (disk \ WrittenBy(c)) \cup {shut(x) : x \in WrittenBy(c)}
      /\ UNCHANGED <<graph, loads, todo, faulty, again, converted, twice, raced>>
  BY DEF CloseFiles, twiceVars
<1>2. CanWrite(i)
  BY <1>1 DEF HiveInv, Held
<1>3. ASSUME NEW x \in WrittenBy(c) PROVE EntryInv(shut(x))
  <2>1. EntryInv(x) /\ x.file = i.file /\ x.load = loads
    BY DEF HiveInv, WrittenBy
  <2>2. ASSUME NEW r \in RowsFor(i.table, x.dir)
        PROVE  Stowed(r, x.dir, x.load, x.file)
    <3>1. PICK t \in i.table : r = t.row /\ t.dir = x.dir
      BY DEF RowsFor
    <3> QED  BY <1>2, <2>1, <3>1 DEF CanWrite
  <2>3. /\ DOMAIN shut(x) = DOMAIN x /\ shut(x).dir = x.dir
        /\ shut(x).complete = TRUE /\ shut(x).rows = RowsFor(i.table, x.dir)
        /\ shut(x).file = x.file /\ shut(x).load = x.load
    BY <2>1 DEF EntryInv
  <2> HIDE DEF shut
  <2> QED  BY <2>1, <2>2, <2>3 DEF EntryInv
<1> HIDE DEF shut
<1>4. \A x \in disk' : x \in disk \/ EntryInv(x)
  BY <1>1, <1>3
<1> QED  BY <1>1, <1>4, JobOver

LEMMA HiveStep ==
  ASSUME HiveInv, FramesInv, LoadInv, JobInv, StoreNext
  PROVE  HiveInv' /\ FramesInv'
<1>0. graph = NoLoad => /\ todo = {} /\ again = {}
                        /\ \A c \in Consumers : job[c] = NoJob
  BY DEF JobInv
<1>1. ASSUME NEW f \in todo, Lose(f) PROVE HiveInv' /\ FramesInv'
  <2>1. /\ graph # NoLoad /\ todo' = todo \ {f} /\ faulty' = faulty \cup {loads}
        /\ UNCHANGED <<graph, loads, job, disk, again, converted, twice, raced>>
    BY <1>1 DEF Lose, Fault, twiceVars
  <2>2. \A j : Held(j)' <=> Held(j)
    BY <2>1 DEF Held
  <2>3. HiveInv'
    BY <2>1, <2>2, HiveKept DEF HiveInv
  <2> QED  BY <2>1, <2>3 DEF FramesInv, Twice
<1>2. ASSUME NEW f \in todo, NEW c \in Consumers, Take(c, f)
      PROVE  HiveInv' /\ FramesInv'
  BY <1>0, <1>2, TakeHive
<1>3. ASSUME NEW c \in Consumers, NEW j \in again, TakeAgain(c, j)
      PROVE  HiveInv' /\ FramesInv'
  BY <1>0, <1>3, TakeAgainHive
<1>4. ASSUME NEW c \in Consumers, MakePartition(c) PROVE HiveInv' /\ FramesInv'
  BY <1>0, <1>4, MakePartitionHive DEF MakePartition
<1>5. ASSUME NEW c \in Consumers, NEW d, OpenPartition(c, d)
      PROVE  HiveInv' /\ FramesInv'
  BY <1>0, <1>5, OpenHive DEF OpenPartition
<1>6. ASSUME NEW c \in Consumers, CloseFiles(c) PROVE HiveInv' /\ FramesInv'
  BY <1>0, <1>6, CloseHive DEF CloseFiles
<1>7. ASSUME NEW c \in Consumers, WriteFails(c) PROVE HiveInv' /\ FramesInv'
  BY <1>0, <1>7, JobOver DEF WriteFails, Fault
<1>8. CASE Kill \/ EndLoad
  <2>1. /\ graph' = NoLoad /\ todo' = {} /\ again' = {} /\ converted' = {}
        /\ faulty' \subseteq faulty \cup {loads}
        /\ job' \in [Consumers -> {NoJob}]
        /\ UNCHANGED <<loads, disk, twice, raced>> /\ loads > 0
    BY <1>8 DEF Kill, Fault, EndLoad, HiveInv, LoadInv
  <2>2. \A j \in Jobs : ~ Held(j)'
    BY <2>1, NoJobAssumption DEF Held
  <2>3. \A x \in disk' : EntryInv(x)'
    BY <2>1, Kept DEF HiveInv
  <2>4. HiveInv'
    BY <2>1, <2>2, <2>3, LoadsAssumption DEF HiveInv
  <2> QED  BY <2>1, <2>4 DEF FramesInv, Twice
<1> QED
  BY <1>1, <1>2, <1>3, <1>4, <1>5, <1>6, <1>7, <1>8, LoadHive DEF StoreNext

LEMMA HiveStutter ==
  ASSUME HiveInv, FramesInv, UNCHANGED storeVars
  PROVE  HiveInv' /\ FramesInv'
<1>1. UNCHANGED <<graph, loads, todo, job, disk, faulty, again, converted, twice, raced>>
  BY DEF storeVars, twiceVars
<1>2. (\A x \in disk' : EntryInv(x)') /\ \A j : CanWrite(j) => CanWrite(j)'
  BY <1>1, Kept DEF HiveInv
<1>3. \A j : Held(j)' <=> Held(j)
  BY <1>1 DEF Held
<1> QED  BY <1>1, <1>2, <1>3 DEF HiveInv, FramesInv, Twice

LEMMA StoreTypes == HiveInv /\ FramesInv /\ FilesInv /\ JobInv => StoreTypeOK
<1> SUFFICES ASSUME HiveInv, FramesInv, FilesInv, JobInv PROVE StoreTypeOK
  OBVIOUS
<1>1. todo \subseteq AllFiles
  BY DEF HiveInv, JobInv, FilesOf, RecursiveGlob
<1>2. loads \in Nat
  BY LoadsAssumption DEF HiveInv
<1>3. ASSUME NEW x \in disk
      PROVE  /\ x.dir \in DirOf /\ x.name \in 0 .. loads
             /\ x.load \in 1 .. loads /\ x.complete \in BOOLEAN
  BY <1>2 DEF HiveInv, EntryInv, DirInv, FilesInv
<1> QED  BY <1>1, <1>3 DEF HiveInv, FramesInv, StoreTypeOK

-----------------------------------------------------------------------------
(* How far the load that runs has come.                                    *)

\* What a file of the load should give, and what there is of it so far.
FrameOf(f) == RunPipeline(last.graph.nodes, f)
AtOnce == [year |-> 0, quarter |-> 0, date |-> 0]
TableFor(f) == TableOf(last.graph, [file |-> f, frame |-> FrameOf(f)], AtOnce, 1)
Now(f) == {x \in disk : x.load = loads /\ x.file = f}

\* A file of the load is done, or some writer is at it.
Stored(f) == \A d \in DirsOf(TableFor(f)) : \E x \in Now(f) : x.dir = d /\ x.complete
Busy(f) == \E c \in Consumers : job[c] # NoJob /\ job[c].file = f

\* A writer has the whole frame of a file, from _make_partition on its table,
\* and of that file there is on disk what it has opened.
Writing(c) ==
  LET f == job[c].file IN
  /\ job[c].frame = FrameOf(f)
  /\ job[c].table # {} => job[c].table = TableFor(f)
  /\ \A d \in job[c].opened : \E x \in Now(f) : x.dir = d
  /\ \A x \in Now(f) : x.dir \in job[c].opened /\ x.by = c

\* A parquet file of the load has the rows of its directory, or its writer is
\* still at it.
Written(x) ==
  LET table == TableFor(x.file) IN
  /\ x.file \notin todo /\ x.dir \in DirsOf(table)
  /\ x.complete => x.rows = RowsFor(table, x.dir)
  /\ ~x.complete => Busy(x.file)

\* The latest load took files of its graph, one for a security; nothing else is
\* taken, written or stored, and each in directories of its security.
LastInv ==
  loads > 0 =>
    /\ last.graph \in Graphs /\ (graph # NoLoad => last.graph = graph)
    /\ last.files \subseteq FilesOf(last.graph) /\ todo \subseteq last.files
    /\ \A f, e \in last.files : f.sid = e.sid => f = e
    /\ \A j \in again : j.file \in last.files
    /\ \A c \in Consumers : job[c] # NoJob => job[c].file \in last.files
    /\ \A x \in disk : x.load = loads => x.file \in last.files /\ x.dir.sid = x.file.sid

\* When nothing has failed, every file of the load whose frame is put once
\* waits, is in hand or stored.
ReadInv ==
  loads > 0 /\ loads \notin faulty =>
    /\ \A f \in last.files : ~ Twice(f) => f \in todo \/ Stored(f) \/ Busy(f)
    /\ \A c \in Consumers : job[c] # NoJob /\ ~ Twice(job[c].file) => Writing(c)
    /\ \A x \in disk : x.load = loads /\ ~ Twice(x.file) => Written(x)

LEMMA LastKept ==
  ASSUME LastInv, UNCHANGED <<last, loads>>, todo' \subseteq todo,
         graph' = graph \/ graph' = NoLoad,
         loads > 0 =>
           /\ \A j \in again' : j \in again \/ j.file \in last.files
           /\ \A c \in Consumers : job'[c] # NoJob =>
                (job[c] # NoJob /\ job'[c].file = job[c].file) \/ job'[c].file \in last.files
           /\ \A x \in disk' : x.load = loads =>
                x \in disk \/ (x.file \in last.files /\ x.dir.sid = x.file.sid)
  PROVE  LastInv'
<1> SUFFICES ASSUME loads > 0 PROVE LastInv'
  BY DEF LastInv
<1>1. /\ last'.graph \in Graphs /\ (graph' # NoLoad => last'.graph = graph')
      /\ last'.files \subseteq FilesOf(last'.graph) /\ todo' \subseteq last'.files
      /\ \A f, e \in last'.files : f.sid = e.sid => f = e
  BY DEF LastInv
<1>2. \A j \in again' : j.file \in last'.files
  BY DEF LastInv
<1>3. \A c \in Consumers : job'[c] # NoJob => job'[c].file \in last'.files
  BY DEF LastInv
<1>4. \A x \in disk' : x.load = loads' => x.file \in last'.files /\ x.dir.sid = x.file.sid
  BY DEF LastInv
<1> QED  BY <1>1, <1>2, <1>3, <1>4 DEF LastInv

LEMMA LastStep ==
  ASSUME ReadableInput, LastInv, HiveInv, FilesInv, JobInv, loads \in Nat,
         graph # NoLoad => loads > 0, StoreNext
  PROVE  LastInv'
<1>0. job \in [Consumers -> Jobs \cup {NoJob}] /\ again \subseteq Jobs
  BY DEF HiveInv
<1>1. ASSUME NEW g \in Graphs, NEW directory \in Directories, Load(g, directory)
      PROVE  LastInv'
  <2>1. /\ graph' = g /\ last'.graph = g /\ last'.files = todo' /\ loads' = loads + 1
        /\ todo' = RecursiveGlob(directory, g.suffix, g.kind) /\ graph = NoLoad
        /\ UNCHANGED <<job, disk, again>>
    BY <1>1 DEF Load, twiceVars
  <2>2. todo' \subseteq FilesOf(g)
    BY <2>1 DEF RecursiveGlob, FilesOf, AllFiles
  <2>3. \A f, e \in todo' : f.sid = e.sid => f = e
    BY <2>1 DEF ReadableInput
  <2>4. again' = {} /\ \A c \in Consumers : job'[c] = NoJob
    BY <2>1 DEF JobInv
  <2>5. \A x \in disk' : x.load # loads'
    BY <2>1 DEF FilesInv
  <2> QED  BY <2>1, <2>2, <2>3, <2>4, <2>5 DEF LastInv
<1>2. ASSUME NEW f \in todo, Lose(f) PROVE LastInv'
  BY <1>2, LastKept DEF Lose, twiceVars
<1>3. ASSUME NEW f \in todo, NEW c \in Consumers, Take(c, f) PROVE LastInv'
  <2>1. loads > 0 => f \in last.files
    BY DEF LastInv
  <2>2. PICK v, j : /\ j = [file |-> f, frame |-> v, table |-> {}, opened |-> {}]
                    /\ job' = [job EXCEPT ![c] = IF Writable(v) THEN j ELSE NoJob]
                    /\ again' \subseteq again \cup {j}
    BY <1>3, Zenon DEF Take, PutTwice
  <2>3. UNCHANGED <<last, loads, graph, disk>> /\ todo' \subseteq todo
    BY <1>3 DEF Take
  <2> QED  BY <1>0, <2>1, <2>2, <2>3, LastKept
<1>4. ASSUME NEW c \in Consumers, NEW j \in again, TakeAgain(c, j) PROVE LastInv'
  <2>1. /\ UNCHANGED <<last, loads, graph, disk, todo>>
        /\ again' = again \ {j} /\ job' = [job EXCEPT ![c] = j]
    BY <1>4 DEF TakeAgain
  <2>2. loads > 0 => j.file \in last.files
    BY DEF LastInv
  <2> QED  BY <1>0, <2>1, <2>2, LastKept
<1>5. ASSUME NEW c \in Consumers, MakePartition(c) PROVE LastInv'
  <2>1. /\ UNCHANGED <<last, loads, graph, disk, todo, again>>
        /\ job[c] \in Jobs /\ job[c] # NoJob
    BY <1>0, <1>5 DEF MakePartition
  <2>2. PICK table : \/ job' = [job EXCEPT ![c] = NoJob]
                     \/ job' = [job EXCEPT ![c].table = table]
    BY <1>5, Zenon DEF MakePartition
  <2>3. \A k \in Consumers : job'[k] # NoJob =>
          job[k] # NoJob /\ job'[k].file = job[k].file
    BY <1>0, <2>1, <2>2 DEF Jobs
  <2> QED  BY <2>1, <2>3, LastKept
<1>6. ASSUME NEW c \in Consumers, NEW d, OpenPartition(c, d) PROVE LastInv'
  <2> PICK i : i = job[c]
    OBVIOUS
  <2>1. /\ UNCHANGED <<last, loads, graph, todo, again>> /\ i # NoJob
        /\ d \in DirsOf(i.table) /\ job' = [job EXCEPT ![c].opened = @ \cup {d}]
        /\ \A x \in disk' : x \in disk \/ (x.dir = d /\ x.file = i.file)
    BY <1>6 DEF OpenPartition, twiceVars
  <2>2. i \in Jobs /\ CanWrite(i)
    BY <1>0, <2>1 DEF HiveInv, Held
  <2>3. \A k \in Consumers : job'[k] # NoJob =>
          job[k] # NoJob /\ job'[k].file = job[k].file
    BY <1>0, <2>1, <2>2 DEF Jobs
  <2>4. d.sid = i.file.sid
    BY <2>1, <2>2 DEF CanWrite, DirsOf, Stowed
  <2>5. loads > 0 => i.file \in last.files
    BY <2>1 DEF LastInv
  <2> QED  BY <2>1, <2>3, <2>4, <2>5, LastKept
<1>7. ASSUME NEW c \in Consumers, CloseFiles(c) PROVE LastInv'
  <2>1. UNCHANGED <<last, loads, graph, todo, again>> /\ job' = [job EXCEPT ![c] = NoJob]
    BY <1>7 DEF CloseFiles, twiceVars
  <2>2. ASSUME NEW x \in disk', x \notin disk
        PROVE  \E o \in disk : x.dir = o.dir /\ x.load = o.load /\ x.file = o.file
    <3>1. PICK o \in WrittenBy(c) :
            x = [o EXCEPT !.by = NoWriter, !.complete = TRUE,
                          !.rows = RowsFor(job[c].table, o.dir)]
      BY <1>7, <2>2 DEF CloseFiles
    <3>2. o \in disk /\ {"dir", "load", "file"} \subseteq DOMAIN o
      BY DEF WrittenBy, HiveInv, EntryInv
    <3> QED  BY <3>1, <3>2
  <2>3. loads > 0 => \A x \in disk' : x.load = loads =>
          x \in disk \/ (x.file \in last.files /\ x.dir.sid = x.file.sid)
    BY <2>2 DEF LastInv
  <2> QED  BY <1>0, <2>1, <2>3, LastKept
<1>8. ASSUME NEW c \in Consumers, WriteFails(c) PROVE LastInv'
  <2>1. /\ UNCHANGED <<last, loads, graph, todo, again, disk>>
        /\ job' = [job EXCEPT ![c] = NoJob]
    BY <1>8 DEF WriteFails
  <2> QED  BY <1>0, <2>1, LastKept
<1>9. CASE Kill \/ EndLoad
  <2>1. /\ UNCHANGED <<last, loads, disk>> /\ todo' \subseteq todo /\ again' \subseteq again
        /\ graph' = NoLoad /\ \A c \in Consumers : job'[c] = NoJob
    BY <1>9 DEF Kill, EndLoad
  <2> QED  BY <2>1, LastKept
<1> QED
  BY <1>1, <1>2, <1>3, <1>4, <1>5, <1>6, <1>7, <1>8, <1>9 DEF StoreNext

LEMMA LoadRead ==
  ASSUME FilesInv, JobInv, loads \in Nat,
         NEW g \in Graphs, NEW directory \in Directories, Load(g, directory)
  PROVE  ReadInv'
<1>1. /\ graph = NoLoad /\ loads' = loads + 1 /\ last'.files = todo'
      /\ UNCHANGED <<job, disk>>
  BY DEF Load
<1>2. \A c \in Consumers : job'[c] = NoJob
  BY <1>1 DEF JobInv
<1>3. \A x \in disk' : x.load # loads'
  BY <1>1 DEF FilesInv
<1> QED  BY <1>1, <1>2, <1>3 DEF ReadInv

\* Nothing is said of a load in which something failed.
LEMMA FaultRead ==
  ASSUME Fault, UNCHANGED loads
  PROVE  ReadInv'
  BY DEF Fault, ReadInv

\* The directories of a file are its security's.
LEMMA TableForIs ==
  ASSUME NEW f
  PROVE  /\ \A d \in DirsOf(TableFor(f)) : d.sid = f.sid
         /\ FrameOf(f).rows = {} => TableFor(f) = {}
  BY DEF DirsOf, TableFor, TableOf, DirectoryOf

\* A step of a writer that has one file in hand, and leaves the disk alone.
LEMMA HandsRead ==
  ASSUME ReadInv, loads > 0, loads \notin faulty,
         UNCHANGED <<loads, disk, last, faulty>>, twice \subseteq twice',
         NEW c \in Consumers, \A k \in Consumers \ {c} : job'[k] = job[k],
         NEW f, todo \ {f} \subseteq todo', todo' \subseteq todo,
         job[c] # NoJob => job[c].file = f,
         job'[c] # NoJob => job'[c].file = f /\ (Twice(f)' \/ Writing(c)'),
         Twice(f)' \/ Busy(f)' \/ (~ Busy(f) /\ Stored(f))
  PROVE  ReadInv'
<1>1. /\ \A e \in last.files : ~ Twice(e) => e \in todo \/ Stored(e) \/ Busy(e)
      /\ \A k \in Consumers : job[k] # NoJob /\ ~ Twice(job[k].file) => Writing(k)
      /\ \A x \in disk : x.load = loads /\ ~ Twice(x.file) => Written(x)
  BY DEF ReadInv
<1>2. \A e : ~ Twice(e)' => ~ Twice(e)
  BY DEF Twice
<1>3. /\ \A e : FrameOf(e)' = FrameOf(e) /\ Now(e)' = Now(e)
      /\ \A e : TableFor(e)' = TableFor(e)
  BY DEF FrameOf, Now, TableFor, TableOf
<1>4. \A e : Stored(e)' <=> Stored(e)
  BY <1>3 DEF Stored, DirsOf
<1>5. \A e : e # f /\ Busy(e) => Busy(e)'
  BY DEF Busy
<1>6. ASSUME NEW e \in last'.files, ~ Twice(e)'
      PROVE  e \in todo' \/ Stored(e)' \/ Busy(e)'
  BY <1>1, <1>2, <1>4, <1>5, <1>6
<1>7. ASSUME NEW k \in Consumers, NEW e, job'[k] # NoJob, e = job'[k].file, ~ Twice(e)'
      PROVE  Writing(k)'
  <2>1. CASE k = c
    BY <1>7, <2>1
  <2>2. CASE k # c
    <3>1. job'[k] = job[k] /\ ~ Twice(e) /\ e = job[k].file /\ job[k] # NoJob
      BY <1>2, <1>7, <2>2
    <3>2. Writing(k)
      BY <1>1, <3>1
    <3> QED  BY <1>3, <3>1, <3>2 DEF Writing
  <2> QED  BY <2>1, <2>2
<1>8. ASSUME NEW x \in disk', x.load = loads', ~ Twice(x.file)' PROVE Written(x)'
  <2>1. Written(x)
    BY <1>1, <1>2, <1>8
  <2>2. Busy(x.file) => Busy(x.file)'
    BY <1>5, <1>8
  <2> QED  BY <1>3, <2>1, <2>2 DEF Written, DirsOf, RowsFor
<1>9. \A k \in Consumers : job'[k] # NoJob /\ ~ Twice(job[k].file)' => Writing(k)'
  BY <1>7 DEF Twice
<1> QED  BY <1>6, <1>8, <1>9 DEF ReadInv

\* A writer gets a frame of every row of the file.
LEMMA TakeRead ==
  ASSUME ReadableInput, ReadInv, LastInv, HiveInv, FramesInv, loads > 0, graph # NoLoad,
         NEW c \in Consumers, NEW f \in todo, Take(c, f), UNCHANGED faulty
  PROVE  ReadInv'
<1> SUFFICES ASSUME loads \notin faulty PROVE ReadInv'
  BY DEF Take, ReadInv
<1>1. last.graph = graph /\ graph \in Graphs /\ f \in FilesOf(graph) /\ f \in last.files
  BY DEF LastInv
<1> PICK v : v = FrameOf(f)
  OBVIOUS
<1> PICK j : j = [file |-> f, frame |-> v, table |-> {}, opened |-> {}]
  OBVIOUS
<1>2. PICK pipeline \in Pipelines(graph.nodes) :
        LET w == RunPipeline(pipeline, f)
            i == [file |-> f, frame |-> w, table |-> {}, opened |-> {}]
        IN /\ IF pipeline = graph.nodes THEN UNCHANGED faulty ELSE Fault
           /\ job' = [job EXCEPT ![c] = IF Writable(w) THEN i ELSE NoJob]
           /\ UNCHANGED <<again, twice>> \/ (Writable(w) /\ PutTwice(i))
  BY DEF Take
<1>3. ~ Fault
  BY DEF Fault
<1>4. pipeline = graph.nodes
  BY <1>2, <1>3
<1>5. v = RunPipeline(pipeline, f) /\ v \in FramesOf(graph)
  BY <1>1, <1>4 DEF FrameOf, FramesOf
<1>6. /\ job[c] = NoJob /\ todo' = todo \ {f} /\ twice \subseteq twice'
      /\ UNCHANGED <<graph, loads, disk, last, faulty>>
      /\ job' = [job EXCEPT ![c] = IF Writable(v) THEN j ELSE NoJob]
  BY <1>2, <1>5 DEF Take, PutTwice
<1>7. v.kind = "frame" /\ HasColumn(v, "datetime")
  BY <1>1, LinesOfFrame DEF FrameOf
<1>8. j # NoJob /\ j.file = f /\ j.frame = v /\ j.table = {} /\ j.opened = {}
  <2>1. f \in AllFiles /\ v \in Frames
    BY <1>1, <1>5 DEF FilesOf, RecursiveGlob, Frames
  <2> QED  BY <2>1, NoJobAssumption DEF Jobs
<1>9. /\ \A k \in Consumers \ {c} : job'[k] = job[k]
      /\ job'[c] = IF Writable(v) THEN j ELSE NoJob
  BY <1>6 DEF HiveInv
<1>10. ~ Twice(f) /\ ~ Busy(f)
  BY DEF FramesInv, Busy
<1>11. Now(f) = {}
  BY <1>10 DEF Now, ReadInv, Written
<1>12. job'[c] # NoJob => job'[c].file = f /\ Writing(c)'
  <2>1. FrameOf(f)' = v /\ Now(f)' = {}
    BY <1>6, <1>11 DEF FrameOf, Now
  <2> QED  BY <1>8, <1>9, <2>1 DEF Writing
<1>13. Busy(f)' \/ (~ Busy(f) /\ Stored(f))
  <2>1. CASE Writable(v)
    BY <1>8, <1>9, <2>1 DEF Busy
  <2>2. CASE ~ Writable(v)
    <3>1. v.rows = {}
      BY <1>7, <2>2 DEF Writable
    <3> QED  BY <1>10, <3>1, TableForIs DEF Stored, DirsOf
  <2> QED  BY <2>1, <2>2
<1>14. todo \ {f} \subseteq todo' /\ todo' \subseteq todo
  BY <1>6
<1> QED  BY <1>6, <1>9, <1>12, <1>13, <1>14, HandsRead

LEMMA TakeAgainRead ==
  ASSUME ReadInv, HiveInv, FramesInv, loads > 0,
         NEW c \in Consumers, NEW j \in again, TakeAgain(c, j)
  PROVE  ReadInv'
<1> SUFFICES ASSUME loads \notin faulty PROVE ReadInv'
  BY DEF TakeAgain, ReadInv
<1>1. /\ job[c] = NoJob /\ job' = [job EXCEPT ![c] = j]
      /\ UNCHANGED <<loads, disk, last, faulty, todo, twice>>
  BY DEF TakeAgain
<1>2. job'[c] = j /\ \A k \in Consumers \ {c} : job'[k] = job[k]
  BY <1>1 DEF HiveInv
<1> PICK f : f = j.file
  OBVIOUS
<1>3. Twice(f)'
  BY <1>1 DEF FramesInv, Twice
<1> QED  BY <1>1, <1>2, <1>3, HandsRead

\* A frame that is put once is converted once, and gives the table it should.
LEMMA MakePartitionRead ==
  ASSUME ReadInv, LastInv, HiveInv, FramesInv, loads > 0, graph # NoLoad,
         NEW c \in Consumers, MakePartition(c)
  PROVE  ReadInv'
<1> SUFFICES ASSUME loads \notin faulty PROVE ReadInv'
  BY DEF MakePartition, ReadInv
<1> PICK i : i = job[c]
  OBVIOUS
<1> PICK f : f = i.file
  OBVIOUS
<1>1. /\ i # NoJob /\ i \in Jobs /\ i.table = {}
      /\ UNCHANGED <<graph, loads, disk, last, faulty, todo, twice, raced>>
  BY DEF MakePartition, HiveInv
<1>2. PICK j \in Jobs \cup {NoJob} :
        /\ job' = [job EXCEPT ![c] = j]
        /\ j # NoJob => j.file = f
        /\ ~ Twice(f) => /\ j # NoJob /\ j.frame = i.frame /\ j.opened = i.opened
                         /\ j.table = TableOf(graph, i, AtOnce, 1)
  <2>1. CASE <<loads, f>> \in raced /\ job' = [job EXCEPT ![c] = NoJob]
    BY <2>1 DEF FramesInv, Twice
  <2>2. CASE \E n \in Conversions, k \in 1 .. 2 :
               /\ k = 2 => Twice(job[c].file)
               /\ <<loads, job[c].file>> \notin raced =>
                    /\ n.year = k - 1 /\ n.quarter = k - 1 /\ n.date = k - 1
                    /\ k = IF job[c].file \in converted THEN 2 ELSE 1
               /\ job' = [job EXCEPT ![c].table = TableOf(graph, job[c], n, k)]
    <3> PICK n \in Conversions, k \in 1 .. 2 :
               /\ k = 2 => Twice(job[c].file)
               /\ <<loads, job[c].file>> \notin raced =>
                    /\ n.year = k - 1 /\ n.quarter = k - 1 /\ n.date = k - 1
                    /\ k = IF job[c].file \in converted THEN 2 ELSE 1
               /\ job' = [job EXCEPT ![c].table = TableOf(graph, job[c], n, k)]
      BY <2>2
    <3> PICK j : j = [job[c] EXCEPT !.table = TableOf(graph, job[c], n, k)]
      OBVIOUS
    <3>1. /\ j \in Jobs /\ j.file = f /\ j.frame = i.frame /\ j.opened = i.opened
          /\ j.table = TableOf(graph, i, n, k)
      <4>1. <<loads, job[c].file>> \notin raced =>
              n.year = k - 1 /\ n.quarter = k - 1 /\ n.date = k - 1
        OBVIOUS
      <4> QED  BY <1>1, <4>1, MadeTable
    <3>2. ASSUME ~ Twice(f) PROVE n = AtOnce /\ k = 1
      <4>1. <<loads, f>> \notin raced
        BY <3>2 DEF FramesInv, Twice
      <4>2. k = 1
        BY <3>2
      <4> QED  BY <4>1, <4>2 DEF AtOnce, Conversions
    <3>3. j # NoJob
      BY <3>1, NoJobAssumption
    <3> QED  BY <3>1, <3>2, <3>3
  <2> QED  BY <2>1, <2>2, MakeCases
<1>3. job'[c] = j /\ \A k \in Consumers \ {c} : job'[k] = job[k]
  BY <1>2 DEF HiveInv
<1>4. ASSUME ~ Twice(f) PROVE Writing(c)' /\ Busy(f)'
  <2>1. Writing(c)
    BY <1>1, <1>4 DEF ReadInv
  <2>2. j.table = TableFor(f)
    <3>1. i.frame = FrameOf(f) /\ graph = last.graph
      BY <2>1 DEF Writing, LastInv
    <3> QED  BY <1>2, <1>4, <3>1 DEF TableFor, TableOf
  <2>3. FrameOf(f)' = FrameOf(f) /\ TableFor(f)' = TableFor(f) /\ Now(f)' = Now(f)
    BY <1>1 DEF FrameOf, TableFor, TableOf, Now
  <2>4. Writing(c)'
    BY <1>2, <1>3, <1>4, <2>1, <2>2, <2>3 DEF Writing
  <2> QED  BY <1>2, <1>3, <1>4, <2>4 DEF Busy
<1>5. Twice(f)' <=> Twice(f)
  BY <1>1 DEF Twice
<1> QED  BY <1>1, <1>2, <1>3, <1>4, <1>5, HandsRead

\* A file is opened where the load has no other than its own: the directory is
\* its security's, and no other file of the load is of that security.
LEMMA OpenRead ==
  ASSUME ReadInv, LastInv, HiveInv, FramesInv, loads > 0,
         NEW c \in Consumers, NEW d, OpenPartition(c, d)
  PROVE  ReadInv'
<1> SUFFICES ASSUME loads \notin faulty PROVE ReadInv'
  BY DEF OpenPartition, ReadInv
<1> PICK i : i = job[c]
  OBVIOUS
<1> PICK f : f = i.file
  OBVIOUS
<1> PICK w \in Holders(c, d) :
       disk' = {x \in disk : x.dir = d => SurvivesIn(graph, x)}
                 \cup {[dir |-> d, name |-> Basename(graph), load |-> loads,
                        file |-> job[c].file, by |-> w,
                        complete |-> FALSE, rows |-> {}]}
  BY DEF OpenPartition
<1> PICK new : new = [dir |-> d, name |-> Basename(graph), load |-> loads, file |-> f,
                      by |-> w, complete |-> FALSE, rows |-> {}]
  OBVIOUS
<1>1. /\ \A e \in last.files : ~ Twice(e) => e \in todo \/ Stored(e) \/ Busy(e)
      /\ \A k \in Consumers : job[k] # NoJob /\ ~ Twice(job[k].file) => Writing(k)
      /\ \A x \in disk : x.load = loads /\ ~ Twice(x.file) => Written(x)
  BY DEF ReadInv
<1>2. /\ UNCHANGED <<graph, loads, todo, last, faulty, twice>>
      /\ i # NoJob /\ d \in DirsOf(i.table) \ i.opened
      /\ disk' = {x \in disk : x.dir = d => SurvivesIn(graph, x)} \cup {new}
      /\ \A k \in Consumers \ {c} : job'[k] = job[k]
  BY DEF OpenPartition, HiveInv, twiceVars
<1>3. i \in Jobs /\ CanWrite(i)
  BY <1>2 DEF HiveInv, Held
<1>4. d \in DirOf /\ d.sid = f.sid /\ i.table # {} /\ f \in last.files
  <2>1. PICK t \in i.table : t.dir = d
    BY <1>2 DEF DirsOf
  <2>2. Stowed(t.row, d, loads, f)
    BY <1>3, <2>1 DEF CanWrite
  <2> QED  BY <1>2, <2>1, <2>2 DEF Stowed, DirInv, LastInv
<1>5. /\ job'[c].file = f /\ job'[c].frame = i.frame /\ job'[c].table = i.table
      /\ job'[c].opened = i.opened \cup {d} /\ job'[c] # NoJob
  <2>1. job' = [job EXCEPT ![c].opened = @ \cup {d}]
    BY DEF OpenPartition
  <2>2. job'[c] = [i EXCEPT !.opened = @ \cup {d}]
    BY <2>1 DEF HiveInv
  <2>3. job'[c] \in Jobs
    BY <1>3, <1>4, <2>2 DEF Jobs
  <2> QED  BY <1>3, <2>2, <2>3, NoJobAssumption DEF Jobs
<1>6. /\ \A e : FrameOf(e)' = FrameOf(e) /\ TableFor(e)' = TableFor(e)
      /\ \A e : (Busy(e)' <=> Busy(e)) /\ (Twice(e)' <=> Twice(e))
  BY <1>2, <1>5 DEF FrameOf, TableFor, TableOf, Busy, Twice
<1>7. new.dir = d /\ new.load = loads /\ new.file = f /\ ~ new.complete /\ new.by = w
  OBVIOUS
\* What the load has there is of the same file.
<1>8. ASSUME NEW x \in disk, x.load = loads, x.dir = d PROVE x.file = f /\ Twice(f)
  <2>1. x.file = f
    BY <1>4, <1>8 DEF LastInv
  <2>2. ASSUME ~ Twice(f) PROVE FALSE
    <3>1. Writing(c) /\ x \in Now(f)
      BY <1>1, <1>2, <1>8, <2>1, <2>2 DEF Now
    <3> QED  BY <1>2, <1>8, <3>1 DEF Writing
  <2> QED  BY <2>1, <2>2
<1>9. \A e : ~ Twice(e) => Now(e)' = Now(e) \cup (IF e = f THEN {new} ELSE {})
  BY <1>2, <1>7, <1>8 DEF Now
<1>10. ASSUME ~ Twice(f) PROVE w = c
  <2> SUFFICES ASSUME w # c PROVE FALSE
    OBVIOUS
  <2>1. PICK k \in Consumers \ {c} : job[k] # NoJob /\ d \in job[k].opened
    BY DEF Holders
  <2> PICK o : o = job[k]
    OBVIOUS
  <2>2. o \in Jobs /\ CanWrite(o) /\ o.file \in last.files
    BY <2>1 DEF HiveInv, Held, LastInv
  <2>3. PICK t \in o.table : t.dir = d
    BY <2>1, <2>2 DEF CanWrite, DirsOf
  <2>4. Stowed(t.row, d, loads, o.file)
    BY <2>2, <2>3 DEF CanWrite
  <2>5. o.file = f
    BY <1>4, <2>2, <2>4 DEF Stowed, LastInv
  <2> QED  BY <1>2, <1>10, <2>1, <2>5 DEF FramesInv
<1>11. ASSUME NEW e \in last'.files, ~ Twice(e)'
       PROVE  e \in todo' \/ Stored(e)' \/ Busy(e)'
  <2>1. Stored(e) => Stored(e)'
    BY <1>6, <1>9, <1>11 DEF Stored, DirsOf
  <2> QED  BY <1>1, <1>2, <1>6, <1>11, <2>1
<1>12. ASSUME NEW k \in Consumers, NEW e, job'[k] # NoJob, e = job'[k].file, ~ Twice(e)'
       PROVE  Writing(k)'
  <2>1. CASE k = c
    <3>1. Writing(c) /\ e = f /\ ~ Twice(f)
      BY <1>1, <1>2, <1>5, <1>6, <1>12, <2>1
    <3>2. Now(f)' = Now(f) \cup {new} /\ new.by = c
      BY <1>7, <1>9, <1>10, <3>1
    <3>3. /\ \A o \in job'[c].opened : \E x \in Now(f)' : x.dir = o
          /\ \A x \in Now(f)' : x.dir \in job'[c].opened /\ x.by = c
      BY <1>5, <1>7, <3>1, <3>2 DEF Writing
    <3> QED  BY <1>5, <1>6, <2>1, <3>1, <3>3 DEF Writing
  <2>2. CASE k # c
    <3>1. job'[k] = job[k] /\ Writing(k) /\ ~ Twice(e) /\ e = job[k].file /\ job[k] # NoJob
      BY <1>1, <1>2, <1>6, <1>12, <2>2
    <3>2. e # f
      BY <1>2, <2>2, <3>1 DEF FramesInv
    <3>3. Now(e)' = Now(e)
      BY <1>9, <3>1, <3>2
    <3> QED  BY <1>6, <3>1, <3>3 DEF Writing
  <2> QED  BY <2>1, <2>2
<1>13. ASSUME NEW x \in disk', x.load = loads', ~ Twice(x.file)' PROVE Written(x)'
  <2>1. CASE x = new
    <3>1. f \notin todo /\ Busy(f)
      BY <1>2 DEF FramesInv, Busy
    <3>2. Writing(c)
      BY <1>1, <1>2, <1>6, <1>7, <1>13, <2>1
    <3>3. d \in DirsOf(TableFor(f))
      BY <1>2, <1>4, <3>2 DEF Writing
    <3> QED  BY <1>2, <1>6, <1>7, <2>1, <3>1, <3>3 DEF Written, DirsOf
  <2>2. CASE x \in disk
    <3>1. Written(x)
      BY <1>1, <1>2, <1>6, <1>13, <2>2
    <3> QED  BY <1>2, <1>6, <3>1 DEF Written, DirsOf, RowsFor
  <2> QED  BY <1>2, <2>1, <2>2
<1>14. \A k \in Consumers : job'[k] # NoJob /\ ~ Twice(job[k].file)' => Writing(k)'
  BY <1>12 DEF Twice
<1> QED  BY <1>11, <1>13, <1>14 DEF ReadInv

\* The writer has opened all directories of the table, and closes what is in
\* each of them.
LEMMA CloseRead ==
  ASSUME ReadInv, LastInv, HiveInv, FramesInv, loads > 0,
         NEW c \in Consumers, CloseFiles(c)
  PROVE  ReadInv'
<1> SUFFICES ASSUME loads \notin faulty PROVE ReadInv'
  BY DEF CloseFiles, ReadInv
<1> PICK i : i = job[c]
  OBVIOUS
<1> PICK f : f = i.file
  OBVIOUS
<1> DEFINE shut(x) == [x EXCEPT !.by = NoWriter, !.complete = TRUE,
                                !.rows = RowsFor(job[c].table, x.dir)]
<1>1. /\ \A e \in last.files : ~ Twice(e) => e \in todo \/ Stored(e) \/ Busy(e)
      /\ \A k \in Consumers : job[k] # NoJob /\ ~ Twice(job[k].file) => Writing(k)
      /\ \A x \in disk : x.load = loads /\ ~ Twice(x.file) => Written(x)
  BY DEF ReadInv
<1>2. /\ i # NoJob /\ i.table # {} /\ DirsOf(i.table) \subseteq i.opened
      /\ UNCHANGED <<graph, loads, todo, last, faulty, twice>>
      /\ disk' = (disk \ WrittenBy(c)) \cup {shut(x) : x \in WrittenBy(c)}
      /\ job'[c] = NoJob /\ \A k \in Consumers \ {c} : job'[k] = job[k]
  BY DEF CloseFiles, HiveInv, twiceVars
<1>3. ASSUME NEW x \in WrittenBy(c)
      PROVE  /\ x \in disk /\ x.load = loads /\ x.file = f
             /\ shut(x).dir = x.dir /\ shut(x).load = loads /\ shut(x).file = f
             /\ shut(x).complete /\ shut(x).rows = RowsFor(i.table, x.dir)
  <2>1. x \in disk /\ {"dir", "load", "file", "by", "complete", "rows"} \subseteq DOMAIN x
    BY DEF WrittenBy, HiveInv, EntryInv
  <2> QED  BY <2>1 DEF WrittenBy
<1>4. ASSUME ~ Twice(f)
      PROVE  /\ WrittenBy(c) = Now(f) /\ i.table = TableFor(f)
             /\ \A x \in Now(f) : x.dir \in DirsOf(TableFor(f))
             /\ \A d \in DirsOf(TableFor(f)) : \E x \in Now(f) : x.dir = d
  <2>1. Writing(c)
    BY <1>1, <1>2, <1>4
  <2>2. i.table = TableFor(f)
    BY <1>2, <2>1 DEF Writing
  <2>3. \A x \in Now(f) : Written(x)
    BY <1>1, <1>4 DEF Now
  <2> QED  BY <1>2, <2>1, <2>2, <2>3 DEF WrittenBy, Now, Writing, Written
<1> HIDE DEF shut
<1>5. /\ \A e : FrameOf(e)' = FrameOf(e) /\ TableFor(e)' = TableFor(e)
      /\ \A e : Twice(e)' <=> Twice(e)
      /\ \A e : e # f => (Busy(e) => Busy(e)')
  BY <1>2 DEF FrameOf, TableFor, TableOf, Busy, Twice
<1>6. /\ \A e : e # f => Now(e)' = Now(e)
      /\ ~ Twice(f) => Now(f)' = {shut(x) : x \in Now(f)}
  <2>1. \A e : e # f => Now(e)' = Now(e)
    BY <1>2, <1>3 DEF Now
  <2>2. ~ Twice(f) => Now(f)' = {shut(x) : x \in Now(f)}
    BY <1>2, <1>3, <1>4 DEF Now
  <2> QED  BY <2>1, <2>2
<1>7. ASSUME NEW e \in last'.files, ~ Twice(e)'
      PROVE  e \in todo' \/ Stored(e)' \/ Busy(e)'
  <2>1. CASE e = f
    <3>1. ~ Twice(f)
      BY <1>5, <1>7, <2>1
    <3>2. \A d \in DirsOf(TableFor(f)) : \E x \in Now(f)' : x.dir = d /\ x.complete
      BY <1>3, <1>4, <1>6, <3>1
    <3> QED  BY <1>5, <2>1, <3>2 DEF Stored, DirsOf
  <2>2. CASE e # f
    <3>1. Stored(e) => Stored(e)'
      BY <1>5, <1>6, <2>2 DEF Stored, DirsOf
    <3> QED  BY <1>1, <1>2, <1>5, <1>7, <2>2, <3>1
  <2> QED  BY <2>1, <2>2
<1>8. ASSUME NEW k \in Consumers, NEW e, job'[k] # NoJob, e = job'[k].file, ~ Twice(e)'
      PROVE  Writing(k)'
  <2>1. /\ k # c /\ job'[k] = job[k] /\ Writing(k) /\ ~ Twice(e) /\ e = job[k].file
        /\ job[k] # NoJob
    BY <1>1, <1>2, <1>5, <1>8
  <2>2. e # f
    BY <1>2, <2>1 DEF FramesInv
  <2>3. Now(e)' = Now(e)
    BY <1>6, <2>2
  <2> QED  BY <1>5, <2>1, <2>3 DEF Writing
<1>9. ASSUME NEW x \in disk', x.load = loads', ~ Twice(x.file)' PROVE Written(x)'
  <2>1. CASE x.file = f
    <3>1. x \in Now(f)' /\ ~ Twice(f)
      BY <1>5, <1>9, <2>1 DEF Now
    <3>2. PICK o \in Now(f) : x = shut(o)
      BY <1>6, <3>1
    <3>3. /\ x.dir = o.dir /\ x.complete /\ x.rows = RowsFor(TableFor(f), x.dir)
          /\ x.dir \in DirsOf(TableFor(f))
      BY <1>3, <1>4, <3>1, <3>2
    <3>4. f \notin todo
      BY <1>2 DEF FramesInv
    <3> QED  BY <1>2, <1>5, <2>1, <3>3, <3>4 DEF Written, DirsOf, RowsFor
  <2>2. CASE x.file # f
    <3>1. x \in Now(x.file)'
      BY <1>9 DEF Now
    <3>2. x \in disk /\ x.load = loads
      BY <1>6, <2>2, <3>1 DEF Now
    <3>3. Written(x)
      BY <1>1, <1>5, <1>9, <3>2
    <3> QED  BY <1>2, <1>5, <2>2, <3>3 DEF Written, DirsOf, RowsFor
  <2> QED  BY <2>1, <2>2
<1>10. \A k \in Consumers : job'[k] # NoJob /\ ~ Twice(job[k].file)' => Writing(k)'
  BY <1>8 DEF Twice
<1> QED  BY <1>7, <1>9, <1>10 DEF ReadInv

LEMMA ReadStep ==
  ASSUME ReadableInput, ReadInv, LastInv, StoreInv, HiveInv, FramesInv,
         [StoreNext]_storeVars
  PROVE  ReadInv' /\ LastInv'
<1>1. /\ FilesInv /\ JobInv /\ loads \in Nat /\ (graph # NoLoad => loads > 0)
  BY DEF StoreInv, LoadInv
<1>2. CASE UNCHANGED storeVars
  BY <1>2 DEF storeVars, twiceVars, ReadInv, LastInv, Writing, Written, Stored, Busy, Now,
              TableFor, TableOf, DirsOf, RowsFor, FrameOf, Twice
<1>3. CASE StoreNext
  <2>0. graph = NoLoad => /\ todo = {} /\ again = {}
                          /\ \A c \in Consumers : job[c] = NoJob
    BY <1>1 DEF JobInv
  <2>1. LastInv'
    BY <1>1, <1>3, LastStep
  <2>2. ASSUME NEW f \in todo, NEW c \in Consumers, Take(c, f) PROVE ReadInv'
    <3>1. UNCHANGED faulty \/ (Fault /\ UNCHANGED loads)
      BY <2>2 DEF Take
    <3> QED  BY <1>1, <2>0, <2>2, <3>1, TakeRead, FaultRead
  <2>3. ASSUME NEW c \in Consumers, NEW j \in again, TakeAgain(c, j) PROVE ReadInv'
    BY <1>1, <2>0, <2>3, TakeAgainRead
  <2>4. ASSUME NEW c \in Consumers, MakePartition(c) PROVE ReadInv'
    BY <1>1, <2>0, <2>4, MakePartitionRead DEF MakePartition
  <2>5. ASSUME NEW c \in Consumers, NEW d, OpenPartition(c, d) PROVE ReadInv'
    BY <1>1, <2>0, <2>5, OpenRead DEF OpenPartition
  <2>6. ASSUME NEW c \in Consumers, CloseFiles(c) PROVE ReadInv'
    BY <1>1, <2>0, <2>6, CloseRead DEF CloseFiles
  <2>7. ASSUME Kill \/ (\E f \in todo : Lose(f)) \/ (\E c \in Consumers : WriteFails(c))
        PROVE  ReadInv'
    BY <2>7, FaultRead DEF Kill, Lose, WriteFails
  <2>8. ASSUME EndLoad PROVE ReadInv'
    <3>1. UNCHANGED <<loads, todo, job, disk, last, faulty, twice>>
      BY <2>8 DEF EndLoad
    <3>2. /\ \A e : FrameOf(e)' = FrameOf(e) /\ TableFor(e)' = TableFor(e)
          /\ \A e : Now(e)' = Now(e) /\ (Twice(e)' <=> Twice(e))
          /\ \A e : Busy(e)' <=> Busy(e)
      BY <3>1 DEF FrameOf, TableFor, TableOf, Now, Twice, Busy
    <3>3. \A e : Stored(e)' <=> Stored(e)
      BY <3>2 DEF Stored, DirsOf
    <3>4. \A c \in Consumers : Writing(c) => Writing(c)'
      BY <3>1, <3>2 DEF Writing
    <3>5. \A x : Written(x) => Written(x)'
      BY <3>1, <3>2 DEF Written, DirsOf, RowsFor
    <3>6. \A c \in Consumers : Twice(job[c].file)' <=> Twice(job[c].file)
      BY <3>1 DEF Twice
    <3>7. \A x : Twice(x.file)' <=> Twice(x.file)
      BY <3>1 DEF Twice
    <3> QED  BY <3>1, <3>2, <3>3, <3>4, <3>5, <3>6, <3>7 DEF ReadInv
  <2> QED
    BY <1>1, <1>3, <2>1, <2>2, <2>3, <2>4, <2>5, <2>6, <2>7, <2>8, LoadRead
    DEF StoreNext
<1> QED  BY <1>2, <1>3

\* What a load without a fault leaves of a file whose frame was put once.
LEMMA WholeFile ==
  ASSUME ReadableInput, ReadInv, LastInv, HiveInv, JobInv,
         graph = NoLoad, loads > 0, loads \notin faulty,
         NEW f \in last.files, ~ Twice(f)
  PROVE  LET rows == UNION {x.rows : x \in Now(f)}
         IN  {LineOf(f, r) : r \in rows} = ToSet(f.lines)
<1> DEFINE g == last.graph
           v == RunPipeline(g.nodes, f)
           table == TableFor(f)
           rows == UNION {x.rows : x \in Now(f)}
<1>1. \A e : ~ Busy(e)
  BY DEF JobInv, Busy
<1>2. Stored(f) /\ \A x \in Now(f) : Written(x)
  BY <1>1 DEF ReadInv, JobInv, Now
<1>3. g \in Graphs /\ f \in FilesOf(g)
  BY DEF LastInv
<1>4. {LineOf(f, InUtc(r, 1)) : r \in v.rows} = ToSet(f.lines)
  BY <1>3, LinesOfFrame
<1>5. {t.row : t \in table} = {InUtc(r, 1) : r \in v.rows}
  <2>1. table = {[dir |-> DirectoryOf(g, f, r, AtOnce), row |-> InUtc(r, 1)] : r \in v.rows}
    <3> DEFINE j == [file |-> f, frame |-> v]
    <3>1. j.file = f /\ j.frame = v /\ table = TableOf(g, j, AtOnce, 1)
      BY DEF TableFor, FrameOf
    <3> HIDE DEF j, v, g, table
    <3> QED  BY <3>1 DEF TableOf
  <2> HIDE DEF v, table, g
  <2>2. \A t \in table : \E r \in v.rows : t.row = InUtc(r, 1)
    BY <2>1
  <2>3. ASSUME NEW r \in v.rows PROVE \E t \in table : t.row = InUtc(r, 1)
    <3>1. [dir |-> DirectoryOf(g, f, r, AtOnce), row |-> InUtc(r, 1)] \in table
      BY <2>1
    <3> QED  BY <3>1
  <2> QED  BY <2>2, <2>3
<1> HIDE DEF v, table, g
<1>6. \A x \in Now(f) : x.dir \in DirsOf(table) /\ x.rows = RowsFor(table, x.dir)
  BY <1>1, <1>2 DEF Written, Now, HiveInv, EntryInv, table
<1>7. \A d \in DirsOf(table) : \E x \in Now(f) : x.rows = RowsFor(table, d)
  BY <1>2, <1>6 DEF Stored, table
<1>8. rows = {t.row : t \in table}
  <2>1. ASSUME NEW r, r \in rows PROVE \E t \in table : r = t.row
    BY <1>6, <2>1 DEF RowsFor
  <2>2. ASSUME NEW t \in table PROVE t.row \in rows
    <3>1. PICK x \in Now(f) : x.rows = RowsFor(table, t.dir)
      BY <1>7 DEF DirsOf
    <3> QED  BY <3>1 DEF RowsFor
  <2> QED  BY <2>1, <2>2
<1> HIDE DEF rows
<1>9. {LineOf(f, r) : r \in rows} = ToSet(f.lines)
  BY <1>4, <1>5, <1>8
<1> QED  BY <1>9 DEF rows

-----------------------------------------------------------------------------
(* The plan of a request.                                                  *)

Months == [y : FirstYear .. LastYear, m : 1 .. 12]
From == ParseToYmd(start)
To == ParseToYmd(end)

\* The k-th month from the start of the request, not after its end.
InPlan(k) ==
  \E c \in Months : /\ ranges[k] = Partition(c.y, c.m)
                    /\ Index(c) = Index(From) + k - 1
                    /\ Index(c) <= Index(To)

Started == step # "none"
Looking == step \in {"loop", "glob", "done"}

PlanInv ==
  /\ Started =>
       graph = NoLoad /\ loads = MaxLoads /\ start \in Starts /\ end \in Ends
  /\ start \in Starts \cup {0} /\ end \in Ends \cup {0}
  /\ step \in {"none", "parse", "loop", "glob", "done"}
  /\ ranges \in Seq(PartitionSet)
  /\ ~ Looking => ranges = <<>> /\ y = 0 /\ m = 0
  /\ Looking =>
       /\ y \in FirstYear .. LastYear + 1 /\ m \in 1 .. 12
       /\ 12 * y + m = Index(From) + Len(ranges)
       /\ \A k \in 1 .. Len(ranges) : InPlan(k)
  /\ step \in {"glob", "done"} => Index(To) < 12 * y + m
  /\ step # "done" => globs = {}
  /\ step = "done" =>
       globs = {d \in {[kind |-> Category(s), sid |-> s, month |-> p] :
                         s \in Sids, p \in ToSet(ranges)} : OnDisk(d)}

LEMMA PlanInit == Init => PlanInv
  BY EmptySeq DEF Init, PlanInv, Started, Looking

\* When a request has come, no load changes the store any more.
LEMMA StoreAtRest ==
  ASSUME PlanInv, JobInv, Started
  PROVE  ~ StoreNext
<1>1. graph = NoLoad /\ loads = MaxLoads /\ MaxLoads \in Nat
  BY LoadsAssumption DEF PlanInv
<1>2. todo = {} /\ again = {} /\ \A c \in Consumers : job[c] = NoJob
  BY <1>1 DEF JobInv
<1>3. \A g \in Graphs, directory \in Directories : ~ Load(g, directory)
  BY <1>1 DEF Load
<1>4. \A c \in Consumers : ~ MakePartition(c) /\ ~ CloseFiles(c) /\ ~ WriteFails(c)
  BY <1>2 DEF MakePartition, CloseFiles, WriteFails
<1>5. ~ Kill /\ ~ EndLoad
  BY <1>1 DEF Kill, EndLoad
<1> QED  BY <1>2, <1>3, <1>4, <1>5 DEF StoreNext

LEMMA StepOfPlan ==
  ASSUME PlanInv, UNCHANGED requestVars,
         Started => UNCHANGED storeVars
  PROVE  PlanInv'
  BY DEF PlanInv, requestVars, storeVars, twiceVars, Started, Looking, InPlan, From, To,
         OnDisk

\* Where the loop begins, and goes on: the month at hand, and whether it is
\* within the request.
LEMMA LoopFacts ==
  ASSUME start \in Starts, end \in Ends
  PROVE  /\ IsMonth(From) /\ IsMonth(To)
         /\ Index(From) \in Int /\ Index(To) \in Int
         /\ FirstYear \in Nat \ {0} /\ LastYear \in Nat /\ FirstYear <= LastYear
         /\ y \in FirstYear .. LastYear + 1 /\ m \in 1 .. 12 =>
              /\ InRange(To) <=> 12 * y + m <= Index(To)
              /\ InRange(To) => y \in FirstYear .. LastYear
<1>1. IsMonth(From) /\ IsMonth(To)
  BY BoundsInMonth DEF From, To
<1>2. FirstYear \in Nat \ {0} /\ LastYear \in Nat /\ FirstYear <= LastYear
  BY YearsAssumption
<1>3. /\ To.y \in FirstYear .. LastYear /\ To.m \in 1 .. 12
      /\ Index(From) \in Int /\ Index(To) \in Int
  BY <1>1, MonthFacts DEF IsMonth
<1>4. ASSUME y \in FirstYear .. LastYear + 1, m \in 1 .. 12
      PROVE  /\ InRange(To) <=> 12 * y + m <= Index(To)
             /\ InRange(To) => y \in FirstYear .. LastYear
  <2>1. PICK ty \in FirstYear .. LastYear, tm \in 1 .. 12 : ty = To.y /\ tm = To.m
    BY <1>3
  <2>2. InRange(To) <=> (y < ty \/ (y = ty /\ m <= tm))
    BY <2>1 DEF InRange
  <2>3. Index(To) = 12 * ty + tm
    BY <2>1 DEF Index
  <2> QED  BY ONLY <1>2, <1>4, <2>1, <2>2, <2>3
<1> QED  BY <1>1, <1>2, <1>3, <1>4

LEMMA RequestPlan ==
  ASSUME PlanInv, NEW s \in Starts, NEW e \in Ends, Request(s, e)
  PROVE  PlanInv'
<1>1. /\ step = "none" /\ graph = NoLoad /\ loads = MaxLoads
      /\ start' = s /\ end' = e /\ step' = "parse"
      /\ UNCHANGED <<y, m, ranges, globs, graph, loads>>
  BY DEF Request, storeVars
<1>2. ranges = <<>> /\ y = 0 /\ m = 0 /\ globs = {} /\ ranges \in Seq(PartitionSet)
  BY <1>1 DEF PlanInv, Looking
<1> QED  BY <1>1, <1>2 DEF PlanInv, Started, Looking

LEMMA ParsePlan ==
  ASSUME PlanInv, Parse
  PROVE  PlanInv'
<1>1. /\ step = "parse" /\ y' = From.y /\ m' = From.m /\ step' = "loop"
      /\ UNCHANGED <<start, end, ranges, globs, graph, loads>>
  BY DEF Parse, storeVars, From
<1>2. /\ ranges = <<>> /\ ranges \in Seq(PartitionSet) /\ globs = {}
      /\ graph = NoLoad /\ loads = MaxLoads /\ start \in Starts /\ end \in Ends
  BY <1>1 DEF PlanInv, Looking, Started
<1>3. From' = From /\ To' = To
  BY <1>1 DEF From, To
<1>4. /\ y' \in FirstYear .. LastYear + 1 /\ m' \in 1 .. 12
      /\ 12 * y' + m' = Index(From) + 0
  BY <1>1, <1>2, LoopFacts DEF IsMonth, Index
<1>5. Len(ranges) = 0
  BY <1>2, EmptySeq
<1> QED  BY <1>1, <1>2, <1>3, <1>4, <1>5 DEF PlanInv, Started, Looking

LEMMA NextMonth ==
  ASSUME NEW yy \in Nat, NEW mm \in 1 .. 12, NEW z \in Nat, yy <= z
  PROVE  LET m2 == (mm % 12) + 1
             y2 == IF mm = 12 THEN yy + 1 ELSE yy
         IN  /\ m2 \in 1 .. 12 /\ y2 \in yy .. z + 1
             /\ 12 * y2 + m2 = 12 * yy + mm + 1
<1>1. mm = 12 \/ mm \in 1 .. 11
  OBVIOUS
<1>2. CASE mm = 12
  BY <1>2
<1>3. CASE mm \in 1 .. 11
  <2>1. mm % 12 = mm
    BY <1>3
  <2> QED  BY <1>3, <2>1
<1> QED  BY <1>1, <1>2, <1>3

LEMMA AddMonthPlan ==
  ASSUME PlanInv, AddMonth
  PROVE  PlanInv'
<1> DEFINE p == Partition(y, m)
           n == Len(ranges)
<1>1. /\ step = "loop" /\ InRange(To) /\ ranges' = Append(ranges, p)
      /\ m' = (m % 12) + 1 /\ y' = IF m = 12 THEN y + 1 ELSE y
      /\ UNCHANGED <<start, end, globs, step, graph, loads>>
  BY DEF AddMonth, storeVars, To
<1>2. /\ start \in Starts /\ end \in Ends /\ graph = NoLoad /\ loads = MaxLoads
      /\ ranges \in Seq(PartitionSet) /\ n \in Nat /\ globs = {}
      /\ y \in FirstYear .. LastYear + 1 /\ m \in 1 .. 12
      /\ 12 * y + m = Index(From) + n
      /\ \A k \in 1 .. n : InPlan(k)
  BY <1>1 DEF PlanInv, Started, Looking
<1>3. /\ Index(From) \in Int /\ Index(To) \in Int /\ 12 * y + m <= Index(To)
      /\ y \in FirstYear .. LastYear
      /\ FirstYear \in Nat \ {0} /\ LastYear \in Nat
  BY <1>1, <1>2, LoopFacts
<1>4. p \in PartitionSet
  <2> DEFINE c == [y |-> y, m |-> m]
  <2>1. IsMonth(c) /\ c.y = y /\ c.m = m
    BY <1>2, <1>3 DEF IsMonth
  <2> HIDE DEF c
  <2> QED  BY <2>1, PartitionFacts
<1>5. From' = From /\ To' = To
  BY <1>1 DEF From, To
<1>6. \E c \in Months : /\ p = Partition(c.y, c.m)
                         /\ Index(c) = Index(From) + (n + 1) - 1
                         /\ Index(c) <= Index(To)
  <2> DEFINE c == [y |-> y, m |-> m]
  <2>1. c \in Months /\ c.y = y /\ c.m = m
    BY <1>2, <1>3 DEF Months
  <2> HIDE DEF c
  <2>2. Index(c) = 12 * y + m
    BY <2>1 DEF Index
  <2>3. Index(c) = Index(From) + (n + 1) - 1 /\ Index(c) <= Index(To)
    BY ONLY <1>2, <1>3, <2>2
  <2> QED  BY <2>1, <2>3
<1> HIDE DEF p
<1>7. /\ ranges' \in Seq(PartitionSet) /\ Len(ranges') = n + 1
      /\ ranges'[n + 1] = p /\ \A k \in 1 .. n : ranges'[k] = ranges[k]
  BY <1>1, <1>2, <1>4, AppendProperties
<1>8. ASSUME NEW k \in 1 .. Len(ranges')
      PROVE  \E c \in Months : /\ ranges'[k] = Partition(c.y, c.m)
                               /\ Index(c) = Index(From) + k - 1
                               /\ Index(c) <= Index(To)
  <2>1. CASE k = n + 1
    BY <1>6, <1>7, <2>1
  <2>2. CASE k \in 1 .. n
    BY <1>2, <1>7, <2>2 DEF InPlan
  <2>3. k \in 1 .. n \/ k = n + 1
    BY <1>2, <1>7
  <2> QED  BY <2>1, <2>2, <2>3
<1>10. \A k \in 1 .. Len(ranges') : InPlan(k)'
  BY <1>5, <1>8 DEF InPlan
<1>9. /\ m' \in 1 .. 12 /\ y' \in FirstYear .. LastYear + 1
      /\ 12 * y' + m' = Index(From) + Len(ranges')
  <2>1. y \in Nat /\ y <= LastYear
    BY ONLY <1>3
  <2>2. m' \in 1 .. 12 /\ y' \in y .. LastYear + 1 /\ 12 * y' + m' = 12 * y + m + 1
    BY <1>1, <1>2, <1>3, <2>1, NextMonth
  <2>3. y' \in FirstYear .. LastYear + 1
    BY ONLY <1>3, <2>1, <2>2
  <2>4. 12 * y + m = Index(From) + n /\ Len(ranges') = n + 1 /\ n \in Nat
    BY <1>2, <1>7
  <2>5. 12 * y' + m' = Index(From) + Len(ranges')
    BY ONLY <1>3, <2>2, <2>4
  <2> QED  BY <2>2, <2>3, <2>5
<1> QED  BY <1>1, <1>2, <1>5, <1>7, <1>9, <1>10 DEF PlanInv, Started, Looking

LEMMA EndOfRangePlan ==
  ASSUME PlanInv, EndOfRange
  PROVE  PlanInv'
<1>1. /\ step = "loop" /\ ~ InRange(To) /\ step' = "glob"
      /\ UNCHANGED <<start, end, y, m, ranges, globs, graph, loads>>
  BY DEF EndOfRange, storeVars, To
<1>2. /\ start \in Starts /\ end \in Ends
      /\ y \in FirstYear .. LastYear + 1 /\ m \in 1 .. 12
  BY <1>1 DEF PlanInv, Started, Looking
<1>3. Index(To) < 12 * y + m
  <2>1. ~ (12 * y + m <= Index(To)) /\ Index(To) \in Int
    BY <1>1, <1>2, LoopFacts
  <2>2. y \in Int /\ m \in Int
    BY <1>2, LoopFacts
  <2> QED  BY ONLY <2>1, <2>2
<1> QED  BY <1>1, <1>3 DEF PlanInv, Started, Looking, InPlan, From, To

LEMMA GlobPlan ==
  ASSUME PlanInv, GlobPath
  PROVE  PlanInv'
<1>1. /\ step = "glob" /\ step' = "done"
      /\ globs' = {d \in {[kind |-> Category(s), sid |-> s, month |-> p] :
                            s \in Sids, p \in ToSet(ranges)} : OnDisk(d)}
      /\ UNCHANGED <<start, end, y, m, ranges, disk, graph, loads>>
  BY DEF GlobPath, storeVars
<1> QED  BY <1>1 DEF PlanInv, Started, Looking, InPlan, From, To, OnDisk

LEMMA PlanStep ==
  ASSUME PlanInv, JobInv, [Next]_vars
  PROVE  PlanInv'
<1>1. CASE StoreNext /\ UNCHANGED requestVars
  <2>1. Started => UNCHANGED storeVars
    BY <1>1, StoreAtRest
  <2> QED  BY <1>1, <2>1, StepOfPlan
<1>2. CASE UNCHANGED vars
  BY <1>2, StepOfPlan DEF vars
<1> QED
  BY <1>1, <1>2, RequestPlan, ParsePlan, AddMonthPlan, EndOfRangePlan, GlobPlan
  DEF Next, Done

-----------------------------------------------------------------------------
IInv == StoreInv /\ HiveInv /\ FramesInv /\ PlanInv

LEMMA Inductive == Spec => []IInv
<1>1. Init => IInv
  BY StoreInitInv, HiveInit, PlanInit DEF Init, IInv
<1>2. IInv /\ [Next]_vars => IInv'
  <2> SUFFICES ASSUME IInv, [Next]_vars PROVE IInv'
    OBVIOUS
  <2>1. StoreInv /\ HiveInv /\ FramesInv /\ PlanInv /\ LoadInv /\ JobInv
    BY DEF IInv, StoreInv
  <2>2. [StoreNext]_storeVars
    BY RequestsRead
  <2>3. StoreInv' /\ PlanInv'
    BY <2>1, <2>2, StoreStep, PlanStep
  <2>4. HiveInv' /\ FramesInv'
    BY <2>1, <2>2, HiveStep, HiveStutter
  <2> QED  BY <2>3, <2>4 DEF IInv
<1> QED  BY <1>1, <1>2, PTL DEF Spec

(* The values of the store and of the request: a load takes only files of  *)
(* its kind, a directory is named by a month of the calendar, and the loop *)
(* of schema_range ends in the year after the last at the latest.          *)
THEOREM TypeCorrect == Spec => []TypeOK
<1>1. IInv => TypeOK
  <2> SUFFICES ASSUME IInv PROVE TypeOK
    OBVIOUS
  <2>1. HiveInv /\ FramesInv /\ PlanInv /\ FilesInv /\ JobInv
    BY DEF IInv, StoreInv
  <2>2. StoreTypeOK
    BY <2>1, StoreTypes
  <2>3. y \in 0 .. LastYear + 1 /\ m \in 0 .. 12
    <3>1. FirstYear \in Nat /\ LastYear \in Nat
      BY YearsAssumption
    <3>2. \/ y = 0 /\ m = 0
          \/ y \in FirstYear .. LastYear + 1 /\ m \in 1 .. 12
      BY <2>1 DEF PlanInv
    <3> QED  BY ONLY <3>1, <3>2
  <2>4. \A d \in globs : d.sid \in Sids /\ d.month \in PartitionSet
    BY <2>1 DEF PlanInv, ToSet
  <2> QED  BY <2>1, <2>2, <2>3, <2>4 DEF TypeOK, PlanInv
<1> QED  BY <1>1, Inductive, PTL

(* Whatever requests do beside the loads, the store is the one of          *)
(* ParquetStore: what is shown of StoreSpec holds here.                    *)
THEOREM RequestsOnlyRead == Spec => StoreSpec
<1>1. Init => StoreInit
  BY DEF Init
<1> QED  BY <1>1, RequestsRead, PTL DEF Spec, StoreSpec

(* A complete file of a full load is read with nothing older, and with no  *)
(* second copy: "delete_matching  --- overwrite all" (writer.py:263).      *)
THEOREM FullLoadIsAlone == Spec => []FullLoadReplaces
<1>1. IInv => FullLoadReplaces
  BY DEF IInv, StoreInv
<1> QED  BY <1>1, Inductive, PTL

(* An incremental load removes nothing that an earlier load stored:        *)
(* "overwrite same file or append" (writer.py:262).                        *)
THEOREM IncrementalKeeps == Spec => IncrementalAppends
<1> DEFINE Keeps == graph # NoLoad /\ graph.incr =>
                      \A x \in disk : x.load < loads => x \in disk'
<1>1. IInv /\ [Next]_vars => [Keeps]_storeVars
  <2> SUFFICES ASSUME IInv, StoreNext, graph # NoLoad, graph.incr,
                      NEW x \in disk, x.load < loads
               PROVE  x \in disk'
    BY RequestsRead
  <2>1. x.name \in {0, x.load} /\ x.load \in 1 .. loads /\ loads \in Nat
    BY DEF IInv, StoreInv, FilesInv, LoadInv
  <2>2. ASSUME NEW c \in Consumers, NEW d, OpenPartition(c, d)
        PROVE  x \in disk'
    BY <2>1, <2>2 DEF OpenPartition, SurvivesIn, Basename
  <2>3. ASSUME NEW c \in Consumers, CloseFiles(c)
        PROVE  x \in disk'
    <3>1. x \notin WrittenBy(c)
      BY <2>1 DEF WrittenBy
    <3>2. disk \ WrittenBy(c) \subseteq disk'
      BY <2>3 DEF CloseFiles
    <3> QED  BY <3>1, <3>2
  <2>4. CASE disk' = disk
    BY <2>4
  <2>5. \/ disk' = disk
        \/ \E c \in Consumers : CloseFiles(c) \/ \E d : OpenPartition(c, d)
    BY DEF StoreNext, Load, Lose, Take, TakeAgain, MakePartition, WriteFails, Kill, EndLoad
  <2> QED  BY <2>2, <2>3, <2>4, <2>5
<1> QED  BY <1>1, Inductive, PTL DEF Spec, IncrementalAppends

(* No row of a stock or a fund that the filter of the query selects is in  *)
(* a directory that the query does not read, for any dates and epochs of   *)
(* the request from 1992 to 9999, any graphs, files and failures of the    *)
(* loads, and for frames put twice as well, except those that two threads  *)
(* raced on in _make_partition: the writer, the plan and the filter agree  *)
(* on the month of every instant.                                          *)
THEOREM EveryRowIsRead == Spec => []NothingMissed
<1>1. ASSUME IInv, step = "done", NEW x \in Wanted,
             x.dir.kind # "benchmark", ~ Raced(x)
      PROVE  x.dir \in globs
  <2>1. /\ HiveInv /\ PlanInv /\ Started /\ Looking
        /\ start \in Starts /\ end \in Ends
    BY <1>1 DEF IInv, PlanInv, Started, Looking
  <2>2. PICK r \in x.rows : Filter(r)
    BY DEF Wanted
  <2>3. /\ x \in disk /\ x.dir.sid \in Sids /\ EntryInv(x)
        /\ RowInv(r, x.dir) /\ r.datetime \in Int
    BY <1>1, <2>1 DEF Wanted, HiveInv, EntryInv, Stowed, Raced
  <2> DEFINE d == x.dir
             c == GmTime(r.datetime + Offset)
  <2>4. /\ d \in DirOf /\ d.kind = Category(d.sid)
        /\ r.datetime + Offset \in Clocks /\ r.datetime \in Int
        /\ d.month = MonthOf(r.datetime + Offset)
    BY <1>1, <2>3 DEF EntryInv, DirInv, RowInv
  <2>5. IsMonth(c) /\ d.month = Partition(c.y, c.m)
    BY <2>4, MonthOfFacts
  <2>6. Index(From) <= Index(c) /\ Index(c) <= Index(To)
    <3>1. (r.datetime + Offset) - Offset = r.datetime
      BY <2>4 DEF Offset
    <3>2. /\ FilterBound(start, FALSE) <= (r.datetime + Offset) - Offset
          /\ (r.datetime + Offset) - Offset <= FilterBound(end, TRUE)
      BY <2>2, <3>1, Zenon DEF Filter
    <3> QED  BY <2>1, <2>4, <3>2, MonthWanted, Zenon DEF From, To
  <2> HIDE DEF c
  <2>7. PICK k \in 1 .. Len(ranges) : ranges[k] = d.month
    <3>1. /\ 12 * y + m = Index(From) + Len(ranges) /\ Index(To) < 12 * y + m
          /\ \A i \in 1 .. Len(ranges) : InPlan(i)
          /\ Len(ranges) \in Nat
      BY <1>1, <2>1 DEF PlanInv
    <3>2. Index(From) \in Int /\ Index(To) \in Int /\ Index(c) \in Int
      BY <2>1, <2>5, LoopFacts, MonthFacts
    <3> DEFINE i == Index(c) - Index(From) + 1
    <3>3. i \in 1 .. Len(ranges) /\ Index(From) + i - 1 = Index(c)
      BY ONLY <2>6, <3>1, <3>2
    <3>4. PICK o \in Months : /\ ranges[i] = Partition(o.y, o.m)
                              /\ Index(o) = Index(From) + i - 1
      BY <3>1, <3>3 DEF InPlan
    <3>5. IsMonth(o) /\ Index(o) = Index(c)
      BY <3>3, <3>4 DEF IsMonth, Months
    <3>6. o.y = c.y /\ o.m = c.m
      BY <2>5, <3>5, SameMonth
    <3> QED  BY <2>5, <3>3, <3>4, <3>6
  <2>8. d.month \in ToSet(ranges)
    BY <2>1, <2>7 DEF ToSet, PlanInv
  <2>9. d = [kind |-> Category(d.sid), sid |-> d.sid, month |-> d.month]
    BY <2>4 DEF DirOf
  <2>10. OnDisk(d)
    BY <2>3 DEF OnDisk
  <2> HIDE DEF d
  <2>11. d \in globs
    BY <1>1, <2>1, <2>3, <2>8, <2>9, <2>10 DEF PlanInv, d
  <2> QED  BY <2>11 DEF d
<1>2. IInv => NothingMissed
  BY <1>1 DEF NothingMissed
<1> QED  BY <1>2, Inductive, PTL

(* Every month of schema_range's plan overlaps the filter's interval, and  *)
(* they come in ascending order, none twice.                               *)
THEOREM EveryMonthIsWanted == Spec => []NothingInVain
<1>1. ASSUME IInv, step = "done", NEW i \in 1 .. Len(ranges)
      PROVE  \E c \in Months :
               /\ ranges[i] = Partition(c.y, c.m) /\ IsMonth(c)
               /\ Index(c) = Index(From) + i - 1
               /\ Index(c) <= Index(To)
  BY <1>1 DEF IInv, PlanInv, Looking, InPlan, Months, IsMonth
<1>2. ASSUME IInv, step = "done"
      PROVE  /\ start \in Starts /\ end \in Ends /\ DOMAIN ranges = 1 .. Len(ranges)
             /\ Index(From) \in Int /\ Index(To) \in Int
  BY <1>2, LoopFacts DEF IInv, PlanInv, Started
<1>3. ASSUME IInv, step = "done",
             NEW i \in DOMAIN ranges, NEW j \in DOMAIN ranges, i < j
      PROVE  ranges[i].date < ranges[j].date
  <2>1. i \in 1 .. Len(ranges) /\ j \in 1 .. Len(ranges) /\ Index(From) \in Int
    BY <1>2, <1>3
  <2>2. PICK a \in Months : /\ ranges[i] = Partition(a.y, a.m) /\ IsMonth(a)
                            /\ Index(a) = Index(From) + i - 1
    BY <1>1, <1>3, <2>1
  <2>3. PICK b \in Months : /\ ranges[j] = Partition(b.y, b.m) /\ IsMonth(b)
                            /\ Index(b) = Index(From) + j - 1
    BY <1>1, <1>3, <2>1
  <2>4. /\ ranges[i].date = 100 * a.y + a.m /\ ranges[j].date = 100 * b.y + b.m
    BY <2>2, <2>3, PartitionFacts
  <2>5. /\ a.y \in Nat /\ a.m \in 1 .. 12 /\ b.y \in Nat /\ b.m \in 1 .. 12
    BY <2>2, <2>3, MonthFacts
  <2>6. 12 * a.y + a.m < 12 * b.y + b.m
    <3>1. /\ 12 * a.y + a.m = Index(From) + i - 1
          /\ 12 * b.y + b.m = Index(From) + j - 1
      BY <2>2, <2>3 DEF Index
    <3> QED  BY <1>3, <2>1, <2>5, <3>1
  <2>7. 100 * a.y + a.m < 100 * b.y + b.m
    BY ONLY <2>5, <2>6
  <2> QED  BY <2>4, <2>7
<1>4. ASSUME IInv, step = "done", NEW i \in DOMAIN ranges
      PROVE  LET yy == ranges[i].year
                 mm == ranges[i].date % 100
                 first == DayNumber(yy, mm, 1) * Day - Offset
             IN /\ FilterBound(start, FALSE) < first + MonthLength(yy, mm) * Day
                /\ first <= FilterBound(end, TRUE)
  <2>1. /\ i \in 1 .. Len(ranges) /\ start \in Starts /\ end \in Ends
        /\ Index(From) \in Int
    BY <1>2, <1>4
  <2>2. PICK c \in Months : /\ ranges[i] = Partition(c.y, c.m) /\ IsMonth(c)
                            /\ Index(c) = Index(From) + i - 1
                            /\ Index(c) <= Index(To)
    BY <1>1, <1>4, <2>1
  <2>3. Index(From) <= Index(c)
    BY ONLY <2>1, <2>2
  <2>4. ranges[i].year = c.y /\ ranges[i].date % 100 = c.m
    BY <2>2, PartitionFacts
  <2>5. LET first == DayNumber(c.y, c.m, 1) * Day - Offset
        IN  /\ FilterBound(start, FALSE) < first + MonthLength(c.y, c.m) * Day
            /\ first <= FilterBound(end, TRUE)
    BY <2>1, <2>2, <2>3, MonthInVain, Zenon DEF From, To
  <2> QED  BY <2>4, <2>5, Zenon
<1>5. IInv => NothingInVain
  BY <1>3, <1>4, Zenon DEF NothingInVain
<1> QED  BY <1>5, Inductive, PTL

(* The tick of every stored row is the datetime where the loader reads     *)
(* binary files ("auto calculate the offset to UTC Epoch", format.py:46)   *)
(* and eight hours after it where it reads text, in whatever order the     *)
(* nodes of a graph come, and whichever of them a worker could not build;  *)
(* except that the tick of a frame that was put twice may be eight hours   *)
(* further from the datetime, by the second conversion, and no more.       *)
THEOREM TicksKeepTheirLag == Spec => []TickLag
<1>1. IInv => TickLag
  BY DEF IInv, HiveInv, EntryInv, Stowed, StoredLag, TickLag, Lag, PutAgain
<1> QED  BY <1>1, Inductive, PTL

(* After a load in which nothing failed, every line of the files whose     *)
(* frame was put once is stored, at its minute in Shanghai and at a        *)
(* thousand times its price in cents, and of these files nothing else is,  *)
(* whichever loader read it: for any files, any lines from 1992 to 9999    *)
(* and any prices, any number of writers, any failures of other loads, and *)
(* whatever becomes beside it of the frames that are put twice.            *)
THEOREM EveryLineIsStored ==
  ASSUME ReadableInput
  PROVE  Spec => []ReadBack
<1>1. Init => ReadInv /\ LastInv
  BY DEF Init, StoreInit, ReadInv, LastInv
<1>2. IInv /\ ReadInv /\ LastInv /\ [Next]_vars => ReadInv' /\ LastInv'
  BY RequestsRead, ReadStep DEF IInv
<1>3. IInv /\ ReadInv /\ LastInv => ReadBack
  BY WholeFile DEF IInv, StoreInv, ReadBack, Now, Twice
<1> QED  BY <1>1, <1>2, <1>3, Inductive, PTL DEF Spec
=============================================================================
