------------------------------ MODULE Calendar ------------------------------
(***************************************************************************)
(* The date arithmetic of src/backup/retention.py.  A date is the record   *)
(* of datetime.date; NextDay and DaysIn are what that class knows of the   *)
(* Gregorian calendar.  There is nothing but operators here: what is said  *)
(* of them is said of each day from FirstYear to LastYear.                 *)
(***************************************************************************)
EXTENDS Integers

CONSTANTS FirstYear, LastYear

ASSUME YearsAssumption == FirstYear \in Nat /\ LastYear \in Nat /\ FirstYear <= LastYear

Date(y, m, d) == [year |-> y, month |-> m, day |-> d]

Leap(y) == y % 4 = 0 /\ (y % 100 # 0 \/ y % 400 = 0)

DaysIn(y, m) == CASE m = 2 -> IF Leap(y) THEN 29 ELSE 28
                  [] m \in {4, 6, 9, 11} -> 30
                  [] OTHER -> 31

NextDay(d) == IF d.day < DaysIn(d.year, d.month) THEN [d EXCEPT !.day = @ + 1]
              ELSE IF d.month < 12 THEN Date(d.year, d.month + 1, 1)
              ELSE Date(d.year + 1, 1, 1)

\* The order of datetime.date.
Before(d, e) == \/ d.year < e.year
                \/ d.year = e.year /\ d.month < e.month
                \/ d.year = e.year /\ d.month = e.month /\ d.day < e.day

First(d) == [d EXCEPT !.day = 1]
----------------------------------------------------------------------------
\* The while loop of subtract_months goes on as long as the month is not positive.
Passes(month, n) ==
  CHOOSE k \in 0 .. n : month + 12 * k > 0 /\ \A j \in 0 .. k - 1 : month + 12 * j <= 0

\* Faulty variant of SubtractMonths: the year does not change.
SubtractInYear(d, n) == Date(d.year, d.month - n + 12 * Passes(d.month - n, n), 1)

SubtractMonths(d, n) ==
  LET passes == Passes(d.month - n, n) IN Date(d.year - passes, d.month - n + 12 * passes, 1)

\* month_bounds: the day before the first of the next month.
MonthEnd(start) ==
  LET next == IF start.month = 12 THEN Date(start.year + 1, 1, 1)
                                  ELSE Date(start.year, start.month + 1, 1)
  IN CHOOSE e \in {Date(start.year, start.month, k) : k \in 1 .. DaysIn(start.year, start.month)} :
       NextDay(e) = next

LastMonthStart(d) == SubtractMonths(First(d), 1)

RetentionExpiryCutoff(d) == SubtractMonths(First(d), 12)

\* max(month_start, end - 6 days), which stays in the month.
LastWeekStart(start) ==
  LET end == MonthEnd(start)
      from == [end EXCEPT !.day = @ - 6]
  IN IF Before(from, start) THEN start ELSE from

InLastWeek(d, start) == ~Before(d, LastWeekStart(start)) /\ ~Before(MonthEnd(start), d)
----------------------------------------------------------------------------
(* Properties of a day *)

\* The months since year 0, the count subtract_months is to go back on.
Index(d) == 12 * d.year + d.month - 1

\* Going back up to two years, across Decembers, subtracts that many calendar
\* months and gives the first of a month.
SubtractsMonths(d) ==
  \A n \in 0 .. 24 : LET e == SubtractMonths(d, n) IN
    e.month \in 1 .. 12 /\ e.day = 1 /\ Index(e) = Index(d) - n

\* The last week of a month, which the monthly keeper is drawn from, is seven days
\* long and ends the day before the next month, in a short February too.
LastWeekIsSevenDays(d) ==
  /\ InLastWeek(d, First(d)) <=> DaysIn(d.year, d.month) - d.day < 7
  /\ ~InLastWeek(d, LastMonthStart(d))

\* A backup of up to two years before is dropped exactly when it is thirteen
\* calendar months old or more.
DroppedAfterTwelve(d) ==
  \A n \in 0 .. 24 : Before(SubtractMonths(d, n), RetentionExpiryCutoff(d)) <=> n > 12

\* The months plan_retention tells apart touch: last month ends the day before
\* the current one begins.
MonthsAreAdjacent(d) == NextDay(MonthEnd(LastMonthStart(d))) = First(d)

Days == UNION {{Date(y, m, k) : k \in 1 .. DaysIn(y, m)} : y \in FirstYear .. LastYear, m \in 1 .. 12}

\* The days on which the date arithmetic is right.
RightDays == {d \in Days : /\ SubtractsMonths(d) /\ LastWeekIsSevenDays(d)
                           /\ DroppedAfterTwelve(d) /\ MonthsAreAdjacent(d)}
=============================================================================
