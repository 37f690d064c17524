---------------------------- MODULE MCRetention -----------------------------
(***************************************************************************)
(* Instances of Retention for TLC, on dates of the calendar: four months   *)
(* with two or three instants each.  Backups expire after two months       *)
(* instead of twelve, so that December is current, last, older and expired *)
(* within the horizon.  Instants 1 and 2 share a week of which only 2 is   *)
(* in the last seven days of its month, and so do 6 and 7; the weeks of    *)
(* instants 3, 5 and 7 reach into the next month.                          *)
(***************************************************************************)
EXTENDS Retention, Calendar, Sequences, FiniteSets, TLC

Dates == <<Date(2024, 12, 24), Date(2024, 12, 26), Date(2024, 12, 30),
           Date(2025, 1, 2), Date(2025, 1, 28), Date(2025, 2, 1),
           Date(2025, 2, 25), Date(2025, 3, 1), Date(2025, 3, 26)>>

\* FirstYear begins on a Monday.
ISOWeek(d) == Cardinality({e \in Days : Before(e, d)}) \div 7

\* A definition of its own, and with SubSeq, so that TLC evaluates the tables once.
Tables == [month |-> SubSeq([t \in DOMAIN Dates |-> Index(Dates[t])], 1, Horizon),
           week |-> SubSeq([t \in DOMAIN Dates |-> ISOWeek(Dates[t])], 1, Horizon),
           last |-> {t \in Instants : InLastWeek(Dates[t], First(Dates[t]))}]

MonthOf == Tables.month
WeekOf == Tables.week
LastWeekOf == Tables.last

Symmetry == Permutations(Writer) \cup Permutations(Retainer)
----------------------------------------------------------------------------
\* Whichever day a retention begins on, the months, the last week and the cutoff it
\* works with are those of the calendar.
DatesAreRight == \A r \in Retainer : pc[r] # "idle" => RightDays = Days
=============================================================================
