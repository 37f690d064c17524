----------------------------- MODULE Retention ------------------------------
(***************************************************************************)
(* The retention of src/backup/retention.py, run by execute_retention of   *)
(* src/cli.py, on the prefix of one database: a preview, a confirmation,   *)
(* then a second plan whose keys are deleted one at a time.  Meanwhile     *)
(* processes upload backups, and a second retention may run (the scheduler *)
(* and an operator).  Plans are made from two listings and are stale by    *)
(* the time they are carried out.                                          *)
(*                                                                         *)
(* Time is a sequence of instants, which the calendar maps to a month (a   *)
(* number), to an ISO week and to the last seven days of a month.  A       *)
(* backup is an object with the instant of its key and its LastModified.   *)
(***************************************************************************)
EXTENDS Naturals

CONSTANTS Writer,      \* processes that back up the database
          Retainer,    \* processes that run the retention
          Horizon,     \* bound on the clock
          MaxBackups,  \* bound on the backups begun
          KeepMonths,  \* 12 in retention_expiry_cutoff
          Month,       \* the month of an instant
          Week,        \* its ISO year and week
          LastWeek     \* the instants in_last_week of their month

Instants == 1 .. Horizon

ASSUME RetentionAssumption ==
  /\ Horizon \in Nat \ {0} /\ MaxBackups \in Nat /\ KeepMonths \in Nat \ {0}
  /\ Month \in [Instants -> Nat]
  /\ \A t, u \in Instants : t <= u => Month[t] <= Month[u]
  /\ DOMAIN Week = Instants
  /\ LastWeek \subseteq Instants
  /\ \A t \in LastWeek, u \in Instants : t <= u /\ Month[t] = Month[u] => u \in LastWeek

VARIABLES now,       \* the clock
          objects,   \* the backups in the bucket
          writing,   \* the key each writer is uploading, 0 for none
          begun,     \* number of backups begun
          pc,        \* where each retention is
          run,       \* its local variables
          stored     \* history: what the bucket would hold had nothing been deleted

vars == <<now, objects, writing, begun, pc, run, stored>>

Backups == [key : Instants, at : Instants]

Runs == [today : Instants, applying : BOOLEAN, listed : SUBSET Backups,
         plan : SUBSET Backups, preview : SUBSET Backups]

MonthsOf(S) == {Month[o.key] : o \in S}
InMonth(S, m) == {o \in S : Month[o.key] = m}
InWeek(S, w) == {o \in S : Week[o.key] = w}
----------------------------------------------------------------------------
(* What a plan deletes, given a listing and the date it is made on *)

\* Faulty variant of Newer: the oldest backup wins.
Older(o, p) == o.at < p.at \/ (o.at = p.at /\ o.key < p.key)

\* o comes before p for max(..., key=LastModified) on a listing that S3 orders
\* by key and list_backups by descending LastModified, both stably.
Newer(o, p) == o.at > p.at \/ (o.at = p.at /\ o.key < p.key)

Newest(S) == CHOOSE o \in S : \A p \in S \ {o} : Newer(o, p)

\* pick_weekly_keepers
WeeklyKeepers(S) == {Newest(InWeek(S, w)) : w \in {Week[o.key] : o \in S}}

\* pick_monthly_keeper
MonthlyKeeper(S) ==
  LET last == {o \in S : o.key \in LastWeek} IN Newest(IF last # {} THEN last ELSE S)

\* Faulty variant of WeeklyCollapsed: the current month is collapsed as well.
WeeklyCollapsesCurrent(S, m) ==
  UNION {InMonth(S, k) \ WeeklyKeepers(InMonth(S, k)) : k \in {l \in MonthsOf(S) : l + 1 >= m}}

\* The first loop of plan_retention; the last month is the one before today's.
WeeklyCollapsed(S, m) ==
  UNION {InMonth(S, k) \ WeeklyKeepers(InMonth(S, k)) : k \in {l \in MonthsOf(S) : l + 1 = m}}

\* Faulty variant of MonthlyCollapsed: last month is collapsed to one as well.
MonthlyCollapsesLast(S, m) ==
  UNION {InMonth(S, k) \ {MonthlyKeeper(InMonth(S, k))} : k \in {l \in MonthsOf(S) : l < m}}

\* Its second loop, over the months before the last one.
MonthlyCollapsed(S, m) ==
  UNION {InMonth(S, k) \ {MonthlyKeeper(InMonth(S, k))} : k \in {l \in MonthsOf(S) : l + 1 < m}}

\* Faulty variant of Expired: a backup is dropped one month early.
ExpiredEarly(S, m) == {o \in S : Month[o.key] + KeepMonths <= m}

\* Its third loop: days before the first of the month KeepMonths before today's.
Expired(S, m) == {o \in S : Month[o.key] + KeepMonths < m}

\* Faulty variant of ToDelete: what has expired is left alone.
ToDeleteKeepsExpired(listed, relisted, m) ==
  (WeeklyCollapsed(listed, m) \cup MonthlyCollapsed(listed, m)) \ Expired(relisted, m)

\* RetentionPlan.to_delete: the loops collapse what the first listing has and
\* expire what the second one has.
ToDelete(listed, relisted, m) ==
  WeeklyCollapsed(listed, m) \cup MonthlyCollapsed(listed, m) \cup Expired(relisted, m)
----------------------------------------------------------------------------
(* Backups *)

Put(S, o) == {p \in S : p.key # o.key} \cup {o}

\* backup_key; that two backups of one second share their key is in Backup.
BeginBackup(w) ==
  /\ writing[w] = 0 /\ begun < MaxBackups
  /\ now \notin {writing[v] : v \in Writer} \cup {o.key : o \in stored}
  /\ writing' = [writing EXCEPT ![w] = now] /\ begun' = begun + 1
  /\ UNCHANGED <<now, objects, pc, run, stored>>

\* The end of upload_file sets LastModified.
Upload(w) ==
  /\ writing[w] # 0
  /\ LET o == [key |-> writing[w], at |-> now] IN
       objects' = Put(objects, o) /\ stored' = Put(stored, o)
  /\ writing' = [writing EXCEPT ![w] = 0]
  /\ UNCHANGED <<now, begun, pc, run>>

\* A backup that fails or dies.
Abandon(w) ==
  /\ writing[w] # 0
  /\ writing' = [writing EXCEPT ![w] = 0]
  /\ UNCHANGED <<now, objects, begun, pc, run, stored>>
----------------------------------------------------------------------------
(* Retention *)

\* Faulty variant of NoRun: no date at all.
NoRunUndated == [today |-> 0, applying |-> FALSE, listed |-> {}, plan |-> {}, preview |-> {}]

\* The local variables of a retention that has listed nothing yet.
NoRun == [today |-> 1, applying |-> FALSE, listed |-> {}, plan |-> {}, preview |-> {}]

Goto(r, s) == pc' = [pc EXCEPT ![r] = s]

\* execute_retention, up to the listing of its preview.
Begin(r) ==
  /\ pc[r] = "idle"
  /\ Goto(r, "list")
  /\ UNCHANGED <<now, objects, writing, begun, run, stored>>

\* plan_retention: today's date, then the first listing.
List(r) ==
  /\ pc[r] = "list"
  /\ run' = [run EXCEPT ![r].today = now, ![r].listed = objects]
  /\ Goto(r, "relist")
  /\ UNCHANGED <<now, objects, writing, begun, stored>>

\* The second listing and the plan.
Relist(r) ==
  LET plan == ToDelete(run[r].listed, objects, Month[run[r].today]) IN
  /\ pc[r] = "relist"
  /\ run' = [run EXCEPT ![r].plan = plan]
  /\ Goto(r, IF run[r].applying THEN "delete" ELSE "confirm")
  /\ UNCHANGED <<now, objects, writing, begun, stored>>

\* _confirm answers yes, or is skipped; apply_retention plans again.  A preview
\* of this database that found nothing gets here when another one found some.
Confirm(r) ==
  /\ pc[r] = "confirm"
  /\ run' = [run EXCEPT ![r] = [NoRun EXCEPT !.applying = TRUE, !.preview = run[r].plan]]
  /\ Goto(r, "list")
  /\ UNCHANGED <<now, objects, writing, begun, stored>>

\* One delete_object of apply_retention.
Delete(r) ==
  /\ pc[r] = "delete"
  /\ \E o \in run[r].plan :
       /\ objects' = {p \in objects : p.key # o.key}
       /\ run' = [run EXCEPT ![r].plan = @ \ {o}]
  /\ UNCHANGED <<now, writing, begun, pc, stored>>

\* The end of apply_retention.
Finish(r) ==
  /\ pc[r] = "delete" /\ run[r].plan = {}
  /\ Goto(r, "done")
  /\ UNCHANGED <<now, objects, writing, begun, run, stored>>

\* The command returns, has nothing to delete, is declined, raises on an S3
\* error, or is killed.
Stop(r) ==
  /\ pc[r] # "idle"
  /\ Goto(r, "idle")
  /\ run' = [run EXCEPT ![r] = NoRun]
  /\ UNCHANGED <<now, objects, writing, begun, stored>>

Tick ==
  /\ now < Horizon
  /\ now' = now + 1
  /\ UNCHANGED <<objects, writing, begun, pc, run, stored>>

Init ==
  /\ now = 1 /\ objects = {} /\ stored = {}
  /\ writing = [w \in Writer |-> 0] /\ begun = 0
  /\ pc = [r \in Retainer |-> "idle"]
  /\ run = [r \in Retainer |-> NoRun]

Retain(r) == \/ Begin(r) \/ List(r) \/ Relist(r) \/ Confirm(r) \/ Delete(r) \/ Finish(r)
             \/ Stop(r)

Next == \/ \E w \in Writer : BeginBackup(w) \/ Upload(w) \/ Abandon(w)
        \/ \E r \in Retainer : Retain(r)
        \/ Tick

Spec == Init /\ [][Next]_vars
----------------------------------------------------------------------------
(* Properties *)

\* Every variable keeps its type.
TypeOK ==
  /\ now \in Instants /\ objects \subseteq Backups /\ stored \subseteq Backups
  /\ writing \in [Writer -> 0 .. Horizon] /\ begun \in Nat
  /\ pc \in [Retainer -> {"idle", "list", "relist", "confirm", "delete", "done"}]
  /\ run \in [Retainer -> Runs]

\* Keep all dailies this month, weekly last month: no retention, however late it carries
\* out its plan, deletes a backup of the month it is, nor the newest of a week of the month
\* before, with any number of retentions and of backups that straddle the end of the month.
RecentKept ==
  \A o \in stored :
    \/ Month[o.key] >= Month[now]
    \/ /\ Month[o.key] + 1 = Month[now]
       /\ \A p \in InWeek(InMonth(stored, Month[o.key]), Week[o.key]) \ {o} : Newer(o, p)
    => o \in objects

\* Monthly older: a month that ever had a backup still has one until it expires.
MonthKeepsOne ==
  \A o \in stored : Month[o.key] + KeepMonths >= Month[now] =>
    InMonth(objects, Month[o.key]) # {}

\* Whatever two plans are made from, previewed or carried out, a backup is deleted only on
\* a day on which the policy does not ask for it.
Promise == INSTANCE Policy WITH kept <- objects
PolicySpec == Promise!Spec

\* When backups finish in the order they begin, a month keeps its latest backup,
\* whichever retentions ran, overlapped or were missed.
LatestOfMonthKept ==
  Promise!InOrder => \A o \in stored : Month[o.key] + KeepMonths >= Month[now] =>
    \E p \in InMonth(objects, Month[o.key]) : p.at >= o.at

\* What a completed retention leaves of the backups it listed: one of each month
\* before the last, one of each week of the last, none older than KeepMonths.
CollapsedWhenDone ==
  \A r \in Retainer : pc[r] = "done" =>
    LET left == objects \cap run[r].listed
        m == Month[run[r].today]
    IN \A o \in left :
         /\ Month[o.key] + KeepMonths >= m
         /\ \A p \in left \ {o} :
              /\ Month[o.key] + 1 < m => Month[p.key] # Month[o.key]
              /\ Month[o.key] + 1 = m /\ Month[p.key] + 1 = m => Week[p.key] # Week[o.key]
=============================================================================
