# A TLA+ development of idp-db-toolchain

`idp-db-toolchain` backs up PostgreSQL databases to S3, keeps the backups by a
calendar policy, serves metrics about them, and copies, restores and anonymizes
them. It is a Python command line (`src/src/cli.py`) whose `schedule` command runs
in a container next to whatever operators start by hand. This directory holds TLA+
models of its core, TLC configurations that check them on small instances, and
TLAPS proofs of their main safety properties for every instance.

Paths below are relative to the repository root, which is `src/` here: `src/backup/core.py`
is the file `PROJECT.json` calls `src/src/backup/core.py`.

## 1. The system

| Component | State it keeps | Operations | Talks to |
|---|---|---|---|
| Backup run, `src/backup/core.py:12-34` | a temporary archive on disk, local variables | `backup()`: bucket check, key, dump, compress, upload, record, unlink | pg_dump (pipes), S3, status file |
| Status file, `src/observability/status.py` | one JSON file per database | `load_status`, `record_success`, `record_failure` | backup runs, metrics thread, alerts |
| Scheduler, `src/cli.py:365-499` | two croniter iterators, a failure count, the shutdown flag, the configuration of its start | `schedule`, `daily`, `run_backup_cycle`, `run_observability_cycle`, `run_retention_cycle`, the signal handler | registry, backup, retention, server thread |
| Retention, `src/backup/retention.py`, `src/cli.py:305-338` | nothing but a plan in memory | `plan_retention`, `apply_retention`, `execute_retention` | S3 listings and deletions |
| Retention calendar, `src/backup/retention.py:12-56` | none | date arithmetic | retention |
| Restore, verify, export, `src/backup/core.py:37-70` | a temporary archive | `restore`, `verify`, `export_to_target` | S3, pg_restore (pipes) |
| Anonymize, `src/backup/anonymize.py` | one scratch database | `anonymize_backup`, `anonymize_database` | S3, backup, PostgreSQL |
| Registry and configuration, `src/db/registry.py`, `src/config.py` | `db-toolchain.toml` and its `.bak`, the environment | `add_database`, `remove_database`, `load_config` | every command |
| Metrics and health, `src/observability/{metrics,health,metrics_server}.py` | metrics files, the server thread | a scrape of `/metrics`, `/ready` | status files, databases, S3 |
| Engine cache, `src/db/session.py` | `_engines` | `get_engine`, `dispose_engines` | main thread and server thread |
| Job log, `src/observability/jobs.py` | a file of JSON lines | `job_run`, `list_jobs` | every command |
| Deployment, `dev.sh`, `k8s/`, `terraform/` | cluster objects | apply, roll out, undo, smoke job | kubectl |

Notification (one HTTP call whose errors are swallowed), inspection, seeding and the
set-up wizard keep no state of their own.

The parts meet in four places. The **bucket** is written by every backup run and
listed and deleted from by every retention, `databases remove --prune` and anonymize call;
nothing locks it. The **status files**
are rewritten in place by every run and read by the server thread. The **registry
file** is rewritten by `databases add|remove` under a running scheduler. Inside
the scheduler the main thread, the server thread and the signal handler share the
shutdown flag and the engines.

What is hard, and what correctness means for each modelled part:

- *Backup run*: any call may fail, the process may die between any two, and two
  processes may back up one database in the same second. Only whole archives may
  be stored, a returned key must be there, the archive on disk must go away, and
  the status file must tell one coherent story and show every failure.
- *Scheduler*: jobs outlast their interval, fail, and meet signals at every
  point. Each tick gets one job, in order and without starving the other schedule; a
  job that succeeds has reached every database; the scheduler gives up exactly at the
  limit, stops when told to, and leaves nothing open.
- *Retention*: plans come from listings that are stale when they are carried out,
  and two retentions can overlap. What the policy says is kept must be kept by
  any interleaving, and a finished retention must have removed the rest.
- *Calendar*: Decembers, leap years, the last seven days of a month.
- *Registry*: three commands rewrite one file in place, without a lock. No id may be
  listed twice, a torn file must leave a good copy, what a command reports must be so, and
  pruning must never meet the last database.
- *Configuration*: a process that loads it again and again writes into the environment it
  reads it from. A later load must agree with that of a fresh process.
- *Restore, verify, export*: objects rot or go away between two requests, children fail
  half-way, parents are killed. Damaged bytes must be stopped where a checksum was read;
  a call that ended must have done what it reports and have left nothing at work.
- *Pipes*: parent and child can wait for each other.
- *Anonymize*: one scratch database for all calls, and a `finally` that may fail.
- *Metrics*: a scrape reads files and databases that change under it, in one thread that
  the liveness probe needs too. Pages must be true, and what is wrong for good must show.
- *Engine cache and job log*: shared between threads, and between processes, without a lock.

`PROJECT.json` lists under `hazards` each place where the code can go wrong in a
way a test would hardly reach, with the properties that watch it, or the reason
why none does.

## 2. The modules

| Module | What it is |
|---|---|
| `Backup` | `backup()` run by several processes |
| `Ledger` | the abstract history that the status files of runs in a row implement |
| `Scheduler` | `schedule()` with its threads, its signals and a changing registry |
| `Retention` | retentions and backups on the prefix of one database |
| `Policy` | what retentions may delete: the abstract bucket that they implement |
| `Calendar` | the date arithmetic of the retention |
| `Registry` | the commands that rewrite `db-toolchain.toml`, and its copy |
| `AtomicRegistry` | the list that the file and its copy implement for commands in a row |
| `Config` | `load_config`, again and again in one process |
| `Restore` | `restore`, `verify` and `export_to_target` next to each other |
| `Pipes` | the three ways `pg_tools.py` talks to a child |
| `Anonymize` | `anonymize_backup` and `anonymize_database` next to each other |
| `Scrape` | a scrape of `/metrics` against a changing world, and the alerts |
| `Probes` | the server thread between the kubelet and databases that hang |
| `Engines` | the engine cache and the two threads of the scheduler |
| `JobLog` | the job log and the processes that append to it |
| `MC...` | instances for TLC, with the history variables that only a run needs; `MCUnlocked` holds `Engines` and `JobLog`, `MCServer` adds `Scrape` and `Probes`, `MCPipes` holds `Pipes` next to `Restore`, `MCConfig` holds `Config` next to `Registry`. They share no variables: in each run one of them takes steps and the others rest |
| `BackupProofs`, `SchedulerProofs`, `RetentionProofs`, `RegistryProofs`, `AnonymizeProofs` | proofs about the modules of those names, with their `MC` modules; `RegistryProofs` also about `Config` |
| `PgToolsProofs`, `UnlockedProofs` | proofs about `Restore` and `Pipes`; about `Engines`, `JobLog`, `Scrape` and `Probes` |
| `NaturalLemmas` | what the proofs about time need of the natural numbers |

A definition named "Faulty variant of X" is never part of a specification: it is X
with a plausible bug, and `PROJECT.json` names the property that must fail when it
takes the place of X. An invariant that ends in `Inv`, and a few others, are
conjunctions of named parts, each with its own comment in the module.

### Backup

One step is one call that another process can see or that can fail on its own:
`HeadBucket`, `CreateBucket`, `MakeKey` (key and temporary file), `Dump` (the stream
until pg_dump's output ends, whole or not), `WaitDump` (the exit code), `Upload`,
`LoadStatus` (read and update), `Truncate` and `Write` (the two halves of
`Path.write_text`), `Unlink` (the `finally`). `Raise` is Python's control flow in one
place: an exception in the `try` block goes to `record_failure`, one inside
`record_failure` goes straight to the `finally`. Loading the status file, opening it and
writing it fail each by itself: a file that cannot be read or opened stays as it was. `Crash` is SIGKILL or a lost node,
`Interrupt` a Ctrl-C, which `except Exception` does not catch. `Begin` lets any
process call `backup()` again at any time.

Data: an archive is the number of the run that made it, which stands for its bytes
and its checksum, and a flag that says whether it is the whole output. A key is a
database and a second. A status file is a record plus what is on disk: absent, JSON,
empty (truncated), or garbled by two writers; `json.loads` raises on the last two. In
`Write` the bytes of the shorter record may leave the tail of a longer one behind.

`Ledger` says what the status files mean when runs follow one another: each run adds one
success or one failure in a single step, successes carry keys in order, and a torn file is
lost for good. `LedgerSpec` maps a file being written to what is about to be written, and a
file that two runs have worked on at once (the history `shared` of `MCBackup`) to a lost one.
`EndsVisibly` is about the last run of a database, which the history `newest` of `MCBackup`
remembers, unless its `record_failure` was itself refused the file (`untold`): such a run ends with an
exception and no trace in the file. A process forgets its run when it begins another, of any database, so that "no run still
at hand is newer" would not do: with two databases an older run can be the newest at hand.

### Scheduler

`pc` is the position of the main thread in `schedule()`: `Start`, `Loop` (the
condition of the `while`), `Wake` (`_sleep_until` and the check after it),
`StartJob`, the calls of a job (`BackupOne`, `Observe`; `PlanRetention`, `ApplyOne`),
`Succeed` or `Fail` with `Advance` (`get_next`), `CloseServer`, `Dispose`. The check of the
flag and the start of the job are two steps, so that a signal can come in between.
`daily()` reads the registry of the moment (`todo' = registry`), the retention the
configuration of the start (`todo' = cfg`), as the code does. The server thread is
`BeginScrape` and `EndScrape`; `server.shutdown()` waits for `EndScrape`.

`since`, `ran`, `outcomes`, `wanted` and `reached` are history variables: the code
does not have them and no guard reads them.

### Retention, Policy and Calendar

Time is a row of instants that the constants `Month`, `Week` and `LastWeek` map to the
calendar. A backup has the instant of its key (`backup_key`, at the start) and its
`LastModified` (at the end of the upload): retention groups by the first and
chooses by the second. `List` and `Relist` are the two listings of `plan_retention`;
`Confirm` starts the second plan of `apply_retention`; `Delete` is one
`delete_object`. The order of the deletions is left open, which allows more than
the code's order does. `stored` is a history variable: the bucket as it would be had
nothing been deleted.

`Policy` is the bucket without retentions: a clock, the backups ever stored, and those that are kept.
A backup may be forgotten, whoever asks for it and on whichever listing, when it has expired, or when its
month is not the current one and another backup stands for it (`Covers`): one of its month, of its week and
newer if the month is the last one, and one that finished later if backups finish in the order they began
(`InOrder`). The keepers of the code (`WeeklyKeepers`, `MonthlyKeeper`) depend on the day; `Policy` is
what their choices have in common. `PolicySpec` maps `kept` to the bucket: a `Delete` is a `Forget` or, if another retention
came first, a stutter, and everything else a retention does is a stutter.

`Calendar` has the code's arithmetic as operators and compares it with an independent count
of months and days. `MCRetention` takes `Month`, `Week` and `LastWeek` from it, for nine dates
between Christmas and the end of March, so that the retention is checked on months, ISO weeks and
last weeks that the code would compute. The loop of `subtract_months` is its number of passes
(`Passes`), the first after which its condition is false.

The abstractions: one database (plans never look at another prefix); keys that do
not parse are ignored by the code and absent from the model; local time and UTC are
one clock, as in the container; `BeginBackup` gives no key twice, since key collisions
are in `Backup`.

### Registry and AtomicRegistry

A file is a kind (it parses, it is empty, garbled, absent) and a list of ids. A command is a
sequence of steps that others can see: `Read`, `Ping` or `Connect`, `List` and `Prune` (one deletion
each), `OpenBak` and `FillBak`, `Truncate` and `Write`, for `setup --force` also `Edit` and
`ReadText`, for `databases add` the `Schema`. Every step may fail, `Crash` ends a process between any
two, `Write` may meet a full disk, and `Recover` is the operator who puts the copy back. `Rest` is what
the code tests after it has read the list. `Env` says which commands see `DATABASES` of `.env`.
`AtomicRegistry` adds or removes one id in one step; `RegistrySpec` maps a torn file to its copy
(`Current`). That, and what commands report, holds of commands in a row: `quiet` and `seen` in
`MCRegistry` say how far a behaviour was one.

### Config

Four settings stand for those that are read the same way, with values that tell "unset", "blank",
the development default and another value apart. `Load` is one call: `.env` into the environment,
pick, validate, `setdefault`. `EditToml` and `EditDotenv` change a file between two calls.

### Restore and Pipes

`Restore` has one process per call. `Get` and `Head` are the two requests for an object, between which
it may rot or go (`Decay`); `Spawn`, `Feed`, `Commit`, `Rollback` and `Wait` are a pg_restore in one
transaction (`--single-transaction`), which lives on when its parent is killed (`Kill`) and not when
it is interrupted. `Accepted` is the reading of its exit code. Bytes are where they come from and
whether they are whole.

`Pipes` looks at one such pair with bounded pipes: the child chooses between data, messages and its
end, and blocks where the operating system blocks it; the parent is `Receive`, `Send`, `Break`,
`Drain` and `Wait`.

### Anonymize

The steps of `anonymize_backup` in order, with `ensure_database` in two (`Exists`, `Create`), the
temporary file (`MakeTemp`), which is the last call before the `try`, and the `finally` as `Drop`, which
may fail before or after the database is gone. A database holds the rows of some sources. `Restore` feeds
a pg_restore (`child`), which adds those of its archive in one transaction, as `pg_restore --clean` does
(`Commit`), or fails (`Rollback`); it lives on when its parent is killed, and a call counts as at work
(`Working`) until its pg_restore is over. `Mask` shows what the query for the columns does: it is
refused wherever there are columns to mask.

### Scrape and Probes

`Scrape` is one request: `Begin` loads the configuration, `Readiness` asks every database, then come for
each `LoadFirst`, `Query`, `Persist`, `LoadSecond`. Meanwhile (`Meanwhile`) the databases go down and come
back, the registry and the data directory fail and are put right (`Fault`), backup runs of several
processes rewrite the status files in three steps (`Load`, `Truncate`, `Land`, or `GiveUp`), time passes,
and `Replace` gives the pod an empty volume. A data directory that fails takes no write; whether it can
still be read is left open. `blame` and `shared` are history variables: what was wrong during the scrape,
and where two runs have overlapped. `FailureAlert` and `StaleAlert` are the rules of
`deploy/observability/prometheus-rules.yml` on the last scrape.

`Probes` is the one thread of `HTTPServer`: a backlog of requests, some of which (`Check`) wait for
databases that hang. Time goes in ticks of five seconds; the kubelet sends, gives up and kills as
`k8s/db-toolchain-deployment.yaml:70-77` tells it to.

### Engines and JobLog

`Look` and `Store` are the two halves of `get_engine`; `Use` and `Close` those of a session; `Leave`,
`Shutdown` and `Dispose` the way out of `schedule()`, here with every key of the cache. An engine is
identified by its key and the thread that made it, `Collect` is the garbage collector.

In `JobLog` the log is a list of lines that are records or cannot be read. `Whole` appends one, `Full` is
what a full disk makes of it, `End` the `except` and the `else` clause of `job_run`.

## 3. What is checked

| Run | Instance | Shows |
|---|---|---|
| `backup` | 2 processes, 1 database, 3 runs, 2 seconds | `TypeOK`, `StoredWhole`, `ReturnedIsStored`, `StatusCoherent`, `LastKeyStored`, `EndsVisibly`; runs in a row implement `Ledger` |
| `sched` | ticks 1, 2, 4 and 2, 3; registry of one or two databases; give up after 2; fairness | `TypeOK`, `EachTickOnce`, `TicksInOrder`, `GivesUpRightly`, `CleanStop`, `SuccessReachesAll`, `NoJobAfterSignal`, `SignalStops`, `TicksServed` |
| `retention_writers` | 2 writers, 1 retention at a time, 9 dates in 4 months, 3 backups; every day of 2024 to 2026 | `TypeOK`, `RecentKept`, `MonthKeepsOne`, `CollapsedWhenDone`, `DatesAreRight` |
| `retention_overlap` | 1 writer, 2 retentions, 6 dates in 3 months, 3 backups | `LatestOfMonthKept`; retentions and backups implement `Policy` |
| `registry` | 2 processes, 2 databases, 3 commands, 1 upload | `RegistryInv`, `ReturnedIsDone`, `PruneSparesLast`; commands in a row implement `AtomicRegistry` |
| `config` | all contents of both files, two shells | `ConfigInv`, `DataDirStays` |
| `restore` | 2 processes, 1 object, 2 databases, all four calls | `DamageIsStopped`, `EndIsFinal` |
| `pipes` | 6 blocks, up to 4 messages, pipes of 3 | `PipesInv`, `Ends` |
| `anonymize` | 3 processes, 3 sources, one with columns to mask | `AnonymizeInv`, `CallsStayApart` |
| `scrape` | 2 databases, one of them backed up by 2 processes and allowed to stop; one fault at a time | `PagesAreTrue`, `LastingIsSeen` |
| `probes` | backlog 5, a hang of 6 ticks, the probe of the manifest | `ProbesInv` |
| `unlocked` | 3 spellings for 2 databases; 2 processes, 4 jobs, 4 full disks | `PoolsInv`, `LogInv` |

Bounds, all of them constants:

- `MaxRuns`, `MaxSec`: with three runs and two seconds two processes collide on a
  key, lose each other's update, and run again on what was left; a lost update
  needs two overlapping runs and a third to see its result.
- `Horizon` and the ticks of `Scheduler`: the schedules share one tick, one is due
  while a job for the other runs, both end before the horizon, and the scheduler
  can crash and start again between any two ticks. `MaxFailures` = 2 is the
  smallest limit that needs consecutive failures.
- `Horizon`, `MaxBackups` and `KeepMonths` of `Retention`: a backup of December is
  seen as current, last, older and expired when backups expire after two months
  instead of twelve. Three backups put two into one week and one into another.
  Weeks reach over the ends of months, and one week lies partly in the last seven
  days of its month. `DatesAreRight` is about the twelve months of the code.
- `MaxCommands` = 3: two commands that overlap and one after them that reads what they left, or a
  crash, an operator's recovery and a command. One upload is what a prune can miss.
- `Restore`: a second process is enough to meet the first one's child in the target database; objects
  differ only in whether they have a checksum, and a HEAD that fails reads as none.
- `Pipes`: data and messages each exceed their pipe, in every combination of more, less and equal.
- `Anonymize`: a failed call, one after it that finds what it left, and a third one's key.
- `Scrape`: a scrape of two databases has a file to be caught in and another to be busy with afterwards;
  one backup tells an old page from a new one, and two processes are enough for one to write back
  what it had read before the other. `OneFault` of `MCServer` keeps all but one of the databases, the
  registry and the data directory well at any time: any of them alone makes a scrape fail.
- `Probes`: `Hang` is longer than a probe's period, and the backlog is that of `socketserver`.
- `MaxJobs`, `MaxFull`: a full disk can hit each line of two jobs and the line after a torn one.
- Symmetry is used for processes, writers and retentions in runs whose properties are of one state
  or one step; `Registry`, `Backup` and `Retention` also check their refinement under it, whose abstract
  specifications mention no process and have no fairness.
- Deadlock is checked in `sched`, which can always take a step. In the others a bound, or the end of
  the calls, ends the behaviour.

Fairness. In `sched` it is weak fairness of three actions. `Main`: the
operating system runs the main thread, and each call of a job returns; the code
puts no timeout on pg_dump, so this is an assumption about pg_dump and the network,
and `Pipes` says when it fails. `EndScrape`: a request ends, which is one about database
connections. `Tick`: time passes. No fairness is assumed of signals, crashes, registrations or of the
choice between success and failure. In `pipes` parent and child are scheduled. In `scrape` Prometheus
goes on asking and the server thread goes on answering; nothing is assumed of databases, backups or
the pod, and `LastingIsSeen` speaks of what lasts.

### What does not hold

Where the code does not do what its documents say, the property that the runs check is the one that
does hold; this is what is missing, and how the models show it.

1. A failing bucket check is not recorded: `ensure_bucket` comes before the `try`
   (`src/backup/core.py:13`), so that the S3 alert of `deploy/observability/prometheus-rules.yml:58-65`
   cannot fire for it. `FailureVisible` without `call[p].sec > 0` fails.
2. One failing database ends the cycle for those after it (`src/cli.py:368`), against "backup one
   or all DBs" (`README.md:49`). `SuccessReachesAll` fails with `pc = "failed"` in it.
3. The running scheduler backs up a database added later but never cleans it up (`src/cli.py:484`),
   against `README.md:53,55`. `SuccessReachesAll` fails with `wanted` for the retention.
4. What was confirmed is planned again before it is deleted (`src/cli.py:328`), against "monthly
   cleanup (preview; ...)" (`README.md:52`): `run[r].plan \subseteq run[r].preview` fails. What holds is
   `PolicySpec`: the second plan, too, deletes nothing that the policy asks for on the day it is deleted.
5. With two writers and two retentions at once a month can be left empty (`MonthKeepsOne` in the
   instance of `retention_overlap` with two writers): a weekly plan from before the end of a month and a
   monthly plan from after it spare different backups if two backups finished in the other order than
   they began. `README.md:57` says "monthly older".
6. Two concurrent `databases add` lose one (`src/db/registry.py:59-65`), although both report success:
   `AddedIsListed` without `quiet`.
7. With `DATABASES` in `.env` a database that was added is on no list that a command reads
   (`src/config.py:130`; `README.md:26,55`), and with `DATABASES` in the shell `databases add` writes that
   list over the one in the file: `AddedIsListed` and `RegistrySpec` with `Dotenv` or `Exported` set.
8. A backup that runs during `databases remove --prune` puts its object back (`src/db/registry.py:95`;
   `src/cli.py:137` says "Delete all S3 backups"): `PrunedIsGone` without `quiet`.
9. A production pod without `AWS_*`, as `k8s/db-toolchain-secret.example.yaml:10` asks for, is refused:
   the default of a missing key is the value that `validate_prod_safe` rejects (`src/config.py:178,206`).
10. `verify` takes a HEAD that failed for an object without a checksum and says OK
    (`src/storage/s3.py:142`, `src/cli.py:250`): `CheckedIsSound` without `summed`.
11. A pg_restore that failed with messages in another language passes for a success
    (`src/db/pg_tools.py:158`): `ReturnedIsRestored` with `Translated = TRUE`.
12. `anonymize_session` does nothing without `anonymize_columns`, and the copy is published in the clear
    (`src/backup/anonymize.py:47`); with it the query for the columns is ambiguous (line 19) and every copy
    fails. No run of the code publishes an anonymized row (`README.md:51,59`).
13. The temporary copy of `anonymize_backup` is recorded as a success of the primary database, whose
    `last_key` then names a deleted object (line 84).
14. Two `anonymize_backup` at once publish each other's rows (line 75): `PublishedIsOwn` without `alone`. When
    they follow one another, the rows of a database with columns to mask stay out of the bucket even after
    a call was killed, provided that its pg_restore was over when the next call began (`TabledStaysOut`).
    One that lives on may commit between the `Mask` and the `Dump` of that next call, and the rows are
    published in the clear: `TabledStaysOut` without `alone`. A failure between the creation of the
    scratch database and the `try` (lines 75-77, `src/db/pg_tools.py:183-184`) leaves it behind, empty:
    what `ScratchIsEmptied` says of its rows does not hold of the database itself.
15. The stale-backup alert forgets with the pod: a new one exports 0, which the rule takes for "never"
    (`prometheus-rules.yml:35,41`). `StopIsAlerted` without `status[d].backup > 0`.
16. A database that stays down makes the whole page fail (`src/observability/metrics.py:178`), so that the
    alert on its readiness (`prometheus-rules.yml:15-22`) never fires; `OutageFailsScrapes` is the proof.
    A registry that `load_config` rejects (`metrics.py:173`) and a data directory that takes no metrics
    file (line 129) do the same with every database up, and silence the alerts on failing and on stale
    backups with the rest: `FailureIsAlerted` and `StopIsAlerted` need all of `Calm`.
17. A torn line makes `jobs` raise until it is older than its limit (`src/observability/jobs.py:68`).
18. `/health` waits behind a request that waits for a database, and the kubelet kills a process that is
    well (`src/observability/metrics_server.py:54`): `failures` reaches `Threshold` in `Probes`.
19. A status file that cannot be opened (`src/observability/status.py:35`: a data directory that is gone
    or read-only, no inode left) refuses `record_success` and then `record_failure`: the run raises, its
    archive may be in the bucket, and the file goes on saying what it said. `FailureVisible` without
    `untold` fails. Only the exception, the job log and the scheduler's count of failures tell.
20. Two backups of one database at once can put an older `last_success_at` back on the page
    (`src/observability/status.py:38-58`), and with it a stale alert that had gone:
    `TimestampForward` without `shared`.

## 4. What is proved

TLAPS checks the theorems below for all values of the constants that satisfy the assumption of the
module: any number of processes, databases, objects, retentions, ticks, months, jobs and full disks.

| Theorem | Property | Hypotheses beyond the module's assumption |
|---|---|---|
| `BackupProofs!TypeCorrect`, `StoredIsWhole`, `ReturnedKeyIsStored`, `StatusIsCoherent`, `LastKeyIsStored` | `TypeOK`, `StoredWhole`, `ReturnedIsStored`, `StatusCoherent`, `LastKeyStored` | |
| `BackupProofs!EndsAreVisible` | `EndsVisibly` | |
| `BackupProofs!StatusIsLedger` | `LedgerSpec`, the refinement of `Ledger` | |
| `SchedulerProofs!TypeCorrect`, `TicksServedOnce`, `TicksServedInOrder`, `GivesUpOnTime`, `StopsCleanly`, `SuccessIsComplete`, `SignalIsHeeded` | `TypeOK`, `EachTickOnce`, `TicksInOrder`, `GivesUpRightly`, `CleanStop`, `SuccessReachesAll`, `NoJobAfterSignal` | |
| `RetentionProofs!PolicyIsKept` | `PolicySpec`, the refinement of `Policy` | |
| `RetentionProofs!PolicySuffices` | `Policy` implies `RecentKept` and `LatestOfMonthKept` | |
| `RetentionProofs!TypeCorrect`, `RecentIsKept`, `LatestIsKept`, `DoneIsCollapsed` | `TypeOK`, `RecentKept`, `LatestOfMonthKept`, `CollapsedWhenDone` | |
| `RetentionProofs!MonthIsNotLost` | `MonthKeepsOne` | one retention at a time |
| `RetentionProofs!MonthIsNotLostInOrder` | `Promise!InOrder => MonthKeepsOne` | |
| `RetentionProofs!OneWriterInOrder` | `TakeTime => Promise!InOrder`, the case of `LatestOfMonthKept` | one writer |
| `RetentionProofs!DatesAreAlwaysRight` | `DatesAreRight` | |
| `RetentionProofs!PlanReadsMonths`, `CalendarIsAdmitted` | the dates of `plan_retention` are the months of `Retention`, and satisfy its assumption | |
| `PgToolsProofs!DamageStopped`, `NothingIsLeft` | `DamageIsStopped`, `NothingLeft` | |
| `PgToolsProofs!EndedIsOver` | `EndIsFinal` | `~Translated` |
| `PgToolsProofs!PipesAreDrained` | `PipesInv` | |
| `RegistryProofs!FilesAreLists` | `RegistryInv` | `NoTwins` |
| `RegistryProofs!RegistryIsAtomic` | `RegistrySpec`, the refinement of `AtomicRegistry` | `NoTwins`, `Plain` |
| `RegistryProofs!ReturnsAreTrue`, `LastIsSpared` | `ReturnedIsDone`, `PruneSparesLast` | `NoTwins`, `Plain` |
| `RegistryProofs!LoadsAgree`, `DirectoryStays` | `ConfigInv`, `DataDirStays` | |
| `AnonymizeProofs!ReturnsArePublished`, `OneByOneApart` | `AnonymizeInv`, `CallsStayApart` | |
| `UnlockedProofs!PoolsAreOne`, `LogIsTrue` | `PoolsInv`, `LogInv` | |
| `UnlockedProofs!PagesTellTheTruth` | `PagesAreTrue`, invariant and action property | |
| `UnlockedProofs!ProbesRecover` | `ProbesInv` | |

The hypotheses are the instances of the runs, and section 3 says what happens without them: with two
retentions and two writers whose backups overtake each other a month can be lost (5), with
`DATABASES` set (`Plain` says it is not) the file is not the list (7), and a translated pg_restore passes for a success (11). `NoTwins` says
that no list the program is given names a database twice; the code checks that of the database it
adds and not of the lists it finds.

The assumptions that the proofs need, and the code justifies: a clock has a first second to begin at
(`MaxSec`); there is a URL, an object, a database and an operation to speak of, and `{}` is none
of them, so that "no object" is told from one; months do not go backwards, and the last
seven days of a month are its last (which `CalendarIsAdmitted` proves of the dates of any clock);
`db-toolchain.toml` names at least one database (`src/config.py:137` raises otherwise); the backlog
has room for two. The last is a finding of the proof of `ProbesRecover`: with room for one, each scrape
can shut out the probe sent after it for ever, database or no database. `HTTPServer` has
room for five.

### The inductive invariants

Each is a conjunction of named parts in its proofs module. What they say, and why the properties
alone are not inductive:

- *Backup*. The properties speak of files and objects, and what ends up there goes
  through local variables first. `IInv` therefore says of each position of a call
  what its archive and its pending record are: from `upload` on the archive is whole, from
  `load` on its key is in the bucket, and a record about to be written is as coherent,
  and names a key as well stored, as one on disk. No lock is needed for that: what a
  reader takes from the file stays true because objects are only replaced.
- *How a backup ends*, and the ledger. `HInv` adds who owns what: runs at work have distinct numbers
  (`OwnInv`, from which `NoTempLeft` follows), a database that is not `shared` has one run at work, the
  newest (`SoleInv`), what that run knows of the file, what its pending record adds to it and that its failure
  shows there unless it is `untold` (`KnownInv`), and that no record is dated after the clock (`DateInv`). The step simulation has three kinds of steps: `Truncate`
  and a `Write` that fails are stutters or the loss of the file, a `Write` that succeeds is the entry.
- *Scheduler*. `ClockInv` says the loop heads for a tick after its start and is past it when a job
  runs; with it `EachTickOnce` and `TicksInOrder` are inductive. `CountInv`
  says that `failures` is the length of the run of failures at the end of
  `outcomes`; `StopInv` is the order of a shutdown; `ReachInv` says that a job works through its
  databases: those still to come and those reached are all of them.
- *Retention*. A plan is carried out long after it is made. `IInv` says that every backup in a
  plan, and every one already deleted, is *justified*: `Policy` lets it go (`MayForget`).
  `PlanIsJustified` shows it of a fresh plan, `JustifiedStays` that time and uploads never take it away.
  The second is why `Covers` asks for another backup among those *ever stored*, not among
  those still there, and why it asks for a later one only if backups are in order, which a new one
  can end but not begin. With that each step is one of `Policy` (`PolicyIsKept`); that a justified backup may
  be deleted by any number of retentions in any order is why none of this needs a lock.
  `RecentKept` and `LatestOfMonthKept` follow from `Policy` alone (`PolicySuffices`): nothing lets the newest
  backup of a week of last month go, nor, in order, the last of a month to finish.
  `OrderInv` says that with one writer backups finish before the next begins.
  `MonthKeepsOne` out of order needs one retention at a time, because "the month has another one" is not
  stable: `SparesInv` says that the plan at hand leaves one of each month. `DoneInv` says the same of the
  other side: what a plan leaves of its first listing is collapsed, and stays so because nothing deleted
  comes back (`NoneReturns`).
- *Calendar*. There is no state: the lemmas reduce dates to the number of their month (`Index`) and the day, and
  say what `Passes` is for every month and count (`PassesEnd`).
- *Restore*. `CallInv` says of each position of a call where its bytes came from, whether they were
  compared, and what its child is doing; `Honest`, for `EndIsFinal`, that a call that returned and
  was not a verification has committed its transaction.
- *Pipes*. A child that is about to write has something left to write, and a parent that waits for
  its child has nothing left to send, and nothing to read unless it is a dump that has ended.
- *Registry*. For commands that overlap (`IInv`): a file that parses, and what each command is about to write,
  is a list without twins, whatever was read (`Types`), and a file is torn only after a copy of it has
  been begun (`CopyBegun`). For commands in a row (`QInv`): the file is
  what the command at work has read until it writes, its copy is whole from the first byte of the
  truncation, and `Planned` ties what it will write to the list that `AtomicRegistry` has.
- *Configuration*. A setting that never stood in `.env` is in the environment as in the shell, and the
  first load that returns sets the data directory for good.
- *Anonymize*. `IInv` ties the copy of a returned call to the object it uploaded and a pg_restore to the
  position of its parent; `QInv` adds, while calls follow one another, none killed and no drop failed, that
  the scratch database holds the rows of the call at work and of no other, and is empty without one.
  After a killed call it holds more. `TInv` says what is left to rely on: a call that is past `Mask` has seen
  the scratch database without a table of columns, and while neither another call nor the pg_restore
  of a killed one works, none comes back (`AloneInv`).
- *Engines*. An engine in use, or with connections, is the cached one of its key or was replaced
  (`AllKnown`); a thread about to store over another is the only one that ever will for that key (`OneRace`).
- *Job log*. A job has one owner (`OneOwner`), its lines so far are those its owner's position implies
  (`ToldRight`), and each line that cannot be read is paid for by a full disk (`FullForEach`).
- *Scrape*. The page in the making is between the last page and the status files, for the databases
  that have been loaded and that no two runs were at (`PagesInv`). A run that has a file to itself is not
  going to set it back (`RunsInv`), and whatever is wrong while a scrape runs is on record (`BlameInv`).
- *Probes*. The thread is free `Hang` ticks after an outage; from then on a probe that waits is in the
  backlog, so none fails and the next one ends the failures there are (`CalmInv`).

Where an `MC` module holds several components, a theorem is about the specification of the one it names
(`Pipes!Spec`, `Config!Spec`, `JobLog!Spec`, ...), and the run lets only that one take steps.

Three definitions have the form that proofs can use: `Without` of `Registry` is a recursive function on
lengths, `AtomicRegistry` removes a database by its place in the list, and `Passes` of `Calendar` is chosen and
not counted. `Pipes` and `Scrape` name their fairness, which no theorem uses.

The proofs about `Calendar` found two definitions that said less than they seemed to: the cases of `NextDay`
overlapped on the last of December, and `MonthEnd` chose among the days 1 to 31 of every month, of which
more than one may precede the first of the next. TLC takes the first case and the first choice that fit; the
definitions now leave nothing to choose.

Only model-checked: liveness under fairness (`SignalStops`, `TicksServed`, `Ends`, `LastingIsSeen`), which is
outside the prover's reach.

## 5. The plan, and what is not modelled

Each safety property of the runs is a theorem. What could still be weakened are the hypotheses: that of
`MonthIsNotLost` perhaps to retentions that overlap but plan in the same month, and `NoTwins`
to lists in which the database at hand is named once.

Not modelled, and why:

- Notification: one HTTP call whose errors are all swallowed; it changes nothing.
- `dev.sh`, Terraform, the manifests but for the probe and the alert rules: calls of docker, kubectl and
  terraform in a row, and declarations; what they do is defined elsewhere.
- The `prune` and `list` commands: one deletes the keys it has shown, which `Restore` (`Decay`) and a second
  retention of `Retention` do as well, the other only reads.
- Seeding, inspection and the rest of the set-up wizard: queries and fixtures without a protocol.
- The pre-commit guard: a text scanner without state.
- The bytes of archives and of SQL, formatting and logging.

Inside the modelled parts this is taken for granted, and not shown:

- `Backup`: a process can unlink its own temporary file.
- `Restore`, `Anonymize`: a pg_restore that is killed with its call is over at once; a `COMMIT` that it had
  already sent counts as done before. In `Restore` one that ends with 1 does so for an error; one that
  ends so for warnings alone, which the code takes for a success, is left out. In `Anonymize` the exit
  code tells, as it does where pg_restore speaks English.
- `Anonymize`: each call has a temporary key of its own. The code makes it from the second and the primary's
  id, so that a backup of the primary in the same second shares it, and is deleted with it.
- `Registry`: the `[[databases]]` entries stand before the other sections of `db-toolchain.toml`, so that
  the tail which a shorter file leaves of a longer one repeats a section and does not parse.
- `Scrape`: the registry names the same databases throughout; a data directory does not disappear and come
  back with its files between two steps of a scrape (an absent file reads as a new one); the client waits
  for its page.
