------------------------------- MODULE Scrape -------------------------------
(***************************************************************************)
(* What Prometheus learns from GET /metrics (prometheus_text and           *)
(* persist_metrics of src/observability/metrics.py, readiness of           *)
(* health.py): a scrape takes many steps, in the server's one thread,      *)
(* while databases go down and come back, backups of several processes     *)
(* rewrite the status files, the registry and the data directory fail and  *)
(* are put right, and the pod is replaced, which empties its data volume.  *)
(* Of a page it keeps what status_metrics says of each database.           *)
(***************************************************************************)
EXTENDS Naturals, Sequences

CONSTANTS Databases,    \* the configured ids, in order
          Aging,        \* those that may go 25 hours without a backup
          Targets,      \* of each process that makes backups, the databases it backs up
          MaxBackups    \* bound on the successful backups of a database

Db == {Databases[i] : i \in DOMAIN Databases}

ScrapeAssumption ==
  /\ Databases \in Seq(Db) /\ Databases # <<>> /\ MaxBackups \in Nat /\ Aging \subseteq Db
  /\ \A i, j \in DOMAIN Databases : Databases[i] = Databases[j] => i = j
  /\ \A w \in DOMAIN Targets : Targets[w] \subseteq Db

VARIABLES up,         \* the databases that answer
          broken,     \* "config" if load_config raises, "data" if nothing can be written
          status,     \* the status files, as last written
          torn,       \* those that were truncated since, or are garbled
          runs,       \* runs between load_status and the end of save_status
          shared,     \* history: databases of which two such runs overlapped
          late,       \* databases without a successful backup for 25 hours
          pc, at,     \* where the scrape is: a step, and the position in Databases
          draft,      \* the page so far
          page,       \* the last page that was served
          failed,     \* the last scrape got no page
          blame       \* history: something was wrong at some time during that scrape

scrape == <<pc, at, draft, page, failed>>
files == <<status, torn, runs, shared>>
world == <<up, broken, late, files>>
vars == <<world, scrape, blame>>

\* last_success_at as the number of the backup, 0 for null, and whether failure_streak > 0.
Statuses == [backup : 0 .. MaxBackups, failing : BOOLEAN]

Fresh == [backup |-> 0, failing |-> FALSE]

Blank == [d \in Db |-> Fresh]

Init ==
  /\ up = Db /\ broken = {} /\ late = {}
  /\ status = Blank /\ torn = {} /\ runs = {} /\ shared = {}
  /\ pc = "idle" /\ at = 1 /\ draft = Blank /\ page = Blank /\ failed = FALSE /\ blame = FALSE

This == Databases[at]

Last == at = Len(Databases)

\* A database does not answer, a status file is half written, or the pod's files fail.
Trouble == up # Db \/ torn # {} \/ broken # {}

\* do_GET ends with an exception: the connection closes without an answer.
Abort == pc' = "idle" /\ failed' = TRUE /\ at' = 1 /\ draft' = Blank /\ UNCHANGED page

\* prometheus_text starts with load_config.
Begin ==
  /\ pc = "idle" /\ blame' = Trouble /\ UNCHANGED world
  /\ IF "config" \in broken THEN Abort ELSE pc' = "ready" /\ UNCHANGED <<at, draft, page, failed>>

\* readiness asks every database, and S3: one that does not answer is a check that failed, and
\* no reason to stop.
Readiness == pc = "ready" /\ pc' = "first" /\ UNCHANGED <<at, draft, page, failed, blame, world>>

\* load_status raises, on a file that does not parse or on one that cannot be read.
Unreadable == /\ This \in torn \/ "data" \in broken
              /\ Abort

\* Faulty variant of LoadFirst: a file that does not parse reads as a new one.
LoadFirstForgives ==
  /\ pc = "first" /\ pc' = "query"
  /\ draft' = [draft EXCEPT ![This] = IF This \in torn THEN Fresh ELSE status[This]]
  /\ UNCHANGED <<at, page, failed, blame, world>>

\* persist_metrics: load_status ...
LoadFirst ==
  /\ pc = "first" /\ UNCHANGED <<blame, world>>
  /\ \/ Unreadable
     \/ /\ This \notin torn /\ pc' = "query"
        /\ draft' = [draft EXCEPT ![This] = status[This]] /\ UNCHANGED <<at, page, failed>>

\* Faulty variant of Query: a database that does not answer is left out.
QuerySkips ==
  /\ pc = "query" /\ pc' = "persist" /\ UNCHANGED <<at, draft, page, failed, blame, world>>

\* ... the queries in a session of the database ...
Query ==
  /\ pc = "query" /\ UNCHANGED <<blame, world>>
  /\ IF This \notin up THEN Abort ELSE pc' = "persist" /\ UNCHANGED <<at, draft, page, failed>>

\* ... and the metrics file, which has to be written.
Persist ==
  /\ pc = "persist" /\ UNCHANGED <<blame, world>>
  /\ IF "data" \in broken THEN Abort ELSE pc' = "second" /\ UNCHANGED <<at, draft, page, failed>>

\* load_status once more, and the lines of the database; after the last the page is served.
LoadSecond ==
  /\ pc = "second" /\ UNCHANGED world
  /\ \/ Unreadable /\ UNCHANGED blame
     \/ /\ This \notin torn /\ Last
        /\ pc' = "idle" /\ page' = draft /\ failed' = FALSE /\ at' = 1 /\ draft' = Blank
        /\ blame' = FALSE
     \/ /\ This \notin torn /\ ~Last
        /\ pc' = "first" /\ at' = at + 1 /\ UNCHANGED <<draft, page, failed, blame>>

Scraping == Begin \/ Readiness \/ LoadFirst \/ Query \/ Persist \/ LoadSecond
----------------------------------------------------------------------------
(* The rest of the world *)

\* A database stops answering, or answers again.
Outage ==
  /\ \E d \in Db : up' \in {up \cup {d}, up \ {d}}
  /\ UNCHANGED <<broken, late, files>>

\* A registry that load_config rejects, a data directory that takes no file; or put right.
Fault ==
  /\ \E f \in {"config", "data"} : broken' \in {broken \cup {f}, broken \ {f}}
  /\ UNCHANGED <<up, late, files>>

PassDay(d) == late' = late \cup {d} /\ UNCHANGED <<up, broken, files>>

\* What record_failure or record_success makes of a status.
Outcomes(s) ==
  {t \in Statuses : t.backup = IF t.failing THEN s.backup ELSE s.backup + 1}

\* record_success or record_failure: load_status and the change ...
Load(w, d) ==
  /\ d \notin torn /\ \A r \in runs : r.by # w
  /\ \E t \in Outcomes(status[d]) :
       runs' = runs \cup {[by |-> w, db |-> d, opened |-> FALSE, entry |-> t]}
  /\ shared' = shared \cup {r.db : r \in {q \in runs : q.db = d}}
  /\ UNCHANGED <<up, broken, late, status, torn>>

\* ... the open of write_text, which truncates the file ...
Truncate(r) ==
  /\ ~r.opened /\ torn' = torn \cup {r.db}
  /\ runs' = (runs \ {r}) \cup {[r EXCEPT !.opened = TRUE]}
  /\ UNCHANGED <<up, broken, late, status, shared>>

\* ... and its write. On a disk that fills up, or over what another run has written since, the
\* file ends up garbled.
Land(r) ==
  /\ r.opened /\ "data" \notin broken
  /\ status' = [status EXCEPT ![r.db] = r.entry] /\ runs' = runs \ {r}
  /\ torn' \in {torn \ {r.db}, torn \cup {r.db}}
  /\ late' = IF r.entry.failing THEN late ELSE late \ {r.db}
  /\ UNCHANGED <<up, broken, shared>>

\* A refused open, a full disk, a crash: the file stays as the run has left it.
GiveUp(r) == runs' = runs \ {r} /\ UNCHANGED <<up, broken, late, status, torn, shared>>

Recording ==
  \/ \E w \in DOMAIN Targets : \E d \in Targets[w] : Load(w, d)
  \/ \E r \in runs : Truncate(r) \/ Land(r) \/ GiveUp(r)

\* What happens while the scrape waits for its next step.
Meanwhile ==
  /\ Outage \/ Fault \/ Recording \/ \E d \in Aging : PassDay(d)
  /\ blame' = (blame \/ (pc # "idle" /\ Trouble')) /\ UNCHANGED scrape

\* A rollout or an eviction: an emptyDir lives as long as its pod. A scrape is cut short.
Replace ==
  /\ status' = Blank /\ torn' = {} /\ runs' = {} /\ shared' = {} /\ UNCHANGED <<up, broken, late>>
  /\ pc' = "idle" /\ at' = 1 /\ draft' = Blank /\ page' = Blank /\ failed' = TRUE /\ blame' = TRUE

Next == Scraping \/ Meanwhile \/ Replace

\* Prometheus goes on scraping and the server thread goes on answering.
Fairness == WF_vars(Scraping)

Spec == Init /\ [][Next]_vars /\ Fairness
----------------------------------------------------------------------------
(* Properties *)

\* Every variable keeps its type.
TypeOK ==
  /\ up \subseteq Db /\ broken \subseteq {"config", "data"} /\ late \subseteq Db
  /\ status \in [Db -> Statuses] /\ torn \subseteq Db /\ shared \subseteq Db
  /\ runs \subseteq [by : DOMAIN Targets, db : Db, opened : BOOLEAN, entry : Statuses]
  /\ pc \in {"idle", "ready", "first", "query", "persist", "second"} /\ at \in DOMAIN Databases
  /\ {draft, page} \subseteq [Db -> Statuses] /\ failed \in BOOLEAN /\ blame \in BOOLEAN

\* A scrape fails only if, at some time while it ran, a database did not answer, a status file
\* was half written, or the registry or the data directory failed (or its pod went); never
\* because of a check, whose failure the page is there to show.
FailsForCause == pc = "idle" /\ failed => blame

\* As long as a pod lives, no page shows an older last backup of a database than the page
\* before, unless two runs were at its status file at once, of which the later may have
\* written back what it had read before the other was done.
TimestampForward ==
  [][~failed' => \A d \in Db \ shared' : page'[d].backup >= page[d].backup]_vars

\* What the pages say, and when there is none.
PagesAreTrue == [](TypeOK /\ FailsForCause) /\ TimestampForward

\* The alerts of prometheus-rules.yml, on the last scrape.
FailureAlert(d) == ~failed /\ page[d].failing
StaleAlert(d) == ~failed /\ page[d].backup > 0 /\ d \in late

\* Nothing keeps a scrape from its page.
Calm == ~Trouble

\* Backups that keep failing raise the alert and keep it raised, if nothing keeps the scrapes
\* from their pages.
FailureIsAlerted == \A d \in Db : <>[](status[d].failing /\ Calm) => <>[]FailureAlert(d)

\* Backups that stop raise the stale alert while the status of the last one is there, again
\* if nothing keeps the scrapes from their pages.
StopIsAlerted == \A d \in Db : <>[](d \in late /\ status[d].backup > 0 /\ Calm) => <>[]StaleAlert(d)

\* A database that stays down, a registry or a data directory that stays broken shows in
\* scrapes that fail, for good: no page tells of it, and the alerts above are silent.
OutageFailsScrapes ==
  /\ \A d \in Db : <>[](d \notin up) => <>[]failed
  /\ \A f \in {"config", "data"} : <>[](f \in broken) => <>[]failed

\* Whatever is wrong for good comes to light for good.
LastingIsSeen == FailureIsAlerted /\ StopIsAlerted /\ OutageFailsScrapes
=============================================================================
