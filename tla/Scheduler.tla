----------------------------- MODULE Scheduler ------------------------------
(***************************************************************************)
(* The `schedule` command of src/cli.py: one main thread that sleeps until *)
(* the earlier of two cron ticks and runs the daily backup or the monthly  *)
(* retention, a thread that serves metrics, a signal handler that sets a   *)
(* flag, and `databases add|remove` of another process, which rewrites the *)
(* registry under it.  A job is the sequence of calls for its databases;   *)
(* what backup() itself does is in Backup, what retention deletes in       *)
(* Retention.                                                              *)
(***************************************************************************)
EXTENDS Naturals, Sequences

CONSTANTS Db,              \* database ids
          Registries,      \* the lists of databases the registry may hold
          BackupTicks,     \* the times BACKUP_CRON matches
          RetentionTicks,  \* the times RETENTION_CRON matches
          Horizon,         \* bound on the clock
          MaxFailures      \* max_schedule_failures

ASSUME SchedulerAssumption ==
  /\ Horizon \in Nat /\ MaxFailures \in Nat \ {0}
  /\ BackupTicks \subseteq 1 .. Horizon /\ RetentionTicks \subseteq 1 .. Horizon
  /\ Registries \subseteq Seq(Db) \ {<<>>} /\ Registries # {}

VARIABLES now,        \* the local clock
          registry,   \* the databases in db-toolchain.toml
          cfg,        \* the databases schedule() loaded when it started
          next,       \* next_backup and next_retention
          pc,         \* where the main thread is
          todo,       \* the databases the running job has still to handle
          failures,   \* jobs that failed in a row
          shutdown,   \* the Event set by the signal handler
          server,     \* TRUE while the metrics server listens
          scrape,     \* TRUE while the server thread handles a request
          engines,    \* TRUE while SQLAlchemy engines are cached
          since,      \* history: when the running scheduler started
          ran,        \* history: the ticks it has started a job for
          outcomes,   \* history: how its jobs ended
          wanted,     \* history: the registry when the last job started
          reached     \* history: the databases the last job called backup or retention for

clocks  == <<now, registry>>
threads == <<server, scrape, engines>>
history == <<since, ran, outcomes, wanted, reached>>
vars == <<clocks, cfg, next, pc, todo, failures, shutdown, threads, history>>

Jobs  == {"backup", "retention"}
Ticks == [backup |-> BackupTicks, retention |-> RetentionTicks]
Never == Horizon + 1

Running  == {"backup", "observe", "plan", "apply"}
Awake    == {"loop", "sleep", "start", "succeeded", "failed"} \cup Running
PCs      == {"down", "stopping", "disposing"} \cup Awake

Elements(s) == {s[i] : i \in DOMAIN s}
----------------------------------------------------------------------------
\* croniter.get_next: the first tick after t.
NextTick(S, t) ==
  IF \E u \in S : u > t THEN CHOOSE u \in S : u > t /\ \A v \in S : v > t => u <= v
                        ELSE Never

\* Faulty variant of Due: retention waits while a backup tick is to come.
BackupFirst == IF next["backup"] # Never THEN "backup" ELSE "retention"

\* Faulty variant of Due: the comparison the wrong way round.
DueLater == IF next["backup"] >= next["retention"] THEN "backup" ELSE "retention"

\* The branch of the loop: the job whose tick comes first, backup on a tie.
Due == IF next["backup"] <= next["retention"] THEN "backup" ELSE "retention"

Init ==
  /\ now = 0 /\ registry \in Registries /\ cfg = registry
  /\ next = [j \in Jobs |-> Never] /\ pc = "down" /\ todo = <<>>
  /\ failures = 0 /\ shutdown = FALSE
  /\ server = FALSE /\ scrape = FALSE /\ engines = FALSE
  /\ since = 0 /\ ran = [j \in Jobs |-> {}] /\ outcomes = <<>>
  /\ wanted = {} /\ reached = {}

\* schedule() up to its loop, also after a restart of the container.
Start ==
  /\ pc = "down"
  /\ cfg' = registry
  /\ failures' = 0 /\ shutdown' = FALSE /\ server' = TRUE
  /\ next' = [j \in Jobs |-> NextTick(Ticks[j], now)]
  /\ pc' = "loop" /\ todo' = <<>>
  /\ since' = now /\ ran' = [j \in Jobs |-> {}] /\ outcomes' = <<>>
  /\ UNCHANGED <<clocks, scrape, engines, wanted, reached>>

\* The condition of the while loop.
Loop ==
  /\ pc = "loop"
  /\ pc' = IF shutdown THEN "stopping" ELSE "sleep"
  /\ UNCHANGED <<clocks, cfg, next, todo, failures, shutdown, threads, history>>

\* Faulty variant of Wake: the flag is looked at only at the end of the sleep.
WakeDeaf ==
  /\ pc = "sleep"
  /\ now >= next[Due]
  /\ pc' = IF shutdown THEN "stopping" ELSE "start"
  /\ UNCHANGED <<clocks, cfg, next, todo, failures, shutdown, threads, history>>

\* Faulty variant of Wake: the flag is not looked at after the sleep.
WakeUnchecked ==
  /\ pc = "sleep"
  /\ now >= next[Due] \/ shutdown
  /\ pc' = "start"
  /\ UNCHANGED <<clocks, cfg, next, todo, failures, shutdown, threads, history>>

\* _sleep_until, which the flag ends early, and the check that follows it.
Wake ==
  /\ pc = "sleep"
  /\ now >= next[Due] \/ shutdown
  /\ pc' = IF shutdown THEN "stopping" ELSE "start"
  /\ UNCHANGED <<clocks, cfg, next, todo, failures, shutdown, threads, history>>

\* Faulty variant of StartJob: the backup too works on the configuration of the start.
StartJobStale ==
  /\ pc = "start"
  /\ ran' = [ran EXCEPT ![Due] = @ \cup {next[Due]}]
  /\ wanted' = Elements(registry) /\ reached' = {}
  /\ pc' \in IF Due = "backup" THEN {"backup", "failed"} ELSE {"plan"}
  /\ todo' = cfg
  /\ UNCHANGED <<clocks, cfg, next, failures, shutdown, threads, since, outcomes>>

\* daily() loads the configuration anew and ensures the bucket;
\* run_retention_cycle works on the configuration of the start.
StartJob ==
  /\ pc = "start"
  /\ ran' = [ran EXCEPT ![Due] = @ \cup {next[Due]}]
  /\ wanted' = Elements(registry) /\ reached' = {}
  /\ IF Due = "backup"
       THEN pc' \in {"backup", "failed"} /\ todo' = registry
       ELSE pc' = "plan" /\ todo' = cfg
  /\ UNCHANGED <<clocks, cfg, next, failures, shutdown, threads, since, outcomes>>

\* One iteration of run_backup_cycle; an exception ends the whole cycle.
BackupOne ==
  /\ pc = "backup"
  /\ IF todo = <<>>
       THEN pc' = "observe" /\ UNCHANGED <<todo, reached>>
       ELSE /\ reached' = reached \cup {Head(todo)}
            /\ \/ pc' = "backup" /\ todo' = Tail(todo)
               \/ pc' = "failed" /\ UNCHANGED todo
  /\ UNCHANGED <<clocks, cfg, next, failures, shutdown, threads, since, ran, outcomes, wanted>>

\* run_observability_cycle: opens engines, and fails if a database cannot be reached.
Observe ==
  /\ pc = "observe"
  /\ engines' = TRUE
  /\ pc' \in {"succeeded", "failed"}
  /\ UNCHANGED <<clocks, cfg, next, todo, failures, shutdown, server, scrape, history>>

\* The first loop of execute_retention: plan every target, stop when nothing is planned.
PlanRetention ==
  /\ pc = "plan"
  /\ \/ pc' \in {"apply", "succeeded"} /\ reached' = Elements(todo)
     \/ pc' = "failed" /\ UNCHANGED reached
  /\ UNCHANGED <<clocks, cfg, next, todo, failures, shutdown, threads, since, ran, outcomes,
                 wanted>>

\* One iteration of its second loop.
ApplyOne ==
  /\ pc = "apply"
  /\ IF todo = <<>>
       THEN pc' = "succeeded" /\ UNCHANGED todo
       ELSE \/ pc' = "apply" /\ todo' = Tail(todo)
            \/ pc' = "failed" /\ UNCHANGED todo
  /\ UNCHANGED <<clocks, cfg, next, failures, shutdown, threads, history>>

\* Faulty variant of Advance: the iterator restarts from the clock.
AdvanceFromNow(n) == [n EXCEPT ![Due] = NextTick(Ticks[Due], now)]

\* get_next on the iterator of the job that ran.
Advance(n) == [n EXCEPT ![Due] = NextTick(Ticks[Due], @)]

\* Faulty variant of Succeed: only a backup resets the count.
SucceedKeepsCount ==
  /\ pc = "succeeded"
  /\ pc' = "loop" /\ next' = Advance(next) /\ outcomes' = Append(outcomes, TRUE)
  /\ failures' = IF Due = "backup" THEN 0 ELSE failures
  /\ UNCHANGED <<clocks, cfg, todo, shutdown, threads, since, ran, wanted, reached>>

Succeed ==
  /\ pc = "succeeded"
  /\ pc' = "loop" /\ next' = Advance(next) /\ outcomes' = Append(outcomes, TRUE)
  /\ failures' = 0
  /\ UNCHANGED <<clocks, cfg, todo, shutdown, threads, since, ran, wanted, reached>>

\* Faulty variant of Fail: one failure more than the limit is allowed.
FailOnceMore ==
  /\ pc = "failed"
  /\ failures' = failures + 1
  /\ outcomes' = Append(outcomes, FALSE)
  /\ IF failures' > MaxFailures
       THEN pc' = "stopping" /\ UNCHANGED next
       ELSE pc' = "loop" /\ next' = Advance(next)
  /\ UNCHANGED <<clocks, cfg, todo, shutdown, threads, since, ran, wanted, reached>>

\* The except clauses: count, and raise SystemExit(1) at the limit.
Fail ==
  /\ pc = "failed"
  /\ failures' = failures + 1
  /\ outcomes' = Append(outcomes, FALSE)
  /\ IF failures' >= MaxFailures
       THEN pc' = "stopping" /\ UNCHANGED next
       ELSE pc' = "loop" /\ next' = Advance(next)
  /\ UNCHANGED <<clocks, cfg, todo, shutdown, threads, since, ran, wanted, reached>>

\* Faulty variant of CloseServer: the socket is closed under a running request.
CloseServerAtOnce ==
  /\ pc = "stopping"
  /\ server' = FALSE /\ pc' = "disposing"
  /\ UNCHANGED <<clocks, cfg, next, todo, failures, shutdown, scrape, engines, history>>

\* server.shutdown() waits for the request being served; then server_close().
CloseServer ==
  /\ pc = "stopping"
  /\ ~scrape
  /\ server' = FALSE /\ pc' = "disposing"
  /\ UNCHANGED <<clocks, cfg, next, todo, failures, shutdown, scrape, engines, history>>

\* dispose_engines(), and the command returns.
Dispose ==
  /\ pc = "disposing"
  /\ engines' = FALSE /\ pc' = "down"
  /\ UNCHANGED <<clocks, cfg, next, todo, failures, shutdown, server, scrape, history>>

Main == \/ Loop \/ Wake \/ StartJob \/ BackupOne \/ Observe \/ PlanRetention \/ ApplyOne
        \/ Succeed \/ Fail \/ CloseServer \/ Dispose

\* The server thread handles one request at a time, until server.shutdown() is
\* called; /metrics and /ready open engines.
BeginScrape ==
  /\ server /\ ~scrape /\ pc # "stopping"
  /\ scrape' = TRUE
  /\ UNCHANGED <<clocks, cfg, next, pc, todo, failures, shutdown, server, engines, history>>

EndScrape ==
  /\ scrape
  /\ scrape' = FALSE /\ engines' = TRUE
  /\ UNCHANGED <<clocks, cfg, next, pc, todo, failures, shutdown, server, history>>

\* _handle_shutdown_signal: SIGTERM or SIGINT, at any point of the main thread.
Signal ==
  /\ pc # "down" /\ ~shutdown
  /\ shutdown' = TRUE
  /\ UNCHANGED <<clocks, cfg, next, pc, todo, failures, threads, history>>

\* SIGKILL or a lost node.
Crash ==
  /\ pc # "down"
  /\ pc' = "down" /\ server' = FALSE /\ scrape' = FALSE /\ engines' = FALSE
  /\ UNCHANGED <<clocks, cfg, next, todo, failures, shutdown, history>>

\* `databases add` or `databases remove` in another process.
Register ==
  /\ registry' \in Registries
  /\ UNCHANGED <<now, cfg, next, pc, todo, failures, shutdown, threads, history>>

Tick ==
  /\ now < Horizon
  /\ now' = now + 1
  /\ UNCHANGED <<registry, cfg, next, pc, todo, failures, shutdown, threads, history>>

Next == Start \/ Main \/ BeginScrape \/ EndScrape \/ Signal \/ Crash \/ Register \/ Tick

Spec == Init /\ [][Next]_vars

\* The operating system runs the main thread, time passes, and a request ends.
FairSpec == Spec /\ WF_vars(Main) /\ WF_vars(EndScrape) /\ WF_vars(Tick)
----------------------------------------------------------------------------
(* Properties *)

\* Every variable keeps its type.
TypeOK ==
  /\ now \in 0 .. Horizon /\ {registry, cfg} \subseteq Registries
  /\ next \in [Jobs -> 1 .. Never] /\ pc \in PCs
  /\ todo \in Seq(Db)
  /\ failures \in 0 .. MaxFailures
  /\ {shutdown, server, scrape, engines} \subseteq BOOLEAN
  /\ since \in 0 .. Horizon /\ ran \in [Jobs -> SUBSET (1 .. Horizon)]
  /\ outcomes \in Seq(BOOLEAN)
  /\ {wanted, reached} \subseteq SUBSET Db

\* A job is started exactly for the ticks since the start up to the next one:
\* jobs that outlast their interval or fail delay later ticks, and none is
\* dropped or served twice.
Started(j) == j = Due /\ pc \in Running \cup {"succeeded", "failed"}
EachTickOnce ==
  pc \in Awake => \A j \in Jobs :
    ran[j] = {t \in Ticks[j] : since < t /\ (t < next[j] \/ (t = next[j] /\ Started(j)))}

\* No job runs while an earlier tick of the other schedule waits.
TicksInOrder == pc \in Awake => \A j, k \in Jobs : \A t \in ran[j] : t <= next[k]

\* Once the flag is set the main thread takes up no further job: at most the one
\* whose check the signal came after still starts.
NoJobAfterSignal == [][shutdown /\ pc \notin {"down", "start"} => pc' # "start"]_vars

\* The scheduler gives up exactly when its last MaxFailures jobs, of either
\* kind, have all failed.
AllFailed ==
  /\ Len(outcomes) >= MaxFailures
  /\ \A i \in DOMAIN outcomes : i > Len(outcomes) - MaxFailures => ~outcomes[i]
GivesUpRightly ==
  /\ pc \in {"stopping", "disposing"} => shutdown \/ AllFailed
  /\ pc \in Awake => ~AllFailed

\* The metrics server outlives every job, and once the command has returned no
\* request that was still being served has brought an engine back.
CleanStop ==
  /\ pc \in Awake => server
  /\ pc = "down" => ~server /\ ~scrape /\ ~engines

\* A signal stops the scheduler, whatever it is doing and however far the next tick.
SignalStops == shutdown ~> pc = "down"

\* Every tick the loop is heading for gets its job, unless the scheduler stops.
TicksServed ==
  \A j \in Jobs : \A t \in 1 .. Horizon :
    pc \in Awake /\ next[j] = t ~> t \in ran[j] \/ pc \notin Awake

\* A job that succeeds has reached every database: a backup those registered when it began,
\* whatever another process does to the registry, a retention those of the start.
SuccessReachesAll ==
  pc = "succeeded" => (IF Due = "backup" THEN wanted ELSE Elements(cfg)) \subseteq reached
=============================================================================
