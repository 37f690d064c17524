-------------------------- MODULE SchedulerProofs ---------------------------
(***************************************************************************)
(* Proofs about Scheduler, for every pair of schedules, every registry and *)
(* every bound: what the loop promises of its ticks, when it gives up, and *)
(* how it stops.                                                           *)
(***************************************************************************)
EXTENDS Scheduler, NaturalLemmas, TLAPS

Busy == Running \cup {"succeeded", "failed"}

\* The loop heads for a tick after the start, and works on one that has passed.
ClockInv ==
  pc \in Awake =>
    /\ \A j \in Jobs : next[j] \in Ticks[j] \cup {Never} /\ since < next[j]
    /\ pc \in Busy \cup {"start"} => next[Due] <= now

\* failures counts the failed jobs at the end of outcomes.
CountInv ==
  /\ failures <= Len(outcomes)
  /\ \A i \in DOMAIN outcomes : i > Len(outcomes) - failures => ~outcomes[i]
  /\ failures < Len(outcomes) => outcomes[Len(outcomes) - failures]
  /\ pc \in Awake => failures < MaxFailures
  /\ pc \in {"stopping", "disposing"} => shutdown \/ failures = MaxFailures

\* The server listens until the loop has ended, and only then are engines dropped.
StopInv ==
  /\ server <=> pc \notin {"down", "disposing"}
  /\ scrape => server
  /\ pc = "down" => ~engines

\* A job works through its databases: those still to come and those reached are all of them.
ReachInv ==
  /\ pc \in {"backup", "observe"} => Due = "backup"
  /\ pc \in {"plan", "apply"} => Due = "retention"
  /\ pc = "backup" => wanted \subseteq reached \cup Elements(todo)
  /\ pc = "observe" => wanted \subseteq reached
  /\ pc = "plan" => todo = cfg
  /\ pc = "apply" => Elements(cfg) \subseteq reached
  /\ SuccessReachesAll

IInv == TypeOK /\ ClockInv /\ EachTickOnce /\ TicksInOrder /\ CountInv /\ StopInv /\ ReachInv
-----------------------------------------------------------------------------
(* The operators *)

\* NextTick is the first tick after t, or Never.
LEMMA NextTickIsNext ==
  ASSUME NEW S \in SUBSET (1 .. Horizon), NEW t \in 0 .. Horizon
  PROVE  /\ NextTick(S, t) \in S \cup {Never} /\ NextTick(S, t) \in 1 .. Never
         /\ t < NextTick(S, t)
         /\ \A u \in S : u > t => NextTick(S, t) <= u
  <1> USE SchedulerAssumption DEF Never
  <1>1. CASE \E u \in S : u > t
    <2> DEFINE Later == {u \in S : u > t}
    <2>1. Later \in SUBSET Nat /\ Later # {}
      <3>1. \A u \in S : u \in Nat
        OBVIOUS
      <3> QED BY <1>1, <3>1
    <2>2. PICK n \in Later : \A v \in Later : n <= v
      <3> HIDE DEF Later
      <3> QED BY <2>1, SmallestExists
    <2>3. \E u \in S : u > t /\ \A v \in S : v > t => u <= v
      BY <2>2
    <2>4. NextTick(S, t) \in S /\ NextTick(S, t) > t /\ \A v \in S : v > t => NextTick(S, t) <= v
      BY <1>1, <2>3, Zenon DEF NextTick
    <2>5. \A u \in S : u \in 1 .. Never
      OBVIOUS
    <2> QED BY <2>4, <2>5, Zenon
  <1>2. CASE ~\E u \in S : u > t
    <2>1. NextTick(S, t) = Never
      BY <1>2, Zenon DEF NextTick
    <2>2. Never \in 1 .. Never /\ t < Never
      OBVIOUS
    <2>3. \A u \in S : ~(u > t)
      BY <1>2
    <2> QED BY <2>1, <2>2, <2>3, Zenon
  <1> QED BY <1>1, <1>2

\* The ticks of a job are times within the horizon.
LEMMA TicksType == \A j \in Jobs : Ticks[j] \in SUBSET (1 .. Horizon)
  <1>1. Ticks["backup"] = BackupTicks /\ Ticks["retention"] = RetentionTicks
    BY DEF Ticks
  <1> QED BY <1>1, SchedulerAssumption DEF Jobs

\* Due names the job whose tick comes first.
LEMMA DueIsFirst ==
  ASSUME TypeOK
  PROVE  Due \in Jobs /\ \A j \in Jobs : next[Due] <= next[j]
  BY SchedulerAssumption DEF TypeOK, Due, Jobs, Never

\* A registry lists databases.
LEMMA RegistryType == \A s \in Registries : s \in Seq(Db) /\ Elements(s) \subseteq Db
  BY SchedulerAssumption DEF Elements
-----------------------------------------------------------------------------
(* Types *)

\* TypeOK, one variable at a time.
LEMMA Types ==
  TypeOK <=> /\ now \in 0 .. Horizon /\ registry \in Registries /\ cfg \in Registries
             /\ next \in [Jobs -> 1 .. Never] /\ pc \in PCs /\ todo \in Seq(Db)
             /\ failures \in 0 .. MaxFailures
             /\ shutdown \in BOOLEAN /\ server \in BOOLEAN
             /\ scrape \in BOOLEAN /\ engines \in BOOLEAN
             /\ since \in 0 .. Horizon /\ ran \in [Jobs -> SUBSET (1 .. Horizon)]
             /\ outcomes \in Seq(BOOLEAN) /\ wanted \subseteq Db /\ reached \subseteq Db
  BY DEF TypeOK

\* A job only starts at a time within the horizon.
LEMMA StartedTick == TypeOK /\ ClockInv /\ pc = "start" => next[Due] \in 1 .. Horizon
  BY Types, DueIsFirst, SchedulerAssumption DEF ClockInv, Awake, Never

\* The next tick of the job that ran.
LEMMA AdvanceType ==
  ASSUME TypeOK, ClockInv, pc \in Busy
  PROVE  /\ Advance(next) \in [Jobs -> 1 .. Never]
         /\ Advance(next) = [next EXCEPT ![Due] = NextTick(Ticks[Due], next[Due])]
         /\ NextTick(Ticks[Due], next[Due]) \in Ticks[Due] \cup {Never}
         /\ next[Due] < NextTick(Ticks[Due], next[Due])
         /\ \A u \in Ticks[Due] : u > next[Due] => NextTick(Ticks[Due], next[Due]) <= u
  <1>1. next[Due] \in 0 .. Horizon /\ Due \in Jobs
    BY Types, DueIsFirst, SchedulerAssumption DEF ClockInv, Awake, Busy, Never
  <1> DEFINE n == NextTick(Ticks[Due], next[Due])
  <1>2. /\ n \in Ticks[Due] \cup {Never} /\ n \in 1 .. Never /\ next[Due] < n
        /\ \A u \in Ticks[Due] : u > next[Due] => n <= u
    BY <1>1, TicksType, NextTickIsNext
  <1>3. Advance(next) = [next EXCEPT ![Due] = n]
    BY DEF Advance
  <1> HIDE DEF n
  <1>4. Advance(next) \in [Jobs -> 1 .. Never]
    BY <1>1, <1>2, <1>3, Types
  <1> USE DEF n
  <1> QED BY <1>2, <1>3, <1>4

\* Every step keeps the types.
LEMMA TypeStep == IInv /\ [Next]_vars => TypeOK'
  <1> SUFFICES ASSUME IInv, [Next]_vars PROVE TypeOK'
    OBVIOUS
  <1>1. /\ now \in 0 .. Horizon /\ registry \in Registries /\ cfg \in Registries
        /\ next \in [Jobs -> 1 .. Never] /\ pc \in PCs /\ todo \in Seq(Db)
        /\ failures \in 0 .. MaxFailures
        /\ shutdown \in BOOLEAN /\ server \in BOOLEAN
        /\ scrape \in BOOLEAN /\ engines \in BOOLEAN
        /\ since \in 0 .. Horizon /\ ran \in [Jobs -> SUBSET (1 .. Horizon)]
        /\ outcomes \in Seq(BOOLEAN) /\ wanted \subseteq Db /\ reached \subseteq Db
    BY Types DEF IInv
  <1>2. TypeOK /\ ClockInv /\ CountInv
    BY DEF IInv
  <1> USE DEF clocks, threads, history, PCs, Awake, Running
  <1>3. CASE Start
    <2>1. next' \in [Jobs -> 1 .. Never]
      BY <1>1, <1>3, TicksType, NextTickIsNext DEF Start
    <2>2. failures' \in 0 .. MaxFailures /\ todo' \in Seq(Db) /\ outcomes' \in Seq(BOOLEAN)
      BY <1>3, SchedulerAssumption DEF Start
    <2> QED BY <1>1, <1>3, <2>1, <2>2 DEF Start, TypeOK
  <1>4. CASE Loop
    BY <1>1, <1>4 DEF Loop, TypeOK
  <1>5. CASE Wake
    BY <1>1, <1>5 DEF Wake, TypeOK
  <1>6. CASE StartJob
    <2>1. wanted' \subseteq Db /\ reached' \subseteq Db /\ todo' \in Seq(Db)
      BY <1>1, <1>6, RegistryType DEF StartJob
    <2>2. ran' \in [Jobs -> SUBSET (1 .. Horizon)]
      <3>1. next[Due] \in 1 .. Horizon
        BY <1>2, <1>6, StartedTick DEF StartJob
      <3> QED BY <1>1, <1>6, <3>1 DEF StartJob
    <2>3. pc' \in PCs
      BY <1>6 DEF StartJob
    <2> QED BY <1>1, <1>6, <2>1, <2>2, <2>3 DEF StartJob, TypeOK
  <1>7. CASE BackupOne
    <2>1. todo # <<>> => Head(todo) \in Db /\ Tail(todo) \in Seq(Db)
      BY <1>1
    <2>2. todo' \in Seq(Db) /\ reached' \subseteq Db /\ pc' \in PCs
      BY <1>1, <1>7, <2>1 DEF BackupOne
    <2> QED BY <1>1, <1>7, <2>2 DEF BackupOne, TypeOK
  <1>8. CASE Observe
    BY <1>1, <1>8 DEF Observe, TypeOK
  <1>9. CASE PlanRetention
    <2>1. Elements(todo) \subseteq Db
      BY <1>1 DEF Elements
    <2> QED BY <1>1, <1>9, <2>1 DEF PlanRetention, TypeOK
  <1>10. CASE ApplyOne
    <2>1. todo # <<>> => Tail(todo) \in Seq(Db)
      BY <1>1
    <2>2. todo' \in Seq(Db) /\ pc' \in PCs
      BY <1>1, <1>10, <2>1 DEF ApplyOne
    <2> QED BY <1>1, <1>10, <2>2 DEF ApplyOne, TypeOK
  <1>11. CASE Succeed
    <2>1. next' \in [Jobs -> 1 .. Never]
      BY <1>2, <1>11, AdvanceType DEF Succeed, Busy
    <2>2. failures' \in 0 .. MaxFailures /\ outcomes' \in Seq(BOOLEAN)
      BY <1>1, <1>11, SchedulerAssumption DEF Succeed
    <2> QED BY <1>1, <1>11, <2>1, <2>2 DEF Succeed, TypeOK
  <1>12. CASE Fail
    <2>1. next' \in [Jobs -> 1 .. Never]
      BY <1>1, <1>2, <1>12, AdvanceType DEF Fail, Busy
    <2>2. failures' \in 0 .. MaxFailures /\ outcomes' \in Seq(BOOLEAN)
      BY <1>1, <1>2, <1>12, SchedulerAssumption DEF Fail, CountInv
    <2>3. pc' \in PCs
      BY <1>12 DEF Fail
    <2> QED BY <1>1, <1>12, <2>1, <2>2, <2>3 DEF Fail, TypeOK
  <1>13. CASE CloseServer \/ Dispose
    BY <1>1, <1>13 DEF CloseServer, Dispose, TypeOK
  <1>14. CASE BeginScrape \/ EndScrape
    BY <1>1, <1>14 DEF BeginScrape, EndScrape, TypeOK
  <1>15. CASE Signal \/ Crash
    BY <1>1, <1>15 DEF Signal, Crash, TypeOK
  <1>16. CASE Register \/ Tick
    <2>1. registry' \in Registries /\ now' \in 0 .. Horizon
      BY <1>1, <1>16, SchedulerAssumption DEF Register, Tick
    <2> QED BY <1>1, <1>16, <2>1 DEF Register, Tick, TypeOK
  <1>17. CASE UNCHANGED vars
    BY <1>1, <1>17 DEF vars, TypeOK
  <1> QED BY <1>3, <1>4, <1>5, <1>6, <1>7, <1>8, <1>9, <1>10, <1>11, <1>12, <1>13, <1>14,
             <1>15, <1>16, <1>17 DEF Next, Main
-----------------------------------------------------------------------------
(* Ticks *)

TickInv == ClockInv /\ EachTickOnce /\ TicksInOrder

\* A step that starts no job and ends none keeps what is known of ticks.
LEMMA SameTicks ==
  ASSUME TypeOK, TypeOK', TickInv, UNCHANGED <<next, since, ran>>, now <= now',
         pc' \in Awake => pc \in Awake /\ (pc \in Busy <=> pc' \in Busy),
         pc' = "start" => pc = "start" \/ next[Due] <= now
  PROVE  TickInv'
  <1>1. Due' = Due
    BY DEF Due
  <1>2. ClockInv'
    <2>1. next[Due] \in Nat /\ now \in Nat /\ now' \in Nat
      <3>1. now \in 0 .. Horizon /\ next[Due] \in 1 .. Never
        BY DueIsFirst, Types
      <3>2. now' \in 0 .. Horizon
        BY DEF TypeOK
      <3> QED BY <3>1, <3>2, SchedulerAssumption DEF Never
    <2>2. pc' \in Busy \cup {"start"} => next[Due] <= now
      BY DEF TickInv, ClockInv, Awake, Busy
    <2> QED BY <1>1, <2>1, <2>2 DEF TickInv, ClockInv
  <1>3. EachTickOnce' /\ TicksInOrder'
    <2>1. pc' \in Awake => \A j \in Jobs : Started(j)' <=> Started(j)
      BY <1>1 DEF Started, Busy
    <2> QED BY <1>1, <2>1 DEF TickInv, EachTickOnce, TicksInOrder
  <1> QED BY <1>2, <1>3 DEF TickInv

\* The start of the scheduler.
LEMMA StartTicks == TypeOK /\ Start => TickInv'
  <1> SUFFICES ASSUME TypeOK, Start PROVE TickInv'
    OBVIOUS
  <1>1. now \in 0 .. Horizon
    BY Types
  <1>2. /\ next' = [j \in Jobs |-> NextTick(Ticks[j], now)]
        /\ since' = now /\ ran' = [j \in Jobs |-> {}] /\ pc' = "loop"
    BY DEF Start
  <1>3. \A j \in Jobs : /\ next'[j] \in Ticks[j] \cup {Never} /\ now < next'[j]
                        /\ \A u \in Ticks[j] : u > now => next'[j] <= u
    BY <1>1, <1>2, TicksType, NextTickIsNext
  <1>4. \A j \in Jobs : \A u \in Ticks[j] : ~(now < u /\ u < next'[j])
    <2>1. \A j \in Jobs : \A u \in Ticks[j] : u \in Nat
      BY TicksType
    <2>2. \A j \in Jobs : next'[j] \in Nat
      BY <1>3, <2>1, SchedulerAssumption DEF Never
    <2> QED BY <1>1, <1>3, <2>1, <2>2
  <1> QED BY <1>2, <1>3, <1>4 DEF TickInv, ClockInv, EachTickOnce, TicksInOrder, Started, Running,
                                  Busy

\* The start of a job.
LEMMA StartJobTicks == TypeOK /\ TickInv /\ StartJob => TickInv'
  <1> SUFFICES ASSUME TypeOK, TickInv, StartJob PROVE TickInv'
    OBVIOUS
  <1>1. /\ pc = "start" /\ pc' \in Busy /\ UNCHANGED <<now, next, since>>
        /\ ran' = [ran EXCEPT ![Due] = @ \cup {next[Due]}] /\ Due' = Due
    BY DEF StartJob, Busy, Running, Due, clocks
  <1>2. /\ \A j \in Jobs : next[j] \in Ticks[j] \cup {Never} /\ since < next[j]
        /\ next[Due] <= now
        /\ \A j \in Jobs : ran[j] = {t \in Ticks[j] : since < t /\ t < next[j]}
    BY <1>1 DEF TickInv, ClockInv, EachTickOnce, Started, Awake, Running
  <1>3. Due \in Jobs /\ next[Due] \in Ticks[Due] /\ \A j \in Jobs : next[Due] <= next[j]
    <2>1. next[Due] \in 1 .. Horizon
      BY <1>1, StartedTick DEF TickInv
    <2> QED BY <1>2, <2>1, DueIsFirst, SchedulerAssumption DEF Never
  <1>4. ClockInv'
    BY <1>1, <1>2 DEF ClockInv
  <1>5. EachTickOnce'
    <2>1. \A j \in Jobs : Started(j)' <=> j = Due
      BY <1>1 DEF Started, Busy
    <2>2. \A j \in Jobs : ran'[j] = ran[j] \cup {t \in {next[j]} : j = Due}
      BY <1>1, <1>3, Types
    <2>3. \A j \in Jobs :
            ran'[j] = {t \in Ticks[j] : since < t /\ (t < next[j] \/ (t = next[j] /\ j = Due))}
      BY <1>2, <1>3, <2>2
    <2> QED BY <1>1, <2>1, <2>3 DEF EachTickOnce
  <1>6. TicksInOrder'
    <2>1. \A j \in Jobs : \A t \in ran'[j] : t \in ran[j] \/ t = next[Due]
      BY <1>1, <1>3, Types
    <2> QED BY <1>1, <1>3, <2>1 DEF TickInv, TicksInOrder, Awake
  <1> QED BY <1>4, <1>5, <1>6 DEF TickInv

\* The end of a job, after which the loop heads for the next tick.
LEMMA AdvanceTicks ==
  ASSUME TypeOK, TypeOK', TickInv, pc \in Busy, pc' = "loop", next' = Advance(next),
         UNCHANGED <<now, since, ran>>
  PROVE  TickInv'
  <1> DEFINE n == NextTick(Ticks[Due], next[Due])
  <1>1. /\ next' = [next EXCEPT ![Due] = n] /\ n \in Ticks[Due] \cup {Never} /\ next[Due] < n
        /\ \A u \in Ticks[Due] : u > next[Due] => n <= u
    BY AdvanceType DEF TickInv
  <1> HIDE DEF n
  <1>2. Due \in Jobs /\ \A j \in Jobs : next[j] \in Nat /\ next'[j] \in Nat
    <2>1. \A j \in Jobs : next[j] \in 1 .. Never /\ next'[j] \in 1 .. Never
      BY DEF TypeOK
    <2> QED BY <2>1, DueIsFirst, SchedulerAssumption DEF Never
  <1>3. pc \in Awake
    BY DEF Busy, Awake
  <1>4. \A j \in Jobs : next[j] \in Ticks[j] \cup {Never} /\ since < next[j] /\ since \in Nat
    BY <1>3, Types DEF TickInv, ClockInv
  <1>5. \A j \in Jobs : j # Due => next'[j] = next[j]
    BY <1>1, Types
  <1>6. next'[Due] = n
    BY <1>1, <1>2, Types
  <1>7. ClockInv'
    <2>1. \A j \in Jobs : next'[j] \in Ticks[j] \cup {Never} /\ since < next'[j]
      BY <1>1, <1>2, <1>4, <1>5, <1>6
    <2> QED BY <2>1 DEF ClockInv, Busy, Running
  <1>8. EachTickOnce'
    <2>1. \A j \in Jobs : ~Started(j)'
      BY DEF Started, Running
    <2>2. \A j \in Jobs : Started(j) <=> j = Due
      BY DEF Started, Busy
    <2>3. \A j \in Jobs : ran[j] = {t \in Ticks[j] : since < t /\ t < next'[j]}
      <3> SUFFICES ASSUME NEW j \in Jobs
                   PROVE  ran[j] = {t \in Ticks[j] : since < t /\ t < next'[j]}
        OBVIOUS
      <3>1. ran[j] = {t \in Ticks[j] : since < t /\ (t < next[j] \/ (t = next[j] /\ j = Due))}
        BY <1>3, <2>2 DEF TickInv, EachTickOnce
      <3>2. CASE j = Due
        <4>1. \A t \in Ticks[Due] : t \in Nat /\ (t < n <=> t <= next[Due])
          BY <1>1, <1>2, <1>6, TicksType
        <4> QED BY <1>2, <1>6, <3>1, <3>2, <4>1
      <3>3. CASE j # Due
        BY <1>5, <3>1, <3>3
      <3> QED BY <3>2, <3>3
    <2> QED BY <2>1, <2>3 DEF EachTickOnce
  <1>9. TicksInOrder'
    <2>1. \A k \in Jobs : next[k] <= next'[k]
      BY <1>1, <1>2, <1>5, <1>6
    <2>2. \A j \in Jobs : \A t \in ran[j] : t \in Nat
      BY Types
    <2> QED BY <1>2, <1>3, <2>1, <2>2 DEF TickInv, TicksInOrder
  <1> QED BY <1>7, <1>8, <1>9 DEF TickInv

\* Every step keeps what is known of ticks.
LEMMA TickStep == IInv /\ [Next]_vars => TickInv'
  <1> SUFFICES ASSUME IInv, [Next]_vars PROVE TickInv'
    OBVIOUS
  <1>1. TypeOK /\ TypeOK' /\ TickInv
    BY TypeStep DEF IInv, TickInv
  <1>2. CASE Start
    BY <1>1, <1>2, StartTicks
  <1>3. CASE StartJob
    BY <1>1, <1>3, StartJobTicks
  <1>4. CASE Succeed \/ (Fail /\ pc' = "loop")
    <2>1. /\ pc \in Busy /\ pc' = "loop" /\ next' = Advance(next)
          /\ UNCHANGED <<now, since, ran>>
      BY <1>4 DEF Succeed, Fail, Busy, clocks
    <2> QED BY <1>1, <2>1, AdvanceTicks
  <1>5. CASE \/ Loop \/ Wake \/ BackupOne \/ Observe \/ PlanRetention \/ ApplyOne
             \/ (Fail /\ pc' # "loop") \/ CloseServer \/ Dispose
             \/ BeginScrape \/ EndScrape \/ Signal \/ Crash \/ Register \/ Tick \/ UNCHANGED vars
    <2>1. UNCHANGED <<next, since, ran>>
      BY <1>5 DEF Loop, Wake, BackupOne, Observe, PlanRetention, ApplyOne, Fail, CloseServer,
                  Dispose, BeginScrape, EndScrape, Signal, Crash, Register, Tick, vars, history
    <2>2. now <= now'
      <3>1. now' = now \/ now' = now + 1
        BY <1>5 DEF Loop, Wake, BackupOne, Observe, PlanRetention, ApplyOne, Fail, CloseServer,
                    Dispose, BeginScrape, EndScrape, Signal, Crash, Register, Tick, vars, clocks
      <3> QED BY <1>1, <3>1, Types
    <2>3. pc' \in Awake => pc \in Awake /\ (pc \in Busy <=> pc' \in Busy)
      BY <1>5 DEF Loop, Wake, BackupOne, Observe, PlanRetention, ApplyOne, Fail, CloseServer,
                  Dispose, BeginScrape, EndScrape, Signal, Crash, Register, Tick, vars,
                  Awake, Busy, Running
    <2>4. pc' = "start" => pc = "start" \/ next[Due] <= now
      <3>1. CASE Wake
        <4>1. now \in Nat /\ next[Due] \in Nat
          BY <1>1, DueIsFirst, Types, SchedulerAssumption DEF Never
        <4> QED BY <3>1, <4>1, <1>1, Types DEF Wake
      <3>2. CASE ~Wake
        BY <1>5, <3>2 DEF Loop, BackupOne, Observe, PlanRetention, ApplyOne, Fail, CloseServer,
                  Dispose, BeginScrape, EndScrape, Signal, Crash, Register, Tick, vars
      <3> QED BY <3>1, <3>2
    <2> QED BY <1>1, <2>1, <2>2, <2>3, <2>4, SameTicks
  <1> QED BY <1>2, <1>3, <1>4, <1>5 DEF Next, Main
-----------------------------------------------------------------------------
(* Failures and shutdown *)

\* Every step keeps the count of failures right.
LEMMA CountStep == IInv /\ [Next]_vars => CountInv'
  <1> SUFFICES ASSUME IInv, [Next]_vars PROVE CountInv'
    OBVIOUS
  <1>1. /\ CountInv /\ TypeOK' /\ outcomes \in Seq(BOOLEAN) /\ failures \in 0 .. MaxFailures
        /\ MaxFailures \in Nat \ {0}
    BY TypeStep, Types, SchedulerAssumption DEF IInv
  <1>2. CASE Start
    BY <1>1, <1>2 DEF Start, CountInv, Awake
  <1>3. CASE Succeed
    <2>1. /\ pc' = "loop" /\ failures' = 0 /\ outcomes' = Append(outcomes, TRUE)
      BY <1>3 DEF Succeed
    <2>2. /\ Len(outcomes') = Len(outcomes) + 1 /\ outcomes'[Len(outcomes) + 1]
          /\ DOMAIN outcomes' = 1 .. Len(outcomes')
      BY <1>1, <2>1
    <2> QED BY <1>1, <2>1, <2>2 DEF CountInv
  <1>4. CASE Fail
    <2>1. /\ pc = "failed" /\ failures' = failures + 1 /\ outcomes' = Append(outcomes, FALSE)
          /\ IF failures' >= MaxFailures THEN pc' = "stopping" ELSE pc' = "loop"
      BY <1>4 DEF Fail
    <2>2. /\ Len(outcomes') = Len(outcomes) + 1 /\ ~outcomes'[Len(outcomes) + 1]
          /\ DOMAIN outcomes' = 1 .. Len(outcomes')
          /\ \A i \in 1 .. Len(outcomes) : outcomes'[i] = outcomes[i]
      BY <1>1, <2>1
    <2>3. /\ failures' <= Len(outcomes')
          /\ \A i \in DOMAIN outcomes' : i > Len(outcomes') - failures' => ~outcomes'[i]
      BY <1>1, <2>1, <2>2 DEF CountInv
    <2>4. failures' < Len(outcomes') => outcomes'[Len(outcomes') - failures']
      <3>1. Len(outcomes') - failures' = Len(outcomes) - failures
        BY <1>1, <2>1, <2>2
      <3> QED BY <1>1, <2>1, <2>2, <3>1 DEF CountInv
    <2>5. failures < MaxFailures
      BY <1>1, <2>1 DEF CountInv, Awake
    <2> QED BY <1>1, <2>1, <2>3, <2>4, <2>5 DEF CountInv, Awake, Running
  <1>5. CASE \/ Loop \/ Wake \/ StartJob \/ BackupOne \/ Observe \/ PlanRetention \/ ApplyOne
             \/ CloseServer \/ Dispose \/ BeginScrape \/ EndScrape \/ Signal \/ Crash
             \/ Register \/ Tick \/ UNCHANGED vars
    <2>1. UNCHANGED <<failures, outcomes>>
      BY <1>5 DEF Loop, Wake, StartJob, BackupOne, Observe, PlanRetention, ApplyOne, CloseServer,
                  Dispose, BeginScrape, EndScrape, Signal, Crash, Register, Tick, vars, history
    <2>2. shutdown => shutdown'
      BY <1>5 DEF Loop, Wake, StartJob, BackupOne, Observe, PlanRetention, ApplyOne, CloseServer,
                  Dispose, BeginScrape, EndScrape, Signal, Crash, Register, Tick, vars
    <2>3. /\ pc' \in Awake => pc \in Awake
          /\ pc' \in {"stopping", "disposing"} => pc \in {"stopping", "disposing"} \/ shutdown
      BY <1>5 DEF Loop, Wake, StartJob, BackupOne, Observe, PlanRetention, ApplyOne, CloseServer,
                  Dispose, BeginScrape, EndScrape, Signal, Crash, Register, Tick, vars,
                  Awake, Running
    <2> QED BY <1>1, <2>1, <2>2, <2>3 DEF CountInv
  <1> QED BY <1>2, <1>3, <1>4, <1>5 DEF Next, Main

\* Every step keeps the order of a shutdown.
LEMMA StopStep == StopInv /\ [Next]_vars => StopInv'
  <1> SUFFICES ASSUME StopInv, [Next]_vars PROVE StopInv'
    OBVIOUS
  <1> USE DEF StopInv, threads
  <1>1. CASE Start
    BY <1>1 DEF Start
  <1>2. CASE Loop \/ Wake \/ Succeed \/ Fail
    BY <1>2 DEF Loop, Wake, Succeed, Fail
  <1>3. CASE StartJob \/ BackupOne \/ PlanRetention \/ ApplyOne
    BY <1>3 DEF StartJob, BackupOne, PlanRetention, ApplyOne
  <1>4. CASE Observe
    BY <1>4 DEF Observe
  <1>5. CASE CloseServer \/ Dispose
    BY <1>5 DEF CloseServer, Dispose
  <1>6. CASE BeginScrape \/ EndScrape
    BY <1>6 DEF BeginScrape, EndScrape
  <1>7. CASE Signal \/ Crash \/ Register \/ Tick \/ UNCHANGED vars
    BY <1>7 DEF Signal, Crash, Register, Tick, vars
  <1> QED BY <1>1, <1>2, <1>3, <1>4, <1>5, <1>6, <1>7 DEF Next, Main
-----------------------------------------------------------------------------
(* The databases of a job *)

\* What is left of a list is its first element and its tail.
LEMMA HeadAndTail ==
  ASSUME NEW s \in Seq(Db), s # <<>>
  PROVE  Elements(s) \subseteq {Head(s)} \cup Elements(Tail(s))
  <1> SUFFICES ASSUME NEW i \in DOMAIN s, s[i] # s[1] PROVE s[i] \in Elements(Tail(s))
    BY DEF Elements
  <1>1. i \in 2 .. Len(s) /\ i - 1 \in DOMAIN Tail(s) /\ Tail(s)[i - 1] = s[i]
    OBVIOUS
  <1> QED BY <1>1 DEF Elements

\* Every step keeps what is known of the databases of a job.
LEMMA ReachStep == TypeOK /\ ReachInv /\ [Next]_vars => ReachInv'
  <1> SUFFICES ASSUME TypeOK, ReachInv, [Next]_vars PROVE ReachInv'
    OBVIOUS
  <1> USE DEF ReachInv, SuccessReachesAll
  <1>1. next' = next => Due' = Due
    BY DEF Due
  <1>2. CASE Start \/ Succeed \/ Fail \/ Loop \/ Wake
    BY <1>2 DEF Start, Succeed, Fail, Loop, Wake
  <1>3. CASE StartJob
    <2>1. pc' \in {"backup", "failed", "plan"} /\ Due' = Due
      BY <1>1, <1>3 DEF StartJob
    <2>2. CASE Due = "backup"
      BY <1>3, <2>1, <2>2 DEF StartJob, clocks
    <2>3. CASE Due # "backup"
      <3>1. Due = "retention" /\ pc' = "plan" /\ todo' = cfg /\ cfg' = cfg
        BY <1>3, <2>3 DEF StartJob, Due
      <3> QED BY <2>1, <3>1
    <2> QED BY <2>2, <2>3
  <1>4. CASE BackupOne
    <2>1. Due' = Due /\ Due = "backup" /\ wanted' = wanted /\ pc' \in {"backup", "failed", "observe"}
      BY <1>1, <1>4 DEF BackupOne
    <2>2. CASE todo = <<>>
      BY <1>4, <2>1, <2>2 DEF BackupOne, Elements
    <2>3. CASE todo # <<>>
      <3>1. Elements(todo) \subseteq {Head(todo)} \cup Elements(Tail(todo))
        BY <2>3, Types, HeadAndTail
      <3>2. /\ reached' = reached \cup {Head(todo)} /\ wanted \subseteq reached \cup Elements(todo)
            /\ pc' # "observe" /\ (pc' = "backup" => todo' = Tail(todo))
        BY <1>4, <2>3 DEF BackupOne
      <3>3. pc' = "backup" => wanted' \subseteq reached' \cup Elements(todo')
        BY <2>1, <3>1, <3>2
      <3> QED BY <2>1, <3>2, <3>3 DEF Elements
    <2> QED BY <2>2, <2>3
  <1>5. CASE Observe \/ PlanRetention \/ ApplyOne
    <2>1. Due' = Due /\ UNCHANGED <<cfg, wanted>>
      BY <1>1, <1>5 DEF Observe, PlanRetention, ApplyOne, history
    <2> QED BY <1>5, <2>1 DEF Observe, PlanRetention, ApplyOne, history
  <1>6. CASE CloseServer \/ Dispose \/ Crash
    BY <1>6 DEF CloseServer, Dispose, Crash
  <1>7. CASE BeginScrape \/ EndScrape \/ Signal \/ Register \/ Tick \/ UNCHANGED vars
    <2>1. UNCHANGED <<pc, next, todo, cfg, wanted, reached>>
      BY <1>7 DEF BeginScrape, EndScrape, Signal, Register, Tick, vars, history
    <2>2. Elements(todo)' = Elements(todo) /\ Elements(cfg)' = Elements(cfg)
      BY <2>1
    <2> QED BY <1>1, <2>1, <2>2
  <1> QED BY <1>2, <1>3, <1>4, <1>5, <1>6, <1>7 DEF Next, Main
-----------------------------------------------------------------------------
\* The invariant holds at the start.
LEMMA InitIInv == Init => IInv
  <1> SUFFICES ASSUME Init PROVE IInv
    OBVIOUS
  <1>1. TypeOK
    <2>1. Never \in 1 .. Never /\ 0 \in 0 .. Horizon /\ 0 \in 0 .. MaxFailures
      BY SchedulerAssumption DEF Never
    <2>2. <<>> \in Seq(Db) /\ <<>> \in Seq(BOOLEAN)
      OBVIOUS
    <2> QED BY <2>1, <2>2 DEF Init, TypeOK, PCs
  <1>2. pc = "down" /\ failures = 0 /\ outcomes = <<>> /\ MaxFailures > 0
    BY SchedulerAssumption DEF Init
  <1>3. ClockInv /\ EachTickOnce /\ TicksInOrder
    BY <1>2 DEF ClockInv, EachTickOnce, TicksInOrder, Awake, Running
  <1>4. CountInv
    BY <1>2 DEF CountInv, Awake, Running
  <1>5. StopInv
    BY DEF Init, StopInv
  <1>6. ReachInv
    BY <1>2 DEF ReachInv, SuccessReachesAll
  <1> QED BY <1>1, <1>3, <1>4, <1>5, <1>6 DEF IInv

\* The invariant holds throughout every behaviour.
LEMMA Invariant == Spec => []IInv
  <1>1. IInv /\ [Next]_vars => IInv'
    BY TypeStep, TickStep, CountStep, StopStep, ReachStep DEF IInv, TickInv
  <1> QED BY <1>1, InitIInv, PTL DEF Spec

\* Every variable keeps its type, for all schedules, registries and bounds.
THEOREM TypeCorrect == Spec => []TypeOK
  <1>1. IInv => TypeOK
    BY DEF IInv
  <1> QED BY <1>1, Invariant, PTL

\* Whatever the jobs do and however long they take, the scheduler has started a
\* job for each tick since its own start up to the next one, and for no other time.
THEOREM TicksServedOnce == Spec => []EachTickOnce
  <1>1. IInv => EachTickOnce
    BY DEF IInv
  <1> QED BY <1>1, Invariant, PTL

\* No job has run while an earlier tick of the other schedule was waiting.
THEOREM TicksServedInOrder == Spec => []TicksInOrder
  <1>1. IInv => TicksInOrder
    BY DEF IInv
  <1> QED BY <1>1, Invariant, PTL

\* The scheduler gives up exactly when its last MaxFailures jobs have failed.
THEOREM GivesUpOnTime == Spec => []GivesUpRightly
  <1>1. IInv => GivesUpRightly
    <2> SUFFICES ASSUME IInv PROVE GivesUpRightly
      OBVIOUS
    <2>1. /\ CountInv /\ Len(outcomes) \in Nat /\ DOMAIN outcomes = 1 .. Len(outcomes)
          /\ failures \in Nat /\ MaxFailures \in Nat
      BY Types, SchedulerAssumption DEF IInv
    <2>2. failures = MaxFailures => AllFailed
      BY <2>1 DEF CountInv, AllFailed
    <2>3. failures < MaxFailures => ~AllFailed
      <3> SUFFICES ASSUME failures < MaxFailures, AllFailed PROVE FALSE
        OBVIOUS
      <3>1. /\ Len(outcomes) - failures \in DOMAIN outcomes
            /\ Len(outcomes) - failures > Len(outcomes) - MaxFailures
        BY <2>1 DEF AllFailed
      <3> QED BY <2>1, <3>1 DEF CountInv, AllFailed
    <2> QED BY <2>1, <2>2, <2>3 DEF CountInv, GivesUpRightly
  <1> QED BY <1>1, Invariant, PTL

\* The metrics server listens as long as there may be jobs; once the command has
\* returned, no request is being served and no engine is left open.
THEOREM StopsCleanly == Spec => []CleanStop
  <1>1. IInv => CleanStop
    BY DEF IInv, StopInv, CleanStop, Awake, Running
  <1> QED BY <1>1, Invariant, PTL

\* A job that succeeds has reached every database it is for, though another process
\* rewrites the registry while it runs.
THEOREM SuccessIsComplete == Spec => []SuccessReachesAll
  <1>1. IInv => SuccessReachesAll
    BY DEF IInv, ReachInv
  <1> QED BY <1>1, Invariant, PTL

\* After the signal at most the job whose check it missed still starts.
THEOREM SignalIsHeeded == Spec => NoJobAfterSignal
  <1>1. [Next]_vars => [shutdown /\ pc \notin {"down", "start"} => pc' # "start"]_vars
    <2> SUFFICES ASSUME Next, shutdown, pc \notin {"down", "start"} PROVE pc' # "start"
      BY Zenon
    <2> QED BY DEF Next, Main, Start, Loop, Wake, StartJob, BackupOne, Observe, PlanRetention,
                   ApplyOne, Succeed, Fail, CloseServer, Dispose, BeginScrape, EndScrape, Signal,
                   Crash, Register, Tick
  <1> QED BY <1>1, PTL DEF Spec, NoJobAfterSignal
=============================================================================
