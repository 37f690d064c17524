--------------------------- MODULE UnlockedProofs ---------------------------
(***************************************************************************)
(* Proofs about what the program shares without a lock: the engine cache   *)
(* of a process, for every set of URLs; the job log of a data directory,   *)
(* for any number of processes, jobs and full disks; the status files, as  *)
(* a scrape reads them while backups write them, for any databases; and    *)
(* the one thread that answers probes and scrapes alike, for every backlog *)
(* with room for two and every timeout and period.                         *)
(***************************************************************************)
EXTENDS MCServer, Sequences, TLAPS

-----------------------------------------------------------------------------
(* The engine cache *)

Made == {Engine(k, t) : k \in Key, t \in Thread}

\* What the variables are: functions, where TypeOK speaks of their values.
Types ==
  /\ engines \in [Key -> {None} \cup Made] /\ engine \in [Thread -> {None} \cup Made]
  /\ \A k \in Key : engines[k] # None => engines[k].key = k
  /\ open \subseteq Made /\ replaced \subseteq Made
  /\ pc \in [Thread -> {"idle", "look", "store", "use", "close"}] /\ key \in [Thread -> Key]
  /\ \A t \in Thread : engine[t] # None => engine[t].key = key[t]
  /\ phase \in {"work", "shutdown", "dispose", "exited"} /\ request \in BOOLEAN /\ left \subseteq Key

\* The threads rest once the cache is being disposed of.
Rest ==
  /\ phase # "work" => pc[Main] = "idle"
  /\ ~request => pc[Server] = "idle"
  /\ phase \in {"dispose", "exited"} => ~request

\* An engine that somebody uses, or that has connections, is in the cache or was replaced.
Known(e) == engines[e.key] = e \/ e \in replaced
AllKnown ==
  /\ \A e \in open : phase # "exited" => Known(e)
  /\ \A t \in Thread : IF pc[t] \in {"use", "close"} THEN engine[t] # None /\ Known(engine[t])
                                                     ELSE engine[t] = None

\* A thread about to store over another's engine is the only one that will, and no engine
\* of that key has been replaced so far.
OneRace ==
  /\ \A e \in replaced : phase # "exited" => engines[e.key] # None
  /\ \A t \in Thread : pc[t] = "store" /\ engines[key[t]] # None =>
       engines[key[t]].by # t /\ \A e \in replaced : e.key # key[t]

\* What dispose_engines has not come to yet.
ToDispose ==
  /\ phase = "dispose" => \A e \in open : e \in replaced \/ e.key \in left
  /\ phase = "exited" => open \subseteq replaced

IInv == Types /\ Rest /\ AllKnown /\ OneRace /\ OneReplaced /\ ToDispose

\* Engines differ by their key or by their thread, and none of them is None.
LEMMA EnginesDiffer ==
  /\ \A e \in Made : e \in [key : Key, by : Thread] /\ e # None
  /\ \A e, f \in Made : e.key = f.key /\ e.by = f.by => e = f
  /\ \A k, l \in Key : Spelled(k) /\ Spelled(l) /\ k[2] = l[2] => k = l
  <1>1. \A k \in Key : k = <<k[1], k[2]>> /\ k # <<>>
    BY EnginesAssumption DEF Key, DbUrl
  <1>2. \A k \in Key : Spelled(k) => k = <<"postgresql+psycopg", k[2]>>
    BY <1>1 DEF Key, DbUrl, Spelled
  <1> QED BY <1>1, <1>2 DEF Made, Engine, None

\* Nothing is cached and nobody runs at the start.
LEMMA InitIInv == Init => IInv
  <1> SUFFICES ASSUME Init PROVE IInv
    OBVIOUS
  <1>1. (CHOOSE k \in Key : TRUE) \in Key
    BY EnginesAssumption DEF Key
  <1>2. Types
    BY <1>1 DEF Init, Types
  <1> QED BY <1>1, <1>2 DEF Init, IInv, Rest, AllKnown, OneRace, OneReplaced, ToDispose, Known, Thread

\* A thread that looks finds the engine of its key, or none.
LEMMA LookStep ==
  ASSUME IInv, NEW t \in Thread, Look(t)
  PROVE  IInv'
  <1> USE DEF IInv, Types, Look, Goto, main, pools
  <1>1. Types'
    OBVIOUS
  <1>2. Rest'
    BY EnginesAssumption DEF Rest, Thread
  <1>3. AllKnown'
    BY DEF AllKnown, Known
  <1>4. OneRace'
    BY DEF OneRace
  <1>5. ToDispose' /\ OneReplaced'
    BY DEF ToDispose, OneReplaced
  <1> QED BY <1>1, <1>2, <1>3, <1>4, <1>5

\* A thread that stores puts its own engine over the one of the other, which nobody does
\* a second time for that key.
LEMMA StoreStep ==
  ASSUME IInv, NEW t \in Thread, Store(t)
  PROVE  IInv'
  <1> USE DEF IInv, Types, Store, Goto, main
  <1>0. PICK k \in Key, e \in Made, old \in {None} \cup Made :
          k = key[t] /\ e = Engine(k, t) /\ old = engines[k]
    BY DEF Made
  <1>1. /\ k \in Key /\ e \in Made /\ e # None /\ e.key = k /\ e.by = t
        /\ engine' = [engine EXCEPT ![t] = e] /\ engines' = [engines EXCEPT ![k] = e]
        /\ replaced' = replaced \cup ({old} \ {None}) /\ (old # None => old.key = k)
    BY <1>0, EnginesDiffer DEF Engine, Made
  <1>2. phase \in {"work", "shutdown"}
    BY EnginesAssumption DEF Rest, Thread
  <1>3. Types'
    BY <1>1
  <1>4. Rest'
    BY EnginesAssumption DEF Rest, Thread
  <1>5. AllKnown'
    <2>1. ASSUME NEW f \in Made, Known(f) PROVE Known(f)'
      BY <1>0, <1>1, <2>1, EnginesDiffer DEF Known
    <2>2. e \in Made /\ Known(e)'
      BY <1>1 DEF Known
    <2>3. \A f \in open' : Known(f)'
      BY <1>2, <2>1 DEF AllKnown
    <2>4. ASSUME NEW u \in Thread, pc'[u] \in {"use", "close"}
          PROVE  engine'[u] # None /\ Known(engine[u])'
      <3>1. CASE u = t
        BY <1>1, <2>2, <3>1 DEF Known
      <3>2. CASE u # t
        <4>1. engine'[u] = engine[u] /\ engine[u] \in Made /\ engine[u] # None /\ Known(engine[u])
          BY <1>1, <2>4, <3>2 DEF AllKnown
        <4>2. PICK f \in Made : f = engine[u]
          BY <4>1
        <4>3. Known(f)'
          BY <2>1, <4>1, <4>2
        <4> QED BY <4>1, <4>2, <4>3 DEF Known
      <3> QED BY <3>1, <3>2
    <2>5. \A u \in Thread : pc'[u] \notin {"use", "close"} => engine'[u] = None
      BY <1>1 DEF AllKnown
    <2> QED BY <2>3, <2>4, <2>5 DEF AllKnown
  <1>6. OneRace'
    <2>1. \A f \in replaced' : engines'[f.key] # None
      BY <1>1, <1>2 DEF OneRace
    <2>2. ASSUME NEW u \in Thread, pc'[u] = "store", engines'[key[u]] # None
          PROVE  engines'[key[u]].by # u /\ \A f \in replaced' : f.key # key[u]
      <3>1. u # t /\ pc[u] = "store"
        BY <2>2
      <3>2. CASE key[u] = k
        <4>1. old = None
          <5> SUFFICES ASSUME old # None PROVE FALSE
            OBVIOUS
          <5>1. old.by # t /\ old.by # u /\ old \in Made
            BY <1>0, <3>1, <3>2 DEF OneRace
          <5> QED BY <3>1, <5>1, EnginesDiffer DEF Thread
        <4>2. \A f \in replaced : f.key # k
          BY <1>0, <4>1, <1>2 DEF OneRace
        <4> QED BY <1>1, <3>1, <3>2, <4>1, <4>2
      <3>3. CASE key[u] # k
        BY <1>1, <2>2, <3>1, <3>3 DEF OneRace
      <3> QED BY <3>2, <3>3
    <2> QED BY <2>1, <2>2 DEF OneRace
  <1>7. OneReplaced'
    BY <1>1 DEF OneRace, OneReplaced
  <1>8. ToDispose'
    BY <1>2 DEF ToDispose
  <1> QED BY <1>3, <1>4, <1>5, <1>6, <1>7, <1>8

\* A connection is opened by the engine that was got.
LEMMA UseStep ==
  ASSUME IInv, NEW t \in Thread, Use(t)
  PROVE  IInv'
  <1> USE DEF IInv, Types, Use, Goto, main
  <1>1. engine[t] \in Made /\ Known(engine[t]) /\ phase \in {"work", "shutdown"}
    BY EnginesAssumption DEF AllKnown, Rest, Thread
  <1>2. Types'
    BY <1>1
  <1>3. Rest'
    BY EnginesAssumption DEF Rest, Thread
  <1>4. AllKnown'
    BY <1>1 DEF AllKnown, Known
  <1>5. OneRace'
    BY DEF OneRace
  <1>6. ToDispose' /\ OneReplaced'
    BY <1>1 DEF ToDispose, OneReplaced
  <1> QED BY <1>2, <1>3, <1>4, <1>5, <1>6

\* The other steps open no connection and store nothing.
LEMMA OtherSteps ==
  ASSUME IInv,
         \/ \E t \in Thread : Ask(t) \/ Refuse(t) \/ Close(t)
         \/ \E e \in open : Collect(e)
         \/ BeginRequest \/ EndRequest \/ Leave \/ Shutdown \/ Dispose
  PROVE  IInv'
  <1> USE DEF IInv, Types, Goto, main, pools
  <1>1. ASSUME NEW t \in Thread, Ask(t) PROVE IInv'
    <2>1. PICK u \in Url : key' = [key EXCEPT ![t] = DbUrl(u)]
      BY <1>1 DEF Ask
    <2>2. DbUrl(u) \in Key /\ phase \in {"work", "shutdown"} /\ engine[t] = None
      BY <1>1, EnginesAssumption DEF Ask, Key, Rest, AllKnown, Thread
    <2>3. Types'
      BY <1>1, <2>1, <2>2 DEF Ask
    <2>4. Rest' /\ ToDispose' /\ OneReplaced'
      BY <1>1, EnginesAssumption DEF Ask, Rest, ToDispose, OneReplaced, Thread
    <2>5. AllKnown' /\ OneRace'
      BY <1>1, <2>1 DEF Ask, AllKnown, OneRace, Known
    <2> QED BY <2>3, <2>4, <2>5
  <1>2. ASSUME NEW t \in Thread, Close(t) PROVE IInv'
    <2>1. Types' /\ Rest' /\ ToDispose' /\ OneReplaced'
      BY <1>2, EnginesAssumption DEF Close, Rest, ToDispose, OneReplaced, Thread
    <2>2. AllKnown' /\ OneRace'
      BY <1>2 DEF Close, AllKnown, OneRace, Known
    <2> QED BY <2>1, <2>2
  <1>3. ASSUME NEW e \in open, Collect(e) PROVE IInv'
    BY <1>3 DEF Collect, Rest, AllKnown, Known, OneRace, OneReplaced, ToDispose
  <1>4. ASSUME BeginRequest \/ EndRequest \/ Leave PROVE IInv'
    <2>1. Types' /\ Rest' /\ ToDispose' /\ OneReplaced'
      BY <1>4, EnginesAssumption DEF BeginRequest, EndRequest, Leave, Rest, ToDispose, OneReplaced, Thread
    <2>2. AllKnown' /\ OneRace'
      BY <1>4 DEF BeginRequest, EndRequest, Leave, AllKnown, OneRace, Known
    <2> QED BY <2>1, <2>2
  <1>5. ASSUME Shutdown PROVE IInv'
    <2>1. Types' /\ Rest' /\ OneReplaced' /\ AllKnown' /\ OneRace'
      BY <1>5 DEF Shutdown, Rest, OneReplaced, AllKnown, OneRace, Known
    <2>2. \A e \in open : e \in replaced \/ e.key \in left'
      BY <1>5, EnginesDiffer DEF Shutdown, AllKnown, Known
    <2> QED BY <1>5, <2>1, <2>2 DEF Shutdown, ToDispose
  <1>6. ASSUME Dispose PROVE IInv'
    <2> USE DEF Dispose
    <2>1. \A t \in Thread : pc[t] = "idle" /\ engine[t] = None
      BY <1>6 DEF Rest, AllKnown, Thread
    <2>2. CASE left = {} /\ engines' = [k \in Key |-> None] /\ phase' = "exited" /\ UNCHANGED <<open, left>>
      BY <1>6, <2>1, <2>2 DEF Rest, AllKnown, OneRace, OneReplaced, ToDispose
    <2>3. ASSUME NEW k \in left, open' = open \ {engines[k]}, left' = left \ {k}, UNCHANGED <<engines, phase>>
          PROVE  IInv'
      <3>1. Types' /\ Rest' /\ OneReplaced' /\ OneRace'
        BY <1>6, <2>3 DEF Rest, OneReplaced, OneRace
      <3>2. AllKnown'
        BY <1>6, <2>1, <2>3 DEF AllKnown, Known
      <3>3. ToDispose'
        BY <1>6, <2>3 DEF AllKnown, Known, ToDispose
      <3> QED BY <3>1, <3>2, <3>3
    <2> QED BY <1>6, <2>2, <2>3
  <1>7. ASSUME NEW t \in Thread, Refuse(t) PROVE IInv'
    <2>1. Types' /\ Rest' /\ ToDispose' /\ OneReplaced'
      BY <1>7, EnginesAssumption DEF Refuse, Rest, ToDispose, OneReplaced, Thread
    <2>2. AllKnown' /\ OneRace'
      BY <1>7 DEF Refuse, AllKnown, OneRace, Known
    <2> QED BY <2>1, <2>2
  <1> QED BY <1>1, <1>2, <1>3, <1>4, <1>5, <1>6, <1>7

\* Every step keeps it.
LEMMA NextIInv == IInv /\ [Next]_vars => IInv'
  <1>1. ASSUME IInv, UNCHANGED vars PROVE IInv'
    BY <1>1 DEF vars, main, pools, IInv, Types, Rest, AllKnown, Known, OneRace, OneReplaced, ToDispose
  <1> QED BY <1>1, LookStep, StoreStep, UseStep, OtherSteps DEF Next, Step

\* Whatever the URLs of the databases, and however the two threads race for the cache: the
\* three spellings of a database have one pool that lasts, a race costs one pool for each in
\* all the life of the process, and schedule() leaves no connection of a cached engine behind.
THEOREM PoolsAreOne == Spec => []PoolsInv
  <1>1. IInv => PoolsInv
    <2> SUFFICES ASSUME IInv PROVE PoolsInv
      OBVIOUS
    <2> USE DEF IInv
    <2>1. TypeOK
      BY DEF Types, TypeOK, Made, Engine
    <2>2. OnePool
      <3> SUFFICES ASSUME NEW e \in open, NEW f \in open, Spelled(e.key), Spelled(f.key),
                          e.key[2] = f.key[2], e # f
                   PROVE  e \in replaced \/ f \in replaced
        BY DEF OnePool
      <3>1. e.key = f.key
        BY EnginesDiffer DEF Types
      <3> QED BY <3>1 DEF AllKnown, Known, ToDispose, Types
    <2> QED BY <2>1, <2>2 DEF PoolsInv, NothingOpen, ToDispose
  <1> QED BY <1>1, InitIInv, NextIInv, PTL DEF Spec
-----------------------------------------------------------------------------
(* The job log *)

Active == {"body", "except", "else"}
LogLines == JobLog!Lines \cup {JobLog!Bad}
IsLog(l) == l \in Seq(LogLines)

LogTypes ==
  /\ IsLog(log) /\ unended \in BOOLEAN /\ (unended => log # <<>>) /\ spoiled \in Nat
  /\ fulls \in 0 .. MaxFull /\ jobs \in 0 .. MaxJobs
  /\ at \in [Proc -> JobLog!Resting \cup Active]
  /\ job \in [Proc -> [id : 0 .. MaxJobs, status : {"running", "success", "failed"}]]
  /\ (\A p \in Proc : at[p] # "idle" => job[p] \in JobLog!Lines) /\ done \subseteq 1 .. jobs

\* A job that has not ended belongs to one process, and has but its start in the log.
OneOwner ==
  /\ \A i \in DOMAIN log : log[i].id <= jobs
  /\ \A p \in Proc : at[p] \in Active =>
       /\ job[p].id \in 1 .. jobs
       /\ \A q \in Proc \ {p} : at[q] \in Active => job[q].id # job[p].id
       /\ \A i \in DOMAIN log : log[i].id = job[p].id => log[i].status = "running"

\* What a process is about to write of its job is how its body ended.
ToldRight ==
  \A p \in Proc :
    /\ at[p] = "body" => job[p].status = "running" /\ job[p].id \notin done
    /\ at[p] = "except" => job[p].status = "failed" /\ job[p].id \notin done
    /\ at[p] = "else" => job[p].status = "success" /\ job[p].id \in done

\* Every line that was spoiled, and the open one, took a full disk.
FullForEach == spoiled + (IF unended THEN 1 ELSE 0) <= fulls

LogIInv == LogTypes /\ OneOwner /\ ToldRight /\ JobLog!OneStory /\ FullForEach

\* What an append leaves: the lines that were there, but for an open one, and the new one.
LEMMA GrownLog ==
  ASSUME LogTypes, NEW line \in LogLines, NEW grown, grown = JobLog!Grown(line)
  PROVE  /\ IsLog(grown) /\ grown # <<>>
         /\ \A i \in DOMAIN grown :
              \/ grown[i] = JobLog!Bad
              \/ i \in DOMAIN log /\ grown[i] = log[i]
              \/ i = Len(log) + 1 /\ grown[i] = line
  <1> USE DEF LogTypes, IsLog, JobLog!Grown
  <1>1. CASE unended
    <2>1. Len(log) \in 1 .. Len(log) /\ JobLog!Bad \in LogLines
      BY <1>1 DEF LogLines
    <2>2. grown = [log EXCEPT ![Len(log)] = JobLog!Bad]
      BY <1>1
    <2> QED BY <2>1, <2>2
  <1>2. CASE ~unended
    <2>1. grown = Append(log, line)
      BY <1>2
    <2> QED BY <2>1
  <1> QED BY <1>1, <1>2

\* The log as it is, or with a line more: it has at most one story of the job of the line.
Lengthened(line) ==
  \/ UNCHANGED log
  \/ IsLog(log') /\ \A i \in DOMAIN log' :
       \/ log'[i] = JobLog!Bad
       \/ i \in DOMAIN log /\ log'[i] = log[i]
       \/ i = Len(log) + 1 /\ log'[i] = line

\* Every append lengthens the log, and what it spoils took a full disk.
LEMMA AppendStep ==
  ASSUME LogTypes, FullForEach, NEW r \in JobLog!Lines, JobLog!Whole(r) \/ JobLog!Full(r)
  PROVE  /\ IsLog(log') /\ unended' \in BOOLEAN /\ (unended' => log' # <<>>) /\ spoiled' \in Nat
         /\ fulls' \in 0 .. MaxFull /\ FullForEach' /\ Lengthened(r)
  <1> USE DEF LogTypes, FullForEach, Lengthened
  <1>1. r \in LogLines /\ JobLog!Bad \in LogLines
    BY DEF LogLines
  <1>2. ASSUME NEW line \in {r, JobLog!Bad}, log' = JobLog!Grown(line)
        PROVE  IsLog(log') /\ log' # <<>> /\ Lengthened(r)
    <2>1. PICK grown : grown = JobLog!Grown(line)
      OBVIOUS
    <2>2. /\ IsLog(grown) /\ grown # <<>>
          /\ \A i \in DOMAIN grown :
              \/ grown[i] = JobLog!Bad
              \/ i \in DOMAIN log /\ grown[i] = log[i]
              \/ i = Len(log) + 1 /\ grown[i] = line
      BY <1>1, <2>1, GrownLog
    <2> QED BY <1>2, <2>1, <2>2
  <1>3. CASE JobLog!Whole(r)
    <2>1. log' = JobLog!Grown(r) /\ unended' = FALSE /\ fulls' = fulls
          /\ spoiled' = IF unended THEN spoiled + 1 ELSE spoiled
      BY <1>3 DEF JobLog!Whole
    <2>2. IsLog(log') /\ Lengthened(r)
      BY <1>2, <2>1
    <2> HIDE DEF Lengthened
    <2>3. spoiled' \in Nat /\ fulls \in Nat /\ spoiled' + 0 <= fulls
      <3>1. CASE unended
        BY <2>1, <3>1, BoundsAssumption
      <3>2. CASE ~unended
        BY <2>1, <3>2, BoundsAssumption
      <3> QED BY <3>1, <3>2
    <2> QED BY <2>1, <2>2, <2>3
  <1>4. CASE JobLog!Full(r)
    <2>1. fulls < MaxFull /\ fulls' = fulls + 1 /\ spoiled' = spoiled
          /\ \/ UNCHANGED <<log, unended>>
             \/ unended' = TRUE /\ \E line \in {r, JobLog!Bad} : log' = JobLog!Grown(line)
      BY <1>4 DEF JobLog!Full
    <2>2. CASE UNCHANGED <<log, unended>>
      BY <2>1, <2>2, BoundsAssumption
    <2>3. CASE unended' = TRUE /\ \E line \in {r, JobLog!Bad} : log' = JobLog!Grown(line)
      <3>1. IsLog(log') /\ log' # <<>> /\ Lengthened(r)
        BY <1>2, <2>3
      <3> HIDE DEF Lengthened
      <3> QED BY <2>1, <2>3, <3>1, BoundsAssumption
    <2> QED BY <2>1, <2>2, <2>3
  <1> QED BY <1>3, <1>4

\* Nothing has been written at the start.
LEMMA LogInit == JobLog!Init => LogIInv
  <1> SUFFICES ASSUME JobLog!Init PROVE LogIInv
    OBVIOUS
  <1>1. LogTypes
    <2> USE DEF JobLog!Init
    <2>1. IsLog(log) /\ unended = FALSE /\ spoiled \in Nat
      BY DEF IsLog
    <2>2. fulls \in 0 .. MaxFull /\ jobs \in 0 .. MaxJobs /\ done \subseteq 1 .. jobs
      BY BoundsAssumption
    <2>3. at \in [Proc -> JobLog!Resting \cup Active] /\ \A p \in Proc : at[p] = "idle"
      BY DEF JobLog!Resting
    <2>4. job \in [Proc -> [id : 0 .. MaxJobs, status : {"running", "success", "failed"}]]
      BY BoundsAssumption
    <2> QED BY <2>1, <2>2, <2>3, <2>4 DEF LogTypes
  <1> QED BY <1>1, BoundsAssumption DEF JobLog!Init, LogIInv, OneOwner, ToldRight, FullForEach, JobLog!OneStory, Active

\* A job starts: no line and no process has its number.
LEMMA LogStartStep ==
  ASSUME LogIInv, NEW p \in Proc, JobLog!Start(p)
  PROVE  LogIInv'
  <1> USE DEF LogIInv, LogTypes
  <1>1. PICK r \in JobLog!Lines : r = [id |-> jobs + 1, status |-> "running"]
    BY BoundsAssumption DEF JobLog!Start, JobLog!Lines
  <1>2. /\ jobs < MaxJobs /\ jobs' = jobs + 1 /\ done' = done /\ r.id = jobs + 1 /\ r.status = "running"
        /\ JobLog!Whole(r) \/ JobLog!Full(r)
    BY <1>1 DEF JobLog!Start
  <1>3. PICK s \in {"body", "raised"} : at' = [at EXCEPT ![p] = s] /\ job' = [job EXCEPT ![p] = r]
    BY <1>1 DEF JobLog!Start, JobLog!Move
  <1>4. /\ IsLog(log') /\ unended' \in BOOLEAN /\ (unended' => log' # <<>>) /\ spoiled' \in Nat
        /\ fulls' \in 0 .. MaxFull /\ FullForEach' /\ Lengthened(r)
    BY <1>2, AppendStep
  <1>5. r \in [id : 0 .. MaxJobs, status : {"running", "success", "failed"}]
    BY BoundsAssumption DEF JobLog!Lines
  <1>6. LogTypes'
    <2>1. jobs' \in 0 .. MaxJobs /\ done' \subseteq 1 .. jobs'
      BY <1>2, BoundsAssumption
    <2>2. /\ at' \in [Proc -> JobLog!Resting \cup Active]
          /\ job' \in [Proc -> [id : 0 .. MaxJobs, status : {"running", "success", "failed"}]]
          /\ \A q \in Proc : at'[q] # "idle" => job'[q] \in JobLog!Lines
      BY <1>3, <1>5 DEF JobLog!Resting, Active
    <2> QED BY <1>4, <2>1, <2>2
  <1>7. \A i \in DOMAIN log : log[i].id <= jobs
    BY DEF OneOwner
  <1>8. \A i \in DOMAIN log' : \/ log'[i] = JobLog!Bad
                               \/ i \in DOMAIN log /\ log'[i] = log[i]
                               \/ i = Len(log) + 1 /\ (\A j \in DOMAIN log : j < i) /\ log'[i] = r
    BY <1>4 DEF Lengthened, IsLog
  <1>9. \A q \in Proc \ {p} : at'[q] = at[q] /\ job'[q] = job[q]
    BY <1>3
  <1>10. OneOwner'
    <2> USE DEF OneOwner, JobLog!Bad
    <2>1. \A i \in DOMAIN log' : log'[i].id <= jobs'
      <3>1. jobs \in Nat /\ \A i \in DOMAIN log : log[i].id \in Nat
        BY BoundsAssumption DEF IsLog, LogLines, JobLog!Lines
      <3> QED BY <1>2, <1>7, <1>8, <3>1
    <2>2. ASSUME NEW q \in Proc, at'[q] \in Active
          PROVE  /\ job'[q].id \in 1 .. jobs'
                 /\ \A o \in Proc \ {q} : at'[o] \in Active => job'[o].id # job'[q].id
                 /\ \A i \in DOMAIN log' : log'[i].id = job'[q].id => log'[i].status = "running"
      <3>1. CASE q = p
        BY <1>2, <1>3, <1>7, <1>8, <1>9, <2>2, <3>1
      <3>2. CASE q # p
        BY <1>2, <1>3, <1>8, <1>9, <2>2, <3>2
      <3> QED BY <3>1, <3>2
    <2> QED BY <2>1, <2>2
  <1>11. ToldRight'
    BY <1>2, <1>3, <1>9 DEF ToldRight
  <1>12. JobLog!OneStory'
    <2> USE DEF JobLog!OneStory
    <2>1. ASSUME NEW i \in DOMAIN log', log'[i] # JobLog!Bad, ~(i \in DOMAIN log /\ log'[i] = log[i])
          PROVE  log'[i] = r /\ \A j \in DOMAIN log : j < i
      BY <1>8, <2>1
    <2>2. /\ DOMAIN log \subseteq Nat /\ DOMAIN log' \subseteq Nat /\ Len(log) \in Nat
          /\ JobLog!Bad.id = 0 /\ JobLog!Bad.status = "bad"
      BY <1>4 DEF IsLog, JobLog!Bad
    <2>3. ASSUME NEW i \in DOMAIN log', NEW j \in DOMAIN log', i < j, log'[i].id = log'[j].id,
                 log'[i] # JobLog!Bad, log'[j] # JobLog!Bad
          PROVE  log'[i].status = "running" /\ log'[j].status # "running"
      <3>1. i \in DOMAIN log /\ log'[i] = log[i]
        BY <1>8, <2>2, <2>3
      <3>2. CASE j \in DOMAIN log /\ log'[j] = log[j]
        BY <2>3, <3>1, <3>2
      <3>3. CASE log'[j] = r
        BY <1>7, <2>2, <2>3, <3>1, <3>3, <1>2, BoundsAssumption
      <3> QED BY <2>1, <2>3, <3>2, <3>3
    <2>4. ASSUME NEW i \in DOMAIN log'
          PROVE  /\ log'[i].status = "success" => log'[i].id \in done'
                 /\ log'[i].status = "failed" => log'[i].id \notin done'
      BY <1>2, <1>7, <2>1, <2>2
    <2> QED BY <2>3, <2>4
  <1> QED BY <1>4, <1>6, <1>10, <1>11, <1>12

\* The last line of a job: so far the log has but its start.
LEMMA LogEndStep ==
  ASSUME LogIInv, NEW p \in Proc, JobLog!End(p)
  PROVE  LogIInv'
  <1> USE DEF LogIInv, LogTypes
  <1>1. PICK r \in JobLog!Lines : r = job[p]
    BY DEF JobLog!End
  <1>2. /\ jobs' = jobs /\ done' = done /\ at[p] \in Active
        /\ JobLog!Whole(r) \/ JobLog!Full(r)
    BY <1>1 DEF JobLog!End, Active
  <1>3. PICK s \in {"returned", "raised"} : at' = [at EXCEPT ![p] = s] /\ job' = [job EXCEPT ![p] = r]
    BY <1>1 DEF JobLog!End, JobLog!Move
  <1>4. /\ IsLog(log') /\ unended' \in BOOLEAN /\ (unended' => log' # <<>>) /\ spoiled' \in Nat
        /\ fulls' \in 0 .. MaxFull /\ FullForEach' /\ Lengthened(r)
    BY <1>2, AppendStep
  <1>5. job' = job
    BY <1>1, <1>3
  <1>6. LogTypes'
    BY <1>2, <1>3, <1>4, <1>5 DEF JobLog!Resting
  <1>7. /\ r.id \in 1 .. jobs /\ (r.status = "success" <=> r.id \in done) /\ r.status \in {"success", "failed"}
        /\ (\A i \in DOMAIN log : log[i].id = r.id => log[i].status = "running")
        /\ \A q \in Proc \ {p} : at[q] \in Active => job[q].id # r.id
    BY <1>1, <1>2 DEF OneOwner, ToldRight, JobLog!End, Active
  <1>8. \A i \in DOMAIN log' : \/ log'[i] = JobLog!Bad
                               \/ i \in DOMAIN log /\ log'[i] = log[i]
                               \/ i = Len(log) + 1 /\ (\A j \in DOMAIN log : j < i) /\ log'[i] = r
    BY <1>4 DEF Lengthened, IsLog
  <1>9. \A q \in Proc : at'[q] \in Active => q # p /\ at[q] = at'[q]
    BY <1>3 DEF Active
  <1>10. OneOwner'
    <2> USE DEF OneOwner, JobLog!Bad
    <2>1. \A i \in DOMAIN log' : log'[i].id <= jobs'
      BY <1>2, <1>7, <1>8
    <2>2. ASSUME NEW q \in Proc, at'[q] \in Active
          PROVE  /\ job'[q].id \in 1 .. jobs'
                 /\ \A o \in Proc \ {q} : at'[o] \in Active => job'[o].id # job'[q].id
                 /\ \A i \in DOMAIN log' : log'[i].id = job'[q].id => log'[i].status = "running"
      <3>1. at[q] \in Active /\ q # p /\ job[q].id # r.id /\ job[q].id \in 1 .. jobs
        BY <1>7, <1>9, <2>2
      <3>2. \A o \in Proc \ {q} : at'[o] \in Active => job[o].id # job[q].id
        BY <1>9, <3>1
      <3>3. \A i \in DOMAIN log' : log'[i].id = job[q].id => log'[i].status = "running"
        BY <1>8, <3>1
      <3> QED BY <1>2, <1>5, <3>1, <3>2, <3>3
    <2> QED BY <2>1, <2>2
  <1>11. ToldRight'
    BY <1>2, <1>3, <1>5 DEF ToldRight
  <1>12. JobLog!OneStory'
    <2> USE DEF JobLog!OneStory
    <2>1. ASSUME NEW i \in DOMAIN log', log'[i] # JobLog!Bad, ~(i \in DOMAIN log /\ log'[i] = log[i])
          PROVE  log'[i] = r /\ \A j \in DOMAIN log : j < i
      BY <1>8, <2>1
    <2>2. /\ DOMAIN log \subseteq Nat /\ DOMAIN log' \subseteq Nat /\ Len(log) \in Nat
          /\ JobLog!Bad.id = 0 /\ JobLog!Bad.status = "bad"
      BY <1>4 DEF IsLog, JobLog!Bad
    <2>3. ASSUME NEW i \in DOMAIN log', NEW j \in DOMAIN log', i < j, log'[i].id = log'[j].id,
                 log'[i] # JobLog!Bad, log'[j] # JobLog!Bad
          PROVE  log'[i].status = "running" /\ log'[j].status # "running"
      <3>1. i \in DOMAIN log /\ log'[i] = log[i]
        BY <1>8, <2>2, <2>3
      <3>2. CASE j \in DOMAIN log /\ log'[j] = log[j]
        BY <2>3, <3>1, <3>2
      <3>3. CASE log'[j] = r
        BY <1>7, <2>2, <2>3, <3>1, <3>3
      <3> QED BY <2>1, <2>3, <3>2, <3>3
    <2>4. ASSUME NEW i \in DOMAIN log'
          PROVE  /\ log'[i].status = "success" => log'[i].id \in done'
                 /\ log'[i].status = "failed" => log'[i].id \notin done'
      BY <1>2, <1>7, <2>1, <2>2
    <2> QED BY <2>3, <2>4
  <1> QED BY <1>4, <1>6, <1>10, <1>11, <1>12

\* The steps that write nothing: how a body ends, and a kill.
LEMMA LogBodyStep ==
  ASSUME LogIInv, NEW p \in Proc,
         JobLog!Fail(p) \/ JobLog!Interrupt(p) \/ JobLog!Succeed(p) \/ JobLog!Kill(p)
  PROVE  LogIInv'
  <1> USE DEF LogIInv, LogTypes
  <1>1. PICK s \in {"except", "else", "raised", "killed"}, t \in {"running", "failed", "success"} :
          /\ at' = [at EXCEPT ![p] = s] /\ job' = [job EXCEPT ![p].status = t]
          /\ at[p] \in Active
          /\ s = "except" => at[p] = "body" /\ t = "failed" /\ done' = done
          /\ s = "else" => at[p] = "body" /\ t = "success" /\ done' = done \cup {job[p].id}
          /\ s \notin {"except", "else"} => done' = done
    <2>1. CASE JobLog!Fail(p)
      BY <2>1 DEF JobLog!Fail, JobLog!Move, Active
    <2>2. CASE JobLog!Succeed(p)
      BY <2>2 DEF JobLog!Succeed, JobLog!Move, Active
    <2>3. CASE JobLog!Interrupt(p) \/ JobLog!Kill(p)
      <3>1. PICK t \in {"running", "failed", "success"} : t = job[p].status
        OBVIOUS
      <3>2. [job EXCEPT ![p].status = t] = [job EXCEPT ![p] = job[p]]
        BY <3>1
      <3> QED BY <2>3, <3>2 DEF JobLog!Interrupt, JobLog!Kill, JobLog!Move, JobLog!Resting, Active
    <2> QED BY <2>1, <2>2, <2>3
  <1>2. UNCHANGED <<log, unended, jobs, fulls, spoiled>>
    BY DEF JobLog!Fail, JobLog!Interrupt, JobLog!Succeed, JobLog!Kill
  <1>3. /\ \A q \in Proc : job'[q].id = job[q].id
        /\ \A q \in Proc \ {p} : at'[q] = at[q] /\ job'[q] = job[q]
        /\ job'[p].status = t /\ at'[p] = s /\ job[p].id \in 1 .. jobs
    BY <1>1 DEF OneOwner
  <1>4. LogTypes'
    BY <1>1, <1>2, <1>3 DEF JobLog!Lines, JobLog!Resting, Active
  <1>5. OneOwner'
    BY <1>1, <1>2, <1>3 DEF OneOwner
  <1>6. ToldRight'
    BY <1>1, <1>3 DEF ToldRight, OneOwner, Active
  <1>7. JobLog!OneStory'
    BY <1>1, <1>2 DEF JobLog!OneStory, OneOwner
  <1> QED BY <1>2, <1>4, <1>5, <1>6, <1>7 DEF FullForEach

\* However processes interleave, die and meet a full disk: the lines of a job that can be
\* read tell one story, and a full disk costs the records of others no more than a line.
THEOREM LogIsTrue == JobLog!Spec => []LogInv
  <1>1. LogIInv /\ [JobLog!Next]_JobLog!vars => LogIInv'
    <2>1. ASSUME LogIInv, UNCHANGED JobLog!vars PROVE LogIInv'
      BY <2>1 DEF JobLog!vars, LogIInv, LogTypes, OneOwner, ToldRight, FullForEach, JobLog!OneStory
    <2> QED BY <2>1, LogStartStep, LogEndStep, LogBodyStep DEF JobLog!Next
  <1>2. LogIInv => LogInv
    <2> SUFFICES ASSUME LogIInv PROVE LogInv
      OBVIOUS
    <2>1. JobLog!TypeOK
      BY DEF LogIInv, LogTypes, IsLog, LogLines, JobLog!TypeOK, Active
    <2>2. JobLog!DamageIsLocal
      BY BoundsAssumption DEF LogIInv, LogTypes, FullForEach, JobLog!DamageIsLocal
    <2> QED BY <2>1, <2>2 DEF LogIInv, LogInv, JobLog!LogInv
  <1> QED BY <1>1, <1>2, LogInit, PTL DEF JobLog!Spec
-----------------------------------------------------------------------------
(* The scrape *)

\* The databases whose status the page in the making has.
Loaded(i) == i < place \/ (i = place /\ step # "first")

\* No page is ahead of a status file, and the one in the making is not behind the last.
PagesInv ==
  /\ \A d \in Scrape!Db \ shared : /\ page[d].backup <= status[d].backup
                                   /\ draft[d].backup <= status[d].backup
  /\ step \in {"idle", "ready"} => place = 1
  /\ step \in {"first", "query", "persist", "second"} =>
       \A i \in DOMAIN Databases : Loaded(i) /\ Databases[i] \notin shared =>
         page[Databases[i]].backup <= draft[Databases[i]].backup

\* A run that has its status file to itself is not going to set it back.
RunsInv ==
  \A r \in runs : r.db \notin shared =>
    r.entry.backup >= status[r.db].backup /\ \A q \in runs : q.db = r.db => q = r

\* What is wrong while a scrape runs is held against it.
BlameInv == step # "idle" /\ Scrape!Trouble => blame

ScrapeIInv == Scrape!TypeOK /\ Scrape!FailsForCause /\ PagesInv /\ RunsInv /\ BlameInv

\* What the positions are.
LEMMA Positions ==
  ASSUME Scrape!ScrapeAssumption
  PROVE  /\ DOMAIN Databases = 1 .. Len(Databases) /\ Len(Databases) \in Nat \ {0} /\ 1 \in DOMAIN Databases
         /\ \A i \in DOMAIN Databases : Databases[i] \in Scrape!Db
         /\ Scrape!Fresh \in Scrape!Statuses /\ Scrape!Blank \in [Scrape!Db -> Scrape!Statuses]
         /\ \A d \in Scrape!Db : Scrape!Blank[d].backup = 0
         /\ \A s \in Scrape!Statuses : s.backup \in Nat
  <1>1. Databases \in Seq(Scrape!Db) /\ Databases # <<>> /\ MaxBackups \in Nat
    BY DEF Scrape!ScrapeAssumption
  <1>2. Scrape!Fresh \in Scrape!Statuses /\ Scrape!Fresh.backup = 0
    BY <1>1 DEF Scrape!Fresh, Scrape!Statuses
  <1>3. \A s \in Scrape!Statuses : s.backup \in Nat
    BY <1>1 DEF Scrape!Statuses
  <1> QED BY <1>1, <1>2, <1>3 DEF Scrape!Blank, Scrape!Db

\* Nothing has been served at the start.
LEMMA ScrapeInit ==
  ASSUME Scrape!ScrapeAssumption, Scrape!Init
  PROVE  ScrapeIInv
  <1> USE Positions DEF Scrape!Init
  <1>1. Scrape!TypeOK
    <2>1. {draft, page} \subseteq [Scrape!Db -> Scrape!Statuses]
      OBVIOUS
    <2> QED BY <2>1 DEF Scrape!TypeOK
  <1>2. PagesInv /\ RunsInv /\ BlameInv
    BY DEF PagesInv, RunsInv, BlameInv
  <1> QED BY <1>1, <1>2 DEF ScrapeIInv, Scrape!FailsForCause

\* A scrape that is given up has a cause.
LEMMA AbortStep ==
  ASSUME Scrape!ScrapeAssumption, ScrapeIInv, Scrape!Abort, blame', UNCHANGED Scrape!world
  PROVE  ScrapeIInv'
  <1> USE Positions DEF Scrape!Abort, Scrape!world, Scrape!files
  <1>1. Scrape!TypeOK'
    <2>1. {draft', page'} \subseteq [Scrape!Db -> Scrape!Statuses]
      BY DEF ScrapeIInv, Scrape!TypeOK
    <2> QED BY <2>1 DEF ScrapeIInv, Scrape!TypeOK
  <1>2. PagesInv'
    BY DEF ScrapeIInv, Scrape!TypeOK, PagesInv
  <1>3. RunsInv' /\ BlameInv' /\ Scrape!FailsForCause'
    BY DEF ScrapeIInv, RunsInv, BlameInv, Scrape!FailsForCause
  <1> QED BY <1>1, <1>2, <1>3 DEF ScrapeIInv

\* A scrape reads each status file, and serves what it has read.
LEMMA ScrapingStep ==
  ASSUME Scrape!ScrapeAssumption, ScrapeIInv, Scrape!Scraping
  PROVE  /\ ScrapeIInv'
         /\ \A d \in Scrape!Db \ shared' : page'[d].backup >= page[d].backup
  <1> USE Positions DEF ScrapeIInv, Scrape!world, Scrape!files, Scrape!This, Scrape!Last
  <1> DEFINE Forward == \A d \in Scrape!Db \ shared' : page'[d].backup >= page[d].backup
  <1>1. \A d \in Scrape!Db : page[d].backup \in Nat /\ draft[d].backup \in Nat /\ status[d].backup \in Nat
    BY DEF Scrape!TypeOK
  <1>2. page' = page => Forward
    BY <1>1
  <1>3. /\ "config" \in broken \/ "data" \in broken => Scrape!Trouble
        /\ place \in DOMAIN Databases
        /\ Databases[place] \in torn \/ Databases[place] \notin up => Scrape!Trouble
    BY DEF Scrape!TypeOK, Scrape!Trouble
  <1>4. ASSUME UNCHANGED <<page, failed, blame, Scrape!world>>, step # "idle", step' # "idle"
        PROVE  RunsInv' /\ BlameInv' /\ Scrape!FailsForCause'
    BY <1>4 DEF RunsInv, BlameInv, Scrape!FailsForCause, Scrape!Trouble
  <1>5. CASE Scrape!Begin
    <2>1. CASE "config" \in broken
      BY <1>2, <1>3, <1>5, <2>1, AbortStep DEF Scrape!Begin, Scrape!Abort
    <2>2. CASE "config" \notin broken
      <3>1. /\ step = "idle" /\ step' = "ready" /\ blame' = Scrape!Trouble
            /\ UNCHANGED <<place, draft, page, failed, Scrape!world>>
        BY <1>5, <2>2 DEF Scrape!Begin
      <3>2. Scrape!TypeOK'
        BY <3>1 DEF Scrape!TypeOK, Scrape!Trouble
      <3>3. PagesInv' /\ RunsInv' /\ BlameInv' /\ Scrape!FailsForCause'
        BY <3>1 DEF PagesInv, RunsInv, BlameInv, Scrape!Trouble, Scrape!FailsForCause
      <3> QED BY <1>2, <3>1, <3>2, <3>3
    <2> QED BY <2>1, <2>2
  <1>6. CASE Scrape!Readiness
    <2>1. step = "ready" /\ step' = "first" /\ UNCHANGED <<place, draft, page, failed, blame, Scrape!world>>
      BY <1>6 DEF Scrape!Readiness
    <2>2. Scrape!TypeOK' /\ PagesInv'
      BY <2>1 DEF Scrape!TypeOK, PagesInv, Loaded
    <2> QED BY <1>2, <1>4, <2>1, <2>2
  <1>7. CASE Scrape!LoadFirst
    <2>1. CASE Scrape!Unreadable
      BY <1>2, <1>3, <1>7, <2>1, AbortStep DEF Scrape!LoadFirst, Scrape!Unreadable, Scrape!Abort, BlameInv
    <2>2. CASE ~Scrape!Unreadable
      <3>1. /\ draft' = [draft EXCEPT ![Databases[place]] = status[Databases[place]]]
            /\ step = "first" /\ step' = "query" /\ UNCHANGED <<place, page, failed, blame, Scrape!world>>
        BY <1>7, <2>2 DEF Scrape!LoadFirst
      <3>2. Scrape!TypeOK'
        BY <1>3, <3>1 DEF Scrape!TypeOK
      <3>3. PagesInv'
        BY <1>1, <1>3, <3>1 DEF PagesInv, Loaded, Scrape!TypeOK
      <3> QED BY <1>2, <1>4, <3>1, <3>2, <3>3
    <2> QED BY <2>1, <2>2
  <1>8. CASE Scrape!Query \/ Scrape!Persist
    <2>1. CASE step' = "idle"
      BY <1>2, <1>3, <1>8, <2>1, AbortStep DEF Scrape!Query, Scrape!Persist, Scrape!Abort, BlameInv
    <2>2. CASE step' # "idle"
      <3>1. /\ step \in {"query", "persist"} /\ step' \in {"persist", "second"}
            /\ UNCHANGED <<place, draft, page, failed, blame, Scrape!world>>
        BY <1>8, <2>2 DEF Scrape!Query, Scrape!Persist, Scrape!Abort
      <3>2. Scrape!TypeOK' /\ PagesInv'
        BY <3>1 DEF Scrape!TypeOK, PagesInv, Loaded
      <3> QED BY <1>2, <1>4, <3>1, <3>2
    <2> QED BY <2>1, <2>2
  <1>9. CASE Scrape!LoadSecond
    <2>1. CASE Scrape!Unreadable
      BY <1>2, <1>3, <1>9, <2>1, AbortStep DEF Scrape!LoadSecond, Scrape!Unreadable, Scrape!Abort, BlameInv
    <2>2. CASE ~Scrape!Unreadable /\ place = Len(Databases)
      <3>1. /\ page' = draft /\ draft' = Scrape!Blank /\ step = "second" /\ step' = "idle"
            /\ failed' = FALSE /\ place' = 1 /\ blame' = FALSE /\ UNCHANGED Scrape!world
        BY <1>9, <2>2 DEF Scrape!LoadSecond
      <3>2. \A d \in Scrape!Db \ shared : page[d].backup <= draft[d].backup
        <4>1. \A i \in DOMAIN Databases :
                Databases[i] \notin shared => page[Databases[i]].backup <= draft[Databases[i]].backup
          BY <2>2, <3>1 DEF PagesInv, Loaded
        <4>2. \A d \in Scrape!Db : \E i \in DOMAIN Databases : d = Databases[i]
          BY DEF Scrape!Db
        <4> QED BY ONLY <4>1, <4>2
      <3>3. {draft', page'} \subseteq [Scrape!Db -> Scrape!Statuses]
        BY <3>1 DEF Scrape!TypeOK
      <3>4. Scrape!TypeOK'
        BY <3>1, <3>3 DEF Scrape!TypeOK
      <3>5. PagesInv' /\ RunsInv' /\ BlameInv' /\ Scrape!FailsForCause'
        BY <1>1, <3>1 DEF PagesInv, RunsInv, BlameInv, Scrape!FailsForCause
      <3> QED BY <1>1, <3>1, <3>2, <3>4, <3>5
    <2>3. CASE ~Scrape!Unreadable /\ place # Len(Databases)
      <3>1. /\ step = "second" /\ step' = "first" /\ place' = place + 1
            /\ UNCHANGED <<draft, page, failed, blame, Scrape!world>>
        BY <1>9, <2>3 DEF Scrape!LoadSecond
      <3>2. Scrape!TypeOK' /\ PagesInv'
        BY <2>3, <3>1 DEF Scrape!TypeOK, PagesInv, Loaded
      <3> QED BY <1>2, <1>4, <3>1, <3>2
    <2> QED BY <2>1, <2>2, <2>3
  <1> QED BY <1>5, <1>6, <1>7, <1>8, <1>9 DEF Scrape!Scraping

\* What the world does to the status files while a pod lives: one that no two runs are at goes
\* forward.
Onward ==
  /\ up' \subseteq Scrape!Db /\ broken' \subseteq {"config", "data"} /\ late' \subseteq Scrape!Db
  /\ status' \in [Scrape!Db -> Scrape!Statuses] /\ torn' \subseteq Scrape!Db
  /\ runs' \subseteq [by : DOMAIN Targets, db : Scrape!Db, opened : BOOLEAN, entry : Scrape!Statuses]
  /\ shared \subseteq shared' /\ shared' \subseteq Scrape!Db
  /\ \A d \in Scrape!Db \ shared' : status'[d].backup >= status[d].backup
  /\ RunsInv'

\* A run reads the file, and will not set it back as long as it has it to itself.
LEMMA LoadStep ==
  ASSUME Scrape!ScrapeAssumption, ScrapeIInv,
         NEW w \in DOMAIN Targets, NEW d \in Targets[w], Scrape!Load(w, d)
  PROVE  Onward
  <1> DEFINE Runs == [by : DOMAIN Targets, db : Scrape!Db, opened : BOOLEAN, entry : Scrape!Statuses]
  <1>1. Scrape!TypeOK /\ RunsInv /\ d \in Scrape!Db
    BY DEF ScrapeIInv, Scrape!ScrapeAssumption
  <1>2. \A e \in Scrape!Db : status[e].backup \in Nat
    BY <1>1, Positions DEF Scrape!TypeOK
  <1>3. PICK t \in Scrape!Outcomes(status[d]) :
          runs' = runs \cup {[by |-> w, db |-> d, opened |-> FALSE, entry |-> t]}
    BY DEF Scrape!Load
  <1> DEFINE New == [by |-> w, db |-> d, opened |-> FALSE, entry |-> t]
  <1>4. t \in Scrape!Statuses /\ t.backup >= status[d].backup
    BY <1>1, <1>2 DEF Scrape!Outcomes
  <1>5. /\ UNCHANGED <<up, broken, late, status, torn>>
        /\ shared' = shared \cup {r.db : r \in {q \in runs : q.db = d}}
    BY DEF Scrape!Load
  <1>6. shared' \subseteq shared \cup {d} /\ ((\E r \in runs : r.db = d) => d \in shared')
    BY <1>5
  <1>7. New \in Runs
    BY <1>1, <1>4
  <1>8. RunsInv'
    <2> SUFFICES ASSUME NEW r \in runs', r.db \notin shared'
                 PROVE  r.entry.backup >= status[r.db].backup /\ \A q \in runs' : q.db = r.db => q = r
      BY <1>5 DEF RunsInv
    <2>1. CASE r = New
      BY <1>3, <1>4, <1>6, <2>1
    <2>2. CASE r \in runs
      BY <1>1, <1>3, <1>5, <1>6, <2>2 DEF RunsInv
    <2> QED BY <1>3, <2>1, <2>2
  <1>9. runs' \subseteq Runs /\ shared' \subseteq Scrape!Db /\ shared \subseteq shared'
    BY <1>1, <1>3, <1>5, <1>6, <1>7 DEF Scrape!TypeOK
  <1>10. \A e \in Scrape!Db \ shared' : status'[e].backup >= status[e].backup
    BY <1>2, <1>5
  <1> HIDE DEF New
  <1> QED BY <1>1, <1>5, <1>8, <1>9, <1>10 DEF Onward, Scrape!TypeOK

\* A run opens the file, writes it, or is over: then no other goes by what it has read.
LEMMA SaveStep ==
  ASSUME Scrape!ScrapeAssumption, ScrapeIInv,
         NEW r \in runs, Scrape!Truncate(r) \/ Scrape!Land(r) \/ Scrape!GiveUp(r)
  PROVE  Onward
  <1> DEFINE Runs == [by : DOMAIN Targets, db : Scrape!Db, opened : BOOLEAN, entry : Scrape!Statuses]
  <1>1. Scrape!TypeOK /\ RunsInv
    BY DEF ScrapeIInv
  <1>2. r \in Runs /\ r.db \in Scrape!Db /\ r.entry \in Scrape!Statuses /\ runs \subseteq Runs
    BY <1>1 DEF Scrape!TypeOK
  <1>3. \A e \in Scrape!Db : status[e].backup \in Nat
    BY <1>1, Positions DEF Scrape!TypeOK
  <1>4. CASE Scrape!Truncate(r)
    <2> DEFINE Opened == [r EXCEPT !.opened = TRUE]
    <2>1. /\ runs' = (runs \ {r}) \cup {Opened} /\ torn' = torn \cup {r.db}
          /\ UNCHANGED <<up, broken, late, status, shared>>
      BY <1>4 DEF Scrape!Truncate
    <2>2. Opened \in Runs /\ Opened.db = r.db /\ Opened.entry = r.entry
      BY <1>2
    <2> HIDE DEF Opened
    <2>3. RunsInv'
      BY <1>1, <2>1, <2>2 DEF RunsInv
    <2> QED BY <1>1, <1>2, <1>3, <2>1, <2>2, <2>3 DEF Onward, Scrape!TypeOK
  <1>5. CASE Scrape!Land(r)
    <2>1. /\ runs' = runs \ {r} /\ status' = [status EXCEPT ![r.db] = r.entry]
          /\ torn' \subseteq torn \cup {r.db} /\ late' \subseteq late /\ UNCHANGED <<up, broken, shared>>
      BY <1>5 DEF Scrape!Land
    <2>2. status' \in [Scrape!Db -> Scrape!Statuses]
      BY <1>1, <1>2, <2>1 DEF Scrape!TypeOK
    <2>3. \A e \in Scrape!Db \ shared : status'[e].backup >= status[e].backup
      BY <1>1, <1>2, <1>3, <2>1 DEF RunsInv, Scrape!TypeOK
    <2>4. RunsInv'
      BY <1>1, <1>2, <2>1 DEF RunsInv, Scrape!TypeOK
    <2> QED BY <1>1, <1>2, <2>1, <2>2, <2>3, <2>4 DEF Onward, Scrape!TypeOK
  <1>6. CASE Scrape!GiveUp(r)
    <2>1. runs' = runs \ {r} /\ UNCHANGED <<up, broken, late, status, torn, shared>>
      BY <1>6 DEF Scrape!GiveUp
    <2>2. RunsInv'
      BY <1>1, <2>1 DEF RunsInv
    <2> QED BY <1>1, <1>2, <1>3, <2>1, <2>2 DEF Onward, Scrape!TypeOK
  <1> QED BY <1>4, <1>5, <1>6

\* Outages, faults and the time that passes leave the files alone.
LEMMA WorldStep ==
  ASSUME Scrape!ScrapeAssumption, ScrapeIInv,
         Scrape!Outage \/ Scrape!Fault \/ Scrape!Recording \/ \E d \in Aging : Scrape!PassDay(d)
  PROVE  Onward
  <1>1. /\ Scrape!TypeOK /\ RunsInv /\ Aging \subseteq Scrape!Db
        /\ \A e \in Scrape!Db : status[e].backup \in Nat
    BY Positions DEF ScrapeIInv, Scrape!TypeOK, Scrape!ScrapeAssumption
  <1>2. ASSUME UNCHANGED <<status, torn, runs, shared>>, up' \subseteq Scrape!Db,
               broken' \subseteq {"config", "data"}, late' \subseteq Scrape!Db
        PROVE  Onward
    BY <1>1, <1>2 DEF Onward, RunsInv, Scrape!TypeOK
  <1>3. CASE Scrape!Outage
    BY <1>1, <1>2, <1>3 DEF Scrape!Outage, Scrape!TypeOK, Scrape!files
  <1>4. CASE Scrape!Fault
    BY <1>1, <1>2, <1>4 DEF Scrape!Fault, Scrape!TypeOK, Scrape!files
  <1>5. CASE \E d \in Aging : Scrape!PassDay(d)
    BY <1>1, <1>2, <1>5 DEF Scrape!PassDay, Scrape!TypeOK, Scrape!files
  <1>6. CASE Scrape!Recording
    BY <1>6, LoadStep, SaveStep DEF Scrape!Recording
  <1> QED BY <1>3, <1>4, <1>5, <1>6

\* Whatever happens while a scrape waits, it keeps what it has read.
LEMMA MeanwhileStep ==
  ASSUME Scrape!ScrapeAssumption, ScrapeIInv, Scrape!Meanwhile
  PROVE  ScrapeIInv' /\ UNCHANGED page
  <1>1. Onward /\ UNCHANGED <<step, place, draft, page, failed>>
        /\ blame' = (blame \/ (step # "idle" /\ Scrape!Trouble'))
    BY WorldStep DEF Scrape!Meanwhile, Scrape!scrape
  <1>2. blame' \in BOOLEAN /\ BlameInv' /\ Scrape!FailsForCause'
    BY <1>1 DEF ScrapeIInv, BlameInv, Scrape!FailsForCause
  <1>3. Scrape!TypeOK'
    BY <1>1, <1>2 DEF Onward, ScrapeIInv, Scrape!TypeOK
  <1>4. PagesInv'
    <2>1. \A d \in Scrape!Db : /\ page[d].backup \in Nat /\ draft[d].backup \in Nat
                               /\ status[d].backup \in Nat /\ status'[d].backup \in Nat
      BY <1>1, Positions DEF Onward, ScrapeIInv, Scrape!TypeOK
    <2>2. \A d \in Scrape!Db \ shared' : page'[d].backup <= status'[d].backup /\ draft'[d].backup <= status'[d].backup
      BY <1>1, <2>1 DEF Onward, ScrapeIInv, PagesInv
    <2>3. /\ step' \in {"idle", "ready"} => place' = 1
          /\ step' \in {"first", "query", "persist", "second"} =>
               \A i \in DOMAIN Databases : Loaded(i)' /\ Databases[i] \notin shared' =>
                 page'[Databases[i]].backup <= draft'[Databases[i]].backup
      BY <1>1 DEF Onward, ScrapeIInv, PagesInv, Loaded
    <2> QED BY <2>2, <2>3 DEF PagesInv
  <1> QED BY <1>1, <1>2, <1>3, <1>4 DEF Onward, ScrapeIInv

\* A new pod starts afresh.
LEMMA ReplaceStep ==
  ASSUME Scrape!ScrapeAssumption, ScrapeIInv, Scrape!Replace
  PROVE  ScrapeIInv' /\ failed'
  <1> USE Positions
  <1>1. /\ status' = Scrape!Blank /\ torn' = {} /\ runs' = {} /\ shared' = {} /\ UNCHANGED <<up, broken, late>>
        /\ step' = "idle" /\ place' = 1 /\ draft' = Scrape!Blank /\ page' = Scrape!Blank
        /\ failed' = TRUE /\ blame' = TRUE
    BY DEF Scrape!Replace
  <1>2. Scrape!TypeOK'
    <2>1. {draft', page'} \subseteq [Scrape!Db -> Scrape!Statuses]
      BY <1>1
    <2> QED BY <1>1, <2>1 DEF ScrapeIInv, Scrape!TypeOK
  <1>3. PagesInv' /\ RunsInv' /\ BlameInv' /\ Scrape!FailsForCause'
    BY <1>1 DEF PagesInv, RunsInv, BlameInv, Scrape!FailsForCause
  <1> QED BY <1>1, <1>2, <1>3 DEF ScrapeIInv

\* However outages, faults, backups of several processes, rollouts and scrapes interleave: a
\* scrape without a page met a database that did not answer, a status file half written, or a
\* registry or a data directory that failed; and as long as a pod lives no page has an older
\* last backup of a database than the page before, unless two runs were at its status at once.
THEOREM PagesTellTheTruth == Scrape!Spec => PagesAreTrue
  <1> DEFINE Forward == ~failed' => \A d \in Scrape!Db \ shared' : page'[d].backup >= page[d].backup
  <1>1. Scrape!Init => ScrapeIInv
    BY ScrapeInit, ScrapeConstants
  <1>2. ScrapeIInv /\ [Scrape!Next]_Scrape!vars => ScrapeIInv' /\ [Forward]_Scrape!vars
    <2>1. ASSUME ScrapeIInv, UNCHANGED Scrape!vars PROVE ScrapeIInv'
      BY <2>1 DEF Scrape!vars, Scrape!world, Scrape!files, Scrape!scrape, ScrapeIInv, Scrape!TypeOK,
                  Scrape!FailsForCause, Scrape!Trouble, PagesInv, RunsInv, BlameInv, Loaded
    <2>2. ASSUME ScrapeIInv, UNCHANGED page PROVE Forward
      BY <2>2, ScrapeConstants, Positions DEF ScrapeIInv, Scrape!TypeOK
    <2> QED BY <2>1, <2>2, ScrapingStep, MeanwhileStep, ReplaceStep, ScrapeConstants DEF Scrape!Next
  <1>3. ScrapeIInv => Scrape!TypeOK /\ Scrape!FailsForCause
    BY DEF ScrapeIInv
  <1> QED BY <1>1, <1>2, <1>3, PTL DEF Scrape!Spec, PagesAreTrue, Scrape!PagesAreTrue, Scrape!TimestampForward
-----------------------------------------------------------------------------
(* The probes *)

Kinds == {"check", "live", "late"}

NoLive(q) == \A i \in DOMAIN q : q[i] # "live"
OneLive(q) == \A i, j \in DOMAIN q : q[i] = "live" /\ q[j] = "live" => i = j

\* The thread is free Hang ticks after an outage.  From then on a probe that waits is in the
\* backlog, so none fails any more, and the next one to be sent ends the failures there are.
CalmInv ==
  /\ hung => calm = 0
  /\ serving /\ ~hung => patience + calm <= Hang
  /\ waiting => clock = 0
  /\ waiting \/ NoLive(queue)
  /\ calm > Hang /\ waiting => ~NoLive(queue)
  /\ failures > 0 /\ calm > Hang => \/ calm - Hang <= clock
                                    \/ waiting /\ calm - Hang <= LivePeriod

ProbesIInv == Probes!TypeOK /\ CalmInv

\* What the bounds are.
LEMMA ProbesBounds ==
  ASSUME Probes!ProbesAssumption
  PROVE  /\ Backlog \in Nat /\ Backlog > 1 /\ LivePeriod \in Nat /\ LivePeriod > 1
         /\ Hang \in Nat /\ Hang > 0 /\ Threshold \in Nat /\ Threshold > 0
         /\ 0 \in 0 .. Hang /\ 0 \in 0 .. Threshold /\ 1 \in 0 .. LivePeriod - 1
  BY DEF Probes!ProbesAssumption

\* What a request does to the backlog.
LEMMA JoinsBacklog ==
  ASSUME Probes!ProbesAssumption, NEW q \in Seq(Kinds), Len(q) <= Backlog, NEW kind \in Kinds
  PROVE  /\ Probes!Join(q, kind) \in Seq(Kinds) /\ Len(Probes!Join(q, kind)) <= Backlog
         /\ NoLive(q) /\ kind # "live" => NoLive(Probes!Join(q, kind))
         /\ NoLive(q) \/ (OneLive(q) /\ kind # "live") => OneLive(Probes!Join(q, kind))
         /\ ~NoLive(q) => ~NoLive(Probes!Join(q, kind))
         /\ Len(q) < Backlog /\ kind = "live" => ~NoLive(Probes!Join(q, kind))
  <1>1. CASE Len(q) < Backlog
    <2>1. Probes!Join(q, kind) = Append(q, kind)
      BY <1>1 DEF Probes!Join
    <2>2. /\ Append(q, kind) \in Seq(Kinds) /\ Len(Append(q, kind)) = Len(q) + 1
          /\ \A i \in 1 .. Len(q) : Append(q, kind)[i] = q[i]
          /\ Append(q, kind)[Len(q) + 1] = kind /\ Len(q) \in Nat
      OBVIOUS
    <2>3. DOMAIN q = 1 .. Len(q) /\ DOMAIN Append(q, kind) = 1 .. Len(q) + 1
      BY <2>2
    <2>4. Backlog \in Nat
      BY ProbesBounds
    <2> QED BY <1>1, <2>1, <2>2, <2>3, <2>4 DEF NoLive, OneLive
  <1>2. CASE ~(Len(q) < Backlog)
    BY <1>2 DEF Probes!Join, NoLive, OneLive
  <1> QED BY <1>1, <1>2

\* What taking the request at its head does.
LEMMA TakenFromBacklog ==
  ASSUME Probes!TypeOK, NEW kind, Probes!Take(kind)
  PROVE  /\ queue' \in Seq(Kinds) /\ Len(queue') <= Len(queue) /\ ~serving
         /\ OneLive(queue) => OneLive(queue')
         /\ NoLive(queue) => NoLive(queue')
         /\ kind # "live" /\ ~NoLive(queue) => ~NoLive(queue')
         /\ kind = "live" /\ OneLive(queue) => NoLive(queue')
  <1>1. queue \in Seq(Kinds) /\ queue # <<>> /\ queue' = Tail(queue) /\ queue[1] = kind /\ ~serving
    BY DEF Probes!TypeOK, Probes!Take, Kinds
  <1>2. /\ Len(queue) \in Nat \ {0} /\ DOMAIN queue = 1 .. Len(queue)
        /\ Tail(queue) \in Seq(Kinds) /\ Len(Tail(queue)) = Len(queue) - 1
        /\ \A i \in 1 .. Len(queue) - 1 : Tail(queue)[i] = queue[i + 1]
    BY <1>1
  <1>3. DOMAIN queue' = 1 .. Len(queue) - 1
    BY <1>1, <1>2
  <1>4. ASSUME kind # "live", ~NoLive(queue) PROVE ~NoLive(queue')
    <2>1. PICK i \in 1 .. Len(queue) : queue[i] = "live"
      BY <1>2, <1>4 DEF NoLive
    <2>2. i # 1
      BY <1>1, <1>4, <2>1
    <2>3. i - 1 \in 1 .. Len(queue) - 1 /\ queue'[i - 1] = queue[i]
      BY <1>1, <1>2, <2>2
    <2> QED BY <1>3, <2>1, <2>3 DEF NoLive
  <1> QED BY <1>1, <1>2, <1>3, <1>4 DEF NoLive, OneLive

\* The server thread answers what is in the backlog; no time passes.
LEMMA ServerStep ==
  ASSUME Probes!ProbesAssumption, ProbesIInv, Probes!ServerThread
  PROVE  ProbesIInv'
  <1> USE ProbesBounds DEF ProbesIInv, Probes!TypeOK, CalmInv
  <1>1. OneLive(queue)
    BY DEF OneLive
  <1>2. ASSUME queue' \in Seq(Kinds), Len(queue') <= Len(queue), OneLive(queue')
        PROVE  /\ queue' \in Seq({"check", "live", "late"}) /\ Len(queue') <= Backlog
               /\ \A i, j \in DOMAIN queue' : queue'[i] = "live" /\ queue'[j] = "live" => i = j
    <2>1. Len(queue) \in Nat /\ Len(queue') \in Nat /\ Len(queue) <= Backlog /\ Backlog \in Nat
      BY <1>2
    <2> QED BY <1>2, <2>1 DEF Kinds, OneLive
  <1>3. CASE Probes!Live
    <2>1. CASE Probes!Take("live") /\ waiting' = FALSE /\ failures' = 0
      <3>1. UNCHANGED <<hung, serving, patience, clock, calm>>
        BY <1>3 DEF Probes!Live
      <3>2. /\ queue' \in Seq(Kinds) /\ Len(queue') <= Len(queue) /\ OneLive(queue') /\ NoLive(queue')
        BY <1>1, <2>1, TakenFromBacklog
      <3>3. Probes!TypeOK'
        BY <1>2, <2>1, <3>1, <3>2
      <3>4. CalmInv'
        BY <2>1, <3>1, <3>2
      <3> QED BY <3>3, <3>4
    <2>2. CASE Probes!Take("late") /\ UNCHANGED <<waiting, failures>>
      BY <1>1, <1>2, <1>3, <2>2, TakenFromBacklog DEF Probes!Live
    <2> QED BY <1>3, <2>1, <2>2 DEF Probes!Live
  <1>4. CASE Probes!Check
    <2>1. Probes!Take("check") /\ serving' = hung /\ UNCHANGED <<hung, clock, waiting, failures, calm>>
      BY <1>4 DEF Probes!Check
    <2>2. patience' \in 0 .. Hang
      BY <1>4 DEF Probes!Check
    <2> QED BY <1>1, <1>2, <2>1, <2>2, TakenFromBacklog
  <1>5. CASE Probes!Answer
    <2>1. /\ serving' = FALSE /\ patience' = 0 /\ UNCHANGED <<hung, queue, clock, waiting, failures, calm>>
      BY <1>5 DEF Probes!Answer
    <2>2. Probes!TypeOK'
      BY <2>1
    <2>3. CalmInv'
      BY <2>1
    <2> QED BY <2>2, <2>3
  <1> QED BY <1>3, <1>4, <1>5 DEF Probes!ServerThread

\* A tick passes.
LEMMA TickStep ==
  ASSUME Probes!ProbesAssumption, ProbesIInv, Probes!Tick
  PROVE  ProbesIInv'
  <1> DEFINE q == IF waiting THEN Probes!GivenUp(queue) ELSE queue
             sent == (clock + 1) % LivePeriod = 0
  <1>1. /\ Backlog \in Nat /\ Backlog > 1 /\ Hang \in Nat \ {0} /\ LivePeriod \in Nat /\ LivePeriod > 1
        /\ Threshold \in Nat
    BY ProbesBounds
  <1>2. /\ queue \in Seq(Kinds) /\ Len(queue) <= Backlog /\ clock \in 0 .. LivePeriod - 1
        /\ failures \in 0 .. Threshold /\ patience \in 0 .. Hang /\ calm \in 0 .. Hang + LivePeriod + 1
        /\ hung \in BOOLEAN /\ serving \in BOOLEAN /\ waiting \in BOOLEAN
    BY DEF ProbesIInv, Probes!TypeOK, Probes!Enough, Kinds
  <1>3. /\ failures < Threshold /\ (serving => patience > 0) /\ (~serving => queue = <<>>)
        /\ patience' = IF serving THEN patience - 1 ELSE 0
        /\ clock' = (clock + 1) % LivePeriod
        /\ failures' = IF waiting THEN failures + 1 ELSE failures
        /\ waiting' = sent
        /\ calm' = IF hung THEN 0 ELSE IF calm < Hang + LivePeriod + 1 THEN calm + 1 ELSE calm
        /\ UNCHANGED <<hung, serving>>
    BY DEF Probes!Tick, Probes!Enough
  <1>4. queue' \in LET p == IF sent THEN Probes!Join(q, "live") ELSE q IN
                  {p, Probes!Join(p, "check"),
                   IF sent THEN Probes!Join(Probes!Join(q, "check"), "live") ELSE p}
    BY DEF Probes!Tick
  <1>5. q \in Seq(Kinds) /\ Len(q) = Len(queue) /\ NoLive(q)
    <2>1. CASE waiting
      <3>1. q = [i \in 1 .. Len(queue) |-> IF queue[i] = "live" THEN "late" ELSE queue[i]]
        BY <1>2, <2>1 DEF Probes!GivenUp
      <3>2. \A i \in 1 .. Len(queue) : queue[i] \in Kinds
        BY <1>2
      <3>3. "late" \in Kinds /\ Len(queue) \in Nat
        BY <1>2 DEF Kinds
      <3> HIDE DEF q
      <3>4. q \in [1 .. Len(queue) -> Kinds]
        BY <3>1, <3>2, <3>3
      <3>5. q \in Seq(Kinds) /\ Len(q) = Len(queue)
        BY <3>3, <3>4
      <3> QED BY <3>1, <3>5 DEF NoLive
    <2>2. CASE ~waiting
      BY <1>2, <2>2 DEF ProbesIInv, CalmInv
    <2> QED BY <2>1, <2>2
  <1> HIDE DEF q
  <1>6. /\ queue' \in Seq(Kinds) /\ Len(queue') <= Backlog /\ OneLive(queue')
        /\ ~sent => NoLive(queue')
        /\ sent /\ ~serving => ~NoLive(queue')
    <2> DEFINE l == Probes!Join(q, "live")
               c == Probes!Join(q, "check")
    <2>1. "live" \in Kinds /\ "check" \in Kinds /\ Len(q) <= Backlog
      BY <1>2, <1>5 DEF Kinds
    <2>2. /\ l \in Seq(Kinds) /\ Len(l) <= Backlog /\ OneLive(l)
          /\ c \in Seq(Kinds) /\ Len(c) <= Backlog /\ NoLive(c)
      BY <1>5, <2>1, JoinsBacklog
    <2>3. Len(q) = 0 => ~NoLive(l) /\ Len(c) < Backlog
      <3>1. Len(q) = 0 => ~NoLive(l)
        <4>1. Len(q) = 0 => Len(q) < Backlog
          BY <1>1
        <4> HIDE DEF l
        <4> QED BY <1>5, <2>1, <4>1, JoinsBacklog DEF l
      <3>2. Len(q) = 0 => Len(c) = 1
        BY <1>1, <1>5 DEF Probes!Join
      <3> QED BY <1>1, <3>1, <3>2
    <2>4. ~serving => Len(q) = 0
      BY <1>3, <1>5
    <2>5. OneLive(q)
      BY <1>5 DEF NoLive, OneLive
    <2> HIDE DEF l, c
    <2>6. CASE sent
      <3>1. queue' \in {l, Probes!Join(l, "check"), Probes!Join(c, "live")}
        BY <1>4, <2>6 DEF l, c
      <3>2. CASE queue' = l
        BY <2>2, <2>3, <2>4, <2>6, <3>2
      <3>3. CASE queue' = Probes!Join(l, "check")
        BY <2>1, <2>2, <2>3, <2>4, <2>6, <3>3, JoinsBacklog
      <3>4. CASE queue' = Probes!Join(c, "live")
        BY <2>1, <2>2, <2>3, <2>4, <2>6, <3>4, JoinsBacklog
      <3> QED BY <3>1, <3>2, <3>3, <3>4
    <2>7. CASE ~sent
      <3>1. queue' \in {q, c}
        BY <1>4, <2>7 DEF c
      <3> QED BY <1>5, <2>1, <2>2, <2>5, <2>7, <3>1 DEF NoLive, OneLive
    <2> QED BY <2>6, <2>7
  <1>7. (clock + 1 < LivePeriod => clock' = clock + 1 /\ ~sent) /\ (clock + 1 = LivePeriod => clock' = 0 /\ sent)
    BY <1>1, <1>2, <1>3
  <1>8. clock + 1 < LivePeriod \/ clock + 1 = LivePeriod
    BY <1>1, <1>2
  <1> HIDE DEF sent
  <1>9. Probes!TypeOK'
    <2>1. waiting' \in BOOLEAN
      BY <1>3 DEF sent
    <2>2. clock' \in 0 .. LivePeriod - 1
      BY <1>1, <1>2, <1>7, <1>8
    <2> QED BY <1>1, <1>2, <1>3, <1>6, <2>1, <2>2 DEF Probes!TypeOK, Probes!Enough, Kinds, OneLive
  <1>10. calm > Hang => ~serving /\ queue = <<>> /\ ~waiting
    BY <1>1, <1>2, <1>3 DEF ProbesIInv, CalmInv, NoLive
  <1>11. calm' > Hang => ~serving
    BY <1>1, <1>2, <1>3 DEF ProbesIInv, CalmInv
  <1>12. failures' > 0 /\ calm' > Hang => \/ calm' - Hang <= clock'
                                          \/ waiting' /\ calm' - Hang <= LivePeriod
    <2> SUFFICES ASSUME failures' > 0, calm' > Hang
                 PROVE  \/ calm' - Hang <= clock'
                        \/ waiting' /\ calm' - Hang <= LivePeriod
      OBVIOUS
    <2>1. ~hung /\ calm' <= calm + 1 /\ calm >= Hang
      BY <1>1, <1>2, <1>3
    <2>2. CASE calm = Hang
      BY <1>1, <1>2, <1>3, <1>7, <1>8, <2>1, <2>2
    <2>3. CASE calm > Hang
      <3>1. failures > 0 /\ calm - Hang <= clock
        BY <1>3, <1>10, <2>3 DEF ProbesIInv, CalmInv
      <3> QED BY <1>1, <1>2, <1>3, <1>7, <1>8, <2>1, <3>1
    <2> QED BY <1>1, <1>2, <2>1, <2>2, <2>3
  <1>13. CalmInv'
    BY <1>1, <1>2, <1>3, <1>6, <1>7, <1>8, <1>11, <1>12 DEF ProbesIInv, CalmInv
  <1> QED BY <1>9, <1>13 DEF ProbesIInv

\* Hang + LivePeriod + 1 ticks after the last outage no probe has failed since one was
\* answered, whatever requests the outage has left in the backlog; the backlog has room for a
\* probe and one more request.
THEOREM ProbesRecover == Probes!Spec => []ProbesInv
  <1>0. ASSUME NEW q, q = <<>>
        PROVE  /\ q \in Seq({"check", "live", "late"}) /\ Len(q) <= Backlog /\ NoLive(q)
               /\ \A i, j \in DOMAIN q : q[i] = "live" /\ q[j] = "live" => i = j
    <2>1. Len(q) = 0 /\ DOMAIN q = {} /\ q \in Seq({"check", "live", "late"})
      BY <1>0
    <2> QED BY <2>1, ProbesBounds, ProbesConstants DEF NoLive
  <1>1. Probes!Init => ProbesIInv
    <2> SUFFICES ASSUME Probes!Init PROVE ProbesIInv
      OBVIOUS
    <2>1. /\ queue \in Seq({"check", "live", "late"}) /\ Len(queue) <= Backlog /\ NoLive(queue)
          /\ \A i, j \in DOMAIN queue : queue[i] = "live" /\ queue[j] = "live" => i = j
      BY <1>0 DEF Probes!Init
    <2>2. Probes!Enough \in 0 .. Probes!Enough
      BY ProbesBounds, ProbesConstants DEF Probes!Enough
    <2>3. Probes!TypeOK
      BY <2>1, <2>2, ProbesBounds, ProbesConstants DEF Probes!Init, Probes!TypeOK
    <2>4. CalmInv
      BY <2>1 DEF Probes!Init, CalmInv
    <2> QED BY <2>3, <2>4 DEF ProbesIInv
  <1>2. ProbesIInv /\ [Probes!Next]_Probes!vars => ProbesIInv'
    <2>1. ASSUME ProbesIInv, UNCHANGED Probes!vars PROVE ProbesIInv'
      BY <2>1 DEF Probes!vars, ProbesIInv, Probes!TypeOK, CalmInv, NoLive
    <2>2. ASSUME ProbesIInv, Probes!Kill PROVE ProbesIInv'
      <3>1. /\ queue' \in Seq({"check", "live", "late"}) /\ Len(queue') <= Backlog /\ NoLive(queue')
            /\ \A i, j \in DOMAIN queue' : queue'[i] = "live" /\ queue'[j] = "live" => i = j
        BY <1>0, <2>2 DEF Probes!Kill
      <3>2. /\ serving' = FALSE /\ patience' = 0 /\ clock' = 1 /\ waiting' = FALSE /\ failures' = 0
            /\ UNCHANGED <<hung, calm>>
        BY <2>2 DEF Probes!Kill
      <3>3. Probes!TypeOK'
        BY <2>2, <3>1, <3>2, ProbesBounds, ProbesConstants DEF ProbesIInv, Probes!TypeOK, Probes!Enough
      <3>4. CalmInv'
        BY <2>2, <3>1, <3>2 DEF ProbesIInv, CalmInv
      <3> QED BY <3>3, <3>4 DEF ProbesIInv
    <2>3. ASSUME ProbesIInv, Probes!Outage PROVE ProbesIInv'
      BY <2>3, ProbesBounds, ProbesConstants DEF Probes!Outage, ProbesIInv, Probes!TypeOK, Probes!Enough, CalmInv, NoLive
    <2> QED BY <2>1, <2>2, <2>3, ServerStep, TickStep, ProbesConstants DEF Probes!Next
  <1>3. ProbesIInv => ProbesInv
    <2> SUFFICES ASSUME ProbesIInv, failures > 0 PROVE calm < Probes!Enough
      BY DEF ProbesIInv, ProbesInv, Probes!ProbesInv, Probes!FailsAfterHang
    <2>1. /\ Hang \in Nat /\ LivePeriod \in Nat /\ clock \in 0 .. LivePeriod - 1
          /\ calm \in 0 .. Hang + LivePeriod + 1
      BY ProbesBounds, ProbesConstants DEF ProbesIInv, Probes!TypeOK, Probes!Enough
    <2> QED BY <2>1 DEF ProbesIInv, CalmInv, Probes!Enough
  <1> QED BY <1>1, <1>2, <1>3, PTL DEF Probes!Spec
=============================================================================
