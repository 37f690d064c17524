-------------------------- MODULE RetentionProofs ---------------------------
(***************************************************************************)
(* Proofs about Retention, for every calendar, any number of writers and   *)
(* of retentions, and every bound: what is deleted is what the policy no   *)
(* longer asks for.  A plan is carried out long after it is made, so the   *)
(* invariant speaks of plans: each backup a plan names, and each one       *)
(* already deleted, may be forgotten and so it stays.  Hence the current   *)
(* month is kept whole, last month keeps the newest backup of each week,   *)
(* and a month its latest as long as backups finish in order.  A finished  *)
(* retention leaves no more than the policy keeps, and with one retention  *)
(* at a time a month keeps a backup in any case.  The dates are those of   *)
(* the Gregorian calendar in every year.                                   *)
(***************************************************************************)
EXTENDS MCRetention, NaturalLemmas, TLAPS

\* The policy does not ask for o any more.
Justified(o) == Promise!MayForget(o)

\* Keys are never used twice, so an upload only adds to what is stored.
KeysInv == /\ \A o, p \in stored : o.key = p.key => o = p
           /\ \A w \in Writer : \A o \in stored : o.key # writing[w]
           /\ \A v, w \in Writer : writing[v] = writing[w] => v = w \/ writing[v] = 0

RunInv(r) == /\ run[r].today <= now
             /\ run[r].listed \subseteq stored
             /\ \A o \in run[r].plan : o \in stored /\ Justified(o)

IInv == /\ TypeOK
        /\ objects \subseteq stored
        /\ KeysInv
        /\ \A o \in stored \ objects : Justified(o)
        /\ \A r \in Retainer : RunInv(r)
-----------------------------------------------------------------------------
\* A non-empty set of backups with distinct keys has a newest one.
LEMMA NewestIsNewest ==
  ASSUME NEW S \in SUBSET Backups, S # {}, \A o, p \in S : o.key = p.key => o = p
  PROVE  Newest(S) \in S /\ \A p \in S \ {Newest(S)} : Newer(Newest(S), p)
  <1>1. \A o \in S : o.key \in Nat /\ o.at \in 1 .. Horizon
    BY RetentionAssumption DEF Instants, Backups
  <1> DEFINE Left == {Horizon - o.at : o \in S}
  <1>2. Left # {} /\ Left \in SUBSET Nat
    BY <1>1, RetentionAssumption
  <1>3. PICK l \in Left : \A k \in Left : l <= k
    <2> HIDE DEF Left
    <2> QED BY <1>2, SmallestExists
  <1> DEFINE Last == {o \in S : Horizon - o.at = l}
             Keys == {o.key : o \in Last}
  <1>4. Keys # {} /\ Keys \in SUBSET Nat
    BY <1>1, <1>3
  <1>5. PICK k \in Keys : \A j \in Keys : k <= j
    <2> HIDE DEF Keys
    <2> QED BY <1>4, SmallestExists
  <1>6. PICK o \in Last : o.key = k
    BY <1>5
  <1>7. \A p \in S \ {o} : Newer(o, p)
    <2> SUFFICES ASSUME NEW p \in S \ {o} PROVE Newer(o, p)
      OBVIOUS
    <2>1. o \in S /\ Horizon - o.at = l /\ Horizon - p.at \in Left
      BY <1>6
    <2>2. l <= Horizon - p.at
      <3> HIDE DEF Left
      <3> QED BY <1>3, <2>1
    <2>3. /\ o.at \in Nat /\ p.at \in Nat /\ o.key \in Nat /\ p.key \in Nat /\ Horizon \in Nat
          /\ o.key # p.key
      BY <1>1, <2>1, RetentionAssumption
    <2>4. o.at >= p.at
      BY <2>1, <2>2, <2>3
    <2>5. CASE p \in Last
      <3>1. p.key \in Keys
        BY <2>5
      <3>2. k <= p.key
        BY <1>5, <3>1
      <3>3. o.at = p.at
        BY <2>1, <2>3, <2>5
      <3>4. o.key <= p.key
        BY <1>6, <3>2
      <3> HIDE DEF Last
      <3> QED BY <2>3, <3>3, <3>4 DEF Newer
    <2>6. CASE p \notin Last
      <3>1. o.at # p.at
        BY <2>1, <2>6
      <3> QED BY <2>3, <2>4, <3>1 DEF Newer
    <2> QED BY <2>5, <2>6
  <1>8. o \in S
    BY <1>6
  <1> HIDE DEF Last
  <1> QED BY <1>7, <1>8 DEF Newest

\* Newer is antisymmetric.
LEMMA NewerOneWay ==
  ASSUME NEW o \in Backups, NEW p \in Backups, Newer(o, p)
  PROVE  ~Newer(p, o)
  BY RetentionAssumption DEF Newer, Backups, Instants

\* Time and new backups do not take a justification away.
LEMMA MayForgetStays ==
  ASSUME now \in Instants, now' \in Instants, now <= now',
         stored \subseteq stored', NEW o \in stored, o \in Backups, Justified(o)
  PROVE  Justified(o)'
  <1>1. /\ Month[now] <= Month[now'] /\ Month[now] \in Nat /\ Month[now'] \in Nat
        /\ Month[o.key] \in Nat /\ KeepMonths \in Nat
    BY RetentionAssumption DEF Backups
  <1>2. Promise!InOrder' => Promise!InOrder
    BY DEF Promise!InOrder
  <1>3. CASE Month[o.key] + KeepMonths < Month[now]
    BY <1>1, <1>3 DEF Justified, Promise!MayForget
  <1>4. CASE Month[o.key] < Month[now] /\ \E p \in stored : Promise!Covers(p, o)
    <2>1. PICK p \in stored : Promise!Covers(p, o)
      BY <1>4
    <2>2. Month[o.key] + 1 = Month[now'] => Month[o.key] + 1 = Month[now]
      BY <1>1, <1>4
    <2>3. Promise!Covers(p, o)'
      BY <1>2, <2>1, <2>2 DEF Promise!Covers, Promise!Newer
    <2> QED BY <1>1, <1>4, <2>3 DEF Justified, Promise!MayForget
  <1> QED BY <1>3, <1>4 DEF Justified, Promise!MayForget

\* The same for a step of Retention.
LEMMA JustifiedStays ==
  ASSUME TypeOK, TypeOK', stored \subseteq stored', now <= now',
         NEW o \in stored, Justified(o)
  PROVE  Justified(o)'
  BY MayForgetStays DEF TypeOK

\* Among backups that finished in order, the newest one is the latest.
LEMMA LaterIsNewer ==
  ASSUME IInv, Promise!InOrder, NEW o \in stored, NEW p \in stored
  PROVE  /\ o.key < p.key => o.at < p.at
         /\ o # p /\ Newer(p, o) => p.at > o.at
  <1>1. /\ o.key \in Nat /\ o.at \in Nat /\ p.key \in Nat /\ p.at \in Nat
    BY RetentionAssumption DEF IInv, TypeOK, Backups, Instants
  <1>2. (o.key < p.key => o.at < p.at) /\ (p.key < o.key => p.at < o.at) /\ (o.key = p.key => o = p)
    BY DEF Promise!InOrder, IInv, KeysInv
  <1> QED BY <1>1, <1>2 DEF Newer

\* Every backup that a plan names is justified on the day the plan is made.
LEMMA PlanIsJustified ==
  ASSUME IInv, NEW r \in Retainer,
         NEW o \in ToDelete(run[r].listed, objects, Month[run[r].today])
  PROVE  o \in stored /\ Justified(o)
  <1>1. PICK S \in SUBSET stored, m \in Nat : /\ S = run[r].listed /\ m = Month[run[r].today]
                                               /\ m <= Month[now]
    BY RetentionAssumption DEF IInv, TypeOK, RunInv, Runs
  <1>2. /\ stored \subseteq Backups /\ \A a, b \in stored : a.key = b.key => a = b
        /\ \A a \in stored : Month[a.key] \in Nat /\ a.key \in Instants
        /\ objects \subseteq stored /\ Month[now] \in Nat /\ KeepMonths \in Nat
    BY RetentionAssumption DEF IInv, TypeOK, KeysInv, Backups
  <1>3. ASSUME NEW k, NEW W \in SUBSET InMonth(S, k), W # {}
        PROVE  /\ Newest(W) \in W
               /\ \A q \in W \ {Newest(W)} : /\ Newer(Newest(W), q)
                                             /\ Promise!InOrder => Newest(W).at > q.at
    <2>1. W \in SUBSET Backups /\ W \subseteq stored
      BY <1>2 DEF InMonth
    <2>2. Newest(W) \in W /\ \A q \in W \ {Newest(W)} : Newer(Newest(W), q)
      BY <1>2, <1>3, <2>1, NewestIsNewest
    <2>3. PICK n \in W : n = Newest(W)
      BY <2>2
    <2> HIDE DEF Newest
    <2> QED BY <2>1, <2>2, <2>3, LaterIsNewer
  <1>4. CASE o \in WeeklyCollapsed(S, m)
    <2>1. PICK k \in MonthsOf(S) : k + 1 = m /\ o \in InMonth(S, k) \ WeeklyKeepers(InMonth(S, k))
      BY <1>4 DEF WeeklyCollapsed
    <2>2. PICK W \in SUBSET InMonth(S, k) : W = InWeek(InMonth(S, k), Week[o.key])
      BY DEF InWeek
    <2>3. o \in W /\ Newest(W) # o
      BY <2>1, <2>2 DEF InWeek, WeeklyKeepers
    <2>4. PICK n \in W : n # o /\ Newer(n, o) /\ (Promise!InOrder => n.at > o.at)
      BY <1>3, <2>3
    <2>5. /\ n \in stored /\ o \in stored /\ Month[n.key] = Month[o.key] /\ Week[n.key] = Week[o.key]
          /\ Month[o.key] = k
      BY <2>1, <2>2, <2>4 DEF InMonth, InWeek
    <2>6. Promise!Covers(n, o)
      BY <2>4, <2>5 DEF Promise!Covers, Promise!Newer, Newer
    <2>7. Month[o.key] < Month[now]
      BY <1>1, <1>2, <2>1, <2>5
    <2> QED BY <2>5, <2>6, <2>7 DEF Justified, Promise!MayForget
  <1>5. CASE o \in MonthlyCollapsed(S, m)
    <2>1. PICK k \in MonthsOf(S) : k + 1 < m /\ o \in InMonth(S, k) \ {MonthlyKeeper(InMonth(S, k))}
      BY <1>5 DEF MonthlyCollapsed
    <2>2. PICK L \in SUBSET InMonth(S, k) : L = {a \in InMonth(S, k) : a.key \in LastWeek}
      OBVIOUS
    <2>3. PICK n \in InMonth(S, k) : n # o /\ (Promise!InOrder => n.at > o.at)
      <3>1. CASE L = {}
        <4>1. MonthlyKeeper(InMonth(S, k)) = Newest(InMonth(S, k))
          BY <2>2, <3>1 DEF MonthlyKeeper
        <4> QED BY <1>3, <2>1, <4>1
      <3>2. CASE L # {}
        <4>1. MonthlyKeeper(InMonth(S, k)) = Newest(L)
          BY <2>2, <3>2 DEF MonthlyKeeper
        <4>2. PICK n \in L : n = Newest(L) /\ n # o /\ \A q \in L \ {n} : Promise!InOrder => n.at > q.at
          BY <1>3, <2>1, <3>2, <4>1
        <4>3. CASE o \in L
          BY <4>2, <4>3
        <4>4. CASE o \notin L
          <5>1. /\ n \in stored /\ o \in stored /\ Month[n.key] = Month[o.key]
                /\ n.key \in LastWeek /\ o.key \notin LastWeek
            BY <2>1, <2>2, <4>2, <4>4 DEF InMonth
          <5>2. ~(n.key <= o.key)
            BY <1>2, <5>1, RetentionAssumption
          <5>3. o.key < n.key
            BY <1>2, <5>1, <5>2 DEF Instants
          <5> QED BY <4>2, <5>1, <5>3, LaterIsNewer
        <4> QED BY <4>3, <4>4
      <3> QED BY <3>1, <3>2
    <2>4. n \in stored /\ o \in stored /\ Month[n.key] = Month[o.key] /\ Month[o.key] = k
      BY <2>1, <2>3 DEF InMonth
    <2>5. Month[o.key] < Month[now] /\ Month[o.key] + 1 # Month[now]
      BY <1>1, <1>2, <2>1, <2>4
    <2>6. Promise!Covers(n, o)
      BY <2>3, <2>4, <2>5 DEF Promise!Covers
    <2> QED BY <2>4, <2>5, <2>6 DEF Justified, Promise!MayForget
  <1>6. CASE o \in Expired(objects, m)
    <2>1. o \in stored /\ Month[o.key] + KeepMonths < m
      BY <1>2, <1>6 DEF Expired
    <2> QED BY <1>1, <1>2, <2>1 DEF Justified, Promise!MayForget
  <1> QED BY <1>1, <1>4, <1>5, <1>6 DEF ToDelete
-----------------------------------------------------------------------------
(* What the steps have in common *)

\* A step that leaves the backups and the keys alone, and the time, keeps all
\* of the invariant but the types and what it says of retentions.
LEMMA SameBackups ==
  ASSUME IInv, TypeOK', UNCHANGED <<objects, stored, writing>>, now <= now'
  PROVE  /\ objects' \subseteq stored' /\ KeysInv'
         /\ \A o \in stored' \ objects' : Justified(o)'
  <1>1. objects' \subseteq stored' /\ KeysInv'
    BY DEF IInv, KeysInv
  <1>2. \A o \in stored \ objects : Justified(o)'
    BY JustifiedStays DEF IInv
  <1> QED BY <1>1, <1>2

\* A retention whose local variables stay put keeps its part of the invariant.
LEMMA RunStays ==
  ASSUME IInv, TypeOK', NEW r \in Retainer, run'[r] = run[r],
         stored \subseteq stored', now <= now'
  PROVE  RunInv(r)'
  <1>1. TypeOK /\ RunInv(r)
    BY DEF IInv
  <1>2. run[r].today \in Nat /\ now \in Nat /\ now' \in Nat
    BY <1>1, RetentionAssumption DEF TypeOK, Runs, Instants
  <1>3. \A o \in run[r].plan : o \in stored' /\ Justified(o)'
    BY <1>1, JustifiedStays DEF RunInv
  <1> QED BY <1>1, <1>2, <1>3 DEF RunInv

\* A step of one retention that deletes nothing keeps the invariant if it
\* keeps what the invariant says of that retention.
LEMMA RetainerStep ==
  ASSUME IInv, TypeOK', NEW r \in Retainer, NEW v,
         run' = [run EXCEPT ![r] = v],
         UNCHANGED <<now, objects, stored, writing>>, RunInv(r)'
  PROVE  IInv'
  <1>1. now <= now' /\ stored \subseteq stored'
    BY RetentionAssumption DEF IInv, TypeOK, Instants
  <1>2. \A q \in Retainer \ {r} : run'[q] = run[q]
    BY DEF IInv, TypeOK
  <1>3. \A q \in Retainer : RunInv(q)'
    BY <1>1, <1>2, RunStays
  <1> QED BY <1>1, <1>3, SameBackups DEF IInv
-----------------------------------------------------------------------------
(* Types *)

\* A plan deletes only what one of its two listings holds.
LEMMA PlanIsListed ==
  ASSUME NEW S, NEW T, NEW m
  PROVE  ToDelete(S, T, m) \subseteq S \cup T
  BY DEF ToDelete, WeeklyCollapsed, MonthlyCollapsed, Expired, InMonth

\* The initial values of a retention have their types.
LEMMA NoRunType == NoRun \in Runs /\ [NoRun EXCEPT !.applying = TRUE] \in Runs
  <1>1. 1 \in Instants
    BY RetentionAssumption DEF Instants
  <1> QED BY <1>1 DEF NoRun, Runs

\* Every step keeps the types.
LEMMA TypeStep == TypeOK /\ [Next]_vars => TypeOK'
  <1> SUFFICES ASSUME TypeOK, [Next]_vars PROVE TypeOK'
    OBVIOUS
  <1> USE DEF TypeOK
  <1>1. CASE \E w \in Writer : BeginBackup(w)
    <2>1. \A t \in Instants : t \in 0 .. Horizon
      BY RetentionAssumption DEF Instants
    <2> QED BY <1>1, <2>1 DEF BeginBackup
  <1>2. CASE \E w \in Writer : Upload(w)
    <2> PICK w \in Writer : Upload(w)
      BY <1>2
    <2>1. writing[w] \in Instants
      BY RetentionAssumption DEF Upload, Instants
    <2>2. [key |-> writing[w], at |-> now] \in Backups
      BY <2>1 DEF Backups
    <2>3. writing' \in [Writer -> 0 .. Horizon]
      BY RetentionAssumption DEF Upload
    <2> QED BY <2>2, <2>3 DEF Upload, Put
  <1>3. CASE \E w \in Writer : Abandon(w)
    BY <1>3, RetentionAssumption DEF Abandon
  <1>4. ASSUME NEW r \in Retainer, Begin(r) PROVE TypeOK'
    BY <1>4 DEF Begin, Goto
  <1>5. ASSUME NEW r \in Retainer, List(r) PROVE TypeOK'
    <2>1. [run[r] EXCEPT !.today = now, !.listed = objects] \in Runs
      BY Zenon DEF Runs
    <2>2. run' = [run EXCEPT ![r] = [run[r] EXCEPT !.today = now, !.listed = objects]]
      BY <1>5 DEF List
    <2> QED BY <1>5, <2>1, <2>2 DEF List, Goto
  <1>6. ASSUME NEW r \in Retainer, Relist(r) PROVE TypeOK'
    <2> DEFINE plan == ToDelete(run[r].listed, objects, Month[run[r].today])
    <2>1. plan \subseteq Backups
      BY PlanIsListed DEF Runs
    <2>2. [run[r] EXCEPT !.plan = plan] \in Runs
      <3> HIDE DEF plan
      <3> QED BY <2>1, Zenon DEF Runs
    <2>3. run' = [run EXCEPT ![r] = [run[r] EXCEPT !.plan = plan]]
      BY <1>6 DEF Relist
    <2> HIDE DEF plan
    <2> QED BY <1>6, <2>2, <2>3 DEF Relist, Goto
  <1>7. ASSUME NEW r \in Retainer, Confirm(r) PROVE TypeOK'
    <2> DEFINE started == [NoRun EXCEPT !.applying = TRUE, !.preview = run[r].plan]
    <2>1. started \in Runs
      <3>1. run[r].plan \in SUBSET Backups
        BY DEF Runs
      <3>2. started = [[NoRun EXCEPT !.applying = TRUE] EXCEPT !.preview = run[r].plan]
        BY DEF NoRun
      <3> QED BY <3>1, <3>2, NoRunType, Zenon DEF Runs
    <2>2. run' = [run EXCEPT ![r] = started]
      BY <1>7 DEF Confirm
    <2> HIDE DEF started
    <2> QED BY <1>7, <2>1, <2>2 DEF Confirm, Goto
  <1>8. ASSUME NEW r \in Retainer, Delete(r) PROVE TypeOK'
    <2> PICK o \in run[r].plan : run' = [run EXCEPT ![r].plan = @ \ {o}]
      BY <1>8 DEF Delete
    <2>1. [run[r] EXCEPT !.plan = run[r].plan \ {o}] \in Runs
      <3>1. run[r].plan \ {o} \in SUBSET Backups
        BY DEF Runs
      <3> QED BY <3>1, Zenon DEF Runs
    <2>2. run' = [run EXCEPT ![r] = [run[r] EXCEPT !.plan = run[r].plan \ {o}]]
      OBVIOUS
    <2> QED BY <1>8, <2>1, <2>2 DEF Delete
  <1>9. ASSUME NEW r \in Retainer, Finish(r) PROVE TypeOK'
    BY <1>9 DEF Finish, Goto
  <1>10. ASSUME NEW r \in Retainer, Stop(r) PROVE TypeOK'
    BY <1>10, NoRunType DEF Stop, Goto
  <1>11. CASE Tick
    BY <1>11, RetentionAssumption DEF Tick, Instants
  <1>12. CASE UNCHANGED vars
    BY <1>12 DEF vars
  <1> QED BY <1>1, <1>2, <1>3, <1>4, <1>5, <1>6, <1>7, <1>8, <1>9, <1>10, <1>11, <1>12
          DEF Next, Retain
-----------------------------------------------------------------------------
(* The invariant *)

\* It holds at the start.
LEMMA InitIInv == Init => IInv
  <1> SUFFICES ASSUME Init PROVE IInv
    OBVIOUS
  <1>1. TypeOK
    BY NoRunType, RetentionAssumption DEF Init, TypeOK, Instants
  <1>2. \A r \in Retainer : RunInv(r)
    BY DEF Init, RunInv, NoRun
  <1> QED BY <1>1, <1>2 DEF Init, IInv, KeysInv

\* An upload adds a backup with a new key.
LEMMA UploadStep ==
  ASSUME IInv, TypeOK', NEW w \in Writer, Upload(w)
  PROVE  IInv'
  <1> DEFINE o == [key |-> writing[w], at |-> now]
  <1>1. TypeOK /\ KeysInv /\ objects \subseteq stored /\ now <= now'
    BY RetentionAssumption DEF IInv, Upload, TypeOK, Instants
  <1>2. objects' = objects \cup {o} /\ stored' = stored \cup {o}
    BY <1>1 DEF Upload, Put, KeysInv
  <1>3. KeysInv'
    <2>1. \A p \in stored : p.key # o.key
      BY <1>1 DEF KeysInv
    <2>2. \A p, q \in stored' : p.key = q.key => p = q
      BY <1>1, <1>2, <2>1 DEF KeysInv
    <2>3. writing' = [writing EXCEPT ![w] = 0] /\ writing[w] # 0
      BY DEF Upload
    <2>4. \A p \in stored' : p.key # 0
      BY RetentionAssumption DEF TypeOK, Backups, Instants
    <2>5. \A v \in Writer : \A p \in stored' : p.key # writing'[v]
      BY <1>1, <1>2, <2>3, <2>4 DEF KeysInv, TypeOK
    <2>6. \A u, v \in Writer : writing'[u] = writing'[v] => u = v \/ writing'[u] = 0
      BY <1>1, <2>3 DEF KeysInv, TypeOK
    <2> QED BY <2>2, <2>5, <2>6 DEF KeysInv
  <1>4. \A p \in stored' \ objects' : Justified(p)'
    <2>1. \A p \in stored' \ objects' : p \in stored /\ Justified(p)
      BY <1>2 DEF IInv
    <2> QED BY <1>1, <1>2, <2>1, JustifiedStays
  <1>5. \A r \in Retainer : RunInv(r)'
    BY <1>1, <1>2, RunStays DEF Upload
  <1> QED BY <1>1, <1>2, <1>3, <1>4, <1>5 DEF IInv

\* A deletion removes one backup, which its plan justifies.
LEMMA DeleteStep ==
  ASSUME IInv, TypeOK', NEW r \in Retainer, Delete(r)
  PROVE  IInv'
  <1>1. PICK o \in run[r].plan : /\ objects' = {p \in objects : p.key # o.key}
                                 /\ run' = [run EXCEPT ![r].plan = @ \ {o}]
    BY DEF Delete
  <1>2. TypeOK /\ KeysInv /\ objects \subseteq stored /\ RunInv(r) /\ o \in stored /\ Justified(o)
    BY DEF IInv, RunInv
  <1>3. UNCHANGED <<now, stored, writing>> /\ now <= now' /\ stored \subseteq stored'
    BY <1>2, RetentionAssumption DEF Delete, TypeOK, Instants
  <1>4. KeysInv'
    BY <1>2, <1>3 DEF KeysInv
  <1>5. \A p \in stored' \ objects' : p \in stored /\ Justified(p)
    BY <1>1, <1>2, <1>3 DEF IInv, KeysInv
  <1>6. \A p \in stored' \ objects' : Justified(p)'
    BY <1>2, <1>3, <1>5, JustifiedStays
  <1>7. RunInv(r)'
    <2>1. run[r] \in Runs /\ run'[r] = [run[r] EXCEPT !.plan = run[r].plan \ {o}]
      BY <1>1, <1>2 DEF TypeOK
    <2>2. /\ run'[r].plan \subseteq run[r].plan
          /\ run'[r].today = run[r].today /\ run'[r].listed = run[r].listed
      BY <2>1 DEF Runs
    <2>3. \A p \in run[r].plan : Justified(p)'
      BY <1>2, <1>3, JustifiedStays DEF RunInv
    <2> QED BY <1>2, <1>3, <2>2, <2>3 DEF RunInv
  <1>8. \A q \in Retainer \ {r} : run'[q] = run[q]
    BY <1>1, <1>2 DEF TypeOK
  <1>9. \A q \in Retainer : RunInv(q)'
    BY <1>3, <1>7, <1>8, RunStays
  <1> QED BY <1>1, <1>2, <1>3, <1>4, <1>6, <1>9 DEF IInv
-----------------------------------------------------------------------------
\* Every step keeps the invariant.
LEMMA NextIInv == IInv /\ [Next]_vars => IInv'
  <1> SUFFICES ASSUME IInv, [Next]_vars PROVE IInv'
    OBVIOUS
  <1>1. TypeOK /\ TypeOK' /\ KeysInv
    BY TypeStep DEF IInv
  <1>2. CASE \E w \in Writer : BeginBackup(w)
    <2> PICK w \in Writer : BeginBackup(w)
      BY <1>2
    <2>1. /\ UNCHANGED <<now, objects, run, stored>> /\ now <= now' /\ stored \subseteq stored'
          /\ writing' = [writing EXCEPT ![w] = now]
      BY <1>1, RetentionAssumption DEF BeginBackup, TypeOK, Instants
    <2>2. KeysInv'
      <3>1. \A v \in Writer : writing[v] # now
        BY DEF BeginBackup
      <3>2. \A o \in stored : o.key # now
        BY DEF BeginBackup
      <3> QED BY <1>1, <2>1, <3>1, <3>2 DEF KeysInv, TypeOK
    <2>3. \A o \in stored' \ objects' : Justified(o)'
      BY <1>1, <2>1, JustifiedStays DEF IInv
    <2>4. \A r \in Retainer : RunInv(r)'
      BY <1>1, <2>1, RunStays
    <2> QED BY <1>1, <2>1, <2>2, <2>3, <2>4 DEF IInv
  <1>3. CASE \E w \in Writer : Upload(w)
    BY <1>1, <1>3, UploadStep
  <1>4. CASE \E w \in Writer : Abandon(w)
    <2> PICK w \in Writer : Abandon(w)
      BY <1>4
    <2>1. /\ UNCHANGED <<now, objects, run, stored>> /\ now <= now' /\ stored \subseteq stored'
          /\ writing' = [writing EXCEPT ![w] = 0]
      BY <1>1, RetentionAssumption DEF Abandon, TypeOK, Instants
    <2>2. KeysInv'
      <3>1. \A o \in stored : o.key # 0
        BY <1>1, RetentionAssumption DEF TypeOK, Backups, Instants
      <3> QED BY <1>1, <2>1, <3>1 DEF KeysInv, TypeOK
    <2>3. \A o \in stored' \ objects' : Justified(o)'
      BY <1>1, <2>1, JustifiedStays DEF IInv
    <2>4. \A r \in Retainer : RunInv(r)'
      BY <1>1, <2>1, RunStays
    <2> QED BY <1>1, <2>1, <2>2, <2>3, <2>4 DEF IInv
  <1>5. ASSUME NEW r \in Retainer, Begin(r) \/ Finish(r) PROVE IInv'
    <2>1. UNCHANGED <<now, objects, stored, writing, run>> /\ now <= now' /\ stored \subseteq stored'
      BY <1>1, <1>5, RetentionAssumption DEF Begin, Finish, TypeOK, Instants
    <2>2. \A q \in Retainer : RunInv(q)'
      BY <1>1, <2>1, RunStays
    <2> QED BY <1>1, <2>1, <2>2, SameBackups DEF IInv
  <1>6. ASSUME NEW r \in Retainer, List(r) PROVE IInv'
    <2> DEFINE v == [run[r] EXCEPT !.today = now, !.listed = objects]
    <2>1. UNCHANGED <<now, objects, stored, writing>> /\ run' = [run EXCEPT ![r] = v]
      BY <1>6 DEF List
    <2>2. /\ run'[r].today = now /\ run'[r].listed = objects /\ run'[r].plan = run[r].plan
      BY <1>1, <2>1 DEF TypeOK, Runs
    <2>3. RunInv(r)'
      <3>1. RunInv(r) /\ objects \subseteq stored /\ now <= now'
        BY <1>1, <2>1, RetentionAssumption DEF IInv, TypeOK, Instants
      <3>2. \A o \in run[r].plan : o \in stored' /\ Justified(o)'
        BY <1>1, <2>1, <3>1, JustifiedStays DEF RunInv
      <3> QED BY <2>1, <2>2, <3>1, <3>2 DEF RunInv
    <2> HIDE DEF v
    <2> QED BY <1>1, <2>1, <2>3, RetainerStep
  <1>7. ASSUME NEW r \in Retainer, Relist(r) PROVE IInv'
    <2> DEFINE plan == ToDelete(run[r].listed, objects, Month[run[r].today])
               v == [run[r] EXCEPT !.plan = plan]
    <2>1. UNCHANGED <<now, objects, stored, writing>> /\ run' = [run EXCEPT ![r] = v]
      BY <1>7 DEF Relist
    <2>2. /\ run'[r].plan = plan
          /\ run'[r].today = run[r].today /\ run'[r].listed = run[r].listed
      <3> HIDE DEF plan
      <3> QED BY <1>1, <2>1 DEF TypeOK, Runs
    <2>3. \A o \in plan : o \in stored /\ Justified(o)
      BY PlanIsJustified
    <2>4. RunInv(r)'
      <3> HIDE DEF plan
      <3>1. RunInv(r) /\ now <= now' /\ stored \subseteq stored'
        BY <1>1, <2>1, RetentionAssumption DEF IInv, TypeOK, Instants
      <3>2. \A o \in plan : o \in stored' /\ Justified(o)'
        BY <1>1, <2>3, <3>1, JustifiedStays
      <3> QED BY <2>1, <2>2, <3>1, <3>2 DEF RunInv
    <2> HIDE DEF v
    <2> QED BY <1>1, <2>1, <2>4, RetainerStep
  <1>8. ASSUME NEW r \in Retainer, Confirm(r) \/ Stop(r) PROVE IInv'
    <2> DEFINE started == [NoRun EXCEPT !.applying = TRUE, !.preview = run[r].plan]
               Restarts(v) == /\ run' = [run EXCEPT ![r] = v]
                              /\ v.today = 1 /\ v.listed = {} /\ v.plan = {}
    <2>1. UNCHANGED <<now, objects, stored, writing>>
      BY <1>8 DEF Confirm, Stop
    <2>2. started.today = 1 /\ started.listed = {} /\ started.plan = {}
      BY DEF NoRun
    <2>3. Restarts(started) \/ Restarts(NoRun)
      <3>1. CASE Confirm(r)
        BY <2>2, <3>1, Zenon DEF Confirm
      <3>2. CASE Stop(r)
        BY <3>2 DEF Stop, NoRun
      <3> QED BY <1>8, <3>1, <3>2
    <2> HIDE DEF started
    <2>4. ASSUME NEW v, Restarts(v) PROVE IInv'
      <3>1. run'[r] = v
        BY <1>1, <2>4 DEF TypeOK
      <3>2. RunInv(r)'
        BY <1>1, <2>4, <3>1, RetentionAssumption DEF RunInv, TypeOK, Instants
      <3> QED BY <1>1, <2>1, <2>4, <3>2, RetainerStep
    <2> HIDE DEF Restarts
    <2> QED BY <2>3, <2>4
  <1>9. ASSUME NEW r \in Retainer, Delete(r) PROVE IInv'
    BY <1>1, <1>9, DeleteStep
  <1>10. CASE Tick \/ UNCHANGED vars
    <2>1. UNCHANGED <<objects, stored, writing, run>> /\ now <= now' /\ stored \subseteq stored'
      BY <1>1, <1>10, RetentionAssumption DEF Tick, vars, TypeOK, Instants
    <2>2. \A q \in Retainer : RunInv(q)'
      BY <1>1, <2>1, RunStays
    <2> QED BY <1>1, <2>1, <2>2, SameBackups DEF IInv
  <1> QED BY <1>2, <1>3, <1>4, <1>5, <1>6, <1>7, <1>8, <1>9, <1>10 DEF Next, Retain

\* The invariant holds throughout every behaviour.
LEMMA Invariant == Spec => []IInv
  BY InitIInv, NextIInv, PTL DEF Spec

\* Every variable keeps its type, for every calendar and every bound.
THEOREM TypeCorrect == Spec => []TypeOK
  <1>1. IInv => TypeOK
    BY DEF IInv
  <1> QED BY <1>1, Invariant, PTL
-----------------------------------------------------------------------------
(* What a finished retention leaves *)

\* What is left of the backups a retention listed when its plan has been carried out.
Left(r) == (objects \cap run[r].listed) \ run[r].plan

Collapsed(S, m) ==
  \A o \in S :
    /\ Month[o.key] + KeepMonths >= m
    /\ \A p \in S \ {o} :
         /\ Month[o.key] + 1 < m => Month[p.key] # Month[o.key]
         /\ Month[o.key] + 1 = m /\ Month[p.key] + 1 = m => Week[p.key] # Week[o.key]

DoneInv(r) ==
  /\ pc[r] \in {"delete", "done"} => Collapsed(Left(r), Month[run[r].today])
  /\ pc[r] = "done" => run[r].plan = {}

\* A plan spares one backup of each month, or week, and none that has expired.
LEMMA PlanCollapses ==
  ASSUME IInv, NEW S \in SUBSET stored, NEW T \in SUBSET stored, NEW m \in Nat
  PROVE  Collapsed((T \cap S) \ ToDelete(S, T, m), m)
  <1>1. stored \subseteq Backups /\ \A o, p \in stored : o.key = p.key => o = p
    BY DEF IInv, TypeOK, KeysInv
  <1> SUFFICES ASSUME NEW o \in (T \cap S) \ ToDelete(S, T, m)
               PROVE  /\ Month[o.key] + KeepMonths >= m
                      /\ \A p \in (T \cap S) \ ToDelete(S, T, m) : p # o =>
                           /\ Month[o.key] + 1 < m => Month[p.key] # Month[o.key]
                           /\ Month[o.key] + 1 = m /\ Month[p.key] + 1 = m => Week[p.key] # Week[o.key]
    BY DEF Collapsed
  <1>2. /\ o \in S /\ o \in T /\ Month[o.key] \in Nat
        /\ o \notin WeeklyCollapsed(S, m) /\ o \notin MonthlyCollapsed(S, m) /\ o \notin Expired(T, m)
    BY <1>1, RetentionAssumption DEF ToDelete, Backups
  <1>3. Month[o.key] + KeepMonths >= m
    BY <1>2, RetentionAssumption DEF Expired
  <1>4. ASSUME NEW p \in (T \cap S) \ ToDelete(S, T, m), Month[o.key] + 1 < m, Month[p.key] = Month[o.key]
        PROVE  p = o
    <2> DEFINE k == Month[o.key]
    <2>1. k \in MonthsOf(S) /\ o \in InMonth(S, k) /\ p \in InMonth(S, k)
      BY <1>2, <1>4 DEF MonthsOf, InMonth
    <2>2. p \notin MonthlyCollapsed(S, m)
      BY <1>4 DEF ToDelete
    <2> QED BY <1>2, <1>4, <2>1, <2>2 DEF MonthlyCollapsed
  <1>5. ASSUME NEW p \in (T \cap S) \ ToDelete(S, T, m), Month[o.key] + 1 = m, Month[p.key] + 1 = m,
               Week[p.key] = Week[o.key]
        PROVE  p = o
    <2>1. PICK k \in Nat : k = Month[o.key]
      BY <1>2
    <2>2. Month[p.key] = k
      BY <1>1, <1>2, <1>5, <2>1, RetentionAssumption DEF Backups
    <2>3. k \in MonthsOf(S) /\ o \in InMonth(S, k) /\ p \in InMonth(S, k) /\ k + 1 = m
      BY <1>2, <1>5, <2>1, <2>2 DEF MonthsOf, InMonth
    <2>4. p \notin WeeklyCollapsed(S, m)
      BY <1>5 DEF ToDelete
    <2>5. o \in WeeklyKeepers(InMonth(S, k)) /\ p \in WeeklyKeepers(InMonth(S, k))
      BY <1>2, <2>3, <2>4 DEF WeeklyCollapsed
    <2> DEFINE W(w) == InWeek(InMonth(S, k), w)
    <2>6. ASSUME NEW q \in WeeklyKeepers(InMonth(S, k)) PROVE q = Newest(W(Week[q.key]))
      <3>1. PICK x \in InMonth(S, k) : q = Newest(W(Week[x.key]))
        BY <2>6 DEF WeeklyKeepers
      <3>2. x \in W(Week[x.key]) /\ W(Week[x.key]) \subseteq stored
        BY DEF InWeek, InMonth
      <3>3. q \in W(Week[x.key])
        <4>1. PICK V \in SUBSET Backups : V = W(Week[x.key]) /\ V # {} /\ V \subseteq stored
          BY <1>1, <3>2
        <4>2. Newest(V) \in V
          BY <1>1, <4>1, NewestIsNewest
        <4> QED BY <3>1, <4>1, <4>2
      <3>4. Week[q.key] = Week[x.key]
        BY <3>3 DEF InWeek
      <3> HIDE DEF W
      <3> QED BY <3>1, <3>4
    <2> HIDE DEF W
    <2> QED BY <1>5, <2>5, <2>6
  <1> QED BY <1>3, <1>4, <1>5

\* An upload adds one backup, with a key nothing stored has had.
LEMMA UploadAdds ==
  ASSUME IInv, NEW w \in Writer, Upload(w)
  PROVE  \E o \in Backups \ stored : /\ objects' = objects \cup {o} /\ stored' = stored \cup {o}
                                     /\ o.key = writing[w] /\ o.at = now
  <1> DEFINE o == [key |-> writing[w], at |-> now]
  <1>1. writing[w] \in Instants /\ now \in Instants
    BY RetentionAssumption DEF Upload, IInv, TypeOK, Instants
  <1>2. o \in Backups /\ o.key = writing[w] /\ o.at = now
    BY <1>1 DEF Backups
  <1>3. objects' = objects \cup {o} /\ stored' = stored \cup {o} /\ o \notin stored
    BY <1>2 DEF Upload, Put, IInv, KeysInv
  <1> HIDE DEF o
  <1> QED BY <1>2, <1>3

\* Nothing that was deleted comes back.
LEMMA NoneReturns == IInv /\ [Next]_vars => objects' \cap stored \subseteq objects /\ stored \subseteq stored'
  <1> SUFFICES ASSUME IInv, [Next]_vars PROVE objects' \cap stored \subseteq objects /\ stored \subseteq stored'
    OBVIOUS
  <1>1. CASE \E w \in Writer : Upload(w)
    BY <1>1, UploadAdds
  <1>2. CASE ~\E w \in Writer : Upload(w)
    BY <1>2 DEF Next, Retain, BeginBackup, Abandon, Begin, List, Relist, Confirm, Delete, Finish, Stop, Tick, vars
  <1> QED BY <1>1, <1>2

\* Whose steps they are.
LEMMA StepOfOne ==
  ASSUME IInv, [Next]_vars, NEW r \in Retainer, ~Retain(r)
  PROVE  pc'[r] = pc[r] /\ run'[r] = run[r]
  <1>1. ASSUME NEW q \in Retainer \ {r}, Retain(q) PROVE pc'[r] = pc[r] /\ run'[r] = run[r]
    BY <1>1 DEF IInv, TypeOK, Retain, Goto, Begin, List, Relist, Confirm, Delete, Finish, Stop
  <1>2. CASE ~\E q \in Retainer : Retain(q)
    BY <1>2 DEF Next, BeginBackup, Upload, Abandon, Tick, vars
  <1> QED BY <1>1, <1>2

\* What a plan leaves stays collapsed while it is carried out.
LEMMA DoneStep ==
  ASSUME IInv, IInv', [Next]_vars, NEW r \in Retainer, DoneInv(r)
  PROVE  DoneInv(r)'
  <1>1. /\ run[r] \in Runs /\ run[r].listed \subseteq stored /\ stored \subseteq Backups
        /\ pc \in [Retainer -> {"idle", "list", "relist", "confirm", "delete", "done"}]
        /\ run \in [Retainer -> Runs] /\ KeysInv /\ objects \subseteq stored /\ run[r].plan \subseteq stored
    BY DEF IInv, TypeOK, RunInv
  <1>2. objects' \cap stored \subseteq objects
    BY NoneReturns
  <1>3. ASSUME pc'[r] \in {"delete", "done"} => pc[r] \in {"delete", "done"} /\ Left(r)' \subseteq Left(r),
               run'[r].today = run[r].today, pc'[r] = "done" => run'[r].plan = {}
        PROVE  DoneInv(r)'
    BY <1>3 DEF DoneInv, Collapsed
  <1>4. CASE ~Retain(r)
    <2>1. pc'[r] = pc[r] /\ run'[r] = run[r]
      BY <1>4, StepOfOne
    <2> QED BY <1>1, <1>2, <1>3, <2>1 DEF Left, DoneInv
  <1>5. CASE Begin(r) \/ List(r) \/ Confirm(r) \/ Stop(r)
    BY <1>1, <1>5 DEF DoneInv, Begin, List, Confirm, Stop, Goto
  <1>6. CASE Relist(r)
    <2> DEFINE plan == ToDelete(run[r].listed, objects, Month[run[r].today])
    <2>1. objects' = objects /\ run' = [run EXCEPT ![r].plan = plan] /\ pc'[r] \in {"delete", "confirm"}
      BY <1>1, <1>6 DEF Relist, Goto
    <2>2. Month[run[r].today] \in Nat
      BY <1>1, RetentionAssumption DEF Runs
    <2>3. Collapsed((objects \cap run[r].listed) \ plan, Month[run[r].today])
      BY <1>1, <2>2, PlanCollapses
    <2> HIDE DEF plan
    <2>4. run'[r].plan = plan /\ run'[r].listed = run[r].listed /\ run'[r].today = run[r].today
      BY <1>1, <2>1 DEF Runs
    <2> QED BY <2>1, <2>3, <2>4 DEF DoneInv, Left
  <1>7. CASE Delete(r)
    <2>1. PICK o \in run[r].plan : /\ objects' = {p \in objects : p.key # o.key}
                                   /\ run' = [run EXCEPT ![r].plan = @ \ {o}]
      BY <1>7 DEF Delete
    <2>2. /\ run'[r].plan = run[r].plan \ {o} /\ run'[r].listed = run[r].listed
          /\ run'[r].today = run[r].today /\ pc' = pc /\ pc[r] = "delete"
      BY <1>1, <1>7, <2>1 DEF Runs, Delete
    <2>3. Left(r)' \subseteq Left(r)
      BY <2>1, <2>2 DEF Left
    <2> QED BY <1>3, <2>2, <2>3
  <1>8. CASE Finish(r)
    <2>1. objects' = objects /\ run' = run /\ run[r].plan = {} /\ pc[r] = "delete"
      BY <1>8 DEF Finish
    <2> QED BY <1>3, <2>1 DEF Left
  <1> QED BY <1>4, <1>5, <1>6, <1>7, <1>8 DEF Retain

\* A retention that has finished has left of what it listed no more than the policy keeps: one
\* backup of each older month, one of each week of the last, none that has expired.
THEOREM DoneIsCollapsed == Spec => []CollapsedWhenDone
  <1> DEFINE Inv == IInv /\ \A r \in Retainer : DoneInv(r)
  <1>1. Init => Inv
    BY InitIInv DEF Init, DoneInv
  <1>2. Inv /\ [Next]_vars => Inv'
    BY NextIInv, DoneStep
  <1>3. Inv => CollapsedWhenDone
    BY DEF DoneInv, Collapsed, Left, CollapsedWhenDone
  <1> QED BY <1>1, <1>2, <1>3, PTL DEF Spec
-----------------------------------------------------------------------------
(* What one retention at a time leaves of a month *)

\* The months that have not expired.
Unexpired(o) == Month[o.key] + KeepMonths >= Month[now]

\* The plan that is carried out spares a backup of each month.
SparesInv(r) ==
  /\ pc[r] = "relist" => run[r].listed \subseteq objects
  /\ pc[r] = "delete" =>
       \A o \in stored : Unexpired(o) => InMonth(objects, Month[o.key]) \ run[r].plan # {}

\* Of each month that has not expired a plan leaves a backup, if the bucket still holds
\* all that the first listing had.
LEMMA PlanSpares ==
  ASSUME IInv, NEW S \in SUBSET objects, NEW m \in Nat, NEW k \in Nat,
         k + KeepMonths >= m, InMonth(objects, k) # {}
  PROVE  InMonth(objects, k) \ ToDelete(S, objects, m) # {}
  <1>1. objects \subseteq Backups /\ \A o, p \in objects : o.key = p.key => o = p
    BY DEF IInv, TypeOK, KeysInv
  <1> SUFFICES \E o \in InMonth(objects, k) : o \notin WeeklyCollapsed(S, m) /\ o \notin MonthlyCollapsed(S, m)
    <2>1. \A o \in InMonth(objects, k) : o \notin Expired(objects, m)
      BY RetentionAssumption DEF InMonth, Expired
    <2> QED BY <2>1 DEF ToDelete
  <1>2. ASSUME NEW o \in InMonth(objects, k), o \in WeeklyCollapsed(S, m)
        PROVE  k + 1 = m /\ o \in InMonth(S, k) \ WeeklyKeepers(InMonth(S, k))
    <2>1. PICK l \in MonthsOf(S) : l + 1 = m /\ o \in InMonth(S, l) \ WeeklyKeepers(InMonth(S, l))
      BY <1>2 DEF WeeklyCollapsed
    <2>2. l = k
      BY <2>1 DEF InMonth
    <2> QED BY <2>1, <2>2
  <1>3. ASSUME NEW o \in InMonth(objects, k), o \in MonthlyCollapsed(S, m)
        PROVE  k + 1 < m /\ o \in InMonth(S, k) \ {MonthlyKeeper(InMonth(S, k))}
    <2>1. PICK l \in MonthsOf(S) : l + 1 < m /\ o \in InMonth(S, l) \ {MonthlyKeeper(InMonth(S, l))}
      BY <1>3 DEF MonthlyCollapsed
    <2>2. l = k
      BY <2>1 DEF InMonth
    <2> QED BY <2>1, <2>2
  <1>4. InMonth(S, k) \subseteq InMonth(objects, k)
    BY DEF InMonth
  <1>5. CASE InMonth(S, k) = {}
    BY <1>2, <1>3, <1>5
  <1>6. CASE InMonth(S, k) # {} /\ k + 1 > m
    BY <1>2, <1>3, <1>6
  <1>7. CASE InMonth(S, k) # {} /\ k + 1 = m
    <2>1. PICK x \in InMonth(S, k) : TRUE
      BY <1>7
    <2>2. PICK W \in SUBSET Backups : W = InWeek(InMonth(S, k), Week[x.key])
      BY <1>1 DEF InWeek, InMonth
    <2>3. Newest(W) \in W
      BY <1>1, <2>1, <2>2, NewestIsNewest DEF InWeek, InMonth
    <2>4. Newest(W) \in WeeklyKeepers(InMonth(S, k))
      BY <2>1, <2>2 DEF WeeklyKeepers
    <2>5. Newest(W) \in InMonth(S, k)
      BY <2>2, <2>3 DEF InWeek
    <2> QED BY <1>2, <1>3, <1>4, <1>7, <2>4, <2>5
  <1>8. CASE InMonth(S, k) # {} /\ k + 1 < m
    <2>1. MonthlyKeeper(InMonth(S, k)) \in InMonth(S, k)
      <3> DEFINE M == InMonth(S, k)
                 L == {o \in M : o.key \in LastWeek}
      <3>1. M \in SUBSET Backups /\ L \in SUBSET Backups /\ \A o, p \in M : o.key = p.key => o = p
        BY <1>1 DEF InMonth
      <3>2. CASE L # {}
        <4>1. Newest(L) \in L
          BY <3>1, <3>2, NewestIsNewest
        <4>2. MonthlyKeeper(M) = Newest(L)
          BY <3>2 DEF MonthlyKeeper
        <4> QED BY <4>1, <4>2
      <3>3. CASE L = {}
        <4>1. Newest(M) \in M
          BY <1>8, <3>1, NewestIsNewest
        <4>2. MonthlyKeeper(M) = Newest(M)
          BY <3>3 DEF MonthlyKeeper
        <4> QED BY <4>1, <4>2
      <3> QED BY <3>2, <3>3
    <2> QED BY <1>2, <1>3, <1>4, <1>8, <2>1
  <1> QED BY <1>1, <1>5, <1>6, <1>7, <1>8, RetentionAssumption

\* What has not expired after a step had not expired before it.
LEMMA UnexpiredBefore ==
  ASSUME IInv, IInv', [Next]_vars, NEW o \in stored, Unexpired(o)'
  PROVE  Unexpired(o)
  <1>1. now \in Instants /\ now' \in Instants /\ o.key \in Instants
    BY DEF IInv, TypeOK, Backups
  <1>2. now' = now \/ now' = now + 1
    BY DEF Next, Retain, BeginBackup, Upload, Abandon, Begin, List, Relist, Confirm, Delete, Finish, Stop, Tick,
           vars
  <1>3. Month[now] <= Month[now'] /\ Month[now] \in Nat /\ Month[now'] \in Nat /\ Month[o.key] \in Nat
    <2>1. now <= now'
      BY <1>1, <1>2 DEF Instants
    <2> QED BY <1>1, <2>1, RetentionAssumption
  <1> QED BY <1>3, RetentionAssumption DEF Unexpired

\* With one retention at a time, a month keeps a backup through every step, and the plan spares one.
LEMMA SparesStep ==
  ASSUME \A q, r \in Retainer : q = r, IInv, IInv', [Next]_vars,
         MonthKeepsOne, \A r \in Retainer : SparesInv(r)
  PROVE  MonthKeepsOne' /\ \A r \in Retainer : SparesInv(r)'
  <1>1. /\ stored \subseteq Backups /\ objects \subseteq stored /\ KeysInv
        /\ pc \in [Retainer -> {"idle", "list", "relist", "confirm", "delete", "done"}]
        /\ run \in [Retainer -> Runs] /\ \A r \in Retainer : run[r].plan \subseteq stored
    BY DEF IInv, TypeOK, RunInv
  <1>2. \A o \in stored : Unexpired(o)' => Unexpired(o)
    BY UnexpiredBefore
  <1>3. \A o \in stored : Unexpired(o) => InMonth(objects, Month[o.key]) # {}
    BY DEF MonthKeepsOne, Unexpired
  <1>4. ASSUME \A o \in stored' : Unexpired(o)' => InMonth(objects', Month[o.key]) # {}
        PROVE  MonthKeepsOne'
    BY <1>4 DEF MonthKeepsOne, Unexpired
  <1>5. ASSUME NEW w \in Writer, Upload(w) PROVE MonthKeepsOne' /\ \A r \in Retainer : SparesInv(r)'
    <2>1. PICK u \in Backups \ stored : objects' = objects \cup {u} /\ stored' = stored \cup {u}
      BY <1>5, UploadAdds
    <2>2. pc' = pc /\ run' = run
      BY <1>5 DEF Upload
    <2>3. MonthKeepsOne'
      BY <1>2, <1>3, <1>4, <2>1 DEF InMonth
    <2>4. ASSUME NEW r \in Retainer PROVE SparesInv(r)'
      <3>1. u \notin run[r].plan
        BY <1>1, <2>1
      <3> QED BY <1>1, <1>2, <2>1, <2>2, <3>1 DEF SparesInv, InMonth
    <2> QED BY <2>3, <2>4
  <1>6. ASSUME NEW r \in Retainer, Delete(r) PROVE MonthKeepsOne' /\ SparesInv(r)'
    <2>1. PICK o \in run[r].plan : /\ objects' = {p \in objects : p.key # o.key}
                                   /\ run' = [run EXCEPT ![r].plan = @ \ {o}]
      BY <1>6 DEF Delete
    <2>2. run'[r].plan = run[r].plan \ {o} /\ pc' = pc /\ pc[r] = "delete" /\ stored' = stored
      BY <1>1, <1>6, <2>1 DEF Runs, Delete
    <2>3. objects' = objects \ {o}
      BY <1>1, <2>1 DEF KeysInv
    <2>4. \A p \in stored : Unexpired(p)' => InMonth(objects', Month[p.key]) \ run'[r].plan # {}
      BY <1>2, <2>1, <2>2, <2>3 DEF SparesInv, InMonth
    <2> QED BY <1>4, <2>2, <2>4 DEF SparesInv
  <1>7. CASE UNCHANGED <<objects, stored>>
    <2>1. MonthKeepsOne'
      BY <1>2, <1>3, <1>4, <1>7
    <2>2. ASSUME NEW r \in Retainer PROVE SparesInv(r)'
      <3>1. CASE pc'[r] = pc[r] /\ run'[r] = run[r]
        BY <1>2, <1>7, <3>1 DEF SparesInv
      <3>2. CASE Begin(r) \/ Confirm(r) \/ Finish(r) \/ Stop(r)
        BY <1>1, <3>2 DEF Begin, Confirm, Finish, Stop, Goto, SparesInv
      <3>3. CASE List(r)
        <4>1. pc'[r] = "relist" /\ run'[r].listed = objects
          BY <1>1, <3>3 DEF List, Goto, Runs
        <4> QED BY <1>7, <4>1 DEF SparesInv
      <3>4. CASE Relist(r)
        <4> DEFINE plan == ToDelete(run[r].listed, objects, Month[run[r].today])
        <4>1. run' = [run EXCEPT ![r].plan = plan] /\ pc[r] = "relist" /\ pc'[r] # "relist" /\ now' = now
          BY <1>1, <3>4 DEF Relist, Goto
        <4>2. run'[r].plan = plan
          <5> HIDE DEF plan
          <5> QED BY <1>1, <4>1 DEF Runs
        <4>3. run[r].listed \in SUBSET objects
          BY <4>1 DEF SparesInv
        <4>4. /\ Month[run[r].today] \in Nat /\ Month[now] \in Nat /\ Month[run[r].today] <= Month[now]
              /\ \A o \in stored : Month[o.key] \in Nat
          BY <1>1, RetentionAssumption DEF IInv, TypeOK, RunInv, Runs, Backups
        <4>5. ASSUME NEW o \in stored, Unexpired(o)' PROVE InMonth(objects, Month[o.key]) \ plan # {}
          <5>1. Unexpired(o) /\ Month[o.key] + KeepMonths >= Month[run[r].today]
            BY <1>2, <4>4, <4>5, RetentionAssumption DEF Unexpired
          <5> QED BY <1>3, <4>3, <4>4, <5>1, PlanSpares
        <4> HIDE DEF plan
        <4> QED BY <1>7, <4>1, <4>2, <4>5 DEF SparesInv
      <3>5. CASE Delete(r)
        BY <1>6, <3>5
      <3>6. CASE ~Retain(r)
        BY <3>1, <3>6, StepOfOne
      <3> QED BY <3>2, <3>3, <3>4, <3>5, <3>6 DEF Retain
    <2> QED BY <2>1, <2>2
  <1>8. CASE \E r \in Retainer : Delete(r)
    BY <1>6, <1>8
  <1>9. CASE ~\E r \in Retainer : Delete(r)
    <2>1. CASE \E w \in Writer : Upload(w)
      BY <1>5, <2>1
    <2>2. CASE ~\E w \in Writer : Upload(w)
      <3>1. UNCHANGED <<objects, stored>>
        BY <1>9, <2>2 DEF Next, Retain, BeginBackup, Abandon, Begin, List, Relist, Confirm, Finish, Stop, Tick, vars
      <3> QED BY <1>7, <3>1
    <2> QED BY <2>1, <2>2
  <1> QED BY <1>8, <1>9

\* "monthly older": with one retention at a time, and whatever backups overlap it, a month that
\* ever had a backup has one until it expires.  Two retentions that have listed different
\* backups can each delete what the other one keeps.
THEOREM MonthIsNotLost ==
  ASSUME \A q, r \in Retainer : q = r
  PROVE  Spec => []MonthKeepsOne
  <1> DEFINE Inv == IInv /\ MonthKeepsOne /\ \A r \in Retainer : SparesInv(r)
  <1>1. Init => Inv
    BY InitIInv DEF Init, MonthKeepsOne, SparesInv
  <1>2. Inv /\ [Next]_vars => Inv'
    BY NextIInv, SparesStep
  <1>3. Inv => MonthKeepsOne
    OBVIOUS
  <1> QED BY <1>1, <1>2, <1>3, PTL DEF Spec
-----------------------------------------------------------------------------
(* The retention carries out the policy *)

\* Any number of writers and of retentions, on plans however stale, one of them killed half way
\* or planned again after its preview was confirmed, do together what Policy allows: each step
\* stores a backup, forgets one that the policy does not ask for on that day, or changes nothing.
THEOREM PolicyIsKept == Spec => PolicySpec
  <1>1. Init => Promise!Init
    BY DEF Init, Promise!Init
  <1>2. IInv /\ [Next]_vars => [Promise!Next]_<<now, stored, objects>>
    <2> SUFFICES ASSUME IInv, [Next]_vars PROVE Promise!Next \/ UNCHANGED <<now, stored, objects>>
      OBVIOUS
    <2>1. CASE \E w \in Writer : Upload(w)
      <3>1. PICK w \in Writer : Upload(w)
        BY <2>1
      <3>2. writing[w] \in Instants
        BY <3>1, RetentionAssumption DEF Upload, IInv, TypeOK, Instants
      <3>3. \A o \in stored : o.key # writing[w]
        BY DEF IInv, KeysInv
      <3>4. /\ stored' = stored \cup {[key |-> writing[w], at |-> now]}
            /\ objects' = objects \cup {[key |-> writing[w], at |-> now]}
            /\ now' = now
        BY <3>1, <3>3 DEF Upload, Put, IInv
      <3>5. Promise!Store(writing[w])
        BY <3>3, <3>4 DEF Promise!Store
      <3> QED BY <3>2, <3>5 DEF Promise!Next
    <2>2. CASE \E r \in Retainer : Delete(r)
      <3> PICK r \in Retainer : Delete(r)
        BY <2>2
      <3>1. PICK o \in run[r].plan : /\ objects' = {p \in objects : p.key # o.key}
                                     /\ UNCHANGED <<now, stored>>
        BY DEF Delete
      <3>2. o \in stored /\ Justified(o)
        BY <3>1 DEF IInv, RunInv
      <3>3. objects' = objects \ {o}
        BY <3>1, <3>2 DEF IInv, KeysInv
      <3>4. Promise!Forget(o)
        BY <3>1, <3>2, <3>3 DEF Promise!Forget, Justified
      <3> QED BY <3>1, <3>3, <3>4 DEF Promise!Next
    <2>3. CASE Tick
      <3>1. now' \in Instants
        BY <2>3, RetentionAssumption DEF Tick, IInv, TypeOK, Instants
      <3> QED BY <2>3, <3>1 DEF Tick, Promise!Tick, Promise!Next
    <2>4. CASE UNCHANGED <<now, stored, objects>>
      BY <2>4
    <2> QED BY <2>1, <2>2, <2>3, <2>4
            DEF Next, Retain, BeginBackup, Abandon, Begin, List, Relist, Confirm, Finish, Stop, vars
  <1> QED BY <1>1, <1>2, Invariant, PTL DEF Spec, PolicySpec, Promise!Spec
-----------------------------------------------------------------------------
(* What the policy is enough for *)

\* What was stored and is not there may be forgotten.
PolicyInv ==
  /\ now \in Instants /\ stored \subseteq Backups /\ objects \subseteq stored
  /\ \A o, p \in stored : o.key = p.key => o = p
  /\ \A o \in stored \ objects : Justified(o)

\* What the policy lets go is not of the current month, nor the newest of a week of last month.
LEMMA PolicyKeepsRecent == PolicyInv => RecentKept
  <1> SUFFICES ASSUME PolicyInv, NEW o \in stored \ objects
               PROVE  /\ ~(Month[o.key] >= Month[now])
                      /\ Month[o.key] + 1 = Month[now] =>
                           \E p \in InWeek(InMonth(stored, Month[o.key]), Week[o.key]) \ {o} : ~Newer(o, p)
    BY DEF RecentKept
  <1>1. /\ Month[o.key] \in Nat /\ Month[now] \in Nat /\ stored \subseteq Backups
        /\ KeepMonths \in Nat \ {0} /\ Justified(o)
    BY RetentionAssumption DEF PolicyInv, Backups
  <1>2. CASE Month[o.key] + KeepMonths < Month[now]
    BY <1>1, <1>2
  <1>3. CASE Month[o.key] < Month[now] /\ \E p \in stored : Promise!Covers(p, o)
    <2>1. PICK p \in stored : Promise!Covers(p, o)
      BY <1>3
    <2>2. ASSUME Month[o.key] + 1 = Month[now]
          PROVE  p \in InWeek(InMonth(stored, Month[o.key]), Week[o.key]) \ {o} /\ ~Newer(o, p)
      <3>1. p # o /\ Month[p.key] = Month[o.key] /\ Week[p.key] = Week[o.key] /\ Newer(p, o)
        BY <2>1, <2>2 DEF Promise!Covers, Promise!Newer, Newer
      <3> QED BY <1>1, <3>1, NewerOneWay DEF InWeek, InMonth
    <2> QED BY <1>1, <1>3, <2>2
  <1> QED BY <1>1, <1>2, <1>3 DEF Justified, Promise!MayForget

\* The last backup of a month to finish has none that stands for it.
LEMMA PolicyKeepsLatest == PolicyInv => LatestOfMonthKept
  <1>1. ASSUME PolicyInv, Promise!InOrder, NEW o \in stored, Unexpired(o)
        PROVE  \E p \in InMonth(objects, Month[o.key]) : p.at >= o.at
    <2>1. /\ stored \subseteq Backups /\ \A a, b \in stored : a.key = b.key => a = b
          /\ \A a \in stored : Month[a.key] \in Nat /\ a.at \in Nat /\ Month[now] \in Nat
      BY <1>1, RetentionAssumption DEF PolicyInv, Backups, Instants
    <2>2. PICK M \in SUBSET Backups : M = InMonth(stored, Month[o.key])
      BY <2>1 DEF InMonth
    <2>3. o \in M /\ M \subseteq stored
      BY <2>2 DEF InMonth
    <2>4. PICK n \in M : \A q \in M \ {n} : Newer(n, q)
      BY <2>1, <2>3, NewestIsNewest
    <2>5. \A q \in M : n.at >= q.at
      BY <2>1, <2>3, <2>4 DEF Newer
    <2>6. n \in stored /\ Month[n.key] = Month[o.key]
      BY <2>2, <2>3 DEF InMonth
    <2>7. ~Justified(n)
      <3>1. \A p \in stored : Month[p.key] = Month[n.key] => p \in M
        BY <2>2, <2>6 DEF InMonth
      <3>2. \A p \in stored : ~Promise!Covers(p, n)
        BY <1>1, <2>1, <2>5, <2>6, <3>1 DEF Promise!Covers
      <3>3. ~(Month[n.key] + KeepMonths < Month[now])
        BY <1>1, <2>1, <2>6, RetentionAssumption DEF Unexpired
      <3> QED BY <3>2, <3>3 DEF Justified, Promise!MayForget
    <2>8. n \in objects
      BY <1>1, <2>6, <2>7 DEF PolicyInv
    <2> QED BY <2>3, <2>5, <2>6, <2>8 DEF InMonth
  <1> QED BY <1>1 DEF LatestOfMonthKept, Unexpired

\* Whoever forgets backups, and for whatever reason: if no more is forgotten than Policy allows,
\* then of the current month nothing is, of last month not the newest of a week, and, as long as
\* backups finish in order, no month loses its latest before it expires.
THEOREM PolicySuffices == PolicySpec => [](RecentKept /\ LatestOfMonthKept)
  <1>1. Promise!Init => PolicyInv
    BY RetentionAssumption DEF Promise!Init, PolicyInv, Instants
  <1>2. PolicyInv /\ [Promise!Next]_<<now, stored, objects>> => PolicyInv'
    <2> SUFFICES ASSUME PolicyInv, [Promise!Next]_<<now, stored, objects>> PROVE PolicyInv'
      OBVIOUS
    <2> USE DEF PolicyInv
    <2>1. ASSUME now' \in Instants, now <= now', stored \subseteq stored'
          PROVE  \A o \in stored : Justified(o) => Justified(o)'
      BY <2>1, MayForgetStays
    <2>2. now <= now
      BY DEF Instants
    <2>3. CASE \E k \in Instants : Promise!Store(k)
      <3>1. PICK k \in Instants : Promise!Store(k)
        BY <2>3
      <3>2. PICK o \in Backups : /\ o.key = k /\ stored' = stored \cup {o} /\ objects' = objects \cup {o}
                                 /\ now' = now
        BY <3>1 DEF Promise!Store, Backups
      <3>3. \A p \in stored : p.key # k
        BY <3>1 DEF Promise!Store
      <3>4. \A p \in stored : Justified(p) => Justified(p)'
        BY <2>1, <2>2, <3>2
      <3> QED BY <3>2, <3>3, <3>4
    <2>4. CASE \E o \in objects : Promise!Forget(o)
      <3>1. PICK o \in objects : Promise!Forget(o)
        BY <2>4
      <3>2. Justified(o) /\ objects' = objects \ {o} /\ now' = now /\ stored' = stored
        BY <3>1 DEF Promise!Forget, Justified
      <3>3. \A p \in stored : Justified(p) => Justified(p)'
        BY <2>1, <2>2, <3>2
      <3> QED BY <3>2, <3>3
    <2>5. CASE Promise!Tick
      <3>1. now' \in Instants /\ now <= now' /\ stored' = stored /\ objects' = objects
        BY <2>5 DEF Promise!Tick, Instants
      <3>2. \A p \in stored : Justified(p) => Justified(p)'
        BY <2>1, <3>1
      <3> QED BY <3>1, <3>2
    <2>6. CASE UNCHANGED <<now, stored, objects>>
      <3>1. \A p \in stored : Justified(p) => Justified(p)'
        BY <2>1, <2>2, <2>6
      <3> QED BY <2>6, <3>1
    <2> QED BY <2>3, <2>4, <2>5, <2>6 DEF Promise!Next
  <1> QED BY <1>1, <1>2, PolicyKeepsRecent, PolicyKeepsLatest, PTL DEF PolicySpec, Promise!Spec

\* "keep all dailies this month", "weekly last month": no backup of the current month has been
\* deleted, nor the newest of a week of last month, whatever plans are pending or half carried out.
THEOREM RecentIsKept == Spec => []RecentKept
  BY PolicyIsKept, PolicySuffices, PTL

\* When backups finish in the order they begin, each month keeps the last of its backups to finish
\* until it expires, with any number of writers, of retentions at once, of stale plans and of
\* retentions killed half way: every deletion leaves a later backup, and so does that one's.
THEOREM LatestIsKept == Spec => []LatestOfMonthKept
  BY PolicyIsKept, PolicySuffices, PTL

\* In that case no month is lost either, however many retentions there are.
COROLLARY MonthIsNotLostInOrder == Spec => [](Promise!InOrder => MonthKeepsOne)
  <1>1. LatestOfMonthKept => (Promise!InOrder => MonthKeepsOne)
    BY DEF LatestOfMonthKept, MonthKeepsOne
  <1> QED BY <1>1, LatestIsKept, PTL
-----------------------------------------------------------------------------
(* When backups finish in order *)

\* Backups finish in the order in which they begin.
OrderInv ==
  /\ \A o \in stored : o.key <= o.at /\ o.at <= now
  /\ \A w \in Writer : writing[w] <= now
  /\ \A w \in Writer : writing[w] # 0 => \A o \in stored : o.at <= writing[w]
  /\ \A o, p \in stored : o.key < p.key => o.at <= p.key

\* Every backup takes an instant or more.
TakeTime == \A o \in stored : o.at > o.key

\* One writer begins a backup only when its last one has ended, so every step keeps the order.
LEMMA OrderStep ==
  ASSUME \A v, w \in Writer : v = w, IInv, IInv', [Next]_vars, OrderInv
  PROVE  OrderInv'
  <1>1. /\ stored \subseteq Backups /\ now \in Nat /\ now' \in Nat
        /\ writing \in [Writer -> 0 .. Horizon] /\ Horizon \in Nat
        /\ \A o \in Backups : o.key \in Nat /\ o.at \in Nat
    BY RetentionAssumption DEF IInv, TypeOK, Backups, Instants
  <1>2. \A w \in Writer : writing[w] \in Nat
    BY <1>1
  <1>3. CASE \E w \in Writer : BeginBackup(w)
    <2> PICK w \in Writer : BeginBackup(w)
      BY <1>3
    <2>1. UNCHANGED <<now, stored>> /\ writing' = [writing EXCEPT ![w] = now]
      BY DEF BeginBackup
    <2> QED BY <1>1, <2>1 DEF OrderInv
  <1>4. CASE \E w \in Writer : Upload(w)
    <2> PICK w \in Writer : Upload(w)
      BY <1>4
    <2>1. PICK u \in Backups \ stored : stored' = stored \cup {u} /\ u.key = writing[w] /\ u.at = now
      BY UploadAdds
    <2>2. now' = now /\ writing[w] # 0 /\ writing' = [writing EXCEPT ![w] = 0]
      BY DEF Upload
    <2>3. \A v \in Writer : writing'[v] = 0
      BY <1>1, <2>2
    <2>4. \A o \in stored' : o.key <= o.at /\ o.at <= now'
      BY <1>1, <1>2, <2>1, <2>2 DEF OrderInv
    <2>5. \A o \in stored : o.at <= u.key /\ o.key <= u.key
      <3>1. \A o \in stored : o.at <= u.key /\ o.key <= o.at
        BY <2>1, <2>2 DEF OrderInv
      <3> QED BY <1>1, <3>1
    <2>6. \A o, q \in stored' : o.key < q.key => o.at <= q.key
      <3> SUFFICES ASSUME NEW o \in stored', NEW q \in stored', o.key < q.key PROVE o.at <= q.key
        OBVIOUS
      <3>1. o \in Backups /\ q \in Backups
        BY <1>1, <2>1
      <3>2. CASE q = u
        <4>1. o \in stored
          BY <1>1, <2>1, <3>1, <3>2
        <4> QED BY <2>5, <3>2, <4>1
      <3>3. CASE q # u
        <4>1. q \in stored /\ q.key <= u.key
          BY <2>1, <2>5, <3>3
        <4>2. o # u
          BY <1>1, <3>1, <4>1
        <4> QED BY <2>1, <4>1, <4>2 DEF OrderInv
      <3> QED BY <3>2, <3>3
    <2> QED BY <1>1, <2>2, <2>3, <2>4, <2>6 DEF OrderInv
  <1>5. CASE \E w \in Writer : Abandon(w)
    <2> PICK w \in Writer : Abandon(w)
      BY <1>5
    <2>1. UNCHANGED <<now, stored>> /\ writing' = [writing EXCEPT ![w] = 0]
      BY DEF Abandon
    <2> QED BY <1>1, <2>1 DEF OrderInv
  <1>6. CASE UNCHANGED <<stored, writing>> /\ (now' = now \/ now' = now + 1)
    BY <1>1, <1>2, <1>6 DEF OrderInv
  <1> QED BY <1>3, <1>4, <1>5, <1>6
          DEF Next, Retain, Begin, List, Relist, Confirm, Delete, Finish, Stop, Tick, vars

\* That is so with one writer, such as the daemon alone, whose backups take an instant or more.
THEOREM OneWriterInOrder ==
  ASSUME \A v, w \in Writer : v = w
  PROVE  Spec => [](TakeTime => Promise!InOrder)
  <1> DEFINE Inv == IInv /\ OrderInv
  <1>1. Init => Inv
    BY InitIInv, RetentionAssumption DEF Init, OrderInv
  <1>2. Inv /\ [Next]_vars => Inv'
    BY NextIInv, OrderStep
  <1>3. Inv => (TakeTime => Promise!InOrder)
    <2> SUFFICES ASSUME IInv, OrderInv, TakeTime, NEW o \in stored, NEW p \in stored, o.key < p.key
                 PROVE  o.at < p.at
      BY DEF Promise!InOrder
    <2>1. o.at \in Nat /\ p.key \in Nat /\ p.at \in Nat
      BY RetentionAssumption DEF IInv, TypeOK, Backups, Instants
    <2> QED BY <2>1 DEF OrderInv, TakeTime
  <1> QED BY <1>1, <1>2, <1>3, PTL DEF Spec
-----------------------------------------------------------------------------
(* The calendar *)

\* A date that datetime.date has, but for its bounds on years.
IsDate(d) == /\ d = Date(d.year, d.month, d.day)
             /\ d.year \in Int /\ d.month \in 1 .. 12 /\ d.day \in 1 .. DaysIn(d.year, d.month)

\* A month has 28 to 31 days.
LEMMA DaysInRange ==
  ASSUME NEW y, NEW m
  PROVE  DaysIn(y, m) \in 28 .. 31
  <1>1. CASE m = 2
    BY <1>1 DEF DaysIn
  <1>2. CASE m # 2 /\ m \in {4, 6, 9, 11}
    BY <1>2 DEF DaysIn
  <1>3. CASE m # 2 /\ m \notin {4, 6, 9, 11}
    BY <1>3 DEF DaysIn
  <1> QED BY <1>1, <1>2, <1>3

\* The loop of subtract_months ends with a month of the year.
LEMMA PassesEnd ==
  ASSUME NEW m \in 1 .. 12, NEW n \in Nat
  PROVE  /\ Passes(m - n, n) \in 0 .. n
         /\ m - n + 12 * Passes(m - n, n) \in 1 .. 12
  <1> DEFINE Positive == {k \in Nat : m - n + 12 * k > 0}
             Ends(k) == m - n + 12 * k > 0 /\ \A j \in 0 .. k - 1 : m - n + 12 * j <= 0
  <1>1. Positive \in SUBSET Nat /\ n \in Positive
    OBVIOUS
  <1>2. PICK p \in Positive : \A k \in Positive : p <= k
    <2> HIDE DEF Positive
    <2> QED BY <1>1, SmallestExists
  <1>3. p \in 0 .. n /\ Ends(p)
    <2>1. p <= n
      <3> HIDE DEF Positive
      <3> QED BY <1>1, <1>2
    <2>2. ASSUME NEW j \in 0 .. p - 1 PROVE m - n + 12 * j <= 0
      <3>1. j \in Nat /\ ~(p <= j)
        BY <1>2
      <3>2. j \notin Positive
        <4> HIDE DEF Positive
        <4> QED BY <1>2, <3>1
      <3> QED BY <3>1, <3>2
    <2> QED BY <1>2, <2>1, <2>2
  <1>4. Passes(m - n, n) \in 0 .. n /\ Ends(Passes(m - n, n))
    BY <1>3 DEF Passes
  <1>5. PICK k \in 0 .. n : k = Passes(m - n, n) /\ Ends(k)
    BY <1>4
  <1>6. CASE k = 0
    BY <1>5, <1>6
  <1>7. CASE k > 0
    <2>1. k - 1 \in 0 .. k - 1 /\ k \in Nat
      BY <1>7
    <2>2. m - n + 12 * (k - 1) <= 0
      BY <1>5, <2>1
    <2> QED BY <1>5, <2>1, <2>2
  <1> QED BY <1>5, <1>6, <1>7

\* subtract_months goes back by as many months as it is told, to the first of one.
LEMMA SubtractsAny ==
  ASSUME NEW d, IsDate(d), NEW n \in Nat
  PROVE  LET e == SubtractMonths(d, n) IN IsDate(e) /\ e.day = 1 /\ Index(e) = Index(d) - n
  <1>1. PICK p \in 0 .. n : p = Passes(d.month - n, n) /\ d.month - n + 12 * p \in 1 .. 12
    BY PassesEnd DEF IsDate
  <1>2. PICK e : e = SubtractMonths(d, n)
    OBVIOUS
  <1>3. e = Date(d.year - p, d.month - n + 12 * p, 1)
    BY <1>1, <1>2 DEF SubtractMonths
  <1>4. e.year = d.year - p /\ e.month = d.month - n + 12 * p /\ e.day = 1
    BY <1>3 DEF Date
  <1>5. d.year \in Int /\ d.month \in Int
    BY DEF IsDate
  <1>6. 1 \in 1 .. DaysIn(e.year, e.month)
    BY DaysInRange
  <1>7. IsDate(e)
    BY <1>1, <1>3, <1>4, <1>5, <1>6 DEF IsDate
  <1>8. Index(e) = Index(d) - n
    BY <1>1, <1>4, <1>5 DEF Index
  <1> QED BY <1>2, <1>4, <1>7, <1>8

\* Index orders the months.
LEMMA IndexOrders ==
  ASSUME NEW d, NEW e, IsDate(d), IsDate(e)
  PROVE  /\ Index(d) \in Int
         /\ Index(d) < Index(e) <=> d.year < e.year \/ (d.year = e.year /\ d.month < e.month)
         /\ Index(d) = Index(e) <=> d.year = e.year /\ d.month = e.month
  <1>1. /\ d.year \in Int /\ e.year \in Int
        /\ d.month \in 1 .. 12 /\ e.month \in 1 .. 12
    BY DEF IsDate
  <1>2. \A y, z \in Int : \A m, n \in 1 .. 12 :
          12 * y + m - 1 < 12 * z + n - 1 <=> y < z \/ (y = z /\ m < n)
    OBVIOUS
  <1>3. \A y, z \in Int : \A m, n \in 1 .. 12 :
          12 * y + m - 1 = 12 * z + n - 1 <=> y = z /\ m = n
    OBVIOUS
  <1>4. Index(d) = 12 * d.year + d.month - 1 /\ Index(e) = 12 * e.year + e.month - 1
    BY DEF Index
  <1>5. Index(d) \in Int
    BY <1>1, <1>4
  <1>6. Index(d) < Index(e) <=> d.year < e.year \/ (d.year = e.year /\ d.month < e.month)
    BY ONLY <1>1, <1>2, <1>4
  <1>7. Index(d) = Index(e) <=> d.year = e.year /\ d.month = e.month
    <2>1. 12 * d.year + d.month - 1 = 12 * e.year + e.month - 1 <=> d.year = e.year /\ d.month = e.month
      <3>1. PICK y, z \in Int, m, n \in 1 .. 12 : y = d.year /\ z = e.year /\ m = d.month /\ n = e.month
        BY <1>1
      <3>2. 12 * y + m - 1 = 12 * z + n - 1 <=> y = z /\ m = n
        BY <1>3
      <3> QED BY ONLY <3>1, <3>2
    <2> QED BY <1>4, <2>1
  <1> QED BY <1>5, <1>6, <1>7

\* month_bounds: a month ends on the last of its days.
LEMMA EndOfMonth ==
  ASSUME NEW d, IsDate(d)
  PROVE  MonthEnd(d) = Date(d.year, d.month, DaysIn(d.year, d.month))
  <1> DEFINE next == IF d.month = 12 THEN Date(d.year + 1, 1, 1) ELSE Date(d.year, d.month + 1, 1)
             last == DaysIn(d.year, d.month)
  <1>1. last \in 28 .. 31 /\ d.month \in 1 .. 12 /\ d.year \in Int
    BY DaysInRange DEF IsDate
  <1> HIDE DEF last
  <1>2. ASSUME NEW k \in 1 .. last
        PROVE  NextDay(Date(d.year, d.month, k)) = next <=> k = last
    <2>1. CASE k < last
      <3> DEFINE c == Date(d.year, d.month, k)
      <3>1. c.year = d.year /\ c.month = d.month /\ c.day = k
        BY DEF Date
      <3>2. c.day < DaysIn(c.year, c.month)
        BY <2>1, <3>1 DEF last
      <3>3. [c EXCEPT !.day = c.day + 1].month = d.month
        BY DEF Date
      <3>4. NextDay(c).month = d.month
        <4> HIDE DEF c
        <4> QED BY <3>2, <3>3 DEF NextDay
      <3>5. next.month # d.month
        BY <1>1 DEF Date
      <3> QED BY <1>1, <2>1, <3>4, <3>5
    <2>2. CASE k = last
      BY <1>1, <2>2 DEF NextDay, Date, last
    <2> QED BY <1>1, <2>1, <2>2
  <1>3. Date(d.year, d.month, last) \in {Date(d.year, d.month, k) : k \in 1 .. last}
    BY <1>1
  <1>4. \A e \in {Date(d.year, d.month, k) : k \in 1 .. last} :
          NextDay(e) = next <=> e = Date(d.year, d.month, last)
    BY <1>1, <1>2 DEF Date
  <1>5. MonthEnd(d) = CHOOSE e \in {Date(d.year, d.month, k) : k \in 1 .. last} : NextDay(e) = next
    BY DEF MonthEnd, last
  <1> HIDE DEF next
  <1> QED BY <1>3, <1>4, <1>5 DEF last

\* The order of dates of different months, or of one.
LEMMA BeforeByIndex ==
  ASSUME NEW d, NEW e, IsDate(d), IsDate(e)
  PROVE  /\ Index(d) < Index(e) => Before(d, e) /\ ~Before(e, d)
         /\ Index(d) = Index(e) => (Before(d, e) <=> d.day < e.day)
  <1>1. /\ d.year \in Int /\ e.year \in Int /\ d.month \in Int /\ e.month \in Int
        /\ d.day \in Int /\ e.day \in Int
    BY DaysInRange DEF IsDate
  <1> QED BY <1>1, IndexOrders DEF Before

\* The first of the month of a date is a date of that month.
LEMMA FirstOfMonth ==
  ASSUME NEW d, IsDate(d)
  PROVE  IsDate(First(d)) /\ First(d) = Date(d.year, d.month, 1) /\ Index(First(d)) = Index(d)
  <1>1. First(d) = Date(d.year, d.month, 1)
    BY DEF IsDate, First, Date
  <1>2. First(d).year = d.year /\ First(d).month = d.month /\ First(d).day = 1
    BY <1>1 DEF Date
  <1>3. 1 \in 1 .. DaysIn(d.year, d.month)
    BY DaysInRange
  <1> QED BY <1>1, <1>2, <1>3 DEF IsDate, Index

\* Two firsts of one month are one date, and of two are ordered as the months are.
LEMMA FirstsByIndex ==
  ASSUME NEW d, NEW e, IsDate(d), IsDate(e), d.day = 1, e.day = 1
  PROVE  /\ d = e <=> Index(d) = Index(e)
         /\ Before(d, e) <=> Index(d) < Index(e)
  <1>1. d = e <=> Index(d) = Index(e)
    BY IndexOrders DEF IsDate
  <1>2. Before(d, e) <=> Index(d) < Index(e)
    BY IndexOrders, BeforeByIndex
  <1> QED BY <1>1, <1>2

\* in_last_week: the day is one of the last seven of the month.
LEMMA InLastSeven ==
  ASSUME NEW d, NEW e, IsDate(d), IsDate(e), e.day = 1
  PROVE  InLastWeek(d, e) <=> Index(d) = Index(e) /\ DaysIn(d.year, d.month) - d.day < 7
  <1>1. PICK l \in 28 .. 31 : l = DaysIn(e.year, e.month)
    BY DaysInRange
  <1>2. MonthEnd(e) = Date(e.year, e.month, l)
    BY <1>1, EndOfMonth
  <1> DEFINE end == Date(e.year, e.month, l)
             from == Date(e.year, e.month, l - 6)
  <1>3. end.year = e.year /\ end.month = e.month /\ end.day = l
    BY DEF Date
  <1>4. from.year = e.year /\ from.month = e.month /\ from.day = l - 6
    BY DEF Date
  <1>5. IsDate(end) /\ Index(end) = Index(e)
    BY <1>1, <1>3 DEF IsDate, Index
  <1>6. IsDate(from) /\ Index(from) = Index(e)
    BY <1>1, <1>4 DEF IsDate, Index
  <1>7. [end EXCEPT !.day = end.day - 6] = from
    BY DEF Date
  <1> HIDE DEF end, from
  <1>8. ~Before(from, e)
    BY <1>1, <1>4, <1>6, BeforeByIndex
  <1>9. LastWeekStart(e) = from
    BY <1>2, <1>7, <1>8 DEF LastWeekStart, end
  <1>10. InLastWeek(d, e) <=> ~Before(d, from) /\ ~Before(end, d)
    BY <1>2, <1>9 DEF InLastWeek, end
  <1>11. Index(d) \in Int /\ Index(e) \in Int /\ d.day \in Int /\ d.day <= DaysIn(d.year, d.month)
    BY IndexOrders, DaysInRange DEF IsDate
  <1>12. CASE Index(d) = Index(e)
    <2>1. DaysIn(d.year, d.month) = l
      BY <1>1, <1>12, IndexOrders
    <2>2. Before(d, from) <=> d.day < l - 6
      BY <1>4, <1>6, <1>12, BeforeByIndex
    <2>3. Before(end, d) <=> l < d.day
      BY <1>3, <1>5, <1>12, BeforeByIndex
    <2> QED BY <1>1, <1>10, <1>11, <1>12, <2>1, <2>2, <2>3
  <1>13. CASE Index(d) # Index(e)
    <2>1. Index(d) < Index(e) \/ Index(e) < Index(d)
      BY <1>11, <1>13
    <2>2. Before(d, from) \/ Before(end, d)
      BY <1>5, <1>6, <2>1, BeforeByIndex
    <2> QED BY <1>10, <1>13, <2>2
  <1> QED BY <1>12, <1>13

\* Going back from the first of a month is going back from any of its days.
LEMMA MonthsOfPlan ==
  ASSUME NEW d, IsDate(d)
  PROVE  /\ IsDate(LastMonthStart(d)) /\ LastMonthStart(d).day = 1
         /\ Index(LastMonthStart(d)) = Index(d) - 1
         /\ IsDate(RetentionExpiryCutoff(d)) /\ RetentionExpiryCutoff(d).day = 1
         /\ Index(RetentionExpiryCutoff(d)) = Index(d) - 12
  <1>1. IsDate(First(d)) /\ Index(First(d)) = Index(d)
    BY FirstOfMonth
  <1> QED BY <1>1, SubtractsAny DEF LastMonthStart, RetentionExpiryCutoff

\* On whichever day, of whichever year, the months, the last week and the cutoff that
\* plan_retention works with are those of the calendar.
LEMMA RightOnAnyDay ==
  ASSUME NEW d, IsDate(d)
  PROVE  SubtractsMonths(d) /\ LastWeekIsSevenDays(d) /\ DroppedAfterTwelve(d) /\ MonthsAreAdjacent(d)
  <1>1. SubtractsMonths(d)
    BY SubtractsAny DEF SubtractsMonths, IsDate
  <1>2. LastWeekIsSevenDays(d)
    <2>1. InLastWeek(d, First(d)) <=> DaysIn(d.year, d.month) - d.day < 7
      <3>1. IsDate(First(d)) /\ First(d).day = 1 /\ Index(First(d)) = Index(d)
        BY FirstOfMonth DEF Date
      <3> QED BY <3>1, InLastSeven
    <2>2. ~InLastWeek(d, LastMonthStart(d))
      <3>1. Index(d) # Index(LastMonthStart(d))
        BY MonthsOfPlan, IndexOrders
      <3> QED BY <3>1, MonthsOfPlan, InLastSeven
    <2> QED BY <2>1, <2>2 DEF LastWeekIsSevenDays
  <1>3. DroppedAfterTwelve(d)
    <2> SUFFICES ASSUME NEW n \in 0 .. 24
                 PROVE  Before(SubtractMonths(d, n), RetentionExpiryCutoff(d)) <=> n > 12
      BY DEF DroppedAfterTwelve
    <2>1. PICK e : e = SubtractMonths(d, n) /\ IsDate(e) /\ e.day = 1 /\ Index(e) = Index(d) - n
      BY SubtractsAny
    <2>2. Before(e, RetentionExpiryCutoff(d)) <=> Index(e) < Index(d) - 12
      BY <2>1, MonthsOfPlan, FirstsByIndex
    <2> QED BY <2>1, <2>2, IndexOrders
  <1>4. MonthsAreAdjacent(d)
    <2>1. PICK e : e = LastMonthStart(d) /\ IsDate(e) /\ Index(e) = Index(d) - 1
      BY MonthsOfPlan
    <2>2. PICK l \in 28 .. 31 : l = DaysIn(e.year, e.month) /\ MonthEnd(e) = Date(e.year, e.month, l)
      BY <2>1, EndOfMonth, DaysInRange
    <2> DEFINE end == Date(e.year, e.month, l)
    <2>3. end.year = e.year /\ end.month = e.month /\ end.day = l
      BY DEF Date
    <2>4. ~(end.day < DaysIn(end.year, end.month))
      BY <2>2, <2>3
    <2>5. NextDay(end) = IF e.month < 12 THEN Date(e.year, e.month + 1, 1) ELSE Date(e.year + 1, 1, 1)
      <3> HIDE DEF end
      <3> QED BY <2>3, <2>4 DEF NextDay
    <2>6. /\ d.year \in Int /\ d.month \in 1 .. 12 /\ e.year \in Int /\ e.month \in 1 .. 12
          /\ 12 * e.year + e.month = 12 * d.year + d.month - 1
      BY <2>1 DEF IsDate, Index
    <2>7. CASE e.month < 12
      <3>1. d.year = e.year /\ d.month = e.month + 1
        BY <2>6, <2>7
      <3> QED BY <2>1, <2>2, <2>5, <2>7, <3>1, FirstOfMonth DEF MonthsAreAdjacent
    <2>8. CASE ~(e.month < 12)
      <3>1. d.year = e.year + 1 /\ d.month = 1
        BY <2>6, <2>8
      <3> QED BY <2>1, <2>2, <2>5, <2>8, <3>1, FirstOfMonth DEF MonthsAreAdjacent
    <2> QED BY <2>7, <2>8
  <1> QED BY <1>1, <1>2, <1>3, <1>4

\* Whatever the years, and on every day of theirs, going back two years and more crosses the
\* Decembers it has to, the last week of a month is its last seven days, a backup expires after
\* twelve calendar months, and last month ends the day before the current one begins.
THEOREM DatesAreAlwaysRight == Spec => []DatesAreRight
  <1>1. \A d \in Days : IsDate(d)
    BY YearsAssumption DEF Days, IsDate, Date
  <1>2. RightDays = Days
    BY <1>1, RightOnAnyDay DEF RightDays
  <1>3. DatesAreRight
    BY <1>2 DEF DatesAreRight
  <1> QED BY <1>3, PTL

\* The dates that plan_retention compares are ordered as the numbers of months that the plans of
\* Retention compare, with KeepMonths = 12: a backup made on e is one of the last month, of
\* a month before it, or expired on d, for the one when and only when it is for the other.
THEOREM PlanReadsMonths ==
  ASSUME NEW d, NEW e, IsDate(d), IsDate(e)
  PROVE  /\ First(e) = LastMonthStart(d) <=> Index(e) + 1 = Index(d)
         /\ Before(First(e), LastMonthStart(d)) <=> Index(e) + 1 < Index(d)
         /\ Before(e, RetentionExpiryCutoff(d)) <=> Index(e) + 12 < Index(d)
  <1>1. Index(d) \in Int /\ Index(e) \in Int
    BY IndexOrders
  <1>2. IsDate(First(e)) /\ First(e).day = 1 /\ Index(First(e)) = Index(e)
    BY FirstOfMonth DEF Date
  <1>3. PICK l : /\ l = LastMonthStart(d) /\ IsDate(l) /\ l.day = 1 /\ Index(l) = Index(d) - 1
    BY MonthsOfPlan
  <1>4. PICK c : /\ c = RetentionExpiryCutoff(d) /\ IsDate(c) /\ c.day = 1 /\ Index(c) = Index(d) - 12
    BY MonthsOfPlan
  <1>5. First(e) = l <=> Index(e) = Index(d) - 1
    BY <1>2, <1>3, FirstsByIndex
  <1>6. Before(First(e), l) <=> Index(e) < Index(d) - 1
    BY <1>2, <1>3, FirstsByIndex
  <1>7. Before(e, c) <=> Index(e) < Index(c)
    <2>1. ~(e.day < c.day)
      BY <1>4, DaysInRange DEF IsDate
    <2> QED BY <1>1, <1>4, <2>1, BeforeByIndex
  <1> QED BY <1>1, <1>3, <1>4, <1>5, <1>6, <1>7

\* What the proofs above assume of the months and of the last weeks holds for every sequence
\* of dates that never goes back, whatever its length: each month has its number, months
\* do not go back, and a day after one of the last week, in the same month, is in it too.
THEOREM CalendarIsAdmitted ==
  ASSUME NEW H \in Nat, NEW day,
         \A t \in 1 .. H : IsDate(day[t]) /\ day[t].year \in Nat,
         \A t, u \in 1 .. H : t <= u => ~Before(day[u], day[t])
  PROVE  LET month == [t \in 1 .. H |-> Index(day[t])]
             last == {t \in 1 .. H : InLastWeek(day[t], First(day[t]))}
         IN /\ month \in [1 .. H -> Nat]
            /\ \A t, u \in 1 .. H : t <= u => month[t] <= month[u]
            /\ \A t \in last, u \in 1 .. H : t <= u /\ month[t] = month[u] => u \in last
  <1>1. ASSUME NEW t \in 1 .. H PROVE Index(day[t]) \in Nat
    <2>1. PICK y \in Nat, m \in 1 .. 12 : y = day[t].year /\ m = day[t].month
      BY DEF IsDate
    <2> QED BY <2>1 DEF Index
  <1>2. ASSUME NEW t \in 1 .. H, NEW u \in 1 .. H, t <= u
        PROVE  Index(day[t]) <= Index(day[u])
    <2>1. ~(Index(day[u]) < Index(day[t]))
      BY <1>2, BeforeByIndex
    <2> QED BY <1>1, <2>1
  <1>3. ASSUME NEW t \in 1 .. H
        PROVE  InLastWeek(day[t], First(day[t])) <=> DaysIn(day[t].year, day[t].month) - day[t].day < 7
    <2>1. IsDate(First(day[t])) /\ First(day[t]).day = 1 /\ Index(First(day[t])) = Index(day[t])
      BY FirstOfMonth DEF Date
    <2> QED BY <2>1, InLastSeven
  <1>4. ASSUME NEW t \in 1 .. H, NEW u \in 1 .. H, t <= u, Index(day[t]) = Index(day[u]),
               InLastWeek(day[t], First(day[t]))
        PROVE  InLastWeek(day[u], First(day[u]))
    <2>1. day[t].year = day[u].year /\ day[t].month = day[u].month
      BY <1>4, IndexOrders
    <2>2. ~(day[u].day < day[t].day)
      BY <1>4, BeforeByIndex
    <2>3. PICK l \in 28 .. 31 : l = DaysIn(day[u].year, day[u].month)
      BY DaysInRange
    <2>4. day[t].day \in 1 .. l /\ day[u].day \in 1 .. l
      BY <2>1, <2>3 DEF IsDate
    <2> QED BY <1>3, <1>4, <2>1, <2>2, <2>3, <2>4
  <1> QED BY <1>1, <1>2, <1>4
=============================================================================
