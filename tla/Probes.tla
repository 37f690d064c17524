------------------------------- MODULE Probes -------------------------------
(***************************************************************************)
(* The one server thread of src/observability/metrics_server.py and the    *)
(* kubelet that asks it for /health (k8s/db-toolchain-deployment.yaml).    *)
(* Requests wait in the backlog of the socket; /ready, /health/full and    *)
(* /metrics ask every database and S3, which may keep the thread for as    *)
(* long as a connection takes to time out.  A client that has given up     *)
(* leaves its request in the backlog.  Time goes in ticks of five seconds. *)
(***************************************************************************)
EXTENDS Naturals, Sequences

CONSTANTS Backlog,      \* request_queue_size
          Hang,         \* ticks a request may wait for databases that hang
          LivePeriod,   \* periodSeconds of the livenessProbe; timeoutSeconds is within a tick
          Threshold     \* its failureThreshold

ProbesAssumption ==
  /\ {Backlog, Hang, LivePeriod, Threshold} \subseteq Nat \ {0}
  /\ Backlog > 1 /\ LivePeriod > 1

VARIABLES hung,      \* a database accepts no connection and refuses none
          serving,   \* the server thread waits for that database
          left,      \* ticks until it gives up
          queue,     \* the backlog: "check", "live", and "late" for a probe given up
          clock,     \* ticks since the last probe was sent
          waiting,   \* the kubelet waits for an answer
          failures,  \* probes in a row without one
          calm       \* history: ticks since a database hung, at most Enough

vars == <<hung, serving, left, queue, clock, waiting, failures, calm>>

\* The number of ticks without a database that hangs after which no probe fails; not one less.
Enough == Hang + LivePeriod + 1

Init ==
  /\ hung = FALSE /\ serving = FALSE /\ left = 0 /\ queue = <<>>
  /\ clock = 1 /\ waiting = FALSE /\ failures = 0 /\ calm = Enough
----------------------------------------------------------------------------
(* The server thread *)

Take(kind) == ~serving /\ queue # <<>> /\ Head(queue) = kind /\ queue' = Tail(queue)

\* do_GET of /health and its aliases.
Live ==
  /\ \/ Take("live") /\ waiting' = FALSE /\ failures' = 0
     \/ Take("late") /\ UNCHANGED <<waiting, failures>>
  /\ UNCHANGED <<hung, serving, left, clock, calm>>

\* Faulty variant of Check: each request waits before it asks.
CheckSlow ==
  /\ Take("check") /\ serving' = TRUE /\ left' = Hang
  /\ UNCHANGED <<hung, clock, waiting, failures, calm>>

\* do_GET of /ready, /health/full and /metrics.
Check ==
  /\ Take("check") /\ serving' = hung /\ left' = IF hung THEN Hang ELSE 0
  /\ UNCHANGED <<hung, clock, waiting, failures, calm>>

\* The database answers, or the attempt is given up: readiness catches it, and the
\* server logs the exception of a /metrics and goes on.
Answer ==
  /\ serving /\ (~hung \/ left = 0) /\ serving' = FALSE /\ left' = 0
  /\ UNCHANGED <<hung, queue, clock, waiting, failures, calm>>

ServerThread == Live \/ Check \/ Answer
----------------------------------------------------------------------------
(* Its clients, and time *)

\* A connection that finds the backlog full waits outside of it.
Join(q, kind) == IF Len(q) < Backlog THEN Append(q, kind) ELSE q

GivenUp(q) == [i \in DOMAIN q |-> IF q[i] = "live" THEN "late" ELSE q[i]]

\* A tick passes while the thread waits for a database or for a request.  A probe that has
\* no answer by then has failed; the next is sent when its time has come; and Prometheus,
\* the readiness probe or a person may send a request that asks the databases.
Tick ==
  LET q == IF waiting THEN GivenUp(queue) ELSE queue
      sent == (clock + 1) % LivePeriod = 0 IN
  /\ failures < Threshold /\ IF serving THEN left > 0 ELSE queue = <<>>
  /\ left' = IF serving THEN left - 1 ELSE 0
  /\ clock' = (clock + 1) % LivePeriod
  /\ failures' = IF waiting THEN failures + 1 ELSE failures
  /\ waiting' = sent
  /\ queue' \in LET p == IF sent THEN Join(q, "live") ELSE q IN
                  {p, Join(p, "check"), IF sent THEN Join(Join(q, "check"), "live") ELSE p}
  /\ calm' = IF hung THEN 0 ELSE IF calm < Enough THEN calm + 1 ELSE calm
  /\ UNCHANGED <<hung, serving>>

\* The kubelet restarts the pod, and whatever job was running is gone.
Kill ==
  /\ failures = Threshold
  /\ serving' = FALSE /\ left' = 0 /\ queue' = <<>> /\ clock' = 1 /\ waiting' = FALSE /\ failures' = 0
  /\ UNCHANGED <<hung, calm>>

Outage ==
  /\ hung' = ~hung /\ calm' = 0
  /\ UNCHANGED <<serving, left, queue, clock, waiting, failures>>

Next == ServerThread \/ Tick \/ Kill \/ Outage

Spec == Init /\ [][Next]_vars
----------------------------------------------------------------------------
(* Properties *)

\* Every variable keeps its type; a probe that waits is at most once in the backlog.
TypeOK ==
  /\ hung \in BOOLEAN /\ serving \in BOOLEAN /\ left \in 0 .. Hang
  /\ queue \in Seq({"check", "live", "late"}) /\ Len(queue) <= Backlog
  /\ clock \in 0 .. LivePeriod - 1 /\ waiting \in BOOLEAN /\ failures \in 0 .. Threshold
  /\ calm \in 0 .. Enough
  /\ \A i, j \in DOMAIN queue : queue[i] = "live" /\ queue[j] = "live" => i = j

\* The probes fail on account of a database that hung not long ago, whatever its outage has
\* left in the backlog: at most one of its requests still waits for a timeout.
FailsAfterHang == failures > 0 => calm < Enough

\* What every state of the server thread and its clients has.
ProbesInv == TypeOK /\ FailsAfterHang
=============================================================================
