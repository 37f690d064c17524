------------------------------ MODULE Engines -------------------------------
(***************************************************************************)
(* The engine cache of src/db/session.py under the two threads of the      *)
(* scheduler: jobs in the main one, requests in the server's.  get_engine  *)
(* looks and stores without a lock, so an engine may be replaced while it  *)
(* is in use, and its pool stays open until the garbage collector comes.   *)
(* The way out of schedule() disposes of those still in the cache.         *)
(***************************************************************************)
EXTENDS Naturals

CONSTANTS Url,    \* the URLs sessions are opened for: pairs of a scheme and the rest
          Main, Server

ASSUME EnginesAssumption == Main # Server /\ Url # {} /\ \A u \in Url : u = <<u[1], u[2]>>

Thread == {Main, Server}

\* db_url: one spelling for the two usual ones; any other URL is left as it is.
DbUrl(u) == IF u[1] \in {"postgres", "postgresql"} THEN <<"postgresql+psycopg", u[2]>> ELSE u

Key == {DbUrl(u) : u \in Url}

\* The engine a thread has made for a key, and no engine.
Engine(k, t) == [key |-> k, by |-> t]
None == [key |-> <<>>, by |-> Main]

VARIABLES engines,   \* _engines
          open,      \* engines with connections in their pools
          replaced,  \* history: engines that were taken out of the cache by another
          pc, key, engine,    \* of each thread: where it is, what it asked for, what it got
          phase,     \* of schedule(): "work", "shutdown", "dispose", "exited"
          request,   \* the server thread is handling a request
          left       \* keys that dispose_engines has yet to come to

vars == <<engines, open, replaced, pc, key, engine, phase, request, left>>

Init ==
  /\ engines = [k \in Key |-> None] /\ open = {} /\ replaced = {}
  /\ pc = [t \in Thread |-> "idle"] /\ engine = [t \in Thread |-> None]
  /\ key = [t \in Thread |-> CHOOSE k \in Key : TRUE]
  /\ phase = "work" /\ request = FALSE /\ left = {}

Goto(t, s) == pc' = [pc EXCEPT ![t] = s]
main == <<phase, request, left>>
pools == <<open, replaced>>

\* session() or ping() of a job or of a request.
Ask(t) ==
  /\ pc[t] = "idle" /\ IF t = Main THEN phase = "work" ELSE request
  /\ \E u \in Url : key' = [key EXCEPT ![t] = DbUrl(u)]
  /\ Goto(t, "look") /\ UNCHANGED <<engines, pools, engine, main>>

\* _engines.get ...
Look(t) ==
  /\ pc[t] = "look"
  /\ engine' = [engine EXCEPT ![t] = engines[key[t]]]
  /\ Goto(t, IF engines[key[t]] = None THEN "store" ELSE "use")
  /\ UNCHANGED <<engines, pools, key, main>>

\* ... and create_engine, into the cache, over what another thread has put there.
Store(t) ==
  /\ pc[t] = "store"
  /\ engine' = [engine EXCEPT ![t] = Engine(key[t], t)]
  /\ engines' = [engines EXCEPT ![key[t]] = engine'[t]]
  /\ replaced' = replaced \cup ({engines[key[t]]} \ {None})
  /\ Goto(t, "use") /\ UNCHANGED <<open, key, main>>

\* create_engine raises on a URL that is malformed or has no driver.
Refuse(t) == pc[t] = "store" /\ Goto(t, "idle") /\ UNCHANGED <<engines, pools, key, engine, main>>

\* A connection, unless the database refuses it.
Use(t) ==
  /\ pc[t] = "use" /\ open' \in {open, open \cup {engine[t]}}
  /\ Goto(t, "close") /\ UNCHANGED <<engines, replaced, key, engine, main>>

\* commit or rollback, and close: the connection goes back to its pool.
Close(t) ==
  /\ pc[t] = "close" /\ engine' = [engine EXCEPT ![t] = None]
  /\ Goto(t, "idle") /\ UNCHANGED <<engines, pools, key, main>>

\* The garbage collector finds an engine that nobody knows.
Collect(e) ==
  /\ e \in open /\ e \notin {engines[k] : k \in Key} \cup {engine[t] : t \in Thread}
  /\ open' = open \ {e} /\ UNCHANGED <<engines, replaced, pc, key, engine, main>>

BeginRequest ==
  /\ ~request /\ phase \in {"work", "shutdown"} /\ request' = TRUE
  /\ UNCHANGED <<engines, pools, pc, key, engine, phase, left>>

EndRequest ==
  /\ request /\ pc[Server] = "idle" /\ request' = FALSE
  /\ UNCHANGED <<engines, pools, pc, key, engine, phase, left>>

\* The main loop ends.
Leave ==
  /\ phase = "work" /\ pc[Main] = "idle" /\ phase' = "shutdown"
  /\ UNCHANGED <<engines, pools, pc, key, engine, request, left>>

\* Faulty variant of Shutdown: the daemon thread is left to itself.
ShutdownAtOnce ==
  /\ phase = "shutdown" /\ phase' = "dispose" /\ left' = {k \in Key : engines[k] # None}
  /\ UNCHANGED <<engines, pools, pc, key, engine, request>>

\* server.shutdown() waits for the request being handled.
Shutdown ==
  /\ phase = "shutdown" /\ ~request
  /\ phase' = "dispose" /\ left' = {k \in Key : engines[k] # None}
  /\ UNCHANGED <<engines, pools, pc, key, engine, request>>

\* dispose_engines; a dictionary that has grown raises in the loop.
Dispose ==
  /\ phase = "dispose"
  /\ \/ \E k \in left : /\ open' = open \ {engines[k]} /\ left' = left \ {k}
                        /\ UNCHANGED <<engines, phase>>
     \/ left = {} /\ engines' = [k \in Key |-> None] /\ phase' = "exited" /\ UNCHANGED <<open, left>>
  /\ UNCHANGED <<replaced, pc, key, engine, request>>

Step(t) == Ask(t) \/ Look(t) \/ Store(t) \/ Refuse(t) \/ Use(t) \/ Close(t)

Next == (\E t \in Thread : Step(t)) \/ (\E e \in open : Collect(e)) \/ BeginRequest \/ EndRequest \/ Leave \/ Shutdown \/ Dispose

Spec == Init /\ [][Next]_vars
----------------------------------------------------------------------------
(* Properties *)

\* Every variable keeps its type, and an engine is cached and used under its own key.
TypeOK ==
  /\ \A k \in Key : engines[k] \in {None} \cup {Engine(k, t) : t \in Thread}
  /\ open \cup replaced \subseteq {Engine(k, t) : k \in Key, t \in Thread}
  /\ pc \in [Thread -> {"idle", "look", "store", "use", "close"}] /\ key \in [Thread -> Key]
  /\ \A t \in Thread : engine[t] # None => engine[t].key = key[t] /\ engine[t].by \in Thread
  /\ phase \in {"work", "shutdown", "dispose", "exited"} /\ request \in BOOLEAN /\ left \subseteq Key

Spelled(k) == k[1] \in {"postgres", "postgresql", "postgresql+psycopg"}

\* A database has one pool that lasts, whichever of its three spellings a URL has and however
\* the threads race for the cache: the limit of a pool is the limit of the process, but for
\* pools that wait for the garbage collector.
OnePool ==
  \A e, f \in open : Spelled(e.key) /\ Spelled(f.key) /\ e.key[2] = f.key[2] /\ e # f =>
    {e, f} \cap replaced # {}

\* A race costs at most one pool for each database, in all the life of the process.
OneReplaced == \A e, f \in replaced : e.key = f.key => e = f

\* schedule() leaves no connection of a cached engine behind, whatever was being handled.
NothingOpen == phase = "exited" => open \subseteq replaced

\* The type of the variables, and where the pools of a process are.
PoolsInv == TypeOK /\ OnePool /\ OneReplaced /\ NothingOpen
=============================================================================
