------------------------------ MODULE Restore -------------------------------
(***************************************************************************)
(* restore(), verify() and export_to_target() of src/backup/core.py, each  *)
(* call in a process of its own, while objects rot or are deleted by a     *)
(* retention.  pg_restore is a child process: it works in one transaction, *)
(* may fail at any time, and goes on when its parent is killed.            *)
(*                                                                         *)
(* Bytes are abstracted to where they come from, an object or a database,  *)
(* and to whether they still are what was written there.                   *)
(***************************************************************************)
EXTENDS Naturals

CONSTANTS Proc, Key, Db,
          Ops,          \* what the processes call
          Summed,       \* objects with a sha256 in their metadata
          Translated    \* the messages of pg_restore are not in English

ASSUME RestoreAssumption ==
  /\ Ops \subseteq {"restore", "pipe", "verify", "export"} /\ Summed \subseteq Key /\ Translated \in BOOLEAN
  /\ {} \notin {Ops, Key, Db}

VARIABLES object,    \* each object: "good", "rotten" or "gone"
          content,   \* what each database holds
          temps,     \* processes with a temporary file on disk
          pc, call, child

vars == <<object, content, temps, pc, call, child>>

Bytes == [of : Key \cup Db, ok : BOOLEAN]
Calls == [op : Ops, key : Key, source : Db, target : Db, body : Bytes,
          summed : BOOLEAN, fed : BOOLEAN, committed : BOOLEAN, ok : BOOLEAN]
Ended == {"idle", "returned", "raised", "killed"}
Exits == {"zero", "one", "other"}

Init ==
  /\ object = [k \in Key |-> "good"] /\ content = [d \in Db |-> [of |-> d, ok |-> TRUE]]
  /\ temps = {} /\ pc = [p \in Proc |-> "idle"] /\ child = [p \in Proc |-> "none"]
  /\ LET d == CHOOSE e \in Db : TRUE
         c == [op |-> CHOOSE o \in Ops : TRUE, key |-> CHOOSE k \in Key : TRUE, source |-> d, target |-> d,
               body |-> content[d], summed |-> FALSE, fed |-> FALSE, committed |-> FALSE, ok |-> FALSE]
     IN call = [p \in Proc |-> c]

Goto(p, s) == pc' = [pc EXCEPT ![p] = s]

\* The bytes of a GET.
Fetched(k) == [of |-> k, ok |-> object[k] = "good"]

\* A digest of the object was recorded and read, and the bytes have another.
Mismatch(c, b) == c.summed /\ ~b.ok

\* The finally clauses: the temporary file is removed, a running child killed.
Leave(p, s) ==
  /\ Goto(p, s) /\ temps' = temps \ {p}
  /\ child' = [child EXCEPT ![p] = IF @ = "running" THEN "killed" ELSE @]

Raise(p) == Leave(p, "raised") /\ UNCHANGED <<object, content, call>>

\* restore, verify, export of cli.py up to their job: the key and the target of
\* resolve_cfg, which may have nothing to do with each other.
Start(p) ==
  /\ pc[p] = "idle"
  /\ \E op \in Ops, k \in Key, s, d \in Db :
       /\ call' = [call EXCEPT ![p].op = op, ![p].key = k, ![p].source = s, ![p].target = d]
       /\ Goto(p, [restore |-> "get", verify |-> "head", pipe |-> "spawn", export |-> "dump"][op])
       /\ temps' = IF op \in {"restore", "export"} THEN temps \cup {p} ELSE temps
  /\ UNCHANGED <<object, content, child>>

\* download_to_file of restore, or hash_object of verify and its verdict.
Get(p) ==
  LET b == Fetched(call[p].key) IN
  /\ pc[p] = "get"
  /\ \/ Raise(p)
     \/ /\ object[call[p].key] # "gone"
        /\ call' = [call EXCEPT ![p].body = b, ![p].ok = ~Mismatch(call[p], b)]
        /\ IF call[p].op = "verify" THEN Leave(p, "returned") ELSE Goto(p, "head") /\ UNCHANGED <<temps, child>>
        /\ UNCHANGED <<object, content>>

\* Faulty variant of Head: the digest is read and not compared.
HeadUncompared(p) ==
  /\ pc[p] = "head"
  /\ call' = [call EXCEPT ![p].summed = call[p].key \in Summed]
  /\ Goto(p, IF call[p].op = "verify" THEN "get" ELSE "spawn")
  /\ UNCHANGED <<object, content, temps, child>>

\* object_checksum: any ClientError, also of an object that is gone, reads as "no checksum".
Head(p) ==
  /\ pc[p] = "head"
  /\ \/ Raise(p)
     \/ \E s \in {FALSE, call[p].key \in Summed /\ object[call[p].key] # "gone"} :
          LET c == [call[p] EXCEPT !.summed = s] IN
          IF c.op = "verify" THEN /\ call' = [call EXCEPT ![p] = c] /\ Goto(p, "get")
                                  /\ UNCHANGED <<object, content, temps, child>>
          ELSE IF Mismatch(c, c.body) THEN Raise(p)
          ELSE /\ call' = [call EXCEPT ![p] = c] /\ Goto(p, "spawn")
               /\ UNCHANGED <<object, content, temps, child>>

\* temp_dump_file: a dump that ends with another code than zero raises.
Dump(p) ==
  /\ pc[p] = "dump"
  /\ \/ Raise(p)
     \/ /\ call' = [call EXCEPT ![p].body = content[call[p].source]] /\ Goto(p, "spawn")
        /\ UNCHANGED <<object, content, temps, child>>

\* pg_restore starts; export gives it the file itself to read.
Spawn(p) ==
  /\ pc[p] = "spawn"
  /\ \/ Raise(p)
     \/ /\ child' = [child EXCEPT ![p] = "running"]
        /\ call' = [call EXCEPT ![p].fed = call[p].op = "export"]
        /\ Goto(p, IF call[p].op = "export" THEN "wait" ELSE "feed")
        /\ UNCHANGED <<object, content, temps>>

\* The loop of stream_restore, with the object itself in the pipe when it does not
\* verify.  A broken pipe, bytes that do not decompress, a lost connection raise.
Feed(p) ==
  LET b == IF call[p].op = "pipe" THEN Fetched(call[p].key) ELSE call[p].body IN
  /\ pc[p] = "feed"
  /\ \/ Raise(p)
     \/ /\ call[p].op = "pipe" => object[call[p].key] # "gone"
        /\ call' = [call EXCEPT ![p].body = b, ![p].fed = TRUE] /\ Goto(p, "wait")
        /\ UNCHANGED <<object, content, temps, child>>

\* pg_restore commits, if it got all of its input and found nothing wrong with it ...
Commit(p) ==
  /\ child[p] = "running" /\ call[p].fed
  /\ content' = [content EXCEPT ![call[p].target] = call[p].body]
  /\ call' = [call EXCEPT ![p].committed = TRUE]
  /\ child' = [child EXCEPT ![p] = "zero"]
  /\ UNCHANGED <<object, temps, pc>>

\* ... or rolls back: on an error, or with nobody left to feed it.
Rollback(p) ==
  /\ child[p] = "running"
  /\ \E code \in {"one", "other"} : child' = [child EXCEPT ![p] = code]
  /\ UNCHANGED <<object, content, temps, pc, call>>

\* Faulty variant of Accepted: one is what pg_restore returns after warnings.
AcceptedWarnings(code) == code \in {"zero", "one"}

\* A code of one fails if the message has the word "error" in it.
Accepted(code) == code = "zero" \/ (code = "one" /\ Translated)

Wait(p) ==
  /\ pc[p] = "wait" /\ child[p] \in Exits
  /\ Leave(p, IF Accepted(child[p]) THEN "returned" ELSE "raised")
  /\ UNCHANGED <<object, content, call>>

Interrupt(p) == pc[p] \notin Ended /\ Raise(p)

\* SIGKILL or the out-of-memory killer, which the child survives.
Kill(p) ==
  /\ pc[p] \notin Ended /\ Goto(p, "killed")
  /\ UNCHANGED <<object, content, temps, call, child>>

Step(p) == \/ Start(p) \/ Get(p) \/ Head(p) \/ Dump(p) \/ Spawn(p) \/ Feed(p) \/ Wait(p)
           \/ Commit(p) \/ Rollback(p) \/ Interrupt(p) \/ Kill(p)

\* Storage loses bits; a retention or `delete` removes the object.
Decay(k) ==
  /\ object[k] # "gone" /\ \E s \in {"rotten", "gone"} : object' = [object EXCEPT ![k] = s]
  /\ UNCHANGED <<content, temps, pc, call, child>>

Next == (\E p \in Proc : Step(p)) \/ \E k \in Key : Decay(k)

Spec == Init /\ [][Next]_vars
----------------------------------------------------------------------------
(* Properties *)

\* Every variable keeps its type.
TypeOK ==
  /\ object \in [Key -> {"good", "rotten", "gone"}] /\ content \in [Db -> Bytes] /\ temps \subseteq Proc
  /\ pc \in [Proc -> Ended \cup {"get", "head", "dump", "spawn", "feed", "wait"}]
  /\ call \in [Proc -> Calls] /\ child \in [Proc -> {"none", "running", "killed"} \cup Exits]

\* Whatever rots, is deleted between the download and the HEAD, fails or is killed: damaged
\* bytes reach a database only through a restore that had no checksum to compare.
DamageUnchecked ==
  (\E d \in Db : ~content[d].ok) =>
    \E p \in Proc : call[p].op \in {"restore", "pipe"} /\ call[p].committed /\ ~call[p].summed

\* A restore or export that returned has committed its bytes.
ReturnedIsRestored ==
  \A p \in Proc : pc[p] = "returned" /\ call[p].op # "verify" => call[p].committed

\* A command that returned or raised, Ctrl-C included, has no child at work and no
\* temporary file behind it: what it says about the database is settled.
NothingLeft ==
  \A p \in Proc : pc[p] \in {"returned", "raised"} => p \notin temps /\ child[p] # "running"

\* verify never calls damaged bytes good once it has read a checksum.
CheckedIsSound ==
  \A p \in Proc : pc[p] = "returned" /\ call[p].op = "verify" /\ call[p].ok /\ call[p].summed => call[p].body.ok

\* Damaged bytes are stopped, or no checksum was read, by restores and by verify.
DamageIsStopped == TypeOK /\ DamageUnchecked /\ CheckedIsSound

\* A call that has ended is over: it did what it reports, and nothing of it goes on.
EndIsFinal == ReturnedIsRestored /\ NothingLeft
=============================================================================
