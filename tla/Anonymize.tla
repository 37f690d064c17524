----------------------------- MODULE Anonymize ------------------------------
(***************************************************************************)
(* src/backup/anonymize.py: anonymize_backup copies a backup through one   *)
(* scratch database on the server of the first ("primary") database, and   *)
(* anonymize_database copies a live database into a target; several        *)
(* processes at once.  Of backup() only what it does to the prefix of the  *)
(* primary is here; its failures and its status file are in Backup.        *)
(*                                                                         *)
(* A database holds the rows of some of the sources.  None is ever masked: *)
(* see Mask.                                                               *)
(***************************************************************************)
EXTENDS Naturals

CONSTANTS Proc,      \* calls, one process each
          Source,    \* the databases whose backups or rows are copied
          Tabled,    \* those that have "db-toolchain".anonymize_columns
          Ops        \* subset of {"backup", "database"}

ASSUME AnonymizeAssumption ==
  Tabled \subseteq Source /\ Ops \subseteq {"backup", "database"}

VARIABLES place,    \* what "scratch" and "target" hold
          bucket,   \* the objects: a key and what it holds
          child,    \* the pg_restore of each call: "none", "running" or "done"
          pc, call

vars == <<place, bucket, child, pc, call>>

Missing == [exists |-> FALSE, pieces |-> {}]
Holding(S) == [exists |-> TRUE, pieces |-> S]
Over == {"returned", "raised", "undropped", "killed"}

\* A pg_restore whose parent was killed is still the call at work.
Working(p) == pc[p] \notin Over \cup {"idle"} \/ child[p] = "running"

\* The key of backup() in the primary's prefix, and the --out key, of each call.
Temp(p) == <<"temp", p>>
Out(p) == <<"out", p>>

Init ==
  /\ place = [scratch |-> Missing, target |-> Holding({})]
  /\ bucket = {} /\ child = [p \in Proc |-> "none"] /\ pc = [p \in Proc |-> "idle"]
  /\ call \in [Proc -> [op : Ops, source : Source, dump : {{}}]]

Goto(p, s) == pc' = [pc EXCEPT ![p] = s]
Where(p) == IF call[p].op = "backup" THEN "scratch" ELSE "target"
Raise(p) == Goto(p, IF call[p].op = "backup" THEN "failing" ELSE "raised")

\* The finally clause of stream_restore, or subprocess.run, kills a pg_restore at work.
Fails(p) == Raise(p) /\ child' = [child EXCEPT ![p] = "none"] /\ UNCHANGED <<place, bucket, call>>

\* anonymize_database has no scratch database to prepare.
Start(p) ==
  /\ pc[p] = "idle"
  /\ Goto(p, IF call[p].op = "backup" THEN "exists" ELSE "restore")
  /\ UNCHANGED <<place, bucket, child, call>>

\* ensure_database asks whether the database exists ...
Exists(p) ==
  /\ pc[p] = "exists"
  /\ Goto(p, IF place["scratch"].exists THEN "archive" ELSE "create") \/ Goto(p, "raised")
  /\ UNCHANGED <<place, bucket, child, call>>

\* ... and creates it if not, which fails when another process did so in between; an error
\* may also come after PostgreSQL has created it.  Nothing is dropped: the try statement is
\* still to come.
Create(p) ==
  /\ pc[p] = "create"
  /\ \/ /\ ~place["scratch"].exists /\ place' = [place EXCEPT !["scratch"] = Holding({})]
        /\ Goto(p, "archive") \/ Goto(p, "raised")
     \/ Goto(p, "raised") /\ UNCHANGED place
  /\ UNCHANGED <<bucket, child, call>>

\* NamedTemporaryFile, the last call before the try statement.
MakeTemp(p) ==
  /\ pc[p] = "archive"
  /\ Goto(p, "restore") \/ Goto(p, "raised")
  /\ UNCHANGED <<place, bucket, child, call>>

\* The download or the dump of the source, up to the last byte that pg_restore is given.
Restore(p) ==
  /\ pc[p] = "restore"
  /\ \/ Fails(p)
     \/ /\ child' = [child EXCEPT ![p] = "running"] /\ Goto(p, "wait")
        /\ UNCHANGED <<place, bucket, call>>

\* pg_restore --clean replaces what the archive has and no more, in one transaction, also
\* when its parent is gone by now ...
Commit(p) ==
  /\ child[p] = "running" /\ place[Where(p)].exists
  /\ place' = [place EXCEPT ![Where(p)].pieces = @ \cup {call[p].source}]
  /\ child' = [child EXCEPT ![p] = "done"]
  /\ UNCHANGED <<bucket, pc, call>>

\* ... or it fails: there is nothing to wait for, and the call can only fail too.
Rollback(p) ==
  /\ child[p] = "running" /\ child' = [child EXCEPT ![p] = "none"]
  /\ UNCHANGED <<place, bucket, pc, call>>

\* The end of stream_restore or restore_from_file.
Wait(p) ==
  /\ pc[p] = "wait"
  /\ \/ Fails(p)
     \/ /\ child[p] = "done" /\ child' = [child EXCEPT ![p] = "none"]
        /\ Goto(p, "mask") /\ UNCHANGED <<place, bucket, call>>

\* anonymize_session: without the table nothing is done; with it, the query for the columns
\* names them without their tables, both of which have them, and PostgreSQL refuses it.
Mask(p) ==
  /\ pc[p] = "mask"
  /\ \/ Fails(p)
     \/ /\ place[Where(p)].exists /\ place[Where(p)].pieces \cap Tabled = {}
        /\ Goto(p, IF call[p].op = "backup" THEN "dump" ELSE "returned")
        /\ UNCHANGED <<place, bucket, child, call>>

\* backup.backup(scratch_cfg): the dump of the scratch database ...
Dump(p) ==
  /\ pc[p] = "dump"
  /\ \/ Fails(p)
     \/ /\ place["scratch"].exists /\ Goto(p, "upload")
        /\ call' = [call EXCEPT ![p].dump = place["scratch"].pieces]
        /\ UNCHANGED <<place, bucket, child>>

\* ... under the primary's id; that its status file says so is in Backup.
Upload(p) ==
  /\ pc[p] = "upload"
  /\ \/ Fails(p)
     \/ /\ bucket' = bucket \cup {[key |-> Temp(p), pieces |-> call[p].dump]}
        /\ Goto(p, "copy") /\ UNCHANGED <<place, child, call>>

\* The object of copy_object.
Copied(p) == {[o EXCEPT !.key = Out(p)] : o \in {x \in bucket : x.key = Temp(p)}}

\* copy_object.
Copy(p) ==
  /\ pc[p] = "copy"
  /\ \/ Fails(p)
     \/ /\ bucket' = bucket \cup Copied(p)
        /\ Goto(p, "delete") /\ UNCHANGED <<place, child, call>>

\* Faulty variant of Delete: the backup of the scratch database stays.
DeleteForgotten(p) ==
  /\ pc[p] = "delete" /\ Goto(p, "drop") /\ UNCHANGED <<place, bucket, child, call>>

\* delete_object.
Delete(p) ==
  /\ pc[p] = "delete"
  /\ \/ Fails(p)
     \/ /\ bucket' = {o \in bucket : o.key # Temp(p)}
        /\ Goto(p, "drop") /\ UNCHANGED <<place, child, call>>

\* Faulty variant of Drop: the database is dropped on success only.
DropOnSuccess(p) ==
  /\ pc[p] \in {"drop", "failing"}
  /\ place' = IF pc[p] = "drop" THEN [place EXCEPT !["scratch"] = Missing] ELSE place
  /\ Goto(p, IF pc[p] = "drop" THEN "returned" ELSE "raised") /\ UNCHANGED <<bucket, child, call>>

\* The pg_restore of S end, if they are at work on the scratch database.
Ended(S) ==
  [q \in Proc |-> IF q \in S /\ child[q] = "running" /\ call[q].op = "backup" THEN "none" ELSE child[q]]

\* The finally clause.  drop_database ends the sessions of everybody else, but for a
\* pg_restore that has yet to connect; an error may come after the database is gone.
Drop(p) ==
  /\ pc[p] \in {"drop", "failing"}
  /\ \E S \in SUBSET Proc : child' = Ended(S)
  /\ \/ Goto(p, "undropped") /\ UNCHANGED place
     \/ /\ place' = [place EXCEPT !["scratch"] = Missing]
        /\ Goto(p, IF pc[p] = "drop" THEN "returned" ELSE "raised") \/ Goto(p, "undropped")
  /\ UNCHANGED <<bucket, call>>

\* SIGKILL or the out-of-memory killer, which a pg_restore survives.
Kill(p) ==
  /\ pc[p] \notin Over /\ Goto(p, "killed") /\ UNCHANGED <<place, bucket, child, call>>

Step(p) == \/ Start(p) \/ Exists(p) \/ Create(p) \/ MakeTemp(p) \/ Restore(p) \/ Commit(p)
           \/ Rollback(p) \/ Wait(p) \/ Mask(p) \/ Dump(p) \/ Upload(p) \/ Copy(p) \/ Delete(p)
           \/ Drop(p) \/ Kill(p)

Next == \E p \in Proc : Step(p)

Spec == Init /\ [][Next]_vars
----------------------------------------------------------------------------
(* Properties *)

Keys == {Temp(p) : p \in Proc} \cup {Out(p) : p \in Proc}

\* Every variable keeps its type; an object is written once.
TypeOK ==
  /\ \A w \in {"scratch", "target"} : place[w].pieces \subseteq Source /\ (place[w].pieces # {} => place[w].exists)
  /\ \A o \in bucket : o.key \in Keys /\ o.pieces \subseteq Source
  /\ \A o, q \in bucket : o.key = q.key => o = q
  /\ \A p \in Proc : child[p] # "none" => child[p] \in {"running", "done"} /\ pc[p] \in {"wait", "killed"}
  /\ \A p \in Proc : call[p].op \in Ops /\ call[p].source \in Source /\ call[p].dump \subseteq Source

\* A call that returned has left its copy under --out and nothing under the primary's
\* prefix, where a retention or a restore would take it for a backup of the primary.
ReturnedIsPublished ==
  \A p \in Proc : pc[p] = "returned" /\ call[p].op = "backup" =>
    /\ \E o \in bucket : o.key = Out(p)
    /\ \A o \in bucket : o.key # Temp(p)

\* The type of the variables and what a returned call has done, however calls overlap.
AnonymizeInv == TypeOK /\ ReturnedIsPublished
=============================================================================
