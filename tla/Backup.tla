------------------------------- MODULE Backup -------------------------------
(***************************************************************************)
(* backup() of src/backup/core.py as run by several processes at once: the *)
(* scheduler's main thread, a `manage.py backup` of an operator, and the   *)
(* `kubectl exec ... manage.py daily` of dev.sh share one bucket and one   *)
(* data directory.  A step is a call that other processes can see or that  *)
(* can fail on its own.  The status file of a database is read, truncated  *)
(* and written in three steps, as Path.read_text and Path.write_text do.   *)
(*                                                                         *)
(* An archive is identified by the run that produced it, which stands for  *)
(* its bytes and so for its SHA-256; an object key by its database and its *)
(* second, the granularity of backup_key.  0 stands for None.              *)
(***************************************************************************)
EXTENDS Naturals

CONSTANTS Proc,     \* processes that may call backup()
          Db,       \* database ids
          MaxSec,   \* bound on the clock
          MaxRuns   \* bound on the calls of backup()

ASSUME BoundsAssumption == MaxSec \in Nat \ {0} /\ MaxRuns \in Nat

VARIABLES now,      \* the clock, in seconds
          bucket,   \* TRUE when the bucket exists
          objects,  \* the objects of the bucket
          temps,    \* runs whose temporary archive is on disk
          file,     \* the status file of each database
          runs,     \* number of calls so far
          pc,       \* where each process is in backup()
          call      \* the local variables of each process's call

vars == <<now, bucket, objects, temps, file, runs, pc, call>>
----------------------------------------------------------------------------
(* Data *)

Status == [success_streak : Nat, failure_streak : Nat, last_error : BOOLEAN,
           last_key : Nat, last_checksum : Nat,
           last_success_at : Nat, last_failure_at : Nat]

\* BackupStatus(): what load_status returns when there is no file.
Fresh == [success_streak |-> 0, failure_streak |-> 0, last_error |-> FALSE,
          last_key |-> 0, last_checksum |-> 0,
          last_success_at |-> 0, last_failure_at |-> 0]

\* "empty" is a file truncated and not yet written, "garbled" one in which two
\* writers left bytes of both; json.loads rejects the two.
Json(st) == [kind |-> "json", st |-> st]
Absent   == [kind |-> "absent", st |-> Fresh]
Empty    == [kind |-> "empty", st |-> Fresh]
Garbled  == [kind |-> "garbled", st |-> Fresh]

Files == [kind : {"absent", "json", "empty", "garbled"}, st : Status]
Readable(f) == f.kind \in {"absent", "json"}

Objects == [db : Db, sec : Nat, run : Nat, whole : BOOLEAN]

Resting == {"idle", "returned", "raised"}
InTry   == {"dump", "wait", "upload", "load", "truncate", "write", "unlink"}
PCs     == Resting \cup {"head", "create", "key"} \cup InTry

Calls == [db : Db, sec : Nat, run : Nat, whole : BOOLEAN, ok : BOOLEAN, st : Status]
----------------------------------------------------------------------------
(* The updates of a status record *)

\* Faulty variant of Succeeded: the failure streak is not reset.
SucceededKeepsFailures(st, c, t) ==
  [st EXCEPT !.success_streak = @ + 1, !.last_key = c.sec, !.last_error = FALSE,
             !.last_checksum = c.run, !.last_success_at = t]

\* record_success between its load and its save.
Succeeded(st, c, t) ==
  [st EXCEPT !.success_streak = @ + 1, !.failure_streak = 0, !.last_error = FALSE,
             !.last_key = c.sec, !.last_checksum = c.run, !.last_success_at = t]

\* Faulty variant of Failed: a failure shortens the success streak by one.
FailedCountsDown(st, t) ==
  [st EXCEPT !.failure_streak = @ + 1, !.success_streak = @ - 1, !.last_error = TRUE,
             !.last_failure_at = t]

\* record_failure between its load and its save.
Failed(st, t) ==
  [st EXCEPT !.failure_streak = @ + 1, !.success_streak = 0, !.last_error = TRUE,
             !.last_failure_at = t]

Recorded(st, c, t) == IF c.ok THEN Succeeded(st, c, t) ELSE Failed(st, t)

\* put_object replaces whatever the key held.
Put(c) == {o \in objects : <<o.db, o.sec>> # <<c.db, c.sec>>}
            \cup {[db |-> c.db, sec |-> c.sec, run |-> c.run, whole |-> c.whole]}

\* What the file may hold once st is written over the content f: the bytes of
\* st, followed by the tail of f when f is the longer of the two.
Landed(f, st) == IF f.kind = "empty" THEN {Json(st)} ELSE {Json(st), Garbled}
----------------------------------------------------------------------------
Init ==
  /\ now = 1
  /\ bucket \in BOOLEAN
  /\ objects = {}
  /\ temps = {}
  /\ file = [d \in Db |-> Absent]
  /\ runs = 0
  /\ pc = [p \in Proc |-> "idle"]
  /\ call \in [Proc -> [db : Db, sec : {0}, run : {0}, whole : {FALSE}, ok : {FALSE},
                        st : {Fresh}]]

Goto(p, s) == pc' = [pc EXCEPT ![p] = s]

\* Faulty variant of Raise: there is no except clause.
RaiseUnrecorded(p) ==
  /\ call' = [call EXCEPT ![p].ok = FALSE]
  /\ Goto(p, "unlink")

\* An exception in the try block runs record_failure; one that record_failure
\* raises itself leaves only the finally block.
Raise(p) ==
  /\ call' = [call EXCEPT ![p].ok = FALSE]
  /\ Goto(p, IF call[p].ok THEN "load" ELSE "unlink")

\* The caller (backup_cmd, run_backup_cycle) calls backup(cfg_for_db(cfg, d)).
Begin(p, d) ==
  /\ pc[p] \in Resting
  /\ runs < MaxRuns
  /\ runs' = runs + 1
  /\ call' = [call EXCEPT ![p] = [db |-> d, sec |-> 0, run |-> runs + 1,
                                  whole |-> FALSE, ok |-> TRUE, st |-> Fresh]]
  /\ Goto(p, "head")
  /\ UNCHANGED <<now, bucket, objects, temps, file>>

\* head_bucket; any ClientError is read as "no bucket", anything else (the
\* endpoint is unreachable) leaves backup() before its try block.
HeadBucket(p) ==
  /\ pc[p] = "head"
  /\ \/ bucket /\ Goto(p, "key")
     \/ Goto(p, "create")
     \/ Goto(p, "raised")
  /\ UNCHANGED <<now, bucket, objects, temps, file, runs, call>>

\* create_bucket may fail, also because another process created it meanwhile.
CreateBucket(p) ==
  /\ pc[p] = "create"
  /\ \/ bucket' = TRUE /\ Goto(p, "key")
     \/ UNCHANGED bucket /\ Goto(p, "raised")
  /\ UNCHANGED <<now, objects, temps, file, runs, call>>

\* backup_key and NamedTemporaryFile(delete=False), which a full disk defeats.
MakeKey(p) ==
  /\ pc[p] = "key"
  /\ \/ /\ call' = [call EXCEPT ![p].sec = now]
        /\ temps' = temps \cup {call[p].run}
        /\ Goto(p, "dump")
     \/ UNCHANGED <<call, temps>> /\ Goto(p, "raised")
  /\ UNCHANGED <<now, bucket, objects, file, runs>>

\* stream_dump and compress_chunks_to_file up to the end of pg_dump's output,
\* which comes early when pg_dump dies; Popen or the disk may fail too.
Dump(p) ==
  /\ pc[p] = "dump"
  /\ \/ \E whole \in BOOLEAN :
          call' = [call EXCEPT ![p].whole = whole] /\ Goto(p, "wait")
     \/ Raise(p)
  /\ UNCHANGED <<now, bucket, objects, temps, file, runs>>

\* Faulty variant of WaitDump: the exit code of pg_dump is ignored.
WaitDumpIgnoresCode(p) ==
  /\ pc[p] = "wait"
  /\ Goto(p, "upload")
  /\ UNCHANGED <<now, bucket, objects, temps, file, runs, call>>

\* The exit of stream_dump: pg_dump's code tells whether the output is whole.
WaitDump(p) ==
  /\ pc[p] = "wait"
  /\ IF call[p].whole THEN Goto(p, "upload") /\ UNCHANGED call ELSE Raise(p)
  /\ UNCHANGED <<now, bucket, objects, temps, file, runs>>

\* Faulty variant of Upload: an upload error is taken for success.
UploadSwallowsError(p) ==
  /\ pc[p] = "upload"
  /\ Goto(p, "load")
  /\ objects' \in {objects, Put(call[p])}
  /\ UNCHANGED <<now, bucket, temps, file, runs, call>>

\* upload_file; an error may come after S3 has stored the object.
Upload(p) ==
  /\ pc[p] = "upload"
  /\ \/ objects' = Put(call[p]) /\ Goto(p, "load") /\ UNCHANGED call
     \/ objects' \in {objects, Put(call[p])} /\ Raise(p)
  /\ UNCHANGED <<now, bucket, temps, file, runs>>

\* Faulty variant of LoadStatus: an unreadable file is taken for a fresh one.
LoadStatusForgives(p) ==
  /\ pc[p] = "load"
  /\ call' = [call EXCEPT ![p].st = Recorded(file[call[p].db].st, call[p], now)]
  /\ Goto(p, "truncate")
  /\ UNCHANGED <<now, bucket, objects, temps, file, runs>>

\* load_status and the update of the record, in record_success or record_failure.  Also
\* a good file may refuse to be opened.
LoadStatus(p) ==
  LET f == file[call[p].db] IN
  /\ pc[p] = "load"
  /\ \/ /\ Readable(f)
        /\ call' = [call EXCEPT ![p].st = Recorded(f.st, call[p], now)]
        /\ Goto(p, "truncate")
     \/ Raise(p)
  /\ UNCHANGED <<now, bucket, objects, temps, file, runs>>

\* The open("w") of write_text, which a missing or read-only data directory, or one
\* without an inode left, refuses: then the file stays what it was.
Truncate(p) ==
  /\ pc[p] = "truncate"
  /\ \/ /\ file' = [file EXCEPT ![call[p].db] = Empty]
        /\ Goto(p, "write")
        /\ UNCHANGED call
     \/ Raise(p) /\ UNCHANGED file
  /\ UNCHANGED <<now, bucket, objects, temps, runs>>

\* The write of write_text, which a full disk defeats.
Write(p) ==
  /\ pc[p] = "write"
  /\ \/ /\ \E f \in Landed(file[call[p].db], call[p].st) :
             file' = [file EXCEPT ![call[p].db] = f]
        /\ Goto(p, "unlink")
        /\ UNCHANGED call
     \/ Raise(p) /\ UNCHANGED file
  /\ UNCHANGED <<now, bucket, objects, temps, runs>>

\* The finally block, then the return or the re-raise.
Unlink(p) ==
  /\ pc[p] = "unlink"
  /\ temps' = temps \ {call[p].run}
  /\ Goto(p, IF call[p].ok THEN "returned" ELSE "raised")
  /\ UNCHANGED <<now, bucket, objects, file, runs, call>>

\* SIGKILL, an evicted pod, a power cut: no finally block runs.
Crash(p) ==
  /\ pc[p] \notin Resting
  /\ Goto(p, "idle")
  /\ UNCHANGED <<now, bucket, objects, temps, file, runs, call>>

\* Ctrl-C on the command line is no Exception: only the finally block runs.
Interrupt(p) ==
  /\ pc[p] \in InTry
  /\ temps' = temps \ {call[p].run}
  /\ Goto(p, "idle")
  /\ UNCHANGED <<now, bucket, objects, file, runs, call>>

Tick ==
  /\ now < MaxSec
  /\ now' = now + 1
  /\ UNCHANGED <<bucket, objects, temps, file, runs, pc, call>>

Step(p) == \/ HeadBucket(p) \/ CreateBucket(p) \/ MakeKey(p) \/ Dump(p) \/ WaitDump(p)
           \/ Upload(p) \/ LoadStatus(p) \/ Truncate(p) \/ Write(p) \/ Unlink(p)

Next == \/ \E p \in Proc : Step(p) \/ Crash(p) \/ Interrupt(p)
        \/ \E p \in Proc, d \in Db : Begin(p, d)
        \/ Tick

Spec == Init /\ [][Next]_vars
----------------------------------------------------------------------------
(* Properties *)

\* Every variable keeps its type.
TypeOK ==
  /\ now \in Nat
  /\ bucket \in BOOLEAN
  /\ objects \subseteq Objects
  /\ temps \subseteq Nat
  /\ file \in [Db -> Files]
  /\ runs \in Nat
  /\ pc \in [Proc -> PCs]
  /\ call \in [Proc -> Calls]

\* Every object under a backup key is the complete output of a pg_dump that
\* exited with 0: neither a dump cut short nor a retry, a crash or a second
\* writer of the same key ever leaves a partial archive in the bucket.
StoredWhole == \A o \in objects : o.whole

\* A backup() that returns its key has an object under that key, whichever
\* process stored it last.
ReturnedIsStored ==
  \A p \in Proc : pc[p] = "returned" =>
    \E o \in objects : o.db = call[p].db /\ o.sec = call[p].sec

\* A readable status file is one story: a streak of successes or a streak of
\* failures, an error exactly in the second, a key exactly when there was a
\* success; also when two writers interleave their reads and writes.
Coherent(st) ==
  /\ st.success_streak = 0 \/ st.failure_streak = 0
  /\ st.last_error <=> st.failure_streak > 0
  /\ st.success_streak > 0 => st.last_key > 0
  /\ st.failure_streak > 0 => st.last_failure_at > 0
  /\ st.last_key > 0 <=> st.last_success_at > 0
StatusCoherent == \A d \in Db : Coherent(file[d].st)

\* The key a status file names was stored: last_key and the success metric announce no
\* archive that never reached the bucket, even after crashes and lost updates.
LastKeyStored ==
  \A d \in Db : file[d].st.last_key > 0 =>
    \E o \in objects : o.db = d /\ o.sec = file[d].st.last_key

\* backup() removes its temporary archive on each of its ways out.
NoTempLeft == \A p \in Proc : pc[p] \in {"returned", "raised"} => call[p].run \notin temps

\* The history a status file stands for: a file being written already counts as
\* what is about to be written, so that a success is one step of the ledger.
Entry(lost, st) ==
  [lost |-> lost, success_streak |-> st.success_streak, failure_streak |-> st.failure_streak,
   last_key |-> st.last_key, last_success_at |-> st.last_success_at]

Writing(d) == {p \in Proc : pc[p] = "write" /\ call[p].db = d}

History(d) ==
  IF Writing(d) # {} THEN Entry(FALSE, call[CHOOSE p \in Writing(d) : TRUE].st)
                     ELSE Entry(~Readable(file[d]), file[d].st)
=============================================================================
