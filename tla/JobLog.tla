------------------------------- MODULE JobLog -------------------------------
(***************************************************************************)
(* The job log of src/observability/jobs.py: every process of a data       *)
(* directory appends a line when a job starts and one when it ends, and no *)
(* process waits for another.  O_APPEND makes one write of a line atomic;  *)
(* a full disk may take a part of it, and whoever appends next goes on     *)
(* where that part ends.                                                   *)
(***************************************************************************)
EXTENDS Naturals, Sequences

CONSTANTS Proc,
          MaxJobs,    \* bound on the jobs
          MaxFull     \* bound on the appends that meet a full disk

VARIABLES log,      \* the lines: a record, or Bad
          open,     \* the last line has no newline yet
          jobs,     \* jobs started: their numbers stand for uuid4
          fulls,    \* appends that met a full disk
          spoiled,  \* history: lines that were written and cannot be read
          pc,       \* where each process is
          job,      \* its record: number and status
          done      \* history: jobs whose body ran to its end

vars == <<log, open, jobs, fulls, spoiled, pc, job, done>>

Lines == [id : 1 .. MaxJobs, status : {"running", "success", "failed"}]
Bad == [id |-> 0, status |-> "bad"]
Resting == {"idle", "returned", "raised", "killed"}

Init ==
  /\ log = <<>> /\ open = FALSE /\ jobs = 0 /\ fulls = 0 /\ spoiled = 0
  /\ pc = [p \in Proc |-> "idle"] /\ job = [p \in Proc |-> [id |-> 0, status |-> "running"]] /\ done = {}

\* The log with a line more, or with an open line gone on with.
Grown(line) == IF open THEN [log EXCEPT ![Len(log)] = Bad] ELSE Append(log, line)

\* A record and its newline.
Whole(r) ==
  /\ log' = Grown(r) /\ open' = FALSE /\ UNCHANGED fulls
  /\ spoiled' = IF open THEN spoiled + 1 ELSE spoiled

\* The disk is full: nothing, a part, or all but the newline.
Full(r) ==
  /\ fulls < MaxFull /\ fulls' = fulls + 1 /\ UNCHANGED spoiled
  /\ \/ UNCHANGED <<log, open>>
     \/ log' = Grown(Bad) /\ open' = TRUE
     \/ log' = Grown(r) /\ open' = TRUE

Move(p, s, r) == pc' = [pc EXCEPT ![p] = s] /\ job' = [job EXCEPT ![p] = r]

\* job_run up to the body; a log that cannot be written keeps the job from starting.
Start(p) ==
  LET r == [id |-> jobs + 1, status |-> "running"] IN
  /\ pc[p] \in Resting \ {"killed"} /\ jobs < MaxJobs /\ jobs' = jobs + 1
  /\ \/ Whole(r) /\ Move(p, "body", r)
     \/ Full(r) /\ Move(p, "raised", r)
  /\ UNCHANGED done

\* The body ends with an Exception ...
Fail(p) ==
  /\ pc[p] = "body" /\ Move(p, "except", [job[p] EXCEPT !.status = "failed"])
  /\ UNCHANGED <<log, open, jobs, fulls, spoiled, done>>

\* ... or with KeyboardInterrupt, which no clause catches ...
Interrupt(p) ==
  /\ pc[p] = "body" /\ Move(p, "raised", job[p])
  /\ UNCHANGED <<log, open, jobs, fulls, spoiled, done>>

\* ... or returns.
Succeed(p) ==
  /\ pc[p] = "body" /\ Move(p, "else", [job[p] EXCEPT !.status = "success"])
  /\ done' = done \cup {job[p].id}
  /\ UNCHANGED <<log, open, jobs, fulls, spoiled>>

\* Faulty variant of End: the else clause is in the try statement too.
EndInTry(p) ==
  /\ pc[p] \in {"except", "else"} /\ UNCHANGED <<jobs, done>>
  /\ \/ Whole(job[p]) /\ Move(p, IF pc[p] = "else" THEN "returned" ELSE "raised", job[p])
     \/ Full(job[p]) /\ IF pc[p] = "else" THEN Move(p, "except", [job[p] EXCEPT !.status = "failed"])
                                          ELSE Move(p, "raised", job[p])

\* The except and the else clause: a log that cannot be written makes both raise.
End(p) ==
  /\ pc[p] \in {"except", "else"} /\ UNCHANGED <<jobs, done>>
  /\ \/ Whole(job[p]) /\ Move(p, IF pc[p] = "else" THEN "returned" ELSE "raised", job[p])
     \/ Full(job[p]) /\ Move(p, "raised", job[p])

\* SIGKILL: the process is gone, its job stays "running".
Kill(p) ==
  /\ pc[p] \notin Resting /\ Move(p, "killed", job[p])
  /\ UNCHANGED <<log, open, jobs, fulls, spoiled, done>>

Next == \E p \in Proc : Start(p) \/ Fail(p) \/ Interrupt(p) \/ Succeed(p) \/ End(p) \/ Kill(p)

Spec == Init /\ [][Next]_vars
----------------------------------------------------------------------------
(* Properties *)

\* Every variable keeps its type, and a torn line is the last one until the next append.
TypeOK ==
  /\ \A i \in DOMAIN log : log[i] \in Lines \cup {Bad}
  /\ open \in BOOLEAN /\ (open => log # <<>>) /\ spoiled \in Nat /\ fulls \in 0 .. MaxFull
  /\ jobs \in 0 .. MaxJobs /\ pc \in [Proc -> Resting \cup {"body", "except", "else"}]
  /\ (\A p \in Proc : pc[p] # "idle" => job[p] \in Lines) /\ done \subseteq 1 .. jobs

\* However processes interleave, die and meet a full disk, the lines of a job that can be read
\* tell one story: started, then one end, and "success" for a body that ran to its end only.
OneStory ==
  \A i, j \in DOMAIN log :
    /\ i < j /\ log[i].id = log[j].id /\ Bad \notin {log[i], log[j]} =>
         log[i].status = "running" /\ log[j].status # "running"
    /\ log[i].status = "success" => log[i].id \in done
    /\ log[i].status = "failed" => log[i].id \notin done

\* A full disk costs the records of others no more than one line each time.
DamageIsLocal == spoiled <= fulls

\* The type of the variables, and that the log tells the truth but for what it lost.
LogInv == TypeOK /\ OneStory /\ DamageIsLocal
=============================================================================
