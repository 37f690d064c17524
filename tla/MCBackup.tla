------------------------------ MODULE MCBackup ------------------------------
(***************************************************************************)
(* Instances of Backup for TLC, with a history: the run of each database   *)
(* that began last, the databases that two processes have backed up at the *)
(* same time (of their status files the ledger promises nothing), and the  *)
(* processes whose failure could not be written down.                      *)
(***************************************************************************)
EXTENDS Backup, TLC

VARIABLES shared,   \* history: databases that two runs were at work on at once
          newest,   \* history: the last run to begin on each database
          untold    \* history: processes whose record_failure was refused the status file
mcvars == <<vars, shared, newest, untold>>

Sharing == {d \in Db : \E p, q \in Proc :
              p # q /\ {pc[p], pc[q]} \cap Resting = {} /\ call[p].db = d /\ call[q].db = d}

MCInit == Init /\ shared = {} /\ newest = [d \in Db |-> 0] /\ untold = {}

Beginning(d) == \E p \in Proc : Begin(p, d)

\* record_failure ends before it has changed a file that is good.
Refused(p) == /\ pc[p] \in {"load", "truncate"} /\ ~call[p].ok /\ Readable(file[call[p].db])
              /\ pc'[p] = "unlink"

MCNext ==
  /\ Next /\ shared' = shared \cup Sharing'
  /\ newest' = [d \in Db |-> IF Beginning(d) THEN runs' ELSE newest[d]]
  /\ untold' = {p \in Proc : pc'[p] \in {"unlink", "raised"} /\ (p \in untold \/ Refused(p))}

MCSpec == MCInit /\ [][MCNext]_mcvars

\* The processes run the same code and no property names one of them.
Symmetry == Permutations(Proc)
----------------------------------------------------------------------------
Latest(p) == newest[call[p].db] = call[p].run

\* With one writer at a time, the last run that raised from its try block shows in the
\* status file: as a failure streak, or as a file nobody can read any more; unless
\* record_failure itself was refused the file (untold), where only the exception tells.
FailureVisible ==
  \A p \in Proc :
    pc[p] = "raised" /\ call[p].sec > 0 /\ Latest(p) /\ call[p].db \notin shared
                    /\ p \notin untold =>
      LET f == file[call[p].db] IN f.st.failure_streak > 0 \/ ~Readable(f)

\* What is left of a run that ended: no archive on disk, on any way out, and a failure
\* that can be seen where it could be written down.
EndsVisibly == NoTempLeft /\ FailureVisible

\* What two runs at once have written counts as lost.
Told == [d \in Db |-> IF d \in shared THEN Entry(TRUE, Fresh) ELSE History(d)]

Alone == INSTANCE Ledger WITH Moment <- 0 .. MaxSec, ledger <- Told

\* Through crashes and full disks the status files implement the ledger, as long as runs
\* follow one another: three steps on disk are one entry or none, none is doubled or dated
\* before the one it follows, and a torn file is never trusted again.
LedgerSpec == Alone!Spec
=============================================================================
