----------------------------- MODULE MCUnlocked -----------------------------
(***************************************************************************)
(* An instance for TLC of the two places where the program shares state    *)
(* without a lock: the engine cache, between the threads of a process, and *)
(* the job log, between processes.  They share nothing with each other, so *)
(* a behaviour is one of the one or of the other.                          *)
(***************************************************************************)
EXTENDS Engines

CONSTANTS Proc, MaxJobs, MaxFull

ASSUME BoundsAssumption == MaxJobs \in Nat /\ MaxFull \in Nat

VARIABLES part,    \* the module whose steps are taken
          log, unended, jobs, fulls, spoiled, at, job, done

logvars == <<log, unended, jobs, fulls, spoiled, at, job, done>>

JobLog == INSTANCE JobLog WITH open <- unended, pc <- at

TwoSpellings == {<<"postgres", "shop">>, <<"postgresql+psycopg", "shop">>, <<"postgresql", "billing">>}

OneSpelling == {<<"postgres", "shop">>}

MCInit == part \in {"engines", "log"} /\ Init /\ JobLog!Init

MCNext == \/ part = "engines" /\ Next /\ UNCHANGED <<part, logvars>>
          \/ part = "log" /\ JobLog!Next /\ UNCHANGED <<part, vars>>

MCSpec == MCInit /\ [][MCNext]_<<part, vars, logvars>>
----------------------------------------------------------------------------
\* What JobLog states of the lines of a job log.
LogInv == JobLog!LogInv
=============================================================================
