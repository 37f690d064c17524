------------------------------ MODULE MCServer ------------------------------
(***************************************************************************)
(* Instances for TLC of what the server thread does, next to the cache and *)
(* the log of MCUnlocked, which rest here: a scrape in Scrape, the queue   *)
(* of its requests in Probes.  Probes knows nothing of what a request      *)
(* reads, Scrape nothing of how long it takes: each runs by itself.        *)
(***************************************************************************)
EXTENDS MCUnlocked

CONSTANTS Databases, Aging, Targets, MaxBackups,
          Backlog, Hang, LivePeriod, Threshold

VARIABLES up, broken, status, torn, runs, shared, late,
          step, place, draft, page, failed, blame,
          hung, serving, patience, queue, clock, waiting, failures, calm

Scrape == INSTANCE Scrape WITH pc <- step, at <- place
Probes == INSTANCE Probes WITH left <- patience

ASSUME ScrapeConstants == Scrape!ScrapeAssumption
ASSUME ProbesConstants == Probes!ProbesAssumption

scrape == <<up, broken, status, torn, runs, shared, late, step, place, draft, page, failed, blame>>
probes == <<hung, serving, patience, queue, clock, waiting, failures, calm>>
mcvars == <<part, vars, logvars>>

Two == <<"shop", "billing">>

\* The scheduler, and somebody at a shell who may join in; nobody backs up billing yet.
TwoWriters == [w \in {"scheduler", "shell"} |-> {"shop"}]

MCServerInit == part = "server" /\ Init /\ JobLog!Init /\ Scrape!Init /\ Probes!Init

\* At most one of the databases, the registry and the data directory is down at a time.
OneFault == \A f, g \in (Scrape!Db \ up) \cup broken : f = g

MCScrapeNext == Scrape!Next /\ OneFault' /\ UNCHANGED <<mcvars, probes>>

MCScrapeSpec == MCServerInit /\ [][MCScrapeNext]_<<mcvars, scrape, probes>> /\ Scrape!Fairness

MCProbesNext == Probes!Next /\ UNCHANGED <<mcvars, scrape>>

MCProbesSpec == MCServerInit /\ [][MCProbesNext]_<<mcvars, scrape, probes>>
----------------------------------------------------------------------------
\* What Scrape states of the pages, and of scrapes that get none.
PagesAreTrue == Scrape!PagesAreTrue

\* What Scrape states of what is wrong for good.
LastingIsSeen == Scrape!LastingIsSeen

\* What Probes states of the server thread and its clients in every state.
ProbesInv == Probes!ProbesInv
=============================================================================
