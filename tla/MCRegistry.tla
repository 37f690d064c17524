----------------------------- MODULE MCRegistry -----------------------------
(***************************************************************************)
(* An instance of Registry for TLC, with a history: whether so far only    *)
(* `databases add` and `databases remove` ran, each after the one before   *)
(* it and next to no upload, and the list as long as that was so.          *)
(***************************************************************************)
EXTENDS Registry, TLC

CONSTANTS a, b

VARIABLES quiet,    \* history: nothing has met
          seen,     \* history: the list, until something did
          latest    \* history: the process that started last

mcvars == <<vars, quiet, seen, latest>>

Unset   == <<>>
OneOrTwo == {<<a>>, <<a, b>>}
JustA   == <<a>>
OneList == {JustA}

Symmetry == Permutations(Proc)

Working == {p \in Proc : pc[p] \notin Resting}
Meeting ==
  \/ \E p \in Working : uploading # {} \/ cmd[p].op = "setup" \/ \E q \in Working : p # q

MCInit == Init /\ quiet = TRUE /\ seen = toml.dbs /\ latest \in Proc

MCNext == /\ Next
          /\ quiet' = (quiet /\ ~Meeting')
          /\ seen' = IF quiet' THEN Current' ELSE seen
          /\ latest' = IF started' = started THEN latest ELSE CHOOSE p \in Proc : pc'[p] # pc[p]

MCSpec == MCInit /\ [][MCNext]_mcvars
----------------------------------------------------------------------------
(* What holds of one command at a time, without DATABASES *)

Atomic == INSTANCE AtomicRegistry WITH registry <- seen

\* Through every crash and full disk the file, or the copy of a torn file, changes like
\* the abstract registry, by one entry in one step.
RegistrySpec == Atomic!Spec

Last(p) == quiet /\ pc[p] = "done" /\ p = latest

\* A database whose add returned is in the configuration of the next command.
AddedIsListed ==
  \A p \in Proc : Last(p) /\ cmd[p].op = "add" /\ Loads(toml, Env("list")) =>
    cmd[p].db \in Ids(Databases(toml, Env("list")))

\* `databases remove --prune` that returned has left no backup of the database.
PrunedIsGone == \A p \in Proc : Last(p) /\ cmd[p].prune => \A o \in bucket : o[1] # cmd[p].db

\* Backups are pruned only while another database is registered: the checks
\* come before the first deletion, since nothing brings a backup back.
PruneSparesLast ==
  [][\A o \in bucket \ bucket' : quiet' => toml.kind = "toml" /\ Ids(toml.dbs) \ {o[1]} # {}]_vars

\* What `databases add` and `databases remove` report holds when they return.
ReturnedIsDone == AddedIsListed /\ PrunedIsGone
=============================================================================
