------------------------------- MODULE Pipes --------------------------------
(***************************************************************************)
(* The three ways src/db/pg_tools.py talks to a child: stream_dump reads   *)
(* its stdout, stream_restore writes its stdin, restore_from_file is a     *)
(* subprocess.run on a file.  All have stderr in a pipe; only the last     *)
(* reads it before the child has ended.  A pipe holds a bounded number of  *)
(* blocks, and a write to a full one, a read of an empty one, waits.       *)
(***************************************************************************)
EXTENDS Naturals

CONSTANTS Modes,             \* subset of {"dump", "restore", "run"}
          Blocks,            \* length of the data
          MaxNoise,          \* bound on what a child writes to stderr
          PipeCap, ErrCap    \* capacity of the data pipe and of stderr

PipesAssumption ==
  /\ Modes \subseteq {"dump", "restore", "run"}
  /\ Blocks \in Nat /\ MaxNoise \in Nat /\ PipeCap \in Nat \ {0} /\ ErrCap \in Nat \ {0}

VARIABLES mode,
          parent,   \* "loop" over the blocks, "wait", "run", "returned", "raised"
          unsent,   \* blocks the parent still has to write
          child,    \* "running", or how it ended: "zero", "failed", "killed"
          doing,    \* what the child does next: "choose", "data", "noise", "exit"
          todo,     \* blocks the child still has to write, or to read
          data,     \* blocks in the data pipe
          noise,    \* what the child has yet to write to stderr, at most
          err       \* what is in the stderr pipe

vars == <<mode, parent, unsent, child, doing, todo, data, noise, err>>

Init ==
  /\ mode \in Modes /\ parent = (IF mode = "run" THEN "run" ELSE "loop")
  /\ unsent = (IF mode = "restore" THEN Blocks ELSE 0)
  /\ child = "running" /\ doing = "choose" /\ todo = Blocks
  /\ data = 0 /\ noise \in 0 .. MaxNoise /\ err = 0

Over == parent \in {"returned", "raised"}
Alive == child = "running"
----------------------------------------------------------------------------
(* The parent *)

\* The finally clause: proc.kill() if proc.poll() is None.
Leave(s) == parent' = s /\ child' = IF Alive THEN "killed" ELSE child

Unchanged == UNCHANGED <<mode, doing, todo, noise>>

\* stream_dump: a block is read and written to the archive, until stdout is closed.
Receive ==
  /\ mode = "dump" /\ parent = "loop"
  /\ \/ data > 0 /\ data' = data - 1 /\ UNCHANGED <<parent, child>>
     \/ data = 0 /\ ~Alive /\ parent' = "wait" /\ UNCHANGED <<child, data>>
  /\ UNCHANGED <<unsent, err>> /\ Unchanged

\* Faulty variant of Send: the last block stays in a buffer.
SendKeepsLast ==
  /\ mode = "restore" /\ parent = "loop"
  /\ \/ unsent > 1 /\ Alive /\ data < PipeCap
        /\ unsent' = unsent - 1 /\ data' = data + 1 /\ UNCHANGED parent
     \/ unsent <= 1 /\ parent' = "wait" /\ UNCHANGED <<unsent, data>>
  /\ UNCHANGED <<child, err>> /\ Unchanged

\* stream_restore: a block is written; after the last, stdin is closed.
Send ==
  /\ mode = "restore" /\ parent = "loop"
  /\ \/ unsent > 0 /\ Alive /\ data < PipeCap
        /\ unsent' = unsent - 1 /\ data' = data + 1 /\ UNCHANGED parent
     \/ unsent = 0 /\ parent' = "wait" /\ UNCHANGED <<unsent, data>>
  /\ UNCHANGED <<child, err>> /\ Unchanged

\* A block that cannot be written: the disk is full, or the child has gone; or that does
\* not decompress.
Break ==
  /\ parent = "loop" /\ Leave("raised")
  /\ IF mode = "dump" THEN data > 0 ELSE unsent > 0 /\ (data < PipeCap \/ ~Alive)
  /\ UNCHANGED <<unsent, data, err>> /\ Unchanged

\* Faulty variant of Drain: stderr is read when the child has ended, as in the other two.
DrainLate ==
  /\ parent = "run" /\ err > 0 /\ ~Alive /\ err' = err - 1
  /\ UNCHANGED <<parent, unsent, child, data>> /\ Unchanged

\* subprocess.run reads stderr while the child runs.
Drain ==
  /\ parent = "run" /\ err > 0 /\ err' = err - 1
  /\ UNCHANGED <<parent, unsent, child, data>> /\ Unchanged

\* proc.wait(), the exit code, and what is in stderr by then.
Wait ==
  /\ ~Alive /\ (parent = "wait" \/ (parent = "run" /\ err = 0))
  /\ Leave(IF child = "zero" THEN "returned" ELSE "raised") /\ err' = 0
  /\ UNCHANGED <<unsent, data>> /\ Unchanged

Parent == Receive \/ Send \/ Break \/ Drain \/ Wait
----------------------------------------------------------------------------
(* The child, pg_dump or pg_restore *)

Choose ==
  /\ Alive /\ doing = "choose"
  /\ \/ todo > 0 /\ doing' = "data"
     \/ noise > 0 /\ doing' = "noise"
     \/ doing' = "exit"
  /\ UNCHANGED <<mode, parent, unsent, child, todo, data, noise, err>>

\* A block moves: to the pipe, from the pipe, or from the file.
CanMove == (mode = "dump" => data < PipeCap) /\ (mode = "restore" => data > 0)

Move ==
  /\ Alive /\ doing = "data" /\ CanMove
  /\ data' = [dump |-> data + 1, restore |-> data - 1, run |-> data][mode]
  /\ todo' = todo - 1 /\ doing' = "choose"
  /\ UNCHANGED <<mode, parent, unsent, child, noise, err>>

Complain ==
  /\ Alive /\ doing = "noise" /\ err < ErrCap
  /\ err' = err + 1 /\ noise' = noise - 1 /\ doing' = "choose"
  /\ UNCHANGED <<mode, parent, unsent, child, todo, data>>

Exit ==
  /\ Alive /\ doing = "exit"
  /\ child' \in (IF todo = 0 THEN {"zero", "failed"} ELSE {"failed"})
  /\ UNCHANGED <<mode, parent, unsent, doing, todo, data, noise, err>>

Child == Choose \/ Move \/ Complain \/ Exit

Next == Parent \/ Child

\* Neither program stops by itself: the parent computes, pg_dump and pg_restore end.
Fairness == WF_vars(Parent) /\ WF_vars(Child)

Spec == Init /\ [][Next]_vars /\ Fairness
----------------------------------------------------------------------------
(* Properties *)

\* Every variable keeps its type; no pipe holds more than it can, and what is on its way to
\* pg_restore is what it still expects.
TypeOK ==
  /\ mode \in {"dump", "restore", "run"} /\ parent \in {"loop", "wait", "run", "returned", "raised"}
  /\ child \in {"running", "zero", "failed", "killed"} /\ doing \in {"choose", "data", "noise", "exit"}
  /\ unsent \in Nat /\ todo \in Nat /\ noise \in Nat /\ data \in 0 .. PipeCap /\ err \in 0 .. ErrCap
  /\ mode = "restore" => todo = unsent + data

BlockedParent ==
  Alive /\ \/ mode = "dump" /\ parent = "loop" /\ data = 0
           \/ mode = "restore" /\ parent = "loop" /\ unsent > 0 /\ data = PipeCap
           \/ parent = "wait"
           \/ parent = "run" /\ err = 0

BlockedChild == Alive /\ ((doing = "data" /\ ~CanMove) \/ (doing = "noise" /\ err = ErrCap))

\* The two wait for each other in one case only: the child has filled stderr, and the
\* parent is in a function that reads it when the child has ended.
HungOnStderr ==
  BlockedParent /\ BlockedChild => mode \in {"dump", "restore"} /\ doing = "noise" /\ err = ErrCap

\* When a function has returned or raised, its child runs no more.
NoChildLeft == Over => ~Alive

\* What every state of parent, child and pipes has.
PipesInv == TypeOK /\ HungOnStderr /\ NoChildLeft

\* A function whose child writes no more to stderr than the pipe holds comes to an end,
\* and subprocess.run always does.
Ends == (noise <= ErrCap \/ mode = "run") => <>Over
=============================================================================
