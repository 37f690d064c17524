------------------------------ MODULE MCPipes -------------------------------
(***************************************************************************)
(* An instance of Pipes for TLC, next to Restore: the two share no         *)
(* variable, Restore looks at a child from outside and Pipes from within.  *)
(* Here no call of Restore is made.                                        *)
(***************************************************************************)
EXTENDS Restore

CONSTANTS Modes, Blocks, MaxNoise, PipeCap, ErrCap

VARIABLES mode, parent, unsent, worker, doing, todo, data, noise, err

Pipes == INSTANCE Pipes WITH child <- worker

ASSUME PipesConstants == Pipes!PipesAssumption

pipes == <<mode, parent, unsent, worker, doing, todo, data, noise, err>>

MCInit == Init /\ Pipes!Init

MCNext == Pipes!Next /\ UNCHANGED vars

MCSpec == MCInit /\ [][MCNext]_<<vars, pipes>> /\ Pipes!Fairness
----------------------------------------------------------------------------
\* What Pipes states of parent, child and pipes in every state.
PipesInv == Pipes!PipesInv

\* What Pipes states of the end of a function.
Ends == Pipes!Ends
=============================================================================
