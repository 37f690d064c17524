---------------------------- MODULE MCAnonymize -----------------------------
(***************************************************************************)
(* An instance of Anonymize for TLC, with a history: whether two calls     *)
(* have been at work at once, a call being at work as long as its          *)
(* pg_restore is.                                                          *)
(***************************************************************************)
EXTENDS Anonymize, TLC

CONSTANTS p1, p2, p3

VARIABLE alone    \* history: no two calls have been at work at once
mcvars == <<vars, alone>>

Processes == Permutations(Proc)

MCInit == Init /\ alone = TRUE

MCNext ==
  Next /\ alone' = (alone /\ \A p, q \in Proc : Working(p)' /\ Working(q)' => p = q)

MCSpec == MCInit /\ [][MCNext]_mcvars
----------------------------------------------------------------------------
\* One call after the other, none killed, and the scratch database dropped when tried.
Orderly == alone /\ \A p \in Proc : pc[p] \notin {"killed", "undropped"}

\* Whichever steps of the calls fail, rows in the clear are in the scratch database only
\* while some call is at work; what can be left of it is empty.
ScratchIsEmptied ==
  Orderly /\ place["scratch"].pieces # {} => \E p \in Proc : Working(p) /\ call[p].op = "backup"

\* A copy holds the rows of its source and of no other database, whatever the failed
\* calls before it left behind.
PublishedIsOwn ==
  Orderly => \A p \in Proc, o \in bucket : o.key = Out(p) => o.pieces = {call[p].source}

\* No object holds the rows of a database that has a table of the columns to mask, none of
\* which was: whatever killed calls, a pg_restore that outlived them, and failed drops left
\* in the scratch database before the next call began.
TabledStaysOut == alone => \A o \in bucket : o.pieces \cap Tabled = {}

\* Calls that follow one another stay apart, whichever of them fail.
CallsStayApart == ScratchIsEmptied /\ PublishedIsOwn /\ TabledStaysOut
=============================================================================
