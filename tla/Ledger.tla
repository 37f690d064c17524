------------------------------- MODULE Ledger -------------------------------
(***************************************************************************)
(* What the status files promise when one process writes them: for each    *)
(* database a history to which a run of backup() adds one success or one   *)
(* failure in a single step, and which a crash may lose for good.          *)
(***************************************************************************)
EXTENDS Naturals

CONSTANTS Db, Moment    \* database ids; the clock values, 0 for never

VARIABLE ledger         \* the history of each database

Blank == [lost |-> FALSE, success_streak |-> 0, failure_streak |-> 0,
          last_key |-> 0, last_success_at |-> 0]

Init == ledger = [d \in Db |-> Blank]

\* One more success, of an archive begun after the success before it.
Success(d) ==
  /\ ~ledger[d].lost
  /\ \E key, at \in Moment :
       /\ ledger[d].last_success_at <= key /\ key <= at
       /\ ledger' = [ledger EXCEPT ![d].success_streak = @ + 1, ![d].failure_streak = 0,
                                   ![d].last_key = key, ![d].last_success_at = at]

\* One more failure; what is known of the last success stays.
Failure(d) ==
  /\ ~ledger[d].lost
  /\ ledger' = [ledger EXCEPT ![d].success_streak = 0, ![d].failure_streak = @ + 1]

\* The history is lost and no later run adds to it.
Lose(d) ==
  /\ ~ledger[d].lost
  /\ ledger' = [ledger EXCEPT ![d] = [Blank EXCEPT !.lost = TRUE]]

Next == \E d \in Db : Success(d) \/ Failure(d) \/ Lose(d)

Spec == Init /\ [][Next]_ledger
=============================================================================
