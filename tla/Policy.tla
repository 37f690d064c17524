------------------------------- MODULE Policy -------------------------------
(***************************************************************************)
(* What the retention promises about the backups of one database, whoever  *)
(* carries it out and on whichever listing, however old: a backup that was *)
(* stored is forgotten one at a time, and only when the policy no longer   *)
(* asks for it on that day.  All of the current month is kept, the newest  *)
(* of each week of the last month, one of each older month, until it       *)
(* expires.                                                                *)
(***************************************************************************)
EXTENDS Naturals

CONSTANTS Instants, Month, Week, KeepMonths

VARIABLES now,      \* the clock
          stored,   \* the backups ever stored, each with its key and when it was
          kept      \* those that have not been forgotten

Newer(p, o) == p.at > o.at \/ (p.at = o.at /\ p.key < o.key)

\* Backups have finished in the order of their keys, no two at the same time.
InOrder == \A o, p \in stored : o.key < p.key => o.at < p.at

\* p stands for o: another one of its month, of its week and newer if that is the last
\* month, and always a later one if the backups are in order.
Covers(p, o) ==
  /\ p # o /\ Month[p.key] = Month[o.key]
  /\ Month[o.key] + 1 = Month[now] => Week[p.key] = Week[o.key] /\ Newer(p, o)
  /\ InOrder => p.at > o.at

MayForget(o) == \/ Month[o.key] + KeepMonths < Month[now]
                \/ Month[o.key] < Month[now] /\ \E p \in stored : Covers(p, o)

Init == now = 1 /\ stored = {} /\ kept = {}

\* A backup under a key of its own.
Store(k) ==
  /\ \A o \in stored : o.key # k
  /\ LET o == [key |-> k, at |-> now] IN stored' = stored \cup {o} /\ kept' = kept \cup {o}
  /\ UNCHANGED now

\* A deletion.
Forget(o) ==
  /\ MayForget(o)
  /\ kept' = kept \ {o}
  /\ UNCHANGED <<now, stored>>

Tick ==
  /\ now' = now + 1 /\ now' \in Instants
  /\ UNCHANGED <<stored, kept>>

Next == \/ \E k \in Instants : Store(k)
        \/ \E o \in kept : Forget(o)
        \/ Tick

Spec == Init /\ [][Next]_<<now, stored, kept>>
=============================================================================
