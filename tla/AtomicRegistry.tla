--------------------------- MODULE AtomicRegistry ---------------------------
(***************************************************************************)
(* What `databases add|remove` promise: the list of registered databases   *)
(* changes by one entry at a time, in one step, and is never empty.  The   *)
(* others keep their order.                                                *)
(***************************************************************************)
EXTENDS Naturals, Sequences

CONSTANTS Db, Starts    \* database ids; the lists to start from

VARIABLE registry

Listed(d) == \E i \in DOMAIN registry : registry[i] = d

Init == registry \in Starts

Add(d) == ~Listed(d) /\ registry' = Append(registry, d)

Remove(d) ==
  /\ Len(registry) > 1
  /\ \E i \in DOMAIN registry :
       /\ registry[i] = d
       /\ registry' = [j \in 1 .. Len(registry) - 1 |-> registry[IF j < i THEN j ELSE j + 1]]

Next == \E d \in Db : Add(d) \/ Remove(d)

Spec == Init /\ [][Next]_registry
=============================================================================
