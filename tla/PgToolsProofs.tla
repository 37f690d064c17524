--------------------------- MODULE PgToolsProofs ----------------------------
(***************************************************************************)
(* Proofs about the children of src/db/pg_tools.py: what restores, exports *)
(* and verifications have done when they end (Restore), for any number of  *)
(* processes, objects and databases, and how a parent and its child wait   *)
(* for each other (Pipes), for pipes and data of every size.               *)
(***************************************************************************)
EXTENDS MCPipes, TLAPS

-----------------------------------------------------------------------------
(* A parent and its child *)

\* What a child is about to do it has reason to, and a parent that waits has nothing
\* left to send and, if it reads, nothing left to read.
PipesIInv ==
  /\ Pipes!TypeOK /\ Pipes!NoChildLeft
  /\ parent = "run" => mode = "run"
  /\ parent = "loop" => mode # "run"
  /\ parent = "wait" => \/ mode = "dump" /\ worker # "running"
                        \/ mode = "restore" /\ unsent = 0
  /\ doing = "data" => todo > 0
  /\ doing = "noise" => noise > 0

\* It holds at the start.
LEMMA PipesInit ==
  ASSUME Pipes!PipesAssumption, Pipes!Init
  PROVE  PipesIInv
  BY DEF Pipes!PipesAssumption, Pipes!Init, PipesIInv, Pipes!TypeOK, Pipes!NoChildLeft, Pipes!Over,
         Pipes!Alive

\* A step of the parent keeps it.
LEMMA ParentStep ==
  ASSUME Pipes!PipesAssumption, PipesIInv, Pipes!Parent
  PROVE  PipesIInv'
  <1> USE DEF Pipes!PipesAssumption, PipesIInv, Pipes!TypeOK, Pipes!NoChildLeft, Pipes!Over,
              Pipes!Alive, Pipes!Unchanged
  <1>1. CASE Pipes!Receive
    <2>1. CASE data > 0 /\ data' = data - 1 /\ UNCHANGED <<parent, worker>>
      BY <1>1, <2>1 DEF Pipes!Receive
    <2>2. CASE data = 0 /\ ~Pipes!Alive /\ parent' = "wait" /\ UNCHANGED <<worker, data>>
      BY <1>1, <2>2 DEF Pipes!Receive
    <2> QED BY <1>1, <2>1, <2>2 DEF Pipes!Receive
  <1>2. CASE Pipes!Send
    <2>1. CASE unsent > 0 /\ data < PipeCap /\ unsent' = unsent - 1 /\ data' = data + 1 /\ UNCHANGED parent
      BY <1>2, <2>1 DEF Pipes!Send
    <2>2. CASE unsent = 0 /\ parent' = "wait" /\ UNCHANGED <<unsent, data>>
      BY <1>2, <2>2 DEF Pipes!Send
    <2> QED BY <1>2, <2>1, <2>2 DEF Pipes!Send
  <1>3. CASE Pipes!Break
    BY <1>3 DEF Pipes!Break, Pipes!Leave
  <1>4. CASE Pipes!Drain
    BY <1>4 DEF Pipes!Drain
  <1>5. CASE Pipes!Wait
    BY <1>5 DEF Pipes!Wait, Pipes!Leave
  <1> QED BY <1>1, <1>2, <1>3, <1>4, <1>5 DEF Pipes!Parent

\* A step of the child keeps it.
LEMMA ChildStep ==
  ASSUME Pipes!PipesAssumption, PipesIInv, Pipes!Child
  PROVE  PipesIInv'
  <1> USE DEF Pipes!PipesAssumption, PipesIInv, Pipes!TypeOK, Pipes!NoChildLeft, Pipes!Over,
              Pipes!Alive
  <1>1. CASE Pipes!Choose
    BY <1>1 DEF Pipes!Choose
  <1>2. CASE Pipes!Move
    <2>1. /\ mode = "dump" => data < PipeCap /\ data' = data + 1
          /\ mode = "restore" => data > 0 /\ data' = data - 1
          /\ mode = "run" => data' = data
      BY <1>2 DEF Pipes!Move, Pipes!CanMove
    <2>2. data' \in 0 .. PipeCap /\ todo' = todo - 1 /\ todo > 0
      BY <1>2, <2>1 DEF Pipes!Move
    <2> QED BY <1>2, <2>1, <2>2 DEF Pipes!Move
  <1>3. CASE Pipes!Complain
    BY <1>3 DEF Pipes!Complain
  <1>4. CASE Pipes!Exit
    BY <1>4 DEF Pipes!Exit
  <1> QED BY <1>1, <1>2, <1>3, <1>4 DEF Pipes!Child

\* Whatever the sizes of data, messages and pipes, a parent and its child wait for each
\* other only when the child has filled a stderr that its parent reads at the end, and
\* no function ends before its child.
THEOREM PipesAreDrained == Pipes!Spec => []PipesInv
  <1>1. Pipes!Init => PipesIInv
    BY PipesInit, PipesConstants
  <1>2. PipesIInv /\ [Pipes!Next]_Pipes!vars => PipesIInv'
    <2>1. PipesIInv /\ UNCHANGED Pipes!vars => PipesIInv'
      BY DEF PipesIInv, Pipes!vars, Pipes!TypeOK, Pipes!NoChildLeft, Pipes!Over, Pipes!Alive
    <2> QED BY <2>1, ParentStep, ChildStep, PipesConstants DEF Pipes!Next
  <1>3. PipesIInv => PipesInv
    <2>1. ASSUME PipesIInv, Pipes!BlockedParent, Pipes!BlockedChild
          PROVE  mode \in {"dump", "restore"} /\ doing = "noise" /\ err = ErrCap
      <3> USE PipesConstants DEF PipesIInv, Pipes!PipesAssumption, Pipes!TypeOK, Pipes!BlockedParent, Pipes!BlockedChild,
                  Pipes!CanMove, Pipes!Alive
      <3>2. CASE mode = "dump"
        BY <2>1, <3>2
      <3>3. CASE mode = "restore"
        BY <2>1, <3>3
      <3>4. CASE mode = "run"
        BY <2>1, <3>4
      <3> QED BY <2>1, <3>2, <3>3, <3>4
    <2>2. PipesIInv => Pipes!HungOnStderr
      BY <2>1 DEF Pipes!HungOnStderr
    <2> QED BY <2>2 DEF PipesIInv, PipesInv, Pipes!PipesInv
  <1> QED BY <1>1, <1>2, <1>3, PTL DEF Pipes!Spec
-----------------------------------------------------------------------------
(* Restore: the steps of a call *)

\* A restore whose bytes nothing vouched for has been committed.
Untold(c) == c.op \in {"restore", "pipe"} /\ c.committed /\ ~c.summed
Unchecked == \E p \in Proc : Untold(call[p])

\* What a call is at each of its positions, and what is known of the bytes it carries.
CallInv(p) ==
  /\ pc[p] = "idle" => ~call[p].summed /\ call[p].body.ok
  /\ pc[p] \in {"get", "head"} => call[p].op \in {"restore", "verify"}
  /\ pc[p] = "dump" => call[p].op = "export"
  /\ pc[p] \in {"spawn", "wait"} => call[p].op # "verify"
  /\ pc[p] = "feed" => call[p].op \in {"restore", "pipe"}
  /\ pc[p] \in {"get", "head"} /\ call[p].op = "restore" => ~call[p].summed
  /\ child[p] # "none" => pc[p] \in {"feed", "wait", "returned", "raised", "killed"}
  /\ child[p] # "none" => call[p].op # "verify"
  /\ call[p].committed <=> child[p] = "zero"
  /\ call[p].op = "pipe" => ~call[p].summed
  /\ call[p].op = "restore" /\ call[p].summed => call[p].body.ok
  /\ call[p].op = "export" /\ ~call[p].body.ok => Unchecked
  /\ pc[p] = "returned" /\ call[p].op = "verify" /\ call[p].ok /\ call[p].summed => call[p].body.ok
  /\ pc[p] \in {"returned", "raised"} => p \notin temps /\ child[p] # "running"

IInv == TypeOK /\ DamageUnchecked /\ \A p \in Proc : CallInv(p)

\* The fields of a call.
LEMMA CallFields ==
  ASSUME NEW c \in Calls
  PROVE  /\ c.op \in Ops /\ c.key \in Key /\ c.source \in Db /\ c.target \in Db /\ c.body \in Bytes
         /\ c.summed \in BOOLEAN /\ c.fed \in BOOLEAN /\ c.committed \in BOOLEAN /\ c.ok \in BOOLEAN
         /\ c.body.ok \in BOOLEAN
  BY DEF Calls, Bytes

\* A call with a field replaced is a call.
LEMMA CallUpdates ==
  ASSUME NEW c \in Calls
  PROVE  /\ \A op \in Ops, k \in Key, s, d \in Db :
              [c EXCEPT !.op = op, !.key = k, !.source = s, !.target = d] \in Calls
         /\ \A b \in Bytes, ok \in BOOLEAN : [c EXCEPT !.body = b, !.ok = ok] \in Calls
         /\ \A b \in Bytes, f \in BOOLEAN : [c EXCEPT !.body = b, !.fed = f] \in Calls
         /\ \A b \in Bytes : [c EXCEPT !.body = b] \in Calls
         /\ \A s \in BOOLEAN : [c EXCEPT !.summed = s] \in Calls
         /\ \A f \in BOOLEAN : [c EXCEPT !.fed = f] \in Calls
         /\ \A f \in BOOLEAN : [c EXCEPT !.committed = f] \in Calls
  BY DEF Calls

\* A step of one process leaves the calls of the others as they were.
LEMMA OthersKeep ==
  ASSUME IInv, NEW p \in Proc,
         \A q \in Proc \ {p} : pc'[q] = pc[q] /\ call'[q] = call[q] /\ child'[q] = child[q],
         \A q \in Proc \ {p} : q \in temps' <=> q \in temps,
         Untold(call[p]) => Untold(call'[p])
  PROVE  (Unchecked => Unchecked') /\ \A q \in Proc \ {p} : CallInv(q)'
  <1>1. Unchecked => Unchecked'
    BY DEF Unchecked, Untold
  <1>2. ASSUME NEW q \in Proc \ {p} PROVE CallInv(q)'
    BY <1>1, <1>2 DEF IInv, CallInv
  <1> QED BY <1>1, <1>2

\* Damage in the databases that was there before a step is told of after it.
LEMMA DamageStays ==
  ASSUME IInv, Unchecked => Unchecked', \A d \in Db : ~content'[d].ok => ~content[d].ok \/ Unchecked'
  PROVE  DamageUnchecked'
  BY DEF IInv, DamageUnchecked, Unchecked, Untold

\* A call that leaves with an exception, or is interrupted.
LEMMA RaiseStep ==
  ASSUME IInv, NEW p \in Proc, pc[p] \notin Ended, Raise(p)
  PROVE  IInv'
  <1> USE DEF IInv, TypeOK, Raise, Leave, Goto
  <1>1. TypeOK'
    BY DEF Ended, Exits
  <1>2. (Unchecked => Unchecked') /\ \A q \in Proc \ {p} : CallInv(q)'
    BY OthersKeep
  <1>3. DamageUnchecked'
    BY <1>2, DamageStays
  <1>4. CallInv(p)'
    BY <1>2 DEF CallInv, Ended
  <1> QED BY <1>1, <1>2, <1>3, <1>4

\* What is known when a call starts: nothing vouches for its bytes, and it has no child.
LEMMA StartStep ==
  ASSUME IInv, NEW p \in Proc, Start(p)
  PROVE  IInv'
  <1> USE DEF IInv, TypeOK, Goto
  <1>1. PICK op \in Ops, k \in Key, s, d \in Db :
          /\ call' = [call EXCEPT ![p].op = op, ![p].key = k, ![p].source = s, ![p].target = d]
          /\ Goto(p, [restore |-> "get", verify |-> "head", pipe |-> "spawn", export |-> "dump"][op])
          /\ temps' = IF op \in {"restore", "export"} THEN temps \cup {p} ELSE temps
    BY DEF Start
  <1> DEFINE c == [call[p] EXCEPT !.op = op, !.key = k, !.source = s, !.target = d]
  <1>2. call' = [call EXCEPT ![p] = c]
    BY <1>1
  <1>3. c \in Calls /\ c.op = op /\ c.summed = call[p].summed /\ c.body = call[p].body
        /\ c.committed = call[p].committed /\ c.ok = call[p].ok
    <2>1. call[p] \in Calls
      OBVIOUS
    <2>2. c \in Calls
      BY <2>1, CallUpdates
    <2> QED BY <2>1, <2>2 DEF Calls
  <1>4. op \in {"restore", "pipe", "verify", "export"}
    BY RestoreAssumption
  <1>5. pc[p] = "idle" /\ UNCHANGED <<object, content, child>>
    BY DEF Start
  <1>6. pc' = [pc EXCEPT ![p] = [restore |-> "get", verify |-> "head", pipe |-> "spawn", export |-> "dump"][op]]
        /\ pc'[p] = CASE op = "restore" -> "get" [] op = "verify" -> "head"
                      [] op = "pipe" -> "spawn" [] op = "export" -> "dump"
    BY <1>1, <1>4
  <1>7. TypeOK'
    BY <1>1, <1>2, <1>3, <1>4, <1>5, <1>6 DEF Ended
  <1>8. ~call[p].committed /\ child[p] = "none" /\ ~c.summed /\ c.body.ok
    BY <1>3, <1>5 DEF CallInv, Exits
  <1>9. (Unchecked => Unchecked') /\ \A q \in Proc \ {p} : CallInv(q)'
    <2> HIDE DEF c
    <2>1. \A q \in Proc \ {p} : q \in temps' <=> q \in temps
      BY <1>1
    <2> QED BY <1>2, <1>3, <1>5, <1>6, <1>8, <2>1, OthersKeep DEF Untold
  <1>10. CallInv(p)'
    <2> HIDE DEF c
    <2>1. call'[p] = c
      BY <1>2
    <2> QED BY <2>1, <1>3, <1>4, <1>5, <1>6, <1>8 DEF CallInv
  <1>11. DamageUnchecked'
    BY <1>5, <1>9, DamageStays
  <1> QED BY <1>7, <1>9, <1>10, <1>11

\* A step that replaces a call by another, moves on, and leaves children, objects and
\* databases alone.  What is known of the call itself is left to show.
LEMMA MoveStep ==
  ASSUME IInv, NEW p \in Proc, NEW c \in Calls,
         NEW s \in Ended \cup {"get", "head", "dump", "spawn", "feed", "wait"},
         call' = [call EXCEPT ![p] = c], Goto(p, s),
         Untold(call[p]) => Untold(c),
         (Unchecked => Unchecked') => CallInv(p)',
         UNCHANGED <<object, content, temps, child>>
  PROVE  IInv'
  <1> USE DEF IInv, TypeOK, Goto
  <1>1. TypeOK'
    OBVIOUS
  <1>2. call'[p] = c
    OBVIOUS
  <1>3. (Unchecked => Unchecked') /\ \A q \in Proc \ {p} : CallInv(q)'
    BY <1>2, OthersKeep
  <1>4. DamageUnchecked'
    BY <1>3, DamageStays
  <1> QED BY <1>1, <1>3, <1>4

\* verify reads the object, or restore downloads it, before anything is compared.
LEMMA GetStep ==
  ASSUME IInv, NEW p \in Proc, Get(p)
  PROVE  IInv'
  <1> USE DEF IInv, TypeOK, Goto
  <1> DEFINE b == Fetched(call[p].key)
             c == [call[p] EXCEPT !.body = b, !.ok = ~Mismatch(call[p], b)]
  <1>0. call[p] \in Calls /\ pc[p] = "get"
    BY DEF Get
  <1>1. CASE Raise(p)
    BY <1>0, <1>1, RaiseStep DEF Ended
  <1>2. ASSUME call' = [call EXCEPT ![p].body = b, ![p].ok = ~Mismatch(call[p], b)],
               UNCHANGED <<object, content>>,
               \/ call[p].op = "verify" /\ Leave(p, "returned")
               \/ call[p].op # "verify" /\ Goto(p, "head") /\ UNCHANGED <<temps, child>>
        PROVE  IInv'
    <2>1. call' = [call EXCEPT ![p] = c]
      BY <1>2
    <2>2. b \in Bytes /\ Mismatch(call[p], b) = (call[p].summed /\ ~b.ok)
      BY <1>0, CallFields DEF Fetched, Bytes, Mismatch
    <2>3. c \in Calls /\ c.op = call[p].op /\ c.summed = call[p].summed /\ c.body = b
          /\ c.committed = call[p].committed /\ c.ok = ~(call[p].summed /\ ~b.ok)
      <3> HIDE DEF b
      <3>1. c \in Calls
        BY <1>0, <2>2, CallUpdates, CallFields DEF Bytes
      <3> QED BY <1>0, <2>2, <3>1 DEF Calls
    <2> HIDE DEF b, c
    <2>4. child[p] = "none" /\ call[p].op \in {"restore", "verify"}
      BY <1>0 DEF CallInv
    <2>5. Untold(call[p]) => Untold(c)
      BY <2>3 DEF Untold
    <2>6. call'[p] = c
      BY <2>1
    <2>7. CASE call[p].op = "verify" /\ Leave(p, "returned")
      <3> USE DEF Leave
      <3>1. child' = child /\ temps' = temps \ {p} /\ pc' = [pc EXCEPT ![p] = "returned"]
        BY <2>4, <2>7
      <3>2. TypeOK'
        <4>1. object' = object /\ content' = content
          BY <1>2
        <4> QED BY <4>1, <2>1, <2>3, <3>1 DEF Ended
      <3>3. (Unchecked => Unchecked') /\ \A q \in Proc \ {p} : CallInv(q)'
        BY <2>1, <2>5, <2>6, <3>1, OthersKeep
      <3>4. DamageUnchecked'
        BY <1>2, <3>3, DamageStays
      <3>5. CallInv(p)'
        BY <1>0, <2>3, <2>4, <2>6, <2>7, <3>1 DEF CallInv
      <3> QED BY <3>2, <3>3, <3>4, <3>5
    <2>8. CASE call[p].op # "verify" /\ Goto(p, "head") /\ UNCHANGED <<temps, child>>
      <3>1. CallInv(p)'
        BY <1>0, <2>3, <2>4, <2>6, <2>8 DEF CallInv
      <3> QED BY <1>2, <2>1, <2>3, <2>5, <2>8, <3>1, MoveStep
    <2> QED BY <1>2, <2>7, <2>8
  <1> QED BY <1>1, <1>2 DEF Get

\* restore compares what it downloaded, or verify learns what to compare with.
LEMMA HeadStep ==
  ASSUME IInv, NEW p \in Proc, Head(p)
  PROVE  IInv'
  <1> USE DEF IInv, TypeOK, Goto
  <1>0. call[p] \in Calls /\ pc[p] = "head" /\ child[p] = "none" /\ call[p].op \in {"restore", "verify"}
    BY DEF Head, CallInv
  <1>1. CASE Raise(p)
    BY <1>0, <1>1, RaiseStep DEF Ended
  <1>2. ASSUME NEW s \in BOOLEAN, UNCHANGED <<object, content, temps, child>>,
               call' = [call EXCEPT ![p] = [call[p] EXCEPT !.summed = s]],
               \/ call[p].op = "verify" /\ Goto(p, "get")
               \/ call[p].op # "verify" /\ (s => call[p].body.ok) /\ Goto(p, "spawn")
        PROVE  IInv'
    <2> DEFINE c == [call[p] EXCEPT !.summed = s]
    <2>1. c \in Calls /\ c.op = call[p].op /\ c.summed = s /\ c.body = call[p].body
          /\ c.committed = call[p].committed /\ c.ok = call[p].ok
      <3>1. c \in Calls
        BY <1>0, CallUpdates
      <3> QED BY <1>0, <3>1 DEF Calls
    <2>2. call' = [call EXCEPT ![p] = c] /\ call'[p] = c
      BY <1>2
    <2> HIDE DEF c
    <2>3. ~call[p].committed
      BY <1>0 DEF CallInv, Exits
    <2>4. Untold(call[p]) => Untold(c)
      BY <2>3 DEF Untold
    <2>5. CASE call[p].op = "verify" /\ Goto(p, "get")
      <3>1. CallInv(p)'
        BY <1>0, <1>2, <2>1, <2>2, <2>3, <2>5 DEF CallInv
      <3> QED BY <1>2, <2>1, <2>2, <2>4, <2>5, <3>1, MoveStep
    <2>6. CASE call[p].op # "verify" /\ (s => call[p].body.ok) /\ Goto(p, "spawn")
      <3>1. CallInv(p)'
        BY <1>0, <1>2, <2>1, <2>2, <2>3, <2>6 DEF CallInv
      <3> QED BY <1>2, <2>1, <2>2, <2>4, <2>6, <3>1, MoveStep
    <2> QED BY <1>2, <2>5, <2>6
  <1>3. \A s : [call[p] EXCEPT !.summed = s].op = call[p].op /\ [call[p] EXCEPT !.summed = s].body = call[p].body
               /\ [call[p] EXCEPT !.summed = s].summed = s
    BY <1>0 DEF Calls
  <1>4. CASE ~Raise(p)
    <2>1. PICK s \in {FALSE, call[p].key \in Summed /\ object[call[p].key] # "gone"} :
            LET c == [call[p] EXCEPT !.summed = s] IN
            IF c.op = "verify" THEN /\ call' = [call EXCEPT ![p] = c] /\ Goto(p, "get")
                                    /\ UNCHANGED <<object, content, temps, child>>
            ELSE IF Mismatch(c, c.body) THEN Raise(p)
            ELSE /\ call' = [call EXCEPT ![p] = c] /\ Goto(p, "spawn")
                 /\ UNCHANGED <<object, content, temps, child>>
      BY <1>4 DEF Head
    <2>2. s \in BOOLEAN
      OBVIOUS
    <2>3. Mismatch([call[p] EXCEPT !.summed = s], [call[p] EXCEPT !.summed = s].body) = (s /\ ~call[p].body.ok)
      BY <1>3 DEF Mismatch
    <2>4. call[p].body.ok \in BOOLEAN
      BY <1>0, CallFields
    <2> QED BY <1>2, <1>3, <1>4, <2>1, <2>2, <2>3, <2>4
  <1> QED BY <1>1, <1>4

\* export takes the bytes of its source, damaged ones too.
LEMMA DumpStep ==
  ASSUME IInv, NEW p \in Proc, Dump(p)
  PROVE  IInv'
  <1> USE DEF IInv, TypeOK, Goto
  <1>0. call[p] \in Calls /\ pc[p] = "dump" /\ child[p] = "none" /\ call[p].op = "export"
    BY DEF Dump, CallInv
  <1>1. CASE Raise(p)
    BY <1>0, <1>1, RaiseStep DEF Ended
  <1>2. CASE /\ call' = [call EXCEPT ![p].body = content[call[p].source]] /\ Goto(p, "spawn")
             /\ UNCHANGED <<object, content, temps, child>>
    <2> DEFINE b == content[call[p].source]
               c == [call[p] EXCEPT !.body = b]
    <2>1. call' = [call EXCEPT ![p] = c] /\ call'[p] = c
      BY <1>2
    <2>2. b \in Bytes /\ (~b.ok => Unchecked)
      BY <1>0, CallFields DEF DamageUnchecked, Unchecked, Untold
    <2> HIDE DEF b
    <2>3. c \in Calls /\ c.op = "export" /\ c.body = b /\ c.committed = call[p].committed
      <3>1. c \in Calls
        BY <1>0, <2>2, CallUpdates
      <3> QED BY <1>0, <3>1 DEF Calls
    <2> HIDE DEF c
    <2>4. Untold(call[p]) => Untold(c)
      BY <1>0 DEF Untold
    <2>5. (Unchecked => Unchecked') => CallInv(p)'
      BY <1>0, <1>2, <2>1, <2>2, <2>3 DEF CallInv
    <2> QED BY <1>2, <2>1, <2>3, <2>4, <2>5, MoveStep
  <1> QED BY <1>1, <1>2 DEF Dump

\* pg_restore starts.
LEMMA SpawnStep ==
  ASSUME IInv, NEW p \in Proc, Spawn(p)
  PROVE  IInv'
  <1> USE DEF IInv, TypeOK, Goto
  <1>0. call[p] \in Calls /\ pc[p] = "spawn" /\ child[p] = "none" /\ call[p].op # "verify"
    BY DEF Spawn, CallInv
  <1>1. CASE Raise(p)
    BY <1>0, <1>1, RaiseStep DEF Ended
  <1>2. CASE ~Raise(p)
    <2> DEFINE f == call[p].op = "export"
               c == [call[p] EXCEPT !.fed = f]
    <2>1. /\ child' = [child EXCEPT ![p] = "running"] /\ call' = [call EXCEPT ![p] = c]
          /\ pc' = [pc EXCEPT ![p] = IF f THEN "wait" ELSE "feed"]
          /\ UNCHANGED <<object, content, temps>>
      BY <1>2 DEF Spawn
    <2>2. c \in Calls /\ c.op = call[p].op /\ c.body = call[p].body /\ c.committed = call[p].committed
          /\ c.summed = call[p].summed /\ c.ok = call[p].ok
      <3>1. c \in Calls
        BY <1>0, CallUpdates
      <3> QED BY <1>0, <3>1 DEF Calls
    <2> HIDE DEF c
    <2>3. TypeOK'
      BY <2>1, <2>2
    <2>4. call'[p] = c
      BY <2>1
    <2>5. (Unchecked => Unchecked') /\ \A q \in Proc \ {p} : CallInv(q)'
      BY <2>1, <2>2, <2>4, OthersKeep DEF Untold
    <2>6. DamageUnchecked'
      BY <2>1, <2>5, DamageStays
    <2>7. call[p].op \in {"restore", "pipe", "verify", "export"}
      BY <1>0, CallFields, RestoreAssumption
    <2>8. CallInv(p)'
      BY <1>0, <2>1, <2>2, <2>4, <2>5, <2>7 DEF CallInv, Exits
    <2> QED BY <2>3, <2>5, <2>6, <2>8
  <1> QED BY <1>1, <1>2

\* pg_restore gets its input: the file that was compared, or the object as it is now.
LEMMA FeedStep ==
  ASSUME IInv, NEW p \in Proc, Feed(p)
  PROVE  IInv'
  <1> USE DEF IInv, TypeOK, Goto
  <1>0. call[p] \in Calls /\ pc[p] = "feed" /\ call[p].op \in {"restore", "pipe"}
    BY DEF Feed, CallInv
  <1>1. CASE Raise(p)
    BY <1>0, <1>1, RaiseStep DEF Ended
  <1>2. CASE ~Raise(p)
    <2> DEFINE b == IF call[p].op = "pipe" THEN Fetched(call[p].key) ELSE call[p].body
               c == [call[p] EXCEPT !.body = b, !.fed = TRUE]
    <2>1. /\ call' = [call EXCEPT ![p] = c] /\ Goto(p, "wait") /\ call'[p] = c
          /\ UNCHANGED <<object, content, temps, child>>
      BY <1>2 DEF Feed
    <2>2. b \in Bytes /\ (call[p].op = "restore" => b = call[p].body)
      BY <1>0, CallFields DEF Fetched, Bytes
    <2> HIDE DEF b
    <2>3. c \in Calls /\ c.op = call[p].op /\ c.body = b /\ c.committed = call[p].committed
          /\ c.summed = call[p].summed
      <3>1. c \in Calls
        BY <1>0, <2>2, CallUpdates
      <3> QED BY <1>0, <3>1 DEF Calls
    <2> HIDE DEF c
    <2>4. Untold(call[p]) => Untold(c)
      BY <2>3 DEF Untold
    <2>5. CallInv(p)'
      BY <1>0, <2>1, <2>2, <2>3 DEF CallInv
    <2> QED BY <2>1, <2>3, <2>4, <2>5, MoveStep
  <1> QED BY <1>1, <1>2

\* pg_restore commits: damaged bytes are those of a restore that nothing vouched for, or
\* were in a database before.
LEMMA CommitStep ==
  ASSUME IInv, NEW p \in Proc, Commit(p)
  PROVE  IInv'
  <1> USE DEF IInv, TypeOK, Commit
  <1> DEFINE c == [call[p] EXCEPT !.committed = TRUE]
  <1>1. call[p] \in Calls /\ call' = [call EXCEPT ![p] = c] /\ call'[p] = c
    OBVIOUS
  <1>2. c \in Calls /\ c.op = call[p].op /\ c.body = call[p].body /\ c.committed
        /\ c.summed = call[p].summed /\ c.ok = call[p].ok
    <2>1. c \in Calls
      BY <1>1, CallUpdates
    <2> QED BY <1>1, <2>1 DEF Calls
  <1> HIDE DEF c
  <1>3. TypeOK'
    <2>1. call[p].body \in Bytes /\ content' \in [Db -> Bytes]
      BY <1>1, CallFields
    <2>2. call' \in [Proc -> Calls]
      BY <1>1, <1>2
    <2> QED BY <2>1, <2>2 DEF Exits
  <1>4. call[p].op \in {"restore", "pipe", "export"}
    BY <1>1, CallFields, RestoreAssumption DEF CallInv
  <1>5. (Unchecked => Unchecked') /\ \A q \in Proc \ {p} : CallInv(q)'
    BY <1>1, <1>2, OthersKeep DEF Untold
  <1>6. ~call[p].body.ok => Unchecked'
    <2>1. CASE call[p].op = "export"
      BY <1>5, <2>1 DEF CallInv
    <2>2. CASE call[p].op # "export"
      BY <1>1, <1>2, <1>4, <2>2 DEF CallInv, Unchecked, Untold
    <2> QED BY <2>1, <2>2
  <1>7. DamageUnchecked'
    BY <1>5, <1>6, DamageStays
  <1>8. CallInv(p)'
    BY <1>1, <1>2, <1>5 DEF CallInv, Exits
  <1> QED BY <1>3, <1>5, <1>7, <1>8

\* The steps of a child or of the system, which change no call.
LEMMA RollbackStep ==
  ASSUME IInv, NEW p \in Proc, Rollback(p)
  PROVE  IInv'
  <1> USE DEF IInv, TypeOK, Rollback
  <1>1. TypeOK'
    BY DEF Exits
  <1>2. (Unchecked => Unchecked') /\ \A q \in Proc \ {p} : CallInv(q)'
    BY OthersKeep
  <1>3. DamageUnchecked'
    BY <1>2, DamageStays
  <1>4. CallInv(p)'
    BY <1>2 DEF CallInv, Exits
  <1> QED BY <1>1, <1>2, <1>3, <1>4

\* The wait for pg_restore ends with its code.
LEMMA WaitStep ==
  ASSUME IInv, NEW p \in Proc, Wait(p)
  PROVE  IInv'
  <1> USE DEF IInv, TypeOK, Wait, Leave, Goto
  <1>1. PICK s \in {"returned", "raised"} : pc' = [pc EXCEPT ![p] = s]
    OBVIOUS
  <1>2. child' = child /\ temps' = temps \ {p} /\ child[p] \in Exits /\ call[p].op # "verify"
    BY DEF CallInv, Exits
  <1>3. TypeOK'
    BY <1>1, <1>2 DEF Ended
  <1>4. (Unchecked => Unchecked') /\ \A q \in Proc \ {p} : CallInv(q)'
    BY <1>1, <1>2, OthersKeep
  <1>5. DamageUnchecked'
    BY <1>4, DamageStays
  <1>6. CallInv(p)'
    BY <1>1, <1>2, <1>4 DEF CallInv, Exits
  <1> QED BY <1>3, <1>4, <1>5, <1>6

\* A process is killed, and its child and its temporary file stay behind.
LEMMA KillStep ==
  ASSUME IInv, NEW p \in Proc, Kill(p)
  PROVE  IInv'
  <1> USE DEF IInv, TypeOK, Kill, Goto
  <1>1. TypeOK'
    BY DEF Ended
  <1>2. (Unchecked => Unchecked') /\ \A q \in Proc \ {p} : CallInv(q)'
    BY OthersKeep
  <1>3. DamageUnchecked'
    BY <1>2, DamageStays
  <1>4. CallInv(p)'
    BY <1>2 DEF CallInv, Ended
  <1> QED BY <1>1, <1>2, <1>3, <1>4

\* An object rots or is deleted.
LEMMA DecayStep ==
  ASSUME IInv, NEW k \in Key, Decay(k)
  PROVE  IInv'
  <1> USE DEF IInv, TypeOK, Decay
  <1>1. TypeOK'
    OBVIOUS
  <1>2. (Unchecked => Unchecked') /\ \A q \in Proc : CallInv(q)'
    BY DEF Unchecked, CallInv
  <1>3. DamageUnchecked'
    BY <1>2, DamageStays
  <1> QED BY <1>1, <1>2, <1>3

\* At the start the databases hold what was written in them, and nothing runs.
LEMMA InitIInv == Init => IInv
  <1> SUFFICES ASSUME Init PROVE IInv
    OBVIOUS
  <1>1. PICK d \in Db, o \in Ops, k \in Key :
          call = [p \in Proc |->
                   [op |-> o, key |-> k, source |-> d, target |-> d, body |-> content[d],
                    summed |-> FALSE, fed |-> FALSE, committed |-> FALSE, ok |-> FALSE]]
    <2>1. /\ (CHOOSE e \in Db : TRUE) \in Db /\ (CHOOSE o \in Ops : TRUE) \in Ops
          /\ (CHOOSE k \in Key : TRUE) \in Key
      BY RestoreAssumption
    <2> QED BY <2>1 DEF Init
  <1>2. content \in [Db -> Bytes] /\ \A e \in Db : content[e].ok
    BY DEF Init, Bytes
  <1>3. TypeOK
    BY <1>1, <1>2 DEF Init, TypeOK, Calls, Ended
  <1>4. ASSUME NEW p \in Proc PROVE CallInv(p)
    BY <1>1, <1>2, <1>4 DEF Init, CallInv, Exits
  <1> QED BY <1>2, <1>3, <1>4 DEF IInv, DamageUnchecked

\* Every step keeps it.
LEMMA NextIInv == IInv /\ [Next]_vars => IInv'
  <1>1. ASSUME IInv, NEW p \in Proc, Step(p) PROVE IInv'
    <2>1. CASE Interrupt(p)
      BY <1>1, <2>1, RaiseStep DEF Interrupt
    <2> QED BY <1>1, <2>1, StartStep, GetStep, HeadStep, DumpStep, SpawnStep, FeedStep, WaitStep,
               CommitStep, RollbackStep, KillStep DEF Step
  <1>2. ASSUME IInv, UNCHANGED vars PROVE IInv'
    BY <1>2 DEF vars, IInv, TypeOK, CallInv, Unchecked, Untold, DamageUnchecked
  <1> QED BY <1>1, <1>2, DecayStep DEF Next

\* Whatever rots, is deleted, fails or is killed, and however many restores, exports and
\* verifications run at once: damaged bytes reach a database only through a restore that
\* had no checksum to compare, and verify does not call them good once it has read one.
THEOREM DamageStopped == Spec => []DamageIsStopped
  <1>1. IInv => DamageIsStopped
    BY DEF IInv, CallInv, DamageIsStopped, CheckedIsSound
  <1> QED BY <1>1, InitIInv, NextIInv, PTL DEF Spec

\* A restore, export or verification that returned or raised has no child at work and no
\* temporary file left, in whatever language pg_restore speaks.
THEOREM NothingIsLeft == Spec => []NothingLeft
  <1>1. IInv => NothingLeft
    BY DEF IInv, CallInv, NothingLeft
  <1> QED BY <1>1, InitIInv, NextIInv, PTL DEF Spec
-----------------------------------------------------------------------------
(* Restore: what a return says *)

\* With the messages of pg_restore in English, a restore or an export that returned has
\* committed.
Honest(p) == pc[p] = "returned" /\ call[p].op # "verify" => call[p].committed

\* No step makes a call return that has not done what it says.
LEMMA HonestStep ==
  ASSUME ~Translated, IInv, NEW p \in Proc, Honest(p), [Next]_vars
  PROVE  Honest(p)'
  <1> USE DEF IInv, TypeOK, Honest, Goto
  <1>0. call[p] \in Calls
    OBVIOUS
  <1>1. ASSUME NEW q \in Proc, Step(q) PROVE Honest(p)'
    <2>1. CASE pc'[p] # "returned" \/ (pc'[p] = pc[p] /\ call'[p] = call[p])
      BY <2>1
    <2>2. ASSUME NEW r \in Proc, Raise(r), pc[r] \notin Ended PROVE Honest(p)'
      BY <2>2 DEF Raise, Leave
    <2>5. CASE Start(q)
      BY <2>5, <2>1, RestoreAssumption DEF Start
    <2>6. CASE Get(q)
      <3>1. CASE Raise(q)
        BY <2>2, <2>6, <3>1 DEF Get, Ended
      <3>2. CASE ~Raise(q)
        <4>1. call'[q].op = call[q].op /\ (pc'[q] = "returned" => call[q].op = "verify")
          BY <2>6, <3>2 DEF Get, Leave, Calls
        <4>2. p # q => pc'[p] = pc[p] /\ call'[p] = call[p]
          BY <2>6, <3>2 DEF Get, Leave
        <4> QED BY <2>1, <4>1, <4>2
      <3> QED BY <3>1, <3>2
    <2>7. CASE Head(q)
      BY <2>7, <2>1, <2>2 DEF Head, Ended
    <2>8. CASE Dump(q) \/ Spawn(q) \/ Feed(q)
      BY <2>8, <2>1, <2>2 DEF Dump, Spawn, Feed, Ended
    <2>9. CASE Interrupt(q) \/ Kill(q) \/ Rollback(q)
      BY <2>9, <2>1, <2>2 DEF Interrupt, Kill, Rollback, Ended
    <2>3. CASE Wait(q)
      BY <2>3 DEF Wait, Leave, Accepted, CallInv
    <2>4. CASE Commit(q)
      BY <2>4 DEF Commit
    <2> QED BY <1>1, <2>3, <2>4, <2>5, <2>6, <2>7, <2>8, <2>9 DEF Step
  <1>2. ASSUME NEW k \in Key, Decay(k) PROVE Honest(p)'
    BY <1>2 DEF Decay
  <1>3. ASSUME UNCHANGED vars PROVE Honest(p)'
    BY <1>3 DEF vars
  <1> QED BY <1>1, <1>2, <1>3 DEF Next

\* A call that has ended is over, where pg_restore speaks English: it has done what it
\* reports, and nothing of it goes on.
THEOREM EndedIsOver ==
  ASSUME ~Translated
  PROVE  Spec => []EndIsFinal
  <1> DEFINE Inv == IInv /\ \A p \in Proc : Honest(p)
  <1>1. Init => Inv
    BY InitIInv DEF Init, Honest
  <1>2. Inv /\ [Next]_vars => Inv'
    BY NextIInv, HonestStep
  <1>3. Inv => EndIsFinal
    BY DEF IInv, CallInv, Honest, EndIsFinal, ReturnedIsRestored, NothingLeft
  <1> QED BY <1>1, <1>2, <1>3, PTL DEF Spec
=============================================================================
