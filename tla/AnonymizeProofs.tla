-------------------------- MODULE AnonymizeProofs ---------------------------
(***************************************************************************)
(* Proofs about src/backup/anonymize.py: what a returned call has done,    *)
(* however any number of calls overlap (Anonymize), and that calls that    *)
(* follow one another stay apart (MCAnonymize).                            *)
(***************************************************************************)
EXTENDS MCAnonymize, TLAPS

-----------------------------------------------------------------------------
(* Calls that overlap *)

Early == {"idle", "exists", "create", "archive", "restore", "wait", "mask", "dump", "upload"}
PCs == Early \cup {"copy", "delete", "drop", "failing"} \cup Over
Calls == [op : Ops, source : Source, dump : SUBSET Source]
Objects == [key : Keys, pieces : SUBSET Source]
Places == [exists : BOOLEAN, pieces : SUBSET Source]

Types ==
  /\ place \in [{"scratch", "target"} -> Places]
  /\ \A w \in {"scratch", "target"} : place[w].pieces # {} => place[w].exists
  /\ bucket \subseteq Objects /\ pc \in [Proc -> PCs] /\ call \in [Proc -> Calls]
  /\ child \in [Proc -> {"none", "running", "done"}]
  /\ \A p \in Proc : child[p] # "none" => pc[p] \in {"wait", "killed"}

Has(k) == \E o \in bucket : o.key = k

\* What a call has in the bucket where it is, and which calls come there.
Progress(p) ==
  /\ pc[p] \in Early => ~Has(Temp(p)) /\ ~Has(Out(p))
  /\ pc[p] = "copy" => Has(Temp(p)) /\ ~Has(Out(p))
  /\ pc[p] = "delete" => Has(Out(p))
  /\ pc[p] = "drop" \/ (pc[p] = "returned" /\ call[p].op = "backup") => Has(Out(p)) /\ ~Has(Temp(p))
  /\ pc[p] \in {"exists", "create", "archive", "dump", "upload", "copy", "delete", "drop", "failing"} =>
       call[p].op = "backup"

\* An object is written once.
Once == \A o, q \in bucket : o.key = q.key => o = q

IInv == Types /\ Once /\ \A p \in Proc : Progress(p)

\* The keys of the calls differ.
LEMMA KeysDiffer ==
  /\ \A p, q \in Proc : Temp(p) # Out(q) /\ (Temp(p) = Temp(q) => p = q) /\ (Out(p) = Out(q) => p = q)
  /\ \A p \in Proc : Temp(p) \in Keys /\ Out(p) \in Keys
  BY DEF Temp, Out, Keys

\* A database that is missing, and one just created.
LEMMA EmptyPlaces ==
  /\ Missing \in Places /\ Missing.pieces = {} /\ Missing.exists = FALSE
  /\ Holding({}) \in Places /\ Holding({}).pieces = {} /\ Holding({}).exists = TRUE
  BY DEF Missing, Holding, Places

\* A step of one call that leaves the objects of the others alone.
LEMMA OthersKeep ==
  ASSUME IInv, NEW p \in Proc,
         \A q \in Proc \ {p} : pc'[q] = pc[q] /\ call'[q] = call[q],
         \A q \in Proc \ {p} : (Has(Temp(q))' <=> Has(Temp(q))) /\ (Has(Out(q))' <=> Has(Out(q)))
  PROVE  \A q \in Proc \ {p} : Progress(q)'
  BY DEF IInv, Progress

\* Nothing is published at the start.
LEMMA InitIInv == Init => IInv
  <1> SUFFICES ASSUME Init PROVE IInv
    OBVIOUS
  <1>1. Types
    <2>1. /\ place \in [{"scratch", "target"} -> Places]
          /\ \A w \in {"scratch", "target"} : place[w].pieces = {}
      BY EmptyPlaces DEF Init
    <2>2. call \in [Proc -> Calls]
      <3>1. [op : Ops, source : Source, dump : {{}}] \subseteq Calls
        BY DEF Calls
      <3> QED BY <3>1 DEF Init
    <2> QED BY <2>1, <2>2 DEF Init, Types, PCs, Early
  <1> QED BY <1>1 DEF Init, IInv, Once, Progress, Has

\* The steps that write no object.
LEMMA PlaceSteps ==
  ASSUME IInv, NEW p \in Proc,
         \/ Start(p) \/ Exists(p) \/ Create(p) \/ MakeTemp(p) \/ Restore(p) \/ Commit(p) \/ Rollback(p)
         \/ Wait(p) \/ Mask(p) \/ Dump(p) \/ Drop(p) \/ Kill(p)
         \/ Fails(p) /\ pc[p] \notin Over
  PROVE  IInv'
  <1> USE DEF IInv, Types, Goto
  <1>0. bucket' = bucket /\ \A k : Has(k)' <=> Has(k)
    BY DEF Start, Exists, Create, MakeTemp, Restore, Commit, Rollback, Wait, Mask, Dump, Drop, Kill, Fails, Has
  <1>1. /\ place' \in [{"scratch", "target"} -> Places]
        /\ \A w \in {"scratch", "target"} : place'[w].pieces # {} => place'[w].exists
    <2>1. CASE place' = place
      BY <2>1
    <2>2. ASSUME place' = [place EXCEPT !["scratch"] = Holding({})] \/ place' = [place EXCEPT !["scratch"] = Missing]
          PROVE  /\ place' \in [{"scratch", "target"} -> Places]
                 /\ \A w \in {"scratch", "target"} : place'[w].pieces # {} => place'[w].exists
      <3>1. PICK e \in Places : place' = [place EXCEPT !["scratch"] = e] /\ e.pieces = {}
        BY <2>2, EmptyPlaces
      <3> QED BY <3>1
    <2>3. CASE Commit(p)
      <3>1. Where(p) \in {"scratch", "target"}
        BY DEF Where
      <3>2. PICK w \in {"scratch", "target"}, s \in Source :
              place' = [place EXCEPT ![w].pieces = @ \cup {s}] /\ place[w].exists
        BY <2>3, <3>1 DEF Commit, Calls
      <3> QED BY <3>2 DEF Places
    <2> QED BY <2>1, <2>2, <2>3 DEF Start, Exists, Create, MakeTemp, Restore, Rollback, Wait, Mask, Dump, Drop,
            Kill, Fails
  <1>2. call' \in [Proc -> Calls] /\ call'[p].op = call[p].op /\ \A q \in Proc \ {p} : call'[q] = call[q]
    <2>1. CASE call' = call
      BY <2>1
    <2>3. CASE Dump(p) /\ call' # call
      BY <2>3 DEF Dump, Fails, Raise, Calls, Places
    <2> QED BY <2>1, <2>3 DEF Start, Exists, Create, MakeTemp, Restore, Commit, Rollback, Wait, Mask, Drop, Kill,
            Fails
  <1>3. PICK s \in PCs : pc' = [pc EXCEPT ![p] = s]
    <2>1. CASE Commit(p) \/ Rollback(p)
      <3>1. pc' = [pc EXCEPT ![p] = pc[p]] /\ pc[p] \in PCs
        BY <2>1 DEF Commit, Rollback
      <3> QED BY <3>1
    <2> QED BY <2>1 DEF Start, Exists, Create, MakeTemp, Restore, Wait, Mask, Dump, Drop, Kill, Fails, Raise, PCs,
            Early, Over
  <1>4. \A q \in Proc \ {p} : Progress(q)'
    BY <1>0, <1>2, <1>3, OthersKeep
  <1>5. Progress(p)'
    <2>1. CASE pc[p] \notin {"drop", "delete", "copy"} /\ (pc'[p] = "returned" => call[p].op = "database")
               /\ pc'[p] \notin {"copy", "delete", "drop"}
               /\ (pc'[p] \in {"exists", "create", "archive", "dump", "upload", "failing"} => call[p].op = "backup")
               /\ (pc'[p] \in Early => pc[p] \in Early)
      BY <1>0, <1>2, <2>1 DEF Progress
    <2>2. CASE Start(p) \/ Exists(p) \/ Create(p) \/ MakeTemp(p) \/ Restore(p) \/ Wait(p) \/ Mask(p) \/ Dump(p)
      BY <2>1, <2>2 DEF Start, Exists, Create, MakeTemp, Restore, Wait, Mask, Dump, Fails, Raise, Progress, Early
    <2>3. CASE Drop(p) \/ Kill(p) \/ (Fails(p) /\ pc[p] \notin Over)
      BY <1>0, <1>2, <2>3 DEF Drop, Kill, Fails, Raise, Progress, Over, Early
    <2>4. CASE Commit(p) \/ Rollback(p)
      BY <1>0, <1>2, <2>4 DEF Commit, Rollback, Progress
    <2> QED BY <2>2, <2>3, <2>4
  <1>6. /\ child' \in [Proc -> {"none", "running", "done"}]
        /\ \A q \in Proc : child'[q] # "none" => pc'[q] \in {"wait", "killed"}
    <2>1. CASE Drop(p)
      <3>1. PICK S \in SUBSET Proc : child' = Ended(S)
        BY <2>1 DEF Drop
      <3>2. /\ child' \in [Proc -> {"none", "running", "done"}]
            /\ \A q \in Proc : child'[q] # "none" => child[q] # "none"
        BY <3>1 DEF Ended
      <3>3. child[p] = "none"
        BY <2>1 DEF Drop
      <3> QED BY <1>3, <3>2, <3>3
    <2>2. CASE Start(p) \/ Exists(p) \/ Create(p) \/ MakeTemp(p) \/ Restore(p) \/ Wait(p) \/ Mask(p) \/ Dump(p)
      BY <2>2 DEF Start, Exists, Create, MakeTemp, Restore, Wait, Mask, Dump, Fails, Raise
    <2>3. CASE Commit(p) \/ Rollback(p)
      BY <2>3 DEF Commit, Rollback
    <2>4. CASE Kill(p) \/ Fails(p)
      BY <2>4 DEF Kill, Fails, Raise
    <2> QED BY <2>1, <2>2, <2>3, <2>4
  <1> QED BY <1>0, <1>1, <1>2, <1>3, <1>4, <1>5, <1>6 DEF Once

\* The dump is uploaded, copied to where it was asked for, and removed from the prefix of
\* the primary.
LEMMA ObjectSteps ==
  ASSUME IInv, NEW p \in Proc, Upload(p) \/ Copy(p) \/ Delete(p), ~Fails(p)
  PROVE  IInv'
  <1> USE DEF IInv, Types, Goto
  <1>0. /\ place' = place /\ call' = call /\ child' = child /\ pc[p] \in {"upload", "copy", "delete"}
        /\ call[p].op = "backup" /\ child[p] = "none"
    BY DEF Upload, Copy, Delete, Progress
  <1>1. CASE Upload(p)
    <2> DEFINE new == [key |-> Temp(p), pieces |-> call[p].dump]
    <2>1. bucket' = bucket \cup {new} /\ pc' = [pc EXCEPT ![p] = "copy"] /\ pc[p] = "upload"
      BY <1>1 DEF Upload
    <2>2. new \in Objects /\ new.key = Temp(p)
      BY KeysDiffer DEF Calls, Objects
    <2> HIDE DEF new
    <2>3. ~Has(Temp(p)) /\ ~Has(Out(p))
      BY <2>1 DEF Progress, Early
    <2>4. \A k : Has(k)' <=> Has(k) \/ k = Temp(p)
      BY <2>1, <2>2 DEF Has
    <2>5. Once'
      BY <2>1, <2>2, <2>3 DEF Once, Has
    <2>6. \A q \in Proc \ {p} : Progress(q)'
      BY <1>0, <2>1, <2>4, OthersKeep, KeysDiffer
    <2>7. Progress(p)'
      BY <1>0, <2>1, <2>3, <2>4, KeysDiffer DEF Progress, Early
    <2> QED BY <1>0, <2>1, <2>2, <2>5, <2>6, <2>7 DEF PCs
  <1>2. CASE Copy(p)
    <2>1. bucket' = bucket \cup Copied(p) /\ pc' = [pc EXCEPT ![p] = "delete"] /\ pc[p] = "copy"
      BY <1>2 DEF Copy
    <2>2. Has(Temp(p)) /\ ~Has(Out(p))
      BY <2>1 DEF Progress
    <2>3. PICK x \in bucket : x.key = Temp(p)
      BY <2>2 DEF Has
    <2> DEFINE new == [x EXCEPT !.key = Out(p)]
    <2>4. Copied(p) = {new}
      BY <2>3 DEF Copied, Once
    <2>5. new \in Objects /\ new.key = Out(p)
      BY <2>3, KeysDiffer DEF Objects
    <2> HIDE DEF new
    <2>6. \A k : Has(k)' <=> Has(k) \/ k = Out(p)
      BY <2>1, <2>4, <2>5 DEF Has
    <2>7. Once'
      BY <2>1, <2>2, <2>4, <2>5 DEF Once, Has
    <2>8. \A q \in Proc \ {p} : Progress(q)'
      BY <1>0, <2>1, <2>6, OthersKeep, KeysDiffer
    <2>9. Progress(p)'
      BY <1>0, <2>1, <2>6, KeysDiffer DEF Progress, Early
    <2> QED BY <1>0, <2>1, <2>4, <2>5, <2>7, <2>8, <2>9 DEF PCs
  <1>3. CASE Delete(p)
    <2>1. /\ bucket' = {o \in bucket : o.key # Temp(p)} /\ pc' = [pc EXCEPT ![p] = "drop"]
          /\ pc[p] = "delete"
      BY <1>3 DEF Delete
    <2>2. \A k : Has(k)' <=> Has(k) /\ k # Temp(p)
      BY <2>1 DEF Has
    <2>3. \A q \in Proc \ {p} : Progress(q)'
      BY <1>0, <2>1, <2>2, OthersKeep, KeysDiffer
    <2>4. Progress(p)'
      BY <1>0, <2>1, <2>2, KeysDiffer DEF Progress, Early
    <2>5. Once'
      BY <2>1 DEF Once
    <2> QED BY <1>0, <2>1, <2>3, <2>4, <2>5 DEF PCs
  <1> QED BY <1>1, <1>2, <1>3

\* Every step keeps it.
LEMMA NextIInv == IInv /\ [Next]_vars => IInv'
  <1>1. ASSUME IInv, UNCHANGED vars PROVE IInv'
    BY <1>1 DEF vars, IInv, Types, Once, Progress, Has
  <1>2. ASSUME IInv, NEW p \in Proc, Step(p) PROVE IInv'
    <2>1. CASE Fails(p) /\ (Upload(p) \/ Copy(p) \/ Delete(p))
      BY <1>2, <2>1, PlaceSteps DEF Upload, Copy, Delete, Over
    <2> QED BY <1>2, <2>1, PlaceSteps, ObjectSteps DEF Step
  <1> QED BY <1>1, <1>2 DEF Next

\* However calls overlap, fail and are killed: a call that returned has left its copy under
\* --out, and nothing under the primary's prefix that looks like a backup of the primary.
THEOREM ReturnsArePublished == Spec => []AnonymizeInv
  <1>1. IInv => AnonymizeInv
    <2> SUFFICES ASSUME IInv PROVE AnonymizeInv
      OBVIOUS
    <2>1. TypeOK
      BY DEF IInv, Types, Once, Calls, Objects, Places, TypeOK
    <2>2. ReturnedIsPublished
      BY DEF IInv, Progress, Has, ReturnedIsPublished
    <2> QED BY <2>1, <2>2 DEF AnonymizeInv
  <1> QED BY <1>1, InitIInv, NextIInv, PTL DEF Spec
-----------------------------------------------------------------------------
(* Calls that follow one another *)

\* A call that has begun and not ended: in an orderly run, a call at work.
Busy(p) == pc[p] \notin Over \cup {"idle"}

\* What the scratch database and the dump hold while a call copies a backup.
Scratched(p) ==
  /\ pc[p] \in {"exists", "create", "archive", "restore"} /\ call[p].op = "backup" =>
       place["scratch"].pieces = {}
  /\ pc[p] = "wait" /\ call[p].op = "backup" =>
       place["scratch"].pieces = IF child[p] = "done" THEN {call[p].source} ELSE {}
  /\ pc[p] \in {"mask", "dump"} /\ call[p].op = "backup" => place["scratch"].pieces = {call[p].source}
  /\ pc[p] = "upload" => call[p].dump = {call[p].source}

\* What is in the bucket is of its source.
Own(p) == \A o \in bucket : o.key \in {Temp(p), Out(p)} => o.pieces = {call[p].source}

Emptied == place["scratch"].pieces # {} => \E p \in Proc : Busy(p) /\ call[p].op = "backup"

OrderInv ==
  /\ \A p, q \in Proc : Busy(p) /\ Busy(q) => p = q
  /\ Emptied
  /\ \A p \in Proc : Scratched(p) /\ Own(p)

QInv == IInv /\ alone \in BOOLEAN /\ (Orderly => OrderInv)

\* In an orderly run the step is of a call that begins or is busy, or a pending one is killed.
LEMMA WhoSteps ==
  ASSUME QInv, Orderly, NEW p \in Proc, Step(p)
  PROVE  (Start(p) /\ Busy(p)') \/ Busy(p) \/ (Kill(p) /\ pc'[p] = "killed")
  <1> USE DEF QInv, IInv, Types
  <1>1. Start(p) => Busy(p)'
    BY DEF Start, Goto, Busy, Over
  <1>2. Commit(p) \/ Rollback(p) => Busy(p)
    BY DEF Commit, Rollback, Busy, Over, Orderly
  <1>3. Kill(p) => pc'[p] = "killed"
    BY DEF Kill, Goto
  <1> QED BY <1>1, <1>2, <1>3 DEF Step, Exists, Create, MakeTemp, Restore, Wait, Mask, Dump, Upload, Copy, Delete,
          Drop, Busy, Over

\* While one call works, its step leaves what is known of the others.
LEMMA OrderStep ==
  ASSUME QInv, Orderly, Orderly', NEW p \in Proc, Step(p),
         \A q \in Proc \ {p} : pc'[q] = pc[q] /\ call'[q] = call[q],
         \A o \in bucket' : o \in bucket \/ o.key \in {Temp(p), Out(p)},
         \A q, r \in Proc : Busy(q)' /\ Busy(r)' => q = r,
         Scratched(p)', Own(p)', Emptied'
  PROVE  OrderInv'
  <1>1. \A q \in Proc \ {p} : pc'[q] \in Over \cup {"idle"}
    <2>1. CASE Start(p) /\ Busy(p)'
      BY <2>1 DEF Busy
    <2>2. CASE Busy(p)
      BY <2>2 DEF QInv, OrderInv, Busy
    <2> QED BY <2>1, <2>2, WhoSteps DEF Orderly
  <1>2. ASSUME NEW q \in Proc \ {p} PROVE Scratched(q)' /\ Own(q)'
    BY <1>1, <1>2, KeysDiffer DEF Scratched, Own, Over, QInv, OrderInv
  <1> QED BY <1>2 DEF OrderInv

\* The one step that may find nobody at work, and what every other step finds.
LEMMA WhoWorks ==
  ASSUME QInv, Orderly, Orderly', NEW p \in Proc, Step(p),
         \A q \in Proc \ {p} : pc'[q] = pc[q],
         \A q, r \in Proc : Busy(q)' /\ Busy(r)' => q = r
  PROVE  /\ pc'[p] \notin {"killed", "undropped"}
         /\ ~Kill(p)
         /\ place["scratch"].pieces # {} => Busy(p) /\ call[p].op = "backup"
  <1>1. pc'[p] \notin {"killed", "undropped"}
    BY DEF Orderly
  <1>2. ~Kill(p)
    BY <1>1 DEF Kill, Goto, QInv, IInv, Types
  <1>3. ASSUME place["scratch"].pieces # {} PROVE Busy(p) /\ call[p].op = "backup"
    <2>1. PICK q \in Proc : Busy(q) /\ call[q].op = "backup"
      BY <1>3 DEF QInv, OrderInv, Emptied
    <2>2. CASE q = p
      BY <2>1, <2>2 DEF Busy
    <2>3. CASE q # p
      BY <1>2, <2>1, <2>3, WhoSteps DEF Busy, QInv, OrderInv
    <2> QED BY <2>2, <2>3
  <1> QED BY <1>1, <1>2, <1>3

\* A step of the call at work keeps what is known of the scratch database and of its copy.
LEMMA OwnStep ==
  ASSUME QInv, Orderly, NEW p \in Proc, Step(p), ~Kill(p),
         pc'[p] \notin {"killed", "undropped"},
         place["scratch"].pieces # {} => Busy(p) /\ call[p].op = "backup"
  PROVE  Scratched(p)' /\ Own(p)' /\ Emptied'
  <1> USE DEF QInv, IInv, Types, Goto
  <1>0. Scratched(p) /\ Own(p) /\ Progress(p) /\ (Busy(p) => pc[p] \notin Over)
    BY DEF OrderInv, Busy
  <1>1. CASE Start(p) \/ Exists(p) \/ MakeTemp(p)
    <2>1. place["scratch"].pieces = {} /\ place' = place /\ bucket' = bucket /\ call' = call
      BY <1>0, <1>1 DEF Start, Exists, MakeTemp, Scratched, Progress, Busy
    <2>2. pc'[p] \in {"exists", "create", "archive", "restore", "raised"}
      BY <1>1 DEF Start, Exists, MakeTemp
    <2> QED BY <1>0, <2>1, <2>2 DEF Scratched, Own, Emptied, Temp, Out
  <1>2. ASSUME Fails(p), pc[p] \notin Over PROVE Scratched(p)' /\ Own(p)' /\ Emptied'
    <2>1. place' = place /\ bucket' = bucket /\ call' = call
      BY <1>2 DEF Fails
    <2>2. pc'[p] = (IF call[p].op = "backup" THEN "failing" ELSE "raised")
      BY <1>2 DEF Fails, Raise
    <2>3. place["scratch"].pieces # {} => Busy(p)' /\ call'[p].op = "backup"
      BY <2>1, <2>2 DEF Busy, Over
    <2> QED BY <1>0, <2>1, <2>2, <2>3 DEF Scratched, Own, Emptied, Temp, Out
  <1>4. CASE Create(p)
    <2>1. /\ bucket' = bucket /\ call' = call /\ pc'[p] \in {"archive", "raised"}
          /\ place' \in {place, [place EXCEPT !["scratch"] = Holding({})]}
          /\ place["scratch"].pieces = {}
      BY <1>0, <1>4 DEF Create, Scratched, Progress
    <2>2. place'["scratch"].pieces = {}
      BY <2>1, EmptyPlaces
    <2> QED BY <1>0, <2>1, <2>2 DEF Scratched, Own, Emptied, Temp, Out
  <1>3. CASE Restore(p) /\ ~Raise(p)
    <2>1. /\ place' = place /\ bucket' = bucket /\ call' = call /\ pc[p] = "restore" /\ pc'[p] = "wait"
          /\ child'[p] = "running"
      BY <1>3 DEF Restore, Fails
    <2>2. place["scratch"].pieces = {}
      BY <1>0, <2>1 DEF Scratched
    <2> QED BY <1>0, <2>1, <2>2 DEF Scratched, Own, Emptied, Temp, Out
  <1>5. CASE Commit(p)
    <2>1. /\ place' = [place EXCEPT ![Where(p)].pieces = @ \cup {call[p].source}]
          /\ pc' = pc /\ bucket' = bucket /\ call' = call /\ child[p] = "running" /\ child'[p] = "done"
      BY <1>5 DEF Commit
    <2>2. Busy(p)' /\ pc[p] = "wait"
      BY <2>1 DEF Busy, Over, Orderly
    <2>3. CASE call[p].op = "backup"
      <3>1. place'["scratch"].pieces = {call[p].source}
        BY <1>0, <2>1, <2>2, <2>3 DEF Where, Scratched, Places
      <3> QED BY <1>0, <2>1, <2>2, <2>3, <3>1 DEF Scratched, Own, Emptied, Temp, Out
    <2>4. CASE call[p].op # "backup"
      <3>1. place'["scratch"] = place["scratch"] /\ place["scratch"].pieces = {}
        BY <2>1, <2>4 DEF Where
      <3> QED BY <1>0, <2>1, <2>2, <2>4, <3>1 DEF Scratched, Own, Emptied, Temp, Out
    <2> QED BY <2>3, <2>4
  <1>14. CASE Rollback(p)
    <2>1. /\ place' = place /\ bucket' = bucket /\ call' = call /\ pc' = pc
          /\ child[p] = "running" /\ child'[p] = "none"
      BY <1>14 DEF Rollback
    <2>2. Busy(p)'  = Busy(p)
      BY <2>1 DEF Busy
    <2>3. Emptied'
      BY <2>1, <2>2 DEF Emptied
    <2> QED BY <1>0, <2>1, <2>3 DEF Scratched, Own, Temp, Out
  <1>15. CASE Wait(p) /\ ~Raise(p)
    <2>1. /\ place' = place /\ bucket' = bucket /\ call' = call /\ pc[p] = "wait" /\ pc'[p] = "mask"
          /\ child[p] = "done"
      BY <1>15 DEF Wait, Fails
    <2>2. Busy(p)'
      BY <2>1 DEF Busy, Over
    <2> QED BY <1>0, <2>1, <2>2 DEF Scratched, Own, Emptied, Temp, Out
  <1>6. CASE Mask(p) /\ ~Raise(p)
    <2>1. /\ place' = place /\ bucket' = bucket /\ call' = call /\ pc[p] = "mask"
          /\ pc'[p] = (IF call[p].op = "backup" THEN "dump" ELSE "returned")
      BY <1>6 DEF Mask, Fails
    <2>2. place["scratch"].pieces # {} => Busy(p)'
      BY <2>1 DEF Busy, Over
    <2> QED BY <1>0, <2>1, <2>2 DEF Scratched, Own, Emptied, Temp, Out
  <1>7. CASE Dump(p) /\ ~Raise(p)
    <2>1. /\ place' = place /\ bucket' = bucket /\ pc[p] = "dump" /\ pc'[p] = "upload"
          /\ call' = [call EXCEPT ![p].dump = place["scratch"].pieces]
      BY <1>7 DEF Dump, Fails
    <2>2. call[p].op = "backup" /\ call'[p].source = call[p].source /\ call'[p].op = call[p].op
          /\ call'[p].dump = {call[p].source}
      BY <1>0, <2>1 DEF Progress, Scratched, Calls
    <2>3. Busy(p)'
      BY <2>1 DEF Busy, Over
    <2> QED BY <1>0, <2>1, <2>2, <2>3 DEF Scratched, Own, Emptied, Temp, Out
  <1>8. CASE Upload(p) /\ ~Raise(p)
    <2> DEFINE new == [key |-> Temp(p), pieces |-> call[p].dump]
    <2>1. /\ place' = place /\ call' = call /\ pc[p] = "upload" /\ pc'[p] = "copy"
          /\ bucket' = bucket \cup {new}
      BY <1>8 DEF Upload, Fails
    <2>2. new.pieces = {call[p].source}
      BY <1>0, <2>1 DEF Scratched
    <2> HIDE DEF new
    <2>3. Busy(p)'
      BY <2>1 DEF Busy, Over
    <2> QED BY <1>0, <2>1, <2>2, <2>3 DEF Scratched, Own, Emptied, Temp, Out
  <1>9. CASE Copy(p) /\ ~Raise(p)
    <2>1. /\ place' = place /\ call' = call /\ pc[p] = "copy" /\ pc'[p] = "delete"
          /\ bucket' = bucket \cup Copied(p)
      BY <1>9 DEF Copy, Fails
    <2>2. \A o \in Copied(p) : o.pieces = {call[p].source}
      BY <1>0 DEF Copied, Own, Objects
    <2>3. Busy(p)'
      BY <2>1 DEF Busy, Over
    <2> HIDE DEF Copied
    <2> QED BY <1>0, <2>1, <2>2, <2>3 DEF Scratched, Own, Emptied, Temp, Out
  <1>10. CASE Delete(p) /\ ~Raise(p)
    <2>1. /\ place' = place /\ call' = call /\ pc[p] = "delete" /\ pc'[p] = "drop"
          /\ bucket' = {o \in bucket : o.key # Temp(p)}
      BY <1>10 DEF Delete, Fails
    <2>2. Busy(p)'
      BY <2>1 DEF Busy, Over
    <2> QED BY <1>0, <2>1, <2>2 DEF Scratched, Own, Emptied, Temp, Out
  <1>11. CASE Drop(p)
    <2>1. /\ place' = [place EXCEPT !["scratch"] = Missing] /\ bucket' = bucket /\ call' = call
          /\ pc'[p] \in {"returned", "raised"}
      BY <1>11 DEF Drop
    <2>2. place'["scratch"].pieces = {}
      BY <2>1, EmptyPlaces
    <2> QED BY <1>0, <2>1, <2>2 DEF Scratched, Own, Emptied, Temp, Out
  <1>12. Raise(p) /\ (Restore(p) \/ Wait(p) \/ Mask(p) \/ Dump(p) \/ Upload(p) \/ Copy(p) \/ Delete(p)) =>
           Fails(p) /\ pc[p] \notin Over
    <2> SUFFICES ASSUME Raise(p), Restore(p) \/ Wait(p) \/ Mask(p) \/ Dump(p) \/ Upload(p) \/ Copy(p) \/ Delete(p)
                 PROVE  Fails(p) /\ pc[p] \notin Over
      OBVIOUS
    <2>1. pc'[p] \in {"failing", "raised"}
      BY DEF Raise
    <2> QED BY <2>1 DEF Restore, Wait, Mask, Dump, Upload, Copy, Delete, Fails, Over
  <1> QED BY <1>1, <1>2, <1>3, <1>4, <1>5, <1>6, <1>7, <1>8, <1>9, <1>10, <1>11, <1>12, <1>14, <1>15 DEF Step

\* What holds of calls that follow one another, at the start ...
LEMMA InitQInv == MCInit => QInv
  <1> SUFFICES ASSUME MCInit PROVE QInv
    OBVIOUS
  <1>1. IInv
    BY InitIInv DEF MCInit
  <1>2. OrderInv
    <2>1. place["scratch"] = Missing
      BY DEF MCInit, Init
    <2> QED BY <2>1, EmptyPlaces DEF MCInit, Init, OrderInv, Busy, Emptied, Scratched, Own, Over
  <1> QED BY <1>1, <1>2 DEF QInv, MCInit

\* ... and after every step: once two calls have been at work, or one was killed, that is
\* never forgotten.
LEMMA NextQInv == QInv /\ [MCNext]_mcvars => QInv'
  <1>1. ASSUME QInv, UNCHANGED mcvars PROVE QInv'
    BY <1>1 DEF mcvars, vars, QInv, IInv, Types, Once, Progress, Has, Orderly, OrderInv, Busy, Emptied,
       Scratched, Own
  <1>2. ASSUME QInv, NEW p \in Proc, Step(p), MCNext PROVE QInv'
    <2>1. IInv' /\ alone' \in BOOLEAN
      BY <1>2, NextIInv DEF QInv, MCNext, Next
    <2>2. /\ \A q \in Proc \ {p} : pc'[q] = pc[q] /\ call'[q] = call[q]
          /\ \A o \in bucket' : o \in bucket \/ o.key \in {Temp(p), Out(p)}
      <3>1. \A q \in Proc \ {p} : pc'[q] = pc[q] /\ call'[q] = call[q]
        BY <1>2 DEF QInv, IInv, Types, Step, Start, Exists, Create, MakeTemp, Restore, Commit, Rollback, Wait,
           Mask, Dump, Upload, Copy, Delete, Drop, Kill, Goto, Raise, Fails
      <3>2. \A o \in bucket' : o \in bucket \/ o.key \in {Temp(p), Out(p)}
        <4>1. \A o \in Copied(p) : o.key = Out(p)
          BY <1>2 DEF QInv, IInv, Types, Copied, Objects
        <4> HIDE DEF Copied
        <4> QED BY <1>2, <4>1 DEF Step, Start, Exists, Create, MakeTemp, Restore, Commit, Rollback, Wait, Mask,
                Dump, Upload, Copy, Delete, Drop, Kill, Fails
      <3> QED BY <3>1, <3>2
    <2>3. ASSUME Orderly' PROVE OrderInv'
      <3>1. alone /\ \A q, r \in Proc : Busy(q)' /\ Busy(r)' => q = r
        BY <1>2, <2>3 DEF MCNext, Orderly, Working, Busy
      <3>2. pc[p] \notin {"killed", "undropped"}
        <4>1. CASE Commit(p) \/ Rollback(p)
          BY <1>2, <2>3, <4>1 DEF Commit, Rollback, Orderly, QInv, IInv, Types
        <4> QED BY <1>2, <4>1 DEF Step, Start, Exists, Create, MakeTemp, Restore, Wait, Mask, Dump, Upload, Copy,
                Delete, Drop, Kill, Over
      <3>3. Orderly
        BY <2>2, <2>3, <3>1, <3>2 DEF Orderly
      <3>4. /\ ~Kill(p) /\ pc'[p] \notin {"killed", "undropped"}
            /\ place["scratch"].pieces # {} => Busy(p) /\ call[p].op = "backup"
        BY <1>2, <2>2, <2>3, <3>1, <3>3, WhoWorks
      <3>5. Scratched(p)' /\ Own(p)' /\ Emptied'
        BY <1>2, <3>3, <3>4, OwnStep
      <3> QED BY <1>2, <2>2, <2>3, <3>1, <3>3, <3>5, OrderStep
    <2> QED BY <2>1, <2>3 DEF QInv
  <1> QED BY <1>1, <1>2 DEF MCNext, Next

-----------------------------------------------------------------------------
(* What calls that were killed leave behind *)

\* The call at work has seen the scratch database without the table before it dumps it.
Unmasked(p) ==
  /\ pc[p] = "dump" => place["scratch"].pieces \cap Tabled = {}
  /\ pc[p] = "upload" => call[p].dump \cap Tabled = {}

AloneInv ==
  /\ \A p, q \in Proc : Working(p) /\ Working(q) => p = q
  /\ \A p \in Proc : Unmasked(p)
  /\ \A o \in bucket : o.pieces \cap Tabled = {}

TInv == IInv /\ alone \in BOOLEAN /\ (alone => AloneInv)

\* While no two calls work at once, a step of one leaves the scratch database and the bucket
\* as the others have seen them.
LEMMA OthersWait ==
  ASSUME IInv, NEW p \in Proc, NEW q \in Proc \ {p}, Step(p), Working(q),
         \A r, t \in Proc : Working(r) /\ Working(t) => r = t
  PROVE  place' = place /\ bucket' = bucket
  <1>1. ~Working(p)
    OBVIOUS
  <1>5. CASE Start(p)
    BY <1>5 DEF Start
  <1>6. CASE Kill(p)
    BY <1>6 DEF Kill
  <1> QED BY <1>1, <1>5, <1>6 DEF Step, Exists, Create, MakeTemp, Restore, Commit, Rollback, Wait, Mask, Dump,
          Upload, Copy, Delete, Drop, Working, Over

\* A step of the call at work publishes nothing of a database that has the table.
LEMMA UnmaskedStep ==
  ASSUME IInv, NEW p \in Proc, Step(p), Unmasked(p), \A o \in bucket : o.pieces \cap Tabled = {}
  PROVE  Unmasked(p)' /\ \A o \in bucket' : o.pieces \cap Tabled = {}
  <1> USE DEF IInv, Types, Goto
  <1>1. CASE pc'[p] \notin {"dump", "upload"} /\ bucket' \subseteq bucket
    BY <1>1 DEF Unmasked
  <1>2. CASE Mask(p) /\ pc'[p] = "dump"
    <2>1. place' = place /\ bucket' = bucket /\ place["scratch"].pieces \cap Tabled = {}
      <3>1. ~Raise(p)
        BY <1>2 DEF Raise
      <3>2. call[p].op = "backup"
        BY <1>2, <3>1 DEF Mask, Fails
      <3> QED BY <1>2, <3>1, <3>2 DEF Mask, Fails, Where
    <2> QED BY <1>2, <2>1 DEF Unmasked
  <1>3. CASE Dump(p) /\ pc'[p] = "upload"
    <2>1. ~Raise(p)
      BY <1>3 DEF Raise
    <2>2. /\ bucket' = bucket /\ pc[p] = "dump"
          /\ call' = [call EXCEPT ![p].dump = place["scratch"].pieces]
      BY <1>3, <2>1 DEF Dump, Fails
    <2>3. call'[p].dump = place["scratch"].pieces
      BY <2>2 DEF Calls
    <2> QED BY <1>3, <2>2, <2>3 DEF Unmasked
  <1>4. CASE Upload(p) /\ pc'[p] = "copy"
    <2>1. ~Raise(p)
      BY <1>4 DEF Raise
    <2>2. bucket' = bucket \cup {[key |-> Temp(p), pieces |-> call[p].dump]} /\ pc[p] = "upload"
      BY <1>4, <2>1 DEF Upload, Fails
    <2> QED BY <1>4, <2>2 DEF Unmasked
  <1>5. CASE Copy(p) /\ pc'[p] = "delete"
    <2>1. ~Raise(p)
      BY <1>5 DEF Raise
    <2>2. bucket' = bucket \cup Copied(p)
      BY <1>5, <2>1 DEF Copy, Fails
    <2>3. \A o \in Copied(p) : o.pieces \cap Tabled = {}
      BY DEF Copied, Objects
    <2> HIDE DEF Copied
    <2> QED BY <1>5, <2>2, <2>3 DEF Unmasked
  <1>6. ASSUME Fails(p) PROVE <1>1!1
    BY <1>6 DEF Fails, Raise
  <1>7. Start(p) \/ Exists(p) \/ Create(p) \/ MakeTemp(p) \/ Delete(p) \/ Drop(p) \/ Kill(p) => <1>1!1
    BY <1>6 DEF Start, Exists, Create, MakeTemp, Delete, Drop, Kill
  <1>8. Restore(p) \/ Wait(p) \/ Commit(p) \/ Rollback(p) => <1>1!1
    BY <1>6 DEF Restore, Wait, Commit, Rollback
  <1>9. Mask(p) => <1>1!1 \/ pc'[p] = "dump"
    BY <1>6 DEF Mask, Raise
  <1>10. Dump(p) => <1>1!1 \/ pc'[p] = "upload"
    BY <1>6 DEF Dump, Raise
  <1>11. Upload(p) => <1>1!1 \/ pc'[p] = "copy"
    BY <1>6 DEF Upload
  <1>12. Copy(p) => <1>1!1 \/ pc'[p] = "delete"
    BY <1>6 DEF Copy
  <1> QED BY <1>1, <1>2, <1>3, <1>4, <1>5, <1>7, <1>8, <1>9, <1>10, <1>11, <1>12 DEF Step

\* Every step keeps it, as long as calls follow one another.
LEMMA NextTInv == TInv /\ [MCNext]_mcvars => TInv'
  <1>1. ASSUME TInv, UNCHANGED mcvars PROVE TInv'
    BY <1>1 DEF mcvars, vars, TInv, IInv, Types, Once, Progress, Has, AloneInv, Working, Unmasked
  <1>2. ASSUME TInv, NEW p \in Proc, Step(p), MCNext PROVE TInv'
    <2>1. IInv /\ IInv' /\ alone' \in BOOLEAN
      BY <1>2, NextIInv DEF TInv, MCNext, Next
    <2>2. \A q \in Proc \ {p} : pc'[q] = pc[q] /\ call'[q] = call[q]
      BY <1>2, <2>1 DEF IInv, Types, Step, Start, Exists, Create, MakeTemp, Restore, Commit, Rollback, Wait,
         Mask, Dump, Upload, Copy, Delete, Drop, Kill, Goto, Raise, Fails
    <2>3. ASSUME alone' PROVE AloneInv'
      <3>1. AloneInv /\ \A q, r \in Proc : Working(q)' /\ Working(r)' => q = r
        BY <1>2, <2>3 DEF MCNext, TInv
      <3>2. Unmasked(p)' /\ \A o \in bucket' : o.pieces \cap Tabled = {}
        BY <1>2, <2>1, <3>1, UnmaskedStep DEF AloneInv
      <3>3. ASSUME NEW q \in Proc \ {p} PROVE Unmasked(q)'
        <4>1. CASE Working(q)
          <5>1. place' = place
            BY <1>2, <2>1, <3>1, <4>1, OthersWait DEF AloneInv
          <5> QED BY <2>2, <3>1, <5>1 DEF Unmasked, AloneInv
        <4>2. CASE ~Working(q)
          BY <2>2, <4>2 DEF Unmasked, Working, Over
        <4> QED BY <4>1, <4>2
      <3> QED BY <3>1, <3>2, <3>3 DEF AloneInv
    <2> QED BY <2>1, <2>3 DEF TInv
  <1> QED BY <1>1, <1>2 DEF MCNext, Next

\* While calls follow one another, each counted as at work until its pg_restore is over: if
\* none is killed, the scratch database has rows only while one works on it, and a copy under
\* --out is of its source alone, whichever calls fail; and whatever killed calls left behind,
\* no object has rows that were to be masked and were not.
THEOREM OneByOneApart == MCSpec => []CallsStayApart
  <1>1. QInv => ScratchIsEmptied /\ PublishedIsOwn
    <2> SUFFICES ASSUME QInv, Orderly PROVE ScratchIsEmptied /\ PublishedIsOwn
      BY DEF ScratchIsEmptied, PublishedIsOwn
    <2>1. ScratchIsEmptied
      BY DEF QInv, OrderInv, Emptied, ScratchIsEmptied, Busy, Working
    <2> QED BY <2>1 DEF QInv, OrderInv, Own, PublishedIsOwn
  <1>2. MCInit => TInv
    <2> SUFFICES ASSUME MCInit PROVE TInv
      OBVIOUS
    <2>1. IInv
      BY InitIInv DEF MCInit
    <2> QED BY <2>1 DEF MCInit, Init, TInv, AloneInv, Working, Unmasked, Over
  <1>3. TInv => TabledStaysOut
    BY DEF TInv, AloneInv, TabledStaysOut
  <1>4. QInv /\ TInv => CallsStayApart
    BY <1>1, <1>3 DEF CallsStayApart
  <1> QED BY <1>2, <1>4, InitQInv, NextQInv, NextTInv, PTL DEF MCSpec
=============================================================================
