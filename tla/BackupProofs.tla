---------------------------- MODULE BackupProofs ----------------------------
(***************************************************************************)
(* Proofs about Backup, for every set of processes and databases and every *)
(* bound.  The invariants of Backup are not inductive: that a returned key *)
(* is stored depends on what a process knows at each line of backup(), and *)
(* that a status file is coherent on the record each process carries from  *)
(* its read to its write.  IInv says both.  How a run ends and what the    *)
(* status file then tells relates the file to the runs that wrote it:      *)
(* HInv, over the history of MCBackup, says which run that can be, and the *)
(* refinement of Ledger rests on it.                                       *)
(***************************************************************************)
EXTENDS MCBackup, TLAPS

Stored(d, s) == \E o \in objects : o.db = d /\ o.sec = s

\* What a process knows at each point of its call.
CallInv(p) ==
  /\ pc[p] \in {"head", "create", "key", "dump", "wait", "upload"} => call[p].ok
  /\ pc[p] = "upload" => call[p].whole
  /\ pc[p] \in InTry \cup {"returned"} => call[p].sec > 0
  /\ pc[p] = "returned" => call[p].ok
  /\ pc[p] \in {"load", "truncate", "write", "unlink", "returned"} /\ call[p].ok
       => Stored(call[p].db, call[p].sec)

\* A record on its way to the disk, or on it.
RecordInv(d, st) == Coherent(st) /\ (st.last_key > 0 => Stored(d, st.last_key))

CarriedInv(p) == pc[p] \in {"truncate", "write"} => RecordInv(call[p].db, call[p].st)

FileInv(d) == /\ file[d].kind # "json" => file[d].st = Fresh
              /\ RecordInv(d, file[d].st)

IInv == /\ TypeOK
        /\ now > 0
        /\ StoredWhole
        /\ \A p \in Proc : CallInv(p) /\ CarriedInv(p)
        /\ \A d \in Db : FileInv(d)
-----------------------------------------------------------------------------
\* The updates of a record preserve its type and its coherence.
LEMMA RecordedIsStatus ==
  ASSUME NEW st \in Status, NEW c \in Calls, NEW t \in Nat
  PROVE  Recorded(st, c, t) \in Status
  <1>1. /\ st.success_streak + 1 \in Nat /\ st.failure_streak + 1 \in Nat /\ 0 \in Nat
        /\ c.sec \in Nat /\ c.run \in Nat
    BY DEF Status, Calls
  <1>2. Succeeded(st, c, t) \in Status
    BY <1>1, Zenon DEF Succeeded, Status
  <1>3. Failed(st, t) \in Status
    BY <1>1, Zenon DEF Failed, Status
  <1> QED BY <1>2, <1>3 DEF Recorded

LEMMA RecordedIsCoherent ==
  ASSUME NEW st \in Status, NEW c \in Calls, NEW t \in Nat,
         Coherent(st), c.sec > 0, t > 0
  PROVE  Coherent(Recorded(st, c, t))
  <1>1. Coherent(Succeeded(st, c, t))
    BY DEF Succeeded, Coherent, Status, Calls
  <1>2. Coherent(Failed(st, t))
    BY DEF Failed, Coherent, Status
  <1> QED BY <1>1, <1>2 DEF Recorded

\* An upload keeps every key of the bucket and adds its own.
LEMMA PutKeepsKeys ==
  ASSUME TypeOK, NEW c \in Calls, objects' = Put(c)
  PROVE  /\ objects' \subseteq Objects
         /\ \A d, s : Stored(d, s) => Stored(d, s)'
         /\ Stored(c.db, c.sec)'
         /\ StoredWhole /\ c.whole => StoredWhole'
  <1> DEFINE new == [db |-> c.db, sec |-> c.sec, run |-> c.run, whole |-> c.whole]
  <1>1. new \in Objects /\ new \in objects' /\ new.db = c.db /\ new.sec = c.sec
    BY DEF Put, Calls, Objects
  <1>2. ASSUME NEW d, NEW s, Stored(d, s) PROVE Stored(d, s)'
    <2>1. PICK o \in objects : o.db = d /\ o.sec = s
      BY <1>2 DEF Stored
    <2>2. CASE <<d, s>> = <<c.db, c.sec>>
      BY <1>1, <2>2 DEF Stored
    <2>3. CASE <<d, s>> # <<c.db, c.sec>>
      BY <2>1, <2>3 DEF Stored, Put
    <2> QED BY <2>2, <2>3
  <1>3. objects' \subseteq Objects
    BY <1>1 DEF TypeOK, Put
  <1>4. Stored(c.db, c.sec)'
    BY <1>1 DEF Stored
  <1>5. StoredWhole /\ c.whole => StoredWhole'
    BY DEF StoredWhole, Put
  <1> QED BY <1>2, <1>3, <1>4, <1>5
-----------------------------------------------------------------------------
LEMMA FreshIsStatus == Fresh \in Status /\ Coherent(Fresh) /\ Fresh.last_key = 0
  BY DEF Fresh, Status, Coherent

LEMMA InitIInv == Init => IInv
  <1> SUFFICES ASSUME Init PROVE IInv
    OBVIOUS
  <1> USE DEF Init
  <1>0. ASSUME NEW c \in [db : Db, sec : {0}, run : {0}, whole : {FALSE}, ok : {FALSE},
                          st : {Fresh}]
        PROVE  c \in Calls
    <2>1. {0} \subseteq Nat /\ {FALSE} \subseteq BOOLEAN /\ {Fresh} \subseteq Status
      BY FreshIsStatus
    <2> QED BY <2>1, Zenon DEF Calls
  <1>1. \A p \in Proc : call[p] \in Calls
    BY <1>0
  <1>2. call \in [Proc -> Calls]
    BY <1>1
  <1>3. file \in [Db -> Files]
    BY FreshIsStatus DEF Absent, Files
  <1>4. TypeOK
    BY <1>2, <1>3 DEF TypeOK, PCs, Resting
  <1>5. \A p \in Proc : CallInv(p) /\ CarriedInv(p)
    BY DEF CallInv, CarriedInv, InTry
  <1>6. \A d \in Db : FileInv(d)
    BY FreshIsStatus DEF FileInv, RecordInv, Absent
  <1> QED BY <1>4, <1>5, <1>6 DEF IInv, StoredWhole
-----------------------------------------------------------------------------
\* What a step of p leaves alone: the other calls, and the keys of the bucket.
Others(p) == /\ \A q \in Proc \ {p} : pc'[q] = pc[q] /\ call'[q] = call[q]
             /\ \A d, s : Stored(d, s) => Stored(d, s)'

LEMMA OthersKeep ==
  ASSUME IInv, NEW p \in Proc, Others(p)
  PROVE  \A q \in Proc \ {p} : CallInv(q)' /\ CarriedInv(q)'
  <1> SUFFICES ASSUME NEW q \in Proc \ {p} PROVE CallInv(q)' /\ CarriedInv(q)'
    OBVIOUS
  <1>1. pc'[q] = pc[q] /\ call'[q] = call[q] /\ CallInv(q) /\ CarriedInv(q)
    BY DEF IInv, Others
  <1>2. CallInv(q)'
    BY <1>1 DEF CallInv, Others
  <1>3. CarriedInv(q)'
    BY <1>1 DEF CarriedInv, RecordInv, Others
  <1> QED BY <1>2, <1>3

LEMMA FilesKeep ==
  ASSUME IInv, NEW p \in Proc, Others(p), UNCHANGED file
  PROVE  \A d \in Db : FileInv(d)'
  BY DEF IInv, Others, FileInv, RecordInv

\* Control moves, and at most one field of p's call changes.
LEMMA GotoStep ==
  ASSUME TypeOK, NEW p \in Proc, NEW s \in PCs, Goto(p, s)
  PROVE  pc' \in [Proc -> PCs] /\ pc'[p] = s /\ \A q \in Proc \ {p} : pc'[q] = pc[q]
  BY DEF TypeOK, Goto

LEMMA CallStep ==
  ASSUME TypeOK, NEW p \in Proc, NEW c \in Calls, call' = [call EXCEPT ![p] = c]
  PROVE  call' \in [Proc -> Calls] /\ call'[p] = c /\ \A q \in Proc \ {p} : call'[q] = call[q]
  BY DEF TypeOK

LEMMA RaiseStep ==
  ASSUME TypeOK, NEW p \in Proc, Raise(p)
  PROVE  /\ pc' \in [Proc -> PCs] /\ call' \in [Proc -> Calls]
         /\ pc'[p] \in {"load", "unlink"} /\ ~call'[p].ok
         /\ call'[p].db = call[p].db /\ call'[p].sec = call[p].sec
         /\ \A q \in Proc \ {p} : pc'[q] = pc[q] /\ call'[q] = call[q]
  <1> DEFINE c == [call[p] EXCEPT !.ok = FALSE]
  <1>1. call[p] \in Calls
    BY DEF TypeOK
  <1>2. c \in Calls /\ ~c.ok /\ c.db = call[p].db /\ c.sec = call[p].sec
    BY <1>1 DEF Calls
  <1>3. call' = [call EXCEPT ![p] = c]
    BY DEF Raise
  <1>4. pc' \in [Proc -> PCs] /\ pc'[p] \in {"load", "unlink"} /\ \A q \in Proc \ {p} : pc'[q] = pc[q]
    BY DEF Raise, Goto, TypeOK, PCs, InTry
  <1> HIDE DEF c
  <1> QED BY <1>2, <1>3, <1>4, CallStep

\* A step that raises from the try block and touches no file keeps the invariant.
LEMMA RaiseIInv ==
  ASSUME IInv, NEW p \in Proc, Raise(p), pc[p] \in InTry, UNCHANGED <<now, file, runs, temps, bucket>>,
         \A d, s : Stored(d, s) => Stored(d, s)', objects' \subseteq Objects, StoredWhole'
  PROVE  IInv'
  <1>1. TypeOK /\ CallInv(p)
    BY DEF IInv
  <1>2. TypeOK'
    BY <1>1, RaiseStep DEF TypeOK
  <1>3. Others(p)
    BY <1>1, RaiseStep DEF Others
  <1>4. CallInv(p)' /\ CarriedInv(p)'
    BY <1>1, RaiseStep DEF CallInv, CarriedInv, InTry
  <1> QED BY <1>2, <1>3, <1>4, OthersKeep, FilesKeep DEF IInv

\* A step that only moves control, and maybe replaces p's call, to a place where
\* p has nothing to remember about the bucket.
LEMMA MoveIInv ==
  ASSUME IInv, NEW p \in Proc, NEW s \in PCs, NEW c \in Calls, Goto(p, s),
         call' = [call EXCEPT ![p] = c],
         UNCHANGED <<now, objects, file>>, bucket' \in BOOLEAN, temps' \subseteq Nat, runs' \in Nat,
         s \in {"head", "create", "key", "dump", "wait", "upload"} => c.ok,
         s = "upload" => c.whole,
         s \in InTry => c.sec > 0,
         s \in {"load", "unlink"} /\ c.ok => Stored(c.db, c.sec),
         s \notin {"returned", "truncate", "write"}
  PROVE  IInv'
  <1>1. TypeOK
    BY DEF IInv
  <1>2. /\ pc' \in [Proc -> PCs] /\ pc'[p] = s /\ call' \in [Proc -> Calls] /\ call'[p] = c
        /\ \A q \in Proc \ {p} : pc'[q] = pc[q] /\ call'[q] = call[q]
    BY <1>1, GotoStep, CallStep
  <1>3. TypeOK'
    BY <1>1, <1>2 DEF TypeOK
  <1>4. Others(p)
    BY <1>2 DEF Others, Stored
  <1>5. CallInv(p)'
    BY <1>2 DEF CallInv, Stored
  <1>6. CarriedInv(p)'
    BY <1>2 DEF CarriedInv
  <1> QED BY <1>3, <1>4, <1>5, <1>6, OthersKeep, FilesKeep DEF IInv, StoredWhole

\* Moving control alone is the special case of an unchanged call.
LEMMA SameCall ==
  ASSUME TypeOK, NEW p \in Proc, UNCHANGED call
  PROVE  call[p] \in Calls /\ call' = [call EXCEPT ![p] = call[p]]
  BY DEF TypeOK
-----------------------------------------------------------------------------
(* Each action keeps IInv *)

LEMMA BeginIInv ==
  ASSUME IInv, NEW p \in Proc, NEW d \in Db, Begin(p, d)
  PROVE  IInv'
  <1> DEFINE c == [db |-> d, sec |-> 0, run |-> runs + 1, whole |-> FALSE, ok |-> TRUE,
                   st |-> Fresh]
  <1>1. TypeOK
    BY DEF IInv
  <1>2. runs + 1 \in Nat /\ 0 \in Nat /\ bucket \in BOOLEAN /\ temps \subseteq Nat
    BY <1>1 DEF TypeOK
  <1>3. c \in Calls /\ c.ok
    BY <1>2, FreshIsStatus, Zenon DEF Calls
  <1>4. /\ Goto(p, "head") /\ call' = [call EXCEPT ![p] = c] /\ runs' = runs + 1
        /\ UNCHANGED <<now, bucket, objects, temps, file>>
    BY DEF Begin
  <1> HIDE DEF c
  <1>5. "head" \in PCs /\ "head" \notin InTry
    BY DEF PCs, InTry
  <1> QED BY <1>2, <1>3, <1>4, <1>5, MoveIInv

LEMMA BucketIInv ==
  ASSUME IInv, NEW p \in Proc, HeadBucket(p) \/ CreateBucket(p)
  PROVE  IInv'
  <1>1. TypeOK /\ CallInv(p)
    BY DEF IInv
  <1>2. call[p] \in Calls /\ call' = [call EXCEPT ![p] = call[p]] /\ call[p].ok
    BY <1>1, SameCall DEF HeadBucket, CreateBucket, CallInv
  <1>3. PICK s \in {"key", "create", "raised"} : Goto(p, s)
    BY DEF HeadBucket, CreateBucket
  <1>4. /\ UNCHANGED <<now, objects, file>>
        /\ bucket' \in BOOLEAN /\ temps' \subseteq Nat /\ runs' \in Nat
    BY <1>1 DEF HeadBucket, CreateBucket, TypeOK
  <1>5. s \in PCs /\ s \notin InTry
    BY <1>3 DEF PCs, Resting, InTry
  <1> QED BY <1>2, <1>3, <1>4, <1>5, MoveIInv

LEMMA MakeKeyIInv ==
  ASSUME IInv, NEW p \in Proc, MakeKey(p)
  PROVE  IInv'
  <1>1. TypeOK /\ CallInv(p) /\ now > 0 /\ call[p] \in Calls
    BY DEF IInv, TypeOK
  <1>2. call[p].ok /\ now \in Nat /\ call[p].run \in Nat
    BY <1>1 DEF MakeKey, CallInv, TypeOK, Calls
  <1>3. CASE call' = [call EXCEPT ![p].sec = now] /\ temps' = temps \cup {call[p].run} /\ Goto(p, "dump")
    <2> DEFINE c == [call[p] EXCEPT !.sec = now]
    <2>1. c \in Calls /\ c.ok /\ c.sec > 0
      BY <1>1, <1>2 DEF Calls
    <2>2. call' = [call EXCEPT ![p] = c]
      BY <1>3
    <2> HIDE DEF c
    <2>3. "dump" \in PCs
      BY DEF PCs, InTry
    <2>4. /\ UNCHANGED <<now, objects, file>>
          /\ bucket' \in BOOLEAN /\ temps' \subseteq Nat /\ runs' \in Nat
      BY <1>1, <1>2, <1>3 DEF MakeKey, TypeOK
    <2> QED BY <1>3, <2>1, <2>2, <2>3, <2>4, MoveIInv
  <1>4. CASE UNCHANGED <<call, temps>> /\ Goto(p, "raised")
    <2>1. call' = [call EXCEPT ![p] = call[p]]
      BY <1>1, <1>4, SameCall
    <2>2. "raised" \in PCs /\ "raised" \notin InTry
      BY DEF PCs, Resting, InTry
    <2>3. /\ UNCHANGED <<now, objects, file>>
          /\ bucket' \in BOOLEAN /\ temps' \subseteq Nat /\ runs' \in Nat
      BY <1>1, <1>4 DEF MakeKey, TypeOK
    <2> QED BY <1>1, <1>4, <2>1, <2>2, <2>3, MoveIInv
  <1> QED BY <1>3, <1>4 DEF MakeKey

LEMMA DumpIInv ==
  ASSUME IInv, NEW p \in Proc, Dump(p) \/ WaitDump(p)
  PROVE  IInv'
  <1>1. TypeOK /\ CallInv(p) /\ call[p] \in Calls /\ pc[p] \in InTry /\ StoredWhole
    BY DEF IInv, TypeOK, Dump, WaitDump, InTry
  <1>2. call[p].ok /\ call[p].sec > 0
    BY <1>1 DEF Dump, WaitDump, CallInv
  <1>3. /\ UNCHANGED <<now, bucket, objects, temps, file, runs>>
        /\ bucket' \in BOOLEAN /\ temps' \subseteq Nat /\ runs' \in Nat
    BY <1>1 DEF Dump, WaitDump, TypeOK
  <1>4. CASE Raise(p)
    BY <1>1, <1>3, <1>4, RaiseIInv DEF TypeOK, Stored, StoredWhole
  <1>5. ASSUME NEW whole \in BOOLEAN, call' = [call EXCEPT ![p].whole = whole], Goto(p, "wait")
        PROVE  IInv'
    <2> DEFINE c == [call[p] EXCEPT !.whole = whole]
    <2>1. c \in Calls /\ c.ok /\ c.sec > 0
      BY <1>1, <1>2 DEF Calls
    <2>2. call' = [call EXCEPT ![p] = c]
      BY <1>5
    <2> HIDE DEF c
    <2>3. "wait" \in PCs
      BY DEF PCs, InTry
    <2> QED BY <1>3, <1>5, <2>1, <2>2, <2>3, MoveIInv
  <1>6. CASE call[p].whole /\ Goto(p, "upload") /\ UNCHANGED call
    <2>1. call' = [call EXCEPT ![p] = call[p]]
      BY <1>1, <1>6, SameCall
    <2>2. "upload" \in PCs
      BY DEF PCs, InTry
    <2> QED BY <1>1, <1>2, <1>3, <1>6, <2>1, <2>2, MoveIInv
  <1> QED BY <1>4, <1>5, <1>6 DEF Dump, WaitDump

LEMMA UploadIInv ==
  ASSUME IInv, NEW p \in Proc, Upload(p)
  PROVE  IInv'
  <1>1. TypeOK /\ CallInv(p) /\ call[p] \in Calls /\ pc[p] \in InTry /\ StoredWhole
    BY DEF IInv, TypeOK, Upload, InTry
  <1>2. call[p].ok /\ call[p].sec > 0 /\ call[p].whole
    BY <1>1 DEF Upload, CallInv
  <1>3. UNCHANGED <<now, bucket, temps, file, runs>>
    BY DEF Upload
  <1>4. CASE objects' = Put(call[p]) /\ Goto(p, "load") /\ UNCHANGED call
    <2>1. /\ objects' \subseteq Objects /\ StoredWhole'
          /\ \A d, s : Stored(d, s) => Stored(d, s)'
          /\ Stored(call[p].db, call[p].sec)'
      BY <1>1, <1>2, <1>4, PutKeepsKeys
    <2>2. "load" \in PCs
      BY DEF PCs, InTry
    <2>3. /\ pc' \in [Proc -> PCs] /\ pc'[p] = "load" /\ call' = call
          /\ \A q \in Proc \ {p} : pc'[q] = pc[q] /\ call'[q] = call[q]
      BY <1>1, <1>4, <2>2, GotoStep
    <2>4. TypeOK'
      BY <1>1, <1>3, <2>1, <2>3 DEF TypeOK
    <2>5. Others(p)
      BY <2>1, <2>3 DEF Others
    <2>6. CallInv(p)' /\ CarriedInv(p)'
      BY <1>2, <2>1, <2>3 DEF CallInv, CarriedInv, Stored
    <2> QED BY <1>3, <2>1, <2>4, <2>5, <2>6, OthersKeep, FilesKeep DEF IInv
  <1>5. CASE objects' \in {objects, Put(call[p])} /\ Raise(p)
    <2>1. /\ objects' \subseteq Objects /\ StoredWhole'
          /\ \A d, s : Stored(d, s) => Stored(d, s)'
      <3>1. CASE objects' = objects
        BY <1>1, <3>1 DEF TypeOK, StoredWhole, Stored
      <3>2. CASE objects' = Put(call[p])
        BY <1>1, <1>2, <3>2, PutKeepsKeys
      <3> QED BY <1>5, <3>1, <3>2
    <2> QED BY <1>1, <1>3, <1>5, <2>1, RaiseIInv
  <1> QED BY <1>4, <1>5 DEF Upload

LEMMA LoadStatusIInv ==
  ASSUME IInv, NEW p \in Proc, LoadStatus(p)
  PROVE  IInv'
  <1>1. TypeOK /\ CallInv(p) /\ call[p] \in Calls /\ pc[p] \in InTry /\ StoredWhole /\ now > 0
    BY DEF IInv, TypeOK, LoadStatus, InTry
  <1>2. UNCHANGED <<now, bucket, objects, temps, file, runs>>
    BY DEF LoadStatus
  <1> DEFINE d == call[p].db
             st == Recorded(file[d].st, call[p], now)
             c == [call[p] EXCEPT !.st = st]
  <1>3. d \in Db /\ FileInv(d) /\ file[d].st \in Status /\ call[p].sec > 0 /\ now \in Nat
    BY <1>1 DEF IInv, TypeOK, Calls, Files, CallInv
  <1>4. CASE Raise(p)
    BY <1>1, <1>2, <1>4, RaiseIInv DEF TypeOK, Stored, StoredWhole
  <1>5. CASE call' = [call EXCEPT ![p].st = st] /\ Goto(p, "truncate")
    <2>1. st \in Status /\ Coherent(st)
      BY <1>1, <1>3, RecordedIsStatus, RecordedIsCoherent DEF FileInv, RecordInv
    <2>2. st.last_key > 0 => Stored(d, st.last_key)
      <3>1. CASE call[p].ok
        <4>1. st.last_key = call[p].sec
          BY <1>3, <3>1 DEF Recorded, Succeeded, Status
        <4> QED BY <1>1, <3>1, <4>1 DEF CallInv, LoadStatus
      <3>2. CASE ~call[p].ok
        <4>1. st.last_key = file[d].st.last_key
          BY <1>3, <3>2 DEF Recorded, Failed, Status
        <4> QED BY <1>3, <4>1 DEF FileInv, RecordInv
      <3> QED BY <3>1, <3>2
    <2> HIDE DEF st
    <2>3. /\ c \in Calls /\ c.st = st /\ c.db = d /\ c.ok = call[p].ok /\ c.sec = call[p].sec
      BY <1>1, <2>1, Zenon DEF Calls
    <2>4. call' = [call EXCEPT ![p] = c]
      BY <1>5
    <2> HIDE DEF c
    <2>5. "truncate" \in PCs
      BY DEF PCs, InTry
    <2>6. /\ pc' \in [Proc -> PCs] /\ pc'[p] = "truncate" /\ call' \in [Proc -> Calls] /\ call'[p] = c
          /\ \A q \in Proc \ {p} : pc'[q] = pc[q] /\ call'[q] = call[q]
      BY <1>1, <1>5, <2>3, <2>4, <2>5, GotoStep, CallStep
    <2>7. TypeOK' /\ Others(p) /\ StoredWhole'
      BY <1>1, <1>2, <2>6 DEF TypeOK, Others, Stored, StoredWhole
    <2>8. CallInv(p)'
      BY <1>1, <1>2, <1>3, <2>3, <2>6 DEF CallInv, LoadStatus, Stored
    <2>9. CarriedInv(p)'
      BY <1>2, <2>1, <2>2, <2>3, <2>6 DEF CarriedInv, RecordInv, Stored
    <2> QED BY <1>1, <1>2, <2>7, <2>8, <2>9, OthersKeep, FilesKeep DEF IInv
  <1> QED BY <1>4, <1>5 DEF LoadStatus

\* Truncate and the write that lands change the file of p's database and move on.
LEMMA FileStep ==
  ASSUME IInv, NEW p \in Proc, NEW s \in {"write", "unlink"}, NEW f \in Files,
         pc[p] \in {"truncate", "write"}, Goto(p, s),
         file' = [file EXCEPT ![call[p].db] = f],
         UNCHANGED <<now, bucket, objects, temps, runs, call>>,
         f.kind # "json" => f.st = Fresh, RecordInv(call[p].db, f.st),
         s = "write" => pc[p] = "truncate"
  PROVE  IInv'
  <1>1. TypeOK /\ CallInv(p) /\ CarriedInv(p) /\ call[p] \in Calls
    BY DEF IInv, TypeOK
  <1>2. s \in PCs
    BY DEF PCs, InTry
  <1>3. /\ pc' \in [Proc -> PCs] /\ pc'[p] = s /\ call' = call
        /\ \A q \in Proc \ {p} : pc'[q] = pc[q] /\ call'[q] = call[q]
    BY <1>1, <1>2, GotoStep
  <1>4. file' \in [Db -> Files]
    BY <1>1 DEF TypeOK
  <1>5. TypeOK' /\ Others(p) /\ StoredWhole'
    BY <1>1, <1>3, <1>4 DEF TypeOK, Others, Stored, StoredWhole, IInv
  <1>6. CallInv(p)' /\ CarriedInv(p)'
    BY <1>1, <1>3 DEF CallInv, CarriedInv, RecordInv, Stored, InTry
  <1>7. \A d \in Db : FileInv(d)'
    <2> SUFFICES ASSUME NEW d \in Db PROVE FileInv(d)'
      OBVIOUS
    <2>1. file'[d] = IF d = call[p].db THEN f ELSE file[d]
      BY <1>1 DEF TypeOK
    <2> QED BY <2>1 DEF IInv, FileInv, RecordInv, Stored
  <1> QED BY <1>5, <1>6, <1>7, OthersKeep DEF IInv

LEMMA WriteIInv ==
  ASSUME IInv, NEW p \in Proc, Truncate(p) \/ Write(p)
  PROVE  IInv'
  <1>1. /\ TypeOK /\ CallInv(p) /\ CarriedInv(p) /\ call[p] \in Calls /\ pc[p] \in InTry
        /\ StoredWhole
    BY DEF IInv, TypeOK, Truncate, Write, InTry
  <1>2. Empty \in Files /\ Garbled \in Files /\ Coherent(Fresh) /\ Fresh.last_key = 0
    BY FreshIsStatus DEF Empty, Garbled, Files
  <1>3. CASE Truncate(p)
    <2>1. RecordInv(call[p].db, Empty.st) /\ Empty.st = Fresh
      BY <1>2 DEF RecordInv, Empty
    <2>2. CASE Raise(p) /\ UNCHANGED file
      BY <1>1, <1>3, <2>2, RaiseIInv DEF Truncate, TypeOK, Stored, StoredWhole
    <2>3. CASE Goto(p, "write") /\ file' = [file EXCEPT ![call[p].db] = Empty] /\ UNCHANGED call
      BY <1>2, <1>3, <2>1, <2>3, FileStep DEF Truncate
    <2> QED BY <1>3, <2>2, <2>3 DEF Truncate
  <1>4. CASE Write(p)
    <2>1. RecordInv(call[p].db, call[p].st) /\ call[p].st \in Status
      BY <1>1, <1>4 DEF Write, CarriedInv, Calls
    <2>2. CASE Raise(p) /\ UNCHANGED file
      BY <1>1, <1>4, <2>2, RaiseIInv DEF Write, TypeOK, Stored, StoredWhole
    <2>3. ASSUME NEW f \in Landed(file[call[p].db], call[p].st), Goto(p, "unlink"), UNCHANGED call,
                 file' = [file EXCEPT ![call[p].db] = f]
          PROVE  IInv'
      <3>1. f = Json(call[p].st) \/ f = Garbled
        BY <2>3 DEF Landed
      <3>2. f \in Files /\ RecordInv(call[p].db, f.st) /\ (f.kind # "json" => f.st = Fresh)
        BY <1>2, <2>1, <3>1 DEF Json, Garbled, Files, RecordInv
      <3> QED BY <1>4, <2>3, <3>2, FileStep DEF Write
    <2> QED BY <1>4, <2>2, <2>3 DEF Write
  <1> QED BY <1>3, <1>4

LEMMA UnlinkIInv ==
  ASSUME IInv, NEW p \in Proc, Unlink(p)
  PROVE  IInv'
  <1>1. TypeOK /\ CallInv(p) /\ pc[p] \in InTry
    BY DEF IInv, Unlink, InTry
  <1> DEFINE s == IF call[p].ok THEN "returned" ELSE "raised"
  <1>2. s \in PCs /\ s \notin InTry
    BY DEF PCs, Resting, InTry
  <1>3. Goto(p, s) /\ UNCHANGED <<now, bucket, objects, file, runs, call>> /\ temps' \subseteq temps
    BY DEF Unlink
  <1>4. /\ pc' \in [Proc -> PCs] /\ pc'[p] = s /\ call' = call
        /\ \A q \in Proc \ {p} : pc'[q] = pc[q] /\ call'[q] = call[q]
    BY <1>1, <1>2, <1>3, GotoStep
  <1>5. TypeOK' /\ Others(p) /\ StoredWhole'
    BY <1>1, <1>3, <1>4 DEF TypeOK, Others, Stored, StoredWhole, IInv
  <1>6. CallInv(p)'
    BY <1>1, <1>3, <1>4 DEF CallInv, Unlink, Stored, InTry
  <1>7. CarriedInv(p)'
    BY <1>4 DEF CarriedInv
  <1> QED BY <1>3, <1>5, <1>6, <1>7, OthersKeep, FilesKeep DEF IInv

LEMMA CrashIInv ==
  ASSUME IInv, NEW p \in Proc, Crash(p) \/ Interrupt(p)
  PROVE  IInv'
  <1>1. TypeOK
    BY DEF IInv
  <1>2. call[p] \in Calls /\ call' = [call EXCEPT ![p] = call[p]]
    BY <1>1, SameCall DEF Crash, Interrupt
  <1>3. "idle" \in PCs /\ "idle" \notin InTry
    BY DEF PCs, Resting, InTry
  <1>4. /\ Goto(p, "idle") /\ UNCHANGED <<now, objects, file>>
        /\ bucket' \in BOOLEAN /\ temps' \subseteq Nat /\ runs' \in Nat
    BY <1>1 DEF Crash, Interrupt, TypeOK
  <1> QED BY <1>2, <1>3, <1>4, MoveIInv

LEMMA TickIInv ==
  ASSUME IInv, Tick \/ UNCHANGED vars
  PROVE  IInv'
  <1>1. /\ UNCHANGED <<bucket, objects, temps, file, runs, pc, call>>
        /\ now' > 0 /\ now' \in Nat
    BY DEF Tick, vars, IInv, TypeOK
  <1> QED BY <1>1 DEF IInv, TypeOK, StoredWhole, CallInv, CarriedInv, FileInv, RecordInv, Stored
-----------------------------------------------------------------------------
LEMMA NextIInv == IInv /\ [Next]_vars => IInv'
  <1> SUFFICES ASSUME IInv, [Next]_vars PROVE IInv'
    OBVIOUS
  <1>1. CASE Tick \/ UNCHANGED vars
    BY <1>1, TickIInv
  <1>2. ASSUME NEW p \in Proc, NEW d \in Db, Begin(p, d) PROVE IInv'
    BY <1>2, BeginIInv
  <1>3. ASSUME NEW p \in Proc, Crash(p) \/ Interrupt(p) PROVE IInv'
    BY <1>3, CrashIInv
  <1>4. ASSUME NEW p \in Proc, Step(p) PROVE IInv'
    BY <1>4, BucketIInv, MakeKeyIInv, DumpIInv, UploadIInv, LoadStatusIInv, WriteIInv, UnlinkIInv
       DEF Step
  <1> QED BY <1>1, <1>2, <1>3, <1>4 DEF Next

\* The strengthened invariant, from which the theorems below follow.
LEMMA Invariance == Spec => []IInv
  BY InitIInv, NextIInv, PTL DEF Spec

\* Type correctness.
THEOREM TypeCorrect == Spec => []TypeOK
  <1>1. IInv => TypeOK
    BY DEF IInv
  <1> QED BY <1>1, Invariance, PTL

\* No interleaving, crash, interrupt or ambiguous upload leaves a partial archive
\* under a backup key.
THEOREM StoredIsWhole == Spec => []StoredWhole
  <1>1. IInv => StoredWhole
    BY DEF IInv
  <1> QED BY <1>1, Invariance, PTL

\* A key that backup() returns is the key of an object.
THEOREM ReturnedKeyIsStored == Spec => []ReturnedIsStored
  <1>1. IInv => ReturnedIsStored
    BY DEF IInv, ReturnedIsStored, CallInv, Stored
  <1> QED BY <1>1, Invariance, PTL

\* Whatever the interleaving of their writers, status files tell one story each.
THEOREM StatusIsCoherent == Spec => []StatusCoherent
  <1>1. IInv => StatusCoherent
    BY DEF IInv, StatusCoherent, FileInv, RecordInv
  <1> QED BY <1>1, Invariance, PTL

\* The last key a status file announces is in the bucket.
THEOREM LastKeyIsStored == Spec => []LastKeyStored
  <1>1. IInv => LastKeyStored
    BY DEF IInv, LastKeyStored, FileInv, RecordInv, Stored
  <1> QED BY <1>1, Invariance, PTL
-----------------------------------------------------------------------------
(* What the runs leave, when one follows the other *)

Working(p) == pc[p] \notin Resting
Visible(d) == file[d].st.failure_streak > 0 \/ ~Readable(file[d])

\* Each call has a number of its own, and an archive on disk only while it is in the try block.
OwnInv(p) ==
  /\ call[p].run <= runs /\ (pc[p] # "idle" => call[p].run > 0)
  /\ \A q \in Proc : call[p].run = call[q].run /\ call[p].run > 0 => p = q
  /\ pc[p] \in {"returned", "raised", "head", "create", "key"} => call[p].run \notin temps
  /\ pc[p] \in {"head", "create", "key"} => call[p].sec = 0
  /\ call[p].sec <= now
  /\ pc[p] \in {"truncate", "write"} => call[p].st.last_success_at <= now

\* A call at work on a database that is not shared is the last to have begun there.
SoleInv(p) ==
  call[p].db \notin shared /\ Working(p) =>
    /\ newest[call[p].db] = call[p].run
    /\ \A q \in Proc \ {p} : Working(q) => call[q].db # call[p].db

\* What a call knows of a status file that no other call has been at work on.
KnownInv(p) ==
  LET f == file[call[p].db] IN
  /\ pc[p] \in {"dump", "wait", "upload", "load", "truncate"} /\ call[p].ok =>
       f.st.last_success_at <= call[p].sec
  /\ pc[p] = "truncate" =>
       /\ Readable(f)
       /\ \E t \in Nat : call[p].sec <= t /\ t <= now /\ call[p].st = Recorded(f.st, call[p], t)
  /\ pc[p] = "write" => f = Empty /\ (~call[p].ok => call[p].st.failure_streak > 0)
  /\ pc[p] = "unlink" /\ ~call[p].ok /\ p \notin untold => Visible(call[p].db)
  /\ pc[p] = "raised" /\ call[p].sec > 0 /\ Latest(p) /\ p \notin untold => Visible(call[p].db)

DateInv(d) == file[d].st.last_success_at <= now /\ newest[d] \in 0 .. runs

HInv ==
  /\ IInv /\ now <= MaxSec /\ \A t \in temps : t <= runs
  /\ \A p \in Proc : OwnInv(p) /\ SoleInv(p) /\ (call[p].db \notin shared => KnownInv(p))
  /\ \A d \in Db : DateInv(d)

\* What every step of a call at work leaves alone.
Moves(p) ==
  /\ Working(p) /\ now' = now /\ runs' = runs /\ shared \subseteq shared'
  /\ \A d \in Db : newest'[d] = newest[d]
  /\ \A q \in Proc \ {p} : pc'[q] = pc[q] /\ call'[q] = call[q]
  /\ call'[p].db = call[p].db /\ call'[p].run = call[p].run
  /\ \A d \in Db \ {call[p].db} : file'[d] = file[d]
  /\ temps' \subseteq temps \cup {call[p].run}
  /\ \A q \in Proc \ {p} : pc[q] \in {"unlink", "raised"} => (q \in untold' <=> q \in untold)

\* A call that does not move is refused nothing, and stays refused while it unwinds.
LEMMA UntoldStays ==
  ASSUME MCNext, NEW q \in Proc, pc'[q] = pc[q], pc[q] \in {"unlink", "raised"}
  PROVE  q \in untold' <=> q \in untold
  BY DEF MCNext, Refused

LEMMA UntoldStep ==
  ASSUME MCNext, NEW p \in Proc, pc'[p] \in {"unlink", "raised"}, p \in untold \/ Refused(p)
  PROVE  p \in untold'
  BY DEF MCNext

LEMMA StepMoves ==
  ASSUME IInv, NEW p \in Proc, Step(p) \/ Crash(p) \/ Interrupt(p), MCNext
  PROVE  Moves(p)
  <1>1. TypeOK /\ call[p] \in Calls /\ runs \in Nat
    BY DEF IInv, TypeOK
  <1>2. runs' = runs /\ now' = now
    BY DEF Step, HeadBucket, CreateBucket, MakeKey, Dump, WaitDump, Upload, LoadStatus, Truncate, Write,
       Unlink, Crash, Interrupt
  <1>3. \A d \in Db : newest'[d] = newest[d]
    BY <1>1, <1>2 DEF MCNext, Beginning, Begin
  <1>4. Working(p)
    BY DEF Working, Resting, InTry, Step, HeadBucket, CreateBucket, MakeKey, Dump, WaitDump, Upload,
       LoadStatus, Truncate, Write, Unlink, Crash, Interrupt
  <1>5. \A q \in Proc \ {p} : pc'[q] = pc[q] /\ call'[q] = call[q]
    BY <1>1 DEF TypeOK, Goto, Raise, Step, HeadBucket, CreateBucket, MakeKey, Dump, WaitDump, Upload,
       LoadStatus, Truncate, Write, Unlink, Crash, Interrupt
  <1>6. call'[p].db = call[p].db /\ call'[p].run = call[p].run
    <2>1. call' = call \/ \E x : call' \in {[call EXCEPT ![p].sec = x], [call EXCEPT ![p].whole = x],
                                            [call EXCEPT ![p].ok = x], [call EXCEPT ![p].st = x]}
      BY DEF Raise, Step, HeadBucket, CreateBucket, MakeKey, Dump, WaitDump, Upload, LoadStatus,
         Truncate, Write, Unlink, Crash, Interrupt
    <2> QED BY <1>1, <2>1 DEF TypeOK, Calls
  <1>7. \A d \in Db \ {call[p].db} : file'[d] = file[d]
    <2>1. file' = file \/ \E x : file' = [file EXCEPT ![call[p].db] = x]
      BY DEF Step, HeadBucket, CreateBucket, MakeKey, Dump, WaitDump, Upload, LoadStatus,
         Truncate, Write, Unlink, Crash, Interrupt
    <2> QED BY <1>1, <2>1 DEF TypeOK
  <1>8. temps' \subseteq temps \cup {call[p].run}
    BY DEF Step, HeadBucket, CreateBucket, MakeKey, Dump, WaitDump, Upload, LoadStatus,
       Truncate, Write, Unlink, Crash, Interrupt
  <1>9. shared \subseteq shared'
    BY DEF MCNext
  <1>10. \A q \in Proc \ {p} : pc[q] \in {"unlink", "raised"} => (q \in untold' <=> q \in untold)
    BY <1>5, UntoldStays
  <1> QED BY <1>2, <1>3, <1>4, <1>5, <1>6, <1>7, <1>8, <1>9, <1>10 DEF Moves

\* Such a step keeps the invariant if it keeps what is known of its own call.
LEMMA MovesHInv ==
  ASSUME HInv, IInv', NEW p \in Proc, Moves(p),
         pc'[p] \in {"returned", "raised", "head", "create", "key"} => call[p].run \notin temps',
         pc'[p] \in {"head", "create", "key"} => call'[p].sec = 0,
         call'[p].sec <= now,
         pc'[p] \in {"truncate", "write"} => call'[p].st.last_success_at <= now,
         call[p].db \notin shared => KnownInv(p)',
         file'[call[p].db].st.last_success_at <= now
  PROVE  HInv'
  <1>1. call[p].run > 0 /\ call[p].db \in Db /\ OwnInv(p) /\ SoleInv(p)
    BY DEF HInv, IInv, TypeOK, Calls, OwnInv, Moves, Working, Resting
  <1>2. \A q \in Proc : call'[q].run = call[q].run /\ call'[q].db = call[q].db
    BY DEF Moves
  <1>3. OwnInv(p)'
    BY <1>1, <1>2 DEF OwnInv, Moves
  <1>4. SoleInv(p)'
    BY <1>1, <1>2 DEF SoleInv, Moves, Working
  <1>5. ASSUME NEW q \in Proc \ {p}
        PROVE  OwnInv(q)' /\ SoleInv(q)' /\ (call'[q].db \notin shared' => KnownInv(q)')
    <2>1. OwnInv(q) /\ SoleInv(q) /\ pc'[q] = pc[q] /\ call'[q] = call[q] /\ call[q].run # call[p].run
      BY <1>1, <1>5 DEF HInv, Moves, OwnInv
    <2>2. OwnInv(q)'
      BY <1>2, <2>1 DEF OwnInv, Moves
    <2>3. SoleInv(q)'
      BY <1>2, <1>5, <2>1 DEF SoleInv, Moves, Working, HInv, IInv, TypeOK, Calls
    <2>4. ASSUME call'[q].db \notin shared' PROVE KnownInv(q)'
      <3>1. call[q].db \notin shared /\ KnownInv(q) /\ call[q].db \in Db
        BY <2>1, <2>4 DEF HInv, Moves, IInv, TypeOK, Calls
      <3>2. CASE call[q].db # call[p].db
        BY <2>1, <3>1, <3>2 DEF KnownInv, Moves, Visible, Latest
      <3>3. CASE call[q].db = call[p].db
        <4>1. ~Working(q) /\ ~Latest(q)
          BY <1>1, <1>5, <2>1, <3>1, <3>3 DEF SoleInv, Moves, Latest
        <4>2. ~Latest(q)'
          BY <2>1, <3>1, <4>1 DEF Latest, Moves
        <4> QED BY <2>1, <4>1, <4>2 DEF KnownInv, Working, Resting
      <3> QED BY <3>2, <3>3
    <2> QED BY <2>2, <2>3, <2>4
  <1>6. \A d \in Db : DateInv(d)'
    BY <1>1 DEF HInv, DateInv, Moves
  <1>7. now' <= MaxSec /\ \A t \in temps' : t <= runs'
    BY <1>1 DEF HInv, Moves, OwnInv
  <1>8. call'[p].db \notin shared' => KnownInv(p)'
    BY <1>2 DEF Moves
  <1> QED BY <1>3, <1>4, <1>5, <1>6, <1>7, <1>8 DEF HInv

\* A step after which p knows nothing of the status file yet, or no longer.
LEMMA QuietHInv ==
  ASSUME HInv, IInv', NEW p \in Proc, Moves(p), UNCHANGED file,
         pc'[p] \in {"key", "create", "raised"} => UNCHANGED <<call, temps>> /\ pc[p] \in {"head", "create", "key"},
         pc'[p] = "dump" => call'[p].sec = now,
         pc'[p] \in {"wait", "upload", "load"} /\ call'[p].ok =>
            pc[p] \in {"dump", "wait", "upload"} /\ call[p].ok,
         pc'[p] \in {"idle", "key", "create", "raised", "dump", "wait", "upload", "load"},
         call'[p].sec \in {call[p].sec, now},
         pc'[p] \in {"wait", "upload", "load"} => call'[p].sec = call[p].sec
  PROVE  HInv'
  <1>1. OwnInv(p) /\ call[p].db \in Db /\ DateInv(call[p].db) /\ now \in Nat
    BY DEF HInv, IInv, TypeOK, Calls
  <1>2. /\ pc'[p] \in {"returned", "raised", "head", "create", "key"} => call[p].run \notin temps'
        /\ pc'[p] \in {"head", "create", "key", "raised"} => call'[p].sec = 0
        /\ call'[p].sec <= now
    BY <1>1 DEF OwnInv
  <1>3. ASSUME call[p].db \notin shared PROVE KnownInv(p)'
    <2>1. KnownInv(p)
      BY <1>3 DEF HInv
    <2>2. pc'[p] \in {"dump", "wait", "upload", "load"} /\ call'[p].ok =>
            file[call[p].db].st.last_success_at <= call'[p].sec
      BY <1>1, <2>1 DEF KnownInv, DateInv
    <2> QED BY <1>2, <2>2 DEF KnownInv, Moves
  <1>4. file'[call[p].db].st.last_success_at <= now
    BY <1>1 DEF DateInv
  <1> QED BY <1>2, <1>3, <1>4, MovesHInv

\* What an exception keeps of the call.
LEMMA RaiseKeeps ==
  ASSUME TypeOK, NEW p \in Proc, Raise(p)
  PROVE  /\ pc'[p] = (IF call[p].ok THEN "load" ELSE "unlink")
         /\ ~call'[p].ok /\ call'[p].sec = call[p].sec /\ call'[p].st = call[p].st
  BY DEF TypeOK, Raise, Goto, Calls

\* From the first request to the upload, and at a death.
LEMMA EarlyHInv ==
  ASSUME HInv, IInv', NEW p \in Proc, Moves(p),
         \/ HeadBucket(p) \/ CreateBucket(p) \/ MakeKey(p) \/ Dump(p) \/ WaitDump(p) \/ Upload(p)
         \/ Crash(p) \/ Interrupt(p)
  PROVE  HInv'
  <1>1. TypeOK /\ CallInv(p) /\ call[p] \in Calls /\ UNCHANGED file
    BY DEF HInv, IInv, TypeOK, HeadBucket, CreateBucket, MakeKey, Dump, WaitDump, Upload, Crash, Interrupt
  <1>2. CASE HeadBucket(p) \/ CreateBucket(p)
    <2>1. pc'[p] \in {"key", "create", "raised"} /\ UNCHANGED <<call, temps>> /\ pc[p] \in {"head", "create"}
      BY <1>1, <1>2 DEF HeadBucket, CreateBucket, Goto, TypeOK
    <2> QED BY <1>1, <2>1, QuietHInv
  <1>3. CASE MakeKey(p)
    <2>1. CASE pc'[p] = "dump" /\ call' = [call EXCEPT ![p].sec = now]
      <3>1. call'[p].sec = now
        BY <1>1, <2>1 DEF TypeOK, Calls
      <3> QED BY <1>1, <2>1, <3>1, QuietHInv
    <2>2. CASE pc'[p] = "raised" /\ UNCHANGED <<call, temps>> /\ pc[p] = "key"
      BY <1>1, <2>2, QuietHInv
    <2> QED BY <1>1, <1>3, <2>1, <2>2 DEF MakeKey, Goto, TypeOK
  <1>4. CASE Dump(p) \/ WaitDump(p) \/ Upload(p)
    <2>1. pc[p] \in {"dump", "wait", "upload"} /\ call[p].ok
      BY <1>1, <1>4 DEF Dump, WaitDump, Upload, CallInv
    <2>2. CASE Raise(p)
      <3>1. pc'[p] = "load" /\ ~call'[p].ok /\ call'[p].sec = call[p].sec
        BY <1>1, <2>1, <2>2, RaiseKeeps
      <3> QED BY <1>1, <3>1, QuietHInv
    <2>3. CASE ~Raise(p)
      <3>1. pc'[p] \in {"wait", "upload", "load"}
        BY <1>1, <1>4, <2>3 DEF Dump, WaitDump, Upload, Goto, TypeOK
      <3>2. call'[p].sec = call[p].sec
        <4>1. call' = call \/ \E w \in BOOLEAN : call' = [call EXCEPT ![p].whole = w]
          BY <1>4, <2>3 DEF Dump, WaitDump, Upload
        <4> QED BY <1>1, <4>1 DEF TypeOK, Calls
      <3> QED BY <1>1, <2>1, <3>1, <3>2, QuietHInv
    <2> QED BY <2>2, <2>3
  <1>5. CASE Crash(p) \/ Interrupt(p)
    <2>1. pc'[p] = "idle" /\ call' = call
      BY <1>1, <1>5 DEF Crash, Interrupt, Goto, TypeOK
    <2> QED BY <1>1, <2>1, QuietHInv
  <1> QED BY <1>2, <1>3, <1>4, <1>5

\* The record that was read is brought up to date, or is no record.
LEMMA LoadHInv ==
  ASSUME HInv, IInv', NEW p \in Proc, Moves(p), LoadStatus(p), MCNext
  PROVE  HInv'
  <1> DEFINE d == call[p].db
             f == file[d]
  <1>1. /\ TypeOK /\ CallInv(p) /\ OwnInv(p) /\ DateInv(d) /\ d \in Db /\ f \in Files
        /\ call[p] \in Calls /\ now \in Nat /\ UNCHANGED file /\ pc[p] = "load"
    BY DEF HInv, IInv, TypeOK, Calls, LoadStatus
  <1>2. call'[p].sec = call[p].sec /\ (call'[p].ok => call[p].ok)
    BY <1>1 DEF LoadStatus, Raise, TypeOK, Calls
  <1>3. CASE Readable(f) /\ pc'[p] = "truncate" /\ call' = [call EXCEPT ![p].st = Recorded(f.st, call[p], now)]
    <2> DEFINE st == Recorded(f.st, call[p], now)
    <2>1. st.last_success_at <= now
      BY <1>1 DEF Recorded, Succeeded, Failed, DateInv, Files, Status
    <2>2. call'[p] = [call[p] EXCEPT !.st = st]
      BY <1>1, <1>3 DEF TypeOK
    <2>3. st = Recorded(f.st, call'[p], now)
      BY <1>1, <2>2 DEF Recorded, Succeeded, Failed, Calls
    <2>4. call'[p].st = st
      BY <1>1, <2>2 DEF Calls
    <2> HIDE DEF st
    <2>5. ASSUME d \notin shared PROVE KnownInv(p)'
      <3>1. KnownInv(p)
        BY <2>5 DEF HInv
      <3> QED BY <1>1, <1>2, <1>3, <2>3, <2>4, <3>1 DEF KnownInv, Moves, OwnInv
    <2> QED BY <1>1, <1>2, <1>3, <2>1, <2>4, <2>5, MovesHInv DEF OwnInv, DateInv
  <1>4. CASE Raise(p)
    <2>1. pc'[p] = (IF call[p].ok THEN "load" ELSE "unlink") /\ ~call'[p].ok
      BY <1>1, <1>4, RaiseKeeps
    <2>2. pc'[p] = "unlink" /\ p \notin untold' => ~Readable(f)
      BY <1>1, <2>1, UntoldStep DEF Refused
    <2>3. KnownInv(p)'
      BY <1>1, <2>1, <2>2 DEF KnownInv, Moves, Visible
    <2> QED BY <1>1, <1>2, <2>1, <2>3, MovesHInv DEF OwnInv, DateInv
  <1> QED BY <1>1, <1>3, <1>4 DEF LoadStatus, Goto, TypeOK

\* The file is empty until the record is in it.
LEMMA WriteHInv ==
  ASSUME HInv, IInv', NEW p \in Proc, Moves(p), Truncate(p) \/ Write(p), MCNext
  PROVE  HInv'
  <1> DEFINE d == call[p].db
  <1>1. /\ TypeOK /\ CallInv(p) /\ OwnInv(p) /\ DateInv(d) /\ d \in Db /\ file[d] \in Files
        /\ call[p] \in Calls /\ now \in Nat
    BY DEF HInv, IInv, TypeOK, Calls
  <1>2. /\ Empty.st.last_success_at = 0 /\ Garbled.st.last_success_at = 0
        /\ ~Readable(Empty) /\ ~Readable(Garbled)
    BY DEF Empty, Garbled, Fresh, Readable
  <1>6. CASE Truncate(p) /\ Raise(p) /\ UNCHANGED file
    <2>1. /\ pc'[p] = (IF call[p].ok THEN "load" ELSE "unlink") /\ ~call'[p].ok
          /\ call'[p].sec = call[p].sec /\ pc[p] = "truncate"
      BY <1>1, <1>6, RaiseKeeps DEF Truncate
    <2>2. ASSUME d \notin shared PROVE KnownInv(p)'
      <3>1. Readable(file[d])
        BY <2>1, <2>2 DEF HInv, KnownInv
      <3>2. pc'[p] = "unlink" => p \in untold'
        BY <2>1, <3>1, UntoldStep DEF Refused
      <3> QED BY <2>1, <3>2 DEF KnownInv
    <2> QED BY <1>1, <1>6, <2>1, <2>2, MovesHInv DEF OwnInv, DateInv
  <1>3. CASE /\ Truncate(p) /\ Goto(p, "write") /\ UNCHANGED call
             /\ file' = [file EXCEPT ![d] = Empty]
    <2>1. pc'[p] = "write" /\ call' = call /\ file'[d] = Empty /\ pc[p] = "truncate"
      BY <1>1, <1>3 DEF Truncate, Goto, TypeOK
    <2>2. ASSUME d \notin shared, ~call[p].ok PROVE call[p].st.failure_streak > 0
      <3>1. PICK t \in Nat : call[p].st = Recorded(file[d].st, call[p], t)
        BY <2>1, <2>2 DEF HInv, KnownInv
      <3> QED BY <1>1, <2>2, <3>1 DEF Recorded, Failed, Files, Status
    <2>3. d \notin shared => KnownInv(p)'
      BY <2>1, <2>2 DEF KnownInv
    <2> QED BY <1>1, <1>2, <2>1, <2>3, MovesHInv DEF OwnInv
  <1>4. CASE Write(p) /\ Raise(p) /\ UNCHANGED file
    <2>1. /\ pc'[p] \in {"load", "unlink"} /\ ~call'[p].ok /\ call'[p].sec = call[p].sec /\ pc[p] = "write"
      BY <1>1, <1>4, RaiseKeeps DEF Write
    <2>2. d \notin shared => KnownInv(p)'
      BY <1>2, <1>4, <2>1 DEF HInv, KnownInv, Moves, Visible
    <2> QED BY <1>1, <1>4, <2>1, <2>2, MovesHInv DEF OwnInv, DateInv
  <1>5. CASE /\ Write(p) /\ Goto(p, "unlink") /\ UNCHANGED call
             /\ \E f \in Landed(file[d], call[p].st) : file' = [file EXCEPT ![d] = f]
    <2>1. PICK f \in Landed(file[d], call[p].st) : file' = [file EXCEPT ![d] = f]
      BY <1>5
    <2>2. f = Json(call[p].st) \/ f = Garbled
      BY <2>1 DEF Landed
    <2>3. pc'[p] = "unlink" /\ file'[d] = f /\ pc[p] = "write"
      BY <1>1, <1>5, <2>1 DEF Write, Goto, TypeOK
    <2>4. f.st.last_success_at <= now
      BY <1>1, <1>2, <2>2, <2>3 DEF OwnInv, Json
    <2>5. ASSUME d \notin shared PROVE KnownInv(p)'
      <3>1. ~call[p].ok => f.st.failure_streak > 0 \/ ~Readable(f)
        BY <1>2, <2>2, <2>3, <2>5 DEF HInv, KnownInv, Json
      <3> QED BY <1>5, <2>3, <3>1 DEF KnownInv, Visible
    <2> QED BY <1>1, <1>5, <2>3, <2>4, <2>5, MovesHInv DEF OwnInv
  <1> QED BY <1>3, <1>4, <1>5, <1>6 DEF Truncate, Write

\* The archive goes away, whatever came before.
LEMMA UnlinkHInv ==
  ASSUME HInv, IInv', NEW p \in Proc, Moves(p), Unlink(p), MCNext
  PROVE  HInv'
  <1>1. /\ TypeOK /\ OwnInv(p) /\ DateInv(call[p].db) /\ call' = call /\ file' = file /\ pc[p] = "unlink"
        /\ temps' = temps \ {call[p].run}
    BY DEF HInv, IInv, TypeOK, Calls, Unlink
  <1>2. pc'[p] = (IF call[p].ok THEN "returned" ELSE "raised")
    BY <1>1 DEF Unlink, Goto, TypeOK
  <1>3. call[p].db \notin shared => KnownInv(p)'
    BY <1>1, <1>2, UntoldStep DEF HInv, KnownInv, Visible
  <1> QED BY <1>1, <1>2, <1>3, MovesHInv DEF OwnInv, DateInv

\* A call that begins is the newest, and shares its database with every other at work on it.
LEMMA BeginHInv ==
  ASSUME HInv, IInv', NEW p \in Proc, NEW d \in Db, Begin(p, d), MCNext
  PROVE  HInv'
  <1> DEFINE c == [db |-> d, sec |-> 0, run |-> runs + 1, whole |-> FALSE, ok |-> TRUE, st |-> Fresh]
  <1>1. /\ TypeOK /\ TypeOK' /\ runs \in Nat /\ now \in Nat /\ now > 0
    BY DEF HInv, IInv, TypeOK
  <1>2. /\ call'[p] = c /\ pc'[p] = "head" /\ ~Working(p)
        /\ \A q \in Proc \ {p} : pc'[q] = pc[q] /\ call'[q] = call[q]
    BY <1>1 DEF Begin, Goto, TypeOK, Working
  <1>3. c.db = d /\ c.sec = 0 /\ c.run = runs + 1
    OBVIOUS
  <1> HIDE DEF c
  <1>4. /\ runs' = runs + 1 /\ now' = now /\ file' = file /\ temps' = temps /\ shared' = shared \cup Sharing'
    BY DEF Begin, MCNext
  <1>5. newest'[d] = runs + 1 /\ \A e \in Db \ {d} : newest'[e] = newest[e]
    <2>1. Beginning(d)
      BY DEF Beginning
    <2>2. ASSUME NEW e \in Db \ {d}, NEW q \in Proc, Begin(q, e) PROVE FALSE
      <3>1. call'[q].db = e /\ pc'[q] = "head" /\ \A r \in Proc \ {q} : pc'[r] = pc[r]
        BY <1>1, <2>2 DEF Begin, Goto, TypeOK
      <3>2. CASE q = p
        BY <1>2, <1>3, <2>2, <3>1, <3>2
      <3>3. CASE q # p
        BY <1>2, <3>1, <3>3 DEF Working, Resting
      <3> QED BY <3>2, <3>3
    <2> QED BY <1>4, <2>1, <2>2 DEF MCNext, Beginning
  <1>6. Working(p)'
    BY <1>2 DEF Working, Resting
  <1>7. ASSUME NEW q \in Proc \ {p}, Working(q), call[q].db = d PROVE d \in shared'
    <2>1. {pc'[p], pc'[q]} \cap Resting = {} /\ call'[p].db = d /\ call'[q].db = d
      BY <1>2, <1>3, <1>6, <1>7 DEF Working
    <2> QED BY <1>4, <2>1 DEF Sharing
  <1>8. OwnInv(p)' /\ SoleInv(p)' /\ KnownInv(p)'
    <2>1. OwnInv(p)'
      BY <1>1, <1>2, <1>3, <1>4 DEF OwnInv, HInv, TypeOK, Calls
    <2>2. SoleInv(p)'
      BY <1>2, <1>3, <1>5, <1>7 DEF SoleInv, Working
    <2>3. KnownInv(p)'
      BY <1>2 DEF KnownInv
    <2> QED BY <2>1, <2>2, <2>3
  <1>9. ASSUME NEW q \in Proc \ {p}
        PROVE  OwnInv(q)' /\ SoleInv(q)' /\ (call'[q].db \notin shared' => KnownInv(q)')
    <2>1. /\ OwnInv(q) /\ SoleInv(q) /\ pc'[q] = pc[q] /\ call'[q] = call[q]
          /\ call[q] \in Calls /\ call[q].run \in Nat /\ call[q].db \in Db
          /\ pc[q] \in {"unlink", "raised"} => (q \in untold' <=> q \in untold)
      BY <1>1, <1>2, UntoldStays DEF HInv, TypeOK, Calls
    <2>2. OwnInv(q)'
      BY <1>1, <1>2, <1>3, <1>4, <2>1 DEF OwnInv
    <2>3. SoleInv(q)'
      BY <1>2, <1>3, <1>4, <1>5, <1>7, <2>1 DEF SoleInv, Working
    <2>4. ASSUME call'[q].db \notin shared' PROVE KnownInv(q)'
      <3>1. KnownInv(q)
        BY <1>4, <2>1, <2>4 DEF HInv
      <3>2. CASE call[q].db # d
        BY <1>4, <1>5, <2>1, <3>1, <3>2 DEF KnownInv, Visible, Latest
      <3>3. CASE call[q].db = d
        <4>1. ~Latest(q)'
          BY <1>1, <1>5, <2>1, <3>3 DEF Latest, OwnInv
        <4> QED BY <1>4, <2>1, <3>1, <4>1 DEF KnownInv, Visible
      <3> QED BY <3>2, <3>3
    <2> QED BY <2>2, <2>3, <2>4
  <1>10. \A e \in Db : DateInv(e)'
    <2> SUFFICES ASSUME NEW e \in Db PROVE DateInv(e)'
      OBVIOUS
    <2>1. DateInv(e)
      BY DEF HInv, DateInv
    <2> QED BY <1>1, <1>4, <1>5, <2>1 DEF DateInv
  <1>11. \A t \in temps' : t <= runs'
    BY <1>1, <1>4 DEF HInv, TypeOK
  <1> QED BY <1>4, <1>8, <1>9, <1>10, <1>11 DEF HInv

LEMMA InitHInv == MCInit => HInv
  <1> SUFFICES ASSUME MCInit PROVE HInv
    OBVIOUS
  <1>1. IInv
    BY InitIInv DEF MCInit
  <1>2. /\ \A p \in Proc : pc[p] = "idle" /\ call[p].run = 0 /\ call[p].sec = 0
        /\ \A d \in Db : file[d].st.last_success_at = 0 /\ newest[d] = 0
        /\ now = 1 /\ temps = {} /\ runs = 0
    BY DEF MCInit, Init, Absent, Fresh
  <1> QED BY <1>1, <1>2, BoundsAssumption DEF HInv, OwnInv, SoleInv, KnownInv, DateInv, Working, Resting

\* While nobody begins and nobody moves, only time passes.
LEMMA TickHInv ==
  ASSUME HInv, IInv', Tick, MCNext
  PROVE  HInv'
  <1>1. /\ UNCHANGED <<bucket, objects, temps, file, runs, pc, call>> /\ now' <= MaxSec
        /\ now' = now + 1 /\ shared \subseteq shared' /\ now \in Nat /\ runs \in Nat
    BY BoundsAssumption DEF Tick, MCNext, HInv, IInv, TypeOK
  <1>2. \A d \in Db : newest'[d] = newest[d]
    BY <1>1 DEF MCNext, Beginning, Begin
  <1>3. \A p \in Proc : call[p] \in Calls
    BY DEF HInv, IInv, TypeOK
  <1>4. ASSUME NEW p \in Proc
        PROVE  OwnInv(p)' /\ SoleInv(p)' /\ (call'[p].db \notin shared' => KnownInv(p)')
    <2>1. /\ OwnInv(p) /\ SoleInv(p) /\ call[p] \in Calls
          /\ pc[p] \in {"unlink", "raised"} => (p \in untold' <=> p \in untold)
      BY <1>1, <1>3, UntoldStays DEF HInv
    <2>2. OwnInv(p)'
      BY <1>1, <2>1 DEF OwnInv, Calls, Status
    <2>3. SoleInv(p)'
      BY <1>1, <1>2, <2>1 DEF SoleInv, Working, Calls
    <2>4. ASSUME call[p].db \notin shared' PROVE KnownInv(p)'
      <3>1. KnownInv(p)
        BY <1>1, <2>4 DEF HInv
      <3> QED BY <1>1, <1>2, <2>1, <3>1 DEF KnownInv, Visible, Latest, Calls
    <2> QED BY <1>1, <2>2, <2>3, <2>4
  <1>5. \A d \in Db : DateInv(d)'
    BY <1>1, <1>2 DEF HInv, IInv, TypeOK, DateInv, Files, Status
  <1> QED BY <1>1, <1>4, <1>5 DEF HInv

LEMMA NextHInv == HInv /\ [MCNext]_mcvars => HInv'
  <1> SUFFICES ASSUME HInv, [MCNext]_mcvars PROVE HInv'
    OBVIOUS
  <1>1. CASE UNCHANGED mcvars
    BY <1>1 DEF mcvars, vars, HInv, IInv, TypeOK, StoredWhole, CallInv, CarriedInv, FileInv, RecordInv, Stored,
       OwnInv, SoleInv, KnownInv, DateInv, Working, Visible, Latest
  <1>2. CASE MCNext
    <2>1. IInv'
      BY <1>2, NextIInv DEF HInv, MCNext
    <2>2. CASE Tick
      BY <1>2, <2>1, <2>2, TickHInv
    <2>3. ASSUME NEW p \in Proc, NEW d \in Db, Begin(p, d) PROVE HInv'
      BY <1>2, <2>1, <2>3, BeginHInv
    <2>4. ASSUME NEW p \in Proc, Step(p) \/ Crash(p) \/ Interrupt(p) PROVE HInv'
      <3>1. Moves(p)
        BY <1>2, <2>4, StepMoves DEF HInv
      <3> QED BY <1>2, <2>1, <2>4, <3>1, EarlyHInv, LoadHInv, WriteHInv, UnlinkHInv DEF Step
    <2> QED BY <1>2, <2>2, <2>3, <2>4 DEF MCNext, Next
  <1> QED BY <1>1, <1>2

\* A run that ended has left no archive on disk, and if it raised from its try block and was
\* the last on a database that no two have shared, its failure shows in the status file, or
\* record_failure was refused a file that was good.
THEOREM EndsAreVisible == MCSpec => []EndsVisibly
  <1>1. HInv => EndsVisibly
    <2> SUFFICES ASSUME HInv PROVE EndsVisibly
      OBVIOUS
    <2>1. NoTempLeft
      BY DEF HInv, OwnInv, NoTempLeft
    <2>2. FailureVisible
      BY DEF HInv, KnownInv, Visible, FailureVisible
    <2> QED BY <2>1, <2>2 DEF EndsVisibly
  <1> QED BY <1>1, InitHInv, NextHInv, PTL DEF MCSpec
-----------------------------------------------------------------------------
(* The status files implement the ledger *)

\* The call whose record is being written, if there is one, is the only one.
LEMMA OneWrites ==
  ASSUME HInv, NEW p \in Proc, pc[p] = "write", call[p].db \notin shared
  PROVE  History(call[p].db) = Entry(FALSE, call[p].st)
  <1>1. Writing(call[p].db) = {p}
    BY DEF HInv, SoleInv, Working, Resting, Writing
  <1> QED BY <1>1 DEF History

\* A call at work on a database that two do not share, and is not writing: nobody is.
LEMMA NoneWrites ==
  ASSUME HInv, NEW p \in Proc, Working(p), pc[p] # "write", call[p].db \notin shared
  PROVE  History(call[p].db) = Entry(~Readable(file[call[p].db]), file[call[p].db].st)
  <1>1. Writing(call[p].db) = {}
    BY DEF HInv, SoleInv, Working, Resting, Writing
  <1> QED BY <1>1 DEF History

\* A step of a call at work shares no more databases, and tells nothing of the others.
LEMMA OthersTold ==
  ASSUME HInv, NEW p \in Proc, Moves(p), MCNext
  PROVE  shared' = shared /\ \A d \in Db \ {call[p].db} : Told'[d] = Told[d]
  <1>1. \A q \in Proc : call'[q].db = call[q].db /\ (Working(q)' => Working(q))
    BY DEF Moves, Working
  <1>2. shared' = shared
    <2>1. ASSUME NEW d \in Sharing' PROVE d \in shared
      <3>1. PICK q, r \in Proc : q # r /\ Working(q)' /\ Working(r)' /\ call'[q].db = d /\ call'[r].db = d
        BY <2>1 DEF Sharing, Working
      <3> QED BY <1>1, <3>1 DEF HInv, SoleInv
    <2> QED BY <2>1 DEF MCNext
  <1>3. ASSUME NEW d \in Db \ {call[p].db} PROVE History(d)' = History(d)
    <2>1. Writing(d)' = Writing(d)
      BY <1>1, <1>3 DEF Writing, Moves
    <2>2. file'[d] = file[d] /\ \A q \in Writing(d) : call'[q] = call[q]
      BY <1>3 DEF Writing, Moves
    <2>3. CASE Writing(d) = {}
      BY <2>1, <2>2, <2>3 DEF History
    <2>4. CASE Writing(d) # {}
      <3> DEFINE q == CHOOSE q \in Writing(d) : TRUE
      <3>1. q \in Writing(d)
        BY <2>4
      <3>2. History(d) = Entry(FALSE, call[q].st) /\ History(d)' = Entry(FALSE, call'[q].st)
        BY <2>1, <2>4 DEF History
      <3> HIDE DEF q
      <3> QED BY <2>2, <3>1, <3>2
    <2> QED BY <2>3, <2>4
  <1> QED BY <1>2, <1>3 DEF Told

\* What is told of a database that one call is at work on, before its step and after.
LEMMA OwnTold ==
  ASSUME HInv, NEW p \in Proc, Moves(p), NEW d \in Db, d = call[p].db, d \notin shared
  PROVE  /\ History(d) = IF pc[p] = "write" THEN Entry(FALSE, call[p].st)
                         ELSE Entry(~Readable(file[d]), file[d].st)
         /\ History(d)' = IF pc'[p] = "write" THEN Entry(FALSE, call'[p].st)
                          ELSE Entry(~Readable(file'[d]), file'[d].st)
  <1>1. \A q \in Proc \ {p} : Working(q) => call[q].db # d
    BY DEF HInv, SoleInv, Moves
  <1>2. call'[p].db = d /\ \A q \in Proc \ {p} : pc'[q] = pc[q] /\ call'[q] = call[q]
    BY DEF Moves
  <1>3. /\ pc[p] = "write" => Writing(d) = {p}
        /\ pc[p] # "write" => Writing(d) = {}
        /\ pc'[p] = "write" => Writing(d)' = {p}
        /\ pc'[p] # "write" => Writing(d)' = {}
    BY <1>1, <1>2 DEF Writing, Working, Resting
  <1>4. History(d) = IF pc[p] = "write" THEN Entry(FALSE, call[p].st) ELSE Entry(~Readable(file[d]), file[d].st)
    BY OneWrites, <1>3 DEF History
  <1>5. History(d)' = IF pc'[p] = "write" THEN Entry(FALSE, call'[p].st)
                      ELSE Entry(~Readable(file'[d]), file'[d].st)
    <2>1. CASE pc'[p] = "write"
      <3>1. Writing(d)' = {p}
        BY <1>3, <2>1
      <3>2. (CHOOSE q \in {p} : TRUE) = p
        OBVIOUS
      <3>3. History(d)' = Entry(FALSE, call'[p].st)
        BY <3>1, <3>2 DEF History
      <3> QED BY <2>1, <3>3
    <2>2. CASE pc'[p] # "write"
      BY <1>3, <2>2 DEF History
    <2> QED BY <2>1, <2>2
  <1> QED BY <1>4, <1>5

\* Entries of the ledger are equal when their fields are.
EntryFields == {"lost", "success_streak", "failure_streak", "last_key", "last_success_at"}

LEMMA SameEntry ==
  ASSUME NEW M, NEW N, M = [x \in EntryFields |-> M[x]], N = [x \in EntryFields |-> N[x]],
         M.lost = N.lost, M.success_streak = N.success_streak, M.failure_streak = N.failure_streak,
         M.last_key = N.last_key, M.last_success_at = N.last_success_at
  PROVE  M = N
  <1>1. \A x \in EntryFields : M[x] = N[x]
    BY DEF EntryFields
  <1> HIDE DEF EntryFields
  <1> QED BY <1>1

\* The entries of the ledger: one for a record brought up to date.
LEMMA EntrySteps ==
  ASSUME NEW d \in Db, NEW st \in Status, NEW c \in Calls, NEW t \in Nat, c.sec <= t, t <= MaxSec,
         c.ok => st.last_success_at <= c.sec,
         Told[d] = Entry(FALSE, st), Told' = [Told EXCEPT ![d] = Entry(FALSE, Recorded(st, c, t))]
  PROVE  Alone!Success(d) \/ Alone!Failure(d)
  <1>1. Told = [e \in Db |-> Told[e]]
    BY DEF Told
  <1>2. PICK L : L = Told
    OBVIOUS
  <1>3. PICK r : r = L[d]
    OBVIOUS
  <1>4. /\ r = [x \in EntryFields |-> r[x]] /\ r.lost = FALSE /\ r.success_streak = st.success_streak
        /\ r.failure_streak = st.failure_streak /\ r.last_key = st.last_key
        /\ r.last_success_at = st.last_success_at
    BY <1>2, <1>3 DEF Entry, EntryFields
  <1>5. CASE c.ok
    <2>1. Entry(FALSE, Recorded(st, c, t)) =
            [lost |-> FALSE, success_streak |-> st.success_streak + 1, failure_streak |-> 0,
             last_key |-> c.sec, last_success_at |-> t]
      BY <1>5 DEF Recorded, Succeeded, Entry, Status
    <2>2. [r EXCEPT !.success_streak = r.success_streak + 1, !.failure_streak = 0, !.last_key = c.sec,
                    !.last_success_at = t] = Entry(FALSE, Recorded(st, c, t))
      <3> DEFINE M == [r EXCEPT !.success_streak = r.success_streak + 1, !.failure_streak = 0, !.last_key = c.sec,
                                !.last_success_at = t]
                 N == [lost |-> FALSE, success_streak |-> st.success_streak + 1, failure_streak |-> 0,
                       last_key |-> c.sec, last_success_at |-> t]
      <3>1. M = [x \in EntryFields |-> M[x]] /\ N = [x \in EntryFields |-> N[x]]
        BY <1>4 DEF EntryFields
      <3>2. /\ M.lost = N.lost /\ M.success_streak = N.success_streak /\ M.failure_streak = N.failure_streak
            /\ M.last_key = N.last_key /\ M.last_success_at = N.last_success_at
        BY <1>4 DEF EntryFields
      <3> HIDE DEF M, N
      <3>3. M = N
        BY <3>1, <3>2, SameEntry
      <3> QED BY <2>1, <3>3 DEF M, N
    <2>3. [L EXCEPT ![d].success_streak = @ + 1, ![d].failure_streak = 0, ![d].last_key = c.sec,
                    ![d].last_success_at = t] =
            [L EXCEPT ![d] = [r EXCEPT !.success_streak = r.success_streak + 1, !.failure_streak = 0,
                                       !.last_key = c.sec, !.last_success_at = t]]
      BY <1>1, <1>2, <1>3
    <2>4. c.sec \in 0 .. MaxSec /\ t \in 0 .. MaxSec
      BY BoundsAssumption DEF Calls
    <2>5. PICK key \in 0 .. MaxSec, at \in 0 .. MaxSec : key = c.sec /\ at = t
      BY <2>4
    <2>6. Told[d].last_success_at <= key /\ key <= at /\ ~Told[d].lost
      BY <1>2, <1>3, <1>4, <1>5, <2>5
    <2>7. Told' = [Told EXCEPT ![d].success_streak = @ + 1, ![d].failure_streak = 0, ![d].last_key = key,
                               ![d].last_success_at = at]
      BY <1>2, <2>2, <2>3, <2>5
    <2> QED BY <2>6, <2>7 DEF Alone!Success
  <1>6. CASE ~c.ok
    <2>1. Entry(FALSE, Recorded(st, c, t)) =
            [lost |-> FALSE, success_streak |-> 0, failure_streak |-> st.failure_streak + 1,
             last_key |-> st.last_key, last_success_at |-> st.last_success_at]
      BY <1>6 DEF Recorded, Failed, Entry, Status
    <2>2. [r EXCEPT !.success_streak = 0, !.failure_streak = r.failure_streak + 1] =
            Entry(FALSE, Recorded(st, c, t))
      <3> DEFINE M == [r EXCEPT !.success_streak = 0, !.failure_streak = r.failure_streak + 1]
                 N == [lost |-> FALSE, success_streak |-> 0, failure_streak |-> st.failure_streak + 1,
                       last_key |-> st.last_key, last_success_at |-> st.last_success_at]
      <3>1. M = [x \in EntryFields |-> M[x]] /\ N = [x \in EntryFields |-> N[x]]
        BY <1>4 DEF EntryFields
      <3>2. /\ M.lost = N.lost /\ M.success_streak = N.success_streak /\ M.failure_streak = N.failure_streak
            /\ M.last_key = N.last_key /\ M.last_success_at = N.last_success_at
        BY <1>4 DEF EntryFields
      <3> HIDE DEF M, N
      <3>3. M = N
        BY <3>1, <3>2, SameEntry
      <3> QED BY <2>1, <3>3 DEF M, N
    <2>3. [L EXCEPT ![d].success_streak = 0, ![d].failure_streak = @ + 1] =
            [L EXCEPT ![d] = [r EXCEPT !.success_streak = 0, !.failure_streak = r.failure_streak + 1]]
      BY <1>1, <1>2, <1>3
    <2> QED BY <1>2, <1>3, <1>4, <2>2, <2>3 DEF Alone!Failure
  <1> QED BY <1>5, <1>6

\* One entry of the ledger stands, or is lost.
LEMMA LoseStep ==
  ASSUME NEW d \in Db, ~Told[d].lost, Told' = [Told EXCEPT ![d] = Entry(TRUE, Fresh)]
  PROVE  Alone!Lose(d)
  <1>1. Entry(TRUE, Fresh) = [Alone!Blank EXCEPT !.lost = TRUE]
    <2> DEFINE M == [Alone!Blank EXCEPT !.lost = TRUE]
               N == Entry(TRUE, Fresh)
    <2>1. M = [x \in EntryFields |-> M[x]] /\ N = [x \in EntryFields |-> N[x]]
      BY DEF EntryFields, Entry, Alone!Blank
    <2>2. /\ M.lost = N.lost /\ M.success_streak = N.success_streak /\ M.failure_streak = N.failure_streak
          /\ M.last_key = N.last_key /\ M.last_success_at = N.last_success_at
      BY DEF EntryFields, Entry, Alone!Blank, Fresh
    <2> HIDE DEF M, N
    <2>3. M = N
      BY <2>1, <2>2, SameEntry
    <2> QED BY <2>3 DEF M, N
  <1> QED BY <1>1 DEF Alone!Lose

\* A step of a call is an entry of the ledger, or none.
LEMMA MovesTold ==
  ASSUME HInv, NEW p \in Proc, Moves(p), MCNext, Step(p) \/ Crash(p) \/ Interrupt(p)
  PROVE  [Alone!Next]_Told
  <1>1. PICK d \in Db : d = call[p].db
    BY DEF HInv, IInv, TypeOK, Calls
  <1>2. /\ TypeOK /\ call[p] \in Calls /\ file[d] \in Files /\ FileInv(d) /\ now \in Nat /\ now <= MaxSec
        /\ call[p].st \in Status
    BY DEF HInv, IInv, TypeOK, Calls
  <1>3. shared' = shared /\ \A e \in Db \ {d} : Told'[e] = Told[e]
    BY <1>1, OthersTold
  <1>4. Told = [e \in Db |-> Told[e]] /\ Told' = [e \in Db |-> Told'[e]]
    BY DEF Told
  <1>5. ASSUME NEW x, Told'[d] = x PROVE Told' = [Told EXCEPT ![d] = x]
    <2>1. PICK L, M : L = Told /\ M = Told'
      OBVIOUS
    <2> QED BY <1>3, <1>4, <1>5, <2>1
  <1>6. CASE Told'[d] = Told[d]
    <2>1. Told' = Told
      BY <1>3, <1>4, <1>6
    <2> QED BY <2>1
  <1>7. CASE d \in shared
    BY <1>3, <1>6, <1>7 DEF Told
  <1>8. CASE d \notin shared
    <2>1. /\ Told[d] = IF pc[p] = "write" THEN Entry(FALSE, call[p].st) ELSE Entry(~Readable(file[d]), file[d].st)
          /\ Told'[d] = IF pc'[p] = "write" THEN Entry(FALSE, call'[p].st)
                        ELSE Entry(~Readable(file'[d]), file'[d].st)
      BY <1>1, <1>3, <1>8, OwnTold DEF Told
    <2>2. KnownInv(p)
      BY <1>1, <1>8 DEF HInv
    <2>3. CASE Truncate(p) /\ pc'[p] = "write"
      <3>1. pc[p] = "truncate" /\ pc'[p] = "write" /\ call' = call
        BY <1>2, <2>3, RaiseKeeps DEF Truncate
      <3>2. PICK t \in Nat : call[p].sec <= t /\ t <= now /\ call[p].st = Recorded(file[d].st, call[p], t)
        BY <1>1, <2>2, <3>1 DEF KnownInv
      <3>3. Told[d] = Entry(FALSE, file[d].st) /\ Told'[d] = Entry(FALSE, Recorded(file[d].st, call[p], t))
        BY <1>1, <2>1, <2>2, <3>1, <3>2 DEF KnownInv
      <3>4. Told' = [Told EXCEPT ![d] = Entry(FALSE, Recorded(file[d].st, call[p], t))]
        BY <1>5, <3>3
      <3>5. call[p].ok => file[d].st.last_success_at <= call[p].sec
        BY <1>1, <2>2, <3>1 DEF KnownInv
      <3>6. PICK c \in Calls, st \in Status : c = call[p] /\ st = file[d].st
        BY <1>2 DEF Files
      <3>7. Alone!Success(d) \/ Alone!Failure(d)
        <4>1. /\ Told[d] = Entry(FALSE, st) /\ Told' = [Told EXCEPT ![d] = Entry(FALSE, Recorded(st, c, t))]
              /\ c.ok => st.last_success_at <= c.sec
              /\ c.sec <= t /\ t <= MaxSec
          BY <1>2, <3>2, <3>3, <3>4, <3>5, <3>6, BoundsAssumption
        <4> QED BY <4>1, EntrySteps
      <3> QED BY <3>7 DEF Alone!Next
    <2>4. CASE pc[p] = "write"
      <3>1. file[d] = Empty /\ ~Readable(Empty) /\ Empty.st = Fresh /\ ~Told[d].lost
        BY <1>1, <2>1, <2>2, <2>4 DEF KnownInv, Readable, Empty, Entry
      <3>2. CASE file' = file
        <4>1. pc'[p] # "write"
          BY <1>2, <2>4, <3>2, RaiseKeeps DEF Step, HeadBucket, CreateBucket, MakeKey, Dump, WaitDump, Upload,
             LoadStatus, Truncate, Write, Unlink, Crash, Interrupt, Goto, TypeOK
        <4>2. Told'[d] = Entry(TRUE, Fresh)
          BY <2>1, <3>1, <3>2, <4>1
        <4>3. Alone!Lose(d)
          BY <1>5, <3>1, <4>2, LoseStep
        <4> QED BY <4>3 DEF Alone!Next
      <3>3. CASE file' # file
        <4>1. Write(p) /\ Goto(p, "unlink") /\ \E f \in Landed(file[d], call[p].st) : file' = [file EXCEPT ![d] = f]
          BY <1>1, <2>4, <3>3 DEF Step, HeadBucket, CreateBucket, MakeKey, Dump, WaitDump, Upload,
             LoadStatus, Truncate, Write, Unlink, Crash, Interrupt
        <4>2. file' = [file EXCEPT ![d] = Json(call[p].st)]
          BY <3>1, <4>1 DEF Landed, Empty
        <4>3. file'[d] = Json(call[p].st) /\ pc'[p] = "unlink"
          BY <1>2, <4>1, <4>2 DEF TypeOK, Goto
        <4>4. Told'[d] = Entry(FALSE, call[p].st)
          <5>1. Readable(file'[d]) /\ file'[d].st = call[p].st
            BY <4>3 DEF Json, Readable
          <5>2. Told'[d] = Entry(~Readable(file'[d]), file'[d].st)
            BY <2>1, <4>3
          <5> QED BY <5>1, <5>2
        <4> QED BY <1>6, <2>1, <2>4, <4>4
      <3> QED BY <3>2, <3>3
    <2>5. CASE ~(Truncate(p) /\ pc'[p] = "write") /\ pc[p] # "write"
      <3>1. file' = file /\ pc'[p] # "write"
        BY <1>2, <2>5, RaiseKeeps DEF Step, HeadBucket, CreateBucket, MakeKey, Dump, WaitDump, Upload,
           LoadStatus, Truncate, Write, Unlink, Crash, Interrupt, Goto, TypeOK
      <3> QED BY <1>6, <2>1, <2>5, <3>1
    <2> QED BY <2>3, <2>4, <2>5
  <1> QED BY <1>7, <1>8

\* A call that begins where another is at work ends what is told of the database.
LEMMA BeginTold ==
  ASSUME HInv, NEW p \in Proc, NEW d \in Db, Begin(p, d), MCNext
  PROVE  [Alone!Next]_Told
  <1>1. /\ TypeOK /\ file' = file /\ shared' = shared \cup Sharing' /\ FileInv(d)
        /\ pc[p] \in Resting /\ pc'[p] = "head" /\ call'[p].db = d
        /\ \A q \in Proc \ {p} : pc'[q] = pc[q] /\ call'[q] = call[q]
    BY DEF Begin, Goto, MCNext, HInv, IInv, TypeOK
  <1>2. ASSUME NEW e \in Db \ {d} PROVE e \in shared' <=> e \in shared
    <2>1. ASSUME e \in Sharing' PROVE e \in shared
      <3>1. PICK q, r \in Proc : q # r /\ Working(q)' /\ Working(r)' /\ call'[q].db = e /\ call'[r].db = e
        BY <2>1 DEF Sharing, Working
      <3>2. q # p /\ r # p
        BY <1>1, <1>2, <3>1
      <3>3. Working(q) /\ Working(r) /\ call[q].db = e /\ call[r].db = e
        BY <1>1, <3>1, <3>2 DEF Working
      <3> QED BY <3>1, <3>3 DEF HInv, SoleInv
    <2> QED BY <1>1, <2>1
  <1>3. ASSUME NEW e \in Db PROVE History(e)' = History(e)
    <2>1. Writing(e)' = Writing(e) /\ p \notin Writing(e)
      BY <1>1 DEF Writing, Resting
    <2>2. \A q \in Writing(e) : call'[q] = call[q]
      BY <1>1, <2>1 DEF Writing
    <2>3. CASE Writing(e) = {}
      BY <1>1, <2>1, <2>3 DEF History
    <2>4. CASE Writing(e) # {}
      <3> DEFINE q == CHOOSE q \in Writing(e) : TRUE
      <3>1. q \in Writing(e)
        BY <2>4
      <3>2. History(e) = Entry(FALSE, call[q].st) /\ History(e)' = Entry(FALSE, call'[q].st)
        BY <2>1, <2>4 DEF History
      <3> HIDE DEF q
      <3> QED BY <2>2, <3>1, <3>2
    <2> QED BY <2>3, <2>4
  <1>4. \A e \in Db \ {d} : Told'[e] = Told[e]
    BY <1>2, <1>3 DEF Told
  <1>5. Told = [e \in Db |-> Told[e]] /\ Told' = [e \in Db |-> Told'[e]]
    BY DEF Told
  <1>6. CASE Told'[d] = Told[d]
    <2>1. Told' = Told
      BY <1>4, <1>5, <1>6
    <2> QED BY <2>1
  <1>7. CASE Told'[d] # Told[d]
    <2>1. d \notin shared /\ Told[d] = History(d) /\ Told'[d] = Entry(TRUE, Fresh)
      BY <1>1, <1>3, <1>7 DEF Told
    <2>2. ~Told[d].lost
      <3>1. ASSUME Told[d].lost PROVE FALSE
        <4>1. Told[d] = Entry(~Readable(file[d]), file[d].st) /\ ~Readable(file[d])
          <5>1. Writing(d) = {}
            BY <2>1, <3>1 DEF History, Entry
          <5>2. Told[d] = Entry(~Readable(file[d]), file[d].st)
            BY <2>1, <5>1 DEF History
          <5>3. CASE Readable(file[d])
            <6>1. Told[d] = Entry(FALSE, file[d].st)
              BY <5>2, <5>3
            <6>2. Told[d].lost = FALSE
              BY <6>1 DEF Entry
            <6> QED BY <3>1, <6>2
          <5> QED BY <5>2, <5>3
        <4>2. file[d].st = Fresh
          BY <1>1, <4>1 DEF FileInv, Readable
        <4> QED BY <1>7, <2>1, <4>1, <4>2
      <3> QED BY <3>1
    <2>3. Told' = [Told EXCEPT ![d] = Entry(TRUE, Fresh)]
      <3>1. PICK L, M : L = Told /\ M = Told'
        OBVIOUS
      <3> QED BY <1>4, <1>5, <2>1, <3>1
    <2> QED BY <2>2, <2>3, LoseStep DEF Alone!Next
  <1> QED BY <1>6, <1>7

\* Through crashes, full disks and torn files, as long as runs follow one another, the status
\* files are the ledger: three steps on disk are one entry or none, none is doubled or dated
\* before the one it follows.
THEOREM StatusIsLedger == MCSpec => LedgerSpec
  <1>1. MCInit => Alone!Init
    <2> SUFFICES ASSUME MCInit PROVE Told = [d \in Db |-> Alone!Blank]
      BY DEF Alone!Init
    <2>1. ASSUME NEW d \in Db PROVE Told[d] = Alone!Blank
      <3>1. Writing(d) = {} /\ d \notin shared /\ Readable(file[d]) /\ file[d].st = Fresh
        BY DEF MCInit, Init, Writing, Readable, Absent
      <3>2. Told[d] = Entry(~Readable(file[d]), Fresh)
        BY <3>1 DEF Told, History
      <3> QED BY <3>1, <3>2 DEF Entry, Fresh, Alone!Blank
    <2> QED BY <2>1 DEF Told
  <1>2. HInv /\ [MCNext]_mcvars => [Alone!Next]_Told
    <2> SUFFICES ASSUME HInv, [MCNext]_mcvars PROVE [Alone!Next]_Told
      OBVIOUS
    <2>1. CASE UNCHANGED mcvars
      BY <2>1 DEF mcvars, vars, Told, History, Writing, Readable, Entry
    <2>2. CASE MCNext /\ Tick
      <3>1. shared' = shared
        BY <2>2 DEF MCNext, Tick, Sharing, HInv, SoleInv, Working
      <3> QED BY <2>2, <3>1 DEF Tick, Told, History, Writing, Readable, Entry
    <2>3. ASSUME MCNext, NEW p \in Proc, NEW d \in Db, Begin(p, d) PROVE [Alone!Next]_Told
      BY <2>3, BeginTold
    <2>4. ASSUME MCNext, NEW p \in Proc, Step(p) \/ Crash(p) \/ Interrupt(p) PROVE [Alone!Next]_Told
      BY <2>4, StepMoves, MovesTold DEF HInv
    <2> QED BY <2>1, <2>2, <2>3, <2>4 DEF MCNext, Next
  <1> QED BY <1>1, <1>2, InitHInv, NextHInv, PTL DEF MCSpec, LedgerSpec, Alone!Spec
=============================================================================
