--------------------------- MODULE RegistryProofs ---------------------------
(***************************************************************************)
(* Proofs about db-toolchain.toml: for any commands of any number of       *)
(* processes (Registry), for one command at a time what add and remove     *)
(* promise (AtomicRegistry, and the properties of MCRegistry), and what a  *)
(* long-lived process loads while the file is edited (Config).             *)
(***************************************************************************)
EXTENDS MCConfig, NaturalLemmas

-----------------------------------------------------------------------------
(* Lists *)

\* One step of the recursion in Without.
Kept(rest, ds, d, n) ==
  IF n = 0 THEN <<>> ELSE IF ds[n] = d THEN rest[n - 1] ELSE Append(rest[n - 1], ds[n])

\* The recursion in Without defines a function.
LEMMA KeptExists ==
  ASSUME NEW ds, NEW d, NEW len \in Nat
  PROVE  \E rest : rest = [n \in 0 .. len |-> Kept(rest, ds, d, n)]
  <1> DEFINE Bad == {m \in Nat : ~ \E rest : rest = [n \in 0 .. m |-> Kept(rest, ds, d, n)]}
  <1>1. SUFFICES ASSUME Bad # {} PROVE FALSE
    OBVIOUS
  <1>2. PICK m \in Bad : \A k \in Bad : m <= k
    <2> HIDE DEF Bad
    <2>1. Bad \in SUBSET Nat
      BY DEF Bad
    <2> QED BY <1>1, <2>1, SmallestExists
  <1>3. CASE m = 0
    <2>1. [n \in 0 .. 0 |-> <<>>] = [n \in 0 .. 0 |-> Kept([i \in 0 .. 0 |-> <<>>], ds, d, n)]
      BY DEF Kept
    <2> QED BY <1>2, <1>3, <2>1
  <1>4. CASE m # 0
    <2>1. m - 1 \in Nat /\ m - 1 \notin Bad
      BY <1>2, <1>4
    <2>2. PICK f : f = [n \in 0 .. m - 1 |-> Kept(f, ds, d, n)]
      BY <2>1
    <2> DEFINE g == [n \in 0 .. m |-> IF n = m THEN Kept(f, ds, d, m) ELSE f[n]]
    <2>3. ASSUME NEW n \in 0 .. m PROVE g[n] = Kept(g, ds, d, n)
      <3>1. n # 0 => n - 1 \in 0 .. m - 1 /\ g[n - 1] = f[n - 1]
        OBVIOUS
      <3>2. n # m => f[n] = Kept(f, ds, d, n)
        BY <2>2
      <3>3. g[n] = Kept(f, ds, d, n)
        BY <3>2
      <3> HIDE DEF g
      <3> QED BY <3>1, <3>3 DEF Kept
    <2>4. g = [n \in 0 .. m |-> Kept(g, ds, d, n)]
      BY <2>3
    <2> QED BY <1>2, <2>4
  <1> QED BY <1>3, <1>4

\* Without is the last value of that function.
LEMMA WithoutIsKept ==
  ASSUME NEW S, NEW ds \in Seq(S), NEW d
  PROVE  \E rest : /\ \A n \in 0 .. Len(ds) : rest[n] = Kept(rest, ds, d, n)
                   /\ Without(ds, d) = rest[Len(ds)]
  <1> DEFINE IsRest(f) == f = [n \in 0 .. Len(ds) |-> Kept(f, ds, d, n)]
             rest == CHOOSE f : IsRest(f)
  <1>1. Without(ds, d) = rest[Len(ds)]
    BY DEF Without, Kept
  <1>2. \E f : IsRest(f)
    <2> HIDE DEF rest
    <2>1. PICK len \in Nat : len = Len(ds)
      OBVIOUS
    <2>2. PICK f : f = [n \in 0 .. len |-> Kept(f, ds, d, n)]
      BY KeptExists
    <2>3. IsRest(f)
      BY <2>1, <2>2
    <2> QED BY <2>3
  <1>3. IsRest(rest)
    <2> HIDE DEF IsRest
    <2> QED BY <1>2
  <1> HIDE DEF rest
  <1> QED BY <1>1, <1>3

\* Without an id that is listed once the later entries move up, and without one that is
\* not listed the list is as it was.
LEMMA WithoutIsRest ==
  ASSUME NEW S, NEW ds \in Seq(S), NEW d, Distinct(ds)
  PROVE  /\ \A i \in DOMAIN ds : ds[i] = d =>
              Without(ds, d) = [j \in 1 .. Len(ds) - 1 |-> ds[IF j < i THEN j ELSE j + 1]]
         /\ d \notin Ids(ds) => Without(ds, d) = ds
  <1>1. PICK rest : /\ \A n \in 0 .. Len(ds) : rest[n] = Kept(rest, ds, d, n)
                    /\ Without(ds, d) = rest[Len(ds)]
    BY WithoutIsKept
  <1>2. ASSUME NEW i \in 1 .. Len(ds) + 1, \A n \in 1 .. Len(ds) : ds[n] = d <=> n = i
        PROVE  \A n \in 0 .. Len(ds) :
                 rest[n] = [j \in 1 .. (IF n < i THEN n ELSE n - 1) |-> ds[IF j < i THEN j ELSE j + 1]]
    <2> DEFINE Sub(n) == [j \in 1 .. (IF n < i THEN n ELSE n - 1) |-> ds[IF j < i THEN j ELSE j + 1]]
               Bad == {n \in Nat : n <= Len(ds) /\ rest[n] # Sub(n)}
    <2>1. SUFFICES ASSUME Bad # {} PROVE FALSE
      <3>1. Bad = {} => \A n \in 0 .. Len(ds) : rest[n] = Sub(n)
        <4> HIDE DEF Sub
        <4> QED OBVIOUS
      <3> QED BY <3>1
    <2>2. PICK m \in Bad : \A k \in Bad : m <= k
      <3> HIDE DEF Bad
      <3>1. Bad \in SUBSET Nat
        BY DEF Bad
      <3> QED BY <2>1, <3>1, SmallestExists
    <2>3. m # 0
      BY <1>1, <2>2 DEF Kept
    <2>4. m - 1 \in Nat /\ rest[m - 1] = Sub(m - 1) /\ m \in 1 .. Len(ds) /\ rest[m] # Sub(m)
      BY <2>2, <2>3
    <2>5. rest[m] = IF m = i THEN Sub(m - 1) ELSE Append(Sub(m - 1), ds[m])
      BY <1>1, <1>2, <2>4 DEF Kept
    <2>6. CASE m = i
      <3>1. Sub(m - 1) = Sub(m)
        BY <2>4, <2>6
      <3> QED BY <2>4, <2>5, <2>6, <3>1
    <2>7. CASE m # i
      <3>1. Sub(m - 1) \in Seq(S) /\ ds[m] \in S /\ Len(Sub(m - 1)) = IF m < i THEN m - 1 ELSE m - 2
        BY <2>4, <2>7
      <3>2. Append(Sub(m - 1), ds[m]) = Sub(m)
        BY <2>4, <2>7, <3>1
      <3> QED BY <2>4, <2>5, <2>7, <3>2
    <2> QED BY <2>6, <2>7
  <1>3. ASSUME NEW i \in DOMAIN ds, ds[i] = d
        PROVE  Without(ds, d) = [j \in 1 .. Len(ds) - 1 |-> ds[IF j < i THEN j ELSE j + 1]]
    <2>1. i \in 1 .. Len(ds) /\ \A n \in 1 .. Len(ds) : ds[n] = d <=> n = i
      BY <1>3 DEF Distinct
    <2>2. rest[Len(ds)] = [j \in 1 .. (IF Len(ds) < i THEN Len(ds) ELSE Len(ds) - 1) |-> ds[IF j < i THEN j ELSE j + 1]]
      <3>1. i \in 1 .. Len(ds) + 1 /\ Len(ds) \in 0 .. Len(ds)
        BY <2>1
      <3> QED BY <1>2, <2>1, <3>1
    <2> QED BY <1>1, <2>1, <2>2
  <1>4. ASSUME d \notin Ids(ds)
        PROVE  Without(ds, d) = ds
    <2>1. \A n \in 1 .. Len(ds) : ds[n] = d <=> n = Len(ds) + 1
      BY <1>4 DEF Ids
    <2>2. rest[Len(ds)] = [j \in 1 .. Len(ds) |-> ds[IF j < Len(ds) + 1 THEN j ELSE j + 1]]
      <3>1. Len(ds) \in Nat /\ Len(ds) + 1 \in 1 .. Len(ds) + 1 /\ Len(ds) \in 0 .. Len(ds) /\ Len(ds) < Len(ds) + 1
        OBVIOUS
      <3>2. rest[Len(ds)] = [j \in 1 .. (IF Len(ds) < Len(ds) + 1 THEN Len(ds) ELSE Len(ds) - 1)
                               |-> ds[IF j < Len(ds) + 1 THEN j ELSE j + 1]]
        BY <1>2, <2>1, <3>1
      <3> QED BY <3>1, <3>2
    <2> QED BY <1>1, <2>2
  <1> QED BY <1>3, <1>4

\* What is left of a list without duplicates has none, and the other ids.
LEMMA WithoutProperties ==
  ASSUME NEW S, NEW ds \in Seq(S), NEW d, Distinct(ds)
  PROVE  /\ Without(ds, d) \in Seq(S) /\ Distinct(Without(ds, d))
         /\ Ids(Without(ds, d)) = Ids(ds) \ {d}
  <1>1. CASE d \notin Ids(ds)
    BY <1>1, WithoutIsRest
  <1>2. ASSUME NEW i \in DOMAIN ds, ds[i] = d PROVE \A x \in {Without(ds, d)} :
             x \in Seq(S) /\ Distinct(x) /\ Ids(x) = Ids(ds) \ {d}
    <2> DEFINE w == [j \in 1 .. Len(ds) - 1 |-> ds[IF j < i THEN j ELSE j + 1]]
    <2>1. Without(ds, d) = w
      BY <1>2, WithoutIsRest
    <2>2. \A j \in 1 .. Len(ds) - 1 : w[j] = ds[IF j < i THEN j ELSE j + 1] /\ w[j] \in S
      OBVIOUS
    <2>3. w \in Seq(S) /\ DOMAIN w = 1 .. Len(ds) - 1
      BY <2>2
    <2>4. Distinct(w)
      BY DEF Distinct
    <2>5. Ids(w) = Ids(ds) \ {d}
      <3>1. \A j \in DOMAIN w : w[j] \in Ids(ds) \ {d}
        BY <1>2 DEF Ids, Distinct
      <3>2. ASSUME NEW n \in DOMAIN ds, ds[n] # d PROVE ds[n] \in Ids(w)
        <4>1. CASE n < i
          <5>1. n \in DOMAIN w /\ w[n] = ds[n]
            BY <2>3, <4>1
          <5> QED BY <5>1 DEF Ids
        <4>2. CASE n > i
          <5>1. n - 1 \in DOMAIN w /\ w[n - 1] = ds[n]
            BY <2>3, <4>2
          <5> QED BY <5>1 DEF Ids
        <4> QED BY <1>2, <3>2, <4>1, <4>2
      <3> QED BY <3>1, <3>2 DEF Ids
    <2> HIDE DEF w
    <2> QED BY <2>1, <2>3, <2>4, <2>5
  <1> QED BY <1>1, <1>2 DEF Ids

\* A list with a new id at its end.
LEMMA AppendedProperties ==
  ASSUME NEW S, NEW ds \in Seq(S), NEW d \in S, Distinct(ds), d \notin Ids(ds)
  PROVE  /\ Append(ds, d) \in Seq(S) /\ Append(ds, d) # <<>> /\ Distinct(Append(ds, d))
         /\ Ids(Append(ds, d)) = Ids(ds) \cup {d}
  <1>1. /\ Append(ds, d) \in Seq(S) /\ DOMAIN Append(ds, d) = 1 .. Len(ds) + 1
        /\ Append(ds, d)[Len(ds) + 1] = d /\ \A i \in 1 .. Len(ds) : Append(ds, d)[i] = ds[i]
    OBVIOUS
  <1>2. Append(ds, d) # <<>> /\ Len(ds) \in Nat
    BY <1>1
  <1>3. Distinct(Append(ds, d))
    BY <1>1, <1>2 DEF Distinct, Ids
  <1>4. Ids(Append(ds, d)) = Ids(ds) \cup {d}
    BY <1>1, <1>2 DEF Ids
  <1> QED BY <1>1, <1>2, <1>3, <1>4
-----------------------------------------------------------------------------
(* Any commands of any processes *)

\* No list that the program is given names a database twice.
NoTwins == \A s \in Starts \cup {Bundled, Exported, Dotenv} : Distinct(s)

\* What a file is, and a command.
Files == {f \in [kind : {"toml", "empty", "garbled", "absent"}, dbs : Seq(Db)] :
            (f.kind = "toml" <=> f.dbs # <<>>) /\ Distinct(f.dbs)}
Present == {f \in Files : f.kind # "absent"}
CommandTypes == [op : Commands \cup {"add"}, db : Db, prune : BOOLEAN, new : Present, keys : SUBSET (Db \X Nat)]

Types ==
  /\ toml \in Present /\ bak \in Files
  /\ bucket \subseteq Db \X Nat /\ uploading \subseteq Db /\ uploads \in Nat
  /\ started \in Nat /\ pc \in [Proc -> PCs] /\ cmd \in [Proc -> CommandTypes]

\* A file is torn only after a copy of it has been begun.
Writing == {"fill", "truncate", "write", "edit", "text"}
CopyBegun ==
  /\ toml.kind # "toml" => bak.kind # "absent"
  /\ \A p \in Proc : pc[p] \in Writing => bak.kind # "absent"

IInv == Types /\ CopyBegun

\* The files that the program makes of nothing.
LEMMA MadeFiles ==
  /\ Empty \in Present /\ Absent \in Files /\ Torn("garbled") \in Present
  /\ Empty.kind = "empty" /\ Absent.kind = "absent" /\ Torn("garbled").kind = "garbled"
  /\ \A ds \in Seq(Db) : ds # <<>> /\ Distinct(ds) => Toml(ds) \in Present
  /\ \A ds : Toml(ds).kind = "toml" /\ Toml(ds).dbs = ds
  <1>1. <<>> \in Seq(Db) /\ Distinct(<<>>)
    BY DEF Distinct
  <1> QED BY <1>1 DEF Empty, Absent, Torn, Toml, Files, Present

\* What a command is going to write is a list without duplicates.
LEMMA RestIsAList ==
  ASSUME NoTwins, NEW f \in Files, NEW c \in CommandTypes, NEW op,
         NEW ds \in Rest(c, Databases(f, Env(op)))
  PROVE  Toml(ds) \in Present
  <1> DEFINE old == Databases(f, Env(op))
  <1>1. old \in Seq(Db) /\ Distinct(old)
    BY RegistryAssumption DEF Databases, Env, NoTwins, Files
  <1> HIDE DEF old
  <1>2. ds \in Seq(Db) /\ Distinct(ds) /\ ds # <<>>
    <2>1. CASE c.op = "add"
      <3>1. ds = Append(old, c.db) /\ c.db \notin Ids(old) /\ c.db \in Db
        BY <2>1 DEF Rest, old, CommandTypes
      <3> QED BY <1>1, <3>1, AppendedProperties
    <2>2. CASE c.op # "add"
      <3>1. ds = Without(old, c.db) /\ ds # <<>>
        BY <2>2 DEF Rest, old
      <3> QED BY <1>1, <3>1, WithoutProperties
    <2> QED BY <2>1, <2>2
  <1> QED BY <1>2, MadeFiles

\* The file is there, and is a list, at the start.
LEMMA InitIInv == ASSUME NoTwins, Init PROVE IInv
  <1> USE DEF Init
  <1>1. PICK s \in Starts : toml = Toml(s)
    OBVIOUS
  <1>2. s \in Seq(Db) /\ s # <<>> /\ Distinct(s) /\ toml \in Present /\ toml.kind = "toml" /\ toml.dbs = s
    BY <1>1, RegistryAssumption, MadeFiles DEF NoTwins, Lists
  <1>3. s[1] \in Db /\ (CHOOSE d \in Db : TRUE) \in Db
    BY <1>2
  <1>4. cmd \in [Proc -> CommandTypes]
    BY <1>3, MadeFiles DEF CommandTypes
  <1>5. bucket \subseteq Db \X Nat
    BY <1>2 DEF Ids
  <1>6. Types
    BY <1>2, <1>4, <1>5, MadeFiles DEF Types, PCs
  <1> QED BY <1>2, <1>6 DEF IInv, CopyBegun, Writing

\* The steps of a command that write no file.
LEMMA ThinkingSteps ==
  ASSUME NoTwins, IInv, NEW p \in Proc,
         \/ Start(p) \/ Connect(p) \/ Check(p) \/ Read(p) \/ Ping(p) \/ List(p) \/ Prune(p)
         \/ Edit(p) \/ ReadText(p) \/ Schema(p) \/ Crash(p)
  PROVE  IInv'
  <1> USE DEF IInv, Types, CopyBegun, Goto, PCs, store
  <1>1. CASE Start(p)
    <2>1. PICK op \in Commands, d \in Db, prune \in BOOLEAN :
            /\ cmd' = [cmd EXCEPT ![p] = [op |-> op, db |-> d, prune |-> prune, keys |-> {},
                                          new |-> IF op = "setup" THEN Toml(Bundled) ELSE Empty]]
            /\ pc' = [pc EXCEPT ![p] = Entry(op)]
            /\ started' = started + 1 /\ UNCHANGED <<toml, bak, bucket, uploading, uploads>>
      BY <1>1 DEF Start
    <2>2. Entry(op) \in PCs \ Writing
      BY RegistryAssumption DEF Entry, Writing
    <2>3. Toml(Bundled) \in Present /\ Empty \in Present
      BY RegistryAssumption, MadeFiles DEF NoTwins, Lists
    <2>4. cmd' \in [Proc -> CommandTypes]
      BY <2>1, <2>3 DEF CommandTypes
    <2> QED BY <2>1, <2>2, <2>4
  <1>2. CASE Connect(p) \/ Check(p) \/ Ping(p) \/ Schema(p) \/ Crash(p)
    BY <1>2 DEF Connect, Check, Ping, Schema, Crash, Writing
  <1>3. CASE Read(p)
    <2>1. PICK s \in {"raised", "ping", "list", "copy"} :
            pc' = [pc EXCEPT ![p] = s] /\ UNCHANGED <<toml, bak, bucket, uploading, uploads, started>>
      BY <1>3 DEF Read
    <2>2. CASE cmd' = cmd
      BY <2>1, <2>2 DEF Writing
    <2>3. CASE \E ds \in Rest(cmd[p], Databases(toml, Env(cmd[p].op))) : cmd' = [cmd EXCEPT ![p].new = Toml(ds)]
      <3>1. PICK f \in Present : cmd' = [cmd EXCEPT ![p].new = f]
        BY <2>3, RestIsAList DEF Present
      <3>2. cmd' \in [Proc -> CommandTypes]
        BY <3>1 DEF CommandTypes
      <3> QED BY <2>1, <3>2 DEF Writing
    <2> QED BY <1>3, <2>2, <2>3 DEF Read
  <1>4. CASE List(p)
    <2>1. PICK keys \in SUBSET (Db \X Nat) : cmd' = cmd \/ cmd' = [cmd EXCEPT ![p].keys = keys]
      <3>1. {o \in bucket : o[1] = cmd[p].db} \in SUBSET (Db \X Nat)
        OBVIOUS
      <3> QED BY <1>4, <3>1 DEF List
    <2>2. cmd' \in [Proc -> CommandTypes]
      BY <2>1 DEF CommandTypes
    <2> QED BY <1>4, <2>2 DEF List, Writing
  <1>5. CASE Prune(p)
    <2>1. cmd' \in [Proc -> CommandTypes] /\ bucket' \subseteq bucket
      BY <1>5 DEF Prune, CommandTypes
    <2> QED BY <1>5, <2>1 DEF Prune, Writing
  <1>6. CASE Edit(p)
    BY <1>6 DEF Edit, Writing
  <1>7. CASE ReadText(p)
    <2>1. cmd' \in [Proc -> CommandTypes]
      BY <1>7 DEF ReadText, CommandTypes
    <2> QED BY <1>7, <2>1 DEF ReadText, Writing
  <1> QED BY <1>1, <1>2, <1>3, <1>4, <1>5, <1>6, <1>7

\* The steps that write a file, and those of others than commands.
LEMMA WritingSteps ==
  ASSUME IInv,
         \/ \E p \in Proc : OpenBak(p) \/ FillBak(p) \/ Truncate(p) \/ Write(p)
         \/ Recover \/ BeginUpload \/ Upload
  PROVE  IInv'
  <1> USE MadeFiles DEF IInv, Types, CopyBegun, Goto, PCs, store
  <1>1. ASSUME NEW p \in Proc, OpenBak(p) PROVE IInv'
    BY <1>1 DEF OpenBak, Writing, Present
  <1>2. ASSUME NEW p \in Proc, FillBak(p) PROVE IInv'
    BY <1>2 DEF FillBak, Writing, Present
  <1>3. ASSUME NEW p \in Proc, Truncate(p) PROVE IInv'
    BY <1>3 DEF Truncate, Writing, Present
  <1>4. ASSUME NEW p \in Proc, Write(p) PROVE IInv'
    <2>1. cmd[p].new \in Present /\ bak.kind # "absent"
      BY <1>4 DEF Write, Writing, CommandTypes
    <2>2. toml' \in Present
      BY <1>4, <2>1 DEF Write
    <2>3. PICK s \in {"schema", "edit", "done", "raised"} : pc' = [pc EXCEPT ![p] = s]
      BY <1>4 DEF Write
    <2> QED BY <1>4, <2>1, <2>2, <2>3 DEF Write
  <1>5. ASSUME Recover PROVE IInv'
    BY <1>5 DEF Recover, Present
  <1>6. ASSUME BeginUpload PROVE IInv'
    <2>1. Databases(toml, Env("daily")) \in Seq(Db)
      BY RegistryAssumption DEF Databases, Env, Present, Files
    <2>2. Ids(Databases(toml, Env("daily"))) \subseteq Db
      BY <2>1 DEF Ids
    <2>3. uploading' \subseteq Db
      BY <1>6, <2>2 DEF BeginUpload
    <2> QED BY <1>6, <2>3 DEF BeginUpload
  <1>7. ASSUME Upload PROVE IInv'
    BY <1>7 DEF Upload
  <1> QED BY <1>1, <1>2, <1>3, <1>4, <1>5, <1>6, <1>7

\* Every step keeps it.
LEMMA NextIInv == ASSUME NoTwins, IInv, [Next]_vars PROVE IInv'
  <1>1. CASE UNCHANGED vars
    BY <1>1 DEF vars, IInv, Types, CopyBegun
  <1> QED BY <1>1, ThinkingSteps, WritingSteps DEF Next, Step

\* However commands interleave, crash or meet a full disk: db-toolchain.toml is never missing,
\* and a file that parses lists no id twice, nor does its copy.
THEOREM FilesAreLists ==
  ASSUME NoTwins
  PROVE  Spec => []RegistryInv
  <1>1. IInv => RegistryInv
    <2> SUFFICES ASSUME IInv PROVE RegistryInv
      OBVIOUS
    <2>1. IsFile(toml) /\ toml # Absent /\ IsFile(bak) /\ NoDuplicates
      BY MadeFiles DEF IInv, Types, Present, Files, IsFile, NoDuplicates
    <2>2. TypeOK
      BY <2>1 DEF IInv, Types, CommandTypes, Present, Files, IsFile, TypeOK
    <2> QED BY <2>1, <2>2 DEF RegistryInv
  <1>2. Init => IInv
    BY InitIInv
  <1>3. IInv /\ [Next]_vars => IInv'
    BY NextIInv
  <1> QED BY <1>1, <1>2, <1>3, PTL DEF Spec
-----------------------------------------------------------------------------
(* One command at a time *)

\* DATABASES is not set, and the list of the file counts.
Plain == Exported = <<>> /\ Dotenv = <<>>

\* The command has planned what it is going to write in the place of a list.
Planned(c, ds) == \E rest \in Rest(c, ds) : c.new = Toml(rest)

\* Which commands come where.
Role(p) ==
  /\ cmd[p].prune => cmd[p].op = "remove"
  /\ pc[p] \in {"connect", "ping", "schema"} => cmd[p].op = "add"
  /\ pc[p] \in {"check", "list", "prune"} => cmd[p].op = "remove"
  /\ pc[p] \in {"edit", "text"} => cmd[p].op = "setup"

\* How far a command has come that nobody meets.
Progress(p) ==
  LET c == cmd[p] IN
  /\ pc[p] \in {"ping", "list", "prune", "copy", "fill", "truncate"} => toml.kind = "toml" /\ Planned(c, toml.dbs)
  /\ pc[p] = "truncate" => bak = toml
  /\ pc[p] = "write" => toml = Empty /\ bak.kind = "toml" /\ Planned(c, bak.dbs)
  /\ pc[p] = "prune" => /\ \A o \in c.keys : o[1] = c.db
                        /\ \A o \in bucket : o[1] = c.db => o \in c.keys
  /\ pc[p] \in {"copy", "fill", "truncate", "write"} /\ c.prune => \A o \in bucket : o[1] # c.db
  /\ p = latest /\ pc[p] \in {"schema", "done"} =>
       /\ toml.kind = "toml"
       /\ c.op = "add" => c.db \in Ids(toml.dbs)
       /\ c.op = "remove" => c.db \notin Ids(toml.dbs) /\ c.db \notin uploading
       /\ c.prune => \A o \in bucket : o[1] # c.db

\* A torn file is an empty one, next to a whole copy.
TornIsCopied == toml.kind # "toml" => toml = Empty /\ bak.kind = "toml"

\* As long as nothing has met.
Quietness ==
  /\ ~Meeting /\ seen = Current /\ TornIsCopied
  /\ \A p \in Proc : /\ pc[p] \notin Resting => p = latest
                     /\ cmd[p].op # "setup" /\ Progress(p)

QInv == IInv /\ quiet \in BOOLEAN /\ (\A p \in Proc : Role(p)) /\ (quiet => Quietness)

\* A step that quietness outlives.
Still == quiet /\ quiet' /\ ~Meeting' /\ seen' = Current'

\* Whoever works works alone.
LEMMA Alone ==
  ASSUME QInv, quiet, NEW p \in Proc, pc[p] \notin Resting
  PROVE  /\ p = latest /\ uploading = {} /\ cmd[p].op \in {"add", "remove"}
         /\ \A q \in Proc \ {p} : pc[q] \in Resting
  <1>1. cmd[p].op \in {"add", "remove"}
    BY RegistryAssumption DEF QInv, Quietness, IInv, Types, CommandTypes
  <1> QED BY <1>1 DEF QInv, Quietness, Meeting, Working

\* A step of a command leaves what is known of the others.
LEMMA WorkStep ==
  ASSUME QInv, Still, IInv', NEW p \in Proc, pc[p] \notin Resting,
         \A q \in Proc \ {p} : pc'[q] = pc[q] /\ cmd'[q] = cmd[q],
         latest' = latest, cmd'[p].op = cmd[p].op,
         TornIsCopied', Role(p)', Progress(p)'
  PROVE  QInv'
  <1>1. p = latest /\ \A q \in Proc \ {p} : pc[q] \in Resting
    BY Alone DEF Still
  <1>2. ASSUME NEW q \in Proc \ {p} PROVE Progress(q)' /\ Role(q)'
    BY <1>1, <1>2 DEF Progress, Role, QInv, Resting
  <1>3. \A q \in Proc : /\ pc'[q] \notin Resting => q = latest'
                        /\ cmd'[q].op # "setup"
    BY <1>1 DEF QInv, Quietness, Still
  <1>4. quiet' \in BOOLEAN
    BY DEF Still
  <1> QED BY <1>2, <1>3, <1>4 DEF QInv, Quietness, Still

\* Without DATABASES a load gives the list of a file that is whole.
LEMMA PlainLoads ==
  ASSUME Plain, NEW f \in Present, NEW op
  PROVE  /\ Env(op) = <<>> /\ Databases(f, Env(op)) = f.dbs
         /\ Loads(f, Env(op)) <=> f.kind = "toml"
  BY DEF Plain, Env, Databases, Loads, Present, Files

\* What a planned list is.
LEMMA PlannedList ==
  ASSUME NEW c \in CommandTypes, c.op \in {"add", "remove"}, NEW ds \in Seq(Db), Distinct(ds), Planned(c, ds)
  PROVE  /\ c.new.kind = "toml" /\ c.new.dbs \in Seq(Db) /\ c.new.dbs # <<>>
         /\ c.op = "add" => /\ c.new.dbs = Append(ds, c.db) /\ c.db \notin Ids(ds)
                            /\ Ids(c.new.dbs) = Ids(ds) \cup {c.db}
         /\ c.op = "remove" => /\ c.new.dbs = Without(ds, c.db) /\ c.new.dbs # ds
                               /\ Ids(c.new.dbs) = Ids(ds) \ {c.db}
  <1>1. PICK rest \in Rest(c, ds) : c.new = Toml(rest)
    BY DEF Planned
  <1>2. c.new.kind = "toml" /\ c.new.dbs = rest /\ c.db \in Db
    BY <1>1, MadeFiles DEF CommandTypes
  <1>3. CASE c.op = "add"
    <2>1. rest = Append(ds, c.db) /\ c.db \notin Ids(ds)
      BY <1>3 DEF Rest
    <2> QED BY <1>2, <1>3, <2>1, AppendedProperties
  <1>4. CASE c.op = "remove"
    <2>1. rest = Without(ds, c.db) /\ rest # ds /\ rest # <<>>
      BY <1>4 DEF Rest
    <2> QED BY <1>2, <1>4, <2>1, WithoutProperties
  <1> QED BY <1>3, <1>4

\* A command starts when nobody works.
LEMMA QuietStart ==
  ASSUME NoTwins, QInv, Still, IInv', NEW p \in Proc, Start(p),
         latest' = IF started' = started THEN latest ELSE CHOOSE q \in Proc : pc'[q] # pc[q]
  PROVE  QInv'
  <1> USE DEF QInv, IInv, Types
  <1>1. PICK op \in Commands, d \in Db, prune \in BOOLEAN :
          /\ op # "remove" => ~prune
          /\ cmd' = [cmd EXCEPT ![p] = [op |-> op, db |-> d, prune |-> prune, keys |-> {},
                                        new |-> IF op = "setup" THEN Toml(Bundled) ELSE Empty]]
          /\ pc' = [pc EXCEPT ![p] = Entry(op)]
    BY DEF Start, Goto
  <1>2. /\ started' = started + 1 /\ started' # started /\ pc[p] \in Resting
        /\ UNCHANGED <<toml, bak, bucket, uploading, uploads>>
    BY DEF Start, store
  <1>3. op \in {"add", "remove", "setup"} /\ pc'[p] \notin Resting
    BY <1>1, RegistryAssumption DEF Entry, Resting
  <1>4. latest' = p
    BY <1>1, <1>2, <1>3
  <1>5. op # "setup" /\ \A q \in Proc \ {p} : pc[q] \in Resting
    BY <1>1, <1>3 DEF Still, Meeting, Working
  <1>6. pc'[p] \in {"connect", "check"} /\ (pc'[p] = "connect" <=> op = "add")
    BY <1>1, <1>3, <1>5 DEF Entry
  <1>7. \A q \in Proc : Progress(q)'
    <2>1. Progress(p)'
      BY <1>6 DEF Progress
    <2>2. ASSUME NEW q \in Proc \ {p} PROVE Progress(q)'
      BY <1>1, <1>4, <1>5, <2>2 DEF Progress, Resting
    <2> QED BY <2>1, <2>2
  <1>8. \A q \in Proc : Role(q)'
    <2>1. Role(p)'
      BY <1>1, <1>3, <1>5, <1>6 DEF Role
    <2>2. ASSUME NEW q \in Proc \ {p} PROVE Role(q)'
      BY <1>1, <2>2 DEF Role
    <2> QED BY <2>1, <2>2
  <1>9. \A q \in Proc : (pc'[q] \notin Resting => q = latest') /\ cmd'[q].op # "setup"
    BY <1>1, <1>4, <1>5 DEF Still, Quietness
  <1>10. TornIsCopied'
    BY <1>2 DEF Still, Quietness, TornIsCopied
  <1>11. quiet' \in BOOLEAN
    BY DEF Still
  <1> QED BY <1>7, <1>8, <1>9, <1>10, <1>11 DEF Quietness, Still

\* The connection, the prompts and a crash.
LEMMA QuietMoves ==
  ASSUME QInv, Still, IInv', latest' = latest, NEW p \in Proc,
         Connect(p) \/ Check(p) \/ Ping(p) \/ Edit(p) \/ ReadText(p) \/ Schema(p) \/ Crash(p)
  PROVE  QInv'
  <1> USE DEF IInv, Types, Goto, store
  <1>0. pc[p] \notin Resting
    BY DEF Connect, Check, Ping, Edit, ReadText, Schema, Crash, Resting
  <1>1. QInv /\ TornIsCopied /\ Role(p) /\ Progress(p) /\ cmd[p].op # "setup"
    BY DEF QInv, Still, Quietness
  <1>2. pc[p] \notin {"edit", "text"}
    BY <1>1 DEF Role
  <1>3. /\ UNCHANGED <<toml, bak, bucket, uploading, cmd>>
        /\ \E s : pc' = [pc EXCEPT ![p] = s]
    BY <1>2 DEF Connect, Check, Ping, Edit, ReadText, Schema, Crash
  <1>4. TornIsCopied'
    BY <1>1, <1>3 DEF TornIsCopied
  <1>5. CASE pc'[p] \in {"raised", "idle"}
    <2>1. Role(p)' /\ Progress(p)'
      BY <1>1, <1>3, <1>5 DEF Role, Progress
    <2> QED BY <1>0, <1>3, <1>4, <2>1, WorkStep
  <1>6. CASE pc'[p] \notin {"raised", "idle"}
    <2>1. \/ pc[p] \in {"connect", "check"} /\ pc'[p] = "read"
          \/ pc[p] = "ping" /\ pc'[p] = "copy"
          \/ pc[p] = "schema" /\ pc'[p] = "done"
      BY <1>2, <1>6 DEF Connect, Check, Ping, Edit, ReadText, Schema, Crash
    <2>2. Role(p)' /\ Progress(p)'
      BY <1>1, <1>3, <2>1 DEF Role, Progress
    <2> QED BY <1>0, <1>3, <1>4, <2>2, WorkStep
  <1> QED BY <1>5, <1>6

\* The plan is made of a file that is whole.
LEMMA QuietRead ==
  ASSUME Plain, QInv, Still, IInv', latest' = latest, NEW p \in Proc, Read(p)
  PROVE  QInv'
  <1> USE DEF IInv, Types, Goto, store
  <1>0. pc[p] = "read" /\ pc[p] \notin Resting /\ UNCHANGED <<toml, bak, bucket, uploading>>
    BY DEF Read, Resting
  <1>1. QInv /\ TornIsCopied /\ Role(p) /\ Progress(p) /\ cmd[p].op \in {"add", "remove"}
    BY <1>0, Alone DEF QInv, Still, Quietness
  <1>2. TornIsCopied'
    BY <1>0, <1>1 DEF TornIsCopied
  <1>3. CASE pc' = [pc EXCEPT ![p] = "raised"] /\ cmd' = cmd
    <2>1. Role(p)' /\ Progress(p)'
      BY <1>0, <1>1, <1>3 DEF Role, Progress
    <2> QED BY <1>0, <1>2, <1>3, <2>1, WorkStep
  <1>4. ASSUME NEW rest \in Rest(cmd[p], toml.dbs), toml.kind = "toml",
               cmd' = [cmd EXCEPT ![p].new = Toml(rest)],
               pc' = [pc EXCEPT ![p] = IF cmd[p].op = "add" THEN "ping"
                                       ELSE IF cmd[p].prune THEN "list" ELSE "copy"]
        PROVE  QInv'
    <2> DEFINE c == [cmd[p] EXCEPT !.new = Toml(rest)]
    <2>1. cmd'[p] = c /\ cmd[p] \in CommandTypes
      BY <1>4 DEF QInv
    <2>2. c.op = cmd[p].op /\ c.db = cmd[p].db /\ c.prune = cmd[p].prune /\ c.new = Toml(rest)
      BY <2>1 DEF CommandTypes
    <2> HIDE DEF c
    <2>3. Planned(c, toml.dbs)
      BY <2>2 DEF Planned, Rest
    <2>4. Role(p)' /\ Progress(p)'
      BY <1>0, <1>1, <1>4, <2>1, <2>2, <2>3 DEF Role, Progress
    <2> QED BY <1>0, <1>2, <1>4, <2>1, <2>2, <2>4, WorkStep
  <1> QED BY <1>3, <1>4, PlainLoads DEF Read

\* The backups of a database are listed, and deleted one by one.
LEMMA QuietPrune ==
  ASSUME QInv, Still, IInv', latest' = latest, NEW p \in Proc, List(p) \/ Prune(p)
  PROVE  QInv'
  <1> USE DEF IInv, Types, Goto, store
  <1>0. pc[p] \in {"list", "prune"} /\ pc[p] \notin Resting /\ UNCHANGED <<toml, bak, uploading>>
    BY DEF List, Prune, Resting
  <1>1. QInv /\ TornIsCopied /\ Role(p) /\ Progress(p) /\ cmd[p] \in CommandTypes
    BY DEF QInv, Still, Quietness
  <1>2. TornIsCopied'
    BY <1>0, <1>1 DEF TornIsCopied
  <1>3. CASE pc' = [pc EXCEPT ![p] = "raised"] /\ cmd' = cmd
    <2>1. Role(p)' /\ Progress(p)'
      BY <1>0, <1>1, <1>3 DEF Role, Progress
    <2> QED BY <1>0, <1>2, <1>3, <2>1, WorkStep
  <1>4. CASE pc[p] = "prune" /\ cmd[p].keys = {} /\ pc' = [pc EXCEPT ![p] = "copy"] /\ UNCHANGED <<bucket, cmd>>
    <2>1. Role(p)' /\ Progress(p)'
      BY <1>0, <1>1, <1>4 DEF Role, Progress
    <2> QED BY <1>0, <1>2, <1>4, <2>1, WorkStep
  <1>5. ASSUME NEW keys, cmd' = [cmd EXCEPT ![p].keys = keys], pc' = [pc EXCEPT ![p] = "prune"],
               \A o \in keys : o[1] = cmd[p].db, \A o \in bucket' : o[1] = cmd[p].db => o \in keys
        PROVE  QInv'
    <2> DEFINE c == [cmd[p] EXCEPT !.keys = keys]
    <2>1. cmd'[p] = c
      BY <1>5
    <2>2. c.op = cmd[p].op /\ c.db = cmd[p].db /\ c.prune = cmd[p].prune /\ c.new = cmd[p].new /\ c.keys = keys
      BY <1>1 DEF CommandTypes
    <2> HIDE DEF c
    <2>3. Planned(cmd[p], toml.dbs) => Planned(c, toml.dbs)
      BY <2>2 DEF Planned, Rest
    <2>4. Role(p)' /\ Progress(p)'
      BY <1>0, <1>1, <1>5, <2>1, <2>2, <2>3 DEF Role, Progress
    <2> QED BY <1>0, <1>2, <1>5, <2>1, <2>2, <2>4, WorkStep
  <1>6. CASE List(p)
    <2>1. PICK keys : keys = {o \in bucket : o[1] = cmd[p].db}
      OBVIOUS
    <2>2. bucket' = bucket /\ pc[p] = "list"
      BY <1>6 DEF List
    <2>3. (\A o \in keys : o[1] = cmd[p].db) /\ \A o \in bucket' : o[1] = cmd[p].db => o \in keys
      BY <2>1, <2>2
    <2>4. \/ pc' = [pc EXCEPT ![p] = "raised"] /\ cmd' = cmd
          \/ pc' = [pc EXCEPT ![p] = "prune"] /\ cmd' = [cmd EXCEPT ![p].keys = keys]
      BY <1>6, <2>1 DEF List
    <2> QED BY <1>3, <1>5, <2>3, <2>4
  <1>7. CASE Prune(p)
    <2>1. CASE cmd[p].keys = {}
      BY <1>4, <1>7, <2>1 DEF Prune
    <2>2. ASSUME NEW k \in cmd[p].keys, bucket' = bucket \ {k},
                 cmd' = [cmd EXCEPT ![p].keys = @ \ {k}], pc' = pc
          PROVE  QInv'
      <3>1. pc[p] = "prune" /\ pc' = [pc EXCEPT ![p] = "prune"]
        BY <1>7, <2>2 DEF Prune
      <3>2. cmd' = [cmd EXCEPT ![p].keys = cmd[p].keys \ {k}]
        BY <2>2
      <3>3. /\ \A o \in cmd[p].keys \ {k} : o[1] = cmd[p].db
            /\ \A o \in bucket' : o[1] = cmd[p].db => o \in cmd[p].keys \ {k}
        BY <1>1, <2>2, <3>1 DEF Progress
      <3> QED BY <1>5, <3>1, <3>2, <3>3
    <2> QED BY <1>3, <1>7, <2>1, <2>2 DEF Prune
  <1> QED BY <1>6, <1>7

\* The file is copied and replaced.
LEMMA QuietWrite ==
  ASSUME QInv, Still, IInv', latest' = latest, NEW p \in Proc,
         OpenBak(p) \/ FillBak(p) \/ Truncate(p) \/ Write(p)
  PROVE  QInv'
  <1> USE DEF IInv, Types, Goto, store
  <1>0. pc[p] \in {"copy", "fill", "truncate", "write"} /\ pc[p] \notin Resting
        /\ UNCHANGED <<bucket, uploading, cmd>>
    BY DEF OpenBak, FillBak, Truncate, Write, Resting
  <1>1. /\ QInv /\ TornIsCopied /\ Role(p) /\ Progress(p) /\ cmd[p].op \in {"add", "remove"}
        /\ cmd[p] \in CommandTypes /\ uploading = {}
    BY <1>0, Alone DEF QInv, Still, Quietness
  <1>2. CASE pc' = [pc EXCEPT ![p] = "raised"] /\ toml' = toml
    <2>1. TornIsCopied'
      BY <1>0, <1>1, <1>2 DEF TornIsCopied, Progress, OpenBak, FillBak, Truncate, Write
    <2>2. Role(p)' /\ Progress(p)'
      BY <1>0, <1>1, <1>2 DEF Role, Progress
    <2> QED BY <1>0, <1>2, <2>1, <2>2, WorkStep
  <1>3. CASE OpenBak(p) /\ bak' = Empty /\ pc' = [pc EXCEPT ![p] = "fill"]
    <2>1. pc[p] = "copy" /\ toml' = toml
      BY <1>3 DEF OpenBak
    <2>2. TornIsCopied' /\ Role(p)' /\ Progress(p)'
      BY <1>0, <1>1, <1>3, <2>1 DEF TornIsCopied, Role, Progress
    <2> QED BY <1>0, <1>3, <2>2, WorkStep
  <1>4. CASE FillBak(p) /\ bak' = toml /\ pc' = [pc EXCEPT ![p] = "truncate"]
    <2>1. pc[p] = "fill" /\ toml' = toml
      BY <1>4 DEF FillBak
    <2>2. TornIsCopied' /\ Role(p)' /\ Progress(p)'
      BY <1>0, <1>1, <1>4, <2>1 DEF TornIsCopied, Role, Progress
    <2> QED BY <1>0, <1>4, <2>2, WorkStep
  <1>5. CASE Truncate(p)
    <2>1. pc[p] = "truncate" /\ toml' = Empty /\ bak' = bak /\ pc' = [pc EXCEPT ![p] = "write"]
      BY <1>5 DEF Truncate
    <2>2. TornIsCopied' /\ Role(p)' /\ Progress(p)'
      BY <1>0, <1>1, <2>1 DEF TornIsCopied, Role, Progress
    <2> QED BY <1>0, <2>1, <2>2, WorkStep
  <1>6. CASE Write(p) /\ pc'[p] # "raised"
    <2>1. /\ pc[p] = "write" /\ toml = Empty /\ toml' = cmd[p].new /\ bak' = bak
          /\ Planned(cmd[p], bak.dbs)
      BY <1>1, <1>6 DEF Write, Progress
    <2>2. PICK s \in {"schema", "done"} : pc' = [pc EXCEPT ![p] = s] /\ (s = "schema" => cmd[p].op = "add")
      BY <1>1, <1>6 DEF Write
    <2>3. bak.dbs \in Seq(Db) /\ Distinct(bak.dbs)
      BY DEF QInv, Files
    <2>4. /\ toml'.kind = "toml"
          /\ cmd[p].op = "add" => cmd[p].db \in Ids(toml'.dbs)
          /\ cmd[p].op = "remove" => cmd[p].db \notin Ids(toml'.dbs)
      <3>1. PICK c \in CommandTypes : c = cmd[p]
        BY <1>1
      <3>2. /\ c.new.kind = "toml" /\ (c.op = "add" => Ids(c.new.dbs) = Ids(bak.dbs) \cup {c.db})
            /\ c.op = "remove" => Ids(c.new.dbs) = Ids(bak.dbs) \ {c.db}
        BY <1>1, <2>1, <2>3, <3>1, PlannedList
      <3> QED BY <2>1, <3>1, <3>2
    <2>6. TornIsCopied' /\ Role(p)'
      BY <1>0, <1>1, <2>2, <2>4 DEF TornIsCopied, Role
    <2>7. Progress(p)'
      BY <1>0, <1>1, <2>1, <2>2, <2>4 DEF Progress
    <2> QED BY <1>0, <2>2, <2>6, <2>7, WorkStep
  <1>7. Write(p) /\ pc'[p] = "raised" => pc' = [pc EXCEPT ![p] = "raised"] /\ toml' = toml
    BY DEF Write
  <1>8. CASE OpenBak(p)
    BY <1>2, <1>3, <1>8 DEF OpenBak
  <1>9. CASE FillBak(p)
    BY <1>2, <1>4, <1>9 DEF FillBak
  <1> QED BY <1>2, <1>5, <1>6, <1>7, <1>8, <1>9

\* The copy is put back, and backups are uploaded, while nobody works.
LEMMA QuietOthers ==
  ASSUME Plain, QInv, Still, IInv', latest' = latest, Recover \/ BeginUpload \/ Upload
  PROVE  QInv'
  <1> USE DEF IInv, Types
  <1>0. QInv /\ TornIsCopied /\ quiet' \in BOOLEAN /\ pc' = pc /\ cmd' = cmd
        /\ \A p \in Proc : Progress(p) /\ (pc[p] \notin Resting => p = latest) /\ cmd[p].op # "setup"
    BY DEF QInv, Still, Quietness, Recover, BeginUpload, Upload, store
  <1>1. \A p \in Proc : Role(p)'
    BY <1>0 DEF QInv, Role
  <1>2. SUFFICES TornIsCopied' /\ \A p \in Proc : Progress(p)'
    BY <1>0, <1>1 DEF QInv, Quietness, Still
  <1>3. CASE Recover
    <2>1. toml.kind # "toml" /\ toml' = bak /\ bak.kind = "toml" /\ \A p \in Proc : pc[p] \in Resting
      BY <1>0, <1>3 DEF Recover, TornIsCopied
    <2>2. TornIsCopied'
      BY <2>1 DEF TornIsCopied
    <2>3. ASSUME NEW p \in Proc PROVE Progress(p)'
      BY <1>0, <2>1, <2>3 DEF Progress, Resting
    <2> QED BY <2>2, <2>3
  <1>4. CASE BeginUpload
    <2>1. toml' = toml /\ bak' = bak /\ bucket' = bucket
      BY <1>4 DEF BeginUpload
    <2>2. PICK d \in Ids(toml.dbs) : uploading' = uploading \cup {d}
      BY <1>4, PlainLoads DEF BeginUpload
    <2>3. TornIsCopied'
      BY <1>0, <2>1 DEF TornIsCopied
    <2>4. ASSUME NEW p \in Proc PROVE Progress(p)'
      BY <1>0, <2>1, <2>2, <2>4 DEF Progress
    <2> QED BY <2>3, <2>4
  <1>5. CASE Upload
    <2>1. PICK d \in uploading : uploading' = uploading \ {d} /\ bucket' = bucket \cup {<<d, uploads>>}
      BY <1>5 DEF Upload
    <2>2. toml' = toml /\ bak' = bak
      BY <1>5 DEF Upload
    <2>3. \A p \in Proc : pc[p] \in Resting
      BY <2>1, Alone DEF Still
    <2>4. TornIsCopied'
      BY <1>0, <2>2 DEF TornIsCopied
    <2>5. ASSUME NEW p \in Proc PROVE Progress(p)'
      <3>1. Role(p) /\ cmd[p].op \in {"add", "remove"} /\ pc' = pc /\ cmd' = cmd
        BY <1>0, RegistryAssumption DEF QInv, CommandTypes
      <3>2. \A o \in bucket' : o \in bucket \/ o[1] \in uploading
        BY <2>1
      <3>3. uploading' \subseteq uploading
        BY <2>1
      <3> QED BY <1>0, <2>2, <2>3, <3>1, <3>2, <3>3 DEF Progress, Role, Resting
    <2> QED BY <2>4, <2>5
  <1> QED BY <1>3, <1>4, <1>5

\* The commands stay in their roles, whatever they meet.
LEMMA RolesStay ==
  ASSUME IInv, \A p \in Proc : Role(p), [Next]_vars
  PROVE  \A p \in Proc : Role(p)'
  <1> SUFFICES ASSUME NEW q \in Proc PROVE Role(q)'
    OBVIOUS
  <1> USE DEF IInv, Types, Goto, Role, store
  <1>1. ASSUME NEW p \in Proc, Step(p) PROVE Role(q)'
    <2>1. CASE Start(p)
      BY <2>1, RegistryAssumption DEF Start, Entry
    <2>2. CASE Connect(p) \/ Check(p) \/ Ping(p) \/ Edit(p) \/ Schema(p) \/ Crash(p)
      BY <2>2 DEF Connect, Check, Ping, Edit, Schema, Crash
    <2>3. CASE Read(p)
      <3>1. cmd'[q].op = cmd[q].op /\ cmd'[q].prune = cmd[q].prune
        BY <2>3 DEF Read, CommandTypes
      <3> QED BY <2>3, <3>1 DEF Read
    <2>4. CASE List(p) \/ Prune(p)
      <3>1. cmd'[q].op = cmd[q].op /\ cmd'[q].prune = cmd[q].prune
        BY <2>4 DEF List, Prune, CommandTypes
      <3> QED BY <2>4, <3>1 DEF List, Prune
    <2>5. CASE ReadText(p)
      <3>1. cmd'[q].op = cmd[q].op /\ cmd'[q].prune = cmd[q].prune
        BY <2>5 DEF ReadText, CommandTypes
      <3> QED BY <2>5, <3>1 DEF ReadText
    <2>6. CASE OpenBak(p) \/ FillBak(p) \/ Truncate(p) \/ Write(p)
      BY <2>6 DEF OpenBak, FillBak, Truncate, Write
    <2> QED BY <1>1, <2>1, <2>2, <2>3, <2>4, <2>5, <2>6 DEF Step
  <1>2. CASE Recover \/ BeginUpload \/ Upload \/ UNCHANGED vars
    BY <1>2 DEF Recover, BeginUpload, Upload, vars
  <1> QED BY <1>1, <1>2 DEF Next

\* Nothing has met at the start.
LEMMA QuietInit == ASSUME NoTwins, MCInit PROVE QInv
  <1> USE DEF MCInit
  <1>1. IInv
    BY InitIInv
  <1>2. \A p \in Proc : pc[p] = "idle" /\ cmd[p].op = "add" /\ ~cmd[p].prune
    BY DEF Init
  <1>3. toml.kind = "toml"
    BY MadeFiles DEF Init
  <1> QED BY <1>1, <1>2, <1>3
          DEF QInv, Quietness, Meeting, Working, Resting, Current, TornIsCopied, Role, Progress

\* Every step keeps what is known while nothing meets.
LEMMA QuietNext == ASSUME NoTwins, Plain, QInv, [MCNext]_mcvars PROVE QInv'
  <1>1. CASE UNCHANGED mcvars
    BY <1>1 DEF mcvars, vars, QInv, IInv, Types, CopyBegun, Quietness, Meeting, Working, Current, TornIsCopied,
                Role, Progress
  <1>2. CASE MCNext
    <2>1. IInv' /\ (\A p \in Proc : Role(p)') /\ quiet' \in BOOLEAN
      BY <1>2, NextIInv, RolesStay DEF MCNext, QInv
    <2>2. CASE ~quiet'
      BY <2>1, <2>2 DEF QInv
    <2>3. CASE quiet'
      <3>1. Still
        BY <1>2, <2>3 DEF MCNext, Still, QInv
      <3>2. started' = started => latest' = latest
        BY <1>2 DEF MCNext
      <3>3. CASE Recover \/ BeginUpload \/ Upload
        BY <2>1, <3>1, <3>2, <3>3, QuietOthers DEF Recover, BeginUpload, Upload
      <3>4. ASSUME NEW p \in Proc, Step(p) PROVE QInv'
        <4>1. CASE Start(p)
          BY <1>2, <2>1, <3>1, <4>1, QuietStart DEF MCNext
        <4>2. CASE Connect(p) \/ Check(p) \/ Ping(p) \/ Edit(p) \/ ReadText(p) \/ Schema(p) \/ Crash(p)
          <5>1. started' = started
            BY <4>2 DEF Connect, Check, Ping, Edit, ReadText, Schema, Crash
          <5> QED BY <2>1, <3>1, <3>2, <4>2, <5>1, QuietMoves
        <4>3. CASE Read(p)
          <5>1. started' = started
            BY <4>3 DEF Read
          <5> QED BY <2>1, <3>1, <3>2, <4>3, <5>1, QuietRead
        <4>4. CASE List(p) \/ Prune(p)
          <5>1. started' = started
            BY <4>4 DEF List, Prune
          <5> QED BY <2>1, <3>1, <3>2, <4>4, <5>1, QuietPrune
        <4>5. CASE OpenBak(p) \/ FillBak(p) \/ Truncate(p) \/ Write(p)
          <5>1. started' = started
            BY <4>5 DEF OpenBak, FillBak, Truncate, Write
          <5> QED BY <2>1, <3>1, <3>2, <4>5, <5>1, QuietWrite
        <4> QED BY <3>4, <4>1, <4>2, <4>3, <4>4, <4>5 DEF Step
      <3> QED BY <1>2, <3>3, <3>4 DEF MCNext, Next
    <2> QED BY <2>2, <2>3
  <1> QED BY <1>1, <1>2

\* While nothing meets, only the write of a command changes what the file or its copy lists.
LEMMA CurrentStep ==
  ASSUME Plain, QInv, Still, Next
  PROVE  \/ Current' = Current
         \/ \E p \in Proc : /\ cmd[p].op \in {"add", "remove"} /\ cmd[p] \in CommandTypes
                            /\ Planned(cmd[p], Current) /\ Current' = cmd[p].new.dbs
  <1> USE DEF Goto, store
  <1>1. IInv /\ TornIsCopied /\ \A p \in Proc : Progress(p) /\ Role(p) /\ cmd[p].op # "setup" /\ cmd[p] \in CommandTypes
    BY DEF QInv, Quietness, Still, IInv, Types
  <1>2. CASE toml' = toml /\ bak' = bak
    BY <1>2 DEF Current
  <1>3. CASE Recover
    BY <1>1, <1>3 DEF Recover, Current, TornIsCopied
  <1>4. ASSUME NEW p \in Proc, OpenBak(p) \/ FillBak(p) PROVE Current' = Current
    <2>1. toml.kind = "toml" /\ toml' = toml
      BY <1>1, <1>4 DEF OpenBak, FillBak, Progress
    <2> QED BY <2>1 DEF Current
  <1>5. ASSUME NEW p \in Proc, Truncate(p) PROVE Current' = Current
    <2>1. toml.kind = "toml" /\ bak = toml /\ toml' = Empty /\ bak' = bak
      BY <1>1, <1>5 DEF Truncate, Progress
    <2> QED BY <2>1, MadeFiles DEF Current
  <1>6. ASSUME NEW p \in Proc, Write(p), ~(toml' = toml /\ bak' = bak)
        PROVE  /\ cmd[p].op \in {"add", "remove"} /\ Planned(cmd[p], Current) /\ Current' = cmd[p].new.dbs
    <2>1. /\ toml = Empty /\ bak.kind = "toml" /\ toml' = cmd[p].new /\ bak' = bak /\ Planned(cmd[p], bak.dbs)
          /\ pc[p] = "write"
      BY <1>1, <1>6 DEF Write, Progress
    <2>2. cmd[p].op \in {"add", "remove"}
      BY <2>1, Alone DEF Still, Resting
    <2>3. cmd[p].new.kind = "toml"
      BY <2>1, MadeFiles DEF Planned
    <2> QED BY <2>1, <2>2, <2>3, MadeFiles DEF Current
  <1>7. ASSUME NEW p \in Proc, Step(p)
        PROVE  \/ toml' = toml /\ bak' = bak
               \/ OpenBak(p) \/ FillBak(p) \/ Truncate(p) \/ Write(p)
    BY <1>7 DEF Step, Start, Connect, Check, Read, Ping, List, Prune, Edit, ReadText, Schema, Crash
  <1>8. CASE BeginUpload \/ Upload
    BY <1>2, <1>8 DEF BeginUpload, Upload
  <1> QED BY <1>1, <1>2, <1>3, <1>4, <1>5, <1>6, <1>7, <1>8 DEF Next

\* The list changes like the abstract registry, in one step.
LEMMA RegistryStep ==
  ASSUME NoTwins, Plain, QInv, [MCNext]_mcvars
  PROVE  [Atomic!Next]_seen
  <1>1. CASE ~(MCNext /\ quiet')
    BY <1>1 DEF MCNext, mcvars
  <1>2. CASE MCNext /\ quiet'
    <2>1. Still /\ Next /\ seen = Current /\ seen' = Current'
      BY <1>2 DEF MCNext, Still, QInv, Quietness
    <2>2. seen \in Seq(Db) /\ Distinct(seen)
      BY <2>1 DEF QInv, IInv, Types, Present, Files, Current
    <2>3. ASSUME NEW p \in Proc, cmd[p].op \in {"add", "remove"}, cmd[p] \in CommandTypes,
                 Planned(cmd[p], seen), seen' = cmd[p].new.dbs
          PROVE  Atomic!Next
      <3>1. PICK c \in CommandTypes : c = cmd[p]
        BY <2>3
      <3>2. /\ seen' \in Seq(Db) /\ seen' # <<>> /\ c.db \in Db
            /\ c.op = "add" => seen' = Append(seen, c.db) /\ c.db \notin Ids(seen)
            /\ c.op = "remove" => seen' = Without(seen, c.db) /\ seen' # seen
        BY <2>2, <2>3, <3>1, PlannedList DEF CommandTypes
      <3>3. CASE c.op = "add"
        BY <3>2, <3>3 DEF Atomic!Next, Atomic!Add, Atomic!Listed, Ids
      <3>4. CASE c.op = "remove"
        <4>1. PICK i \in DOMAIN seen : seen[i] = c.db
          BY <2>2, <3>2, <3>4, WithoutIsRest DEF Ids
        <4>2. seen' = [j \in 1 .. Len(seen) - 1 |-> seen[IF j < i THEN j ELSE j + 1]]
          BY <2>2, <3>2, <3>4, <4>1, WithoutIsRest
        <4>3. seen' = [j \in 1 .. Len(seen) - 1 |-> seen[IF j < i THEN j ELSE j + 1]] /\ Len(seen) > 1
          <5>1. Len(seen') = Len(seen) - 1 /\ Len(seen') > 0
            BY <2>2, <3>2, <4>1, <4>2
          <5> QED BY <2>2, <4>2, <5>1
        <4> QED BY <3>2, <4>1, <4>3 DEF Atomic!Next, Atomic!Remove
      <3> QED BY <2>3, <3>1, <3>3, <3>4
    <2> QED BY <2>1, <2>3, CurrentStep
  <1> QED BY <1>1, <1>2

\* Through every crash and full disk, as long as commands do not meet, the file, or the copy
\* of a torn file, changes like the abstract registry: by one entry, in one step.
THEOREM RegistryIsAtomic ==
  ASSUME NoTwins, Plain
  PROVE  MCSpec => RegistrySpec
  <1>1. MCInit => QInv /\ Atomic!Init
    <2>1. MCInit => Atomic!Init
      BY DEF MCInit, Init, Toml, Atomic!Init
    <2> QED BY <2>1, QuietInit
  <1>2. QInv /\ [MCNext]_mcvars => QInv' /\ [Atomic!Next]_seen
    BY QuietNext, RegistryStep
  <1> QED BY <1>1, <1>2, PTL DEF MCSpec, RegistrySpec, Atomic!Spec

\* What `databases add` and `databases remove` report holds when they return, if nothing has
\* met them: the database is in the list the next command reads, and its backups are gone.
THEOREM ReturnsAreTrue ==
  ASSUME NoTwins, Plain
  PROVE  MCSpec => []ReturnedIsDone
  <1>1. MCInit => QInv
    BY QuietInit
  <1>2. QInv /\ [MCNext]_mcvars => QInv'
    BY QuietNext
  <1>3. QInv => ReturnedIsDone
    <2> SUFFICES ASSUME QInv PROVE ReturnedIsDone
      OBVIOUS
    <2>1. ASSUME NEW p \in Proc, Last(p)
          PROVE  /\ cmd[p].op = "add" => cmd[p].db \in Ids(toml.dbs)
                 /\ cmd[p].prune => \A o \in bucket : o[1] # cmd[p].db
      BY <2>1 DEF QInv, Quietness, Progress, Last
    <2>2. Databases(toml, Env("list")) = toml.dbs
      BY PlainLoads DEF QInv, IInv, Types
    <2> QED BY <2>1, <2>2 DEF ReturnedIsDone, AddedIsListed, PrunedIsGone
  <1> QED BY <1>1, <1>2, <1>3, PTL DEF MCSpec

\* Nobody prunes the backups of the only database, as long as commands do not meet.
THEOREM LastIsSpared ==
  ASSUME NoTwins, Plain
  PROVE  MCSpec => PruneSparesLast
  <1> DEFINE Spared == \A o \in bucket \ bucket' : quiet' => toml.kind = "toml" /\ Ids(toml.dbs) \ {o[1]} # {}
  <1>1. MCInit => QInv
    BY QuietInit
  <1>2. QInv /\ [MCNext]_mcvars => QInv'
    BY QuietNext
  <1>3. QInv /\ [MCNext]_mcvars => [Spared]_vars
    <2> SUFFICES ASSUME QInv, MCNext, quiet', NEW o \in bucket \ bucket'
                 PROVE  toml.kind = "toml" /\ Ids(toml.dbs) \ {o[1]} # {}
      BY DEF mcvars, Spared
    <2>1. Still /\ Next
      BY DEF MCNext, Still, QInv
    <2>2. PICK p \in Proc : Prune(p)
      BY <2>1 DEF Next, Step, Start, Connect, Check, Read, Ping, List, OpenBak, FillBak, Truncate, Write,
                  Edit, ReadText, Schema, Crash, Recover, BeginUpload, Upload, store
    <2>3. pc[p] = "prune" /\ o \in cmd[p].keys /\ pc[p] \notin Resting
      BY <2>2 DEF Prune, Resting
    <2>4. /\ toml.kind = "toml" /\ Planned(cmd[p], toml.dbs) /\ o[1] = cmd[p].db
          /\ cmd[p].op = "remove" /\ toml.dbs \in Seq(Db) /\ Distinct(toml.dbs)
      BY <2>1, <2>3 DEF Still, QInv, Quietness, Progress, Role, IInv, Types, Present, Files
    <2>5. PICK c \in CommandTypes : c = cmd[p]
      BY DEF QInv, IInv, Types
    <2>6. c.new.dbs \in Seq(Db) /\ c.new.dbs # <<>> /\ Ids(c.new.dbs) = Ids(toml.dbs) \ {c.db}
      BY <2>4, <2>5, PlannedList
    <2>7. c.new.dbs[1] \in Ids(c.new.dbs)
      BY <2>6 DEF Ids
    <2> QED BY <2>4, <2>5, <2>6, <2>7
  <1> QED BY <1>1, <1>2, <1>3, PTL DEF MCSpec, PruneSparesLast
-----------------------------------------------------------------------------
(* What a process loads *)

\* A setting that never stood in .env since the process started is as in its shell, and
\* the data directory is set for good by the first load that returns.
ConfigIInv ==
  /\ Config!TypeOK /\ Config!AgreesWithFresh
  /\ \A s \in Config!Setting \ {"data_dir"} : ~dropped /\ dotenv[s] = "unset" => environ[s] = shell[s]
  /\ settled => environ["data_dir"] # "unset"

\* It holds when the process starts.
LEMMA ConfigInit ==
  ASSUME Config!ConfigAssumption, Config!Init
  PROVE  ConfigIInv
  <1>1. environ \in [Config!Setting -> Config!Value]
    BY DEF Config!ConfigAssumption, Config!Init
  <1> QED BY <1>1 DEF Config!Init, ConfigIInv, Config!TypeOK, Config!AgreesWithFresh

\* Which settings a Config is made of.
LEMMA LoadedOf ==
  ASSUME NEW t, NEW d, NEW e
  PROVE  (\A s \in {"app_env", "databases", "aws"} : d[s] = e[s]) => Config!Loaded(t, d) = Config!Loaded(t, e)
  BY DEF Config!Loaded, Config!HasDatabases, Config!Picked, Config!Pick

\* What a load leaves in the environment, and what it gives.
LEMMA LoadStep ==
  ASSUME Config!ConfigAssumption, ConfigIInv, Config!Load
  PROVE  ConfigIInv' /\ (settled /\ dotenv["data_dir"] = "unset" => environ'["data_dir"] = environ["data_dir"])
  <1> USE DEF ConfigIInv, Config!TypeOK
  <1> DEFINE l == Config!LoadEnv(dotenv, environ)
  <1>1. /\ environ' = IF Config!HasDatabases(edited, l) THEN Config!SetDefault(edited, l) ELSE l
        /\ result' = Config!Loaded(edited, l) /\ current' = TRUE
        /\ settled' = (settled \/ result' # Config!Raised)
        /\ UNCHANGED <<edited, dotenv, shell, dropped>>
    BY DEF Config!Load
  <1>2. /\ l \in [Config!Setting -> Config!Value]
        /\ \A s \in Config!Setting : l[s] = IF dotenv[s] = "unset" THEN environ[s] ELSE dotenv[s]
    BY DEF Config!LoadEnv, Config!ConfigAssumption, Config!Dotenvs
  <1>3. /\ \A s \in {"app_env", "databases", "aws", "data_dir"} : Config!Pick(edited, l, s) \in Config!Value
        /\ Config!Pick(edited, l, "data_dir") # "unset"
    BY <1>2 DEF Config!Pick, Config!Tomls, Config!ConfigAssumption, Config!Setting, Config!Value
  <1> HIDE DEF l
  <1>4. /\ environ' \in [Config!Setting -> Config!Value]
        /\ \A s \in Config!Setting \ {"data_dir"} : environ'[s] = l[s]
        /\ l["data_dir"] # "unset" => environ'["data_dir"] = l["data_dir"]
        /\ Config!HasDatabases(edited, l) => environ'["data_dir"] # "unset"
    BY <1>1, <1>2, <1>3 DEF Config!SetDefault, Config!Setting
  <1>5. result' \in {Config!Raised} \cup [is : {"config"}, app_env : Config!Value, databases : Config!Value, aws : Config!Value]
        /\ (result' # Config!Raised => Config!HasDatabases(edited, l))
    BY <1>1, <1>3 DEF Config!Loaded, Config!Picked
  <1>6. Config!TypeOK'
    <2>1. \A s \in Config!Setting : environ'[s] = "unset" => shell[s] = "unset"
      BY <1>2, <1>4 DEF Config!Setting
    <2> QED BY <1>1, <1>4, <1>5, <2>1
  <1>7. Config!AgreesWithFresh'
    <2>1. ~dropped => \A s \in {"app_env", "databases", "aws"} : l[s] = Config!LoadEnv(dotenv, shell)[s]
      BY <1>2 DEF Config!LoadEnv, Config!Setting
    <2>2. ~dropped => Config!Loaded(edited, l) = Config!Loaded(edited, Config!LoadEnv(dotenv, shell))
      BY <2>1, LoadedOf
    <2> QED BY <1>1, <2>2 DEF Config!AgreesWithFresh
  <1>8. \A s \in Config!Setting \ {"data_dir"} : ~dropped' /\ dotenv'[s] = "unset" => environ'[s] = shell'[s]
    BY <1>1, <1>2, <1>4
  <1>9. "data_dir" \in Config!Setting
    BY DEF Config!Setting
  <1>10. settled /\ dotenv["data_dir"] = "unset" => environ'["data_dir"] = environ["data_dir"]
    BY <1>2, <1>4, <1>9
  <1>11. settled' => environ'["data_dir"] # "unset"
    <2>1. settled => l["data_dir"] # "unset"
      BY <1>2, <1>9
    <2> QED BY <1>1, <1>4, <1>5, <2>1
  <1> QED BY <1>6, <1>7, <1>8, <1>10, <1>11

\* Edits and restarts keep it, and leave the environment or start anew.
LEMMA EditSteps ==
  ASSUME Config!ConfigAssumption, ConfigIInv, Config!EditToml \/ Config!EditDotenv \/ Config!Restart
  PROVE  ConfigIInv' /\ (settled' => environ' = environ)
  <1> USE DEF ConfigIInv, Config!TypeOK, Config!AgreesWithFresh
  <1>1. CASE Config!EditToml
    BY <1>1 DEF Config!EditToml
  <1>2. CASE Config!EditDotenv
    <2>1. PICK s \in Config!Setting, v \in InDotenv :
            dotenv' = [dotenv EXCEPT ![s] = v] /\ dropped' = (dropped \/ (v = "unset" /\ dotenv[s] # "unset"))
      BY <1>2 DEF Config!EditDotenv
    <2>2. dotenv' \in Config!Dotenvs /\ dropped' \in BOOLEAN
      BY <2>1 DEF Config!Dotenvs
    <2>3. \A o \in Config!Setting : ~dropped' /\ dotenv'[o] = "unset" => ~dropped /\ dotenv[o] = "unset"
      BY <2>1 DEF Config!Dotenvs
    <2> QED BY <1>2, <2>2, <2>3 DEF Config!EditDotenv
  <1>3. CASE Config!Restart
    BY <1>3 DEF Config!Restart, Config!ConfigAssumption
  <1> QED BY <1>1, <1>2, <1>3

\* Every step keeps it.
LEMMA ConfigNext ==
  ASSUME Config!ConfigAssumption, ConfigIInv, [Config!Next]_Config!vars
  PROVE  ConfigIInv'
  <1>1. CASE UNCHANGED Config!vars
    BY <1>1 DEF Config!vars, ConfigIInv, Config!TypeOK, Config!AgreesWithFresh
  <1> QED BY <1>1, LoadStep, EditSteps DEF Config!Next

\* As long as no line leaves .env, a load in the long-lived scheduler gives the configuration
\* that a command started at that moment gets, whatever the earlier loads wrote.
THEOREM LoadsAgree == Config!Spec => []ConfigInv
  <1>1. Config!Init => ConfigIInv
    BY ConfigInit, ConfigConstants
  <1>2. ConfigIInv /\ [Config!Next]_Config!vars => ConfigIInv'
    BY ConfigNext, ConfigConstants
  <1>3. ConfigIInv => ConfigInv
    BY DEF ConfigIInv, ConfigInv, Config!ConfigInv
  <1> QED BY <1>1, <1>2, <1>3, PTL DEF Config!Spec

\* Once a load has returned, edits of db-toolchain.toml do not move the status file, the
\* metrics file and the job log away from under the running process.
THEOREM DirectoryStays == Config!Spec => DataDirStays
  <1> DEFINE Stays == settled /\ settled' /\ dotenv["data_dir"] = "unset" =>
                        Config!DataDir(environ') = Config!DataDir(environ)
  <1>1. Config!Init => ConfigIInv
    BY ConfigInit, ConfigConstants
  <1>2. ConfigIInv /\ [Config!Next]_Config!vars => ConfigIInv'
    BY ConfigNext, ConfigConstants
  <1>3. ConfigIInv /\ [Config!Next]_Config!vars => [Stays]_Config!vars
    BY LoadStep, EditSteps, ConfigConstants DEF Config!Next, Config!DataDir
  <1> QED BY <1>1, <1>2, <1>3, PTL DEF Config!Spec, DataDirStays, Config!DataDirStays
=============================================================================
