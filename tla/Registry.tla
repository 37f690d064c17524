------------------------------ MODULE Registry ------------------------------
(***************************************************************************)
(* db-toolchain.toml, its copy .bak, and the commands that rewrite them    *)
(* (src/db/registry.py, `databases add|remove` of src/cli.py, the          *)
(* configuration half of src/ops/setup.py), each run by a process of its   *)
(* own, next to the backups of a scheduler.  A file is the list of its     *)
(* [[databases]] ids and whether it parses; its other sections do not      *)
(* change.  DATABASES of the shell or of .env takes the place of the list. *)
(***************************************************************************)
EXTENDS Naturals, Sequences

CONSTANTS Proc, Db,      \* processes; database ids
          Commands,      \* the commands they run
          Starts,        \* the lists the file may hold at first
          Bundled,       \* the databases of the packaged db-toolchain.toml
          Exported,      \* DATABASES in the shell, <<>> when it is not set
          Dotenv,        \* DATABASES in .env, <<>> when it is not set
          MaxCommands, MaxUploads   \* bounds on commands and on backups

Lists == Seq(Db) \ {<<>>}

ASSUME RegistryAssumption ==
  /\ Commands \subseteq {"add", "remove", "setup"}
  /\ \A s \in Starts \cup {Bundled} : s \in Lists
  /\ Exported \in Seq(Db) /\ Dotenv \in Seq(Db)
  /\ MaxCommands \in Nat /\ MaxUploads \in Nat

VARIABLES toml, bak,     \* db-toolchain.toml and db-toolchain.toml.bak
          bucket,        \* the backups: pairs of a database and a number
          uploading,     \* databases the scheduler is backing up
          uploads,       \* backups begun
          started,       \* commands begun
          pc, cmd        \* where each process is, and its command

vars == <<toml, bak, bucket, uploading, uploads, started, pc, cmd>>
store == <<bucket, uploading, uploads>>

Toml(ds) == [kind |-> "toml", dbs |-> ds]
Torn(k) == [kind |-> k, dbs |-> <<>>]
Empty == Torn("empty")
Absent == Torn("absent")

Ids(ds) == {ds[i] : i \in DOMAIN ds}

\* The entries of a list that have another id, in their order.
Without(ds, d) ==
  LET rest[n \in 0 .. Len(ds)] == IF n = 0 THEN <<>>
                                  ELSE IF ds[n] = d THEN rest[n - 1] ELSE Append(rest[n - 1], ds[n])
  IN rest[Len(ds)]

PCs == {"idle", "connect", "check", "read", "ping", "list", "prune", "copy", "fill",
        "truncate", "write", "edit", "text", "schema", "done", "raised"}
Resting == {"idle", "done", "raised"}
----------------------------------------------------------------------------
\* load_env runs in load_config, which `databases add` does not call.
Env(op) == IF op # "add" /\ Dotenv # <<>> THEN Dotenv ELSE Exported

\* load_toml parses the file even if the environment replaces its list.
Loads(f, env) == f.kind \in {"toml", "empty"} /\ (env # <<>> \/ f.dbs # <<>>)

\* load_databases_from_toml.
Databases(f, env) == IF env # <<>> THEN env ELSE f.dbs

Init ==
  /\ toml \in {Toml(s) : s \in Starts} /\ bak = Absent
  /\ bucket = Ids(toml.dbs) \X {0} /\ uploading = {} /\ uploads = 0
  /\ started = 0 /\ pc = [p \in Proc |-> "idle"]
  /\ cmd = [p \in Proc |-> [op |-> "add", db |-> CHOOSE d \in Db : TRUE, prune |-> FALSE,
                           new |-> Empty, keys |-> {}]]

Goto(p, s) == pc' = [pc EXCEPT ![p] = s]
Entry(op) == [add |-> "connect", remove |-> "check", setup |-> "copy"][op]

\* databases_add, databases_remove, or setup.run with --force.
Start(p) ==
  /\ pc[p] \in Resting /\ started < MaxCommands
  /\ started' = started + 1
  /\ \E op \in Commands, d \in Db, prune \in BOOLEAN :
       /\ op # "remove" => ~prune
       /\ cmd' = [cmd EXCEPT ![p] = [op |-> op, db |-> d, prune |-> prune, keys |-> {},
                                     new |-> IF op = "setup" THEN Toml(Bundled) ELSE Empty]]
       /\ Goto(p, Entry(op))
  /\ UNCHANGED <<toml, bak, store>>

\* databases_add up to its job: the connection, the prompts.
Connect(p) ==
  /\ pc[p] = "connect"
  /\ Goto(p, "read") \/ Goto(p, "raised")
  /\ UNCHANGED <<toml, bak, store, started, cmd>>

\* databases_remove up to its job: load_config, require_database, the prompts.
Check(p) ==
  /\ pc[p] = "check"
  /\ \/ /\ Loads(toml, Env("remove"))
        /\ cmd[p].db \in Ids(Databases(toml, Env("remove")))
        /\ Goto(p, "read")
     \/ Goto(p, "raised")
  /\ UNCHANGED <<toml, bak, store, started, cmd>>

\* Faulty variant of Rest: ids are not compared.
RestUnchecked(c, ds) == IF c.op = "add" THEN {Append(ds, c.db)} ELSE {Without(ds, c.db)} \ {<<>>, ds}

\* Faulty variant of Rest: the last database is noticed only when the file is written.
RestUnguarded(c, ds) ==
  IF c.op = "add" THEN {Append(ds, c.db) : d \in {c.db} \ Ids(ds)} ELSE {Without(ds, c.db)} \ {ds}

\* The list add_database or remove_database is going to write, if it writes one.
Rest(c, ds) ==
  IF c.op = "add" THEN {Append(ds, c.db) : d \in {c.db} \ Ids(ds)}
                  ELSE {Without(ds, c.db)} \ {<<>>, ds}

\* read_registry and the checks that follow it.
Read(p) ==
  LET env == Env(cmd[p].op)
      rest == IF Loads(toml, env) THEN Rest(cmd[p], Databases(toml, env)) ELSE {} IN
  /\ pc[p] = "read"
  /\ IF rest = {}
       THEN Goto(p, "raised") /\ UNCHANGED cmd
       ELSE /\ \E ds \in rest : cmd' = [cmd EXCEPT ![p].new = Toml(ds)]
            /\ Goto(p, IF cmd[p].op = "add" THEN "ping"
                       ELSE IF cmd[p].prune THEN "list" ELSE "copy")
  /\ UNCHANGED <<toml, bak, store, started>>

\* validate_connection once more, in add_database.
Ping(p) ==
  /\ pc[p] = "ping"
  /\ Goto(p, "copy") \/ Goto(p, "raised")
  /\ UNCHANGED <<toml, bak, store, started, cmd>>

\* delete_database_backups lists the keys first.
List(p) ==
  /\ pc[p] = "list"
  /\ \/ /\ cmd' = [cmd EXCEPT ![p].keys = {b \in bucket : b[1] = cmd[p].db}]
        /\ Goto(p, "prune")
     \/ Goto(p, "raised") /\ UNCHANGED cmd
  /\ UNCHANGED <<toml, bak, store, started>>

\* Faulty variant of Prune: a deletion that fails is skipped.
PruneForgives(p) ==
  /\ pc[p] = "prune"
  /\ IF cmd[p].keys = {}
       THEN Goto(p, "copy") /\ UNCHANGED <<bucket, cmd>>
       ELSE \E k \in cmd[p].keys : /\ bucket' \in {bucket, bucket \ {k}}
                                   /\ cmd' = [cmd EXCEPT ![p].keys = @ \ {k}]
                                   /\ UNCHANGED pc
  /\ UNCHANGED <<toml, bak, uploading, uploads, started>>

\* ... and deletes them one by one.
Prune(p) ==
  /\ pc[p] = "prune"
  /\ IF cmd[p].keys = {}
       THEN Goto(p, "copy") /\ UNCHANGED <<bucket, cmd>>
       ELSE \/ \E k \in cmd[p].keys : /\ bucket' = bucket \ {k}
                                      /\ cmd' = [cmd EXCEPT ![p].keys = @ \ {k}]
                                      /\ UNCHANGED pc
            \/ Goto(p, "raised") /\ UNCHANGED <<bucket, cmd>>
  /\ UNCHANGED <<toml, bak, uploading, uploads, started>>

\* Faulty variant of OpenBak: no copy is made.
OpenBakNever(p) ==
  /\ pc[p] = "copy"
  /\ Goto(p, IF cmd[p].new.dbs = <<>> THEN "raised" ELSE "truncate")
  /\ UNCHANGED <<toml, bak, store, started, cmd>>

\* write_databases refuses an empty list; copy2 opens the copy for writing ...
OpenBak(p) ==
  /\ pc[p] = "copy"
  /\ IF cmd[p].new.dbs = <<>>
       THEN Goto(p, "raised") /\ UNCHANGED bak
       ELSE bak' = Empty /\ Goto(p, "fill")
  /\ UNCHANGED <<toml, store, started, cmd>>

\* ... and fills it, unless the disk is full.  The file fits in a block: none of it lands.
FillBak(p) ==
  /\ pc[p] = "fill"
  /\ \/ bak' = toml /\ Goto(p, "truncate")
     \/ bak' = Empty /\ Goto(p, "raised")
  /\ UNCHANGED <<toml, store, started, cmd>>

\* write_text opens the file, which empties it ...
Truncate(p) ==
  /\ pc[p] = "truncate"
  /\ toml' = Empty /\ Goto(p, "write")
  /\ UNCHANGED <<bak, store, started, cmd>>

\* ... and writes, unless the disk is full.  Over the text of another writer the longer
\* one's tail remains, and it repeats a section, which does not parse.
Write(p) ==
  /\ pc[p] = "write"
  /\ \/ /\ toml' \in {cmd[p].new} \cup IF toml = Empty THEN {} ELSE {Torn("garbled")}
        /\ \/ cmd[p].op = "add" /\ Goto(p, "schema")
           \/ cmd[p].op = "setup" /\ Goto(p, "edit")
           \/ Goto(p, "done")
     \/ UNCHANGED toml /\ Goto(p, "raised")
  /\ UNCHANGED <<bak, store, started, cmd>>

\* setup.run asks for a bucket: load_config ...
Edit(p) ==
  /\ pc[p] = "edit"
  /\ (Loads(toml, Env("setup")) /\ Goto(p, "text")) \/ Goto(p, "raised")
  /\ UNCHANGED <<toml, bak, store, started, cmd>>

\* ... and after the answer the text of the file, which it writes with the new name.
ReadText(p) ==
  /\ pc[p] = "text"
  /\ cmd' = [cmd EXCEPT ![p].new = toml] /\ Goto(p, "truncate")
  /\ UNCHANGED <<toml, bak, store, started>>

\* apply_dev_schema of a database that is registered by now.
Schema(p) ==
  /\ pc[p] = "schema"
  /\ Goto(p, "raised") \/ (Loads(toml, Env("schema")) /\ Goto(p, "done"))
  /\ UNCHANGED <<toml, bak, store, started, cmd>>

\* SIGKILL, a power cut, or Ctrl-C at a prompt.
Crash(p) ==
  /\ pc[p] \notin Resting /\ Goto(p, "idle")
  /\ UNCHANGED <<toml, bak, store, started, cmd>>

\* Someone puts the copy in the place of a file that no command can read.
Recover ==
  /\ toml.kind # "toml" /\ \A p \in Proc : pc[p] \in Resting
  /\ toml' = bak
  /\ UNCHANGED <<bak, store, started, pc, cmd>>

\* run_backup_cycle of a scheduler: what it loads, and the upload it ends with.
BeginUpload ==
  /\ uploads < MaxUploads /\ Loads(toml, Env("daily"))
  /\ \E d \in Ids(Databases(toml, Env("daily"))) : uploading' = uploading \cup {d}
  /\ uploads' = uploads + 1
  /\ UNCHANGED <<toml, bak, bucket, started, pc, cmd>>

Upload ==
  \E d \in uploading :
    /\ uploading' = uploading \ {d} /\ bucket' = bucket \cup {<<d, uploads>>}
    /\ UNCHANGED <<toml, bak, uploads, started, pc, cmd>>

Step(p) == \/ Start(p) \/ Connect(p) \/ Check(p) \/ Read(p) \/ Ping(p) \/ List(p) \/ Prune(p)
           \/ OpenBak(p) \/ FillBak(p) \/ Truncate(p) \/ Write(p) \/ Edit(p) \/ ReadText(p)
           \/ Schema(p) \/ Crash(p)

Next == (\E p \in Proc : Step(p)) \/ Recover \/ BeginUpload \/ Upload

Spec == Init /\ [][Next]_vars
----------------------------------------------------------------------------
(* Properties *)

IsFile(f) ==
  f.kind \in {"toml", "empty", "garbled", "absent"} /\ f.dbs \in Seq(Db)
    /\ (f.kind = "toml" <=> f.dbs # <<>>)

\* Every variable keeps its type, and db-toolchain.toml is never missing.
TypeOK ==
  /\ IsFile(toml) /\ toml # Absent /\ IsFile(bak)
  /\ bucket \subseteq Db \X Nat /\ uploading \subseteq Db /\ uploads \in Nat
  /\ started \in Nat /\ pc \in [Proc -> PCs]
  /\ \A p \in Proc : /\ cmd[p].op \in Commands \cup {"add"} /\ cmd[p].db \in Db
                      /\ cmd[p].prune \in BOOLEAN /\ IsFile(cmd[p].new)
                      /\ cmd[p].keys \subseteq Db \X Nat

Distinct(ds) == \A i, j \in DOMAIN ds : ds[i] = ds[j] => i = j

\* However commands interleave, crash or meet a full disk, a file that parses
\* lists no id twice: an id is a prefix in the bucket and a status file.
NoDuplicates == Distinct(toml.dbs) /\ Distinct(bak.dbs)

\* A torn file can be put right with the copy: the one that is there whenever
\* the file does not parse is the list before the command that broke it.
Current == IF toml.kind = "toml" THEN toml.dbs ELSE bak.dbs

\* What every state of the registry has.
RegistryInv == TypeOK /\ NoDuplicates
=============================================================================
