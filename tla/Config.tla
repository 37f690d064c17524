------------------------------- MODULE Config -------------------------------
(***************************************************************************)
(* load_config of src/config.py in a process that calls it many times, as  *)
(* the scheduler does before every job: db-toolchain.toml, .env and the    *)
(* environment, which .env and load_config itself write into.  Files are   *)
(* edited at any time; a restart gives the process its shell's environment *)
(* again.  A setting stands for those read the same way: app_env for every *)
(* _pick_str with a value in the file, aws for the two credentials.        *)
(***************************************************************************)
EXTENDS Naturals

CONSTANTS InToml, InDotenv,   \* values the settings of the two files may have
          Shells              \* the environments the process may be started with

Setting == {"app_env", "databases", "aws", "data_dir"}

\* "dev" is what the defaults say ("dev", a database on localhost, "test", "."),
\* "real" another value: "prod", a database elsewhere, a key, a directory.
Value == {"unset", "blank", "dev", "real"}

ConfigAssumption ==
  /\ "unset" \in InToml \cap InDotenv /\ InToml \cup InDotenv \subseteq Value
  /\ Shells \subseteq [Setting -> Value]

VARIABLES toml, dotenv, shell,   \* the sources: shell is what a new process starts with
          environ,               \* os.environ of the process
          result,                \* the Config of the last load_config, None or Raised
          current,               \* history: the files are as that call read them
          settled,               \* history: a call returned since the process started
          dropped                \* history: a line left .env since the process started

vars == <<toml, dotenv, shell, environ, result, current, settled, dropped>>

Tomls == {t \in [Setting -> InToml] : t["aws"] = "unset"}
Dotenvs == [Setting -> InDotenv]

\* Faulty variant of LoadEnv: a variable of the environment is left alone.
LoadEnvDefaults(d, e) == [s \in Setting |-> IF e[s] = "unset" THEN d[s] ELSE e[s]]

\* load_env: a line of .env, a blank one too, replaces the variable.
LoadEnv(d, e) == [s \in Setting |-> IF d[s] = "unset" THEN e[s] ELSE d[s]]

\* _pick_str, and load_databases_from_toml, whose list has no default.
Pick(t, e, s) == IF e[s] \notin {"unset", "blank"} THEN e[s]
                 ELSE IF t[s] = "unset" /\ s # "databases" THEN "dev" ELSE t[s]

\* The Config that load_config builds.
Picked(t, e) == [is |-> "config", app_env |-> Pick(t, e, "app_env"),
                 databases |-> Pick(t, e, "databases"), aws |-> Pick(t, e, "aws")]

HasDatabases(t, e) == Pick(t, e, "databases") \notin {"unset", "blank"}

\* validate_prod_safe.
ProdSafe(c) == c.app_env = "real" => "dev" \notin {c.databases, c.aws}

Raised == [is |-> "raised"]
None == [is |-> "none"]

Loaded(t, e) == IF HasDatabases(t, e) /\ ProdSafe(Picked(t, e)) THEN Picked(t, e) ELSE Raised

\* Faulty variant of SetDefault: the directory is assigned.
SetAlways(t, e) == [e EXCEPT !["data_dir"] = Pick(t, e, "data_dir")]

\* os.environ.setdefault("DB_TOOLCHAIN_DATA_DIR", ...).
SetDefault(t, e) == IF e["data_dir"] = "unset" THEN [e EXCEPT !["data_dir"] = Pick(t, e, "data_dir")] ELSE e

\* data_dir(): where status, metrics and the job log of the process are.
DataDir(e) == IF e["data_dir"] = "real" THEN "real" ELSE "dev"

Init ==
  /\ toml \in Tomls /\ dotenv \in Dotenvs
  /\ shell \in Shells /\ environ = shell
  /\ result = None /\ current = FALSE /\ settled = FALSE /\ dropped = FALSE

Load ==
  LET e == LoadEnv(dotenv, environ) IN
  /\ environ' = IF HasDatabases(toml, e) THEN SetDefault(toml, e) ELSE e
  /\ result' = Loaded(toml, e)
  /\ current' = TRUE /\ settled' = (settled \/ result' # Raised)
  /\ UNCHANGED <<toml, dotenv, shell, dropped>>

EditToml ==
  /\ \E s \in Setting, v \in InToml : toml' = [toml EXCEPT ![s] = v] /\ toml' \in Tomls
  /\ current' = FALSE
  /\ UNCHANGED <<dotenv, shell, environ, result, settled, dropped>>

EditDotenv ==
  /\ \E s \in Setting, v \in InDotenv :
       /\ dotenv' = [dotenv EXCEPT ![s] = v]
       /\ dropped' = (dropped \/ (v = "unset" /\ dotenv[s] # "unset"))
  /\ current' = FALSE
  /\ UNCHANGED <<toml, shell, environ, result, settled>>

Restart ==
  /\ environ' = shell /\ result' = None
  /\ current' = FALSE /\ settled' = FALSE /\ dropped' = FALSE
  /\ UNCHANGED <<toml, dotenv, shell>>

Next == Load \/ EditToml \/ EditDotenv \/ Restart

Spec == Init /\ [][Next]_vars
----------------------------------------------------------------------------
(* Properties *)

\* Every variable keeps its type; the process never unsets a variable it was started with.
TypeOK ==
  /\ toml \in Tomls /\ dotenv \in Dotenvs /\ shell \in Shells
  /\ environ \in [Setting -> Value] /\ current \in BOOLEAN
  /\ result \in {None, Raised} \cup [is : {"config"}, app_env : Value, databases : Value, aws : Value]
  /\ settled \in BOOLEAN /\ dropped \in BOOLEAN
  /\ \A s \in Setting : environ[s] = "unset" => shell[s] = "unset"

\* As long as no line is taken out of .env, a load in the long-lived scheduler gives
\* the configuration that a command started at that moment gets: no
\* earlier load shows through the environment they both write into.
AgreesWithFresh ==
  result # None /\ current /\ ~dropped =>
    result = Loaded(toml, LoadEnv(dotenv, shell))

\* Once a load has returned, edits of db-toolchain.toml do not move the status file,
\* the metrics file and the job log away from under the running process.
DataDirStays ==
  [][settled /\ settled' /\ dotenv["data_dir"] = "unset" => DataDir(environ') = DataDir(environ)]_vars

\* The type of the variables and what a load gives, in every state.
ConfigInv == TypeOK /\ AgreesWithFresh
=============================================================================
