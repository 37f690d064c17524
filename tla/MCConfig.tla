------------------------------ MODULE MCConfig ------------------------------
(***************************************************************************)
(* An instance of Config for TLC, next to Registry: the commands rewrite   *)
(* the list of databases, of which Config tells only whether it is there,  *)
(* and an editor what else a process loads.  Here no command runs.         *)
(***************************************************************************)
EXTENDS MCRegistry

CONSTANTS InToml, InDotenv, Shells

VARIABLES edited,    \* the toml of Config
          dotenv, shell, environ, result, current, settled, dropped

Config == INSTANCE Config WITH toml <- edited

ASSUME ConfigConstants == Config!ConfigAssumption

config == <<edited, dotenv, shell, environ, result, current, settled, dropped>>

Bare == [app_env |-> "unset", databases |-> "unset", aws |-> "unset", data_dir |-> "unset"]
DevShell == [app_env |-> "dev", databases |-> "dev", aws |-> "dev", data_dir |-> "dev"]
BareOrDev == {Bare, DevShell}

MCConfigInit == MCInit /\ Config!Init

MCConfigNext == Config!Next /\ UNCHANGED mcvars

MCConfigSpec == MCConfigInit /\ [][MCConfigNext]_<<mcvars, config>>
----------------------------------------------------------------------------
\* What Config states of a load, in every state.
ConfigInv == Config!ConfigInv

\* What Config states of the directory of a running process.
DataDirStays == Config!DataDirStays
=============================================================================
