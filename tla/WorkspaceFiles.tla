--------------------------- MODULE WorkspaceFiles ---------------------------
(***************************************************************************)
(* The values the files of a workspace share.  JobHound rewrites its JSON  *)
(* and YAML files whole, opening them for writing first.  A JSON file that *)
(* is read before the write ends, or after a crash in between, does not    *)
(* parse; of a YAML file a prefix may (see TrustMaintenance).              *)
(***************************************************************************)
EXTENDS Integers

CONSTANTS
  None,   \* no value is kept
  Torn    \* a file that does not parse

ASSUME NoneIsNoNumber == None \notin Int
=============================================================================
