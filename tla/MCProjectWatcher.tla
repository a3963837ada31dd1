-------------------------- MODULE MCProjectWatcher --------------------------
(***************************************************************************)
(* Instance of ProjectWatcher for TLC: the command, the calls that the     *)
(* watcher may have under way, and the key "b".                            *)
(***************************************************************************)
EXTENDS ProjectWatcher, TLC

CONSTANTS command, call1, call2, key

MethodOf == [c \in Callers |->
  CASE c = command -> "execute"
    [] c \in {call1, call2} -> "schedule"
    [] c = key -> "build"]
=============================================================================
