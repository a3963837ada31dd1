--------------------------- MODULE MCHeftWatchLoop ---------------------------
(***************************************************************************)
(* Instances of HeftWatchLoop for TLC: a chain of two tasks, and a third   *)
(* one that is alone.                                                      *)
(***************************************************************************)
EXTENDS HeftWatchLoop, TLC

CONSTANTS transpile, bundle, lint

TaskDependencies == [o \in Operations |-> IF o = bundle THEN {transpile} ELSE {}]

TaskWeights == [o \in Operations |-> 1]
=============================================================================
