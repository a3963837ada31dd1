-------------------------- MODULE MCOperationGraph --------------------------
(***************************************************************************)
(* Instance of OperationGraph for TLC: the command and a client of         *)
(* rush-serve-plugin.                                                      *)
(***************************************************************************)
EXTENDS OperationGraph, TLC

CONSTANTS command, server

MethodOf == [c \in Callers |-> IF c = command THEN "execute" ELSE "serve"]
=============================================================================
