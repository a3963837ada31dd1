------------------------- MODULE MCDaemonOwnership -------------------------
(***************************************************************************)
(* Instances of DaemonOwnership for TLC: three processes.                  *)
(***************************************************************************)
EXTENDS DaemonOwnership, TLC
=============================================================================
