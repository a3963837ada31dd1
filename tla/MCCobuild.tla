----------------------------- MODULE MCCobuild -----------------------------
(***************************************************************************)
(* Instances of Cobuild for TLC: a cluster of two operations, and two      *)
(* agents of which one runs both and the other one of them.                *)
(***************************************************************************)
EXTENDS Cobuild, TLC

CONSTANTS r1, r2, bundle, lint

BothAndOne == [r \in Runners |-> IF r = r1 THEN Operations ELSE {lint}]

OneCluster == [o \in Operations |-> "cluster"]
=============================================================================
