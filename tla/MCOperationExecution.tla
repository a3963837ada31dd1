----------------------- MODULE MCOperationExecution -----------------------
(***************************************************************************)
(* An instance of OperationExecution for TLC. The graph has a chain and a  *)
(* join: c needs a, d needs b and c. b takes the whole budget, and the     *)
(* runners of c and d are no-ops, which weigh nothing.                     *)
(***************************************************************************)
EXTENDS OperationExecution, TLC

CONSTANTS a, b, c, d

ChainAndJoin == a :> {} @@ b :> {} @@ c :> {a} @@ d :> {b, c}

MixedWeights == a :> 1 @@ b :> 2 @@ c :> 0 @@ d :> 0
=============================================================================
