----------------------- MODULE MCInvalidationTracker -----------------------
(***************************************************************************)
(* Instance of InvalidationTracker for TLC: three paths, of which the map  *)
(* holds two.                                                              *)
(***************************************************************************)
EXTENDS InvalidationTracker, TLC

PathSymmetry == Permutations(Paths)
=============================================================================
