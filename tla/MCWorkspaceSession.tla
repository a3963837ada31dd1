------------------------- MODULE MCWorkspaceSession -------------------------
(***************************************************************************)
(* Instance of WorkspaceSession for TLC: two project files, of which one   *)
(* may change twice, and one file that defines the graph.                  *)
(***************************************************************************)
EXTENDS WorkspaceSession, TLC

CONSTANTS s1, s2, g

FewVersions == [p \in Paths |-> IF p = s1 THEN 2 ELSE 1]
=============================================================================
