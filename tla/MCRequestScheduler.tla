------------------------ MODULE MCRequestScheduler ------------------------
(***************************************************************************)
(* Instance of RequestScheduler for TLC: two builds, a read and an         *)
(* exclusive request.                                                      *)
(***************************************************************************)
EXTENDS RequestScheduler, TLC

CONSTANTS build1, build2, read, exclusive

MixedClasses ==
  [r \in Requests |-> CASE r \in {build1, build2} -> "SharedBuild"
                        [] r = read -> "SharedRead"
                        [] OTHER -> "Exclusive"]
=============================================================================
