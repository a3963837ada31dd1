--------------------------- MODULE FairSharedLock ---------------------------
(***************************************************************************)
(* What the scheduler of requests promises, without counter, active class, *)
(* callbacks or notification loops: a lock that requests of one shared     *)
(* class hold together and an exclusive one holds alone, granted strictly  *)
(* in the order of arrival and, whenever it is granted, to as many as fit. *)
(***************************************************************************)
EXTENDS Integers, Sequences, SequencesExt

CONSTANTS Requests, Class

VARIABLES
  waiting,  \* in the order of arrival
  holding

vars == <<waiting, holding>>

\* The requests of S may hold the lock together.
Fit(S) == \A r, s \in S : r # s => Class[r] = Class[s] /\ Class[r] # "Exclusive"

Heads(q, n) == {q[i] : i \in 1..n}

Init == waiting = <<>> /\ holding = {}

\* Those at the head of the queue join held, as many as fit.
Grant(held) ==
  \E n \in 0..Len(waiting) :
    /\ Fit(held \cup Heads(waiting, n))
    /\ n < Len(waiting) => ~Fit(held \cup Heads(waiting, n + 1))
    /\ waiting' = SubSeq(waiting, n + 1, Len(waiting))
    /\ holding' = held \cup Heads(waiting, n)

Fits(r) == waiting = <<>> /\ Fit(holding \cup {r})

Enter(r) ==
  /\ r \notin holding \cup Heads(waiting, Len(waiting))
  /\ \/ /\ Fits(r)
        /\ holding' = holding \cup {r}
        /\ UNCHANGED waiting
     \/ /\ ~Fits(r)
        /\ waiting' = Append(waiting, r)
        /\ UNCHANGED holding

\* A request that leaves may have kept others waiting; Advance comes later.
Leave(r) ==
  /\ \E i \in 1..Len(waiting) : waiting[i] = r /\ waiting' = RemoveAt(waiting, i)
  /\ UNCHANGED holding

Advance == Grant(holding)

Release(r) == r \in holding /\ Grant(holding \ {r})

Next ==
  \/ Advance
  \/ \E r \in Requests : Enter(r) \/ Leave(r) \/ Release(r)

Spec == Init /\ [][Next]_vars
=============================================================================
