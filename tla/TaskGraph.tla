----------------------------- MODULE TaskGraph -----------------------------
(***************************************************************************)
(* What one iteration of the operation graph promises, without queue, loop *)
(* or hooks: a task runs after its dependencies, a failure blocks          *)
(* everything downstream in the same step, a finished task stays finished. *)
(* The graph is not closed before every task has ended, light ones aside.  *)
(***************************************************************************)
CONSTANTS
  Tasks,
  Before,   \* [Tasks -> SUBSET Tasks], direct dependencies
  Light     \* tasks that take no room

VARIABLES
  state,   \* per task
  closed   \* the iteration is over

vars == <<state, closed>>

TaskState == {"pending", "active", "passed", "failed", "blocked", "cancelled"}

Downstream(t) ==
  {s \in Tasks :
     \A S \in SUBSET Tasks :
       (/\ {c \in Tasks : t \in Before[c]} \subseteq S
        /\ \A q \in S : {c \in Tasks : q \in Before[c]} \subseteq S)
       => s \in S}

TypeOK == state \in [Tasks -> TaskState] /\ closed \in BOOLEAN

Init == state = [t \in Tasks |-> "pending"] /\ closed = FALSE

Start(t) ==
  /\ state[t] = "pending"
  /\ \A d \in Before[t] : state[d] \in {"passed", "cancelled"}
  /\ state' = [state EXCEPT ![t] = "active"]

\* The task could not be done here and now; it will be tried again.
Yield(t) == state[t] = "active" /\ state' = [state EXCEPT ![t] = "pending"]

Pass(t) == state[t] = "active" /\ state' = [state EXCEPT ![t] = "passed"]

\* Whoever ran the task ended it as aborted.
GiveUp(t) == state[t] = "active" /\ state' = [state EXCEPT ![t] = "cancelled"]

Fail(t) ==
  /\ state[t] = "active"
  /\ \A s \in Downstream(t) : state[s] \in {"pending", "blocked"}
  /\ state' = [s \in Tasks |-> IF s = t THEN "failed"
                               ELSE IF s \in Downstream(t) THEN "blocked"
                               ELSE state[s]]

\* Cancelled tasks have not begun, and nothing they depend on is under way.
Cancel(S) ==
  /\ \A t \in S : /\ state[t] = "pending"
                  /\ \A d \in Before[t] : d \in S \/ state[d] \in {"passed", "cancelled"}
  /\ state' = [t \in Tasks |-> IF t \in S THEN "cancelled" ELSE state[t]]

\* Light tasks may still be under way, if nothing waits for them any more.
\* Cleaning up after the iteration may still fail tasks that have ended.
Close(S) ==
  /\ \A t \in Tasks : /\ state[t] # "pending"
                      /\ state[t] = "active" => t \in Light \ S
  /\ state' = [t \in Tasks |-> IF t \in S THEN "failed" ELSE state[t]]
  /\ closed' = TRUE

\* A light task ends after the graph was closed: nothing else changes.
Settle(t) ==
  /\ state[t] = "active"
  /\ \E s \in {"passed", "failed", "cancelled"} : state' = [state EXCEPT ![t] = s]

Next ==
  \/ /\ ~closed
     /\ \/ /\ \/ \E t \in Tasks : Start(t) \/ Yield(t) \/ Pass(t) \/ GiveUp(t) \/ Fail(t)
              \/ \E S \in SUBSET Tasks : Cancel(S)
           /\ UNCHANGED closed
        \/ \E S \in SUBSET Tasks : Close(S)
  \/ /\ closed
     /\ \E t \in Tasks : Settle(t)
     /\ UNCHANGED closed

Spec == Init /\ [][Next]_vars
=============================================================================
