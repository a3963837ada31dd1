---------------------- MODULE OperationExecutionProofs ----------------------
(***************************************************************************)
(* For every graph, budget and set of outcomes: the state is well typed,   *)
(* no record starts before everything upstream of it has settled, failures *)
(* block exactly what is downstream of them, and the work in progress     *)
(* stays within the budget. The result of an iteration is honest, what     *)
(* changes after it is the outcome of no-op records that nobody waits for, *)
(* and the module implements TaskGraph.                                    *)
(*                                                                         *)
(* DependenciesSettled is not inductive. It needs to know that an edge is  *)
(* removed from dependencies only by a completed record that did not fail  *)
(* (EdgesInv), that only records without remaining edges leave Waiting     *)
(* (EdgesInv again), that a completed record is never handed out again     *)
(* (CallbackInv, HeldInv), and that the iteration does not end while a     *)
(* record is unfinished (EndInv).                                          *)
(*                                                                         *)
(* BlockedExactly is kept by every step that lets no record fail or leave  *)
(* Blocked (Calm). The walk of a failure goes on through Waiting records   *)
(* and stops at Blocked ones, whose dependents are Blocked already; nothing*)
(* downstream of a failure has left Waiting otherwise.                     *)
(*                                                                         *)
(* The result and the refinement go through what a step does to a record   *)
(* as seen from outside (Effect, StepHasEffect).                           *)
(***************************************************************************)
EXTENDS OperationExecution, FiniteSetTheorems, TLAPS

Ok == Terminal \ {"Failure", "Blocked"}

Quiet ==
  /\ phase = [o \in Operations |-> "none"]
  /\ timers = {}
  /\ completed = {}
  /\ held = NoOperation
  /\ pull = "idle"
  /\ iterDone = FALSE

AllTerminal == \A o \in Operations : status[o] \in Terminal

\* Where the callback of a record is, given its status.
CallbackOK(st, ph, comp, tm) ==
  \A o \in Operations :
    /\ ph[o] \in {"start", "run"} => st[o] = "Executing"
    /\ ph[o] \in {"start", "run", "after"} => o \notin comp \cup tm
    /\ ph[o] = "after" => st[o] \in Terminal \ {"Blocked"}
    /\ st[o] \in {"Ready", "Waiting", "Queued"} => ph[o] = "none"
    /\ o \in tm => st[o] = "Executing"
    /\ o \in comp => st[o] \in Terminal

\* Only completed records that did not fail have been removed from the
\* dependencies, and none remains for a record that was let through.
EdgesOK(st, ds, comp) ==
  \A o \in Operations :
    /\ \A d \in Dependencies[o] \ ds[o] : d \in comp /\ st[d] \in Ok
    /\ st[o] \notin {"Waiting", "Blocked"} => ds[o] = {}

CallbackInv == CallbackOK(status, phase, completed, timers)

EdgesInv == bail = None /\ stage # "finished" => EdgesOK(status, deps, completed)

HeldInv ==
  /\ held # NoOperation => status[held] = "Queued"
  /\ pull = "delivered" => held # NoOperation

QueueInv == \A o \in Operations \ queue : status[o] \in Terminal

EndInv ==
  /\ (isDone \/ iterDone \/ pull = "ended" \/ stage \in {"resolved", "finished"})
       => AllTerminal
  /\ stage \in {"init", "hook", "rejected"} \/ bail # None => Quiet
  /\ stage \in {"init", "hook"} => bail = None
  /\ bail # None => stage \in {"resolved", "finished"}

IndInv == TypeOK /\ CallbackInv /\ HeldInv /\ QueueInv /\ EndInv /\ EdgesInv

-----------------------------------------------------------------------------
(* What handing out a record changes *)

Pulls == {"idle", "waiting", "delivered", "ended"}

\* From the statuses st at most one record moves, from Ready to Queued, and it
\* becomes the held one; otherwise the request p ends only on an empty queue or
\* on one already done, and the loop holds h.
HandedOut(st, p, h) ==
  \/ /\ held' \in Operations
     /\ st[held'] = "Ready"
     /\ status' = [st EXCEPT ![held'] = "Queued"]
     /\ pull' = "delivered"
  \/ /\ status' = st
     /\ held' = h
     /\ \/ pull' = p
        \/ pull' = "ended" /\ (isDone \/ queue' = {})

QueueEffect(st) ==
  /\ queue' \subseteq queue
  /\ \A o \in queue \ queue' : st[o] \in Terminal
  /\ isDone' \in BOOLEAN
  /\ isDone' => isDone \/ queue' = {} \/ completed' = Operations

\* assignOperations() hands out at most one record and drops only finished ones.
LEMMA AssignEffect ==
  ASSUME NEW st \in [Operations -> Status], NEW tq \in [Operations -> Nat],
         NEW p \in Pulls, NEW h \in Operations \cup {NoOperation},
         isDone \in BOOLEAN, queue \subseteq Operations,
         AssignOperations(st, tq, p, h)
  PROVE  /\ HandedOut(st, p, h)
         /\ QueueEffect(st)
         /\ timesQueued' \in [Operations -> Nat]
<1> DEFINE left  == IF p = "waiting" THEN Unended(st) ELSE queue
           ready == {o \in left : Assignable(st[o])}
<1>1. QueueEffect(st)
  BY DEF AssignOperations, Unended, QueueEffect
<1>2. CASE p = "waiting" /\ \E o \in ready :
             /\ \A r \in ready : tq[o] <= tq[r]
             /\ status' = [st EXCEPT ![o] = "Queued"]
             /\ timesQueued' = CountAttempt(tq, o)
             /\ held' = o
             /\ pull' = "delivered"
  <2>1. PICK o \in ready : /\ status' = [st EXCEPT ![o] = "Queued"]
                           /\ timesQueued' = CountAttempt(tq, o)
                           /\ held' = o
                           /\ pull' = "delivered"
    BY <1>2
  <2>2. o \in Operations /\ st[o] = "Ready"
    BY DEF Assignable, Unended
  <2>3. HandedOut(st, p, h)
    BY <2>1, <2>2 DEF HandedOut
  <2>4. timesQueued' \in [Operations -> Nat]
    BY <2>1, <2>2 DEF CountAttempt
  <2> QED BY <1>1, <2>3, <2>4
<1>3. CASE /\ status' = st
           /\ timesQueued' = tq
           /\ held' = h
           /\ pull' = IF p = "waiting" /\ (isDone \/ left = {}) THEN "ended" ELSE p
           /\ queue' = left
  BY <1>1, <1>3 DEF HandedOut
<1>4. queue' = left
  BY DEF AssignOperations, Unended
<1> HIDE DEF left, ready
<1> QED
  BY <1>2, <1>3, <1>4 DEF AssignOperations, Unended, left, ready

\* A fetch locks the loop and makes a request, or leaves the loop idle.
LEMMA FetchEffect ==
  ASSUME NEW st \in [Operations -> Status], NEW tq \in [Operations -> Nat],
         NEW u \in Int, isDone \in BOOLEAN, queue \subseteq Operations,
         Parallelism \in Nat,
         Fetch(u, st, tq)
  PROVE  /\ \E p \in {"idle", "waiting"} : HandedOut(st, p, NoOperation)
         /\ QueueEffect(st)
         /\ timesQueued' \in [Operations -> Nat]
         /\ units' \in Int
<1>1. CASE u < Parallelism /\ units' = Locked(u)
           /\ AssignOperations(st, tq, "waiting", NoOperation)
  <2>1. "waiting" \in Pulls /\ NoOperation \in Operations \cup {NoOperation}
    BY DEF Pulls
  <2> QED BY <1>1, <2>1, AssignEffect DEF Locked
<1>2. CASE units' = u /\ AssignOperations(st, tq, "idle", NoOperation)
  <2>1. "idle" \in Pulls /\ NoOperation \in Operations \cup {NoOperation}
    BY DEF Pulls
  <2> QED BY <1>2, <2>1, AssignEffect
<1> QED BY <1>1, <1>2 DEF Fetch

Phases == {"none", "start", "run", "after", "done"}

\* Handing out a record keeps the invariant of the statuses st it starts from.
LEMMA HandOutKeeps ==
  ASSUME NEW st \in [Operations -> Status], NEW p \in Pulls,
         NEW h \in Operations \cup {NoOperation}, NoOperation \notin Operations,
         NEW ph \in [Operations -> Phases], NEW comp \in SUBSET Operations,
         NEW tm \in SUBSET Operations, NEW ds \in [Operations -> SUBSET Operations],
         CallbackOK(st, ph, comp, tm), EdgesOK(st, ds, comp),
         h # NoOperation => st[h] = "Queued",
         p = "delivered" => h # NoOperation,
         \A o \in Operations \ queue : st[o] \in Terminal,
         isDone \/ p = "ended" => \A o \in Operations : st[o] \in Terminal,
         completed' = comp,
         HandedOut(st, p, h), QueueEffect(st)
  PROVE  /\ status' \in [Operations -> Status]
         /\ held' \in Operations \cup {NoOperation}
         /\ pull' \in Pulls
         /\ CallbackOK(status', ph, comp, tm)
         /\ EdgesOK(status', ds, comp)
         /\ HeldInv' /\ QueueInv'
         /\ isDone' \/ pull' = "ended" => AllTerminal'
         /\ (\A o \in Operations : st[o] \in Terminal) => AllTerminal'
<1>1. \A o \in Operations : status'[o] # st[o] => st[o] = "Ready" /\ status'[o] = "Queued"
  BY DEF HandedOut
<1>2. status' \in [Operations -> Status] /\ pull' \in Pulls
      /\ held' \in Operations \cup {NoOperation}
  BY DEF HandedOut, Status, Pulls
<1>3. CallbackOK(status', ph, comp, tm)
  BY <1>1 DEF CallbackOK, Terminal
<1>4. EdgesOK(status', ds, comp)
  BY <1>1 DEF EdgesOK, Terminal, Ok
<1>5. HeldInv'
  BY DEF HandedOut, HeldInv
<1>6. QueueInv'
  BY <1>1 DEF QueueEffect, QueueInv, Terminal
<1>7. (\A o \in Operations : st[o] \in Terminal) => AllTerminal'
  BY <1>1 DEF AllTerminal, Terminal
<1>8. isDone' \/ pull' = "ended" => \A o \in Operations : st[o] \in Terminal
  <2>1. isDone' => isDone \/ queue' = {} \/ comp = Operations
    BY DEF QueueEffect
  <2>2. pull' = "ended" => p = "ended" \/ isDone \/ queue' = {}
    BY DEF HandedOut
  <2>3. queue' = {} => \A o \in Operations : st[o] \in Terminal
    BY DEF QueueEffect
  <2>4. comp = Operations => \A o \in Operations : st[o] \in Terminal
    BY DEF CallbackOK
  <2> QED BY <2>1, <2>2, <2>3, <2>4
<1> QED BY <1>1, <1>2, <1>3, <1>4, <1>5, <1>6, <1>7, <1>8

-----------------------------------------------------------------------------
(* One step of the loop *)

\* Consuming the held record keeps the invariant, whether the callback starts,
\* is aborted at once, or the record is kept for later.
LEMMA ConsumeKeeps ==
  ASSUME IndInv, NoOperation \notin Operations, Parallelism \in Nat, stage = "loop",
         Weight \in [Operations -> Int],
         held # NoOperation, NEW u \in Int, NEW ph \in [Operations -> Phases],
         \A q \in Operations : ph[q] = phase[q] \/ (phase[q] = "done" /\ ph[q] = "none"),
         Consume(held, u, ph),
         UNCHANGED <<stage, aborted, iterDone, timers, results, endVars, internalError>>
  PROVE  IndInv'
<1> DEFINE o == held
<1>1. /\ o \in Operations /\ status[o] = "Queued" /\ phase[o] = "none"
      /\ o \notin completed /\ o \notin timers /\ bail = None /\ deps[o] = {}
  BY DEF IndInv, TypeOK, HeldInv, CallbackInv, CallbackOK, EndInv, EdgesInv, EdgesOK, Terminal
<1>2. /\ ~AllTerminal /\ ~isDone /\ ~iterDone
      /\ stage' = "loop" /\ bail' = None /\ iterDone' = FALSE
  BY <1>1 DEF IndInv, TypeOK, EndInv, AllTerminal, Terminal, endVars
<1>3. CallbackOK(status, ph, completed, timers) /\ EdgesOK(status, deps, completed)
  BY <1>1 DEF IndInv, CallbackInv, CallbackOK, EdgesInv, EdgesOK
<1>4. CASE WouldExceed(o, u) /\ held' = o /\ pull' = "idle" /\ units' = u
           /\ phase' = ph /\ UNCHANGED <<status, deps, queueVars, flags>>
  <2>1. TypeOK'
    BY <1>1, <1>4 DEF IndInv, TypeOK, queueVars, endVars, Phases
  <2>2. CallbackInv' /\ EdgesInv'
    BY <1>3, <1>4 DEF CallbackInv, EdgesInv, queueVars
  <2>3. HeldInv' /\ QueueInv' /\ EndInv'
    BY <1>1, <1>2, <1>4 DEF IndInv, HeldInv, QueueInv, EndInv, queueVars
  <2> QED BY <2>1, <2>2, <2>3 DEF IndInv
<1>5. CASE StartCallback(o, u, ph)
  <2> DEFINE st == [status EXCEPT ![o] = "Aborted"]
             unb == Unblocked(st, deps, o)
             tq == [timesQueued EXCEPT ![o] = 0]
  <2>1. CASE /\ completed' = completed \cup {o}
             /\ deps' = Remaining(deps, {o})
             /\ phase' = [ph EXCEPT ![o] = "done"]
             /\ flags' = flags \cup {"aborted"}
             /\ Fetch(u + Weight[o], unb, tq)
    <3>1. unb \in [Operations -> Status] /\ unb[o] = "Aborted"
      BY <1>1 DEF IndInv, TypeOK, Unblocked, Status, Terminal
    <3>2. \A q \in Operations \ {o} :
             \/ unb[q] = status[q]
             \/ /\ status[q] = "Waiting" /\ unb[q] = "Ready" /\ deps[q] = {o}
      BY <1>1 DEF IndInv, TypeOK, Unblocked
    <3>3. phase' \in [Operations -> Phases] /\ u + Weight[o] \in Int
          /\ tq \in [Operations -> Nat]
      BY <1>1, <2>1 DEF IndInv, TypeOK, Phases
    <3>4. deps' \in [Operations -> SUBSET Operations]
          /\ \A q \in Operations : deps'[q] = deps[q] \ {o}
      BY <1>1, <2>1 DEF IndInv, TypeOK, Remaining
    <3>5. CallbackOK(unb, phase', completed', timers)
      BY <1>1, <1>3, <2>1, <3>1, <3>2 DEF CallbackOK, Terminal
    <3>6. EdgesOK(unb, deps', completed')
      <4> SUFFICES ASSUME NEW q \in Operations
                   PROVE  /\ \A d \in Dependencies[q] \ deps'[q] :
                               d \in completed' /\ unb[d] \in Ok
                          /\ unb[q] \notin {"Waiting", "Blocked"} => deps'[q] = {}
        BY DEF EdgesOK
      <4>1. ASSUME NEW d \in Dependencies[q] \ deps'[q]
            PROVE  d \in completed' /\ unb[d] \in Ok
        <5>1. d \in Operations
          BY ExecutionAssumption
        <5>2. d # o => d \in completed /\ status[d] \in Ok
          BY <1>3, <3>4 DEF EdgesOK
        <5> HIDE DEF unb
        <5> QED BY <2>1, <3>1, <3>2, <5>1, <5>2 DEF Ok, Terminal
      <4>2. ASSUME unb[q] \notin {"Waiting", "Blocked"}
            PROVE  deps'[q] = {}
        <5>1. q = o \/ unb[q] = status[q] => deps[q] = {}
          BY <1>1, <1>3, <4>2 DEF EdgesOK
        <5> HIDE DEF unb
        <5> QED BY <3>2, <3>4, <5>1
      <4> QED BY <4>1, <4>2
    <3>7. \A q \in Operations \ queue : unb[q] \in Terminal
      BY <1>1, <3>1, <3>2 DEF IndInv, QueueInv, Terminal
    <3>8. PICK p \in {"idle", "waiting"} :
             HandedOut(unb, p, NoOperation) /\ QueueEffect(unb)
             /\ timesQueued' \in [Operations -> Nat] /\ units' \in Int
      <4>1. isDone \in BOOLEAN /\ queue \subseteq Operations
        BY DEF IndInv, TypeOK
      <4> DEFINE nu == u + Weight[o]
      <4>2. nu \in Int /\ Fetch(nu, unb, tq)
        BY <2>1, <3>3
      <4>3. unb \in [Operations -> Status] /\ tq \in [Operations -> Nat]
        BY <3>1, <3>3
      <4> HIDE DEF unb, tq, nu
      <4> QED BY <4>1, <4>2, <4>3, FetchEffect
    <3>9. completed' \in SUBSET Operations /\ timers \in SUBSET Operations
          /\ p \in Pulls /\ p # "delivered" /\ p # "ended"
      BY <1>1, <2>1 DEF IndInv, TypeOK, Pulls
    <3>10. /\ status' \in [Operations -> Status]
           /\ held' \in Operations \cup {NoOperation}
           /\ pull' \in Pulls
           /\ CallbackOK(status', phase', completed', timers)
           /\ EdgesOK(status', deps', completed')
           /\ HeldInv' /\ QueueInv'
           /\ isDone' \/ pull' = "ended" => AllTerminal'
      <4> HIDE DEF unb
      <4> QED BY <1>2, <3>1, <3>3, <3>4, <3>5, <3>6, <3>7, <3>8, <3>9, HandOutKeeps
    <3>11. TypeOK'
      BY <1>1, <2>1, <3>3, <3>4, <3>8, <3>9, <3>10 DEF IndInv, TypeOK, endVars, Phases, Pulls, QueueEffect
    <3>12. CallbackInv' /\ EdgesInv'
      BY <3>10 DEF CallbackInv, EdgesInv
    <3>13. EndInv'
      BY <1>2, <3>10 DEF EndInv, IndInv
    <3> QED BY <3>10, <3>11, <3>12, <3>13 DEF IndInv
  <2>2. CASE /\ phase' = [ph EXCEPT ![o] = "start"]
             /\ UNCHANGED <<completed, deps, flags>>
             /\ Fetch(u + Weight[o], [status EXCEPT ![o] = "Executing"], timesQueued)
    <3> DEFINE ex == [status EXCEPT ![o] = "Executing"]
    <3>1. ex \in [Operations -> Status] /\ ex[o] = "Executing"
      BY <1>1 DEF IndInv, TypeOK, Status
    <3>2. \A q \in Operations \ {o} : ex[q] = status[q]
      BY <1>1 DEF IndInv, TypeOK
    <3>3. phase' \in [Operations -> Phases] /\ u + Weight[o] \in Int
      BY <1>1, <2>2 DEF IndInv, TypeOK, Phases
    <3>5. CallbackOK(ex, phase', completed', timers)
      BY <1>1, <1>3, <2>2, <3>1, <3>2 DEF CallbackOK, Terminal
    <3>6. EdgesOK(ex, deps', completed')
      BY <1>1, <1>3, <2>2, <3>1, <3>2 DEF EdgesOK, Ok, Terminal
    <3>7. \A q \in Operations \ queue : ex[q] \in Terminal
      BY <1>1, <3>1, <3>2 DEF IndInv, QueueInv, Terminal
    <3>8. PICK p \in {"idle", "waiting"} :
             HandedOut(ex, p, NoOperation) /\ QueueEffect(ex)
             /\ timesQueued' \in [Operations -> Nat] /\ units' \in Int
      <4>1. isDone \in BOOLEAN /\ queue \subseteq Operations
            /\ timesQueued \in [Operations -> Nat]
        BY DEF IndInv, TypeOK
      <4> DEFINE nu == u + Weight[o]
      <4>2. nu \in Int /\ Fetch(nu, ex, timesQueued)
        BY <2>2, <3>3
      <4> HIDE DEF ex, nu
      <4> QED BY <3>1, <4>1, <4>2, FetchEffect
    <3>9. completed' \in SUBSET Operations /\ timers \in SUBSET Operations
          /\ p \in Pulls /\ p # "delivered" /\ p # "ended"
          /\ deps' \in [Operations -> SUBSET Operations]
      BY <1>1, <2>2 DEF IndInv, TypeOK, Pulls
    <3>10. /\ status' \in [Operations -> Status]
           /\ held' \in Operations \cup {NoOperation}
           /\ pull' \in Pulls
           /\ CallbackOK(status', phase', completed', timers)
           /\ EdgesOK(status', deps', completed')
           /\ HeldInv' /\ QueueInv'
           /\ isDone' \/ pull' = "ended" => AllTerminal'
      <4> HIDE DEF ex
      <4> QED BY <1>2, <3>1, <3>3, <3>5, <3>6, <3>7, <3>8, <3>9, HandOutKeeps
    <3>11. TypeOK'
      BY <1>1, <2>2, <3>3, <3>8, <3>9, <3>10 DEF IndInv, TypeOK, endVars, Phases, Pulls, QueueEffect
    <3>12. CallbackInv' /\ EdgesInv'
      BY <3>10 DEF CallbackInv, EdgesInv
    <3>13. EndInv'
      BY <1>2, <3>10 DEF EndInv, IndInv
    <3> QED BY <3>10, <3>11, <3>12, <3>13 DEF IndInv
  <2> QED BY <1>5, <2>1, <2>2 DEF StartCallback
<1> QED BY <1>4, <1>5 DEF Consume

\* Fetching from the statuses st keeps what HandOutKeeps keeps.
LEMMA FetchKeeps ==
  ASSUME IndInv, NoOperation \notin Operations, Parallelism \in Nat,
         NEW u \in Int, Fetch(u, status, timesQueued),
         NEW ph \in [Operations -> Phases], CallbackOK(status, ph, completed, timers),
         EdgesOK(status, deps, completed),
         stage' = "loop", bail' = None, iterDone' = FALSE, phase' = ph, result' = result,
         UNCHANGED <<aborted, deps, completed, timers, results, flags, internalError>>
  PROVE  IndInv'
<1>1. isDone \in BOOLEAN /\ queue \subseteq Operations
      /\ timesQueued \in [Operations -> Nat] /\ status \in [Operations -> Status]
      /\ completed \in SUBSET Operations /\ timers \in SUBSET Operations
      /\ deps \in [Operations -> SUBSET Operations]
  BY DEF IndInv, TypeOK
<1>2. PICK p \in {"idle", "waiting"} :
         HandedOut(status, p, NoOperation) /\ QueueEffect(status)
         /\ timesQueued' \in [Operations -> Nat] /\ units' \in Int
  BY <1>1, FetchEffect
<1>3. /\ \A q \in Operations \ queue : status[q] \in Terminal
      /\ isDone => \A q \in Operations : status[q] \in Terminal
      /\ p \in Pulls /\ p # "delivered" /\ p # "ended"
  BY DEF IndInv, QueueInv, EndInv, AllTerminal, Pulls
<1>4. /\ status' \in [Operations -> Status]
      /\ held' \in Operations \cup {NoOperation}
      /\ pull' \in Pulls
      /\ CallbackOK(status', ph, completed, timers)
      /\ EdgesOK(status', deps, completed)
      /\ HeldInv' /\ QueueInv'
      /\ isDone' \/ pull' = "ended" => AllTerminal'
  BY <1>1, <1>2, <1>3, HandOutKeeps
<1>5. TypeOK'
  BY <1>1, <1>2, <1>4 DEF IndInv, TypeOK, Phases, Pulls, QueueEffect
<1>6. CallbackInv' /\ EdgesInv'
  BY <1>4 DEF CallbackInv, EdgesInv
<1>7. EndInv'
  BY <1>4 DEF EndInv
<1> QED BY <1>4, <1>5, <1>6, <1>7 DEF IndInv

-----------------------------------------------------------------------------
(* The invariant is inductive *)

LEMMA ConstantTypes ==
  /\ NoOperation \notin Operations
  /\ Dependencies \in [Operations -> SUBSET Operations]
  /\ Parallelism \in Nat /\ Parallelism > 0
  /\ Weight \in [Operations -> Int]
  /\ HookStatuses \subseteq Terminal \ {"Blocked"}
  /\ RunnerStatuses \subseteq Terminal \ {"Blocked"}
  /\ BailStatuses \subseteq Terminal
BY ExecutionAssumption

LEMMA InitIndInv == Init => IndInv
<1> SUFFICES ASSUME Init PROVE IndInv
  OBVIOUS
<1>1. TypeOK
  <2>1. status \in [Operations -> Status]
    BY DEF Init, Status
  <2>2. /\ deps \in [Operations -> SUBSET Operations]
        /\ timesQueued \in [Operations -> Nat]
        /\ phase \in [Operations -> {"none", "start", "run", "after", "done"}]
    BY ConstantTypes DEF Init
  <2>3. aborted \in BOOLEAN /\ isDone \in BOOLEAN /\ iterDone \in BOOLEAN
        /\ internalError \in BOOLEAN
    BY Zenon DEF Init
  <2>4. /\ stage \in {"init", "hook", "loop", "resolved", "finished"}
        /\ queue \subseteq Operations /\ completed \subseteq Operations
        /\ pull \in {"idle", "waiting", "delivered", "ended"}
        /\ held \in Operations \cup {NoOperation} /\ units \in Int
        /\ timers \subseteq Operations /\ results \subseteq Operations
        /\ flags \subseteq {"failures", "aborted", "warnings"}
        /\ bail \in Terminal \cup {None} /\ result \in Terminal \cup {None}
    BY DEF Init
  <2> QED BY <2>1, <2>2, <2>3, <2>4, Zenon DEF TypeOK
<1>2. CallbackInv /\ HeldInv /\ QueueInv
  BY DEF Init, CallbackInv, CallbackOK, HeldInv, QueueInv
<1>3. EndInv
  BY DEF Init, EndInv, Quiet
<1>4. EdgesInv
  BY DEF Init, EdgesInv, EdgesOK
<1> QED BY <1>1, <1>2, <1>3, <1>4 DEF IndInv

LEMMA BailKeeps ==
  ASSUME IndInv, stage \in {"init", "hook"}, NEW b \in Terminal, BailWith(b)
  PROVE  IndInv'
<1>1. Quiet
  BY DEF IndInv, EndInv
<1>2. \A o \in Operations : status'[o] \in Terminal
  BY DEF BailWith, Terminal
<1>3. TypeOK'
  BY <1>2 DEF IndInv, TypeOK, BailWith, Status, queueVars, loopVars
<1>4. CallbackInv' /\ HeldInv' /\ QueueInv' /\ EndInv'
  BY <1>1, <1>2 DEF IndInv, BailWith, Quiet, CallbackInv, CallbackOK, HeldInv, QueueInv,
                    EndInv, AllTerminal, queueVars, loopVars, Terminal
<1>5. EdgesInv'
  BY DEF BailWith, EdgesInv, None, Terminal
<1> QED BY <1>3, <1>4, <1>5 DEF IndInv

LEMMA BeginKeeps ==
  ASSUME IndInv, StartIteration \/ BeforeIterationReturns
  PROVE  IndInv'
<1>1. CASE stage = "init" /\ BailWith("Aborted")
  <2>1. "Aborted" \in Terminal
    BY DEF Terminal
  <2> QED BY <1>1, <2>1, BailKeeps
<1>2. CASE stage \in {"init", "hook"} /\ stage' \in {"hook", "rejected"}
           /\ UNCHANGED <<aborted, status, deps, queueVars, loopVars, phase, timers,
                          results, flags, endVars, internalError>>
  BY <1>2 DEF IndInv, TypeOK, CallbackInv, HeldInv, QueueInv, EndInv, EdgesInv,
              AllTerminal, Quiet, queueVars, loopVars, endVars
<1>3. CASE stage = "hook" /\ \E b \in BailStatuses : BailWith(b)
  BY <1>3, BailKeeps, ConstantTypes
<1>4. CASE stage = "hook" /\ stage' = "loop" /\ Fetch(0, status, timesQueued)
           /\ UNCHANGED <<aborted, deps, completed, iterDone, phase, timers, results,
                          flags, endVars, internalError>>
  <2>1. bail = None /\ Quiet
    BY <1>4 DEF IndInv, EndInv
  <2>2. /\ phase \in [Operations -> Phases] /\ CallbackOK(status, phase, completed, timers)
        /\ EdgesOK(status, deps, completed)
    BY <1>4, <2>1 DEF IndInv, TypeOK, Phases, CallbackInv, EdgesInv
  <2>3. 0 \in Int /\ bail' = None /\ result' = result
    BY <1>4, <2>1 DEF endVars
  <2>4. iterDone' = FALSE
    BY <1>4, <2>1 DEF Quiet
  <2> QED BY <1>4, <2>2, <2>3, <2>4, FetchKeeps, ConstantTypes
<1> QED BY <1>1, <1>2, <1>3, <1>4 DEF StartIteration, BeforeIterationReturns

LEMMA LoopKeeps ==
  ASSUME IndInv, LoopStep
  PROVE  IndInv'
<1>1. CASE LoopResume
  <2>1. held # NoOperation /\ held \in Operations /\ status[held] = "Queued"
    BY <1>1 DEF LoopResume, IndInv, TypeOK, HeldInv
  <2>2. stage = "loop"
    BY <2>1 DEF IndInv, TypeOK, EndInv, AllTerminal, Quiet, Terminal
  <2>3. units - Parallelism \in Int /\ phase \in [Operations -> Phases]
    BY ConstantTypes DEF IndInv, TypeOK, Phases
  <2> QED BY <1>1, <2>1, <2>2, <2>3, ConsumeKeeps, ConstantTypes DEF LoopResume
<1>2. CASE LoopEnd
  <2>1. AllTerminal /\ bail = None /\ stage \notin {"init", "hook", "rejected"}
    BY <1>2 DEF LoopEnd, IndInv, EndInv, Quiet
  <2>2. stage' \in {stage, "resolved"} /\ status' = status
    BY <1>2 DEF LoopEnd
  <2>3. TypeOK'
    BY <1>2, ConstantTypes DEF LoopEnd, IndInv, TypeOK, queueVars, endVars
  <2>4. CallbackInv' /\ HeldInv' /\ QueueInv'
    BY <1>2 DEF LoopEnd, IndInv, CallbackInv, HeldInv, QueueInv, queueVars, endVars
  <2>5. EndInv'
    BY <1>2, <2>1, <2>2 DEF LoopEnd, EndInv, AllTerminal, endVars
  <2>6. EdgesInv'
    BY <1>2, <2>1, <2>2 DEF LoopEnd, IndInv, EdgesInv, queueVars, endVars
  <2> QED BY <2>3, <2>4, <2>5, <2>6 DEF IndInv
<1> QED BY <1>1, <1>2 DEF LoopStep

LEMMA CallbackEndsKeeps ==
  ASSUME IndInv, NEW o \in Operations, CallbackEnds(o)
  PROVE  IndInv'
<1> DEFINE u  == units - Weight[o]
           ph == [phase EXCEPT ![o] = "none"]
<1>1. /\ u \in Int /\ ph \in [Operations -> Phases]
      /\ CallbackOK(status, ph, completed, timers)
      /\ \A q \in Operations : ph[q] = phase[q] \/ (phase[q] = "done" /\ ph[q] = "none")
  BY ConstantTypes DEF CallbackEnds, IndInv, TypeOK, Phases, CallbackInv, CallbackOK
<1>2. bail = None /\ stage \notin {"init", "hook", "rejected"}
  BY DEF CallbackEnds, IndInv, EndInv, Quiet
<1>3. CASE /\ stage # "loop" \/ iterDone
           /\ stage' = IF stage = "loop" /\ NothingInProgress(u) THEN "resolved" ELSE stage
           /\ units' = u
           /\ phase' = ph
           /\ UNCHANGED <<status, deps, queueVars, pull, held, flags>>
  <2>1. UNCHANGED <<aborted, iterDone, timers, results, endVars, internalError>>
    BY DEF CallbackEnds
  <2>2. TypeOK'
    BY <1>1, <1>3, <2>1 DEF IndInv, TypeOK, Phases, queueVars, endVars
  <2>3. CallbackInv' /\ HeldInv' /\ QueueInv' /\ EdgesInv'
    BY <1>1, <1>2, <1>3, <2>1 DEF IndInv, CallbackInv, HeldInv, QueueInv, EdgesInv, queueVars, endVars
  <2>4. stage' \in {stage, "resolved"} /\ (stage' = "resolved" => AllTerminal)
    BY <1>3 DEF IndInv, TypeOK, EndInv
  <2>5. EndInv'
    BY <1>2, <1>3, <2>1, <2>4 DEF IndInv, EndInv, AllTerminal, queueVars, endVars
  <2> QED BY <2>2, <2>3, <2>5 DEF IndInv
<1>4. CASE stage = "loop" /\ ~iterDone /\ QueueOperations(u, ph) /\ UNCHANGED stage
  <2>1. UNCHANGED <<aborted, iterDone, timers, results, endVars, internalError>>
        /\ stage' = "loop" /\ bail' = None /\ iterDone' = FALSE /\ result' = result
    BY <1>2, <1>4 DEF CallbackEnds, IndInv, TypeOK, endVars
  <2>2. EdgesOK(status, deps, completed)
    BY <1>2, <1>4 DEF IndInv, EdgesInv
  <2> HIDE DEF u, ph
  <2>3. CASE held # NoOperation /\ Consume(held, u, ph)
    BY <1>1, <1>4, <2>1, <2>3, ConsumeKeeps, ConstantTypes
  <2>4. CASE phase' = ph /\ UNCHANGED <<completed, deps, flags>> /\ Fetch(u, status, timesQueued)
    BY <1>1, <2>1, <2>2, <2>4, FetchKeeps, ConstantTypes
  <2>5. CASE phase' = ph /\ units' = u /\ UNCHANGED <<status, deps, queueVars, pull, held, flags>>
    <3>1. TypeOK'
      BY <1>1, <2>1, <2>5 DEF IndInv, TypeOK, Phases, queueVars, endVars
    <3>2. CallbackInv' /\ HeldInv' /\ QueueInv' /\ EdgesInv'
      BY <1>1, <1>2, <1>4, <2>1, <2>5
         DEF IndInv, CallbackInv, HeldInv, QueueInv, EdgesInv, queueVars, endVars
    <3>3. EndInv'
      BY <1>2, <1>4, <2>1, <2>5 DEF IndInv, EndInv, AllTerminal, queueVars, endVars
    <3> QED BY <3>1, <3>2, <3>3 DEF IndInv
  <2> QED BY <1>4, <2>3, <2>4, <2>5 DEF QueueOperations
<1> HIDE DEF u, ph
<1> QED BY <1>3, <1>4 DEF CallbackEnds, u, ph

\* Steps of one callback that touch neither queue nor loop.
LEMMA ProgressKeeps ==
  ASSUME IndInv, NEW o \in Operations, RunnerStarts(o) \/ HookDecides(o) \/ RunnerReturns(o)
  PROVE  IndInv'
<1>1. /\ phase[o] \in {"start", "run"} /\ status[o] = "Executing" /\ deps[o] = {}
      /\ stage = "loop" /\ bail = None /\ ~AllTerminal
  <2>1. phase[o] \in {"start", "run"} /\ status[o] = "Executing"
    BY DEF RunnerStarts, HookDecides, RunnerReturns, IndInv, CallbackInv, CallbackOK
  <2>2. ~AllTerminal
    BY <2>1 DEF AllTerminal, Terminal
  <2>3. stage = "loop" /\ bail = None
    BY <2>1, <2>2 DEF IndInv, TypeOK, EndInv, Quiet
  <2> QED BY <2>1, <2>2, <2>3 DEF IndInv, EdgesInv, EdgesOK
<1>2. CASE RunnerStarts(o)
  <2>1. TypeOK'
    BY <1>2 DEF RunnerStarts, IndInv, TypeOK, queueVars, loopVars, endVars
  <2>2. CallbackInv'
    BY <1>1, <1>2 DEF RunnerStarts, IndInv, TypeOK, CallbackInv, CallbackOK, queueVars
  <2>3. HeldInv' /\ QueueInv' /\ EdgesInv' /\ EndInv'
    BY <1>1, <1>2 DEF RunnerStarts, IndInv, HeldInv, QueueInv, EdgesInv, EndInv, AllTerminal,
                      queueVars, loopVars, endVars
  <2> QED BY <2>1, <2>2, <2>3 DEF IndInv
<1>3. CASE \E s \in Terminal \ {"Blocked"} : SetTerminal(o, s)
  <2>1. PICK s \in Terminal \ {"Blocked"} : SetTerminal(o, s)
    BY <1>3
  <2>2. TypeOK'
    BY <2>1 DEF SetTerminal, IndInv, TypeOK, Status, queueVars, loopVars, endVars
  <2>3. CallbackInv'
    BY <1>1, <2>1 DEF SetTerminal, IndInv, TypeOK, CallbackInv, CallbackOK, queueVars, Terminal
  <2>4. HeldInv' /\ QueueInv'
    BY <1>1, <2>1 DEF SetTerminal, IndInv, TypeOK, HeldInv, QueueInv, queueVars, loopVars
  <2>5. EdgesInv'
    <3>1. EdgesOK(status, deps, completed) /\ o \notin completed
      BY <1>1 DEF IndInv, EdgesInv, CallbackInv, CallbackOK
    <3> QED BY <1>1, <2>1, <3>1 DEF SetTerminal, IndInv, TypeOK, EdgesInv, EdgesOK, queueVars
  <2>6. EndInv'
    BY <1>1, <2>1 DEF SetTerminal, IndInv, EndInv, queueVars, loopVars, endVars
  <2> QED BY <2>2, <2>3, <2>4, <2>5, <2>6 DEF IndInv
<1> QED BY <1>2, <1>3, ConstantTypes DEF HookDecides, RunnerReturns

\* assignOperations() called by a handler, on the statuses st it leaves behind.
LEMMA AssignKeeps ==
  ASSUME IndInv, bail = None, stage \notin {"init", "hook", "rejected"},
         NEW st \in [Operations -> Status], NEW tq \in [Operations -> Nat],
         AssignOperations(st, tq, pull, held),
         phase' \in [Operations -> Phases], completed' \in SUBSET Operations,
         timers' \in SUBSET Operations, deps' \in [Operations -> SUBSET Operations],
         CallbackOK(st, phase', completed', timers'), stage # "finished" => EdgesOK(st, deps', completed'),
         held # NoOperation => st[held] = "Queued",
         \A q \in Operations : status[q] \in Terminal => st[q] \in Terminal,
         results' \subseteq Operations, flags' \subseteq {"failures", "aborted", "warnings"},
         internalError' \in BOOLEAN,
         UNCHANGED <<stage, aborted, units, iterDone, bail, result>>
  PROVE  IndInv'
<1>1. /\ isDone \in BOOLEAN /\ queue \subseteq Operations /\ pull \in Pulls
      /\ held \in Operations \cup {NoOperation}
      /\ pull = "delivered" => held # NoOperation
      /\ \A q \in Operations \ queue : st[q] \in Terminal
  BY DEF IndInv, TypeOK, Pulls, HeldInv, QueueInv
<1>2. /\ isDone \/ pull = "ended" => \A q \in Operations : st[q] \in Terminal
      /\ iterDone \/ stage \in {"resolved", "finished"} => \A q \in Operations : st[q] \in Terminal
  BY DEF IndInv, EndInv, AllTerminal
<1>3. HandedOut(st, pull, held) /\ QueueEffect(st) /\ timesQueued' \in [Operations -> Nat]
  BY <1>1, AssignEffect
<1>4. /\ status' \in [Operations -> Status]
      /\ held' \in Operations \cup {NoOperation}
      /\ pull' \in Pulls
      /\ CallbackOK(status', phase', completed', timers')
      /\ stage # "finished" => EdgesOK(status', deps', completed')
      /\ HeldInv' /\ QueueInv'
      /\ isDone' \/ pull' = "ended" => AllTerminal'
      /\ (\A q \in Operations : st[q] \in Terminal) => AllTerminal'
  <2>1. CASE stage # "finished"
    BY <1>1, <1>2, <1>3, <2>1, HandOutKeeps, ConstantTypes
  <2>2. CASE stage = "finished"
    <3>1. status' = st /\ held' = held /\ (pull' = pull \/ pull' = "ended")
      BY <1>2, <1>3, <2>2 DEF HandedOut, Terminal
    <3> QED BY <1>1, <1>2, <1>3, <2>2, <3>1
            DEF QueueEffect, HeldInv, QueueInv, AllTerminal, Pulls
  <2> QED BY <2>1, <2>2
<1>5. TypeOK'
  BY <1>1, <1>3, <1>4 DEF IndInv, TypeOK, Phases, Pulls, QueueEffect
<1>6. CallbackInv' /\ EdgesInv'
  BY <1>4 DEF CallbackInv, EdgesInv
<1>7. EndInv'
  BY <1>2, <1>4 DEF EndInv
<1> QED BY <1>4, <1>5, <1>6, <1>7 DEF IndInv

\* A cobuild retry: the record keeps its status until the timer makes it Ready.
LEMMA RetryKeeps ==
  ASSUME IndInv, NEW o \in Operations, HookRetries(o) \/ RetryTimerFires(o)
  PROVE  IndInv'
<1>1. status[o] = "Executing" /\ o \notin completed
  BY DEF HookRetries, RetryTimerFires, IndInv, CallbackInv, CallbackOK, Terminal
<1>2. stage = "loop" /\ bail = None /\ deps[o] = {}
  <2>1. ~AllTerminal
    BY <1>1 DEF AllTerminal, Terminal
  <2>2. ~Quiet
    BY DEF HookRetries, RetryTimerFires, Quiet
  <2> QED BY <1>1, <2>1, <2>2 DEF IndInv, TypeOK, EndInv, EdgesInv, EdgesOK
<1>3. /\ status \in [Operations -> Status] /\ timesQueued \in [Operations -> Nat]
      /\ CallbackOK(status, phase, completed, timers) /\ EdgesOK(status, deps, completed)
      /\ held # NoOperation => status[held] = "Queued" /\ held # o
  BY <1>1, <1>2 DEF IndInv, TypeOK, CallbackInv, EdgesInv, HeldInv
<1>4. CASE HookRetries(o)
  <2>1. phase' \in [Operations -> Phases] /\ timers' \in SUBSET Operations
        /\ CallbackOK(status, phase', completed, timers')
    BY <1>1, <1>3, <1>4 DEF HookRetries, IndInv, TypeOK, Phases, CallbackOK
  <2>2. /\ completed' \in SUBSET Operations /\ deps' \in [Operations -> SUBSET Operations]
        /\ completed' = completed /\ deps' = deps
        /\ results' \subseteq Operations /\ flags' \subseteq {"failures", "aborted", "warnings"}
        /\ internalError' \in BOOLEAN
        /\ UNCHANGED <<stage, aborted, units, iterDone, bail, result>>
        /\ AssignOperations(status, timesQueued, pull, held)
    BY <1>4 DEF HookRetries, IndInv, TypeOK, endVars
  <2> QED BY <1>2, <1>3, <2>1, <2>2, AssignKeeps
<1>5. CASE RetryTimerFires(o)
  <2> DEFINE st == [status EXCEPT ![o] = "Ready"]
  <2>1. st \in [Operations -> Status] /\ timers' \in SUBSET Operations
        /\ \A q \in Operations : st[q] = IF q = o THEN "Ready" ELSE status[q]
    BY <1>3, <1>5 DEF RetryTimerFires, IndInv, TypeOK, Status
  <2>2. CallbackOK(st, phase, completed, timers')
    BY <1>1, <1>3, <1>5, <2>1 DEF RetryTimerFires, CallbackOK, Terminal
  <2>3. EdgesOK(st, deps, completed)
    BY <1>1, <1>2, <1>3, <2>1 DEF EdgesOK
  <2>4. /\ completed' \in SUBSET Operations /\ deps' \in [Operations -> SUBSET Operations]
        /\ phase' \in [Operations -> Phases]
        /\ completed' = completed /\ deps' = deps /\ phase' = phase
        /\ results' \subseteq Operations /\ flags' \subseteq {"failures", "aborted", "warnings"}
        /\ internalError' \in BOOLEAN
        /\ UNCHANGED <<stage, aborted, units, iterDone, bail, result>>
        /\ AssignOperations(st, timesQueued, pull, held)
    BY <1>5 DEF RetryTimerFires, IndInv, TypeOK, endVars, Phases
  <2>5. /\ \A q \in Operations : status[q] \in Terminal => st[q] \in Terminal
        /\ held # NoOperation => st[held] = "Queued"
    <3>1. held \in Operations \cup {NoOperation}
      BY DEF IndInv, TypeOK
    <3> QED BY <1>1, <1>3, <2>1, <3>1 DEF Terminal
  <2> HIDE DEF st
  <2> QED BY <1>2, <1>3, <2>1, <2>2, <2>3, <2>4, <2>5, AssignKeeps
<1> QED BY <1>4, <1>5

\* A completion, with the records a failure blocks.
LEMMA CompletionKeeps ==
  ASSUME IndInv, NEW o \in Operations, OperationCompletes(o)
  PROVE  IndInv'
<1>1. /\ phase[o] = "after" /\ o \notin completed /\ o \notin timers
      /\ status[o] \in Terminal \ {"Blocked"}
      /\ bail = None /\ stage \notin {"init", "hook", "rejected"}
  BY DEF OperationCompletes, IndInv, CallbackInv, CallbackOK, EndInv, Quiet
<1>2. PICK s \in StatusesAfterHook(status[o]) :
        LET st    == [status EXCEPT ![o] = s]
            ended == {o} \cup BlockedBy(o, st)
        IN \/ /\ s = "Failure" /\ UnexpectedConsumer(o, st)
              /\ internalError' = TRUE
              /\ status' = st
              /\ UNCHANGED <<deps, queueVars, pull, held, results, flags>>
           \/ /\ ~(s = "Failure" /\ UnexpectedConsumer(o, st))
              /\ flags' = flags \cup FlagOf(o, s)
              /\ results' = IF s \in {"Skipped", "Aborted"} THEN results
                            ELSE results \cup {o}
              /\ completed' = completed \cup ended
              /\ deps' = IF s = "Failure" THEN deps ELSE Remaining(deps, {o})
              /\ AssignOperations(
                   AfterCompletion(o, st),
                   [p \in Operations |-> IF p \in ended THEN 0 ELSE timesQueued[p]],
                   pull, held)
              /\ UNCHANGED internalError
  BY DEF OperationCompletes
<1> DEFINE st    == [status EXCEPT ![o] = s]
           ended == {o} \cup BlockedBy(o, st)
           st2   == AfterCompletion(o, st)
           tq    == [p \in Operations |-> IF p \in ended THEN 0 ELSE timesQueued[p]]
<1>3. /\ s \in Terminal \ {"Blocked"}
      /\ st \in [Operations -> Status]
      /\ \A q \in Operations : st[q] = IF q = o THEN s ELSE status[q]
      /\ phase' = [phase EXCEPT ![o] = "done"]
      /\ UNCHANGED <<stage, aborted, units, iterDone, timers, bail, result>>
  BY <1>1 DEF StatusesAfterHook, OperationCompletes, IndInv, TypeOK, Status, Terminal, endVars
<1>4. /\ phase' \in [Operations -> Phases]
      /\ timers' \in SUBSET Operations
      /\ CallbackOK(status, phase, completed, timers)
      /\ stage # "finished" => EdgesOK(status, deps, completed)
  BY <1>1, <1>3 DEF IndInv, TypeOK, Phases, CallbackInv, EdgesInv
<1>5. CASE /\ internalError' = TRUE
           /\ status' = st
           /\ UNCHANGED <<deps, queueVars, pull, held, results, flags>>
  <2>1. TypeOK'
    BY <1>3, <1>4, <1>5 DEF IndInv, TypeOK, Phases, queueVars
  <2>2. CallbackInv' /\ HeldInv' /\ QueueInv'
    BY <1>1, <1>3, <1>4, <1>5 DEF CallbackInv, CallbackOK, IndInv, TypeOK, HeldInv, QueueInv,
                                  queueVars, Terminal
  <2>3. EdgesInv'
    BY <1>1, <1>3, <1>4, <1>5 DEF EdgesInv, EdgesOK, queueVars, Terminal
  <2>4. EndInv'
    BY <1>1, <1>3, <1>5 DEF IndInv, EndInv, AllTerminal, queueVars
  <2> QED BY <2>1, <2>2, <2>3, <2>4 DEF IndInv
<1>6. CASE /\ flags' = flags \cup FlagOf(o, s)
           /\ results' = IF s \in {"Skipped", "Aborted"} THEN results
                         ELSE results \cup {o}
           /\ completed' = completed \cup ended
           /\ deps' = IF s = "Failure" THEN deps ELSE Remaining(deps, {o})
           /\ AssignOperations(st2, tq, pull, held)
           /\ UNCHANGED internalError
  <2>1. ended \subseteq Operations /\ o \in ended
        /\ \A q \in ended \ {o} : status[q] = "Waiting" /\ s = "Failure"
    BY <1>3 DEF BlockedBy, Reached, Terminal
  <2>2. st2 \in [Operations -> Status] /\ st2[o] = s
    BY <1>1, <1>3, <2>1 DEF AfterCompletion, BlockedBy, Unblocked, Status, Terminal
  <2>3. \A q \in Operations \ {o} :
          /\ q \in ended => st2[q] = "Blocked"
          /\ q \notin ended =>
               \/ st2[q] = status[q]
               \/ s # "Failure" /\ status[q] = "Waiting" /\ st2[q] = "Ready" /\ deps[q] = {o}
    BY <1>3, <2>1 DEF AfterCompletion, BlockedBy, Unblocked
  <2>4. tq \in [Operations -> Nat] /\ completed' \in SUBSET Operations
        /\ deps' \in [Operations -> SUBSET Operations]
        /\ \A q \in Operations : deps'[q] = IF s = "Failure" THEN deps[q] ELSE deps[q] \ {o}
    BY <1>6, <2>1 DEF IndInv, TypeOK, Remaining
  <2> HIDE DEF st, ended, st2, tq
  <2>5. CallbackOK(st2, phase', completed', timers')
    BY <1>1, <1>3, <1>4, <1>6, <2>1, <2>2, <2>3 DEF CallbackOK, Terminal, IndInv, TypeOK
  <2>6. stage # "finished" => EdgesOK(st2, deps', completed')
    <3> SUFFICES ASSUME stage # "finished", NEW q \in Operations
                 PROVE  /\ \A d \in Dependencies[q] \ deps'[q] :
                             d \in completed' /\ st2[d] \in Ok
                        /\ st2[q] \notin {"Waiting", "Blocked"} => deps'[q] = {}
      BY DEF EdgesOK
    <3>1. ASSUME NEW d \in Dependencies[q] \ deps'[q]
          PROVE  d \in completed' /\ st2[d] \in Ok
      <4>1. d \in Operations
        BY ConstantTypes
      <4>2. (d = o /\ s # "Failure") \/ (d # o /\ d \in completed /\ status[d] \in Ok)
        BY <1>1, <1>4, <2>4 DEF EdgesOK
      <4> QED BY <1>3, <1>6, <2>1, <2>2, <2>3, <4>1, <4>2 DEF Ok, Terminal
    <3>2. ASSUME st2[q] \notin {"Waiting", "Blocked"}
          PROVE  deps'[q] = {}
      <4>1. q = o \/ st2[q] = status[q] => deps[q] = {}
        BY <1>1, <1>4, <3>2 DEF EdgesOK, Terminal
      <4> QED BY <2>3, <2>4, <3>2, <4>1
    <3> QED BY <3>1, <3>2
  <2>7. /\ held # NoOperation => st2[held] = "Queued"
        /\ \A q \in Operations : status[q] \in Terminal => st2[q] \in Terminal
    BY <1>1, <1>3, <2>1, <2>2, <2>3 DEF IndInv, TypeOK, HeldInv, Terminal
  <2>8. /\ results' \subseteq Operations /\ internalError' \in BOOLEAN
        /\ flags' \subseteq {"failures", "aborted", "warnings"}
    BY <1>6 DEF IndInv, TypeOK, FlagOf
  <2> QED BY <1>1, <1>3, <1>4, <1>6, <2>2, <2>4, <2>5, <2>6, <2>7, <2>8, AssignKeeps
<1> HIDE DEF st, ended, st2, tq
<1> QED BY <1>2, <1>5, <1>6 DEF st, ended, st2, tq

LEMMA FinishKeeps ==
  ASSUME IndInv, Finish
  PROVE  IndInv'
<1>1. AllTerminal /\ stage' = "finished"
  BY DEF Finish, IndInv, EndInv
<1>2. /\ status' \in [Operations -> Status]
      /\ \A o \in Operations : status'[o] \in {status[o], "Failure"}
  BY DEF Finish, IndInv, TypeOK, Status, Terminal
<1>3. result' \in Terminal \cup {None} /\ flags' \subseteq {"failures", "aborted", "warnings"}
  BY DEF Finish, IndInv, TypeOK, Terminal
<1>4. TypeOK'
  BY <1>1, <1>2, <1>3 DEF Finish, IndInv, TypeOK, queueVars, loopVars
<1>5. CallbackInv'
  BY <1>1, <1>2 DEF Finish, IndInv, CallbackInv, CallbackOK, AllTerminal, queueVars, Terminal
<1>6. HeldInv' /\ QueueInv'
  BY <1>1, <1>2 DEF Finish, IndInv, TypeOK, HeldInv, QueueInv, AllTerminal, queueVars, loopVars, Terminal
<1>7. EndInv' /\ EdgesInv'
  BY <1>1, <1>2 DEF Finish, IndInv, EndInv, EdgesInv, AllTerminal, Quiet, queueVars, loopVars, Terminal
<1> QED BY <1>4, <1>5, <1>6, <1>7 DEF IndInv

LEMMA AbortKeeps ==
  ASSUME IndInv, Abort \/ UNCHANGED vars
  PROVE  IndInv'
<1>1. aborted' \in BOOLEAN
  BY DEF Abort, IndInv, TypeOK, vars
<1>2. UNCHANGED <<stage, status, deps, queueVars, loopVars, phase, timers, results,
                  flags, endVars, internalError>>
  BY DEF Abort, vars
<1>3. TypeOK'
  BY <1>1, <1>2 DEF IndInv, TypeOK, queueVars, loopVars, endVars
<1> QED BY <1>2, <1>3 DEF IndInv, CallbackInv, HeldInv, QueueInv, EndInv, EdgesInv, AllTerminal,
                        Quiet, queueVars, loopVars, endVars

LEMMA NextKeeps == IndInv /\ [Next]_vars => IndInv'
<1> SUFFICES ASSUME IndInv, [Next]_vars PROVE IndInv'
  OBVIOUS
<1>1. CASE IterationStep
  BY <1>1, BeginKeeps, FinishKeeps DEF IterationStep
<1>2. CASE LoopStep
  BY <1>2, LoopKeeps
<1>3. ASSUME NEW o \in Operations, CallbackStep(o) PROVE IndInv'
  BY <1>3, ProgressKeeps, RetryKeeps, CompletionKeeps, CallbackEndsKeeps DEF CallbackStep
<1>4. CASE Abort \/ UNCHANGED vars
  BY <1>4, AbortKeeps
<1> QED BY <1>1, <1>2, <1>3, <1>4 DEF Next, Terminating

-----------------------------------------------------------------------------
(* The theorems *)

LEMMA IndInvHolds == Spec => []IndInv
<1>1. Init => IndInv
  BY InitIndInv
<1>2. IndInv /\ [Next]_vars => IndInv'
  BY NextKeeps
<1> QED BY <1>1, <1>2, PTL DEF Spec

\* Every reachable state of an iteration is well typed, whatever the graph, the
\* weights, the budget and the outcomes of hooks and runners.
THEOREM TypeCorrect == Spec => []TypeOK
<1>1. IndInv => TypeOK
  BY DEF IndInv
<1> QED BY <1>1, IndInvHolds, PTL

\* The record the loop holds is Queued, idle, uncompleted and waits for no timer:
\* no two execution slots ever hold the same record.
THEOREM NeverHandedOutTwice == Spec => []HandedOutOnce
<1>1. IndInv => HandedOutOnce
  BY ConstantTypes DEF IndInv, TypeOK, HeldInv, CallbackInv, CallbackOK, HandedOutOnce, Terminal
<1> QED BY <1>1, IndInvHolds, PTL

\* A record is executed only after everything upstream of it went through
\* complete() without having failed or been blocked: AsyncOperationQueue never
\* hands a record out too early, retries, aborts and oversubscription included.
THEOREM StartsAfterDependencies == Spec => []DependenciesSettled
<1>1. IndInv => DependenciesSettled
  <2> SUFFICES ASSUME IndInv, NEW o \in Operations, phase[o] \in {"start", "run"},
                      NEW d \in Upstream[o]
               PROVE  d \in completed /\ status[d] \in Ok
    BY DEF DependenciesSettled, Ok
  <2>1. status[o] = "Executing" /\ ~AllTerminal /\ ~Quiet
    BY DEF IndInv, CallbackInv, CallbackOK, AllTerminal, Terminal, Quiet
  <2>2. EdgesOK(status, deps, completed)
    BY <2>1 DEF IndInv, EndInv, EdgesInv
  <2> DEFINE S == {p \in Operations : p \in completed /\ status[p] \in Ok}
  <2>3. Dependencies[o] \subseteq S
    BY <2>1, <2>2, ConstantTypes DEF EdgesOK
  <2>4. \A q \in S : Dependencies[q] \subseteq S
    BY <2>2, ConstantTypes DEF EdgesOK, Ok, Terminal
  <2>5. S \in SUBSET Operations
    OBVIOUS
  <2>6. d \in S
    <3> HIDE DEF S
    <3> QED BY <2>3, <2>4, <2>5 DEF Upstream
  <2> QED BY <2>6
<1> QED BY <1>1, IndInvHolds, PTL

-----------------------------------------------------------------------------
(* What a failure blocks *)

\* Records are blocked by completed failures upstream of them, and by nothing else.
BlockedMeans(st, comp) ==
  \A o \in Operations :
    st[o] = "Blocked" <=> \E d \in Upstream[o] : d \in comp /\ st[d] = "Failure"

BlockedInv ==
  /\ stage \in {"init", "hook"} => \A o \in Operations : status[o] \in {"Ready", "Waiting"}
  /\ stage \in {"loop", "resolved"} => BlockedMeans(status, completed)

LEMMA UpstreamInOperations == \A o \in Operations : Upstream[o] \subseteq Operations
BY DEF Upstream

\* What is upstream of a dependency is upstream.
LEMMA UpstreamOfDependency ==
  ASSUME NEW p \in Operations, NEW d \in Dependencies[p], NEW f \in Upstream[d]
  PROVE  f \in Upstream[p]
<1>1. d \in Operations /\ f \in Operations
  BY ConstantTypes, UpstreamInOperations
<1>2. ASSUME NEW S \in SUBSET Operations,
             Dependencies[p] \subseteq S, \A q \in S : Dependencies[q] \subseteq S
      PROVE  f \in S
  <2>1. Dependencies[d] \subseteq S
    BY <1>2
  <2> QED BY <1>1, <1>2, <2>1 DEF Upstream
<1> QED BY <1>1, <1>2 DEF Upstream

LEMMA DependencyUpstream ==
  ASSUME NEW p \in Operations, NEW d \in Dependencies[p]
  PROVE  d \in Upstream[p]
BY ConstantTypes DEF Upstream

\* Everything upstream of a record that was let through was completed well.
LEMMA UpstreamOfRunnable ==
  ASSUME IndInv, EdgesOK(status, deps, completed), NEW o \in Operations,
         status[o] \notin {"Waiting", "Blocked"}, NEW d \in Upstream[o]
  PROVE  d \in completed
<1> DEFINE S == {p \in Operations : p \in completed /\ status[p] \in Ok}
<1>1. Dependencies[o] \subseteq S
  BY ConstantTypes DEF EdgesOK
<1>2. \A q \in S : Dependencies[q] \subseteq S
  BY ConstantTypes DEF EdgesOK, Ok, Terminal
<1>3. S \in SUBSET Operations
  OBVIOUS
<1>4. d \in S
  <2> HIDE DEF S
  <2> QED BY <1>1, <1>2, <1>3 DEF Upstream
<1> QED BY <1>4

\* The walk of a failure of o stays downstream of o ...
LEMMA ReachedIsDownstream ==
  ASSUME NEW o \in Operations, NEW st, NEW p \in Reached(o, st)
  PROVE  p \in Operations /\ o \in Upstream[p]
<1> DEFINE S == {q \in Operations : o \in Upstream[q]}
<1>1. Consumers(o) \subseteq S
  BY DependencyUpstream DEF Consumers
<1>2. \A q \in S : Consumers(q) \subseteq S
  BY UpstreamOfDependency DEF Consumers
<1>3. S \in SUBSET Operations
  OBVIOUS
<1>4. p \in S
  <2> HIDE DEF S
  <2> QED BY <1>1, <1>2, <1>3 DEF Reached
<1> QED BY <1>4

LEMMA ReachedIsClosed ==
  ASSUME NEW o \in Operations, NEW st
  PROVE  /\ Consumers(o) \subseteq Reached(o, st)
         /\ \A q \in Reached(o, st) : st[q] = "Waiting" => Consumers(q) \subseteq Reached(o, st)
BY DEF Reached, Consumers

\* ... and meets everything downstream that is not blocked already.
LEMMA DownstreamIsReached ==
  ASSUME BlockedMeans(status, completed), NEW o \in Operations, NEW st,
         \A q \in Operations : q # o => st[q] = status[q],
         ~UnexpectedConsumer(o, st),
         NEW p \in Operations, p # o, o \in Upstream[p], p \notin Reached(o, st)
  PROVE  status[p] = "Blocked"
<1> SUFFICES ASSUME status[p] # "Blocked" PROVE FALSE
  OBVIOUS
<1> DEFINE N == {d \in Operations : d # o /\ d \notin Reached(o, st) /\ status[d] # "Blocked"}
<1>1. ASSUME NEW q \in N, NEW d \in Dependencies[q]
      PROVE  d \in N
  <2>1. d \in Operations /\ q \in Consumers(d)
    BY ConstantTypes DEF Consumers
  <2>2. d # o
    BY <2>1, ReachedIsClosed
  <2>3. status[d] # "Blocked"
    <3> SUFFICES ASSUME status[d] = "Blocked" PROVE FALSE
      OBVIOUS
    <3>1. PICK f \in Upstream[d] : f \in completed /\ status[f] = "Failure"
      BY <2>1 DEF BlockedMeans
    <3>2. f \in Upstream[q]
      BY <3>1, UpstreamOfDependency
    <3> QED BY <3>1, <3>2 DEF BlockedMeans
  <2>4. d \notin Reached(o, st)
    BY <2>1, <2>2, <2>3, ReachedIsClosed DEF UnexpectedConsumer
  <2> QED BY <2>1, <2>2, <2>3, <2>4
<1>2. p \in N /\ N \in SUBSET Operations /\ o \notin N
  OBVIOUS
<1> HIDE DEF N
<1>3. Dependencies[p] \subseteq N /\ \A q \in N : Dependencies[q] \subseteq N
  BY <1>1, <1>2
<1> QED BY <1>2, <1>3 DEF Upstream

\* A step that neither blocks a record nor completes one that failed.
Calm ==
  \A q \in Operations :
    /\ status'[q] = "Blocked" <=> status[q] = "Blocked"
    /\ q \in completed' /\ status'[q] = "Failure" <=> q \in completed /\ status[q] = "Failure"

LEMMA CalmKeeps ==
  ASSUME BlockedMeans(status, completed), Calm
  PROVE  BlockedMeans(status, completed)'
BY UpstreamInOperations DEF BlockedMeans, Calm

\* The same of the statuses st from which a record is handed out.
CalmTo(st) ==
  \A q \in Operations :
    /\ st[q] = "Blocked" <=> status[q] = "Blocked"
    /\ q \in completed' /\ st[q] = "Failure" <=> q \in completed /\ status[q] = "Failure"

LEMMA HandOutCalm ==
  ASSUME NEW st \in [Operations -> Status], NEW p, NEW h, HandedOut(st, p, h), CalmTo(st)
  PROVE  Calm
<1>1. \A q \in Operations : status'[q] # st[q] => st[q] = "Ready" /\ status'[q] = "Queued"
  BY DEF HandedOut
<1> QED BY <1>1 DEF Calm, CalmTo

LEMMA UnblockingIsCalm ==
  ASSUME NEW st \in [Operations -> Status], NEW ds, NEW o \in Operations, CalmTo(st)
  PROVE  CalmTo(Unblocked(st, ds, o)) /\ Unblocked(st, ds, o) \in [Operations -> Status]
BY DEF CalmTo, Unblocked, Status

LEMMA FetchIsCalm ==
  ASSUME IndInv, NEW st \in [Operations -> Status], NEW tq \in [Operations -> Nat],
         NEW u \in Int, Fetch(u, st, tq), CalmTo(st)
  PROVE  Calm
<1>1. isDone \in BOOLEAN /\ queue \subseteq Operations
  BY DEF IndInv, TypeOK
<1>2. PICK p \in {"idle", "waiting"} : HandedOut(st, p, NoOperation)
  BY <1>1, FetchEffect, ConstantTypes
<1> QED BY <1>2, HandOutCalm

LEMMA AssignIsCalm ==
  ASSUME IndInv, NEW st \in [Operations -> Status], NEW tq \in [Operations -> Nat],
         AssignOperations(st, tq, pull, held), CalmTo(st)
  PROVE  Calm
<1>1. isDone \in BOOLEAN /\ queue \subseteq Operations /\ pull \in Pulls
      /\ held \in Operations \cup {NoOperation}
  BY DEF IndInv, TypeOK, Pulls
<1>2. HandedOut(st, pull, held)
  BY <1>1, AssignEffect
<1> QED BY <1>2, HandOutCalm

LEMMA ConsumeIsCalm ==
  ASSUME IndInv, held # NoOperation, NEW u \in Int, NEW ph, Consume(held, u, ph)
  PROVE  Calm
<1> DEFINE o == held
<1>1. /\ o \in Operations /\ status[o] = "Queued" /\ o \notin completed
      /\ status \in [Operations -> Status] /\ timesQueued \in [Operations -> Nat]
      /\ u + Weight[o] \in Int
  BY ConstantTypes DEF IndInv, TypeOK, HeldInv, CallbackInv, CallbackOK, Terminal
<1>2. CASE UNCHANGED <<status, completed>>
  BY <1>2 DEF Calm
<1>3. CASE /\ completed' = completed \cup {o}
           /\ Fetch(u + Weight[o],
                    Unblocked([status EXCEPT ![o] = "Aborted"], deps, o),
                    [timesQueued EXCEPT ![o] = 0])
  <2> DEFINE st == [status EXCEPT ![o] = "Aborted"]
             tq == [timesQueued EXCEPT ![o] = 0]
             nu == u + Weight[o]
             unb == Unblocked(st, deps, o)
  <2>1. st \in [Operations -> Status] /\ tq \in [Operations -> Nat] /\ nu \in Int
    BY <1>1 DEF Status, Terminal
  <2>2. CalmTo(st)
    BY <1>1, <1>3 DEF CalmTo
  <2>3. CalmTo(unb) /\ unb \in [Operations -> Status]
    <3> HIDE DEF st
    <3> QED BY <1>1, <2>1, <2>2, UnblockingIsCalm
  <2>4. Fetch(nu, unb, tq)
    BY <1>3
  <2> HIDE DEF unb, tq, nu
  <2> QED BY <2>1, <2>3, <2>4, FetchIsCalm
<1>4. CASE /\ completed' = completed
           /\ Fetch(u + Weight[o], [status EXCEPT ![o] = "Executing"], timesQueued)
  <2> DEFINE st == [status EXCEPT ![o] = "Executing"]
             nu == u + Weight[o]
  <2>1. st \in [Operations -> Status] /\ nu \in Int /\ CalmTo(st)
    BY <1>1, <1>4 DEF Status, CalmTo
  <2>2. Fetch(nu, st, timesQueued)
    BY <1>4
  <2> HIDE DEF st, nu
  <2> QED BY <1>1, <2>1, <2>2, FetchIsCalm
<1> QED BY <1>2, <1>3, <1>4 DEF Consume, StartCallback, queueVars

-----------------------------------------------------------------------------
(* Every step keeps BlockedInv *)

LEMMA InitBlocked == Init => BlockedInv
BY DEF Init, BlockedInv

\* Outside the end of the iteration, a calm step keeps BlockedInv.
LEMMA CalmStepKeeps ==
  ASSUME BlockedInv, stage \in {"loop", "resolved"}, stage' \in {"loop", "resolved"}, Calm
  PROVE  BlockedInv'
BY CalmKeeps DEF BlockedInv

LEMMA BeginKeepsBlocked ==
  ASSUME IndInv, BlockedInv, StartIteration \/ BeforeIterationReturns
  PROVE  BlockedInv'
<1>1. /\ stage \in {"init", "hook"} /\ completed = {}
      /\ \A o \in Operations : status[o] \in {"Ready", "Waiting"}
      /\ status \in [Operations -> Status] /\ timesQueued \in [Operations -> Nat]
  BY DEF StartIteration, BeforeIterationReturns, IndInv, TypeOK, EndInv, Quiet, BlockedInv
<1>2. BlockedMeans(status, completed)
  BY <1>1 DEF BlockedMeans
<1>3. ASSUME NEW b, BailWith(b)
      PROVE  BlockedInv'
  <2>1. \A o \in Operations : status'[o] \in {"Skipped", "Aborted"}
    BY <1>1, <1>3 DEF BailWith, Terminal
  <2>2. completed' = {} /\ stage' = "resolved"
    BY <1>1, <1>3 DEF BailWith, queueVars
  <2> QED BY <2>1, <2>2 DEF BlockedInv, BlockedMeans
<1>4. CASE stage' \in {"hook", "rejected"} /\ UNCHANGED <<status, completed>>
  BY <1>1, <1>4 DEF BlockedInv
<1>5. CASE stage' = "loop" /\ UNCHANGED completed /\ Fetch(0, status, timesQueued)
  <2>1. CalmTo(status)
    BY <1>5 DEF CalmTo
  <2>2. Calm
    BY <1>1, <1>5, <2>1, FetchIsCalm
  <2> QED BY <1>2, <1>5, <2>2, CalmKeeps DEF BlockedInv
<1> QED BY <1>3, <1>4, <1>5 DEF StartIteration, BeforeIterationReturns, queueVars

LEMMA LoopKeepsBlocked ==
  ASSUME IndInv, BlockedInv, LoopStep
  PROVE  BlockedInv'
<1>1. stage \in {"loop", "resolved", "finished"}
  BY DEF LoopStep, LoopResume, LoopEnd, IndInv, TypeOK, EndInv, Quiet
<1>2. CASE LoopResume
  <2>1. held # NoOperation /\ units - Parallelism \in Int
    BY <1>2, ConstantTypes DEF LoopResume, IndInv, TypeOK, HeldInv
  <2>2. Calm
    BY <1>2, <2>1, ConsumeIsCalm DEF LoopResume
  <2>3. stage' = stage
    BY <1>2 DEF LoopResume
  <2> QED BY <1>1, <2>2, <2>3, CalmStepKeeps DEF BlockedInv
<1>3. CASE LoopEnd
  <2>1. Calm /\ stage' \in {stage, "resolved"} /\ (stage' = "resolved" => stage # "finished")
    BY <1>3 DEF LoopEnd, Calm, queueVars
  <2> QED BY <1>1, <2>1, CalmStepKeeps DEF BlockedInv
<1> QED BY <1>2, <1>3 DEF LoopStep

LEMMA CallbackEndsKeepsBlocked ==
  ASSUME IndInv, BlockedInv, NEW o \in Operations, CallbackEnds(o)
  PROVE  BlockedInv'
<1> DEFINE u  == units - Weight[o]
           ph == [phase EXCEPT ![o] = "none"]
<1>1. /\ stage \in {"loop", "resolved", "finished"} /\ u \in Int
      /\ status \in [Operations -> Status] /\ timesQueued \in [Operations -> Nat]
  BY ConstantTypes DEF CallbackEnds, IndInv, TypeOK, EndInv, Quiet
<1>2. stage' \in {stage, "resolved"} /\ (stage' = "resolved" => stage # "finished")
  BY DEF CallbackEnds
<1>3. CASE UNCHANGED <<status, completed>>
  BY <1>1, <1>2, <1>3, CalmStepKeeps DEF Calm, BlockedInv
<1>4. CASE held # NoOperation /\ Consume(held, u, ph)
  <2> HIDE DEF u, ph
  <2>1. Calm
    BY <1>1, <1>4, ConsumeIsCalm
  <2> QED BY <1>1, <1>2, <2>1, CalmStepKeeps DEF BlockedInv
<1>5. CASE UNCHANGED completed /\ Fetch(u, status, timesQueued)
  <2> HIDE DEF u, ph
  <2>1. Calm
    BY <1>1, <1>5, FetchIsCalm DEF CalmTo
  <2> QED BY <1>1, <1>2, <2>1, CalmStepKeeps DEF BlockedInv
<1>6. \/ UNCHANGED <<status, completed>>
      \/ held # NoOperation /\ Consume(held, u, ph)
      \/ UNCHANGED completed /\ Fetch(u, status, timesQueued)
  BY DEF CallbackEnds, QueueOperations, queueVars
<1> HIDE DEF u, ph
<1> QED BY <1>3, <1>4, <1>5, <1>6

LEMMA ProgressKeepsBlocked ==
  ASSUME IndInv, BlockedInv, NEW o \in Operations,
         \/ RunnerStarts(o) \/ HookDecides(o) \/ RunnerReturns(o)
         \/ HookRetries(o) \/ RetryTimerFires(o)
  PROVE  BlockedInv'
<1>1. /\ status[o] = "Executing" /\ o \notin completed
      /\ status \in [Operations -> Status] /\ timesQueued \in [Operations -> Nat]
  BY DEF RunnerStarts, HookDecides, RunnerReturns, HookRetries, RetryTimerFires,
         IndInv, TypeOK, CallbackInv, CallbackOK, Terminal
<1>2. /\ stage = "loop" /\ UNCHANGED <<stage, completed>>
  <2>1. ~AllTerminal /\ ~Quiet
    BY <1>1 DEF AllTerminal, Terminal, Quiet, RunnerStarts, HookDecides, RunnerReturns,
                HookRetries, RetryTimerFires
  <2>2. stage = "loop"
    BY <2>1 DEF IndInv, TypeOK, EndInv
  <2> QED BY <2>2 DEF RunnerStarts, HookDecides, RunnerReturns, HookRetries, RetryTimerFires,
                      SetTerminal, queueVars
<1>3. CASE RunnerStarts(o)
  BY <1>2, <1>3, CalmStepKeeps DEF RunnerStarts, Calm
<1>4. CASE \E s \in Terminal \ {"Blocked"} : SetTerminal(o, s)
  <2>1. Calm
    BY <1>1, <1>2, <1>4 DEF SetTerminal, Calm
  <2> QED BY <1>2, <2>1, CalmStepKeeps
<1>5. CASE HookRetries(o)
  <2>1. AssignOperations(status, timesQueued, pull, held) /\ CalmTo(status)
    BY <1>2, <1>5 DEF HookRetries, CalmTo
  <2>2. Calm
    BY <1>1, <2>1, AssignIsCalm
  <2> QED BY <1>2, <2>2, CalmStepKeeps
<1>6. CASE RetryTimerFires(o)
  <2> DEFINE st == [status EXCEPT ![o] = "Ready"]
  <2>1. /\ AssignOperations(st, timesQueued, pull, held) /\ CalmTo(st)
        /\ st \in [Operations -> Status]
    BY <1>1, <1>2, <1>6 DEF RetryTimerFires, CalmTo, Status
  <2> HIDE DEF st
  <2>2. Calm
    BY <1>1, <2>1, AssignIsCalm
  <2> QED BY <1>2, <2>2, CalmStepKeeps
<1> QED BY <1>3, <1>4, <1>5, <1>6, ConstantTypes DEF HookDecides, RunnerReturns

\* The failure of o blocks what its walk reaches, which is what is downstream
\* of it and not blocked already.
LEMMA FailureKeepsBlocked ==
  ASSUME IndInv, BlockedMeans(status, completed), NEW o \in Operations,
         EdgesOK(status, deps, completed), o \notin completed,
         status[o] \in Terminal \ {"Blocked"},
         NEW st \in [Operations -> Status], st[o] = "Failure",
         \A q \in Operations : q # o => st[q] = status[q],
         ~UnexpectedConsumer(o, st),
         completed' = completed \cup {o} \cup BlockedBy(o, st),
         NEW p, NEW h, HandedOut(AfterCompletion(o, st), p, h)
  PROVE  BlockedMeans(status, completed)'
<1> DEFINE st2 == AfterCompletion(o, st)
<1>0. st2 \in [Operations -> Status]
  BY DEF AfterCompletion, Status, Terminal
<1>1. \A q \in Operations : status'[q] # st2[q] => st2[q] = "Ready" /\ status'[q] = "Queued"
  <2> HIDE DEF st2
  <2>1. HandedOut(st2, p, h)
    BY DEF st2
  <2> QED BY <1>0, <2>1 DEF HandedOut
<1>2. \A q \in Operations : st2[q] = IF q \in BlockedBy(o, st) THEN "Blocked" ELSE st[q]
  BY DEF AfterCompletion
<1>3. \A q \in BlockedBy(o, st) : q \in Reached(o, st) /\ q # o /\ status[q] = "Waiting"
  BY DEF BlockedBy, Reached
<1> HIDE DEF st2
<1>4. \A q \in Operations : status'[q] = "Blocked" <=> q \in BlockedBy(o, st) \/ status[q] = "Blocked"
  BY <1>1, <1>2, <1>3 DEF Terminal
<1>5. \A q \in Operations :
        q \in completed' /\ status'[q] = "Failure"
          <=> q = o \/ (q \in completed /\ status[q] = "Failure")
  BY <1>1, <1>2, <1>3
<1> SUFFICES ASSUME NEW q \in Operations
             PROVE  status'[q] = "Blocked" <=>
                      \E d \in Upstream[q] : d \in completed' /\ status'[d] = "Failure"
  BY DEF BlockedMeans
<1>6. ASSUME status'[q] = "Blocked"
      PROVE  \E d \in Upstream[q] : d \in completed' /\ status'[d] = "Failure"
  <2>1. CASE q \in BlockedBy(o, st)
    BY <1>3, <1>5, <2>1, ReachedIsDownstream
  <2>2. CASE status[q] = "Blocked"
    BY <1>5, <2>2, UpstreamInOperations DEF BlockedMeans
  <2> QED BY <1>4, <1>6, <2>1, <2>2
<1>7. ASSUME NEW d \in Upstream[q], d \in completed', status'[d] = "Failure"
      PROVE  status'[q] = "Blocked"
  <2>1. d = o \/ (d \in completed /\ status[d] = "Failure")
    BY <1>5, <1>7, UpstreamInOperations
  <2>2. CASE d \in completed /\ status[d] = "Failure"
    BY <1>4, <2>2 DEF BlockedMeans
  <2>3. CASE d = o
    <3>1. q # o
      BY <2>3, UpstreamOfRunnable DEF Terminal
    <3>2. CASE q \in Reached(o, st)
      <4>1. st[q] = status[q] /\ st[q] \in {"Waiting", "Blocked"}
        BY <3>1, <3>2 DEF UnexpectedConsumer
      <4>2. st[q] = "Waiting" => q \in BlockedBy(o, st)
        BY <3>2 DEF BlockedBy
      <4> QED BY <1>4, <4>1, <4>2
    <3>3. CASE q \notin Reached(o, st)
      BY <1>4, <2>3, <3>1, <3>3, DownstreamIsReached
    <3> QED BY <3>2, <3>3
  <2> QED BY <2>1, <2>2, <2>3
<1> QED BY <1>6, <1>7

LEMMA CompletionKeepsBlocked ==
  ASSUME IndInv, BlockedInv, NEW o \in Operations, OperationCompletes(o)
  PROVE  BlockedInv'
<1>1. /\ phase[o] = "after" /\ o \notin completed /\ stage' = stage
      /\ status[o] \in Terminal \ {"Blocked"}
      /\ bail = None /\ stage \in {"loop", "resolved", "finished"}
      /\ timesQueued \in [Operations -> Nat]
  BY DEF OperationCompletes, IndInv, TypeOK, CallbackInv, CallbackOK, EndInv, Quiet
<1> SUFFICES ASSUME stage \in {"loop", "resolved"} PROVE BlockedMeans(status, completed)'
  BY <1>1 DEF BlockedInv
<1>2. BlockedMeans(status, completed) /\ EdgesOK(status, deps, completed)
  BY <1>1 DEF BlockedInv, IndInv, EdgesInv
<1>3. PICK s \in StatusesAfterHook(status[o]) :
        LET st    == [status EXCEPT ![o] = s]
            ended == {o} \cup BlockedBy(o, st)
        IN \/ /\ s = "Failure" /\ UnexpectedConsumer(o, st)
              /\ internalError' = TRUE
              /\ status' = st
              /\ UNCHANGED <<deps, queueVars, pull, held, results, flags>>
           \/ /\ ~(s = "Failure" /\ UnexpectedConsumer(o, st))
              /\ flags' = flags \cup FlagOf(o, s)
              /\ results' = IF s \in {"Skipped", "Aborted"} THEN results
                            ELSE results \cup {o}
              /\ completed' = completed \cup ended
              /\ deps' = IF s = "Failure" THEN deps ELSE Remaining(deps, {o})
              /\ AssignOperations(
                   AfterCompletion(o, st),
                   [p \in Operations |-> IF p \in ended THEN 0 ELSE timesQueued[p]],
                   pull, held)
              /\ UNCHANGED internalError
  BY DEF OperationCompletes
<1> DEFINE st    == [status EXCEPT ![o] = s]
           ended == {o} \cup BlockedBy(o, st)
           st2   == AfterCompletion(o, st)
           tq    == [p \in Operations |-> IF p \in ended THEN 0 ELSE timesQueued[p]]
<1>4. /\ s \in Terminal \ {"Blocked"}
      /\ st \in [Operations -> Status] /\ st[o] = s
      /\ \A q \in Operations : q # o => st[q] = status[q]
      /\ tq \in [Operations -> Nat]
  BY <1>1 DEF StatusesAfterHook, IndInv, TypeOK, Status, Terminal
<1>5. CASE status' = st /\ UNCHANGED queueVars
  BY <1>1, <1>2, <1>4, <1>5, CalmKeeps DEF Calm, queueVars
<1>6. CASE /\ ~(s = "Failure" /\ UnexpectedConsumer(o, st))
           /\ completed' = completed \cup ended
           /\ AssignOperations(st2, tq, pull, held)
  <2>1. CASE s # "Failure"
    <3>1. st2 = Unblocked(st, deps, o) /\ completed' = completed \cup {o}
      BY <1>4, <1>6, <2>1 DEF AfterCompletion, BlockedBy
    <3>2. CalmTo(st)
      BY <1>1, <1>4, <2>1, <3>1 DEF CalmTo
    <3> HIDE DEF st, tq, st2
    <3>3. CalmTo(st2) /\ st2 \in [Operations -> Status]
      BY <1>4, <3>1, <3>2, UnblockingIsCalm
    <3>4. Calm
      BY <1>4, <1>6, <3>3, AssignIsCalm
    <3> QED BY <1>2, <3>4, CalmKeeps
  <2>2. CASE s = "Failure"
    <3>1. st2 \in [Operations -> Status]
      BY <1>4, <2>2 DEF AfterCompletion, BlockedBy, Status, Terminal
    <3>2. /\ isDone \in BOOLEAN /\ queue \subseteq Operations /\ pull \in Pulls
          /\ held \in Operations \cup {NoOperation}
      BY DEF IndInv, TypeOK, Pulls
    <3>3. completed' = completed \cup {o} \cup BlockedBy(o, st)
      BY <1>6
    <3> HIDE DEF st, tq
    <3>4. HandedOut(AfterCompletion(o, st), pull, held)
      <4> HIDE DEF st2
      <4>1. HandedOut(st2, pull, held)
        BY <1>4, <1>6, <3>1, <3>2, AssignEffect
      <4> QED BY <4>1 DEF st2
    <3> QED BY <1>1, <1>2, <1>4, <1>6, <2>2, <3>3, <3>4, FailureKeepsBlocked
  <2> QED BY <2>1, <2>2
<1> HIDE DEF st, ended, st2, tq
<1> QED BY <1>3, <1>5, <1>6 DEF st, ended, st2, tq

LEMMA NextKeepsBlocked == IndInv /\ BlockedInv /\ [Next]_vars => BlockedInv'
<1> SUFFICES ASSUME IndInv, BlockedInv, [Next]_vars PROVE BlockedInv'
  OBVIOUS
<1>1. CASE StartIteration \/ BeforeIterationReturns
  BY <1>1, BeginKeepsBlocked
<1>2. CASE Finish
  BY <1>2 DEF Finish, BlockedInv
<1>3. CASE LoopStep
  BY <1>3, LoopKeepsBlocked
<1>4. ASSUME NEW o \in Operations, CallbackStep(o) PROVE BlockedInv'
  BY <1>4, ProgressKeepsBlocked, CompletionKeepsBlocked, CallbackEndsKeepsBlocked
     DEF CallbackStep
<1>5. CASE Abort \/ UNCHANGED vars
  BY <1>5 DEF Abort, vars, queueVars, BlockedInv, BlockedMeans
<1> QED BY <1>1, <1>2, <1>3, <1>4, <1>5 DEF Next, IterationStep, Terminating

\* Until the runners are closed, the records that are Blocked are those with a
\* completed failure upstream: the walk of _handleOperationFailure misses no
\* dependent, and nothing else blocks one, whatever else completes, retries or
\* aborts meanwhile.
THEOREM FailuresBlock == Spec => []BlockedExactly
<1>1. Init => BlockedInv
  BY InitBlocked
<1>2. IndInv /\ BlockedInv /\ [Next]_vars => BlockedInv'
  BY NextKeepsBlocked
<1>3. BlockedInv => BlockedExactly
  BY DEF BlockedInv, BlockedMeans, BlockedExactly
<1> QED BY <1>1, <1>2, <1>3, IndInvHolds, PTL DEF Spec

-----------------------------------------------------------------------------
(* The unit budget *)

Slots(S) == {slot \in S \X (1..Parallelism) : slot[2] <= Weight[slot[1]]}

LEMMA UnitsTypes ==
  /\ IsFiniteSet(Operations)
  /\ Parallelism \in Nat /\ Parallelism > 0
  /\ Weight \in [Operations -> Nat]
  /\ \A o \in Operations : Weight[o] <= Parallelism
BY ExecutionAssumption

LEMMA SlotsFinite ==
  ASSUME NEW S \in SUBSET Operations
  PROVE  IsFiniteSet(S) /\ IsFiniteSet(Slots(S)) /\ UnitsOf(S) \in Nat
<1>1. IsFiniteSet(S)
  BY UnitsTypes, FS_Subset
<1>2. IsFiniteSet(1..Parallelism)
  <2>1. Parallelism \in Int /\ 1 \in Int
    BY UnitsTypes
  <2> QED BY <2>1, FS_Interval
<1> DEFINE grid == S \X (1..Parallelism)
<1>3. IsFiniteSet(grid)
  BY <1>1, <1>2, FS_Product
<1>4. Slots(S) \in SUBSET grid
  BY DEF Slots
<1> HIDE DEF grid
<1>5. IsFiniteSet(Slots(S))
  BY <1>3, <1>4, FS_Subset
<1>6. Cardinality(Slots(S)) \in Nat
  BY <1>5, FS_CardinalityType
<1> QED BY <1>1, <1>5, <1>6 DEF UnitsOf, Slots

\* One record takes as many slots as its weight.
LEMMA UnitsOfOne ==
  ASSUME NEW o \in Operations
  PROVE  UnitsOf({o}) = Weight[o]
<1>1. Weight[o] \in Nat /\ Weight[o] <= Parallelism /\ Parallelism \in Nat
  BY UnitsTypes
<1> DEFINE f == [i \in 1..Weight[o] |-> <<o, i>>]
<1>2. \A slot \in Slots({o}) : slot = <<o, slot[2]>> /\ slot[2] \in 1..Weight[o]
  BY <1>1 DEF Slots
<1>3. \A i \in 1..Weight[o] : <<o, i>> \in Slots({o})
  BY <1>1 DEF Slots
<1>4. f \in [1..Weight[o] -> Slots({o})]
  BY <1>3
<1>5. \A i, j \in 1..Weight[o] : f[i] = f[j] => i = j
  OBVIOUS
<1>6. \A slot \in Slots({o}) : \E i \in 1..Weight[o] : f[i] = slot
  BY <1>2
<1> HIDE DEF f
<1>7. f \in Bijection(1..Weight[o], Slots({o}))
  BY <1>4, <1>5, <1>6 DEF Bijection, Injection, Surjection, IsInjective
<1>8. ExistsBijection(1..Weight[o], Slots({o}))
  BY <1>7 DEF ExistsBijection
<1>9. Cardinality(Slots({o})) = Weight[o]
  BY <1>1, <1>8, FS_CountingElements
<1> QED BY <1>9 DEF UnitsOf, Slots

\* The units of a set of records grow by the weight of a new one.
LEMMA UnitsAdd ==
  ASSUME NEW S \in SUBSET Operations, NEW o \in Operations, o \notin S
  PROVE  UnitsOf(S \cup {o}) = UnitsOf(S) + Weight[o]
<1>1. Slots(S \cup {o}) = Slots(S) \cup Slots({o}) /\ Slots(S) \cap Slots({o}) = {}
  BY DEF Slots
<1>2. {o} \in SUBSET Operations
  OBVIOUS
<1>3. IsFiniteSet(Slots(S)) /\ IsFiniteSet(Slots({o}))
      /\ UnitsOf(S) \in Nat /\ UnitsOf({o}) \in Nat
  BY <1>2, SlotsFinite
<1>4. Cardinality(Slots(S) \cup Slots({o})) =
        Cardinality(Slots(S)) + Cardinality(Slots({o})) - Cardinality(Slots(S) \cap Slots({o}))
  BY <1>3, FS_Union
<1>5. Cardinality(Slots(S) \cap Slots({o})) = 0
  BY <1>1, FS_EmptySet
<1>6. /\ UnitsOf(S \cup {o}) = Cardinality(Slots(S \cup {o}))
      /\ UnitsOf(S) = Cardinality(Slots(S))
      /\ UnitsOf({o}) = Cardinality(Slots({o}))
  BY DEF UnitsOf, Slots
<1>7. UnitsOf(S \cup {o}) = UnitsOf(S) + UnitsOf({o}) - 0
  <2> HIDE DEF Slots
  <2> QED BY <1>1, <1>4, <1>5, <1>6
<1>8. UnitsOf({o}) = Weight[o] /\ Weight[o] \in Nat
  BY UnitsOfOne, UnitsTypes
<1> QED BY <1>3, <1>7, <1>8

LEMMA UnitsRemove ==
  ASSUME NEW S \in SUBSET Operations, NEW o \in S
  PROVE  UnitsOf(S \ {o}) = UnitsOf(S) - Weight[o]
<1>1. S \ {o} \in SUBSET Operations /\ o \notin S \ {o} /\ o \in Operations
      /\ (S \ {o}) \cup {o} = S
  OBVIOUS
<1> DEFINE R == S \ {o}
<1>2. UnitsOf(R) \in Nat
  BY <1>1, SlotsFinite
<1>3. UnitsOf(R \cup {o}) = UnitsOf(R) + Weight[o]
  <2> HIDE DEF R
  <2>1. R \in SUBSET Operations /\ o \notin R /\ o \in Operations
    BY <1>1 DEF R
  <2> QED BY <2>1, UnitsAdd
<1>4. R \cup {o} = S
  BY <1>1
<1> HIDE DEF R
<1>5. UnitsOf(S \ {o}) = UnitsOf(R)
  BY DEF R
<1> QED BY <1>1, <1>2, <1>3, <1>4, <1>5, UnitsTypes

\* When no unit is in use, only records that weigh nothing are in progress.
LEMMA NoUnitsNoWeight ==
  ASSUME NEW S \in SUBSET Operations, UnitsOf(S) = 0, NEW o \in S
  PROVE  Weight[o] = 0
<1>1. o \in Operations /\ Weight[o] \in Nat
  BY UnitsTypes
<1>2. UnitsOf(S \ {o}) = UnitsOf(S) - Weight[o]
  BY UnitsRemove
<1> DEFINE R == S \ {o}
<1>3. UnitsOf(R) \in Nat
  BY SlotsFinite
<1> QED BY <1>1, <1>2, <1>3

Working(ph) == {q \in Operations : ph[q] # "none"}

\* The counter of the loop is the sum of the weights in progress, plus the
\* whole budget while the loop is locked for a request.
UnitsInv ==
  /\ units = UnitsInUse + (IF pull = "idle" THEN 0 ELSE Parallelism)
  /\ pull # "idle" => UnitsInUse < Parallelism
  /\ WithinBudget

LEMMA WorkingUnits ==
  ASSUME NEW ph
  PROVE  Working(ph) \in SUBSET Operations /\ UnitsOf(Working(ph)) \in Nat
<1>1. Working(ph) \in SUBSET Operations
  BY DEF Working
<1> QED BY <1>1, SlotsFinite

\* A request is outstanding afterwards exactly if it was before.
LEMMA AssignKeepsRequest ==
  ASSUME NEW st, NEW tq, NEW p, NEW h, AssignOperations(st, tq, p, h)
  PROVE  pull' = "idle" <=> p = "idle"
BY DEF AssignOperations, Unended

LEMMA FetchLocks ==
  ASSUME NEW u \in Int, NEW st, NEW tq, Fetch(u, st, tq)
  PROVE  \/ u < Parallelism /\ units' = u + Parallelism /\ pull' # "idle"
         \/ u >= Parallelism /\ units' = u /\ pull' = "idle"
BY AssignKeepsRequest DEF Fetch, Locked

\* A callback starts only if its weight fits, or, with oversubscription, while
\* a unit is free.
LEMMA ConsumeKeepsUnits ==
  ASSUME NEW o \in Operations, NEW ph \in [Operations -> Phases], ph[o] = "none",
         NEW u \in Int, u = UnitsOf(Working(ph)), u < Parallelism, Consume(o, u, ph)
  PROVE  UnitsInv'
<1>1. Parallelism \in Nat /\ Weight[o] \in Nat /\ u \in Nat
  BY UnitsTypes, WorkingUnits
<1>2. UnitsInUse' = UnitsOf(Working(phase'))
  BY DEF UnitsInUse, InProgress, Working, UnitsOf
<1>3. CASE pull' = "idle" /\ units' = u /\ phase' = ph
  BY <1>1, <1>2, <1>3 DEF UnitsInv, WithinBudget
<1>4. CASE /\ ~WouldExceed(o, u)
           /\ phase' = [ph EXCEPT ![o] = "start"] \/ phase' = [ph EXCEPT ![o] = "done"]
           /\ \E st, tq : Fetch(u + Weight[o], st, tq)
  <2>1. Working(phase') = Working(ph) \cup {o} /\ o \notin Working(ph)
    BY <1>4 DEF Working, Phases
  <2>2. UnitsInUse' = u + Weight[o]
    <3>1. Working(ph) \in SUBSET Operations
      BY WorkingUnits
    <3> QED BY <1>2, <2>1, <3>1, UnitsAdd
  <2> DEFINE nu == u + Weight[o]
  <2>3. nu \in Int /\ \E st, tq : Fetch(nu, st, tq)
    BY <1>1, <1>4
  <2> HIDE DEF nu
  <2>4. \/ nu < Parallelism /\ units' = nu + Parallelism /\ pull' # "idle"
        \/ nu >= Parallelism /\ units' = nu /\ pull' = "idle"
    BY <2>3, FetchLocks
  <2>5. o \in InProgress'
    BY <2>1 DEF Working, InProgress
  <2>6. nu <= Parallelism \/ AllowOversubscription
    BY <1>1, <1>4 DEF WouldExceed, nu
  <2>7. WithinBudget'
    BY <1>1, <2>2, <2>5, <2>6 DEF WithinBudget, nu
  <2> QED BY <1>1, <2>2, <2>4, <2>7 DEF UnitsInv, nu
<1> QED BY <1>3, <1>4 DEF Consume, StartCallback

\* A step that leaves the callbacks in progress and the loop's lock as they are.
LEMMA QuietStepKeepsUnits ==
  ASSUME UnitsInv, InProgress' = InProgress, units' = units, pull' = "idle" <=> pull = "idle"
  PROVE  UnitsInv'
BY DEF UnitsInv, WithinBudget, UnitsInUse, UnitsOf

LEMMA CallbackEndsKeepsUnits ==
  ASSUME IndInv, UnitsInv, NEW o \in Operations, CallbackEnds(o)
  PROVE  UnitsInv'
<1> DEFINE u  == units - Weight[o]
           ph == [phase EXCEPT ![o] = "none"]
<1>1. /\ ph \in [Operations -> Phases] /\ phase \in [Operations -> Phases] /\ phase[o] = "done"
      /\ Parallelism \in Nat /\ Weight \in [Operations -> Nat] /\ units \in Int
  BY UnitsTypes DEF CallbackEnds, IndInv, TypeOK, Phases
<1>2. Working(ph) = InProgress \ {o} /\ o \in InProgress
  BY <1>1 DEF Working, InProgress
<1>3. UnitsOf(Working(ph)) = UnitsInUse - Weight[o]
  <2>1. InProgress \in SUBSET Operations
    BY DEF InProgress
  <2> QED BY <1>2, <2>1, UnitsRemove DEF UnitsInUse
<1>4. UnitsInUse \in Nat /\ UnitsOf(Working(ph)) \in Nat /\ u \in Int
  <2>1. InProgress = Working(phase)
    BY DEF InProgress, Working
  <2> QED BY <1>1, <2>1, WorkingUnits DEF UnitsInUse
<1>5. u = UnitsOf(Working(ph)) + (IF pull = "idle" THEN 0 ELSE Parallelism)
  BY <1>1, <1>3, <1>4 DEF UnitsInv
<1>6. ASSUME phase' = ph, units' = u, pull' = pull
      PROVE  UnitsInv'
  <2>1. InProgress' = InProgress \ {o}
    BY <1>2, <1>6 DEF InProgress, Working
  <2>2. UnitsInUse' = UnitsOf(Working(ph))
    BY <1>2, <2>1 DEF UnitsInUse, UnitsOf
  <2>3. WithinBudget'
    <3>1. CASE UnitsInUse <= Parallelism
      BY <1>1, <1>3, <1>4, <2>2, <3>1 DEF WithinBudget
    <3>2. ASSUME AllowOversubscription, NEW q \in InProgress, UnitsInUse - Weight[q] < Parallelism
          PROVE  WithinBudget'
      <4>1. q \in Operations
        BY DEF InProgress
      <4>2. CASE q = o
        BY <1>1, <1>3, <1>4, <2>2, <3>2, <4>2 DEF WithinBudget
      <4>3. CASE q # o
        <5>1. q \in InProgress' /\ UnitsInUse' - Weight[q] < Parallelism
          BY <1>1, <1>3, <1>4, <2>1, <2>2, <3>2, <4>1, <4>3
        <5> QED BY <3>2, <5>1 DEF WithinBudget
      <4> QED BY <4>2, <4>3
    <3> QED BY <3>1, <3>2 DEF UnitsInv, WithinBudget
  <2>4. pull # "idle" => UnitsInUse' < Parallelism
    BY <1>1, <1>3, <1>4, <2>2 DEF UnitsInv
  <2> QED BY <1>5, <1>6, <2>2, <2>3, <2>4 DEF UnitsInv
<1>7. CASE u < Parallelism /\ held # NoOperation /\ Consume(held, u, ph)
  <2>1. pull = "idle"
    BY <1>1, <1>4, <1>5, <1>7
  <2>2. held \in Operations /\ phase[held] = "none"
    BY <1>7, ConstantTypes DEF IndInv, TypeOK, HeldInv, CallbackInv, CallbackOK
  <2>3. ph[held] = "none"
    BY <1>1, <2>2
  <2>4. u = UnitsOf(Working(ph))
    BY <1>4, <1>5, <2>1
  <2> HIDE DEF u, ph
  <2> QED BY <1>1, <1>4, <1>7, <2>2, <2>3, <2>4, ConsumeKeepsUnits
<1>8. CASE u < Parallelism /\ phase' = ph /\ Fetch(u, status, timesQueued)
  <2>1. pull = "idle"
    BY <1>1, <1>4, <1>5, <1>8
  <2>2. UnitsInUse' = u
    <3>1. InProgress' = InProgress \ {o}
      BY <1>2, <1>8 DEF InProgress, Working
    <3>2. UnitsInUse' = UnitsOf(Working(ph))
      BY <1>2, <3>1 DEF UnitsInUse, UnitsOf
    <3> HIDE DEF u
    <3> QED BY <1>4, <1>5, <2>1, <3>2
  <2> HIDE DEF u
  <2>3. units' = u + Parallelism /\ pull' # "idle" /\ u < Parallelism
    BY <1>1, <1>4, <1>8, FetchLocks
  <2>4. WithinBudget'
    BY <1>1, <1>4, <2>2, <2>3 DEF WithinBudget
  <2> QED BY <2>2, <2>3, <2>4 DEF UnitsInv
<1>9. \/ phase' = ph /\ units' = u /\ pull' = pull
      \/ u < Parallelism /\ held # NoOperation /\ Consume(held, u, ph)
      \/ u < Parallelism /\ phase' = ph /\ Fetch(u, status, timesQueued)
  BY DEF CallbackEnds, QueueOperations
<1> HIDE DEF u, ph
<1> QED BY <1>6, <1>7, <1>8, <1>9

LEMMA LoopKeepsUnits ==
  ASSUME IndInv, UnitsInv, LoopStep
  PROVE  UnitsInv'
<1>1. CASE LoopResume
  <2> DEFINE u == units - Parallelism
  <2>1. /\ held \in Operations /\ phase[held] = "none" /\ phase \in [Operations -> Phases]
        /\ Parallelism \in Nat
    BY <1>1, UnitsTypes, ConstantTypes
       DEF LoopResume, IndInv, TypeOK, HeldInv, CallbackInv, CallbackOK, Phases
  <2>2. UnitsInUse = UnitsOf(Working(phase)) /\ UnitsInUse \in Nat
    <3>1. InProgress = Working(phase)
      BY DEF InProgress, Working
    <3> QED BY <3>1, WorkingUnits DEF UnitsInUse
  <2>3. u \in Int /\ u = UnitsOf(Working(phase)) /\ u < Parallelism
    BY <1>1, <2>1, <2>2 DEF LoopResume, UnitsInv
  <2>4. Consume(held, u, phase)
    BY <1>1 DEF LoopResume
  <2> HIDE DEF u
  <2> QED BY <2>1, <2>3, <2>4, ConsumeKeepsUnits
<1>2. CASE LoopEnd
  <2>1. InProgress' = InProgress /\ pull' = "idle" /\ units' = units - Parallelism
    BY <1>2 DEF LoopEnd, InProgress
  <2>2. UnitsInUse' = UnitsInUse /\ UnitsInUse \in Nat /\ Parallelism \in Nat
    <3>1. InProgress = Working(phase)
      BY DEF InProgress, Working
    <3> QED BY <2>1, <3>1, WorkingUnits, UnitsTypes DEF UnitsInUse, UnitsOf
  <2>3. WithinBudget'
    BY <2>1, <2>2 DEF UnitsInv, WithinBudget
  <2> QED BY <1>2, <2>1, <2>2, <2>3 DEF LoopEnd, UnitsInv
<1> QED BY <1>1, <1>2 DEF LoopStep

LEMMA BeginKeepsUnits ==
  ASSUME IndInv, UnitsInv, IterationStep
  PROVE  UnitsInv'
<1>1. InProgress' = InProgress
  BY DEF IterationStep, StartIteration, BeforeIterationReturns, BailWith, Finish, InProgress
<1>2. CASE UNCHANGED loopVars
  BY <1>1, <1>2, QuietStepKeepsUnits DEF loopVars
<1>3. CASE stage = "hook" /\ Fetch(0, status, timesQueued)
  <2>1. InProgress = {}
    BY <1>3 DEF IndInv, EndInv, Quiet, InProgress
  <2>2. UnitsInUse' = 0
    <3>1. UnitsInUse' = UnitsOf({})
      BY <1>1, <2>1 DEF UnitsInUse, UnitsOf
    <3>2. Slots({}) = {}
      BY DEF Slots
    <3> QED BY <3>1, <3>2, FS_EmptySet DEF UnitsOf, Slots
  <2>3. 0 \in Int /\ Parallelism \in Nat /\ Parallelism > 0
    BY UnitsTypes
  <2>4. units' = Parallelism /\ pull' # "idle"
    BY <1>3, <2>3, FetchLocks
  <2> QED BY <2>2, <2>3, <2>4 DEF UnitsInv, WithinBudget
<1> QED BY <1>2, <1>3 DEF IterationStep, StartIteration, BeforeIterationReturns, BailWith, Finish

LEMMA NextKeepsUnits == IndInv /\ UnitsInv /\ [Next]_vars => UnitsInv'
<1> SUFFICES ASSUME IndInv, UnitsInv, [Next]_vars PROVE UnitsInv'
  OBVIOUS
<1>1. CASE IterationStep
  BY <1>1, BeginKeepsUnits
<1>2. CASE LoopStep
  BY <1>2, LoopKeepsUnits
<1>3. ASSUME NEW o \in Operations, CallbackStep(o) PROVE UnitsInv'
  <2>1. CASE CallbackEnds(o)
    BY <2>1, CallbackEndsKeepsUnits
  <2>2. CASE RunnerStarts(o) \/ HookDecides(o) \/ RunnerReturns(o)
    <3>1. InProgress' = InProgress
      BY <2>2 DEF RunnerStarts, HookDecides, RunnerReturns, SetTerminal, IndInv, TypeOK, InProgress
    <3> QED BY <2>2, <3>1, QuietStepKeepsUnits
            DEF RunnerStarts, HookDecides, RunnerReturns, SetTerminal, loopVars
  <2>3. CASE HookRetries(o) \/ RetryTimerFires(o) \/ OperationCompletes(o)
    <3>1. InProgress' = InProgress /\ units' = units
      BY <2>3 DEF HookRetries, RetryTimerFires, OperationCompletes, IndInv, TypeOK, InProgress
    <3>2. pull' = pull \/ \E st, tq : AssignOperations(st, tq, pull, held)
      BY <2>3 DEF HookRetries, RetryTimerFires, OperationCompletes
    <3> QED BY <3>1, <3>2, AssignKeepsRequest, QuietStepKeepsUnits
  <2> QED BY <1>3, <2>1, <2>2, <2>3 DEF CallbackStep
<1>4. CASE Abort \/ UNCHANGED vars
  BY <1>4, QuietStepKeepsUnits DEF Abort, vars, loopVars, InProgress
<1> QED BY <1>1, <1>2, <1>3, <1>4 DEF Next, Terminating

LEMMA InitUnits == Init => UnitsInv
<1> SUFFICES ASSUME Init PROVE UnitsInv
  OBVIOUS
<1>1. UnitsInUse = UnitsOf({})
  BY DEF Init, UnitsInUse, InProgress
<1>2. Slots({}) = {}
  BY DEF Slots
<1>3. UnitsInUse = 0
  BY <1>1, <1>2, FS_EmptySet DEF UnitsOf, Slots
<1> QED BY <1>3, UnitsTypes DEF Init, UnitsInv, WithinBudget

LEMMA UnitsInvHolds == Spec => []UnitsInv
<1> QED BY InitUnits, NextKeepsUnits, IndInvHolds, PTL DEF Spec

\* Whatever the weights, the callbacks in progress fit the budget; with
\* oversubscription they fit without the one that started last.
THEOREM BudgetKept == Spec => []WithinBudget
<1>1. UnitsInv => WithinBudget
  BY DEF UnitsInv
<1> QED BY <1>1, UnitsInvHolds, PTL

-----------------------------------------------------------------------------
(* The end of the iteration *)

\* The records that are still in progress once the loop has resolved: those of
\* no-op runners, in or after their afterExecuteOperationAsync hook.
Late(o) == phase[o] # "none"

\* The loop resolves only when no unit is in use and no request outstanding.
StopInv ==
  stage \in {"resolved", "finished"} =>
    /\ pull = "idle"
    /\ \A o \in Operations : Late(o) => Weight[o] = 0 /\ phase[o] \in {"after", "done"}

LEMMA InitStop == Init => StopInv
BY DEF Init, StopInv

\* After the loop has resolved, late callbacks end and the status is computed.
LEMMA AfterLoop ==
  ASSUME IndInv, StopInv, stage \in {"resolved", "finished"}, [Next]_vars
  PROVE  \/ Finish /\ stage = "resolved"
         \/ /\ \/ phase' = phase
               \/ \E o \in Operations : phase[o] = "done" /\ phase' = [phase EXCEPT ![o] = "none"]
            /\ UNCHANGED <<stage, status, deps, queueVars, pull, timers, results, flags, endVars,
                           internalError>>
         \/ \E o \in Operations : OperationCompletes(o)
<1>1. /\ \A o \in Operations : phase[o] \in {"none", "after", "done"} /\ o \notin timers
      /\ pull = "idle" /\ phase \in [Operations -> Phases]
  BY DEF StopInv, Late, IndInv, CallbackInv, CallbackOK, EndInv, AllTerminal, Terminal, TypeOK,
         Phases
<1>2. ~LoopStep
  BY <1>1 DEF LoopStep, LoopResume, LoopEnd
<1>3. ASSUME NEW o \in Operations, CallbackStep(o)
      PROVE  \/ OperationCompletes(o)
             \/ /\ phase[o] = "done" /\ phase' = [phase EXCEPT ![o] = "none"]
                /\ UNCHANGED <<stage, status, deps, queueVars, pull, timers, results, flags,
                               endVars, internalError>>
  BY <1>1, <1>3 DEF CallbackStep, RunnerStarts, HookDecides, HookRetries, RunnerReturns,
                    CallbackEnds, RetryTimerFires, queueVars, endVars
<1>4. ~StartIteration /\ ~BeforeIterationReturns
  BY DEF StartIteration, BeforeIterationReturns
<1>5. CASE Abort \/ UNCHANGED vars
  BY <1>5 DEF Abort, vars, loopVars
<1>6. CASE \E o \in Operations : CallbackStep(o)
  BY <1>3, <1>6
<1>7. CASE Finish
  BY <1>7 DEF Finish
<1> QED BY <1>2, <1>4, <1>5, <1>6, <1>7 DEF Next, IterationStep, Terminating

LEMMA NextKeepsStop ==
  ASSUME IndInv, UnitsInv, StopInv, [Next]_vars
  PROVE  StopInv'
<1>0. phase \in [Operations -> Phases] /\ IndInv'
  BY NextKeeps DEF IndInv, TypeOK, Phases
<1>1. CASE stage \in {"resolved", "finished"}
  <2>1. CASE Finish
    BY <1>1, <2>1 DEF StopInv, Finish, Late, loopVars
  <2>2. CASE /\ \/ phase' = phase
                \/ \E o \in Operations : phase[o] = "done" /\ phase' = [phase EXCEPT ![o] = "none"]
             /\ UNCHANGED <<stage, pull>>
    BY <1>0, <1>1, <2>2 DEF StopInv, Late
  <2>3. ASSUME NEW o \in Operations, OperationCompletes(o)
        PROVE  StopInv'
    <3>1. /\ phase[o] = "after" /\ phase' = [phase EXCEPT ![o] = "done"]
          /\ UNCHANGED stage /\ pull' = "idle"
      BY <1>1, <2>3 DEF OperationCompletes, AssignOperations, Unended, StopInv
    <3> QED BY <1>0, <1>1, <3>1 DEF StopInv, Late
  <2> QED BY <1>1, <2>1, <2>2, <2>3, AfterLoop
<1>2. CASE stage \notin {"resolved", "finished"}
  <2>0. stage' \in {"resolved", "finished"} =>
          \A o \in Operations : phase'[o] \in Phases \ {"start", "run"}
    BY <1>0 DEF IndInv, TypeOK, Phases, CallbackInv, CallbackOK, EndInv, AllTerminal, Terminal
  <2> SUFFICES ASSUME stage' \in {"resolved", "finished"}
               PROVE  pull' = "idle" /\ \A o \in Operations : Late(o)' => Weight[o] = 0
    BY <1>0, <2>0 DEF StopInv, Late, Phases
  <2>1. CASE \E b : BailWith(b) /\ stage \in {"init", "hook"}
    BY <2>1 DEF BailWith, IndInv, EndInv, Quiet, Late, loopVars
  <2>2. ASSUME units' = 0 PROVE pull' = "idle" /\ \A o \in Operations : Late(o)' => Weight[o] = 0
    <3>1. UnitsInv'
      BY NextKeepsUnits
    <3> DEFINE S == Working(phase')
    <3>2. S \in SUBSET Operations /\ UnitsOf(S) \in Nat
      BY WorkingUnits
    <3>3. UnitsInUse' = UnitsOf(S)
      BY DEF UnitsInUse, UnitsOf, InProgress, Working
    <3>4. UnitsOf(S) = 0 /\ pull' = "idle"
      BY <2>2, <3>1, <3>2, <3>3, UnitsTypes DEF UnitsInv
    <3>5. \A o \in Operations : Late(o)' <=> o \in S
      BY DEF Late, Working
    <3> HIDE DEF S
    <3> QED BY <3>2, <3>4, <3>5, NoUnitsNoWeight
  <2>3. CASE LoopEnd \/ \E o \in Operations : CallbackEnds(o)
    <3>1. units' = 0
      BY <1>2, <2>3 DEF LoopEnd, CallbackEnds, NothingInProgress
    <3> QED BY <2>2, <3>1
  <2>4. \/ \E b : BailWith(b) /\ stage \in {"init", "hook"}
        \/ LoopEnd
        \/ \E o \in Operations : CallbackEnds(o)
    BY <1>2 DEF Next, IterationStep, StartIteration, BeforeIterationReturns, Finish, LoopStep,
                LoopResume, CallbackStep, RunnerStarts, HookDecides, HookRetries, RunnerReturns,
                SetTerminal, OperationCompletes, RetryTimerFires, Abort, Terminating, vars
  <2> QED BY <2>1, <2>3, <2>4
<1> QED BY <1>1, <1>2

LEMMA StopInvHolds == Spec => []StopInv
<1>1. IndInv /\ UnitsInv /\ StopInv /\ [Next]_vars => StopInv'
  BY NextKeepsStop
<1> QED BY <1>1, InitStop, IndInvHolds, UnitsInvHolds, PTL DEF Spec

-----------------------------------------------------------------------------
(* What one step does to the records *)

Unfinished == {"Ready", "Waiting", "Queued", "Executing"}

Active(q) == phase[q] \in {"start", "run", "after"}

\* The step only moves q among the unfinished statuses, or q stays active.
Still(q) ==
  /\ Active(q)' <=> Active(q)
  /\ q \in completed' <=> q \in completed
  /\ \/ status'[q] = status[q]
     \/ status[q] \in Unfinished /\ status'[q] \in Unfinished
     \/ Active(q)

StillBut(o) == \A q \in Operations \ {o} : Still(q)

AllStill == (\A q \in Operations : Still(q)) /\ flags' = flags

\* o begins to execute.
Starts(o) ==
  /\ ~Active(o) /\ Active(o)' /\ o \notin completed /\ o \notin completed'
  /\ status[o] = "Queued" /\ deps[o] = {}
  /\ StillBut(o) /\ flags' = flags

\* o is handed out after an abort and completed at once.
Dropped(o) ==
  /\ ~Active(o) /\ ~Active(o)' /\ o \in completed'
  /\ status[o] = "Queued" /\ status'[o] = "Aborted" /\ deps[o] = {}
  /\ StillBut(o) /\ flags' = flags \cup {"aborted"}

\* o gives up its slot to be tried again.
Yields(o) ==
  /\ Active(o) /\ ~Active(o)' /\ o \notin completed /\ o \notin completed'
  /\ status'[o] \in Unfinished
  /\ StillBut(o) /\ flags' = flags

\* o ends with s; a failure blocks what is downstream, none of which had begun.
Ends(o, s) ==
  /\ Active(o) /\ ~Active(o)' /\ o \in completed'
  /\ s \in Terminal \ {"Blocked"} /\ status'[o] = s
  /\ flags' = flags \cup FlagOf(o, s)
  /\ \A q \in Operations \ {o} :
       \/ s # "Failure" /\ Still(q)
       \/ s = "Failure" /\ o \notin Upstream[q] /\ Still(q)
       \/ /\ s = "Failure" /\ o \in Upstream[q] /\ ~Active(q) /\ ~Active(q)'
          /\ status[q] \in {"Waiting", "Blocked"} /\ status'[q] = "Blocked"
          /\ q \in completed' <=> q \in completed \/ status[q] = "Waiting"
  /\ s = "Failure" => o \notin Upstream[o]

Effect ==
  \/ AllStill
  \/ \E o \in Operations : Starts(o) \/ Dropped(o) \/ Yields(o) \/ \E s \in Terminal : Ends(o, s)

LEMMA HandOutMoves ==
  ASSUME NEW st \in [Operations -> Status], NEW p, NEW h, HandedOut(st, p, h),
         NEW q \in Operations
  PROVE  status'[q] = st[q] \/ (st[q] = "Ready" /\ status'[q] = "Queued")
BY DEF HandedOut

\* A fetch from st: a record moves at most from Ready to Queued.
LEMMA FetchMoves ==
  ASSUME IndInv, NEW st \in [Operations -> Status], NEW tq \in [Operations -> Nat],
         NEW u \in Int, Fetch(u, st, tq), NEW q \in Operations
  PROVE  status'[q] = st[q] \/ (st[q] = "Ready" /\ status'[q] = "Queued")
<1>1. isDone \in BOOLEAN /\ queue \subseteq Operations
  BY DEF IndInv, TypeOK
<1>2. PICK p \in {"idle", "waiting"} : HandedOut(st, p, NoOperation)
  BY <1>1, FetchEffect, ConstantTypes
<1> QED BY <1>2, HandOutMoves

LEMMA AssignMoves ==
  ASSUME IndInv, NEW st \in [Operations -> Status], NEW tq \in [Operations -> Nat],
         AssignOperations(st, tq, pull, held), NEW q \in Operations
  PROVE  status'[q] = st[q] \/ (st[q] = "Ready" /\ status'[q] = "Queued")
<1>1. isDone \in BOOLEAN /\ queue \subseteq Operations /\ pull \in Pulls
      /\ held \in Operations \cup {NoOperation}
  BY DEF IndInv, TypeOK, Pulls
<1>2. HandedOut(st, pull, held)
  BY <1>1, AssignEffect
<1> QED BY <1>2, HandOutMoves

\* Consuming a record keeps it, starts it or drops it.
LEMMA ConsumeHasEffect ==
  ASSUME IndInv, stage = "loop", held # NoOperation, NEW u \in Int,
         NEW ph \in [Operations -> Phases],
         \A q \in Operations : ph[q] = phase[q] \/ (phase[q] = "done" /\ ph[q] = "none"),
         Consume(held, u, ph)
  PROVE  Effect
<1>0. PICK o \in Operations : o = held
  BY DEF IndInv, TypeOK
<1>1. /\ status[o] = "Queued" /\ phase[o] = "none" /\ o \notin completed
      /\ status \in [Operations -> Status] /\ timesQueued \in [Operations -> Nat]
      /\ deps[o] = {} /\ u + Weight[o] \in Int
  BY <1>0, ConstantTypes DEF IndInv, TypeOK, HeldInv, CallbackInv, CallbackOK, EndInv, EdgesInv,
                       EdgesOK, Terminal
<1>2. \A q \in Operations : ph[q] \in {"start", "run", "after"} <=> phase[q] \in {"start", "run", "after"}
  OBVIOUS
<1>3. CASE phase' = ph /\ UNCHANGED <<status, deps, queueVars, flags>>
  BY <1>2, <1>3 DEF Effect, AllStill, Still, Active, queueVars
<1>4. CASE /\ completed' = completed \cup {o}
           /\ phase' = [ph EXCEPT ![o] = "done"]
           /\ flags' = flags \cup {"aborted"}
           /\ Fetch(u + Weight[o],
                    Unblocked([status EXCEPT ![o] = "Aborted"], deps, o),
                    [timesQueued EXCEPT ![o] = 0])
  <2> DEFINE tq == [timesQueued EXCEPT ![o] = 0]
             nu == u + Weight[o]
             st == Unblocked([status EXCEPT ![o] = "Aborted"], deps, o)
  <2>1. st \in [Operations -> Status] /\ tq \in [Operations -> Nat] /\ nu \in Int
    BY <1>1 DEF Unblocked, Status, Terminal
  <2>2. /\ st[o] = "Aborted"
        /\ \A q \in Operations \ {o} :
             st[q] = status[q] \/ (status[q] = "Waiting" /\ st[q] = "Ready")
    BY <1>1 DEF Unblocked
  <2>3. Fetch(nu, st, tq)
    BY <1>4
  <2> HIDE DEF st, tq, nu
  <2>4. \A q \in Operations : status'[q] = st[q] \/ (st[q] = "Ready" /\ status'[q] = "Queued")
    BY <2>1, <2>3, FetchMoves
  <2>5. status'[o] = "Aborted"
    BY <1>1, <2>2, <2>4
  <2>6. StillBut(o)
    BY <1>1, <1>2, <1>4, <2>2, <2>4 DEF StillBut, Still, Active, Unfinished
  <2>7. phase'[o] = "done" /\ o \in completed' /\ flags' = flags \cup {"aborted"}
    BY <1>1, <1>4
  <2>8. Dropped(o)
    BY <1>1, <2>5, <2>6, <2>7 DEF Dropped, Active
  <2> QED BY <1>1, <2>8 DEF Effect
<1>5. CASE /\ phase' = [ph EXCEPT ![o] = "start"]
           /\ UNCHANGED <<completed, deps, flags>>
           /\ Fetch(u + Weight[o], [status EXCEPT ![o] = "Executing"], timesQueued)
  <2> DEFINE nu == u + Weight[o]
             st == [status EXCEPT ![o] = "Executing"]
  <2>1. st \in [Operations -> Status] /\ nu \in Int /\ Fetch(nu, st, timesQueued)
    BY <1>1, <1>5 DEF Status
  <2>2. \A q \in Operations \ {o} : st[q] = status[q]
    BY <1>1
  <2> HIDE DEF st, nu
  <2>3. \A q \in Operations : status'[q] = st[q] \/ (st[q] = "Ready" /\ status'[q] = "Queued")
    BY <1>1, <2>1, FetchMoves
  <2>4. StillBut(o)
    BY <1>1, <1>2, <1>5, <2>2, <2>3 DEF StillBut, Still, Active, Unfinished
  <2>5. phase'[o] = "start" /\ completed' = completed /\ flags' = flags
    BY <1>1, <1>5
  <2>6. Starts(o)
    BY <1>1, <2>4, <2>5 DEF Starts, Active
  <2> QED BY <1>1, <2>6 DEF Effect
<1> QED BY <1>0, <1>3, <1>4, <1>5 DEF Consume, StartCallback

LEMMA CallbackEndsHasEffect ==
  ASSUME IndInv, NEW o \in Operations, CallbackEnds(o)
  PROVE  Effect
<1> DEFINE u  == units - Weight[o]
           ph == [phase EXCEPT ![o] = "none"]
<1>1. /\ u \in Int /\ ph \in [Operations -> Phases]
      /\ \A q \in Operations : ph[q] = phase[q] \/ (phase[q] = "done" /\ ph[q] = "none")
      /\ status \in [Operations -> Status] /\ timesQueued \in [Operations -> Nat]
  BY ConstantTypes DEF CallbackEnds, IndInv, TypeOK, Phases
<1>2. CASE phase' = ph /\ UNCHANGED <<status, completed, flags>>
  BY <1>1, <1>2 DEF Effect, AllStill, Still, Active
<1>3. CASE stage = "loop" /\ held # NoOperation /\ Consume(held, u, ph)
  <2> HIDE DEF u, ph
  <2> QED BY <1>1, <1>3, ConsumeHasEffect
<1>4. CASE phase' = ph /\ UNCHANGED <<completed, flags>> /\ Fetch(u, status, timesQueued)
  <2>1. \A q \in Operations :
          status'[q] = status[q] \/ (status[q] = "Ready" /\ status'[q] = "Queued")
    <3> HIDE DEF u, ph
    <3> QED BY <1>1, <1>4, FetchMoves
  <2> QED BY <1>1, <1>4, <2>1 DEF Effect, AllStill, Still, Active, Unfinished
<1>5. \/ phase' = ph /\ UNCHANGED <<status, completed, flags>>
      \/ stage = "loop" /\ held # NoOperation /\ Consume(held, u, ph)
      \/ phase' = ph /\ UNCHANGED <<completed, flags>> /\ Fetch(u, status, timesQueued)
  BY DEF CallbackEnds, QueueOperations, queueVars
<1> HIDE DEF u, ph
<1> QED BY <1>2, <1>3, <1>4, <1>5

LEMMA ProgressHasEffect ==
  ASSUME IndInv, NEW o \in Operations,
         \/ RunnerStarts(o) \/ HookDecides(o) \/ RunnerReturns(o)
         \/ HookRetries(o) \/ RetryTimerFires(o)
  PROVE  Effect
<1>1. /\ status[o] = "Executing" /\ o \notin completed
      /\ status \in [Operations -> Status] /\ timesQueued \in [Operations -> Nat]
      /\ phase \in [Operations -> Phases]
  BY DEF RunnerStarts, HookDecides, RunnerReturns, HookRetries, RetryTimerFires,
         IndInv, TypeOK, CallbackInv, CallbackOK, Terminal, Phases
<1>2. CASE RunnerStarts(o) \/ HookDecides(o) \/ RunnerReturns(o)
  <2>1. /\ UNCHANGED <<completed, flags>>
        /\ \A q \in Operations : Active(q)' <=> Active(q)
        /\ \A q \in Operations \ {o} : status'[q] = status[q]
        /\ Active(o)
    BY <1>1, <1>2 DEF RunnerStarts, HookDecides, RunnerReturns, SetTerminal, Active, queueVars
  <2> QED BY <2>1 DEF Effect, AllStill, Still
<1>3. CASE HookRetries(o)
  <2>1. \A q \in Operations :
          status'[q] = status[q] \/ (status[q] = "Ready" /\ status'[q] = "Queued")
    BY <1>1, <1>3, AssignMoves DEF HookRetries
  <2>2. UNCHANGED <<completed, flags>> /\ phase' = [phase EXCEPT ![o] = "done"]
        /\ phase[o] = "start"
    BY <1>3 DEF HookRetries
  <2>3. StillBut(o)
    BY <1>1, <2>1, <2>2 DEF StillBut, Still, Active, Unfinished
  <2>4. Yields(o)
    BY <1>1, <2>1, <2>2, <2>3 DEF Yields, Active, Unfinished
  <2> QED BY <2>4 DEF Effect
<1>4. CASE RetryTimerFires(o)
  <2> DEFINE st == [status EXCEPT ![o] = "Ready"]
  <2>1. /\ AssignOperations(st, timesQueued, pull, held)
        /\ st \in [Operations -> Status] /\ st[o] = "Ready"
        /\ \A q \in Operations \ {o} : st[q] = status[q]
        /\ UNCHANGED <<completed, flags, phase>>
    BY <1>1, <1>4 DEF RetryTimerFires, Status
  <2> HIDE DEF st
  <2>2. \A q \in Operations : status'[q] = st[q] \/ (st[q] = "Ready" /\ status'[q] = "Queued")
    BY <1>1, <2>1, AssignMoves
  <2>3. \A q \in Operations : Still(q)
    BY <1>1, <2>1, <2>2 DEF Still, Active, Unfinished
  <2> QED BY <2>1, <2>3 DEF Effect, AllStill
<1> QED BY <1>2, <1>3, <1>4

\* A failed record meets only Waiting and Blocked ones on its walk: the walk
\* stays downstream of it, and nothing downstream of it has been let through.
LEMMA WalkIsExpected ==
  ASSUME IndInv, EdgesOK(status, deps, completed), NEW o \in Operations, o \notin completed,
         NEW st, \A q \in Operations : q # o => st[q] = status[q],
         status[o] \notin {"Waiting", "Blocked"}
  PROVE  ~UnexpectedConsumer(o, st)
<1> SUFFICES ASSUME NEW p \in Reached(o, st), st[p] \notin {"Waiting", "Blocked"}
             PROVE  FALSE
  BY DEF UnexpectedConsumer
<1>1. p \in Operations /\ o \in Upstream[p]
  BY ReachedIsDownstream
<1>2. status[p] \notin {"Waiting", "Blocked"}
  BY <1>1
<1> QED BY <1>1, <1>2, UpstreamOfRunnable

LEMMA CompletionHasEffect ==
  ASSUME IndInv, BlockedInv, stage # "finished", NEW o \in Operations, OperationCompletes(o)
  PROVE  Effect /\ UNCHANGED internalError
<1>1. /\ phase[o] = "after" /\ o \notin completed /\ stage' = stage
      /\ status[o] \in Terminal \ {"Blocked"}
      /\ bail = None /\ stage \in {"loop", "resolved"}
      /\ timesQueued \in [Operations -> Nat] /\ status \in [Operations -> Status]
      /\ phase \in [Operations -> Phases] /\ phase' = [phase EXCEPT ![o] = "done"]
  BY DEF OperationCompletes, IndInv, TypeOK, CallbackInv, CallbackOK, EndInv, Quiet, Phases
<1>2. BlockedMeans(status, completed) /\ EdgesOK(status, deps, completed)
  BY <1>1 DEF BlockedInv, IndInv, EdgesInv
<1>3. PICK s \in StatusesAfterHook(status[o]) :
        LET st    == [status EXCEPT ![o] = s]
            ended == {o} \cup BlockedBy(o, st)
        IN \/ s = "Failure" /\ UnexpectedConsumer(o, st)
           \/ /\ flags' = flags \cup FlagOf(o, s)
              /\ completed' = completed \cup ended
              /\ AssignOperations(
                   AfterCompletion(o, st),
                   [p \in Operations |-> IF p \in ended THEN 0 ELSE timesQueued[p]],
                   pull, held)
              /\ UNCHANGED internalError
  BY DEF OperationCompletes
<1> DEFINE st    == [status EXCEPT ![o] = s]
           B     == BlockedBy(o, st)
           ended == {o} \cup B
           st2   == AfterCompletion(o, st)
           tq    == [p \in Operations |-> IF p \in ended THEN 0 ELSE timesQueued[p]]
<1>4. /\ s \in Terminal \ {"Blocked"}
      /\ st \in [Operations -> Status] /\ st[o] = s
      /\ \A q \in Operations : q # o => st[q] = status[q]
      /\ tq \in [Operations -> Nat]
  BY <1>1 DEF StatusesAfterHook, Status, Terminal
<1>5. ~UnexpectedConsumer(o, st)
  <2> HIDE DEF st
  <2>1. status[o] \notin {"Waiting", "Blocked"}
    BY <1>1 DEF Terminal
  <2> QED BY <1>1, <1>2, <1>4, <2>1, WalkIsExpected
<1>6. /\ flags' = flags \cup FlagOf(o, s)
      /\ completed' = completed \cup ended
      /\ AssignOperations(st2, tq, pull, held)
      /\ UNCHANGED internalError
  BY <1>3, <1>5
<1>7. /\ B \subseteq Operations
      /\ \A q \in B : s = "Failure" /\ q # o /\ status[q] = "Waiting" /\ o \in Upstream[q]
  BY <1>4, ReachedIsDownstream DEF BlockedBy, Reached, Terminal
<1>8. st2 \in [Operations -> Status] /\ st2[o] = s
  BY <1>4, <1>7 DEF AfterCompletion, Unblocked, Status, Terminal
<1>9. \A q \in Operations \ {o} :
        \/ q \in B /\ st2[q] = "Blocked"
        \/ q \notin B /\ st2[q] = status[q]
        \/ q \notin B /\ status[q] = "Waiting" /\ st2[q] = "Ready"
  <2>1. CASE s = "Failure"
    BY <1>4, <2>1 DEF AfterCompletion
  <2>2. CASE s # "Failure"
    <3>1. B = {} /\ st2 = Unblocked(st, deps, o)
      BY <1>4, <2>2 DEF AfterCompletion, BlockedBy
    <3>2. \A q \in Operations \ {o} :
            st2[q] = st[q] \/ (st[q] = "Waiting" /\ st2[q] = "Ready")
      BY <3>1 DEF Unblocked
    <3> QED BY <1>4, <3>1, <3>2
  <2> QED BY <2>1, <2>2
<1>10. \A q \in Operations : status'[q] = st2[q] \/ (st2[q] = "Ready" /\ status'[q] = "Queued")
  <2> HIDE DEF st2, tq, ended
  <2> QED BY <1>4, <1>6, <1>8, AssignMoves
<1>11. status'[o] = s
  BY <1>4, <1>8, <1>10 DEF Terminal
<1>12. BlockedMeans(status, completed)'
  BY <1>1, CompletionKeepsBlocked DEF BlockedInv
<1>13. o \in completed' /\ \A q \in Operations \ {o} : q \in completed' <=> q \in completed \/ q \in B
  BY <1>6
<1> HIDE DEF st, B, ended, st2, tq
<1>14. ASSUME NEW q \in Operations \ {o}, q \notin B
       PROVE  Still(q)
  BY <1>1, <1>9, <1>10, <1>13, <1>14 DEF Still, Active, Unfinished
<1>15. ASSUME NEW q \in Operations \ {o}, s = "Failure", o \in Upstream[q]
       PROVE  /\ ~Active(q) /\ ~Active(q)'
              /\ status[q] \in {"Waiting", "Blocked"} /\ status'[q] = "Blocked"
              /\ q \in completed' <=> q \in completed \/ status[q] = "Waiting"
  <2>1. status[q] \in {"Waiting", "Blocked"}
    BY <1>1, <1>2, <1>15, UpstreamOfRunnable
  <2>2. status'[q] = "Blocked"
    BY <1>11, <1>13, <1>12, <1>15 DEF BlockedMeans
  <2>3. ~Active(q)
    BY <2>1 DEF Active, IndInv, CallbackInv, CallbackOK
  <2>4. ~Active(q)'
    BY <1>1, <2>3 DEF Active
  <2>5. q \in B <=> status[q] = "Waiting"
    BY <1>7, <1>9, <1>10, <2>2 DEF Terminal
  <2> QED BY <1>13, <2>1, <2>2, <2>3, <2>4, <2>5
<1>16. o \notin Upstream[o]
  BY <1>1, <1>2, UpstreamOfRunnable DEF Terminal
<1>17. Ends(o, s)
  <2>1. Active(o) /\ ~Active(o)'
    BY <1>1 DEF Active
  <2>2. \A q \in Operations \ {o} :
          \/ s # "Failure" /\ Still(q)
          \/ s = "Failure" /\ o \notin Upstream[q] /\ Still(q)
          \/ /\ s = "Failure" /\ o \in Upstream[q] /\ ~Active(q) /\ ~Active(q)'
             /\ status[q] \in {"Waiting", "Blocked"} /\ status'[q] = "Blocked"
             /\ q \in completed' <=> q \in completed \/ status[q] = "Waiting"
    BY <1>7, <1>14, <1>15
  <2> QED BY <1>4, <1>6, <1>11, <1>13, <1>16, <2>1, <2>2 DEF Ends
<1> QED BY <1>4, <1>6, <1>17 DEF Effect

\* The status of the iteration is computed, and only then the late record o ends.
LateEnd(o) ==
  /\ stage = "finished" /\ stage' = "finished"
  /\ phase[o] = "after" /\ phase' = [phase EXCEPT ![o] = "done"]
  /\ status'[o] \in Terminal \ {"Blocked"}
  /\ \A q \in Operations \ {o} :
       /\ status'[q] = status[q]
       /\ q \in completed' <=> q \in completed
  /\ o \in completed' \/ status'[o] # "Skipped"
  /\ UNCHANGED <<bail, result>>

LEMMA LateCompletion ==
  ASSUME IndInv, StopInv, stage = "finished", NEW o \in Operations, OperationCompletes(o)
  PROVE  LateEnd(o)
<1>1. /\ phase[o] = "after" /\ phase' = [phase EXCEPT ![o] = "done"]
      /\ stage' = "finished" /\ pull = "idle"
      /\ status \in [Operations -> Terminal] /\ status[o] # "Blocked"
      /\ UNCHANGED <<bail, result>>
  BY DEF OperationCompletes, StopInv, IndInv, TypeOK, CallbackInv, CallbackOK, EndInv, AllTerminal,
         endVars
<1>2. PICK s \in StatusesAfterHook(status[o]) :
        LET st    == [status EXCEPT ![o] = s]
            ended == {o} \cup BlockedBy(o, st)
        IN \/ s = "Failure" /\ status' = st /\ UNCHANGED completed
           \/ /\ completed' = completed \cup ended
              /\ AssignOperations(
                   AfterCompletion(o, st),
                   [p \in Operations |-> IF p \in ended THEN 0 ELSE timesQueued[p]],
                   pull, held)
  BY DEF OperationCompletes, queueVars
<1> DEFINE st == [status EXCEPT ![o] = s]
<1>3. s \in Terminal \ {"Blocked"} /\ st \in [Operations -> Terminal]
  BY <1>1 DEF StatusesAfterHook, Terminal
<1>4. st[o] = s /\ \A q \in Operations \ {o} : st[q] = status[q]
  BY <1>1
<1>5. CASE s = "Failure" /\ status' = st /\ UNCHANGED completed
  BY <1>1, <1>3, <1>4, <1>5 DEF LateEnd
<1>6. CASE /\ completed' = completed \cup {o} \cup BlockedBy(o, st)
           /\ status' = AfterCompletion(o, st)
  <2> HIDE DEF st
  <2>1. \A q \in Operations : st[q] # "Waiting"
    BY <1>3 DEF Terminal
  <2>2. BlockedBy(o, st) = {}
    BY <2>1 DEF BlockedBy, Reached
  <2>3. \A q \in Operations : status'[q] = st[q]
    BY <1>6, <2>1, <2>2 DEF AfterCompletion, Unblocked
  <2>4. completed' = completed \cup {o}
    BY <1>6, <2>2
  <2> QED BY <1>1, <1>3, <1>4, <2>3, <2>4 DEF LateEnd
<1>7. AssignOperations(AfterCompletion(o, st),
                       [p \in Operations |-> IF p \in {o} \cup BlockedBy(o, st) THEN 0
                                              ELSE timesQueued[p]],
                       pull, held)
        => status' = AfterCompletion(o, st)
  BY <1>1 DEF AssignOperations, Unended
<1> QED BY <1>2, <1>5, <1>6, <1>7

\* The step belongs to the iteration under way: it neither bails nor ends it.
Ongoing ==
  /\ Effect
  /\ AllStill \/ (stage \in {"loop", "resolved"} /\ bail = None)
  /\ stage' = "finished" <=> stage = "finished"
  /\ stage' \in {"init", "hook"} => stage \in {"init", "hook"}
  /\ UNCHANGED <<bail, result, internalError>>

LEMMA UnchangedIsStill ==
  ASSUME UNCHANGED <<status, completed, phase, flags>>
  PROVE  AllStill
BY DEF AllStill, Still, Active

\* A step is one of the iteration under way, bails out, or ends the iteration.
LEMMA StepHasEffect ==
  ASSUME IndInv, BlockedInv, StopInv, [Next]_vars
  PROVE  \/ Ongoing
         \/ stage \in {"init", "hook"} /\ \E b \in Terminal : BailWith(b)
         \/ stage = "resolved" /\ Finish
         \/ \E o \in Operations : LateEnd(o)
<1>1. CASE stage \in {"resolved", "finished"}
  <2>1. CASE /\ \/ phase' = phase
                \/ \E o \in Operations : phase[o] = "done" /\ phase' = [phase EXCEPT ![o] = "none"]
             /\ UNCHANGED <<stage, status, deps, queueVars, pull, timers, results, flags, endVars,
                            internalError>>
    <3>1. phase \in [Operations -> Phases]
      BY DEF IndInv, TypeOK, Phases
    <3>2. AllStill
      BY <2>1, <3>1 DEF AllStill, Still, Active, queueVars
    <3> QED BY <1>1, <2>1, <3>2 DEF Ongoing, Effect, endVars
  <2>2. CASE stage = "resolved" /\ \E o \in Operations : OperationCompletes(o)
    <3>1. Effect /\ UNCHANGED internalError
      BY <2>2, CompletionHasEffect
    <3>2. bail = None /\ stage' = stage /\ UNCHANGED <<bail, result>>
      BY <2>2 DEF OperationCompletes, IndInv, EndInv, Quiet, endVars
    <3> QED BY <2>2, <3>1, <3>2 DEF Ongoing
  <2>3. CASE stage = "finished" /\ \E o \in Operations : OperationCompletes(o)
    BY <2>3, LateCompletion
  <2> QED BY <1>1, <2>1, <2>2, <2>3, AfterLoop
<1>2. CASE stage = "loop"
  <2>1. bail = None /\ stage' # "finished" /\ stage' \notin {"init", "hook"}
        /\ UNCHANGED <<bail, result>>
    BY <1>2 DEF IndInv, EndInv, Next, IterationStep, StartIteration, BeforeIterationReturns,
                Finish, LoopStep, LoopResume, LoopEnd, CallbackStep, RunnerStarts, HookDecides,
                HookRetries, RunnerReturns, SetTerminal, OperationCompletes, CallbackEnds,
                RetryTimerFires, Abort, Terminating, vars, endVars
  <2>2. Effect /\ UNCHANGED internalError
    <3>1. CASE LoopResume
      <4>1. /\ held # NoOperation /\ units - Parallelism \in Int
            /\ phase \in [Operations -> Phases]
        BY <3>1, ConstantTypes DEF LoopResume, IndInv, TypeOK, HeldInv, Phases
      <4> DEFINE u == units - Parallelism
      <4>2. u \in Int /\ Consume(held, u, phase)
        BY <3>1, <4>1 DEF LoopResume
      <4> HIDE DEF u
      <4> QED BY <1>2, <3>1, <4>1, <4>2, ConsumeHasEffect DEF LoopResume
    <3>2. CASE LoopEnd \/ Abort \/ UNCHANGED vars
      BY <3>2, UnchangedIsStill DEF LoopEnd, Abort, vars, queueVars, Effect
    <3>3. ASSUME NEW o \in Operations, CallbackStep(o)
          PROVE  Effect /\ UNCHANGED internalError
      <4>1. CASE CallbackEnds(o)
        BY <4>1, CallbackEndsHasEffect DEF CallbackEnds
      <4>2. CASE OperationCompletes(o)
        BY <1>2, <4>2, CompletionHasEffect
      <4>3. CASE \/ RunnerStarts(o) \/ HookDecides(o) \/ RunnerReturns(o)
                 \/ HookRetries(o) \/ RetryTimerFires(o)
        BY <4>3, ProgressHasEffect
           DEF RunnerStarts, HookDecides, RunnerReturns, SetTerminal, HookRetries, RetryTimerFires
      <4> QED BY <3>3, <4>1, <4>2, <4>3 DEF CallbackStep
    <3> QED BY <1>2, <3>1, <3>2, <3>3
            DEF Next, IterationStep, StartIteration, BeforeIterationReturns, Finish, LoopStep,
                Terminating
  <2> QED BY <1>2, <2>1, <2>2 DEF Ongoing
<1>3. CASE stage \in {"init", "hook", "rejected"}
  <2>1. Quiet
    BY <1>3 DEF IndInv, EndInv
  <2>2. ~LoopStep /\ \A o \in Operations : ~CallbackStep(o)
    BY <2>1 DEF Quiet, LoopStep, LoopResume, LoopEnd, CallbackStep, RunnerStarts, HookDecides,
                HookRetries, RunnerReturns, OperationCompletes, CallbackEnds, RetryTimerFires
  <2>3. CASE stage \in {"init", "hook"} /\ \E b \in Terminal : BailWith(b)
    BY <2>3
  <2>4. CASE /\ UNCHANGED <<status, completed, phase, flags, bail, result, internalError>>
             /\ stage' \in {stage, "rejected"} \/ (stage = "init" /\ stage' = "hook")
    <3>1. AllStill
      BY <2>4, UnchangedIsStill
    <3> QED BY <1>3, <2>4, <3>1 DEF Ongoing, Effect
  <2>5. CASE /\ UNCHANGED <<completed, phase, flags, bail, result, internalError>>
             /\ stage' = "loop" /\ Fetch(0, status, timesQueued)
    <3>1. status \in [Operations -> Status] /\ timesQueued \in [Operations -> Nat] /\ 0 \in Int
      BY DEF IndInv, TypeOK
    <3>2. \A q \in Operations :
            status'[q] = status[q] \/ (status[q] = "Ready" /\ status'[q] = "Queued")
      BY <2>5, <3>1, FetchMoves
    <3>3. AllStill
      BY <2>5, <3>2 DEF AllStill, Still, Active, Unfinished
    <3> QED BY <1>3, <2>5, <3>3 DEF Ongoing, Effect
  <2>6. BailStatuses \subseteq Terminal /\ "Aborted" \in Terminal
    BY ConstantTypes DEF Terminal
  <2>7. \/ stage \in {"init", "hook"} /\ \E b \in Terminal : BailWith(b)
        \/ /\ UNCHANGED <<status, completed, phase, flags, bail, result, internalError>>
           /\ stage' \in {stage, "rejected"} \/ (stage = "init" /\ stage' = "hook")
        \/ /\ UNCHANGED <<completed, phase, flags, bail, result, internalError>>
           /\ stage' = "loop" /\ Fetch(0, status, timesQueued)
    BY <1>3, <2>2, <2>6 DEF Next, IterationStep, StartIteration, BeforeIterationReturns, Finish,
                            Abort, Terminating, vars, queueVars, endVars
  <2> QED BY <2>3, <2>4, <2>5, <2>7
<1> QED BY <1>1, <1>2, <1>3 DEF IndInv, TypeOK

-----------------------------------------------------------------------------
(* The status of the iteration *)

\* Every record that ended went through complete(), and the flags of the
\* iteration tell of the failures and aborts among them.
Accounted ==
  /\ \A o \in Operations : status[o] \in Terminal /\ ~Active(o) => o \in completed
  /\ "failures" \in flags <=> \E o \in completed : status[o] = "Failure"
  /\ \A o \in completed : status[o] = "Aborted" => "aborted" \in flags

AccountInv ==
  /\ stage # "finished" => ~internalError
  /\ stage \in {"init", "hook"} => flags = {}
  /\ bail = None /\ stage # "finished" => Accounted

LEMMA InitAccount == Init => AccountInv
BY DEF Init, AccountInv, Accounted, Terminal

LEMMA EffectKeepsAccounts ==
  ASSUME IndInv, IndInv', Accounted, Effect
  PROVE  Accounted'
<1>1. /\ completed \subseteq Operations /\ completed' \subseteq Operations
      /\ \A o \in completed : ~Active(o) /\ status[o] \in Terminal
      /\ \A o \in Operations : Active(o)' /\ status'[o] \in Terminal => phase'[o] = "after"
  BY DEF IndInv, TypeOK, CallbackInv, CallbackOK, Active, Terminal
<1>2. ASSUME NEW q \in Operations, Still(q)
      PROVE  /\ status'[q] \in Terminal /\ ~Active(q)' => q \in completed'
             /\ q \in completed' => q \in completed /\ status'[q] = status[q]
             /\ q \in completed => q \in completed' /\ status'[q] = status[q]
  BY <1>1, <1>2 DEF Still, Accounted, Unfinished, Terminal
<1>3. CASE AllStill
  BY <1>1, <1>2, <1>3 DEF AllStill, Accounted
<1>4. ASSUME NEW o \in Operations, Starts(o) \/ Yields(o)
      PROVE  Accounted'
  <2>1. /\ o \notin completed /\ o \notin completed' /\ flags' = flags
        /\ Active(o)' \/ status'[o] \notin Terminal
        /\ \A q \in Operations \ {o} : Still(q)
    BY <1>4 DEF Starts, Yields, StillBut, Unfinished, Terminal
  <2> QED BY <1>1, <1>2, <2>1 DEF Accounted
<1>5. ASSUME NEW o \in Operations, Dropped(o)
      PROVE  Accounted'
  <2>1. /\ o \in completed' /\ status'[o] = "Aborted" /\ flags' = flags \cup {"aborted"}
        /\ o \notin completed
        /\ \A q \in Operations \ {o} : Still(q)
    BY <1>1, <1>5 DEF Dropped, StillBut, Terminal
  <2> QED BY <1>1, <1>2, <2>1 DEF Accounted
<1>6. ASSUME NEW o \in Operations, NEW s \in Terminal, Ends(o, s)
      PROVE  Accounted'
  <2>1. /\ o \in completed' /\ o \notin completed /\ status'[o] = s
        /\ flags' = flags \cup FlagOf(o, s)
    BY <1>1, <1>6 DEF Ends
  <2> DEFINE Blocks(q) ==
               /\ status[q] \in {"Waiting", "Blocked"} /\ status'[q] = "Blocked"
               /\ ~Active(q) /\ ~Active(q)'
               /\ q \in completed' <=> q \in completed \/ status[q] = "Waiting"
  <2>0. ASSUME NEW q \in Operations \ {o} PROVE Still(q) \/ Blocks(q)
    BY <1>6 DEF Ends
  <2>2. /\ "failures" \in flags' <=> "failures" \in flags \/ s = "Failure"
        /\ "aborted" \in flags \/ s = "Aborted" => "aborted" \in flags'
    BY <2>1 DEF FlagOf
  <2>3. \A q \in Operations \ {o} :
          /\ q \in completed' /\ status'[q] = "Failure" <=> q \in completed /\ status[q] = "Failure"
          /\ q \in completed' /\ status'[q] = "Aborted" => q \in completed /\ status[q] = "Aborted"
    BY <1>1, <1>2, <2>0 DEF Terminal
  <2>4. \A q \in Operations : status'[q] \in Terminal /\ ~Active(q)' => q \in completed'
    BY <1>2, <2>0, <2>1 DEF Accounted, Terminal
  <2> QED BY <1>1, <2>1, <2>2, <2>3, <2>4 DEF Accounted
<1> QED BY <1>3, <1>4, <1>5, <1>6 DEF Effect

LEMMA NextKeepsAccount ==
  ASSUME IndInv, BlockedInv, StopInv, AccountInv, [Next]_vars
  PROVE  AccountInv'
<1>1. IndInv'
  BY NextKeeps
<1>2. CASE Ongoing
  <2>1. stage' \in {"init", "hook"} => flags' = {}
    BY <1>2 DEF Ongoing, AllStill, AccountInv
  <2>2. bail' = None /\ stage' # "finished" => Accounted'
    BY <1>1, <1>2, EffectKeepsAccounts DEF Ongoing, AccountInv
  <2> QED BY <1>2, <2>1, <2>2 DEF Ongoing, AccountInv
<1>3. CASE stage \in {"init", "hook"} /\ \E b \in Terminal : BailWith(b)
  BY <1>3 DEF BailWith, AccountInv, Terminal, None
<1>4. CASE stage' = "finished"
  BY <1>4 DEF AccountInv
<1> QED BY <1>2, <1>3, <1>4, StepHasEffect DEF Finish, LateEnd

LEMMA BlockedInvHolds == Spec => []BlockedInv
<1> QED BY InitBlocked, NextKeepsBlocked, IndInvHolds, PTL DEF Spec

LEMMA AccountInvHolds == Spec => []AccountInv
<1>1. IndInv /\ BlockedInv /\ StopInv /\ AccountInv /\ [Next]_vars => AccountInv'
  BY NextKeepsAccount
<1> QED BY <1>1, InitAccount, IndInvHolds, BlockedInvHolds, StopInvHolds, PTL
        DEF Spec

\* What Finish computes tells of every record that has been completed.
LEMMA FinishIsHonest ==
  ASSUME IndInv, BlockedInv, StopInv, AccountInv, stage = "resolved", Finish
  PROVE  ResultTells
<1> SUFFICES ASSUME bail = None PROVE ResultTells
  BY DEF ResultTells
<1> DEFINE settled == {o \in Operations : phase'[o] # "after"}
<1>0. Accounted
  BY DEF AccountInv
<1>1. /\ \A o \in settled : status[o] \in Terminal /\ o \in completed
      /\ \A o \in Operations \ settled : Weight[o] = 0
  BY <1>0 DEF Finish, IndInv, EndInv, AllTerminal, StopInv, Late, Accounted, Active
<1>2. PICK failed \in SUBSET Closable :
        /\ status' = [o \in Operations |-> IF o \in failed THEN "Failure" ELSE status[o]]
        /\ flags' = IF failed # {} THEN flags \cup {"failures"} ELSE flags
  BY DEF Finish
<1>3. failed \subseteq Operations /\ completed \subseteq Operations
  BY ExecutionAssumption DEF IndInv, TypeOK
<1>4. /\ "failures" \in flags' => \E o \in Operations : status'[o] = "Failure"
      /\ (\E o \in settled : status'[o] = "Failure") => "failures" \in flags'
  BY <1>0, <1>1, <1>2, <1>3 DEF Accounted
<1>5. \A o \in settled : status'[o] = "Aborted" => "aborted" \in flags'
  BY <1>0, <1>1, <1>2, <1>3 DEF Accounted
<1>6. \A o \in settled : status'[o] = "Blocked" => "failures" \in flags'
  <2> SUFFICES ASSUME NEW o \in Operations, status'[o] = "Blocked" PROVE "failures" \in flags'
    OBVIOUS
  <2>1. status[o] = "Blocked"
    BY <1>2
  <2>2. PICK d \in Upstream[o] : d \in completed /\ status[d] = "Failure"
    BY <2>1 DEF BlockedInv, BlockedMeans
  <2>3. "failures" \in flags
    BY <1>0, <2>2 DEF Accounted
  <2> QED BY <1>2, <2>3
<1>7. /\ result' = "Failure" <=> "failures" \in flags'
      /\ "aborted" \in flags' => result' \notin {"Success", "SuccessWithWarning"}
      /\ "failures" \in flags' => result' \notin {"Success", "SuccessWithWarning"}
  BY DEF Finish, None
<1> HIDE DEF settled
<1>8. \/ result' = "Failure" => \E o \in Operations : status'[o] = "Failure"
  BY <1>4, <1>7
<1>9. /\ (\E o \in settled : status'[o] = "Failure") => result' = "Failure"
      /\ result' \in {"Success", "SuccessWithWarning"} =>
            \A o \in settled : status'[o] \notin {"Failure", "Blocked", "Aborted"}
  BY <1>4, <1>5, <1>6, <1>7
<1> QED BY <1>1, <1>8, <1>9 DEF ResultTells, settled

\* The status of an iteration that did not bail is a failure only if a record
\* failed, and it tells of every failed, blocked or aborted record but those of
\* no-op runners whose hook is still pending.
THEOREM ResultIsHonest == Spec => HonestResult
<1>1. IndInv /\ BlockedInv /\ StopInv /\ AccountInv /\ [Next]_vars => [ResultTells]_vars
  <2> SUFFICES ASSUME IndInv, BlockedInv, StopInv, AccountInv, [Next]_vars PROVE ResultTells
    OBVIOUS
  <2>1. CASE stage = "resolved" /\ Finish
    BY <2>1, FinishIsHonest
  <2>2. CASE ~(stage = "resolved" /\ Finish)
    BY <2>2, StepHasEffect DEF Ongoing, BailWith, LateEnd, ResultTells
  <2> QED BY <2>1, <2>2
<1> QED BY <1>1, IndInvHolds, BlockedInvHolds, StopInvHolds, AccountInvHolds, PTL
        DEF Spec, HonestResult

\* The InternalError of _handleOperationFailure is not thrown before the status of
\* the iteration is computed: its walk only meets Waiting and Blocked consumers.
THEOREM NoInternalError == Spec => [](stage # "finished" => ~internalError)
<1>1. AccountInv => (stage # "finished" => ~internalError)
  BY DEF AccountInv
<1> QED BY <1>1, AccountInvHolds, PTL

-----------------------------------------------------------------------------
(* Late records *)

\* What is downstream of a late record is blocked, or its runner could not be closed.
LateInv ==
  stage = "finished" =>
    \A o \in Operations, d \in Operations :
      phase[d] = "after" /\ d \in Upstream[o] =>
        status[o] \in {"Blocked", "Failure"} /\ phase[o] # "after"

LEMMA NextKeepsLate ==
  ASSUME IndInv, BlockedInv, StopInv, LateInv, [Next]_vars
  PROVE  LateInv'
<1>0. phase \in [Operations -> Phases]
  BY DEF IndInv, TypeOK, Phases
<1>1. CASE stage = "resolved" /\ Finish
  <2> SUFFICES ASSUME NEW o \in Operations, NEW d \in Operations,
                      phase[d] = "after", d \in Upstream[o]
               PROVE  status'[o] \in {"Blocked", "Failure"} /\ phase[o] # "after"
    BY <1>1 DEF Finish, LateInv
  <2>1. EdgesOK(status, deps, completed) /\ d \notin completed
    BY <1>1 DEF IndInv, EdgesInv, EndInv, Quiet, CallbackInv, CallbackOK
  <2>2. status[o] \in {"Waiting", "Blocked"}
    BY <2>1, UpstreamOfRunnable
  <2>3. status[o] = "Blocked"
    BY <1>1, <2>2 DEF IndInv, EndInv, AllTerminal, Terminal
  <2> QED BY <1>1, <2>3 DEF Finish, IndInv, CallbackInv, CallbackOK
<1>2. ASSUME NEW p \in Operations, LateEnd(p)
      PROVE  LateInv'
  BY <1>0, <1>2 DEF LateEnd, LateInv
<1>3. CASE stage = "finished" /\ ~\E p \in Operations : LateEnd(p)
  BY <1>0, <1>3, AfterLoop, LateCompletion DEF LateInv
<1>4. CASE stage # "finished" /\ ~(stage = "resolved" /\ Finish)
  BY <1>4, StepHasEffect DEF Ongoing, BailWith, LateEnd, LateInv
<1> QED BY <1>1, <1>2, <1>3, <1>4

LEMMA LateInvHolds == Spec => []LateInv
<1>1. Init => LateInv
  BY DEF Init, LateInv
<1>2. IndInv /\ BlockedInv /\ StopInv /\ LateInv /\ [Next]_vars => LateInv'
  BY NextKeepsLate
<1> QED BY <1>1, <1>2, IndInvHolds, BlockedInvHolds, StopInvHolds, PTL DEF Spec

\* Once the status of the iteration is computed, the only outcomes that change are
\* those of no-op records whose hook is pending, and nothing downstream of them runs.
THEOREM StatusesAreFinal == Spec => OnlyNoOpsAreLate
<1>1. IndInv /\ StopInv /\ LateInv /\ [Next]_vars => [LateChange]_vars
  <2> SUFFICES ASSUME IndInv, StopInv, LateInv, [Next]_vars, stage = "finished"
               PROVE  LateChange
    BY DEF LateChange
  <2>1. \A o \in Operations : status'[o] # status[o] => phase[o] = "after"
    BY AfterLoop, LateCompletion DEF LateEnd
  <2> QED BY <2>1 DEF LateChange, StopInv, Late, LateInv
<1> QED BY <1>1, IndInvHolds, StopInvHolds, LateInvHolds, PTL DEF Spec, OnlyNoOpsAreLate

-----------------------------------------------------------------------------
(* Refinement of the task graph *)

\* The states of all tasks.
TaskStates == [o \in Operations |-> TaskState(o)]

\* Downstream in the task graph is the converse of Upstream in the code's graph.
LEMMA DownstreamIsConverse ==
  ASSUME NEW o \in Operations, NEW p \in Operations
  PROVE  p \in Tasks!Downstream(o) <=> o \in Upstream[p]
<1>1. ASSUME p \in Tasks!Downstream(o)
      PROVE  o \in Upstream[p]
  <2> DEFINE S == {q \in Operations : o \in Upstream[q]}
  <2>1. {c \in Operations : o \in Dependencies[c]} \subseteq S
    BY DependencyUpstream
  <2>2. \A q \in S : {c \in Operations : q \in Dependencies[c]} \subseteq S
    BY UpstreamOfDependency
  <2>3. S \in SUBSET Operations
    OBVIOUS
  <2>4. p \in S
    <3> HIDE DEF S
    <3> QED BY <1>1, <2>1, <2>2, <2>3 DEF Tasks!Downstream
  <2> QED BY <2>4
<1>2. ASSUME o \in Upstream[p], p \notin Tasks!Downstream(o)
      PROVE  FALSE
  <2> DEFINE D == Tasks!Downstream(o)
             S == Operations \ (D \cup {o})
  <2>1. /\ {c \in Operations : o \in Dependencies[c]} \subseteq D
        /\ \A q \in D : {c \in Operations : q \in Dependencies[c]} \subseteq D
    BY DEF Tasks!Downstream
  <2> HIDE DEF D
  <2>2. \A q \in Operations \ D : Dependencies[q] \subseteq S
    BY <2>1, ConstantTypes
  <2>3. p \in Operations \ D /\ S \in SUBSET Operations /\ \A q \in S : q \in Operations \ D
    BY <1>2 DEF D
  <2> HIDE DEF S
  <2>4. Dependencies[p] \subseteq S /\ \A q \in S : Dependencies[q] \subseteq S
    BY <2>2, <2>3
  <2>5. o \in S
    BY <1>2, <2>3, <2>4 DEF Upstream
  <2> QED BY <2>5 DEF S
<1> QED BY <1>1, <1>2

LEMMA StillKeepsTask ==
  ASSUME IndInv, NEW q \in Operations, Still(q)
  PROVE  TaskState(q)' = TaskState(q)
<1>1. CASE Active(q)
  BY <1>1 DEF Still, Active, TaskState
<1>2. CASE ~Active(q) /\ status'[q] = status[q]
  BY <1>2 DEF Still, Active, TaskState
<1>3. CASE ~Active(q) /\ status[q] \in Unfinished /\ status'[q] \in Unfinished
  BY <1>3 DEF Still, Active, TaskState, Unfinished, Terminal
<1> QED BY <1>1, <1>2, <1>3 DEF Still

\* One task moves, every other stays.
LEMMA OneTaskMoves ==
  ASSUME IndInv, NEW o \in Operations, StillBut(o)
  PROVE  TaskStates' = [TaskStates EXCEPT ![o] = TaskState(o)']
BY StillKeepsTask DEF StillBut, TaskStates

\* What a record that was let through depends on has passed or was cancelled.
LEMMA LetThrough ==
  ASSUME IndInv, stage # "finished", bail = None, NEW o \in Operations, deps[o] = {},
         NEW d \in Dependencies[o]
  PROVE  d \in Operations /\ TaskState(d) \in {"passed", "cancelled"}
<1>1. EdgesOK(status, deps, completed) /\ d \in Operations
  BY ConstantTypes DEF IndInv, EdgesInv
<1>2. d \in completed /\ status[d] \in Ok
  BY <1>1 DEF EdgesOK
<1>3. ~Active(d)
  BY <1>1, <1>2 DEF IndInv, CallbackInv, CallbackOK, Active
<1> QED BY <1>1, <1>2, <1>3 DEF TaskState, Active, Ok

LEMMA EffectRefines ==
  ASSUME IndInv, stage # "finished", bail = None, Effect, stage' # "finished"
  PROVE  [Tasks!Next]_(Tasks!vars)
<1>0. stage # "finished" /\ UNCHANGED (stage = "finished")
  OBVIOUS
<1>1. CASE AllStill
  <2>1. TaskStates' = TaskStates
    BY <1>1, StillKeepsTask DEF AllStill, TaskStates
  <2> QED BY <1>0, <2>1 DEF Tasks!vars, TaskStates
<1>2. ASSUME NEW o \in Operations, Starts(o)
      PROVE  Tasks!Next
  <2>1. TaskState(o) = "pending" /\ TaskState(o)' = "active"
    BY <1>2 DEF Starts, Active, TaskState, Terminal
  <2>2. TaskStates' = [TaskStates EXCEPT ![o] = "active"]
    BY <1>2, <2>1, OneTaskMoves DEF Starts
  <2>3. \A d \in Dependencies[o] : TaskStates[d] \in {"passed", "cancelled"}
    BY <1>2, LetThrough DEF Starts, TaskStates
  <2>4. Tasks!Start(o)
    BY <2>1, <2>2, <2>3 DEF Tasks!Start, TaskStates
  <2> QED BY <1>0, <2>4 DEF Tasks!Next
<1>3. ASSUME NEW o \in Operations, Yields(o)
      PROVE  Tasks!Next
  <2>1. TaskState(o) = "active" /\ TaskState(o)' = "pending"
    BY <1>3 DEF Yields, Active, TaskState, Unfinished, Terminal
  <2>2. TaskStates' = [TaskStates EXCEPT ![o] = "pending"]
    BY <1>3, <2>1, OneTaskMoves DEF Yields
  <2>3. Tasks!Yield(o)
    BY <2>1, <2>2 DEF Tasks!Yield, TaskStates
  <2> QED BY <1>0, <2>3 DEF Tasks!Next
<1>4. ASSUME NEW o \in Operations, Dropped(o)
      PROVE  Tasks!Next
  <2>1. TaskState(o) = "pending" /\ TaskState(o)' = "cancelled"
    BY <1>4 DEF Dropped, Active, TaskState, Terminal
  <2>2. TaskStates' = [TaskStates EXCEPT ![o] = "cancelled"]
    BY <1>4, <2>1, OneTaskMoves DEF Dropped
  <2>3. \A d \in Dependencies[o] : TaskStates[d] \in {"passed", "cancelled"}
    BY <1>4, LetThrough DEF Dropped, TaskStates
  <2>4. TaskStates' = [t \in Operations |-> IF t \in {o} THEN "cancelled" ELSE TaskStates[t]]
    BY <2>2 DEF TaskStates
  <2>5. Tasks!Cancel({o})
    BY <2>1, <2>3, <2>4 DEF Tasks!Cancel, TaskStates
  <2> QED BY <1>0, <2>5 DEF Tasks!Next
<1>5. ASSUME NEW o \in Operations, NEW s \in Terminal, Ends(o, s), s # "Failure"
      PROVE  Tasks!Next
  <2>1. StillBut(o) /\ TaskState(o) = "active"
    BY <1>5 DEF Ends, StillBut, Active, TaskState
  <2>2. TaskStates' = [TaskStates EXCEPT ![o] = TaskState(o)']
    BY <2>1, OneTaskMoves
  <2>3. CASE s = "Aborted"
    <3>1. TaskState(o)' = "cancelled"
      BY <1>5, <2>3 DEF Ends, Active, TaskState
    <3>2. Tasks!GiveUp(o)
      BY <2>1, <2>2, <3>1 DEF Tasks!GiveUp, TaskStates
    <3> QED BY <1>0, <3>2 DEF Tasks!Next
  <2>4. CASE s # "Aborted"
    <3>1. TaskState(o)' = "passed"
      BY <1>5, <2>4 DEF Ends, Active, TaskState
    <3>2. Tasks!Pass(o)
      BY <2>1, <2>2, <3>1 DEF Tasks!Pass, TaskStates
    <3> QED BY <1>0, <3>2 DEF Tasks!Next
  <2> QED BY <2>3, <2>4
<1>6. ASSUME NEW o \in Operations, Ends(o, "Failure")
      PROVE  Tasks!Next
  <2>1. TaskState(o) = "active" /\ TaskState(o)' = "failed"
    BY <1>6 DEF Ends, Active, TaskState
  <2>2. ASSUME NEW q \in Operations \ {o}
        PROVE  \/ q \notin Tasks!Downstream(o) /\ TaskState(q)' = TaskState(q)
               \/ /\ q \in Tasks!Downstream(o)
                  /\ TaskState(q) \in {"pending", "blocked"} /\ TaskState(q)' = "blocked"
    <3>1. CASE o \notin Upstream[q] /\ Still(q)
      BY <3>1, StillKeepsTask, DownstreamIsConverse
    <3>2. CASE /\ o \in Upstream[q] /\ ~Active(q) /\ ~Active(q)'
               /\ status[q] \in {"Waiting", "Blocked"} /\ status'[q] = "Blocked"
      <4>1. q \in Tasks!Downstream(o)
        BY <3>2, DownstreamIsConverse
      <4> QED BY <3>2, <4>1 DEF Active, TaskState, Terminal
    <3> QED BY <1>6, <3>1, <3>2 DEF Ends
  <2>3. o \notin Tasks!Downstream(o) /\ Tasks!Downstream(o) \subseteq Operations
    BY <1>6, DownstreamIsConverse DEF Ends, Tasks!Downstream
  <2>4. \A q \in Tasks!Downstream(o) : TaskStates[q] \in {"pending", "blocked"}
    BY <2>2, <2>3 DEF TaskStates
  <2>5. TaskStates' = [q \in Operations |-> IF q = o THEN "failed"
                                            ELSE IF q \in Tasks!Downstream(o) THEN "blocked"
                                            ELSE TaskStates[q]]
    BY <2>1, <2>2 DEF TaskStates
  <2>6. Tasks!Fail(o)
    BY <2>1, <2>4, <2>5 DEF Tasks!Fail, TaskStates
  <2> QED BY <1>0, <2>6 DEF Tasks!Next
<1> QED BY <1>1, <1>2, <1>3, <1>4, <1>5, <1>6 DEF Effect

LEMMA BailRefines ==
  ASSUME IndInv, BlockedInv, stage \in {"init", "hook"}, NEW b \in Terminal, BailWith(b)
  PROVE  Tasks!Next
<1>1. \A o \in Operations : ~Active(o) /\ status[o] \in {"Ready", "Waiting"}
  BY DEF IndInv, EndInv, Quiet, BlockedInv, Active
<1>2. \A o \in Operations : /\ ~Active(o)' /\ o \notin completed'
                            /\ status'[o] \in {"Skipped", "Aborted"}
  BY <1>1 DEF BailWith, IndInv, EndInv, Quiet, Active, Terminal, queueVars
<1>3. \A o \in Operations : TaskState(o) = "pending" /\ TaskState(o)' = "cancelled"
  BY <1>1, <1>2 DEF TaskState, Active, Terminal
<1>4. /\ \A t \in Operations : TaskStates[t] = "pending"
      /\ \A t \in Operations : Dependencies[t] \subseteq Operations
      /\ TaskStates' = [t \in Operations |-> IF t \in Operations THEN "cancelled" ELSE TaskStates[t]]
  BY <1>3, ConstantTypes DEF TaskStates
<1>5. Tasks!Cancel(Operations)
  BY <1>4 DEF Tasks!Cancel, TaskStates
<1>6. stage # "finished" /\ stage' # "finished"
  BY DEF BailWith
<1> QED BY <1>5, <1>6 DEF Tasks!Next

LEMMA FinishRefines ==
  ASSUME IndInv, StopInv, stage = "resolved", Finish
  PROVE  Tasks!Next
<1>1. PICK failed \in SUBSET Closable :
        status' = [o \in Operations |-> IF o \in failed THEN "Failure" ELSE status[o]]
  BY DEF Finish
<1> DEFINE S == {o \in failed : ~Active(o)}
<1>2. \A o \in Operations :
        /\ status[o] \in Terminal
        /\ Active(o) => Weight[o] = 0
  BY DEF Finish, IndInv, EndInv, AllTerminal, StopInv, Late, Active
<1>3. \A o \in Operations :
        /\ TaskState(o) # "pending"
        /\ TaskState(o) = "active" => Weight[o] = 0 /\ o \notin S
        /\ TaskState(o)' = IF o \in S THEN "failed" ELSE TaskState(o)
  <2>1. /\ phase' = phase /\ completed' = completed
        /\ \A o \in Operations : status'[o] = IF o \in failed THEN "Failure" ELSE status[o]
    BY <1>1 DEF Finish, queueVars
  <2>2. \A o \in Operations : Active(o) <=> TaskState(o) = "active"
    BY DEF Active, TaskState
  <2>3. \A o \in Operations : TaskState(o) # "pending"
    BY <1>2 DEF TaskState
  <2>4. \A o \in Operations \ S : TaskState(o)' = TaskState(o)
    BY <2>1 DEF TaskState, Active
  <2>5. \A o \in S : TaskState(o)' = "failed"
    BY <2>1, ExecutionAssumption DEF TaskState, Active
  <2> QED BY <1>2, <2>2, <2>3, <2>4, <2>5
<1>4. S \in SUBSET Operations
  BY ExecutionAssumption
<1> HIDE DEF S
<1>5. /\ \A t \in Operations : /\ TaskStates[t] # "pending"
                               /\ TaskStates[t] = "active" => Weight[t] = 0 /\ t \notin S
      /\ TaskStates' = [t \in Operations |-> IF t \in S THEN "failed" ELSE TaskStates[t]]
  BY <1>3 DEF TaskStates
<1>6. (stage' = "finished") = TRUE /\ (stage = "finished") = FALSE
  BY DEF Finish
<1>7. Tasks!Close(S)
  BY <1>5, <1>6 DEF Tasks!Close, TaskStates
<1> QED BY <1>4, <1>6, <1>7 DEF Tasks!Next

LEMMA LateEndRefines ==
  ASSUME IndInv, NEW o \in Operations, LateEnd(o)
  PROVE  Tasks!Next
<1>1. phase \in [Operations -> Phases]
  BY DEF IndInv, TypeOK, Phases
<1>2. \A q \in Operations \ {o} : TaskState(q)' = TaskState(q)
  BY <1>1 DEF LateEnd, TaskState
<1>3. TaskState(o) = "active" /\ TaskState(o)' \in {"passed", "failed", "cancelled"}
  BY <1>1 DEF LateEnd, TaskState, Terminal
<1>4. TaskStates' = [TaskStates EXCEPT ![o] = TaskState(o)']
  BY <1>2 DEF TaskStates
<1>5. Tasks!Settle(o)
  BY <1>3, <1>4 DEF Tasks!Settle, TaskStates
<1>6. (stage' = "finished") = TRUE /\ (stage = "finished") = TRUE
  BY DEF LateEnd
<1> QED BY <1>5, <1>6 DEF Tasks!Next

LEMMA StepRefines ==
  ASSUME IndInv, BlockedInv, StopInv, [Next]_vars
  PROVE  [Tasks!Next]_(Tasks!vars)
<1>1. CASE Ongoing
  <2>1. CASE AllStill
    <3>1. TaskStates' = TaskStates
      BY <2>1, StillKeepsTask DEF AllStill, TaskStates
    <3>2. (stage' = "finished") = (stage = "finished")
      BY <1>1 DEF Ongoing
    <3> QED BY <3>1, <3>2 DEF Tasks!vars, TaskStates
  <2>2. CASE stage \in {"loop", "resolved"} /\ bail = None
    BY <1>1, <2>2, EffectRefines DEF Ongoing
  <2> QED BY <1>1, <2>1, <2>2 DEF Ongoing
<1>2. CASE stage \in {"init", "hook"} /\ \E b \in Terminal : BailWith(b)
  BY <1>2, BailRefines
<1>3. CASE stage = "resolved" /\ Finish
  BY <1>3, FinishRefines
<1>4. CASE \E o \in Operations : LateEnd(o)
  BY <1>4, LateEndRefines
<1> QED BY <1>1, <1>2, <1>3, <1>4, StepHasEffect

LEMMA InitRefines == Init => Tasks!Init
<1> SUFFICES ASSUME Init PROVE Tasks!Init
  OBVIOUS
<1>1. \A o \in Operations : TaskState(o) = "pending"
  BY DEF Init, TaskState, Terminal
<1>2. (stage = "finished") = FALSE
  BY DEF Init
<1> QED BY <1>1, <1>2 DEF Tasks!Init

\* The queue, the loop and the handlers implement the task graph: a record runs
\* after its dependencies, a failure blocks all that is downstream in the same
\* step, and a record that ended stays as it ended; records that weigh nothing may
\* end after the iteration.
THEOREM RefinesTaskGraph == Spec => ImplementsTaskGraph
<1>1. IndInv /\ BlockedInv /\ StopInv /\ [Next]_vars => [Tasks!Next]_(Tasks!vars)
  BY StepRefines
<1> QED BY <1>1, InitRefines, IndInvHolds, BlockedInvHolds, StopInvHolds, PTL
        DEF Spec, ImplementsTaskGraph, Tasks!Spec
=============================================================================
