------------------------- MODULE OperationExecution -------------------------
(***************************************************************************)
(* One iteration of Rush's operation graph: the AsyncOperationQueue that   *)
(* hands out records, the weighted Async.forEachAsync loop that pulls from *)
(* it, OperationExecutionRecord.executeAsync, and the completion handlers  *)
(* of OperationGraph._executeInnerAsync.                                   *)
(*                                                                         *)
(* JavaScript runs one handler at a time, so an action is the code between *)
(* two awaits; every await is a point where any other handler may run.     *)
(* The order of the queue (the critical path) is abstracted: any record    *)
(* the code could hand out first may be handed out.                        *)
(***************************************************************************)
EXTENDS Integers, FiniteSets

CONSTANTS
  Operations,             \* the records of the iteration
  NoOperation,            \* "undefined" where a record may be missing
  Dependencies,           \* [Operations -> SUBSET Operations], acyclic
  Weight,                 \* record.weight in 0..Parallelism; 0 for a no-op runner
  Parallelism,            \* the unit budget of the loop
  AllowOversubscription,
  WarningsAllowed,        \* records whose runner.warningsAreAllowed
  Closable,               \* records with shouldRunnerPersist = false
  HookStatuses,           \* terminal statuses reached without the runner
  RunnerStatuses,         \* statuses a runner ends with
  BailStatuses,           \* what a beforeExecuteIterationAsync tap may return
  MaxAttempts             \* bound: times one record is handed out (cobuild retries)

Terminal == {"Success", "SuccessWithWarning", "Skipped", "Blocked",
             "FromCache", "Failure", "NoOp", "Aborted"}

SuccessStatuses == {"Success", "FromCache", "NoOp"}

Status == Terminal \cup {"Ready", "Waiting", "Queued", "Executing"}

ASSUME ExecutionAssumption ==
  /\ IsFiniteSet(Operations)
  /\ Operations # {}
  /\ NoOperation \notin Operations
  /\ Dependencies \in [Operations -> SUBSET Operations]
  /\ Parallelism \in Nat \ {0}
  /\ Weight \in [Operations -> 0..Parallelism]
  /\ AllowOversubscription \in BOOLEAN
  /\ WarningsAllowed \subseteq Operations
  /\ Closable \subseteq Operations
  /\ HookStatuses \subseteq Terminal \ {"Blocked"}
  /\ RunnerStatuses \subseteq Terminal \ {"Blocked"}
  /\ BailStatuses \subseteq Terminal
  /\ MaxAttempts \in Nat \ {0}

VARIABLES
  stage,        \* of _executeInnerAsync
  aborted,      \* abortController.signal.aborted
  status,       \* record.status
  deps,         \* record.dependencies, from which complete() deletes
  queue,        \* _queue of AsyncOperationQueue, as a set
  timesQueued,  \* _numberOfTimesQueuedByOperation, 0 when absent
  completed,    \* _completedOperations
  isDone,       \* _isDone
  pull,         \* the loop's outstanding iterator.next()
  held,         \* the record next() delivered, or nextIterator when pull is idle
  units,        \* concurrentUnitsInProgress
  iterDone,     \* iteratorIsComplete
  phase,        \* how far the callback of a record is
  timers,       \* records with a pending cobuild setTimeout
  results,      \* operations whose resultByOperation entry this iteration set
  flags,        \* hasAnyFailures, hasAnyAborted, hasAnyNonAllowedWarnings
  bail,         \* bailStatus
  result,       \* the status _executeInnerAsync computes
  internalError \* an InternalError escaped a completion handler

queueVars == <<queue, timesQueued, completed, isDone>>
loopVars  == <<pull, held, units, iterDone>>
endVars   == <<bail, result>>
vars == <<stage, aborted, status, deps, queueVars, loopVars, phase, timers,
          results, flags, endVars, internalError>>

None == "none"

TypeOK ==
  /\ stage \in {"init", "hook", "loop", "resolved", "finished", "rejected"}
  /\ aborted \in BOOLEAN
  /\ status \in [Operations -> Status]
  /\ deps \in [Operations -> SUBSET Operations]
  /\ queue \subseteq Operations
  /\ timesQueued \in [Operations -> Nat]
  /\ completed \subseteq Operations
  /\ isDone \in BOOLEAN
  /\ pull \in {"idle", "waiting", "delivered", "ended"}
  /\ held \in Operations \cup {NoOperation}
  /\ units \in Int
  /\ iterDone \in BOOLEAN
  /\ phase \in [Operations -> {"none", "start", "run", "after", "done"}]
  /\ timers \subseteq Operations
  /\ results \subseteq Operations
  /\ flags \subseteq {"failures", "aborted", "warnings"}
  /\ bail \in Terminal \cup {None}
  /\ result \in Terminal \cup {None}
  /\ internalError \in BOOLEAN

-----------------------------------------------------------------------------
(* The dependency graph *)

Consumers(o) == {c \in Operations : o \in Dependencies[c]}

\* A bug to catch: only the direct consumers of a failed record are visited.
ReachedDirectly(o, st) == Consumers(o)

\* The blockedQueue of a failure: the consumers of o, and the consumers of
\* every member that was still Waiting when it was reached.
Reached(o, st) ==
  {p \in Operations :
     \A S \in SUBSET Operations :
       (/\ Consumers(o) \subseteq S
        /\ \A q \in S : st[q] = "Waiting" => Consumers(q) \subseteq S)
       => p \in S}

\* The same closure on the declared edges: everything upstream of o.
Upstream ==
  [o \in Operations |->
     {p \in Operations :
        \A S \in SUBSET Operations :
          (/\ Dependencies[o] \subseteq S
           /\ \A q \in S : Dependencies[q] \subseteq S)
          => p \in S}]

-----------------------------------------------------------------------------
(* AsyncOperationQueue *)

\* The dependency edges that remain after complete() of the set done.
Remaining(ds, done) == [o \in Operations |-> ds[o] \ done]

\* A bug to catch: a consumer is let through as soon as one dependency is done.
UnblockedEarly(st, ds, o) ==
  [c \in Operations |-> IF o \in ds[c] /\ st[c] = "Waiting" THEN "Ready" ELSE st[c]]

\* Consumers of o whose last dependency was o turn from Waiting to Ready.
Unblocked(st, ds, o) ==
  [c \in Operations |->
     IF o \in ds[c] /\ ds[c] = {o} /\ st[c] = "Waiting" THEN "Ready" ELSE st[c]]

Assignable(s) == s = "Ready"

CountAttempt(tq, o) == [tq EXCEPT ![o] = @ + 1]

\* A bug to catch: a no-op record leaves the queue as soon as it executes.
UnendedWork(st) ==
  {o \in queue : st[o] \notin Terminal /\ (st[o] = "Executing" => Weight[o] > 0)}

\* What a pass over the queue leaves in it: the records that have not ended.
Unended(st) == {o \in queue : st[o] \notin Terminal}

\* assignOperations() on the statuses st and attempts tq, with p the state of
\* the loop's request and h the record it holds: without a waiting iterator it
\* looks at nothing; with one it drops terminal records from the queue and
\* hands over a Ready record with the fewest attempts. An empty queue, or a
\* queue found done, ends the request.
AssignOperations(st, tq, p, h) ==
  LET left  == IF p = "waiting" THEN Unended(st) ELSE queue
      ready == {o \in left : Assignable(st[o])}
      done  == isDone \/ left = {}
  IN /\ queue' = left
     /\ isDone' = (done \/ completed' = Operations)
     /\ \/ /\ p = "waiting"
           /\ \E o \in ready :
                /\ \A r \in ready : tq[o] <= tq[r]
                /\ status' = [st EXCEPT ![o] = "Queued"]
                /\ timesQueued' = CountAttempt(tq, o)
                /\ held' = o
           /\ pull' = "delivered"
        \/ /\ p # "waiting" \/ ready = {}
           /\ status' = st
           /\ timesQueued' = tq
           /\ held' = h
           /\ pull' = IF p = "waiting" /\ done THEN "ended" ELSE p

-----------------------------------------------------------------------------
(* The weighted loop of Async.forEachAsync *)

Locked(u) == u + Parallelism

\* The while condition, evaluated on the units u: fetch the next record, which
\* locks the loop by adding the whole budget, or leave the loop.
Fetch(u, st, tq) ==
  \/ /\ u < Parallelism
     /\ units' = Locked(u)
     /\ AssignOperations(st, tq, "waiting", NoOperation)
  \/ /\ u >= Parallelism
     /\ units' = u
     /\ AssignOperations(st, tq, "idle", NoOperation)

\* A bug to catch: only a full budget holds a record back, its weight does not.
ExceedsWhenFull(o, u) == u >= Parallelism /\ ~AllowOversubscription

WouldExceed(o, u) == u + Weight[o] > Parallelism /\ ~AllowOversubscription

AbortSeen == aborted

\* The callback of the loop up to its first await, then the while condition
\* again. An aborted iteration marks the record and completes it at once;
\* otherwise executeAsync starts. ph is the phase of the other callbacks.
StartCallback(o, u, ph) ==
  \/ /\ AbortSeen
     /\ completed' = completed \cup {o}
     /\ deps' = Remaining(deps, {o})
     /\ phase' = [ph EXCEPT ![o] = "done"]
     /\ flags' = flags \cup {"aborted"}
     /\ Fetch(u + Weight[o],
              Unblocked([status EXCEPT ![o] = "Aborted"], deps, o),
              [timesQueued EXCEPT ![o] = 0])
  \/ /\ ~AbortSeen
     /\ phase' = [ph EXCEPT ![o] = "start"]
     /\ UNCHANGED <<completed, deps, flags>>
     /\ Fetch(u + Weight[o], [status EXCEPT ![o] = "Executing"], timesQueued)

\* A record is available to the loop: run it, or keep it as nextIterator
\* until enough units are free.
Consume(o, u, ph) ==
  \/ /\ WouldExceed(o, u)
     /\ held' = o
     /\ pull' = "idle"
     /\ units' = u
     /\ phase' = ph
     /\ UNCHANGED <<status, deps, queueVars, flags>>
  \/ /\ ~WouldExceed(o, u)
     /\ StartCallback(o, u, ph)

\* A bug to catch: the record kept as nextIterator is not looked at again.
QueueForgetsNext(u, ph) ==
  /\ phase' = ph
  /\ IF u < Parallelism /\ held = NoOperation
     THEN UNCHANGED <<completed, deps, flags>> /\ Fetch(u, status, timesQueued)
     ELSE units' = u /\ UNCHANGED <<status, deps, queueVars, pull, held, flags>>

\* queueOperationsAsync() re-entered on the units u when a callback has ended.
QueueOperations(u, ph) ==
  \/ /\ u < Parallelism
     /\ held # NoOperation
     /\ Consume(held, u, ph)
  \/ /\ u < Parallelism => held = NoOperation
     /\ phase' = ph
     /\ IF u < Parallelism
        THEN UNCHANGED <<completed, deps, flags>> /\ Fetch(u, status, timesQueued)
        ELSE units' = u /\ UNCHANGED <<status, deps, queueVars, pull, held, flags>>

\* The condition of onOperationCompletionAsync, the iterator being complete.
NothingInProgress(u) == u = 0

-----------------------------------------------------------------------------
Init ==
  /\ stage = "init"
  /\ aborted = FALSE
  /\ status = [o \in Operations |-> IF Dependencies[o] # {} THEN "Waiting" ELSE "Ready"]
  /\ deps = Dependencies
  /\ queue = Operations
  /\ timesQueued = [o \in Operations |-> 0]
  /\ completed = {}
  /\ isDone = FALSE
  /\ pull = "idle"
  /\ held = NoOperation
  /\ units = 0
  /\ iterDone = FALSE
  /\ phase = [o \in Operations |-> "none"]
  /\ timers = {}
  /\ results = {}
  /\ flags = {}
  /\ bail = None
  /\ result = None
  /\ internalError = FALSE
-----------------------------------------------------------------------------
(* The iteration *)

\* Abandon the iteration with status b: everything unfinished is Skipped when
\* the tap succeeded and Aborted otherwise.
BailWith(b) ==
  LET unexecuted == IF b \in SuccessStatuses THEN "Skipped" ELSE "Aborted"
  IN /\ stage' = "resolved"
     /\ bail' = b
     /\ status' = [o \in Operations |->
                     IF status[o] \in Terminal THEN status[o] ELSE unexecuted]
     /\ flags' = IF unexecuted = "Aborted" THEN flags \cup {"aborted"} ELSE flags
     /\ UNCHANGED <<aborted, deps, queueVars, loopVars, phase, timers, results,
                    result, internalError>>

\* _executeInnerAsync up to the beforeExecuteIterationAsync hook.
StartIteration ==
  /\ stage = "init"
  /\ \/ aborted /\ BailWith("Aborted")
     \/ /\ ~aborted
        /\ stage' = "hook"
        /\ UNCHANGED <<aborted, status, deps, queueVars, loopVars, phase, timers,
                       results, flags, endVars, internalError>>

\* The hook settles: bail out, enter the loop, or reject, and the promise of the
\* iteration with it.
BeforeIterationReturns ==
  /\ stage = "hook"
  /\ \/ \E b \in BailStatuses : BailWith(b)
     \/ /\ stage' = "rejected"
        /\ UNCHANGED <<aborted, status, deps, queueVars, loopVars, phase, timers,
                       results, flags, endVars, internalError>>
     \/ /\ stage' = "loop"
        /\ UNCHANGED <<aborted, deps, completed, iterDone, phase, timers, results,
                       flags, endVars, internalError>>
        /\ Fetch(0, status, timesQueued)

\* next() resolved with a record.
LoopResume ==
  /\ pull = "delivered"
  /\ Consume(held, units - Parallelism, phase)
  /\ UNCHANGED <<stage, aborted, iterDone, timers, results, endVars, internalError>>

\* next() resolved with done: true.
LoopEnd ==
  /\ pull = "ended"
  /\ iterDone' = TRUE
  /\ units' = units - Parallelism
  /\ pull' = "idle"
  /\ stage' = IF stage = "loop" /\ NothingInProgress(units') THEN "resolved" ELSE stage
  /\ UNCHANGED <<aborted, status, deps, queueVars, held, phase, timers, results,
                 flags, endVars, internalError>>

\* The promise of a callback has settled: give its units back, then resolve
\* the loop or look for more work.
CallbackEnds(o) ==
  LET u  == units - Weight[o]
      ph == [phase EXCEPT ![o] = "none"]
  IN /\ phase[o] = "done"
     /\ \/ /\ stage = "loop" /\ ~iterDone
           /\ QueueOperations(u, ph)
           /\ UNCHANGED stage
        \/ /\ stage # "loop" \/ iterDone
           /\ stage' = IF stage = "loop" /\ NothingInProgress(u) THEN "resolved" ELSE stage
           /\ units' = u
           /\ phase' = ph
           /\ UNCHANGED <<status, deps, queueVars, pull, held, flags>>
     /\ UNCHANGED <<aborted, iterDone, timers, results, endVars, internalError>>

\* onStartAsync resolved with undefined for an enabled record.
RunnerStarts(o) ==
  /\ phase[o] = "start"
  /\ phase' = [phase EXCEPT ![o] = "run"]
  /\ UNCHANGED <<stage, aborted, status, deps, queueVars, loopVars, timers,
                 results, flags, endVars, internalError>>

\* The record has a terminal status: the result of a hook (early status,
\* disabled record, exception) or of the runner. onResultAsync then awaits the
\* afterExecuteOperationAsync hook, before the queue hears of the completion.
SetTerminal(o, s) ==
  /\ status' = [status EXCEPT ![o] = s]
  /\ phase' = [phase EXCEPT ![o] = "after"]
  /\ UNCHANGED <<stage, aborted, deps, queueVars, loopVars, timers, results,
                 flags, endVars, internalError>>

HookDecides(o) == phase[o] = "start" /\ \E s \in HookStatuses : SetTerminal(o, s)

RunnerReturns(o) == phase[o] = "run" /\ \E s \in RunnerStatuses : SetTerminal(o, s)

\* The cobuild lock is held elsewhere: the hook arms a timer and returns
\* Executing, so onResultAsync only calls assignOperations().
HookRetries(o) ==
  /\ phase[o] = "start"
  /\ timesQueued[o] < MaxAttempts
  /\ timers' = timers \cup {o}
  /\ phase' = [phase EXCEPT ![o] = "done"]
  /\ UNCHANGED <<stage, aborted, deps, completed, units, iterDone, results, flags,
                 endVars, internalError>>
  /\ AssignOperations(status, timesQueued, pull, held)

\* The timer fires: the record is Ready again and may be reassigned at once.
RetryTimerFires(o) ==
  /\ o \in timers
  /\ phase[o] = "none"
  /\ timers' = timers \ {o}
  /\ UNCHANGED <<stage, aborted, deps, completed, units, iterDone, phase, results,
                 flags, endVars, internalError>>
  /\ AssignOperations([status EXCEPT ![o] = "Ready"], timesQueued, pull, held)

-----------------------------------------------------------------------------
(* Completion handlers *)

\* A bug to catch: the failure of a record leaves no trace in the iteration.
FlagWithoutFailure(o, s) ==
  CASE s = "Aborted" -> {"aborted"}
    [] s = "SuccessWithWarning" /\ o \notin WarningsAllowed -> {"warnings"}
    [] OTHER -> {}

\* The flag a completed record raises in IStatefulExecutionContext.
FlagOf(o, s) ==
  CASE s = "Failure" -> {"failures"}
    [] s = "Aborted" -> {"aborted"}
    [] s = "SuccessWithWarning" /\ o \notin WarningsAllowed -> {"warnings"}
    [] OTHER -> {}

\* _handleOperationFailure meets a record that is neither Waiting nor Blocked.
UnexpectedConsumer(o, st) == \E p \in Reached(o, st) : st[p] \notin {"Waiting", "Blocked"}

\* Statuses after complete(o), o having ended with st[o], and the records that
\* were completed with it.
BlockedBy(o, st) ==
  IF st[o] = "Failure" THEN {p \in Reached(o, st) : st[p] = "Waiting"} ELSE {}

AfterCompletion(o, st) ==
  IF st[o] = "Failure"
  THEN [p \in Operations |-> IF p \in BlockedBy(o, st) THEN "Blocked" ELSE st[p]]
  ELSE Unblocked(st, deps, o)

\* What the hook leaves as the status: an exception makes it Failure, a failed
\* cache write downgrades Success.
StatusesAfterHook(s) ==
  {s, "Failure"} \cup (IF s = "Success" THEN {"SuccessWithWarning"} ELSE {})

\* The afterExecuteOperationAsync hook settles: _onOperationComplete.
OperationCompletes(o) ==
  /\ phase[o] = "after"
  /\ phase' = [phase EXCEPT ![o] = "done"]
  /\ \E s \in StatusesAfterHook(status[o]) :
       LET st    == [status EXCEPT ![o] = s]
           ended == {o} \cup BlockedBy(o, st)
       IN \/ /\ s = "Failure" /\ UnexpectedConsumer(o, st)
             /\ internalError' = TRUE
             /\ status' = st
             /\ UNCHANGED <<deps, queueVars, pull, held, results, flags>>
          \/ /\ ~(s = "Failure" /\ UnexpectedConsumer(o, st))
             /\ flags' = flags \cup FlagOf(o, s)
             /\ results' = IF s \in {"Skipped", "Aborted"} THEN results
                           ELSE results \cup {o}
             /\ completed' = completed \cup ended
             /\ deps' = IF s = "Failure" THEN deps ELSE Remaining(deps, {o})
             /\ AssignOperations(
                  AfterCompletion(o, st),
                  [p \in Operations |-> IF p \in ended THEN 0 ELSE timesQueued[p]],
                  pull, held)
             /\ UNCHANGED internalError
  /\ UNCHANGED <<stage, aborted, units, iterDone, timers, endVars>>

\* The caller, or invalidateOperations(), aborts the iteration.
Abort ==
  /\ ~aborted
  /\ stage \notin {"finished", "rejected"}
  /\ aborted' = TRUE
  /\ UNCHANGED <<stage, status, deps, queueVars, loopVars, phase, timers, results,
                 flags, endVars, internalError>>

\* The runners that do not persist have been closed, all but those of failed;
\* then the status of the iteration is computed.
Finish ==
  /\ stage = "resolved"
  /\ stage' = "finished"
  /\ \E failed \in SUBSET Closable :
       /\ status' = [o \in Operations |-> IF o \in failed THEN "Failure" ELSE status[o]]
       /\ flags' = IF failed # {} THEN flags \cup {"failures"} ELSE flags
  /\ result' = IF "failures" \in flags' THEN "Failure"
               ELSE IF bail # None THEN bail
               ELSE IF "aborted" \in flags' THEN "Aborted"
               ELSE IF "warnings" \in flags' THEN "SuccessWithWarning"
               ELSE "Success"
  /\ UNCHANGED <<aborted, deps, queueVars, loopVars, phase, timers, results, bail,
                 internalError>>

\* The iteration is over and no callback is left.
Terminating ==
  /\ stage \in {"finished", "rejected"}
  /\ \A o \in Operations : phase[o] = "none"
  /\ UNCHANGED vars

CallbackStep(o) ==
  \/ RunnerStarts(o)
  \/ HookDecides(o)
  \/ HookRetries(o)
  \/ RunnerReturns(o)
  \/ OperationCompletes(o)
  \/ CallbackEnds(o)
  \/ RetryTimerFires(o)

LoopStep == LoopResume \/ LoopEnd

IterationStep == StartIteration \/ BeforeIterationReturns \/ Finish

Next ==
  \/ IterationStep
  \/ LoopStep
  \/ \E o \in Operations : CallbackStep(o)
  \/ Abort
  \/ Terminating

\* Every awaited promise settles and every timer fires; nothing makes the
\* caller abort.
Fairness ==
  /\ WF_vars(IterationStep)
  /\ WF_vars(LoopStep)
  /\ \A o \in Operations : WF_vars(CallbackStep(o))

Spec == Init /\ [][Next]_vars /\ Fairness

-----------------------------------------------------------------------------
(* Properties *)

InProgress == {o \in Operations : phase[o] # "none"}

\* The units the records of S take: the sum of their weights.
UnitsOf(S) == Cardinality({slot \in S \X (1..Parallelism) : slot[2] <= Weight[slot[1]]})

UnitsInUse == UnitsOf(InProgress)

\* No record starts before everything upstream of it has gone through complete(),
\* its afterExecuteOperationAsync hook (the cache write) included, without having
\* failed or been blocked (AsyncOperationQueue.complete, record.executeAsync).
DependenciesSettled ==
  \A o \in Operations : phase[o] \in {"start", "run"} =>
    \A d \in Upstream[o] :
      d \in completed /\ status[d] \in Terminal \ {"Failure", "Blocked"}

\* Until the runners are closed, a record is Blocked exactly when something
\* upstream of it failed and was completed (_handleOperationFailure's walk meets
\* every dependent, whatever else completes, retries or aborts meanwhile).
BlockedExactly ==
  stage \in {"loop", "resolved"} =>
    \A o \in Operations :
      status[o] = "Blocked" <=>
        \E d \in Upstream[o] : d \in completed /\ status[d] = "Failure"

\* The callbacks in progress fit the unit budget; with oversubscription they do
\* without one of them (_forEachWeightedAsync).
WithinBudget ==
  \/ UnitsInUse <= Parallelism
  \/ /\ AllowOversubscription
     /\ \E o \in InProgress : UnitsInUse - Weight[o] < Parallelism

\* A record handed out is idle and unfinished: two execution slots never hold
\* the same record, retries included.
HandedOutOnce ==
  held # NoOperation =>
    /\ status[held] = "Queued"
    /\ phase[held] = "none"
    /\ held \notin completed \cup timers

\* Once the status of the iteration is computed, no record's status changes ("a
\* promise which is resolved when all operations have been processed to a final
\* state").
FinalOnceFinished == [][stage = "finished" => status' = status]_vars

\* A record that changes after the status was computed is of a no-op runner (weight
\* 0) and its afterExecuteOperationAsync hook was pending; what is downstream of it
\* will not run.
LateChange ==
  stage = "finished" =>
    /\ \A o \in Operations :
         status'[o] # status[o] => Weight[o] = 0 /\ phase[o] = "after"
    /\ \A o \in Operations, d \in Operations :
         phase[d] = "after" /\ d \in Upstream[o] => status[o] \in {"Blocked", "Failure"}

\* The loop counts units, not callbacks. All that this lets slip is the outcome of
\* no-op records that nobody waits for any more (onOperationCompletionAsync).
OnlyNoOpsAreLate == [][LateChange]_vars

\* The status computed for an iteration that did not bail tells how the records that
\* have gone through complete() ended; only records of no-op runners have not.
ResultTells ==
  stage # "finished" /\ stage' = "finished" /\ bail = None =>
    LET settled == {o \in Operations : phase'[o] # "after"}
    IN /\ \A o \in Operations \ settled : Weight[o] = 0
       /\ result' = "Failure" => \E o \in Operations : status'[o] = "Failure"
       /\ (\E o \in settled : status'[o] = "Failure") => result' = "Failure"
       /\ result' \in {"Success", "SuccessWithWarning"} =>
            \A o \in settled : status'[o] \notin {"Failure", "Blocked", "Aborted"}

\* The iteration is not reported as a success when a record failed, was blocked or
\* aborted, nor as a failure when none failed (the flags of IStatefulExecutionContext).
HonestResult == [][ResultTells]_vars

\* Every iteration comes to an end: no wake-up of the loop or of the queue is
\* lost, whatever fails, blocks, retries or aborts.
EventuallyFinished == <>(stage \in {"finished", "rejected"} /\ InProgress = {})

-----------------------------------------------------------------------------
(* Refinement of the abstract task graph *)

\* The task state of a record. A record that waits for its cobuild timer is
\* pending again; after a bail a record is final without having been completed.
TaskState(o) ==
  IF phase[o] \in {"start", "run", "after"} THEN "active"
  ELSE IF status[o] = "Failure" THEN "failed"
  ELSE IF status[o] = "Blocked" THEN "blocked"
  ELSE IF status[o] = "Aborted" \/ (status[o] = "Skipped" /\ o \notin completed)
       THEN "cancelled"
  ELSE IF status[o] \in Terminal THEN "passed"
  ELSE "pending"

Tasks == INSTANCE TaskGraph WITH
  Tasks <- Operations, Before <- Dependencies, Light <- {o \in Operations : Weight[o] = 0},
  state <- [o \in Operations |-> TaskState(o)],
  closed <- stage = "finished"

\* The iteration implements the abstract task graph: every step of the queue,
\* the loop and the handlers is a task-graph step or leaves it unchanged.
ImplementsTaskGraph == Tasks!Spec
=============================================================================
