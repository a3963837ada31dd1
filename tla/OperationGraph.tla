--------------------------- MODULE OperationGraph ---------------------------
(***************************************************************************)
(* The life of the iterations of one OperationGraph: scheduled, taken,     *)
(* aborted and replaced by concurrent asynchronous callers and the idle    *)
(* timer, and the invalidation of operations meanwhile.                    *)
(*                                                                         *)
(* A method is cut at its awaits. Code that resumes from an await runs     *)
(* before any timer, key press, message or file system result is handled   *)
(* (Quiet). What happens inside an iteration is OperationExecution's: here *)
(* operations have no dependencies, and succeed.                           *)
(***************************************************************************)
EXTENDS Integers, FiniteSets

CONSTANTS
  Operations,
  Callers,          \* clients of the graph
  Method,           \* what each of them calls
  IdleTimer,        \* the caller that the idle timer is
  MaxIterations,    \* bound: iterations scheduled
  MaxVersion,       \* bound: versions of the input files
  Silent            \* operations with runner.silent

\* executeAsync, which PhasedScriptAction calls once, with the snapshot it has just
\* taken; scheduleIterationAsync, as ProjectWatcher calls it; then
\* executeScheduledIterationAsync if it was paused (its key "b"); or in any case
\* (rush-serve-plugin).
Methods == {"execute", "schedule", "build", "serve"}

ASSUME GraphAssumption ==
  /\ IdleTimer \notin Callers
  /\ Method \in [Callers -> Methods]
  /\ \A c, d \in Callers : Method[c] = "execute" /\ Method[d] = "execute" => c = d
  /\ MaxIterations \in Nat \ {0}
  /\ MaxVersion \in Nat
  /\ Silent \subseteq Operations

Iterations == 1..MaxIterations

None == 0

Processes == Callers \cup {IdleTimer}

VARIABLES
  inputs,         \* version of the files on the disk
  phase,          \* of each iteration
  snapshot,       \* its inputsSnapshot
  enabled,        \* its records with enabled = true
  aborted,        \* iterations whose abortController is aborted
  recordStatus,   \* status of its records
  resultOf,       \* resultByOperation: the iteration whose record it is
  deferred,       \* _deferredInvalidations
  current,        \* _currentIteration
  scheduled,      \* _scheduledIteration
  status,         \* _status
  idleTimeout,    \* _idleTimeout is pending
  paused,         \* _pauseNextIteration
  sessionAborted, \* abortController of the session
  at,             \* of each process: the await it is at
  waitsFor,       \* the iteration an abort waits for, or that was taken
  stale           \* history: operations invalidated since they last began

iterationVars == <<phase, snapshot, enabled, aborted, recordStatus>>
resultVars == <<resultOf, deferred, status>>
slotVars == <<current, scheduled, idleTimeout, paused, sessionAborted>>
processVars == <<at, waitsFor>>
vars == <<inputs, iterationVars, resultVars, slotVars, processVars, stale>>

RecordStatus == {"Ready", "Executing", "Success", "Skipped", "Aborted"}

TerminalStatuses == {"Success", "Skipped", "Aborted"}

IterationTypes ==
  /\ phase \in [Iterations -> {"none", "scheduled", "executing", "ended", "rejected"}]
  /\ snapshot \in [Iterations -> 0..MaxVersion]
  /\ enabled \in [Iterations -> SUBSET Operations]
  /\ aborted \subseteq Iterations
  /\ recordStatus \in [Iterations -> [Operations -> RecordStatus]]

ResultTypes ==
  /\ resultOf \in [Operations -> Iterations \cup {None}]
  /\ deferred \subseteq Operations
  /\ status \in {"Ready", "Executing", "Success", "Aborted"}

SlotTypes ==
  /\ current \in Iterations \cup {None}
  /\ scheduled \in Iterations \cup {None}
  /\ scheduled # None => phase[scheduled] = "scheduled"
  /\ idleTimeout \in BOOLEAN
  /\ paused \in BOOLEAN
  /\ sessionAborted \in BOOLEAN

Places == {"out", "clearing", "snapshot", "scheduled", "taking", "executing"}

ProcessTypes ==
  /\ at \in [Processes -> Places]
  /\ waitsFor \in [Processes -> Iterations \cup {None}]

TypeOK ==
  /\ inputs \in 0..MaxVersion
  /\ IterationTypes
  /\ ResultTypes
  /\ SlotTypes
  /\ ProcessTypes
  /\ stale \in [Operations -> {"no", "settled", "executing"}]

\* The clients that execute the graph when it is new.
Commands == {c \in Callers : Method[c] = "execute"}

\* The graph is new, and the command has called executeAsync: there is nothing to
\* abort.
Init ==
  /\ inputs = 0
  /\ phase = [i \in Iterations |-> "none"]
  /\ snapshot = [i \in Iterations |-> 0]
  /\ enabled = [i \in Iterations |-> {}]
  /\ aborted = {}
  /\ recordStatus = [i \in Iterations |-> [o \in Operations |-> "Ready"]]
  /\ resultOf = [o \in Operations |-> None]
  /\ deferred = {}
  /\ current = None
  /\ scheduled = None
  /\ status = "Ready"
  /\ idleTimeout = (Commands # {})
  /\ paused = FALSE
  /\ sessionAborted = FALSE
  /\ at = [p \in Processes |-> IF p \in Commands THEN "clearing" ELSE "out"]
  /\ waitsFor = [p \in Processes |-> None]
  /\ stale = [o \in Operations |-> "no"]

-----------------------------------------------------------------------------
(* Awaiting *)

\* A bug to catch: nobody waits for the iteration that is being aborted.
AbortAwaitedByNobody(p) == TRUE

\* The promise of iteration i has settled.
Over(i) == phase[i] \in {"ended", "rejected"}

\* The iteration that p aborted is over, if there was one; its error is swallowed.
AbortAwaited(p) == waitsFor[p] # None => Over(waitsFor[p])

\* The iteration that p has taken is over.
TakenEnded(p) == Over(waitsFor[p])

\* p has been resumed.
Resumed(p) ==
  \/ at[p] \in {"clearing", "taking"} /\ AbortAwaited(p)
  \/ at[p] = "scheduled"
  \/ at[p] = "executing" /\ TakenEnded(p)

\* The event loop turns to the next timer or message.
Quiet == \A p \in Processes : ~Resumed(p)

\* A bug to catch: the timer is left alone while iterations are paused.
IdleTimeoutUnlessPaused(c) == idleTimeout \/ (c = None /\ ~sessionAborted /\ ~paused)

\* _setIdleTimeout with c as the current iteration.
IdleTimeoutSet(c) == idleTimeout \/ (c = None /\ ~sessionAborted)

-----------------------------------------------------------------------------
(* Scheduling *)

\* An operation that has a result of the same inputs needs no execution
\* (shouldEnableOperation); invalidated results are Ready again.
UpToDate(o) == resultOf[o] # None /\ recordStatus[resultOf[o]][o] = "Success"

\* A bug to catch: a result is good for any inputs.
EnabledOnce(version) == {o \in Operations : ~UpToDate(o)}

\* The operations with a result of other inputs, or with none.
EnabledOperations(version) ==
  {o \in Operations : UpToDate(o) => snapshot[resultOf[o]] # version}

\* The current iteration is aborted for the new one, unless iterations are paused.
Interrupted == IF paused THEN aborted ELSE aborted \cup ({current} \ {None})

\* The rest of _scheduleIterationAsync for p, with this inputs snapshot. It is
\* followed by goOn when an iteration was scheduled: when it has a record that is
\* not silent (totalOperations).
Schedules(p, version, goOn) ==
  LET required == EnabledOperations(version)
  IN \/ /\ required \ Silent # {}
        /\ \E i \in Iterations :
             /\ phase[i] = "none" /\ \A j \in 1..(i - 1) : phase[j] # "none"
             /\ phase' = [phase EXCEPT ![i] = "scheduled"]
             /\ snapshot' = [snapshot EXCEPT ![i] = version]
             /\ enabled' = [enabled EXCEPT ![i] = required]
             /\ scheduled' = i
        /\ aborted' = Interrupted
        /\ idleTimeout' = IdleTimeoutSet(current)
        /\ at' = [at EXCEPT ![p] = goOn]
        /\ UNCHANGED recordStatus
     \/ /\ required \subseteq Silent
        /\ at' = [at EXCEPT ![p] = IF Method[p] = "serve" THEN "scheduled" ELSE "out"]
        /\ UNCHANGED <<iterationVars, scheduled, idleTimeout>>

\* Where p goes on to when _scheduleIterationAsync returned an iteration.
AfterScheduling(p) ==
  IF Method[p] = "schedule" \/ (Method[p] = "build" /\ ~paused) THEN "out" ELSE "scheduled"

-----------------------------------------------------------------------------
(* Calls *)

\* abortCurrentIterationAsync, called by p and awaited at next. The idle timer
\* that it sets once the iteration has ended was set by the iteration by then.
Aborts(p, next) ==
  /\ aborted' = aborted \cup ({current} \ {None})
  /\ waitsFor' = [waitsFor EXCEPT ![p] = current]
  /\ idleTimeout' = IdleTimeoutSet(current)
  /\ at' = [at EXCEPT ![p] = next]

\* The bound: there is an iteration for every call that has not scheduled one.
IterationsLeft ==
  Cardinality({i \in Iterations : phase[i] = "none"}) >
    Cardinality({c \in Callers : at[c] \in {"clearing", "snapshot"}})

\* scheduleIterationAsync asks for a snapshot. Keys are ignored once the session is
\* aborted.
Call(c) ==
  /\ Quiet
  /\ at[c] = "out"
  /\ IterationsLeft
  /\ Method[c] # "execute"
  /\ Method[c] = "build" => ~sessionAborted
  /\ at' = [at EXCEPT ![c] = "snapshot"]
  /\ UNCHANGED <<inputs, iterationVars, resultVars, slotVars, waitsFor, stale>>

\* executeAsync resumes from its abort, and schedules with the snapshot it was given.
ExecuteCleared(c) ==
  /\ at[c] = "clearing"
  /\ AbortAwaited(c)
  /\ \E version \in 0..inputs : Schedules(c, version, "scheduled")
  /\ waitsFor' = [waitsFor EXCEPT ![c] = None]
  /\ UNCHANGED <<inputs, resultVars, current, paused, sessionAborted, stale>>

\* getInputsSnapshotAsync resolves.
SnapshotArrives(c) ==
  /\ Quiet
  /\ at[c] = "snapshot"
  /\ Schedules(c, inputs, AfterScheduling(c))
  /\ UNCHANGED <<inputs, resultVars, current, paused, sessionAborted, waitsFor, stale>>

\* executeScheduledIterationAsync begins with aborting the current iteration.
ExecuteScheduled(p) ==
  /\ at[p] = "scheduled"
  /\ Aborts(p, "taking")
  /\ UNCHANGED <<inputs, phase, snapshot, enabled, recordStatus, resultVars, current,
                 scheduled, paused, sessionAborted, stale>>

\* The rest of executeScheduledIterationAsync: take what is scheduled by now.
TakeScheduled(p) ==
  /\ at[p] = "taking"
  /\ AbortAwaited(p)
  /\ \/ /\ scheduled # None
        /\ current' = scheduled
        /\ scheduled' = None
        /\ phase' = [phase EXCEPT ![scheduled] = "executing"]
        /\ status' = "Executing"
        /\ at' = [at EXCEPT ![p] = "executing"]
        /\ waitsFor' = [waitsFor EXCEPT ![p] = scheduled]
     \/ /\ scheduled = None
        /\ at' = [at EXCEPT ![p] = "out"]
        /\ waitsFor' = [waitsFor EXCEPT ![p] = None]
        /\ UNCHANGED <<current, scheduled, phase, status>>
  /\ UNCHANGED <<inputs, snapshot, enabled, aborted, recordStatus, resultOf, deferred,
                 idleTimeout, paused, sessionAborted, stale>>

\* The promise of the iteration that p has taken has settled.
Returns(p) ==
  /\ at[p] = "executing"
  /\ TakenEnded(p)
  /\ at' = [at EXCEPT ![p] = "out"]
  /\ waitsFor' = [waitsFor EXCEPT ![p] = None]
  /\ UNCHANGED <<inputs, iterationVars, resultVars, slotVars, stale>>

\* _onIdle has an iteration to execute.
IdleTimerTakes == current = None /\ ~sessionAborted /\ ~paused /\ scheduled # None

\* _onIdle: execute what is scheduled, or call the onIdle hook.
IdleTimeoutFires ==
  /\ Quiet
  /\ idleTimeout
  /\ \/ /\ IdleTimerTakes
        /\ Aborts(IdleTimer, "taking")
     \/ /\ ~IdleTimerTakes
        /\ idleTimeout' = FALSE
        /\ UNCHANGED <<at, waitsFor, aborted>>
  /\ UNCHANGED <<inputs, phase, snapshot, enabled, recordStatus, resultVars, current,
                 scheduled, paused, sessionAborted, stale>>

AbortCurrentIteration ==
  /\ Quiet
  /\ aborted' = aborted \cup ({current} \ {None})
  /\ idleTimeout' = IdleTimeoutSet(current)
  /\ UNCHANGED <<inputs, phase, snapshot, enabled, recordStatus, resultVars, current,
                 scheduled, paused, sessionAborted, processVars, stale>>

\* The setter of pauseNextIteration.
TogglePause ==
  /\ Quiet
  /\ paused' = ~paused
  /\ idleTimeout' = IdleTimeoutSet(current)
  /\ UNCHANGED <<inputs, iterationVars, resultVars, current, scheduled, sessionAborted,
                 processVars, stale>>

\* The session's controller is aborted; PhasedScriptAction aborts the iteration.
SessionAborts ==
  /\ Quiet
  /\ ~sessionAborted
  /\ sessionAborted' = TRUE
  /\ idleTimeout' = FALSE
  /\ aborted' = aborted \cup ({current} \ {None})
  /\ UNCHANGED <<inputs, phase, snapshot, enabled, recordStatus, resultVars, current,
                 scheduled, paused, processVars, stale>>

-----------------------------------------------------------------------------
(* Executing an iteration *)

Active(i) == phase[i] = "executing"

\* The callback of the loop: start the operation, or abort it.
OperationBegins(i, o) ==
  /\ Active(i)
  /\ recordStatus[i][o] = "Ready"
  /\ \/ /\ i \in aborted
        /\ recordStatus' = [recordStatus EXCEPT ![i][o] = "Aborted"]
        /\ UNCHANGED stale
     \/ /\ i \notin aborted
        /\ recordStatus' = [recordStatus EXCEPT ![i][o] = "Executing"]
        /\ stale' = [stale EXCEPT ![o] = IF o \in enabled[i] THEN "no" ELSE @]
  /\ UNCHANGED <<inputs, phase, snapshot, enabled, aborted, resultVars, slotVars,
                 processVars>>

\* The runner succeeds and becomes the result, or the record was not enabled.
OperationEnds(i, o) ==
  /\ Active(i)
  /\ recordStatus[i][o] = "Executing"
  /\ \/ /\ o \in enabled[i]
        /\ recordStatus' = [recordStatus EXCEPT ![i][o] = "Success"]
        /\ resultOf' = [resultOf EXCEPT ![o] = i]
     \/ /\ o \notin enabled[i]
        /\ recordStatus' = [recordStatus EXCEPT ![i][o] = "Skipped"]
        /\ UNCHANGED resultOf
  /\ UNCHANGED <<inputs, phase, snapshot, enabled, aborted, deferred, status, slotVars,
                 processVars, stale>>

\* A bug to catch: what was invalidated during the iteration is not reset.
DeferredForgotten(i) == recordStatus[i]

\* The records of the iteration once the deferred invalidations are applied.
DeferredApplied(i) ==
  [o \in Operations |-> IF o \in deferred THEN "Ready" ELSE recordStatus[i][o]]

\* The finally() of executeScheduledIterationAsync.
IterationSettles(i) ==
  /\ current' = None
  /\ recordStatus' = [recordStatus EXCEPT ![i] = DeferredApplied(i)]
  /\ deferred' = {}
  /\ idleTimeout' = IdleTimeoutSet(None)
  /\ UNCHANGED <<inputs, snapshot, enabled, aborted, resultOf, scheduled, paused,
                 sessionAborted, processVars, stale>>

Settled(i) == \A o \in Operations : recordStatus[i][o] \in TerminalStatuses

\* All records are settled and the hooks have run.
IterationEnds(i) ==
  /\ Active(i)
  /\ Settled(i)
  /\ phase' = [phase EXCEPT ![i] = "ended"]
  /\ status' = IF \E o \in Operations : recordStatus[i][o] = "Aborted" THEN "Aborted"
               ELSE "Success"
  /\ IterationSettles(i)

\* beforeExecuteIterationAsync or afterExecuteIterationAsync has thrown: the status
\* of the graph stays Executing.
IterationRejects(i) ==
  /\ Active(i)
  /\ (\A o \in Operations : recordStatus[i][o] = "Ready") \/ Settled(i)
  /\ phase' = [phase EXCEPT ![i] = "rejected"]
  /\ UNCHANGED status
  /\ IterationSettles(i)

\* A bug to catch: an invalidation does not care for the current iteration.
DefersNothing(o) == FALSE

\* The result of o was produced by the current iteration, which still needs it.
Defers(o) == resultOf[o] = current

\* invalidateOperations for the operations of S.
InvalidateOperations(S) ==
  LET reset == {o \in S : UpToDate(o) /\ ~Defers(o)}
      later == {o \in S : UpToDate(o) /\ Defers(o)}
  IN /\ Quiet
     /\ deferred' = deferred \cup later
     /\ aborted' = IF later = {} THEN aborted ELSE aborted \cup {current}
     /\ recordStatus' = [i \in Iterations |->
          [o \in Operations |->
            IF o \in reset /\ resultOf[o] = i THEN "Ready" ELSE recordStatus[i][o]]]
     /\ status' = IF current = None THEN "Ready" ELSE status
     /\ stale' = [o \in Operations |->
          IF o \notin S THEN stale[o]
          ELSE IF \E i \in Iterations : Active(i) /\ recordStatus[i][o] = "Executing"
               THEN "executing"
               ELSE "settled"]
     /\ UNCHANGED <<inputs, phase, snapshot, enabled, resultOf, slotVars, processVars>>

FilesChange ==
  /\ Quiet
  /\ inputs < MaxVersion
  /\ inputs' = inputs + 1
  /\ UNCHANGED <<iterationVars, resultVars, slotVars, processVars, stale>>

-----------------------------------------------------------------------------
Resumes(p) ==
  \/ p \in Callers /\ ExecuteCleared(p)
  \/ ExecuteScheduled(p)
  \/ TakeScheduled(p)
  \/ Returns(p)

IterationStep ==
  \E i \in Iterations :
    \/ \E o \in Operations : OperationBegins(i, o) \/ OperationEnds(i, o)
    \/ IterationEnds(i) \/ IterationRejects(i)

Next ==
  \/ \E c \in Callers : Call(c) \/ SnapshotArrives(c)
  \/ \E p \in Processes : Resumes(p)
  \/ IdleTimeoutFires
  \/ IterationStep
  \/ AbortCurrentIteration
  \/ TogglePause
  \/ SessionAborts
  \/ \E o \in Operations : InvalidateOperations({o})
  \/ InvalidateOperations(Operations)
  \/ FilesChange

\* Promises settle, timers fire and operations end; nobody has to call.
Spec ==
  /\ Init
  /\ [][Next]_vars
  /\ \A p \in Processes : WF_vars(Resumes(p))
  /\ \A c \in Callers : WF_vars(SnapshotArrives(c))
  /\ SF_vars(IdleTimeoutFires)
  /\ WF_vars(IterationStep)

-----------------------------------------------------------------------------
(* Properties *)

\* The graph executes one iteration at a time, and it is the current one,
\* whoever schedules, executes and aborts ("Aborts the current iteration first").
OneAtATime == \A i \in Iterations : Active(i) => i = current

\* The results of the iteration that executes are not touched by invalidations
\* ("Mutating its status now would corrupt the iteration's result snapshot").
ResultsStandStill ==
  [][\A i \in Iterations, o \in Operations :
       Active(i) /\ Active(i)' /\ recordStatus[i][o] \in TerminalStatuses =>
         recordStatus'[i][o] = recordStatus[i][o]]_vars

\* An operation that was invalidated while it was not executing does not pass
\* for up to date once the graph is idle, unless it has begun again.
InvalidationSticks ==
  current = None => \A o \in Operations : stale[o] = "settled" => ~UpToDate(o)

\* The same for operations that were executing ("Invalidates the specified
\* operations, causing them to be re-executed").
InvalidatedRunsAgain ==
  current = None => \A o \in Operations : stale[o] # "no" => ~UpToDate(o)

\* What is scheduled is not left behind: it executes, it or what replaces it (of
\* which there is an end), unless somebody pauses the graph or ends the session.
ScheduledIsTaken ==
  scheduled # None ~> scheduled = None \/ paused \/ sessionAborted
=============================================================================
