--------------------------- MODULE ProjectWatcher ---------------------------
(***************************************************************************)
(* Watch mode: a ProjectWatcher on top of an OperationGraph. The watcher   *)
(* watches while the graph is idle, is stopped when an iteration begins,   *)
(* and schedules an iteration some time after a file has changed. A        *)
(* command executes the graph once, as PhasedScriptAction does; the user   *)
(* and the clients of rush-serve-plugin schedule iterations, too.          *)
(*                                                                         *)
(* Callers whose Method is "schedule" are the calls of                     *)
(* scheduleIterationAsync that the watcher may have under way at a time.   *)
(***************************************************************************)
EXTENDS OperationGraph

VARIABLES
  isWatching,  \* _isWatching
  event,       \* a change is on its way to the listener of fs.watch
  debounce,    \* _debounceHandle is pending
  noticeable   \* history: the last change came while the graph was idle and watched

watcherVars == <<isWatching, event, debounce>>
watchVars == <<vars, watcherVars, noticeable>>

WatchTypeOK ==
  /\ TypeOK
  /\ isWatching \in BOOLEAN
  /\ event \in BOOLEAN
  /\ debounce \in BOOLEAN
  /\ noticeable \in BOOLEAN

\* The command has called executeAsync, right after it created the watcher.
WatchInit ==
  /\ Init
  /\ isWatching = FALSE
  /\ event = FALSE
  /\ debounce = FALSE
  /\ noticeable = FALSE

Unnoticed == UNCHANGED <<watcherVars, noticeable>>

-----------------------------------------------------------------------------
(* Starting and stopping *)

\* The idle timer calls the onIdle hook.
StartsWatching == current = None /\ ~sessionAborted

\* _onIdle: the timer takes what is scheduled, or the watcher starts.
IdleTimeoutStarts ==
  /\ IdleTimeoutFires
  /\ isWatching' = (isWatching \/ (~IdleTimerTakes /\ StartsWatching))
  /\ UNCHANGED <<event, debounce, noticeable>>

\* The beforeExecuteIterationAsync hook of an iteration stops the watchers; what
\* they have not reported yet is dropped. The iteration waits until they are closed.
\* _stopWatchingAsync clears the debounce timer only if it was watching.
TakeAndStop(p) ==
  /\ TakeScheduled(p)
  /\ IF scheduled = None
     THEN UNCHANGED watcherVars
     ELSE /\ isWatching' = FALSE
          /\ event' = FALSE
          /\ debounce' = (debounce /\ ~isWatching)
  /\ UNCHANGED noticeable

\* The watchers of fs.watch are closed by the session's signal.
SessionAbortStops ==
  /\ SessionAborts
  /\ event' = FALSE
  /\ UNCHANGED <<isWatching, debounce, noticeable>>

-----------------------------------------------------------------------------
(* Changes *)

\* Nothing is under way that was begun before.
Undisturbed ==
  /\ current = None
  /\ scheduled = None
  /\ ~idleTimeout
  /\ ~debounce
  /\ \A p \in Processes : at[p] = "out"

FileChanges ==
  /\ FilesChange
  /\ event' = (event \/ (isWatching /\ ~sessionAborted))
  /\ noticeable' = (isWatching /\ Undisturbed)
  /\ UNCHANGED <<isWatching, debounce>>

\* _onFsEvent
FsEvent ==
  /\ Quiet
  /\ event
  /\ event' = FALSE
  /\ debounce' = TRUE
  /\ UNCHANGED <<vars, isWatching, noticeable>>

\* _scheduleIteration
DebounceFires ==
  /\ debounce
  /\ debounce' = FALSE
  /\ \E c \in Callers : Method[c] = "schedule" /\ Call(c)
  /\ UNCHANGED <<isWatching, event, noticeable>>

\* The bound: an iteration is left for every change that has not been scheduled.
SpareIteration ==
  Cardinality({i \in Iterations : phase[i] = "none"}) >
    Cardinality({c \in Callers : at[c] \in {"clearing", "snapshot"}})
      + (MaxVersion - inputs) + (IF event THEN 1 ELSE 0) + (IF debounce THEN 1 ELSE 0)

\* The key "b", or a client of rush-serve-plugin.
SomebodyCalls ==
  /\ SpareIteration
  /\ \E c \in Callers : Method[c] \in {"build", "serve"} /\ Call(c)
  /\ Unnoticed

-----------------------------------------------------------------------------
WatchResumes(p) ==
  \/ p \in Callers /\ ExecuteCleared(p) /\ Unnoticed
  \/ ExecuteScheduled(p) /\ Unnoticed
  \/ TakeAndStop(p)
  \/ Returns(p) /\ Unnoticed

WatchNext ==
  \/ \E c \in Callers : SnapshotArrives(c) /\ Unnoticed
  \/ \E p \in Processes : WatchResumes(p)
  \/ IdleTimeoutStarts
  \/ IterationStep /\ Unnoticed
  \/ AbortCurrentIteration /\ Unnoticed
  \/ TogglePause /\ Unnoticed
  \/ SessionAbortStops
  \/ InvalidateOperations(Operations) /\ Unnoticed
  \/ FileChanges
  \/ FsEvent
  \/ DebounceFires
  \/ SomebodyCalls

\* Promises settle, timers fire, events are delivered and operations end.
WatchSpec ==
  /\ WatchInit
  /\ [][WatchNext]_watchVars
  /\ \A p \in Processes : WF_watchVars(WatchResumes(p))
  /\ \A c \in Callers : WF_watchVars(SnapshotArrives(c) /\ Unnoticed)
  /\ SF_watchVars(IdleTimeoutStarts)
  /\ SF_watchVars(FsEvent)
  /\ SF_watchVars(DebounceFires)
  /\ WF_watchVars(IterationStep /\ Unnoticed)

-----------------------------------------------------------------------------
(* Properties *)

\* Every operation has a result of the files as they are.
Built ==
  \A o \in Operations : resultOf[o] # None /\ snapshot[resultOf[o]] = inputs

\* Somebody has paused, aborted or ended what would build the files as they are, or
\* a hook has thrown.
Prevented ==
  \/ paused
  \/ sessionAborted
  \/ \E i \in Iterations : snapshot[i] = inputs /\ (i \in aborted \/ phase[i] = "rejected")

\* A change that comes while the graph is idle and watched is built, unless another
\* change follows it or somebody prevents it.
NoticedIsBuilt ==
  \A v \in 1..MaxVersion :
    noticeable /\ inputs = v ~> Built \/ Prevented \/ inputs # v
=============================================================================
