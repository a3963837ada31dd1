-------------------------- MODULE WorkspaceSession --------------------------
(***************************************************************************)
(* The warm workspace session of the Rush daemon: a file watcher feeds the *)
(* InvalidationTracker, WorkspaceEngineLifecycle reconciles the pending    *)
(* changes with the reusable operation graph one call after another, and   *)
(* disposal waits for the reconciliations.                                 *)
(*                                                                         *)
(* A source file stands for the operation that owns it; its content is a   *)
(* version number. A reconciliation is cut at its awaits: classification,  *)
(* capture of the inputs snapshot, mapping of paths to operations.         *)
(***************************************************************************)
EXTENDS Integers, FiniteSets

CONSTANTS
  SourcePaths,      \* project files, each owned by one operation
  GraphPaths,       \* rush.json, package.json, ...: isBuiltInGraphDefiningPath
  UnknownPath,
  MaxTrackedPaths,
  MaxSequence,      \* bound: changes the tracker hears of
  MaxVersion,       \* bound: versions of each file
  MaxQueued,        \* bound: reconciliations waiting for their turn
  Mappers,          \* mappers of changes to operations that a plugin may have given
  Overlapping       \* callers let iterations of the graph overlap reconciliations

Paths == SourcePaths \cup GraphPaths

ASSUME SessionAssumption ==
  /\ SourcePaths \cap GraphPaths = {}
  /\ UnknownPath \notin Paths
  /\ MaxTrackedPaths \in Nat \ {0}
  /\ MaxSequence \in Nat
  /\ MaxVersion \in [Paths -> Nat]
  /\ MaxQueued \in Nat \ {0}
  /\ Mappers \subseteq {"byPath", "comparing"}
  /\ Overlapping \in BOOLEAN

VARIABLES
  sequenceByPath, initializationSequence, latestSequence, unknownChangeSequence,
  watcherHealthy, changedAt, acknowledged,  \* of InvalidationTracker
  disk,          \* version of each file
  events,        \* changes the watcher has not reported yet
  stage,         \* of the session
  inputs,        \* #currentInputsSnapshot
  requiresFull,  \* #requiresFullInvalidation
  queued,        \* reconciliations chained on #reconciliationTail
  step,          \* of the reconciliation in progress
  seen,          \* its invalidationSnapshot
  captured,      \* its nextInputsSnapshot
  running,       \* operations that the iteration in progress executes
  valid,         \* operations with a result that was not invalidated
  built,         \* per operation, the version its last result was built from
  mapper         \* the mapper, which never changes

Tracker == INSTANCE InvalidationTracker

trackerVars == <<sequenceByPath, initializationSequence, latestSequence,
                 unknownChangeSequence, watcherHealthy, changedAt, acknowledged>>
sessionVars == <<inputs, requiresFull, queued, step, seen, captured>>
resultVars == <<running, valid, built>>
vars == <<trackerVars, disk, events, stage, sessionVars, resultVars, mapper>>

Snapshot == [paths : SUBSET Paths, unknown : BOOLEAN, healthy : BOOLEAN, sequence : Nat]

NothingSeen == [paths |-> {}, unknown |-> FALSE, healthy |-> TRUE, sequence |-> 0]

Versions == {v \in [SourcePaths -> Nat] : \A p \in SourcePaths : v[p] <= MaxVersion[p]}

NoCapture == [p \in SourcePaths |-> 0]

TypeOK ==
  /\ Tracker!TypeOK
  /\ disk \in [Paths -> Nat]
  /\ \A p \in Paths : disk[p] <= MaxVersion[p]
  /\ events \subseteq Paths
  /\ stage \in {"creating", "open", "disposing", "closing", "disposed"}
  /\ inputs \in Versions
  /\ requiresFull \in BOOLEAN
  /\ queued \in 0..MaxQueued
  /\ step \in {"idle", "classify", "capture", "captured"}
  /\ seen \in Snapshot
  /\ captured \in Versions
  /\ running \subseteq SourcePaths
  /\ valid \subseteq SourcePaths
  /\ built \in Versions
  /\ mapper \in Mappers

\* createComponentsAsync has captured the first inputs snapshot.
Init ==
  /\ Tracker!Init
  /\ disk = [p \in Paths |-> 0]
  /\ events = {}
  /\ stage = "creating"
  /\ inputs = [p \in SourcePaths |-> 0]
  /\ requiresFull = FALSE
  /\ queued = 0
  /\ step = "idle"
  /\ seen = NothingSeen
  /\ captured = NoCapture
  /\ running = {}
  /\ valid = {}
  /\ built = [p \in SourcePaths |-> 0]
  /\ mapper \in Mappers

-----------------------------------------------------------------------------
(* The files and the watcher *)

Watching == stage \in {"open", "disposing"}

\* A mapper that compares the files needs a watcher that reports a change before
\* the changed file can be read: the next snapshot would hold the change already.
PromptEvents == mapper = "comparing"

\* A file changes. Before the watcher has started nobody hears of it, and an
\* unhealthy watcher may miss it.
FileChanges(p) ==
  /\ disk[p] < MaxVersion[p]
  /\ disk' = [disk EXCEPT ![p] = @ + 1]
  /\ \/ /\ Watching /\ ~PromptEvents
        /\ events' = events \cup {p}
        /\ UNCHANGED trackerVars
     \/ /\ Watching /\ PromptEvents
        /\ latestSequence < MaxSequence
        /\ Tracker!Invalidate(p)
        /\ UNCHANGED events
     \/ /\ ~Watching \/ ~watcherHealthy
        /\ UNCHANGED <<trackerVars, events>>
  /\ UNCHANGED <<stage, sessionVars, resultVars>>

\* The listener of fs.watch, with or without a file name.
WatcherReports(p) ==
  /\ Watching
  /\ p \in events
  /\ latestSequence < MaxSequence
  /\ events' = events \ {p}
  /\ \E change \in {p, UnknownPath} : Tracker!Invalidate(change)
  /\ UNCHANGED <<disk, stage, sessionVars, resultVars>>

\* The error listener: onInvalidation(), and onError marks the watcher unhealthy,
\* which records one more unknown change. Later errors are left out.
WatcherFails ==
  /\ Watching
  /\ watcherHealthy
  /\ latestSequence < MaxSequence - 1
  /\ watcherHealthy' = FALSE
  /\ latestSequence' = latestSequence + 2
  /\ unknownChangeSequence' = latestSequence'
  /\ changedAt' = [changedAt EXCEPT ![UnknownPath] = latestSequence']
  /\ UNCHANGED <<sequenceByPath, initializationSequence, acknowledged, disk, events,
                 stage, sessionVars, resultVars>>

-----------------------------------------------------------------------------
(* The session *)

\* A bug to catch: what happened before the watcher started is not accounted for.
StartsUnmarked ==
  /\ stage = "creating"
  /\ stage' = "open"
  /\ UNCHANGED <<trackerVars, disk, events, sessionVars, resultVars>>

\* The watcher has registered its callbacks.
SessionStarts ==
  /\ stage = "creating"
  /\ latestSequence < MaxSequence
  /\ stage' = "open"
  /\ Tracker!InvalidateForInitialization
  /\ UNCHANGED <<disk, events, sessionVars, resultVars>>

\* startAsync throws: everything created so far is disposed of.
SessionFails ==
  /\ stage = "creating"
  /\ stage' = "disposed"
  /\ UNCHANGED <<trackerVars, disk, events, sessionVars, resultVars>>

RequestReconciliation ==
  /\ stage = "open"
  /\ queued < MaxQueued
  /\ Overlapping \/ running = {}
  /\ queued' = queued + 1
  /\ UNCHANGED <<trackerVars, disk, events, stage, inputs, requiresFull, step,
                 seen, captured, resultVars>>

\* An iteration of the graph, of which only the outcome matters here: every
\* operation without a valid result runs, and may read its files at once.
IterationBegins ==
  /\ stage = "open"
  /\ running = {}
  /\ Overlapping \/ (step = "idle" /\ queued = 0)
  /\ running' = SourcePaths \ valid
  /\ built' = [p \in SourcePaths |-> IF p \in running' THEN disk[p] ELSE built[p]]
  /\ UNCHANGED <<trackerVars, disk, events, stage, sessionVars, valid>>

\* Its results count as valid, whatever was invalidated meanwhile.
IterationEnds ==
  /\ running # {}
  /\ running' = {}
  /\ valid' = valid \cup running
  /\ UNCHANGED <<trackerVars, disk, events, stage, sessionVars, built>>

\* Disposal begins: the session closes its watcher, then disposes of the
\* components, which wait for the tail of the reconciliations.
DisposeSession ==
  /\ stage = "open"
  /\ stage' = "disposing"
  /\ UNCHANGED <<trackerVars, disk, events, sessionVars, resultVars>>

WatcherCloses ==
  /\ stage = "disposing"
  /\ stage' = "closing"
  /\ events' = {}
  /\ UNCHANGED <<trackerVars, disk, sessionVars, resultVars>>

\* #reconciliationTail, which every call is chained on, has settled.
TailSettled == step = "idle" /\ queued = 0

ComponentsDisposed ==
  /\ stage = "closing"
  /\ TailSettled
  /\ stage' = "disposed"
  /\ UNCHANGED <<trackerVars, disk, events, sessionVars, resultVars>>

-----------------------------------------------------------------------------
(* One reconciliation *)

Pending ==
  [paths    |-> Tracker!Tracked,
   unknown  |-> Tracker!HasUnknownChanges,
   healthy  |-> watcherHealthy,
   sequence |-> latestSequence]

Dirty(s) == s.paths # {} \/ s.unknown \/ ~s.healthy

\* A bug to catch: an unknown change is taken for the startup baseline.
RecreatesForPathsOnly(s) == s.paths \cap GraphPaths # {} \/ ~s.healthy

\* #requiresEngineRecreationAsync up to the plugin's classifier.
RequiresRecreation(s) ==
  \/ unknownChangeSequence # 0
  \/ ~s.healthy
  \/ s.paths \cap GraphPaths # {}

IsFull(s) == requiresFull \/ s.unknown \/ ~s.healthy

EndStep == step' = "idle" /\ seen' = NothingSeen /\ captured' = NoCapture

\* A bug to catch: queued calls are not served any more once disposal has begun.
TurnWhenOpen == step = "idle" /\ queued > 0 /\ stage = "open"

\* The call before has settled, and reconcileInvalidationsAsync was called again.
NextTurn == step = "idle" /\ queued > 0

\* The call's turn has come. It returns at once when nothing is pending, throws
\* when the engine must be recreated, or goes on to the plugin's classifier.
ReconciliationStarts ==
  /\ NextTurn
  /\ queued' = queued - 1
  /\ \/ /\ Dirty(Pending) => RequiresRecreation(Pending)
        /\ ~Dirty(Pending) => ~requiresFull
        /\ UNCHANGED <<step, seen>>
     \/ /\ Dirty(Pending) /\ ~RequiresRecreation(Pending)
        /\ step' = "classify"
        /\ seen' = Pending
     \/ /\ ~Dirty(Pending) /\ requiresFull
        /\ step' = "capture"
        /\ seen' = Pending
  /\ UNCHANGED <<trackerVars, disk, events, stage, inputs, requiresFull,
                 captured, resultVars>>

\* isEngineRecreationRequiredAsync lets the reconciliation go on.
ClassifierAccepts ==
  /\ step = "classify"
  /\ step' = "capture"
  /\ UNCHANGED <<trackerVars, disk, events, stage, inputs, requiresFull,
                 queued, seen, captured, resultVars>>

\* The files are read at some point while getInputsSnapshotAsync runs.
CaptureInputs ==
  /\ step = "capture"
  /\ step' = "captured"
  /\ captured' = [p \in SourcePaths |-> disk[p]]
  /\ UNCHANGED <<trackerVars, disk, events, stage, inputs, requiresFull,
                 queued, seen, resultVars>>

\* The classifier requires recreation, or the classifier, the capture or the
\* mapper throws: everything stays pending.
ReconciliationFails ==
  /\ step # "idle"
  /\ EndStep
  /\ UNCHANGED <<trackerVars, disk, events, stage, inputs, requiresFull,
                 queued, resultVars>>

\* What the mapper returns: the owners of the changed paths, or those among them
\* whose files differ between the two snapshots.
MappedOperations ==
  {p \in seen.paths \cap SourcePaths : mapper = "byPath" \/ captured[p] # inputs[p]}

\* A bug to catch: the changes that came in meanwhile are acknowledged as well.
LatestIsObserved == latestSequence

\* The sequence a reconciliation acknowledges.
ObservedSequence == seen.sequence

\* A change was recorded after the snapshot of the pending changes.
ChangedMeanwhile == latestSequence > seen.sequence

\* Invalidate, replace the inputs and acknowledge what was seen, in one go.
ReconciliationApplies ==
  /\ step = "captured"
  /\ valid' = IF IsFull(seen) THEN {} ELSE valid \ MappedOperations
  /\ inputs' = captured
  /\ Tracker!AcknowledgeThrough(ObservedSequence)
  /\ requiresFull' = ChangedMeanwhile
  /\ EndStep
  /\ UNCHANGED <<disk, events, stage, queued, running, built>>

-----------------------------------------------------------------------------
Terminating == stage = "disposed" /\ UNCHANGED vars

ReconciliationStep ==
  \/ ReconciliationStarts
  \/ ClassifierAccepts
  \/ CaptureInputs
  \/ ReconciliationApplies
  \/ ReconciliationFails

DisposalStep == WatcherCloses \/ ComponentsDisposed

Step ==
  \/ \E p \in Paths : FileChanges(p) \/ WatcherReports(p)
  \/ WatcherFails
  \/ SessionStarts
  \/ SessionFails
  \/ RequestReconciliation
  \/ IterationBegins
  \/ IterationEnds
  \/ DisposeSession
  \/ DisposalStep
  \/ ReconciliationStep

Next ==
  \/ Step /\ UNCHANGED mapper
  \/ Terminating

\* Awaited promises settle; nothing makes files change or clients call.
Spec ==
  /\ Init
  /\ [][Next]_vars
  /\ WF_vars(ReconciliationStep /\ UNCHANGED mapper)
  /\ WF_vars(DisposalStep /\ UNCHANGED mapper)

-----------------------------------------------------------------------------
(* Properties *)

\* Nothing is pending, in the tracker or on its way to it.
Clean == stage = "open" /\ ~Dirty(Pending) /\ events = {}

\* When the tracker looks clean the session is: its inputs are the files on the
\* disk, and every result that counts as valid was built from them, whatever
\* changed before the watcher started or while a reconciliation was awaiting.
CleanMeansCurrent ==
  Clean =>
    \A p \in SourcePaths :
      /\ inputs[p] = disk[p]
      /\ p \in valid => built[p] = disk[p]

\* A change of a graph-defining file is never acknowledged: once reported it is
\* pending until the session is recreated ("the invalidations remain
\* unacknowledged").
GraphChangesStick ==
  \A g \in GraphPaths : changedAt[g] # 0 =>
    g \in Tracker!Tracked \/ unknownChangeSequence # 0

\* No reconciliation that starts after such a change was reported succeeds
\* ("callers must not execute the existing operation graph").
NoReconciliationAcrossGraphs ==
  [][ReconciliationApplies =>
       \A c \in GraphPaths \cup {UnknownPath} :
         changedAt[c] # 0 => changedAt[c] > seen.sequence]_vars

\* Disposal comes to an end.
DisposalEnds == stage = "disposing" ~> stage = "disposed"
=============================================================================
