----------------------- MODULE WorkspaceSessionProofs -----------------------
(***************************************************************************)
(* Theorems about WorkspaceSession, for every set of files, every number   *)
(* of changes, versions and queued reconciliations, and either mapper.     *)
(***************************************************************************)
EXTENDS WorkspaceSession, TLAPS

(* The inductive invariant, in parts *)

\* Sequences were issued, and an unhealthy watcher leaves an unknown change.
Issued ==
  /\ unknownChangeSequence <= latestSequence
  /\ initializationSequence <= latestSequence
  /\ \A p \in Paths : sequenceByPath[p] <= latestSequence
  /\ \A c \in Paths \cup {UnknownPath} : changedAt[c] <= latestSequence
  /\ ~watcherHealthy => unknownChangeSequence # 0

\* The changes that no reconciliation may acknowledge are pending since their
\* last sequence.
GraphRetained ==
  /\ \A g \in GraphPaths : changedAt[g] # 0 =>
       \/ sequenceByPath[g] = changedAt[g]
       \/ unknownChangeSequence >= changedAt[g]
  /\ changedAt[UnknownPath] # 0 => unknownChangeSequence >= changedAt[UnknownPath]

\* What the reconciliation in progress has seen: every pending change up to its
\* sequence, and none that requires recreation.
SeenAll ==
  step # "idle" =>
    /\ seen.sequence <= latestSequence
    /\ \A p \in Paths : sequenceByPath[p] # 0 /\ sequenceByPath[p] <= seen.sequence =>
         p \in seen.paths
    /\ unknownChangeSequence # 0 => unknownChangeSequence > seen.sequence
    /\ initializationSequence # 0 => seen.unknown

GraphUnseen ==
  step # "idle" =>
    \A c \in GraphPaths \cup {UnknownPath} :
      changedAt[c] # 0 => changedAt[c] > seen.sequence

\* Nothing goes on before the session is open or after it was disposed of.
Quiescent ==
  /\ stage \in {"creating", "disposed"} => step = "idle" /\ queued = 0
  /\ stage = "creating" => running = {} /\ valid = {} /\ initializationSequence = 0

SessionInv ==
  /\ TypeOK
  /\ Issued
  /\ GraphRetained
  /\ SeenAll
  /\ GraphUnseen
  /\ Quiescent

\* A change of p that the session does not know of yet is on its way to the
\* tracker or pending there; or it is so since the reconciliation has begun.
PendingFor(p) ==
  \/ p \in events
  \/ sequenceByPath[p] # 0
  \/ unknownChangeSequence # 0
  \/ initializationSequence # 0

PendingAfter(p) ==
  \/ p \in events
  \/ sequenceByPath[p] > seen.sequence
  \/ unknownChangeSequence > seen.sequence

\* Operations whose result is valid, or will be when the iteration ends.
HasResult == valid \cup running

VersionsGrow ==
  /\ \A p \in SourcePaths :
       inputs[p] <= disk[p] /\ built[p] <= disk[p] /\ captured[p] <= disk[p]
  /\ PromptEvents => events = {}

\* What is out of date is pending.
OutdatedPends ==
  stage = "open" =>
    \A p \in SourcePaths :
      /\ inputs[p] # disk[p] => PendingFor(p)
      /\ p \in HasResult /\ built[p] # disk[p] => PendingFor(p)
      /\ step = "captured" /\ captured[p] # disk[p] => PendingAfter(p)

\* A mapper that compares snapshots may trust its own: unless a full invalidation
\* is due, no result was built from files older than the inputs.
ResultsNotOlder ==
  stage = "open" /\ PromptEvents /\ ~requiresFull =>
    \A p \in HasResult : inputs[p] <= built[p]

\* Callers do not let iterations overlap reconciliations.
Apart == running # {} => step = "idle" /\ queued = 0

CurrentInv ==
  /\ VersionsGrow
  /\ OutdatedPends
  /\ ResultsNotOlder
  /\ Apart

-----------------------------------------------------------------------------
(* The tracker, as the session drives it *)

\* What a recorded change amounts to: its path carries the new sequence, or the
\* unknown change does.
Noted(change) ==
  /\ latestSequence' \in Nat /\ latestSequence' > latestSequence
  /\ changedAt' = [changedAt EXCEPT ![change] = latestSequence']
  /\ \/ /\ change \in Paths
        /\ unknownChangeSequence = 0 /\ unknownChangeSequence' = 0
        /\ sequenceByPath' = [sequenceByPath EXCEPT ![change] = latestSequence']
     \/ /\ unknownChangeSequence' = latestSequence'
        /\ \/ sequenceByPath' = sequenceByPath
           \/ sequenceByPath' = [p \in Paths |-> 0]
  /\ UNCHANGED <<initializationSequence, acknowledged>>
  /\ watcherHealthy' \in BOOLEAN /\ (~watcherHealthy' => unknownChangeSequence' # 0)

LEMMA InvalidateNotes ==
  ASSUME TypeOK, Issued, NEW change \in Paths \cup {UnknownPath}, Tracker!Invalidate(change)
  PROVE  Noted(change)
<1>1. latestSequence \in Nat /\ unknownChangeSequence \in Nat /\ watcherHealthy \in BOOLEAN
  BY DEF TypeOK, Tracker!TypeOK
<1> QED
  BY <1>1 DEF Tracker!Invalidate, Tracker!Record, Noted, Issued

LEMMA WatcherFailsNotes ==
  ASSUME TypeOK, WatcherFails
  PROVE  Noted(UnknownPath)
<1>1. latestSequence \in Nat
  BY DEF TypeOK, Tracker!TypeOK
<1>2. watcherHealthy' = FALSE
  BY DEF WatcherFails
<1>3. latestSequence' = latestSequence + 2 /\ unknownChangeSequence' = latestSequence'
  BY DEF WatcherFails
<1>4. /\ changedAt' = [changedAt EXCEPT ![UnknownPath] = latestSequence']
      /\ UNCHANGED <<sequenceByPath, initializationSequence, acknowledged>>
  BY DEF WatcherFails
<1>5. /\ latestSequence' \in Nat /\ latestSequence' > latestSequence
      /\ unknownChangeSequence' # 0
  BY <1>1, <1>3
<1> QED
  BY <1>2, <1>3, <1>4, <1>5 DEF Noted

LEMMA NotedTypes ==
  ASSUME TypeOK, NEW change \in Paths \cup {UnknownPath}, Noted(change)
  PROVE  Tracker!TypeOK'
BY DEF TypeOK, Tracker!TypeOK, Tracker!Changes, Noted

\* A recorded change keeps what the tracker and the reconciliation rely on.
LEMMA NotedKeeps ==
  ASSUME SessionInv, NEW change \in Paths \cup {UnknownPath}, Noted(change),
         UNCHANGED <<step, seen>>
  PROVE  Issued' /\ GraphRetained' /\ SeenAll' /\ GraphUnseen'
<1>1. /\ latestSequence \in Nat /\ unknownChangeSequence \in Nat
      /\ initializationSequence \in Nat
      /\ sequenceByPath \in [Paths -> Nat]
      /\ changedAt \in [Paths \cup {UnknownPath} -> Nat]
      /\ seen.sequence \in Nat
  BY DEF SessionInv, TypeOK, Tracker!TypeOK, Tracker!Changes, Snapshot
<1>2. UnknownPath \notin Paths /\ GraphPaths \subseteq Paths
  BY SessionAssumption DEF Paths
<1>3. Issued'
  BY <1>1 DEF SessionInv, Issued, Noted
<1>4. GraphRetained'
  BY <1>1, <1>2 DEF SessionInv, Issued, GraphRetained, Noted
<1>5. SeenAll'
  BY <1>1 DEF SessionInv, SeenAll, Noted
<1>6. GraphUnseen'
  BY <1>1, <1>2 DEF SessionInv, SeenAll, GraphUnseen, Noted
<1> QED
  BY <1>3, <1>4, <1>5, <1>6

\* What is pending stays pending when a change is recorded, and the change of p
\* is pending from then on.
LEMMA NotedPends ==
  ASSUME TypeOK, NEW change \in Paths \cup {UnknownPath}, Noted(change), NEW p \in Paths,
         \/ p = change \/ change = UnknownPath
         \/ sequenceByPath[p] # 0 \/ unknownChangeSequence # 0
  PROVE  sequenceByPath'[p] # 0 \/ unknownChangeSequence' # 0
<1>1. /\ latestSequence \in Nat /\ unknownChangeSequence \in Nat
      /\ sequenceByPath \in [Paths -> Nat]
  BY DEF TypeOK, Tracker!TypeOK
<1> QED
  BY <1>1, SessionAssumption DEF Noted

\* The same for what came after the changes that the reconciliation has seen.
LEMMA NotedPendsAfter ==
  ASSUME TypeOK, NEW change \in Paths \cup {UnknownPath}, Noted(change), NEW p \in Paths,
         seen.sequence <= latestSequence,
         \/ p = change \/ change = UnknownPath
         \/ sequenceByPath[p] > seen.sequence \/ unknownChangeSequence > seen.sequence
  PROVE  sequenceByPath'[p] > seen.sequence \/ unknownChangeSequence' > seen.sequence
<1>1. /\ latestSequence \in Nat /\ unknownChangeSequence \in Nat
      /\ sequenceByPath \in [Paths -> Nat]
      /\ seen.sequence \in Nat
  BY DEF TypeOK, Tracker!TypeOK, Snapshot
<1> QED
  BY <1>1, SessionAssumption DEF Noted

-----------------------------------------------------------------------------
(* The invariant of the session *)

LEMMA InitSession == Init => SessionInv
<1> SUFFICES ASSUME Init PROVE SessionInv
  OBVIOUS
<1>1. TypeOK
  <2>1. Tracker!TypeOK
    BY DEF Init, Tracker!Init, Tracker!TypeOK, Tracker!Changes
  <2>2. disk \in [Paths -> Nat] /\ \A p \in Paths : disk[p] <= MaxVersion[p]
    BY SessionAssumption DEF Init
  <2>3. [p \in SourcePaths |-> 0] \in Versions
    BY SessionAssumption DEF Versions, Paths
  <2>4. seen \in Snapshot
    BY DEF Init, Snapshot, NothingSeen
  <2>5. queued \in 0..MaxQueued
    BY SessionAssumption DEF Init
  <2> QED
    BY <2>1, <2>2, <2>3, <2>4, <2>5 DEF Init, TypeOK, NoCapture
<1>2. Issued /\ GraphRetained /\ Quiescent
  BY SessionAssumption
  DEF Init, Tracker!Init, Tracker!Changes, Issued, GraphRetained, Quiescent, Paths
<1>3. SeenAll /\ GraphUnseen
  BY DEF Init, SeenAll, GraphUnseen
<1> QED
  BY <1>1, <1>2, <1>3 DEF SessionInv

\* A step that leaves the tracker and the reconciliation alone.
LEMMA ElsewhereKeeps ==
  ASSUME SessionInv, UNCHANGED <<trackerVars, step, seen>>
  PROVE  Tracker!TypeOK' /\ Issued' /\ GraphRetained' /\ SeenAll' /\ GraphUnseen'
<1>1. UNCHANGED trackerVars => Tracker!TypeOK'
  BY DEF SessionInv, TypeOK, Tracker!TypeOK, trackerVars
<1>2. Issued' /\ GraphRetained' /\ SeenAll' /\ GraphUnseen'
  BY DEF SessionInv, trackerVars, Issued, GraphRetained, SeenAll, GraphUnseen
<1> QED
  BY <1>1, <1>2

LEMMA VersionsOfDisk ==
  ASSUME TypeOK
  PROVE  /\ [p \in SourcePaths |-> disk[p]] \in Versions
         /\ [p \in SourcePaths |-> IF p \in SourcePaths \ valid THEN disk[p] ELSE built[p]]
              \in Versions
         /\ NoCapture \in Versions
BY SessionAssumption DEF TypeOK, Versions, Paths, NoCapture

LEMMA FileChangesKeeps ==
  ASSUME SessionInv, NEW p \in Paths, FileChanges(p), UNCHANGED mapper
  PROVE  SessionInv'
<1>1. UNCHANGED <<stage, sessionVars, resultVars, mapper>>
  BY DEF FileChanges
<1>2. Tracker!TypeOK' /\ Issued' /\ GraphRetained' /\ SeenAll' /\ GraphUnseen'
  <2>1. CASE UNCHANGED trackerVars
    BY <1>1, <2>1, ElsewhereKeeps DEF sessionVars
  <2>2. CASE Tracker!Invalidate(p)
    <3>1. Noted(p)
      BY <2>2, InvalidateNotes DEF SessionInv
    <3> QED
      BY <1>1, <3>1, NotedKeeps, NotedTypes DEF SessionInv, sessionVars
  <2> QED
    BY <2>1, <2>2 DEF FileChanges
<1>3. disk' \in [Paths -> Nat] /\ \A q \in Paths : disk'[q] <= MaxVersion[q]
  <2>1. disk \in [Paths -> Nat] /\ \A q \in Paths : disk[q] <= MaxVersion[q]
    BY DEF SessionInv, TypeOK
  <2>2. disk[p] < MaxVersion[p] /\ disk' = [disk EXCEPT ![p] = @ + 1]
    BY DEF FileChanges
  <2>3. MaxVersion \in [Paths -> Nat]
    BY SessionAssumption
  <2>4. disk[p] \in Nat /\ MaxVersion[p] \in Nat
    BY <2>1, <2>3
  <2>5. disk[p] + 1 \in Nat /\ disk[p] + 1 <= MaxVersion[p]
    BY <2>2, <2>4
  <2> QED
    BY <2>1, <2>2, <2>5
<1>4. events' \subseteq Paths
  BY DEF SessionInv, TypeOK, FileChanges
<1>5. TypeOK'
  BY <1>1, <1>2, <1>3, <1>4 DEF SessionInv, TypeOK, sessionVars, resultVars
<1>6. Quiescent'
  <2>1. stage = "creating" => UNCHANGED initializationSequence
    BY DEF FileChanges, Watching, trackerVars
  <2> QED
    BY <1>1, <2>1 DEF SessionInv, Quiescent, sessionVars, resultVars
<1> QED
  BY <1>2, <1>5, <1>6 DEF SessionInv

LEMMA WatcherKeeps ==
  ASSUME SessionInv, UNCHANGED mapper,
         WatcherFails \/ \E p \in Paths : WatcherReports(p)
  PROVE  SessionInv'
<1>1. /\ UNCHANGED <<disk, stage, sessionVars, resultVars, mapper>>
      /\ stage # "creating"
      /\ events' \subseteq events
  BY DEF WatcherFails, WatcherReports, Watching
<1>2. PICK change \in Paths \cup {UnknownPath} : Noted(change)
  <2>1. CASE WatcherFails
    BY <2>1, WatcherFailsNotes DEF SessionInv
  <2>2. CASE \E p \in Paths : WatcherReports(p)
    BY <2>2, InvalidateNotes DEF SessionInv, WatcherReports
  <2> QED
    BY <2>1, <2>2
<1>3. Tracker!TypeOK' /\ Issued' /\ GraphRetained' /\ SeenAll' /\ GraphUnseen'
  BY <1>1, <1>2, NotedKeeps, NotedTypes DEF SessionInv, sessionVars
<1>4. TypeOK'
  BY <1>1, <1>3 DEF SessionInv, TypeOK, sessionVars, resultVars
<1>5. Quiescent'
  BY <1>1 DEF SessionInv, Quiescent, sessionVars
<1> QED
  BY <1>3, <1>4, <1>5 DEF SessionInv

LEMMA SessionStartsKeeps ==
  ASSUME SessionInv, SessionStarts, UNCHANGED mapper
  PROVE  SessionInv'
<1>1. /\ stage = "creating" /\ stage' = "open"
      /\ step = "idle"
      /\ latestSequence' = latestSequence + 1
      /\ initializationSequence' = latestSequence'
      /\ UNCHANGED <<sequenceByPath, unknownChangeSequence, watcherHealthy, changedAt,
                     acknowledged, disk, events, sessionVars, resultVars, mapper>>
  BY DEF SessionStarts, Tracker!InvalidateForInitialization, SessionInv, Quiescent
<1>2. latestSequence \in Nat /\ unknownChangeSequence \in Nat
      /\ sequenceByPath \in [Paths -> Nat]
      /\ changedAt \in [Paths \cup {UnknownPath} -> Nat]
  BY DEF SessionInv, TypeOK, Tracker!TypeOK, Tracker!Changes
<1>3. Tracker!TypeOK'
  BY <1>1, <1>2 DEF SessionInv, TypeOK, Tracker!TypeOK
<1>4. TypeOK'
  BY <1>1, <1>3 DEF SessionInv, TypeOK, sessionVars, resultVars
<1>5. Issued'
  BY <1>1, <1>2 DEF SessionInv, Issued
<1>6. GraphRetained'
  BY <1>1 DEF SessionInv, GraphRetained
<1>7. SeenAll' /\ GraphUnseen' /\ Quiescent'
  BY <1>1 DEF SessionInv, SeenAll, GraphUnseen, Quiescent, sessionVars
<1> QED
  BY <1>4, <1>5, <1>6, <1>7 DEF SessionInv

\* The steps of the callers and of the stages: requests, iterations, failure to
\* start, disposal.
LEMMA StagesKeep ==
  ASSUME SessionInv, UNCHANGED mapper,
         \/ SessionFails
         \/ RequestReconciliation
         \/ IterationBegins
         \/ IterationEnds
         \/ DisposeSession
         \/ DisposalStep
  PROVE  SessionInv'
<1>1. /\ UNCHANGED <<trackerVars, disk, inputs, requiresFull, step, seen, captured, mapper>>
      /\ events' \in {events, {}}
  BY DEF SessionFails, RequestReconciliation, IterationBegins, IterationEnds,
         DisposeSession, DisposalStep, WatcherCloses, ComponentsDisposed, sessionVars,
         resultVars
<1>2. Tracker!TypeOK' /\ Issued' /\ GraphRetained' /\ SeenAll' /\ GraphUnseen'
  BY <1>1, ElsewhereKeeps
<1>3. /\ stage' \in {"creating", "open", "disposing", "closing", "disposed"}
      /\ queued' \in 0..MaxQueued
  BY SessionAssumption
  DEF SessionFails, RequestReconciliation, IterationBegins, IterationEnds,
      DisposeSession, DisposalStep, WatcherCloses, ComponentsDisposed, sessionVars,
      SessionInv, TypeOK
<1>4. /\ running' \subseteq SourcePaths /\ valid' \subseteq SourcePaths
      /\ built' \in Versions
  BY VersionsOfDisk
  DEF SessionFails, RequestReconciliation, IterationBegins, IterationEnds,
      DisposeSession, DisposalStep, WatcherCloses, ComponentsDisposed, resultVars,
      SessionInv, TypeOK
<1>5. TypeOK'
  BY <1>1, <1>2, <1>3, <1>4 DEF SessionInv, TypeOK
<1>6. Quiescent'
  BY DEF SessionFails, RequestReconciliation, IterationBegins, IterationEnds,
         DisposeSession, DisposalStep, WatcherCloses, ComponentsDisposed, TailSettled,
         trackerVars, sessionVars, resultVars, SessionInv, Quiescent
<1> QED
  BY <1>2, <1>5, <1>6 DEF SessionInv

\* A reconciliation begins to see what is pending, unless it requires recreation.
LEMMA ReconciliationStartsKeeps ==
  ASSUME SessionInv, ReconciliationStarts, UNCHANGED mapper
  PROVE  SessionInv'
<1>1. /\ step = "idle" /\ queued > 0
      /\ queued' = queued - 1
      /\ UNCHANGED <<trackerVars, disk, events, stage, inputs, requiresFull, captured,
                     resultVars, mapper>>
      /\ \/ UNCHANGED <<step, seen>>
         \/ /\ step' \in {"classify", "capture"}
            /\ seen' = Pending
            /\ ~Dirty(Pending) \/ ~RequiresRecreation(Pending)
  BY DEF ReconciliationStarts, NextTurn
<1>2. Tracker!TypeOK' /\ Issued' /\ GraphRetained'
  BY <1>1 DEF SessionInv, TypeOK, Tracker!TypeOK, Issued, GraphRetained, trackerVars
<1>3. CASE UNCHANGED <<step, seen>>
  <2>1. SeenAll' /\ GraphUnseen'
    BY <1>1, <1>3, ElsewhereKeeps
  <2>2. TypeOK'
    BY <1>1, <1>2, <1>3, SessionAssumption DEF SessionInv, TypeOK, resultVars
  <2>3. Quiescent'
    BY <1>1, <1>3 DEF SessionInv, Quiescent
  <2> QED
    BY <1>2, <2>1, <2>2, <2>3 DEF SessionInv
<1>4. CASE /\ step' \in {"classify", "capture"}
           /\ seen' = Pending
           /\ ~Dirty(Pending) \/ ~RequiresRecreation(Pending)
  <2>1. /\ latestSequence \in Nat /\ unknownChangeSequence \in Nat
        /\ initializationSequence \in Nat
        /\ sequenceByPath \in [Paths -> Nat]
        /\ changedAt \in [Paths \cup {UnknownPath} -> Nat]
        /\ watcherHealthy \in BOOLEAN
    BY DEF SessionInv, TypeOK, Tracker!TypeOK, Tracker!Changes
  <2>2. Pending \in Snapshot
    BY <2>1 DEF Pending, Snapshot, Tracker!Tracked, Tracker!HasUnknownChanges
  <2>3. unknownChangeSequence = 0
    BY <1>4 DEF Dirty, RequiresRecreation, Pending, Tracker!HasUnknownChanges
  <2>4. \A g \in GraphPaths : sequenceByPath[g] = 0
    <3>1. GraphPaths \subseteq Paths
      BY DEF Paths
    <3>2. Tracker!Tracked \cap GraphPaths = {}
      BY <1>4 DEF Dirty, RequiresRecreation, Pending
    <3> QED
      BY <3>1, <3>2 DEF Tracker!Tracked
  <2>5. \A c \in GraphPaths \cup {UnknownPath} : changedAt[c] = 0
    <3>1. GraphPaths \subseteq Paths
      BY DEF Paths
    <3> QED
      BY <2>1, <2>3, <2>4, <3>1 DEF SessionInv, GraphRetained
  <2>6. SeenAll'
    <3>1. /\ seen'.sequence = latestSequence
          /\ seen'.paths = {p \in Paths : sequenceByPath[p] # 0}
          /\ seen'.unknown = (initializationSequence # 0 \/ unknownChangeSequence # 0)
      BY <1>4 DEF Pending, Tracker!Tracked, Tracker!HasUnknownChanges
    <3>2. UNCHANGED <<sequenceByPath, latestSequence, unknownChangeSequence,
                      initializationSequence>>
      BY <1>1 DEF trackerVars
    <3>3. initializationSequence' # 0 => seen'.unknown
      BY <3>1, <3>2
    <3>4. \A p \in Paths : sequenceByPath'[p] # 0 => p \in seen'.paths
      BY <3>1, <3>2
    <3>5. seen'.sequence <= latestSequence'
      BY <2>1, <3>1, <3>2
    <3>6. unknownChangeSequence' = 0
      BY <2>3, <3>2
    <3> QED
      BY <3>3, <3>4, <3>5, <3>6 DEF SeenAll
  <2>7. GraphUnseen'
    BY <1>1, <2>5 DEF GraphUnseen, trackerVars
  <2>8. TypeOK'
    BY <1>1, <1>2, <1>4, <2>2, SessionAssumption DEF SessionInv, TypeOK, resultVars
  <2>9. Quiescent'
    BY <1>1 DEF SessionInv, Quiescent, TypeOK
  <2> QED
    BY <1>2, <2>6, <2>7, <2>8, <2>9 DEF SessionInv
<1> QED
  BY <1>1, <1>3, <1>4

LEMMA ReconciliationGoesOn ==
  ASSUME SessionInv, UNCHANGED mapper,
         ClassifierAccepts \/ CaptureInputs \/ ReconciliationFails
  PROVE  SessionInv'
<1>1. /\ step # "idle" /\ stage' = stage /\ queued' = queued
      /\ UNCHANGED <<trackerVars, disk, events, inputs, requiresFull, resultVars, mapper>>
      /\ \/ step' \in {"capture", "captured"} /\ seen' = seen
         \/ step' = "idle" /\ seen' = NothingSeen
      /\ captured' \in {captured, [p \in SourcePaths |-> disk[p]], NoCapture}
  BY DEF ClassifierAccepts, CaptureInputs, ReconciliationFails, EndStep
<1>2. Tracker!TypeOK' /\ Issued' /\ GraphRetained'
  BY <1>1 DEF SessionInv, TypeOK, Tracker!TypeOK, Issued, GraphRetained, trackerVars
<1>3. SeenAll' /\ GraphUnseen'
  BY <1>1 DEF SessionInv, SeenAll, GraphUnseen, trackerVars
<1>4. seen' \in Snapshot /\ captured' \in Versions
  <2>1. NothingSeen \in Snapshot
    BY DEF NothingSeen, Snapshot
  <2>2. seen \in Snapshot /\ captured \in Versions
    BY DEF SessionInv, TypeOK
  <2>3. TypeOK
    BY DEF SessionInv
  <2> QED
    BY <1>1, <2>1, <2>2, <2>3, VersionsOfDisk
<1>5. TypeOK'
  BY <1>1, <1>2, <1>4 DEF SessionInv, TypeOK, resultVars
<1>6. Quiescent'
  BY <1>1 DEF SessionInv, Quiescent
<1> QED
  BY <1>2, <1>3, <1>5, <1>6 DEF SessionInv

\* What the acknowledgement at the end of a reconciliation leaves pending.
LEMMA AppliesAcknowledges ==
  ASSUME SessionInv, ReconciliationApplies
  PROVE  /\ seen.sequence \in Nat
         /\ latestSequence' = latestSequence /\ watcherHealthy' = watcherHealthy
         /\ changedAt' = changedAt
         /\ acknowledged' \in Nat
         /\ sequenceByPath' = [p \in Paths |->
              IF sequenceByPath[p] <= seen.sequence THEN 0 ELSE sequenceByPath[p]]
         /\ unknownChangeSequence' = unknownChangeSequence
         /\ initializationSequence' =
              IF initializationSequence <= seen.sequence THEN 0 ELSE initializationSequence
<1>1. step # "idle" /\ Tracker!AcknowledgeThrough(seen.sequence)
  BY DEF ReconciliationApplies, ObservedSequence
<1>2. seen.sequence \in Nat /\ acknowledged \in Nat /\ unknownChangeSequence \in Nat
  BY DEF SessionInv, TypeOK, Tracker!TypeOK, Snapshot
<1>3. unknownChangeSequence # 0 => unknownChangeSequence > seen.sequence
  BY <1>1 DEF SessionInv, SeenAll
<1>4. unknownChangeSequence' = unknownChangeSequence
  BY <1>1, <1>2, <1>3 DEF Tracker!AcknowledgeThrough, Tracker!UnknownSettled
<1> QED
  BY <1>1, <1>2, <1>4 DEF Tracker!AcknowledgeThrough, Tracker!Unsettled

LEMMA ReconciliationAppliesKeeps ==
  ASSUME SessionInv, ReconciliationApplies, UNCHANGED mapper
  PROVE  SessionInv'
<1>1. /\ step = "captured" /\ step' = "idle"
      /\ seen' = NothingSeen /\ captured' = NoCapture /\ inputs' = captured
      /\ requiresFull' \in BOOLEAN
      /\ valid' \subseteq valid
      /\ UNCHANGED <<disk, events, stage, queued, running, built, mapper>>
  BY DEF ReconciliationApplies, EndStep, ChangedMeanwhile
<1>2. /\ latestSequence \in Nat /\ unknownChangeSequence \in Nat
      /\ initializationSequence \in Nat /\ watcherHealthy \in BOOLEAN
      /\ sequenceByPath \in [Paths -> Nat]
      /\ changedAt \in [Paths \cup {UnknownPath} -> Nat]
  BY DEF SessionInv, TypeOK, Tracker!TypeOK, Tracker!Changes
<1>3. Tracker!TypeOK'
  BY <1>2, AppliesAcknowledges DEF Tracker!TypeOK, Tracker!Changes
<1>4. TypeOK'
  BY <1>1, <1>3, VersionsOfDisk
  DEF SessionInv, TypeOK, Snapshot, NothingSeen
<1>5. Issued'
  BY <1>2, AppliesAcknowledges DEF SessionInv, Issued
<1>6. GraphRetained'
  <2>1. GraphPaths \subseteq Paths
    BY DEF Paths
  <2>2. \A g \in GraphPaths : changedAt[g] # 0 => changedAt[g] > seen.sequence
    BY <1>1 DEF SessionInv, GraphUnseen
  <2> QED
    BY <1>2, <2>1, <2>2, AppliesAcknowledges DEF SessionInv, GraphRetained
<1>7. SeenAll' /\ GraphUnseen'
  BY <1>1 DEF SeenAll, GraphUnseen
<1>8. Quiescent'
  BY <1>1 DEF SessionInv, Quiescent
<1> QED
  BY <1>4, <1>5, <1>6, <1>7, <1>8 DEF SessionInv

LEMMA NextKeepsSession == SessionInv /\ [Next]_vars => SessionInv'
<1> SUFFICES ASSUME SessionInv, [Next]_vars PROVE SessionInv'
  OBVIOUS
<1>1. CASE Step /\ UNCHANGED mapper
  <2>1. CASE \E p \in Paths : FileChanges(p)
    BY <1>1, <2>1, FileChangesKeeps
  <2>2. CASE WatcherFails \/ \E p \in Paths : WatcherReports(p)
    BY <1>1, <2>2, WatcherKeeps
  <2>3. CASE SessionStarts
    BY <1>1, <2>3, SessionStartsKeeps
  <2>4. CASE \/ SessionFails \/ RequestReconciliation \/ IterationBegins
             \/ IterationEnds \/ DisposeSession \/ DisposalStep
    BY <1>1, <2>4, StagesKeep
  <2>5. CASE ReconciliationStarts
    BY <1>1, <2>5, ReconciliationStartsKeeps
  <2>6. CASE ClassifierAccepts \/ CaptureInputs \/ ReconciliationFails
    BY <1>1, <2>6, ReconciliationGoesOn
  <2>7. CASE ReconciliationApplies
    BY <1>1, <2>7, ReconciliationAppliesKeeps
  <2> QED
    BY <1>1, <2>1, <2>2, <2>3, <2>4, <2>5, <2>6, <2>7 DEF Step, ReconciliationStep
<1>2. CASE UNCHANGED vars
  <2>1. /\ UNCHANGED <<trackerVars, step, seen>>
        /\ UNCHANGED <<disk, events, stage, sessionVars, resultVars, mapper>>
    BY <1>2 DEF vars, sessionVars
  <2>2. Tracker!TypeOK' /\ Issued' /\ GraphRetained' /\ SeenAll' /\ GraphUnseen'
    BY <2>1, ElsewhereKeeps
  <2>3. TypeOK' /\ Quiescent'
    BY <2>1, <2>2 DEF SessionInv, TypeOK, Quiescent, sessionVars, resultVars, trackerVars
  <2> QED
    BY <2>2, <2>3 DEF SessionInv
<1> QED
  BY <1>1, <1>2 DEF Next, Terminating

\* Every reachable state of the session is type-correct.
THEOREM TypeCorrect == Spec => []TypeOK
<1>1. SessionInv => TypeOK
  BY DEF SessionInv
<1> QED
  BY <1>1, InitSession, NextKeepsSession, PTL DEF Spec

\* A reported change of a graph-defining file is pending for ever.
THEOREM GraphChangesPend == Spec => []GraphChangesStick
<1>1. SessionInv => GraphChangesStick
  <2> SUFFICES ASSUME SessionInv, NEW g \in GraphPaths, changedAt[g] # 0
               PROVE  sequenceByPath[g] # 0 \/ unknownChangeSequence # 0
    BY DEF GraphChangesStick, Tracker!Tracked, Paths
  <2>1. changedAt[g] \in Nat /\ unknownChangeSequence \in Nat
    BY DEF SessionInv, TypeOK, Tracker!TypeOK, Tracker!Changes, Paths
  <2> QED
    BY <2>1 DEF SessionInv, GraphRetained
<1> QED
  BY <1>1, InitSession, NextKeepsSession, PTL DEF Spec

\* No reconciliation that began after such a change, or after an unknown one, was
\* reported ever succeeds.
THEOREM GraphChangesBlock == Spec => NoReconciliationAcrossGraphs
<1>1. SessionInv /\ [Next]_vars =>
        [ReconciliationApplies =>
           \A c \in GraphPaths \cup {UnknownPath} :
             changedAt[c] # 0 => changedAt[c] > seen.sequence]_vars
  BY DEF SessionInv, GraphUnseen, ReconciliationApplies
<1> QED
  BY <1>1, InitSession, NextKeepsSession, PTL DEF Spec, NoReconciliationAcrossGraphs

-----------------------------------------------------------------------------
(* A clean session is current *)

LEMMA InitCurrent == Init => CurrentInv
BY SessionAssumption
DEF Init, CurrentInv, VersionsGrow, OutdatedPends, ResultsNotOlder, Apart, NoCapture,
    PromptEvents, Paths

\* The facts on types that the steps below need.
LEMMA VersionTypes ==
  ASSUME TypeOK
  PROVE  /\ \A p \in SourcePaths : /\ disk[p] \in Nat /\ inputs[p] \in Nat
                                   /\ built[p] \in Nat /\ captured[p] \in Nat
         /\ \A p \in Paths : sequenceByPath[p] \in Nat
         /\ latestSequence \in Nat /\ unknownChangeSequence \in Nat
         /\ initializationSequence \in Nat /\ seen.sequence \in Nat
         /\ SourcePaths \subseteq Paths
BY DEF TypeOK, Tracker!TypeOK, Versions, Snapshot, Paths

LEMMA FileChangesKeepsCurrent ==
  ASSUME SessionInv, CurrentInv, NEW f \in Paths, FileChanges(f), UNCHANGED mapper
  PROVE  CurrentInv'
<1>1. /\ UNCHANGED <<stage, sessionVars, resultVars, mapper>>
      /\ disk' = [disk EXCEPT ![f] = @ + 1]
  BY DEF FileChanges
<1>2. /\ disk \in [Paths -> Nat]
      /\ \A p \in Paths : disk'[p] >= disk[p] /\ (p # f => disk'[p] = disk[p])
  BY <1>1 DEF SessionInv, TypeOK
<1>3. VersionsGrow'
  <2>1. PromptEvents' => events' = {}
    BY <1>1 DEF CurrentInv, VersionsGrow, FileChanges, PromptEvents
  <2>2. \A p \in SourcePaths : disk'[p] \in Nat /\ disk[p] \in Nat /\ disk'[p] >= disk[p]
    BY <1>1, <1>2 DEF Paths
  <2> QED
    BY <1>1, <2>1, <2>2, VersionTypes
    DEF SessionInv, CurrentInv, VersionsGrow, sessionVars, resultVars
<1>4. OutdatedPends'
  <2> SUFFICES ASSUME stage = "open", NEW p \in SourcePaths
               PROVE  /\ PendingFor(p) \/ p = f => PendingFor(p)'
                      /\ step = "captured" /\ (PendingAfter(p) \/ p = f) => PendingAfter(p)'
    BY <1>1, <1>2, VersionTypes
    DEF SessionInv, CurrentInv, OutdatedPends, HasResult, sessionVars, resultVars
  <2>1. CASE events' = events \cup {f} /\ UNCHANGED trackerVars
    BY <1>1, <2>1 DEF PendingFor, PendingAfter, trackerVars, sessionVars
  <2>2. CASE Tracker!Invalidate(f) /\ UNCHANGED events
    <3>1. Noted(f)
      BY <2>2, InvalidateNotes DEF SessionInv
    <3>2. step = "captured" => seen.sequence <= latestSequence
      BY DEF SessionInv, SeenAll
    <3>3. seen' = seen /\ initializationSequence' = initializationSequence
      BY <1>1, <3>1 DEF sessionVars, Noted
    <3>4. PendingFor(p) \/ p = f => PendingFor(p)'
      BY <2>2, <3>1, <3>3, NotedPends, VersionTypes DEF PendingFor, SessionInv
    <3>5. step = "captured" /\ (PendingAfter(p) \/ p = f) => PendingAfter(p)'
      BY <2>2, <3>1, <3>2, <3>3, NotedPendsAfter, VersionTypes DEF PendingAfter, SessionInv
    <3> QED
      BY <3>4, <3>5
  <2>3. CASE ~watcherHealthy /\ UNCHANGED <<trackerVars, events>>
    <3>1. unknownChangeSequence # 0 /\ unknownChangeSequence' = unknownChangeSequence
      BY <2>3 DEF SessionInv, Issued, trackerVars
    <3>2. step = "captured" => unknownChangeSequence' > seen'.sequence
      BY <1>1, <3>1 DEF SessionInv, SeenAll, sessionVars
    <3> QED
      BY <3>1, <3>2 DEF PendingFor, PendingAfter
  <2> QED
    BY <2>1, <2>2, <2>3 DEF FileChanges, Watching
<1>5. ResultsNotOlder' /\ Apart'
  BY <1>1 DEF CurrentInv, ResultsNotOlder, Apart, PromptEvents, HasResult, sessionVars,
              resultVars
<1> QED
  BY <1>3, <1>4, <1>5 DEF CurrentInv

\* A change on its way to the tracker arrives there, by its path or unknown.
LEMMA WatcherKeepsCurrent ==
  ASSUME SessionInv, CurrentInv, UNCHANGED mapper,
         WatcherFails \/ \E p \in Paths : WatcherReports(p)
  PROVE  CurrentInv'
<1>1. UNCHANGED <<disk, stage, sessionVars, resultVars, mapper>> /\ events' \subseteq events
  BY DEF WatcherFails, WatcherReports
<1>2. PICK change \in Paths \cup {UnknownPath} :
        Noted(change) /\ (change # UnknownPath => events \subseteq events' \cup {change})
  <2>1. CASE WatcherFails
    BY <2>1, WatcherFailsNotes DEF SessionInv, WatcherFails
  <2>2. CASE \E p \in Paths : WatcherReports(p)
    BY <2>2, InvalidateNotes DEF SessionInv, WatcherReports
  <2> QED
    BY <2>1, <2>2
<1>3. VersionsGrow'
  BY <1>1 DEF CurrentInv, VersionsGrow, PromptEvents, sessionVars, resultVars
<1>4. OutdatedPends'
  <2> SUFFICES ASSUME stage = "open", NEW p \in SourcePaths
               PROVE  /\ PendingFor(p) => PendingFor(p)'
                      /\ step = "captured" /\ PendingAfter(p) => PendingAfter(p)'
    BY <1>1 DEF CurrentInv, OutdatedPends, HasResult, sessionVars, resultVars
  <2>1. seen' = seen /\ initializationSequence' = initializationSequence
    BY <1>1, <1>2 DEF sessionVars, Noted
  <2>2. p \in Paths /\ change \in Paths \cup {UnknownPath}
    BY <1>2 DEF Paths
  <2>3. step = "captured" => seen.sequence <= latestSequence
    BY DEF SessionInv, SeenAll
  <2>4. p \in events => p \in events' \/ p = change \/ change = UnknownPath
    BY <1>2
  <2>5. PendingFor(p) => PendingFor(p)'
    BY <1>2, <2>1, <2>2, <2>4, NotedPends DEF PendingFor, SessionInv
  <2>6. step = "captured" /\ PendingAfter(p) => PendingAfter(p)'
    BY <1>2, <2>1, <2>2, <2>3, <2>4, NotedPendsAfter DEF PendingAfter, SessionInv
  <2> QED
    BY <2>5, <2>6
<1>5. ResultsNotOlder' /\ Apart'
  BY <1>1 DEF CurrentInv, ResultsNotOlder, Apart, PromptEvents, HasResult, sessionVars,
              resultVars
<1> QED
  BY <1>3, <1>4, <1>5 DEF CurrentInv

\* When the watcher starts, everything is out of date until proven current.
LEMMA StartKeepsCurrent ==
  ASSUME SessionInv, CurrentInv, SessionStarts, UNCHANGED mapper
  PROVE  CurrentInv'
<1>1. /\ step = "idle" /\ running = {} /\ valid = {}
      /\ initializationSequence' = latestSequence + 1
      /\ UNCHANGED <<disk, events, sessionVars, resultVars, mapper>>
  BY DEF SessionStarts, SessionInv, Quiescent, Tracker!InvalidateForInitialization
<1>2. initializationSequence' # 0
  BY <1>1, VersionTypes DEF SessionInv
<1>3. VersionsGrow' /\ Apart'
  BY <1>1 DEF CurrentInv, VersionsGrow, Apart, PromptEvents, sessionVars, resultVars
<1>4. OutdatedPends'
  BY <1>1, <1>2 DEF OutdatedPends, PendingFor, HasResult, sessionVars
<1>5. ResultsNotOlder'
  BY <1>1 DEF ResultsNotOlder, HasResult, resultVars
<1> QED
  BY <1>3, <1>4, <1>5 DEF CurrentInv

LEMMA StagesKeepCurrent ==
  ASSUME SessionInv, CurrentInv, UNCHANGED mapper,
         SessionFails \/ DisposeSession \/ DisposalStep
  PROVE  CurrentInv'
<1>1. /\ UNCHANGED <<trackerVars, disk, sessionVars, resultVars, mapper>>
      /\ stage' # "open" /\ events' \in {events, {}}
  BY DEF SessionFails, DisposeSession, DisposalStep, WatcherCloses, ComponentsDisposed
<1>2. VersionsGrow' /\ Apart'
  BY <1>1 DEF CurrentInv, VersionsGrow, Apart, PromptEvents, sessionVars, resultVars
<1>3. OutdatedPends' /\ ResultsNotOlder'
  BY <1>1 DEF OutdatedPends, ResultsNotOlder
<1> QED
  BY <1>2, <1>3 DEF CurrentInv

\* Requests and iterations, which do not overlap reconciliations.
LEMMA IterationKeepsCurrent ==
  ASSUME SessionInv, CurrentInv, UNCHANGED mapper, ~Overlapping,
         RequestReconciliation \/ IterationBegins \/ IterationEnds
  PROVE  CurrentInv'
<1>1. UNCHANGED <<trackerVars, disk, events, stage, inputs, requiresFull, step, seen,
                  captured, mapper>>
  BY DEF RequestReconciliation, IterationBegins, IterationEnds, sessionVars
<1>2. Apart'
  BY DEF CurrentInv, Apart, RequestReconciliation, IterationBegins, IterationEnds,
         sessionVars, resultVars
<1>3. \A p \in SourcePaths :
        \/ p \in HasResult' /\ built'[p] = disk[p]
        \/ built'[p] = built[p] /\ (p \in HasResult' => p \in HasResult)
  <2>1. CASE IterationBegins
    BY <2>1 DEF IterationBegins, HasResult
  <2>2. CASE IterationEnds
    BY <2>2 DEF IterationEnds, HasResult
  <2>3. CASE RequestReconciliation
    BY <2>3 DEF RequestReconciliation, HasResult, resultVars
  <2> QED
    BY <2>1, <2>2, <2>3
<1>4. HasResult' \subseteq SourcePaths
  BY DEF SessionInv, TypeOK, HasResult, RequestReconciliation, IterationBegins,
         IterationEnds, resultVars
<1>5. VersionsGrow'
  BY <1>1, <1>3, VersionTypes DEF CurrentInv, VersionsGrow, PromptEvents, SessionInv
<1>6. OutdatedPends'
  <2>1. \A p \in SourcePaths : PendingFor(p)' = PendingFor(p) /\ PendingAfter(p)' = PendingAfter(p)
    BY <1>1 DEF PendingFor, PendingAfter, trackerVars
  <2> QED
    BY <1>1, <1>3, <2>1 DEF CurrentInv, OutdatedPends
<1>7. ResultsNotOlder'
  BY <1>1, <1>3, <1>4, VersionTypes
  DEF CurrentInv, ResultsNotOlder, VersionsGrow, PromptEvents, SessionInv
<1> QED
  BY <1>2, <1>5, <1>6, <1>7 DEF CurrentInv

LEMMA ReconciliationKeepsCurrent ==
  ASSUME SessionInv, CurrentInv, UNCHANGED mapper,
         \/ ReconciliationStarts \/ ClassifierAccepts \/ CaptureInputs
         \/ ReconciliationFails
  PROVE  CurrentInv'
<1>1. UNCHANGED <<trackerVars, disk, events, stage, inputs, requiresFull, resultVars, mapper>>
  BY DEF ReconciliationStarts, ClassifierAccepts, CaptureInputs, ReconciliationFails
<1>2. \/ captured' = captured
      \/ captured' = NoCapture
      \/ captured' = [p \in SourcePaths |-> disk[p]]
  BY DEF ReconciliationStarts, ClassifierAccepts, CaptureInputs, ReconciliationFails, EndStep
<1>3. step' = "captured" =>
        captured' = [p \in SourcePaths |-> disk[p]]
        \/ (UNCHANGED <<step, seen>> /\ captured' = captured)
  BY DEF ReconciliationStarts, ClassifierAccepts, CaptureInputs, ReconciliationFails, EndStep
<1>4. VersionsGrow'
  BY <1>1, <1>2, VersionTypes
  DEF CurrentInv, VersionsGrow, PromptEvents, SessionInv, NoCapture, resultVars
<1>5. OutdatedPends'
  <2>1. \A p \in SourcePaths :
          PendingFor(p)' = PendingFor(p) /\ (seen' = seen => PendingAfter(p)' = PendingAfter(p))
    BY <1>1 DEF PendingFor, PendingAfter, trackerVars
  <2> QED
    BY <1>1, <1>3, <2>1 DEF CurrentInv, OutdatedPends, HasResult, resultVars
<1>6. ResultsNotOlder'
  BY <1>1 DEF CurrentInv, ResultsNotOlder, PromptEvents, HasResult, resultVars
<1>7. Apart'
  BY <1>1 DEF CurrentInv, Apart, resultVars, ReconciliationStarts, ClassifierAccepts,
              CaptureInputs, ReconciliationFails, NextTurn
<1> QED
  BY <1>4, <1>5, <1>6, <1>7 DEF CurrentInv

\* The step that matters: what a reconciliation leaves valid is current, or its
\* change came after the changes it has seen.
LEMMA AppliesKeepsCurrent ==
  ASSUME SessionInv, CurrentInv, UNCHANGED mapper, ReconciliationApplies
  PROVE  CurrentInv'
<1>1. /\ step = "captured" /\ step' = "idle" /\ captured' = NoCapture
      /\ inputs' = captured
      /\ requiresFull' = ChangedMeanwhile
      /\ valid' = IF IsFull(seen) THEN {} ELSE valid \ MappedOperations
      /\ UNCHANGED <<disk, events, stage, queued, running, built, mapper>>
  BY DEF ReconciliationApplies, EndStep
<1>2. running = {}
  BY <1>1 DEF CurrentInv, Apart
<1>3. \A p \in SourcePaths : PendingAfter(p) => PendingFor(p)'
  BY <1>1, VersionTypes, AppliesAcknowledges
  DEF PendingAfter, PendingFor, SessionInv
<1>4. \A p \in SourcePaths : PendingFor(p) =>
        PendingAfter(p) \/ p \in seen.paths \/ seen.unknown
  BY <1>1, VersionTypes DEF PendingFor, PendingAfter, SessionInv, SeenAll
<1>5. VersionsGrow'
  BY <1>1, VersionTypes DEF CurrentInv, VersionsGrow, PromptEvents, NoCapture, SessionInv
<1>6. Apart'
  BY <1>1, <1>2 DEF Apart
<1>7. CASE stage # "open"
  BY <1>1, <1>5, <1>6, <1>7 DEF CurrentInv, OutdatedPends, ResultsNotOlder
<1>8. CASE stage = "open" /\ IsFull(seen)
  <2>1. HasResult' = {}
    BY <1>1, <1>2, <1>8 DEF HasResult
  <2>2. OutdatedPends'
    BY <1>1, <1>3, <1>8, <2>1 DEF CurrentInv, OutdatedPends
  <2> QED
    BY <1>5, <1>6, <2>1, <2>2 DEF CurrentInv, ResultsNotOlder
<1>9. CASE stage = "open" /\ ~IsFull(seen)
  <2>1. ~requiresFull /\ ~seen.unknown
    BY <1>9 DEF IsFull
  <2>2. HasResult' = valid \ MappedOperations
    BY <1>1, <1>2, <1>9 DEF HasResult
  <2>3. ASSUME NEW p \in SourcePaths, p \in HasResult', built[p] # disk[p]
        PROVE  PendingAfter(p)
    <3>1. p \in HasResult /\ p \notin MappedOperations
      BY <1>2, <2>2, <2>3 DEF HasResult
    <3>2. PendingAfter(p) \/ p \in seen.paths
      BY <1>4, <1>9, <2>1, <2>3, <3>1 DEF CurrentInv, OutdatedPends
    <3>3. CASE p \in seen.paths
      <4>1. PromptEvents /\ captured[p] = inputs[p]
        BY <3>1, <3>3, SessionAssumption DEF MappedOperations, PromptEvents, SessionInv, TypeOK
      <4>2. inputs[p] <= built[p]
        BY <1>9, <2>1, <3>1, <4>1 DEF CurrentInv, ResultsNotOlder
      <4>3. captured[p] # disk[p]
        BY <2>3, <4>1, <4>2, VersionTypes DEF CurrentInv, VersionsGrow, SessionInv
      <4> QED
        BY <1>1, <1>9, <4>3 DEF CurrentInv, OutdatedPends
    <3> QED
      BY <3>2, <3>3
  <2>4. OutdatedPends'
    BY <1>1, <1>3, <1>9, <2>3 DEF CurrentInv, OutdatedPends
  <2>5. ResultsNotOlder'
    <3> SUFFICES ASSUME PromptEvents, ~ChangedMeanwhile, NEW p \in HasResult'
                 PROVE  captured[p] <= built[p]
      BY <1>1, <1>9 DEF ResultsNotOlder, PromptEvents
    <3>1. p \in HasResult /\ p \notin MappedOperations /\ p \in SourcePaths
      BY <1>2, <2>2 DEF HasResult, SessionInv, TypeOK
    <3>2. ~PendingAfter(p)
      <4>1. events = {} /\ latestSequence <= seen.sequence
        BY VersionTypes DEF CurrentInv, VersionsGrow, ChangedMeanwhile, SessionInv
      <4> QED
        BY <3>1, <4>1, VersionTypes DEF PendingAfter, SessionInv, Issued
    <3>3. inputs[p] <= built[p]
      BY <1>9, <2>1, <3>1 DEF CurrentInv, ResultsNotOlder
    <3>4. captured[p] = disk[p]
      BY <1>1, <1>9, <3>1, <3>2 DEF CurrentInv, OutdatedPends
    <3>5. captured[p] = inputs[p]
      <4>1. CASE p \in seen.paths
        BY <3>1, <4>1 DEF MappedOperations
      <4>2. CASE p \notin seen.paths
        BY <1>4, <1>9, <2>1, <3>1, <3>2, <3>4, <4>2 DEF CurrentInv, OutdatedPends
      <4> QED
        BY <4>1, <4>2
    <3> QED
      BY <3>3, <3>5
  <2> QED
    BY <1>5, <1>6, <2>4, <2>5 DEF CurrentInv
<1> QED
  BY <1>7, <1>8, <1>9

LEMMA NextKeepsCurrent ==
  ASSUME ~Overlapping
  PROVE  SessionInv /\ CurrentInv /\ [Next]_vars => CurrentInv'
<1> SUFFICES ASSUME SessionInv, CurrentInv, [Next]_vars PROVE CurrentInv'
  OBVIOUS
<1>1. CASE Step /\ UNCHANGED mapper
  <2>1. CASE \E p \in Paths : FileChanges(p)
    BY <1>1, <2>1, FileChangesKeepsCurrent
  <2>2. CASE WatcherFails \/ \E p \in Paths : WatcherReports(p)
    BY <1>1, <2>2, WatcherKeepsCurrent
  <2>3. CASE SessionStarts
    BY <1>1, <2>3, StartKeepsCurrent
  <2>4. CASE SessionFails \/ DisposeSession \/ DisposalStep
    BY <1>1, <2>4, StagesKeepCurrent
  <2>5. CASE RequestReconciliation \/ IterationBegins \/ IterationEnds
    BY <1>1, <2>5, IterationKeepsCurrent
  <2>6. CASE \/ ReconciliationStarts \/ ClassifierAccepts \/ CaptureInputs
             \/ ReconciliationFails
    BY <1>1, <2>6, ReconciliationKeepsCurrent
  <2>7. CASE ReconciliationApplies
    BY <1>1, <2>7, AppliesKeepsCurrent
  <2> QED
    BY <1>1, <2>1, <2>2, <2>3, <2>4, <2>5, <2>6, <2>7 DEF Step, ReconciliationStep
<1>2. CASE UNCHANGED vars
  BY <1>2
  DEF vars, trackerVars, sessionVars, resultVars, CurrentInv, VersionsGrow, OutdatedPends,
      ResultsNotOlder, Apart, PendingFor, PendingAfter, HasResult, PromptEvents
<1> QED
  BY <1>1, <1>2 DEF Next, Terminating

\* As long as no iteration overlaps a reconciliation, a session that looks clean
\* is: its inputs are the files, and its valid results were built from them,
\* whatever the mapper, the overflows of the tracker and the failed attempts.
THEOREM CleanIsCurrent == ~Overlapping /\ Spec => []CleanMeansCurrent
<1> SUFFICES ASSUME ~Overlapping PROVE Spec => []CleanMeansCurrent
  OBVIOUS
<1>1. SessionInv /\ CurrentInv => CleanMeansCurrent
  BY DEF CurrentInv, OutdatedPends, CleanMeansCurrent, Clean, Dirty, Pending, PendingFor,
         HasResult, Tracker!Tracked, Tracker!HasUnknownChanges, Paths
<1>2. SessionInv /\ CurrentInv /\ [Next]_vars => (SessionInv /\ CurrentInv)'
  BY NextKeepsSession, NextKeepsCurrent
<1> QED
  BY <1>1, <1>2, InitSession, InitCurrent, PTL DEF Spec
============================================================================
