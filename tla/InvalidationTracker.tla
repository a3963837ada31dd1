------------------------ MODULE InvalidationTracker ------------------------
(***************************************************************************)
(* WorkspaceInvalidationTracker of the Rush daemon: numbered workspace     *)
(* changes that stay pending until a consumer acknowledges them through a  *)
(* sequence it observed. 0 stands for an undefined sequence and for a path *)
(* that is not in the map.                                                 *)
(***************************************************************************)
EXTENDS Integers, FiniteSets

CONSTANTS
  Paths,            \* the paths a watcher may report
  UnknownPath,      \* a change reported without a path
  MaxTrackedPaths,  \* MAX_TRACKED_CHANGED_PATHS
  MaxSequence       \* bound: number of changes

ASSUME TrackerAssumption ==
  /\ UnknownPath \notin Paths
  /\ MaxTrackedPaths \in Nat \ {0}
  /\ MaxSequence \in Nat

VARIABLES
  sequenceByPath,          \* #sequenceByPath
  initializationSequence,  \* #initializationSequence
  latestSequence,          \* #latestSequence
  unknownChangeSequence,   \* #unknownChangeSequence
  watcherHealthy,          \* #watcherHealthy
  changedAt,               \* history: sequence of the last change, by path
  acknowledged             \* history: the highest sequence acknowledged

pendingVars == <<sequenceByPath, initializationSequence, unknownChangeSequence>>
trackerVars == <<pendingVars, latestSequence, watcherHealthy, changedAt, acknowledged>>

Changes == Paths \cup {UnknownPath}

TypeOK ==
  /\ sequenceByPath \in [Paths -> Nat]
  /\ initializationSequence \in Nat
  /\ latestSequence \in Nat
  /\ unknownChangeSequence \in Nat
  /\ watcherHealthy \in BOOLEAN
  /\ changedAt \in [Changes -> Nat]
  /\ acknowledged \in Nat

Tracked == {p \in Paths : sequenceByPath[p] # 0}

HasUnknownChanges == initializationSequence # 0 \/ unknownChangeSequence # 0

Init ==
  /\ sequenceByPath = [p \in Paths |-> 0]
  /\ initializationSequence = 0
  /\ latestSequence = 0
  /\ unknownChangeSequence = 0
  /\ watcherHealthy = TRUE
  /\ changedAt = [c \in Changes |-> 0]
  /\ acknowledged = 0

\* One more path does not fit the map.
Overflows(p) == p \notin Tracked /\ Cardinality(Tracked) >= MaxTrackedPaths

\* A bug to catch: a full map is cleared without a trace.
RecordLosesOverflow(change) ==
  LET sequence == latestSequence + 1
  IN /\ latestSequence' = sequence
     /\ \/ /\ change = UnknownPath \/ unknownChangeSequence # 0
           /\ unknownChangeSequence' = sequence
           /\ UNCHANGED sequenceByPath
        \/ /\ change # UnknownPath /\ unknownChangeSequence = 0
           /\ sequenceByPath' = IF Overflows(change) THEN [p \in Paths |-> 0]
                                ELSE [sequenceByPath EXCEPT ![change] = sequence]
           /\ UNCHANGED unknownChangeSequence
     /\ changedAt' = [changedAt EXCEPT ![change] = sequence]
     /\ UNCHANGED <<initializationSequence, acknowledged>>

\* invalidate(): a change without a path, or one that comes while an unknown
\* change is pending, is an unknown change; a change that does not fit the map
\* turns the whole map into one.
Record(change) ==
  LET sequence == latestSequence + 1
  IN /\ latestSequence' = sequence
     /\ \/ /\ change = UnknownPath \/ unknownChangeSequence # 0
           /\ unknownChangeSequence' = sequence
           /\ UNCHANGED sequenceByPath
        \/ /\ change # UnknownPath /\ unknownChangeSequence = 0
           /\ Overflows(change)
           /\ sequenceByPath' = [p \in Paths |-> 0]
           /\ unknownChangeSequence' = sequence
        \/ /\ change # UnknownPath /\ unknownChangeSequence = 0
           /\ ~Overflows(change)
           /\ sequenceByPath' = [sequenceByPath EXCEPT ![change] = sequence]
           /\ UNCHANGED unknownChangeSequence
     /\ changedAt' = [changedAt EXCEPT ![change] = sequence]
     /\ UNCHANGED <<initializationSequence, acknowledged>>

Invalidate(change) == Record(change) /\ UNCHANGED watcherHealthy

InvalidateForInitialization ==
  /\ latestSequence' = latestSequence + 1
  /\ initializationSequence' = latestSequence'
  /\ UNCHANGED <<sequenceByPath, unknownChangeSequence, watcherHealthy, changedAt,
                 acknowledged>>

MarkWatcherUnhealthy ==
  /\ watcherHealthy
  /\ watcherHealthy' = FALSE
  /\ Record(UnknownPath)

\* A bug to catch: the unknown change of an unhealthy watcher can be acknowledged.
UnknownSettledAlways(sequence) == unknownChangeSequence <= sequence

\* An unknown change is settled by its sequence, unless the watcher is unhealthy.
UnknownSettled(sequence) == watcherHealthy /\ unknownChangeSequence <= sequence

\* A bug to catch: a path changed at the acknowledged sequence stays pending.
UnsettledThrough(sequence) ==
  [p \in Paths |-> IF sequenceByPath[p] < sequence THEN 0 ELSE sequenceByPath[p]]

\* The map once the paths changed no later than sequence are deleted.
Unsettled(sequence) ==
  [p \in Paths |-> IF sequenceByPath[p] <= sequence THEN 0 ELSE sequenceByPath[p]]

AcknowledgeThrough(sequence) ==
  /\ sequence \in 0..latestSequence
  /\ sequenceByPath' = Unsettled(sequence)
  /\ unknownChangeSequence' = IF UnknownSettled(sequence) THEN 0
                              ELSE unknownChangeSequence
  /\ initializationSequence' = IF initializationSequence <= sequence THEN 0
                               ELSE initializationSequence
  /\ acknowledged' = IF sequence > acknowledged THEN sequence ELSE acknowledged
  /\ UNCHANGED <<latestSequence, watcherHealthy, changedAt>>

\* Consumers acknowledge any sequence a snapshot has shown, in any order.
Next ==
  \/ /\ latestSequence < MaxSequence
     /\ \/ \E change \in Changes : Invalidate(change)
        \/ InvalidateForInitialization
        \/ MarkWatcherUnhealthy
  \/ \E sequence \in 0..latestSequence : AcknowledgeThrough(sequence)

Spec == Init /\ [][Next]_trackerVars

-----------------------------------------------------------------------------
(* Properties *)

\* A change that came after every acknowledged sequence is still reported, by
\* its path or as an unknown change, repeated changes to one path included
\* ("changes that arrive after that sequence remain pending").
NothingForgotten ==
  \A c \in Changes : changedAt[c] > acknowledged =>
    \/ c \in Tracked
    \/ unknownChangeSequence # 0

\* What was acknowledged is not reported again, whatever the order of the
\* acknowledgements, as long as the watcher is healthy.
AcknowledgedIsGone ==
  /\ \A p \in Tracked : sequenceByPath[p] > acknowledged
  /\ watcherHealthy /\ unknownChangeSequence # 0 => unknownChangeSequence > acknowledged

\* An unhealthy watcher never lets the workspace look clean ("consumers cannot
\* mistake the workspace for clean").
UnhealthyIsNeverClean == ~watcherHealthy => unknownChangeSequence # 0

\* The map never holds more paths than its limit, whatever mix of repeated and
\* new paths, overflows and acknowledgements led there (MAX_TRACKED_CHANGED_PATHS).
WithinPathLimit == Cardinality(Tracked) <= MaxTrackedPaths
=============================================================================
