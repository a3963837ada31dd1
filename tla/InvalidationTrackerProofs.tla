--------------------- MODULE InvalidationTrackerProofs ---------------------
(***************************************************************************)
(* Theorems about InvalidationTracker, for every set of paths, every limit *)
(* of the map and every number of changes.                                 *)
(***************************************************************************)
EXTENDS InvalidationTracker, FiniteSetTheorems, TLAPS

\* No recorded sequence is ahead of latestSequence.
SequencesIssued ==
  /\ acknowledged <= latestSequence
  /\ unknownChangeSequence <= latestSequence
  /\ \A p \in Paths : sequenceByPath[p] <= latestSequence
  /\ \A c \in Changes : changedAt[c] <= latestSequence

\* What keeps an unacknowledged change reported: its path carries the sequence
\* of its last change, or the unknown change is at least as recent.
Retained ==
  \A c \in Changes : changedAt[c] > acknowledged =>
    \/ c \in Paths /\ sequenceByPath[c] = changedAt[c]
    \/ unknownChangeSequence >= changedAt[c]

IndInv ==
  /\ TypeOK
  /\ SequencesIssued
  /\ Retained
  /\ AcknowledgedIsGone
  /\ UnhealthyIsNeverClean

-----------------------------------------------------------------------------

LEMMA InitIndInv == Init => IndInv
<1> SUFFICES ASSUME Init PROVE IndInv
  OBVIOUS
<1>1. TypeOK /\ SequencesIssued /\ UnhealthyIsNeverClean
  BY DEF Init, TypeOK, SequencesIssued, UnhealthyIsNeverClean
<1>2. Retained /\ AcknowledgedIsGone
  BY DEF Init, Retained, AcknowledgedIsGone, Tracked, Changes
<1> QED
  BY <1>1, <1>2 DEF IndInv

\* invalidate() keeps the invariant whatever happens to watcherHealthy, as long
\* as a watcher that is or becomes unhealthy leaves an unknown change.
LEMMA RecordKeepsIndInv ==
  ASSUME IndInv, NEW change \in Changes, Record(change),
         watcherHealthy' \in BOOLEAN,
         watcherHealthy' = watcherHealthy \/ change = UnknownPath
  PROVE  IndInv'
<1> DEFINE sequence == latestSequence + 1
<1>1. /\ latestSequence' = sequence
      /\ changedAt' = [changedAt EXCEPT ![change] = sequence]
      /\ initializationSequence' = initializationSequence
      /\ acknowledged' = acknowledged
  BY DEF Record
<1>2. /\ acknowledged \in Nat /\ latestSequence \in Nat /\ unknownChangeSequence \in Nat
      /\ sequenceByPath \in [Paths -> Nat]
      /\ changedAt \in [Changes -> Nat]
      /\ acknowledged <= latestSequence
      /\ unknownChangeSequence <= latestSequence
  BY DEF IndInv, TypeOK, SequencesIssued
<1>3. CASE change = UnknownPath \/ unknownChangeSequence # 0
  <2>1. unknownChangeSequence' = sequence /\ sequenceByPath' = sequenceByPath
    BY <1>3 DEF Record
  <2>2. TypeOK'
    BY <1>1, <1>2, <2>1 DEF IndInv, TypeOK
  <2>3. SequencesIssued'
    BY <1>1, <1>2, <2>1 DEF IndInv, SequencesIssued
  <2>4. Retained'
    BY <1>1, <1>2, <2>1 DEF IndInv, Retained, SequencesIssued
  <2>5. AcknowledgedIsGone'
    BY <1>1, <1>2, <2>1 DEF IndInv, AcknowledgedIsGone, Tracked
  <2>6. UnhealthyIsNeverClean'
    BY <1>2, <2>1 DEF UnhealthyIsNeverClean
  <2> QED
    BY <2>2, <2>3, <2>4, <2>5, <2>6 DEF IndInv
<1>4. CASE change # UnknownPath /\ unknownChangeSequence = 0 /\ Overflows(change)
  <2>1. unknownChangeSequence' = sequence /\ sequenceByPath' = [p \in Paths |-> 0]
    BY <1>4 DEF Record
  <2>2. TypeOK'
    BY <1>1, <1>2, <2>1 DEF IndInv, TypeOK
  <2>3. SequencesIssued'
    BY <1>1, <1>2, <2>1 DEF IndInv, SequencesIssued
  <2>4. Retained'
    BY <1>1, <1>2, <2>1 DEF IndInv, Retained, SequencesIssued
  <2>5. AcknowledgedIsGone'
    BY <1>1, <1>2, <2>1 DEF AcknowledgedIsGone, Tracked
  <2>6. UnhealthyIsNeverClean'
    BY <1>2, <2>1 DEF UnhealthyIsNeverClean
  <2> QED
    BY <2>2, <2>3, <2>4, <2>5, <2>6 DEF IndInv
<1>5. CASE change # UnknownPath /\ unknownChangeSequence = 0 /\ ~Overflows(change)
  <2>1. /\ unknownChangeSequence' = unknownChangeSequence
        /\ sequenceByPath' = [sequenceByPath EXCEPT ![change] = sequence]
        /\ change \in Paths
    BY <1>5 DEF Record, Changes
  <2>2. TypeOK'
    BY <1>1, <1>2, <2>1 DEF IndInv, TypeOK
  <2>3. SequencesIssued'
    BY <1>1, <1>2, <2>1 DEF IndInv, SequencesIssued
  <2>4. Retained'
    BY <1>1, <1>2, <2>1, <1>5 DEF IndInv, Retained, Changes
  <2>5. AcknowledgedIsGone'
    BY <1>1, <1>2, <2>1, <1>5 DEF IndInv, AcknowledgedIsGone, Tracked
  <2>6. UnhealthyIsNeverClean'
    BY <1>5, <2>1 DEF IndInv, UnhealthyIsNeverClean
  <2> QED
    BY <2>2, <2>3, <2>4, <2>5, <2>6 DEF IndInv
<1> QED
  BY <1>3, <1>4, <1>5

LEMMA AcknowledgeKeepsIndInv ==
  ASSUME IndInv, NEW sequence \in 0..latestSequence, AcknowledgeThrough(sequence)
  PROVE  IndInv'
<1>1. /\ acknowledged \in Nat /\ latestSequence \in Nat /\ unknownChangeSequence \in Nat
      /\ initializationSequence \in Nat
      /\ sequenceByPath \in [Paths -> Nat]
      /\ changedAt \in [Changes -> Nat]
      /\ acknowledged <= latestSequence
      /\ sequence \in Nat /\ sequence <= latestSequence
  BY DEF IndInv, TypeOK, SequencesIssued
<1>2. /\ sequenceByPath' =
           [p \in Paths |-> IF sequenceByPath[p] <= sequence THEN 0 ELSE sequenceByPath[p]]
      /\ unknownChangeSequence' =
           IF watcherHealthy /\ unknownChangeSequence <= sequence THEN 0
           ELSE unknownChangeSequence
      /\ initializationSequence' =
           IF initializationSequence <= sequence THEN 0 ELSE initializationSequence
      /\ acknowledged' = IF sequence > acknowledged THEN sequence ELSE acknowledged
      /\ latestSequence' = latestSequence
      /\ watcherHealthy' = watcherHealthy
      /\ changedAt' = changedAt
  BY DEF AcknowledgeThrough, Unsettled, UnknownSettled
<1>3. TypeOK'
  <2>1. sequenceByPath' \in [Paths -> Nat]
    BY <1>1, <1>2
  <2>2. watcherHealthy' \in BOOLEAN
    BY <1>2 DEF IndInv, TypeOK
  <2> QED
    BY <1>1, <1>2, <2>1, <2>2 DEF TypeOK
<1>4. SequencesIssued'
  BY <1>1, <1>2 DEF IndInv, SequencesIssued
<1>5. Retained'
  BY <1>1, <1>2 DEF IndInv, Retained
<1>6. AcknowledgedIsGone'
  BY <1>1, <1>2 DEF IndInv, AcknowledgedIsGone, Tracked
<1>7. UnhealthyIsNeverClean'
  BY <1>2 DEF IndInv, UnhealthyIsNeverClean
<1> QED
  BY <1>3, <1>4, <1>5, <1>6, <1>7 DEF IndInv

LEMMA InitializationKeepsIndInv ==
  ASSUME IndInv, InvalidateForInitialization
  PROVE  IndInv'
<1>1. /\ latestSequence' = latestSequence + 1
      /\ initializationSequence' = latestSequence + 1
      /\ UNCHANGED <<sequenceByPath, unknownChangeSequence, watcherHealthy, changedAt,
                     acknowledged>>
  BY DEF InvalidateForInitialization
<1> QED
  BY <1>1 DEF IndInv, TypeOK, SequencesIssued, Retained, AcknowledgedIsGone, Tracked,
              UnhealthyIsNeverClean

LEMMA NextKeepsIndInv == IndInv /\ [Next]_trackerVars => IndInv'
<1> SUFFICES ASSUME IndInv, [Next]_trackerVars PROVE IndInv'
  OBVIOUS
<1>0. watcherHealthy \in BOOLEAN
  BY DEF IndInv, TypeOK
<1>1. CASE \E change \in Changes : Invalidate(change)
  BY <1>0, <1>1, RecordKeepsIndInv DEF Invalidate
<1>2. CASE InvalidateForInitialization
  BY <1>2, InitializationKeepsIndInv
<1>3. CASE MarkWatcherUnhealthy
  <2>1. UnknownPath \in Changes
    BY DEF Changes
  <2> QED
    BY <1>3, <2>1, RecordKeepsIndInv DEF MarkWatcherUnhealthy
<1>4. CASE \E sequence \in 0..latestSequence : AcknowledgeThrough(sequence)
  BY <1>4, AcknowledgeKeepsIndInv
<1>5. CASE UNCHANGED trackerVars
  BY <1>5 DEF trackerVars, pendingVars, IndInv, TypeOK, SequencesIssued, Retained,
              AcknowledgedIsGone, Tracked, UnhealthyIsNeverClean
<1> QED
  BY <1>1, <1>2, <1>3, <1>4, <1>5 DEF Next

\* Every reachable state of the tracker is type-correct.
THEOREM TypeCorrect == Spec => []TypeOK
<1>1. Init => IndInv
  BY InitIndInv
<1>2. IndInv /\ [Next]_trackerVars => IndInv'
  BY NextKeepsIndInv
<1>3. IndInv => TypeOK
  BY DEF IndInv
<1> QED
  BY <1>1, <1>2, <1>3, PTL DEF Spec

\* A change is reported from the moment it is recorded until a consumer
\* acknowledges a sequence at or after its last one, overflows of the map
\* included.
THEOREM ChangesStayPending == Spec => []NothingForgotten
<1>1. Init => IndInv
  BY InitIndInv
<1>2. IndInv /\ [Next]_trackerVars => IndInv'
  BY NextKeepsIndInv
<1>3. IndInv => NothingForgotten
  BY DEF IndInv, TypeOK, Retained, NothingForgotten, Tracked
<1> QED
  BY <1>1, <1>2, <1>3, PTL DEF Spec

\* An acknowledged change is not reported again while the watcher is healthy.
THEOREM AcknowledgementSticks == Spec => []AcknowledgedIsGone
<1>1. Init => IndInv
  BY InitIndInv
<1>2. IndInv /\ [Next]_trackerVars => IndInv'
  BY NextKeepsIndInv
<1>3. IndInv => AcknowledgedIsGone
  BY DEF IndInv
<1> QED
  BY <1>1, <1>2, <1>3, PTL DEF Spec

\* Once the watcher is unhealthy no acknowledgement makes the workspace look
\* clean.
THEOREM UnhealthySticks == Spec => []UnhealthyIsNeverClean
<1>1. Init => IndInv
  BY InitIndInv
<1>2. IndInv /\ [Next]_trackerVars => IndInv'
  BY NextKeepsIndInv
<1>3. IndInv => UnhealthyIsNeverClean
  BY DEF IndInv
<1> QED
  BY <1>1, <1>2, <1>3, PTL DEF Spec

-----------------------------------------------------------------------------
(* The size of the map *)

LimitInv == IsFiniteSet(Tracked) /\ WithinPathLimit

LEMMA InitLimit == Init => LimitInv
<1> SUFFICES ASSUME Init PROVE LimitInv
  OBVIOUS
<1>1. Tracked = {}
  BY DEF Init, Tracked
<1>2. IsFiniteSet(Tracked) /\ Cardinality(Tracked) = 0
  BY <1>1, FS_EmptySet
<1> QED
  BY <1>2, TrackerAssumption DEF LimitInv, WithinPathLimit

\* A map from which paths are only deleted stays within the limit.
LEMMA ShrinkKeepsLimit ==
  ASSUME LimitInv, Tracked' \subseteq Tracked
  PROVE  LimitInv'
<1>1. /\ IsFiniteSet(Tracked')
      /\ Cardinality(Tracked') \in Nat /\ Cardinality(Tracked) \in Nat
      /\ Cardinality(Tracked') <= Cardinality(Tracked)
  BY FS_Subset, FS_CardinalityType DEF LimitInv
<1> QED
  BY <1>1, TrackerAssumption DEF LimitInv, WithinPathLimit

LEMMA RecordKeepsLimit ==
  ASSUME LimitInv, TypeOK, NEW change \in Changes, Record(change)
  PROVE  LimitInv'
<1>1. CASE Tracked' \subseteq Tracked
  BY <1>1, ShrinkKeepsLimit
<1>2. CASE ~(Tracked' \subseteq Tracked)
  <2>1. /\ change \in Paths
        /\ ~Overflows(change)
        /\ sequenceByPath' = [sequenceByPath EXCEPT ![change] = latestSequence + 1]
    BY <1>2 DEF Record, Tracked, Changes
  <2>2. change \notin Tracked
    BY <1>2, <2>1 DEF Tracked
  <2>3. Cardinality(Tracked) \in Nat /\ IsFiniteSet(Tracked)
    BY FS_CardinalityType DEF LimitInv
  <2>4. Cardinality(Tracked) < MaxTrackedPaths
    BY <2>1, <2>2, <2>3, TrackerAssumption DEF Overflows
  <2>5. Tracked' = Tracked \cup {change}
    BY <2>1 DEF Tracked, TypeOK
  <2>6. /\ IsFiniteSet(Tracked \cup {change})
        /\ Cardinality(Tracked \cup {change}) = Cardinality(Tracked) + 1
    BY <2>2, <2>3, FS_AddElement
  <2> QED
    BY <2>3, <2>4, <2>5, <2>6, TrackerAssumption DEF LimitInv, WithinPathLimit
<1> QED
  BY <1>1, <1>2

LEMMA NextKeepsLimit == LimitInv /\ TypeOK /\ [Next]_trackerVars => LimitInv'
<1> SUFFICES ASSUME LimitInv, TypeOK, [Next]_trackerVars PROVE LimitInv'
  OBVIOUS
<1>1. CASE \E change \in Changes : Invalidate(change)
  BY <1>1, RecordKeepsLimit DEF Invalidate
<1>2. CASE InvalidateForInitialization
  BY <1>2, ShrinkKeepsLimit DEF InvalidateForInitialization, Tracked
<1>3. CASE MarkWatcherUnhealthy
  <2>1. UnknownPath \in Changes
    BY DEF Changes
  <2> QED
    BY <1>3, <2>1, RecordKeepsLimit DEF MarkWatcherUnhealthy
<1>4. CASE \E sequence \in 0..latestSequence : AcknowledgeThrough(sequence)
  BY <1>4, ShrinkKeepsLimit DEF AcknowledgeThrough, Unsettled, Tracked
<1>5. CASE UNCHANGED trackerVars
  BY <1>5, ShrinkKeepsLimit DEF trackerVars, pendingVars, Tracked
<1> QED
  BY <1>1, <1>2, <1>3, <1>4, <1>5 DEF Next

\* The map never holds more paths than its limit.
THEOREM MapIsBounded == Spec => []WithinPathLimit
<1>1. Init => LimitInv
  BY InitLimit
<1>2. LimitInv /\ TypeOK /\ [Next]_trackerVars => LimitInv'
  BY NextKeepsLimit
<1>3. LimitInv => WithinPathLimit
  BY DEF LimitInv
<1> QED
  BY <1>1, <1>2, <1>3, TypeCorrect, PTL DEF Spec
=============================================================================
