------------------------ MODULE OperationGraphProofs ------------------------
(***************************************************************************)
(* Theorems about OperationGraph, for every set of operations and callers, *)
(* whatever each of them calls, and every number of iterations; and the    *)
(* same of the graph in watch mode, every step of which is a step of the   *)
(* graph or leaves the graph alone.                                        *)
(***************************************************************************)
EXTENDS ProjectWatcher, TLAPS

(* The inductive invariant, in parts *)

\* The current iteration is the one that executes.
CurrentExecutes == \A i \in Iterations : Active(i) <=> i = current

\* An abort waits for the current iteration or for one that has ended.
WaitsForCurrent ==
  \A p \in Processes :
    at[p] \in {"clearing", "taking"} /\ waitsFor[p] # None =>
      waitsFor[p] = current \/ Over(waitsFor[p])

\* While an iteration executes and another is scheduled, whoever is about to take
\* the scheduled one waits for the current one to end.
TakersWait ==
  current # None /\ scheduled # None =>
    \A p \in Processes : at[p] = "taking" => waitsFor[p] = current

\* Records that have not been executed are Ready.
UntouchedReady ==
  \A i \in Iterations : phase[i] \in {"none", "scheduled"} =>
    \A o \in Operations : recordStatus[i][o] = "Ready"

\* An operation that executes was not invalidated before it began.
FreshExecutes ==
  \A i \in Iterations, o \in Operations :
    Active(i) /\ recordStatus[i][o] = "Executing" /\ o \in enabled[i] =>
      stale[o] # "settled"

\* An invalidated result that still passes for up to date is the current
\* iteration's, and its invalidation is deferred.
StaleDeferred ==
  \A o \in Operations : stale[o] = "settled" /\ UpToDate(o) =>
    current # None /\ resultOf[o] = current /\ o \in deferred

\* Until the command has been resumed, nothing else goes on.
CommandFirst ==
  \A c \in Callers : at[c] = "clearing" =>
    current = None /\ \A p \in Processes : p # c => at[p] = "out"

SlotInv == CurrentExecutes /\ WaitsForCurrent /\ TakersWait /\ CommandFirst

StaleInv == UntouchedReady /\ FreshExecutes /\ StaleDeferred

-----------------------------------------------------------------------------
(* Type correctness *)

LEMMA NoneIsNoIteration == None \notin Iterations
BY DEF None, Iterations

LEMMA InitTypes == Init => TypeOK
<1> SUFFICES ASSUME Init PROVE TypeOK
  OBVIOUS
<1> USE DEF Init
<1>1. inputs \in 0..MaxVersion /\ stale \in [Operations -> {"no", "settled", "executing"}]
  BY GraphAssumption
<1>2. IterationTypes
  BY GraphAssumption DEF IterationTypes, RecordStatus
<1>3. ResultTypes /\ SlotTypes /\ ProcessTypes
  BY DEF ResultTypes, SlotTypes, ProcessTypes, Places
<1> QED
  BY <1>1, <1>2, <1>3 DEF TypeOK

\* The parts of TypeOK that a step leaves alone.
LEMMA Untouched ==
  ASSUME TypeOK
  PROVE  /\ UNCHANGED iterationVars => IterationTypes'
         /\ UNCHANGED resultVars => ResultTypes'
         /\ UNCHANGED slotVars /\ UNCHANGED phase => SlotTypes'
         /\ UNCHANGED processVars => ProcessTypes'
         /\ UNCHANGED inputs => inputs' \in 0..MaxVersion
         /\ UNCHANGED stale => stale' \in [Operations -> {"no", "settled", "executing"}]
BY DEF TypeOK, iterationVars, resultVars, slotVars, processVars, IterationTypes, ResultTypes,
       SlotTypes, ProcessTypes

LEMMA VersionsOfInputs ==
  ASSUME TypeOK
  PROVE  inputs \in 0..MaxVersion /\ 0..inputs \subseteq 0..MaxVersion
BY GraphAssumption DEF TypeOK

\* An abort of the current iteration.
LEMMA AbortTypes ==
  ASSUME TypeOK, UNCHANGED <<phase, snapshot, enabled, recordStatus>>,
         aborted' \subseteq aborted \cup ({current} \ {None})
  PROVE  IterationTypes'
BY DEF TypeOK, IterationTypes, SlotTypes

\* A flag of the slots changes, and nothing else of them.
LEMMA FlagTypes ==
  ASSUME TypeOK, UNCHANGED <<phase, current, scheduled>>,
         idleTimeout' \in BOOLEAN, paused' \in BOOLEAN, sessionAborted' \in BOOLEAN
  PROVE  SlotTypes'
BY DEF TypeOK, SlotTypes

LEMMA TimeoutTypes == TypeOK => \A c : IdleTimeoutSet(c) \in BOOLEAN
BY DEF TypeOK, SlotTypes, IdleTimeoutSet

\* What _scheduleIterationAsync does to the slots.
LEMMA SchedulesTypes ==
  ASSUME TypeOK, NEW p \in Processes, NEW version \in 0..MaxVersion, NEW goOn \in Places,
         Schedules(p, version, goOn), UNCHANGED <<current, paused, sessionAborted>>,
         waitsFor' \in [Processes -> Iterations \cup {None}]
  PROVE  IterationTypes' /\ SlotTypes' /\ ProcessTypes'
<1>1. CASE \E i \in Iterations :
             /\ phase[i] = "none"
             /\ phase' = [phase EXCEPT ![i] = "scheduled"]
             /\ snapshot' = [snapshot EXCEPT ![i] = version]
             /\ enabled' = [enabled EXCEPT ![i] = EnabledOperations(version)]
             /\ scheduled' = i
             /\ aborted' = Interrupted
             /\ idleTimeout' = IdleTimeoutSet(current)
             /\ at' = [at EXCEPT ![p] = goOn]
             /\ recordStatus' = recordStatus
  <2>1. EnabledOperations(version) \subseteq Operations
    BY DEF EnabledOperations
  <2>2. aborted' \subseteq Iterations
    BY <1>1 DEF Interrupted, TypeOK, IterationTypes, SlotTypes
  <2>3. IterationTypes'
    BY <1>1, <2>1, <2>2 DEF TypeOK, IterationTypes
  <2>4. SlotTypes'
    BY <1>1, TimeoutTypes DEF TypeOK, IterationTypes, SlotTypes
  <2>5. ProcessTypes'
    BY <1>1 DEF TypeOK, ProcessTypes
  <2> QED
    BY <2>3, <2>4, <2>5
<1>2. CASE /\ at' = [at EXCEPT ![p] = IF Method[p] = "serve" THEN "scheduled" ELSE "out"]
           /\ UNCHANGED <<iterationVars, scheduled, idleTimeout>>
  <2>1. IterationTypes' /\ SlotTypes'
    BY <1>2 DEF TypeOK, IterationTypes, SlotTypes, iterationVars
  <2>2. ProcessTypes'
    BY <1>2 DEF TypeOK, ProcessTypes, Places
  <2> QED
    BY <2>1, <2>2
<1> QED
  BY <1>1, <1>2 DEF Schedules

LEMMA CallTypes ==
  ASSUME TypeOK, NEW c \in Callers,
         Call(c) \/ ExecuteCleared(c) \/ SnapshotArrives(c)
  PROVE  TypeOK'
<1> c \in Processes
  BY DEF Processes
<1>1. CASE Call(c)
  <2>1. /\ UNCHANGED <<inputs, iterationVars, resultVars, slotVars, waitsFor, stale>>
        /\ at' = [at EXCEPT ![c] = "snapshot"]
    BY <1>1 DEF Call
  <2>2. ProcessTypes'
    BY <2>1 DEF TypeOK, ProcessTypes, Places
  <2> QED
    BY <2>1, <2>2, Untouched DEF TypeOK, iterationVars
<1>2. CASE ExecuteCleared(c)
  <2>1. /\ UNCHANGED <<inputs, resultVars, current, paused, sessionAborted, stale>>
        /\ waitsFor' = [waitsFor EXCEPT ![c] = None]
    BY <1>2 DEF ExecuteCleared
  <2>2. waitsFor' \in [Processes -> Iterations \cup {None}]
    BY <2>1 DEF TypeOK, ProcessTypes
  <2>3. PICK version \in 0..MaxVersion : Schedules(c, version, "scheduled")
    BY <1>2, VersionsOfInputs DEF ExecuteCleared
  <2>4. "scheduled" \in Places
    BY DEF Places
  <2>5. IterationTypes' /\ SlotTypes' /\ ProcessTypes'
    BY <2>1, <2>2, <2>3, <2>4, SchedulesTypes
  <2> QED
    BY <2>1, <2>5, Untouched DEF TypeOK
<1>3. CASE SnapshotArrives(c)
  <2>1. AfterScheduling(c) \in Places
    BY DEF AfterScheduling, Places
  <2>2. /\ Schedules(c, inputs, AfterScheduling(c))
        /\ UNCHANGED <<inputs, resultVars, current, paused, sessionAborted, waitsFor,
                       stale>>
    BY <1>3 DEF SnapshotArrives
  <2>3. IterationTypes' /\ SlotTypes' /\ ProcessTypes'
    BY <2>1, <2>2, SchedulesTypes, VersionsOfInputs DEF TypeOK, ProcessTypes
  <2> QED
    BY <2>2, <2>3, Untouched DEF TypeOK
<1> QED
  BY <1>1, <1>2, <1>3

LEMMA TakeTypes ==
  ASSUME TypeOK, NEW p \in Processes,
         ExecuteScheduled(p) \/ TakeScheduled(p) \/ Returns(p)
  PROVE  TypeOK'
<1>1. CASE ExecuteScheduled(p)
  <2>1. /\ UNCHANGED <<inputs, phase, snapshot, enabled, recordStatus, resultVars, current,
                       scheduled, paused, sessionAborted, stale>>
        /\ aborted' \subseteq aborted \cup ({current} \ {None})
        /\ idleTimeout' = IdleTimeoutSet(current)
        /\ at' = [at EXCEPT ![p] = "taking"]
        /\ waitsFor' = [waitsFor EXCEPT ![p] = current]
    BY <1>1 DEF ExecuteScheduled, Aborts
  <2>2. ProcessTypes'
    BY <2>1 DEF TypeOK, SlotTypes, ProcessTypes, Places
  <2>3. SlotTypes'
    BY <2>1, TimeoutTypes, FlagTypes DEF TypeOK, SlotTypes
  <2> QED
    BY <2>1, <2>2, <2>3, AbortTypes, Untouched DEF TypeOK
<1>2. CASE TakeScheduled(p)
  <2>1. UNCHANGED <<inputs, snapshot, enabled, aborted, recordStatus, resultOf, deferred,
                    idleTimeout, paused, sessionAborted, stale>>
    BY <1>2 DEF TakeScheduled
  <2>2. IterationTypes' /\ ResultTypes'
    BY <1>2, <2>1 DEF TakeScheduled, TypeOK, IterationTypes, ResultTypes, SlotTypes
  <2>3. SlotTypes'
    BY <1>2, <2>1 DEF TakeScheduled, TypeOK, SlotTypes
  <2>4. ProcessTypes'
    BY <1>2 DEF TakeScheduled, TypeOK, SlotTypes, ProcessTypes, Places
  <2> QED
    BY <2>1, <2>2, <2>3, <2>4, Untouched DEF TypeOK
<1>3. CASE Returns(p)
  <2>1. ProcessTypes'
    BY <1>3 DEF Returns, TypeOK, ProcessTypes, Places
  <2> QED
    BY <1>3, <2>1, Untouched DEF Returns, TypeOK, iterationVars
<1> QED
  BY <1>1, <1>2, <1>3

LEMMA SlotStepTypes ==
  ASSUME TypeOK,
         IdleTimeoutFires \/ AbortCurrentIteration \/ TogglePause \/ SessionAborts
  PROVE  TypeOK'
<1>1. /\ UNCHANGED <<inputs, phase, snapshot, enabled, recordStatus, resultVars, current,
                     scheduled, stale>>
      /\ aborted' \subseteq aborted \cup ({current} \ {None})
  BY DEF IdleTimeoutFires, Aborts, AbortCurrentIteration, TogglePause, SessionAborts,
         iterationVars, processVars
<1>2. idleTimeout' \in BOOLEAN /\ paused' \in BOOLEAN /\ sessionAborted' \in BOOLEAN
  <2>1. idleTimeout \in BOOLEAN /\ paused \in BOOLEAN /\ sessionAborted \in BOOLEAN
    BY DEF TypeOK, SlotTypes
  <2> QED
    BY <2>1, TimeoutTypes DEF IdleTimeoutFires, Aborts, AbortCurrentIteration, TogglePause,
       SessionAborts
<1>3. ProcessTypes'
  <2>1. IdleTimer \in Processes /\ "taking" \in Places
    BY DEF Processes, Places
  <2>2. \/ UNCHANGED <<at, waitsFor>>
        \/ /\ at' = [at EXCEPT ![IdleTimer] = "taking"]
           /\ waitsFor' = [waitsFor EXCEPT ![IdleTimer] = current]
    BY DEF IdleTimeoutFires, Aborts, AbortCurrentIteration, TogglePause, SessionAborts,
           processVars
  <2> QED
    BY <1>1, <2>1, <2>2 DEF TypeOK, SlotTypes, ProcessTypes
<1> QED
  BY <1>1, <1>2, <1>3, AbortTypes, FlagTypes, Untouched DEF TypeOK

LEMMA SetsRecord ==
  ASSUME TypeOK, NEW i \in Iterations, NEW o \in Operations, NEW s \in RecordStatus,
         recordStatus' = [recordStatus EXCEPT ![i][o] = s]
  PROVE  /\ recordStatus' \in [Iterations -> [Operations -> RecordStatus]]
         /\ recordStatus'[i][o] = s
         /\ \A j \in Iterations, q \in Operations :
              j # i \/ q # o => recordStatus'[j][q] = recordStatus[j][q]
BY DEF TypeOK, IterationTypes

LEMMA ExecutionTypes ==
  ASSUME TypeOK, NEW i \in Iterations,
         IterationEnds(i) \/ IterationRejects(i)
           \/ \E o \in Operations : OperationBegins(i, o) \/ OperationEnds(i, o)
  PROVE  TypeOK'
<1>1. CASE \E o \in Operations : OperationBegins(i, o)
  <2>1. IterationTypes'
    <3>1. PICK o \in Operations, s \in RecordStatus :
            recordStatus' = [recordStatus EXCEPT ![i][o] = s]
      BY <1>1 DEF OperationBegins, RecordStatus
    <3>2. UNCHANGED <<phase, snapshot, enabled, aborted>>
      BY <1>1 DEF OperationBegins
    <3> QED
      BY <3>1, <3>2, SetsRecord DEF TypeOK, IterationTypes
  <2>2. stale' \in [Operations -> {"no", "settled", "executing"}]
    BY <1>1 DEF OperationBegins, TypeOK
  <2> QED
    BY <1>1, <2>1, <2>2, Untouched DEF OperationBegins, TypeOK
<1>2. CASE \E o \in Operations : OperationEnds(i, o)
  <2>1. PICK o \in Operations, s \in RecordStatus :
          /\ recordStatus' = [recordStatus EXCEPT ![i][o] = s]
          /\ resultOf' \in {resultOf, [resultOf EXCEPT ![o] = i]}
    BY <1>2 DEF OperationEnds, RecordStatus
  <2>2. UNCHANGED <<phase, snapshot, enabled, aborted, deferred, status>>
    BY <1>2 DEF OperationEnds
  <2>3. IterationTypes'
    BY <2>1, <2>2, SetsRecord DEF TypeOK, IterationTypes
  <2>4. ResultTypes'
    BY <2>1, <2>2 DEF TypeOK, ResultTypes
  <2> QED
    BY <1>2, <2>3, <2>4, Untouched DEF OperationEnds, TypeOK
<1>3. CASE IterationEnds(i) \/ IterationRejects(i)
  <2>1. DeferredApplied(i) \in [Operations -> RecordStatus]
    BY DEF DeferredApplied, TypeOK, IterationTypes, RecordStatus
  <2>2. IterationTypes' /\ ResultTypes'
    BY <1>3, <2>1 DEF IterationEnds, IterationRejects, IterationSettles, TypeOK,
                      IterationTypes, ResultTypes
  <2>3. SlotTypes'
    BY <1>3, TimeoutTypes DEF IterationEnds, IterationRejects, IterationSettles, Active,
                              TypeOK, IterationTypes, SlotTypes
  <2> QED
    BY <1>3, <2>2, <2>3, Untouched DEF IterationEnds, IterationRejects, IterationSettles, TypeOK
<1> QED
  BY <1>1, <1>2, <1>3

LEMMA InvalidateTypes ==
  ASSUME TypeOK, NEW S \in SUBSET Operations, InvalidateOperations(S)
  PROVE  TypeOK'
<1>1. recordStatus' \in [Iterations -> [Operations -> RecordStatus]]
  BY DEF InvalidateOperations, TypeOK, IterationTypes, RecordStatus
<1>2. stale' \in [Operations -> {"no", "settled", "executing"}]
  BY DEF InvalidateOperations, TypeOK
<1>3. aborted' \subseteq Iterations
  BY NoneIsNoIteration
  DEF InvalidateOperations, TypeOK, IterationTypes, SlotTypes, Defers, UpToDate
<1>4. ResultTypes'
  BY DEF InvalidateOperations, TypeOK, ResultTypes
<1>5. UNCHANGED <<inputs, phase, snapshot, enabled, slotVars, processVars>>
  BY DEF InvalidateOperations
<1>6. IterationTypes'
  BY <1>1, <1>3, <1>5 DEF TypeOK, IterationTypes
<1> QED
  BY <1>2, <1>4, <1>5, <1>6, Untouched DEF TypeOK

LEMMA NextTypes == TypeOK /\ [Next]_vars => TypeOK'
<1> SUFFICES ASSUME TypeOK, [Next]_vars PROVE TypeOK'
  OBVIOUS
<1>1. CASE \E c \in Callers : Call(c) \/ SnapshotArrives(c)
  BY <1>1, CallTypes
<1>2. CASE \E p \in Processes : Resumes(p)
  BY <1>2, CallTypes, TakeTypes DEF Resumes
<1>3. CASE IdleTimeoutFires \/ AbortCurrentIteration \/ TogglePause \/ SessionAborts
  BY <1>3, SlotStepTypes
<1>4. CASE IterationStep
  BY <1>4, ExecutionTypes DEF IterationStep
<1>5. CASE \/ \E o \in Operations : InvalidateOperations({o})
           \/ InvalidateOperations(Operations)
  BY <1>5, InvalidateTypes
<1>6. CASE FilesChange
  <2>1. inputs' \in 0..MaxVersion
    BY <1>6, GraphAssumption DEF FilesChange, TypeOK
  <2> QED
    BY <1>6, <2>1, Untouched DEF FilesChange, TypeOK, iterationVars
<1>7. CASE UNCHANGED vars
  BY <1>7, Untouched DEF vars, TypeOK, iterationVars
<1> QED
  BY <1>1, <1>2, <1>3, <1>4, <1>5, <1>6, <1>7 DEF Next

\* Every reachable state of the graph is type-correct.
THEOREM TypeCorrect == Spec => []TypeOK
<1> QED
  BY InitTypes, NextTypes, PTL DEF Spec

-----------------------------------------------------------------------------
(* One iteration at a time *)

LEMMA InitSlots == Init => SlotInv
BY GraphAssumption DEF Init, Commands, SlotInv, CurrentExecutes, WaitsForCurrent, TakersWait,
                       CommandFirst, Active, None, Iterations, Processes

\* A step that does not touch the iterations or who waits for them.
LEMMA SlotsUntouched ==
  ASSUME SlotInv, UNCHANGED <<phase, current, scheduled, at, waitsFor>>
  PROVE  SlotInv'
BY DEF SlotInv, CurrentExecutes, WaitsForCurrent, TakersWait, CommandFirst, Active, Over

\* A command that is at its abort has nothing to wait for.
LEMMA CommandAlone ==
  ASSUME SlotInv, NEW p \in Processes, at[p] \notin {"out", "clearing"}
  PROVE  \A c \in Callers : at[c] # "clearing"
BY DEF SlotInv, CommandFirst, Processes

LEMMA QuietNotCleared ==
  ASSUME SlotInv, Quiet
  PROVE  \A c \in Callers : at[c] # "clearing"
BY DEF SlotInv, CommandFirst, WaitsForCurrent, Quiet, Resumed, AbortAwaited, Processes

\* p leaves the places where it waits for an iteration.
LEMMA LeavingKeepsSlots ==
  ASSUME SlotInv, TypeOK, NEW p \in Processes, at[p] # "clearing",
         NEW place \in {"out", "snapshot"}, at' = [at EXCEPT ![p] = place],
         \A q \in Processes : q # p => waitsFor'[q] = waitsFor[q],
         place = "out" \/ Quiet,
         UNCHANGED <<phase, current, scheduled>>
  PROVE  SlotInv'
<1>1. CurrentExecutes' /\ WaitsForCurrent' /\ TakersWait'
  BY DEF SlotInv, CurrentExecutes, WaitsForCurrent, TakersWait, Active, Over, TypeOK,
         ProcessTypes
<1>2. CommandFirst'
  BY QuietNotCleared DEF SlotInv, CommandFirst, TypeOK, ProcessTypes
<1> QED
  BY <1>1, <1>2 DEF SlotInv

\* Somebody starts to wait for the current iteration.
LEMMA AbortingKeepsSlots ==
  ASSUME SlotInv, TypeOK, NEW p \in Processes, \A c \in Callers : at[c] # "clearing",
         at' = [at EXCEPT ![p] = "taking"], waitsFor' = [waitsFor EXCEPT ![p] = current],
         UNCHANGED <<phase, current, scheduled>>
  PROVE  SlotInv'
<1>1. CurrentExecutes'
  BY DEF SlotInv, CurrentExecutes, Active
<1>2. WaitsForCurrent'
  BY DEF SlotInv, WaitsForCurrent, Over, TypeOK, ProcessTypes
<1>3. TakersWait'
  BY DEF SlotInv, TakersWait, TypeOK, ProcessTypes
<1>4. CommandFirst'
  BY DEF CommandFirst, TypeOK, ProcessTypes
<1> QED
  BY <1>1, <1>2, <1>3, <1>4 DEF SlotInv

\* An iteration is scheduled while nobody is about to resume.
LEMMA SchedulingKeepsSlots ==
  ASSUME SlotInv, TypeOK, NEW c \in Callers, SnapshotArrives(c)
  PROVE  SlotInv'
<1>1. /\ c \in Processes /\ Quiet
      /\ \E place \in {"out", "scheduled"} : at' = [at EXCEPT ![c] = place]
      /\ UNCHANGED <<current, waitsFor>>
      /\ \/ UNCHANGED <<phase, scheduled>>
         \/ \E i \in Iterations : /\ phase[i] = "none"
                                  /\ phase' = [phase EXCEPT ![i] = "scheduled"]
  BY DEF SnapshotArrives, Schedules, AfterScheduling, Processes, iterationVars
<1>2. CurrentExecutes'
  BY <1>1 DEF SlotInv, CurrentExecutes, Active, TypeOK, IterationTypes
<1>3. \A p \in Processes : at'[p] \in {"clearing", "taking"} => at'[p] = at[p]
  BY <1>1 DEF TypeOK, ProcessTypes
<1>4. WaitsForCurrent'
  BY <1>1, <1>3 DEF SlotInv, WaitsForCurrent, Over, TypeOK, IterationTypes, ProcessTypes
<1>5. TakersWait'
  <2>1. \A p \in Processes : at[p] = "taking" => waitsFor[p] = current
    BY <1>1 DEF Quiet, Resumed, AbortAwaited, SlotInv, WaitsForCurrent
  <2> QED
    BY <1>1, <1>3, <2>1 DEF TakersWait
<1>6. CommandFirst'
  BY <1>1, <1>3, QuietNotCleared DEF CommandFirst, Processes
<1> QED
  BY <1>2, <1>4, <1>5, <1>6 DEF SlotInv

\* The command schedules with the snapshot it was given: nothing else goes on.
LEMMA ClearingKeepsSlots ==
  ASSUME SlotInv, TypeOK, NEW c \in Callers, ExecuteCleared(c)
  PROVE  SlotInv'
<1>1. /\ c \in Processes
      /\ \E place \in {"out", "scheduled"} : at' = [at EXCEPT ![c] = place]
      /\ waitsFor' = [waitsFor EXCEPT ![c] = None]
      /\ current = None /\ current' = None
      /\ \A p \in Processes : p # c => at[p] = "out"
      /\ \/ UNCHANGED phase
         \/ \E i \in Iterations : /\ phase[i] = "none"
                                  /\ phase' = [phase EXCEPT ![i] = "scheduled"]
  BY DEF ExecuteCleared, Schedules, Processes, iterationVars, SlotInv, CommandFirst
<1>2. CurrentExecutes'
  BY <1>1 DEF SlotInv, CurrentExecutes, Active, TypeOK, IterationTypes
<1>3. \A p \in Processes : at'[p] \notin {"clearing", "taking"}
  BY <1>1 DEF TypeOK, ProcessTypes
<1>4. WaitsForCurrent' /\ TakersWait' /\ CommandFirst'
  BY <1>1, <1>3 DEF WaitsForCurrent, TakersWait, CommandFirst, Processes
<1> QED
  BY <1>2, <1>4 DEF SlotInv

\* The scheduled iteration is taken only when the current one is over.
LEMMA TakingWhenNoneExecutes ==
  ASSUME SlotInv, TypeOK, NEW p \in Processes, TakeScheduled(p), scheduled # None
  PROVE  current = None
<1>1. at[p] = "taking" /\ AbortAwaited(p)
  BY DEF TakeScheduled
<1>2. current # None => waitsFor[p] = current
  BY <1>1 DEF SlotInv, TakersWait
<1>3. current # None => phase[current] = "executing"
  BY DEF SlotInv, CurrentExecutes, Active, TypeOK, SlotTypes
<1> QED
  BY <1>1, <1>2, <1>3 DEF AbortAwaited, Over

LEMMA TakingKeepsSlots ==
  ASSUME SlotInv, TypeOK, NEW p \in Processes, TakeScheduled(p)
  PROVE  SlotInv'
<1>0. at[p] = "taking" /\ \A c \in Callers : at[c] # "clearing"
  BY CommandAlone DEF TakeScheduled
<1>1. CASE scheduled # None
  <2>1. /\ current' = scheduled /\ scheduled' = None
        /\ phase' = [phase EXCEPT ![scheduled] = "executing"]
        /\ at' = [at EXCEPT ![p] = "executing"]
        /\ waitsFor' = [waitsFor EXCEPT ![p] = scheduled]
    BY <1>1 DEF TakeScheduled
  <2>2. scheduled \in Iterations /\ phase[scheduled] = "scheduled" /\ current = None
    BY <1>1, TakingWhenNoneExecutes DEF TypeOK, SlotTypes
  <2>3. CurrentExecutes'
    BY <2>1, <2>2, NoneIsNoIteration
    DEF SlotInv, CurrentExecutes, Active, TypeOK, IterationTypes
  <2>4. WaitsForCurrent'
    BY <2>1, <2>2 DEF SlotInv, WaitsForCurrent, Over, TypeOK, IterationTypes, ProcessTypes
  <2>5. TakersWait' /\ CommandFirst'
    BY <1>0, <2>1 DEF TakersWait, CommandFirst, TypeOK, ProcessTypes
  <2> QED
    BY <2>3, <2>4, <2>5 DEF SlotInv
<1>2. CASE scheduled = None
  <2>1. /\ at' = [at EXCEPT ![p] = "out"]
        /\ waitsFor' = [waitsFor EXCEPT ![p] = None]
        /\ UNCHANGED <<current, scheduled, phase>>
    BY <1>2 DEF TakeScheduled
  <2>2. \A q \in Processes : q # p => waitsFor'[q] = waitsFor[q]
    BY <2>1 DEF TypeOK, ProcessTypes
  <2> QED
    BY <1>0, <2>1, <2>2, LeavingKeepsSlots
<1> QED
  BY <1>1, <1>2

LEMMA EndingKeepsSlots ==
  ASSUME SlotInv, TypeOK, NEW i \in Iterations, IterationEnds(i) \/ IterationRejects(i)
  PROVE  SlotInv'
<1>1. PICK how \in {"ended", "rejected"} :
        /\ phase[i] = "executing" /\ phase' = [phase EXCEPT ![i] = how]
        /\ current' = None
        /\ UNCHANGED <<scheduled, at, waitsFor>>
  BY DEF IterationEnds, IterationRejects, IterationSettles, Active, processVars
<1>2. current = i
  BY <1>1 DEF SlotInv, CurrentExecutes, Active
<1>3. CurrentExecutes'
  BY <1>1, <1>2, NoneIsNoIteration
  DEF SlotInv, CurrentExecutes, Active, TypeOK, IterationTypes
<1>4. WaitsForCurrent'
  BY <1>1, <1>2 DEF SlotInv, WaitsForCurrent, Over, TypeOK, IterationTypes, ProcessTypes
<1>5. TakersWait' /\ CommandFirst'
  BY <1>1 DEF TakersWait, SlotInv, CommandFirst
<1> QED
  BY <1>3, <1>4, <1>5 DEF SlotInv

LEMMA NextKeepsSlots == TypeOK /\ SlotInv /\ [Next]_vars => SlotInv'
<1> SUFFICES ASSUME TypeOK, SlotInv, [Next]_vars PROVE SlotInv'
  OBVIOUS
<1>1. ASSUME NEW c \in Callers, Call(c) PROVE SlotInv'
  <2>1. /\ c \in Processes /\ Quiet /\ at[c] = "out"
        /\ at' = [at EXCEPT ![c] = "snapshot"]
        /\ UNCHANGED <<phase, current, scheduled, waitsFor>>
    BY <1>1 DEF Call, Processes, iterationVars, slotVars
  <2> QED
    BY <2>1, LeavingKeepsSlots
<1>2. ASSUME NEW c \in Callers, SnapshotArrives(c) PROVE SlotInv'
  BY <1>2, SchedulingKeepsSlots
<1>3. ASSUME NEW c \in Callers, ExecuteCleared(c) PROVE SlotInv'
  BY <1>3, ClearingKeepsSlots
<1>4. ASSUME NEW p \in Processes, ExecuteScheduled(p) PROVE SlotInv'
  <2>1. at[p] = "scheduled" /\ Aborts(p, "taking") /\ UNCHANGED <<phase, current, scheduled>>
    BY <1>4 DEF ExecuteScheduled
  <2>2. \A c \in Callers : at[c] # "clearing"
    BY <2>1, CommandAlone
  <2> QED
    BY <2>1, <2>2, AbortingKeepsSlots DEF Aborts
<1>5. ASSUME NEW p \in Processes, TakeScheduled(p) PROVE SlotInv'
  BY <1>5, TakingKeepsSlots
<1>6. ASSUME NEW p \in Processes, Returns(p) PROVE SlotInv'
  <2>1. /\ at[p] = "executing" /\ at' = [at EXCEPT ![p] = "out"]
        /\ waitsFor' = [waitsFor EXCEPT ![p] = None]
        /\ UNCHANGED <<phase, current, scheduled>>
    BY <1>6 DEF Returns, iterationVars, slotVars
  <2>2. \A q \in Processes : q # p => waitsFor'[q] = waitsFor[q]
    BY <2>1 DEF TypeOK, ProcessTypes
  <2> QED
    BY <2>1, <2>2, LeavingKeepsSlots
<1>7. CASE IdleTimeoutFires
  <2>1. IdleTimer \in Processes /\ Quiet /\ UNCHANGED <<phase, current, scheduled>>
    BY <1>7 DEF IdleTimeoutFires, Processes
  <2>2. CASE Aborts(IdleTimer, "taking")
    BY <2>1, <2>2, QuietNotCleared, AbortingKeepsSlots DEF Aborts
  <2>3. CASE UNCHANGED <<at, waitsFor>>
    BY <2>1, <2>3, SlotsUntouched
  <2> QED
    BY <1>7, <2>2, <2>3 DEF IdleTimeoutFires
<1>8. ASSUME NEW i \in Iterations, IterationEnds(i) \/ IterationRejects(i) PROVE SlotInv'
  BY <1>8, EndingKeepsSlots
<1>9. CASE UNCHANGED <<phase, current, scheduled, at, waitsFor>>
  BY <1>9, SlotsUntouched
<1>10. \/ UNCHANGED <<phase, current, scheduled, at, waitsFor>>
       \/ IdleTimeoutFires
       \/ \E c \in Callers : Call(c) \/ SnapshotArrives(c)
       \/ \E p \in Processes : Resumes(p)
       \/ \E i \in Iterations : IterationEnds(i) \/ IterationRejects(i)
  BY DEF Next, IterationStep, OperationBegins, OperationEnds, AbortCurrentIteration,
         TogglePause, SessionAborts, InvalidateOperations, FilesChange, vars, iterationVars,
         slotVars, processVars
<1> QED
  BY <1>1, <1>2, <1>3, <1>4, <1>5, <1>6, <1>7, <1>8, <1>9, <1>10 DEF Resumes

\* At most one iteration executes, whoever schedules, executes and aborts, and however
\* many of them: command, watcher, keys, server and idle timer.
THEOREM OneIteration == Spec => []OneAtATime
<1>1. SlotInv => OneAtATime
  BY DEF SlotInv, CurrentExecutes, OneAtATime
<1> QED
  BY <1>1, InitTypes, InitSlots, NextTypes, NextKeepsSlots, PTL DEF Spec

-----------------------------------------------------------------------------
(* Invalidation *)

\* The results of the iteration that executes are left alone.
THEOREM ExecutingResultsStand == Spec => ResultsStandStill
<1> DEFINE Stands ==
      \A i \in Iterations, o \in Operations :
        Active(i) /\ Active(i)' /\ recordStatus[i][o] \in TerminalStatuses =>
          recordStatus'[i][o] = recordStatus[i][o]
<1>1. TypeOK /\ SlotInv /\ [Next]_vars => Stands
  <2> SUFFICES ASSUME TypeOK, SlotInv, [Next]_vars,
                      NEW i \in Iterations, NEW o \in Operations,
                      Active(i), Active(i)', recordStatus[i][o] \in TerminalStatuses
               PROVE  recordStatus'[i][o] = recordStatus[i][o]
    OBVIOUS
  <2>1. i = current
    BY DEF SlotInv, CurrentExecutes
  <2>2. CASE \E j \in Iterations, q \in Operations : OperationBegins(j, q) \/ OperationEnds(j, q)
    <3>1. PICK j \in Iterations, q \in Operations, s \in RecordStatus :
            /\ recordStatus[j][q] \notin TerminalStatuses
            /\ recordStatus' = [recordStatus EXCEPT ![j][q] = s]
      BY <2>2 DEF OperationBegins, OperationEnds, TerminalStatuses, RecordStatus
    <3> QED
      BY <3>1, SetsRecord
  <2>3. CASE \E j \in Iterations : IterationEnds(j) \/ IterationRejects(j)
    <3>1. PICK j \in Iterations :
            /\ \E how \in {"ended", "rejected"} : phase' = [phase EXCEPT ![j] = how]
            /\ recordStatus' = [recordStatus EXCEPT ![j] = DeferredApplied(j)]
      BY <2>3 DEF IterationEnds, IterationRejects, IterationSettles
    <3>2. i # j
      BY <3>1 DEF Active, TypeOK, IterationTypes
    <3> QED
      BY <3>1, <3>2 DEF TypeOK, IterationTypes
  <2>4. CASE \E S \in SUBSET Operations : InvalidateOperations(S)
    BY <2>1, <2>4 DEF InvalidateOperations, Defers
  <2>5. CASE UNCHANGED recordStatus
    BY <2>5
  <2>6. \/ UNCHANGED recordStatus
        \/ \E j \in Iterations, q \in Operations : OperationBegins(j, q) \/ OperationEnds(j, q)
        \/ \E j \in Iterations : IterationEnds(j) \/ IterationRejects(j)
        \/ \E S \in SUBSET Operations : InvalidateOperations(S)
    BY DEF Next, Resumes, Call, SnapshotArrives, ExecuteCleared, Schedules, ExecuteScheduled,
           TakeScheduled, Returns, IdleTimeoutFires, IterationStep, AbortCurrentIteration,
           TogglePause, SessionAborts, FilesChange, vars, iterationVars
  <2> QED
    BY <2>2, <2>3, <2>4, <2>5, <2>6
<1>2. TypeOK /\ SlotInv /\ [Next]_vars => [Stands]_vars
  BY <1>1
<1> QED
  BY <1>2, InitTypes, InitSlots, NextTypes, NextKeepsSlots, PTL DEF Spec, ResultsStandStill

LEMMA InitStale == Init => StaleInv
BY DEF Init, StaleInv, UntouchedReady, FreshExecutes, StaleDeferred, Active

\* A step that leaves the records and the results alone.
LEMMA StaleUntouched ==
  ASSUME StaleInv, UNCHANGED <<phase, enabled, recordStatus, resultOf, deferred, current, stale>>
  PROVE  StaleInv'
BY DEF StaleInv, UntouchedReady, FreshExecutes, StaleDeferred, Active, UpToDate

LEMMA SchedulingKeepsStale ==
  ASSUME StaleInv, TypeOK, NEW c \in Callers, NEW version, NEW goOn,
         Schedules(c, version, goOn), UNCHANGED <<resultVars, current, stale>>
  PROVE  StaleInv'
<1>1. /\ UNCHANGED <<recordStatus, resultOf, deferred, current, stale>>
      /\ \/ UNCHANGED <<phase, enabled>>
         \/ \E i \in Iterations :
              /\ phase[i] = "none"
              /\ phase' = [phase EXCEPT ![i] = "scheduled"]
              /\ \A j \in Iterations : j # i => enabled'[j] = enabled[j]
  BY DEF Schedules, iterationVars, resultVars, TypeOK, IterationTypes
<1> QED
  BY <1>1 DEF StaleInv, UntouchedReady, FreshExecutes, StaleDeferred, Active, UpToDate, TypeOK,
              IterationTypes

\* The records of an iteration that is taken are untouched, and none is current.
LEMMA TakingKeepsStale ==
  ASSUME StaleInv, SlotInv, TypeOK, NEW p \in Processes, TakeScheduled(p), scheduled # None
  PROVE  StaleInv'
<1>1. current = None
  BY TakingWhenNoneExecutes
<1>2. /\ phase' = [phase EXCEPT ![scheduled] = "executing"]
      /\ UNCHANGED <<enabled, recordStatus, resultOf, deferred, stale>>
  BY DEF TakeScheduled
<1>3. scheduled \in Iterations /\ phase[scheduled] = "scheduled"
  BY DEF TypeOK, SlotTypes
<1>4. UntouchedReady'
  BY <1>2, <1>3 DEF StaleInv, UntouchedReady, TypeOK, IterationTypes
<1>5. FreshExecutes'
  BY <1>2, <1>3 DEF StaleInv, UntouchedReady, FreshExecutes, Active, TypeOK, IterationTypes
<1>6. StaleDeferred'
  BY <1>1, <1>2 DEF StaleInv, StaleDeferred, UpToDate
<1> QED
  BY <1>4, <1>5, <1>6 DEF StaleInv

LEMMA BeginningKeepsStale ==
  ASSUME StaleInv, SlotInv, TypeOK, NEW i \in Iterations, NEW o \in Operations,
         OperationBegins(i, o)
  PROVE  StaleInv'
<1>1. PICK s \in {"Aborted", "Executing"} :
        /\ Active(i) /\ recordStatus[i][o] = "Ready"
        /\ recordStatus' = [recordStatus EXCEPT ![i][o] = s]
        /\ s = "Executing" /\ o \in enabled[i] => stale'[o] = "no"
        /\ \A q \in Operations : stale'[q] = stale[q] \/ stale'[q] = "no"
        /\ UNCHANGED <<phase, enabled, resultOf, deferred, current>>
  BY DEF OperationBegins, TypeOK, resultVars, slotVars
<1>2. s \in RecordStatus /\ recordStatus' = [recordStatus EXCEPT ![i][o] = s]
  BY <1>1 DEF RecordStatus
<1>3. /\ recordStatus'[i][o] = s
      /\ \A j \in Iterations, q \in Operations :
           j # i \/ q # o => recordStatus'[j][q] = recordStatus[j][q]
  BY <1>2 DEF TypeOK, IterationTypes
<1>4. UntouchedReady'
  BY <1>1, <1>3 DEF StaleInv, UntouchedReady, Active
<1>5. FreshExecutes'
  BY <1>1, <1>3 DEF StaleInv, FreshExecutes, Active
<1>6. StaleDeferred'
  BY <1>1, <1>3 DEF StaleInv, StaleDeferred, UpToDate, TypeOK, ResultTypes
<1> QED
  BY <1>4, <1>5, <1>6 DEF StaleInv

LEMMA EndingOperationKeepsStale ==
  ASSUME StaleInv, SlotInv, TypeOK, NEW i \in Iterations, NEW o \in Operations,
         OperationEnds(i, o)
  PROVE  StaleInv'
<1>1. PICK s \in {"Success", "Skipped"} :
        /\ Active(i) /\ recordStatus[i][o] = "Executing"
        /\ recordStatus' = [recordStatus EXCEPT ![i][o] = s]
        /\ s = "Success" => o \in enabled[i] /\ resultOf' = [resultOf EXCEPT ![o] = i]
        /\ s = "Skipped" => resultOf' = resultOf
        /\ UNCHANGED <<phase, enabled, deferred, current, stale>>
  BY DEF OperationEnds, slotVars
<1>2. s \in RecordStatus /\ recordStatus' = [recordStatus EXCEPT ![i][o] = s]
  BY <1>1 DEF RecordStatus
<1>3. /\ recordStatus'[i][o] = s
      /\ \A j \in Iterations, q \in Operations :
           j # i \/ q # o => recordStatus'[j][q] = recordStatus[j][q]
  BY <1>2 DEF TypeOK, IterationTypes
<1>4. UntouchedReady'
  BY <1>1, <1>3 DEF StaleInv, UntouchedReady, Active
<1>5. FreshExecutes'
  BY <1>1, <1>3 DEF StaleInv, FreshExecutes, Active
<1>6. StaleDeferred'
  <2>1. CASE s = "Success"
    <3>1. stale[o] # "settled"
      BY <1>1, <2>1 DEF StaleInv, FreshExecutes
    <3>2. \A q \in Operations : q # o => resultOf'[q] = resultOf[q]
      BY <1>1, <2>1 DEF TypeOK, ResultTypes
    <3> QED
      BY <1>1, <1>3, <3>1, <3>2 DEF StaleInv, StaleDeferred, UpToDate, TypeOK, ResultTypes
  <2>2. CASE s = "Skipped"
    BY <1>1, <1>3, <2>2 DEF StaleInv, StaleDeferred, UpToDate, TypeOK, ResultTypes
  <2> QED
    BY <2>1, <2>2
<1> QED
  BY <1>4, <1>5, <1>6 DEF StaleInv

\* The end of the iteration applies what was deferred.
LEMMA EndingKeepsStale ==
  ASSUME StaleInv, SlotInv, TypeOK, NEW i \in Iterations, IterationEnds(i) \/ IterationRejects(i)
  PROVE  StaleInv'
<1>1. PICK how \in {"ended", "rejected"} :
        /\ Active(i) /\ i = current
        /\ phase' = [phase EXCEPT ![i] = how]
        /\ recordStatus' = [recordStatus EXCEPT ![i] = DeferredApplied(i)]
        /\ UNCHANGED <<enabled, resultOf, stale>>
  BY DEF IterationEnds, IterationRejects, IterationSettles, SlotInv, CurrentExecutes
<1>2. /\ \A j \in Iterations : j # i =>
           phase'[j] = phase[j] /\ recordStatus'[j] = recordStatus[j]
      /\ phase'[i] = how
      /\ \A o \in Operations : recordStatus'[i][o] =
           IF o \in deferred THEN "Ready" ELSE recordStatus[i][o]
  BY <1>1 DEF TypeOK, IterationTypes, DeferredApplied
<1>3. UntouchedReady' /\ FreshExecutes'
  BY <1>1, <1>2 DEF StaleInv, UntouchedReady, FreshExecutes, Active
<1>4. StaleDeferred'
  <2> SUFFICES ASSUME NEW o \in Operations, stale[o] = "settled" PROVE ~UpToDate(o)'
    BY <1>1 DEF StaleDeferred
  <2>1. UpToDate(o) => resultOf[o] = i /\ o \in deferred
    BY <1>1 DEF StaleInv, StaleDeferred
  <2> QED
    BY <1>1, <1>2, <2>1 DEF UpToDate, TypeOK, ResultTypes
<1> QED
  BY <1>3, <1>4 DEF StaleInv

LEMMA InvalidatingKeepsStale ==
  ASSUME StaleInv, SlotInv, TypeOK, NEW S \in SUBSET Operations, InvalidateOperations(S)
  PROVE  StaleInv'
<1>1. UNCHANGED <<phase, enabled, resultOf, current>>
  BY DEF InvalidateOperations, slotVars
<1>2. \A i \in Iterations, o \in Operations :
        recordStatus'[i][o] =
          IF o \in S /\ UpToDate(o) /\ ~Defers(o) /\ resultOf[o] = i THEN "Ready"
          ELSE recordStatus[i][o]
  BY DEF InvalidateOperations
<1>3. \A o \in Operations :
        /\ o \notin S => stale'[o] = stale[o]
        /\ o \in S /\ (\E i \in Iterations : Active(i) /\ recordStatus[i][o] = "Executing") =>
             stale'[o] = "executing"
  BY DEF InvalidateOperations
<1>4. deferred' = deferred \cup {o \in S : UpToDate(o) /\ Defers(o)}
  BY DEF InvalidateOperations
<1>5. UntouchedReady'
  BY <1>1, <1>2 DEF StaleInv, UntouchedReady
<1>6. FreshExecutes'
  BY <1>1, <1>2, <1>3 DEF StaleInv, FreshExecutes, Active
<1>7. StaleDeferred'
  <2> SUFFICES ASSUME NEW o \in Operations, stale'[o] = "settled", UpToDate(o)'
               PROVE  current # None /\ resultOf[o] = current /\ o \in deferred'
    BY <1>1 DEF StaleDeferred
  <2>1. UpToDate(o) /\ (o \in S => Defers(o))
    BY <1>1, <1>2 DEF UpToDate, TypeOK, ResultTypes
  <2>2. CASE o \in S
    BY <1>4, <2>1, <2>2 DEF Defers, UpToDate
  <2>3. CASE o \notin S
    BY <1>3, <1>4, <2>1, <2>3 DEF StaleInv, StaleDeferred
  <2> QED
    BY <2>2, <2>3
<1> QED
  BY <1>5, <1>6, <1>7 DEF StaleInv

LEMMA NextKeepsStale == TypeOK /\ SlotInv /\ StaleInv /\ [Next]_vars => StaleInv'
<1> SUFFICES ASSUME TypeOK, SlotInv, StaleInv, [Next]_vars PROVE StaleInv'
  OBVIOUS
<1>1. ASSUME NEW c \in Callers,
             SnapshotArrives(c) \/ ExecuteCleared(c)
      PROVE  StaleInv'
  BY <1>1, SchedulingKeepsStale DEF SnapshotArrives, ExecuteCleared
<1>2. ASSUME NEW p \in Processes, TakeScheduled(p), scheduled # None PROVE StaleInv'
  BY <1>2, TakingKeepsStale
<1>3. ASSUME NEW i \in Iterations, NEW o \in Operations, OperationBegins(i, o) PROVE StaleInv'
  BY <1>3, BeginningKeepsStale
<1>4. ASSUME NEW i \in Iterations, NEW o \in Operations, OperationEnds(i, o) PROVE StaleInv'
  BY <1>4, EndingOperationKeepsStale
<1>5. ASSUME NEW i \in Iterations, IterationEnds(i) \/ IterationRejects(i) PROVE StaleInv'
  BY <1>5, EndingKeepsStale
<1>6. ASSUME NEW S \in SUBSET Operations, InvalidateOperations(S) PROVE StaleInv'
  BY <1>6, InvalidatingKeepsStale
<1>7. CASE UNCHANGED <<phase, enabled, recordStatus, resultOf, deferred, current, stale>>
  BY <1>7, StaleUntouched
<1>8. \/ UNCHANGED <<phase, enabled, recordStatus, resultOf, deferred, current, stale>>
      \/ \E c \in Callers : SnapshotArrives(c) \/ ExecuteCleared(c)
      \/ \E p \in Processes : TakeScheduled(p) /\ scheduled # None
      \/ IterationStep
      \/ \E S \in SUBSET Operations : InvalidateOperations(S)
  BY DEF Next, Resumes, Call, ExecuteCleared, ExecuteScheduled, TakeScheduled, Returns,
         IdleTimeoutFires, AbortCurrentIteration, TogglePause, SessionAborts, FilesChange,
         vars, iterationVars, resultVars, slotVars
<1> QED
  BY <1>1, <1>2, <1>3, <1>4, <1>5, <1>6, <1>7, <1>8 DEF IterationStep

\* An operation that was invalidated while it was not executing does not pass for
\* up to date once the graph is idle, whatever was current when it happened.
THEOREM InvalidationsHold == Spec => []InvalidationSticks
<1>1. StaleInv => InvalidationSticks
  BY DEF StaleInv, StaleDeferred, InvalidationSticks
<1> QED
  BY <1>1, InitTypes, InitSlots, InitStale, NextTypes, NextKeepsSlots, NextKeepsStale, PTL
  DEF Spec

-----------------------------------------------------------------------------
(* Watch mode *)

\* What the watcher does to the graph, a caller or a timer could do as well.
LEMMA WatchingIsAStep == [WatchNext]_watchVars => [Next]_vars
<1> SUFFICES ASSUME [WatchNext]_watchVars PROVE [Next]_vars
  OBVIOUS
<1>1. CASE \E c \in Callers : SnapshotArrives(c) /\ Unnoticed
  BY <1>1 DEF Next
<1>2. CASE \E p \in Processes : WatchResumes(p)
  BY <1>2 DEF Next, WatchResumes, Resumes, TakeAndStop
<1>3. CASE IdleTimeoutStarts \/ SessionAbortStops \/ FileChanges
  BY <1>3 DEF Next, IdleTimeoutStarts, SessionAbortStops, FileChanges
<1>4. CASE (IterationStep \/ AbortCurrentIteration \/ TogglePause) /\ Unnoticed
  BY <1>4 DEF Next
<1>5. CASE InvalidateOperations(Operations) /\ Unnoticed
  BY <1>5 DEF Next
<1>6. CASE DebounceFires \/ SomebodyCalls
  BY <1>6 DEF Next, DebounceFires, SomebodyCalls
<1>7. CASE FsEvent \/ UNCHANGED watchVars
  BY <1>7 DEF FsEvent, watchVars
<1> QED
  BY <1>1, <1>2, <1>3, <1>4, <1>5, <1>6, <1>7 DEF WatchNext

\* Every reachable state of watch mode is type-correct.
THEOREM WatchTypeCorrect == WatchSpec => []WatchTypeOK
<1>1. WatchInit => WatchTypeOK
  BY InitTypes DEF WatchInit, WatchTypeOK
<1>2. WatchTypeOK /\ [WatchNext]_watchVars => WatchTypeOK'
  <2> SUFFICES ASSUME WatchTypeOK, [WatchNext]_watchVars PROVE WatchTypeOK'
    OBVIOUS
  <2>1. TypeOK'
    BY NextTypes, WatchingIsAStep DEF WatchTypeOK
  <2>2. noticeable' \in BOOLEAN
    BY DEF WatchTypeOK, WatchNext, watchVars, WatchResumes, TakeAndStop, IdleTimeoutStarts,
           SessionAbortStops, FileChanges, FsEvent, DebounceFires, SomebodyCalls, Unnoticed
  <2>3. isWatching' \in BOOLEAN /\ event' \in BOOLEAN /\ debounce' \in BOOLEAN
    BY DEF WatchTypeOK, WatchNext, watchVars, watcherVars, WatchResumes, TakeAndStop,
           IdleTimeoutStarts, SessionAbortStops, FileChanges, FsEvent, DebounceFires,
           SomebodyCalls, Unnoticed
  <2> QED
    BY <2>1, <2>2, <2>3 DEF WatchTypeOK
<1> QED
  BY <1>1, <1>2, PTL DEF WatchSpec

LEMMA WatchInvariant == WatchSpec => [](TypeOK /\ SlotInv /\ StaleInv)
<1>1. WatchInit => TypeOK /\ SlotInv /\ StaleInv
  BY InitTypes, InitSlots, InitStale DEF WatchInit
<1> QED
  BY <1>1, NextTypes, NextKeepsSlots, NextKeepsStale, WatchingIsAStep, PTL DEF WatchSpec

\* In watch mode, too, the graph executes one iteration at a time, though command,
\* watcher, keys, server and idle timer all start them.
THEOREM WatchOneIteration == WatchSpec => []OneAtATime
<1>1. SlotInv => OneAtATime
  BY DEF SlotInv, CurrentExecutes, OneAtATime
<1> QED
  BY <1>1, WatchInvariant, PTL

\* In watch mode an invalidated operation does not pass for up to date either, once
\* the graph is idle.
THEOREM WatchInvalidationsHold == WatchSpec => []InvalidationSticks
<1>1. StaleInv => InvalidationSticks
  BY DEF StaleInv, StaleDeferred, InvalidationSticks
<1> QED
  BY <1>1, WatchInvariant, PTL
=============================================================================
