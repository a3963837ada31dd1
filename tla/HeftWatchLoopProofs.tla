------------------------- MODULE HeftWatchLoopProofs -------------------------
(***************************************************************************)
(* For every set of tasks and every budget: no runner outlives its         *)
(* iteration, dependencies go first, no request to run is kept from the    *)
(* host, and a run that reports success has made everything current.       *)
(*                                                                         *)
(* NothingRunsBetween needs to know that an iteration only begins when     *)
(* none is under way: for a host, because it waits for the one             *)
(* "after-execute" of the run it started (HostWaits). DependenciesFirst    *)
(* needs to know that a runner whose promise an abort has settled is only  *)
(* seen once nothing is left to start (Severed). RequestsReachHost follows *)
(* the request from the child's flags to the messages to the host's        *)
(* (Reported). SuccessIsCurrent needs what every operation says while the  *)
(* iteration is under way (Truthful), and that nothing settles between its *)
(* end and the report (SuccessInv).                                        *)
(***************************************************************************)
EXTENDS HeftWatchLoop, TLAPS

\* Between iterations nothing runs and everything has settled.
Rests ==
  loop \notin {"iterating", "stopped"} =>
    running = {} /\ \A o \in Operations : settled[o] # "Pending"

\* What is queued has not settled.
QueuePends == \A o \in queue : settled[o] = "Pending"

\* If an operation has settled while it runs, an abort has settled them all.
Severed ==
  (\E d \in running : settled[d] # "Pending") =>
    \A o \in Operations : settled[o] # "Pending"

\* The dependencies of what is queued or runs have been through.
DependenciesThrough ==
  \A o \in queue \cup running : \A d \in Dependencies[o] :
    d \notin running /\ settled[d] \in {"Success", "Aborted"}

TasksInv == Rests /\ QueuePends /\ Severed /\ DependenciesThrough

Answer(i) == i \in 1..Len(toHost) /\ toHost[i] = "after-execute"

\* The host waits for a run from its beginning to its one after-execute, and a
\* terminal has no host.
HostWaits ==
  /\ mode = "host" /\ loop \in Running => hostRunning /\ \A i \in 1..Len(toHost) : ~Answer(i)
  /\ \A i, j \in 1..Len(toHost) : Answer(i) /\ Answer(j) => i = j
  /\ \A i \in 1..Len(toHost) : Answer(i) => hostRunning

Announced == hostAsked \/ \E i \in 1..Len(toHost) : toHost[i] = "requestRun"

\* A request that was sent is on its way or has arrived, and a loop that waits
\* sends the request that comes.
Reported ==
  mode = "host" =>
    /\ runRequestedFromHost => Announced
    /\ loop = "idle" /\ runRequested => runRequestedFromHost
    /\ loop = "idle" /\ ~runRequested => subscribed

LoopInv == HostWaits /\ Reported

\* While nothing is aborted, what settles tells how its task ended, a failure is
\* reported, and who has run has not been overtaken by a task it depends on.
Truthful ==
  loop = "iterating" /\ ~aborted =>
    \A o \in Operations :
      /\ o \in running => settled[o] = "Pending" /\ o \notin stale
      /\ settled[o] \in {"Failure", "Blocked"} => hasFailures
      /\ settled[o] # "Aborted"
      /\ settled[o] = "Success" => status[o] = "Success" /\ o \notin stale
      /\ settled[o] # "Pending" => \A d \in Dependencies[o] : settled[d] # "Pending"

SuccessInv ==
  /\ Truthful
  /\ loop \in {"recording", "idle"} /\ result = "Success" =>
       stale = {} /\ \A o \in Operations : status[o] = "Success"

HeftInv == HeftTypeOK /\ TasksInv /\ LoopInv

-----------------------------------------------------------------------------
(* Types *)

LEMMA OperationTypes ==
  ASSUME HeftTypeOK, NEW o \in Operations, OperationStep(o) \/ Change(o)
  PROVE  OperationsTypeOK'
<1> USE DEF HeftTypeOK, OperationsTypeOK, Unresolved, Results
<1>1. CASE Proceed(o)
  BY <1>1 DEF Proceed, WakesIterator
<1>2. CASE Poll(o)
  BY <1>2 DEF Poll, Consumers
<1>3. CASE SetBaseline(o)
  BY <1>3 DEF SetBaseline
<1>4. ASSUME NEW outcome \in {"Success", "Failure", "Throws"}, Returns(o, outcome, aborted)
      PROVE  OperationsTypeOK'
  <2> DEFINE ended == IF outcome = "Throws" THEN "Failure"
                      ELSE IF aborted THEN "Aborted" ELSE outcome
             reruns == o \in runPending /\ ~aborted
             final == IF o \in runPending /\ aborted THEN "Aborted" ELSE ended
  <2>0. ended \in Results /\ final \in Results
    OBVIOUS
  <2>1. o \in running
    BY <1>4 DEF Returns
  <2>2. /\ status' = [status EXCEPT ![o] = IF reruns THEN ended ELSE final]
        /\ watching' \in {watching, watching \cup {o}}
        /\ reading' = reading \ {o}
        /\ IF reruns
           THEN /\ runPending' = runPending \ {o}
                /\ stale' = (stale \ {o}) \cup Consumers(o)
                /\ UNCHANGED <<running, settled, hasFailures>>
           ELSE /\ running' = running \ {o}
                /\ settled' = [settled EXCEPT ![o] = IF @ = "Pending" THEN final ELSE @]
                /\ hasFailures' = (hasFailures \/ final = "Failure")
                /\ UNCHANGED <<runPending, stale>>
    BY <1>4 DEF Returns, WatchedAfter
  <2>3. UNCHANGED <<queue, polling, pushTimer, version, baseline>>
    BY <1>4 DEF Returns
  <2> HIDE DEF ended, reruns, final
  <2> QED BY <2>0, <2>1, <2>2, <2>3 DEF Consumers
<1>5. CASE Change(o)
  <2>1. version[o] + 1 \in 0..MaxVersion
    BY <1>5, HeftAssumption DEF Change
  <2>2. version' \in [Operations -> 0..MaxVersion]
    BY <1>5, <2>1 DEF Change
  <2> QED BY <1>5, <2>2 DEF Change
<1> QED BY <1>1, <1>2, <1>3, <1>4, <1>5 DEF OperationStep

LEMMA QueueTypes == HeftTypeOK /\ QueueStep => OperationsTypeOK'
BY DEF HeftTypeOK, OperationsTypeOK, QueueStep, QueueEmpty, PushResolves

LEMMA AbortTypes ==
  ASSUME HeftTypeOK, AbortExecution,
         UNCHANGED <<polling, pushTimer, running, hasFailures, version, baseline, reading, stale>>,
         runPending' \subseteq Operations, watching' \subseteq Operations
  PROVE  OperationsTypeOK'
BY DEF HeftTypeOK, OperationsTypeOK, AbortExecution, Results

LEMMA BeginTypes == HeftTypeOK /\ BeginExecution => OperationsTypeOK'
BY DEF HeftTypeOK, OperationsTypeOK, BeginExecution, ResetPromises, Unresolved

LEMMA InitTypes == Init => HeftTypeOK
<1> SUFFICES ASSUME Init PROVE HeftTypeOK
  OBVIOUS
<1>1. OperationsTypeOK
  <2>1. 0 \in 0..MaxVersion
    BY HeftAssumption
  <2>2. /\ status \in [Operations -> Unresolved \cup Results]
        /\ settled \in [Operations -> Results \cup {"Pending"}]
        /\ version \in [Operations -> 0..MaxVersion]
        /\ baseline \in [Operations -> 0..MaxVersion]
    BY <2>1 DEF Init, OperationsInit, Unresolved, Results
  <2>3. polling \in BOOLEAN /\ pushTimer \in BOOLEAN /\ hasFailures \in BOOLEAN
    BY DEF Init, OperationsInit
  <2> QED BY <2>2, <2>3 DEF Init, OperationsInit, OperationsTypeOK
<1>2. /\ mode \in {"terminal", "host"}
      /\ loop \in {"idle", "stopped"} \cup Running
      /\ result \in {"Ready", "Success", "Failure", "Aborted"}
      /\ toHost \in Seq({"after-execute", "requestRun"})
      /\ cancels \in 0..MaxCancels
  BY WatchLoopAssumption DEF Init
<1>3. /\ runRequested \in BOOLEAN /\ aborted \in BOOLEAN /\ cancelled \in BOOLEAN
      /\ subscribed \in BOOLEAN /\ runRequestedFromHost \in BOOLEAN /\ hostRunning \in BOOLEAN
      /\ hostAsked \in BOOLEAN
  BY DEF Init
<1> QED BY <1>1, <1>2, <1>3 DEF HeftTypeOK

Messages == Seq({"after-execute", "requestRun"})

LEMMA RequestTypes ==
  ASSUME HeftTypeOK, RequestRun, runPending' \subseteq Operations, watching' \subseteq Operations,
         UNCHANGED <<polling, pushTimer, running, hasFailures, version, baseline, reading, stale>>
  PROVE  /\ OperationsTypeOK'
         /\ runRequested' \in BOOLEAN /\ aborted' \in BOOLEAN
         /\ runRequestedFromHost' \in BOOLEAN /\ toHost' \in Messages
<1>1. OperationsTypeOK'
  <2>1. CASE AbortExecution
    BY <2>1, AbortTypes
  <2>2. CASE UNCHANGED <<status, settled, queue>>
    BY <2>2 DEF HeftTypeOK, OperationsTypeOK
  <2> QED BY <2>1, <2>2 DEF RequestRun
<1>2. toHost' \in Messages
  BY DEF HeftTypeOK, Messages, RequestRun
<1>3. runRequested' \in BOOLEAN /\ aborted' \in BOOLEAN /\ runRequestedFromHost' \in BOOLEAN
  BY DEF HeftTypeOK, RequestRun
<1> QED BY <1>1, <1>2, <1>3

LEMMA LoopTypes ==
  ASSUME HeftTypeOK, LoopStep \/ HostRuns
  PROVE  HeftTypeOK'
<1>1. CASE RunAtTerminal \/ HostRuns
  <2>1. OperationsTypeOK'
    BY <1>1, BeginTypes DEF RunAtTerminal, HostRuns, BeginIteration
  <2> QED BY <1>1, <2>1 DEF HeftTypeOK, RunAtTerminal, HostRuns, BeginIteration, Running
<1>2. CASE FinishExecution
  <2>1. OperationsTypeOK'
    BY <1>2 DEF HeftTypeOK, OperationsTypeOK, FinishExecution, operationVars
  <2> QED BY <1>2, <2>1 DEF HeftTypeOK, FinishExecution, hostVars, Running
<1>3. CASE IterationReturns
  <2>1. CASE BeginIteration /\ UNCHANGED <<cancelled, result, runRequestedFromHost, toHost>>
    <3>1. OperationsTypeOK'
      BY <2>1, BeginTypes DEF BeginIteration
    <3> QED BY <1>3, <2>1, <3>1 DEF HeftTypeOK, IterationReturns, BeginIteration, Running
  <2>2. CASE ~BeginIteration
    <3>1. OperationsTypeOK'
      BY <1>3, <2>2 DEF HeftTypeOK, OperationsTypeOK, IterationReturns, operationVars
    <3>2. toHost' \in Messages
      <4>1. CASE toHost' = toHost
        BY <4>1 DEF HeftTypeOK, Messages
      <4>2. ASSUME NEW tail \in Messages, toHost' = toHost \o <<"after-execute">> \o tail
            PROVE  toHost' \in Messages
        BY <4>2 DEF HeftTypeOK, Messages
      <4>3. <<>> \in Messages /\ <<"requestRun">> \in Messages
        BY DEF Messages
      <4> QED BY <1>3, <2>2, <4>1, <4>2, <4>3 DEF IterationReturns
    <3>3. /\ cancelled' \in BOOLEAN /\ subscribed' \in BOOLEAN
          /\ runRequestedFromHost' \in BOOLEAN
      BY <1>3, <2>2 DEF HeftTypeOK, IterationReturns
    <3>4. /\ loop' \in {"idle", "stopped"} /\ result' \in {"Aborted", result}
          /\ UNCHANGED <<mode, hostRunning, hostAsked, cancels, runRequested, aborted>>
      BY <1>3, <2>2 DEF IterationReturns
    <3>5. /\ mode' \in {"terminal", "host"}
          /\ result' \in {"Ready", "Success", "Failure", "Aborted"}
          /\ cancels' \in 0..MaxCancels
      BY <3>4 DEF HeftTypeOK
    <3>6. /\ runRequested' \in BOOLEAN /\ aborted' \in BOOLEAN
          /\ hostRunning' \in BOOLEAN /\ hostAsked' \in BOOLEAN
      BY <3>4 DEF HeftTypeOK
    <3>7. loop' \in {"idle", "stopped"} \cup Running
      BY <3>4
    <3> QED BY <3>1, <3>2, <3>3, <3>5, <3>6, <3>7 DEF HeftTypeOK, Messages
  <2> QED BY <1>3, <2>1, <2>2 DEF IterationReturns, BeginIteration
<1>4. CASE HostReceives
  <2>1. OperationsTypeOK'
    BY <1>4 DEF HeftTypeOK, OperationsTypeOK, HostReceives, operationVars
  <2>2. toHost' \in Messages
    BY <1>4 DEF HeftTypeOK, HostReceives, Messages
  <2> QED BY <1>4, <2>1, <2>2 DEF HeftTypeOK, HostReceives, loopVars, Messages
<1> QED BY <1>1, <1>2, <1>3, <1>4 DEF LoopStep

LEMMA RequestStepTypes ==
  ASSUME HeftTypeOK,
         (\E o \in Operations : WatcherRequestsRun(o)) \/ Interrupt \/ HostCancels \/ HostExits
  PROVE  HeftTypeOK'
<1>1. ASSUME NEW o \in Operations, WatcherRequestsRun(o)
      PROVE  HeftTypeOK'
  <2>1. watching' \subseteq Operations
        /\ UNCHANGED <<polling, pushTimer, running, hasFailures, version, baseline, reading, stale>>
        /\ UNCHANGED <<mode, loop, cancelled, result, subscribed, hostRunning, hostAsked, cancels>>
    BY <1>1 DEF WatcherRequestsRun, WatcherFires, HeftTypeOK, OperationsTypeOK
  <2>2. CASE RequestsRerun(o) /\ UNCHANGED <<runRequested, aborted, toHost, runRequestedFromHost>>
    <3>1. OperationsTypeOK'
      BY <2>1, <2>2 DEF RequestsRerun, HeftTypeOK, OperationsTypeOK
    <3> QED BY <2>1, <2>2, <3>1 DEF HeftTypeOK
  <2>3. CASE RequestRun /\ UNCHANGED runPending
    <3>1. runPending' \subseteq Operations
      BY <2>3 DEF HeftTypeOK, OperationsTypeOK
    <3> QED BY <2>1, <2>3, <3>1, RequestTypes DEF HeftTypeOK, Messages
  <2> QED BY <1>1, <2>2, <2>3 DEF WatcherRequestsRun
<1>2. CASE Interrupt \/ HostCancels
  <2>1. /\ UNCHANGED <<runPending, polling, pushTimer, running, hasFailures, version, baseline,
                       reading, watching, stale>>
        /\ AbortExecution \/ UNCHANGED <<status, settled, queue>>
        /\ aborted' \in BOOLEAN /\ cancelled' \in BOOLEAN
        /\ loop' \in {loop, "stopped"} /\ cancels' \in 0..MaxCancels
        /\ UNCHANGED <<mode, runRequested, result, subscribed, runRequestedFromHost, toHost,
                       hostRunning, hostAsked>>
    <3>1. CASE Interrupt
      BY <3>1, WatchLoopAssumption DEF Interrupt, HeftTypeOK, hostVars
    <3>2. CASE HostCancels
      <4>1. cancels' \in 0..MaxCancels
        BY <3>2, WatchLoopAssumption DEF HostCancels, HeftTypeOK
      <4> QED BY <3>2, <4>1 DEF HostCancels, HeftTypeOK
    <3> QED BY <1>2, <3>1, <3>2
  <2>2. OperationsTypeOK'
    <3>1. runPending' \subseteq Operations /\ watching' \subseteq Operations
      BY <2>1 DEF HeftTypeOK, OperationsTypeOK
    <3>2. CASE AbortExecution
      BY <2>1, <3>1, <3>2, AbortTypes
    <3>3. CASE UNCHANGED <<status, settled, queue>>
      BY <2>1, <3>3 DEF HeftTypeOK, OperationsTypeOK
    <3> QED BY <2>1, <3>2, <3>3
  <2> QED BY <2>1, <2>2 DEF HeftTypeOK
<1>3. CASE HostExits
  <2>1. OperationsTypeOK'
    BY <1>3 DEF HeftTypeOK, OperationsTypeOK, HostExits, operationVars
  <2> QED BY <1>3, <2>1 DEF HeftTypeOK, HostExits, hostVars
<1> QED BY <1>1, <1>2, <1>3

LEMMA NextTypes == HeftTypeOK /\ [Next]_vars => HeftTypeOK'
<1> SUFFICES ASSUME HeftTypeOK, [Next]_vars PROVE HeftTypeOK'
  OBVIOUS
<1>1. ASSUME OperationsTypeOK', UNCHANGED <<loopVars, hostVars>>
      PROVE  HeftTypeOK'
  BY <1>1 DEF HeftTypeOK, loopVars, hostVars
<1>2. ASSUME NEW o \in Operations, OperationStep(o) \/ Change(o), UNCHANGED <<loopVars, hostVars>>
      PROVE  HeftTypeOK'
  BY <1>1, <1>2, OperationTypes
<1>3. CASE QueueStep /\ UNCHANGED <<loopVars, hostVars>>
  BY <1>1, <1>3, QueueTypes
<1>4. CASE UNCHANGED vars
  BY <1>1, <1>4 DEF vars, operationVars, HeftTypeOK, OperationsTypeOK
<1> QED BY <1>2, <1>3, <1>4, LoopTypes, RequestStepTypes DEF Next

-----------------------------------------------------------------------------
(* The tasks of an iteration *)

LEMMA DependenciesAreOperations == \A o \in Operations : Dependencies[o] \subseteq Operations
BY HeftAssumption

LEMMA ProceedKeeps ==
  ASSUME HeftInv, loop # "stopped", NEW o \in Operations, Proceed(o), loop' = loop
  PROVE  TasksInv'
<1> USE DEF HeftInv, HeftTypeOK, OperationsTypeOK, TasksInv, Rests, QueuePends, Severed,
            DependenciesThrough
<1>1. /\ loop = "iterating" /\ settled[o] = "Pending" /\ o \notin running /\ o \notin queue
      /\ running' = running
      /\ \A d \in Dependencies[o] : d \in Operations /\ settled[d] # "Pending"
      /\ \A d \in running : settled[d] = "Pending"
  BY DependenciesAreOperations DEF Proceed
<1>2. CASE settled' = [settled EXCEPT ![o] = "Blocked"] /\ UNCHANGED queue
  BY <1>1, <1>2, DependenciesAreOperations
<1>3. CASE /\ \A d \in Dependencies[o] : settled[d] \notin BlockingResults
           /\ queue' = queue \cup {o} /\ settled' = settled
  <2>1. \A d \in Dependencies[o] : settled[d] \in {"Success", "Aborted"} /\ d \notin running
    BY <1>1, <1>3 DEF BlockingResults, Results
  <2> QED BY <1>1, <1>3, <2>1
<1> QED BY <1>2, <1>3 DEF Proceed

LEMMA PollKeeps ==
  ASSUME HeftInv, NEW o \in Operations, Poll(o), loop' = loop
  PROVE  TasksInv'
<1> USE DEF HeftInv, HeftTypeOK, OperationsTypeOK, TasksInv, Rests, QueuePends, Severed,
            DependenciesThrough
<1>1. /\ o \in queue /\ queue' = queue \ {o} /\ running' = running \cup {o}
      /\ settled' = settled /\ settled[o] = "Pending"
  BY DEF Poll
<1>2. \A q \in queue \cup running : o \notin Dependencies[q]
  BY <1>1
<1> QED BY <1>1, <1>2

LEMMA ReturnKeeps ==
  ASSUME HeftInv, NEW o \in Operations, NEW outcome \in {"Success", "Failure", "Throws"},
         Returns(o, outcome, aborted), loop' = loop
  PROVE  TasksInv'
<1> USE DEF HeftInv, HeftTypeOK, OperationsTypeOK, TasksInv, Rests, QueuePends, Severed,
            DependenciesThrough
<1>1. o \in running /\ queue' = queue
  BY DEF Returns
<1>2. CASE UNCHANGED <<running, settled>>
  BY <1>1, <1>2
<1>3. ASSUME NEW final \in Results, running' = running \ {o},
             settled' = [settled EXCEPT ![o] = IF @ = "Pending" THEN final ELSE @]
      PROVE  TasksInv'
  <2>1. \A q \in Operations \ {o} : settled'[q] = settled[q]
    BY <1>3
  <2>2. settled'[o] # "Pending"
    BY <1>3 DEF Results
  <2>3. \A q \in queue \cup running : o \notin Dependencies[q]
    BY <1>1
  <2> QED BY <1>1, <1>3, <2>1, <2>2, <2>3, DependenciesAreOperations
<1>4. \/ UNCHANGED <<running, settled>>
      \/ \E final \in Results :
           /\ running' = running \ {o}
           /\ settled' = [settled EXCEPT ![o] = IF @ = "Pending" THEN final ELSE @]
  <2> DEFINE ended == IF outcome = "Throws" THEN "Failure"
                      ELSE IF aborted THEN "Aborted" ELSE outcome
             final == IF o \in runPending /\ aborted THEN "Aborted" ELSE ended
  <2>1. final \in Results
    BY DEF Results
  <2>2. \/ UNCHANGED <<running, settled>>
        \/ /\ running' = running \ {o}
           /\ settled' = [settled EXCEPT ![o] = IF @ = "Pending" THEN final ELSE @]
    BY DEF Returns
  <2> HIDE DEF final
  <2> QED BY <2>1, <2>2
<1> QED BY <1>2, <1>3, <1>4

LEMMA AbortKeeps ==
  ASSUME HeftInv, AbortExecution, running' = running, loop' = loop
  PROVE  TasksInv'
BY DependenciesAreOperations
   DEF AbortExecution, HeftInv, HeftTypeOK, OperationsTypeOK, TasksInv, Rests, QueuePends,
       Severed, DependenciesThrough

LEMMA BeginKeeps ==
  ASSUME HeftInv, running = {}, BeginIteration
  PROVE  TasksInv'
BY DEF BeginIteration, BeginExecution, TasksInv, Rests, QueuePends, Severed, DependenciesThrough

LEMMA TasksUntouched ==
  ASSUME HeftInv, UNCHANGED <<settled, queue, running>>, loop' = loop \/ loop' = "stopped"
  PROVE  TasksInv'
BY DEF HeftInv, TasksInv, Rests, QueuePends, Severed, DependenciesThrough

LEMMA OperationKeeps ==
  ASSUME HeftInv, loop # "stopped", NEW o \in Operations, OperationStep(o) \/ Change(o),
         loop' = loop
  PROVE  TasksInv'
<1>1. CASE SetBaseline(o) \/ Change(o)
  BY <1>1, TasksUntouched DEF SetBaseline, Change
<1> QED BY <1>1, ProceedKeeps, PollKeeps, ReturnKeeps DEF OperationStep

\* A new iteration begins only when nothing runs.
LEMMA BeginsAtRest ==
  ASSUME HeftInv, RunAtTerminal \/ HostRuns \/ (IterationReturns /\ BeginIteration)
  PROVE  running = {} /\ BeginIteration
<1>1. loop \in {"idle", "recording"}
  BY DEF RunAtTerminal, HostRuns, IterationReturns, HeftInv, HeftTypeOK, LoopInv, HostWaits, Running
<1> QED BY <1>1 DEF RunAtTerminal, HostRuns, HeftInv, TasksInv, Rests

LEMMA NextKeepsTasks == HeftInv /\ [Next]_vars => TasksInv'
<1> SUFFICES ASSUME HeftInv, [Next]_vars PROVE TasksInv'
  OBVIOUS
<1>1. ASSUME NEW o \in Operations, OperationStep(o) \/ Change(o), loop # "stopped",
             UNCHANGED <<loopVars, hostVars>>
      PROVE  TasksInv'
  BY <1>1, OperationKeeps DEF loopVars
<1>2. CASE QueueStep /\ UNCHANGED <<loopVars, hostVars>>
  BY <1>2, TasksUntouched DEF QueueStep, QueueEmpty, PushResolves, loopVars
<1>3. ASSUME NEW o \in Operations, WatcherRequestsRun(o)
      PROVE  TasksInv'
  <2>1. running' = running /\ loop' = loop
    BY <1>3 DEF WatcherRequestsRun, WatcherFires
  <2>2. AbortExecution \/ UNCHANGED <<settled, queue>>
    BY <1>3 DEF WatcherRequestsRun, RequestsRerun, RequestRun
  <2> QED BY <2>1, <2>2, AbortKeeps, TasksUntouched
<1>4. CASE RunAtTerminal \/ HostRuns \/ (IterationReturns /\ BeginIteration)
  BY <1>4, BeginsAtRest, BeginKeeps
<1>5. CASE FinishExecution
  BY <1>5 DEF FinishExecution, ExecutionEnded, operationVars, HeftInv, TasksInv, Rests,
              QueuePends, Severed, DependenciesThrough
<1>6. CASE IterationReturns /\ ~BeginIteration
  BY <1>6 DEF IterationReturns, operationVars, HeftInv, TasksInv, Rests, QueuePends, Severed,
              DependenciesThrough
<1>7. CASE Interrupt \/ HostCancels
  <2>1. running' = running
    BY <1>7 DEF Interrupt, HostCancels
  <2>2. \/ AbortExecution /\ loop' = loop
        \/ UNCHANGED <<settled, queue>> /\ (loop' = loop \/ loop' = "stopped")
    BY <1>7 DEF Interrupt, HostCancels
  <2> QED BY <2>1, <2>2, AbortKeeps, TasksUntouched
<1>8. CASE HostExits \/ HostReceives \/ UNCHANGED vars
  BY <1>8, TasksUntouched DEF HostExits, HostReceives, vars, operationVars, loopVars
<1> QED BY <1>1, <1>2, <1>3, <1>4, <1>5, <1>6, <1>7, <1>8 DEF Next, LoopStep

-----------------------------------------------------------------------------
(* The loop and its host *)

LEMMA ToHostIsSequence == HeftTypeOK => toHost \in Messages
BY DEF HeftTypeOK, Messages

LEMMA LoopUntouched ==
  ASSUME HeftInv,
         UNCHANGED <<mode, runRequested, subscribed, runRequestedFromHost, toHost, hostRunning,
                     hostAsked>>,
         \/ loop' = loop
         \/ loop' = "stopped"
         \/ loop \in Running /\ loop' \in Running
  PROVE  LoopInv'
BY DEF HeftInv, LoopInv, HostWaits, Answer, Reported, Announced, Running

LEMMA BeginKeepsLoop ==
  ASSUME HeftInv, RunAtTerminal \/ HostRuns \/ (IterationReturns /\ BeginIteration)
  PROVE  LoopInv'
<1>1. CASE RunAtTerminal
  BY <1>1 DEF RunAtTerminal, HeftInv, LoopInv, HostWaits, Answer, Reported
<1>2. CASE HostRuns
  BY <1>2 DEF HostRuns, BeginIteration, HeftInv, LoopInv, HostWaits, Answer, Reported
<1>3. CASE IterationReturns /\ BeginIteration
  <2>1. /\ loop' = "iterating" /\ loop \in Running
        /\ UNCHANGED <<mode, hostRunning, hostAsked, runRequestedFromHost, toHost>>
    BY <1>3 DEF IterationReturns, BeginIteration, Running
  <2> QED BY <2>1 DEF HeftInv, LoopInv, HostWaits, Answer, Reported, Announced
<1> QED BY <1>1, <1>2, <1>3

\* A message at the end of what is on its way.
LEMMA Appended ==
  ASSUME NEW s \in Messages, NEW m \in {"after-execute", "requestRun"}
  PROVE  /\ Append(s, m) \in Messages
         /\ Len(Append(s, m)) = Len(s) + 1
         /\ \A i \in 1..Len(s) : Append(s, m)[i] = s[i]
         /\ Append(s, m)[Len(s) + 1] = m
BY DEF Messages

LEMMA RunEndKeepsLoop ==
  ASSUME HeftInv, IterationReturns, ~BeginIteration
  PROVE  LoopInv'
<1>1. /\ loop = "recording" /\ UNCHANGED <<mode, hostRunning, hostAsked>>
      /\ loop' \in {"idle", "stopped"} /\ subscribed' = (mode = "host")
      /\ runRequested' = runRequested
      /\ runRequestedFromHost' = (runRequestedFromHost \/ runRequested)
  BY DEF IterationReturns
<1>2. CASE mode # "host"
  <2>1. toHost' = toHost
    BY <1>2 DEF IterationReturns, HeftInv, HeftTypeOK
  <2> QED BY <1>1, <1>2, <2>1 DEF HeftInv, LoopInv, HostWaits, Answer, Reported
<1>3. CASE mode = "host"
  <2> DEFINE answered == Append(toHost, "after-execute")
  <2>1. /\ toHost \in Messages /\ answered \in Messages /\ Len(answered) = Len(toHost) + 1
        /\ \A i \in 1..Len(toHost) : answered[i] = toHost[i]
        /\ answered[Len(toHost) + 1] = "after-execute"
    BY ToHostIsSequence, Appended DEF HeftInv
  <2>2. toHost' = IF CallsBack THEN Append(answered, "requestRun") ELSE answered
    <3>1. toHost' = toHost \o <<"after-execute">>
                           \o (IF CallsBack THEN <<"requestRun">> ELSE <<>>)
      BY <1>3 DEF IterationReturns
    <3> QED BY <2>1, <3>1 DEF Messages
  <2>3. hostRunning /\ \A i \in 1..Len(toHost) : toHost[i] # "after-execute"
    BY <1>1, <1>3 DEF HeftInv, LoopInv, HostWaits, Answer, Running
  <2> HIDE DEF answered
  <2>4. /\ Len(toHost) \in Nat /\ Len(toHost') \in {Len(toHost) + 1, Len(toHost) + 2}
        /\ \A i \in 1..Len(toHost) : toHost'[i] = toHost[i]
        /\ \A i \in 1..Len(toHost') : toHost'[i] = "after-execute" => i = Len(toHost) + 1
        /\ CallsBack => Len(toHost) + 2 \in 1..Len(toHost') /\ toHost'[Len(toHost) + 2] = "requestRun"
    <3>1. CASE CallsBack
      <4> DEFINE both == Append(answered, "requestRun")
      <4>1. /\ Len(both) = Len(toHost) + 2 /\ Len(toHost) \in Nat
            /\ \A i \in 1..(Len(toHost) + 1) : both[i] = answered[i]
            /\ both[Len(toHost) + 2] = "requestRun"
        BY <2>1, Appended DEF Messages
      <4>2. toHost' = both
        BY <2>2, <3>1
      <4> HIDE DEF both
      <4> QED BY <2>1, <2>3, <4>1, <4>2
    <3>2. CASE ~CallsBack
      <4>1. toHost' = answered /\ Len(toHost) \in Nat
        BY <2>1, <2>2, <3>2 DEF Messages
      <4> QED BY <2>1, <2>3, <3>2, <4>1
    <3> QED BY <3>1, <3>2
  <2>5. HostWaits'
    BY <1>1, <2>3, <2>4 DEF HostWaits, Answer, Running
  <2>6. runRequestedFromHost' => Announced'
    <3>1. CASE runRequestedFromHost
      BY <1>1, <1>3, <2>4, <3>1 DEF HeftInv, LoopInv, Reported, Announced
    <3>2. CASE CallsBack
      BY <2>4, <3>2 DEF Announced
    <3> QED BY <1>1, <3>1, <3>2 DEF CallsBack
  <2> QED BY <1>1, <1>3, <2>5, <2>6 DEF LoopInv, Reported
<1> QED BY <1>2, <1>3

LEMMA RequestKeepsLoop ==
  ASSUME HeftInv, RequestRun, UNCHANGED <<mode, loop, subscribed, hostRunning, hostAsked>>
  PROVE  LoopInv'
<1>1. CASE UNCHANGED <<runRequested, toHost, runRequestedFromHost>>
  BY <1>1, LoopUntouched
<1>2. CASE /\ ~runRequested /\ runRequested'
           /\ runRequestedFromHost' = (runRequestedFromHost \/ subscribed)
           /\ toHost' = IF subscribed /\ ~runRequestedFromHost
                        THEN Append(toHost, "requestRun") ELSE toHost
  <2>1. /\ toHost \in Messages /\ Len(toHost) \in Nat
        /\ Len(Append(toHost, "requestRun")) = Len(toHost) + 1
        /\ \A i \in 1..Len(toHost) : Append(toHost, "requestRun")[i] = toHost[i]
        /\ Append(toHost, "requestRun")[Len(toHost) + 1] = "requestRun"
    BY ToHostIsSequence, Appended DEF HeftInv, Messages
  <2>2. CASE toHost' = toHost /\ runRequestedFromHost' = runRequestedFromHost
    BY <1>2, <2>2 DEF HeftInv, LoopInv, HostWaits, Answer, Reported, Announced
  <2>3. CASE toHost' = Append(toHost, "requestRun")
    <3>1. /\ Len(toHost') = Len(toHost) + 1
          /\ \A i \in 1..Len(toHost) : toHost'[i] = toHost[i]
          /\ toHost'[Len(toHost) + 1] = "requestRun"
      BY <2>1, <2>3
    <3>2. \A i \in 1..Len(toHost') : Answer(i)' => i \in 1..Len(toHost) /\ Answer(i)
      BY <2>1, <3>1 DEF Answer
    <3>3. HostWaits'
      BY <3>2 DEF HeftInv, LoopInv, HostWaits
    <3>4. Announced'
      BY <2>1, <3>1 DEF Announced
    <3>5. mode = "host" /\ loop = "idle" => subscribed
      BY <1>2 DEF HeftInv, LoopInv, Reported
    <3>6. mode' = "host" => /\ loop' = "idle" /\ runRequested' => runRequestedFromHost'
                            /\ loop' = "idle" => runRequested'
      BY <1>2, <3>5
    <3>7. Reported'
      BY <3>4, <3>6 DEF Reported
    <3> QED BY <3>3, <3>7 DEF LoopInv
  <2>4. subscribed \in BOOLEAN /\ runRequestedFromHost \in BOOLEAN
    BY DEF HeftInv, HeftTypeOK
  <2> QED BY <1>2, <2>2, <2>3, <2>4
<1> QED BY <1>1, <1>2 DEF RequestRun

LEMMA ReceiveKeepsLoop ==
  ASSUME HeftInv, HostReceives
  PROVE  LoopInv'
<1>1. /\ toHost \in Messages /\ toHost # <<>> /\ Len(toHost) \in Nat \ {0}
      /\ Len(toHost') = Len(toHost) - 1
      /\ \A i \in 1..(Len(toHost) - 1) : toHost'[i] = toHost[i + 1]
      /\ Head(toHost) = toHost[1] /\ 1 \in 1..Len(toHost)
  BY ToHostIsSequence DEF HeftInv, HostReceives, Messages
<1>2. /\ hostRunning' = (hostRunning /\ toHost[1] # "after-execute")
      /\ hostAsked' = (hostAsked \/ toHost[1] = "requestRun")
      /\ UNCHANGED <<mode, loop, runRequested, subscribed, runRequestedFromHost>>
  BY <1>1 DEF HostReceives, loopVars
<1>3. \A i \in 1..Len(toHost') : i + 1 \in 1..Len(toHost) /\ (Answer(i)' <=> Answer(i + 1))
  BY <1>1 DEF Answer
<1>4. HostWaits'
  <2>1. /\ mode = "host" /\ loop \in Running => \A i \in 1..Len(toHost) : ~Answer(i)
        /\ \A i, j \in 1..Len(toHost) : Answer(i) /\ Answer(j) => i = j
        /\ \A i \in 1..Len(toHost) : Answer(i) => hostRunning
        /\ mode = "host" /\ loop \in Running => hostRunning
    BY DEF HeftInv, LoopInv, HostWaits
  <2>2. toHost[1] = "after-execute" <=> Answer(1)
    BY <1>1 DEF Answer
  <2>3. \A i \in 1..Len(toHost') : Answer(i)' => ~Answer(1)
    BY <1>1, <1>3, <2>1
  <2>4. \A i, j \in 1..Len(toHost') : Answer(i)' /\ Answer(j)' => i = j
    BY <1>1, <1>3, <2>1
  <2>5. \A i \in 1..Len(toHost') : Answer(i)' => hostRunning'
    BY <1>2, <1>3, <2>1, <2>2, <2>3
  <2>6. mode' = "host" /\ loop' \in Running => hostRunning' /\ \A i \in 1..Len(toHost') : ~Answer(i)'
    BY <1>1, <1>2, <1>3, <2>1, <2>2
  <2> QED BY <2>4, <2>5, <2>6 DEF HostWaits
<1>5. Announced => Announced'
  <2> SUFFICES ASSUME Announced PROVE Announced'
    OBVIOUS
  <2>1. CASE hostAsked
    BY <1>2, <2>1 DEF Announced
  <2>2. ASSUME NEW i \in 1..Len(toHost), toHost[i] = "requestRun"
        PROVE  Announced'
    <3>1. CASE i = 1
      BY <1>2, <2>2, <3>1 DEF Announced
    <3>2. CASE i # 1
      <4>1. i - 1 \in 1..Len(toHost') /\ toHost'[i - 1] = "requestRun"
        BY <1>1, <2>2, <3>2
      <4> QED BY <4>1 DEF Announced
    <3> QED BY <3>1, <3>2
  <2> QED BY <2>1, <2>2 DEF Announced
<1> QED BY <1>2, <1>4, <1>5 DEF HeftInv, LoopInv, Reported

LEMMA NextKeepsLoop == HeftInv /\ [Next]_vars => LoopInv'
<1> SUFFICES ASSUME HeftInv, [Next]_vars PROVE LoopInv'
  OBVIOUS
<1>1. CASE UNCHANGED <<loopVars, hostVars>>
  BY <1>1, LoopUntouched DEF loopVars, hostVars
<1>2. ASSUME NEW o \in Operations, WatcherRequestsRun(o)
      PROVE  LoopInv'
  <2>1. UNCHANGED <<mode, loop, subscribed, hostRunning, hostAsked>>
    BY <1>2 DEF WatcherRequestsRun
  <2>2. RequestRun \/ UNCHANGED <<runRequested, toHost, runRequestedFromHost>>
    BY <1>2 DEF WatcherRequestsRun
  <2> QED BY <2>1, <2>2, RequestKeepsLoop, LoopUntouched
<1>3. CASE FinishExecution \/ Interrupt \/ HostCancels \/ HostExits
  BY <1>3, LoopUntouched DEF FinishExecution, Interrupt, HostCancels, HostExits, hostVars, Running
<1>4. CASE UNCHANGED vars
  BY <1>1, <1>4 DEF vars
<1> QED BY <1>1, <1>2, <1>3, <1>4, BeginKeepsLoop, RunEndKeepsLoop, ReceiveKeepsLoop
        DEF Next, LoopStep

-----------------------------------------------------------------------------
(* What success means *)

LEMMA StepsOnlyIterating ==
  ASSUME HeftInv, NEW o \in Operations, OperationStep(o), loop # "stopped"
  PROVE  loop = "iterating"
BY DEF OperationStep, Proceed, Poll, SetBaseline, Returns, HeftInv, HeftTypeOK, OperationsTypeOK,
       TasksInv, Rests, QueuePends

LEMMA ProceedKeepsSuccess ==
  ASSUME HeftInv, SuccessInv, NEW o \in Operations, Proceed(o), loop = "iterating",
         UNCHANGED loopVars
  PROVE  SuccessInv'
<1> USE DEF HeftInv, HeftTypeOK, OperationsTypeOK, SuccessInv, Truthful
<1>1. /\ settled[o] = "Pending" /\ o \notin running
      /\ \A d \in Dependencies[o] : d \in Operations /\ settled[d] # "Pending"
      /\ UNCHANGED <<running, hasFailures, stale, loop, aborted>>
  BY DependenciesAreOperations DEF Proceed, loopVars
<1>2. CASE settled' = settled /\ status' = [status EXCEPT ![o] = "Ready"]
  BY <1>1, <1>2
<1>3. CASE /\ \E d \in Dependencies[o] : settled[d] \in {"Blocked", "Failure"}
           /\ settled' = [settled EXCEPT ![o] = "Blocked"]
           /\ status' = [status EXCEPT ![o] = "Blocked"]
  <2>1. ~aborted => hasFailures
    BY <1>1, <1>3
  <2>2. \A q \in Operations : q # o => settled'[q] = settled[q] /\ status'[q] = status[q]
    BY <1>3
  <2>3. settled'[o] = "Blocked"
    BY <1>3
  <2> QED BY <1>1, <2>1, <2>2, <2>3, DependenciesAreOperations
<1> QED BY <1>2, <1>3 DEF Proceed, BlockingResults

LEMMA PollKeepsSuccess ==
  ASSUME HeftInv, SuccessInv, NEW o \in Operations, Poll(o), loop = "iterating",
         UNCHANGED loopVars
  PROVE  SuccessInv'
<1> USE DEF HeftInv, HeftTypeOK, OperationsTypeOK, SuccessInv, Truthful
<1>1. /\ o \in queue /\ settled[o] = "Pending" /\ running' = running \cup {o}
      /\ stale' = (stale \ {o}) \cup Consumers(o)
      /\ status' = [status EXCEPT ![o] = "Executing"]
      /\ UNCHANGED <<settled, hasFailures, loop, aborted>>
  BY DEF Poll, loopVars, TasksInv, QueuePends
<1>2. \A q \in queue \cup running : o \notin Dependencies[q]
  BY <1>1 DEF TasksInv, DependenciesThrough
<1>3. ~aborted => \A q \in Operations : settled[q] # "Pending" => o \notin Dependencies[q]
  BY <1>1
<1> QED BY <1>1, <1>2, <1>3 DEF Consumers

LEMMA ReturnKeepsSuccess ==
  ASSUME HeftInv, SuccessInv, NEW o \in Operations,
         NEW outcome \in {"Success", "Failure", "Throws"}, Returns(o, outcome, aborted),
         loop = "iterating", UNCHANGED loopVars
  PROVE  SuccessInv'
<1> USE DEF HeftInv, HeftTypeOK, OperationsTypeOK, SuccessInv, Truthful
<1> SUFFICES ASSUME ~aborted PROVE SuccessInv'
  BY DEF loopVars
<1> DEFINE result0 == IF outcome = "Throws" THEN "Failure" ELSE outcome
<1>1. /\ o \in running /\ settled[o] = "Pending" /\ o \notin stale
      /\ loop' = "iterating" /\ result0 \in {"Success", "Failure"}
      /\ status' = [status EXCEPT ![o] = result0]
  BY DEF Returns, loopVars
<1>2. CASE /\ stale' = (stale \ {o}) \cup Consumers(o)
           /\ UNCHANGED <<running, settled, hasFailures>>
  <2>1. \A q \in queue \cup running : o \notin Dependencies[q]
    BY <1>1 DEF TasksInv, DependenciesThrough
  <2>2. \A q \in Operations : settled[q] # "Pending" => o \notin Dependencies[q]
    BY <1>1
  <2> QED BY <1>1, <1>2, <2>1, <2>2 DEF Consumers
<1>3. CASE /\ running' = running \ {o}
           /\ settled' = [settled EXCEPT ![o] = IF @ = "Pending" THEN result0 ELSE @]
           /\ hasFailures' = (hasFailures \/ result0 = "Failure")
           /\ UNCHANGED stale
  <2>1. settled'[o] = result0 /\ status'[o] = result0
    BY <1>1, <1>3
  <2>2. \A q \in Operations : q # o => settled'[q] = settled[q] /\ status'[q] = status[q]
    BY <1>1, <1>3
  <2>3. \A d \in Dependencies[o] : d # o /\ settled[d] # "Pending"
    BY <1>1 DEF TasksInv, DependenciesThrough
  <2>4. /\ result0 = "Success" \/ hasFailures'
        /\ hasFailures => hasFailures'
        /\ running' = running \ {o} /\ stale' = stale /\ aborted' = aborted
    BY <1>1, <1>3 DEF loopVars
  <2> HIDE DEF result0
  <2>5. \A q \in Operations : (settled'[q] \in {"Blocked", "Failure"}) => hasFailures'
    BY <1>1, <2>1, <2>2, <2>4
  <2>6. \A q \in Operations : settled'[q] = "Success" => q \notin stale' /\ status'[q] = "Success"
    BY <1>1, <2>1, <2>2, <2>4
  <2> QED BY <1>1, <2>1, <2>2, <2>3, <2>4, <2>5, <2>6, DependenciesAreOperations
<1>4. \/ /\ stale' = (stale \ {o}) \cup Consumers(o)
         /\ UNCHANGED <<running, settled, hasFailures>>
      \/ /\ running' = running \ {o}
         /\ settled' = [settled EXCEPT ![o] = IF @ = "Pending" THEN result0 ELSE @]
         /\ hasFailures' = (hasFailures \/ result0 = "Failure")
         /\ UNCHANGED stale
  <2>1. CASE o \in runPending
    BY <2>1 DEF Returns
  <2>2. CASE o \notin runPending
    BY <2>2 DEF Returns
  <2> QED BY <2>1, <2>2
<1> QED BY <1>2, <1>3, <1>4

\* Once nothing is pending an abort changes nothing.
LEMMA AbortKeepsSuccess ==
  ASSUME HeftInv, SuccessInv, AbortExecution, loop \in Running, aborted',
         UNCHANGED <<loop, result, stale>>
  PROVE  SuccessInv'
BY DEF HeftInv, TasksInv, Rests, SuccessInv, Truthful, AbortExecution, Running

LEMMA SuccessUntouched ==
  ASSUME SuccessInv, UNCHANGED <<status, settled, running, hasFailures, stale, result, aborted>>,
         loop' = loop \/ loop' = "stopped"
  PROVE  SuccessInv'
BY DEF SuccessInv, Truthful

LEMMA FinishKeepsSuccess ==
  ASSUME HeftInv, SuccessInv, FinishExecution
  PROVE  SuccessInv'
<1>1. /\ loop = "iterating" /\ loop' = "recording"
      /\ \A o \in Operations : settled[o] # "Pending"
      /\ UNCHANGED <<status, stale>>
      /\ result' = "Success" => ~aborted /\ ~hasFailures
  BY DEF FinishExecution, ExecutionEnded, operationVars
<1>2. ASSUME result' = "Success"
      PROVE  stale = {} /\ \A o \in Operations : status[o] = "Success"
  <2>1. \A o \in Operations : settled[o] = "Success"
    BY <1>1, <1>2 DEF SuccessInv, Truthful, HeftInv, HeftTypeOK, OperationsTypeOK, Results
  <2> QED BY <1>1, <1>2, <2>1 DEF SuccessInv, Truthful, HeftInv, HeftTypeOK, OperationsTypeOK
<1> QED BY <1>1, <1>2 DEF SuccessInv, Truthful

LEMMA NextKeepsSuccess == HeftInv /\ SuccessInv /\ [Next]_vars => SuccessInv'
<1> SUFFICES ASSUME HeftInv, SuccessInv, [Next]_vars PROVE SuccessInv'
  OBVIOUS
<1>1. ASSUME NEW o \in Operations, OperationStep(o), loop # "stopped",
             UNCHANGED <<loopVars, hostVars>>
      PROVE  SuccessInv'
  <2>1. loop = "iterating"
    BY <1>1, StepsOnlyIterating
  <2>2. CASE SetBaseline(o)
    BY <1>1, <2>2, SuccessUntouched DEF SetBaseline, loopVars
  <2> QED BY <1>1, <2>1, <2>2, ProceedKeepsSuccess, PollKeepsSuccess, ReturnKeepsSuccess
          DEF OperationStep
<1>2. ASSUME NEW o \in Operations, Change(o), UNCHANGED <<loopVars, hostVars>>
      PROVE  SuccessInv'
  BY <1>2, SuccessUntouched DEF Change, loopVars
<1>3. CASE QueueStep /\ UNCHANGED <<loopVars, hostVars>>
  BY <1>3, SuccessUntouched DEF QueueStep, QueueEmpty, PushResolves, loopVars
<1>4. ASSUME NEW o \in Operations, WatcherRequestsRun(o)
      PROVE  SuccessInv'
  <2>1. UNCHANGED <<running, hasFailures, stale, loop, result>>
    BY <1>4 DEF WatcherRequestsRun, WatcherFires
  <2>2. \/ UNCHANGED <<status, settled, aborted>>
        \/ AbortExecution /\ loop \in Running /\ aborted'
    BY <1>4 DEF WatcherRequestsRun, RequestsRerun, RequestRun
  <2> QED BY <2>1, <2>2, SuccessUntouched, AbortKeepsSuccess
<1>5. CASE RunAtTerminal \/ HostRuns \/ (IterationReturns /\ BeginIteration)
  <2>1. /\ running' = {} /\ loop' = "iterating"
        /\ \A o \in Operations : settled'[o] = "Pending"
    BY <1>5, BeginsAtRest DEF BeginIteration, BeginExecution, ResetPromises
  <2> QED BY <2>1 DEF SuccessInv, Truthful
<1>6. CASE IterationReturns /\ ~BeginIteration
  BY <1>6 DEF IterationReturns, operationVars, SuccessInv, Truthful
<1>7. CASE Interrupt \/ HostCancels
  <2>1. UNCHANGED <<running, hasFailures, stale, result>>
    BY <1>7 DEF Interrupt, HostCancels
  <2>2. \/ /\ UNCHANGED <<status, settled, aborted>>
           /\ loop' = loop \/ loop' = "stopped"
        \/ AbortExecution /\ loop \in Running /\ aborted' /\ loop' = loop
    BY <1>7 DEF Interrupt, HostCancels
  <2> QED BY <2>1, <2>2, SuccessUntouched, AbortKeepsSuccess
<1>8. CASE HostExits \/ HostReceives \/ UNCHANGED vars
  BY <1>8, SuccessUntouched DEF HostExits, HostReceives, vars, operationVars, loopVars
<1> QED BY <1>1, <1>2, <1>3, <1>4, <1>5, <1>6, <1>7, <1>8, FinishKeepsSuccess
        DEF Next, LoopStep

-----------------------------------------------------------------------------
(* The theorems *)

LEMMA HeftInvHolds == Spec => []HeftInv
<1>1. Init => HeftInv
  <2> SUFFICES ASSUME Init PROVE HeftInv
    OBVIOUS
  <2>1. TasksInv
    BY DEF Init, OperationsInit, TasksInv, Rests, QueuePends, Severed, DependenciesThrough
  <2>2. LoopInv
    <3>1. HostWaits
      BY DEF Init, HostWaits, Answer, Running
    <3>2. mode = "host" => hostAsked
      BY DEF Init
    <3>3. Reported
      BY <3>2 DEF Init, Reported, Announced
    <3> QED BY <3>1, <3>3 DEF LoopInv
  <2> QED BY <2>1, <2>2, InitTypes DEF HeftInv
<1>2. HeftInv /\ [Next]_vars => HeftInv'
  BY NextTypes, NextKeepsTasks, NextKeepsLoop DEF HeftInv
<1> QED BY <1>1, <1>2, PTL DEF Spec

\* Every reachable state of the operations, the loop and the host is well typed.
THEOREM TypeCorrect == Spec => []HeftTypeOK
<1>1. HeftInv => HeftTypeOK
  BY DEF HeftInv
<1> QED BY <1>1, HeftInvHolds, PTL

\* No runner is under way when its iteration has ended, though an abort settles
\* every promise at once: OperationExecutionManager also awaits its work queue, and
\* the host starts no run before it has the answer to the last.
THEOREM NoRunnerSurvives == Spec => []NothingRunsBetween
<1>1. HeftInv => NothingRunsBetween
  BY DEF HeftInv, TasksInv, Rests, NothingRunsBetween
<1> QED BY <1>1, HeftInvHolds, PTL

\* A task runs only when the tasks it depends on have run, and none of them runs
\* again meanwhile: reruns, aborts and whole new iterations included.
THEOREM DependenciesRunFirst == Spec => []DependenciesFirst
<1>1. HeftInv => DependenciesFirst
  BY DEF HeftInv, TasksInv, DependenciesThrough, DependenciesFirst
<1> QED BY <1>1, HeftInvHolds, PTL

\* When a child of Rush waits with a request that it has not served, Rush knows or
\* is being told, whenever the request came.
THEOREM RequestsAreReported == Spec => []RequestsReachHost
<1>1. HeftInv => RequestsReachHost
  <2> SUFFICES ASSUME HeftInv, mode = "host", loop = "idle", runRequested
               PROVE  hostAsked \/ "requestRun" \in ToSet(toHost)
    BY DEF RequestsReachHost
  <2>1. Announced
    BY DEF HeftInv, LoopInv, Reported
  <2> QED BY <2>1, ToHostIsSequence DEF HeftInv, Announced, ToSet, Messages
<1> QED BY <1>1, HeftInvHolds, PTL

\* Who is told that a run succeeded has an up-to-date result of every task: each has
\* run, has succeeded, and has run after the tasks it depends on.
THEOREM SuccessIsTrue == Spec => []SuccessIsCurrent
<1>1. Init => SuccessInv
  BY DEF Init, OperationsInit, SuccessInv, Truthful
<1>2. HeftInv /\ SuccessInv /\ [Next]_vars => SuccessInv'
  BY NextKeepsSuccess
<1>3. SuccessInv => SuccessIsCurrent
  BY DEF SuccessInv, SuccessIsCurrent
<1> QED BY <1>1, <1>2, <1>3, HeftInvHolds, PTL DEF Spec
=============================================================================
