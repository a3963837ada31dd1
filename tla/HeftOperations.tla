--------------------------- MODULE HeftOperations ---------------------------
(***************************************************************************)
(* One iteration of Heft's operation graph: Operation, its WorkQueue, the  *)
(* OperationExecutionManager and the task runner with its file watcher.    *)
(* The watch loop that starts iterations and takes the requests of the     *)
(* runners is in HeftWatchLoop; nothing here is a specification by itself. *)
(*                                                                         *)
(* An action is the code between two awaits that something else can end;   *)
(* what follows from it in the same turn of the event loop belongs to it.  *)
(* Abstracted: groups, timing, silent operations, and hooks that throw.    *)
(***************************************************************************)
EXTENDS Integers, FiniteSets, FiniteSetsExt

CONSTANTS
  Operations,
  Dependencies,  \* [Operations -> SUBSET Operations], acyclic
  Weight,        \* [Operations -> Nat], only used for priorities
  Parallelism,
  MayThrow,      \* operations whose file operations may throw
  Changing,      \* bound: operations whose files change
  MaxVersion     \* bound: how often they do

ASSUME HeftAssumption ==
  /\ IsFiniteSet(Operations)
  /\ Operations # {}
  /\ Dependencies \in [Operations -> SUBSET Operations]
  /\ Weight \in [Operations -> Nat]
  /\ Parallelism \in Nat \ {0}
  /\ MayThrow \subseteq Operations
  /\ Changing \subseteq Operations
  /\ MaxVersion \in Nat

Unresolved == {"Waiting", "Ready", "Executing"}

Results == {"Success", "Failure", "Blocked", "Aborted"}

VARIABLES
  status,      \* operation.state.status
  settled,     \* what operation._promise has resolved with, or "Pending"
  runPending,  \* operation._runPending, as the set where it is true
  queue,       \* _queue of the WorkQueue
  polling,     \* its iterator is in the inner loop, not waiting for a push
  pushTimer,   \* _resolvePushTimeout is set
  running,     \* operations whose work function is under way
  hasFailures, \* hasReportedFailures
  version,     \* of the files each task reads
  baseline,    \* the version at setBaseline()
  reading,     \* running operations that have set the baseline
  watching,    \* operations with a watcher that has not fired
  stale        \* history: operations a dependency of which has started since they did

operationVars == <<status, settled, runPending, queue, polling, pushTimer, running,
                   hasFailures, version, baseline, reading, watching, stale>>

OperationsTypeOK ==
  /\ status \in [Operations -> Unresolved \cup Results]
  /\ settled \in [Operations -> Results \cup {"Pending"}]
  /\ runPending \subseteq Operations
  /\ queue \subseteq Operations \ running
  /\ running \subseteq Operations
  /\ reading \subseteq running
  /\ watching \subseteq Operations
  /\ stale \subseteq Operations
  /\ polling \in BOOLEAN
  /\ pushTimer \in BOOLEAN
  /\ hasFailures \in BOOLEAN
  /\ version \in [Operations -> 0..MaxVersion]
  /\ baseline \in [Operations -> 0..MaxVersion]

OperationsInit ==
  /\ status = [o \in Operations |-> "Waiting"]
  /\ settled = [o \in Operations |-> "Aborted"]
  /\ runPending = Operations
  /\ queue = {}
  /\ polling = FALSE
  /\ pushTimer = FALSE
  /\ running = {}
  /\ hasFailures = FALSE
  /\ version = [o \in Operations |-> 0]
  /\ baseline = [o \in Operations |-> 0]
  /\ reading = {}
  /\ watching = {}
  /\ stale = {}

Consumers(o) == {c \in Operations : o \in Dependencies[c]}

\* calculateCriticalPathLength: the heaviest chain of operations that wait for o.
CriticalPathLength ==
  LET length[o \in Operations] ==
        Weight[o] + Max({0} \cup {length[c] : c \in Consumers(o)})
  IN length

-----------------------------------------------------------------------------
(* OperationExecutionManager.executeAsync and Operation._executeInnerAsync *)

\* A bug to catch: the promise of the iteration before is handed out again.
KeptPromises == [o \in Operations |-> IF settled[o] = "Success" THEN "Success" ELSE "Pending"]

\* operation._promise after reset().
ResetPromises == [o \in Operations |-> "Pending"]

\* reset() of every operation, and a new WorkQueue.
BeginExecution ==
  /\ status' = [o \in Operations |-> IF Dependencies[o] = {} THEN "Ready" ELSE "Waiting"]
  /\ settled' = ResetPromises
  /\ runPending' = Operations
  /\ queue' = {}
  /\ polling' = FALSE
  /\ pushTimer' = FALSE
  /\ hasFailures' = FALSE
  /\ UNCHANGED <<running, version, baseline, reading, watching, stale>>

\* A bug to catch: an operation that failed does not block its consumers.
BlockedOnly == {"Blocked"}

BlockingResults == {"Blocked", "Failure"}

\* A bug to catch: only a push that finds nothing running wakes the iterator.
WakesWhenQuiet == running = {}

\* _resolvePushDebounced, for every push.
WakesIterator == TRUE

\* The dependencies of o have settled: it is blocked, or pushed.
Proceed(o) ==
  /\ settled[o] = "Pending"
  /\ o \notin queue \cup running
  /\ \A d \in Dependencies[o] : settled[d] # "Pending"
  /\ \/ /\ \E d \in Dependencies[o] : settled[d] \in BlockingResults
        /\ status' = [status EXCEPT ![o] = "Blocked"]
        /\ settled' = [settled EXCEPT ![o] = "Blocked"]
        /\ UNCHANGED <<queue, pushTimer>>
     \/ /\ \A d \in Dependencies[o] : settled[d] \notin BlockingResults
        /\ status' = [status EXCEPT ![o] = "Ready"]
        /\ queue' = queue \cup {o}
        /\ pushTimer' = (pushTimer \/ WakesIterator)
        /\ UNCHANGED settled
  /\ UNCHANGED <<runPending, polling, running, hasFailures, version, baseline, reading,
                 watching, stale>>

\* The signal of the iteration aborts: what is pushed resolves, what waits follows, what
\* runs goes on. What is left in the queue is dropped, or taken to find the abort.
AbortExecution ==
  /\ settled' = [o \in Operations |-> IF settled[o] = "Pending" THEN "Aborted" ELSE settled[o]]
  /\ status' = [o \in Operations |-> IF settled[o] = "Pending" THEN "Aborted" ELSE status[o]]
  /\ queue' = {}

\* A bug to catch: the execution ends when the operations have settled.
DoesNotAwaitQueue == \A o \in Operations : settled[o] # "Pending"

\* Promise.all(...), then workQueuePromise.
ExecutionEnded == running = {} /\ \A o \in Operations : settled[o] # "Pending"

-----------------------------------------------------------------------------
(* WorkQueue *)

\* Async.forEachAsync asks for the next item while it has a slot.
SlotFree == Cardinality(running) < Parallelism

\* The iterator takes the first item and its work function starts the runner.
Poll(o) ==
  /\ polling
  /\ SlotFree
  /\ o \in queue
  /\ \A other \in queue : CriticalPathLength[other] <= CriticalPathLength[o]
  /\ queue' = queue \ {o}
  /\ running' = running \cup {o}
  /\ status' = [status EXCEPT ![o] = "Executing"]
  /\ runPending' = runPending \ {o}
  /\ stale' = (stale \ {o}) \cup Consumers(o)
  /\ UNCHANGED <<settled, polling, pushTimer, hasFailures, version, baseline, reading, watching>>

\* The queue is empty: the iterator waits for a push.
QueueEmpty ==
  /\ polling
  /\ SlotFree
  /\ queue = {}
  /\ polling' = FALSE
  /\ UNCHANGED <<status, settled, runPending, queue, pushTimer, running, hasFailures, version,
                 baseline, reading, watching, stale>>

\* The debounced push resolves.
PushResolves ==
  /\ pushTimer
  /\ polling' = TRUE
  /\ pushTimer' = FALSE
  /\ UNCHANGED <<status, settled, runPending, queue, running, hasFailures, version, baseline,
                 reading, watching, stale>>

-----------------------------------------------------------------------------
(* TaskOperationRunner and WatchFileSystemAdapter *)

\* The task asks for the adapter: the baseline is set and the last watcher paused.
SetBaseline(o) ==
  /\ o \in running \ reading
  /\ reading' = reading \cup {o}
  /\ baseline' = [baseline EXCEPT ![o] = version[o]]
  /\ watching' = watching \ {o}
  /\ UNCHANGED <<status, settled, runPending, queue, polling, pushTimer, running,
                 hasFailures, version, stale>>

\* A bug to catch: only a task that succeeds watches its files.
WatchedAfterSuccess(o, result) == IF result = "Success" THEN watching \cup {o} ELSE watching

\* watch() follows the task whatever its result; only a throw bypasses it.
WatchedAfter(o, result) == watching \cup {o}

\* The runner returns, throws, and reruns at once if that was asked for; or else the work
\* function ends. Without an abort its promise resolves with the last result.
Returns(o, outcome, aborted) ==
  /\ o \in reading
  /\ outcome = "Throws" => o \in MayThrow
  /\ LET result == IF outcome = "Throws" THEN "Failure"
                   ELSE IF aborted THEN "Aborted" ELSE outcome
         reruns == o \in runPending /\ ~aborted
         final == IF o \in runPending /\ aborted THEN "Aborted" ELSE result
     IN /\ status' = [status EXCEPT ![o] = IF reruns THEN result ELSE final]
        /\ reading' = reading \ {o}
        /\ watching' = IF outcome = "Throws" THEN watching ELSE WatchedAfter(o, result)
        /\ IF reruns
           THEN /\ runPending' = runPending \ {o}
                /\ stale' = (stale \ {o}) \cup Consumers(o)
                /\ UNCHANGED <<running, settled, hasFailures>>
           ELSE /\ running' = running \ {o}
                /\ settled' = [settled EXCEPT ![o] = IF @ = "Pending" THEN final ELSE @]
                /\ hasFailures' = (hasFailures \/ final = "Failure")
                /\ UNCHANGED <<runPending, stale>>
  /\ UNCHANGED <<queue, polling, pushTimer, version, baseline>>

\* requestRun of the runner's context, before the operation has a result.
RequestsRerun(o) ==
  /\ status[o] \in Unresolved
  /\ runPending' = runPending \cup {o}
  /\ UNCHANGED <<status, settled, queue>>

\* The files of o change.
Change(o) ==
  /\ o \in Changing
  /\ version[o] < MaxVersion
  /\ version' = [version EXCEPT ![o] = @ + 1]
  /\ UNCHANGED <<status, settled, runPending, queue, polling, pushTimer, running,
                 hasFailures, baseline, reading, watching, stale>>

\* The watcher of o has seen a change since the baseline, and fires once.
WatcherFires(o) ==
  /\ o \in watching
  /\ version[o] # baseline[o]
  /\ watching' = watching \ {o}
  /\ UNCHANGED <<polling, pushTimer, running, hasFailures, version, baseline, reading, stale>>
=============================================================================
