--------------------------- MODULE HeftWatchLoop ----------------------------
(***************************************************************************)
(* Heft in watch mode: the WatchLoop around the iterations of              *)
(* HeftOperations, alone at a terminal or as the child of Rush, and the    *)
(* IPCOperationRunner of Rush as its host.                                 *)
(*                                                                         *)
(* Commands to the child are handled when they are sent, for the host      *)
(* learns nothing of it but the messages, which travel in order in toHost. *)
(* Abstracted: the sync message, the child process dying, hooks that throw *)
(* and so reject the loop.                                                 *)
(***************************************************************************)
EXTENDS HeftOperations, SequencesExt

CONSTANTS
  MaxCancels   \* bound: "cancel" commands of the host

ASSUME WatchLoopAssumption == MaxCancels \in Nat

VARIABLES
  mode,                  \* process.send is there: the loop runs for a host
  loop,                  \* where the loop is; _isRunning in an iteration
  runRequested,          \* _runRequested
  aborted,               \* _abortController.signal.aborted
  cancelled,             \* the signal given to runUntilStableAsync
  result,                \* of the last iteration or run
  subscribed,            \* requestRunFromHost waits for _requestRunPromise
  runRequestedFromHost,
  toHost,                \* messages on their way to the host
  hostRunning,           \* the host waits for after-execute
  hostAsked,             \* the host was asked for a run since it last started one
  cancels                \* counts the cancel commands

loopVars == <<mode, loop, runRequested, aborted, cancelled, result>>
hostVars == <<subscribed, runRequestedFromHost, toHost, hostRunning, hostAsked, cancels>>
vars == <<operationVars, loopVars, hostVars>>

Running == {"iterating", "recording"}

HeftTypeOK ==
  /\ OperationsTypeOK
  /\ mode \in {"terminal", "host"}
  /\ loop \in {"idle", "stopped"} \cup Running
  /\ result \in {"Ready", "Success", "Failure", "Aborted"}
  /\ runRequested \in BOOLEAN
  /\ aborted \in BOOLEAN
  /\ cancelled \in BOOLEAN
  /\ subscribed \in BOOLEAN
  /\ runRequestedFromHost \in BOOLEAN
  /\ hostRunning \in BOOLEAN
  /\ hostAsked \in BOOLEAN
  /\ toHost \in Seq({"after-execute", "requestRun"})
  /\ cancels \in 0..MaxCancels

Init ==
  /\ OperationsInit
  /\ mode \in {"terminal", "host"}
  /\ loop = "idle"
  /\ runRequested = TRUE
  /\ aborted = FALSE
  /\ cancelled = FALSE
  /\ result = "Ready"
  /\ subscribed = FALSE
  /\ runRequestedFromHost = TRUE
  /\ toHost = <<>>
  /\ hostRunning = FALSE
  /\ hostAsked = (mode = "host")
  /\ cancels = 0

-----------------------------------------------------------------------------
(* Iterations *)

\* _runIterationAsync: _reset() makes a new promise of a request that is served.
BeginIteration ==
  /\ BeginExecution
  /\ loop' = "iterating"
  /\ runRequested' = FALSE
  /\ aborted' = FALSE
  /\ subscribed' = (subscribed /\ ~runRequested)

\* runUntilAbortedAsync, at first and whenever the promise has resolved.
RunAtTerminal ==
  /\ mode = "terminal"
  /\ loop = "idle"
  /\ runRequested
  /\ BeginIteration
  /\ UNCHANGED <<mode, cancelled, result, runRequestedFromHost, toHost, hostRunning,
                 hostAsked, cancels>>

\* The "run" command: an iteration of the host executes the operation. What makes it do
\* so is not in this code: a request only invalidates the operation (HostReceives), and
\* without any the next iteration may execute it as well.
HostRuns ==
  /\ mode = "host"
  /\ loop # "stopped"
  /\ ~hostRunning
  /\ BeginIteration
  /\ runRequestedFromHost' = FALSE
  /\ hostRunning' = TRUE
  /\ hostAsked' = FALSE
  /\ UNCHANGED <<mode, cancelled, result, toHost, cancels>>

\* executeAsync ends; the metrics are recorded before the iteration does.
FinishExecution ==
  /\ loop = "iterating"
  /\ ExecutionEnded
  /\ loop' = "recording"
  /\ result' = IF aborted THEN "Aborted" ELSE IF hasFailures THEN "Failure" ELSE "Success"
  /\ UNCHANGED <<operationVars, mode, runRequested, aborted, cancelled, hostVars>>

\* A bug to catch: a run that ends does not look at a request made meanwhile.
SubscribesOnly == FALSE

\* A promise that has resolved calls back at once.
CallsBack == runRequested /\ ~runRequestedFromHost

\* The while condition of runUntilStableAsync, after an iteration.
IterationReturns ==
  /\ loop = "recording"
  /\ \/ /\ runRequested
        /\ ~cancelled
        /\ BeginIteration
        /\ UNCHANGED <<cancelled, result, runRequestedFromHost, toHost>>
     \/ /\ ~runRequested \/ cancelled
        /\ result' = IF cancelled THEN "Aborted" ELSE result
        /\ loop' = IF mode = "terminal" /\ cancelled THEN "stopped" ELSE "idle"
        /\ cancelled' = (cancelled /\ mode = "terminal")
        /\ subscribed' = (mode = "host")
        /\ toHost' = IF mode = "terminal" THEN toHost
                     ELSE toHost \o <<"after-execute">>
                                 \o (IF CallsBack THEN <<"requestRun">> ELSE <<>>)
        /\ runRequestedFromHost' = (runRequestedFromHost \/ runRequested)
        /\ UNCHANGED <<operationVars, runRequested, aborted>>
  /\ UNCHANGED <<mode, hostRunning, hostAsked, cancels>>

-----------------------------------------------------------------------------
(* Requests and cancellation *)

\* WatchLoop.requestRun: the first request aborts the iteration and resolves the promise.
RequestRun ==
  IF runRequested
  THEN UNCHANGED <<status, settled, queue, runRequested, aborted, toHost, runRequestedFromHost>>
  ELSE /\ runRequested' = TRUE
       /\ IF loop \in Running
          THEN aborted' = TRUE /\ AbortExecution
          ELSE UNCHANGED <<aborted, status, settled, queue>>
       /\ toHost' = IF subscribed /\ ~runRequestedFromHost
                    THEN Append(toHost, "requestRun") ELSE toHost
       /\ runRequestedFromHost' = (runRequestedFromHost \/ subscribed)

\* A watcher fires and calls the requestRun of the runner's context.
WatcherRequestsRun(o) ==
  /\ loop # "stopped"
  /\ WatcherFires(o)
  /\ \/ /\ RequestsRerun(o)
        /\ UNCHANGED <<runRequested, aborted, toHost, runRequestedFromHost>>
     \/ /\ status[o] \notin Unresolved
        /\ RequestRun
        /\ UNCHANGED runPending
  /\ UNCHANGED <<mode, loop, cancelled, result, subscribed, hostRunning, hostAsked, cancels>>

\* Ctrl+C: a loop that waits ends at once.
Interrupt ==
  /\ mode = "terminal"
  /\ ~cancelled
  /\ cancelled' = TRUE
  /\ IF loop \in Running
     THEN aborted' = TRUE /\ AbortExecution /\ UNCHANGED loop
     ELSE loop' = "stopped" /\ UNCHANGED <<aborted, status, settled, queue>>
  /\ UNCHANGED <<runPending, polling, pushTimer, running, hasFailures, version, baseline,
                 reading, watching, stale, mode, runRequested, result, hostVars>>

\* The "cancel" command; it may come when the run has ended, and is ignored then.
HostCancels ==
  /\ hostRunning
  /\ cancels < MaxCancels
  /\ cancels' = cancels + 1
  /\ IF loop \in Running
     THEN cancelled' = TRUE /\ aborted' = TRUE /\ AbortExecution
     ELSE UNCHANGED <<cancelled, aborted, status, settled, queue>>
  /\ UNCHANGED <<runPending, polling, pushTimer, running, hasFailures, version, baseline,
                 reading, watching, stale, mode, loop, runRequested, result, subscribed,
                 runRequestedFromHost, toHost, hostRunning, hostAsked>>

\* The "exit" command of closeAsync.
HostExits ==
  /\ mode = "host"
  /\ ~hostRunning
  /\ loop' = "stopped"
  /\ UNCHANGED <<operationVars, mode, runRequested, aborted, cancelled, result, hostVars>>

\* The message handlers of IPCOperationRunner: finishHandler and the callback "invalidate".
HostReceives ==
  /\ toHost # <<>>
  /\ toHost' = Tail(toHost)
  /\ hostRunning' = (hostRunning /\ Head(toHost) # "after-execute")
  /\ hostAsked' = (hostAsked \/ Head(toHost) = "requestRun")
  /\ UNCHANGED <<operationVars, loopVars, subscribed, runRequestedFromHost, cancels>>

-----------------------------------------------------------------------------
OperationStep(o) ==
  \/ Proceed(o)
  \/ Poll(o)
  \/ SetBaseline(o)
  \/ \E outcome \in {"Success", "Failure", "Throws"} : Returns(o, outcome, aborted)

QueueStep == QueueEmpty \/ PushResolves

LoopStep == RunAtTerminal \/ FinishExecution \/ IterationReturns \/ HostReceives

Next ==
  \/ \E o \in Operations :
       /\ OperationStep(o) \/ Change(o)
       /\ loop # "stopped"
       /\ UNCHANGED <<loopVars, hostVars>>
  \/ QueueStep /\ loop # "stopped" /\ UNCHANGED <<loopVars, hostVars>>
  \/ \E o \in Operations : WatcherRequestsRun(o)
  \/ LoopStep
  \/ HostRuns
  \/ Interrupt
  \/ HostCancels
  \/ HostExits
  \/ loop = "stopped" /\ UNCHANGED vars

\* Runners end, timers fire, watchers notice and messages arrive; the host need not run.
Spec ==
  /\ Init
  /\ [][Next]_vars
  /\ \A o \in Operations :
       /\ WF_vars(OperationStep(o) /\ loop # "stopped" /\ UNCHANGED <<loopVars, hostVars>>)
       /\ WF_vars(WatcherRequestsRun(o))
  /\ WF_vars(QueueStep /\ loop # "stopped" /\ UNCHANGED <<loopVars, hostVars>>)
  /\ WF_vars(LoopStep)

-----------------------------------------------------------------------------
(* Properties *)

\* No runner outlives its iteration, though an abort settles every operation at once
\* while runners are under way.
NothingRunsBetween == loop \notin {"iterating", "stopped"} => running = {}

\* A task runs when its dependencies have run and succeeded, and none of them runs again
\* meanwhile, not even by an immediate rerun.
DependenciesFirst ==
  \A o \in running : \A d \in Dependencies[o] :
    d \notin running /\ settled[d] \in {"Success", "Aborted"}

\* A loop that waits with a request that it has not served has told the host, after the
\* host's last run.
RequestsReachHost ==
  mode = "host" /\ loop = "idle" /\ runRequested =>
    hostAsked \/ "requestRun" \in ToSet(toHost)

\* A run is only reported successful when every task has, and has run after the tasks it
\* depends on, whatever reran.
SuccessIsCurrent ==
  loop = "idle" /\ result = "Success" =>
    stale = {} /\ \A o \in Operations : status[o] = "Success"

\* Every run ends, unless its files never stop changing.
RunsEnd == loop \in Running ~> loop \notin Running

\* The runner of o threw before it watched its files again.
Unwatched(o) == status[o] = "Failure" /\ o \in MayThrow

\* The loop waits for its host, which was asked for the run.
WaitsForHost == loop = "idle" /\ hostAsked

\* A change of the files of a task that has run is read by a later run of it, or the
\* host has been asked for that run, whether or not it ever starts it; unless the run
\* was cancelled, or the task is blocked or has thrown before it could watch.
ChangesAreSeen ==
  \A o \in Operations :
    baseline[o] # version[o] ~>
      \/ baseline[o] = version[o]
      \/ WaitsForHost
      \/ status[o] = "Blocked"
      \/ Unwatched(o)
      \/ loop = "stopped"
      \/ loop = "idle" /\ result = "Aborted"
=============================================================================
