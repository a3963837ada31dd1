-------------------------- MODULE RequestScheduler --------------------------
(***************************************************************************)
(* Admission of requests to the Rush daemon (RequestScheduler).            *)
(*                                                                         *)
(* Everything here is synchronous except the queue-position callbacks: a   *)
(* callback is code of the client, and may acquire, abort or release       *)
(* before it returns. So the notification loops that are running form a    *)
(* stack, and an operation may happen at the bottom of it (from the event  *)
(* loop) or inside the callback the topmost loop is in.                    *)
(*                                                                         *)
(* Requests that are refused at once (an aborted signal, noWait, an        *)
(* invalid timeout) leave no trace in the scheduler and are left out, as   *)
(* are the timer and the listener, which _rejectQueuedRequest ignores once *)
(* the request has left the queue.                                         *)
(***************************************************************************)
EXTENDS Integers, Sequences, FiniteSets, SequencesExt

CONSTANTS
  Requests,
  Class,            \* [Requests -> ExclusivityClass]
  MaxReentrant      \* bound: operations of callbacks until the stack is empty

ExclusivityClass == {"SharedBuild", "SharedRead", "Exclusive"}

NoClass == "undefined"

ASSUME SchedulerAssumption ==
  /\ IsFiniteSet(Requests)
  /\ Class \in [Requests -> ExclusivityClass]
  /\ MaxReentrant \in Nat

VARIABLES
  queue,       \* _queue
  active,      \* _activeRequestCount
  activeClass, \* _activeClass
  leases,      \* requests whose lease was not released
  loops,       \* running _notifyQueuePositions: index reached, drain to follow
  reentrant,   \* operations of callbacks since the stack was last empty
  told         \* history: the last position each request was told

admission == <<queue, active, activeClass, leases>>
vars == <<admission, loops, reentrant, told>>

Loop == [index : Nat, drains : BOOLEAN]

TypeOK ==
  /\ queue \in Seq(Requests)
  /\ active \in Nat
  /\ activeClass \in ExclusivityClass \cup {NoClass}
  /\ leases \subseteq Requests
  /\ loops \in Seq(Loop)
  /\ reentrant \in 0..MaxReentrant
  /\ told \in [Requests -> Nat]

Queued == {queue[i] : i \in 1..Len(queue)}

Init ==
  /\ queue = <<>>
  /\ active = 0
  /\ activeClass = NoClass
  /\ leases = {}
  /\ loops = <<>>
  /\ reentrant = 0
  /\ told = [r \in Requests |-> 0]

-----------------------------------------------------------------------------
(* Admission *)

\* A bug to catch: shared classes are compatible with each other.
CanAdmitShared(class, count, current) ==
  count = 0 \/ (class # "Exclusive" /\ current # "Exclusive")

\* _canAdmit with count requests of class current active.
CanAdmit(class, count, current) ==
  \/ count = 0
  \/ class # "Exclusive" /\ class = current

\* _activeClass once _drainQueue admitted the first n requests of q: the first one
\* sets it, and the others are only admitted because they have the same.
ClassAfter(n, q, current) == IF n = 0 THEN current ELSE Class[q[1]]

CanAdmitNth(n, q, count, current) ==
  CanAdmit(Class[q[n]], count + n - 1, ClassAfter(n - 1, q, current))

\* The loop of _drainQueue takes n requests off the queue q, and no more.
Takes(n, q, count, current) ==
  /\ \A i \in 1..n : CanAdmitNth(i, q, count, current)
  /\ n < Len(q) => ~CanAdmitNth(n + 1, q, count, current)

\* A bug to catch: those who stay in the queue are not told that they moved up.
DrainSilently(q, count, current, held, below) ==
  \E n \in 0..Len(q) :
    /\ Takes(n, q, count, current)
    /\ queue' = SubSeq(q, n + 1, Len(q))
    /\ active' = count + n
    /\ activeClass' = ClassAfter(n, q, current)
    /\ leases' = held \cup {q[i] : i \in 1..n}
    /\ loops' = below

\* _drainQueue on the queue q: admit what can be, and tell the others if it was
\* anything. below are the notification loops that are still running.
Drain(q, count, current, held, below) ==
  \E n \in 0..Len(q) :
    /\ Takes(n, q, count, current)
    /\ queue' = SubSeq(q, n + 1, Len(q))
    /\ active' = count + n
    /\ activeClass' = ClassAfter(n, q, current)
    /\ leases' = held \cup {q[i] : i \in 1..n}
    /\ loops' = IF n = 0 THEN below ELSE Append(below, [index |-> 0, drains |-> FALSE])

\* A bug to catch: a request that leaves the queue does not let others advance.
RejectedQuietly == [index |-> 0, drains |-> FALSE]

\* The loop that _rejectQueuedRequest starts, to be followed by _drainQueue.
RejectionLoop == [index |-> 0, drains |-> TRUE]

-----------------------------------------------------------------------------
(* Operations *)

Top == loops[Len(loops)]

Below == SubSeq(loops, 1, Len(loops) - 1)

\* An operation is called from the event loop, or from the callback that the
\* topmost notification loop is in.
Called ==
  \/ loops = <<>> /\ reentrant' = 0
  \/ /\ loops # <<>>
     /\ Top.index > 0
     /\ reentrant < MaxReentrant
     /\ reentrant' = reentrant + 1

\* A bug to catch: a request that fits the active ones does not queue up.
OvertakesQueue(r) == CanAdmit(Class[r], active, activeClass)

AdmittedAtOnce(r) == queue = <<>> /\ CanAdmit(Class[r], active, activeClass)

\* acquireAsync: admitted at once, or queued up; then positions are told and the
\* queue is drained.
Acquire(r) ==
  /\ r \notin Queued \cup leases
  /\ Called
  /\ told' = [told EXCEPT ![r] = 0]
  /\ \/ /\ AdmittedAtOnce(r)
        /\ active' = active + 1
        /\ activeClass' = Class[r]
        /\ leases' = leases \cup {r}
        /\ UNCHANGED <<queue, loops>>
     \/ /\ ~AdmittedAtOnce(r)
        /\ queue' = Append(queue, r)
        /\ loops' = Append(loops, [index |-> 0, drains |-> TRUE])
        /\ UNCHANGED <<active, activeClass, leases>>

\* A second release() of the lease does nothing.
Release(r) ==
  /\ r \in leases
  /\ Called
  /\ Drain(queue, active - 1, IF active = 1 THEN NoClass ELSE activeClass,
           leases \ {r}, loops)
  /\ UNCHANGED told

\* The wait of a queued request times out, or its signal is aborted.
RejectQueuedRequest(r) ==
  /\ \E i \in 1..Len(queue) : queue[i] = r /\ queue' = RemoveAt(queue, i)
  /\ Called
  /\ loops' = Append(loops, RejectionLoop)
  /\ UNCHANGED <<active, activeClass, leases, told>>

\* _notifyQueuePositions calls the next callback.
NotifyPosition ==
  /\ loops # <<>>
  /\ Top.index < Len(queue)
  /\ told' = [told EXCEPT ![queue[Top.index + 1]] = Top.index + 1]
  /\ loops' = [loops EXCEPT ![Len(loops)].index = @ + 1]
  /\ UNCHANGED <<admission, reentrant>>

\* The loop has come to the end of the queue; its caller drains it, or is done.
NotificationEnds ==
  /\ loops # <<>>
  /\ Top.index >= Len(queue)
  /\ \/ /\ Top.drains
        /\ Drain(queue, active, activeClass, leases, Below)
     \/ /\ ~Top.drains
        /\ loops' = Below
        /\ UNCHANGED admission
  /\ UNCHANGED <<reentrant, told>>

NotificationStep == NotifyPosition \/ NotificationEnds

Next ==
  \/ NotificationStep
  \/ \E r \in Requests : Acquire(r) \/ Release(r) \/ RejectQueuedRequest(r)

\* Running code goes on, and whoever holds a lease releases it: given infinitely
\* many chances, for the callbacks of others may be running.
Spec ==
  /\ Init
  /\ [][Next]_vars
  /\ WF_vars(NotificationStep)
  /\ \A r \in Requests : SF_vars(Release(r))

-----------------------------------------------------------------------------
(* Properties *)

\* Requests that hold a lease are compatible with each other: all of one shared
\* class, or a single exclusive one (_canAdmit, counted by _createLease). Part of
\* ImplementsFairLock, below.
Compatible ==
  \A r, s \in leases : r # s => Class[r] = Class[s] /\ Class[r] # "Exclusive"

\* The count and the class agree with the leases.
CountsLeases ==
  /\ active = Cardinality(leases)
  /\ \A r \in leases : Class[r] = activeClass

\* Whoever gets its lease in this step is ahead of everyone who stays queued up.
AdmittedInOrder ==
  \A r \in leases' \ leases, q \in Queued' :
    q \in Queued => \E i, j \in 1..Len(queue) : queue[i] = r /\ queue[j] = q /\ i < j

\* No request overtakes another: whoever is admitted had only requests ahead of
\* it that are admitted in the same step ("once an exclusive request reaches the
\* queue, it gates all requests behind it").
NoOvertaking == [][AdmittedInOrder]_vars

\* When no callback is running, the head of the queue really has to wait.
NoIdleCapacity ==
  loops = <<>> /\ queue # <<>> => ~CanAdmit(Class[Head(queue)], active, activeClass)

\* When no callback is running, every queued request knows its position, whatever
\* the callbacks did to the queue in between.
PositionsKnown ==
  loops = <<>> => \A i \in 1..Len(queue) : told[queue[i]] = i

\* No request waits forever while leases are released.
Admitted == \A r \in Requests : r \in Queued ~> r \notin Queued

-----------------------------------------------------------------------------
(* Refinement of the abstract lock *)

Lock == INSTANCE FairSharedLock WITH waiting <- queue, holding <- leases

\* The scheduler is a fair shared lock: the counter and the class of the active
\* requests are as good as looking at every lease (_canAdmit), whatever callbacks do
\* while requests are told their positions.
ImplementsFairLock == Lock!Spec
=============================================================================
