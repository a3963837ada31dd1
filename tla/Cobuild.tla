------------------------------ MODULE Cobuild ------------------------------
(***************************************************************************)
(* Cobuilds: several agents run the same operations and share the work     *)
(* through leases, completed states and the build cache. One action is one *)
(* command of the lock provider, or one access to the cache, as            *)
(* CacheableOperationPlugin issues them before and after an operation.     *)
(*                                                                         *)
(* Time passes in intervals of the periodic renewal, and any number of     *)
(* them between two commands: nothing bounds what an agent awaits.         *)
(***************************************************************************)
EXTENDS Integers, FiniteSets

CONSTANTS
  Runners,      \* cobuildRunnerId of each agent
  Operations,   \* operations with a cobuild lock
  Selected,     \* those that each agent has been asked for
  Cluster,      \* cobuildClusterId of each operation
  Failing,      \* operations that may fail
  Unreliable,   \* operations whose cache entry may not be written or restored
  Incremental,  \* isCacheReadAllowed
  Nobody,
  MaxFaults     \* bound: agents that die, entries that are not written or restored

\* lockExpireTimeInSeconds, in renewal intervals.
LeaseTime == 3

ASSUME CobuildAssumption ==
  /\ Selected \in [Runners -> SUBSET Operations]
  /\ Failing \subseteq Operations
  /\ Unreliable \subseteq Operations
  /\ Incremental \in BOOLEAN
  /\ Nobody \notin Runners
  /\ MaxFaults \in Nat

Clusters == {Cluster[o] : o \in Operations}

\* Of ICobuildCompletedState.
Statuses == {"Success", "Failure"}

\* A bug to catch: what failed is cached as if it had not.
OneCacheId(status) == "Success"

\* finalCacheId: a failure is cached under an id of its own, named for it here.
CacheId(status) == status

None == "None"

VARIABLES
  holder,     \* value of the lock key of each cluster
  ttl,        \* intervals until it expires
  missed,     \* periodic renewals due since then that have not arrived, at most 2
  completed,  \* the completed state of each operation
  entries,    \* its cache entries
  at,         \* where each agent is with each operation
  result,     \* the status it reports, or will if its cache entry is restored
  readCache,  \* per agent, the operations with isCacheReadAttempted
  renewing,   \* per agent, the operations whose periodic callback runs
  faults,     \* agents that died and entries that were not written or restored
  origins     \* history: times an operation was started or failed to be, at most 2

lease == <<holder, ttl, missed>>
shared == <<completed, entries>>
agent == <<at, result, readCache, renewing>>
vars == <<lease, shared, agent, faults, origins>>

Attempting == {"asked", "set", "got"}
Steps == {"ready", "restore", "run", "threw", "announce", "warn", "done", "gone"} \cup Attempting

TypeOK ==
  /\ holder \in [Clusters -> Runners \cup {Nobody}]
  /\ ttl \in [Clusters -> 0..LeaseTime]
  /\ missed \in [Clusters -> 0..2]
  /\ completed \in [Operations -> Statuses \cup {None}]
  /\ entries \in [Operations -> SUBSET Statuses]
  /\ at \in [Runners -> [Operations -> Steps]]
  /\ result \in [Runners -> [Operations -> Statuses \cup {"FromCache", "SuccessWithWarning", None}]]
  /\ readCache \in [Runners -> SUBSET Operations]
  /\ renewing \in [Runners -> SUBSET Operations]
  /\ faults \in 0..MaxFaults
  /\ origins \in [Operations -> 0..2]

\* An agent has nothing to do with the operations that it was not asked for.
Beginning(r) == [o \in Operations |-> IF o \in Selected[r] THEN "ready" ELSE "gone"]

Init ==
  /\ holder = [c \in Clusters |-> Nobody]
  /\ ttl = [c \in Clusters |-> 0]
  /\ missed = [c \in Clusters |-> 0]
  /\ completed = [o \in Operations |-> None]
  /\ entries = [o \in Operations |-> {}]
  /\ at = [r \in Runners |-> Beginning(r)]
  /\ result = [r \in Runners |-> [o \in Operations |-> None]]
  /\ readCache = [r \in Runners |-> {}]
  /\ renewing = [r \in Runners |-> {}]
  /\ faults = 0
  /\ origins = [o \in Operations |-> 0]

Goes(r, o, step) == at' = [at EXCEPT ![r][o] = step]
Reports(r, o, status) == result' = [result EXCEPT ![r][o] = status]

-----------------------------------------------------------------------------
(* Before the operation *)

Fault(o) == o \in Unreliable /\ faults < MaxFaults /\ faults' = faults + 1

\* restoreCacheAsync notes that it was called, and asks for the entry; the agent will
\* report the status if it gets it.
Restoring(r, o, status) ==
  /\ Goes(r, o, "restore")
  /\ Reports(r, o, status)
  /\ readCache' = [readCache EXCEPT ![r] = @ \cup {o}]

\* getCompletedStateAsync: another agent's result is restored; while nobody has
\* completed the operation, the cache is read once; what is left is to be built.
Ask(r, o) ==
  /\ at[r][o] = "ready"
  /\ \/ /\ completed[o] # None
        /\ Restoring(r, o, completed[o])
     \/ /\ completed[o] = None
        /\ Incremental /\ o \notin readCache[r]
        /\ Restoring(r, o, "FromCache")
     \/ /\ completed[o] = None
        /\ ~Incremental \/ o \in readCache[r]
        /\ Goes(r, o, "asked")
        /\ UNCHANGED <<result, readCache>>
  /\ UNCHANGED <<lease, shared, renewing, faults, origins>>

\* The entry that was asked for.
Wanted(r, o) == CacheId(IF result[r][o] = "FromCache" THEN "Success" ELSE result[r][o])

\* The entry is found in the cache and unpacked.
Restored(r, o) ==
  /\ Wanted(r, o) \in entries[o]
  /\ Goes(r, o, "done")
  /\ UNCHANGED <<result, faults>>

\* It is not, so that the operation is built once the lease is this agent's.
NotRestored(r, o) ==
  /\ IF Wanted(r, o) \in entries[o] THEN Fault(o) ELSE UNCHANGED faults
  /\ Goes(r, o, "asked")
  /\ Reports(r, o, None)

Restore(r, o) ==
  /\ at[r][o] = "restore"
  /\ Restored(r, o) \/ NotRestored(r, o)
  /\ UNCHANGED <<lease, shared, readCache, renewing, origins>>

\* SET with NX
Sets(c) == holder[c] = Nobody

\* SET with NX and EX
SetLock(r, o) ==
  LET c == Cluster[o]
  IN /\ at[r][o] = "asked"
     /\ Goes(r, o, "set")
     /\ IF Sets(c)
        THEN /\ holder' = [holder EXCEPT ![c] = r]
             /\ ttl' = [ttl EXCEPT ![c] = LeaseTime]
             /\ missed' = [missed EXCEPT ![c] = 0]
        ELSE UNCHANGED lease
     /\ UNCHANGED <<shared, result, readCache, renewing, faults, origins>>

\* The operation is started, or its hook has thrown instead.
Originates(o) == origins' = [origins EXCEPT ![o] = IF @ = 2 THEN 2 ELSE @ + 1]

\* GET: the lease is this agent's, maybe from an operation before; or another
\* agent's, and the record is Ready again after 500 ms; or it has expired since SET.
GetLock(r, o) ==
  LET c == Cluster[o]
  IN /\ at[r][o] = "set"
     /\ \/ holder[c] = r /\ Goes(r, o, "got") /\ UNCHANGED origins
        \/ holder[c] \notin {r, Nobody} /\ Goes(r, o, "ready") /\ UNCHANGED origins
        \/ holder[c] = Nobody /\ Goes(r, o, "threw") /\ Originates(o)
     /\ UNCHANGED <<lease, shared, result, readCache, renewing, faults>>

\* A bug to catch: a lease that is this agent's already is not renewed.
NotExtended(c) == [ttl EXCEPT ![c] = @]

\* EXPIRE, which does not look whose key it is, nor whether there is one.
Extended(c) == [ttl EXCEPT ![c] = IF holder[c] = Nobody THEN 0 ELSE LeaseTime]

\* renewLockAsync. Then the periodic callback and the operation start.
RenewLock(r, o) ==
  /\ at[r][o] = "got"
  /\ Goes(r, o, "run")
  /\ ttl' = Extended(Cluster[o])
  /\ missed' = [missed EXCEPT ![Cluster[o]] = 0]
  /\ renewing' = [renewing EXCEPT ![r] = @ \cup {o}]
  /\ Originates(o)
  /\ UNCHANGED <<holder, shared, result, readCache, faults>>

-----------------------------------------------------------------------------
(* The operation, and after it *)

\* A bug to catch: the periodic callback is not stopped.
KeepsRenewing(r, o) == renewing[r]

\* The finally of the hook stops the callback, if it was started.
StopsRenewing(r, o) == renewing[r] \ {o}

\* trySetCacheEntryAsync writes the entry, returns false, or throws, which ends
\* the hook.
Stores(r, o, status) ==
  \/ /\ entries' = [entries EXCEPT ![o] = @ \cup {CacheId(status)}]
     /\ Goes(r, o, "announce")
     /\ Reports(r, o, status)
     /\ UNCHANGED <<renewing, faults>>
  \/ /\ Fault(o)
     /\ Goes(r, o, "warn")
     /\ Reports(r, o, status)
     /\ UNCHANGED <<entries, renewing>>
  \/ /\ Fault(o)
     /\ Goes(r, o, "done")
     /\ Reports(r, o, "Failure")
     /\ renewing' = [renewing EXCEPT ![r] = StopsRenewing(r, o)]
     /\ UNCHANGED entries

\* The operation has ended, or the hook before it has thrown: then the record is a
\* Failure, and what comes after an operation comes after this one.
Ends(r, o) ==
  /\ \/ at[r][o] = "run" /\ Stores(r, o, "Success")
     \/ at[r][o] = "run" /\ o \in Failing /\ Stores(r, o, "Failure")
     \/ at[r][o] = "threw" /\ Stores(r, o, "Failure")
  /\ UNCHANGED <<lease, completed, readCache, origins>>

\* setCompletedStateAsync. Nothing is done to the lock key: the lease expires.
Announce(r, o) ==
  /\ at[r][o] \in {"announce", "warn"}
  /\ Goes(r, o, "done")
  /\ completed' = [completed EXCEPT ![o] = result[r][o]]
  /\ renewing' = [renewing EXCEPT ![r] = StopsRenewing(r, o)]
  /\ IF at[r][o] = "warn" /\ result[r][o] = "Success"
     THEN Reports(r, o, "SuccessWithWarning")
     ELSE UNCHANGED result
  /\ UNCHANGED <<lease, entries, readCache, faults, origins>>

-----------------------------------------------------------------------------
(* Time and crashes *)

Renewed(c) == \E r \in Runners : \E o \in renewing[r] : Cluster[o] = c

\* An interval passes. The periodic callbacks have renewed each lease once, or what
\* they have sent is late.
Tick ==
  \E late \in SUBSET {c \in Clusters : Renewed(c)} :
    LET left(c) == IF holder[c] = Nobody THEN 0
                   ELSE IF Renewed(c) /\ c \notin late THEN LeaseTime - 1 ELSE ttl[c] - 1
    IN /\ ttl' = [c \in Clusters |-> left(c)]
       /\ holder' = [c \in Clusters |-> IF left(c) = 0 THEN Nobody ELSE holder[c]]
       /\ missed' = [c \in Clusters |->
                       IF c \notin late THEN 0 ELSE IF missed[c] = 2 THEN 2 ELSE missed[c] + 1]
       /\ UNCHANGED <<shared, agent, faults, origins>>

\* An agent dies, and may be started again under the same name.
Crash(r) ==
  /\ faults < MaxFaults
  /\ \E o \in Operations : at[r][o] # "gone"
  /\ faults' = faults + 1
  /\ \E begins \in {Beginning(r), [o \in Operations |-> "gone"]} :
       at' = [at EXCEPT ![r] = begins]
  /\ result' = [result EXCEPT ![r] = [o \in Operations |-> None]]
  /\ readCache' = [readCache EXCEPT ![r] = {}]
  /\ renewing' = [renewing EXCEPT ![r] = {}]
  /\ UNCHANGED <<lease, shared, origins>>

-----------------------------------------------------------------------------
AgentStep(r, o) ==
  \/ Ask(r, o)
  \/ Restore(r, o)
  \/ SetLock(r, o)
  \/ GetLock(r, o)
  \/ RenewLock(r, o)
  \/ Ends(r, o)
  \/ Announce(r, o)

Next ==
  \/ \E r \in Runners, o \in Operations : AgentStep(r, o)
  \/ Tick
  \/ \E r \in Runners : Crash(r)

\* The lease is read back before it expires.
TakesLease(r, o) == GetLock(r, o) /\ holder[Cluster[o]] = r

\* Commands are answered, operations end, timers fire and time passes. Not every
\* answer comes later than a lease lasts: who takes one again and again once gets it.
Spec ==
  /\ Init
  /\ [][Next]_vars
  /\ \A r \in Runners, o \in Operations :
       WF_vars(AgentStep(r, o)) /\ SF_vars(TakesLease(r, o))
  /\ WF_vars(Tick)

-----------------------------------------------------------------------------
(* Properties *)

\* An agent that executes an operation under a lease of its own keeps it until it has
\* announced the result, however little of it was left when it started and whatever the
\* agents do with the other operations of the cluster, unless two periodic renewals in
\* a row are late ("renew the lock in a redundant way in case of losing the lock").
LeaseOutlastsWork ==
  [][\A r \in Runners : \A o \in renewing[r] :
       holder[Cluster[o]] = r =>
         holder'[Cluster[o]] = r \/ missed'[Cluster[o]] = 2]_vars

\* If an operation was started only once, whoever is done with it agrees whether it has
\* failed, whether they have run it, were told or found it in the cache, and whoever
\* has died, lost a lease or failed to write an entry ("one of them restored the
\* failing build cache created by the other one").
OutcomesAgree ==
  \A r, s \in Runners, o \in Operations :
    at[r][o] = "done" /\ at[s][o] = "done" /\ result[r][o] = "Failure" /\ origins[o] <= 1
      => result[s][o] = "Failure"

\* Every agent comes to an end with every operation, whoever dies with a lease.
EverybodyGetsDone == <>(\A r \in Runners, o \in Operations : at[r][o] \in {"done", "gone"})

\* acquireLockAsync: a key that was set, or found to exist, is there to be read
\* ("This should not happen").
LockKeyFound == \A r \in Runners, o \in Operations : at[r][o] # "threw"
=============================================================================
