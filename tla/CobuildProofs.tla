--------------------------- MODULE CobuildProofs ---------------------------
(***************************************************************************)
(* Cobuilds, for every number of agents, operations and clusters: type     *)
(* correctness, how long a lease lasts, and that what is executed once has *)
(* one outcome.                                                            *)
(***************************************************************************)
EXTENDS Cobuild, TLAPS

LEMMA ClusterOf == \A o \in Operations : Cluster[o] \in Clusters
BY DEF Clusters

-----------------------------------------------------------------------------
(* Type correctness *)

\* A lease is held as long as it has time left.
Leased == \A c \in Clusters : holder[c] = Nobody <=> ttl[c] = 0

\* What is to be announced or restored is a status that can be.
Carried ==
  \A r \in Runners, o \in Operations :
    /\ at[r][o] \in {"announce", "warn"} => result[r][o] \in Statuses
    /\ at[r][o] = "restore" => result[r][o] \in Statuses \cup {"FromCache"}

Typed == TypeOK /\ Leased /\ Carried

LEMMA InitTypes == Init => Typed
BY CobuildAssumption DEF Init, Beginning, Typed, TypeOK, Leased, Carried, LeaseTime, Steps

AllResults == Statuses \cup {"FromCache", "SuccessWithWarning", None}

LEMMA GoesTo ==
  ASSUME TypeOK, NEW r \in Runners, NEW o \in Operations, NEW step \in Steps, Goes(r, o, step)
  PROVE  /\ at' \in [Runners -> [Operations -> Steps]]
         /\ at'[r][o] = step
         /\ \A s \in Runners, p \in Operations : s # r \/ p # o => at'[s][p] = at[s][p]
BY DEF TypeOK, Goes

LEMMA ReportsTo ==
  ASSUME TypeOK, NEW r \in Runners, NEW o \in Operations, NEW status \in AllResults,
         Reports(r, o, status)
  PROVE  /\ result' \in [Runners -> [Operations -> AllResults]]
         /\ result'[r][o] = status
         /\ \A s \in Runners, p \in Operations : s # r \/ p # o => result'[s][p] = result[s][p]
BY DEF TypeOK, Reports, AllResults

LEMMA RenewsOnly ==
  ASSUME TypeOK, NEW r \in Runners, NEW some \in SUBSET Operations,
         renewing' = renewing \/ renewing' = [renewing EXCEPT ![r] = some]
  PROVE  renewing' \in [Runners -> SUBSET Operations]
BY DEF TypeOK

LEMMA AskTypes ==
  ASSUME Typed, NEW r \in Runners, NEW o \in Operations, Ask(r, o)
  PROVE  Typed'
<1> USE CobuildAssumption DEF Typed, lease, shared
<1>1. UNCHANGED <<holder, ttl, missed, completed, entries, renewing, faults, origins>>
  BY DEF Ask
<1>2. CASE \E status \in Statuses \cup {"FromCache"} : Restoring(r, o, status)
  <2>1. PICK status \in Statuses \cup {"FromCache"} : Restoring(r, o, status)
    BY <1>2
  <2>2. /\ at' \in [Runners -> [Operations -> Steps]]
        /\ at'[r][o] = "restore"
        /\ \A s \in Runners, p \in Operations : s # r \/ p # o => at'[s][p] = at[s][p]
    BY <2>1, GoesTo DEF Restoring, Steps
  <2>3. /\ result' \in [Runners -> [Operations -> AllResults]]
        /\ result'[r][o] = status
        /\ \A s \in Runners, p \in Operations : s # r \/ p # o => result'[s][p] = result[s][p]
    BY <2>1, ReportsTo DEF Restoring, AllResults
  <2>4. readCache' \in [Runners -> SUBSET Operations]
    BY <2>1 DEF Restoring, TypeOK
  <2>5. Carried'
    BY <2>2, <2>3 DEF Carried
  <2> QED
    BY <1>1, <2>2, <2>3, <2>4, <2>5 DEF TypeOK, Leased, AllResults
<1>3. CASE Goes(r, o, "asked") /\ UNCHANGED <<result, readCache>>
  <2>1. /\ at' \in [Runners -> [Operations -> Steps]]
        /\ at'[r][o] = "asked"
        /\ \A s \in Runners, p \in Operations : s # r \/ p # o => at'[s][p] = at[s][p]
    BY <1>3, GoesTo DEF Steps, Attempting
  <2>2. Carried'
    BY <1>3, <2>1 DEF Carried
  <2> QED
    BY <1>1, <1>3, <2>1, <2>2 DEF TypeOK, Leased
<1>4. completed[o] \in Statuses \cup {None}
  BY DEF TypeOK
<1> QED
  BY <1>2, <1>3, <1>4 DEF Ask

LEMMA RestoreTypes ==
  ASSUME Typed, NEW r \in Runners, NEW o \in Operations, Restore(r, o)
  PROVE  Typed'
<1> USE CobuildAssumption DEF Typed, lease, shared
<1>1. UNCHANGED <<holder, ttl, missed, completed, entries, readCache, renewing, origins>>
  BY DEF Restore
<1>2. /\ at' \in [Runners -> [Operations -> Steps]]
      /\ at'[r][o] \in {"done", "asked"}
      /\ \A s \in Runners, p \in Operations : s # r \/ p # o => at'[s][p] = at[s][p]
  BY GoesTo DEF Restore, Restored, NotRestored, Steps, Attempting
<1>3. /\ result' \in [Runners -> [Operations -> AllResults]]
      /\ \A s \in Runners, p \in Operations : s # r \/ p # o => result'[s][p] = result[s][p]
  <2>1. CASE UNCHANGED result
    BY <2>1 DEF TypeOK, AllResults
  <2>2. CASE Reports(r, o, None)
    BY <2>2, ReportsTo DEF AllResults
  <2> QED
    BY <2>1, <2>2 DEF Restore, Restored, NotRestored
<1>4. faults' \in 0..MaxFaults
  BY DEF Restore, Restored, NotRestored, Fault, TypeOK
<1>5. Carried'
  BY <1>2, <1>3 DEF Carried
<1> QED
  BY <1>1, <1>2, <1>3, <1>4, <1>5 DEF TypeOK, Leased, AllResults

LEMMA OriginTypes ==
  ASSUME TypeOK, NEW o \in Operations, Originates(o)
  PROVE  /\ origins' \in [Operations -> 0..2]
         /\ origins'[o] = IF origins[o] = 2 THEN 2 ELSE origins[o] + 1
         /\ \A p \in Operations : p # o => origins'[p] = origins[p]
BY DEF TypeOK, Originates

LEMMA LockTypes ==
  ASSUME Typed, NEW r \in Runners, NEW o \in Operations,
         SetLock(r, o) \/ GetLock(r, o) \/ RenewLock(r, o)
  PROVE  Typed'
<1> USE ClusterOf, CobuildAssumption DEF Typed, lease, shared
<1>1. PICK step \in {"set", "got", "ready", "threw", "run"} : Goes(r, o, step)
  BY DEF SetLock, GetLock, RenewLock
<1>2. /\ at' \in [Runners -> [Operations -> Steps]]
      /\ at'[r][o] \notin {"announce", "warn", "restore"}
      /\ \A s \in Runners, p \in Operations : s # r \/ p # o => at'[s][p] = at[s][p]
  BY <1>1, GoesTo DEF Steps, Attempting
<1>3. UNCHANGED <<completed, entries, result, readCache, faults>>
  BY DEF SetLock, GetLock, RenewLock
<1>4. Carried'
  BY <1>2, <1>3 DEF Carried
<1>5. origins' \in [Operations -> 0..2] /\ renewing' \in [Runners -> SUBSET Operations]
  <2>1. UNCHANGED origins \/ Originates(o)
    BY DEF SetLock, GetLock, RenewLock
  <2>2. renewing' = renewing \/ renewing' = [renewing EXCEPT ![r] = renewing[r] \cup {o}]
    BY DEF SetLock, GetLock, RenewLock
  <2>3. origins' \in [Operations -> 0..2]
    BY <2>1, OriginTypes DEF TypeOK
  <2>4. renewing[r] \cup {o} \in SUBSET Operations
    BY DEF TypeOK
  <2>5. renewing' \in [Runners -> SUBSET Operations]
    BY <2>2, <2>4, RenewsOnly
  <2> QED
    BY <2>3, <2>5
<1>6. /\ holder' \in [Clusters -> Runners \cup {Nobody}]
      /\ ttl' \in [Clusters -> 0..LeaseTime]
      /\ missed' \in [Clusters -> 0..2]
      /\ Leased'
  <2> USE DEF TypeOK, Leased, LeaseTime
  <2>1. CASE SetLock(r, o)
    <3>1. CASE holder[Cluster[o]] = Nobody
      <4>1. /\ holder' = [holder EXCEPT ![Cluster[o]] = r]
            /\ ttl' = [ttl EXCEPT ![Cluster[o]] = LeaseTime]
            /\ missed' = [missed EXCEPT ![Cluster[o]] = 0]
        BY <2>1, <3>1 DEF SetLock, Sets
      <4> QED
        BY <4>1
    <3>2. CASE holder[Cluster[o]] # Nobody
      BY <2>1, <3>2 DEF SetLock, Sets
    <3> QED
      BY <3>1, <3>2
  <2>2. CASE GetLock(r, o)
    BY <2>2 DEF GetLock
  <2>3. CASE RenewLock(r, o)
    <3>1. /\ holder' = holder
          /\ ttl' = [ttl EXCEPT ![Cluster[o]] =
                      IF holder[Cluster[o]] = Nobody THEN 0 ELSE LeaseTime]
          /\ missed' = [missed EXCEPT ![Cluster[o]] = 0]
      BY <2>3 DEF RenewLock, Extended
    <3> QED
      BY <3>1
  <2> QED
    BY <2>1, <2>2, <2>3
<1> QED
  BY <1>2, <1>3, <1>4, <1>5, <1>6 DEF TypeOK

LEMMA EndTypes ==
  ASSUME Typed, NEW r \in Runners, NEW o \in Operations, Ends(r, o)
  PROVE  Typed'
<1> USE CobuildAssumption DEF Typed, lease
<1>1. PICK step \in {"announce", "warn", "done"}, status \in Statuses :
        Goes(r, o, step) /\ Reports(r, o, status)
  BY DEF Ends, Stores, Statuses
<1>2. /\ at' \in [Runners -> [Operations -> Steps]]
      /\ at'[r][o] # "restore"
      /\ \A s \in Runners, p \in Operations : s # r \/ p # o => at'[s][p] = at[s][p]
  BY <1>1, GoesTo DEF Steps
<1>3. /\ result' \in [Runners -> [Operations -> AllResults]]
      /\ result'[r][o] \in Statuses
      /\ \A s \in Runners, p \in Operations : s # r \/ p # o => result'[s][p] = result[s][p]
  BY <1>1, ReportsTo DEF AllResults
<1>4. entries' \in [Operations -> SUBSET Statuses] /\ faults' \in 0..MaxFaults
  <2>1. \/ entries' = entries
        \/ entries' = [entries EXCEPT ![o] = entries[o] \cup {"Success"}]
        \/ entries' = [entries EXCEPT ![o] = entries[o] \cup {"Failure"}]
    BY DEF Ends, Stores, CacheId
  <2>2. entries' \in [Operations -> SUBSET Statuses]
    <3>1. entries \in [Operations -> SUBSET Statuses] /\ {"Success", "Failure"} = Statuses
      BY DEF TypeOK, Statuses
    <3>2. entries[o] \cup {"Success"} \in SUBSET Statuses
      BY <3>1
    <3>3. entries[o] \cup {"Failure"} \in SUBSET Statuses
      BY <3>1
    <3> QED
      BY <2>1, <3>1, <3>2, <3>3
  <2>3. UNCHANGED faults \/ Fault(o)
    BY DEF Ends, Stores
  <2>4. faults' \in 0..MaxFaults
    BY <2>3 DEF Fault, TypeOK
  <2> QED
    BY <2>2, <2>4
<1>5. renewing' \in [Runners -> SUBSET Operations]
  <2>1. renewing' = renewing \/ renewing' = [renewing EXCEPT ![r] = renewing[r] \ {o}]
    BY DEF Ends, Stores, StopsRenewing
  <2>2. renewing[r] \ {o} \in SUBSET Operations
    BY DEF TypeOK
  <2> QED
    BY <2>1, <2>2, RenewsOnly
<1>6. UNCHANGED <<holder, ttl, missed, completed, readCache, origins>>
  BY DEF Ends
<1>7. Carried'
  BY <1>2, <1>3 DEF Carried
<1> QED
  BY <1>2, <1>3, <1>4, <1>5, <1>6, <1>7 DEF TypeOK, Leased, AllResults

LEMMA AnnounceTypes ==
  ASSUME Typed, NEW r \in Runners, NEW o \in Operations, Announce(r, o)
  PROVE  Typed'
<1> USE CobuildAssumption DEF Typed, lease
<1>1. /\ at' \in [Runners -> [Operations -> Steps]]
      /\ at'[r][o] = "done"
      /\ \A s \in Runners, p \in Operations : s # r \/ p # o => at'[s][p] = at[s][p]
  BY GoesTo DEF Announce, Steps
<1>2. /\ result' \in [Runners -> [Operations -> AllResults]]
      /\ \A s \in Runners, p \in Operations : s # r \/ p # o => result'[s][p] = result[s][p]
  <2>1. CASE UNCHANGED result
    BY <2>1 DEF TypeOK, AllResults
  <2>2. CASE Reports(r, o, "SuccessWithWarning")
    BY <2>2, ReportsTo DEF AllResults
  <2> QED
    BY <2>1, <2>2 DEF Announce
<1>3. /\ completed' \in [Operations -> Statuses \cup {None}]
      /\ renewing' \in [Runners -> SUBSET Operations]
  BY DEF Announce, StopsRenewing, TypeOK, Carried
<1>4. UNCHANGED <<holder, ttl, missed, entries, readCache, faults, origins>>
  BY DEF Announce
<1>5. Carried'
  BY <1>1, <1>2 DEF Carried
<1> QED
  BY <1>1, <1>2, <1>3, <1>4, <1>5 DEF TypeOK, Leased, AllResults

\* What an interval leaves of each lease.
LEMMA TickLeaves ==
  ASSUME Typed, Tick
  PROVE  \E late \in SUBSET {c \in Clusters : Renewed(c)} :
           /\ ttl' = [c \in Clusters |->
                       IF holder[c] = Nobody THEN 0
                       ELSE IF Renewed(c) /\ c \notin late THEN 2 ELSE ttl[c] - 1]
           /\ holder' = [c \in Clusters |-> IF ttl'[c] = 0 THEN Nobody ELSE holder[c]]
           /\ missed' = [c \in Clusters |->
                          IF c \notin late THEN 0 ELSE IF missed[c] = 2 THEN 2 ELSE missed[c] + 1]
           /\ UNCHANGED <<completed, entries, at, result, readCache, renewing, faults, origins>>
BY DEF Tick, LeaseTime, shared, agent

LEMMA TickTypes == ASSUME Typed, Tick PROVE Typed'
<1> USE CobuildAssumption DEF Typed, TypeOK, Leased, LeaseTime
<1>1. PICK late \in SUBSET {c \in Clusters : Renewed(c)} :
        /\ ttl' = [c \in Clusters |->
                    IF holder[c] = Nobody THEN 0
                    ELSE IF Renewed(c) /\ c \notin late THEN 2 ELSE ttl[c] - 1]
        /\ holder' = [c \in Clusters |-> IF ttl'[c] = 0 THEN Nobody ELSE holder[c]]
        /\ missed' = [c \in Clusters |->
                       IF c \notin late THEN 0 ELSE IF missed[c] = 2 THEN 2 ELSE missed[c] + 1]
        /\ UNCHANGED <<completed, entries, at, result, readCache, renewing, faults, origins>>
  BY TickLeaves
<1>2. ttl' \in [Clusters -> 0..LeaseTime] /\ missed' \in [Clusters -> 0..2]
  <2>1. \A c \in Clusters : holder[c] # Nobody => ttl[c] - 1 \in 0..3
    OBVIOUS
  <2>2. \A c \in Clusters : missed[c] # 2 => missed[c] + 1 \in 0..2
    OBVIOUS
  <2>3. ttl' \in [Clusters -> 0..LeaseTime]
    BY <1>1, <2>1
  <2>4. missed' \in [Clusters -> 0..2]
    BY <1>1, <2>2
  <2> QED
    BY <2>3, <2>4
<1>3. holder' \in [Clusters -> Runners \cup {Nobody}]
  BY <1>1
<1>4. Leased'
  BY <1>1, <1>2
<1>5. Carried'
  BY <1>1 DEF Carried
<1> QED
  BY <1>1, <1>2, <1>3, <1>4, <1>5

LEMMA CrashTypes == ASSUME Typed, NEW r \in Runners, Crash(r) PROVE Typed'
BY CobuildAssumption
DEF Typed, TypeOK, Leased, Carried, Crash, Beginning, Steps, lease, shared, None

LEMMA NextTypes == Typed /\ [Next]_vars => Typed'
<1> SUFFICES ASSUME Typed, [Next]_vars PROVE Typed'
  OBVIOUS
<1>1. CASE UNCHANGED vars
  BY <1>1 DEF Typed, TypeOK, Leased, Carried, vars, lease, shared, agent
<1> QED
  BY <1>1, AskTypes, RestoreTypes, LockTypes, EndTypes, AnnounceTypes, TickTypes, CrashTypes
  DEF Next, AgentStep

LEMMA AlwaysTyped == Spec => []Typed
BY InitTypes, NextTypes, PTL DEF Spec

\* Every reachable state is type-correct, for every number of agents and operations.
THEOREM TypeCorrect == Spec => []TypeOK
<1>1. Typed => TypeOK
  BY DEF Typed
<1> QED
  BY <1>1, AlwaysTyped, PTL

-----------------------------------------------------------------------------
(* How long a lease lasts *)

\* A lease that is being renewed survives the next interval, even if the renewal is
\* late, unless the one before it was late as well.
Enough ==
  \A c \in Clusters :
    Renewed(c) /\ holder[c] # Nobody => ttl[c] >= LeaseTime - 1 - missed[c]

LEMMA InitEnough == Init => Enough
BY DEF Init, Enough, Renewed

LEMMA LocksKeepEnough ==
  ASSUME Typed, Enough, NEW r \in Runners, NEW o \in Operations,
         SetLock(r, o) \/ RenewLock(r, o)
  PROVE  Enough'
<1> USE ClusterOf, CobuildAssumption DEF Typed, LeaseTime
<1>1. CASE SetLock(r, o)
  <2>1. renewing' = renewing
    BY <1>1 DEF SetLock
  <2>2. CASE Sets(Cluster[o])
    <3>1. /\ holder' = [holder EXCEPT ![Cluster[o]] = r]
          /\ ttl' = [ttl EXCEPT ![Cluster[o]] = 3]
          /\ missed' = [missed EXCEPT ![Cluster[o]] = 0]
      BY <1>1, <2>2 DEF SetLock
    <3> QED
      BY <2>1, <3>1 DEF Enough, Renewed, TypeOK
  <2>3. CASE ~Sets(Cluster[o])
    BY <1>1, <2>1, <2>3 DEF SetLock, Enough, Renewed, lease
  <2> QED
    BY <2>2, <2>3
<1>2. CASE RenewLock(r, o)
  <2>1. /\ holder' = holder
        /\ ttl' = [ttl EXCEPT ![Cluster[o]] = IF holder[Cluster[o]] = Nobody THEN 0 ELSE 3]
        /\ missed' = [missed EXCEPT ![Cluster[o]] = 0]
        /\ renewing' = [renewing EXCEPT ![r] = @ \cup {o}]
    BY <1>2 DEF RenewLock, Extended
  <2>2. \A c \in Clusters : c # Cluster[o] /\ Renewed(c)' => Renewed(c)
    BY <2>1 DEF Renewed, TypeOK
  <2> QED
    BY <2>1, <2>2 DEF Enough, TypeOK
<1> QED
  BY <1>1, <1>2

LEMMA NextKeepsEnough == Typed /\ Enough /\ [Next]_vars => Enough'
<1> SUFFICES ASSUME Typed, Enough, [Next]_vars PROVE Enough'
  OBVIOUS
<1> USE DEF lease, shared, agent
<1>1. CASE UNCHANGED <<holder, ttl, missed>> /\ \A r \in Runners : renewing'[r] \subseteq renewing[r]
  BY <1>1 DEF Enough, Renewed
<1>2. ASSUME NEW r \in Runners, NEW o \in Operations,
             Ask(r, o) \/ Restore(r, o) \/ GetLock(r, o) \/ Ends(r, o) \/ Announce(r, o)
      PROVE  Enough'
  <2>1. UNCHANGED <<holder, ttl, missed>>
    BY <1>2 DEF Ask, Restore, GetLock, Ends, Announce
  <2>2. renewing' = renewing \/ renewing' = [renewing EXCEPT ![r] = renewing[r] \ {o}]
    BY <1>2 DEF Ask, Restore, GetLock, Ends, Stores, Announce, StopsRenewing
  <2> QED
    BY <1>1, <2>1, <2>2 DEF Typed, TypeOK
<1>3. CASE Tick
  <2>1. PICK late \in SUBSET {c \in Clusters : Renewed(c)} :
          /\ ttl' = [c \in Clusters |->
                      IF holder[c] = Nobody THEN 0
                      ELSE IF Renewed(c) /\ c \notin late THEN 2 ELSE ttl[c] - 1]
          /\ holder' = [c \in Clusters |-> IF ttl'[c] = 0 THEN Nobody ELSE holder[c]]
          /\ missed' = [c \in Clusters |->
                         IF c \notin late THEN 0 ELSE IF missed[c] = 2 THEN 2 ELSE missed[c] + 1]
          /\ UNCHANGED <<completed, entries, at, result, readCache, renewing, faults, origins>>
    BY <1>3, TickLeaves
  <2>2. \A c \in Clusters : Renewed(c)' <=> Renewed(c)
    BY <2>1 DEF Renewed
  <2> SUFFICES ASSUME NEW c \in Clusters, Renewed(c), holder'[c] # Nobody
               PROVE  ttl'[c] >= 2 - missed'[c]
    BY <2>2 DEF Enough, LeaseTime
  <2>3. holder[c] # Nobody /\ ttl[c] >= 2 - missed[c] /\ ttl[c] \in 1..3 /\ missed[c] \in 0..2
    BY <2>1 DEF Enough, Typed, TypeOK, Leased, LeaseTime
  <2>4. CASE c \in late
    <3>1. ttl'[c] = ttl[c] - 1 /\ missed'[c] = IF missed[c] = 2 THEN 2 ELSE missed[c] + 1
      BY <2>1, <2>3, <2>4
    <3>2. ttl'[c] # 0
      BY <2>1
    <3>3. CASE missed[c] = 2
      BY <2>3, <3>1, <3>2, <3>3
    <3>4. CASE missed[c] # 2
      BY <2>3, <3>1, <3>4
    <3> QED
      BY <3>3, <3>4
  <2>5. CASE c \notin late
    <3>1. ttl'[c] = 2 /\ missed'[c] = 0
      BY <2>1, <2>3, <2>5
    <3> QED
      BY <3>1
  <2> QED
    BY <2>4, <2>5
<1>4. ASSUME NEW r \in Runners, Crash(r) PROVE Enough'
  <2>1. UNCHANGED <<holder, ttl, missed>> /\ renewing' = [renewing EXCEPT ![r] = {}]
    BY <1>4 DEF Crash
  <2> QED
    BY <1>1, <2>1 DEF Typed, TypeOK
<1>5. CASE UNCHANGED vars
  BY <1>1, <1>5 DEF vars
<1> QED
  BY <1>2, <1>3, <1>4, <1>5, LocksKeepEnough DEF Next, AgentStep

\* An agent that executes an operation under its own lease keeps the lease until it has
\* announced the result, unless two periodic renewals in a row are late.
THEOREM LeasesLast == Spec => LeaseOutlastsWork
<1>1. Typed /\ Enough /\ [Next]_vars =>
        [\A r \in Runners : \A o \in renewing[r] :
           holder[Cluster[o]] = r =>
             holder'[Cluster[o]] = r \/ missed'[Cluster[o]] = 2]_vars
  <2> SUFFICES ASSUME Typed, Enough, Next, NEW r \in Runners, NEW o \in renewing[r],
                      holder[Cluster[o]] = r
               PROVE  holder'[Cluster[o]] = r \/ missed'[Cluster[o]] = 2
    OBVIOUS
  <2>1. o \in Operations /\ Cluster[o] \in Clusters /\ r # Nobody
    BY ClusterOf, CobuildAssumption DEF Typed, TypeOK
  <2>2. ASSUME NEW s \in Runners, NEW p \in Operations, AgentStep(s, p)
        PROVE  holder'[Cluster[o]] = r
    BY <2>1, <2>2 DEF AgentStep, Ask, Restore, SetLock, Sets, GetLock, RenewLock, Ends, Announce,
                      lease, Typed, TypeOK
  <2>3. CASE Tick
    <3>1. PICK late \in SUBSET {c \in Clusters : Renewed(c)} :
            /\ ttl' = [c \in Clusters |->
                        IF holder[c] = Nobody THEN 0
                        ELSE IF Renewed(c) /\ c \notin late THEN 2 ELSE ttl[c] - 1]
            /\ holder' = [c \in Clusters |-> IF ttl'[c] = 0 THEN Nobody ELSE holder[c]]
            /\ missed' = [c \in Clusters |->
                           IF c \notin late THEN 0 ELSE IF missed[c] = 2 THEN 2 ELSE missed[c] + 1]
      BY <2>3, TickLeaves
    <3>2. Renewed(Cluster[o]) /\ ttl[Cluster[o]] >= 2 - missed[Cluster[o]]
      BY <2>1 DEF Renewed, Enough, LeaseTime
    <3>3. ttl[Cluster[o]] \in 0..3 /\ missed[Cluster[o]] \in 0..2
      BY <2>1 DEF Typed, TypeOK, LeaseTime
    <3>4. CASE ttl'[Cluster[o]] # 0
      BY <2>1, <3>1, <3>4
    <3>5. CASE ttl'[Cluster[o]] = 0
      <4>1. Cluster[o] \in late /\ ttl[Cluster[o]] - 1 = 0
        BY <2>1, <3>1, <3>2, <3>5
      <4>2. missed[Cluster[o]] = 1 \/ missed[Cluster[o]] = 2
        BY <3>2, <3>3, <4>1
      <4> QED
        BY <2>1, <3>1, <4>1, <4>2
    <3> QED
      BY <3>4, <3>5
  <2>4. ASSUME NEW s \in Runners, Crash(s) PROVE holder'[Cluster[o]] = r
    BY <2>4 DEF Crash, lease
  <2> QED
    BY <2>2, <2>3, <2>4 DEF Next
<1> QED
  BY <1>1, InitEnough, NextKeepsEnough, AlwaysTyped, PTL DEF Spec, LeaseOutlastsWork

-----------------------------------------------------------------------------
(* One outcome of what is started once *)

\* An agent has a result, of its own or of others.
Knows(r, o) == at[r][o] \in {"announce", "warn", "done"}

\* A failure, and a success, that agents know of or may come to know of.
FailureSeen(o) ==
  \/ "Failure" \in entries[o]
  \/ completed[o] = "Failure"
  \/ \E r \in Runners : Knows(r, o) /\ result[r][o] = "Failure"

SuccessSeen(o) ==
  \/ "Success" \in entries[o]
  \/ completed[o] = "Success"
  \/ \E r \in Runners : Knows(r, o) /\ result[r][o] # "Failure"

\* The operation is being executed, or has failed before it was.
Executes(r, o) == at[r][o] \in {"run", "threw"}

OneOutcome(o) ==
  /\ ~(FailureSeen(o) /\ SuccessSeen(o))
  /\ \A r \in Runners : Executes(r, o) =>
       /\ ~FailureSeen(o) /\ ~SuccessSeen(o)
       /\ \A s \in Runners : Executes(s, o) => s = r
  /\ origins[o] = 0 =>
       /\ ~FailureSeen(o) /\ ~SuccessSeen(o)
       /\ \A r \in Runners : ~Executes(r, o)

OutcomeInv == \A o \in Operations : origins[o] <= 1 => OneOutcome(o)

LEMMA InitOutcome == Init => OutcomeInv
BY DEF Init, Beginning, OutcomeInv, OneOutcome, FailureSeen, SuccessSeen, Knows, Executes, None

\* A step that starts nothing and shows nothing new keeps the one outcome.
LEMMA NothingNew ==
  ASSUME NEW o \in Operations, OneOutcome(o), origins'[o] = origins[o],
         FailureSeen(o)' => FailureSeen(o), SuccessSeen(o)' => SuccessSeen(o),
         \A r \in Runners : Executes(r, o)' => Executes(r, o)
  PROVE  OneOutcome(o)'
BY DEF OneOutcome

\* What a step of an agent with an operation leaves of other agents and operations.
LEMMA Elsewhere ==
  ASSUME Typed, NEW r \in Runners, NEW o \in Operations, AgentStep(r, o)
  PROVE  /\ \A s \in Runners, p \in Operations :
              s # r \/ p # o => at'[s][p] = at[s][p] /\ result'[s][p] = result[s][p]
         /\ \A p \in Operations : p # o =>
              completed'[p] = completed[p] /\ entries'[p] = entries[p] /\ origins'[p] = origins[p]
<1> USE DEF Typed, TypeOK
<1>1. \E step \in Steps : Goes(r, o, step)
  BY DEF AgentStep, Ask, Restoring, Restore, Restored, NotRestored, SetLock, GetLock, RenewLock, Ends,
         Stores, Announce, Steps, Attempting
<1>2. UNCHANGED result \/ \E status \in AllResults : Reports(r, o, status)
  BY DEF AgentStep, Ask, Restoring, Restore, Restored, NotRestored, SetLock, GetLock, RenewLock, Ends,
         Stores, Announce, AllResults, Statuses, None
<1>3. UNCHANGED completed \/ completed' = [completed EXCEPT ![o] = result[r][o]]
  BY DEF AgentStep, Ask, Restore, SetLock, GetLock, RenewLock, Ends, Announce, shared
<1>4. UNCHANGED entries \/ \E some \in SUBSET Statuses : entries' = [entries EXCEPT ![o] = some]
  <2>1. CASE Ends(r, o)
    <3>1. \/ entries' = entries
          \/ entries' = [entries EXCEPT ![o] = entries[o] \cup {"Success"}]
          \/ entries' = [entries EXCEPT ![o] = entries[o] \cup {"Failure"}]
      BY <2>1 DEF Ends, Stores, CacheId
    <3>2. entries[o] \cup {"Success"} \in SUBSET Statuses /\ entries[o] \cup {"Failure"} \in SUBSET Statuses
      <4>1. entries[o] \in SUBSET Statuses
        OBVIOUS
      <4> QED
        BY <4>1 DEF Statuses
    <3> QED
      BY <3>1, <3>2
  <2> QED
    BY <2>1 DEF AgentStep, Ask, Restore, SetLock, GetLock, RenewLock, Announce, shared
<1>5. UNCHANGED origins \/ Originates(o)
  BY DEF AgentStep, Ask, Restore, SetLock, GetLock, RenewLock, Ends, Announce
<1>6. \A s \in Runners, p \in Operations : s # r \/ p # o => at'[s][p] = at[s][p]
  BY <1>1, GoesTo
<1>7. \A s \in Runners, p \in Operations : s # r \/ p # o => result'[s][p] = result[s][p]
  BY <1>2, ReportsTo
<1>8. \A p \in Operations : p # o => completed'[p] = completed[p]
  BY <1>3
<1>9. \A p \in Operations : p # o => entries'[p] = entries[p]
  BY <1>4
<1>10. \A p \in Operations : p # o => origins'[p] = origins[p]
  BY <1>5, OriginTypes
<1> QED
  BY <1>6, <1>7, <1>8, <1>9, <1>10

\* Before the operation is started, an agent learns what can be known and no more.
LEMMA LookingShowsNothing ==
  ASSUME Typed, NEW r \in Runners, NEW o \in Operations, OneOutcome(o), origins[o] <= 1,
         Ask(r, o) \/ SetLock(r, o) \/ (GetLock(r, o) /\ UNCHANGED origins) \/ Restore(r, o)
  PROVE  OneOutcome(o)'
<1>1. UNCHANGED <<completed, entries, origins>>
  BY DEF Ask, SetLock, GetLock, Restore, shared
<1>2. \A s \in Runners : s # r => at'[s][o] = at[s][o] /\ result'[s][o] = result[s][o]
  BY Elsewhere DEF AgentStep
<1>3. CASE Restore(r, o) /\ Restored(r, o)
  <2>1. at'[r][o] = "done" /\ result' = result
    BY <1>3, GoesTo DEF Restored, Steps, Typed
  <2>2. result[r][o] \in {"Success", "Failure", "FromCache"}
    BY <1>3 DEF Restore, Typed, Carried, Statuses
  <2>3. IF result[r][o] = "Failure" THEN "Failure" \in entries[o] ELSE "Success" \in entries[o]
    BY <1>3, <2>2 DEF Restored, Wanted, CacheId
  <2>4. FailureSeen(o)' => FailureSeen(o)
    BY <1>1, <1>2, <2>1, <2>3 DEF FailureSeen, Knows
  <2>5. SuccessSeen(o)' => SuccessSeen(o)
    BY <1>1, <1>2, <2>1, <2>3 DEF SuccessSeen, Knows
  <2> QED
    BY <1>1, <1>2, <2>1, <2>4, <2>5, NothingNew DEF Executes
<1>4. CASE ~(Restore(r, o) /\ Restored(r, o))
  <2>1. \E step \in {"restore", "asked", "set", "got", "ready"} : Goes(r, o, step)
    <3>1. CASE Ask(r, o)
      BY <3>1 DEF Ask, Restoring
    <3>2. CASE SetLock(r, o)
      BY <3>2 DEF SetLock
    <3>3. CASE GetLock(r, o) /\ UNCHANGED origins
      <4>1. ~Originates(o)
        BY <3>3, OriginTypes DEF Typed, TypeOK
      <4> QED
        BY <3>3, <4>1 DEF GetLock
    <3>4. CASE Restore(r, o)
      BY <1>4, <3>4 DEF Restore, NotRestored
    <3> QED
      BY <3>1, <3>2, <3>3, <3>4
  <2>2. ~Knows(r, o)' /\ ~Executes(r, o)'
    BY <2>1, GoesTo DEF Knows, Executes, Steps, Attempting, Typed
  <2>3. FailureSeen(o)' => FailureSeen(o)
    BY <1>1, <1>2, <2>2 DEF FailureSeen, Knows
  <2>4. SuccessSeen(o)' => SuccessSeen(o)
    BY <1>1, <1>2, <2>2 DEF SuccessSeen, Knows
  <2> QED
    BY <1>1, <1>2, <2>2, <2>3, <2>4, NothingNew DEF Executes
<1> QED
  BY <1>3, <1>4

\* What is started for the first time has no outcome yet.
LEMMA StartingShowsNothing ==
  ASSUME Typed, NEW r \in Runners, NEW o \in Operations, origins[o] <= 1 => OneOutcome(o),
         (GetLock(r, o) /\ Originates(o)) \/ RenewLock(r, o), origins'[o] <= 1
  PROVE  OneOutcome(o)'
<1>1. UNCHANGED <<completed, entries, result>>
  BY DEF GetLock, RenewLock, shared
<1>2. \A s \in Runners : s # r => at'[s][o] = at[s][o]
  BY Elsewhere DEF AgentStep
<1>3. origins[o] = 0 /\ origins'[o] = 1
  BY OriginTypes DEF RenewLock, Typed, TypeOK
<1>4. ~FailureSeen(o) /\ ~SuccessSeen(o) /\ \A s \in Runners : ~Executes(s, o)
  BY <1>3 DEF OneOutcome
<1>5. \E step \in {"got", "ready", "threw", "run"} : Goes(r, o, step)
  BY DEF GetLock, RenewLock
<1>6. ~Knows(r, o)'
  BY <1>5, GoesTo DEF Knows, Steps, Attempting, Typed
<1>7. ~FailureSeen(o)' /\ ~SuccessSeen(o)'
  BY <1>1, <1>2, <1>4, <1>6 DEF FailureSeen, SuccessSeen, Knows
<1>8. \A s \in Runners : Executes(s, o)' => s = r
  BY <1>2, <1>4 DEF Executes
<1> QED
  BY <1>3, <1>7, <1>8 DEF OneOutcome

\* The agent that has executed the operation shows the first and only outcome.
LEMMA EndingShowsOne ==
  ASSUME Typed, NEW r \in Runners, NEW o \in Operations, OneOutcome(o), Ends(r, o)
  PROVE  OneOutcome(o)'
<1>1. UNCHANGED <<completed, origins>>
  BY DEF Ends
<1>2. \A s \in Runners : s # r => at'[s][o] = at[s][o] /\ result'[s][o] = result[s][o]
  BY Elsewhere DEF AgentStep
<1>3. Executes(r, o)
  BY DEF Ends, Executes
<1>4. ~FailureSeen(o) /\ ~SuccessSeen(o) /\ origins[o] # 0
  BY <1>3 DEF OneOutcome
<1>5. \A s \in Runners : ~Knows(s, o)
  BY <1>4 DEF FailureSeen, SuccessSeen
<1>6. \A s \in Runners : s # r => ~Executes(s, o)
  BY <1>3 DEF OneOutcome
<1>7. PICK status \in Statuses :
        /\ Reports(r, o, status)
        /\ entries' = entries \/ entries' = [entries EXCEPT ![o] = @ \cup {status}]
  BY DEF Ends, Stores, CacheId, Statuses
<1>8. result'[r][o] = status
  BY <1>7, ReportsTo DEF AllResults, Typed
<1>9. entries'[o] = entries[o] \/ entries'[o] = entries[o] \cup {status}
  BY <1>7 DEF Typed, TypeOK
<1>10. \E step \in {"announce", "warn", "done"} : Goes(r, o, step)
  BY DEF Ends, Stores
<1>11. ~Executes(r, o)'
  BY <1>10, GoesTo DEF Executes, Steps, Typed
<1>12. \A s \in Runners : ~Executes(s, o)'
  BY <1>2, <1>6, <1>11 DEF Executes
<1>13. \A s \in Runners : Knows(s, o)' => s = r
  BY <1>2, <1>5 DEF Knows
<1>14. CASE status = "Failure"
  <2>1. ~SuccessSeen(o)'
    BY <1>1, <1>4, <1>8, <1>9, <1>13, <1>14 DEF SuccessSeen
  <2> QED
    BY <1>1, <1>4, <1>12, <2>1 DEF OneOutcome
<1>15. CASE status = "Success"
  <2>1. ~FailureSeen(o)'
    BY <1>1, <1>4, <1>8, <1>9, <1>13, <1>15 DEF FailureSeen
  <2> QED
    BY <1>1, <1>4, <1>12, <2>1 DEF OneOutcome
<1> QED
  BY <1>14, <1>15 DEF Statuses

\* What is announced is known already.
LEMMA AnnouncingShowsNothing ==
  ASSUME Typed, NEW r \in Runners, NEW o \in Operations, OneOutcome(o), Announce(r, o)
  PROVE  OneOutcome(o)'
<1>1. UNCHANGED <<entries, origins>> /\ completed'[o] = result[r][o]
  BY DEF Announce, Typed, TypeOK
<1>2. \A s \in Runners : s # r => at'[s][o] = at[s][o] /\ result'[s][o] = result[s][o]
  BY Elsewhere DEF AgentStep
<1>3. Knows(r, o) /\ result[r][o] \in {"Success", "Failure"}
  BY DEF Announce, Knows, Typed, Carried, Statuses
<1>4. at'[r][o] = "done"
  BY GoesTo DEF Announce, Steps, Typed
<1>5. result'[r][o] = "Failure" <=> result[r][o] = "Failure"
  <2>1. CASE UNCHANGED result
    BY <2>1
  <2>2. CASE Reports(r, o, "SuccessWithWarning") /\ result[r][o] = "Success"
    BY <2>2, ReportsTo DEF AllResults, Typed
  <2> QED
    BY <2>1, <2>2 DEF Announce
<1>6. FailureSeen(o)' => FailureSeen(o)
  BY <1>1, <1>2, <1>3, <1>5 DEF FailureSeen, Knows
<1>7. SuccessSeen(o)' => SuccessSeen(o)
  BY <1>1, <1>2, <1>3, <1>5 DEF SuccessSeen, Knows
<1> QED
  BY <1>1, <1>2, <1>4, <1>6, <1>7, NothingNew DEF Executes

\* The agents that go on keep what they know of; one that dies knows nothing more.
LEMMA CrashShowsNothing ==
  ASSUME Typed, NEW r \in Runners, Crash(r), NEW o \in Operations, OneOutcome(o)
  PROVE  OneOutcome(o)'
<1>1. UNCHANGED <<completed, entries, origins>>
  BY DEF Crash, shared
<1>2. \A s \in Runners : s # r => at'[s] = at[s] /\ result'[s] = result[s]
  BY DEF Crash, Typed, TypeOK
<1>3. at'[r][o] \in {"ready", "gone"}
  BY DEF Crash, Beginning, Typed, TypeOK
<1>4. FailureSeen(o)' => FailureSeen(o)
  BY <1>1, <1>2, <1>3 DEF FailureSeen, Knows
<1>5. SuccessSeen(o)' => SuccessSeen(o)
  BY <1>1, <1>2, <1>3 DEF SuccessSeen, Knows
<1> QED
  BY <1>1, <1>2, <1>3, <1>4, <1>5, NothingNew DEF Executes

LEMMA NextKeepsOutcome == Typed /\ OutcomeInv /\ [Next]_vars => OutcomeInv'
<1> SUFFICES ASSUME Typed, OutcomeInv, [Next]_vars PROVE OutcomeInv'
  OBVIOUS
<1>1. ASSUME NEW r \in Runners, NEW o \in Operations, AgentStep(r, o), NEW p \in Operations,
             origins'[p] <= 1
      PROVE  OneOutcome(p)'
  <2>1. CASE p # o
    <3>1. /\ \A s \in Runners : at'[s][p] = at[s][p] /\ result'[s][p] = result[s][p]
          /\ completed'[p] = completed[p] /\ entries'[p] = entries[p] /\ origins'[p] = origins[p]
      BY <1>1, <2>1, Elsewhere
    <3>2. /\ FailureSeen(p)' <=> FailureSeen(p)
          /\ SuccessSeen(p)' <=> SuccessSeen(p)
          /\ \A s \in Runners : Executes(s, p)' <=> Executes(s, p)
      BY <3>1 DEF FailureSeen, SuccessSeen, Knows, Executes
    <3> QED
      BY <1>1, <3>1, <3>2, NothingNew DEF OutcomeInv
  <2>2. CASE p = o
    <3>1. CASE UNCHANGED origins
      <4>1. OneOutcome(o)
        BY <1>1, <2>2, <3>1 DEF OutcomeInv
      <4>2. CASE Ends(r, o)
        BY <2>2, <4>1, <4>2, EndingShowsOne
      <4>3. CASE Announce(r, o)
        BY <2>2, <4>1, <4>3, AnnouncingShowsNothing
      <4>4. CASE RenewLock(r, o)
        BY <1>1, <2>2, <4>4, StartingShowsNothing DEF OutcomeInv
      <4> QED
        BY <1>1, <2>2, <3>1, <4>1, <4>2, <4>3, <4>4, LookingShowsNothing DEF AgentStep
    <3>2. CASE ~UNCHANGED origins
      <4>1. (GetLock(r, o) /\ Originates(o)) \/ RenewLock(r, o)
        BY <1>1, <3>2 DEF AgentStep, Ask, Restore, SetLock, GetLock, Ends, Announce
      <4> QED
        BY <1>1, <2>2, <4>1, StartingShowsNothing DEF OutcomeInv
    <3> QED
      BY <3>1, <3>2
  <2> QED
    BY <2>1, <2>2
<1>2. CASE Tick \/ UNCHANGED vars
  <2>1. UNCHANGED <<completed, entries, at, result, origins>>
    BY <1>2 DEF Tick, vars, shared, agent
  <2> QED
    BY <2>1 DEF OutcomeInv, OneOutcome, FailureSeen, SuccessSeen, Knows, Executes
<1>3. ASSUME NEW r \in Runners, Crash(r) PROVE OutcomeInv'
  <2>1. UNCHANGED origins
    BY <1>3 DEF Crash
  <2> QED
    BY <1>3, <2>1, CrashShowsNothing DEF OutcomeInv
<1> QED
  BY <1>1, <1>2, <1>3 DEF Next, OutcomeInv

\* However agents die, lose leases or fail to write entries: if an operation was started
\* only once, everybody who is done with it agrees whether it has failed.
THEOREM OutcomesAreOne == Spec => []OutcomesAgree
<1>1. Typed /\ OutcomeInv => OutcomesAgree
  BY DEF Typed, TypeOK, OutcomeInv, OneOutcome, FailureSeen, SuccessSeen, Knows, OutcomesAgree
<1> QED
  BY <1>1, InitOutcome, NextKeepsOutcome, AlwaysTyped, PTL DEF Spec
=============================================================================
