----------------------- MODULE RequestSchedulerProofs -----------------------
(***************************************************************************)
(* Theorems about RequestScheduler, for every finite set of requests,      *)
(* every assignment of classes and every depth of reentrant callbacks.     *)
(* IndInv is about leases and queue; AttentionInv about what the loops in  *)
(* progress will still do for those in the queue. Last, the scheduler      *)
(* implements FairSharedLock.                                              *)
(***************************************************************************)
EXTENDS RequestScheduler, FiniteSetTheorems, SequenceTheorems, TLAPS

\* No request is twice in the queue.
Distinct(q) == \A i, j \in 1..Len(q) : q[i] = q[j] => i = j

\* The queue q has none of the requests that hold a lease.
Apart(q, held) == \A i \in 1..Len(q) : q[i] \notin held

\* count and current are right for the requests that hold a lease, and an
\* exclusive request is alone.
Accounted(count, current, held) ==
  /\ held \subseteq Requests
  /\ IsFiniteSet(held)
  /\ count = Cardinality(held)
  /\ \A r \in held : Class[r] = current
  /\ current = "Exclusive" => count <= 1

IndInv ==
  /\ TypeOK
  /\ Distinct(queue)
  /\ Apart(queue, leases)
  /\ Accounted(active, activeClass, leases)

-----------------------------------------------------------------------------
(* What the operators do *)

\* The requests that leave the head of a queue without repetitions are as many
\* as are removed.
LEMMA CountHeads ==
  ASSUME NEW q \in Seq(Requests), Distinct(q), NEW n \in 0..Len(q)
  PROVE  /\ IsFiniteSet({q[i] : i \in 1..n})
         /\ Cardinality({q[i] : i \in 1..n}) = n
<1> DEFINE heads == {q[i] : i \in 1..n}
           f == [i \in 1..n |-> q[i]]
<1>1. /\ n \in Nat /\ n <= Len(q)
      /\ IsFiniteSet(1..n) /\ Cardinality(1..n) = n
  BY FS_Interval
<1>2. ExistsBijection(1..n, heads)
  <2>1. f \in [1..n -> heads]
    OBVIOUS
  <2>2. \A i, j \in 1..n : f[i] = f[j] => i = j
    BY <1>1 DEF Distinct
  <2>3. \A x \in heads : \E i \in 1..n : f[i] = x
    OBVIOUS
  <2>4. f \in Bijection(1..n, heads)
    BY <2>1, <2>2, <2>3 DEF Bijection, Injection, Surjection, IsInjective
  <2> QED
    BY <2>4 DEF ExistsBijection
<1> HIDE DEF heads
<1> QED
  BY <1>1, <1>2, FS_Bijection DEF heads

\* Admitting the head of the queue one by one keeps the account.
LEMMA TakesKeepsAccount ==
  ASSUME SchedulerAssumption,
         NEW q \in Seq(Requests), Distinct(q),
         NEW held, Apart(q, held),
         NEW count \in Nat, NEW current \in ExclusivityClass \cup {NoClass},
         Accounted(count, current, held),
         NEW n \in 0..Len(q), Takes(n, q, count, current)
  PROVE  Accounted(count + n, ClassAfter(n, q, current), held \cup {q[i] : i \in 1..n})
<1> DEFINE heads == {q[i] : i \in 1..n}
<1>1. IsFiniteSet(heads) /\ Cardinality(heads) = n
  BY CountHeads
<1>2. \A i \in 1..Len(q) : q[i] \in Requests
  OBVIOUS
<1>3. heads \subseteq Requests /\ held \cap heads = {}
  BY <1>2 DEF Apart
<1>4. IsFiniteSet(held \cup heads) /\ Cardinality(held \cup heads) = count + n
  <2> HIDE DEF heads
  <2>1. Cardinality(held \cap heads) = 0
    BY <1>3, FS_EmptySet
  <2>2. IsFiniteSet(held) /\ Cardinality(held) = count
    BY DEF Accounted
  <2>3. IsFiniteSet(held \cup heads)
    BY <1>1, <2>2, FS_Union, Zenon
  <2>4. Cardinality(held \cup heads) =
          Cardinality(held) + Cardinality(heads) - Cardinality(held \cap heads)
    BY <1>1, <2>2, FS_Union, Zenon
  <2>5. Cardinality(held \cup heads) = count + n - 0
    BY <1>1, <2>1, <2>2, <2>4, Zenon
  <2> QED
    BY <2>3, <2>5
<1>5. CASE n = 0
  <2>1. heads = {}
    BY <1>5
  <2>2. ClassAfter(n, q, current) = current /\ count + n = count
    BY <1>5 DEF ClassAfter
  <2> HIDE DEF heads
  <2>3. held \cup heads = held
    BY <2>1
  <2>4. Accounted(count + n, ClassAfter(n, q, current), held \cup heads)
    BY <2>2, <2>3
  <2> QED
    BY <2>4 DEF heads
<1>6. CASE n > 0
  <2>1. \A i \in 1..n : CanAdmit(Class[q[i]], count + i - 1, ClassAfter(i - 1, q, current))
    BY DEF Takes, CanAdmitNth
  <2>2. \A i \in 2..n : Class[q[i]] # "Exclusive" /\ Class[q[i]] = Class[q[1]]
    <3> SUFFICES ASSUME NEW i \in 2..n
                 PROVE  Class[q[i]] # "Exclusive" /\ Class[q[i]] = Class[q[1]]
      OBVIOUS
    <3>1. i \in 1..n /\ i - 1 # 0 /\ count + i - 1 # 0
      OBVIOUS
    <3> QED
      BY <2>1, <3>1 DEF CanAdmit, ClassAfter
  <2>3. count = 0 \/ (Class[q[1]] # "Exclusive" /\ Class[q[1]] = current)
    BY <1>6, <2>1 DEF CanAdmit, ClassAfter
  <2>4. \A r \in heads : Class[r] = Class[q[1]]
    BY <2>2
  <2>5. count = 0 => held = {}
    BY FS_EmptySet DEF Accounted
  <2>6. \A r \in held \cup heads : Class[r] = Class[q[1]]
    BY <2>3, <2>4, <2>5 DEF Accounted
  <2>7. Class[q[1]] = "Exclusive" => count + n <= 1
    BY <1>6, <2>2, <2>3
  <2>8. ClassAfter(n, q, current) = Class[q[1]]
    BY <1>6 DEF ClassAfter
  <2>9. held \cup heads \subseteq Requests
    BY <1>3 DEF Accounted
  <2> HIDE DEF heads
  <2>10. Accounted(count + n, ClassAfter(n, q, current), held \cup heads)
    BY <1>4, <2>6, <2>7, <2>8, <2>9 DEF Accounted
  <2> QED
    BY <2>10 DEF heads
<1> QED
  BY <1>5, <1>6

\* _drainQueue keeps the invariant.
LEMMA DrainKeeps ==
  ASSUME SchedulerAssumption,
         NEW q \in Seq(Requests), Distinct(q),
         NEW held, Apart(q, held),
         NEW count \in Nat, NEW current \in ExclusivityClass \cup {NoClass},
         Accounted(count, current, held),
         NEW below \in Seq(Loop),
         Drain(q, count, current, held, below)
  PROVE  /\ queue' \in Seq(Requests) /\ Distinct(queue)' /\ Apart(queue, leases)'
         /\ active' \in Nat /\ activeClass' \in ExclusivityClass \cup {NoClass}
         /\ Accounted(active, activeClass, leases)'
         /\ loops' \in Seq(Loop)
<1> PICK n \in 0..Len(q) :
      /\ Takes(n, q, count, current)
      /\ queue' = SubSeq(q, n + 1, Len(q))
      /\ active' = count + n
      /\ activeClass' = ClassAfter(n, q, current)
      /\ leases' = held \cup {q[i] : i \in 1..n}
      /\ loops' = IF n = 0 THEN below ELSE Append(below, [index |-> 0, drains |-> FALSE])
  BY DEF Drain
<1>1. Accounted(active, activeClass, leases)'
  <2>1. Accounted(active', activeClass', leases')
    BY TakesKeepsAccount
  <2> QED
    BY <2>1 DEF Accounted
<1>2. /\ queue' \in Seq(Requests)
      /\ Len(queue') = Len(q) - n
      /\ \A i \in 1..Len(queue') : queue'[i] = q[n + i]
  OBVIOUS
<1>3. Distinct(queue)'
  <2> SUFFICES ASSUME NEW i \in 1..Len(queue'), NEW j \in 1..Len(queue'),
                      queue'[i] = queue'[j]
               PROVE  i = j
    BY DEF Distinct
  <2>1. n + i \in 1..Len(q) /\ n + j \in 1..Len(q) /\ q[n + i] = q[n + j]
    BY <1>2
  <2> QED
    BY <2>1 DEF Distinct
<1>4. Apart(queue, leases)'
  <2> SUFFICES ASSUME NEW i \in 1..Len(queue'), queue'[i] \in leases'
               PROVE  FALSE
    BY DEF Apart
  <2>1. n + i \in 1..Len(q) /\ queue'[i] = q[n + i]
    BY <1>2
  <2>2. q[n + i] \notin held
    BY <2>1 DEF Apart
  <2>3. PICK j \in 1..n : q[n + i] = q[j]
    BY <2>1, <2>2
  <2>4. j \in 1..Len(q) /\ n + i # j
    OBVIOUS
  <2> QED
    BY <2>1, <2>3, <2>4 DEF Distinct
<1>5. active' \in Nat
  OBVIOUS
<1>6. activeClass' \in ExclusivityClass \cup {NoClass}
  <2>1. n # 0 => q[1] \in Requests
    OBVIOUS
  <2> QED
    BY <2>1 DEF ClassAfter, SchedulerAssumption
<1>7. loops' \in Seq(Loop)
  <2>1. [index |-> 0, drains |-> FALSE] \in Loop
    BY DEF Loop
  <2> QED
    BY <2>1
<1> QED
  BY <1>1, <1>2, <1>3, <1>4, <1>5, <1>6, <1>7

-----------------------------------------------------------------------------
(* Every step keeps the invariant *)

LEMMA InitIndInv == Init => IndInv
<1> SUFFICES ASSUME Init PROVE IndInv
  OBVIOUS
<1>1. MaxReentrant \in Nat
  BY SchedulerAssumption DEF SchedulerAssumption
<1>2. TypeOK
  BY <1>1 DEF Init, TypeOK, ExclusivityClass, NoClass
<1>3. Distinct(queue) /\ Apart(queue, leases)
  BY DEF Init, Distinct, Apart
<1>4. Accounted(active, activeClass, leases)
  BY FS_EmptySet DEF Init, Accounted, NoClass
<1> QED
  BY <1>2, <1>3, <1>4 DEF IndInv

LEMMA CalledIsBounded ==
  ASSUME TypeOK, Called
  PROVE  reentrant' \in 0..MaxReentrant
BY SchedulerAssumption DEF TypeOK, Called, SchedulerAssumption

LEMMA AcquireKeeps ==
  ASSUME IndInv, NEW r \in Requests, Acquire(r)
  PROVE  IndInv'
<1>1. /\ queue \in Seq(Requests) /\ active \in Nat /\ leases \subseteq Requests
      /\ activeClass \in ExclusivityClass \cup {NoClass} /\ loops \in Seq(Loop)
  BY DEF IndInv, TypeOK
<1>2. r \notin leases /\ \A i \in 1..Len(queue) : queue[i] # r
  BY DEF Acquire, Queued
<1>3. /\ told' \in [Requests -> Nat]
      /\ reentrant' \in 0..MaxReentrant
  BY CalledIsBounded DEF IndInv, TypeOK, Acquire
<1>4. CASE AdmittedAtOnce(r)
  <2>1. /\ queue' = queue /\ loops' = loops /\ queue = <<>>
        /\ active' = active + 1
        /\ activeClass' = Class[r]
        /\ leases' = leases \cup {r}
        /\ CanAdmit(Class[r], active, activeClass)
    BY <1>4 DEF Acquire, AdmittedAtOnce
  <2>2. TypeOK'
    BY <1>1, <1>3, <2>1, SchedulerAssumption DEF TypeOK, SchedulerAssumption
  <2>3. Distinct(queue)' /\ Apart(queue, leases)'
    BY <2>1 DEF Distinct, Apart
  <2>4. IsFiniteSet(leases') /\ Cardinality(leases') = active'
    BY <1>2, <2>1, FS_AddElement DEF IndInv, Accounted
  <2>5. active = 0 => leases = {}
    BY FS_EmptySet DEF IndInv, Accounted
  <2>6. Accounted(active, activeClass, leases)'
    BY <1>1, <2>1, <2>4, <2>5 DEF IndInv, Accounted, CanAdmit
  <2> QED
    BY <2>2, <2>3, <2>6 DEF IndInv
<1>5. CASE ~AdmittedAtOnce(r)
  <2>1. /\ queue' = Append(queue, r)
        /\ loops' = Append(loops, [index |-> 0, drains |-> TRUE])
        /\ active' = active /\ activeClass' = activeClass /\ leases' = leases
    BY <1>5 DEF Acquire
  <2>2. [index |-> 0, drains |-> TRUE] \in Loop
    BY DEF Loop
  <2>3. TypeOK'
    BY <1>1, <1>3, <2>1, <2>2 DEF TypeOK
  <2>4. /\ Len(queue') = Len(queue) + 1
        /\ \A i \in 1..Len(queue) : queue'[i] = queue[i]
        /\ queue'[Len(queue) + 1] = r
    BY <1>1, <2>1
  <2>5. Distinct(queue)'
    BY <1>1, <1>2, <2>4 DEF IndInv, Distinct
  <2>6. Apart(queue, leases)'
    BY <1>1, <1>2, <2>1, <2>4 DEF IndInv, Apart
  <2>7. Accounted(active, activeClass, leases)'
    BY <2>1 DEF IndInv, Accounted
  <2> QED
    BY <2>3, <2>5, <2>6, <2>7 DEF IndInv
<1> QED
  BY <1>4, <1>5

\* Taking a request out of the account.
LEMMA ReleaseKeepsAccount ==
  ASSUME IndInv, NEW r \in leases
  PROVE  /\ active - 1 \in Nat
         /\ Accounted(active - 1, IF active = 1 THEN NoClass ELSE activeClass, leases \ {r})
<1>1. /\ IsFiniteSet(leases) /\ active = Cardinality(leases) /\ active \in Nat
      /\ leases \subseteq Requests
      /\ \A s \in leases : Class[s] = activeClass
      /\ activeClass = "Exclusive" => active <= 1
  BY DEF IndInv, Accounted, TypeOK
<1>2. active # 0
  BY <1>1, FS_EmptySet
<1>3. IsFiniteSet(leases \ {r}) /\ Cardinality(leases \ {r}) = active - 1
  BY <1>1, FS_RemoveElement
<1>4. active = 1 => leases \ {r} = {}
  BY <1>3, FS_EmptySet
<1> QED
  BY <1>1, <1>2, <1>3, <1>4 DEF Accounted, NoClass

LEMMA ReleaseKeeps ==
  ASSUME IndInv, NEW r \in Requests, Release(r)
  PROVE  IndInv'
<1> DEFINE current == IF active = 1 THEN NoClass ELSE activeClass
<1>1. /\ queue \in Seq(Requests) /\ loops \in Seq(Loop)
      /\ current \in ExclusivityClass \cup {NoClass}
      /\ Distinct(queue) /\ Apart(queue, leases \ {r})
  BY DEF IndInv, TypeOK, Apart
<1>2. r \in leases
  BY DEF Release
<1>3. active - 1 \in Nat /\ Accounted(active - 1, current, leases \ {r})
  BY <1>2, ReleaseKeepsAccount
<1>4. Drain(queue, active - 1, current, leases \ {r}, loops)
  BY DEF Release
<1> HIDE DEF current
<1>5. /\ queue' \in Seq(Requests) /\ Distinct(queue)' /\ Apart(queue, leases)'
      /\ active' \in Nat /\ activeClass' \in ExclusivityClass \cup {NoClass}
      /\ Accounted(active, activeClass, leases)'
      /\ loops' \in Seq(Loop)
  BY <1>1, <1>3, <1>4, DrainKeeps, SchedulerAssumption
<1>6. /\ told' \in [Requests -> Nat]
      /\ reentrant' \in 0..MaxReentrant
  BY CalledIsBounded DEF IndInv, TypeOK, Release
<1>7. leases' \subseteq Requests
  BY <1>5 DEF Accounted
<1> QED
  BY <1>5, <1>6, <1>7 DEF IndInv, TypeOK

LEMMA RejectKeeps ==
  ASSUME IndInv, NEW r \in Requests, RejectQueuedRequest(r)
  PROVE  IndInv'
<1>1. queue \in Seq(Requests) /\ loops \in Seq(Loop)
  BY DEF IndInv, TypeOK
<1>2. PICK k \in 1..Len(queue) : queue' = RemoveAt(queue, k)
  BY DEF RejectQueuedRequest
<1>3. /\ loops' = Append(loops, [index |-> 0, drains |-> TRUE])
      /\ active' = active /\ activeClass' = activeClass
      /\ leases' = leases /\ told' = told
      /\ Called
  BY DEF RejectQueuedRequest, RejectionLoop
<1>4. /\ queue' \in Seq(Requests)
      /\ Len(queue') = Len(queue) - 1
      /\ \A i \in 1..(k - 1) : queue'[i] = queue[i]
      /\ \A i \in k..(Len(queue) - 1) : queue'[i] = queue[i + 1]
  <2> DEFINE front == SubSeq(queue, 1, k - 1)
             back == SubSeq(queue, k + 1, Len(queue))
  <2>1. /\ front \in Seq(Requests) /\ Len(front) = k - 1
        /\ \A i \in 1..(k - 1) : front[i] = queue[i]
    BY <1>1
  <2>2. /\ back \in Seq(Requests) /\ Len(back) = Len(queue) - k
        /\ \A i \in 1..(Len(queue) - k) : back[i] = queue[k + i]
    BY <1>1
  <2>3. queue' = front \o back
    BY <1>2 DEF RemoveAt
  <2> HIDE DEF front, back
  <2>4. queue' \in Seq(Requests) /\ Len(queue') = Len(queue) - 1
    BY <1>1, <2>1, <2>2, <2>3
  <2>5. \A i \in 1..(k - 1) : queue'[i] = queue[i]
    BY <1>1, <2>1, <2>2, <2>3
  <2>6. \A i \in k..(Len(queue) - 1) : queue'[i] = queue[i + 1]
    <3> TAKE i \in k..(Len(queue) - 1)
    <3>1. queue'[i] = back[i - (k - 1)] /\ i - (k - 1) \in 1..(Len(queue) - k)
      BY <1>1, <2>1, <2>2, <2>3
    <3> QED
      BY <1>1, <2>2, <3>1
  <2> QED
    BY <2>4, <2>5, <2>6
<1>5. [index |-> 0, drains |-> TRUE] \in Loop
  BY DEF Loop
<1>6. loops' \in Seq(Loop)
  BY <1>1, <1>3, <1>5
<1>7. TypeOK'
  BY <1>3, <1>4, <1>6, CalledIsBounded DEF IndInv, TypeOK
<1>8. Distinct(queue)'
  <2> DEFINE old(i) == IF i < k THEN i ELSE i + 1
  <2>1. \A i \in 1..Len(queue') : old(i) \in 1..Len(queue) /\ queue'[i] = queue[old(i)]
    BY <1>1, <1>4
  <2>2. \A i, j \in 1..Len(queue') : old(i) = old(j) => i = j
    BY <1>1, <1>4
  <2> HIDE DEF old
  <2> QED
    BY <2>1, <2>2 DEF IndInv, Distinct
<1>9. Apart(queue, leases)'
  <2>1. \A i \in 1..Len(queue') : \E j \in 1..Len(queue) : queue'[i] = queue[j]
    <3> TAKE i \in 1..Len(queue')
    <3>1. CASE i < k
      BY <1>1, <1>4, <3>1
    <3>2. CASE i >= k
      <4>1. i \in k..(Len(queue) - 1) /\ i + 1 \in 1..Len(queue)
        BY <1>1, <1>4, <3>2
      <4> QED BY <1>4, <4>1
    <3> QED BY <1>1, <1>4, <3>1, <3>2
  <2> QED BY <1>3, <2>1 DEF IndInv, Apart
<1>10. Accounted(active, activeClass, leases)'
  BY <1>3 DEF IndInv, Accounted
<1> QED
  BY <1>7, <1>8, <1>9, <1>10 DEF IndInv

LEMMA NotifyPositionKeeps ==
  ASSUME IndInv, NotifyPosition
  PROVE  IndInv'
<1>1. /\ UNCHANGED <<queue, active, activeClass, leases, reentrant>>
      /\ loops # <<>>
      /\ Top.index < Len(queue)
      /\ told' = [told EXCEPT ![queue[Top.index + 1]] = Top.index + 1]
      /\ loops' = [loops EXCEPT ![Len(loops)].index = @ + 1]
  BY DEF NotifyPosition, admission
<1>2. loops \in Seq(Loop) /\ Len(loops) \in 1..Len(loops)
  BY <1>1 DEF IndInv, TypeOK
<1>3. loops[Len(loops)] \in Loop
  BY <1>2
<1>4. Top.index \in Nat
  BY <1>3 DEF Top, Loop
<1>5. told' \in [Requests -> Nat]
  BY <1>1, <1>4 DEF IndInv, TypeOK
<1>6. loops' \in Seq(Loop)
  <2> DEFINE next == [loops[Len(loops)] EXCEPT !.index = @ + 1]
  <2>1. next \in Loop
    <3> DEFINE top == loops[Len(loops)]
    <3>1. top.index + 1 \in Nat
      BY <1>4 DEF Top
    <3>2. top = [index |-> top.index, drains |-> top.drains] /\ top.drains \in BOOLEAN
      BY <1>3, Zenon DEF Loop
    <3> HIDE DEF top
    <3>3. [top EXCEPT !.index = top.index + 1] =
            [index |-> top.index + 1, drains |-> top.drains]
      BY <3>2
    <3>4. [index |-> top.index + 1, drains |-> top.drains] \in Loop
      BY <3>1, <3>2, Zenon DEF Loop
    <3> QED
      BY <3>3, <3>4 DEF top
  <2>2. loops' = [loops EXCEPT ![Len(loops)] = next]
    BY <1>1, Zenon
  <2> HIDE DEF next
  <2> QED
    BY <1>2, <2>1, <2>2
<1>7. TypeOK'
  BY <1>1, <1>5, <1>6 DEF IndInv, TypeOK
<1> QED
  BY <1>1, <1>7 DEF IndInv, Distinct, Apart, Accounted

LEMMA NotificationEndsKeeps ==
  ASSUME IndInv, NotificationEnds
  PROVE  IndInv'
<1>1. /\ queue \in Seq(Requests) /\ active \in Nat
      /\ activeClass \in ExclusivityClass \cup {NoClass}
      /\ loops \in Seq(Loop) /\ loops # <<>>
      /\ reentrant' = reentrant /\ told' = told
  BY DEF IndInv, TypeOK, NotificationEnds
<1>2. Below \in Seq(Loop)
  BY <1>1 DEF Below
<1>3. CASE Drain(queue, active, activeClass, leases, Below)
  <2>1. /\ queue' \in Seq(Requests) /\ Distinct(queue)' /\ Apart(queue, leases)'
        /\ active' \in Nat /\ activeClass' \in ExclusivityClass \cup {NoClass}
        /\ Accounted(active, activeClass, leases)'
        /\ loops' \in Seq(Loop)
    BY <1>1, <1>2, <1>3, DrainKeeps, SchedulerAssumption DEF IndInv
  <2>2. leases' \subseteq Requests
    BY <2>1 DEF Accounted
  <2> QED
    BY <1>1, <1>3, <2>1, <2>2 DEF IndInv, TypeOK
<1>4. CASE loops' = Below /\ UNCHANGED admission
  <2>1. TypeOK'
    BY <1>1, <1>2, <1>4 DEF IndInv, TypeOK, admission
  <2> QED
    BY <1>4, <2>1 DEF IndInv, Distinct, Apart, Accounted, admission
<1> QED
  BY <1>3, <1>4 DEF NotificationEnds

LEMMA NextKeeps == IndInv /\ [Next]_vars => IndInv'
<1> SUFFICES ASSUME IndInv, [Next]_vars PROVE IndInv'
  OBVIOUS
<1>1. CASE NotificationStep
  BY <1>1, NotifyPositionKeeps, NotificationEndsKeeps DEF NotificationStep
<1>2. ASSUME NEW r \in Requests, Acquire(r) PROVE IndInv'
  BY <1>2, AcquireKeeps
<1>3. ASSUME NEW r \in Requests, Release(r) PROVE IndInv'
  BY <1>3, ReleaseKeeps
<1>4. ASSUME NEW r \in Requests, RejectQueuedRequest(r) PROVE IndInv'
  BY <1>4, RejectKeeps
<1>5. CASE UNCHANGED vars
  BY <1>5 DEF vars, admission, IndInv, TypeOK, Distinct, Apart, Accounted
<1> QED
  BY <1>1, <1>2, <1>3, <1>4, <1>5 DEF Next

THEOREM Inductive == Spec => []IndInv
<1>1. Init => IndInv
  BY InitIndInv
<1>2. IndInv /\ [Next]_vars => IndInv'
  BY NextKeeps
<1> QED
  BY <1>1, <1>2, PTL DEF Spec

-----------------------------------------------------------------------------
(* No step lets a request overtake another *)

LEMMA DrainInOrder ==
  ASSUME queue \in Seq(Requests), NEW held, held \subseteq leases,
         NEW count, NEW current, NEW below,
         Drain(queue, count, current, held, below)
  PROVE  AdmittedInOrder
<1> PICK n \in 0..Len(queue) :
      /\ queue' = SubSeq(queue, n + 1, Len(queue))
      /\ leases' = held \cup {queue[i] : i \in 1..n}
  BY DEF Drain
<1> SUFFICES ASSUME NEW r \in leases' \ leases, NEW q \in Queued', q \in Queued
             PROVE  \E i, j \in 1..Len(queue) : queue[i] = r /\ queue[j] = q /\ i < j
  BY DEF AdmittedInOrder
<1>1. PICK i \in 1..n : queue[i] = r
  OBVIOUS
<1>2. PICK k \in 1..Len(queue') : queue'[k] = q
  BY DEF Queued
<1>3. k + n \in 1..Len(queue) /\ queue'[k] = queue[k + n]
  OBVIOUS
<1>4. i \in 1..Len(queue) /\ i < k + n
  BY <1>3
<1> QED
  BY <1>1, <1>2, <1>3, <1>4

LEMMA NextInOrder == IndInv /\ [Next]_vars => AdmittedInOrder \/ UNCHANGED vars
<1> SUFFICES ASSUME IndInv, Next PROVE AdmittedInOrder
  OBVIOUS
<1>1. queue \in Seq(Requests)
  BY DEF IndInv, TypeOK
<1>2. ASSUME leases' = leases PROVE AdmittedInOrder
  BY <1>2 DEF AdmittedInOrder
<1>3. CASE NotificationStep
  <2>1. CASE leases' = leases
    BY <1>2, <2>1
  <2>2. CASE Drain(queue, active, activeClass, leases, Below)
    BY <1>1, <2>2, DrainInOrder
  <2> QED
    BY <1>3, <2>1, <2>2
    DEF NotificationStep, NotifyPosition, NotificationEnds, admission
<1>4. ASSUME NEW r \in Requests, Acquire(r) PROVE AdmittedInOrder
  <2>1. CASE leases' = leases
    BY <1>2, <2>1
  <2>2. CASE AdmittedAtOnce(r) /\ queue' = queue
    <3>1. Queued' = {}
      BY <2>2 DEF AdmittedAtOnce, Queued
    <3> QED
      BY <3>1 DEF AdmittedInOrder
  <2> QED
    BY <1>4, <2>1, <2>2 DEF Acquire
<1>5. ASSUME NEW r \in Requests, Release(r) PROVE AdmittedInOrder
  BY <1>1, <1>5, DrainInOrder DEF Release
<1>6. ASSUME NEW r \in Requests, RejectQueuedRequest(r) PROVE AdmittedInOrder
  BY <1>2, <1>6 DEF RejectQueuedRequest
<1> QED
  BY <1>3, <1>4, <1>5, <1>6 DEF Next

-----------------------------------------------------------------------------
(* What the callers of the scheduler are left with *)

\* Everybody the topmost loop has come past, or everybody if none runs, knows its
\* position: a change of the queue starts a loop of its own on top of the others.
ToldSoFar ==
  \A i \in 1..Len(queue) :
    told[queue[i]] = i \/ (loops # <<>> /\ Top.index < i)

DrainPending == \E i \in 1..Len(loops) : loops[i].drains

\* If the head of the queue could be admitted, a running loop will drain the queue.
HeadAttended ==
  queue # <<>> /\ CanAdmit(Class[Head(queue)], active, activeClass) => DrainPending

AttentionInv == ToldSoFar /\ HeadAttended

\* A loop that starts from the head of the queue is on top of the others.
LoopStarts == loops' # <<>> /\ Top'.index = 0

\* The topmost loop of a stack is the one appended last.
LEMMA AppendedIsTop ==
  ASSUME NEW below \in Seq(Loop), NEW l, l \in Loop, loops' = Append(below, l)
  PROVE  /\ loops' \in Seq(Loop) /\ loops' # <<>> /\ Top' = l
         /\ l.drains => DrainPending'
<1>1. /\ loops' \in Seq(Loop) /\ Len(loops') = Len(below) + 1
      /\ loops'[Len(below) + 1] = l /\ Len(below) + 1 \in 1..Len(loops')
  OBVIOUS
<1>2. Top' = l /\ loops' # <<>>
  BY <1>1 DEF Top
<1> QED
  BY <1>1, <1>2 DEF DrainPending

\* After _drainQueue the head of the queue has to wait, and those who moved up are
\* about to be told.
LEMMA DrainAttends ==
  ASSUME NEW q \in Seq(Requests), NEW count \in Nat, NEW current, NEW held,
         NEW below \in Seq(Loop), Drain(q, count, current, held, below)
  PROVE  /\ HeadAttended'
         /\ (queue' = q /\ loops' = below) \/ LoopStarts
<1> PICK n \in 0..Len(q) :
      /\ Takes(n, q, count, current)
      /\ queue' = SubSeq(q, n + 1, Len(q))
      /\ active' = count + n
      /\ activeClass' = ClassAfter(n, q, current)
      /\ loops' = IF n = 0 THEN below ELSE Append(below, [index |-> 0, drains |-> FALSE])
  BY DEF Drain
<1>1. HeadAttended'
  <2> SUFFICES ASSUME queue' # <<>>
               PROVE  ~CanAdmit(Class[Head(queue')], active', activeClass')
    BY DEF HeadAttended
  <2>1. n < Len(q) /\ Head(queue') = q[n + 1]
    OBVIOUS
  <2>2. ~CanAdmit(Class[q[n + 1]], count + (n + 1) - 1, ClassAfter((n + 1) - 1, q, current))
    BY <2>1 DEF Takes, CanAdmitNth
  <2>3. count + (n + 1) - 1 = active' /\ (n + 1) - 1 = n
    OBVIOUS
  <2> QED
    BY <2>1, <2>2, <2>3
<1>2. CASE n = 0
  <2>1. queue' = q
    BY <1>2
  <2> QED
    BY <1>1, <1>2, <2>1
<1>3. CASE n # 0
  <2>1. [index |-> 0, drains |-> FALSE] \in Loop
    BY DEF Loop
  <2>2. loops' = Append(below, [index |-> 0, drains |-> FALSE])
    BY <1>3
  <2>3. LoopStarts
    BY <2>1, <2>2, AppendedIsTop DEF LoopStarts
  <2> QED
    BY <1>1, <2>3
<1> QED
  BY <1>2, <1>3

\* A loop that starts from the head attends to everybody.
LEMMA FreshLoopTells ==
  ASSUME LoopStarts
  PROVE  ToldSoFar'
BY DEF ToldSoFar, LoopStarts

LEMMA OperationAttends ==
  ASSUME IndInv, AttentionInv, NEW r \in Requests,
         Acquire(r) \/ Release(r) \/ RejectQueuedRequest(r)
  PROVE  AttentionInv'
<1>1. /\ queue \in Seq(Requests) /\ loops \in Seq(Loop) /\ active \in Nat
      /\ told \in [Requests -> Nat]
  BY DEF IndInv, TypeOK
<1>2. CASE Acquire(r) /\ AdmittedAtOnce(r)
  <2>1. queue = <<>> /\ queue' = queue
    BY <1>2 DEF Acquire, AdmittedAtOnce
  <2> QED
    BY <2>1 DEF AttentionInv, ToldSoFar, HeadAttended
<1>3. CASE \/ Acquire(r) /\ ~AdmittedAtOnce(r)
           \/ RejectQueuedRequest(r)
  <2>1. loops' = Append(loops, [index |-> 0, drains |-> TRUE])
    BY <1>3 DEF Acquire, RejectQueuedRequest, RejectionLoop
  <2>2. [index |-> 0, drains |-> TRUE] \in Loop
    BY DEF Loop
  <2>3. LoopStarts /\ DrainPending'
    BY <1>1, <2>1, <2>2, AppendedIsTop DEF LoopStarts
  <2> QED
    BY <2>3, FreshLoopTells DEF AttentionInv, HeadAttended
<1>4. CASE Release(r)
  <2> DEFINE current == IF active = 1 THEN NoClass ELSE activeClass
  <2>1. /\ Drain(queue, active - 1, current, leases \ {r}, loops)
        /\ told' = told /\ r \in leases
    BY <1>4 DEF Release
  <2>2. active - 1 \in Nat
    BY <2>1, ReleaseKeepsAccount
  <2> HIDE DEF current
  <2>3. /\ HeadAttended'
        /\ (queue' = queue /\ loops' = loops) \/ LoopStarts
    BY <1>1, <2>1, <2>2, DrainAttends
  <2>4. ToldSoFar'
    BY <2>1, <2>3, FreshLoopTells DEF AttentionInv, ToldSoFar, Top
  <2> QED
    BY <2>3, <2>4 DEF AttentionInv
<1> QED
  BY <1>2, <1>3, <1>4

LEMMA NotifyPositionAttends ==
  ASSUME IndInv, AttentionInv, NotifyPosition
  PROVE  AttentionInv'
<1>1. /\ UNCHANGED <<queue, active, activeClass>>
      /\ loops # <<>> /\ loops \in Seq(Loop) /\ queue \in Seq(Requests)
      /\ Top.index < Len(queue) /\ told \in [Requests -> Nat]
      /\ told' = [told EXCEPT ![queue[Top.index + 1]] = Top.index + 1]
      /\ loops' = [loops EXCEPT ![Len(loops)].index = @ + 1]
  BY DEF NotifyPosition, admission, IndInv, TypeOK
<1>2. Len(loops) \in 1..Len(loops)
  BY <1>1
<1>3. Top \in Loop /\ Top.index \in Nat
  <2>1. loops[Len(loops)] \in Loop
    BY <1>1, <1>2
  <2> QED
    BY <2>1 DEF Top, Loop
<1>4. /\ loops' # <<>> /\ Len(loops') = Len(loops)
      /\ Top'.index = Top.index + 1
      /\ \A i \in 1..Len(loops) : loops'[i].drains = loops[i].drains
  BY <1>1, <1>2, <1>3 DEF Top, Loop
<1>5. ToldSoFar'
  <2> SUFFICES ASSUME NEW i \in 1..Len(queue), ~(Top'.index < i)
               PROVE  told'[queue[i]] = i
    BY <1>1, <1>4 DEF ToldSoFar
  <2>1. queue[i] \in Requests /\ queue[Top.index + 1] \in Requests
        /\ Top.index + 1 \in 1..Len(queue)
    BY <1>1, <1>3
  <2>2. CASE i = Top.index + 1
    BY <1>1, <2>1, <2>2
  <2>3. CASE i # Top.index + 1
    <3>1. told[queue[i]] = i
      BY <1>3, <1>4, <2>3 DEF AttentionInv, ToldSoFar
    <3>2. queue[i] # queue[Top.index + 1]
      BY <2>1, <2>3 DEF IndInv, Distinct
    <3> QED
      BY <1>1, <2>1, <3>1, <3>2
  <2> QED
    BY <2>2, <2>3
<1>6. HeadAttended'
  BY <1>1, <1>4 DEF AttentionInv, HeadAttended, DrainPending
<1> QED
  BY <1>5, <1>6 DEF AttentionInv

LEMMA NotificationEndsAttends ==
  ASSUME IndInv, AttentionInv, NotificationEnds
  PROVE  AttentionInv'
<1>1. /\ queue \in Seq(Requests) /\ active \in Nat
      /\ loops \in Seq(Loop) /\ loops # <<>> /\ Top.index >= Len(queue)
      /\ told' = told
  BY DEF NotificationEnds, IndInv, TypeOK
<1>2. /\ Below \in Seq(Loop) /\ Len(Below) = Len(loops) - 1
      /\ \A i \in 1..(Len(loops) - 1) : Below[i] = loops[i]
      /\ Top = loops[Len(loops)] /\ Top \in Loop
  <2>1. Len(loops) \in 1..Len(loops)
    BY <1>1
  <2>2. loops[Len(loops)] \in Loop
    BY <1>1, <2>1
  <2>3. /\ Below \in Seq(Loop) /\ Len(Below) = Len(loops) - 1
        /\ \A i \in 1..(Len(loops) - 1) : Below[i] = loops[i]
    <3> DEFINE last == Len(loops) - 1
    <3>1. last \in Nat /\ last <= Len(loops) /\ Below = SubSeq(loops, 1, last)
      BY <1>1, <2>1 DEF Below
    <3> HIDE DEF last
    <3>2. /\ Below \in Seq(Loop) /\ Len(Below) = last
          /\ \A i \in 1..last : Below[i] = loops[i]
      BY <1>1, <3>1
    <3> QED
      BY <3>2 DEF last
  <2>4. Top = loops[Len(loops)] /\ Top \in Loop
    BY <2>2 DEF Top
  <2> QED
    BY <2>3, <2>4
<1>3. \A i \in 1..Len(queue) : told[queue[i]] = i
  <2>1. Top.index \in Nat
    BY <1>2 DEF Loop
  <2> QED
    BY <1>1, <2>1 DEF AttentionInv, ToldSoFar
<1>4. CASE Drain(queue, active, activeClass, leases, Below)
  <2>1. /\ HeadAttended'
        /\ (queue' = queue /\ loops' = Below) \/ LoopStarts
    BY <1>1, <1>2, <1>4, DrainAttends
  <2>2. ToldSoFar'
    BY <1>1, <1>3, <2>1, FreshLoopTells DEF ToldSoFar
  <2> QED
    BY <2>1, <2>2 DEF AttentionInv
<1>5. CASE ~Top.drains /\ loops' = Below /\ UNCHANGED admission
  <2>1. ToldSoFar'
    BY <1>1, <1>3, <1>5 DEF ToldSoFar, admission
  <2>2. DrainPending => DrainPending'
    BY <1>1, <1>2, <1>5 DEF DrainPending
  <2> QED
    BY <1>5, <2>1, <2>2 DEF AttentionInv, HeadAttended, admission
<1> QED
  BY <1>4, <1>5 DEF NotificationEnds

LEMMA NextAttends == IndInv /\ AttentionInv /\ [Next]_vars => AttentionInv'
<1> SUFFICES ASSUME IndInv, AttentionInv, [Next]_vars PROVE AttentionInv'
  OBVIOUS
<1>1. CASE NotificationStep
  BY <1>1, NotifyPositionAttends, NotificationEndsAttends DEF NotificationStep
<1>2. ASSUME NEW r \in Requests, Acquire(r) \/ Release(r) \/ RejectQueuedRequest(r)
      PROVE  AttentionInv'
  BY <1>2, OperationAttends
<1>3. CASE UNCHANGED vars
  BY <1>3 DEF vars, admission, AttentionInv, ToldSoFar, HeadAttended, DrainPending, Top
<1> QED
  BY <1>1, <1>2, <1>3 DEF Next

LEMMA Attended == Spec => []AttentionInv
<1>1. Init => AttentionInv
  BY DEF Init, AttentionInv, ToldSoFar, HeadAttended
<1>2. IndInv /\ AttentionInv /\ [Next]_vars => AttentionInv'
  BY NextAttends
<1> QED
  BY <1>1, <1>2, Inductive, PTL DEF Spec

-----------------------------------------------------------------------------
(* Theorems *)

\* The state has its type, callbacks that call back included.
THEOREM TypeCorrect == Spec => []TypeOK
<1>1. IndInv => TypeOK
  BY DEF IndInv
<1> QED
  BY <1>1, Inductive, PTL

\* _activeRequestCount and _activeClass describe the leases that are held,
\* however often a lease is released.
THEOREM CountIsRight == Spec => []CountsLeases
<1>1. IndInv => CountsLeases
  BY DEF IndInv, Accounted, CountsLeases
<1> QED
  BY <1>1, Inductive, PTL

\* First come, first served, in whichever order callbacks acquire and release.
THEOREM NobodyOvertakes == Spec => NoOvertaking
<1>1. IndInv /\ [Next]_vars => [AdmittedInOrder]_vars
  BY NextInOrder
<1> QED
  BY <1>1, Inductive, PTL DEF Spec, NoOvertaking

\* An exclusive request runs alone, and the two shared classes never overlap.
THEOREM ClassesExclude == Spec => []Compatible
<1>1. IndInv => Compatible
  <2> SUFFICES ASSUME IndInv, NEW r \in leases, NEW s \in leases, r # s
               PROVE  Class[r] = Class[s] /\ Class[r] # "Exclusive"
    BY DEF Compatible
  <2>1. /\ Class[r] = activeClass /\ Class[s] = activeClass
        /\ IsFiniteSet(leases) /\ active = Cardinality(leases)
        /\ activeClass = "Exclusive" => active <= 1
    BY DEF IndInv, Accounted
  <2>2. IsFiniteSet({r, s}) /\ Cardinality({r, s}) = 2
    <3>1. IsFiniteSet({r}) /\ Cardinality({r}) = 1
      BY FS_Singleton
    <3>2. IsFiniteSet({r} \cup {s}) /\ Cardinality({r} \cup {s}) = 2
      BY <3>1, FS_AddElement
    <3>3. {r, s} = {r} \cup {s}
      OBVIOUS
    <3> QED
      BY <3>2, <3>3
  <2>3. Cardinality({r, s}) <= Cardinality(leases)
    BY <2>1, FS_Subset
  <2>4. active \in Nat
    BY DEF IndInv, TypeOK
  <2> QED
    BY <2>1, <2>2, <2>3, <2>4
<1> QED
  BY <1>1, Inductive, PTL

\* When no callback is running, the head of the queue cannot be admitted: whatever
\* made room for it (a release, a timeout, an abort, inside callbacks or not) was
\* followed by a drain.
THEOREM NothingIdles == Spec => []NoIdleCapacity
<1>1. IndInv /\ AttentionInv => NoIdleCapacity
  <2> SUFFICES ASSUME HeadAttended, loops = <<>> PROVE ~DrainPending
    BY DEF AttentionInv, NoIdleCapacity, HeadAttended
  <2> QED
    BY DEF DrainPending
<1> QED
  BY <1>1, Attended, Inductive, PTL

\* When no callback is running, every queued request was told the position it is
\* at, however deep callbacks changed the queue under the loops that told it.
THEOREM EverybodyIsTold == Spec => []PositionsKnown
<1>1. AttentionInv => PositionsKnown
  BY DEF AttentionInv, ToldSoFar, PositionsKnown
<1> QED
  BY <1>1, Attended, PTL

-----------------------------------------------------------------------------
(* Refinement of the abstract lock *)

\* Requests accounted for hold the lock together.
LEMMA AccountFits ==
  ASSUME NEW held, NEW count, NEW current, Accounted(count, current, held)
  PROVE  Lock!Fit(held)
<1> SUFFICES ASSUME NEW s \in held, NEW t \in held, s # t
             PROVE  Class[s] = Class[t] /\ Class[s] # "Exclusive"
  BY DEF Lock!Fit
<1>1. Class[s] = current /\ Class[t] = current
  BY DEF Accounted
<1>2. current # "Exclusive"
  <2> SUFFICES ASSUME current = "Exclusive" PROVE FALSE
    OBVIOUS
  <2>1. IsFiniteSet(held) /\ Cardinality(held) \in Nat /\ Cardinality(held) <= 1
    BY FS_CardinalityType DEF Accounted
  <2>2. Cardinality({s} \cup {t}) = 2
    <3>1. IsFiniteSet({s}) /\ Cardinality({s}) = 1 /\ t \notin {s}
      BY FS_Singleton
    <3> QED
      BY <3>1, FS_AddElement
  <2>3. Cardinality({s} \cup {t}) <= Cardinality(held)
    <3>1. {s} \cup {t} \subseteq held
      OBVIOUS
    <3> QED
      BY <2>1, <3>1, FS_Subset
  <2> QED
    BY <2>1, <2>2, <2>3
<1> QED
  BY <1>1, <1>2

\* Counter and class tell of a request that holds no lease whether it fits those
\* that do.
LEMMA CanAdmitFits ==
  ASSUME NEW held, NEW count, NEW current, Accounted(count, current, held),
         NEW r \in Requests \ held
  PROVE  CanAdmit(Class[r], count, current) <=> Lock!Fit(held \cup {r})
<1>1. /\ count = 0 <=> held = {}
      /\ \A s \in held : Class[s] = current
  BY FS_EmptySet DEF Accounted
<1>2. Lock!Fit(held)
  BY AccountFits
<1>3. ASSUME CanAdmit(Class[r], count, current) PROVE Lock!Fit(held \cup {r})
  BY <1>1, <1>2, <1>3 DEF Lock!Fit, CanAdmit
<1>4. ASSUME Lock!Fit(held \cup {r}), count # 0 PROVE CanAdmit(Class[r], count, current)
  <2>1. PICK s \in held : Class[s] = current
    BY <1>1, <1>4
  <2>2. Class[r] = Class[s] /\ Class[r] # "Exclusive"
    BY <1>4, <2>1 DEF Lock!Fit
  <2> QED
    BY <2>1, <2>2 DEF CanAdmit
<1> QED
  BY <1>2, <1>3, <1>4 DEF CanAdmit

\* _drainQueue grants the lock to as many as fit.
LEMMA DrainGrants ==
  ASSUME queue \in Seq(Requests), Distinct(queue),
         NEW held, Apart(queue, held),
         NEW count \in Nat, NEW current \in ExclusivityClass \cup {NoClass},
         Accounted(count, current, held),
         NEW below, Drain(queue, count, current, held, below)
  PROVE  Lock!Grant(held)
<1> PICK n \in 0..Len(queue) :
      /\ Takes(n, queue, count, current)
      /\ queue' = SubSeq(queue, n + 1, Len(queue))
      /\ leases' = held \cup {queue[i] : i \in 1..n}
  BY DEF Drain
<1> DEFINE now == held \cup Lock!Heads(queue, n)
<1>1. Accounted(count + n, ClassAfter(n, queue, current), now)
  BY TakesKeepsAccount, SchedulerAssumption DEF Lock!Heads
<1>2. Lock!Fit(now)
  BY <1>1, AccountFits
<1>3. ASSUME n < Len(queue) PROVE ~Lock!Fit(held \cup Lock!Heads(queue, n + 1))
  <2>1. n + 1 \in 1..Len(queue) /\ queue[n + 1] \in Requests
    BY <1>3
  <2>2. queue[n + 1] \notin now
    BY <2>1 DEF Lock!Heads, Distinct, Apart
  <2>3. ~CanAdmit(Class[queue[n + 1]], count + n, ClassAfter(n, queue, current))
    <3>1. count + (n + 1) - 1 = count + n /\ (n + 1) - 1 = n
      OBVIOUS
    <3> QED
      BY <1>3, <3>1 DEF Takes, CanAdmitNth
  <2>4. ~Lock!Fit(now \cup {queue[n + 1]})
    <3> HIDE DEF now
    <3> QED
      BY <1>1, <2>1, <2>2, <2>3, CanAdmitFits
  <2>5. held \cup Lock!Heads(queue, n + 1) = now \cup {queue[n + 1]}
    BY DEF Lock!Heads
  <2> QED
    BY <2>4, <2>5
<1> QED
  BY <1>2, <1>3 DEF Lock!Grant, Lock!Heads

LEMMA AcquireEnters ==
  ASSUME IndInv, NEW r \in Requests, Acquire(r)
  PROVE  Lock!Enter(r)
<1>1. r \notin leases \cup Lock!Heads(queue, Len(queue))
  BY DEF Acquire, Queued, Lock!Heads
<1>2. AdmittedAtOnce(r) <=> Lock!Fits(r)
  BY <1>1, CanAdmitFits DEF IndInv, AdmittedAtOnce, Lock!Fits
<1> QED
  BY <1>1, <1>2 DEF Acquire, Lock!Enter

LEMMA StepIsLockStep ==
  ASSUME IndInv, [Next]_vars
  PROVE  [Lock!Next]_Lock!vars
<1> USE DEF Lock!vars
<1>1. /\ queue \in Seq(Requests) /\ Distinct(queue) /\ Apart(queue, leases)
      /\ active \in Nat /\ activeClass \in ExclusivityClass \cup {NoClass}
      /\ Accounted(active, activeClass, leases)
  BY DEF IndInv, TypeOK
<1>2. CASE NotificationStep
  <2>1. CASE Drain(queue, active, activeClass, leases, Below)
    BY <1>1, <2>1, DrainGrants DEF Lock!Next, Lock!Advance
  <2>2. CASE UNCHANGED admission
    BY <2>2 DEF admission
  <2> QED
    BY <1>2, <2>1, <2>2 DEF NotificationStep, NotifyPosition, NotificationEnds
<1>3. ASSUME NEW r \in Requests, Acquire(r) PROVE Lock!Next
  BY <1>3, AcquireEnters DEF Lock!Next
<1>4. ASSUME NEW r \in Requests, Release(r) PROVE Lock!Next
  <2> DEFINE current == IF active = 1 THEN NoClass ELSE activeClass
  <2>1. /\ r \in leases
        /\ Drain(queue, active - 1, current, leases \ {r}, loops)
    BY <1>4 DEF Release
  <2>2. active - 1 \in Nat /\ Accounted(active - 1, current, leases \ {r})
    BY <2>1, ReleaseKeepsAccount
  <2>3. current \in ExclusivityClass \cup {NoClass} /\ Apart(queue, leases \ {r})
    BY <1>1 DEF Apart
  <2> HIDE DEF current
  <2>4. Lock!Grant(leases \ {r})
    BY <1>1, <2>1, <2>2, <2>3, DrainGrants
  <2> QED
    BY <2>1, <2>4 DEF Lock!Next, Lock!Release
<1>5. ASSUME NEW r \in Requests, RejectQueuedRequest(r) PROVE Lock!Next
  BY <1>5 DEF RejectQueuedRequest, Lock!Next, Lock!Leave, RemoveAt, Lock!RemoveAt
<1>6. CASE UNCHANGED vars
  BY <1>6 DEF vars, admission
<1> QED
  BY <1>2, <1>3, <1>4, <1>5, <1>6 DEF Next

\* The scheduler implements the abstract lock: counter and class stand for the
\* leases in every state, so that each operation, the drains at its end and those
\* under callbacks included, admits whom the lock would grant.
THEOREM RefinesFairLock == Spec => ImplementsFairLock
<1>1. Init => Lock!Init
  BY DEF Init, Lock!Init
<1>2. IndInv /\ [Next]_vars => [Lock!Next]_Lock!vars
  BY StepIsLockStep
<1> QED
  BY <1>1, <1>2, Inductive, PTL DEF Spec, ImplementsFairLock, Lock!Spec
=============================================================================
