----------------------- MODULE DaemonOwnershipProofs -----------------------
(***************************************************************************)
(* Who owns a daemon's socket, for every set of processes: type            *)
(* correctness, and what a lone starter, an established daemon and the     *)
(* mutex file can rely on.                                                 *)
(***************************************************************************)
EXTENDS DaemonOwnership, TLAPS

\* The disjuncts of Next, to be expanded together.
USE DEF Go, Alive, HolderAlive, CreatedBy, LockfilePidAlive, Answering, Probed, MutexReleased

-----------------------------------------------------------------------------
(* Type correctness *)

LEMMA InitTypes == Init => TypeOK
BY OwnershipAssumption DEF Init, TypeOK

LEMMA NextTypes == TypeOK /\ [Next]_vars => TypeOK'
<1> SUFFICES ASSUME TypeOK, [Next]_vars PROVE TypeOK'
  OBVIOUS
<1> USE DEF TypeOK, Starting, Closing
<1>1. ASSUME NEW p \in Processes, Start(p) PROVE TypeOK'
  BY <1>1 DEF Start
<1>2. ASSUME NEW p \in Processes, Listen(p) PROVE TypeOK'
  BY <1>2 DEF Listen
<1>3. ASSUME NEW p \in Processes, ListenAgain(p) PROVE TypeOK'
  BY <1>3 DEF ListenAgain
<1>4. ASSUME NEW p \in Processes, WriteLockfile(p) PROVE TypeOK'
  BY <1>4 DEF WriteLockfile
<1>5. ASSUME NEW p \in Processes, CreateMutex(p) PROVE TypeOK'
  BY <1>5 DEF CreateMutex
<1>6. ASSUME NEW p \in Processes, WriteMutex(p) PROVE TypeOK'
  BY <1>6 DEF WriteMutex
<1>7. ASSUME NEW p \in Processes, ReadHolder(p) PROVE TypeOK'
  BY <1>7 DEF ReadHolder
<1>8. ASSUME NEW p \in Processes, UnlinkMutex(p) PROVE TypeOK'
  BY <1>8 DEF UnlinkMutex
<1>9. ASSUME NEW p \in Processes, RecreateMutex(p) PROVE TypeOK'
  BY <1>9 DEF RecreateMutex
<1>10. ASSUME NEW p \in Processes, ReadLockfile(p) PROVE TypeOK'
  BY <1>10 DEF ReadLockfile, Claims
<1>11. ASSUME NEW p \in Processes, Probe(p) PROVE TypeOK'
  BY <1>11 DEF Probe
<1>12. ASSUME NEW p \in Processes, RemoveLockfile(p) PROVE TypeOK'
  BY <1>12 DEF RemoveLockfile
<1>13. ASSUME NEW p \in Processes, RemoveSocket(p) PROVE TypeOK'
  BY <1>13 DEF RemoveSocket
<1>14. ASSUME NEW p \in Processes, ReleaseMutex(p) PROVE TypeOK'
  BY <1>14 DEF ReleaseMutex
<1>15. ASSUME NEW p \in Processes, Close(p) PROVE TypeOK'
  BY <1>15 DEF Close
<1>16. ASSUME NEW p \in Processes, Crash(p) PROVE TypeOK'
  BY <1>16 DEF Crash
<1>17. CASE Terminating \/ UNCHANGED vars
  BY <1>17 DEF Terminating, vars
<1> QED
  BY <1>1, <1>2, <1>3, <1>4, <1>5, <1>6, <1>7, <1>8, <1>9, <1>10, <1>11, <1>12, <1>13,
     <1>14, <1>15, <1>16, <1>17 DEF Next, Step

\* Every reachable state is type-correct, for every set of processes.
THEOREM TypeCorrect == Spec => []TypeOK
BY InitTypes, NextTypes, PTL DEF Spec

-----------------------------------------------------------------------------
(* The mutex file *)

UnderMutex == {"write", "lockfile", "probe", "removeLockfile", "removeSocket", "release",
               "refuse"}

\* The mutex file belongs to a process that is under it, or has died.
HolderInv == mutex # Nobody => at[mutex] \in UnderMutex \cup {"dead"}

LEMMA HolderStep == TypeOK /\ HolderInv /\ [Next]_vars => HolderInv'
<1> SUFFICES ASSUME TypeOK, HolderInv, [Next]_vars PROVE HolderInv'
  OBVIOUS
<1> USE DEF TypeOK, HolderInv, UnderMutex, Starting, Closing
<1>1. ASSUME NEW p \in Processes, Start(p) \/ Listen(p) \/ ListenAgain(p) \/ WriteLockfile(p)
      PROVE HolderInv'
  BY <1>1 DEF Start, Listen, ListenAgain, WriteLockfile
<1>2. ASSUME NEW p \in Processes, CreateMutex(p) \/ WriteMutex(p) \/ ReadHolder(p)
      PROVE HolderInv'
  BY <1>2, OwnershipAssumption DEF CreateMutex, WriteMutex, ReadHolder
<1>3. ASSUME NEW p \in Processes, UnlinkMutex(p) \/ RecreateMutex(p)
      PROVE HolderInv'
  BY <1>3, OwnershipAssumption DEF UnlinkMutex, RecreateMutex
<1>4. ASSUME NEW p \in Processes, ReadLockfile(p) \/ Probe(p) \/ RemoveLockfile(p)
      PROVE HolderInv'
  BY <1>4 DEF ReadLockfile, Probe, RemoveLockfile
<1>5. ASSUME NEW p \in Processes, RemoveSocket(p) \/ ReleaseMutex(p)
      PROVE HolderInv'
  BY <1>5 DEF RemoveSocket, ReleaseMutex
<1>6. ASSUME NEW p \in Processes, Close(p) \/ Crash(p)
      PROVE HolderInv'
  BY <1>6 DEF Close, Crash
<1>7. CASE Terminating \/ UNCHANGED vars
  BY <1>7 DEF Terminating, vars
<1> QED
  BY <1>1, <1>2, <1>3, <1>4, <1>5, <1>6, <1>7 DEF Next, Step

\* However the mutex is stolen, it does not outlive the reclaims of processes that
\* have not crashed.
THEOREM MutexDoesNotStay == Spec => []MutexIsReleased
<1>1. Init => HolderInv
  BY DEF Init, HolderInv
<1>2. TypeOK /\ HolderInv => MutexIsReleased
  BY DEF TypeOK, HolderInv, MutexIsReleased, UnderMutex
<1> QED
  BY <1>1, <1>2, HolderStep, TypeCorrect, PTL DEF Spec

-----------------------------------------------------------------------------
(* The lone starter *)

\* p runs and has never met another live process.
Alone(p) == Alive(p) /\ p \notin company

\* A process that is alone finds what only dead processes have left behind.
LoneInv ==
  \A p \in Processes :
    /\ Alone(p) => \A q \in Processes : Alive(q) => q = p
    /\ Alone(p) /\ at[p] \in {"listen", "create", "holder", "unlink"} => mutex # p
    /\ Alone(p) /\ at[p] \in {"holder", "unlink"} => mutex # Nobody
    /\ Alone(p) /\ at[p] = "recreate" => mutex = Nobody
    /\ Alone(p) /\ at[p] \in {"release", "relisten"} => socket = Nobody
    /\ Alone(p) => at[p] # "refuse"
    /\ at[p] = "out" => mutex # p
    /\ at[p] \in {"out", "listen", "create", "holder", "unlink", "recreate", "write",
                  "lockfile", "probe"} => lockfile # p /\ socket # p
    /\ at[p] = "failed" => p \in company

LEMMA LoneStep == TypeOK /\ LoneInv /\ [Next]_vars => LoneInv'
<1> SUFFICES ASSUME TypeOK, LoneInv, [Next]_vars PROVE LoneInv'
  OBVIOUS
<1> USE OwnershipAssumption DEF TypeOK, LoneInv, Starting, Closing, Alone
<1>1. ASSUME NEW p \in Processes, Start(p) PROVE LoneInv'
  BY <1>1 DEF Start
<1>2. ASSUME NEW p \in Processes, Listen(p) PROVE LoneInv'
  BY <1>2 DEF Listen
<1>3. ASSUME NEW p \in Processes, ListenAgain(p) PROVE LoneInv'
  BY <1>3 DEF ListenAgain
<1>4. ASSUME NEW p \in Processes, WriteLockfile(p) PROVE LoneInv'
  BY <1>4 DEF WriteLockfile
<1>5. ASSUME NEW p \in Processes, CreateMutex(p) PROVE LoneInv'
  BY <1>5 DEF CreateMutex
<1>6. ASSUME NEW p \in Processes, WriteMutex(p) PROVE LoneInv'
  BY <1>6 DEF WriteMutex
<1>7. ASSUME NEW p \in Processes, ReadHolder(p) PROVE LoneInv'
  BY <1>7 DEF ReadHolder
<1>8. ASSUME NEW p \in Processes, UnlinkMutex(p) PROVE LoneInv'
  BY <1>8 DEF UnlinkMutex
<1>9. ASSUME NEW p \in Processes, RecreateMutex(p) PROVE LoneInv'
  BY <1>9 DEF RecreateMutex
<1>10. ASSUME NEW p \in Processes, ReadLockfile(p) PROVE LoneInv'
  BY <1>10 DEF ReadLockfile
<1>11. ASSUME NEW p \in Processes, Probe(p) PROVE LoneInv'
  BY <1>11 DEF Probe
<1>12. ASSUME NEW p \in Processes, RemoveLockfile(p) PROVE LoneInv'
  BY <1>12 DEF RemoveLockfile
<1>13. ASSUME NEW p \in Processes, RemoveSocket(p) PROVE LoneInv'
  BY <1>13 DEF RemoveSocket
<1>14. ASSUME NEW p \in Processes, ReleaseMutex(p) PROVE LoneInv'
  BY <1>14 DEF ReleaseMutex
<1>15. ASSUME NEW p \in Processes, Close(p) PROVE LoneInv'
  BY <1>15 DEF Close
<1>16. ASSUME NEW p \in Processes, Crash(p) PROVE LoneInv'
  BY <1>16 DEF Crash
<1>17. CASE Terminating \/ UNCHANGED vars
  BY <1>17 DEF Terminating, vars
<1> QED
  BY <1>1, <1>2, <1>3, <1>4, <1>5, <1>6, <1>7, <1>8, <1>9,
     <1>10, <1>11, <1>12, <1>13, <1>14, <1>15, <1>16, <1>17 DEF Next, Step

\* Whatever files dead daemons and dead reclaimers have left behind, a starter that
\* meets no live process gets the path.
THEOREM LoneStarter == Spec => []LoneStarterServes
<1>1. Init => LoneInv
  BY OwnershipAssumption DEF Init, LoneInv, Alone
<1>2. LoneInv => LoneStarterServes
  BY DEF LoneInv, LoneStarterServes
<1> QED
  BY <1>1, <1>2, LoneStep, TypeCorrect, PTL DEF Spec

-----------------------------------------------------------------------------
(* Established daemons *)

Served == {"serving", "closing", "closingSocket", "closed", "dead"}

\* A daemon with a claim when p read the lockfile never binds again. If p goes on to
\* the probe, the lockfile has named none of them, so each of them answers; once p has
\* probed the path, the daemon there is none of them.
ServedInv ==
  \A p \in Processes :
    /\ at[p] \in {"probe", "removeLockfile", "removeSocket"} =>
         \A q \in established[p] : at[q] \in Served /\ q \notin MayStall
    /\ at[p] \in {"removeLockfile", "removeSocket"} /\ Answering =>
         socket \notin established[p]

LEMMA ServedStep == TypeOK /\ ServedInv /\ [Next]_vars => ServedInv'
<1> SUFFICES ASSUME TypeOK, ServedInv, [Next]_vars PROVE ServedInv'
  OBVIOUS
<1> USE OwnershipAssumption DEF TypeOK, ServedInv, Starting, Closing, Served
<1>1. ASSUME NEW p \in Processes, Start(p) PROVE ServedInv'
  BY <1>1 DEF Start
<1>2. ASSUME NEW p \in Processes, Listen(p) PROVE ServedInv'
  BY <1>2 DEF Listen
<1>3. ASSUME NEW p \in Processes, ListenAgain(p) PROVE ServedInv'
  BY <1>3 DEF ListenAgain
<1>4. ASSUME NEW p \in Processes, WriteLockfile(p) PROVE ServedInv'
  BY <1>4 DEF WriteLockfile
<1>5. ASSUME NEW p \in Processes, CreateMutex(p) PROVE ServedInv'
  BY <1>5 DEF CreateMutex
<1>6. ASSUME NEW p \in Processes, WriteMutex(p) PROVE ServedInv'
  BY <1>6 DEF WriteMutex
<1>7. ASSUME NEW p \in Processes, ReadHolder(p) PROVE ServedInv'
  BY <1>7 DEF ReadHolder
<1>8. ASSUME NEW p \in Processes, UnlinkMutex(p) PROVE ServedInv'
  BY <1>8 DEF UnlinkMutex
<1>9. ASSUME NEW p \in Processes, RecreateMutex(p) PROVE ServedInv'
  BY <1>9 DEF RecreateMutex
<1>10. ASSUME NEW p \in Processes, ReadLockfile(p) PROVE ServedInv'
  BY <1>10 DEF ReadLockfile, Claims
<1>11. ASSUME NEW p \in Processes, Probe(p) PROVE ServedInv'
  BY <1>11 DEF Probe
<1>12. ASSUME NEW p \in Processes, RemoveLockfile(p) PROVE ServedInv'
  BY <1>12 DEF RemoveLockfile
<1>13. ASSUME NEW p \in Processes, RemoveSocket(p) PROVE ServedInv'
  BY <1>13 DEF RemoveSocket
<1>14. ASSUME NEW p \in Processes, ReleaseMutex(p) PROVE ServedInv'
  BY <1>14 DEF ReleaseMutex
<1>15. ASSUME NEW p \in Processes, Close(p) PROVE ServedInv'
  BY <1>15 DEF Close
<1>16. ASSUME NEW p \in Processes, Crash(p) PROVE ServedInv'
  BY <1>16 DEF Crash
<1>17. CASE Terminating \/ UNCHANGED vars
  BY <1>17 DEF Terminating, vars
<1> QED
  BY <1>1, <1>2, <1>3, <1>4, <1>5, <1>6, <1>7, <1>8, <1>9,
     <1>10, <1>11, <1>12, <1>13, <1>14, <1>15, <1>16, <1>17 DEF Next, Step

\* A reclaim never removes the socket of a daemon that was serving when the reclaimer
\* read the lockfile and was recorded there or answers, however many reclaims go on.
THEOREM EstablishedDaemonStays == Spec => EstablishedStays
<1>1. Init => ServedInv
  BY DEF Init, ServedInv
<1>2. TypeOK /\ ServedInv /\ [Next]_vars =>
        [\A p \in Processes :
           at[p] = "removeSocket" /\ RemoveSocket(p) /\ Answering =>
             socket \notin established[p]]_vars
  BY DEF ServedInv
<1> QED
  BY <1>1, <1>2, ServedStep, TypeCorrect, PTL DEF Spec, EstablishedStays
=============================================================================
