-------------------------- MODULE DaemonOwnership --------------------------
(***************************************************************************)
(* Who owns the socket of a workspace: processes that start a Rush daemon  *)
(* bind one path, reclaim it from dead daemons under a mutex file, record  *)
(* themselves in the lockfile, close, and may crash anywhere.              *)
(*                                                                         *)
(* One action per system call, for these are what the processes interleave *)
(* (POSIX sockets). A torn lockfile reads as none, so its write is one     *)
(* step; a torn mutex exists already, so its write is two.                 *)
(***************************************************************************)
EXTENDS Integers, FiniteSets

CONSTANTS
  Processes,   \* each starts at most one daemon; a pid is never used again
  Nobody,
  MayCrash,    \* processes that may crash
  MayClose,    \* processes whose daemon may be closed
  MayStall     \* processes whose daemon may be too busy to answer a probe

ASSUME OwnershipAssumption ==
  /\ Nobody \notin Processes
  /\ MayCrash \subseteq Processes
  /\ MayClose \subseteq Processes
  /\ MayStall \subseteq Processes

VARIABLES
  socket,      \* the process whose bind created the file at the socket path
  lockfile,    \* the pid in the lockfile
  mutex,       \* the process that created the mutex file
  written,     \* processes that have written their pid to the mutex they created
  at,          \* the system call each process does next
  established, \* history: by process, the daemons with a claim when it read the lockfile
  company      \* history: processes that met another live one

vars == <<socket, lockfile, mutex, written, at, established, company>>

Starting == {"listen", "create", "write", "holder", "unlink", "recreate", "lockfile",
             "probe", "removeLockfile", "removeSocket", "release", "refuse",
             "relisten", "bound"}

Closing == {"closing", "closingSocket"}

TypeOK ==
  /\ socket \in Processes \cup {Nobody}
  /\ lockfile \in Processes \cup {Nobody}
  /\ mutex \in Processes \cup {Nobody}
  /\ written \subseteq Processes
  /\ at \in [Processes -> Starting \cup Closing
                           \cup {"out", "serving", "failed", "closed", "dead"}]
  /\ established \in [Processes -> SUBSET Processes]
  /\ company \subseteq Processes

\* isDaemonProcessAlive
Alive(p) == at[p] \notin {"out", "failed", "closed", "dead"}

Init ==
  /\ socket = Nobody
  /\ lockfile = Nobody
  /\ mutex = Nobody
  /\ written = {}
  /\ at = [p \in Processes |-> "out"]
  /\ established = [p \in Processes |-> {}]
  /\ company = {}

Go(p, step) == at' = [at EXCEPT ![p] = step]

-----------------------------------------------------------------------------
(* Binding *)

\* A daemon process is started.
Start(p) ==
  /\ at[p] = "out"
  /\ Go(p, "listen")
  /\ LET others == {q \in Processes : Alive(q)}
     IN company' = company \cup others \cup (IF others = {} THEN {} ELSE {p})
  /\ UNCHANGED <<socket, lockfile, mutex, written, established>>

\* The first attempt: EADDRINUSE if there is a file at the path, stale or not.
Listen(p) ==
  /\ at[p] = "listen"
  /\ \/ /\ socket = Nobody
        /\ socket' = p
        /\ Go(p, "bound")
     \/ /\ socket # Nobody
        /\ Go(p, "create")
        /\ UNCHANGED socket
  /\ UNCHANGED <<lockfile, mutex, written, established, company>>

\* The attempt after a reclaim: daemonAlreadyRunning if somebody was faster.
ListenAgain(p) ==
  /\ at[p] = "relisten"
  /\ \/ /\ socket = Nobody
        /\ socket' = p
        /\ Go(p, "bound")
     \/ /\ socket # Nobody
        /\ Go(p, "failed")
        /\ UNCHANGED socket
  /\ UNCHANGED <<lockfile, mutex, written, established, company>>

\* writeDaemonLockfile, once the path is bound.
WriteLockfile(p) ==
  /\ at[p] = "bound"
  /\ lockfile' = p
  /\ Go(p, "serving")
  /\ UNCHANGED <<socket, mutex, written, established, company>>

-----------------------------------------------------------------------------
(* The reclaim mutex *)

\* Creation with the flag "wx".
CreateMutex(p) ==
  /\ at[p] = "create"
  /\ \/ /\ mutex = Nobody
        /\ mutex' = p
        /\ Go(p, "write")
     \/ /\ mutex # Nobody
        /\ Go(p, "holder")
        /\ UNCHANGED mutex
  /\ UNCHANGED <<socket, lockfile, written, established, company>>

\* The pid goes to the file that p has created, which may be unlinked by now.
CreatedBy(p) == p

WriteMutex(p) ==
  /\ at[p] = "write"
  /\ written' = written \cup {CreatedBy(p)}
  /\ Go(p, "lockfile")
  /\ UNCHANGED <<socket, lockfile, mutex, established, company>>

\* A bug to catch: only a mutex that carries no pid can be stolen.
HolderAliveWhenWritten == mutex \in written

\* The mutex names a live holder. It names nobody until its pid is written.
HolderAlive == mutex \in written /\ Alive(mutex)

\* stealFromDeadHolder: refused by a live holder, or on to the theft.
ReadHolder(p) ==
  /\ at[p] = "holder"
  /\ Go(p, IF HolderAlive THEN "failed" ELSE "unlink")
  /\ UNCHANGED <<socket, lockfile, mutex, written, established, company>>

\* rewriteMutexEntry unlinks the mutex that is there by now, if one is.
UnlinkMutex(p) ==
  /\ at[p] = "unlink"
  /\ mutex' = Nobody
  /\ Go(p, IF mutex = Nobody THEN "failed" ELSE "recreate")
  /\ UNCHANGED <<socket, lockfile, written, established, company>>

RecreateMutex(p) ==
  /\ at[p] = "recreate"
  /\ \/ /\ mutex = Nobody
        /\ mutex' = p
        /\ Go(p, "write")
     \/ /\ mutex # Nobody
        /\ Go(p, "failed")
        /\ UNCHANGED mutex
  /\ UNCHANGED <<socket, lockfile, written, established, company>>

-----------------------------------------------------------------------------
(* Reclaiming under the mutex *)

\* isLockfilePidAlive
LockfilePidAlive == lockfile # Nobody /\ Alive(lockfile)

\* The serving daemons of which either factor of the detection must tell: they are
\* recorded in the lockfile, however busy, or they answer, recorded or not.
Claims == {q \in Processes : at[q] = "serving" /\ (lockfile = q \/ q \notin MayStall)}

ReadLockfile(p) ==
  /\ at[p] = "lockfile"
  /\ Go(p, IF LockfilePidAlive THEN "refuse" ELSE "probe")
  /\ established' = [established EXCEPT ![p] = Claims]
  /\ UNCHANGED <<socket, lockfile, mutex, written, company>>

\* The server at the path is bound and not closed.
Answering == socket # Nobody /\ at[socket] \in {"bound", "serving"}

\* A bug to catch: a daemon that has not written its lockfile is not probed.
ProbedWithLockfile == {q \in Processes : lockfile = q}

\* The daemons whose answer a probe waits for.
Probed == Processes

\* probeConnectionFailsAsync
Probe(p) ==
  /\ at[p] = "probe"
  /\ \/ /\ Answering
        /\ socket \in Probed
        /\ Go(p, "refuse")
     \/ /\ Answering => socket \in MayStall \cup (Processes \ Probed)
        /\ Go(p, "removeLockfile")
  /\ UNCHANGED <<socket, lockfile, mutex, written, established, company>>

RemoveLockfile(p) ==
  /\ at[p] \in {"removeLockfile", "closing"}
  /\ lockfile' = Nobody
  /\ Go(p, IF at[p] = "closing" THEN "closingSocket" ELSE "removeSocket")
  /\ UNCHANGED <<socket, mutex, written, established, company>>

RemoveSocket(p) ==
  /\ at[p] \in {"removeSocket", "closingSocket"}
  /\ socket' = Nobody
  /\ Go(p, IF at[p] = "closingSocket" THEN "closed" ELSE "release")
  /\ UNCHANGED <<lockfile, mutex, written, established, company>>

\* A bug to catch: a refused starter keeps the mutex.
MutexLeft(p) == IF at[p] = "refuse" THEN mutex ELSE Nobody

\* The mutex file once p has unlinked it, whoever has created it.
MutexReleased(p) == Nobody

\* The finally of reclaimStaleDaemonAsync.
ReleaseMutex(p) ==
  /\ at[p] \in {"release", "refuse"}
  /\ mutex' = MutexReleased(p)
  /\ Go(p, IF at[p] = "refuse" THEN "failed" ELSE "relisten")
  /\ UNCHANGED <<socket, lockfile, written, established, company>>

-----------------------------------------------------------------------------
(* Closing and crashing *)

\* server.close(): the path is unlinked with the handle, at once, and connections
\* end before the artifacts are removed (closing).
Close(p) ==
  /\ p \in MayClose
  /\ at[p] = "serving"
  /\ socket' = Nobody
  /\ Go(p, "closing")
  /\ UNCHANGED <<lockfile, mutex, written, established, company>>

\* All files stay as they are.
Crash(p) ==
  /\ p \in MayCrash
  /\ Alive(p)
  /\ Go(p, "dead")
  /\ UNCHANGED <<socket, lockfile, mutex, written, established, company>>

-----------------------------------------------------------------------------
Terminating ==
  /\ \A p \in Processes : at[p] \in {"serving", "failed", "closed", "dead"}
  /\ UNCHANGED vars

Step(p) ==
  \/ Listen(p)
  \/ ListenAgain(p)
  \/ WriteLockfile(p)
  \/ CreateMutex(p)
  \/ WriteMutex(p)
  \/ ReadHolder(p)
  \/ UnlinkMutex(p)
  \/ RecreateMutex(p)
  \/ ReadLockfile(p)
  \/ Probe(p)
  \/ RemoveLockfile(p)
  \/ RemoveSocket(p)
  \/ ReleaseMutex(p)

Next ==
  \/ \E p \in Processes : Start(p) \/ Step(p) \/ Close(p) \/ Crash(p)
  \/ Terminating

\* System calls return; nobody has to start, close or crash.
Spec ==
  /\ Init
  /\ [][Next]_vars
  /\ \A p \in Processes : WF_vars(Step(p))

-----------------------------------------------------------------------------
(* Properties *)

\* A starter that meets no live process gets the path, whatever dead daemons and
\* dead reclaimers have left behind: stale socket, lockfile or mutex.
LoneStarterServes == \A p \in Processes : at[p] = "failed" => p \in company

\* A reclaim never removes the socket of a daemon that was serving when the reclaimer
\* read the lockfile, be it too busy to answer as long as it was recorded there, or
\* not recorded any more as long as it answers ("Two-factor stale detection - the
\* lockfile PID must be dead *and* a connect probe must fail - so a daemon that is
\* alive but momentarily unresponsive is never reclaimed underneath itself").
EstablishedStays ==
  [][\A p \in Processes :
       at[p] = "removeSocket" /\ RemoveSocket(p) /\ Answering =>
         socket \notin established[p]]_vars

\* Unless a process has crashed, the mutex does not outlive the reclaims.
MutexIsReleased ==
  (\A p \in Processes : at[p] \in {"out", "serving", "failed", "closed"}) =>
    mutex = Nobody

\* A reclaim or a late shutdown never deletes the socket that a live process has
\* bound ("only the mutex holder may unlink the socket path, so a concurrent starter
\* cannot delete a socket that another process just bound").
BoundStays ==
  [][\A p, q \in Processes : RemoveSocket(p) /\ socket = q /\ q # p =>
       at[q] \notin {"bound", "serving"}]_vars
=============================================================================
