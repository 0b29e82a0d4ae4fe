---------------------------- MODULE UdsOwnership ----------------------------
(***************************************************************************)
(* Ownership of the control plane's Unix socket between the processes of a *)
(* graceful upgrade: grpc/uds.rs (bind, prepare_path, Drop for Ownership)  *)
(* and spawn_control_plane_uds with bind_retry in grpc/transport.rs.       *)
(*                                                                         *)
(* Every system call is a step of its own, since the other process runs    *)
(* between any two of them.  A process can crash at any step; the kernel   *)
(* then closes its listener and releases its flock, and the socket file    *)
(* stays.  Inode numbers are reused as soon as the file is unlinked and    *)
(* the socket is closed.                                                   *)
(*                                                                         *)
(* The checks on the directory (private_socket_path) and on the kinds of   *)
(* the files involved precede the protocol and are not modelled.           *)
(***************************************************************************)
EXTENDS Naturals

CONSTANTS Procs,
          Inodes,        \* positive numbers
          None           \* nobody

ASSUME InodesAssumption == Inodes \subseteq Nat \ {0}
ASSUME NoneAssumption == None \notin Procs

VARIABLES file,     \* inode at the socket path, 0 when there is no file
          lock,     \* holder of the flock on the .lock file
          pc,
          upgrade,  \* started with --upgrade: bind_retry waits
          open,     \* inode of the listening socket of a process, 0 if none
          seen,     \* inode prepare_path looked at
          own,      \* inode in the Ownership guard, 0 if there is none
          alive,    \* the runtime that serves connections exists
          foreign,  \* inode of a listener that ignores the lock, 0 if none
          crashed,  \* History: some process ended without its cleanup
          tampered  \* History: someone has ignored the lock file

history == <<crashed, tampered>>
vars == <<file, lock, pc, upgrade, open, seen, own, alive, foreign, history>>

Init ==
  /\ file = 0
  /\ lock = None
  /\ pc = [p \in Procs |-> "off"]
  /\ upgrade = [p \in Procs |-> FALSE]
  /\ open = [p \in Procs |-> 0]
  /\ seen = [p \in Procs |-> 0]
  /\ own = [p \in Procs |-> 0]
  /\ alive = [p \in Procs |-> FALSE]
  /\ foreign = 0
  /\ crashed = FALSE /\ tampered = FALSE

Goto(p, step) == pc' = [pc EXCEPT ![p] = step]
Set(var, p, value) == [var EXCEPT ![p] = value]
Release(p) == lock' = IF lock = p THEN None ELSE lock

\* A socket is connectable while some process listens on it.
Listening(i) == i # 0 /\ (foreign = i \/ \E p \in Procs : open[p] = i)

-----------------------------------------------------------------------------
(* bind_retry and bind *)

Start(p) ==
  /\ pc[p] = "off"
  /\ \E u \in BOOLEAN : upgrade' = Set(upgrade, p, u)
  /\ Goto(p, "try")
  /\ UNCHANGED <<file, lock, open, seen, own, alive, foreign, history>>

\* bind returned: the File of the lock is dropped.  AddrInUse is retried with
\* --upgrade; any other error ends the API task.
BindReturns(p, retry) ==
  /\ Goto(p, IF retry /\ upgrade[p] THEN "sleep" ELSE "off")
  /\ Release(p)
  /\ seen' = Set(seen, p, 0)

Retry(p) ==
  /\ pc[p] = "sleep"
  /\ Goto(p, "try")
  /\ UNCHANGED <<file, lock, upgrade, open, seen, own, alive, foreign, history>>

\* Fault: the socket is prepared without holding the lock.
TryLockIgnored(p) ==
  /\ pc[p] = "try"
  /\ Goto(p, "prepare")
  /\ UNCHANGED <<file, lock, upgrade, open, seen, own, alive, foreign, history>>

TryLock(p) ==
  /\ pc[p] = "try"
  /\ \/ lock = None /\ lock' = p /\ Goto(p, "prepare") /\ UNCHANGED seen
     \/ lock # None /\ BindReturns(p, TRUE)
  /\ UNCHANGED <<file, upgrade, open, own, alive, foreign, history>>

\* prepare_path: symlink_metadata ...
Prepare(p) ==
  /\ pc[p] = "prepare"
  /\ seen' = Set(seen, p, file)
  /\ Goto(p, IF file = 0 THEN "bind" ELSE "probe")
  /\ UNCHANGED <<file, lock, upgrade, open, own, alive, foreign, history>>

\* ... the probe (a connection that is accepted, times out or is reset means that
\* the listener is or was alive; an error of another kind ends the API task) ...
Probe(p) ==
  /\ pc[p] = "probe"
  /\ \/ file = 0 /\ Goto(p, "bind") /\ UNCHANGED <<lock, seen>>
     \/ file # 0 /\ Listening(file) /\ BindReturns(p, TRUE)
     \/ file # 0 /\ ~Listening(file) /\ Goto(p, "recheck") /\ UNCHANGED <<lock, seen>>
     \/ BindReturns(p, FALSE)
  /\ UNCHANGED <<file, upgrade, open, own, alive, foreign, history>>

\* ... the comparison of the inode ...
Recheck(p) ==
  /\ pc[p] = "recheck"
  /\ \/ file = 0 /\ BindReturns(p, FALSE)
     \/ file # 0 /\ file # seen[p] /\ BindReturns(p, TRUE)
     \/ file # 0 /\ file = seen[p] /\ Goto(p, "unlink") /\ UNCHANGED <<lock, seen>>
  /\ UNCHANGED <<file, upgrade, open, own, alive, foreign, history>>

\* Fault: an abandoned socket is not removed.
UnlinkSkipped(p) ==
  /\ pc[p] = "unlink"
  /\ BindReturns(p, TRUE)
  /\ UNCHANGED <<file, upgrade, open, own, alive, foreign, history>>

\* ... and the removal of the abandoned socket.
Unlink(p) ==
  /\ pc[p] = "unlink"
  /\ \/ file = 0 /\ BindReturns(p, FALSE)
     \/ file # 0 /\ Goto(p, "bind") /\ UNCHANGED <<lock, seen>>
  /\ file' = 0
  /\ UNCHANGED <<upgrade, open, own, alive, foreign, history>>

Bind(p) ==
  /\ pc[p] = "bind"
  /\ \/ file # 0 /\ BindReturns(p, TRUE) /\ UNCHANGED <<file, open>>
     \/ \E i \in Inodes :
          /\ file = 0 /\ ~Listening(i)
          /\ file' = i
          /\ open' = Set(open, p, i)
          /\ Goto(p, "stat")
          /\ UNCHANGED <<lock, seen>>
  /\ UNCHANGED <<upgrade, own, alive, foreign, history>>

\* The inode for the guard; without a file the listener is dropped with the error.
Stat(p) ==
  /\ pc[p] = "stat"
  /\ \/ file = 0 /\ BindReturns(p, FALSE) /\ open' = Set(open, p, 0) /\ UNCHANGED own
     \/ /\ file # 0
        /\ own' = Set(own, p, file)
        /\ Goto(p, "chmod")
        /\ UNCHANGED <<lock, open, seen>>
  /\ UNCHANGED <<file, upgrade, alive, foreign, history>>

\* set_uds_permissions.  When it fails the guard is dropped before the listener.
Chmod(p) ==
  /\ pc[p] = "chmod"
  /\ \/ file # 0 /\ Goto(p, "serving") /\ alive' = Set(alive, p, TRUE)
     \/ Goto(p, "check") /\ UNCHANGED alive
  /\ UNCHANGED <<file, lock, upgrade, open, seen, own, foreign, history>>

-----------------------------------------------------------------------------
(* shutdown *)

\* Shutdown while bind_retry waits at one of its await points.
Cancel(p) ==
  /\ pc[p] \in {"sleep", "probe"}
  /\ BindReturns(p, FALSE)
  /\ UNCHANGED <<file, upgrade, open, own, alive, foreign, history>>

\* Fault: the guard is dropped before the runtime.
StopGuardFirst(p) ==
  /\ pc[p] = "serving"
  /\ Goto(p, "check")
  /\ UNCHANGED <<file, lock, upgrade, open, seen, own, alive, foreign, history>>

\* Shutdown, or the end of the server: the runtime is dropped with its listener
\* and every connection, then the guard.
Stop(p) ==
  /\ pc[p] = "serving"
  /\ open' = Set(open, p, 0)
  /\ alive' = Set(alive, p, FALSE)
  /\ Goto(p, "check")
  /\ UNCHANGED <<file, lock, upgrade, seen, own, foreign, history>>

\* Drop for Ownership: compare the inode, remove the file, release the lock.
DropCheck(p) ==
  /\ pc[p] = "check"
  /\ Goto(p, IF file = own[p] THEN "remove" ELSE "release")
  /\ UNCHANGED <<file, lock, upgrade, open, seen, own, alive, foreign, history>>

\* Fault: the socket file is left behind.
DropRemoveSkipped(p) ==
  /\ pc[p] = "remove"
  /\ Goto(p, "release")
  /\ UNCHANGED <<file, lock, upgrade, open, seen, own, alive, foreign, history>>

DropRemove(p) ==
  /\ pc[p] = "remove"
  /\ file' = 0
  /\ Goto(p, "release")
  /\ UNCHANGED <<lock, upgrade, open, seen, own, alive, foreign, history>>

DropLock(p) ==
  /\ pc[p] = "release"
  /\ Release(p)
  /\ own' = Set(own, p, 0)
  /\ Goto(p, IF open[p] = 0 THEN "off" ELSE "close")
  /\ UNCHANGED <<file, upgrade, open, seen, alive, foreign, history>>

\* The listener of a bind that failed after its guard existed.
CloseListener(p) ==
  /\ pc[p] = "close"
  /\ open' = Set(open, p, 0)
  /\ alive' = Set(alive, p, FALSE)
  /\ Goto(p, "off")
  /\ UNCHANGED <<file, lock, upgrade, seen, own, foreign, history>>

\* The process is killed, or exits before its detached API thread has finished.
Crash(p) ==
  /\ pc[p] # "off"
  /\ Goto(p, "off")
  /\ Release(p)
  /\ open' = Set(open, p, 0)
  /\ seen' = Set(seen, p, 0)
  /\ own' = Set(own, p, 0)
  /\ alive' = Set(alive, p, FALSE)
  /\ crashed' = TRUE
  /\ UNCHANGED <<file, upgrade, foreign, tampered>>

\* Someone who does not honour the lock removes the socket file, binds a socket at
\* its path, or ends and abandons it.
Interfere ==
  /\ tampered' = TRUE
  /\ \/ file # 0 /\ file' = 0 /\ UNCHANGED foreign
     \/ /\ file = 0 /\ foreign = 0
        /\ \E i \in Inodes : ~Listening(i) /\ file' = i /\ foreign' = i
     \/ foreign # 0 /\ foreign' = 0 /\ UNCHANGED file
  /\ UNCHANGED <<lock, pc, upgrade, open, seen, own, alive, crashed>>

-----------------------------------------------------------------------------
\* The steps a process takes by itself once it has been started or told to stop.
Step(p) ==
  \/ Retry(p) \/ TryLock(p) \/ Prepare(p) \/ Probe(p) \/ Recheck(p) \/ Unlink(p)
  \/ Bind(p) \/ Stat(p) \/ Chmod(p)
  \/ DropCheck(p) \/ DropRemove(p) \/ DropLock(p) \/ CloseListener(p)

Next ==
  \/ \E p \in Procs : Start(p) \/ Step(p) \/ Cancel(p) \/ Stop(p) \/ Crash(p)
  \/ Interfere

\* Started processes run.  Nothing forces a process to start, stop or crash.
Fairness == \A p \in Procs : WF_vars(Step(p))

Spec == Init /\ [][Next]_vars /\ Fairness

-----------------------------------------------------------------------------
Steps ==
  {"off", "try", "sleep", "prepare", "probe", "recheck", "unlink", "bind", "stat",
   "chmod", "serving", "check", "remove", "release", "close"}

\* The types of the socket path, the lock and the processes' state.
TypeOK ==
  /\ file \in Inodes \cup {0}
  /\ lock \in Procs \cup {None}
  /\ pc \in [Procs -> Steps]
  /\ upgrade \in [Procs -> BOOLEAN]
  /\ open \in [Procs -> Inodes \cup {0}]
  /\ seen \in [Procs -> Inodes \cup {0}]
  /\ own \in [Procs -> Inodes \cup {0}]
  /\ alive \in [Procs -> BOOLEAN]
  /\ foreign \in Inodes \cup {0}
  /\ crashed \in BOOLEAN /\ tampered \in BOOLEAN

\* "Keeps socket ownership until every task on the dedicated runtime has
\* stopped": two processes never serve the API at the same time, even when
\* someone tampers with the socket file.
OneServer == \A p, q \in Procs : alive[p] /\ alive[q] => p = q

\* A process that serves is reachable: as long as everyone honours the lock nobody
\* removes or replaces its socket, so a stale socket is told from a live one under
\* every interleaving and crash.
ServingReachable ==
  ~tampered => \A p \in Procs : pc[p] = "serving" => file = own[p] /\ open[p] = file

\* Cleanup after a regular end: without crashes no socket file outlives the
\* processes.
NoLeftover == (\A p \in Procs : pc[p] = "off") /\ ~crashed /\ ~tampered => file = 0

\* "Cooperating processes wait for live listeners; abandoned sockets are removed
\* on the next bind": a replacement that keeps waiting with --upgrade serves once
\* the other processes are gone, whatever a crash left behind.
ReplacementServes ==
  \A p \in Procs :
    <>[](~tampered /\ upgrade[p] /\ pc[p] # "off" /\ \A q \in Procs \ {p} : pc[q] = "off")
      => <>(pc[p] = "serving")
=============================================================================
