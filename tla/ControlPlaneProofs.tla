------------------------- MODULE ControlPlaneProofs -------------------------
(***************************************************************************)
(* Proofs about the two ends of the control plane's socket: UdsOwnership,  *)
(* for any number of processes and inodes, and SyncClient, for any number  *)
(* of snapshots, runs and faults.                                          *)
(*                                                                         *)
(* Ownership of the socket has two parts.  The flock is held from the step *)
(* after try_lock to the release in Drop for Ownership, and a runtime      *)
(* lives only inside that section: mutual exclusion follows whatever       *)
(* happens to the socket file.  When everybody honours the lock, only the  *)
(* holder touches the file, so the file is the holder's socket from bind   *)
(* to cleanup.                                                             *)
(*                                                                         *)
(* The client's promise is Status: a client that says Synced has seen the  *)
(* server with the desired version, since this version has been the        *)
(* desired one.                                                            *)
(***************************************************************************)
EXTENDS UdsOwnership, SyncClient, TLAPS

\* Steps at which a process holds the flock.
Holding ==
  {"prepare", "probe", "recheck", "unlink", "bind", "stat", "chmod", "serving",
   "check", "remove", "release"}

\* A process in the section holds the flock, and serves only inside it.
Exclusive ==
  \A p \in Procs :
    /\ pc[p] \in Holding => lock = p
    /\ alive[p] => pc[p] = "serving"

IInv == TypeOK /\ Exclusive

\* The initial state satisfies the inductive invariant.
LEMMA InitIInv == Init => IInv
BY NoneAssumption DEF Init, IInv, TypeOK, Exclusive, Holding, Steps

\* Every step, those of someone who ignores the lock included, preserves it.
LEMMA NextIInv == IInv /\ [Next]_vars => IInv'
<1> SUFFICES ASSUME IInv, [Next]_vars PROVE IInv'
  OBVIOUS
<1> USE NoneAssumption, InodesAssumption
<1>1. CASE UNCHANGED vars
  BY <1>1 DEF vars, history, IInv, TypeOK, Exclusive
<1>2. CASE Interfere
  BY <1>2 DEF Interfere, IInv, TypeOK, Exclusive
<1>3. ASSUME NEW p \in Procs,
             \/ Start(p) \/ Step(p) \/ Cancel(p) \/ Stop(p) \/ Crash(p)
      PROVE IInv'
  <2> USE DEF IInv, TypeOK, Exclusive, Goto, Set, Release, Holding, Steps, history
  <2>1. CASE Start(p)
    BY <2>1 DEF Start
  <2>2. CASE Cancel(p)
    BY <2>2 DEF Cancel, BindReturns
  <2>3. CASE Stop(p)
    BY <2>3 DEF Stop
  <2>4. CASE Crash(p)
    BY <2>4 DEF Crash
  <2>5. CASE Retry(p)
    BY <2>5 DEF Retry
  <2>6. CASE TryLock(p)
    BY <2>6 DEF TryLock, BindReturns
  <2>7. CASE Prepare(p)
    BY <2>7 DEF Prepare
  <2>8. CASE Probe(p)
    BY <2>8 DEF Probe, BindReturns
  <2>9. CASE Recheck(p)
    BY <2>9 DEF Recheck, BindReturns
  <2>10. CASE Unlink(p)
    BY <2>10 DEF Unlink, BindReturns
  <2>11. CASE Bind(p)
    BY <2>11 DEF Bind, BindReturns
  <2>12. CASE Stat(p)
    BY <2>12 DEF Stat, BindReturns
  <2>13. CASE Chmod(p)
    BY <2>13 DEF Chmod
  <2>14. CASE DropCheck(p)
    BY <2>14 DEF DropCheck
  <2>15. CASE DropRemove(p)
    BY <2>15 DEF DropRemove
  <2>16. CASE DropLock(p)
    BY <2>16 DEF DropLock
  <2>17. CASE CloseListener(p)
    BY <2>17 DEF CloseListener
  <2> QED
    BY <1>3, <2>1, <2>2, <2>3, <2>4, <2>5, <2>6, <2>7, <2>8, <2>9, <2>10, <2>11,
       <2>12, <2>13, <2>14, <2>15, <2>16, <2>17 DEF Step
<1> QED
  BY <1>1, <1>2, <1>3 DEF Next

\* Types and mutual exclusion of the section, for every behaviour.
THEOREM Invariance == Spec => []IInv
BY InitIInv, NextIInv, PTL DEF Spec

\* At most one process serves the control plane, for any number of processes and
\* also when the socket file is tampered with.
THEOREM MutualExclusion == Spec => []OneServer
<1>1. IInv => OneServer
  BY DEF IInv, Exclusive, OneServer, Holding
<1> QED
  BY <1>1, Invariance, PTL

-----------------------------------------------------------------------------
(* When everybody honours the lock. *)

\* Steps at which the socket file exists and belongs to the process.
Created == {"stat", "chmod", "serving", "check", "remove"}

\* The socket file is the one the holder of the flock last looked at, created or
\* took over, and after regular ends only such a process leaves it there.
FileInv == ~tampered =>
  /\ foreign = 0
  /\ \A p \in Procs :
       /\ pc[p] = "bind" => file = 0
       /\ pc[p] \in {"probe", "recheck", "unlink"} => file # 0 /\ file = seen[p]
       /\ pc[p] = "stat" => file # 0 /\ file = open[p]
       /\ pc[p] \in {"chmod", "serving"} => file # 0 /\ file = open[p] /\ file = own[p]
       /\ pc[p] \in {"check", "remove"} => file # 0 /\ file = own[p]
  /\ file # 0 /\ ~crashed => \E p \in Procs : pc[p] \in Created

\* A step of a process preserves FileInv: only the holder of the flock changes
\* the socket file.
LEMMA NextFileInv ==
  ASSUME IInv, FileInv, [Next]_vars
  PROVE  FileInv'
<1> USE InodesAssumption
<1>1. CASE UNCHANGED vars
  BY <1>1 DEF vars, history, FileInv
<1>2. CASE Interfere
  BY <1>2 DEF Interfere, FileInv
<1>3. ASSUME NEW p \in Procs,
             \/ Start(p) \/ Step(p) \/ Cancel(p) \/ Stop(p) \/ Crash(p)
      PROVE FileInv'
  <2> USE DEF IInv, TypeOK, Exclusive, FileInv, Goto, Set, Release, Holding, Steps,
              Created, history
  <2>1. CASE Start(p)
    BY <2>1 DEF Start
  <2>2. CASE Cancel(p)
    BY <2>2 DEF Cancel, BindReturns
  <2>3. CASE Stop(p)
    BY <2>3 DEF Stop
  <2>4. CASE Crash(p)
    BY <2>4 DEF Crash
  <2>5. CASE Retry(p)
    BY <2>5 DEF Retry
  <2>6. CASE TryLock(p)
    BY <2>6 DEF TryLock, BindReturns
  <2>7. CASE Prepare(p)
    BY <2>7 DEF Prepare
  <2>8. CASE Probe(p)
    BY <2>8 DEF Probe, BindReturns
  <2>9. CASE Recheck(p)
    BY <2>9 DEF Recheck, BindReturns
  <2>10. CASE Unlink(p)
    BY <2>10 DEF Unlink, BindReturns
  <2>11. CASE Bind(p)
    BY <2>11 DEF Bind, BindReturns
  <2>12. CASE Stat(p)
    BY <2>12 DEF Stat, BindReturns
  <2>13. CASE Chmod(p)
    BY <2>13 DEF Chmod
  <2>14. CASE DropCheck(p)
    BY <2>14 DEF DropCheck
  <2>15. CASE DropRemove(p)
    BY <2>15 DEF DropRemove
  <2>16. CASE DropLock(p)
    BY <2>16 DEF DropLock
  <2>17. CASE CloseListener(p)
    BY <2>17 DEF CloseListener
  <2> QED
    BY <1>3, <2>1, <2>2, <2>3, <2>4, <2>5, <2>6, <2>7, <2>8, <2>9, <2>10, <2>11,
       <2>12, <2>13, <2>14, <2>15, <2>16, <2>17 DEF Step
<1> QED
  BY <1>1, <1>2, <1>3 DEF Next

\* FileInv holds in every behaviour of processes that honour the lock.
LEMMA FileInvariance == Spec => []FileInv
<1>1. Init => FileInv
  BY DEF Init, FileInv
<1>2. IInv /\ FileInv /\ [Next]_vars => FileInv'
  BY NextFileInv
<1> QED
  BY <1>1, <1>2, Invariance, PTL DEF Spec

\* Nobody removes or replaces the socket of a process that serves, although stale
\* sockets of crashed processes are removed, for any number of processes.
THEOREM Reachability == Spec => []ServingReachable
<1>1. FileInv => ServingReachable
  BY DEF FileInv, ServingReachable
<1> QED
  BY <1>1, FileInvariance, PTL

\* Without crashes no socket file outlives the processes.
THEOREM CleanShutdown == Spec => []NoLeftover
<1>1. FileInv => NoLeftover
  BY DEF FileInv, NoLeftover, Created
<1> QED
  BY <1>1, FileInvariance, PTL

-----------------------------------------------------------------------------
(* The client *)

Places == {"idle", "await", "wait", "get", "compare", "apply", "result", "return"}

\* The types that the argument needs.
ClientTypes ==
  /\ desired \in [id : Nat, version : Versions]
  /\ sample \in [id : Nat, version : Versions]
  /\ status = [synced |-> status.synced, confirmed |-> status.confirmed,
               error |-> status.error]
  /\ status.synced \in BOOLEAN
  /\ at \in Places
  /\ ready => up

\* An attempt works on the desired snapshot or on an earlier one.
SampleOld ==
  /\ sample.id <= desired.id
  /\ sample.id = desired.id => sample = desired

\* What is active has been observed, and so has what an attempt was told, as long
\* as it is about the current snapshot.
Seen ==
  /\ up => active \in observed
  /\ at = "compare" /\ Current => reply \in observed
  /\ at = "result" /\ result = "nil" /\ Current => sample.version \in observed

ClientInv == ClientTypes /\ SampleOld /\ Seen /\ SyncedMeansObserved

\* NewUDS: nothing is desired and nothing confirmed.
LEMMA ClientInitInv == ClientInit => ClientInv
BY OptionsAssumption
DEF ClientInit, ClientInv, ClientTypes, Places, SampleOld, Seen, SyncedMeansObserved,
    Running, Current

\* A new snapshot makes every attempt that is under way obsolete.
LEMMA SetInv == ASSUME ClientInv, NEW v \in Versions, SetSnapshot(v) PROVE ClientInv'
<1>1. desired'.id = desired.id + 1 /\ desired' \in [id : Nat, version : Versions]
  BY DEF SetSnapshot, ClientInv, ClientTypes
<1>2. ClientTypes'
  BY <1>1 DEF SetSnapshot, ClientInv, ClientTypes, channel, attempt
<1>3. SampleOld'
  BY <1>1 DEF SetSnapshot, ClientInv, ClientTypes, SampleOld, attempt
<1>4. Seen'
  BY <1>1 DEF SetSnapshot, ClientInv, ClientTypes, SampleOld, Seen, Current, attempt
<1>5. SyncedMeansObserved'
  BY DEF SetSnapshot, ClientInv, ClientTypes, SyncedMeansObserved
<1> QED
  BY <1>2, <1>3, <1>4, <1>5 DEF ClientInv

\* A look at the desired snapshot is a look at the newest.
LEMMA WaitInv == ASSUME ClientInv, AwaitDesired \/ WaitNotReady \/ WaitOver PROVE ClientInv'
<1> USE DEF ClientInv, ClientTypes, Places, SampleOld, Seen, SyncedMeansObserved, Running, Current,
            channel, attempt
<1>1. CASE AwaitDesired
  BY <1>1 DEF AwaitDesired
<1>2. CASE WaitNotReady
  BY <1>2 DEF WaitNotReady
<1>3. CASE WaitOver
  BY <1>3 DEF WaitOver
<1> QED
  BY <1>1, <1>2, <1>3

\* The result of an attempt counts only if its snapshot is still the desired one.
LEMMA ResultInv == ASSUME ClientInv, Result PROVE ClientInv'
<1>1. CASE Current
  BY <1>1 DEF Result, ClientInv, ClientTypes, Places, SampleOld, Seen, SyncedMeansObserved, Running,
              Current, channel
<1>2. CASE ~Current
  BY <1>2 DEF Result, ClientInv, ClientTypes, Places, SampleOld, Seen, SyncedMeansObserved, Running,
              Current, channel
<1> QED
  BY <1>1, <1>2

\* Run begins, or ends for whatever reason.
LEMMA RunInv == ASSUME ClientInv, Run \/ CancelRun \/ Return PROVE ClientInv'
<1> USE DEF ClientInv, ClientTypes, Places, SampleOld, Seen, SyncedMeansObserved, Running, Current,
            channel, attempt, Exit
<1>1. CASE Run
  BY <1>1 DEF Run
<1>2. CASE CancelRun
  BY <1>2 DEF CancelRun
<1>3. CASE Return
  BY <1>3 DEF Return
<1> QED
  BY <1>1, <1>2, <1>3

\* An apply, of the client or of another, adds to what has been observed.
LEMMA ServeGrows ==
  ASSUME NEW v, Serve(v), up, ClientInv
  PROVE  observed \subseteq observed' /\ active' \in observed'
         /\ (Verdict[v] = "applied" => v \in observed')
BY DEF Serve, ClientInv, Seen

\* The steps of reconcile.
LEMMA ReconcileInv ==
  ASSUME ClientInv, GetSnapshot \/ GetFails \/ Compare \/ ApplySnapshot \/ ApplyFails
  PROVE  ClientInv'
<1> USE DEF ClientInv, ClientTypes, Places, SampleOld, Seen, SyncedMeansObserved, Running, Current,
            End
<1>1. CASE GetSnapshot
  BY <1>1 DEF GetSnapshot, channel
<1>2. CASE GetFails
  BY <1>2 DEF GetFails, RpcFails, channel
<1>3. CASE Compare
  BY <1>3 DEF Compare, channel
<1>4. CASE ApplySnapshot
  <2>1. observed \subseteq observed' /\ active' \in observed'
        /\ (Verdict[sample.version] = "applied" => sample.version \in observed')
    BY <1>4, ServeGrows DEF ApplySnapshot
  <2> QED
    BY <1>4, <2>1 DEF ApplySnapshot
<1>5. CASE ApplyFails
  <2>1. up => observed \subseteq observed' /\ active' \in observed'
    BY <1>5, ServeGrows DEF ApplyFails
  <2>2. observed \subseteq observed' /\ (up' => active' \in observed')
    BY <1>5, <2>1 DEF ApplyFails
  <2>3. at' = "result" /\ result' # "nil"
    BY <1>5 DEF ApplyFails, RpcFails
  <2> QED
    BY <1>5, <2>2, <2>3 DEF ApplyFails
<1> QED
  BY <1>1, <1>2, <1>3, <1>4, <1>5

\* The server and the channel, whatever happens to them.
LEMMA ServerInv ==
  ASSUME ClientInv,
         \/ Connect \/ Restart \/ ServerCrash
         \/ \E v \in Versions : LateApply(v) \/ ForeignWrite(v)
  PROVE  ClientInv'
<1> USE DEF ClientInv, ClientTypes, Places, SampleOld, Seen, SyncedMeansObserved, Running, Current,
            attempt
<1>1. CASE Connect
  BY <1>1 DEF Connect
<1>2. CASE Restart
  BY <1>2 DEF Restart
<1>3. CASE ServerCrash
  BY <1>3 DEF ServerCrash
<1>4. ASSUME NEW v \in Versions, LateApply(v) \/ ForeignWrite(v) PROVE ClientInv'
  <2>1. observed \subseteq observed' /\ (up => active' \in observed')
    BY <1>4 DEF LateApply, ForeignWrite, Serve
  <2> QED
    BY <1>4, <2>1 DEF LateApply, ForeignWrite
<1> QED
  BY <1>1, <1>2, <1>3, <1>4

\* The inductive invariant of the client: attempts are never about a later snapshot,
\* and what they report about the current one has been observed.
THEOREM ClientInvariance == ClientSpec => []ClientInv
<1>1. ClientInv /\ [ClientNext]_clientVars => ClientInv'
  <2> SUFFICES ASSUME ClientInv, [ClientNext]_clientVars PROVE ClientInv'
    OBVIOUS
  <2>1. CASE UNCHANGED clientVars
    BY <2>1 DEF clientVars, attempt, channel, ClientInv, ClientTypes, SampleOld, Seen,
                SyncedMeansObserved, Running, Current
  <2>2. ASSUME NEW v \in Versions, SetSnapshot(v) PROVE ClientInv'
    BY <2>2, SetInv
  <2> QED
    BY <2>1, <2>2, WaitInv, ResultInv, RunInv, ReconcileInv, ServerInv
    DEF ClientNext, RunStep, Server
<1> QED
  BY <1>1, ClientInitInv, PTL DEF ClientSpec

\* "a result for an older desired version cannot acknowledge a newer one", in every
\* interleaving of SetSnapshot with an attempt and whatever happens to the server.
THEOREM SyncedTheorem == ClientSpec => []SyncedMeansObserved
<1>1. ClientInv => SyncedMeansObserved
  BY DEF ClientInv
<1> QED
  BY <1>1, ClientInvariance, PTL

-----------------------------------------------------------------------------
(* Types of the client, and the limits of its delay *)

\* What a truth value is.
LEMMA TestBoolean == ASSUME NEW a, NEW b PROVE (a = b) \in BOOLEAN
<1>1. CASE a = b
  <2>1. (a = b) = TRUE
    BY <1>1
  <2> QED
    BY <2>1, Zenon
<1>2. CASE a # b
  <2>1. (a = b) = FALSE
    BY <1>2
  <2> QED
    BY <2>1, Zenon
<1> QED
  BY <1>1, <1>2

\* Doubling ends at the greatest delay, also where that is odd or less than twice the least.
LEMMA DoubleWithin ==
  ASSUME retry \in RetryMin .. RetryMax PROVE Double \in RetryMin .. RetryMax
<1>1. RetryMin \in Nat \ {0} /\ RetryMax \in Nat /\ RetryMin <= RetryMax
  BY OptionsAssumption
<1> QED
  BY <1>1 DEF Double

\* An RPC that fails leaves one of the results that Run knows.
LEMMA RpcFailsType ==
  ASSUME RpcFails
  PROVE  at' = "result" /\ result' \in {"transient", "permanent"}
BY DEF RpcFails, Fault, End

LEMMA ServeType ==
  ASSUME ClientTypeOK, NEW v \in Versions, Serve(v) \/ UNCHANGED <<active, observed>>
  PROVE  active' \in Versions /\ observed' \subseteq Versions
BY DEF ClientTypeOK, Serve

LEMMA ClientTypeNext == ClientTypeOK /\ [ClientNext]_clientVars => ClientTypeOK'
<1> SUFFICES ASSUME ClientTypeOK, [ClientNext]_clientVars PROVE ClientTypeOK'
  OBVIOUS
<1>0. RetryMin \in RetryMin .. RetryMax
  BY OptionsAssumption
<1>1. CASE UNCHANGED clientVars
  BY <1>1 DEF clientVars, attempt, channel, ClientTypeOK
<1>2. ASSUME NEW v \in Versions, SetSnapshot(v) PROVE ClientTypeOK'
  <2>1. desired' \in [id : 0 .. MaxSets, version : Versions]
    <3>1. desired.id \in 0 .. MaxSets /\ desired.id < MaxSets /\ MaxSets \in Nat
      BY <1>2, OptionsAssumption DEF SetSnapshot, ClientTypeOK
    <3>2. desired.id + 1 \in 0 .. MaxSets
      BY <3>1
    <3> QED
      BY <1>2, <3>2 DEF SetSnapshot
  <2>2. status' \in [synced : BOOLEAN, confirmed : Versions,
                     error : {"nil", "transient", "permanent", "canceled"}]
    BY <1>2 DEF SetSnapshot, ClientTypeOK
  <2>3. observed' \subseteq Versions /\ wake' \in BOOLEAN
    BY <1>2 DEF SetSnapshot, ClientTypeOK
  <2> QED
    BY <1>2, <2>1, <2>2, <2>3 DEF SetSnapshot, attempt, ClientTypeOK
<1>3. ASSUME NEW v \in Versions, ForeignWrite(v) PROVE ClientTypeOK'
  BY <1>3, ServeType DEF ForeignWrite, attempt, ClientTypeOK
<1>4. CASE Run
  BY <1>0, <1>4 DEF Run, channel, ClientTypeOK
<1>5. CASE CancelRun
  <2>1. late' \in [Versions -> Nat]
    <3>1. sample.version \in Versions
      BY DEF ClientTypeOK
    <3> QED
      BY <1>5, <3>1 DEF CancelRun, ClientTypeOK
  <2> QED
    BY <1>5, <2>1 DEF CancelRun, Exit, attempt, ClientTypeOK
<1>6. CASE AwaitDesired
  BY <1>6 DEF AwaitDesired, attempt, channel, ClientTypeOK
<1>7. CASE WaitNotReady
  BY <1>7 DEF WaitNotReady, channel, ClientTypeOK
<1>8. CASE WaitOver
  BY <1>0, <1>8 DEF WaitOver, channel, ClientTypeOK
<1>9. CASE Result
  <2>1. PICK done : done = (result = "nil")
    OBVIOUS
  <2>2. done \in BOOLEAN
    BY <2>1, TestBoolean
  <2>3. status' \in [synced : BOOLEAN, confirmed : Versions,
                     error : {"nil", "transient", "permanent", "canceled"}]
    BY <1>9, <2>1, <2>2 DEF Result, ClientTypeOK
  <2>4. retry' \in RetryMin .. RetryMax
    BY <1>0, <1>9, DoubleWithin DEF Result, ClientTypeOK
  <2> QED
    BY <1>9, <2>3, <2>4 DEF Result, channel, ClientTypeOK
<1>10. CASE Return
  BY <1>10 DEF Return, Exit, attempt, ClientTypeOK
<1>11. CASE GetSnapshot
  BY <1>11 DEF GetSnapshot, channel, ClientTypeOK
<1>12. CASE GetFails
  BY <1>12, RpcFailsType DEF GetFails, channel, ClientTypeOK
<1>13. CASE Compare
  BY <1>13 DEF Compare, End, channel, ClientTypeOK
<1>14. CASE ApplySnapshot
  <2>1. sample.version \in Versions
    BY DEF ClientTypeOK
  <2>2. active' \in Versions /\ observed' \subseteq Versions
    BY <1>14, <2>1, ServeType DEF ApplySnapshot
  <2> QED
    BY <1>14, <2>2 DEF ApplySnapshot, End, ClientTypeOK
<1>15. CASE ApplyFails
  <2>1. sample.version \in Versions
    BY DEF ClientTypeOK
  <2>2. active' \in Versions /\ observed' \subseteq Versions
    BY <1>15, <2>1, ServeType DEF ApplyFails
  <2>3. late' \in [Versions -> Nat]
    BY <1>15, <2>1 DEF ApplyFails, ClientTypeOK
  <2> QED
    BY <1>15, <2>2, <2>3, RpcFailsType DEF ApplyFails, ClientTypeOK
<1>16. CASE Connect
  BY <1>16 DEF Connect, attempt, ClientTypeOK
<1>17. CASE Restart
  BY <1>17, OptionsAssumption DEF Restart, attempt, ClientTypeOK
<1>18. ASSUME NEW v \in Versions, LateApply(v) PROVE ClientTypeOK'
  <2>1. active' \in Versions /\ observed' \subseteq Versions
    BY <1>18, ServeType DEF LateApply
  <2>2. late' \in [Versions -> Nat]
    BY <1>18 DEF LateApply, ClientTypeOK
  <2> QED
    BY <1>18, <2>1, <2>2 DEF LateApply, attempt, ClientTypeOK
<1>19. CASE ServerCrash
  <2>1. reconnected' \in BOOLEAN
    <3>1. CASE reconnected' = reconnected
      BY <3>1 DEF ClientTypeOK
    <3>2. CASE reconnected' = (at = "wait")
      BY <3>2, TestBoolean
    <3> QED
      BY <1>19, <3>1, <3>2 DEF ServerCrash
  <2> QED
    BY <1>19, <2>1 DEF ServerCrash, ClientTypeOK
<1> QED
  BY <1>1, <1>2, <1>3, <1>4, <1>5, <1>6, <1>7, <1>8, <1>9, <1>10, <1>11, <1>12, <1>13,
     <1>14, <1>15, <1>16, <1>17, <1>18, <1>19
  DEF ClientNext, RunStep, Server

\* The client's state keeps its types, and the delay before the next attempt is never
\* less than RetryMin nor more than RetryMax, for every choice of them.
THEOREM ClientTypeTheorem == ClientSpec => []ClientTypeOK
<1>1. ClientInit => ClientTypeOK
  <2> SUFFICES ASSUME ClientInit PROVE ClientTypeOK
    OBVIOUS
  <2>1. 0 \in 0 .. MaxSets /\ RetryMin \in RetryMin .. RetryMax /\ Bootstrap \in Versions
    BY OptionsAssumption
  <2>2. desired \in [id : 0 .. MaxSets, version : Versions]
    BY <2>1 DEF ClientInit
  <2>3. status \in [synced : BOOLEAN, confirmed : Versions,
                    error : {"nil", "transient", "permanent", "canceled"}]
    BY <2>1 DEF ClientInit
  <2> QED
    BY <2>1, <2>2, <2>3 DEF ClientInit, ClientTypeOK
<1> QED
  BY <1>1, ClientTypeNext, PTL DEF ClientSpec
=============================================================================
