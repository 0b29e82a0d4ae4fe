----------------------------- MODULE SyncClient -----------------------------
(***************************************************************************)
(* The Go client that keeps a desired snapshot applied to a local process  *)
(* (sdk/go/client/client.go), with the server seen through its two RPCs    *)
(* (grpc.rs; RuntimeControl has the details of an apply).                  *)
(*                                                                         *)
(* RPCs can time out before, while or after they are served, and an apply  *)
(* that was given up can still be served later.  The server can crash and  *)
(* be replaced by a process with the bootstrap configuration, and others   *)
(* can write.  Time is left out: a delay ends at any moment.               *)
(***************************************************************************)
EXTENDS Naturals

CONSTANTS Versions,     \* versions of snapshots
          Bootstrap,    \* the version a new process starts with
          Verdict,      \* of the server on each version, see Verdicts
          RetryMin, RetryMax,
          MaxSets,      \* bound: calls of SetSnapshot
          MaxRuns,      \* bound: calls of Run
          MaxFaults     \* bound: timeouts, crashes and foreign writes

Verdicts == {"applied", "rejected", "restart", "malformed"}

\* NewUDS requires RetryMin <= RetryMax; zero is replaced by a default.
ASSUME OptionsAssumption ==
  /\ {MaxSets, MaxRuns, MaxFaults, RetryMin, RetryMax} \subseteq Nat
  /\ 0 < RetryMin /\ RetryMin <= RetryMax
  /\ Bootstrap \in Versions /\ Verdict \in [Versions -> Verdicts]

VARIABLES desired,     \* c.desired: version, and the call of SetSnapshot it is from
          wake,        \* the channel c.wake holds a token
          status,      \* c.state: synced, confirmed, error
          at,          \* where Run is, "idle" when it does not run
          sample,      \* desired, as the current attempt has read it
          reply,       \* version that GetSnapshot has returned
          result,      \* what reconcile returns: "nil", "transient", "permanent"
          retry,       \* retry
          reconnected, \* reconnected of waitForAttempt
          ready,       \* the channel is Ready
          up, active,  \* the server runs, and its active version
          late,        \* applies that were given up and may still be served
          runs, faults,
          observed     \* history: versions active since desired was set

channel == <<ready, up, active, late, observed>>
attempt == <<sample, reply, result, retry, reconnected>>
clientVars == <<desired, wake, status, at, attempt, channel, runs, faults>>

ClientInit ==
  /\ desired = [id |-> 0, version |-> Bootstrap]
  /\ wake = FALSE
  /\ status = [synced |-> FALSE, confirmed |-> Bootstrap, error |-> "nil"]
  /\ at = "idle"
  /\ sample = desired /\ reply = Bootstrap /\ result = "nil"
  /\ retry = RetryMin /\ reconnected = FALSE
  /\ ready = FALSE
  /\ up = TRUE /\ active = Bootstrap
  /\ late = [v \in Versions |-> 0]
  /\ runs = 0 /\ faults = 0
  /\ observed = {Bootstrap}

Fault == faults < MaxFaults /\ faults' = faults + 1

-----------------------------------------------------------------------------
(* The callers *)

\* The version that is desired already is left alone.
SetSnapshot(v) ==
  /\ desired.id < MaxSets
  /\ desired.id = 0 \/ v # desired.version
  /\ desired' = [id |-> desired.id + 1, version |-> v]
  /\ status' = [status EXCEPT !.synced = FALSE, !.error = "nil"]
  /\ wake' = TRUE
  /\ observed' = IF up THEN {active} ELSE {}
  /\ UNCHANGED <<at, attempt, ready, up, active, late, runs, faults>>

\* Run makes a connection, and waits for the first snapshot if there is none.
Run ==
  /\ at = "idle" /\ runs < MaxRuns
  /\ runs' = runs + 1
  /\ at' = IF desired.id = 0 THEN "await" ELSE "wait"
  /\ retry' = RetryMin /\ reconnected' = FALSE
  /\ UNCHANGED <<desired, wake, status, sample, reply, result, channel, faults>>

\* The deferred functions of Run.
Exit(error) ==
  /\ at' = "idle"
  /\ status' = [status EXCEPT !.synced = FALSE, !.error = error]
  /\ ready' = FALSE

\* The context is cancelled, wherever Run is; an apply may be under way.
CancelRun ==
  /\ at # "idle" /\ Fault
  /\ Exit("canceled")
  /\ \/ UNCHANGED late
     \/ at = "apply" /\ ready /\ late' = [late EXCEPT ![sample.version] = @ + 1]
  /\ UNCHANGED <<desired, wake, attempt, up, active, observed, runs>>

-----------------------------------------------------------------------------
(* run and waitForAttempt *)

AwaitDesired ==
  /\ at = "await" /\ wake
  /\ wake' = FALSE
  /\ at' = "wait"
  /\ UNCHANGED <<desired, status, attempt, channel, runs, faults>>

WaitNotReady ==
  /\ at = "wait" /\ ~ready
  /\ reconnected' = TRUE
  /\ status' = [status EXCEPT !.synced = FALSE, !.error = "transient"]
  /\ UNCHANGED <<desired, wake, at, sample, reply, result, retry, channel, runs, faults>>

\* Fault: the snapshot is read once, before the loop.
WaitOverOnce ==
  /\ at = "wait" /\ ready
  /\ at' = "get"
  /\ sample' = IF sample.id = 0 THEN desired ELSE sample
  /\ retry' = IF reconnected THEN RetryMin ELSE retry
  /\ reconnected' = FALSE
  /\ UNCHANGED <<desired, wake, status, reply, result, channel, runs, faults>>

\* The delay is over and the channel is ready: the newest snapshot is taken.
WaitOver ==
  /\ at = "wait" /\ ready
  /\ at' = "get"
  /\ sample' = desired
  /\ retry' = IF reconnected THEN RetryMin ELSE retry
  /\ reconnected' = FALSE
  /\ UNCHANGED <<desired, wake, status, reply, result, channel, runs, faults>>

\* Fault: snapshots are compared by their versions.
CurrentByVersion == desired.version = sample.version

\* c.desired == desired, a comparison of pointers.
Current == desired.id = sample.id

Double == IF retry >= RetryMax \div 2 THEN RetryMax ELSE retry * 2

\* The result of reconcile; a permanent error of the current snapshot ends Run.
Result ==
  /\ at = "result"
  /\ status' = IF ~Current THEN status
               ELSE [synced |-> result = "nil", error |-> result,
                     confirmed |-> IF result = "nil" THEN sample.version
                                   ELSE status.confirmed]
  /\ at' = IF result = "permanent" /\ Current THEN "return" ELSE "wait"
  /\ retry' = IF result = "transient" THEN Double ELSE RetryMin
  /\ UNCHANGED <<desired, wake, sample, reply, result, reconnected, channel, runs, faults>>

\* The lock is free again: SetSnapshot may come before the deferred functions.
Return ==
  /\ at = "return"
  /\ Exit("permanent")
  /\ UNCHANGED <<desired, wake, attempt, up, active, late, observed, runs, faults>>

-----------------------------------------------------------------------------
(* reconcile *)

End(r) == at' = "result" /\ result' = r

\* The server, or an apply, makes v active, if it accepts v.
Serve(v) ==
  IF Verdict[v] = "applied" THEN active' = v /\ observed' = observed \cup {v}
  ELSE UNCHANGED <<active, observed>>

GetSnapshot ==
  /\ at = "get" /\ ready
  /\ reply' = active
  /\ at' = "compare"
  /\ UNCHANGED <<desired, wake, status, sample, result, retry, reconnected, channel, runs, faults>>

\* The RPC fails: with Unavailable or DeadlineExceeded, or for another reason.
RpcFails ==
  IF ready THEN Fault /\ \E r \in {"transient", "permanent"} : End(r)
  ELSE End("transient") /\ UNCHANGED faults

GetFails ==
  /\ at = "get" /\ RpcFails
  /\ UNCHANGED <<desired, wake, status, sample, reply, retry, reconnected, channel, runs>>

\* Nothing to do, or superseded meanwhile (Result ignores the attempt), or apply.
Compare ==
  /\ at = "compare"
  /\ IF reply = sample.version \/ ~Current THEN End("nil")
     ELSE at' = "apply" /\ UNCHANGED result
  /\ UNCHANGED <<desired, wake, status, sample, reply, retry, reconnected, channel, runs,
                 faults>>

ApplySnapshot ==
  /\ at = "apply" /\ ready
  /\ Serve(sample.version)
  /\ End(IF Verdict[sample.version] = "applied" THEN "nil" ELSE "permanent")
  /\ UNCHANGED <<desired, wake, status, sample, reply, retry, reconnected, ready, up, late,
                 runs, faults>>

\* The request is lost, or the reply, or the request is only late.
ApplyFails ==
  /\ at = "apply" /\ RpcFails
  /\ \/ UNCHANGED <<active, observed, late>>
     \/ ready /\ Serve(sample.version) /\ UNCHANGED late
     \/ ready /\ late' = [late EXCEPT ![sample.version] = @ + 1]
        /\ UNCHANGED <<active, observed>>
  /\ UNCHANGED <<desired, wake, status, sample, reply, retry, reconnected, ready, up, runs>>

-----------------------------------------------------------------------------
(* The connection and the server *)

Connect ==
  /\ at # "idle" /\ ~ready /\ up
  /\ ready' = TRUE
  /\ UNCHANGED <<desired, wake, status, at, attempt, up, active, late, observed, runs, faults>>

\* A handler that was given up ends after all, or is dropped.
LateApply(v) ==
  /\ late[v] > 0
  /\ late' = [late EXCEPT ![v] = @ - 1]
  /\ Serve(v) \/ UNCHANGED <<active, observed>>
  /\ UNCHANGED <<desired, wake, status, at, attempt, ready, up, runs, faults>>

\* SIGHUP, or another controller.
ForeignWrite(v) ==
  /\ up /\ Fault
  /\ Serve(v)
  /\ UNCHANGED <<desired, wake, status, at, attempt, ready, up, late, runs>>

\* A wait may or may not notice that the channel was lost.
ServerCrash ==
  /\ up /\ Fault
  /\ up' = FALSE /\ ready' = FALSE
  /\ late' = [v \in Versions |-> 0]
  /\ reconnected' \in {reconnected, at = "wait"}
  /\ UNCHANGED <<desired, wake, status, at, sample, reply, result, retry, active, observed,
                 runs>>

Restart ==
  /\ ~up
  /\ up' = TRUE /\ active' = Bootstrap /\ observed' = observed \cup {Bootstrap}
  /\ UNCHANGED <<desired, wake, status, at, attempt, ready, late, runs, faults>>

RunStep ==
  \/ AwaitDesired \/ WaitNotReady \/ WaitOver \/ Result \/ Return
  \/ GetSnapshot \/ GetFails \/ Compare \/ ApplySnapshot \/ ApplyFails

Server == Connect \/ Restart \/ \E v \in Versions : LateApply(v)

ClientNext ==
  \/ \E v \in Versions : SetSnapshot(v) \/ ForeignWrite(v)
  \/ Run \/ CancelRun \/ RunStep \/ Server \/ ServerCrash

\* Delays end, every RPC has a deadline, grpc-go reconnects, a crashed process is
\* replaced and handlers end.
ClientSpec ==
  /\ ClientInit /\ [][ClientNext]_clientVars
  /\ WF_clientVars(RunStep) /\ WF_clientVars(Connect) /\ WF_clientVars(Restart)
  /\ \A v \in Versions : WF_clientVars(LateApply(v))

-----------------------------------------------------------------------------
Running == at # "idle"

\* The types of the client's state; the delay before the next attempt stays within
\* its limits, for every choice of them.
ClientTypeOK ==
  /\ desired \in [id : 0 .. MaxSets, version : Versions]
  /\ sample \in [id : 0 .. MaxSets, version : Versions]
  /\ status \in [synced : BOOLEAN, confirmed : Versions,
                 error : {"nil", "transient", "permanent", "canceled"}]
  /\ at \in {"idle", "await", "wait", "get", "compare", "apply", "result", "return"}
  /\ reply \in Versions /\ result \in {"nil", "transient", "permanent"}
  /\ retry \in RetryMin .. RetryMax
  /\ wake \in BOOLEAN /\ reconnected \in BOOLEAN /\ ready \in BOOLEAN /\ up \in BOOLEAN
  /\ active \in Versions /\ late \in [Versions -> Nat] /\ observed \subseteq Versions

\* "a result for an older desired version cannot acknowledge a newer one" and "Errors,
\* changed desired state and exit clear Synced": while Status says Synced, the server
\* has been seen with the desired version, since it has been the desired one.
SyncedMeansObserved ==
  status.synced =>
    /\ Running /\ status.error = "nil"
    /\ status.confirmed = desired.version /\ desired.version \in observed

\* "a replacement process regains its configuration" and "Manual updates ... are
\* overwritten": a Run that is not ended brings the server to the desired version and
\* leaves it there, after whatever timeouts, late applies, crashes and foreign writes.
Converges ==
  <>[](Running /\ desired.id > 0) => <>[](status.synced /\ active = desired.version)
=============================================================================
