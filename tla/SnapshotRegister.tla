-------------------------- MODULE SnapshotRegister --------------------------
(***************************************************************************)
(* What RuntimeState promises its callers: an append-only log of the       *)
(* configurations that became active, in which an apply call either        *)
(* commits its own configuration as the next entry, once, or reports an    *)
(* entry that was the last one at some moment of the call.                 *)
(*                                                                         *)
(* Generation g is the g-th entry.  Nothing is said about locks, about how *)
(* a snapshot is built or about when a call commits.                       *)
(***************************************************************************)
EXTENDS Naturals, Sequences

CONSTANTS Appliers,     \* callers of apply_snapshot
          Configs,      \* the ConfigSnapshots they may submit
          None          \* absence of a value

VARIABLES log,          \* the active configurations, one per generation
          call,         \* the call in progress of each applier
          answer        \* the last ApplyResult of each applier

vars == <<log, call, answer>>

Init ==
  /\ \E c \in Configs : log = <<c>>
  /\ call = [a \in Appliers |-> None]
  /\ answer = [a \in Appliers |-> None]

\* A caller submits a configuration.
Call(a) ==
  /\ call[a] = None
  /\ \E c \in Configs :
       call' = [call EXCEPT ![a] = [config |-> c, from |-> Len(log), gen |-> 0]]
  /\ answer' = [answer EXCEPT ![a] = None]
  /\ UNCHANGED log

\* The submitted configuration becomes the active one.
Commit(a) ==
  /\ call[a] # None
  /\ call[a].gen = 0
  /\ call[a].config.fingerprint = log[1].fingerprint
  /\ log' = Append(log, call[a].config)
  /\ call' = [call EXCEPT ![a].gen = Len(log) + 1]
  /\ UNCHANGED answer

\* The caller of a committed configuration learns its generation.
AnswerApplied(a) ==
  /\ call[a] # None
  /\ call[a].gen # 0
  /\ answer' = [answer EXCEPT ![a] =
       [applied |-> TRUE, restart_required |-> FALSE,
        active_version |-> call[a].config.version,
        active_generation |-> call[a].gen]]
  /\ call' = [call EXCEPT ![a] = None]
  /\ UNCHANGED log

\* A rejected caller learns a generation that was active during its call, and
\* is told to restart the process only for a change of the restart fingerprint.
AnswerRejected(a) ==
  /\ call[a] # None
  /\ call[a].gen = 0
  /\ \E g \in call[a].from .. Len(log), restart \in BOOLEAN :
       /\ restart => call[a].config.fingerprint # log[1].fingerprint
       /\ answer' = [answer EXCEPT ![a] =
            [applied |-> FALSE, restart_required |-> restart,
             active_version |-> log[g].version,
             active_generation |-> g]]
  /\ call' = [call EXCEPT ![a] = None]
  /\ UNCHANGED log

\* A panic while the configuration is built ends the call without an answer.
Abort(a) ==
  /\ call[a] # None
  /\ call[a].gen = 0
  /\ call' = [call EXCEPT ![a] = None]
  /\ UNCHANGED <<log, answer>>

Next == \E a \in Appliers :
  \/ Call(a) \/ Commit(a) \/ AnswerApplied(a) \/ AnswerRejected(a) \/ Abort(a)

Spec == Init /\ [][Next]_vars
=============================================================================
