---------------------------- MODULE NrfDiscovery ----------------------------
(***************************************************************************)
(* NRF discovery of upstream groups: run_due_nrf_discovery of              *)
(* upstreams/runtime/groups.rs with groups/discovery.rs, the background    *)
(* loop of control.rs that runs it for the plain groups one after the      *)
(* other, and the owned refresh tasks that run it for SCP groups.          *)
(*                                                                         *)
(* Instants are kept as the time that is left until them, in seconds, so   *)
(* that behaviours are unbounded while the state space is finite: an       *)
(* instant in the past is 0, and `now >= at` is `left = 0`.  The code      *)
(* computes every instant from the `now` it read when the run began; age   *)
(* is the time since then.                                                 *)
(*                                                                         *)
(* Computation takes no time: Tick waits for every step that is due.  What *)
(* takes time is what the code awaits, the NRF request, the preflight      *)
(* checks, a permit and the sleep of the loop.                             *)
(***************************************************************************)
EXTENDS Integers, FiniteSets, Sequences

CONSTANTS Order,           \* plain upstream groups, as the loop visits them
          Scp,             \* upstream groups of SCP profiles: with a query
          Endpoints,
          Validities,      \* validityPeriod of a result, in seconds
          StaleIfError,
          Timeout,         \* of an NRF request
          PreflightTime,   \* at most, for the checks of one result
          Percents,        \* nrf_refresh_delay: 70 .. 90 by host and group
          MaxExponent, MaxBackoff, \* nrf_failure_retry_at: 5 and 30 s
          RefreshInterval, \* of the loop, 1 s
          Permits,         \* MAX_NRF_REQUESTS
          None             \* no instant

Plain == {Order[i] : i \in 1 .. Len(Order)}
Groups == Plain \cup Scp

ASSUME OrderAssumption == Order \in Seq(Plain)
ASSUME GroupsAssumption == Plain \cap Scp = {} /\ IsFiniteSet(Endpoints)
ASSUME DurationsAssumption ==
  /\ Validities \subseteq Nat \ {0} /\ StaleIfError \in Nat
  /\ Timeout \in Nat \ {0} /\ PreflightTime \in Nat
  /\ Percents \subseteq 70 .. 90 /\ RefreshInterval \in Nat \ {0}
ASSUME LimitsAssumption ==
  /\ MaxExponent \in Nat /\ MaxBackoff \in Nat \ {0}
  /\ Permits \in Nat \ {0}
\* The shift of nrf_failure_retry_at does not overflow.
ASSUME ShiftAssumption == \A n \in 0 .. MaxExponent : 2 ^ n \in Nat \ {0}
ASSUME NoneAssumption == None \notin Nat

VARIABLES selection,  \* the published endpoints; {} is selection = None
          expires_in, \* schedule.expires_at
          due_in,     \* schedule.next_run_at
          failures,   \* schedule.failures, as far as the backoff tells it apart
          candidates, \* endpoints of the last result, None before the first
          pc,         \* where a run of a group is
          age,        \* time since the run read `now`
          left,       \* time until the request or the preflight times out
          watch,      \* expires_at was in the future when the run began
          result,     \* the DiscoveryResult the run is handling
          queue,      \* SCP groups waiting for a permit, first come first served
          todo,       \* plain groups the loop has still to visit in this pass
          wake_in,    \* next_wake of the loop
          up,         \* NRF and producers answer
          fresh,      \* History: time until the published result's window ends
          recent      \* History: a request was started less than 1 s ago

schedule == <<expires_in, due_in, failures, candidates>>
run == <<pc, age, left, watch, result, queue>>
loop == <<todo, wake_in>>
vars == <<selection, schedule, run, loop, up, fresh, recent>>

Least(x, y) == IF x < y THEN x ELSE y
Most(x, y) == IF x > y THEN x ELSE y
\* What is left of a duration that began when the run did.
Left(d, g) == Most(d - age[g], 0)

\* Fault: the first retry is immediate.
BackoffAfterFirst(f) == IF f = 1 THEN 0 ELSE 1

\* nrf_failure_retry_at, without its limit to the expiry.
Backoff(f) == Least(2 ^ Least(f - 1, MaxExponent), MaxBackoff)

NrfFailureRetry(g, f) ==
  IF expires_in[g] = None THEN Left(Backoff(f), g)
  ELSE Least(Left(Backoff(f), g), expires_in[g])

\* nrf_snapshot_expiry
NrfSnapshotExpiry(g, validity) == Left(validity + StaleIfError, g)

\* Fault: the next refresh is due when the result is no longer valid.
RefreshAtExpiry(validity) == {validity + StaleIfError}

\* nrf_refresh_delay, rounded down to seconds.
NrfRefreshDelay(validity) == {Most((validity * p) \div 100, 1) : p \in Percents}

NoResult == [endpoints |-> {}, validity |-> 0]

-----------------------------------------------------------------------------
Init ==
  /\ selection = [g \in Groups |-> {}]
  /\ expires_in = [g \in Groups |-> None]
  /\ due_in = [g \in Groups |-> 0]
  /\ failures = [g \in Groups |-> 0]
  /\ candidates = [g \in Groups |-> None]
  /\ pc = [g \in Groups |-> "idle"]
  /\ age = [g \in Groups |-> 0]
  /\ left = [g \in Groups |-> 0]
  /\ watch = [g \in Groups |-> FALSE]
  /\ result = [g \in Groups |-> NoResult]
  /\ queue = << >>
  /\ todo = << >>
  /\ wake_in = 0
  /\ up \in BOOLEAN
  /\ fresh = [g \in Groups |-> 0]
  /\ recent = [g \in Groups |-> FALSE]

\* selection.store
Publish(g, endpoints, window) ==
  /\ selection' = [selection EXCEPT ![g] = endpoints]
  /\ fresh' = [fresh EXCEPT ![g] = IF endpoints = {} THEN 0 ELSE window]

\* expire_snapshot
ExpireSnapshot(g) == Publish(g, {}, 0)
KeepSnapshot == UNCHANGED <<selection, fresh>>

\* The run of g returns next_run_at; the loop goes on to the next plain group.
Return(g, next) ==
  /\ pc' = [pc EXCEPT ![g] = "idle"]
  /\ age' = [age EXCEPT ![g] = 0]
  /\ left' = [left EXCEPT ![g] = 0]
  /\ watch' = [watch EXCEPT ![g] = FALSE]
  /\ result' = [result EXCEPT ![g] = NoResult]
  /\ \/ g \in Plain /\ todo' = Tail(todo) /\ wake_in' = Least(wake_in, next)
     \/ g \in Scp /\ UNCHANGED loop
  /\ UNCHANGED queue

\* The loop wakes up and starts a pass over the groups of the snapshot.
Wake ==
  /\ todo = << >>
  /\ wake_in = 0
  /\ todo' = Order
  /\ wake_in' = RefreshInterval
  /\ UNCHANGED <<selection, schedule, run, up, fresh, recent>>

\* Plain groups are visited one at a time, in the order of the snapshot's map; an
\* SCP group has its own task, which maintain and the requests that wait for the
\* group start.
CanBegin(g) ==
  /\ pc[g] = "idle"
  /\ g \in Plain => todo # << >> /\ Head(todo) = g

Expired(g) == expires_in[g] = 0

DropIfExpired(g) ==
  \/ Expired(g) /\ ExpireSnapshot(g)
  \/ ~Expired(g) /\ KeepSnapshot

BeginNotDue(g) ==
  /\ CanBegin(g)
  /\ due_in[g] > 0
  /\ DropIfExpired(g)
  /\ Return(g, due_in[g])
  /\ UNCHANGED <<schedule, up, recent>>

\* Fault: discovery gives up once the backoff has reached its limit.
BeginDueUntilGivenUp(g) ==
  /\ CanBegin(g)
  /\ due_in[g] = 0
  /\ failures[g] <= MaxExponent
  /\ DropIfExpired(g)
  /\ pc' = [pc EXCEPT ![g] = "permit"]
  /\ watch' = [watch EXCEPT ![g] = expires_in[g] # None /\ ~Expired(g)]
  /\ queue' = IF g \in Scp THEN Append(queue, g) ELSE queue
  /\ UNCHANGED <<schedule, age, left, result, loop, up, recent>>

BeginDue(g) ==
  /\ CanBegin(g)
  /\ due_in[g] = 0
  /\ DropIfExpired(g)
  /\ pc' = [pc EXCEPT ![g] = "permit"]
  /\ watch' = [watch EXCEPT ![g] = expires_in[g] # None /\ ~Expired(g)]
  /\ queue' = IF g \in Scp THEN Append(queue, g) ELSE queue
  /\ UNCHANGED <<schedule, age, left, result, loop, up, recent>>

Running(g) == pc[g] \in {"request", "preflight", "schedule"}
CanSend(g) ==
  /\ pc[g] = "permit"
  /\ g \in Scp => /\ Head(queue) = g
                  /\ Cardinality({h \in Scp : Running(h)}) < Permits

Send(g) ==
  /\ CanSend(g)
  /\ pc' = [pc EXCEPT ![g] = "request"]
  /\ left' = [left EXCEPT ![g] = Timeout]
  /\ queue' = IF g \in Scp THEN Tail(queue) ELSE queue
  /\ due_in' = [due_in EXCEPT ![g] = Left(1, g)]
  /\ recent' = [recent EXCEPT ![g] = TRUE]
  /\ UNCHANGED <<selection, expires_in, failures, candidates, age, watch, result,
                 loop, up, fresh>>

\* record_failure; it compares the expiry with the `now` of the run.
RecordFailure(g) ==
  LET f == Least(failures[g] + 1, MaxExponent + 1)
      next == NrfFailureRetry(g, f)
  IN /\ failures' = [failures EXCEPT ![g] = f]
     /\ due_in' = [due_in EXCEPT ![g] = next]
     /\ IF expires_in[g] # None /\ ~watch[g] THEN ExpireSnapshot(g) ELSE KeepSnapshot
     /\ Return(g, next)
     /\ UNCHANGED <<expires_in, candidates, up, recent>>

Results == [endpoints : SUBSET Endpoints, validity : Validities]

Answer(g) ==
  /\ pc[g] = "request"
  /\ \E r \in Results :
       /\ up => r.endpoints # {}
       /\ result' = [result EXCEPT ![g] = r]
  /\ pc' = [pc EXCEPT ![g] = "preflight"]
  /\ left' = [left EXCEPT ![g] = PreflightTime]
  /\ UNCHANGED <<selection, schedule, age, watch, queue, loop, up, fresh, recent>>

\* The request fails or times out, or the result cannot be used, as one of an SCP
\* group with more than 256 endpoints.
AnswerFails(g) ==
  /\ pc[g] = "request"
  /\ ~up
  /\ RecordFailure(g)

\* discover: the snapshot expires while the request is under way.
ExpireWhileWaiting(g) ==
  /\ pc[g] = "request"
  /\ watch[g] /\ Expired(g) /\ selection[g] # {}
  /\ ExpireSnapshot(g)
  /\ UNCHANGED <<schedule, run, loop, up, recent>>

\* publish_backends: only the endpoints that passed the preflight.  Equal
\* signatures keep the snapshot, which is the same set of endpoints.
PublishBackends(g) ==
  /\ pc[g] = "preflight"
  /\ \E ready \in SUBSET result[g].endpoints :
       /\ up /\ result[g].endpoints # {} => ready # {}
       /\ Publish(g, ready, NrfSnapshotExpiry(g, result[g].validity))
  /\ pc' = [pc EXCEPT ![g] = "schedule"]
  /\ UNCHANGED <<schedule, age, left, watch, result, queue, loop, up, recent>>

PublishFails(g) ==
  /\ pc[g] = "preflight"
  /\ ~up
  /\ RecordFailure(g)

\* Fault: a refresh does not renew the expiry.
ScheduleWithoutExpiry(g) ==
  /\ pc[g] = "schedule"
  /\ \E delay \in NrfRefreshDelay(result[g].validity) :
       /\ due_in' = [due_in EXCEPT ![g] = Left(delay, g)]
       /\ Return(g, Left(delay, g))
  /\ failures' = [failures EXCEPT ![g] = 0]
  /\ candidates' = [candidates EXCEPT ![g] = result[g].endpoints]
  /\ UNCHANGED <<selection, expires_in, up, fresh, recent>>

\* The schedule is updated after the endpoints are visible.
Schedule(g) ==
  /\ pc[g] = "schedule"
  /\ LET expiry == NrfSnapshotExpiry(g, result[g].validity)
     IN \E delay \in NrfRefreshDelay(result[g].validity) :
          LET next == Least(Left(delay, g), expiry)
          IN /\ due_in' = [due_in EXCEPT ![g] = next]
             /\ expires_in' = [expires_in EXCEPT ![g] = expiry]
             /\ Return(g, next)
  /\ failures' = [failures EXCEPT ![g] = 0]
  /\ candidates' = [candidates EXCEPT ![g] = result[g].endpoints]
  /\ UNCHANGED <<selection, up, fresh, recent>>

\* NRF or the producers go down or come back.
Outage ==
  /\ up' = ~up
  /\ UNCHANGED <<selection, schedule, run, loop, fresh, recent>>

\* Something is ready to run, or its time limit has been reached.
Urgent ==
  \/ todo # << >> /\ pc[Head(todo)] = "idle"
  \/ todo = << >> /\ wake_in = 0
  \/ \E g \in Groups :
       \/ pc[g] = "schedule"
       \/ CanSend(g)
       \/ pc[g] \in {"request", "preflight"} /\ left[g] = 0
       \/ pc[g] = "request" /\ watch[g] /\ Expired(g) /\ selection[g] # {}

Down(timer) == [g \in Groups |-> Most(timer[g] - 1, 0)]

Tick ==
  /\ ~Urgent
  /\ expires_in' = [g \in Groups |->
       IF expires_in[g] = None THEN None ELSE Most(expires_in[g] - 1, 0)]
  /\ due_in' = Down(due_in)
  /\ left' = Down(left)
  /\ fresh' = Down(fresh)
  /\ age' = [g \in Groups |-> IF pc[g] = "idle" THEN 0 ELSE age[g] + 1]
  /\ wake_in' = Most(wake_in - 1, 0)
  /\ recent' = [g \in Groups |-> FALSE]
  /\ UNCHANGED <<selection, failures, candidates, pc, watch, result, queue, todo, up>>

Next ==
  \/ Tick \/ Outage \/ Wake
  \/ \E g \in Groups :
       \/ BeginNotDue(g) \/ BeginDue(g) \/ Send(g)
       \/ Answer(g) \/ AnswerFails(g) \/ ExpireWhileWaiting(g)
       \/ PublishBackends(g) \/ PublishFails(g) \/ Schedule(g)

\* Time passes, ready tasks run, and requests and checks end: they have timeouts.
Fairness ==
  /\ SF_vars(Tick) /\ WF_vars(Wake)
  /\ \A g \in Groups :
       /\ WF_vars(BeginNotDue(g)) /\ WF_vars(BeginDue(g)) /\ WF_vars(Send(g))
       /\ WF_vars(Answer(g) \/ AnswerFails(g))
       /\ WF_vars(PublishBackends(g) \/ PublishFails(g))
       /\ WF_vars(Schedule(g))

Spec == Init /\ [][Next]_vars /\ Fairness
-----------------------------------------------------------------------------
\* Fault: scp_status does not look at the expiry.
ScpStatusUnbounded(g) == candidates[g] \notin {None, {}}

\* scp_status: Ok, while the last result is in its window and named an endpoint.
ScpStatus(g) ==
  candidates[g] \notin {None, {}} /\ expires_in[g] # None /\ ~Expired(g)

\* select and scp_select have something to choose from.
Select(g) == selection[g] # {}
ScpSelect(g) == ScpStatus(g) /\ selection[g] # {}

\* "After full expiry, selection fails closed until discovery succeeds again":
\* scp_select never uses endpoints of a result whose window (validity plus
\* stale_if_error) is over, also while the next result is under way.  Between
\* publication and the update of the schedule the status still describes the
\* previous result.
ScpFailsClosed ==
  \A g \in Scp : ScpSelect(g) => fresh[g] > 0 \/ pc[g] = "schedule"

\* While the loop sleeps and nothing is due, no plain group serves endpoints whose
\* window is over: a pass leaves no expired snapshot behind.
SleepLeavesNoStale ==
  todo = << >> /\ ~Urgent => \A g \in Plain : Select(g) => fresh[g] > 0

\* The window of a result ends what is served from it: always for SCP groups,
\* and for plain groups whenever the loop sleeps.
WindowEnforced == ScpFailsClosed /\ SleepLeavesNoStale

\* A plain group does not start two NRF requests within a second while it has a
\* snapshot that has not expired or has never had one.
RequestsSpaced ==
  [][\A g \in Plain : pc[g] = "permit" /\ pc'[g] = "request" =>
       ~recent[g] \/ Expired(g)]_vars

\* A refresh that succeeds leaves no gap: the endpoints of a group disappear only
\* after a failed or empty refresh, never because the refresh came too late.
NoGapWithoutFailure ==
  [][\A g \in Plain : Select(g) /\ selection'[g] = {} =>
       failures[g] > 0 \/ failures'[g] > 0 \/ pc[g] = "preflight"]_vars

\* Once NRF and producers answer again and keep answering, every group serves
\* endpoints again and again, whatever backoff and expiries the outage left.
RecoversAfterOutage ==
  <>[]up => \A g \in Groups : []<>Select(g)
=============================================================================
