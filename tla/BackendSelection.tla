-------------------------- MODULE BackendSelection --------------------------
(***************************************************************************)
(* Choosing a backend while its health changes: the topology of an NRF     *)
(* upstream group (upstreams/runtime/groups/topology.rs), its publication  *)
(* (groups/discovery.rs), the health passes (groups.rs, upstreams/         *)
(* health.rs and the loop of control.rs) and the choice between weighted   *)
(* backends (upstreams/runtime/selection.rs).                              *)
(*                                                                         *)
(* The registry of health targets and the load balancer that visits the    *)
(* services of a pool belong to Pingora; they are modelled from how this   *)
(* code and its tests use them: a target starts ready, changes after as    *)
(* many contrary results in a row as the threshold says, is shared by all  *)
(* snapshots that name it and forgotten with the last one; and the load    *)
(* balancer draws services of a pool, of which some may come again (by     *)
(* chance, from the hash ring or from a counter that other requests move), *)
(* as often as it is allowed to, and offers those that have not been drawn *)
(* before.                                                                 *)
(*                                                                         *)
(* Every read of a readiness flag is a step: between two reads of one      *)
(* selection a health pass may change what the flag says.  When passes     *)
(* start is left open, the schedule only says how often they do.           *)
(***************************************************************************)
EXTENDS Integers, Sequences, FiniteSets, SequencesExt

CONSTANTS Position,            \* of an endpoint, in the order of the set of backends
          Service,             \* the service an endpoint belongs to
          Results,             \* of the NRF: [endpoints, plan], where plan gives
                               \* the [priority, capacity] of each service
          Requests,
          Filters,             \* endpoints a caller may accept
          ConsecutiveSuccess, ConsecutiveFailure,
          MaxChanges,          \* how often endpoints fail or recover
          MaxRefreshes,        \* how often a snapshot is published or expires
          MinIterations,       \* draws of a small pool, 256 in the code
          MaxU16,              \* u16::MAX
          MaxServices,         \* of a pool of services with capacity
          None

Endpoints == DOMAIN Position
Plans == [{Service[e] : e \in Endpoints} -> [priority : Nat, capacity : Nat]]

ASSUME PositionAssumption ==
  /\ \A e \in Endpoints : Position[e] \in Nat
  /\ \A e, f \in Endpoints : Position[e] = Position[f] => e = f
  /\ IsFiniteSet(Endpoints)
ASSUME ServiceAssumption == DOMAIN Service = Endpoints
ASSUME ResultsAssumption ==
  \A result \in Results :
    /\ result = [endpoints |-> result.endpoints, plan |-> result.plan]
    /\ result.endpoints \subseteq Endpoints /\ result.plan \in Plans
ASSUME FiltersAssumption == Filters \subseteq SUBSET Endpoints
ASSUME ThresholdAssumption ==
  ConsecutiveSuccess \in Nat \ {0} /\ ConsecutiveFailure \in Nat \ {0}
ASSUME IterationsAssumption == MinIterations \in Nat
ASSUME NoneAssumption == None \notin Endpoints
\* normalized_capacities rejects a pool of more services.
ASSUME MaxU16Assumption == MaxU16 \in Nat /\ MaxServices \in 0 .. MaxU16

VARIABLES up,          \* endpoints whose check succeeds
          health,      \* the registry: readiness and contrary results in a row
          selection,   \* the published snapshot, None before the first
          pass,        \* endpoints the running health pass has still to check
          req,         \* selections under way
          changes,     \* counts up to MaxChanges
          refreshes,   \* counts up to MaxRefreshes
          observed,    \* History: last result of a check and how often in a row
          seen         \* History: what readiness was during a selection

vars == <<up, health, selection, pass, req, changes, refreshes, observed, seen>>

-----------------------------------------------------------------------------
(* normalized_capacities: weights of a pool that fit into u16. *)

Total(s) == FoldLeft(LAMBDA x, y : x + y, 0, s)

\* Fault: the share is rounded down without the one every service has.
ScaledDown(capacities) ==
  LET total == Total(capacities) IN
  IF total <= MaxU16 THEN capacities
  ELSE [i \in DOMAIN capacities |-> (capacities[i] * MaxU16) \div total]

\* The rest goes to the largest remainders, the last of equals first.
NormalizedCapacities(capacities) ==
  LET n == Len(capacities)
      total == Total(capacities)
      scaled(i) == capacities[i] * (MaxU16 - n)
      weight(i) == 1 + scaled(i) \div total
      left == MaxU16 - Total([i \in 1 .. n |-> weight(i)])
      before(i, j) == \/ scaled(i) % total > scaled(j) % total
                      \/ scaled(i) % total = scaled(j) % total /\ i > j
      rank(i) == Cardinality({j \in 1 .. n : before(j, i)})
  IN IF total <= MaxU16 THEN capacities
     ELSE [i \in 1 .. n |-> IF rank(i) < left THEN weight(i) + 1 ELSE weight(i)]

(* Weighted backends: the slot is a counter modulo the sum of the weights. *)

SlotBackend(weights, slot) ==
  CHOOSE i \in DOMAIN weights :
    /\ slot < Total(SubSeq(weights, 1, i))
    /\ \A j \in 1 .. i - 1 : slot >= Total(SubSeq(weights, 1, j))

-----------------------------------------------------------------------------
(* The topology of a snapshot [endpoints, plan]: pools of services, tried  *)
(* by priority and in each tier those with capacity before those without.  *)

Services(view) == {Service[e] : e \in view.endpoints}
Rank(view, s) ==
  LET p == view.plan[s] IN 2 * p.priority + (IF p.capacity > 0 THEN 0 ELSE 1)
Pool(view, rank) == {s \in Services(view) : Rank(view, s) = rank}
EndpointsOf(view, s) == {e \in view.endpoints : Service[e] = s}

\* The endpoints of a service are visited in the order of the set of backends, from
\* some position on and around.
Before(from, e, f) ==
  LET wraps(x) == Position[x] < from
  IN (~wraps(e) /\ wraps(f)) \/ (wraps(e) = wraps(f) /\ Position[e] < Position[f])

-----------------------------------------------------------------------------
(* The health registry. *)

Fresh == [ready |-> TRUE, contrary |-> 0]
Unseen == [ready |-> {}, unready |-> {}]
Unobserved == [ok |-> TRUE, times |-> 0]

HealthThreshold(ok) == IF ok THEN ConsecutiveSuccess ELSE ConsecutiveFailure

\* Pingora: a result that agrees clears the count, one that does not adds to it.
Observe(h, ok) ==
  IF h.ready = ok THEN [h EXCEPT !.contrary = 0]
  ELSE IF h.contrary + 1 >= HealthThreshold(ok) THEN [ready |-> ok, contrary |-> 0]
  ELSE [h EXCEPT !.contrary = @ + 1]

\* Targets live as long as a snapshot that names them.
Held(sel, requests) ==
  (IF sel = None THEN {} ELSE sel.endpoints)
    \cup UNION {requests[r].view.endpoints :
                 r \in {x \in Requests : requests[x].pc \in {"accept", "endpoint"}}}
Registered == Held(selection, req)

ReleaseUnused ==
  /\ health' = [e \in Endpoints |-> IF e \in Registered' THEN health[e] ELSE Fresh]
  /\ observed' = [e \in Endpoints |-> IF e \in Registered' THEN observed[e] ELSE Unobserved]

UnreadyIn(h) == {e \in Endpoints : ~h[e].ready}

\* What a selection might have read, from its first step to its last.
Watch ==
  seen' = [r \in Requests |->
             CASE req'[r].pc = "idle" -> Unseen
               [] req[r].pc = "done" -> seen[r]
               [] OTHER -> [ready |-> seen[r].ready \cup (Endpoints \ UnreadyIn(health)),
                            unready |-> seen[r].unready \cup UnreadyIn(health)]]

-----------------------------------------------------------------------------
\* draws counts those from the current pool; repeated are the pools in which a service
\* was drawn again, missed the services of pools that were left before they were drawn.
Idle == [pc |-> "idle", view |-> [endpoints |-> {}, plan |-> None], accept |-> {},
         pool |-> -1, draws |-> 0, refused |-> {}, service |-> None, unread |-> {},
         from |-> 0, result |-> None, repeated |-> {}, missed |-> {}]

Init ==
  /\ up = Endpoints
  /\ health = [e \in Endpoints |-> Fresh]
  /\ selection = None
  /\ pass = {}
  /\ req = [r \in Requests |-> Idle]
  /\ changes = 0 /\ refreshes = 0
  /\ observed = [e \in Endpoints |-> Unobserved]
  /\ seen = [r \in Requests |-> Unseen]

\* An endpoint starts or stops to answer its checks.
Change(e) ==
  /\ changes < MaxChanges
  /\ changes' = changes + 1
  /\ up' = IF e \in up THEN up \ {e} ELSE up \cup {e}
  /\ UNCHANGED <<health, selection, pass, req, refreshes, observed, seen>>

-----------------------------------------------------------------------------
(* A refresh publishes the endpoints that passed the preflight check with  *)
(* the services announced for them.  That they may fail between the check  *)
(* and the publication is no more than that they fail right after it.      *)

Preflight(result) == [result EXCEPT !.endpoints = @ \cap up]

Publish(view) ==
  /\ refreshes < MaxRefreshes
  /\ refreshes' = refreshes + 1
  /\ selection' = IF view = None \/ view.endpoints = {} THEN None ELSE view
  /\ UNCHANGED <<up, pass, req, changes>>
  /\ Watch

\* Fault: every snapshot gets a registry of its own.
PublishFreshRegistry(result) ==
  /\ Publish(Preflight(result))
  /\ health' = [e \in Endpoints |-> Fresh]
  /\ UNCHANGED observed

\* publish_backends; the same topology keeps the snapshot it has.  The new
\* snapshot shares the registry with the one it replaces.
PublishBackends(result) ==
  /\ Publish(Preflight(result))
  /\ ReleaseUnused

\* expire_snapshot
ExpireSnapshot == selection # None /\ Publish(None) /\ ReleaseUnused

-----------------------------------------------------------------------------
(* run_due_health_check: one pass at a time checks the registered targets. *)

\* Fault: only targets that are ready are checked.
RunHealthCheckReadyOnly ==
  /\ pass = {}
  /\ pass' = {e \in Registered : health[e].ready}
  /\ pass' # {}
  /\ UNCHANGED <<up, health, selection, req, changes, refreshes, observed, seen>>

RunHealthCheck ==
  /\ pass = {}
  /\ pass' = Registered
  /\ pass' # {}
  /\ UNCHANGED <<up, health, selection, req, changes, refreshes, observed, seen>>

\* check_backend of one target, and what the registry makes of the result
CheckBackend(e) ==
  /\ e \in pass
  /\ pass' = pass \ {e}
  /\ IF e \in Registered
     THEN LET ok == e \in up
              times == IF observed[e].ok = ok THEN observed[e].times + 1 ELSE 1
          IN /\ health' = [health EXCEPT ![e] = Observe(@, ok)]
             /\ observed' = [observed EXCEPT ![e] =
                               [ok |-> ok, times |-> Min({times, HealthThreshold(ok)})]]
     ELSE UNCHANGED <<health, observed>>
  /\ UNCHANGED <<up, selection, req, changes, refreshes>>
  /\ Watch

-----------------------------------------------------------------------------
(* Selections. *)

Ready(r, e) == health[e].ready /\ e \in req[r].accept

\* The endpoint that is read next.
Turn(q) == CHOOSE e \in q.unread : \A f \in q.unread : e = f \/ Before(q.from, e, f)

\* Fault: as many draws as there are services, less one.
IterationsLess(services) == Cardinality(services) - 1
Iterations(services) == Max({Cardinality(services), MinIterations})

\* The load balancer offers a service, and its endpoints are read in order.
Offer(q, services, draws) ==
  {[q EXCEPT !.pc = "accept", !.service = s, !.unread = EndpointsOf(q.view, s),
             !.from = 0, !.draws = draws] : s \in services}

Answer(q, result) == {[q EXCEPT !.pc = "done", !.unread = {}, !.from = 0, !.result = result]}

\* The first pool that is left, or no backend at all (503).
NextPool(q) ==
  LET left == {rank \in {Rank(q.view, s) : s \in Services(q.view)} : rank > q.pool} IN
  IF left = {} THEN Answer(q, None)
  ELSE Offer([q EXCEPT !.pool = Min(left), !.refused = {}], Pool(q.view, Min(left)), 1)

\* After some repetitions a service that was not refused yet is offered, or the draws
\* are used up.
Refuse(q) ==
  LET pool == Pool(q.view, q.pool)
      refused == q.refused \cup {q.service}
      left == pool \ refused
      spare == Iterations(pool) - q.draws
      after(n) == [q EXCEPT !.refused = refused,
                            !.repeated = IF n = 0 THEN @ ELSE @ \cup {q.pool}]
      draw(n) == IF n < spare THEN Offer(after(n), left, q.draws + n + 1)
                 ELSE NextPool([after(n) EXCEPT !.missed = @ \cup left])
  IN IF left = {} THEN NextPool(q) ELSE UNION {draw(n) : n \in 0 .. spare}

Goto(r, records) ==
  /\ \E q \in records : req' = [req EXCEPT ![r] = q]
  /\ UNCHANGED <<up, selection, pass, changes, refreshes>>
  /\ ReleaseUnused
  /\ Watch

\* select and scp_select load the snapshot once.
Begin(r, accept) ==
  /\ req[r].pc = "idle"
  /\ Goto(r, IF selection = None THEN Answer(Idle, None)
             ELSE NextPool([Idle EXCEPT !.view = selection, !.accept = accept]))

\* any(ready): one endpoint that is ready makes the service acceptable, and
\* select_endpoint starts wherever the counter of other requests has got to.
Accept(r) ==
  LET q == req[r]
      rest == q.unread \ {Turn(q)}
      all == EndpointsOf(q.view, q.service)
  IN /\ q.pc = "accept"
     /\ Goto(r, IF Ready(r, Turn(q))
                THEN {[q EXCEPT !.pc = "endpoint", !.unread = all, !.from = Position[e]] :
                        e \in all}
                ELSE IF rest # {} THEN {[q EXCEPT !.unread = rest]}
                ELSE Refuse(q))

\* Fault: the endpoint that is next is taken or none.
SelectOnlyNext(r) ==
  LET q == req[r] IN
  /\ q.pc = "endpoint"
  /\ Goto(r, IF Ready(r, Turn(q)) THEN Answer(q, Turn(q)) ELSE NextPool(q))

\* select_endpoint: reads the readiness again; a service that has no ready
\* endpoint any more yields nothing, and the search goes on in the next pool.
SelectEndpoint(r) ==
  LET q == req[r]
      rest == q.unread \ {Turn(q)}
  IN /\ q.pc = "endpoint"
     /\ Goto(r, IF Ready(r, Turn(q)) THEN Answer(q, Turn(q))
                ELSE IF rest # {} THEN {[q EXCEPT !.unread = rest]}
                ELSE NextPool(q))

Finish(r) == req[r].pc = "done" /\ Goto(r, {Idle})

-----------------------------------------------------------------------------
Next ==
  \/ \E e \in Endpoints : Change(e) \/ CheckBackend(e)
  \/ \E result \in Results : PublishBackends(result)
  \/ ExpireSnapshot
  \/ RunHealthCheck
  \/ \E r \in Requests :
       \/ \E accept \in Filters : Begin(r, accept)
       \/ Accept(r) \/ SelectEndpoint(r) \/ Finish(r)

\* The background service runs a pass every interval and a pass ends: a check
\* has a timeout.
Fairness == WF_vars(RunHealthCheck) /\ \A e \in Endpoints : WF_vars(CheckBackend(e))

Spec == Init /\ [][Next]_vars /\ Fairness

-----------------------------------------------------------------------------
(* Properties. *)

Precedes(a, b) ==
  \/ a.priority < b.priority
  \/ a.priority = b.priority /\ a.capacity > 0 /\ b.capacity = 0
SamePool(a, b) == ~Precedes(a, b) /\ ~Precedes(b, a)

\* Services that come before the one a selection has ended with.
PassedOver(q) ==
  IF q.result = None THEN Services(q.view)
  ELSE {s \in Services(q.view) : Precedes(q.view.plan[s], q.view.plan[Service[q.result]])}

\* "the lowest healthy priority tier is selected first" and "zero-capacity
\* services are used only when their tier has no healthy positive-capacity
\* service", as far as this holds while readiness changes: the endpoint was
\* ready at some moment of the selection; of every pool passed over at least
\* one service had no ready endpoint; and if no readiness changed meanwhile,
\* none of its services had one, but for services that were never offered
\* because the load balancer drew others of their pool again instead.
SelectionJustified ==
  \A r \in Requests : req[r].pc = "done" =>
    LET q == req[r]
        usable(s) == {e \in q.view.endpoints \cap q.accept : Service[e] = s}
        unready(s) == usable(s) \subseteq seen[r].unready
        steady == q.view.endpoints \cap seen[r].ready \cap seen[r].unready = {}
    IN /\ q.result # None => q.result \in usable(Service[q.result]) \cap seen[r].ready
       /\ \A s \in PassedOver(q) :
            /\ \E t \in PassedOver(q) :
                 SamePool(q.view.plan[s], q.view.plan[t]) /\ unready(t)
            /\ steady => \/ unready(s)
                         \/ s \in q.missed /\ Rank(q.view, s) \in q.repeated

\* "Health observations and success/failure counters are shared across
\* snapshots for retained endpoints": once as many checks in a row as the
\* threshold says agree, the readiness agrees with them, however many
\* snapshots were published between the checks.
HealthFollowsChecks ==
  \A e \in Registered :
    observed[e].times = HealthThreshold(observed[e].ok) => health[e].ready = observed[e].ok

\* An endpoint that stays up is taken back for good, also one that failed
\* while it was known by an old snapshot only.
EvictedReturn == \A e \in Endpoints : <>[](e \in up) => <>[](health[e].ready)

\* The weights of a pool fit into u16 and use it up when the capacities do
\* not, every service keeps a share, a larger capacity never has the smaller
\* weight; and in a round of the counter every weighted backend has as many
\* slots as its weight says.  (The capacities are those of any services, so it
\* is enough to look before the first snapshot is published.)
SharesExact ==
  refreshes = 0 /\ changes = 0 =>
  \A capacities \in UNION {[1 .. n -> 1 .. MaxU16] : n \in 1 .. MaxServices} :
    LET weights == NormalizedCapacities(capacities)
        shifted == [i \in DOMAIN weights |-> weights[i] - 1]
        slots(i) == {slot \in 0 .. Total(shifted) - 1 : SlotBackend(shifted, slot) = i}
    IN /\ Total(weights) = Min({Total(capacities), MaxU16})
       /\ \A i, j \in DOMAIN weights :
            /\ weights[i] > 0
            /\ capacities[i] > capacities[j] => weights[i] >= weights[j]
       /\ \A i \in DOMAIN shifted : Cardinality(slots(i)) = shifted[i]
=============================================================================
