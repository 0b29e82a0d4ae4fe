--------------------------- MODULE UpstreamProofs ---------------------------
(***************************************************************************)
(* Proofs about how a request finds its upstream: the backend that is      *)
(* selected (BackendSelection) and the location it is resolved to          *)
(* (Routing), for any endpoints, services, plans, thresholds and number of *)
(* requests, and for any virtual hosts, locations, paths and names.        *)
(*                                                                         *)
(* Readiness: a target that disagrees with the last results has counted    *)
(* exactly these results, and one that agrees has counted none.            *)
(*                                                                         *)
(* Selections: an endpoint that was read and not taken has been unready    *)
(* since the selection began, so a service that is left has had no ready   *)
(* endpoint; and where a service that was accepted is left after all, one  *)
(* of its endpoints has been both ready and not.                           *)
(*                                                                         *)
(* Shares: the normalized capacities add up to the largest weight, and the *)
(* slots count them.  Both are folds; a fold is reasoned about by the      *)
(* values it has at the initial parts of its sequence.                     *)
(*                                                                         *)
(* Routes: the same for the loops of resolve_route, whose values at the    *)
(* end are first described without them; the route is then the best one    *)
(* because the orders of names, rules and locations are linear.            *)
(***************************************************************************)
EXTENDS BackendSelection, Routing, SequenceTheorems, FiniteSetTheorems, WellFoundedInduction, TLAPS

Views == [endpoints : SUBSET Endpoints, plan : Plans]

\* The types that the argument needs.
Types ==
  /\ health \in [Endpoints -> [ready : BOOLEAN, contrary : Nat]]
  /\ observed \in [Endpoints -> [ok : BOOLEAN, times : Nat]]
  /\ selection = None \/ selection \in Views
  /\ DOMAIN req = Requests
  /\ seen \in [Requests -> [ready : SUBSET Endpoints, unready : SUBSET Endpoints]]

-----------------------------------------------------------------------------
(* Readiness *)

\* A target has counted the results that it does not follow yet.
Follows(h, o) ==
  /\ h.ready = o.ok => h.contrary = 0
  /\ h.ready # o.ok => h.contrary = o.times /\ o.times < HealthThreshold(o.ok)

HealthInv == \A e \in Endpoints : Follows(health[e], observed[e])

-----------------------------------------------------------------------------
(* Selections: q is the state of one, h what its endpoints have been since it began. *)

Usable(q, s) == EndpointsOf(q.view, s) \cap q.accept
Unready(q, h, s) == Usable(q, s) \subseteq h.unready
Steady(q, h) == q.view.endpoints \cap h.ready \cap h.unready = {}

\* The pool of a rank has been left with good reason.
Left(q, h, rank) ==
  /\ \E t \in Pool(q.view, rank) : Unready(q, h, t)
  /\ Steady(q, h) =>
       \A t \in Pool(q.view, rank) :
         Unready(q, h, t) \/ (t \in q.missed /\ rank \in q.repeated)

Record(q) ==
  q = [pc |-> q.pc, view |-> q.view, accept |-> q.accept, pool |-> q.pool,
       draws |-> q.draws, refused |-> q.refused, service |-> q.service,
       unread |-> q.unread, from |-> q.from, result |-> q.result,
       repeated |-> q.repeated, missed |-> q.missed]

\* Unless a service has been drawn again, the draws have been one for each service.
Drawn(q, draws) ==
  /\ draws \in Nat /\ q.refused \subseteq Pool(q.view, q.pool)
  /\ q.pool \notin q.repeated => draws = Cardinality(q.refused) + 1

\* Where a selection is: pools before the current one have been left, services of the
\* current one refused, endpoints of the current service read.
Reading(q, h) ==
  /\ q.view \in Views /\ q.pool \in Int /\ q.from \in Nat
  /\ \A s \in Services(q.view) :
       Rank(q.view, s) < q.pool => Left(q, h, Rank(q.view, s))
  /\ \A s \in q.refused : Unready(q, h, s)
  /\ q.service \in Pool(q.view, q.pool) \ q.refused
  /\ Drawn(q, q.draws)
  /\ q.unread # {} /\ q.unread \subseteq EndpointsOf(q.view, q.service)
  /\ Usable(q, q.service) \ q.unread \subseteq h.unready
  /\ q.pc = "endpoint" => Usable(q, q.service) \cap h.ready # {}

\* What a selection has ended with.
Ended(q, h) ==
  /\ q.view.endpoints = {} \/ q.view \in Views
  /\ q.result # None =>
       /\ q.result \in EndpointsOf(q.view, Service[q.result])
       /\ q.result \in q.accept \cap h.ready
  /\ \A s \in Services(q.view) :
       q.result = None \/ Rank(q.view, s) < Rank(q.view, Service[q.result])
         => Left(q, h, Rank(q.view, s))

Sound(q, h) ==
  /\ Record(q) /\ q.pc \in {"idle", "accept", "endpoint", "done"}
  /\ q.pc = "idle" => q = Idle
  /\ q.pc \in {"accept", "endpoint"} => Reading(q, h)
  /\ q.pc = "done" => Ended(q, h)

SelectionInv == \A r \in Requests : Sound(req[r], seen[r])

IInv == Types /\ HealthInv /\ SelectionInv

-----------------------------------------------------------------------------
(* Least elements *)

\* A set of naturals that is not empty has a least element.
LEMMA LeastNat ==
  ASSUME NEW T \in SUBSET Nat, T # {}
  PROVE  \E x \in T : \A y \in T : x <= y
<1>1. PICK x \in T : \A y \in T : ~(<<y, x>> \in OpToRel(<, Nat))
  BY NatLessThanWellFounded, WFMin
<1>2. \A y \in T : ~(y < x)
  BY <1>1 DEF OpToRel
<1> QED
  BY <1>2

\* The smallest element of a set of numbers.
LEMMA MinNat ==
  ASSUME NEW T \in SUBSET Nat, T # {}
  PROVE  Min(T) \in T /\ \A y \in T : Min(T) <= y
BY LeastNat DEF Min

\* The larger of two numbers.
LEMMA MaxOfTwo ==
  ASSUME NEW a \in Nat, NEW b \in Nat
  PROVE  Max({a, b}) \in Nat /\ Max({a, b}) >= a
<1>1. CASE a >= b
  BY <1>1 DEF Max
<1>2. CASE b > a
  BY <1>2 DEF Max
<1> QED
  BY <1>1, <1>2

\* The turn goes round the endpoints that have not been read.
LEMMA TurnUnread ==
  ASSUME NEW q, q.unread \subseteq Endpoints, q.unread # {}, q.from \in Nat
  PROVE  Turn(q) \in q.unread
<1> DEFINE places(T) == {Position[e] : e \in T}
           ahead == {e \in q.unread : Position[e] >= q.from}
           first(T) == \E e \in T : \A f \in T : e = f \/ Position[e] < Position[f]
<1>1. ASSUME NEW T \in SUBSET q.unread, T # {} PROVE first(T)
  <2>1. places(T) \in SUBSET Nat /\ places(T) # {}
    BY <1>1, PositionAssumption
  <2>2. PICK x \in places(T) : \A y \in places(T) : x <= y
    BY <2>1, LeastNat
  <2>3. PICK e \in T : x = Position[e]
    BY <2>2
  <2>4. ASSUME NEW f \in T, f # e PROVE Position[e] < Position[f]
    <3>1. Position[e] <= Position[f] /\ Position[e] # Position[f]
      BY <2>2, <2>3, <2>4, PositionAssumption
    <3>2. Position[e] \in Nat /\ Position[f] \in Nat
      BY PositionAssumption
    <3> QED
      BY <3>1, <3>2
  <2> QED
    BY <2>3, <2>4
<1>2. \E e \in q.unread : \A f \in q.unread : e = f \/ Before(q.from, e, f)
  <2>0. \A e \in q.unread : Position[e] \in Nat
    BY PositionAssumption
  <2>1. CASE ahead # {}
    <3>1. PICK e \in ahead : \A f \in ahead : e = f \/ Position[e] < Position[f]
      BY <1>1, <2>1
    <3> QED
      BY <2>0, <3>1 DEF Before
  <2>2. CASE ahead = {}
    <3>1. PICK e \in q.unread : \A f \in q.unread : e = f \/ Position[e] < Position[f]
      BY <1>1
    <3> QED
      BY <2>0, <2>2, <3>1 DEF Before
  <2> QED
    BY <2>1, <2>2
<1> QED
  BY <1>2 DEF Turn

-----------------------------------------------------------------------------
(* Readiness follows the checks *)

\* What the registry makes of a result.
LEMMA ObserveFollows ==
  ASSUME NEW h \in [ready : BOOLEAN, contrary : Nat],
         NEW o \in [ok : BOOLEAN, times : Nat], Follows(h, o),
         NEW ok \in BOOLEAN, NEW n \in Nat,
         n = Min({IF o.ok = ok THEN o.times + 1 ELSE 1, HealthThreshold(ok)})
  PROVE  /\ Observe(h, ok) \in [ready : BOOLEAN, contrary : Nat]
         /\ Follows(Observe(h, ok), [ok |-> ok, times |-> n])
<1>0. HealthThreshold(ok) \in Nat \ {0}
  BY ThresholdAssumption DEF HealthThreshold
<1>1. PICK times \in Nat : times = IF o.ok = ok THEN o.times + 1 ELSE 1
  OBVIOUS
<1>2. n = IF times <= HealthThreshold(ok) THEN times ELSE HealthThreshold(ok)
  <2>1. {times, HealthThreshold(ok)} \in SUBSET Nat
    BY <1>0
  <2>2. n = Min({times, HealthThreshold(ok)})
    BY <1>1
  <2>3. n \in {times, HealthThreshold(ok)} /\ n <= times /\ n <= HealthThreshold(ok)
    BY <2>1, <2>2, MinNat
  <2> QED
    BY <1>0, <2>3
<1>3. CASE h.ready = ok
  <2>1. Observe(h, ok) = [ready |-> ok, contrary |-> 0]
    BY <1>3 DEF Observe
  <2> QED
    BY <2>1 DEF Follows
<1>4. CASE h.ready # ok /\ h.contrary + 1 >= HealthThreshold(ok)
  <2>1. Observe(h, ok) = [ready |-> ok, contrary |-> 0]
    BY <1>4 DEF Observe
  <2> QED
    BY <2>1 DEF Follows
<1>5. CASE h.ready # ok /\ ~(h.contrary + 1 >= HealthThreshold(ok))
  <2>1. Observe(h, ok) = [ready |-> h.ready, contrary |-> h.contrary + 1]
    BY <1>5 DEF Observe
  <2>2. h.contrary + 1 = times
    <3>1. CASE h.ready = o.ok
      BY <1>1, <1>5, <3>1 DEF Follows
    <3>2. CASE h.ready # o.ok
      <4>1. o.ok = ok
        BY <1>5, <3>2
      <4> QED
        BY <1>1, <3>2, <4>1 DEF Follows
    <3> QED
      BY <3>1, <3>2
  <2> QED
    BY <1>0, <1>2, <1>5, <2>1, <2>2 DEF Follows
<1> QED
  BY <1>3, <1>4, <1>5

-----------------------------------------------------------------------------
(* What a selection does, step by step *)

LEMMA RankNat ==
  ASSUME NEW view \in Views, NEW s \in Services(view)
  PROVE  Rank(view, s) \in Nat
<1>1. view.plan[s] \in [priority : Nat, capacity : Nat]
  BY DEF Views, Plans, Services
<1> QED
  BY <1>1 DEF Rank

\* What has been seen of the endpoints only grows.
Within(h, h2) == h.ready \subseteq h2.ready /\ h.unready \subseteq h2.unready

LEMMA LeftGrows ==
  ASSUME NEW q, NEW q2, q2.view = q.view, q2.accept = q.accept,
         q.missed \subseteq q2.missed, q.repeated \subseteq q2.repeated,
         NEW h, NEW h2, Within(h, h2), NEW rank, Left(q, h, rank)
  PROVE  Left(q2, h2, rank)
BY DEF Within, Left, Unready, Usable, Steady

LEMMA SoundGrows ==
  ASSUME NEW q, NEW h, NEW h2, Within(h, h2), Sound(q, h)
  PROVE  Sound(q, h2)
<1>1. \A rank : Left(q, h, rank) => Left(q, h2, rank)
  BY LeftGrows
<1>2. Reading(q, h) => Reading(q, h2)
  BY <1>1 DEF Reading, Within, Unready
<1>3. Ended(q, h) => Ended(q, h2)
  BY <1>1 DEF Ended, Within
<1> QED
  BY <1>2, <1>3 DEF Sound

\* A service of the current pool is offered.
LEMMA OfferSound ==
  ASSUME NEW q, Record(q), NEW h, q.view \in Views, q.pool \in Int,
         \A s \in Services(q.view) :
           Rank(q.view, s) < q.pool => Left(q, h, Rank(q.view, s)),
         \A s \in q.refused : Unready(q, h, s), NEW draws, Drawn(q, draws),
         NEW services \in SUBSET (Pool(q.view, q.pool) \ q.refused),
         NEW p \in Offer(q, services, draws)
  PROVE  Sound(p, h)
<1>1. PICK s \in services :
        p = [q EXCEPT !.pc = "accept", !.service = s, !.unread = EndpointsOf(q.view, s),
                      !.from = 0, !.draws = draws]
  BY DEF Offer
<1>2. p = [pc |-> "accept", view |-> q.view, accept |-> q.accept, pool |-> q.pool,
           draws |-> draws, refused |-> q.refused, service |-> s,
           unread |-> EndpointsOf(q.view, s), from |-> 0, result |-> q.result,
           repeated |-> q.repeated, missed |-> q.missed]
  BY <1>1 DEF Record
<1>3. /\ Record(p) /\ p.pc = "accept" /\ p.view = q.view /\ p.accept = q.accept
      /\ p.pool = q.pool /\ p.refused = q.refused /\ p.service = s
      /\ p.unread = EndpointsOf(q.view, s) /\ p.from = 0 /\ p.draws = draws
      /\ p.repeated = q.repeated /\ p.missed = q.missed
  BY <1>2 DEF Record
<1>4. s \in Pool(q.view, q.pool) \ q.refused /\ s \in Services(q.view)
  BY DEF Pool
<1>5. EndpointsOf(q.view, s) # {}
  BY <1>4 DEF Services, EndpointsOf
<1>6. \A rank : Left(q, h, rank) => Left(p, h, rank)
  BY <1>3, LeftGrows DEF Within
<1>7. Usable(p, s) \ p.unread = {}
  BY <1>3 DEF Usable
<1>8. \A t \in p.refused : Unready(p, h, t)
  BY <1>3 DEF Unready, Usable
<1>9. Drawn(p, p.draws)
  BY <1>3 DEF Drawn
<1> QED
  BY <1>3, <1>4, <1>5, <1>6, <1>7, <1>8, <1>9 DEF Sound, Reading

\* The pools up to the current one have been left: the next is tried, or none is left.
LEMMA NextPoolSound ==
  ASSUME NEW q, Record(q), NEW h, q.view \in Views, q.pool \in Int,
         \A s \in Services(q.view) :
           Rank(q.view, s) <= q.pool => Left(q, h, Rank(q.view, s)),
         NEW p \in NextPool(q)
  PROVE  Sound(p, h)
<1> DEFINE ranks == {Rank(q.view, s) : s \in Services(q.view)}
           left == {rank \in ranks : rank > q.pool}
<1>0. ranks \in SUBSET Nat
  BY RankNat
<1>1. CASE left = {}
  <2>1. p \in Answer(q, None)
    BY <1>1 DEF NextPool
  <2>2. p = [pc |-> "done", view |-> q.view, accept |-> q.accept, pool |-> q.pool,
             draws |-> q.draws, refused |-> q.refused, service |-> q.service,
             unread |-> {}, from |-> 0, result |-> None, repeated |-> q.repeated,
             missed |-> q.missed]
    BY <2>1 DEF Answer, Record
  <2>3. /\ Record(p) /\ p.pc = "done" /\ p.view = q.view /\ p.accept = q.accept
        /\ p.result = None /\ p.repeated = q.repeated /\ p.missed = q.missed
    BY <2>2 DEF Record
  <2>4. \A s \in Services(q.view) : Left(q, h, Rank(q.view, s))
    BY <1>0, <1>1
  <2>5. \A rank : Left(q, h, rank) => Left(p, h, rank)
    BY <2>3, LeftGrows DEF Within
  <2> QED
    BY <2>3, <2>4, <2>5 DEF Sound, Ended
<1>2. CASE left # {}
  <2>0. left \in SUBSET Nat
    BY <1>0
  <2>1. PICK next \in left : next = Min(left) /\ \A rank \in left : next <= rank
    BY <1>2, <2>0, MinNat
  <2>2. PICK q1 : q1 = [q EXCEPT !.pool = next, !.refused = {}]
    OBVIOUS
  <2>3. p \in Offer(q1, Pool(q.view, next), 1)
    BY <1>2, <2>1, <2>2 DEF NextPool
  <2>4. q1 = [pc |-> q.pc, view |-> q.view, accept |-> q.accept, pool |-> next,
              draws |-> q.draws, refused |-> {}, service |-> q.service,
              unread |-> q.unread, from |-> q.from, result |-> q.result,
              repeated |-> q.repeated, missed |-> q.missed]
    BY <2>2 DEF Record
  <2>5. /\ Record(q1) /\ q1.view = q.view /\ q1.accept = q.accept
        /\ q1.pool = next /\ q1.refused = {}
        /\ q1.repeated = q.repeated /\ q1.missed = q.missed
    BY <2>4 DEF Record
  <2>6. ASSUME NEW s \in Services(q1.view), Rank(q1.view, s) < q1.pool
        PROVE  Left(q1, h, Rank(q1.view, s))
    <3>1. Rank(q.view, s) \in ranks /\ Rank(q.view, s) \in Nat /\ next \in Nat
      BY <1>0, <2>0, <2>5, <2>6
    <3>2. Rank(q.view, s) <= q.pool
      BY <2>1, <2>5, <2>6, <3>1
    <3>3. Left(q, h, Rank(q.view, s))
      BY <2>5, <2>6, <3>2
    <3> QED
      BY <2>5, <3>3, LeftGrows DEF Within
  <2>7. next \in Int
    BY <2>0, <2>1
  <2>8. Drawn(q1, 1)
    BY <2>5, FS_EmptySet DEF Drawn
  <2>9. Pool(q.view, next) \in SUBSET (Pool(q1.view, q1.pool) \ q1.refused)
    BY <2>5
  <2> HIDE DEF left
  <2> QED
    BY <2>3, <2>5, <2>6, <2>7, <2>8, <2>9, OfferSound
<1> QED
  BY <1>1, <1>2

\* A pool is finite, and there are draws enough to refuse every service of it.
LEMMA DrawsEnough ==
  ASSUME NEW view \in Views, NEW rank, NEW refused \in SUBSET Pool(view, rank),
         NEW s \in Pool(view, rank) \ refused
  PROVE  /\ Cardinality(refused) \in Nat
         /\ Cardinality(refused \cup {s}) = Cardinality(refused) + 1
         /\ Iterations(Pool(view, rank)) \in Nat
         /\ Cardinality(refused) + 1 >= Iterations(Pool(view, rank)) =>
              refused \cup {s} = Pool(view, rank)
<1> DEFINE pool == Pool(view, rank)
<1>1. IsFiniteSet(pool)
  <2>1. IsFiniteSet(view.endpoints)
    BY PositionAssumption, FS_Subset DEF Views
  <2>2. IsFiniteSet(Services(view))
    <3> DEFINE f == [e \in view.endpoints |-> Service[e]]
    <3>1. f \in Surjection(view.endpoints, Services(view))
      BY DEF Surjection, Services
    <3> HIDE DEF f
    <3> QED
      BY <2>1, <3>1, FS_Surjection
  <2>3. pool \subseteq Services(view)
    BY DEF Pool
  <2> QED
    BY <2>2, <2>3, FS_Subset
<1>2. /\ IsFiniteSet(refused) /\ IsFiniteSet(refused \cup {s})
      /\ Cardinality(refused \cup {s}) = Cardinality(refused) + 1
  BY <1>1, FS_Subset, FS_AddElement
<1> HIDE DEF pool
<1>3. Cardinality(refused) \in Nat /\ Cardinality(pool) \in Nat
  BY <1>1, <1>2, FS_CardinalityType
<1>4. Iterations(pool) \in Nat /\ Iterations(pool) >= Cardinality(pool)
  BY <1>3, IterationsAssumption, MaxOfTwo DEF Iterations
<1>5. refused \cup {s} \subseteq pool
  BY DEF pool
<1>6. ASSUME Cardinality(refused) + 1 >= Iterations(pool) PROVE refused \cup {s} = pool
  <2>1. Cardinality(refused \cup {s}) >= Cardinality(pool)
    BY <1>2, <1>3, <1>4, <1>6
  <2>2. Cardinality(refused \cup {s}) <= Cardinality(pool)
    BY <1>1, <1>5, FS_Subset
  <2>3. Cardinality(refused \cup {s}) = Cardinality(pool)
    BY <1>2, <1>3, <2>1, <2>2
  <2> QED
    BY <1>1, <1>5, <2>3, FS_Subset
<1> QED
  BY <1>2, <1>3, <1>4, <1>6 DEF pool

\* A service without a ready endpoint is refused.
LEMMA RefuseSound ==
  ASSUME NEW q, Record(q), NEW h, Reading(q, h), Unready(q, h, q.service),
         NEW p \in Refuse(q)
  PROVE  Sound(p, h)
<1> DEFINE pool == Pool(q.view, q.pool)
           refused == q.refused \cup {q.service}
           left == pool \ refused
           spare == Iterations(pool) - q.draws
           after(n) == [q EXCEPT !.refused = refused,
                                 !.repeated = IF n = 0 THEN @ ELSE @ \cup {q.pool}]
           draw(n) == IF n < spare THEN Offer(after(n), left, q.draws + n + 1)
                      ELSE NextPool([after(n) EXCEPT !.missed = @ \cup left])
<1>0. \A s \in refused : Unready(q, h, s)
  BY DEF Reading
<1>a. q.view \in Views /\ q.pool \in Int /\ q.service \in pool
  BY DEF Reading
<1>1. CASE left = {}
  <2>1. p \in NextPool(q)
    BY <1>1 DEF Refuse
  <2>2. Left(q, h, q.pool)
    <3>1. \A t \in pool : Unready(q, h, t)
      BY <1>0, <1>1
    <3> QED
      BY <1>a, <3>1 DEF Left
  <2>3. ASSUME NEW s \in Services(q.view), Rank(q.view, s) <= q.pool
        PROVE  Left(q, h, Rank(q.view, s))
    <3>1. Rank(q.view, s) \in Nat /\ q.pool \in Int
      BY <1>a, RankNat
    <3> QED
      BY <2>2, <2>3, <3>1 DEF Reading
  <2> QED
    BY <1>a, <2>1, <2>3, NextPoolSound
<1>2. CASE left # {}
  <2>1. PICK n \in 0 .. spare : p \in draw(n)
    BY <1>2 DEF Refuse
  <2>2. PICK q1 : q1 = after(n)
    OBVIOUS
  <2>3. q1 = [pc |-> q.pc, view |-> q.view, accept |-> q.accept, pool |-> q.pool,
              draws |-> q.draws, refused |-> refused, service |-> q.service,
              unread |-> q.unread, from |-> q.from, result |-> q.result,
              repeated |-> IF n = 0 THEN q.repeated ELSE q.repeated \cup {q.pool},
              missed |-> q.missed]
    BY <2>2 DEF Record
  <2>4. /\ Record(q1) /\ q1.view = q.view /\ q1.accept = q.accept
        /\ q1.pool = q.pool /\ q1.refused = refused
        /\ q1.repeated = IF n = 0 THEN q.repeated ELSE q.repeated \cup {q.pool}
        /\ q1.missed = q.missed
    BY <2>3 DEF Record
  <2>5. /\ Cardinality(refused) = Cardinality(q.refused) + 1
        /\ Cardinality(q.refused) \in Nat /\ Iterations(pool) \in Nat
        /\ Cardinality(q.refused) + 1 >= Iterations(pool) => refused = pool
    <3>1. q.refused \in SUBSET pool /\ q.service \in pool \ q.refused
      BY DEF Reading, Drawn
    <3>2. PICK v, R, x : v = q.view /\ R = q.refused /\ x = q.service
      OBVIOUS
    <3>2a. v \in Views /\ R \in SUBSET Pool(v, q.pool) /\ x \in Pool(v, q.pool) \ R
      BY <1>a, <3>1, <3>2
    <3>3. /\ Cardinality(R) \in Nat
          /\ Cardinality(R \cup {x}) = Cardinality(R) + 1
          /\ Iterations(Pool(v, q.pool)) \in Nat
          /\ Cardinality(R) + 1 >= Iterations(Pool(v, q.pool)) =>
               R \cup {x} = Pool(v, q.pool)
      BY <3>2a, DrawsEnough
    <3> QED
      BY <3>2, <3>3
  <2>6. /\ q.draws \in Nat /\ n \in Nat
        /\ q.pool \notin q.repeated => q.draws = Cardinality(q.refused) + 1
    BY <2>5 DEF Reading, Drawn
  <2>7. refused \subseteq pool
    BY <1>a DEF Reading, Drawn
  <2>8. CASE n < spare
    <3>1. p \in Offer(q1, left, q.draws + n + 1)
      BY <2>1, <2>2, <2>8
    <3>2. \A s \in q1.refused : Unready(q1, h, s)
      BY <1>0, <2>4 DEF Unready, Usable
    <3>3. ASSUME NEW s \in Services(q1.view), Rank(q1.view, s) < q1.pool
          PROVE  Left(q1, h, Rank(q1.view, s))
      <4>1. Left(q, h, Rank(q.view, s))
        BY <2>4, <3>3 DEF Reading
      <4> QED
        BY <2>4, <4>1, LeftGrows DEF Within
    <3>4. Drawn(q1, q.draws + n + 1)
      <4>1. q1.pool \notin q1.repeated => n = 0 /\ q.pool \notin q.repeated
        BY <2>4
      <4>2. q1.pool \notin q1.repeated => q.draws + n + 1 = Cardinality(q1.refused) + 1
        <5> HIDE DEF refused
        <5> QED
          BY <2>4, <2>5, <2>6, <4>1
      <4>3. q.draws + n + 1 \in Nat
        BY <2>6
      <4> QED
        BY <2>4, <2>7, <4>2, <4>3 DEF Drawn
    <3>5. left \in SUBSET (Pool(q1.view, q1.pool) \ q1.refused)
      BY <2>4
    <3> HIDE DEF left
    <3> QED
      BY <1>a, <2>4, <3>1, <3>2, <3>3, <3>4, <3>5, OfferSound
  <2>9. CASE ~(n < spare)
    <3>1. PICK q2 : q2 = [q1 EXCEPT !.missed = @ \cup left]
      OBVIOUS
    <3>2. p \in NextPool(q2)
      BY <2>1, <2>2, <2>9, <3>1
    <3>3. q2 = [pc |-> q1.pc, view |-> q1.view, accept |-> q1.accept, pool |-> q1.pool,
                draws |-> q1.draws, refused |-> q1.refused, service |-> q1.service,
                unread |-> q1.unread, from |-> q1.from, result |-> q1.result,
                repeated |-> q1.repeated, missed |-> q1.missed \cup left]
      BY <2>4, <3>1 DEF Record
    <3>4. /\ Record(q2) /\ q2.view = q.view /\ q2.accept = q.accept /\ q2.pool = q.pool
          /\ q2.repeated = q1.repeated /\ q2.missed = q.missed \cup left
      BY <2>4, <3>3 DEF Record
    <3>5. q.pool \in q2.repeated
      <4>1. CASE n # 0
        BY <2>4, <3>4, <4>1
      <4>2. CASE n = 0
        <5>1. Cardinality(q.refused) + 1 >= Iterations(pool) \/ q.pool \in q.repeated
          <6> HIDE DEF pool
          <6> QED
            BY <2>5, <2>6, <2>9, <4>2
        <5>2. refused # pool
          BY <1>2
        <5> QED
          BY <2>4, <2>5, <3>4, <4>2, <5>1, <5>2
      <4> QED
        BY <4>1, <4>2
    <3>6. \A t : Unready(q, h, t) => Unready(q2, h, t)
      BY <3>4 DEF Unready, Usable
    <3>7. Left(q2, h, q.pool)
      <4>1. \A t \in pool : t \in refused \/ t \in left
        OBVIOUS
      <4>2. \A t \in pool : Unready(q2, h, t) \/ t \in q2.missed
        BY <1>0, <3>4, <3>6, <4>1
      <4>3. Unready(q2, h, q.service)
        BY <3>6
      <4> QED
        BY <1>a, <3>4, <3>5, <4>2, <4>3 DEF Left
    <3>8. ASSUME NEW s \in Services(q2.view), Rank(q2.view, s) <= q2.pool
          PROVE  Left(q2, h, Rank(q2.view, s))
      <4>1. Rank(q.view, s) \in Nat /\ q.pool \in Int
        BY <1>a, <3>4, <3>8, RankNat
      <4>2. CASE Rank(q.view, s) = q.pool
        BY <3>4, <3>7, <4>2
      <4>3. CASE Rank(q.view, s) < q.pool
        <5>1. Left(q, h, Rank(q.view, s))
          BY <3>4, <4>3 DEF Reading
        <5>2. q.repeated \subseteq q2.repeated /\ q.missed \subseteq q2.missed
          BY <2>4, <3>4
        <5> QED
          BY <3>4, <5>1, <5>2, LeftGrows DEF Within
      <4> QED
        BY <3>4, <3>8, <4>1, <4>2, <4>3
    <3> QED
      BY <1>a, <3>2, <3>4, <3>8, NextPoolSound
  <2> QED
    BY <2>8, <2>9
<1> QED
  BY <1>1, <1>2

\* An endpoint is read that is not ready, or not acceptable.
LEMMA ReadOn ==
  ASSUME NEW q, NEW h, Reading(q, h), NEW e \in q.unread,
         e \in q.accept => e \in h.unready
  PROVE  Usable(q, q.service) \ (q.unread \ {e}) \subseteq h.unready
BY DEF Reading, Usable

\* One endpoint less is to be read.
LEMMA RestSound ==
  ASSUME NEW q, Record(q), NEW h, Reading(q, h), q.pc \in {"accept", "endpoint"},
         NEW e \in q.unread, e \in q.accept => e \in h.unready, q.unread \ {e} # {},
         NEW p, p = [q EXCEPT !.unread = q.unread \ {e}]
  PROVE  Sound(p, h)
<1>1. p = [pc |-> q.pc, view |-> q.view, accept |-> q.accept, pool |-> q.pool,
           draws |-> q.draws, refused |-> q.refused, service |-> q.service,
           unread |-> q.unread \ {e}, from |-> q.from, result |-> q.result,
           repeated |-> q.repeated, missed |-> q.missed]
  BY DEF Record
<1>2. /\ Record(p) /\ p.pc = q.pc /\ p.view = q.view /\ p.accept = q.accept
      /\ p.pool = q.pool /\ p.refused = q.refused /\ p.service = q.service
      /\ p.unread = q.unread \ {e} /\ p.from = q.from /\ p.draws = q.draws
      /\ p.repeated = q.repeated /\ p.missed = q.missed
  BY <1>1 DEF Record
<1>3. \A rank : Left(q, h, rank) => Left(p, h, rank)
  BY <1>2, LeftGrows DEF Within
<1>4. \A s : Usable(p, s) = Usable(q, s)
  BY <1>2 DEF Usable
<1>5. \A s : Unready(q, h, s) => Unready(p, h, s)
  BY <1>4 DEF Unready
<1>6. Usable(p, p.service) \ p.unread \subseteq h.unready
  BY <1>2, <1>4, ReadOn
<1>7. Reading(p, h)
  BY <1>2, <1>3, <1>4, <1>5, <1>6 DEF Reading, Drawn
<1> QED
  BY <1>2, <1>7 DEF Sound

\* The service has an endpoint that is ready: select_endpoint starts anywhere.
LEMMA AcceptedSound ==
  ASSUME NEW q, Record(q), NEW h, Reading(q, h), NEW e \in q.unread, e \in q.accept,
         e \in h.ready, NEW n \in Nat, NEW p,
         p = [q EXCEPT !.pc = "endpoint", !.unread = EndpointsOf(q.view, q.service),
                       !.from = n]
  PROVE  Sound(p, h)
<1>1. p = [pc |-> "endpoint", view |-> q.view, accept |-> q.accept, pool |-> q.pool,
           draws |-> q.draws, refused |-> q.refused, service |-> q.service,
           unread |-> EndpointsOf(q.view, q.service), from |-> n, result |-> q.result,
           repeated |-> q.repeated, missed |-> q.missed]
  BY DEF Record
<1>2. /\ Record(p) /\ p.pc = "endpoint" /\ p.view = q.view /\ p.accept = q.accept
      /\ p.pool = q.pool /\ p.refused = q.refused /\ p.service = q.service
      /\ p.unread = EndpointsOf(q.view, q.service) /\ p.from = n /\ p.draws = q.draws
      /\ p.repeated = q.repeated /\ p.missed = q.missed
  BY <1>1 DEF Record
<1>3. \A rank : Left(q, h, rank) => Left(p, h, rank)
  BY <1>2, LeftGrows DEF Within
<1>4. \A s : Usable(p, s) = Usable(q, s)
  BY <1>2 DEF Usable
<1>5. \A s : Unready(q, h, s) => Unready(p, h, s)
  BY <1>4 DEF Unready
<1>6. Usable(p, p.service) \ p.unread = {} /\ e \in Usable(p, p.service) \cap h.ready
  BY <1>2 DEF Usable, Reading
<1>7. Reading(p, h)
  BY <1>2, <1>3, <1>5, <1>6 DEF Reading, Drawn
<1> QED
  BY <1>2, <1>7 DEF Sound

\* select_endpoint answers with an endpoint that is ready.
LEMMA AnswerSound ==
  ASSUME NEW q, Record(q), NEW h, Reading(q, h), NEW e \in q.unread, e \in q.accept,
         e \in h.ready, NEW p \in Answer(q, e)
  PROVE  Sound(p, h)
<1>1. p = [pc |-> "done", view |-> q.view, accept |-> q.accept, pool |-> q.pool,
           draws |-> q.draws, refused |-> q.refused, service |-> q.service,
           unread |-> {}, from |-> 0, result |-> e, repeated |-> q.repeated,
           missed |-> q.missed]
  BY DEF Answer, Record
<1>2. /\ Record(p) /\ p.pc = "done" /\ p.view = q.view /\ p.accept = q.accept
      /\ p.result = e /\ p.repeated = q.repeated /\ p.missed = q.missed
  BY <1>1 DEF Record
<1>3. \A rank : Left(q, h, rank) => Left(p, h, rank)
  BY <1>2, LeftGrows DEF Within
<1>4. e \in EndpointsOf(q.view, q.service) /\ Service[e] = q.service
  BY DEF Reading, EndpointsOf
<1>5. Rank(q.view, q.service) = q.pool
  BY DEF Reading, Pool
<1>6. e # None
  BY <1>4, NoneAssumption DEF EndpointsOf, Reading, Views
<1>7. Ended(p, h)
  BY <1>2, <1>3, <1>4, <1>5, <1>6 DEF Ended, Reading
<1> QED
  BY <1>2, <1>7 DEF Sound

\* The service has no ready endpoint any more, though it had one: readiness has changed.
LEMMA GoneSound ==
  ASSUME NEW q, Record(q), NEW h, Reading(q, h), q.pc = "endpoint",
         Unready(q, h, q.service), NEW p \in NextPool(q)
  PROVE  Sound(p, h)
<1>1. PICK x \in Usable(q, q.service) : x \in h.ready
  BY DEF Reading
<1>2. ~Steady(q, h)
  BY <1>1 DEF Unready, Steady, Usable, EndpointsOf
<1>3. Left(q, h, q.pool)
  BY <1>2 DEF Left, Reading
<1>4. ASSUME NEW s \in Services(q.view), Rank(q.view, s) <= q.pool
      PROVE  Left(q, h, Rank(q.view, s))
  <2>1. Rank(q.view, s) \in Nat /\ q.pool \in Int
    BY RankNat DEF Reading
  <2> QED
    BY <1>3, <1>4, <2>1 DEF Reading
<1> QED
  BY <1>4, NextPoolSound DEF Reading

-----------------------------------------------------------------------------
(* The steps of the system *)

\* A step of a selection, or beside it, is seen by the selections under way.
LEMMA WatchSees ==
  ASSUME Types, Watch, NEW r \in Requests
  PROVE  /\ seen' \in [Requests -> [ready : SUBSET Endpoints, unready : SUBSET Endpoints]]
         /\ req'[r].pc # "idle" => Within(seen[r], seen'[r])
         /\ req'[r].pc # "idle" /\ req[r].pc # "done" =>
              /\ \A e \in Endpoints : health[e].ready => e \in seen'[r].ready
              /\ \A e \in Endpoints : ~health[e].ready => e \in seen'[r].unready
<1> DEFINE next(x) ==
      [ready |-> seen[x].ready \cup (Endpoints \ UnreadyIn(health)),
       unready |-> seen[x].unready \cup UnreadyIn(health)]
<1>1. ASSUME NEW x \in Requests
      PROVE  /\ seen'[x] \in {Unseen, seen[x], next(x)}
             /\ req'[x].pc # "idle" => seen'[x] \in {seen[x], next(x)}
             /\ req'[x].pc # "idle" /\ req[x].pc # "done" => seen'[x] = next(x)
  BY DEF Watch
<1>2. seen' = [x \in Requests |-> seen'[x]]
  BY DEF Watch
<1>3. ASSUME NEW x \in Requests
      PROVE  seen'[x] \in [ready : SUBSET Endpoints, unready : SUBSET Endpoints]
  <2>1. seen[x] \in [ready : SUBSET Endpoints, unready : SUBSET Endpoints]
    BY DEF Types
  <2>2. next(x) \in [ready : SUBSET Endpoints, unready : SUBSET Endpoints]
    BY <2>1 DEF UnreadyIn
  <2>3. Unseen \in [ready : SUBSET Endpoints, unready : SUBSET Endpoints]
    BY DEF Unseen
  <2> QED
    BY <1>1, <2>1, <2>2, <2>3
<1>4. /\ next(r).ready = seen[r].ready \cup (Endpoints \ UnreadyIn(health))
      /\ next(r).unready = seen[r].unready \cup UnreadyIn(health)
  OBVIOUS
<1>5. ASSUME req'[r].pc # "idle" PROVE Within(seen[r], seen'[r])
  <2>1. CASE seen'[r] = seen[r]
    BY <2>1 DEF Within
  <2>2. CASE seen'[r] = next(r)
    <3> HIDE DEF next
    <3> QED
      BY <1>4, <2>2 DEF Within
  <2> QED
    BY <1>1, <1>5, <2>1, <2>2
<1>6. ASSUME req'[r].pc # "idle", req[r].pc # "done"
      PROVE  /\ \A e \in Endpoints : health[e].ready => e \in seen'[r].ready
             /\ \A e \in Endpoints : ~health[e].ready => e \in seen'[r].unready
  <2>1. seen'[r] = next(r)
    BY <1>1, <1>6
  <2> HIDE DEF next
  <2> QED
    BY <1>4, <2>1 DEF UnreadyIn
<1> QED
  BY <1>2, <1>3, <1>5, <1>6

\* Selections that take no step stay sound.
LEMMA BesideSound ==
  ASSUME Types, SelectionInv, Watch, NEW r \in Requests, req'[r] = req[r]
  PROVE  Sound(req'[r], seen'[r])
<1>1. Sound(req[r], seen[r])
  BY DEF SelectionInv
<1>2. CASE req[r].pc = "idle"
  BY <1>1, <1>2 DEF Sound
<1>3. CASE req[r].pc # "idle"
  BY <1>1, <1>3, WatchSees, SoundGrows
<1> QED
  BY <1>2, <1>3

\* Targets that nobody names any more are forgotten with what they have counted.
LEMMA ReleaseInv ==
  ASSUME Types, HealthInv, ReleaseUnused
  PROVE  /\ health' \in [Endpoints -> [ready : BOOLEAN, contrary : Nat]]
         /\ observed' \in [Endpoints -> [ok : BOOLEAN, times : Nat]]
         /\ HealthInv'
<1>1. Fresh \in [ready : BOOLEAN, contrary : Nat] /\ Unobserved \in [ok : BOOLEAN, times : Nat]
  BY DEF Fresh, Unobserved
<1>2. Follows(Fresh, Unobserved)
  BY DEF Follows, Fresh, Unobserved
<1>3. /\ health' \in [Endpoints -> [ready : BOOLEAN, contrary : Nat]]
      /\ observed' \in [Endpoints -> [ok : BOOLEAN, times : Nat]]
  BY <1>1 DEF Types, ReleaseUnused
<1>4. ASSUME NEW e \in Endpoints PROVE Follows(health'[e], observed'[e])
  <2>1. \/ health'[e] = health[e] /\ observed'[e] = observed[e]
        \/ health'[e] = Fresh /\ observed'[e] = Unobserved
    BY DEF ReleaseUnused
  <2> QED
    BY <1>2, <2>1 DEF HealthInv
<1> QED
  BY <1>3, <1>4 DEF HealthInv, Follows, HealthThreshold

\* A selection takes a step to a sound state.
LEMMA GotoInv ==
  ASSUME IInv, NEW r \in Requests, NEW q, req' = [req EXCEPT ![r] = q],
         selection' = selection, ReleaseUnused, Watch, Sound(q, seen'[r])
  PROVE  IInv'
<1>1. Types /\ HealthInv /\ SelectionInv
  BY DEF IInv
<1>2. DOMAIN req' = Requests /\ req'[r] = q
  BY <1>1 DEF Types
<1>3. seen' \in [Requests -> [ready : SUBSET Endpoints, unready : SUBSET Endpoints]]
  BY <1>1, WatchSees
<1>4. Types' /\ HealthInv'
  BY <1>1, <1>2, <1>3, ReleaseInv DEF Types
<1>5. ASSUME NEW x \in Requests PROVE Sound(req'[x], seen'[x])
  <2>1. CASE x = r
    BY <1>2, <2>1
  <2>2. CASE x # r
    <3>1. req'[x] = req[x]
      BY <1>1, <2>2 DEF Types
    <3> QED
      BY <1>1, <3>1, BesideSound
  <2> QED
    BY <2>1, <2>2
<1>6. SelectionInv'
  BY <1>5 DEF SelectionInv
<1> QED
  BY <1>4, <1>6 DEF IInv

LEMMA StartRecord ==
  ASSUME NEW i, Record(i), NEW v, NEW a
  PROVE  [i EXCEPT !.view = v, !.accept = a] =
           [pc |-> i.pc, view |-> v, accept |-> a, pool |-> i.pool, draws |-> i.draws,
            refused |-> i.refused, service |-> i.service, unread |-> i.unread,
            from |-> i.from, result |-> i.result, repeated |-> i.repeated,
            missed |-> i.missed]
<1>1. PICK j : j = [i EXCEPT !.view = v, !.accept = a]
  OBVIOUS
<1>2. j = [pc |-> i.pc, view |-> v, accept |-> a, pool |-> i.pool, draws |-> i.draws,
           refused |-> i.refused, service |-> i.service, unread |-> i.unread,
           from |-> i.from, result |-> i.result, repeated |-> i.repeated,
           missed |-> i.missed]
  BY <1>1 DEF Record
<1> QED
  BY <1>1, <1>2

\* The snapshot is loaded, and its first pool is tried.
LEMMA BeginInv ==
  ASSUME IInv, NEW r \in Requests, NEW accept \in Filters, Begin(r, accept)
  PROVE  IInv'
<1> DEFINE start == [Idle EXCEPT !.view = selection, !.accept = accept]
           records == IF selection = None THEN Answer(Idle, None) ELSE NextPool(start)
<1>1. PICK q \in records : req' = [req EXCEPT ![r] = q]
  BY DEF Begin, Goto
<1>2. selection' = selection /\ ReleaseUnused /\ Watch
  BY DEF Begin, Goto
<1>3. Sound(q, seen'[r])
  <2>1. CASE selection = None
    <3>1. q = [Idle EXCEPT !.pc = "done", !.unread = {}, !.from = 0, !.result = None]
      BY <1>1, <2>1 DEF Answer
    <3>2. /\ Record(q) /\ q.pc = "done" /\ q.view.endpoints = {} /\ q.result = None
      BY <3>1 DEF Idle, Record
    <3>3. Services(q.view) = {}
      BY <3>2 DEF Services
    <3> QED
      BY <3>2, <3>3 DEF Sound, Ended
  <2>2. CASE selection # None
    <3>1. q \in NextPool(start)
      BY <1>1, <2>2
    <3>0. start = [pc |-> "idle", view |-> selection, accept |-> accept, pool |-> -1,
                   draws |-> 0, refused |-> {}, service |-> None, unread |-> {},
                   from |-> 0, result |-> None, repeated |-> {}, missed |-> {}]
      <4>1. Record(Idle)
        BY DEF Idle, Record
      <4>2. /\ Idle.pc = "idle" /\ Idle.pool = -1 /\ Idle.refused = {}
            /\ Idle.service = None /\ Idle.unread = {} /\ Idle.from = 0
            /\ Idle.result = None /\ Idle.draws = 0 /\ Idle.repeated = {}
            /\ Idle.missed = {}
        BY DEF Idle
      <4>3. start = [pc |-> Idle.pc, view |-> selection, accept |-> accept,
                     pool |-> Idle.pool, draws |-> Idle.draws,
                     refused |-> Idle.refused, service |-> Idle.service,
                     unread |-> Idle.unread, from |-> Idle.from,
                     result |-> Idle.result, repeated |-> Idle.repeated,
                     missed |-> Idle.missed]
        BY <4>1, StartRecord
      <4> QED
        BY <4>2, <4>3
    <3> HIDE DEF start
    <3>2. /\ Record(start) /\ start.view = selection /\ start.pool = -1
      BY <3>0 DEF Record
    <3>3. start.view \in Views
      BY <2>2, <3>2 DEF IInv, Types
    <3>4. \A s \in Services(start.view) : ~(Rank(start.view, s) <= start.pool)
      BY <3>2, <3>3, RankNat
    <3>5. start.pool \in Int
      BY <3>2
    <3> QED
      BY <3>1, <3>2, <3>3, <3>4, <3>5, NextPoolSound
  <2> QED
    BY <2>1, <2>2
<1> QED
  BY <1>1, <1>2, <1>3, GotoInv

\* What a request that reads the readiness of an endpoint knows of it after the step.
LEMMA ReadSees ==
  ASSUME IInv, NEW r \in Requests, req[r].pc \in {"accept", "endpoint"}, Watch,
         req'[r].pc # "idle"
  PROVE  /\ Record(req[r]) /\ Reading(req[r], seen'[r]) /\ Turn(req[r]) \in req[r].unread
         /\ Ready(r, Turn(req[r])) =>
              Turn(req[r]) \in req[r].accept /\ Turn(req[r]) \in seen'[r].ready
         /\ ~Ready(r, Turn(req[r])) =>
              (Turn(req[r]) \in req[r].accept => Turn(req[r]) \in seen'[r].unready)
<1>1. Sound(req[r], seen[r]) /\ Within(seen[r], seen'[r])
  BY WatchSees DEF IInv, SelectionInv
<1>2. Record(req[r]) /\ Reading(req[r], seen'[r])
  BY <1>1, SoundGrows DEF Sound
<1>3. req[r].unread \subseteq Endpoints /\ req[r].unread # {} /\ req[r].from \in Nat
  BY <1>2 DEF Reading, EndpointsOf, Views
<1>4. Turn(req[r]) \in req[r].unread /\ Turn(req[r]) \in Endpoints
  BY <1>3, TurnUnread
<1>5. /\ \A e \in Endpoints : health[e].ready => e \in seen'[r].ready
      /\ \A e \in Endpoints : ~health[e].ready => e \in seen'[r].unready
  BY WatchSees DEF IInv
<1> QED
  BY <1>2, <1>4, <1>5 DEF Ready

\* No step of a selection under way makes it idle.
LEMMA OfferBusy ==
  ASSUME NEW q, Record(q), NEW S, NEW n, NEW p \in Offer(q, S, n) PROVE p.pc = "accept"
<1>1. PICK s \in S :
        p = [q EXCEPT !.pc = "accept", !.service = s, !.unread = EndpointsOf(q.view, s),
                      !.from = 0, !.draws = n]
  BY DEF Offer
<1> QED
  BY <1>1 DEF Record

LEMMA AnswerBusy ==
  ASSUME NEW q, Record(q), NEW e, NEW p \in Answer(q, e) PROVE p.pc = "done"
BY DEF Answer, Record

LEMMA NextPoolBusy ==
  ASSUME NEW q, Record(q), NEW p \in NextPool(q) PROVE p.pc # "idle"
<1>1. CASE p \in Answer(q, None)
  BY <1>1, AnswerBusy
<1>2. ASSUME NEW n, NEW S, p \in Offer([q EXCEPT !.pool = n, !.refused = {}], S, 1)
      PROVE  p.pc # "idle"
  <2>1. PICK q1 : q1 = [q EXCEPT !.pool = n, !.refused = {}]
    OBVIOUS
  <2>2. Record(q1)
    BY <2>1 DEF Record
  <2> QED
    BY <1>2, <2>1, <2>2, OfferBusy
<1> QED
  BY <1>1, <1>2 DEF NextPool

LEMMA RefuseBusy ==
  ASSUME NEW q, Record(q), NEW p \in Refuse(q) PROVE p.pc # "idle"
<1>1. CASE p \in NextPool(q)
  BY <1>1, NextPoolBusy
<1>2. ASSUME NEW n, NEW m, NEW k, NEW S, NEW q1, q1 = [q EXCEPT !.refused = n, !.repeated = m],
             p \in Offer(q1, S, k) \/ p \in NextPool([q1 EXCEPT !.missed = @ \cup S])
      PROVE  p.pc # "idle"
  <2>1. Record(q1)
    BY <1>2 DEF Record
  <2>2. CASE p \in Offer(q1, S, k)
    BY <2>1, <2>2, OfferBusy
  <2>3. CASE p \in NextPool([q1 EXCEPT !.missed = @ \cup S])
    <3>1. PICK q2 : q2 = [q1 EXCEPT !.missed = @ \cup S]
      OBVIOUS
    <3>2. Record(q2)
      BY <2>1, <3>1 DEF Record
    <3> QED
      BY <2>3, <3>1, <3>2, NextPoolBusy
  <2> QED
    BY <1>2, <2>2, <2>3
<1> DEFINE pool == Pool(q.view, q.pool)
           refused == q.refused \cup {q.service}
           left == pool \ refused
           spare == Iterations(pool) - q.draws
           more(n) == IF n = 0 THEN q.repeated ELSE q.repeated \cup {q.pool}
           after(n) == [q EXCEPT !.refused = refused, !.repeated = more(n)]
           draw(n) == IF n < spare THEN Offer(after(n), left, q.draws + n + 1)
                      ELSE NextPool([after(n) EXCEPT !.missed = @ \cup left])
<1>3. CASE left # {}
  <2>1. PICK n \in 0 .. spare : p \in draw(n)
    BY <1>3 DEF Refuse
  <2>2. PICK q1 : q1 = after(n)
    OBVIOUS
  <2>3. p \in Offer(q1, left, q.draws + n + 1) \/ p \in NextPool([q1 EXCEPT !.missed = @ \cup left])
    BY <2>1, <2>2
  <2> HIDE DEF left, refused, more
  <2> QED
    BY <1>2, <2>2, <2>3
<1> QED
  BY <1>1, <1>3 DEF Refuse

\* A service is accepted for one ready endpoint and refused for none.
LEMMA AcceptInv == ASSUME IInv, NEW r \in Requests, Accept(r) PROVE IInv'
<1> DEFINE q == req[r]
           e == Turn(q)
           rest == q.unread \ {e}
           all == EndpointsOf(q.view, q.service)
           accepted == {[q EXCEPT !.pc = "endpoint", !.unread = all, !.from = Position[x]] :
                          x \in all}
           records == IF Ready(r, e) THEN accepted
                      ELSE IF rest # {} THEN {[q EXCEPT !.unread = rest]}
                      ELSE Refuse(q)
<1>0. q.pc = "accept" /\ Record(q) /\ Reading(q, seen[r]) /\ DOMAIN req = Requests
  BY DEF Accept, IInv, SelectionInv, Sound, Types
<1>1. PICK p \in records : req' = [req EXCEPT ![r] = p]
  BY DEF Accept, Goto
<1>2. selection' = selection /\ ReleaseUnused /\ Watch
  BY DEF Accept, Goto
<1>3. p.pc # "idle"
  <2>1. CASE p \in accepted \/ p = [q EXCEPT !.unread = rest]
    BY <1>0, <2>1 DEF Record
  <2>2. CASE p \in Refuse(q)
    BY <1>0, <2>2, RefuseBusy
  <2> QED
    BY <1>1, <2>1, <2>2
<1>4. /\ Reading(q, seen'[r]) /\ e \in q.unread
      /\ Ready(r, e) => e \in q.accept /\ e \in seen'[r].ready
      /\ ~Ready(r, e) => (e \in q.accept => e \in seen'[r].unready)
  <2>1. req'[r].pc # "idle"
    BY <1>0, <1>1, <1>3
  <2> QED
    BY <1>0, <1>2, <2>1, ReadSees
<1>5. Sound(p, seen'[r])
  <2>1. CASE Ready(r, e)
    <3>1. PICK x \in all : p = [q EXCEPT !.pc = "endpoint", !.unread = all, !.from = Position[x]]
      BY <1>1, <2>1
    <3>2. Position[x] \in Nat
      BY <1>0, PositionAssumption DEF EndpointsOf, Reading, Views
    <3> HIDE DEF q, e
    <3> QED
      BY <1>0, <1>4, <2>1, <3>1, <3>2, AcceptedSound
  <2>2. CASE ~Ready(r, e) /\ rest # {}
    <3>1. p = [q EXCEPT !.unread = rest]
      BY <1>1, <2>2
    <3> HIDE DEF q, e
    <3> QED
      BY <1>0, <1>4, <2>2, <3>1, RestSound
  <2>3. CASE ~Ready(r, e) /\ rest = {}
    <3>1. p \in Refuse(q)
      BY <1>1, <2>3
    <3> HIDE DEF q, e
    <3>2. Unready(q, seen'[r], q.service)
      BY <1>4, <2>3, ReadOn DEF Unready
    <3> QED
      BY <1>0, <1>4, <3>1, <3>2, RefuseSound
  <2> QED
    BY <2>1, <2>2, <2>3
<1> QED
  BY <1>1, <1>2, <1>5, GotoInv

\* An endpoint that is ready is the answer; if there is none left, the pool is.
LEMMA SelectEndpointInv ==
  ASSUME IInv, NEW r \in Requests, SelectEndpoint(r) PROVE IInv'
<1> DEFINE q == req[r]
           e == Turn(q)
           rest == q.unread \ {e}
           records == IF Ready(r, e) THEN Answer(q, e)
                      ELSE IF rest # {} THEN {[q EXCEPT !.unread = rest]}
                      ELSE NextPool(q)
<1>0. q.pc = "endpoint" /\ Record(q) /\ Reading(q, seen[r]) /\ DOMAIN req = Requests
  BY DEF SelectEndpoint, IInv, SelectionInv, Sound, Types
<1>1. PICK p \in records : req' = [req EXCEPT ![r] = p]
  BY DEF SelectEndpoint, Goto
<1>2. selection' = selection /\ ReleaseUnused /\ Watch
  BY DEF SelectEndpoint, Goto
<1>3. p.pc # "idle"
  <2>1. CASE p \in Answer(q, e)
    BY <1>0, <2>1, AnswerBusy
  <2>2. CASE p = [q EXCEPT !.unread = rest]
    BY <1>0, <2>2 DEF Record
  <2>3. CASE p \in NextPool(q)
    BY <1>0, <2>3, NextPoolBusy
  <2> QED
    BY <1>1, <2>1, <2>2, <2>3
<1>4. /\ Reading(q, seen'[r]) /\ e \in q.unread
      /\ Ready(r, e) => e \in q.accept /\ e \in seen'[r].ready
      /\ ~Ready(r, e) => (e \in q.accept => e \in seen'[r].unready)
  <2>1. req'[r].pc # "idle"
    BY <1>0, <1>1, <1>3
  <2> QED
    BY <1>0, <1>2, <2>1, ReadSees
<1>5. Sound(p, seen'[r])
  <2>1. CASE Ready(r, e)
    <3>1. p \in Answer(q, e)
      BY <1>1, <2>1
    <3> HIDE DEF q, e
    <3> QED
      BY <1>0, <1>4, <2>1, <3>1, AnswerSound
  <2>2. CASE ~Ready(r, e) /\ rest # {}
    <3>1. p = [q EXCEPT !.unread = rest]
      BY <1>1, <2>2
    <3> HIDE DEF q, e
    <3> QED
      BY <1>0, <1>4, <2>2, <3>1, RestSound
  <2>3. CASE ~Ready(r, e) /\ rest = {}
    <3>1. p \in NextPool(q)
      BY <1>1, <2>3
    <3> HIDE DEF q, e
    <3>2. Unready(q, seen'[r], q.service)
      BY <1>4, <2>3, ReadOn DEF Unready
    <3> QED
      BY <1>0, <1>4, <3>1, <3>2, GoneSound
  <2> QED
    BY <2>1, <2>2, <2>3
<1> QED
  BY <1>1, <1>2, <1>5, GotoInv

LEMMA FinishInv == ASSUME IInv, NEW r \in Requests, Finish(r) PROVE IInv'
<1>1. req' = [req EXCEPT ![r] = Idle] /\ selection' = selection /\ ReleaseUnused /\ Watch
  BY DEF Finish, Goto
<1>2. Sound(Idle, seen'[r])
  BY DEF Sound, Record, Idle
<1> QED
  BY <1>1, <1>2, GotoInv

\* A step beside the selections: the snapshot or the registry changes.
LEMMA AsideInv ==
  ASSUME IInv, req' = req, Watch, selection' = None \/ selection' \in Views,
         health' \in [Endpoints -> [ready : BOOLEAN, contrary : Nat]],
         observed' \in [Endpoints -> [ok : BOOLEAN, times : Nat]], HealthInv'
  PROVE  IInv'
<1>1. Types /\ SelectionInv
  BY DEF IInv
<1>2. ASSUME NEW r \in Requests
      PROVE  seen' \in [Requests -> [ready : SUBSET Endpoints, unready : SUBSET Endpoints]]
  BY <1>1, WatchSees
<1>3. seen' \in [Requests -> [ready : SUBSET Endpoints, unready : SUBSET Endpoints]]
  <2>1. CASE Requests = {}
    BY <2>1 DEF Watch
  <2> QED
    BY <1>2, <2>1
<1>4. Types'
  BY <1>1, <1>3 DEF Types
<1>5. ASSUME NEW r \in Requests PROVE Sound(req'[r], seen'[r])
  BY <1>1, BesideSound
<1> QED
  BY <1>4, <1>5 DEF IInv, SelectionInv

\* The result of a check is counted, or is of a target that was forgotten meanwhile.
LEMMA CheckBackendInv ==
  ASSUME IInv, NEW e \in Endpoints, CheckBackend(e) PROVE IInv'
<1>1. Types /\ HealthInv
  BY DEF IInv
<1>2. req' = req /\ Watch /\ (selection' = None \/ selection' \in Views)
  BY <1>1 DEF CheckBackend, Types
<1>3. CASE e \in Registered
  <2>0. (e \in up) \in BOOLEAN
    <3>1. CASE e \in up
      <4>1. (e \in up) = TRUE
        BY <3>1
      <4> QED
        BY <4>1, Zenon
    <3>2. CASE e \notin up
      <4>1. (e \in up) = FALSE
        BY <3>2
      <4> QED
        BY <4>1, Zenon
    <3> QED
      BY <3>1, <3>2
  <2>1. PICK ok \in BOOLEAN : ok = (e \in up)
    BY <2>0, Zenon
  <2> DEFINE h == health[e]
             o == observed[e]
             n == Min({IF o.ok = ok THEN o.times + 1 ELSE 1, HealthThreshold(ok)})
  <2>2. /\ health' = [health EXCEPT ![e] = Observe(h, ok)]
        /\ observed' = [observed EXCEPT ![e] = [ok |-> ok, times |-> n]]
    BY <1>3, <2>1 DEF CheckBackend
  <2>3. h \in [ready : BOOLEAN, contrary : Nat] /\ o \in [ok : BOOLEAN, times : Nat]
        /\ Follows(h, o)
    BY <1>1 DEF Types, HealthInv
  <2>4. n \in Nat
    <3>1. {IF o.ok = ok THEN o.times + 1 ELSE 1, HealthThreshold(ok)} \in SUBSET Nat
      BY <2>3, ThresholdAssumption DEF HealthThreshold
    <3> QED
      BY <3>1, MinNat
  <2>5. PICK m \in Nat : m = n
    BY <2>4
  <2> HIDE DEF h, o
  <2>6. /\ Observe(h, ok) \in [ready : BOOLEAN, contrary : Nat]
        /\ Follows(Observe(h, ok), [ok |-> ok, times |-> m])
    BY <2>3, <2>5, ObserveFollows
  <2>7. PICK h1, o1 : h1 = Observe(h, ok) /\ o1 = [ok |-> ok, times |-> m]
    OBVIOUS
  <2> HIDE DEF n
  <2>8. /\ h1 \in [ready : BOOLEAN, contrary : Nat] /\ o1 \in [ok : BOOLEAN, times : Nat]
        /\ Follows(h1, o1)
    BY <2>6, <2>7
  <2>9. health' = [health EXCEPT ![e] = h1] /\ observed' = [observed EXCEPT ![e] = o1]
    BY <2>2, <2>5, <2>7
  <2>10. /\ health' \in [Endpoints -> [ready : BOOLEAN, contrary : Nat]]
         /\ observed' \in [Endpoints -> [ok : BOOLEAN, times : Nat]]
    BY <1>1, <2>8, <2>9 DEF Types
  <2>11. ASSUME NEW x \in Endpoints PROVE Follows(health'[x], observed'[x])
    <3>1. \/ x = e /\ health'[x] = h1 /\ observed'[x] = o1
          \/ health'[x] = health[x] /\ observed'[x] = observed[x]
      BY <1>1, <2>9 DEF Types
    <3> QED
      BY <1>1, <2>8, <3>1 DEF HealthInv
  <2>12. HealthInv'
    BY <2>11 DEF HealthInv, Follows, HealthThreshold
  <2> QED
    BY <1>2, <2>10, <2>12, AsideInv
<1>4. CASE e \notin Registered
  <2>1. health' = health /\ observed' = observed
    BY <1>4 DEF CheckBackend
  <2>2. HealthInv'
    BY <1>1, <2>1 DEF HealthInv, Follows, HealthThreshold
  <2> QED
    BY <1>1, <1>2, <2>1, <2>2, AsideInv DEF Types
<1> QED
  BY <1>3, <1>4

\* Endpoints that passed the preflight check are published.
LEMMA PublishBackendsInv ==
  ASSUME IInv, NEW update \in Results, PublishBackends(update) PROVE IInv'
<1> DEFINE view == Preflight(update)
<1>0. PICK ends, plan : update = [endpoints |-> ends, plan |-> plan]
  BY ResultsAssumption
<1>1. view = [endpoints |-> update.endpoints \cap up, plan |-> update.plan]
  BY <1>0 DEF Preflight
<1>2. view \in Views
  BY <1>1, ResultsAssumption DEF Views
<1>3. selection' = None \/ selection' = view
  BY DEF PublishBackends, Publish
<1>4. req' = req /\ Watch /\ ReleaseUnused
  BY DEF PublishBackends, Publish
<1> HIDE DEF view
<1> QED
  BY <1>2, <1>3, <1>4, AsideInv, ReleaseInv DEF IInv

LEMMA ExpireSnapshotInv == ASSUME IInv, ExpireSnapshot PROVE IInv'
<1>1. req' = req /\ Watch /\ ReleaseUnused /\ selection' = None
  BY DEF ExpireSnapshot, Publish
<1> QED
  BY <1>1, AsideInv, ReleaseInv DEF IInv

\* Steps that touch neither the registry nor a snapshot nor a selection.
LEMMA ElsewhereInv ==
  ASSUME IInv, UNCHANGED <<health, selection, req, observed, seen>> PROVE IInv'
<1>1. Types' /\ HealthInv'
  BY DEF IInv, Types, HealthInv, Follows, HealthThreshold
<1>2. SelectionInv'
  BY DEF IInv, SelectionInv
<1> QED
  BY <1>1, <1>2 DEF IInv

LEMMA InitInv == Init => IInv
<1> SUFFICES ASSUME Init PROVE IInv
  OBVIOUS
<1>1. Types
  BY DEF Init, Types, Fresh, Unobserved, Unseen
<1>2. HealthInv
  BY DEF Init, HealthInv, Follows, Fresh, Unobserved
<1>3. ASSUME NEW h PROVE Sound(Idle, h)
  BY DEF Sound, Record, Idle
<1>4. SelectionInv
  BY <1>3 DEF Init, SelectionInv
<1> QED
  BY <1>1, <1>2, <1>4 DEF IInv

LEMMA NextInv == IInv /\ [Next]_vars => IInv'
<1> SUFFICES ASSUME IInv, [Next]_vars PROVE IInv'
  OBVIOUS
<1>1. ASSUME NEW e \in Endpoints, Change(e) PROVE IInv'
  BY <1>1, ElsewhereInv DEF Change
<1>2. ASSUME NEW e \in Endpoints, CheckBackend(e) PROVE IInv'
  BY <1>2, CheckBackendInv
<1>3. ASSUME NEW update \in Results, PublishBackends(update) PROVE IInv'
  BY <1>3, PublishBackendsInv
<1>4. CASE ExpireSnapshot
  BY <1>4, ExpireSnapshotInv
<1>5. CASE RunHealthCheck
  BY <1>5, ElsewhereInv DEF RunHealthCheck
<1>6. ASSUME NEW r \in Requests, NEW accept \in Filters, Begin(r, accept) PROVE IInv'
  BY <1>6, BeginInv
<1>7. ASSUME NEW r \in Requests, Accept(r) PROVE IInv'
  BY <1>7, AcceptInv
<1>8. ASSUME NEW r \in Requests, SelectEndpoint(r) PROVE IInv'
  BY <1>8, SelectEndpointInv
<1>9. ASSUME NEW r \in Requests, Finish(r) PROVE IInv'
  BY <1>9, FinishInv
<1>10. CASE UNCHANGED vars
  BY <1>10, ElsewhereInv DEF vars
<1> QED
  BY <1>1, <1>2, <1>3, <1>4, <1>5, <1>6, <1>7, <1>8, <1>9, <1>10 DEF Next

-----------------------------------------------------------------------------
(* Theorems *)

\* The registry follows the checks and every selection is sound, in every state.
THEOREM Invariance == Spec => []IInv
BY InitInv, NextInv, PTL DEF Spec

\* The targets are endpoints.
LEMMA RegisteredEndpoints == IInv => Registered \subseteq Endpoints
<1> SUFFICES ASSUME IInv, NEW e \in Registered PROVE e \in Endpoints
  OBVIOUS
<1>1. CASE selection # None /\ e \in selection.endpoints
  BY <1>1 DEF IInv, Types, Views
<1>2. ASSUME NEW r \in Requests, req[r].pc \in {"accept", "endpoint"},
             e \in req[r].view.endpoints
      PROVE  e \in Endpoints
  BY <1>2 DEF IInv, SelectionInv, Sound, Reading, Views
<1> QED
  BY <1>1, <1>2 DEF Registered, Held

\* As many checks in a row as the threshold says decide the readiness, whatever is
\* published or expires between them.
THEOREM HealthTheorem == Spec => []HealthFollowsChecks
<1>1. IInv => HealthFollowsChecks
  <2> SUFFICES ASSUME IInv, NEW e \in Registered,
                      observed[e].times = HealthThreshold(observed[e].ok)
               PROVE  health[e].ready = observed[e].ok
    BY DEF HealthFollowsChecks
  <2>1. e \in Endpoints
    BY RegisteredEndpoints
  <2>2. Follows(health[e], observed[e]) /\ observed[e] \in [ok : BOOLEAN, times : Nat]
    BY <2>1 DEF IInv, HealthInv, Types
  <2> QED
    BY <2>2 DEF Follows
<1> QED
  BY <1>1, Invariance, PTL

\* The order of the pools is the order of their ranks.
LEMMA RankOrder ==
  ASSUME NEW view \in Views, NEW s \in Services(view), NEW t \in Services(view)
  PROVE  /\ Precedes(view.plan[s], view.plan[t]) <=> Rank(view, s) < Rank(view, t)
         /\ SamePool(view.plan[s], view.plan[t]) <=> Rank(view, s) = Rank(view, t)
<1>1. /\ view.plan[s] \in [priority : Nat, capacity : Nat]
      /\ view.plan[t] \in [priority : Nat, capacity : Nat]
  BY DEF Views, Plans, Services
<1>2. PICK a \in [priority : Nat, capacity : Nat], b \in [priority : Nat, capacity : Nat] :
        a = view.plan[s] /\ b = view.plan[t]
  BY <1>1
<1>3. PICK x \in {0, 1}, y \in {0, 1} :
        /\ x = IF a.capacity > 0 THEN 0 ELSE 1
        /\ y = IF b.capacity > 0 THEN 0 ELSE 1
  OBVIOUS
<1>4. Rank(view, s) = 2 * a.priority + x /\ Rank(view, t) = 2 * b.priority + y
  BY <1>2, <1>3 DEF Rank
<1>5. Precedes(a, b) <=> 2 * a.priority + x < 2 * b.priority + y
  BY <1>3 DEF Precedes
<1>6. Precedes(b, a) <=> 2 * b.priority + y < 2 * a.priority + x
  BY <1>3 DEF Precedes
<1>7. Precedes(a, b) \/ Precedes(b, a) \/ 2 * a.priority + x = 2 * b.priority + y
  BY <1>3, <1>5, <1>6
<1>8. 2 * a.priority + x \in Nat /\ 2 * b.priority + y \in Nat
  BY <1>3
<1> QED
  BY <1>2, <1>4, <1>5, <1>6, <1>7, <1>8 DEF SamePool

\* A selection has ended with an endpoint that was ready while it ran, after a service
\* without a ready endpoint in every pool it passed over, and, if no readiness changed
\* meanwhile, after nothing but such services and services that were never offered
\* because others of their pool were drawn again.
THEOREM SelectionTheorem == Spec => []SelectionJustified
<1>1. IInv => SelectionJustified
  <2> SUFFICES ASSUME IInv, NEW r \in Requests, req[r].pc = "done"
      PROVE LET q == req[r]
                usable(s) == {e \in q.view.endpoints \cap q.accept : Service[e] = s}
                unready(s) == usable(s) \subseteq seen[r].unready
                steady == q.view.endpoints \cap seen[r].ready \cap seen[r].unready = {}
            IN /\ q.result # None =>
                    q.result \in usable(Service[q.result]) \cap seen[r].ready
               /\ \A s \in PassedOver(q) :
                    /\ \E t \in PassedOver(q) :
                         SamePool(q.view.plan[s], q.view.plan[t]) /\ unready(t)
                    /\ steady => \/ unready(s)
                                 \/ s \in q.missed /\ Rank(q.view, s) \in q.repeated
    BY DEF SelectionJustified
  <2> DEFINE q == req[r]
             h == seen[r]
             usable(s) == {e \in q.view.endpoints \cap q.accept : Service[e] = s}
  <2>1. Ended(q, h)
    BY DEF IInv, SelectionInv, Sound
  <2>2. \A s : usable(s) = Usable(q, s)
    BY DEF Usable, EndpointsOf
  <2>3. q.result # None => q.result \in usable(Service[q.result]) \cap h.ready
    BY <2>1 DEF Ended, EndpointsOf
  <2>4. ASSUME NEW s \in PassedOver(q)
        PROVE  /\ \E t \in PassedOver(q) :
                    SamePool(q.view.plan[s], q.view.plan[t]) /\ Unready(q, h, t)
               /\ Steady(q, h) => \/ Unready(q, h, s)
                                  \/ s \in q.missed /\ Rank(q.view, s) \in q.repeated
    <3>0. s \in Services(q.view)
      BY DEF PassedOver
    <3>1. q.view \in Views
      BY <2>1, <3>0 DEF Ended, Services
    <3>2. q.result # None => Service[q.result] \in Services(q.view)
      BY <2>1 DEF Ended, EndpointsOf, Services
    <3>3. q.result = None \/ Rank(q.view, s) < Rank(q.view, Service[q.result])
      BY <3>0, <3>1, <3>2, RankOrder DEF PassedOver
    <3>4. Left(q, h, Rank(q.view, s))
      BY <2>1, <3>0, <3>3 DEF Ended
    <3>5. PICK t \in Pool(q.view, Rank(q.view, s)) : Unready(q, h, t)
      BY <3>4 DEF Left
    <3>6. t \in Services(q.view) /\ Rank(q.view, t) = Rank(q.view, s)
      BY DEF Pool
    <3>7. SamePool(q.view.plan[s], q.view.plan[t])
      BY <3>0, <3>1, <3>6, RankOrder
    <3>8. t \in PassedOver(q)
      <4>1. CASE q.result = None
        BY <3>6, <4>1 DEF PassedOver
      <4>2. CASE q.result # None
        <5>1. Rank(q.view, t) < Rank(q.view, Service[q.result])
          BY <3>3, <3>6, <4>2
        <5>2. Precedes(q.view.plan[t], q.view.plan[Service[q.result]])
          BY <3>1, <3>2, <3>6, <4>2, <5>1, RankOrder
        <5> QED
          BY <3>6, <4>2, <5>2 DEF PassedOver
      <4> QED
        BY <4>1, <4>2
    <3>9. Steady(q, h) => \/ Unready(q, h, s)
                          \/ s \in q.missed /\ Rank(q.view, s) \in q.repeated
      BY <3>0, <3>4 DEF Left, Pool
    <3> QED
      BY <3>5, <3>7, <3>8, <3>9
  <2> HIDE DEF q, h
  <2>5. \A s : Unready(q, h, s) <=> usable(s) \subseteq h.unready
    BY <2>2 DEF Unready
  <2>6. Steady(q, h) <=> q.view.endpoints \cap h.ready \cap h.unready = {}
    BY DEF Steady
  <2> HIDE DEF usable
  <2>7. /\ q.result # None => q.result \in usable(Service[q.result]) \cap h.ready
        /\ \A s \in PassedOver(q) :
             /\ \E t \in PassedOver(q) :
                  SamePool(q.view.plan[s], q.view.plan[t]) /\ usable(t) \subseteq h.unready
             /\ q.view.endpoints \cap h.ready \cap h.unready = {} =>
                  \/ usable(s) \subseteq h.unready
                  \/ s \in q.missed /\ Rank(q.view, s) \in q.repeated
    BY <2>3, <2>4, <2>5, <2>6
  <2> QED
    BY <2>7 DEF q, h, usable
<1> QED
  BY <1>1, Invariance, PTL

-----------------------------------------------------------------------------
(* Folds over sequences.  FoldLeft is defined by recursion over the sets of   *)
(* indices that are left.  That the recursion has a solution, and what its    *)
(* value at 1 .. k is, is proved by induction in the form of a smallest       *)
(* counterexample.                                                            *)

\* A set of numbers that is bounded has a greatest one.
LEMMA MaxIs ==
  ASSUME NEW n \in Nat, NEW s \in SUBSET (0 .. n), s # {}
  PROVE  Max(s) \in s /\ \A y \in s : y <= Max(s)
<1> DEFINE bounds == {m \in Nat : \A y \in s : y <= m}
<1>1. bounds \in SUBSET Nat /\ n \in bounds
  OBVIOUS
<1>2. PICK m \in bounds : \A k \in bounds : m <= k
  BY <1>1, LeastNat
<1>3. m \in s
  <2> SUFFICES ASSUME m \notin s PROVE FALSE
    OBVIOUS
  <2>1. m - 1 \in bounds
    <3>1. PICK y \in s : TRUE
      OBVIOUS
    <3>2. y \in Nat /\ y <= m /\ y # m
      BY <1>2, <3>1
    <3> QED BY <1>2, <3>2
  <2> QED BY <1>2, <2>1
<1>4. \E x \in s : \A y \in s : x >= y
  BY <1>2, <1>3
<1>5. Max(s) \in s /\ \A y \in s : Max(s) >= y
  BY <1>4 DEF Max
<1> QED BY <1>5

\* g is the recursive function behind a fold of n elements: step gives what comes
\* next of the value so far and the index of an element.
IsFold(g, n, base, step) ==
  g = [s \in SUBSET (1 .. n) |-> IF s = {} THEN base ELSE step[<<g[s \ {Max(s)}], Max(s)>>]]

\* The recursion of a fold has a solution, built up by the greatest index of the sets.
LEMMA FoldExists ==
  ASSUME NEW n \in Nat, NEW D, NEW base \in D, NEW step \in [D \X (1 .. n) -> D]
  PROVE  \E g \in [SUBSET (1 .. n) -> D] : IsFold(g, n, base, step)
<1> DEFINE Upto(m, g) ==
             /\ g \in [SUBSET (1 .. m) -> D]
             /\ g = [s \in SUBSET (1 .. m) |->
                       IF s = {} THEN base ELSE step[<<g[s \ {Max(s)}], Max(s)>>]]
           bad == {m \in 0 .. n : ~ \E g : Upto(m, g)}
<1>1. bad = {}
  <2> SUFFICES ASSUME bad # {} PROVE FALSE
    OBVIOUS
  <2>1. PICK m \in bad : \A k \in bad : m <= k
    <3>1. bad \in SUBSET Nat
      OBVIOUS
    <3> HIDE DEF bad
    <3> QED BY <3>1, LeastNat
  <2>2. m \in 0 .. n
    BY <2>1
  <2>3. CASE m = 0
    <3> DEFINE g == [s \in SUBSET (1 .. m) |-> base]
    <3>1. \A s \in SUBSET (1 .. m) : s = {}
      BY <2>3
    <3>2. Upto(m, g)
      BY <3>1
    <3> QED BY <2>1, <3>2
  <2>4. CASE m # 0
    <3>1. m - 1 \in 0 .. n /\ m - 1 \notin bad
      <4>1. bad \subseteq Nat
        OBVIOUS
      <4> HIDE DEF bad
      <4> QED BY <2>1, <2>2, <2>4, <4>1
    <3>2. PICK f : Upto(m - 1, f)
      BY <3>1
    <3> DEFINE g == [s \in SUBSET (1 .. m) |->
                       IF s = {} THEN base ELSE step[<<f[s \ {Max(s)}], Max(s)>>]]
    <3>3. ASSUME NEW s \in SUBSET (1 .. m), s # {}
          PROVE  /\ Max(s) \in 1 .. n
                 /\ s \ {Max(s)} \in SUBSET (1 .. m - 1)
                 /\ s \ {Max(s)} \in SUBSET (1 .. m)
      <4> HIDE DEF bad, Upto
      <4>0. m \in Nat /\ s \in SUBSET (0 .. m)
        BY <2>2
      <4>1. Max(s) \in s /\ \A y \in s : y <= Max(s)
        BY <3>3, <4>0, MaxIs
      <4>2. \A y \in s : y \in 1 .. m /\ y \in 1 .. n
        BY <2>2
      <4>3. ASSUME NEW y \in s, y # Max(s) PROVE y \in 1 .. m - 1
        <5>1. /\ y \in 1 .. m /\ y <= Max(s) /\ y # Max(s)
              /\ Max(s) \in 1 .. m /\ m \in Nat
          BY <4>0, <4>1, <4>2, <4>3
        <5> QED BY <5>1
      <4> QED BY <4>1, <4>2, <4>3
    <3>4. g \in [SUBSET (1 .. m) -> D]
      <4>1. ASSUME NEW s \in SUBSET (1 .. m), s # {}
            PROVE  step[<<f[s \ {Max(s)}], Max(s)>>] \in D
        <5>1. f[s \ {Max(s)}] \in D /\ Max(s) \in 1 .. n
          BY <3>2, <3>3, <4>1
        <5> QED BY <5>1
      <4> QED BY <4>1
    <3>5. ASSUME NEW s \in SUBSET (1 .. m - 1)
          PROVE  g[s] = f[s]
      <4>1. s \in SUBSET (1 .. m)
        BY <2>2, <2>4
      <4>2. f[s] = IF s = {} THEN base ELSE step[<<f[s \ {Max(s)}], Max(s)>>]
        BY <3>2
      <4> QED BY <4>1, <4>2
    <3>6. g = [s \in SUBSET (1 .. m) |->
                 IF s = {} THEN base ELSE step[<<g[s \ {Max(s)}], Max(s)>>]]
      BY <3>3, <3>5
    <3>7. Upto(m, g)
      BY <3>4, <3>6, Zenon
    <3> QED BY <2>1, <3>7
  <2> QED BY <2>3, <2>4
<1>2. n \in 0 .. n /\ n \notin bad
  <2> HIDE DEF bad
  <2> QED BY <1>1
<1>3. PICK g : Upto(n, g)
  BY <1>2
<1> QED BY <1>3 DEF IsFold

\* The values of a solution at the initial parts of the sequence.
LEMMA InitialPart ==
  ASSUME NEW n \in Nat, NEW k \in 1 .. n
  PROVE  /\ (1 .. k) \in SUBSET (1 .. n) /\ (1 .. k) # {}
         /\ Max(1 .. k) = k /\ (1 .. k) \ {Max(1 .. k)} = 1 .. (k - 1)
<1>1. (1 .. k) \in SUBSET (1 .. n) /\ (1 .. k) # {} /\ k \in 1 .. k
  OBVIOUS
<1>2. Max(1 .. k) \in 1 .. k /\ \A y \in 1 .. k : y <= Max(1 .. k)
  <2>1. (1 .. k) \in SUBSET (0 .. n)
    OBVIOUS
  <2> QED BY <1>1, <2>1, MaxIs
<1>3. Max(1 .. k) = k
  BY <1>1, <1>2
<1>4. (1 .. k) \ {k} = 1 .. (k - 1)
  OBVIOUS
<1> QED BY <1>1, <1>3, <1>4

-----------------------------------------------------------------------------
(* Ranks: how many elements of a finite set precede one in a linear order.    *)

\* The pairs R order S strictly and linearly.
Orders(R, S) ==
  /\ \A x \in S : <<x, x>> \notin R
  /\ \A x, y, z \in S : <<x, y>> \in R /\ <<y, z>> \in R => <<x, z>> \in R
  /\ \A x, y \in S : x # y => <<x, y>> \in R \/ <<y, x>> \in R

RankIn(R, S, x) == Cardinality({y \in S : <<y, x>> \in R})

\* The rank grows along the order and stays below the number of elements.
LEMMA RankGrows ==
  ASSUME NEW S, IsFiniteSet(S), NEW R, Orders(R, S), NEW x \in S
  PROVE  /\ RankIn(R, S, x) \in Nat /\ RankIn(R, S, x) < Cardinality(S)
         /\ \A y \in S : <<x, y>> \in R => RankIn(R, S, x) < RankIn(R, S, y)
<1> DEFINE below(y) == {z \in S : <<z, y>> \in R}
<1>1. \A y \in S : /\ IsFiniteSet(below(y)) /\ Cardinality(below(y)) \in Nat
                   /\ RankIn(R, S, y) = Cardinality(below(y))
  <2>1. \A y \in S : below(y) \in SUBSET S
    OBVIOUS
  <2>2. \A y \in S : IsFiniteSet(below(y))
    BY <2>1, FS_Subset
  <2> QED BY <2>2, FS_CardinalityType DEF RankIn
<1>2. ASSUME NEW T \in SUBSET S, below(x) \subseteq T, x \in T
      PROVE  Cardinality(below(x)) < Cardinality(T)
  <2>1. IsFiniteSet(T)
    BY FS_Subset
  <2>2. x \notin below(x)
    BY DEF Orders
  <2>3. below(x) \in SUBSET T /\ T # below(x)
    BY <1>2, <2>2
  <2>4. Cardinality(below(x)) <= Cardinality(T) /\ Cardinality(below(x)) # Cardinality(T)
    BY <2>1, <2>3, FS_Subset
  <2>5. Cardinality(below(x)) \in Nat /\ Cardinality(T) \in Nat
    BY <1>1, <2>1, FS_CardinalityType
  <2> HIDE DEF below
  <2> QED BY <2>4, <2>5
<1>3. Cardinality(below(x)) < Cardinality(S)
  BY <1>2
<1>4. ASSUME NEW y \in S, <<x, y>> \in R PROVE Cardinality(below(x)) < Cardinality(below(y))
  <2>1. below(x) \subseteq below(y) /\ x \in below(y) /\ below(y) \in SUBSET S
    BY <1>4 DEF Orders
  <2> HIDE DEF below
  <2> QED BY <1>2, <2>1
<1> HIDE DEF below
<1> QED BY <1>1, <1>3, <1>4

\* Every number below the number of elements is the rank of exactly one of them.
LEMMA RankBijection ==
  ASSUME NEW S, IsFiniteSet(S), NEW R, Orders(R, S)
  PROVE  [x \in S |-> RankIn(R, S, x)] \in Bijection(S, 0 .. Cardinality(S) - 1)
<1> DEFINE n == Cardinality(S)
           f == [x \in S |-> RankIn(R, S, x)]
<1>1. n \in Nat
  BY FS_CardinalityType
<1>2. f \in [S -> 0 .. n - 1]
  <2>1. \A x \in S : RankIn(R, S, x) \in Nat /\ RankIn(R, S, x) < n
    BY RankGrows
  <2> HIDE DEF n
  <2> QED BY <1>1, <2>1
<1>3. ASSUME NEW x \in S, NEW y \in S, x # y PROVE f[x] # f[y]
  <2>1. RankIn(R, S, x) \in Nat /\ RankIn(R, S, y) \in Nat
    BY RankGrows
  <2>2. <<x, y>> \in R \/ <<y, x>> \in R
    BY <1>3 DEF Orders
  <2>3. RankIn(R, S, x) < RankIn(R, S, y) \/ RankIn(R, S, y) < RankIn(R, S, x)
    BY <2>2, RankGrows
  <2> QED BY <2>1, <2>3
<1>4. f \in Injection(S, 0 .. n - 1)
  BY <1>2, <1>3 DEF Injection, IsInjective
<1>5. IsFiniteSet(0 .. n - 1) /\ Cardinality(0 .. n - 1) = n
  <2> HIDE DEF n
  <2>1. n - 1 \in Int /\ 0 \in Int
    BY <1>1
  <2>2. IsFiniteSet(0 .. n - 1) /\ Cardinality(0 .. n - 1) = IF 0 > n - 1 THEN 0 ELSE (n - 1) - 0 + 1
    BY <2>1, FS_Interval
  <2> QED BY <1>1, <2>2
<1>6. f \in Surjection(S, 0 .. n - 1)
  <2>1. PICK T : T = 0 .. n - 1
    OBVIOUS
  <2>2. Cardinality(S) = Cardinality(T) <=> f \in Surjection(S, T)
    <3> HIDE DEF f, n
    <3>1. f \in Injection(S, T) /\ IsFiniteSet(T)
      BY <1>4, <1>5, <2>1
    <3> QED BY <3>1, FS_Injection
  <2> QED BY <1>5, <2>1, <2>2
<1> QED BY <1>4, <1>6 DEF Bijection

-----------------------------------------------------------------------------
(* Sums of sequences *)

\* h are the sums of the initial parts of s.
Sums(s, h) ==
  /\ h \in [0 .. Len(s) -> Int] /\ h[0] = 0
  /\ \A k \in 1 .. Len(s) : h[k] = h[k - 1] + s[k]

\* The total of a sequence is the last of its sums.
LEMMA TotalSums ==
  ASSUME NEW s \in Seq(Int)
  PROVE  \E h : Sums(s, h) /\ Total(s) = h[Len(s)]
<1> DEFINE n == Len(s)
           Solves(f) ==
             f = [t \in SUBSET (1 .. n) |->
                    IF t = {} THEN 0 ELSE f[t \ {Max(t)}] + s[Max(t)]]
           step == [p \in Int \X (1 .. n) |-> p[1] + s[p[2]]]
<1>1. n \in Nat /\ DOMAIN s = 1 .. n
  OBVIOUS
<1>2. Total(s) = (CHOOSE f : Solves(f))[1 .. n]
  BY <1>1 DEF Total, FoldLeft, MapThenFoldSet
<1>3. step \in [Int \X (1 .. n) -> Int]
  OBVIOUS
<1>4. PICK g \in [SUBSET (1 .. n) -> Int] : IsFold(g, n, 0, step)
  <2> HIDE DEF n, step
  <2>1. 0 \in Int
    OBVIOUS
  <2> QED BY <1>1, <1>3, <2>1, FoldExists, Zenon
<1>5. ASSUME NEW t \in SUBSET (1 .. n), t # {}
      PROVE  Max(t) \in 1 .. n /\ t \ {Max(t)} \in SUBSET (1 .. n)
  <2>1. t \in SUBSET (0 .. n)
    OBVIOUS
  <2> HIDE DEF n
  <2> QED BY <1>1, <1>5, <2>1, MaxIs
<1>6. \A t \in SUBSET (1 .. n) :
        t # {} => step[<<g[t \ {Max(t)}], Max(t)>>] = g[t \ {Max(t)}] + s[Max(t)]
  <2> HIDE DEF n
  <2> QED BY <1>5
<1>7. Solves(g)
  <2> HIDE DEF n, step
  <2>1. g = [t \in SUBSET (1 .. n) |->
                    IF t = {} THEN 0 ELSE g[t \ {Max(t)}] + s[Max(t)]]
    BY <1>4, <1>6 DEF IsFold
  <2> QED BY <2>1, Zenon
<1>8. PICK f : Solves(f) /\ Total(s) = f[1 .. n]
  <2>1. Solves(CHOOSE f : Solves(f))
    <3> HIDE DEF Solves
    <3> QED BY <1>7, Zenon
  <2> HIDE DEF Solves
  <2> QED BY <1>2, <2>1, Zenon
<1> DEFINE h == [k \in 0 .. n |-> f[1 .. k]]
<1> HIDE DEF n
<1>9. h[0] = 0 /\ h[n] = f[1 .. n]
  <2>1. (1 .. 0) = {} /\ {} \in SUBSET (1 .. n)
    OBVIOUS
  <2>2. f[{}] = 0
    BY <1>8, <2>1
  <2>3. 0 \in 0 .. n /\ n \in 0 .. n
    BY <1>1
  <2>4. h[0] = f[1 .. 0] /\ h[n] = f[1 .. n]
    BY <2>3
  <2> QED BY <2>1, <2>2, <2>4
<1>10. ASSUME NEW k \in 1 .. n PROVE h[k] = h[k - 1] + s[k]
  <2>1. /\ (1 .. k) \in SUBSET (1 .. n) /\ (1 .. k) # {}
        /\ Max(1 .. k) = k /\ (1 .. k) \ {Max(1 .. k)} = 1 .. (k - 1)
    BY <1>1, InitialPart
  <2>2. f[1 .. k] = f[(1 .. k) \ {Max(1 .. k)}] + s[Max(1 .. k)]
    BY <1>8, <2>1
  <2>3. k \in 0 .. n /\ k - 1 \in 0 .. n
    BY <1>1
  <2> QED BY <2>1, <2>2, <2>3
<1> HIDE DEF h
<1>11. \A i \in 1 .. n : s[i] \in Int
  BY <1>1
<1> DEFINE bad == {k \in 0 .. n : h[k] \notin Int}
<1>12. bad = {}
  <2> SUFFICES ASSUME bad # {} PROVE FALSE
    OBVIOUS
  <2>1. PICK k \in bad : \A j \in bad : k <= j
    <3>1. bad \in SUBSET Nat
      OBVIOUS
    <3> HIDE DEF bad
    <3> QED BY <3>1, LeastNat
  <2>2. k # 0
    BY <1>9, <2>1
  <2>3. k \in 1 .. n /\ k - 1 \in 0 .. n
    BY <1>1, <2>1, <2>2
  <2>4. h[k - 1] \in Int /\ h[k] \notin Int
    BY <2>1, <2>3
  <2>5. h[k] = h[k - 1] + s[k]
    BY <1>10, <2>3
  <2>6. s[k] \in Int
    BY <1>11, <2>3
  <2> HIDE DEF bad
  <2> QED BY <2>4, <2>5, <2>6
<1>13. h \in [0 .. n -> Int]
  BY <1>12 DEF h
<1> QED BY <1>8, <1>9, <1>10, <1>13 DEF Sums, n

\* Sums of sequences that agree on a part agree on it.
LEMMA SumsAgree ==
  ASSUME NEW s \in Seq(Int), NEW h, Sums(s, h), NEW t \in Seq(Int), NEW g, Sums(t, g),
         Len(t) <= Len(s), \A i \in 1 .. Len(t) : t[i] = s[i]
  PROVE  \A k \in 0 .. Len(t) : g[k] = h[k]
<1> DEFINE bad == {k \in 0 .. Len(t) : g[k] # h[k]}
<1> SUFFICES ASSUME bad # {} PROVE FALSE
  OBVIOUS
<1>1. PICK k \in bad : \A j \in bad : k <= j
  <2>1. bad \in SUBSET Nat
    OBVIOUS
  <2> HIDE DEF bad
  <2> QED BY <2>1, LeastNat
<1>2. k # 0
  BY <1>1 DEF Sums
<1>3. k \in 1 .. Len(t) /\ k - 1 \in 0 .. Len(t) /\ k - 1 \notin bad
  BY <1>1, <1>2
<1>4. g[k - 1] = h[k - 1]
  BY <1>3
<1>5. g[k] = g[k - 1] + t[k] /\ h[k] = h[k - 1] + s[k]
  BY <1>3 DEF Sums
<1> QED BY <1>1, <1>3, <1>4, <1>5

\* The sum of a sequence and of each of its initial parts.
LEMMA TotalIs ==
  ASSUME NEW s \in Seq(Int), NEW h, Sums(s, h)
  PROVE  /\ Total(s) = h[Len(s)]
         /\ \A k \in 0 .. Len(s) : Total(SubSeq(s, 1, k)) = h[k]
<1>1. ASSUME NEW t \in Seq(Int), Len(t) <= Len(s), \A i \in 1 .. Len(t) : t[i] = s[i]
      PROVE Total(t) = h[Len(t)]
  <2>1. PICK g : Sums(t, g) /\ Total(t) = g[Len(t)]
    BY TotalSums
  <2>2. \A k \in 0 .. Len(t) : g[k] = h[k]
    BY <1>1, <2>1, SumsAgree, SMTT(20)
  <2>3. Len(t) \in 0 .. Len(t)
    OBVIOUS
  <2> QED BY <2>1, <2>2, <2>3
<1>2. Total(s) = h[Len(s)]
  BY <1>1
<1>3. ASSUME NEW k \in 0 .. Len(s) PROVE Total(SubSeq(s, 1, k)) = h[k]
  <2>1. /\ SubSeq(s, 1, k) \in Seq(Int) /\ Len(SubSeq(s, 1, k)) = k
        /\ \A i \in 1 .. k : SubSeq(s, 1, k)[i] = s[i]
    OBVIOUS
  <2>2. PICK t : t = SubSeq(s, 1, k)
    OBVIOUS
  <2>3. t \in Seq(Int) /\ Len(t) = k /\ \A i \in 1 .. Len(t) : t[i] = s[i]
    BY <2>1, <2>2
  <2>4. Len(t) <= Len(s)
    BY <2>3
  <2>5. Total(t) = h[k]
    BY <1>1, <2>3, <2>4
  <2> QED BY <2>2, <2>5
<1> QED BY <1>2, <1>3

\* Sums of numbers that are not negative grow.
LEMMA SumsGrow ==
  ASSUME NEW s \in Seq(Nat), NEW h, Sums(s, h)
  PROVE  \A j, k \in 0 .. Len(s) : j <= k => 0 <= h[j] /\ h[j] <= h[k]
<1> DEFINE bad == {k \in 0 .. Len(s) : \E j \in 0 .. k : ~(0 <= h[j] /\ h[j] <= h[k])}
<1>1. bad = {}
  <2> SUFFICES ASSUME bad # {} PROVE FALSE
    OBVIOUS
  <2>1. PICK k \in bad : \A j \in bad : k <= j
    <3>1. bad \in SUBSET Nat
      OBVIOUS
    <3> HIDE DEF bad
    <3> QED BY <3>1, LeastNat
  <2>2. PICK j \in 0 .. k : ~(0 <= h[j] /\ h[j] <= h[k])
    BY <2>1
  <2>0. k \in 0 .. Len(s)
    BY <2>1
  <2>3. h[0] = 0 /\ k # 0
    <3>1. h[0] = 0
      BY DEF Sums
    <3>2. k = 0 => j = 0
      BY <2>0, <2>2
    <3> HIDE DEF bad
    <3> QED BY <2>2, <3>1, <3>2
  <2>4. k \in 1 .. Len(s) /\ k - 1 \in 0 .. Len(s) /\ k - 1 \notin bad
    <3> HIDE DEF bad
    <3>1. k \in 1 .. Len(s) /\ k - 1 \in 0 .. Len(s) /\ ~(k <= k - 1)
      BY <2>0, <2>3
    <3> QED BY <2>1, <3>1
  <2>5. /\ h[k] = h[k - 1] + s[k] /\ s[k] \in Nat /\ h[k - 1] \in Int /\ h[k] \in Int
    <3>1. k \in 0 .. Len(s) /\ h \in [0 .. Len(s) -> Int] /\ h[k] = h[k - 1] + s[k]
      BY <2>1, <2>4 DEF Sums
    <3>2. s[k] \in Nat
      BY <2>4
    <3> HIDE DEF bad
    <3> QED BY <2>4, <3>1, <3>2
  <2>6. \A i \in 0 .. k - 1 : 0 <= h[i] /\ h[i] <= h[k - 1] /\ h[i] \in Int
    <3>1. \A i \in 0 .. k - 1 : 0 <= h[i] /\ h[i] <= h[k - 1]
      BY <2>4
    <3>2. \A i \in 0 .. k - 1 : i \in 0 .. Len(s)
      BY <2>4
    <3> HIDE DEF bad
    <3> QED BY <3>1, <3>2 DEF Sums
  <2>7. 0 <= h[k - 1]
    BY <2>4, <2>6
  <2>8. CASE j = k
    <3> HIDE DEF bad
    <3> QED BY <2>2, <2>5, <2>7, <2>8
  <2>9. CASE j # k
    <3>1. j \in 0 .. k - 1
      BY <2>2, <2>4, <2>9
    <3> HIDE DEF bad
    <3> QED BY <2>2, <2>5, <2>6, <3>1
  <2> QED BY <2>8, <2>9
<1> QED BY <1>1

\* A round of the counter has as many slots for a backend as its weight says.
LEMMA SlotsExact ==
  ASSUME NEW s \in Seq(Nat), NEW i \in 1 .. Len(s)
  PROVE  Cardinality({slot \in 0 .. Total(s) - 1 : SlotBackend(s, slot) = i}) = s[i]
<1> DEFINE n == Len(s)
<1>1. s \in Seq(Int) /\ n \in Nat /\ DOMAIN s = 1 .. n
  OBVIOUS
<1>2. PICK h : Sums(s, h)
  BY <1>1, TotalSums
<1>3. Total(s) = h[n] /\ \A k \in 0 .. n : Total(SubSeq(s, 1, k)) = h[k]
  BY <1>1, <1>2, TotalIs
<1>4. \A j, k \in 0 .. n : j <= k => 0 <= h[j] /\ h[j] <= h[k]
  BY <1>2, SumsGrow
<1>5. /\ h \in [0 .. n -> Int] /\ h[0] = 0
      /\ \A k \in 1 .. n : h[k] = h[k - 1] + s[k] /\ s[k] \in Nat
  BY <1>1, <1>2 DEF Sums
<1> HIDE DEF n
<1>a. \A k \in 0 .. n : h[k] \in Int
  BY <1>5
<1>b. /\ n \in 0 .. n
      /\ \A k \in 1 .. n : k \in 0 .. n /\ k - 1 \in 0 .. n
  BY <1>1
<1>6. ASSUME NEW slot \in 0 .. h[n] - 1
      PROVE  SlotBackend(s, slot) = i <=> slot \in h[i - 1] .. h[i] - 1
  <2> DEFINE Falls(k) == slot < h[k] /\ \A j \in 1 .. k - 1 : slot >= h[j]
  <2>1. SlotBackend(s, slot) = CHOOSE k \in 1 .. n : Falls(k)
    <3>1. \A k \in 1 .. n : \A j \in 1 .. k - 1 : j \in 0 .. n /\ k \in 0 .. n
      BY <1>1
    <3>2. \A k \in 1 .. n :
            (/\ slot < Total(SubSeq(s, 1, k))
             /\ \A j \in 1 .. k - 1 : slot >= Total(SubSeq(s, 1, j))) <=> Falls(k)
      BY <1>1, <1>3, <3>1
    <3> QED BY <1>1, <3>2 DEF SlotBackend
  <2>2. PICK k \in 1 .. n : Falls(k)
    <3> DEFINE over == {k \in 0 .. n : slot < h[k]}
    <3>1. over \in SUBSET Nat /\ n \in over
      <4>1. slot < h[n]
        BY <1>a, <1>b
      <4> QED BY <1>1, <1>b, <4>1
    <3>2. PICK k \in over : \A j \in over : k <= j
      BY <3>1, LeastNat
    <3>3. k # 0 /\ k \in 0 .. n
      BY <1>5, <3>2
    <3>4. ASSUME NEW j \in 1 .. k - 1 PROVE slot >= h[j]
      <4>1. j \in 0 .. n /\ ~(k <= j)
        BY <1>1, <3>3
      <4>2. j \notin over
        BY <3>2, <4>1
      <4>3. ~(slot < h[j]) /\ h[j] \in Int /\ slot \in Int
        BY <1>a, <1>b, <4>1, <4>2
      <4> HIDE DEF over
      <4> QED BY <4>3
    <3>5. Falls(k) /\ k \in 1 .. n
      BY <1>1, <3>2, <3>3, <3>4
    <3> QED BY <3>5
  <2>3. \A j \in 1 .. n : Falls(j) <=> slot \in h[j - 1] .. h[j] - 1
    <3> SUFFICES ASSUME NEW j \in 1 .. n PROVE Falls(j) <=> slot \in h[j - 1] .. h[j] - 1
      OBVIOUS
    <3>1. j - 1 \in 0 .. n /\ j \in 0 .. n /\ h[j - 1] \in Int /\ h[j] \in Int /\ slot \in Int
      <4> HIDE DEF Falls
      <4>1. j - 1 \in 0 .. n /\ j \in 0 .. n
        BY <1>b
      <4> QED BY <1>a, <1>b, <4>1
    <3>2. ASSUME Falls(j) PROVE slot \in h[j - 1] .. h[j] - 1
      <4>1. CASE j = 1
        BY <1>5, <3>1, <3>2, <4>1
      <4>2. CASE j # 1
        <5>1. j - 1 \in 1 .. j - 1
          BY <1>1, <4>2
        <5>2. slot >= h[j - 1] /\ slot < h[j]
          BY <3>2, <5>1
        <5> HIDE DEF Falls
        <5> QED BY <3>1, <5>2
      <4> QED BY <4>1, <4>2
    <3>3. ASSUME slot \in h[j - 1] .. h[j] - 1, NEW m \in 1 .. j - 1 PROVE slot >= h[m]
      <4>1. m \in 0 .. n /\ m <= j - 1 /\ h[m] \in Int
        BY <1>1, <1>5
      <4>2. h[m] <= h[j - 1]
        BY <1>4, <3>1, <4>1
      <4> HIDE DEF Falls
      <4> QED BY <3>1, <3>3, <4>1, <4>2
    <3>4. ASSUME slot \in h[j - 1] .. h[j] - 1 PROVE slot < h[j]
      BY <3>1, <3>4
    <3> QED BY <3>2, <3>3, <3>4
  <2>4. ASSUME NEW j \in 1 .. n, NEW m \in 1 .. n, Falls(j), Falls(m) PROVE j = m
    <3>1. ~(j < m) /\ ~(m < j)
      <4>1. slot >= h[j] \/ ~(j < m)
        BY <2>4
      <4>2. slot >= h[m] \/ ~(m < j)
        BY <2>4
      <4>3. h[j] \in Int /\ h[m] \in Int /\ slot < h[j] /\ slot < h[m] /\ slot \in Int
        BY <1>a, <1>b, <2>4
      <4> HIDE DEF Falls
      <4> QED BY <4>1, <4>2, <4>3
    <3> HIDE DEF Falls
    <3> QED BY <3>1
  <2> HIDE DEF Falls
  <2>5. SlotBackend(s, slot) = k
    BY <2>1, <2>2, <2>4
  <2>6. i \in 1 .. n
    BY DEF n
  <2> QED BY <2>2, <2>3, <2>4, <2>5, <2>6
<1>7. i \in 1 .. n /\ i - 1 \in 0 .. n /\ i \in 0 .. n /\ n \in 0 .. n
  BY <1>1 DEF n
<1>8. /\ h[i - 1] \in Int /\ h[i] \in Int /\ h[n] \in Int /\ h[i] = h[i - 1] + s[i] /\ s[i] \in Nat
      /\ 0 <= h[i - 1] /\ h[i] <= h[n]
  <2>1. h[i - 1] \in Int /\ h[i] \in Int /\ h[n] \in Int
    BY <1>a, <1>7
  <2>2. h[i] = h[i - 1] + s[i] /\ s[i] \in Nat
    BY <1>5, <1>7
  <2>3. i <= n /\ i - 1 <= i
    BY <1>1, <1>7
  <2>4. 0 <= h[i - 1] /\ h[i] <= h[n]
    BY <1>4, <1>7, <2>3
  <2> QED BY <2>1, <2>2, <2>4
<1> HIDE DEF n
<1>9. {slot \in 0 .. Total(s) - 1 : SlotBackend(s, slot) = i} = h[i - 1] .. h[i] - 1
  <2>0. PICK a \in Int, b \in Int, c \in Int : a = h[i - 1] /\ b = h[i] /\ c = h[n]
    BY <1>8, Zenon
  <2>1. \A slot \in a .. b - 1 : slot \in 0 .. c - 1
    <3>1. 0 <= a /\ b <= c
      BY <1>8, <2>0, Zenon
    <3> QED BY <3>1
  <2>2. \A slot \in h[i - 1] .. h[i] - 1 : slot \in 0 .. h[n] - 1
    BY <2>0, <2>1, Zenon
  <2> QED BY <1>3, <1>6, <2>2
<1>10. Cardinality(h[i - 1] .. h[i] - 1) = s[i]
  <2>1. PICK a \in Int, b \in Int, m \in Nat : a = h[i - 1] /\ b = h[i] /\ m = s[i]
    BY <1>8, Zenon
  <2>2. b = a + m
    BY <1>8, <2>1, Zenon
  <2>3. Cardinality(a .. b - 1) = IF a > b - 1 THEN 0 ELSE (b - 1) - a + 1
    BY FS_Interval
  <2>4. Cardinality(a .. b - 1) = m
    BY <2>2, <2>3
  <2> QED BY <2>1, <2>4, Zenon
<1> QED BY <1>9, <1>10

\* Adding one for each element of a set adds up to its size.
LEMMA CountSums ==
  ASSUME NEW n \in Nat, NEW A \in SUBSET (1 .. n), NEW f \in Seq(Int), Len(f) = n,
         \A i \in 1 .. n : f[i] = IF i \in A THEN 1 ELSE 0, NEW h, Sums(f, h)
  PROVE  h[n] = Cardinality(A)
<1> DEFINE upto(k) == A \cap (1 .. k)
           bad == {k \in 0 .. n : h[k] # Cardinality(upto(k))}
<1>1. \A k \in 0 .. n : IsFiniteSet(upto(k)) /\ Cardinality(upto(k)) \in Nat
  <2>1. IsFiniteSet(1 .. n)
    BY FS_Interval
  <2>2. \A k \in 0 .. n : upto(k) \in SUBSET (1 .. n)
    OBVIOUS
  <2>3. \A k \in 0 .. n : IsFiniteSet(upto(k))
    BY <2>1, <2>2, FS_Subset
  <2> HIDE DEF upto
  <2> QED BY <2>3, FS_CardinalityType
<1>2. bad = {}
  <2> SUFFICES ASSUME bad # {} PROVE FALSE
    OBVIOUS
  <2>1. PICK k \in bad : \A j \in bad : k <= j
    <3>1. bad \in SUBSET Nat
      OBVIOUS
    <3> HIDE DEF bad
    <3> QED BY <3>1, LeastNat
  <2>2. k \in 0 .. n /\ h[k] # Cardinality(upto(k))
    BY <2>1
  <2>3. CASE k = 0
    <3>1. upto(k) = {}
      BY <2>3
    <3>2. h[k] = 0
      BY <2>3 DEF Sums
    <3> QED BY <2>2, <3>1, <3>2, FS_EmptySet
  <2>4. CASE k # 0
    <3>1. k \in 1 .. n /\ k - 1 \in 0 .. n /\ k - 1 \notin bad
      BY <2>1, <2>2, <2>4
    <3>2. h[k - 1] = Cardinality(upto(k - 1))
      BY <3>1
    <3>3. h[k] = h[k - 1] + f[k]
      BY <3>1 DEF Sums
    <3>4. Cardinality(upto(k)) = IF k \in A THEN Cardinality(upto(k - 1)) + 1 ELSE Cardinality(upto(k - 1))
      <4>1. k \notin upto(k - 1)
        BY <3>1
      <4>2. upto(k) = IF k \in A THEN upto(k - 1) \cup {k} ELSE upto(k - 1)
        BY <3>1
      <4> HIDE DEF upto, bad
      <4> QED BY <1>1, <3>1, <4>1, <4>2, FS_AddElement
    <3>5. Cardinality(upto(k - 1)) \in Nat
      BY <1>1, <3>1
    <3> HIDE DEF upto, bad
    <3> QED BY <2>2, <3>1, <3>2, <3>3, <3>4, <3>5
  <2> QED BY <2>3, <2>4
<1>3. upto(n) = A
  OBVIOUS
<1>4. n \in 0 .. n /\ n \notin bad
  <2> HIDE DEF bad
  <2> QED BY <1>2
<1> QED BY <1>3, <1>4

\* Adding at most as much as the bound grows stays within it.
LEMMA Between ==
  ASSUME NEW u \in Int, NEW v \in Int, NEW w \in Nat, NEW x \in Int, NEW y \in Int, NEW z \in Int,
         v = u + w, x + z = y, w <= z, 0 <= u, u <= x
  PROVE  0 <= v /\ v <= y
OBVIOUS

\* Division with remainder.
LEMMA DivMod ==
  ASSUME NEW a \in Nat, NEW b \in Nat, b > 0
  PROVE  /\ a \div b \in Nat /\ a % b \in Nat /\ a % b < b
         /\ a % b = a - b * (a \div b)
<1>1. a % b \in Nat /\ a % b < b
  OBVIOUS
<1>2. a % b = a - b * (a \div b)
  OBVIOUS
<1>3. a \div b \in Nat
  OBVIOUS
<1> QED BY <1>1, <1>2, <1>3

\* What a rounded-down share is worth, added to a sum.
LEMMA AddShare ==
  ASSUME NEW a \in Int, NEW b \in Int, NEW q \in Int, NEW p \in Int, NEW m \in Int, NEW t \in Int
  PROVE  (a + b) * m - t * (q + p) = (a * m - t * q) + (b * m - t * p)
<1>1. (a + b) * m = a * m + b * m
  OBVIOUS
<1>2. t * (q + p) = t * q + t * p
  OBVIOUS
<1>3. a * m \in Int /\ b * m \in Int /\ t * q \in Int /\ t * p \in Int
  OBVIOUS
<1> QED BY <1>1, <1>2, <1>3

\* The rounded-down shares fall short of the whole by the sum of the remainders.
LEMMA WholeShares ==
  ASSUME NEW t \in Nat, t > 0, NEW x \in Int, NEW n \in Nat, NEW d \in Int,
         d = t * x, 0 <= d, d <= n * (t - 1), n > 0
  PROVE  0 <= x /\ x < n /\ (d = 0 => x = 0)
<1>1. d < n * t
  OBVIOUS
<1> QED BY <1>1

\* The shares a[i] * rest of a total, rounded down, are q, and r the remainders.
Rounded(n, a, rest, total, q, r) ==
  \A i \in 1 .. n : r[i] < total /\ r[i] = a[i] * rest - total * q[i]

Even(n, r) == \A i \in 1 .. n : r[i] = 0

\* What is left after rounding down n shares is less than one for each of them.
LEMMA RestIsSmall ==
  ASSUME NEW n \in Nat, n > 0, NEW a \in [1 .. n -> Nat], NEW rest \in Nat,
         NEW total \in Nat, total > 0, Total(a) = total,
         NEW q \in [1 .. n -> Nat], NEW r \in [1 .. n -> Nat],
         Rounded(n, a, rest, total, q, r)
  PROVE  /\ Total(q) \in Int /\ 0 <= rest - Total(q) /\ rest - Total(q) < n
         /\ Even(n, r) => rest - Total(q) = 0
<1>1. a \in Seq(Int) /\ Len(a) = n /\ q \in Seq(Int) /\ Len(q) = n
  OBVIOUS
<1>2. PICK A : Sums(a, A)
  BY <1>1, TotalSums
<1>3. PICK Q : Sums(q, Q)
  BY <1>1, TotalSums
<1>4. Total(a) = A[n] /\ Total(q) = Q[n]
  BY <1>1, <1>2, <1>3, TotalIs
<1>5. /\ A[0] = 0 /\ Q[0] = 0
      /\ \A k \in 0 .. n : A[k] \in Int /\ Q[k] \in Int
      /\ \A k \in 1 .. n : A[k] = A[k - 1] + a[k] /\ Q[k] = Q[k - 1] + q[k]
  BY <1>1, <1>2, <1>3 DEF Sums
<1> DEFINE D(k) == A[k] * rest - total * Q[k]
           bad == {k \in 0 .. n : ~ /\ 0 <= D(k) /\ D(k) <= k * (total - 1)
                                    /\ (\A i \in 1 .. n : r[i] = 0) => D(k) = 0}
<1>6. bad = {}
  <2> SUFFICES ASSUME bad # {} PROVE FALSE
    OBVIOUS
  <2>1. PICK k \in bad : \A j \in bad : k <= j
    <3>1. bad \in SUBSET Nat
      OBVIOUS
    <3> HIDE DEF bad
    <3> QED BY <3>1, LeastNat
  <2>2. /\ k \in 0 .. n
        /\ ~ /\ 0 <= D(k) /\ D(k) <= k * (total - 1)
             /\ (\A i \in 1 .. n : r[i] = 0) => D(k) = 0
    BY <2>1
  <2>3. D(0) = 0
    BY <1>5
  <2>4. k # 0
    <3> HIDE DEF D, bad
    <3>1. 0 <= D(0) /\ D(0) <= 0 * (total - 1)
      BY <2>3
    <3> QED BY <2>2, <2>3, <3>1
  <2>5. k \in 1 .. n /\ k - 1 \in 0 .. n /\ k - 1 \notin bad
    <3> HIDE DEF bad
    <3>1. \A j \in bad : j \in Nat
      BY DEF bad
    <3> QED BY <2>1, <2>2, <2>4, <3>1
  <2>6. /\ 0 <= D(k - 1) /\ D(k - 1) <= (k - 1) * (total - 1)
        /\ (\A i \in 1 .. n : r[i] = 0) => D(k - 1) = 0
    BY <2>5
  <2>7. /\ D(k - 1) \in Int /\ D(k) \in Int /\ D(k) = D(k - 1) + r[k]
    <3>0. k \in 0 .. n
      BY <2>2
    <3>1. /\ A[k - 1] \in Int /\ Q[k - 1] \in Int /\ A[k] \in Int /\ Q[k] \in Int
          /\ A[k] = A[k - 1] + a[k] /\ Q[k] = Q[k - 1] + q[k]
      <4> HIDE DEF bad, D
      <4> QED BY <1>5, <2>5, <3>0
    <3>2. a[k] \in Int /\ q[k] \in Int /\ r[k] = a[k] * rest - total * q[k]
      <4> HIDE DEF bad, D
      <4> QED BY <2>5 DEF Rounded
    <3>9. PICK a0 \in Int, q0 \in Int, b \in Int, p \in Int :
          a0 = A[k - 1] /\ q0 = Q[k - 1] /\ b = a[k] /\ p = q[k]
      BY <3>1, <3>2
    <3>3. (a0 + b) * rest - total * (q0 + p) = (a0 * rest - total * q0) + (b * rest - total * p)
      <4> HIDE DEF bad, D
      <4>1. rest \in Int /\ total \in Int
        OBVIOUS
      <4> QED BY <4>1, AddShare
    <3>4. D(k - 1) = a0 * rest - total * q0 /\ D(k) = (a0 + b) * rest - total * (q0 + p)
      BY <3>1, <3>9
    <3>5. a0 * rest - total * q0 \in Int /\ (a0 + b) * rest - total * (q0 + p) \in Int
      <4> HIDE DEF bad, D
      <4> QED OBVIOUS
    <3>6. r[k] = b * rest - total * p
      BY <3>2, <3>9
    <3> HIDE DEF bad, D
    <3> QED BY <3>3, <3>4, <3>5, <3>6
  <2>8. r[k] \in Nat /\ r[k] <= total - 1
    <3> HIDE DEF bad, D
    <3>1. r[k] \in Nat /\ r[k] < total
      BY <2>5 DEF Rounded
    <3> QED BY <3>1
  <2> HIDE DEF D, bad
  <2>9. (k - 1) * (total - 1) + (total - 1) = k * (total - 1)
    BY <2>5
  <2>10. (k - 1) * (total - 1) \in Int /\ k * (total - 1) \in Int
    BY <2>5
  <2>11. 0 <= D(k) /\ D(k) <= k * (total - 1)
    <3>0. PICK x \in Int, y \in Int : x = (k - 1) * (total - 1) /\ y = k * (total - 1)
      BY <2>10
    <3>1. x + (total - 1) = y
      BY <2>9, <3>0
    <3>2. 0 <= D(k - 1) /\ D(k - 1) <= x
      BY <2>6, <3>0
    <3>3. 0 <= D(k) /\ D(k) <= y
      <4>0. PICK u \in Int, v \in Int, w \in Nat :
            u = D(k - 1) /\ v = D(k) /\ w = r[k] /\ v = u + w
        BY <2>7, <2>8
      <4>1. w <= total - 1 /\ 0 <= u /\ u <= x
        BY <2>8, <3>2, <4>0
      <4>2. 0 <= v /\ v <= y
        <5>1. PICK z \in Int : z = total - 1
          BY <2>5
        <5>2. x + z = y /\ w <= z /\ v = u + w /\ 0 <= u /\ u <= x
          BY <3>1, <4>0, <4>1, <5>1
        <5> QED BY <5>2, Between
      <4> QED BY <4>0, <4>2
    <3> QED BY <3>0, <3>3
  <2>12. (\A i \in 1 .. n : r[i] = 0) => D(k) = 0
    BY <2>5, <2>6, <2>7
  <2> QED BY <2>2, <2>11, <2>12
<1>7. n \in 0 .. n /\ n \notin bad
  <2> HIDE DEF bad
  <2> QED BY <1>6
<1>8. /\ 0 <= D(n) /\ D(n) <= n * (total - 1)
      /\ (\A i \in 1 .. n : r[i] = 0) => D(n) = 0
  BY <1>7
<1>9. Q[n] \in Int /\ D(n) = total * (rest - Q[n])
  <2>1. Q[n] \in Int /\ A[n] = total
    BY <1>4, <1>5, <1>7
  <2> QED BY <2>1
<1> PICK x \in Int : x = rest - Q[n]
  BY <1>9
<1>10. D(n) = total * x /\ D(n) \in Int
  BY <1>9
<1> HIDE DEF D, bad
<1>11. 0 <= x /\ x < n /\ (D(n) = 0 => x = 0)
  BY <1>8, <1>10, WholeShares
<1> QED BY <1>4, <1>8, <1>9, <1>11 DEF Even

\* The total of a sum of three sequences.
LEMMA TotalAdd ==
  ASSUME NEW n \in Nat, NEW a \in [1 .. n -> Int], NEW b \in [1 .. n -> Int],
         NEW c \in [1 .. n -> Int], \A i \in 1 .. n : c[i] = 1 + a[i] + b[i]
  PROVE  Total(c) = n + Total(a) + Total(b) /\ Total(a) \in Int /\ Total(b) \in Int
<1>1. /\ a \in Seq(Int) /\ Len(a) = n /\ b \in Seq(Int) /\ Len(b) = n
      /\ c \in Seq(Int) /\ Len(c) = n
  OBVIOUS
<1>2. PICK A : Sums(a, A)
  BY <1>1, TotalSums
<1>3. PICK B : Sums(b, B)
  BY <1>1, TotalSums
<1>4. PICK C : Sums(c, C)
  BY <1>1, TotalSums
<1>5. Total(a) = A[n] /\ Total(b) = B[n] /\ Total(c) = C[n]
  BY <1>1, <1>2, <1>3, <1>4, TotalIs
<1>6. /\ A[0] = 0 /\ B[0] = 0 /\ C[0] = 0
      /\ \A k \in 0 .. n : A[k] \in Int /\ B[k] \in Int /\ C[k] \in Int
      /\ \A k \in 1 .. n : A[k] = A[k - 1] + a[k] /\ B[k] = B[k - 1] + b[k] /\ C[k] = C[k - 1] + c[k]
  BY <1>1, <1>2, <1>3, <1>4 DEF Sums
<1> DEFINE bad == {k \in 0 .. n : C[k] # k + A[k] + B[k]}
<1>7. bad = {}
  <2> SUFFICES ASSUME bad # {} PROVE FALSE
    OBVIOUS
  <2>1. PICK k \in bad : \A j \in bad : k <= j
    <3>1. bad \in SUBSET Nat
      OBVIOUS
    <3> HIDE DEF bad
    <3> QED BY <3>1, LeastNat
  <2>2. k \in 0 .. n /\ C[k] # k + A[k] + B[k]
    BY <2>1
  <2>3. k # 0
    BY <1>6, <2>2
  <2>4. k \in 1 .. n /\ k - 1 \in 0 .. n /\ k - 1 \notin bad
    <3> HIDE DEF bad
    <3>1. \A j \in bad : j \in Nat
      BY DEF bad
    <3> QED BY <2>1, <2>2, <2>3, <3>1
  <2>5. C[k - 1] = (k - 1) + A[k - 1] + B[k - 1]
    BY <2>4
  <2> HIDE DEF bad
  <2>6. A[k - 1] \in Int /\ B[k - 1] \in Int /\ C[k - 1] \in Int /\ a[k] \in Int /\ b[k] \in Int
    BY <1>6, <2>4
  <2>7. /\ A[k] = A[k - 1] + a[k] /\ B[k] = B[k - 1] + b[k] /\ C[k] = C[k - 1] + c[k]
        /\ c[k] = 1 + a[k] + b[k]
    BY <1>6, <2>4
  <2>8. PICK x \in Int, y \in Int, z \in Int, u \in Int, v \in Int :
          x = A[k - 1] /\ y = B[k - 1] /\ z = C[k - 1] /\ u = a[k] /\ v = b[k]
    BY <2>6
  <2>9. k \in Int /\ z = (k - 1) + x + y /\ C[k] = z + (1 + u + v) /\ A[k] = x + u /\ B[k] = y + v
    BY <2>4, <2>5, <2>7, <2>8
  <2>10. z + (1 + u + v) = k + (x + u) + (y + v)
    BY <2>9
  <2> QED BY <2>2, <2>9, <2>10
<1>8. n \in 0 .. n /\ n \notin bad
  <2> HIDE DEF bad
  <2> QED BY <1>7
<1>9. C[n] = n + A[n] + B[n] /\ A[n] \in Int /\ B[n] \in Int
  BY <1>6, <1>8
<1> QED BY <1>5, <1>9

\* The order in which services get one of what is left: by remainder, the last of equals first.
Remaining(r, n) ==
  {p \in (1 .. n) \X (1 .. n) :
     r[p[1]] > r[p[2]] \/ (r[p[1]] = r[p[2]] /\ p[1] > p[2])}

\* The remainders, and then the positions, order the backends linearly.
LEMMA RemainingOrders ==
  ASSUME NEW n \in Nat, NEW r \in [1 .. n -> Nat]
  PROVE  Orders(Remaining(r, n), 1 .. n)
<1>1. \A i, j \in 1 .. n :
        <<i, j>> \in Remaining(r, n) <=> r[i] > r[j] \/ (r[i] = r[j] /\ i > j)
  BY DEF Remaining
<1>2. \A i \in 1 .. n : r[i] \in Nat
  OBVIOUS
<1>3. \A i \in 1 .. n : <<i, i>> \notin Remaining(r, n)
  BY <1>1, <1>2
<1>4. ASSUME NEW i \in 1 .. n, NEW j \in 1 .. n, NEW k \in 1 .. n,
             <<i, j>> \in Remaining(r, n), <<j, k>> \in Remaining(r, n)
      PROVE <<i, k>> \in Remaining(r, n)
  <2>1. r[i] > r[j] \/ (r[i] = r[j] /\ i > j)
    BY <1>1, <1>4
  <2>2. r[j] > r[k] \/ (r[j] = r[k] /\ j > k)
    BY <1>1, <1>4
  <2>3. r[i] \in Nat /\ r[j] \in Nat /\ r[k] \in Nat
    BY <1>2
  <2>4. r[i] > r[k] \/ (r[i] = r[k] /\ i > k)
    BY <2>1, <2>2, <2>3
  <2> QED BY <1>1, <2>4
<1>5. ASSUME NEW i \in 1 .. n, NEW j \in 1 .. n, i # j
      PROVE <<i, j>> \in Remaining(r, n) \/ <<j, i>> \in Remaining(r, n)
  <2>1. r[i] \in Nat /\ r[j] \in Nat
    BY <1>2
  <2>2. \/ r[i] > r[j] \/ (r[i] = r[j] /\ i > j)
        \/ r[j] > r[i] \/ (r[j] = r[i] /\ j > i)
    BY <1>5, <2>1
  <2> QED BY <1>1, <2>2
<1> QED BY <1>3, <1>4, <1>5 DEF Orders

\* As many services are among the first m as there are numbers below m.
LEMMA FirstRanks ==
  ASSUME NEW n \in Nat, NEW R, Orders(R, 1 .. n), NEW m \in 0 .. n
  PROVE  Cardinality({i \in 1 .. n : RankIn(R, 1 .. n, i) < m}) = m
<1> DEFINE S == 1 .. n
           f == [x \in S |-> RankIn(R, S, x)]
           first == {i \in S : RankIn(R, S, i) < m}
           g == [x \in first |-> f[x]]
<1>1. IsFiniteSet(S) /\ Cardinality(S) = n
  <2>1. IsFiniteSet(1 .. n) /\ Cardinality(1 .. n) = IF 1 > n THEN 0 ELSE n - 1 + 1
    BY FS_Interval
  <2> QED BY <2>1
<1>2. f \in Bijection(S, 0 .. n - 1)
  <2> HIDE DEF S
  <2> QED BY <1>1, RankBijection DEF S
<1>3. /\ f \in [S -> 0 .. n - 1]
      /\ \A i, j \in S : f[i] = f[j] => i = j
      /\ \A k \in 0 .. n - 1 : \E i \in S : f[i] = k
  BY <1>2 DEF Bijection, Injection, Surjection, IsInjective
<1>4. first = {i \in S : f[i] < m}
  OBVIOUS
<1> HIDE DEF f, S
<1>5. g \in Bijection(first, 0 .. m - 1)
  <2>1. g \in [first -> 0 .. m - 1]
    BY <1>3, <1>4
  <2>2. \A i, j \in first : g[i] = g[j] => i = j
    BY <1>3, <1>4
  <2>3. \A k \in 0 .. m - 1 : \E i \in first : g[i] = k
    <3> SUFFICES ASSUME NEW k \in 0 .. m - 1 PROVE \E i \in first : g[i] = k
      OBVIOUS
    <3>1. k \in 0 .. n - 1 /\ k < m
      OBVIOUS
    <3>2. PICK i \in S : f[i] = k
      BY <1>3, <3>1
    <3>3. i \in first
      BY <1>4, <3>1, <3>2
    <3> QED BY <3>2, <3>3
  <2> HIDE DEF g, first
  <2> QED BY <2>1, <2>2, <2>3 DEF Bijection, Injection, Surjection, IsInjective
<1> HIDE DEF first, g
<1>6. IsFiniteSet(first)
  <2>1. first \in SUBSET S
    BY DEF first
  <2> QED BY <1>1, <2>1, FS_Subset
<1>7. Cardinality(0 .. m - 1) = Cardinality(first)
  BY <1>5, <1>6, FS_Bijection DEF ExistsBijection
<1>8. Cardinality(0 .. m - 1) = m
  <2>1. m - 1 \in Int /\ 0 \in Int
    OBVIOUS
  <2>2. Cardinality(0 .. m - 1) = IF 0 > m - 1 THEN 0 ELSE (m - 1) - 0 + 1
    BY <2>1, FS_Interval
  <2> QED BY <2>2
<1> QED BY <1>7, <1>8 DEF first, S

\* A larger capacity has the larger share, or the larger remainder, or there is no rest.
LEMMA Compare ==
  ASSUME NEW x \in Nat, NEW y \in Nat, x > y, NEW rest \in Nat, NEW t \in Nat, t > 0,
         NEW q \in Nat, NEW p \in Nat, NEW u \in Nat, NEW v \in Nat, u < t, v < t,
         u = x * rest - t * q, v = y * rest - t * p
  PROVE  q > p \/ (q = p /\ u > v) \/ (q = p /\ u = v /\ rest = 0)
<1>1. CASE rest = 0
  <2>1. x * rest = 0 /\ y * rest = 0
    BY <1>1
  <2>2. t * q \in Nat /\ t * p \in Nat
    OBVIOUS
  <2>3. u = 0 /\ v = 0 /\ t * q = 0 /\ t * p = 0
    BY <2>1, <2>2
  <2>4. q = 0 /\ p = 0
    BY <2>3
  <2> QED BY <1>1, <2>3, <2>4
<1>2. CASE rest > 0
  <2>1. PICK d \in Nat : x = y + d /\ d > 0
    <3>1. x - y \in Nat /\ x = y + (x - y) /\ x - y > 0
      OBVIOUS
    <3> QED BY <3>1
  <2>2. d * rest > 0 /\ d * rest \in Nat
    BY <1>2, <2>1
  <2>3. x * rest = y * rest + d * rest
    BY <2>1
  <2>4. t * q + u = t * p + v + d * rest
    BY <2>2, <2>3
  <2>5. CASE q < p
    <3>1. PICK e \in Nat : p = q + e /\ e >= 1
      <4>1. p - q \in Nat /\ p = q + (p - q) /\ p - q >= 1
        BY <2>5
      <4> QED BY <4>1
    <3>2. t * p = t * q + t * e /\ t * e >= t /\ t * e \in Nat /\ t * q \in Nat
      BY <3>1
    <3> QED BY <2>2, <2>4, <3>2
  <2>6. CASE q = p
    <3>1. t * q = t * p /\ t * p \in Nat
      BY <2>6
    <3> QED BY <2>2, <2>4, <2>6, <3>1
  <2> QED BY <2>5, <2>6
<1> QED BY <1>1, <1>2

\* The weights of a pool whose capacities do not fit.
LEMMA WeightsNormalized ==
  ASSUME NEW n \in 1 .. MaxU16, NEW a \in [1 .. n -> 1 .. MaxU16], Total(a) > MaxU16
  PROVE  /\ NormalizedCapacities(a) \in [1 .. n -> Nat \ {0}]
         /\ Total(NormalizedCapacities(a)) = MaxU16
         /\ \A i, j \in 1 .. n :
              a[i] > a[j] => NormalizedCapacities(a)[i] >= NormalizedCapacities(a)[j]
<1> DEFINE total == Total(a)
           rest == MaxU16 - n
           q == [i \in 1 .. n |-> (a[i] * rest) \div total]
           r == [i \in 1 .. n |-> (a[i] * rest) % total]
           weight == [i \in 1 .. n |-> 1 + q[i]]
           left == MaxU16 - Total(weight)
           R == Remaining(r, n)
           first == {i \in 1 .. n : RankIn(R, 1 .. n, i) < left}
           extra == [i \in 1 .. n |-> IF i \in first THEN 1 ELSE 0]
           w == NormalizedCapacities(a)
<1>1. /\ n \in Nat /\ n > 0 /\ rest \in Nat /\ MaxU16 \in Nat
      /\ \A i \in 1 .. n : a[i] \in Nat /\ a[i] > 0
  BY MaxU16Assumption
<1>2. a \in Seq(Int) /\ Len(a) = n /\ a \in [1 .. n -> Nat]
  BY <1>1
<1>3. total \in Nat /\ total > 0
  <2>1. PICK h : Sums(a, h) /\ Total(a) = h[n]
    BY <1>2, TotalSums
  <2>2. h[n] \in Int
    BY <1>1, <1>2, <2>1 DEF Sums
  <2> QED BY <1>1, <2>1, <2>2
<1> HIDE DEF total, rest
<1>4. /\ q \in [1 .. n -> Nat] /\ r \in [1 .. n -> Nat]
      /\ Rounded(n, a, rest, total, q, r)
  <2>1. ASSUME NEW i \in 1 .. n
        PROVE  /\ a[i] * rest \in Nat
               /\ (a[i] * rest) \div total \in Nat /\ (a[i] * rest) % total \in Nat
               /\ (a[i] * rest) % total < total
               /\ (a[i] * rest) % total = a[i] * rest - total * ((a[i] * rest) \div total)
    <3>1. PICK x \in Nat : x = a[i] * rest
      <4>1. a[i] \in Nat
        BY <1>1
      <4> QED BY <1>1, <4>1
    <3>2. /\ x \div total \in Nat /\ x % total \in Nat /\ x % total < total
          /\ x % total = x - total * (x \div total)
      BY <1>3, DivMod
    <3> QED BY <3>1, <3>2, Zenon
  <2>2. q \in [1 .. n -> Nat] /\ r \in [1 .. n -> Nat]
    BY <2>1, Zenon
  <2>3. DOMAIN a = 1 .. n
    BY <1>2
  <2> QED BY <2>1, <2>2, <2>3, Zenon DEF Rounded
<1>5. w = [i \in 1 .. n |-> IF RankIn(R, 1 .. n, i) < left THEN weight[i] + 1 ELSE weight[i]]
  <2> DEFINE scaled(i) == a[i] * rest
             before(i, j) == \/ scaled(i) % total > scaled(j) % total
                             \/ scaled(i) % total = scaled(j) % total /\ i > j
             rank(i) == Cardinality({j \in 1 .. n : before(j, i)})
             weigh(i) == 1 + scaled(i) \div total
             over == MaxU16 - Total([i \in 1 .. n |-> weigh(i)])
  <2>1. ~(total <= MaxU16)
    BY <1>1, <1>3 DEF total
  <2>2. w = [i \in 1 .. n |-> IF rank(i) < over THEN weigh(i) + 1 ELSE weigh(i)]
    <3>1. w = IF total <= MaxU16 THEN a
              ELSE [i \in 1 .. n |-> IF rank(i) < over THEN weigh(i) + 1 ELSE weigh(i)]
      BY <1>2, Zenon DEF NormalizedCapacities, total, rest
    <3> HIDE DEF w, rank, over, weigh
    <3> QED BY <2>1, <3>1, Zenon
  <2>3. over = left
    OBVIOUS
  <2>4. ASSUME NEW i \in 1 .. n PROVE weigh(i) = weight[i] /\ rank(i) = RankIn(R, 1 .. n, i)
    <3>1. weigh(i) = weight[i]
      OBVIOUS
    <3>2. \A j \in 1 .. n : before(j, i) <=> <<j, i>> \in R
      <4>1. \A j \in 1 .. n : r[j] = scaled(j) % total
        OBVIOUS
      <4> HIDE DEF r, scaled
      <4> QED BY <4>1 DEF Remaining
    <3> HIDE DEF before, R
    <3>3. {j \in 1 .. n : before(j, i)} = {j \in 1 .. n : <<j, i>> \in R}
      BY <3>2
    <3> QED BY <3>1, <3>3, Zenon DEF RankIn
  <2> HIDE DEF w, rank, over, weigh, left, weight, R
  <2> QED BY <2>2, <2>3, <2>4
<1> HIDE DEF w
<1>6. Total(weight) = n + Total(q) /\ Total(q) \in Int
  <2> DEFINE zero == [i \in 1 .. n |-> 0]
  <2>1. /\ q \in [1 .. n -> Int] /\ weight \in [1 .. n -> Int] /\ zero \in [1 .. n -> Int]
        /\ \A i \in 1 .. n : weight[i] = 1 + q[i] + zero[i]
    <3> HIDE DEF q
    <3> QED BY <1>4
  <2>2. Total(zero) = 0
    <3> DEFINE h == [k \in 0 .. n |-> 0]
    <3>1. zero \in Seq(Int) /\ Len(zero) = n
      BY <1>1
    <3>2. Sums(zero, h)
      BY <1>1, <3>1 DEF Sums
    <3>3. h[n] = 0
      BY <1>1
    <3> HIDE DEF zero, h
    <3> QED BY <3>1, <3>2, <3>3, TotalIs
  <2> HIDE DEF q, weight, zero
  <2>3. Total(weight) = n + Total(q) + Total(zero) /\ Total(q) \in Int
    BY <1>1, <2>1, TotalAdd
  <2> QED BY <1>1, <2>2, <2>3
<1>7. /\ 0 <= rest - Total(q) /\ rest - Total(q) < n
      /\ Even(n, r) => rest - Total(q) = 0
  <2> HIDE DEF q, r
  <2>1. Total(a) = total
    BY DEF total
  <2>2. n \in Nat /\ n > 0 /\ a \in [1 .. n -> Nat] /\ rest \in Nat
    BY <1>1, <1>2
  <2> QED BY <1>3, <1>4, <2>1, <2>2, RestIsSmall
<1>8. left = rest - Total(q) /\ left \in 0 .. n
  <2> HIDE DEF q, weight
  <2>1. left = rest - Total(q)
    BY <1>1, <1>6 DEF rest
  <2> QED BY <1>1, <1>6, <1>7, <2>1
<1>9. Orders(R, 1 .. n)
  <2> HIDE DEF r
  <2> QED BY <1>1, <1>4, RemainingOrders
<1>10. Cardinality(first) = left
  <2> HIDE DEF R, left
  <2> QED BY <1>1, <1>8, <1>9, FirstRanks
<1>11. Total(extra) = left
  <2>1. extra \in Seq(Int) /\ Len(extra) = n /\ first \in SUBSET (1 .. n)
    BY <1>1
  <2>2. \A i \in 1 .. n : extra[i] = IF i \in first THEN 1 ELSE 0
    OBVIOUS
  <2> HIDE DEF extra, first
  <2>3. PICK h : Sums(extra, h)
    BY <2>1, TotalSums
  <2>4. h[n] = Cardinality(first)
    BY <1>1, <2>1, <2>2, <2>3, CountSums
  <2>5. Total(extra) = h[n]
    BY <2>1, <2>3, TotalIs
  <2> QED BY <1>10, <2>4, <2>5
<1>12. /\ \A i \in 1 .. n : w[i] = 1 + q[i] + extra[i] /\ q[i] \in Nat /\ extra[i] \in {0, 1}
       /\ DOMAIN w = 1 .. n
  <2>1. \A i \in 1 .. n : w[i] = IF i \in first THEN weight[i] + 1 ELSE weight[i]
    <3> HIDE DEF R, left, weight
    <3> QED BY <1>5
  <2>2. \A i \in 1 .. n : q[i] \in Nat
    <3> HIDE DEF q
    <3> QED BY <1>4
  <2>3. \A i \in 1 .. n : weight[i] = 1 + q[i]
    OBVIOUS
  <2>4. DOMAIN w = 1 .. n
    BY <1>5
  <2> HIDE DEF first, weight, q
  <2> QED BY <2>1, <2>2, <2>3, <2>4
<1>13. w \in [1 .. n -> Nat \ {0}]
  <2> HIDE DEF extra, q
  <2>1. ASSUME NEW i \in 1 .. n PROVE w[i] \in Nat \ {0}
    <3>1. w[i] = 1 + q[i] + extra[i] /\ q[i] \in Nat /\ extra[i] \in {0, 1}
      BY <1>12, Zenon
    <3>2. extra[i] \in Nat
      BY <3>1
    <3> QED BY <3>1, <3>2
  <2>2. w = [i \in 1 .. n |-> w[i]]
    BY <1>5
  <2> QED BY <2>1, <2>2
<1>14. Total(w) = MaxU16
  <2>1. extra \in [1 .. n -> Int]
    OBVIOUS
  <2> HIDE DEF extra, q
  <2>2. q \in [1 .. n -> Int] /\ w \in [1 .. n -> Int]
    BY <1>4, <1>13
  <2>3. Total(w) = n + Total(q) + Total(extra)
    BY <1>1, <1>12, <2>1, <2>2, TotalAdd
  <2> HIDE DEF left
  <2> QED BY <1>1, <1>6, <1>8, <1>11, <2>3 DEF rest
<1>15. ASSUME NEW i \in 1 .. n, NEW j \in 1 .. n, a[i] > a[j] PROVE w[i] >= w[j]
  <2>1. /\ w[i] = 1 + q[i] + extra[i] /\ q[i] \in Nat /\ extra[i] \in {0, 1}
        /\ w[j] = 1 + q[j] + extra[j] /\ q[j] \in Nat /\ extra[j] \in {0, 1}
    <3> HIDE DEF extra, q
    <3> QED BY <1>12
  <2>2. /\ r[i] \in Nat /\ r[i] < total /\ r[i] = a[i] * rest - total * q[i]
        /\ r[j] \in Nat /\ r[j] < total /\ r[j] = a[j] * rest - total * q[j]
    <3> HIDE DEF r, q
    <3> QED BY <1>2, <1>4 DEF Rounded
  <2>3. a[i] \in Nat /\ a[j] \in Nat
    BY <1>1
  <2> HIDE DEF r, q, extra
  <2>4. \/ q[i] > q[j]
        \/ q[i] = q[j] /\ r[i] > r[j]
        \/ q[i] = q[j] /\ r[i] = r[j] /\ rest = 0
    <3>1. PICK x \in Nat, y \in Nat, q1 \in Nat, q2 \in Nat, u \in Nat, v \in Nat :
            x = a[i] /\ y = a[j] /\ q1 = q[i] /\ q2 = q[j] /\ u = r[i] /\ v = r[j]
      BY <2>1, <2>2, <2>3, Zenon
    <3>2. x > y /\ u < total /\ v < total /\ u = x * rest - total * q1 /\ v = y * rest - total * q2
      BY <1>15, <2>2, <3>1, Zenon
    <3>3. q1 > q2 \/ (q1 = q2 /\ u > v) \/ (q1 = q2 /\ u = v /\ rest = 0)
      BY <1>1, <1>3, <3>2, Compare
    <3> QED BY <3>1, <3>3, Zenon
  <2>5. CASE q[i] > q[j]
    <3>1. PICK u \in Nat, v \in Nat : u = q[i] /\ v = q[j]
      BY <2>1, Zenon
    <3>2. PICK c \in {0, 1}, d \in {0, 1} : c = extra[i] /\ d = extra[j]
      BY <2>1, Zenon
    <3>3. u > v
      BY <2>5, <3>1, Zenon
    <3>4. 1 + u + c >= 1 + v + d
      BY <3>3
    <3>5. w[i] = 1 + u + c /\ w[j] = 1 + v + d
      BY <2>1, <3>1, <3>2, Zenon
    <3> QED BY <3>4, <3>5, Zenon
  <2>6. CASE q[i] = q[j] /\ r[i] > r[j]
    <3>1. <<i, j>> \in R
      BY <2>6 DEF Remaining
    <3> HIDE DEF R, left
    <3>2. RankIn(R, 1 .. n, i) < RankIn(R, 1 .. n, j)
          /\ RankIn(R, 1 .. n, i) \in Nat /\ RankIn(R, 1 .. n, j) \in Nat
      <4>1. IsFiniteSet(1 .. n)
        BY <1>1, FS_Interval
      <4> QED BY <1>9, <3>1, <4>1, RankGrows
    <3>3. j \in first => i \in first
      BY <1>8, <3>2
    <3>4. extra[i] >= extra[j]
      BY <3>3 DEF extra
    <3> QED BY <2>1, <2>6, <3>4
  <2>7. CASE q[i] = q[j] /\ r[i] = r[j] /\ rest = 0
    <3>1. \A k \in 1 .. n : r[k] = 0
      <4> SUFFICES ASSUME NEW k \in 1 .. n PROVE r[k] = 0
        OBVIOUS
      <4>1. /\ r[k] \in Nat /\ r[k] = a[k] * rest - total * q[k] /\ a[k] \in Nat /\ q[k] \in Nat
        BY <1>1, <1>2, <1>4 DEF Rounded
      <4>2. a[k] * rest = 0
        BY <2>7, <4>1
      <4>3. total * q[k] \in Nat
        BY <1>3, <4>1
      <4> QED BY <4>1, <4>2, <4>3
    <3>2. left = 0
      <4> HIDE DEF left
      <4> QED BY <1>6, <1>7, <1>8, <3>1, <1>1 DEF Even
    <3>3. Cardinality(first) = 0 /\ IsFiniteSet(first)
      <4>1. IsFiniteSet(1 .. n) /\ first \in SUBSET (1 .. n)
        BY <1>1, FS_Interval
      <4> HIDE DEF first, left
      <4> QED BY <1>10, <3>2, <4>1, FS_Subset
    <3>4. first = {}
      <4> HIDE DEF first
      <4> QED BY <3>3, FS_EmptySet
    <3>5. extra[i] = 0 /\ extra[j] = 0
      <4> HIDE DEF first
      <4> QED BY <3>4 DEF extra
    <3> QED BY <2>1, <2>7, <3>5
  <2> QED BY <2>4, <2>5, <2>6, <2>7
<1> QED BY <1>13, <1>14, <1>15 DEF w

\* The weights of a pool, whether its capacities fit or not.
LEMMA Weights ==
  ASSUME NEW n \in 1 .. MaxServices, NEW a \in [1 .. n -> 1 .. MaxU16]
  PROVE  /\ NormalizedCapacities(a) \in [1 .. n -> Nat \ {0}]
         /\ Total(NormalizedCapacities(a)) = Min({Total(a), MaxU16})
         /\ \A i, j \in 1 .. n :
              a[i] > a[j] => NormalizedCapacities(a)[i] >= NormalizedCapacities(a)[j]
<1>1. n \in 1 .. MaxU16 /\ MaxU16 \in Nat /\ n \in Nat
  BY MaxU16Assumption
<1>2. a \in Seq(Int) /\ Len(a) = n /\ a \in [1 .. n -> Nat \ {0}] /\ a \in Seq(Nat)
  BY <1>1
<1>3. Total(a) \in Nat
  <2>1. PICK h : Sums(a, h) /\ Total(a) = h[n]
    BY <1>2, TotalSums
  <2>2. h[n] \in Int /\ 0 <= h[n]
    <3>1. n \in 0 .. n
      BY <1>1
    <3>2. h[n] \in Int
      BY <1>2, <2>1, <3>1 DEF Sums
    <3>3. 0 <= h[n]
      <4>1. n <= n
        BY <1>1
      <4> QED BY <1>2, <2>1, <3>1, <4>1, SumsGrow
    <3> QED BY <3>2, <3>3
  <2> QED BY <2>1, <2>2
<1>4. Min({Total(a), MaxU16}) = IF Total(a) > MaxU16 THEN MaxU16 ELSE Total(a)
  <2>1. PICK x \in Nat, y \in Nat : x = Total(a) /\ y = MaxU16
    BY <1>1, <1>3
  <2>2. Min({x, y}) \in {x, y} /\ \A z \in {x, y} : Min({x, y}) <= z
    <3>1. {x, y} \in SUBSET Nat /\ {x, y} # {}
      OBVIOUS
    <3> QED BY <3>1, MinNat
  <2>3. Min({x, y}) = IF x > y THEN y ELSE x
    BY <2>2
  <2> QED BY <2>1, <2>3
<1>5. CASE Total(a) > MaxU16
  BY <1>1, <1>4, <1>5, WeightsNormalized
<1>6. CASE ~(Total(a) > MaxU16)
  <2>1. Total(a) <= MaxU16
    BY <1>1, <1>3, <1>6
  <2>2. NormalizedCapacities(a) = a
    BY <2>1, Zenon DEF NormalizedCapacities
  <2>3. \A i, j \in 1 .. n : a[i] > a[j] => a[i] >= a[j]
    <3>1. \A i \in 1 .. n : a[i] \in Nat
      BY <1>2
    <3> QED BY <3>1
  <2>4. Total(a) = Min({Total(a), MaxU16})
    BY <1>4, <1>6
  <2> QED BY <1>2, <2>2, <2>3, <2>4, Zenon
<1> QED BY <1>5, <1>6

\* The shares are exact for any capacities.
LEMMA Shares == SharesExact
<1> SUFFICES ASSUME NEW n \in 1 .. MaxServices, NEW a \in [1 .. n -> 1 .. MaxU16]
    PROVE  LET weights == NormalizedCapacities(a)
               shifted == [i \in DOMAIN weights |-> weights[i] - 1]
               slots(i) == {slot \in 0 .. Total(shifted) - 1 : SlotBackend(shifted, slot) = i}
           IN /\ Total(weights) = Min({Total(a), MaxU16})
              /\ \A i, j \in DOMAIN weights :
                   /\ weights[i] > 0
                   /\ a[i] > a[j] => weights[i] >= weights[j]
              /\ \A i \in DOMAIN shifted : Cardinality(slots(i)) = shifted[i]
  BY DEF SharesExact
<1> DEFINE weights == NormalizedCapacities(a)
           shifted == [i \in DOMAIN weights |-> weights[i] - 1]
           slots(i) == {slot \in 0 .. Total(shifted) - 1 : SlotBackend(shifted, slot) = i}
<1>1. n \in Nat
  BY MaxU16Assumption
<1>2. /\ weights \in [1 .. n -> Nat \ {0}]
      /\ Total(weights) = Min({Total(a), MaxU16})
      /\ \A i, j \in 1 .. n : a[i] > a[j] => weights[i] >= weights[j]
  BY Weights
<1> HIDE DEF weights
<1>3. \A i \in 1 .. n : weights[i] > 0
  BY <1>2
<1>4. DOMAIN weights = 1 .. n
  BY <1>2
<1>5. shifted \in Seq(Nat) /\ Len(shifted) = n /\ DOMAIN shifted = 1 .. n
  <2>1. shifted \in [1 .. n -> Nat]
    BY <1>2, <1>4
  <2> HIDE DEF shifted
  <2> QED BY <1>1, <2>1
<1>6. \A i \in 1 .. n : Cardinality(slots(i)) = shifted[i]
  <2> HIDE DEF shifted
  <2> QED BY <1>5, SlotsExact
<1> HIDE DEF shifted, slots
<1>7. /\ Total(weights) = Min({Total(a), MaxU16})
      /\ \A i, j \in DOMAIN weights :
           /\ weights[i] > 0
           /\ a[i] > a[j] => weights[i] >= weights[j]
      /\ \A i \in DOMAIN shifted : Cardinality(slots(i)) = shifted[i]
  BY <1>2, <1>3, <1>4, <1>5, <1>6, Zenon
<1> QED BY <1>7, Zenon DEF weights, shifted, slots

\* Shares of a pool are exact for every number of services that u16 admits and all
\* their capacities.
THEOREM ExactShares == Spec => []SharesExact
BY Shares, PTL

-----------------------------------------------------------------------------
(* The order of tuples *)

\* Tuples of one length are ordered strictly and linearly.
LEMMA AboveOrders ==
  ASSUME NEW m \in Nat, NEW s \in [1 .. m -> Nat], NEW t \in [1 .. m -> Nat]
  PROVE  /\ ~Above(s, s)
         /\ ~(Above(s, t) /\ Above(t, s))
         /\ s = t \/ Above(s, t) \/ Above(t, s)
<1>1. DOMAIN s = 1 .. m /\ DOMAIN t = 1 .. m
  OBVIOUS
<1>2. \A i \in 1 .. m : s[i] \in Nat /\ t[i] \in Nat
  OBVIOUS
<1>3. ~Above(s, s)
  BY <1>1, <1>2 DEF Above
<1>4. ASSUME Above(s, t), Above(t, s) PROVE FALSE
  <2>1. PICK i \in 1 .. m : s[i] > t[i] /\ \A k \in 1 .. i - 1 : s[k] = t[k]
    BY <1>1, <1>4 DEF Above
  <2>2. PICK j \in 1 .. m : t[j] > s[j] /\ \A k \in 1 .. j - 1 : t[k] = s[k]
    BY <1>1, <1>4 DEF Above
  <2>3. ~(i < j) /\ ~(j < i)
    BY <1>2, <2>1, <2>2
  <2> QED BY <1>2, <2>1, <2>2, <2>3
<1>5. ASSUME s # t PROVE Above(s, t) \/ Above(t, s)
  <2> DEFINE differ == {i \in 1 .. m : s[i] # t[i]}
  <2>1. differ \in SUBSET Nat /\ differ # {}
    BY <1>5
  <2>2. PICK i \in differ : \A j \in differ : i <= j
    BY <2>1, LeastNat
  <2>3. i \in 1 .. m /\ (s[i] > t[i] \/ t[i] > s[i])
    BY <1>2, <2>2
  <2>4. \A j \in 1 .. i - 1 : s[j] = t[j]
    BY <2>2, <2>3
  <2> HIDE DEF differ
  <2> QED BY <1>1, <2>3, <2>4 DEF Above
<1> QED BY <1>3, <1>4, <1>5

\* The order of tuples is transitive.
LEMMA AboveTransitive ==
  ASSUME NEW m \in Nat, NEW s \in [1 .. m -> Nat], NEW t \in [1 .. m -> Nat],
         NEW u \in [1 .. m -> Nat], Above(s, t), Above(t, u)
  PROVE  Above(s, u)
<1>1. DOMAIN s = 1 .. m /\ DOMAIN t = 1 .. m
  OBVIOUS
<1>2. \A i \in 1 .. m : s[i] \in Nat /\ t[i] \in Nat /\ u[i] \in Nat
  OBVIOUS
<1>3. PICK i \in 1 .. m : s[i] > t[i] /\ \A k \in 1 .. i - 1 : s[k] = t[k]
  BY <1>1 DEF Above
<1>4. PICK j \in 1 .. m : t[j] > u[j] /\ \A k \in 1 .. j - 1 : t[k] = u[k]
  BY <1>1 DEF Above
<1>5. CASE i <= j
  <2>1. s[i] > u[i]
    <3>1. t[i] >= u[i]
      <4>1. CASE i = j
        BY <1>2, <1>4, <4>1
      <4>2. CASE i # j
        <5>1. i \in 1 .. j - 1
          BY <1>5, <4>2
        <5> QED BY <1>2, <1>4, <5>1
      <4> QED BY <4>1, <4>2
    <3> QED BY <1>2, <1>3, <3>1
  <2>2. \A k \in 1 .. i - 1 : s[k] = u[k]
    BY <1>3, <1>4, <1>5
  <2> QED BY <1>1, <2>1, <2>2 DEF Above
<1>6. CASE j < i
  <2>1. s[j] > u[j]
    BY <1>2, <1>3, <1>4, <1>6
  <2>2. \A k \in 1 .. j - 1 : s[k] = u[k]
    BY <1>3, <1>4, <1>6
  <2> QED BY <1>1, <2>1, <2>2 DEF Above
<1> QED BY <1>5, <1>6

-----------------------------------------------------------------------------
(* The virtual hosts that are asked *)

\* What does not change while a request is resolved.
Scenario ==
  /\ IsServers(vhosts) /\ IsRequest(request) /\ (rewrite = <<>> \/ Absolute(rewrite))
  /\ \A v \in vhosts : Compiles(v)

\* The score of a name is a pair of numbers.
LEMMA HostScores ==
  ASSUME NEW v, v.name \in [wild : BOOLEAN, labels : Seq(STRING)]
  PROVE  HostnameScore(v.name) \in [1 .. 2 -> Nat]
BY DEF HostnameScore

\* A pattern that matches a host is the end of it.
LEMMA SuffixLabels ==
  ASSUME NEW s \in Seq(STRING), NEW h \in Seq(STRING), IsSuffix(s, h)
  PROVE  Len(s) <= Len(h) /\ \A i \in 1 .. Len(s) : s[i] = h[Len(h) - Len(s) + i]
<1> DEFINE r == Reverse(s)
           g == Reverse(h)
<1>1. /\ r \in Seq(STRING) /\ Len(r) = Len(s) /\ \A i \in 1 .. Len(s) : r[i] = s[Len(s) - i + 1]
      /\ g \in Seq(STRING) /\ Len(g) = Len(h) /\ \A i \in 1 .. Len(h) : g[i] = h[Len(h) - i + 1]
  BY DEF Reverse
<1> HIDE DEF r, g
<1>2. Len(r) <= Len(g) /\ SubSeq(r, 1, Len(r)) = SubSeq(g, 1, Len(r))
  BY DEF IsSuffix, IsPrefix, r, g
<1>3. ASSUME NEW i \in 1 .. Len(r) PROVE r[i] = g[i]
  <2>1. SubSeq(r, 1, Len(r))[i] = r[i] /\ SubSeq(g, 1, Len(r))[i] = g[i]
    BY <1>1, <1>2
  <2> QED BY <1>2, <2>1
<1>4. ASSUME NEW i \in 1 .. Len(s) PROVE s[i] = h[Len(h) - Len(s) + i]
  <2>1. PICK j \in 1 .. Len(s) : j = Len(s) - i + 1
    <3>1. PICK n \in Nat : n = Len(s)
      OBVIOUS
    <3>2. i \in 1 .. n
      BY <3>1
    <3>3. n - i + 1 \in 1 .. n
      BY <3>2
    <3> QED BY <3>1, <3>3, Zenon
  <2>2. r[j] = g[j] /\ r[j] = s[i] /\ g[j] = h[Len(h) - j + 1]
    <3>0. Len(s) - j + 1 = i
      BY <2>1
    <3>1. r[j] = s[Len(s) - j + 1] /\ Len(s) - j + 1 = i
      BY <1>1, <3>0
    <3>2. j \in 1 .. Len(h)
      BY <1>1, <1>2
    <3> QED BY <1>1, <1>3, <3>1, <3>2
  <2>3. Len(h) - j + 1 = Len(h) - Len(s) + i
    BY <2>1
  <2> QED BY <2>2, <2>3
<1> QED BY <1>1, <1>2, <1>4

\* Names that match one host have different scores.
LEMMA ScoresDiffer ==
  ASSUME Scenario, NEW v \in vhosts, NEW w \in vhosts, Eligible(v), Eligible(w),
         HostnameScore(v.name) = HostnameScore(w.name)
  PROVE  v = w
<1>1. /\ v.name \in [wild : BOOLEAN, labels : Seq(STRING)]
      /\ w.name \in [wild : BOOLEAN, labels : Seq(STRING)]
      /\ v.name = w.name => v = w
  BY DEF Scenario, IsServers
<1>2. v.name.wild = w.name.wild /\ Len(v.name.labels) = Len(w.name.labels)
  BY <1>1, Zenon, SMT DEF HostnameScore
<1>3. v.name.labels = w.name.labels => v.name = w.name
  BY <1>1, <1>2
<1>4. Default.wild /\ Len(Default.labels) = 0 /\ Default.labels = <<>>
  BY DEF Default
<1>5. CASE v.name = Default \/ w.name = Default
  <2>1. Len(v.name.labels) = 0 /\ Len(w.name.labels) = 0
    BY <1>2, <1>4, <1>5
  <2>2. v.name.labels = <<>> /\ w.name.labels = <<>>
    BY <1>1, <2>1
  <2> QED BY <1>1, <1>3, <2>2
<1>6. CASE v.name # Default /\ w.name # Default
  <2>1. RoutingHost # NoHost /\ NameMatches(v.name, RoutingHost) /\ NameMatches(w.name, RoutingHost)
    BY <1>6 DEF Eligible
  <2>2. RoutingHost \in Seq(STRING)
    BY <2>1 DEF RoutingHost, Scenario, IsRequest
  <2>3. CASE v.name.wild
    <3>1. IsSuffix(v.name.labels, RoutingHost) /\ IsSuffix(w.name.labels, RoutingHost)
      BY <1>2, <2>1, <2>3 DEF NameMatches, IsStrictSuffix
    <3> PICK s \in Seq(STRING), t \in Seq(STRING), h \in Seq(STRING) :
          s = v.name.labels /\ t = w.name.labels /\ h = RoutingHost
      BY <1>1, <2>2
    <3>2. /\ \A i \in 1 .. Len(s) : s[i] = h[Len(h) - Len(s) + i]
          /\ \A i \in 1 .. Len(t) : t[i] = h[Len(h) - Len(t) + i]
      BY <3>1, SuffixLabels
    <3>3. Len(s) = Len(t)
      BY <1>2
    <3>4. ASSUME NEW i \in 1 .. Len(s) PROVE s[i] = t[i]
      <4>1. s[i] = h[Len(h) - Len(s) + i] /\ t[i] = h[Len(h) - Len(t) + i]
        BY <3>2, <3>3
      <4>2. Len(h) - Len(s) + i = Len(h) - Len(t) + i
        BY <3>3
      <4> QED BY <4>1, <4>2, Zenon
    <3>5. s = t
      BY <3>3, <3>4, SeqEqual
    <3> QED BY <1>1, <1>3, <3>5
  <2>4. CASE ~v.name.wild
    BY <1>1, <1>2, <1>3, <2>1, <2>4 DEF NameMatches
  <2> QED BY <2>3, <2>4
<1> QED BY <1>5, <1>6

EligibleHosts == {v \in vhosts : Eligible(v)}

\* s lists the virtual hosts that match, the best first.
Sorted(s) ==
  \A i, j \in DOMAIN s : i < j => Above(HostnameScore(s[i].name), HostnameScore(s[j].name))

\* The enumeration that the code sorts exists.
LEMMA SortedExists ==
  ASSUME Scenario
  PROVE  \E s \in SetToSeqs(EligibleHosts) : Sorted(s)
<1> DEFINE E == EligibleHosts
           n == Cardinality(E)
           score(v) == HostnameScore(v.name)
           R == {p \in E \X E : Above(score(p[1]), score(p[2]))}
           f == [x \in E |-> RankIn(R, E, x)]
<1>1. IsFiniteSet(E) /\ n \in Nat
  <2>1. IsFiniteSet(vhosts) /\ EligibleHosts \in SUBSET vhosts
    BY DEF Scenario, IsServers, EligibleHosts
  <2>2. IsFiniteSet(E)
    BY <2>1, FS_Subset
  <2> HIDE DEF E
  <2> QED BY <2>2, FS_CardinalityType
<1>2. \A v \in E : score(v) \in [1 .. 2 -> Nat]
  BY HostScores DEF Scenario, IsServers, EligibleHosts
<1>3. \A v, w \in E : score(v) = score(w) => v = w
  BY ScoresDiffer DEF EligibleHosts
<1>4. \A v, w \in E : <<v, w>> \in R <=> Above(score(v), score(w))
  OBVIOUS
<1> HIDE DEF E, score, R
<1>5. Orders(R, E)
  <2>1. \A v \in E : <<v, v>> \notin R
    BY <1>2, <1>4, AboveOrders
  <2>2. \A u, v, w \in E : <<u, v>> \in R /\ <<v, w>> \in R => <<u, w>> \in R
    <3> SUFFICES ASSUME NEW u \in E, NEW v \in E, NEW w \in E, <<u, v>> \in R, <<v, w>> \in R
                 PROVE  <<u, w>> \in R
      OBVIOUS
    <3>1. Above(score(u), score(v)) /\ Above(score(v), score(w))
      BY <1>4
    <3>2. Above(score(u), score(w))
      BY <1>2, <3>1, AboveTransitive
    <3> QED BY <1>4, <3>2
  <2>3. \A v, w \in E : v # w => <<v, w>> \in R \/ <<w, v>> \in R
    BY <1>2, <1>3, <1>4, AboveOrders
  <2> QED BY <2>1, <2>2, <2>3 DEF Orders
<1>6. f \in Bijection(E, 0 .. n - 1)
  BY <1>1, <1>5, RankBijection
<1>7. /\ f \in [E -> 0 .. n - 1]
      /\ \A v, w \in E : f[v] = f[w] => v = w
      /\ \A k \in 0 .. n - 1 : \E v \in E : f[v] = k
  BY <1>6 DEF Bijection, Injection, Surjection, IsInjective
<1>8. \A v, w \in E : <<v, w>> \in R => f[v] < f[w]
  BY <1>1, <1>5, RankGrows
<1> HIDE DEF f
<1> DEFINE s == [i \in 1 .. n |-> CHOOSE v \in E : f[v] = i - 1]
<1>9. \A i \in 1 .. n : s[i] \in E /\ f[s[i]] = i - 1
  <2> SUFFICES ASSUME NEW i \in 1 .. n PROVE s[i] \in E /\ f[s[i]] = i - 1
    OBVIOUS
  <2>1. i - 1 \in 0 .. n - 1
    BY <1>1
  <2>2. \E v \in E : f[v] = i - 1
    BY <1>7, <2>1
  <2> QED BY <2>2
<1>10. DOMAIN s = 1 .. n /\ s \in [1 .. n -> E]
  BY <1>9
<1> HIDE DEF s
<1>11. \A i, j \in 1 .. n : i # j => s[i] # s[j]
  BY <1>1, <1>9
<1>12. s \in SetToSeqs(E)
  BY <1>10, <1>11 DEF SetToSeqs
<1>13. ASSUME NEW i \in 1 .. n, NEW j \in 1 .. n, i < j PROVE Above(score(s[i]), score(s[j]))
  <2>1. s[i] \in E /\ s[j] \in E /\ s[i] # s[j] /\ f[s[i]] = i - 1 /\ f[s[j]] = j - 1
    BY <1>9, <1>11, <1>13
  <2>2. ~(<<s[j], s[i]>> \in R)
    <3>1. ~(f[s[j]] < f[s[i]])
      BY <1>1, <1>13, <2>1
    <3> QED BY <1>8, <2>1, <3>1
  <2>3. <<s[i], s[j]>> \in R
    BY <1>5, <2>1, <2>2 DEF Orders
  <2> QED BY <1>4, <2>1, <2>3
<1>14. Sorted(s)
  BY <1>10, <1>13 DEF Sorted, score
<1> QED BY <1>12, <1>14 DEF E

\* The candidates are the virtual hosts that match, the best first.
LEMMA CandidatesAre ==
  ASSUME Scenario
  PROVE  /\ Candidates \in Seq(EligibleHosts) /\ Sorted(Candidates)
         /\ \A v \in EligibleHosts : \E i \in 1 .. Len(Candidates) : Candidates[i] = v
<1> DEFINE E == EligibleHosts
           n == Cardinality(E)
<1>1. IsFiniteSet(E) /\ n \in Nat
  <2>1. IsFiniteSet(vhosts) /\ EligibleHosts \in SUBSET vhosts
    BY DEF Scenario, IsServers, EligibleHosts
  <2>2. IsFiniteSet(E)
    BY <2>1, FS_Subset
  <2> HIDE DEF E
  <2> QED BY <2>2, FS_CardinalityType
<1>2. Candidates \in SetToSeqs(E) /\ Sorted(Candidates)
  <2>1. Candidates = CHOOSE s \in SetToSeqs(E) : Sorted(s)
    BY DEF Candidates, Sorted, EligibleHosts
  <2>2. \E s \in SetToSeqs(E) : Sorted(s)
    BY SortedExists
  <2> HIDE DEF E
  <2> QED BY <2>1, <2>2
<1> HIDE DEF E
<1> PICK c : c = Candidates
  OBVIOUS
<1>3. c \in [1 .. n -> E] /\ \A i, j \in 1 .. n : i # j => c[i] # c[j]
  BY <1>2 DEF SetToSeqs
<1> HIDE DEF n
<1>4. c \in Seq(E) /\ Len(c) = n
  BY <1>1, <1>3
<1>5. IsFiniteSet(1 .. n) /\ Cardinality(1 .. n) = n
  <2>1. IsFiniteSet(1 .. n) /\ Cardinality(1 .. n) = IF 1 > n THEN 0 ELSE n - 1 + 1
    BY <1>1, FS_Interval
  <2> QED BY <1>1, <2>1
<1>6. c \in Surjection(1 .. n, E)
  <2>1. c \in Injection(1 .. n, E)
    BY <1>3 DEF Injection, IsInjective
  <2>2. Cardinality(1 .. n) = Cardinality(E) <=> c \in Surjection(1 .. n, E)
    <3> PICK T : T = 1 .. n
      OBVIOUS
    <3>1. c \in Injection(T, E)
      BY <2>1
    <3>2. Cardinality(T) = Cardinality(E) <=> c \in Surjection(T, E)
      BY <1>1, <3>1, FS_Injection
    <3> QED BY <3>2
  <2> QED BY <1>5, <2>2 DEF n
<1>7. \A v \in E : \E i \in 1 .. n : c[i] = v
  BY <1>6 DEF Surjection
<1> QED BY <1>2, <1>4, <1>7 DEF E

IsLocations(locations) ==
  \E S : locations \in Seq(S) /\ \A l \in S : IsLocation(l)

\* Each location is what the compiler lets through.
LEMMA LocationAt ==
  ASSUME NEW locations, IsLocations(locations)
  PROVE  /\ Len(locations) \in Nat /\ DOMAIN locations = 1 .. Len(locations)
         /\ \A i \in 1 .. Len(locations) : IsLocation(locations[i])
BY DEF IsLocations

\* An index of a set that a fold has still to visit.
LEMMA MaxIndex ==
  ASSUME NEW n \in Nat, NEW t \in SUBSET (1 .. n), t # {}
  PROVE  Max(t) \in 1 .. n /\ t \ {Max(t)} \in SUBSET (1 .. n)
<1>1. t \in SUBSET (0 .. n)
  OBVIOUS
<1> QED BY <1>1, MaxIs

-----------------------------------------------------------------------------
(* The best rule of a virtual host *)

RuleVisit(locations, best, i) ==
  IF Matches(locations[i])
     /\ (best = 0 \/ Above(MatchScore(locations[i]), MatchScore(locations[best])))
  THEN i ELSE best

\* The loop over the rules, rule by rule.
LEMMA RuleSteps ==
  ASSUME NEW locations, IsLocations(locations)
  PROVE  \E h : /\ h[0] = 0 /\ BestRule(locations) = h[Len(locations)]
                /\ \A k \in 1 .. Len(locations) : h[k] = RuleVisit(locations, h[k - 1], k)
<1> DEFINE n == Len(locations)
           Solves(f) ==
             f = [t \in SUBSET (1 .. n) |->
                    IF t = {} THEN 0 ELSE RuleVisit(locations, f[t \ {Max(t)}], Max(t))]
           step == [p \in (0 .. n) \X (1 .. n) |-> RuleVisit(locations, p[1], p[2])]
<1>1. n \in Nat /\ DOMAIN locations = 1 .. n
  BY LocationAt
<1> HIDE DEF n
<1>2. BestRule(locations) = (CHOOSE f : Solves(f))[1 .. n]
  <2> DEFINE id == [i \in 1 .. n |-> i]
             Folds(f) ==
               f = [t \in SUBSET (DOMAIN id) |->
                      IF t = {} THEN 0 ELSE RuleVisit(locations, f[t \ {Max(t)}], id[Max(t)])]
  <2>1. BestRule(locations) = (CHOOSE f : Folds(f))[DOMAIN id]
    BY <1>1 DEF BestRule, FoldLeftDomain, FoldLeft, MapThenFoldSet, RuleVisit
  <2>2. DOMAIN id = 1 .. n
    OBVIOUS
  <2>3. \A t \in SUBSET (1 .. n) : t # {} => id[Max(t)] = Max(t)
    BY <1>1, MaxIndex
  <2> HIDE DEF id
  <2>4. \A f : Folds(f) <=> Solves(f)
    BY <2>2, <2>3
  <2> HIDE DEF Folds, Solves
  <2>5. (CHOOSE f : Folds(f)) = (CHOOSE f : Solves(f))
    BY <2>4
  <2> QED BY <2>1, <2>2, <2>5
<1>3. step \in [(0 .. n) \X (1 .. n) -> 0 .. n]
  BY <1>1 DEF RuleVisit
<1>4. PICK g \in [SUBSET (1 .. n) -> 0 .. n] : IsFold(g, n, 0, step)
  <2> HIDE DEF step
  <2>1. 0 \in 0 .. n
    BY <1>1
  <2>2. PICK D : D = 0 .. n
    OBVIOUS
  <2>3. \E g \in [SUBSET (1 .. n) -> D] : IsFold(g, n, 0, step)
    BY <1>1, <1>3, <2>1, <2>2, FoldExists
  <2> QED BY <2>2, <2>3
<1>5. \A t \in SUBSET (1 .. n) :
        t # {} => step[<<g[t \ {Max(t)}], Max(t)>>] = RuleVisit(locations, g[t \ {Max(t)}], Max(t))
  BY <1>1, MaxIndex
<1>6. Solves(g)
  <2> HIDE DEF step
  <2>1. g = [t \in SUBSET (1 .. n) |->
               IF t = {} THEN 0 ELSE RuleVisit(locations, g[t \ {Max(t)}], Max(t))]
    BY <1>4, <1>5 DEF IsFold
  <2> QED BY <2>1, Zenon
<1>7. PICK f : Solves(f) /\ BestRule(locations) = f[1 .. n]
  <2>1. Solves(CHOOSE f : Solves(f))
    <3> HIDE DEF Solves
    <3> QED BY <1>6, Zenon
  <2> HIDE DEF Solves
  <2> QED BY <1>2, <2>1, Zenon
<1> DEFINE h == [k \in 0 .. n |-> f[1 .. k]]
<1>8. h[0] = 0 /\ h[n] = f[1 .. n]
  <2>1. (1 .. 0) = {} /\ {} \in SUBSET (1 .. n)
    OBVIOUS
  <2>2. f[{}] = 0
    BY <1>7, <2>1
  <2>3. 0 \in 0 .. n /\ n \in 0 .. n
    BY <1>1
  <2>4. h[0] = f[1 .. 0] /\ h[n] = f[1 .. n]
    BY <2>3
  <2> QED BY <2>1, <2>2, <2>4
<1>9. ASSUME NEW k \in 1 .. n PROVE h[k] = RuleVisit(locations, h[k - 1], k)
  <2>1. /\ (1 .. k) \in SUBSET (1 .. n) /\ (1 .. k) # {}
        /\ Max(1 .. k) = k /\ (1 .. k) \ {Max(1 .. k)} = 1 .. (k - 1)
    BY <1>1, InitialPart
  <2>2. f[1 .. k] = RuleVisit(locations, f[(1 .. k) \ {Max(1 .. k)}], Max(1 .. k))
    BY <1>7, <2>1
  <2>3. k \in 0 .. n /\ k - 1 \in 0 .. n
    BY <1>1
  <2>4. h[k] = f[1 .. k] /\ h[k - 1] = f[1 .. (k - 1)]
    BY <2>3
  <2> QED BY <2>1, <2>2, <2>4
<1> HIDE DEF h
<1> QED BY <1>7, <1>8, <1>9 DEF n

\* What is trimmed are slashes, and no other is at the end then.
LEMMA TrimIs ==
  ASSUME NEW p \in Seq(STRING)
  PROVE  /\ Trim(p) \in Seq(STRING) /\ Len(Trim(p)) <= Len(p)
         /\ \A i \in 1 .. Len(Trim(p)) : Trim(p)[i] = p[i]
         /\ \A i \in 1 .. Len(p) : i > Len(Trim(p)) => p[i] = "/"
         /\ Trim(p) # <<>> => Trim(p)[Len(Trim(p))] # "/"
<1> DEFINE keep == {i \in DOMAIN p : p[i] # "/"}
<1>1. keep \in SUBSET (0 .. Len(p)) /\ keep \in SUBSET (1 .. Len(p)) /\ Len(p) \in Nat
  OBVIOUS
<1>2. CASE keep = {}
  <2>1. Trim(p) = <<>>
    BY <1>2 DEF Trim
  <2>2. \A i \in 1 .. Len(p) : p[i] = "/"
    BY <1>2
  <2> QED BY <2>1, <2>2
<1>3. CASE keep # {}
  <2>1. Max(keep) \in keep /\ \A y \in keep : y <= Max(keep)
    <3> HIDE DEF keep
    <3> QED BY <1>1, <1>3, MaxIs
  <2>0. /\ \A i \in keep : i \in 1 .. Len(p) /\ p[i] # "/"
        /\ \A i \in 1 .. Len(p) : i \notin keep => p[i] = "/"
    OBVIOUS
  <2>2. PICK m \in 1 .. Len(p) : m = Max(keep) /\ p[m] # "/" /\ \A i \in keep : i <= m
    <3> HIDE DEF keep
    <3> QED BY <2>0, <2>1
  <2>3. Trim(p) = SubSeq(p, 1, m)
    BY <1>3, <2>2 DEF Trim
  <2>4. /\ SubSeq(p, 1, m) \in Seq(STRING) /\ Len(SubSeq(p, 1, m)) = m
        /\ \A i \in 1 .. m : SubSeq(p, 1, m)[i] = p[i]
    OBVIOUS
  <2>5. \A i \in 1 .. Len(p) : i > m => p[i] = "/"
    <3> SUFFICES ASSUME NEW i \in 1 .. Len(p), i > m PROVE p[i] = "/"
      OBVIOUS
    <3> HIDE DEF keep
    <3>1. i \notin keep
      BY <2>2
    <3> QED BY <2>0, <3>1
  <2> HIDE DEF keep
  <2>6. PICK t : t = Trim(p)
    OBVIOUS
  <2>7. /\ t \in Seq(STRING) /\ Len(t) = m /\ \A i \in 1 .. m : t[i] = p[i]
    BY <2>3, <2>4, <2>6
  <2>8. t[Len(t)] # "/" /\ m <= Len(p)
    BY <2>2, <2>7
  <2> QED BY <2>5, <2>6, <2>7, <2>8
<1> QED BY <1>2, <1>3

\* The score of a rule is a tuple of five numbers.
LEMMA MatchScores ==
  ASSUME NEW l, IsLocation(l)
  PROVE  MatchScore(l) \in [1 .. 5 -> Nat]
<1>1. Compiled(l) \in Seq(STRING)
  <2>1. l.path \in Seq(STRING)
    BY DEF IsLocation
  <2>2. Trim(l.path) \in Seq(STRING)
    BY <2>1, TrimIs
  <2>3. ASSUME l.kind = "http_prefix" PROVE <<"/">> \in Seq(STRING)
    <3>1. l.path \in Seq(STRING) /\ l.path # <<>> /\ l.path[1] = "/"
      BY <2>3 DEF IsLocation, Absolute, HttpKinds
    <3>2. "/" \in STRING
      BY <3>1
    <3> QED BY <3>2
  <2> QED BY <2>1, <2>2, <2>3, Zenon DEF Compiled
<1>2. Len(Compiled(l)) \in Nat
  BY <1>1
<1>3. Cardinality(l.headers) \in Nat /\ Cardinality(l.query) \in Nat
  BY FS_CardinalityType DEF IsLocation
<1> QED BY <1>2, <1>3 DEF MatchScore

\* The rule b is the best of the first k ones, 0 if none of them matches.
BestOfRules(locations, k, b) ==
  /\ b \in 0 .. k
  /\ b = 0 => \A i \in 1 .. k : ~Matches(locations[i])
  /\ b # 0 =>
       /\ Matches(locations[b])
       /\ \A i \in 1 .. k : Matches(locations[i]) =>
            \/ Above(MatchScore(locations[b]), MatchScore(locations[i]))
            \/ MatchScore(locations[b]) = MatchScore(locations[i]) /\ b <= i

\* The loop keeps the best of the rules it has seen.
LEMMA RuleVisitKeeps ==
  ASSUME NEW locations, IsLocations(locations), NEW k \in 1 .. Len(locations), NEW b,
         BestOfRules(locations, k - 1, b)
  PROVE  BestOfRules(locations, k, RuleVisit(locations, b, k))
<1> DEFINE S(i) == MatchScore(locations[i])
           c == RuleVisit(locations, b, k)
<1>1. Len(locations) \in Nat /\ \A i \in 1 .. Len(locations) : S(i) \in [1 .. 5 -> Nat]
  BY LocationAt, MatchScores
<1>2. b \in 0 .. k - 1 /\ k \in Nat
  BY <1>1 DEF BestOfRules
<1>3. CASE ~Matches(locations[k])
  <2>1. c = b
    BY <1>3 DEF RuleVisit
  <2>2. \A i \in 1 .. k : i = k \/ i \in 1 .. k - 1
    BY <1>2
  <2> QED BY <1>2, <1>3, <2>1, <2>2 DEF BestOfRules
<1>4. CASE Matches(locations[k]) /\ b = 0
  <2>1. c = k
    BY <1>4 DEF RuleVisit
  <2>2. \A i \in 1 .. k : i = k \/ ~Matches(locations[i])
    BY <1>2, <1>4 DEF BestOfRules
  <2> QED BY <1>2, <1>4, <2>1, <2>2 DEF BestOfRules
<1>5. CASE Matches(locations[k]) /\ b # 0
  <2>1. b \in 1 .. Len(locations) /\ k \in 1 .. Len(locations) /\ b < k /\ Matches(locations[b])
    BY <1>1, <1>2, <1>5 DEF BestOfRules
  <2>2. \A i \in 1 .. k - 1 : Matches(locations[i]) =>
          Above(S(b), S(i)) \/ (S(b) = S(i) /\ b <= i)
    BY <1>5 DEF BestOfRules
  <2>3. CASE Above(S(k), S(b))
    <3>1. c = k
      BY <1>5, <2>3 DEF RuleVisit
    <3>2. ASSUME NEW i \in 1 .. k, Matches(locations[i]) PROVE Above(S(k), S(i)) \/ (S(k) = S(i) /\ k <= i)
      <4>1. CASE i = k
        BY <1>2, <4>1
      <4>2. CASE i # k
        <5>1. i \in 1 .. k - 1 /\ i \in 1 .. Len(locations)
          BY <1>1, <1>2, <4>2
        <5>2. Above(S(b), S(i)) \/ S(b) = S(i)
          BY <2>2, <3>2, <5>1
        <5>3. S(k) \in [1 .. 5 -> Nat] /\ S(b) \in [1 .. 5 -> Nat] /\ S(i) \in [1 .. 5 -> Nat]
          BY <1>1, <2>1, <5>1
        <5> HIDE DEF S
        <5>4. CASE S(b) = S(i)
          BY <2>3, <5>4
        <5>5. CASE Above(S(b), S(i))
          BY <2>3, <5>3, <5>5, AboveTransitive
        <5> QED BY <5>2, <5>4, <5>5
      <4> QED BY <4>1, <4>2
    <3> QED BY <1>2, <1>5, <3>1, <3>2 DEF BestOfRules
  <2>4. CASE ~Above(S(k), S(b))
    <3>1. c = b
      BY <1>5, <2>4 DEF RuleVisit
    <3>2. Above(S(b), S(k)) \/ S(b) = S(k)
      <4>1. S(k) \in [1 .. 5 -> Nat] /\ S(b) \in [1 .. 5 -> Nat]
        BY <1>1, <2>1
      <4> HIDE DEF S
      <4> QED BY <2>4, <4>1, AboveOrders
    <3>3. ASSUME NEW i \in 1 .. k, Matches(locations[i]) PROVE Above(S(b), S(i)) \/ (S(b) = S(i) /\ b <= i)
      <4>1. CASE i = k
        BY <2>1, <3>2, <4>1
      <4>2. CASE i # k
        <5>1. i \in 1 .. k - 1
          BY <1>2, <4>2
        <5> QED BY <2>2, <3>3, <5>1
      <4> QED BY <4>1, <4>2
    <3> QED BY <1>2, <1>5, <2>1, <3>1, <3>3 DEF BestOfRules
  <2> QED BY <2>3, <2>4
<1> QED BY <1>3, <1>4, <1>5

\* After the loop it is the best of all.
LEMMA BestRuleIs ==
  ASSUME NEW locations, IsLocations(locations)
  PROVE  BestOfRules(locations, Len(locations), BestRule(locations))
<1> DEFINE n == Len(locations)
<1>1. n \in Nat
  BY LocationAt
<1>2. PICK h : /\ h[0] = 0 /\ BestRule(locations) = h[n]
               /\ \A k \in 1 .. n : h[k] = RuleVisit(locations, h[k - 1], k)
  BY RuleSteps
<1> DEFINE bad == {k \in 0 .. n : ~BestOfRules(locations, k, h[k])}
<1>3. bad = {}
  <2> SUFFICES ASSUME bad # {} PROVE FALSE
    OBVIOUS
  <2>1. PICK k \in bad : \A j \in bad : k <= j
    <3>1. bad \in SUBSET Nat
      OBVIOUS
    <3> HIDE DEF bad
    <3> QED BY <3>1, LeastNat
  <2>2. k \in 0 .. n /\ ~BestOfRules(locations, k, h[k])
    BY <2>1
  <2>3. k # 0
    <3>1. BestOfRules(locations, 0, 0)
      BY DEF BestOfRules
    <3> QED BY <1>2, <2>2, <3>1
  <2>4. k \in 1 .. n /\ k - 1 \in 0 .. n /\ k - 1 \notin bad
    <3>1. \A j \in bad : j \in Nat
      OBVIOUS
    <3> HIDE DEF bad, n
    <3> QED BY <1>1, <2>1, <2>2, <2>3, <3>1
  <2>5. BestOfRules(locations, k - 1, h[k - 1])
    BY <2>4
  <2> HIDE DEF bad
  <2> QED BY <1>2, <2>2, <2>4, <2>5, RuleVisitKeeps
<1>4. n \in 0 .. n /\ n \notin bad
  <2> HIDE DEF bad, n
  <2> QED BY <1>1, <1>3
<1> QED BY <1>2, <1>4

-----------------------------------------------------------------------------
(* The first virtual host that answers *)

NotFound == [found |-> 0, stop |-> FALSE]
HttpStates(n) == [found : 0 .. n, stop : BOOLEAN]
HttpVisit(candidates, acc, i) ==
  IF acc.stop THEN acc
  ELSE IF ~IsHttp(candidates[i]) THEN [acc EXCEPT !.stop = TRUE]
  ELSE IF BestRule(candidates[i].locations) # 0 THEN [found |-> i, stop |-> TRUE]
  ELSE acc

\* The states of the search for an HTTP rule.
LEMMA HttpVisitType ==
  ASSUME NEW n \in Nat
  PROVE  /\ NotFound \in HttpStates(n)
         /\ \A candidates : \A acc \in HttpStates(n), i \in 1 .. n :
              HttpVisit(candidates, acc, i) \in HttpStates(n)
<1>1. NotFound \in HttpStates(n)
  BY DEF NotFound, HttpStates
<1>2. ASSUME NEW candidates, NEW acc \in HttpStates(n), NEW i \in 1 .. n
      PROVE  HttpVisit(candidates, acc, i) \in HttpStates(n)
  <2>1. acc \in HttpStates(n) /\ [acc EXCEPT !.stop = TRUE] \in HttpStates(n)
    BY DEF HttpStates
  <2>2. [found |-> i, stop |-> TRUE] \in HttpStates(n)
    BY DEF HttpStates
  <2> QED BY <2>1, <2>2, Zenon DEF HttpVisit
<1> QED BY <1>1, <1>2

FoldHttp(candidates) ==
  FoldLeftDomain(LAMBDA acc, i : HttpVisit(candidates, acc, i), NotFound, candidates)

\* The search, virtual host by virtual host.
LEMMA HttpSteps ==
  ASSUME NEW S, NEW candidates \in Seq(S)
  PROVE  \E h : /\ h[0] = NotFound /\ FoldHttp(candidates) = h[Len(candidates)]
                /\ \A k \in 1 .. Len(candidates) : h[k] = HttpVisit(candidates, h[k - 1], k)
<1> DEFINE n == Len(candidates)
           Solves(f) ==
             f = [t \in SUBSET (1 .. n) |->
                    IF t = {} THEN NotFound ELSE HttpVisit(candidates, f[t \ {Max(t)}], Max(t))]
           step == [p \in HttpStates(n) \X (1 .. n) |-> HttpVisit(candidates, p[1], p[2])]
<1>1. n \in Nat /\ DOMAIN candidates = 1 .. n
  OBVIOUS
<1> HIDE DEF n
<1>2. FoldHttp(candidates) = (CHOOSE f : Solves(f))[1 .. n]
  <2> DEFINE id == [i \in 1 .. n |-> i]
             Folds(f) ==
               f = [t \in SUBSET (DOMAIN id) |->
                      IF t = {} THEN NotFound ELSE HttpVisit(candidates, f[t \ {Max(t)}], id[Max(t)])]
  <2>1. FoldHttp(candidates) = (CHOOSE f : Folds(f))[DOMAIN id]
    BY <1>1 DEF FoldHttp, FoldLeftDomain, FoldLeft, MapThenFoldSet, HttpVisit, NotFound
  <2>2. DOMAIN id = 1 .. n
    OBVIOUS
  <2>3. \A t \in SUBSET (1 .. n) : t # {} => id[Max(t)] = Max(t)
    BY <1>1, MaxIndex
  <2> HIDE DEF id
  <2>4. \A f : Folds(f) <=> Solves(f)
    BY <2>2, <2>3
  <2> HIDE DEF Folds, Solves
  <2>5. (CHOOSE f : Folds(f)) = (CHOOSE f : Solves(f))
    BY <2>4
  <2> QED BY <2>1, <2>2, <2>5
<1>3. step \in [HttpStates(n) \X (1 .. n) -> HttpStates(n)]
  BY <1>1, HttpVisitType
<1>4. PICK g \in [SUBSET (1 .. n) -> HttpStates(n)] : IsFold(g, n, NotFound, step)
  <2> HIDE DEF step
  <2>1. NotFound \in HttpStates(n)
    BY <1>1, HttpVisitType
  <2>2. PICK D : D = HttpStates(n)
    OBVIOUS
  <2>3. \E g \in [SUBSET (1 .. n) -> D] : IsFold(g, n, NotFound, step)
    BY <1>1, <1>3, <2>1, <2>2, FoldExists
  <2> QED BY <2>2, <2>3
<1>5. \A t \in SUBSET (1 .. n) :
        t # {} => step[<<g[t \ {Max(t)}], Max(t)>>] = HttpVisit(candidates, g[t \ {Max(t)}], Max(t))
  BY <1>1, MaxIndex
<1>6. Solves(g)
  <2> HIDE DEF step
  <2>1. g = [t \in SUBSET (1 .. n) |->
               IF t = {} THEN NotFound ELSE HttpVisit(candidates, g[t \ {Max(t)}], Max(t))]
    BY <1>4, <1>5 DEF IsFold
  <2> QED BY <2>1, Zenon
<1>7. PICK f : Solves(f) /\ FoldHttp(candidates) = f[1 .. n]
  <2>1. Solves(CHOOSE f : Solves(f))
    <3> HIDE DEF Solves
    <3> QED BY <1>6, Zenon
  <2> HIDE DEF Solves
  <2> QED BY <1>2, <2>1, Zenon
<1> DEFINE h == [k \in 0 .. n |-> f[1 .. k]]
<1>8. h[0] = NotFound /\ h[n] = f[1 .. n]
  <2>1. (1 .. 0) = {} /\ {} \in SUBSET (1 .. n)
    OBVIOUS
  <2>2. f[{}] = NotFound
    BY <1>7, <2>1
  <2>3. 0 \in 0 .. n /\ n \in 0 .. n
    BY <1>1
  <2>4. h[0] = f[1 .. 0] /\ h[n] = f[1 .. n]
    BY <2>3
  <2> QED BY <2>1, <2>2, <2>4
<1>9. ASSUME NEW k \in 1 .. n PROVE h[k] = HttpVisit(candidates, h[k - 1], k)
  <2>1. /\ (1 .. k) \in SUBSET (1 .. n) /\ (1 .. k) # {}
        /\ Max(1 .. k) = k /\ (1 .. k) \ {Max(1 .. k)} = 1 .. (k - 1)
    BY <1>1, InitialPart
  <2>2. f[1 .. k] = HttpVisit(candidates, f[(1 .. k) \ {Max(1 .. k)}], Max(1 .. k))
    BY <1>7, <2>1
  <2>3. k \in 0 .. n /\ k - 1 \in 0 .. n
    BY <1>1
  <2>4. h[k] = f[1 .. k] /\ h[k - 1] = f[1 .. (k - 1)]
    BY <2>3
  <2> QED BY <2>1, <2>2, <2>4
<1> HIDE DEF h
<1> QED BY <1>7, <1>8, <1>9 DEF n

\* Where the search is after k virtual hosts.
Searched(candidates, k, acc) ==
  /\ acc \in HttpStates(k)
  /\ acc.found # 0 =>
       /\ acc.stop
       /\ IsHttp(candidates[acc.found]) /\ BestRule(candidates[acc.found].locations) # 0
       /\ \A j \in 1 .. acc.found - 1 : BestRule(candidates[j].locations) = 0
  /\ acc.found = 0 /\ ~acc.stop => \A j \in 1 .. k : BestRule(candidates[j].locations) = 0
  /\ acc.found = 0 /\ acc.stop => \E j \in 1 .. k : ~IsHttp(candidates[j])

\* The search stops at the first virtual host that ends it.
LEMMA HttpVisitKeeps ==
  ASSUME NEW candidates, NEW k \in Nat, k # 0, NEW acc, Searched(candidates, k - 1, acc)
  PROVE  Searched(candidates, k, HttpVisit(candidates, acc, k))
<1> DEFINE next == HttpVisit(candidates, acc, k)
<1>1. acc \in HttpStates(k - 1) /\ acc \in HttpStates(k)
  BY DEF Searched, HttpStates
<1>2. acc.found \in 0 .. k - 1 /\ acc.stop \in BOOLEAN
  BY <1>1 DEF HttpStates
<1>3. CASE acc.stop
  <2>1. next = acc
    BY <1>3 DEF HttpVisit
  <2>2. Searched(candidates, k, acc)
    BY <1>1, <1>2, <1>3 DEF Searched
  <2> QED BY <2>1, <2>2
<1>4. CASE ~acc.stop /\ ~IsHttp(candidates[k])
  <2>1. next = [found |-> acc.found, stop |-> TRUE]
    BY <1>1, <1>4 DEF HttpVisit, HttpStates
  <2>2. acc.found = 0
    BY <1>4 DEF Searched
  <2>3. PICK q : q = next
    OBVIOUS
  <2>4. q \in HttpStates(k) /\ q.found = 0 /\ q.stop
    BY <2>1, <2>2, <2>3 DEF HttpStates
  <2>5. Searched(candidates, k, q)
    BY <1>4, <2>4 DEF Searched
  <2> QED BY <2>3, <2>5
<1>5. CASE ~acc.stop /\ IsHttp(candidates[k]) /\ BestRule(candidates[k].locations) # 0
  <2>1. next = [found |-> k, stop |-> TRUE]
    BY <1>5 DEF HttpVisit
  <2>2. acc.found = 0
    BY <1>5 DEF Searched
  <2>3. PICK q : q = next
    OBVIOUS
  <2>4. q \in HttpStates(k) /\ q.found = k /\ q.stop
    BY <2>1, <2>3 DEF HttpStates
  <2>5. \A j \in 1 .. k - 1 : BestRule(candidates[j].locations) = 0
    BY <1>5, <2>2 DEF Searched
  <2>6. Searched(candidates, k, q)
    BY <1>5, <2>4, <2>5 DEF Searched
  <2> QED BY <2>3, <2>6
<1>6. CASE ~acc.stop /\ IsHttp(candidates[k]) /\ BestRule(candidates[k].locations) = 0
  <2>1. next = acc
    BY <1>6 DEF HttpVisit
  <2>2. acc.found = 0
    BY <1>6 DEF Searched
  <2>3. \A j \in 1 .. k : BestRule(candidates[j].locations) = 0
    BY <1>6, <2>2 DEF Searched
  <2>4. Searched(candidates, k, acc)
    BY <1>1, <1>6, <2>2, <2>3 DEF Searched
  <2> QED BY <2>1, <2>4
<1> QED BY <1>3, <1>4, <1>5, <1>6

\* Which virtual host answers: the first with a rule that matches; or none of those
\* before the first one with locations of nginx has one.
LEMMA FirstHttpIs ==
  ASSUME NEW S, NEW candidates \in Seq(S)
  PROVE  /\ FirstHttp(candidates) \in 0 .. Len(candidates)
         /\ FirstHttp(candidates) # 0 =>
              /\ IsHttp(candidates[FirstHttp(candidates)])
              /\ BestRule(candidates[FirstHttp(candidates)].locations) # 0
              /\ \A j \in 1 .. FirstHttp(candidates) - 1 : BestRule(candidates[j].locations) = 0
         /\ FirstHttp(candidates) = 0 =>
              \/ \E j \in 1 .. Len(candidates) : ~IsHttp(candidates[j])
              \/ \A j \in 1 .. Len(candidates) : BestRule(candidates[j].locations) = 0
<1> DEFINE n == Len(candidates)
<1>1. n \in Nat
  OBVIOUS
<1>2. PICK h : /\ h[0] = NotFound /\ FoldHttp(candidates) = h[n]
               /\ \A k \in 1 .. n : h[k] = HttpVisit(candidates, h[k - 1], k)
  BY HttpSteps
<1> DEFINE bad == {k \in 0 .. n : ~Searched(candidates, k, h[k])}
<1>3. bad = {}
  <2> SUFFICES ASSUME bad # {} PROVE FALSE
    OBVIOUS
  <2>1. PICK k \in bad : \A j \in bad : k <= j
    <3>1. bad \in SUBSET Nat
      OBVIOUS
    <3> HIDE DEF bad
    <3> QED BY <3>1, LeastNat
  <2>2. k \in 0 .. n /\ ~Searched(candidates, k, h[k])
    BY <2>1
  <2>3. k # 0
    <3>1. Searched(candidates, 0, NotFound)
      BY DEF Searched, NotFound, HttpStates
    <3> QED BY <1>2, <2>2, <3>1
  <2>4. k \in 1 .. n /\ k - 1 \in 0 .. n /\ k - 1 \notin bad
    <3>1. \A j \in bad : j \in Nat
      OBVIOUS
    <3> HIDE DEF bad, n
    <3> QED BY <1>1, <2>1, <2>2, <2>3, <3>1
  <2>5. Searched(candidates, k - 1, h[k - 1])
    BY <2>4
  <2> HIDE DEF bad
  <2> QED BY <1>2, <2>2, <2>4, <2>5, HttpVisitKeeps
<1>4. n \in 0 .. n /\ n \notin bad
  <2> HIDE DEF bad, n
  <2> QED BY <1>1, <1>3
<1>5. PICK q : q = FoldHttp(candidates) /\ Searched(candidates, n, q)
  BY <1>2, <1>4
<1>6. FirstHttp(candidates) = q.found
  BY <1>5 DEF FirstHttp, FoldHttp, HttpVisit, NotFound
<1>7. q.found \in 0 .. n /\ q.stop \in BOOLEAN
  BY <1>5 DEF Searched, HttpStates
<1> QED BY <1>5, <1>6, <1>7 DEF Searched

-----------------------------------------------------------------------------
(* The locations of nginx *)

NoScan == [exact |-> 0, prefix |-> NoBest, prefer |-> NoBest]
Bests(n) == [index : 0 .. n, len : Nat]
Scans(n) == [exact : 0 .. n, prefix : Bests(n), prefer : Bests(n)]
ScanVisit(locations, path, acc, i) ==
  LET l == locations[i]
      best == [index |-> i, len |-> Len(l.path)]
  IN IF acc.exact # 0 THEN acc
     ELSE IF l.kind = "exact" /\ l.path = path THEN [acc EXCEPT !.exact = i]
     ELSE IF l.kind = "prefix" /\ Better(l, acc.prefix, path)
          THEN [acc EXCEPT !.prefix = best]
     ELSE IF l.kind = "prefer" /\ Better(l, acc.prefer, path)
          THEN [acc EXCEPT !.prefer = best]
     ELSE acc

\* The states of the first loop of select_route_target.
LEMMA ScanVisitType ==
  ASSUME NEW n \in Nat, NEW locations, IsLocations(locations), Len(locations) = n, NEW path
  PROVE  /\ NoScan \in Scans(n)
         /\ \A acc \in Scans(n), i \in 1 .. n : ScanVisit(locations, path, acc, i) \in Scans(n)
<1>1. NoScan \in Scans(n)
  BY DEF NoScan, NoBest, Scans, Bests
<1>2. ASSUME NEW acc \in Scans(n), NEW i \in 1 .. n
      PROVE  ScanVisit(locations, path, acc, i) \in Scans(n)
  <2>1. locations[i].path \in Seq(STRING)
    BY LocationAt DEF IsLocation
  <2>2. PICK best \in Bests(n) : best = [index |-> i, len |-> Len(locations[i].path)]
    <3>1. i \in 0 .. n /\ Len(locations[i].path) \in Nat
      BY <2>1
    <3>2. [index |-> i, len |-> Len(locations[i].path)] \in Bests(n)
      BY <3>1 DEF Bests
    <3> QED BY <3>2
  <2>3. /\ [acc EXCEPT !.exact = i] \in Scans(n) /\ [acc EXCEPT !.prefix = best] \in Scans(n)
        /\ [acc EXCEPT !.prefer = best] \in Scans(n)
    BY DEF Scans
  <2> QED BY <2>2, <2>3, Zenon DEF ScanVisit
<1> QED BY <1>1, <1>2

\* The first loop, location by location.
LEMMA ScanSteps ==
  ASSUME NEW locations, IsLocations(locations), NEW path
  PROVE  \E h : /\ h[0] = NoScan /\ ScanPrefixes(locations, path) = h[Len(locations)]
                /\ \A k \in 1 .. Len(locations) : h[k] = ScanVisit(locations, path, h[k - 1], k)
<1> DEFINE n == Len(locations)
           Solves(f) ==
             f = [t \in SUBSET (1 .. n) |->
                    IF t = {} THEN NoScan ELSE ScanVisit(locations, path, f[t \ {Max(t)}], Max(t))]
           step == [p \in Scans(n) \X (1 .. n) |-> ScanVisit(locations, path, p[1], p[2])]
<1>1. n \in Nat /\ DOMAIN locations = 1 .. n
  BY LocationAt
<1> HIDE DEF n
<1>2. ScanPrefixes(locations, path) = (CHOOSE f : Solves(f))[1 .. n]
  <2> DEFINE id == [i \in 1 .. n |-> i]
             Folds(f) ==
               f = [t \in SUBSET (DOMAIN id) |->
                      IF t = {} THEN NoScan ELSE ScanVisit(locations, path, f[t \ {Max(t)}], id[Max(t)])]
  <2>1. ScanPrefixes(locations, path) = (CHOOSE f : Folds(f))[DOMAIN id]
    BY <1>1 DEF ScanPrefixes, FoldLeftDomain, FoldLeft, MapThenFoldSet, ScanVisit, NoScan
  <2>2. DOMAIN id = 1 .. n
    OBVIOUS
  <2>3. \A t \in SUBSET (1 .. n) : t # {} => id[Max(t)] = Max(t)
    BY <1>1, MaxIndex
  <2> HIDE DEF id
  <2>4. \A f : Folds(f) <=> Solves(f)
    BY <2>2, <2>3
  <2> HIDE DEF Folds, Solves
  <2>5. (CHOOSE f : Folds(f)) = (CHOOSE f : Solves(f))
    BY <2>4
  <2> QED BY <2>1, <2>2, <2>5
<1>3. step \in [Scans(n) \X (1 .. n) -> Scans(n)]
  BY <1>1, ScanVisitType DEF n
<1>4. PICK g \in [SUBSET (1 .. n) -> Scans(n)] : IsFold(g, n, NoScan, step)
  <2> HIDE DEF step
  <2>1. NoScan \in Scans(n)
    BY <1>1, ScanVisitType DEF n
  <2>2. PICK D : D = Scans(n)
    OBVIOUS
  <2>3. \E g \in [SUBSET (1 .. n) -> D] : IsFold(g, n, NoScan, step)
    BY <1>1, <1>3, <2>1, <2>2, FoldExists
  <2> QED BY <2>2, <2>3
<1>5. \A t \in SUBSET (1 .. n) :
        t # {} => step[<<g[t \ {Max(t)}], Max(t)>>] = ScanVisit(locations, path, g[t \ {Max(t)}], Max(t))
  BY <1>1, MaxIndex
<1>6. Solves(g)
  <2> HIDE DEF step
  <2>1. g = [t \in SUBSET (1 .. n) |->
               IF t = {} THEN NoScan ELSE ScanVisit(locations, path, g[t \ {Max(t)}], Max(t))]
    BY <1>4, <1>5 DEF IsFold
  <2> QED BY <2>1, Zenon
<1>7. PICK f : Solves(f) /\ ScanPrefixes(locations, path) = f[1 .. n]
  <2>1. Solves(CHOOSE f : Solves(f))
    <3> HIDE DEF Solves
    <3> QED BY <1>6, Zenon
  <2> HIDE DEF Solves
  <2> QED BY <1>2, <2>1, Zenon
<1> DEFINE h == [k \in 0 .. n |-> f[1 .. k]]
<1>8. h[0] = NoScan /\ h[n] = f[1 .. n]
  <2>1. (1 .. 0) = {} /\ {} \in SUBSET (1 .. n)
    OBVIOUS
  <2>2. f[{}] = NoScan
    BY <1>7, <2>1
  <2>3. 0 \in 0 .. n /\ n \in 0 .. n
    BY <1>1
  <2>4. h[0] = f[1 .. 0] /\ h[n] = f[1 .. n]
    BY <2>3
  <2> QED BY <2>1, <2>2, <2>4
<1>9. ASSUME NEW k \in 1 .. n PROVE h[k] = ScanVisit(locations, path, h[k - 1], k)
  <2>1. /\ (1 .. k) \in SUBSET (1 .. n) /\ (1 .. k) # {}
        /\ Max(1 .. k) = k /\ (1 .. k) \ {Max(1 .. k)} = 1 .. (k - 1)
    BY <1>1, InitialPart
  <2>2. f[1 .. k] = ScanVisit(locations, path, f[(1 .. k) \ {Max(1 .. k)}], Max(1 .. k))
    BY <1>7, <2>1
  <2>3. k \in 0 .. n /\ k - 1 \in 0 .. n
    BY <1>1
  <2>4. h[k] = f[1 .. k] /\ h[k - 1] = f[1 .. (k - 1)]
    BY <2>3
  <2> QED BY <2>1, <2>2, <2>4
<1> HIDE DEF h
<1> QED BY <1>7, <1>8, <1>9 DEF n

\* Location j is of the kind and its path begins the request's.
HasPrefix(locations, path, kind, j) ==
  locations[j].kind = kind /\ IsPrefix(locations[j].path, path)

IsExact(locations, path, j) == locations[j].kind = "exact" /\ locations[j].path = path

\* best is the first of the longest prefixes of a kind among the first k locations.
BestPrefix(locations, path, kind, k, best) ==
  /\ best \in Bests(k)
  /\ best.index = 0 =>
       best = NoBest /\ \A j \in 1 .. k : ~HasPrefix(locations, path, kind, j)
  /\ best.index # 0 =>
       /\ HasPrefix(locations, path, kind, best.index)
       /\ best.len = Len(locations[best.index].path)
       /\ \A j \in 1 .. k : HasPrefix(locations, path, kind, j) =>
            \/ best.len > Len(locations[j].path)
            \/ best.len = Len(locations[j].path) /\ best.index <= j

\* What the first loop knows after k locations.
Scanned(locations, path, k, acc) ==
  /\ acc \in Scans(k)
  /\ acc.exact # 0 =>
       /\ IsExact(locations, path, acc.exact)
       /\ \A j \in 1 .. acc.exact - 1 : ~IsExact(locations, path, j)
  /\ acc.exact = 0 =>
       /\ \A j \in 1 .. k : ~IsExact(locations, path, j)
       /\ BestPrefix(locations, path, "prefix", k, acc.prefix)
       /\ BestPrefix(locations, path, "prefer", k, acc.prefer)

\* A longer prefix replaces the best one, an equal one does not.
LEMMA BestPrefixKeeps ==
  ASSUME NEW locations, IsLocations(locations), NEW k \in 1 .. Len(locations), NEW path, NEW kind,
         NEW best, BestPrefix(locations, path, kind, k - 1, best)
  PROVE  /\ ~(locations[k].kind = kind /\ Better(locations[k], best, path)) =>
              BestPrefix(locations, path, kind, k, best)
         /\ locations[k].kind = kind /\ Better(locations[k], best, path) =>
              BestPrefix(locations, path, kind, k, [index |-> k, len |-> Len(locations[k].path)])
<1> DEFINE H(j) == HasPrefix(locations, path, kind, j)
           L(j) == Len(locations[j].path)
<1>1. Len(locations) \in Nat /\ \A j \in 1 .. k : L(j) \in Nat
  BY LocationAt DEF IsLocation
<1>2. /\ best.index \in 0 .. k - 1 /\ best.len \in Nat /\ best \in Bests(k)
      /\ best = [index |-> best.index, len |-> best.len]
  BY <1>1 DEF BestPrefix, Bests
<1>3. /\ best.index = 0 => best = NoBest /\ \A j \in 1 .. k - 1 : ~H(j)
      /\ best.index # 0 =>
           /\ H(best.index) /\ best.len = L(best.index)
           /\ \A j \in 1 .. k - 1 : H(j) => best.len > L(j) \/ (best.len = L(j) /\ best.index <= j)
  BY DEF BestPrefix
<1>4. locations[k].kind = kind /\ Better(locations[k], best, path)
        <=> H(k) /\ (best.index = 0 \/ L(k) > best.len)
  BY DEF Better, HasPrefix
<1>5. \A j \in 1 .. k : j = k \/ j \in 1 .. k - 1
  BY <1>1
<1> HIDE DEF H, L
<1>6. ASSUME ~(H(k) /\ (best.index = 0 \/ L(k) > best.len))
      PROVE  BestPrefix(locations, path, kind, k, best)
  <2>1. best.index = 0 => best = NoBest /\ \A j \in 1 .. k : ~H(j)
    BY <1>3, <1>5, <1>6
  <2>2. best.index # 0 =>
          \A j \in 1 .. k : H(j) => best.len > L(j) \/ (best.len = L(j) /\ best.index <= j)
    <3> SUFFICES ASSUME best.index # 0, NEW j \in 1 .. k, H(j)
                 PROVE  best.len > L(j) \/ (best.len = L(j) /\ best.index <= j)
      OBVIOUS
    <3>1. CASE j = k
      <4>1. L(k) <= best.len /\ L(k) \in Nat /\ best.len \in Nat /\ best.index <= k
        BY <1>1, <1>2, <1>6, <3>1
      <4> QED BY <3>1, <4>1
    <3>2. CASE j # k
      BY <1>3, <1>5, <3>2
    <3> QED BY <3>1, <3>2
  <2> QED BY <1>2, <1>3, <2>1, <2>2 DEF BestPrefix, H, L
<1>7. ASSUME H(k), best.index = 0 \/ L(k) > best.len
      PROVE  BestPrefix(locations, path, kind, k, [index |-> k, len |-> L(k)])
  <2>1. PICK b \in Bests(k) : b = [index |-> k, len |-> L(k)] /\ b.index = k /\ b.len = L(k)
    <3>1. k \in 0 .. k /\ L(k) \in Nat
      BY <1>1
    <3>2. [index |-> k, len |-> L(k)] \in Bests(k)
      BY <3>1 DEF Bests
    <3> QED BY <3>2
  <2>2. ASSUME NEW j \in 1 .. k, H(j) PROVE b.len > L(j) \/ (b.len = L(j) /\ b.index <= j)
    <3>1. CASE j = k
      BY <2>1, <3>1
    <3>2. CASE j # k
      <4>1. best.index # 0 /\ L(k) > best.len /\ best.len >= L(j)
        <5>1. j \in 1 .. k - 1 /\ L(j) \in Nat
          BY <1>1, <1>5, <3>2
        <5> QED BY <1>2, <1>3, <1>7, <2>2, <5>1
      <4>2. L(k) \in Nat /\ L(j) \in Nat
        BY <1>1
      <4> QED BY <1>2, <2>1, <4>1, <4>2
    <3> QED BY <3>1, <3>2
  <2>3. k # 0
    BY <1>1
  <2> QED BY <1>7, <2>1, <2>2, <2>3 DEF BestPrefix, H, L
<1> QED BY <1>4, <1>6, <1>7 DEF L

\* One more location is taken into account.
LEMMA ScanVisitKeeps ==
  ASSUME NEW locations, IsLocations(locations), NEW k \in 1 .. Len(locations), NEW path,
         NEW acc, Scanned(locations, path, k - 1, acc)
  PROVE  Scanned(locations, path, k, ScanVisit(locations, path, acc, k))
<1> DEFINE l == locations[k]
           best == [index |-> k, len |-> Len(l.path)]
           next == ScanVisit(locations, path, acc, k)
           X(j) == IsExact(locations, path, j)
           P(a, i) == BestPrefix(locations, path, "prefix", i, a)
           R(a, i) == BestPrefix(locations, path, "prefer", i, a)
<1>1. Len(locations) \in Nat /\ k \in Nat /\ k # 0 /\ Len(l.path) \in Nat
  BY LocationAt DEF IsLocation
<1>2. acc \in Scans(k - 1) /\ acc \in Scans(k)
  BY <1>1 DEF Scanned, Scans, Bests
<1>3. acc.exact \in 0 .. k - 1
  BY <1>2 DEF Scans
<1>4. best \in Bests(k)
  <2>1. k \in 0 .. k
    BY <1>1
  <2> QED BY <1>1, <2>1 DEF Bests
<1>5. CASE acc.exact # 0
  <2>1. next = acc
    BY <1>5 DEF ScanVisit
  <2> QED BY <1>2, <1>5, <2>1 DEF Scanned
<1>6. CASE acc.exact = 0
  <2>1. (\A j \in 1 .. k - 1 : ~X(j)) /\ P(acc.prefix, k - 1) /\ R(acc.prefer, k - 1)
    BY <1>6 DEF Scanned
  <2>2. X(k) <=> l.kind = "exact" /\ l.path = path
    BY DEF IsExact
  <2>3. (l.kind = "prefix" /\ Better(l, acc.prefix, path)) => P(best, k)
    BY <2>1, BestPrefixKeeps
  <2>4. (l.kind = "prefer" /\ Better(l, acc.prefer, path)) => R(best, k)
    BY <2>1, BestPrefixKeeps
  <2>5. ~(l.kind = "prefix" /\ Better(l, acc.prefix, path)) => P(acc.prefix, k)
    BY <2>1, BestPrefixKeeps
  <2>6. ~(l.kind = "prefer" /\ Better(l, acc.prefer, path)) => R(acc.prefer, k)
    BY <2>1, BestPrefixKeeps
  <2>7. ~X(k) => \A j \in 1 .. k : ~X(j)
    BY <1>1, <2>1
  <2> PICK b \in Bests(k) : b = best
    BY <1>4
  <2> PICK x : x = next
    OBVIOUS
  <2> HIDE DEF l, best, X, P, R
  <2>8. CASE X(k)
    <3>1. x = [acc EXCEPT !.exact = k]
      BY <1>6, <2>2, <2>8 DEF ScanVisit, l
    <3>2. x \in Scans(k) /\ x.exact = k
      BY <1>1, <1>2, <3>1 DEF Scans
    <3> QED BY <1>1, <2>1, <2>8, <3>2 DEF Scanned, X
  <2>9. CASE ~X(k) /\ l.kind = "prefix" /\ Better(l, acc.prefix, path)
    <3>1. x = [acc EXCEPT !.prefix = b]
      <4>1. next = [acc EXCEPT !.prefix = best]
        BY <1>6, <2>2, <2>9 DEF ScanVisit, l, best
      <4> QED BY <4>1
    <3>2. x \in Scans(k) /\ x.exact = 0 /\ x.prefix = b /\ x.prefer = acc.prefer
      BY <1>2, <1>6, <3>1 DEF Scans
    <3>3. P(b, k) /\ R(acc.prefer, k)
      BY <2>3, <2>6, <2>9
    <3> QED BY <2>7, <2>9, <3>2, <3>3 DEF Scanned, X, P, R
  <2>10. CASE ~X(k) /\ l.kind = "prefer" /\ Better(l, acc.prefer, path)
    <3>1. x = [acc EXCEPT !.prefer = b]
      <4>1. next = [acc EXCEPT !.prefer = best]
        BY <1>6, <2>2, <2>10 DEF ScanVisit, l, best
      <4> QED BY <4>1
    <3>2. x \in Scans(k) /\ x.exact = 0 /\ x.prefer = b /\ x.prefix = acc.prefix
      BY <1>2, <1>6, <3>1 DEF Scans
    <3>3. R(b, k) /\ P(acc.prefix, k)
      BY <2>4, <2>5, <2>10
    <3> QED BY <2>7, <2>10, <3>2, <3>3 DEF Scanned, X, P, R
  <2>11. CASE /\ ~X(k) /\ ~(l.kind = "prefix" /\ Better(l, acc.prefix, path))
              /\ ~(l.kind = "prefer" /\ Better(l, acc.prefer, path))
    <3>1. x = acc
      BY <1>6, <2>2, <2>11 DEF ScanVisit, l
    <3>2. P(acc.prefix, k) /\ R(acc.prefer, k)
      BY <2>5, <2>6, <2>11
    <3> QED BY <1>2, <1>6, <2>7, <2>11, <3>1, <3>2 DEF Scanned, X, P, R
  <2> QED BY <2>8, <2>9, <2>10, <2>11
<1> QED BY <1>5, <1>6

\* After the loop all locations are.
LEMMA ScanIs ==
  ASSUME NEW locations, IsLocations(locations), NEW path
  PROVE  Scanned(locations, path, Len(locations), ScanPrefixes(locations, path))
<1> DEFINE n == Len(locations)
           Good(k, a) == Scanned(locations, path, k, a)
<1>1. n \in Nat
  BY LocationAt
<1>2. PICK h : /\ h[0] = NoScan /\ ScanPrefixes(locations, path) = h[n]
               /\ \A k \in 1 .. n : h[k] = ScanVisit(locations, path, h[k - 1], k)
  BY ScanSteps
<1> DEFINE bad == {k \in 0 .. n : ~Good(k, h[k])}
<1>3. bad = {}
  <2> SUFFICES ASSUME bad # {} PROVE FALSE
    OBVIOUS
  <2>1. PICK k \in bad : \A j \in bad : k <= j
    <3>1. bad \in SUBSET Nat
      OBVIOUS
    <3> HIDE DEF bad
    <3> QED BY <3>1, LeastNat
  <2>2. k \in 0 .. n /\ ~Good(k, h[k])
    BY <2>1
  <2>3. k # 0
    <3>1. Good(0, NoScan)
      <4>1. NoScan \in Scans(0) /\ NoBest \in Bests(0) /\ NoBest.index = 0
        BY DEF NoScan, NoBest, Scans, Bests
      <4>2. NoScan.exact = 0 /\ NoScan.prefix = NoBest /\ NoScan.prefer = NoBest
        BY DEF NoScan
      <4> QED BY <4>1, <4>2 DEF Scanned, BestPrefix
    <3> HIDE DEF Good
    <3> QED BY <1>2, <2>2, <3>1
  <2>4. k \in 1 .. n /\ k - 1 \in 0 .. n /\ k - 1 \notin bad
    <3>1. \A j \in bad : j \in Nat
      OBVIOUS
    <3> HIDE DEF bad, n
    <3> QED BY <1>1, <2>1, <2>2, <2>3, <3>1
  <2>5. Good(k - 1, h[k - 1])
    BY <2>4
  <2> HIDE DEF bad
  <2> QED BY <1>2, <2>2, <2>4, <2>5, ScanVisitKeeps
<1>4. n \in 0 .. n /\ n \notin bad
  <2> HIDE DEF bad, n
  <2> QED BY <1>1, <1>3
<1> QED BY <1>2, <1>4

\* The order of pairs.
LEMMA AbovePairs ==
  ASSUME NEW a \in Nat, NEW b \in Nat, NEW c \in Nat, NEW d \in Nat, a > c \/ (a = c /\ b > d)
  PROVE  Above(<<a, b>>, <<c, d>>)
<1> DEFINE s == <<a, b>>
           t == <<c, d>>
<1>1. DOMAIN s = 1 .. 2 /\ s[1] = a /\ s[2] = b /\ t[1] = c /\ t[2] = d
  OBVIOUS
<1> HIDE DEF s, t
<1>2. CASE a > c
  <2>1. s[1] > t[1] /\ \A j \in 1 .. 1 - 1 : s[j] = t[j]
    BY <1>1, <1>2
  <2> QED BY <1>1, <2>1 DEF Above, s, t
<1>3. CASE a = c /\ b > d
  <2>1. s[2] > t[2] /\ \A j \in 1 .. 2 - 1 : s[j] = t[j]
    BY <1>1, <1>3
  <2> QED BY <1>1, <2>1 DEF Above, s, t
<1> QED BY <1>2, <1>3

\* The two loops of select_route_target: the index of the first regular expression.
FirstRegex(locations, path) ==
  SelectInSeq(locations, LAMBDA l : l.kind = "regex" /\ RegexMatches(l, path))
IsRegex(locations, path, j) == locations[j].kind = "regex" /\ RegexMatches(locations[j], path)

\* The second loop stops at the first regular expression that matches.
LEMMA FirstRegexIs ==
  ASSUME NEW locations, IsLocations(locations), NEW path
  PROVE  /\ FirstRegex(locations, path) \in 0 .. Len(locations)
         /\ FirstRegex(locations, path) = 0 =>
              \A j \in 1 .. Len(locations) : ~IsRegex(locations, path, j)
         /\ FirstRegex(locations, path) # 0 =>
              /\ IsRegex(locations, path, FirstRegex(locations, path))
              /\ \A j \in 1 .. Len(locations) :
                   IsRegex(locations, path, j) => FirstRegex(locations, path) <= j
<1> DEFINE n == Len(locations)
           I == {j \in 1 .. n : IsRegex(locations, path, j)}
           r == FirstRegex(locations, path)
<1>1. n \in Nat
  BY LocationAt
<1>2. r = IF I # {} THEN Min(I) ELSE 0
  BY DEF FirstRegex, SelectInSeq, IsRegex
<1>3. I \in SUBSET Nat /\ \A j : j \in I <=> j \in 1 .. n /\ IsRegex(locations, path, j)
  OBVIOUS
<1> HIDE DEF n, I, r
<1>4. CASE I = {}
  BY <1>1, <1>2, <1>3, <1>4 DEF n, r
<1>5. CASE I # {}
  <2>1. Min(I) \in I /\ \A y \in I : Min(I) <= y
    BY <1>3, <1>5, MinNat
  <2>2. r \in 1 .. n /\ IsRegex(locations, path, r)
        /\ \A j \in 1 .. n : IsRegex(locations, path, j) => r <= j
    BY <1>2, <1>3, <1>5, <2>1
  <2> QED BY <1>1, <2>2 DEF n, r
<1> QED BY <1>4, <1>5

\* Location i applies, and no other one precedes it in the order of the documentation.
BestLocation(locations, path, i) ==
  /\ i \in 1 .. Len(locations) /\ locations[i].kind \notin HttpKinds
  /\ Applies(locations[i], path)
  /\ \A j \in 1 .. Len(locations) :
       locations[j].kind \notin HttpKinds /\ Applies(locations[j], path) =>
         \/ Above(LocationRank(locations[i]), LocationRank(locations[j]))
         \/ LocationRank(locations[i]) = LocationRank(locations[j]) /\ i <= j

NoLocation(locations, path) ==
  \A j \in 1 .. Len(locations) :
    locations[j].kind \notin HttpKinds => ~Applies(locations[j], path)

\* Whether a location applies and where it stands in the order, by its kind.
LEMMA AppliesIs ==
  ASSUME NEW locations, IsLocations(locations), NEW path, NEW j \in 1 .. Len(locations)
  PROVE  /\ locations[j].kind = "exact" =>
              /\ locations[j].kind \notin HttpKinds /\ LocationRank(locations[j]) = <<3, 0>>
              /\ Applies(locations[j], path) <=> IsExact(locations, path, j)
         /\ locations[j].kind = "prefer" =>
              /\ locations[j].kind \notin HttpKinds
              /\ LocationRank(locations[j]) = <<2, Len(locations[j].path)>>
              /\ Applies(locations[j], path) <=> HasPrefix(locations, path, "prefer", j)
         /\ locations[j].kind = "regex" =>
              /\ locations[j].kind \notin HttpKinds /\ LocationRank(locations[j]) = <<1, 0>>
              /\ Applies(locations[j], path) <=> IsRegex(locations, path, j)
         /\ locations[j].kind = "prefix" =>
              /\ locations[j].kind \notin HttpKinds
              /\ LocationRank(locations[j]) = <<0, Len(locations[j].path)>>
              /\ Applies(locations[j], path) <=> HasPrefix(locations, path, "prefix", j)
         /\ locations[j].kind \notin HttpKinds /\ Applies(locations[j], path) =>
              locations[j].kind \in {"exact", "prefer", "regex", "prefix"}
         /\ Len(locations[j].path) \in Nat
<1>1. IsLocation(locations[j])
  BY LocationAt
<1>2. Len(locations[j].path) \in Nat /\ locations[j].kind \in Kinds
  BY <1>1 DEF IsLocation
<1>3. locations[j].kind \notin HttpKinds /\ Applies(locations[j], path) =>
              locations[j].kind \in {"exact", "prefer", "regex", "prefix"}
  BY <1>2 DEF Kinds, HttpKinds, Applies
<1>4. CASE locations[j].kind = "exact"
  BY <1>2, <1>4 DEF HttpKinds, LocationRank, Applies, IsExact
<1>5. CASE locations[j].kind = "prefer"
  BY <1>2, <1>5 DEF HttpKinds, LocationRank, Applies, HasPrefix
<1>6. CASE locations[j].kind = "regex"
  BY <1>2, <1>6 DEF HttpKinds, LocationRank, Applies, IsRegex
<1>7. CASE locations[j].kind = "prefix"
  BY <1>2, <1>7 DEF HttpKinds, LocationRank, Applies, HasPrefix
<1> QED BY <1>2, <1>3, <1>4, <1>5, <1>6, <1>7

\* select_route_target returns the best location, 0 only if none applies.
LEMMA SelectRouteTargetIs ==
  ASSUME NEW locations, IsLocations(locations), NEW path
  PROVE  /\ SelectRouteTarget(locations, path) \in 0 .. Len(locations)
         /\ SelectRouteTarget(locations, path) = 0 => NoLocation(locations, path)
         /\ SelectRouteTarget(locations, path) # 0 =>
              BestLocation(locations, path, SelectRouteTarget(locations, path))
<1> DEFINE n == Len(locations)
           K(j) == locations[j].kind
           A(j) == K(j) \notin HttpKinds /\ Applies(locations[j], path)
           rank(j) == LocationRank(locations[j])
           len(j) == Len(locations[j].path)
           X(j) == IsExact(locations, path, j)
           R(j) == IsRegex(locations, path, j)
           P(j) == HasPrefix(locations, path, "prefix", j)
           Q(j) == HasPrefix(locations, path, "prefer", j)
           Good(i) == \A j \in 1 .. n : A(j) => Above(rank(i), rank(j)) \/ (rank(i) = rank(j) /\ i <= j)
           target == SelectRouteTarget(locations, path)
           regex == FirstRegex(locations, path)
<1>1. n \in Nat
  BY LocationAt
<1>2. PICK scan : /\ scan = ScanPrefixes(locations, path) /\ Scanned(locations, path, n, scan)
  BY ScanIs
<1>3. target = IF scan.exact # 0 THEN scan.exact
               ELSE IF scan.prefer # NoBest THEN scan.prefer.index
               ELSE IF regex # 0 THEN regex ELSE scan.prefix.index
  BY <1>2 DEF SelectRouteTarget, FirstRegex
<1>4. /\ \A j \in 1 .. n : len(j) \in Nat
      /\ \A j \in 1 .. n : X(j) => A(j) /\ rank(j) = <<3, 0>>
      /\ \A j \in 1 .. n : Q(j) => A(j) /\ rank(j) = <<2, len(j)>>
      /\ \A j \in 1 .. n : R(j) => A(j) /\ rank(j) = <<1, 0>>
      /\ \A j \in 1 .. n : P(j) => A(j) /\ rank(j) = <<0, len(j)>>
      /\ \A j \in 1 .. n : A(j) => X(j) \/ Q(j) \/ R(j) \/ P(j)
  <2> SUFFICES ASSUME NEW j \in 1 .. n
               PROVE  /\ len(j) \in Nat
                      /\ X(j) => A(j) /\ rank(j) = <<3, 0>>
                      /\ Q(j) => A(j) /\ rank(j) = <<2, len(j)>>
                      /\ R(j) => A(j) /\ rank(j) = <<1, 0>>
                      /\ P(j) => A(j) /\ rank(j) = <<0, len(j)>>
                      /\ A(j) => X(j) \/ Q(j) \/ R(j) \/ P(j)
    OBVIOUS
  <2>1. /\ X(j) => K(j) = "exact"
        /\ Q(j) => K(j) = "prefer"
        /\ R(j) => K(j) = "regex"
        /\ P(j) => K(j) = "prefix"
    BY DEF IsExact, HasPrefix, IsRegex
  <2> QED BY <2>1, AppliesIs
<1>5. /\ scan.exact \in 0 .. n /\ scan.prefix \in Bests(n) /\ scan.prefer \in Bests(n)
      /\ scan.exact # 0 => X(scan.exact) /\ \A j \in 1 .. scan.exact - 1 : ~X(j)
      /\ scan.exact = 0 => /\ \A j \in 1 .. n : ~X(j)
                           /\ BestPrefix(locations, path, "prefix", n, scan.prefix)
                           /\ BestPrefix(locations, path, "prefer", n, scan.prefer)
  BY <1>2 DEF Scanned, Scans
<1>6. /\ regex \in 0 .. n
      /\ regex = 0 => \A j \in 1 .. n : ~R(j)
      /\ regex # 0 => R(regex) /\ \A j \in 1 .. n : R(j) => regex <= j
  BY FirstRegexIs
<1>7. PICK p \in 0 .. n, q \in 0 .. n : p = scan.prefix.index /\ q = scan.prefer.index
  BY <1>5 DEF Bests
<1>8. scan.exact = 0 =>
        /\ p = 0 => \A j \in 1 .. n : ~P(j)
        /\ p # 0 => P(p) /\ \A j \in 1 .. n : P(j) => len(p) > len(j) \/ (len(p) = len(j) /\ p <= j)
        /\ q = 0 <=> scan.prefer = NoBest
        /\ q = 0 => \A j \in 1 .. n : ~Q(j)
        /\ q # 0 => Q(q) /\ \A j \in 1 .. n : Q(j) => len(q) > len(j) \/ (len(q) = len(j) /\ q <= j)
  <2>1. NoBest.index = 0
    BY DEF NoBest
  <2> HIDE DEF P, Q
  <2> QED BY <1>5, <1>7, <2>1 DEF BestPrefix, P, Q
<1>9. ASSUME NEW i \in 1 .. n, A(i), Good(i)
      PROVE  BestLocation(locations, path, i)
  BY <1>9 DEF BestLocation
<1>10. (\A j \in 1 .. n : ~A(j)) => NoLocation(locations, path)
  BY DEF NoLocation
<1> HIDE DEF n, K, A, rank, len, X, R, P, Q, target, regex
<1>11. CASE scan.exact # 0
  <2>1. scan.exact \in 1 .. n /\ A(scan.exact) /\ target = scan.exact
    BY <1>1, <1>3, <1>4, <1>5, <1>11
  <2>2. Good(scan.exact)
    <3> SUFFICES ASSUME NEW j \in 1 .. n, A(j)
                 PROVE  Above(rank(scan.exact), rank(j)) \/ (rank(scan.exact) = rank(j) /\ scan.exact <= j)
      OBVIOUS
    <3>1. rank(scan.exact) = <<3, 0>> /\ len(j) \in Nat
      BY <1>4, <1>5, <1>11, <2>1
    <3>2. CASE X(j)
      BY <1>1, <1>4, <1>5, <1>11, <2>1, <3>1, <3>2
    <3>3. CASE Q(j)
      BY <1>4, <3>1, <3>3, AbovePairs
    <3>4. CASE R(j)
      BY <1>4, <3>1, <3>4, AbovePairs
    <3>5. CASE P(j)
      BY <1>4, <3>1, <3>5, AbovePairs
    <3> QED BY <1>4, <3>2, <3>3, <3>4, <3>5
  <2>3. target \in 0 .. n /\ target # 0
    BY <1>1, <2>1
  <2> HIDE DEF Good
  <2> QED BY <1>9, <2>1, <2>2, <2>3 DEF n, target
<1>12. CASE scan.exact = 0 /\ q # 0
  <2>1. q \in 1 .. n /\ A(q) /\ target = q /\ Q(q)
    BY <1>1, <1>3, <1>4, <1>7, <1>8, <1>12
  <2>2. Good(q)
    <3> SUFFICES ASSUME NEW j \in 1 .. n, A(j)
                 PROVE  Above(rank(q), rank(j)) \/ (rank(q) = rank(j) /\ q <= j)
      OBVIOUS
    <3>1. rank(q) = <<2, len(q)>> /\ len(j) \in Nat /\ len(q) \in Nat /\ ~X(j)
      BY <1>4, <1>5, <1>12, <2>1
    <3>3. CASE Q(j)
      <4>1. rank(j) = <<2, len(j)>> /\ (len(q) > len(j) \/ (len(q) = len(j) /\ q <= j))
        BY <1>4, <1>8, <1>12, <3>3
      <4> QED BY <3>1, <4>1, AbovePairs
    <3>4. CASE R(j)
      BY <1>4, <3>1, <3>4, AbovePairs
    <3>5. CASE P(j)
      BY <1>4, <3>1, <3>5, AbovePairs
    <3> QED BY <1>4, <3>1, <3>3, <3>4, <3>5
  <2>3. target \in 0 .. n /\ target # 0
    BY <1>1, <2>1
  <2> HIDE DEF Good
  <2> QED BY <1>9, <2>1, <2>2, <2>3 DEF n, target
<1>13. CASE scan.exact = 0 /\ q = 0 /\ regex # 0
  <2>1. regex \in 1 .. n /\ A(regex) /\ target = regex /\ R(regex)
    BY <1>1, <1>3, <1>4, <1>6, <1>8, <1>13
  <2>2. Good(regex)
    <3> SUFFICES ASSUME NEW j \in 1 .. n, A(j)
                 PROVE  Above(rank(regex), rank(j)) \/ (rank(regex) = rank(j) /\ regex <= j)
      OBVIOUS
    <3>1. rank(regex) = <<1, 0>> /\ len(j) \in Nat /\ ~X(j) /\ ~Q(j)
      BY <1>4, <1>5, <1>8, <1>13, <2>1
    <3>4. CASE R(j)
      BY <1>4, <1>6, <1>13, <3>1, <3>4
    <3>5. CASE P(j)
      BY <1>4, <3>1, <3>5, AbovePairs
    <3> QED BY <1>4, <3>1, <3>4, <3>5
  <2>3. target \in 0 .. n /\ target # 0
    BY <1>1, <2>1
  <2> HIDE DEF Good
  <2> QED BY <1>9, <2>1, <2>2, <2>3 DEF n, target
<1>14. CASE scan.exact = 0 /\ q = 0 /\ regex = 0
  <2>1. target = p
    BY <1>3, <1>7, <1>8, <1>14
  <2>2. \A j \in 1 .. n : A(j) => P(j)
    BY <1>4, <1>5, <1>6, <1>8, <1>14
  <2>3. CASE p = 0
    BY <1>1, <1>8, <1>10, <1>14, <2>1, <2>2, <2>3 DEF n, target
  <2>4. CASE p # 0
    <3>1. p \in 1 .. n /\ A(p) /\ P(p)
      BY <1>1, <1>4, <1>7, <1>8, <1>14, <2>4
    <3>2. Good(p)
      <4> SUFFICES ASSUME NEW j \in 1 .. n, A(j)
                   PROVE  Above(rank(p), rank(j)) \/ (rank(p) = rank(j) /\ p <= j)
        OBVIOUS
      <4>1. rank(p) = <<0, len(p)>> /\ len(j) \in Nat /\ len(p) \in Nat /\ rank(j) = <<0, len(j)>>
        BY <1>4, <2>2, <3>1
      <4>2. len(p) > len(j) \/ (len(p) = len(j) /\ p <= j)
        BY <1>8, <1>14, <2>2, <2>4
      <4> QED BY <4>1, <4>2, AbovePairs
    <3>3. target \in 0 .. n /\ target # 0
      BY <1>1, <2>1, <3>1
    <3> HIDE DEF Good
    <3> QED BY <1>9, <2>1, <3>1, <3>2, <3>3 DEF n, target
  <2> QED BY <2>3, <2>4
<1> QED BY <1>11, <1>12, <1>13, <1>14

-----------------------------------------------------------------------------
(* The route of a request *)

\* No rule of the virtual host matches.
Silent(v) == \A i \in DOMAIN v.locations : ~Matches(v.locations[i])

\* Location i of v is the best one: of a virtual host with nginx locations in their
\* order, of one with HTTP rules in theirs, and then no better virtual host has a rule.
Chosen(v, i) ==
  /\ v \in vhosts /\ Eligible(v) /\ i \in DOMAIN v.locations
  /\ \/ ~IsHttp(v) /\ BestLocation(v.locations, request.path, i)
     \/ /\ IsHttp(v) /\ i # 0 /\ BestOfRules(v.locations, Len(v.locations), i)
        /\ \A w \in vhosts :
             Eligible(w) /\ Above(HostnameScore(w.name), HostnameScore(v.name)) => Silent(w)

\* Nothing was left out when there is no route.
Unserved ==
  /\ (\A v \in vhosts : IsHttp(v)) =>
       \A v \in vhosts : Eligible(v) => Silent(v)
  /\ \A v \in vhosts : vhosts = {v} /\ v.name = Default => NoLocation(v.locations, request.path)

\* The locations and the score of a virtual host.
LEMMA HostLocations ==
  ASSUME Scenario, NEW v \in vhosts
  PROVE  /\ IsLocations(v.locations) /\ DOMAIN v.locations = 1 .. Len(v.locations)
         /\ Len(v.locations) \in Nat /\ HostnameScore(v.name) \in [1 .. 2 -> Nat]
<1>1. v.locations \in Seq(Range(v.locations)) /\ \A l \in Range(v.locations) : IsLocation(l)
  BY DEF Scenario, IsServers
<1>2. IsLocations(v.locations)
  BY <1>1, Zenon DEF IsLocations
<1>3. HostnameScore(v.name) \in [1 .. 2 -> Nat]
  BY HostScores DEF Scenario, IsServers
<1> QED BY <1>2, <1>3, LocationAt

\* Without a best rule no rule matches.
LEMMA SilentIs ==
  ASSUME Scenario, NEW v \in vhosts, BestRule(v.locations) = 0
  PROVE  Silent(v)
<1>1. BestOfRules(v.locations, Len(v.locations), BestRule(v.locations))
  BY HostLocations, BestRuleIs
<1> QED BY <1>1, HostLocations DEF BestOfRules, Silent

\* The first virtual host with a matching rule is the best one that has any.
LEMMA HttpRouteChosen ==
  ASSUME Scenario, FirstHttp(Candidates) # 0
  PROVE  \E v : /\ v = Candidates[FirstHttp(Candidates)]
                /\ Chosen(v, BestRule(v.locations))
<1>1. /\ Candidates \in Seq(EligibleHosts) /\ Sorted(Candidates)
      /\ \A v \in EligibleHosts : \E i \in 1 .. Len(Candidates) : Candidates[i] = v
  BY CandidatesAre
<1>2. PICK c : c = Candidates
  OBVIOUS
<1>3. PICK k : k = FirstHttp(c)
  OBVIOUS
<1>4. /\ k \in 1 .. Len(c) /\ IsHttp(c[k]) /\ BestRule(c[k].locations) # 0
      /\ \A j \in 1 .. k - 1 : BestRule(c[j].locations) = 0
  BY <1>1, <1>2, <1>3, FirstHttpIs
<1>5. PICK v : v = c[k]
  OBVIOUS
<1>6. v \in vhosts /\ Eligible(v)
  BY <1>1, <1>2, <1>4, <1>5 DEF EligibleHosts
<1>7. PICK b : b = BestRule(v.locations)
  OBVIOUS
<1>8. b \in DOMAIN v.locations /\ b # 0 /\ BestOfRules(v.locations, Len(v.locations), b)
  <2>1. BestOfRules(v.locations, Len(v.locations), b)
    BY <1>6, <1>7, HostLocations, BestRuleIs
  <2>2. b \in 0 .. Len(v.locations) /\ b # 0
    BY <1>4, <1>5, <1>7, <2>1 DEF BestOfRules
  <2> QED BY <1>6, <2>1, <2>2, HostLocations
<1>9. ASSUME NEW w \in vhosts, Eligible(w), Above(HostnameScore(w.name), HostnameScore(v.name))
      PROVE  Silent(w)
  <2>1. PICK j \in 1 .. Len(c) : c[j] = w
    BY <1>1, <1>2, <1>9 DEF EligibleHosts
  <2>2. ~Above(HostnameScore(v.name), HostnameScore(w.name)) /\ w # v
    <3>1. HostnameScore(v.name) \in [1 .. 2 -> Nat] /\ HostnameScore(w.name) \in [1 .. 2 -> Nat]
      BY <1>6, HostLocations
    <3> QED BY <1>9, <3>1, AboveOrders
  <2>3. j # k /\ ~(k < j)
    <3>1. DOMAIN c = 1 .. Len(c)
      BY <1>1, <1>2
    <3> QED BY <1>1, <1>2, <1>4, <1>5, <2>1, <2>2, <3>1 DEF Sorted
  <2>4. j \in 1 .. k - 1
    BY <1>4, <2>1, <2>3
  <2> QED BY <1>4, <2>1, <2>4, SilentIs
<1>10. Chosen(v, b)
  BY <1>4, <1>5, <1>6, <1>8, <1>9 DEF Chosen
<1> QED BY <1>2, <1>3, <1>5, <1>7, <1>10

\* A location that select_route_target returns is one of nginx.
LEMMA LocationChosen ==
  ASSUME Scenario, NEW v \in vhosts, Eligible(v), SelectRouteTarget(v.locations, request.path) # 0
  PROVE  Chosen(v, SelectRouteTarget(v.locations, request.path))
<1>1. PICK i : i = SelectRouteTarget(v.locations, request.path)
  OBVIOUS
<1>2. BestLocation(v.locations, request.path, i)
  BY <1>1, HostLocations, SelectRouteTargetIs
<1>3. i \in DOMAIN v.locations /\ v.locations[i].kind \notin HttpKinds
  BY <1>2, HostLocations DEF BestLocation
<1>4. ~IsHttp(v)
  BY <1>3 DEF Scenario, Compiles
<1> QED BY <1>1, <1>2, <1>3, <1>4 DEF Chosen

\* Without a rule and without a location nothing matches.
LEMMA NoneUnserved ==
  ASSUME Scenario, FirstHttp(Candidates) = 0,
         \/ Candidates = <<>>
         \/ SelectRouteTarget(Candidates[1].locations, request.path) = 0
  PROVE  Unserved
<1>1. /\ Candidates \in Seq(EligibleHosts)
      /\ \A v \in EligibleHosts : \E i \in 1 .. Len(Candidates) : Candidates[i] = v
  BY CandidatesAre
<1>2. PICK c : c = Candidates
  OBVIOUS
<1>3. ASSUME \A v \in vhosts : IsHttp(v), NEW v \in vhosts, Eligible(v)
      PROVE  Silent(v)
  <2>1. \A j \in 1 .. Len(c) : c[j] \in vhosts
    BY <1>1, <1>2 DEF EligibleHosts
  <2>2. \A j \in 1 .. Len(c) : BestRule(c[j].locations) = 0
    <3>1. ~ \E j \in 1 .. Len(c) : ~IsHttp(c[j])
      BY <1>3, <2>1
    <3>2. \/ \E j \in 1 .. Len(c) : ~IsHttp(c[j])
          \/ \A j \in 1 .. Len(c) : BestRule(c[j].locations) = 0
      BY <1>1, <1>2, FirstHttpIs
    <3> QED BY <3>1, <3>2
  <2> QED BY <1>1, <1>2, <1>3, <2>2, SilentIs DEF EligibleHosts
<1>4. ASSUME NEW v \in vhosts, vhosts = {v}, v.name = Default
      PROVE  NoLocation(v.locations, request.path)
  <2>1. v \in EligibleHosts
    BY <1>4 DEF EligibleHosts, Eligible
  <2>2. c # <<>> /\ c[1] = v
    <3>1. PICK i \in 1 .. Len(c) : c[i] = v
      BY <1>1, <1>2, <2>1
    <3>2. c # <<>> /\ c[1] \in EligibleHosts
      BY <1>1, <1>2, <3>1
    <3>3. EligibleHosts \subseteq {v}
      BY <1>4 DEF EligibleHosts
    <3> QED BY <3>2, <3>3
  <2>3. SelectRouteTarget(v.locations, request.path) = 0
    BY <1>2, <2>2
  <2> QED BY <2>3, HostLocations, SelectRouteTargetIs
<1> QED BY <1>3, <1>4 DEF Unserved

\* What resolve_route may return.
Outcome(r) ==
  \/ r = Failed(400) \/ r = Failed(421)
  \/ Consistent /\ \E v, i : Chosen(v, i) /\ r = Found(v, i)
  \/ r = NoRoute /\ Unserved

\* resolve_route returns one of these outcomes.
LEMMA Outcomes ==
  ASSUME Scenario
  PROVE  Outcome(ResolveRoute)
<1>1. PICK c : c = Candidates
  OBVIOUS
<1>2. ResolveRoute =
        IF request.host = <<>> THEN Failed(400)
        ELSE IF ~Consistent THEN Failed(421)
        ELSE IF FirstHttp(c) # 0 THEN Found(c[FirstHttp(c)], BestRule(c[FirstHttp(c)].locations))
        ELSE IF c = <<>> THEN NoRoute
        ELSE IF SelectRouteTarget(c[1].locations, request.path) = 0 THEN NoRoute
             ELSE Found(c[1], SelectRouteTarget(c[1].locations, request.path))
  BY <1>1, ZenonT(60) DEF ResolveRoute
<1>3. CASE request.host = <<>> \/ ~Consistent
  BY <1>2, <1>3 DEF Outcome
<1>4. CASE request.host # <<>> /\ Consistent /\ FirstHttp(c) # 0
  BY <1>1, <1>2, <1>4, HttpRouteChosen DEF Outcome
<1>5. CASE /\ request.host # <<>> /\ Consistent /\ FirstHttp(c) = 0
           /\ c = <<>> \/ SelectRouteTarget(c[1].locations, request.path) = 0
  <2>1. ResolveRoute = NoRoute
    BY <1>2, <1>5
  <2>2. Unserved
    BY <1>1, <1>5, NoneUnserved
  <2> QED BY <2>1, <2>2 DEF Outcome
<1>6. CASE /\ request.host # <<>> /\ Consistent /\ FirstHttp(c) = 0
           /\ c # <<>> /\ SelectRouteTarget(c[1].locations, request.path) # 0
  <2>1. c[1] \in vhosts /\ Eligible(c[1])
    <3>1. c \in Seq(EligibleHosts)
      BY <1>1, CandidatesAre
    <3>2. c[1] \in EligibleHosts
      BY <1>6, <3>1
    <3> QED BY <3>2 DEF EligibleHosts
  <2>2. Chosen(c[1], SelectRouteTarget(c[1].locations, request.path))
    BY <1>6, <2>1, LocationChosen
  <2> QED BY <1>2, <1>6, <2>2 DEF Outcome
<1> QED BY <1>3, <1>4, <1>5, <1>6

\* The inductive invariant of the module.
RoutingInv == Scenario /\ (pc = "resolve" \/ (pc = "done" /\ Outcome(result)))

\* An outcome stays one while the scenario does not change.
LEMMA OutcomeKept ==
  ASSUME vhosts' = vhosts, request' = request, rewrite' = rewrite, NEW r, Outcome(r)
  PROVE  Outcome(r)'
<1>1. \A v : (Eligible(v) <=> Eligible(v)') /\ (Silent(v) <=> Silent(v)')
  BY DEF Eligible, RoutingHost, Silent, Matches
<1>2. \A v, i : Chosen(v, i) => Chosen(v, i)'
  BY <1>1 DEF Chosen, BestOfRules, Matches
<1>3. \A v, i : Found(v, i)' = Found(v, i)
  BY DEF Found, RewriteUri
<1>4. Unserved => Unserved'
  BY <1>1 DEF Unserved
<1>5. Consistent <=> Consistent'
  BY DEF Consistent
<1> QED BY <1>2, <1>3, <1>4, <1>5 DEF Outcome

\* What a request is resolved to is an outcome of resolve_route in a possible scenario.
THEOREM RoutingInvariance == RoutingSpec => []RoutingInv
<1>1. RoutingInit => RoutingInv
  BY ScenariosAssumption DEF RoutingInit, RoutingInv, Scenario
<1>2. RoutingInv /\ [RoutingNext]_routingVars => RoutingInv'
  <2> SUFFICES ASSUME RoutingInv, [RoutingNext]_routingVars PROVE RoutingInv'
    OBVIOUS
  <2>1. vhosts' = vhosts /\ request' = request /\ rewrite' = rewrite
    BY DEF RoutingNext, Resolve, Done, routingVars
  <2>2. Scenario /\ Scenario'
    BY <2>1 DEF RoutingInv, Scenario
  <2>3. CASE Resolve
    <3>1. PICK r : r = ResolveRoute
      OBVIOUS
    <3>2. Outcome(r)'
      BY <2>1, <2>2, <3>1, Outcomes, OutcomeKept
    <3>3. pc' = "done" /\ result' = r
      BY <2>3, <3>1 DEF Resolve
    <3> QED BY <2>2, <3>2, <3>3 DEF RoutingInv, Outcome
  <2>4. CASE UNCHANGED routingVars
    <3>1. pc' = pc /\ result' = result
      BY <2>4 DEF routingVars
    <3>2. PICK r : r = result
      OBVIOUS
    <3>3. pc = "done" => Outcome(r)'
      BY <2>1, <3>2, OutcomeKept DEF RoutingInv
    <3> QED BY <2>2, <3>1, <3>2, <3>3 DEF RoutingInv, Outcome
  <2> QED BY <2>3, <2>4 DEF RoutingNext, Done
<1> QED BY <1>1, <1>2, PTL DEF RoutingSpec

-----------------------------------------------------------------------------
(* What the documentation says *)

\* The fields of a route.
LEMMA FoundIs ==
  ASSUME NEW v, NEW i
  PROVE  /\ Found(v, i).status = 200 /\ Found(v, i).name = v.name /\ Found(v, i).index = i
         /\ Found(v, i) # NoRoute
<1>1. Found(v, i).status = 200 /\ Found(v, i).name = v.name /\ Found(v, i).index = i
  BY DEF Found
<1>2. NoRoute.status = 404
  BY DEF NoRoute
<1> QED BY <1>1, <1>2

\* The status of what is not routed.
LEMMA FailedIs ==
  /\ NoRoute.status = 404
  /\ Failed(400).status = 400 /\ Failed(421).status = 421
  /\ Failed(400) # NoRoute /\ Failed(421) # NoRoute
<1>1. NoRoute.status = 404 /\ Failed(400).status = 400 /\ Failed(421).status = 421
  BY DEF NoRoute, Failed
<1> QED BY <1>1

\* A request that was routed was routed to the best location of the selected server.
LEMMA RoutedIs ==
  ASSUME RoutingInv, pc = "done", result.status = 200
  PROVE  /\ Consistent /\ Chosen(Server, result.index) /\ Server.name = result.name
         /\ result = Found(Server, result.index)
<1>1. Scenario /\ Outcome(result)
  BY DEF RoutingInv
<1>2. PICK v, i : Consistent /\ Chosen(v, i) /\ result = Found(v, i)
  BY <1>1, FailedIs DEF Outcome
<1>3. result.name = v.name /\ result.index = i
  BY <1>2, FoundIs
<1>4. Server = v
  <2>1. v \in vhosts /\ \A w \in vhosts : w.name = v.name => w = v
    BY <1>1, <1>2 DEF Chosen, Scenario, IsServers
  <2> QED BY <1>3, <2>1 DEF Server
<1> QED BY <1>2, <1>3, <1>4

\* The Host header and the name of the TLS session agree.
LEMMA BoundToSession ==
  ASSUME RoutingInv
  PROVE  TlsBound
<1> SUFFICES ASSUME Routed, request.sni # NoHost
             PROVE  result.name = Default \/ NameMatches(result.name, request.sni)
  BY DEF TlsBound
<1>1. Consistent /\ Chosen(Server, result.index) /\ Server.name = result.name
  BY RoutedIs DEF Routed
<1>2. Eligible(Server)
  BY <1>1 DEF Chosen
<1>3. RoutingHost # NoHost => RoutingHost = request.sni
  BY <1>1 DEF RoutingHost, Consistent
<1> QED BY <1>1, <1>2, <1>3 DEF Eligible

\* The order of nginx locations.
LEMMA OrderOfLocations ==
  ASSUME RoutingInv
  PROVE  MatchOrder
<1>1. ASSUME Routed, ~IsHttp(Server)
      PROVE  /\ Applies(Location, request.path)
             /\ \A i \in DOMAIN Server.locations :
                  LET l == Server.locations[i]
                  IN Applies(l, request.path) =>
                       \/ Above(LocationRank(Location), LocationRank(l))
                       \/ LocationRank(Location) = LocationRank(l) /\ result.index <= i
  <2>1. PICK v : v = Server
    OBVIOUS
  <2>2. Chosen(v, result.index)
    BY <1>1, <2>1, RoutedIs DEF Routed
  <2>3. v \in vhosts /\ BestLocation(v.locations, request.path, result.index)
    BY <1>1, <2>1, <2>2 DEF Chosen
  <2>4. DOMAIN v.locations = 1 .. Len(v.locations)
    BY <2>3, HostLocations DEF RoutingInv
  <2>5. \A i \in DOMAIN v.locations : v.locations[i].kind \notin HttpKinds
    BY <1>1, <2>1 DEF IsHttp
  <2>6. Location = v.locations[result.index]
    BY <2>1 DEF Location
  <2> QED BY <2>1, <2>3, <2>4, <2>5, <2>6 DEF BestLocation
<1>2. ASSUME pc = "done", result = NoRoute, NEW v \in vhosts, vhosts = {v}, v.name = Default, ~IsHttp(v)
      PROVE  \A i \in DOMAIN v.locations : ~Applies(v.locations[i], request.path)
  <2>1. Unserved
    BY <1>2, FailedIs, FoundIs DEF RoutingInv, Outcome
  <2>2. NoLocation(v.locations, request.path)
    BY <1>2, <2>1 DEF Unserved
  <2>3. DOMAIN v.locations = 1 .. Len(v.locations)
    BY HostLocations DEF RoutingInv
  <2>4. \A i \in DOMAIN v.locations : v.locations[i].kind \notin HttpKinds
    BY <1>2 DEF IsHttp
  <2> QED BY <2>2, <2>3, <2>4 DEF NoLocation
<1> QED BY <1>1, <1>2 DEF MatchOrder

\* The order of HTTP rules.
LEMMA OrderOfRules ==
  ASSUME RoutingInv
  PROVE  BestHttpRule
<1> SUFFICES ASSUME pc = "done", \A v \in vhosts : IsHttp(v), result.status \in {200, 404},
                    NEW w \in vhosts, NEW j \in DOMAIN w.locations,
                    Eligible(w), Matches(w.locations[j])
             PROVE  /\ result.status = 200
                    /\ ~Above(HostnameScore(w.name), HostnameScore(result.name))
                    /\ w.name = result.name =>
                         /\ ~Above(MatchScore(w.locations[j]), MatchScore(Location))
                         /\ ~(j < result.index /\ MatchScore(w.locations[j]) = MatchScore(Location))
  BY DEF BestHttpRule
<1>1. result.status = 200
  <2> SUFFICES ASSUME result.status # 200 PROVE FALSE
    OBVIOUS
  <2>1. Unserved
    BY FailedIs, FoundIs DEF RoutingInv, Outcome
  <2> QED BY <2>1 DEF Unserved, Silent
<1>2. PICK v : v = Server
  OBVIOUS
<1>3. Chosen(v, result.index) /\ v.name = result.name
  BY <1>1, <1>2, RoutedIs
<1>4. PICK i : i = result.index
  OBVIOUS
<1>5. /\ v \in vhosts /\ i \in DOMAIN v.locations /\ BestOfRules(v.locations, Len(v.locations), i)
      /\ i # 0 /\ ~Above(HostnameScore(w.name), HostnameScore(v.name))
  BY <1>3, <1>4 DEF Chosen, Silent
<1>6. ASSUME w.name = v.name
      PROVE  /\ ~Above(MatchScore(w.locations[j]), MatchScore(v.locations[i]))
             /\ ~(j < i /\ MatchScore(w.locations[j]) = MatchScore(v.locations[i]))
  <2>1. w = v
    BY <1>5, <1>6 DEF RoutingInv, Scenario, IsServers
  <2>2. /\ DOMAIN v.locations = 1 .. Len(v.locations) /\ Len(v.locations) \in Nat
        /\ \A k \in DOMAIN v.locations : IsLocation(v.locations[k])
    <3>1. IsLocations(v.locations)
      BY <1>5, HostLocations DEF RoutingInv
    <3> QED BY <3>1, LocationAt
  <2>3. PICK s, t : s = MatchScore(v.locations[i]) /\ t = MatchScore(v.locations[j])
    OBVIOUS
  <2>4. s \in [1 .. 5 -> Nat] /\ t \in [1 .. 5 -> Nat]
    BY <1>5, <2>1, <2>2, <2>3, MatchScores
  <2>5. Above(s, t) \/ (s = t /\ i <= j)
    BY <1>5, <2>1, <2>2, <2>3 DEF BestOfRules
  <2>6. ~Above(s, s) /\ ~(Above(s, t) /\ Above(t, s))
    <3>1. PICK m \in Nat : m = 5
      OBVIOUS
    <3>2. s \in [1 .. m -> Nat] /\ t \in [1 .. m -> Nat]
      BY <2>4, <3>1
    <3> QED BY <3>2, AboveOrders
  <2>7. ~(j < i /\ t = s)
    <3>1. CASE Above(s, t)
      BY <2>6, <3>1
    <3>2. CASE i <= j
      BY <1>5, <2>1, <2>2, <3>2
    <3> QED BY <2>5, <3>1, <3>2
  <2> QED BY <2>1, <2>3, <2>5, <2>6, <2>7
<1>7. Location = v.locations[i]
  BY <1>2, <1>4 DEF Location
<1> QED BY <1>1, <1>3, <1>4, <1>5, <1>6, <1>7

\* The selected location is the best one, in the order of nginx among the locations of
\* its virtual host, in the order of HTTPRoute among the rules of all of them, and a
\* request is refused only if nothing matches.
THEOREM RouteIsBest == RoutingSpec => []BestMatch
<1>1. RoutingInv => BestMatch
  BY OrderOfLocations, OrderOfRules DEF BestMatch
<1> QED BY <1>1, RoutingInvariance, PTL

\* A request is served by a virtual host of the name its TLS session was made for, or by
\* the default server.
THEOREM RouteIsTlsBound == RoutingSpec => []TlsBound
BY BoundToSession, RoutingInvariance, PTL

-----------------------------------------------------------------------------
(* The segments of a path *)

SegmentSeqs == Seq(Seq(STRING))
NoSegments == <<>>
SegmentStep(acc, c) ==
  IF c = "/" THEN Append(acc, <<>>) ELSE [acc EXCEPT ![Len(acc)] = Append(@, c)]
SegmentVisit(p, acc, i) == SegmentStep(acc, p[i])

\* A step makes a list of segments of one.
LEMMA SegmentVisitType ==
  ASSUME NEW p \in Seq(STRING)
  PROVE  /\ NoSegments \in SegmentSeqs
         /\ \A acc \in SegmentSeqs, i \in 1 .. Len(p) : SegmentVisit(p, acc, i) \in SegmentSeqs
<1>1. NoSegments \in SegmentSeqs
  BY DEF NoSegments, SegmentSeqs
<1>2. ASSUME NEW acc \in SegmentSeqs, NEW i \in 1 .. Len(p)
      PROVE  SegmentVisit(p, acc, i) \in SegmentSeqs
  <2>1. p[i] \in STRING
    OBVIOUS
  <2>2. Append(acc, <<>>) \in SegmentSeqs
    BY DEF SegmentSeqs
  <2>3. [acc EXCEPT ![Len(acc)] = Append(@, p[i])] \in SegmentSeqs
    <3> PICK S : S = Seq(STRING)
      OBVIOUS
    <3>1. acc \in Seq(S) /\ \A s \in S : Append(s, p[i]) \in S
      BY <2>1 DEF SegmentSeqs
    <3> PICK x : x = Append(acc[Len(acc)], p[i])
      OBVIOUS
    <3>2. Len(acc) \in DOMAIN acc => x \in S
      BY <3>1
    <3>3. [acc EXCEPT ![Len(acc)] = x] \in Seq(S)
      <4>1. CASE Len(acc) \in 1 .. Len(acc)
        BY <3>1, <3>2, <4>1, ExceptSeq
      <4>2. CASE Len(acc) \notin 1 .. Len(acc)
        <5>1. [acc EXCEPT ![Len(acc)] = x] = acc
          BY <3>1, <4>2
        <5> QED BY <3>1, <5>1
      <4> QED BY <4>1, <4>2
    <3> QED BY <3>3 DEF SegmentSeqs
  <2> QED BY <2>2, <2>3, Zenon DEF SegmentVisit, SegmentStep
<1> QED BY <1>1, <1>2

\* The segments of a path, character by character.
LEMMA SegmentSteps ==
  ASSUME NEW p \in Seq(STRING)
  PROVE  \E h : /\ h[0] = NoSegments /\ Segments(p) = h[Len(p)]
                /\ \A k \in 1 .. Len(p) : h[k] = SegmentVisit(p, h[k - 1], k)
<1> DEFINE n == Len(p)
           Solves(f) ==
             f = [t \in SUBSET (1 .. n) |->
                    IF t = {} THEN NoSegments ELSE SegmentVisit(p, f[t \ {Max(t)}], Max(t))]
           step == [q \in SegmentSeqs \X (1 .. n) |-> SegmentVisit(p, q[1], q[2])]
<1>1. n \in Nat /\ DOMAIN p = 1 .. n
  OBVIOUS
<1> HIDE DEF n
<1>2. Segments(p) = (CHOOSE f : Solves(f))[1 .. n]
  BY <1>1, Zenon DEF Segments, FoldLeft, MapThenFoldSet, SegmentVisit, SegmentStep, NoSegments
<1>3. step \in [SegmentSeqs \X (1 .. n) -> SegmentSeqs]
  BY <1>1, SegmentVisitType DEF n
<1>4. PICK g \in [SUBSET (1 .. n) -> SegmentSeqs] : IsFold(g, n, NoSegments, step)
  <2> HIDE DEF step
  <2>1. NoSegments \in SegmentSeqs
    BY <1>1, SegmentVisitType DEF n
  <2>2. PICK D : D = SegmentSeqs
    OBVIOUS
  <2>3. \E g \in [SUBSET (1 .. n) -> D] : IsFold(g, n, NoSegments, step)
    BY <1>1, <1>3, <2>1, <2>2, FoldExists
  <2> QED BY <2>2, <2>3
<1>5. \A t \in SUBSET (1 .. n) :
        t # {} => step[<<g[t \ {Max(t)}], Max(t)>>] = SegmentVisit(p, g[t \ {Max(t)}], Max(t))
  BY <1>1, MaxIndex
<1>6. Solves(g)
  <2> HIDE DEF step
  <2>1. g = [t \in SUBSET (1 .. n) |->
               IF t = {} THEN NoSegments ELSE SegmentVisit(p, g[t \ {Max(t)}], Max(t))]
    BY <1>4, <1>5 DEF IsFold
  <2> QED BY <2>1, Zenon
<1>7. PICK f : Solves(f) /\ Segments(p) = f[1 .. n]
  <2>1. Solves(CHOOSE f : Solves(f))
    <3> HIDE DEF Solves
    <3> QED BY <1>6, Zenon
  <2> HIDE DEF Solves
  <2> QED BY <1>2, <2>1, Zenon
<1> DEFINE h == [k \in 0 .. n |-> f[1 .. k]]
<1>8. h[0] = NoSegments /\ h[n] = f[1 .. n]
  <2>1. (1 .. 0) = {} /\ {} \in SUBSET (1 .. n)
    OBVIOUS
  <2>2. f[{}] = NoSegments
    BY <1>7, <2>1
  <2>3. 0 \in 0 .. n /\ n \in 0 .. n
    BY <1>1
  <2>4. h[0] = f[1 .. 0] /\ h[n] = f[1 .. n]
    BY <2>3
  <2> QED BY <2>1, <2>2, <2>4
<1>9. ASSUME NEW k \in 1 .. n PROVE h[k] = SegmentVisit(p, h[k - 1], k)
  <2>1. /\ (1 .. k) \in SUBSET (1 .. n) /\ (1 .. k) # {}
        /\ Max(1 .. k) = k /\ (1 .. k) \ {Max(1 .. k)} = 1 .. (k - 1)
    BY <1>1, InitialPart
  <2>2. f[1 .. k] = SegmentVisit(p, f[(1 .. k) \ {Max(1 .. k)}], Max(1 .. k))
    BY <1>7, <2>1
  <2>3. k \in 0 .. n /\ k - 1 \in 0 .. n
    BY <1>1
  <2>4. h[k] = f[1 .. k] /\ h[k - 1] = f[1 .. (k - 1)]
    BY <2>3
  <2> QED BY <2>1, <2>2, <2>4
<1> HIDE DEF h
<1> QED BY <1>7, <1>8, <1>9 DEF n

\* The fold visits the characters one by one; all it passes are lists of segments.
SegmentFold(p, h) ==
  /\ h[0] = NoSegments /\ Segments(p) = h[Len(p)]
  /\ \A k \in 1 .. Len(p) : h[k] = SegmentVisit(p, h[k - 1], k)
  /\ \A k \in 0 .. Len(p) : h[k] \in SegmentSeqs

\* Such values exist for every path.
LEMMA SegmentsAre ==
  ASSUME NEW p \in Seq(STRING)
  PROVE  \E h : SegmentFold(p, h)
<1> DEFINE n == Len(p)
<1>1. n \in Nat
  OBVIOUS
<1>2. PICK h : /\ h[0] = NoSegments /\ Segments(p) = h[n]
               /\ \A k \in 1 .. n : h[k] = SegmentVisit(p, h[k - 1], k)
  BY SegmentSteps
<1> DEFINE bad == {k \in 0 .. n : h[k] \notin SegmentSeqs}
<1>3. bad = {}
  <2> SUFFICES ASSUME bad # {} PROVE FALSE
    OBVIOUS
  <2>1. PICK k \in bad : \A j \in bad : k <= j
    <3>1. bad \in SUBSET Nat
      OBVIOUS
    <3> HIDE DEF bad
    <3> QED BY <3>1, LeastNat
  <2>2. k \in 0 .. n /\ h[k] \notin SegmentSeqs
    BY <2>1
  <2>3. k # 0
    BY <1>2, <2>2, SegmentVisitType
  <2>4. k \in 1 .. n /\ k - 1 \in 0 .. n /\ k - 1 \notin bad
    <3>1. \A j \in bad : j \in Nat
      OBVIOUS
    <3> HIDE DEF bad, n
    <3> QED BY <1>1, <2>1, <2>2, <2>3, <3>1
  <2>5. h[k - 1] \in SegmentSeqs
    BY <2>4
  <2> HIDE DEF bad
  <2> QED BY <1>2, <2>2, <2>4, <2>5, SegmentVisitType
<1> QED BY <1>2, <1>3 DEF SegmentFold

\* Appending keeps the type of a sequence.
LEMMA AppendType ==
  ASSUME NEW S, NEW s \in Seq(S), NEW e \in S
  PROVE  Append(s, e) \in Seq(S)
OBVIOUS

\* Appending to a concatenation appends to its second part.
LEMMA AppendConcat ==
  ASSUME NEW S, NEW s \in Seq(S), NEW t \in Seq(S), NEW e \in S
  PROVE  Append(s \o t, e) = s \o Append(t, e) /\ Append(t, e) # <<>>
OBVIOUS

\* A step on the second part of a list leaves the first one alone.
LEMMA StepAppended ==
  ASSUME NEW S, NEW s \in Seq(S), NEW t \in Seq(S), t # <<>>,
         NEW c, <<>> \in S, Append(t[Len(t)], c) \in S
  PROVE  SegmentStep(s \o t, c) = s \o SegmentStep(t, c) /\ SegmentStep(t, c) # <<>>
<1>2. s \in Seq(S) /\ t \in Seq(S) /\ <<>> \in S
  OBVIOUS
<1>3. CASE c = "/"
  <2>1. SegmentStep(s \o t, c) = Append(s \o t, <<>>) /\ SegmentStep(t, c) = Append(t, <<>>)
    BY <1>3 DEF SegmentStep
  <2>2. Append(s \o t, <<>>) = s \o Append(t, <<>>) /\ Append(t, <<>>) # <<>>
    <3>1. PICK e : e = <<>>
      OBVIOUS
    <3>2. e \in S /\ s \in Seq(S) /\ t \in Seq(S)
      BY <1>2, <3>1
    <3>3. Append(s \o t, e) = s \o Append(t, e)
      BY <3>2, AppendConcat
    <3>4. Append(t, e) # <<>>
      BY <3>2, AppendConcat
    <3> QED BY <3>1, <3>3, <3>4
  <2> QED BY <2>1, <2>2
<1>4. CASE c # "/"
  <2>1. PICK u : u = s \o t
    OBVIOUS
  <2>2. /\ u \in Seq(S) /\ Len(u) = Len(s) + Len(t)
        /\ \A k \in 1 .. Len(s) + Len(t) : u[k] = IF k <= Len(s) THEN s[k] ELSE t[k - Len(s)]
    BY <1>2, <2>1, ConcatProperties
  <2>3. /\ Len(s) \in Nat /\ Len(t) \in Nat /\ Len(t) \in 1 .. Len(t)
        /\ Len(u) \in 1 .. Len(u) /\ u[Len(u)] = t[Len(t)]
    <3>1. Len(s) \in Nat /\ Len(t) \in Nat /\ Len(t) # 0
      BY <1>2
    <3>2. Len(t) \in 1 .. Len(t) /\ Len(u) \in 1 .. Len(u) /\ ~(Len(u) <= Len(s)) /\ Len(u) - Len(s) = Len(t)
      BY <2>2, <3>1
    <3> QED BY <2>2, <3>1, <3>2
  <2>4. PICK x : x = Append(t[Len(t)], c)
    OBVIOUS
  <2>5. x \in S
    BY <2>4
  <2>6. PICK v, w : v = [u EXCEPT ![Len(u)] = x] /\ w = [t EXCEPT ![Len(t)] = x]
    OBVIOUS
  <2>7. SegmentStep(s \o t, c) = v /\ SegmentStep(t, c) = w
    BY <1>4, <2>1, <2>3, <2>4, <2>6 DEF SegmentStep
  <2>8. /\ v \in Seq(S) /\ Len(v) = Len(u)
        /\ \A k \in 1 .. Len(u) : v[k] = IF k = Len(u) THEN x ELSE u[k]
    BY <2>2, <2>3, <2>5, <2>6, ExceptSeq
  <2>9. /\ w \in Seq(S) /\ Len(w) = Len(t)
        /\ \A k \in 1 .. Len(t) : w[k] = IF k = Len(t) THEN x ELSE t[k]
    BY <1>2, <2>3, <2>5, <2>6, ExceptSeq
  <2>10. PICK y : y = s \o w
    OBVIOUS
  <2>11. /\ y \in Seq(S) /\ Len(y) = Len(s) + Len(w)
         /\ \A k \in 1 .. Len(s) + Len(w) : y[k] = IF k <= Len(s) THEN s[k] ELSE w[k - Len(s)]
    <3>1. s \in Seq(S) /\ w \in Seq(S)
      BY <1>2, <2>9
    <3> QED BY <2>10, <3>1, ConcatProperties
  <2>12. Len(v) = Len(y)
    BY <2>2, <2>8, <2>9, <2>11
  <2>13. ASSUME NEW k \in 1 .. Len(v) PROVE v[k] = y[k]
    <3>1. k \in 1 .. Len(s) + Len(t) /\ k \in 1 .. Len(s) + Len(w) /\ k \in 1 .. Len(u)
      BY <2>2, <2>8, <2>9
    <3>2. CASE k <= Len(s)
      <4>1. k # Len(u)
        BY <2>2, <2>3, <3>1, <3>2
      <4> QED BY <2>2, <2>8, <2>11, <3>1, <3>2, <4>1
    <3>3. CASE ~(k <= Len(s))
      <4>1. PICK m \in 1 .. Len(t) : m = k - Len(s)
        <5>1. k - Len(s) \in 1 .. Len(t)
          BY <2>3, <3>1, <3>3
        <5> QED BY <5>1
      <4>2. k = Len(u) <=> m = Len(t)
        <5>1. PICK i \in Nat, j \in Nat : i = Len(s) /\ j = Len(t)
          BY <2>3
        <5>2. Len(u) = i + j /\ m = k - i
          BY <2>2, <4>1, <5>1
        <5> QED BY <5>1, <5>2
      <4>3. y[k] = w[m] /\ u[k] = t[m]
        BY <2>2, <2>11, <3>1, <3>3, <4>1
      <4> QED BY <2>8, <2>9, <3>1, <4>1, <4>2, <4>3
    <3> QED BY <3>2, <3>3
  <2>14. v = y
    BY <2>8, <2>11, <2>12, <2>13, SeqEqual
  <2>15. w # <<>>
    BY <2>3, <2>9
  <2> QED BY <2>7, <2>10, <2>14, <2>15
<1> QED BY <1>3, <1>4

\* The segments of a path are those of its first part and of the rest, if the rest begins
\* at a slash.
LEMMA SegmentsConcat ==
  ASSUME NEW a \in Seq(STRING), NEW b \in Seq(STRING), b # <<>>, b[1] = "/"
  PROVE  /\ Segments(a \o b) = Segments(a) \o Segments(b)
         /\ Segments(a) \in SegmentSeqs /\ Segments(b) \in SegmentSeqs /\ Segments(b) # <<>>
<1>1. PICK p : p = a \o b
  OBVIOUS
<1>2. PICK m, n : m = Len(a) /\ n = Len(b)
  OBVIOUS
<1>3. m \in Nat /\ n \in Nat /\ n # 0
  BY <1>2
<1>4. /\ p \in Seq(STRING) /\ Len(p) = m + n
      /\ \A i \in 1 .. m : p[i] = a[i]
      /\ \A i \in 1 .. n : p[m + i] = b[i]
  BY <1>1, <1>2
<1>5. PICK h : SegmentFold(p, h)
  BY <1>4, SegmentsAre
<1>6. PICK f : SegmentFold(a, f)
  BY SegmentsAre
<1>7. PICK g : SegmentFold(b, g)
  BY SegmentsAre
<1>8. /\ h[0] = NoSegments /\ Segments(p) = h[m + n]
      /\ \A k \in 1 .. m + n : h[k] = SegmentVisit(p, h[k - 1], k)
  BY <1>4, <1>5 DEF SegmentFold
<1>9. /\ f[0] = NoSegments /\ Segments(a) = f[m]
      /\ \A k \in 1 .. m : f[k] = SegmentVisit(a, f[k - 1], k)
      /\ \A k \in 0 .. m : f[k] \in SegmentSeqs
  BY <1>2, <1>6 DEF SegmentFold
<1>10. /\ g[0] = NoSegments /\ Segments(b) = g[n]
       /\ \A k \in 1 .. n : g[k] = SegmentVisit(b, g[k - 1], k)
       /\ \A k \in 0 .. n : g[k] \in SegmentSeqs
  BY <1>2, <1>7 DEF SegmentFold
<1>11. h[m] = f[m]
  <2> DEFINE bad == {k \in 0 .. m : h[k] # f[k]}
  <2>1. bad = {}
    <3> SUFFICES ASSUME bad # {} PROVE FALSE
      OBVIOUS
    <3>1. PICK k \in bad : \A j \in bad : k <= j
      <4>1. bad \in SUBSET Nat
        BY <1>3
      <4> HIDE DEF bad
      <4> QED BY <4>1, LeastNat
    <3>2. k \in 0 .. m /\ h[k] # f[k]
      BY <3>1
    <3>3. k \in 1 .. m /\ k - 1 \in 0 .. m /\ k - 1 \notin bad
      <4>1. k # 0
        BY <1>8, <1>9, <3>2
      <4>2. \A j \in bad : j \in Nat
        BY <1>3
      <4> HIDE DEF bad
      <4> QED BY <1>3, <3>1, <3>2, <4>1, <4>2
    <3>4. h[k - 1] = f[k - 1]
      BY <3>3
    <3> HIDE DEF bad
    <3>5. k \in 1 .. m + n /\ p[k] = a[k]
      BY <1>3, <1>4, <3>3
    <3>6. h[k] = SegmentVisit(p, h[k - 1], k) /\ f[k] = SegmentVisit(a, f[k - 1], k)
      BY <1>8, <1>9, <3>3, <3>5
    <3>7. SegmentVisit(p, h[k - 1], k) = SegmentVisit(a, f[k - 1], k)
      BY <3>4, <3>5 DEF SegmentVisit
    <3> QED BY <3>2, <3>6, <3>7
  <2>2. m \in 0 .. m /\ m \notin bad
    <3> HIDE DEF bad
    <3> QED BY <1>3, <2>1
  <2> QED BY <2>2
<1>12. PICK s \in SegmentSeqs : s = f[m]
  <2>1. m \in 0 .. m
    BY <1>3
  <2> QED BY <1>9, <2>1
<1>13. h[m + n] = s \o g[n] /\ g[n] # <<>>
  <2> DEFINE bad == {k \in 1 .. n : ~(h[m + k] = s \o g[k] /\ g[k] # <<>>)}
  <2>1. bad = {}
    <3> SUFFICES ASSUME bad # {} PROVE FALSE
      OBVIOUS
    <3>1. PICK k \in bad : \A j \in bad : k <= j
      <4>1. bad \in SUBSET Nat
        BY <1>3
      <4> HIDE DEF bad
      <4> QED BY <4>1, LeastNat
    <3>2. k \in 1 .. n /\ ~(h[m + k] = s \o g[k] /\ g[k] # <<>>)
      BY <3>1
    <3> HIDE DEF bad
    <3>3. /\ m + k \in 1 .. m + n /\ (m + k) - 1 = m + (k - 1) /\ p[m + k] = b[k]
          /\ k \in 1 .. Len(b) /\ m + k \in 1 .. Len(p)
      <4>1. k \in 1 .. n
        BY <3>2
      <4>2. m + k \in 1 .. m + n /\ (m + k) - 1 = m + (k - 1)
        BY <1>3, <4>1
      <4> QED BY <1>2, <1>3, <1>4, <4>1, <4>2
    <3>4. h[m + k] = SegmentVisit(p, h[m + (k - 1)], m + k) /\ g[k] = SegmentVisit(b, g[k - 1], k)
      BY <1>8, <1>10, <3>2, <3>3
    <3>5. CASE k = 1
      <4>1. h[m + (k - 1)] = s /\ g[k - 1] = <<>>
        BY <1>3, <1>10, <1>11, <1>12, <3>5 DEF NoSegments
      <4>2. h[m + k] = Append(s, <<>>) /\ g[k] = Append(<<>>, <<>>)
        BY <3>3, <3>4, <3>5, <4>1 DEF SegmentVisit, SegmentStep
      <4>3. PICK S : S = Seq(STRING)
        OBVIOUS
      <4>4. s \in Seq(S) /\ <<>> \in S
        BY <4>3 DEF SegmentSeqs
      <4>5. s \o <<>> = s /\ <<>> \in Seq(S)
        BY <4>4
      <4>6. Append(s \o <<>>, <<>>) = s \o Append(<<>>, <<>>) /\ Append(<<>>, <<>>) # <<>>
        <5>1. PICK e, o : e = <<>> /\ o = <<>>
          OBVIOUS
        <5>2. e \in S /\ o \in Seq(S)
          BY <4>4, <4>5, <5>1
        <5>3. Append(s \o o, e) = s \o Append(o, e) /\ Append(o, e) # <<>>
          BY <4>4, <5>2, AppendConcat
        <5> QED BY <5>1, <5>3
      <4> QED BY <3>2, <4>2, <4>5, <4>6
    <3>6. CASE k # 1
      <4>1. k - 1 \in 1 .. n /\ k - 1 \notin bad
        <5>1. \A j \in bad : j \in Nat
          BY <1>3 DEF bad
        <5> QED BY <1>3, <3>1, <3>2, <3>6, <5>1
      <4>2. h[m + (k - 1)] = s \o g[k - 1] /\ g[k - 1] # <<>>
        BY <4>1 DEF bad
      <4>3. PICK t \in SegmentSeqs : t = g[k - 1]
        <5>1. k - 1 \in 0 .. n
          BY <4>1
        <5> QED BY <1>10, <5>1
      <4>4. b[k] \in STRING
        BY <3>3
      <4>5. SegmentStep(s \o t, b[k]) = s \o SegmentStep(t, b[k]) /\ SegmentStep(t, b[k]) # <<>>
        <5>1. PICK S : S = Seq(STRING)
          OBVIOUS
        <5>2. s \in Seq(S) /\ t \in Seq(S) /\ t # <<>> /\ <<>> \in S
          BY <4>2, <4>3, <5>1 DEF SegmentSeqs
        <5>3. t[Len(t)] \in S
          BY <5>2
        <5>4. Append(t[Len(t)], b[k]) \in S
          BY <4>4, <5>1, <5>3, AppendType
        <5> QED BY <5>2, <5>4, StepAppended
      <4> QED BY <3>2, <3>3, <3>4, <4>2, <4>3, <4>5 DEF SegmentVisit
    <3> QED BY <3>5, <3>6
  <2>2. n \in 1 .. n /\ n \notin bad
    <3> HIDE DEF bad
    <3> QED BY <1>3, <2>1
  <2> QED BY <2>2
<1>14. n \in 0 .. n
  BY <1>3
<1> QED BY <1>1, <1>8, <1>9, <1>10, <1>12, <1>13, <1>14

\* An empty path has no segments.
LEMMA NoSegmentsOfEmpty == Segments(<<>>) = <<>>
<1>1. PICK p \in Seq(STRING) : p = <<>>
  BY EmptySeq
<1>2. PICK h : SegmentFold(p, h)
  BY SegmentsAre
<1>3. Len(p) = 0
  BY <1>1
<1> QED BY <1>1, <1>2, <1>3 DEF SegmentFold, NoSegments

\* What is trimmed has nothing left to trim.
LEMMA TrimTwice ==
  ASSUME NEW p \in Seq(STRING)
  PROVE  Trim(Trim(p)) = Trim(p)
<1>1. PICK t : t = Trim(p)
  OBVIOUS
<1>2. t \in Seq(STRING) /\ (t # <<>> => t[Len(t)] # "/")
  BY <1>1, TrimIs
<1>3. PICK u : u = Trim(t)
  OBVIOUS
<1>4. /\ u \in Seq(STRING) /\ Len(u) <= Len(t) /\ \A i \in 1 .. Len(u) : u[i] = t[i]
      /\ \A i \in 1 .. Len(t) : i > Len(u) => t[i] = "/"
  BY <1>2, <1>3, TrimIs
<1>5. Len(u) = Len(t)
  <2>1. CASE t = <<>>
    BY <1>4, <2>1
  <2>2. CASE t # <<>>
    <3>1. Len(t) \in 1 .. Len(t) /\ Len(u) \in Nat
      BY <1>2, <1>4, <2>2
    <3> QED BY <1>2, <1>4, <2>2, <3>1
  <2> QED BY <2>1, <2>2
<1>6. PICK S : S = STRING
  OBVIOUS
<1>7. u = t
  <2>1. u \in Seq(S) /\ t \in Seq(S)
    BY <1>2, <1>4, <1>6
  <2> QED BY <1>4, <1>5, <2>1, SeqEqual
<1> QED BY <1>1, <1>3, <1>7

\* The path that compile_match keeps trims to the same prefix.
LEMMA TrimCompiled ==
  ASSUME NEW l, IsLocation(l), l.kind = "http_prefix"
  PROVE  Trim(Compiled(l)) = Trim(l.path)
<1>1. l.path \in Seq(STRING) /\ l.path # <<>> /\ l.path[1] = "/"
  BY DEF IsLocation, Absolute, HttpKinds
<1>2. CASE Trim(l.path) # <<>>
  <2>1. Compiled(l) = Trim(l.path)
    BY <1>2 DEF Compiled
  <2> QED BY <1>1, <2>1, TrimTwice
<1>3. CASE Trim(l.path) = <<>>
  <2>1. "/" \in STRING
    BY <1>1
  <2>2. PICK x : x = <<"/">>
    OBVIOUS
  <2>3. x \in Seq(STRING) /\ Len(x) = 1 /\ x[1] = "/"
    BY <2>1, <2>2
  <2>4. PICK u : u = Trim(x)
    OBVIOUS
  <2>5. /\ u \in Seq(STRING) /\ Len(u) <= 1 /\ \A i \in 1 .. Len(u) : u[i] = x[i]
        /\ u # <<>> => u[Len(u)] # "/"
    BY <2>3, <2>4, TrimIs
  <2>6. u = <<>>
    <3> SUFFICES ASSUME u # <<>> PROVE FALSE
      OBVIOUS
    <3>1. Len(u) = 1
      <4>1. PICK n \in Nat : n = Len(u) /\ n # 0
        BY <2>5
      <4>2. n <= 1
        BY <2>5, <4>1
      <4> QED BY <4>1, <4>2
    <3> QED BY <2>3, <2>5, <3>1
  <2>7. Compiled(l) = x
    BY <1>3, <2>2 DEF Compiled
  <2> QED BY <1>3, <2>4, <2>6, <2>7
<1> QED BY <1>2, <1>3

\* A prefix that matches splits the path, at a slash unless it is the whole path.
LEMMA PrefixSplits ==
  ASSUME NEW S, NEW p \in Seq(S), NEW path \in Seq(S),
         path = p \/ (IsStrictPrefix(p, path) /\ path[Len(p) + 1] = "/")
  PROVE  \E suffix \in Seq(S) :
           /\ suffix = SubSeq(path, Len(p) + 1, Len(path)) /\ path = p \o suffix
           /\ suffix = <<>> \/ suffix[1] = "/"
<1>1. PICK m, n : m = Len(p) /\ n = Len(path)
  OBVIOUS
<1>2. m \in Nat /\ n \in Nat
  BY <1>1
<1>3. m <= n /\ (path # p => m < n) /\ \A i \in 1 .. m : p[i] = path[i]
  <2>1. CASE path = p
    BY <1>1, <1>2, <2>1
  <2>2. CASE path # p /\ IsStrictPrefix(p, path)
    <3>1. m <= n /\ SubSeq(p, 1, m) = SubSeq(path, 1, m)
      BY <1>1, <2>2 DEF IsStrictPrefix, IsPrefix
    <3>2. ASSUME NEW i \in 1 .. m PROVE p[i] = path[i]
      <4>1. SubSeq(p, 1, m)[i] = p[i] /\ SubSeq(path, 1, m)[i] = path[i]
        BY <1>1, <1>2, <3>1
      <4> QED BY <3>1, <4>1
    <3>3. m # n
      <4> SUFFICES ASSUME m = n PROVE p = path
        BY <2>2
      <4> QED BY <1>1, <3>2, SeqEqual
    <3> QED BY <1>2, <3>1, <3>2, <3>3
  <2> QED BY <2>1, <2>2
<1>4. PICK s : s = SubSeq(path, m + 1, n)
  OBVIOUS
<1>5. s \in Seq(S) /\ Len(s) = n - m /\ \A i \in 1 .. n - m : s[i] = path[m + i]
  BY <1>1, <1>2, <1>3, <1>4
<1>6. path = p \o s
  <2>1. PICK q : q = p \o s
    OBVIOUS
  <2>2. /\ q \in Seq(S) /\ Len(q) = m + Len(s)
        /\ \A i \in 1 .. m + Len(s) : q[i] = IF i <= m THEN p[i] ELSE s[i - m]
    BY <1>1, <1>5, <2>1, ConcatProperties
  <2>3. Len(q) = n
    BY <1>2, <1>5, <2>2
  <2>4. ASSUME NEW i \in 1 .. n PROVE q[i] = path[i]
    <3>1. CASE i <= m
      BY <1>2, <1>3, <2>2, <2>3, <2>4, <3>1
    <3>2. CASE ~(i <= m)
      <4>1. PICK j : j = i - m
        OBVIOUS
      <4>2. j \in 1 .. n - m /\ m + j = i
        BY <1>2, <2>4, <3>2, <4>1
      <4>3. q[i] = s[j]
        BY <2>2, <2>3, <2>4, <3>2, <4>1
      <4> QED BY <1>5, <4>2, <4>3
    <3> QED BY <3>1, <3>2
  <2>5. q = path
    BY <1>1, <2>2, <2>3, <2>4, SeqEqual
  <2> QED BY <2>1, <2>5
<1>7. s = <<>> \/ s[1] = "/"
  <2>1. CASE path = p
    <3>1. Len(s) = 0
      BY <1>1, <1>2, <1>5, <2>1
    <3> QED BY <1>5, <3>1
  <2>2. CASE path # p
    <3>1. path[m + 1] = "/" /\ 1 \in 1 .. n - m
      BY <1>1, <1>2, <1>3, <2>2
    <3> QED BY <1>5, <3>1
  <2> QED BY <2>1, <2>2
<1> QED BY <1>1, <1>4, <1>5, <1>6, <1>7

\* A concatenation splits into its parts.
LEMMA ConcatSplits ==
  ASSUME NEW S, NEW a \in Seq(S), NEW b \in Seq(S)
  PROVE  /\ IsPrefix(a, a \o b)
         /\ SubSeq(a \o b, Len(a) + 1, Len(a \o b)) = b
<1>1. PICK c : c = a \o b
  OBVIOUS
<1>2. /\ c \in Seq(S) /\ Len(c) = Len(a) + Len(b) /\ Len(a) \in Nat /\ Len(b) \in Nat
      /\ \A i \in 1 .. Len(a) + Len(b) : c[i] = IF i <= Len(a) THEN a[i] ELSE b[i - Len(a)]
  BY <1>1, ConcatProperties
<1>3. PICK s, t : s = SubSeq(c, 1, Len(a)) /\ t = SubSeq(c, Len(a) + 1, Len(c))
  OBVIOUS
<1>4. s \in Seq(S) /\ Len(s) = Len(a) /\ \A i \in 1 .. Len(a) : s[i] = c[i]
  BY <1>2, <1>3
<1>5. t \in Seq(S) /\ Len(t) = Len(b) /\ \A i \in 1 .. Len(b) : t[i] = c[Len(a) + i]
  BY <1>2, <1>3
<1>6. s = a
  <2>1. \A i \in 1 .. Len(s) : s[i] = a[i]
    BY <1>2, <1>4
  <2> QED BY <1>4, <2>1, SeqEqual
<1>7. t = b
  <2>1. ASSUME NEW i \in 1 .. Len(t) PROVE t[i] = b[i]
    <3>1. PICK j \in 1 .. Len(a) + Len(b) : j = Len(a) + i
      BY <1>2, <1>5
    <3>2. ~(j <= Len(a)) /\ j - Len(a) = i
      BY <1>2, <1>5, <3>1
    <3> QED BY <1>2, <1>5, <3>1, <3>2
  <2> QED BY <1>5, <2>1, SeqEqual
<1>8. SubSeq(a, 1, Len(a)) = a
  OBVIOUS
<1> QED BY <1>1, <1>2, <1>3, <1>6, <1>7, <1>8 DEF IsPrefix

\* What rewrite_uri makes of a path whose first part is replaced.
LEMMA Rewritten ==
  ASSUME Scenario, NEW prefix, Trim(prefix) \in Seq(STRING), NEW suffix \in Seq(STRING),
         suffix = SubSeq(request.path, Len(Trim(prefix)) + 1, Len(request.path)),
         suffix = <<>> \/ suffix[1] = "/"
  PROVE  /\ RewriteUri(prefix, request.path) # <<>> /\ RewriteUri(prefix, request.path)[1] = "/"
         /\ suffix # <<>> =>
              Segments(RewriteUri(prefix, request.path)) = Segments(Trim(rewrite)) \o Segments(suffix)
<1>1. PICK r : r = RewriteUri(prefix, request.path)
  OBVIOUS
<1>2. PICK t : t = Trim(rewrite)
  OBVIOUS
<1>3. rewrite \in Seq(STRING) /\ (rewrite # <<>> => rewrite[1] = "/")
  <2>1. rewrite = <<>> \/ Absolute(rewrite)
    BY DEF Scenario
  <2> QED BY <2>1, EmptySeq DEF Absolute
<1>4. t \in Seq(STRING) /\ (t # <<>> => t[1] = "/")
  <2>1. /\ t \in Seq(STRING) /\ Len(t) <= Len(rewrite) /\ \A i \in 1 .. Len(t) : t[i] = rewrite[i]
    BY <1>2, <1>3, TrimIs
  <2>2. ASSUME t # <<>> PROVE t[1] = "/"
    <3>1. 1 \in 1 .. Len(t) /\ rewrite # <<>>
      BY <1>3, <2>1, <2>2
    <3> QED BY <1>3, <2>1, <3>1
  <2> QED BY <2>1, <2>2
<1>5. CASE suffix = <<>>
  <2>1. r = IF rewrite = <<>> THEN <<"/">> ELSE rewrite
    BY <1>1, <1>5 DEF RewriteUri
  <2>2. <<"/">> # <<>> /\ <<"/">>[1] = "/"
    OBVIOUS
  <2> QED BY <1>1, <1>3, <1>5, <2>1, <2>2
<1>6. CASE suffix # <<>>
  <2>1. PICK q : q = t \o suffix
    OBVIOUS
  <2>2. q # <<>> /\ q[1] = "/"
    <3>1. PICK S : S = STRING
      OBVIOUS
    <3>2. t \in Seq(S) /\ suffix \in Seq(S)
      BY <1>4, <3>1
    <3>3. /\ q \in Seq(S) /\ Len(q) = Len(t) + Len(suffix)
          /\ \A i \in 1 .. Len(t) + Len(suffix) : q[i] = IF i <= Len(t) THEN t[i] ELSE suffix[i - Len(t)]
      BY <2>1, <3>2, ConcatProperties
    <3>4. Len(suffix) \in Nat /\ Len(suffix) # 0 /\ Len(t) \in Nat
      BY <1>6, <3>2
    <3>5. CASE t = <<>>
      <4>1. Len(t) = 0
        BY <3>5
      <4>2. q[1] = suffix[1] /\ Len(q) # 0
        <5>1. 1 \in 1 .. Len(t) + Len(suffix) /\ ~(1 <= Len(t)) /\ 1 - Len(t) = 1
          BY <3>4, <4>1
        <5> QED BY <3>3, <3>4, <4>1, <5>1
      <4> QED BY <1>6, <4>2
    <3>6. CASE t # <<>>
      <4>1. Len(t) >= 1 /\ Len(q) # 0
        BY <3>2, <3>3, <3>4, <3>6
      <4>2. q[1] = t[1]
        <5>1. 1 \in 1 .. Len(t) + Len(suffix) /\ 1 <= Len(t)
          BY <3>4, <4>1
        <5> QED BY <3>3, <5>1
      <4>3. q # <<>>
        BY <4>1
      <4> QED BY <1>4, <3>6, <4>2, <4>3
    <3> QED BY <3>5, <3>6
  <2>3. r = q
    BY <1>1, <1>2, <1>6, <2>1, <2>2 DEF RewriteUri
  <2>4. Segments(q) = Segments(t) \o Segments(suffix)
    BY <1>4, <1>6, <2>1, SegmentsConcat
  <2> QED BY <1>1, <1>2, <2>2, <2>3, <2>4
<1> QED BY <1>5, <1>6

\* The segments of the whole path, of the prefix and of the rest.
LEMMA SplitSegments ==
  ASSUME NEW p \in Seq(STRING), NEW suffix \in Seq(STRING), suffix = <<>> \/ suffix[1] = "/"
  PROVE  LET a == Segments(p)
             path == Segments(p \o suffix)
         IN IsPrefix(a, path) /\ SubSeq(path, Len(a) + 1, Len(path)) = Segments(suffix)
<1>1. PICK a, b, c : a = Segments(p) /\ b = Segments(suffix) /\ c = Segments(p \o suffix)
  OBVIOUS
<1>2. a \in SegmentSeqs
  <2>1. PICK h : SegmentFold(p, h)
    BY SegmentsAre
  <2>2. Len(p) \in 0 .. Len(p)
    OBVIOUS
  <2> QED BY <1>1, <2>1, <2>2 DEF SegmentFold
<1>3. b \in SegmentSeqs /\ c = a \o b
  <2>1. CASE suffix = <<>>
    <3>1. p \o suffix = p
      BY <2>1
    <3>2. b = <<>> /\ <<>> \in SegmentSeqs
      BY <1>1, <2>1, NoSegmentsOfEmpty DEF SegmentSeqs
    <3>3. a \o <<>> = a
      BY <1>2 DEF SegmentSeqs
    <3> QED BY <1>1, <3>1, <3>2, <3>3
  <2>2. CASE suffix # <<>>
    BY <1>1, <2>2, SegmentsConcat
  <2> QED BY <2>1, <2>2
<1>4. PICK S : S = Seq(STRING)
  OBVIOUS
<1>5. a \in Seq(S) /\ b \in Seq(S)
  BY <1>2, <1>3, <1>4 DEF SegmentSeqs
<1>6. IsPrefix(a, c) /\ SubSeq(c, Len(a) + 1, Len(c)) = b
  BY <1>3, <1>5, ConcatSplits
<1> QED BY <1>1, <1>6

\* Complete segments match and are replaced.
LEMMA KeptSegments ==
  ASSUME RoutingInv
  PROVE  SegmentsKept
<1> SUFFICES ASSUME Routed, Location.kind = "http_prefix" PROVE SegmentsKept
  BY DEF SegmentsKept
<1>1. PICK l : l = Location
  OBVIOUS
<1>2. Chosen(Server, result.index) /\ result = Found(Server, result.index)
  BY RoutedIs DEF Routed
<1>3. IsLocation(l) /\ Matches(l)
  <2>1. PICK v : v = Server
    OBVIOUS
  <2>2. v \in vhosts /\ result.index \in DOMAIN v.locations /\ l = v.locations[result.index]
    BY <1>1, <1>2, <2>1 DEF Chosen, Location
  <2>3. IsHttp(v)
    BY <1>1, <2>2 DEF IsHttp, HttpKinds
  <2>4. BestOfRules(v.locations, Len(v.locations), result.index) /\ result.index # 0
    BY <1>2, <2>1, <2>3 DEF Chosen
  <2>5. IsLocation(l)
    BY <2>2, HostLocations, LocationAt DEF RoutingInv
  <2> QED BY <2>2, <2>4, <2>5 DEF BestOfRules
<1>4. result.path = RewriteUri(Compiled(l), request.path)
  <2>1. Found(Server, result.index).path = RewriteUri(Compiled(l), request.path)
    BY <1>1 DEF Found, Location
  <2> QED BY <1>2, <2>1
<1>5. PICK p : p = Trim(l.path)
  OBVIOUS
<1>6. p \in Seq(STRING) /\ p = Trim(Compiled(l))
  <2>1. l.path \in Seq(STRING)
    BY <1>3 DEF IsLocation
  <2> QED BY <1>1, <1>3, <1>5, <2>1, TrimIs, TrimCompiled
<1>7. PICK path : path = request.path
  OBVIOUS
<1>8. path \in Seq(STRING)
  BY <1>7 DEF RoutingInv, Scenario, IsRequest
<1>9. path = p \/ (IsStrictPrefix(p, path) /\ path[Len(p) + 1] = "/")
  BY <1>1, <1>3, <1>6, <1>7 DEF Matches, PrefixMatches
<1>10. PICK suffix \in Seq(STRING) :
         /\ suffix = SubSeq(path, Len(p) + 1, Len(path)) /\ path = p \o suffix
         /\ suffix = <<>> \/ suffix[1] = "/"
  BY <1>6, <1>8, <1>9, PrefixSplits
<1>11. /\ result.path # <<>> /\ result.path[1] = "/"
       /\ suffix # <<>> => Segments(result.path) = Segments(Trim(rewrite)) \o Segments(suffix)
  BY <1>4, <1>6, <1>7, <1>10, Rewritten DEF RoutingInv
<1>12. /\ IsPrefix(Segments(p), Segments(path))
       /\ SubSeq(Segments(path), Len(Segments(p)) + 1, Len(Segments(path))) = Segments(suffix)
  BY <1>6, <1>10, SplitSegments
<1>13. Segments(suffix) # <<>> => suffix # <<>>
  BY NoSegmentsOfEmpty
<1> QED BY <1>1, <1>5, <1>7, <1>11, <1>12, <1>13 DEF SegmentsKept

\* A prefix matches whole segments, and a rewritten path, which is absolute, has the
\* segments of the replacement and then those that follow the prefix.
THEOREM RewriteKeepsSegments == RoutingSpec => []SegmentsKept
BY KeptSegments, RoutingInvariance, PTL
=============================================================================
