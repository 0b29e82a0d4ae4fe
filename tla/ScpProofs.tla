------------------------------ MODULE ScpProofs -----------------------------
(***************************************************************************)
(* Proofs about the SCP: its discovery cache (ScpCache), for any number of *)
(* requests, queries and groups, any capacity and any idle time, and where *)
(* a request may go (ScpRouting), for any number of SCPs, any              *)
(* configuration and any results of the NRFs.                              *)
(*                                                                         *)
(* OneGroupPerKey speaks of the groups somebody holds.  To see that an     *)
(* eviction or a pass of maintain keeps it, one needs that a cached group  *)
(* was created for the key it is cached under, so that two keys never      *)
(* share a group; to see that no wake-up is lost, that a request which is  *)
(* about to wait holds a group and has enabled its future.                 *)
(*                                                                         *)
(* A request's way is bounded by its hop count, no SCP connects to itself, *)
(* and bound and targeted requests stay in their domain, because headers,  *)
(* the parsed request and the exchange agree at every SCP.                 *)
(***************************************************************************)
EXTENDS ScpCache, ScpRouting, TLAPS

\* A cached group was created for its key.
CachedUnderOwnKey == \A k \in Keys : cache[k] # 0 => key[cache[k]] = k

\* A request past its lookup holds a group, and listens before it waits.
RequestsHold ==
  \A q \in Requests :
    /\ pc[q] # "idle" => ref[q] # 0
    /\ pc[q] \in {"start", "wait"} => enabled[q]

IInv ==
  TypeOK /\ CachedUnderOwnKey /\ OneGroupPerKey /\ RequestsHold /\ WaiterHasTask

\* The initial state satisfies the inductive invariant.
LEMMA InitIInv == Init => IInv
BY IdsAssumption, LimitsAssumption
   DEF Init, IInv, TypeOK, CachedUnderOwnKey, OneGroupPerKey, RequestsHold,
       WaiterHasTask, Shared

\* Lookup: a hit, a miss with or without eviction, a refusal, a direct route.
LEMMA LookupIInv ==
  ASSUME IInv, NEW q \in Requests, NEW k \in Keys,
         Hit(q, k) \/ Miss(q, k) \/ Congested(q, k) \/ DirectRoute(q)
  PROVE  IInv'
<1> USE IdsAssumption, LimitsAssumption
<1> USE DEF IInv, TypeOK, CachedUnderOwnKey, OneGroupPerKey, RequestsHold,
            WaiterHasTask, Shared, groups, requests
<1>1. CASE Hit(q, k)
  BY <1>1 DEF Hit, Take
<1>2. CASE Miss(q, k)
  <2>1. PICK evict \in IF Full THEN {{e} : e \in LeastRecentlyUsed(Evictable)} ELSE {{}} :
          LET kept == [j \in Keys |-> IF j \in evict THEN 0 ELSE cache[j]]
          IN \/ \E g \in {i \in Ids : ~InUse(i)} :
                  /\ cache' = [kept EXCEPT ![k] = g]
                  /\ idle' = [idle EXCEPT ![k] = 0]
                  /\ key' = [key EXCEPT ![g] = k]
                  /\ usable' = [usable EXCEPT ![g] = FALSE]
                  /\ Take(q, g)
             \/ cache' = kept /\ UNCHANGED <<idle, key, usable>> /\ UNCHANGED requests
    BY <1>2 DEF Miss
  <2> DEFINE kept == [j \in Keys |-> IF j \in evict THEN 0 ELSE cache[j]]
  <2>2. \A j \in evict : j \in Keys /\ ~Shared(cache[j])
    BY <2>1 DEF LeastRecentlyUsed, Evictable, Cached
  <2>3. /\ pc[q] = "idle" /\ cache[k] = 0
        /\ refreshing' = refreshing /\ notifying' = notifying /\ todo' = todo
    BY <1>2 DEF Miss
  <2>4. CASE cache' = kept /\ UNCHANGED <<idle, key, usable>> /\ UNCHANGED requests
    BY <2>2, <2>3, <2>4
  <2>5. ASSUME NEW g \in Ids, ~InUse(g),
               cache' = [kept EXCEPT ![k] = g],
               idle' = [idle EXCEPT ![k] = 0],
               key' = [key EXCEPT ![g] = k],
               usable' = [usable EXCEPT ![g] = FALSE],
               Take(q, g)
        PROVE IInv'
    <3>1. g # 0 /\ \A j \in Keys : cache[j] # g
      BY <2>5 DEF InUse
    <3>2. ~Shared(g)
      BY <2>5 DEF InUse
    <3>3. TypeOK' /\ RequestsHold'
      BY <2>3, <2>5, <3>1 DEF Take
    <3>4. CachedUnderOwnKey'
      BY <2>3, <2>5, <3>1
    <3>5. OneGroupPerKey'
      BY <2>2, <2>3, <2>5, <3>1, <3>2 DEF Take
    <3>6. WaiterHasTask'
      BY <2>3, <2>5, <3>1 DEF Take
    <3> QED BY <3>3, <3>4, <3>5, <3>6
  <2> QED BY <2>1, <2>4, <2>5
<1>3. CASE Congested(q, k)
  BY <1>3 DEF Congested, vars
<1>4. CASE DirectRoute(q)
  <2>1. \/ UNCHANGED <<pc, ref>>
        \/ \E j \in Keys : /\ cache[j] # 0
                           /\ pc' = [pc EXCEPT ![q] = "exchange"]
                           /\ ref' = [ref EXCEPT ![q] = cache[j]]
    BY <1>4 DEF DirectRoute, Cached
  <2>2. idle' \in [Keys -> 0 .. IdleTtl]
    BY <1>4 DEF DirectRoute
  <2>3. UNCHANGED <<cache, groups, enabled, woken, todo>> /\ pc[q] = "idle"
    BY <1>4 DEF DirectRoute
  <2> QED BY <2>1, <2>2, <2>3
<1> QED BY <1>1, <1>2, <1>3, <1>4

\* The steps of a request that has found its group.
LEMMA WalkIInv ==
  ASSUME IInv, NEW q \in Requests, Walk(q) \/ Leave(q)
  PROVE  IInv'
<1> USE IdsAssumption, LimitsAssumption
<1> USE DEF IInv, TypeOK, CachedUnderOwnKey, OneGroupPerKey, RequestsHold,
            WaiterHasTask, Shared, groups, requests
<1>1. CASE CheckStatus(q)
  BY <1>1 DEF CheckStatus
<1>2. CASE Subscribe(q)
  BY <1>2 DEF Subscribe
<1>3. CASE Start(q)
  <2>1. /\ pc[q] = "start" /\ ref[q] \in Ids /\ ref[q] # 0 /\ enabled[q]
        /\ pc' = [pc EXCEPT ![q] = "wait"]
        /\ refreshing' = [refreshing EXCEPT ![ref[q]] =
                             IF refreshing[ref[q]] = "no" THEN "run"
                             ELSE refreshing[ref[q]]]
        /\ UNCHANGED <<cache, idle, key, usable, notifying, ref, enabled, woken, todo>>
    BY <1>3 DEF Start, StartRefresh
  <2>2. TypeOK' /\ CachedUnderOwnKey' /\ RequestsHold'
    <3>1. refreshing' \in [Ids -> {"no", "run", "done"}]
      <4>1. refreshing \in [Ids -> {"no", "run", "done"}]
        BY Zenon
      <4> HIDE DEF IInv, TypeOK, CachedUnderOwnKey, OneGroupPerKey, RequestsHold,
                   WaiterHasTask, Shared, groups, requests
      <4> QED BY <2>1, <4>1
    <3>2. TypeOK'
      <4>1. pc' \in [Requests -> {"idle", "check", "subscribe", "start", "wait",
                                  "recheck", "exchange"}]
        <5>1. pc \in [Requests -> {"idle", "check", "subscribe", "start", "wait",
                                   "recheck", "exchange"}]
          BY Zenon
        <5> HIDE DEF IInv, TypeOK, CachedUnderOwnKey, OneGroupPerKey, RequestsHold,
                     WaiterHasTask, Shared, groups, requests
        <5> QED BY <2>1, <5>1
      <4> QED BY <2>1, <3>1, <4>1, Zenon
    <3>3. CachedUnderOwnKey'
      BY <2>1
    <3>4. RequestsHold'
      BY <2>1
    <3> QED BY <3>2, <3>3, <3>4
  <2>3. OneGroupPerKey'
    <3>1. ASSUME NEW g \in Ids, Shared(g)' PROVE Shared(g)
      BY <2>1, <3>1
    <3> QED BY <2>1, <3>1
  <2>4. WaiterHasTask'
    BY <2>1
  <2> QED BY <2>2, <2>3, <2>4
<1>4. CASE Awake(q)
  BY <1>4 DEF Awake
<1>5. CASE Recheck(q)
  <2>1. CASE End(q)
    BY <1>5, <2>1 DEF Recheck, End
  <2>2. CASE ~End(q)
    BY <1>5, <2>2 DEF Recheck
  <2> QED BY <2>1, <2>2
<1>6. CASE Leave(q)
  BY <1>6 DEF Leave, End
<1> QED BY <1>1, <1>2, <1>3, <1>4, <1>5, <1>6 DEF Walk

\* The refresh task of a group, the end of its window, and maintain's start of it.
LEMMA TaskIInv ==
  ASSUME IInv, NEW g \in Ids, Task(g) \/ Expire(g) \/ MaintainStep(g)
  PROVE  IInv'
<1> USE IdsAssumption, LimitsAssumption
<1> USE DEF IInv, TypeOK, CachedUnderOwnKey, OneGroupPerKey, RequestsHold,
            WaiterHasTask, Shared, groups, requests
<1>1. CASE Refresh(g)
  BY <1>1 DEF Refresh
<1>2. CASE Clear(g)
  BY <1>2 DEF Clear
<1>3. CASE Notify(g)
  BY <1>3 DEF Notify
<1>4. CASE Expire(g)
  BY <1>4 DEF Expire
<1>5. CASE MaintainStep(g)
  BY <1>5 DEF MaintainStep, StartRefresh
<1> QED BY <1>1, <1>2, <1>3, <1>4, <1>5 DEF Task

\* A pass of maintain and the clock.
LEMMA LoopIInv == ASSUME IInv, Maintain \/ Tick PROVE IInv'
<1> USE IdsAssumption, LimitsAssumption
<1> USE DEF IInv, TypeOK, CachedUnderOwnKey, OneGroupPerKey, RequestsHold,
            WaiterHasTask, Shared, groups, requests
<1>1. CASE Maintain
  <2>1. TypeOK'
    BY <1>1 DEF Maintain
  <2>2. CachedUnderOwnKey' /\ RequestsHold' /\ WaiterHasTask'
    BY <1>1 DEF Maintain
  <2>3. ASSUME NEW g \in Ids, Shared(g)' PROVE cache'[key'[g]] = g
    <3>1. CASE g \in todo'
      BY <1>1, <2>2, <3>1 DEF Maintain
    <3>2. CASE g \notin todo'
      <4>1. Shared(g) /\ cache[key[g]] = g /\ key[g] \in Keys
        BY <1>1, <2>3, <3>2 DEF Maintain
      <4> QED BY <1>1, <4>1 DEF Maintain, Keep
    <3> QED BY <3>1, <3>2
  <2> QED BY <2>1, <2>2, <2>3
<1>2. CASE Tick
  BY <1>2 DEF Tick
<1> QED BY <1>1, <1>2

\* Every step preserves the inductive invariant.
LEMMA NextIInv == IInv /\ [Next]_vars => IInv'
<1> SUFFICES ASSUME IInv, [Next]_vars PROVE IInv'
  OBVIOUS
<1>1. CASE UNCHANGED vars
  BY <1>1 DEF vars, groups, requests, IInv, TypeOK, CachedUnderOwnKey,
              OneGroupPerKey, RequestsHold, WaiterHasTask, Shared
<1>2. CASE Next
  <2>1. ASSUME NEW q \in Requests, Walk(q) \/ Leave(q) PROVE IInv'
    BY <2>1, WalkIInv
  <2>2. ASSUME NEW q \in Requests, NEW k \in Keys,
               Hit(q, k) \/ Miss(q, k) \/ Congested(q, k) \/ DirectRoute(q)
        PROVE IInv'
    BY <2>2, LookupIInv
  <2>3. ASSUME NEW q \in Requests, DirectRoute(q) PROVE IInv'
    <3>1. \E known \in (SUBSET Cached) \ {{}} : TRUE
      BY <2>3 DEF DirectRoute
    <3>2. \E k \in Keys : TRUE
      BY <3>1 DEF Cached
    <3> QED BY <2>2, <2>3, <3>2
  <2>4. ASSUME NEW g \in Ids, Task(g) \/ Expire(g) \/ MaintainStep(g) PROVE IInv'
    BY <2>4, TaskIInv
  <2> QED BY <1>2, <2>1, <2>2, <2>3, <2>4, LoopIInv DEF Next
<1> QED BY <1>1, <1>2

\* The inductive invariant of an SCP profile's discovery cache.
THEOREM Invariance == Spec => []IInv
BY InitIInv, NextIInv, PTL DEF Spec

\* "Identical queries share an owned refresh": whoever holds a group or refreshes
\* it shares it with the cache, for every capacity and every order of lookups,
\* evictions, refreshes and passes of maintain.
THEOREM GroupsShared == Spec => []OneGroupPerKey
<1>1. IInv => OneGroupPerKey
  BY DEF IInv
<1> QED BY <1>1, Invariance, PTL

\* No wake-up of refresh_scp is lost, for any number of requests.
THEOREM WakeUps == Spec => []WaiterHasTask
<1>1. IInv => WaiterHasTask
  BY DEF IInv
<1> QED BY <1>1, Invariance, PTL

-----------------------------------------------------------------------------
(* The way of a request *)

Looking == {"route", "prefer", "listed", "select"}

\* The types that the argument needs.
RouteTypes ==
  /\ at \in Scps
  /\ step \in {"parse", "connect", "answer"} \cup Looking
  /\ header \in Header
  /\ request.hops \in 0 .. MaxHops /\ request.inst \in Queries
  /\ request.target \in Roots \cup {NoRoot} /\ request.discovery \in BOOLEAN
  /\ exchange = [backend |-> exchange.backend, root |-> exchange.root,
                 grouped |-> exchange.grouped, query |-> exchange.query,
                 retried |-> exchange.retried]
  /\ trace \in Seq(Hop)
  /\ budget \in Nat

\* What is left of the hop count, and what has been used of it.
Account ==
  /\ step = "parse" => Len(trace) + Hops = budget
  /\ step \in Looking \cup {"connect"} => Len(trace) + 1 + request.hops = budget
  /\ step = "answer" => Len(trace) <= budget

\* The parsed request agrees with the headers, and the exchange with the request.
Agreement ==
  /\ step \in Looking \cup {"connect"} /\ header.bind # NoInst =>
       request.discovery /\ request.inst = header.bind
  /\ step = "connect" =>
       /\ exchange.backend.auth # at
       /\ exchange.backend \in Peers
       /\ exchange.root = Root(exchange.backend) /\ exchange.root \in Roots
       /\ request.discovery => exchange.grouped
       /\ exchange.grouped => Matches(exchange.backend, exchange.query)
       /\ request.discovery => exchange.query = request.inst
       /\ ~request.discovery => Root(exchange.backend) = request.target
  /\ step = "route" => request.target.auth # at
  /\ step \in {"prefer", "listed", "select"} => request.discovery

\* What a hop of the trace tells.
Told(hop) ==
  hop.root = Root(hop.backend) /\ (~hop.discovery => hop.target = hop.root)

\* The root that an answer has when it has passed the hops after n: that of the first
\* of them that had discovered its backend, or of one before it.
Named(hops, a, n) ==
  \/ a.root = NoRoot /\ \A i \in DOMAIN hops : i > n => ~hops[i].discovery
  \/ \E i \in DOMAIN hops :
       /\ i > n /\ a.root = hops[i].root
       /\ \A j \in DOMAIN hops : n < j /\ j < i => ~hops[j].discovery

Answered ==
  /\ \A i \in DOMAIN trace : Told(trace[i])
  /\ step # "answer" => answer = NoAnswer /\ back = 0
  /\ step = "answer" =>
       /\ back \in 0 .. Len(trace)
       /\ answer = [root |-> answer.root, location |-> answer.location]
       /\ ~answer.location => Named(trace, answer, back)

RouteInv == RouteTypes /\ Account /\ Agreement /\ Answered

\* A hop count is a number, with or without the header.
LEMMA HopsType == ASSUME header \in Header PROVE Hops \in Nat
BY ConfigAssumption DEF Hops, Header, NoHops

\* The root of a backend that a request can be sent to.
LEMMA PeerRoot ==
  /\ \A b \in Backends : b \in Peers /\ Root(b) \in Roots
  /\ \A r \in Roots : BackendOf(r) \in Peers /\ Root(BackendOf(r)) = r
<1>1. ASSUME NEW r \in Roots PROVE r = [auth |-> r.auth, prefix |-> r.prefix]
  <2>1. CASE r \in {Root(b) : b \in Backends}
    BY <2>1 DEF Root
  <2>2. CASE r \in UNION {Allowed[n] : n \in Scps}
    BY <2>2, ConfigAssumption
  <2> QED
    BY <2>1, <2>2 DEF Roots
<1>2. ASSUME NEW r \in Roots PROVE Root(BackendOf(r)) = r
  BY <1>1 DEF Root, BackendOf
<1> QED
  BY <1>2 DEF Peers, Roots

\* RuntimeScp starts with a request as a client sends it.
LEMMA RouteInitInv == RouteInit => RouteInv
<1> SUFFICES ASSUME RouteInit PROVE RouteInv
  OBVIOUS
<1>1. RouteTypes
  BY ConfigAssumption DEF RouteInit, RouteTypes, Header, NoHops, Queries, NoExchange
<1>2. Account
  BY <1>1, HopsType DEF RouteInit, Account, Hops, RouteTypes, Looking
<1>3. Agreement
  BY DEF RouteInit, Agreement, Looking
<1>4. Answered
  BY DEF RouteInit, Answered
<1> QED
  BY <1>1, <1>2, <1>3, <1>4 DEF RouteInv

\* Nothing is named yet when an answer begins.
LEMMA NothingNamed ==
  ASSUME NEW hops \in Seq(Hop), NEW a, a.root = NoRoot
  PROVE  Named(hops, a, Len(hops))
BY DEF Named

\* A refusal by parse or route, or a failed connection, is an answer.
LEMMA RefuseInv == ASSUME RouteInv, step # "answer", NEW c, Refuse(c) PROVE RouteInv'
<1>1. RouteTypes'
  BY DEF RouteInv, RouteTypes, Refuse
<1>2. Account'
  BY HopsType DEF RouteInv, RouteTypes, Account, Refuse, Hops, Looking
<1>3. Agreement'
  BY DEF Agreement, Refuse, Looking
<1>4. Answered'
  <2>1. trace' = trace /\ trace \in Seq(Hop) /\ answer' = NoAnswer /\ back' = Len(trace)
    BY DEF RouteInv, RouteTypes, Answered, Refuse
  <2>2. Named(trace, NoAnswer, Len(trace))
    BY <2>1, NothingNamed DEF NoAnswer
  <2>3. Len(trace) \in 0 .. Len(trace) /\ step' = "answer"
    BY <2>1 DEF Refuse
  <2> QED
    BY <2>1, <2>2, <2>3 DEF RouteInv, Answered, NoAnswer, Told, Root, Named, NoRoot
<1> QED
  BY <1>1, <1>2, <1>3, <1>4 DEF RouteInv

\* Nothing but the step, the request or the exchange has changed.
LEMMA NotAnswered ==
  ASSUME Answered, step # "answer", step' # "answer", UNCHANGED <<trace, answer, back>>
  PROVE  Answered'
BY DEF Answered, Told, Root, NoAnswer, NoRoot

\* ScpRequest::parse takes one hop off, keeps the binding and rejects its own root.
LEMMA ParseInv == ASSUME RouteInv, Parse PROVE RouteInv'
<1>0. Hops \in Nat \ {0}
  <2>1. Hops # 0
    BY DEF Parse, Refusal
  <2> QED
    BY <2>1, HopsType DEF RouteInv, RouteTypes
<1>1. header.target.auth # at
  BY DEF Parse, Refusal
<1>2. RouteTypes'
  <2>1. Discovery \in BOOLEAN
    <3>1. CASE Discovery
      <4>1. Discovery = TRUE
        BY <3>1 DEF Discovery
      <4> QED
        BY <4>1, Zenon
    <3>2. CASE ~Discovery
      <4>1. Discovery = FALSE
        BY <3>2 DEF Discovery
      <4> QED
        BY <4>1, Zenon
    <3> QED
      BY <3>1, <3>2
  <2>2. PICK d \in BOOLEAN : d = Discovery
    BY <2>1, Zenon
  <2>3. request' = [target |-> header.target, inst |-> InstOf, discovery |-> d,
                    hops |-> HopsLeft]
    BY <2>2 DEF Parse
  <2>4. /\ header.target \in Roots \cup {NoRoot} /\ InstOf \in Queries
        /\ header.hops \in 0 .. MaxHops + 1
    BY DEF RouteInv, RouteTypes, Header, InstOf
  <2>5. HopsLeft \in 0 .. MaxHops
    BY <1>0, <2>4, ConfigAssumption DEF Hops, HopsLeft, NoHops
  <2> QED
    BY <2>3, <2>4, <2>5 DEF RouteInv, RouteTypes, Parse, Looking
<1>3. Account'
  BY <1>0 DEF RouteInv, RouteTypes, Account, Parse, HopsLeft, Looking
<1>4. Agreement'
  BY <1>1 DEF Agreement, Parse, InstOf, Discovery, Looking
<1>5. Answered'
  BY NotAnswered DEF RouteInv, Parse
<1> QED
  BY <1>2, <1>3, <1>4, <1>5 DEF RouteInv

\* route goes on to its next look at the group.
LEMMA GotoInv ==
  ASSUME RouteInv, step \in Looking, request.discovery,
         NEW next \in {"prefer", "listed", "select"}, Goto(next)
  PROVE  RouteInv'
<1>1. RouteTypes'
  BY DEF RouteInv, RouteTypes, Goto, Looking
<1>2. Account'
  BY DEF RouteInv, Account, Goto, Looking
<1>3. Agreement'
  BY DEF RouteInv, Agreement, Goto, Looking
<1>4. Answered'
  BY NotAnswered DEF RouteInv, Goto, Looking
<1> QED
  BY <1>1, <1>2, <1>3, <1>4 DEF RouteInv

\* route: what an exchange begins with, in each of the ways to find a backend.
LEMMA ExchangeInv ==
  ASSUME RouteInv, step \in Looking,
         NEW b \in Peers, NEW grouped \in BOOLEAN, NEW q, Exchange(b, grouped, q),
         b.auth # at, Root(b) \in Roots,
         request.discovery => grouped /\ q = request.inst,
         grouped => Matches(b, q),
         ~request.discovery => Root(b) = request.target
  PROVE  RouteInv'
<1>1. RouteTypes'
  BY DEF RouteInv, RouteTypes, Exchange
<1>2. Account'
  BY DEF RouteInv, Account, Exchange, Looking
<1>3. Agreement'
  BY DEF RouteInv, Agreement, Exchange, Matches, Root, Looking
<1>4. Answered'
  BY NotAnswered DEF RouteInv, Exchange, Looking
<1> QED
  BY <1>1, <1>2, <1>3, <1>4 DEF RouteInv

\* A backend of the domain is chosen, or is the SCP itself.
LEMMA ChooseInv ==
  ASSUME RouteInv, step \in Looking, request.discovery,
         NEW b \in Domain(request.inst), Choose(b)
  PROVE  RouteInv'
<1>1. CASE Loop(b)
  BY <1>1, RefuseInv DEF Choose, Looking
<1>2. CASE ~Loop(b)
  <2>1. b \in Peers /\ Root(b) \in Roots /\ Matches(b, request.inst)
    BY PeerRoot DEF Domain
  <2>2. Exchange(b, TRUE, request.inst) /\ b.auth # at
    BY <1>2 DEF Choose, Loop
  <2> QED
    BY <2>1, <2>2, ExchangeInv
<1> QED
  BY <1>1, <1>2

\* retry_connect: the alternative is from the group of the first backend.
LEMMA RetryInv == ASSUME RouteInv, RetryConnect PROVE RouteInv'
<1>1. PICK b \in Domain(exchange.query) :
        Alternative(b) /\ ~Loop(b) /\ exchange' = Redirected(b)
  BY DEF RetryConnect
<1>2. Matches(b, exchange.query) /\ b \in Peers /\ Root(b) \in Roots
  BY PeerRoot DEF Domain
<1>3. exchange' = [backend |-> b, root |-> Root(b), grouped |-> exchange.grouped,
                   query |-> exchange.query, retried |-> TRUE]
  BY <1>1 DEF RouteInv, RouteTypes, Redirected
<1>4. RouteTypes' /\ Account'
  BY <1>3 DEF RouteInv, RouteTypes, Account, RetryConnect, Looking
<1>5. Agreement'
  BY <1>1, <1>2, <1>3 DEF RouteInv, Agreement, RetryConnect, Alternative, Loop, Matches, Root
<1>6. Answered'
  BY NotAnswered DEF RouteInv, RetryConnect
<1> QED
  BY <1>4, <1>5, <1>6 DEF RouteInv

\* The trace after a request was sent: a hop more, which is what the exchange says.
LEMMA SentInv ==
  ASSUME RouteInv, step = "connect"
  PROVE  /\ Sent \in Seq(Hop) /\ Len(Sent) = Len(trace) + 1
         /\ \A i \in DOMAIN Sent : Told(Sent[i])
<1> DEFINE hop == [scp |-> at, backend |-> exchange.backend, root |-> exchange.root,
                   target |-> request.target, discovery |-> request.discovery]
<1>1. hop \in Hop /\ Told(hop)
  BY DEF RouteInv, RouteTypes, Agreement, Hop, Told
<1>2. Sent = Append(trace, hop) /\ trace \in Seq(Hop)
  BY DEF Sent, RouteInv, RouteTypes
<1> HIDE DEF hop
<1>3. /\ Sent \in Seq(Hop) /\ Len(Sent) = Len(trace) + 1
      /\ \A i \in 1 .. Len(trace) : Sent[i] = trace[i]
      /\ Sent[Len(trace) + 1] = hop
  BY <1>1, <1>2
<1>4. ASSUME NEW i \in DOMAIN Sent PROVE Told(Sent[i])
  <2>1. i \in 1 .. Len(trace) \/ i = Len(trace) + 1
    BY <1>2, <1>3
  <2>2. CASE i \in 1 .. Len(trace)
    <3>1. Told(trace[i])
      BY <1>2, <2>2 DEF RouteInv, Answered
    <3> QED
      BY <1>3, <2>2, <3>1
  <2>3. CASE i = Len(trace) + 1
    BY <1>1, <1>3, <2>3
  <2> QED
    BY <2>1, <2>2, <2>3
<1> QED
  BY <1>3, <1>4

\* A producer has received the request.
LEMMA DeliverInv == ASSUME RouteInv, Deliver PROVE RouteInv'
<1>0. /\ Sent \in Seq(Hop) /\ Len(Sent) = Len(trace) + 1
      /\ \A i \in DOMAIN Sent : Told(Sent[i])
  BY SentInv DEF Deliver
<1>1. RouteTypes'
  BY <1>0 DEF RouteInv, RouteTypes, Deliver
<1>2. Account'
  BY <1>0 DEF RouteInv, RouteTypes, Account, Deliver, Looking
<1>3. Agreement'
  BY DEF Agreement, Deliver, Looking
<1>4. Answered'
  <2>1. PICK location \in BOOLEAN : answer' = [root |-> NoRoot, location |-> location]
    BY DEF Deliver
  <2>2. PICK hops \in Seq(Hop) : hops = Sent /\ trace' = hops
    BY <1>0 DEF Deliver
  <2>3. back' = Len(hops) /\ step' = "answer" /\ Len(hops) \in 0 .. Len(hops)
    BY <1>0, <2>2 DEF Deliver
  <2>4. Named(hops, answer', Len(hops))
    BY <2>1, NothingNamed
  <2>5. \A i \in DOMAIN hops : Told(hops[i])
    BY <1>0, <2>2
  <2> QED
    BY <2>1, <2>2, <2>3, <2>4, <2>5 DEF Answered, Told, Root, Named, NoRoot
<1> QED
  BY <1>1, <1>2, <1>3, <1>4 DEF RouteInv

\* The next SCP has received the request.
LEMMA ForwardInv == ASSUME RouteInv, Forward PROVE RouteInv'
<1>0. /\ Sent \in Seq(Hop) /\ Len(Sent) = Len(trace) + 1
      /\ \A i \in DOMAIN Sent : Told(Sent[i])
  BY SentInv DEF Forward
<1>1. RouteTypes'
  <2>1. request.hops \in 0 .. MaxHops + 1 /\ NoInst \in Queries
    BY ConfigAssumption DEF RouteInv, RouteTypes, Queries
  <2>2. header' \in Header
    BY <2>1 DEF RouteInv, RouteTypes, Forward, Header
  <2>3. exchange' = [backend |-> exchange'.backend, root |-> exchange'.root,
                     grouped |-> exchange'.grouped, query |-> exchange'.query,
                     retried |-> exchange'.retried]
    BY DEF Forward, NoExchange
  <2> QED
    BY <1>0, <2>2, <2>3 DEF RouteInv, RouteTypes, Forward
<1>2. Account'
  BY <1>0, ConfigAssumption DEF RouteInv, RouteTypes, Account, Forward, Hops, NoHops, Looking
<1>3. Agreement'
  BY DEF Agreement, Forward, Looking
<1>4. Answered'
  <2>1. trace' = Sent /\ step' = "parse" /\ answer' = NoAnswer /\ back' = 0
    BY DEF RouteInv, Answered, Forward
  <2> QED
    BY <1>0, <2>1 DEF Answered, Told, Root, NoAnswer, NoRoot
<1> QED
  BY <1>1, <1>2, <1>3, <1>4 DEF RouteInv

\* The answer passes a hop, which names its root or leaves the one that is named.
LEMMA PassHop ==
  ASSUME NEW hops \in Seq(Hop), NEW n \in 1 .. Len(hops), NEW a, NEW b,
         Named(hops, a, n),
         \/ b.root = hops[n].root
         \/ b.root = a.root /\ ~hops[n].discovery
  PROVE  Named(hops, b, n - 1)
<1>0. DOMAIN hops = 1 .. Len(hops) /\ Len(hops) \in Nat
  OBVIOUS
<1>1. CASE b.root = hops[n].root
  BY <1>0, <1>1 DEF Named
<1>2. CASE b.root = a.root /\ ~hops[n].discovery
  <2>1. CASE a.root = NoRoot /\ \A i \in DOMAIN hops : i > n => ~hops[i].discovery
    BY <1>0, <1>2, <2>1 DEF Named
  <2>2. ASSUME NEW i \in DOMAIN hops, i > n, a.root = hops[i].root,
               \A j \in DOMAIN hops : n < j /\ j < i => ~hops[j].discovery
        PROVE  Named(hops, b, n - 1)
    <3>1. i > n - 1 /\ b.root = hops[i].root
      BY <1>0, <1>2, <2>2
    <3>2. \A j \in DOMAIN hops : n - 1 < j /\ j < i => ~hops[j].discovery
      BY <1>0, <1>2, <2>2
    <3> QED
      BY <3>1, <3>2 DEF Named
  <2> QED
    BY <2>1, <2>2 DEF Named
<1> QED
  BY <1>1, <1>2

LEMMA ResponseInv == ASSUME RouteInv, ResponseHeaders PROVE RouteInv'
<1>1. RouteTypes'
  BY DEF RouteInv, RouteTypes, ResponseHeaders
<1>2. Account'
  BY DEF RouteInv, Account, ResponseHeaders, Hops
<1>3. Agreement'
  BY DEF RouteInv, Agreement, ResponseHeaders, Looking
<1>4. Answered'
  <2>0. /\ trace \in Seq(Hop) /\ trace' = trace /\ step = "answer" /\ step' = "answer"
        /\ back \in 1 .. Len(trace) /\ back' = back - 1
    BY DEF RouteInv, RouteTypes, Answered, ResponseHeaders
  <2>1. PICK a, hop : a = answer /\ hop = trace[back]
    OBVIOUS
  <2>2. /\ a = [root |-> a.root, location |-> a.location]
        /\ ~a.location => Named(trace, a, back)
    BY <2>0, <2>1 DEF RouteInv, Answered
  <2>3. CASE ~a.location /\ (hop.discovery \/ hop.target # hop.root)
    <3>1. answer' = [root |-> hop.root, location |-> a.location]
      BY <2>1, <2>2, <2>3 DEF ResponseHeaders
    <3>2. Named(trace, answer', back - 1)
      BY <2>0, <2>1, <2>2, <2>3, <3>1, PassHop
    <3> QED
      BY <2>0, <3>1, <3>2 DEF RouteInv, Answered, Told, Root, Named, NoRoot
  <2>4. CASE ~(~a.location /\ (hop.discovery \/ hop.target # hop.root))
    <3>1. answer' = a
      BY <2>1, <2>4 DEF ResponseHeaders
    <3>2. ~a.location => Named(trace, a, back - 1)
      BY <2>0, <2>1, <2>2, <2>4, PassHop
    <3> QED
      BY <2>0, <2>2, <3>1, <3>2 DEF RouteInv, Answered, Told, Root, Named, NoRoot
  <2> QED
    BY <2>3, <2>4
<1> QED
  BY <1>1, <1>2, <1>3, <1>4 DEF RouteInv

\* Every step of every SCP preserves the invariant.
LEMMA StepInv == RouteInv /\ [RouteNext]_routeVars => RouteInv'
<1> SUFFICES ASSUME RouteInv, [RouteNext]_routeVars PROVE RouteInv'
  OBVIOUS
<1>1. CASE ParseFails
  BY <1>1, RefuseInv DEF ParseFails
<1>2. CASE Parse
  BY <1>2, ParseInv
<1>3. CASE RouteAllowed
  <2>1. /\ step = "route" /\ ~request.discovery
        /\ Exchange(BackendOf(request.target), FALSE, NoInst)
    BY <1>3 DEF RouteAllowed, Direct
  <2>2. request.target \in Roots
    BY <1>3 DEF RouteAllowed, RouteInv, RouteTypes, Roots
  <2>3. BackendOf(request.target).auth # at
    BY <2>1 DEF RouteInv, Agreement, BackendOf
  <2>4. BackendOf(request.target) \in Peers /\ Root(BackendOf(request.target)) = request.target
    BY <2>2, PeerRoot
  <2>5. step \in Looking
    BY <2>1 DEF Looking
  <2> QED
    BY <2>1, <2>2, <2>3, <2>4, <2>5, ExchangeInv
<1>4. CASE RouteCached
  <2>0. step = "route" /\ ~request.discovery /\ step \in Looking
    BY <1>4 DEF RouteCached, Direct, Looking
  <2>1. CASE \E code \in {400, 403, 504} : Refuse(code)
    BY <2>0, <2>1, RefuseInv
  <2>2. ASSUME NEW q \in Queries, NEW b \in Domain(q), IsTarget(b), Exchange(b, TRUE, q)
        PROVE  RouteInv'
    <3>1. Root(b) = request.target /\ b.auth # at
      BY <2>0, <2>2 DEF IsTarget, RouteInv, Agreement, Root
    <3>2. Matches(b, q) /\ b \in Peers /\ Root(b) \in Roots
      BY PeerRoot DEF Domain
    <3> QED
      BY <2>0, <2>2, <3>1, <3>2, ExchangeInv
  <2>3. \/ \E q \in Queries : \E b \in Domain(q) : IsTarget(b) /\ Exchange(b, TRUE, q)
        \/ \E code \in {400, 403, 504} : Refuse(code)
    BY <1>4 DEF RouteCached
  <2> QED
    BY <2>1, <2>2, <2>3
<1>5. CASE DiscoveryFails
  BY <1>5, RefuseInv DEF DiscoveryFails
<1>6. CASE Discovered \/ PreferTarget \/ TargetListed \/ SelectAny
  <2>1. request.discovery /\ step \in Looking
    BY <1>6 DEF Discovered, PreferTarget, TargetListed, SelectAny, RouteInv, Agreement, Looking
  <2>2. \/ \E next \in {"prefer", "listed", "select"} : Goto(next)
        \/ \E b \in Domain(request.inst) : Choose(b)
        \/ \E code \in {400, 502, 504} : Refuse(code)
    <3>1. CASE Discovered
      BY <3>1 DEF Discovered
    <3>2. CASE PreferTarget
      BY <3>2, Zenon DEF PreferTarget
    <3>3. CASE TargetListed
      <4>1. Goto("select") \/ Refuse(400)
        BY <3>3 DEF TargetListed
      <4> QED
        BY <4>1
    <3>4. CASE SelectAny
      <4>1. \/ \E b \in Domain(request.inst) : Choose(b)
            \/ \E code \in {502, 504} : Refuse(code)
        BY <3>4, Zenon DEF SelectAny
      <4>2. CASE \E code \in {502, 504} : Refuse(code)
        BY <4>2
      <4> QED
        BY <4>1, <4>2, Zenon
    <3> QED
      BY <1>6, <3>1, <3>2, <3>3, <3>4
  <2>3. step # "answer"
    BY <2>1 DEF Looking
  <2> QED
    BY <2>1, <2>2, <2>3, GotoInv, ChooseInv, RefuseInv
<1>7. CASE RetryConnect
  BY <1>7, RetryInv
<1>8. CASE ConnectFails
  BY <1>8, RefuseInv DEF ConnectFails
<1>9. CASE Deliver
  BY <1>9, DeliverInv
<1>10. CASE Forward
  BY <1>10, ForwardInv
<1>11. CASE ResponseHeaders
  BY <1>11, ResponseInv
<1>12. CASE Done \/ UNCHANGED routeVars
  <2>1. UNCHANGED routeVars
    BY <1>12 DEF Done
  <2>2. RouteTypes' /\ Account' /\ Agreement'
    BY <2>1 DEF routeVars, RouteInv, RouteTypes, Account, Agreement, Hops, Matches, Root
  <2>3. Answered'
    BY <2>1 DEF routeVars, RouteInv, Answered, Told, Named, Root, NoRoot, NoAnswer
  <2> QED
    BY <2>2, <2>3 DEF RouteInv
<1> QED
  BY <1>1, <1>2, <1>3, <1>4, <1>5, <1>6, <1>7, <1>8, <1>9, <1>10, <1>11, <1>12 DEF RouteNext, Step

\* The inductive invariant of routing: the hop account, the agreement between the
\* headers, the parsed request and the exchange, and the root that an answer names.
THEOREM RouteInvariance == RouteSpec => []RouteInv
BY RouteInitInv, StepInv, PTL DEF RouteSpec

\* "decrement; zero/self-target fails before forwarding": no more SCPs send a request
\* on than its hop count says, however many there are.
THEOREM HopBudgetTheorem == RouteSpec => []HopBudget
<1>1. RouteInv => HopBudget
  BY HopsType DEF RouteInv, RouteTypes, Account, HopBudget, Looking
<1> QED
  BY <1>1, RouteInvariance, PTL

\* No SCP connects to itself, in whatever configuration.
THEOREM NeverSelfTheorem == RouteSpec => []NeverSelf
<1>1. RouteInv => NeverSelf
  BY DEF RouteInv, Agreement, NeverSelf
<1> QED
  BY <1>1, RouteInvariance, PTL

\* "within the same discovery/binding domain", for whatever the NRFs answer and
\* however the groups change between the looks of a selection and before the retry.
THEOREM InDomainTheorem == RouteSpec => []InDomain
<1>1. RouteInv => InDomain
  BY DEF RouteInv, Agreement, InDomain, Matches
<1> QED
  BY <1>1, RouteInvariance, PTL

\* Every connection is admissible, also the ones of a retry.
THEOREM AdmissibleTheorem == RouteSpec => []Admissible
<1> QED BY NeverSelfTheorem, InDomainTheorem, PTL DEF Admissible

\* "selected Target-apiRoot when there is no Location": the root that a client is left
\* with is one that its request was sent to, through whatever SCPs and retries.
THEOREM RootTheorem == RouteSpec => []RootFollowsBackend
<1>1. RouteInv => RootFollowsBackend
  <2> SUFFICES ASSUME RouteInv PROVE RootFollowsBackend
    OBVIOUS
  <2>0. \A i \in DOMAIN trace : Told(trace[i])
    BY DEF RouteInv, Answered
  <2>1. \A i \in DOMAIN trace : trace[i].root = Root(trace[i].backend)
    BY <2>0 DEF Told
  <2>2. ASSUME step = "answer", back = 0, trace # <<>>, ~answer.location,
               NEW named, named = IF answer.root = NoRoot THEN trace[1].target ELSE answer.root
        PROVE  /\ \E i \in DOMAIN trace : named = Root(trace[i].backend)
               /\ trace[1].discovery => named = Root(trace[1].backend)
    <3>1. trace \in Seq(Hop) /\ 1 \in DOMAIN trace
      BY <2>2 DEF RouteInv, RouteTypes
    <3>2. Named(trace, answer, 0)
      BY <2>2 DEF RouteInv, Answered
    <3>3. CASE answer.root = NoRoot /\ \A i \in DOMAIN trace : i > 0 => ~trace[i].discovery
      <4>1. ~trace[1].discovery
        BY <3>1, <3>3
      <4> QED
        BY <2>0, <2>2, <3>1, <3>3, <4>1 DEF Told
    <3>4. ASSUME NEW i \in DOMAIN trace, answer.root = trace[i].root,
                 \A j \in DOMAIN trace : 0 < j /\ j < i => ~trace[j].discovery
          PROVE  /\ \E k \in DOMAIN trace : named = Root(trace[k].backend)
                 /\ trace[1].discovery => named = Root(trace[1].backend)
      <4>1. trace[i] \in Hop
        BY <3>1
      <4>2. answer.root \in Roots
        BY <3>4, <4>1 DEF Hop
      <4>3. named = trace[i].root
        BY <2>2, <3>4, <4>2, ConfigAssumption
      <4>4. trace[1].discovery => i = 1
        BY <3>1, <3>4
      <4> QED
        BY <2>1, <3>1, <4>3, <4>4
    <3> QED
      BY <3>2, <3>3, <3>4 DEF Named
  <2> QED
    BY <2>1, <2>2 DEF RootFollowsBackend
<1> QED
  BY <1>1, RouteInvariance, PTL

-----------------------------------------------------------------------------
(* Types of routing *)

\* The part of the types that the invariant does not have.
ExchangeTypes ==
  /\ exchange.backend \in Peers \cup {BackendOf(NoRoot)}
  /\ exchange.query \in Queries
  /\ exchange.grouped \in BOOLEAN /\ exchange.retried \in BOOLEAN
  /\ request = [target |-> request.target, inst |-> request.inst,
                discovery |-> request.discovery, hops |-> request.hops]
  /\ budget \in 0 .. MaxHops
  /\ outcome \in {0, 200, 400, 403, 405, 500, 502, 503, 504, 508}

LEMMA RefuseType ==
  ASSUME ExchangeTypes, NEW c \in {400, 403, 405, 500, 502, 503, 504, 508}, Refuse(c)
  PROVE  ExchangeTypes'
BY DEF ExchangeTypes, Refuse

LEMMA ExchangeType ==
  ASSUME ExchangeTypes, NEW b \in Peers, NEW grouped \in BOOLEAN, NEW q \in Queries,
         Exchange(b, grouped, q)
  PROVE  ExchangeTypes'
BY DEF ExchangeTypes, Exchange

LEMMA ChooseType ==
  ASSUME ExchangeTypes, request.inst \in Queries, NEW b \in Domain(request.inst), Choose(b)
  PROVE  ExchangeTypes'
<1>1. CASE Loop(b)
  BY <1>1, RefuseType DEF Choose
<1>2. CASE ~Loop(b)
  BY <1>2, ExchangeType, PeerRoot DEF Choose, Domain
<1> QED
  BY <1>1, <1>2

LEMMA RouteTypeNext == RouteInv /\ ExchangeTypes /\ [RouteNext]_routeVars => ExchangeTypes'
<1> SUFFICES ASSUME RouteInv, ExchangeTypes, [RouteNext]_routeVars PROVE ExchangeTypes'
  OBVIOUS
<1>0. request.inst \in Queries /\ NoInst \in Queries
  BY DEF RouteInv, RouteTypes, Queries
<1>1. CASE ParseFails
  <2>1. Refusal \in {400, 405, 508} /\ Refuse(Refusal)
    BY <1>1 DEF ParseFails, Refusal
  <2> QED
    BY <2>1, RefuseType
<1>2. CASE Parse
  BY <1>2 DEF Parse, ExchangeTypes
<1>3. CASE RouteAllowed
  <2>1. request.target \in Roots
    BY <1>3 DEF RouteAllowed, RouteInv, RouteTypes, Roots
  <2>2. BackendOf(request.target) \in Peers
    BY <2>1, PeerRoot
  <2>3. PICK no \in BOOLEAN : no = FALSE
    OBVIOUS
  <2>4. Exchange(BackendOf(request.target), no, NoInst)
    BY <1>3, <2>3 DEF RouteAllowed
  <2> QED
    BY <1>0, <2>2, <2>4, ExchangeType
<1>4. CASE RouteCached
  <2>1. CASE \E code \in {400, 403, 504} : Refuse(code)
    BY <2>1, RefuseType
  <2>2. ASSUME NEW q \in Queries, NEW b \in Domain(q), Exchange(b, TRUE, q)
        PROVE  ExchangeTypes'
    BY <2>2, ExchangeType, PeerRoot DEF Domain
  <2>3. \/ \E q \in Queries : \E b \in Domain(q) : IsTarget(b) /\ Exchange(b, TRUE, q)
        \/ \E code \in {400, 403, 504} : Refuse(code)
    BY <1>4 DEF RouteCached
  <2>4. CASE \E q \in Queries : \E b \in Domain(q) : IsTarget(b) /\ Exchange(b, TRUE, q)
    BY <2>2, <2>4
  <2> QED
    BY <2>1, <2>3, <2>4
<1>5. CASE DiscoveryFails
  BY <1>5, RefuseType DEF DiscoveryFails
<1>6. CASE Discovered \/ PreferTarget \/ TargetListed \/ SelectAny
  <2>1. ASSUME NEW next, Goto(next) PROVE ExchangeTypes'
    BY <2>1 DEF Goto, ExchangeTypes
  <2>2. ASSUME NEW b \in Domain(request.inst), Choose(b) PROVE ExchangeTypes'
    BY <1>0, <2>2, ChooseType
  <2>3. ASSUME NEW code \in {400, 502, 504}, Refuse(code) PROVE ExchangeTypes'
    BY <2>3, RefuseType
  <2>4. CASE Discovered
    BY <2>1, <2>4 DEF Discovered
  <2>5. CASE PreferTarget
    BY <2>1, <2>2, <2>5, Zenon DEF PreferTarget
  <2>6. CASE TargetListed
    <3>1. Goto("select") \/ Refuse(400)
      BY <2>6 DEF TargetListed
    <3> QED
      BY <2>1, <2>3, <3>1
  <2>7. CASE SelectAny
    <3>1. \/ \E b \in Domain(request.inst) : Choose(b)
          \/ \E code \in {502, 504} : Refuse(code)
      BY <2>7, Zenon DEF SelectAny
    <3>2. CASE \E code \in {502, 504} : Refuse(code)
      BY <2>3, <3>2
    <3> QED
      BY <2>2, <3>1, <3>2
  <2> QED
    BY <1>6, <2>4, <2>5, <2>6, <2>7
<1>7. CASE RetryConnect
  <2>1. PICK b \in Domain(exchange.query) : exchange' = Redirected(b)
    BY <1>7 DEF RetryConnect
  <2>2. b \in Peers
    BY PeerRoot DEF Domain
  <2>3. exchange' = [backend |-> b, root |-> Root(b), grouped |-> exchange.grouped,
                     query |-> exchange.query, retried |-> TRUE]
    BY <2>1 DEF RouteInv, RouteTypes, Redirected
  <2> QED
    BY <1>7, <2>2, <2>3 DEF ExchangeTypes, RetryConnect
<1>8. CASE ConnectFails
  BY <1>8, RefuseType DEF ConnectFails
<1>9. CASE Deliver
  BY <1>9 DEF Deliver, ExchangeTypes
<1>10. CASE Forward
  BY <1>0, <1>10 DEF Forward, NoExchange, ExchangeTypes
<1>11. CASE ResponseHeaders \/ Done \/ UNCHANGED routeVars
  BY <1>11 DEF ResponseHeaders, Done, routeVars, ExchangeTypes
<1> QED
  BY <1>1, <1>2, <1>3, <1>4, <1>5, <1>6, <1>7, <1>8, <1>9, <1>10, <1>11 DEF RouteNext, Step

\* The request and its exchange keep their types at every SCP: a backend is one that an
\* NRF knows or stands for a configured root, and hop counts do not grow.
THEOREM RouteTypeTheorem == RouteSpec => []RouteTypeOK
<1>1. RouteInit => ExchangeTypes
  <2> SUFFICES ASSUME RouteInit PROVE ExchangeTypes
    OBVIOUS
  <2>1. header.hops \in 0 .. MaxHops + 1
    BY ConfigAssumption DEF RouteInit, Header
  <2>2. budget \in 0 .. MaxHops /\ NoInst \in Queries
    BY <2>1, ConfigAssumption DEF RouteInit, NoHops, Queries
  <2> QED
    BY <2>2 DEF RouteInit, NoExchange, ExchangeTypes
<1>2. RouteInv /\ ExchangeTypes => RouteTypeOK
  <2> SUFFICES ASSUME RouteInv, ExchangeTypes PROVE RouteTypeOK
    OBVIOUS
  <2>1. /\ request.target \in Roots \cup {NoRoot} /\ request.inst \in Queries
        /\ request.discovery \in BOOLEAN /\ request.hops \in 0 .. MaxHops
    BY DEF RouteInv, RouteTypes
  <2>2. request \in [target : Roots \cup {NoRoot}, inst : Queries, discovery : BOOLEAN,
                     hops : 0 .. MaxHops]
    BY <2>1 DEF ExchangeTypes
  <2>3. back \in 0 .. Len(trace)
    BY DEF RouteInv, RouteTypes, Answered
  <2> QED
    BY <2>2, <2>3 DEF RouteInv, RouteTypes, ExchangeTypes, RouteTypeOK, Looking
<1> QED
  BY <1>1, <1>2, RouteTypeNext, RouteInvariance, PTL DEF RouteSpec
=============================================================================
