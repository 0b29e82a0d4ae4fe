----------------------------- MODULE ScpRouting -----------------------------
(***************************************************************************)
(* The way of an SBI request through SCPs: ScpRequest::parse, route,       *)
(* retry_connect and the header rewriting of ScpExchange (upstreams/scp.rs *)
(* and scp/request.rs), and the part of the NRF result that decides who is *)
(* a candidate (extract_query_endpoints of nrf.rs).                        *)
(*                                                                         *)
(* Several SCPs may know each other as producers, so a request can travel  *)
(* from one to the next.  An apiRoot is an authority (host and port) and a *)
(* prefix; an SCP is named by its authority.  A query is the NF instance a *)
(* request is restricted to.  The group of a query changes concurrently:   *)
(* a result is published before its candidates are, endpoints become       *)
(* unready, the window ends (NrfDiscovery, BackendSelection).  Nothing is  *)
(* locked over two looks at a group, so every look is a step of its own,   *)
(* and may find whatever extract_query_endpoints lets through.             *)
(*                                                                         *)
(* The answer goes back through the SCPs that have sent the request on.    *)
(***************************************************************************)
EXTENDS Naturals, Sequences, FiniteSets

CONSTANTS Scps,      \* the authorities of the SCPs
          Backends,  \* [auth, prefix, inst, addr]: what an NRF can know of
          Allowed,   \* allowed_target_api_roots of each SCP
          Headers,   \* what clients send, see Header
          NoInst,    \* no NF instance is asked for
          MaxHops    \* bound: hop counts, 255 in the code

Root(b) == [auth |-> b.auth, prefix |-> b.prefix]
NoRoot == [auth |-> NoInst, prefix |-> 0]
Roots == {Root(b) : b \in Backends} \cup UNION {Allowed[n] : n \in Scps}
Insts == {b.inst : b \in Backends}
Queries == Insts \cup {NoInst}

\* The headers the SCP reads.  bind is the NF instance of the routing binding, hops
\* 0 .. MaxHops, or MaxHops + 1 when the header is absent, path what the path is:
\* outside the apiRoot or traversing, a callback, or /service/vN/...
Header ==
  [method : {"CONNECT", "other"}, malformed : BOOLEAN, target : Roots \cup {NoRoot},
   inst : Queries, bind : Queries, types : BOOLEAN, hops : 0 .. MaxHops + 1,
   path : {"bad", "callback", "api"}]
NoHops == MaxHops + 1

\* No root is absent, an apiRoot has no other parts, and validate_profile: an SCP is
\* never its own target.
ASSUME ConfigAssumption ==
  /\ MaxHops \in Nat \ {0}
  /\ Headers \subseteq Header
  /\ NoInst \notin Insts \cup Scps
  /\ NoRoot \notin Roots
  /\ \A n \in Scps : \A r \in Allowed[n] :
       r.auth # n /\ r = [auth |-> r.auth, prefix |-> r.prefix]

VARIABLES at, step, \* the SCP that works on the request, and its step
          header,   \* the headers it has received
          request,  \* ScpRequest
          exchange, \* ScpExchange
          trace,    \* the SCPs that have sent the request on, and how
          budget,   \* hop count of the client's request
          outcome,  \* status of the answer, 0 while there is none
          answer,   \* its Target-apiRoot header, and whether it has a Location
          back      \* how many SCPs of the trace the answer has still to pass

routeVars ==
  <<at, step, header, request, exchange, trace, budget, outcome, answer, back>>

\* The backend that stands for a configured root (ApiRoot::backend).
BackendOf(r) == [auth |-> r.auth, prefix |-> r.prefix, inst |-> NoInst, addr |-> 0]

\* backend is what is connected to, root what URI, Host and answer are made of, query
\* the query of the group the backend is from.
NoExchange == [backend |-> BackendOf(NoRoot), root |-> NoRoot, grouped |-> FALSE,
               query |-> NoInst, retried |-> FALSE]
Peers == Backends \cup {BackendOf(r) : r \in Roots}
Hop == [scp : Scps, backend : Peers, root : Roots, target : Roots \cup {NoRoot},
        discovery : BOOLEAN]
NoAnswer == [root |-> NoRoot, location |-> FALSE]

RouteInit ==
  /\ at \in Scps
  /\ step = "parse"
  /\ header \in Headers
  /\ request = [target |-> NoRoot, inst |-> NoInst, discovery |-> FALSE, hops |-> 0]
  /\ exchange = NoExchange
  /\ trace = <<>>
  /\ budget = IF header.hops = NoHops THEN 1 ELSE header.hops
  /\ outcome = 0
  /\ answer = NoAnswer /\ back = 0

\* A local answer, which goes back to whoever has sent the request.
Refuse(code) ==
  /\ outcome' = code
  /\ step' = "answer"
  /\ back' = Len(trace)
  /\ UNCHANGED <<at, header, request, exchange, trace, budget, answer>>

-----------------------------------------------------------------------------
(* ScpRequest::parse *)

Hops == IF header.hops = NoHops THEN 1 ELSE header.hops
Discovery ==
  header.target = NoRoot \/ header.inst # NoInst \/ header.types \/ header.bind # NoInst
Conflict == header.bind # NoInst /\ header.inst \notin {NoInst, header.bind}

\* The refusals, in the order of the code; 0 stands for none.
Refusal ==
  IF header.method = "CONNECT" THEN 405
  ELSE IF header.malformed THEN 400
  ELSE IF header.target.auth = at \/ Hops = 0 THEN 508
  ELSE IF header.path = "bad" \/ (Discovery /\ header.path # "api") \/ Conflict THEN 400
  ELSE 0

ParseFails == step = "parse" /\ Refusal # 0 /\ Refuse(Refusal)

\* Fault: the hop count is handed on unchanged.
HopsLeftUnchanged == Hops
HopsLeft == Hops - 1

InstOf == IF header.bind # NoInst THEN header.bind ELSE header.inst

Parse ==
  /\ step = "parse" /\ Refusal = 0
  /\ request' = [target |-> header.target, inst |-> InstOf, discovery |-> Discovery,
                 hops |-> HopsLeft]
  /\ step' = "route"
  /\ UNCHANGED <<at, header, exchange, trace, budget, outcome, answer, back>>

-----------------------------------------------------------------------------
(* route *)

\* extract_query_endpoints keeps the profiles and services the query asks for.
Matches(b, q) == q = NoInst \/ b.inst = q
Domain(q) == {b \in Backends : Matches(b, q)}

\* Fault: the selected backend is not compared with the SCP itself.
LoopIgnored(b) == FALSE
Loop(b) == b.auth = at

Goto(next) ==
  /\ step' = next
  /\ UNCHANGED <<at, header, request, exchange, trace, budget, outcome, answer, back>>

Exchange(b, grouped, q) ==
  /\ exchange' = [backend |-> b, root |-> Root(b), grouped |-> grouped, query |-> q,
                  retried |-> FALSE]
  /\ step' = "connect"
  /\ UNCHANGED <<at, header, request, trace, budget, outcome, answer, back>>

Direct == step = "route" /\ ~request.discovery

\* A target without discovery: an allowed root ...
RouteAllowed ==
  /\ Direct
  /\ request.target \in Allowed[at]
  /\ Exchange(BackendOf(request.target), FALSE, NoInst)

\* ... or a root that a cached group knows and can select.
IsTarget(b) == Root(b) = request.target

RouteCached ==
  /\ Direct
  /\ request.target \notin Allowed[at]
  /\ \/ \E q \in Queries : \E b \in Domain(q) : IsTarget(b) /\ Exchange(b, TRUE, q)
     \/ \E code \in {400, 403, 504} : Refuse(code)

\* template and discovered refuse: outside the allowed domain, no usable result, a
\* crowded cache or nothing that supports the API.
DiscoveryFails ==
  /\ step = "route" /\ request.discovery
  /\ \E code \in {400, 403, 500, 503, 504} : Refuse(code)

\* discovered returns the group of the query.  The domain is what matches the query.
Discovered ==
  /\ step = "route" /\ request.discovery
  /\ Goto(IF request.target = NoRoot THEN "select" ELSE "prefer")

Choose(b) == IF Loop(b) THEN Refuse(508) ELSE Exchange(b, TRUE, request.inst)

\* The first look, scp_select for the target.  It may be unpublished, unready or
\* missed, and the window of the result may have ended.
PreferTarget ==
  /\ step = "prefer"
  /\ \/ \E b \in Domain(request.inst) : IsTarget(b) /\ Choose(b)
     \/ Goto("listed")

\* The second, scp_candidates: a target the schedule does not list is a conflict.
TargetListed ==
  /\ step = "listed"
  /\ \E candidates \in SUBSET Domain(request.inst) :
       IF \E b \in candidates : IsTarget(b) THEN Goto("select") ELSE Refuse(400)

\* The third, scp_select for anything; what it finds may have an unusable authority.
SelectAny ==
  /\ step = "select"
  /\ \/ \E b \in Domain(request.inst) : Choose(b)
     \/ \E code \in {502, 504} : Refuse(code)

-----------------------------------------------------------------------------
(* The exchange *)

\* Fault: the alternative may be any candidate, for a target-only request as well.
AlternativeAny(b) == b # exchange.backend
Alternative(b) == b # exchange.backend /\ (request.discovery \/ Root(b) = request.target)

\* Fault: only the address follows the alternative.
RedirectedAddress(b) == [exchange EXCEPT !.backend = b, !.retried = TRUE]
Redirected(b) == [exchange EXCEPT !.backend = b, !.root = Root(b), !.retried = TRUE]

\* retry_connect: once, within the group the backend came from, as it is now.
RetryConnect ==
  /\ step = "connect" /\ exchange.grouped /\ ~exchange.retried
  /\ \E b \in Domain(exchange.query) :
       Alternative(b) /\ ~Loop(b) /\ exchange' = Redirected(b)
  /\ UNCHANGED <<at, step, header, request, trace, budget, outcome, answer, back>>

\* The connection fails and is not retried.
ConnectFails == step = "connect" /\ Refuse(504)

\* The request is sent, with a URI and a Host made of the root.
Sent ==
  Append(trace, [scp |-> at, backend |-> exchange.backend, root |-> exchange.root,
                 target |-> request.target, discovery |-> request.discovery])

\* The producer answers, whatever it answers.
Deliver ==
  /\ step = "connect"
  /\ exchange.backend.auth \notin Scps
  /\ outcome' = 200
  /\ step' = "answer"
  /\ trace' = Sent
  /\ back' = Len(trace) + 1
  /\ \E location \in BOOLEAN : answer' = [root |-> NoRoot, location |-> location]
  /\ UNCHANGED <<at, header, request, exchange, budget>>

\* The producer is an SCP: request_headers has removed the target, the discovery
\* headers and the binding, and set the hop count.
Forward ==
  /\ step = "connect"
  /\ exchange.backend.auth \in Scps
  /\ at' = exchange.backend.auth
  /\ header' = [header EXCEPT !.target = NoRoot, !.inst = NoInst, !.bind = NoInst,
                              !.types = FALSE, !.hops = request.hops]
  /\ step' = "parse"
  /\ exchange' = NoExchange
  /\ trace' = Sent
  /\ UNCHANGED <<request, budget, outcome, answer, back>>

\* response_headers: an SCP names the root unless it is the one that was asked for.
ResponseHeaders ==
  /\ step = "answer" /\ back > 0
  /\ LET hop == trace[back] IN
     answer' = IF ~answer.location /\ (hop.discovery \/ hop.target # hop.root)
               THEN [answer EXCEPT !.root = hop.root] ELSE answer
  /\ back' = back - 1
  /\ UNCHANGED <<at, step, header, request, exchange, trace, budget, outcome>>

Step ==
  \/ ParseFails \/ Parse \/ RouteAllowed \/ RouteCached \/ DiscoveryFails
  \/ Discovered \/ PreferTarget \/ TargetListed \/ SelectAny
  \/ RetryConnect \/ ConnectFails \/ Deliver \/ Forward \/ ResponseHeaders

Done == step = "answer" /\ back = 0 /\ UNCHANGED routeVars

RouteNext == Step \/ Done

RouteSpec == RouteInit /\ [][RouteNext]_routeVars

-----------------------------------------------------------------------------
\* The types of the request and of its exchange.
RouteTypeOK ==
  /\ at \in Scps
  /\ step \in {"parse", "route", "prefer", "listed", "select", "connect", "answer"}
  /\ header \in Header
  /\ request \in [target : Roots \cup {NoRoot}, inst : Queries, discovery : BOOLEAN,
                  hops : 0 .. MaxHops]
  /\ exchange.backend \in Peers \cup {BackendOf(NoRoot)}
  /\ exchange.query \in Queries
  /\ exchange.grouped \in BOOLEAN /\ exchange.retried \in BOOLEAN
  /\ trace \in Seq(Hop) /\ budget \in 0 .. MaxHops
  /\ back \in 0 .. Len(trace)
  /\ outcome \in {0, 200, 400, 403, 405, 500, 502, 503, 504, 508}

\* "Default 1; decrement; zero/self-target fails before forwarding": whatever the SCPs
\* know of each other, at most as many of them send a request on as its hop count says.
HopBudget == Len(trace) <= budget

\* An SCP never connects to itself, under whatever prefix, neither at once nor when
\* it retries.
NeverSelf == step = "connect" => exchange.backend.auth # at

\* "within the same discovery/binding domain": a request bound or restricted to an NF
\* instance reaches only this instance and a request for a target only this target,
\* also after a retry and a refresh of the group in between.
InDomain ==
  step = "connect" =>
    /\ request.discovery /\ request.inst # NoInst => exchange.backend.inst = request.inst
    /\ ~request.discovery => Root(exchange.backend) = request.target
    /\ header.bind # NoInst => exchange.backend.inst = header.bind

\* What an SCP connects to is admissible when it connects, not only when it was
\* selected: another node, and inside the domain the request is bound to.
Admissible == NeverSelf /\ InDomain

\* "selected Target-apiRoot when there is no Location": the URI and the Host of a
\* request are those of the backend it is sent to, also after a retry; and the root
\* that the client is left with, named by the answer or by its own request, is one
\* that the request was sent to, by the first SCP if this one has discovered it.
RootFollowsBackend ==
  /\ \A i \in DOMAIN trace : trace[i].root = Root(trace[i].backend)
  /\ step = "answer" /\ back = 0 /\ trace # <<>> /\ ~answer.location =>
       LET named == IF answer.root = NoRoot THEN trace[1].target ELSE answer.root
       IN /\ \E i \in DOMAIN trace : named = Root(trace[i].backend)
          /\ trace[1].discovery => named = Root(trace[1].backend)
=============================================================================
