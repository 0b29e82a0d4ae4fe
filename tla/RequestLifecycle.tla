-------------------------- MODULE RequestLifecycle --------------------------
(***************************************************************************)
(* One request through the callbacks of DynamicProxy (upstreams/runtime/   *)
(* proxy.rs, response.rs, limits.rs and completion.rs), in the order in    *)
(* which Pingora calls them: request_filter, then attempts of              *)
(* upstream_peer, connect, upstream_request_filter and the two body        *)
(* streams, fail_to_proxy after an error that is not retried, logging.     *)
(*                                                                         *)
(* Free choices are what plugins answer, what the route resolution, the    *)
(* SCP router and the load balancer return, whether a write to the client  *)
(* or an upstream exchange fails, and how bodies are cut into chunks.  The *)
(* store behind the response cache is in ResponseCache.                    *)
(***************************************************************************)
EXTENDS Naturals, Sequences, FiniteSets

CONSTANTS Plugins,    \* plugins in the chain of the selected route
          MaxU64,     \* largest value of the u64 that counts body bytes
          MaxChunk,   \* bound: bytes in a chunk of a body
          MaxBody,    \* bound: bytes of a body
          MaxAttempts \* max_retries of Pingora, plus one

\* A u64 holds the limits of the routes below; the first attempt is no retry.
ASSUME BoundsAssumption ==
  /\ {Plugins, MaxU64, MaxChunk, MaxBody, MaxAttempts} \subseteq Nat
  /\ MaxU64 >= 2 /\ MaxAttempts >= 1

\* None of an Option<u64>: no limit, no Content-Length, nothing to collect.
None == MaxU64 + 1

VARIABLES request,   \* what the request is, fixed at arrival
          pc,        \* the callback that comes next
          selected,  \* ctx.selected
          limit,     \* ctx.client_max_body_size
          asked,     \* on_request hooks that have answered Continue
          scp,       \* ctx.scp_profile and ctx.scp: "no", "profile", "exchange", "retried"
          key,       \* ctx.cache_key is set
          capture,   \* ctx.cache_body_limit
          buf,       \* length of ctx.response_body_buf
          received,  \* ctx.received_body_bytes
          applied,   \* ctx.response_plugins_applied
          error,     \* the error that ends the current callback
          responses, \* responses started on the downstream session
          attempts,  \* connections asked for
          delivered, \* connections the request was sent on
          forwarded, \* request body bytes sent on the last of them
          broken,    \* a write to the client has failed
          reusable,  \* the downstream connection may serve another request
          stored,    \* bytes of the body put into the response cache
          ran        \* History: how often the response hooks were run

context == <<selected, limit, asked, scp, key>>
cacheState == <<capture, buf, stored>>
upstream == <<attempts, delivered, forwarded>>
client == <<responses, broken, reusable, ran>>
vars == <<request, pc, context, cacheState, received, applied, error, upstream, client>>

NoError == [type |-> "none", code |-> 0, source |-> "other"]
Status(c) == [type |-> "status", code |-> c, source |-> "other"]
Internal == [type |-> "other", code |-> 0, source |-> "other"]
HookFailed == [type |-> "hook", code |-> 0, source |-> "other"]
From(s) == [type |-> "other", code |-> 0, source |-> s]
ReadTimedout == [type |-> "read_timeout", code |-> 0, source |-> "downstream"]

\* A location: SCP locations cannot have a cache (compile/routes.rs).
Routes ==
  [target : {"pending", "return", "direct", "scp"}, cache : BOOLEAN, stale : BOOLEAN,
   limit : {None, 0, 2}]
NoRoute == [target |-> "none", cache |-> FALSE, stale |-> FALSE, limit |-> None]
ValidRoute(r) == (r.target = "scp" => ~r.cache) /\ (r.stale => r.cache)

\* Requests: a cacheable request is a GET; length is its Content-Length, if any.
Arrivals ==
  {q \in [idempotent : BOOLEAN, cacheable : BOOLEAN, http2 : BOOLEAN,
          length : {None} \cup (0 .. MaxBody)] : q.cacheable => q.idempotent}

Init ==
  /\ request \in Arrivals
  /\ pc = "request_filter"
  /\ selected = NoRoute
  /\ limit \in {1, MaxU64, None} \* http_options.client_max_body_size
  /\ asked = 0
  /\ scp = "no"
  /\ key = FALSE
  /\ capture = None /\ buf = 0 /\ stored = None
  /\ received = 0
  /\ applied = FALSE
  /\ error = NoError
  /\ responses = <<>>
  /\ attempts = 0 /\ delivered = 0 /\ forwarded = 0
  /\ broken = FALSE
  /\ reusable = TRUE
  /\ ran = 0

-----------------------------------------------------------------------------
(* Writing to the client *)

\* The outcomes of writing a header and a body: nothing was written, the header
\* was, or everything.
Writes(kind, code, decorated) ==
  LET Resp(whole) == [kind |-> kind, code |-> code, decorated |-> decorated,
                      complete |-> whole, bytes |-> 0]
  IN {[sent |-> <<>>, error |-> From("downstream")],
      [sent |-> <<Resp(FALSE)>>, error |-> From("downstream")],
      [sent |-> <<Resp(TRUE)>>, error |-> NoError]}

\* apply_response_plugins: the chain runs once for a request; a hook may fail.
ApplyFails == IF applied \/ selected = NoRoute \/ Plugins = 0 THEN {}
              ELSE {[sent |-> <<>>, error |-> HookFailed]}

\* Fault: only the responses of the upstream pass through the hooks.
DecoratesUpstream == ~applied /\ selected # NoRoute /\ pc = "exchange"

Decorates == ~applied /\ selected # NoRoute

\* Fault: the flag is set when the callback has succeeded.
SetAppliedLate ==
  /\ applied' = (applied \/ pc' # "fail_to_proxy")
  /\ ran' = IF Decorates THEN ran + 1 ELSE ran

\* The flag is set before the first hook runs.
SetApplied ==
  /\ applied' = TRUE
  /\ ran' = IF Decorates THEN ran + 1 ELSE ran

\* write_route_response
RouteReply(kind, code) == ApplyFails \cup Writes(kind, code, Decorates)

\* A callback of the request phase answers: the request is over, or failed.
\* Unless keep is set, set_keepalive(None) goes before it.
Answer(outcomes, keep) ==
  \E o \in outcomes :
    /\ responses' = responses \o o.sent
    /\ broken' = (broken \/ o.error.source = "downstream")
    /\ reusable' = (reusable /\ keep)
    /\ error' = o.error
    /\ pc' = IF o.error = NoError THEN "logging" ELSE "fail_to_proxy"

Reply(kind, code, keep) == Answer(RouteReply(kind, code), keep) /\ SetApplied

\* The callback returns an error; those it makes itself are not retryable.
Fail(e) == error' = e /\ pc' = "fail_to_proxy"

GoTo(p) == pc' = p /\ UNCHANGED <<error, applied, client>>

-----------------------------------------------------------------------------
(* request_filter *)

\* content_length_limit_exceeded
TooLong(max) == request.length # None /\ max # None /\ request.length > max

\* Fault: the connection is kept after respond_error(413).
RestrictKeeping(max, next) ==
  IF TooLong(max) THEN Answer(Writes("raw", 413, FALSE), TRUE) /\ UNCHANGED <<applied, ran>>
  ELSE GoTo(next)

\* restrict_client_max_body_size answers with respond_error(413), or goes on.
Restrict(max, next) ==
  IF TooLong(max) THEN Answer(Writes("raw", 413, FALSE), FALSE) /\ UNCHANGED <<applied, ran>>
  ELSE GoTo(next)

\* The HTTP-01 responder knows the token.
Challenge ==
  /\ pc = "request_filter"
  /\ Reply("local", 200, FALSE)
  /\ UNCHANGED <<request, context, cacheState, received, upstream>>

\* The route resolution fails: bad Host, SNI mismatch, no listener address.
SelectFails ==
  /\ pc = "request_filter"
  /\ \E c \in {400, 421, 500} : Fail(IF c = 500 THEN Internal ELSE Status(c))
  /\ UNCHANGED <<request, context, cacheState, received, applied, client, upstream>>

\* No location matches: the request goes on to upstream_peer, which answers 404.
SelectNothing ==
  /\ pc = "request_filter"
  /\ Restrict(limit, "upstream_peer")
  /\ UNCHANGED <<request, context, cacheState, received, upstream>>

\* The route, and the body limit of its location, where 0 lifts the limit.
Select(r) ==
  LET max == CASE r.limit = None -> limit [] r.limit = 0 -> None
               [] OTHER -> r.limit
  IN /\ pc = "request_filter"
     /\ ValidRoute(r)
     /\ selected' = r
     /\ limit' = max
     /\ Restrict(max, "authorize")
     /\ UNCHANGED <<request, asked, scp, key, cacheState, received, upstream>>

\* Fault: a cacheable request is looked up before the request hooks.
AuthorizeCacheFirst ==
  /\ pc = "authorize"
  /\ \/ \E c \in {403, 405} : Reply("local", c, FALSE)
     \/ GoTo(IF request.cacheable /\ selected.cache THEN "try_cache" ELSE "on_request")
  /\ UNCHANGED <<request, context, cacheState, received, upstream>>

\* authorize_request: the access rules and the allowed methods ...
Authorize ==
  /\ pc = "authorize"
  /\ \/ \E c \in {403, 405} : Reply("local", c, FALSE)
     \/ GoTo("on_request")
  /\ UNCHANGED <<request, context, cacheState, received, upstream>>

\* ... then the request hooks, in order, until one of them responds or fails.
OnRequest ==
  /\ pc = "on_request"
  /\ IF asked = Plugins THEN GoTo("prepare_scp") /\ UNCHANGED asked
     ELSE \/ asked' = asked + 1 /\ UNCHANGED <<pc, error, applied, client>>
          \/ Reply("local", 401, FALSE) /\ UNCHANGED asked
          \/ Fail(Internal) /\ UNCHANGED <<asked, applied, client>>
  /\ UNCHANGED <<request, selected, limit, scp, key, cacheState, received, upstream>>

\* The statuses with which ScpRequest::parse and RuntimeScp::route refuse.
ScpRefusals == {400, 403, 405, 500, 502, 503, 504, 508}

\* prepare_scp_request: HTTP/2 only; ScpRequest::parse and route may refuse.
PrepareScp ==
  /\ pc = "prepare_scp"
  /\ IF selected.target # "scp" THEN GoTo("try_cache") /\ UNCHANGED scp
     ELSE \/ ~request.http2 /\ scp' = "profile" /\ Reply("scp", 505, TRUE)
          \/ request.http2 /\ scp' = "profile"
             /\ \E c \in ScpRefusals : Reply("scp", c, TRUE)
          \/ request.http2 /\ scp' = "exchange" /\ GoTo("try_cache")
  /\ UNCHANGED <<request, selected, limit, asked, key, cacheState, received, upstream>>

\* try_cache.  Whether the request is cacheable is decided on its own headers and
\* once more after the plugins, which may have added private ones.
TryCache ==
  /\ pc = "try_cache"
  /\ \/ request.cacheable /\ selected.cache
        /\ Answer(Writes("cached", 200, FALSE), TRUE) /\ UNCHANGED <<key, applied, ran>>
     \/ request.cacheable /\ selected.cache /\ key' = TRUE /\ GoTo("select_target")
     \/ (request.cacheable /\ selected.cache => Plugins > 0)
        /\ GoTo("select_target") /\ UNCHANGED key
  /\ UNCHANGED <<request, selected, limit, asked, scp, cacheState, received, upstream>>

\* select_backend_target resolves a pending target; respond_to_selected_target
\* answers for the targets that have no upstream.
SelectTarget ==
  /\ pc = "select_target"
  /\ IF selected.target # "pending" THEN UNCHANGED selected
     ELSE \E t \in {"pending", "direct", "upstream"} : selected' = [selected EXCEPT !.target = t]
  /\ \/ /\ selected'.target = "pending" \* 503, or a configuration error
        /\ \E e \in {Status(503), Internal} : Fail(e)
        /\ UNCHANGED <<applied, client>>
     \/ selected'.target = "direct" /\ Reply("local", 200, TRUE)
     \/ selected'.target = "return" /\ Reply("local", 302, FALSE)
     \/ selected'.target \in {"upstream", "scp"} /\ GoTo("upstream_peer")
  /\ UNCHANGED <<request, limit, asked, scp, key, cacheState, received, upstream>>

-----------------------------------------------------------------------------
(* The upstream exchange *)

\* upstream_peer, asked again for every attempt: 404 without a route, DNS failures
\* of an SCP target, TLS configuration errors.
UpstreamPeer ==
  /\ pc = "upstream_peer"
  /\ \/ selected = NoRoute /\ Fail(Status(404)) /\ UNCHANGED attempts
     \/ /\ selected # NoRoute
        /\ \/ \E e \in {Internal} \cup (IF scp = "no" THEN {} ELSE {Status(504)}) : Fail(e)
           \/ pc' = "connect" /\ UNCHANGED error
        /\ attempts' = attempts + 1
  /\ UNCHANGED <<request, context, cacheState, received, applied, client, delivered,
                 forwarded>>

\* fail_to_connect: an SCP exchange decides on its own (retry_connect: once, if
\* another backend can be selected); otherwise Pingora's verdict on the error counts.
FailToConnect ==
  /\ pc = "connect"
  /\ \/ /\ scp # "retried" /\ attempts < MaxAttempts
        /\ scp' = IF scp = "exchange" THEN "retried" ELSE scp
        /\ pc' = "upstream_peer" /\ UNCHANGED error
     \/ Fail(From("upstream")) /\ UNCHANGED scp
  /\ UNCHANGED <<request, selected, limit, asked, key, cacheState, received, applied,
                 client, upstream>>

\* upstream_request_filter, with the on_upstream_request hooks, and the request is sent.
SendRequest ==
  /\ pc = "connect"
  /\ \/ /\ pc' = "exchange"
        /\ delivered' = delivered + 1
        /\ forwarded' = 0
        /\ UNCHANGED error
     \/ Fail(Internal) /\ UNCHANGED <<delivered, forwarded>>
  /\ UNCHANGED <<request, context, cacheState, received, applied, client, attempts>>

\* Fault: the count wraps around.
AddWrapping(n) == (received + n) % (MaxU64 + 1)

\* update_received_body_bytes: checked_add, then the limit.
Add(n) == IF received + n > MaxU64 THEN None ELSE received + n
TooLarge(n) == limit # None /\ Add(n) > limit

\* request_body_filter, before a chunk of the request body is forwarded.  Traffic of
\* an upgraded connection is not a request body.
RequestBody(n) ==
  /\ pc = "exchange"
  /\ forwarded + n <= MaxBody
  /\ IF TooLarge(n) THEN Fail(Status(413)) /\ UNCHANGED <<received, forwarded>>
     ELSE /\ received' = IF limit = None THEN received ELSE Add(n)
          /\ forwarded' = forwarded + n
          /\ UNCHANGED <<pc, error>>
  /\ UNCHANGED <<request, context, cacheState, applied, client, attempts, delivered>>

\* response_filter: the plugins, the headers of an SCP exchange, then the decision
\* to collect the body for the cache; Pingora writes the header afterwards.
ResponseFilter ==
  /\ pc = "exchange"
  /\ responses = <<>>
  /\ \/ \E o \in ApplyFails : Fail(o.error) /\ UNCHANGED <<responses, broken, capture>>
     \/ /\ capture' \in IF key THEN {None, 0, 2} ELSE {None}
        /\ broken' = TRUE /\ Fail(From("downstream")) /\ UNCHANGED responses
     \/ /\ responses' = <<[kind |-> "upstream", code |-> 200, decorated |-> Decorates,
                           complete |-> FALSE, bytes |-> 0]>>
        /\ capture' \in IF key THEN {None, 0, 2} ELSE {None}
        /\ UNCHANGED <<pc, error, broken>>
  /\ SetApplied
  /\ UNCHANGED <<request, context, buf, stored, received, upstream, reusable>>

Streaming == pc = "exchange" /\ responses # <<>>

\* response_body_filter collects the chunk, or gives up on the whole body.
Collect(n) ==
  IF capture = None THEN UNCHANGED <<buf, capture>>
  ELSE IF buf + n > capture THEN capture' = None /\ buf' = 0
  ELSE buf' = buf + n /\ UNCHANGED capture

ResponseBody(n) ==
  /\ Streaming
  /\ responses[1].bytes + n <= MaxBody
  /\ Collect(n)
  /\ \/ responses' = [responses EXCEPT ![1].bytes = @ + n]
        /\ UNCHANGED <<pc, error, broken>>
     \/ broken' = TRUE /\ Fail(From("downstream")) /\ UNCHANGED responses
  /\ UNCHANGED <<request, context, stored, received, applied, upstream, reusable, ran>>

\* The upstream has sent its whole response.
EndResponse ==
  /\ Streaming
  /\ responses' = [responses EXCEPT ![1].complete = TRUE]
  /\ pc' = "logging"
  /\ UNCHANGED <<request, context, cacheState, received, applied, error, upstream, broken,
                 reusable, ran>>

\* Fault: Pingora's verdict is taken for every request.
RetryAnything == attempts < MaxAttempts

\* error_while_proxy: never for SCP nor for a method that is not idempotent, and
\* otherwise what Pingora decides, provided the body fits the retry buffer.
Retryable == scp = "no" /\ request.idempotent /\ attempts < MaxAttempts

\* The exchange fails: upstream, client, or the client's body in time.  Pingora
\* retries only what failed before the response began.
ErrorWhileProxy ==
  /\ pc = "exchange"
  /\ \/ /\ Retryable /\ responses = <<>>
        /\ pc' = "upstream_peer" /\ UNCHANGED error
     \/ \E e \in {From("upstream"), From("downstream"), Internal, ReadTimedout} : Fail(e)
  /\ UNCHANGED <<request, context, cacheState, received, applied, client, upstream>>

-----------------------------------------------------------------------------
(* fail_to_proxy and logging *)

\* Fault: the error response is written whatever was written before.
WrittenIgnored == FALSE

\* session.response_written()
Written == responses # <<>>

ScpCode ==
  CASE error.type = "status" -> error.code
    [] error.source = "upstream" -> 504
    [] error.source = "downstream" -> 400
    [] OTHER -> 500

ErrorCode ==
  CASE error.type = "status" -> error.code
    [] error.type = "read_timeout" -> 408
    [] error.source = "upstream" -> 502
    [] error.source = "downstream" -> 400
    [] OTHER -> 500

\* Fault: a response that could not be written is given up.
FallbackNone(o) == {o}

\* When nothing of the response could be written, respond_error(500) tries again.
Fallback(o) == IF o.error # NoError /\ o.sent = <<>> THEN Writes("raw", 500, FALSE) ELSE {o}

\* An upstream error of a cacheable request whose location has stale_if_error.
StaleAllowed == error.source = "upstream" /\ selected.stale /\ key

Finish(outcomes, reuse) ==
  \E o \in outcomes :
    /\ responses' = responses \o o.sent
    /\ broken' = (broken \/ o.error.source = "downstream")
    /\ reusable' = (reusable /\ reuse /\ o.error = NoError)
    /\ pc' = "logging"

\* A started response is only cut off; a stale one may be served instead of the error;
\* the error is answered through the route's plugins.
FailToProxy ==
  /\ pc = "fail_to_proxy"
  /\ \/ /\ Written
        /\ reusable' = FALSE
        /\ pc' = "logging"
        /\ UNCHANGED <<responses, broken, applied, ran>>
     \/ /\ ~Written /\ scp = "no" /\ StaleAllowed
        /\ Finish(Writes("stale", 200, FALSE), TRUE)
        /\ UNCHANGED <<applied, ran>>
     \/ /\ ~Written
        /\ LET reply == IF scp # "no" THEN RouteReply("scp", ScpCode)
                        ELSE RouteReply("error", ErrorCode)
           IN Finish(UNION {Fallback(o) : o \in reply}, FALSE)
        /\ SetApplied
  /\ UNCHANGED <<request, context, cacheState, received, error, upstream>>

\* Fault: what was collected is stored although the request failed.
StorableAfterError == capture # None

\* finish_request: nothing of a failed request is kept.
Storable == error = NoError /\ capture # None

Logging ==
  /\ pc = "logging"
  /\ pc' = "done"
  /\ stored' = IF Storable THEN buf ELSE None
  /\ UNCHANGED <<request, context, capture, buf, received, applied, error, client, upstream>>

Done == pc = "done" /\ UNCHANGED vars

Next ==
  \/ Challenge \/ SelectFails \/ SelectNothing \/ \E r \in Routes : Select(r)
  \/ Authorize \/ OnRequest \/ PrepareScp \/ TryCache \/ SelectTarget
  \/ UpstreamPeer \/ FailToConnect \/ SendRequest
  \/ \E n \in 1 .. MaxChunk : RequestBody(n) \/ ResponseBody(n)
  \/ ResponseFilter \/ EndResponse \/ ErrorWhileProxy
  \/ FailToProxy \/ Logging \/ Done

Spec == Init /\ [][Next]_vars

-----------------------------------------------------------------------------
Callbacks ==
  {"request_filter", "authorize", "on_request", "prepare_scp", "try_cache", "select_target",
   "upstream_peer", "connect", "exchange", "fail_to_proxy", "logging", "done"}

Last == responses[Len(responses)]

Errors ==
  [type : {"none", "status", "other", "hook", "read_timeout"}, code : Nat,
   source : {"other", "upstream", "downstream"}]

Response ==
  [kind : {"raw", "local", "scp", "cached", "stale", "upstream", "error"}, code : Nat,
   decorated : BOOLEAN, complete : BOOLEAN, bytes : 0 .. MaxBody]

\* The types of the request's context and of its sessions; the buffer for the cache
\* stays within its limit and is empty when nothing is collected.
TypeOK ==
  /\ request \in Arrivals
  /\ pc \in Callbacks
  /\ selected \in {NoRoute} \cup [target : {"pending", "return", "direct", "scp", "upstream"},
       cache : BOOLEAN, stale : BOOLEAN, limit : {None, 0, 2}]
  /\ limit \in 0 .. None
  /\ asked \in 0 .. Plugins
  /\ scp \in {"no", "profile", "exchange", "retried"}
  /\ key \in BOOLEAN
  /\ capture \in 0 .. None
  /\ buf \in 0 .. (IF capture = None THEN 0 ELSE capture)
  /\ received \in 0 .. MaxU64
  /\ attempts \in 0 .. MaxAttempts /\ delivered \in 0 .. attempts
  /\ forwarded \in 0 .. MaxBody
  /\ {applied, broken, reusable} \subseteq BOOLEAN
  /\ error \in Errors
  /\ responses \in Seq(Response)
  /\ stored \in 0 .. None
  /\ ran \in Nat

\* "started responses are never replaced" and "no ProblemDetails body is appended":
\* whichever callbacks fail, the client is sent at most one response.
OneResponse == Len(responses) <= 1

\* "These checks precede cache lookup and upstream selection or SCP discovery": no
\* cached or stale response is served, no backend contacted and no SCP exchange
\* prepared unless every request hook has let the request pass.
PolicyFirst ==
  \/ attempts > 0 \/ scp # "no" \/ key
  \/ responses # <<>> /\ Last.kind \in {"cached", "stale", "upstream"}
  => asked = Plugins /\ selected # NoRoute

\* "No replay of non-idempotent requests after an upstream connection is
\* established", nor of SCP requests, which try at most one alternative backend.
NoReplay ==
  /\ delivered > 1 => request.idempotent /\ scp = "no"
  /\ scp # "no" => attempts <= 2

\* client_max_body_size holds for what is forwarded, whatever the chunking and even
\* if the count of received bytes would overflow.
BodyWithinLimit == limit # None => forwarded <= limit

\* "completion commits only responses accepted by the existing cache policy and skips
\* writes after proxy errors": a stored body is the one a client has received in full.
StoredComplete ==
  stored # None =>
    /\ Len(responses) = 1 /\ Last.kind = "upstream" /\ Last.complete
    /\ Last.bytes = stored /\ Last.decorated /\ key

\* Every request is answered, even when response hooks fail, unless the connection
\* to the client has failed.
AlwaysAnswered == pc = "done" /\ ~broken => responses # <<>> /\ (Last.complete \/ ~reusable)

\* A request is answered once: not twice when a step fails after the response has
\* begun, and not never when the step that should answer fails.
AnsweredOnce == OneResponse /\ AlwaysAnswered

\* A connection is kept for another request only after a complete response, and never
\* after a body that was refused: its rest would be taken for the next request.
ReusedOnlyWhenClean ==
  pc = "done" /\ reusable => responses # <<>> /\ Last.complete /\ Last.code # 413

\* The response hooks run once for what a plugin, a redirect, the SCP router, an
\* upstream or an error handler answers, however many of these try to answer: the
\* response the client gets has passed the chain, it is not spent on one that is never
\* seen, and when a hook or a write fails the chain is not run again for the error.
Decorated ==
  /\ ran <= 1
  /\ pc = "done" /\ selected # NoRoute /\ responses # <<>>
       /\ Last.kind \in {"local", "scp", "error", "upstream"}
     => ran = 1 /\ (error.type # "hook" /\ ~broken => Last.decorated)

=============================================================================
