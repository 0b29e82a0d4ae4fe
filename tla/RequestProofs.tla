--------------------------- MODULE RequestProofs ----------------------------
(***************************************************************************)
(* The promises of the request callbacks, for any number of plugins and    *)
(* attempts and for bodies and chunks of any size: one answer, after the   *)
(* policies, with no replay, within the limits, and only whole responses   *)
(* in the cache.                                                           *)
(*                                                                         *)
(* The inductive invariant says, for every callback, what the earlier      *)
(* ones have left behind in the context.                                   *)
(***************************************************************************)
EXTENDS RequestLifecycle, RateLimit, TLAPS

\* Callbacks before any part of a response is written, and those after the last.
Early == {"request_filter", "authorize", "on_request", "prepare_scp", "try_cache",
          "select_target", "upstream_peer", "connect"}
Over == {"logging", "done"}

\* The types of what is shared with the client, of the context and of the traffic;
\* at most one response has begun.
ClientTypes ==
  /\ pc \in Callbacks
  /\ error \in Errors
  /\ responses \in Seq(Response)
  /\ responses = <<>> \/ (responses = <<responses[1]>> /\ responses[1] \in Response)
  /\ applied \in BOOLEAN /\ broken \in BOOLEAN /\ reusable \in BOOLEAN

ContextTypes ==
  /\ request \in Arrivals
  /\ selected \in {NoRoute} \cup [target : {"pending", "return", "direct", "scp", "upstream"},
       cache : BOOLEAN, stale : BOOLEAN, limit : {None, 0, 2}]
  /\ limit \in 0 .. None
  /\ asked \in 0 .. Plugins
  /\ scp \in {"no", "profile", "exchange", "retried"}
  /\ key \in BOOLEAN

TrafficTypes ==
  /\ capture \in {None, 0, 2}
  /\ buf \in 0 .. (IF capture = None THEN 0 ELSE capture)
  /\ stored \in 0 .. None
  /\ received \in 0 .. MaxU64
  /\ attempts \in 0 .. MaxAttempts /\ delivered \in 0 .. attempts
  /\ forwarded \in 0 .. MaxBody

\* The error is set by the callback that fails, and a response begins in one that
\* answers or in the exchange; the response hooks run when it does.
Stages ==
  /\ pc \in Early => responses = <<>> /\ ~applied
  /\ pc \notin {"fail_to_proxy"} \cup Over => error = NoError
  /\ pc = "fail_to_proxy" => error # NoError
  /\ pc = "exchange" => (applied <=> responses # <<>>)

\* A response that has begun in the exchange is that of the upstream; one that has
\* begun before a failure is that, or its connection is broken.
Begun ==
  LET FromUpstream == responses[1].kind = "upstream" /\ responses[1].code = 200
                      /\ responses[1].decorated
  IN /\ pc = "exchange" /\ responses # <<>> => FromUpstream
     /\ pc = "fail_to_proxy" /\ responses # <<>> => FromUpstream \/ broken
     /\ pc = "fail_to_proxy" /\ applied /\ responses = <<>> => broken \/ error.type = "hook"

\* The route is selected, the hooks are asked, and only then does the rest happen.
Policies ==
  /\ pc = "request_filter" => selected = NoRoute /\ received = 0 /\ forwarded = 0
  /\ pc \in {"authorize", "on_request", "prepare_scp", "try_cache", "select_target",
             "connect", "exchange"} => selected # NoRoute
  /\ pc \in {"prepare_scp", "try_cache", "select_target", "connect", "exchange"}
       => asked = Plugins
  /\ pc \in {"request_filter", "authorize", "on_request", "prepare_scp"}
       => scp = "no" /\ ~key
  /\ pc \in {"request_filter", "authorize", "on_request", "prepare_scp", "try_cache",
             "select_target"} => attempts = 0
  /\ pc = "upstream_peer" => asked = Plugins \/ selected = NoRoute

\* Attempts are counted where they are made.
Attempts ==
  /\ pc = "upstream_peer" => attempts < MaxAttempts
  /\ pc = "connect" => delivered < attempts
  /\ pc \in {"try_cache", "select_target", "upstream_peer", "connect", "exchange"}
       => scp # "profile"
  /\ scp = "profile" => attempts = 0
  /\ scp = "exchange" => attempts <= (IF pc = "upstream_peer" THEN 0 ELSE 1)
  /\ scp = "retried" => attempts <= (IF pc = "upstream_peer" THEN 1 ELSE 2)
  /\ scp # "no" \/ ~request.idempotent =>
       delivered <= (IF pc \in {"upstream_peer", "connect"} THEN 0 ELSE 1)

\* What is forwarded has been counted, and what is counted is within the limit.
Counted == limit # None => forwarded <= received /\ received <= limit

\* What is collected is what the client was sent, until the exchange fails.
Collected ==
  /\ capture # None => key
  /\ capture # None /\ pc = "exchange" => responses # <<>> /\ responses[1].bytes = buf
  /\ pc \in Early => capture = None
  /\ pc # "done" => stored = None
  /\ capture # None /\ pc \in Over /\ error = NoError =>
       /\ responses # <<>>
       /\ responses[1].kind = "upstream" /\ responses[1].complete /\ responses[1].decorated
       /\ responses[1].bytes = buf
  /\ stored # None => capture # None /\ error = NoError /\ stored = buf

\* How a request ends.
Ended ==
  pc \in Over =>
    /\ ~broken => responses # <<>> /\ (responses[1].complete \/ ~reusable)
    /\ reusable => responses # <<>> /\ responses[1].complete /\ responses[1].code # 413
    /\ selected # NoRoute /\ error.type # "hook" /\ ~broken /\ responses # <<>>
         /\ responses[1].kind \in {"local", "scp", "error", "upstream"}
       => responses[1].decorated

\* What precedes the cache, SCP and the upstream, in terms of the only response.
Permitted ==
  \/ attempts > 0 \/ scp # "no" \/ key
  \/ responses # <<>> /\ responses[1].kind \in {"cached", "stale", "upstream"}
  => asked = Plugins /\ selected # NoRoute

IInv ==
  /\ ClientTypes /\ ContextTypes /\ TrafficTypes
  /\ Stages /\ Begun /\ Policies /\ Attempts /\ Counted /\ Collected /\ Ended /\ Permitted

-----------------------------------------------------------------------------
(* Facts about errors, responses and how a callback answers *)

\* The errors that callbacks return are errors, and none of them is NoError.
LEMMA ErrorFacts ==
  /\ NoError \in Errors /\ NoError.source = "other"
  /\ \A c \in Nat : Status(c) \in Errors /\ Status(c) # NoError
  /\ Internal \in Errors /\ Internal # NoError
  /\ HookFailed \in Errors /\ HookFailed # NoError /\ HookFailed.type = "hook"
  /\ HookFailed.source = "other"
  /\ \A t \in {"upstream", "downstream"} :
       From(t) \in Errors /\ From(t) # NoError /\ From(t).source = t
  /\ ReadTimedout \in Errors /\ ReadTimedout # NoError
BY DEF Errors, NoError, Status, Internal, HookFailed, From, ReadTimedout

Kinds == {"raw", "local", "scp", "cached", "stale", "upstream", "error"}

\* A response whose header was written, or all of it.
Resp(k, c, d, whole) ==
  [kind |-> k, code |-> c, decorated |-> d, complete |-> whole, bytes |-> 0]

\* The only element of a sequence, and its update.
LEMMA Single ==
  ASSUME NEW r PROVE <<r>> # <<>> /\ <<r>>[1] = r /\ Len(<<r>>) = 1 /\ <<r>>[Len(<<r>>)] = r
                     /\ <<>> \o <<r>> = <<r>>
OBVIOUS

LEMMA SingleSeq == ASSUME NEW S, NEW r \in S PROVE <<r>> \in Seq(S)
OBVIOUS

LEMMA NothingSent == <<>> \o <<>> = <<>>
OBVIOUS

LEMMA WritesCases ==
  ASSUME NEW k, NEW c, NEW d, NEW o \in Writes(k, c, d)
  PROVE  \/ o.error = From("downstream") /\ o.sent = <<>>
         \/ o.error = From("downstream") /\ o.sent = <<Resp(k, c, d, FALSE)>>
         \/ o.error = NoError /\ o.sent = <<Resp(k, c, d, TRUE)>>
<1>1. CASE o = [sent |-> <<>>, error |-> From("downstream")]
  <2>1. o.sent = <<>>
    BY <1>1
  <2>2. o.error = From("downstream")
    BY <1>1
  <2> QED
    BY <2>1, <2>2
<1>2. CASE o = [sent |-> <<Resp(k, c, d, FALSE)>>, error |-> From("downstream")]
  <2>1. o.sent = <<Resp(k, c, d, FALSE)>>
    BY <1>2
  <2>2. o.error = From("downstream")
    BY <1>2
  <2> QED
    BY <2>1, <2>2
<1>3. CASE o = [sent |-> <<Resp(k, c, d, TRUE)>>, error |-> NoError]
  <2>1. o.sent = <<Resp(k, c, d, TRUE)>>
    BY <1>3
  <2>2. o.error = NoError
    BY <1>3
  <2> QED
    BY <2>1, <2>2
<1> QED
  BY <1>1, <1>2, <1>3 DEF Writes, Resp

\* What a callback that answers does when nothing has been written yet: the response
\* is written, part of it or nothing is, or a response hook fails.
Answered(part, whole) ==
  \/ /\ pc' = "logging" /\ error' = NoError /\ broken' = broken
     /\ responses' = <<whole>>
  \/ /\ pc' = "fail_to_proxy" /\ error' = From("downstream") /\ broken' = TRUE
     /\ responses' = <<>> \/ responses' = <<part>>
  \/ /\ pc' = "fail_to_proxy" /\ error' = HookFailed /\ broken' = broken
     /\ responses' = <<>>

LEMMA AnswerEffect ==
  ASSUME NEW k \in Kinds, NEW c \in Nat, NEW d \in BOOLEAN, NEW keep \in BOOLEAN,
         responses = <<>>, ClientTypes, Answer(Writes(k, c, d), keep)
  PROVE  \E part, whole \in Response :
           /\ Answered(part, whole)
           /\ part.kind = k /\ whole.kind = k /\ whole.code = c /\ whole.complete
           /\ whole.decorated = d /\ reusable' \in BOOLEAN /\ (reusable' => keep)
<1>1. PICK o \in Writes(k, c, d) :
        /\ responses' = responses \o o.sent
        /\ broken' = (broken \/ o.error.source = "downstream")
        /\ reusable' = (reusable /\ keep)
        /\ error' = o.error
        /\ pc' = IF o.error = NoError THEN "logging" ELSE "fail_to_proxy"
  BY DEF Answer
<1> DEFINE part == Resp(k, c, d, FALSE)
           whole == Resp(k, c, d, TRUE)
<1>2. part \in Response /\ whole \in Response
  BY BoundsAssumption DEF Resp, Response, Kinds
<1>3. part.kind = k /\ whole.kind = k /\ whole.code = c /\ whole.complete
      /\ whole.decorated = d
  BY DEF Resp
<1>4. \/ o.error = From("downstream") /\ o.sent = <<>>
      \/ o.error = From("downstream") /\ o.sent = <<part>>
      \/ o.error = NoError /\ o.sent = <<whole>>
  BY WritesCases
<1> HIDE DEF part, whole
<1>5. broken \in BOOLEAN /\ reusable' \in BOOLEAN /\ (reusable' => keep)
  BY <1>1 DEF ClientTypes
<1>6. Answered(part, whole)
  <2>1. CASE o.error = From("downstream") /\ o.sent = <<>>
    BY <1>1, <2>1, ErrorFacts, NothingSent DEF Answered
  <2>2. CASE o.error = From("downstream") /\ o.sent = <<part>>
    BY <1>1, <2>2, ErrorFacts, Single DEF Answered
  <2>3. CASE o.error = NoError /\ o.sent = <<whole>>
    BY <1>1, <1>5, <2>3, ErrorFacts, Single DEF Answered
  <2> QED
    BY <1>4, <2>1, <2>2, <2>3
<1> QED
  BY <1>2, <1>3, <1>5, <1>6

\* A reply of the route has passed the response hooks if they had not run before.
RouteAnswer(k, c, part, whole) ==
  /\ Answered(part, whole)
  /\ part.kind = k /\ whole.kind = k /\ whole.code = c /\ whole.complete
  /\ selected # NoRoute => whole.decorated
  /\ reusable' \in BOOLEAN /\ applied' = TRUE

LEMMA ReplyEffect ==
  ASSUME NEW k \in Kinds, NEW c \in Nat, NEW keep \in BOOLEAN, responses = <<>>, ClientTypes,
         ~applied, Reply(k, c, keep)
  PROVE  \E part, whole \in Response : RouteAnswer(k, c, part, whole)
<1>1. PICK o \in RouteReply(k, c) :
        /\ responses' = responses \o o.sent
        /\ broken' = (broken \/ o.error.source = "downstream")
        /\ reusable' = (reusable /\ keep)
        /\ error' = o.error
        /\ pc' = IF o.error = NoError THEN "logging" ELSE "fail_to_proxy"
  BY DEF Reply, Answer
<1>2. PICK d \in BOOLEAN : d = Decorates
  BY DEF Decorates
<1>3. selected # NoRoute => d
  BY <1>2 DEF Decorates
<1>4. applied' = TRUE /\ reusable' \in BOOLEAN
  BY <1>1 DEF Reply, SetApplied
<1>5. CASE o \in ApplyFails
  <2>1. o.sent = <<>> /\ o.error = HookFailed
    BY <1>5 DEF ApplyFails
  <2>2. \A part, whole : Answered(part, whole)
    BY <1>1, <2>1, ErrorFacts, NothingSent DEF Answered, ClientTypes
  <2>3. /\ Resp(k, c, TRUE, TRUE) \in Response /\ Resp(k, c, TRUE, TRUE).kind = k
        /\ Resp(k, c, TRUE, TRUE).code = c /\ Resp(k, c, TRUE, TRUE).complete
        /\ Resp(k, c, TRUE, TRUE).decorated
    BY BoundsAssumption DEF Resp, Response, Kinds
  <2> QED
    BY <1>4, <2>2, <2>3 DEF RouteAnswer
<1>6. CASE o \in Writes(k, c, Decorates)
  <2>1. Answer(Writes(k, c, d), keep)
    BY <1>1, <1>2, <1>6 DEF Answer
  <2> QED
    BY <1>3, <1>4, <2>1, AnswerEffect DEF RouteAnswer
<1> QED
  BY <1>1, <1>5, <1>6 DEF RouteReply

LEMMA ResponseOrNone ==
  ASSUME NEW part \in Response, NEW whole \in Response, Answered(part, whole)
  PROVE  /\ responses' \in Seq(Response)
         /\ \/ responses' = <<>>
            \/ /\ responses' = <<responses'[1]>> /\ responses'[1] \in Response
               /\ responses'[1] \in {part, whole}
<1>1. <<part>> \in Seq(Response) /\ <<whole>> \in Seq(Response)
  BY SingleSeq
<1>2. <<part>>[1] = part /\ <<whole>>[1] = whole
  BY Single
<1>3. responses' = <<>> \/ responses' = <<part>> \/ responses' = <<whole>>
  BY DEF Answered
<1>4. CASE responses' = <<>>
  <2>1. responses' \in Seq(Response)
    BY <1>4
  <2> QED
    BY <1>4, <2>1
<1>5. CASE responses' = <<part>>
  BY <1>1, <1>2, <1>5
<1>6. CASE responses' = <<whole>>
  BY <1>1, <1>2, <1>6
<1> QED
  BY <1>3, <1>4, <1>5, <1>6

\* A callback that answers leaves the client's side in order.
LEMMA AnsweredClient ==
  ASSUME IInv, pc \in Early, NEW part \in Response, NEW whole \in Response,
         Answered(part, whole), whole.complete, applied' \in BOOLEAN, reusable' \in BOOLEAN,
         UNCHANGED cacheState,
         whole.kind \in {"local", "scp"} /\ selected' # NoRoute => whole.decorated,
         whole.kind \notin {"error", "upstream"},
         reusable' => whole.code # 413
  PROVE  ClientTypes' /\ Stages' /\ Begun' /\ Policies' /\ Collected' /\ Ended'
<1>1. ClientTypes'
  BY ResponseOrNone, ErrorFacts DEF Answered, IInv, ClientTypes, Callbacks
<1>2. Stages'
  BY ErrorFacts DEF Answered, Stages, Early, Over
<1>3. Begun'
  BY ErrorFacts DEF Answered, Begun
<1>4. Policies'
  BY DEF Answered, Policies
<1>5. Collected'
  BY DEF Answered, IInv, Collected, cacheState, Early, Over
<1>6. Ended'
  <2> SUFFICES ASSUME pc' = "logging" PROVE Ended'
    BY DEF Answered, Ended, Over
  <2>1. responses' # <<>> /\ responses'[1] = whole
    BY Single DEF Answered
  <2> QED
    BY <2>1 DEF Ended
<1> QED
  BY <1>1, <1>2, <1>3, <1>4, <1>5, <1>6

\* ... and the rest too, when it changes nothing of it.
LEMMA AnsweredInv ==
  ASSUME IInv, pc \in Early, NEW part \in Response, NEW whole \in Response,
         Answered(part, whole), whole.complete, applied' \in BOOLEAN, reusable' \in BOOLEAN,
         UNCHANGED <<request, context, cacheState, received, upstream>>,
         whole.kind \in {"local", "scp"} /\ selected # NoRoute => whole.decorated,
         whole.kind \in {"local", "scp", "raw", "cached"}, part.kind = whole.kind,
         whole.kind = "cached" => asked = Plugins /\ selected # NoRoute,
         reusable' => whole.code # 413
  PROVE  IInv'
<1>1. ClientTypes' /\ Stages' /\ Begun' /\ Policies' /\ Collected' /\ Ended'
  BY AnsweredClient DEF context
<1>2. ContextTypes' /\ TrafficTypes' /\ Counted'
  BY DEF IInv, ContextTypes, TrafficTypes, Counted, context, cacheState, upstream
<1>3. Attempts'
  <2>1. pc' \in {"logging", "fail_to_proxy"}
    BY DEF Answered
  <2> QED
    BY <2>1, BoundsAssumption DEF IInv, Attempts, TrafficTypes, context, upstream, Early
<1>4. Permitted'
  BY ResponseOrNone DEF IInv, Permitted, context, upstream
<1> QED
  BY <1>1, <1>2, <1>3, <1>4 DEF IInv

\* A callback that fails leaves what has begun to fail_to_proxy.
LEMMA FailClient ==
  ASSUME IInv, pc \in Early \cup {"exchange"}, NEW e \in Errors, e # NoError, Fail(e),
         UNCHANGED <<applied, client, stored>>, capture' # None => capture # None /\ key'
  PROVE  ClientTypes' /\ Stages' /\ Begun' /\ Policies' /\ Collected' /\ Ended'
<1>1. ClientTypes'
  BY DEF Fail, IInv, ClientTypes, Callbacks, client
<1>2. Stages' /\ Policies' /\ Ended'
  BY DEF Fail, Stages, Policies, Ended, Early, Over
<1>3. Begun'
  BY DEF Fail, IInv, Begun, Stages, client, Early
<1>4. Collected'
  BY DEF Fail, IInv, Collected, Early, Over
<1> QED
  BY <1>1, <1>2, <1>3, <1>4

LEMMA FailInv ==
  ASSUME IInv, pc \in Early \cup {"exchange"}, NEW e \in Errors, e # NoError, Fail(e),
         UNCHANGED <<request, context, cacheState, received, applied, client, upstream>>
  PROVE  IInv'
<1>1. ClientTypes' /\ Stages' /\ Begun' /\ Policies' /\ Collected' /\ Ended'
  BY FailClient DEF IInv, Collected, context, cacheState
<1>2. ContextTypes' /\ TrafficTypes' /\ Counted' /\ Permitted'
  BY DEF IInv, ContextTypes, TrafficTypes, Counted, Permitted, context, cacheState, upstream,
         client
<1>3. Attempts'
  BY BoundsAssumption DEF Fail, IInv, Attempts, TrafficTypes, context, upstream, Early
<1> QED
  BY <1>1, <1>2, <1>3 DEF IInv

-----------------------------------------------------------------------------
(* request_filter *)

\* What a route or a plugin answers has passed the hooks, for none has run before.
Replies(k, c) == Reply(k, c, FALSE) \/ Reply(k, c, TRUE)

LEMMA RepliesEffect ==
  ASSUME IInv, pc \in Early, NEW k \in {"local", "scp"}, NEW c \in Nat, Replies(k, c)
  PROVE  \E part, whole \in Response : RouteAnswer(k, c, part, whole)
<1>1. responses = <<>> /\ ~applied /\ ClientTypes
  BY DEF IInv, Stages
<1>2. \E keep \in BOOLEAN : Reply(k, c, keep)
  BY DEF Replies
<1>3. k \in Kinds
  BY DEF Kinds
<1> QED
  BY <1>1, <1>2, <1>3, ReplyEffect

LEMMA ReplyInv ==
  ASSUME IInv, pc \in Early, NEW k \in {"local", "scp"}, NEW c \in Nat, c # 413,
         Replies(k, c), UNCHANGED <<request, context, cacheState, received, upstream>>
  PROVE  IInv'
<1>1. PICK part \in Response, whole \in Response : RouteAnswer(k, c, part, whole)
  BY RepliesEffect
<1> QED
  BY <1>1, AnsweredInv DEF RouteAnswer

\* respond_error(413) of restrict_client_max_body_size.
LEMMA RefusedEffect ==
  ASSUME responses = <<>>, ClientTypes, Answer(Writes("raw", 413, FALSE), FALSE)
  PROVE  \E part, whole \in Response :
           /\ Answered(part, whole) /\ whole.complete
           /\ part.kind = "raw" /\ whole.kind = "raw"
           /\ reusable' \in BOOLEAN /\ ~reusable'
<1>0. "raw" \in Kinds
  BY DEF Kinds
<1>1. PICK no \in BOOLEAN : no = FALSE
  OBVIOUS
<1>2. PICK c \in Nat : c = 413
  OBVIOUS
<1>3. Answer(Writes("raw", c, no), no)
  BY <1>1, <1>2
<1> QED
  BY <1>0, <1>1, <1>3, AnswerEffect

LEMMA ChallengeInv == ASSUME IInv, Challenge PROVE IInv'
<1>1. PICK c \in Nat : c = 200
  OBVIOUS
<1>2. pc \in Early /\ Replies("local", c)
  BY <1>1 DEF Challenge, Replies, Early
<1> QED
  BY <1>1, <1>2, ReplyInv DEF Challenge

LEMMA SelectFailsInv == ASSUME IInv, SelectFails PROVE IInv'
<1>1. PICK c \in {400, 421, 500} : Fail(IF c = 500 THEN Internal ELSE Status(c))
  BY DEF SelectFails
<1>2. (IF c = 500 THEN Internal ELSE Status(c)) \in Errors
      /\ (IF c = 500 THEN Internal ELSE Status(c)) # NoError
  BY ErrorFacts
<1> QED
  BY <1>1, <1>2, FailInv DEF SelectFails, Early

\* A request that is too long is refused without the hooks.
LEMMA SelectNothingInv == ASSUME IInv, SelectNothing PROVE IInv'
<1>1. responses = <<>> /\ ClientTypes
  BY DEF SelectNothing, IInv, Stages, Early
<1>2. CASE TooLong(limit)
  <2>1. PICK part \in Response, whole \in Response :
          /\ Answered(part, whole) /\ whole.complete
          /\ part.kind = "raw" /\ whole.kind = "raw"
          /\ reusable' \in BOOLEAN /\ ~reusable'
    BY <1>1, <1>2, RefusedEffect DEF SelectNothing, Restrict
  <2>2. applied' \in BOOLEAN
    BY <1>2 DEF SelectNothing, Restrict, IInv, ClientTypes
  <2> QED
    BY <2>1, <2>2, AnsweredInv DEF SelectNothing, Early
<1>3. CASE ~TooLong(limit)
  <2> USE DEF IInv
  <2>1. /\ pc = "request_filter" /\ pc' = "upstream_peer"
        /\ UNCHANGED <<error, applied, client, request, context, cacheState, received, upstream>>
    BY <1>3 DEF SelectNothing, Restrict, GoTo
  <2>2. ClientTypes' /\ ContextTypes' /\ TrafficTypes'
    BY <2>1 DEF ClientTypes, ContextTypes, TrafficTypes, Callbacks, client, context, cacheState,
                upstream
  <2>3. Stages' /\ Begun' /\ Policies' /\ Counted' /\ Ended' /\ Permitted'
    BY <2>1 DEF Stages, Begun, Policies, Counted, Ended, Permitted, Early, Over, client,
                context, upstream
  <2>4. Attempts'
    BY <2>1, BoundsAssumption DEF Attempts, Policies, TrafficTypes, context, upstream
  <2>5. Collected'
    BY <2>1 DEF Collected, Early, Over, client, context, cacheState
  <2> QED
    BY <2>2, <2>3, <2>4, <2>5
<1> QED
  BY <1>2, <1>3

LEMMA SelectInv == ASSUME IInv, NEW r \in Routes, Select(r) PROVE IInv'
<1> DEFINE max == CASE r.limit = None -> limit [] r.limit = 0 -> None [] OTHER -> r.limit
<1>1. /\ pc = "request_filter" /\ selected' = r /\ limit' = max /\ Restrict(max, "authorize")
      /\ UNCHANGED <<request, asked, scp, key, cacheState, received, upstream>>
  BY DEF Select
<1>2. max \in 0 .. None
  BY BoundsAssumption DEF IInv, ContextTypes, Routes, None
<1>3. r # NoRoute /\ r \in [target : {"pending", "return", "direct", "scp", "upstream"},
       cache : BOOLEAN, stale : BOOLEAN, limit : {None, 0, 2}]
  BY DEF Routes, NoRoute
<1> HIDE DEF max
<1>4. responses = <<>> /\ ClientTypes
  BY <1>1 DEF IInv, Stages, Early
<1>5. ContextTypes' /\ TrafficTypes'
  BY <1>1, <1>2, <1>3 DEF IInv, ContextTypes, TrafficTypes, cacheState, upstream
<1>6. Counted'
  BY <1>1, <1>2 DEF IInv, Counted, Policies, upstream
<1>7. attempts = 0 /\ delivered = 0 /\ scp = "no" /\ ~key /\ capture = None /\ stored = None
  BY <1>1 DEF IInv, Policies, TrafficTypes, Collected, Early
<1>8. CASE TooLong(max)
  <2>1. PICK part \in Response, whole \in Response :
          /\ Answered(part, whole) /\ whole.complete
          /\ part.kind = "raw" /\ whole.kind = "raw"
          /\ reusable' \in BOOLEAN /\ ~reusable'
    BY <1>1, <1>4, <1>8, RefusedEffect DEF Restrict
  <2>2. applied' \in BOOLEAN
    BY <1>1, <1>8 DEF Restrict, IInv, ClientTypes
  <2>6. ClientTypes' /\ Stages' /\ Begun' /\ Policies' /\ Collected' /\ Ended'
    BY <1>1, <2>1, <2>2, AnsweredClient DEF Early
  <2>3. pc' \in {"logging", "fail_to_proxy"}
    BY <2>1 DEF Answered
  <2>4. Attempts'
    BY <1>1, <1>7, <2>3 DEF Attempts, upstream
  <2>5. Permitted'
    BY <1>1, <1>7, <2>1, ResponseOrNone DEF Permitted, upstream
  <2> QED
    BY <1>5, <1>6, <2>4, <2>5, <2>6 DEF IInv
<1>9. CASE ~TooLong(max)
  <2>1. pc' = "authorize" /\ UNCHANGED <<error, applied, client>>
    BY <1>1, <1>9 DEF Restrict, GoTo
  <2>2. ClientTypes'
    BY <2>1 DEF IInv, ClientTypes, Callbacks, client
  <2>3. Stages' /\ Begun' /\ Policies' /\ Ended'
    BY <1>1, <1>3, <1>7, <2>1 DEF IInv, Stages, Begun, Policies, Ended, Early, Over, client, upstream
  <2>4. Attempts' /\ Collected' /\ Permitted'
    BY <1>1, <1>4, <1>7, <2>1 DEF Attempts, Collected, Permitted, Early, Over, client, cacheState,
       upstream
  <2> QED
    BY <1>5, <1>6, <2>2, <2>3, <2>4 DEF IInv
<1> QED
  BY <1>8, <1>9

\* A callback that lets the request pass, with the context as it was.
Passes(from, to) ==
  /\ pc = from /\ pc' = to
  /\ UNCHANGED <<error, applied, client, request, cacheState, received, upstream>>

LEMMA PassInv ==
  ASSUME IInv, NEW from \in Early \ {"connect"}, NEW to \in Early, Passes(from, to),
         ContextTypes', Policies', Attempts', Permitted', limit' = limit
  PROVE  IInv'
<1> USE DEF IInv, Passes
<1>1. ClientTypes' /\ TrafficTypes'
  BY DEF ClientTypes, TrafficTypes, Callbacks, Early, client, cacheState, upstream
<1>2. Stages' /\ Begun' /\ Ended'
  BY DEF Stages, Begun, Ended, Early, Over, client
<1>3. Counted'
  BY DEF Counted, upstream
<1>4. Collected'
  BY DEF Collected, Early, Over, client, cacheState
<1> QED
  BY <1>1, <1>2, <1>3, <1>4

LEMMA AuthorizeInv == ASSUME IInv, Authorize PROVE IInv'
<1>1. CASE \E c \in {403, 405} : Reply("local", c, FALSE)
  <2>1. PICK c \in {403, 405} : Reply("local", c, FALSE)
    BY <1>1
  <2>2. Replies("local", c)
    BY <2>1, Zenon DEF Replies
  <2>3. c \in Nat /\ c # 413 /\ pc \in Early
        /\ UNCHANGED <<request, context, cacheState, received, upstream>>
    BY DEF Authorize, Early
  <2> QED
    BY <2>2, <2>3, ReplyInv
<1>2. CASE GoTo("on_request")
  <2>1. Passes("authorize", "on_request") /\ UNCHANGED context
    BY <1>2 DEF Authorize, GoTo, Passes
  <2>2. ContextTypes' /\ Policies' /\ Attempts' /\ Permitted'
    BY <2>1 DEF Passes, IInv, ContextTypes, Policies, Attempts, Permitted, context, upstream, client
  <2> QED
    BY <2>1, <2>2, PassInv DEF Early, context
<1> QED
  BY <1>1, <1>2 DEF Authorize

LEMMA OnRequestInv == ASSUME IInv, OnRequest PROVE IInv'
<1>1. /\ pc = "on_request"
      /\ UNCHANGED <<request, selected, limit, scp, key, cacheState, received, upstream>>
  BY DEF OnRequest
<1>2. CASE asked = Plugins
  <2>1. Passes("on_request", "prepare_scp") /\ UNCHANGED context
    BY <1>1, <1>2 DEF OnRequest, GoTo, Passes, context
  <2>2. ContextTypes' /\ Policies' /\ Attempts' /\ Permitted'
    BY <1>2, <2>1 DEF Passes, IInv, ContextTypes, Policies, Attempts, Permitted, context, upstream,
                      client
  <2> QED
    BY <2>1, <2>2, PassInv DEF Early, context
<1>3. CASE asked # Plugins
  <2>1. CASE asked' = asked + 1 /\ UNCHANGED <<pc, error, applied, client>>
    <3>1. Passes("on_request", "on_request")
      BY <1>1, <2>1 DEF Passes
    <3>2. ContextTypes'
      BY <1>1, <1>3, <2>1, BoundsAssumption DEF IInv, ContextTypes
    <3>3. Policies' /\ Attempts'
      BY <1>1, <2>1 DEF IInv, Policies, Attempts, upstream
    <3>4. Permitted'
      BY <1>1, <2>1 DEF IInv, Stages, Early, Policies, Permitted, upstream, client
    <3> QED
      BY <1>1, <3>1, <3>2, <3>3, <3>4, PassInv DEF Early
  <2>2. CASE Reply("local", 401, FALSE) /\ UNCHANGED asked
    <3>1. PICK c \in Nat : c = 401
      OBVIOUS
    <3>2. pc \in Early /\ Replies("local", c)
          /\ UNCHANGED <<request, context, cacheState, received, upstream>>
      BY <1>1, <2>2, <3>1 DEF Early, context, Replies
    <3> QED
      BY <3>1, <3>2, ReplyInv
  <2>3. CASE Fail(Internal) /\ UNCHANGED <<asked, applied, client>>
    BY <1>1, <2>3, FailInv, ErrorFacts DEF Early, context
  <2> QED
    BY <1>3, <2>1, <2>2, <2>3 DEF OnRequest
<1> QED
  BY <1>2, <1>3

LEMMA TryCacheInv == ASSUME IInv, TryCache PROVE IInv'
<1>1. /\ pc = "try_cache"
      /\ UNCHANGED <<request, selected, limit, asked, scp, cacheState, received, upstream>>
  BY DEF TryCache
<1>2. responses = <<>> /\ ClientTypes /\ applied \in BOOLEAN
      /\ asked = Plugins /\ selected # NoRoute
  BY <1>1 DEF IInv, Stages, ClientTypes, Policies, Early
<1>3. CASE Answer(Writes("cached", 200, FALSE), TRUE) /\ UNCHANGED <<key, applied, ran>>
  <2>0. PICK k \in Kinds : k = "cached"
    BY DEF Kinds
  <2>a. PICK no \in BOOLEAN : no = FALSE
    OBVIOUS
  <2>b. PICK yes \in BOOLEAN : yes = TRUE
    OBVIOUS
  <2>c. PICK c \in Nat : c = 200
    OBVIOUS
  <2>1. no = FALSE /\ yes = TRUE /\ c = 200 /\ k = "cached"
    BY <2>0, <2>a, <2>b, <2>c
  <2>2. Answer(Writes(k, c, no), yes)
    BY <1>3, <2>1
  <2>3. PICK part \in Response, whole \in Response :
          /\ Answered(part, whole)
          /\ part.kind = k /\ whole.kind = k /\ whole.code = c /\ whole.complete
          /\ reusable' \in BOOLEAN
    BY <1>2, <2>2, AnswerEffect
  <2>4. UNCHANGED <<request, context, cacheState, received, upstream>>
    BY <1>1, <1>3 DEF context
  <2> QED
    BY <1>1, <1>2, <1>3, <2>1, <2>3, <2>4, AnsweredInv DEF Early
<1>4. ASSUME GoTo("select_target"), key' \in BOOLEAN PROVE IInv'
  <2>1. Passes("try_cache", "select_target")
    BY <1>1, <1>4 DEF GoTo, Passes
  <2>2. ContextTypes'
    BY <1>1, <1>4 DEF IInv, ContextTypes
  <2>3. Policies'
    BY <1>1, <1>2, <2>1 DEF IInv, Passes, Policies, upstream
  <2>4. Attempts' /\ Permitted'
    BY <1>1, <1>2, <2>1 DEF IInv, Passes, Attempts, Permitted, upstream
  <2> QED
    BY <1>1, <2>1, <2>2, <2>3, <2>4, PassInv DEF Early
<1> QED
  BY <1>3, <1>4 DEF TryCache, IInv, ContextTypes

\* The SCP's own error responses, other than for the version of HTTP.
RefusedByScp == \E c \in ScpRefusals : Reply("scp", c, TRUE)

\* The context of an SCP exchange appears only here, after every hook.
LEMMA PrepareScpInv == ASSUME IInv, PrepareScp PROVE IInv'
<1>1. /\ pc = "prepare_scp"
      /\ UNCHANGED <<request, selected, limit, asked, key, cacheState, received, upstream>>
  BY DEF PrepareScp
<1>2. /\ responses = <<>> /\ ~applied /\ broken \in BOOLEAN
      /\ asked = Plugins /\ selected # NoRoute /\ attempts = 0 /\ delivered = 0
  BY <1>1 DEF IInv, Stages, ClientTypes, Policies, TrafficTypes, Early
<1>3. ASSUME NEW c \in Nat, c # 413, Replies("scp", c), scp' = "profile"
      PROVE  IInv'
  <2>3. PICK part \in Response, whole \in Response : RouteAnswer("scp", c, part, whole)
    BY <1>1, <1>3, RepliesEffect DEF Early
  <2>5. ClientTypes' /\ Stages' /\ Begun' /\ Policies' /\ Collected' /\ Ended'
    BY <1>1, <1>2, <1>3, <2>3, AnsweredClient DEF Early, RouteAnswer
  <2>6. ContextTypes' /\ TrafficTypes' /\ Counted' /\ Permitted'
    BY <1>1, <1>2, <1>3 DEF IInv, ContextTypes, TrafficTypes, Counted, Permitted, cacheState,
                            upstream
  <2>7. pc' \in {"logging", "fail_to_proxy"}
    BY <2>3 DEF Answered, RouteAnswer
  <2>8. Attempts'
    BY <1>1, <1>2, <1>3, <2>7 DEF Attempts, upstream
  <2> QED
    BY <2>5, <2>6, <2>8 DEF IInv
<1>4. ASSUME GoTo("try_cache"), scp' \in {"no", "exchange"} PROVE IInv'
  <2>1. Passes("prepare_scp", "try_cache")
    BY <1>1, <1>4 DEF GoTo, Passes
  <2>2. ContextTypes'
    BY <1>1, <1>4 DEF IInv, ContextTypes
  <2>3. Policies' /\ Attempts' /\ Permitted'
    BY <1>1, <1>2, <1>4, <2>1 DEF Passes, Policies, Attempts, Permitted, upstream
  <2> QED
    BY <1>1, <2>1, <2>2, <2>3, PassInv DEF Early
<1> QED
  <2>1. scp = "no"
    BY <1>1 DEF IInv, Policies
  <2>2. CASE selected.target # "scp" \/ (scp' = "exchange" /\ GoTo("try_cache"))
    BY <1>4, <2>1, <2>2 DEF PrepareScp
  <2>3. CASE scp' = "profile" /\ Reply("scp", 505, TRUE)
    <3>1. PICK c \in Nat : c = 505 /\ c # 413
      OBVIOUS
    <3>2. Replies("scp", c)
      BY <2>3, <3>1, Zenon DEF Replies
    <3> QED
      BY <1>3, <2>3, <3>1, <3>2
  <2>4. CASE scp' = "profile" /\ RefusedByScp
    <3>1. ASSUME NEW c \in Nat, c # 413, Reply("scp", c, TRUE) PROVE IInv'
      <4>1. Replies("scp", c)
        BY <3>1, Zenon DEF Replies
      <4> QED
        BY <1>3, <2>4, <3>1, <4>1
    <3>2. \A c \in ScpRefusals : c \in Nat /\ c # 413
      BY DEF ScpRefusals
    <3>3. \E c \in ScpRefusals : Reply("scp", c, TRUE)
      BY <2>4, Zenon DEF RefusedByScp
    <3> QED
      BY <3>1, <3>2, <3>3, Zenon
  <2> QED
    <3>1. CASE selected.target # "scp"
      BY <2>2, <3>1
    <3>2. CASE selected.target = "scp"
      <4>1. IF selected.target # "scp" THEN GoTo("try_cache") /\ UNCHANGED scp
            ELSE \/ ~request.http2 /\ scp' = "profile" /\ Reply("scp", 505, TRUE)
                 \/ request.http2 /\ scp' = "profile" /\ RefusedByScp
                 \/ request.http2 /\ scp' = "exchange" /\ GoTo("try_cache")
        BY Zenon DEF PrepareScp, RefusedByScp
      <4> QED
        BY <2>2, <2>3, <2>4, <3>2, <4>1, Zenon
    <3> QED
      BY <3>1, <3>2

LEMMA SelectTargetInv == ASSUME IInv, SelectTarget PROVE IInv'
<1>1. /\ pc = "select_target"
      /\ UNCHANGED <<request, limit, asked, scp, key, cacheState, received, upstream>>
  BY DEF SelectTarget
<1>2. /\ responses = <<>> /\ ~applied /\ broken \in BOOLEAN
      /\ asked = Plugins /\ selected # NoRoute /\ attempts = 0 /\ delivered = 0
  BY <1>1 DEF IInv, Stages, ClientTypes, Policies, TrafficTypes, Early
<1>3. selected' # NoRoute
      /\ selected' \in [target : {"pending", "return", "direct", "scp", "upstream"},
           cache : BOOLEAN, stale : BOOLEAN, limit : {None, 0, 2}]
  <2>1. CASE UNCHANGED selected
    BY <1>2, <2>1 DEF IInv, ContextTypes
  <2>2. CASE \E t \in {"pending", "direct", "upstream"} :
               selected' = [selected EXCEPT !.target = t]
    BY <1>2, <2>2 DEF IInv, ContextTypes, NoRoute
  <2> QED
    BY <2>1, <2>2 DEF SelectTarget
<1>4. ContextTypes' /\ TrafficTypes' /\ Counted'
  BY <1>1, <1>3 DEF IInv, ContextTypes, TrafficTypes, Counted, cacheState, upstream
<1>5. ASSUME pc' # "connect", responses' = <<>> \/ responses'[1].kind = "local",
             pc' = "upstream_peer" \/ pc' \notin Early
      PROVE  Attempts' /\ Permitted'
  BY <1>1, <1>2, <1>3, <1>5, BoundsAssumption
  DEF IInv, Attempts, Permitted, Policies, upstream, Early
<1>6. ASSUME NEW e \in {Status(503), Internal}, Fail(e), UNCHANGED <<applied, client>>
      PROVE  IInv'
  <2>1. ClientTypes' /\ Stages' /\ Begun' /\ Policies' /\ Collected' /\ Ended'
    BY <1>1, <1>6, FailClient, ErrorFacts DEF IInv, Collected, Early, cacheState
  <2> QED
    BY <1>2, <1>4, <1>5, <1>6, <2>1 DEF IInv, Fail, client, Early
<1>7. ASSUME NEW c \in Nat, c # 413, Replies("local", c)
      PROVE  IInv'
  <2>1. PICK part \in Response, whole \in Response : RouteAnswer("local", c, part, whole)
    BY <1>1, <1>7, RepliesEffect DEF Early
  <2>2. ClientTypes' /\ Stages' /\ Begun' /\ Policies' /\ Collected' /\ Ended'
    BY <1>1, <1>2, <1>7, <2>1, AnsweredClient DEF Early, RouteAnswer
  <2>3. pc' \in {"logging", "fail_to_proxy"}
    BY <2>1 DEF Answered, RouteAnswer
  <2>4. responses' = <<>> \/ responses'[1].kind = "local"
    BY <2>1, ResponseOrNone DEF RouteAnswer
  <2> QED
    BY <1>4, <1>5, <2>2, <2>3, <2>4 DEF IInv, Early
<1>8. ASSUME GoTo("upstream_peer") PROVE IInv'
  <2>1. Passes("select_target", "upstream_peer")
    BY <1>1, <1>8 DEF GoTo, Passes
  <2>2. Policies'
    BY <1>1, <1>2, <2>1 DEF Passes, Policies
  <2> QED
    BY <1>1, <1>2, <1>4, <1>5, <2>1, <2>2, PassInv DEF Passes, Early, client
<1> QED
  <2>2. CASE Reply("local", 302, FALSE)
    <3>1. PICK c \in Nat : c = 302 /\ c # 413
      OBVIOUS
    <3>2. Replies("local", c)
      BY <2>2, <3>1, Zenon DEF Replies
    <3> QED
      BY <1>7, <3>1, <3>2
  <2>3. CASE Reply("local", 200, TRUE)
    <3>1. PICK c \in Nat : c = 200 /\ c # 413
      OBVIOUS
    <3>2. Replies("local", c)
      BY <2>3, <3>1, Zenon DEF Replies
    <3> QED
      BY <1>7, <3>1, <3>2
  <2> QED
    BY <1>6, <1>8, <2>2, <2>3 DEF SelectTarget

-----------------------------------------------------------------------------
(* The upstream exchange *)

\* Every attempt is counted before it is made.
LEMMA UpstreamPeerInv == ASSUME IInv, UpstreamPeer PROVE IInv'
<1>1. pc = "upstream_peer"
      /\ UNCHANGED <<request, context, cacheState, received, applied, client, delivered, forwarded>>
  BY DEF UpstreamPeer
<1>2. CASE selected = NoRoute /\ Fail(Status(404)) /\ UNCHANGED attempts
  <2>1. PICK e \in Errors : e = Status(404) /\ e # NoError
    BY ErrorFacts
  <2>2. UNCHANGED upstream /\ pc \in Early
    BY <1>1, <1>2 DEF upstream, Early
  <2> QED
    BY <1>1, <1>2, <2>1, <2>2, FailInv
<1>3. CASE selected # NoRoute /\ attempts' = attempts + 1
  <2>1. ContextTypes' /\ Counted'
    BY <1>1 DEF IInv, ContextTypes, Counted, context
  <2>2. TrafficTypes'
    BY <1>1, <1>3, BoundsAssumption DEF IInv, TrafficTypes, Attempts, cacheState
  <2>3. Permitted'
    BY <1>1, <1>3 DEF IInv, Permitted, Policies, context, client
  <2>4. ASSUME NEW e \in Errors, e # NoError, Fail(e) PROVE IInv'
    <3>1. ClientTypes' /\ Stages' /\ Begun' /\ Policies' /\ Collected' /\ Ended'
      BY <1>1, <2>4, FailClient DEF IInv, Collected, context, cacheState, Early
    <3>2. Attempts'
      BY <1>1, <1>3, <2>4, BoundsAssumption DEF Fail, IInv, TrafficTypes, Attempts, context
    <3> QED
      BY <2>1, <2>2, <2>3, <3>1, <3>2 DEF IInv
  <2>5. CASE pc' = "connect" /\ UNCHANGED error
    <3>1. ClientTypes' /\ Stages' /\ Begun' /\ Ended'
      BY <1>1, <2>5 DEF IInv, ClientTypes, Stages, Begun, Ended, Early, Over, Callbacks, client
    <3>2. Policies' /\ Collected'
      BY <1>1, <1>3, <2>5 DEF IInv, Policies, Collected, Early, Over, context, client, cacheState
    <3>3. Attempts'
      BY <1>1, <1>3, <2>5, BoundsAssumption DEF IInv, TrafficTypes, Attempts, context
    <3> QED
      BY <2>1, <2>2, <2>3, <3>1, <3>2, <3>3 DEF IInv
  <2>6. \/ \E e \in {Internal, Status(504)} : Fail(e)
        \/ pc' = "connect" /\ UNCHANGED error
    BY <1>3 DEF UpstreamPeer
  <2> QED
    BY <2>4, <2>5, <2>6, ErrorFacts
<1> QED
  BY <1>2, <1>3 DEF UpstreamPeer

\* A connection that fails has delivered nothing; an SCP exchange tries one other.
LEMMA FailToConnectInv == ASSUME IInv, FailToConnect PROVE IInv'
<1>1. /\ pc = "connect"
      /\ UNCHANGED <<request, selected, limit, asked, key, cacheState, received, applied, client,
                     upstream>>
  BY DEF FailToConnect
<1>2. CASE /\ scp # "retried" /\ attempts < MaxAttempts
           /\ scp' = IF scp = "exchange" THEN "retried" ELSE scp
           /\ pc' = "upstream_peer" /\ UNCHANGED error
  <2>1. ClientTypes' /\ Stages' /\ Begun' /\ Ended'
    BY <1>1, <1>2 DEF IInv, ClientTypes, Stages, Begun, Ended, Early, Over, Callbacks, client
  <2>2. ContextTypes' /\ TrafficTypes' /\ Counted'
    BY <1>1, <1>2 DEF IInv, ContextTypes, TrafficTypes, Counted, cacheState, upstream
  <2>3. Policies' /\ Collected' /\ Permitted'
    BY <1>1, <1>2 DEF IInv, Policies, Collected, Permitted, Early, Over, client, cacheState, upstream
  <2>4. Attempts'
    BY <1>1, <1>2, BoundsAssumption DEF IInv, ContextTypes, TrafficTypes, Attempts, upstream
  <2> QED
    BY <2>1, <2>2, <2>3, <2>4 DEF IInv
<1>3. CASE Fail(From("upstream")) /\ UNCHANGED scp
  <2>1. UNCHANGED context /\ pc \in Early
    BY <1>1, <1>3 DEF context, Early
  <2> QED
    BY <1>1, <1>3, <2>1, FailInv, ErrorFacts
<1> QED
  BY <1>2, <1>3 DEF FailToConnect

LEMMA SendRequestInv == ASSUME IInv, SendRequest PROVE IInv'
<1>1. /\ pc = "connect"
      /\ UNCHANGED <<request, context, cacheState, received, applied, client, attempts>>
  BY DEF SendRequest
<1>2. CASE pc' = "exchange" /\ delivered' = delivered + 1 /\ forwarded' = 0 /\ UNCHANGED error
  <2>1. ClientTypes' /\ Stages' /\ Begun' /\ Ended'
    BY <1>1, <1>2 DEF IInv, ClientTypes, Stages, Begun, Ended, Early, Over, Callbacks, client
  <2>2. ContextTypes' /\ TrafficTypes'
    BY <1>1, <1>2, BoundsAssumption
    DEF IInv, ContextTypes, TrafficTypes, Attempts, cacheState, context
  <2>3. Counted'
    BY <1>1, <1>2 DEF IInv, Counted, TrafficTypes, context
  <2>4. Policies' /\ Collected' /\ Permitted'
    BY <1>1, <1>2 DEF IInv, Policies, Collected, Permitted, Early, Over, client, cacheState, context
  <2>5. Attempts'
    BY <1>1, <1>2, BoundsAssumption DEF IInv, ContextTypes, TrafficTypes, Attempts, context
  <2> QED
    BY <2>1, <2>2, <2>3, <2>4, <2>5 DEF IInv
<1>3. CASE Fail(Internal) /\ UNCHANGED <<delivered, forwarded>>
  <2>1. UNCHANGED upstream /\ pc \in Early
    BY <1>1, <1>3 DEF upstream, Early
  <2> QED
    BY <1>1, <1>3, <2>1, FailInv, ErrorFacts
<1> QED
  BY <1>2, <1>3 DEF SendRequest

\* A chunk is counted before it is forwarded, and a count that would overflow is too
\* large for every limit.
LEMMA RequestBodyInv == ASSUME IInv, NEW n \in 1 .. MaxChunk, RequestBody(n) PROVE IInv'
<1>1. /\ pc = "exchange" /\ forwarded + n <= MaxBody
      /\ UNCHANGED <<request, context, cacheState, applied, client, attempts, delivered>>
  BY DEF RequestBody
<1>2. CASE TooLarge(n)
  <2>1. UNCHANGED upstream /\ UNCHANGED received /\ Fail(Status(413))
    BY <1>1, <1>2 DEF RequestBody, upstream
  <2>2. PICK e \in Errors : e = Status(413) /\ e # NoError
    BY ErrorFacts
  <2> QED
    BY <1>1, <2>1, <2>2, FailInv
<1>3. CASE ~TooLarge(n)
  <2>1. /\ received' = IF limit = None THEN received ELSE Add(n)
        /\ forwarded' = forwarded + n /\ UNCHANGED <<pc, error>>
    BY <1>3 DEF RequestBody
  <2>2. limit # None => received' = received + n /\ received' <= limit /\ received' <= MaxU64
    BY <1>3, <2>1, BoundsAssumption DEF TooLarge, Add, IInv, ContextTypes, TrafficTypes, None
  <2>3. ContextTypes' /\ TrafficTypes'
    BY <1>1, <2>1, <2>2, BoundsAssumption
    DEF IInv, ContextTypes, TrafficTypes, context, cacheState
  <2>4. Counted'
    BY <1>1, <2>1, <2>2, BoundsAssumption DEF IInv, Counted, ContextTypes, TrafficTypes, context
  <2>5. ClientTypes' /\ Stages' /\ Begun' /\ Ended' /\ Collected' /\ Permitted'
    BY <1>1, <2>1 DEF IInv, ClientTypes, Stages, Begun, Ended, Collected, Permitted, client,
                      cacheState, context, Early, Over
  <2>6. Policies' /\ Attempts'
    BY <1>1, <2>1 DEF IInv, Policies, Attempts, context
  <2> QED
    BY <2>3, <2>4, <2>5, <2>6 DEF IInv
<1> QED
  BY <1>2, <1>3

\* The response hooks run once, and what is collected starts with the response.
LEMMA ResponseFilterInv == ASSUME IInv, ResponseFilter PROVE IInv'
<1>1. /\ pc = "exchange" /\ responses = <<>> /\ applied' = TRUE
      /\ UNCHANGED <<request, context, buf, stored, received, upstream, reusable>>
  BY DEF ResponseFilter, SetApplied
<1>2. /\ ~applied /\ error = NoError /\ capture = None /\ buf = 0 /\ stored = None
      /\ selected # NoRoute /\ asked = Plugins
  BY <1>1 DEF IInv, Stages, Collected, TrafficTypes, Policies, Over
<1>3. ContextTypes' /\ Counted'
  BY <1>1 DEF IInv, ContextTypes, Counted, context, upstream
<1>4. capture' \in {None, 0, 2} /\ (capture' # None => key)
  BY <1>2 DEF ResponseFilter
<1>5. TrafficTypes'
  BY <1>1, <1>2, <1>4, BoundsAssumption DEF IInv, TrafficTypes, upstream, None
<1>6. Permitted'
  BY <1>1, <1>2 DEF Permitted, context
<1>7. ASSUME NEW e \in Errors, e # NoError, Fail(e), UNCHANGED responses, broken' \in BOOLEAN,
             broken' \/ e.type = "hook"
      PROVE  IInv'
  <2>1. ClientTypes' /\ Stages' /\ Begun' /\ Policies' /\ Ended'
    BY <1>1, <1>7 DEF Fail, IInv, ClientTypes, Stages, Begun, Policies, Ended, Callbacks, Early, Over
  <2>2. Attempts'
    BY <1>1, <1>7 DEF Fail, IInv, Attempts, context, upstream
  <2>3. Collected'
    BY <1>1, <1>2, <1>4, <1>7 DEF Fail, Collected, Early, Over, context
  <2> QED
    BY <1>3, <1>5, <1>6, <2>1, <2>2, <2>3 DEF IInv
<1>8. CASE \E o \in ApplyFails : Fail(o.error) /\ UNCHANGED <<responses, broken, capture>>
  <2>1. Fail(HookFailed) /\ UNCHANGED <<responses, broken>>
    BY <1>8 DEF ApplyFails
  <2> QED
    BY <1>7, <2>1, ErrorFacts DEF IInv, ClientTypes
<1>9. CASE broken' = TRUE /\ Fail(From("downstream")) /\ UNCHANGED responses
  BY <1>7, <1>9, ErrorFacts
<1>10. CASE /\ responses' = <<[kind |-> "upstream", code |-> 200, decorated |-> Decorates,
                               complete |-> FALSE, bytes |-> 0]>>
            /\ UNCHANGED <<pc, error, broken>>
  <2>1. Decorates = TRUE
    BY <1>2 DEF Decorates
  <2>2. responses' = <<Resp("upstream", 200, TRUE, FALSE)>>
    BY <1>10, <2>1 DEF Resp
  <2> DEFINE r == Resp("upstream", 200, TRUE, FALSE)
  <2>3. r \in Response /\ r.kind = "upstream" /\ r.code = 200 /\ r.decorated /\ r.bytes = 0
    BY BoundsAssumption DEF Resp, Response
  <2> HIDE DEF r
  <2>4. responses' # <<>> /\ responses' = <<r>> /\ responses'[1] = r
    BY <2>2, Single DEF r
  <2>5. responses' \in Seq(Response)
    BY <2>3, <2>4, SingleSeq
  <2>6. ClientTypes'
    BY <1>1, <1>10, <2>3, <2>4, <2>5 DEF IInv, ClientTypes
  <2>7. Stages' /\ Begun' /\ Ended'
    BY <1>1, <1>10, <2>3, <2>4 DEF IInv, Stages, Begun, Ended, Early, Over
  <2>8. Policies' /\ Attempts'
    BY <1>1, <1>10 DEF IInv, Policies, Attempts, context, upstream
  <2>9. Collected'
    BY <1>1, <1>2, <1>4, <1>10, <2>3, <2>4 DEF Collected, Early, Over, context
  <2> QED
    BY <1>3, <1>5, <1>6, <2>6, <2>7, <2>8, <2>9 DEF IInv
<1> QED
  BY <1>8, <1>9, <1>10 DEF ResponseFilter

\* An update of the response that has begun.
LEMMA ResponseUpdate ==
  ASSUME NEW r \in Response, NEW n \in Nat, r.bytes + n <= MaxBody
  PROVE  /\ [r EXCEPT !.bytes = @ + n] \in Response /\ [r EXCEPT !.complete = TRUE] \in Response
         /\ [<<r>> EXCEPT ![1].bytes = @ + n] = <<[r EXCEPT !.bytes = @ + n]>>
         /\ [<<r>> EXCEPT ![1].complete = TRUE] = <<[r EXCEPT !.complete = TRUE]>>
<1>1. [r EXCEPT !.bytes = @ + n] \in Response /\ [r EXCEPT !.complete = TRUE] \in Response
  <2>1. r.bytes + n \in 0 .. MaxBody
    BY BoundsAssumption DEF Response
  <2>2. ASSUME NEW b \in 0 .. MaxBody PROVE [r EXCEPT !.bytes = b] \in Response
    BY DEF Response
  <2>3. ASSUME NEW w \in BOOLEAN PROVE [r EXCEPT !.complete = w] \in Response
    BY DEF Response
  <2> QED
    BY <2>1, <2>2, <2>3
<1>2. ASSUME NEW x PROVE [<<r>> EXCEPT ![1] = x] = <<x>>
  OBVIOUS
<1>3. [<<r>> EXCEPT ![1].bytes = @ + n] = [<<r>> EXCEPT ![1] = [r EXCEPT !.bytes = @ + n]]
  OBVIOUS
<1>4. [<<r>> EXCEPT ![1].complete = TRUE] = [<<r>> EXCEPT ![1] = [r EXCEPT !.complete = TRUE]]
  OBVIOUS
<1> QED
  BY <1>1, <1>2, <1>3, <1>4

\* What Streaming means for the response.
LEMMA StreamingFacts ==
  ASSUME IInv, Streaming
  PROVE  /\ pc = "exchange" /\ responses # <<>>
         /\ responses = <<responses[1]>> /\ responses[1] \in Response
         /\ responses[1].kind = "upstream" /\ responses[1].code = 200 /\ responses[1].decorated
         /\ applied /\ error = NoError /\ stored = None
         /\ selected # NoRoute /\ asked = Plugins
BY DEF IInv, Streaming, ClientTypes, Begun, Stages, Policies, Collected, Over

\* Every chunk is both sent and collected, or nothing is collected any more, or the
\* exchange fails.
LEMMA ResponseBodyInv == ASSUME IInv, NEW n \in 1 .. MaxChunk, ResponseBody(n) PROVE IInv'
<1> DEFINE r == responses[1]
           s == [r EXCEPT !.bytes = @ + n]
<1>1. /\ Streaming /\ r.bytes + n <= MaxBody /\ Collect(n)
      /\ UNCHANGED <<request, context, stored, received, applied, upstream, reusable, ran>>
  BY DEF ResponseBody
<1>2. /\ pc = "exchange" /\ responses # <<>> /\ responses = <<r>> /\ r \in Response
      /\ r.kind = "upstream" /\ r.code = 200 /\ r.decorated
      /\ applied /\ error = NoError /\ stored = None
      /\ selected # NoRoute /\ asked = Plugins
  BY <1>1, StreamingFacts
<1>3. n \in Nat /\ r.bytes \in Nat
  BY <1>2, BoundsAssumption DEF Response
<1>4. s \in Response /\ [<<r>> EXCEPT ![1].bytes = @ + n] = <<s>>
  BY <1>1, <1>2, <1>3, ResponseUpdate
<1>5. s.kind = "upstream" /\ s.code = 200 /\ s.decorated /\ s.bytes = r.bytes + n
  BY <1>2, <1>3 DEF Response
<1>6. /\ capture' \in {None, capture}
      /\ capture' # None => buf' = buf + n /\ buf' <= capture
      /\ capture' = None => buf' = 0
  BY <1>1, <1>3, BoundsAssumption DEF Collect, IInv, TrafficTypes, None
<1>7. ContextTypes' /\ Counted'
  BY <1>1 DEF IInv, ContextTypes, Counted, context, upstream
<1>8. TrafficTypes'
  BY <1>1, <1>3, <1>6, BoundsAssumption DEF IInv, TrafficTypes, upstream, None
<1>9. Permitted'
  BY <1>1, <1>2 DEF Permitted, context
<1> HIDE DEF s
<1>10. CASE responses' = [responses EXCEPT ![1].bytes = @ + n] /\ UNCHANGED <<pc, error, broken>>
  <2>1. responses' = <<s>>
    BY <1>2, <1>4, <1>10
  <2>2. responses' # <<>> /\ responses'[1] = s /\ responses' \in Seq(Response)
    BY <1>4, <2>1, Single, SingleSeq
  <2>3. ClientTypes'
    BY <1>1, <1>4, <1>10, <2>1, <2>2 DEF IInv, ClientTypes
  <2>4. Stages' /\ Begun' /\ Ended'
    BY <1>1, <1>2, <1>5, <1>10, <2>2 DEF Stages, Begun, Ended, Early, Over
  <2>5. Policies' /\ Attempts'
    BY <1>1, <1>10 DEF IInv, Policies, Attempts, context, upstream
  <2>6. Collected'
    BY <1>1, <1>2, <1>5, <1>6, <1>10, <2>2 DEF IInv, Collected, Early, Over, context
  <2> QED
    BY <1>7, <1>8, <1>9, <2>3, <2>4, <2>5, <2>6 DEF IInv
<1>11. CASE broken' = TRUE /\ Fail(From("downstream")) /\ UNCHANGED responses
  <2>1. ClientTypes'
    BY <1>1, <1>11, ErrorFacts DEF IInv, ClientTypes, Callbacks, Fail
  <2>2. Stages' /\ Begun' /\ Policies' /\ Ended'
    BY <1>2, <1>11, ErrorFacts DEF Stages, Begun, Policies, Ended, Early, Over, Fail
  <2>3. Attempts'
    BY <1>1, <1>2, <1>11 DEF IInv, Attempts, context, upstream, Fail
  <2>4. Collected'
    BY <1>1, <1>2, <1>6, <1>11 DEF IInv, Collected, Early, Over, context, Fail
  <2> QED
    BY <1>7, <1>8, <1>9, <2>1, <2>2, <2>3, <2>4 DEF IInv
<1> QED
  BY <1>10, <1>11 DEF ResponseBody

\* Only the end of the upstream's response makes it complete.
LEMMA EndResponseInv == ASSUME IInv, EndResponse PROVE IInv'
<1> DEFINE r == responses[1]
           s == [r EXCEPT !.complete = TRUE]
<1>1. /\ Streaming /\ responses' = [responses EXCEPT ![1].complete = TRUE] /\ pc' = "logging"
      /\ UNCHANGED <<request, context, cacheState, received, applied, error, upstream, broken,
                     reusable>>
  BY DEF EndResponse
<1>2. /\ pc = "exchange" /\ responses = <<r>> /\ r \in Response
      /\ r.kind = "upstream" /\ r.code = 200 /\ r.decorated
      /\ error = NoError /\ stored = None
      /\ selected # NoRoute /\ asked = Plugins
  BY <1>1, StreamingFacts
<1>3. s \in Response /\ [<<r>> EXCEPT ![1].complete = TRUE] = <<s>>
  <2>1. r.bytes + 0 <= MaxBody
    BY <1>2, BoundsAssumption DEF Response
  <2> QED
    BY <1>2, <2>1, ResponseUpdate
<1>4. s.kind = "upstream" /\ s.code = 200 /\ s.decorated /\ s.bytes = r.bytes /\ s.complete
  BY <1>2 DEF Response
<1> HIDE DEF s
<1>5. responses' = <<s>>
  BY <1>1, <1>2, <1>3
<1>6. responses' # <<>> /\ responses'[1] = s /\ responses' \in Seq(Response)
  BY <1>3, <1>5, Single, SingleSeq
<1>7. ClientTypes' /\ Stages' /\ Begun'
  BY <1>1, <1>2, <1>3, <1>5, <1>6
  DEF IInv, ClientTypes, Callbacks, Stages, Begun, Early, Over
<1>8. ContextTypes' /\ TrafficTypes' /\ Counted'
  BY <1>1 DEF IInv, ContextTypes, TrafficTypes, Counted, context, cacheState, upstream
<1>9. Policies' /\ Permitted'
  BY <1>1, <1>2 DEF Policies, Permitted, context
<1>10. Attempts'
  BY <1>1, <1>2 DEF IInv, Attempts, context, upstream
<1>11. Collected'
  BY <1>1, <1>2, <1>4, <1>6 DEF IInv, Collected, Early, Over, context, cacheState
<1>12. Ended'
  <2>1. responses'[1].complete /\ responses'[1].code # 413 /\ responses'[1].decorated
    BY <1>4, <1>6
  <2> QED
    BY <1>6, <2>1 DEF Ended
<1> QED
  BY <1>7, <1>8, <1>9, <1>10, <1>11, <1>12 DEF IInv

\* A retry delivers again only what Retryable allows, and nothing had begun.
LEMMA ErrorWhileProxyInv == ASSUME IInv, ErrorWhileProxy PROVE IInv'
<1>1. /\ pc = "exchange"
      /\ UNCHANGED <<request, context, cacheState, received, applied, client, upstream>>
  BY DEF ErrorWhileProxy
<1>2. CASE Retryable /\ responses = <<>> /\ pc' = "upstream_peer" /\ UNCHANGED error
  <2>1. ClientTypes' /\ Stages' /\ Begun' /\ Ended'
    BY <1>1, <1>2 DEF IInv, ClientTypes, Callbacks, Stages, Begun, Ended, Early, Over, client
  <2>2. ContextTypes' /\ TrafficTypes' /\ Counted'
    BY <1>1 DEF IInv, ContextTypes, TrafficTypes, Counted, context, cacheState, upstream
  <2>3. Policies' /\ Collected' /\ Permitted'
    BY <1>1, <1>2 DEF IInv, Policies, Collected, Permitted, Early, Over, client, context, cacheState,
                      upstream
  <2>4. Attempts'
    BY <1>1, <1>2 DEF IInv, Attempts, Retryable, context, upstream
  <2> QED
    BY <2>1, <2>2, <2>3, <2>4 DEF IInv
<1>3. CASE \E e \in {From("upstream"), From("downstream"), Internal, ReadTimedout} : Fail(e)
  <2>1. PICK e \in {From("upstream"), From("downstream"), Internal, ReadTimedout} : Fail(e)
    BY <1>3
  <2>2. e \in Errors /\ e # NoError
    BY ErrorFacts
  <2> QED
    BY <1>1, <2>1, <2>2, FailInv
<1> QED
  BY <1>2, <1>3 DEF ErrorWhileProxy

-----------------------------------------------------------------------------
(* fail_to_proxy and logging *)

\* What the error handler leaves: nothing but a broken connection, a part of a
\* response on a broken connection, or a whole response.
Finished(k, part, whole) ==
  /\ pc' = "logging" /\ reusable' \in BOOLEAN /\ broken' \in BOOLEAN /\ (broken => broken')
  /\ part.kind = k /\ whole.kind = k /\ whole.complete
  /\ \/ responses' = <<whole>>
     \/ broken' /\ ~reusable' /\ responses' = <<>>
     \/ broken' /\ ~reusable' /\ responses' = <<part>>

LEMMA FinishEffect ==
  ASSUME NEW k \in Kinds, NEW c \in Nat, NEW d \in BOOLEAN, NEW reuse \in BOOLEAN,
         responses = <<>>, ClientTypes, Finish(Writes(k, c, d), reuse)
  PROVE  \E part, whole \in Response :
           /\ Finished(k, part, whole)
           /\ whole.code = c /\ whole.decorated = d /\ (reusable' => reuse)
<1>1. PICK o \in Writes(k, c, d) :
        /\ responses' = responses \o o.sent
        /\ broken' = (broken \/ o.error.source = "downstream")
        /\ reusable' = (reusable /\ reuse /\ o.error = NoError)
        /\ pc' = "logging"
  BY DEF Finish
<1> DEFINE part == Resp(k, c, d, FALSE)
           whole == Resp(k, c, d, TRUE)
<1>2. part \in Response /\ whole \in Response
  BY BoundsAssumption DEF Resp, Response, Kinds
<1>3. part.kind = k /\ whole.kind = k /\ whole.code = c /\ whole.complete
      /\ whole.decorated = d
  BY DEF Resp
<1>4. \/ o.error = From("downstream") /\ o.sent = <<>>
      \/ o.error = From("downstream") /\ o.sent = <<part>>
      \/ o.error = NoError /\ o.sent = <<whole>>
  BY WritesCases
<1> HIDE DEF part, whole
<1>5. broken' \in BOOLEAN /\ reusable' \in BOOLEAN /\ (reusable' => reuse) /\ (broken => broken')
  BY <1>1
<1>6. Finished(k, part, whole)
  <2>1. CASE o.error = From("downstream") /\ o.sent = <<>>
    BY <1>1, <1>3, <1>5, <2>1, ErrorFacts, NothingSent DEF Finished
  <2>2. CASE o.error = From("downstream") /\ o.sent = <<part>>
    BY <1>1, <1>3, <1>5, <2>2, ErrorFacts, Single DEF Finished
  <2>3. CASE o.error = NoError /\ o.sent = <<whole>>
    BY <1>1, <1>3, <1>5, <2>3, Single DEF Finished
  <2> QED
    BY <1>4, <2>1, <2>2, <2>3
<1> QED
  BY <1>2, <1>3, <1>5, <1>6

\* The error response is decorated if the hooks had not run; if they fail, a bare 500
\* is written in its place.
LEMMA ErrorEffect ==
  ASSUME NEW k \in {"scp", "error"}, NEW c \in Nat, responses = <<>>, ClientTypes,
         Finish(UNION {Fallback(o) : o \in RouteReply(k, c)}, FALSE)
  PROVE  \E j \in {k, "raw"} : \E part, whole \in Response :
           /\ Finished(j, part, whole) /\ ~reusable'
           /\ j = "raw" \/ (~applied /\ selected # NoRoute => whole.decorated)
<1> DEFINE Effect(f) ==
        /\ responses' = responses \o f.sent
        /\ broken' = (broken \/ f.error.source = "downstream")
        /\ reusable' = (reusable /\ FALSE /\ f.error = NoError)
        /\ pc' = "logging"
<1>0. PICK o \in RouteReply(k, c) : \E f \in Fallback(o) : Effect(f)
  BY DEF Finish
<1>1. PICK f \in Fallback(o) : Effect(f)
  BY <1>0
<1>2. PICK no \in BOOLEAN : no = FALSE
  OBVIOUS
<1>3. PICK d \in BOOLEAN : d = Decorates
  BY DEF Decorates
<1>4. ~applied /\ selected # NoRoute => d
  BY <1>3 DEF Decorates
<1>5. CASE f \in Writes("raw", 500, FALSE)
  <2>1. PICK c2 \in Nat : c2 = 500
    OBVIOUS
  <2>2. Finish(Writes("raw", c2, no), no)
    BY <1>1, <1>2, <1>5, <2>1 DEF Finish
  <2>3. "raw" \in Kinds
    BY DEF Kinds
  <2> QED
    BY <1>2, <2>2, <2>3, FinishEffect
<1>6. CASE f \in Writes(k, c, Decorates)
  <2>1. Finish(Writes(k, c, d), no)
    BY <1>1, <1>2, <1>3, <1>6 DEF Finish
  <2>2. k \in Kinds
    BY DEF Kinds
  <2> QED
    BY <1>2, <1>4, <2>1, <2>2, FinishEffect
<1>7. f \in Writes("raw", 500, FALSE) \/ f \in Writes(k, c, Decorates)
  <2>1. CASE o \in ApplyFails
    <3>1. o.error # NoError /\ o.sent = <<>>
      BY <2>1, ErrorFacts DEF ApplyFails
    <3> QED
      BY <1>1, <3>1 DEF Fallback
  <2>2. CASE o \in Writes(k, c, Decorates)
    BY <1>1, <2>2 DEF Fallback
  <2> QED
    BY <1>0, <2>1, <2>2 DEF RouteReply
<1> QED
  BY <1>5, <1>6, <1>7

\* Whatever is written at the end leaves the request as Ended says.
LEMMA FinishedInv ==
  ASSUME IInv, pc = "fail_to_proxy", responses = <<>>, NEW k \in Kinds,
         NEW part \in Response, NEW whole \in Response, Finished(k, part, whole),
         reusable' => whole.code # 413, applied' \in BOOLEAN,
         k # "upstream", k \in {"stale", "cached"} => key,
         /\ k \in {"local", "scp", "error"} /\ selected # NoRoute
         /\ (applied => broken \/ error.type = "hook")
         /\ error.type # "hook" /\ ~broken
         => whole.decorated,
         UNCHANGED <<request, context, cacheState, received, error, upstream>>
  PROVE  IInv'
<1>1. <<part>> \in Seq(Response) /\ <<whole>> \in Seq(Response)
      /\ <<part>>[1] = part /\ <<whole>>[1] = whole /\ <<part>> # <<>> /\ <<whole>> # <<>>
  BY Single, SingleSeq
<1>2. /\ pc' = "logging" /\ reusable' \in BOOLEAN /\ broken' \in BOOLEAN /\ (broken => broken')
      /\ part.kind = k /\ whole.kind = k /\ whole.complete
  BY DEF Finished
<1>3. ASSUME responses' \in Seq(Response),
             responses' = <<>> \/ (responses' = <<responses'[1]>> /\ responses'[1] \in Response
                                  /\ responses'[1].kind = k),
             Ended'
      PROVE  IInv'
  <2>1. ClientTypes' /\ Stages' /\ Begun' /\ Policies'
    BY <1>2, <1>3 DEF IInv, ClientTypes, Callbacks, Stages, Begun, Policies, Early, Over
  <2>2. ContextTypes' /\ TrafficTypes' /\ Counted'
    BY DEF IInv, ContextTypes, TrafficTypes, Counted, context, cacheState, upstream
  <2>3. Attempts'
    BY <1>2 DEF IInv, Attempts, context, upstream
  <2>4. Collected'
    BY <1>2 DEF IInv, Collected, Stages, Early, Over, context, cacheState
  <2>5. Permitted'
    BY <1>3 DEF IInv, Permitted, context, upstream
  <2> QED
    BY <1>3, <2>1, <2>2, <2>3, <2>4, <2>5 DEF IInv
<1>4. CASE responses' = <<whole>>
  <2>1. responses' # <<>> /\ responses'[1] = whole
    BY <1>1, <1>4
  <2>2. applied => broken \/ error.type = "hook"
    BY DEF IInv, Begun
  <2>3. Ended'
    BY <1>2, <2>1, <2>2 DEF Ended, context
  <2> QED
    BY <1>1, <1>2, <1>3, <1>4, <2>1, <2>3
<1>5. CASE broken' /\ ~reusable' /\ responses' = <<>>
  <2>1. Ended'
    BY <1>5 DEF Ended
  <2>2. responses' \in Seq(Response)
    BY <1>5
  <2> QED
    BY <1>3, <1>5, <2>1, <2>2
<1>6. CASE broken' /\ ~reusable' /\ responses' = <<part>>
  <2>1. Ended'
    BY <1>6 DEF Ended
  <2> QED
    BY <1>1, <1>2, <1>3, <1>6, <2>1
<1> QED
  BY <1>4, <1>5, <1>6 DEF Finished

LEMMA FailToProxyInv == ASSUME IInv, FailToProxy PROVE IInv'
<1>1. /\ pc = "fail_to_proxy"
      /\ UNCHANGED <<request, context, cacheState, received, error, upstream>>
  BY DEF FailToProxy
<1>2. CASE Written /\ reusable' = FALSE /\ pc' = "logging" /\ UNCHANGED <<responses, broken, applied, ran>>
  <2>1. ClientTypes' /\ Stages' /\ Begun' /\ Policies'
    BY <1>1, <1>2 DEF IInv, ClientTypes, Callbacks, Stages, Begun, Policies, Early, Over
  <2>2. ContextTypes' /\ TrafficTypes' /\ Counted' /\ Permitted'
    BY <1>1, <1>2 DEF IInv, ContextTypes, TrafficTypes, Counted, Permitted, context, cacheState,
                      upstream
  <2>3. Attempts'
    BY <1>1, <1>2 DEF IInv, Attempts, context, upstream
  <2>4. Collected'
    BY <1>1, <1>2 DEF IInv, Collected, Stages, Early, Over, context, cacheState
  <2>5. Ended'
    BY <1>1, <1>2 DEF IInv, Begun, Ended, Written
  <2> QED
    BY <2>1, <2>2, <2>3, <2>4, <2>5 DEF IInv
<1>3. CASE ~Written /\ StaleAllowed /\ Finish(Writes("stale", 200, FALSE), TRUE) /\ UNCHANGED <<applied, ran>>
  <2>1. PICK no \in BOOLEAN, yes \in BOOLEAN : no = FALSE /\ yes = TRUE
    OBVIOUS
  <2>2. PICK c \in Nat : c = 200 /\ c # 413
    OBVIOUS
  <2>3. Finish(Writes("stale", c, no), yes)
    BY <1>3, <2>1, <2>2
  <2>4. responses = <<>> /\ ClientTypes /\ applied' \in BOOLEAN /\ "stale" \in Kinds
    BY <1>3 DEF Written, IInv, ClientTypes, Kinds
  <2>5. PICK part \in Response, whole \in Response :
          Finished("stale", part, whole) /\ whole.code = c
    BY <2>3, <2>4, FinishEffect
  <2>6. key
    BY <1>3 DEF StaleAllowed
  <2> QED
    BY <1>1, <2>2, <2>4, <2>5, <2>6, FinishedInv
<1>4. ASSUME ~Written, applied' = TRUE, NEW k \in {"scp", "error"}, NEW c \in Nat,
             Finish(UNION {Fallback(o) : o \in RouteReply(k, c)}, FALSE)
      PROVE  IInv'
  <2>1. responses = <<>> /\ ClientTypes
    BY <1>4 DEF Written, IInv
  <2>2. PICK j \in {k, "raw"} : \E part, whole \in Response :
           /\ Finished(j, part, whole) /\ ~reusable'
           /\ j = "raw" \/ (~applied /\ selected # NoRoute => whole.decorated)
    BY <1>4, <2>1, ErrorEffect
  <2>3. PICK part \in Response, whole \in Response :
           /\ Finished(j, part, whole) /\ ~reusable'
           /\ j = "raw" \/ (~applied /\ selected # NoRoute => whole.decorated)
    BY <2>2
  <2>4. j \in Kinds /\ j \in {"scp", "error", "raw"}
    BY DEF Kinds
  <2>5. applied \in BOOLEAN /\ applied' \in BOOLEAN
    BY <1>4 DEF IInv, ClientTypes
  <2> QED
    BY <1>1, <2>1, <2>3, <2>4, <2>5, FinishedInv
<1>5. ScpCode \in Nat /\ ErrorCode \in Nat
  BY DEF ScpCode, ErrorCode, IInv, ClientTypes, Errors
<1> QED
  BY <1>2, <1>3, <1>4, <1>5 DEF FailToProxy, SetApplied

LEMMA LoggingInv == ASSUME IInv, Logging PROVE IInv'
<1>1. /\ pc = "logging" /\ pc' = "done" /\ stored' = IF Storable THEN buf ELSE None
      /\ UNCHANGED <<request, context, capture, buf, received, applied, error, client, upstream>>
  BY DEF Logging
<1>2. ClientTypes' /\ Stages' /\ Begun' /\ Policies' /\ Ended'
  BY <1>1 DEF IInv, ClientTypes, Callbacks, Stages, Begun, Policies, Ended, Early, Over, client,
              context
<1>3. ContextTypes' /\ Counted' /\ Permitted'
  BY <1>1 DEF IInv, ContextTypes, Counted, Permitted, client, context, upstream
<1>4. TrafficTypes'
  BY <1>1, BoundsAssumption DEF IInv, TrafficTypes, upstream, None
<1>5. Attempts'
  BY <1>1 DEF IInv, Attempts, context, upstream
<1>6. Collected'
  BY <1>1 DEF IInv, Collected, Storable, Early, Over, client, context
<1> QED
  BY <1>2, <1>3, <1>4, <1>5, <1>6 DEF IInv

LEMMA StutterInv == ASSUME IInv, UNCHANGED vars PROVE IInv'
<1>1. ClientTypes' /\ ContextTypes' /\ TrafficTypes'
  BY DEF IInv, ClientTypes, ContextTypes, TrafficTypes, vars, client, context, cacheState, upstream
<1>2. Stages' /\ Begun' /\ Ended' /\ Permitted'
  BY DEF IInv, Stages, Begun, Ended, Permitted, vars, client, context, upstream
<1>3. Policies' /\ Attempts' /\ Counted' /\ Collected'
  BY DEF IInv, Policies, Attempts, Counted, Collected, vars, client, context, cacheState, upstream
<1> QED
  BY <1>1, <1>2, <1>3 DEF IInv

-----------------------------------------------------------------------------
(* The inductive invariant and its consequences *)

LEMMA InitInv == Init => IInv
<1> SUFFICES ASSUME Init PROVE IInv
  OBVIOUS
<1>1. ClientTypes
  <2>1. responses = <<>> /\ responses \in Seq(Response)
    BY DEF Init
  <2> QED
    BY <2>1, ErrorFacts DEF Init, ClientTypes, Callbacks
<1>2. ContextTypes /\ TrafficTypes
  <2>1. None \in Nat /\ None >= 3 /\ {1, MaxU64, None} \subseteq 0 .. None
    BY BoundsAssumption DEF None
  <2>2. ContextTypes
    <3>1. limit \in 0 .. None
      BY <2>1 DEF Init
    <3>2. asked \in 0 .. Plugins
      BY BoundsAssumption DEF Init
    <3> QED
      BY <3>1, <3>2 DEF Init, ContextTypes
  <2>3. TrafficTypes
    BY <2>1, BoundsAssumption DEF Init, TrafficTypes
  <2> QED
    BY <2>2, <2>3
<1>3. Stages /\ Begun /\ Ended /\ Permitted /\ Policies
  BY DEF Init, Stages, Begun, Ended, Permitted, Policies, Early, Over
<1>4. Attempts /\ Counted /\ Collected
  BY BoundsAssumption DEF Init, Attempts, Counted, Collected, Early, Over, None
<1> QED
  BY <1>1, <1>2, <1>3, <1>4 DEF IInv

LEMMA NextInv == IInv /\ [Next]_vars => IInv'
<1> SUFFICES ASSUME IInv, [Next]_vars PROVE IInv'
  OBVIOUS
<1>1. CASE Challenge \/ SelectFails \/ SelectNothing \/ \E r \in Routes : Select(r)
  BY <1>1, ChallengeInv, SelectFailsInv, SelectNothingInv, SelectInv
<1>2. CASE Authorize \/ OnRequest \/ PrepareScp \/ TryCache \/ SelectTarget
  BY <1>2, AuthorizeInv, OnRequestInv, PrepareScpInv, TryCacheInv, SelectTargetInv
<1>3. CASE UpstreamPeer \/ FailToConnect \/ SendRequest \/ ErrorWhileProxy
  BY <1>3, UpstreamPeerInv, FailToConnectInv, SendRequestInv, ErrorWhileProxyInv
<1>4. CASE \E n \in 1 .. MaxChunk : RequestBody(n) \/ ResponseBody(n)
  BY <1>4, RequestBodyInv, ResponseBodyInv
<1>5. CASE ResponseFilter \/ EndResponse \/ FailToProxy \/ Logging
  BY <1>5, ResponseFilterInv, EndResponseInv, FailToProxyInv, LoggingInv
<1>6. CASE Done \/ UNCHANGED vars
  BY <1>6, StutterInv DEF Done
<1> QED
  BY <1>1, <1>2, <1>3, <1>4, <1>5, <1>6 DEF Next

\* The request's context is always what the callbacks' order makes it.
THEOREM ContextInvariant == Spec => []IInv
BY InitInv, NextInv, PTL DEF Spec

\* The hooks have run exactly when the flag is set and there is a route.
Ran == ran = IF applied /\ selected # NoRoute THEN 1 ELSE 0

\* A step that leaves the flag and the run count alone, and the route too once the
\* flag is set.
LEMMA RanKept ==
  ASSUME Ran, UNCHANGED <<applied, ran>>, applied => UNCHANGED selected
  PROVE  Ran'
BY DEF Ran

\* A step that sets the flag.
LEMMA RanSet ==
  ASSUME Ran, applied \in BOOLEAN, SetApplied, (selected' # NoRoute) <=> (selected # NoRoute)
  PROVE  Ran'
BY DEF Ran, SetApplied, Decorates

\* prepare_scp answers, which sets the flag, or hands the request on.
LEMMA PrepareScpEffect ==
  ASSUME PrepareScp
  PROVE  UNCHANGED selected /\ (SetApplied \/ UNCHANGED <<applied, client>>)
<1>1. ASSUME NEW k, NEW c, NEW keep, Reply(k, c, keep) PROVE SetApplied
  BY <1>1 DEF Reply
<1>2. ASSUME NEW p, GoTo(p) PROVE UNCHANGED <<applied, client>>
  BY <1>2 DEF GoTo
<1>3. UNCHANGED selected
  BY DEF PrepareScp
<1>4. GoTo("try_cache") \/ \E c : Reply("scp", c, TRUE)
  <2>1. CASE selected.target # "scp"
    BY <2>1 DEF PrepareScp
  <2>2. CASE selected.target = "scp"
    <3>1. CASE Reply("scp", 505, TRUE)
      BY <3>1
    <3>2. CASE \E c \in ScpRefusals : Reply("scp", c, TRUE)
      BY <3>2
    <3>3. \/ GoTo("try_cache") \/ Reply("scp", 505, TRUE)
          \/ \E c \in ScpRefusals : Reply("scp", c, TRUE)
      BY <2>2, Zenon DEF PrepareScp
    <3> QED
      BY <3>1, <3>2, <3>3
  <2> QED
    BY <2>1, <2>2
<1>5. CASE \E c : Reply("scp", c, TRUE)
  <2>1. PICK c : Reply("scp", c, TRUE)
    BY <1>5
  <2> QED
    BY <1>1, <1>3, <2>1
<1> QED
  BY <1>2, <1>3, <1>4, <1>5

LEMMA RanStep == ASSUME IInv, Ran, [Next]_vars PROVE Ran'
<1>0. applied \in BOOLEAN /\ (pc \in Early => ~applied)
  BY DEF IInv, ClientTypes, Stages
<1>1. CASE Challenge \/ Authorize \/ OnRequest
  <2>1. UNCHANGED selected /\ (SetApplied \/ UNCHANGED <<applied, ran>>)
    BY <1>1 DEF Challenge, Authorize, OnRequest, Reply, GoTo, context, client
  <2> QED
    BY <1>0, <2>1, RanKept, RanSet
<1>2. CASE PrepareScp \/ TryCache
  <2>1. UNCHANGED selected /\ (SetApplied \/ UNCHANGED <<applied, ran>>)
    <3>1. CASE PrepareScp
      BY <3>1, PrepareScpEffect DEF client
    <3>2. CASE TryCache
      BY <3>2 DEF TryCache, GoTo, client
    <3> QED
      BY <1>2, <3>1, <3>2
  <2> QED
    BY <1>0, <2>1, RanKept, RanSet
<1>3. CASE SelectFails \/ SelectNothing \/ \E r \in Routes : Select(r)
  <2>1. UNCHANGED <<applied, ran>> /\ ~applied
    <3>1. CASE SelectFails
      BY <1>0, <3>1 DEF SelectFails, client, Early
    <3>2. ASSUME NEW max, NEW next, pc = "request_filter", Restrict(max, next)
          PROVE  UNCHANGED <<applied, ran>> /\ ~applied
      BY <1>0, <3>2 DEF Restrict, GoTo, client, Early
    <3>3. CASE SelectNothing \/ \E r \in Routes : Select(r)
      BY <3>2, <3>3 DEF SelectNothing, Select
    <3> QED
      BY <1>3, <3>1, <3>3
  <2> QED
    BY <2>1, RanKept
<1>4. CASE SelectTarget
  <2>1. pc = "select_target" /\ ~applied /\ selected # NoRoute
    BY <1>0, <1>4 DEF SelectTarget, Early, IInv, Policies
  <2>2. SetApplied \/ UNCHANGED <<applied, ran>>
    BY <1>4 DEF SelectTarget, Reply, GoTo, client
  <2>3. selected' # NoRoute
    <3>1. CASE UNCHANGED selected
      BY <2>1, <3>1
    <3>2. CASE \E t \in {"pending", "direct", "upstream"} :
                 selected' = [selected EXCEPT !.target = t]
      <4>1. selected'.target \in {"pending", "direct", "upstream"}
        BY <2>1, <3>2 DEF IInv, ContextTypes
      <4> QED
        BY <4>1 DEF NoRoute
    <3> QED
      BY <1>4, <3>1, <3>2 DEF SelectTarget
  <2> QED
    BY <1>0, <2>1, <2>2, <2>3, RanKept, RanSet
<1>5. CASE \/ UpstreamPeer \/ FailToConnect \/ SendRequest \/ ErrorWhileProxy
           \/ \E n \in 1 .. MaxChunk : RequestBody(n) \/ ResponseBody(n)
  <2>1. UNCHANGED <<applied, ran, selected>>
    BY <1>5 DEF UpstreamPeer, FailToConnect, SendRequest, ErrorWhileProxy, RequestBody,
                ResponseBody, context, client
  <2> QED
    BY <2>1, RanKept
<1>6. CASE ResponseFilter \/ FailToProxy
  <2>1. UNCHANGED selected /\ (SetApplied \/ UNCHANGED <<applied, ran>>)
    BY <1>6 DEF ResponseFilter, FailToProxy, context
  <2> QED
    BY <1>0, <2>1, RanKept, RanSet
<1>7. CASE EndResponse \/ Logging \/ Done \/ UNCHANGED vars
  <2>1. UNCHANGED <<applied, ran, selected>>
    BY <1>7 DEF EndResponse, Logging, Done, vars, context, client
  <2> QED
    BY <2>1, RanKept
<1> QED
  BY <1>1, <1>2, <1>3, <1>4, <1>5, <1>6, <1>7 DEF Next

\* Whoever has answered through the hooks has set the flag.
Spent ==
  responses # <<>> /\ responses[1].kind \in {"local", "scp", "error", "upstream"} => applied

\* A step that sets the flag or finds it set, and one that writes nothing.
LEMMA SpentSet == ASSUME applied' = TRUE PROVE Spent'
BY DEF Spent

LEMMA SpentKept == ASSUME Spent, UNCHANGED <<applied, responses>> PROVE Spent'
BY DEF Spent

\* The kinds of response that do not pass the hooks.
LEMMA SpentOther ==
  ASSUME NEW k \in {"raw", "cached", "stale"}, NEW part, NEW whole,
         part.kind = k, whole.kind = k,
         responses' = <<>> \/ responses'[1] \in {part, whole}
  PROVE  Spent'
BY DEF Spent

LEMMA SpentStep == ASSUME IInv, Spent, [Next]_vars PROVE Spent'
<1>0. /\ ClientTypes /\ applied \in BOOLEAN /\ (pc \in Early => responses = <<>>)
      /\ (Streaming => applied)
  BY DEF IInv, ClientTypes, Stages, Streaming
<1>1. CASE Challenge \/ Authorize \/ OnRequest \/ PrepareScp \/ SelectTarget
  <2>1. applied' = TRUE \/ UNCHANGED <<applied, responses>>
    <3>1. CASE Challenge \/ Authorize \/ OnRequest
      BY <3>1 DEF Challenge, Authorize, OnRequest, Reply, SetApplied, GoTo, client
    <3>2. CASE PrepareScp
      BY <3>2, PrepareScpEffect DEF SetApplied, client
    <3>3. CASE SelectTarget
      BY <3>3 DEF SelectTarget, Reply, SetApplied, GoTo, client
    <3> QED
      BY <1>1, <3>1, <3>2, <3>3
  <2> QED
    BY <2>1, SpentSet, SpentKept
<1>2. CASE SelectFails
  BY <1>2, SpentKept DEF SelectFails, client
<1>3. ASSUME NEW max, NEW next, pc = "request_filter", Restrict(max, next) PROVE Spent'
  <2>1. CASE TooLong(max)
    <3>1. PICK part \in Response, whole \in Response :
            Answered(part, whole) /\ part.kind = "raw" /\ whole.kind = "raw"
      BY <1>0, <1>3, <2>1, RefusedEffect DEF Restrict, Early
    <3>2. responses' = <<>> \/ responses'[1] \in {part, whole}
      BY <3>1, ResponseOrNone
    <3> QED
      BY <3>1, <3>2, SpentOther
  <2>2. CASE ~TooLong(max)
    BY <1>3, <2>2, SpentKept DEF Restrict, GoTo, client
  <2> QED
    BY <2>1, <2>2
<1>4. CASE SelectNothing \/ \E r \in Routes : Select(r)
  BY <1>3, <1>4 DEF SelectNothing, Select
<1>5. CASE TryCache
  <2>1. CASE Answer(Writes("cached", 200, FALSE), TRUE)
    <3>1. PICK k \in Kinds, c \in Nat, no \in BOOLEAN, yes \in BOOLEAN :
            k = "cached" /\ c = 200 /\ no = FALSE /\ yes = TRUE
      <4>1. "cached" \in Kinds /\ 200 \in Nat
        BY DEF Kinds
      <4> QED
        BY <4>1, Zenon
    <3>2. Answer(Writes(k, c, no), yes) /\ responses = <<>>
      BY <1>0, <1>5, <2>1, <3>1 DEF TryCache, Early
    <3>3. PICK part \in Response, whole \in Response :
            Answered(part, whole) /\ part.kind = k /\ whole.kind = k
      BY <1>0, <3>2, AnswerEffect
    <3>4. responses' = <<>> \/ responses'[1] \in {part, whole}
      BY <3>3, ResponseOrNone
    <3> QED
      BY <3>1, <3>3, <3>4, SpentOther
  <2>2. CASE GoTo("select_target")
    BY <2>2, SpentKept DEF GoTo, client
  <2> QED
    BY <1>5, <2>1, <2>2 DEF TryCache
<1>6. CASE \/ UpstreamPeer \/ FailToConnect \/ SendRequest \/ ErrorWhileProxy
           \/ \E n \in 1 .. MaxChunk : RequestBody(n)
  <2>1. UNCHANGED <<applied, responses>>
    BY <1>6 DEF UpstreamPeer, FailToConnect, SendRequest, ErrorWhileProxy, RequestBody, client
  <2> QED
    BY <2>1, SpentKept
<1>7. CASE ResponseFilter \/ EndResponse \/ \E n \in 1 .. MaxChunk : ResponseBody(n)
  <2>1. applied' = TRUE
    BY <1>0, <1>7 DEF ResponseFilter, EndResponse, ResponseBody, SetApplied
  <2> QED
    BY <2>1, SpentSet
<1>8. CASE FailToProxy
  <2>1. CASE Finish(Writes("stale", 200, FALSE), TRUE) /\ ~Written
    <3>1. PICK k \in Kinds, c \in Nat, no \in BOOLEAN, yes \in BOOLEAN :
            k = "stale" /\ c = 200 /\ no = FALSE /\ yes = TRUE
      <4>1. "stale" \in Kinds /\ 200 \in Nat
        BY DEF Kinds
      <4> QED
        BY <4>1, Zenon
    <3>2. Finish(Writes(k, c, no), yes) /\ responses = <<>>
      BY <2>1, <3>1 DEF Written
    <3>3. PICK part \in Response, whole \in Response : Finished(k, part, whole)
      BY <1>0, <3>2, FinishEffect
    <3>4. /\ part.kind = k /\ whole.kind = k
          /\ responses' = <<>> \/ responses'[1] \in {part, whole}
      BY <3>3, Single DEF Finished
    <3> QED
      BY <3>1, <3>4, SpentOther
  <2>2. CASE SetApplied
    BY <2>2, SpentSet DEF SetApplied
  <2>3. CASE UNCHANGED <<responses, broken, applied, ran>>
    BY <2>3, SpentKept
  <2> QED
    BY <1>8, <2>1, <2>2, <2>3 DEF FailToProxy
<1>9. CASE Logging \/ Done \/ UNCHANGED vars
  <2>1. UNCHANGED <<applied, responses>>
    BY <1>9 DEF Logging, Done, vars, client
  <2> QED
    BY <2>1, SpentKept
<1> QED
  BY <1>1, <1>2, <1>4, <1>5, <1>6, <1>7, <1>8, <1>9 DEF Next

LEMMA HooksInvariant == Spec => [](Ran /\ Spent)
<1>1. Init => Ran /\ Spent
  BY DEF Init, Ran, Spent
<1>2. ASSUME IInv, Ran /\ Spent, [Next]_vars PROVE (Ran /\ Spent)'
  BY <1>2, RanStep, SpentStep
<1> QED
  BY <1>1, <1>2, ContextInvariant, PTL DEF Spec

\* The last response is the only one.
LEMMA LastIsFirst == ASSUME ClientTypes, responses # <<>> PROVE Len(responses) = 1 /\ Last = responses[1]
<1>1. responses = <<responses[1]>>
  BY DEF ClientTypes
<1> QED
  BY <1>1, Single DEF Last

\* Every variable of the request's context and sessions keeps its type, whatever the
\* callbacks do; the buffer for the cache stays within its limit.
THEOREM TypeCorrect == Spec => []TypeOK
<1>1. IInv /\ Ran => TypeOK
  <2> SUFFICES ASSUME IInv, Ran PROVE TypeOK
    OBVIOUS
  <2>1. capture \in 0 .. None
    BY BoundsAssumption DEF IInv, TrafficTypes, None
  <2>2. {applied, broken, reusable} \subseteq BOOLEAN
    BY DEF IInv, ClientTypes
  <2>3. ran \in Nat
    BY DEF Ran
  <2> QED
    BY <2>1, <2>2, <2>3 DEF IInv, TypeOK, ClientTypes, ContextTypes, TrafficTypes
<1> QED
  BY <1>1, ContextInvariant, HooksInvariant, PTL

\* A request is answered at most once, whichever callbacks fail after the response has
\* begun, and it is answered unless the connection to the client is broken.
THEOREM AnswerOnce == Spec => []AnsweredOnce
<1>1. IInv => AnsweredOnce
  <2> SUFFICES ASSUME IInv PROVE AnsweredOnce
    OBVIOUS
  <2>1. ClientTypes
    BY DEF IInv
  <2>2. OneResponse
    <3>1. CASE responses = <<>>
      BY <3>1 DEF OneResponse
    <3>2. CASE responses # <<>>
      <4>1. Len(responses) = 1
        BY <2>1, <3>2, LastIsFirst
      <4> QED
        BY <4>1 DEF OneResponse
    <3> QED
      BY <3>1, <3>2
  <2>3. AlwaysAnswered
    BY <2>1, LastIsFirst DEF IInv, Ended, Over, AlwaysAnswered
  <2> QED
    BY <2>2, <2>3 DEF AnsweredOnce
<1> QED
  BY <1>1, ContextInvariant, PTL

\* No cache lookup, SCP exchange or upstream precedes the last request hook.
THEOREM PolicyBeforeUse == Spec => []PolicyFirst
<1>1. IInv => PolicyFirst
  BY LastIsFirst DEF IInv, Permitted, PolicyFirst
<1> QED
  BY <1>1, ContextInvariant, PTL

\* A request that is not idempotent, or an SCP request, is delivered at most once, and
\* SCP tries one alternative backend at most, for any number of retries of Pingora.
THEOREM DeliverOnce == Spec => []NoReplay
<1>1. IInv => NoReplay
  <2> SUFFICES ASSUME IInv PROVE NoReplay
    OBVIOUS
  <2>1. scp # "no" => attempts <= 2
    BY BoundsAssumption DEF IInv, ContextTypes, TrafficTypes, Attempts
  <2>2. scp # "no" \/ ~request.idempotent => delivered <= 1
    BY BoundsAssumption DEF IInv, TrafficTypes, Attempts
  <2>3. delivered \in Nat /\ (delivered <= 1 => ~(delivered > 1))
    BY BoundsAssumption DEF IInv, TrafficTypes
  <2> QED
    BY <2>1, <2>2, <2>3 DEF NoReplay
<1> QED
  BY <1>1, ContextInvariant, PTL

\* client_max_body_size holds for bodies and chunks of any size and any width of the
\* counter of received bytes, retries included.
THEOREM LimitHolds == Spec => []BodyWithinLimit
<1>1. IInv => BodyWithinLimit
  BY BoundsAssumption DEF IInv, Counted, ContextTypes, TrafficTypes, BodyWithinLimit
<1> QED
  BY <1>1, ContextInvariant, PTL

\* What finish_request stores is the body that the client has received in full, with
\* the response hooks applied.
THEOREM StoreComplete == Spec => []StoredComplete
<1>1. IInv => StoredComplete
  <2> SUFFICES ASSUME IInv, stored # None PROVE StoredComplete
    BY DEF StoredComplete
  <2>1. capture # None /\ key /\ pc = "done" /\ error = NoError /\ stored = buf
    BY DEF IInv, Collected
  <2>2. /\ responses # <<>> /\ responses[1].kind = "upstream" /\ responses[1].complete
        /\ responses[1].decorated /\ responses[1].bytes = buf
    BY <2>1 DEF IInv, Collected, Over
  <2>3. Len(responses) = 1 /\ Last = responses[1]
    BY <2>2, LastIsFirst DEF IInv
  <2> QED
    BY <2>1, <2>2, <2>3 DEF StoredComplete
<1> QED
  BY <1>1, ContextInvariant, PTL

\* The client's connection serves another request only after a complete response to
\* this one, and never after a refused body.
THEOREM ReuseClean == Spec => []ReusedOnlyWhenClean
<1>1. IInv => ReusedOnlyWhenClean
  BY LastIsFirst DEF IInv, Ended, Over, ReusedOnlyWhenClean
<1> QED
  BY <1>1, ContextInvariant, PTL

\* The response hooks run once for an answer of a selected route, other than a refusal
\* for the Content-Length and a cached or stale response, whichever callbacks try to
\* answer: unless a hook or a write fails, the response the client gets has passed
\* them, and if one fails they are not run again for the error.
THEOREM HooksReachClient == Spec => []Decorated
<1>1. IInv /\ Ran /\ Spent => Decorated
  <2> SUFFICES ASSUME IInv, Ran, Spent PROVE Decorated
    OBVIOUS
  <2>1. ran <= 1
    BY DEF Ran
  <2>2. ASSUME pc = "done", selected # NoRoute, responses # <<>>,
               Last.kind \in {"local", "scp", "error", "upstream"}
        PROVE  ran = 1 /\ (error.type # "hook" /\ ~broken => Last.decorated)
    <3>1. Last = responses[1]
      BY <2>2, LastIsFirst DEF IInv
    <3>2. ran = 1
      BY <2>2, <3>1 DEF Ran, Spent
    <3>3. error.type # "hook" /\ ~broken => Last.decorated
      BY <2>2, <3>1 DEF IInv, Ended, Over
    <3> QED
      BY <3>2, <3>3
  <2> QED
    BY <2>1, <2>2 DEF Decorated
<1> QED
  BY <1>1, ContextInvariant, HooksInvariant, PTL

-----------------------------------------------------------------------------
(***************************************************************************)
(* The rate limit plugin, one of the request hooks: what a client is       *)
(* admitted, for every limit, every number of workers and clients and      *)
(* every sweep interval.                                                   *)
(***************************************************************************)

\* The types that the argument needs; a bucket, and a request, are never ahead of
\* the clock.
LimiterTypes ==
  /\ now \in Windows
  /\ step \in [Workers -> {"idle", "count", "sweep"}]
  /\ ip \in [Workers -> Ips]
  /\ window \in [Workers -> Windows]
  /\ \A w \in Workers : window[w] <= now
  /\ buckets \in [Ips -> Bucket \cup {NoBucket}]
  /\ \A i \in Ips : buckets[i].window = buckets[i].last_seen /\ buckets[i].window <= now
  /\ admitted \in [Ips -> [Windows -> Nat]]
  /\ late \in [Ips -> Nat]
  /\ sweeps \in Nat

\* The bucket of client i counts for window s.
CountsFor(i, s) == buckets[i] # NoBucket /\ buckets[i].window = s

\* What a bucket has admitted since it counts for its window.
Granted(i) == IF buckets[i].count <= Limit THEN buckets[i].count ELSE Limit

\* Each late request of a client pays for one more allowance in each window.  A
\* window that has ended has used up its own as well, and the one the bucket counts
\* for has used up as much as the bucket has admitted.
Account(i, s) ==
  IF CountsFor(i, s) THEN admitted[i][s] <= Limit * late[i] + Granted(i)
  ELSE IF s < now THEN admitted[i][s] <= Limit * late[i] + Limit
  ELSE admitted[i][s] <= Limit * late[i]

LimiterInv == LimiterTypes /\ (Limit < MaxU32 => \A i \in Ips : \A s \in Windows : Account(i, s))

\* One allowance more.
LEMMA OneMore == \A a, b \in Nat : a * (b + 1) = a * b + a /\ a * b \in Nat /\ a * 0 = 0
OBVIOUS

\* The plugin starts without buckets.
LEMMA LimiterInitInv == LimiterInit => LimiterInv
<1> SUFFICES ASSUME LimiterInit PROVE LimiterInv
  OBVIOUS
<1>1. LimiterTypes
  BY LimitAssumption DEF LimiterInit, LimiterTypes, Windows, NoBucket
<1>2. ASSUME NEW i \in Ips, NEW s \in Windows PROVE Account(i, s)
  BY OneMore, LimitAssumption DEF LimiterInit, Account, CountsFor
<1> QED
  BY <1>1, <1>2 DEF LimiterInv

\* A request reads the clock, or the clock goes on.
LEMMA QuietInv ==
  ASSUME LimiterInv, Tick \/ \E w \in Workers, i \in Ips : CurrentWindow(w, i)
  PROVE  LimiterInv'
<1>0. now' \in Windows /\ now' >= now
  <2>0. now \in 0 .. MaxWindow /\ MaxWindow \in Nat
    BY LimitAssumption DEF LimiterInv, LimiterTypes, Windows
  <2>1. now' = now \/ (now < MaxWindow /\ now' = now + 1)
    BY DEF Tick, CurrentWindow
  <2> QED
    BY <2>0, <2>1 DEF Windows
<1>2. now' \in Windows /\ now' >= now /\ UNCHANGED <<buckets, admitted, late>>
  BY <1>0 DEF Tick, CurrentWindow, history
<1>1. LimiterTypes'
  <2>0. now \in Nat /\ now' \in Nat /\ \A i \in Ips : buckets[i].window \in Nat
    BY <1>0, LimitAssumption DEF LimiterInv, LimiterTypes, Windows, Bucket, NoBucket
  <2>1. CASE Tick
    BY <1>0, <2>0, <2>1, LimitAssumption DEF LimiterInv, LimiterTypes, Tick, Windows, history
  <2>2. ASSUME NEW w \in Workers, NEW i \in Ips, CurrentWindow(w, i) PROVE LimiterTypes'
    BY <1>0, <2>0, <2>2 DEF LimiterInv, LimiterTypes, CurrentWindow, history, Windows
  <2> QED
    BY <2>1, <2>2
<1>3. ASSUME Limit < MaxU32, NEW i \in Ips, NEW s \in Windows PROVE Account(i, s)'
  <2>1. Account(i, s) /\ late[i] \in Nat /\ admitted[i][s] \in Nat /\ Limit \in Nat
    BY <1>3, LimitAssumption DEF LimiterInv, LimiterTypes
  <2>2. Limit * late[i] \in Nat
    BY <2>1, OneMore
  <2> QED
    BY <1>2, <2>1, <2>2 DEF Account, CountsFor, Granted, LimiterInv, LimiterTypes, Windows
<1> QED
  BY <1>1, <1>3 DEF LimiterInv

\* allow_request: a bucket that starts anew was paid for, by the second that has begun
\* or by the request that is late.
LEMMA AllowInv == ASSUME LimiterInv, NEW w \in Workers, AllowRequest(w) PROVE LimiterInv'
<1> DEFINE i == ip[w]
           old == IF Restarts(w) THEN 0 ELSE buckets[i].count
           new == [window |-> window[w], count |-> SaturatingAdd(old),
                   last_seen |-> window[w]]
<1>0. /\ i \in Ips /\ window[w] \in Windows /\ window[w] <= now /\ now \in Windows
      /\ old \in 0 .. MaxU32 /\ Limit \in Nat /\ MaxU32 \in Nat
  BY LimitAssumption DEF LimiterInv, LimiterTypes, Restarts, Bucket, NoBucket
<1>1. /\ buckets' = [buckets EXCEPT ![i] = new]
      /\ UNCHANGED <<now, ip, window>>
      /\ admitted' = IF new.count <= Limit
                     THEN [admitted EXCEPT ![i][window[w]] = @ + 1] ELSE admitted
      /\ late' = IF window[w] < now THEN [late EXCEPT ![i] = @ + 1] ELSE late
  BY DEF AllowRequest
<1>2. new \in Bucket /\ new # NoBucket /\ new.count \in Nat /\ new.window = window[w]
  BY <1>0 DEF Bucket, NoBucket, SaturatingAdd
<1>3. LimiterTypes'
  <2>1. buckets' \in [Ips -> Bucket \cup {NoBucket}]
    BY <1>0, <1>1, <1>2 DEF LimiterInv, LimiterTypes
  <2>2. admitted' \in [Ips -> [Windows -> Nat]] /\ late' \in [Ips -> Nat]
    BY <1>0, <1>1 DEF LimiterInv, LimiterTypes
  <2>3. \A k \in Ips : buckets'[k].window = buckets'[k].last_seen /\ buckets'[k].window <= now
    BY <1>0, <1>1 DEF LimiterInv, LimiterTypes
  <2>4. step' \in [Workers -> {"idle", "count", "sweep"}]
    BY DEF AllowRequest, LimiterInv, LimiterTypes
  <2>5. sweeps' \in Nat
    BY DEF AllowRequest, LimiterInv, LimiterTypes
  <2> QED
    BY <1>1, <2>1, <2>2, <2>3, <2>4, <2>5 DEF LimiterInv, LimiterTypes
<1>4. ASSUME Limit < MaxU32, NEW k \in Ips, NEW s \in Windows PROVE Account(k, s)'
  <2>0. /\ Account(k, s) /\ late[k] \in Nat /\ admitted[k][s] \in Nat /\ s \in Nat
        /\ Limit * late[k] \in Nat /\ Limit * (late[k] + 1) = Limit * late[k] + Limit
    <3>1. Account(k, s) /\ late[k] \in Nat /\ admitted[k][s] \in Nat
      BY <1>4 DEF LimiterInv, LimiterTypes
    <3>2. s \in Nat
      BY LimitAssumption DEF Windows
    <3> QED
      BY <1>0, <3>1, <3>2, OneMore
  <2>1. CASE k # i
    <3>1. buckets'[k] = buckets[k] /\ admitted'[k] = admitted[k] /\ late'[k] = late[k]
      BY <1>0, <1>1, <2>1 DEF LimiterInv, LimiterTypes
    <3> QED
      BY <1>1, <2>0, <3>1 DEF Account, CountsFor, Granted
  <2>2. CASE k = i
    <3>1. buckets'[k] = new
      BY <1>1, <2>2 DEF LimiterInv, LimiterTypes
    <3>2. late'[k] = IF window[w] < now THEN late[k] + 1 ELSE late[k]
      BY <1>1, <2>2 DEF LimiterInv, LimiterTypes
    <3>3. admitted'[k][s] = IF s = window[w] /\ new.count <= Limit THEN admitted[k][s] + 1
                            ELSE admitted[k][s]
      BY <1>0, <1>1, <2>2 DEF LimiterInv, LimiterTypes
    <3>4. Limit * late'[k] = IF window[w] < now THEN Limit * late[k] + Limit
                             ELSE Limit * late[k]
      BY <2>0, <3>2
    <3>5. CASE s # window[w]
      <4>1. ~CountsFor(k, s)'
        BY <1>2, <3>1, <3>5 DEF CountsFor
      <4>2. admitted'[k][s] = admitted[k][s]
        BY <3>3, <3>5
      <4>3. admitted[k][s] <= Limit * late[k] + Limit
        BY <1>0, <2>0 DEF Account, Granted, LimiterInv, LimiterTypes, Bucket, NoBucket
      <4>4. CASE s < now \/ window[w] < now
        <5>1. CASE s < now
          BY <1>0, <1>1, <2>0, <3>4, <4>1, <4>2, <4>3, <5>1 DEF Account, Windows
        <5>2. CASE ~(s < now) /\ window[w] < now
          BY <1>0, <1>1, <2>0, <3>4, <4>1, <4>2, <4>3, <5>2 DEF Account, Windows
        <5> QED
          BY <4>4, <5>1, <5>2
      <4>5. CASE ~(s < now) /\ ~(window[w] < now)
        <5>1. s > now
          <6>1. s \in Nat /\ now \in Nat /\ window[w] \in Nat
            BY <1>0, LimitAssumption DEF Windows
          <6> QED
            BY <1>0, <3>5, <4>5, <6>1
        <5>2. ~CountsFor(k, s)
          BY <1>0, <2>0, <5>1 DEF CountsFor, LimiterInv, LimiterTypes, Bucket, Windows, NoBucket
        <5> QED
          BY <1>1, <2>0, <3>4, <4>1, <4>2, <4>5, <5>2 DEF Account
      <4> QED
        BY <4>4, <4>5
    <3>6. CASE s = window[w]
      <4>1. CountsFor(k, s)'
        BY <1>2, <3>1, <3>6 DEF CountsFor
      <4>2. Granted(k)' = IF new.count <= Limit THEN new.count ELSE Limit
        BY <3>1 DEF Granted
      <4>3. CASE Restarts(w)
        <5>1. new.count = (IF MaxU32 = 0 THEN 0 ELSE 1) /\ MaxU32 # 0 /\ Limit >= 1
          BY <1>0, <4>3, LimitAssumption DEF SaturatingAdd
        <5>2. ~CountsFor(k, s)
          BY <2>2, <3>6, <4>3 DEF CountsFor, Restarts
        <5>3. admitted[k][s] <= Limit * late'[k]
          BY <1>0, <2>0, <3>4, <3>6, <5>2 DEF Account, Windows
        <5>4. Limit * late'[k] \in Nat
          BY <1>0, <2>0, <3>4
        <5> QED
          BY <1>0, <2>0, <3>3, <3>6, <4>1, <4>2, <5>1, <5>3, <5>4 DEF Account
      <4>4. CASE ~Restarts(w)
        <5>1. CountsFor(k, s)
          BY <2>2, <3>6, <4>4 DEF CountsFor, Restarts
        <5>2. old = buckets[k].count
          BY <2>2, <4>4
        <5>3. new.count = IF old = MaxU32 THEN old ELSE old + 1
          BY DEF SaturatingAdd
        <5>4. admitted[k][s] <= Limit * late[k] + (IF old <= Limit THEN old ELSE Limit)
          BY <2>0, <5>1, <5>2 DEF Account, Granted
        <5>5. Limit * late[k] <= Limit * late'[k] /\ Limit * late'[k] \in Nat
          BY <1>0, <2>0, <3>4
        <5>6. admitted'[k][s] = IF new.count <= Limit THEN admitted[k][s] + 1
                                ELSE admitted[k][s]
          BY <3>3, <3>6
        <5> HIDE DEF old, new
        <5>7. admitted'[k][s] <=
                Limit * late'[k] + (IF new.count <= Limit THEN new.count ELSE Limit)
          <6>1. CASE old = MaxU32
            BY <1>0, <1>4, <2>0, <5>3, <5>4, <5>5, <5>6, <6>1
          <6>2. CASE old # MaxU32
            BY <1>0, <2>0, <5>3, <5>4, <5>5, <5>6, <6>2
          <6> QED
            BY <6>1, <6>2
        <5> QED
          BY <4>1, <4>2, <5>7 DEF Account
      <4> QED
        BY <4>3, <4>4
    <3> QED
      BY <3>5, <3>6
  <2> QED
    BY <2>1, <2>2
<1> QED
  BY <1>3, <1>4 DEF LimiterInv

\* maybe_sweep forgets only windows that have ended.
LEMMA SweepInv == ASSUME LimiterInv, NEW w \in Workers, MaybeSweep(w) PROVE LimiterInv'
<1>0. UNCHANGED <<now, ip, window, admitted, late>>
  BY DEF MaybeSweep, history
<1>1. \A i \in Ips : \/ buckets'[i] = buckets[i]
                     \/ buckets'[i] = NoBucket /\ Stale(buckets[i], window[w])
  <2>1. \/ buckets' = buckets
        \/ buckets' = [i \in Ips |-> IF Stale(buckets[i], window[w]) THEN NoBucket
                                     ELSE buckets[i]]
    BY Zenon DEF MaybeSweep
  <2>2. CASE buckets' = buckets
    BY <2>2
  <2>3. CASE buckets' = [i \in Ips |-> IF Stale(buckets[i], window[w]) THEN NoBucket
                                      ELSE buckets[i]]
    BY <2>3, Zenon
  <2> QED
    BY <2>1, <2>2, <2>3
<1>2. LimiterTypes'
  <2>1. buckets' \in [Ips -> Bucket \cup {NoBucket}]
    BY DEF MaybeSweep, LimiterInv, LimiterTypes
  <2>2. \A i \in Ips : buckets'[i].window = buckets'[i].last_seen /\ buckets'[i].window <= now
    <3>1. NoBucket.window = 0 /\ NoBucket.last_seen = 0 /\ 0 <= now
      BY LimitAssumption DEF LimiterInv, LimiterTypes, NoBucket, Windows
    <3> QED
      BY <1>1, <3>1 DEF LimiterInv, LimiterTypes
  <2>3. step' \in [Workers -> {"idle", "count", "sweep"}]
    BY DEF MaybeSweep, LimiterInv, LimiterTypes
  <2>4. sweeps' \in Nat
    BY DEF MaybeSweep, LimiterInv, LimiterTypes
  <2> QED
    BY <1>0, <2>1, <2>2, <2>3, <2>4 DEF LimiterInv, LimiterTypes
<1>3. ASSUME Limit < MaxU32, NEW i \in Ips, NEW s \in Windows PROVE Account(i, s)'
  <2>0. /\ Account(i, s) /\ late[i] \in Nat /\ admitted[i][s] \in Nat /\ Limit \in Nat
        /\ Limit * late[i] \in Nat /\ s \in Nat /\ now \in Nat
    <3>1. Account(i, s) /\ late[i] \in Nat /\ admitted[i][s] \in Nat
      BY <1>3 DEF LimiterInv, LimiterTypes
    <3>2. s \in Nat /\ now \in Nat /\ Limit \in Nat
      BY LimitAssumption DEF Windows, LimiterInv, LimiterTypes
    <3> QED
      BY <3>1, <3>2, OneMore
  <2>1. CASE buckets'[i] = buckets[i]
    BY <1>0, <2>0, <2>1 DEF Account, CountsFor, Granted
  <2>2. CASE buckets'[i] = NoBucket /\ Stale(buckets[i], window[w])
    <3>1. buckets[i].last_seen < window[w] /\ window[w] <= now
      <4>1. buckets[i].last_seen \in Nat /\ window[w] \in Nat /\ window[w] <= now /\ Ttl \in Nat
        BY LimitAssumption DEF LimiterInv, LimiterTypes, Bucket, NoBucket, Windows
      <4> QED
        BY <2>0, <2>2, <4>1 DEF Stale
    <3>2. CountsFor(i, s) => s < now
      BY <2>0, <3>1 DEF CountsFor, LimiterInv, LimiterTypes, Bucket, Windows
    <3>3. CountsFor(i, s) => Granted(i) \in Nat /\ Granted(i) <= Limit
      BY <2>0 DEF CountsFor, Granted, LimiterInv, LimiterTypes, Bucket
    <3>4. ~CountsFor(i, s)'
      BY <2>2 DEF CountsFor
    <3> QED
      BY <1>0, <2>0, <3>2, <3>3, <3>4 DEF Account
  <2> QED
    BY <1>1, <2>1, <2>2
<1> QED
  BY <1>2, <1>3 DEF LimiterInv

\* The inductive invariant of the plugin: an account of the allowances of each window.
THEOREM LimiterInvariance == LimiterSpec => []LimiterInv
<1>1. LimiterInv /\ [LimiterNext]_limiterVars => LimiterInv'
  <2> SUFFICES ASSUME LimiterInv, [LimiterNext]_limiterVars PROVE LimiterInv'
    OBVIOUS
  <2>1. CASE UNCHANGED limiterVars
    BY <2>1 DEF limiterVars, history, LimiterInv, LimiterTypes, Account, CountsFor, Granted
  <2> QED
    BY <2>1, QuietInv, AllowInv, SweepInv DEF LimiterNext
<1> QED
  BY <1>1, LimiterInitInv, PTL DEF LimiterSpec

\* No window admits more than the limit, and the limit once more for every request of
\* the client that a worker has counted too late.
THEOREM LimitTheorem == LimiterSpec => []LimitUpToLate
<1>1. LimiterInv => LimitUpToLate
  <2> SUFFICES ASSUME LimiterInv, Limit < MaxU32, NEW i \in Ips, NEW s \in Windows
               PROVE  admitted[i][s] <= Limit * (1 + late[i])
    BY DEF LimitUpToLate
  <2>1. /\ Account(i, s) /\ late[i] \in Nat /\ admitted[i][s] \in Nat /\ Limit \in Nat
        /\ Limit * late[i] \in Nat /\ Limit * (1 + late[i]) = Limit * late[i] + Limit
    BY OneMore, LimitAssumption DEF LimiterInv, LimiterTypes
  <2>2. CountsFor(i, s) => Granted(i) \in Nat /\ Granted(i) <= Limit
    BY <2>1 DEF CountsFor, Granted, LimiterInv, LimiterTypes, Bucket
  <2> QED
    BY <2>1, <2>2 DEF Account
<1> QED
  BY <1>1, LimiterInvariance, PTL

\* The state of the limiter keeps its types; no bucket and no worker is ahead of the
\* clock, whichever worker is late.
THEOREM LimiterTypeTheorem == LimiterSpec => []LimiterTypeOK
<1>1. LimiterInv => LimiterTypeOK
  BY DEF LimiterInv, LimiterTypes, LimiterTypeOK
<1> QED
  BY <1>1, LimiterInvariance, PTL
=============================================================================
