---------------------------- MODULE ResponseCache ----------------------------
(***************************************************************************)
(* The shared response cache (crates/ngxora-runtime/src/cache.rs) and the  *)
(* way a proxied request uses it (upstreams/runtime/proxy.rs and           *)
(* completion.rs).                                                         *)
(*                                                                         *)
(* A request loads a snapshot once and works under its generation; the     *)
(* cache follows the generation that is active now.  A cache call takes    *)
(* two locks one after the other: the RwLock around the location table,    *)
(* to find or create the location's Arc, and then the Mutex of that        *)
(* location.  Other requests and reloads run in between, so a request can  *)
(* end up working on a LocationCache that is no longer in the table.       *)
(*                                                                         *)
(* The heap holds every LocationCache, in the order of allocation;         *)
(* locations maps a route to an index in it, 0 when it has none.  Sizes    *)
(* are in units of accounted bytes; a stored response is reduced to its    *)
(* size, its age and the snapshot generation and URI it was produced for.  *)
(***************************************************************************)
EXTENDS Integers, FiniteSets, FiniteSetsExt

CONSTANTS Requests, Routes, Uris,
          KeySize,        \* CacheKey::estimated_size by URI
          CountSize,      \* the 64 units a MissCount adds to its key
          ResponseSizes,  \* CachedResponse::estimated_size of an answer
          MaxSize,        \* CacheBackend::max_size of the location
          Ttl, StaleIfError, MinUses,
          SweepInterval,  \* one second
          MaxGeneration, MaxTime, MaxCaches, \* bounds of a run
          None            \* no request

ASSUME SizesAssumption ==
  /\ KeySize \in [Uris -> Nat] /\ CountSize \in Nat /\ MaxSize \in Nat
  /\ ResponseSizes \subseteq Nat
ASSUME TimesAssumption ==
  /\ Ttl \in Nat /\ StaleIfError \in Nat /\ MinUses \in Nat
  /\ SweepInterval \in Nat
ASSUME BoundsAssumption ==
  /\ MaxGeneration \in Nat \ {0} /\ MaxTime \in Nat /\ MaxCaches \in Nat

VARIABLES active,       \* RuntimeState::generation()
          now,
          generation,   \* CacheStores.generation
          locations,    \* CacheStores.locations
          heap,         \* every LocationCache behind an Arc
          allocated,    \* how many of them have been created
          pc, op,       \* step and current cache call of each request
          ctx,          \* snapshot generation, route and URI of the request
          target,       \* the generation advance_generation was called with
          ref,          \* the Arc the current call holds
          allowed,      \* ctx.cache_store_allowed
          buffered,     \* size of the buffered response, 0 when there is none
          stamp,        \* created_at of the response being stored
          served,       \* the cached response given to the client
          misses        \* History: misses recorded per key, up to MinUses

stores == <<generation, locations, heap, allocated>>
requests == <<pc, op, ctx, target, ref, allowed, buffered, stamp, served>>
vars == <<active, now, stores, requests, misses>>

Keys == [generation : 0 .. MaxGeneration, route : Routes, uri : Uris]

\* Fault: the key carries the generation that is active when it is built.
KeyOfActiveGeneration(c) ==
  [generation |-> active, route |-> c.route, uri |-> c.uri]

\* build_cache_key: the key carries the generation of the request's snapshot.
BuildCacheKey(c) ==
  [generation |-> c.generation, route |-> c.route, uri |-> c.uri]

-----------------------------------------------------------------------------
(* LocationCache *)

EntrySize(e) == KeySize[e.key.uri] + e.size
CountCost(c) == KeySize[c.key.uri] + CountSize

NewLocationCache ==
  [entries |-> {}, counts |-> {}, current_size |-> 0, last_sweep |-> now]

\* Removing responses and counters takes their sizes off the account.
Remove(cache, es, cs) ==
  [cache EXCEPT !.entries = @ \ es, !.counts = @ \ cs,
     !.current_size = @ - MapThenSumSet(EntrySize, es)
                        - MapThenSumSet(CountCost, cs)]

\* make_room drops entries in hash order until `size` fits: counters first, then
\* responses, none after it fits.  The set of the caches it may leave behind.
MakeRoom(cache, size) ==
  LET limit == MaxSize - size
      Left(es, cs) == Remove(cache, es, cs).current_size
      OneBack(es, cs) ==
        \/ es # {} /\ \E e \in es : Left(es \ {e}, cs) > limit
        \/ es = {} /\ \E c \in cs : Left(es, cs \ {c}) > limit
  IN {Remove(cache, x[1], x[2]) :
        x \in {y \in (SUBSET cache.entries) \X (SUBSET cache.counts) :
                 /\ y[1] # {} => y[2] = cache.counts
                 /\ y = <<{}, {}>> \/ OneBack(y[1], y[2])
                 /\ \/ Left(y[1], y[2]) <= limit
                    \/ y = <<cache.entries, cache.counts>>}}

EvictStale(cache) ==
  LET es == {e \in cache.entries : now - e.created_at >= Ttl + StaleIfError}
      cs == {c \in cache.counts : now - c.last_seen >= Ttl}
  IN [Remove(cache, es, cs) EXCEPT !.last_sweep = now]

SyncLimits(cache) ==
  MakeRoom(IF now - cache.last_sweep >= SweepInterval
           THEN EvictStale(cache) ELSE cache, 0)

CountOf(cache, key) == {c \in cache.counts : c.key = key}
EntryOf(cache, key) == {e \in cache.entries : e.key = key}

\* LocationCache::record_miss: the caches it may leave behind, each with its
\* answer to "may this response be stored".
RecordMiss(cache, key) ==
  IF MinUses <= 1 THEN {<<cache, TRUE>>}
  ELSE IF CountOf(cache, key) # {}
  THEN LET old == CHOOSE c \in CountOf(cache, key) : TRUE
           \* capped: the count is only ever compared with MinUses
           n == IF now - old.last_seen >= Ttl THEN 1
                ELSE IF old.count < MinUses THEN old.count + 1 ELSE old.count
           new == [key |-> key, count |-> n, last_seen |-> now]
       IN {<<[cache EXCEPT !.counts = (@ \ {old}) \cup {new}], n >= MinUses>>}
  ELSE LET new == [key |-> key, count |-> 1, last_seen |-> now]
           size == CountCost(new)
       IN IF size > MaxSize THEN {<<cache, FALSE>>}
          ELSE {<<[c EXCEPT !.counts = @ \cup {new}, !.current_size = @ + size],
                  FALSE>> : c \in MakeRoom(cache, size)}

\* Fault: the response that is replaced stays on the account.
PutOverwriting(cache, key, size, created, origin) ==
  LET cleared == Remove(cache, {}, CountOf(cache, key))
      new == [key |-> key, size |-> size, created_at |-> created, origin |-> origin]
  IN IF EntrySize(new) > MaxSize THEN {cleared}
     ELSE {[c EXCEPT !.entries = (@ \ EntryOf(c, key)) \cup {new},
              !.current_size = @ + EntrySize(new)] :
             c \in MakeRoom(cleared, EntrySize(new))}

\* LocationCache::put
Put(cache, key, size, created, origin) ==
  LET cleared == Remove(cache, EntryOf(cache, key), CountOf(cache, key))
      new == [key |-> key, size |-> size, created_at |-> created, origin |-> origin]
  IN IF EntrySize(new) > MaxSize THEN {cleared}
     ELSE {[c EXCEPT !.entries = @ \cup {new},
              !.current_size = @ + EntrySize(new)] :
             c \in MakeRoom(cleared, EntrySize(new))}

-----------------------------------------------------------------------------
Init ==
  /\ active = 1
  /\ now = 0
  /\ generation = 0
  /\ locations = [r \in Routes |-> 0]
  /\ heap = [i \in 1 .. MaxCaches |-> NewLocationCache]
  /\ allocated = 0
  /\ pc = [q \in Requests |-> "idle"]
  /\ op = [q \in Requests |-> "none"]
  /\ ctx = [q \in Requests |-> None]
  /\ target = [q \in Requests |-> 0]
  /\ ref = [q \in Requests |-> 0]
  /\ allowed = [q \in Requests |-> FALSE]
  /\ buffered = [q \in Requests |-> 0]
  /\ stamp = [q \in Requests |-> 0]
  /\ served = [q \in Requests |-> {}]
  /\ misses = [k \in Keys |-> 0]

At(q, step, call) == pc[q] = step /\ op[q] = call

Goto(q, step, call) ==
  /\ pc' = [pc EXCEPT ![q] = step]
  /\ op' = [op EXCEPT ![q] = call]

\* apply_snapshot stores a snapshot of the next generation (RuntimeControl).
Apply ==
  /\ active < MaxGeneration
  /\ active' = active + 1
  /\ UNCHANGED <<now, stores, requests, misses>>

Tick ==
  /\ now < MaxTime
  /\ now' = now + 1
  /\ UNCHANGED <<active, stores, requests, misses>>

\* request_filter: the snapshot is loaded; every later step uses its generation.
Begin(q) ==
  /\ pc[q] = "idle"
  /\ \E r \in Routes, u \in Uris :
       ctx' = [ctx EXCEPT ![q] = [generation |-> active, route |-> r, uri |-> u]]
  /\ Goto(q, "advance", "get")
  /\ UNCHANGED <<active, now, stores, target, ref, allowed, buffered, stamp,
                 served, misses>>

\* The request is over and its context is dropped.
Finish(q) ==
  /\ Goto(q, "idle", "none")
  /\ ctx' = [ctx EXCEPT ![q] = None]
  /\ ref' = [ref EXCEPT ![q] = 0]
  /\ allowed' = [allowed EXCEPT ![q] = FALSE]
  /\ buffered' = [buffered EXCEPT ![q] = 0]
  /\ stamp' = [stamp EXCEPT ![q] = 0]
  /\ served' = [served EXCEPT ![q] = {}]

\* Where advance_generation returns to: the next cache call, the completion of a
\* request that failed, or the end.  A response is stamped just before its put.
AfterAdvance(q) ==
  \/ op[q] = "end" /\ Finish(q)
  \/ /\ op[q] = "abort"
     /\ Goto(q, "advance", "end")
     /\ UNCHANGED <<ctx, ref, allowed, buffered, stamp, served>>
  \/ /\ op[q] \notin {"end", "abort"}
     /\ Goto(q, "store", op[q])
     /\ stamp' = [stamp EXCEPT ![q] = IF op[q] = "put" THEN now ELSE 0]
     /\ UNCHANGED <<ctx, ref, allowed, buffered, served>>

\* advance_generation(state.generation()): the check under the read lock ...
AdvanceCheck(q) ==
  /\ pc[q] = "advance"
  /\ \/ active <= generation /\ AfterAdvance(q) /\ UNCHANGED target
     \/ /\ active > generation
        /\ target' = [target EXCEPT ![q] = active]
        /\ Goto(q, "advance_write", op[q])
        /\ UNCHANGED <<ctx, ref, allowed, buffered, stamp, served>>
  /\ UNCHANGED <<active, now, stores, misses>>

\* ... and again under the write lock: all routes are retired together.
AdvanceWrite(q) ==
  /\ pc[q] = "advance_write"
  /\ IF target[q] > generation
     THEN /\ locations' = [r \in Routes |-> 0]
          /\ generation' = target[q]
     ELSE UNCHANGED <<locations, generation>>
  /\ target' = [target EXCEPT ![q] = 0]
  /\ AfterAdvance(q)
  /\ UNCHANGED <<active, now, heap, allocated, misses>>

\* What a call does when store() returns None.
NoStore(q) ==
  \/ op[q] = "put" /\ Finish(q)
  \/ /\ \/ op[q] = "get" /\ Goto(q, "store", "miss")
        \/ op[q] = "miss" /\ Goto(q, "upstream", "none")
        \/ op[q] = "stale" /\ Goto(q, "advance", "end")
     /\ UNCHANGED <<ctx, ref, allowed, buffered, stamp, served>>

\* The call goes on with the Arc it was given.
WithStore(q, loc) ==
  /\ ref' = [ref EXCEPT ![q] = loc]
  /\ Goto(q, "lock", op[q])
  /\ UNCHANGED <<ctx, allowed, buffered, stamp, served>>

\* The request never asks the cache: it is not cacheable, or a request plugin or
\* the body limit answers it.
Bypass(q) ==
  /\ At(q, "store", "get")
  /\ Goto(q, "advance", "end")
  /\ UNCHANGED <<active, now, stores, ctx, target, ref, allowed, buffered, stamp,
                 served, misses>>

Retired(q) == BuildCacheKey(ctx[q]).generation < generation

\* CacheBackend::store under the read lock.
StoreRead(q) ==
  /\ pc[q] = "store"
  /\ LET loc == locations[ctx[q].route]
     IN \/ ~Retired(q) /\ loc # 0 /\ WithStore(q, loc)
        \/ /\ ~Retired(q) /\ loc = 0 /\ op[q] \in {"miss", "put"}
           /\ Goto(q, "create", op[q])
           /\ UNCHANGED <<ctx, ref, allowed, buffered, stamp, served>>
        \/ /\ Retired(q) \/ (loc = 0 /\ op[q] \notin {"miss", "put"})
           /\ NoStore(q)
  /\ UNCHANGED <<active, now, stores, target, misses>>

\* Fault: the generation is not checked again under the write lock.
StoreCreateUnchecked(q) ==
  /\ pc[q] = "create"
  /\ LET r == ctx[q].route
     IN \/ /\ locations[r] # 0
           /\ WithStore(q, locations[r])
           /\ UNCHANGED <<locations, heap, allocated>>
        \/ /\ locations[r] = 0
           /\ allocated < MaxCaches
           /\ allocated' = allocated + 1
           /\ heap' = [heap EXCEPT ![allocated'] = NewLocationCache]
           /\ locations' = [locations EXCEPT ![r] = allocated']
           /\ WithStore(q, allocated')
  /\ UNCHANGED <<active, now, generation, target, misses>>

\* CacheBackend::store under the write lock.  Another request may have created
\* the location, or retired the generation, since the read lock was released.
StoreCreate(q) ==
  /\ pc[q] = "create"
  /\ LET r == ctx[q].route
     IN \/ /\ Retired(q)
           /\ NoStore(q)
           /\ UNCHANGED <<locations, heap, allocated>>
        \/ /\ ~Retired(q) /\ locations[r] # 0
           /\ WithStore(q, locations[r])
           /\ UNCHANGED <<locations, heap, allocated>>
        \/ /\ ~Retired(q) /\ locations[r] = 0
           /\ allocated < MaxCaches
           /\ allocated' = allocated + 1
           /\ heap' = [heap EXCEPT ![allocated'] = NewLocationCache]
           /\ locations' = [locations EXCEPT ![r] = allocated']
           /\ WithStore(q, allocated')
  /\ UNCHANGED <<active, now, generation, target, misses>>

\* A cached response reaches the client.
Serve(q, e) == served' = [served EXCEPT ![q] = {e.origin}]

\* get: a fresh entry ends the request, anything else is a miss.
GetLocked(q) ==
  /\ At(q, "lock", "get")
  /\ LET fresh == {e \in EntryOf(heap[ref[q]], BuildCacheKey(ctx[q])) :
                     now - e.created_at < Ttl}
     IN \/ fresh = {} /\ Goto(q, "store", "miss") /\ UNCHANGED served
        \/ \E e \in fresh : Serve(q, e) /\ Goto(q, "advance", "end")
  /\ ref' = [ref EXCEPT ![q] = 0]
  /\ UNCHANGED <<active, now, stores, ctx, target, allowed, buffered, stamp, misses>>

MissLocked(q) ==
  LET key == BuildCacheKey(ctx[q])
  IN /\ At(q, "lock", "miss")
     /\ \E c \in SyncLimits(heap[ref[q]]) : \E res \in RecordMiss(c, key) :
          /\ heap' = [heap EXCEPT ![ref[q]] = res[1]]
          /\ allowed' = [allowed EXCEPT ![q] = res[2]]
     /\ misses' = [misses EXCEPT ![key] = IF @ < MinUses THEN @ + 1 ELSE @]
     /\ ref' = [ref EXCEPT ![q] = 0]
     /\ Goto(q, "upstream", "none")
     /\ UNCHANGED <<active, now, generation, locations, allocated, ctx, target, buffered,
                    stamp, served>>

\* Fault: every cacheable response is admitted.
StoreAlwaysAllowed(q) == TRUE

\* cache_store_allowed
CacheStoreAllowed(q) == MinUses <= 1 \/ allowed[q]

\* The upstream answers.  response_filter and response_body_filter buffer the
\* answer while it is cacheable, admitted and within the body limit; the request
\* completes in finish_request.  The limit is what key and header leave of the
\* budget, but not less than 0: an answer without a body is buffered however large
\* its header is, and left to put.
UpstreamAnswers(q) ==
  /\ pc[q] = "upstream"
  /\ \/ \E size \in ResponseSizes :
          /\ CacheStoreAllowed(q)
          /\ buffered' = [buffered EXCEPT ![q] = size]
          /\ Goto(q, "advance", "put")
     \/ /\ Goto(q, "advance", "end") \* not admitted, not cacheable or too large
        /\ UNCHANGED buffered
  /\ UNCHANGED <<active, now, stores, ctx, target, ref, allowed, stamp, served, misses>>

\* The upstream fails before a response was written: fail_to_proxy.
UpstreamFails(q) ==
  /\ pc[q] = "upstream"
  /\ Goto(q, "advance", "stale")
  /\ UNCHANGED <<active, now, stores, ctx, target, ref, allowed, buffered, stamp,
                 served, misses>>

\* The exchange breaks after its header was written, or for a reason on the
\* client's side: fail_to_proxy serves nothing from the cache and finish_request
\* drops the buffer.
ExchangeAborts(q) ==
  /\ pc[q] = "upstream"
  /\ Goto(q, "advance", "abort")
  /\ UNCHANGED <<active, now, stores, ctx, target, ref, allowed, buffered, stamp,
                 served, misses>>

\* get_stale, then the completion of the failed request.
StaleLocked(q) ==
  /\ At(q, "lock", "stale")
  /\ LET usable == {e \in EntryOf(heap[ref[q]], BuildCacheKey(ctx[q])) :
                      now - e.created_at < Ttl + StaleIfError}
     IN \/ usable = {} /\ UNCHANGED served
        \/ \E e \in usable : Serve(q, e)
  /\ ref' = [ref EXCEPT ![q] = 0]
  /\ Goto(q, "advance", "end")
  /\ UNCHANGED <<active, now, stores, ctx, target, allowed, buffered, stamp, misses>>

PutLocked(q) ==
  /\ At(q, "lock", "put")
  /\ \E c \in SyncLimits(heap[ref[q]]) :
       \E c2 \in Put(c, BuildCacheKey(ctx[q]), buffered[q], stamp[q], ctx[q]) :
         heap' = [heap EXCEPT ![ref[q]] = c2]
  /\ Finish(q)
  /\ UNCHANGED <<active, now, generation, locations, allocated, target, misses>>

Next ==
  \/ Apply \/ Tick
  \/ \E q \in Requests :
       \/ Begin(q) \/ Bypass(q) \/ AdvanceCheck(q) \/ AdvanceWrite(q)
       \/ StoreRead(q) \/ StoreCreate(q)
       \/ GetLocked(q) \/ MissLocked(q) \/ StaleLocked(q) \/ PutLocked(q)
       \/ UpstreamAnswers(q) \/ UpstreamFails(q) \/ ExchangeAborts(q)

Spec == Init /\ [][Next]_vars

-----------------------------------------------------------------------------
Steps == {"idle", "advance", "advance_write", "store", "create", "lock", "upstream"}
Calls == {"none", "get", "miss", "stale", "put", "abort", "end"}

\* The types of the location table, of the heap and of a request's context.
TypeOK ==
  /\ active \in 1 .. MaxGeneration
  /\ generation \in 0 .. MaxGeneration
  /\ allocated \in 0 .. MaxCaches
  /\ locations \in [Routes -> 0 .. allocated]
  /\ heap = [i \in 1 .. MaxCaches |-> heap[i]]
  /\ \A i \in 1 .. MaxCaches :
       DOMAIN heap[i] = {"entries", "counts", "current_size", "last_sweep"}
  /\ pc \in [Requests -> Steps]
  /\ op \in [Requests -> Calls]
  /\ ctx \in [Requests -> Keys \cup {None}]
  /\ target \in [Requests -> 0 .. MaxGeneration]
  /\ ref \in [Requests -> 0 .. allocated]
  /\ served \in [Requests -> SUBSET Keys]

KeysOf(cache) == {e.key : e \in cache.entries} \cup {c.key : c \in cache.counts}

\* "Old in-flight requests cannot repopulate retired generations": whatever is
\* reachable through the location table belongs to the table's generation,
\* however late a request of an earlier snapshot completes.
LiveKeysCurrent ==
  \A r \in Routes : locations[r] # 0 =>
    \A k \in KeysOf(heap[locations[r]]) :
      k.generation = generation

\* A cached answer was produced for the same URI under the very snapshot the
\* request runs under, so a reload never serves what older rules let in.
ServedFromOwnSnapshot ==
  \A q \in Requests : served[q] \subseteq {ctx[q]}

\* A reload separates: nothing that was stored under one generation is reachable
\* or served under another.
ReloadIsolates == LiveKeysCurrent /\ ServedFromOwnSnapshot

\* The account of every location, in the table or already retired, equals what it
\* holds and never exceeds proxy_cache_max_size.
BudgetRespected ==
  \A i \in 1 .. MaxCaches :
    LET cache == heap[i]
    IN /\ cache.current_size = MapThenSumSet(EntrySize, cache.entries)
                               + MapThenSumSet(CountCost, cache.counts)
       /\ cache.current_size <= MaxSize

\* A response is stored only after its key missed proxy_cache_min_uses times.
AdmittedAfterMinUses ==
  \A i \in 1 .. MaxCaches : \A e \in heap[i].entries :
    misses[e.key] >= MinUses

\* Retired state is dropped before it can be used: a request that is past its
\* advance_generation works with a table at least as new as its own snapshot, and
\* the table never runs ahead of the active snapshot or backwards.
TableKeepsUp ==
  /\ generation <= active
  /\ \A q \in Requests :
       pc[q] \in {"store", "create", "lock", "upstream"} =>
         ctx[q].generation <= generation

\* The table's generation never goes back: a slow advance_generation with an old
\* argument does not undo a newer one.
GenerationNeverRegresses == [][generation' >= generation]_vars
=============================================================================
