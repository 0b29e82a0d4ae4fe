------------------------------ MODULE ScpCache ------------------------------
(***************************************************************************)
(* The discovery cache of an SCP profile (upstreams/scp.rs: discovered,    *)
(* maintain and the lookup of route) and the owned refresh tasks of its    *)
(* groups (refresh_scp and start_scp_refresh of upstreams/runtime/         *)
(* groups.rs).                                                             *)
(*                                                                         *)
(* A group is an Arc: its strong count is the number of holders, which are *)
(* the cache entry, waiting requests, exchanges, the refresh task and the  *)
(* list maintain works through.  The cache may drop an entry only while it *)
(* is the single holder.  What a refresh does to a group is in             *)
(* NrfDiscovery; here it may turn the group's scp_status on or off.        *)
(***************************************************************************)
EXTENDS Naturals, FiniteSets

CONSTANTS Requests, Keys,
          Ids,        \* names for the groups in memory, positive numbers
          MaxEntries, \* MAX_CACHE_ENTRIES
          IdleTtl,    \* IDLE_TTL, in passes of the background loop
          MaxNotify   \* bound: refresh tasks of a group that are about to notify

ASSUME IdsAssumption == Ids \subseteq Nat \ {0}
ASSUME LimitsAssumption ==
  MaxEntries \in Nat \ {0} /\ IdleTtl \in Nat \ {0} /\ MaxNotify \in Nat

VARIABLES cache,      \* the group of each key, 0 when the key is not cached
          idle,       \* time since last_used, up to IdleTtl
          key,        \* the key a group was created for
          usable,     \* scp_status of a group is Ok
          refreshing, \* scp_refreshing: "no", or the progress of its task
          notifying,  \* tasks that have cleared the flag and not yet notified
          pc, ref,    \* step of a request and the Arc it holds, 0 for none
          enabled,    \* its Notified future is enabled
          woken,      \* ... and has been notified
          todo        \* groups that maintain has still to refresh

groups == <<key, usable, refreshing, notifying>>
requests == <<pc, ref, enabled, woken>>
vars == <<cache, idle, groups, requests, todo>>

Cached == {k \in Keys : cache[k] # 0}

\* Someone besides the cache holds the group: Arc::strong_count > 1.
Shared(g) ==
  /\ g # 0
  /\ \/ \E q \in Requests : ref[q] = g
     \/ refreshing[g] # "no" \/ notifying[g] > 0
     \/ g \in todo

InUse(g) == Shared(g) \/ \E k \in Keys : cache[k] = g

Init ==
  /\ cache = [k \in Keys |-> 0]
  /\ idle = [k \in Keys |-> 0]
  /\ key \in [Ids -> Keys]
  /\ usable = [g \in Ids |-> FALSE]
  /\ refreshing = [g \in Ids |-> "no"]
  /\ notifying = [g \in Ids |-> 0]
  /\ pc = [q \in Requests |-> "idle"]
  /\ ref = [q \in Requests |-> 0]
  /\ enabled = [q \in Requests |-> FALSE]
  /\ woken = [q \in Requests |-> FALSE]
  /\ todo = {}

-----------------------------------------------------------------------------
\* The request is answered or its client goes away; its Arcs are dropped.
End(q) ==
  /\ pc' = [pc EXCEPT ![q] = "idle"]
  /\ ref' = [ref EXCEPT ![q] = 0]
  /\ enabled' = [enabled EXCEPT ![q] = FALSE]
  /\ woken' = [woken EXCEPT ![q] = FALSE]

Take(q, g) ==
  /\ pc' = [pc EXCEPT ![q] = "check"]
  /\ ref' = [ref EXCEPT ![q] = g]
  /\ UNCHANGED <<enabled, woken>>

\* Fault: the least recently used entry goes, whoever holds it.
EvictableAnyone == Cached

\* The entries discovered may drop to make room: nobody else holds the group.
Evictable == {k \in Cached : ~Shared(cache[k])}

LeastRecentlyUsed(ks) == {k \in ks : \A j \in ks : idle[j] <= idle[k]}

Full == Cardinality(Cached) = MaxEntries

\* discovered, under the cache lock: a hit ...
Hit(q, k) ==
  /\ pc[q] = "idle"
  /\ cache[k] # 0
  /\ idle' = [idle EXCEPT ![k] = 0]
  /\ Take(q, cache[k])
  /\ UNCHANGED <<cache, groups, todo>>

\* ... or a miss, which may have to evict an entry first.  When the new group
\* cannot be constructed the evicted entry is gone all the same.
Miss(q, k) ==
  /\ pc[q] = "idle"
  /\ cache[k] = 0
  /\ \E evict \in IF Full THEN {{e} : e \in LeastRecentlyUsed(Evictable)} ELSE {{}} :
       LET kept == [j \in Keys |-> IF j \in evict THEN 0 ELSE cache[j]]
       IN \/ \E g \in {i \in Ids : ~InUse(i)} :
               /\ cache' = [kept EXCEPT ![k] = g]
               /\ idle' = [idle EXCEPT ![k] = 0]
               /\ key' = [key EXCEPT ![g] = k]
               /\ usable' = [usable EXCEPT ![g] = FALSE]
               /\ Take(q, g)
          \/ cache' = kept /\ UNCHANGED <<idle, key, usable>> /\ UNCHANGED requests
  /\ UNCHANGED <<refreshing, notifying, todo>>

\* SCP_CONGESTION: every entry is in use.
Congested(q, k) ==
  /\ pc[q] = "idle"
  /\ cache[k] = 0 /\ Full /\ Evictable = {}
  /\ UNCHANGED vars

\* route, for a target without discovery: the entries that know the target are
\* touched, in hash order, until one of them can select it.
DirectRoute(q) ==
  /\ pc[q] = "idle"
  /\ \E known \in (SUBSET Cached) \ {{}} :
       /\ idle' = [k \in Keys |-> IF k \in known THEN 0 ELSE idle[k]]
       /\ \/ \E k \in known : /\ usable[cache[k]]
                              /\ pc' = [pc EXCEPT ![q] = "exchange"]
                              /\ ref' = [ref EXCEPT ![q] = cache[k]]
          \/ UNCHANGED <<pc, ref>> \* unreachable
  /\ UNCHANGED <<cache, groups, enabled, woken, todo>>

\* scp_status decides whether the request has to wait for a refresh.
CheckStatus(q) ==
  /\ pc[q] = "check"
  /\ pc' = [pc EXCEPT ![q] = IF usable[ref[q]] THEN "recheck" ELSE "subscribe"]
  /\ UNCHANGED <<cache, idle, groups, ref, enabled, woken, todo>>

\* start_scp_refresh: the compare_exchange admits one task per group.
StartRefresh(g) ==
  refreshing' = [refreshing EXCEPT ![g] = IF @ = "no" THEN "run" ELSE @]

\* Fault: refresh_scp starts the refresh before its Notified future is enabled.
SubscribeLate(q) ==
  \/ /\ pc[q] = "subscribe"
     /\ StartRefresh(ref[q])
     /\ pc' = [pc EXCEPT ![q] = "late"]
     /\ UNCHANGED <<cache, idle, key, usable, notifying, ref, enabled, woken, todo>>
  \/ /\ pc[q] = "late"
     /\ pc' = [pc EXCEPT ![q] = "wait"]
     /\ enabled' = [enabled EXCEPT ![q] = TRUE]
     /\ UNCHANGED <<cache, idle, groups, ref, woken, todo>>

\* refresh_scp: the Notified future is enabled ...
Subscribe(q) ==
  /\ pc[q] = "subscribe"
  /\ pc' = [pc EXCEPT ![q] = "start"]
  /\ enabled' = [enabled EXCEPT ![q] = TRUE]
  /\ UNCHANGED <<cache, idle, groups, ref, woken, todo>>

\* ... then the refresh is started, or joined, and awaited.
Start(q) ==
  /\ pc[q] = "start"
  /\ StartRefresh(ref[q])
  /\ pc' = [pc EXCEPT ![q] = "wait"]
  /\ UNCHANGED <<cache, idle, key, usable, notifying, ref, enabled, woken, todo>>

Awake(q) ==
  /\ pc[q] = "wait"
  /\ woken[q]
  /\ pc' = [pc EXCEPT ![q] = "recheck"]
  /\ enabled' = [enabled EXCEPT ![q] = FALSE]
  /\ woken' = [woken EXCEPT ![q] = FALSE]
  /\ UNCHANGED <<cache, idle, groups, ref, todo>>

\* The request proceeds to its exchange with the group or fails.
Recheck(q) ==
  /\ pc[q] = "recheck"
  /\ \/ /\ usable[ref[q]]
        /\ pc' = [pc EXCEPT ![q] = "exchange"]
        /\ UNCHANGED <<ref, enabled, woken>>
     \/ End(q)
  /\ UNCHANGED <<cache, idle, groups, todo>>

\* The wait times out, the client disconnects, or the exchange is over.
Leave(q) ==
  /\ pc[q] \in {"wait", "exchange"}
  /\ End(q)
  /\ UNCHANGED <<cache, idle, groups, todo>>

-----------------------------------------------------------------------------
(* The refresh task of a group *)

\* The health check and the discovery run; scp_status may change with the result.
Refresh(g) ==
  /\ refreshing[g] = "run"
  /\ \E ok \in BOOLEAN : usable' = [usable EXCEPT ![g] = ok]
  /\ refreshing' = [refreshing EXCEPT ![g] = "done"]
  /\ UNCHANGED <<cache, idle, key, notifying, requests, todo>>

\* scp_refreshing.store(false): from here on another task can be started.
Clear(g) ==
  /\ refreshing[g] = "done"
  /\ notifying[g] < MaxNotify
  /\ refreshing' = [refreshing EXCEPT ![g] = "no"]
  /\ notifying' = [notifying EXCEPT ![g] = @ + 1]
  /\ UNCHANGED <<cache, idle, key, usable, requests, todo>>

\* notify_waiters wakes the futures that are enabled; the task's Arc is dropped.
Notify(g) ==
  /\ notifying[g] > 0
  /\ notifying' = [notifying EXCEPT ![g] = @ - 1]
  /\ woken' = [q \in Requests |-> woken[q] \/ (ref[q] = g /\ enabled[q])]
  /\ UNCHANGED <<cache, idle, key, usable, refreshing, pc, ref, enabled, todo>>

\* The window of the last result ends.
Expire(g) ==
  /\ usable[g]
  /\ usable' = [usable EXCEPT ![g] = FALSE]
  /\ UNCHANGED <<cache, idle, key, refreshing, notifying, requests, todo>>

-----------------------------------------------------------------------------
(* maintain *)

Keep(k) == idle[k] < IdleTtl \/ Shared(cache[k])

\* Fault: the refreshes are started before the idle entries are dropped.
MaintainRefreshFirst ==
  /\ todo = {}
  /\ refreshing' = [g \in Ids |->
       IF refreshing[g] = "no" /\ \E k \in Cached : cache[k] = g THEN "run"
       ELSE refreshing[g]]
  /\ cache' = [k \in Keys |->
       IF cache[k] # 0 /\ idle[k] >= IdleTtl /\ refreshing'[cache[k]] = "no"
       THEN 0 ELSE cache[k]]
  /\ UNCHANGED <<idle, key, usable, notifying, requests, todo>>

\* Idle entries that nobody holds are dropped, and the rest is cloned, under the
\* cache lock ...
Maintain ==
  /\ todo = {}
  /\ cache' = [k \in Keys |-> IF cache[k] # 0 /\ Keep(k) THEN cache[k] ELSE 0]
  /\ todo' = {cache'[k] : k \in Keys} \ {0}
  /\ UNCHANGED <<idle, groups, requests>>

\* ... then each of them is refreshed.
MaintainStep(g) ==
  /\ g \in todo
  /\ StartRefresh(g)
  /\ todo' = todo \ {g}
  /\ UNCHANGED <<cache, idle, key, usable, notifying, requests>>

Tick ==
  /\ idle' = [k \in Keys |-> IF idle[k] < IdleTtl THEN idle[k] + 1 ELSE idle[k]]
  /\ UNCHANGED <<cache, groups, requests, todo>>

-----------------------------------------------------------------------------
Task(g) == Refresh(g) \/ Clear(g) \/ Notify(g)
Walk(q) == CheckStatus(q) \/ Subscribe(q) \/ Start(q) \/ Awake(q) \/ Recheck(q)

Next ==
  \/ \E q \in Requests :
       \/ \E k \in Keys : Hit(q, k) \/ Miss(q, k) \/ Congested(q, k)
       \/ DirectRoute(q) \/ Walk(q) \/ Leave(q)
  \/ \E g \in Ids : Task(g) \/ Expire(g) \/ MaintainStep(g)
  \/ Maintain \/ Tick

\* Started tasks finish, since health checks and NRF requests have timeouts;
\* requests run, the loop comes back every second and the clock moves.  Nothing
\* forces a wait to time out or an exchange to end.
Fairness ==
  /\ \A g \in Ids :
       /\ WF_vars(Refresh(g)) /\ WF_vars(Clear(g)) /\ WF_vars(Notify(g))
       /\ WF_vars(MaintainStep(g))
  /\ \A q \in Requests : WF_vars(Walk(q))
  /\ WF_vars(Maintain) /\ WF_vars(Tick)

Spec == Init /\ [][Next]_vars /\ Fairness

-----------------------------------------------------------------------------
\* The types of the cache, of the groups and of the requests.
TypeOK ==
  /\ cache \in [Keys -> Ids \cup {0}]
  /\ idle \in [Keys -> 0 .. IdleTtl]
  /\ key \in [Ids -> Keys]
  /\ usable \in [Ids -> BOOLEAN]
  /\ refreshing \in [Ids -> {"no", "run", "done"}]
  /\ notifying \in [Ids -> 0 .. MaxNotify]
  /\ pc \in [Requests ->
              {"idle", "check", "subscribe", "start", "wait", "recheck", "exchange"}]
  /\ ref \in [Requests -> Ids \cup {0}]
  /\ enabled \in [Requests -> BOOLEAN]
  /\ woken \in [Requests -> BOOLEAN]
  /\ todo \subseteq Ids

\* "Identical queries share an owned refresh": the group anyone works with, or a
\* task refreshes, is the one the cache holds for its query, so there are never
\* two refreshes of the same query and a result is never put into a group that
\* later requests do not see.
OneGroupPerKey ==
  \A g \in Ids : Shared(g) => cache[key[g]] = g

\* No wake-up is lost: while a request waits, a task is on its way that will
\* notify it.
WaiterHasTask ==
  \A q \in Requests : pc[q] = "wait" /\ ~woken[q] =>
    refreshing[ref[q]] # "no" \/ notifying[ref[q]] > 0

\* "Unused cache entries expire after five minutes": an entry that is neither
\* looked up again nor held by an exchange or a waiting request is dropped,
\* although maintain keeps starting refreshes of it.  Excluded are behaviours in
\* which, pass after pass, a refresh ends just between the moment maintain finds it
\* running and the moment it starts the next one.
UnusedExpire ==
  \A k \in Keys :
    []<>(todo = {} /\ ~Shared(cache[k])) =>
      []<>(cache[k] = 0 \/ idle[k] = 0 \/ \E q \in Requests : ref[q] = cache[k])
=============================================================================
