----------------------------- MODULE RateLimit ------------------------------
(***************************************************************************)
(* The rate-limit plugin (extensions/rate-limit/src/lib.rs): a bucket per  *)
(* client address that counts the requests of one window of a second.      *)
(*                                                                         *)
(* allow_request reads the clock before it takes the lock, so that workers *)
(* can count in another order than they read the clock; maybe_sweep takes  *)
(* the lock once more.                                                     *)
(***************************************************************************)
EXTENDS Naturals, FiniteSets

CONSTANTS Workers,       \* requests that are in the plugin at the same time
          Ips,           \* client addresses
          Limit,         \* max_requests_per_second
          MaxU32,        \* largest value of the u32 that counts
          Ttl,           \* BUCKET_TTL_SECS
          SweepInterval, \* SWEEP_INTERVAL_REQUESTS
          MaxWindow,     \* bound: seconds
          MaxRequests    \* bound: requests

\* RateLimitPluginFactory::build
ASSUME LimitAssumption ==
  /\ Limit \in 1 .. MaxU32
  /\ {MaxU32, Ttl, MaxWindow, MaxRequests} \subseteq Nat /\ SweepInterval \in Nat \ {0}

VARIABLES now,      \* seconds since started_at
          buckets,  \* the buckets, NoBucket where there is none
          sweeps,   \* requests_since_sweep
          step, ip, window, \* of each worker: its step, client and current_window
          admitted, \* history: requests admitted, by client and window
          late      \* history: requests counted after the end of their window

history == <<admitted, late>>
limiterVars == <<now, buckets, sweeps, step, ip, window, history>>

Windows == 0 .. MaxWindow
Bucket == [window : Windows, count : 0 .. MaxU32, last_seen : Windows]
NoBucket == [window |-> 0, count |-> MaxU32 + 1, last_seen |-> 0]

LimiterInit ==
  /\ now = 0
  /\ buckets = [i \in Ips |-> NoBucket]
  /\ sweeps = 0
  /\ step = [w \in Workers |-> "idle"]
  /\ ip \in [Workers -> Ips]
  /\ window = [w \in Workers |-> 0]
  /\ admitted = [i \in Ips |-> [s \in Windows |-> 0]]
  /\ late = [i \in Ips |-> 0]

\* on_request with a client address; without one the request is not limited.
\* current_window reads the clock.
CurrentWindow(w, i) ==
  /\ step[w] = "idle"
  /\ sweeps + Cardinality({v \in Workers : step[v] # "idle"}) < MaxRequests
  /\ step' = [step EXCEPT ![w] = "count"]
  /\ ip' = [ip EXCEPT ![w] = i]
  /\ window' = [window EXCEPT ![w] = now]
  /\ UNCHANGED <<now, buckets, sweeps, history>>

SaturatingAdd(n) == IF n = MaxU32 THEN n ELSE n + 1

\* A bucket of another window, earlier or later, starts anew.
Restarts(w) == buckets[ip[w]] = NoBucket \/ buckets[ip[w]].window # window[w]

\* allow_request, under the lock.
AllowRequest(w) ==
  LET i == ip[w]
      old == IF Restarts(w) THEN 0 ELSE buckets[i].count
      new == [window |-> window[w], count |-> SaturatingAdd(old), last_seen |-> window[w]]
      allowed == new.count <= Limit
  IN /\ step[w] = "count"
     /\ step' = [step EXCEPT ![w] = "sweep"]
     /\ buckets' = [buckets EXCEPT ![i] = new]
     /\ admitted' = IF allowed THEN [admitted EXCEPT ![i][window[w]] = @ + 1] ELSE admitted
     /\ late' = IF window[w] < now THEN [late EXCEPT ![i] = @ + 1] ELSE late
     /\ UNCHANGED <<now, sweeps, ip, window>>

\* Fault: the comparison is the wrong way round.
StaleInverted(b, current) == b.last_seen >= current - (IF current < Ttl THEN current ELSE Ttl)

\* retain drops what has not been seen for longer than the TTL (saturating_sub).
Stale(b, current) == b.last_seen < current - (IF current < Ttl THEN current ELSE Ttl)

MaybeSweep(w) ==
  /\ step[w] = "sweep"
  /\ step' = [step EXCEPT ![w] = "idle"]
  /\ sweeps' = sweeps + 1
  /\ buckets' = IF sweeps' % SweepInterval # 0 THEN buckets
                ELSE [i \in Ips |-> IF Stale(buckets[i], window[w]) THEN NoBucket
                                    ELSE buckets[i]]
  /\ UNCHANGED <<now, ip, window, history>>

Tick ==
  /\ now < MaxWindow
  /\ now' = now + 1
  /\ UNCHANGED <<buckets, sweeps, step, ip, window, history>>

LimiterNext ==
  \/ Tick
  \/ \E w \in Workers : AllowRequest(w) \/ MaybeSweep(w) \/ \E i \in Ips : CurrentWindow(w, i)

LimiterSpec == LimiterInit /\ [][LimiterNext]_limiterVars

-----------------------------------------------------------------------------
\* The types of the plugin's state; a bucket is never ahead of the clock.
LimiterTypeOK ==
  /\ now \in Windows
  /\ \A i \in Ips : buckets[i] \in Bucket \cup {NoBucket} /\ buckets[i].last_seen <= now
  /\ sweeps \in Nat
  /\ step \in [Workers -> {"idle", "count", "sweep"}] /\ ip \in [Workers -> Ips]
  /\ \A w \in Workers : window[w] <= now
  /\ admitted \in [Ips -> [Windows -> Nat]]
  /\ late \in [Ips -> Nat]

\* "Per-IP fixed one-second window", and the most a client can gain from races and
\* sweeps: a window admits no more requests than the limit, and the limit once more for
\* each request of the client that was counted after the end of its window.  A limit that
\* the counter cannot exceed is none.
LimitUpToLate ==
  Limit < MaxU32 =>
    \A i \in Ips : \A s \in Windows : admitted[i][s] <= Limit * (1 + late[i])
=============================================================================
