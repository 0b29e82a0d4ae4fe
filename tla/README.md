# TLA+ models of ngxora

ngxora is a reverse proxy on Pingora: an nginx-like configuration or snapshots
from a control plane describe virtual hosts, locations, upstream groups, plugins
and 3GPP service communication proxies (SCPs); the data plane serves requests
from the snapshot that is active when they arrive. This directory models the
parts of it where order, time and failure decide whether it is right, checks them
with TLC on small instances, and proves the most important properties with TLAPS
for every instance.

Paths below are relative to `crates/ngxora-runtime/src/` unless they start with
`crates/`, `sdk/` or `docs/`. `PROJECT.json` maps every definition to the lines
it models.

## Inventory

| Part | State it keeps | Operations | What is hard | What makes it correct |
|---|---|---|---|---|
| Runtime state (`control.rs`, `grpc.rs`) | active snapshot, apply lock, restart fingerprint | `apply_snapshot`, `snapshot` | SIGHUP and gRPC apply concurrently; a build may fail or panic; state is inherited from the predecessor | one atomic register; inherited state belongs to an unchanged configuration |
| Response cache (`cache.rs`, `upstreams/runtime/completion.rs`) | location table and its generation, per location entries, miss counters, byte account | `advance_generation`, `get`, `record_miss`, `get_stale`, `put` | two locks in sequence, requests that outlive their snapshot, eviction in hash order | retired content unreachable; answers from the request's own snapshot; exact account |
| NRF discovery (`upstreams/runtime/groups.rs`, `groups/discovery.rs`) | published endpoints, schedule, failures, expiry | loop pass, request, preflight, publication, failure | expiry races with refresh; backoff; one loop for all plain groups; permits | timely refresh, bounded staleness, recovery |
| Control socket (`grpc/uds.rs`, `grpc/transport.rs`) | socket file, flock, listener, ownership guard | bind, retry, serve, clean up | two processes during an upgrade, crash at any system call | one server, reachable, no leftovers, replacement takes over |
| SCP discovery cache (`upstreams/scp.rs`) | groups by query, last use, refresh flag, waiters | lookup, eviction, refresh task, `maintain` | Arc counts as a lock, notification races | one group per query, no lost wake-up, expiry |
| SCP routing (`upstreams/scp.rs`, `scp/request.rs`) | parsed request, exchange, hop count | parse, route, reselect, retry, forward, answer | loops between SCPs, groups that change between two looks and before a retry | hop budget, never itself, domain kept, request and answer name the backend used |
| Request lifecycle (`upstreams/runtime/{proxy,selection,response,limits}.rs`) | request context | the `ProxyHttp` callbacks | many failure paths, retries, partial bodies | one response, policy first, no replay, limits, complete entries |
| Go client (`sdk/go/client/client.go`) | desired snapshot, status, wake channel | `SetSnapshot`, `Run` | lost and late RPCs, restarts, other writers | Synced is true, convergence |
| Rate limiter (`crates/extensions/rate-limit`) | buckets per address | `on_request`, sweep | clock read before the lock | the limit of a window |
| Route resolution (`upstreams/routing.rs`, `http_routes.rs`) | none (pure) | `resolve_route` | precedence across hosts and kinds of rules, slashes | documented order, whole segments, TLS name binds |
| Backend selection, health checks (`groups/topology.rs`, `selection.rs`, `health.rs`) | topology and health targets of a snapshot, readiness and counts, weights | publish, select, health pass | readiness changes between two reads of one selection; snapshots are replaced between two checks; weights at the limit of u16 | what is passed over was unready or never drawn; health outlives a refresh; recovery; exact shares |
| TLS material, Let's Encrypt (`le.rs`, `server/openssl_listener_tls.rs`) | certificate files, revision | issue, store, activate | crash between two files, activation | a served certificate fits its key (not modelled) |
| Configuration (`crates/ngxora-config`, `crates/ngxora-compile`, `upstreams/compile*`) | none (pure) | parse, include, lower, validate, compile | rules repeated in three places, of which gRPC runs one; inherited options | what is accepted can be served; the two ways in enforce the same rules |
| gRPC codec (`grpc/decode.rs`, `encode.rs`) | none (pure) | decode, encode | zeros that mean "not set", merged virtual hosts, names that are groups or hosts | what is exported is accepted and means the same, up to listed losses |
| Other plugins, GeoIP, admin, metrics, tracing, server assembly | caches of keys, a database, counters | | reload of a file that changes | (not modelled, or output only) |

How they meet: `apply_snapshot` is called by the SIGHUP service
(`crates/ngxora-cli/src/reload.rs`) and by the gRPC handler the Go client talks
to; requests load the active snapshot once and work under its generation; the
response cache compares this generation with its own; background services walk
the groups of the active snapshot; SCP profiles own groups of their own, which
request tasks and the background loop refresh.

## Modules

A module has the name of its part; `MC*` modules only give constants values.

* **RuntimeControl**: `apply_snapshot` with a step for the lock, the fingerprint,
  the load, the build, its failure or panic, the store and the answer; readers
  pin and unpin snapshots. A snapshot records for each group and profile the
  generation its runtime state was created in. `log` is a history of what has
  been active. **SnapshotRegister** is what it promises: calls that take effect
  at one instant between call and answer. `RuntimeControl!CallView` is the
  refinement mapping.
* **ResponseCache**: the table, a heap of `LocationCache`s (an evicted table
  leaves requests with an Arc that is no longer in it), and requests that go
  through get, miss, upstream, put or stale, with a step per lock. Evictions in
  hash order are a choice among all results the loop can have.
* **NrfDiscovery**: instants are kept as the time left until them, so behaviours
  are unbounded in a finite state space. Plain groups are visited by one loop;
  SCP groups have tasks of their own and share permits. `Tick` waits for what is
  due.
* **UdsOwnership**: a step per system call of `bind`, `prepare_path` and `Drop`,
  for processes that start, wait with `--upgrade`, serve, stop or crash, and
  someone who ignores the lock file.
* **ScpCache**: Arc ownership is spelled out (`Shared`); the refresh task runs,
  clears its flag and notifies in three steps.
* **ScpRouting**: one request through several SCPs that know each other, and its
  answer back through them. `route` looks at the group of its query up to three
  times, for the target (`PreferTarget`), at the list of candidates
  (`TargetListed`) and for anything (`SelectAny`), and `retry_connect` once more.
  Nothing is locked in between and a result is published before its candidates are
  listed, so each look is a step that may find any content the query allows.
* **RequestLifecycle**: one request through all callbacks. What plugins,
  upstreams and connections do is a choice. The order of the callbacks, and that
  Pingora retries only before a response has begun, is modelled from how the code
  uses Pingora (external).
* **SyncClient**: `Run` with its wait, the two RPCs of `reconcile`, and a server
  that loses answers, serves an abandoned apply late, crashes, restarts with its
  bootstrap configuration and is written to by others.
* **RateLimit**: workers between clock, lock and sweep. `late` counts requests
  that were counted after the end of their window.
* **Routing**: `resolve_route` as operators, compared with the documented order
  for every input of three families (nginx locations, HTTP rules over three
  hosts, Host header against TLS name).
* **BackendSelection**: an NRF group whose snapshots are published, replaced and
  expire, a registry of health targets that lives as long as a snapshot names the
  target, health passes, and a selection that reads one readiness flag per step,
  first to accept a service and again to choose its endpoint. A pool draws its
  services until one is accepted or the iterations of `NrfServicePool::select` are
  used up; a draw may repeat a service, so one that is ready may never be drawn
  (`missed`). Normalised capacities and the slot of weighted backends are operators. The registry and
  the order in which a pool offers its services are Pingora's (external), modelled
  from the calls and from `groups/tests.rs`.
* **ConfigLower**: directives to the intermediate representation, with every rule
  that rejects one. **RouterCompile**: the intermediate representation to the
  router, and `Ir::validate`. **SnapshotCodec**: `ApplySnapshot` and `GetSnapshot`
  around it. Inputs are families of configurations that differ in one group of
  fields each; names are members of small sets with a given canonical form.
* **\*Proofs**: theorems about the modules they extend.

## Runs

All runs finish within four minutes on two workers. A property that joins two (`AnsweredOnce`,
`BestMatch`, `ReloadIsolates`, `Admissible`, `WindowEnforced`,
`InheritedStateCurrent`, `RoundTrip`) is the conjunction of two named parts of its
module, which are stated and commented there. Operators marked "Fault" are mutated forms of
a definition; no specification uses them, they show that a property can fail.

| Run | Checks | Bounds, and why they are enough |
|---|---|---|
| MCRuntimeControl | `ReadersSeeHistory`, `InheritedStateCurrent`, `ImplementsRegister` | two callers (SIGHUP, gRPC), a reader, three generations, six configurations: changed template, changed unrelated upstream, removed profile, invalid profile, listener change. Two callers are all the code has at a time that can be in the section or wait; three generations let state be dropped and recreated |
| MCResponseCache | `ReloadIsolates`, `BudgetRespected`, `AdmittedAfterMinUses` | two requests, two URIs, a reload, a clock tick, a budget for one response and a counter, `min_uses` 2: every operation has to evict, and a request meets a table before, during and after a reload. One URI has a key so long that its response never fits; such a response still reaches `put` when it has no body |
| MCNrfDiscovery | `WindowEnforced`, `RequestsSpaced`, `NoGapWithoutFailure`, `RecoversAfterOutage` | a plain and an SCP group, validity and stale window of 2 s, outages at any time. One SCP group cannot wait for another one's permit; the competition for permits is modelled and proved about, but not exercised by the run |
| MCUdsOwnership | `OneServer`, `ServingReachable`, `NoLeftover`, `ReplacementServes` | two processes, three inodes (each process's and an outsider's), reuse of inode numbers |
| MCScpCache | `OneGroupPerKey`, `WaiterHasTask`, `UnusedExpire` | two requests, two queries, a cache of one entry: every admission of the other query evicts or is refused |
| MCRequestLifecycle | `AnsweredOnce`, `PolicyFirst`, `NoReplay`, `BodyWithinLimit`, `StoredComplete`, `ReusedOnlyWhenClean`, `Decorated` | two hooks, three attempts, bodies of up to 4 bytes with a counter that overflows at 3 |
| MCScpRouting | `HopBudget`, `Admissible`, `RootFollowsBackend` | two SCPs, two producers, one with two addresses, hop counts up to 3: a request goes in a circle and its answer passes several SCPs |
| MCSyncClient | `SyncedMeansObserved`, `Converges` | three calls of `SetSnapshot`, two of `Run`, two faults, four versions (one rejected, one that would need a restart). Deadlock is allowed: when the bounds are used up and `Run` has returned, nothing happens |
| MCRateLimit | `LimitUpToLate` | three workers, two addresses, limit 1, windows 0 to 2. Deadlock is allowed: the number of requests is bounded |
| MCRouting | `BestMatch`, `SegmentsKept`, `TlsBound` | up to three locations of ten (of every kind, with a named one, which matches nothing), rules of an exact, a wildcard and the default host, paths of up to four characters with every placement of slashes |
| MCBackendSelection | `SelectionJustified`, `HealthFollowsChecks`, `SharesExact`, `EvictedReturn` | two services with three endpoints in one pool, in the two pools of a tier and in two tiers; two failures or recoveries, two publications or expiries, one selection at a time (selections share nothing but the registry), one failed check to evict and two good ones to return; at least 3 draws from a pool (`MinIterations`) in place of 256, so that a pool of two can use them up on one service; all capacities of up to three services (`MaxServices`) with a limit of 9 in place of 65535, where every remainder and tie occurs |
| MCSnapshotCodec | `RouterSound`, `SameRules`, `RoundTrip` | families of files and of wire snapshots, each with all combinations of one group of fields (listeners and TLS, virtual hosts and routes, targets, weights at the limit, upstreams and discovery, options with zeros); two rounds of export and apply, since the second is already a fixed point. Windows of HTTP/2 end at 2000 instead of `i32::MAX`, and u32 at 2000000, with values below, at and above it |

Symmetry is used in MCRuntimeControl, MCResponseCache (requests only, since the
URIs differ in size) and MCRateLimit, whose runs check no liveness.

### Fairness

* NrfDiscovery: every await ends (NRF requests and preflight checks have
  timeouts), runnable tasks run, and time passes (strong fairness of `Tick`,
  which is disabled while something is due). Nothing obliges an NRF to answer:
  `RecoversAfterOutage` assumes that it eventually keeps answering.
* UdsOwnership: a process that is not waiting for a decision from outside takes
  its next system call. Start, stop, crash and interference are not fair.
* ScpCache: tasks, requests, the background loop and the clock go on. No client
  has to leave and no wait has to time out.
* SyncClient: `Run` goes on, the channel connects while the server is up, a
  supervisor restarts the server, an abandoned apply is served sooner or later;
  faults are bounded.
* BackendSelection: the background service starts a pass whenever targets are
  registered and none is running, and every check of a pass ends (it has a
  timeout). Endpoints need not recover: `EvictedReturn` is about those that do.
* The other specifications are checked for safety only.

### Disagreements with the documentation

Noted while modelling. The properties state what the code keeps:

* `docs/config-options.md:241` speaks of a "bounded last-known-good window".
  `select` does not compare the expiry; while the loop awaits the preflight checks
  of a new result, endpoints of the old one are served past their window
  (NrfDiscovery without the `~Urgent` and sleep conditions of
  `SleepLeavesNoStale`). SCP groups check the expiry themselves
  (`ScpFailsClosed`).
* `docs/snapshot-schema.md:127` says that errors run the selected route's response
  plugins. The 413 of the Content-Length check
  (`upstreams/runtime/limits.rs:61`) does not; the 413 of the streaming check
  does. `Decorated` leaves the first one out. It also says that the hooks are run
  at most once: when one of them fails, or writing the response does, the error
  that follows is sent without them.
* `docs/config-options.md:251` and `:254` say that the lowest healthy tier is
  selected first and that zero-capacity services are used only when their tier has
  no healthy service with capacity. A pool that has accepted a service whose last
  endpoint becomes unready before `select_endpoint` reads it again yields nothing,
  and the search leaves the pool without asking its other services, up to a 503
  although one of them is ready. A pool also gives up after
  `services.len().max(256)` draws (`groups/topology.rs:239`); policies that draw
  with repetition (random, consistent hashing) may spend them on unready services
  and never offer a ready one. `SelectionJustified` says what remains: some
  service of each pool passed over was unready, and all of them if readiness did
  not change during the selection, but for those that were never drawn because
  others of their pool were drawn again.
* `GetSnapshot` cannot say everything the router holds: zeros of
  `proxy_cache_max_size`, `keepalive_requests`, route timeouts and cache durations
  come back as "not set", and so does a `proxy_cache_min_uses` above `u32::MAX`,
  which the file accepts; thresholds of a health check above it become `u32::MAX`;
  a `proxy_pass` to a host on the scheme's default port
  that has the name of an upstream group comes back as this group (and if that is
  an NRF group of the other scheme, the server refuses its own export); the
  certificate for unknown names of a TLS listener without a default server becomes
  that of the least host name. `RoundTrip` says that nothing else is lost and that
  a second round changes nothing.
* `docs/feature-checklist.md:101` calls the rate limit a fixed one-second window.
  The clock is read before the lock, so a late request resets the bucket to its
  older window and the current count is forgotten. `LimitUpToLate` is the bound
  that remains: the limit once more per late request. A limit of `u32::MAX` never
  refuses, since the counter saturates.
* `upstreams/routing.rs:9` says the match order mirrors nginx. A short `^~` prefix
  beats a longer plain prefix here; nginx takes the longest prefix of either
  kind. `BestMatch` checks the order the comment spells out, which the code
  keeps.
* The comment at `upstreams/runtime/proxy.rs:345` says the TTL is ignored for
  stale responses; the age is bounded by TTL plus `stale_if_error`.
* After the window of an NRF result has ended, `expires_at` stays in the past and
  limits the retry time, so failed requests are repeated without backoff in every
  pass of the loop (`RequestsSpaced` leaves this case out).
  `NoGapWithoutFailure` needs a result that outlasts its refresh by a pass of the
  loop (`RoomForPass` in NrfDiscoveryProofs), which no code checks.
* `Run` of the Go client decides under the mutex whether a result is current and
  acts on it after the unlock: it may return the permanent error of a snapshot
  that has just been replaced.

## Proofs

`tlapm` checks eight modules. Constants have only the assumptions named in the
modules; bounds of the runs such as `MaxGeneration` are arbitrary naturals. Every
inductive invariant was checked by TLC on the instance of the component's run
before it was proved.

* **RuntimeControlProofs**: `TypeCorrect`, `ReadersHistory`, `GroupStateTheorem`,
  `ScpTemplates` (together `InheritedState`), `AnswersDistinct`, `PoisonFreezes` and
  `Refinement` (it implements SnapshotRegister). `IInv` adds to the types that the
  holder of the lock is the only call between load and store, so that the snapshot
  it loaded is still active (`CallInv`), and that the log is the history of the
  active snapshot (`LogInv`). What a group or profile inherits is then followed
  through the log from one generation to the next. `AnswersDistinct` and
  `PoisonFreezes` are only proved.
* **ResponseCacheProofs**: `NoRepopulation`, `OwnSnapshot` (together `Isolation`),
  `TableFollows`, `NoRegress`, `Admission`, `Budget`. The lemmas on `LocationCache`
  say which keys an operation can leave behind. `IInv`: a request past
  `advance_generation` is not ahead of the table, and whoever holds a location that
  is still in the table has the table's generation (`HoldersCurrent`), because
  emptying the table and a new allocation separate old holders from live locations;
  every entry was produced under its own key (`OwnOrigins`). `AdmissionInv`: a
  counter of a location never says more than the misses of its key (`CountsBacked`),
  and a request may store only when its key has missed often enough or the location
  it would store into is retired (`MayStore`). `BudgetInv`: the account is exact
  (`Accounted`), which needs that a key has one counter and that `put` drops the
  response and the counter of its key before it adds the new response. What a sum
  over a finite set is, and how it changes with one element, is proved from the
  definition of the fold, by a smallest counterexample on cardinalities instead of
  an induction scheme.
* **RequestProofs**, about a request and the limiter it passes. RequestLifecycle:
  one theorem for each property of the run and `TypeCorrect`, for any number of
  plugins and attempts, bodies and chunks of any size and any width of the byte
  counter; assumed is only that the counter can hold the limit (`MaxU64 >= 2`) and
  that there is an attempt. `IInv` says for each callback what the earlier ones have
  left behind: a response begins in the callback that answers or in the exchange,
  and then the hooks have run (`Stages`); one that has begun before a failure is the
  upstream's, or the connection is broken (`Begun`), which is why `fail_to_proxy`
  never answers twice; route, hooks, SCP, cache and attempts come in this order
  (`Policies`, `Permitted`); deliveries lag behind attempts until the request is
  sent, and an SCP request has one or two (`Attempts`); what is forwarded has been
  counted before (`Counted`); the collected body equals what the client was sent
  until a failure (`Collected`); and how each path leaves the connection (`Ended`).
  RateLimit: `LimiterTypeTheorem`, `LimitTheorem`; for each client and window the
  admitted requests are split into what the bucket counts and what late requests
  have paid for (`Account`).
  `HooksReachClient` needs two more parts. `Ran`: the hooks have run exactly when
  the flag `response_plugins_applied` is set and a route was selected, which needs
  that the flag is set before they run and not after they have succeeded. `Spent`:
  whoever has answered in a way that passes the hooks has set the flag. The theorem
  speaks of local, SCP, upstream and error responses; those from the cache, stale
  ones and the 413 of the Content-Length check do not pass the hooks.
* **NrfDiscoveryProofs**: `WindowTheorem`, `SpacingTheorem` and `NoGapTheorem`
  for any groups, durations and outages; the last two are action properties. What
  `WindowTheorem` proves is `WindowEnforced` and no more: SCP groups select nothing
  past the window (but for a newer result that is being published), plain groups
  serve nothing past it while the loop sleeps and nothing is due. `Window`: a group that
  serves something has the end of its window in the schedule, except between
  publication and the update of the schedule, and is due before it. `Loop`: plain
  groups run one at a time, and the loop wakes up before the window of one it has
  visited ends. `Valid`: what is published has a validity. `Spacing`: a plain group
  that sent a request in this second is not due unless its result has expired. The
  provers do not know powers, so that 2^n is a positive natural is an assumption
  that TLC evaluates (`ShiftAssumption`). `NoGapTheorem` has a hypothesis on the
  configuration that the code does not enforce, `RoomForPass`: what remains of a
  result when its refresh is due is longer than a pass of the loop, in which every
  plain group may use up its timeouts. The run's constants satisfy it. `PassInv`
  then says that as long as no refresh fails, the window of a group outlasts the
  visits that come before its own in this pass or the next; visits are counted, and
  the time the visit under way has taken is credited, so that the balance does not
  change while time passes.
* **UpstreamProofs**, about the way from a request to a backend. BackendSelection:
  `HealthTheorem`, `SelectionTheorem`, for any endpoints, services, plans and
  thresholds, and any number of selections at a time. `HealthInv`: a target that
  disagrees with the last results has counted exactly these, and one that agrees has
  counted none. `SelectionInv`: pools before the current one have been left for good
  reason, services of the current one that were refused have been unready, a pool
  can run out of draws only after repetitions, since there are at least as many
  draws as services (`Drawn`), and so
  have the endpoints of the current service that were read (`Reading`); where a
  service that was accepted is left after all, one of its endpoints has been both
  ready and not, so readiness has changed. That there is always a next pool and a
  next endpoint rests on least elements of sets of naturals. `ExactShares`: for
  pools of any size and capacities of any value up to `MaxU16`, what
  `normalized_capacities` returns adds up to the limit (or to the capacities, where
  they fit), is positive for every service and keeps the order of the capacities;
  and the walk over cumulative weights gives each backend exactly its weight of
  slots. Sums are followed along the sequence from one prefix to the next; that no
  prefix is wrong is shown on the smallest one that would be. Services are ranked by
  remainder and position, and that ranks are a bijection with 1 .. n decides how
  many of them get the units that are left.
* Routing, in the same module: `RouteIsBest`, `RouteIsTlsBound`,
  `RewriteKeepsSegments`, for any servers, rules, paths and hosts. `RoutingInv`: the
  result is an error, a rule that is chosen on an eligible host, or no route if no
  host serves the request (`Outcome`); the rest is about the operators. The folds
  that keep the best rule so far keep one that no rule they have passed precedes, so
  the result is a first element of the documented order among all that match; host
  patterns are compared by their kind and length. A rewritten path consists of the
  replacement and what followed the matched segments, and neither side of the cut is
  inside a segment.
* **ControlPlaneProofs**, about both ends of the control socket. UdsOwnership:
  `MutualExclusion`, `Reachability`, `CleanShutdown`; the flock is held from
  `try_lock` to the end of `Drop`, and a runtime lives only within; when nobody
  ignores the lock, only the holder touches the file. SyncClient: `SyncedTheorem`;
  an attempt works on the desired snapshot or on an older one, and only in the first
  case its result is recorded (`ClientInv`). `ClientTypeTheorem`: types, and the
  delay between attempts stays within its limits, however it is doubled.
* **ScpProofs**, about both parts of an SCP. ScpCache: `GroupsShared`, `WakeUps`; a
  cached group was created for the key it is cached under; a request that is about
  to wait holds a group and listens already. ScpRouting: `HopBudgetTheorem`,
  `NeverSelfTheorem`, `InDomainTheorem` (together `AdmissibleTheorem`),
  `RootTheorem`, `RouteTypeTheorem`; hops used and hops left add up to the budget
  (`Account`); headers, parsed request and exchange agree, and root and backend of
  an exchange change together (`Agreement`); what an answer names on its way back is
  the root of an SCP that had to name one, and of none behind the first SCP it
  has passed that discovered its backend (`Answered`).
* **ConfigProofs**, about configurations: `RulesAgree` (`SameRules`) and
  `AcceptedIsSound` (`RouterSound`), for any configuration files and any wire
  messages, of any length and nesting of servers, listeners, names, locations and
  weighted targets. What a file may contain is stated by `TextsAssumption`: lists
  are lists, names belong to the table of names, addresses and ports are numbers;
  `WiresAssumption` says the same of messages. Both constrain types only; every rule
  of the compiler is free to reject. The argument has three parts. What the two ways
  in produce has the shape the compiler expects (`HttpShape`: `LoweredHttp` from
  `lower`, `DecodedHttp` from the decoder). From this shape and the checks of
  `from_http`, every listener has a server for every name and, with TLS, a
  certificate for each, and every route has targets that exist, speak the protocol
  it asks for (`CompiledSound`), and the weights of a group stay within u16. The
  same facts show that `Ir::validate` would accept it (`RulesAgree`). The exported
  snapshot is a wire message again (`Exported`), for which the inductive invariant
  `CodecInv` has to carry the shape of the active router from one round to the next.
  `AcceptedIsSound` has `NoneIsOwn` as a hypothesis: `None`, which stands for Rust's
  `None`, is no protocol and none of three kinds of records. It ranges over all
  values, so TLC cannot evaluate it as an assumption; the model value of the run
  satisfies it.

ControlPlaneProofs, ScpProofs, RequestProofs and UpstreamProofs extend two
components each. The components do not share variables; SyncClient, ScpRouting,
RateLimit and Routing name their specification, its variables and its steps so
that they can stand next to the other one (`ClientSpec`, `RouteSpec`,
`LimiterSpec`, `RoutingSpec`).

Induction over data is not available to the provers. Where a theorem is about
sequences of any length (sums, folds, flattening, ranks), the induction is replaced
by a least element of a set of naturals: the smallest prefix, or the smallest
cardinality, for which the claim would fail.

Only model-checked:

* liveness (`RecoversAfterOutage`, `ReplacementServes`, `UnusedExpire`,
  `Converges`, `EvictedReturn`), since the prover knows neither fairness nor
  `ENABLED`;
* `RoundTrip`, an equality between the router and what decoding and compiling its
  export yields, field by field through some sixty operators. Its proof would need a
  type for every field of a configuration and, for the merged virtual hosts, that
  splitting and merging lists of hosts are inverse to each other.

## Not modelled

Character-level parsing (configuration lexer, literals of durations and sizes,
header syntax), formatting, logs and metrics; contents of HTTP messages beyond what
decides control; the network protocols below gRPC and HTTP; Pingora and Tokio,
except as the environment the code relies on; panics outside
`build_runtime_snapshot` (a panic in a refresh task would leave `scp_refreshing`
set). `PROJECT.json` lists every component with its status.

TLS material (`le.rs`, `server/openssl_listener_tls.rs`): a round of
`reconcile_once` issues certificates one after the other, each by a key that is
written first and reused by later orders, a certificate that is written through a
temporary file, and one invalidation at the end of the round. A crash between key
and certificate is repaired by the next round, which finds no certificate and
orders one for the same key; a crash before the invalidation by the restart, which
loads the files. What a resolver serves is read from both files under its lock for
every new pair of snapshot generation and revision.

Static upstream groups select by one call of Pingora's load balancer, with at most
as many tries as there are backends; whether this call finds a ready backend is a
matter of Pingora's iterators and is not modelled.

## Plan

Done: RuntimeControl with SnapshotRegister, ResponseCache, NrfDiscovery,
UdsOwnership, ScpCache, ScpRouting, RequestLifecycle, SyncClient, RateLimit,
Routing, BackendSelection, ConfigLower, RouterCompile, SnapshotCodec, and the
proofs above. Next, in this order:

1. Proofs: `RoundTrip` for one field of the snapshot after the other, starting with
   upstream groups, whose encoding does not depend on the order of listeners.
2. TlsMaterial: `le.rs`, `openssl_listener_tls.rs`; issue, store and activate with
   crashes; a listener never pairs a certificate with another's key.
3. `reload.rs` with coalesced signals, composed with RuntimeControl.
4. Plugins: cors, jwt-auth (key cache), ext-authz, basic-auth, headers, client
   address; as hooks of RequestLifecycle.
