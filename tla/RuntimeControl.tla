--------------------------- MODULE RuntimeControl ---------------------------
(***************************************************************************)
(* RuntimeState of crates/ngxora-runtime/src/control.rs: the immutable     *)
(* snapshot behind an ArcSwap, and the apply_snapshot calls that SIGHUP    *)
(* reloads and gRPC handlers run against it from different threads.        *)
(*                                                                         *)
(* A call is split where another thread can run between two of its steps:  *)
(* taking apply_lock, the load of the current snapshot, the (long) build,  *)
(* the store, and the release of the lock with the answer.  Readers        *)
(* (requests, GetSnapshot, background services) load the ArcSwap at any    *)
(* moment and keep what they loaded.                                       *)
(*                                                                         *)
(* An Arc that a build creates is named by the generation of the build     *)
(* that created it, so groups[n] = 3 says that the RuntimeUpstreamGroup of *)
(* upstream n was constructed for generation 3 and has been handed on      *)
(* since.  0 stands for an absent upstream.                                *)
(***************************************************************************)
EXTENDS Naturals, Sequences

CONSTANTS Appliers,       \* threads that call apply_snapshot
          Readers,        \* requests and services that load the snapshot
          UpstreamNames, ProfileNames,
          Configs,        \* the ConfigSnapshots that can be submitted
          Bootstrap,      \* the configuration of with_registry
          MaxGeneration,  \* bound on the generations of a run
          None            \* an absent upstream, profile, call or answer

\* A ConfigSnapshot: version, the part restart_fingerprint extracts, and the
\* compiled upstream groups and SCP profiles by name.  A profile names the
\* upstreams its discovery templates are copied from.
IsConfig(c) ==
  /\ DOMAIN c = {"version", "fingerprint", "upstreams", "profiles"}
  /\ DOMAIN c.upstreams = UpstreamNames
  /\ DOMAIN c.profiles = ProfileNames
  /\ \A p \in ProfileNames :
       c.profiles[p] # None =>
         c.profiles[p].discovery_upstreams \subseteq UpstreamNames

ASSUME ConfigsAssumption ==
  /\ \A c \in Configs : IsConfig(c)
  /\ Bootstrap \in Configs
ASSUME NoneAssumption == None \notin Configs /\ None \notin Appliers
ASSUME BoundAssumption == MaxGeneration \in Nat

VARIABLES current,     \* RuntimeState.current: the active RuntimeSnapshot
          lock,        \* holder of apply_lock
          poisoned,    \* apply_lock was poisoned by a panic
          pc,          \* where each apply_snapshot call is
          next,        \* its argument
          base,        \* the snapshot it loaded as `current`
          built,       \* the RuntimeSnapshot it built
          result,      \* the ApplyResult it returned last
          pinned,      \* the snapshot each reader holds
          \* History: every snapshot that became active, by generation, and
          \* the generation that was active when a call started.
          log, start

vars == <<current, lock, poisoned, pc, next, base, built, result, pinned,
          log, start>>

-----------------------------------------------------------------------------
\* RuntimeScp::new copies the configurations of its discovery upstreams.
TemplatesOf(c, p) ==
  [n \in c.profiles[p].discovery_upstreams |-> c.upstreams[n]]

NewScp(p, c, gen) ==
  [born |-> gen, config |-> c.profiles[p], templates |-> TemplatesOf(c, p)]

\* Fault: an SCP profile is reused without looking at its templates.
MatchesProfileOnly(scp, profile, upstreams) == scp.config = profile

\* RuntimeScp::matches: the profile and each of its templates are unchanged.
Matches(scp, profile, upstreams) ==
  /\ scp.config = profile
  /\ \A n \in scp.config.discovery_upstreams : upstreams[n] = scp.templates[n]

\* Fault: a group is reused by name.
BuildGroupsByName(c, prev, gen) ==
  [n \in UpstreamNames |->
     IF c.upstreams[n] = None THEN 0
     ELSE IF prev # None /\ prev.groups[n] # 0 THEN prev.groups[n] ELSE gen]

\* build_runtime_upstream_groups: a group whose configuration is the previous
\* one keeps its runtime state, any other is constructed.
BuildGroups(c, prev, gen) ==
  [n \in UpstreamNames |->
     IF c.upstreams[n] = None THEN 0
     ELSE IF prev # None /\ prev.config.upstreams[n] = c.upstreams[n]
          THEN prev.groups[n] ELSE gen]

BuildProfiles(c, prev, gen) ==
  [p \in ProfileNames |->
     IF c.profiles[p] = None THEN None
     ELSE IF /\ prev # None
             /\ prev.profiles[p] # None
             /\ Matches(prev.profiles[p], c.profiles[p], c.upstreams)
          THEN prev.profiles[p] ELSE NewScp(p, c, gen)]

\* validate_profile: every discovery upstream of a profile exists.
ProfilesValid(c) ==
  \A p \in ProfileNames : c.profiles[p] # None =>
    \A n \in c.profiles[p].discovery_upstreams : c.upstreams[n] # None

BuildRuntimeSnapshot(c, gen, prev) ==
  [generation |-> gen, version |-> c.version, config |-> c,
   groups |-> BuildGroups(c, prev, gen),
   profiles |-> BuildProfiles(c, prev, gen)]

\* self.bootstrap_config: with_registry stores the bootstrap fingerprint.
BootstrapConfig == Bootstrap.fingerprint

Rejected(restart) ==
  [applied |-> FALSE, restart_required |-> restart,
   active_version |-> current.version, active_generation |-> current.generation]

-----------------------------------------------------------------------------
Init ==
  /\ current = BuildRuntimeSnapshot(Bootstrap, 1, None)
  /\ lock = None
  /\ poisoned = FALSE
  /\ pc = [a \in Appliers |-> "idle"]
  /\ next = [a \in Appliers |-> None]
  /\ base = [a \in Appliers |-> None]
  /\ built = [a \in Appliers |-> None]
  /\ result = [a \in Appliers |-> None]
  /\ pinned = [r \in Readers |-> None]
  /\ log = <<current>>
  /\ start = [a \in Appliers |-> 0]

\* The call ends: its locals are dropped and the guard releases the lock.
Return(a, res) ==
  /\ pc' = [pc EXCEPT ![a] = "idle"]
  /\ next' = [next EXCEPT ![a] = None]
  /\ base' = [base EXCEPT ![a] = None]
  /\ built' = [built EXCEPT ![a] = None]
  /\ result' = [result EXCEPT ![a] = res]
  /\ lock' = None

\* A gRPC handler or a SIGHUP reload calls apply_snapshot.
Submit(a) ==
  /\ pc[a] = "idle"
  /\ \E c \in Configs : next' = [next EXCEPT ![a] = c]
  /\ pc' = [pc EXCEPT ![a] = "waiting"]
  /\ result' = [result EXCEPT ![a] = None]
  /\ start' = [start EXCEPT ![a] = current.generation]
  /\ UNCHANGED <<current, lock, poisoned, base, built, pinned, log>>

Lock(a) ==
  /\ pc[a] = "waiting"
  /\ lock = None
  /\ ~poisoned
  /\ lock' = a
  /\ pc' = [pc EXCEPT ![a] = "locked"]
  /\ UNCHANGED <<current, poisoned, next, base, built, result, pinned, log, start>>

\* A poisoned lock answers every later call with the active snapshot.
LockPoisoned(a) ==
  /\ pc[a] = "waiting"
  /\ lock = None
  /\ poisoned
  /\ Return(a, Rejected(FALSE))
  /\ UNCHANGED <<current, poisoned, pinned, log, start>>

RejectRestart(a) ==
  /\ pc[a] = "locked"
  /\ next[a].fingerprint # BootstrapConfig
  /\ Return(a, Rejected(TRUE))
  /\ UNCHANGED <<current, poisoned, pinned, log, start>>

LoadCurrent(a) ==
  /\ pc[a] = "locked"
  /\ next[a].fingerprint = BootstrapConfig
  /\ base' = [base EXCEPT ![a] = current]
  /\ pc' = [pc EXCEPT ![a] = "building"]
  /\ UNCHANGED <<current, lock, poisoned, next, built, result, pinned, log, start>>

\* Fault: the snapshot is built under the generation it replaces.
BuildSameGeneration(a) ==
  /\ pc[a] = "building"
  /\ current.generation < MaxGeneration
  /\ ProfilesValid(next[a])
  /\ built' = [built EXCEPT ![a] =
       BuildRuntimeSnapshot(next[a], current.generation, base[a])]
  /\ pc' = [pc EXCEPT ![a] = "built"]
  /\ UNCHANGED <<current, lock, poisoned, next, base, result, pinned, log, start>>

\* The generation is read again from the ArcSwap, not from the loaded snapshot.
Build(a) ==
  /\ pc[a] = "building"
  /\ current.generation < MaxGeneration
  /\ ProfilesValid(next[a])
  /\ built' = [built EXCEPT ![a] =
       BuildRuntimeSnapshot(next[a], current.generation + 1, base[a])]
  /\ pc' = [pc EXCEPT ![a] = "built"]
  /\ UNCHANGED <<current, lock, poisoned, next, base, result, pinned, log, start>>

\* Fault: a failed apply reports the submitted version as active.
BuildFailsReportingNext(a) ==
  /\ pc[a] = "building"
  /\ Return(a, [applied |-> FALSE, restart_required |-> FALSE,
                active_version |-> next[a].version,
                active_generation |-> base[a].generation])
  /\ UNCHANGED <<current, poisoned, pinned, log, start>>

\* Plugin resolution, TLS validation, PEM material, an upstream group or an SCP
\* profile fails: the answer describes the snapshot loaded before the build.
BuildFails(a) ==
  /\ pc[a] = "building"
  /\ Return(a, [applied |-> FALSE, restart_required |-> FALSE,
                active_version |-> base[a].version,
                active_generation |-> base[a].generation])
  /\ UNCHANGED <<current, poisoned, pinned, log, start>>

\* A panic unwinds through the guard: the lock is released poisoned and the
\* caller gets no ApplyResult.
BuildPanics(a) ==
  /\ pc[a] = "building"
  /\ Return(a, None)
  /\ poisoned' = TRUE
  /\ UNCHANGED <<current, pinned, log, start>>

Store(a) ==
  /\ pc[a] = "built"
  /\ current' = built[a]
  /\ log' = Append(log, built[a])
  /\ pc' = [pc EXCEPT ![a] = "stored"]
  /\ UNCHANGED <<lock, poisoned, next, base, built, result, pinned, start>>

ReturnApplied(a) ==
  /\ pc[a] = "stored"
  /\ Return(a, [applied |-> TRUE, restart_required |-> FALSE,
                active_version |-> built[a].version,
                active_generation |-> built[a].generation])
  /\ UNCHANGED <<current, poisoned, pinned, log, start>>

\* RuntimeState::snapshot, and the drop of the Arc it returned.
Pin(r) ==
  /\ pinned' = [pinned EXCEPT ![r] = current]
  /\ UNCHANGED <<current, lock, poisoned, pc, next, base, built, result, log, start>>

Unpin(r) ==
  /\ pinned[r] # None
  /\ pinned' = [pinned EXCEPT ![r] = None]
  /\ UNCHANGED <<current, lock, poisoned, pc, next, base, built, result, log, start>>

Next ==
  \/ \E a \in Appliers :
       \/ Submit(a) \/ Lock(a) \/ LockPoisoned(a) \/ RejectRestart(a)
       \/ LoadCurrent(a) \/ Build(a) \/ BuildFails(a) \/ BuildPanics(a)
       \/ Store(a) \/ ReturnApplied(a)
  \/ \E r \in Readers : Pin(r) \/ Unpin(r)

Spec == Init /\ [][Next]_vars

-----------------------------------------------------------------------------
Versions == {c.version : c \in Configs}

ConfiguredProfiles ==
  {cp \in Configs \X ProfileNames : cp[1].profiles[cp[2]] # None}

ScpRuntimes ==
  [born : Nat \ {0},
   config : {cp[1].profiles[cp[2]] : cp \in ConfiguredProfiles},
   templates : {TemplatesOf(cp[1], cp[2]) : cp \in ConfiguredProfiles}]

Snapshots ==
  [generation : Nat \ {0}, version : Versions, config : Configs,
   groups : [UpstreamNames -> Nat],
   profiles : [ProfileNames -> ScpRuntimes \cup {None}]]

ASSUME NoneIsNoRecord ==
  /\ None \notin Snapshots
  /\ None \notin [config : Configs, from : Nat, gen : Nat]

Results ==
  [applied : BOOLEAN, restart_required : BOOLEAN,
   active_version : Versions, active_generation : Nat \ {0}]

\* The types of RuntimeState's fields and of an apply_snapshot call's locals.
TypeOK ==
  /\ current \in Snapshots
  /\ lock \in Appliers \cup {None}
  /\ poisoned \in BOOLEAN
  /\ pc \in [Appliers ->
              {"idle", "waiting", "locked", "building", "built", "stored"}]
  /\ next \in [Appliers -> Configs \cup {None}]
  /\ base \in [Appliers -> Snapshots \cup {None}]
  /\ built \in [Appliers -> Snapshots \cup {None}]
  /\ result \in [Appliers -> Results \cup {None}]
  /\ pinned \in [Readers -> Snapshots \cup {None}]
  /\ log \in Seq(Snapshots)
  /\ start \in [Appliers -> Nat]

\* The snapshots that someone can be working with: the active one and the ones
\* requests and services still hold.
Live == {current} \cup {pinned[r] : r \in {q \in Readers : pinned[q] # None}}

\* Generations are consecutive, the active snapshot is the newest one, and what
\* a reader holds is, unchanged, the snapshot that was once active under its
\* generation: never a rejected or half-built one (apply_snapshot commits the
\* generation only after the build succeeded).
ReadersSeeHistory ==
  /\ current = log[Len(log)]
  /\ \A s \in Live : s.generation \in 1 .. Len(log) /\ s = log[s.generation]

\* The runtime state of an upstream group (health, discovery result, round-robin
\* position) is carried over exactly as long as its configuration stays the same
\* from one generation to the next: it was created for the first generation of
\* the unbroken run of equal configurations that ends at the snapshot.
GroupStateFollowsConfig ==
  \A s \in Live, n \in UpstreamNames :
    LET cfg == s.config.upstreams[n]
        g == s.groups[n]
    IN IF cfg = None THEN g = 0
       ELSE /\ g \in 1 .. s.generation
            /\ \A k \in g .. s.generation : log[k].config.upstreams[n] = cfg
            /\ g > 1 => log[g - 1].config.upstreams[n] # cfg

\* An SCP profile that is handed on to a later generation still works from the
\* discovery templates of that generation (RuntimeScp copies them when it is
\* created and never refreshes the copy).
ScpTemplatesCurrent ==
  \A s \in Live, p \in ProfileNames :
    s.profiles[p] # None =>
      /\ s.profiles[p].config = s.config.profiles[p]
      /\ \A n \in s.config.profiles[p].discovery_upstreams :
           s.profiles[p].templates[n] = s.config.upstreams[n]

\* What a snapshot takes over from its predecessor belongs to its own
\* configuration: groups while theirs is unchanged, profiles while the templates
\* they copied are.
InheritedStateCurrent == GroupStateFollowsConfig /\ ScpTemplatesCurrent

\* Two callers are never both told that they created the same generation, and
\* the version an applied caller is told is the one recorded for its generation.
AppliedAnswersDistinct ==
  \A a \in Appliers : result[a] # None /\ result[a].applied =>
    /\ result[a].active_generation \in (start[a] + 1) .. Len(log)
    /\ result[a].active_version = log[result[a].active_generation].version
    /\ \A b \in Appliers \ {a} : result[b] # None /\ result[b].applied =>
         result[b].active_generation # result[a].active_generation

\* Once a build has panicked, the active configuration never changes again: every
\* later apply is answered "snapshot apply lock is poisoned".
PoisonFreezesConfig == [][poisoned => current' = current]_vars

\* A call in progress and its outcome as SnapshotRegister sees them.
CallView ==
  [a \in Appliers |->
     IF pc[a] = "idle" THEN None
     ELSE [config |-> next[a], from |-> start[a],
           gen |-> IF pc[a] = "stored" THEN built[a].generation ELSE 0]]

Register == INSTANCE SnapshotRegister WITH
  log <- [g \in 1 .. Len(log) |-> log[g].config],
  call <- CallView,
  answer <- result

\* RuntimeState implements the abstract register: an apply takes effect at one
\* instant, applies are totally ordered, and no answer is about a snapshot that
\* was not active during the call.
ImplementsRegister == Register!Spec
=============================================================================
