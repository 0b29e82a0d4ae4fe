------------------------ MODULE RuntimeControlProofs ------------------------
(***************************************************************************)
(* Proofs about RuntimeControl for any number of appliers, readers,        *)
(* upstreams, profiles and configurations.                                 *)
(***************************************************************************)
EXTENDS RuntimeControl, SequenceTheorems, TLAPS

Holding == {"locked", "building", "built", "stored"}

\* What the steps of one call preserve while other calls and readers run: the
\* lock is what keeps the loaded snapshot the active one until the store.
CallInv ==
  \A a \in Appliers :
    /\ pc[a] \in Holding <=> lock = a
    /\ pc[a] # "idle" => next[a] \in Configs
    /\ pc[a] \in {"building", "built", "stored"} =>
         next[a].fingerprint = BootstrapConfig
    /\ pc[a] \in {"building", "built"} => base[a] = current
    /\ pc[a] = "built" =>
         built[a] = BuildRuntimeSnapshot(next[a], current.generation + 1, current)
    /\ pc[a] = "stored" =>
         built[a] = current /\ current.version = next[a].version
    /\ start[a] <= current.generation
    /\ pc[a] = "stored" => start[a] < current.generation

PoisonInv == poisoned => lock = None

LogInv ==
  /\ Len(log) = current.generation
  /\ log[Len(log)] = current
  /\ \A g \in 1 .. Len(log) :
       /\ log[g].generation = g
       /\ log[g].version = log[g].config.version
       /\ log[g].config.fingerprint = BootstrapConfig
  /\ \A r \in Readers : pinned[r] # None =>
       /\ pinned[r].generation \in 1 .. Len(log)
       /\ pinned[r] = log[pinned[r].generation]

IInv == TypeOK /\ CallInv /\ PoisonInv /\ LogInv

-----------------------------------------------------------------------------
\* What a successful build returns is a snapshot of the generation asked for.
LEMMA BuildType ==
  ASSUME NEW c \in Configs, NEW g \in Nat \ {0},
         NEW prev, prev \in Snapshots \/ prev = None
  PROVE  BuildRuntimeSnapshot(c, g, prev) \in Snapshots
<1>1. BuildGroups(c, prev, g) \in [UpstreamNames -> Nat]
  BY DEF BuildGroups, Snapshots
<1>2. BuildProfiles(c, prev, g) \in [ProfileNames -> ScpRuntimes \cup {None}]
  <2>1. ASSUME NEW p \in ProfileNames, c.profiles[p] # None
        PROVE  NewScp(p, c, g) \in ScpRuntimes
    <3>1. <<c, p>> \in ConfiguredProfiles
      BY <2>1 DEF ConfiguredProfiles
    <3> QED BY <3>1 DEF NewScp, ScpRuntimes
  <2>2. ASSUME NEW p \in ProfileNames, prev # None
        PROVE  prev.profiles[p] \in ScpRuntimes \cup {None}
    BY <2>2 DEF Snapshots
  <2> QED BY <2>1, <2>2 DEF BuildProfiles
<1>3. c.version \in Versions
  BY DEF Versions
<1> QED BY <1>1, <1>2, <1>3 DEF BuildRuntimeSnapshot, Snapshots

\* RuntimeState::with_registry establishes the inductive invariant.
LEMMA InitIInv == Init => IInv
<1> SUFFICES ASSUME Init PROVE IInv
  OBVIOUS
<1>1. current \in Snapshots /\ current.generation = 1
      /\ current.config = Bootstrap /\ current.version = Bootstrap.version
  BY BuildType, ConfigsAssumption DEF Init, BuildRuntimeSnapshot
<1>2. log \in Seq(Snapshots) /\ Len(log) = 1 /\ log[1] = current
  BY <1>1 DEF Init
<1>3. TypeOK
  BY <1>1, <1>2 DEF Init, TypeOK
<1>4. CallInv
  <2> SUFFICES ASSUME NEW a \in Appliers
               PROVE  /\ pc[a] = "idle" /\ lock # a
                      /\ start[a] <= current.generation
    BY DEF CallInv, Holding
  <2> QED BY <1>1, NoneAssumption DEF Init
<1> QED BY <1>1, <1>2, <1>3, <1>4 DEF IInv, PoisonInv, LogInv, Init, BootstrapConfig

\* Every step of a caller or a reader preserves the inductive invariant; steps that
\* neither store nor pin leave the log and what it is compared with.
LEMMA NextIInv == IInv /\ [Next]_vars => IInv'
<1> SUFFICES ASSUME IInv, [Next]_vars PROVE IInv'
  OBVIOUS
<1> USE NoneAssumption
<1> USE DEF IInv
<1>1. ASSUME NEW a \in Appliers, Submit(a) PROVE IInv'
  <2>1. TypeOK'
    BY <1>1 DEF TypeOK, Submit, Snapshots
  <2>2. CallInv'
    BY <1>1 DEF CallInv, Submit, TypeOK, Holding, Snapshots
  <2>3. PoisonInv' /\ LogInv'
    BY <1>1 DEF PoisonInv, LogInv, Submit
  <2> QED BY <2>1, <2>2, <2>3
<1>2. ASSUME NEW a \in Appliers, Lock(a) PROVE IInv'
  <2>1. TypeOK'
    BY <1>2 DEF TypeOK, Lock
  <2>2. CallInv'
    BY <1>2 DEF CallInv, Lock, TypeOK, Holding
  <2>3. PoisonInv' /\ LogInv'
    BY <1>2 DEF PoisonInv, LogInv, Lock
  <2> QED BY <2>1, <2>2, <2>3
<1>3. ASSUME NEW a \in Appliers, NEW res \in Results \cup {None}, Return(a, res),
             pc[a] # "idle", lock = a \/ lock = None,
             poisoned' \in BOOLEAN,
             UNCHANGED <<current, pinned, log, start>>
      PROVE  IInv'
  <2>1. TypeOK'
    BY <1>3 DEF TypeOK, Return
  <2>2. CallInv'
    BY <1>3 DEF CallInv, Return, TypeOK, Holding
  <2>3. PoisonInv' /\ LogInv'
    BY <1>3 DEF PoisonInv, LogInv, Return
  <2> QED BY <2>1, <2>2, <2>3
<1>4. ASSUME NEW s \in Snapshots, NEW x \in BOOLEAN, NEW y \in BOOLEAN
      PROVE  [applied |-> x, restart_required |-> y,
              active_version |-> s.version,
              active_generation |-> s.generation] \in Results
  BY <1>4 DEF Results, Snapshots
<1>5. ASSUME NEW a \in Appliers, LockPoisoned(a) PROVE IInv'
  <2>1. Rejected(FALSE) \in Results
    BY <1>4 DEF Rejected, TypeOK
  <2> QED BY <1>3, <1>5, <2>1 DEF LockPoisoned, TypeOK
<1>6. ASSUME NEW a \in Appliers, RejectRestart(a) PROVE IInv'
  <2>1. Rejected(TRUE) \in Results
    BY <1>4 DEF Rejected, TypeOK
  <2> QED BY <1>3, <1>6, <2>1 DEF RejectRestart, TypeOK, CallInv, Holding
<1>7. ASSUME NEW a \in Appliers, LoadCurrent(a) PROVE IInv'
  <2>1. TypeOK'
    BY <1>7 DEF TypeOK, LoadCurrent
  <2>2. CallInv'
    BY <1>7 DEF CallInv, LoadCurrent, TypeOK, Holding
  <2>3. PoisonInv' /\ LogInv'
    BY <1>7 DEF PoisonInv, LogInv, LoadCurrent
  <2> QED BY <2>1, <2>2, <2>3
<1>8. ASSUME NEW a \in Appliers, Build(a) PROVE IInv'
  <2> DEFINE s == BuildRuntimeSnapshot(next[a], current.generation + 1, base[a])
  <2>1. base[a] = current /\ next[a] \in Configs
    BY <1>8 DEF Build, CallInv
  <2>2. s \in Snapshots
    <3>1. current \in Snapshots /\ current.generation + 1 \in Nat \ {0}
      BY DEF TypeOK, Snapshots
    <3> QED BY <2>1, <3>1, BuildType
  <2> HIDE DEF s
  <2>3. built' = [built EXCEPT ![a] = s]
    BY <1>8 DEF Build, s
  <2>4. TypeOK'
    <3>1. built' \in [Appliers -> Snapshots \cup {None}]
      BY <2>2, <2>3 DEF TypeOK
    <3>2. pc' \in [Appliers ->
                    {"idle", "waiting", "locked", "building", "built", "stored"}]
      BY <1>8 DEF TypeOK, Build
    <3>3. UNCHANGED <<current, lock, poisoned, next, base, result, pinned, log, start>>
      BY <1>8 DEF Build
    <3> QED BY <3>1, <3>2, <3>3, Zenon DEF TypeOK
  <2>5. CallInv'
    BY <1>8, <2>1, <2>3 DEF CallInv, Build, TypeOK, Holding, s
  <2>6. PoisonInv' /\ LogInv'
    BY <1>8 DEF PoisonInv, LogInv, Build
  <2> QED BY <2>4, <2>5, <2>6
<1>9. ASSUME NEW a \in Appliers, BuildFails(a) PROVE IInv'
  <2>1. base[a] \in Snapshots /\ lock = a
    BY <1>9 DEF BuildFails, TypeOK, CallInv, Holding
  <2> QED BY <1>3, <1>4, <1>9, <2>1 DEF BuildFails, TypeOK
<1>10. ASSUME NEW a \in Appliers, BuildPanics(a) PROVE IInv'
  BY <1>3, <1>10 DEF BuildPanics, TypeOK, CallInv, Holding
<1>11. ASSUME NEW a \in Appliers, Store(a) PROVE IInv'
  <2>1. /\ built[a] \in Snapshots
        /\ built[a].generation = current.generation + 1
        /\ built[a].version = next[a].version
        /\ built[a].config = next[a]
        /\ next[a].fingerprint = BootstrapConfig
        /\ lock = a
    <3>1. /\ built[a] = BuildRuntimeSnapshot(next[a], current.generation + 1, current)
          /\ next[a] \in Configs
      BY <1>11 DEF Store, CallInv
    <3>2. built[a] \in Snapshots
      <4>1. current \in Snapshots /\ current.generation + 1 \in Nat \ {0}
        BY DEF TypeOK, Snapshots
      <4> QED BY <3>1, <4>1, BuildType
    <3> QED BY <1>11, <3>1, <3>2 DEF Store, CallInv, Holding, BuildRuntimeSnapshot
  <2>2. /\ log' \in Seq(Snapshots)
        /\ Len(log') = Len(log) + 1
        /\ log'[Len(log) + 1] = built[a]
        /\ \A g \in 1 .. Len(log) : log'[g] = log[g]
    BY <1>11, <2>1 DEF Store, TypeOK
  <2>3. TypeOK'
    BY <1>11, <2>1, <2>2 DEF TypeOK, Store
  <2>4. CallInv'
    BY <1>11, <2>1 DEF CallInv, Store, TypeOK, Holding, Snapshots
  <2>5. PoisonInv'
    BY <1>11 DEF PoisonInv, Store
  <2>6. LogInv'
    BY <1>11, <2>1, <2>2 DEF LogInv, Store, TypeOK, Snapshots
  <2> QED BY <2>3, <2>4, <2>5, <2>6
<1>12. ASSUME NEW a \in Appliers, ReturnApplied(a) PROVE IInv'
  <2>1. built[a] \in Snapshots /\ lock = a
    BY <1>12 DEF ReturnApplied, TypeOK, CallInv, Holding
  <2> QED BY <1>3, <1>4, <1>12, <2>1 DEF ReturnApplied, TypeOK
<1>13. ASSUME NEW r \in Readers, Pin(r) \/ Unpin(r) PROVE IInv'
  <2>1. PICK s \in {current, None} : pinned' = [pinned EXCEPT ![r] = s]
    BY <1>13 DEF Pin, Unpin
  <2>2. UNCHANGED <<current, lock, poisoned, pc, next, base, built, result, log, start>>
    BY <1>13 DEF Pin, Unpin
  <2>3. TypeOK'
    BY <2>1, <2>2 DEF TypeOK
  <2>4. CallInv' /\ PoisonInv'
    BY <2>2 DEF CallInv, PoisonInv
  <2>5. LogInv'
    BY <2>1, <2>2 DEF LogInv, TypeOK, Snapshots
  <2> QED BY <2>3, <2>4, <2>5
<1>14. CASE UNCHANGED vars
  BY <1>14 DEF vars, TypeOK, CallInv, PoisonInv, LogInv
<1> QED BY <1>1, <1>2, <1>5, <1>6, <1>7, <1>8, <1>9, <1>10, <1>11, <1>12,
           <1>13, <1>14 DEF Next

\* The inductive invariant of apply_snapshot holds in every reachable state.
THEOREM Invariance == Spec => []IInv
<1> QED BY InitIInv, NextIInv, PTL DEF Spec

\* Every field of RuntimeState and every local of a call keeps its type.
THEOREM TypeCorrect == Spec => []TypeOK
<1>1. IInv => TypeOK
  BY DEF IInv
<1> QED BY <1>1, Invariance, PTL

\* Readers only ever hold snapshots that were active, unchanged.
THEOREM ReadersHistory == Spec => []ReadersSeeHistory
<1>1. IInv => ReadersSeeHistory
  <2> SUFFICES ASSUME IInv PROVE ReadersSeeHistory
    OBVIOUS
  <2>1. current.generation \in 1 .. Len(log) /\ current = log[current.generation]
    BY DEF IInv, LogInv, TypeOK, Snapshots
  <2> QED BY <2>1 DEF IInv, LogInv, ReadersSeeHistory, Live
<1> QED BY <1>1, Invariance, PTL

\* After a panic in a build the configuration is frozen.
THEOREM PoisonFreezes == Spec => PoisonFreezesConfig
<1>1. IInv /\ [Next]_vars => [poisoned => current' = current]_vars
  <2> SUFFICES ASSUME IInv, [Next]_vars, poisoned PROVE current' = current
    OBVIOUS
  <2>1. ASSUME NEW a \in Appliers PROVE ~ Store(a)
    BY NoneAssumption DEF IInv, PoisonInv, CallInv, Store, Holding
  <2> QED BY <2>1 DEF Next, vars, Submit, Lock, LockPoisoned, RejectRestart,
            LoadCurrent, Build, BuildFails, BuildPanics, ReturnApplied, Pin, Unpin
<1> QED BY <1>1, Invariance, PTL DEF Spec, PoisonFreezesConfig

-----------------------------------------------------------------------------
\* Which generation created the state of an upstream, for every snapshot that
\* was ever active; and the templates of its profiles.
GroupBorn(n, g, k) ==
  LET cfg == log[g].config.upstreams[n]
  IN IF cfg = None THEN k = 0
     ELSE /\ k \in 1 .. g
          /\ \A j \in k .. g : log[j].config.upstreams[n] = cfg
          /\ k > 1 => log[k - 1].config.upstreams[n] # cfg

ScpCurrent(s, p) ==
  s.profiles[p] # None =>
    /\ s.profiles[p].config = s.config.profiles[p]
    /\ \A n \in s.config.profiles[p].discovery_upstreams :
         s.profiles[p].templates[n] = s.config.upstreams[n]

BornInv == \A g \in 1 .. Len(log), n \in UpstreamNames :
  GroupBorn(n, g, log[g].groups[n])

ScpInv == \A g \in 1 .. Len(log), p \in ProfileNames : ScpCurrent(log[g], p)

\* What the store step of apply_snapshot appends to the log.
LEMMA StoreFacts ==
  ASSUME IInv, NEW a \in Appliers, Store(a)
  PROVE  /\ next[a] \in Configs
         /\ built[a] = BuildRuntimeSnapshot(next[a], Len(log) + 1, log[Len(log)])
         /\ log[Len(log)] # None
         /\ Len(log) \in Nat \ {0}
         /\ log' = Append(log, built[a])
         /\ Len(log') = Len(log) + 1
         /\ log'[Len(log) + 1] = built[a]
         /\ \A g \in 1 .. Len(log) : log'[g] = log[g]
<1>1. built[a] \in Snapshots
  <2>1. current \in Snapshots /\ current.generation + 1 \in Nat \ {0}
    BY DEF IInv, TypeOK, Snapshots
  <2> QED BY <2>1, BuildType DEF IInv, CallInv, Store
<1>2. log \in Seq(Snapshots) /\ log' = Append(log, built[a])
  BY DEF IInv, TypeOK, Store
<1>3. current \in Snapshots /\ Len(log) = current.generation /\ log[Len(log)] = current
  BY DEF IInv, LogInv, TypeOK
<1> QED BY <1>1, <1>2, <1>3, NoneIsNoRecord DEF IInv, CallInv, Store, Snapshots

\* No other step of apply_snapshot or of a reader touches the log.
LEMMA LogOnlyGrowsInStore ==
  ASSUME [Next]_vars PROVE log' = log \/ \E a \in Appliers : Store(a)
BY DEF Next, vars, Submit, Lock, LockPoisoned, RejectRestart, LoadCurrent, Build,
       BuildFails, BuildPanics, ReturnApplied, Pin, Unpin

\* A group of a stored snapshot was born in the generation that configured it so.
LEMMA BornInvariance == Spec => []BornInv
<1>1. Init => BornInv
  <2> SUFFICES ASSUME Init, NEW n \in UpstreamNames
               PROVE  Len(log) = 1 /\ GroupBorn(n, 1, log[1].groups[n])
    BY DEF BornInv
  <2>1. Len(log) = 1 /\ log[1] = BuildRuntimeSnapshot(Bootstrap, 1, None)
    BY DEF Init
  <2> QED BY <2>1 DEF GroupBorn, BuildRuntimeSnapshot, BuildGroups
<1>2. IInv /\ BornInv /\ [Next]_vars => BornInv'
  <2> SUFFICES ASSUME IInv, BornInv, [Next]_vars PROVE BornInv'
    OBVIOUS
  <2>1. CASE log' = log
    BY <2>1 DEF BornInv, GroupBorn
  <2>2. ASSUME NEW a \in Appliers, Store(a) PROVE BornInv'
    <3> DEFINE len == Len(log)
    <3>1. /\ built[a] = BuildRuntimeSnapshot(next[a], len + 1, log[len])
          /\ log[len] # None
          /\ len \in Nat \ {0}
          /\ Len(log') = len + 1
          /\ log'[len + 1] = built[a]
          /\ \A g \in 1 .. len : log'[g] = log[g]
      BY <2>2, StoreFacts
    <3> HIDE DEF len
    <3> SUFFICES ASSUME NEW g \in 1 .. len + 1, NEW n \in UpstreamNames
                 PROVE  GroupBorn(n, g, log[g].groups[n])'
      BY <3>1 DEF BornInv
    <3>2. CASE g \in 1 .. len
      <4>1. GroupBorn(n, g, log[g].groups[n])
        BY <3>2 DEF BornInv, len
      <4> DEFINE k == log[g].groups[n]
      <4>2. log'[g] = log[g]
        BY <3>1, <3>2
      <4>3. CASE log[g].config.upstreams[n] = None
        BY <4>1, <4>2, <4>3 DEF GroupBorn
      <4>4. CASE log[g].config.upstreams[n] # None
        <5>1. /\ k \in 1 .. g
              /\ \A j \in k .. g : log[j].config.upstreams[n] = log[g].config.upstreams[n]
              /\ k > 1 => log[k - 1].config.upstreams[n] # log[g].config.upstreams[n]
          BY <4>1, <4>4 DEF GroupBorn
        <5> HIDE DEF k
        <5>2. /\ \A j \in k .. g : log'[j] = log[j]
              /\ k > 1 => log'[k - 1] = log[k - 1]
          BY <3>1, <3>2, <5>1
        <5>3. log'[g].groups[n] = k
          BY <4>2 DEF k
        <5> QED BY <4>2, <4>4, <5>1, <5>2, <5>3 DEF GroupBorn
      <4> QED BY <4>3, <4>4
    <3>3. CASE g = len + 1
      <4> DEFINE cfg == next[a].upstreams[n]
                 old == log[len].config.upstreams[n]
      <4>1. /\ built[a].config.upstreams[n] = cfg
            /\ built[a].groups[n] = IF cfg = None THEN 0
                                    ELSE IF old = cfg THEN log[len].groups[n]
                                    ELSE len + 1
        BY <3>1 DEF BuildRuntimeSnapshot, BuildGroups
      <4>2. GroupBorn(n, len, log[len].groups[n])
        BY <3>1 DEF BornInv, len
      <4> HIDE DEF cfg
      <4>3. CASE cfg = None
        BY <3>1, <3>3, <4>1, <4>3 DEF GroupBorn
      <4>4. CASE cfg # None /\ old = cfg
        <5> DEFINE k == log[len].groups[n]
        <5>1. /\ k \in 1 .. len
              /\ \A j \in k .. len : log[j].config.upstreams[n] = cfg
              /\ k > 1 => log[k - 1].config.upstreams[n] # cfg
          BY <4>2, <4>4 DEF GroupBorn
        <5>2. built[a].groups[n] = k
          BY <4>1, <4>4
        <5> HIDE DEF k
        <5>3. /\ \A j \in k .. len : log'[j] = log[j]
              /\ k > 1 => log'[k - 1] = log[k - 1]
              /\ k .. len + 1 = (k .. len) \cup {len + 1}
          BY <3>1, <5>1
        <5>4. \A j \in k .. len + 1 : log'[j].config.upstreams[n] = cfg
          BY <3>1, <4>1, <5>1, <5>3
        <5> QED BY <3>1, <3>3, <4>1, <4>4, <5>1, <5>2, <5>3, <5>4 DEF GroupBorn
      <4>5. CASE cfg # None /\ old # cfg
        BY <3>1, <3>3, <4>1, <4>5 DEF GroupBorn
      <4> QED BY <4>3, <4>4, <4>5
    <3> QED BY <3>2, <3>3, <3>1
  <2> QED BY <2>1, <2>2, LogOnlyGrowsInStore
<1> QED BY <1>1, <1>2, Invariance, PTL DEF Spec

\* A group's runtime state lives exactly as long as its configuration is unchanged.
THEOREM GroupStateTheorem == Spec => []GroupStateFollowsConfig
<1>1. IInv /\ ReadersSeeHistory /\ BornInv => GroupStateFollowsConfig
  <2> SUFFICES ASSUME IInv, ReadersSeeHistory, BornInv,
                      NEW s \in Live, NEW n \in UpstreamNames
               PROVE  GroupBorn(n, s.generation, s.groups[n])
                      /\ s = log[s.generation]
    BY DEF GroupStateFollowsConfig, GroupBorn
  <2> QED BY DEF ReadersSeeHistory, BornInv
<1> QED BY <1>1, Invariance, ReadersHistory, BornInvariance, PTL

\* Every profile of every stored snapshot has the templates of its own snapshot.
LEMMA ScpInvariance == Spec => []ScpInv
<1>1. ASSUME NEW c \in Configs, NEW g, NEW prev, NEW p \in ProfileNames,
             prev # None => ScpCurrent(prev, p)
      PROVE  ScpCurrent(BuildRuntimeSnapshot(c, g, prev), p)
  BY <1>1 DEF ScpCurrent, BuildRuntimeSnapshot, BuildProfiles, Matches, NewScp,
       TemplatesOf
<1>2. Init => ScpInv
  <2> SUFFICES ASSUME Init, NEW p \in ProfileNames
               PROVE  Len(log) = 1 /\ ScpCurrent(log[1], p)
    BY DEF ScpInv
  <2> QED BY <1>1, ConfigsAssumption DEF Init
<1>3. IInv /\ ScpInv /\ [Next]_vars => ScpInv'
  <2> SUFFICES ASSUME IInv, ScpInv, [Next]_vars PROVE ScpInv'
    OBVIOUS
  <2>1. CASE log' = log
    BY <2>1 DEF ScpInv, ScpCurrent
  <2>2. ASSUME NEW a \in Appliers, Store(a) PROVE ScpInv'
    <3>1. /\ next[a] \in Configs
          /\ built[a] = BuildRuntimeSnapshot(next[a], Len(log) + 1, log[Len(log)])
          /\ Len(log) \in Nat \ {0}
          /\ Len(log') = Len(log) + 1
          /\ log'[Len(log) + 1] = built[a]
          /\ \A g \in 1 .. Len(log) : log'[g] = log[g]
      BY <2>2, StoreFacts
    <3> SUFFICES ASSUME NEW g \in 1 .. Len(log) + 1, NEW p \in ProfileNames
                 PROVE  ScpCurrent(log'[g], p)
      BY <3>1 DEF ScpInv, ScpCurrent
    <3>2. CASE g \in 1 .. Len(log)
      BY <3>1, <3>2 DEF ScpInv
    <3>3. CASE g = Len(log) + 1
      <4>1. ScpCurrent(log[Len(log)], p)
        BY <3>1 DEF ScpInv
      <4> QED BY <1>1, <3>1, <3>3, <4>1
    <3> QED BY <3>1, <3>2, <3>3
  <2> QED BY <2>1, <2>2, LogOnlyGrowsInStore
<1> QED BY <1>2, <1>3, Invariance, PTL DEF Spec

\* A profile handed on across generations still has that generation's templates.
THEOREM ScpTemplates == Spec => []ScpTemplatesCurrent
<1>1. ReadersSeeHistory /\ ScpInv => ScpTemplatesCurrent
  BY DEF ReadersSeeHistory, ScpInv, ScpTemplatesCurrent, ScpCurrent
<1> QED BY <1>1, ReadersHistory, ScpInvariance, PTL

\* A snapshot takes over only what its own configuration would have created.
THEOREM InheritedState == Spec => []InheritedStateCurrent
<1> QED BY GroupStateTheorem, ScpTemplates, PTL DEF InheritedStateCurrent

-----------------------------------------------------------------------------
\* What is known of the last answer of each caller.
AnswerInv ==
  \A a \in Appliers :
    /\ pc[a] # "idle" => result[a] = None
    /\ result[a] # None /\ result[a].applied =>
         /\ result[a].active_generation \in (start[a] + 1) .. Len(log)
         /\ result[a].active_version = log[result[a].active_generation].version
         /\ \A b \in Appliers \ {a} :
              /\ result[b] # None /\ result[b].applied =>
                   result[b].active_generation # result[a].active_generation
              /\ pc[b] = "stored" => built[b].generation # result[a].active_generation

\* The generation of an answer is that of no other call that stored a snapshot.
LEMMA AnswerInvariance == Spec => []AnswerInv
<1>1. Init => AnswerInv
  BY DEF Init, AnswerInv
<1>2. IInv /\ AnswerInv /\ [Next]_vars => AnswerInv'
  <2> SUFFICES ASSUME IInv, AnswerInv, [Next]_vars PROVE AnswerInv'
    OBVIOUS
  <2> USE DEF IInv, TypeOK
  <2>1. ASSUME NEW a \in Appliers, Submit(a) PROVE AnswerInv'
    BY <2>1 DEF Submit, AnswerInv
  <2>2. ASSUME NEW a \in Appliers, Lock(a) \/ LoadCurrent(a) PROVE AnswerInv'
    <3>1. \E l \in {"locked", "building"} : pc' = [pc EXCEPT ![a] = l]
      BY <2>2 DEF Lock, LoadCurrent
    <3>2. pc[a] # "idle" /\ UNCHANGED <<built, result, log, start>>
      BY <2>2 DEF Lock, LoadCurrent
    <3> QED BY <3>1, <3>2 DEF AnswerInv
  <2>3. ASSUME NEW a \in Appliers, NEW res, Return(a, res),
               res = None \/ res.applied = FALSE,
               UNCHANGED <<log, start>>
        PROVE  AnswerInv'
    BY <2>3 DEF Return, AnswerInv
  <2>4. ASSUME NEW a \in Appliers,
               LockPoisoned(a) \/ RejectRestart(a) \/ BuildFails(a) \/ BuildPanics(a)
        PROVE  AnswerInv'
    BY <2>3, <2>4 DEF LockPoisoned, RejectRestart, BuildFails, BuildPanics, Rejected
  <2>5. ASSUME NEW a \in Appliers, Build(a) PROVE AnswerInv'
    BY <2>5 DEF Build, AnswerInv
  <2>6. ASSUME NEW a \in Appliers, Store(a) PROVE AnswerInv'
    <3>1. /\ Len(log) \in Nat
          /\ Len(log') = Len(log) + 1
          /\ \A g \in 1 .. Len(log) : log'[g] = log[g]
          /\ built[a].generation = Len(log) + 1
      BY <2>6, StoreFacts DEF BuildRuntimeSnapshot
    <3> QED BY <2>6, <3>1 DEF Store, AnswerInv
  <2>7. ASSUME NEW a \in Appliers, ReturnApplied(a) PROVE AnswerInv'
    <3>1. /\ built[a] = current
          /\ current.generation = Len(log) /\ log[Len(log)] = current
          /\ current.generation \in Nat
          /\ start[a] < current.generation
          /\ pc[a] = "stored" /\ lock = a
          /\ start[a] \in Nat
      BY <2>7 DEF ReturnApplied, CallInv, LogInv, Snapshots, Holding
    <3>2. \A b \in Appliers \ {a} : pc[b] # "stored"
      BY <3>1 DEF CallInv, Holding
    <3> QED BY <2>7, <3>1, <3>2 DEF ReturnApplied, Return, AnswerInv
  <2>8. CASE UNCHANGED <<pc, built, result, log, start>>
    BY <2>8 DEF AnswerInv
  <2> QED BY <2>1, <2>2, <2>4, <2>5, <2>6, <2>7, <2>8 DEF Next, vars, Pin, Unpin
<1> QED BY <1>1, <1>2, Invariance, PTL DEF Spec

\* No generation is attributed to two callers.
THEOREM AnswersDistinct == Spec => []AppliedAnswersDistinct
<1>1. AnswerInv => AppliedAnswersDistinct
  BY DEF AnswerInv, AppliedAnswersDistinct
<1> QED BY <1>1, AnswerInvariance, PTL

-----------------------------------------------------------------------------
\* The refinement: the variables of SnapshotRegister under the mapping.
LogView == [g \in 1 .. Len(log) |-> log[g].config]

\* The configurations of the log as the register sees them.
LEMMA LogViewFacts ==
  ASSUME IInv
  PROVE  /\ LogView \in Seq(Configs)
         /\ Len(LogView) = Len(log)
         /\ Len(log) = current.generation
         /\ Len(log) \in Nat \ {0}
         /\ LogView[1].fingerprint = BootstrapConfig
<1>1. /\ Len(log) = current.generation
      /\ Len(log) \in Nat \ {0}
  BY DEF IInv, LogInv, TypeOK, Snapshots
<1>2. LogView \in [1 .. Len(log) -> Configs]
  <2>1. \A g \in 1 .. Len(log) : log[g] \in Snapshots
    BY <1>1 DEF IInv, TypeOK
  <2>2. \A s \in Snapshots : s.config \in Configs
    BY DEF Snapshots
  <2> QED BY <2>1, <2>2 DEF LogView
<1>3. LogView \in Seq(Configs)
  BY <1>1, <1>2, SeqDef
<1>4. Len(LogView) \in Nat /\ DOMAIN LogView = 1 .. Len(LogView)
  BY <1>3, LenProperties
<1>5. 1 .. Len(LogView) = 1 .. Len(log)
  BY <1>4 DEF LogView
<1>6. Len(LogView) = Len(log)
  BY <1>1, <1>4, <1>5
<1>7. LogView[1].fingerprint = BootstrapConfig
  BY <1>1 DEF IInv, LogInv, LogView
<1> QED BY <1>1, <1>3, <1>6, <1>7

\* A step that returns a result is a Register step as soon as the result is one
\* the register may give.
LEMMA CallViewFacts ==
  ASSUME IInv, NEW a \in Appliers, pc[a] # "idle"
  PROVE  /\ CallView[a].config = next[a]
         /\ CallView[a].from = start[a]
         /\ pc[a] = "stored" => CallView[a].gen = built[a].generation
         /\ pc[a] # "stored" => CallView[a].gen = 0
         /\ CallView[a] # None
<1>1. CallView[a] = [config |-> next[a], from |-> start[a],
              gen |-> IF pc[a] = "stored" THEN built[a].generation ELSE 0]
  BY DEF CallView
<1>2. CallView[a] \in [config : Configs, from : Nat, gen : Nat]
  BY <1>1 DEF IInv, TypeOK, CallInv, Snapshots
<1> QED BY <1>1, <1>2, NoneIsNoRecord

\* Returning a result changes the view of that call only.
LEMMA ReturnView ==
  ASSUME IInv, NEW a \in Appliers, NEW res, Return(a, res),
         UNCHANGED <<log, start>>
  PROVE  /\ CallView' = [CallView EXCEPT ![a] = None]
         /\ result' = [result EXCEPT ![a] = res]
         /\ LogView' = LogView
BY DEF Return, CallView, LogView, IInv, TypeOK

\* The initial state of RuntimeState is an initial state of the register.
LEMMA InitRefines == Init => Register!Init
<1> SUFFICES ASSUME Init PROVE Register!Init
  OBVIOUS
<1>1. LogView = <<Bootstrap>>
  BY DEF Init, LogView, BuildRuntimeSnapshot
<1>2. CallView = [a \in Appliers |-> None]
  BY DEF Init, CallView
<1> QED BY <1>1, <1>2, ConfigsAssumption DEF Register!Init, Init, LogView

\* Every step of RuntimeState is a step of the register or leaves its view alone.
LEMMA NextRefines ==
  ASSUME IInv, AnswerInv, [Next]_vars PROVE [Register!Next]_(Register!vars)
<1> DEFINE RegVars == <<LogView, CallView, result>>
<1>1. SUFFICES Register!Next \/ RegVars' = RegVars
  BY DEF Register!vars, LogView
<1>2. ASSUME NEW a \in Appliers, Submit(a) PROVE Register!Call(a)
  <2>1. PICK c \in Configs : next' = [next EXCEPT ![a] = c]
    BY <1>2 DEF Submit
  <2>2. CallView[a] = None
    BY <1>2 DEF Submit, CallView
  <2>3. CallView' = [CallView EXCEPT ![a] =
                       [config |-> c, from |-> Len(LogView), gen |-> 0]]
    BY <1>2, <2>1, LogViewFacts DEF Submit, CallView, IInv, TypeOK
  <2>4. result' = [result EXCEPT ![a] = None] /\ LogView' = LogView
    BY <1>2 DEF Submit, LogView
  <2> QED BY <2>2, <2>3, <2>4 DEF Register!Call, LogView
<1>3. ASSUME NEW a \in Appliers, Lock(a) \/ LoadCurrent(a) \/ Build(a)
      PROVE  RegVars' = RegVars
  <2>1. UNCHANGED <<next, start, result, log>>
    BY <1>3 DEF Lock, LoadCurrent, Build
  <2>2. PICK l \in {"locked", "building", "built"} : pc' = [pc EXCEPT ![a] = l]
    BY <1>3 DEF Lock, LoadCurrent, Build
  <2>3. pc[a] \notin {"idle", "stored"}
    BY <1>3 DEF Lock, LoadCurrent, Build
  <2>4. \A b \in Appliers : b # a => pc'[b] = pc[b] /\ built'[b] = built[b]
    BY <1>3 DEF Lock, LoadCurrent, Build, IInv, TypeOK
  <2>5. CallView' = CallView
    BY <2>1, <2>2, <2>3, <2>4 DEF CallView, IInv, TypeOK
  <2> QED BY <2>1, <2>5 DEF LogView
<1>4. ASSUME NEW a \in Appliers, NEW restart \in BOOLEAN, pc[a] \notin {"idle", "stored"},
             restart => next[a].fingerprint # BootstrapConfig,
             Return(a, Rejected(restart)), UNCHANGED <<log, start>>
      PROVE  Register!AnswerRejected(a)
  <2> DEFINE g == Len(log)
  <2>1. CallView[a] # None /\ CallView[a].gen = 0 /\ CallView[a].from = start[a]
        /\ CallView[a].config = next[a]
    BY <1>4, CallViewFacts
  <2>2. g \in CallView[a].from .. Len(LogView)
    BY <2>1, LogViewFacts DEF IInv, CallInv, TypeOK
  <2>3. LogView[g].version = current.version /\ g = current.generation
    BY LogViewFacts DEF IInv, LogInv, LogView
  <2>4. /\ CallView' = [CallView EXCEPT ![a] = None]
        /\ result' = [result EXCEPT ![a] =
             [applied |-> FALSE, restart_required |-> restart,
              active_version |-> LogView[g].version, active_generation |-> g]]
        /\ LogView' = LogView
    BY <1>4, <2>3, ReturnView DEF Rejected
  <2>5. restart => CallView[a].config.fingerprint # LogView[1].fingerprint
    BY <1>4, <2>1, LogViewFacts
  <2> HIDE DEF g
  <2> QED BY <2>1, <2>2, <2>4, <2>5 DEF Register!AnswerRejected, LogView
<1>5. ASSUME NEW a \in Appliers, LockPoisoned(a) \/ RejectRestart(a) \/ BuildFails(a)
      PROVE  Register!AnswerRejected(a)
  <2>1. CASE LockPoisoned(a)
    BY <1>4, <2>1 DEF LockPoisoned
  <2>2. CASE RejectRestart(a)
    BY <1>4, <2>2 DEF RejectRestart
  <2>3. CASE BuildFails(a)
    <3>1. base[a] = current
      BY <2>3 DEF BuildFails, IInv, CallInv
    <3>2. Return(a, Rejected(FALSE))
      BY <2>3, <3>1 DEF BuildFails, Rejected
    <3> QED BY <1>4, <2>3, <3>2 DEF BuildFails
  <2> QED BY <1>5, <2>1, <2>2, <2>3
<1>6. ASSUME NEW a \in Appliers, BuildPanics(a) PROVE Register!Abort(a)
  <2>1. CallView[a] # None /\ CallView[a].gen = 0
    BY <1>6, CallViewFacts DEF BuildPanics
  <2>2. result[a] = None
    BY <1>6 DEF BuildPanics, AnswerInv
  <2>3. /\ CallView' = [CallView EXCEPT ![a] = None]
        /\ result' = [result EXCEPT ![a] = None]
        /\ LogView' = LogView
    BY <1>6, ReturnView DEF BuildPanics
  <2>4. result' = result
    BY <2>2, <2>3 DEF IInv, TypeOK
  <2> QED BY <2>1, <2>3, <2>4 DEF Register!Abort, LogView
<1>7. ASSUME NEW a \in Appliers, Store(a) PROVE Register!Commit(a)
  <2>1. /\ next[a] \in Configs
        /\ built[a].config = next[a] /\ built[a].generation = Len(log) + 1
        /\ Len(log) \in Nat \ {0}
        /\ Len(log') = Len(log) + 1
        /\ log'[Len(log) + 1] = built[a]
        /\ \A g \in 1 .. Len(log) : log'[g] = log[g]
    <3>1. built[a] = BuildRuntimeSnapshot(next[a], Len(log) + 1, log[Len(log)])
      BY <1>7, StoreFacts
    <3>2. built[a].config = next[a] /\ built[a].generation = Len(log) + 1
      BY <3>1 DEF BuildRuntimeSnapshot
    <3> QED BY <1>7, <3>2, StoreFacts
  <2>2. CallView[a] # None /\ CallView[a].gen = 0 /\ CallView[a].config = next[a]
    BY <1>7, CallViewFacts DEF Store
  <2>3. next[a].fingerprint = LogView[1].fingerprint
    BY <1>7, LogViewFacts DEF Store, IInv, CallInv
  <2>4. LogView' = Append(LogView, next[a])
    <3>1. /\ LogView' = [g \in 1 .. Len(log) + 1 |-> log'[g].config]
          /\ LogView \in Seq(Configs) /\ Len(LogView) = Len(log)
      BY <2>1, LogViewFacts DEF LogView
    <3>2. /\ Append(LogView, next[a]) \in Seq(Configs)
          /\ Len(Append(LogView, next[a])) = Len(log) + 1
          /\ Append(LogView, next[a])[Len(log) + 1] = next[a]
          /\ \A g \in 1 .. Len(log) : Append(LogView, next[a])[g] = LogView[g]
      BY <2>1, <3>1, AppendProperties
    <3>3. Append(LogView, next[a]) =
            [g \in 1 .. Len(log) + 1 |-> Append(LogView, next[a])[g]]
      BY <3>2, LenProperties
    <3>4. \A g \in 1 .. Len(log) + 1 : log'[g].config = Append(LogView, next[a])[g]
      BY <2>1, <3>2 DEF LogView
    <3> QED BY <3>1, <3>3, <3>4
  <2>5. CallView' = [CallView EXCEPT ![a].gen = Len(LogView) + 1]
    BY <1>7, <2>1, <2>2, LogViewFacts, CallViewFacts DEF Store, CallView, IInv, TypeOK
  <2>6. result' = result
    BY <1>7 DEF Store
  <2> QED BY <2>2, <2>3, <2>4, <2>5, <2>6 DEF Register!Commit, LogView
<1>8. ASSUME NEW a \in Appliers, ReturnApplied(a) PROVE Register!AnswerApplied(a)
  <2>1. /\ CallView[a] # None
        /\ CallView[a].gen = built[a].generation
        /\ CallView[a].config.version = built[a].version
        /\ CallView[a].gen # 0
    BY <1>8, CallViewFacts DEF ReturnApplied, IInv, CallInv, TypeOK, Snapshots
  <2>2. /\ CallView' = [CallView EXCEPT ![a] = None]
        /\ result' = [result EXCEPT ![a] =
             [applied |-> TRUE, restart_required |-> FALSE,
              active_version |-> CallView[a].config.version,
              active_generation |-> CallView[a].gen]]
        /\ LogView' = LogView
    BY <1>8, <2>1, ReturnView DEF ReturnApplied
  <2> QED BY <2>1, <2>2 DEF Register!AnswerApplied, LogView
<1>9. CASE UNCHANGED <<pc, next, built, result, log, start>>
  BY <1>9 DEF LogView, CallView
<1> QED BY <1>2, <1>3, <1>5, <1>6, <1>7, <1>8, <1>9
        DEF Next, vars, Pin, Unpin, Register!Next

\* RuntimeState implements the abstract register, for any number of callers.
THEOREM Refinement == Spec => ImplementsRegister
<1> QED BY InitRefines, NextRefines, Invariance, AnswerInvariance, PTL
        DEF Spec, ImplementsRegister, Register!Spec
=============================================================================
