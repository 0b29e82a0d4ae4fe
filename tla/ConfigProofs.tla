---------------------------- MODULE ConfigProofs ----------------------------
(***************************************************************************)
(* Theorems about the configuration compiler and the snapshot codec: the   *)
(* compiler and Ir::validate agree, and every router in use is sound.      *)
(*                                                                         *)
(* Soundness is a property of the compiler: whatever it accepts, from      *)
(* lists of servers, sockets, locations and names (HttpShape), becomes a   *)
(* sound router.  That files, snapshots sent by clients and exports that   *)
(* are sent back give it such lists is proved for each of them; for the    *)
(* exports, this needs the shape of the router that was exported, which is *)
(* why the invariant CodecInv carries it.                                  *)
(***************************************************************************)
EXTENDS SnapshotCodec, Integers, FiniteSetTheorems, WellFoundedInduction, TLAPS

-----------------------------------------------------------------------------
(* Sequences joined one after the other: FlattenSeq is a recursive function,  *)
(* about which induction goes by a smallest counterexample.                   *)

\* Induction over the natural numbers: a set of counterexamples has a smallest one.
LEMMA SmallestNat ==
  ASSUME NEW T \in SUBSET Nat, T # {}
  PROVE  \E x \in T : \A y \in T : x <= y
<1>1. PICK x \in T : \A y \in T : ~(<<y, x>> \in OpToRel(<, Nat))
  BY NatLessThanWellFounded, WFMin
<1>2. \A y \in T : ~(y < x)
  BY <1>1 DEF OpToRel
<1> QED BY <1>2

\* f is the recursive function behind FlattenSeq, for the first m sequences.
Flattens(f, m, seqs) ==
  f = [i \in 1 .. m |-> IF i = 1 THEN seqs[i] ELSE f[i - 1] \o seqs[i]]

\* Its values are lists of what the sequences consist of.
LEMMA FlattensTyped ==
  ASSUME NEW S, NEW m \in Nat, NEW seqs \in [1 .. m -> Seq(S)], NEW f, Flattens(f, m, seqs)
  PROVE  f \in [1 .. m -> Seq(S)]
<1>0. /\ \A i \in 1 .. m : f[i] = IF i = 1 THEN seqs[i] ELSE f[i - 1] \o seqs[i]
      /\ f = [i \in 1 .. m |-> f[i]]
  BY DEF Flattens
<1> DEFINE bad == {i \in 1 .. m : f[i] \notin Seq(S)}
<1>1. bad = {}
  <2> SUFFICES ASSUME bad # {} PROVE FALSE
    OBVIOUS
  <2>1. PICK k \in bad : \A j \in bad : k <= j
    <3>1. bad \in SUBSET Nat
      OBVIOUS
    <3> HIDE DEF bad
    <3> QED BY <3>1, SmallestNat
  <2>2. k \in 1 .. m /\ f[k] \notin Seq(S)
    BY <2>1
  <2>3. k # 1
    BY <1>0, <2>2
  <2>4. k - 1 \in 1 .. m /\ k - 1 \notin bad
    <3> HIDE DEF bad
    <3>1. k - 1 \in 1 .. m /\ ~(k <= k - 1)
      BY <2>2, <2>3
    <3> QED BY <2>1, <3>1
  <2>5. f[k - 1] \in Seq(S) /\ seqs[k] \in Seq(S)
    BY <2>2, <2>4
  <2>6. f[k - 1] \o seqs[k] \in Seq(S)
    <3> HIDE DEF bad
    <3> QED BY <2>5
  <2> QED BY <1>0, <2>2, <2>3, <2>6
<1> QED BY <1>0, <1>1

\* The recursion has a solution, for every number of sequences.
LEMMA FlattensExists ==
  ASSUME NEW m \in Nat, NEW seqs
  PROVE  \E f : Flattens(f, m, seqs)
<1> DEFINE bad == {k \in 0 .. m : ~ \E f : Flattens(f, k, seqs)}
<1>1. bad = {}
  <2> SUFFICES ASSUME bad # {} PROVE FALSE
    OBVIOUS
  <2>1. PICK k \in bad : \A j \in bad : k <= j
    <3>1. bad \in SUBSET Nat
      OBVIOUS
    <3> HIDE DEF bad
    <3> QED BY <3>1, SmallestNat
  <2>2. k \in 0 .. m /\ ~ \E f : Flattens(f, k, seqs)
    BY <2>1
  <2>3. CASE k = 0
    <3>1. Flattens(<<>>, k, seqs)
      BY <2>3 DEF Flattens
    <3> QED BY <2>2, <3>1
  <2>4. CASE k # 0
    <3>1. k - 1 \in 0 .. m /\ k - 1 \notin bad
      <4> HIDE DEF bad
      <4>1. k - 1 \in 0 .. m /\ ~(k <= k - 1)
        BY <2>2, <2>4
      <4> QED BY <2>1, <4>1
    <3>2. PICK f : Flattens(f, k - 1, seqs)
      BY <3>1
    <3> DEFINE g == [i \in 1 .. k |-> IF i = 1 THEN seqs[i] ELSE f[i - 1] \o seqs[i]]
    <3> HIDE DEF bad
    <3>3. \A i \in 1 .. k - 1 : g[i] = f[i]
      <4>1. \A i \in 1 .. k - 1 : f[i] = IF i = 1 THEN seqs[i] ELSE f[i - 1] \o seqs[i]
        BY <3>2 DEF Flattens
      <4>2. \A i \in 1 .. k - 1 : i \in 1 .. k
        BY <2>2
      <4> QED BY <4>1, <4>2, Zenon
    <3>4. \A i \in 1 .. k : i # 1 => i - 1 \in 1 .. k - 1
      BY <2>2
    <3>5. g = [i \in 1 .. k |-> IF i = 1 THEN seqs[i] ELSE g[i - 1] \o seqs[i]]
      BY <3>3, <3>4
    <3>6. Flattens(g, k, seqs)
      BY <3>5, Zenon DEF Flattens
    <3> QED BY <2>2, <3>6
  <2> QED BY <2>3, <2>4
<1>2. m \in 0 .. m /\ m \notin bad
  <2> HIDE DEF bad
  <2> QED BY <1>1
<1> QED BY <1>2

\* Sequences over S joined one after the other are a sequence over S.
LEMMA FlattenSeqTyped ==
  ASSUME NEW S, NEW seqs \in Seq(Seq(S))
  PROVE  FlattenSeq(seqs) \in Seq(S)
<1>1. PICK m \in Nat : m = Len(seqs) /\ seqs \in [1 .. m -> Seq(S)]
  OBVIOUS
<1>2. CASE m = 0
  <2>1. FlattenSeq(seqs) = seqs
    BY <1>1, <1>2 DEF FlattenSeq
  <2>2. seqs = <<>>
    BY <1>1, <1>2
  <2> QED BY <2>1, <2>2
<1>3. CASE m # 0
  <2> DEFINE flat == CHOOSE f : Flattens(f, m, seqs)
  <2>1. Flattens(flat, m, seqs)
    BY FlattensExists
  <2>2. FlattenSeq(seqs) = flat[m]
    BY <1>1, <1>3, Zenon DEF FlattenSeq, Flattens
  <2> HIDE DEF flat
  <2>3. flat \in [1 .. m -> Seq(S)]
    BY <1>1, <2>1, FlattensTyped
  <2>4. m \in 1 .. m
    BY <1>3
  <2> QED BY <2>2, <2>3, <2>4
<1> QED BY <1>2, <1>3

-----------------------------------------------------------------------------
(* Folds over sequences: FoldLeft is defined by recursion over the sets of    *)
(* indices that are left.                                                     *)

\* A set of numbers that is bounded has a greatest one.
LEMMA MaxIs ==
  ASSUME NEW n \in Nat, NEW s \in SUBSET (0 .. n), s # {}
  PROVE  Max(s) \in s /\ \A y \in s : y <= Max(s)
<1> DEFINE bounds == {m \in Nat : \A y \in s : y <= m}
<1>1. bounds \in SUBSET Nat /\ n \in bounds
  OBVIOUS
<1>2. PICK m \in bounds : \A k \in bounds : m <= k
  BY <1>1, SmallestNat
<1>3. m \in s
  <2> SUFFICES ASSUME m \notin s PROVE FALSE
    OBVIOUS
  <2>1. m - 1 \in bounds
    <3>1. PICK y \in s : TRUE
      OBVIOUS
    <3>2. y \in Nat /\ y <= m /\ y # m
      BY <1>2, <3>1
    <3> QED BY <1>2, <3>2
  <2> QED BY <1>2, <2>1
<1>4. \E x \in s : \A y \in s : x >= y
  BY <1>2, <1>3
<1>5. Max(s) \in s /\ \A y \in s : Max(s) >= y
  BY <1>4 DEF Max
<1> QED BY <1>5

\* A set of natural numbers has a least one, which Min is.
LEMMA MinIs ==
  ASSUME NEW s \in SUBSET Nat, s # {}
  PROVE  Min(s) \in s /\ \A y \in s : Min(s) <= y
<1>1. \E x \in s : \A y \in s : x <= y
  BY SmallestNat
<1> QED BY <1>1 DEF Min

\* g is the recursive function behind a fold of n elements: step gives what comes
\* next of the value so far and the index of an element.
IsFold(g, n, base, step) ==
  g = [s \in SUBSET (1 .. n) |-> IF s = {} THEN base ELSE step[<<g[s \ {Max(s)}], Max(s)>>]]

\* The recursion of a fold has a solution, built up by the greatest index of the sets.
LEMMA FoldExists ==
  ASSUME NEW n \in Nat, NEW D, NEW base \in D, NEW step \in [D \X (1 .. n) -> D]
  PROVE  \E g \in [SUBSET (1 .. n) -> D] : IsFold(g, n, base, step)
<1> DEFINE Upto(m, g) ==
             /\ g \in [SUBSET (1 .. m) -> D]
             /\ g = [s \in SUBSET (1 .. m) |->
                       IF s = {} THEN base ELSE step[<<g[s \ {Max(s)}], Max(s)>>]]
           bad == {m \in 0 .. n : ~ \E g : Upto(m, g)}
<1>1. bad = {}
  <2> SUFFICES ASSUME bad # {} PROVE FALSE
    OBVIOUS
  <2>1. PICK m \in bad : \A k \in bad : m <= k
    <3>1. bad \in SUBSET Nat
      OBVIOUS
    <3> HIDE DEF bad
    <3> QED BY <3>1, SmallestNat
  <2>2. m \in 0 .. n
    BY <2>1
  <2>3. CASE m = 0
    <3> DEFINE g == [s \in SUBSET (1 .. m) |-> base]
    <3>1. \A s \in SUBSET (1 .. m) : s = {}
      BY <2>3
    <3>2. Upto(m, g)
      BY <3>1
    <3> QED BY <2>1, <3>2
  <2>4. CASE m # 0
    <3>1. m - 1 \in 0 .. n /\ m - 1 \notin bad
      <4>1. bad \subseteq Nat
        OBVIOUS
      <4> HIDE DEF bad
      <4> QED BY <2>1, <2>2, <2>4, <4>1
    <3>2. PICK f : Upto(m - 1, f)
      BY <3>1
    <3> DEFINE g == [s \in SUBSET (1 .. m) |->
                       IF s = {} THEN base ELSE step[<<f[s \ {Max(s)}], Max(s)>>]]
    <3>3. ASSUME NEW s \in SUBSET (1 .. m), s # {}
          PROVE  /\ Max(s) \in 1 .. n
                 /\ s \ {Max(s)} \in SUBSET (1 .. m - 1)
                 /\ s \ {Max(s)} \in SUBSET (1 .. m)
      <4> HIDE DEF bad, Upto
      <4>0. m \in Nat /\ s \in SUBSET (0 .. m)
        BY <2>2
      <4>1. Max(s) \in s /\ \A y \in s : y <= Max(s)
        BY <3>3, <4>0, MaxIs
      <4>2. \A y \in s : y \in 1 .. m /\ y \in 1 .. n
        BY <2>2
      <4>3. ASSUME NEW y \in s, y # Max(s) PROVE y \in 1 .. m - 1
        <5>1. /\ y \in 1 .. m /\ y <= Max(s) /\ y # Max(s)
              /\ Max(s) \in 1 .. m /\ m \in Nat
          BY <4>0, <4>1, <4>2, <4>3
        <5> QED BY <5>1
      <4> QED BY <4>1, <4>2, <4>3
    <3>4. g \in [SUBSET (1 .. m) -> D]
      <4>1. ASSUME NEW s \in SUBSET (1 .. m), s # {}
            PROVE  step[<<f[s \ {Max(s)}], Max(s)>>] \in D
        <5>1. f[s \ {Max(s)}] \in D /\ Max(s) \in 1 .. n
          BY <3>2, <3>3, <4>1
        <5> QED BY <5>1
      <4> QED BY <4>1
    <3>5. ASSUME NEW s \in SUBSET (1 .. m - 1)
          PROVE  g[s] = f[s]
      <4>1. s \in SUBSET (1 .. m)
        BY <2>2, <2>4
      <4>2. f[s] = IF s = {} THEN base ELSE step[<<f[s \ {Max(s)}], Max(s)>>]
        BY <3>2
      <4> QED BY <4>1, <4>2
    <3>6. g = [s \in SUBSET (1 .. m) |->
                 IF s = {} THEN base ELSE step[<<g[s \ {Max(s)}], Max(s)>>]]
      BY <3>3, <3>5
    <3>7. Upto(m, g)
      BY <3>4, <3>6, Zenon
    <3> QED BY <2>1, <3>7
  <2> QED BY <2>3, <2>4
<1>2. n \in 0 .. n /\ n \notin bad
  <2> HIDE DEF bad
  <2> QED BY <1>1
<1>3. PICK g : Upto(n, g)
  BY <1>2
<1> QED BY <1>3 DEF IsFold

\* The values of a solution at the initial parts of the sequence.
LEMMA InitialPart ==
  ASSUME NEW n \in Nat, NEW k \in 1 .. n
  PROVE  /\ (1 .. k) \in SUBSET (1 .. n) /\ (1 .. k) # {}
         /\ Max(1 .. k) = k /\ (1 .. k) \ {Max(1 .. k)} = 1 .. (k - 1)
<1>1. (1 .. k) \in SUBSET (1 .. n) /\ (1 .. k) # {} /\ k \in 1 .. k
  OBVIOUS
<1>2. Max(1 .. k) \in 1 .. k /\ \A y \in 1 .. k : y <= Max(1 .. k)
  <2>1. (1 .. k) \in SUBSET (0 .. n)
    OBVIOUS
  <2> QED BY <1>1, <2>1, MaxIs
<1>3. Max(1 .. k) = k
  BY <1>1, <1>2
<1>4. (1 .. k) \ {k} = 1 .. (k - 1)
  OBVIOUS
<1> QED BY <1>1, <1>3, <1>4

-----------------------------------------------------------------------------
(* Ranks: how many elements of a finite set precede one in a linear order.    *)

\* The pairs R order S strictly and linearly.
Orders(R, S) ==
  /\ \A x \in S : <<x, x>> \notin R
  /\ \A x, y, z \in S : <<x, y>> \in R /\ <<y, z>> \in R => <<x, z>> \in R
  /\ \A x, y \in S : x # y => <<x, y>> \in R \/ <<y, x>> \in R

RankIn(R, S, x) == Cardinality({y \in S : <<y, x>> \in R})

\* The rank grows along the order and stays below the number of elements.
LEMMA RankGrows ==
  ASSUME NEW S, IsFiniteSet(S), NEW R, Orders(R, S), NEW x \in S
  PROVE  /\ RankIn(R, S, x) \in Nat /\ RankIn(R, S, x) < Cardinality(S)
         /\ \A y \in S : <<x, y>> \in R => RankIn(R, S, x) < RankIn(R, S, y)
<1> DEFINE below(y) == {z \in S : <<z, y>> \in R}
<1>1. \A y \in S : /\ IsFiniteSet(below(y)) /\ Cardinality(below(y)) \in Nat
                   /\ RankIn(R, S, y) = Cardinality(below(y))
  <2>1. \A y \in S : below(y) \in SUBSET S
    OBVIOUS
  <2>2. \A y \in S : IsFiniteSet(below(y))
    BY <2>1, FS_Subset
  <2> QED BY <2>2, FS_CardinalityType DEF RankIn
<1>2. ASSUME NEW T \in SUBSET S, below(x) \subseteq T, x \in T
      PROVE  Cardinality(below(x)) < Cardinality(T)
  <2>1. IsFiniteSet(T)
    BY FS_Subset
  <2>2. x \notin below(x)
    BY DEF Orders
  <2>3. below(x) \in SUBSET T /\ T # below(x)
    BY <1>2, <2>2
  <2>4. Cardinality(below(x)) <= Cardinality(T) /\ Cardinality(below(x)) # Cardinality(T)
    BY <2>1, <2>3, FS_Subset
  <2>5. Cardinality(below(x)) \in Nat /\ Cardinality(T) \in Nat
    BY <1>1, <2>1, FS_CardinalityType
  <2> HIDE DEF below
  <2> QED BY <2>4, <2>5
<1>3. Cardinality(below(x)) < Cardinality(S)
  BY <1>2
<1>4. ASSUME NEW y \in S, <<x, y>> \in R PROVE Cardinality(below(x)) < Cardinality(below(y))
  <2>1. below(x) \subseteq below(y) /\ x \in below(y) /\ below(y) \in SUBSET S
    BY <1>4 DEF Orders
  <2> HIDE DEF below
  <2> QED BY <1>2, <2>1
<1> HIDE DEF below
<1> QED BY <1>1, <1>3, <1>4

\* Every number below the number of elements is the rank of exactly one of them.
LEMMA RankBijection ==
  ASSUME NEW S, IsFiniteSet(S), NEW R, Orders(R, S)
  PROVE  [x \in S |-> RankIn(R, S, x)] \in Bijection(S, 0 .. Cardinality(S) - 1)
<1> DEFINE n == Cardinality(S)
           f == [x \in S |-> RankIn(R, S, x)]
<1>1. n \in Nat
  BY FS_CardinalityType
<1>2. f \in [S -> 0 .. n - 1]
  <2>1. \A x \in S : RankIn(R, S, x) \in Nat /\ RankIn(R, S, x) < n
    BY RankGrows
  <2> HIDE DEF n
  <2> QED BY <1>1, <2>1
<1>3. ASSUME NEW x \in S, NEW y \in S, x # y PROVE f[x] # f[y]
  <2>1. RankIn(R, S, x) \in Nat /\ RankIn(R, S, y) \in Nat
    BY RankGrows
  <2>2. <<x, y>> \in R \/ <<y, x>> \in R
    BY <1>3 DEF Orders
  <2>3. RankIn(R, S, x) < RankIn(R, S, y) \/ RankIn(R, S, y) < RankIn(R, S, x)
    BY <2>2, RankGrows
  <2> QED BY <2>1, <2>3
<1>4. f \in Injection(S, 0 .. n - 1)
  BY <1>2, <1>3 DEF Injection, IsInjective
<1>5. IsFiniteSet(0 .. n - 1) /\ Cardinality(0 .. n - 1) = n
  <2> HIDE DEF n
  <2>1. n - 1 \in Int /\ 0 \in Int
    BY <1>1
  <2>2. IsFiniteSet(0 .. n - 1) /\ Cardinality(0 .. n - 1) = IF 0 > n - 1 THEN 0 ELSE (n - 1) - 0 + 1
    BY <2>1, FS_Interval
  <2> QED BY <1>1, <2>2
<1>6. f \in Surjection(S, 0 .. n - 1)
  <2>1. PICK T : T = 0 .. n - 1
    OBVIOUS
  <2>2. Cardinality(S) = Cardinality(T) <=> f \in Surjection(S, T)
    <3> HIDE DEF f, n
    <3>1. f \in Injection(S, T) /\ IsFiniteSet(T)
      BY <1>4, <1>5, <2>1
    <3> QED BY <3>1, FS_Injection
  <2> QED BY <1>5, <2>1, <2>2
<1> QED BY <1>4, <1>6 DEF Bijection
-----------------------------------------------------------------------------
(* Targets *)

\* None is a value of its own: it is no upstream protocol, no certificate and no server.
NoneIsOwn ==
  /\ None \notin {"h2", "h2c"}
  /\ \A routes : [routes |-> routes] # None
  /\ \A cert, key : [cert |-> cert, key |-> key] # None
  /\ \A cert, key : [provider |-> "custom", cert |-> cert, key |-> key] # None

\* An upstream group that a target names exists, under the name it is known by, and
\* speaks the scheme of the target.
Known(t, groups) ==
  t.kind = "group" => /\ Canon[t.name] \in DOMAIN groups
                      /\ SchemeFits(groups[Canon[t.name]], t.tls)

\* A compiled group is one of the groups that were given, under its canonical name.
LEMMA GroupNames ==
  ASSUME NEW us, NEW c \in DOMAIN compile_upstreams(us)
  PROVE  /\ Canon[compile_upstreams(us)[c].name] = c
         /\ \E i \in DOMAIN us : compile_upstreams(us)[c] = us[i]
<1> DEFINE i == CHOOSE i \in DOMAIN us : Canon[us[i].name] = c
<1>1. i \in DOMAIN us /\ Canon[us[i].name] = c
  BY DEF compile_upstreams
<1>2. compile_upstreams(us)[c] = us[i]
  BY DEF compile_upstreams
<1> QED
  BY <1>1, <1>2

\* A target by the name of a group is Known, unless it fails.
LEMMA GroupTargetKnown ==
  ASSUME NEW us, NEW name, NEW tls, GroupTarget(name, tls, compile_upstreams(us)) # Failed
  PROVE  LET t == GroupTarget(name, tls, compile_upstreams(us))
         IN  t.kind = "group" /\ Known(t, compile_upstreams(us))
<1> DEFINE groups == compile_upstreams(us)
<1>1. /\ Canon[name] \in DOMAIN groups /\ SchemeFits(groups[Canon[name]], tls)
      /\ GroupTarget(name, tls, groups) = [kind |-> "group", name |-> groups[Canon[name]].name, tls |-> tls]
  BY DEF GroupTarget
<1>2. Canon[groups[Canon[name]].name] = Canon[name]
  BY <1>1, GroupNames
<1> HIDE DEF groups
<1> QED
  BY <1>1, <1>2 DEF Known, groups

\* proxy_pass: a group that is Known, a host, or nothing.
LEMMA PassTargetKnown ==
  ASSUME NEW us, NEW v, PassTarget(v, compile_upstreams(us)) # Failed
  PROVE  LET t == PassTarget(v, compile_upstreams(us))
         IN  t.kind \in {"group", "proxy", "dropped"} /\ Known(t, compile_upstreams(us))
<1> DEFINE groups == compile_upstreams(us)
           t == PassTarget(v, groups)
<1> HIDE DEF groups
<1>1. CASE \E name, tls : t = GroupTarget(name, tls, groups)
  BY <1>1, GroupTargetKnown DEF groups
<1>2. CASE t = Dropped
  BY <1>2 DEF Dropped, Known, groups
<1>3. CASE \E host, tls, port : t = [kind |-> "proxy", host |-> host, tls |-> tls, port |-> port]
  <2> HIDE DEF t
  <2> QED BY <1>3 DEF Known, groups, t
<1>4. \/ \E name, tls : t = GroupTarget(name, tls, groups)
      \/ t = Dropped \/ t = Failed
      \/ \E host, tls, port : t = [kind |-> "proxy", host |-> host, tls |-> tls, port |-> port]
  BY Zenon DEF PassTarget
<1> QED
  BY <1>1, <1>2, <1>3, <1>4 DEF groups

\* Each target of weighted backends is Known, unless they fail.
LEMMA WeightedTargetKnown ==
  ASSUME NEW us, NEW bs, WeightedTarget(bs, compile_upstreams(us)) # Failed
  PROVE  LET t == WeightedTarget(bs, compile_upstreams(us))
         IN  /\ t.kind = "weighted"
             /\ \A i \in DOMAIN t.backends : Known(t.backends[i].target, compile_upstreams(us))
<1> DEFINE groups == compile_upstreams(us)
           t(i) == IF "status" \in DOMAIN bs[i].target THEN DirectTarget(bs[i].target.status)
                   ELSE PassTarget(bs[i].target, groups)
           w == WeightedTarget(bs, groups)
<1> HIDE DEF groups
<1>1. /\ \A i \in DOMAIN bs : t(i) \notin {Failed, Dropped}
      /\ w = [kind |-> "weighted",
              backends |-> [i \in DOMAIN bs |-> [weight |-> bs[i].weight, target |-> t(i)]]]
  BY DEF WeightedTarget, groups
<1>2. ASSUME NEW i \in DOMAIN bs PROVE Known(t(i), groups)
  <2>1. CASE "status" \in DOMAIN bs[i].target
    BY <1>1, <2>1 DEF DirectTarget, Known
  <2>2. CASE "status" \notin DOMAIN bs[i].target
    BY <1>1, <2>2, PassTargetKnown DEF groups
  <2> QED BY <2>1, <2>2
<1>3. /\ w.kind = "weighted" /\ DOMAIN w.backends = DOMAIN bs
      /\ \A i \in DOMAIN bs : w.backends[i].target = t(i)
  <2> HIDE DEF t, w
  <2> QED BY <1>1
<1> HIDE DEF t
<1> QED
  BY <1>2, <1>3 DEF groups

\* Every target of an accepted location is Known.
LEMMA TargetsKnown ==
  ASSUME NEW us, NEW loc, LocationCompiles(loc, compile_upstreams(us))
  PROVE  \A u \in Upstreams(Target(loc, compile_upstreams(us))) : Known(u, compile_upstreams(us))
<1> DEFINE groups == compile_upstreams(us)
           d == loc.directives[CHOOSE i \in Places(loc, Actions) : TRUE]
           t == Target(loc, groups)
<1>1. t = route_target(d, groups) /\ t # Failed
  BY DEF LocationCompiles, Target
<1>2. d.d \in Actions
  <2>1. Places(loc, Actions) # {}
    BY FS_EmptySet DEF LocationCompiles, ActionsOK
  <2> QED BY <2>1 DEF Places
<1> HIDE DEF groups, d, t
<1>3. CASE d.d = "proxy_pass"
  <2>1. t = PassTarget(d.v, groups)
    BY <1>1, <1>3 DEF route_target
  <2> QED BY <1>1, <2>1, PassTargetKnown DEF Upstreams, groups, t
<1>4. CASE d.d = "weighted_backends"
  <2>1. t = WeightedTarget(d.v, groups)
    BY <1>1, <1>4 DEF route_target
  <2>2. t.kind = "weighted" /\ \A i \in DOMAIN t.backends : Known(t.backends[i].target, groups)
    BY <1>1, <2>1, WeightedTargetKnown DEF groups
  <2> QED BY <2>2 DEF Upstreams, groups, t
<1>5. CASE d.d \in {"direct_response", "scp_pass", "return", "http_redirect"}
  <2>1. t.kind \in {"direct", "scp", "return", "redirect"}
    BY <1>1, <1>5 DEF route_target, DirectTarget
  <2> QED BY <2>1 DEF Upstreams, Known, groups, t
<1> QED
  BY <1>2, <1>3, <1>4, <1>5 DEF Actions

-----------------------------------------------------------------------------
(* The rules of the compiler and those of validate *)

\* A router comes from a configuration that compiles.
LEMMA Accepted == ASSUME NEW h, from_http(h) # Rejected PROVE HttpCompiles(h)
BY Zenon DEF from_http

\* What the compiler requires of a group covers what validate requires.
LEMMA UpstreamRules ==
  ASSUME NEW u, GroupCompiles(u)
  PROVE  /\ u.servers = <<>> /\ u.nrf = None => u.allow_empty
         /\ u.servers # <<>> => u.nrf = None
         /\ u.nrf # None => u.health # None
         /\ \A k \in DOMAIN u.servers : u.servers[k].weight # 0
         /\ Sum([k \in DOMAIN u.servers |-> u.servers[k].weight]) <= MaxWeight
         /\ u.policy = "consistent_hash" \/ u.hash_key = None
<1>1. GroupSourceOK(u) /\ WeightsOK(u) /\ HashOK(u)
  BY DEF GroupCompiles
<1>2. ~(0 > 0)
  OBVIOUS
<1>3. \A k \in DOMAIN u.servers : u.servers[k].weight # 0
  BY <1>1, <1>2 DEF WeightsOK
<1> QED
  BY <1>1, <1>3 DEF GroupSourceOK, WeightsOK, HashOK

\* What the compiler requires of a location covers what validate requires.
LEMMA LocationRules ==
  ASSUME NEW loc, NEW groups, LocationCompiles(loc, groups)
  PROVE  /\ Cardinality({j \in DOMAIN loc.directives : loc.directives[j].d \in Actions}) = 1
         /\ \A j \in DOMAIN loc.directives : loc.directives[j].d \notin {"root", "try_files"}
<1>1. ActionsOK(loc)
  BY DEF LocationCompiles
<1> QED
  BY <1>1 DEF ActionsOK, Places

\* What the compiler accepts, through gRPC or from a file, Ir::validate accepts too, but
\* for a configuration without servers: the rules that validate.rs applies to files only
\* are repeated in upstream_groups.rs and routes.rs.
THEOREM RulesAgree == Spec => []SameRules
<1>1. SameRules
  <2> SUFFICES ASSUME from_http(http) # Rejected, http.servers # <<>> PROVE validate(http)
    BY DEF SameRules
  <2>1. HttpCompiles(http)
    BY Accepted
  <2>2. \A i \in DOMAIN http.upstreams : GroupCompiles(http.upstreams[i])
    BY <2>1 DEF HttpCompiles, UpstreamsCompile
  <2>3. \A i \in DOMAIN http.servers : \A k \in DOMAIN http.servers[i].locations :
          LocationCompiles(http.servers[i].locations[k], compile_upstreams(http.upstreams))
    BY <2>1 DEF HttpCompiles, ServerCompiles, LocationsCompile
  <2> QED
    BY <2>2, <2>3, UpstreamRules, LocationRules DEF validate
<1> QED
  BY <1>1, PTL

-----------------------------------------------------------------------------
(* Lists *)

\* Whatever has the indices 1 to n is a list.
LEMMA ListIs ==
  ASSUME NEW n \in Nat, NEW f, f = [i \in 1 .. n |-> f[i]]
  PROVE  IsList(f)
<1> DEFINE T == {f[i] : i \in DOMAIN f}
<1>1. DOMAIN f = 1 .. n
  BY Zenon
<1>2. \A i \in 1 .. n : f[i] \in T
  BY <1>1
<1> HIDE DEF T
<1>3. f \in [1 .. n -> T]
  BY <1>2
<1>4. f \in Seq(T)
  BY <1>3
<1> QED BY <1>4 DEF IsList, T

\* A list of elements of T is a list.
LEMMA TypedIsList ==
  ASSUME NEW T, NEW s \in Seq(T)
  PROVE  IsList(s) /\ \A i \in DOMAIN s : s[i] \in T
<1>1. PICK n \in Nat : s = [i \in 1 .. n |-> s[i]] /\ \A i \in 1 .. n : s[i] \in T
  <2>1. Len(s) \in Nat /\ s \in [1 .. Len(s) -> T]
    OBVIOUS
  <2> QED BY <2>1
<1> QED BY <1>1, ListIs

\* A list has the indices from 1 to its length.
LEMMA ListDomain ==
  ASSUME NEW s, IsList(s)
  PROVE  \E n \in Nat : n = Len(s) /\ DOMAIN s = 1 .. n /\ s = [i \in 1 .. n |-> s[i]]
<1>1. PICK T : s \in Seq(T)
  BY DEF IsList
<1>2. Len(s) \in Nat /\ s \in [1 .. Len(s) -> T]
  BY <1>1
<1> QED BY <1>2

\* Something given for each element of a list is a list.
LEMMA ListOver ==
  ASSUME NEW s, IsList(s), NEW f, f = [i \in DOMAIN s |-> f[i]]
  PROVE  IsList(f) /\ DOMAIN f = DOMAIN s
<1>1. PICK n \in Nat : DOMAIN s = 1 .. n
  BY ListDomain
<1>2. f = [i \in 1 .. n |-> f[i]]
  BY <1>1
<1> QED BY <1>1, <1>2, ListIs

\* What is kept of a list are elements of it at the places asked for.
LEMMA KeptIs ==
  ASSUME NEW s, IsList(s), NEW places
  PROVE  Kept(s, places) \in Seq({s[i] : i \in DOMAIN s \cap places})
<1> DEFINE T == {s[i] : i \in DOMAIN s \cap places}
           parts == [i \in DOMAIN s |-> IF i \in places THEN <<s[i]>> ELSE <<>>]
<1>1. PICK n \in Nat : DOMAIN s = 1 .. n
  BY ListDomain
<1>2. ASSUME NEW i \in 1 .. n PROVE parts[i] \in Seq(T)
  <2>1. CASE i \in places
    <3>1. s[i] \in T /\ parts[i] = <<s[i]>>
      BY <1>1, <2>1
    <3> HIDE DEF T, parts
    <3> QED BY <3>1
  <2>2. CASE i \notin places
    <3>1. parts[i] = <<>>
      BY <1>1, <2>2
    <3> HIDE DEF T, parts
    <3> QED BY <3>1
  <2> QED BY <2>1, <2>2
<1>3. parts \in [1 .. n -> Seq(T)]
  <2>1. parts = [i \in 1 .. n |-> parts[i]]
    BY <1>1
  <2> HIDE DEF T, parts
  <2> QED BY <1>2, <2>1
<1>4. parts \in Seq(Seq(T))
  <2> HIDE DEF T, parts
  <2> QED BY <1>3
<1>5. FlattenSeq(parts) \in Seq(T)
  <2> HIDE DEF T, parts
  <2> QED BY <1>4, FlattenSeqTyped
<1> QED BY <1>5 DEF Kept

\* It is a list, and each element is one of s.
LEMMA KeptFrom ==
  ASSUME NEW s, IsList(s), NEW places
  PROVE  /\ IsList(Kept(s, places))
         /\ \A k \in DOMAIN Kept(s, places) : \E i \in DOMAIN s \cap places : Kept(s, places)[k] = s[i]
<1>1. Kept(s, places) \in Seq({s[i] : i \in DOMAIN s \cap places})
  BY KeptIs
<1>2. \A k \in DOMAIN Kept(s, places) : Kept(s, places)[k] \in {s[i] : i \in DOMAIN s \cap places}
  BY <1>1, TypedIsList
<1> QED BY <1>1, <1>2, TypedIsList

\* Lists joined one after the other are a list of what they consist of.
LEMMA JoinedIs ==
  ASSUME NEW T, NEW s, IsList(s), \A i \in DOMAIN s : s[i] \in Seq(T)
  PROVE  FlattenSeq(s) \in Seq(T)
<1>1. PICK n \in Nat : DOMAIN s = 1 .. n /\ s = [i \in 1 .. n |-> s[i]]
  BY ListDomain
<1>2. s \in [1 .. n -> Seq(T)]
  BY <1>1
<1>3. s \in Seq(Seq(T))
  BY <1>2
<1> QED BY <1>3, FlattenSeqTyped

-----------------------------------------------------------------------------
(* The compiler *)

ListenShape(l) == l.addr \in Nat /\ l.port \in Nat /\ l.ssl \in BOOLEAN

\* What the compiler is given: lists of servers, sockets, locations and names, and an
\* identity for every server with a TLS socket.
ServerShape(s) ==
  /\ s.server_names \in Seq(DOMAIN Canon)
  /\ IsList(s.locations)
  /\ IsList(s.listens) /\ \A k \in DOMAIN s.listens : ListenShape(s.listens[k])
  /\ (\E k \in DOMAIN s.listens : s.listens[k].ssl) => s.tls # None
HttpShape(h) == IsList(h.servers) /\ \A i \in DOMAIN h.servers : ServerShape(h.servers[i])

\* An entry is one of the servers with one of its sockets.
IsEntry(e, h) ==
  \E i \in DOMAIN h.servers : \E j \in DOMAIN h.servers[i].listens :
     e.server = h.servers[i] /\ e.listen = h.servers[i].listens[j]

\* The entries are a list of such pairs.
LEMMA EntriesAre ==
  ASSUME NEW h, HttpShape(h)
  PROVE  IsList(Entries(h)) /\ \A n \in DOMAIN Entries(h) : IsEntry(Entries(h)[n], h)
<1> DEFINE pair(i, j) == [server |-> h.servers[i], listen |-> h.servers[i].listens[j]]
           E == UNION {{pair(i, j) : j \in DOMAIN h.servers[i].listens} : i \in DOMAIN h.servers}
           row(i) == [j \in DOMAIN h.servers[i].listens |-> pair(i, j)]
           rows == [i \in DOMAIN h.servers |-> row(i)]
<1>1. ASSUME NEW i \in DOMAIN h.servers PROVE row(i) \in Seq(E)
  <2>1. IsList(h.servers[i].listens)
    BY DEF HttpShape, ServerShape
  <2>2. PICK m \in Nat : DOMAIN h.servers[i].listens = 1 .. m
    BY <2>1, ListDomain
  <2>3. row(i) = [j \in 1 .. m |-> row(i)[j]]
    BY <2>2
  <2>4. \A j \in 1 .. m : row(i)[j] \in E
    BY <2>2
  <2> HIDE DEF row, E
  <2>5. row(i) \in [1 .. m -> E]
    BY <2>3, <2>4
  <2> QED BY <2>5
<1>2. rows = [i \in DOMAIN h.servers |-> rows[i]] /\ \A i \in DOMAIN h.servers : rows[i] = row(i)
  OBVIOUS
<1>3. IsList(rows) /\ DOMAIN rows = DOMAIN h.servers
  <2> HIDE DEF rows
  <2>1. IsList(h.servers)
    BY DEF HttpShape
  <2> QED BY <1>2, <2>1, ListOver
<1>4. FlattenSeq(rows) \in Seq(E)
  <2>1. \A i \in DOMAIN rows : rows[i] \in Seq(E)
    <3> HIDE DEF rows, row, E
    <3> QED BY <1>1, <1>2, <1>3
  <2> HIDE DEF rows, row, E
  <2> QED BY <1>3, <2>1, JoinedIs
<1>5. Entries(h) = FlattenSeq(rows)
  BY Zenon DEF Entries
<1>6. IsList(Entries(h)) /\ \A n \in DOMAIN Entries(h) : Entries(h)[n] \in E
  <2> HIDE DEF rows, row, E
  <2> QED BY <1>4, <1>5, TypedIsList
<1>7. \A e \in E : IsEntry(e, h)
  <2> SUFFICES ASSUME NEW i \in DOMAIN h.servers, NEW j \in DOMAIN h.servers[i].listens
               PROVE  IsEntry(pair(i, j), h)
    OBVIOUS
  <2>1. pair(i, j).server = h.servers[i] /\ pair(i, j).listen = h.servers[i].listens[j]
    OBVIOUS
  <2> HIDE DEF pair
  <2> QED BY <2>1 DEF IsEntry
<1> HIDE DEF E
<1> QED BY <1>6, <1>7

\* A compiled route comes from a location that was not dropped.
LEMMA CompiledLocations ==
  ASSUME NEW locs, IsList(locs), NEW groups
  PROVE  /\ IsList(compile_locations(locs, groups))
         /\ \A k \in DOMAIN compile_locations(locs, groups) : \E i \in DOMAIN locs :
              /\ compile_locations(locs, groups)[k] = compile_location(locs[i], groups)
              /\ Target(locs[i], groups) # Dropped
<1> DEFINE compiled == [i \in DOMAIN locs |-> compile_location(locs[i], groups)]
           places == {i \in DOMAIN locs : compiled[i] # Dropped}
<1>1. compiled = [i \in DOMAIN locs |-> compiled[i]]
  OBVIOUS
<1>2. IsList(compiled) /\ DOMAIN compiled = DOMAIN locs
  <2> HIDE DEF compiled
  <2> QED BY <1>1, ListOver
<1>3. compile_locations(locs, groups) = Kept(compiled, places)
  BY Zenon DEF compile_locations
<1>4. /\ IsList(Kept(compiled, places))
      /\ \A k \in DOMAIN Kept(compiled, places) :
           \E i \in DOMAIN compiled \cap places : Kept(compiled, places)[k] = compiled[i]
  <2> HIDE DEF compiled, places
  <2> QED BY <1>2, KeptFrom
<1>5. \A i \in places : /\ i \in DOMAIN locs /\ compiled[i] = compile_location(locs[i], groups)
                        /\ Target(locs[i], groups) # Dropped
  BY DEF compile_location
<1> HIDE DEF compiled, places
<1> QED BY <1>3, <1>4, <1>5

\* The protocol of an accepted route fits each of its targets.
LEMMA ProtocolsFit ==
  ASSUME NoneIsOwn, NEW p, NEW t, ProtocolOK(p, t), NEW u \in Upstreams(t), u.kind \in {"group", "proxy"}
  PROVE  /\ CompiledProtocol(p, t) = "h2" => u.tls
         /\ CompiledProtocol(p, t) = "h2c" => ~u.tls
<1>1. SUFFICES ASSUME CompiledProtocol(p, t) \in {"h2", "h2c"}
               PROVE  (p = "h2" => u.tls) /\ (p = "h2c" => ~u.tls) /\ CompiledProtocol(p, t) = p
  OBVIOUS
<1>2. CompiledProtocol(p, t) = p /\ p # None
  BY <1>1, Zenon DEF CompiledProtocol, NoneIsOwn
<1>3. ProtocolFits(p, u)
  <2>1. CASE t.kind = "weighted"
    <3>1. PICK i \in DOMAIN t.backends : u = t.backends[i].target
      BY <2>1 DEF Upstreams
    <3> QED BY <1>2, <2>1, <3>1 DEF ProtocolOK
  <2>2. CASE t.kind # "weighted"
    <3>1. u = t
      BY <2>2 DEF Upstreams
    <3> QED BY <1>2, <2>2, <3>1 DEF ProtocolOK
  <2> QED BY <2>1, <2>2
<1>4. (p = "h2" => u.tls) /\ (p = "h2c" => ~u.tls)
  BY <1>3 DEF ProtocolFits
<1> QED BY <1>2, <1>4

\* The fields of a compiled route that serving depends on.
LEMMA RouteFields ==
  ASSUME NEW loc, NEW groups, Target(loc, groups) # Dropped
  PROVE  LET r == compile_location(loc, groups) IN
         /\ r.target = Target(loc, groups) /\ r.cache = loc.cache /\ r.tls = LocationTls(loc)
         /\ r.protocol = CompiledProtocol(Slot(loc, "proxy_upstream_protocol"), Target(loc, groups))
         /\ r.limits.body_timeout = Slot(loc, "client_body_timeout")
BY DEF compile_location

\* No timeout of the request body on a socket that accepts HTTP/2.
LEMMA NoBodyTimeout ==
  ASSUME NEW h, TimeoutsOK(h), NEW i \in DOMAIN h.servers, NEW j \in DOMAIN h.servers[i].listens,
         AcceptsH2(h.servers[i].listens[j], h), NEW k \in DOMAIN h.servers[i].locations
  PROVE  ~Set(Slot(h.servers[i].locations[k], "client_body_timeout")) /\ ~Set(h.client_body_timeout)
<1> DEFINE loc == h.servers[i].locations[k]
<1>1. /\ ~Set(h.client_body_timeout)
      /\ \A n \in Places(loc, {"client_body_timeout"}) : ~Set(loc.directives[n].v)
  BY DEF TimeoutsOK
<1> HIDE DEF loc
<1>2. ~Set(Slot(loc, "client_body_timeout"))
  <2>1. CASE Places(loc, {"client_body_timeout"}) = {}
    BY <2>1, Zenon DEF Slot, Set
  <2>2. CASE Places(loc, {"client_body_timeout"}) # {}
    <3> DEFINE n == CHOOSE n \in Places(loc, {"client_body_timeout"}) : TRUE
    <3>1. n \in Places(loc, {"client_body_timeout"})
      BY <2>2
    <3>2. Slot(loc, "client_body_timeout") = loc.directives[n].v
      BY <2>2, Zenon DEF Slot
    <3> HIDE DEF n
    <3> QED BY <1>1, <3>1, <3>2
  <2> QED BY <2>1, <2>2
<1> QED BY <1>1, <1>2 DEF loc

\* What the accepted servers say of a route of server i, on its socket j: it can be served
\* there, whatever the listener says of its own protocols as long as it agrees with j.
LEMMA RouteServable ==
  ASSUME NoneIsOwn, NEW h, HttpShape(h), HttpCompiles(h),
         NEW i \in DOMAIN h.servers, NEW j \in DOMAIN h.servers[i].listens,
         NEW r, r.upstreams = compile_upstreams(h.upstreams), r.profiles = ToSet(h.profiles),
         r.options.h2c = (h.h2c = "on"), r.options.client_body_timeout = h.client_body_timeout,
         NEW key, key.ssl = h.servers[i].listens[j].ssl,
         NEW l, l.protocols = Protocols(h.servers[i].listens[j]),
         NEW route \in ToSet(compile_locations(h.servers[i].locations, compile_upstreams(h.upstreams)))
  PROVE  Servable(route, r, key, l)
<1> DEFINE s == h.servers[i]
           groups == compile_upstreams(h.upstreams)
           routes == compile_locations(s.locations, groups)
           h2 == IF key.ssl THEN l.protocols.http2 \/ l.protocols.http2_only ELSE r.options.h2c
<1>0. l.protocols.http2 = s.listens[j].http2 /\ l.protocols.http2_only = s.listens[j].http2_only
  BY DEF Protocols
<1>1. /\ ServerCompiles(s, h, groups) /\ TimeoutsOK(h)
      /\ \A k \in DOMAIN s.locations : LocationCompiles(s.locations[k], groups)
  BY DEF HttpCompiles, ServerCompiles, LocationsCompile
<1>2. PICK m \in DOMAIN routes : route = routes[m]
  BY DEF ToSet
<1>3. PICK k \in DOMAIN s.locations : /\ route = compile_location(s.locations[k], groups)
                                      /\ Target(s.locations[k], groups) # Dropped
  <2>1. IsList(s.locations)
    BY DEF HttpShape, ServerShape
  <2> HIDE DEF s, groups
  <2> QED BY <1>2, <2>1, CompiledLocations
<1> DEFINE loc == s.locations[k]
           t == Target(loc, groups)
<1>4. /\ ProtocolOK(Slot(loc, "proxy_upstream_protocol"), t)
      /\ t.kind = "scp" => loc.cache = None
      /\ CertPairOK(LocationTls(loc))
  BY <1>1, <1>3 DEF LocationCompiles
<1>5. /\ route.target = t /\ route.cache = loc.cache /\ route.tls = LocationTls(loc)
      /\ route.protocol = CompiledProtocol(Slot(loc, "proxy_upstream_protocol"), t)
      /\ route.limits.body_timeout = Slot(loc, "client_body_timeout")
  BY <1>3, RouteFields
<1>6. h2 <=> AcceptsH2(s.listens[j], h)
  BY <1>0, Zenon DEF AcceptsH2
<1>7. h2 => ~Set(route.limits.body_timeout) /\ ~Set(r.options.client_body_timeout)
  BY <1>1, <1>5, <1>6, NoBodyTimeout
<1>8. t.kind = "scp" => /\ h2 /\ route.cache = None
                        /\ \E p \in r.profiles : p.name = route.target.profile
  <2> SUFFICES ASSUME t.kind = "scp"
               PROVE  h2 /\ route.cache = None /\ \E p \in r.profiles : p.name = route.target.profile
    OBVIOUS
  <2>1. /\ \E n \in DOMAIN h.profiles : h.profiles[n].name = t.profile
        /\ IF s.listens[j].ssl THEN s.listens[j].http2 ELSE h.h2c = "on"
    BY <1>1, <1>2, <1>5, Zenon DEF ServerCompiles
  <2>2. h2
    BY <1>0, <2>1, Zenon
  <2>3. \E p \in r.profiles : p.name = route.target.profile
    BY <1>5, <2>1 DEF ToSet
  <2> QED BY <1>4, <1>5, <2>2, <2>3
<1>9. \A u \in Upstreams(t) : Known(u, groups)
  BY <1>1, TargetsKnown
<1>10. \A u \in Upstreams(t) : u.kind \in {"group", "proxy"} =>
         /\ route.protocol = "h2" => u.tls
         /\ route.protocol = "h2c" => ~u.tls
  BY <1>4, <1>5, ProtocolsFit
<1> HIDE DEF s, t, loc, h2
<1> QED BY <1>4, <1>5, <1>7, <1>8, <1>9, <1>10 DEF Servable, Known, h2

\* The entries of a socket that some server has.
LEMMA BoundEntries ==
  ASSUME NEW h, HttpShape(h), NEW key, NEW m \in DOMAIN Entries(h), key = ListenKey(Entries(h)[m].listen)
  PROVE  \E n \in Nat :
           /\ Bound(Entries(h), key) \in SUBSET (1 .. n) /\ Bound(Entries(h), key) # {}
           /\ \A k \in Bound(Entries(h), key) :
                /\ IsEntry(Entries(h)[k], h) /\ k \in DOMAIN Entries(h)
                /\ ListenKey(Entries(h)[k].listen) = key /\ key.ssl = Entries(h)[k].listen.ssl
<1>1. PICK n \in Nat : DOMAIN Entries(h) = 1 .. n
  BY EntriesAre, ListDomain
<1>2. Bound(Entries(h), key) \in SUBSET (1 .. n) /\ m \in Bound(Entries(h), key)
  BY <1>1 DEF Bound
<1>3. ASSUME NEW k \in Bound(Entries(h), key)
      PROVE  /\ IsEntry(Entries(h)[k], h) /\ k \in DOMAIN Entries(h)
             /\ ListenKey(Entries(h)[k].listen) = key
  BY EntriesAre DEF Bound
<1>4. ASSUME NEW k \in Bound(Entries(h), key) PROVE key.ssl = Entries(h)[k].listen.ssl
  BY <1>3 DEF ListenKey
<1> QED BY <1>2, <1>3, <1>4

\* The server that a name is left with is one of those that have it.
LEMMA NamedInIs ==
  ASSUME NEW n \in Nat, NEW ns \in SUBSET (1 .. n), NEW es, NEW name \in AllNames(es, ns)
  PROVE  \E k \in ns : NamedIn(es, ns, name) = es[k] /\ name \in Names(es[k])
<1> DEFINE T == {k \in ns : name \in Names(es[k])}
<1>1. T \in SUBSET (0 .. n) /\ T # {}
  BY DEF AllNames
<1>2. Max(T) \in T
  <2> HIDE DEF T
  <2> QED BY <1>1, MaxIs
<1>3. NamedIn(es, ns, name) = es[Max(T)]
  BY DEF NamedIn
<1> QED BY <1>2, <1>3

\* The default server is one of the socket's, and only missing when each of them has names
\* and none is marked.
LEMMA DefaultServerIs ==
  ASSUME NEW n \in Nat, NEW ns \in SUBSET (1 .. n), NEW es
  PROVE  /\ DefaultServer(es, ns) = 0 => \A k \in ns : es[k].server.server_names # <<>>
         /\ DefaultServer(es, ns) # 0 => DefaultServer(es, ns) \in ns
<1> DEFINE marked == {k \in ns : es[k].listen.default_server}
           unnamed == {k \in ns : es[k].server.server_names = <<>>}
<1>0. marked \subseteq ns /\ unnamed \subseteq ns /\ \A k \in ns \ unnamed : es[k].server.server_names # <<>>
  BY Zenon
<1>1. marked \in SUBSET (0 .. n) /\ unnamed \in SUBSET Nat /\ 0 \notin ns
  <2> HIDE DEF marked, unnamed
  <2> QED BY <1>0
<1>2. marked # {} => Max(marked) \in marked
  <2> HIDE DEF marked
  <2> QED BY <1>1, MaxIs
<1>3. unnamed # {} => Min(unnamed) \in unnamed
  <2> HIDE DEF unnamed
  <2> QED BY <1>1, MinIs
<1>4. DefaultServer(es, ns) = IF marked # {} THEN Max(marked) ELSE IF unnamed # {} THEN Min(unnamed) ELSE 0
  BY Zenon DEF DefaultServer
<1> HIDE DEF marked, unnamed
<1> QED BY <1>0, <1>1, <1>2, <1>3, <1>4

\* Names are finitely many canonical names, and there are some when there is a server with names.
LEMMA NamesAre ==
  ASSUME NEW h, HttpShape(h), NEW n \in Nat, NEW ns \in SUBSET (1 .. n), NEW es,
         \A k \in ns : IsEntry(es[k], h)
  PROVE  /\ IsFiniteSet(AllNames(es, ns)) /\ AllNames(es, ns) \subseteq DOMAIN Canon
         /\ \A k \in ns : es[k].server.server_names # <<>> => AllNames(es, ns) # {}
<1>1. ASSUME NEW k \in ns
      PROVE  \E m \in Nat : /\ DOMAIN es[k].server.server_names = 1 .. m
                            /\ \A i \in 1 .. m : es[k].server.server_names[i] \in DOMAIN Canon
                            /\ es[k].server.server_names # <<>> => m # 0
  <2>1. PICK s : s = es[k].server.server_names /\ s \in Seq(DOMAIN Canon)
    BY DEF IsEntry, HttpShape, ServerShape
  <2>2. Len(s) \in Nat /\ DOMAIN s = 1 .. Len(s) /\ (\A i \in 1 .. Len(s) : s[i] \in DOMAIN Canon)
        /\ (s # <<>> => Len(s) # 0)
    BY <2>1
  <2> QED BY <2>1, <2>2
<1>2. ASSUME NEW k \in ns
      PROVE  /\ IsFiniteSet(Names(es[k])) /\ Names(es[k]) \subseteq DOMAIN Canon
             /\ es[k].server.server_names # <<>> => Names(es[k]) # {}
  <2> DEFINE f == [i \in DOMAIN es[k].server.server_names |-> Canon[es[k].server.server_names[i]]]
  <2>1. PICK m \in Nat : /\ DOMAIN es[k].server.server_names = 1 .. m
                         /\ \A i \in 1 .. m : es[k].server.server_names[i] \in DOMAIN Canon
                         /\ es[k].server.server_names # <<>> => m # 0
    BY <1>1
  <2>2. Names(es[k]) = {f[i] : i \in 1 .. m} /\ DOMAIN f = 1 .. m
    BY <2>1 DEF Names
  <2>3. \A i \in 1 .. m : f[i] \in DOMAIN Canon
    BY <2>1, CanonAssumption
  <2>4. IsFiniteSet(1 .. m)
    BY FS_Interval
  <2> HIDE DEF f
  <2>5. IsFiniteSet({f[i] : i \in 1 .. m})
    <3>1. PICK S : S = 1 .. m
      OBVIOUS
    <3>2. \A x \in S : f[x] \in {f[i] : i \in S}
      OBVIOUS
    <3>3. IsFiniteSet(S)
      BY <2>4, <3>1
    <3>4. PICK g : g = [x \in S |-> f[x]]
      OBVIOUS
    <3>5. g \in Surjection(S, {f[i] : i \in S})
      BY <3>4 DEF Surjection
    <3>6. IsFiniteSet({f[i] : i \in S})
      BY <3>3, <3>5, FS_Surjection
    <3> QED BY <3>1, <3>6
  <2>6. m # 0 => 1 \in 1 .. m
    OBVIOUS
  <2> QED BY <2>1, <2>2, <2>3, <2>5, <2>6
<1>3. IsFiniteSet(ns)
  <2>1. IsFiniteSet(1 .. n)
    BY FS_Interval
  <2> QED BY <2>1, FS_Subset
<1> DEFINE g == [k \in ns |-> Names(es[k])]
           R == {Names(es[k]) : k \in ns}
<1>4. IsFiniteSet(R)
  <2>1. g \in Surjection(ns, R)
    BY DEF Surjection
  <2> HIDE DEF g, R
  <2> QED BY <1>3, <2>1, FS_Surjection
<1>5. \A x \in R : IsFiniteSet(x) /\ x \subseteq DOMAIN Canon
  BY <1>2
<1>6. AllNames(es, ns) = UNION R
  BY DEF AllNames
<1>7. IsFiniteSet(UNION R)
  <2> HIDE DEF R
  <2> QED BY <1>4, <1>5, FS_UNION
<1>8. \A k \in ns : Names(es[k]) \subseteq UNION R
  OBVIOUS
<1>9. UNION R \subseteq DOMAIN Canon
  BY <1>5
<1> HIDE DEF R
<1> QED BY <1>2, <1>6, <1>7, <1>8, <1>9

\* What is exported of a router: sockets and names that can be ordered, and lists of routes.
ListenerShape(l) ==
  /\ IsFiniteSet(DOMAIN l.named) /\ DOMAIN l.named \subseteq DOMAIN Canon
  /\ \A name \in DOMAIN l.named : IsList(l.named[name])
  /\ l.default # None => IsList(l.default.routes)
RouterShape(r) ==
  /\ IsFiniteSet(DOMAIN r.listeners)
  /\ DOMAIN r.listeners \subseteq [addr : Nat, port : Nat, ssl : BOOLEAN]
  /\ \A k \in DOMAIN r.listeners : ListenerShape(r.listeners[k])

\* Servers that share a socket have the protocols of the first of them.
LEMMA SameProtocols ==
  ASSUME NEW h, ListenersAgree(h), NEW key, NEW n \in Nat,
         Bound(Entries(h), key) \in SUBSET (1 .. n), NEW k \in Bound(Entries(h), key)
  PROVE  Protocols(Entries(h)[Min(Bound(Entries(h), key))].listen) = Protocols(Entries(h)[k].listen)
<1> DEFINE ns == Bound(Entries(h), key)
<1>1. Min(ns) \in ns
  <2>1. ns \in SUBSET Nat /\ ns # {}
    OBVIOUS
  <2> HIDE DEF ns
  <2> QED BY <2>1, MinIs
<1>2. \A i \in ns : i \in DOMAIN Entries(h) /\ ListenKey(Entries(h)[i].listen) = key
  BY DEF Bound
<1> HIDE DEF ns
<1>3. k \in ns
  BY DEF ns
<1>4. Protocols(Entries(h)[Min(ns)].listen) = Protocols(Entries(h)[k].listen)
  BY <1>1, <1>2, <1>3, Zenon DEF ListenersAgree
<1> QED BY <1>4 DEF ns

\* A route of a listener is one of a name or one of the default server.
LEMMA RoutesFrom ==
  ASSUME NEW l, NEW route \in RoutesOf(l)
  PROVE  \/ \E x \in DOMAIN l.named : route \in ToSet(l.named[x])
         \/ l.default # None /\ route \in ToSet(l.default.routes)
<1> DEFINE U == UNION {ToSet(l.named[n]) : n \in DOMAIN l.named}
           D == IF l.default = None THEN {} ELSE ToSet(l.default.routes)
<1>1. RoutesOf(l) = U \cup D
  BY Zenon DEF RoutesOf
<1>2. route \in U => \E x \in DOMAIN l.named : route \in ToSet(l.named[x])
  OBVIOUS
<1>3. route \in D => l.default # None /\ route \in ToSet(l.default.routes)
  BY Zenon
<1> HIDE DEF U, D
<1>4. route \in U \/ route \in D
  BY <1>1
<1> QED BY <1>2, <1>3, <1>4

\* A TLS socket: every server on it has an identity.
LEMMA AllCertified ==
  ASSUME NEW h, HttpShape(h), NEW e, IsEntry(e, h), e.listen.ssl
  PROVE  e.server.tls # None
<1>1. PICK i \in DOMAIN h.servers : \E j \in DOMAIN h.servers[i].listens :
        e.server = h.servers[i] /\ e.listen = h.servers[i].listens[j]
  BY DEF IsEntry
<1>2. PICK j \in DOMAIN h.servers[i].listens : e.server = h.servers[i] /\ e.listen = h.servers[i].listens[j]
  BY <1>1
<1>3. ServerShape(h.servers[i]) /\ h.servers[i].listens[j].ssl
  BY <1>2 DEF HttpShape
<1> QED BY <1>2, <1>3, Zenon DEF ServerShape

\* A listener of an accepted configuration: it has servers, a TLS listener an identity for
\* every name and for none, and what it serves are lists of routes of its own servers.
LEMMA ListenerSound ==
  ASSUME NoneIsOwn, NEW h, HttpShape(h), HttpCompiles(h),
         NEW m \in DOMAIN Entries(h), NEW key, key = ListenKey(Entries(h)[m].listen),
         NEW groups, NEW l, l = compile_listener(h, key, groups)
  PROVE  /\ l.default # None \/ DOMAIN l.named # {}
         /\ IF key.ssl THEN l.tls.default # None /\ DOMAIN l.tls.named = DOMAIN l.named ELSE l.tls = None
         /\ \A route \in RoutesOf(l) : \E k \in Bound(Entries(h), key) :
              route \in ToSet(compile_locations(Entries(h)[k].server.locations, groups))
         /\ \A k \in Bound(Entries(h), key) : l.protocols = Protocols(Entries(h)[k].listen)
         /\ ListenerShape(l)
<1> DEFINE es == Entries(h)
           ns == Bound(es, key)
           default == DefaultServer(es, ns)
           routes(e) == compile_locations(e.server.locations, groups)
           certified == {k \in ns : es[k].server.tls # None}
<1>1. PICK n \in Nat :
        /\ ns \in SUBSET (1 .. n) /\ ns # {}
        /\ \A k \in ns : /\ IsEntry(es[k], h) /\ k \in DOMAIN es
                         /\ ListenKey(es[k].listen) = key /\ key.ssl = es[k].listen.ssl
  BY BoundEntries
<1>2. /\ l.named = [x \in AllNames(es, ns) |-> routes(NamedIn(es, ns, x))]
      /\ l.default = IF default = 0 THEN None ELSE [routes |-> routes(es[default])]
      /\ l.protocols = Protocols(es[Min(ns)].listen)
      /\ l.tls = IF ~key.ssl THEN None ELSE
             [settings |-> es[Min(ns)].server.tls_options,
              named |-> [x \in AllNames(es, certified) |-> Identity(NamedIn(es, certified, x).server)],
              default |-> IF certified = {} THEN None ELSE DefaultIdentity(es, certified)]
  BY DEF compile_listener
<1> HIDE DEF es, ns, default, routes, certified
<1>3. \A k \in ns : IsList(es[k].server.locations) /\ IsList(routes(es[k]))
  <2>1. \A k \in ns : IsList(es[k].server.locations)
    BY <1>1 DEF IsEntry, HttpShape, ServerShape
  <2> QED BY <2>1, CompiledLocations DEF routes
<1>4. /\ IsFiniteSet(AllNames(es, ns)) /\ AllNames(es, ns) \subseteq DOMAIN Canon
      /\ \A k \in ns : es[k].server.server_names # <<>> => AllNames(es, ns) # {}
  BY <1>1, NamesAre
<1>5. /\ default = 0 => \A k \in ns : es[k].server.server_names # <<>>
      /\ default # 0 => default \in ns
  BY <1>1, DefaultServerIs DEF default
<1>6. default # 0 => l.default # None /\ l.default.routes = routes(es[default])
  BY <1>2 DEF NoneIsOwn
<1>7. l.default # None \/ DOMAIN l.named # {}
  BY <1>1, <1>2, <1>4, <1>5, <1>6
<1>8. ASSUME NEW x \in DOMAIN l.named
      PROVE  \E k \in ns : l.named[x] = routes(es[k])
  <2>1. PICK k \in ns : NamedIn(es, ns, x) = es[k]
    BY <1>1, <1>2, NamedInIs
  <2> QED BY <1>2, <2>1
<1>9. ListenerShape(l)
  <2>1. \A x \in DOMAIN l.named : IsList(l.named[x])
    BY <1>3, <1>8
  <2>2. l.default # None => IsList(l.default.routes)
    BY <1>2, <1>3, <1>5, <1>6
  <2> QED BY <1>2, <1>4, <2>1, <2>2 DEF ListenerShape
<1>10. ASSUME NEW route \in RoutesOf(l)
       PROVE  \E k \in ns : route \in ToSet(routes(es[k]))
  <2>1. CASE \E x \in DOMAIN l.named : route \in ToSet(l.named[x])
    BY <1>8, <2>1
  <2>2. CASE l.default # None /\ route \in ToSet(l.default.routes)
    BY <1>2, <1>5, <1>6, <2>2
  <2> QED BY <2>1, <2>2, RoutesFrom
<1>11. \A k \in ns : l.protocols = Protocols(es[k].listen)
  <2>1. ListenersAgree(h)
    BY DEF HttpCompiles
  <2> QED BY <1>1, <1>2, <2>1, SameProtocols DEF es, ns
<1>12. CASE key.ssl
  <2>1. certified = ns
    <3>1. \A k \in ns : es[k].server.tls # None
      BY <1>1, <1>12, AllCertified
    <3> QED BY <3>1 DEF certified
  <2>2. DefaultIdentity(es, certified) # None
    <3>1. \A s : Identity(s) # None
      BY DEF Identity, NoneIsOwn
    <3> QED BY <3>1 DEF DefaultIdentity
  <2>3. l.tls.default # None /\ DOMAIN l.tls.named = DOMAIN l.named
    BY <1>1, <1>2, <1>12, <2>1, <2>2
  <2> QED BY <1>7, <1>9, <1>10, <1>11, <1>12, <2>3 DEF es, ns, routes
<1>13. CASE ~key.ssl
  <2>1. l.tls = None
    BY <1>2, <1>13
  <2> QED BY <1>7, <1>9, <1>10, <1>11, <1>13, <2>1 DEF es, ns, routes
<1> QED BY <1>12, <1>13

\* An accepted configuration is compiled to a sound router.
LEMMA CompiledSound ==
  ASSUME NoneIsOwn, NEW h, HttpShape(h), from_http(h) # Rejected
  PROVE  Sound(from_http(h)) /\ RouterShape(from_http(h))
<1> DEFINE r == from_http(h)
           groups == compile_upstreams(h.upstreams)
           keys == {ListenKey(Entries(h)[i].listen) : i \in DOMAIN Entries(h)}
<1>1. HttpCompiles(h)
  BY Accepted
<1>2. /\ r.options.h2c = (h.h2c = "on") /\ r.options.client_body_timeout = h.client_body_timeout
      /\ r.upstreams = groups /\ r.profiles = ToSet(h.profiles)
      /\ r.listeners = [k \in keys |-> compile_listener(h, k, groups)]
  BY <1>1 DEF from_http, Options
<1> HIDE DEF r, groups, keys
<1>3. ASSUME NEW key \in keys
      PROVE  LET l == r.listeners[key] IN
             /\ l.default # None \/ DOMAIN l.named # {}
             /\ IF key.ssl THEN l.tls.default # None /\ DOMAIN l.tls.named = DOMAIN l.named ELSE l.tls = None
             /\ \A route \in RoutesOf(l) : Servable(route, r, key, l)
             /\ ListenerShape(l)
  <2>1. PICK m \in DOMAIN Entries(h) : key = ListenKey(Entries(h)[m].listen)
    BY DEF keys
  <2>2. PICK l : l = r.listeners[key] /\ l = compile_listener(h, key, groups)
    BY <1>2
  <2>3. /\ l.default # None \/ DOMAIN l.named # {}
        /\ IF key.ssl THEN l.tls.default # None /\ DOMAIN l.tls.named = DOMAIN l.named ELSE l.tls = None
        /\ \A route \in RoutesOf(l) : \E k \in Bound(Entries(h), key) :
             route \in ToSet(compile_locations(Entries(h)[k].server.locations, groups))
        /\ \A k \in Bound(Entries(h), key) : l.protocols = Protocols(Entries(h)[k].listen)
        /\ ListenerShape(l)
    BY <1>1, <2>1, <2>2, ListenerSound
  <2>4. ASSUME NEW route \in RoutesOf(l) PROVE Servable(route, r, key, l)
    <3>1. PICK k \in Bound(Entries(h), key) :
            route \in ToSet(compile_locations(Entries(h)[k].server.locations, groups))
      BY <2>3
    <3>2. IsEntry(Entries(h)[k], h) /\ key.ssl = Entries(h)[k].listen.ssl
      BY <2>1, BoundEntries
    <3>3. PICK i \in DOMAIN h.servers : \E j \in DOMAIN h.servers[i].listens :
            Entries(h)[k].server = h.servers[i] /\ Entries(h)[k].listen = h.servers[i].listens[j]
      BY <3>2 DEF IsEntry
    <3>4. PICK j \in DOMAIN h.servers[i].listens :
            Entries(h)[k].server = h.servers[i] /\ Entries(h)[k].listen = h.servers[i].listens[j]
      BY <3>3
    <3> QED BY <1>1, <1>2, <2>3, <3>1, <3>2, <3>4, RouteServable DEF groups
  <2> QED BY <2>2, <2>3, <2>4
<1>4. ASSUME NEW c \in DOMAIN groups
      PROVE  /\ Sum([i \in DOMAIN groups[c].servers |-> groups[c].servers[i].weight]) <= MaxWeight
             /\ groups[c].servers # <<>> \/ groups[c].nrf # None \/ groups[c].allow_empty
  <2>1. PICK i \in DOMAIN h.upstreams : groups[c] = h.upstreams[i]
    BY GroupNames DEF groups
  <2>2. GroupCompiles(groups[c])
    BY <1>1, <2>1 DEF HttpCompiles, UpstreamsCompile
  <2> QED BY <2>2, UpstreamRules
<1>5. \A p \in r.profiles : \A g \in ToSet(p.upstreams) : r.upstreams[g].nrf # None
  BY <1>1, <1>2 DEF HttpCompiles, ProfileCompiles, ToSet, groups
<1>6. DOMAIN r.listeners = keys
  BY <1>2
<1>7. Sound(r)
  BY <1>2, <1>3, <1>4, <1>5, <1>6, Zenon DEF Sound
<1>8. keys \subseteq [addr : Nat, port : Nat, ssl : BOOLEAN]
  <2> SUFFICES ASSUME NEW m \in DOMAIN Entries(h)
               PROVE  ListenKey(Entries(h)[m].listen) \in [addr : Nat, port : Nat, ssl : BOOLEAN]
    BY DEF keys
  <2>1. ListenShape(Entries(h)[m].listen)
    BY EntriesAre DEF IsEntry, HttpShape, ServerShape
  <2> QED BY <2>1 DEF ListenKey, ListenShape
<1>9. IsFiniteSet(keys)
  <2>1. PICK n \in Nat : DOMAIN Entries(h) = 1 .. n
    BY EntriesAre, ListDomain
  <2>2. IsFiniteSet(DOMAIN Entries(h))
    BY <2>1, FS_Interval
  <2> DEFINE f == [i \in DOMAIN Entries(h) |-> ListenKey(Entries(h)[i].listen)]
  <2>3. f \in Surjection(DOMAIN Entries(h), keys)
    BY DEF Surjection, keys
  <2> HIDE DEF f
  <2> QED BY <2>2, <2>3, FS_Surjection
<1>10. RouterShape(r)
  BY <1>3, <1>6, <1>8, <1>9 DEF RouterShape
<1> QED BY <1>7, <1>10 DEF r

-----------------------------------------------------------------------------
(* Files *)

\* The nodes of a name among some nodes.
LEMMA NamedFrom ==
  ASSUME NEW nodes, IsList(nodes), NEW name
  PROVE  /\ IsList(Named(nodes, name))
         /\ \A k \in DOMAIN Named(nodes, name) :
              Named(nodes, name)[k].n = name /\ \E i \in DOMAIN nodes : Named(nodes, name)[k] = nodes[i]
<1> DEFINE places == {i \in DOMAIN nodes : nodes[i].n = name}
<1>1. Named(nodes, name) = Kept(nodes, places)
  BY Zenon DEF Named
<1>2. \A i \in DOMAIN nodes \cap places : nodes[i].n = name
  OBVIOUS
<1> HIDE DEF places
<1> QED BY <1>1, <1>2, KeptFrom

\* The directives of a name in a block.
LEMMA GivenFrom ==
  ASSUME NEW b, IsList(b.c), NEW name
  PROVE  /\ IsList(Given(b, name))
         /\ \A k \in DOMAIN Given(b, name) :
              /\ Given(b, name)[k].n = name
              /\ \E i \in DOMAIN b.c : Given(b, name)[k] = b.c[i]
              /\ \E j \in DOMAIN Directives(b) : Given(b, name)[k] = Directives(b)[j]
<1> DEFINE places == {i \in DOMAIN b.c : ~IsBlock(b.c[i])}
<1>1. Directives(b) = Kept(b.c, places)
  BY Zenon DEF Directives
<1>2. IsList(Directives(b)) /\ \A j \in DOMAIN Directives(b) : \E i \in DOMAIN b.c : Directives(b)[j] = b.c[i]
  <2> HIDE DEF places
  <2> QED BY <1>1, KeptFrom
<1>3. /\ IsList(Named(Directives(b), name))
      /\ \A k \in DOMAIN Named(Directives(b), name) :
           /\ Named(Directives(b), name)[k].n = name
           /\ \E j \in DOMAIN Directives(b) : Named(Directives(b), name)[k] = Directives(b)[j]
  BY <1>2, NamedFrom
<1> HIDE DEF places
<1> QED BY <1>2, <1>3 DEF Given

\* The blocks inside a block, and those of a name.
LEMMA BlocksFrom ==
  ASSUME NEW b, IsList(b.c)
  PROVE  /\ IsList(Blocks(b))
         /\ \A j \in DOMAIN Blocks(b) : IsBlock(Blocks(b)[j]) /\ \E i \in DOMAIN b.c : Blocks(b)[j] = b.c[i]
<1> DEFINE places == {i \in DOMAIN b.c : IsBlock(b.c[i])}
<1>1. Blocks(b) = Kept(b.c, places)
  BY Zenon DEF Blocks
<1>2. \A i \in DOMAIN b.c \cap places : IsBlock(b.c[i])
  BY DEF IsBlock
<1> HIDE DEF places
<1> QED BY <1>1, <1>2, KeptFrom

\* The blocks of a name inside a block.
LEMMA GivenBlocksFrom ==
  ASSUME NEW b, IsList(b.c), NEW name
  PROVE  /\ IsList(GivenBlocks(b, name))
         /\ \A k \in DOMAIN GivenBlocks(b, name) :
              /\ GivenBlocks(b, name)[k].n = name /\ IsBlock(GivenBlocks(b, name)[k])
              /\ \E i \in DOMAIN b.c : GivenBlocks(b, name)[k] = b.c[i]
              /\ \E j \in DOMAIN Blocks(b) : GivenBlocks(b, name)[k] = Blocks(b)[j]
<1>1. /\ IsList(Named(Blocks(b), name))
      /\ \A k \in DOMAIN Named(Blocks(b), name) :
           /\ Named(Blocks(b), name)[k].n = name
           /\ \E j \in DOMAIN Blocks(b) : Named(Blocks(b), name)[k] = Blocks(b)[j]
  BY BlocksFrom, NamedFrom
<1> QED BY <1>1, BlocksFrom DEF GivenBlocks

\* A server block that is accepted becomes a server, but for the identity of its TLS sockets.
LEMMA LoweredServer ==
  ASSUME NEW b, ServerText(b), ServerOK(b)
  PROVE  LET s == LowerServer(b) IN
         /\ s.server_names \in Seq(DOMAIN Canon) /\ IsList(s.locations)
         /\ IsList(s.listens) /\ \A k \in DOMAIN s.listens : ListenShape(s.listens[k])
<1> DEFINE names == Given(b, "server_name")
           args == [i \in DOMAIN names |-> names[i].a]
           given == Given(b, "listen")
           listens == [i \in DOMAIN given |-> LowerListen(given[i])]
           blocks == Blocks(b)
           locations == [i \in DOMAIN blocks |-> LowerLocation(blocks[i])]
<1>1. IsList(b.c)
  BY DEF ServerText
<1>2. /\ LowerServer(b).server_names = FlattenSeq(args)
      /\ LowerServer(b).listens = listens /\ LowerServer(b).locations = locations
  BY DEF LowerServer
<1>3. FlattenSeq(args) \in Seq(DOMAIN Canon)
  <2>1. IsList(names) /\ \A k \in DOMAIN names : names[k].a \in Seq(DOMAIN Canon)
    <3>1. /\ IsList(names)
          /\ \A k \in DOMAIN names : /\ names[k].n = "server_name"
                                     /\ \E i \in DOMAIN b.c : names[k] = b.c[i]
      BY <1>1, GivenFrom
    <3> HIDE DEF names
    <3> QED BY <3>1 DEF ServerText
  <2> HIDE DEF names
  <2>2. args = [i \in DOMAIN names |-> args[i]] /\ \A i \in DOMAIN names : args[i] = names[i].a
    OBVIOUS
  <2> HIDE DEF args
  <2>3. IsList(args) /\ DOMAIN args = DOMAIN names
    BY <2>1, <2>2, ListOver
  <2> QED BY <2>1, <2>2, <2>3, JoinedIs
<1>4. IsList(locations)
  <2>1. IsList(blocks)
    BY <1>1, BlocksFrom
  <2> HIDE DEF blocks
  <2>2. locations = [i \in DOMAIN blocks |-> locations[i]]
    OBVIOUS
  <2> HIDE DEF locations
  <2> QED BY <2>1, <2>2, ListOver
<1>5. /\ IsList(given)
      /\ \A k \in DOMAIN given :
           /\ given[k].n = "listen"
           /\ \E i \in DOMAIN b.c : given[k] = b.c[i]
           /\ \E j \in DOMAIN Directives(b) : given[k] = Directives(b)[j]
  BY <1>1, GivenFrom
<1> HIDE DEF given
<1>6. ASSUME NEW k \in DOMAIN given PROVE ListenShape(LowerListen(given[k]))
  <2>1. ServerDirectiveOK(given[k])
    BY <1>5 DEF ServerOK
  <2>2. given[k].a # <<>> /\ given[k].a[1] # Bad
    BY <1>5, <2>1 DEF ServerDirectiveOK, ListenOK
  <2>3. given[k].a[1].addr \in Nat /\ given[k].a[1].port \in Nat
    BY <1>5, <2>2 DEF ServerText
  <2>4. LowerListen(given[k]).ssl \in BOOLEAN
    BY DEF LowerListen
  <2> QED BY <2>3, <2>4 DEF ListenShape, LowerListen
<1>7. listens = [i \in DOMAIN given |-> listens[i]] /\ \A i \in DOMAIN given : listens[i] = LowerListen(given[i])
  OBVIOUS
<1> HIDE DEF listens
<1>8. IsList(listens) /\ DOMAIN listens = DOMAIN given
  BY <1>5, <1>7, ListOver
<1> HIDE DEF args, locations
<1> QED BY <1>2, <1>3, <1>4, <1>6, <1>7, <1>8

\* A certificate from the provider changes nothing else of a server.
LEMMA ProviderKeeps ==
  ASSUME NEW b, NEW provider
  PROVE  LET s == LowerServer(b)
             t == AssignProvider(s, provider)
         IN  t.server_names = s.server_names /\ t.locations = s.locations /\ t.listens = s.listens
<1> DEFINE s == LowerServer(b)
<1>1. PICK names, listens, locations, tls, options :
        s = [server_names |-> names, listens |-> listens, locations |-> locations,
             tls |-> tls, tls_options |-> options]
  BY DEF LowerServer
<1> HIDE DEF s
<1>2. CASE AssignProvider(s, provider) = s
  BY <1>2 DEF s
<1>3. CASE AssignProvider(s, provider) = [s EXCEPT !.tls = [provider |-> "letsencrypt"]]
  BY <1>1, <1>3 DEF s
<1>4. AssignProvider(s, provider) \in {s, [s EXCEPT !.tls = [provider |-> "letsencrypt"]]}
  BY DEF AssignProvider
<1> QED BY <1>2, <1>3, <1>4

\* An accepted file is what the compiler expects.
LEMMA LoweredHttp ==
  ASSUME NEW b, HttpText(b), HttpOK(b)
  PROVE  HttpShape(LowerHttp(b))
<1> DEFINE blocks == GivenBlocks(b, "server")
           provider == Sole(GivenBlocks(b, "ssl_provider"), LowerSslProvider)
           servers == LowerHttp(b).servers
<1>1. /\ IsList(blocks)
      /\ \A k \in DOMAIN blocks :
           /\ blocks[k].n = "server" /\ IsBlock(blocks[k])
           /\ \E i \in DOMAIN b.c : blocks[k] = b.c[i]
           /\ \E j \in DOMAIN Blocks(b) : blocks[k] = Blocks(b)[j]
  BY GivenBlocksFrom DEF HttpText
<1>2. servers = [i \in DOMAIN blocks |-> AssignProvider(LowerServer(blocks[i]), provider)]
  BY DEF LowerHttp
<1> HIDE DEF blocks, servers, provider
<1>3. IsList(servers) /\ DOMAIN servers = DOMAIN blocks
  <2>1. servers = [i \in DOMAIN blocks |-> servers[i]]
    BY <1>2
  <2> QED BY <1>1, <2>1, ListOver
<1>4. ASSUME NEW k \in DOMAIN servers PROVE ServerShape(servers[k])
  <2>1. ServerText(blocks[k])
    BY <1>1, <1>3 DEF HttpText
  <2>2. ServerOK(blocks[k])
    <3>1. HttpBlockOK(blocks[k]) /\ blocks[k].n = "server"
      BY <1>1, <1>3 DEF HttpOK
    <3> QED BY <3>1 DEF HttpBlockOK
  <2>3. TlsServerOK(servers[k])
    BY DEF HttpOK, servers
  <2>4. PICK s : s = LowerServer(blocks[k])
    OBVIOUS
  <2>5. /\ s.server_names \in Seq(DOMAIN Canon) /\ IsList(s.locations)
        /\ IsList(s.listens) /\ \A j \in DOMAIN s.listens : ListenShape(s.listens[j])
    BY <2>1, <2>2, <2>4, LoweredServer
  <2>6. /\ servers[k].server_names = s.server_names /\ servers[k].locations = s.locations
        /\ servers[k].listens = s.listens
    BY <1>2, <1>3, <2>4, ProviderKeeps
  <2> QED BY <2>3, <2>5, <2>6, Zenon DEF ServerShape, TlsServerOK
<1> QED BY <1>3, <1>4 DEF HttpShape, servers

-----------------------------------------------------------------------------
(* Snapshots *)

\* An accepted snapshot is what the compiler expects.
LEMMA DecodedHttp ==
  ASSUME NoneIsOwn, NEW w, WireMessage(w), WireOK(w)
  PROVE  HttpShape(http_from_proto_snapshot(w))
<1> DEFINE servers == http_from_proto_snapshot(w).servers
           server(v) == server_from_proto_virtual_host(ListenerOf(w, v.listener), v)
<1>1. servers = [i \in DOMAIN w.vhosts |-> server(w.vhosts[i])]
  BY DEF http_from_proto_snapshot, Map
<1> HIDE DEF servers
<1>2. IsList(servers) /\ DOMAIN servers = DOMAIN w.vhosts
  <2>1. servers = [i \in DOMAIN w.vhosts |-> servers[i]]
    BY <1>1
  <2> QED BY <2>1, ListOver DEF WireMessage
<1>3. ASSUME NEW i \in DOMAIN w.vhosts PROVE ServerShape(servers[i])
  <2>1. PICK v : v = w.vhosts[i] /\ VirtualHostOK(w, v) /\ servers[i] = server(v)
    BY <1>1 DEF WireOK
  <2>2. v.server_names \in Seq(DOMAIN Canon) /\ IsList(v.routes)
    BY <2>1 DEF WireMessage
  <2>3. PICK l : l = ListenerOf(w, v.listener) /\ l.addr \in Nat /\ l.port \in Nat /\ l.tls \in BOOLEAN
    <3>1. \E k \in DOMAIN w.listeners : w.listeners[k].name = v.listener
      BY <2>1 DEF VirtualHostOK
    <3>2. \E k \in DOMAIN w.listeners : ListenerOf(w, v.listener) = w.listeners[k]
      BY <3>1 DEF ListenerOf
    <3> QED BY <3>2 DEF WireMessage
  <2>4. l.tls => v.tls # None
    BY <2>1, <2>3 DEF VirtualHostOK
  <2> DEFINE listen == [addr |-> l.addr, port |-> l.port, ssl |-> l.tls, default_server |-> v.default_server,
                        http2 |-> l.http2, http2_only |-> l.http2_only]
             locations == [k \in DOMAIN v.routes |-> location_from_proto_route(v.routes[k])]
             tls == IF v.tls = None THEN None
                    ELSE [provider |-> "custom", cert |-> v.tls.cert, key |-> v.tls.key]
  <2>5. /\ servers[i].server_names = v.server_names /\ servers[i].locations = locations
        /\ servers[i].listens = <<listen>> /\ servers[i].tls = tls
    BY <2>1, <2>3 DEF server_from_proto_virtual_host, Map
  <2>6. IsList(locations)
    <3>1. locations = [k \in DOMAIN v.routes |-> locations[k]]
      OBVIOUS
    <3> HIDE DEF locations
    <3> QED BY <2>2, <3>1, ListOver
  <2>7. ListenShape(listen) /\ listen.ssl = l.tls
    BY <2>3 DEF ListenShape
  <2>8. l.tls => tls # None
    <3> SUFFICES ASSUME l.tls PROVE tls # None
      OBVIOUS
    <3>1. tls = [provider |-> "custom", cert |-> v.tls.cert, key |-> v.tls.key]
      BY <2>4, Zenon
    <3> HIDE DEF tls
    <3> QED BY <3>1, Zenon DEF NoneIsOwn
  <2> HIDE DEF listen, locations, tls
  <2>9. IsList(<<listen>>) /\ DOMAIN <<listen>> = {1} /\ <<listen>>[1] = listen
    <3>1. <<listen>> = [k \in 1 .. 1 |-> <<listen>>[k]]
      OBVIOUS
    <3>2. IsList(<<listen>>)
      BY <3>1, ListIs
    <3> QED BY <3>2
  <2>10. \A k \in DOMAIN servers[i].listens : servers[i].listens[k] = listen
    BY <2>5, <2>9
  <2>11. IsList(servers[i].listens) /\ \A k \in DOMAIN servers[i].listens : ListenShape(servers[i].listens[k])
    BY <2>5, <2>7, <2>9, <2>10
  <2>12. (\E k \in DOMAIN servers[i].listens : servers[i].listens[k].ssl) => servers[i].tls # None
    BY <2>5, <2>7, <2>8, <2>10
  <2> QED BY <2>2, <2>5, <2>6, <2>11, <2>12 DEF ServerShape
<1> QED BY <1>2, <1>3 DEF HttpShape, servers

\* Each rank is one of an element, so the elements in order are a list of them.
LEMMA RankTaken ==
  ASSUME NEW S, IsFiniteSet(S), NEW R, Orders(R, S), NEW n \in 1 .. Cardinality(S)
  PROVE  \E x \in S : RankIn(R, S, x) = n - 1
<1> DEFINE f == [x \in S |-> RankIn(R, S, x)]
<1>1. PICK m \in Nat : m = Cardinality(S)
  BY FS_CardinalityType
<1>2. f \in Surjection(S, 0 .. Cardinality(S) - 1)
  BY RankBijection DEF Bijection
<1>3. n - 1 \in 0 .. Cardinality(S) - 1
  BY <1>1
<1>4. \E x \in S : f[x] = n - 1
  <2> HIDE DEF f
  <2> QED BY <1>2, <1>3 DEF Surjection
<1> QED BY <1>4

\* Host names in order are a list of them.
LEMMA OrderedNames ==
  ASSUME NEW S \in SUBSET Nat, IsFiniteSet(S)
  PROVE  IsList(Ordered(S, <)) /\ \A n \in DOMAIN Ordered(S, <) : Ordered(S, <)[n] \in S
<1> DEFINE R == {p \in S \X S : p[1] < p[2]}
           out == Ordered(S, <)
<1>1. Cardinality(S) \in Nat
  BY FS_CardinalityType
<1>2. Orders(R, S)
  BY DEF Orders
<1>3. \A x \in S : RankIn(R, S, x) = Cardinality({y \in S : y < x})
  <2>1. \A x \in S : {y \in S : <<y, x>> \in R} = {y \in S : y < x}
    OBVIOUS
  <2> QED BY <2>1 DEF RankIn
<1> HIDE DEF R
<1>4. ASSUME NEW n \in 1 .. Cardinality(S) PROVE \E x \in S : Cardinality({y \in S : y < x}) = n - 1
  <2>1. PICK x \in S : RankIn(R, S, x) = n - 1
    BY <1>2, RankTaken
  <2>2. Cardinality({y \in S : y < x}) = n - 1
    BY <1>3, <2>1, Zenon
  <2> QED BY <2>2, Zenon
<1> DEFINE at(n) == CHOOSE x \in S : Cardinality({y \in S : y < x}) = n - 1
<1>5. out = [n \in 1 .. Cardinality(S) |-> at(n)]
  BY Zenon DEF Ordered
<1> HIDE DEF out, at
<1>6. out = [n \in 1 .. Cardinality(S) |-> out[n]] /\ DOMAIN out = 1 .. Cardinality(S)
  BY <1>5
<1>7. ASSUME NEW n \in 1 .. Cardinality(S) PROVE out[n] \in S
  <2>1. at(n) \in S
    BY <1>4, Zenon DEF at
  <2> QED BY <1>5, <2>1
<1>8. IsList(out)
  BY <1>1, <1>6, ListIs
<1> QED BY <1>6, <1>7, <1>8 DEF out

\* The order of sockets is one: by address, then port, then TLS.
LEMMA OrderedKeys ==
  ASSUME NEW S \in SUBSET [addr : Nat, port : Nat, ssl : BOOLEAN], IsFiniteSet(S)
  PROVE  IsList(Ordered(S, KeyBefore)) /\ \A n \in DOMAIN Ordered(S, KeyBefore) : Ordered(S, KeyBefore)[n] \in S
<1> DEFINE R == {p \in S \X S : KeyBefore(p[1], p[2])}
           out == Ordered(S, KeyBefore)
<1>1. Cardinality(S) \in Nat
  BY FS_CardinalityType
<1>2. Orders(R, S)
  <2>0. \A x, y \in S : <<x, y>> \in R <=> KeyBefore(x, y)
    BY DEF KeyBefore
  <2>1. \A x \in S : x.addr \in Nat /\ x.port \in Nat /\ x.ssl \in BOOLEAN
    OBVIOUS
  <2> HIDE DEF R
  <2>2. \A x \in S : ~KeyBefore(x, x)
    BY <2>1 DEF KeyBefore
  <2>3. ASSUME NEW x \in S, NEW y \in S, NEW z \in S, KeyBefore(x, y), KeyBefore(y, z)
        PROVE  KeyBefore(x, z)
    BY <2>1, <2>3 DEF KeyBefore
  <2>4. ASSUME NEW x \in S, NEW y \in S, x # y PROVE KeyBefore(x, y) \/ KeyBefore(y, x)
    <3>1. x.addr # y.addr \/ x.port # y.port \/ x.ssl # y.ssl
      BY <2>4
    <3> QED BY <2>1, <3>1 DEF KeyBefore
  <2> QED BY <2>0, <2>2, <2>3, <2>4 DEF Orders
<1>3. \A x \in S : RankIn(R, S, x) = Cardinality({y \in S : KeyBefore(y, x)})
  <2>1. \A x \in S : {y \in S : <<y, x>> \in R} = {y \in S : KeyBefore(y, x)}
    BY DEF KeyBefore
  <2> QED BY <2>1 DEF RankIn
<1> HIDE DEF R
<1>4. ASSUME NEW n \in 1 .. Cardinality(S) PROVE \E x \in S : Cardinality({y \in S : KeyBefore(y, x)}) = n - 1
  <2>1. PICK x \in S : RankIn(R, S, x) = n - 1
    BY <1>2, RankTaken
  <2>2. Cardinality({y \in S : KeyBefore(y, x)}) = n - 1
    BY <1>3, <2>1, Zenon
  <2> QED BY <2>2, Zenon
<1> DEFINE at(n) == CHOOSE x \in S : Cardinality({y \in S : KeyBefore(y, x)}) = n - 1
<1>5. out = [n \in 1 .. Cardinality(S) |-> at(n)]
  BY Zenon DEF Ordered
<1> HIDE DEF out, at
<1>6. out = [n \in 1 .. Cardinality(S) |-> out[n]] /\ DOMAIN out = 1 .. Cardinality(S)
  BY <1>5
<1>7. ASSUME NEW n \in 1 .. Cardinality(S) PROVE out[n] \in S
  <2>1. at(n) \in S
    BY <1>4, Zenon DEF at
  <2> QED BY <1>5, <2>1
<1>8. IsList(out)
  BY <1>1, <1>6, ListIs
<1> QED BY <1>6, <1>7, <1>8 DEF out

\* The greatest index of a part, and what is left without it.
LEMMA GreatestIndex ==
  ASSUME NEW n \in Nat, NEW t \in SUBSET (1 .. n), t # {}
  PROVE  Max(t) \in 1 .. n /\ t \ {Max(t)} \in SUBSET (1 .. n)
<1>1. t \in SUBSET (0 .. n)
  OBVIOUS
<1>2. Max(t) \in t
  BY <1>1, MaxIs
<1> QED BY <1>2

\* Virtual hosts over these sets of names, listeners, identities and lists of routes.
VHosts(N, L, X, Y) == [listener : L, server_names : Seq(N), default_server : BOOLEAN, tls : X, routes : Y]

\* Replacing an element of a list of virtual hosts by another one.
LEMMA ReplaceHost ==
  ASSUME NEW V, NEW s \in Seq(V), NEW k \in DOMAIN s, NEW v \in V
  PROVE  [s EXCEPT ![k] = v] \in Seq(V)
<1>1. PICK n \in Nat : n = Len(s) /\ s \in [1 .. n -> V]
  OBVIOUS
<1>2. [s EXCEPT ![k] = v] \in [1 .. n -> V]
  BY <1>1
<1> QED BY <1>2

\* Merging a host keeps the list one of virtual hosts.
LEMMA MergeType ==
  ASSUME NEW N, NEW L, NEW X, NEW Y, NEW out \in Seq(VHosts(N, L, X, Y)), NEW v \in VHosts(N, L, X, Y)
  PROVE  MergeOrPush(out, v) \in Seq(VHosts(N, L, X, Y))
<1> DEFINE V == VHosts(N, L, X, Y)
           same == {i \in DOMAIN out : out[i].routes = v.routes /\ out[i].tls = v.tls}
           k == Min(same)
<1>1. CASE same = {}
  <2>1. MergeOrPush(out, v) = Append(out, v)
    BY <1>1, Zenon DEF MergeOrPush
  <2> HIDE DEF V, same
  <2>2. out \in Seq(V) /\ v \in V
    BY DEF V
  <2>3. Append(out, v) \in Seq(V)
    BY <2>2
  <2> QED BY <2>1, <2>3 DEF V
<1>2. CASE same # {}
  <2>1. MergeOrPush(out, v) = [out EXCEPT ![k].server_names = @ \o v.server_names]
    BY <1>2, Zenon DEF MergeOrPush
  <2>2. same \subseteq DOMAIN out /\ DOMAIN out \subseteq Nat
    BY DEF VHosts
  <2> HIDE DEF same
  <2>3. k \in DOMAIN out
    BY <1>2, <2>2, MinIs
  <2> HIDE DEF k
  <2>4. out[k] \in V
    <3> HIDE DEF V
    <3>1. out \in Seq(V)
      BY DEF V
    <3> QED BY <2>3, <3>1
  <2>5. PICK names : names = out[k].server_names \o v.server_names
    OBVIOUS
  <2>6. names \in Seq(N)
    <3>1. out[k].server_names \in Seq(N) /\ v.server_names \in Seq(N)
      BY <2>4 DEF VHosts
    <3> QED BY <2>5, <3>1
  <2>7. [out[k] EXCEPT !.server_names = names] \in V
    BY <2>4, <2>6 DEF VHosts
  <2>8. MergeOrPush(out, v) = [out EXCEPT ![k] = [out[k] EXCEPT !.server_names = names]]
    BY <2>1, <2>5, Zenon
  <2>9. PICK x \in V : x = [out[k] EXCEPT !.server_names = names]
    BY <2>7
  <2> HIDE DEF V
  <2>10. [out EXCEPT ![k] = x] \in Seq(V)
    <3>1. out \in Seq(V)
      BY DEF V
    <3> QED BY <2>3, <2>9, <3>1, ReplaceHost
  <2> QED BY <2>8, <2>9, <2>10 DEF V
<1> QED BY <1>1, <1>2

NoHosts == <<>>
MergeVisit(s, out, i) == MergeOrPush(out, s[i])

\* Merging a list of hosts one after the other gives a list of hosts.
LEMMA MergedHosts ==
  ASSUME NEW N, NEW L, NEW X, NEW Y, NEW s \in Seq(VHosts(N, L, X, Y))
  PROVE  FoldLeft(MergeOrPush, <<>>, s) \in Seq(VHosts(N, L, X, Y))
<1> DEFINE V == VHosts(N, L, X, Y)
           D == Seq(V)
           n == Len(s)
           Solves(f) ==
             f = [t \in SUBSET (1 .. n) |->
                    IF t = {} THEN NoHosts ELSE MergeVisit(s, f[t \ {Max(t)}], Max(t))]
           step == [q \in D \X (1 .. n) |-> MergeVisit(s, q[1], q[2])]
<1> HIDE DEF V
<1>1. n \in Nat /\ DOMAIN s = 1 .. n
  BY DEF V
<1>2. \A i \in 1 .. n : s[i] \in V
  BY DEF V
<1> HIDE DEF n
<1>3. FoldLeft(MergeOrPush, <<>>, s) = (CHOOSE f : Solves(f))[1 .. n]
  BY <1>1, Zenon DEF FoldLeft, MapThenFoldSet, MergeVisit, NoHosts
<1>4. NoHosts \in D
  BY DEF NoHosts
<1>5. \A out \in D, i \in 1 .. n : MergeVisit(s, out, i) \in D
  BY <1>2, MergeType DEF MergeVisit, V
<1> HIDE DEF D
<1>6. step \in [D \X (1 .. n) -> D]
  BY <1>5
<1>7. PICK g \in [SUBSET (1 .. n) -> D] : IsFold(g, n, NoHosts, step)
  <2> HIDE DEF step
  <2> QED BY <1>1, <1>4, <1>6, FoldExists
<1>8. \A t \in SUBSET (1 .. n) :
        t # {} => step[<<g[t \ {Max(t)}], Max(t)>>] = MergeVisit(s, g[t \ {Max(t)}], Max(t))
  BY <1>1, GreatestIndex
<1>9. Solves(g)
  <2> HIDE DEF step
  <2>1. g = [t \in SUBSET (1 .. n) |->
               IF t = {} THEN NoHosts ELSE MergeVisit(s, g[t \ {Max(t)}], Max(t))]
    BY <1>7, <1>8 DEF IsFold
  <2> QED BY <2>1, Zenon
<1>10. PICK f : Solves(f) /\ FoldLeft(MergeOrPush, <<>>, s) = f[1 .. n]
  <2>1. Solves(CHOOSE f : Solves(f))
    <3> HIDE DEF Solves
    <3> QED BY <1>9, Zenon
  <2> HIDE DEF Solves
  <2> QED BY <1>3, <2>1, Zenon
<1> DEFINE bad == {k \in 0 .. n : f[1 .. k] \notin D}
<1>11. bad = {}
  <2> SUFFICES ASSUME bad # {} PROVE FALSE
    OBVIOUS
  <2>1. PICK k \in bad : \A j \in bad : k <= j
    <3>1. bad \in SUBSET Nat
      OBVIOUS
    <3> HIDE DEF bad
    <3> QED BY <3>1, SmallestNat
  <2>2. k \in 0 .. n /\ f[1 .. k] \notin D
    BY <2>1
  <2>3. k # 0
    <3> SUFFICES ASSUME k = 0 PROVE FALSE
      OBVIOUS
    <3>1. (1 .. k) = {} /\ {} \in SUBSET (1 .. n)
      OBVIOUS
    <3>2. f[{}] = NoHosts
      BY <1>10, <3>1
    <3> HIDE DEF bad
    <3> QED BY <1>4, <2>2, <3>1, <3>2
  <2>4. k \in 1 .. n /\ k - 1 \in 0 .. n /\ k - 1 \notin bad
    <3>1. \A j \in bad : j \in Nat
      OBVIOUS
    <3> HIDE DEF bad
    <3> QED BY <1>1, <2>1, <2>2, <2>3, <3>1
  <2>5. f[1 .. k - 1] \in D
    BY <2>4
  <2> HIDE DEF bad
  <2>6. /\ (1 .. k) \in SUBSET (1 .. n) /\ (1 .. k) # {}
        /\ Max(1 .. k) = k /\ (1 .. k) \ {Max(1 .. k)} = 1 .. (k - 1)
    BY <1>1, <2>4, InitialPart
  <2>7. f[1 .. k] = MergeVisit(s, f[(1 .. k) \ {Max(1 .. k)}], Max(1 .. k))
    BY <1>10, <2>6
  <2>8. f[1 .. k] = MergeVisit(s, f[1 .. k - 1], k)
    BY <2>6, <2>7
  <2> HIDE DEF Solves
  <2> QED BY <1>5, <2>2, <2>4, <2>5, <2>8
<1>12. n \in 0 .. n /\ n \notin bad
  <2> HIDE DEF bad
  <2> QED BY <1>1, <1>11
<1> QED BY <1>10, <1>12 DEF D, V

\* The hosts of a listener are exported as virtual hosts with lists of names and routes.
LEMMA ExportedHosts ==
  ASSUME NEW name, NEW l, ListenerShape(l)
  PROVE  \E X, Y : /\ \A y \in Y : IsList(y)
                   /\ EncodeVirtualHosts(name, l) \in Seq(VHosts(DOMAIN Canon, {name}, X, Y))
<1> DEFINE hosts == Ordered(DOMAIN l.named, <)
           identity(h) == IF l.tls = None THEN None
                          ELSE IF h \in DOMAIN l.tls.named THEN l.tls.named[h] ELSE l.tls.default
           routes(h) == [i \in DOMAIN l.named[h] |-> EncodeRoute(l.named[h][i])]
           vhost(h) == [listener |-> name, server_names |-> <<h>>, default_server |-> FALSE,
                        tls |-> identity(h), routes |-> routes(h)]
           listed == [i \in DOMAIN hosts |-> vhost(hosts[i])]
           tls == IF l.tls = None THEN None ELSE l.tls.default
           rest == [i \in DOMAIN l.default.routes |-> EncodeRoute(l.default.routes[i])]
           X == {identity(h) : h \in DOMAIN l.named} \cup {tls}
           Y == {y \in {routes(h) : h \in DOMAIN l.named} \cup {rest} : IsList(y)}
           V == VHosts(DOMAIN Canon, {name}, X, Y)
           out == EncodeHosts(name, l)
<1>1. \A y \in Y : IsList(y)
  BY Zenon
<1>2. IsList(hosts) /\ \A i \in DOMAIN hosts : hosts[i] \in DOMAIN l.named
  <2>1. DOMAIN l.named \in SUBSET Nat /\ IsFiniteSet(DOMAIN l.named)
    BY CanonAssumption DEF ListenerShape
  <2> QED BY <2>1, OrderedNames
<1>3. ASSUME NEW h \in DOMAIN l.named PROVE identity(h) \in X /\ routes(h) \in Y /\ h \in DOMAIN Canon
  <2>1. IsList(l.named[h]) /\ h \in DOMAIN Canon
    BY DEF ListenerShape
  <2>2. IsList(routes(h))
    <3>1. routes(h) = [i \in DOMAIN l.named[h] |-> routes(h)[i]]
      OBVIOUS
    <3>2. PICK f : f = routes(h) /\ f = [i \in DOMAIN l.named[h] |-> f[i]]
      BY <3>1
    <3> HIDE DEF routes
    <3>3. IsList(f)
      BY <2>1, <3>2, ListOver
    <3> QED BY <3>2, <3>3
  <2>3. identity(h) \in X
    <3> HIDE DEF identity, tls
    <3> QED OBVIOUS
  <2>4. routes(h) \in Y
    <3> HIDE DEF routes, rest
    <3> QED BY <2>2
  <2> QED BY <2>1, <2>3, <2>4
<1>4. out = FoldLeft(MergeOrPush, <<>>, listed)
  BY Zenon DEF EncodeHosts, Map
<1>5. \A i \in DOMAIN hosts : listed[i] = vhost(hosts[i])
  OBVIOUS
<1>6. listed = [i \in DOMAIN hosts |-> listed[i]]
  OBVIOUS
<1> HIDE DEF hosts, identity, routes, listed, tls, rest, X, Y
<1>7. ASSUME NEW h \in DOMAIN l.named PROVE vhost(h) \in V
  <2>1. <<h>> \in Seq(DOMAIN Canon)
    BY <1>3
  <2> QED BY <1>3, <2>1 DEF VHosts
<1>8. listed \in Seq(V)
  <2> HIDE DEF vhost, V
  <2>1. PICK n \in Nat : DOMAIN hosts = 1 .. n
    BY <1>2, ListDomain
  <2>2. \A i \in 1 .. n : listed[i] \in V
    BY <1>2, <1>5, <1>7, <2>1
  <2>3. listed \in [1 .. n -> V]
    BY <1>6, <2>1, <2>2
  <2> QED BY <2>3
<1>9. out \in Seq(V)
  BY <1>4, <1>8, MergedHosts
<1> HIDE DEF out
<1> DEFINE same == {i \in DOMAIN out : out[i].routes = rest /\ out[i].tls = tls}
           last == [listener |-> name, server_names |-> <<>>, default_server |-> TRUE, tls |-> tls, routes |-> rest]
<1>10. EncodeVirtualHosts(name, l) =
         CASE l.default = None -> out
           [] l.default # None /\ same # {} -> [out EXCEPT ![Min(same)].default_server = TRUE]
           [] OTHER -> Append(out, last)
  BY Zenon DEF EncodeVirtualHosts, Map, out, tls, rest
<1>11. EncodeVirtualHosts(name, l) \in Seq(V)
  <2>1. CASE l.default = None
    <3>1. EncodeVirtualHosts(name, l) = out
      <4> HIDE DEF same, last
      <4> QED BY <1>10, <2>1
    <3> QED BY <1>9, <3>1, Zenon
  <2>2. CASE l.default # None /\ same # {}
    <3>1. EncodeVirtualHosts(name, l) = [out EXCEPT ![Min(same)].default_server = TRUE]
      <4> HIDE DEF same, last
      <4> QED BY <1>10, <2>2
    <3>2. same \subseteq DOMAIN out /\ DOMAIN out \in SUBSET Nat
      <4> HIDE DEF V
      <4> QED BY <1>9
    <3>3. PICK k \in DOMAIN out : k = Min(same)
      <4> HIDE DEF same
      <4> QED BY <2>2, <3>2, MinIs
    <3>4. out[k] \in V
      <4> HIDE DEF V
      <4> QED BY <1>9
    <3>5. PICK x \in V : x = [out[k] EXCEPT !.default_server = TRUE]
      BY <3>4 DEF VHosts
    <3>6. EncodeVirtualHosts(name, l) = [out EXCEPT ![k] = x]
      BY <3>1, <3>3, <3>5, Zenon
    <3> HIDE DEF V
    <3>7. [out EXCEPT ![k] = x] \in Seq(V)
      BY <1>9, ReplaceHost
    <3> QED BY <3>6, <3>7, Zenon
  <2>3. CASE l.default # None /\ same = {}
    <3>1. EncodeVirtualHosts(name, l) = Append(out, last)
      <4> HIDE DEF same, last
      <4> QED BY <1>10, <2>3
    <3>2. IsList(l.default.routes)
      BY <2>3 DEF ListenerShape
    <3>3. rest = [i \in DOMAIN l.default.routes |-> rest[i]]
      BY DEF rest
    <3>4. IsList(rest)
      BY <3>2, <3>3, ListOver
    <3>5. rest \in Y /\ tls \in X
      BY <3>4 DEF X, Y
    <3>6. last \in V
      <4>1. <<>> \in Seq(DOMAIN Canon)
        OBVIOUS
      <4> QED BY <3>5, <4>1 DEF VHosts
    <3> HIDE DEF V, last
    <3>7. Append(out, last) \in Seq(V)
      BY <1>9, <3>6
    <3> QED BY <3>1, <3>7, Zenon
  <2> QED BY <2>1, <2>2, <2>3
<1> QED BY <1>1, <1>11

\* A router that was compiled is exported as a snapshot message.
LEMMA Exported ==
  ASSUME NEW r, RouterShape(r)
  PROVE  WireMessage(proto_snapshot_from_runtime(r))
<1> DEFINE w == proto_snapshot_from_runtime(r)
           keys == ListenerKeys(r)
           parts == [i \in DOMAIN keys |-> EncodeVirtualHosts(i, r.listeners[keys[i]])]
           V == {v \in UNION {{parts[i][j] : j \in DOMAIN parts[i]} : i \in DOMAIN keys} :
                   v.server_names \in Seq(DOMAIN Canon) /\ IsList(v.routes)}
<1>1. IsList(keys) /\ \A i \in DOMAIN keys : keys[i] \in DOMAIN r.listeners
  <2>1. DOMAIN r.listeners \in SUBSET [addr : Nat, port : Nat, ssl : BOOLEAN] /\ IsFiniteSet(DOMAIN r.listeners)
    BY DEF RouterShape
  <2> QED BY <2>1, OrderedKeys, Zenon DEF ListenerKeys
<1>2. /\ w.listeners = [i \in DOMAIN keys |-> EncodeListener(i, keys[i], r.listeners[keys[i]])]
      /\ w.vhosts = FlattenSeq(parts)
  BY DEF proto_snapshot_from_runtime
<1> HIDE DEF keys, w
<1>3. \A i \in DOMAIN keys : parts[i] = EncodeVirtualHosts(i, r.listeners[keys[i]])
  OBVIOUS
<1>4. parts = [i \in DOMAIN keys |-> parts[i]]
  OBVIOUS
<1> HIDE DEF parts
<1>5. ASSUME NEW i \in DOMAIN keys PROVE parts[i] \in Seq(V)
  <2>1. ListenerShape(r.listeners[keys[i]])
    BY <1>1 DEF RouterShape
  <2>2. PICK X, Y : /\ \A y \in Y : IsList(y)
                    /\ parts[i] \in Seq(VHosts(DOMAIN Canon, {i}, X, Y))
    <3>1. PICK l : l = r.listeners[keys[i]] /\ ListenerShape(l) /\ parts[i] = EncodeVirtualHosts(i, l)
      BY <1>3, <2>1
    <3>2. \E X, Y : /\ \A y \in Y : IsList(y)
                    /\ EncodeVirtualHosts(i, l) \in Seq(VHosts(DOMAIN Canon, {i}, X, Y))
      BY <3>1, ExportedHosts
    <3> QED BY <3>1, <3>2, Zenon
  <2>3. PICK H : H = VHosts(DOMAIN Canon, {i}, X, Y)
    OBVIOUS
  <2>4. \A v \in H : v.server_names \in Seq(DOMAIN Canon) /\ IsList(v.routes)
    BY <2>2, <2>3 DEF VHosts
  <2>5. PICK n \in Nat : DOMAIN parts[i] = 1 .. n /\ parts[i] = [j \in 1 .. n |-> parts[i][j]]
    <3>1. IsList(parts[i])
      BY <2>2, <2>3, TypedIsList
    <3> QED BY <3>1, ListDomain
  <2>6. \A j \in 1 .. n : parts[i][j] \in H
    BY <2>2, <2>3, <2>5, TypedIsList
  <2>7. \A j \in 1 .. n : parts[i][j] \in V
    BY <2>4, <2>5, <2>6
  <2> HIDE DEF V
  <2>8. parts[i] \in [1 .. n -> V]
    BY <2>5, <2>7
  <2> QED BY <2>8
<1>6. w.vhosts \in Seq(V)
  <2> HIDE DEF V
  <2>1. IsList(parts) /\ DOMAIN parts = DOMAIN keys
    BY <1>1, <1>4, ListOver
  <2> QED BY <1>2, <1>5, <2>1, JoinedIs
<1>7. /\ IsList(w.vhosts)
      /\ \A i \in DOMAIN w.vhosts : w.vhosts[i].server_names \in Seq(DOMAIN Canon) /\ IsList(w.vhosts[i].routes)
  <2>1. \A v \in V : v.server_names \in Seq(DOMAIN Canon) /\ IsList(v.routes)
    BY Zenon
  <2> HIDE DEF V
  <2> QED BY <1>6, <2>1, TypedIsList
<1>8. ASSUME NEW i \in DOMAIN w.listeners
      PROVE  w.listeners[i].addr \in Nat /\ w.listeners[i].port \in Nat /\ w.listeners[i].tls \in BOOLEAN
  <2>1. keys[i].addr \in Nat /\ keys[i].port \in Nat /\ keys[i].ssl \in BOOLEAN
    BY <1>1, <1>2 DEF RouterShape
  <2>2. w.listeners[i] = EncodeListener(i, keys[i], r.listeners[keys[i]])
    BY <1>2
  <2>3. \A k, l : LET e == EncodeListener(i, k, l) IN e.addr = k.addr /\ e.port = k.port /\ e.tls = k.ssl
    BY DEF EncodeListener
  <2> QED BY <2>1, <2>2, <2>3
<1> QED BY <1>7, <1>8 DEF WireMessage, w

-----------------------------------------------------------------------------
(* The workflow *)

\* What is in use is sound and can be exported; an export is a snapshot message.
CodecInv ==
  /\ active # None => Sound(active) /\ RouterShape(active)
  /\ wire # None => WireMessage(wire)

\* Nothing is in use at the start.
LEMMA CodecInitInv == Init => CodecInv
BY DEF Init, CodecInv

\* Whatever router an operation puts in use is one that was compiled from accepted input.
LEMMA CodecNextInv == ASSUME NoneIsOwn, CodecInv, [Next]_vars PROVE CodecInv'
<1> DEFINE Good(router) == Sound(router) /\ RouterShape(router)
<1>0. ASSUME NEW router, Apply(router), router # Rejected => Good(router)
      PROVE  active' # None => Good(active')
  BY <1>0 DEF Apply, CodecInv
<1>1. ASSUME NEW w, WireMessage(w), runtime_snapshot_from_proto(w) # Rejected
      PROVE  Good(runtime_snapshot_from_proto(w))
  <2>1. WireOK(w) /\ runtime_snapshot_from_proto(w) = from_http(http_from_proto_snapshot(w))
    BY <1>1, Zenon DEF runtime_snapshot_from_proto
  <2>2. HttpShape(http_from_proto_snapshot(w))
    BY <1>1, <2>1, DecodedHttp
  <2> QED BY <1>1, <2>1, <2>2, CompiledSound
<1>2. ASSUME NEW f \in DOMAIN Texts, NEW i \in DOMAIN Texts[f], LoadFile(Texts[f][i]) PROVE CodecInv'
  <2>1. PICK b : b = Texts[f][i] /\ HttpText(b) /\ LoadFile(b)
    BY <1>2, TextsAssumption
  <2> DEFINE router == IF HttpOK(b) /\ validate(LowerHttp(b)) THEN from_http(LowerHttp(b)) ELSE Rejected
  <2>2. Apply(router) /\ wire' = wire
    BY <2>1 DEF LoadFile
  <2>3. router # Rejected => Good(router)
    <3> SUFFICES ASSUME router # Rejected PROVE Good(router)
      OBVIOUS
    <3>1. HttpOK(b) /\ router = from_http(LowerHttp(b))
      BY Zenon
    <3> HIDE DEF router
    <3>2. HttpShape(LowerHttp(b))
      BY <2>1, <3>1, LoweredHttp
    <3> QED BY <3>1, <3>2, CompiledSound
  <2> HIDE DEF router, Good
  <2>4. active' # None => Good(active')
    BY <1>0, <2>2, <2>3
  <2> QED BY <2>2, <2>4 DEF CodecInv, Good
<1>3. ASSUME NEW f \in DOMAIN Wires, NEW i \in DOMAIN Wires[f], ApplySnapshot(Wires[f][i]) PROVE CodecInv'
  <2>1. PICK w : w = Wires[f][i] /\ WireMessage(w) /\ ApplySnapshot(w)
    BY <1>3, WiresAssumption
  <2>2. Apply(runtime_snapshot_from_proto(w)) /\ wire' = wire
    BY <2>1 DEF ApplySnapshot
  <2> HIDE DEF Good
  <2>3. active' # None => Good(active')
    BY <1>0, <1>1, <2>1, <2>2
  <2> QED BY <2>2, <2>3 DEF CodecInv, Good
<1>4. CASE GetSnapshot
  BY <1>4, Exported DEF GetSnapshot, CodecInv
<1>5. CASE Reapply
  <2>1. wire # None /\ Apply(runtime_snapshot_from_proto(wire)) /\ wire' = None /\ WireMessage(wire)
    BY <1>5 DEF Reapply, CodecInv
  <2> HIDE DEF Good
  <2>2. active' # None => Good(active')
    BY <1>0, <1>1, <2>1
  <2> QED BY <2>1, <2>2 DEF CodecInv, Good
<1>6. CASE Restart
  BY <1>6 DEF Restart, CodecInv
<1>7. CASE UNCHANGED vars
  BY <1>7 DEF vars, CodecInv
<1> QED BY <1>2, <1>3, <1>4, <1>5, <1>6, <1>7 DEF Next

\* Whatever router is in use, loaded from a file, applied through gRPC or read back from an
\* export, can be served: each listener has a server and, with TLS, an identity for every
\* name and for none; each route a known group of its scheme, a protocol that fits, and an
\* SCP route an HTTP/2 listener and its profile.
THEOREM AcceptedIsSound == ASSUME NoneIsOwn PROVE Spec => []RouterSound
<1>1. CodecInv => RouterSound
  BY DEF CodecInv, RouterSound
<1>2. CodecInv /\ [Next]_vars => CodecInv'
  BY CodecNextInv
<1> QED BY CodecInitInv, <1>1, <1>2, PTL DEF Spec
=============================================================================
