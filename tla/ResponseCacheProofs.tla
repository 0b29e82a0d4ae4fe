------------------------- MODULE ResponseCacheProofs -------------------------
(***************************************************************************)
(* Proofs about ResponseCache, for any number of requests, routes, URIs    *)
(* and generations, and any sizes and times.                               *)
(*                                                                         *)
(* Isolation is about generations: a request past advance_generation is   *)
(* never ahead of the table, a lookup under the lock succeeds only when it *)
(* is not behind it, and a location that is still in the table was put     *)
(* there in the table's generation.  So a request that holds a live        *)
(* location has exactly its generation.  Of LocationCache this needs only  *)
(* which keys its operations can leave behind.                             *)
(*                                                                         *)
(* Admission needs that a counter never says more than was missed.  The    *)
(* budget needs that a key has one counter, that entries and counters are  *)
(* finite, and how a sum over a finite set changes with one element.       *)
(***************************************************************************)
EXTENDS ResponseCache, FiniteSetTheorems, WellFoundedInduction, TLAPS

Shape(cache) ==
  DOMAIN cache = {"entries", "counts", "current_size", "last_sweep"}

\* c holds nothing that cache does not hold.
Shrunk(c, cache) ==
  Shape(c) /\ c.entries \subseteq cache.entries /\ c.counts \subseteq cache.counts

-----------------------------------------------------------------------------
(* What the operations of LocationCache leave behind *)

\* remove_response and remove_count only remove.
LEMMA RemoveShrinks ==
  ASSUME NEW cache, Shape(cache), NEW es, NEW cs
  PROVE  Shrunk(Remove(cache, es, cs), cache)
<1> DEFINE size == cache.current_size - MapThenSumSet(EntrySize, es)
                                     - MapThenSumSet(CountCost, cs)
<1>1. Remove(cache, es, cs) =
        [cache EXCEPT !.entries = cache.entries \ es, !.counts = cache.counts \ cs,
                      !.current_size = size]
  BY DEF Remove
<1> HIDE DEF size
<1> QED BY <1>1 DEF Shape, Shrunk

\* make_room only removes, whichever entries it picks.
LEMMA MakeRoomShrinks ==
  ASSUME NEW cache, Shape(cache), NEW size, NEW c \in MakeRoom(cache, size)
  PROVE  Shrunk(c, cache)
<1>1. \E es, cs : c = Remove(cache, es, cs)
  BY DEF MakeRoom
<1> QED BY <1>1, RemoveShrinks

\* sync_limits, with or without a sweep, only removes.
LEMMA SyncLimitsShrinks ==
  ASSUME NEW cache, Shape(cache), NEW c \in SyncLimits(cache)
  PROVE  Shrunk(c, cache)
<1>1. Shrunk(EvictStale(cache), cache)
  <2> DEFINE es == {e \in cache.entries : now - e.created_at >= Ttl + StaleIfError}
             cs == {k \in cache.counts : now - k.last_seen >= Ttl}
  <2>1. Shrunk(Remove(cache, es, cs), cache)
    BY RemoveShrinks
  <2>2. EvictStale(cache) = [Remove(cache, es, cs) EXCEPT !.last_sweep = now]
    BY DEF EvictStale
  <2> HIDE DEF es, cs
  <2> QED BY <2>1, <2>2 DEF Shrunk, Shape
<1>2. \/ c \in MakeRoom(EvictStale(cache), 0)
      \/ c \in MakeRoom(cache, 0)
  BY DEF SyncLimits
<1>3. CASE c \in MakeRoom(EvictStale(cache), 0)
  BY <1>1, <1>3, MakeRoomShrinks DEF Shrunk
<1>4. CASE c \in MakeRoom(cache, 0)
  BY <1>4, MakeRoomShrinks
<1> QED BY <1>2, <1>3, <1>4

\* The counter record_miss writes for a key that has one.
NextCount(old) ==
  IF now - old.last_seen >= Ttl THEN 1
  ELSE IF old.count < MinUses THEN old.count + 1 ELSE old.count

\* record_miss counts nothing, replaces the counter of its key, or makes room for a
\* first one.
MissForms(cache, key, res) ==
  \/ MinUses <= 1 /\ res[1] = cache /\ res[2] = TRUE
  \/ ~(MinUses <= 1) /\ res[1] = cache /\ res[2] = FALSE
  \/ /\ ~(MinUses <= 1)
     /\ \E old \in CountOf(cache, key) : \E new :
          /\ new.key = key /\ new.count = NextCount(old)
          /\ Shape(res[1]) /\ res[1].entries = cache.entries
          /\ res[1].counts = (cache.counts \ {old}) \cup {new}
          /\ res[1].current_size = cache.current_size
          /\ res[2] = (NextCount(old) >= MinUses)
  \/ /\ ~(MinUses <= 1) /\ CountOf(cache, key) = {} /\ res[2] = FALSE
     /\ \E new : \E c \in MakeRoom(cache, CountCost(new)) :
          /\ new.key = key /\ new.count = 1 /\ ~(CountCost(new) > MaxSize)
          /\ Shape(res[1]) /\ res[1].entries = c.entries
          /\ res[1].counts = c.counts \cup {new}
          /\ res[1].current_size = c.current_size + CountCost(new)

\* LocationCache::record_miss takes one of these forms.
LEMMA RecordMissForms ==
  ASSUME NEW cache, Shape(cache), NEW key, NEW res \in RecordMiss(cache, key)
  PROVE  MissForms(cache, key, res)
<1>1. CASE MinUses <= 1
  <2>1. res = <<cache, TRUE>>
    BY <1>1 DEF RecordMiss
  <2> QED BY <1>1, <2>1 DEF MissForms
<1>2. CASE ~(MinUses <= 1) /\ CountOf(cache, key) # {}
  <2> DEFINE old == CHOOSE c \in CountOf(cache, key) : TRUE
             n == NextCount(old)
             new == [key |-> key, count |-> n, last_seen |-> now]
             may == n >= MinUses
  <2>1. RecordMiss(cache, key) =
          {<<[cache EXCEPT !.counts = (@ \ {old}) \cup {new}], may>>}
    BY <1>2, Zenon DEF RecordMiss, NextCount
  <2>2. old \in CountOf(cache, key) /\ new.key = key /\ new.count = n
    BY <1>2
  <2> HIDE DEF old, new, may
  <2>3. /\ res[1] = [cache EXCEPT !.counts = (@ \ {old}) \cup {new}]
        /\ res[2] = may
    BY <2>1
  <2>4. /\ Shape(res[1]) /\ res[1].entries = cache.entries
        /\ res[1].counts = (cache.counts \ {old}) \cup {new}
        /\ res[1].current_size = cache.current_size
    BY <2>3 DEF Shape
  <2> QED BY <1>2, <2>2, <2>3, <2>4, Zenon DEF may, MissForms
<1>3. CASE ~(MinUses <= 1) /\ CountOf(cache, key) = {}
  <2> DEFINE new == [key |-> key, count |-> 1, last_seen |-> now]
             With(c) == [c EXCEPT !.counts = c.counts \cup {new},
                                  !.current_size = c.current_size + CountCost(new)]
  <2>1. RecordMiss(cache, key) =
          IF CountCost(new) > MaxSize THEN {<<cache, FALSE>>}
          ELSE {<<With(c), FALSE>> : c \in MakeRoom(cache, CountCost(new))}
    BY <1>3, Zenon DEF RecordMiss
  <2>2. new.key = key /\ new.count = 1
    OBVIOUS
  <2> HIDE DEF new, With
  <2>3. \A x : <<x, FALSE>>[1] = x /\ <<x, FALSE>>[2] = FALSE
    OBVIOUS
  <2>4. CASE CountCost(new) > MaxSize
    <3>1. res = <<cache, FALSE>>
      BY <2>1, <2>4
    <3> QED BY <1>3, <2>3, <3>1, Zenon DEF MissForms
  <2>5. CASE ~(CountCost(new) > MaxSize)
    <3>1. PICK c \in MakeRoom(cache, CountCost(new)) : res = <<With(c), FALSE>>
      BY <2>1, <2>5
    <3>2. res[1] = With(c) /\ res[2] = FALSE
      BY <2>3, <3>1, Zenon
    <3> DEFINE size == c.current_size + CountCost(new)
    <3>3. res[1] = [c EXCEPT !.counts = c.counts \cup {new}, !.current_size = size]
      BY <3>2 DEF With
    <3>4. Shrunk(c, cache)
      BY MakeRoomShrinks
    <3> HIDE DEF size
    <3>5. /\ Shape(res[1]) /\ res[1].entries = c.entries
          /\ res[1].counts = c.counts \cup {new}
          /\ res[1].current_size = size
      BY <3>3, <3>4 DEF Shrunk, Shape
    <3> QED BY <1>3, <2>2, <2>5, <3>2, <3>5, Zenon DEF size, MissForms
  <2> QED BY <2>4, <2>5
<1> QED BY <1>1, <1>2, <1>3

\* record_miss adds at most a counter of its key.
LEMMA RecordMissAdds ==
  ASSUME NEW cache, Shape(cache), NEW key, NEW res \in RecordMiss(cache, key)
  PROVE  /\ Shape(res[1])
         /\ res[1].entries \subseteq cache.entries
         /\ \A n \in res[1].counts : n \in cache.counts \/ n.key = key
<1>1. \/ res[1] = cache
      \/ \E old \in CountOf(cache, key) : \E new :
           /\ new.key = key
           /\ Shape(res[1]) /\ res[1].entries = cache.entries
           /\ res[1].counts = (cache.counts \ {old}) \cup {new}
      \/ \E new : \E c \in MakeRoom(cache, CountCost(new)) :
           /\ new.key = key
           /\ Shape(res[1]) /\ res[1].entries = c.entries
           /\ res[1].counts = c.counts \cup {new}
  <2>1. MissForms(cache, key, res)
    BY RecordMissForms
  <2> QED BY <2>1, Zenon DEF MissForms
<1>2. ASSUME NEW new, NEW c \in MakeRoom(cache, CountCost(new))
      PROVE  Shrunk(c, cache)
  BY MakeRoomShrinks
<1> QED BY <1>1, <1>2 DEF Shrunk

\* put adds at most a response of its key and origin.
LEMMA PutAdds ==
  ASSUME NEW cache, Shape(cache), NEW key, NEW size, NEW created, NEW origin,
         NEW c2 \in Put(cache, key, size, created, origin)
  PROVE  /\ Shape(c2)
         /\ c2.counts \subseteq cache.counts
         /\ \A e \in c2.entries :
              e \in cache.entries \/ (e.key = key /\ e.origin = origin)
<1> DEFINE cleared == Remove(cache, EntryOf(cache, key), CountOf(cache, key))
           new == [key |-> key, size |-> size, created_at |-> created, origin |-> origin]
<1>1. Shrunk(cleared, cache)
  BY RemoveShrinks
<1>2. new.key = key /\ new.origin = origin
  OBVIOUS
<1>3. \/ c2 = cleared
      \/ \E c \in MakeRoom(cleared, EntrySize(new)) :
           c2 = [c EXCEPT !.entries = c.entries \cup {new},
                          !.current_size = c.current_size + EntrySize(new)]
  BY DEF Put
<1> HIDE DEF cleared, new
<1>4. ASSUME NEW c \in MakeRoom(cleared, EntrySize(new)),
             c2 = [c EXCEPT !.entries = c.entries \cup {new},
                            !.current_size = c.current_size + EntrySize(new)]
      PROVE  /\ Shape(c2)
             /\ c2.counts \subseteq cache.counts
             /\ \A e \in c2.entries :
                  e \in cache.entries \/ (e.key = key /\ e.origin = origin)
  <2>1. Shrunk(c, cleared)
    BY <1>1, MakeRoomShrinks DEF Shrunk
  <2> DEFINE total == c.current_size + EntrySize(new)
  <2> HIDE DEF total
  <2>2. c2 = [c EXCEPT !.entries = c.entries \cup {new}, !.current_size = total]
    BY <1>4 DEF total
  <2> QED BY <1>1, <1>2, <2>1, <2>2 DEF Shrunk, Shape
<1> QED BY <1>1, <1>3, <1>4 DEF Shrunk

-----------------------------------------------------------------------------
(* The inductive invariant *)

\* Every stored response, live or retired, was produced under its own key.
OwnOrigins ==
  \A i \in 1 .. MaxCaches : \A e \in heap[i].entries : e.origin = e.key

\* What a request in flight knows of the generations.
RequestGenerations ==
  \A q \in Requests :
    /\ pc[q] = "idle" => served[q] = {}
    /\ pc[q] # "idle" => ctx[q] \in Keys /\ ctx[q].generation <= active
    /\ pc[q] = "advance_write" =>
         ctx[q].generation <= target[q] /\ target[q] <= active

\* A request at work on a location that is still in the table has the table's
\* generation.
HoldersCurrent ==
  \A q \in Requests : pc[q] = "lock" =>
    /\ ref[q] # 0
    /\ \A r \in Routes : locations[r] = ref[q] => ctx[q].generation = generation

IInv ==
  /\ TypeOK /\ TableKeepsUp /\ RequestGenerations
  /\ OwnOrigins /\ LiveKeysCurrent /\ HoldersCurrent /\ ServedFromOwnSnapshot

\* The initial state satisfies the inductive invariant.
LEMMA InitIInv == Init => IInv
<1> SUFFICES ASSUME Init PROVE IInv
  OBVIOUS
<1> USE BoundsAssumption DEF Init
<1>1. TypeOK
  BY DEF TypeOK, Steps, Calls, NewLocationCache
<1>2. TableKeepsUp /\ RequestGenerations /\ HoldersCurrent /\ ServedFromOwnSnapshot
  BY DEF TableKeepsUp, RequestGenerations, HoldersCurrent, ServedFromOwnSnapshot
<1>3. OwnOrigins /\ LiveKeysCurrent
  BY DEF OwnOrigins, LiveKeysCurrent, NewLocationCache
<1> QED BY <1>1, <1>2, <1>3 DEF IInv

\* Steps that leave the table and the heap alone keep what is said about them.
LEMMA HeapUnchanged ==
  ASSUME IInv, UNCHANGED stores
  PROVE  OwnOrigins' /\ LiveKeysCurrent'
BY DEF IInv, stores, OwnOrigins, LiveKeysCurrent, KeysOf

\* Where a call goes when store() fails or advance_generation returns: no request
\* but q moves, and q does not start to hold a location.
Moves(q) ==
  /\ \E step \in Steps \ {"advance_write", "create", "lock"}, call \in Calls :
       /\ pc' = [pc EXCEPT ![q] = step]
       /\ op' = [op EXCEPT ![q] = call]
       /\ \/ /\ step # "idle"
             /\ UNCHANGED <<ctx, ref, served>>
          \/ /\ step = "idle"
             /\ ctx' = [ctx EXCEPT ![q] = None]
             /\ ref' = [ref EXCEPT ![q] = 0]
             /\ served' = [served EXCEPT ![q] = {}]

\* advance_generation returns to the next call or ends the request.
LEMMA AfterAdvanceMoves ==
  ASSUME TypeOK, NEW q \in Requests, AfterAdvance(q) PROVE Moves(q)
<1>1. /\ {"idle", "advance", "store"} \subseteq Steps \ {"advance_write", "create", "lock"}
      /\ {"none", "end", op[q]} \subseteq Calls
  BY DEF Steps, Calls, TypeOK
<1>2. CASE Finish(q)
  BY <1>1, <1>2 DEF Finish, Goto, Moves
<1>3. CASE Goto(q, "advance", "end") /\ UNCHANGED <<ctx, ref, served>>
  BY <1>1, <1>3 DEF Goto, Moves
<1>4. CASE Goto(q, "store", op[q]) /\ UNCHANGED <<ctx, ref, served>>
  BY <1>1, <1>4 DEF Goto, Moves
<1> QED BY <1>2, <1>3, <1>4 DEF AfterAdvance

\* store() returning None goes on without a location.
LEMMA NoStoreMoves ==
  ASSUME TypeOK, NEW q \in Requests, NoStore(q) PROVE Moves(q)
<1>1. /\ {"idle", "advance", "store", "upstream"}
           \subseteq Steps \ {"advance_write", "create", "lock"}
      /\ {"none", "end", "miss"} \subseteq Calls
  BY DEF Steps, Calls
<1>2. CASE Finish(q)
  BY <1>1, <1>2 DEF Finish, Goto, Moves
<1>3. ASSUME UNCHANGED <<ctx, ref, served>>,
             \/ Goto(q, "store", "miss") \/ Goto(q, "upstream", "none")
             \/ Goto(q, "advance", "end")
      PROVE  Moves(q)
  BY <1>1, <1>3 DEF Goto, Moves
<1> QED BY <1>2, <1>3 DEF NoStore

\* A request that moves while the table is unchanged, or is emptied for a newer
\* generation, keeps the invariant, if it does not overtake the table.
LEMMA MovesIInv ==
  ASSUME IInv, NEW q \in Requests, Moves(q), pc[q] # "idle",
         UNCHANGED <<active, heap, allocated>>,
         target' \in [Requests -> 0 .. MaxGeneration],
         \A p \in Requests \ {q} : target'[p] = target[p],
         \/ UNCHANGED <<generation, locations>>
         \/ /\ locations' = [r \in Routes |-> 0]
            /\ generation' \in generation .. active,
         pc'[q] \in {"store", "upstream"} => ctx[q].generation <= generation'
  PROVE  IInv'
<1> USE BoundsAssumption
<1>1. PICK step \in Steps \ {"advance_write", "create", "lock"}, call \in Calls :
        /\ pc' = [pc EXCEPT ![q] = step]
        /\ op' = [op EXCEPT ![q] = call]
        /\ \/ /\ step # "idle"
              /\ UNCHANGED <<ctx, ref, served>>
           \/ /\ step = "idle"
              /\ ctx' = [ctx EXCEPT ![q] = None]
              /\ ref' = [ref EXCEPT ![q] = 0]
              /\ served' = [served EXCEPT ![q] = {}]
  BY DEF Moves
<1>2. TypeOK /\ step \in Steps /\ pc'[q] = step
  BY <1>1 DEF IInv, TypeOK
<1>3. generation' \in generation .. active /\ generation \in Nat /\ active \in Nat
  BY <1>2 DEF IInv, TypeOK, TableKeepsUp
<1>4. TypeOK'
  <2>1. locations' \in [Routes -> 0 .. allocated] /\ generation' \in 0 .. MaxGeneration
    BY <1>2, <1>3 DEF TypeOK
  <2>2. pc' \in [Requests -> Steps] /\ op' \in [Requests -> Calls]
    BY <1>1, <1>2 DEF TypeOK
  <2>3. /\ ctx' \in [Requests -> Keys \cup {None}]
        /\ ref' \in [Requests -> 0 .. allocated]
        /\ served' \in [Requests -> SUBSET Keys]
    <3>1. CASE UNCHANGED <<ctx, ref, served>>
      BY <1>2, <3>1 DEF TypeOK
    <3>2. CASE /\ ctx' = [ctx EXCEPT ![q] = None]
               /\ ref' = [ref EXCEPT ![q] = 0]
               /\ served' = [served EXCEPT ![q] = {}]
      <4>1. ctx' \in [Requests -> Keys \cup {None}]
        BY <1>2, <3>2 DEF TypeOK
      <4>2. ref' \in [Requests -> 0 .. allocated]
        BY <1>2, <3>2 DEF TypeOK
      <4>3. served' \in [Requests -> SUBSET Keys]
        BY <1>2, <3>2 DEF TypeOK
      <4> QED BY <4>1, <4>2, <4>3
    <3> QED BY <1>1, <3>1, <3>2
  <2> QED BY <1>2, <2>1, <2>2, <2>3 DEF TypeOK
<1>5. ASSUME NEW p \in Requests PROVE
        /\ p # q => /\ pc'[p] = pc[p] /\ ctx'[p] = ctx[p] /\ ref'[p] = ref[p]
                    /\ served'[p] = served[p] /\ target'[p] = target[p]
        /\ p = q => /\ pc'[p] \notin {"advance_write", "create", "lock"}
                    /\ pc'[p] # "idle" => ctx'[p] = ctx[p] /\ served'[p] = served[p]
                    /\ pc'[p] = "idle" => served'[p] = {}
  BY <1>1, <1>2 DEF TypeOK
<1>6. TableKeepsUp'
  <2>1. ASSUME NEW p \in Requests, pc'[p] \in {"store", "create", "lock", "upstream"}
        PROVE  ctx'[p].generation <= generation'
    <3>1. CASE p = q
      BY <1>5, <2>1, <3>1
    <3>2. CASE p # q
      <4>1. ctx[p] \in Keys /\ ctx[p].generation <= generation
        BY <1>5, <2>1, <3>2 DEF IInv, TableKeepsUp, RequestGenerations
      <4> QED BY <1>3, <1>5, <3>2, <4>1 DEF Keys
    <3> QED BY <3>1, <3>2
  <2> QED BY <1>3, <2>1 DEF TableKeepsUp
<1>7. RequestGenerations'
  BY <1>5 DEF IInv, RequestGenerations
<1>8. OwnOrigins'
  BY DEF IInv, OwnOrigins
<1>9. LiveKeysCurrent'
  BY DEF IInv, LiveKeysCurrent, KeysOf
<1>10. HoldersCurrent'
  <2>1. ASSUME NEW p \in Requests, pc'[p] = "lock"
        PROVE  /\ ref'[p] # 0
               /\ \A r \in Routes : locations'[r] = ref'[p] => ctx'[p].generation = generation'
    <3>1. p # q /\ pc[p] = "lock" /\ ref'[p] = ref[p] /\ ctx'[p] = ctx[p] /\ ref[p] # 0
      BY <1>5, <2>1 DEF IInv, HoldersCurrent
    <3> QED BY <3>1 DEF IInv, HoldersCurrent
  <2> QED BY <2>1 DEF HoldersCurrent
<1>11. ServedFromOwnSnapshot'
  BY <1>5 DEF IInv, ServedFromOwnSnapshot
<1> QED BY <1>4, <1>6, <1>7, <1>8, <1>9, <1>10, <1>11 DEF IInv

-----------------------------------------------------------------------------
(* The steps *)

\* Reloads, the clock and the arrival of a request.
LEMMA BeginIInv ==
  ASSUME IInv, \/ Apply \/ Tick \/ UNCHANGED vars \/ \E q \in Requests : Begin(q)
  PROVE  IInv'
<1> USE BoundsAssumption
<1>1. CASE UNCHANGED vars \/ Tick
  <2>1. UNCHANGED <<stores, requests, active>> /\ (UNCHANGED now \/ Tick)
    BY <1>1 DEF vars, Tick
  <2>2. TypeOK'
    BY <1>1 DEF vars, Tick, stores, requests, IInv, TypeOK
  <2>3. TableKeepsUp' /\ RequestGenerations' /\ HoldersCurrent'
    BY <2>1 DEF stores, requests, IInv, TableKeepsUp, RequestGenerations, HoldersCurrent
  <2>4. OwnOrigins' /\ LiveKeysCurrent' /\ ServedFromOwnSnapshot'
    BY <2>1 DEF stores, requests, IInv, OwnOrigins, LiveKeysCurrent, KeysOf,
                ServedFromOwnSnapshot
  <2> QED
    BY <2>2, <2>3, <2>4 DEF IInv
<1>2. CASE Apply
  <2>1. /\ active' = active + 1 /\ active < MaxGeneration
        /\ UNCHANGED <<stores, requests>>
    BY <1>2 DEF Apply
  <2>2. TypeOK'
    BY <2>1 DEF stores, requests, IInv, TypeOK
  <2>3. TableKeepsUp' /\ RequestGenerations'
    BY <2>1 DEF stores, requests, IInv, TypeOK, TableKeepsUp, RequestGenerations, Keys
  <2>4. HoldersCurrent' /\ ServedFromOwnSnapshot'
    BY <2>1 DEF stores, requests, IInv, HoldersCurrent, ServedFromOwnSnapshot
  <2> QED BY <2>1, <2>2, <2>3, <2>4, HeapUnchanged DEF IInv
<1>3. ASSUME NEW q \in Requests, Begin(q) PROVE IInv'
  <2>1. PICK r \in Routes, u \in Uris :
          ctx' = [ctx EXCEPT ![q] = [generation |-> active, route |-> r, uri |-> u]]
    BY <1>3 DEF Begin
  <2>2. /\ pc[q] = "idle" /\ UNCHANGED <<active, stores, target, ref, served>>
        /\ pc' = [pc EXCEPT ![q] = "advance"] /\ op' = [op EXCEPT ![q] = "get"]
    BY <1>3 DEF Begin, Goto
  <2> DEFINE c == [generation |-> active, route |-> r, uri |-> u]
  <2>3. c \in Keys /\ c.generation = active
    BY DEF Keys, IInv, TypeOK
  <2> HIDE DEF c
  <2>4. ctx' = [ctx EXCEPT ![q] = c]
    BY <2>1 DEF c
  <2>5. TypeOK'
    BY <2>2, <2>3, <2>4 DEF IInv, TypeOK, stores, Steps, Calls
  <2>6. TableKeepsUp'
    BY <2>2, <2>4 DEF IInv, TypeOK, stores, TableKeepsUp
  <2>7. RequestGenerations'
    BY <2>2, <2>3, <2>4 DEF IInv, TypeOK, RequestGenerations
  <2>8. HoldersCurrent'
    BY <2>2, <2>4 DEF IInv, TypeOK, stores, HoldersCurrent
  <2>9. ServedFromOwnSnapshot'
    BY <2>2, <2>4 DEF IInv, TypeOK, RequestGenerations, ServedFromOwnSnapshot
  <2> QED BY <2>2, <2>5, <2>6, <2>7, <2>8, <2>9, HeapUnchanged DEF IInv
<1> QED BY <1>1, <1>2, <1>3

\* Steps after which q is not at a location and the table is as before.
LEMMA PlainMovesIInv ==
  ASSUME IInv, NEW q \in Requests,
         \/ Bypass(q) \/ UpstreamAnswers(q) \/ UpstreamFails(q) \/ ExchangeAborts(q)
  PROVE  IInv'
<1>1. \E call \in Calls :
        /\ pc' = [pc EXCEPT ![q] = "advance"] /\ op' = [op EXCEPT ![q] = call]
  BY DEF Bypass, UpstreamAnswers, UpstreamFails, ExchangeAborts, Goto, Calls
<1>2. pc[q] # "idle" /\ UNCHANGED <<active, stores, ctx, target, ref, served>>
  BY DEF Bypass, At, UpstreamAnswers, UpstreamFails, ExchangeAborts
<1>3. Moves(q) /\ pc'[q] = "advance"
  <2>1. "advance" \in Steps \ {"advance_write", "create", "lock"}
    BY DEF Steps
  <2>2. pc'[q] = "advance"
    BY <1>1 DEF IInv, TypeOK
  <2> QED BY <1>1, <1>2, <2>1, <2>2 DEF Moves
<1>4. target' \in [Requests -> 0 .. MaxGeneration]
  BY <1>2 DEF IInv, TypeOK
<1> QED BY <1>2, <1>3, <1>4, MovesIInv DEF stores

\* advance_generation, under the read lock and under the write lock.
LEMMA AdvanceIInv ==
  ASSUME IInv, NEW q \in Requests, AdvanceCheck(q) \/ AdvanceWrite(q)
  PROVE  IInv'
<1> USE BoundsAssumption
<1>0. TypeOK
  BY DEF IInv
<1>1. CASE AdvanceCheck(q) /\ active <= generation
  <2>1. /\ AfterAdvance(q) /\ pc[q] = "advance"
        /\ UNCHANGED <<active, stores, target>>
    BY <1>0, <1>1 DEF AdvanceCheck, TypeOK
  <2>2. ctx[q].generation <= generation
    BY <1>0, <1>1, <2>1 DEF IInv, RequestGenerations, TypeOK, Keys
  <2>3. target' \in [Requests -> 0 .. MaxGeneration]
    BY <1>0, <2>1 DEF TypeOK
  <2> QED BY <1>0, <2>1, <2>2, <2>3, AfterAdvanceMoves, MovesIInv DEF stores
<1>2. CASE AdvanceCheck(q) /\ ~(active <= generation)
  <2>1. /\ pc[q] = "advance" /\ UNCHANGED <<active, stores, ctx, ref, served>>
        /\ target' = [target EXCEPT ![q] = active]
        /\ pc' = [pc EXCEPT ![q] = "advance_write"] /\ op' = [op EXCEPT ![q] = op[q]]
    BY <1>2 DEF AdvanceCheck, Goto
  <2>2. TypeOK'
    BY <1>0, <2>1 DEF TypeOK, stores, Steps
  <2>3. TableKeepsUp' /\ HoldersCurrent'
    BY <1>0, <2>1 DEF IInv, TypeOK, stores, TableKeepsUp, HoldersCurrent
  <2>4. RequestGenerations' /\ ServedFromOwnSnapshot'
    BY <1>0, <2>1 DEF IInv, TypeOK, RequestGenerations, ServedFromOwnSnapshot
  <2> QED BY <2>1, <2>2, <2>3, <2>4, HeapUnchanged DEF IInv
<1>3. CASE AdvanceWrite(q)
  <2>1. /\ AfterAdvance(q) /\ pc[q] = "advance_write"
        /\ UNCHANGED <<active, heap, allocated>>
        /\ target' = [target EXCEPT ![q] = 0]
    BY <1>3 DEF AdvanceWrite
  <2>2. /\ target' \in [Requests -> 0 .. MaxGeneration]
        /\ \A p \in Requests \ {q} : target'[p] = target[p]
    BY <1>0, <2>1 DEF TypeOK
  <2>3. /\ ctx[q] \in Keys /\ ctx[q].generation <= target[q] /\ target[q] <= active
        /\ target[q] \in Nat /\ generation \in Nat /\ active \in Nat
        /\ ctx[q].generation \in Nat
    BY <1>0, <2>1 DEF IInv, RequestGenerations, TypeOK, Keys
  <2>4. /\ \/ UNCHANGED <<generation, locations>>
           \/ /\ locations' = [r \in Routes |-> 0]
              /\ generation' \in generation .. active
        /\ ctx[q].generation <= generation'
    BY <1>3, <2>3 DEF AdvanceWrite
  <2> QED BY <1>0, <2>1, <2>2, <2>4, AfterAdvanceMoves, MovesIInv
<1> QED BY <1>1, <1>2, <1>3

\* store() hands out a location: it is in the table and q is not retired.
LEMMA WithStoreIInv ==
  ASSUME IInv, NEW q \in Requests, NEW loc \in 1 .. allocated', WithStore(q, loc),
         pc[q] \in {"store", "create"}, ~Retired(q),
         UNCHANGED <<active, generation, target>>, TypeOK',
         OwnOrigins', LiveKeysCurrent',
         \A p \in Requests, r \in Routes :
           pc[p] = "lock" /\ locations'[r] = ref[p] => locations[r] = ref[p]
  PROVE  IInv'
<1>1. /\ ref' = [ref EXCEPT ![q] = loc] /\ pc' = [pc EXCEPT ![q] = "lock"]
      /\ UNCHANGED <<ctx, served>>
  BY DEF WithStore, Goto
<1>2. ctx[q].generation = generation
  <2>1. ctx[q] \in Keys /\ ctx[q].generation <= generation
    BY DEF IInv, TableKeepsUp, RequestGenerations
  <2>2. ctx[q].generation \in Nat /\ generation \in Nat
    BY <2>1 DEF IInv, TypeOK, Keys
  <2>3. ~(ctx[q].generation < generation)
    BY DEF Retired, BuildCacheKey
  <2> QED BY <2>1, <2>2, <2>3
<1>3. TableKeepsUp' /\ RequestGenerations'
  BY <1>1 DEF IInv, TypeOK, TableKeepsUp, RequestGenerations
<1>4. HoldersCurrent'
  BY <1>1, <1>2 DEF IInv, TypeOK, HoldersCurrent
<1>5. ServedFromOwnSnapshot'
  BY <1>1 DEF IInv, ServedFromOwnSnapshot
<1> QED BY <1>3, <1>4, <1>5 DEF IInv

\* The lookup of a location, under the read lock and under the write lock.
LEMMA StoreIInv ==
  ASSUME IInv, NEW q \in Requests, StoreRead(q) \/ StoreCreate(q)
  PROVE  IInv'
<1> USE BoundsAssumption
<1>0. /\ TypeOK /\ pc[q] \in {"store", "create"}
      /\ UNCHANGED <<active, generation, target>>
  BY DEF IInv, StoreRead, StoreCreate, stores
<1>1. ctx[q] \in Keys /\ ctx[q].generation <= generation /\ ctx[q].route \in Routes
  BY <1>0 DEF IInv, TableKeepsUp, RequestGenerations, Keys
<1>2. CASE NoStore(q) /\ UNCHANGED stores
  <2>1. target' \in [Requests -> 0 .. MaxGeneration]
    BY <1>0 DEF TypeOK
  <2> QED BY <1>0, <1>1, <1>2, <2>1, NoStoreMoves, MovesIInv DEF stores
<1>3. ASSUME NEW loc, loc = locations[ctx[q].route], loc # 0, ~Retired(q),
             WithStore(q, loc), UNCHANGED stores
      PROVE  IInv'
  <2>1. loc \in 1 .. allocated'
    BY <1>0, <1>1, <1>3 DEF TypeOK, stores
  <2>2. TypeOK'
    BY <1>0, <1>3, <2>1 DEF WithStore, Goto, TypeOK, stores, Steps
  <2> QED BY <1>0, <1>3, <2>1, <2>2, HeapUnchanged, WithStoreIInv DEF stores
<1>4. CASE /\ StoreRead(q) /\ Goto(q, "create", op[q])
           /\ UNCHANGED <<stores, ctx, ref, served>>
  <2>1. pc' = [pc EXCEPT ![q] = "create"] /\ op' = [op EXCEPT ![q] = op[q]]
    BY <1>4 DEF Goto
  <2>2. TypeOK'
    BY <1>0, <1>4, <2>1 DEF TypeOK, stores, Steps
  <2>3. TableKeepsUp' /\ RequestGenerations'
    BY <1>0, <1>1, <1>4, <2>1 DEF IInv, TypeOK, stores, TableKeepsUp, RequestGenerations
  <2>4. HoldersCurrent' /\ ServedFromOwnSnapshot'
    BY <1>0, <1>4, <2>1 DEF IInv, TypeOK, stores, HoldersCurrent, ServedFromOwnSnapshot
  <2> QED BY <1>4, <2>2, <2>3, <2>4, HeapUnchanged DEF IInv
<1>5. ASSUME StoreCreate(q), ~Retired(q), locations[ctx[q].route] = 0,
             allocated < MaxCaches, allocated' = allocated + 1,
             heap' = [heap EXCEPT ![allocated'] = NewLocationCache],
             locations' = [locations EXCEPT ![ctx[q].route] = allocated'],
             WithStore(q, allocated')
      PROVE  IInv'
  <2>1. allocated' \in 1 .. MaxCaches /\ allocated \in Nat
    BY <1>0, <1>5 DEF TypeOK
  <2>2. NewLocationCache.entries = {} /\ NewLocationCache.counts = {}
        /\ DOMAIN NewLocationCache = {"entries", "counts", "current_size", "last_sweep"}
    BY DEF NewLocationCache
  <2>3. TypeOK'
    <3>1. /\ heap' = [i \in 1 .. MaxCaches |-> heap'[i]]
          /\ \A i \in 1 .. MaxCaches :
               DOMAIN heap'[i] = {"entries", "counts", "current_size", "last_sweep"}
      BY <1>0, <1>5, <2>1, <2>2 DEF TypeOK
    <3>2. locations' \in [Routes -> 0 .. allocated']
      BY <1>0, <1>1, <1>5, <2>1 DEF TypeOK
    <3>3. ref' \in [Requests -> 0 .. allocated']
      BY <1>0, <1>5, <2>1 DEF TypeOK, WithStore
    <3>4. UNCHANGED <<ctx, served>> /\ pc' \in [Requests -> Steps] /\ op' \in [Requests -> Calls]
      BY <1>0, <1>5 DEF TypeOK, WithStore, Goto, Steps
    <3> QED BY <1>0, <2>1, <3>1, <3>2, <3>3, <3>4 DEF TypeOK
  <2>4. OwnOrigins'
    BY <1>0, <1>5, <2>1, <2>2 DEF IInv, TypeOK, OwnOrigins
  <2>5. LiveKeysCurrent'
    <3>1. ASSUME NEW r \in Routes, locations'[r] # 0
          PROVE  \A k \in KeysOf(heap'[locations'[r]]) : k.generation = generation'
      <4>1. CASE r = ctx[q].route
        <5>1. heap'[locations'[r]] = NewLocationCache
          BY <1>0, <1>1, <1>5, <2>1, <4>1 DEF TypeOK
        <5> QED BY <2>2, <5>1 DEF KeysOf
      <4>2. CASE r # ctx[q].route
        <5>1. /\ locations'[r] = locations[r] /\ locations[r] # 0
              /\ heap'[locations'[r]] = heap[locations[r]]
          BY <1>0, <1>1, <1>5, <2>1, <3>1, <4>2 DEF TypeOK
        <5> QED BY <1>0, <5>1 DEF IInv, LiveKeysCurrent
      <4> QED BY <4>1, <4>2
    <3> QED BY <3>1 DEF LiveKeysCurrent, KeysOf
  <2>6. \A p \in Requests, r \in Routes :
          pc[p] = "lock" /\ locations'[r] = ref[p] => locations[r] = ref[p]
    BY <1>0, <1>1, <1>5, <2>1 DEF TypeOK
  <2> QED BY <1>0, <1>5, <2>1, <2>3, <2>4, <2>5, <2>6, WithStoreIInv
<1>6. CASE StoreRead(q)
  BY <1>2, <1>3, <1>4, <1>6 DEF StoreRead
<1>7. CASE StoreCreate(q)
  <2>1. CASE NoStore(q) /\ UNCHANGED <<locations, heap, allocated>>
    BY <1>0, <1>2, <2>1 DEF stores
  <2>2. CASE /\ ~Retired(q) /\ locations[ctx[q].route] # 0
             /\ WithStore(q, locations[ctx[q].route])
             /\ UNCHANGED <<locations, heap, allocated>>
    BY <1>0, <1>3, <2>2 DEF stores
  <2> QED BY <1>5, <1>7, <2>1, <2>2 DEF StoreCreate
<1> QED BY <1>6, <1>7

\* get and get_stale: what they serve was stored under the request's own key.
LEMMA ServeIInv ==
  ASSUME IInv, NEW q \in Requests, GetLocked(q) \/ StaleLocked(q)
  PROVE  IInv'
<1> USE BoundsAssumption
<1>0. /\ TypeOK /\ pc[q] = "lock"
      /\ UNCHANGED <<active, stores, ctx, target>> /\ ref' = [ref EXCEPT ![q] = 0]
  BY DEF IInv, GetLocked, StaleLocked, At
<1>1. /\ ctx[q] \in Keys /\ ref[q] \in 1 .. MaxCaches
      /\ ctx[q].generation <= generation
  BY <1>0 DEF IInv, TypeOK, RequestGenerations, HoldersCurrent, TableKeepsUp
<1>2. BuildCacheKey(ctx[q]) = ctx[q]
  BY <1>1 DEF BuildCacheKey, Keys
<1>3. \A e \in EntryOf(heap[ref[q]], BuildCacheKey(ctx[q])) : e.origin = ctx[q]
  BY <1>1, <1>2 DEF EntryOf, IInv, OwnOrigins
<1>4. UNCHANGED served \/ served' = [served EXCEPT ![q] = {ctx[q]}]
  <2>1. \/ UNCHANGED served
        \/ \E e \in EntryOf(heap[ref[q]], BuildCacheKey(ctx[q])) : Serve(q, e)
    BY DEF GetLocked, StaleLocked
  <2> QED BY <1>3, <2>1 DEF Serve
<1>5. \E step \in {"store", "advance"}, call \in {"miss", "end"} :
        pc' = [pc EXCEPT ![q] = step] /\ op' = [op EXCEPT ![q] = call]
  BY DEF GetLocked, StaleLocked, Goto
<1>6. TypeOK'
  <2>1. pc' \in [Requests -> Steps] /\ op' \in [Requests -> Calls]
    BY <1>0, <1>5 DEF TypeOK, Steps, Calls
  <2>2. ref' \in [Requests -> 0 .. allocated]
    BY <1>0 DEF TypeOK
  <2>3. {ctx[q]} \in SUBSET Keys /\ served \in [Requests -> SUBSET Keys]
    BY <1>0, <1>1 DEF TypeOK
  <2>4. served' \in [Requests -> SUBSET Keys]
    BY <1>4, <2>3
  <2> QED BY <1>0, <2>1, <2>2, <2>4 DEF TypeOK, stores
<1>7. /\ \A p \in Requests \ {q} : pc'[p] = pc[p] /\ ref'[p] = ref[p]
      /\ pc'[q] \in {"store", "advance"}
  BY <1>0, <1>5 DEF TypeOK
<1>8. TableKeepsUp' /\ RequestGenerations'
  BY <1>0, <1>1, <1>4, <1>7 DEF IInv, TypeOK, stores, TableKeepsUp, RequestGenerations
<1>9. HoldersCurrent'
  BY <1>0, <1>7 DEF IInv, stores, HoldersCurrent
<1>10. ServedFromOwnSnapshot'
  <2>1. \A p \in Requests : served[p] \subseteq {ctx[p]}
    BY DEF IInv, ServedFromOwnSnapshot
  <2>2. served \in [Requests -> SUBSET Keys] /\ ctx' = ctx
    BY <1>0 DEF TypeOK
  <2>3. \A p \in Requests : served'[p] \subseteq {ctx[p]}
    BY <1>4, <2>1, <2>2
  <2> QED BY <2>2, <2>3 DEF ServedFromOwnSnapshot
<1> QED BY <1>0, <1>6, <1>8, <1>9, <1>10, HeapUnchanged DEF IInv

\* A call that leaves in its location only what was there and what carries the
\* request's own key keeps what is said of the heap.
LEMMA HeapAdds ==
  ASSUME IInv, NEW q \in Requests, pc[q] = "lock", NEW c, Shape(c),
         heap' = [heap EXCEPT ![ref[q]] = c], UNCHANGED <<generation, locations>>,
         \A e \in c.entries :
           \/ e \in heap[ref[q]].entries
           \/ e.key = BuildCacheKey(ctx[q]) /\ e.origin = ctx[q],
         \A n \in c.counts : n \in heap[ref[q]].counts \/ n.key = BuildCacheKey(ctx[q])
  PROVE  /\ OwnOrigins' /\ LiveKeysCurrent'
         /\ heap' = [i \in 1 .. MaxCaches |-> heap'[i]]
         /\ \A i \in 1 .. MaxCaches :
              DOMAIN heap'[i] = {"entries", "counts", "current_size", "last_sweep"}
<1> USE BoundsAssumption
<1>1. TypeOK /\ ctx[q] \in Keys /\ ref[q] \in 1 .. MaxCaches
  BY DEF IInv, TypeOK, RequestGenerations, HoldersCurrent
<1>2. BuildCacheKey(ctx[q]) = ctx[q]
  BY <1>1 DEF BuildCacheKey, Keys
<1>3. \A i \in 1 .. MaxCaches : heap'[i] = IF i = ref[q] THEN c ELSE heap[i]
  BY <1>1 DEF TypeOK
<1>4. heap' = [i \in 1 .. MaxCaches |-> heap'[i]]
  BY <1>1 DEF TypeOK
<1>5. \A i \in 1 .. MaxCaches :
        DOMAIN heap'[i] = {"entries", "counts", "current_size", "last_sweep"}
  BY <1>1, <1>3 DEF TypeOK, Shape
<1>6. OwnOrigins'
  <2>1. ASSUME NEW i \in 1 .. MaxCaches, NEW e \in heap'[i].entries PROVE e.origin = e.key
    BY <1>1, <1>2, <1>3 DEF IInv, OwnOrigins
  <2> QED BY <2>1 DEF OwnOrigins
<1>7. LiveKeysCurrent'
  <2>1. ASSUME NEW r \in Routes, locations[r] # 0, NEW k \in KeysOf(heap'[locations[r]])
        PROVE  k.generation = generation
    <3>1. locations[r] \in 1 .. MaxCaches
      BY <1>1, <2>1 DEF TypeOK
    <3>2. CASE k \in KeysOf(heap[locations[r]])
      BY <2>1, <3>2 DEF IInv, LiveKeysCurrent
    <3>3. CASE k \notin KeysOf(heap[locations[r]])
      <4>1. locations[r] = ref[q] /\ k \in KeysOf(c) /\ k \notin KeysOf(heap[ref[q]])
        BY <1>3, <2>1, <3>1, <3>3
      <4>2. k = ctx[q]
        BY <1>2, <4>1 DEF KeysOf
      <4> QED BY <4>1, <4>2 DEF IInv, HoldersCurrent
    <3> QED BY <3>2, <3>3
  <2> QED BY <2>1 DEF LiveKeysCurrent, KeysOf
<1> QED BY <1>4, <1>5, <1>6, <1>7

\* record_miss and put under the lock of a location.
LEMMA LockedIInv ==
  ASSUME IInv, NEW q \in Requests, MissLocked(q) \/ PutLocked(q)
  PROVE  IInv'
<1> USE BoundsAssumption
<1>0. /\ TypeOK /\ pc[q] = "lock"
      /\ UNCHANGED <<active, generation, locations, allocated, target>>
  BY DEF IInv, MissLocked, PutLocked, At
<1>1. /\ ref[q] \in 1 .. MaxCaches /\ Shape(heap[ref[q]])
      /\ ctx[q] \in Keys /\ ctx[q].generation <= generation
  BY <1>0 DEF IInv, TypeOK, HoldersCurrent, Shape, RequestGenerations, TableKeepsUp
<1>2. /\ OwnOrigins' /\ LiveKeysCurrent'
      /\ heap' = [i \in 1 .. MaxCaches |-> heap'[i]]
      /\ \A i \in 1 .. MaxCaches :
           DOMAIN heap'[i] = {"entries", "counts", "current_size", "last_sweep"}
  <2>1. CASE MissLocked(q)
    <3>1. PICK c \in SyncLimits(heap[ref[q]]) :
            \E res \in RecordMiss(c, BuildCacheKey(ctx[q])) :
              heap' = [heap EXCEPT ![ref[q]] = res[1]]
      BY <2>1 DEF MissLocked
    <3>2. PICK res \in RecordMiss(c, BuildCacheKey(ctx[q])) :
            heap' = [heap EXCEPT ![ref[q]] = res[1]]
      BY <3>1
    <3>3. Shrunk(c, heap[ref[q]])
      BY <1>1, SyncLimitsShrinks
    <3>4. /\ Shape(res[1])
          /\ res[1].entries \subseteq c.entries
          /\ \A n \in res[1].counts : n \in c.counts \/ n.key = BuildCacheKey(ctx[q])
      BY <3>3, RecordMissAdds DEF Shrunk
    <3> QED BY <1>0, <3>2, <3>3, <3>4, HeapAdds DEF Shrunk
  <2>2. CASE PutLocked(q)
    <3>1. PICK c \in SyncLimits(heap[ref[q]]) :
            \E c2 \in Put(c, BuildCacheKey(ctx[q]), buffered[q], stamp[q], ctx[q]) :
              heap' = [heap EXCEPT ![ref[q]] = c2]
      BY <2>2 DEF PutLocked
    <3>2. PICK c2 \in Put(c, BuildCacheKey(ctx[q]), buffered[q], stamp[q], ctx[q]) :
            heap' = [heap EXCEPT ![ref[q]] = c2]
      BY <3>1
    <3>3. Shrunk(c, heap[ref[q]])
      BY <1>1, SyncLimitsShrinks
    <3>4. /\ Shape(c2)
          /\ c2.counts \subseteq c.counts
          /\ \A e \in c2.entries :
               e \in c.entries \/ (e.key = BuildCacheKey(ctx[q]) /\ e.origin = ctx[q])
      BY <3>3, PutAdds DEF Shrunk
    <3> QED BY <1>0, <3>2, <3>3, <3>4, HeapAdds DEF Shrunk
  <2> QED BY <2>1, <2>2
<1>3. \/ /\ MissLocked(q)
         /\ pc' = [pc EXCEPT ![q] = "upstream"] /\ op' = [op EXCEPT ![q] = "none"]
         /\ ref' = [ref EXCEPT ![q] = 0] /\ UNCHANGED <<ctx, served>>
      \/ /\ PutLocked(q)
         /\ pc' = [pc EXCEPT ![q] = "idle"] /\ op' = [op EXCEPT ![q] = "none"]
         /\ ref' = [ref EXCEPT ![q] = 0] /\ ctx' = [ctx EXCEPT ![q] = None]
         /\ served' = [served EXCEPT ![q] = {}]
  BY DEF MissLocked, PutLocked, Goto, Finish
<1>4. TypeOK'
  <2>0. /\ pc' \in [Requests -> Steps]
        /\ op' \in [Requests -> Calls]
    <3>1. "upstream" \in Steps /\ "idle" \in Steps /\ "none" \in Calls
      BY DEF Steps, Calls
    <3>2. /\ \E step \in Steps : pc' = [pc EXCEPT ![q] = step]
          /\ op' = [op EXCEPT ![q] = "none"]
      BY <1>3, <3>1, Zenon
    <3> QED BY <1>0, <3>1, <3>2 DEF TypeOK
  <2>1. ref' \in [Requests -> 0 .. allocated]
    <3>1. ref' = [ref EXCEPT ![q] = 0]
      BY <1>3, Zenon
    <3> QED BY <1>0, <3>1 DEF TypeOK
  <2>2. ctx' \in [Requests -> Keys \cup {None}]
    BY <1>0, <1>3 DEF TypeOK
  <2>3. served' \in [Requests -> SUBSET Keys]
    BY <1>0, <1>3 DEF TypeOK
  <2> QED BY <1>0, <1>2, <2>0, <2>1, <2>2, <2>3 DEF TypeOK
<1>5. /\ \A p \in Requests \ {q} :
           /\ pc'[p] = pc[p] /\ ref'[p] = ref[p] /\ ctx'[p] = ctx[p]
           /\ served'[p] = served[p]
      /\ \/ pc'[q] = "upstream" /\ ctx'[q] = ctx[q] /\ served'[q] = served[q]
         \/ pc'[q] = "idle" /\ served'[q] = {}
  BY <1>0, <1>3 DEF TypeOK
<1>6. TableKeepsUp' /\ RequestGenerations'
  BY <1>0, <1>1, <1>5 DEF IInv, TypeOK, TableKeepsUp, RequestGenerations
<1>7. HoldersCurrent'
  BY <1>0, <1>5 DEF IInv, HoldersCurrent
<1>8. ServedFromOwnSnapshot'
  BY <1>5 DEF IInv, ServedFromOwnSnapshot
<1> QED BY <1>2, <1>4, <1>6, <1>7, <1>8 DEF IInv

\* Every step preserves the inductive invariant.
LEMMA NextIInv == IInv /\ [Next]_vars => IInv'
BY BeginIInv, PlainMovesIInv, AdvanceIInv, StoreIInv, ServeIInv, LockedIInv DEF Next

\* The inductive invariant of the response cache.
THEOREM Invariance == Spec => []IInv
BY InitIInv, NextIInv, PTL DEF Spec

\* "Old in-flight requests cannot repopulate retired generations", for any number
\* of requests, routes and reloads.
THEOREM NoRepopulation == Spec => []LiveKeysCurrent
<1>1. IInv => LiveKeysCurrent
  BY DEF IInv
<1> QED BY <1>1, Invariance, PTL

\* A cached answer comes from the snapshot the request runs under, for any number
\* of requests, routes and reloads.
THEOREM OwnSnapshot == Spec => []ServedFromOwnSnapshot
<1>1. IInv => ServedFromOwnSnapshot
  BY DEF IInv
<1> QED BY <1>1, Invariance, PTL

\* Nothing crosses a reload, for any number of requests, routes, URIs and reloads.
THEOREM Isolation == Spec => []ReloadIsolates
<1> QED BY NoRepopulation, OwnSnapshot, PTL DEF ReloadIsolates

\* A request past advance_generation never overtakes the table, and the table never
\* overtakes the active snapshot.
THEOREM TableFollows == Spec => []TableKeepsUp
<1>1. IInv => TableKeepsUp
  BY DEF IInv
<1> QED BY <1>1, Invariance, PTL

\* advance_generation only ever raises the table's generation.
LEMMA GenerationGrows ==
  ASSUME IInv, Next PROVE generation \in Nat /\ generation' \in Nat /\ generation' >= generation
<1>1. generation \in Nat
  BY DEF IInv, TypeOK
<1>2. ASSUME NEW q \in Requests, AdvanceWrite(q)
      PROVE  generation' \in Nat /\ generation' >= generation
  <2>1. target[q] \in Nat
    BY DEF IInv, TypeOK
  <2> QED BY <1>1, <1>2, <2>1 DEF AdvanceWrite
<1>3. CASE UNCHANGED generation
  BY <1>1, <1>3
<1> QED BY <1>1, <1>2, <1>3 DEF Next, Apply, Tick, Begin, Bypass, AdvanceCheck, StoreRead,
             StoreCreate, GetLocked, MissLocked, StaleLocked, PutLocked,
             UpstreamAnswers, UpstreamFails, ExchangeAborts, stores

\* A slow advance_generation with an old argument never takes the table back.
THEOREM NoRegress == Spec => GenerationNeverRegresses
<1>1. IInv /\ [Next]_vars => [generation' >= generation]_vars
  BY GenerationGrows DEF vars
<1> QED BY <1>1, Invariance, PTL DEF Spec, GenerationNeverRegresses

-----------------------------------------------------------------------------
(* Admission by proxy_cache_min_uses.  A counter never claims more than the  *)
(* misses that were recorded, so permission given by record_miss stands for  *)
(* them.  With min_uses = 1 nothing is counted and permission is not asked:   *)
(* there a request reaches the upstream either after recording its miss or   *)
(* without a location, because its generation is retired; and a retired      *)
(* generation gets no location for its put either.                           *)

Missed(q) == misses[ctx[q]] >= MinUses

\* No counter, in the table or retired, runs ahead of the recorded misses.
CountsBacked ==
  \A i \in 1 .. MaxCaches : \A c \in heap[i].counts :
    c.key \in Keys /\ c.count \in Nat /\ c.count <= misses[c.key]

\* Every response, in the table or retired, was missed often enough.
EntriesBacked ==
  \A i \in 1 .. MaxCaches : \A e \in heap[i].entries :
    e.key \in Keys /\ misses[e.key] >= MinUses

\* A request that may store has missed often enough or will find no location.
MayStore(q) ==
  /\ allowed[q] => pc[q] # "idle" /\ Missed(q)
  /\ pc[q] = "upstream" /\ MinUses <= 1 => Missed(q) \/ Retired(q)
  /\ pc[q] # "idle" /\ op[q] = "put" => Missed(q) \/ Retired(q)
  /\ At(q, "lock", "put") => Missed(q)

AdmissionInv ==
  /\ misses \in [Keys -> Nat] /\ allowed \in [Requests -> BOOLEAN]
  /\ CountsBacked /\ EntriesBacked
  /\ \A q \in Requests : MayStore(q)

\* record_miss: the counter it leaves is covered by the misses recorded so far, m,
\* and this one; it allows a store only when they reach min_uses.
LEMMA RecordMissCounts ==
  ASSUME NEW cache, Shape(cache), NEW key, NEW res \in RecordMiss(cache, key),
         NEW m \in Nat,
         \A c \in CountOf(cache, key) : c.count \in Nat /\ c.count <= m,
         NEW m2 \in Nat, m2 = IF m < MinUses THEN m + 1 ELSE m
  PROVE  /\ \A n \in res[1].counts :
              n \in cache.counts \/ (n.key = key /\ n.count \in Nat /\ n.count <= m2)
         /\ res[2] \in BOOLEAN /\ (res[2] => m2 >= MinUses)
<1> USE TimesAssumption
<1> DEFINE Covered ==
             /\ \A n \in res[1].counts :
                  n \in cache.counts \/ (n.key = key /\ n.count \in Nat /\ n.count <= m2)
             /\ res[2] \in BOOLEAN /\ (res[2] => m2 >= MinUses)
<1>1. CASE MinUses <= 1 /\ res[1] = cache /\ res[2] = TRUE
  <2>1. m2 >= MinUses
    BY <1>1
  <2> QED BY <1>1, <2>1
<1>2. CASE res[1] = cache /\ res[2] = FALSE
  BY <1>2
<1>3. ASSUME ~(MinUses <= 1), NEW old \in CountOf(cache, key), NEW new,
             new.key = key, new.count = NextCount(old),
             res[1].counts = (cache.counts \ {old}) \cup {new},
             res[2] = (NextCount(old) >= MinUses)
      PROVE  Covered
  <2>1. NextCount(old) \in Nat /\ NextCount(old) <= m2
    <3>1. old.count \in Nat /\ old.count <= m
      OBVIOUS
    <3> QED BY <1>3, <3>1 DEF NextCount
  <2> DEFINE may == NextCount(old) >= MinUses
  <2>2. may \in BOOLEAN /\ (may => m2 >= MinUses) /\ res[2] = may
    BY <1>3, <2>1
  <2> HIDE DEF may
  <2>3. res[2] \in BOOLEAN /\ (res[2] => m2 >= MinUses)
    BY <2>2, Zenon
  <2> QED BY <1>3, <2>1, <2>3
<1>4. ASSUME ~(MinUses <= 1), NEW new, NEW c \in MakeRoom(cache, CountCost(new)),
             new.key = key, new.count = 1, res[1].counts = c.counts \cup {new},
             res[2] = FALSE
      PROVE  Covered
  <2>1. Shrunk(c, cache)
    BY MakeRoomShrinks
  <2>2. 1 \in Nat /\ 1 <= m2
    BY <1>4
  <2> QED BY <1>4, <2>1, <2>2 DEF Shrunk
<1> HIDE DEF Covered
<1>5. \/ MinUses <= 1 /\ res[1] = cache /\ res[2] = TRUE
      \/ res[1] = cache /\ res[2] = FALSE
      \/ /\ ~(MinUses <= 1)
         /\ \E old \in CountOf(cache, key) : \E new :
              /\ new.key = key /\ new.count = NextCount(old)
              /\ res[1].counts = (cache.counts \ {old}) \cup {new}
              /\ res[2] = (NextCount(old) >= MinUses)
      \/ /\ ~(MinUses <= 1) /\ res[2] = FALSE
         /\ \E new : \E c \in MakeRoom(cache, CountCost(new)) :
              /\ new.key = key /\ new.count = 1
              /\ res[1].counts = c.counts \cup {new}
  <2>1. MissForms(cache, key, res)
    BY RecordMissForms
  <2> QED BY <2>1, Zenon DEF MissForms
<1>6. Covered
  BY <1>1, <1>2, <1>3, <1>4, <1>5, Zenon DEF Covered
<1> QED BY <1>6 DEF Covered

\* The initial state: nothing is stored, counted or allowed.
LEMMA InitAdmission == Init => AdmissionInv
<1> SUFFICES ASSUME Init PROVE AdmissionInv
  OBVIOUS
<1>1. misses \in [Keys -> Nat] /\ allowed \in [Requests -> BOOLEAN]
  BY DEF Init
<1>2. CountsBacked /\ EntriesBacked
  BY DEF Init, CountsBacked, EntriesBacked, NewLocationCache
<1>3. \A q \in Requests : MayStore(q)
  BY DEF Init, MayStore, At
<1> QED BY <1>1, <1>2, <1>3 DEF AdmissionInv

\* Misses are only ever added and generations only ever raised, so a request that
\* does not move keeps what it may store.
LEMMA MayStoreFrame ==
  ASSUME IInv, AdmissionInv, NEW p \in Requests,
         pc'[p] = pc[p], op'[p] = op[p], ctx'[p] = ctx[p], allowed'[p] = allowed[p],
         misses' \in [Keys -> Nat], \A k \in Keys : misses'[k] >= misses[k],
         generation \in Nat, generation' \in Nat, generation' >= generation
  PROVE  MayStore(p)'
<1>1. CASE pc[p] = "idle"
  BY <1>1 DEF AdmissionInv, MayStore, At
<1>2. CASE pc[p] # "idle"
  <2>1. ctx[p] \in Keys /\ ctx[p].generation \in Nat
    BY <1>2 DEF IInv, RequestGenerations, Keys
  <2>2. misses[ctx[p]] \in Nat /\ misses'[ctx[p]] \in Nat
    BY <2>1 DEF AdmissionInv
  <2>3. Missed(p) => Missed(p)'
    BY <2>1, <2>2, TimesAssumption DEF Missed
  <2>4. Retired(p) => Retired(p)'
    BY <2>1 DEF Retired, BuildCacheKey
  <2> QED BY <2>3, <2>4 DEF AdmissionInv, MayStore, At
<1> QED BY <1>1, <1>2

\* Likewise for a request that moves to a step with no new claim.
LEMMA MayStoreMoves ==
  ASSUME IInv, AdmissionInv, NEW q \in Requests, pc[q] # "idle", ctx'[q] = ctx[q],
         UNCHANGED misses, allowed'[q] = allowed[q], pc'[q] # "idle",
         pc'[q] = "upstream" /\ MinUses <= 1 => Missed(q) \/ Retired(q),
         op'[q] = "put" => Missed(q) \/ Retired(q),
         pc'[q] = "lock" /\ op'[q] = "put" => Missed(q),
         generation \in Nat, generation' \in Nat, generation' >= generation
  PROVE  MayStore(q)'
<1>1. ctx[q] \in Keys /\ ctx[q].generation \in Nat
  BY DEF IInv, RequestGenerations, Keys
<1>2. Missed(q) => Missed(q)'
  BY DEF Missed
<1>3. Retired(q) => Retired(q)'
  BY <1>1 DEF Retired, BuildCacheKey
<1> QED BY <1>2, <1>3 DEF AdmissionInv, MayStore, At

\* A step that leaves the heap and the misses alone.
LEMMA HeapBacked ==
  ASSUME AdmissionInv, UNCHANGED <<heap, misses>>
  PROVE  CountsBacked' /\ EntriesBacked' /\ misses' \in [Keys -> Nat]
BY DEF AdmissionInv, CountsBacked, EntriesBacked

\* The request q moves without touching the heap, or ends.
Quiet(q) ==
  /\ UNCHANGED <<heap, misses>>
  /\ \E step \in Steps, call \in Calls :
       /\ pc' = [pc EXCEPT ![q] = step]
       /\ op' = [op EXCEPT ![q] = call]
       /\ step = "upstream" => op[q] = "miss" /\ Retired(q)
       /\ call = "put" => op[q] = "put" \/ (pc[q] = "upstream" /\ CacheStoreAllowed(q))
       /\ step = "lock" => ~Retired(q) /\ call = op[q]
       /\ \/ step # "idle" /\ UNCHANGED <<ctx, allowed>>
          \/ /\ step = "idle"
             /\ ctx' = [ctx EXCEPT ![q] = None]
             /\ allowed' = [allowed EXCEPT ![q] = FALSE]

\* A quiet move keeps the admission invariant: permission is carried along, and a
\* location is reached only when the request is not retired.
LEMMA QuietAdmission ==
  ASSUME IInv, AdmissionInv, NEW q \in Requests, pc[q] # "idle", Quiet(q),
         generation \in Nat, generation' \in Nat, generation' >= generation
  PROVE  AdmissionInv'
<1>1. PICK step \in Steps, call \in Calls :
        /\ pc' = [pc EXCEPT ![q] = step]
        /\ op' = [op EXCEPT ![q] = call]
        /\ step = "upstream" => op[q] = "miss" /\ Retired(q)
        /\ call = "put" => op[q] = "put" \/ (pc[q] = "upstream" /\ CacheStoreAllowed(q))
        /\ step = "lock" => ~Retired(q) /\ call = op[q]
        /\ \/ step # "idle" /\ UNCHANGED <<ctx, allowed>>
           \/ /\ step = "idle"
              /\ ctx' = [ctx EXCEPT ![q] = None]
              /\ allowed' = [allowed EXCEPT ![q] = FALSE]
  BY DEF Quiet
<1>2. TypeOK /\ UNCHANGED <<heap, misses>> /\ ctx[q] \in Keys
  BY DEF IInv, Quiet, RequestGenerations
<1>3. CountsBacked' /\ EntriesBacked' /\ misses' \in [Keys -> Nat]
  BY <1>2, HeapBacked
<1>4. allowed \in [Requests -> BOOLEAN] /\ allowed' \in [Requests -> BOOLEAN]
  BY <1>1 DEF AdmissionInv
<1>5. /\ pc'[q] = step /\ op'[q] = call
      /\ \A p \in Requests \ {q} : pc'[p] = pc[p] /\ op'[p] = op[p]
                                   /\ ctx'[p] = ctx[p] /\ allowed'[p] = allowed[p]
  BY <1>1, <1>2, <1>4 DEF TypeOK
<1>6. \A k \in Keys : misses'[k] >= misses[k]
  BY <1>2 DEF AdmissionInv
<1>7. MayStore(q)'
  <2>1. CASE step = "idle"
    <3>1. pc'[q] = "idle" /\ allowed'[q] = FALSE
      BY <1>1, <1>4, <1>5, <2>1
    <3> QED BY <3>1 DEF MayStore, At
  <2>2. CASE step # "idle"
    <3>1. UNCHANGED <<ctx, allowed>>
      BY <1>1, <2>2
    <3>2. MayStore(q)
      BY DEF AdmissionInv
    <3>3. call = "put" => Missed(q) \/ Retired(q)
      BY <1>1, <3>2 DEF MayStore, CacheStoreAllowed
    <3>4. step = "lock" /\ call = "put" => Missed(q)
      BY <1>1, <3>3
    <3> QED BY <1>1, <1>2, <1>5, <2>2, <3>1, <3>3, <3>4, MayStoreMoves
  <2> QED BY <2>1, <2>2
<1>8. \A p \in Requests : MayStore(p)'
  BY <1>3, <1>5, <1>6, <1>7, MayStoreFrame
<1> QED BY <1>3, <1>4, <1>8 DEF AdmissionInv

\* The calls that pass the cache by, or leave it with nothing done.
LEMMA AfterAdvanceQuiet ==
  ASSUME TypeOK, NEW q \in Requests, AfterAdvance(q), UNCHANGED <<heap, misses>>
  PROVE  Quiet(q)
<1>1. {"idle", "advance", "store"} \subseteq Steps /\ {"none", "end", op[q]} \subseteq Calls
  BY DEF Steps, Calls, TypeOK
<1>2. CASE Finish(q)
  BY <1>1, <1>2 DEF Finish, Goto, Quiet
<1>3. CASE Goto(q, "advance", "end") /\ UNCHANGED <<ctx, allowed>>
  BY <1>1, <1>3 DEF Goto, Quiet
<1>4. CASE Goto(q, "store", op[q]) /\ UNCHANGED <<ctx, allowed>>
  BY <1>1, <1>4 DEF Goto, Quiet
<1> QED BY <1>2, <1>3, <1>4 DEF AfterAdvance

\* Without a location a put is dropped and a miss goes to the upstream uncounted:
\* both only for a retired generation.
LEMMA NoStoreQuiet ==
  ASSUME TypeOK, NEW q \in Requests, NoStore(q), UNCHANGED <<heap, misses>>,
         op[q] = "miss" => Retired(q)
  PROVE  Quiet(q)
<1>1. /\ {"idle", "advance", "store", "upstream"} \subseteq Steps
      /\ {"none", "end", "miss"} \subseteq Calls
  BY DEF Steps, Calls
<1>2. CASE Finish(q)
  BY <1>1, <1>2 DEF Finish, Goto, Quiet
<1>3. CASE op[q] = "miss" /\ Goto(q, "upstream", "none") /\ UNCHANGED <<ctx, allowed>>
  BY <1>1, <1>3 DEF Goto, Quiet
<1>4. ASSUME Goto(q, "store", "miss") \/ Goto(q, "advance", "end"),
             UNCHANGED <<ctx, allowed>>
      PROVE  Quiet(q)
  BY <1>1, <1>4 DEF Goto, Quiet
<1> QED BY <1>2, <1>3, <1>4 DEF NoStore

\* Going on with a location: the request is not retired.
LEMMA WithStoreQuiet ==
  ASSUME TypeOK, NEW q \in Requests, NEW loc, WithStore(q, loc), ~Retired(q),
         UNCHANGED <<heap, misses>>
  PROVE  Quiet(q)
<1>1. "lock" \in Steps /\ op[q] \in Calls
  BY DEF Steps, TypeOK
<1> QED BY <1>1 DEF WithStore, Goto, Quiet

\* Every step of a request but its first one, the creation of a location and the two
\* calls that write to a location is quiet.
LEMMA QuietSteps ==
  ASSUME TypeOK, NEW q \in Requests,
         \/ Bypass(q) \/ AdvanceCheck(q) \/ AdvanceWrite(q) \/ StoreRead(q)
         \/ StoreCreate(q) /\ UNCHANGED heap
         \/ GetLocked(q) \/ StaleLocked(q)
         \/ UpstreamAnswers(q) \/ UpstreamFails(q) \/ ExchangeAborts(q)
  PROVE  Quiet(q) /\ pc[q] # "idle"
<1>1. /\ {"idle", "advance", "advance_write", "store", "create"} \subseteq Steps
      /\ {"end", "miss", "stale", "put", "abort", op[q]} \subseteq Calls
  BY DEF Steps, Calls, TypeOK
<1>2. CASE Bypass(q)
  BY <1>1, <1>2 DEF Bypass, At, Goto, Quiet, stores
<1>3. CASE AdvanceCheck(q)
  <2>1. pc[q] = "advance" /\ UNCHANGED <<heap, misses>>
    BY <1>3 DEF AdvanceCheck, stores
  <2>2. CASE AfterAdvance(q)
    BY <2>1, <2>2, AfterAdvanceQuiet
  <2>3. CASE Goto(q, "advance_write", op[q]) /\ UNCHANGED <<ctx, allowed>>
    BY <1>1, <2>1, <2>3 DEF Goto, Quiet
  <2> QED BY <1>3, <2>2, <2>3 DEF AdvanceCheck
<1>4. CASE AdvanceWrite(q)
  BY <1>4, AfterAdvanceQuiet DEF AdvanceWrite
<1>5. CASE StoreRead(q)
  <2>1. pc[q] = "store" /\ UNCHANGED <<heap, misses>>
    BY <1>5 DEF StoreRead, stores
  <2>2. CASE ~Retired(q) /\ WithStore(q, locations[ctx[q].route])
    BY <2>1, <2>2, WithStoreQuiet
  <2>3. CASE Goto(q, "create", op[q]) /\ UNCHANGED <<ctx, allowed>>
    BY <1>1, <2>1, <2>3 DEF Goto, Quiet
  <2>4. CASE NoStore(q) /\ (Retired(q) \/ op[q] \notin {"miss", "put"})
    BY <2>1, <2>4, NoStoreQuiet
  <2> QED BY <1>5, <2>2, <2>3, <2>4 DEF StoreRead
<1>6. CASE StoreCreate(q) /\ UNCHANGED heap
  <2>1. pc[q] = "create" /\ UNCHANGED <<heap, misses>>
    BY <1>6 DEF StoreCreate
  <2>2. CASE NoStore(q) /\ Retired(q)
    BY <2>1, <2>2, NoStoreQuiet
  <2>3. ASSUME ~Retired(q), NEW loc, WithStore(q, loc)
        PROVE  Quiet(q)
    BY <2>1, <2>3, WithStoreQuiet
  <2> QED BY <1>6, <2>1, <2>2, <2>3 DEF StoreCreate
<1>7. CASE GetLocked(q)
  BY <1>1, <1>7 DEF GetLocked, At, Goto, Quiet, stores
<1>8. CASE StaleLocked(q)
  BY <1>1, <1>8 DEF StaleLocked, At, Goto, Quiet, stores
<1>9. CASE UpstreamAnswers(q)
  <2>1. pc[q] = "upstream" /\ UNCHANGED <<heap, misses, ctx, allowed>>
    BY <1>9 DEF UpstreamAnswers, stores
  <2>2. \/ CacheStoreAllowed(q) /\ Goto(q, "advance", "put")
        \/ Goto(q, "advance", "end")
    BY <1>9 DEF UpstreamAnswers
  <2> QED BY <1>1, <2>1, <2>2 DEF Goto, Quiet
<1>10. CASE UpstreamFails(q) \/ ExchangeAborts(q)
  BY <1>1, <1>10 DEF UpstreamFails, ExchangeAborts, Goto, Quiet, stores
<1> QED BY <1>2, <1>3, <1>4, <1>5, <1>6, <1>7, <1>8, <1>9, <1>10

\* A new request has no permission yet.
LEMMA BeginAdmission ==
  ASSUME IInv, AdmissionInv, NEW q \in Requests, Begin(q)
  PROVE  AdmissionInv'
<1>1. /\ TypeOK /\ pc[q] = "idle" /\ UNCHANGED <<heap, misses, allowed, generation>>
      /\ pc' = [pc EXCEPT ![q] = "advance"] /\ op' = [op EXCEPT ![q] = "get"]
      /\ \E k : ctx' = [ctx EXCEPT ![q] = k]
  BY DEF IInv, Begin, Goto, stores
<1>2. CountsBacked' /\ EntriesBacked' /\ misses' \in [Keys -> Nat]
  BY <1>1, HeapBacked
<1>3. /\ \A p \in Requests \ {q} : pc'[p] = pc[p] /\ op'[p] = op[p] /\ ctx'[p] = ctx[p]
      /\ pc'[q] = "advance" /\ op'[q] = "get"
      /\ generation \in Nat /\ \A k \in Keys : misses'[k] >= misses[k]
  BY <1>1 DEF TypeOK, AdmissionInv
<1>4. MayStore(q)'
  BY <1>1, <1>3 DEF AdmissionInv, MayStore, At
<1>5. \A p \in Requests : MayStore(p)'
  BY <1>1, <1>2, <1>3, <1>4, MayStoreFrame
<1> QED BY <1>1, <1>2, <1>5 DEF AdmissionInv

\* A location is created empty, for a request that is not retired.
LEMMA CreateAdmission ==
  ASSUME IInv, AdmissionInv, NEW q \in Requests, StoreCreate(q), ~UNCHANGED heap
  PROVE  AdmissionInv'
<1>1. /\ TypeOK /\ pc[q] = "create" /\ UNCHANGED <<misses, generation>>
      /\ ~Retired(q) /\ WithStore(q, allocated') /\ allocated' \in 1 .. MaxCaches
      /\ heap' = [heap EXCEPT ![allocated'] = NewLocationCache]
  <2>1. TypeOK /\ pc[q] = "create" /\ UNCHANGED <<misses, generation>>
    BY DEF IInv, StoreCreate
  <2>2. /\ ~Retired(q) /\ WithStore(q, allocated')
        /\ allocated < MaxCaches /\ allocated' = allocated + 1
        /\ heap' = [heap EXCEPT ![allocated'] = NewLocationCache]
    BY DEF StoreCreate
  <2> QED BY <2>1, <2>2, BoundsAssumption DEF TypeOK
<1>2. NewLocationCache.entries = {} /\ NewLocationCache.counts = {}
  BY DEF NewLocationCache
<1>3. \A i \in 1 .. MaxCaches :
        heap'[i] = IF i = allocated' THEN NewLocationCache ELSE heap[i]
  BY <1>1 DEF TypeOK
<1>4. CountsBacked' /\ EntriesBacked' /\ misses' \in [Keys -> Nat]
  BY <1>1, <1>2, <1>3 DEF AdmissionInv, CountsBacked, EntriesBacked
<1>5. /\ UNCHANGED <<ctx, allowed>>
      /\ pc' = [pc EXCEPT ![q] = "lock"] /\ op' = [op EXCEPT ![q] = op[q]]
  BY <1>1 DEF WithStore, Goto
<1>6. /\ \A p \in Requests : op'[p] = op[p] /\ (p # q => pc'[p] = pc[p])
      /\ pc'[q] = "lock" /\ generation \in Nat
      /\ \A k \in Keys : misses'[k] >= misses[k]
  BY <1>1, <1>5 DEF TypeOK, AdmissionInv
<1>7. op[q] = "put" => Missed(q)
  BY <1>1 DEF AdmissionInv, MayStore
<1>8. MayStore(q)'
  BY <1>1, <1>5, <1>6, <1>7, MayStoreMoves
<1>9. \A p \in Requests : MayStore(p)'
  BY <1>1, <1>4, <1>5, <1>6, <1>8, MayStoreFrame
<1> QED BY <1>4, <1>5, <1>9 DEF AdmissionInv

\* record_miss under the lock: the miss is recorded before anything claims it.
LEMMA MissAdmission ==
  ASSUME IInv, AdmissionInv, NEW q \in Requests, MissLocked(q)
  PROVE  AdmissionInv'
<1> USE TimesAssumption
<1> DEFINE key == ctx[q]
           i == ref[q]
           m == misses[key]
           m2 == IF m < MinUses THEN m + 1 ELSE m
<1>1. /\ TypeOK /\ pc[q] = "lock" /\ UNCHANGED <<generation, ctx>>
      /\ pc' = [pc EXCEPT ![q] = "upstream"] /\ op' = [op EXCEPT ![q] = "none"]
  BY DEF IInv, MissLocked, At, Goto
<1>2. key \in Keys /\ i \in 1 .. MaxCaches /\ Shape(heap[i])
  BY <1>1, BoundsAssumption DEF IInv, TypeOK, RequestGenerations, HoldersCurrent, Shape
<1>3. BuildCacheKey(ctx[q]) = key
  BY <1>2 DEF BuildCacheKey, Keys
<1>4. m \in Nat /\ m2 \in Nat /\ m2 >= m
  BY <1>2 DEF AdmissionInv
<1>5. misses' = [misses EXCEPT ![key] = m2]
  BY <1>3 DEF MissLocked
<1>6. PICK c \in SyncLimits(heap[i]) : \E res \in RecordMiss(c, key) :
        /\ heap' = [heap EXCEPT ![i] = res[1]]
        /\ allowed' = [allowed EXCEPT ![q] = res[2]]
  BY <1>3 DEF MissLocked
<1>7. PICK res \in RecordMiss(c, key) :
        /\ heap' = [heap EXCEPT ![i] = res[1]]
        /\ allowed' = [allowed EXCEPT ![q] = res[2]]
  BY <1>6
<1>8. Shrunk(c, heap[i])
  BY <1>2, SyncLimitsShrinks
<1>9. \A n \in CountOf(c, key) : n.count \in Nat /\ n.count <= m
  BY <1>2, <1>8 DEF CountOf, Shrunk, AdmissionInv, CountsBacked
<1>10. m2 = IF m < MinUses THEN m + 1 ELSE m
  OBVIOUS
<1> HIDE DEF key, i, m, m2
<1>11. /\ \A n \in res[1].counts :
             n \in c.counts \/ (n.key = key /\ n.count \in Nat /\ n.count <= m2)
       /\ res[2] \in BOOLEAN /\ (res[2] => m2 >= MinUses)
  BY <1>4, <1>8, <1>9, <1>10, RecordMissCounts DEF Shrunk
<1>12. res[1].entries \subseteq c.entries
  BY <1>8, RecordMissAdds DEF Shrunk
<1>13. /\ misses' \in [Keys -> Nat] /\ misses'[key] = m2
       /\ \A k \in Keys : misses'[k] >= misses[k]
  <2>1. misses \in [Keys -> Nat] /\ misses[key] = m
    BY DEF AdmissionInv, m
  <2> QED BY <1>2, <1>4, <1>5, <2>1
<1>14. \A j \in 1 .. MaxCaches : heap'[j] = IF j = i THEN res[1] ELSE heap[j]
  BY <1>1, <1>2, <1>7 DEF TypeOK
<1>15. CountsBacked'
  <2>1. ASSUME NEW j \in 1 .. MaxCaches, NEW n \in heap'[j].counts
        PROVE  n.key \in Keys /\ n.count \in Nat /\ n.count <= misses'[n.key]
    <3>1. CASE n \in heap[j].counts
      <4>1. /\ n.key \in Keys /\ n.count \in Nat /\ n.count <= misses[n.key]
            /\ misses \in [Keys -> Nat]
        BY <3>1 DEF AdmissionInv, CountsBacked
      <4> QED BY <1>13, <4>1
    <3>2. CASE n \notin heap[j].counts
      <4>1. n.key = key /\ n.count \in Nat /\ n.count <= m2
        BY <1>8, <1>11, <1>14, <3>2 DEF Shrunk
      <4> QED BY <1>2, <1>13, <4>1
    <3> QED BY <3>1, <3>2
  <2> QED BY <2>1 DEF CountsBacked
<1>16. EntriesBacked'
  <2>1. ASSUME NEW j \in 1 .. MaxCaches, NEW e \in heap'[j].entries
        PROVE  e.key \in Keys /\ misses'[e.key] >= MinUses
    <3>1. e \in heap[j].entries
      BY <1>8, <1>12, <1>14 DEF Shrunk
    <3>2. e.key \in Keys /\ misses[e.key] >= MinUses /\ misses \in [Keys -> Nat]
      BY <3>1 DEF AdmissionInv, EntriesBacked
    <3> QED BY <1>13, <3>2
  <2> QED BY <2>1 DEF EntriesBacked
<1>17. /\ allowed \in [Requests -> BOOLEAN] /\ allowed' \in [Requests -> BOOLEAN]
       /\ allowed'[q] = res[2]
  BY <1>7, <1>11 DEF AdmissionInv
<1>18. /\ pc'[q] = "upstream" /\ op'[q] = "none" /\ generation \in Nat
       /\ \A p \in Requests \ {q} : pc'[p] = pc[p] /\ op'[p] = op[p]
                                    /\ allowed'[p] = allowed[p]
  BY <1>1, <1>7, <1>17 DEF TypeOK
<1>19. MayStore(q)'
  <2>1. Missed(q)' <=> m2 >= MinUses
    BY <1>1, <1>13 DEF Missed, key
  <2>2. MinUses <= 1 => m2 >= MinUses
    BY <1>4, <1>10
  <2> QED BY <1>11, <1>17, <1>18, <2>1, <2>2 DEF MayStore, At
<1>20. \A p \in Requests : MayStore(p)'
  BY <1>1, <1>13, <1>18, <1>19, MayStoreFrame
<1> QED BY <1>13, <1>15, <1>16, <1>17, <1>20 DEF AdmissionInv

\* put under the lock: the request that gets here has missed often enough.
LEMMA PutAdmission ==
  ASSUME IInv, AdmissionInv, NEW q \in Requests, PutLocked(q)
  PROVE  AdmissionInv'
<1>1. /\ TypeOK /\ At(q, "lock", "put") /\ UNCHANGED <<generation, misses>>
      /\ pc' = [pc EXCEPT ![q] = "idle"] /\ op' = [op EXCEPT ![q] = "none"]
      /\ ctx' = [ctx EXCEPT ![q] = None] /\ allowed' = [allowed EXCEPT ![q] = FALSE]
  BY DEF IInv, PutLocked, Finish, Goto
<1>2. ctx[q] \in Keys /\ ref[q] \in 1 .. MaxCaches /\ Shape(heap[ref[q]])
  BY <1>1, BoundsAssumption DEF At, IInv, TypeOK, RequestGenerations, HoldersCurrent, Shape
<1>3. BuildCacheKey(ctx[q]) = ctx[q]
  BY <1>2 DEF BuildCacheKey, Keys
<1>4. misses[ctx[q]] >= MinUses
  BY <1>1 DEF AdmissionInv, MayStore, Missed
<1>5. PICK c \in SyncLimits(heap[ref[q]]) :
        \E c2 \in Put(c, BuildCacheKey(ctx[q]), buffered[q], stamp[q], ctx[q]) :
          heap' = [heap EXCEPT ![ref[q]] = c2]
  BY DEF PutLocked
<1>6. PICK c2 \in Put(c, BuildCacheKey(ctx[q]), buffered[q], stamp[q], ctx[q]) :
        heap' = [heap EXCEPT ![ref[q]] = c2]
  BY <1>5
<1>7. Shrunk(c, heap[ref[q]])
  BY <1>2, SyncLimitsShrinks
<1>8. /\ c2.counts \subseteq c.counts
      /\ \A e \in c2.entries : e \in c.entries \/ e.key = BuildCacheKey(ctx[q])
  BY <1>7, PutAdds DEF Shrunk
<1>9. \A j \in 1 .. MaxCaches : heap'[j] = IF j = ref[q] THEN c2 ELSE heap[j]
  BY <1>1, <1>2, <1>6 DEF TypeOK
<1>10. CountsBacked'
  <2>1. \A j \in 1 .. MaxCaches : heap'[j].counts \subseteq heap[j].counts
    BY <1>7, <1>8, <1>9 DEF Shrunk
  <2> QED BY <1>1, <2>1 DEF AdmissionInv, CountsBacked
<1>11. EntriesBacked'
  <2>1. \A j \in 1 .. MaxCaches : \A e \in heap'[j].entries :
          e \in heap[j].entries \/ e.key = ctx[q]
    BY <1>3, <1>7, <1>8, <1>9 DEF Shrunk
  <2> QED BY <1>1, <1>2, <1>4, <2>1 DEF AdmissionInv, EntriesBacked
<1>12. /\ misses' \in [Keys -> Nat] /\ allowed' \in [Requests -> BOOLEAN]
       /\ \A k \in Keys : misses'[k] >= misses[k]
  BY <1>1 DEF AdmissionInv
<1>13. /\ pc'[q] = "idle" /\ allowed'[q] = FALSE /\ generation \in Nat
       /\ \A p \in Requests \ {q} : pc'[p] = pc[p] /\ op'[p] = op[p]
                                    /\ ctx'[p] = ctx[p] /\ allowed'[p] = allowed[p]
  BY <1>1 DEF TypeOK, AdmissionInv
<1>14. MayStore(q)'
  BY <1>13 DEF MayStore, At
<1>15. \A p \in Requests : MayStore(p)'
  <2>1. generation' \in Nat /\ generation' >= generation
    BY <1>1, <1>13
  <2>2. ASSUME NEW p \in Requests, p # q PROVE MayStore(p)'
    BY <1>12, <1>13, <2>1, <2>2, MayStoreFrame
  <2> QED BY <1>14, <2>2
<1> QED BY <1>10, <1>11, <1>12, <1>15 DEF AdmissionInv

\* Every step preserves the admission invariant.
LEMMA NextAdmission == IInv /\ AdmissionInv /\ [Next]_vars => AdmissionInv'
<1> SUFFICES ASSUME IInv, AdmissionInv, [Next]_vars PROVE AdmissionInv'
  OBVIOUS
<1>1. ASSUME UNCHANGED <<heap, misses, requests, generation>> PROVE AdmissionInv'
  <2>1. UNCHANGED <<pc, op, ctx, allowed>>
    BY <1>1 DEF requests
  <2> QED BY <1>1, <2>1 DEF AdmissionInv, CountsBacked, EntriesBacked, MayStore, At,
               Missed, Retired, BuildCacheKey
<1>2. CASE UNCHANGED vars \/ Apply \/ Tick
  BY <1>1, <1>2 DEF vars, stores, Apply, Tick
<1>3. ASSUME Next, NEW q \in Requests, Quiet(q) /\ pc[q] # "idle" PROVE AdmissionInv'
  BY <1>3, GenerationGrows, QuietAdmission
<1>4. ASSUME Next, NEW q \in Requests,
             \/ Bypass(q) \/ AdvanceCheck(q) \/ AdvanceWrite(q) \/ StoreRead(q)
             \/ StoreCreate(q) /\ UNCHANGED heap
             \/ GetLocked(q) \/ StaleLocked(q)
             \/ UpstreamAnswers(q) \/ UpstreamFails(q) \/ ExchangeAborts(q)
      PROVE  AdmissionInv'
  <2>1. TypeOK
    BY DEF IInv
  <2> QED BY <1>3, <1>4, <2>1, QuietSteps
<1> QED BY <1>2, <1>4, BeginAdmission, CreateAdmission, MissAdmission, PutAdmission DEF Next

\* A response is stored only after its key missed proxy_cache_min_uses times,
\* whatever is evicted or expires in between and however many requests and reloads
\* interleave with the two locks of each cache call.
THEOREM Admission == Spec => []AdmittedAfterMinUses
<1>1. Spec => []AdmissionInv
  <2>1. IInv /\ AdmissionInv /\ [Next]_vars => AdmissionInv'
    BY NextAdmission
  <2> QED BY <2>1, InitAdmission, Invariance, PTL DEF Spec
<1>2. AdmissionInv => AdmittedAfterMinUses
  BY DEF AdmissionInv, EntriesBacked, AdmittedAfterMinUses
<1> QED BY <1>1, <1>2, PTL

-----------------------------------------------------------------------------
(* Sums over finite sets.  The account of a location is a sum that            *)
(* FiniteSetsExt defines by recursion over the subsets of a set.  That the    *)
(* recursion has a solution and that the order of summation does not matter   *)
(* is proved by induction over finite sets, in the form the provers accept:   *)
(* a set of counterexamples has a smallest member.                            *)

Pick(s) == CHOOSE x \in s : TRUE

\* f is the recursive function behind a sum of the weights w over subsets of S.
IsSum(f, w, S) ==
  f = [s \in SUBSET S |-> IF s = {} THEN 0 ELSE w[Pick(s)] + f[s \ {Pick(s)}]]

Total(w, S) == (CHOOSE f : IsSum(f, w, S))[S]

\* Induction over a finite set, as the existence of a smallest counterexample.
LEMMA SmallestSubset ==
  ASSUME NEW S, IsFiniteSet(S), NEW T \in SUBSET SUBSET S, T # {}
  PROVE \E x \in T : \A y \in T : ~(y \subseteq x /\ y # x)
<1>1. IsWellFoundedOn(StrictSubsetOrdering(S), FiniteSubsetsOf(S))
  BY FS_StrictSubsetOrderingWellFounded
<1>0. T \subseteq FiniteSubsetsOf(S)
  BY FS_Subset DEF FiniteSubsetsOf
<1>2. PICK x \in T : \A y \in T : ~(<<y, x>> \in StrictSubsetOrdering(S))
  BY <1>0, <1>1, WFMin
<1> QED BY <1>2 DEF StrictSubsetOrdering

\* Likewise over the natural numbers.
LEMMA SmallestNat ==
  ASSUME NEW T \in SUBSET Nat, T # {}
  PROVE  \E x \in T : \A y \in T : x <= y
<1>1. PICK x \in T : \A y \in T : ~(<<y, x>> \in OpToRel(<, Nat))
  BY NatLessThanWellFounded, WFMin
<1>2. \A y \in T : ~(y < x)
  BY <1>1 DEF OpToRel
<1> QED BY <1>2

\* The recursion has a solution, built up by the size of the subsets.
LEMMA SumExists ==
  ASSUME NEW S, IsFiniteSet(S), NEW w
  PROVE  \E f : IsSum(f, w, S)
<1> DEFINE Level(n) == {s \in SUBSET S : Cardinality(s) <= n}
           Upto(n, f) ==
             f = [s \in Level(n) |-> IF s = {} THEN 0 ELSE w[Pick(s)] + f[s \ {Pick(s)}]]
           bad == {n \in Nat : ~ \E f : Upto(n, f)}
<1>1. \A s \in SUBSET S : IsFiniteSet(s) /\ Cardinality(s) \in Nat /\ Cardinality(s) <= Cardinality(S)
  BY FS_Subset, FS_CardinalityType
<1>2. bad = {}
  <2> SUFFICES ASSUME bad # {} PROVE FALSE
    OBVIOUS
  <2>1. PICK n \in bad : \A m \in bad : n <= m
    BY SmallestNat
  <2>2. CASE n = 0
    <3> DEFINE f == [s \in Level(n) |-> 0]
    <3>1. \A s \in Level(n) : s = {}
      BY <1>1, <2>2, FS_EmptySet
    <3>2. Upto(n, f)
      BY <3>1
    <3> QED BY <2>1, <3>2
  <2>3. CASE n # 0
    <3>1. n - 1 \in Nat /\ n - 1 \notin bad
      <4>1. bad \subseteq Nat
        OBVIOUS
      <4> HIDE DEF bad
      <4> QED BY <2>1, <2>3, <4>1
    <3>2. PICK f : Upto(n - 1, f)
      BY <3>1
    <3> DEFINE g == [s \in Level(n) |-> IF s = {} THEN 0 ELSE w[Pick(s)] + f[s \ {Pick(s)}]]
    <3>3. ASSUME NEW s \in Level(n), s # {} PROVE g[s \ {Pick(s)}] = f[s \ {Pick(s)}]
      <4> DEFINE t == s \ {Pick(s)}
      <4>1. Pick(s) \in s
        BY <3>3 DEF Pick
      <4>2. Cardinality(t) = Cardinality(s) - 1 /\ t \in SUBSET S
        BY <1>1, <4>1, FS_RemoveElement
      <4>3. t \in Level(n - 1) /\ t \in Level(n)
        BY <1>1, <3>1, <4>2
      <4> HIDE DEF t, Level
      <4>4. f[t] = IF t = {} THEN 0 ELSE w[Pick(t)] + f[t \ {Pick(t)}]
        BY <3>2, <4>3
      <4>5. g[t] = IF t = {} THEN 0 ELSE w[Pick(t)] + f[t \ {Pick(t)}]
        BY <4>3
      <4> QED BY <4>4, <4>5 DEF t
    <3>4. g = [s \in Level(n) |-> IF s = {} THEN 0 ELSE w[Pick(s)] + g[s \ {Pick(s)}]]
      <4> HIDE DEF Level
      <4> QED BY <3>3
    <3>5. Upto(n, g)
      BY <3>4, Zenon
    <3> QED BY <2>1, <3>5
  <2> QED BY <2>2, <2>3
<1>3. Cardinality(S) \in Nat /\ Level(Cardinality(S)) = SUBSET S
  BY <1>1
<1>4. PICK f : Upto(Cardinality(S), f)
  BY <1>2, <1>3
<1>5. IsSum(f, w, S)
  BY <1>3, <1>4 DEF IsSum
<1> QED BY <1>5

\* The value at a set, whatever the function was built on.
LEMMA SumAt ==
  ASSUME NEW S, NEW w, NEW f, IsSum(f, w, S), NEW s \in SUBSET S
  PROVE  /\ s = {} => f[s] = 0
         /\ s # {} => Pick(s) \in s /\ f[s] = w[Pick(s)] + f[s \ {Pick(s)}]
<1>1. f[s] = IF s = {} THEN 0 ELSE w[Pick(s)] + f[s \ {Pick(s)}]
  BY DEF IsSum
<1> QED BY <1>1 DEF Pick

\* Two solutions agree where their weights do.
LEMMA SumUnique ==
  ASSUME NEW S, IsFiniteSet(S), NEW T \in SUBSET S, NEW w, NEW v,
         \A x \in T : v[x] = w[x],
         NEW f, IsSum(f, w, S), NEW g, IsSum(g, v, T)
  PROVE  \A s \in SUBSET T : f[s] = g[s]
<1> DEFINE bad == {s \in SUBSET T : f[s] # g[s]}
<1> SUFFICES ASSUME bad # {} PROVE FALSE
  OBVIOUS
<1>1. IsFiniteSet(T)
  BY FS_Subset
<1>2. PICK s \in bad : \A t \in bad : ~(t \subseteq s /\ t # s)
  <2>1. bad \in SUBSET SUBSET T
    OBVIOUS
  <2> HIDE DEF bad
  <2> QED BY <1>1, <2>1, SmallestSubset
<1>3. CASE s = {}
  BY <1>2, <1>3, SumAt
<1>4. CASE s # {}
  <2>1. /\ Pick(s) \in s
        /\ f[s] = w[Pick(s)] + f[s \ {Pick(s)}]
        /\ g[s] = v[Pick(s)] + g[s \ {Pick(s)}]
    BY <1>2, <1>4, SumAt
  <2>2. s \ {Pick(s)} \notin bad
    BY <1>2, <2>1
  <2> QED BY <1>2, <2>1, <2>2
<1> QED BY <1>3, <1>4

\* A sum of natural numbers is one.
LEMMA SumNat ==
  ASSUME NEW S, IsFiniteSet(S), NEW w, \A x \in S : w[x] \in Nat, NEW f, IsSum(f, w, S)
  PROVE  \A s \in SUBSET S : f[s] \in Nat
<1> DEFINE bad == {s \in SUBSET S : f[s] \notin Nat}
<1> SUFFICES ASSUME bad # {} PROVE FALSE
  OBVIOUS
<1>1. PICK s \in bad : \A t \in bad : ~(t \subseteq s /\ t # s)
  <2>1. bad \in SUBSET SUBSET S
    OBVIOUS
  <2> HIDE DEF bad
  <2> QED BY <2>1, SmallestSubset
<1>2. CASE s = {}
  <2>1. f[s] = 0
    BY <1>1, <1>2, SumAt
  <2> QED BY <1>1, <2>1
<1>3. CASE s # {}
  <2>1. Pick(s) \in s /\ f[s] = w[Pick(s)] + f[s \ {Pick(s)}]
    BY <1>1, <1>3, SumAt
  <2>2. s \ {Pick(s)} \notin bad
    BY <1>1, <2>1
  <2> QED BY <1>1, <2>1, <2>2
<1> QED BY <1>2, <1>3

\* The order of summation does not matter: any element may be taken first.
LEMMA SumTake ==
  ASSUME NEW S, IsFiniteSet(S), NEW w, \A x \in S : w[x] \in Nat, NEW f, IsSum(f, w, S)
  PROVE  \A s \in SUBSET S : \A x \in s : f[s] = w[x] + f[s \ {x}]
<1> DEFINE bad == {s \in SUBSET S : \E x \in s : f[s] # w[x] + f[s \ {x}]}
<1> SUFFICES ASSUME bad # {} PROVE FALSE
  OBVIOUS
<1>1. PICK s \in bad : \A t \in bad : ~(t \subseteq s /\ t # s)
  <2>1. bad \in SUBSET SUBSET S
    OBVIOUS
  <2> HIDE DEF bad
  <2> QED BY <2>1, SmallestSubset
<1>2. PICK x \in s : f[s] # w[x] + f[s \ {x}]
  BY <1>1
<1> DEFINE p == Pick(s)
           r == (s \ {p}) \ {x}
<1>3. p \in s /\ f[s] = w[p] + f[s \ {p}]
  <2>1. s \in SUBSET S /\ s # {}
    BY <1>1, <1>2
  <2> HIDE DEF bad
  <2> QED BY <2>1, SumAt
<1>4. p # x
  BY <1>2, <1>3
<1> HIDE DEF p
<1>5. f[s \ {p}] = w[x] + f[r]
  <2>1. s \ {p} \in SUBSET S /\ s \ {p} \notin bad /\ x \in s \ {p}
    BY <1>1, <1>2, <1>3, <1>4
  <2> QED BY <2>1
<1>6. f[s \ {x}] = w[p] + f[r]
  <2>1. s \ {x} \in SUBSET S /\ s \ {x} \notin bad /\ p \in s \ {x}
    BY <1>1, <1>2, <1>3, <1>4
  <2>2. (s \ {x}) \ {p} = r
    OBVIOUS
  <2> QED BY <2>1, <2>2
<1>7. w[p] \in Nat /\ w[x] \in Nat /\ f[r] \in Nat
  BY <1>1, <1>2, <1>3, SumNat
<1> QED BY <1>2, <1>3, <1>5, <1>6, <1>7

\* The sum over a set is the value of any solution at it.
LEMMA TotalIsSum ==
  ASSUME NEW S, IsFiniteSet(S), NEW w,
         NEW T \in SUBSET S, NEW f, IsSum(f, w, S)
  PROVE  Total(w, T) = f[T]
<1>1. IsFiniteSet(T)
  BY FS_Subset
<1>2. PICK g : IsSum(g, w, T) /\ Total(w, T) = g[T]
  <2>1. IsSum(CHOOSE g : IsSum(g, w, T), w, T)
    BY <1>1, SumExists
  <2> QED BY <2>1, Zenon DEF Total
<1>3. \A s \in SUBSET T : f[s] = g[s]
  BY <1>2, SumUnique
<1> QED BY <1>2, <1>3

\* A sum splits over a subset and the rest.
LEMMA TotalSplit ==
  ASSUME NEW S, IsFiniteSet(S), NEW w, \A x \in S : w[x] \in Nat, NEW T \in SUBSET S
  PROVE  /\ Total(w, S) \in Nat /\ Total(w, T) \in Nat /\ Total(w, S \ T) \in Nat
         /\ Total(w, S) = Total(w, T) + Total(w, S \ T)
<1>1. PICK f : IsSum(f, w, S)
  BY SumExists
<1>2. \A s \in SUBSET S : Total(w, s) = f[s] /\ f[s] \in Nat
  BY <1>1, SumNat, TotalIsSum
<1> DEFINE bad == {t \in SUBSET S : f[S] # f[t] + f[S \ t]}
<1>3. bad = {}
  <2> SUFFICES ASSUME bad # {} PROVE FALSE
    OBVIOUS
  <2>1. PICK t \in bad : \A u \in bad : ~(u \subseteq t /\ u # t)
    <3>1. bad \in SUBSET SUBSET S
      OBVIOUS
    <3> HIDE DEF bad
    <3> QED BY <3>1, SmallestSubset
  <2>2. CASE t = {}
    <3>1. f[t] = 0 /\ S \ t = S
      BY <1>1, <2>1, <2>2, SumAt
    <3>2. f[S] \in Nat
      BY <1>2
    <3>3. f[S] # f[t] + f[S \ t]
      BY <2>1
    <3>4. f[S \ t] = f[S]
      BY <3>1, Zenon
    <3> HIDE DEF bad
    <3> QED BY <3>1, <3>2, <3>3, <3>4
  <2>3. CASE t # {}
    <3>1. PICK x \in t : TRUE
      BY <2>3
    <3> DEFINE u == t \ {x}
    <3>2. u \in SUBSET S /\ u \notin bad /\ x \in S /\ x \in S \ u /\ (S \ u) \ {x} = S \ t
      BY <2>1, <3>1
    <3>3. f[S] = f[u] + f[S \ u]
      BY <3>2
    <3>4. f[t] = w[x] + f[u]
      BY <1>1, <2>1, <3>1, SumTake
    <3>5. f[S \ u] = w[x] + f[S \ t]
      BY <1>1, <3>2, SumTake
    <3>6. w[x] \in Nat /\ f[u] \in Nat /\ f[S \ t] \in Nat
      BY <1>2, <3>2
    <3>7. f[S] = f[t] + f[S \ t]
      BY <3>3, <3>4, <3>5, <3>6
    <3> QED BY <2>1, <3>7
  <2> QED BY <2>2, <2>3
<1>4. T \notin bad
  BY <1>3
<1>5. f[S] = f[T] + f[S \ T]
  BY <1>4
<1> QED BY <1>2, <1>5

\* The sums over nothing and over one element.
LEMMA TotalOne ==
  ASSUME NEW x, NEW w, w[x] \in Nat
  PROVE  Total(w, {}) = 0 /\ Total(w, {x}) = w[x]
<1>1. IsFiniteSet({x})
  BY FS_Singleton
<1>2. PICK f : IsSum(f, w, {x})
  BY <1>1, SumExists
<1>3. /\ Total(w, {}) = f[{}] /\ Total(w, {x}) = f[{x}]
      /\ f[{}] = 0
  <2>1. {} \in SUBSET {x} /\ {x} \in SUBSET {x}
    OBVIOUS
  <2>2. Total(w, {}) = f[{}] /\ Total(w, {x}) = f[{x}]
    BY <1>1, <1>2, <2>1, TotalIsSum
  <2>3. f[{}] = 0
    BY <1>2, <2>1, SumAt
  <2> QED BY <2>2, <2>3
<1>4. f[{x}] = w[x] + f[{x} \ {x}]
  BY <1>1, <1>2, SumTake
<1>5. {x} \ {x} = {}
  OBVIOUS
<1> QED BY <1>3, <1>4, <1>5

\* The sizes of responses add up that way.
LEMMA EntriesTotal ==
  ASSUME NEW S, NEW w, \A x \in S : w[x] = EntrySize(x)
  PROVE MapThenSumSet(EntrySize, S) = Total(w, S)
<1> DEFINE Sums(g) ==
             g = [s \in SUBSET S |->
                    IF s = {} THEN 0
                    ELSE EntrySize(CHOOSE x \in s : TRUE) + g[s \ {CHOOSE x \in s : TRUE}]]
<1>1. MapThenSumSet(EntrySize, S) = (CHOOSE g : Sums(g))[S]
  BY DEF MapThenSumSet, MapThenFoldSet
<1>2. \A g : Sums(g) <=> IsSum(g, w, S)
  <2>1. \A s \in SUBSET S : s # {} => w[Pick(s)] = EntrySize(Pick(s))
    BY DEF Pick
  <2> QED BY <2>1 DEF IsSum, Pick
<1> HIDE DEF Sums
<1>3. (CHOOSE g : Sums(g)) = (CHOOSE g : IsSum(g, w, S))
  BY <1>2
<1> QED BY <1>1, <1>3, Zenon DEF Total

\* Taking some responses off the account leaves the size of the others.
LEMMA EntriesSplit ==
  ASSUME NEW S, IsFiniteSet(S), \A x \in S : EntrySize(x) \in Nat, NEW T \in SUBSET S
  PROVE  /\ MapThenSumSet(EntrySize, S) \in Nat
         /\ MapThenSumSet(EntrySize, T) \in Nat
         /\ MapThenSumSet(EntrySize, S \ T) \in Nat
         /\ MapThenSumSet(EntrySize, S) =
              MapThenSumSet(EntrySize, T) + MapThenSumSet(EntrySize, S \ T)
<1> DEFINE w == [x \in S |-> EntrySize(x)]
<1>1. \A U \in SUBSET S : MapThenSumSet(EntrySize, U) = Total(w, U)
  BY EntriesTotal
<1>2. \A x \in S : w[x] \in Nat
  OBVIOUS
<1> HIDE DEF w
<1>3. /\ Total(w, S) \in Nat /\ Total(w, T) \in Nat /\ Total(w, S \ T) \in Nat
      /\ Total(w, S) = Total(w, T) + Total(w, S \ T)
  BY <1>2, TotalSplit
<1>4. S \in SUBSET S /\ T \in SUBSET S /\ S \ T \in SUBSET S
  OBVIOUS
<1>5. /\ MapThenSumSet(EntrySize, S) = Total(w, S)
      /\ MapThenSumSet(EntrySize, T) = Total(w, T)
      /\ MapThenSumSet(EntrySize, S \ T) = Total(w, S \ T)
  BY <1>1, <1>4, Zenon
<1> QED BY <1>3, <1>5
\* The size of no response, and of one.
LEMMA EntriesOne ==
  ASSUME NEW e, EntrySize(e) \in Nat
  PROVE  /\ MapThenSumSet(EntrySize, {}) = 0
         /\ MapThenSumSet(EntrySize, {e}) = EntrySize(e)
<1> DEFINE w == [x \in {e} |-> EntrySize(x)]
<1>1. w[e] = EntrySize(e)
  OBVIOUS
<1> HIDE DEF w
<1>2. Total(w, {}) = 0 /\ Total(w, {e}) = EntrySize(e)
  BY <1>1, TotalOne
<1>3. MapThenSumSet(EntrySize, {}) = Total(w, {})
  BY EntriesTotal
<1>4. MapThenSumSet(EntrySize, {e}) = Total(w, {e})
  BY <1>1, EntriesTotal
<1> QED BY <1>2, <1>3, <1>4

\* The sizes of counters add up in the same way.
LEMMA CountsTotal ==
  ASSUME NEW S, NEW w, \A x \in S : w[x] = CountCost(x)
  PROVE MapThenSumSet(CountCost, S) = Total(w, S)
<1> DEFINE Sums(g) ==
             g = [s \in SUBSET S |->
                    IF s = {} THEN 0
                    ELSE CountCost(CHOOSE x \in s : TRUE) + g[s \ {CHOOSE x \in s : TRUE}]]
<1>1. MapThenSumSet(CountCost, S) = (CHOOSE g : Sums(g))[S]
  BY DEF MapThenSumSet, MapThenFoldSet
<1>2. \A g : Sums(g) <=> IsSum(g, w, S)
  <2>1. \A s \in SUBSET S : s # {} => w[Pick(s)] = CountCost(Pick(s))
    BY DEF Pick
  <2> QED BY <2>1 DEF IsSum, Pick
<1> HIDE DEF Sums
<1>3. (CHOOSE g : Sums(g)) = (CHOOSE g : IsSum(g, w, S))
  BY <1>2
<1> QED BY <1>1, <1>3, Zenon DEF Total

\* Taking some counters off the account leaves the size of the others.
LEMMA CountsSplit ==
  ASSUME NEW S, IsFiniteSet(S), \A x \in S : CountCost(x) \in Nat, NEW T \in SUBSET S
  PROVE  /\ MapThenSumSet(CountCost, S) \in Nat
         /\ MapThenSumSet(CountCost, T) \in Nat
         /\ MapThenSumSet(CountCost, S \ T) \in Nat
         /\ MapThenSumSet(CountCost, S) =
              MapThenSumSet(CountCost, T) + MapThenSumSet(CountCost, S \ T)
<1> DEFINE w == [x \in S |-> CountCost(x)]
<1>1. \A U \in SUBSET S : MapThenSumSet(CountCost, U) = Total(w, U)
  BY CountsTotal
<1>2. \A x \in S : w[x] \in Nat
  OBVIOUS
<1> HIDE DEF w
<1>3. /\ Total(w, S) \in Nat /\ Total(w, T) \in Nat /\ Total(w, S \ T) \in Nat
      /\ Total(w, S) = Total(w, T) + Total(w, S \ T)
  BY <1>2, TotalSplit
<1>4. S \in SUBSET S /\ T \in SUBSET S /\ S \ T \in SUBSET S
  OBVIOUS
<1>5. /\ MapThenSumSet(CountCost, S) = Total(w, S)
      /\ MapThenSumSet(CountCost, T) = Total(w, T)
      /\ MapThenSumSet(CountCost, S \ T) = Total(w, S \ T)
  BY <1>1, <1>4, Zenon
<1> QED BY <1>3, <1>5
\* The size of no counter, and of one.
LEMMA CountsOne ==
  ASSUME NEW e, CountCost(e) \in Nat
  PROVE  /\ MapThenSumSet(CountCost, {}) = 0
         /\ MapThenSumSet(CountCost, {e}) = CountCost(e)
<1> DEFINE w == [x \in {e} |-> CountCost(x)]
<1>1. w[e] = CountCost(e)
  OBVIOUS
<1> HIDE DEF w
<1>2. Total(w, {}) = 0 /\ Total(w, {e}) = CountCost(e)
  BY <1>1, TotalOne
<1>3. MapThenSumSet(CountCost, {}) = Total(w, {})
  BY CountsTotal
<1>4. MapThenSumSet(CountCost, {e}) = Total(w, {e})
  BY <1>1, CountsTotal
<1> QED BY <1>2, <1>3, <1>4

-----------------------------------------------------------------------------
(* The account of a location.  It stays exact because every operation takes   *)
(* off the size of what it removes and adds the size of something that is not *)
(* there: put first drops the response and the counter of its key, and a key  *)
(* never has two counters.                                                    *)

Entries(cache) == MapThenSumSet(EntrySize, cache.entries)
Counts(cache) == MapThenSumSet(CountCost, cache.counts)

\* current_size is exactly the size of what the location holds.
Accounted(cache) ==
  /\ Shape(cache)
  /\ IsFiniteSet(cache.entries) /\ IsFiniteSet(cache.counts)
  /\ \A e \in cache.entries : EntrySize(e) \in Nat
  /\ \A c \in cache.counts : CountCost(c) \in Nat
  /\ \A c, d \in cache.counts : c.key = d.key => c = d
  /\ cache.current_size = Entries(cache) + Counts(cache)

Budgeted(cache) == Accounted(cache) /\ cache.current_size <= MaxSize

BudgetInv ==
  /\ \A i \in 1 .. MaxCaches : Budgeted(heap[i])
  /\ buffered \in [Requests -> Nat]

\* The account is a natural number.
LEMMA AccountNat ==
  ASSUME NEW cache, Accounted(cache)
  PROVE  Entries(cache) \in Nat /\ Counts(cache) \in Nat /\ cache.current_size \in Nat
<1>1. cache.entries \in SUBSET cache.entries /\ cache.counts \in SUBSET cache.counts
  OBVIOUS
<1>2. Entries(cache) \in Nat
  BY <1>1, EntriesSplit DEF Accounted, Entries
<1>3. Counts(cache) \in Nat
  BY <1>1, CountsSplit DEF Accounted, Counts
<1> QED BY <1>2, <1>3 DEF Accounted

\* An empty location has an empty account.
LEMMA EmptyAccount ==
  ASSUME NEW cache, Shape(cache), cache.entries = {}, cache.counts = {}
  PROVE  /\ Entries(cache) = 0 /\ Counts(cache) = 0
         /\ cache.current_size = 0 => Accounted(cache)
<1>1. MapThenSumSet(EntrySize, {}) = 0 /\ MapThenSumSet(CountCost, {}) = 0
  <2> DEFINE w == [x \in {} |-> 0]
  <2>1. \A x \in {} : w[x] = EntrySize(x) /\ w[x] = CountCost(x)
    OBVIOUS
  <2>2. Total(w, {}) = 0
    <3>1. IsFiniteSet({})
      BY FS_EmptySet
    <3>2. PICK f : IsSum(f, w, {})
      BY <3>1, SumExists
    <3>3. Total(w, {}) = f[{}]
      BY <3>1, <3>2, TotalIsSum
    <3> HIDE DEF w
    <3>4. {} \in SUBSET {}
      OBVIOUS
    <3>5. f[{}] = 0
      BY <3>2, <3>4, SumAt
    <3> QED BY <3>3, <3>5
  <2> HIDE DEF w
  <2>3. MapThenSumSet(EntrySize, {}) = Total(w, {})
    BY <2>1, EntriesTotal
  <2>4. MapThenSumSet(CountCost, {}) = Total(w, {})
    BY <2>1, CountsTotal
  <2> QED BY <2>2, <2>3, <2>4
<1>2. Entries(cache) = 0 /\ Counts(cache) = 0
  BY <1>1 DEF Entries, Counts
<1>3. ASSUME cache.current_size = 0 PROVE Accounted(cache)
  <2>1. IsFiniteSet(cache.entries) /\ IsFiniteSet(cache.counts)
    BY FS_EmptySet
  <2>2. cache.current_size = Entries(cache) + Counts(cache)
    BY <1>2, <1>3
  <2> QED BY <2>1, <2>2 DEF Accounted
<1> QED BY <1>2, <1>3

\* Removing keeps the account exact.
LEMMA RemoveAccounted ==
  ASSUME NEW cache, Accounted(cache),
         NEW es \in SUBSET cache.entries, NEW cs \in SUBSET cache.counts
  PROVE  /\ Accounted(Remove(cache, es, cs))
         /\ Remove(cache, es, cs).entries = cache.entries \ es
         /\ Remove(cache, es, cs).counts = cache.counts \ cs
<1> DEFINE r == Remove(cache, es, cs)
           size == cache.current_size - MapThenSumSet(EntrySize, es)
                                     - MapThenSumSet(CountCost, cs)
<1>1. r = [cache EXCEPT !.entries = cache.entries \ es, !.counts = cache.counts \ cs,
                        !.current_size = size]
  BY DEF Remove
<1>2. size = MapThenSumSet(EntrySize, cache.entries \ es)
             + MapThenSumSet(CountCost, cache.counts \ cs)
  <2>1. /\ MapThenSumSet(EntrySize, cache.entries) \in Nat
        /\ MapThenSumSet(EntrySize, es) \in Nat
        /\ MapThenSumSet(EntrySize, cache.entries \ es) \in Nat
        /\ MapThenSumSet(EntrySize, cache.entries) =
             MapThenSumSet(EntrySize, es) + MapThenSumSet(EntrySize, cache.entries \ es)
    BY EntriesSplit DEF Accounted
  <2>2. /\ MapThenSumSet(CountCost, cache.counts) \in Nat
        /\ MapThenSumSet(CountCost, cs) \in Nat
        /\ MapThenSumSet(CountCost, cache.counts \ cs) \in Nat
        /\ MapThenSumSet(CountCost, cache.counts) =
             MapThenSumSet(CountCost, cs) + MapThenSumSet(CountCost, cache.counts \ cs)
    BY CountsSplit DEF Accounted
  <2>3. cache.current_size = MapThenSumSet(EntrySize, cache.entries)
                             + MapThenSumSet(CountCost, cache.counts)
    BY DEF Accounted, Entries, Counts
  <2> QED BY <2>1, <2>2, <2>3
<1> HIDE DEF size, r
<1>3. /\ Shape(r) /\ r.entries = cache.entries \ es /\ r.counts = cache.counts \ cs
      /\ r.current_size = size
  BY <1>1 DEF Accounted, Shape
<1>4. IsFiniteSet(r.entries) /\ IsFiniteSet(r.counts)
  <2>1. r.entries \subseteq cache.entries /\ r.counts \subseteq cache.counts
    BY <1>3
  <2> QED BY <2>1, FS_Subset DEF Accounted
<1>5. r.current_size = Entries(r) + Counts(r)
  BY <1>2, <1>3 DEF Entries, Counts
<1>6. Accounted(r)
  BY <1>3, <1>4, <1>5 DEF Accounted
<1> QED BY <1>3, <1>6 DEF r

\* make_room either fits what is to come or leaves nothing, and what is to come
\* fits an empty location.
LEMMA MakeRoomAccounted ==
  ASSUME NEW cache, Accounted(cache), NEW size \in Nat, size <= MaxSize,
         NEW c \in MakeRoom(cache, size)
  PROVE  /\ Accounted(c) /\ Shrunk(c, cache)
         /\ c.current_size + size <= MaxSize
<1>1. PICK es \in SUBSET cache.entries, cs \in SUBSET cache.counts :
        /\ c = Remove(cache, es, cs)
        /\ c.current_size <= MaxSize - size \/ (es = cache.entries /\ cs = cache.counts)
  <2> DEFINE limit == MaxSize - size
             Left(es, cs) == Remove(cache, es, cs).current_size
             OneBack(es, cs) ==
               \/ es # {} /\ \E e \in es : Left(es \ {e}, cs) > limit
               \/ es = {} /\ \E k \in cs : Left(es, cs \ {k}) > limit
  <2>1. PICK y \in (SUBSET cache.entries) \X (SUBSET cache.counts) :
          /\ c = Remove(cache, y[1], y[2])
          /\ y[1] # {} => y[2] = cache.counts
          /\ y = <<{}, {}>> \/ OneBack(y[1], y[2])
          /\ \/ Left(y[1], y[2]) <= limit
             \/ y = <<cache.entries, cache.counts>>
    BY DEF MakeRoom
  <2> HIDE DEF OneBack
  <2>2. y[1] \in SUBSET cache.entries /\ y[2] \in SUBSET cache.counts
    BY <2>1
  <2>3. \/ c.current_size <= MaxSize - size
        \/ y[1] = cache.entries /\ y[2] = cache.counts
    BY <2>1
  <2> QED BY <2>1, <2>2, <2>3
<1>2. /\ Accounted(c)
      /\ c.entries = cache.entries \ es /\ c.counts = cache.counts \ cs
  <2>1. /\ Accounted(Remove(cache, es, cs))
        /\ Remove(cache, es, cs).entries = cache.entries \ es
        /\ Remove(cache, es, cs).counts = cache.counts \ cs
    BY RemoveAccounted
  <2> QED BY <1>1, <2>1
<1>3. Shrunk(c, cache)
  BY <1>2 DEF Accounted, Shrunk
<1>4. c.current_size \in Nat /\ MaxSize \in Nat
  BY <1>2, AccountNat, SizesAssumption
<1>5. CASE c.current_size <= MaxSize - size
  BY <1>2, <1>3, <1>4, <1>5
<1>6. CASE es = cache.entries /\ cs = cache.counts
  <2>1. c.entries = {} /\ c.counts = {} /\ Shape(c)
    BY <1>2, <1>6 DEF Accounted
  <2>2. Entries(c) = 0 /\ Counts(c) = 0
    BY <2>1, EmptyAccount
  <2>3. c.current_size = 0
    BY <1>2, <2>2 DEF Accounted
  <2> QED BY <1>2, <1>3, <2>3
<1> QED BY <1>1, <1>5, <1>6

\* sync_limits leaves a location within the budget.
LEMMA SyncAccounted ==
  ASSUME NEW cache, Accounted(cache), NEW c \in SyncLimits(cache)
  PROVE  Budgeted(c)
<1> DEFINE es == {e \in cache.entries : now - e.created_at >= Ttl + StaleIfError}
           cs == {k \in cache.counts : now - k.last_seen >= Ttl}
           r == Remove(cache, es, cs)
<1>1. Accounted(r)
  <2>1. es \in SUBSET cache.entries /\ cs \in SUBSET cache.counts
    OBVIOUS
  <2> HIDE DEF es, cs
  <2> QED BY <2>1, RemoveAccounted
<1>2. EvictStale(cache) = [r EXCEPT !.last_sweep = now]
  BY DEF EvictStale
<1> HIDE DEF r
<1>3. Accounted(EvictStale(cache))
  <2> DEFINE t == EvictStale(cache)
  <2>1. /\ Shape(t) /\ t.entries = r.entries /\ t.counts = r.counts
        /\ t.current_size = r.current_size
    BY <1>1, <1>2 DEF Accounted, Shape
  <2> HIDE DEF t
  <2>2. Entries(t) = Entries(r) /\ Counts(t) = Counts(r)
    BY <2>1 DEF Entries, Counts
  <2>3. Accounted(t)
    BY <1>1, <2>1, <2>2 DEF Accounted
  <2> QED BY <2>3 DEF t
<1>4. \/ c \in MakeRoom(EvictStale(cache), 0)
      \/ c \in MakeRoom(cache, 0)
  BY DEF SyncLimits
<1>5. PICK zero \in Nat : zero = 0 /\ zero <= MaxSize
  BY SizesAssumption
<1>6. Accounted(c) /\ c.current_size + zero <= MaxSize
  BY <1>3, <1>4, <1>5, MakeRoomAccounted
<1>7. c.current_size \in Nat
  BY <1>6, AccountNat
<1> QED BY <1>5, <1>6, <1>7 DEF Budgeted

\* A counter for a key without one adds its cost.
LEMMA AddCountAccounted ==
  ASSUME NEW c, Accounted(c), NEW new, CountCost(new) \in Nat,
         \A d \in c.counts : d.key # new.key,
         NEW r, Shape(r), r.entries = c.entries, r.counts = c.counts \cup {new},
         r.current_size = c.current_size + CountCost(new)
  PROVE  Accounted(r)
<1>1. IsFiniteSet(r.counts)
  BY FS_AddElement DEF Accounted
<1>2. \A d \in r.counts : CountCost(d) \in Nat
  BY DEF Accounted
<1>3. r.counts \ {new} = c.counts /\ {new} \in SUBSET r.counts
  OBVIOUS
<1>4. /\ MapThenSumSet(CountCost, r.counts \ {new}) \in Nat
      /\ MapThenSumSet(CountCost, r.counts) =
           MapThenSumSet(CountCost, {new}) + MapThenSumSet(CountCost, r.counts \ {new})
  BY <1>1, <1>2, <1>3, CountsSplit
<1>5. MapThenSumSet(CountCost, {new}) = CountCost(new)
  BY CountsOne
<1>6. Counts(r) = CountCost(new) + Counts(c)
  BY <1>3, <1>4, <1>5 DEF Counts
<1>7. Entries(r) = Entries(c)
  BY DEF Entries
<1>8. r.current_size = Entries(r) + Counts(r)
  BY <1>6, <1>7, AccountNat DEF Accounted
<1>9. \A d, e \in r.counts : d.key = e.key => d = e
  BY DEF Accounted
<1> QED BY <1>1, <1>2, <1>8, <1>9 DEF Accounted

\* A response that is not there adds its size.
LEMMA AddEntryAccounted ==
  ASSUME NEW c, Accounted(c), NEW new, EntrySize(new) \in Nat, new \notin c.entries,
         NEW r, Shape(r), r.counts = c.counts, r.entries = c.entries \cup {new},
         r.current_size = c.current_size + EntrySize(new)
  PROVE  Accounted(r)
<1>1. IsFiniteSet(r.entries)
  BY FS_AddElement DEF Accounted
<1>2. \A d \in r.entries : EntrySize(d) \in Nat
  BY DEF Accounted
<1>3. r.entries \ {new} = c.entries /\ {new} \in SUBSET r.entries
  OBVIOUS
<1>4. /\ MapThenSumSet(EntrySize, r.entries \ {new}) \in Nat
      /\ MapThenSumSet(EntrySize, r.entries) =
           MapThenSumSet(EntrySize, {new}) + MapThenSumSet(EntrySize, r.entries \ {new})
  BY <1>1, <1>2, <1>3, EntriesSplit
<1>5. MapThenSumSet(EntrySize, {new}) = EntrySize(new)
  BY EntriesOne
<1>6. Entries(r) = EntrySize(new) + Entries(c)
  BY <1>3, <1>4, <1>5 DEF Entries
<1>7. Counts(r) = Counts(c)
  BY DEF Counts
<1>8. r.current_size = Entries(r) + Counts(r)
  BY <1>6, <1>7, AccountNat DEF Accounted
<1> QED BY <1>1, <1>2, <1>8 DEF Accounted

\* Replacing the counter of a key leaves the account as it is.
LEMMA ReplaceCountAccounted ==
  ASSUME NEW c, Accounted(c), NEW old \in c.counts, NEW new, new.key = old.key,
         NEW r, Shape(r), r.entries = c.entries,
         r.counts = (c.counts \ {old}) \cup {new}, r.current_size = c.current_size
  PROVE  Accounted(r)
<1>1. IsFiniteSet(r.counts)
  <2>1. IsFiniteSet(c.counts \ {old})
    BY FS_Subset DEF Accounted
  <2> QED BY <2>1, FS_AddElement
<1>2. CountCost(new) = CountCost(old) /\ CountCost(old) \in Nat
  BY DEF Accounted, CountCost
<1>3. \A d \in r.counts : CountCost(d) \in Nat
  BY <1>2 DEF Accounted
<1>4. new \notin c.counts \ {old}
  BY DEF Accounted
<1>5. r.counts \ {new} = c.counts \ {old} /\ {new} \in SUBSET r.counts
      /\ {old} \in SUBSET c.counts
  BY <1>4
<1>6. /\ MapThenSumSet(CountCost, r.counts \ {new}) \in Nat
      /\ MapThenSumSet(CountCost, r.counts) =
           MapThenSumSet(CountCost, {new}) + MapThenSumSet(CountCost, r.counts \ {new})
  BY <1>1, <1>3, <1>5, CountsSplit
<1>7. MapThenSumSet(CountCost, c.counts) =
        MapThenSumSet(CountCost, {old}) + MapThenSumSet(CountCost, c.counts \ {old})
  BY <1>5, CountsSplit DEF Accounted
<1>8. /\ MapThenSumSet(CountCost, {new}) = CountCost(new)
      /\ MapThenSumSet(CountCost, {old}) = CountCost(old)
  BY <1>2, CountsOne
<1>9. Counts(r) = Counts(c)
  BY <1>2, <1>5, <1>6, <1>7, <1>8 DEF Counts
<1>10. Entries(r) = Entries(c)
  BY DEF Entries
<1>11. \A d, e \in r.counts : d.key = e.key => d = e
  BY DEF Accounted
<1> QED BY <1>1, <1>3, <1>9, <1>10, <1>11 DEF Accounted

\* record_miss stays within the budget.
LEMMA RecordMissBudgeted ==
  ASSUME NEW cache, Budgeted(cache), NEW key, key.uri \in Uris,
         NEW res \in RecordMiss(cache, key)
  PROVE  Budgeted(res[1])
<1>1. \/ res[1] = cache
      \/ \E old \in CountOf(cache, key) : \E new :
           /\ new.key = key
           /\ Shape(res[1]) /\ res[1].entries = cache.entries
           /\ res[1].counts = (cache.counts \ {old}) \cup {new}
           /\ res[1].current_size = cache.current_size
      \/ /\ CountOf(cache, key) = {}
         /\ \E new : \E c \in MakeRoom(cache, CountCost(new)) :
              /\ new.key = key /\ ~(CountCost(new) > MaxSize)
              /\ Shape(res[1]) /\ res[1].entries = c.entries
              /\ res[1].counts = c.counts \cup {new}
              /\ res[1].current_size = c.current_size + CountCost(new)
  <2>1. MissForms(cache, key, res)
    BY RecordMissForms DEF Budgeted, Accounted
  <2> QED BY <2>1, Zenon DEF MissForms
<1>2. ASSUME NEW old \in CountOf(cache, key), NEW new, new.key = key,
             Shape(res[1]), res[1].entries = cache.entries,
             res[1].counts = (cache.counts \ {old}) \cup {new},
             res[1].current_size = cache.current_size
      PROVE  Budgeted(res[1])
  <2>1. old \in cache.counts /\ old.key = key /\ Accounted(cache)
    BY DEF CountOf, Budgeted
  <2>2. Accounted(res[1])
    BY <1>2, <2>1, ReplaceCountAccounted
  <2> QED BY <1>2, <2>2 DEF Budgeted
<1>3. ASSUME CountOf(cache, key) = {},
             NEW new, NEW c \in MakeRoom(cache, CountCost(new)),
             new.key = key, ~(CountCost(new) > MaxSize),
             Shape(res[1]), res[1].entries = c.entries,
             res[1].counts = c.counts \cup {new},
             res[1].current_size = c.current_size + CountCost(new)
      PROVE  Budgeted(res[1])
  <2>1. CountCost(new) \in Nat /\ CountCost(new) <= MaxSize
    BY <1>3, SizesAssumption DEF CountCost
  <2>2. Accounted(c) /\ Shrunk(c, cache) /\ c.current_size + CountCost(new) <= MaxSize
    BY <2>1, MakeRoomAccounted DEF Budgeted
  <2>3. \A d \in c.counts : d.key # new.key
    BY <1>3, <2>2 DEF Shrunk, CountOf
  <2>4. Accounted(res[1])
    BY <1>3, <2>1, <2>2, <2>3, AddCountAccounted
  <2> QED BY <1>3, <2>2, <2>4 DEF Budgeted
<1> QED BY <1>1, <1>2, <1>3

\* put first drops what its key had.
LEMMA ClearAccounted ==
  ASSUME NEW cache, Accounted(cache), NEW key
  PROVE  /\ Accounted(Remove(cache, EntryOf(cache, key), CountOf(cache, key)))
         /\ Remove(cache, EntryOf(cache, key), CountOf(cache, key)).entries =
              cache.entries \ EntryOf(cache, key)
<1>1. EntryOf(cache, key) \subseteq cache.entries /\ CountOf(cache, key) \subseteq cache.counts
  BY DEF EntryOf, CountOf
<1>2. ASSUME NEW es \in SUBSET cache.entries, NEW cs \in SUBSET cache.counts
      PROVE  Accounted(Remove(cache, es, cs)) /\ Remove(cache, es, cs).entries = cache.entries \ es
  <2>1. Accounted(Remove(cache, es, cs))
    BY RemoveAccounted
  <2> DEFINE size == cache.current_size - MapThenSumSet(EntrySize, es)
                                       - MapThenSumSet(CountCost, cs)
  <2>2. Remove(cache, es, cs) =
          [cache EXCEPT !.entries = cache.entries \ es, !.counts = cache.counts \ cs,
                        !.current_size = size]
    BY DEF Remove
  <2> HIDE DEF size
  <2>3. Remove(cache, es, cs).entries = cache.entries \ es
    BY <2>2 DEF Accounted, Shape
  <2> QED BY <2>1, <2>3
<1> QED BY <1>1, <1>2

\* put stays within the budget.
LEMMA PutBudgeted ==
  ASSUME NEW cache, Budgeted(cache), NEW key, key.uri \in Uris, NEW size \in Nat,
         NEW created, NEW origin, NEW c2 \in Put(cache, key, size, created, origin)
  PROVE  Budgeted(c2)
<1> DEFINE cleared == Remove(cache, EntryOf(cache, key), CountOf(cache, key))
           new == [key |-> key, size |-> size, created_at |-> created, origin |-> origin]
<1>1. Accounted(cleared) /\ cleared.entries = cache.entries \ EntryOf(cache, key)
      /\ cleared.current_size <= cache.current_size
  <2>1. /\ EntryOf(cache, key) \in SUBSET cache.entries
        /\ CountOf(cache, key) \in SUBSET cache.counts /\ Accounted(cache)
    BY DEF EntryOf, CountOf, Budgeted
  <2>2. Accounted(cleared) /\ cleared.entries = cache.entries \ EntryOf(cache, key)
    BY <2>1, ClearAccounted
  <2>3. /\ MapThenSumSet(EntrySize, EntryOf(cache, key)) \in Nat
        /\ MapThenSumSet(CountCost, CountOf(cache, key)) \in Nat
        /\ cache.current_size \in Nat
    BY <2>1, EntriesSplit, CountsSplit, AccountNat DEF Accounted
  <2> DEFINE left == cache.current_size - MapThenSumSet(EntrySize, EntryOf(cache, key))
                                       - MapThenSumSet(CountCost, CountOf(cache, key))
  <2>4. cleared = [cache EXCEPT !.entries = cache.entries \ EntryOf(cache, key),
                                !.counts = cache.counts \ CountOf(cache, key),
                                !.current_size = left]
    BY DEF Remove
  <2>5. left <= cache.current_size
    BY <2>3
  <2> HIDE DEF left, cleared
  <2>6. cleared.current_size = left
    BY <2>1, <2>4 DEF Accounted, Shape
  <2> QED BY <2>2, <2>5, <2>6
<1>2. new.key = key /\ new.size = size /\ EntrySize(new) \in Nat
  BY SizesAssumption DEF EntrySize
<1>3. \/ c2 = cleared
      \/ /\ ~(EntrySize(new) > MaxSize)
         /\ \E c \in MakeRoom(cleared, EntrySize(new)) :
              c2 = [c EXCEPT !.entries = c.entries \cup {new},
                             !.current_size = c.current_size + EntrySize(new)]
  BY DEF Put
<1> HIDE DEF cleared, new
<1>4. CASE c2 = cleared
  <2>1. cleared.current_size \in Nat /\ cache.current_size \in Nat /\ MaxSize \in Nat
        /\ cache.current_size <= MaxSize
    BY <1>1, AccountNat, SizesAssumption DEF Budgeted
  <2> QED BY <1>1, <1>4, <2>1 DEF Budgeted
<1>5. ASSUME ~(EntrySize(new) > MaxSize), NEW c \in MakeRoom(cleared, EntrySize(new)),
             c2 = [c EXCEPT !.entries = c.entries \cup {new},
                            !.current_size = c.current_size + EntrySize(new)]
      PROVE  Budgeted(c2)
  <2>1. EntrySize(new) <= MaxSize
    BY <1>2, <1>5, SizesAssumption
  <2>2. Accounted(c) /\ Shrunk(c, cleared) /\ c.current_size + EntrySize(new) <= MaxSize
    BY <1>1, <1>2, <2>1, MakeRoomAccounted
  <2>3. new \notin c.entries
    BY <1>1, <1>2, <2>2 DEF Shrunk, EntryOf
  <2> DEFINE total == c.current_size + EntrySize(new)
  <2> HIDE DEF total
  <2>4. c2 = [c EXCEPT !.entries = c.entries \cup {new}, !.current_size = total]
    BY <1>5 DEF total
  <2>5. /\ Shape(c2) /\ c2.counts = c.counts /\ c2.entries = c.entries \cup {new}
        /\ c2.current_size = total
    BY <2>2, <2>4 DEF Accounted, Shape
  <2>6. c2.current_size = c.current_size + EntrySize(new)
    BY <2>5 DEF total
  <2>7. Accounted(c2)
    BY <1>2, <2>2, <2>3, <2>5, <2>6, AddEntryAccounted
  <2> QED BY <2>2, <2>6, <2>7 DEF Budgeted
<1> QED BY <1>3, <1>4, <1>5

\* A location is created with an empty account.
LEMMA NewBudgeted == Budgeted(NewLocationCache)
<1>1. /\ Shape(NewLocationCache)
      /\ NewLocationCache.entries = {} /\ NewLocationCache.counts = {}
      /\ NewLocationCache.current_size = 0
  BY DEF NewLocationCache, Shape
<1>2. Accounted(NewLocationCache)
  BY <1>1, EmptyAccount
<1> QED BY <1>1, <1>2, SizesAssumption DEF Budgeted

\* Every step keeps the accounts.
LEMMA NextBudget == IInv /\ BudgetInv /\ [Next]_vars => BudgetInv'
<1> SUFFICES ASSUME IInv, BudgetInv, [Next]_vars PROVE BudgetInv'
  OBVIOUS
<1>0. TypeOK /\ buffered \in [Requests -> Nat]
  BY DEF IInv, BudgetInv
<1>1. ASSUME NEW i \in 1 .. MaxCaches, NEW c, Budgeted(c),
             heap' = [heap EXCEPT ![i] = c]
      PROVE  \A j \in 1 .. MaxCaches : Budgeted(heap'[j])
  <2>1. \A j \in 1 .. MaxCaches : heap'[j] = IF j = i THEN c ELSE heap[j]
    BY <1>0, <1>1 DEF TypeOK
  <2> QED BY <1>1, <2>1 DEF BudgetInv
<1>2. ASSUME NEW q \in Requests, pc[q] = "lock"
      PROVE  /\ ref[q] \in 1 .. MaxCaches /\ Accounted(heap[ref[q]])
             /\ BuildCacheKey(ctx[q]).uri \in Uris
  <2>1. ctx[q] \in Keys /\ ref[q] \in 1 .. MaxCaches
    BY <1>0, <1>2, BoundsAssumption DEF IInv, TypeOK, RequestGenerations, HoldersCurrent
  <2> QED BY <2>1 DEF BudgetInv, Budgeted, BuildCacheKey, Keys
<1>3. \A i \in 1 .. MaxCaches : Budgeted(heap'[i])
  <2>1. CASE UNCHANGED heap
    BY <2>1 DEF BudgetInv
  <2>2. ASSUME NEW q \in Requests, MissLocked(q)
        PROVE  \A i \in 1 .. MaxCaches : Budgeted(heap'[i])
    <3>1. PICK c \in SyncLimits(heap[ref[q]]) :
            \E res \in RecordMiss(c, BuildCacheKey(ctx[q])) :
              heap' = [heap EXCEPT ![ref[q]] = res[1]]
      BY <2>2 DEF MissLocked
    <3>2. PICK res \in RecordMiss(c, BuildCacheKey(ctx[q])) :
            heap' = [heap EXCEPT ![ref[q]] = res[1]]
      BY <3>1
    <3>3. pc[q] = "lock"
      BY <2>2 DEF MissLocked, At
    <3>4. Budgeted(c)
      BY <1>2, <3>3, SyncAccounted
    <3>5. Budgeted(res[1])
      BY <1>2, <3>3, <3>4, RecordMissBudgeted
    <3> QED BY <1>1, <1>2, <3>2, <3>3, <3>5
  <2>3. ASSUME NEW q \in Requests, PutLocked(q)
        PROVE  \A i \in 1 .. MaxCaches : Budgeted(heap'[i])
    <3>1. PICK c \in SyncLimits(heap[ref[q]]) :
            \E c2 \in Put(c, BuildCacheKey(ctx[q]), buffered[q], stamp[q], ctx[q]) :
              heap' = [heap EXCEPT ![ref[q]] = c2]
      BY <2>3 DEF PutLocked
    <3>2. PICK c2 \in Put(c, BuildCacheKey(ctx[q]), buffered[q], stamp[q], ctx[q]) :
            heap' = [heap EXCEPT ![ref[q]] = c2]
      BY <3>1
    <3>3. pc[q] = "lock" /\ buffered[q] \in Nat
      BY <1>0, <2>3 DEF PutLocked, At
    <3>4. Budgeted(c)
      BY <1>2, <3>3, SyncAccounted
    <3>5. Budgeted(c2)
      BY <1>2, <3>3, <3>4, PutBudgeted
    <3> QED BY <1>1, <1>2, <3>2, <3>3, <3>5
  <2>4. ASSUME NEW q \in Requests, StoreCreate(q)
        PROVE  \A i \in 1 .. MaxCaches : Budgeted(heap'[i])
    <3>1. CASE allocated < MaxCaches /\ allocated' = allocated + 1
               /\ heap' = [heap EXCEPT ![allocated'] = NewLocationCache]
      <4>1. allocated' \in 1 .. MaxCaches
        BY <1>0, <3>1, BoundsAssumption DEF TypeOK
      <4> QED BY <1>1, <3>1, <4>1, NewBudgeted
    <3> QED BY <2>1, <2>4, <3>1 DEF StoreCreate
  <2> QED BY <2>1, <2>2, <2>3, <2>4 DEF Next, vars, stores, Apply, Tick, Begin, Bypass,
               AdvanceCheck, AdvanceWrite, StoreRead, GetLocked, StaleLocked,
               UpstreamAnswers, UpstreamFails, ExchangeAborts
<1>4. buffered' \in [Requests -> Nat]
  <2>1. CASE UNCHANGED buffered
    BY <1>0, <2>1
  <2>2. ASSUME NEW q \in Requests, Finish(q) PROVE buffered' \in [Requests -> Nat]
    BY <1>0, <2>2 DEF Finish
  <2>3. ASSUME NEW q \in Requests, AfterAdvance(q) PROVE buffered' \in [Requests -> Nat]
    BY <2>1, <2>2, <2>3 DEF AfterAdvance
  <2>4. ASSUME NEW q \in Requests, NoStore(q) PROVE buffered' \in [Requests -> Nat]
    BY <2>1, <2>2, <2>4 DEF NoStore
  <2>5. ASSUME NEW q \in Requests, UpstreamAnswers(q) PROVE buffered' \in [Requests -> Nat]
    BY <1>0, <2>5, SizesAssumption DEF UpstreamAnswers
  <2>6. ASSUME NEW q \in Requests, StoreRead(q) \/ StoreCreate(q)
        PROVE  buffered' \in [Requests -> Nat]
    BY <2>1, <2>4, <2>6 DEF StoreRead, StoreCreate, WithStore
  <2>7. ASSUME NEW q \in Requests, AdvanceCheck(q) \/ AdvanceWrite(q)
        PROVE  buffered' \in [Requests -> Nat]
    BY <2>1, <2>3, <2>7 DEF AdvanceCheck, AdvanceWrite
  <2>8. ASSUME NEW q \in Requests, PutLocked(q) PROVE buffered' \in [Requests -> Nat]
    BY <2>2, <2>8 DEF PutLocked
  <2> QED BY <2>1, <2>5, <2>6, <2>7, <2>8 DEF Next, vars, requests, Apply, Tick, Begin,
               Bypass, GetLocked, MissLocked, StaleLocked, UpstreamFails, ExchangeAborts
<1> QED BY <1>3, <1>4 DEF BudgetInv

\* The account of every location, in the table or retired, equals what it holds and
\* never exceeds proxy_cache_max_size, for any sizes and any order of evictions.
THEOREM Budget == Spec => []BudgetRespected
<1>1. Init => BudgetInv
  <2> SUFFICES ASSUME Init PROVE BudgetInv
    OBVIOUS
  <2>1. \A i \in 1 .. MaxCaches : heap[i] = NewLocationCache
    BY DEF Init
  <2>2. buffered \in [Requests -> Nat]
    BY DEF Init
  <2> QED BY <2>1, <2>2, NewBudgeted DEF BudgetInv
<1>2. Spec => []BudgetInv
  BY <1>1, NextBudget, Invariance, PTL DEF Spec
<1>3. BudgetInv => BudgetRespected
  BY DEF BudgetInv, Budgeted, Accounted, Entries, Counts, BudgetRespected
<1> QED BY <1>2, <1>3, PTL
=============================================================================
