------------------------- MODULE NrfDiscoveryProofs -------------------------
(***************************************************************************)
(* Proofs about NrfDiscovery, for any number of plain and SCP groups and   *)
(* any durations: the window of a result ends what is served from it, a    *)
(* plain group spaces its NRF requests, and where there is room for a pass *)
(* of the loop, no group loses its endpoints for want of a refresh.        *)
(*                                                                         *)
(* The schedule is the argument.  Outside the moment between publication   *)
(* and the update of the schedule, a group that serves something has its   *)
(* window in expires_in; a run leaves next_run_at no later than that; and  *)
(* the loop sleeps no longer than the nearest next_run_at of the groups it *)
(* has visited.                                                            *)
(***************************************************************************)
EXTENDS NrfDiscovery, TLAPS

Places == {"idle", "permit", "request", "preflight", "schedule"}

Types ==
  /\ selection \in [Groups -> SUBSET Endpoints]
  /\ expires_in \in [Groups -> Nat \cup {None}]
  /\ due_in \in [Groups -> Nat]
  /\ failures \in [Groups -> Nat]
  /\ pc \in [Groups -> Places]
  /\ age \in [Groups -> Nat]
  /\ watch \in [Groups -> BOOLEAN]
  /\ result \in [Groups -> [endpoints : SUBSET Endpoints, validity : Nat]]
  /\ todo \in Seq(Plain)
  /\ wake_in \in Nat
  /\ fresh \in [Groups -> Nat]
  /\ recent \in [Groups -> BOOLEAN]

\* A group that serves something has its window in the schedule, or will have it with
\* the next step, and is due before it ends.
Window ==
  \A g \in Groups : selection[g] # {} =>
    /\ pc[g] = "schedule" => fresh[g] = NrfSnapshotExpiry(g, result[g].validity)
    /\ pc[g] # "schedule" => expires_in[g] # None /\ fresh[g] = expires_in[g]
    /\ pc[g] = "idle" => due_in[g] <= expires_in[g]

\* A result that is published has a validity.
Valid ==
  \A g \in Groups : pc[g] \in {"preflight", "schedule"} => result[g].validity > 0

Awaited(g) == \E i \in 1 .. Len(todo) : todo[i] = g

\* The loop runs one plain group at a time, and wakes up before the window of one that
\* it has visited ends.
Loop ==
  \A g \in Plain :
    /\ pc[g] # "idle" => todo # << >> /\ Head(todo) = g
    /\ selection[g] # {} /\ ~Awaited(g) => wake_in <= expires_in[g]

\* A plain group that has sent a request in this second is not due, or has expired.
Spacing ==
  \A g \in Plain :
    /\ pc[g] \in {"idle", "permit"} => age[g] = 0
    /\ recent[g] =>
         /\ age[g] = 0
         /\ pc[g] = "idle" => due_in[g] > 0 \/ Expired(g)
         /\ pc[g] = "permit" => Expired(g)

IInv == Types /\ Window /\ Valid /\ Loop /\ Spacing

-----------------------------------------------------------------------------
(* Durations and the loop's list *)

LEMMA LeastMost ==
  ASSUME NEW x \in Int, NEW y \in Int
  PROVE  /\ Least(x, y) \in {x, y} /\ Least(x, y) <= x /\ Least(x, y) <= y
         /\ Most(x, y) \in {x, y} /\ Most(x, y) >= x /\ Most(x, y) >= y
BY DEF Least, Most

\* What is left of a duration is all of it when the run has taken no time.
LEMMA LeftNat ==
  ASSUME Types, NEW g \in Groups, NEW d \in Nat
  PROVE  Left(d, g) \in Nat /\ (age[g] = 0 => Left(d, g) = d)
<1>1. age[g] \in Nat /\ d - age[g] \in Int
  BY DEF Types
<1>2. Left(d, g) = Most(d - age[g], 0)
  BY DEF Left
<1> QED
  BY <1>1, <1>2 DEF Most

\* A failed run is repeated after a second at least.
LEMMA BackoffPositive ==
  ASSUME NEW f \in 1 .. MaxExponent + 1
  PROVE  Backoff(f) \in Nat \ {0}
<1>0. MaxExponent \in Nat /\ MaxBackoff \in Nat \ {0}
  BY LimitsAssumption
<1>1. Least(f - 1, MaxExponent) \in 0 .. MaxExponent
  BY <1>0 DEF Least
<1>2. PICK p \in Nat \ {0} : p = 2 ^ Least(f - 1, MaxExponent)
  BY <1>1, ShiftAssumption
<1> QED
  BY <1>0, <1>2 DEF Backoff, Least

LEMMA DelayPositive ==
  ASSUME NEW v \in Nat, NEW d \in NrfRefreshDelay(v)
  PROVE  d \in Nat \ {0}
<1>1. PICK p \in Percents : d = Most((v * p) \div 100, 1)
  BY DEF NrfRefreshDelay
<1>2. p \in Nat
  BY DurationsAssumption
<1>3. v * p \in Int
  BY <1>2
<1>4. (v * p) \div 100 \in Int
  BY <1>3
<1> QED
  BY <1>1, <1>4 DEF Most

\* What is behind the head of the list is still to be visited.
LEMMA TailAwaits ==
  ASSUME NEW s \in Seq(Plain), s # << >>, NEW h, h # Head(s),
         NEW i \in 1 .. Len(s), s[i] = h
  PROVE  \E j \in 1 .. Len(Tail(s)) : Tail(s)[j] = h
<1>1. i # 1
  OBVIOUS
<1>2. i - 1 \in 1 .. Len(Tail(s)) /\ Tail(s)[i - 1] = h
  BY <1>1
<1> QED
  BY <1>2

-----------------------------------------------------------------------------
(* A run ends *)

\* A run of g that returns with a schedule that is within the window of what g serves.
LEMMA ReturnInv ==
  ASSUME IInv, NEW g \in Groups, NEW next \in Nat, Return(g, next),
         g \in Plain => todo # << >> /\ Head(todo) = g,
         NEW s \in SUBSET Endpoints, selection' = [selection EXCEPT ![g] = s],
         NEW w \in Nat, fresh' = [fresh EXCEPT ![g] = w],
         NEW e \in Nat \cup {None}, expires_in' = [expires_in EXCEPT ![g] = e],
         due_in' = [due_in EXCEPT ![g] = next],
         failures' \in [Groups -> Nat], recent' = recent,
         s # {} => e # None /\ w = e /\ next <= e,
         g \in Plain /\ recent[g] => next > 0 \/ e = 0
  PROVE  IInv'
<1>1. /\ pc' = [pc EXCEPT ![g] = "idle"] /\ age' = [age EXCEPT ![g] = 0]
      /\ watch' = [watch EXCEPT ![g] = FALSE] /\ result' = [result EXCEPT ![g] = NoResult]
  BY DEF Return
<1>2. \/ g \in Plain /\ todo' = Tail(todo) /\ wake_in' = Least(wake_in, next)
      \/ g \in Scp /\ todo' = todo /\ wake_in' = wake_in
  BY DEF Return, loop
<1>3. todo' \in Seq(Plain) /\ wake_in' \in Nat
  <2>1. todo \in Seq(Plain) /\ wake_in \in Nat
    BY DEF IInv, Types
  <2>2. CASE g \in Plain
    <3>1. todo' = Tail(todo) /\ wake_in' = Least(wake_in, next)
      BY <1>2, <2>2, GroupsAssumption
    <3>2. Tail(todo) \in Seq(Plain)
      BY <2>1, <2>2
    <3> QED
      BY <2>1, <3>1, <3>2 DEF Least
  <2>3. CASE g \in Scp
    BY <1>2, <2>1, <2>3, GroupsAssumption
  <2> QED
    BY <1>2, <2>2, <2>3
<1>4. Types'
  BY <1>1, <1>3 DEF IInv, Types, Places, NoResult
<1>5. Window'
  <2> SUFFICES ASSUME NEW h \in Groups, (selection[h] # {})'
               PROVE  ( /\ pc[h] = "schedule" =>
                              fresh[h] = NrfSnapshotExpiry(h, result[h].validity)
                        /\ pc[h] # "schedule" =>
                              expires_in[h] # None /\ fresh[h] = expires_in[h]
                        /\ pc[h] = "idle" => due_in[h] <= expires_in[h] )'
    BY DEF Window
  <2>1. CASE h = g
    BY <1>1, <2>1 DEF IInv, Types
  <2>2. CASE h # g
    BY <1>1, <2>2 DEF IInv, Types, Window, NrfSnapshotExpiry, Left
  <2> QED
    BY <2>1, <2>2
<1>6. Valid'
  BY <1>1 DEF IInv, Types, Valid
<1>7. Loop'
  <2> SUFFICES ASSUME NEW h \in Plain
               PROVE  ( /\ pc[h] # "idle" => todo # << >> /\ Head(todo) = h
                        /\ selection[h] # {} /\ ~Awaited(h) => wake_in <= expires_in[h] )'
    BY DEF Loop
  <2>0. h \in Groups /\ todo \in Seq(Plain) /\ wake_in \in Nat
    BY DEF Groups, IInv, Types
  <2>1. CASE h = g
    <3>1. todo' = Tail(todo) /\ wake_in' = Least(wake_in, next)
      BY <1>2, <2>1, GroupsAssumption
    <3>2. pc'[h] = "idle"
      BY <1>1, <2>0, <2>1 DEF IInv, Types
    <3>3. selection'[h] = s /\ expires_in'[h] = e
      BY <2>0, <2>1 DEF IInv, Types
    <3>4. wake_in' <= next /\ wake_in' \in Nat
      BY <2>0, <3>1, LeastMost
    <3> QED
      BY <3>2, <3>3, <3>4
  <2>2. CASE h # g
    <3>1. pc'[h] = pc[h] /\ selection'[h] = selection[h] /\ expires_in'[h] = expires_in[h]
      BY <1>1, <2>0, <2>2 DEF IInv, Types
    <3>2. CASE g \in Plain
      <4>1. todo' = Tail(todo) /\ wake_in' <= wake_in /\ wake_in' \in Nat
        BY <1>2, <2>0, <3>2, GroupsAssumption, LeastMost
      <4>2. pc[h] = "idle"
        BY <2>2, <3>2 DEF IInv, Loop
      <4>3. Awaited(h) => Awaited(h)'
        BY <2>0, <2>2, <3>2, <4>1, TailAwaits DEF Awaited
      <4>4. selection[h] # {} => expires_in[h] \in Nat
        BY <2>0, <4>2 DEF IInv, Window, Types
      <4> QED
        BY <2>0, <3>1, <4>1, <4>2, <4>3, <4>4 DEF IInv, Loop
    <3>3. CASE g \in Scp
      BY <1>2, <3>1, <3>3, GroupsAssumption DEF IInv, Loop, Awaited
    <3> QED
      BY <1>2, <3>2, <3>3
  <2> QED
    BY <2>1, <2>2
<1>8. Spacing'
  <2> SUFFICES ASSUME NEW h \in Plain
               PROVE  ( /\ pc[h] \in {"idle", "permit"} => age[h] = 0
                        /\ recent[h] =>
                             /\ age[h] = 0
                             /\ pc[h] = "idle" => due_in[h] > 0 \/ Expired(h)
                             /\ pc[h] = "permit" => Expired(h) )'
    BY DEF Spacing
  <2>0. h \in Groups
    BY DEF Groups
  <2>1. CASE h = g
    BY <1>1, <2>0, <2>1 DEF IInv, Types, Expired
  <2>2. CASE h # g
    BY <1>1, <2>0, <2>2 DEF IInv, Types, Expired, Spacing
  <2> QED
    BY <2>1, <2>2
<1> QED
  BY <1>4, <1>5, <1>6, <1>7, <1>8 DEF IInv

\* Whoever runs is at the head of the loop's list.
LEMMA AtHead ==
  ASSUME IInv, NEW g \in Groups, pc[g] # "idle" \/ CanBegin(g)
  PROVE  g \in Plain => todo # << >> /\ Head(todo) = g
BY DEF IInv, Loop, CanBegin

\* A run that is not due returns its next_run_at, without what has expired.
LEMMA BeginNotDueInv ==
  ASSUME IInv, NEW g \in Groups, BeginNotDue(g) PROVE IInv'
<1>0. /\ pc[g] = "idle" /\ due_in[g] \in Nat /\ due_in[g] > 0
      /\ selection[g] \in SUBSET Endpoints /\ fresh[g] \in Nat
      /\ expires_in[g] \in Nat \cup {None}
  BY DEF BeginNotDue, CanBegin, IInv, Types
<1>1. g \in Plain => todo # << >> /\ Head(todo) = g
  BY AtHead DEF BeginNotDue
<1>2. /\ Return(g, due_in[g]) /\ failures' \in [Groups -> Nat] /\ recent' = recent
      /\ expires_in' = [expires_in EXCEPT ![g] = expires_in[g]]
      /\ due_in' = [due_in EXCEPT ![g] = due_in[g]]
  BY DEF BeginNotDue, schedule, IInv, Types
<1>3. CASE Expired(g)
  <2>1. /\ selection' = [selection EXCEPT ![g] = {}] /\ fresh' = [fresh EXCEPT ![g] = 0]
    BY <1>3 DEF BeginNotDue, DropIfExpired, ExpireSnapshot, Publish
  <2> QED
    BY <1>0, <1>1, <1>2, <2>1, ReturnInv
<1>4. CASE ~Expired(g)
  <2>1. /\ selection' = [selection EXCEPT ![g] = selection[g]]
        /\ fresh' = [fresh EXCEPT ![g] = fresh[g]]
    BY <1>4 DEF BeginNotDue, DropIfExpired, KeepSnapshot, IInv, Types
  <2>2. selection[g] # {} => /\ expires_in[g] # None /\ fresh[g] = expires_in[g]
                             /\ due_in[g] <= expires_in[g]
    BY <1>0 DEF IInv, Window
  <2> QED
    BY <1>0, <1>1, <1>2, <2>1, <2>2, ReturnInv
<1> QED
  BY <1>3, <1>4

\* record_failure plans the retry, no later than the end of the window.
LEMMA RecordFailureInv ==
  ASSUME IInv, NEW g \in Groups, pc[g] \in {"request", "preflight"}, RecordFailure(g)
  PROVE  IInv'
<1> DEFINE f == Least(failures[g] + 1, MaxExponent + 1)
           next == NrfFailureRetry(g, f)
<1>0. /\ failures[g] \in Nat /\ selection[g] \in SUBSET Endpoints /\ fresh[g] \in Nat
      /\ expires_in[g] \in Nat \cup {None} /\ MaxExponent \in Nat
  BY LimitsAssumption DEF IInv, Types
<1>1. f \in 1 .. MaxExponent + 1
  BY <1>0 DEF Least
<1>2. PICK b \in Nat \ {0} : b = Backoff(f)
  BY <1>1, BackoffPositive
<1>3. Left(b, g) \in Nat /\ (age[g] = 0 => Left(b, g) = b)
  BY LeftNat DEF IInv
<1>4. next = IF expires_in[g] = None THEN Left(b, g) ELSE Least(Left(b, g), expires_in[g])
  BY <1>2 DEF NrfFailureRetry
<1>5. /\ next \in Nat
      /\ expires_in[g] # None => next <= expires_in[g]
      /\ age[g] = 0 => next > 0 \/ expires_in[g] = 0
  BY <1>0, <1>3, <1>4, NoneAssumption DEF Least
<1>6. g \in Plain => todo # << >> /\ Head(todo) = g
  BY AtHead
<1>7. /\ Return(g, next) /\ recent' = recent
      /\ failures' = [failures EXCEPT ![g] = f]
      /\ due_in' = [due_in EXCEPT ![g] = next]
      /\ expires_in' = [expires_in EXCEPT ![g] = expires_in[g]]
  BY DEF RecordFailure, IInv, Types
<1>8. failures' \in [Groups -> Nat]
  BY <1>1, <1>7 DEF IInv, Types
<1>9. g \in Plain /\ recent[g] => next > 0 \/ expires_in[g] = 0
  BY <1>5 DEF IInv, Spacing
<1> HIDE DEF f, next
<1>10. CASE expires_in[g] # None /\ ~watch[g]
  <2>1. selection' = [selection EXCEPT ![g] = {}] /\ fresh' = [fresh EXCEPT ![g] = 0]
    BY <1>10 DEF RecordFailure, ExpireSnapshot, Publish
  <2> QED
    BY <1>0, <1>5, <1>6, <1>7, <1>8, <1>9, <2>1, ReturnInv
<1>11. CASE ~(expires_in[g] # None /\ ~watch[g])
  <2>1. /\ selection' = [selection EXCEPT ![g] = selection[g]]
        /\ fresh' = [fresh EXCEPT ![g] = fresh[g]]
    BY <1>11 DEF RecordFailure, KeepSnapshot, IInv, Types
  <2>2. selection[g] # {} => expires_in[g] # None /\ fresh[g] = expires_in[g]
    BY DEF IInv, Window
  <2> QED
    BY <1>0, <1>5, <1>6, <1>7, <1>8, <1>9, <2>1, <2>2, ReturnInv
<1> QED
  BY <1>10, <1>11

\* The schedule of a result describes the window of the endpoints it published.
LEMMA ScheduleInv ==
  ASSUME IInv, NEW g \in Groups, Schedule(g) PROVE IInv'
<1> DEFINE expiry == NrfSnapshotExpiry(g, result[g].validity)
<1>0. /\ selection[g] \in SUBSET Endpoints /\ fresh[g] \in Nat /\ pc[g] = "schedule"
      /\ result[g].validity \in Nat \ {0} /\ StaleIfError \in Nat
  BY DurationsAssumption DEF Schedule, IInv, Types, Valid
<1>1. expiry \in Nat /\ (age[g] = 0 => expiry > 0)
  <2>1. result[g].validity + StaleIfError \in Nat \ {0}
    BY <1>0
  <2> QED
    BY <2>1, LeftNat DEF NrfSnapshotExpiry, IInv
<1>2. PICK delay \in NrfRefreshDelay(result[g].validity) :
        /\ due_in' = [due_in EXCEPT ![g] = Least(Left(delay, g), expiry)]
        /\ expires_in' = [expires_in EXCEPT ![g] = expiry]
        /\ Return(g, Least(Left(delay, g), expiry))
  BY DEF Schedule
<1>3. delay \in Nat \ {0}
  BY <1>0, DelayPositive
<1>4. Left(delay, g) \in Nat /\ (age[g] = 0 => Left(delay, g) = delay)
  BY <1>3, LeftNat DEF IInv
<1>5. PICK next \in Nat : next = Least(Left(delay, g), expiry)
  BY <1>1, <1>4 DEF Least
<1>6. next <= expiry /\ (age[g] = 0 => next > 0)
  BY <1>1, <1>3, <1>4, <1>5 DEF Least
<1>7. selection[g] # {} => fresh[g] = expiry
  BY <1>0 DEF IInv, Window
<1>8. /\ selection' = [selection EXCEPT ![g] = selection[g]]
      /\ fresh' = [fresh EXCEPT ![g] = fresh[g]] /\ recent' = recent
      /\ failures' \in [Groups -> Nat]
  BY DEF Schedule, IInv, Types
<1>9. g \in Plain => todo # << >> /\ Head(todo) = g
  BY <1>0, AtHead
<1>10. g \in Plain /\ recent[g] => next > 0 \/ expiry = 0
  BY <1>6 DEF IInv, Spacing
<1>11. expiry # None
  BY <1>1, NoneAssumption
<1> HIDE DEF expiry
<1> QED
  BY <1>0, <1>1, <1>2, <1>5, <1>6, <1>7, <1>8, <1>9, <1>10, <1>11, ReturnInv

-----------------------------------------------------------------------------
(* A run is under way *)

\* What a step of g leaves of the other groups.
OthersKept(g) ==
  \A h \in Groups \ {g} :
    /\ selection'[h] = selection[h] /\ fresh'[h] = fresh[h]
    /\ expires_in'[h] = expires_in[h] /\ due_in'[h] = due_in[h]
    /\ pc'[h] = pc[h] /\ age'[h] = age[h]
    /\ result'[h] = result[h] /\ recent'[h] = recent[h]

\* A step of a run of g that does not end it, and what it has to see to: what g serves
\* afterwards has a window.
LEMMA MoveInv ==
  ASSUME IInv, Types', NEW g \in Groups, OthersKept(g),
         pc[g] # "idle" \/ CanBegin(g), pc'[g] # "idle",
         age' = age, expires_in' = expires_in, todo' = todo, wake_in' = wake_in,
         pc'[g] \in {"preflight", "schedule"} => result'[g].validity > 0,
         selection'[g] # {} /\ pc'[g] = "schedule" =>
           fresh'[g] = NrfSnapshotExpiry(g, result'[g].validity),
         selection'[g] # {} /\ pc'[g] # "schedule" =>
           expires_in[g] # None /\ fresh'[g] = expires_in[g],
         g \in Plain /\ pc'[g] = "permit" => age[g] = 0 /\ (recent'[g] => Expired(g)),
         g \in Plain /\ recent'[g] => age[g] = 0
  PROVE  IInv'
<1>2. Window'
  <2> SUFFICES ASSUME NEW h \in Groups, (selection[h] # {})'
               PROVE  ( /\ pc[h] = "schedule" =>
                              fresh[h] = NrfSnapshotExpiry(h, result[h].validity)
                        /\ pc[h] # "schedule" =>
                              expires_in[h] # None /\ fresh[h] = expires_in[h]
                        /\ pc[h] = "idle" => due_in[h] <= expires_in[h] )'
    BY DEF Window
  <2>1. CASE h = g
    BY <2>1 DEF NrfSnapshotExpiry, Left
  <2>2. CASE h # g
    BY <2>2 DEF OthersKept, IInv, Window, NrfSnapshotExpiry, Left
  <2> QED
    BY <2>1, <2>2
<1>3. Valid'
  BY DEF OthersKept, IInv, Valid
<1>4. Loop'
  <2> SUFFICES ASSUME NEW h \in Plain
               PROVE  ( /\ pc[h] # "idle" => todo # << >> /\ Head(todo) = h
                        /\ selection[h] # {} /\ ~Awaited(h) => wake_in <= expires_in[h] )'
    BY DEF Loop
  <2>0. h \in Groups
    BY DEF Groups
  <2>1. CASE h = g
    <3>1. todo \in Seq(Plain) /\ todo # << >> /\ Head(todo) = h
      BY <2>1, AtHead DEF IInv, Types
    <3>2. 1 \in 1 .. Len(todo) /\ todo[1] = h
      BY <3>1
    <3> QED
      BY <3>1, <3>2 DEF Awaited
  <2>2. CASE h # g
    BY <2>0, <2>2 DEF OthersKept, IInv, Loop, Awaited
  <2> QED
    BY <2>1, <2>2
<1>5. Spacing'
  <2> SUFFICES ASSUME NEW h \in Plain
               PROVE  ( /\ pc[h] \in {"idle", "permit"} => age[h] = 0
                        /\ recent[h] =>
                             /\ age[h] = 0
                             /\ pc[h] = "idle" => due_in[h] > 0 \/ Expired(h)
                             /\ pc[h] = "permit" => Expired(h) )'
    BY DEF Spacing
  <2>0. h \in Groups
    BY DEF Groups
  <2>1. CASE h = g
    BY <2>0, <2>1 DEF Expired
  <2>2. CASE h # g
    BY <2>0, <2>2 DEF OthersKept, IInv, Expired, Spacing
  <2> QED
    BY <2>1, <2>2
<1> QED
  BY <1>2, <1>3, <1>4, <1>5 DEF IInv

\* A group that is due drops what has expired and begins a run.
LEMMA BeginDueInv ==
  ASSUME IInv, NEW g \in Groups, BeginDue(g) PROVE IInv'
<1> USE DEF BeginDue, DropIfExpired, ExpireSnapshot, Publish, KeepSnapshot, schedule, loop
<1>0. pc[g] = "idle" /\ pc'[g] = "permit" /\ due_in[g] = 0
  BY DEF CanBegin, IInv, Types
<1>1. Types'
  BY DEF IInv, Types, Places
<1>2. OthersKept(g)
  BY DEF IInv, Types, OthersKept
<1>3. g \in Plain => age[g] = 0 /\ (recent'[g] => Expired(g))
  BY <1>0 DEF IInv, Spacing
<1>4. selection'[g] # {} => expires_in[g] # None /\ fresh'[g] = expires_in[g]
  BY <1>0 DEF IInv, Types, Window
<1>5. age' = age /\ expires_in' = expires_in /\ todo' = todo /\ wake_in' = wake_in
  OBVIOUS
<1> QED
  BY <1>0, <1>1, <1>2, <1>3, <1>4, <1>5, MoveInv

\* A request is sent; the one before it was sent in an earlier second.
LEMMA SendInv ==
  ASSUME IInv, NEW g \in Groups, Send(g) PROVE IInv'
<1> USE DEF Send, loop
<1>0. pc[g] = "permit" /\ pc'[g] = "request"
  BY DEF CanSend, IInv, Types
<1>1. Types'
  <2>1. Left(1, g) \in Nat
    BY LeftNat DEF IInv
  <2> QED
    BY <2>1 DEF IInv, Types, Places
<1>2. OthersKept(g)
  BY DEF IInv, Types, OthersKept
<1>3. g \in Plain => age[g] = 0
  BY <1>0 DEF IInv, Spacing
<1>4. selection'[g] # {} => expires_in[g] # None /\ fresh'[g] = expires_in[g]
  BY <1>0 DEF IInv, Window
<1>5. age' = age /\ expires_in' = expires_in /\ todo' = todo /\ wake_in' = wake_in
  OBVIOUS
<1> QED
  BY <1>0, <1>1, <1>2, <1>3, <1>4, <1>5, MoveInv

\* The result of a request has a validity.
LEMMA AnswerInv ==
  ASSUME IInv, NEW g \in Groups, Answer(g) PROVE IInv'
<1> USE DEF Answer, schedule, loop
<1>0. pc[g] = "request" /\ pc'[g] = "preflight"
  BY DEF IInv, Types
<1>1. PICK r \in Results : result' = [result EXCEPT ![g] = r]
  OBVIOUS
<1>2. r \in [endpoints : SUBSET Endpoints, validity : Nat] /\ r.validity > 0
  <2>1. r \in [endpoints : SUBSET Endpoints, validity : Validities]
    BY DEF Results
  <2>2. Validities \subseteq Nat \ {0}
    BY DurationsAssumption
  <2>3. /\ r = [endpoints |-> r.endpoints, validity |-> r.validity]
        /\ r.endpoints \in SUBSET Endpoints /\ r.validity \in Validities
    BY <2>1
  <2> QED
    BY <2>2, <2>3
<1>3. Types' /\ result'[g] = r
  BY <1>1, <1>2 DEF IInv, Types, Places
<1>4. OthersKept(g)
  BY <1>1 DEF IInv, Types, OthersKept
<1>5. g \in Plain /\ recent'[g] => age[g] = 0
  BY DEF IInv, Spacing
<1>6. selection'[g] # {} => expires_in[g] # None /\ fresh'[g] = expires_in[g]
  BY <1>0 DEF IInv, Window
<1>7. age' = age /\ expires_in' = expires_in /\ todo' = todo /\ wake_in' = wake_in
  OBVIOUS
<1> QED
  BY <1>0, <1>2, <1>3, <1>4, <1>5, <1>6, <1>7, MoveInv

\* A snapshot that expires during a request is dropped.
LEMMA ExpireWhileWaitingInv ==
  ASSUME IInv, NEW g \in Groups, ExpireWhileWaiting(g) PROVE IInv'
<1> USE DEF ExpireWhileWaiting, ExpireSnapshot, Publish, schedule, run, loop
<1>0. pc[g] = "request" /\ pc'[g] = "request" /\ selection'[g] = {}
  BY DEF IInv, Types
<1>1. Types'
  BY DEF IInv, Types
<1>2. OthersKept(g)
  BY DEF IInv, Types, OthersKept
<1>3. g \in Plain /\ recent'[g] => age[g] = 0
  BY DEF IInv, Spacing
<1>4. age' = age /\ expires_in' = expires_in /\ todo' = todo /\ wake_in' = wake_in
  OBVIOUS
<1> QED
  BY <1>0, <1>1, <1>2, <1>3, <1>4, MoveInv

\* The endpoints that are published have the window of their result.
LEMMA PublishBackendsInv ==
  ASSUME IInv, NEW g \in Groups, PublishBackends(g) PROVE IInv'
<1> USE DEF PublishBackends, Publish, schedule, loop
<1>0. pc[g] = "preflight" /\ pc'[g] = "schedule" /\ result' = result
      /\ result[g].validity > 0 /\ result[g].validity \in Nat
  BY DEF IInv, Types, Valid
<1>1. PICK ready \in SUBSET result[g].endpoints :
        /\ selection' = [selection EXCEPT ![g] = ready]
        /\ fresh' = [fresh EXCEPT ![g] = IF ready = {} THEN 0
                                ELSE NrfSnapshotExpiry(g, result[g].validity)]
  OBVIOUS
<1>2. NrfSnapshotExpiry(g, result[g].validity) \in Nat
  <2>1. result[g].validity + StaleIfError \in Nat
    BY <1>0, DurationsAssumption
  <2> QED
    BY <2>1, LeftNat DEF NrfSnapshotExpiry, IInv
<1>3. Types'
  BY <1>1, <1>2 DEF IInv, Types, Places
<1>4. OthersKept(g)
  BY <1>1 DEF IInv, Types, OthersKept
<1>5. g \in Plain /\ recent'[g] => age[g] = 0
  BY DEF IInv, Spacing
<1>6. selection'[g] # {} => fresh'[g] = NrfSnapshotExpiry(g, result[g].validity)
  BY <1>1 DEF IInv, Types
<1>7. age' = age /\ expires_in' = expires_in /\ todo' = todo /\ wake_in' = wake_in
  OBVIOUS
<1> QED
  BY <1>0, <1>3, <1>4, <1>5, <1>6, <1>7, MoveInv

-----------------------------------------------------------------------------
(* The loop and the clock *)

\* A pass begins: every plain group is awaited.
LEMMA WakeInv == ASSUME IInv, Wake PROVE IInv'
<1>1. todo' = Order /\ wake_in' = RefreshInterval /\ todo = << >>
  BY DEF Wake
<1>2. UNCHANGED <<selection, expires_in, due_in, failures, pc, age, watch, result, fresh,
                  recent>>
  BY DEF Wake, schedule, run
<1>3. Types'
  BY <1>1, <1>2, OrderAssumption, DurationsAssumption DEF IInv, Types, Plain
<1>4. Loop'
  BY <1>1, <1>2 DEF IInv, Loop, Awaited, Plain
<1> QED
  BY <1>2, <1>3, <1>4 DEF IInv, Window, Valid, Spacing, Expired, NrfSnapshotExpiry, Left

\* Time passes: what is left of windows, of schedules and of the loop's sleep shrinks
\* alike, and no step that is due is overtaken.
LEMMA TickInv == ASSUME IInv, Tick PROVE IInv'
<1>1. /\ UNCHANGED <<selection, failures, pc, watch, result, todo>>
      /\ recent' = [g \in Groups |-> FALSE]
      /\ wake_in' = Most(wake_in - 1, 0)
  BY DEF Tick
<1>2. ASSUME NEW g \in Groups
      PROVE  /\ expires_in'[g] = IF expires_in[g] = None THEN None
                                 ELSE Most(expires_in[g] - 1, 0)
             /\ due_in'[g] = Most(due_in[g] - 1, 0)
             /\ fresh'[g] = Most(fresh[g] - 1, 0)
             /\ age'[g] = IF pc[g] = "idle" THEN 0 ELSE age[g] + 1
  BY DEF Tick, Down
<1>3. ASSUME NEW g \in Groups
      PROVE  pc[g] # "schedule" /\ (g \in Plain => pc[g] # "permit")
  BY GroupsAssumption DEF Tick, Urgent, CanSend
<1>4. Types'
  <2>1. \A n \in Nat : Most(n - 1, 0) \in Nat
    BY DEF Most
  <2>2. wake_in' \in Nat /\ recent' \in [Groups -> BOOLEAN]
    BY <1>1, <2>1 DEF IInv, Types
  <2>3. expires_in' \in [Groups -> Nat \cup {None}]
    BY <2>1 DEF Tick, IInv, Types
  <2>4. due_in' \in [Groups -> Nat] /\ fresh' \in [Groups -> Nat] /\ age' \in [Groups -> Nat]
    BY <2>1 DEF Tick, Down, IInv, Types
  <2> QED
    BY <1>1, <2>2, <2>3, <2>4 DEF IInv, Types
<1>5. Window'
  <2> SUFFICES ASSUME NEW g \in Groups, selection[g] # {}
               PROVE  /\ expires_in'[g] # None /\ fresh'[g] = expires_in'[g]
                      /\ pc[g] = "idle" => due_in'[g] <= expires_in'[g]
    BY <1>1, <1>3 DEF Window
  <2>1. /\ expires_in[g] # None /\ fresh[g] = expires_in[g]
        /\ pc[g] = "idle" => due_in[g] <= expires_in[g]
    BY <1>3 DEF IInv, Window
  <2>2. expires_in[g] \in Nat /\ due_in[g] \in Nat
    BY <2>1 DEF IInv, Types
  <2> QED
    BY <1>2, <2>1, <2>2, NoneAssumption DEF Most
<1>6. Loop'
  <2> SUFFICES ASSUME NEW g \in Plain
               PROVE  ( /\ pc[g] # "idle" => todo # << >> /\ Head(todo) = g
                        /\ selection[g] # {} /\ ~Awaited(g) => wake_in <= expires_in[g] )'
    BY DEF Loop
  <2>0. g \in Groups /\ wake_in \in Nat
    BY DEF Groups, IInv, Types
  <2>1. selection[g] # {} => expires_in[g] \in Nat /\ expires_in[g] # None
    BY <1>3, <2>0 DEF IInv, Window, Types
  <2> QED
    BY <1>1, <1>2, <2>0, <2>1 DEF IInv, Loop, Awaited, Most
<1>7. Valid' /\ Spacing'
  BY <1>1, <1>2, <1>3 DEF IInv, Types, Valid, Spacing, Groups
<1> QED
  BY <1>4, <1>5, <1>6, <1>7 DEF IInv

\* Nothing is scheduled, served or under way.
LEMMA InitInv == Init => IInv
BY DEF Init, IInv, Types, Places, NoResult, Window, Valid, Loop, Awaited, Spacing, Groups

\* Every step of every group, of the loop and of the clock keeps the schedule honest.
LEMMA NextInv == IInv /\ [Next]_vars => IInv'
<1> SUFFICES ASSUME IInv, [Next]_vars PROVE IInv'
  OBVIOUS
<1>1. CASE Tick
  BY <1>1, TickInv
<1>2. CASE Wake
  BY <1>2, WakeInv
<1>3. CASE Outage \/ UNCHANGED vars
  <2>1. UNCHANGED <<selection, schedule, run, loop, fresh, recent>>
    BY <1>3 DEF Outage, vars
  <2>2. Types' /\ Valid'
    BY <2>1 DEF schedule, run, loop, IInv, Types, Valid
  <2>3. Window'
    BY <2>1 DEF schedule, run, loop, IInv, Window, NrfSnapshotExpiry, Left
  <2>4. Loop'
    BY <2>1 DEF schedule, run, loop, IInv, Loop, Awaited
  <2>5. Spacing'
    BY <2>1 DEF schedule, run, loop, IInv, Spacing, Expired
  <2> QED
    BY <2>2, <2>3, <2>4, <2>5 DEF IInv
<1>4. ASSUME NEW g \in Groups, BeginNotDue(g) \/ BeginDue(g) \/ Send(g) PROVE IInv'
  BY <1>4, BeginNotDueInv, BeginDueInv, SendInv
<1>5. ASSUME NEW g \in Groups, Answer(g) \/ AnswerFails(g) \/ ExpireWhileWaiting(g) PROVE IInv'
  BY <1>5, AnswerInv, RecordFailureInv, ExpireWhileWaitingInv DEF AnswerFails
<1>6. ASSUME NEW g \in Groups, PublishBackends(g) \/ PublishFails(g) \/ Schedule(g) PROVE IInv'
  BY <1>6, PublishBackendsInv, RecordFailureInv, ScheduleInv DEF PublishFails
<1> QED
  BY <1>1, <1>2, <1>3, <1>4, <1>5, <1>6 DEF Next

\* The inductive invariant of discovery: windows, schedules and the loop's sleep agree,
\* for any groups, durations and outages.
THEOREM Invariance == Spec => []IInv
BY InitInv, NextInv, PTL DEF Spec

\* "After full expiry, selection fails closed until discovery succeeds again": nothing is
\* served beyond its window, by an SCP group at any time, by a plain group while the loop
\* sleeps, for any number of groups, validities, timeouts and outages.
THEOREM WindowTheorem == Spec => []WindowEnforced
<1>1. IInv => ScpFailsClosed
  <2> SUFFICES ASSUME IInv, NEW g \in Scp, ScpSelect(g), pc[g] # "schedule"
               PROVE  fresh[g] > 0
    BY DEF ScpFailsClosed
  <2>1. g \in Groups /\ selection[g] # {} /\ expires_in[g] # None /\ expires_in[g] # 0
    BY DEF ScpSelect, ScpStatus, Expired, Groups
  <2>2. fresh[g] = expires_in[g] /\ fresh[g] \in Nat
    BY <2>1 DEF IInv, Window, Types
  <2> QED
    BY <2>1, <2>2
<1>2. IInv => SleepLeavesNoStale
  <2> SUFFICES ASSUME IInv, todo = << >>, ~Urgent, NEW g \in Plain, Select(g)
               PROVE  fresh[g] > 0
    BY DEF SleepLeavesNoStale
  <2>1. g \in Groups /\ wake_in \in Nat /\ wake_in # 0 /\ fresh[g] \in Nat
    BY DEF Urgent, IInv, Types, Groups
  <2>2. pc[g] = "idle" /\ selection[g] # {} /\ ~Awaited(g)
    BY DEF IInv, Loop, Select, Awaited
  <2>3. wake_in <= expires_in[g] /\ fresh[g] = expires_in[g]
    BY <2>1, <2>2 DEF IInv, Loop, Window
  <2> QED
    BY <2>1, <2>3
<1> QED
  BY <1>1, <1>2, Invariance, PTL DEF WindowEnforced

\* However requests fail and results arrive, a plain group sends one NRF request a second
\* at most, until what it serves has expired.
THEOREM SpacingTheorem == Spec => RequestsSpaced
<1>1. IInv /\ [Next]_vars =>
        [\A g \in Plain : pc[g] = "permit" /\ pc'[g] = "request" =>
           ~recent[g] \/ Expired(g)]_vars
  BY DEF IInv, Spacing
<1> QED
  BY <1>1, Invariance, PTL DEF Spec, RequestsSpaced

-----------------------------------------------------------------------------
(* A refresh in time *)

\* The longest that one group can keep the loop.
RunTime == Timeout + PreflightTime

\* From the moment a group is due, the longest until its request is answered: the loop
\* first visits every other group.
Room == Timeout + (Len(Order) - 1) * RunTime

\* What remains of a result when its refresh is due is enough for a pass of the loop, also
\* if the run that obtained it took all its time.
RoomForPass ==
  \A v \in Validities :
    /\ v + StaleIfError > Room + RunTime
    /\ \A delay \in NrfRefreshDelay(v) : v + StaleIfError > delay + Room

\* A run of a plain group keeps to its timeouts.
WithinLimits(g) ==
  /\ pc[g] = "request" => age[g] + left[g] <= Timeout
  /\ pc[g] = "preflight" => age[g] + left[g] <= RunTime
  /\ pc[g] = "schedule" => age[g] <= RunTime
  /\ pc[g] \in {"preflight", "schedule"} => result[g].validity \in Validities
Timers == left \in [Groups -> Nat] /\ \A g \in Plain : WithinLimits(g)

\* The loop's list is the end of the order.
EndOfOrder(list) ==
  /\ Len(list) <= Len(Order)
  /\ \A i \in 1 .. Len(list) : list[i] = Order[Len(Order) - Len(list) + i]

\* The loop wakes up for every group that it has visited.
Wakeful == \A g \in Plain : ~Awaited(g) => wake_in <= due_in[g]

\* The time that the visit under way has taken, and the number n of visits, this one
\* included, that come before a visit of g, in this pass or the next.
Spent == IF todo = << >> THEN 0 ELSE age[Head(todo)]
VisitAfter(list, g, n) ==
  \/ n + 1 \in 1 .. Len(list) /\ list[n + 1] = g
  \/ \E k \in 1 .. Len(Order) : Order[k] = g /\ n = Len(list) + k - 1

\* The endpoints of g come from a refresh that has not failed since.
Served(g) == selection[g] # {} /\ failures[g] = 0

\* The window of such endpoints lasts until the next request is answered.
InTime(g) ==
  /\ pc[g] = "idle" /\ due_in[g] > 0 => expires_in[g] > due_in[g] + Room
  /\ pc[g] = "idle" /\ due_in[g] = 0 =>
       \E n \in Nat : VisitAfter(todo, g, n) /\ expires_in[g] + Spent > Timeout + n * RunTime
  /\ pc[g] = "permit" => expires_in[g] > Timeout
  /\ pc[g] = "request" => expires_in[g] > left[g]

PassInv == Timers /\ EndOfOrder(todo) /\ Wakeful /\ \A g \in Plain : Served(g) => InTime(g)

\* Products of a number of visits and the time of one.
LEMMA OneVisitLess ==
  ASSUME NEW n \in Nat, n > 0, NEW r \in Nat
  PROVE  n * r \in Nat /\ n - 1 \in Nat /\ (n - 1) * r \in Nat /\ n * r = (n - 1) * r + r
OBVIOUS

LEMMA VisitsMonotone ==
  ASSUME NEW n \in Nat, NEW m \in Nat, n <= m, NEW r \in Nat
  PROVE  n * r \in Nat /\ m * r \in Nat /\ n * r <= m * r
OBVIOUS

LEMMA Lengths ==
  /\ Order \in Seq(Plain) /\ Len(Order) \in Nat
  /\ Timeout \in Nat /\ PreflightTime \in Nat /\ RunTime \in Nat
BY OrderAssumption, DurationsAssumption DEF RunTime

\* A plain group is visited within a pass.
LEMMA VisitedSoon ==
  ASSUME NEW list \in Seq(Plain), EndOfOrder(list), NEW g \in Plain
  PROVE  \E n \in Nat : n <= Len(Order) - 1 /\ VisitAfter(list, g, n)
<1>1. PICK k \in 1 .. Len(Order) : Order[k] = g
  BY DEF Plain
<1>2. PICK l \in Nat, t \in Nat : l = Len(Order) /\ t = Len(list)
  BY Lengths
<1>3. CASE k <= l - t
  <2>1. t + k - 1 \in Nat /\ t + k - 1 <= l - 1
    BY <1>2, <1>3
  <2>2. VisitAfter(list, g, t + k - 1)
    BY <1>1, <1>2 DEF VisitAfter
  <2> QED BY <1>2, <2>1, <2>2
<1>4. CASE k > l - t
  <2>1. /\ k - (l - t) \in 1 .. t /\ k - (l - t) - 1 \in Nat /\ k - (l - t) - 1 <= l - 1
        /\ k = l - t + (k - (l - t)) /\ (k - (l - t) - 1) + 1 = k - (l - t)
    BY <1>2, <1>4 DEF EndOfOrder
  <2>2. list[k - (l - t)] = Order[l - t + (k - (l - t))]
    BY <1>2, <2>1, Zenon DEF EndOfOrder
  <2>3. VisitAfter(list, g, k - (l - t) - 1)
    BY <1>1, <1>2, <2>1, <2>2, Zenon DEF VisitAfter
  <2> QED BY <1>2, <2>1, <2>3
<1> QED BY <1>2, <1>3, <1>4

\* A group that has become due is in time if there is room for a pass.
LEMMA DueInTime ==
  ASSUME NEW list \in Seq(Plain), EndOfOrder(list), NEW g \in Plain,
         NEW e \in Nat, NEW s \in Nat, e > Room
  PROVE  \E n \in Nat : VisitAfter(list, g, n) /\ e + s > Timeout + n * RunTime
<1>1. PICK n \in Nat : n <= Len(Order) - 1 /\ VisitAfter(list, g, n)
  BY VisitedSoon
<1>2. PICK m \in Nat : m = Len(Order) - 1
  <2>1. PICK l \in Nat : l = Len(Order)
    BY Lengths
  <2>2. l - 1 \in Nat
    BY <1>1, <2>1
  <2> QED BY <2>1, <2>2
<1>3. n * RunTime <= m * RunTime /\ n * RunTime \in Nat /\ m * RunTime \in Nat
  BY <1>1, <1>2, Lengths, VisitsMonotone
<1>4. Room = Timeout + m * RunTime
  BY <1>2 DEF Room
<1>5. PICK p \in Nat, q \in Nat : p = n * RunTime /\ q = m * RunTime /\ p <= q
  BY <1>3
<1>6. e + s > Timeout + p
  <2>1. e > Timeout + q
    BY <1>4, <1>5, Zenon
  <2>2. Timeout \in Nat
    BY Lengths
  <2> QED BY <1>5, <2>1, <2>2
<1> QED BY <1>1, <1>5, <1>6

LEMMA RoomInt == Room \in Int
<1>1. PICK l \in Int, r \in Int : l = Len(Order) - 1 /\ r = RunTime
  BY Lengths
<1>2. l * r \in Int
  BY <1>1
<1> QED BY <1>1, <1>2, Lengths DEF Room

\* What a step of g leaves of the other plain groups.
PlainKept(g) ==
  \A h \in Plain \ {g} :
    /\ selection'[h] = selection[h] /\ failures'[h] = failures[h]
    /\ expires_in'[h] = expires_in[h] /\ due_in'[h] = due_in[h]
    /\ pc'[h] = pc[h] /\ age'[h] = age[h] /\ left'[h] = left[h] /\ result'[h] = result[h]

\* A step of a run of g that does not end it.
LEMMA MovePass ==
  ASSUME IInv, IInv', PassInv, NEW g \in Groups, PlainKept(g), pc'[g] # "idle",
         left' \in [Groups -> Nat], age' = age, todo' = todo, wake_in' = wake_in,
         g \in Plain => WithinLimits(g)' /\ (Served(g)' => InTime(g)')
  PROVE  PassInv'
<1>1. Timers'
  <2> SUFFICES ASSUME NEW h \in Plain, h # g PROVE WithinLimits(h)'
    BY DEF Timers
  <2> QED BY DEF PassInv, Timers, WithinLimits, PlainKept
<1>2. EndOfOrder(todo)'
  BY DEF PassInv, EndOfOrder
<1>3. Wakeful'
  <2> SUFFICES ASSUME NEW h \in Plain, ~Awaited(h)' PROVE wake_in' <= due_in'[h]
    BY DEF Wakeful
  <2>1. h # g
    <3> SUFFICES ASSUME h = g PROVE FALSE
      OBVIOUS
    <3>1. todo' \in Seq(Plain) /\ todo' # << >> /\ Head(todo') = h
      BY DEF IInv, Types, Loop
    <3>2. 1 \in 1 .. Len(todo') /\ todo'[1] = h
      BY <3>1
    <3> QED BY <3>2 DEF Awaited
  <2> QED BY <2>1 DEF PassInv, Wakeful, Awaited, PlainKept
<1>4. ASSUME NEW h \in Plain, h # g, Served(h)' PROVE InTime(h)'
  <2>1. Served(h)
    BY <1>4 DEF Served, PlainKept
  <2>2. InTime(h)
    BY <2>1 DEF PassInv
  <2>3. Spent' = Spent
    BY DEF Spent
  <2> QED BY <1>4, <2>2, <2>3 DEF InTime, PlainKept
<1> QED BY <1>1, <1>2, <1>3, <1>4 DEF PassInv

\* The head of the loop's list is a plain group, and no visit takes longer than RunTime.
LEMMA SpentBounded ==
  ASSUME IInv, PassInv PROVE Spent \in Nat /\ Spent <= RunTime
<1>1. CASE todo = << >>
  BY <1>1, Lengths DEF Spent
<1>2. CASE todo # << >>
  <2>1. Head(todo) \in Plain /\ Head(todo) \in Groups
    BY <1>2 DEF IInv, Types, Groups
  <2>2. PICK h \in Plain : h = Head(todo) /\ h \in Groups
    BY <2>1
  <2>3. age[h] \in Nat /\ left[h] \in Nat /\ pc[h] \in Places
    BY <2>2 DEF IInv, Types, PassInv, Timers
  <2>4. pc[h] \in {"idle", "permit"} => age[h] = 0
    BY DEF IInv, Spacing
  <2>5. WithinLimits(h)
    BY DEF PassInv, Timers
  <2>6. age[h] <= RunTime
    BY <2>3, <2>4, <2>5, Lengths DEF WithinLimits, Places, RunTime
  <2> QED BY <1>2, <2>2, <2>3, <2>6 DEF Spent
<1> QED BY <1>1, <1>2

\* When the visit at the head ends, every other visit is one nearer.
LEMMA VisitNearer ==
  ASSUME NEW list \in Seq(Plain), list # << >>, NEW h \in Plain, h # Head(list),
         NEW n \in Nat, VisitAfter(list, h, n)
  PROVE  n > 0 /\ VisitAfter(Tail(list), h, n - 1)
<1>1. PICK t \in Nat : t = Len(list) /\ t > 0 /\ Len(Tail(list)) = t - 1
  OBVIOUS
<1>2. CASE n + 1 \in 1 .. Len(list) /\ list[n + 1] = h
  <2>1. n > 0
    BY <1>2
  <2>2. n \in 1 .. Len(Tail(list)) /\ Tail(list)[n] = h /\ (n - 1) + 1 = n
    BY <1>2, <2>1
  <2> QED BY <2>1, <2>2, Zenon DEF VisitAfter
<1>3. ASSUME NEW k \in 1 .. Len(Order), Order[k] = h, n = Len(list) + k - 1
      PROVE  n > 0 /\ VisitAfter(Tail(list), h, n - 1)
  <2>1. k \in Nat /\ k > 0
    BY Lengths
  <2>2. n > 0 /\ n - 1 = Len(Tail(list)) + k - 1
    BY <1>1, <1>3, <2>1
  <2> QED BY <1>3, <2>2 DEF VisitAfter
<1> QED BY <1>2, <1>3 DEF VisitAfter

\* The end of the order without its first group is one.
LEMMA EndTail ==
  ASSUME NEW list \in Seq(Plain), list # << >>, EndOfOrder(list)
  PROVE  Tail(list) \in Seq(Plain) /\ EndOfOrder(Tail(list))
<1>1. PICK t \in Nat, l \in Nat :
        t = Len(list) /\ t > 0 /\ Len(Tail(list)) = t - 1 /\ l = Len(Order)
  BY Lengths
<1>2. ASSUME NEW i \in 1 .. t - 1 PROVE Tail(list)[i] = Order[l - (t - 1) + i]
  <2>1. i + 1 \in 1 .. t /\ l - t + (i + 1) = l - (t - 1) + i /\ Tail(list)[i] = list[i + 1]
    BY <1>1
  <2>2. list[i + 1] = Order[l - t + (i + 1)]
    BY <1>1, <2>1, Zenon DEF EndOfOrder
  <2> QED BY <2>1, <2>2, Zenon
<1>3. t - 1 <= l
  BY <1>1 DEF EndOfOrder
<1>4. Tail(list) \in Seq(Plain)
  OBVIOUS
<1> QED BY <1>1, <1>2, <1>3, <1>4, Zenon DEF EndOfOrder

\* A run of g returns; what it serves, if no refresh has failed, lasts from the next run on
\* for a pass.
LEMMA ReturnPass ==
  ASSUME IInv, IInv', PassInv, NEW g \in Groups, NEW next \in Nat, Return(g, next), PlainKept(g),
         due_in'[g] = next, g \in Plain => todo # << >> /\ Head(todo) = g,
         g \in Plain /\ Served(g)' => expires_in'[g] > next + Room
  PROVE  PassInv'
<1>1. /\ pc'[g] = "idle" /\ age'[g] = 0 /\ left' \in [Groups -> Nat]
  BY DEF Return, IInv, Types, PassInv, Timers
<1>2. \/ g \in Plain /\ todo' = Tail(todo) /\ wake_in' = Least(wake_in, next)
      \/ g \notin Plain /\ todo' = todo /\ wake_in' = wake_in
  BY GroupsAssumption DEF Return, loop
<1>3. Timers'
  <2> SUFFICES ASSUME NEW h \in Plain PROVE WithinLimits(h)'
    BY <1>1 DEF Timers
  <2>1. CASE h = g
    BY <1>1, <2>1 DEF WithinLimits
  <2>2. CASE h # g
    BY <2>2 DEF PassInv, Timers, WithinLimits, PlainKept
  <2> QED BY <2>1, <2>2
<1>4. todo \in Seq(Plain) /\ todo' \in Seq(Plain) /\ wake_in \in Nat /\ EndOfOrder(todo)
  BY DEF IInv, Types, PassInv
<1>5. EndOfOrder(todo')
  BY <1>2, <1>4, EndTail
<1>6. Wakeful'
  <2> SUFFICES ASSUME NEW h \in Plain, ~Awaited(h)' PROVE wake_in' <= due_in'[h]
    BY DEF Wakeful
  <2>0. h \in Groups /\ due_in[h] \in Nat
    BY DEF Groups, IInv, Types
  <2>1. CASE h = g
    BY <1>2, <1>4, <2>1 DEF Least
  <2>2. CASE h # g
    <3>1. ~Awaited(h)
      <4>1. CASE g \in Plain
        <5>1. todo' = Tail(todo) /\ todo # << >> /\ h # Head(todo)
          BY <1>2, <2>2, <4>1
        <5>2. ASSUME NEW i \in 1 .. Len(todo), todo[i] = h
              PROVE  \E j \in 1 .. Len(Tail(todo)) : Tail(todo)[j] = h
          BY <1>4, <5>1, <5>2, TailAwaits
        <5> QED BY <5>1, <5>2 DEF Awaited
      <4>2. CASE g \notin Plain
        BY <1>2, <4>2 DEF Awaited
      <4> QED BY <4>1, <4>2
    <3>2. wake_in <= due_in[h] /\ due_in'[h] = due_in[h]
      BY <2>2, <3>1 DEF PassInv, Wakeful, PlainKept
    <3>3. wake_in' <= wake_in /\ wake_in' \in Nat
      BY <1>2, <1>4 DEF Least
    <3> QED BY <1>4, <2>0, <3>2, <3>3
  <2> QED BY <2>1, <2>2
<1>7. Spent' \in Nat
  <2>1. todo' # << >> => Head(todo') \in Groups
    BY <1>4 DEF Groups
  <2>2. age' \in [Groups -> Nat]
    BY DEF IInv, Types
  <2> QED BY <2>1, <2>2 DEF Spent
<1>8. ASSUME g \in Plain, Served(g)' PROVE InTime(g)'
  <2>1. PICK e \in Nat : e = expires_in'[g] /\ e > next + Room
    <3>1. selection'[g] # {}
      BY <1>8 DEF Served
    <3>2. expires_in'[g] \in Nat
      BY <1>1, <3>1 DEF IInv, Window, Types
    <3> QED BY <1>8, <3>2
  <2>2. e > Room
    BY <2>1, RoomInt
  <2>3. PICK s \in Nat : s = Spent'
    BY <1>7
  <2>4. \E n \in Nat : VisitAfter(todo', g, n) /\ e + s > Timeout + n * RunTime
    BY <1>4, <1>5, <1>8, <2>2, DueInTime
  <2> QED BY <1>1, <2>1, <2>3, <2>4 DEF InTime
<1>9. ASSUME NEW h \in Plain, h # g, Served(h)' PROVE InTime(h)'
  <2>1. Served(h)
    BY <1>9 DEF Served, PlainKept
  <2>2. InTime(h)
    BY <2>1 DEF PassInv
  <2>3. CASE g \notin Plain
    <3>1. todo # << >> => Head(todo) \in Plain \ {g}
      BY <1>4, <2>3
    <3>2. Spent' = Spent
      BY <1>2, <2>3, <3>1 DEF Spent, PlainKept
    <3> QED BY <1>2, <1>9, <2>2, <2>3, <3>2 DEF InTime, PlainKept
  <2>4. CASE g \in Plain
    <3>1. pc[h] = "idle" /\ pc'[h] = "idle"
      BY <1>9, <2>4 DEF IInv, Loop, PlainKept
    <3>2. expires_in'[h] = expires_in[h] /\ due_in'[h] = due_in[h]
      BY <1>9 DEF PlainKept
    <3>3. ASSUME due_in[h] = 0
          PROVE  \E n \in Nat : /\ VisitAfter(todo', h, n)
                               /\ expires_in[h] + Spent' > Timeout + n * RunTime
      <4>1. PICK n \in Nat : VisitAfter(todo, h, n) /\ expires_in[h] + Spent > Timeout + n * RunTime
        BY <2>2, <3>1, <3>3 DEF InTime
      <4>2. n > 0 /\ VisitAfter(todo', h, n - 1)
        BY <1>2, <1>4, <1>9, <2>4, <4>1, VisitNearer
      <4>3. PICK p \in Nat, q \in Nat : p = n * RunTime /\ q = (n - 1) * RunTime /\ p = q + RunTime
        BY <4>2, Lengths, OneVisitLess
      <4>4. PICK s \in Nat : s = Spent /\ s <= RunTime
        BY SpentBounded
      <4>5. PICK s2 \in Nat : s2 = Spent'
        BY <1>7
      <4>6. PICK e \in Nat : e = expires_in[h]
        <5>1. h \in Groups /\ selection[h] # {}
          BY <2>1 DEF Groups, Served
        <5> QED BY <3>1, <5>1 DEF IInv, Window, Types
      <4>7. e + s2 > Timeout + q
        <5>1. e + s > Timeout + p
          BY <4>1, <4>3, <4>4, <4>6, Zenon
        <5> QED BY <4>3, <4>4, <5>1, Lengths
      <4>8. n - 1 \in Nat
        BY <4>2
      <4> QED BY <4>2, <4>3, <4>5, <4>6, <4>7, <4>8
    <3> QED BY <2>2, <3>1, <3>2, <3>3 DEF InTime
  <2> QED BY <2>3, <2>4
<1> QED BY <1>3, <1>5, <1>6, <1>8, <1>9 DEF PassInv

\* A visit that finds g not yet due.
LEMMA BeginNotDuePass ==
  ASSUME IInv, IInv', PassInv, NEW g \in Groups, BeginNotDue(g) PROVE PassInv'
<1>1. /\ Return(g, due_in[g]) /\ due_in[g] \in Nat /\ due_in[g] > 0 /\ pc[g] = "idle"
      /\ due_in' = due_in /\ expires_in' = expires_in /\ failures' = failures
  BY DEF BeginNotDue, CanBegin, schedule, IInv, Types
<1>2. PlainKept(g)
  BY DEF BeginNotDue, DropIfExpired, ExpireSnapshot, Publish, KeepSnapshot, Return, schedule,
         PlainKept, IInv, Types, PassInv, Timers, Groups
<1>3. Served(g)' => Served(g)
  BY DEF BeginNotDue, DropIfExpired, ExpireSnapshot, Publish, KeepSnapshot, schedule, Served,
         IInv, Types
<1>4. g \in Plain /\ Served(g)' => expires_in'[g] > due_in[g] + Room
  BY <1>1, <1>3 DEF PassInv, InTime
<1>5. g \in Plain => todo # << >> /\ Head(todo) = g
  BY AtHead DEF BeginNotDue
<1> QED BY <1>1, <1>2, <1>4, <1>5, ReturnPass

\* After a failure nothing is claimed of the endpoints that are left.
LEMMA RecordFailurePass ==
  ASSUME IInv, IInv', PassInv, NEW g \in Groups, pc[g] # "idle", RecordFailure(g) PROVE PassInv'
<1>1. PICK next : /\ Return(g, next) /\ due_in' = [due_in EXCEPT ![g] = next]
                  /\ expires_in' = expires_in
  BY DEF RecordFailure
<1>2. next \in Nat /\ due_in'[g] = next
  <2>1. due_in'[g] \in Nat
    BY DEF IInv, Types
  <2> QED BY <1>1, <2>1 DEF IInv, Types
<1>3. PlainKept(g)
  <2>1. /\ \E f : failures' = [failures EXCEPT ![g] = f]
        /\ \E s : selection' = [selection EXCEPT ![g] = s]
    <3>1. selection = [selection EXCEPT ![g] = selection[g]]
      BY DEF IInv, Types
    <3>2. selection' = selection \/ selection' = [selection EXCEPT ![g] = {}]
      BY Zenon DEF RecordFailure, ExpireSnapshot, Publish, KeepSnapshot
    <3>3. \E f : failures' = [failures EXCEPT ![g] = f]
      BY Zenon DEF RecordFailure
    <3> QED BY <3>1, <3>2, <3>3, Zenon
  <2>2. /\ pc' = [pc EXCEPT ![g] = "idle"] /\ age' = [age EXCEPT ![g] = 0]
        /\ left' = [left EXCEPT ![g] = 0] /\ result' = [result EXCEPT ![g] = NoResult]
    BY <1>1 DEF Return
  <2> QED BY <1>1, <2>1, <2>2 DEF PlainKept, IInv, Types, PassInv, Timers, Groups
<1>4. failures'[g] > 0
  BY LimitsAssumption DEF RecordFailure, Least, IInv, Types
<1>5. g \in Plain => todo # << >> /\ Head(todo) = g
  BY AtHead
<1> QED BY <1>1, <1>2, <1>3, <1>4, <1>5, ReturnPass DEF Served

\* What is left of a duration, and of one that is longer.
LEMMA LeftApart ==
  ASSUME NEW a \in Nat, NEW r \in Nat, a <= r, NEW d \in Nat, NEW w \in Nat, NEW room \in Int,
         w > room + r, w > d + room, NEW x, NEW y, x = Most(d - a, 0), y = Most(w - a, 0)
  PROVE  /\ Least(x, y) \in Nat /\ y > Least(x, y) + room
BY DEF Most, Least

\* A result that has been published lasts from its refresh on for a pass.
LEMMA SchedulePass ==
  ASSUME RoomForPass, IInv, IInv', PassInv, NEW g \in Groups, Schedule(g) PROVE PassInv'
<1> DEFINE expiry == NrfSnapshotExpiry(g, result[g].validity)
<1>1. PICK delay \in NrfRefreshDelay(result[g].validity) :
        /\ due_in' = [due_in EXCEPT ![g] = Least(Left(delay, g), expiry)]
        /\ expires_in' = [expires_in EXCEPT ![g] = expiry]
        /\ Return(g, Least(Left(delay, g), expiry))
  BY DEF Schedule
<1>2. PICK next : next = Least(Left(delay, g), expiry)
  OBVIOUS
<1>3. due_in'[g] = next /\ next \in Nat /\ expires_in'[g] = expiry
  <2>1. due_in'[g] = next /\ due_in'[g] \in Nat /\ expires_in'[g] = expiry
    BY <1>1, <1>2 DEF IInv, Types
  <2> QED BY <2>1
<1>4. PlainKept(g)
  BY <1>1 DEF Schedule, Return, PlainKept, IInv, Types, PassInv, Timers, Groups
<1>5. pc[g] = "schedule"
  BY DEF Schedule
<1>6. g \in Plain => todo # << >> /\ Head(todo) = g
  BY <1>5, AtHead
<1>7. ASSUME g \in Plain PROVE expiry > next + Room
  <2>1. PICK a \in Nat, v \in Validities : a = age[g] /\ v = result[g].validity /\ a <= RunTime
    BY <1>5, <1>7 DEF IInv, Types, PassInv, Timers, WithinLimits
  <2>2. v \in Nat /\ StaleIfError \in Nat
    BY DurationsAssumption
  <2>3. PICK w \in Nat : w = v + StaleIfError
    BY <2>2
  <2>4. delay \in Nat
    BY <2>1, <2>2, DelayPositive
  <2>5. w > Room + RunTime /\ w > delay + Room
    BY <1>1, <2>1, <2>3 DEF RoomForPass
  <2>6. expiry = Most(w - a, 0) /\ Left(delay, g) = Most(delay - a, 0)
    BY <2>1, <2>3 DEF NrfSnapshotExpiry, Left
  <2>7. PICK r \in Nat, room \in Int : r = RunTime /\ room = Room
    BY RoomInt, Lengths
  <2>8. PICK x, y : x = Left(delay, g) /\ y = expiry
    OBVIOUS
  <2> HIDE DEF expiry
  <2>9. y > Least(x, y) + room
    BY <2>1, <2>4, <2>5, <2>6, <2>7, <2>8, LeftApart
  <2> QED BY <1>2, <2>7, <2>8, <2>9
<1> HIDE DEF expiry
<1> QED BY <1>1, <1>2, <1>3, <1>4, <1>6, <1>7, ReturnPass

\* A group that is due is visited while its window has room for the request.
LEMMA BeginDuePass ==
  ASSUME IInv, IInv', PassInv, NEW g \in Groups, BeginDue(g) PROVE PassInv'
<1>1. /\ pc'[g] = "permit" /\ pc[g] = "idle" /\ due_in[g] = 0
      /\ left' \in [Groups -> Nat] /\ age' = age /\ todo' = todo /\ wake_in' = wake_in
      /\ expires_in' = expires_in /\ failures' = failures
  BY DEF BeginDue, CanBegin, schedule, loop, IInv, Types, PassInv, Timers
<1>2. PlainKept(g)
  BY DEF BeginDue, DropIfExpired, ExpireSnapshot, Publish, KeepSnapshot, schedule, loop,
         PlainKept, IInv, Types, Groups
<1>3. Served(g)' => Served(g)
  BY DEF BeginDue, DropIfExpired, ExpireSnapshot, Publish, KeepSnapshot, schedule, Served,
         IInv, Types
<1>4. ASSUME g \in Plain, Served(g) PROVE expires_in[g] > Timeout
  <2>1. PICK n \in Nat : expires_in[g] + Spent > Timeout + n * RunTime
    BY <1>1, <1>4 DEF PassInv, InTime
  <2>2. Spent = 0
    <3>1. todo # << >> /\ Head(todo) = g
      BY <1>4, AtHead DEF BeginDue
    <3> QED BY <1>1, <1>4, <3>1 DEF Spent, IInv, Spacing
  <2>3. PICK p \in Nat : p = n * RunTime
    BY Lengths, VisitsMonotone
  <2>4. PICK e \in Nat : e = expires_in[g]
    BY <1>1, <1>4 DEF Served, IInv, Window, Types
  <2> QED BY <2>1, <2>2, <2>3, <2>4, Lengths
<1>5. g \in Plain => WithinLimits(g)' /\ (Served(g)' => InTime(g)')
  BY <1>1, <1>3, <1>4 DEF WithinLimits, InTime
<1> QED BY <1>1, <1>2, <1>5, MovePass

\* The request is sent, and its timeout ends before the window.
LEMMA SendPass ==
  ASSUME IInv, IInv', PassInv, NEW g \in Groups, Send(g) PROVE PassInv'
<1>1. /\ pc'[g] = "request" /\ pc[g] = "permit" /\ left'[g] = Timeout
      /\ left' \in [Groups -> Nat] /\ age' = age /\ todo' = todo /\ wake_in' = wake_in
      /\ expires_in' = expires_in /\ failures' = failures /\ selection' = selection
  BY Lengths DEF Send, CanSend, loop, IInv, Types, PassInv, Timers
<1>2. PlainKept(g)
  BY DEF Send, PlainKept, IInv, Types, PassInv, Timers, Groups
<1>3. ASSUME g \in Plain PROVE WithinLimits(g)' /\ (Served(g)' => InTime(g)')
  <2>1. age[g] = 0
    BY <1>1, <1>3 DEF IInv, Spacing
  <2>2. Served(g) => expires_in[g] > Timeout
    BY <1>1, <1>3 DEF PassInv, InTime
  <2> QED BY <1>1, <2>1, <2>2, Lengths DEF WithinLimits, InTime, Served
<1> QED BY <1>1, <1>2, <1>3, MovePass

\* The answer arrives within the timeout.
LEMMA AnswerPass ==
  ASSUME IInv, IInv', PassInv, NEW g \in Groups, Answer(g) PROVE PassInv'
<1>1. /\ pc'[g] = "preflight" /\ pc[g] = "request" /\ left'[g] = PreflightTime
      /\ left' \in [Groups -> Nat] /\ age' = age /\ todo' = todo /\ wake_in' = wake_in
  BY Lengths DEF Answer, loop, IInv, Types, PassInv, Timers
<1>2. PlainKept(g)
  BY DEF Answer, schedule, PlainKept, IInv, Types, PassInv, Timers, Groups
<1>3. result'[g].validity \in Validities
  <2>1. PICK r \in Results : result' = [result EXCEPT ![g] = r]
    BY DEF Answer
  <2>2. r.validity \in Validities
    BY DEF Results
  <2> QED BY <2>1, <2>2 DEF IInv, Types
<1>4. ASSUME g \in Plain PROVE WithinLimits(g)' /\ (Served(g)' => InTime(g)')
  <2>1. age[g] + left[g] <= Timeout /\ age[g] \in Nat /\ left[g] \in Nat
    BY <1>1, <1>4 DEF PassInv, Timers, WithinLimits, IInv, Types
  <2>2. age[g] + PreflightTime <= RunTime
    BY <2>1, Lengths DEF RunTime
  <2> QED BY <1>1, <1>3, <2>2 DEF WithinLimits, InTime
<1> QED BY <1>1, <1>2, <1>4, MovePass

\* What expires during a request is not served any more.
LEMMA ExpirePass ==
  ASSUME IInv, IInv', PassInv, NEW g \in Groups, ExpireWhileWaiting(g) PROVE PassInv'
<1>1. /\ pc'[g] # "idle" /\ selection'[g] = {} /\ UNCHANGED <<pc, left, result>>
      /\ left' \in [Groups -> Nat] /\ age' = age /\ todo' = todo /\ wake_in' = wake_in
  BY DEF ExpireWhileWaiting, ExpireSnapshot, Publish, run, loop, IInv, Types, PassInv, Timers
<1>2. PlainKept(g)
  BY DEF ExpireWhileWaiting, ExpireSnapshot, Publish, schedule, run, PlainKept, IInv, Types, Groups
<1>3. g \in Plain => WithinLimits(g)' /\ (Served(g)' => InTime(g)')
  BY <1>1 DEF PassInv, Timers, WithinLimits, Served
<1> QED BY <1>1, <1>2, <1>3, MovePass

\* The preflight checks end within their time.
LEMMA PublishPass ==
  ASSUME IInv, IInv', PassInv, NEW g \in Groups, PublishBackends(g) PROVE PassInv'
<1>1. /\ pc'[g] = "schedule" /\ pc[g] = "preflight" /\ UNCHANGED <<left, result>>
      /\ left' \in [Groups -> Nat] /\ age' = age /\ todo' = todo /\ wake_in' = wake_in
  BY DEF PublishBackends, loop, IInv, Types, PassInv, Timers
<1>2. PlainKept(g)
  BY DEF PublishBackends, Publish, schedule, PlainKept, IInv, Types, Groups
<1>3. ASSUME g \in Plain PROVE WithinLimits(g)' /\ (Served(g)' => InTime(g)')
  <2>1. /\ age[g] + left[g] <= RunTime /\ age[g] \in Nat /\ left[g] \in Nat
        /\ result[g].validity \in Validities
    BY <1>1, <1>3 DEF PassInv, Timers, WithinLimits, IInv, Types
  <2>2. age[g] <= RunTime
    BY <2>1, Lengths
  <2> QED BY <1>1, <2>1, <2>2 DEF WithinLimits, InTime
<1> QED BY <1>1, <1>2, <1>3, MovePass

\* A pass begins with all groups in their order.
LEMMA WakePass == ASSUME IInv, IInv', PassInv, Wake PROVE PassInv'
<1>1. /\ todo = << >> /\ todo' = Order
      /\ UNCHANGED <<selection, expires_in, due_in, failures, pc, age, left, result>>
  BY DEF Wake, schedule, run
<1>2. Timers'
  BY <1>1 DEF PassInv, Timers, WithinLimits
<1>3. EndOfOrder(todo')
  <2>1. PICK l \in Nat : l = Len(Order)
    BY Lengths
  <2>2. l <= l /\ \A i \in 1 .. l : l - l + i = i
    OBVIOUS
  <2> QED BY <1>1, <2>1, <2>2, Zenon DEF EndOfOrder
<1>4. Wakeful'
  BY <1>1 DEF Wakeful, Awaited, Plain
<1>5. ASSUME NEW h \in Plain, Served(h)' PROVE InTime(h)'
  <2>1. InTime(h)
    BY <1>1, <1>5 DEF Served, PassInv
  <2>2. Spent = 0 /\ Len(todo) = 0
    BY <1>1 DEF Spent
  <2>3. PICK s \in Nat : s = Spent'
    <3>1. Order # << >> => Head(Order) \in Groups
      BY Lengths DEF Groups
    <3> QED BY <1>1, <3>1 DEF Spent, IInv, Types
  <2>4. ASSUME pc[h] = "idle", due_in[h] = 0
        PROVE  \E n \in Nat : /\ VisitAfter(todo', h, n)
                             /\ expires_in[h] + Spent' > Timeout + n * RunTime
    <3>1. PICK n \in Nat : VisitAfter(todo, h, n) /\ expires_in[h] + Spent > Timeout + n * RunTime
      BY <2>1, <2>4 DEF InTime
    <3>2. PICK k \in 1 .. Len(Order) : Order[k] = h /\ n = 0 + k - 1
      BY <2>2, <3>1 DEF VisitAfter
    <3>3. n + 1 = k
      BY <3>2, Lengths
    <3>4. VisitAfter(todo', h, n)
      BY <1>1, <3>2, <3>3 DEF VisitAfter
    <3>5. PICK e \in Nat : e = expires_in[h]
      BY <1>1, <1>5, <2>4 DEF Groups, Served, IInv, Window, Types
    <3>6. PICK p \in Nat : p = n * RunTime
      BY Lengths, VisitsMonotone
    <3>7. e + s > Timeout + p
      <4>1. e + 0 > Timeout + p
        BY <2>2, <3>1, <3>5, <3>6, Zenon
      <4> QED BY <4>1, Lengths
    <3> QED BY <2>3, <3>4, <3>5, <3>6, <3>7
  <2> QED BY <1>1, <2>1, <2>4 DEF InTime
<1> QED BY <1>2, <1>3, <1>4, <1>5 DEF PassInv

\* While time passes, the loop is busy with a group before g, sleeps before g is due, or g
\* waits for its answer.
LEMMA TickPass == ASSUME IInv, IInv', PassInv, Tick PROVE PassInv'
<1>1. UNCHANGED <<selection, failures, pc, result, todo>> /\ wake_in' = Most(wake_in - 1, 0)
  BY DEF Tick
<1>2. ASSUME NEW g \in Groups
      PROVE  /\ expires_in'[g] = IF expires_in[g] = None THEN None ELSE Most(expires_in[g] - 1, 0)
             /\ due_in'[g] = Most(due_in[g] - 1, 0) /\ left'[g] = Most(left[g] - 1, 0)
             /\ age'[g] = IF pc[g] = "idle" THEN 0 ELSE age[g] + 1
             /\ due_in[g] \in Nat /\ left[g] \in Nat /\ age[g] \in Nat
  BY DEF Tick, Down, IInv, Types, PassInv, Timers
<1>3. ASSUME NEW g \in Plain
      PROVE  /\ g \in Groups /\ pc[g] \notin {"permit", "schedule"}
             /\ pc[g] \in {"request", "preflight"} => left[g] > 0
  <2>1. g \in Groups
    BY DEF Groups
  <2>2. pc[g] \notin {"permit", "schedule"} /\ ~(pc[g] \in {"request", "preflight"} /\ left[g] = 0)
    BY <2>1, GroupsAssumption DEF Tick, Urgent, CanSend
  <2> QED BY <1>2, <2>1, <2>2
<1>4. Timers'
  <2>1. left' \in [Groups -> Nat]
    <3>1. \A n \in Nat : Most(n - 1, 0) \in Nat
      BY DEF Most
    <3> QED BY <3>1 DEF Tick, Down, PassInv, Timers
  <2>2. ASSUME NEW g \in Plain PROVE WithinLimits(g)'
    <3>1. WithinLimits(g)
      BY DEF PassInv, Timers
    <3> QED BY <1>1, <1>2, <1>3, <3>1, Lengths DEF WithinLimits, Most
  <2> QED BY <2>1, <2>2 DEF Timers
<1>5. EndOfOrder(todo') /\ todo' \in Seq(Plain)
  BY <1>1 DEF PassInv, IInv, Types
<1>6. Wakeful'
  <2> SUFFICES ASSUME NEW g \in Plain, ~Awaited(g)' PROVE wake_in' <= due_in'[g]
    BY DEF Wakeful
  <2>1. wake_in <= due_in[g] /\ wake_in \in Nat
    BY <1>1 DEF PassInv, Wakeful, Awaited, IInv, Types
  <2> QED BY <1>1, <1>2, <1>3, <2>1 DEF Most
<1>7. ASSUME NEW g \in Plain, Served(g)' PROVE InTime(g)'
  <2>1. Served(g) /\ InTime(g)
    BY <1>1, <1>7 DEF Served, PassInv
  <2>2. PICK e \in Nat, f \in Nat :
          e = expires_in[g] /\ f = expires_in'[g] /\ f = Most(e - 1, 0)
    <3>1. expires_in[g] # None /\ expires_in[g] \in Nat
      BY <1>3, <2>1 DEF Served, IInv, Window, Types
    <3>2. expires_in'[g] = Most(expires_in[g] - 1, 0)
      BY <1>2, <1>3, <3>1
    <3> QED BY <3>1, <3>2 DEF Most
  <2>3. PICK d \in Nat, c \in Nat : d = due_in[g] /\ c = due_in'[g] /\ c = Most(d - 1, 0)
    BY <1>2, <1>3 DEF Most
  <2>4. CASE pc[g] = "idle" /\ d > 0
    <3>1. e > d + Room
      BY <2>1, <2>2, <2>3, <2>4 DEF InTime
    <3>2. Room >= 0
      <4>1. PICK k \in 1 .. Len(Order) : Order[k] = g
        BY DEF Plain
      <4>2. PICK m \in Nat : m = Len(Order) - 1
        <5>1. PICK l \in Nat : l = Len(Order)
          BY Lengths
        <5>2. l - 1 \in Nat
          BY <4>1, <5>1
        <5> QED BY <5>1, <5>2
      <4>3. m * RunTime \in Nat
        BY Lengths, VisitsMonotone
      <4> QED BY <4>2, <4>3, Lengths DEF Room
    <3>3. f > c + Room /\ f > Room
      BY <2>2, <2>3, <2>4, <3>1, <3>2, RoomInt DEF Most
    <3>4. PICK s \in Nat : s = Spent'
      <4>1. todo' # << >> => Head(todo') \in Groups
        BY <1>5 DEF Groups
      <4> QED BY <4>1 DEF Spent, IInv, Types
    <3>5. \E n \in Nat : VisitAfter(todo', g, n) /\ f + s > Timeout + n * RunTime
      BY <1>5, <3>3, DueInTime
    <3> QED BY <1>1, <2>2, <2>3, <2>4, <3>3, <3>4, <3>5 DEF InTime
  <2>5. CASE pc[g] = "idle" /\ d = 0
    <3>1. PICK n \in Nat : VisitAfter(todo, g, n) /\ expires_in[g] + Spent > Timeout + n * RunTime
      BY <2>1, <2>3, <2>5 DEF InTime
    <3>2. todo # << >>
      <4> SUFFICES ASSUME todo = << >> PROVE FALSE
        OBVIOUS
      <4>1. ~Awaited(g)
        BY DEF Awaited
      <4>2. wake_in = 0
        <5>1. wake_in <= due_in[g]
          BY <4>1 DEF PassInv, Wakeful
        <5>2. wake_in \in Nat
          BY DEF IInv, Types
        <5> QED BY <2>3, <2>5, <5>1, <5>2
      <4> QED BY <4>2 DEF Tick, Urgent
    <3>3. PICK h \in Groups : h = Head(todo) /\ pc[h] # "idle"
      <4>1. Head(todo) \in Groups
        BY <3>2 DEF IInv, Types, Groups
      <4> QED BY <3>2, <4>1 DEF Tick, Urgent
    <3>4. PICK s \in Nat : s = Spent /\ s + 1 = Spent'
      BY <1>1, <1>2, <3>2, <3>3 DEF Spent
    <3>5. PICK p \in Nat : p = n * RunTime
      BY Lengths, VisitsMonotone
    <3>6. f + (s + 1) > Timeout + p
      <4>1. e + s > Timeout + p
        BY <2>2, <3>1, <3>4, <3>5, Zenon
      <4> QED BY <2>2, <4>1, Lengths DEF Most
    <3>7. \E n2 \in Nat : /\ VisitAfter(todo', g, n2)
                         /\ expires_in'[g] + Spent' > Timeout + n2 * RunTime
      BY <1>1, <2>2, <3>1, <3>4, <3>5, <3>6
    <3>8. c = 0
      BY <2>3, <2>5 DEF Most
    <3> QED BY <1>1, <2>3, <2>5, <3>7, <3>8 DEF InTime
  <2>6. CASE pc[g] # "idle"
    <3>1. pc[g] = "request" => e > left[g] /\ left[g] > 0 /\ left[g] \in Nat
      BY <1>2, <1>3, <2>1, <2>2 DEF InTime
    <3>2. pc[g] = "request" => f > left'[g]
      BY <1>2, <1>3, <2>2, <3>1 DEF Most
    <3> QED BY <1>1, <1>3, <2>2, <2>6, <3>2 DEF InTime
  <2> QED BY <2>3, <2>4, <2>5, <2>6
<1> QED BY <1>4, <1>5, <1>6, <1>7 DEF PassInv

\* Nothing is served in the beginning.
LEMMA InitPass == Init => PassInv
<1> SUFFICES ASSUME Init PROVE PassInv
  OBVIOUS
<1>1. todo = << >> /\ Len(todo) = 0
  BY DEF Init
<1>2. EndOfOrder(todo)
  BY <1>1, Lengths DEF EndOfOrder
<1>3. Timers /\ Wakeful
  BY DEF Init, Timers, WithinLimits, Wakeful, Groups
<1>4. \A g \in Plain : ~Served(g)
  BY DEF Init, Served, Groups
<1> QED BY <1>2, <1>3, <1>4 DEF PassInv

\* Every step leaves refreshes in time.
LEMMA NextPass == ASSUME RoomForPass PROVE IInv /\ IInv' /\ PassInv /\ [Next]_vars => PassInv'
<1> SUFFICES ASSUME IInv, IInv', PassInv, [Next]_vars PROVE PassInv'
  OBVIOUS
<1>1. CASE Outage \/ UNCHANGED vars
  <2>1. UNCHANGED <<selection, schedule, run, loop>>
    BY <1>1 DEF Outage, vars
  <2>2. UNCHANGED <<selection, expires_in, due_in, failures, pc, age, left, result, todo, wake_in>>
    BY <2>1 DEF schedule, run, loop
  <2>3. (\A g \in Plain : Served(g) => InTime(g))'
    BY <2>2 DEF PassInv, Served, InTime, Spent
  <2> QED BY <2>2, <2>3 DEF PassInv, Timers, WithinLimits, EndOfOrder, Wakeful, Awaited
<1>2. CASE Tick \/ Wake
  BY <1>2, TickPass, WakePass
<1>3. ASSUME NEW g \in Groups, BeginNotDue(g) \/ BeginDue(g) \/ Send(g) PROVE PassInv'
  BY <1>3, BeginNotDuePass, BeginDuePass, SendPass
<1>4. ASSUME NEW g \in Groups, Answer(g) \/ AnswerFails(g) \/ ExpireWhileWaiting(g) PROVE PassInv'
  BY <1>4, AnswerPass, RecordFailurePass, ExpirePass DEF AnswerFails
<1>5. ASSUME NEW g \in Groups, PublishBackends(g) \/ PublishFails(g) \/ Schedule(g) PROVE PassInv'
  BY <1>5, PublishPass, RecordFailurePass, SchedulePass DEF PublishFails
<1> QED BY <1>1, <1>2, <1>3, <1>4, <1>5 DEF Next

\* Where a group loses its endpoints although no refresh has failed, the window would have
\* ended before its request was answered.
LEMMA GapStep ==
  ASSUME IInv, PassInv, Next, NEW g \in Plain, Select(g), selection'[g] = {}
  PROVE  failures[g] > 0 \/ failures'[g] > 0 \/ pc[g] = "preflight"
<1> SUFFICES ASSUME failures[g] = 0, pc[g] # "preflight" PROVE failures'[g] > 0
  BY DEF IInv, Types, Groups
<1>0. g \in Groups /\ selection[g] # {} /\ selection \in [Groups -> SUBSET Endpoints]
  BY DEF Groups, Select, IInv, Types
<1>1. InTime(g)
  BY <1>0 DEF PassInv, Served
<1>2. PICK h \in Groups :
        \/ BeginNotDue(h) \/ BeginDue(h) \/ AnswerFails(h) \/ ExpireWhileWaiting(h)
        \/ PublishBackends(h) \/ PublishFails(h)
  BY <1>0 DEF Next, Tick, Outage, Wake, Send, Answer, Schedule
<1>3. h = g
  BY <1>0, <1>2 DEF BeginNotDue, BeginDue, AnswerFails, ExpireWhileWaiting, PublishBackends,
         PublishFails, RecordFailure, DropIfExpired, ExpireSnapshot, KeepSnapshot, Publish
<1>4. CASE BeginNotDue(g)
  <2>1. pc[g] = "idle" /\ due_in[g] > 0 /\ due_in[g] \in Nat
    BY <1>0, <1>4 DEF BeginNotDue, CanBegin, IInv, Types
  <2>2. expires_in[g] = 0
    BY <1>0, <1>4 DEF BeginNotDue, DropIfExpired, KeepSnapshot, Expired
  <2>3. due_in[g] <= expires_in[g]
    BY <1>0, <2>1 DEF IInv, Window
  <2> QED BY <2>1, <2>2, <2>3
<1>5. CASE BeginDue(g)
  <2>1. pc[g] = "idle" /\ due_in[g] = 0
    BY <1>5 DEF BeginDue, CanBegin
  <2>2. expires_in[g] = 0
    BY <1>0, <1>5 DEF BeginDue, DropIfExpired, KeepSnapshot, Expired
  <2>3. PICK n \in Nat : expires_in[g] + Spent > Timeout + n * RunTime
    BY <1>1, <2>1 DEF InTime
  <2>4. Spent = 0
    <3>1. todo # << >> /\ Head(todo) = g
      BY <1>0, <1>5, AtHead DEF BeginDue
    <3> QED BY <2>1, <3>1 DEF Spent, IInv, Spacing
  <2>5. PICK p \in Nat : p = n * RunTime
    BY Lengths, VisitsMonotone
  <2> QED BY <2>2, <2>3, <2>4, <2>5, Lengths
<1>6. CASE ExpireWhileWaiting(g)
  <2>1. pc[g] = "request" /\ expires_in[g] = 0
    BY <1>6 DEF ExpireWhileWaiting, Expired
  <2>2. left[g] \in Nat
    BY <1>0 DEF PassInv, Timers
  <2> QED BY <1>1, <2>1, <2>2 DEF InTime
<1>7. CASE AnswerFails(g) \/ PublishFails(g)
  <2>1. RecordFailure(g)
    BY <1>7 DEF AnswerFails, PublishFails
  <2> QED BY <1>0, <2>1, LimitsAssumption DEF RecordFailure, Least, IInv, Types
<1>8. ~PublishBackends(g)
  BY DEF PublishBackends
<1> QED BY <1>2, <1>3, <1>4, <1>5, <1>6, <1>7, <1>8

\* A refresh that succeeds leaves no gap, for any number of groups and any durations that
\* leave room for a pass of the loop: a plain group loses its endpoints only after a refresh
\* that failed or found none.
THEOREM NoGapTheorem == ASSUME RoomForPass PROVE Spec => NoGapWithoutFailure
<1>1. IInv /\ PassInv /\ [Next]_vars =>
        [\A g \in Plain : Select(g) /\ selection'[g] = {} =>
           failures[g] > 0 \/ failures'[g] > 0 \/ pc[g] = "preflight"]_vars
  BY GapStep
<1>2. IInv /\ IInv' /\ PassInv /\ [Next]_vars => PassInv'
  BY NextPass
<1> QED
  BY <1>1, <1>2, Invariance, InitPass, PTL DEF Spec, NoGapWithoutFailure
=============================================================================
