---------------------------- MODULE LimiterProofs -----------------------------
(***************************************************************************)
(* Theorems about the two rate limiters: about JupiterLimiter for every    *)
(* finite set of requests, every cap and every length of the timers, about *)
(* DexLimiter for any number of callers and URLs and every length of its   *)
(* delays.                                                                 *)
(***************************************************************************)
EXTENDS JupiterLimiter, DexLimiter, FiniteSetTheorems, SequenceTheorems, TLAPS

States == Outcomes \union {"new", "queued", "executing", "backoff"}

\* The lanes hold exactly the queued requests, each one once and in its lane.
QueuesExact ==
    /\ \A l \in Lanes : \A i \in 1..Len(queue[l]) :
          state[queue[l][i]] = "queued" /\ Lane(queue[l][i]) = l
    /\ \A l \in Lanes : \A i, j \in 1..Len(queue[l]) :
          queue[l][i] = queue[l][j] => i = j
    /\ \A r \in Requests : state[r] = "queued" =>
          \E i \in 1..Len(queue[Lane(r)]) : queue[Lane(r)][i] = r

\* Types, queues and counters depend on each other: a counter stays a natural
\* number because it counts, and what is dispatched is what was queued.
LimiterInv == TypeOK /\ QueuesExact /\ SlotsAccounted

------------------------------------------------------------------------------
(* Sequences and counters *)

\* Taking one element out of a sequence.
LEMMA CutProperties ==
    ASSUME NEW S, NEW q \in Seq(S), NEW i \in 1..Len(q)
    PROVE  /\ Cut(q, i) \in Seq(S)
           /\ Len(Cut(q, i)) = Len(q) - 1
           /\ \A j \in 1..(Len(q) - 1) : Cut(q, i)[j] = IF j < i THEN q[j] ELSE q[j + 1]
<1>1. Len(q) - 1 \in Nat
  OBVIOUS
<1>2. \A j \in 1..(Len(q) - 1) : q[j] \in S /\ q[j + 1] \in S
  OBVIOUS
<1>3. Cut(q, i) \in [1..(Len(q) - 1) -> S]
  BY <1>2 DEF Cut
<1> QED BY <1>1, <1>3 DEF Cut

\* A lane and a family.
LEMMA LaneTypes ==
    ASSUME NEW r
    PROVE  Lane(r) \in Lanes /\ Family(r) \in Families
BY DEF Lane, Family, Lanes, Families

\* The requests in the slots of a lane are finitely many.
LEMMA SlotsFinite == \A l : IsFiniteSet(InSlots(l)) /\ Cardinality(InSlots(l)) \in Nat
<1> TAKE l
<1>1. InSlots(l) \subseteq Requests
  BY DEF InSlots
<1> QED BY <1>1, FS_Subset, FS_CardinalityType, LanesAssumption

\* A step that moves no request into or out of a slot leaves every lane as it is.
LEMMA SlotsKept ==
    ASSUME \A r \in Requests : InSlot(r)' = InSlot(r)
    PROVE  \A l \in Lanes : InSlots(l)' = InSlots(l)
BY DEF InSlots, Lane

\* A request that enters a slot adds one to the lane it is of.
LEMMA SlotTaken ==
    ASSUME NEW r \in Requests, ~InSlot(r), InSlot(r)',
           \A q \in Requests \ {r} : InSlot(q)' = InSlot(q)
    PROVE  /\ Cardinality(InSlots(Lane(r)))' = Cardinality(InSlots(Lane(r))) + 1
           /\ \A l \in Lanes \ {Lane(r)} : InSlots(l)' = InSlots(l)
<1>1. InSlots(Lane(r))' = InSlots(Lane(r)) \union {r} /\ r \notin InSlots(Lane(r))
  BY DEF InSlots, Lane
<1>2. \A l \in Lanes \ {Lane(r)} : InSlots(l)' = InSlots(l)
  BY DEF InSlots, Lane
<1> QED BY <1>1, <1>2, SlotsFinite, FS_AddElement

\* A request that leaves its slot takes one away, and there was one.
LEMMA SlotReleased ==
    ASSUME NEW r \in Requests, InSlot(r), ~InSlot(r)',
           \A q \in Requests \ {r} : InSlot(q)' = InSlot(q)
    PROVE  /\ Cardinality(InSlots(Lane(r)))' = Cardinality(InSlots(Lane(r))) - 1
           /\ Cardinality(InSlots(Lane(r))) > 0
           /\ \A l \in Lanes \ {Lane(r)} : InSlots(l)' = InSlots(l)
<1>1. InSlots(Lane(r))' = InSlots(Lane(r)) \ {r} /\ r \in InSlots(Lane(r))
  BY DEF InSlots, Lane
<1>2. \A l \in Lanes \ {Lane(r)} : InSlots(l)' = InSlots(l)
  BY DEF InSlots, Lane
<1>3. Cardinality(InSlots(Lane(r))) # 0
  BY <1>1, SlotsFinite, FS_EmptySet
<1>4. Cardinality(InSlots(Lane(r))) > 0
  BY <1>3, SlotsFinite
<1> QED BY <1>1, <1>2, <1>4, SlotsFinite, FS_RemoveElement

------------------------------------------------------------------------------
(* The invariant, one action at a time *)

\* The empty limiter satisfies the invariant.
LEMMA LimiterInit == Init => LimiterInv
<1> SUFFICES ASSUME Init PROVE LimiterInv
  OBVIOUS
<1> USE DEF Init
<1>1. TypeOK
  <2>1. queue \in [Lanes -> Seq(Requests)] /\ inFlight \in [Lanes -> Nat]
    OBVIOUS
  <2>2. since \in [Families -> 0..MinDelay]
    BY TimesAssumption
  <2> QED BY <2>1, <2>2 DEF TypeOK
<1>2. QueuesExact
  <2>1. \A l \in Lanes : Len(queue[l]) = 0
    <3>1. \A l \in Lanes : queue[l] = <<>>
      OBVIOUS
    <3> QED BY <3>1, EmptySeq
  <2>2. \A r \in Requests : state[r] # "queued"
    OBVIOUS
  <2>3. \A l \in Lanes : \A i \in 1..Len(queue[l]) : FALSE
    BY <2>1
  <2> QED BY <2>2, <2>3 DEF QueuesExact
<1>3. SlotsAccounted
  <2>1. \A l \in Lanes : InSlots(l) = {}
    BY DEF InSlots, InSlot
  <2>2. Cardinality({}) = 0
    BY FS_EmptySet
  <2>3. \A l \in Lanes : inFlight[l] = 0
    OBVIOUS
  <2>4. 0 <= Cap
    BY LimitsAssumption
  <2> QED BY <2>1, <2>2, <2>3, <2>4 DEF SlotsAccounted
<1> QED BY <1>1, <1>2, <1>3 DEF LimiterInv

\* Neither lanes nor requests move: the loop sleeps, wakes or stops, or time
\* passes.
LEMMA QuietKeepsQueues ==
    ASSUME LimiterInv, UNCHANGED <<queue, inFlight, state>>
    PROVE  QueuesExact' /\ SlotsAccounted'
<1>1. QueuesExact'
  BY DEF LimiterInv, QueuesExact
<1>2. \A l \in Lanes : InSlots(l)' = InSlots(l)
  BY DEF InSlots, InSlot
<1>3. SlotsAccounted'
  BY <1>2 DEF LimiterInv, SlotsAccounted
<1> QED BY <1>1, <1>3

\* The loop goes to sleep for a time, wakes up or stops.
LEMMA SleepStep ==
    ASSUME LimiterInv, Wake \/ Finish \/ WaitForSlot \/ WaitForSpacing
    PROVE  LimiterInv'
<1>1. UNCHANGED <<queue, since, inFlight, state, attempt, timer>>
  BY DEF Wake, Finish, WaitForSlot, WaitForSpacing, Sleep
<1>2. loop' \in Asleep \union {"off", "run"}
  BY DEF Wake, Finish, WaitForSlot, WaitForSpacing, Sleep, Asleep
<1>3. nap' \in Nat
  <2>1. CASE Wake \/ Finish \/ WaitForSlot
    BY <2>1, TimesAssumption
    DEF Wake, Finish, WaitForSlot, Sleep, LimiterInv, TypeOK
  <2>2. CASE WaitForSpacing
    <3>1. since[Family(Peeked)] \in 0..MinDelay
      BY LaneTypes DEF LimiterInv, TypeOK
    <3>2. MinDelay - since[Family(Peeked)] \in Nat
      BY <3>1, TimesAssumption
    <3> QED BY <2>2, <3>2 DEF WaitForSpacing, Sleep
  <2> QED BY <2>1, <2>2
<1>4. TypeOK'
  BY <1>1, <1>2, <1>3 DEF LimiterInv, TypeOK
<1> QED BY <1>1, <1>4, QuietKeepsQueues DEF LimiterInv

\* Timers count down and never below zero.
LEMMA TickStep ==
    ASSUME LimiterInv, Tick
    PROVE  LimiterInv'
<1> USE DEF LimiterInv, TypeOK, Tick
<1>1. timer' \in [Requests -> Nat]
  <2>1. ASSUME NEW r \in Requests
        PROVE  (IF Armed(r) THEN timer[r] - 1 ELSE timer[r]) \in Nat
    <3>1. timer[r] \in Nat /\ (Armed(r) => timer[r] > 0)
      OBVIOUS
    <3> QED BY <3>1
  <2> QED BY <2>1
<1>2. nap' \in Nat
  OBVIOUS
<1>3. since' \in [Families -> 0..MinDelay]
  <2>1. ASSUME NEW f \in Families
        PROVE  (IF since[f] < MinDelay THEN since[f] + 1 ELSE since[f]) \in 0..MinDelay
    <3>1. since[f] \in 0..MinDelay
      OBVIOUS
    <3> QED BY <3>1, TimesAssumption
  <2> QED BY <2>1
<1>4. TypeOK'
  BY <1>1, <1>2, <1>3
<1> QED BY <1>4, QuietKeepsQueues

\* A request that is refused never touches a lane.
LEMMA RejectStep ==
    ASSUME LimiterInv, NEW r \in Requests, RejectFull(r)
    PROVE  LimiterInv'
<1>1. TypeOK'
  BY DEF LimiterInv, TypeOK, RejectFull, dispatcher, Outcomes
<1>2. \A q \in Requests : state'[q] = IF q = r THEN "rejected" ELSE state[q]
  BY DEF LimiterInv, TypeOK, RejectFull
<1>3. state[r] = "new" /\ UNCHANGED <<queue, inFlight>>
  BY DEF RejectFull, dispatcher
<1>4. QueuesExact'
  <2>1. \A l \in Lanes : \A i \in 1..Len(queue[l]) : queue[l][i] \in Requests
    BY DEF LimiterInv, TypeOK
  <2> QED BY <1>2, <1>3, <2>1 DEF LimiterInv, QueuesExact
<1>5. SlotsAccounted'
  <2>1. \A q \in Requests : InSlot(q)' = InSlot(q)
    BY <1>2, <1>3 DEF InSlot
  <2> QED BY <1>3, <2>1, SlotsKept DEF LimiterInv, SlotsAccounted
<1> QED BY <1>1, <1>4, <1>5 DEF LimiterInv

\* A new request goes to the end of its lane.
LEMMA EnqueueStep ==
    ASSUME LimiterInv, NEW r \in Requests, Enqueue(r)
    PROVE  LimiterInv'
<1> DEFINE m == Lane(r)
<1>0. m \in Lanes
  BY LaneTypes
<1>1. \A q \in Requests : state'[q] = IF q = r THEN "queued" ELSE state[q]
  BY DEF LimiterInv, TypeOK, Enqueue
<1>2. queue' = [queue EXCEPT ![m] = Append(queue[m], r)] /\ UNCHANGED inFlight
      /\ state[r] = "new" /\ queue \in [Lanes -> Seq(Requests)]
  BY DEF LimiterInv, TypeOK, Enqueue
<1>3. /\ Len(queue'[m]) = Len(queue[m]) + 1
      /\ \A i \in 1..Len(queue[m]) : queue'[m][i] = queue[m][i]
      /\ queue'[m][Len(queue[m]) + 1] = r
      /\ \A l \in Lanes \ {m} : queue'[l] = queue[l]
      /\ queue'[m] \in Seq(Requests)
      /\ Len(queue[m]) \in Nat
  BY <1>0, <1>2
<1>4. TypeOK'
  <2>1. queue' \in [Lanes -> Seq(Requests)]
    BY <1>0, <1>2, <1>3
  <2>2. state' \in [Requests -> States]
    BY DEF LimiterInv, TypeOK, Enqueue, States
  <2>3. timer' \in [Requests -> Nat] /\ loop' \in Asleep \union {"off", "run"}
        /\ nap' \in Nat
    BY TimesAssumption DEF LimiterInv, TypeOK, Enqueue, WaitBudget, Asleep
  <2> QED BY <2>1, <2>2, <2>3 DEF LimiterInv, TypeOK, Enqueue, States
<1>5. SlotsAccounted'
  <2>1. \A q \in Requests : InSlot(q)' = InSlot(q)
    BY <1>1, <1>2 DEF InSlot
  <2> QED BY <1>2, <2>1, SlotsKept DEF LimiterInv, SlotsAccounted
<1>6. \A l \in Lanes : \A i \in 1..Len(queue[l]) :
         queue[l][i] \in Requests /\ queue[l][i] # r
         /\ state[queue[l][i]] = "queued" /\ Lane(queue[l][i]) = l
  BY <1>2 DEF LimiterInv, TypeOK, QueuesExact
<1> HIDE DEF m
<1>7. \A l \in Lanes : \A i \in 1..Len(queue'[l]) :
         state'[queue'[l][i]] = "queued" /\ Lane(queue'[l][i]) = l
  <2> TAKE l \in Lanes
  <2> TAKE i \in 1..Len(queue'[l])
  <2>1. CASE l = m /\ i = Len(queue[m]) + 1
    BY <1>1, <1>3, <2>1 DEF m
  <2>2. CASE ~(l = m /\ i = Len(queue[m]) + 1)
    <3>1. i \in 1..Len(queue[l]) /\ queue'[l][i] = queue[l][i]
      BY <1>3, <2>2
    <3> QED BY <1>1, <1>6, <3>1
  <2> QED BY <2>1, <2>2
<1>8. \A l \in Lanes : \A i, j \in 1..Len(queue'[l]) :
         queue'[l][i] = queue'[l][j] => i = j
  <2> TAKE l \in Lanes
  <2>1. CASE l # m
    BY <1>3, <2>1 DEF LimiterInv, QueuesExact
  <2>2. CASE l = m
    <3>1. \A i, j \in 1..Len(queue[m]) : queue[m][i] = queue[m][j] => i = j
      BY <1>0, <2>2 DEF LimiterInv, QueuesExact
    <3> QED BY <1>3, <1>6, <2>2, <3>1
  <2> QED BY <2>1, <2>2
<1>9. \A q \in Requests : state'[q] = "queued" =>
         \E i \in 1..Len(queue'[Lane(q)]) : queue'[Lane(q)][i] = q
  <2> TAKE q \in Requests
  <2> HAVE state'[q] = "queued"
  <2>1. CASE q = r
    BY <1>3, <2>1 DEF m
  <2>2. CASE q # r
    <3>1. PICK i \in 1..Len(queue[Lane(q)]) : queue[Lane(q)][i] = q
      BY <1>1, <2>2 DEF LimiterInv, QueuesExact
    <3>2. i \in 1..Len(queue'[Lane(q)]) /\ queue'[Lane(q)][i] = q
      BY <1>3, <3>1, LaneTypes
    <3> QED BY <3>2
  <2> QED BY <2>1, <2>2
<1>10. QueuesExact'
  BY <1>7, <1>8, <1>9 DEF QueuesExact
<1> QED BY <1>4, <1>5, <1>10 DEF LimiterInv

\* An item that is taken out of its lane, at the front or in the middle, leaves
\* the others queued, each one once.
LEMMA ItemLeaves ==
    ASSUME LimiterInv, NEW r \in Requests, NEW k \in 1..Len(queue[Lane(r)]),
           queue[Lane(r)][k] = r,
           queue' = [queue EXCEPT ![Lane(r)] = Cut(queue[Lane(r)], k)],
           \A q \in Requests \ {r} : state'[q] = state[q],
           state'[r] # "queued"
    PROVE  QueuesExact' /\ queue' \in [Lanes -> Seq(Requests)]
<1> DEFINE m == Lane(r)
           old == queue[m]
           new == queue'[m]
<1>0. m \in Lanes /\ queue \in [Lanes -> Seq(Requests)] /\ old \in Seq(Requests)
  BY LaneTypes DEF LimiterInv, TypeOK
<1>1. /\ new = Cut(old, k)
      /\ \A l \in Lanes \ {m} : queue'[l] = queue[l]
  BY <1>0
<1>2. /\ new \in Seq(Requests)
      /\ Len(new) = Len(old) - 1
      /\ \A j \in 1..(Len(old) - 1) : new[j] = IF j < k THEN old[j] ELSE old[j + 1]
  BY <1>0, <1>1, CutProperties
<1>3. queue' \in [Lanes -> Seq(Requests)]
  BY <1>0, <1>2
<1>4. Len(old) \in Nat /\ k \in 1..Len(old) /\ old[k] = r
  BY <1>0
<1>5. \A l \in Lanes : \A i \in 1..Len(queue[l]) :
         queue[l][i] \in Requests /\ state[queue[l][i]] = "queued"
         /\ Lane(queue[l][i]) = l
  BY <1>0 DEF LimiterInv, QueuesExact
<1>6. \A i, j \in 1..Len(old) : old[i] = old[j] => i = j
  BY <1>0 DEF LimiterInv, QueuesExact
<1> HIDE DEF m, old, new
\* Where each remaining item came from.
<1>7. \A j \in 1..Len(new) : \E i \in 1..Len(old) : 
         /\ i # k /\ new[j] = old[i] /\ i = IF j < k THEN j ELSE j + 1
  BY <1>2, <1>4
<1>8. \A l \in Lanes : \A j \in 1..Len(queue'[l]) :
         state'[queue'[l][j]] = "queued" /\ Lane(queue'[l][j]) = l
  <2> TAKE l \in Lanes
  <2> TAKE j \in 1..Len(queue'[l])
  <2>1. CASE l = m
    <3>1. PICK i \in 1..Len(old) : i # k /\ new[j] = old[i]
      BY <1>7, <2>1 DEF new
    <3>2. old[i] # r
      BY <1>4, <1>6, <3>1
    <3> QED BY <1>0, <1>5, <2>1, <3>1, <3>2 DEF old, new
  <2>2. CASE l # m
    <3>1. queue'[l] = queue[l] /\ Lane(queue[l][j]) = l /\ queue[l][j] \in Requests
      BY <1>1, <1>5, <2>2
    <3>2. queue[l][j] # r
      BY <2>2, <3>1 DEF m
    <3> QED BY <1>5, <3>1, <3>2
  <2> QED BY <2>1, <2>2
<1>9. \A l \in Lanes : \A i, j \in 1..Len(queue'[l]) :
         queue'[l][i] = queue'[l][j] => i = j
  <2> TAKE l \in Lanes
  <2>1. CASE l = m
    <3> SUFFICES ASSUME NEW i \in 1..Len(new), NEW j \in 1..Len(new), new[i] = new[j]
                 PROVE  i = j
      BY <2>1 DEF new
    <3>1. PICK a \in 1..Len(old) : new[i] = old[a] /\ a = IF i < k THEN i ELSE i + 1
      BY <1>7
    <3>2. PICK b \in 1..Len(old) : new[j] = old[b] /\ b = IF j < k THEN j ELSE j + 1
      BY <1>7
    <3>3. a = b
      BY <1>6, <3>1, <3>2
    <3> QED BY <1>2, <1>4, <3>1, <3>2, <3>3
  <2>2. CASE l # m
    BY <1>1, <2>2 DEF LimiterInv, QueuesExact
  <2> QED BY <2>1, <2>2
<1>10. \A q \in Requests : state'[q] = "queued" =>
          \E j \in 1..Len(queue'[Lane(q)]) : queue'[Lane(q)][j] = q
  <2> TAKE q \in Requests
  <2> HAVE state'[q] = "queued"
  <2>1. PICK i \in 1..Len(queue[Lane(q)]) : queue[Lane(q)][i] = q
    BY DEF LimiterInv, QueuesExact
  <2>2. q # r
    OBVIOUS
  <2>3. CASE Lane(q) # m
    BY <1>1, <2>1, <2>3, LaneTypes
  <2>4. CASE Lane(q) = m
    <3>1. i \in 1..Len(old) /\ old[i] = q /\ i # k
      BY <1>4, <2>1, <2>2, <2>4 DEF old
    <3> DEFINE j == IF i < k THEN i ELSE i - 1
    <3>2. j \in 1..Len(new) /\ new[j] = q
      BY <1>2, <1>4, <3>1
    <3> QED BY <2>4, <3>2 DEF new
  <2> QED BY <2>3, <2>4
<1> QED BY <1>3, <1>8, <1>9, <1>10 DEF QueuesExact

\* A request whose wait is over leaves its lane and nothing else.
LEMMA ExpireStep ==
    ASSUME LimiterInv, NEW r \in Requests, Expire(r)
    PROVE  LimiterInv'
<1>1. \A q \in Requests : state'[q] = IF q = r THEN "expired" ELSE state[q]
  BY DEF LimiterInv, TypeOK, Expire
<1>2. PICK k \in 1..Len(queue[Lane(r)]) :
         /\ queue[Lane(r)][k] = r
         /\ queue' = [queue EXCEPT ![Lane(r)] = Cut(queue[Lane(r)], k)]
  BY DEF Expire
<1>3. QueuesExact' /\ queue' \in [Lanes -> Seq(Requests)]
  BY <1>1, <1>2, ItemLeaves
<1>4. TypeOK'
  BY <1>3 DEF LimiterInv, TypeOK, Expire, Outcomes
<1>5. SlotsAccounted'
  <2>1. \A q \in Requests : InSlot(q)' = InSlot(q)
    BY <1>1 DEF InSlot, Expire
  <2> QED BY <2>1, SlotsKept DEF LimiterInv, SlotsAccounted, Expire
<1> QED BY <1>3, <1>4, <1>5 DEF LimiterInv

\* The tail of a sequence is what the first cut leaves.
LEMMA TailIsCut ==
    ASSUME NEW S, NEW q \in Seq(S), q # <<>>
    PROVE  Tail(q) = Cut(q, 1) /\ Head(q) = q[1] /\ 1 \in 1..Len(q)
<1>1. Tail(q) = [i \in 1..(Len(q) - 1) |-> q[i + 1]]
  <2> DEFINE t == Tail(q)
  <2>1. /\ t \in Seq(S)
        /\ Len(t) = Len(q) - 1
        /\ \A i \in 1..Len(t) : t[i] = q[i + 1]
    BY HeadTailProperties
  <2> HIDE DEF t
  <2>2. t = [i \in 1..Len(t) |-> t[i]]
    BY <2>1
  <2>3. t = [i \in 1..Len(t) |-> q[i + 1]]
    BY <2>1, <2>2
  <2> QED BY <2>1, <2>3 DEF t
<1>2. Cut(q, 1) = [i \in 1..(Len(q) - 1) |-> q[i + 1]]
  BY DEF Cut
<1> QED BY <1>1, <1>2

\* The request that is dispatched is the first one of its own lane, and queued.
LEMMA PeekedIsFirst ==
    ASSUME LimiterInv, Waiting
    PROVE  /\ Peeked \in Requests
           /\ queue[Lane(Peeked)] # <<>>
           /\ Peeked = Head(queue[Lane(Peeked)])
           /\ state[Peeked] = "queued"
<1>0. queue["SELL"] \in Seq(Requests) /\ queue["BUY"] \in Seq(Requests)
  BY DEF LimiterInv, TypeOK, Lanes
<1>1. ASSUME NEW l \in Lanes, queue[l] # <<>>
      PROVE  /\ Head(queue[l]) \in Requests
             /\ Lane(Head(queue[l])) = l
             /\ state[Head(queue[l])] = "queued"
  <2>1. queue[l] \in Seq(Requests)
    BY DEF LimiterInv, TypeOK
  <2>2. Head(queue[l]) = queue[l][1] /\ 1 \in 1..Len(queue[l])
    BY <1>1, <2>1, TailIsCut
  <2> QED BY <2>1, <2>2 DEF LimiterInv, QueuesExact
<1>2. CASE queue["SELL"] # <<>>
  BY <1>1, <1>2 DEF Peeked, Lanes
<1>3. CASE queue["SELL"] = <<>>
  BY <1>1, <1>3 DEF Peeked, Lanes, Waiting
<1> QED BY <1>2, <1>3

\* A dispatch moves the first request of a lane with a free slot into a slot.
LEMMA DispatchStep ==
    ASSUME LimiterInv, NEW r \in Requests, Dispatch(r)
    PROVE  LimiterInv'
<1>1. /\ Waiting /\ r = Peeked /\ inFlight[Lane(r)] < Cap
      /\ queue' = [queue EXCEPT ![Lane(r)] = Tail(queue[Lane(r)])]
      /\ inFlight' = [inFlight EXCEPT ![Lane(r)] = inFlight[Lane(r)] + 1]
  BY DEF Dispatch, HasSlot
<1>2. \A q \in Requests : state'[q] = IF q = r THEN "executing" ELSE state[q]
  BY DEF LimiterInv, TypeOK, Dispatch
<1>3. state[r] = "queued" /\ queue[Lane(r)] # <<>> /\ r = Head(queue[Lane(r)])
  BY <1>1, PeekedIsFirst
<1>4. queue[Lane(r)] \in Seq(Requests) /\ Lane(r) \in Lanes /\ Family(r) \in Families
  BY LaneTypes DEF LimiterInv, TypeOK
<1>5. QueuesExact' /\ queue' \in [Lanes -> Seq(Requests)]
  <2>1. /\ Tail(queue[Lane(r)]) = Cut(queue[Lane(r)], 1)
        /\ queue[Lane(r)][1] = r /\ 1 \in 1..Len(queue[Lane(r)])
    BY <1>3, <1>4, TailIsCut
  <2> QED BY <1>1, <1>2, <2>1, ItemLeaves
<1>6. TypeOK'
  <2>1. inFlight' \in [Lanes -> Nat] /\ since' \in [Families -> 0..MinDelay]
    BY <1>1, <1>4, TimesAssumption DEF LimiterInv, TypeOK, Dispatch
  <2>2. timer' \in [Requests -> Nat] /\ attempt' \in [Requests -> Nat]
    BY TimesAssumption DEF LimiterInv, TypeOK, Dispatch
  <2> QED BY <1>5, <2>1, <2>2 DEF LimiterInv, TypeOK, Dispatch
<1>7. SlotsAccounted'
  <2>1. ~InSlot(r) /\ InSlot(r)' /\ \A q \in Requests \ {r} : InSlot(q)' = InSlot(q)
    BY <1>2, <1>3 DEF InSlot
  <2>2. /\ Cardinality(InSlots(Lane(r)))' = Cardinality(InSlots(Lane(r))) + 1
        /\ \A l \in Lanes \ {Lane(r)} : InSlots(l)' = InSlots(l)
    BY <2>1, SlotTaken
  <2>3. inFlight'[Lane(r)] = inFlight[Lane(r)] + 1 /\ inFlight'[Lane(r)] <= Cap
        /\ \A l \in Lanes \ {Lane(r)} : inFlight'[l] = inFlight[l]
    BY <1>1, <1>4, LimitsAssumption DEF LimiterInv, TypeOK
  <2>4. inFlight[Lane(r)] = Cardinality(InSlots(Lane(r)))
    BY <1>4 DEF LimiterInv, SlotsAccounted
  <2> QED BY <2>2, <2>3, <2>4 DEF LimiterInv, SlotsAccounted
<1> QED BY <1>5, <1>6, <1>7 DEF LimiterInv

\* A request that is settled gives its slot back.
LEMMA SettleStep ==
    ASSUME LimiterInv, NEW r \in Requests, NEW outcome \in Outcomes,
           state[r] = "executing", Settle(r, outcome)
    PROVE  LimiterInv'
<1>1. \A q \in Requests : state'[q] = IF q = r THEN outcome ELSE state[q]
  BY DEF LimiterInv, TypeOK, Settle
<1>2. outcome \notin {"queued", "executing", "backoff"} /\ UNCHANGED queue
  BY DEF Outcomes, Settle, dispatcher
<1>3. Lane(r) \in Lanes
  BY LaneTypes
<1>4. QueuesExact'
  <2>1. \A l \in Lanes : \A i \in 1..Len(queue[l]) : queue[l][i] \in Requests
    BY DEF LimiterInv, TypeOK
  <2> QED BY <1>1, <1>2, <2>1 DEF LimiterInv, QueuesExact
<1>5. InSlot(r) /\ ~InSlot(r)' /\ \A q \in Requests \ {r} : InSlot(q)' = InSlot(q)
  BY <1>1, <1>2 DEF InSlot
<1>6. /\ Cardinality(InSlots(Lane(r)))' = Cardinality(InSlots(Lane(r))) - 1
      /\ Cardinality(InSlots(Lane(r))) > 0
      /\ \A l \in Lanes \ {Lane(r)} : InSlots(l)' = InSlots(l)
  BY <1>5, SlotReleased
<1>7. /\ inFlight'[Lane(r)] = inFlight[Lane(r)] - 1
      /\ \A l \in Lanes \ {Lane(r)} : inFlight'[l] = inFlight[l]
      /\ inFlight[Lane(r)] = Cardinality(InSlots(Lane(r)))
      /\ inFlight[Lane(r)] \in Nat /\ inFlight[Lane(r)] <= Cap
  BY <1>3 DEF LimiterInv, TypeOK, SlotsAccounted, Settle
<1>8. TypeOK'
  <2>1. inFlight'[Lane(r)] \in Nat
    BY <1>6, <1>7
  <2>2. inFlight' \in [Lanes -> Nat]
    BY <1>3, <2>1 DEF LimiterInv, TypeOK, Settle
  <2>3. timer' \in [Requests -> Nat] /\ state' \in [Requests -> States]
    BY DEF LimiterInv, TypeOK, Settle, States
  <2> QED BY <2>2, <2>3 DEF LimiterInv, TypeOK, Settle, dispatcher, States
<1>9. SlotsAccounted'
  BY <1>6, <1>7, LimitsAssumption DEF LimiterInv, SlotsAccounted
<1> QED BY <1>4, <1>8, <1>9 DEF LimiterInv

\* Products of natural numbers, for the growing backoff.
LEMMA ProductType == \A m, n \in Nat : m * n \in Nat
OBVIOUS

\* A rate-limited sell keeps its slot while it waits and while it tries again.
LEMMA RetryStep ==
    ASSUME LimiterInv, NEW r \in Requests, BackOff(r) \/ Retry(r)
    PROVE  LimiterInv'
<1>1. UNCHANGED <<queue, inFlight>>
  BY DEF BackOff, Retry, dispatcher
<1>2. \A q \in Requests \ {r} : state'[q] = state[q]
  BY DEF LimiterInv, TypeOK, BackOff, Retry
<1>3. InSlot(r) /\ InSlot(r)' /\ state'[r] \in {"executing", "backoff"}
  BY DEF LimiterInv, TypeOK, BackOff, Retry, Executing, InSlot
<1>4. QueuesExact'
  <2>1. \A l \in Lanes : \A i \in 1..Len(queue[l]) :
           queue[l][i] \in Requests /\ queue[l][i] # r
    BY <1>3 DEF LimiterInv, TypeOK, QueuesExact, InSlot
  <2> QED BY <1>1, <1>2, <1>3, <2>1 DEF LimiterInv, QueuesExact
<1>5. SlotsAccounted'
  <2>1. \A q \in Requests : InSlot(q)' = InSlot(q)
    BY <1>2, <1>3 DEF InSlot
  <2> QED BY <1>1, <2>1, SlotsKept DEF LimiterInv, SlotsAccounted
<1>6. TypeOK'
  <2>1. CASE BackOff(r)
    <3>1. attempt[r] * Backoff \in Nat
      BY ProductType, TimesAssumption DEF LimiterInv, TypeOK
    <3>2. timer' = [timer EXCEPT ![r] = attempt[r] * Backoff]
      BY <2>1 DEF BackOff
    <3>3. timer' \in [Requests -> Nat]
      BY <3>1, <3>2 DEF LimiterInv, TypeOK
    <3> QED BY <2>1, <3>3 DEF LimiterInv, TypeOK, BackOff, dispatcher
  <2>2. CASE Retry(r)
    <3>1. since' \in [Families -> 0..MinDelay]
      BY <2>2, LaneTypes, TimesAssumption DEF LimiterInv, TypeOK, Retry
    <3>2. timer' \in [Requests -> Nat] /\ attempt' \in [Requests -> Nat]
      BY <2>2, TimesAssumption DEF LimiterInv, TypeOK, Retry
    <3> QED BY <2>2, <3>1, <3>2 DEF LimiterInv, TypeOK, Retry
  <2> QED BY <2>1, <2>2
<1> QED BY <1>4, <1>5, <1>6 DEF LimiterInv

\* Every step keeps the invariant.
LEMMA LimiterNext == LimiterInv /\ [Next]_vars => LimiterInv'
<1> SUFFICES ASSUME LimiterInv, [Next]_vars PROVE LimiterInv'
  OBVIOUS
<1>1. CASE Loop
  BY <1>1, SleepStep, DispatchStep DEF Loop
<1>2. CASE Tick
  BY <1>2, TickStep
<1>3. ASSUME NEW r \in Requests, RejectFull(r) \/ Enqueue(r) \/ Timers(r) \/ Remote(r)
      PROVE  LimiterInv'
  <2>1. CASE RejectFull(r) \/ Enqueue(r)
    BY <2>1, RejectStep, EnqueueStep
  <2>2. CASE Expire(r)
    BY <2>2, ExpireStep
  <2>3. CASE Retry(r) \/ BackOff(r)
    BY <2>3, RetryStep
  <2>4. CASE Respond(r) \/ Fail(r) \/ Throttled(r) \/ DeadlineFires(r)
    <3>1. PICK outcome \in Outcomes : state[r] = "executing" /\ Settle(r, outcome)
      BY <2>4 DEF Respond, Fail, Throttled, DeadlineFires, Executing, Outcomes
    <3> QED BY <3>1, SettleStep
  <2> QED BY <1>3, <2>1, <2>2, <2>3, <2>4 DEF Timers, Remote
<1>4. CASE UNCHANGED vars
  <2>1. TypeOK'
    BY <1>4 DEF vars, LimiterInv, TypeOK
  <2> QED BY <1>4, <2>1, QuietKeepsQueues DEF vars, LimiterInv
<1> QED BY <1>1, <1>2, <1>3, <1>4 DEF Next

\* The invariant holds of every behaviour.
LEMMA LimiterInvariant == Spec => []LimiterInv
BY LimiterInit, LimiterNext, PTL DEF Spec

\* Every reachable state of the limiter is well typed; in particular a counter
\* never goes below zero and a timer is never in the past.
THEOREM LimiterTypeCorrect == Spec => []TypeOK
<1>1. LimiterInv => TypeOK
  BY DEF LimiterInv
<1> QED BY <1>1, LimiterInvariant, PTL

\* The in-flight counters count the requests in flight and respect the cap,
\* whatever the caps, the retries and the failures are.
THEOREM SlotsAreAccounted == Spec => []SlotsAccounted
<1>1. LimiterInv => SlotsAccounted
  BY DEF LimiterInv
<1> QED BY <1>1, LimiterInvariant, PTL

------------------------------------------------------------------------------
(* No lost wake-up *)

\* processing is false only while both lanes are empty, so a request that is
\* queued always has a loop that will look at it.
THEOREM WakeupNeverLost == Spec => []NoLostWakeup
<1>1. Init => NoLostWakeup
  BY DEF Init, NoLostWakeup, Waiting, Lanes
<1>2. ASSUME LimiterInv, NoLostWakeup, [Next]_vars PROVE NoLostWakeup'
  <2>1. CASE UNCHANGED <<queue, loop>>
    BY <1>2, <2>1 DEF NoLostWakeup, Waiting
  <2>2. ASSUME NEW r \in Requests, Enqueue(r) PROVE NoLostWakeup'
    BY <2>2 DEF Enqueue, NoLostWakeup
  <2>3. ASSUME NEW r \in Requests, Expire(r) PROVE NoLostWakeup'
    <3>1. CASE loop # "off"
      BY <2>3, <3>1 DEF Expire, NoLostWakeup
    <3>2. CASE loop = "off"
      <4>1. queue["SELL"] = <<>> /\ queue["BUY"] = <<>>
        BY <1>2, <3>2 DEF NoLostWakeup, Waiting
      <4>2. \A i \in 1..Len(queue[Lane(r)]) : FALSE
        <5>1. queue[Lane(r)] = <<>>
          BY <4>1 DEF Lane
        <5>2. Len(queue[Lane(r)]) = 0
          BY <5>1, EmptySeq
        <5> QED BY <5>2
      <4> QED BY <2>3, <4>2 DEF Expire
    <3> QED BY <3>1, <3>2
  <2>4. CASE Wake \/ WaitForSlot \/ WaitForSpacing \/ \E r \in Requests : Dispatch(r)
    BY <2>4 DEF Wake, WaitForSlot, WaitForSpacing, Sleep, Dispatch, NoLostWakeup
  <2>5. CASE Finish
    BY <2>5 DEF Finish, Sleep, NoLostWakeup, Waiting
  <2> QED
    BY <1>2, <2>1, <2>2, <2>3, <2>4, <2>5
    DEF Next, Loop, Timers, Remote, RejectFull, Tick, Retry, BackOff, Respond,
        Fail, Throttled, DeadlineFires, Settle, dispatcher, vars
<1> QED BY <1>1, <1>2, LimiterInvariant, PTL DEF Spec

------------------------------------------------------------------------------
(* The limiter implements PriorityLanes *)

\* A request that nobody but r changes is where it was, for the abstract lanes.
LEMMA OnlyOneMoves ==
    ASSUME LimiterInv, NEW r \in Requests, NEW s \in States,
           state' = [state EXCEPT ![r] = s]
    PROVE  /\ \A q \in Requests : state'[q] = IF q = r THEN s ELSE state[q]
           /\ Requests = Sells \union Buys
BY DEF LimiterInv, TypeOK, Requests

\* A dispatch starts its request, and a buy only when no sell is queued.
LEMMA DispatchStarts ==
    ASSUME LimiterInv, NEW r \in Requests, Dispatch(r)
    PROVE  Promise!Start(r)
<1> DEFINE waiting == {q \in Requests : state[q] = "queued"}
           running == {q \in Requests : InSlot(q)}
<1>1. Waiting /\ r = Peeked /\ inFlight[Lane(r)] < Cap
      /\ state' = [state EXCEPT ![r] = "executing"]
  BY DEF Dispatch, HasSlot
<1>2. state[r] = "queued"
  BY <1>1, PeekedIsFirst
<1>3. \A q \in Requests : state'[q] = IF q = r THEN "executing" ELSE state[q]
  BY <1>1, OnlyOneMoves DEF States
<1>4. r \in Sells \/ waiting \intersect Sells = {}
  <2>1. CASE queue["SELL"] # <<>>
    <3>1. queue["SELL"] \in Seq(Requests)
      BY DEF LimiterInv, TypeOK, Lanes
    <3>2. r = queue["SELL"][1] /\ 1 \in 1..Len(queue["SELL"])
      BY <1>1, <2>1, <3>1, TailIsCut DEF Peeked
    <3>3. Lane(r) = "SELL"
      BY <3>2 DEF LimiterInv, QueuesExact, Lanes
    <3> QED BY <3>3 DEF Lane
  <2>2. CASE queue["SELL"] = <<>>
    <3>1. ASSUME NEW q \in waiting \intersect Sells PROVE FALSE
      <4>1. Lane(q) = "SELL" /\ q \in Requests /\ state[q] = "queued"
        BY DEF Lane
      <4>2. Len(queue["SELL"]) = 0
        BY <2>2, EmptySeq
      <4>3. PICK i \in 1..Len(queue[Lane(q)]) : queue[Lane(q)][i] = q
        BY <4>1 DEF LimiterInv, QueuesExact
      <4> QED BY <4>1, <4>2, <4>3
    <3> QED BY <3>1
  <2> QED BY <2>1, <2>2
<1>5. Cardinality(running \intersect Promise!LaneOf(r)) < Cap
  <2>1. running \intersect Promise!LaneOf(r) = InSlots(Lane(r))
    BY LanesAssumption DEF Promise!LaneOf, InSlots, Lane, Requests
  <2>2. inFlight[Lane(r)] = Cardinality(InSlots(Lane(r)))
    BY LaneTypes DEF LimiterInv, SlotsAccounted
  <2> QED BY <1>1, <2>1, <2>2
<1>6. r \in waiting
  BY <1>2
<1>7. /\ {q \in Requests : state'[q] = "queued"} = waiting \ {r}
      /\ {q \in Requests : InSlot(q)}' = running \union {r}
      /\ {q \in Requests : Settled(q)}' = {q \in Requests : Settled(q)}
  BY <1>2, <1>3 DEF InSlot, Settled, Outcomes
<1>8. \A S : Promise!Cardinality(S) = Cardinality(S)
  BY DEF Promise!Cardinality, Cardinality
<1> QED BY <1>4, <1>5, <1>6, <1>7, <1>8 DEF Promise!Start

\* A settlement finishes its request.
LEMMA SettleFinishes ==
    ASSUME LimiterInv, NEW r \in Requests, NEW outcome \in Outcomes,
           state[r] = "executing", Settle(r, outcome)
    PROVE  Promise!Finish(r)
<1>1. \A q \in Requests : state'[q] = IF q = r THEN outcome ELSE state[q]
  BY OnlyOneMoves DEF Settle, States
<1>2. outcome \notin {"queued", "executing", "backoff"}
  BY DEF Outcomes
<1>3. /\ r \in {q \in Requests : InSlot(q)}
      /\ {q \in Requests : InSlot(q)}' = {q \in Requests : InSlot(q)} \ {r}
      /\ {q \in Requests : Settled(q)}' = {q \in Requests : Settled(q)} \union {r}
      /\ {q \in Requests : state'[q] = "queued"} = {q \in Requests : state[q] = "queued"}
  BY <1>1, <1>2 DEF InSlot, Settled
<1> QED BY <1>3 DEF Promise!Finish

\* Whatever moves no request, and a slot kept during a backoff, is invisible.
LEMMA BackoffInvisible ==
    ASSUME LimiterInv, NEW r \in Requests, BackOff(r) \/ Retry(r)
    PROVE  UNCHANGED Promise!lanes
<1>1. PICK s \in {"executing", "backoff"} : state' = [state EXCEPT ![r] = s]
  BY DEF BackOff, Retry
<1>2. \A q \in Requests : state'[q] = IF q = r THEN s ELSE state[q]
  BY <1>1, OnlyOneMoves DEF States
<1>3. state[r] \in {"executing", "backoff"}
  BY DEF BackOff, Retry, Executing
<1>4. /\ {q \in Requests : InSlot(q)}' = {q \in Requests : InSlot(q)}
      /\ {q \in Requests : Settled(q)}' = {q \in Requests : Settled(q)}
      /\ {q \in Requests : state'[q] = "queued"} = {q \in Requests : state[q] = "queued"}
  BY <1>2, <1>3 DEF InSlot, Settled, Outcomes
<1> QED BY <1>4 DEF Promise!lanes

\* The first, last and middle steps of a request that never gets a slot.
LEMMA QueueStepsKeepPromise ==
    ASSUME LimiterInv, NEW r \in Requests, RejectFull(r) \/ Enqueue(r) \/ Expire(r)
    PROVE  Promise!Arrive(r) \/ Promise!Refuse(r) \/ Promise!GiveUp(r)
<1>1. CASE RejectFull(r)
  <2>1. state[r] = "new"
        /\ \A q \in Requests : state'[q] = IF q = r THEN "rejected" ELSE state[q]
    BY <1>1, OnlyOneMoves DEF RejectFull, States, Outcomes
  <2>2. Promise!Refuse(r)
    BY <2>1 DEF Promise!Refuse, InSlot, Settled, Outcomes
  <2> QED BY <2>2
<1>2. CASE Enqueue(r)
  <2>1. state[r] = "new"
        /\ \A q \in Requests : state'[q] = IF q = r THEN "queued" ELSE state[q]
    BY <1>2, OnlyOneMoves DEF Enqueue, States
  <2>2. Promise!Arrive(r)
    BY <2>1 DEF Promise!Arrive, InSlot, Settled, Outcomes
  <2> QED BY <2>2
<1>3. CASE Expire(r)
  <2>1. state[r] = "queued"
        /\ \A q \in Requests : state'[q] = IF q = r THEN "expired" ELSE state[q]
    <3>1. state[r] = "queued" /\ state' = [state EXCEPT ![r] = "expired"]
      BY <1>3 DEF Expire
    <3>2. "expired" \in States
      BY DEF States, Outcomes
    <3> QED BY <3>1, <3>2, OnlyOneMoves
  <2>2. Promise!GiveUp(r)
    BY <2>1 DEF Promise!GiveUp, InSlot, Settled, Outcomes
  <2> QED BY <2>2
<1> QED BY <1>1, <1>2, <1>3

\* The limiter implements PriorityLanes: a sell that is queued goes before every
\* buy, no lane exceeds its cap, and a request is settled once.
THEOREM LimiterKeepsPromise == Spec => ImplementsLanes
<1>1. Init => Promise!LanesInit
  BY DEF Init, Promise!LanesInit, InSlot, Settled, Outcomes
<1>2. ASSUME LimiterInv, [Next]_vars
      PROVE  [Promise!LanesNext]_(Promise!lanes)
  <2>1. CASE UNCHANGED state
    BY <2>1 DEF Promise!lanes, InSlot, Settled
  <2>2. ASSUME NEW r \in Requests, Dispatch(r)
        PROVE  Promise!LanesNext
    BY <1>2, <2>2, DispatchStarts DEF Promise!LanesNext, Requests
  <2>3. ASSUME NEW r \in Requests, RejectFull(r) \/ Enqueue(r) \/ Expire(r)
        PROVE  Promise!LanesNext
    BY <1>2, <2>3, QueueStepsKeepPromise DEF Promise!LanesNext, Requests
  <2>4. ASSUME NEW r \in Requests,
               Respond(r) \/ Fail(r) \/ Throttled(r) \/ DeadlineFires(r)
        PROVE  Promise!LanesNext
    <3>1. PICK outcome \in Outcomes : state[r] = "executing" /\ Settle(r, outcome)
      BY <2>4 DEF Respond, Fail, Throttled, DeadlineFires, Executing, Outcomes
    <3>2. Promise!Finish(r)
      BY <1>2, <3>1, SettleFinishes
    <3> QED BY <3>2 DEF Promise!LanesNext, Requests
  <2>5. ASSUME NEW r \in Requests, BackOff(r) \/ Retry(r)
        PROVE  UNCHANGED Promise!lanes
    BY <1>2, <2>5, BackoffInvisible
  <2>6. CASE Wake \/ Finish \/ WaitForSlot \/ WaitForSpacing \/ Tick \/ UNCHANGED vars
    <3>1. UNCHANGED state
      BY <2>6 DEF Wake, Finish, WaitForSlot, WaitForSpacing, Sleep, Tick, vars
    <3> QED BY <2>1, <3>1
  <2> QED BY <1>2, <2>2, <2>3, <2>4, <2>5, <2>6 DEF Next, Loop, Timers, Remote
<1> QED BY <1>1, <1>2, LimiterInvariant, PTL DEF Spec, ImplementsLanes, Promise!LanesSpec

------------------------------------------------------------------------------
(* Buys never hold back a sell *)

\* How often a request was executed tells where it can be, and only sells wait
\* for a retry.
AttemptsInv ==
    /\ \A r \in Requests : state[r] \in {"new", "queued", "expired"} => attempt[r] = 0
    /\ \A r \in Requests : InSlot(r) => attempt[r] > 0
    /\ \A r \in Requests : state[r] = "backoff" => r \in Sells

NoSellExecuted == \A q \in Sells : attempt[q] = 0

\* Until the first sell executes, every sell that waits outlasts the sleep the
\* loop is in and the spacing of either family.
SellsOutlast ==
    /\ nap <= Poll \/ nap <= MinDelay
    /\ NoSellExecuted => \A r \in Sells :
          /\ state[r] # "expired"
          /\ state[r] = "queued" =>
                nap < timer[r] /\ \A f \in Families : MinDelay - since[f] < timer[r]

PatientInv == LimiterInv /\ NoLostWakeup /\ AttemptsInv /\ SellsOutlast

\* A step of one request says where it is and how often it was executed.
LEMMA AttemptsNext ==
    ASSUME LimiterInv, AttemptsInv, [Next]_vars
    PROVE  AttemptsInv' /\ \A q \in Requests : attempt'[q] = 0 => attempt[q] = 0
<1>0. state \in [Requests -> States] /\ attempt \in [Requests -> Nat]
  BY DEF LimiterInv, TypeOK, States
<1> DEFINE Kept(q) == state'[q] = state[q] /\ attempt'[q] = attempt[q]
           Right(q) == /\ state'[q] \in {"new", "queued", "expired"} => attempt'[q] = 0
                       /\ state'[q] \in {"executing", "backoff"} => attempt'[q] > 0
                       /\ state'[q] = "backoff" => q \in Sells
                       /\ attempt'[q] = 0 => attempt[q] = 0
<1>1. ASSUME NEW q \in Requests, Kept(q) PROVE Right(q)
  BY <1>1 DEF AttemptsInv, InSlot
<1>2. ASSUME NEW r \in Requests,
             \/ Dispatch(r) \/ RejectFull(r) \/ Enqueue(r) \/ Timers(r) \/ Remote(r)
      PROVE  Right(r) /\ \A q \in Requests \ {r} : Kept(q)
  <2>1. CASE Dispatch(r)
    BY <1>0, <2>1 DEF Dispatch
  <2>2. CASE RejectFull(r) \/ Enqueue(r) \/ Expire(r)
    BY <1>0, <2>2 DEF RejectFull, Enqueue, Expire, AttemptsInv
  <2>3. CASE Retry(r)
    BY <1>0, <2>3 DEF Retry
  <2>4. CASE BackOff(r)
    BY <1>0, <2>4 DEF BackOff, Executing, AttemptsInv, InSlot
  <2>5. CASE Respond(r) \/ Fail(r) \/ Throttled(r) \/ DeadlineFires(r)
    <3>1. /\ state' = [state EXCEPT ![r] = "resolved"] \/ state' = [state EXCEPT ![r] = "rejected"]
          /\ UNCHANGED attempt
      BY <2>5 DEF Respond, Fail, Throttled, DeadlineFires, Settle
    <3> QED BY <1>0, <3>1
  <2> QED BY <1>2, <2>1, <2>2, <2>3, <2>4, <2>5 DEF Timers, Remote
<1>3. ASSUME Wake \/ Finish \/ WaitForSlot \/ WaitForSpacing \/ Tick \/ UNCHANGED vars
      PROVE  \A q \in Requests : Kept(q)
  BY <1>3 DEF Wake, Finish, WaitForSlot, WaitForSpacing, Sleep, Tick, vars
<1>4. \A q \in Requests : Right(q)
  <2> SUFFICES ASSUME NEW q \in Requests PROVE Right(q)
    OBVIOUS
  <2>1. CASE Kept(q)
    BY <1>1, <2>1
  <2>2. CASE ~Kept(q)
    <3>1. PICK r \in Requests :
             Dispatch(r) \/ RejectFull(r) \/ Enqueue(r) \/ Timers(r) \/ Remote(r)
      BY <1>3, <2>2 DEF Next, Loop
    <3>2. q = r
      BY <1>2, <2>2, <3>1
    <3> QED BY <1>2, <3>1, <3>2
  <2> QED BY <2>1, <2>2
<1> QED BY <1>4 DEF AttemptsInv, InSlot

\* While no sell has executed and one waits, the loop looks at a sell, and
\* there is a slot for it.
LEMMA SellIsNext ==
    ASSUME LimiterInv, AttemptsInv, NoSellExecuted, Cap > 0,
           NEW r \in Sells, state[r] = "queued"
    PROVE  Waiting /\ Peeked \in Sells /\ HasSlot(Peeked)
<1>1. Lane(r) = "SELL" /\ r \in Requests
  BY DEF Lane, Requests
<1>2. queue["SELL"] # <<>>
  <2>1. PICK i \in 1..Len(queue["SELL"]) : queue["SELL"][i] = r
    BY <1>1 DEF LimiterInv, QueuesExact
  <2> QED BY <2>1, EmptySeq
<1>3. Waiting /\ Peeked = Head(queue["SELL"])
  BY <1>2 DEF Waiting, Peeked
<1>4. queue["SELL"] \in Seq(Requests)
  BY DEF LimiterInv, TypeOK, Lanes
<1>5. Peeked = queue["SELL"][1] /\ 1 \in 1..Len(queue["SELL"])
  BY <1>2, <1>3, <1>4, TailIsCut
<1>6. Lane(Peeked) = "SELL"
  BY <1>5 DEF LimiterInv, QueuesExact, Lanes
<1>7. InSlots("SELL") = {}
  BY LanesAssumption DEF InSlots, Lane, NoSellExecuted, AttemptsInv
<1>8. inFlight["SELL"] = 0
  BY <1>7, FS_EmptySet DEF LimiterInv, SlotsAccounted, Lanes
<1>9. Peeked \in Sells
  BY <1>6 DEF Lane
<1> QED BY <1>3, <1>6, <1>8, <1>9 DEF HasSlot

\* Every step keeps it: a sell that is queued gets a full wait, and the sleeps
\* that the loop begins in front of it are shorter than what it has left.
LEMMA OutlastNext ==
    ASSUME PatientInv, [Next]_vars, Cap > 0, SellWait > Poll, SellWait > MinDelay
    PROVE  SellsOutlast'
<1> USE DEF PatientInv
<1>0. /\ state \in [Requests -> States] /\ attempt \in [Requests -> Nat]
      /\ timer \in [Requests -> Nat] /\ nap \in Nat
      /\ since \in [Families -> 0..MinDelay]
      /\ MinDelay \in Nat /\ Poll \in Nat /\ SellWait \in Nat
      /\ Sells \subseteq Requests
  BY TimesAssumption DEF LimiterInv, TypeOK, States, Requests
<1>1. NoSellExecuted' => NoSellExecuted
  BY <1>0, AttemptsNext DEF NoSellExecuted
<1> DEFINE Outlasts(r) == nap < timer[r] /\ \A f \in Families : MinDelay - since[f] < timer[r]
<1>2. ASSUME NoSellExecuted, NEW r \in Sells
      PROVE  state[r] # "expired" /\ (state[r] = "queued" => Outlasts(r))
  BY <1>2 DEF SellsOutlast
\* Steps that change no clock, and of the sells only settle some in a slot.
<1>3. ASSUME UNCHANGED <<since, nap>>,
             \A r \in Sells :
                /\ state'[r] = "queued" => state[r] = "queued" /\ timer'[r] = timer[r]
                /\ state'[r] = "expired" => state[r] = "expired"
      PROVE  SellsOutlast'
  BY <1>1, <1>2, <1>3 DEF SellsOutlast
\* Steps after which a sell has executed.
<1>4. ASSUME ~NoSellExecuted', nap' = nap
      PROVE  SellsOutlast'
  BY <1>4 DEF SellsOutlast
<1>5. CASE Wake \/ Finish
  <2>1. UNCHANGED <<since, state, timer>> /\ (nap' = 0 \/ nap' = nap)
    BY <1>5 DEF Wake, Finish, Sleep
  <2> QED BY <1>0, <1>1, <1>2, <2>1 DEF SellsOutlast
<1>6. CASE WaitForSlot
  <2>1. UNCHANGED <<since, state, timer>> /\ nap' = Poll /\ ~HasSlot(Peeked)
    BY <1>6 DEF WaitForSlot, Sleep
  <2>2. ASSUME NoSellExecuted, NEW r \in Sells PROVE state[r] # "queued"
    BY <2>1, <2>2, SellIsNext
  <2> QED BY <1>0, <1>1, <1>2, <2>1, <2>2 DEF SellsOutlast
<1>7. CASE WaitForSpacing
  <2>1. UNCHANGED <<since, state, timer>> /\ nap' = MinDelay - since[Family(Peeked)]
    BY <1>7 DEF WaitForSpacing, Sleep
  <2>2. Family(Peeked) \in Families
    BY LaneTypes
  <2>3. since[Family(Peeked)] \in 0..MinDelay
    BY <1>0, <2>2
  <2>4. nap' <= MinDelay
    BY <1>0, <2>1, <2>3
  <2> QED BY <1>1, <1>2, <2>1, <2>2, <2>4 DEF SellsOutlast
<1>8. ASSUME NEW r \in Requests, Dispatch(r) PROVE SellsOutlast'
  <2>1. r = Peeked /\ nap' = nap /\ attempt' = [attempt EXCEPT ![r] = 1]
        /\ state' = [state EXCEPT ![r] = "executing"]
    BY <1>8 DEF Dispatch
  <2>2. CASE r \in Sells
    BY <1>0, <1>4, <2>1, <2>2 DEF NoSellExecuted
  <2>3. CASE r \notin Sells
    <3>1. ASSUME NoSellExecuted, NEW q \in Sells PROVE state[q] # "queued"
      BY <2>1, <2>3, <3>1, SellIsNext
    <3>2. \A q \in Sells : state'[q] = state[q]
      BY <1>0, <2>1, <2>3
    <3> QED BY <1>1, <1>2, <2>1, <3>1, <3>2 DEF SellsOutlast
  <2> QED BY <2>2, <2>3
<1>9. ASSUME NEW r \in Requests, Enqueue(r) PROVE SellsOutlast'
  <2>1. /\ state' = [state EXCEPT ![r] = "queued"]
        /\ timer' = [timer EXCEPT ![r] = WaitBudget(r)]
        /\ UNCHANGED since /\ (nap' = nap \/ nap' = 0)
    BY <1>9 DEF Enqueue
  <2>2. nap' <= Poll \/ nap' <= MinDelay
    BY <1>0, <2>1 DEF SellsOutlast
  <2>3. ASSUME NoSellExecuted', NEW q \in Sells
        PROVE  /\ state'[q] # "expired"
               /\ state'[q] = "queued" => Outlasts(q)'
    <3>1. CASE q = r
      <4>1. timer'[q] = SellWait /\ state'[q] = "queued"
        BY <1>0, <2>1, <3>1 DEF WaitBudget
      <4>2. \A f \in Families : since[f] \in 0..MinDelay
        BY <1>0
      <4>3. nap' < SellWait
        BY <1>0, <2>1, <2>2
      <4> QED BY <1>0, <2>1, <4>1, <4>2, <4>3
    <3>2. CASE q # r
      BY <1>0, <1>1, <1>2, <2>1, <2>3, <3>2
    <3> QED BY <3>1, <3>2
  <2> QED BY <2>2, <2>3 DEF SellsOutlast
<1>10. ASSUME NEW r \in Requests, Expire(r) PROVE SellsOutlast'
  <2>1. /\ state[r] = "queued" /\ timer[r] = 0
        /\ state' = [state EXCEPT ![r] = "expired"] /\ UNCHANGED <<since, nap, timer>>
    BY <1>10 DEF Expire
  <2>2. CASE r \in Sells /\ NoSellExecuted
    BY <1>0, <1>2, <2>1, <2>2
  <2>3. CASE r \notin Sells
    BY <1>0, <1>3, <2>1, <2>3
  <2>4. CASE ~NoSellExecuted
    BY <1>1, <1>4, <2>1, <2>4
  <2> QED BY <2>2, <2>3, <2>4
<1>11. ASSUME NEW r \in Requests, Retry(r) PROVE SellsOutlast'
  <2>1. r \in Sells /\ attempt[r] > 0 /\ nap' = nap
    BY <1>11 DEF Retry, AttemptsInv, InSlot
  <2>2. ~NoSellExecuted
    BY <1>0, <2>1 DEF NoSellExecuted
  <2> QED BY <1>1, <1>4, <2>1, <2>2
<1>12. ASSUME NEW r \in Requests, RejectFull(r) \/ BackOff(r) PROVE SellsOutlast'
  <2>1. /\ UNCHANGED <<since, nap>>
        /\ state' = [state EXCEPT ![r] = "rejected"] \/ state' = [state EXCEPT ![r] = "backoff"]
        /\ \A q \in Requests \ {r} : timer'[q] = timer[q]
    BY <1>0, <1>12 DEF RejectFull, BackOff, dispatcher
  <2> QED BY <1>0, <1>3, <2>1
<1>13. ASSUME NEW r \in Requests,
              Respond(r) \/ Fail(r) \/ Throttled(r) \/ DeadlineFires(r)
       PROVE  SellsOutlast'
  <2>1. /\ UNCHANGED <<since, nap>>
        /\ state' = [state EXCEPT ![r] = "rejected"] \/ state' = [state EXCEPT ![r] = "resolved"]
        /\ timer' = [timer EXCEPT ![r] = 0]
    BY <1>13 DEF Respond, Fail, Throttled, DeadlineFires, Settle, dispatcher
  <2> QED BY <1>0, <1>3, <2>1
<1>14. CASE Tick
  <2>1. /\ UNCHANGED state
        /\ timer' = [r \in Requests |-> IF Armed(r) THEN timer[r] - 1 ELSE timer[r]]
        /\ nap' = IF loop \in Asleep THEN nap - 1 ELSE nap
        /\ since' = [f \in Families |-> IF since[f] < MinDelay THEN since[f] + 1 ELSE since[f]]
        /\ loop # "run" /\ (loop \in Asleep => nap > 0)
    BY <1>14 DEF Tick
  <2>2. nap' <= Poll \/ nap' <= MinDelay
    BY <1>0, <2>1 DEF SellsOutlast
  <2>3. ASSUME NoSellExecuted', NEW q \in Sells, state[q] = "queued"
        PROVE  Outlasts(q)'
    <3>0. NoSellExecuted /\ Outlasts(q)
      BY <1>1, <1>2, <2>3
    <3>1. Waiting
      BY <2>3, <3>0, SellIsNext
    <3>2. loop \in Asleep
      BY <2>1, <3>1 DEF NoLostWakeup, LimiterInv, TypeOK
    <3>3. nap' = nap - 1 /\ nap > 0 /\ timer'[q] = timer[q] - 1 /\ timer[q] \in Nat
      BY <1>0, <2>1, <2>3, <3>2 DEF Armed
    <3>4. ASSUME NEW f \in Families PROVE MinDelay - since'[f] < timer'[q]
      <4>1. since[f] \in 0..MinDelay /\ MinDelay - since[f] < timer[q] /\ nap < timer[q]
        BY <1>0, <3>0
      <4>2. since'[f] = IF since[f] < MinDelay THEN since[f] + 1 ELSE since[f]
        BY <2>1
      <4> QED BY <1>0, <3>3, <4>1, <4>2
    <3> QED BY <1>0, <3>0, <3>3, <3>4
  <2> QED BY <1>1, <1>2, <2>1, <2>2, <2>3 DEF SellsOutlast
<1>15. CASE UNCHANGED vars
  BY <1>3, <1>15 DEF vars
<1> QED
  BY <1>5, <1>6, <1>7, <1>8, <1>9, <1>10, <1>11, <1>12, <1>13, <1>14, <1>15
  DEF Next, Loop, Timers, Remote

\* Buys alone never make a sell miss its wait, however many they are, however
\* slow Jupiter answers them and however the lanes fill up: all it takes is
\* one slot and a wait longer than one poll and longer than one spacing.  Only
\* another sell that went first can.
THEOREM SellsNotHeldByBuys ==
    ASSUME Cap > 0, SellWait > Poll, SellWait > MinDelay
    PROVE  Spec => []SellNotHeldByBuys
<1> DEFINE Known == LimiterInv /\ NoLostWakeup
           Inv == AttemptsInv /\ SellsOutlast
<1>1. Init => Inv
  BY TimesAssumption DEF Init, AttemptsInv, SellsOutlast, InSlot, Requests
<1>2. Known /\ Inv /\ [Next]_vars => Inv'
  BY AttemptsNext, OutlastNext DEF PatientInv
<1>3. Known /\ Inv => SellNotHeldByBuys
  <2> SUFFICES ASSUME Known, Inv, NEW r \in Sells, state[r] = "expired"
               PROVE  \E q \in Sells \ {r} : attempt[q] > 0
    BY DEF SellNotHeldByBuys
  <2>1. ~NoSellExecuted
    BY DEF SellsOutlast
  <2>2. attempt[r] = 0
    BY DEF AttemptsInv, Requests
  <2>3. PICK q \in Sells : attempt[q] # 0
    BY <2>1 DEF NoSellExecuted
  <2>4. attempt[q] \in Nat
    BY DEF LimiterInv, TypeOK, Requests
  <2> QED BY <2>2, <2>3, <2>4
<1>4. Spec => []Known
  BY LimiterInvariant, WakeupNeverLost, PTL
<1> QED BY <1>1, <1>2, <1>3, <1>4, PTL DEF Spec

------------------------------------------------------------------------------
(* DexLimiter: the lane keeps its distance between requests.               *)

\* lastRequestTime is the time of the last request.
ClocksAgree ==
    /\ quiet \in Nat /\ elapsed \in Nat /\ wait \in Nat
    /\ quiet = elapsed /\ elapsed <= Gap

\* Whoever waits for a timer waits at least until Gap has passed.
WaitsLongEnough ==
    lane = "pausing" \/ lane = "backing off" => Gap <= elapsed + wait

TriesCounted ==
    lane = "executing" \/ lane = "backing off" => tries \in Nat /\ tries # 0

LaneInv == ClocksAgree /\ WaitsLongEnough /\ TriesCounted /\ crowded = FALSE

LEMMA Longer ==
    ASSUME NEW a \in Nat, NEW b \in Nat, NEW c \in Nat, c >= a
    PROVE  a <= b + c /\ a <= c + b
OBVIOUS

LEMMA Shifted ==
    ASSUME NEW a \in Nat, NEW b \in Nat, NEW c \in Nat, NEW d \in Nat,
           a <= b + c, d + 1 >= c
    PROVE  a <= (b + 1) + d
OBVIOUS

\* The first backoff is not shorter than the pause between requests.
PatientBackoff == DexBackoff >= Gap

LEMMA BackoffIsLong ==
    ASSUME PatientBackoff, NEW n \in Nat, n # 0
    PROVE  n * DexBackoff \in Nat /\ n * DexBackoff >= Gap
<1>1. DexBackoff \in Nat /\ Gap \in Nat BY DexAssumption
<1>2. PICK m \in Nat : n = m + 1
  <2>1. n - 1 \in Nat OBVIOUS
  <2> QED BY <2>1
<1>3. n * DexBackoff = m * DexBackoff + DexBackoff BY <1>1, <1>2
<1>4. m * DexBackoff \in Nat BY <1>1
<1> QED BY <1>1, <1>3, <1>4 DEF PatientBackoff

\* A request is sent when the clock has reached Gap.
LEMMA SentInTime ==
    ASSUME LaneInv, elapsed >= Gap, Send,
           elapsed' = 0, wait' = wait, tries' \in Nat, tries' # 0
    PROVE  LaneInv'
<1>1. Gap \in Nat /\ quiet \in Nat /\ wait \in Nat BY DexAssumption DEF LaneInv, ClocksAgree
<1>2. quiet >= Gap BY DEF LaneInv, ClocksAgree
<1>3. ~ (quiet < Gap) BY <1>1, <1>2
<1>4. crowded = FALSE BY DEF LaneInv
<1>5. (crowded \/ quiet < Gap) = FALSE BY <1>3, <1>4
<1>6. crowded' = FALSE BY <1>5 DEF Send
<1>7. lane' = "executing" /\ quiet' = 0 BY DEF Send
<1>8. ClocksAgree' BY <1>1, <1>7 DEF ClocksAgree
<1>9. WaitsLongEnough' /\ TriesCounted' BY <1>7 DEF WaitsLongEnough, TriesCounted
<1> QED BY <1>6, <1>8, <1>9 DEF LaneInv

\* A step that sends nothing and leaves the clocks alone.
LEMMA LaneQuiet ==
    ASSUME LaneInv, UNCHANGED <<quiet, elapsed, crowded, wait, tries>>,
           lane' = "head" \/ lane' = "off" \/ lane' = lane
    PROVE  LaneInv'
BY DEF LaneInv, ClocksAgree, WaitsLongEnough, TriesCounted

\* The lane begins to wait for as long as it must.
LEMMA LaneWaits ==
    ASSUME LaneInv, UNCHANGED <<quiet, elapsed, crowded, tries>>,
           wait' \in Nat, Gap <= elapsed + wait',
           lane' = "pausing" \/ (lane' = "backing off" /\ tries \in Nat /\ tries # 0)
    PROVE  LaneInv'
<1>1. ClocksAgree' BY DEF LaneInv, ClocksAgree
<1>2. WaitsLongEnough' BY DEF WaitsLongEnough
<1>3. TriesCounted' BY DEF TriesCounted
<1> QED BY <1>1, <1>2, <1>3 DEF LaneInv

LEMMA LaneAges ==
    ASSUME LaneInv, TimePasses
    PROVE  LaneInv'
<1>1. /\ elapsed' = Farther(elapsed) /\ quiet' = Farther(quiet)
      /\ wait' = Closer(wait) /\ UNCHANGED <<lane, tries, crowded>>
  BY DEF TimePasses
<1>2. ClocksAgree BY DEF LaneInv
<1>3. Gap \in Nat BY DexAssumption
<1>4. elapsed' \in Nat /\ elapsed' <= Gap /\ quiet' = elapsed'
  BY <1>1, <1>2, <1>3 DEF ClocksAgree, Farther
<1>5. wait' \in Nat BY <1>1, <1>2 DEF ClocksAgree, Closer
<1>6. ClocksAgree' BY <1>4, <1>5 DEF ClocksAgree
<1>7. ASSUME Gap <= elapsed + wait PROVE Gap <= elapsed' + wait'
  <2>1. CASE elapsed' = Gap
    <3>1. elapsed' \in Nat /\ elapsed' >= Gap BY <2>1, <1>3
    <3> QED BY <3>1, <1>3, <1>5, Longer
  <2>2. CASE elapsed' # Gap
    <3>1. elapsed' = elapsed + 1 BY <2>2, <1>1, <1>2, <1>3 DEF ClocksAgree, Farther
    <3>2. wait' + 1 >= wait BY <1>1, <1>2 DEF ClocksAgree, Closer
    <3>3. elapsed \in Nat /\ wait \in Nat BY <1>2 DEF ClocksAgree
    <3>4. Gap <= (elapsed + 1) + wait'
      BY <3>2, <3>3, <1>3, <1>5, <1>7, Shifted
    <3> QED BY <3>1, <3>4
  <2> QED BY <2>1, <2>2
<1>8. WaitsLongEnough' BY <1>1, <1>7 DEF LaneInv, WaitsLongEnough
<1>9. TriesCounted' BY <1>1 DEF LaneInv, TriesCounted
<1> QED BY <1>1, <1>6, <1>8, <1>9 DEF LaneInv

LEMMA LaneStep ==
    ASSUME PatientBackoff, LaneInv, [DexNext]_dexVars
    PROVE  LaneInv'
<1>1. ASSUME NEW c \in Callers, NEW u \in Urls, Get(c, u) PROVE LaneInv'
  <2>1. UNCHANGED <<quiet, elapsed, crowded, wait, tries>> BY <1>1 DEF Get
  <2>2. lane' = "head" \/ lane' = lane BY <1>1 DEF Get
  <2> QED BY <2>1, <2>2, LaneQuiet
<1>2. CASE Stop \/ TakeFromCache
  BY <1>2, LaneQuiet DEF Stop, TakeFromCache
<1>3. CASE Pause
  <2>1. /\ lane' = "pausing" /\ wait' = Gap - elapsed /\ elapsed < Gap
        /\ UNCHANGED <<quiet, elapsed, crowded, tries>>
    BY <1>3 DEF Pause
  <2>2. Gap \in Nat /\ elapsed \in Nat BY DexAssumption DEF LaneInv, ClocksAgree
  <2>3. wait' \in Nat /\ Gap <= elapsed + wait' BY <2>1, <2>2
  <2> QED BY <2>1, <2>3, LaneWaits
<1>4. CASE Execute
  <2>1. MayTake /\ Send /\ elapsed' = 0 /\ tries' = 1 /\ wait' = wait BY <1>4 DEF Execute
  <2>2. Gap \in Nat /\ elapsed \in Nat BY DexAssumption DEF LaneInv, ClocksAgree
  <2>3. elapsed >= Gap
    <3>1. CASE lane = "pausing" /\ wait = 0
      <4>1. Gap <= elapsed + wait BY <3>1 DEF LaneInv, WaitsLongEnough
      <4> QED BY <3>1, <4>1, <2>2
    <3> QED BY <2>1, <3>1 DEF MayTake
  <2> QED BY <2>1, <2>3, SentInTime
<1>5. CASE Succeed \/ Reject
  BY <1>5, LaneQuiet DEF Succeed, Reject, Leave
<1>6. CASE Limited
  <2>1. /\ lane = "executing" /\ lane' = "backing off" /\ wait' = tries * DexBackoff
        /\ UNCHANGED <<quiet, elapsed, crowded, tries>>
    BY <1>6 DEF Limited
  <2>2. tries \in Nat /\ tries # 0 BY <2>1 DEF LaneInv, TriesCounted
  <2>3. wait' \in Nat /\ wait' >= Gap BY <2>1, <2>2, BackoffIsLong
  <2>4. Gap \in Nat /\ elapsed \in Nat BY DexAssumption DEF LaneInv, ClocksAgree
  <2>5. Gap <= elapsed + wait' BY <2>3, <2>4, Longer
  <2> QED BY <2>1, <2>2, <2>3, <2>5, LaneWaits
<1>7. CASE TryAgain
  <2>1. /\ lane = "backing off" /\ wait = 0 /\ Send
        /\ elapsed' = 0 /\ tries' = tries + 1 /\ wait' = wait
    BY <1>7 DEF TryAgain
  <2>2. tries \in Nat /\ tries # 0 BY <2>1 DEF LaneInv, TriesCounted
  <2>3. Gap <= elapsed + wait BY <2>1 DEF LaneInv, WaitsLongEnough
  <2>4. Gap \in Nat /\ elapsed \in Nat BY DexAssumption DEF LaneInv, ClocksAgree
  <2>5. elapsed >= Gap
    <3>1. wait = 0 BY <2>1
    <3>2. Gap <= elapsed + 0 BY <2>3, <3>1
    <3> QED BY <3>2, <2>4
  <2>6. tries' \in Nat /\ tries' # 0
    <3>1. tries' = tries + 1 BY <2>1
    <3> QED BY <3>1, <2>2
  <2> QED BY <2>1, <2>5, <2>6, SentInTime
<1>8. CASE TimePasses BY <1>8, LaneAges
<1>9. CASE UNCHANGED dexVars BY <1>9, LaneQuiet DEF dexVars
<1> QED BY <1>1, <1>2, <1>3, <1>4, <1>5, <1>6, <1>7, <1>8, <1>9
        DEF DexNext, DexQueueing, DexExecuting

\* Two requests to DexScreener are never closer than MIN_DELAY_MS, retries of
\* a 429 included (processQueue and executeRequest of dex-limiter.ts), as long
\* as the backoff is not shorter than that delay: it is 1000 ms against 500.
THEOREM RequestsKeepDistance ==
    ASSUME PatientBackoff
    PROVE  DexSpec => []NeverCrowded
<1>1. DexInit => LaneInv
  <2> SUFFICES ASSUME DexInit PROVE LaneInv
    OBVIOUS
  <2>1. Gap \in Nat BY DexAssumption
  <2>2. elapsed = Gap /\ quiet = Gap /\ wait = 0 /\ lane = "off" /\ crowded = FALSE
    BY DEF DexInit
  <2> QED BY <2>1, <2>2 DEF LaneInv, ClocksAgree, WaitsLongEnough, TriesCounted
<1>2. LaneInv /\ [DexNext]_dexVars => LaneInv' BY LaneStep
<1>3. LaneInv => NeverCrowded BY DEF LaneInv, NeverCrowded
<1> QED BY <1>1, <1>2, <1>3, PTL DEF DexSpec
===============================================================================
