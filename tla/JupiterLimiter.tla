--------------------------- MODULE JupiterLimiter ---------------------------
(***************************************************************************)
(* common/jupiter-limiter.ts: one loop dispatches the Jupiter requests of  *)
(* the whole bot from two lanes, SELL before BUY, spaced per endpoint      *)
(* family, with a cap on what is in flight and a timer on everything.      *)
(*                                                                         *)
(* processQueue runs without an await from one wake-up to the next, so     *)
(* while loop = "run" nothing else moves.  Time advances by Tick, never    *)
(* past a timer that is due: timers are taken to fire on time.             *)
(***************************************************************************)
EXTENDS Naturals, Sequences, FiniteSets

CONSTANTS
    Sells,          \* requests of the SELL lane
    Buys,           \* requests of the BUY lane
    Prices,         \* the requests that go to /price/v3, in either lane
    Cap,            \* MAX_CONCURRENT_INFLIGHT
    MaxQueue,       \* MAX_QUEUE_SIZE
    MinDelay,       \* MIN_DELAY_MS
    Poll,           \* the re-poll of a saturated lane (25 ms)
    SellWait,       \* SELL_MAX_QUEUE_WAIT_MS
    BuyWait,        \* BUY_MAX_QUEUE_WAIT_MS
    Deadline,       \* EXECUTION_DEADLINE_MS
    MaxAttempts,    \* SELL_MAX_ATTEMPTS
    Backoff         \* the 1000 ms of the SELL backoff

Requests == Sells \union Buys
Lanes == {"SELL", "BUY"}
Families == {"trade", "price"}

ASSUME LanesAssumption == IsFiniteSet(Requests) /\ Sells \intersect Buys = {}
ASSUME LimitsAssumption == Cap \in Nat /\ MaxQueue \in Nat /\ MaxAttempts \in Nat
ASSUME TimesAssumption ==
    /\ MinDelay \in Nat /\ Poll \in Nat /\ Deadline \in Nat
    /\ SellWait \in Nat /\ BuyWait \in Nat /\ Backoff \in Nat

Lane(r) == IF r \in Sells THEN "SELL" ELSE "BUY"
Family(r) == IF r \in Prices THEN "price" ELSE "trade"
WaitBudget(r) == IF r \in Sells THEN SellWait ELSE BuyWait

VARIABLES
    queue,          \* sellQueue and buyQueue
    inFlight,       \* sellInFlightCount and buyInFlightCount
    since,          \* time since lastTradeRequestTime and lastPriceRequestTime,
                    \* up to MinDelay
    loop,           \* where processQueue is; "off" when processing is false
    nap,            \* what is left of its current setTimeout
    state,          \* where each request is, or how its promise was settled
    attempt,        \* executions of each request
    timer           \* what is left of its wait, deadline or backoff

vars == <<queue, inFlight, since, loop, nap, state, attempt, timer>>
dispatcher == <<queue, since, loop, nap>>

Asleep == {"yield", "poll", "space"}
Outcomes == {"resolved", "rejected", "expired"}
Settled(r) == state[r] \in Outcomes
InSlot(r) == state[r] \in {"executing", "backoff"}

Init ==
    /\ queue = [l \in Lanes |-> <<>>]
    /\ inFlight = [l \in Lanes |-> 0]
    /\ since = [f \in Families |-> MinDelay]
    /\ loop = "off"
    /\ nap = 0
    /\ state = [r \in Requests |-> "new"]
    /\ attempt = [r \in Requests |-> 0]
    /\ timer = [r \in Requests |-> 0]

------------------------------------------------------------------------------
(* enqueue *)

\* A full lane rejects without queueing.
RejectFull(r) ==
    /\ loop # "run"
    /\ state[r] = "new"
    /\ Len(queue[Lane(r)]) >= MaxQueue
    /\ state' = [state EXCEPT ![r] = "rejected"]
    /\ UNCHANGED <<dispatcher, inFlight, attempt, timer>>

\* The item is queued with its wait timer; an idle loop is started and yields
\* for one turn of the event loop before it picks.
Enqueue(r) ==
    /\ loop # "run"
    /\ state[r] = "new"
    /\ Len(queue[Lane(r)]) < MaxQueue
    /\ queue' = [queue EXCEPT ![Lane(r)] = Append(@, r)]
    /\ state' = [state EXCEPT ![r] = "queued"]
    /\ timer' = [timer EXCEPT ![r] = WaitBudget(r)]
    /\ loop' = IF loop = "off" THEN "yield" ELSE loop
    /\ nap' = IF loop = "off" THEN 0 ELSE nap
    /\ UNCHANGED <<since, inFlight, attempt>>

\* splice(index, 1)
Cut(q, i) == [j \in 1..(Len(q) - 1) |-> IF j < i THEN q[j] ELSE q[j + 1]]

\* The wait timer of an item that is still in its lane.
Expire(r) ==
    /\ loop # "run"
    /\ state[r] = "queued"
    /\ timer[r] = 0
    /\ \E i \in 1..Len(queue[Lane(r)]) :
          /\ queue[Lane(r)][i] = r
          /\ queue' = [queue EXCEPT ![Lane(r)] = Cut(@, i)]
    /\ state' = [state EXCEPT ![r] = "expired"]
    /\ UNCHANGED <<since, loop, nap, inFlight, attempt, timer>>

------------------------------------------------------------------------------
(* processQueue *)

Wake ==
    /\ loop \in Asleep
    /\ nap = 0
    /\ loop' = "run"
    /\ UNCHANGED <<queue, since, nap, inFlight, state, attempt, timer>>

Waiting == queue["SELL"] # <<>> \/ queue["BUY"] # <<>>

\* Mutant of Peeked: buys are served first.
PeekedBuysFirst ==
    IF queue["BUY"] # <<>> THEN Head(queue["BUY"]) ELSE Head(queue["SELL"])

Peeked == IF queue["SELL"] # <<>> THEN Head(queue["SELL"]) ELSE Head(queue["BUY"])

\* Mutant of HasSlot: one counter for both lanes.
HasSlotShared(r) == inFlight["SELL"] + inFlight["BUY"] < Cap

\* Mutant of HasSlot: one too many.
HasSlotOffByOne(r) == inFlight[Lane(r)] <= Cap

HasSlot(r) == inFlight[Lane(r)] < Cap

Sleep(kind, time) ==
    /\ loop' = kind
    /\ nap' = time
    /\ UNCHANGED <<queue, since, inFlight, state, attempt, timer>>

\* Mutant of Finish: the loop stops once the protective lane is drained.
FinishAfterSells ==
    /\ loop = "run"
    /\ queue["SELL"] = <<>>
    /\ Sleep("off", 0)

\* Both lanes are empty: processing = false.
Finish ==
    /\ loop = "run"
    /\ ~Waiting
    /\ Sleep("off", 0)

WaitForSlot ==
    /\ loop = "run"
    /\ Waiting
    /\ ~HasSlot(Peeked)
    /\ Sleep("poll", Poll)

WaitForSpacing ==
    /\ loop = "run"
    /\ Waiting
    /\ HasSlot(Peeked)
    /\ since[Family(Peeked)] < MinDelay
    /\ Sleep("space", MinDelay - since[Family(Peeked)])

\* The item leaves its lane, its wait timer is cleared, the clock of its family
\* restarts, and it executes in the background while the loop goes on.
Dispatch(r) ==
    /\ loop = "run"
    /\ Waiting
    /\ r = Peeked
    /\ HasSlot(r)
    /\ since[Family(r)] >= MinDelay
    /\ queue' = [queue EXCEPT ![Lane(r)] = Tail(@)]
    /\ since' = [since EXCEPT ![Family(r)] = 0]
    /\ inFlight' = [inFlight EXCEPT ![Lane(r)] = @ + 1]
    /\ state' = [state EXCEPT ![r] = "executing"]
    /\ attempt' = [attempt EXCEPT ![r] = 1]
    /\ timer' = [timer EXCEPT ![r] = Deadline]
    /\ UNCHANGED <<loop, nap>>

------------------------------------------------------------------------------
(* executeRequest *)

Executing(r) == loop # "run" /\ state[r] = "executing"

Settle(r, outcome) ==
    /\ state' = [state EXCEPT ![r] = outcome]
    /\ inFlight' = [inFlight EXCEPT ![Lane(r)] = @ - 1]
    /\ timer' = [timer EXCEPT ![r] = 0]
    /\ UNCHANGED <<dispatcher, attempt>>

Respond(r) == Executing(r) /\ Settle(r, "resolved")

\* Any error but a rate limit ends the request, in both lanes.
Fail(r) == Executing(r) /\ Settle(r, "rejected")

\* A buy gives up at the first 429, a sell at the last of its attempts.
Throttled(r) ==
    /\ Executing(r)
    /\ r \in Buys \/ attempt[r] >= MaxAttempts
    /\ Settle(r, "rejected")

\* Mutant of BackOff: the slot is released during the backoff.
BackOffReleasing(r) ==
    /\ Executing(r)
    /\ r \in Sells
    /\ attempt[r] < MaxAttempts
    /\ state' = [state EXCEPT ![r] = "backoff"]
    /\ timer' = [timer EXCEPT ![r] = attempt[r] * Backoff]
    /\ inFlight' = [inFlight EXCEPT ![Lane(r)] = @ - 1]
    /\ UNCHANGED <<dispatcher, attempt>>

\* A sell that is rate limited keeps its slot and tries again later.
BackOff(r) ==
    /\ Executing(r)
    /\ r \in Sells
    /\ attempt[r] < MaxAttempts
    /\ state' = [state EXCEPT ![r] = "backoff"]
    /\ timer' = [timer EXCEPT ![r] = attempt[r] * Backoff]
    /\ UNCHANGED <<dispatcher, inFlight, attempt>>

\* The retry goes out whatever the spacing clock says, and restarts it.
Retry(r) ==
    /\ loop # "run"
    /\ state[r] = "backoff"
    /\ timer[r] = 0
    /\ state' = [state EXCEPT ![r] = "executing"]
    /\ attempt' = [attempt EXCEPT ![r] = @ + 1]
    /\ timer' = [timer EXCEPT ![r] = Deadline]
    /\ since' = [since EXCEPT ![Family(r)] = 0]
    /\ UNCHANGED <<queue, loop, nap, inFlight>>

\* Mutant of DeadlineFires: only the first attempt is guarded.
DeadlineFiresOnce(r) ==
    /\ Executing(r)
    /\ timer[r] = 0
    /\ attempt[r] = 1
    /\ Settle(r, "rejected")

\* withExecutionDeadline: the answer did not come in time, and a later one
\* goes nowhere.
DeadlineFires(r) ==
    /\ Executing(r)
    /\ timer[r] = 0
    /\ Settle(r, "rejected")

------------------------------------------------------------------------------
(* Time *)

Armed(r) == state[r] = "queued" \/ InSlot(r)

Tick ==
    /\ loop # "run"
    /\ \A r \in Requests : Armed(r) => timer[r] > 0
    /\ loop \in Asleep => nap > 0
    /\ timer' = [r \in Requests |-> IF Armed(r) THEN timer[r] - 1 ELSE timer[r]]
    /\ nap' = IF loop \in Asleep THEN nap - 1 ELSE nap
    /\ since' = [f \in Families |->
                    IF since[f] < MinDelay THEN since[f] + 1 ELSE since[f]]
    /\ UNCHANGED <<queue, loop, inFlight, state, attempt>>

------------------------------------------------------------------------------
Loop == Wake \/ Finish \/ WaitForSlot \/ WaitForSpacing
        \/ \E r \in Requests : Dispatch(r)

Timers(r) == Expire(r) \/ Retry(r) \/ DeadlineFires(r)

Remote(r) == Respond(r) \/ Fail(r) \/ Throttled(r) \/ BackOff(r)

Next ==
    \/ Loop
    \/ Tick
    \/ \E r \in Requests : RejectFull(r) \/ Enqueue(r) \/ Timers(r) \/ Remote(r)

Spec == Init /\ [][Next]_vars

\* The event loop runs what is due and time passes; nothing is assumed of the
\* remote side, which may never answer.
FairSpec ==
    /\ Spec
    /\ WF_vars(Loop)
    /\ WF_vars(Tick)
    /\ \A r \in Requests : WF_vars(Timers(r))

------------------------------------------------------------------------------
(* Properties *)

\* Every variable keeps its type.
TypeOK ==
    /\ queue \in [Lanes -> Seq(Requests)]
    /\ inFlight \in [Lanes -> Nat]
    /\ since \in [Families -> 0..MinDelay]
    /\ loop \in Asleep \union {"off", "run"}
    /\ nap \in Nat
    /\ state \in [Requests -> Outcomes \union {"new", "queued", "executing", "backoff"}]
    /\ attempt \in [Requests -> Nat]
    /\ timer \in [Requests -> Nat]

\* processing is only false while both lanes are empty: no request is left in a
\* lane that nobody will look at.
NoLostWakeup == loop = "off" => ~Waiting

InSlots(lane) == {r \in Requests : Lane(r) = lane /\ InSlot(r)}

\* The in-flight counters, moved by hand at dispatch and on settlement, count
\* exactly the requests that hold a slot, across retries, failures and
\* deadlines, and no lane ever exceeds its cap.
SlotsAccounted ==
    \A l \in Lanes :
        inFlight[l] = Cardinality(InSlots(l)) /\ inFlight[l] <= Cap

\* A protective request that times out in its lane had another protective one
\* before it: buys alone, however many and however slow, never hold back a sell
\* that long.
SellNotHeldByBuys ==
    \A r \in Sells : state[r] = "expired" =>
        \E q \in Sells \ {r} : attempt[q] > 0

\* Every request that was made is settled, even if Jupiter never answers.
EverySettles == \A r \in Requests : state[r] # "new" ~> Settled(r)

Promise == INSTANCE PriorityLanes WITH
    waiting <- {r \in Requests : state[r] = "queued"},
    running <- {r \in Requests : InSlot(r)},
    settled <- {r \in Requests : Settled(r)}

\* The limiter keeps the promise of PriorityLanes: sells first, the cap of each
\* lane, and one settlement per request.
ImplementsLanes == Promise!LanesSpec
=============================================================================
