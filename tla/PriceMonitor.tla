---------------------------- MODULE PriceMonitor ----------------------------
(***************************************************************************)
(* The price monitor of one open position: a tick starts every second      *)
(* whether or not the earlier ones are done, reads the row, fetches the    *)
(* market, claims the trade and judges it (ExitRules).  A claim lasts one  *)
(* evaluation; the row a tick judges is the one it read before it had the  *)
(* claim.  Beside the ticks run the retry timers of executeSell, the       *)
(* operator and time; the cached answer of the exit advisor is anything.   *)
(*                                                                         *)
(* Positions share nothing in the monitor but the size of a batch, which   *)
(* only delays a claim, so one is modelled.  Scale-ins (BuyExecution) and  *)
(* the details of a sell (SellLifecycle) are left out; alerts and the      *)
(* columns written for reports (slTriggeredAt, exitTrigger...) too.        *)
(***************************************************************************)
EXTENDS ExitRules

CONSTANTS
    Ticks,          \* ticks that can be under way at once (a bound)
    Observations,   \* the markets a tick can find
    Extensions,     \* stop losses an EXTEND_CUTLOSS answer can propose
    ConfirmTicks,   \* LIQUIDITY_DROP_ and WHALE_DUMP_CONFIRM_TICKS
    MaxDefenses,    \* AI_CUTLOSS_MAX_DEFENSES_PER_TRADE
    RetryPrices,    \* the prices a retried half can fill at
    MaxTimers,      \* bound on the retries executeSell queues
    Advisor,        \* ENABLE_AI_EXIT_ADVISOR
    AllowExitNow,   \* AI_EXIT_ADVISOR_ALLOW_EXIT_NOW
    CheckEarlyStop, \* HEALTH_CHECK_BEFORE_EARLY_SL
    CheckTrailing   \* HEALTH_CHECK_BEFORE_EARLY_TRAILING

ASSUME ObservationsAssumption == \A o \in Observations : IsObservation(o)
ASSUME CountsAssumption ==
    /\ ConfirmTicks \in Nat \ {0}
    /\ MaxDefenses \in Nat /\ MaxTimers \in Nat /\ Extensions \subseteq Nat /\ RetryPrices \subseteq Nat
ASSUME TicksAssumption == IsFiniteSet(Ticks)
ASSUME DefenceAssumption ==
    StopLoss \in Nat /\ HardFloor \in Nat /\ MaxExtension \in Nat \ {0}
ASSUME SwitchesAssumption ==
    /\ Advisor \in BOOLEAN /\ AllowExitNow \in BOOLEAN
    /\ CheckEarlyStop \in BOOLEAN /\ CheckTrailing \in BOOLEAN

VARIABLES
    row,        \* the Trade row
    halves,     \* history: partial take profits recorded
    timers,     \* retries of a partial sell that executeSell has queued
    young,      \* the position has not reached the minimum hold time
    claimed,    \* processingTrades has the trade
    pc,         \* where each tick is
    snap,       \* the row as the tick read it
    obs,        \* the market as the tick fetched it
    exit,       \* how much the tick is selling: nothing, half or the whole
    zone,       \* dynamicHoldZoneEnteredAt: none, recent or longer than its maximum
    deep,       \* deepStopLossBreaches: none, recent or longer than the confirmation
    draining,   \* liquidityDropBreaches
    dumping     \* whaleDumpBreaches

memory == <<zone, deep, draining, dumping>>
locals == <<pc, snap, obs, exit>>
position == <<row, halves, timers>>
vars == <<position, young, claimed, locals, memory>>

Stages == {"idle", "read", "holders", "consulting", "defending",
           "exits", "selling"}
Evaluating == Stages \ {"idle", "read"}
NewRow == [status |-> "none", tp |-> FALSE, high |-> Entry, stop |-> 0,
           target |-> 0, defenses |-> 0]
Nothing == [price |-> 0, fast |-> 0, drop |-> Unknown, creator |-> Unknown,
            top |-> Unknown, buys |-> 0, sells |-> 0, noise |-> {},
            alive |-> FALSE, rec |-> 0]

Init ==
    /\ row = NewRow /\ halves = 0 /\ timers = 0
    /\ young = TRUE /\ claimed = FALSE
    /\ pc = [k \in Ticks |-> "idle"]
    /\ snap = [k \in Ticks |-> NewRow]
    /\ obs = [k \in Ticks |-> Nothing]
    /\ exit = [k \in Ticks |-> "none"]
    /\ zone = "none" /\ deep = "none"
    /\ draining = 0 /\ dumping = 0

Goto(k, stage) == pc' = [pc EXCEPT ![k] = stage]

\* The end of an iteration: the finally block gives the claim back.
Release(k) ==
    /\ claimed' = FALSE
    /\ Goto(k, "idle")
    /\ snap' = [snap EXCEPT ![k] = NewRow]
    /\ obs' = [obs EXCEPT ![k] = Nothing]
    /\ exit' = [exit EXCEPT ![k] = "none"]

\* A tick that sells everything needs nothing more of what it knows.
SellAll(k) ==
    /\ claimed' = TRUE
    /\ Goto(k, "selling")
    /\ exit' = [exit EXCEPT ![k] = "whole"]
    /\ snap' = [snap EXCEPT ![k] = NewRow]
    /\ obs' = [obs EXCEPT ![k] = Nothing]

\* Nor does one that waits for a verdict on selling everything.
Ask(k) ==
    /\ Goto(k, "consulting")
    /\ snap' = [snap EXCEPT ![k] = NewRow]
    /\ obs' = [obs EXCEPT ![k] = Nothing]
    /\ UNCHANGED <<claimed, exit>>

Continue(k, stage) == Goto(k, stage) /\ UNCHANGED <<claimed, snap, obs, exit>>

(***************************************************************************)
(* A tick up to the claim.                                                 *)
(***************************************************************************)
Read(k) ==
    /\ pc[k] = "idle"
    /\ Goto(k, "read")
    /\ snap' = [snap EXCEPT ![k] = row]
    /\ UNCHANGED <<position, young, claimed, obs, exit, memory>>

\* The snapshot does not hold the trade: everything kept about it is dropped.
Forget(k) ==
    /\ pc[k] = "read" /\ snap[k].status # "OPEN"
    /\ zone' = "none" /\ deep' = "none"
    /\ draining' = 0 /\ dumping' = 0
    /\ Goto(k, "idle")
    /\ snap' = [snap EXCEPT ![k] = NewRow]
    /\ UNCHANGED <<position, young, claimed, obs, exit>>

AlreadyClaimed(k) ==
    /\ pc[k] = "read" /\ snap[k].status = "OPEN" /\ claimed
    /\ Goto(k, "idle")
    /\ snap' = [snap EXCEPT ![k] = NewRow]
    /\ UNCHANGED <<position, young, claimed, obs, exit, memory>>

\* Mutant of MayClaim: two ticks can hold the trade.
HasRead(k) == pc[k] = "read" /\ snap[k].status = "OPEN"

MayClaim(k) == pc[k] = "read" /\ snap[k].status = "OPEN" /\ ~ claimed

(***************************************************************************)
(* An evaluation, from the claim on.  The market was fetched before it and *)
(* is whatever it was then.  Skip is a chat in dry run, a market without a *)
(* price or an awaited call that throws; a balance that cannot be read is  *)
(* Unknown, and a defence that throws sells.                               *)
(***************************************************************************)
Skip(k) ==
    /\ \/ pc[k] \in {"consulting", "exits", "selling"}
       \/ MayClaim(k)
    /\ Release(k)
    /\ UNCHANGED <<position, young, memory>>

\* Mutant of Liquidated: one tick too late.
LiquidatedLate(o) == Drained(o) \/ (Draining(o) /\ draining >= ConfirmTicks)

Liquidated(o) == Drained(o) \/ (Draining(o) /\ draining + 1 >= ConfirmTicks)

Judge(k) == \E o \in Observations :
    /\ MayClaim(k)
    /\ claimed' = TRUE
    /\ draining' = IF Draining(o) /\ ~ Liquidated(o) THEN draining + 1 ELSE 0
    /\ \/ Liquidated(o) /\ SellAll(k)
       \/ ~ Liquidated(o) /\ FakePump(o) /\ SellAll(k)
       \/ /\ ~ Liquidated(o) /\ ~ FakePump(o)
          /\ Goto(k, "holders")
          /\ obs' = [obs EXCEPT ![k] = o]
          /\ UNCHANGED <<snap, exit>>
    /\ UNCHANGED <<position, young, zone, deep, dumping>>

EarlyGuard(k, reason) ==
    young /\ ~ (reason = "STOP_LOSS" /\ BelowDepthFloor(obs[k]))

\* Mutant of Defensible: one defence too many.
DefensibleAgain(k) ==
    /\ Max({0, - Profit(obs[k])}) < HardFloor
    /\ snap[k].defenses <= MaxDefenses

Defensible(k) ==
    /\ Max({0, - Profit(obs[k])}) < HardFloor
    /\ snap[k].defenses < MaxDefenses

WhaleSold(o) == WhalePanic(o) \/ (WhaleSells(o) /\ dumping + 1 >= ConfirmTicks)

\* The cached answer of the advisor, whatever it is and however old.
MayAdviseExit == Advisor /\ AllowExitNow /\ ~ young

FirstOf(rules) == rules[Min({i \in DOMAIN rules : rules[i][2]})][1]

\* What the code after the balance reads comes to, in its order.
Verdict(k, advised) ==
    LET r == snap[k]  o == obs[k]
    IN FirstOf(<< <<"DEV_DUMP", CreatorDumps(o)>>,
                  <<"WHALE_DUMP", WhaleSold(o)>>,
                  <<"PANIC_SELL", Crashed(o)>>,
                  <<"leaveZone", InHoldZone(r, o) /\ zone = "overdue" /\ ~ young>>,
                  <<"zone", InHoldZone(r, o)>>,
                  <<"advised", advised>>,
                  <<"noStop", ~ StopHit(r, o)>>,
                  <<"unconfirmed", NeedsConfirmation(r, o) /\ deep # "overdue">>,
                  <<"defend", Defensible(k)>>,
                  <<"guard", EarlyGuard(k, "STOP_LOSS")>>,
                  <<"STOP_LOSS", TRUE>> >>)

\* What every path after the balance reads does to the whale counter.
CountWhale(k) ==
    LET o == obs[k]
    IN  /\ dumping' = IF CreatorDumps(o) THEN dumping
                      ELSE IF WhaleSells(o) /\ ~ WhaleSold(o) THEN dumping + 1 ELSE 0

SellAtOnce(k, verdict) ==
    /\ verdict \in {"DEV_DUMP", "WHALE_DUMP", "PANIC_SELL"}
    /\ SellAll(k)
    /\ UNCHANGED <<position, young, zone, deep, draining>>

LeaveZone(k, verdict) ==
    /\ verdict = "leaveZone"
    /\ zone' = "none"
    /\ SellAll(k)
    /\ UNCHANGED <<position, young, deep, draining>>

HoldInZone(k, verdict) ==
    /\ verdict = "zone"
    /\ zone' = IF zone = "none" THEN "recent" ELSE zone
    /\ Ask(k)
    /\ UNCHANGED <<position, young, deep, draining>>

ObeyAdvisor(k, verdict) ==
    /\ verdict = "advised"
    /\ zone' = "none"
    /\ SellAll(k)
    /\ UNCHANGED <<position, young, deep, draining>>

AwaitConfirmation(k, verdict) ==
    /\ verdict = "unconfirmed"
    /\ zone' = "none"
    /\ deep' = IF deep = "none" THEN "recent" ELSE deep
    /\ Release(k)
    /\ UNCHANGED <<position, young, draining>>

\* A guarded exit asks the health check first when the configuration says so.
HoldOrConsult(k, consult) == IF consult THEN Ask(k) ELSE Release(k)

StopOut(k, verdict) ==
    /\ verdict \in {"defend", "guard", "STOP_LOSS"}
    /\ zone' = "none" /\ deep' = "none"
    /\ \/ verdict = "defend" /\ Continue(k, "defending")
       \/ verdict = "guard" /\ HoldOrConsult(k, CheckEarlyStop)
       \/ verdict = "STOP_LOSS" /\ SellAll(k)
    /\ UNCHANGED <<position, young, draining>>

\* The answer of the health check, cached or new.
Consult(k) ==
    /\ pc[k] = "consulting"
    /\ \/ Release(k) /\ UNCHANGED zone
       \/ SellAll(k) /\ zone' = "none"
    /\ UNCHANGED <<position, young, deep, draining, dumping>>

(***************************************************************************)
(* handleAiCutlossDefense: look again, then ask; whatever fails sells.     *)
(***************************************************************************)
Refreshed(k) == Observations \union {obs[k]}
StillBelow(k, o) == Profit(o) <= - StopLossOf(snap[k])

DefenseFails(k) ==
    /\ pc[k] = "defending"
    /\ SellAll(k)
    /\ UNCHANGED <<position, young, memory>>

Recovered(k) ==
    /\ pc[k] = "defending"
    /\ \E o \in Refreshed(k) : ~ StillBelow(k, o)
    /\ Release(k)
    /\ UNCHANGED <<position, young, memory>>

Extend(k) ==
    /\ pc[k] = "defending"
    /\ \E o \in Refreshed(k) : StillBelow(k, o)
    /\ \E n \in Extensions :
        /\ Extended(snap[k], n) > StopLossOf(snap[k])
        /\ row' = IF row.status # "OPEN" THEN row
                  ELSE [row EXCEPT !.target = Extended(snap[k], n), !.defenses = @ + 1]
    /\ Release(k)
    /\ UNCHANGED <<halves, timers, young, memory>>

Confirm(k) ==
    /\ pc[k] = "defending"
    /\ \E o \in Refreshed(k) : StillBelow(k, o)
    /\ SellAll(k)
    /\ UNCHANGED <<position, young, memory>>

(***************************************************************************)
(* Above the stop: the trailing stop is written over whatever the row      *)
(* holds by then, and the exits are judged on the row as it was read.      *)
(***************************************************************************)
Trail(k, verdict) ==
    LET r == snap[k]  o == obs[k]
    IN  /\ verdict = "noStop"
        /\ zone' = "none" /\ deep' = "none"
        /\ \/ /\ row' = IF NewPeak(r, o)
                     THEN [row EXCEPT !.high = o.price, !.stop = PeakStop(r, o)]
                     ELSE IF Tightens(r, o)
                     THEN [row EXCEPT !.stop = TightStop(r, o)]
                     ELSE row
              /\ Continue(k, "exits")
           \/ /\ NewPeak(r, o) \/ Tightens(r, o)  \* the update throws
              /\ Release(k) /\ UNCHANGED row
        /\ UNCHANGED <<halves, timers, young, draining>>

TakeHalf(k) ==
    /\ pc[k] = "exits" /\ HitsTarget(snap[k], obs[k])
    /\ Goto(k, "selling")
    /\ exit' = [exit EXCEPT ![k] = "half"]
    /\ UNCHANGED <<claimed, snap, obs>>
    /\ UNCHANGED <<position, young, memory>>

\* handleTrailingExitHealthGuard has something to ask about the exit.
Doubtful(k) == ~ snap[k].tp /\ (NetTooSmall(obs[k]) \/ Supportive(obs[k]))

TrailExit(k) ==
    /\ pc[k] = "exits"
    /\ ~ HitsTarget(snap[k], obs[k]) /\ HitsTrail(snap[k], obs[k])
    /\ IF EarlyGuard(k, "TRAILING_STOP") THEN HoldOrConsult(k, CheckTrailing)
       ELSE IF Doubtful(k) /\ CheckTrailing THEN Ask(k)
       ELSE IF Doubtful(k) /\ NetTooSmall(obs[k]) /\ Supportive(obs[k]) THEN Release(k)
       ELSE SellAll(k)
    /\ UNCHANGED <<position, young, memory>>

NoExit(k) ==
    /\ pc[k] = "exits"
    /\ ~ HitsTarget(snap[k], obs[k]) /\ ~ HitsTrail(snap[k], obs[k])
    /\ Release(k)
    /\ UNCHANGED <<position, young, memory>>

(***************************************************************************)
(* executeSell reads the row again, but only its status.  It lands, does   *)
(* nothing (Skip) or fails and queues itself with the same size.           *)
(***************************************************************************)
Sold(size, price) ==
    /\ row.status = "OPEN"
    /\ row' = IF size = "whole" THEN [row EXCEPT !.status = "CLOSED"]
              ELSE [row EXCEPT !.tp = TRUE, !.stop = RunnerStop(row, price)]
    /\ halves' = IF size = "half" THEN halves + 1 ELSE halves

SellLands(k) ==
    /\ pc[k] = "selling"
    /\ Sold(exit[k], obs[k].price)
    /\ Release(k)
    /\ UNCHANGED <<timers, young, memory>>

\* A retry of a whole sell is one more way the position is sold elsewhere.
SellRetries(k) ==
    /\ pc[k] = "selling" /\ exit[k] = "half" /\ row.status = "OPEN"
    /\ timers < MaxTimers
    /\ timers' = timers + 1
    /\ Release(k)
    /\ UNCHANGED <<row, halves, young, memory>>

TimerFires ==
    /\ timers > 0
    /\ timers' = timers - 1
    /\ \/ \E price \in RetryPrices : Sold("half", price)
       \/ UNCHANGED <<row, halves>>
    /\ UNCHANGED <<young, claimed, locals, memory>>

(***************************************************************************)
(* The rest of the program and the world.                                  *)
(***************************************************************************)
Open ==
    /\ row.status = "none"
    /\ row' = [row EXCEPT !.status = "OPEN"]
    /\ UNCHANGED <<halves, timers, young, claimed, locals, memory>>

SoldElsewhere ==
    /\ Sold("whole", Entry)
    /\ UNCHANGED <<timers, young, claimed, locals, memory>>

Mature ==
    /\ row.status # "none" /\ young
    /\ young' = FALSE
    /\ UNCHANGED <<position, claimed, locals, memory>>

ZoneRunsOut ==
    /\ zone = "recent" /\ zone' = "overdue"
    /\ UNCHANGED <<position, young, claimed, locals, deep, draining, dumping>>

ConfirmationRunsOut ==
    /\ deep = "recent" /\ deep' = "overdue"
    /\ UNCHANGED <<position, young, claimed, locals, zone, draining, dumping>>

Decide(k) ==
    /\ pc[k] = "holders"
    /\ CountWhale(k)
    /\ \E verdict \in {Verdict(k, FALSE), Verdict(k, MayAdviseExit)} :
        \/ SellAtOnce(k, verdict) \/ LeaveZone(k, verdict) \/ HoldInZone(k, verdict)
        \/ ObeyAdvisor(k, verdict) \/ AwaitConfirmation(k, verdict)
        \/ StopOut(k, verdict) \/ Trail(k, verdict)

Defend(k) == DefenseFails(k) \/ Recovered(k) \/ Extend(k) \/ Confirm(k)

Evaluate(k) ==
    \/ Judge(k) \/ Decide(k) \/ Consult(k) \/ Defend(k)
    \/ TakeHalf(k) \/ TrailExit(k) \/ NoExit(k)
    \/ SellLands(k) \/ SellRetries(k) \/ Skip(k)

Tick(k) ==
    Read(k) \/ Forget(k) \/ AlreadyClaimed(k) \/ Evaluate(k)

World ==
    \/ TimerFires \/ Open \/ SoldElsewhere
    \/ Mature \/ ZoneRunsOut \/ ConfirmationRunsOut

Next == World \/ \E k \in Ticks : Tick(k)

Spec == Init /\ [][Next]_vars

(***************************************************************************)
(* Properties.                                                             *)
(***************************************************************************)
IsRow(r) ==
    /\ r.status \in {"none", "OPEN", "CLOSED"} /\ r.tp \in BOOLEAN
    /\ r.high \in Int /\ r.stop \in Int /\ r.target \in Int /\ r.defenses \in Nat

\* The types of the variables.
TypeOK ==
    /\ IsRow(row) /\ halves \in Nat /\ timers \in 0 .. MaxTimers
    /\ young \in BOOLEAN /\ claimed \in BOOLEAN
    /\ pc \in [Ticks -> Stages]
    /\ \A k \in Ticks : IsRow(snap[k])
    /\ obs \in [Ticks -> Observations \union {Nothing}]
    /\ exit \in [Ticks -> {"none", "half", "whole"}]
    /\ zone \in {"none", "recent", "overdue"} /\ deep \in {"none", "recent", "overdue"}
    /\ draining \in 0 .. (ConfirmTicks - 1) /\ dumping \in 0 .. (ConfirmTicks - 1)

\* However ticks overlap, at most one of them is judging the position or
\* selling it (processingTrades).
OneEvaluation ==
    \A j, k \in Ticks :
        (pc[j] \in Evaluating /\ pc[k] \in Evaluating) => j = k

\* However many evaluations extend the stop on rows they read before one
\* another's extension, the loss they allow never exceeds what the allowed
\* number of defences grants (handleAiCutlossDefense).
LossBudget ==
    row.target <= StopLoss + MaxDefenses * MaxExtension

\* The ticks under way on a row that shows no partial take profit.
Unaware == {k \in Ticks : snap[k].status = "OPEN" /\ ~ snap[k].tp}

\* The halves that can still come: each such tick sells or queues one, and each
\* queued retry sells one.
Owed == timers + Cardinality(Unaware)

\* Once a partial take profit is on record, the position is only halved again
\* by what was under way before it, and by each of those once: a tick that had
\* read the row, or a retry timer (partialTakeProfitAt is taken from the tick's
\* snapshot in evaluateTrade and is not asked again by executeSell).
HalvesOwed == [][row.tp => halves' + Owed' <= halves + Owed]_vars

\* A fall of 55 % or more is not taken for a profit (// 2. HARD CRASH BYPASS).
HardCrashSellsAll ==
    \A k \in Ticks :
        (pc[k] = "exits" \/ exit[k] = "half")
            => 100 * obs[k].price > 45 * Entry
=============================================================================
