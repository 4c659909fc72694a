------------------------------ MODULE ExitRules ------------------------------
(***************************************************************************)
(* The judgements evaluateTrade of price-monitor.service.ts makes about an *)
(* open position, as operators over the row as the tick read it and one    *)
(* observation of the market.  PriceMonitor says in which order they are   *)
(* asked and what is awaited between them.                                 *)
(*                                                                         *)
(* Percentages are basis points and prices are on a scale of their own on  *)
(* which Entry is the price the position is measured against.              *)
(***************************************************************************)
EXTENDS Integers, FiniteSetsExt

CONSTANTS
    Entry,            \* monitorEntryPrice, in SOL
    SolUsd,           \* solPriceAtEntry, dollars per SOL
    StopLoss,         \* MICIN_, WHALE_ or STOP_LOSS_PERCENT of the route
    DeepFactor,       \* STOP_LOSS_DEEP_DROP_MULTIPLIER
    DepthFloor,       \* STOP_LOSS_GUARD_DEPTH_FLOOR_PERCENT
    TakeProfit,       \* TAKE_PROFIT_PERCENT
    Activation,       \* TRAILING_ACTIVATION_PERCENT
    TrailDistance,    \* TRAILING_DISTANCE_PERCENT
    MinTrail,         \* MIN_TRAILING_DISTANCE_BEFORE_PARTIAL_PERCENT
    RunnerFactor,     \* RUNNER_TRAILING_DISTANCE_MULTIPLIER
    RunnerFloor,      \* RUNNER_BREAKEVEN_FLOOR_PERCENT
    FeeDrag,          \* what estimateFeeDragPercent returns for the position
    MinNet,           \* MIN_NET_EXIT_PROFIT_PERCENT
    DrainExit,        \* LIQUIDITY_DROP_EXIT_PERCENT
    DrainPanic,       \* LIQUIDITY_DROP_PANIC_PERCENT
    DumpPart,         \* DEV_ and WHALE_DUMP_THRESHOLD_PERCENT
    DumpPanic,        \* WHALE_DUMP_PANIC_PERCENT
    HardFloor,        \* AI_CUTLOSS_HARD_FLOOR_PERCENT
    MaxExtension      \* AI_CUTLOSS_MAX_EXTENSION_PERCENT

ASSUME ScaleAssumption == Entry \in Nat \ {0} /\ SolUsd \in Nat \ {0}

\* A distance is positive, RUNNER_TRAILING_DISTANCE_MULTIPLIER at least one;
\* the floors and the drag may have either sign.
ASSUME TrailingAssumption ==
    /\ TrailDistance \in Nat \ {0} /\ RunnerFactor \in Nat \ {0}
    /\ MinTrail \in Int /\ RunnerFloor \in Int /\ FeeDrag \in Int

Percent == 100
Whole == 100 * Percent
HardCrash == 55 * Percent

(***************************************************************************)
(* An observation is what one tick knows of the market: the pair snapshot  *)
(* of DexScreener, the fast quote (0 when there is none), and the share of *)
(* their first balance that the creator and the top holder still have      *)
(* (Unknown when a balance cannot be read).  drop is how much of the entry *)
(* liquidity is gone, Unknown when the entry pair is not matched; rec is   *)
(* the trailing distance recommended for its volatility.                   *)
(***************************************************************************)
Unknown == -1
Noises == {"vertical", "weakVolume", "weakAnomaly", "surge", "hourDown"}

IsObservation(o) ==
    /\ o.price \in Nat \ {0} /\ o.fast \in Nat
    /\ o.drop \in Int /\ o.creator \in Int /\ o.top \in Int
    /\ o.buys \in Nat /\ o.sells \in Nat /\ o.rec \in Nat
    /\ o.noise \subseteq Noises /\ o.alive \in BOOLEAN

(***************************************************************************)
(* Prices and profit.  A stored price that is more than ten times the      *)
(* current one is taken for a dollar price of an old row and converted.    *)
(***************************************************************************)
InSol(stored, price) ==
    IF stored > 10 * price THEN stored \div SolUsd ELSE stored

EntryAt(o) == InSol(Entry, o.price)
HighAt(row, o) == InSol(row.high, o.price)
StopAt(row, o) == InSol(row.stop, o.price)

Gain(price, entry) == ((price - entry) * Whole) \div entry
Profit(o) == Gain(o.price, EntryAt(o))

\* The stop loss alone listens to the fast quote, and only when it is worse.
StopProfit(o) ==
    IF o.fast = 0 THEN Profit(o) ELSE Min({Profit(o), Gain(o.fast, EntryAt(o))})

StopLossOf(row) == IF row.target = 0 THEN StopLoss ELSE row.target

(***************************************************************************)
(* Flow and noise.                                                         *)
(***************************************************************************)
SellerPressure(o) == o.sells >= 5 /\ 10 * o.sells >= 12 * o.buys

Supportive(o) == o.buys >= Max({2, o.sells}) /\ o.alive

Weight(holds, n) == IF holds THEN n ELSE 0

Severity(o) ==
    Min({100, Weight("vertical" \in o.noise, 35)
              + Weight("weakVolume" \in o.noise, 25)
              + Weight("weakAnomaly" \in o.noise, 20)
              + Weight(o.sells >= 5 /\ 10 * o.sells > 11 * o.buys, 20)
              + Weight("surge" \in o.noise /\ o.buys = 0 /\ o.sells > 0, 15)
              + Weight("hourDown" \in o.noise, 10)})

FakePump(o) == Severity(o) >= 70 /\ Profit(o) < 15 * Percent /\ o.buys <= o.sells

(***************************************************************************)
(* Emergencies.  drop, creator and top are percentages, not basis points.  *)
(***************************************************************************)
Drained(o) == o.drop >= DrainPanic
Draining(o) == ~ Drained(o) /\ o.drop >= DrainExit /\ SellerPressure(o)

CreatorDumps(o) == o.creator # Unknown /\ o.creator < 100 - DumpPart

TopLost(o) == 100 - o.top
WhalePanic(o) == o.top # Unknown /\ TopLost(o) >= DumpPanic /\ SellerPressure(o)
WhaleSells(o) ==
    ~ WhalePanic(o) /\ o.top # Unknown /\ TopLost(o) >= DumpPart /\ SellerPressure(o)

Crashed(o) == Profit(o) <= - HardCrash

(***************************************************************************)
(* The hold zone and the stop.                                             *)
(***************************************************************************)
InHoldZone(row, o) ==
    /\ 2 * Profit(o) <= - StopLossOf(row)
    /\ Profit(o) > - StopLossOf(row)

StopHit(row, o) == StopProfit(o) <= - StopLossOf(row)

NeedsConfirmation(row, o) ==
    /\ DeepFactor > 1
    /\ StopProfit(o) <= - (StopLossOf(row) * DeepFactor)
    /\ StopProfit(o) > - HardCrash

\* The depth below which a young position is not protected any more.
BelowDepthFloor(o) == Profit(o) <= - DepthFloor

\* What an EXTEND_CUTLOSS answer makes of the stop loss.
Extended(row, n) ==
    Min({HardFloor, Max({StopLossOf(row) + 1,
                         Min({StopLossOf(row) + MaxExtension, n})})})

(***************************************************************************)
(* The trailing stop.                                                      *)
(***************************************************************************)
\* o.rec is the recommended distance, narrowed by whatever the advisor says.
NoiseCaps(o) == {c[2] : c \in {d \in {<<85, 125>>, <<70, 200>>, <<50, 300>>} :
                                  Severity(o) >= d[1]}}

Distance(row, o) ==
    LET raw == Min({TrailDistance, o.rec} \union NoiseCaps(o))
    IN IF row.tp THEN raw * RunnerFactor
                 ELSE Max({raw, Min({TrailDistance, MinTrail})})

Below(price, distance) == (price * (Whole - distance)) \div Whole
Above(price, distance) == (price * (Whole + distance)) \div Whole

NewPeak(row, o) == o.price > HighAt(row, o) /\ Profit(o) >= Activation

PeakStop(row, o) ==
    Max({Below(o.price, Distance(row, o))}
        \union IF Profit(o) < 15 * Percent THEN {}
               ELSE {Above(EntryAt(o), Max({FeeDrag + 2 * Percent, RunnerFloor}))})

TightStop(row, o) ==
    Below(Max({HighAt(row, o), o.price}), Distance(row, o))

Tightens(row, o) ==
    /\ ~ NewPeak(row, o)
    /\ Distance(row, o) < TrailDistance
    /\ StopAt(row, o) > 0
    /\ TightStop(row, o) > StopAt(row, o)

\* resolveRunnerStopPrice: what a partial take profit leaves as the stop.
RunnerStop(row, price) ==
    Min({Max({row.stop, Above(Entry, RunnerFloor)}), (price * 999) \div 1000})

(***************************************************************************)
(* Take profit and the trailing exit.                                      *)
(***************************************************************************)
ProfitTarget(row, o) ==
    IF /\ Profit(o) >= TakeProfit
       /\ 100 * Max({HighAt(row, o), o.price}) > 135 * EntryAt(o)
    THEN 50 * Percent ELSE TakeProfit

\* Mutant of HitsTarget: the runner is halved as well.
HitsTargetAgain(row, o) == Profit(o) >= ProfitTarget(row, o)

HitsTarget(row, o) == Profit(o) >= ProfitTarget(row, o) /\ ~ row.tp

HitsTrail(row, o) == StopAt(row, o) > 0 /\ o.price <= StopAt(row, o)

NetTooSmall(o) == Profit(o) - FeeDrag < MinNet
=============================================================================
