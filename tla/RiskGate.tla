------------------------------- MODULE RiskGate -------------------------------
(***************************************************************************)
(* The circuit breakers in front of an automatic buy (evaluateBuyRisk and  *)
(* getBuyRiskMetrics of trade.service.ts) for the live trades of one chat, *)
(* with what they feed on: the closed rows, to which the end of a sell     *)
(* adds profit, then fees, then the net profit, in statements of their own.*)
(* A crash between two of them leaves the row as it is.  Calls of          *)
(* attemptBuy overlap: nothing keeps the slots they have seen free for     *)
(* them, nor the metrics they have read as they are.                       *)
(*                                                                         *)
(* Rows are in the order of updatedAt.  The windows of the breakers are    *)
(* suffixes of that order, and time moves their beginnings.  Both start    *)
(* dates of the configuration (RISK_PNL_START_AT) are left empty, and the  *)
(* drawdown looks at every row, as it does by default.                     *)
(***************************************************************************)
EXTENDS Integers, Sequences, FiniteSets, Functions

CONSTANTS
    Routes,         \* the strategies a buy can come from
    Buyers,         \* the calls of attemptBuy that can be under way at once
    Outcomes,       \* what a trade can end with: [gross |-> ..., entry |-> ...,
                    \* fee |-> ..., priced |-> ...], the fees of the buy and of
                    \* the sell, and whether the row has the price of SOL they
                    \* are valued at (solPriceAtEntry)
    StreakLimit,    \* the most losses in a row, for every route
    StreakRows,     \* the rows the streak is counted in at most (50)
    DayLimit,       \* DAILY_MAX_LOSS_USD
    DrawdownLimit,  \* MAX_DRAWDOWN_PCT of the capital
    WorstLoss,      \* the most one trade can lose
    TradingSlots,   \* positions open at once
    MaxCloses,      \* bound on the closed rows
    MaxUnfinished   \* bound on the rows whose booking has not ended

Loss(o) == o.entry + o.fee - o.gross

ASSUME OutcomesAssumption ==
    \A o \in Outcomes : o.gross \in Int /\ o.entry \in Nat /\ o.fee \in Nat /\ Loss(o) <= WorstLoss
ASSUME RoutesAssumption == IsFiniteSet(Routes)
ASSUME BuyersAssumption == IsFiniteSet(Buyers) /\ Buyers # {}
ASSUME BreakersAssumption ==
    /\ StreakLimit \in [Routes -> Nat] /\ StreakRows \in Nat
    /\ DayLimit \in Nat /\ DrawdownLimit \in Nat
    /\ WorstLoss \in Nat /\ TradingSlots \in Nat
    /\ MaxCloses \in Nat /\ MaxUnfinished \in Nat

VARIABLES
    held,       \* open positions of every route
    closes,     \* the CLOSED rows
    dayFrom,    \* rows before today
    streakFrom, \* rows before the lookback of the loss streak
    attempt,    \* what every call of attemptBuy has seen
    waived      \* history: a buy by hand has opened a position, or a metric was
                \* read while a row did not hold its net result

riskVars == <<held, closes, dayFrom, streakFrom, attempt, waived>>

\* kind: the call will open a position, add to one, or was made by hand; read:
\* the metrics that have arrived.
NoAttempt == [route |-> "none", kind |-> "none", read |-> {}]
Metrics == {"day", "streak", "total"}

RiskInit ==
    /\ held = [r \in Routes |-> 0]
    /\ closes = << >> /\ dayFrom = 0 /\ streakFrom = 0
    /\ attempt = [b \in Buyers |-> NoAttempt] /\ waived = FALSE

HeldCount == SumFunctionOnSet(held, Routes)

(***************************************************************************)
(* The metrics.                                                            *)
(***************************************************************************)
\* The profit in the row and the fees taken from it.  A profit not yet added
\* is 0, as is the one of a row closed on an empty wallet ("zero"); the fees of
\* the buy are there from the beginning.
GrossProfit(c) == IF c.booked \in {"profit", "fees", "net"} THEN c.outcome.gross ELSE 0
Fees(c) == c.outcome.entry + (IF c.booked \in {"fees", "net"} THEN c.outcome.fee ELSE 0)

\* computeNetProfitUsd: the profit before fees when their price is missing.
NetProfit(c) == GrossProfit(c) - (IF c.outcome.priced THEN Fees(c) ELSE 0)

After(from) == (from + 1) .. Len(closes)
BookedSince(from) == SumFunctionOnSet([i \in After(from) |-> NetProfit(closes[i])], After(from))

\* The losses of a route since its last trade that did not lose.
Run(from, route, Lost(_)) ==
    LET rows == {i \in After(from) : closes[i].route = route}
    IN  Cardinality({i \in rows : \A j \in rows : j >= i => Lost(closes[j])})

\* It is counted in the last rows only: take, in getBuyRiskMetrics.
AtMost(n, most) == IF n > most THEN most ELSE n
LossRun(from, route) ==
    AtMost(Run(from, route, LAMBDA c : NetProfit(c) < 0), AtMost(StreakLimit[route], StreakRows))

\* Some row does not hold the net result of its trade: its booking has not
\* ended, it was closed on an empty wallet, or its fees cannot be valued.
Unfinished == \E i \in After(0) : closes[i].booked # "net" \/ ~ closes[i].outcome.priced

\* attemptBuy reads the open positions and has a free slot, or the token is
\* held already and the buy adds to its position; then it asks for the
\* metrics, three queries at once.  An amount of its own skips the breakers
\* (RISK_APPLY_TO_MANUAL).
AskMetrics(b, route, kind) ==
    /\ attempt[b] = NoAttempt
    /\ IF kind = "scaleIn" THEN HeldCount > 0 ELSE HeldCount < TradingSlots
    /\ attempt' = [attempt EXCEPT ![b] =
          [NoAttempt EXCEPT !.route = route, !.kind = kind,
                            !.read = IF kind = "hand" THEN Metrics ELSE {}]]
    /\ UNCHANGED <<held, closes, dayFrom, streakFrom, waived>>

Trips(limit, loss) == limit > 0 /\ loss >= limit

\* A metric arrives and is held against its limit (evaluateBuyRisk).  One that
\* trips ends the attempt, whatever the others say.
Compare(b, metric, limit, loss) ==
    /\ attempt[b].kind # "none" /\ metric \notin attempt[b].read
    /\ attempt' = [attempt EXCEPT ![b] =
          IF Trips(limit, loss) THEN NoAttempt ELSE [attempt[b] EXCEPT !.read = @ \union {metric}]]
    /\ waived' = (waived \/ (attempt[b].kind = "open" /\ Unfinished))
    /\ UNCHANGED <<held, closes, dayFrom, streakFrom>>

ReadDay(b) == Compare(b, "day", DayLimit, - BookedSince(dayFrom))

ReadStreak(b) ==
    Compare(b, "streak", StreakLimit[attempt[b].route], LossRun(streakFrom, attempt[b].route))

ReadTotal(b) == Compare(b, "total", DrawdownLimit, - BookedSince(0))

(***************************************************************************)
(* The decision.                                                           *)
(***************************************************************************)
Answered(b) == attempt[b].kind # "none" /\ attempt[b].read = Metrics

\* The operator has disabled buys for a while, a query or the process fails, or
\* the buy comes to nothing or adds to a position there is.
EndAttempt(b) ==
    /\ attempt[b].kind # "none"
    /\ attempt' = [attempt EXCEPT ![b] = NoAttempt]
    /\ UNCHANGED <<held, closes, dayFrom, streakFrom, waived>>

\* The gate is open; seconds later the buy opens a position, whatever slots are
\* free by then.
OpenPosition(b) ==
    /\ Answered(b) /\ attempt[b].kind # "scaleIn"
    /\ held' = [held EXCEPT ![attempt[b].route] = @ + 1]
    /\ attempt' = [attempt EXCEPT ![b] = NoAttempt]
    /\ waived' = (waived \/ attempt[b].kind = "hand")
    /\ UNCHANGED <<closes, dayFrom, streakFrom>>

(***************************************************************************)
(* The end of a sell, and time.                                            *)
(***************************************************************************)
\* A position ends in a row: the update that writes it takes an open one only.
WriteClosed(route, booked) ==
    /\ Len(closes) < MaxCloses
    /\ held' = [held EXCEPT ![route] = @ - 1]
    /\ \E o \in Outcomes :
        closes' = Append(closes, [route |-> route, outcome |-> o, booked |-> booked])
    /\ UNCHANGED <<dayFrom, streakFrom, attempt, waived>>

Close(route, booked) == held[route] > 0 /\ WriteClosed(route, booked)

CloseTrade(route) ==
    /\ Cardinality({i \in After(0) : closes[i].booked \notin {"net", "zero"}}) < MaxUnfinished
    /\ Close(route, "none")

\* Nothing is left in the wallet: the row is closed with a profit of zero,
\* whatever the tokens have cost, and nothing is added to it any more.
CloseOnZero(route) == Close(route, "zero")

\* The increments are raw SQL and leave updatedAt alone.
AddProfit(i) ==
    /\ closes[i].booked = "none"
    /\ closes' = [closes EXCEPT ![i].booked = "profit"]
    /\ UNCHANGED <<held, dayFrom, streakFrom, attempt, waived>>

AddFees(i) ==
    /\ closes[i].booked = "profit"
    /\ closes' = [closes EXCEPT ![i].booked = "fees"]
    /\ UNCHANGED <<held, dayFrom, streakFrom, attempt, waived>>

\* The update of netProfitUsd is not: the row becomes the last one updated.
WriteNet(i) ==
    /\ closes[i].booked = "fees"
    /\ closes' = SubSeq(closes, 1, i - 1) \o SubSeq(closes, i + 1, Len(closes))
                    \o << [closes[i] EXCEPT !.booked = "net"] >>
    /\ dayFrom' = IF i <= dayFrom THEN dayFrom - 1 ELSE dayFrom
    /\ streakFrom' = IF i <= streakFrom THEN streakFrom - 1 ELSE streakFrom
    /\ UNCHANGED <<held, attempt, waived>>

DayEnds ==
    /\ dayFrom < Len(closes)
    /\ dayFrom' = Len(closes)
    /\ UNCHANGED <<held, closes, streakFrom, attempt, waived>>

LookbackMoves ==
    /\ streakFrom < Len(closes)
    /\ streakFrom' = streakFrom + 1
    /\ UNCHANGED <<held, closes, dayFrom, attempt, waived>>

Attempting ==
    \E b \in Buyers :
        \/ ReadDay(b) \/ ReadStreak(b) \/ ReadTotal(b) \/ EndAttempt(b) \/ OpenPosition(b)
        \/ \E route \in Routes, kind \in {"open", "scaleIn", "hand"} : AskMetrics(b, route, kind)

Selling ==
    \/ \E route \in Routes : CloseTrade(route) \/ CloseOnZero(route)
    \/ \E i \in After(0) : AddProfit(i) \/ AddFees(i) \/ WriteNet(i)

RiskNext == Attempting \/ Selling \/ DayEnds \/ LookbackMoves

RiskSpec == RiskInit /\ [][RiskNext]_riskVars

(***************************************************************************)
(* Properties.                                                             *)
(***************************************************************************)
\* The types of the variables.
RiskTypeOK ==
    /\ held \in [Routes -> Nat]
    /\ \A i \in After(0) :
        /\ closes[i].route \in Routes /\ closes[i].outcome \in Outcomes
        /\ closes[i].booked \in {"none", "profit", "fees", "net", "zero"}
    /\ Len(closes) <= MaxCloses
    /\ dayFrom \in 0 .. Len(closes) /\ streakFrom \in 0 .. Len(closes)
    /\ attempt \in [Buyers -> {NoAttempt} \union
          [route : Routes, kind : {"open", "scaleIn", "hand"}, read : SUBSET Metrics]]
    /\ waived \in BOOLEAN

\* What the rows since a moment have truly lost, booked or not.
TrueLoss(from) ==
    SumFunctionOnSet([i \in After(from) |-> Loss(closes[i].outcome)], After(from))

\* The positions that can be open at once, for each call may find the slots as
\* the others have found them.
MostPositions == TradingSlots + Cardinality(Buyers) - 1

\* The breakers stop a losing run in time: unless a buy by hand has opened a
\* position, or a metric was read while a row did not hold its net result, the
\* loss of the day and of the account and the run of losses of a route never
\* exceed their limit by more than the positions open at once can lose, the
\* ones of overlapping attempts included; the run, as long as its limit is not
\* above the rows it is counted in (getBuyRiskMetrics, evaluateBuyRisk).
LossesBounded ==
    ~ waived =>
        /\ DayLimit > 0 => TrueLoss(dayFrom) < DayLimit + MostPositions * WorstLoss
        /\ DrawdownLimit > 0 => TrueLoss(0) < DrawdownLimit + MostPositions * WorstLoss
        /\ \A r \in Routes : StreakLimit[r] \in 1 .. StreakRows =>
              Run(streakFrom, r, LAMBDA c : Loss(c.outcome) > 0) < StreakLimit[r] + MostPositions
=============================================================================
