# Verification of the Solana trading bot

TLA+ models of the parts of this repository that move money, the TLC
configurations that check them on small instances, and theorems about them
proved with TLAPS.  Paths such as `trade.service.ts` are relative to `src/`
of the repository unless they start with `prisma/`.

## 1. The system

The bot discovers tokens, buys some of them, watches every open position once a
second and sells it when an exit rule fires.  It is one NestJS process, so code
between two `await`s runs alone; everything hard comes from what happens at the
awaits, from timers, from the chain and from restarts.

| Component | State it keeps | Operations | Talks to |
|---|---|---|---|
| Sell execution (`trade/trade.service.ts`: `executeSell`, `recordExecutedSell`, `resolveSignatureFate`, `executeJupiterSwap`) | `sellingTrades`, `pendingSellSignatures`, retry and failure counters, the `Trade` row | sell a part or all, reconcile an ambiguous sell, write the fill | Jupiter, Solana RPC, the database, Telegram |
| `common/pending-sell-store.ts` | map trade -> signature, JSON file | load, get, set, delete | sell execution, file system |
| Buy execution (`attemptBuy`, slots, scale-in) | `Trade` rows, the wallet | open, scale in, reconcile a buy | Jupiter limiter, database, sells of the same rows |
| Buy risk gate (`evaluateBuyRisk`, `getBuyRiskMetrics`) | nothing of its own: it reads the closed rows | day loss, loss streak, drawdown | buy execution, the end of every sell |
| Honeypot probe (`runConditionalHoneypotProbe`) | `TokenSafetyProbe` rows | buy a little and sell it again, remember the verdict | buy execution, Jupiter |
| Withdrawals (`sendSolanaToAddress`, the Telegram dialogue) | `TelegramWithdrawal` rows, `pendingWithdrawAddress` | choose address, choose amount, transfer | RPC, Telegram |
| Price monitor (`price-monitor/price-monitor.service.ts`) | `processingTrades`, breach counters, hold zone, trailing stop and extended stop loss in the row | tick, evaluate, trail, trigger exits | sell execution, prices, AI advice |
| `common/jupiter-limiter.ts` | two queues, in-flight counts, spacing clocks | enqueue, dispatch, retry, time out | every Jupiter call of buys and sells |
| `common/dex-limiter.ts`, `common/helius-limiter.ts`, `common/rpc-retry.ts` | queue and cache, backoff | get with cache, retry, rotate the endpoint | everything that reads markets |
| Scanner (`scanner/scanner.service.ts`) | `seenTokens`, `processingTokens`, `activeMonitoring`, `Watchlist` rows | discover, watch, confirm an entry, reconnect | analyzer, buy execution |
| Deposit webhook (`scanner/helius-webhook.controller.ts`) | deposit ledger, wallet balance | credit a deposit once | database |
| Token analysis (`analyzer/`) | `CreatorProfile` rows, `TokenSafetyProbe` rows | judge a new token, judge a rebound, read a creator | RPC, RugCheck, DexScreener, scanner, the end of a sell |
| Meta labels and trends, narrative, flow volume, AI advisers | caches, counters, scores | label, score, advise | scanner, monitor |
| Reporting, Telegram workspace, configuration, Prisma | chat settings, rows | show, set, store | the operator |

What makes each of them correct, and where it is hard to test, is the list of
`hazards` in `PROJECT.json`, each at its line.  The hardest behaviours are:

* a sell that was broadcast and not confirmed: it may land, fail or vanish, the
  process may restart meanwhile, and the next exit signal wants to sell again;
* several callers of `executeSell` for one trade, with the row read before the lock;
* a row written by somebody else during the seconds a swap takes;
* a shared request queue in which a protective sell must not wait for buys, and
  in which every promise has to settle although the remote side may be silent;
* a withdrawal whose confirmation is ambiguous;
* calls of `attemptBuy` that overlap for seconds on one snapshot of the open
  trades, with nothing locked, beside sells of the same rows;
* overlapping monitor ticks that act on older snapshots of the row;
* a scanner whose slots and watchlist row have to survive errors on every path,
  and a cooldown that must hold although that row can be lost;
* breakers that count losses while the losing rows are still being written, for
  buys that overlap;
* deposits that are delivered again, in parallel, or not at all;
* verdicts on a token that must not depend on which of its sources failed.

## 2. Modules

In the order of what they protect.

| # | Module | Composes | Promise it is checked against | Status |
|---|---|---|---|---|
| 1 | `SellLifecycle` | executeSell, reconciliation, the swap, the pending record | `PositionLedger` | modelled, checked, proved |
| 2 | `JupiterLimiter` | the shared request queue | `PriorityLanes` | modelled, checked, proved |
| 3 | `Withdrawal` | Telegram dialogue and transfer | invariants | modelled, checked, proved |
| 4 | `HoneypotProbe`, `BuyExecution` | the probe inside attemptBuy: slots, exposure, scale-in, beside sells of the same rows | invariants | modelled, checked, proved |
| 5 | `ExitRules`, `PriceMonitor` | the exit rules as operators; overlapping ticks, the claim, stale rows, defence, retry timers | invariants, one action property | modelled, checked, proved |
| 6 | `Scanner` | one token from discovery to the row it leaves | invariants | modelled, checked, proved |
| 7 | `SafetyGate` | the checks of a new and of an established token, the creator's profile | invariants | modelled, checked, proved |
| 8 | `RiskGate` | the loss breakers and the bookkeeping they read | invariant | modelled, checked, proved |
| 9 | `Deposits` | the webhook and its ledger | invariant | modelled, checked, proved |
| 10 | `DexLimiter` | the serial lane with its cache | invariant, liveness | modelled, checked, proved |

`MCSellLifecycle`, `MCWithdrawal` and `MCPriceMonitor` instantiate one component
for TLC.  `MCBuyExecution` holds the buys and, since they are a part of
`attemptBuy`, the breakers of `RiskGate`; `MCLimiters` the two limiters and
`MCServices` the components 5, 6, 7 and 9.  What shares nothing is put beside each
other, not into a product: the variable `limiter` (`part`, `about`) picks in
the initial state the component a behaviour is about, and the others stay as they
start.

What the components do share is modelled where it is used: `PriceMonitor`
abstracts a sell to its outcomes (`SellLifecycle` has the rest), `Scanner`
abstracts a buy to the trade it leaves (`BuyExecution`) and an analysis to its
verdict (`SafetyGate`), `SafetyGate` takes a blocked probe from `HoneypotProbe`
and penalties from the end of a sell.

Still worth doing: the file of several trades behind `PendingSellStore`; the
retry counters of `queueSellRetry` that escalate an urgent exit.

## 3. Sells: `SellLifecycle`, `PositionLedger`

### State and actions

One position is modelled: trades share nothing on the sell side except the
pending file.

| Variable | Code |
|---|---|
| `row`, `credit`, `booked` | the `Trade` row: status and how it was closed; how often the fill of each transaction was written; the transactions whose profit is in `profitUsd` |
| `erased` | history: the transactions whose booked profit a zero-balance close overwrote |
| `selling` | `sellingTrades` |
| `mem`, `disk` | the entry of `PendingSellStore`, in memory and in the JSON file |
| `chain`, `bag` | the sell transactions as the network sees them, the token balance |
| `pc`, `call` | where each call of `executeSell` is, and its locals |
| `raced`, `unrecovered`, `givenUp` | alerts and log lines that tell the operator about a transaction |

An action is the code between two awaits: `Begin` reads the row, `Lock` tests
and sets the lock, `NothingPending` / `StillUnknown` / `FoundLanded` /
`FoundDead` are the four ways out of the reconciliation gate, `RecoverFill`
parses the old fill, `ReadBalance` and `CloseOnZero` are the balance check,
`Broadcast` ... `Unconfirmed` the swap, `WriteRow` ... `BookProfit` the
bookkeeping, `Throw` the catch.

`CloseOnZero` writes `profitUsd: 0` and so wipes the profit that earlier partial
sells had added; they move from `booked` to `erased`.  `LandedSellAccounted`
therefore says when this may happen: only if some landed sell was given up by the
gate or could not be recovered (`LostSells`), because nothing else empties the
wallet of an open position.  It cannot happen merely because two calls overlap,
or because a sell waits to be reconciled.

Merged or left out, and why that is safe:

* the lock and the settings read, and the lookup of the pending record and its
  status query, are one step each: only this call can change what the second
  half reads, because it holds the lock;
* the zero-balance close is one step with the balance read; its failure in
  between is `Throw`;
* a Jito bundle and a raw send are one `Broadcast` whose transaction may or may
  not have reached the network;
* attempts that fail before a broadcast change no state, so the model goes
  straight to success or to `SwapNotSent`; a retry timer is one more `Begin`,
  which may happen at any time;
* profit arithmetic, the failure counters, the creator blacklist write, the
  runner stop after a partial exit and concurrent scale-ins are not here
  (`RiskGate`, `SafetyGate`, `PriceMonitor` and `BuyExecution` have them, or
  they only reach messages);
* ages stop growing when they are past their bound.  `WindowAssumption` (the
  blockhash does not outlive `SELL_UNCONFIRMED_TTL_MS`) is the premise the code
  states in the comment of `resolveSignatureFate`.

`PositionLedger` is what remains when all that is forgotten: transactions land,
each is written to the row at most once and while it is OPEN, a CLOSED row stays.

### Runs

Two calls and two signatures are the least that shows a lost lock, a second
sell and a double write.  Two calls see every interleaving of a pair of
handlers; a third one adds none that the lock does not already exclude.  A bag
of three makes half of it round down, a half of one round to zero.  A lifetime
and a window of one unit give "inside", "at the edge" and "past" to both clocks.

| Run | Faults | Shows |
|---|---|---|
| `sell_crash` | crash, failing queries, unparsable fills, throws, dry-run toggle, operator | `TypeOK`, `CreditedAtMostOnce`, `NoAbandonedTokens`, `ClosedIsFinal`, `ImplementsLedger` |
| `sell_live` | failing queries, unparsable fills; fair | `AtMostOneInFlight`, `LandedSellAccounted`, `PendingResolved` |
| `sell_restart` | crash | refuted: after a restart two sells fly (`AtMostOneInFlight`) |
| `sell_unrecovered` | unparsable fills | refuted: a landed sell that could not be recovered is closed at zero (`UnrecoveredStaysOpen`) |
| `sell_persist` | crash, failing writes | refuted: a partial fill is written twice (`CreditedAtMostOnce`) |

Deadlock is not checked: the signatures run out and the row closes.

Fairness (`FairSpec`, `sell_live` only): a call that has begun is driven on by
the event loop; time passes; an OPEN position gets an exit signal again and
again.  The last one is an assumption about the market and the one-second
monitor; without it the pending record is simply not looked at, which is listed
as a hazard.  Nothing is assumed of the network or of the status query.

### Findings

1. `sell_restart`: the signature is stored only when the wait for the
   confirmation throws.  A process that dies during the wait leaves no record,
   although `pending-sell-store.ts` says it closes the restart hole.
2. `sell_unrecovered`: the record is deleted before its fill is recovered.  If
   parsing fails, the trade is announced as "left OPEN" and the next exit
   closes it at zero.
3. `sell_persist`: a deletion whose write fails leaves the entry on disk; after
   a restart the same partial fill is applied again.

## 4. Jupiter requests: `JupiterLimiter`, `PriorityLanes`

`queue`, `inFlight`, `since` and `loop`/`nap` are `sellQueue`/`buyQueue`, the two
in-flight counters, the two spacing clocks and `processing` with the sleep of
`processQueue`.  `state`, `attempt` and `timer` follow each request: its wait
timer while it is queued, its deadline while it executes, its backoff in between.

`processQueue` is synchronous between its sleeps, so while `loop = "run"` no
other action is enabled; `Dispatch` may then happen several times before the
loop sleeps or stops.  `Tick` is one unit of time and waits for every timer that
is due: timers fire on time.  The counters are decremented in a `finally` that
runs right after the settlement, one step in the model.  Answers are kept as
resolved, rejected or expired.  An answer after the deadline changes nothing.

`PriorityLanes` keeps three sets: waiting, running, settled.  A request starts
only if its lane has a free slot and, for a buy, no sell is waiting.

The run `limiters` checks it beside `DexLimiter` (section 12).  The behaviours
named `sells` have two sells of both endpoint families and a buy, those named
`buys` a sell and three buys; cap 1, queues of 2, spacing 2, waits 4 and 2,
deadline 3, two attempts.  It shows `NoLostWakeup`, `SlotsAccounted`,
`SellNotHeldByBuys`, `ImplementsLanes` and `EverySettles`.

Two requests of a lane meet a cap of one, three a queue of two, and the lengths
are chosen so that each timer can fire before, with and after each other one.
`SellNotHeldByBuys` is a claim about the shape of the code (separate caps): all
it needs of the lengths is a sell wait beyond one poll and one spacing.  Its
mutant is the shared counter the comment at lines 96-103 describes.

Fairness: the event loop runs the dispatcher and due timers, and time passes.
The remote side gets none: it may never answer.  Deadlock is not checked, the
requests run out.

The 429 retry of a sell ignores the spacing clock of its family (`Retry`); the
comment at lines 52-60 speaks of dispatches only, so this stays a hazard.

## 5. Withdrawals: `Withdrawal`

One chat: the dialogue map and the wallet are per chat.  `flow` and `entered`
are the entry of `pendingWithdrawAddress` (the address pending is always the
last one typed), `menu` says that preset buttons exist in the chat; they stay
there for ever, also after a restart.  A call is one press: it takes the pending
address, computes the spendable balance, creates a PENDING row, sends, confirms
and records.  A success is two steps: the row (`RecordSuccess`) and, when the call
has returned, the dialogue (`ForgetAddress`); between them the address can be
used again, so `PaidAddressIsSpent` speaks of what has been reported
(`ReportedPaid`).  The catch is `failing`; every await after the row exists can lead
there, including those after a successful confirmation.  The conversion from
dollars is the choice of an amount from `Amounts`.  Guards that depend on the
configuration only are constant and left out.  Buys and sells spend from the
same wallet; `OnlyOverlapBreaksReserve` is about withdrawals alone.

| Run | Bounds | Shows |
|---|---|---|
| `withdraw` | three presses, two addresses, amounts 3, 6, 9 of a wallet of 12 with a reserve of 4 and fee 1 | `TypeOK`, `RowsMatchChain`, `OnlyOverlapBreaksReserve`, `PaidAddressIsSpent` |
| `withdraw_failed` | two presses | refuted: a row says FAILED and the transfer landed (`FailedMeansUnpaid`) |

With these amounts one payment fits, two fit only when the second one knows of
the first, and 9 only fits if the reserve is forgotten.  The third press covers
a retry that overlaps two others.

Finding 4 (`withdraw_failed`): the catch reports every error as a failed
transfer without its hash, also after the broadcast and after the confirmation,
and leaves the address in the dialogue ready to be paid again.

## 6. Buys: `HoneypotProbe`, `BuyExecution`

One chat and its wallet.  A call of `attemptBuy` begins with a snapshot of the
open trades (`seen`, `exposure`, `target`) and keeps it to the end; nothing is
locked, so any number of calls of the scanner, the analyzer, the endpoint and
the chat are under way together.  A `Trade` row is named by the call that
creates it (`status`, `slot`, `amount`, `value`, the order `created`).

| Stage of a call | Code |
|---|---|
| idle -> looked (`Begin`) | the queries of the open trades and of the newest row of the token |
| -> admitted (`Admit`) | already open, slot limit, `slotToUse` |
| -> probing or swapping (`PassGuards`) | sizing, reserve, capital and balance guard |
| probing ... saving (`Probe`) | the probe: two lookups, buy, sell, four balance reads, the upsert |
| swapping -> confirming -> filled or reconciling (`Send`, `Confirmed`, `Rejected`, `Unconfirmed`) | `executeJupiterSwap` |
| reconciling -> filled or done (`Reconciled`, `Unreconciled`) | the five queries of `getActualSwapDetails`, then the alert |
| filled -> auditing -> done (`CreateRow`, `Audit`) | `trade.create`, then the raw UPDATE of the audit columns |
| filled -> done (`ScaleIn`, `ScaleInTooLate`) | the guarded `updateMany` and its zero count |

`Refuse` is every early return, `WriteThrows` a statement that throws on the way
out, `Crash` the end of the process: calls vanish, transactions, rows and
verdicts stay.  A full sell takes the whole balance when it lands (`SellAll`) and
closes the row when it is recorded (`RecordClose`); in between anything may
happen.  `SellHalf` and `RecordHalf` are the partial exit.  The details of sells
are those of `SellLifecycle`.

The tokens in the wallet are lots, named by the call that brought them in,
because the properties ask whose tokens a probe or a sell took away.  `before`,
`share` and `written` are history.

Abstractions: SOL and USD are one unit at a constant price and network fees are
less than that unit; a size is any of `Sizes` that passes the guards; what a sell
brings is any of `Proceeds`; verdicts of one chat (`ReadBlocked` in the code looks
at those of all chats, which only refuses more); a token is a trap from the
beginning or never; averaged entry prices, the trailing stop of a scale-in and
the conditions of the risk breaker are left out, and withdrawals do not spend
from this wallet.  Two reads that the code makes of one balance in `PassGuards`
are one step.

The code allows two overlapping calls to share a slot, to open two rows of one
token and to exceed the slots, and no document says otherwise.  The properties
therefore say exactly how far that goes: collisions come *only* from overlap
(`RowsCollideOnlyByOverlap`, `TokensGoneOnlyByOverlap`,
`BlockedForgottenOnlyByOverlap`; `SlotsExceededOnlyByOverlap` follows from the
first and is a theorem, not a run property), so a caller that
serialises its buys is safe, and everything else holds under any interleaving.

| Run | Bounds | Shows |
|---|---|---|
| `buys` | two calls, two tokens, one slot, sizes 2 and 4 (4 is probed) of a wallet of 12, one partial sell per row | `BuyTypesOK`, `RowsCollideOnlyByOverlap`, `PrincipalExact`, `LandedIsWrittenOrAlerted`, `TokensGoneOnlyByOverlap`, `CapitalKept`, `TrapNeverBought`, `ClosedStaysClosed`, `BlockedForgottenOnlyByOverlap`; `LossesBounded` (section 10) |
| `buy_silent` | the same | refuted: a scale-in is lost without an alert (`NeverSilentlyLost`) |

Two calls are a pair of rows, a row and its scale-in, or two probes of a token;
with one slot the second row is already one too many.  Three calls or two slots
add no new pair of actors, and the theorems cover any number of both.  Two tokens
keep "same token" and "same slot" apart.  A wallet of 12 pays for two buys when
each looks at the balance alone and not when the exposure is counted.  Deadlock is
not checked: the calls run out.

Finding 5 (`buy_silent`): the scale-in is guarded against a row that is CLOSED,
not against one whose full sell has landed and is not recorded yet.  The fill
increments the OPEN row, `recordExecutedSell` closes it with the proceeds of the
older tokens, and the new tokens have no open row, no stop loss and no alert.

## 7. Open positions: `ExitRules`, `PriceMonitor`

`ExitRules` holds the judgements of `evaluateTrade` as operators over one row and
one observation of the market: profit, the conversion of old dollar prices, the
emergencies, the hold zone, the stop, the trailing stop, the take profit.
Percentages are basis points, the entry price is 10000.  `PriceMonitor` says in
which order they are asked, what is awaited between them and what each answer
writes.

| Variable | Code |
|---|---|
| `row` | status, `partialTakeProfitAt`, `highestPrice`, `trailingStopPrice`, the extended stop loss and the number of defences |
| `claimed` | `processingTrades` has the trade |
| `pc`, `snap`, `obs`, `exit` | where each tick is, the row as it read it, the market as it fetched it, what it is selling |
| `zone`, `deep`, `draining`, `dumping` | `dynamicHoldZoneEnteredAt`, `deepStopLossBreaches`, `liquidityDropBreaches`, `whaleDumpBreaches` |
| `timers` | retries of a partial sell that `executeSell` has queued |
| `young` | the minimum hold time has not passed |
| `halves` | history: halves sold as a partial take profit |

A tick reads the row (`Read`), finds it closed, claimed by another tick, or
claims it and judges what needs no further answer (`Judge`), reads the balances
of creator and top holder and decides (`Decide`: `Verdict` lists the rules in the
order of the code, `FirstOf` takes the first that holds), and then consults the
advisor or the health check, defends a stop loss, trails, or sells.  `Release` is
the `finally`.  What stays wrong on purpose: the tick judges the row it read
*before* it had the claim, writes the trailing stop over whatever the row holds
by then, and `executeSell` looks at the status only.

Positions share nothing in the monitor but the size of a batch, so one is
modelled.  The advisor's cached answer, the health check and the market are any
of their values; a tick that waits for a verdict on selling everything forgets
the rest of what it knows, which only merges states.  `Skip` is a dry-run chat, a
missing price or an await that throws.  Left out: alerts, report columns, the
count of missing prices, paper positions, scale-ins.

The bounds: two ticks are a tick and one that overlaps it; one market per rule
(a calm one, below the zone, below the stop in the fast quote, a deep drop, a
take profit, drained liquidity with sellers, a whale, a fake pump); one defence,
because the hazard is a second one on an older snapshot; one queued retry.

Properties (run `services`): `OneEvaluation`, `LossBudget`, `HalvesOwed`.  The
last is the exact extent of a hazard, the half that is sold again.
`partialTakeProfitAt` is looked at in the snapshot of the tick only, so a tick
that read the row before the first half was written (`Unaware`) takes another
one, and so does a retry timer, which looks at nothing but the status.  `Owed` is
the number of both, and once the row shows a partial take profit every further
half uses one of them up: no tick that starts later adds to the debt, no snapshot
is good for two halves, and a failed half becomes one timer and not a timer and a
tick.

That the half can be sold twice at all is against the comment on the rule, which
says that one partial take profit comes first: two ticks read the row, one takes
half and gives the claim back, and the other claims the trade and takes half of
the rest.

Finding 6 (`monitor_crash`): after a fall of more than nine tenths the entry
price in the row is more than ten times the current price, is taken for a dollar
price of an old row and divided by the price of SOL; the loss becomes a profit
and half is sold as a take profit instead of everything at once
(`HardCrashSellsAll`).  The conversion is there for old rows, and the exits that
do not look at the profit (drained liquidity, creator, whale) still fire; the run
uses a market in which they have nothing to see.

One more thing a reader may trip over: at a new peak `Trail` sets the stop from
the peak, with the wider distance of a runner, so it can be lower than the floor
`RunnerStop` left, although the comment above that function says that a trailing
stop must never retreat.

## 8. Discovery: `Scanner`

One token, because tokens share only the number of monitors (`others` counts the
rest).  A monitor is one call of `processNewToken`.

| Variable | Code |
|---|---|
| `watch` | the `Watchlist` row: status, whether FAILED is for good, checks, the baseline of the entry confirmation |
| `seen`, `processing`, `active` | `seenTokens`, `processingTokens`, `activeMonitoring` |
| `trade`, `latest` | the last trade of the token in every live chat, and whose is the newest |
| `mon` | where each monitor is and what it has bought |

`Discover`, `Radar` and `Webhook` are the ways in.  `Lookup` ... `Enter` are the
statements before the loop, each an await; `Throws` is the exception in front of
the loop, `Break` and `GiveUp` the one inside it.  The loop is `Look`, `Rebound`
(the established path, which may buy itself), `Analyze`, `ConfirmEntry`, and then
one chat after another.  `End` is the `finally`.  `Purge` deletes rows under the
monitor's feet, `BuysByHand` is a purchase elsewhere, `SeenExpires` and
`WindowPasses` are time.

The analyses answer anything; the buy of a chat is refused or succeeds.  `again`,
`early`, `torn`, `outside` and `bought` are history.

Properties: `SlotsMatchMonitors` (a slot lost on any path would stop the scanner
for good after `MAX_CONCURRENT` of them), `BuysTwiceOnlyAfterTornRebound` (the
rebound path swallows an exception after it has bought for some chats, and the
loop goes on: the code does buy again then) and `RestsAfterTrade` (an error after
a buy overwrites TRADED by FAILED and forgets the token, the radar may delete the
row; what keeps the scanner from buying again is the trade itself).

Two monitors are a monitor and the next attempt to start one; three chats of
which two are live give a first, a second and a paper one; three checks stand for
fifty, with two slots.

## 9. Verdicts on a token: `SafetyGate`

`nature` is what the token is: mint safety, lock of the liquidity, origin on
pump.fun, the creator's balance, the spread of the holders, dangers in the
report.  It does not change; what a look at it *sees* depends on when a source is
asked and whether it answers.  A `look` is one call of `isTokenSafeToBuy`
(`standard`) or `analyzeAndExecuteRebound` (`established`): market, stored probe,
mint, RugCheck, balance, profile, signals, each with its failure (`MintFails`,
`ReportFails`, `BalanceFails`, `ProfileFails`, `LookThrows`) and its retries.

Every section of RugCheck's report is optional, and the code reads a missing one
as one without a fault: no holders, no risks, a score of 0, no markets, no creator.
`held` are the sections of the report at hand, and `SeenSpread`, `SeenLp`,
`SeenDanger`, `SeenCreator` what the rules make of them.  `pool` is what the
holder table makes of a liquidity pool that RugCheck has not labelled yet: left
out, a whale, or counted by the safety index only, because its owner reads like a
pool (the concentration check leaves such an owner out, the index does not) or
because the index is the tighter limit.  Labels are taken to be there once
`HOLDER_DATA_SETTLE_MINUTES` have passed, and a report does not change between
the request and its reading.  An unknown age is no age below that limit: a pair
without a creation date is judged by the market rules as one of 1970.  The window
of ages of the established road is a constant of its own (`EstablishedAges`); it
overlaps the other one.

The rules of one stage are a sequence of `Rule`s and `FirstRejection` is the code's
first return; `permanent` marks the verdicts after which the scanner blacklists.
Limits of the market data are levels.

Around a look the pair grows older, a probe blocks the token and the end of a
sell punishes the creator: `ReadForPenalty` reads the profile and `Penalize`
writes absolute numbers later, so increments can be lost.

Properties: `SafeOnEvidence` and `CondemnedOnEvidence`.  The first speaks of what
was *shown*: a report that lacks its holders passes a token whose holders are
whales, and nothing in the code objects.  What it does promise is that a fault
that was read, a mint, a blocked probe and the blacklist are never lost behind
the failure of another source, a retry or a section that is missing.  The second
excepts the pool that the safety index counts.

This exception is against the code's own comments.  The concentration check takes
care not to be final on the holder table of the first minutes
(`analyzer.service.ts:1712-1715`); the safety index a few lines on (1790-1800) is
computed from the same table and returns `permanent: true` at any age, so a sound
token whose pool has no label yet can be blacklisted.  Without the exception
`CondemnedOnEvidence` fails.

Reports with everything and without any one section show every default; two
missing sections hide two faults, and a token has one.  One fault per token is
enough because a rule asks for one of them; the exception is a fault with an
unknown creator, whose balance is never asked.  Markets have at most two
deviations from a sound one, so every rule is the first to reject in some market.
One penalty, three attempts.

## 10. Loss breakers: `RiskGate`

`closes` are the CLOSED rows in the order of `updatedAt`, `dayFrom` and
`streakFrom` the beginnings of the windows.  A sell ends in four steps
(`CloseTrade`, `AddProfit`, `AddFees`, `WriteNet`), and the last of them moves the
row to the end of the order; a crash leaves a row anywhere in between.
`NetProfit` is what `computeNetProfitUsd` makes of such a row.  An attempt asks
for three metrics at once, which arrive in any order (`ReadDay`, `ReadStreak`,
`ReadTotal`) while rows change, and is then blocked or let through; one that trips
ends it.

Attempts overlap (`Buyers`): `attemptBuy` locks nothing between the look at the
slots, the metrics and the row, so two calls can be let through on the same
numbers and open more positions than there are slots, `MostPositions` at most.  An
attempt that adds to a position takes no slot and may start when all are taken;
what it adds can be lost with the position it joins, so `WorstLoss` includes it.

Details of the code that decide what a row counts: the streak looks at the last
`StreakRows` rows (50), so a larger limit never trips; a row closed on an empty
wallet counts a profit of zero (`CloseOnZero`); a row without the price of SOL
counts before fees.

`LossesBounded` says what the breakers are for: a losing run cannot exceed a limit
by more than what the positions open at once can lose, those of overlapping
attempts included.  It is stated under `~ waived`: no buy by hand has opened a
position, and no metric was read for one while a row did not hold its net result,
because its booking had not ended, it was closed on an empty wallet or its fees
could not be valued.  The code breaks it without the second condition, since such
a row counts for less than it lost; those are the hazards at
`trade.service.ts:3034` and `:2603`.  The run of losses is bounded where its limit
is not above the rows it is counted in.

The run is `buys`, in the behaviours about the breakers: one strategy, two
overlapping attempts, one slot, three closed rows of which one is being booked,
limits of 1 (day), 2 (drawdown) and 1 (run of losses, counted in 2 rows), a worst
loss of 2.  Three closed rows reach every limit and exceed it by the allowed
amount: a loss that trips, beside it the position of the slot and that of the
second attempt.  The outcomes are a gain, and a gross gain that fees turn into a
loss.  Outcomes without a price are left to the theorem: they multiply the states,
and a metric read beside such a row waives the bound.

## 11. Deposits: `Deposits`

A delivery carries signatures (`Push`), is answered, and is then worked off:
transactions in order, wallets paid by each (`Grouped`), the lookup of the vault,
and the credit, which is a unique ledger row and an increment in one database
transaction.  A vault may be created in between; a batch can be lost to an error
(`LoseDeposit`) and all of them to a restart (`RestartWebhook`).
`VaultsMatchChain`: a vault holds exactly the whole of what the signatures in its
ledger pay it, so neither a redelivery nor a split transfer is credited twice or
in part.  That a deposit *arrives* is not promised by the code: a delivery whose
work failed after the answer is not asked for again.

Two overlapping deliveries out of three, two transactions of which one pays a
vault twice; each wallet becomes a vault at any time or never.

## 12. DexScreener requests: `DexLimiter`

`line`, `lane`, `wait`, `elapsed` and `kept` are the queue, the state of
`processQueue` with its `setTimeout`, the time since `lastRequestTime` and the
remaining life of the cached answers; `tries` counts the attempts of
`executeRequest`.  `helius-limiter.ts` is the same lane without a cache.
`NeverCrowded` speaks of the requests as sent (`quiet` is the true distance) and
`EveryCallSettles` of the callers: a price behind a stop loss waits in this lane.
Fairness: the event loop runs what is due, time passes, and a request is
answered or times out, which is justified because every caller in the repository
passes a timeout.

Two callers and two URLs with different lifetimes show an answer from the cache
at the head of the queue, a miss, and an entry that expires in between; three
attempts are those of the code.

## 13. The runs over several components

| Run | States | Shows |
|---|---|---|
| `limiters` | 97 thousand | `TypeOK`, `NoLostWakeup`, `SlotsAccounted`, `SellNotHeldByBuys`, `NeverCrowded`; `ImplementsLanes`, `EverySettles`, `EveryCallSettles` |
| `services` | 0.94 million | `AllTypesOK`, `OneEvaluation`, `LossBudget`, `SlotsMatchMonitors`, `BuysTwiceOnlyAfterTornRebound`, `RestsAfterTrade`, `VaultsMatchChain`, `SafeOnEvidence`, `CondemnedOnEvidence`; `HalvesOwed` |
| `monitor_crash` (the monitor) | few | refuted: a crash is taken for a profit (`HardCrashSellsAll`) |

Deadlock is not checked in them: requests, deliveries and positions run out.
`services` assumes no fairness, it checks safety only.

## 14. What is proved

TLAPS checks these for every set of calls, ticks, monitors, transactions and
requests and every value of the other constants, from the named assumptions of
the modules and, where the table says "if", from the condition it names.  Every
invariant and every action property of a passing run is among them.

The proofs are in `SellLifecycleProofs`, `LimiterProofs` (both limiters),
`WithdrawalProofs`, `BuyExecutionProofs` (with the probe), `PriceMonitorProofs`
(with the exit rules), `GateProofs` (`SafetyGate` and `RiskGate`) and
`ServicesProofs` (`Scanner`, `Deposits` and the composition `MCServices`).
`SumLemmas` has what several of them need of sums over finite sets.

| Theorem | Statement | Argument |
|---|---|---|
| `TypeCorrect` | `Spec => []TypeOK` | inductive together with "a call that waits for a confirmation or records a real fill knows its signature" (`SignaturesHeld`), without which `chain[call.sig]` has no type |
| `LockIsExclusive` | at most one call between lock and finally | the flag says exactly whether such a call exists |
| `SingleFlight` | `AtMostOneInFlight`, if `"crash" \notin Faults` | `FlightInv`: every transaction in flight is covered by the pending record, young enough to stay, or by a call that awaits it; past the gate nothing is pending |
| `CreditedOnce` | `CreditedAtMostOnce`, if `"persist" \notin Faults` | `CreditInv`: file and memory agree, what is about to be written landed, and what is pending or about to be written was not written yet |
| `ClosedForGood` | `ClosedIsFinal` | every write is guarded by the status |
| `TokensSold` | `NoAbandonedTokens` | `DrainInv`: the amount of a full exit covers the wallet until its sell lands (`CallDrains`), also while it waits in the pending record (`RecordDrains`), and the wallet never gains tokens (`DrainsForGood`) |
| `SellsAccounted` | `LandedSellAccounted`, if none of `"crash"`, `"throw"`, `"toggle"` is in `Faults` | `AccountInv`: while a sell is pending or sent no sell has closed the row (`UnsoldWhilePending`), who is past the gate has no record behind it (`NothingBehind`), so no close and no later sell overtakes one that landed, and a wallet is empty only if a sell closed the row, is pending or being worked on, or was lost (`EmptyExplained`), so a close on an empty wallet erases profits only after a lost sell |
| `SellSideImplementsLedger` | `ImplementsLedger`, if `"persist" \notin Faults` | step by step from `CreditInv` |
| `LimiterTypeCorrect`, `SlotsAreAccounted` | `TypeOK`, `SlotsAccounted` | `LimiterInv`: types, `QueuesExact` (a lane holds exactly its queued requests, each once) and the counters; none is inductive without the others, because a dispatch moves the head of a lane into a slot |
| `WakeupNeverLost` | `NoLostWakeup` | from `LimiterInv`: an expiry needs an item in its lane |
| `LimiterKeepsPromise` | `ImplementsLanes` | `Dispatch` starts a request: `QueuesExact` turns the empty SELL queue into "no sell is waiting", `SlotsAccounted` turns the counter into a number of running requests |
| `SellsNotHeldByBuys` | `SellNotHeldByBuys`, if the cap is positive and the sell wait longer than the poll and the spacing (30 s against 25 ms and 500 ms in the code) | `PatientInv`: until a sell has executed, a queued sell outlasts the sleep the loop is in and the spacing of either family (`SellsOutlast`), and every slot of the sell lane is free (`AttemptsInv`) |
| `WithdrawTypeCorrect`, `RowsAlwaysMatchChain` | `TypeOK`, `RowsMatchChain` | `WithdrawInv`: the stage of a call determines its row and transaction |
| `AddressPaidOnceReported` | `PaidAddressIsSpent` | `SpentInv`: an address that was paid and reported is older than the pending one |
| `ReserveKept` | `OnlyOverlapBreaksReserve` | `ReserveInv`: while nothing has landed that a call does not know of, the amount it computed is covered on top of the reserve (`CoverInv`) |
| `RowsApart`, `SlotsSuffice` | `RowsCollideOnlyByOverlap`, `SlotsExceededOnlyByOverlap` | `RowInv`: a snapshot holds every row that is open and whose call was over when it was taken (`SnapshotsHold`), and a call that makes a row saw neither its token nor its slot there (`MintsDiffer`, `SlotsDiffer`).  Of two rows whose calls did not overlap the later saw the earlier; if none overlap, the newest saw all others and there was room.  That `slotToUse` is new is the lemma `SlotForFresh` |
| `RowsStayClosed` | `ClosedStaysClosed` | from `RowInv`: a row exists only when its call is past the creation |
| `FillsAccounted` | `LandedIsWrittenOrAlerted` | `FillInv`: before the broadcast a call has no transaction or a failed one, and it is only over with one if it wrote or reported it |
| `TokensKept` | `TokensGoneOnlyByOverlap` | `GoneInv`: whoever lost the tokens of a fill has a row that is being sold or closed, or calls for its token overlapped (`GoneByOverlap`); a probe that is about to sell found no fill of the calls before it (`ProbedEmpty`), so what it sells is its own or came from a call beside it |
| `TrapsAvoided` | `TrapNeverBought` | `TrapInv`: a PASSED finding stands on a sell that went through, whether in the call, about to be saved or in the table |
| `BlockedKept` | `BlockedForgottenOnlyByOverlap` | `BlockInv`: a call that still decides on a BLOCKED token overlapped a probe that found it so, because every call reads the verdict first |
| `BuyTypeCorrect` | `TypeOK` of the buys | the invariants above, which say where a call stands and what it refers to, with `AmountTypes`: a swap lands only if the balance pays it, a partial sell leaves a half |
| `PrincipalIsExact` | `PrincipalExact`, if sizes can be halved without a rest (`SizesHalve`) | `PrincipalInv`: the amount of an open row is the sum of the shares of its fills, and every share can still be halved as often as the row can still be sold in part (`HalvesLeft`) |
| `CapitalIsKept` | `CapitalKept`, if there is a largest size, the reserve is not above its ceiling and the wallet starts with the reserve but for one buy (`CapitalFits`) | `CapitalInv`: what the audit makes of a row is worth what was paid for it, or more (`Covered`), so while no calls overlap the exposure a call has seen, then the room the guard found and then the rest after its swap cover the reserve and what is invested (`Funded`) |
| `MonitorTypeCorrect` | `TypeOK` of the monitor | `RowInv`, `CountersInv` and the three invariants below: an extension is a number because a defence starts within its budget, and a counter is incremented only below its limit |
| `EvaluationIsExclusive` | `OneEvaluation` | `ClaimInv`: who evaluates has the claim, and the claim is given back only by its owner |
| `HalvesAreOwed` | `HalvesOwed` | `HalfInv`: who sells a half holds a snapshot without one.  A half comes from a timer that is gone then or from a tick whose snapshot is gone then (`HalvesMove`), and once the row shows one no snapshot without it is taken (`Awareness`), so the finite set of those only shrinks (`HalvesCounted`) |
| `LossStaysBudgeted` | `LossBudget` | `BudgetInv`: every defence a row counts is worth one extension (`Granted`), and a snapshot counts no more defences than the row has by now, so an extension that starts from an old snapshot is paid for by the counter it increments in the row |
| `SlotsReturned` | `SlotsMatchMonitors` | `ScanInv`: `Slots` ties the flag, the counter and the one running monitor together |
| `ScanTypeCorrect` | `ScanTypeOK` | `WatchInv`: a monitor takes a slot only below MAX_CONCURRENT; `Slots` bounds the others by it |
| `TwiceOnlyTorn`, `FirstBuyRests` | `BuysTwiceOnlyAfterTornRebound`, `RestsAfterTrade` | `ScanInv`: a monitor that was never torn has bought nothing outside the chats (`Tidy`); one past the look at the trades that has bought nothing knows that the latest trade is over, or somebody bought meanwhile (`Patient`) |
| `RequestsKeepDistance` | `NeverCrowded`, if the backoff is at least the pause (1000 ms and 500 ms in the code) | `LaneInv`: `lastRequestTime` is the time of the last request, and who waits waits until the pause is over |
| `SafetyNeedsEvidence` | `SafeOnEvidence` | `SafetyInv`: the stage of a look says what has been found (`LookInv`), records only get worse (`RecordsInv`), so what was on record at the beginning still is (`RememberedInv`) |
| `CondemnationNeedsEvidence` | `CondemnedOnEvidence` | `CondemnInv`, and of each list of rules that a permanent verdict stands on one of its permanent rules (`DeadMarket`, `FatalReport`, `FatalHolders`, `NeverForGood`) |
| `GateTypeCorrect` | `GateTypeOK` | `PenaltyInv`: a count that was read is at most one ahead of the penalties that are over, so overlapping penalties lose increments and never invent one |
| `RiskTypeCorrect`, `BreakersBoundLosses` | `RiskTypeOK`, `LossesBounded` | `RiskInv`, see below |
| `DepositsTypeCorrect`, `VaultsHoldDeposits` | `DepositTypeOK`, `VaultsMatchChain` | `DepositInv`: a delivery carries nothing but whole payments (`CarriesWholes`) and the ledger of a vault is finite, so a credit adds one term to the sum |
| `PartsBehave`, `ServicesTypeCorrect` | `ServicesSpec` implies the specification of every part; `AllTypesOK` | a step of one part leaves the variables of the others alone |

The conditions on `Faults` of `SingleFlight` and `CreditedOnce` are needed: the
runs `sell_restart` and `sell_persist` refute the two statements without them.

**The breakers.**  `LossesBounded` is not inductive: it speaks of what the rows
have lost, and the damage is done when a buy is let through.  `RiskInv` counts
ahead.  `Most` is what the rows since a moment have lost once every position that
is open has closed with the worst loss, and every row that is not booked yet
counts with that loss too, whatever its outcome; `MostRun` is the same for the
run of losses of a route.  Selling and booking only replace a worst case by a
real one.  `Room` says that what is open and the attempts that may still open
something never exceed `MostPositions`, and neither do what is open, the attempts
that have read a metric and the rows that are not booked.  `Bounded` says that each
limit is kept by `Most` with one loss more for every attempt that has read the
metric and did not trip: that is the loss the buy it lets through may make.  When
an attempt reads a metric below its limit, what has been lost is below the limit
too, and everything open, about to open or unbooked is within `Room`.
A booking moves its row to the end of the order, so the lemmas about it
compare the sums before and after the move.

**Conditions.**  `SizesHalve` is about the unit of an amount: a partial sell
takes half, the models count in whole units, and a lot of 3 would lose one to
the rounding that SOL amounts with nine digits do not have.  Multiples of a
power of two have it (lemma `WholeLotsHalve`), as the sizes 2 and 4 of `buys`
with one partial sell.  `CapitalFits` holds of `buys` too.  Its last part is
needed, since a wallet that starts below the reserve breaks `CapitalKept` before
anything is bought.

**Assumptions on the constants** that the proofs added to the modules:
`RoutesAssumption` and `BuyersAssumption` (finitely many strategies and calls of
`attemptBuy`), `TicksAssumption` (finitely many ticks), `PenaltiesAssumption`
(finitely many tokens of one creator) and `TrailingAssumption` (distances are positive,
which `runtime-config.ts` and the multiplier of at least 1 ensure, and floors are
numbers).

Only model-checked: `PendingResolved`, `EverySettles` and `EveryCallSettles`,
because liveness is out of the prover's reach; and, of course, the findings,
which are counterexamples.

## 15. What is not modelled

* RPC retry and failover (`common/rpc-retry.ts`, the connection pool): pure
  functions over error strings and numbers around one awaited call.  The models
  use what they come to, an answer, a failure or an ambiguity.
* Scores: noise, narrative, signal score, flow volume, meta labels and trends.
  They are floating-point arithmetic over market data or the answer of a model,
  and their results only order tokens or put them off; in `SafetyGate` and
  `PriceMonitor` they are choices.
* AI advisers: prompts and parsing; their verdicts are inputs.
* Reporting, the Telegram workspace and its commands: formatting and I/O, except
  for the withdraw dialogue.
* Configuration and Prisma: parsing of defaults and the ORM; switches are
  constants of the models.  `Services.cfg` has the health checks before an early
  stop and an early trailing exit switched on; the theorems hold either way.
* In the partly modelled components: the pending file of several trades, the
  retry counters of `queueSellRetry`, manual sells of untracked tokens, the
  averaged prices of a scale-in, alerts of the breakers, the reconnect of the
  scanner's stream and the order of the radar's batch, paper positions.

## 16. Running

`tlc -config SellCrash.cfg MCSellLifecycle.tla`, likewise for the other `.cfg`
files (`runs` in `PROJECT.json` names the module of each), and `tlapm` on each of
`SellLifecycleProofs.tla`, `LimiterProofs.tla`, `WithdrawalProofs.tla`,
`BuyExecutionProofs.tla`, `PriceMonitorProofs.tla`, `GateProofs.tla`,
`ServicesProofs.tla` and `SumLemmas.tla`.  The
longest runs are `buys` and `services`, about two minutes each on two workers.
