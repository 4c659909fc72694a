---------------------------- MODULE SellLifecycle ----------------------------
(***************************************************************************)
(* The life of one position from the first exit signal to the closed trade *)
(* row: TradeService.executeSell and recordExecutedSell, the signature     *)
(* reconciliation they rely on, the sell side of executeJupiterSwap and    *)
(* the record PendingSellStore keeps for the trade in memory and on disk.  *)
(*                                                                         *)
(* Several calls of executeSell run interleaved (monitor ticks, retry      *)
(* timers, a manual sell); a step of the model is the code between two     *)
(* awaits.  The chain, the clock, the process crash and the operator are   *)
(* the environment; Faults names what it is allowed to do.                 *)
(*                                                                         *)
(* Time is kept as ages that stop growing once they no longer matter: a    *)
(* transaction cannot land when it is older than Lifetime, a pending       *)
(* record has left its validity window when it is older than TTL.          *)
(***************************************************************************)
EXTENDS Naturals

CONSTANTS
    Sellers,      \* concurrent calls of executeSell for this trade
    TxIds,        \* signatures of the sells that can be broadcast (a bound)
    NoTx,         \* no signature
    InitialBag,   \* token units in the wallet when the position is open
    Lifetime,     \* age after which a blockhash has expired
    TTL,          \* SELL_UNCONFIRMED_TTL_MS
    MaxRetries,   \* attempts of executeJupiterSwap in one call
    Faults        \* what may go wrong in this configuration

AllFaults ==
    { "crash",      \* the process dies and is started again
      "persist",    \* a write of the pending-sell file fails
      "rpc",        \* a status or balance query fails
      "unparsed",   \* a landed fill cannot be parsed
      "throw",      \* an awaited call of the handler throws
      "toggle",     \* the chat switches dry run on or off
      "operator" }  \* somebody closes the row by hand

ASSUME NoTxAssumption == NoTx \notin TxIds
ASSUME BagAssumption == InitialBag \in Nat
ASSUME WindowAssumption == Lifetime \in Nat /\ TTL \in Nat /\ Lifetime <= TTL
ASSUME RetryAssumption == MaxRetries \in Nat
ASSUME FaultsAssumption == Faults \subseteq AllFaults

(***************************************************************************)
(* The exits the model distinguishes: a partial take profit of one half,   *)
(* an urgent full exit and a manual full exit (forceLive).                 *)
(***************************************************************************)
Exits == {"takeHalf", "stopLoss", "manual"}
IsFull(e) == e # "takeHalf"
ForcesLive(e) == e = "manual"

\* Math.floor(balance * percentage), in indivisible token units.
SellAmount(e, balance) == IF IsFull(e) THEN balance ELSE balance \div 2

VARIABLES
    row,          \* the trade row: status, and how it was closed
    credit,       \* how often the fill of each transaction was written to it
    booked,       \* transactions whose profit increment is in profitUsd
    erased,       \* those whose profit a zero-balance close overwrote
    chain,        \* the sell transactions as the network sees them
    bag,          \* tokens of the position in the wallet
    selling,      \* the trade id is in sellingTrades
    mem,          \* pendingSellSignatures entry of the trade, in memory
    disk,         \* the same entry in the JSON file
    dryRun,       \* the chat's dryRun setting
    raced,        \* sells reported by a *_sell_race_closed alert
    unrecovered,  \* sells reported by a sell_landed_unrecovered alert
    givenUp,      \* sells logged as never executed, before selling again
    pc,           \* where each call of executeSell is
    call          \* the locals of each call

world == <<chain, bag>>
store == <<mem, disk>>
ledgerRow == <<row, credit, booked, erased>>
alerts == <<raced, unrecovered, givenUp>>
control == <<selling, pc, call>>
vars == <<row, credit, booked, erased, chain, bag, selling, mem, disk,
          dryRun, raced, unrecovered, givenUp, pc, call>>

NoRecord == [tx |-> NoTx, exit |-> "none", age |-> 0]
NoCall == [exit |-> "none", dry |-> FALSE, sig |-> NoTx, amount |-> 0, retry |-> 0]
Unsent == [st |-> "unsent", amount |-> 0, age |-> 0]

Init ==
    /\ row = [status |-> "OPEN", exit |-> "none"]
    /\ credit = [t \in TxIds |-> 0]
    /\ booked = {}
    /\ erased = {}
    /\ chain = [t \in TxIds |-> Unsent]
    /\ bag = InitialBag
    /\ selling = FALSE
    /\ mem = NoRecord
    /\ disk = NoRecord
    /\ dryRun = FALSE
    /\ raced = {}
    /\ unrecovered = {}
    /\ givenUp = {}
    /\ pc = [s \in Sellers |-> "idle"]
    /\ call = [s \in Sellers |-> NoCall]

------------------------------------------------------------------------------
(* PendingSellStore: memory first, then the file; a failed write is logged. *)

Persist(record) ==
    \/ disk' = record
    \/ "persist" \in Faults /\ UNCHANGED disk

Save(record) == mem' = record /\ Persist(record)

Forget == Save(NoRecord)

\* What load() keeps of the file.
Kept(record) == IF record.age > TTL THEN NoRecord ELSE record

(* The ways a call of executeSell moves on, and how it ends (the finally). *)

Goto(s, label) ==
    /\ pc' = [pc EXCEPT ![s] = label]
    /\ UNCHANGED selling

Release(s) ==
    /\ selling' = FALSE
    /\ pc' = [pc EXCEPT ![s] = "idle"]
    /\ call' = [call EXCEPT ![s] = NoCall]

------------------------------------------------------------------------------
(* executeSell up to the reconciliation gate. *)

\* The row is read, and found OPEN, before the lock is looked at.
Begin(s, e) ==
    /\ pc[s] = "idle"
    /\ row.status = "OPEN"
    /\ call' = [call EXCEPT ![s].exit = e]
    /\ Goto(s, "snapshot")
    /\ UNCHANGED <<ledgerRow, world, store, dryRun, alerts>>

\* has() and add() run without an await between them; the setting that
\* decides between a simulated and a real sell is read once, under the lock.
Lock(s) ==
    /\ pc[s] = "snapshot"
    /\ ~selling
    /\ LET dry == ~ForcesLive(call[s].exit) /\ dryRun
       IN /\ call' = [call EXCEPT ![s].dry = dry]
          /\ pc' = [pc EXCEPT ![s] = IF dry THEN "balance" ELSE "gate"]
    /\ selling' = TRUE
    /\ UNCHANGED <<ledgerRow, world, store, dryRun, alerts>>

\* The lock is taken: this call returns, and releases nothing.
SkipLocked(s) ==
    /\ pc[s] = "snapshot"
    /\ selling
    /\ pc' = [pc EXCEPT ![s] = "idle"]
    /\ call' = [call EXCEPT ![s] = NoCall]
    /\ UNCHANGED <<ledgerRow, world, selling, store, dryRun, alerts>>

------------------------------------------------------------------------------
(* resolveSignatureFate *)

\* What getSignatureStatus can answer about a transaction.
StatusViews(t) ==
    (CASE chain[t].st = "ok"     -> {"confirmed", "processed"}
       [] chain[t].st = "failed" -> {"err"}
       [] OTHER                  -> {"absent"})
    \union (IF "rpc" \in Faults THEN {"error"} ELSE {})

WindowElapsed(record) == record.age > TTL

\* Mutant of Fate: a transaction that is not found is given up at once.
FateWithoutWindow(view, elapsed) ==
    CASE view = "err"                  -> "LANDED_FAILED"
      [] view = "confirmed"            -> "LANDED_OK"
      [] view = "processed" /\ elapsed -> "LANDED_OK"
      [] view = "absent"               -> "NOT_FOUND"
      [] view = "error" /\ elapsed     -> "NOT_FOUND"
      [] OTHER                         -> "UNKNOWN"

\* Mutant of Fate: an RPC error defers the sell for ever.
FateDeferringOnError(view, elapsed) ==
    CASE view = "err"                  -> "LANDED_FAILED"
      [] view = "confirmed"            -> "LANDED_OK"
      [] view = "processed" /\ elapsed -> "LANDED_OK"
      [] view = "absent" /\ elapsed    -> "NOT_FOUND"
      [] OTHER                         -> "UNKNOWN"

\* Mutant of Fate: past the window a missing transaction is taken for landed.
FateOptimistic(view, elapsed) ==
    CASE view = "err"                  -> "LANDED_FAILED"
      [] view = "confirmed" \/ elapsed -> "LANDED_OK"
      [] OTHER                         -> "UNKNOWN"

Fate(view, elapsed) ==
    CASE view = "err"                  -> "LANDED_FAILED"
      [] view = "confirmed"            -> "LANDED_OK"
      [] view = "processed" /\ elapsed -> "LANDED_OK"
      [] view \in {"absent", "error"} /\ elapsed -> "NOT_FOUND"
      [] OTHER                         -> "UNKNOWN"

NothingPending(s) ==
    /\ pc[s] = "gate"
    /\ mem.tx = NoTx
    /\ Goto(s, "balance")
    /\ UNCHANGED <<ledgerRow, world, call, store, dryRun, alerts>>

\* The prior sell is still ambiguous: skip this attempt.
StillUnknown(s) ==
    /\ pc[s] = "gate"
    /\ mem.tx # NoTx
    /\ \E view \in StatusViews(mem.tx) : Fate(view, WindowElapsed(mem)) = "UNKNOWN"
    /\ Release(s)
    /\ UNCHANGED <<ledgerRow, world, store, dryRun, alerts>>

\* Mutant of FoundLanded: the record is kept while the fill is recovered.
FoundLandedKeepingRecord(s) ==
    /\ pc[s] = "gate"
    /\ mem.tx # NoTx
    /\ \E view \in StatusViews(mem.tx) : Fate(view, WindowElapsed(mem)) = "LANDED_OK"
    /\ call' = [call EXCEPT ![s].sig = mem.tx, ![s].exit = mem.exit]
    /\ Goto(s, "recover")
    /\ UNCHANGED <<ledgerRow, world, store, dryRun, alerts>>

\* Mutant of FoundLanded: the fill is finalised with the current exit.
FoundLandedForgettingExit(s) ==
    /\ pc[s] = "gate"
    /\ mem.tx # NoTx
    /\ \E view \in StatusViews(mem.tx) : Fate(view, WindowElapsed(mem)) = "LANDED_OK"
    /\ call' = [call EXCEPT ![s].sig = mem.tx]
    /\ Forget
    /\ Goto(s, "recover")
    /\ UNCHANGED <<ledgerRow, world, dryRun, alerts>>

\* The prior sell executed.  The record is dropped first; the call goes on to
\* recover the fill with the size and reason the record carries.
FoundLanded(s) ==
    /\ pc[s] = "gate"
    /\ mem.tx # NoTx
    /\ \E view \in StatusViews(mem.tx) : Fate(view, WindowElapsed(mem)) = "LANDED_OK"
    /\ call' = [call EXCEPT ![s].sig = mem.tx, ![s].exit = mem.exit]
    /\ Forget
    /\ Goto(s, "recover")
    /\ UNCHANGED <<ledgerRow, world, dryRun, alerts>>

\* The prior sell will never execute: sell again, from a fresh balance.
FoundDead(s) ==
    /\ pc[s] = "gate"
    /\ mem.tx # NoTx
    /\ \E view \in StatusViews(mem.tx) :
          Fate(view, WindowElapsed(mem)) \in {"LANDED_FAILED", "NOT_FOUND"}
    /\ givenUp' = givenUp \union {mem.tx}
    /\ Forget
    /\ Goto(s, "balance")
    /\ UNCHANGED <<ledgerRow, world, call, dryRun, raced, unrecovered>>

RecoverFill(s) ==
    /\ pc[s] = "recover"
    /\ Goto(s, "record")
    /\ UNCHANGED <<ledgerRow, world, call, store, dryRun, alerts>>

\* getActualSwapDetails came back empty: alert the operator, leave the row.
RecoverNothing(s) ==
    /\ pc[s] = "recover"
    /\ "unparsed" \in Faults
    /\ unrecovered' = unrecovered \union {call[s].sig}
    /\ Release(s)
    /\ UNCHANGED <<ledgerRow, world, store, dryRun, raced, givenUp>>

------------------------------------------------------------------------------
(* The balance-checked sell. *)

\* A dry run sells the balance the row implies, which is never zero.
ReadBalance(s) ==
    /\ pc[s] = "balance"
    /\ call[s].dry \/ SellAmount(call[s].exit, bag) > 0
    /\ call' = IF call[s].dry THEN call
               ELSE [call EXCEPT ![s].amount = SellAmount(call[s].exit, bag)]
    /\ Goto(s, "swap")
    /\ UNCHANGED <<ledgerRow, world, store, dryRun, alerts>>

\* Nothing to sell: a full exit closes the row, if it is still OPEN, with
\* exit price and profit zero.  The zero is written, not added: the profit of
\* the partial sells booked before is gone.
CloseOnZero(s) ==
    /\ pc[s] = "balance"
    /\ ~call[s].dry
    /\ SellAmount(call[s].exit, bag) = 0
    /\ IF IsFull(call[s].exit) /\ row.status = "OPEN"
       THEN /\ row' = [status |-> "CLOSED", exit |-> "zero"]
            /\ booked' = {}
            /\ erased' = erased \union booked
            /\ UNCHANGED credit
       ELSE UNCHANGED ledgerRow
    /\ Release(s)
    /\ UNCHANGED <<world, store, dryRun, alerts>>

\* A null balance or missing decimals end the call; nothing is counted.
NoBalance(s) ==
    /\ pc[s] = "balance"
    /\ "rpc" \in Faults
    /\ Release(s)
    /\ UNCHANGED <<ledgerRow, world, store, dryRun, alerts>>
------------------------------------------------------------------------------
(* executeJupiterSwap, sell side *)

\* A dry run stops at the quote and reports success.
Simulate(s) ==
    /\ pc[s] = "swap"
    /\ call[s].dry
    /\ Goto(s, "record")
    /\ UNCHANGED <<ledgerRow, world, call, store, dryRun, alerts>>

\* The transaction is signed and sent.  An ambiguous send error counts as a
\* broadcast although the network may never see the transaction.
Broadcast(s, t, reached) ==
    /\ pc[s] = "swap"
    /\ ~call[s].dry
    /\ chain[t].st = "unsent"
    /\ chain' = [chain EXCEPT ![t] =
          [st |-> IF reached THEN "flying" ELSE "dropped",
           amount |-> call[s].amount, age |-> 0]]
    /\ call' = [call EXCEPT ![s].sig = t]
    /\ Goto(s, "confirm")
    /\ UNCHANGED <<ledgerRow, bag, store, dryRun, alerts>>

\* Every attempt failed before a broadcast, or the quote was anomalous.
SwapNotSent(s) ==
    /\ pc[s] = "swap"
    /\ Release(s)
    /\ UNCHANGED <<ledgerRow, world, store, dryRun, alerts>>

Confirmed(s) ==
    /\ pc[s] = "confirm"
    /\ chain[call[s].sig].st = "ok"
    /\ Goto(s, "record")
    /\ UNCHANGED <<ledgerRow, world, call, store, dryRun, alerts>>

\* Slippage, reported on chain: a new transaction in the same call, for the
\* amount computed at the start.
ResendAfterSlippage(s) ==
    /\ pc[s] = "confirm"
    /\ chain[call[s].sig].st = "failed"
    /\ call[s].retry + 1 < MaxRetries
    /\ call' = [call EXCEPT ![s].retry = @ + 1, ![s].sig = NoTx]
    /\ Goto(s, "swap")
    /\ UNCHANGED <<ledgerRow, world, store, dryRun, alerts>>

\* Any other failure on chain, or no attempt left.
FailedOnChain(s) ==
    /\ pc[s] = "confirm"
    /\ chain[call[s].sig].st = "failed"
    /\ Release(s)
    /\ UNCHANGED <<ledgerRow, world, store, dryRun, alerts>>

\* Mutant of Unconfirmed: the signature is discarded.
UnconfirmedDiscarding(s) ==
    /\ pc[s] = "confirm"
    /\ Release(s)
    /\ UNCHANGED <<ledgerRow, world, store, dryRun, alerts>>

\* The wait for the confirmation threw.  Only now is the signature recorded.
Unconfirmed(s) ==
    /\ pc[s] = "confirm"
    /\ Save([tx |-> call[s].sig, exit |-> call[s].exit, age |-> 0])
    /\ Release(s)
    /\ UNCHANGED <<ledgerRow, world, dryRun, alerts>>

------------------------------------------------------------------------------
(* recordExecutedSell *)

\* Mutant of CloseKind: the reason of the exit instead of its kind.
CloseKindAsReason(s) == call[s].exit

CloseKind(s) == IF call[s].dry THEN "simulated" ELSE "fill"

\* Mutant of WriteRow: an update that does not look at the status.
WriteRowUnguarded(s) ==
    /\ pc[s] = "record"
    /\ row' = IF IsFull(call[s].exit)
              THEN [status |-> "CLOSED", exit |-> CloseKind(s)] ELSE row
    /\ credit' = IF call[s].dry THEN credit
                 ELSE [credit EXCEPT ![call[s].sig] = @ + 1]
    /\ Goto(s, "book")
    /\ UNCHANGED <<booked, erased, world, call, store, dryRun, alerts>>

\* updateMany where status is OPEN: a full exit closes, a partial multiplies.
WriteRow(s) ==
    /\ pc[s] = "record"
    /\ row.status = "OPEN"
    /\ row' = IF IsFull(call[s].exit)
              THEN [status |-> "CLOSED", exit |-> CloseKind(s)] ELSE row
    /\ credit' = IF call[s].dry THEN credit
                 ELSE [credit EXCEPT ![call[s].sig] = @ + 1]
    /\ Goto(s, "book")
    /\ UNCHANGED <<booked, erased, world, call, store, dryRun, alerts>>

\* count = 0: nothing is written, the operator is told about the transaction.
RaceClosed(s) ==
    /\ pc[s] = "record"
    /\ row.status # "OPEN"
    /\ raced' = IF call[s].dry THEN raced ELSE raced \union {call[s].sig}
    /\ Release(s)
    /\ UNCHANGED <<ledgerRow, world, store, dryRun, unrecovered, givenUp>>

\* incrementTradeProfit and incrementTradeFees are statements of their own.
BookProfit(s) ==
    /\ pc[s] = "book"
    /\ booked' = IF call[s].dry THEN booked ELSE booked \union {call[s].sig}
    /\ Release(s)
    /\ UNCHANGED <<row, credit, erased, world, store, dryRun, alerts>>

\* An awaited call throws: the catch reports and the finally unlocks.  The
\* swap itself never throws.
Throw(s) ==
    /\ "throw" \in Faults
    /\ pc[s] \in {"gate", "recover", "balance", "record", "book"}
    /\ Release(s)
    /\ UNCHANGED <<ledgerRow, world, store, dryRun, alerts>>

------------------------------------------------------------------------------
(* The environment *)

Land(t) ==
    /\ chain[t].st = "flying"
    /\ chain[t].amount <= bag
    /\ chain' = [chain EXCEPT ![t].st = "ok"]
    /\ bag' = bag - chain[t].amount
    /\ UNCHANGED <<ledgerRow, control, store, dryRun, alerts>>

FailOnChain(t) ==
    /\ chain[t].st = "flying"
    /\ chain' = [chain EXCEPT ![t].st = "failed"]
    /\ UNCHANGED <<ledgerRow, bag, control, store, dryRun, alerts>>

Aged(record) ==
    IF record.tx # NoTx /\ record.age <= TTL
    THEN [record EXCEPT !.age = @ + 1] ELSE record

\* One unit of time: transactions in flight and pending records get older.
Tick ==
    /\ \/ \E t \in TxIds : chain[t].st = "flying"
       \/ Aged(mem) # mem
       \/ Aged(disk) # disk
    /\ chain' = [t \in TxIds |->
          IF chain[t].st # "flying" THEN chain[t]
          ELSE IF chain[t].age < Lifetime THEN [chain[t] EXCEPT !.age = @ + 1]
          ELSE [chain[t] EXCEPT !.st = "dropped"]]
    /\ mem' = Aged(mem)
    /\ disk' = Aged(disk)
    /\ UNCHANGED <<ledgerRow, bag, control, dryRun, alerts>>

\* The process dies and comes back: calls, lock and memory are gone, the
\* record is read from the file, and a pruned file is rewritten.
Crash ==
    /\ "crash" \in Faults
    /\ selling' = FALSE
    /\ pc' = [s \in Sellers |-> "idle"]
    /\ call' = [s \in Sellers |-> NoCall]
    /\ mem' = Kept(disk)
    /\ Persist(Kept(disk))
    /\ UNCHANGED <<ledgerRow, world, dryRun, alerts>>

ToggleDryRun ==
    /\ "toggle" \in Faults
    /\ dryRun' = ~dryRun
    /\ UNCHANGED <<ledgerRow, world, control, store, alerts>>

OperatorCloses ==
    /\ "operator" \in Faults
    /\ row.status = "OPEN"
    /\ row' = [status |-> "CLOSED", exit |-> "manual"]
    /\ UNCHANGED <<credit, booked, erased, world, control, store, dryRun, alerts>>

------------------------------------------------------------------------------
\* One step of a call that has begun.
Step(s) ==
    \/ Lock(s) \/ SkipLocked(s)
    \/ NothingPending(s) \/ StillUnknown(s) \/ FoundLanded(s) \/ FoundDead(s)
    \/ RecoverFill(s) \/ RecoverNothing(s)
    \/ ReadBalance(s) \/ CloseOnZero(s) \/ NoBalance(s)
    \/ Simulate(s) \/ SwapNotSent(s)
    \/ \E t \in TxIds, reached \in BOOLEAN : Broadcast(s, t, reached)
    \/ Confirmed(s) \/ ResendAfterSlippage(s) \/ FailedOnChain(s) \/ Unconfirmed(s)
    \/ WriteRow(s) \/ RaceClosed(s) \/ BookProfit(s)
    \/ Throw(s)

Environment ==
    \/ \E t \in TxIds : Land(t) \/ FailOnChain(t)
    \/ Tick \/ Crash \/ ToggleDryRun \/ OperatorCloses

Next ==
    \/ \E s \in Sellers : Step(s) \/ \E e \in Exits : Begin(s, e)
    \/ Environment

Spec == Init /\ [][Next]_vars

\* A call that has begun is driven on by the event loop; a position that is
\* OPEN gets an exit signal again and again (the monitor evaluates it every
\* second); time passes.
FairSpec ==
    /\ Spec
    /\ \A s \in Sellers : WF_vars(Step(s)) /\ WF_vars(\E e \in Exits : Begin(s, e))
    /\ WF_vars(Tick)

------------------------------------------------------------------------------
(* Properties *)

Transaction == [st : {"unsent", "flying", "ok", "failed", "dropped"},
                amount : Nat, age : 0..Lifetime]
Record == [tx : TxIds \union {NoTx}, exit : Exits \union {"none"}, age : 0..(TTL + 1)]
Labels == {"idle", "snapshot", "gate", "recover", "balance", "swap", "confirm",
           "record", "book"}
Call == [exit : Exits \union {"none"}, dry : BOOLEAN, sig : TxIds \union {NoTx},
         amount : Nat, retry : Nat]

\* Every variable keeps its type.
TypeOK ==
    /\ row \in [status : {"OPEN", "CLOSED"},
                exit : {"none", "fill", "zero", "simulated", "manual"}]
    /\ credit \in [TxIds -> Nat]
    /\ booked \subseteq TxIds
    /\ erased \subseteq TxIds
    /\ chain \in [TxIds -> Transaction]
    /\ bag \in Nat
    /\ selling \in BOOLEAN
    /\ mem \in Record
    /\ disk \in Record
    /\ dryRun \in BOOLEAN
    /\ raced \subseteq TxIds
    /\ unrecovered \subseteq TxIds
    /\ givenUp \subseteq TxIds
    /\ pc \in [Sellers -> Labels]
    /\ call \in [Sellers -> Call]

\* At no time can two sells of the position still execute: the gate that
\* executeSell puts before a new sell keeps the wallet from selling twice what
\* one exit signal asked for.
AtMostOneInFlight ==
    \A t, u \in TxIds :
        chain[t].st = "flying" /\ chain[u].st = "flying" => t = u

\* The fill of a transaction is written to the row at most once, however often
\* the process restarts and whichever path (confirmation or reconciliation)
\* finds that it landed.
CreditedAtMostOnce == \A t \in TxIds : credit[t] <= 1

Held(t) == \E s \in Sellers :
    /\ call[s].sig = t
    /\ pc[s] \in {"confirm", "recover", "record", "book"}

\* The sells that landed although the gate gave them up, or without a fill
\* that could be read.
LostSells == {t \in unrecovered \union givenUp : chain[t].st = "ok"}

\* A sell that executed on chain is not forgotten: its profit is in the row, or
\* it is still to be reconciled (the gate is only reached while no sell has
\* closed the row), or a call is working on it, or the operator was told, or
\* the gate ruled after the whole window that it never executed.  A
\* zero-balance close wipes the profit of the partial sells booked before it;
\* it does so only over a wallet that a lost sell has emptied, never because a
\* sell that is pending, or that a call still works on, emptied it.
LandedSellAccounted ==
    \A t \in TxIds : chain[t].st = "ok" =>
        \/ t \in booked
        \/ t \in erased /\ LostSells # {}
        \/ mem.tx = t /\ row.exit \in {"none", "manual"}
        \/ Held(t)
        \/ t \in raced \union unrecovered \union givenUp

\* A row that a sell closed leaves no tokens of the position in the wallet: no
\* partial exit is ever finalised as a full one.
NoAbandonedTokens ==
    row.status = "CLOSED" /\ row.exit \in {"fill", "zero"} => bag = 0

\* Once the row is CLOSED no later sell, retry or reconciliation changes how it
\* was closed or writes another fill to it.
ClosedIsFinal == [][row.status = "CLOSED" => UNCHANGED <<row, credit>>]_vars

\* Every recorded ambiguity is eventually resolved, even if the status query
\* fails each time: the window bounds how long sells can be held back.
PendingResolved == (mem.tx # NoTx /\ row.status = "OPEN") ~> (mem.tx = NoTx)

\* "Trade left OPEN": after a landed sell could not be recovered, the row
\* waits for the operator.
UnrecoveredStaysOpen == unrecovered # {} => row.exit \notin {"zero", "fill"}

Ledger == INSTANCE PositionLedger WITH
    landed <- {t \in TxIds : chain[t].st = "ok"},
    credit <- credit,
    open <- row.status = "OPEN"

\* The sell side implements the ledger it promises.
ImplementsLedger == Ledger!LedgerSpec
==============================================================================
