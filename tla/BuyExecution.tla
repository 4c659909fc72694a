---------------------------- MODULE BuyExecution ----------------------------
(***************************************************************************)
(* attemptBuy of trade.service.ts for one chat: every call takes a         *)
(* snapshot of the open trades, decides on it, spends seconds in guards,   *)
(* the honeypot probe and the swap, and then writes a trade row.  Calls of *)
(* the scanner, the analyzer, the HTTP endpoint and the chat overlap, and  *)
(* nothing is locked.  Sells of the same rows run beside them; SellLifecycle *)
(* has their details.                                                      *)
(*                                                                         *)
(* A trade row is named by the call that creates it.  SOL and USD are one  *)
(* unit at a constant price, and network fees are below that unit.         *)
(***************************************************************************)
EXTENDS HoneypotProbe, Sequences, FiniteSets, Functions

CONSTANTS
    TotalSlots,     \* chat setting totalSlots
    Sizes,          \* what a buy can be worth after sizing
    DefaultSize,    \* positionSizeUsd, used for a row without a value
    ProbeMin,       \* HONEYPOT_PROBE_MIN_POSITION_USD
    Start,          \* SOL in the wallet at the beginning
    ReserveShare,   \* 1 / DYNAMIC_RESERVE_RATIO
    MinReserve,     \* the larger of MIN_RESERVE_USD and the reserve setting
    MaxReserve,     \* MAX_RESERVE_USD
    Cushion,        \* TRADE_FEE_CUSHION_SOL
    Proceeds,       \* what a sell can bring in
    MaxParts        \* bound on the partial sells of a row

ASSUME CallsAssumption == IsFiniteSet(Calls) /\ Mints # {}
ASSUME SlotsAssumption == TotalSlots \in Nat \ {0}
ASSUME AmountsAssumption ==
    /\ Sizes \subseteq Nat \ {0} /\ Proceeds \subseteq Nat
    /\ DefaultSize \in Nat /\ ProbeMin \in Nat /\ Start \in Nat
    /\ ReserveShare \in Nat \ {0} /\ MinReserve \in Nat /\ MaxReserve \in Nat
    /\ Cushion \in Nat /\ MaxParts \in Nat

VARIABLES
    auto,           \* whether the call is automatic (no customAmountUSD)
    before,         \* history: calls that were over when the call began
    seen,           \* openTrades of the call: the rows
    exposure,       \* openTrades of the call: what they are worth together
    target,         \* the row the call will write: one it found, or its own
    size,           \* what it spends
    tx,             \* what became of its last transaction
    alerted,        \* calls that raised an alert for manual reconciliation
    written,        \* calls whose fill reached a row
    share,          \* history: what is left of the fill of a call in its row
    status,         \* Trade.status, "none" while the row does not exist
    slot,           \* Trade.slotNumber
    amount,         \* Trade.amountInSol
    value,          \* Trade.entryValueUsd, 0 for NULL
    created,        \* rows in the order of createdAt
    sale,           \* a sell of the row that landed and is not recorded yet
    parts,          \* partial sells of the row so far
    balance         \* SOL in the wallet

locals == <<auto, before, seen, exposure, target, size, tx, alerted, written, share>>
rows == <<status, slot, amount, value, created>>
sales == <<sale, parts>>
probeState == <<trap, verdict, result>>
vars == <<pc, mint, wallet, probeState, locals, rows, sales, balance>>

Stages == ProbeStages \union {"idle", "looked", "admitted", "swapping",
            "confirming", "reconciling", "filled", "auditing", "done", "lost"}

Over(c) == pc[c] \in {"done", "lost"}
Active(c) == pc[c] # "idle" /\ ~ Over(c)
OpenRows == {r \in Calls : status[r] = "OPEN"}
Fill(c) == <<c, "buy">>

Init ==
    /\ ProbeInit
    /\ pc = [c \in Calls |-> "idle"]
    /\ mint = [c \in Calls |-> CHOOSE m \in Mints : TRUE]
    /\ auto = [c \in Calls |-> FALSE]
    /\ before = [c \in Calls |-> {}]
    /\ seen = [c \in Calls |-> {}]
    /\ exposure = [c \in Calls |-> 0]
    /\ target = [c \in Calls |-> c]
    /\ size = [c \in Calls |-> 0]
    /\ tx = [c \in Calls |-> "none"]
    /\ alerted = {} /\ written = {}
    /\ share = [c \in Calls |-> 0]
    /\ status = [r \in Calls |-> "none"]
    /\ slot = [r \in Calls |-> 1]
    /\ amount = [r \in Calls |-> 0]
    /\ value = [r \in Calls |-> 0]
    /\ created = <<>>
    /\ sale = [r \in Calls |-> "none"]
    /\ parts = [r \in Calls |-> 0]
    /\ balance = Start

------------------------------------------------------------------------------
(* The decision: before the first await of the swap *)

\* openExposureUsd takes a row without a value for one of the default size.
WorthOf(r) == IF value[r] > 0 THEN value[r] ELSE DefaultSize

\* The open trades are read once; the first of them with the token, if any, is
\* the row a fill will be merged into.
Begin(c) ==
    /\ pc[c] = "idle"
    /\ Goto(c, "looked")
    /\ \E m \in Mints, a \in BOOLEAN :
          /\ mint' = [mint EXCEPT ![c] = m]
          /\ auto' = [auto EXCEPT ![c] = a]
          /\ LET same == {r \in OpenRows : mint[r] = m} IN
                \E r \in (IF same = {} THEN {c} ELSE same) :
                   target' = [target EXCEPT ![c] = r]
    /\ seen' = [seen EXCEPT ![c] = OpenRows]
    /\ exposure' = [exposure EXCEPT ![c] = SumFunctionOnSet([r \in Calls |-> WorthOf(r)], OpenRows)]
    /\ before' = [before EXCEPT ![c] = {d \in Calls : Over(d)}]
    /\ UNCHANGED <<wallet, probeState, size, tx, alerted, written, share,
                   rows, sales, balance>>

\* recentTrade: the newest row of the token is OPEN.
RecentIsOpen(m) ==
    LET mine == SelectSeq(created, LAMBDA r : mint[r] = m)
    IN  mine # <<>> /\ status[mine[Len(mine)]] = "OPEN"

IsNew(c) == target[c] = c

\* Mutant of SlotsFull: one too many.
SlotsFullLate(c) == IsNew(c) /\ Cardinality(seen[c]) > TotalSlots

\* Mutant of SlotsFull: only automatic buys look at the limit.
SlotsFullForScanner(c) ==
    IsNew(c) /\ auto[c] /\ Cardinality(seen[c]) >= TotalSlots

SlotsFull(c) == IsNew(c) /\ Cardinality(seen[c]) >= TotalSlots

\* Mutant of SlotFor: the slots are counted from zero.
SlotFromZero(c) ==
    LET free == (0..TotalSlots) \ {slot[r] : r \in seen[c]}
    IN  IF free = {} THEN 1 ELSE CHOOSE i \in free : \A j \in free : i <= j

\* slotToUse: the smallest number no row of the snapshot has, 1 if there is none.
SlotFor(c) ==
    LET free == (1..TotalSlots) \ {slot[r] : r \in seen[c]}
    IN  IF free = {} THEN 1 ELSE CHOOSE i \in free : \A j \in free : i <= j

Admit(c) ==
    /\ pc[c] = "looked"
    /\ auto[c] /\ IsNew(c) => ~ RecentIsOpen(mint[c])
    /\ ~ SlotsFull(c)
    /\ Goto(c, "admitted")
    /\ slot' = IF IsNew(c) THEN [slot EXCEPT ![c] = SlotFor(c)] ELSE slot
    /\ UNCHANGED <<mint, wallet, probeState, locals, status, amount, value,
                   created, sales, balance>>

\* calculateDynamicReserveUsd
Reserve(b) ==
    LET wanted == IF b \div ReserveShare > MinReserve
                  THEN b \div ReserveShare ELSE MinReserve
    IN  IF wanted < MaxReserve THEN wanted ELSE MaxReserve

\* Mutant of Affordable: what is already invested is not counted.
AffordableAlone(c, s) == s + Reserve(balance) + Cushion <= balance

Affordable(c, s) ==
    /\ exposure[c] + s + Reserve(balance) <= balance
    /\ s + Reserve(balance) + Cushion <= balance

Probed(c) == auto[c] /\ size'[c] >= ProbeMin

\* Sizing and the capital guard, which both read the balance.
PassGuards(c) ==
    /\ pc[c] = "admitted"
    /\ \E s \in Sizes : Affordable(c, s) /\ size' = [size EXCEPT ![c] = s]
    /\ Goto(c, IF Probed(c) THEN "probing" ELSE "swapping")
    /\ UNCHANGED <<mint, wallet, probeState, auto, before, seen, exposure, target,
                   tx, alerted, written, share, rows, sales, balance>>

\* A guard, the cooldown or the risk breaker refuses, a query throws, the swap
\* fails before its broadcast for good, or a dry run has its quote.
Refuse(c) ==
    /\ pc[c] \in {"looked", "admitted", "swapping"}
    /\ Goto(c, "done")
    /\ UNCHANGED <<mint, wallet, probeState, locals, rows, sales, balance>>

RunProbe(c) ==
    /\ Probe(c)
    /\ UNCHANGED <<locals, rows, sales, balance>>

------------------------------------------------------------------------------
(* The swap *)

Send(c) ==
    /\ pc[c] = "swapping"
    /\ Goto(c, "confirming")
    /\ tx' = [tx EXCEPT ![c] = "flying"]
    /\ UNCHANGED <<mint, wallet, probeState, auto, before, seen, exposure, target,
                   size, alerted, written, share, rows, sales, balance>>

Confirmed(c) ==
    /\ pc[c] = "confirming"
    /\ tx[c] = "landed"
    /\ Goto(c, "filled")
    /\ UNCHANGED <<mint, wallet, probeState, locals, rows, sales, balance>>

\* The transaction failed on chain: another attempt, or the end (Refuse).
Rejected(c) ==
    /\ pc[c] = "confirming"
    /\ tx[c] = "failed"
    /\ Goto(c, "swapping")
    /\ UNCHANGED <<mint, wallet, probeState, locals, rows, sales, balance>>

\* post_broadcast_unconfirmed, whatever the transaction did or will do
Unconfirmed(c) ==
    /\ pc[c] = "confirming"
    /\ Goto(c, "reconciling")
    /\ UNCHANGED <<mint, wallet, probeState, locals, rows, sales, balance>>

Reconciled(c) ==
    /\ pc[c] = "reconciling"
    /\ tx[c] = "landed"
    /\ Goto(c, "filled")
    /\ UNCHANGED <<mint, wallet, probeState, locals, rows, sales, balance>>

\* Mutant of Unreconciled: the call only reports that the swap failed.
UnreconciledQuietly(c) ==
    /\ pc[c] = "reconciling"
    /\ Goto(c, "done")
    /\ UNCHANGED <<mint, wallet, probeState, locals, rows, sales, balance>>

\* Five queries do not show a fill, and the chat is told that one may appear.
Unreconciled(c) ==
    /\ pc[c] = "reconciling"
    /\ Goto(c, "done")
    /\ alerted' = alerted \union {c}
    /\ UNCHANGED <<mint, wallet, probeState, auto, before, seen, exposure, target,
                   size, tx, written, share, rows, sales, balance>>

------------------------------------------------------------------------------
(* Writing the fill *)

Enter(c) ==
    /\ written' = written \union {c}
    /\ share' = [share EXCEPT ![c] = size[c]]
    /\ UNCHANGED <<auto, before, seen, exposure, target, size, tx, alerted>>

\* The row is created without the columns of updateTradeAuditFields.
CreateRow(c) ==
    /\ pc[c] = "filled"
    /\ IsNew(c)
    /\ Goto(c, "auditing")
    /\ status' = [status EXCEPT ![c] = "OPEN"]
    /\ amount' = [amount EXCEPT ![c] = size[c]]
    /\ created' = Append(created, c)
    /\ Enter(c)
    /\ UNCHANGED <<mint, wallet, probeState, slot, value, sales, balance>>

\* Mutant of Audit: the statement sets amountInSol too.
AuditAmount(c) ==
    /\ pc[c] = "auditing"
    /\ Goto(c, "done")
    /\ value' = [value EXCEPT ![c] = size[c]]
    /\ amount' = [amount EXCEPT ![c] = size[c]]
    /\ UNCHANGED <<mint, wallet, probeState, locals, status, slot, created,
                   sales, balance>>

\* updateTradeAuditFields sets, whatever happened to the row since.
Audit(c) ==
    /\ pc[c] = "auditing"
    /\ Goto(c, "done")
    /\ value' = [value EXCEPT ![c] = size[c]]
    /\ UNCHANGED <<mint, wallet, probeState, locals, status, slot, amount, created,
                   sales, balance>>

\* An increment of NULL is NULL.
ScaledValue(c) == IF value[target[c]] = 0 THEN 0 ELSE value[target[c]] + size[c]

\* Mutant of ScaleIn: the update is not restricted to an OPEN row.
ScaleInUnguarded(c) ==
    /\ pc[c] = "filled"
    /\ ~ IsNew(c)
    /\ Goto(c, "done")
    /\ status' = [status EXCEPT ![target[c]] = "OPEN"]
    /\ amount' = [amount EXCEPT ![target[c]] = @ + size[c]]
    /\ value' = [value EXCEPT ![target[c]] = ScaledValue(c)]
    /\ Enter(c)
    /\ UNCHANGED <<mint, wallet, probeState, slot, created, sales, balance>>

ScaleIn(c) ==
    /\ pc[c] = "filled"
    /\ ~ IsNew(c)
    /\ status[target[c]] = "OPEN"
    /\ Goto(c, "done")
    /\ amount' = [amount EXCEPT ![target[c]] = @ + size[c]]
    /\ value' = [value EXCEPT ![target[c]] = ScaledValue(c)]
    /\ Enter(c)
    /\ UNCHANGED <<mint, wallet, probeState, status, slot, created, sales, balance>>

\* scale_in_race_closed: the update touched no row.
ScaleInTooLate(c) ==
    /\ pc[c] = "filled"
    /\ ~ IsNew(c)
    /\ status[target[c]] # "OPEN"
    /\ Goto(c, "done")
    /\ alerted' = alerted \union {c}
    /\ UNCHANGED <<mint, wallet, probeState, auto, before, seen, exposure, target,
                   size, tx, written, share, rows, sales, balance>>

\* A statement throws; nobody catches it on the way out of attemptBuy.
WriteThrows(c) ==
    /\ pc[c] \in {"filled", "auditing"}
    /\ Goto(c, "lost")
    /\ UNCHANGED <<mint, wallet, probeState, locals, rows, sales, balance>>

------------------------------------------------------------------------------
(* The chain, the sells and the process *)

Land(c) ==
    /\ tx[c] = "flying"
    /\ size[c] <= balance
    /\ tx' = [tx EXCEPT ![c] = "landed"]
    /\ balance' = balance - size[c]
    /\ wallet' = wallet \union {Fill(c)}
    /\ UNCHANGED <<pc, mint, probeState, auto, before, seen, exposure, target,
                   size, alerted, written, share, rows, sales>>

\* It fails, or is never included.
DoNotLand(c) ==
    /\ tx[c] = "flying"
    /\ \E t \in {"failed", "expired"} : tx' = [tx EXCEPT ![c] = t]
    /\ UNCHANGED <<pc, mint, wallet, probeState, auto, before, seen, exposure,
                   target, size, alerted, written, share, rows, sales, balance>>

\* executeSell: a full sell takes the balance of the moment.
SellAll(r) ==
    /\ status[r] = "OPEN"
    /\ sale[r] = "none"
    /\ Holds(mint[r]) => mint[r] \notin trap
    /\ sale' = [sale EXCEPT ![r] = "full"]
    /\ wallet' = wallet \ LotsOf(mint[r])
    /\ balance' \in (IF Holds(mint[r]) THEN {balance + p : p \in Proceeds} ELSE {balance})
    /\ UNCHANGED <<pc, mint, probeState, locals, rows, parts>>

SellHalf(r) ==
    /\ status[r] = "OPEN"
    /\ sale[r] = "none"
    /\ parts[r] < MaxParts
    /\ Holds(mint[r])
    /\ mint[r] \notin trap
    /\ sale' = [sale EXCEPT ![r] = "half"]
    /\ parts' = [parts EXCEPT ![r] = @ + 1]
    /\ balance' \in {balance + p : p \in Proceeds}
    /\ UNCHANGED <<pc, mint, wallet, probeState, locals, rows>>

FillsOf(r) == {c \in written : target[c] = r}

\* recordExecutedSell: multiply leaves NULL alone, a close leaves the amounts.
RecordHalf(r) ==
    /\ sale[r] = "half"
    /\ sale' = [sale EXCEPT ![r] = "none"]
    /\ amount' = [amount EXCEPT ![r] = @ \div 2]
    /\ value' = [value EXCEPT ![r] = @ \div 2]
    /\ share' = [c \in Calls |-> IF c \in FillsOf(r) THEN share[c] \div 2 ELSE share[c]]
    /\ UNCHANGED <<pc, mint, wallet, probeState, auto, before, seen, exposure,
                   target, size, tx, alerted, written, status, slot, created,
                   parts, balance>>

RecordClose(r) ==
    /\ sale[r] = "full"
    /\ sale' = [sale EXCEPT ![r] = "none"]
    /\ status' = [status EXCEPT ![r] = "CLOSED"]
    /\ UNCHANGED <<pc, mint, wallet, probeState, locals, slot, amount, value,
                   created, parts, balance>>

\* Calls die where they are; transactions, rows and sells survive.
Crash ==
    /\ \E c \in Calls : Active(c)
    /\ pc' = [c \in Calls |-> IF Active(c) THEN "lost" ELSE pc[c]]
    /\ UNCHANGED <<mint, wallet, probeState, locals, rows, sales, balance>>

PassTime(m) == Expire(m) /\ UNCHANGED <<locals, rows, sales, balance>>

Call(c) ==
    \/ Begin(c) \/ Admit(c) \/ PassGuards(c) \/ Refuse(c) \/ RunProbe(c)
    \/ Send(c) \/ Confirmed(c) \/ Rejected(c) \/ Unconfirmed(c)
    \/ Reconciled(c) \/ Unreconciled(c)
    \/ CreateRow(c) \/ Audit(c) \/ ScaleIn(c) \/ ScaleInTooLate(c) \/ WriteThrows(c)

Sale(r) == SellAll(r) \/ SellHalf(r) \/ RecordHalf(r) \/ RecordClose(r)

Next ==
    \/ Crash
    \/ \E m \in Mints : PassTime(m)
    \/ \E c \in Calls : Call(c) \/ Land(c) \/ DoNotLand(c) \/ Sale(c)

Spec == Init /\ [][Next]_vars

------------------------------------------------------------------------------
(* Properties *)

\* Every variable keeps its type.
TypeOK ==
    /\ ProbeTypeOK
    /\ pc \in [Calls -> Stages]
    /\ auto \in [Calls -> BOOLEAN]
    /\ before \in [Calls -> SUBSET Calls]
    /\ seen \in [Calls -> SUBSET Calls]
    /\ exposure \in [Calls -> Nat]
    /\ target \in [Calls -> Calls]
    /\ size \in [Calls -> Sizes \union {0}]
    /\ tx \in [Calls -> {"none", "flying", "landed", "failed", "expired"}]
    /\ alerted \subseteq Calls /\ written \subseteq Calls
    /\ share \in [Calls -> Nat]
    /\ status \in [Calls -> {"none", "OPEN", "CLOSED"}]
    /\ slot \in [Calls -> 1..TotalSlots]
    /\ amount \in [Calls -> Nat]
    /\ value \in [Calls -> Nat]
    /\ created \in Seq(Calls)
    /\ sale \in [Calls -> {"none", "full", "half"}]
    /\ parts \in [Calls -> 0..MaxParts]
    /\ balance \in Nat

\* Two calls ran at the same time: neither was over when the other began.
Overlap(c, d) ==
    /\ c # d
    /\ pc[c] # "idle" /\ pc[d] # "idle"
    /\ c \notin before[d] /\ d \notin before[c]

\* One token is in one open row and one slot holds one open row, unless the
\* calls that created the rows overlapped: nothing but the order of the calls
\* keeps them apart, the table has no unique key.
RowsCollideOnlyByOverlap ==
    \A r, q \in OpenRows :
        r # q /\ (mint[r] = mint[q] \/ slot[r] = slot[q]) => Overlap(r, q)

\* There are never more open rows than slots, unless two creators overlapped.
SlotsExceededOnlyByOverlap ==
    Cardinality(OpenRows) > TotalSlots => \E r, q \in OpenRows : Overlap(r, q)

\* amountInSol of an open row is what is left of the fills written to it, in
\* whatever order scale-ins, partial sells and the audit of the row come.
PrincipalExact ==
    \A r \in OpenRows : amount[r] = SumFunctionOnSet(share, FillsOf(r))

\* A buy that landed is in a row or was reported, once its call returned.
LandedIsWrittenOrAlerted ==
    \A c \in Calls :
        pc[c] = "done" /\ Fill(c) \in wallet => c \in written \union alerted

\* The tokens of an open row are in the wallet, unless calls for that token
\* overlapped: a probe sells the whole balance, and so does a second row.
TokensGoneOnlyByOverlap ==
    \A r \in OpenRows : \A c \in FillsOf(r) :
        sale[r] # "full" /\ Fill(c) \notin wallet =>
            \E d, e \in Calls :
                mint[d] = mint[r] /\ mint[e] = mint[r] /\ Overlap(d, e)

LargestSize == CHOOSE s \in Sizes : \A t \in Sizes : t <= s

Undisturbed ==
    /\ \A c, d \in Calls : ~ Overlap(c, d)
    /\ \A c \in Calls : tx[c] = "landed" => c \in written \/ Active(c)
    /\ \A r \in OpenRows : value[r] > 0 \/ Active(r)

\* The free balance covers the reserve and everything invested but the last
\* buy, as long as no calls overlap, no fill is outside the rows and no row
\* has lost its value: the capital guard alone, one call after the other, is
\* enough.
CapitalKept ==
    Undisturbed =>
        balance + LargestSize >=
            MinReserve + SumFunctionOnSet(amount, OpenRows)

\* An automatic buy of at least the probed size is never sent for a token that
\* cannot be sold.
TrapNeverBought ==
    \A c \in Calls :
        auto[c] /\ size[c] >= ProbeMin /\ tx[c] # "none" => mint[c] \notin trap

\* A CLOSED row stays closed, also when a scale-in into it lands late.
ClosedStaysClosed ==
    [][\A r \in Calls : status[r] = "CLOSED" => status'[r] = "CLOSED"]_vars

Blocker(d, m) == mint[d] = m /\ result[d] = "BLOCKED"

\* A BLOCKED verdict is only overwritten by a probe that overlapped the one
\* that found it.
BlockedForgottenOnlyByOverlap ==
    [][\A m \in Mints :
          verdict[m] = "BLOCKED" /\ verdict'[m] # "BLOCKED" =>
              \E c, d \in Calls :
                  /\ pc[c] = "saving" /\ pc'[c] # "saving" /\ mint[c] = m
                  /\ Blocker(d, m) /\ Overlap(c, d)]_vars

\* Tokens that were bought are in an open row or were reported, so that no
\* position is unmonitored in silence.
NeverSilentlyLost ==
    \A c \in Calls :
        pc[c] = "done" /\ Fill(c) \in wallet /\ c \notin alerted =>
            c \in written /\ status[target[c]] = "OPEN"

=============================================================================
