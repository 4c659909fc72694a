----------------------------- MODULE Withdrawal -----------------------------
(***************************************************************************)
(* Sending SOL out of the wallet of one chat: the Telegram dialogue of     *)
(* reporting.service.ts, which remembers one destination per chat, and     *)
(* sendSolanaToAddress of trade.service.ts, which every press of a preset  *)
(* button runs.  Callback handlers are not serialised, so presses overlap. *)
(*                                                                         *)
(* The chat is allowed to withdraw and withdrawals are enabled: both come  *)
(* from the configuration, and without them no action below does anything. *)
(***************************************************************************)
EXTENDS Integers, FiniteSets

CONSTANTS
    Calls,          \* presses of a preset button
    Amounts,        \* what a preset is worth in lamports when it is pressed
    Start,          \* lamports in the wallet at the beginning
    Reserve,        \* WITHDRAWAL_RESERVE_SOL
    Fee,            \* network fee of a transaction
    MaxEntries      \* bound on the addresses typed

ASSUME CallsAssumption == IsFiniteSet(Calls)
ASSUME AmountsAssumption ==
    /\ Amounts \subseteq Nat /\ Start \in Nat /\ Reserve \in Nat /\ Fee \in Nat
    /\ MaxEntries \in Nat

VARIABLES
    flow,           \* pendingWithdrawAddress: no key, '' or an address
    entered,        \* how many addresses were typed; the last one is pending
    menu,           \* whether the chat shows a menu with preset buttons
    pc,             \* where each call is
    pays,           \* the address each call read from the dialogue
    spendable,      \* the spendable balance each call computed
    known,          \* history: payments that had landed when it was computed
    amount,         \* lamports of each transfer
    row,            \* status of the TelegramWithdrawal row of each call
    tx,             \* what became of each transaction
    balance         \* lamports in the wallet

dialogue == <<flow, entered, menu>>
calls == <<pc, pays, spendable, known, amount, row>>
chain == <<tx, balance>>
vars == <<dialogue, calls, chain>>

Stages == {"idle", "called", "read", "created", "confirming", "confirmed", "failing",
           "paid", "done"}
Active(c) == pc[c] \notin {"idle", "done"}
Landed == {c \in Calls : tx[c] = "landed"}

Init ==
    /\ flow = "off" /\ entered = 0 /\ menu = FALSE
    /\ pc = [c \in Calls |-> "idle"]
    /\ pays = [c \in Calls |-> 0]
    /\ spendable = [c \in Calls |-> 0]
    /\ known = [c \in Calls |-> {}]
    /\ amount = [c \in Calls |-> 0]
    /\ row = [c \in Calls |-> "none"]
    /\ tx = [c \in Calls |-> "none"]
    /\ balance = Start

------------------------------------------------------------------------------
(* The dialogue *)

StartFlow ==
    /\ flow' = "asked"
    /\ UNCHANGED <<entered, menu, calls, chain>>

\* A valid address; the menu follows unless the balance cannot be read.
EnterAddress ==
    /\ flow # "off"
    /\ entered < MaxEntries
    /\ flow' = "armed"
    /\ entered' = entered + 1
    /\ menu' \in {menu, TRUE}
    /\ UNCHANGED <<calls, chain>>

\* A command or the text of a menu key leaves the dialogue.
Navigate ==
    /\ flow # "off"
    /\ flow' = "off"
    /\ UNCHANGED <<entered, menu, calls, chain>>

Cancel ==
    /\ menu
    /\ flow' = "off"
    /\ UNCHANGED <<entered, menu, calls, chain>>

\* A press of any menu, old or new, takes the address that is pending now.
Press(c) ==
    /\ menu
    /\ flow = "armed"
    /\ pc[c] = "idle"
    /\ pc' = [pc EXCEPT ![c] = "called"]
    /\ pays' = [pays EXCEPT ![c] = entered]
    /\ UNCHANGED <<dialogue, spendable, known, amount, row, chain>>

------------------------------------------------------------------------------
(* sendSolanaToAddress *)

Goto(c, stage) == pc' = [pc EXCEPT ![c] = stage]

\* Mutant of Spendable: no Math.max(..., 0).
SpendableUnclamped(lamports) == lamports - Reserve

\* Mutant of Spendable: the reserve is forgotten.
SpendableWithoutReserve(lamports) == lamports

Spendable(lamports) == IF lamports > Reserve THEN lamports - Reserve ELSE 0

ReadBalance(c) ==
    /\ pc[c] = "called"
    /\ Goto(c, "read")
    /\ spendable' = [spendable EXCEPT ![c] = Spendable(balance)]
    /\ known' = [known EXCEPT ![c] = Landed]
    /\ UNCHANGED <<dialogue, pays, amount, row, chain>>

\* A guard refuses, the amount is not covered or is zero, or an await throws
\* before the row exists: the dialogue keeps its address.
GiveUp(c) ==
    /\ pc[c] \in {"called", "read"}
    /\ Goto(c, "done")
    /\ UNCHANGED <<dialogue, pays, spendable, known, amount, row, chain>>

CreateRow(c) ==
    /\ pc[c] = "read"
    /\ \E a \in Amounts :
          /\ a > 0 /\ a <= spendable[c]
          /\ amount' = [amount EXCEPT ![c] = a]
    /\ row' = [row EXCEPT ![c] = "PENDING"]
    /\ Goto(c, "created")
    /\ UNCHANGED <<dialogue, pays, spendable, known, chain>>

\* sendRawTransaction with a preflight against the balance of the moment; the
\* answer may be lost although the transaction went out.
Send(c) ==
    /\ pc[c] = "created"
    /\ balance >= amount[c] + Fee
    /\ tx' = [tx EXCEPT ![c] = "flying"]
    /\ \E stage \in {"confirming", "failing"} : Goto(c, stage)
    /\ UNCHANGED <<dialogue, pays, spendable, known, amount, row, balance>>

\* The blockhash, the preflight or the connection fails.
SendFails(c) ==
    /\ pc[c] = "created"
    /\ Goto(c, "failing")
    /\ UNCHANGED <<dialogue, pays, spendable, known, amount, row, chain>>

\* Mutant of Confirmed: the error of the confirmation is not looked at.
ConfirmedUnchecked(c) ==
    /\ pc[c] = "confirming"
    /\ tx[c] \in {"landed", "failed"}
    /\ Goto(c, "confirmed")
    /\ UNCHANGED <<dialogue, pays, spendable, known, amount, row, chain>>

Confirmed(c) ==
    /\ pc[c] = "confirming"
    /\ tx[c] = "landed"
    /\ Goto(c, "confirmed")
    /\ UNCHANGED <<dialogue, pays, spendable, known, amount, row, chain>>

FailedOnChain(c) ==
    /\ pc[c] = "confirming"
    /\ tx[c] = "failed"
    /\ Goto(c, "failing")
    /\ UNCHANGED <<dialogue, pays, spendable, known, amount, row, chain>>

\* The confirmation throws, whatever the transaction does.
ConfirmThrows(c) ==
    /\ pc[c] = "confirming"
    /\ Goto(c, "failing")
    /\ UNCHANGED <<dialogue, pays, spendable, known, amount, row, chain>>

\* The row is SUCCESS; the dialogue hears of it when the call has returned.
RecordSuccess(c) ==
    /\ pc[c] = "confirmed"
    /\ Goto(c, "paid")
    /\ row' = [row EXCEPT ![c] = "SUCCESS"]
    /\ UNCHANGED <<dialogue, pays, spendable, known, amount, chain>>

\* Mutant of ForgetAddress: the dialogue keeps the address that was paid.
KeepAddress(c) ==
    /\ pc[c] = "paid"
    /\ Goto(c, "done")
    /\ UNCHANGED <<dialogue, pays, spendable, known, amount, row, chain>>

\* Whatever address the dialogue holds now is forgotten, and the chat is told.
ForgetAddress(c) ==
    /\ pc[c] = "paid"
    /\ Goto(c, "done")
    /\ flow' = "off"
    /\ UNCHANGED <<entered, menu, pays, spendable, known, amount, row, chain>>

\* Reading the balance or writing SUCCESS throws into the same catch.
RecordThrows(c) ==
    /\ pc[c] = "confirmed"
    /\ Goto(c, "failing")
    /\ UNCHANGED <<dialogue, pays, spendable, known, amount, row, chain>>

\* The row is FAILED without a hash, unless that write throws too; the dialogue
\* keeps its address.
RecordFailure(c) ==
    /\ pc[c] = "failing"
    /\ Goto(c, "done")
    /\ \E status \in {"FAILED", row[c]} : row' = [row EXCEPT ![c] = status]
    /\ UNCHANGED <<dialogue, pays, spendable, known, amount, chain>>

------------------------------------------------------------------------------
(* The network and the process *)

Land(c) ==
    /\ tx[c] = "flying"
    /\ balance >= amount[c] + Fee
    /\ tx' = [tx EXCEPT ![c] = "landed"]
    /\ balance' = balance - amount[c] - Fee
    /\ UNCHANGED <<dialogue, calls>>

FailOnChain(c) ==
    /\ tx[c] = "flying"
    /\ balance >= Fee
    /\ tx' = [tx EXCEPT ![c] = "failed"]
    /\ balance' = balance - Fee
    /\ UNCHANGED <<dialogue, calls>>

Vanish(c) ==
    /\ tx[c] = "flying"
    /\ tx' = [tx EXCEPT ![c] = "expired"]
    /\ UNCHANGED <<dialogue, calls, balance>>

\* Rows, transactions and the menus in the chat survive; the dialogue does not.
Crash ==
    /\ \E c \in Calls : Active(c)
    /\ pc' = [c \in Calls |-> IF Active(c) THEN "done" ELSE pc[c]]
    /\ flow' = "off"
    /\ UNCHANGED <<entered, menu, pays, spendable, known, amount, row, chain>>

------------------------------------------------------------------------------
Dialogue == StartFlow \/ EnterAddress \/ Navigate \/ Cancel

Call(c) ==
    \/ Press(c) \/ ReadBalance(c) \/ GiveUp(c) \/ CreateRow(c)
    \/ Send(c) \/ SendFails(c) \/ Confirmed(c) \/ FailedOnChain(c)
    \/ ConfirmThrows(c) \/ RecordSuccess(c) \/ ForgetAddress(c) \/ RecordThrows(c)
    \/ RecordFailure(c)

Network(c) == Land(c) \/ FailOnChain(c) \/ Vanish(c)

Next == Dialogue \/ Crash \/ \E c \in Calls : Call(c) \/ Network(c)

Spec == Init /\ [][Next]_vars

------------------------------------------------------------------------------
(* Properties *)

\* Every variable keeps its type; a spendable balance is never negative.
TypeOK ==
    /\ flow \in {"off", "asked", "armed"}
    /\ entered \in 0..MaxEntries
    /\ menu \in BOOLEAN
    /\ pc \in [Calls -> Stages]
    /\ pays \in [Calls -> 0..MaxEntries]
    /\ spendable \in [Calls -> Nat]
    /\ known \in [Calls -> SUBSET Calls]
    /\ amount \in [Calls -> Amounts \union {0}]
    /\ row \in [Calls -> {"none", "PENDING", "SUCCESS", "FAILED"}]
    /\ tx \in [Calls -> {"none", "flying", "landed", "failed", "expired"}]
    /\ balance \in Nat

\* Whenever lamports may be leaving there is a row that says so, even if the
\* process dies at that moment, and a row that says SUCCESS was paid.
RowsMatchChain ==
    \A c \in Calls :
        /\ tx[c] # "none" => row[c] # "none"
        /\ row[c] = "SUCCESS" => tx[c] = "landed"

Pressed(c) == pc[c] = "idle" /\ pc'[c] = "called"

ReportedPaid(c) == row[c] = "SUCCESS" /\ pc[c] = "done"

\* Once a payment was reported paid, no later press pays the same entry of an
\* address: it has to be typed again.
PaidAddressIsSpent ==
    [][\A c, d \in Calls :
          Pressed(c) /\ ReportedPaid(d) => pays'[c] # pays[d]]_vars

Fees == Fee * Cardinality({c \in Calls : tx[c] \in {"landed", "failed"}})

Overlap(c, d) == c # d /\ c \notin known[d] /\ d \notin known[c]

\* The reserve is only touched by fees, unless two payments were computed
\* without knowing of each other.
OnlyOverlapBreaksReserve ==
    Start >= Reserve /\ balance + Fees < Reserve =>
        \E c, d \in Landed : Overlap(c, d)

\* A withdrawal that was reported failed was not paid: the row says FAILED and
\* the chat is told that the transfer failed.
FailedMeansUnpaid == \A c \in Calls : row[c] = "FAILED" => tx[c] # "landed"
=============================================================================
