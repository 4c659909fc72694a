------------------------------- MODULE Deposits -------------------------------
(***************************************************************************)
(* The deposits of the Helius webhook (helius-webhook.controller.ts).  A   *)
(* delivery is answered before it is worked off; then its transactions are *)
(* taken one by one, and of each the wallets it pays, one after another.   *)
(* A deposit is a row of the ledger, unique in (signature, wallet), and an *)
(* increment of the vault, in one database transaction.                    *)
(*                                                                         *)
(* Helius may deliver a transaction again, and deliveries overlap.  The    *)
(* mints a transaction names go to Scanner (Webhook).                      *)
(***************************************************************************)
EXTENDS Naturals, Sequences, Functions

CONSTANTS
    Deliveries,     \* requests that can be under way at once (a bound)
    Payloads,       \* the sequences of signatures a request can carry
    Wallets,        \* accounts a transfer can pay
    Transfers,      \* the native transfers of a successful signature
    MaxPushes       \* bound on the requests

ASSUME DepositsAssumption ==
    /\ \A p \in Payloads : p \in Seq(DOMAIN Transfers)
    /\ \A s \in DOMAIN Transfers : Transfers[s] \in Seq([to : Wallets, amount : Nat])
    /\ MaxPushes \in Nat

VARIABLES
    vaults,     \* the wallets with a TelegramWalletVault row
    deposited,  \* balanceSol of every vault, in lamports
    ledger,     \* TelegramDepositLedger: [signature, wallet] -> amount
    delivery,   \* what each request has left to do
    pushes      \* requests so far

depositVars == <<vaults, deposited, ledger, delivery, pushes>>

NoDelivery == [todo |-> << >>, batches |-> {}, paying |-> {}]

DepositInit ==
    /\ vaults = {} /\ deposited = [w \in Wallets |-> 0]
    /\ ledger = << >>
    /\ delivery = [d \in Deliveries |-> NoDelivery]
    /\ pushes = 0

Batch(signature, wallet, amount) ==
    [signature |-> signature, wallet |-> wallet, amount |-> amount]

Amounts(s) == [i \in DOMAIN Transfers[s] |-> Transfers[s][i].amount]
PaidIndexes(s, w) == {i \in DOMAIN Transfers[s] : Transfers[s][i].to = w}

\* Mutant of Grouped: every transfer is a batch of its own.
Ungrouped(s) ==
    {Batch(s, Transfers[s][i].to, Transfers[s][i].amount) : i \in DOMAIN Transfers[s]}

\* groupNativeTransfers: one batch for every wallet that is paid anything.
Grouped(s) ==
    {b \in {Batch(s, w, SumFunctionOnSet(Amounts(s), PaidIndexes(s, w))) : w \in Wallets} :
        b.amount > 0}

\* A request with valid credentials; anything else is answered and dropped.
Push(d) ==
    /\ delivery[d] = NoDelivery /\ pushes < MaxPushes
    /\ \E p \in Payloads : delivery' = [delivery EXCEPT ![d].todo = p]
    /\ pushes' = pushes + 1
    /\ UNCHANGED <<vaults, deposited, ledger>>

Busy(d) == delivery[d].batches # {} \/ delivery[d].paying # {}

\* The next transaction.  One that is no successful transfer, or that cannot
\* be read, is left out.
TakeTransaction(d) ==
    /\ ~ Busy(d) /\ delivery[d].todo # << >>
    /\ \E batches \in {Grouped(Head(delivery[d].todo)), {}} :
        delivery' = [delivery EXCEPT ![d].todo = Tail(@), ![d].batches = batches]
    /\ UNCHANGED <<vaults, deposited, ledger, pushes>>

\* The vault is looked up; an account of nobody's is left out.
FindVault(d) ==
    /\ delivery[d].paying = {}
    /\ \E b \in delivery[d].batches :
        delivery' = [delivery EXCEPT ![d].batches = @ \ {b},
                                     ![d].paying = IF b.wallet \in vaults THEN {b} ELSE {}]
    /\ UNCHANGED <<vaults, deposited, ledger, pushes>>

\* Mutant of InLedger: a ledger without its unique index.
NeverInLedger(b) == FALSE

InLedger(b) == <<b.signature, b.wallet>> \in DOMAIN ledger

Pay(b) ==
    IF InLedger(b) THEN UNCHANGED <<deposited, ledger>>
    ELSE /\ ledger' = [k \in DOMAIN ledger \union {<<b.signature, b.wallet>>} |->
                          IF k = <<b.signature, b.wallet>> THEN b.amount ELSE ledger[k]]
         /\ deposited' = [deposited EXCEPT ![b.wallet] = @ + b.amount]

\* creditWalletDeposit: both rows or, on the unique key, neither.
CreditDeposit(d) ==
    /\ \E b \in delivery[d].paying : Pay(b)
    /\ delivery' = [delivery EXCEPT ![d].paying = {}]
    /\ UNCHANGED <<vaults, pushes>>

\* The database refuses for another reason: the batch is gone.
LoseDeposit(d) ==
    /\ delivery[d].paying # {}
    /\ delivery' = [delivery EXCEPT ![d].paying = {}]
    /\ UNCHANGED <<vaults, deposited, ledger, pushes>>

CreateVault(w) ==
    /\ w \notin vaults
    /\ vaults' = vaults \union {w}
    /\ UNCHANGED <<deposited, ledger, delivery, pushes>>

\* What was answered but not worked off is not asked for again.
RestartWebhook ==
    /\ \E d \in Deliveries : delivery[d] # NoDelivery
    /\ delivery' = [d \in Deliveries |-> NoDelivery]
    /\ UNCHANGED <<vaults, deposited, ledger, pushes>>

DepositNext ==
    \/ RestartWebhook
    \/ \E w \in Wallets : CreateVault(w)
    \/ \E d \in Deliveries :
        Push(d) \/ TakeTransaction(d) \/ FindVault(d) \/ CreditDeposit(d) \/ LoseDeposit(d)

DepositSpec == DepositInit /\ [][DepositNext]_depositVars

(***************************************************************************)
(* Properties.                                                             *)
(***************************************************************************)
\* The types of the variables.
DepositTypeOK ==
    /\ vaults \subseteq Wallets
    /\ deposited \in [Wallets -> Nat]
    /\ DOMAIN ledger \subseteq (DOMAIN Transfers) \X Wallets
    /\ \A k \in DOMAIN ledger : ledger[k] \in Nat
    /\ DOMAIN delivery = Deliveries
    /\ pushes \in 0 .. MaxPushes

\* What a signature pays a wallet on the chain.
PaidOnChain(s, w) == SumFunctionOnSet(Amounts(s), PaidIndexes(s, w))

\* What every signature pays a wallet, and those that are in the ledger for it.
PaidTo(w) == [s \in DOMAIN Transfers |-> PaidOnChain(s, w)]
Booked(w) == {s \in DOMAIN Transfers : <<s, w>> \in DOMAIN ledger}

\* However often and however concurrently a transaction is delivered, and
\* wherever the program dies, a vault holds exactly the whole of what every
\* signature in the ledger pays it (creditWalletDeposit).
VaultsMatchChain ==
    \A w \in Wallets : deposited[w] = SumFunctionOnSet(PaidTo(w), Booked(w))
=============================================================================
