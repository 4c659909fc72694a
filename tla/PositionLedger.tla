--------------------------- MODULE PositionLedger ---------------------------
(***************************************************************************)
(* What the sell side of TradeService promises about one open position,    *)
(* with locks, retries, signatures and files left out: the chain decides   *)
(* which sells take effect, each of them is written to the trade row at    *)
(* most once and only while the row is OPEN, and a CLOSED row never        *)
(* changes again.  SellLifecycle implements it.                            *)
(***************************************************************************)
EXTENDS Naturals

CONSTANT TxIds        \* the sell transactions that can exist

VARIABLES
    landed,           \* transactions that took effect on chain
    credit,           \* how many times each one was written to the trade row
    open              \* Trade.status = 'OPEN'

ledger == <<landed, credit, open>>

LedgerInit ==
    /\ landed = {}
    /\ credit = [t \in TxIds |-> 0]
    /\ open = TRUE

Land(t) ==
    /\ t \notin landed
    /\ landed' = landed \union {t}
    /\ UNCHANGED <<credit, open>>

\* A partial exit leaves the row OPEN, a full one closes it.
Credit(t) ==
    /\ open = TRUE
    /\ t \in landed
    /\ credit[t] = 0
    /\ credit' = [credit EXCEPT ![t] = 1]
    /\ open' \in BOOLEAN
    /\ UNCHANGED landed

\* The row is closed without a fill: nothing left in the wallet, a simulated
\* exit, or an operator.
CloseWithoutFill ==
    /\ open = TRUE
    /\ open' = FALSE
    /\ UNCHANGED <<landed, credit>>

LedgerNext == CloseWithoutFill \/ \E t \in TxIds : Land(t) \/ Credit(t)

LedgerSpec == LedgerInit /\ [][LedgerNext]_ledger
=============================================================================
