--------------------------- MODULE MCBuyExecution ---------------------------
(* attemptBuy for TLC: what its calls do to the wallet and the rows, and the *)
(* breakers in front of it.  A behaviour is about one of them, `about`; the  *)
(* other stays as it starts.  The calls are interchangeable.                 *)
EXTENDS BuyExecution, RiskGate, TLC

CONSTANTS c1, c2

MCCalls == {c1, c2}

Symmetric == Permutations(MCCalls)

(* RiskGate: one strategy, a gain of 2, and a gross gain that the fees turn  *)
(* into a loss of 2.                                                         *)
MCOutcomes == { [gross |-> 4, entry |-> 1, fee |-> 1, priced |-> TRUE],
                [gross |-> 1, entry |-> 1, fee |-> 2, priced |-> TRUE] }
MCStreakLimit == [r \in Routes |-> 1]

VARIABLE about

BuysInit ==
    /\ about \in {"breakers", "buys"}
    /\ Init /\ RiskInit
    /\ about = "breakers" => trap = {}

BuysNext ==
    /\ UNCHANGED about
    /\ \/ about = "buys" /\ Next /\ UNCHANGED riskVars
       \/ about = "breakers" /\ RiskNext /\ UNCHANGED vars

BuysSpec == BuysInit /\ [][BuysNext]_<<vars, riskVars, about>>

\* The types of the variables of both.
BuyTypesOK == TypeOK /\ RiskTypeOK
=============================================================================
