----------------------------- MODULE MCServices -----------------------------
(* The components around the trade itself, for TLC.  A behaviour is about    *)
(* one of them, `part`; the others stay as they start.  (The price monitor   *)
(* comes with its own instance.)                                             *)
EXTENDS MCPriceMonitor, Scanner, Deposits, SafetyGate

(* Deposits: two transactions, one with three transfers to two vaults.       *)
To(wallet, amount) == [to |-> wallet, amount |-> amount]
MCTransfers ==
    [s |-> << To("a", 1), To("b", 2), To("a", 3) >>, t |-> << To("b", 0), To("a", 5) >>]
MCPayloads == { <<"s">>, <<"s", "t">> }

(* SafetyGate: a sound token, one for every single fault and one with an     *)
(* unknown creator besides, one with an open pool of pump.fun; a sound       *)
(* market and every market with at most two deviations from it.              *)
Sound == [mint |-> TRUE, lp |-> "safe", pump |-> "no", dev |-> "empty",
          spread |-> "fine", danger |-> "none"]
MCNatures ==
    {Sound} \union {[Sound EXCEPT !.mint = FALSE], [Sound EXCEPT !.lp = "open"],
                    [Sound EXCEPT !.lp = "open", !.dev = "unknown"],
                    [Sound EXCEPT !.lp = "open", !.pump = "mint"]}
      \union {[Sound EXCEPT !.lp = "none", !.pump = p] : p \in {"no", "site", "mint"}}
      \union {[Sound EXCEPT !.dev = d] : d \in {"unknown", "holds"}}
      \union {[Sound EXCEPT !.spread = w] : w \in {"whales", "hidden"}}
      \union {[Sound EXCEPT !.danger = d] : d \in {"score", "honeypot", "listed"}}

\* A report with everything, and without any one section.
MCReports == {Sections} \union {Sections \ {s} : s \in Sections}

Lively == [pair |-> TRUE, born |-> TRUE, liquidity |-> "ok", active |-> TRUE, cap |-> "ok",
           surge |-> TRUE, bearish |-> "no", flow |-> TRUE, rebound |-> TRUE]
MCMarkets ==
    { m \in [pair : BOOLEAN, born : BOOLEAN, liquidity : {"dust", "low", "thin", "ok"},
             active : BOOLEAN, cap : {"low", "ok", "big", "high"}, surge : BOOLEAN,
             bearish : {"no", "yes", "hard"}, flow : BOOLEAN, rebound : BOOLEAN] :
        Cardinality({f \in DOMAIN Lively : m[f] # Lively[f]}) <= 2 }

VARIABLE part

serviceVars == <<vars, scanVars, depositVars, gateVars, part>>

ServicesInit ==
    /\ part \in {"monitor", "scanner", "deposits", "gate"}
    /\ Init /\ ScanInit /\ DepositInit /\ GateInit
    /\ part # "gate" => nature = Sound /\ age = 0

ServicesNext ==
    /\ UNCHANGED part
    /\ \/ /\ part = "monitor" /\ Next
          /\ UNCHANGED <<scanVars, depositVars, gateVars>>
       \/ /\ part = "scanner" /\ ScanNext
          /\ UNCHANGED <<vars, depositVars, gateVars>>
       \/ /\ part = "deposits" /\ DepositNext
          /\ UNCHANGED <<vars, scanVars, gateVars>>
       \/ /\ part = "gate" /\ GateNext
          /\ UNCHANGED <<vars, scanVars, depositVars>>

ServicesSpec == ServicesInit /\ [][ServicesNext]_serviceVars

\* The types of the variables of every part.
AllTypesOK == TypeOK /\ ScanTypeOK /\ DepositTypeOK /\ GateTypeOK
=============================================================================
