---------------------------- MODULE HoneypotProbe ----------------------------
(***************************************************************************)
(* runConditionalHoneypotProbe of trade.service.ts: before a large         *)
(* automatic buy the wallet buys a little of the token and sells its whole *)
(* balance again; the verdict is kept in TokenSafetyProbe, one row per     *)
(* chat and token.  This is the wallet and the table of one chat, so that  *)
(* a token has one verdict.  BuyExecution runs it inside attemptBuy, which *)
(* is why calls enter at "probing" and leave at "swapping" or "done".      *)
(*                                                                         *)
(* The tokens of the wallet are lots <<call, kind>>: what the main buy or  *)
(* the probe of that call brought in.                                      *)
(***************************************************************************)
EXTENDS Naturals

CONSTANTS
    Calls,          \* calls of attemptBuy
    Mints           \* the tokens they are about

VARIABLES
    pc,             \* where each call is
    mint,           \* the token each call is about
    trap,           \* tokens that cannot be sold
    wallet,         \* lots held
    verdict,        \* TokenSafetyProbe.verdict of each token
    result          \* the verdict each call is about to save

ProbeStages == {"probing", "cleared", "uncached", "buying", "bought",
                "sold", "unsold", "saving"}
Verdicts == {"none", "PASSED", "EXPIRED", "BLOCKED", "INCONCLUSIVE"}
Lots == Calls \X {"buy", "probe"}

LotsOf(m) == {lot \in wallet : mint[lot[1]] = m}
Holds(m) == LotsOf(m) # {}

ProbeInit ==
    /\ trap \in SUBSET Mints
    /\ wallet = {}
    /\ verdict = [m \in Mints |-> "none"]
    /\ result = [c \in Calls |-> "none"]

Goto(c, stage) == pc' = [pc EXCEPT ![c] = stage]

Conclude(c, v) ==
    /\ Goto(c, "saving")
    /\ result' = [result EXCEPT ![c] = v]

------------------------------------------------------------------------------
(* The lookups *)

\* Mutant of ReadBlocked: a verdict that blocks is not looked for.
ReadBlockedNot(c) ==
    /\ pc[c] = "probing"
    /\ Goto(c, "cleared")
    /\ UNCHANGED <<mint, trap, wallet, verdict, result>>

ReadBlocked(c) ==
    /\ pc[c] = "probing"
    /\ Goto(c, IF verdict[mint[c]] = "BLOCKED" THEN "done" ELSE "cleared")
    /\ UNCHANGED <<mint, trap, wallet, verdict, result>>

ReadCache(c) ==
    /\ pc[c] = "cleared"
    /\ Goto(c, IF verdict[mint[c]] = "PASSED" THEN "swapping" ELSE "uncached")
    /\ UNCHANGED <<mint, trap, wallet, verdict, result>>

\* Tokens that are already there, or a balance that cannot be read.
FindBalance(c) ==
    /\ pc[c] = "uncached"
    /\ Conclude(c, "INCONCLUSIVE")
    /\ UNCHANGED <<mint, trap, wallet, verdict>>

\* Mutant of FindNoBalance: the balance is not looked at.
FindNoBalanceUnchecked(c) ==
    /\ pc[c] = "uncached"
    /\ Goto(c, "buying")
    /\ UNCHANGED <<mint, trap, wallet, verdict, result>>

FindNoBalance(c) ==
    /\ pc[c] = "uncached"
    /\ ~ Holds(mint[c])
    /\ Goto(c, "buying")
    /\ UNCHANGED <<mint, trap, wallet, verdict, result>>

------------------------------------------------------------------------------
(* The two swaps *)

\* The buy lands; it may still look lost, and its tokens then stay.
ProbeBuy(c) ==
    /\ pc[c] = "buying"
    /\ wallet' = wallet \union {<<c, "probe">>}
    /\ \/ Goto(c, "bought") /\ UNCHANGED result
       \/ Conclude(c, "INCONCLUSIVE")
    /\ UNCHANGED <<mint, trap, verdict>>

ProbeBuyFails(c) ==
    /\ pc[c] = "buying"
    /\ Conclude(c, "INCONCLUSIVE")
    /\ UNCHANGED <<mint, trap, wallet, verdict>>

\* The balance does not show up, or cannot be read.
BalanceMissing(c) ==
    /\ pc[c] = "bought"
    /\ Conclude(c, "INCONCLUSIVE")
    /\ UNCHANGED <<mint, trap, wallet, verdict>>

\* Sells whatever the wallet holds of the token, bought by the probe or not;
\* the sell may look lost.
ProbeSell(c) ==
    /\ pc[c] = "bought"
    /\ Holds(mint[c])
    /\ mint[c] \notin trap
    /\ wallet' = wallet \ LotsOf(mint[c])
    /\ Goto(c, "sold") \/ Goto(c, "unsold")
    /\ UNCHANGED <<mint, trap, verdict, result>>

ProbeSellFails(c) ==
    /\ pc[c] = "bought"
    /\ Holds(mint[c])
    /\ Goto(c, "unsold")
    /\ UNCHANGED <<mint, trap, wallet, verdict, result>>

------------------------------------------------------------------------------
(* The verdict *)

\* The balance is read again; tokens that arrived meanwhile look like tokens
\* that were not sold, and a balance that cannot be read decides nothing.
JudgeSold(c) ==
    /\ pc[c] = "sold"
    /\ \/ Conclude(c, IF Holds(mint[c]) THEN "BLOCKED" ELSE "PASSED")
       \/ Conclude(c, "INCONCLUSIVE")
    /\ UNCHANGED <<mint, trap, wallet, verdict>>

\* Mutant of JudgeUnsold: a sell that was not refused for good counts as done.
JudgeUnsoldLeniently(c) ==
    /\ pc[c] = "unsold"
    /\ Conclude(c, "BLOCKED") \/ Conclude(c, "PASSED")
    /\ UNCHANGED <<mint, trap, wallet, verdict>>

\* Whether the error of the sell is one of the definitive ones.
JudgeUnsold(c) ==
    /\ pc[c] = "unsold"
    /\ Conclude(c, "BLOCKED") \/ Conclude(c, "INCONCLUSIVE")
    /\ UNCHANGED <<mint, trap, wallet, verdict>>

\* The upsert, over whatever verdict the row has by now.
SaveVerdict(c) ==
    /\ pc[c] = "saving"
    /\ verdict' = [verdict EXCEPT ![mint[c]] = result[c]]
    /\ Goto(c, IF result[c] = "PASSED" THEN "swapping" ELSE "done")
    /\ UNCHANGED <<mint, trap, wallet, result>>

\* A query or a swap throws: attemptBuy reports the error and stops.
ProbeThrows(c) ==
    /\ pc[c] \in ProbeStages
    /\ Goto(c, "done")
    /\ UNCHANGED <<mint, trap, wallet, verdict, result>>

\* expiresAt of a PASSED verdict goes by.
Expire(m) ==
    /\ verdict[m] = "PASSED"
    /\ verdict' = [verdict EXCEPT ![m] = "EXPIRED"]
    /\ UNCHANGED <<pc, mint, trap, wallet, result>>

Probe(c) ==
    \/ ReadBlocked(c) \/ ReadCache(c) \/ FindBalance(c) \/ FindNoBalance(c)
    \/ ProbeBuy(c) \/ ProbeBuyFails(c) \/ BalanceMissing(c)
    \/ ProbeSell(c) \/ ProbeSellFails(c) \/ JudgeSold(c) \/ JudgeUnsold(c)
    \/ SaveVerdict(c) \/ ProbeThrows(c)

------------------------------------------------------------------------------
ProbeTypeOK ==
    /\ mint \in [Calls -> Mints]
    /\ trap \subseteq Mints
    /\ wallet \subseteq Lots
    /\ verdict \in [Mints -> Verdicts]
    /\ result \in [Calls -> {"none", "PASSED", "BLOCKED", "INCONCLUSIVE"}]
=============================================================================
