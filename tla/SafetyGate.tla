------------------------------ MODULE SafetyGate ------------------------------
(***************************************************************************)
(* The safety analysis of one token, on its two roads: the analysis of a   *)
(* new token (isTokenSafeToBuy of analyzer.service.ts) and the rebound of  *)
(* an established one (analyzeAndExecuteRebound of                         *)
(* established-analyzer.service.ts), with the profile of the creator they  *)
(* share with the end of a sell.                                           *)
(*                                                                         *)
(* What the token is (its nature) is fixed.  What a look at it sees        *)
(* depends on when each source is asked and on which sources fail.         *)
(*                                                                         *)
(* The limits of the market data are levels: liquidity dust (< $1000) <    *)
(* low < thin < ok, market cap low < ok < big < high; the age has the      *)
(* levels of Ages.                                                         *)
(***************************************************************************)
EXTENDS Naturals, Sequences, FiniteSetsExt

CONSTANTS
    Natures,        \* the tokens looked at
    Markets,        \* what DexScreener can say of the pair
    Reports,        \* the sections a report of RugCheck can hold
    EstablishedAges, \* the ages of a pair the established road accepts
    Attempts,       \* the attempts at an RPC call
    Penalties,      \* the exits of this creator's tokens that were a rug pull
    RequireDevZero  \* REQUIRE_DEV_ZERO_BALANCE

\* Below MIN_AGE_HOURS, before the holder table of RugCheck settles, below an
\* hour, below MAX_AGE_HOURS, below ESTABLISHED_MAX_AGE_HOURS, above.
Ages == 0 .. 5

\* Every field of RugCheckApiResponse may be missing.
Sections == {"holders", "markets", "risks", "score", "creator"}

ASSUME GateAssumption ==
    /\ Attempts \in Nat \ {0} /\ RequireDevZero \in BOOLEAN
    /\ Natures \subseteq
        [mint : BOOLEAN, lp : {"safe", "open", "none"}, pump : {"no", "site", "mint"},
         dev : {"unknown", "empty", "holds"}, spread : {"fine", "whales", "hidden"},
         danger : {"none", "score", "honeypot", "listed"}]
    /\ Markets \subseteq
        [pair : BOOLEAN, born : BOOLEAN, liquidity : {"dust", "low", "thin", "ok"},
         active : BOOLEAN, cap : {"low", "ok", "big", "high"}, surge : BOOLEAN,
         bearish : {"no", "yes", "hard"}, flow : BOOLEAN, rebound : BOOLEAN]
    /\ Reports \subseteq SUBSET Sections /\ EstablishedAges \subseteq Ages

\* A creator has launched so many tokens and no more.
ASSUME PenaltiesAssumption == IsFiniteSet(Penalties)

VARIABLES
    nature,     \* the token
    age,        \* of its pair
    blocked,    \* its TokenSafetyProbe row says BLOCKED
    profile,    \* the CreatorProfile row: rugged tokens, blacklisted or not
    penalty,    \* the exits that blacklist the creator
    look        \* the look at the token that is under way, or the last one

gateVars == <<nature, age, blocked, profile, penalty, look>>

\* warned and stopped: what was known when the look began; aged: the age when
\* RugCheck was asked; held and pool: the sections of its report, and what the
\* report makes of the liquidity pool; excused: the profile could not be read.
NoLook == [road |-> "none", at |-> "done", outcome |-> "none", attempt |-> 0, aged |-> 0,
           held |-> {}, pool |-> "out",
           warned |-> FALSE, stopped |-> FALSE, excused |-> FALSE, evidence |-> FALSE]

GateInit ==
    /\ nature \in Natures /\ age \in Ages
    /\ blocked = FALSE
    /\ profile = [rugged |-> 0, listed |-> FALSE, known |-> FALSE]
    /\ penalty = [p \in Penalties |-> [at |-> "idle", count |-> 0]]
    /\ look = NoLook

(***************************************************************************)
(* Rules are tried in order; the first that rejects gives the verdict.     *)
(***************************************************************************)
Rule(rejects, permanent) == [rejects |-> rejects, permanent |-> permanent]

FirstRejection(rules) ==
    LET rejecting == {i \in DOMAIN rules : rules[i].rejects}
    IN  IF rejecting = {} THEN "pass"
        ELSE IF rules[Min(rejecting)].permanent THEN "never" ELSE "retry"

\* A pair without a creation date is taken for one of 1970.
AgeOf(market) == IF market.born THEN age ELSE 5

\* Liquidity, volume and market cap (checkMarketTraction).
SizeRules(market) ==
    << Rule(~ market.pair, FALSE),
       Rule(market.liquidity = "dust", AgeOf(market) > 2),
       Rule(market.liquidity # "ok" \/ ~ market.active, FALSE),
       Rule(market.cap \in {"low", "high"}, market.cap = "high") >>

AgeRules(market) ==
    << Rule(AgeOf(market) = 0, FALSE),
       Rule(AgeOf(market) > 3, AgeOf(market) = 5) >>

\* Volume surge, then the trend, then the shares of the buyers and the hourly
\* flow by volume, which costs a request.  Only a fall below the hard floor
\* (evaluateBearishRebound) is final.
TrendRules(market) ==
    << Rule(~ market.surge, FALSE),
       Rule(market.bearish # "no", market.bearish = "hard"),
       Rule(~ market.flow, FALSE) >>

Traction(market) ==
    FirstRejection(SizeRules(market) \o AgeRules(market) \o TrendRules(market))

\* What the report shows.  A section it lacks reads as one without a fault: no
\* holders, no markets, no risks, a score of 0, no creator.
Shows(section) == section \in look.held
SeenSpread == IF Shows("holders") THEN nature.spread ELSE "fine"
SeenLp == IF Shows("markets") THEN nature.lp ELSE "none"
SeenDanger ==
    IF Shows(IF nature.danger = "score" THEN "score" ELSE "risks") THEN nature.danger ELSE "none"
SeenCreator == IF Shows("creator") THEN nature.dev ELSE "unknown"

\* checkHolderConcentration: holders whose owner reads like a pool are left
\* out; any other pool that is not labelled is a whale.
Concentrated ==
    SeenSpread = "whales" \/ look.pool = "whale" \/ SeenDanger \in {"score", "listed"}

\* Mutant of HoldersSettled: an early snapshot is as good as a late one.
AnySnapshot(aged) == TRUE

\* isHolderDataSettled, with the age before RugCheck was asked.
HoldersSettled(aged) == aged > 1

HolderRules == << Rule(Concentrated, HoldersSettled(look.aged)) >>

\* The rest of checkRugCheckAPI, once the balance of the creator is known.  The
\* safety index counts every pool that has no label, and is final at any age.
ReportRules(balance) ==
    << Rule(RequireDevZero /\ balance # "empty", TRUE),
       Rule(SeenSpread # "fine" \/ look.pool # "out", TRUE),
       Rule(SeenLp = "none" /\ nature.pump # "mint", FALSE),
       Rule(SeenLp = "open", TRUE),
       Rule(SeenDanger # "none", TRUE),
       Rule(balance = "holds", TRUE) >>

\* checkRugCheckLP has the same rules, and none of them is final.  A website
\* on pump.fun is enough for a token of pump.fun.
EstablishedReportRules(balance) ==
    << Rule(RequireDevZero /\ balance # "empty", FALSE),
       Rule(SeenSpread # "fine" \/ look.pool # "out", FALSE),
       Rule(SeenLp = "none" /\ nature.pump = "no", FALSE),
       Rule(SeenLp = "open", FALSE),
       Rule(SeenDanger # "none", FALSE),
       Rule(balance = "holds", FALSE) >>

\* A deep sell-off with volume on a flat floor and buyers in the majority.
EstablishedMarketRules(market) ==
    << Rule(~ market.pair, FALSE),
       Rule(AgeOf(market) \notin EstablishedAges, FALSE),
       Rule(market.liquidity \in {"dust", "low"}, FALSE),
       Rule(market.cap \in {"big", "high"}, FALSE),
       Rule(~ market.rebound, FALSE) >>

(***************************************************************************)
(* A look.                                                                 *)
(***************************************************************************)
Standard == look.road = "standard"
LookingAt(place) == look.at = place
LookAt(place) == look' = [look EXCEPT !.at = place, !.attempt = 0]

\* What is returned ends the look.
Return(outcome) == look' = [look EXCEPT !.at = "done", !.outcome = outcome]

\* Go on if no rule rejects, else return.
Unless(verdict, place) ==
    IF verdict = "pass" THEN LookAt(place) ELSE Return(verdict)

Sources == UNCHANGED <<nature, age, blocked, profile, penalty>>

\* A token that was condemned is not looked at again.  The new token starts
\* with its market, the established one with the row of the probe.
BeginLook(road) ==
    /\ LookingAt("done") /\ look.outcome # "never"
    /\ look' = [NoLook EXCEPT !.road = road, !.at = IF road = "standard" THEN "market" ELSE "probe",
                              !.warned = profile.listed, !.stopped = blocked]
    /\ Sources

\* What the market must show to condemn a token: too big, past the floor, dry
\* after an hour, too old.  A pair without a creation date counts as well.
Dead(market) ==
    \/ market.cap = "high" \/ market.bearish = "hard"
    \/ market.liquidity = "dust" /\ age > 2
    \/ age = 5 \/ ~ market.born

\* What would justify a verdict for good is remembered with it.
AskMarket ==
    /\ LookingAt("market")
    /\ \E market \in Markets :
        IF Standard
        THEN LET verdict == Traction(market)
             IN  look' = [look EXCEPT !.at = IF verdict = "pass" THEN "probe" ELSE "done",
                                      !.outcome = IF verdict = "pass" THEN "none" ELSE verdict,
                                      !.evidence = Dead(market)]
        ELSE Unless(FirstRejection(EstablishedMarketRules(market)), "mint")
    /\ Sources

AskProbe ==
    /\ LookingAt("probe")
    /\ IF blocked
       THEN Return(IF Standard THEN "never" ELSE "retry")
       ELSE LookAt(IF Standard THEN "mint" ELSE "market")
    /\ Sources

\* checkTokenSecurityRPC and checkOnChainAuthority: evaluateMintSafety of what
\* the RPC answers.
AskMint ==
    /\ LookingAt("mint")
    /\ IF nature.mint THEN LookAt("rugcheck") ELSE Return(IF Standard THEN "never" ELSE "retry")
    /\ Sources

\* Mutant of Unread: a mint that cannot be read is a mint that is not safe.
CondemnUnread == Return(IF Standard THEN "never" ELSE "retry")

Unread == Return("retry")

MintFails ==
    /\ LookingAt("mint")
    /\ IF look.attempt + 1 < Attempts
       THEN look' = [look EXCEPT !.attempt = @ + 1]
       ELSE Unread
    /\ Sources

\* What the report of a young pair makes of its pool: left out by its label, a
\* whale without it, or counted by the safety index alone, because its owner
\* reads like a pool or because the index is the tighter limit.
PoolReadings(held) ==
    {"out"} \union (IF "holders" \in held /\ age <= 1 THEN {"counted", "whale"} ELSE {})

\* The age of the pair is taken before RugCheck is asked, which answers with
\* what it has.
AskRugCheck ==
    /\ LookingAt("rugcheck")
    /\ \E held \in Reports : \E pool \in PoolReadings(held) :
        look' = [look EXCEPT !.at = "report", !.aged = age, !.held = held, !.pool = pool]
    /\ Sources

RulesOf(balance) == IF Standard THEN ReportRules(balance) ELSE EstablishedReportRules(balance)

\* The report.  The balance of a creator it names is asked from the RPC.
ReadReport ==
    /\ LookingAt("report")
    /\ LET table == IF Standard THEN FirstRejection(HolderRules) ELSE "pass"
       IN  IF table # "pass" THEN Return(table)
           ELSE IF SeenCreator # "unknown" THEN LookAt("balance")
           ELSE Unless(FirstRejection(RulesOf("unknown")), "signals")
    /\ Sources

\* Without data, or after an error, nothing is final.
ReportFails == LookingAt("report") /\ Return("retry") /\ Sources

AskBalance ==
    /\ LookingAt("balance")
    /\ Unless(FirstRejection(RulesOf(SeenCreator)), "profile")
    /\ Sources

\* Mutant of NoBalance: what cannot be read is not held.
TrustUnread == Unless(FirstRejection(RulesOf("empty")), "profile")

\* creator_data_unavailable.
NoBalance == Return("retry")

BalanceFails ==
    /\ LookingAt("balance")
    /\ IF look.attempt + 1 < Attempts
       THEN look' = [look EXCEPT !.attempt = @ + 1]
       ELSE NoBalance
    /\ Sources

\* evaluateCreator: an unknown creator gets a neutral row.  One rugged token
\* of the one created makes a risk of 100.
HighRisk == profile.listed \/ profile.rugged > 0

ReadProfile ==
    /\ LookingAt("profile")
    /\ IF ~ profile.known THEN LookAt("create")
       ELSE IF HighRisk THEN Return(IF Standard THEN "never" ELSE "retry")
       ELSE LookAt("signals")
    /\ Sources

CreateProfile ==
    /\ LookingAt("create") /\ ~ profile.known
    /\ profile' = [rugged |-> 0, listed |-> FALSE, known |-> TRUE]
    /\ LookAt("signals")
    /\ UNCHANGED <<nature, age, blocked, penalty>>

\* An error, such as a row that another writer has created, makes the creator
\* neutral.
ProfileFails ==
    /\ look.at \in {"profile", "create"}
    /\ look' = [look EXCEPT !.at = "signals", !.attempt = 0, !.excused = TRUE]
    /\ Sources

\* Noise, price chase, signal score, meta, narrative and the AI can only put a
\* new token off; an established one has passed.
Signals ==
    /\ LookingAt("signals")
    /\ \/ Return("safe")
       \/ Standard /\ Return("retry")
    /\ Sources

\* The outer catch.
LookThrows == look.at \in {"market", "probe", "signals"} /\ Return("retry") /\ Sources

(***************************************************************************)
(* Meanwhile.                                                              *)
(***************************************************************************)
PairGrowsOlder ==
    /\ age + 1 \in Ages
    /\ age' = age + 1
    /\ UNCHANGED <<nature, blocked, profile, penalty, look>>

\* A simulated sell of another call of attemptBuy was blocked.
ProbeBlocks ==
    /\ ~ blocked /\ blocked' = TRUE
    /\ UNCHANGED <<nature, age, profile, penalty, look>>

\* The end of a sell reads the row of the creator and writes absolute values.
ReadForPenalty(p) ==
    /\ penalty[p].at = "idle" /\ nature.dev # "unknown"
    /\ penalty' = [penalty EXCEPT ![p] = [at |-> "read", count |-> profile.rugged + 1]]
    /\ UNCHANGED <<nature, age, blocked, profile, look>>

Penalize(p) ==
    /\ penalty[p].at = "read"
    /\ profile' = [rugged |-> IF profile.known THEN penalty[p].count ELSE 1,
                   listed |-> TRUE, known |-> TRUE]
    /\ penalty' = [penalty EXCEPT ![p].at = "done"]
    /\ UNCHANGED <<nature, age, blocked, look>>

\* An error is logged and the penalty is lost.
PenaltyFails(p) ==
    /\ penalty[p].at \in {"idle", "read"} /\ nature.dev # "unknown"
    /\ penalty' = [penalty EXCEPT ![p].at = "done"]
    /\ UNCHANGED <<nature, age, blocked, profile, look>>

Looking ==
    \/ BeginLook("standard") \/ BeginLook("established")
    \/ AskMarket
    \/ AskProbe \/ AskMint \/ MintFails
    \/ AskRugCheck \/ ReadReport \/ ReportFails \/ AskBalance \/ BalanceFails
    \/ ReadProfile \/ CreateProfile \/ ProfileFails \/ Signals \/ LookThrows

Around ==
    \/ PairGrowsOlder \/ ProbeBlocks
    \/ \E p \in Penalties : ReadForPenalty(p) \/ Penalize(p) \/ PenaltyFails(p)

GateNext == Looking \/ Around

GateSpec == GateInit /\ [][GateNext]_gateVars

(***************************************************************************)
(* Properties.                                                             *)
(***************************************************************************)
\* The types of the variables.
GateTypeOK ==
    /\ nature \in Natures /\ age \in Ages /\ blocked \in BOOLEAN
    /\ profile \in [rugged : 0 .. Cardinality(Penalties), listed : BOOLEAN, known : BOOLEAN]
    /\ penalty \in [Penalties -> [at : {"idle", "read", "done"}, count : 0 .. Cardinality(Penalties)]]
    /\ look \in [road : {"none", "standard", "established"},
                 at : {"done", "market", "probe", "mint", "rugcheck", "report", "balance",
                       "profile", "create", "signals"},
                 outcome : {"none", "safe", "retry", "never"}, attempt : 0 .. Attempts,
                 aged : Ages, held : SUBSET Sections, pool : {"out", "counted", "whale"},
                 warned : BOOLEAN, stopped : BOOLEAN, excused : BOOLEAN, evidence : BOOLEAN]

\* A fault of the token that the sections of its report show, or its mint.
ShownFault ==
    \/ ~ nature.mint
    \/ Shows("holders") /\ nature.spread # "fine"
    \/ Shows("markets") /\ nature.lp = "open"
    \/ Shows("score") /\ nature.danger = "score"
    \/ Shows("risks") /\ nature.danger \in {"honeypot", "listed"}
    \/ Shows("creator") /\ nature.dev = "holds"

\* Whichever sources fail and however often, a token is called safe only if
\* nothing that was read speaks against it: its mint and the sections that its
\* report held show no fault, its liquidity is locked or, if the report knows no
\* market, it is a token of pump.fun, and what was on record when the look began
\* (a blocked probe, the blacklisting of the creator the report names) was
\* heeded, unless the profile could not be read (isTokenSafeToBuy,
\* analyzeAndExecuteRebound).
SafeOnEvidence ==
    look.outcome = "safe" =>
        /\ ~ ShownFault /\ ~ look.stopped
        /\ ~ Shows("markets") \/ nature.lp = "none" => nature.pump # "no"
        /\ Shows("creator") /\ look.warned => look.excused

\* What justifies a verdict for good: a fault that was shown, a probe that was
\* blocked, a creator at risk or without a name where it must have sold, a
\* market that condemns the token.
Evidence ==
    \/ ShownFault \/ blocked \/ HighRisk \/ look.evidence
    \/ RequireDevZero /\ SeenCreator = "unknown"

\* A token is condemned for good only on evidence against it, never because a
\* source failed or a section was missing.  A pool that is not labelled yet is
\* no evidence where it reads as a whale; where only the safety index counts it,
\* it condemns (the permanent results of isTokenSafeToBuy; the scanner
\* blacklists on them).
CondemnedOnEvidence ==
    look.outcome = "never" => Evidence \/ look.pool = "counted"
=============================================================================
