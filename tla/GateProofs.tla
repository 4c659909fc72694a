------------------------------ MODULE GateProofs ------------------------------
(***************************************************************************)
(* What the two gates in front of a buy promise.  SafetyGate: a token is   *)
(* called safe, and condemned for good, only on evidence: for every token, *)
(* every market, any number of attempts and failing sources, and any number*)
(* of penalties of its creator meanwhile.  RiskGate: the circuit breakers  *)
(* stop a losing run in time, for every limit, strategy and outcome.       *)
(***************************************************************************)
EXTENDS SafetyGate, RiskGate, SumLemmas, SequenceTheorems

\* What every road has asked before it calls a token safe.
ReportClean ==
    /\ SeenSpread = "fine" /\ SeenLp # "open" /\ SeenDanger = "none"
    /\ SeenLp = "none" => nature.pump # "no"
    /\ SeenCreator # "holds"

Inspecting == {"rugcheck", "report", "balance", "profile", "create", "signals"}

\* The row of the probe has been asked: an established token before its
\* market, a new one after it.
Probed == look.at \in Inspecting \union {"mint"} \/ (look.at = "market" /\ ~ Standard)

\* A creator who is blacklisted is known, and so is the token's creator.
RecordsInv ==
    /\ DOMAIN penalty = Penalties
    /\ \A p \in Penalties : DOMAIN penalty[p] = {"at", "count"}
    /\ \A p \in Penalties : penalty[p].at = "read" => nature.dev # "unknown"
    /\ profile.listed => profile.known /\ nature.dev # "unknown"

\* What was on record when the look began still is.
RememberedInv ==
    /\ look.stopped => blocked
    /\ look.warned => profile.listed

\* How far the look is says what has been found.
LookInv ==
    /\ DOMAIN look = DOMAIN NoLook
    /\ look.at # "done" => look.outcome = "none"
    /\ Probed => ~ look.stopped
    /\ look.at \in Inspecting => nature.mint
    /\ look.at \in {"profile", "create", "signals"} => ReportClean
    /\ look.at = "signals" => (look.warned /\ SeenCreator # "unknown" => look.excused)
    /\ SafeOnEvidence

SafetyInv == RecordsInv /\ RememberedInv /\ LookInv

LEMMA PassedRules ==
    ASSUME NEW rules, FirstRejection(rules) = "pass"
    PROVE  \A i \in DOMAIN rules : ~ rules[i].rejects
<1> DEFINE rejecting == {i \in DOMAIN rules : rules[i].rejects}
<1>1. rejecting = {}
  <2> HIDE DEF rejecting
  <2> QED BY DEF FirstRejection, rejecting
<1> QED BY <1>1

\* A balance that passes either set of rules leaves the report clean.
LEMMA PassedReport ==
    ASSUME NEW balance, FirstRejection(RulesOf(balance)) = "pass"
    PROVE  /\ SeenSpread = "fine" /\ SeenLp # "open" /\ SeenDanger = "none"
           /\ SeenLp = "none" => nature.pump # "no"
           /\ balance # "holds"
<1> DEFINE b1 == RequireDevZero /\ balance # "empty"
           b2 == SeenSpread # "fine" \/ look.pool # "out"
           b3 == SeenLp = "none" /\ nature.pump # "mint"
           c3 == SeenLp = "none" /\ nature.pump = "no"
           b4 == SeenLp = "open"
           b5 == SeenDanger # "none"
           b6 == balance = "holds"
<1>1. /\ b1 \in BOOLEAN /\ b2 \in BOOLEAN /\ b3 \in BOOLEAN /\ c3 \in BOOLEAN
      /\ b4 \in BOOLEAN /\ b5 \in BOOLEAN /\ b6 \in BOOLEAN
  OBVIOUS
<1> DEFINE rules == RulesOf(balance)
<1>2. PICK p \in BOOLEAN, b \in {b3, c3} :
        rules = << Rule(b1, p), Rule(b2, p), Rule(b, FALSE),
                   Rule(b4, p), Rule(b5, p), Rule(b6, p) >>
  <2>1. CASE Standard
    <3>1. rules = << Rule(b1, TRUE), Rule(b2, TRUE), Rule(b3, FALSE),
                     Rule(b4, TRUE), Rule(b5, TRUE), Rule(b6, TRUE) >>
      BY <2>1, Zenon DEF RulesOf, ReportRules
    <3> HIDE DEF rules, b1, b2, b3, c3, b4, b5, b6
    <3> QED BY <3>1
  <2>2. CASE ~ Standard
    <3>1. rules = << Rule(b1, FALSE), Rule(b2, FALSE), Rule(c3, FALSE),
                     Rule(b4, FALSE), Rule(b5, FALSE), Rule(b6, FALSE) >>
      BY <2>2, Zenon DEF RulesOf, EstablishedReportRules
    <3> HIDE DEF rules, b1, b2, b3, c3, b4, b5, b6
    <3> QED BY <3>1
  <2> QED BY <2>1, <2>2
<1>3. \A i \in DOMAIN rules : ~ rules[i].rejects BY PassedRules
<1>4. ~ b2 /\ ~ b /\ ~ b4 /\ ~ b5 /\ ~ b6
  <2> HIDE DEF rules, b1, b2, b3, c3, b4, b5, b6
  <2>1. DOMAIN rules = 1 .. 6 BY <1>2
  <2>2. \A i \in 1 .. 6 : ~ rules[i].rejects BY <1>3, <2>1
  <2>3. /\ rules[2].rejects = b2 /\ rules[3].rejects = b /\ rules[4].rejects = b4
        /\ rules[5].rejects = b5 /\ rules[6].rejects = b6
    BY <1>2 DEF Rule
  <2>4. ~ rules[2].rejects /\ ~ rules[3].rejects /\ ~ rules[4].rejects
        /\ ~ rules[5].rejects /\ ~ rules[6].rejects
    BY <2>2
  <2>5. b \in BOOLEAN BY <1>1, <1>2
  <2> QED BY <1>1, <2>3, <2>4, <2>5
<1>5. SeenLp = "none" => nature.pump # "no"
  <2>1. ~ b3 \/ ~ c3
    <3> HIDE DEF b3, c3
    <3> QED BY <1>1, <1>2, <1>4
  <2> QED BY <2>1
<1> QED BY <1>4, <1>5

(***************************************************************************)
(* Steps of a look.                                                        *)
(***************************************************************************)
SameNotes ==
    /\ DOMAIN look' = DOMAIN look /\ look'.road = look.road
    /\ look'.warned = look.warned /\ look'.stopped = look.stopped

\* The report that was read stays the same.
SameReport ==
    look'.held = look.held /\ look'.pool = look.pool /\ look'.aged = look.aged

\* What it shows of the same token is the same.
LEMMA SeenAgain ==
    ASSUME SameReport, UNCHANGED nature
    PROVE  /\ SeenSpread' = SeenSpread /\ SeenLp' = SeenLp /\ SeenDanger' = SeenDanger
           /\ SeenCreator' = SeenCreator /\ ReportClean' = ReportClean
           /\ ShownFault' = ShownFault /\ Shows("markets")' = Shows("markets")
           /\ Shows("creator")' = Shows("creator")
<1>1. /\ SeenSpread' = SeenSpread /\ SeenLp' = SeenLp /\ SeenDanger' = SeenDanger
      /\ SeenCreator' = SeenCreator
  BY DEF SameReport, SeenSpread, SeenLp, SeenDanger, SeenCreator, Shows
<1> QED BY <1>1 DEF SameReport, ReportClean, ShownFault, Shows

LEMMA LookGoesOn ==
    ASSUME LookInv, NEW place, LookAt(place)
    PROVE  /\ SameNotes /\ look'.at = place /\ look'.outcome = look.outcome
           /\ look'.excused = look.excused
           /\ SameReport
BY DEF LookInv, LookAt, SameNotes, SameReport, NoLook

LEMMA LookReturns ==
    ASSUME LookInv, NEW outcome, Return(outcome)
    PROVE  /\ SameNotes /\ look'.at = "done" /\ look'.outcome = outcome
           /\ look'.excused = look.excused
           /\ SameReport
BY DEF LookInv, Return, SameNotes, SameReport, NoLook

\* A rejection is never a word for safety.
LEMMA RejectionIsNotSafety ==
    ASSUME NEW rules PROVE FirstRejection(rules) # "safe"
BY DEF FirstRejection

\* A look that is over and not safe has nothing to show.
LEMMA OverWithoutSafety ==
    ASSUME LookInv, UNCHANGED nature, SameNotes, look'.at = "done", look'.outcome # "safe"
    PROVE  LookInv'
BY DEF LookInv, SameNotes, Probed, Inspecting, SafeOnEvidence

\* The look goes on to a place that asks nothing new of the token.
LEMMA OnTheWay ==
    ASSUME LookInv, UNCHANGED nature, SameNotes, look.at # "done",
           look'.outcome = "none", look'.at \in {"probe", "market", "mint", "rugcheck",
                                                 "report", "balance"},
           Probed' => ~ look.stopped, look'.at \in Inspecting => nature.mint
    PROVE  LookInv'
<1>1. DOMAIN look' = DOMAIN NoLook BY DEF LookInv, SameNotes
<1>2. Probed' => ~ look'.stopped BY DEF SameNotes
<1>3. look'.at # "done" /\ look'.at \notin {"profile", "create", "signals"} OBVIOUS
<1>4. SafeOnEvidence' BY DEF SafeOnEvidence
<1> QED BY <1>1, <1>2, <1>3, <1>4 DEF LookInv, Inspecting

\* The look goes on to a place that presumes a clean report.
LEMMA PastTheReport ==
    ASSUME LookInv, UNCHANGED nature, SameReport, SameNotes, look.at \in Inspecting,
           look'.outcome = "none", look'.at \in {"profile", "create", "signals"},
           ReportClean,
           look'.at = "signals" => (look.warned /\ SeenCreator # "unknown" => look'.excused)
    PROVE  LookInv'
<1>1. DOMAIN look' = DOMAIN NoLook BY DEF LookInv, SameNotes
<1>2. ~ look.stopped /\ nature.mint BY DEF LookInv, Probed
<1>3. (Probed => ~ look.stopped)' BY <1>2 DEF SameNotes
<1>4. (look.at \in Inspecting => nature.mint)' BY <1>2
<1>5. ReportClean' BY SeenAgain
<1>6. (look.at = "signals" => (look.warned /\ SeenCreator # "unknown" => look.excused))'
  BY SeenAgain DEF SameNotes
<1>7. SafeOnEvidence' BY DEF SafeOnEvidence
<1>8. (look.at # "done" => look.outcome = "none")' OBVIOUS
<1> QED BY <1>1, <1>3, <1>4, <1>5, <1>6, <1>7, <1>8 DEF LookInv

LEMMA BeginKeeps ==
    ASSUME SafetyInv, NEW road \in {"standard", "established"}, BeginLook(road)
    PROVE  LookInv' /\ RememberedInv'
<1>1. /\ look'.road = road /\ look'.outcome = "none" /\ DOMAIN look' = DOMAIN NoLook
      /\ look'.at = IF road = "standard" THEN "market" ELSE "probe"
      /\ look'.warned = profile.listed /\ look'.stopped = blocked
  BY DEF BeginLook, NoLook
<1>2. UNCHANGED <<blocked, profile>> BY DEF BeginLook, Sources
<1>3. RememberedInv' BY <1>1, <1>2 DEF RememberedInv
<1>4. ~ Probed' BY <1>1 DEF Probed, Inspecting, Standard
<1>5. SafeOnEvidence' BY <1>1 DEF SafeOnEvidence
<1>6. look'.at \notin Inspecting \union {"done"} BY <1>1 DEF Inspecting
<1> QED BY <1>1, <1>3, <1>4, <1>5, <1>6 DEF LookInv, Inspecting

\* The market and the row of the probe.
LEMMA MarketKeeps ==
    ASSUME LookInv, RememberedInv, AskMarket \/ AskProbe
    PROVE  LookInv' /\ SameNotes
<1>1. UNCHANGED <<nature, blocked>> BY DEF AskMarket, AskProbe, Sources
<1>2. CASE AskMarket /\ Standard
  <2>1. PICK market \in Markets :
          look' = [look EXCEPT !.at = IF Traction(market) = "pass" THEN "probe" ELSE "done",
                               !.outcome = IF Traction(market) = "pass" THEN "none"
                                           ELSE Traction(market),
                               !.evidence = Dead(market)]
    BY <1>2 DEF AskMarket
  <2>2. SameNotes BY <2>1 DEF LookInv, SameNotes, NoLook
  <2>3. Traction(market) # "safe" BY RejectionIsNotSafety DEF Traction
  <2>4. \/ look'.at = "probe" /\ look'.outcome = "none"
        \/ look'.at = "done" /\ look'.outcome # "safe"
    BY <2>1, <2>3 DEF LookInv, NoLook
  <2>5. look.at # "done" BY <1>2 DEF AskMarket, LookingAt
  <2>6. CASE look'.at = "probe" /\ look'.outcome = "none"
    <3>1. ~ Probed' /\ look'.at \notin Inspecting BY <2>6 DEF Probed, Inspecting
    <3> QED BY <1>1, <2>2, <2>5, <2>6, <3>1, OnTheWay
  <2> QED BY <1>1, <2>2, <2>4, <2>6, OverWithoutSafety
<1>3. CASE AskMarket /\ ~ Standard
  <2>1. look.at = "market" /\ ~ look.stopped /\ look.outcome = "none"
    BY <1>3 DEF AskMarket, LookingAt, LookInv, Probed
  <2>2. PICK market \in Markets :
          Unless(FirstRejection(EstablishedMarketRules(market)), "mint")
    BY <1>3 DEF AskMarket
  <2>3. CASE LookAt("mint")
    <3>1. SameNotes /\ look'.at = "mint" /\ look'.outcome = "none"
      BY <2>1, <2>3, LookGoesOn
    <3> QED BY <1>1, <2>1, <3>1, OnTheWay DEF Inspecting
  <2>4. CASE Return(FirstRejection(EstablishedMarketRules(market)))
    BY <1>1, <2>4, LookReturns, RejectionIsNotSafety, OverWithoutSafety
  <2> QED BY <2>2, <2>3, <2>4 DEF Unless
<1>4. CASE AskProbe
  <2>1. look.at = "probe" /\ look.outcome = "none" BY <1>4 DEF AskProbe, LookingAt, LookInv
  <2>2. CASE blocked
    <3>1. Return("never") \/ Return("retry") BY <1>4, <2>2 DEF AskProbe
    <3> QED BY <1>1, <3>1, LookReturns, OverWithoutSafety
  <2>3. CASE ~ blocked
    <3>1. LookAt("mint") \/ LookAt("market") BY <1>4, <2>3 DEF AskProbe
    <3>2. /\ SameNotes /\ look'.outcome = "none"
          /\ look'.at = "mint" \/ look'.at = "market"
      BY <2>1, <3>1, LookGoesOn
    <3>3. ~ look.stopped BY <2>3 DEF RememberedInv
    <3> QED BY <1>1, <2>1, <3>2, <3>3, OnTheWay DEF Inspecting
  <2> QED BY <2>2, <2>3
<1> QED BY <1>2, <1>3, <1>4

\* Only a young pair has a pool without a label.
LEMMA PoolReadingsRange ==
    ASSUME NEW sections, NEW pool \in PoolReadings(sections)
    PROVE  pool \in {"out", "counted", "whale"} /\ (pool = "whale" => age <= 1)
<1>1. CASE "holders" \in sections /\ age <= 1 BY <1>1 DEF PoolReadings
<1>2. CASE ~ ("holders" \in sections /\ age <= 1)
  <2>1. PoolReadings(sections) = {"out"} BY <1>2 DEF PoolReadings
  <2> QED BY <2>1
<1> QED BY <1>1, <1>2

\* The mint and the way to the report.
LEMMA MintKeeps ==
    ASSUME LookInv, AskMint \/ MintFails \/ AskRugCheck
    PROVE  LookInv' /\ SameNotes
<1>1. UNCHANGED nature BY DEF AskMint, MintFails, AskRugCheck, Sources
<1>2. /\ look.at \in {"mint", "rugcheck"} /\ look.outcome = "none" /\ ~ look.stopped
      /\ look.at = "rugcheck" => nature.mint
  BY DEF AskMint, MintFails, AskRugCheck, LookingAt, LookInv, Probed, Inspecting
<1>3. CASE Return("never") \/ Return("retry")
  BY <1>1, <1>3, LookReturns, OverWithoutSafety
<1>4. CASE AskMint /\ LookAt("rugcheck") /\ nature.mint
  <2>1. SameNotes /\ look'.at = "rugcheck" /\ look'.outcome = "none"
    BY <1>2, <1>4, LookGoesOn
  <2> QED BY <1>1, <1>2, <1>4, <2>1, OnTheWay
<1>5. CASE MintFails /\ look' = [look EXCEPT !.attempt = @ + 1]
  <2>1. SameNotes /\ look'.at = "mint" /\ look'.outcome = "none"
    BY <1>2, <1>5 DEF MintFails, LookingAt, LookInv, SameNotes, NoLook
  <2> QED BY <1>1, <1>2, <2>1, OnTheWay DEF Inspecting
<1>6. CASE AskRugCheck
  <2>1. look.at = "rugcheck" /\ \E sections \in Reports : \E pool \in PoolReadings(sections) :
          look' = [look EXCEPT !.at = "report", !.aged = age, !.held = sections, !.pool = pool]
    BY <1>6 DEF AskRugCheck, LookingAt
  <2>2. SameNotes /\ look'.at = "report" /\ look'.outcome = "none"
    BY <1>2, <2>1 DEF LookInv, SameNotes, NoLook
  <2> QED BY <1>1, <1>2, <2>1, <2>2, OnTheWay
<1>7. \/ Return("never") \/ Return("retry")
      \/ AskMint /\ LookAt("rugcheck") /\ nature.mint
      \/ MintFails /\ look' = [look EXCEPT !.attempt = @ + 1]
      \/ AskRugCheck
  BY DEF AskMint, MintFails, Unread
<1> QED BY <1>3, <1>4, <1>5, <1>6, <1>7

\* The report and the balance of the creator.
LEMMA ReportKeeps ==
    ASSUME SafetyInv, ReadReport \/ ReportFails \/ AskBalance \/ BalanceFails
    PROVE  LookInv' /\ SameNotes
<1> USE DEF SafetyInv
<1>1. UNCHANGED nature BY DEF ReadReport, ReportFails, AskBalance, BalanceFails, Sources
<1>2. /\ look.at \in {"report", "balance"} /\ look.outcome = "none" /\ ~ look.stopped
      /\ nature.mint /\ look.at \in Inspecting
  BY DEF ReadReport, ReportFails, AskBalance, BalanceFails, LookingAt, LookInv,
         Probed, Inspecting
<1>3. ASSUME NEW outcome, outcome # "safe", Return(outcome) PROVE LookInv' /\ SameNotes
  BY <1>1, <1>3, LookReturns, OverWithoutSafety
<1>4. CASE LookAt("balance")
  <2>1. SameNotes /\ look'.at = "balance" /\ look'.outcome = "none"
    BY <1>2, <1>4, LookGoesOn
  <2> QED BY <1>1, <1>2, <2>1, OnTheWay
<1>5. CASE SeenCreator = "unknown" /\ FirstRejection(RulesOf("unknown")) = "pass"
           /\ LookAt("signals")
  <2>1. SameReport /\ SameNotes /\ look'.at = "signals" /\ look'.outcome = "none"
    BY <1>2, <1>5, LookGoesOn
  <2>2. ReportClean BY <1>5, PassedReport DEF ReportClean
  <2> QED BY <1>1, <1>2, <1>5, <2>1, <2>2, PastTheReport
<1>6. CASE FirstRejection(RulesOf(SeenCreator)) = "pass" /\ LookAt("profile")
  <2>1. SameReport /\ SameNotes /\ look'.at = "profile" /\ look'.outcome = "none"
    BY <1>2, <1>6, LookGoesOn
  <2>2. ReportClean BY <1>6, PassedReport DEF ReportClean
  <2> QED BY <1>1, <1>2, <2>1, <2>2, PastTheReport
<1>7. CASE BalanceFails /\ look' = [look EXCEPT !.attempt = @ + 1]
  <2>1. SameNotes /\ look'.at = look.at /\ look'.outcome = "none"
    BY <1>2, <1>7 DEF LookInv, SameNotes, NoLook
  <2>2. look'.at \in {"report", "balance"} BY <1>2, <2>1
  <2> QED BY <1>1, <1>2, <2>1, <2>2, OnTheWay
<1>8. CASE ReadReport
  <2>1. PICK decided : \/ decided # "safe" /\ Return(decided)
                    \/ LookAt("balance")
                    \/ /\ SeenCreator = "unknown"
                       /\ Unless(FirstRejection(RulesOf("unknown")), "signals")
    BY <1>8, RejectionIsNotSafety DEF ReadReport
  <2>2. CASE Unless(FirstRejection(RulesOf("unknown")), "signals") /\ SeenCreator = "unknown"
    BY <2>2, <1>3, <1>5, RejectionIsNotSafety DEF Unless
  <2> QED BY <2>1, <2>2, <1>3, <1>4
<1>9. CASE AskBalance
  <2>1. Unless(FirstRejection(RulesOf(SeenCreator)), "profile") BY <1>9 DEF AskBalance
  <2> QED BY <2>1, <1>3, <1>6, RejectionIsNotSafety DEF Unless
<1>10. CASE ReportFails \/ BalanceFails
  <2>1. \/ Return("retry")
        \/ BalanceFails /\ look' = [look EXCEPT !.attempt = @ + 1]
    BY <1>10 DEF ReportFails, BalanceFails, NoBalance
  <2> QED BY <2>1, <1>3, <1>7
<1> QED BY <1>8, <1>9, <1>10

\* The profile of the creator.
LEMMA ProfileKeeps ==
    ASSUME SafetyInv, ReadProfile \/ CreateProfile \/ ProfileFails
    PROVE  LookInv' /\ SameNotes
<1> USE DEF SafetyInv
<1>1. UNCHANGED nature BY DEF ReadProfile, CreateProfile, ProfileFails, Sources
<1>2. /\ look.at \in {"profile", "create"} /\ look.at \in Inspecting
      /\ look.outcome = "none" /\ ReportClean
  BY DEF ReadProfile, CreateProfile, ProfileFails, LookingAt, LookInv, Inspecting
<1>3. CASE Return("never") \/ Return("retry")
  BY <1>1, <1>3, LookReturns, OverWithoutSafety
<1>4. CASE LookAt("create")
  <2>1. SameReport /\ SameNotes /\ look'.at = "create" /\ look'.outcome = "none"
    BY <1>2, <1>4, LookGoesOn
  <2> QED BY <1>1, <1>2, <2>1, PastTheReport
<1>5. CASE LookAt("signals") /\ ~ profile.listed
  <2>1. SameReport /\ SameNotes /\ look'.at = "signals" /\ look'.outcome = "none"
    BY <1>2, <1>5, LookGoesOn
  <2>2. ~ look.warned BY <1>5 DEF RememberedInv
  <2> QED BY <1>1, <1>2, <2>1, <2>2, PastTheReport
<1>6. CASE ProfileFails
  <2>1. look' = [look EXCEPT !.at = "signals", !.attempt = 0, !.excused = TRUE]
    BY <1>6 DEF ProfileFails
  <2>2. /\ SameReport /\ SameNotes /\ look'.at = "signals" /\ look'.outcome = "none"
        /\ look'.excused
    BY <1>2, <2>1 DEF LookInv, SameNotes, SameReport, NoLook
  <2> QED BY <1>1, <1>2, <2>2, PastTheReport
<1>7. \/ Return("never") \/ Return("retry") \/ LookAt("create")
      \/ LookAt("signals") /\ ~ profile.listed
      \/ ProfileFails
  <2>1. ASSUME ReadProfile
        PROVE  \/ Return("never") \/ Return("retry") \/ LookAt("create")
               \/ LookAt("signals") /\ ~ profile.listed
    BY <2>1 DEF ReadProfile, HighRisk
  <2>2. ASSUME CreateProfile PROVE LookAt("signals") /\ ~ profile.listed
    BY <2>2 DEF CreateProfile, RecordsInv
  <2> QED BY <2>1, <2>2
<1> QED BY <1>3, <1>4, <1>5, <1>6, <1>7

\* The verdict.
LEMMA VerdictKeeps ==
    ASSUME SafetyInv, Signals \/ LookThrows
    PROVE  LookInv' /\ SameNotes
<1> USE DEF SafetyInv
<1>1. UNCHANGED nature BY DEF Signals, LookThrows, Sources
<1>2. CASE Return("retry") BY <1>1, <1>2, LookReturns, OverWithoutSafety
<1>3. CASE Signals /\ Return("safe")
  <2>1. look.at = "signals" /\ look.at \in Inspecting
    BY <1>3 DEF Signals, LookingAt, Inspecting
  <2>2. /\ nature.mint /\ ReportClean /\ ~ look.stopped
        /\ look.warned /\ SeenCreator # "unknown" => look.excused
    BY <2>1 DEF LookInv, Probed
  <2>3. SameReport /\ SameNotes /\ look'.at = "done" /\ look'.excused = look.excused
    BY <1>3, LookReturns
  <2>4. ~ ShownFault
    BY <2>2 DEF ShownFault, ReportClean, SeenSpread, SeenLp, SeenDanger, SeenCreator, Shows
  <2>5. ~ Shows("markets") \/ nature.lp = "none" => nature.pump # "no"
    BY <2>2 DEF ReportClean, SeenLp
  <2>6. Shows("creator") /\ look.warned => look.excused
    <3>1. Shows("creator") /\ SeenCreator = "unknown" => ~ look.warned
      BY DEF SeenCreator, RecordsInv, RememberedInv
    <3> QED BY <2>2, <3>1
  <2>7. SafeOnEvidence'
    BY <1>1, <2>2, <2>3, <2>4, <2>5, <2>6, SeenAgain DEF SafeOnEvidence, SameNotes
  <2>8. ~ Probed' /\ look'.at \notin Inspecting BY <2>3 DEF Probed, Inspecting
  <2> QED BY <2>3, <2>7, <2>8 DEF LookInv, SameNotes, Inspecting
<1> QED BY <1>2, <1>3 DEF Signals, LookThrows

(***************************************************************************)
(* The records.                                                            *)
(***************************************************************************)
LEMMA RecordsStep ==
    ASSUME RecordsInv, [GateNext]_gateVars
    PROVE  RecordsInv' /\ (blocked => blocked') /\ (profile.listed => profile'.listed)
<1>1. CASE UNCHANGED <<nature, blocked, profile, penalty>> BY <1>1 DEF RecordsInv
<1>2. CASE CreateProfile
  <2>1. /\ profile' = [rugged |-> 0, listed |-> FALSE, known |-> TRUE]
        /\ UNCHANGED <<nature, blocked, penalty>> /\ ~ profile.known
    BY <1>2 DEF CreateProfile
  <2> QED BY <2>1 DEF RecordsInv
<1>3. CASE ProbeBlocks BY <1>3 DEF ProbeBlocks, RecordsInv
<1>4. ASSUME NEW p \in Penalties, ReadForPenalty(p) PROVE UNCHANGED <<blocked, profile>> /\ RecordsInv'
  <2>1. /\ nature.dev # "unknown" /\ UNCHANGED <<nature, blocked, profile>>
        /\ penalty' = [penalty EXCEPT ![p] = [at |-> "read", count |-> profile.rugged + 1]]
    BY <1>4 DEF ReadForPenalty
  <2> QED BY <2>1 DEF RecordsInv
<1>5. ASSUME NEW p \in Penalties, Penalize(p) \/ PenaltyFails(p)
      PROVE  RecordsInv' /\ UNCHANGED blocked /\ (profile.listed => profile'.listed)
  <2>1. /\ nature.dev # "unknown" /\ UNCHANGED <<nature, blocked>>
        /\ penalty' = [penalty EXCEPT ![p].at = "done"]
        /\ \/ UNCHANGED profile
           \/ profile'.listed = TRUE /\ profile'.known = TRUE
    BY <1>5 DEF Penalize, PenaltyFails, RecordsInv
  <2>2. DOMAIN penalty' = Penalties /\ \A q \in Penalties : DOMAIN penalty'[q] = {"at", "count"}
    BY <2>1 DEF RecordsInv
  <2> QED BY <2>1, <2>2 DEF RecordsInv
<1>6. \/ UNCHANGED <<nature, blocked, profile, penalty>>
      \/ CreateProfile \/ ProbeBlocks
      \/ \E p \in Penalties : ReadForPenalty(p) \/ Penalize(p) \/ PenaltyFails(p)
  BY DEF GateNext, Looking, Around, BeginLook, AskMarket, AskProbe, AskMint, MintFails,
         AskRugCheck, ReadReport, ReportFails, AskBalance, BalanceFails, ReadProfile,
         ProfileFails, Signals, LookThrows, Sources, PairGrowsOlder, gateVars
<1> QED BY <1>1, <1>2, <1>3, <1>4, <1>5, <1>6

LEMMA SafetyStep == SafetyInv /\ [GateNext]_gateVars => SafetyInv'
<1> SUFFICES ASSUME SafetyInv, [GateNext]_gateVars PROVE SafetyInv'
  OBVIOUS
<1>1. RecordsInv' /\ (blocked => blocked') /\ (profile.listed => profile'.listed)
  BY RecordsStep DEF SafetyInv
<1>2. CASE BeginLook("standard") \/ BeginLook("established")
  BY <1>1, <1>2, BeginKeeps DEF SafetyInv
<1>3. CASE LookInv' /\ SameNotes
  <2>1. RememberedInv' BY <1>1, <1>3 DEF SafetyInv, RememberedInv, SameNotes
  <2> QED BY <1>1, <1>3, <2>1 DEF SafetyInv
<1>4. CASE Around \/ UNCHANGED gateVars
  <2>1. UNCHANGED <<look, nature>>
    BY <1>4 DEF Around, PairGrowsOlder, ProbeBlocks, ReadForPenalty, Penalize,
                PenaltyFails, gateVars
  <2>2. LookInv'
    <3>1. SameReport BY <2>1 DEF SameReport
    <3> QED BY <2>1, <3>1, SeenAgain DEF SafetyInv, LookInv, Probed, Standard, SafeOnEvidence
  <2> QED BY <1>3, <2>1, <2>2 DEF SameNotes
<1>5. CASE Looking
  BY <1>2, <1>3, <1>5, MarketKeeps, MintKeeps, ReportKeeps, ProfileKeeps, VerdictKeeps
     DEF Looking, SafetyInv
<1> QED BY <1>4, <1>5 DEF GateNext

LEMMA SafetyAtFirst == GateInit => SafetyInv
<1> SUFFICES ASSUME GateInit PROVE SafetyInv
  OBVIOUS
<1>1. /\ look = NoLook /\ profile.listed = FALSE
      /\ penalty = [p \in Penalties |-> [at |-> "idle", count |-> 0]]
  BY DEF GateInit
<1>2. RecordsInv BY <1>1 DEF RecordsInv
<1>3. RememberedInv /\ LookInv
  BY <1>1 DEF RememberedInv, LookInv, NoLook, Probed, Inspecting, SafeOnEvidence
<1> QED BY <1>2, <1>3 DEF SafetyInv

\* A token is called safe only if nothing that was read speaks against it: its
\* mint and the sections of its report show no fault, its liquidity is locked or
\* it is a token of pump.fun, and what was on record when the look began was
\* heeded (isTokenSafeToBuy, analyzeAndExecuteRebound), for every token, every
\* report, however partial, and whichever sources fail.
THEOREM SafetyNeedsEvidence == GateSpec => []SafeOnEvidence
<1>1. SafetyInv => SafeOnEvidence BY DEF SafetyInv, LookInv
<1> QED BY <1>1, SafetyAtFirst, SafetyStep, PTL DEF GateSpec

(***************************************************************************)
(* Verdicts for good.                                                      *)
(***************************************************************************)
LEMMA FirstOfNine ==
    ASSUME NEW S \in SUBSET (1 .. 9), S # {}
    PROVE  Min(S) \in S
<1>1. \E x \in S : \A y \in S : x <= y
  <2>1. \A x \in S : x \in 1 .. 9 OBVIOUS
  <2>2. CASE 1 \in S BY <2>1, <2>2
  <2>3. CASE 1 \notin S /\ 2 \in S BY <2>1, <2>3
  <2>4. CASE 1 \notin S /\ 2 \notin S /\ 3 \in S BY <2>1, <2>4
  <2>5. CASE 1 \notin S /\ 2 \notin S /\ 3 \notin S
    <3>1. \A x \in S : x \in 4 .. 9 BY <2>1, <2>5
    <3>2. CASE 4 \in S BY <3>1, <3>2
    <3>3. CASE 4 \notin S /\ 5 \in S BY <3>1, <3>3
    <3>4. CASE 4 \notin S /\ 5 \notin S /\ 6 \in S BY <3>1, <3>4
    <3>5. CASE 4 \notin S /\ 5 \notin S /\ 6 \notin S
      <4>1. \A x \in S : x \in 7 .. 9 BY <3>1, <3>5
      <4>2. CASE 7 \in S BY <4>1, <4>2
      <4>3. CASE 7 \notin S /\ 8 \in S BY <4>1, <4>3
      <4>4. CASE 7 \notin S /\ 8 \notin S
        <5>1. PICK x \in S : TRUE OBVIOUS
        <5>2. x = 9 BY <4>1, <4>4, <5>1
        <5> QED BY <4>1, <4>4, <5>2
      <4> QED BY <4>2, <4>3, <4>4
    <3> QED BY <3>2, <3>3, <3>4, <3>5
  <2> QED BY <2>2, <2>3, <2>4, <2>5
<1> QED BY <1>1 DEF Min

\* A verdict for good has a rule that rejects for good.
LEMMA FinalRule ==
    ASSUME NEW rules, DOMAIN rules \in SUBSET (1 .. 9), FirstRejection(rules) = "never"
    PROVE  \E i \in DOMAIN rules : rules[i].rejects /\ rules[i].permanent
<1> DEFINE rejecting == {i \in DOMAIN rules : rules[i].rejects}
<1>1. rejecting # {} /\ rules[Min(rejecting)].permanent
  <2>1. FirstRejection(rules) = IF rejecting = {} THEN "pass"
                                ELSE IF rules[Min(rejecting)].permanent THEN "never" ELSE "retry"
    BY DEF FirstRejection
  <2> HIDE DEF rejecting
  <2> QED BY <2>1
<1>2. rejecting \subseteq DOMAIN rules /\ rejecting \in SUBSET (1 .. 9) OBVIOUS
<1>3. Min(rejecting) \in rejecting
  <2> HIDE DEF rejecting
  <2> QED BY <1>1, <1>2, FirstOfNine
<1> QED BY <1>1, <1>3

LEMMA FourTwoThree ==
    ASSUME NEW R, NEW s \in Seq(R), NEW t \in Seq(R), NEW u \in Seq(R),
           Len(s) = 4, Len(t) = 2, Len(u) = 3
    PROVE  /\ DOMAIN ((s \o t) \o u) = 1 .. 9
           /\ \A i \in 1 .. 9 : ((s \o t) \o u)[i] \in R
<1>1. s \o t \in Seq(R) BY ConcatProperties
<1>2. Len(s \o t) = Len(s) + Len(t) BY ConcatProperties
<1>3. Len(s \o t) = 6 BY <1>2
<1>4. (s \o t) \o u \in Seq(R) BY <1>1, ConcatProperties
<1>5. Len((s \o t) \o u) = Len(s \o t) + Len(u) BY <1>1, ConcatProperties
<1>6. Len((s \o t) \o u) = 9 BY <1>3, <1>5
<1> QED BY <1>4, <1>6, LenProperties

\* Nine rules of the market, of which four can be final.
LEMMA DeadMarket ==
    ASSUME NEW market \in Markets, age \in Nat, Traction(market) = "never"
    PROVE  Dead(market)
<1> DEFINE b1 == ~ market.pair
           b2 == market.liquidity = "dust"
           p2 == AgeOf(market) > 2
           b3 == market.liquidity # "ok" \/ ~ market.active
           b4 == market.cap \in {"low", "high"}
           p4 == market.cap = "high"
           b5 == AgeOf(market) = 0
           b6 == AgeOf(market) > 3
           p6 == AgeOf(market) = 5
           b7 == ~ market.surge
           b8 == market.bearish # "no"
           p8 == market.bearish = "hard"
           b9 == ~ market.flow
           size == << Rule(b1, FALSE), Rule(b2, p2), Rule(b3, FALSE), Rule(b4, p4) >>
           aging == << Rule(b5, FALSE), Rule(b6, p6) >>
           trend == << Rule(b7, FALSE), Rule(b8, p8), Rule(b9, FALSE) >>
           rules == (size \o aging) \o trend
<1>1. /\ b2 \in BOOLEAN /\ p2 \in BOOLEAN /\ p4 \in BOOLEAN /\ p6 \in BOOLEAN /\ p8 \in BOOLEAN
  OBVIOUS
<1>2. FirstRejection(rules) = "never"
  BY Zenon DEF Traction, SizeRules, AgeRules, TrendRules
<1>3. (b2 /\ p2) \/ p4 \/ p6 \/ p8
  <2> HIDE DEF b1, b2, b3, b4, b5, b6, b7, b8, b9, p2, p4, p6, p8
  <2> DEFINE R == { Rule(b1, FALSE), Rule(b2, p2), Rule(b3, FALSE), Rule(b4, p4),
                    Rule(b5, FALSE), Rule(b6, p6), Rule(b7, FALSE), Rule(b8, p8),
                    Rule(b9, FALSE) }
  <2>1. DOMAIN rules = 1 .. 9 /\ \A i \in 1 .. 9 : rules[i] \in R
    <3>1. size \in Seq(R) /\ Len(size) = 4 OBVIOUS
    <3>2. aging \in Seq(R) /\ Len(aging) = 2 OBVIOUS
    <3>3. trend \in Seq(R) /\ Len(trend) = 3 OBVIOUS
    <3> HIDE DEF R, size, aging, trend
    <3> QED BY <3>1, <3>2, <3>3, FourTwoThree
  <2>2. PICK r \in R : r.rejects /\ r.permanent
    <3> HIDE DEF rules, R
    <3> QED BY <1>2, <2>1, FinalRule
  <2>3. r \in {Rule(b2, p2), Rule(b4, p4), Rule(b6, p6), Rule(b8, p8)}
    BY <2>2 DEF Rule
  <2>4. CASE r = Rule(b2, p2)
    <3>1. r.rejects = b2 /\ r.permanent = p2 BY <2>4 DEF Rule
    <3> QED BY <1>1, <2>2, <3>1
  <2>5. ASSUME NEW b, NEW p \in BOOLEAN, r = Rule(b, p) PROVE p
    <3>1. r.permanent = p BY <2>5 DEF Rule
    <3> QED BY <2>2, <3>1
  <2> QED BY <1>1, <2>3, <2>4, <2>5
<1>4. ASSUME market.born PROVE AgeOf(market) = age BY <1>4 DEF AgeOf
<1>5. CASE ~ market.born BY <1>5 DEF Dead
<1>6. CASE market.born
  <2>1. (market.liquidity = "dust" /\ age > 2) \/ market.cap = "high" \/ age = 5
        \/ market.bearish = "hard"
    BY <1>3, <1>4, <1>6
  <2> QED BY <2>1 DEF Dead
<1> QED BY <1>5, <1>6

\* A report that condemns for good has found a fault, or a creator whose
\* balance nobody can read where that is demanded.
LEMMA FatalReport ==
    ASSUME NEW balance, FirstRejection(RulesOf(balance)) = "never"
    PROVE  /\ Standard
           /\ \/ RequireDevZero /\ balance # "empty"
              \/ SeenSpread # "fine" \/ look.pool # "out" \/ SeenLp = "open"
              \/ SeenDanger # "none" \/ balance = "holds"
<1> DEFINE b1 == RequireDevZero /\ balance # "empty"
           b2 == SeenSpread # "fine" \/ look.pool # "out"
           b3 == SeenLp = "none" /\ nature.pump # "mint"
           b4 == SeenLp = "open"
           b5 == SeenDanger # "none"
           b6 == balance = "holds"
           c3 == SeenLp = "none" /\ nature.pump = "no"
           rules == RulesOf(balance)
<1>1. /\ b1 \in BOOLEAN /\ b2 \in BOOLEAN /\ b4 \in BOOLEAN /\ b5 \in BOOLEAN /\ b6 \in BOOLEAN
  OBVIOUS
<1>2. PICK p \in BOOLEAN, b \in {b3, c3} :
        /\ rules = << Rule(b1, p), Rule(b2, p), Rule(b, FALSE),
                      Rule(b4, p), Rule(b5, p), Rule(b6, p) >>
        /\ p => Standard
  <2>1. CASE Standard
    <3>1. rules = << Rule(b1, TRUE), Rule(b2, TRUE), Rule(b3, FALSE),
                     Rule(b4, TRUE), Rule(b5, TRUE), Rule(b6, TRUE) >>
      BY <2>1, Zenon DEF RulesOf, ReportRules
    <3> HIDE DEF rules, b1, b2, b3, c3, b4, b5, b6
    <3> QED BY <2>1, <3>1
  <2>2. CASE ~ Standard
    <3>1. rules = << Rule(b1, FALSE), Rule(b2, FALSE), Rule(c3, FALSE),
                     Rule(b4, FALSE), Rule(b5, FALSE), Rule(b6, FALSE) >>
      BY <2>2, Zenon DEF RulesOf, EstablishedReportRules
    <3> HIDE DEF rules, b1, b2, b3, c3, b4, b5, b6
    <3> QED BY <3>1
  <2> QED BY <2>1, <2>2
<1>3. Standard /\ (b1 \/ b2 \/ b4 \/ b5 \/ b6)
  <2> HIDE DEF rules, b1, b2, b3, c3, b4, b5, b6
  <2>1. DOMAIN rules = 1 .. 6 BY <1>2
  <2>2. FirstRejection(rules) = "never" BY DEF rules
  <2>3. PICK i \in 1 .. 6 : rules[i].rejects /\ rules[i].permanent
    BY <2>1, <2>2, FinalRule
  <2>4. rules[3].permanent = FALSE BY <1>2 DEF Rule
  <2>5. /\ rules[1].rejects = b1 /\ rules[2].rejects = b2 /\ rules[4].rejects = b4
        /\ rules[5].rejects = b5 /\ rules[6].rejects = b6
    BY <1>2 DEF Rule
  <2>6. i \in {1, 2, 4, 5, 6} BY <2>3, <2>4
  <2>7. /\ rules[1].permanent = p /\ rules[2].permanent = p /\ rules[4].permanent = p
        /\ rules[5].permanent = p /\ rules[6].permanent = p
    BY <1>2 DEF Rule
  <2>8. p BY <2>3, <2>6, <2>7
  <2> QED BY <1>1, <1>2, <2>3, <2>5, <2>6, <2>8
<1> QED BY <1>3

\* So has a table of holders that has settled.
LEMMA FatalHolders ==
    /\ FirstRejection(HolderRules) = "never" => Concentrated /\ HoldersSettled(look.aged)
    /\ FirstRejection(HolderRules) = "pass" => ~ Concentrated
<1> DEFINE b == Concentrated
           p == HoldersSettled(look.aged)
           rules == HolderRules
<1>1. b \in BOOLEAN /\ p \in BOOLEAN BY DEF Concentrated, HoldersSettled
<1>2. rules = << Rule(b, p) >> BY Zenon DEF HolderRules
<1> HIDE DEF b, p, rules
<1>3. DOMAIN rules = {1} BY <1>2
<1>4. rules[1].rejects = b /\ rules[1].permanent = p BY <1>2 DEF Rule
<1>5. ASSUME FirstRejection(rules) = "never" PROVE b /\ p
  <2>1. rules[1].rejects /\ rules[1].permanent BY <1>3, <1>5, FinalRule
  <2> QED BY <1>1, <1>4, <2>1
<1>6. ASSUME FirstRejection(rules) = "pass" PROVE ~ b
  BY <1>1, <1>3, <1>4, <1>6, PassedRules
<1> QED BY <1>5, <1>6 DEF b, p, rules

\* The rules of an established token's market never condemn.
LEMMA NeverForGood ==
    ASSUME NEW market
    PROVE  FirstRejection(EstablishedMarketRules(market)) # "never"
<1> DEFINE b1 == ~ market.pair
           b2 == AgeOf(market) \notin EstablishedAges
           b3 == market.liquidity \in {"dust", "low"}
           b4 == market.cap \in {"big", "high"}
           b5 == ~ market.rebound
           rules == EstablishedMarketRules(market)
<1>1. rules = << Rule(b1, FALSE), Rule(b2, FALSE), Rule(b3, FALSE), Rule(b4, FALSE),
                 Rule(b5, FALSE) >>
  BY Zenon DEF EstablishedMarketRules
<1> HIDE DEF b1, b2, b3, b4, b5, rules
<1>2. DOMAIN rules = 1 .. 5 BY <1>1
<1>3. /\ rules[1].permanent = FALSE /\ rules[2].permanent = FALSE
      /\ rules[3].permanent = FALSE /\ rules[4].permanent = FALSE
      /\ rules[5].permanent = FALSE
  BY <1>1 DEF Rule
<1>4. \A i \in 1 .. 5 : ~ rules[i].permanent BY <1>3
<1>5. FirstRejection(rules) # "never" BY <1>2, <1>4, FinalRule
<1> QED BY <1>5 DEF rules

\* What justifies a verdict for good that is about to be given.
Damning ==
    \/ ShownFault \/ blocked \/ HighRisk
    \/ RequireDevZero /\ SeenCreator = "unknown"
    \/ look.pool = "counted"

\* A pool reads as a whale only in a table that has not settled, a balance is
\* asked of a creator the report names, and only a blacklisted creator has rugged
\* tokens.
CondemnInv ==
    /\ age \in Nat /\ nature \in Natures
    /\ look.pool \in {"out", "counted", "whale"}
    /\ look.pool = "whale" => ~ HoldersSettled(look.aged)
    /\ look.at = "balance" =>
         SeenCreator # "unknown" /\ (look.pool = "whale" => ~ Standard)
    /\ profile.rugged > 0 => profile.listed
    /\ CondemnedOnEvidence

\* Every step of a look either goes on without a verdict, or returns one that
\* is not for good, or has the evidence.
LEMMA CondemnKept ==
    ASSUME CondemnInv, UNCHANGED <<age, nature, blocked>>,
           UNCHANGED profile, SameNotes, SameReport,
           look'.at # "balance" \/ (SeenCreator # "unknown" /\ (look.pool = "whale" => ~ Standard)),
           look'.outcome # "never" \/ look'.evidence \/ Damning
    PROVE  CondemnInv'
<1>1. CondemnedOnEvidence'
  BY SeenAgain DEF CondemnedOnEvidence, Evidence, Damning, HighRisk, SameReport
<1>2. (look.pool = "whale" => ~ HoldersSettled(look.aged))'
  BY DEF CondemnInv, SameReport, HoldersSettled
<1>3. (look.at = "balance" =>
         SeenCreator # "unknown" /\ (look.pool = "whale" => ~ Standard))'
  BY SeenAgain DEF SameReport, SameNotes, Standard
<1> QED BY <1>1, <1>2, <1>3 DEF CondemnInv, SameReport

LEMMA WentOn ==
    ASSUME LookInv, look.at # "done", NEW place, LookAt(place)
    PROVE  look'.at = place /\ look'.outcome = "none" /\ SameNotes /\ SameReport
BY LookGoesOn DEF LookInv

LEMMA CondemnAtFirst ==
    ASSUME SafetyInv, CondemnInv,
           BeginLook("standard") \/ BeginLook("established") \/ AskMarket \/ AskProbe
    PROVE  CondemnInv'
<1> USE DEF SafetyInv
<1>1. UNCHANGED <<age, nature, blocked, profile>>
  BY DEF BeginLook, AskMarket, AskProbe, Sources
<1>2. CASE BeginLook("standard") \/ BeginLook("established")
  <2>1. look'.at \in {"market", "probe"} /\ look'.outcome = "none" /\ look'.pool = "out"
    BY <1>2 DEF BeginLook, NoLook
  <2> QED BY <1>1, <2>1 DEF CondemnInv, CondemnedOnEvidence
<1>3. CASE AskMarket /\ Standard
  <2>1. PICK market \in Markets :
          look' = [look EXCEPT !.at = IF Traction(market) = "pass" THEN "probe" ELSE "done",
                               !.outcome = IF Traction(market) = "pass" THEN "none"
                                           ELSE Traction(market),
                               !.evidence = Dead(market)]
    BY <1>3 DEF AskMarket
  <2>2. /\ look'.at \in {"probe", "done"} /\ look'.evidence = Dead(market)
        /\ look'.outcome = "never" => Traction(market) = "never"
        /\ SameNotes /\ SameReport
    BY <2>1 DEF LookInv, NoLook, SameNotes, SameReport
  <2>3. look'.outcome = "never" => look'.evidence
    <3>1. Dead(market) \in BOOLEAN BY DEF Dead
    <3>2. Traction(market) = "never" => Dead(market) BY DeadMarket DEF CondemnInv
    <3> QED BY <2>2, <3>1, <3>2
  <2> QED BY <1>1, <2>2, <2>3, CondemnKept
<1>4. CASE AskMarket /\ ~ Standard
  <2>1. look.at # "done" BY <1>4 DEF AskMarket, LookingAt
  <2>2. PICK market \in Markets :
          Unless(FirstRejection(EstablishedMarketRules(market)), "mint")
    BY <1>4 DEF AskMarket
  <2>3. CASE LookAt("mint") BY <1>1, <2>1, <2>3, WentOn, CondemnKept
  <2>4. CASE Return(FirstRejection(EstablishedMarketRules(market)))
    <3>1. FirstRejection(EstablishedMarketRules(market)) # "never" BY NeverForGood
    <3>2. look'.at = "done" /\ look'.outcome # "never" /\ SameNotes /\ SameReport
      BY <2>4, <3>1, LookReturns
    <3> QED BY <1>1, <3>2, CondemnKept
  <2> QED BY <2>2, <2>3, <2>4 DEF Unless
<1>5. CASE AskProbe
  <2>1. look.at # "done" BY <1>5 DEF AskProbe, LookingAt
  <2>2. CASE blocked
    <3>1. Return("never") \/ Return("retry") BY <1>5, <2>2 DEF AskProbe
    <3>2. look'.at = "done" /\ SameNotes /\ SameReport BY <3>1, LookReturns
    <3> QED BY <1>1, <2>2, <3>2, CondemnKept DEF Damning
  <2>3. CASE ~ blocked
    <3>1. LookAt("mint") \/ LookAt("market") BY <1>5, <2>3 DEF AskProbe
    <3> QED BY <1>1, <2>1, <3>1, WentOn, CondemnKept
  <2> QED BY <2>2, <2>3
<1> QED BY <1>2, <1>3, <1>4, <1>5

\* A report that condemns shows the evidence.
LEMMA DamningReport ==
    ASSUME CondemnInv, look.pool = "whale" => ~ Standard,
           FirstRejection(RulesOf(SeenCreator)) = "never"
    PROVE  Damning
<1>1. look.pool # "whale" BY FatalReport
<1>2. nature.dev \in {"unknown", "empty", "holds"} BY GateAssumption DEF CondemnInv
<1>3. CASE RequireDevZero /\ SeenCreator # "empty"
  BY <1>2, <1>3 DEF Damning, ShownFault, SeenCreator, Shows
<1>4. CASE look.pool # "out" BY <1>1, <1>4 DEF CondemnInv, Damning
<1>5. CASE SeenSpread # "fine" BY <1>5 DEF Damning, ShownFault, SeenSpread, Shows
<1>6. CASE SeenLp = "open" BY <1>6 DEF Damning, ShownFault, SeenLp, Shows
<1>7. CASE SeenDanger # "none"
  <2>1. nature.danger \in {"none", "score", "honeypot", "listed"} BY GateAssumption DEF CondemnInv
  <2> QED BY <1>7, <2>1 DEF Damning, ShownFault, SeenDanger, Shows
<1>8. CASE SeenCreator = "holds" BY <1>8 DEF Damning, ShownFault, SeenCreator, Shows
<1> QED BY <1>3, <1>4, <1>5, <1>6, <1>7, <1>8, FatalReport

LEMMA CondemnByReport ==
    ASSUME SafetyInv, CondemnInv,
           ReadReport \/ ReportFails \/ AskBalance \/ BalanceFails
    PROVE  CondemnInv'
<1> USE DEF SafetyInv
<1>1. UNCHANGED <<age, nature, blocked, profile>>
  BY DEF ReadReport, ReportFails, AskBalance, BalanceFails, Sources
<1>2. look.at \in {"report", "balance"} /\ look.at # "done"
  BY DEF ReadReport, ReportFails, AskBalance, BalanceFails, LookingAt
<1>3. CASE Return("retry")
  BY <1>1, <1>3, LookReturns, CondemnKept
<1>4. ASSUME NEW outcome, Return(outcome), outcome = "never" => Damning PROVE CondemnInv'
  BY <1>1, <1>4, LookReturns, CondemnKept
<1>5. CASE BalanceFails /\ look' = [look EXCEPT !.attempt = @ + 1]
  <2>1. look.at = "balance" /\ look.outcome = "none"
    BY <1>5 DEF BalanceFails, LookingAt, LookInv
  <2>2. look'.at = "balance" /\ look'.outcome = "none" /\ SameNotes /\ SameReport
    BY <2>1, <1>5 DEF LookInv, NoLook, SameNotes, SameReport
  <2> QED BY <1>1, <2>1, <2>2, CondemnKept DEF CondemnInv
<1>6. CASE ReadReport
  <2>1. PICK table : /\ table = IF Standard THEN FirstRejection(HolderRules) ELSE "pass"
                     /\ IF table # "pass" THEN Return(table)
                        ELSE IF SeenCreator # "unknown" THEN LookAt("balance")
                        ELSE Unless(FirstRejection(RulesOf("unknown")), "signals")
    BY <1>6 DEF ReadReport
  <2>2. table = "pass" /\ Standard => look.pool # "whale"
    BY <2>1, FatalHolders DEF Concentrated
  <2>3. CASE table # "pass" /\ Return(table)
    <3>1. ASSUME table = "never" PROVE Damning
      <4>1. Concentrated /\ HoldersSettled(look.aged) BY <2>1, <3>1, FatalHolders
      <4>2. look.pool # "whale" BY <4>1 DEF CondemnInv
      <4>3. SeenSpread = "whales" \/ SeenDanger \in {"score", "listed"}
        BY <4>1, <4>2 DEF Concentrated
      <4> QED BY <4>3 DEF Damning, ShownFault, SeenSpread, SeenDanger, Shows
    <3> QED BY <2>3, <3>1, <1>4
  <2>4. CASE table = "pass" /\ SeenCreator # "unknown" /\ LookAt("balance")
    BY <1>1, <1>2, <2>2, <2>4, WentOn, CondemnKept
  <2>5. CASE table = "pass" /\ SeenCreator = "unknown"
             /\ Unless(FirstRejection(RulesOf("unknown")), "signals")
    <3>1. CASE LookAt("signals") BY <1>1, <1>2, <3>1, WentOn, CondemnKept
    <3>2. CASE Return(FirstRejection(RulesOf("unknown")))
      <4>1. FirstRejection(RulesOf("unknown")) = "never" => Damning
        BY <2>2, <2>5, DamningReport
      <4> QED BY <3>2, <4>1, <1>4
    <3> QED BY <2>5, <3>1, <3>2 DEF Unless
  <2> QED BY <2>1, <2>3, <2>4, <2>5
<1>7. CASE AskBalance
  <2>1. Unless(FirstRejection(RulesOf(SeenCreator)), "profile") BY <1>7 DEF AskBalance
  <2>2. CASE LookAt("profile") BY <1>1, <1>2, <2>2, WentOn, CondemnKept
  <2>3. CASE Return(FirstRejection(RulesOf(SeenCreator)))
    <3>1. SeenCreator # "unknown" /\ (look.pool = "whale" => ~ Standard)
      BY <1>7 DEF AskBalance, LookingAt, CondemnInv
    <3>2. FirstRejection(RulesOf(SeenCreator)) = "never" => Damning
      BY <3>1, DamningReport
    <3> QED BY <2>3, <3>2, <1>4
  <2> QED BY <2>1, <2>2, <2>3 DEF Unless
<1>8. CASE ReportFails \/ BalanceFails
  <2>1. \/ Return("retry")
        \/ BalanceFails /\ look' = [look EXCEPT !.attempt = @ + 1]
    BY <1>8 DEF ReportFails, BalanceFails, NoBalance
  <2> QED BY <2>1, <1>3, <1>5
<1> QED BY <1>6, <1>7, <1>8

\* The mint: without its safe answer nothing but a mint at fault condemns.
LEMMA CondemnByMint ==
    ASSUME SafetyInv, CondemnInv, AskMint \/ MintFails \/ AskRugCheck
    PROVE  CondemnInv'
<1> USE DEF SafetyInv
<1>1. UNCHANGED <<age, nature, blocked, profile>>
  BY DEF AskMint, MintFails, AskRugCheck, Sources
<1>2. look.at \in {"mint", "rugcheck"} /\ look.outcome = "none"
  BY DEF AskMint, MintFails, AskRugCheck, LookingAt, LookInv
<1>3. CASE Return("retry") BY <1>1, <1>3, LookReturns, CondemnKept
<1>4. CASE AskMint
  <2>1. CASE nature.mint
    <3>1. LookAt("rugcheck") BY <1>4, <2>1 DEF AskMint
    <3> QED BY <1>1, <1>2, <3>1, WentOn, CondemnKept
  <2>2. CASE ~ nature.mint
    <3>1. Return("never") \/ Return("retry") BY <1>4, <2>2 DEF AskMint
    <3>2. look'.at = "done" /\ SameNotes /\ SameReport BY <3>1, LookReturns
    <3> QED BY <1>1, <2>2, <3>2, CondemnKept DEF Damning, ShownFault
  <2> QED BY <2>1, <2>2
<1>5. CASE MintFails /\ look' = [look EXCEPT !.attempt = @ + 1]
  <2>1. look'.at = look.at /\ look'.outcome = "none" /\ SameNotes /\ SameReport
    BY <1>2, <1>5 DEF LookInv, NoLook, SameNotes, SameReport
  <2>2. look'.at \notin {"report", "balance"} BY <1>2, <2>1
  <2> QED BY <1>1, <2>1, <2>2, CondemnKept
<1>6. CASE AskRugCheck
  <2>0. PICK sections \in Reports : \E pool \in PoolReadings(sections) :
          look' = [look EXCEPT !.at = "report", !.aged = age, !.held = sections, !.pool = pool]
    BY <1>6 DEF AskRugCheck
  <2>1. PICK pool \in PoolReadings(sections) :
          look' = [look EXCEPT !.at = "report", !.aged = age, !.held = sections, !.pool = pool]
    BY <2>0
  <2>2. look'.at = "report" /\ look'.aged = age /\ look'.outcome = "none" /\ look'.pool = pool
    BY <1>2, <2>1 DEF LookInv, NoLook
  <2>3. pool \in {"out", "counted", "whale"} /\ (pool = "whale" => age <= 1)
    BY PoolReadingsRange
  <2>4. age <= 1 => ~ HoldersSettled(look'.aged)
    BY <2>2 DEF HoldersSettled, CondemnInv
  <2> QED BY <1>1, <2>2, <2>3, <2>4 DEF CondemnInv, CondemnedOnEvidence, HoldersSettled
<1> QED BY <1>3, <1>4, <1>5, <1>6 DEF MintFails, Unread

\* The profile of the creator, and the verdict.
LEMMA CondemnByProfile ==
    ASSUME SafetyInv, CondemnInv,
           ReadProfile \/ CreateProfile \/ ProfileFails \/ Signals \/ LookThrows
    PROVE  CondemnInv'
<1> USE DEF SafetyInv
<1>1. UNCHANGED <<age, nature, blocked>>
  BY DEF ReadProfile, CreateProfile, ProfileFails, Signals, LookThrows, Sources
<1>2. look.at # "done" /\ look.outcome = "none"
  BY DEF ReadProfile, CreateProfile, ProfileFails, Signals, LookThrows, LookingAt, LookInv
<1>3. CASE CreateProfile
  <2>1. LookAt("signals") /\ profile' = [rugged |-> 0, listed |-> FALSE, known |-> TRUE]
    BY <1>3 DEF CreateProfile
  <2>2. look'.at = "signals" /\ look'.outcome = "none" /\ SameReport BY <1>2, <2>1, WentOn
  <2>3. ~ (profile'.rugged > 0) BY <2>1
  <2> QED BY <1>1, <2>2, <2>3 DEF CondemnInv, CondemnedOnEvidence, SameReport, HoldersSettled
<1>4. CASE ReadProfile
  <2>1. UNCHANGED profile BY <1>4 DEF ReadProfile, Sources
  <2>2. CASE HighRisk /\ (Return("never") \/ Return("retry"))
    <3>1. look'.at = "done" /\ SameNotes /\ SameReport BY <2>2, LookReturns
    <3> QED BY <1>1, <2>1, <2>2, <3>1, CondemnKept DEF Damning
  <2>3. CASE LookAt("create") \/ LookAt("signals")
    BY <1>1, <1>2, <2>1, <2>3, WentOn, CondemnKept
  <2> QED BY <1>4, <2>2, <2>3 DEF ReadProfile
<1>5. CASE ProfileFails
  <2>1. UNCHANGED profile BY <1>5 DEF ProfileFails, Sources
  <2>2. look'.at = "signals" /\ look'.outcome = "none" /\ SameNotes /\ SameReport
    BY <1>2, <1>5 DEF ProfileFails, LookInv, NoLook, SameNotes, SameReport
  <2> QED BY <1>1, <2>1, <2>2, CondemnKept
<1>6. CASE Signals \/ LookThrows
  <2>1. UNCHANGED profile BY <1>6 DEF Signals, LookThrows, Sources
  <2>2. Return("safe") \/ Return("retry") BY <1>6 DEF Signals, LookThrows
  <2>3. look'.at = "done" /\ look'.outcome # "never" /\ SameNotes /\ SameReport
    BY <2>2, LookReturns
  <2> QED BY <1>1, <2>1, <2>3, CondemnKept
<1> QED BY <1>3, <1>4, <1>5, <1>6

\* What happens around a look takes no evidence away.
LEMMA CondemnMeanwhile ==
    ASSUME SafetyInv, CondemnInv, Around
    PROVE  CondemnInv'
<1>1. UNCHANGED <<nature, look>>
  BY DEF Around, PairGrowsOlder, ProbeBlocks, ReadForPenalty, Penalize, PenaltyFails
<1>2. (blocked => blocked') /\ (profile.listed => profile'.listed)
  BY RecordsStep DEF SafetyInv, GateNext
<1>3. age' \in Nat /\ age <= age'
  <2>1. CASE UNCHANGED age BY <2>1 DEF CondemnInv
  <2>2. CASE age' = age + 1 BY <2>2 DEF CondemnInv
  <2> QED BY <2>1, <2>2 DEF Around, PairGrowsOlder, ProbeBlocks, ReadForPenalty, Penalize,
                            PenaltyFails
<1>4. profile'.rugged > 0 => profile'.listed
  <2>1. UNCHANGED profile \/ profile'.listed = TRUE
    BY DEF Around, PairGrowsOlder, ProbeBlocks, ReadForPenalty, Penalize, PenaltyFails
  <2> QED BY <2>1 DEF CondemnInv
<1>5. SameReport BY <1>1 DEF SameReport
<1>6. CondemnedOnEvidence'
  BY <1>1, <1>2, <1>5, SeenAgain DEF CondemnInv, CondemnedOnEvidence, Evidence, HighRisk
<1> QED BY <1>1, <1>3, <1>4, <1>5, <1>6, SeenAgain DEF CondemnInv, HoldersSettled, Standard

LEMMA CondemnStep == SafetyInv /\ CondemnInv /\ [GateNext]_gateVars => CondemnInv'
<1> SUFFICES ASSUME SafetyInv, CondemnInv, [GateNext]_gateVars PROVE CondemnInv'
  OBVIOUS
<1>1. CASE Looking
  BY <1>1, CondemnAtFirst, CondemnByMint, CondemnByReport, CondemnByProfile DEF Looking
<1>2. CASE Around BY <1>2, CondemnMeanwhile
<1>3. CASE UNCHANGED gateVars
  <2>1. UNCHANGED <<nature, age, blocked, profile, look>> BY <1>3 DEF gateVars
  <2>2. SameReport BY <2>1 DEF SameReport
  <2> QED BY <2>1, <2>2, SeenAgain
          DEF CondemnInv, CondemnedOnEvidence, Evidence, HighRisk, HoldersSettled, Standard
<1> QED BY <1>1, <1>2, <1>3 DEF GateNext

\* A token is condemned for good only on evidence against it, never because a
\* source failed or a section of the report is missing, and on a pool without a
\* label only where the safety index alone counts it (the permanent results of
\* isTokenSafeToBuy), for every token, every report and whatever the market shows.
THEOREM CondemnationNeedsEvidence == GateSpec => []CondemnedOnEvidence
<1>1. GateInit => SafetyInv /\ CondemnInv
  <2> SUFFICES ASSUME GateInit PROVE CondemnInv
    BY SafetyAtFirst
  <2>1. /\ look = NoLook /\ profile.rugged = 0 /\ age \in Ages /\ nature \in Natures
    BY DEF GateInit
  <2>2. look.at = "done" /\ look.outcome = "none" /\ look.pool = "out" BY <2>1 DEF NoLook
  <2>3. age \in Nat BY <2>1 DEF Ages
  <2>4. ~ (profile.rugged > 0) BY <2>1
  <2> QED BY <2>1, <2>2, <2>3, <2>4 DEF CondemnInv, CondemnedOnEvidence
<1>2. CondemnInv => CondemnedOnEvidence BY DEF CondemnInv
<1> QED BY <1>1, <1>2, SafetyStep, CondemnStep, PTL DEF GateSpec

(***************************************************************************)
(* The types of the look, the profile and the penalties.                   *)
(***************************************************************************)
Looks == [road : {"none", "standard", "established"},
          at : {"done", "market", "probe", "mint", "rugcheck", "report", "balance",
                "profile", "create", "signals"},
          outcome : {"none", "safe", "retry", "never"}, attempt : 0 .. Attempts,
          aged : Ages, held : SUBSET Sections, pool : {"out", "counted", "whale"},
          warned : BOOLEAN, stopped : BOOLEAN, excused : BOOLEAN,
          evidence : BOOLEAN]

Done == {p \in Penalties : penalty[p].at = "done"}

\* A count that has been read is at most one ahead of the penalties that are
\* over, and so is what is written.
PenaltyInv ==
    /\ profile \in [rugged : Nat, listed : BOOLEAN, known : BOOLEAN]
    /\ penalty \in [Penalties -> [at : {"idle", "read", "done"},
                                  count : 0 .. Cardinality(Penalties)]]
    /\ profile.rugged <= Cardinality(Done)
    /\ \A p \in Penalties : penalty[p].at = "read" => penalty[p].count <= Cardinality(Done) + 1

GateTypes ==
    /\ nature \in Natures /\ age \in Ages /\ blocked \in BOOLEAN
    /\ look \in Looks

LEMMA SubsetOfPenalties ==
    ASSUME NEW S \in SUBSET Penalties
    PROVE  /\ Cardinality(S) \in Nat /\ Cardinality(S) <= Cardinality(Penalties)
           /\ Cardinality(Penalties) \in Nat
           /\ \A p \in Penalties \ S : /\ Cardinality(S \union {p}) = Cardinality(S) + 1
                                       /\ Cardinality(S) + 1 <= Cardinality(Penalties)
<1>1. IsFiniteSet(Penalties) /\ IsFiniteSet(S) BY PenaltiesAssumption, FS_Subset
<1>2. Cardinality(S) \in Nat /\ Cardinality(Penalties) \in Nat BY <1>1, FS_CardinalityType
<1>3. Cardinality(S) <= Cardinality(Penalties) BY <1>1, FS_Subset
<1>4. ASSUME NEW p \in Penalties \ S
      PROVE  /\ Cardinality(S \union {p}) = Cardinality(S) + 1
             /\ Cardinality(S) + 1 <= Cardinality(Penalties)
  <2>1. p \notin S OBVIOUS
  <2>2. Cardinality(S \union {p}) = Cardinality(S) + 1 BY <1>1, <2>1, FS_AddElement
  <2>3. S \union {p} \subseteq Penalties OBVIOUS
  <2>4. Cardinality(S \union {p}) <= Cardinality(Penalties) BY <1>1, <2>3, FS_Subset
  <2> QED BY <2>2, <2>4
<1> QED BY <1>2, <1>3, <1>4

LEMMA PenaltyBegins == GateInit => PenaltyInv
<1> SUFFICES ASSUME GateInit PROVE PenaltyInv
  OBVIOUS
<1>1. Done = {} BY DEF GateInit, Done
<1>2. Cardinality(Done) = 0 BY <1>1, FS_EmptySet
<1>3. 0 \in 0 .. Cardinality(Penalties) BY SubsetOfPenalties
<1> QED BY <1>2, <1>3 DEF GateInit, PenaltyInv

\* A penalty that is over counts for one more.
LEMMA PenaltyEnds ==
    ASSUME PenaltyInv, NEW p \in Penalties, penalty[p].at # "done",
           penalty' = [penalty EXCEPT ![p].at = "done"],
           profile' \in [rugged : Nat, listed : BOOLEAN, known : BOOLEAN],
           profile'.rugged <= Cardinality(Done) + 1
    PROVE  PenaltyInv'
<1>1. Done' = Done \union {p} /\ p \notin Done /\ Done \subseteq Penalties
  BY DEF PenaltyInv, Done
<1>2. Cardinality(Done') = Cardinality(Done) + 1 BY <1>1, SubsetOfPenalties
<1>3. Cardinality(Done) \in Nat BY <1>1, SubsetOfPenalties
<1>4. penalty' \in [Penalties -> [at : {"idle", "read", "done"}, count : 0 .. Cardinality(Penalties)]]
  BY DEF PenaltyInv
<1>5. ASSUME NEW q \in Penalties, penalty'[q].at = "read"
      PROVE  penalty'[q].count <= Cardinality(Done') + 1
  <2>1. q # p /\ penalty'[q] = penalty[q] BY <1>5 DEF PenaltyInv
  <2>2. penalty[q].count <= Cardinality(Done) + 1 /\ penalty[q].count \in Nat
    BY <1>5, <2>1 DEF PenaltyInv
  <2> QED BY <1>2, <1>3, <2>1, <2>2
<1> QED BY <1>2, <1>4, <1>5 DEF PenaltyInv

LEMMA PenaltyStep == PenaltyInv /\ [GateNext]_gateVars => PenaltyInv'
<1> SUFFICES ASSUME PenaltyInv, [GateNext]_gateVars PROVE PenaltyInv'
  OBVIOUS
<1>0. Done \subseteq Penalties /\ Cardinality(Done) \in Nat
  <2>1. Done \subseteq Penalties BY DEF Done
  <2> QED BY <2>1, SubsetOfPenalties
<1>1. ASSUME UNCHANGED penalty,
             profile' = profile \/ profile' = [rugged |-> 0, listed |-> FALSE, known |-> TRUE]
      PROVE  PenaltyInv'
  <2>1. Done' = Done BY <1>1 DEF Done
  <2>2. profile' \in [rugged : Nat, listed : BOOLEAN, known : BOOLEAN]
        /\ profile'.rugged <= Cardinality(Done)
    <3>1. CASE profile' = profile BY <3>1 DEF PenaltyInv
    <3>2. CASE profile' = [rugged |-> 0, listed |-> FALSE, known |-> TRUE]
      <4>1. profile'.rugged = 0 BY <3>2
      <4> QED BY <1>0, <3>2, <4>1
    <3> QED BY <1>1, <3>1, <3>2
  <2> QED BY <1>1, <2>1, <2>2 DEF PenaltyInv
<1>2. CASE Looking \/ PairGrowsOlder \/ ProbeBlocks \/ UNCHANGED gateVars
  <2>1. UNCHANGED penalty
        /\ (profile' = profile \/ profile' = [rugged |-> 0, listed |-> FALSE, known |-> TRUE])
    BY <1>2 DEF Looking, BeginLook, AskMarket, AskProbe, AskMint, MintFails, AskRugCheck,
                ReadReport, ReportFails, AskBalance, BalanceFails, ReadProfile, CreateProfile,
                ProfileFails, Signals, LookThrows, PairGrowsOlder, ProbeBlocks, Sources, gateVars
  <2> QED BY <1>1, <2>1
<1>3. ASSUME NEW p \in Penalties, ReadForPenalty(p) PROVE PenaltyInv'
  <2>1. Done' = Done BY <1>3 DEF ReadForPenalty, PenaltyInv, Done
  <2>2. p \notin Done BY <1>3 DEF ReadForPenalty, Done
  <2>3. Cardinality(Done) + 1 <= Cardinality(Penalties) /\ Cardinality(Penalties) \in Nat
    BY <1>0, <2>2, SubsetOfPenalties
  <2>4. profile.rugged + 1 \in 0 .. Cardinality(Penalties)
        /\ profile.rugged + 1 <= Cardinality(Done) + 1
    BY <1>0, <2>3 DEF PenaltyInv
  <2>5. penalty' \in [Penalties -> [at : {"idle", "read", "done"}, count : 0 .. Cardinality(Penalties)]]
    BY <1>3, <2>4 DEF ReadForPenalty, PenaltyInv
  <2>6. ASSUME NEW q \in Penalties, penalty'[q].at = "read"
        PROVE  penalty'[q].count <= Cardinality(Done) + 1
    <3>1. CASE q = p BY <1>3, <2>4, <3>1 DEF ReadForPenalty, PenaltyInv
    <3>2. CASE q # p BY <1>3, <2>6, <3>2 DEF ReadForPenalty, PenaltyInv
    <3> QED BY <3>1, <3>2
  <2>7. profile' = profile BY <1>3 DEF ReadForPenalty
  <2> QED BY <2>1, <2>5, <2>6, <2>7 DEF PenaltyInv
<1>4. ASSUME NEW p \in Penalties, Penalize(p) PROVE PenaltyInv'
  <2>1. penalty[p].at = "read" /\ penalty' = [penalty EXCEPT ![p].at = "done"]
    BY <1>4 DEF Penalize
  <2>2. penalty[p].count \in Nat /\ penalty[p].count <= Cardinality(Done) + 1
    BY <2>1 DEF PenaltyInv
  <2>3. \/ profile' = [rugged |-> penalty[p].count, listed |-> TRUE, known |-> TRUE]
        \/ profile' = [rugged |-> 1, listed |-> TRUE, known |-> TRUE]
    BY <1>4 DEF Penalize
  <2>4. profile' \in [rugged : Nat, listed : BOOLEAN, known : BOOLEAN]
        /\ profile'.rugged <= Cardinality(Done) + 1
    <3> DEFINE n == penalty[p].count
    <3>1. \E c \in {n, 1} : profile' = [rugged |-> c, listed |-> TRUE, known |-> TRUE]
      BY <2>3
    <3> HIDE DEF n
    <3>2. n \in Nat /\ n <= Cardinality(Done) + 1 BY <2>2 DEF n
    <3> QED BY <1>0, <3>1, <3>2
  <2> QED BY <2>1, <2>4, PenaltyEnds
<1>5. ASSUME NEW p \in Penalties, PenaltyFails(p) PROVE PenaltyInv'
  <2>1. penalty[p].at # "done" /\ penalty' = [penalty EXCEPT ![p].at = "done"]
        /\ profile' = profile
    BY <1>5 DEF PenaltyFails
  <2>2. profile.rugged \in Nat /\ profile.rugged <= Cardinality(Done) + 1
    BY <1>0 DEF PenaltyInv
  <2>3. profile' \in [rugged : Nat, listed : BOOLEAN, known : BOOLEAN]
    BY <2>1 DEF PenaltyInv
  <2> QED BY <2>1, <2>2, <2>3, PenaltyEnds
<1> QED BY <1>2, <1>3, <1>4, <1>5 DEF GateNext, Around

LEMMA Verdicts ==
    ASSUME NEW rules
    PROVE  FirstRejection(rules) \in {"pass", "never", "retry"}
BY DEF FirstRejection

LEMMA GoesTo ==
    ASSUME GateTypes,
           NEW place \in {"market", "probe", "mint", "rugcheck", "report", "balance",
                          "profile", "create", "signals"}, LookAt(place)
    PROVE  look' \in Looks
<1>1. 0 \in 0 .. Attempts BY GateAssumption
<1> QED BY <1>1 DEF GateTypes, Looks, LookAt

LEMMA Ends ==
    ASSUME GateTypes, NEW outcome \in {"safe", "retry", "never"}, Return(outcome)
    PROVE  look' \in Looks
BY DEF GateTypes, Looks, Return

LEMMA GoesOrEnds ==
    ASSUME GateTypes, NEW verdict \in {"pass", "never", "retry"},
           NEW place \in {"market", "probe", "mint", "rugcheck", "report", "balance",
                          "profile", "create", "signals"}, Unless(verdict, place)
    PROVE  look' \in Looks
BY GoesTo, Ends DEF Unless

LEMMA TriesAgain ==
    ASSUME GateTypes, look.attempt + 1 < Attempts,
           look' = [look EXCEPT !.attempt = @ + 1]
    PROVE  look' \in Looks
<1>1. look.attempt + 1 \in 0 .. Attempts BY GateAssumption DEF GateTypes, Looks
<1> QED BY <1>1 DEF GateTypes, Looks

LEMMA LookTyped ==
    ASSUME GateTypes, PenaltyInv, Looking
    PROVE  look' \in Looks
<1>1. look \in Looks /\ 0 \in 0 .. Attempts /\ 0 \in Ages /\ age \in Ages
  BY GateAssumption DEF GateTypes, Ages
<1>2. ASSUME NEW road \in {"standard", "established"}, BeginLook(road) PROVE look' \in Looks
  <2>1. NoLook \in Looks BY <1>1 DEF NoLook, Looks
  <2>2. profile.listed \in BOOLEAN /\ blocked \in BOOLEAN BY DEF PenaltyInv, GateTypes
  <2> QED BY <1>2, <2>1, <2>2 DEF BeginLook, Looks
<1>3. CASE AskMarket
  <2>1. PICK market \in Markets :
          IF Standard
          THEN LET verdict == Traction(market)
               IN  look' = [look EXCEPT !.at = IF verdict = "pass" THEN "probe" ELSE "done",
                                        !.outcome = IF verdict = "pass" THEN "none" ELSE verdict,
                                        !.evidence = Dead(market)]
          ELSE Unless(FirstRejection(EstablishedMarketRules(market)), "mint")
    BY <1>3 DEF AskMarket
  <2>2. CASE Standard
    <3>1. Traction(market) \in {"pass", "never", "retry"} BY Verdicts DEF Traction
    <3>2. Dead(market) \in BOOLEAN BY DEF Dead
    <3> QED BY <1>1, <2>1, <2>2, <3>1, <3>2 DEF Looks
  <2>3. CASE ~ Standard BY <2>1, <2>3, Verdicts, GoesOrEnds
  <2> QED BY <2>2, <2>3
<1>4. CASE AskProbe BY <1>4, GoesTo, Ends DEF AskProbe
<1>5. CASE AskMint BY <1>5, GoesTo, Ends DEF AskMint
<1>6. CASE MintFails BY <1>6, TriesAgain, Ends DEF MintFails, Unread
<1>7. CASE AskRugCheck
  <2>0. PICK sections \in Reports : \E pool \in PoolReadings(sections) :
          look' = [look EXCEPT !.at = "report", !.aged = age, !.held = sections, !.pool = pool]
    BY <1>7 DEF AskRugCheck
  <2>1. PICK pool \in PoolReadings(sections) :
          look' = [look EXCEPT !.at = "report", !.aged = age, !.held = sections, !.pool = pool]
    BY <2>0
  <2>2. sections \in SUBSET Sections BY GateAssumption
  <2>3. pool \in {"out", "counted", "whale"} BY PoolReadingsRange
  <2> QED BY <1>1, <2>1, <2>2, <2>3 DEF Looks
<1>8. CASE ReadReport
  <2>1. \/ FirstRejection(HolderRules) # "pass" /\ Return(FirstRejection(HolderRules))
        \/ LookAt("balance")
        \/ Unless(FirstRejection(RulesOf("unknown")), "signals")
    BY <1>8 DEF ReadReport
  <2>2. FirstRejection(HolderRules) \in {"pass", "never", "retry"} BY Verdicts
  <2> QED BY <2>1, <2>2, Verdicts, GoesTo, Ends, GoesOrEnds
<1>9. CASE ReportFails BY <1>9, Ends DEF ReportFails
<1>10. CASE AskBalance BY <1>10, Verdicts, GoesOrEnds DEF AskBalance
<1>11. CASE BalanceFails BY <1>11, TriesAgain, Ends DEF BalanceFails, NoBalance
<1>12. CASE ReadProfile BY <1>12, GoesTo, Ends DEF ReadProfile
<1>13. CASE CreateProfile BY <1>13, GoesTo DEF CreateProfile
<1>14. CASE ProfileFails BY <1>1, <1>14 DEF ProfileFails, Looks
<1>15. CASE Signals BY <1>15, Ends DEF Signals
<1>16. CASE LookThrows BY <1>16, Ends DEF LookThrows
<1> QED BY <1>2, <1>3, <1>4, <1>5, <1>6, <1>7, <1>8, <1>9, <1>10, <1>11, <1>12, <1>13,
           <1>14, <1>15, <1>16 DEF Looking

LEMMA GateTypesStep == GateTypes /\ PenaltyInv /\ [GateNext]_gateVars => GateTypes'
<1> SUFFICES ASSUME GateTypes, PenaltyInv, [GateNext]_gateVars PROVE GateTypes'
  OBVIOUS
<1>1. CASE Looking
  <2>1. UNCHANGED <<nature, age, blocked>>
    BY <1>1 DEF Looking, BeginLook, AskMarket, AskProbe, AskMint, MintFails, AskRugCheck,
                ReadReport, ReportFails, AskBalance, BalanceFails, ReadProfile, CreateProfile,
                ProfileFails, Signals, LookThrows, Sources
  <2> QED BY <1>1, <2>1, LookTyped DEF GateTypes
<1>2. CASE Around \/ UNCHANGED gateVars
  BY <1>2 DEF Around, PairGrowsOlder, ProbeBlocks, ReadForPenalty, Penalize, PenaltyFails,
              gateVars, GateTypes
<1> QED BY <1>1, <1>2 DEF GateNext

LEMMA GateBegins == GateInit => GateTypes
<1>1. 0 \in 0 .. Attempts /\ 0 \in Ages BY GateAssumption DEF Ages
<1>2. NoLook \in Looks BY <1>1 DEF NoLook, Looks
<1> QED BY <1>2 DEF GateInit, GateTypes

LEMMA GateTypesOK == GateTypes /\ PenaltyInv => GateTypeOK
<1> SUFFICES ASSUME GateTypes, PenaltyInv PROVE GateTypeOK
  OBVIOUS
<1>1. Done \subseteq Penalties BY DEF Done
<1>2. Cardinality(Done) \in Nat /\ Cardinality(Penalties) \in Nat
      /\ Cardinality(Done) <= Cardinality(Penalties)
  BY <1>1, SubsetOfPenalties
<1>3. profile.rugged \in 0 .. Cardinality(Penalties) BY <1>2 DEF PenaltyInv
<1>4. profile \in [rugged : 0 .. Cardinality(Penalties), listed : BOOLEAN, known : BOOLEAN]
  BY <1>3 DEF PenaltyInv
<1> QED BY <1>4 DEF GateTypes, PenaltyInv, Looks, GateTypeOK

\* The tokens counted against a creator never exceed the exits that were a rug
\* pull, however the penalties overlap (the end of a sell writes a count it
\* read before), and a look is always at a known place with its attempts
\* within the limit.
THEOREM GateTypeCorrect == GateSpec => []GateTypeOK
BY PenaltyBegins, GateBegins, PenaltyStep, GateTypesStep, GateTypesOK, PTL DEF GateSpec

------------------------------------------------------------------------------
(* The circuit breakers: types *)

Row == [route : Routes, outcome : Outcomes, booked : {"none", "profit", "fees", "net", "zero"}]

AnyAttempt ==
    {NoAttempt} \union [route : Routes, kind : {"open", "scaleIn", "hand"}, read : SUBSET Metrics]

RiskTypes ==
    /\ held \in [Routes -> Nat]
    /\ closes \in Seq(Row) /\ Len(closes) <= MaxCloses
    /\ dayFrom \in 0 .. Len(closes) /\ streakFrom \in 0 .. Len(closes)
    /\ attempt \in [Buyers -> AnyAttempt]
    /\ waived \in BOOLEAN

LEMMA RowTypes ==
    ASSUME RiskTypes
    PROVE  /\ Len(closes) \in Nat
           /\ After(0) = 1 .. Len(closes)
           /\ \A i \in 1 .. Len(closes) :
                 /\ closes[i] \in Row /\ closes[i].route \in Routes /\ closes[i].outcome \in Outcomes
                 /\ closes[i].booked \in {"none", "profit", "fees", "net", "zero"}
                 /\ Loss(closes[i].outcome) \in Int
<1> DEFINE R == Row
<1>1. closes \in Seq(R)
  BY DEF RiskTypes
<1> HIDE DEF R
<1>2. Len(closes) \in Nat /\ \A i \in 1 .. Len(closes) : closes[i] \in R
  BY <1>1
<1>3. After(0) = 1 .. Len(closes)
  BY <1>2 DEF After
<1>4. \A o \in Outcomes : Loss(o) \in Int
  BY OutcomesAssumption DEF Loss
<1> QED BY <1>2, <1>3, <1>4 DEF R, Row

\* A row that is put at the end.
Moved(s, i, x) == SubSeq(s, 1, i - 1) \o SubSeq(s, i + 1, Len(s)) \o << x >>

MovesTo(t, s, i, x) ==
    /\ Len(t) = Len(s)
    /\ \A k \in 1 .. Len(s) : t[k] = IF k < i THEN s[k] ELSE IF k < Len(s) THEN s[k + 1] ELSE x

LEMMA MovedRows ==
    ASSUME NEW R, NEW s \in Seq(R), NEW i \in 1 .. Len(s), NEW x \in R
    PROVE  Moved(s, i, x) \in Seq(R) /\ MovesTo(Moved(s, i, x), s, i, x)
<1> DEFINE n == Len(s)
           a == SubSeq(s, 1, i - 1)
           b == SubSeq(s, i + 1, n)
           c == << x >>
<1>0. n \in Nat /\ i \in Int /\ 1 <= i /\ i <= n /\ \A k \in 1 .. n : s[k] \in R
  OBVIOUS
<1> HIDE DEF n
<1>1. /\ a \in Seq(R) /\ Len(a) = i - 1 /\ \A k \in 1 .. i - 1 : a[k] = s[k]
  <2>1. \A k \in 1 .. i - 1 : s[k] \in R
    BY <1>0
  <2>2. /\ a \in Seq(R) /\ Len(a) = IF 1 <= i - 1 THEN i - 1 - 1 + 1 ELSE 0
        /\ \A k \in 1 .. i - 1 - 1 + 1 : a[k] = s[1 + k - 1]
    BY <1>0, <2>1, SubSeqProperties
  <2> QED BY <1>0, <2>2
<1>2. /\ b \in Seq(R) /\ Len(b) = n - i /\ \A k \in 1 .. n - i : b[k] = s[i + k]
  <2>1. \A k \in i + 1 .. n : s[k] \in R
    BY <1>0
  <2>2. /\ b \in Seq(R) /\ Len(b) = IF i + 1 <= n THEN n - (i + 1) + 1 ELSE 0
        /\ \A k \in 1 .. n - (i + 1) + 1 : b[k] = s[i + 1 + k - 1]
    BY <1>0, <2>1, SubSeqProperties
  <2> QED BY <1>0, <2>2
<1>3. c \in Seq(R) /\ Len(c) = 1 /\ c[1] = x
  OBVIOUS
<1> HIDE DEF a, b, c
<1> DEFINE d == a \o b
           e == d \o c
<1>4. /\ d \in Seq(R) /\ Len(d) = n - 1
      /\ \A k \in 1 .. n - 1 : d[k] = IF k < i THEN s[k] ELSE s[k + 1]
  <2>1. /\ d \in Seq(R) /\ Len(d) = Len(a) + Len(b)
        /\ \A k \in 1 .. Len(a) + Len(b) : d[k] = IF k <= Len(a) THEN a[k] ELSE b[k - Len(a)]
    BY <1>1, <1>2, ConcatProperties
  <2> HIDE DEF d
  <2>2. Len(d) = n - 1
    BY <1>0, <1>1, <1>2, <2>1
  <2>3. ASSUME NEW k \in 1 .. n - 1 PROVE d[k] = IF k < i THEN s[k] ELSE s[k + 1]
    <3>1. d[k] = IF k <= i - 1 THEN a[k] ELSE b[k - (i - 1)]
      BY <1>0, <1>1, <1>2, <2>1
    <3>2. CASE k < i
      BY <1>0, <1>1, <3>1, <3>2
    <3>3. CASE ~ (k < i)
      <4>1. k - (i - 1) \in 1 .. n - i /\ i + (k - (i - 1)) = k + 1 /\ ~ (k <= i - 1)
        BY <1>0, <3>3
      <4>2. b[k - (i - 1)] = s[i + (k - (i - 1))]
        BY <1>2, <4>1
      <4> QED BY <3>1, <3>3, <4>1, <4>2
    <3> QED BY <3>2, <3>3
  <2> QED BY <2>1, <2>2, <2>3
<1>5. /\ e \in Seq(R) /\ Len(e) = n
      /\ \A k \in 1 .. n : e[k] = IF k < i THEN s[k] ELSE IF k < n THEN s[k + 1] ELSE x
  <2> HIDE DEF d
  <2>1. /\ e \in Seq(R) /\ Len(e) = Len(d) + Len(c)
        /\ \A k \in 1 .. Len(d) + Len(c) : e[k] = IF k <= Len(d) THEN d[k] ELSE c[k - Len(d)]
    BY <1>3, <1>4, ConcatProperties
  <2> HIDE DEF e
  <2>2. Len(e) = n
    BY <1>0, <1>3, <1>4, <2>1
  <2>3. ASSUME NEW k \in 1 .. n
        PROVE  e[k] = IF k < i THEN s[k] ELSE IF k < n THEN s[k + 1] ELSE x
    <3>1. e[k] = IF k <= n - 1 THEN d[k] ELSE c[k - (n - 1)]
      BY <1>0, <1>3, <1>4, <2>1
    <3>2. CASE k < n
      BY <1>0, <1>4, <3>1, <3>2
    <3>3. CASE ~ (k < n)
      <4>1. k = n /\ k - (n - 1) = 1 /\ ~ (k <= n - 1) /\ ~ (k < i)
        BY <1>0, <3>3
      <4> QED BY <1>3, <3>1, <3>3, <4>1
    <3> QED BY <3>2, <3>3
  <2> QED BY <2>1, <2>2, <2>3
<1>6. Moved(s, i, x) = e
  BY DEF Moved, a, b, c, n
<1> HIDE DEF d, e
<1> QED BY <1>5, <1>6 DEF n, MovesTo

\* The booked row is put at the end.
LEMMA NetMoves ==
    ASSUME RiskTypes, NEW i \in After(0), WriteNet(i)
    PROVE  closes' \in Seq(Row) /\ MovesTo(closes', closes, i, [closes[i] EXCEPT !.booked = "net"])
<1> DEFINE R == Row
           x == [closes[i] EXCEPT !.booked = "net"]
<1>1. closes \in Seq(R) /\ i \in 1 .. Len(closes) /\ x \in R
  BY RowTypes DEF RiskTypes, Row
<1>2. closes' = Moved(closes, i, x)
  BY DEF WriteNet, Moved
<1> HIDE DEF R, x
<1>3. Moved(closes, i, x) \in Seq(R) /\ MovesTo(Moved(closes, i, x), closes, i, x)
  BY <1>1, MovedRows
<1> QED BY <1>2, <1>3 DEF R, x

LEMMA RiskTypesAtFirst == RiskInit => RiskTypes
<1> DEFINE R == Row
<1>1. << >> \in Seq(R) /\ Len(<< >>) = 0 /\ MaxCloses \in Nat
  BY BreakersAssumption
<1> SUFFICES ASSUME RiskInit PROVE RiskTypes
  OBVIOUS
<1>3. closes \in Seq(R) /\ Len(closes) = 0 /\ dayFrom = 0 /\ streakFrom = 0 /\ waived = FALSE
  BY <1>1 DEF RiskInit
<1>4. held \in [Routes -> Nat]
  BY DEF RiskInit
<1>6. attempt \in [Buyers -> AnyAttempt]
  BY DEF RiskInit, AnyAttempt
<1> HIDE DEF R
<1>7. closes \in Seq(Row)
  BY <1>3 DEF R
<1>8. Len(closes) <= MaxCloses /\ dayFrom \in 0 .. Len(closes) /\ streakFrom \in 0 .. Len(closes)
  BY <1>1, <1>3
<1> QED BY <1>3, <1>4, <1>6, <1>7, <1>8 DEF RiskTypes

LEMMA RiskTypesStep ==
    ASSUME RiskTypes, [RiskNext]_riskVars
    PROVE  RiskTypes'
<1>0. Len(closes) \in Nat /\ After(0) = 1 .. Len(closes)
  BY RowTypes
<1> USE DEF RiskTypes
<1>1. CASE UNCHANGED riskVars
  BY <1>1 DEF riskVars
<1>2. ASSUME NEW b \in Buyers, NEW m \in Metrics, NEW limit, NEW loss, Compare(b, m, limit, loss)
      PROVE  RiskTypes'
  <2>1. /\ attempt[b] \in AnyAttempt /\ attempt[b] # NoAttempt
        /\ UNCHANGED <<held, closes, dayFrom, streakFrom>> /\ waived' \in BOOLEAN
    BY <1>2 DEF Compare, NoAttempt, Unfinished
  <2>2. attempt[b] \in [route : Routes, kind : {"open", "scaleIn", "hand"}, read : SUBSET Metrics]
    BY <2>1 DEF AnyAttempt
  <2>3. [attempt[b] EXCEPT !.read = @ \union {m}] \in AnyAttempt /\ NoAttempt \in AnyAttempt
    BY <2>2 DEF AnyAttempt
  <2> DEFINE y == IF Trips(limit, loss) THEN NoAttempt ELSE [attempt[b] EXCEPT !.read = @ \union {m}]
  <2>4. attempt' = [attempt EXCEPT ![b] = y]
    BY <1>2 DEF Compare
  <2>6. y \in AnyAttempt
    BY <2>3
  <2> HIDE DEF y
  <2>5. attempt' \in [Buyers -> AnyAttempt]
    BY <2>4, <2>6
  <2> QED BY <2>1, <2>5
<1>3. ASSUME NEW b \in Buyers, ReadDay(b) \/ ReadStreak(b) \/ ReadTotal(b) PROVE RiskTypes'
  BY <1>2, <1>3 DEF ReadDay, ReadStreak, ReadTotal, Metrics
<1>4. ASSUME NEW b \in Buyers, EndAttempt(b) PROVE RiskTypes'
  BY <1>4 DEF EndAttempt, AnyAttempt
<1>5. ASSUME NEW b \in Buyers, OpenPosition(b) PROVE RiskTypes'
  <2> DEFINE q == attempt[b].route
  <2>0. q \in Routes /\ held' = [held EXCEPT ![q] = @ + 1]
    BY <1>5 DEF OpenPosition, Answered, AnyAttempt, NoAttempt
  <2> HIDE DEF q
  <2>1. held' \in [Routes -> Nat]
    BY <2>0
  <2>2. attempt' \in [Buyers -> AnyAttempt] /\ waived' \in BOOLEAN
    BY <1>5 DEF OpenPosition, AnyAttempt
  <2> QED BY <1>5, <2>1, <2>2 DEF OpenPosition
<1>6. ASSUME NEW b \in Buyers, NEW route \in Routes, NEW kind \in {"open", "scaleIn", "hand"},
             AskMetrics(b, route, kind)
      PROVE  RiskTypes'
  <2> DEFINE y == [NoAttempt EXCEPT !.route = route, !.kind = kind,
                                    !.read = IF kind = "hand" THEN Metrics ELSE {}]
  <2>1. y \in AnyAttempt
    BY DEF AnyAttempt, NoAttempt
  <2>2. attempt' = [attempt EXCEPT ![b] = y]
    BY <1>6 DEF AskMetrics
  <2> HIDE DEF y
  <2>3. attempt' \in [Buyers -> AnyAttempt]
    BY <2>1, <2>2
  <2> QED BY <1>6, <2>3 DEF AskMetrics
<1>7. ASSUME NEW route \in Routes, CloseTrade(route) \/ CloseOnZero(route) PROVE RiskTypes'
  <2>0. PICK k \in {"none", "zero"} : Close(route, k)
    BY <1>7 DEF CloseTrade, CloseOnZero
  <2>1. PICK o \in Outcomes : closes' = Append(closes, [route |-> route, outcome |-> o, booked |-> k])
    BY <2>0 DEF Close, WriteClosed
  <2> DEFINE R == Row
             x == [route |-> route, outcome |-> o, booked |-> k]
  <2>2. x \in R /\ closes \in Seq(R) /\ closes' = Append(closes, x)
    BY <2>1 DEF Row
  <2>3. held' = [held EXCEPT ![route] = @ - 1] /\ held[route] > 0 /\ Len(closes) < MaxCloses
        /\ UNCHANGED <<dayFrom, streakFrom, attempt, waived>>
    BY <2>0 DEF Close, WriteClosed
  <2> HIDE DEF R, x
  <2>4. closes' \in Seq(R) /\ Len(closes') = Len(closes) + 1
    BY <2>2, AppendProperties
  <2>5. held' \in [Routes -> Nat]
    BY <2>3
  <2>6. Len(closes') <= MaxCloses /\ dayFrom' \in 0 .. Len(closes') /\ streakFrom' \in 0 .. Len(closes')
    BY <1>0, <2>3, <2>4, BreakersAssumption
  <2> QED BY <2>3, <2>4, <2>5, <2>6 DEF R
<1>8. ASSUME NEW i \in After(0), AddProfit(i) \/ AddFees(i) PROVE RiskTypes'
  <2> DEFINE R == Row
  <2>1. PICK b \in {"profit", "fees"} : closes' = [closes EXCEPT ![i] = [closes[i] EXCEPT !.booked = b]]
    BY <1>8 DEF AddProfit, AddFees
  <2> DEFINE x == [closes[i] EXCEPT !.booked = b]
  <2>2. x \in R /\ closes \in Seq(R) /\ i \in 1 .. Len(closes) /\ closes' = [closes EXCEPT ![i] = x]
    BY <1>0, <2>1, RowTypes DEF Row
  <2>3. UNCHANGED <<held, dayFrom, streakFrom, attempt, waived>>
    BY <1>8 DEF AddProfit, AddFees
  <2> HIDE DEF R, x
  <2>4. closes' \in Seq(R) /\ Len(closes') = Len(closes)
    BY <2>2, ExceptSeq
  <2> QED BY <2>3, <2>4 DEF R
<1>9. ASSUME NEW i \in After(0), WriteNet(i) PROVE RiskTypes'
  <2>1. closes' \in Seq(Row) /\ Len(closes') = Len(closes)
    BY <1>9, NetMoves DEF MovesTo
  <2>2. /\ dayFrom' = IF i <= dayFrom THEN dayFrom - 1 ELSE dayFrom
        /\ streakFrom' = IF i <= streakFrom THEN streakFrom - 1 ELSE streakFrom
        /\ UNCHANGED <<held, attempt, waived>>
    BY <1>9 DEF WriteNet
  <2>3. dayFrom' \in 0 .. Len(closes') /\ streakFrom' \in 0 .. Len(closes')
    BY <1>0, <2>1, <2>2
  <2>4. held' \in [Routes -> Nat] /\ waived' \in BOOLEAN
        /\ attempt' \in [Buyers -> AnyAttempt] /\ Len(closes') <= MaxCloses
    BY <2>1, <2>2
  <2> QED BY <2>1, <2>3, <2>4
<1>10. CASE DayEnds \/ LookbackMoves
  BY <1>0, <1>10 DEF DayEnds, LookbackMoves
<1> QED BY <1>1, <1>3, <1>4, <1>5, <1>6, <1>7, <1>8, <1>9, <1>10 DEF RiskNext, Attempting, Selling

\* Every variable of the breakers keeps its type (RiskTypeOK): the windows end
\* within the rows, however rows move when their net profit is written.
THEOREM RiskTypeCorrect == RiskSpec => []RiskTypeOK
<1>1. RiskTypes => RiskTypeOK
  BY RowTypes DEF RiskTypes, RiskTypeOK, AnyAttempt
<1> QED BY <1>1, RiskTypesAtFirst, RiskTypesStep, PTL DEF RiskSpec

------------------------------------------------------------------------------
(* The circuit breakers: what a sequence of rows has lost *)

LossIn(s) == [i \in 1 .. Len(s) |-> Loss(s[i].outcome)]

\* The loss of the rows after n.
LossSum(s, n) == SumFunctionOnSet(LossIn(s), n + 1 .. Len(s))

\* Rows up to n whose booking has not ended.
OpenRows(s, n) == {i \in 1 .. n : s[i].booked # "net"}

\* The losses of a route since its last trade after n that did not lose.
RunOf(s, n, r) ==
    {i \in n + 1 .. Len(s) :
        /\ s[i].route = r
        /\ \A j \in n + 1 .. Len(s) : s[j].route = r /\ j >= i => Loss(s[j].outcome) > 0}

\* With the rows of the route that may still come after them.
RunOrOpen(s, n, r) == RunOf(s, n, r) \union {i \in OpenRows(s, Len(s)) : s[i].route = r}

LEMMA RowFacts ==
    ASSUME NEW s \in Seq(Row)
    PROVE  /\ Len(s) \in Nat
           /\ \A i \in 1 .. Len(s) :
                 /\ s[i].route \in Routes /\ s[i].outcome \in Outcomes
                 /\ Loss(s[i].outcome) \in Int /\ Loss(s[i].outcome) <= WorstLoss
                 /\ s[i].booked \in {"none", "profit", "fees", "net", "zero"}
<1> DEFINE R == Row
<1>1. s \in Seq(R)
  OBVIOUS
<1> HIDE DEF R
<1>2. Len(s) \in Nat /\ \A i \in 1 .. Len(s) : s[i] \in R
  BY <1>1
<1>3. \A o \in Outcomes : Loss(o) \in Int /\ Loss(o) <= WorstLoss
  BY OutcomesAssumption DEF Loss
<1> QED BY <1>2, <1>3 DEF R, Row

LEMMA LossInt ==
    ASSUME NEW s \in Seq(Row), NEW n \in 0 .. Len(s)
    PROVE  /\ LossSum(s, n) \in Int
           /\ IsFiniteSet(n + 1 .. Len(s)) /\ n + 1 .. Len(s) \subseteq 1 .. Len(s)
           /\ \A i \in 1 .. Len(s) : LossIn(s)[i] = Loss(s[i].outcome) /\ LossIn(s)[i] \in Int
           /\ LossSum(s, Len(s)) = 0
<1> DEFINE f == LossIn(s)
           S == n + 1 .. Len(s)
<1>1. Len(s) \in Nat /\ n \in Nat /\ n <= Len(s)
  BY RowFacts
<1>2. \A i \in 1 .. Len(s) : f[i] = Loss(s[i].outcome) /\ f[i] \in Int
  BY RowFacts DEF LossIn
<1>3. IsFiniteSet(S) /\ S \subseteq 1 .. Len(s)
  BY <1>1, FS_Interval
<1>4. \A i \in S : f[i] \in Int
  BY <1>2, <1>3
<1>5. SumFunctionOnSet(f, {}) = 0 /\ Len(s) + 1 .. Len(s) = {}
  BY <1>1, SumEmpty
<1> HIDE DEF f, S
<1>6. SumFunctionOnSet(f, S) \in Int
  BY <1>3, <1>4, SumInt
<1> QED BY <1>2, <1>3, <1>5, <1>6 DEF f, S, LossSum

LEMMA OpenFinite ==
    ASSUME NEW s, NEW n \in Nat
    PROVE  IsFiniteSet(OpenRows(s, n)) /\ Cardinality(OpenRows(s, n)) \in Nat
<1>1. IsFiniteSet(1 .. n) /\ OpenRows(s, n) \subseteq 1 .. n
  BY FS_Interval DEF OpenRows
<1> QED BY <1>1, FS_Subset, FS_CardinalityType

LEMMA RunFinite ==
    ASSUME NEW s \in Seq(Row), NEW n \in 0 .. Len(s), NEW r
    PROVE  IsFiniteSet(RunOrOpen(s, n, r)) /\ Cardinality(RunOrOpen(s, n, r)) \in Nat
           /\ RunOrOpen(s, n, r) \subseteq 1 .. Len(s)
<1>1. Len(s) \in Nat /\ IsFiniteSet(1 .. Len(s))
  BY RowFacts, FS_Interval
<1>2. RunOrOpen(s, n, r) \subseteq 1 .. Len(s)
  BY <1>1 DEF RunOrOpen, RunOf, OpenRows
<1> QED BY <1>1, <1>2, FS_Subset, FS_CardinalityType

\* Not more elements than their names.
LEMMA FewerNames ==
    ASSUME NEW S, IsFiniteSet(S), NEW b, NEW T, \A y \in T : \E x \in S : y = b[x]
    PROVE  IsFiniteSet(T) /\ Cardinality(T) <= Cardinality(S)
           /\ Cardinality(T) \in Nat /\ Cardinality(S) \in Nat
<1> DEFINE U == {x \in S : b[x] \in T}
           f == [x \in U |-> b[x]]
<1>1. IsFiniteSet(U) /\ Cardinality(U) <= Cardinality(S)
  BY FS_Subset
<1>2. f \in Surjection(U, T)
  BY DEF Surjection
<1> HIDE DEF U, f
<1>3. IsFiniteSet(T) /\ Cardinality(T) <= Cardinality(U)
  BY <1>1, <1>2, FS_Surjection
<1>4. Cardinality(T) \in Nat /\ Cardinality(U) \in Nat /\ Cardinality(S) \in Nat
  BY <1>1, <1>3, FS_CardinalityType
<1> QED BY <1>1, <1>3, <1>4

------------------------------------------------------------------------------
(* Rows whose booking goes on *)

\* The same trades in the same order, booked to the end or not.
SameRows(s, t) ==
    /\ Len(t) = Len(s)
    /\ \A i \in 1 .. Len(s) : /\ t[i].route = s[i].route /\ t[i].outcome = s[i].outcome
                              /\ t[i].booked = "net" <=> s[i].booked = "net"

LEMMA SameLosses ==
    ASSUME NEW s \in Seq(Row), NEW t \in Seq(Row), SameRows(s, t), NEW n \in 0 .. Len(s)
    PROVE  /\ LossSum(t, n) = LossSum(s, n) /\ OpenRows(t, n) = OpenRows(s, n)
           /\ \A r : RunOrOpen(t, n, r) = RunOrOpen(s, n, r)
<1>0. Len(s) \in Nat
  BY RowFacts
<1>1. LossIn(t) = LossIn(s)
  BY DEF LossIn, SameRows
<1>2. LossSum(t, n) = LossSum(s, n)
  BY <1>1 DEF LossSum, SameRows
<1>3. \A m \in 0 .. Len(s) : OpenRows(t, m) = OpenRows(s, m)
  BY <1>0 DEF OpenRows, SameRows
<1>4. n + 1 .. Len(s) \subseteq 1 .. Len(s)
  BY <1>0
<1>5. ASSUME NEW r PROVE RunOf(t, n, r) = RunOf(s, n, r)
  BY <1>4 DEF RunOf, SameRows
<1>6. ASSUME NEW r
      PROVE  {i \in OpenRows(t, Len(t)) : t[i].route = r} = {i \in OpenRows(s, Len(s)) : s[i].route = r}
  <2>1. OpenRows(t, Len(t)) = OpenRows(s, Len(s)) /\ OpenRows(s, Len(s)) \subseteq 1 .. Len(s)
    BY <1>0, <1>3 DEF SameRows, OpenRows
  <2> QED BY <2>1 DEF SameRows
<1> QED BY <1>0, <1>2, <1>3, <1>5, <1>6 DEF RunOrOpen

------------------------------------------------------------------------------
(* A row more *)

Extends(s, t, x) ==
    /\ Len(t) = Len(s) + 1
    /\ \A i \in 1 .. Len(s) : t[i] = s[i]
    /\ t[Len(s) + 1] = x

LEMMA MoreLoss ==
    ASSUME NEW s \in Seq(Row), NEW t \in Seq(Row), NEW x, Extends(s, t, x), NEW n \in 0 .. Len(s)
    PROVE  /\ LossSum(t, n) = LossSum(s, n) + Loss(x.outcome)
           /\ Loss(x.outcome) \in Int /\ Loss(x.outcome) <= WorstLoss
<1> DEFINE f == LossIn(s)
           h == LossIn(t)
           S == n + 1 .. Len(s)
           z == Len(s) + 1
<1>0. Len(s) \in Nat /\ n \in Nat /\ n <= Len(s) /\ Len(t) = z
  BY RowFacts DEF Extends
<1>1. IsFiniteSet(S) /\ z \notin S /\ n + 1 .. Len(t) = S \union {z}
  BY <1>0, LossInt
<1>2. \A i \in 1 .. Len(s) : f[i] = Loss(s[i].outcome) /\ f[i] \in Int
  BY <1>0, LossInt
<1>3. \A i \in 1 .. Len(t) : h[i] = Loss(t[i].outcome) /\ h[i] \in Int /\ h[i] <= WorstLoss
  BY RowFacts DEF LossIn
<1>4. \A i \in S : h[i] = f[i]
  BY <1>0, <1>2, <1>3 DEF Extends
<1>5. \A i \in S \union {z} : h[i] \in Int
  BY <1>0, <1>3
<1>6. h[z] = Loss(x.outcome) /\ Loss(x.outcome) \in Int /\ Loss(x.outcome) <= WorstLoss
  BY <1>0, <1>3 DEF Extends
<1> HIDE DEF f, h, S, z
<1>7. SumFunctionOnSet(h, S) = SumFunctionOnSet(f, S)
  BY <1>1, <1>4, SumEqual
<1>8. SumFunctionOnSet(h, S \union {z}) = SumFunctionOnSet(h, S) + h[z]
  BY <1>1, <1>5, SumAdd
<1> QED BY <1>1, <1>6, <1>7, <1>8 DEF LossSum, f, h, S

LEMMA MoreOpen ==
    ASSUME NEW s \in Seq(Row), NEW t \in Seq(Row), NEW x, Extends(s, t, x), NEW n \in 0 .. Len(s)
    PROVE  /\ OpenRows(t, n) = OpenRows(s, n)
           /\ OpenRows(t, Len(t)) \subseteq OpenRows(s, Len(s)) \union {Len(s) + 1}
           /\ \A r : RunOrOpen(t, n, r) \subseteq
                        RunOrOpen(s, n, r) \union (IF x.route = r THEN {Len(s) + 1} ELSE {})
<1> DEFINE z == Len(s) + 1
<1>0. Len(s) \in Nat /\ Len(t) = z /\ z \in Nat /\ n \in Nat /\ n <= Len(s)
  BY RowFacts DEF Extends
<1>1. \A i \in 1 .. z : i \in 1 .. Len(s) \/ i = z
  BY <1>0
<1>2. \A i \in 1 .. Len(s) : i \in 1 .. z /\ i # z
  BY <1>0
<1>3. OpenRows(t, n) = OpenRows(s, n)
  BY <1>0 DEF OpenRows, Extends
<1>4. OpenRows(t, Len(t)) \subseteq OpenRows(s, Len(s)) \union {z}
  BY <1>0, <1>1 DEF OpenRows, Extends
<1>5. ASSUME NEW r PROVE RunOf(t, n, r) \subseteq RunOf(s, n, r) \union (IF x.route = r THEN {z} ELSE {})
  BY <1>0 DEF RunOf, Extends
<1>6. ASSUME NEW r, NEW i \in RunOrOpen(t, n, r)
      PROVE  i \in RunOrOpen(s, n, r) \union (IF x.route = r THEN {z} ELSE {})
  <2>1. CASE i \in RunOf(t, n, r)
    BY <1>5, <2>1 DEF RunOrOpen
  <2>2. CASE i \in OpenRows(t, Len(t)) /\ t[i].route = r
    <3>1. CASE i = z
      BY <2>2, <3>1 DEF Extends
    <3>2. CASE i # z
      <4>1. i \in OpenRows(s, Len(s)) /\ i \in 1 .. Len(s)
        BY <1>4, <2>2, <3>2 DEF OpenRows
      <4> QED BY <2>2, <4>1 DEF Extends, RunOrOpen
    <3> QED BY <3>1, <3>2
  <2> QED BY <1>6, <2>1, <2>2 DEF RunOrOpen
<1> QED BY <1>3, <1>4, <1>6
------------------------------------------------------------------------------
(* A row that moves to the end *)

\* Row i of s, whose booking had not ended, is the last row of t, booked.
ToTheEnd(s, t, i) ==
    /\ i \in 1 .. Len(s) /\ Len(t) = Len(s)
    /\ s[i].booked # "net" /\ t[Len(s)].booked = "net"
    /\ t[Len(s)].route = s[i].route /\ t[Len(s)].outcome = s[i].outcome
    /\ \A k \in 1 .. Len(s) - 1 : t[k] = IF k < i THEN s[k] ELSE s[k + 1]

NewPlace(s, i) ==
    [k \in 1 .. Len(s) |-> IF k < i THEN k ELSE IF k = i THEN Len(s) ELSE k - 1]

\* The end of a window that ended at n.
NewEnd(n, i) == IF i <= n THEN n - 1 ELSE n

\* Where the rows are found again.
LEMMA RowPlaces ==
    ASSUME NEW s \in Seq(Row), NEW t \in Seq(Row), NEW i, ToTheEnd(s, t, i)
    PROVE  /\ \A k \in 1 .. Len(s) :
                 /\ NewPlace(s, i)[k] = IF k < i THEN k ELSE IF k = i THEN Len(s) ELSE k - 1
                 /\ NewPlace(s, i)[k] \in 1 .. Len(s)
                 /\ t[NewPlace(s, i)[k]].route = s[k].route
                 /\ t[NewPlace(s, i)[k]].outcome = s[k].outcome
                 /\ k # i => t[NewPlace(s, i)[k]] = s[k]
           /\ \A k, l \in 1 .. Len(s) : NewPlace(s, i)[k] = NewPlace(s, i)[l] => k = l
           /\ \A m \in 1 .. Len(s) : \E k \in 1 .. Len(s) : m = NewPlace(s, i)[k]
<1> DEFINE n == Len(s)
           b == NewPlace(s, i)
<1>0. n \in Nat /\ i \in 1 .. n
  BY RowFacts DEF ToTheEnd
<1>1. \A k \in 1 .. n : b[k] = IF k < i THEN k ELSE IF k = i THEN n ELSE k - 1
  BY DEF NewPlace
<1>2. /\ \A k \in 1 .. n - 1 : t[k] = IF k < i THEN s[k] ELSE s[k + 1]
      /\ t[n].route = s[i].route /\ t[n].outcome = s[i].outcome
  BY DEF ToTheEnd
<1> HIDE DEF b, n
<1>3. ASSUME NEW k \in 1 .. n
      PROVE  b[k] \in 1 .. n /\ t[b[k]].route = s[k].route /\ t[b[k]].outcome = s[k].outcome
             /\ (k # i => t[b[k]] = s[k])
  <2>1. CASE k < i
    <3>1. k \in 1 .. n - 1 /\ b[k] = k
      BY <1>0, <1>1, <2>1
    <3> QED BY <1>2, <2>1, <3>1
  <2>2. CASE k = i
    <3>1. b[k] = n /\ n \in 1 .. n
      BY <1>0, <1>1, <2>2
    <3> QED BY <1>2, <2>2, <3>1
  <2>3. CASE k > i
    <3>1. k - 1 \in 1 .. n - 1 /\ b[k] = k - 1 /\ ~ (k - 1 < i) /\ (k - 1) + 1 = k /\ k - 1 \in 1 .. n
      BY <1>0, <1>1, <2>3
    <3>2. t[k - 1] = s[k]
      BY <1>2, <3>1
    <3> QED BY <3>1, <3>2
  <2> QED BY <1>0, <2>1, <2>2, <2>3
<1>4. \A k, l \in 1 .. n : b[k] = b[l] => k = l
  BY <1>0, <1>1
<1>5. ASSUME NEW m \in 1 .. n PROVE \E k \in 1 .. n : m = b[k]
  <2>1. CASE m < i
    <3>1. b[m] = m
      BY <1>0, <1>1, <2>1
    <3> QED BY <3>1
  <2>2. CASE m = n
    <3>1. b[i] = n
      BY <1>0, <1>1
    <3> QED BY <1>0, <2>2, <3>1
  <2>3. CASE ~ (m < i) /\ m # n
    <3>1. m + 1 \in 1 .. n /\ b[m + 1] = m
      BY <1>0, <1>1, <2>3
    <3> QED BY <3>1
  <2> QED BY <2>1, <2>2, <2>3
<1> QED BY <1>1, <1>3, <1>4, <1>5 DEF b, n

\* A row that moves into the window brings its loss.
LEMMA MovedLoss ==
    ASSUME NEW s \in Seq(Row), NEW t \in Seq(Row), NEW i, ToTheEnd(s, t, i), NEW n \in 0 .. Len(s)
    PROVE  /\ LossSum(t, NewEnd(n, i)) =
                 LossSum(s, n) + (IF i <= n THEN Loss(s[i].outcome) ELSE 0)
           /\ NewEnd(n, i) \in 0 .. Len(t)
<1> DEFINE m == NewEnd(n, i)
           S == n + 1 .. Len(s)
           Z == S \union {i}
           f == LossIn(s)
           h == LossIn(t)
           b == NewPlace(s, i)
<1>0. Len(s) \in Nat /\ n \in Nat /\ n <= Len(s) /\ i \in 1 .. Len(s) /\ Len(t) = Len(s)
  BY RowFacts DEF ToTheEnd
<1>1. IsFiniteSet(S) /\ IsFiniteSet(Z) /\ S \subseteq Z /\ Z \subseteq 1 .. Len(s) /\ (i \in S <=> ~ (i <= n))
  <2>1. IsFiniteSet(S) /\ S \subseteq 1 .. Len(s)
    BY LossInt
  <2>2. IsFiniteSet(Z)
    <3> HIDE DEF S
    <3> QED BY <2>1, FS_AddElement
  <2>3. i \in S <=> ~ (i <= n)
    BY <1>0
  <2> QED BY <1>0, <2>1, <2>2, <2>3
<1>2. \A k \in 1 .. Len(s) : f[k] = Loss(s[k].outcome) /\ f[k] \in Int /\ h[k] = Loss(t[k].outcome) /\ h[k] \in Int
  BY <1>0, RowFacts DEF LossIn
<1>a. ToTheEnd(s, t, i)
  OBVIOUS
<1>b. /\ \A k \in 1 .. Len(s) : /\ b[k] = IF k < i THEN k ELSE IF k = i THEN Len(s) ELSE k - 1
                                /\ b[k] \in 1 .. Len(s) /\ t[b[k]].outcome = s[k].outcome
      /\ \A k, l \in 1 .. Len(s) : b[k] = b[l] => k = l
      /\ \A l \in 1 .. Len(s) : \E k \in 1 .. Len(s) : l = b[k]
  <2> HIDE DEF f, h, S, m
  <2> QED BY <1>a, RowPlaces
<1> HIDE DEF b
<1>3. ASSUME NEW k \in 1 .. Len(s)
      PROVE  /\ b[k] = IF k < i THEN k ELSE IF k = i THEN Len(s) ELSE k - 1
             /\ b[k] \in 1 .. Len(s) /\ t[b[k]].outcome = s[k].outcome
  BY <1>b
<1>4. \A k, l \in 1 .. Len(s) : b[k] = b[l] => k = l
  BY <1>b
<1>5. ASSUME NEW k \in Z PROVE f[k] \in Int /\ f[k] = h[b[k]]
  <2> HIDE DEF f, h, S, Z
  <2>1. k \in 1 .. Len(s)
    BY <1>1
  <2>2. b[k] \in 1 .. Len(s) /\ t[b[k]].outcome = s[k].outcome
    BY <1>3, <2>1
  <2> QED BY <1>2, <2>1, <2>2
<1>6. m + 1 .. Len(s) = {b[k] : k \in Z}
  <2> DEFINE B == {b[k] : k \in Z}
  <2>1. ASSUME NEW k \in Z PROVE b[k] \in m + 1 .. Len(s)
    BY <1>0, <1>1, <1>3 DEF NewEnd
  <2>2. ASSUME NEW l \in m + 1 .. Len(s) PROVE \E k \in Z : l = b[k]
    <3>1. l \in 1 .. Len(s)
      BY <1>0 DEF NewEnd
    <3>2. PICK k \in 1 .. Len(s) : l = b[k]
      BY <1>b, <3>1
    <3>a. b[k] = IF k < i THEN k ELSE IF k = i THEN Len(s) ELSE k - 1
      BY <1>3
    <3>3. k \in Z
      BY <1>0, <2>2, <3>2, <3>a DEF NewEnd
    <3> QED BY <3>2, <3>3
  <2> QED BY <2>1, <2>2
<1> HIDE DEF f, h, b, S, m
<1>7. SumFunctionOnSet(f, Z) = SumFunctionOnSet(h, {b[k] : k \in Z})
  <2> HIDE DEF Z
  <2>1. \A k, l \in Z : b[k] = b[l] => k = l
    BY <1>1, <1>4
  <2>2. \A k \in Z : f[k] \in Int /\ f[k] = h[b[k]]
    BY <1>5
  <2>3. IsFiniteSet(Z)
    BY <1>1
  <2>4. ASSUME NEW Y, Y = {b[k] : k \in Z}
        PROVE  SumFunctionOnSet(f, Z) = SumFunctionOnSet(h, Y)
    BY <2>1, <2>2, <2>3, <2>4, SumRename
  <2> QED BY <2>4
<1>8. SumFunctionOnSet(h, m + 1 .. Len(t)) = SumFunctionOnSet(f, Z)
  BY <1>0, <1>6, <1>7
<1>9. SumFunctionOnSet(f, Z) = SumFunctionOnSet(f, S) + (IF i <= n THEN Loss(s[i].outcome) ELSE 0)
  <2>1. CASE i <= n
    <3>1. \A k \in S \union {i} : f[k] \in Int
      BY <1>1, <1>2
    <3>2. i \notin S
      BY <1>1, <2>1
    <3>3. SumFunctionOnSet(f, S \union {i}) = SumFunctionOnSet(f, S) + f[i]
      BY <1>1, <3>1, <3>2, SumAdd
    <3> QED BY <1>0, <1>2, <2>1, <3>3
  <2>2. CASE ~ (i <= n)
    <3>1. Z = S
      BY <1>1, <2>2
    <3>2. SumFunctionOnSet(f, S) \in Int
      BY LossInt DEF LossSum, f, S
    <3>3. SumFunctionOnSet(f, Z) = SumFunctionOnSet(f, S)
      BY <3>1
    <3> HIDE DEF Z
    <3> QED BY <2>2, <3>2, <3>3
  <2> QED BY <2>1, <2>2
<1>10. m \in 0 .. Len(t)
  BY <1>0 DEF NewEnd, m
<1> QED BY <1>8, <1>9, <1>10 DEF LossSum, f, h, S, m

\* A row that moves is not open any more.
LEMMA MovedOpen ==
    ASSUME NEW s \in Seq(Row), NEW t \in Seq(Row), NEW i, ToTheEnd(s, t, i), NEW n \in 0 .. Len(s)
    PROVE  /\ Cardinality(OpenRows(t, NewEnd(n, i))) + (IF i <= n THEN 1 ELSE 0) <= Cardinality(OpenRows(s, n))
           /\ Cardinality(OpenRows(t, Len(t))) + 1 <= Cardinality(OpenRows(s, Len(s)))
<1> DEFINE b == NewPlace(s, i)
           N == Len(s)
<1>0. N \in Nat /\ i \in 1 .. N /\ Len(t) = N /\ s[i].booked # "net" /\ t[N].booked = "net" /\ n \in Nat /\ n <= N
  BY RowFacts DEF ToTheEnd
<1>1. /\ \A k \in 1 .. N : /\ b[k] = IF k < i THEN k ELSE IF k = i THEN N ELSE k - 1
                           /\ k # i => t[b[k]] = s[k]
      /\ \A m \in 1 .. N : \E k \in 1 .. N : m = b[k]
  BY RowPlaces
<1> HIDE DEF b, N
<1>2. ASSUME NEW e \in 0 .. N, NEW d \in 0 .. N, i <= e, d = e \/ d = e - 1, d = e => e = N
      PROVE  Cardinality(OpenRows(t, d)) + 1 <= Cardinality(OpenRows(s, e))
  <2> DEFINE S == OpenRows(s, e) \ {i}
             T == OpenRows(t, d)
  <2>1. IsFiniteSet(OpenRows(s, e)) /\ i \in OpenRows(s, e) /\ Cardinality(OpenRows(s, e)) \in Nat
    <3>1. i \in OpenRows(s, e)
      BY <1>0, <1>2 DEF OpenRows
    <3> QED BY <3>1, OpenFinite
  <2>2. IsFiniteSet(S) /\ Cardinality(S) = Cardinality(OpenRows(s, e)) - 1
    BY <2>1, FS_RemoveElement
  <2>3. ASSUME NEW y \in T PROVE \E k \in S : y = b[k]
    <3>1. y \in 1 .. d /\ t[y].booked # "net" /\ y \in 1 .. N
      BY <1>0 DEF OpenRows
    <3>2. PICK k \in 1 .. N : y = b[k]
      BY <1>1, <3>1
    <3>a. b[k] = (IF k < i THEN k ELSE IF k = i THEN N ELSE k - 1) /\ (k # i => t[b[k]] = s[k])
      BY <1>1
    <3>3. k # i
      <4> SUFFICES ASSUME k = i PROVE FALSE
        OBVIOUS
      <4>1. ~ (k < i)
        BY <1>0
      <4>2. y = N
        BY <3>2, <3>a, <4>1
      <4> QED BY <1>0, <3>1, <4>2
    <3>b. s[k].booked # "net"
      BY <3>1, <3>2, <3>3, <3>a
    <3>c. y = k \/ (y = k - 1 /\ k > i)
      BY <1>0, <3>2, <3>3, <3>a
    <3>4. k \in 1 .. e /\ s[k].booked # "net"
      <4>1. y <= d /\ k \in Int /\ 1 <= k /\ k <= N /\ e \in Int /\ d \in Int
        BY <1>0, <3>1
      <4> QED BY <1>0, <1>2, <3>b, <3>c, <4>1
    <3> QED BY <3>2, <3>3, <3>4 DEF OpenRows
  <2> HIDE DEF S, T
  <2>4. Cardinality(T) <= Cardinality(S) /\ Cardinality(T) \in Nat
    BY <2>2, <2>3, FewerNames
  <2> QED BY <2>1, <2>2, <2>4 DEF T
<1>3. Cardinality(OpenRows(t, N)) + 1 <= Cardinality(OpenRows(s, N))
  BY <1>0, <1>2
<1>4. CASE i <= n
  <2>1. Cardinality(OpenRows(t, n - 1)) + 1 <= Cardinality(OpenRows(s, n))
    BY <1>0, <1>2, <1>4
  <2> QED BY <1>0, <1>3, <1>4, <2>1 DEF NewEnd, N
<1>5. CASE ~ (i <= n)
  <2>1. \A k \in 1 .. n : t[k] = s[k]
    <3> SUFFICES ASSUME NEW k \in 1 .. n PROVE t[k] = s[k]
      OBVIOUS
    <3>1. k \in 1 .. N /\ k < i
      BY <1>0, <1>5
    <3>a. b[k] = IF k < i THEN k ELSE IF k = i THEN N ELSE k - 1
      BY <1>1, <3>1
    <3>2. b[k] = k /\ k # i
      BY <1>0, <3>1, <3>a
    <3>3. t[b[k]] = s[k]
      BY <1>1, <3>1, <3>2
    <3> QED BY <3>2, <3>3
  <2>2. OpenRows(t, n) = OpenRows(s, n)
    BY <2>1 DEF OpenRows
  <2>3. Cardinality(OpenRows(s, n)) \in Nat
    BY <1>0, OpenFinite
  <2> QED BY <1>0, <1>3, <1>5, <2>2, <2>3 DEF NewEnd, N
<1> QED BY <1>4, <1>5

\* Nor does it make a run of losses longer than it might have become anyway.
LEMMA MovedRun ==
    ASSUME NEW s \in Seq(Row), NEW t \in Seq(Row), NEW i, ToTheEnd(s, t, i), NEW n \in 0 .. Len(s), NEW r
    PROVE  Cardinality(RunOrOpen(t, NewEnd(n, i), r)) <= Cardinality(RunOrOpen(s, n, r))
<1> DEFINE b == NewPlace(s, i)
           N == Len(s)
           m == NewEnd(n, i)
           S == RunOrOpen(s, n, r)
           T == RunOrOpen(t, m, r)
<1>0. N \in Nat /\ i \in 1 .. N /\ Len(t) = N /\ s[i].booked # "net" /\ n \in Nat /\ n <= N
      /\ t[N].booked = "net" /\ t[N].route = s[i].route /\ t[N].outcome = s[i].outcome
  BY RowFacts DEF ToTheEnd
<1>1. /\ \A k \in 1 .. N : /\ b[k] = IF k < i THEN k ELSE IF k = i THEN N ELSE k - 1
                           /\ b[k] \in 1 .. N /\ (k # i => t[b[k]] = s[k])
                           /\ t[b[k]].route = s[k].route /\ t[b[k]].outcome = s[k].outcome
      /\ \A l \in 1 .. N : \E k \in 1 .. N : l = b[k]
  BY RowPlaces
<1>2. m = IF i <= n THEN n - 1 ELSE n
  BY DEF NewEnd
<1> HIDE DEF b, N, m
<1>3. ASSUME NEW y \in T PROVE \E k \in S : y = b[k]
  <2>1. y \in 1 .. N
    BY <1>0, <1>2, <1>3 DEF RunOrOpen, RunOf, OpenRows
  <2>2. PICK k \in 1 .. N : y = b[k]
    BY <1>1, <2>1
  <2>a. b[k] = IF k < i THEN k ELSE IF k = i THEN N ELSE k - 1
    BY <1>1
  <2>3. ASSUME s[k].route = r, s[k].booked # "net" PROVE k \in S
    BY <2>3 DEF RunOrOpen, OpenRows, N
  <2>4. CASE y \in OpenRows(t, Len(t)) /\ t[y].route = r
    <3>1. t[y].booked # "net"
      BY <2>4 DEF OpenRows
    <3>2. k # i
      <4> SUFFICES ASSUME k = i PROVE FALSE
        OBVIOUS
      <4>1. y = N
        BY <1>0, <2>a, <2>2
      <4> QED BY <1>0, <3>1, <4>1
    <3> QED BY <1>1, <2>2, <2>3, <2>4, <3>1, <3>2
  <2>5. CASE y \in RunOf(t, m, r)
    <3>1. /\ y \in m + 1 .. N /\ t[y].route = r
          /\ \A j \in m + 1 .. N : t[j].route = r /\ j >= y => Loss(t[j].outcome) > 0
      BY <1>0, <2>5 DEF RunOf
    <3>2. CASE k = i
      BY <1>0, <1>1, <2>2, <2>3, <3>1, <3>2
    <3>3. CASE k # i
      <4>1. k \in n + 1 .. N /\ s[k].route = r
        <5>1. k \in n + 1 .. N
          BY <1>0, <1>2, <2>2, <2>a, <3>1, <3>3
        <5>2. s[k].route = r
          BY <1>1, <2>2, <3>1
        <5> QED BY <5>1, <5>2
      <4>2. ASSUME NEW j \in n + 1 .. N, s[j].route = r, j >= k PROVE Loss(s[j].outcome) > 0
        <5>1. j \in 1 .. N
          BY <1>0
        <5>a. b[j] = IF j < i THEN j ELSE IF j = i THEN N ELSE j - 1
          BY <1>1, <5>1
        <5>2. b[j] \in m + 1 .. N /\ b[j] >= b[k]
          BY <1>0, <1>2, <2>a, <3>3, <4>2, <5>1, <5>a
        <5>3. t[b[j]].route = r /\ t[b[j]].outcome = s[j].outcome
          BY <1>1, <4>2, <5>1
        <5> QED BY <2>2, <3>1, <5>2, <5>3
      <4>3. k \in RunOf(s, n, r)
        BY <4>1, <4>2 DEF RunOf, N
      <4> QED BY <2>2, <4>3 DEF RunOrOpen
    <3> QED BY <3>2, <3>3
  <2> QED BY <1>3, <2>4, <2>5 DEF RunOrOpen
<1>4. IsFiniteSet(S)
  BY RunFinite
<1> HIDE DEF S, T
<1>5. Cardinality(T) <= Cardinality(S)
  BY <1>3, <1>4, FewerNames
<1> QED BY <1>5 DEF S, T, m

------------------------------------------------------------------------------
(* The breakers: how much may be lost yet *)

LEMMA Products ==
    /\ \A w, a \in Nat : w * a \in Nat /\ w * (a + 1) = w * a + w
    /\ \A w, a, b \in Nat : a <= b => w * a <= w * b
<1>1. ASSUME NEW w \in Nat, NEW a \in Nat PROVE w * a \in Nat /\ w * (a + 1) = w * a + w
  OBVIOUS
<1>2. ASSUME NEW w \in Nat, NEW a \in Nat, NEW b \in Nat, a <= b PROVE w * a <= w * b
  <2>1. PICK d \in Nat : b = a + d
    <3>1. b - a \in Nat /\ b = a + (b - a)
      BY <1>2
    <3> QED BY <3>1
  <2>2. w * b = w * a + w * d /\ w * d \in Nat /\ w * a \in Nat
    BY <2>1
  <2> QED BY <2>2
<1> QED BY <1>1, <1>2

\* One position more or less.
LEMMA HeldSum ==
    ASSUME NEW f \in [Routes -> Nat]
    PROVE  /\ SumFunctionOnSet(f, Routes) \in Nat
           /\ \A r \in Routes : f[r] <= SumFunctionOnSet(f, Routes)
<1>1. SumFunctionOnSet(f, Routes) \in Nat
  BY RoutesAssumption, SumNat
<1>2. ASSUME NEW r \in Routes PROVE f[r] <= SumFunctionOnSet(f, Routes)
  <2>1. SumFunctionOnSet(f, Routes) = f[r] + SumFunctionOnSet(f, Routes \ {r})
    BY RoutesAssumption, SumRemove
  <2>2. SumFunctionOnSet(f, Routes \ {r}) \in Nat
    BY RoutesAssumption, FS_RemoveElement, SumNat
  <2> QED BY <1>1, <2>1, <2>2
<1> QED BY <1>1, <1>2

LEMMA HeldMoves ==
    ASSUME NEW f \in [Routes -> Nat], NEW h \in [Routes -> Nat], NEW r \in Routes,
           \A q \in Routes \ {r} : f[q] = h[q]
    PROVE  SumFunctionOnSet(h, Routes) = SumFunctionOnSet(f, Routes) - f[r] + h[r]
<1>1. \A q \in Routes : f[q] \in Int /\ h[q] \in Int
  OBVIOUS
<1> QED BY <1>1, RoutesAssumption, SumChange

\* The most that the rows after n have lost once all that is open has ended.
Most(s, n, h) == LossSum(s, n) + WorstLoss * (h + Cardinality(OpenRows(s, n)))

\* The length the run of losses of a route may have by then.
MostRun(s, n, r, h) == h + Cardinality(RunOrOpen(s, n, r))

AllOpen(s) == Cardinality(OpenRows(s, Len(s)))

LEMMA MostTypes ==
    ASSUME NEW s \in Seq(Row), NEW n \in 0 .. Len(s), NEW h \in Nat
    PROVE  /\ Most(s, n, h) \in Int /\ LossSum(s, n) \in Int /\ LossSum(s, n) <= Most(s, n, h)
           /\ Cardinality(OpenRows(s, n)) \in Nat /\ AllOpen(s) \in Nat
           /\ \A r : Cardinality(RunOrOpen(s, n, r)) \in Nat /\ MostRun(s, n, r, h) \in Nat
<1>1. Cardinality(OpenRows(s, n)) \in Nat /\ AllOpen(s) \in Nat
  BY RowFacts, OpenFinite DEF AllOpen
<1>2. LossSum(s, n) \in Int
  BY LossInt
<1>3. WorstLoss * (h + Cardinality(OpenRows(s, n))) \in Nat
  BY <1>1, Products, BreakersAssumption
<1>4. \A r : Cardinality(RunOrOpen(s, n, r)) \in Nat
  BY RunFinite
<1> HIDE DEF RunOrOpen
<1> QED BY <1>1, <1>2, <1>3, <1>4 DEF Most, MostRun

LEMMA OneMore ==
    ASSUME NEW S, IsFiniteSet(S), NEW z, NEW T, T \subseteq S \union {z}
    PROVE  Cardinality(T) <= Cardinality(S) + 1
<1>1. IsFiniteSet(S \union {z}) /\ Cardinality(S \union {z}) <= Cardinality(S) + 1
  <2>1. Cardinality(S) \in Nat
    BY FS_CardinalityType
  <2>2. IsFiniteSet(S \union {z})
    BY FS_AddElement
  <2>3. CASE z \in S
    <3>1. S \union {z} = S
      BY <2>3
    <3> QED BY <2>1, <2>2, <3>1
  <2>4. CASE z \notin S
    <3>1. Cardinality(S \union {z}) = Cardinality(S) + 1
      BY <2>4, FS_AddElement
    <3> QED BY <2>1, <2>2, <3>1
  <2> QED BY <2>3, <2>4
<1>2. Cardinality(T) <= Cardinality(S \union {z})
  BY <1>1, FS_Subset
<1>3. Cardinality(S) \in Nat /\ Cardinality(T) \in Nat /\ Cardinality(S \union {z}) \in Nat
  BY <1>1, FS_Subset, FS_CardinalityType
<1> QED BY <1>1, <1>2, <1>3

\* A trade that ends: what it loses was expected of it.
LEMMA MostAppend ==
    ASSUME NEW s \in Seq(Row), NEW t \in Seq(Row), NEW x, Extends(s, t, x),
           NEW n \in 0 .. Len(s), NEW h \in Nat, h > 0
    PROVE  /\ Most(t, n, h - 1) <= Most(s, n, h)
           /\ AllOpen(t) <= AllOpen(s) + 1
<1>0. Len(s) \in Nat /\ Len(t) = Len(s) + 1 /\ n \in 0 .. Len(t)
  BY RowFacts DEF Extends
<1>1. /\ LossSum(t, n) = LossSum(s, n) + Loss(x.outcome)
      /\ Loss(x.outcome) \in Int /\ Loss(x.outcome) <= WorstLoss
  BY MoreLoss
<1>2. OpenRows(t, n) = OpenRows(s, n) /\ OpenRows(t, Len(t)) \subseteq OpenRows(s, Len(s)) \union {Len(s) + 1}
  BY MoreOpen
<1> DEFINE c == Cardinality(OpenRows(s, n))
<1>3. c \in Nat /\ LossSum(s, n) \in Int
  BY MostTypes
<1> HIDE DEF c
<1>4. h - 1 \in Nat /\ (h - 1) + c \in Nat /\ h + c = ((h - 1) + c) + 1
  BY <1>3
<1>5. WorstLoss * (h + c) = WorstLoss * ((h - 1) + c) + WorstLoss /\ WorstLoss * ((h - 1) + c) \in Nat
      /\ WorstLoss \in Nat
  BY <1>4, Products, BreakersAssumption
<1>6. Most(t, n, h - 1) = LossSum(t, n) + WorstLoss * ((h - 1) + c)
      /\ Most(s, n, h) = LossSum(s, n) + WorstLoss * (h + c)
  BY <1>2 DEF Most, c
<1>7. Most(t, n, h - 1) <= Most(s, n, h)
  BY <1>1, <1>3, <1>5, <1>6
<1>8. AllOpen(t) <= AllOpen(s) + 1
  <2> DEFINE S == OpenRows(s, Len(s))
             T == OpenRows(t, Len(t))
             z == Len(s) + 1
  <2>1. IsFiniteSet(S) /\ Cardinality(S) \in Nat
    BY <1>0, OpenFinite
  <2>2. T \subseteq S \union {z}
    BY <1>2
  <2> HIDE DEF S, T, z
  <2>3. Cardinality(T) <= Cardinality(S) + 1
    BY <2>1, <2>2, OneMore
  <2> QED BY <2>3 DEF AllOpen, S, T
<1> QED BY <1>7, <1>8

LEMMA RunAppend ==
    ASSUME NEW s \in Seq(Row), NEW t \in Seq(Row), NEW x, Extends(s, t, x),
           NEW n \in 0 .. Len(s), NEW r
    PROVE  Cardinality(RunOrOpen(t, n, r)) <=
              Cardinality(RunOrOpen(s, n, r)) + (IF x.route = r THEN 1 ELSE 0)
<1> DEFINE S == RunOrOpen(s, n, r)
           T == RunOrOpen(t, n, r)
           z == Len(s) + 1
<1>1. T \subseteq S \union (IF x.route = r THEN {z} ELSE {})
  BY MoreOpen
<1>2. IsFiniteSet(S) /\ Cardinality(S) \in Nat
  BY RunFinite
<1> HIDE DEF S, T, z
<1>3. CASE x.route = r
  <2>1. T \subseteq S \union {z}
    BY <1>1, <1>3
  <2>2. Cardinality(T) <= Cardinality(S) + 1
    BY <1>2, <2>1, OneMore
  <2> QED BY <1>2, <1>3, <2>2 DEF S, T
<1>4. CASE x.route # r
  <2>1. T \subseteq S
    BY <1>1, <1>4
  <2>2. Cardinality(T) <= Cardinality(S)
    BY <1>2, <2>1, FS_Subset
  <2> QED BY <1>2, <1>4, <2>2 DEF S, T
<1> QED BY <1>3, <1>4

\* A row that is booked to the end: its loss was expected too.
LEMMA MostMove ==
    ASSUME NEW s \in Seq(Row), NEW t \in Seq(Row), NEW i, ToTheEnd(s, t, i),
           NEW n \in 0 .. Len(s), NEW h \in Nat
    PROVE  /\ Most(t, NewEnd(n, i), h) <= Most(s, n, h)
           /\ NewEnd(n, i) \in 0 .. Len(t)
           /\ AllOpen(t) <= AllOpen(s)
<1> DEFINE m == NewEnd(n, i)
           c == Cardinality(OpenRows(s, n))
           d == Cardinality(OpenRows(t, m))
           l == Loss(s[i].outcome)
<1>1. LossSum(t, m) = LossSum(s, n) + (IF i <= n THEN l ELSE 0) /\ m \in 0 .. Len(t)
  BY MovedLoss
<1>2. d + (IF i <= n THEN 1 ELSE 0) <= c /\ AllOpen(t) + 1 <= AllOpen(s)
  BY MovedOpen DEF AllOpen
<1>3. l \in Int /\ l <= WorstLoss /\ i \in 1 .. Len(s) /\ Len(s) \in Nat /\ n \in Nat
  BY RowFacts DEF ToTheEnd
<1>4. c \in Nat /\ LossSum(s, n) \in Int /\ AllOpen(s) \in Nat
  BY MostTypes
<1>5. d \in Nat /\ AllOpen(t) \in Nat
  BY <1>1, MostTypes
<1>6. Most(t, m, h) = LossSum(t, m) + WorstLoss * (h + d) /\ Most(s, n, h) = LossSum(s, n) + WorstLoss * (h + c)
  BY DEF Most
<1> HIDE DEF m, c, d, l
<1>7. CASE i <= n
  <2>1. (h + d) + 1 <= h + c /\ (h + d) + 1 \in Nat /\ h + d \in Nat /\ h + c \in Nat
    BY <1>2, <1>4, <1>5, <1>7
  <2>2. WorstLoss * ((h + d) + 1) = WorstLoss * (h + d) + WorstLoss /\ WorstLoss * (h + d) \in Nat
        /\ WorstLoss \in Nat /\ WorstLoss * (h + c) \in Nat
    BY <2>1, Products, BreakersAssumption
  <2> DEFINE a == (h + d) + 1
             b == h + c
  <2>a. a \in Nat /\ b \in Nat /\ a <= b /\ WorstLoss \in Nat
    BY <2>1, <2>2
  <2> HIDE DEF a, b
  <2>b. WorstLoss * a <= WorstLoss * b
    BY <2>a, Products
  <2>3. WorstLoss * ((h + d) + 1) <= WorstLoss * (h + c)
    BY <2>b DEF a, b
  <2>4. LossSum(t, m) = LossSum(s, n) + l
    BY <1>1, <1>7
  <2> DEFINE u == WorstLoss * (h + d)
             v == WorstLoss * (h + c)
  <2>5. u \in Nat /\ v \in Nat /\ u + WorstLoss <= v /\ WorstLoss \in Nat
    BY <2>2, <2>3
  <2> HIDE DEF u, v
  <2>6. Most(t, m, h) = (LossSum(s, n) + l) + u /\ Most(s, n, h) = LossSum(s, n) + v
    BY <1>6, <2>4 DEF u, v
  <2>7. Most(t, m, h) <= Most(s, n, h)
    BY <1>3, <1>4, <2>5, <2>6
  <2>8. AllOpen(t) <= AllOpen(s)
    BY <1>2, <1>4, <1>5
  <2> QED BY <1>1, <2>7, <2>8 DEF m
<1>8. CASE ~ (i <= n)
  <2>1. h + d <= h + c /\ h + d \in Nat /\ h + c \in Nat
    BY <1>2, <1>4, <1>5, <1>8
  <2>2. WorstLoss * (h + d) <= WorstLoss * (h + c) /\ WorstLoss * (h + d) \in Nat /\ WorstLoss * (h + c) \in Nat
    BY <2>1, Products, BreakersAssumption
  <2>3. LossSum(t, m) = LossSum(s, n)
    BY <1>1, <1>4, <1>8
  <2> QED BY <1>1, <1>2, <1>4, <1>5, <1>6, <2>2, <2>3 DEF m
<1> QED BY <1>7, <1>8

\* After the last row: the open positions and rows alone.
LEMMA MostEnd ==
    ASSUME NEW s \in Seq(Row), NEW h \in Nat
    PROVE  Most(s, Len(s), h) = WorstLoss * (h + AllOpen(s))
<1>1. LossSum(s, Len(s)) = 0 /\ Len(s) \in 0 .. Len(s)
  BY RowFacts, LossInt
<1>2. AllOpen(s) \in Nat
  BY <1>1, MostTypes
<1>3. WorstLoss * (h + AllOpen(s)) \in Nat
  BY <1>2, Products, BreakersAssumption
<1> QED BY <1>1, <1>3 DEF Most, AllOpen

LEMMA LookbackShrinks ==
    ASSUME NEW s \in Seq(Row), NEW n \in 0 .. Len(s), n < Len(s), NEW r
    PROVE  Cardinality(RunOrOpen(s, n + 1, r)) <= Cardinality(RunOrOpen(s, n, r))
<1>1. Len(s) \in Nat /\ n + 1 \in 0 .. Len(s) /\ n + 1 + 1 .. Len(s) \subseteq n + 1 .. Len(s)
      /\ \A i, j \in n + 1 .. Len(s) : i \in n + 1 + 1 .. Len(s) /\ j >= i => j \in n + 1 + 1 .. Len(s)
  BY RowFacts
<1>2. RunOf(s, n + 1, r) \subseteq RunOf(s, n, r)
  BY <1>1 DEF RunOf
<1>3. RunOrOpen(s, n + 1, r) \subseteq RunOrOpen(s, n, r)
  BY <1>2 DEF RunOrOpen
<1>4. IsFiniteSet(RunOrOpen(s, n, r))
  BY RunFinite
<1> QED BY <1>3, <1>4, FS_Subset

------------------------------------------------------------------------------
(* The breakers: the invariant *)

\* More positions, more to lose.
LEMMA MostGrows ==
    ASSUME NEW s \in Seq(Row), NEW n \in 0 .. Len(s), NEW h \in Nat, NEW k \in Nat, h <= k
    PROVE  /\ Most(s, n, h) <= Most(s, n, k)
           /\ \A r : MostRun(s, n, r, h) <= MostRun(s, n, r, k)
<1> DEFINE c == Cardinality(OpenRows(s, n))
           l == LossSum(s, n)
<1>1. c \in Nat /\ l \in Int /\ \A r : Cardinality(RunOrOpen(s, n, r)) \in Nat
  BY MostTypes
<1>2. Most(s, n, h) = l + WorstLoss * (h + c) /\ Most(s, n, k) = l + WorstLoss * (k + c)
  BY DEF Most
<1> HIDE DEF c, l
<1> DEFINE a == h + c
           b == k + c
<1>3. a \in Nat /\ b \in Nat /\ a <= b /\ WorstLoss \in Nat
  BY <1>1, BreakersAssumption
<1> HIDE DEF a, b
<1>4. WorstLoss * a <= WorstLoss * b /\ WorstLoss * a \in Nat /\ WorstLoss * b \in Nat
  BY <1>3, Products
<1>5. Most(s, n, h) <= Most(s, n, k)
  BY <1>1, <1>2, <1>4 DEF a, b
<1>6. \A r : MostRun(s, n, r, h) <= MostRun(s, n, r, k)
  BY <1>1 DEF MostRun
<1> QED BY <1>5, <1>6

\* The attempts that may still open a position: all of them, the ones that
\* have read a metric, and the ones that have read this one.
Openings == {b \in Buyers : attempt[b].kind = "open"}
Asked == {b \in Openings : attempt[b].read # {}}
Reads(metric) == {b \in Openings : metric \in attempt[b].read}
ReadsOf(r) == {b \in Reads("streak") : attempt[b].route = r}

\* What is lost once these have opened a position and all has ended.
DayMost == Most(closes, dayFrom, HeldCount + Cardinality(Reads("day")))
TotalMost == Most(closes, 0, HeldCount + Cardinality(Reads("total")))
RunMost(r) == MostRun(closes, streakFrom, r, held[r] + Cardinality(ReadsOf(r)))

\* There is room for every attempt, and for those that have read a metric beside
\* the rows whose booking goes on.
Room ==
    /\ HeldCount + Cardinality(Openings) <= MostPositions
    /\ HeldCount + Cardinality(Asked) + AllOpen(closes) <= MostPositions

Bounded ==
    /\ Room
    /\ DayLimit > 0 => DayMost < DayLimit + WorstLoss * MostPositions
    /\ DrawdownLimit > 0 => TotalMost < DrawdownLimit + WorstLoss * MostPositions
    /\ \A r \in Routes : StreakLimit[r] \in 1 .. StreakRows =>
          RunMost(r) < StreakLimit[r] + MostPositions

RiskInv == RiskTypes /\ (~ waived => Bounded)

LEMMA CallCounts ==
    /\ Cardinality(Buyers) \in Nat /\ Cardinality(Buyers) > 0
    /\ \A S \in SUBSET Buyers : IsFiniteSet(S) /\ Cardinality(S) \in Nat /\ Cardinality(S) <= Cardinality(Buyers)
    /\ \A T \in SUBSET Buyers : \A S \in SUBSET T : Cardinality(S) <= Cardinality(T)
    /\ MostPositions \in Nat /\ MostPositions = TradingSlots + Cardinality(Buyers) - 1
<1>1. IsFiniteSet(Buyers) /\ Buyers # {}
  BY BuyersAssumption
<1>2. Cardinality(Buyers) \in Nat /\ Cardinality(Buyers) > 0
  BY <1>1, FS_CardinalityType, FS_EmptySet
<1>3. ASSUME NEW T \in SUBSET Buyers
      PROVE  /\ IsFiniteSet(T) /\ Cardinality(T) \in Nat /\ Cardinality(T) <= Cardinality(Buyers)
             /\ \A S \in SUBSET T : Cardinality(S) <= Cardinality(T)
  BY <1>1, FS_Subset, FS_CardinalityType
<1>4. MostPositions \in Nat /\ MostPositions = TradingSlots + Cardinality(Buyers) - 1
  BY <1>2, BreakersAssumption DEF MostPositions
<1> QED BY <1>2, <1>3, <1>4

\* The sizes of what is bounded.
Sized ==
    /\ closes \in Seq(Row) /\ Len(closes) \in Nat /\ AllOpen(closes) \in Nat
    /\ dayFrom \in 0 .. Len(closes) /\ streakFrom \in 0 .. Len(closes) /\ 0 \in 0 .. Len(closes)
    /\ HeldCount \in Nat /\ \A r \in Routes : held[r] \in Nat /\ held[r] <= HeldCount
    /\ Openings \in SUBSET Buyers /\ Asked \in SUBSET Openings
    /\ \A m : Reads(m) \in SUBSET Openings /\ Cardinality(Reads(m)) \in Nat
    /\ \A r : ReadsOf(r) \in SUBSET Reads("streak") /\ Cardinality(ReadsOf(r)) \in Nat
    /\ Cardinality(Openings) \in Nat /\ Cardinality(Asked) \in Nat
    /\ DayMost \in Int /\ TotalMost \in Int /\ \A r \in Routes : RunMost(r) \in Nat

LEMMA Sizes == RiskTypes => Sized
<1> SUFFICES ASSUME RiskTypes PROVE Sized
  OBVIOUS
<1>1. held \in [Routes -> Nat]
  BY DEF RiskTypes
<1>2. HeldCount \in Nat /\ \A r \in Routes : held[r] \in Nat /\ held[r] <= HeldCount
  BY <1>1, HeldSum DEF HeldCount
<1>3. closes \in Seq(Row) /\ Len(closes) \in Nat /\ 0 \in 0 .. Len(closes)
      /\ dayFrom \in 0 .. Len(closes) /\ streakFrom \in 0 .. Len(closes)
  BY RowTypes DEF RiskTypes
<1>4. AllOpen(closes) \in Nat
  BY <1>2, <1>3, MostTypes
<1>5. /\ Openings \in SUBSET Buyers /\ Asked \in SUBSET Openings
      /\ \A m : Reads(m) \in SUBSET Openings
      /\ \A r : ReadsOf(r) \in SUBSET Reads("streak")
  BY DEF Openings, Asked, Reads, ReadsOf
<1>6. /\ \A m : Cardinality(Reads(m)) \in Nat
      /\ \A r : Cardinality(ReadsOf(r)) \in Nat
      /\ Cardinality(Openings) \in Nat /\ Cardinality(Asked) \in Nat
  <2>1. \A S \in SUBSET Buyers : Cardinality(S) \in Nat
    BY CallCounts
  <2>2. /\ Asked \in SUBSET Buyers /\ \A m : Reads(m) \in SUBSET Buyers
        /\ \A r : ReadsOf(r) \in SUBSET Buyers
    BY <1>5
  <2> QED BY <1>5, <2>1, <2>2
<1>7. DayMost \in Int /\ TotalMost \in Int
  <2>1. ASSUME NEW m PROVE HeldCount + Cardinality(Reads(m)) \in Nat
    BY <1>2, <1>6
  <2> QED BY <1>3, <2>1, MostTypes DEF DayMost, TotalMost
<1>8. ASSUME NEW r \in Routes PROVE RunMost(r) \in Nat
  <2> DEFINE k == held[r] + Cardinality(ReadsOf(r))
  <2>1. k \in Nat
    BY <1>2, <1>6
  <2> HIDE DEF k
  <2>2. MostRun(closes, streakFrom, r, k) \in Nat
    BY <1>3, <2>1, MostTypes
  <2> QED BY <2>2 DEF RunMost, k
<1> QED BY <1>2, <1>3, <1>4, <1>5, <1>6, <1>7, <1>8 DEF Sized

LEMMA SizesNext == RiskTypes' => Sized'
BY Sizes, PTL

Counted ==
    /\ HeldCount \in Nat /\ AllOpen(closes) \in Nat
    /\ Cardinality(Openings) \in Nat /\ Cardinality(Asked) \in Nat
    /\ \A m : Cardinality(Reads(m)) \in Nat

LEMMA Counts == RiskTypes => Counted
BY Sizes DEF Sized, Counted

LEMMA CountsNext == RiskTypes' => Counted'
BY Counts, PTL

\* Nothing more to lose, and no more room taken: the bounds stay.
LEMMA Quiet ==
    ASSUME Sized, Sized', Bounded, Room', DayMost' <= DayMost, TotalMost' <= TotalMost,
           \A r \in Routes : RunMost(r)' <= RunMost(r)
    PROVE  Bounded'
<1> DEFINE k == WorstLoss * MostPositions
<1>1. k \in Nat /\ MostPositions \in Nat /\ DayLimit \in Nat /\ DrawdownLimit \in Nat
  BY CallCounts, Products, BreakersAssumption
<1>2. DayMost \in Int /\ DayMost' \in Int /\ TotalMost \in Int /\ TotalMost' \in Int
      /\ \A r \in Routes : RunMost(r) \in Nat /\ RunMost(r)' \in Nat
  BY DEF Sized
<1>3. (DayLimit > 0 => DayMost < DayLimit + k) /\ (DrawdownLimit > 0 => TotalMost < DrawdownLimit + k)
  BY DEF Bounded
<1> HIDE DEF k
<1>4. (DayLimit > 0 => DayMost' < DayLimit + k) /\ (DrawdownLimit > 0 => TotalMost' < DrawdownLimit + k)
  BY <1>1, <1>2, <1>3
<1>5. ASSUME NEW r \in Routes, StreakLimit[r] \in 1 .. StreakRows
      PROVE  RunMost(r)' < StreakLimit[r] + MostPositions
  <2>1. RunMost(r) < StreakLimit[r] + MostPositions /\ RunMost(r)' <= RunMost(r) /\ StreakLimit[r] \in Nat
    BY <1>5, BreakersAssumption DEF Bounded
  <2> QED BY <1>1, <1>2, <2>1
<1> QED BY <1>4, <1>5 DEF Bounded, k

\* The rows and the limits alone decide whether what was lost is bounded.
LEMMA NetIsLoss ==
    ASSUME RiskTypes, ~ Unfinished, NEW i \in 1 .. Len(closes)
    PROVE  /\ NetProfit(closes[i]) = - Loss(closes[i].outcome)
           /\ Loss(closes[i].outcome) \in Int /\ closes[i].booked = "net"
<1>1. closes[i].booked = "net" /\ closes[i].outcome.priced /\ closes[i].outcome \in Outcomes
  BY RowTypes DEF Unfinished
<1> DEFINE o == closes[i].outcome
<1>2. o.gross \in Int /\ o.entry \in Nat /\ o.fee \in Nat
  BY <1>1, OutcomesAssumption
<1>3. NetProfit(closes[i]) = o.gross - (o.entry + o.fee) /\ Loss(o) = o.entry + o.fee - o.gross
  BY <1>1 DEF NetProfit, GrossProfit, Fees, Loss
<1> HIDE DEF o
<1>4. NetProfit(closes[i]) = - Loss(o) /\ Loss(o) \in Int
  BY <1>2, <1>3
<1> QED BY <1>1, <1>4 DEF o

LEMMA TrueLossIsSum ==
    ASSUME RiskTypes, NEW n \in 0 .. Len(closes)
    PROVE  /\ TrueLoss(n) = LossSum(closes, n)
           /\ ~ Unfinished => BookedSince(n) = - LossSum(closes, n)
           /\ ~ Unfinished => AllOpen(closes) = 0 /\ OpenRows(closes, n) = {} /\ OpenRows(closes, Len(closes)) = {}
<1> DEFINE S == n + 1 .. Len(closes)
           f == LossIn(closes)
           g == [i \in S |-> Loss(closes[i].outcome)]
           h == [i \in S |-> NetProfit(closes[i])]
<1>0. closes \in Seq(Row) /\ Len(closes) \in Nat /\ After(n) = S /\ After(0) = 1 .. Len(closes)
  BY RowTypes DEF RiskTypes, After
<1>1. IsFiniteSet(S) /\ S \subseteq 1 .. Len(closes)
      /\ \A i \in 1 .. Len(closes) : f[i] = Loss(closes[i].outcome) /\ f[i] \in Int
  BY <1>0, LossInt
<1>2. \A i \in S : g[i] = f[i]
  BY <1>1
<1>3. ~ Unfinished => \A i \in S : h[i] = - f[i]
  BY <1>1, NetIsLoss
<1>4. TrueLoss(n) = SumFunctionOnSet(g, S) /\ BookedSince(n) = SumFunctionOnSet(h, S)
      /\ LossSum(closes, n) = SumFunctionOnSet(f, S)
  BY <1>0 DEF TrueLoss, BookedSince, LossSum
<1>5. LossSum(closes, n) \in Int
  BY <1>0, LossInt
<1> HIDE DEF S, f, g, h
<1>6. SumFunctionOnSet(g, S) = SumFunctionOnSet(f, S)
  BY <1>1, <1>2, SumEqual
<1>7. ASSUME ~ Unfinished PROVE SumFunctionOnSet(h, S) = - SumFunctionOnSet(f, S)
  <2>1. \A i \in S : f[i] \in Int /\ h[i] = - f[i]
    BY <1>1, <1>3, <1>7
  <2>2. IsFiniteSet(S)
    BY <1>1
  <2>3. ASSUME NEW F, NEW H, NEW T, IsFiniteSet(T), \A i \in T : F[i] \in Int /\ H[i] = - F[i]
        PROVE  SumFunctionOnSet(H, T) = - SumFunctionOnSet(F, T)
    BY <2>3, SumNegate
  <2> QED BY <2>1, <2>2, <2>3
<1>8. ASSUME ~ Unfinished
      PROVE  AllOpen(closes) = 0 /\ OpenRows(closes, n) = {} /\ OpenRows(closes, Len(closes)) = {}
  <2>1. \A i \in 1 .. Len(closes) : closes[i].booked = "net"
    BY <1>8, NetIsLoss
  <2>2. OpenRows(closes, n) = {} /\ OpenRows(closes, Len(closes)) = {}
    BY <1>0, <2>1 DEF OpenRows
  <2> QED BY <2>2, FS_EmptySet DEF AllOpen
<1> QED BY <1>4, <1>5, <1>6, <1>7, <1>8

LEMMA RunIsRunOf ==
    ASSUME RiskTypes, NEW r
    PROVE  /\ Run(streakFrom, r, LAMBDA c : Loss(c.outcome) > 0) <= Cardinality(RunOrOpen(closes, streakFrom, r))
           /\ Run(streakFrom, r, LAMBDA c : Loss(c.outcome) > 0) \in Nat
           /\ ~ Unfinished => LossRun(streakFrom, r) =
                 AtMost(Cardinality(RunOrOpen(closes, streakFrom, r)), AtMost(StreakLimit[r], StreakRows))
<1>0. closes \in Seq(Row) /\ Len(closes) \in Nat /\ After(streakFrom) = streakFrom + 1 .. Len(closes)
      /\ After(0) = 1 .. Len(closes) /\ streakFrom \in 0 .. Len(closes)
  BY RowTypes DEF RiskTypes, After
<1> DEFINE A == {i \in {i \in After(streakFrom) : closes[i].route = r} :
                    \A j \in {i_1 \in After(streakFrom) : closes[i_1].route = r} :
                        j >= i => Loss(closes[j].outcome) > 0}
           B == {i \in {i \in After(streakFrom) : closes[i].route = r} :
                    \A j \in {i_1 \in After(streakFrom) : closes[i_1].route = r} :
                        j >= i => NetProfit(closes[j]) < 0}
<1>1. Run(streakFrom, r, LAMBDA c : Loss(c.outcome) > 0) = Cardinality(A)
  BY DEF Run
<1>2. LossRun(streakFrom, r) = AtMost(Cardinality(B), AtMost(StreakLimit[r], StreakRows))
  BY DEF LossRun, Run
<1>3. A = RunOf(closes, streakFrom, r)
  BY <1>0 DEF RunOf
<1>4. ASSUME ~ Unfinished, NEW j \in After(streakFrom)
      PROVE  NetProfit(closes[j]) < 0 <=> Loss(closes[j].outcome) > 0
  <2>1. j \in 1 .. Len(closes)
    BY <1>0
  <2> QED BY <1>4, <2>1, NetIsLoss
<1>5. ~ Unfinished => B = A
  BY <1>4
<1>6. ~ Unfinished => RunOrOpen(closes, streakFrom, r) = RunOf(closes, streakFrom, r)
  BY <1>0, TrueLossIsSum DEF RunOrOpen
<1>7. RunOf(closes, streakFrom, r) \subseteq RunOrOpen(closes, streakFrom, r)
  BY DEF RunOrOpen
<1>8. IsFiniteSet(RunOrOpen(closes, streakFrom, r))
  BY <1>0, RunFinite
<1>9. Cardinality(RunOf(closes, streakFrom, r)) <= Cardinality(RunOrOpen(closes, streakFrom, r))
      /\ Cardinality(RunOf(closes, streakFrom, r)) \in Nat
  BY <1>7, <1>8, FS_Subset, FS_CardinalityType
<1> HIDE DEF A, B
<1> QED BY <1>1, <1>2, <1>3, <1>5, <1>6, <1>9

LEMMA BoundedAtFirst == RiskInit => RiskInv
<1> SUFFICES ASSUME RiskInit PROVE RiskInv
  OBVIOUS
<1>1. RiskTypes
  BY RiskTypesAtFirst
<1>2. closes = << >> /\ Len(closes) = 0 /\ held = [r \in Routes |-> 0] /\ dayFrom = 0 /\ streakFrom = 0
      /\ \A b \in Buyers : attempt[b].kind # "open"
  BY DEF RiskInit, NoAttempt
<1>3. HeldCount = 0
  <2>1. \A r \in Routes : held[r] = 0
    BY <1>2
  <2>2. held \in [Routes -> Nat]
    BY <1>1 DEF RiskTypes
  <2>3. \A r \in Routes : held[r] \in Int /\ held[r] = 0 * held[r]
    BY <2>1, <2>2
  <2>4. SumFunctionOnSet(held, Routes) = 0 * SumFunctionOnSet(held, Routes)
    BY <2>3, RoutesAssumption, SumScale
  <2>5. SumFunctionOnSet(held, Routes) \in Nat
    BY <2>2, HeldSum
  <2> QED BY <2>4, <2>5 DEF HeldCount
<1>4. \A n : n = 0 => OpenRows(closes, n) = {}
  BY DEF OpenRows
<1>5. AllOpen(closes) = 0
  BY <1>2, <1>4, FS_EmptySet DEF AllOpen
<1>6. closes \in Seq(Row) /\ 0 \in 0 .. Len(closes)
  BY <1>1, <1>2 DEF RiskTypes
<1>7. Most(closes, 0, 0) = WorstLoss * (0 + 0)
  BY <1>2, <1>5, <1>6, MostEnd
<1>8. Openings = {} /\ Asked = {} /\ (\A m : Reads(m) = {}) /\ (\A r : ReadsOf(r) = {})
  BY <1>2 DEF Openings, Asked, Reads, ReadsOf
<1>9. DayMost = WorstLoss * (0 + 0) /\ TotalMost = WorstLoss * (0 + 0)
  <2>1. HeldCount + Cardinality(Reads("day")) = 0 /\ HeldCount + Cardinality(Reads("total")) = 0
    BY <1>3, <1>8, FS_EmptySet
  <2>2. DayMost = Most(closes, 0, 0) /\ TotalMost = Most(closes, 0, 0)
    BY <1>2, <2>1 DEF DayMost, TotalMost
  <2> QED BY <1>7, <2>2
<1>10. ASSUME NEW r \in Routes PROVE RunMost(r) = 0
  <2>1. held[r] = 0 /\ RunOrOpen(closes, streakFrom, r) = {}
    BY <1>2, <1>4 DEF RunOrOpen, RunOf
  <2> QED BY <1>8, <2>1, FS_EmptySet DEF RunMost, MostRun
<1>11. WorstLoss * (0 + 0) = 0 /\ WorstLoss * MostPositions \in Nat /\ MostPositions \in Nat
       /\ DayLimit \in Nat /\ DrawdownLimit \in Nat
  BY CallCounts, Products, BreakersAssumption
<1>12. Room
  BY <1>3, <1>5, <1>8, <1>11, FS_EmptySet DEF Room
<1>13. /\ DayLimit > 0 => DayMost < DayLimit + WorstLoss * MostPositions
       /\ DrawdownLimit > 0 => TotalMost < DrawdownLimit + WorstLoss * MostPositions
  BY <1>9, <1>11
<1>14. ASSUME NEW r \in Routes, StreakLimit[r] \in 1 .. StreakRows
       PROVE  RunMost(r) < StreakLimit[r] + MostPositions
  BY <1>10, <1>11, <1>14, BreakersAssumption
<1> QED BY <1>1, <1>12, <1>13, <1>14 DEF RiskInv, Bounded

\* Rows, positions and windows as they were.
Still == closes' = closes /\ held' = held /\ dayFrom' = dayFrom /\ streakFrom' = streakFrom

\* Fewer attempts that have read a metric; there is room for all of them.
LEMMA FewerReads ==
    ASSUME RiskTypes, RiskTypes', Bounded, Still,
           HeldCount + Cardinality(Openings)' <= MostPositions,
           \A b \in Buyers : attempt'[b].kind = "open" => attempt'[b] = attempt[b] \/ attempt'[b].read = {}
    PROVE  Bounded'
<1>1. Sized /\ Sized'
  BY Sizes, SizesNext
<1>2. HeldCount' = HeldCount /\ AllOpen(closes)' = AllOpen(closes)
  BY DEF Still, HeldCount
<1>3. Asked' \in SUBSET Asked /\ Asked \in SUBSET Buyers
  BY DEF Asked, Openings
<1>4. ASSUME NEW m PROVE Reads(m)' \in SUBSET Reads(m) /\ Reads(m) \in SUBSET Buyers
  BY DEF Reads, Openings
<1>5. ASSUME NEW r PROVE ReadsOf(r)' \in SUBSET ReadsOf(r) /\ ReadsOf(r) \in SUBSET Buyers
  BY DEF ReadsOf, Reads, Openings
<1>6. /\ Cardinality(Asked)' <= Cardinality(Asked)
      /\ \A m : Cardinality(Reads(m))' <= Cardinality(Reads(m))
      /\ \A r : Cardinality(ReadsOf(r))' <= Cardinality(ReadsOf(r))
  BY <1>3, <1>4, <1>5, CallCounts
<1>7. Room'
  <2>1. Counted /\ Counted'
    BY Counts, CountsNext
  <2> DEFINE h == HeldCount
             o == Cardinality(Openings)'
             s == Cardinality(Asked)
             t == Cardinality(Asked)'
             a == AllOpen(closes)
  <2>2. h \in Nat /\ s \in Nat /\ t \in Nat /\ a \in Nat /\ MostPositions \in Nat /\ t <= s
    BY <1>6, <2>1, CallCounts DEF Counted
  <2>3. h + s + a <= MostPositions /\ h + o <= MostPositions
    BY DEF Bounded, Room
  <2> HIDE DEF h, o, s, t, a
  <2>4. h + t + a <= MostPositions
    BY <2>2, <2>3
  <2> QED BY <1>2, <2>3, <2>4 DEF Room, h, o, t, a
<1>8. ASSUME NEW m, NEW n \in 0 .. Len(closes)
      PROVE  Most(closes, n, HeldCount + Cardinality(Reads(m))') <= Most(closes, n, HeldCount + Cardinality(Reads(m)))
  <2> DEFINE h == HeldCount + Cardinality(Reads(m))'
             k == HeldCount + Cardinality(Reads(m))
  <2>0. HeldCount \in Nat /\ Cardinality(Reads(m)) \in Nat /\ Cardinality(Reads(m))' \in Nat
        /\ closes \in Seq(Row)
    BY <1>1, Counts, CountsNext DEF Counted, Sized
  <2>1. h \in Nat /\ k \in Nat /\ h <= k /\ closes \in Seq(Row)
    BY <1>6, <2>0
  <2> HIDE DEF h, k
  <2>2. Most(closes, n, h) <= Most(closes, n, k)
    BY <2>1, MostGrows
  <2> QED BY <2>2 DEF h, k
<1>9. DayMost' <= DayMost /\ TotalMost' <= TotalMost
  <2>1. dayFrom \in 0 .. Len(closes) /\ 0 \in 0 .. Len(closes)
    BY <1>1 DEF Sized
  <2>2. /\ DayMost' = Most(closes, dayFrom, HeldCount + Cardinality(Reads("day"))')
        /\ TotalMost' = Most(closes, 0, HeldCount + Cardinality(Reads("total"))')
    BY <1>2 DEF DayMost, TotalMost, Still
  <2> QED BY <1>8, <2>1, <2>2 DEF DayMost, TotalMost
<1>10. ASSUME NEW r \in Routes PROVE RunMost(r)' <= RunMost(r)
  <2> DEFINE h == held[r] + Cardinality(ReadsOf(r))'
             k == held[r] + Cardinality(ReadsOf(r))
  <2>0. held[r] \in Nat /\ Cardinality(ReadsOf(r)) \in Nat /\ Cardinality(ReadsOf(r))' \in Nat
        /\ closes \in Seq(Row) /\ streakFrom \in 0 .. Len(closes)
    BY <1>1 DEF Sized
  <2>1. h \in Nat /\ k \in Nat /\ h <= k /\ closes \in Seq(Row) /\ streakFrom \in 0 .. Len(closes)
    BY <1>6, <2>0
  <2>2. RunMost(r)' = MostRun(closes, streakFrom, r, h) /\ RunMost(r) = MostRun(closes, streakFrom, r, k)
    BY DEF RunMost, Still
  <2> HIDE DEF h, k
  <2>3. MostRun(closes, streakFrom, r, h) <= MostRun(closes, streakFrom, r, k)
    BY <2>1, MostGrows
  <2> QED BY <2>2, <2>3
<1> QED BY <1>1, <1>7, <1>9, <1>10, Quiet

LEMMA FewerOpenings ==
    ASSUME RiskTypes, RiskTypes', Bounded, Cardinality(Openings)' <= Cardinality(Openings)
    PROVE  HeldCount + Cardinality(Openings)' <= MostPositions
<1> DEFINE h == HeldCount
           o == Cardinality(Openings)
           p == Cardinality(Openings)'
<1>1. h \in Nat /\ o \in Nat /\ p \in Nat /\ MostPositions \in Nat
  BY Counts, CountsNext, CallCounts DEF Counted
<1>2. h + o <= MostPositions /\ p <= o
  BY DEF Bounded, Room
<1> HIDE DEF h, o, p
<1>3. h + p <= MostPositions
  BY <1>1, <1>2
<1> QED BY <1>3 DEF h, p

LEMMA AskStep ==
    ASSUME RiskTypes, RiskTypes', Bounded, NEW b \in Buyers, NEW q \in Routes,
           NEW kind \in {"open", "scaleIn", "hand"}, AskMetrics(b, q, kind)
    PROVE  Bounded'
<1> DEFINE y == [NoAttempt EXCEPT !.route = q, !.kind = kind, !.read = IF kind = "hand" THEN Metrics ELSE {}]
<1>1. /\ attempt' = [attempt EXCEPT ![b] = y] /\ Still
      /\ kind = "open" => HeldCount < TradingSlots
  BY DEF AskMetrics, Still
<1>2. y.kind = kind /\ (kind = "open" => y.read = {})
  BY DEF NoAttempt
<1> HIDE DEF y
<1>3. attempt'[b] = y /\ \A c \in Buyers \ {b} : attempt'[c] = attempt[c]
  BY <1>1 DEF RiskTypes
<1>4. \A c \in Buyers : attempt'[c].kind = "open" => attempt'[c] = attempt[c] \/ attempt'[c].read = {}
  BY <1>2, <1>3
<1>5. Sized /\ Sized'
  BY Sizes, SizesNext
<1>6. HeldCount + Cardinality(Openings)' <= MostPositions
  <2>1. CASE kind = "open"
    <3>0. Openings' \in SUBSET Buyers
      BY DEF Openings
    <3>1. Cardinality(Openings)' <= Cardinality(Buyers)
      BY <3>0, CallCounts
    <3>2. Cardinality(Openings)' \in Nat /\ HeldCount \in Nat /\ HeldCount < TradingSlots
      BY <1>1, <2>1, Counts, CountsNext DEF Counted
    <3> DEFINE o == Cardinality(Openings)'
               h == HeldCount
               c == Cardinality(Buyers)
    <3>3. o \in Nat /\ h \in Nat /\ c \in Nat /\ o <= c /\ h < TradingSlots /\ TradingSlots \in Nat
          /\ MostPositions = TradingSlots + c - 1
      BY <3>1, <3>2, CallCounts, BreakersAssumption
    <3> HIDE DEF o, h, c
    <3>4. h + o <= MostPositions
      BY <3>3
    <3> QED BY <3>4 DEF h, o
  <2>2. CASE kind # "open"
    <3>1. Openings' \in SUBSET Openings /\ Openings \in SUBSET Buyers
      BY <1>2, <1>3, <2>2 DEF Openings
    <3>2. Cardinality(Openings)' <= Cardinality(Openings)
      BY <3>1, CallCounts
    <3> QED BY <3>2, FewerOpenings
  <2> QED BY <2>1, <2>2
<1> QED BY <1>1, <1>4, <1>6, FewerReads

\* An attempt that ends, or that will open no position.
LEMMA OtherStep ==
    ASSUME RiskTypes, RiskTypes', Bounded, NEW b \in Buyers, NEW y, y.kind # "open",
           attempt' = [attempt EXCEPT ![b] = y], Still
    PROVE  Bounded'
<1>1. attempt'[b] = y /\ \A c \in Buyers \ {b} : attempt'[c] = attempt[c]
  BY DEF RiskTypes
<1>2. \A c \in Buyers : attempt'[c].kind = "open" => attempt'[c] = attempt[c]
  BY <1>1
<1>3. Openings' \in SUBSET Openings /\ Openings \in SUBSET Buyers
  BY <1>2 DEF Openings
<1>4. Cardinality(Openings)' <= Cardinality(Openings)
  BY <1>3, CallCounts
<1>5. HeldCount + Cardinality(Openings)' <= MostPositions
  BY <1>4, FewerOpenings
<1> QED BY <1>2, <1>5, FewerReads

\* The gate is open: the position was expected.
LEMMA OpenStep ==
    ASSUME RiskTypes, RiskTypes', Bounded, ~ waived', NEW b \in Buyers, OpenPosition(b)
    PROVE  Bounded'
<1> DEFINE q == attempt[b].route
<1>1. /\ attempt[b] \in AnyAttempt /\ attempt[b].kind # "none" /\ attempt[b].read = Metrics
      /\ attempt[b].kind # "scaleIn" /\ attempt[b].kind # "hand"
      /\ attempt' = [attempt EXCEPT ![b] = NoAttempt] /\ held' = [held EXCEPT ![q] = @ + 1]
      /\ UNCHANGED <<closes, dayFrom, streakFrom>>
  BY DEF OpenPosition, Answered, RiskTypes
<1>2. attempt[b].kind = "open" /\ q \in Routes
  BY <1>1 DEF AnyAttempt, NoAttempt
<1>3. attempt'[b] = NoAttempt /\ (\A c \in Buyers \ {b} : attempt'[c] = attempt[c]) /\ NoAttempt.kind # "open"
  BY <1>1 DEF RiskTypes, NoAttempt
<1>4. held \in [Routes -> Nat] /\ held' \in [Routes -> Nat] /\ held'[q] = held[q] + 1
      /\ \A p \in Routes \ {q} : held[p] = held'[p]
  BY <1>1, <1>2 DEF RiskTypes
<1>5. HeldCount' = HeldCount + 1
  <2>1. SumFunctionOnSet(held', Routes) = SumFunctionOnSet(held, Routes) - held[q] + held'[q]
    BY <1>2, <1>4, HeldMoves
  <2>2. SumFunctionOnSet(held, Routes) \in Nat /\ held[q] \in Nat
    BY <1>2, <1>4, HeldSum
  <2> QED BY <1>4, <2>1, <2>2 DEF HeldCount
<1>6. Sized /\ Sized'
  BY Sizes, SizesNext
<1>7. ASSUME NEW S \in SUBSET Buyers, b \in S
      PROVE  Cardinality(S \ {b}) = Cardinality(S) - 1 /\ Cardinality(S) \in Nat
  <2>1. IsFiniteSet(S)
    BY CallCounts
  <2> QED BY <1>7, <2>1, FS_RemoveElement, FS_CardinalityType
<1>8. /\ Openings' = Openings \ {b} /\ b \in Openings
      /\ Asked' = Asked \ {b} /\ b \in Asked
  BY <1>1, <1>2, <1>3 DEF Openings, Asked, Metrics
<1>9. ASSUME NEW m \in Metrics PROVE Reads(m)' = Reads(m) \ {b} /\ b \in Reads(m)
  BY <1>1, <1>2, <1>3 DEF Openings, Reads
<1>10. ASSUME NEW r PROVE ReadsOf(r)' = ReadsOf(r) \ {b} /\ (b \in ReadsOf(r) <=> r = q)
  <2>1. Reads("streak")' = Reads("streak") \ {b} /\ b \in Reads("streak")
    BY <1>9 DEF Metrics
  <2>2. \A c \in Reads("streak") \ {b} : attempt'[c] = attempt[c]
    BY <1>3 DEF Reads, Openings
  <2>3. ReadsOf(r)' = {c \in Reads("streak") \ {b} : attempt'[c].route = r}
    BY <2>1 DEF ReadsOf
  <2>4. {c \in Reads("streak") \ {b} : attempt'[c].route = r} = ReadsOf(r) \ {b}
    BY <2>2 DEF ReadsOf
  <2>5. b \in ReadsOf(r) <=> r = q
    BY <2>1 DEF ReadsOf
  <2> QED BY <2>3, <2>4, <2>5
<1>11. /\ Cardinality(Openings)' = Cardinality(Openings) - 1 /\ Cardinality(Asked)' = Cardinality(Asked) - 1
       /\ \A m \in Metrics : Cardinality(Reads(m))' = Cardinality(Reads(m)) - 1
  <2>1. Openings \in SUBSET Buyers /\ Asked \in SUBSET Buyers /\ \A m : Reads(m) \in SUBSET Buyers
    BY DEF Openings, Asked, Reads
  <2> QED BY <1>7, <1>8, <1>9, <2>1
<1>12. Room'
  <2> DEFINE h == HeldCount
             o == Cardinality(Openings)
             s == Cardinality(Asked)
             a == AllOpen(closes)
  <2>1. h \in Nat /\ o \in Nat /\ s \in Nat /\ a \in Nat /\ MostPositions \in Nat
    BY Counts, CallCounts DEF Counted
  <2>2. h + o <= MostPositions /\ h + s + a <= MostPositions
    BY DEF Bounded, Room
  <2> HIDE DEF h, o, s, a
  <2>3. (h + 1) + (o - 1) <= MostPositions /\ (h + 1) + (s - 1) + a <= MostPositions
    BY <2>1, <2>2
  <2> QED BY <1>1, <1>5, <1>11, <2>3 DEF Room, h, o, s, a
<1>13. ASSUME NEW m \in Metrics
       PROVE  HeldCount' + Cardinality(Reads(m))' = HeldCount + Cardinality(Reads(m))
  <2> DEFINE h == HeldCount
             k == Cardinality(Reads(m))
  <2>1. h \in Nat /\ k \in Nat /\ HeldCount' = h + 1 /\ Cardinality(Reads(m))' = k - 1
    BY <1>5, <1>11, Counts DEF Counted
  <2> HIDE DEF h, k
  <2>2. (h + 1) + (k - 1) = h + k
    BY <2>1
  <2> QED BY <2>1, <2>2 DEF h, k
<1>14. DayMost' = DayMost /\ TotalMost' = TotalMost
  BY <1>1, <1>13 DEF DayMost, TotalMost, Metrics
<1>15. ASSUME NEW r \in Routes PROVE RunMost(r)' = RunMost(r)
  <2>1. held'[r] + Cardinality(ReadsOf(r))' = held[r] + Cardinality(ReadsOf(r))
    <3>1. CASE r = q
      <4>0. ReadsOf(r) \in SUBSET Buyers /\ held[r] \in Nat
        BY <1>4 DEF ReadsOf, Reads, Openings
      <4>1. Cardinality(ReadsOf(r))' = Cardinality(ReadsOf(r)) - 1 /\ Cardinality(ReadsOf(r)) \in Nat
        BY <1>7, <1>10, <3>1, <4>0
      <4>2. held'[r] = held[r] + 1
        BY <1>4, <3>1
      <4> QED BY <4>0, <4>1, <4>2
    <3>2. CASE r # q
      <4>1. ReadsOf(r)' = ReadsOf(r)
        BY <1>10, <3>2
      <4> QED BY <1>4, <3>2, <4>1
    <3> QED BY <3>1, <3>2
  <2> QED BY <1>1, <2>1 DEF RunMost
<1>16. DayMost' <= DayMost /\ TotalMost' <= TotalMost /\ \A r \in Routes : RunMost(r)' <= RunMost(r)
  BY <1>6, <1>14, <1>15 DEF Sized
<1> QED BY <1>6, <1>12, <1>16, Quiet

\* What a metric that does not trip says of the rows.
LEMMA ReadAllows ==
    ASSUME RiskTypes, ~ Unfinished, NEW n \in 0 .. Len(closes), NEW h \in Nat, h <= MostPositions,
           NEW limit \in Nat, limit > 0, ~ Trips(limit, - BookedSince(n))
    PROVE  Most(closes, n, h) < limit + WorstLoss * MostPositions
<1>1. closes \in Seq(Row) /\ WorstLoss \in Nat /\ MostPositions \in Nat
  BY CallCounts, BreakersAssumption DEF RiskTypes
<1>2. BookedSince(n) = - LossSum(closes, n) /\ OpenRows(closes, n) = {}
  BY TrueLossIsSum
<1> DEFINE l == LossSum(closes, n)
           w == WorstLoss * h
           v == WorstLoss * MostPositions
<1>3. l \in Int
  BY <1>1, MostTypes
<1>4. w <= v /\ w \in Nat /\ v \in Nat
  BY <1>1, Products
<1>5. - BookedSince(n) = l
  BY <1>2, <1>3
<1>6. l < limit
  BY <1>3, <1>5 DEF Trips
<1>7. Most(closes, n, h) = l + w
  <2>1. Cardinality(OpenRows(closes, n)) = 0
    BY <1>2, FS_EmptySet
  <2>2. h + 0 = h
    OBVIOUS
  <2> QED BY <2>1, <2>2 DEF Most
<1> HIDE DEF l, w, v
<1>8. l + w < limit + v
  BY <1>3, <1>4, <1>6
<1> QED BY <1>7, <1>8 DEF v

\* The attempt ends with this metric, or will open no position.
LEMMA CompareOther ==
    ASSUME RiskTypes, RiskTypes', Bounded, NEW b \in Buyers, NEW m, NEW limit, NEW loss,
           Compare(b, m, limit, loss), attempt[b].kind # "open" \/ Trips(limit, loss)
    PROVE  Bounded'
<1> DEFINE y == IF Trips(limit, loss) THEN NoAttempt ELSE [attempt[b] EXCEPT !.read = @ \union {m}]
<1>1. attempt' = [attempt EXCEPT ![b] = y] /\ Still
  BY DEF Compare, Still
<1>2. attempt[b] \in AnyAttempt
  BY DEF RiskTypes
<1>3. y.kind # "open"
  <2>1. CASE Trips(limit, loss)
    BY <2>1 DEF NoAttempt
  <2>2. CASE ~ Trips(limit, loss)
    <3>1. [attempt[b] EXCEPT !.read = @ \union {m}].kind = attempt[b].kind
      BY <1>2 DEF AnyAttempt, NoAttempt
    <3> QED BY <2>2, <3>1
  <2> QED BY <2>1, <2>2
<1> HIDE DEF y
<1> QED BY <1>1, <1>3, OtherStep

\* A metric that does not trip, read while every row holds its net result.
LEMMA ComparePasses ==
    ASSUME RiskTypes, RiskTypes', Bounded, ~ waived', NEW b \in Buyers, NEW m \in Metrics,
           NEW limit, NEW loss, Compare(b, m, limit, loss), attempt[b].kind = "open", ~ Trips(limit, loss)
    PROVE  /\ ~ Unfinished /\ Still /\ HeldCount' = HeldCount /\ Room'
           /\ \A n : n # m => Reads(n)' = Reads(n)
           /\ \A n : /\ HeldCount + Cardinality(Reads(n))' \in Nat
                     /\ HeldCount + Cardinality(Reads(n))' <= MostPositions
           /\ \A r : r # attempt[b].route => ReadsOf(r)' = ReadsOf(r)
           /\ \A r : /\ m # "streak" => ReadsOf(r)' = ReadsOf(r)
                     /\ Cardinality(ReadsOf(r))' \in Nat
                     /\ HeldCount + Cardinality(ReadsOf(r))' <= MostPositions
<1> DEFINE y == [attempt[b] EXCEPT !.read = @ \union {m}]
<1>1. attempt' = [attempt EXCEPT ![b] = y] /\ Still /\ ~ Unfinished
  BY DEF Compare, Still
<1>2. attempt[b] \in AnyAttempt
  BY DEF RiskTypes
<1>3. y.kind = "open" /\ y.route = attempt[b].route /\ y.read = attempt[b].read \union {m}
  <2>1. attempt[b] \in [route : Routes, kind : {"open", "scaleIn", "hand"}, read : SUBSET Metrics]
    BY <1>2 DEF AnyAttempt, NoAttempt
  <2> QED BY <2>1
<1> HIDE DEF y
<1>4. attempt'[b] = y /\ \A c \in Buyers \ {b} : attempt'[c] = attempt[c]
  BY <1>1 DEF RiskTypes
<1>5. Openings' = Openings
  BY <1>3, <1>4 DEF Openings
<1>6. HeldCount' = HeldCount /\ AllOpen(closes)' = AllOpen(closes)
  BY <1>1 DEF Still, HeldCount
<1>7. AllOpen(closes) = 0
  <2>1. 0 \in 0 .. Len(closes)
    BY RowTypes
  <2> QED BY <1>1, <2>1, TrueLossIsSum
<1>8. /\ Asked' \in SUBSET Openings /\ Openings \in SUBSET Buyers
      /\ \A n : Reads(n)' \in SUBSET Openings
      /\ \A r : ReadsOf(r)' \in SUBSET Openings
  BY <1>5 DEF Asked, Reads, ReadsOf, Openings
<1>9. ASSUME NEW S \in SUBSET Openings
      PROVE  Cardinality(S) \in Nat /\ HeldCount + Cardinality(S) \in Nat /\ HeldCount + Cardinality(S) <= MostPositions
  <2> DEFINE h == HeldCount
             o == Cardinality(Openings)
             s == Cardinality(S)
  <2>1. h \in Nat /\ o \in Nat /\ MostPositions \in Nat
    BY Counts, CallCounts DEF Counted
  <2>2. s \in Nat /\ s <= o
    BY <1>8, CallCounts
  <2>3. h + o <= MostPositions
    BY DEF Bounded, Room
  <2> HIDE DEF h, o, s
  <2>4. h + s \in Nat /\ h + s <= MostPositions
    BY <2>1, <2>2, <2>3
  <2> QED BY <2>2, <2>4 DEF h, s
<1>10. Room'
  <2>1. HeldCount + Cardinality(Asked)' <= MostPositions /\ HeldCount + Cardinality(Asked)' \in Nat
    BY <1>8, <1>9
  <2> DEFINE k == HeldCount + Cardinality(Asked)'
  <2>2. k + 0 <= MostPositions
    BY <2>1
  <2>3. HeldCount + Cardinality(Openings) <= MostPositions
    BY DEF Bounded, Room
  <2> QED BY <1>5, <1>6, <1>7, <2>2, <2>3 DEF Room
<1>11. ASSUME NEW n, n # m PROVE Reads(n)' = Reads(n)
  <2>1. n \in y.read <=> n \in attempt[b].read
    BY <1>3, <1>11
  <2>2. ASSUME NEW c \in Openings PROVE n \in attempt'[c].read <=> n \in attempt[c].read
    BY <1>4, <2>1 DEF Openings
  <2> QED BY <1>5, <2>2 DEF Reads
<1>12. ASSUME NEW r, r # attempt[b].route PROVE ReadsOf(r)' = ReadsOf(r)
  <2>1. ASSUME NEW c \in Buyers PROVE c \in ReadsOf(r)' <=> c \in ReadsOf(r)
    BY <1>3, <1>4, <1>5, <1>12 DEF ReadsOf, Reads
  <2>2. ReadsOf(r)' \in SUBSET Buyers /\ ReadsOf(r) \in SUBSET Buyers
    BY DEF ReadsOf, Reads, Openings
  <2> QED BY <2>1, <2>2
<1>13. ASSUME NEW r, m # "streak" PROVE ReadsOf(r)' = ReadsOf(r)
  <2>1. Reads("streak")' = Reads("streak")
    BY <1>11, <1>13
  <2>2. \A c \in Reads("streak") : attempt'[c].route = attempt[c].route
    BY <1>3, <1>4 DEF Reads, Openings
  <2> QED BY <2>1, <2>2 DEF ReadsOf
<1> QED BY <1>1, <1>6, <1>8, <1>9, <1>10, <1>11, <1>12, <1>13

LEMMA ReadDayStep ==
    ASSUME RiskTypes, RiskTypes', Bounded, ~ waived', NEW b \in Buyers, ReadDay(b)
    PROVE  Bounded'
<1> DEFINE loss == - BookedSince(dayFrom)
<1>1. Compare(b, "day", DayLimit, loss) /\ "day" \in Metrics
  BY DEF ReadDay, Metrics
<1> HIDE DEF loss
<1>2. CASE attempt[b].kind # "open" \/ Trips(DayLimit, loss)
  BY <1>1, <1>2, CompareOther
<1>3. CASE attempt[b].kind = "open" /\ ~ Trips(DayLimit, loss)
  <2>1. /\ ~ Unfinished /\ Still /\ HeldCount' = HeldCount /\ Room'
        /\ Reads("total")' = Reads("total") /\ \A r : ReadsOf(r)' = ReadsOf(r)
        /\ HeldCount + Cardinality(Reads("day"))' \in Nat
        /\ HeldCount + Cardinality(Reads("day"))' <= MostPositions
    BY <1>1, <1>3, ComparePasses
  <2>2. TotalMost' = TotalMost /\ \A r \in Routes : RunMost(r)' = RunMost(r)
    BY <2>1 DEF TotalMost, RunMost, Still
  <2>3. ASSUME DayLimit > 0 PROVE DayMost' < DayLimit + WorstLoss * MostPositions
    <3> DEFINE h == HeldCount + Cardinality(Reads("day"))'
    <3>1. h \in Nat /\ h <= MostPositions /\ DayMost' = Most(closes, dayFrom, h)
      BY <2>1 DEF DayMost, Still
    <3> HIDE DEF h
    <3>2. dayFrom \in 0 .. Len(closes) /\ DayLimit \in Nat /\ ~ Trips(DayLimit, - BookedSince(dayFrom))
      BY <1>3, BreakersAssumption DEF RiskTypes, loss
    <3> QED BY <2>1, <2>3, <3>1, <3>2, ReadAllows
  <2> QED BY <2>1, <2>2, <2>3 DEF Bounded
<1> QED BY <1>2, <1>3

LEMMA ReadTotalStep ==
    ASSUME RiskTypes, RiskTypes', Bounded, ~ waived', NEW b \in Buyers, ReadTotal(b)
    PROVE  Bounded'
<1> DEFINE loss == - BookedSince(0)
<1>1. Compare(b, "total", DrawdownLimit, loss) /\ "total" \in Metrics
  BY DEF ReadTotal, Metrics
<1> HIDE DEF loss
<1>2. CASE attempt[b].kind # "open" \/ Trips(DrawdownLimit, loss)
  BY <1>1, <1>2, CompareOther
<1>3. CASE attempt[b].kind = "open" /\ ~ Trips(DrawdownLimit, loss)
  <2>1. /\ ~ Unfinished /\ Still /\ HeldCount' = HeldCount /\ Room'
        /\ Reads("day")' = Reads("day") /\ \A r : ReadsOf(r)' = ReadsOf(r)
        /\ HeldCount + Cardinality(Reads("total"))' \in Nat
        /\ HeldCount + Cardinality(Reads("total"))' <= MostPositions
    BY <1>1, <1>3, ComparePasses
  <2>2. DayMost' = DayMost /\ \A r \in Routes : RunMost(r)' = RunMost(r)
    BY <2>1 DEF DayMost, RunMost, Still
  <2>3. ASSUME DrawdownLimit > 0 PROVE TotalMost' < DrawdownLimit + WorstLoss * MostPositions
    <3> DEFINE h == HeldCount + Cardinality(Reads("total"))'
    <3>1. h \in Nat /\ h <= MostPositions /\ TotalMost' = Most(closes, 0, h)
      BY <2>1 DEF TotalMost, Still
    <3> HIDE DEF h
    <3>2. 0 \in 0 .. Len(closes) /\ DrawdownLimit \in Nat /\ ~ Trips(DrawdownLimit, - BookedSince(0))
      BY <1>3, RowTypes, BreakersAssumption DEF loss
    <3> QED BY <2>1, <2>3, <3>1, <3>2, ReadAllows
  <2> QED BY <2>1, <2>2, <2>3 DEF Bounded
<1> QED BY <1>2, <1>3

LEMMA ReadStreakStep ==
    ASSUME RiskTypes, RiskTypes', Bounded, ~ waived', NEW b \in Buyers, ReadStreak(b)
    PROVE  Bounded'
<1> DEFINE q == attempt[b].route
           loss == LossRun(streakFrom, q)
<1>1. Compare(b, "streak", StreakLimit[q], loss) /\ "streak" \in Metrics
  BY DEF ReadStreak, Metrics
<1> HIDE DEF loss
<1>2. CASE attempt[b].kind # "open" \/ Trips(StreakLimit[q], loss)
  BY <1>1, <1>2, CompareOther
<1>3. CASE attempt[b].kind = "open" /\ ~ Trips(StreakLimit[q], loss)
  <2>1. /\ ~ Unfinished /\ Still /\ HeldCount' = HeldCount /\ Room'
        /\ Reads("day")' = Reads("day") /\ Reads("total")' = Reads("total")
        /\ \A r : r # q => ReadsOf(r)' = ReadsOf(r)
        /\ \A r : Cardinality(ReadsOf(r))' \in Nat /\ HeldCount + Cardinality(ReadsOf(r))' <= MostPositions
    BY <1>1, <1>3, ComparePasses
  <2>2. DayMost' = DayMost /\ TotalMost' = TotalMost /\ \A r \in Routes \ {q} : RunMost(r)' = RunMost(r)
    BY <2>1 DEF DayMost, TotalMost, RunMost, Still
  <2>3. ASSUME NEW r \in Routes, r = q, StreakLimit[r] \in 1 .. StreakRows
        PROVE  RunMost(r)' < StreakLimit[r] + MostPositions
    <3> DEFINE c == Cardinality(ReadsOf(r))'
               h == HeldCount
               p == held[r]
               l == StreakLimit[r]
               k == Cardinality(RunOrOpen(closes, streakFrom, r))
    <3>1. l \in Nat /\ l > 0 /\ l <= StreakRows /\ StreakRows \in Nat
      BY <2>3, BreakersAssumption
    <3>2. c \in Nat /\ h + c <= MostPositions /\ MostPositions \in Nat /\ h \in Nat /\ p \in Nat /\ p <= h
      BY <2>1, <2>3, Sizes, CallCounts DEF Sized
    <3>3. k \in Nat
      BY RunFinite DEF RiskTypes
    <3>4. loss = AtMost(k, AtMost(l, StreakRows))
      BY <2>1, <2>3, RunIsRunOf DEF loss
    <3>5. RunMost(r)' = p + c + k
      BY <2>1 DEF RunMost, MostRun, Still
    <3>6. ~ Trips(l, loss)
      BY <1>3, <2>3
    <3> HIDE DEF c, h, p, l, k, q
    <3>7. AtMost(l, StreakRows) = l
      BY <3>1 DEF AtMost
    <3>8. k < l
      BY <3>1, <3>3, <3>4, <3>6, <3>7 DEF AtMost, Trips
    <3>9. p + c + k < l + MostPositions
      BY <3>1, <3>2, <3>3, <3>8
    <3> QED BY <3>5, <3>9 DEF l
  <2>4. ASSUME NEW r \in Routes, StreakLimit[r] \in 1 .. StreakRows
        PROVE  RunMost(r)' < StreakLimit[r] + MostPositions
    <3>1. CASE r = q
      BY <2>3, <2>4, <3>1
    <3>2. CASE r # q
      BY <2>2, <2>4, <3>2 DEF Bounded
    <3> QED BY <3>1, <3>2
  <2> QED BY <2>1, <2>2, <2>4 DEF Bounded
<1> QED BY <1>2, <1>3

LEMMA CallsStay ==
    ASSUME attempt' = attempt
    PROVE  /\ Openings' = Openings /\ Asked' = Asked
           /\ \A m : Reads(m)' = Reads(m)
           /\ \A r : ReadsOf(r)' = ReadsOf(r)
BY DEF Openings, Asked, Reads, ReadsOf

\* The rows and the positions change, the attempts do not.
LEMMA RoomStays ==
    ASSUME RiskTypes, RiskTypes', Bounded, attempt' = attempt, HeldCount' <= HeldCount,
           HeldCount' + AllOpen(closes)' <= HeldCount + AllOpen(closes)
    PROVE  Room'
<1> DEFINE a == AllOpen(closes)
           b == AllOpen(closes)'
           h == HeldCount
           k == HeldCount'
           o == Cardinality(Openings)
           s == Cardinality(Asked)
<1>1. a \in Nat /\ b \in Nat /\ h \in Nat /\ k \in Nat /\ o \in Nat /\ s \in Nat /\ MostPositions \in Nat
  BY Counts, CountsNext, CallCounts DEF Counted
<1>2. h + o <= MostPositions /\ h + s + a <= MostPositions /\ k <= h /\ k + b <= h + a
  BY DEF Bounded, Room
<1>3. Cardinality(Openings)' = o /\ Cardinality(Asked)' = s
  BY CallsStay
<1> HIDE DEF a, b, h, k, o, s
<1>4. k + o <= MostPositions /\ k + s + b <= MostPositions
  BY <1>1, <1>2
<1> QED BY <1>3, <1>4 DEF Room, b, k, o, s

\* What the calls will open is the same, and so is the rest.
LEMMA MostStays ==
    ASSUME RiskTypes, RiskTypes', Bounded, attempt' = attempt, Room',
           \A h \in Nat : /\ Most(closes', dayFrom', HeldCount' + h) <= Most(closes, dayFrom, HeldCount + h)
                          /\ Most(closes', 0, HeldCount' + h) <= Most(closes, 0, HeldCount + h),
           \A r \in Routes : held'[r] + Cardinality(RunOrOpen(closes', streakFrom', r))
                                <= held[r] + Cardinality(RunOrOpen(closes, streakFrom, r))
    PROVE  Bounded'
<1>1. Sized /\ Sized'
  BY Sizes, SizesNext
<1>2. (\A m : Reads(m)' = Reads(m)) /\ (\A r : ReadsOf(r)' = ReadsOf(r))
  BY CallsStay
<1>3. \A m : Cardinality(Reads(m)) \in Nat
  BY Counts DEF Counted
<1>4. DayMost' <= DayMost /\ TotalMost' <= TotalMost
  BY <1>2, <1>3 DEF DayMost, TotalMost
<1>5. ASSUME NEW r \in Routes PROVE RunMost(r)' <= RunMost(r)
  <2> DEFINE h == held[r]
             k == held'[r]
             c == Cardinality(ReadsOf(r))
             a == Cardinality(RunOrOpen(closes, streakFrom, r))
             b == Cardinality(RunOrOpen(closes', streakFrom', r))
  <2>1. h \in Nat /\ k \in Nat /\ c \in Nat
    BY <1>1 DEF Sized
  <2>2. a \in Nat /\ b \in Nat
    BY RunFinite DEF RiskTypes
  <2>3. k + b <= h + a
    OBVIOUS
  <2>4. RunMost(r)' = k + c + b /\ RunMost(r) = h + c + a
    BY <1>2 DEF RunMost, MostRun
  <2> HIDE DEF h, k, c, a, b
  <2> QED BY <2>1, <2>2, <2>3, <2>4
<1> QED BY <1>1, <1>4, <1>5, Quiet

LEMMA CloseStep ==
    ASSUME RiskTypes, RiskTypes', Bounded, NEW q \in Routes, NEW e \in {"none", "zero"}, Close(q, e)
    PROVE  Bounded'
<1>1. PICK o \in Outcomes : closes' = Append(closes, [route |-> q, outcome |-> o, booked |-> e])
  BY DEF Close, WriteClosed
<1> DEFINE x == [route |-> q, outcome |-> o, booked |-> e]
<1>2. /\ held[q] > 0 /\ held' = [held EXCEPT ![q] = @ - 1]
      /\ UNCHANGED <<dayFrom, streakFrom, attempt, waived>>
  BY DEF Close, WriteClosed
<1>3. closes \in Seq(Row) /\ closes' \in Seq(Row) /\ held \in [Routes -> Nat] /\ held' \in [Routes -> Nat]
  BY DEF RiskTypes
<1>4. Extends(closes, closes', x) /\ x.route = q
  <2> DEFINE R == Row
             y == x
  <2>1. y \in R /\ closes \in Seq(R) /\ closes' = Append(closes, y)
    BY <1>1, <1>3 DEF Row
  <2> HIDE DEF R, x, y
  <2>2. /\ Len(closes') = Len(closes) + 1 /\ \A i \in 1 .. Len(closes) : closes'[i] = closes[i]
        /\ closes'[Len(closes) + 1] = y
    BY <2>1, AppendProperties
  <2>3. Extends(closes, closes', x)
    BY <2>2 DEF Extends, y
  <2> QED BY <2>3 DEF x
<1> HIDE DEF x
<1>5. HeldCount' = HeldCount - 1 /\ HeldCount \in Nat /\ HeldCount > 0
  <2>1. held'[q] = held[q] - 1 /\ \A p \in Routes \ {q} : held[p] = held'[p]
    BY <1>2, <1>3
  <2>2. SumFunctionOnSet(held', Routes) = SumFunctionOnSet(held, Routes) - held[q] + held'[q]
    BY <1>3, <2>1, HeldMoves
  <2>3. SumFunctionOnSet(held, Routes) \in Nat /\ held[q] \in Nat /\ held[q] <= SumFunctionOnSet(held, Routes)
    BY <1>3, HeldSum
  <2> QED BY <1>2, <2>1, <2>2, <2>3 DEF HeldCount
<1>6. dayFrom \in 0 .. Len(closes) /\ 0 \in 0 .. Len(closes) /\ streakFrom \in 0 .. Len(closes)
  BY Sizes DEF Sized
<1>7. ASSUME NEW h \in Nat
      PROVE  /\ Most(closes', dayFrom', HeldCount' + h) <= Most(closes, dayFrom, HeldCount + h)
             /\ Most(closes', 0, HeldCount' + h) <= Most(closes, 0, HeldCount + h)
             /\ AllOpen(closes') <= AllOpen(closes) + 1
  <2> DEFINE k == HeldCount + h
  <2>1. k \in Nat /\ k > 0 /\ HeldCount' + h = k - 1
    BY <1>5
  <2> HIDE DEF k
  <2>2. /\ Most(closes', dayFrom, k - 1) <= Most(closes, dayFrom, k)
        /\ Most(closes', 0, k - 1) <= Most(closes, 0, k)
        /\ AllOpen(closes') <= AllOpen(closes) + 1
    BY <1>3, <1>4, <1>6, <2>1, MostAppend
  <2> QED BY <1>2, <2>1, <2>2 DEF k
<1>8. ASSUME NEW r \in Routes
      PROVE  held'[r] + Cardinality(RunOrOpen(closes', streakFrom', r))
                <= held[r] + Cardinality(RunOrOpen(closes, streakFrom, r))
  <2> DEFINE a == Cardinality(RunOrOpen(closes, streakFrom, r))
             b == Cardinality(RunOrOpen(closes', streakFrom, r))
             h == held[r]
             k == held'[r]
  <2>1. b <= a + (IF x.route = r THEN 1 ELSE 0)
    BY <1>3, <1>4, <1>6, RunAppend
  <2>2. a \in Nat
    BY <1>3, <1>6, RunFinite
  <2>3. b \in Nat
    <3>1. streakFrom \in 0 .. Len(closes')
      BY <1>2 DEF RiskTypes
    <3> QED BY <1>3, <3>1, RunFinite
  <2>4. h \in Nat /\ k \in Nat /\ k = IF r = q THEN h - 1 ELSE h
    BY <1>2, <1>3
  <2> HIDE DEF a, b, h, k
  <2>5. k + b <= h + a
    BY <1>4, <2>1, <2>2, <2>3, <2>4
  <2> QED BY <1>2, <2>5 DEF a, b, h, k
<1>9. Room'
  <2> DEFINE a == AllOpen(closes)
             b == AllOpen(closes)'
             h == HeldCount
             k == HeldCount'
  <2>1. a \in Nat /\ b \in Nat
    BY Counts, CountsNext DEF Counted
  <2>2. b <= a + 1
    <3>1. 0 \in Nat
      OBVIOUS
    <3> QED BY <1>7, <3>1
  <2>3. h \in Nat /\ k = h - 1
    BY <1>5
  <2> HIDE DEF a, b, h, k
  <2>4. k <= h /\ k + b <= h + a
    BY <2>1, <2>2, <2>3
  <2> QED BY <1>2, <2>4, RoomStays DEF a, b, h, k
<1> QED BY <1>2, <1>7, <1>8, <1>9, MostStays

LEMMA AddStep ==
    ASSUME RiskTypes, RiskTypes', Bounded, NEW i \in After(0), AddProfit(i) \/ AddFees(i)
    PROVE  Bounded'
<1>1. PICK b \in {"profit", "fees"} : closes' = [closes EXCEPT ![i] = [closes[i] EXCEPT !.booked = b]]
  BY DEF AddProfit, AddFees
<1>2. closes[i].booked # "net" /\ UNCHANGED <<held, dayFrom, streakFrom, attempt, waived>>
  BY DEF AddProfit, AddFees
<1>3. closes \in Seq(Row) /\ closes' \in Seq(Row) /\ i \in 1 .. Len(closes)
  BY RowTypes DEF RiskTypes
<1>4. SameRows(closes, closes')
  <2> DEFINE R == Row
             x == [closes[i] EXCEPT !.booked = b]
  <2>1. x.route = closes[i].route /\ x.outcome = closes[i].outcome /\ x.booked # "net" /\ x \in R
    <3>1. closes[i] \in Row
      BY <1>3, RowTypes
    <3> QED BY <3>1 DEF Row
  <2>2. closes \in Seq(R) /\ closes' = [closes EXCEPT ![i] = x]
    BY <1>1, <1>3
  <2> HIDE DEF R, x
  <2>3. Len(closes') = Len(closes) /\ \A k \in 1 .. Len(closes) : closes'[k] = IF k = i THEN x ELSE closes[k]
    BY <1>3, <2>1, <2>2, ExceptSeq
  <2> QED BY <1>2, <2>1, <2>3 DEF SameRows
<1>5. dayFrom \in 0 .. Len(closes) /\ 0 \in 0 .. Len(closes) /\ streakFrom \in 0 .. Len(closes)
      /\ Len(closes) \in 0 .. Len(closes)
  BY Sizes DEF Sized
<1>6. \A n \in 0 .. Len(closes) : /\ LossSum(closes', n) = LossSum(closes, n) /\ OpenRows(closes', n) = OpenRows(closes, n)
                                  /\ \A r : RunOrOpen(closes', n, r) = RunOrOpen(closes, n, r)
  BY <1>3, <1>4, SameLosses
<1>7. HeldCount' = HeldCount
  BY <1>2 DEF HeldCount
<1>8. AllOpen(closes)' = AllOpen(closes)
  BY <1>4, <1>5, <1>6 DEF AllOpen, SameRows
<1>9. ASSUME NEW n \in 0 .. Len(closes), NEW h \in Nat
      PROVE  Most(closes', n, HeldCount' + h) <= Most(closes, n, HeldCount + h)
  <2> DEFINE k == HeldCount + h
  <2>1. k \in Nat /\ HeldCount' + h = k
    BY <1>7, Counts DEF Counted
  <2> HIDE DEF k
  <2>2. Most(closes, n, k) \in Int
    BY <1>3, <2>1, MostTypes
  <2>3. Most(closes', n, k) = Most(closes, n, k)
    BY <1>6 DEF Most
  <2> QED BY <2>1, <2>2, <2>3 DEF k
<1>10. ASSUME NEW r \in Routes
       PROVE  held'[r] + Cardinality(RunOrOpen(closes', streakFrom', r))
                 <= held[r] + Cardinality(RunOrOpen(closes, streakFrom, r))
  <2>1. RunOrOpen(closes', streakFrom', r) = RunOrOpen(closes, streakFrom, r) /\ held'[r] = held[r]
    BY <1>2, <1>5, <1>6
  <2>2. held[r] \in Nat /\ Cardinality(RunOrOpen(closes, streakFrom, r)) \in Nat
    BY <1>3, <1>5, Sizes, RunFinite DEF Sized
  <2> QED BY <2>1, <2>2
<1>11. Room'
  <2>1. HeldCount \in Nat /\ AllOpen(closes) \in Nat
    BY Counts DEF Counted
  <2> QED BY <1>2, <1>7, <1>8, <2>1, RoomStays
<1> QED BY <1>2, <1>5, <1>9, <1>10, <1>11, MostStays

LEMMA NetStep ==
    ASSUME RiskTypes, RiskTypes', Bounded, NEW i \in After(0), WriteNet(i)
    PROVE  Bounded'
<1>1. /\ closes[i].booked = "fees" /\ UNCHANGED <<held, attempt, waived>>
      /\ dayFrom' = NewEnd(dayFrom, i) /\ streakFrom' = NewEnd(streakFrom, i)
  BY DEF WriteNet, NewEnd
<1>2. closes \in Seq(Row) /\ closes' \in Seq(Row) /\ i \in 1 .. Len(closes) /\ Len(closes) \in Nat
      /\ 0 = NewEnd(0, i)
  BY RowTypes DEF RiskTypes, NewEnd
<1>3. ToTheEnd(closes, closes', i)
  <2> DEFINE R == Row
             x == [closes[i] EXCEPT !.booked = "net"]
             n == Len(closes)
  <2>1. x.route = closes[i].route /\ x.outcome = closes[i].outcome /\ x.booked = "net" /\ x \in R
    <3>1. closes[i] \in Row
      BY <1>2, RowTypes
    <3> QED BY <3>1 DEF Row
  <2>3. MovesTo(closes', closes, i, x)
    BY NetMoves
  <2> HIDE DEF R, x
  <2> HIDE DEF n
  <2>4. /\ Len(closes') = n
        /\ \A k \in 1 .. n : closes'[k] = IF k < i THEN closes[k] ELSE IF k < n THEN closes[k + 1] ELSE x
    BY <2>3 DEF MovesTo, n
  <2>5. n \in Nat /\ i \in 1 .. n /\ n \in 1 .. n
    BY <1>2 DEF n
  <2>6. closes'[n] = x
    BY <2>4, <2>5
  <2>7. \A k \in 1 .. n - 1 : closes'[k] = IF k < i THEN closes[k] ELSE closes[k + 1]
    BY <2>4, <2>5
  <2> QED BY <1>1, <2>1, <2>4, <2>5, <2>6, <2>7 DEF ToTheEnd, n
<1>4. dayFrom \in 0 .. Len(closes) /\ 0 \in 0 .. Len(closes) /\ streakFrom \in 0 .. Len(closes)
  BY Sizes DEF Sized
<1>5. HeldCount' = HeldCount /\ HeldCount \in Nat
  BY <1>1, Counts DEF HeldCount, Counted
<1>6. ASSUME NEW h \in Nat
      PROVE  /\ Most(closes', dayFrom', HeldCount' + h) <= Most(closes, dayFrom, HeldCount + h)
             /\ Most(closes', 0, HeldCount' + h) <= Most(closes, 0, HeldCount + h)
             /\ AllOpen(closes') <= AllOpen(closes)
  <2> DEFINE k == HeldCount + h
  <2>1. k \in Nat /\ HeldCount' + h = k
    BY <1>5
  <2> HIDE DEF k
  <2>2. /\ Most(closes', NewEnd(dayFrom, i), k) <= Most(closes, dayFrom, k)
        /\ Most(closes', NewEnd(0, i), k) <= Most(closes, 0, k)
        /\ AllOpen(closes') <= AllOpen(closes)
    BY <1>2, <1>3, <1>4, <2>1, MostMove
  <2> QED BY <1>1, <1>2, <2>1, <2>2 DEF k
<1>7. ASSUME NEW r \in Routes
      PROVE  held'[r] + Cardinality(RunOrOpen(closes', streakFrom', r))
                <= held[r] + Cardinality(RunOrOpen(closes, streakFrom, r))
  <2> DEFINE a == Cardinality(RunOrOpen(closes, streakFrom, r))
             b == Cardinality(RunOrOpen(closes', NewEnd(streakFrom, i), r))
             h == held[r]
  <2>1. b <= a
    BY <1>2, <1>3, <1>4, MovedRun
  <2>2. a \in Nat
    BY <1>2, <1>4, RunFinite
  <2>3. b \in Nat
    <3>1. streakFrom' \in 0 .. Len(closes')
      BY DEF RiskTypes
    <3> QED BY <1>1, <1>2, <3>1, RunFinite
  <2>4. h \in Nat
    BY Sizes DEF Sized
  <2> HIDE DEF a, b, h
  <2>5. h + b <= h + a
    BY <2>1, <2>2, <2>3, <2>4
  <2> QED BY <1>1, <2>5 DEF a, b, h
<1>8. Room'
  <2>1. AllOpen(closes) \in Nat /\ AllOpen(closes)' \in Nat
    BY Counts, CountsNext DEF Counted
  <2>2. AllOpen(closes)' <= AllOpen(closes)
    <3>1. 0 \in Nat
      OBVIOUS
    <3> QED BY <1>6, <3>1
  <2>3. HeldCount' <= HeldCount /\ HeldCount' + AllOpen(closes)' <= HeldCount + AllOpen(closes)
    BY <1>5, <2>1, <2>2
  <2> QED BY <1>1, <2>3, RoomStays
<1> QED BY <1>1, <1>6, <1>7, <1>8, MostStays

LEMMA DayStep ==
    ASSUME RiskTypes, RiskTypes', Bounded, DayEnds
    PROVE  Bounded'
<1>1. dayFrom' = Len(closes) /\ UNCHANGED <<held, closes, streakFrom, attempt, waived>>
  BY DEF DayEnds
<1>2. closes \in Seq(Row)
  BY DEF RiskTypes
<1>3. HeldCount' = HeldCount /\ AllOpen(closes)' = AllOpen(closes) /\ Asked' = Asked /\ Openings' = Openings
      /\ (\A m : Reads(m)' = Reads(m)) /\ (\A r : ReadsOf(r)' = ReadsOf(r))
  BY <1>1, CallsStay DEF HeldCount
<1>4. Room' /\ TotalMost' = TotalMost /\ \A r \in Routes : RunMost(r)' = RunMost(r)
  BY <1>1, <1>3 DEF Bounded, Room, TotalMost, RunMost
<1>5. DayLimit > 0 => DayMost' < DayLimit + WorstLoss * MostPositions
  <2> DEFINE h == HeldCount
             d == Cardinality(Reads("day"))
             s == Cardinality(Asked)
             a == AllOpen(closes)
  <2>1. h \in Nat /\ d \in Nat /\ s \in Nat /\ a \in Nat /\ MostPositions \in Nat
    BY Counts, CallCounts DEF Counted
  <2>2. d <= s
    <3>1. Reads("day") \in SUBSET Asked /\ Asked \in SUBSET Buyers
      BY DEF Reads, Asked, Openings
    <3> QED BY <3>1, CallCounts
  <2>3. h + s + a <= MostPositions
    BY DEF Bounded, Room
  <2>4. h + d \in Nat
    BY <2>1
  <2>5. DayMost' = WorstLoss * (h + d + a)
    <3> DEFINE k == h + d
    <3>1. DayMost' = Most(closes, Len(closes), k)
      BY <1>1, <1>3 DEF DayMost
    <3>2. k \in Nat
      BY <2>4
    <3> HIDE DEF k
    <3>3. Most(closes, Len(closes), k) = WorstLoss * (k + AllOpen(closes))
      BY <1>2, <3>2, MostEnd
    <3> QED BY <3>1, <3>3 DEF k
  <2> DEFINE c == h + d + a
  <2>6. c \in Nat /\ c <= MostPositions
    <3> HIDE DEF h, d, s, a
    <3> QED BY <2>1, <2>2, <2>3
  <2> HIDE DEF h, d, s, a, c
  <2> DEFINE u == WorstLoss * c
             v == WorstLoss * MostPositions
  <2>7. u \in Nat /\ v \in Nat /\ u <= v /\ DayLimit \in Nat
    BY <2>1, <2>6, Products, BreakersAssumption
  <2> HIDE DEF u, v
  <2>8. DayLimit > 0 => u < DayLimit + v
    BY <2>7
  <2> QED BY <2>5, <2>8 DEF c, u, v
<1> QED BY <1>4, <1>5 DEF Bounded

LEMMA LookbackStep ==
    ASSUME RiskTypes, RiskTypes', Bounded, LookbackMoves
    PROVE  Bounded'
<1>1. streakFrom < Len(closes) /\ streakFrom' = streakFrom + 1 /\ UNCHANGED <<held, closes, dayFrom, attempt, waived>>
  BY DEF LookbackMoves
<1>2. closes \in Seq(Row) /\ streakFrom \in 0 .. Len(closes)
      /\ dayFrom \in 0 .. Len(closes) /\ 0 \in 0 .. Len(closes)
  BY Sizes DEF Sized
<1>3. HeldCount' = HeldCount /\ HeldCount \in Nat /\ AllOpen(closes)' = AllOpen(closes) /\ AllOpen(closes) \in Nat
  BY <1>1, Counts DEF HeldCount, Counted
<1>4. ASSUME NEW r \in Routes
      PROVE  held'[r] + Cardinality(RunOrOpen(closes', streakFrom', r))
                <= held[r] + Cardinality(RunOrOpen(closes, streakFrom, r))
  <2> DEFINE a == Cardinality(RunOrOpen(closes, streakFrom, r))
             b == Cardinality(RunOrOpen(closes, streakFrom + 1, r))
             h == held[r]
  <2>1. b <= a
    BY <1>1, <1>2, LookbackShrinks
  <2>2. a \in Nat
    BY <1>2, RunFinite
  <2>3. b \in Nat
    <3>1. streakFrom + 1 \in 0 .. Len(closes)
      BY <1>1 DEF RiskTypes
    <3> QED BY <1>2, <3>1, RunFinite
  <2>4. h \in Nat
    BY Sizes DEF Sized
  <2> HIDE DEF a, b, h
  <2>5. h + b <= h + a
    BY <2>1, <2>2, <2>3, <2>4
  <2> QED BY <1>1, <2>5 DEF a, b, h
<1>5. ASSUME NEW n \in 0 .. Len(closes), NEW h \in Nat
      PROVE  Most(closes', n, HeldCount' + h) <= Most(closes, n, HeldCount + h)
  <2>1. HeldCount + h \in Nat
    BY <1>3
  <2>2. Most(closes, n, HeldCount + h) \in Int
    BY <1>2, <2>1, MostTypes
  <2> QED BY <1>1, <1>3, <2>2
<1>6. Room'
  BY <1>1, <1>3, RoomStays
<1> QED BY <1>1, <1>2, <1>4, <1>5, <1>6, MostStays

LEMMA BoundedStep ==
    ASSUME RiskInv, [RiskNext]_riskVars
    PROVE  RiskInv'
<1>1. RiskTypes /\ RiskTypes'
  BY RiskTypesStep DEF RiskInv
<1> SUFFICES ASSUME ~ waived' PROVE Bounded'
  BY <1>1 DEF RiskInv
<1>2. \/ waived' = waived
      \/ \E b \in Buyers : \/ waived' = (waived \/ (attempt[b].kind = "open" /\ Unfinished))
                           \/ waived' = (waived \/ attempt[b].kind = "hand")
  <2>1. CASE Attempting
    BY <2>1 DEF Attempting, ReadDay, ReadStreak, ReadTotal, Compare, EndAttempt, OpenPosition, AskMetrics
  <2>2. CASE Selling
    BY <2>2 DEF Selling, CloseTrade, CloseOnZero, Close, WriteClosed, AddProfit, AddFees, WriteNet
  <2>3. CASE DayEnds \/ LookbackMoves \/ UNCHANGED riskVars
    BY <2>3 DEF DayEnds, LookbackMoves, riskVars
  <2> QED BY <2>1, <2>2, <2>3 DEF RiskNext
<1>3. ~ waived
  BY <1>1, <1>2 DEF RiskTypes
<1>4. Bounded
  BY <1>3 DEF RiskInv
<1>5. CASE UNCHANGED riskVars
  <2>1. Still /\ attempt' = attempt
    BY <1>5 DEF riskVars, Still
  <2>2. /\ HeldCount' = HeldCount /\ AllOpen(closes)' = AllOpen(closes)
        /\ Openings' = Openings /\ Asked' = Asked
        /\ (\A m : Reads(m)' = Reads(m)) /\ (\A r : ReadsOf(r)' = ReadsOf(r))
    BY <2>1, CallsStay DEF Still, HeldCount
  <2>3. DayMost' = DayMost /\ TotalMost' = TotalMost /\ \A r \in Routes : RunMost(r)' = RunMost(r)
    BY <2>1, <2>2 DEF DayMost, TotalMost, RunMost, Still
  <2> QED BY <1>4, <2>2, <2>3 DEF Bounded, Room
<1>6. ASSUME NEW b \in Buyers, ReadDay(b) PROVE Bounded'
  BY <1>1, <1>4, <1>6, ReadDayStep
<1>7. ASSUME NEW b \in Buyers, ReadStreak(b) PROVE Bounded'
  BY <1>1, <1>4, <1>7, ReadStreakStep
<1>8. ASSUME NEW b \in Buyers, ReadTotal(b) PROVE Bounded'
  BY <1>1, <1>4, <1>8, ReadTotalStep
<1>9. ASSUME NEW b \in Buyers, EndAttempt(b) PROVE Bounded'
  <2>1. attempt' = [attempt EXCEPT ![b] = NoAttempt] /\ Still /\ NoAttempt.kind # "open"
    BY <1>9 DEF EndAttempt, Still, NoAttempt
  <2> QED BY <1>1, <1>4, <2>1, OtherStep
<1>10. ASSUME NEW b \in Buyers, NEW q \in Routes, NEW kind \in {"open", "scaleIn", "hand"},
              AskMetrics(b, q, kind)
       PROVE  Bounded'
  BY <1>1, <1>4, <1>10, AskStep
<1>11. ASSUME NEW b \in Buyers, OpenPosition(b) PROVE Bounded'
  BY <1>1, <1>4, <1>11, OpenStep
<1>12. ASSUME NEW q \in Routes, CloseTrade(q) \/ CloseOnZero(q) PROVE Bounded'
  <2>1. PICK e \in {"none", "zero"} : Close(q, e)
    BY <1>12 DEF CloseTrade, CloseOnZero
  <2> QED BY <1>1, <1>4, <2>1, CloseStep
<1>13. ASSUME NEW i \in After(0), AddProfit(i) \/ AddFees(i) PROVE Bounded'
  BY <1>1, <1>4, <1>13, AddStep
<1>14. ASSUME NEW i \in After(0), WriteNet(i) PROVE Bounded'
  BY <1>1, <1>4, <1>14, NetStep
<1>15. CASE DayEnds
  BY <1>1, <1>4, <1>15, DayStep
<1>16. CASE LookbackMoves
  BY <1>1, <1>4, <1>16, LookbackStep
<1> QED BY <1>5, <1>6, <1>7, <1>8, <1>9, <1>10, <1>11, <1>12, <1>13, <1>14, <1>15, <1>16
        DEF RiskNext, Attempting, Selling

\* What is bounded with all that may still be lost, is bounded without it.
LEMMA LossesWithin ==
    ASSUME RiskInv
    PROVE  LossesBounded
<1> SUFFICES ASSUME ~ waived
             PROVE  /\ DayLimit > 0 => TrueLoss(dayFrom) < DayLimit + MostPositions * WorstLoss
                    /\ DrawdownLimit > 0 => TrueLoss(0) < DrawdownLimit + MostPositions * WorstLoss
                    /\ \A r \in Routes : StreakLimit[r] \in 1 .. StreakRows =>
                          Run(streakFrom, r, LAMBDA c : Loss(c.outcome) > 0) < StreakLimit[r] + MostPositions
  BY DEF LossesBounded
<1>1. RiskTypes /\ Bounded /\ Counted
  BY Counts DEF RiskInv
<1>2. /\ closes \in Seq(Row) /\ dayFrom \in 0 .. Len(closes) /\ 0 \in 0 .. Len(closes)
      /\ streakFrom \in 0 .. Len(closes)
  BY <1>1, Sizes DEF Sized
<1>3. WorstLoss * MostPositions = MostPositions * WorstLoss
      /\ WorstLoss * MostPositions \in Nat
      /\ DayLimit \in Nat /\ DrawdownLimit \in Nat /\ MostPositions \in Nat
  <2>1. WorstLoss \in Nat /\ MostPositions \in Nat
    BY BreakersAssumption, CallCounts
  <2> QED BY <2>1, BreakersAssumption, Products
<1>4. ASSUME NEW n \in 0 .. Len(closes), NEW h \in Nat, NEW limit \in Nat,
             Most(closes, n, h) < limit + WorstLoss * MostPositions
      PROVE  TrueLoss(n) < limit + MostPositions * WorstLoss
  <2>1. TrueLoss(n) = LossSum(closes, n)
    BY <1>1, TrueLossIsSum
  <2>2. LossSum(closes, n) \in Int /\ LossSum(closes, n) <= Most(closes, n, h) /\ Most(closes, n, h) \in Int
    BY <1>2, MostTypes
  <2> DEFINE k == WorstLoss * MostPositions
  <2>3. Most(closes, n, h) < limit + k /\ MostPositions * WorstLoss = k /\ k \in Nat
    BY <1>3, <1>4
  <2> HIDE DEF k
  <2>4. LossSum(closes, n) < limit + k
    BY <2>2, <2>3
  <2> QED BY <2>1, <2>3, <2>4
<1>5. \A m : HeldCount + Cardinality(Reads(m)) \in Nat
  BY <1>1 DEF Counted
<1>6. DayLimit > 0 => TrueLoss(dayFrom) < DayLimit + MostPositions * WorstLoss
  BY <1>1, <1>2, <1>3, <1>4, <1>5 DEF Bounded, DayMost
<1>7. DrawdownLimit > 0 => TrueLoss(0) < DrawdownLimit + MostPositions * WorstLoss
  BY <1>1, <1>2, <1>3, <1>4, <1>5 DEF Bounded, TotalMost
<1>8. ASSUME NEW r \in Routes, StreakLimit[r] \in 1 .. StreakRows
      PROVE  Run(streakFrom, r, LAMBDA c : Loss(c.outcome) > 0) < StreakLimit[r] + MostPositions
  <2> DEFINE a == Run(streakFrom, r, LAMBDA c : Loss(c.outcome) > 0)
             b == Cardinality(RunOrOpen(closes, streakFrom, r))
             k == StreakLimit[r]
             h == held[r]
             c == Cardinality(ReadsOf(r))
  <2>1. a <= b /\ a \in Nat
    BY <1>1, RunIsRunOf
  <2>2. b \in Nat
    BY <1>2, RunFinite
  <2>3. h \in Nat /\ k \in Nat /\ c \in Nat
    BY <1>1, Sizes, BreakersAssumption DEF Sized
  <2>4. h + c + b < k + MostPositions
    BY <1>1, <1>8 DEF Bounded, RunMost, MostRun
  <2> HIDE DEF a, b, k, h, c
  <2>5. a < k + MostPositions
    BY <1>3, <2>1, <2>2, <2>3, <2>4
  <2> QED BY <2>5 DEF a, k
<1> QED BY <1>6, <1>7, <1>8

\* The breakers stop a losing run in time, for any limits, strategies, outcomes
\* and number of overlapping attempts (LossesBounded).  Inductive: all that is
\* open or not yet booked counts with the most it can lose, and so does the
\* position of every attempt that has read the metric; the attempts under way
\* and the positions held are never more than can be open at once.
THEOREM BreakersBoundLosses == RiskSpec => []LossesBounded
<1>1. RiskInit => RiskInv
  BY BoundedAtFirst
<1>2. RiskInv /\ [RiskNext]_riskVars => RiskInv'
  BY BoundedStep
<1>3. RiskInv => LossesBounded
  BY LossesWithin
<1> QED BY <1>1, <1>2, <1>3, PTL DEF RiskSpec
==============================================================================
