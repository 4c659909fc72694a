-------------------------- MODULE PriceMonitorProofs --------------------------
(***************************************************************************)
(* What PriceMonitor promises for any number of ticks and every market:    *)
(* one evaluation at a time, a bounded loss however stale the rows are     *)
(* that the defences were granted on, and no half but those that were      *)
(* under way when the first was recorded.                                  *)
(***************************************************************************)
EXTENDS PriceMonitor, SumLemmas

(***************************************************************************)
(* The claim.                                                              *)
(***************************************************************************)
ClaimInv ==
    /\ pc \in [Ticks -> Stages] /\ claimed \in BOOLEAN
    /\ \A k \in Ticks : pc[k] \in Evaluating => claimed
    /\ OneEvaluation

\* A tick that has the claim, or takes it while nobody has it, goes on with
\* it, or leaves and gives it back.
LEMMA ClaimGoesOn ==
    ASSUME ClaimInv, NEW k \in Ticks, NEW stage \in Evaluating,
           pc[k] \in Evaluating \/ ~ claimed, Goto(k, stage), claimed' = TRUE
    PROVE  ClaimInv'
BY DEF ClaimInv, OneEvaluation, Goto, Evaluating, Stages

LEMMA ClaimEnds ==
    ASSUME ClaimInv, NEW k \in Ticks, pc[k] \in Evaluating \/ ~ claimed, Release(k)
    PROVE  ClaimInv'
BY DEF ClaimInv, OneEvaluation, Release, Goto, Evaluating, Stages

LEMMA ClaimElsewhere ==
    ASSUME ClaimInv, UNCHANGED <<pc, claimed>>
    PROVE  ClaimInv'
BY DEF ClaimInv, OneEvaluation

\* The steps of an evaluation after the balance reads.
LEMMA DecidingKeepsClaim ==
    ASSUME ClaimInv, NEW k \in Ticks, Decide(k)
    PROVE  ClaimInv'
<1>1. pc[k] \in Evaluating /\ claimed
  BY DEF Decide, ClaimInv, Evaluating, Stages
<1>2. PICK verdict \in {Verdict(k, FALSE), Verdict(k, MayAdviseExit)} :
        \/ SellAtOnce(k, verdict) \/ LeaveZone(k, verdict) \/ HoldInZone(k, verdict)
        \/ ObeyAdvisor(k, verdict) \/ AwaitConfirmation(k, verdict)
        \/ StopOut(k, verdict) \/ Trail(k, verdict)
  BY DEF Decide
<1>3. \/ SellAll(k) \/ Ask(k) \/ Release(k)
      \/ Continue(k, "defending") \/ Continue(k, "exits")
  BY <1>2 DEF SellAtOnce, LeaveZone, HoldInZone, ObeyAdvisor, AwaitConfirmation,
              StopOut, HoldOrConsult, Trail
<1>4. CASE SellAll(k)
  BY <1>1, <1>4, ClaimGoesOn DEF SellAll, Evaluating, Stages
<1>5. CASE Ask(k)
  BY <1>1, <1>5, ClaimGoesOn DEF Ask, ClaimInv, Evaluating, Stages
<1>6. CASE Release(k) BY <1>1, <1>6, ClaimEnds
<1>7. CASE Continue(k, "defending") \/ Continue(k, "exits")
  BY <1>1, <1>7, ClaimGoesOn DEF Continue, ClaimInv, Evaluating, Stages
<1> QED BY <1>3, <1>4, <1>5, <1>6, <1>7

LEMMA EvaluatingKeepsClaim ==
    ASSUME ClaimInv, NEW k \in Ticks, Evaluate(k)
    PROVE  ClaimInv'
<1> USE DEF Evaluating, Stages
<1>1. CASE Judge(k)
  <2>1. ~ claimed /\ claimed' = TRUE /\ (Goto(k, "selling") \/ Goto(k, "holders"))
    BY <1>1 DEF Judge, MayClaim, SellAll
  <2> QED BY <2>1, ClaimGoesOn
<1>2. CASE Decide(k) BY <1>2, DecidingKeepsClaim
<1>3. CASE Consult(k) \/ Defend(k) \/ TrailExit(k) \/ NoExit(k)
  <2>1. pc[k] \in Evaluating
    BY <1>3 DEF Consult, Defend, DefenseFails, Recovered, Extend, Confirm, TrailExit, NoExit
  <2>2. SellAll(k) \/ Ask(k) \/ Release(k)
    BY <1>3 DEF Consult, Defend, DefenseFails, Recovered, Extend, Confirm, TrailExit,
                NoExit, HoldOrConsult
  <2>3. CASE SellAll(k) BY <2>1, <2>3, ClaimGoesOn DEF SellAll
  <2>4. CASE Ask(k) BY <2>1, <2>4, ClaimGoesOn DEF Ask, ClaimInv
  <2>5. CASE Release(k) BY <2>1, <2>5, ClaimEnds
  <2> QED BY <2>2, <2>3, <2>4, <2>5
<1>4. CASE TakeHalf(k)
  <2>1. pc[k] \in Evaluating /\ Goto(k, "selling") /\ claimed' = claimed
    BY <1>4 DEF TakeHalf
  <2> QED BY <2>1, ClaimGoesOn DEF ClaimInv
<1>5. CASE SellLands(k) \/ SellRetries(k) \/ Skip(k)
  <2>1. Release(k) /\ (pc[k] \in Evaluating \/ ~ claimed)
    BY <1>5 DEF SellLands, SellRetries, Skip, MayClaim
  <2> QED BY <2>1, ClaimEnds
<1> QED BY <1>1, <1>2, <1>3, <1>4, <1>5 DEF Evaluate

LEMMA ClaimStep == ClaimInv /\ [Next]_vars => ClaimInv'
<1> SUFFICES ASSUME ClaimInv, [Next]_vars PROVE ClaimInv'
  OBVIOUS
<1>1. CASE World \/ UNCHANGED vars
  <2>1. UNCHANGED <<pc, claimed>>
    BY <1>1 DEF World, TimerFires, Open, SoldElsewhere, Mature, ZoneRunsOut,
                ConfirmationRunsOut, vars, locals
  <2> QED BY <2>1, ClaimElsewhere
<1>2. ASSUME NEW k \in Ticks, Tick(k) PROVE ClaimInv'
  <2>1. CASE Evaluate(k) BY <2>1, EvaluatingKeepsClaim
  <2>2. CASE Read(k) \/ Forget(k) \/ AlreadyClaimed(k)
    <3>1. /\ pc[k] \in {"idle", "read"} /\ claimed' = claimed
          /\ Goto(k, "read") \/ Goto(k, "idle")
      BY <2>2 DEF Read, Forget, AlreadyClaimed
    <3> QED BY <3>1 DEF ClaimInv, OneEvaluation, Goto, Evaluating, Stages
  <2> QED BY <1>2, <2>1, <2>2 DEF Tick
<1> QED BY <1>1, <1>2 DEF Next

\* At most one tick at a time is judging the position or selling it
\* (processingTrades in monitorPrices), for any number of overlapping ticks.
THEOREM EvaluationIsExclusive == Spec => []OneEvaluation
<1>1. Init => ClaimInv
  BY DEF Init, ClaimInv, OneEvaluation, Evaluating, Stages
<1>2. ClaimInv => OneEvaluation BY DEF ClaimInv
<1> QED BY <1>1, <1>2, ClaimStep, PTL DEF Spec

(***************************************************************************)
(* The halves.                                                             *)
(***************************************************************************)
Judging == {"holders", "defending", "exits"}

\* A tick judges an open row, and sells a half only if that row shows none.
HalfInv ==
    /\ pc \in [Ticks -> Stages] /\ exit \in [Ticks -> {"none", "half", "whole"}]
    /\ DOMAIN snap = Ticks
    /\ \A k \in Ticks : exit[k] = "half" => pc[k] = "selling" /\ k \in Unaware
    /\ \A k \in Ticks : pc[k] \in Judging => snap[k].status = "OPEN"

\* A step of one tick leaves the others as they are.
LEMMA HalfOfOne ==
    ASSUME HalfInv, NEW k \in Ticks, NEW stage \in Stages, Goto(k, stage),
           exit' \in [Ticks -> {"none", "half", "whole"}], DOMAIN snap' = Ticks,
           \A j \in Ticks : j # k => exit'[j] = exit[j] /\ snap'[j] = snap[j],
           exit'[k] = "half" => /\ stage = "selling"
                                /\ snap'[k].status = "OPEN" /\ ~ snap'[k].tp,
           stage \in Judging => snap'[k].status = "OPEN"
    PROVE  HalfInv'
<1>1. pc' = [pc EXCEPT ![k] = stage] /\ pc' \in [Ticks -> Stages] BY DEF HalfInv, Goto
<1>2. ASSUME NEW j \in Ticks, exit'[j] = "half"
      PROVE  pc'[j] = "selling" /\ snap'[j].status = "OPEN" /\ ~ snap'[j].tp
  BY <1>1, <1>2 DEF HalfInv, Unaware
<1>3. ASSUME NEW j \in Ticks, pc'[j] \in Judging PROVE snap'[j].status = "OPEN"
  BY <1>1, <1>3 DEF HalfInv
<1> QED BY <1>1, <1>2, <1>3 DEF HalfInv, Unaware

LEMMA HalfReleased ==
    ASSUME HalfInv, NEW k \in Ticks, Release(k)
    PROVE  HalfInv'
<1>1. exit'[k] = "none" /\ exit' \in [Ticks -> {"none", "half", "whole"}]
  BY DEF HalfInv, Release
<1>2. DOMAIN snap' = Ticks /\ \A j \in Ticks : j # k => exit'[j] = exit[j] /\ snap'[j] = snap[j]
  BY DEF HalfInv, Release
<1>3. Goto(k, "idle") BY DEF Release
<1> QED BY <1>1, <1>2, <1>3, HalfOfOne DEF Stages, Judging

LEMMA HalfSoldWhole ==
    ASSUME HalfInv, NEW k \in Ticks, SellAll(k)
    PROVE  HalfInv'
<1>1. exit'[k] = "whole" /\ exit' \in [Ticks -> {"none", "half", "whole"}]
  BY DEF HalfInv, SellAll
<1>2. DOMAIN snap' = Ticks /\ \A j \in Ticks : j # k => exit'[j] = exit[j] /\ snap'[j] = snap[j]
  BY DEF HalfInv, SellAll
<1>3. Goto(k, "selling") BY DEF SellAll
<1> QED BY <1>1, <1>2, <1>3, HalfOfOne DEF Stages, Judging

LEMMA HalfAsked ==
    ASSUME HalfInv, NEW k \in Ticks, pc[k] # "selling", Ask(k)
    PROVE  HalfInv'
<1>1. exit'[k] # "half" /\ exit' \in [Ticks -> {"none", "half", "whole"}]
  BY DEF HalfInv, Ask
<1>2. DOMAIN snap' = Ticks /\ \A j \in Ticks : j # k => exit'[j] = exit[j] /\ snap'[j] = snap[j]
  BY DEF HalfInv, Ask
<1>3. Goto(k, "consulting") BY DEF Ask
<1> QED BY <1>1, <1>2, <1>3, HalfOfOne DEF Stages, Judging

LEMMA HalfContinued ==
    ASSUME HalfInv, NEW k \in Ticks, NEW stage \in Stages, pc[k] # "selling",
           Goto(k, stage), exit' = exit, DOMAIN snap' = Ticks,
           \A j \in Ticks : j # k => snap'[j] = snap[j],
           stage \in Judging => snap'[k].status = "OPEN"
    PROVE  HalfInv'
<1>1. exit'[k] # "half" /\ exit' \in [Ticks -> {"none", "half", "whole"}]
  BY DEF HalfInv
<1> QED BY <1>1, HalfOfOne

LEMMA HalfStep == HalfInv /\ [Next]_vars => HalfInv'
<1> SUFFICES ASSUME HalfInv, [Next]_vars PROVE HalfInv'
  OBVIOUS
<1>1. CASE World \/ UNCHANGED vars
  <2>1. UNCHANGED <<pc, exit, snap>>
    BY <1>1 DEF World, TimerFires, Open, SoldElsewhere, Mature, ZoneRunsOut,
                ConfirmationRunsOut, vars, locals
  <2> QED BY <2>1 DEF HalfInv, Unaware
<1>2. ASSUME NEW k \in Ticks, Tick(k) PROVE HalfInv'
  <2>1. CASE Read(k) \/ Forget(k) \/ AlreadyClaimed(k)
    <3>1. /\ pc[k] # "selling" /\ exit' = exit
          /\ \/ Goto(k, "read") /\ snap' = [snap EXCEPT ![k] = row]
             \/ Goto(k, "idle") /\ snap' = [snap EXCEPT ![k] = NewRow]
      BY <2>1 DEF Read, Forget, AlreadyClaimed
    <3>2. DOMAIN snap' = Ticks /\ \A j \in Ticks : j # k => snap'[j] = snap[j]
      BY <3>1 DEF HalfInv
    <3> QED BY <3>1, <3>2, HalfContinued DEF Stages, Judging
  <2>2. CASE Judge(k)
    <3>1. /\ pc[k] # "selling" /\ snap[k].status = "OPEN"
          /\ \/ SellAll(k)
             \/ Goto(k, "holders") /\ exit' = exit /\ snap' = snap
      BY <2>2 DEF Judge, MayClaim
    <3> QED BY <3>1, HalfSoldWhole, HalfContinued DEF Stages, HalfInv
  <2>3. CASE Decide(k)
    <3>1. pc[k] = "holders" /\ snap[k].status = "OPEN"
      BY <2>3 DEF Decide, HalfInv, Judging
    <3>2. \/ SellAll(k) \/ Ask(k) \/ Release(k)
          \/ Continue(k, "defending") \/ Continue(k, "exits")
      <4>1. PICK verdict \in {Verdict(k, FALSE), Verdict(k, MayAdviseExit)} :
              \/ SellAtOnce(k, verdict) \/ LeaveZone(k, verdict) \/ HoldInZone(k, verdict)
              \/ ObeyAdvisor(k, verdict) \/ AwaitConfirmation(k, verdict)
              \/ StopOut(k, verdict) \/ Trail(k, verdict)
        BY <2>3 DEF Decide
      <4> QED BY <4>1 DEF SellAtOnce, LeaveZone, HoldInZone, ObeyAdvisor,
                          AwaitConfirmation, StopOut, HoldOrConsult, Trail
    <3>3. CASE SellAll(k) \/ Ask(k) \/ Release(k)
      BY <3>1, <3>3, HalfSoldWhole, HalfAsked, HalfReleased
    <3>4. CASE Continue(k, "defending") \/ Continue(k, "exits")
      BY <3>1, <3>4, HalfContinued DEF Continue, Stages, HalfInv
    <3> QED BY <3>2, <3>3, <3>4
  <2>4. CASE Consult(k) \/ Defend(k) \/ TrailExit(k) \/ NoExit(k)
    <3>1. pc[k] # "selling"
      BY <2>4 DEF Consult, Defend, DefenseFails, Recovered, Extend, Confirm, TrailExit, NoExit
    <3>2. SellAll(k) \/ Ask(k) \/ Release(k)
      BY <2>4 DEF Consult, Defend, DefenseFails, Recovered, Extend, Confirm, TrailExit,
                  NoExit, HoldOrConsult
    <3> QED BY <3>1, <3>2, HalfSoldWhole, HalfAsked, HalfReleased
  <2>5. CASE TakeHalf(k)
    <3>1. /\ Goto(k, "selling") /\ exit' = [exit EXCEPT ![k] = "half"] /\ snap' = snap
          /\ snap[k].status = "OPEN" /\ ~ snap[k].tp
      BY <2>5 DEF TakeHalf, HitsTarget, HalfInv, Judging
    <3>2. /\ exit' \in [Ticks -> {"none", "half", "whole"}] /\ DOMAIN snap' = Ticks
          /\ \A j \in Ticks : j # k => exit'[j] = exit[j] /\ snap'[j] = snap[j]
      BY <3>1 DEF HalfInv
    <3> QED BY <3>1, <3>2, HalfOfOne DEF Stages, Judging
  <2>6. CASE SellLands(k) \/ SellRetries(k) \/ Skip(k)
    BY <2>6, HalfReleased DEF SellLands, SellRetries, Skip
  <2> QED BY <1>2, <2>1, <2>2, <2>3, <2>4, <2>5, <2>6 DEF Tick, Evaluate
<1> QED BY <1>1, <1>2 DEF Next

CountInv == timers \in Nat /\ halves \in Nat

\* Whatever a tick does, it keeps its row, drops it or reads the row of now.
LEMMA RowsRead ==
    ASSUME HalfInv, [Next]_vars, NEW j \in Ticks
    PROVE  snap'[j] \in {snap[j], NewRow, row}
<1>1. CASE World \/ UNCHANGED vars
  BY <1>1 DEF World, TimerFires, Open, SoldElsewhere, Mature, ZoneRunsOut,
              ConfirmationRunsOut, vars, locals
<1>2. ASSUME NEW k \in Ticks, Tick(k) PROVE snap'[j] \in {snap[j], NewRow, row}
  <2>1. \/ snap' = snap \/ snap' = [snap EXCEPT ![k] = NewRow]
        \/ snap' = [snap EXCEPT ![k] = row]
    <3>1. CASE Decide(k)
      BY <3>1 DEF Decide, SellAtOnce, LeaveZone, HoldInZone, ObeyAdvisor, AwaitConfirmation,
                  StopOut, HoldOrConsult, Trail, SellAll, Ask, Release, Continue
    <3>2. CASE ~ Decide(k)
      BY <1>2, <3>2 DEF Tick, Evaluate, Read, Forget, AlreadyClaimed, Judge, Consult, Defend,
         DefenseFails, Recovered, Extend, Confirm, TakeHalf, TrailExit, NoExit, SellLands,
         SellRetries, Skip, HoldOrConsult, SellAll, Ask, Release, Continue
    <3> QED BY <3>1, <3>2
  <2> QED BY <2>1 DEF HalfInv
<1> QED BY <1>1, <1>2 DEF Next

\* Nobody becomes unaware of a half that is on record.
LEMMA Awareness ==
    ASSUME HalfInv, row.tp, [Next]_vars
    PROVE  Unaware' \subseteq Unaware
<1> SUFFICES ASSUME NEW j \in Ticks, snap'[j].status = "OPEN", ~ snap'[j].tp
             PROVE  j \in Unaware
  BY DEF Unaware
<1>1. snap'[j] \in {snap[j], NewRow, row} BY RowsRead
<1>2. snap'[j] # NewRow BY DEF NewRow
<1>3. snap'[j] = snap[j] BY <1>1, <1>2
<1> QED BY <1>3 DEF Unaware

\* A tick that sells a half or queues it has nothing left to sell.
LEMMA HalfUsed ==
    ASSUME HalfInv, row.tp, [Next]_vars, NEW k \in Ticks, exit[k] = "half", Release(k)
    PROVE  k \in Unaware /\ Unaware' \subseteq Unaware \ {k}
<1>1. k \in Unaware BY DEF HalfInv
<1>2. snap'[k] = NewRow BY DEF Release, HalfInv
<1>3. k \notin Unaware' BY <1>2 DEF Unaware, NewRow
<1> QED BY <1>1, <1>3, Awareness

\* What a step does to the halves and the timers.
LEMMA HalvesMove ==
    ASSUME CountInv, [Next]_vars
    PROVE  \/ UNCHANGED <<halves, timers>>
           \/ timers > 0 /\ timers' = timers - 1 /\ halves' \in {halves, halves + 1}
           \/ \E k \in Ticks : /\ exit[k] = "half" /\ Release(k)
                               /\ \/ halves' = halves + 1 /\ timers' = timers
                                  \/ halves' = halves /\ timers' = timers + 1
<1>1. CASE TimerFires BY <1>1 DEF TimerFires, Sold
<1>2. CASE (World /\ ~ TimerFires) \/ UNCHANGED vars
  BY <1>2 DEF World, Open, SoldElsewhere, Sold, Mature, ZoneRunsOut, ConfirmationRunsOut,
              vars, position
<1>3. ASSUME NEW k \in Ticks, SellLands(k)
      PROVE  \/ UNCHANGED <<halves, timers>>
             \/ /\ exit[k] = "half" /\ Release(k)
                /\ halves' = halves + 1 /\ timers' = timers
  BY <1>3 DEF SellLands, Sold
<1>4. ASSUME NEW k \in Ticks, SellRetries(k)
      PROVE  /\ exit[k] = "half" /\ Release(k)
             /\ halves' = halves /\ timers' = timers + 1
  BY <1>4 DEF SellRetries
<1>5. ASSUME NEW k \in Ticks, Tick(k), ~ SellLands(k), ~ SellRetries(k)
      PROVE  UNCHANGED <<halves, timers>>
  <2>1. CASE Decide(k)
    BY <2>1 DEF Decide, SellAtOnce, LeaveZone, HoldInZone, ObeyAdvisor,
                AwaitConfirmation, StopOut, Trail, position
  <2>2. CASE ~ Decide(k)
    BY <1>5, <2>2 DEF Tick, Evaluate, Read, Forget, AlreadyClaimed, Judge, Consult,
       Defend, DefenseFails, Recovered, Extend, Confirm, TakeHalf, TrailExit, NoExit,
       Skip, position
  <2> QED BY <2>1, <2>2
<1> QED BY <1>1, <1>2, <1>3, <1>4, <1>5 DEF Next

LEMMA CountStep == CountInv /\ [Next]_vars => CountInv'
BY HalvesMove DEF CountInv

\* The sum of the halves and those that are owed, in numbers.
LEMMA SumDoesNotGrow ==
    ASSUME NEW h \in Nat, NEW t \in Nat, NEW n \in Nat,
           NEW g \in Nat, NEW u \in Nat, NEW m \in Nat, m <= n,
           \/ g = h /\ u = t
           \/ (g = h \/ g = h + 1) /\ u = t - 1
           \/ m + 1 <= n /\ g = h + 1 /\ u = t
           \/ m + 1 <= n /\ g = h /\ u = t + 1
    PROVE  g + (u + m) <= h + (t + n)
OBVIOUS

LEMMA HalvesCounted ==
    ASSUME HalfInv, CountInv, row.tp, [Next]_vars
    PROVE  halves' + Owed' <= halves + Owed
<1> DEFINE n == Cardinality(Unaware)
           m == Cardinality(Unaware')
<1>1. IsFiniteSet(Unaware) BY TicksAssumption, FS_Subset DEF Unaware
<1>2. Unaware' \subseteq Unaware BY Awareness
<1>3. IsFiniteSet(Unaware') /\ m <= n BY <1>1, <1>2, FS_Subset
<1>4. n \in Nat /\ m \in Nat BY <1>1, <1>3, FS_CardinalityType
<1>5. ASSUME NEW k \in Ticks, exit[k] = "half", Release(k) PROVE m + 1 <= n
  <2>1. k \in Unaware /\ Unaware' \subseteq Unaware \ {k} BY <1>5, HalfUsed
  <2>2. IsFiniteSet(Unaware \ {k}) /\ Cardinality(Unaware \ {k}) = n - 1
    BY <1>1, <2>1, FS_RemoveElement
  <2>3. m <= Cardinality(Unaware \ {k}) BY <2>1, <2>2, FS_Subset
  <2> HIDE DEF n, m
  <2> QED BY <1>4, <2>2, <2>3
<1>6. Owed = timers + n /\ Owed' = timers' + m BY DEF Owed
<1>7. timers \in Nat /\ halves \in Nat /\ timers' \in Nat /\ halves' \in Nat
  BY CountStep DEF CountInv
<1> HIDE DEF n, m
<1>8. \/ halves' = halves /\ timers' = timers
      \/ halves' \in {halves, halves + 1} /\ timers' = timers - 1
      \/ m + 1 <= n /\ halves' = halves + 1 /\ timers' = timers
      \/ m + 1 <= n /\ halves' = halves /\ timers' = timers + 1
  BY <1>5, HalvesMove
<1>9. halves' + (timers' + m) <= halves + (timers + n)
  BY <1>3, <1>4, <1>7, <1>8, SumDoesNotGrow
<1> QED BY <1>6, <1>9

\* Once a partial take profit is on record, the position is only halved again
\* by the ticks that had read the row before and the retries that were queued,
\* by each once (evaluateTrade takes partialTakeProfitAt from its snapshot), for
\* any number of ticks and retries.
THEOREM HalvesAreOwed == Spec => HalvesOwed
<1>1. Init => HalfInv /\ CountInv
  BY DEF Init, HalfInv, CountInv, Stages, Judging, NewRow
<1>2. HalfInv /\ CountInv /\ [Next]_vars
        => [row.tp => halves' + Owed' <= halves + Owed]_vars
  BY HalvesCounted
<1> QED BY <1>1, <1>2, HalfStep, CountStep, PTL DEF Spec, HalvesOwed

(***************************************************************************)
(* The budget of the defences.                                             *)
(***************************************************************************)
\* FirstOf names the first rule that holds: a stop is defended only within the
\* limits of handleAiCutlossDefense.
LEMMA FirstIsSmallest ==
    ASSUME NEW S \in SUBSET (1 .. 11), 11 \in S
    PROVE  Min(S) \in S
<1>1. \E x \in S : \A y \in S : x <= y
  <2>1. \A x \in S : x \in 1 .. 11 OBVIOUS
  <2>2. CASE 1 \in S BY <2>1, <2>2
  <2>3. CASE 1 \notin S /\ 2 \in S BY <2>1, <2>3
  <2>4. CASE 1 \notin S /\ 2 \notin S /\ 3 \in S BY <2>1, <2>4
  <2>5. CASE 1 \notin S /\ 2 \notin S /\ 3 \notin S /\ 4 \in S BY <2>1, <2>5
  <2>6. CASE 1 \notin S /\ 2 \notin S /\ 3 \notin S /\ 4 \notin S
    <3>1. \A x \in S : x \in 5 .. 11 BY <2>1, <2>6
    <3>2. CASE 5 \in S BY <3>1, <3>2
    <3>3. CASE 5 \notin S /\ 6 \in S BY <3>1, <3>3
    <3>4. CASE 5 \notin S /\ 6 \notin S /\ 7 \in S BY <3>1, <3>4
    <3>5. CASE 5 \notin S /\ 6 \notin S /\ 7 \notin S
      <4>1. \A x \in S : x \in 8 .. 11 BY <3>1, <3>5
      <4>2. CASE 8 \in S BY <4>1, <4>2
      <4>3. CASE 8 \notin S /\ 9 \in S BY <4>1, <4>3
      <4>4. CASE 8 \notin S /\ 9 \notin S /\ 10 \in S BY <4>1, <4>4
      <4>5. CASE 8 \notin S /\ 9 \notin S /\ 10 \notin S BY <4>1, <4>5
      <4> QED BY <4>2, <4>3, <4>4, <4>5
    <3> QED BY <3>2, <3>3, <3>4, <3>5
  <2> QED BY <2>2, <2>3, <2>4, <2>5, <2>6
<1> QED BY <1>1 DEF Min

LEMMA OfElevenRules ==
    ASSUME NEW b1, NEW b2, NEW b3, NEW b4, NEW b5, NEW b6, NEW b7, NEW b8,
           NEW b9 \in BOOLEAN, NEW b10,
           FirstOf(<< <<"DEV_DUMP", b1>>, <<"WHALE_DUMP", b2>>, <<"PANIC_SELL", b3>>,
                      <<"leaveZone", b4>>, <<"zone", b5>>, <<"advised", b6>>,
                      <<"noStop", b7>>, <<"unconfirmed", b8>>, <<"defend", b9>>,
                      <<"guard", b10>>, <<"STOP_LOSS", TRUE>> >>) = "defend"
    PROVE  b9
<1> DEFINE rules == << <<"DEV_DUMP", b1>>, <<"WHALE_DUMP", b2>>, <<"PANIC_SELL", b3>>,
                      <<"leaveZone", b4>>, <<"zone", b5>>, <<"advised", b6>>,
                      <<"noStop", b7>>, <<"unconfirmed", b8>>, <<"defend", b9>>,
                      <<"guard", b10>>, <<"STOP_LOSS", TRUE>> >>
           S == {i \in DOMAIN rules : rules[i][2]}
<1>1. DOMAIN rules = 1 .. 11 OBVIOUS
<1>2. rules[11][2] = TRUE OBVIOUS
<1>3. S \in SUBSET (1 .. 11) /\ 11 \in S
  <2> HIDE DEF rules
  <2> QED BY <1>1, <1>2
<1>4. Min(S) \in S
  <2> HIDE DEF S
  <2> QED BY <1>3, FirstIsSmallest
<1>5. rules[Min(S)][1] = "defend" BY DEF FirstOf
<1>6. \A i \in 1 .. 11 : rules[i][1] = "defend" => i = 9
  OBVIOUS
<1>7. Min(S) = 9
  <2>1. Min(S) \in 1 .. 11 BY <1>3, <1>4
  <2> HIDE DEF S, rules
  <2> QED BY <2>1, <1>5, <1>6
<1>8. rules[9][2] BY <1>4, <1>7
<1>9. rules[9][2] = b9 OBVIOUS
<1> HIDE DEF rules
<1> QED BY <1>8, <1>9

LEMMA DefendedWithinLimits ==
    ASSUME NEW k \in Ticks, NEW advised, Verdict(k, advised) = "defend"
    PROVE  Defensible(k)
<1>1. Defensible(k) \in BOOLEAN BY DEF Defensible
<1> DEFINE r == snap[k]
           o == obs[k]
           b1 == CreatorDumps(o)
           b2 == WhaleSold(o)
           b3 == Crashed(o)
           b4 == InHoldZone(r, o) /\ zone = "overdue" /\ ~ young
           b5 == InHoldZone(r, o)
           b7 == ~ StopHit(r, o)
           b8 == NeedsConfirmation(r, o) /\ deep # "overdue"
           b9 == Defensible(k)
           b10 == EarlyGuard(k, "STOP_LOSS")
<1>2. FirstOf(<< <<"DEV_DUMP", b1>>, <<"WHALE_DUMP", b2>>, <<"PANIC_SELL", b3>>,
                 <<"leaveZone", b4>>, <<"zone", b5>>, <<"advised", advised>>,
                 <<"noStop", b7>>, <<"unconfirmed", b8>>, <<"defend", b9>>,
                 <<"guard", b10>>, <<"STOP_LOSS", TRUE>> >>) = "defend"
  BY Zenon DEF Verdict
<1>3. b9 \in BOOLEAN BY <1>1
<1> HIDE DEF b1, b2, b3, b4, b5, b7, b8, b9, b10
<1>4. b9 BY <1>2, <1>3, OfElevenRules
<1> QED BY <1>4 DEF b9

LEMMA MinOfTwo ==
    ASSUME NEW a \in Int, NEW b \in Int
    PROVE  Min({a, b}) \in {a, b} /\ Min({a, b}) <= a /\ Min({a, b}) <= b
<1>1. \E x \in {a, b} : \A y \in {a, b} : x <= y OBVIOUS
<1> QED BY <1>1 DEF Min

LEMMA MaxOfTwo ==
    ASSUME NEW a \in Int, NEW b \in Int
    PROVE  Max({a, b}) \in {a, b} /\ Max({a, b}) >= a /\ Max({a, b}) >= b
<1>1. \E x \in {a, b} : \A y \in {a, b} : x >= y OBVIOUS
<1> QED BY <1>1 DEF Max

\* What a row may allow: every defence it counts is worth one extension, and
\* together they are worth MaxDefenses.
Granted(r) ==
    /\ DOMAIN r = DOMAIN NewRow
    /\ r.target \in Int /\ r.defenses \in Nat
    /\ r.target <= StopLoss + r.defenses * MaxExtension
    /\ r.target <= StopLoss + MaxDefenses * MaxExtension

\* A snapshot counts no more defences than the row it was taken of has now.
BudgetInv ==
    /\ pc \in [Ticks -> Stages] /\ DOMAIN snap = Ticks
    /\ Granted(row)
    /\ \A k \in Ticks : Granted(snap[k]) /\ snap[k].defenses <= row.defenses
    /\ \A k \in Ticks : pc[k] = "defending" => snap[k].defenses < MaxDefenses

SameBudget(r, s) ==
    DOMAIN s = DOMAIN r /\ s.target = r.target /\ s.defenses = r.defenses

LEMMA Extensible ==
    ASSUME NEW d \in Nat, d < MaxDefenses
    PROVE  /\ d * MaxExtension \in Nat
           /\ (d + 1) * MaxExtension = d * MaxExtension + MaxExtension
           /\ (d + 1) * MaxExtension <= MaxDefenses * MaxExtension
<1>1. MaxExtension \in Nat /\ MaxDefenses \in Nat BY CountsAssumption, DefenceAssumption
<1>2. PICK e \in Nat : MaxDefenses = d + 1 + e
  <2>1. MaxDefenses - (d + 1) \in Nat BY <1>1
  <2> QED BY <2>1, <1>1
<1>3. MaxDefenses * MaxExtension = (d + 1) * MaxExtension + e * MaxExtension
  BY <1>1, <1>2
<1>4. e * MaxExtension \in Nat /\ d * MaxExtension \in Nat BY <1>1
<1>5. (d + 1) * MaxExtension = d * MaxExtension + MaxExtension BY <1>1
<1>6. (d + 1) * MaxExtension \in Nat BY <1>1
<1> QED BY <1>3, <1>4, <1>5, <1>6

LEMMA NewRowGranted == Granted(NewRow) /\ NewRow.defenses = 0
<1>1. MaxDefenses * MaxExtension \in Nat BY CountsAssumption, DefenceAssumption
<1>2. 0 * MaxExtension = 0 BY DefenceAssumption
<1>3. NewRow.target = 0 /\ NewRow.defenses = 0 BY DEF NewRow
<1> QED BY <1>1, <1>2, <1>3, DefenceAssumption DEF Granted

\* An extension is at most MaxExtension above the stop the tick read.
LEMMA ExtensionBounded ==
    ASSUME NEW r, Granted(r), r.defenses < MaxDefenses, NEW n \in Extensions
    PROVE  /\ Extended(r, n) \in Int
           /\ Extended(r, n) <= StopLoss + (r.defenses + 1) * MaxExtension
<1> DEFINE low == StopLossOf(r)
           near == Min({low + MaxExtension, n})
           far == Max({low + 1, near})
<1>1. MaxExtension \in Nat \ {0} /\ StopLoss \in Nat /\ HardFloor \in Nat /\ n \in Nat
  BY DefenceAssumption, CountsAssumption
<1>2. r.defenses * MaxExtension \in Nat
      /\ (r.defenses + 1) * MaxExtension = r.defenses * MaxExtension + MaxExtension
  BY Extensible DEF Granted
<1>3. low \in Int /\ low <= StopLoss + r.defenses * MaxExtension
  BY <1>1, <1>2 DEF StopLossOf, Granted
<1> HIDE DEF low
<1>4. near \in Int /\ near <= low + MaxExtension
  <2>1. low + MaxExtension \in Int /\ n \in Int BY <1>1, <1>3
  <2>2. Min({low + MaxExtension, n}) \in Int
        /\ Min({low + MaxExtension, n}) <= low + MaxExtension
    BY <2>1, MinOfTwo
  <2> QED BY <2>2
<1> HIDE DEF near
<1>5. far \in Int /\ far <= low + MaxExtension
  <2>1. low + 1 \in Int /\ near \in Int BY <1>3, <1>4
  <2>2. Max({low + 1, near}) \in {low + 1, near} BY <2>1, MaxOfTwo
  <2>3. far \in {low + 1, near} BY <2>2
  <2> HIDE DEF far
  <2> QED BY <1>1, <1>3, <1>4, <2>3
<1> HIDE DEF far
<1>6. Min({HardFloor, far}) \in Int /\ Min({HardFloor, far}) <= far
  <2>1. HardFloor \in Int /\ far \in Int BY <1>1, <1>5
  <2> QED BY <2>1, MinOfTwo
<1>7. Extended(r, n) = Min({HardFloor, far})
  BY DEF Extended, far, near, low
<1> QED BY <1>1, <1>2, <1>3, <1>5, <1>6, <1>7

\* What one tick leaves of its snapshot, while the row keeps its budget.
LEMMA BudgetOfOne ==
    ASSUME BudgetInv, SameBudget(row, row'),
           NEW k \in Ticks, NEW stage \in Stages, Goto(k, stage),
           NEW r \in {NewRow, row, snap[k]}, DOMAIN snap' = Ticks, snap'[k] = r,
           \A j \in Ticks : j # k => snap'[j] = snap[j],
           stage = "defending" => r.defenses < MaxDefenses
    PROVE  BudgetInv'
<1>1. Granted(row') BY DEF BudgetInv, SameBudget, Granted
<1>2. snap'[k] = r /\ Granted(r) /\ r.defenses <= row.defenses
  <2>1. NewRow.defenses <= row.defenses BY NewRowGranted DEF BudgetInv, Granted
  <2>2. row.defenses <= row.defenses BY DEF BudgetInv, Granted
  <2> QED BY <2>1, <2>2, NewRowGranted DEF BudgetInv
<1>3. row'.defenses = row.defenses BY DEF SameBudget
<1>4. pc' \in [Ticks -> Stages] /\ DOMAIN snap' = Ticks BY DEF BudgetInv, Goto
<1>5. ASSUME NEW j \in Ticks
      PROVE  Granted(snap'[j]) /\ snap'[j].defenses <= row'.defenses
             /\ (pc'[j] = "defending" => snap'[j].defenses < MaxDefenses)
  <2>1. CASE j = k BY <2>1, <1>2, <1>3 DEF BudgetInv, Goto
  <2>2. CASE j # k
    <3>1. snap'[j] = snap[j] /\ pc'[j] = pc[j] BY <2>2 DEF BudgetInv, Goto
    <3> QED BY <3>1, <1>3 DEF BudgetInv
  <2> QED BY <2>1, <2>2
<1>6. (Granted(row))' BY <1>1 DEF Granted
<1>7. \A j \in Ticks : (Granted(snap[j]))' /\ (snap[j].defenses <= row.defenses)'
  BY <1>5 DEF Granted
<1> QED BY <1>4, <1>5, <1>6, <1>7 DEF BudgetInv

LEMMA BudgetReleased ==
    ASSUME BudgetInv, SameBudget(row, row'), NEW k \in Ticks, Release(k) \/ SellAll(k) \/ Ask(k)
    PROVE  BudgetInv'
<1>1. /\ DOMAIN snap' = Ticks /\ snap'[k] = NewRow
      /\ \A j \in Ticks : j # k => snap'[j] = snap[j]
  BY DEF BudgetInv, Release, SellAll, Ask
<1>2. Goto(k, "idle") \/ Goto(k, "selling") \/ Goto(k, "consulting")
  BY DEF Release, SellAll, Ask
<1> QED BY <1>1, <1>2, BudgetOfOne DEF Stages

\* The row gets its own defence, whoever reads it.
LEMMA BudgetExtended ==
    ASSUME BudgetInv, NEW k \in Ticks, Extend(k)
    PROVE  BudgetInv'
<1>1. Release(k) /\ snap[k].defenses < MaxDefenses /\ Granted(snap[k])
      /\ snap[k].defenses <= row.defenses /\ Granted(row)
  BY DEF Extend, BudgetInv
<1>2. CASE row.status # "OPEN"
  <2>1. row' = row BY <1>2 DEF Extend
  <2> QED BY <1>1, <2>1, BudgetReleased DEF SameBudget
<1>3. CASE row.status = "OPEN"
  <2>1. PICK n \in Extensions :
          row' = [row EXCEPT !.target = Extended(snap[k], n), !.defenses = @ + 1]
    BY <1>3 DEF Extend
  <2> DEFINE new == Extended(snap[k], n)
             d == snap[k].defenses
  <2>2. new \in Int /\ new <= StopLoss + (d + 1) * MaxExtension
    BY <1>1, ExtensionBounded
  <2>3. /\ DOMAIN row' = DOMAIN NewRow
        /\ row'.target = new /\ row'.defenses = row.defenses + 1
    BY <2>1, <1>1 DEF Granted, NewRow
  <2>4. d \in Nat /\ row.defenses \in Nat /\ d <= row.defenses BY <1>1 DEF Granted
  <2>5. new <= StopLoss + MaxDefenses * MaxExtension
    <3>1. (d + 1) * MaxExtension <= MaxDefenses * MaxExtension
      BY <1>1, <2>4, Extensible
    <3>2. (d + 1) * MaxExtension \in Int /\ MaxDefenses * MaxExtension \in Int
          /\ StopLoss \in Int
      BY <2>4, DefenceAssumption, CountsAssumption
    <3> HIDE DEF new, d
    <3> QED BY <2>2, <3>1, <3>2
  <2>6. new <= StopLoss + (row.defenses + 1) * MaxExtension
    <3>1. PICK e \in Nat : row.defenses = d + e
      <4>1. row.defenses - d \in Nat BY <2>4
      <4> QED BY <2>4, <4>1
    <3>2. MaxExtension \in Nat /\ StopLoss \in Nat BY DefenceAssumption
    <3>3. (row.defenses + 1) * MaxExtension = (d + 1) * MaxExtension + e * MaxExtension
      BY <2>4, <3>1, <3>2
    <3>4. e * MaxExtension \in Nat /\ (d + 1) * MaxExtension \in Nat BY <2>4, <3>2
    <3> HIDE DEF new, d
    <3> QED BY <2>2, <3>2, <3>3, <3>4
  <2>7. (Granted(row))'
    BY <2>2, <2>3, <2>4, <2>5, <2>6 DEF Granted, NewRow
  <2>8. pc' = [pc EXCEPT ![k] = "idle"] /\ snap' = [snap EXCEPT ![k] = NewRow]
    BY <1>1 DEF Release, Goto
  <2>9. ASSUME NEW j \in Ticks
        PROVE  Granted(snap'[j]) /\ snap'[j].defenses <= row'.defenses
               /\ (pc'[j] = "defending" => snap'[j].defenses < MaxDefenses)
    <3>1. CASE j = k
      <4>1. snap'[j] = NewRow /\ pc'[j] = "idle" BY <3>1, <2>8 DEF BudgetInv
      <4> QED BY <4>1, <2>3, <2>4, NewRowGranted
    <3>2. CASE j # k
      <4>1. snap'[j] = snap[j] /\ pc'[j] = pc[j] BY <3>2, <2>8 DEF BudgetInv
      <4>2. Granted(snap[j]) /\ snap[j].defenses <= row.defenses
        BY DEF BudgetInv
      <4> QED BY <4>1, <4>2, <2>3, <2>4 DEF BudgetInv, Granted
    <3> QED BY <3>1, <3>2
  <2>10. pc' \in [Ticks -> Stages] /\ DOMAIN snap' = Ticks
    BY <2>8 DEF BudgetInv, Stages
  <2>11. \A j \in Ticks : (Granted(snap[j]))' /\ (snap[j].defenses <= row.defenses)'
    BY <2>9 DEF Granted
  <2> QED BY <2>7, <2>9, <2>10, <2>11 DEF BudgetInv
<1> QED BY <1>2, <1>3

LEMMA BudgetStep == BudgetInv /\ [Next]_vars => BudgetInv'
<1> SUFFICES ASSUME BudgetInv, [Next]_vars PROVE BudgetInv'
  OBVIOUS
<1>0. Granted(row) BY DEF BudgetInv
<1>1. CASE World \/ UNCHANGED vars
  <2>1. UNCHANGED <<pc, snap>>
    BY <1>1 DEF World, TimerFires, Open, SoldElsewhere, Mature, ZoneRunsOut,
                ConfirmationRunsOut, vars, locals
  <2>2. SameBudget(row, row')
    BY <1>0, <1>1 DEF World, TimerFires, Open, SoldElsewhere, Sold, Mature, ZoneRunsOut,
                ConfirmationRunsOut, vars, position, SameBudget, Granted, NewRow
  <2> QED BY <2>1, <2>2 DEF BudgetInv, SameBudget, Granted
<1>2. ASSUME NEW k \in Ticks, Tick(k) PROVE BudgetInv'
  <2>1. CASE Read(k) \/ Forget(k) \/ AlreadyClaimed(k)
    <3>1. SameBudget(row, row')
      BY <2>1 DEF Read, Forget, AlreadyClaimed, position, SameBudget
    <3>2. \/ Goto(k, "read") /\ snap' = [snap EXCEPT ![k] = row]
          \/ Goto(k, "idle") /\ snap' = [snap EXCEPT ![k] = NewRow]
      BY <2>1 DEF Read, Forget, AlreadyClaimed
    <3>3. /\ DOMAIN snap' = Ticks
          /\ \A j \in Ticks : j # k => snap'[j] = snap[j]
      BY <3>2 DEF BudgetInv
    <3>4. CASE Goto(k, "read") /\ snap' = [snap EXCEPT ![k] = row]
      <4>1. snap'[k] = row BY <3>4 DEF BudgetInv
      <4> QED BY <3>1, <3>3, <3>4, <4>1, BudgetOfOne DEF Stages
    <3>5. CASE Goto(k, "idle") /\ snap' = [snap EXCEPT ![k] = NewRow]
      <4>1. snap'[k] = NewRow BY <3>5 DEF BudgetInv
      <4> QED BY <3>1, <3>3, <3>5, <4>1, BudgetOfOne DEF Stages
    <3> QED BY <3>2, <3>4, <3>5
  <2>2. CASE Judge(k)
    <3>1. SameBudget(row, row') BY <2>2 DEF Judge, position, SameBudget
    <3>2. SellAll(k) \/ (Goto(k, "holders") /\ snap' = snap)
      BY <2>2 DEF Judge
    <3>3. CASE Goto(k, "holders") /\ snap' = snap
      <4>1. DOMAIN snap' = Ticks BY <3>3 DEF BudgetInv
      <4> QED BY <3>1, <3>3, <4>1, BudgetOfOne DEF Stages
    <3> QED BY <3>1, <3>2, <3>3, BudgetReleased
  <2>3. CASE Decide(k)
    <3>1. PICK verdict \in {Verdict(k, FALSE), Verdict(k, MayAdviseExit)} :
            \/ SellAtOnce(k, verdict) \/ LeaveZone(k, verdict) \/ HoldInZone(k, verdict)
            \/ ObeyAdvisor(k, verdict) \/ AwaitConfirmation(k, verdict)
            \/ StopOut(k, verdict) \/ Trail(k, verdict)
      BY <2>3 DEF Decide
    <3>2. SameBudget(row, row')
      BY <1>0, <3>1 DEF SellAtOnce, LeaveZone, HoldInZone, ObeyAdvisor, AwaitConfirmation,
                  StopOut, Trail, position, SameBudget, Granted, NewRow
    <3>3. \/ SellAll(k) \/ Ask(k) \/ Release(k) \/ Continue(k, "exits")
          \/ verdict = "defend" /\ Continue(k, "defending")
      BY <3>1 DEF SellAtOnce, LeaveZone, HoldInZone, ObeyAdvisor, AwaitConfirmation,
                  StopOut, HoldOrConsult, Trail
    <3>4. CASE SellAll(k) \/ Ask(k) \/ Release(k)
      BY <3>2, <3>4, BudgetReleased
    <3>5. CASE Continue(k, "exits")
      <4>1. snap' = snap /\ DOMAIN snap' = Ticks BY <3>5 DEF Continue, BudgetInv
      <4> QED BY <3>2, <3>5, <4>1, BudgetOfOne DEF Continue, Stages
    <3>6. CASE verdict = "defend" /\ Continue(k, "defending")
      <4>1. snap' = snap /\ DOMAIN snap' = Ticks BY <3>6 DEF Continue, BudgetInv
      <4>2. snap[k].defenses < MaxDefenses
        BY <3>6, DefendedWithinLimits DEF Defensible
      <4> QED BY <3>2, <3>6, <4>1, <4>2, BudgetOfOne DEF Continue, Stages
    <3> QED BY <3>3, <3>4, <3>5, <3>6
  <2>4. CASE Extend(k) BY <2>4, BudgetExtended
  <2>5. CASE Consult(k) \/ DefenseFails(k) \/ Recovered(k) \/ Confirm(k)
             \/ TrailExit(k) \/ NoExit(k)
    <3>1. SameBudget(row, row')
      BY <2>5 DEF Consult, DefenseFails, Recovered, Confirm, TrailExit, NoExit,
                  position, SameBudget
    <3>2. SellAll(k) \/ Ask(k) \/ Release(k)
      BY <2>5 DEF Consult, DefenseFails, Recovered, Confirm, TrailExit, NoExit, HoldOrConsult
    <3> QED BY <3>1, <3>2, BudgetReleased
  <2>6. CASE TakeHalf(k)
    <3>1. SameBudget(row, row') /\ Goto(k, "selling") /\ snap' = snap
      BY <2>6 DEF TakeHalf, position, SameBudget
    <3>2. DOMAIN snap' = Ticks BY <3>1 DEF BudgetInv
    <3> QED BY <3>1, <3>2, BudgetOfOne DEF Stages
  <2>7. CASE SellLands(k) \/ SellRetries(k) \/ Skip(k)
    <3>1. SameBudget(row, row')
      BY <1>0, <2>7 DEF SellLands, SellRetries, Skip, Sold, position, SameBudget,
                        Granted, NewRow
    <3> QED BY <2>7, <3>1, BudgetReleased DEF SellLands, SellRetries, Skip
  <2> QED BY <1>2, <2>1, <2>2, <2>3, <2>4, <2>5, <2>6, <2>7 DEF Tick, Evaluate, Defend
<1> QED BY <1>1, <1>2 DEF Next

LEMMA BudgetBegins == Init => BudgetInv
<1> SUFFICES ASSUME Init PROVE BudgetInv
  OBVIOUS
<1>1. row = NewRow /\ \A k \in Ticks : snap[k] = NewRow /\ pc[k] = "idle" BY DEF Init
<1>2. pc \in [Ticks -> Stages] /\ DOMAIN snap = Ticks BY DEF Init, Stages
<1> QED BY <1>1, <1>2, NewRowGranted DEF BudgetInv

\* The loss a position is allowed never exceeds what MaxDefenses extensions
\* grant, for any number of overlapping ticks and any answers of the adviser
\* (handleAiCutlossDefense bounds each answer by the row the tick had read).
THEOREM LossStaysBudgeted == Spec => []LossBudget
<1>1. BudgetInv => LossBudget BY DEF BudgetInv, Granted, LossBudget
<1> QED BY <1>1, BudgetBegins, BudgetStep, PTL DEF Spec

(***************************************************************************)
(* The types.                                                              *)
(***************************************************************************)
TradeRows == [status : {"none", "OPEN", "CLOSED"}, tp : BOOLEAN, high : Int, stop : Int,
              target : Int, defenses : Nat]

\* What a tick keeps of the market.
Market(o) == o \in Observations \union {Nothing}

LEMMA MarketNumbers ==
    ASSUME NEW o, Market(o)
    PROVE  o.price \in Nat /\ o.rec \in Nat
BY ObservationsAssumption DEF Market, IsObservation, Nothing

\* The numbers of the trailing stop are numbers.
LEMMA StoredInSol ==
    ASSUME NEW stored \in Int, NEW price \in Int
    PROVE  InSol(stored, price) \in Int
BY ScaleAssumption DEF InSol

LEMMA Scaled ==
    ASSUME NEW price \in Int, NEW distance \in Int
    PROVE  Below(price, distance) \in Int /\ Above(price, distance) \in Int
<1>1. Whole = 10000 BY DEF Whole, Percent
<1>2. price * (Whole - distance) \in Int /\ price * (Whole + distance) \in Int BY <1>1
<1>3. ASSUME NEW n \in Int PROVE n \div Whole \in Int BY <1>1
<1> QED BY <1>2, <1>3 DEF Below, Above

LEMMA CapsAreNumbers ==
    ASSUME NEW o
    PROVE  NoiseCaps(o) \subseteq {125, 200, 300}
BY DEF NoiseCaps

LEMMA DistanceIsNumber ==
    ASSUME NEW r \in TradeRows, NEW o, Market(o)
    PROVE  Distance(r, o) \in Int
<1> DEFINE S == {TrailDistance, o.rec} \union NoiseCaps(o)
           raw == Min(S)
<1>1. S \subseteq Nat /\ S # {}
  BY MarketNumbers, CapsAreNumbers, TrailingAssumption
<1>2. raw \in Nat
  <2> HIDE DEF S
  <2>1. \E x \in S : \A y \in S : x <= y BY <1>1, LeastExists
  <2>2. Min(S) \in S BY <2>1 DEF Min
  <2> QED BY <1>1, <2>2
<1> HIDE DEF raw
<1>3. raw * RunnerFactor \in Int BY <1>2, TrailingAssumption
<1>4. Min({TrailDistance, MinTrail}) \in Int
  <2>1. TrailDistance \in Int /\ MinTrail \in Int BY TrailingAssumption
  <2> QED BY <2>1, MinOfTwo
<1>5. Max({raw, Min({TrailDistance, MinTrail})}) \in Int
  <2> DEFINE m == Min({TrailDistance, MinTrail})
  <2> HIDE DEF m
  <2>1. m \in Int /\ raw \in Int BY <1>2, <1>4 DEF m
  <2>2. Max({raw, m}) \in Int BY <2>1, MaxOfTwo
  <2> QED BY <2>2 DEF m
<1>6. Distance(r, o) = IF r.tp THEN raw * RunnerFactor
                       ELSE Max({raw, Min({TrailDistance, MinTrail})})
  BY DEF Distance, raw, S
<1> QED BY <1>3, <1>5, <1>6

LEMMA PeakStopIsNumber ==
    ASSUME NEW r \in TradeRows, NEW o, Market(o)
    PROVE  PeakStop(r, o) \in Int
<1> DEFINE low == Below(o.price, Distance(r, o))
           floor == Max({FeeDrag + 2 * Percent, RunnerFloor})
           high == Above(EntryAt(o), floor)
<1>0. o.price \in Int /\ Entry \in Int BY MarketNumbers, ScaleAssumption
<1>1. low \in Int BY <1>0, DistanceIsNumber, Scaled
<1>2. floor \in Int
  <2>1. FeeDrag + 2 * Percent \in Int /\ RunnerFloor \in Int
    BY TrailingAssumption DEF Percent
  <2> QED BY <2>1, MaxOfTwo
<1>3. EntryAt(o) \in Int BY <1>0, StoredInSol DEF EntryAt
<1> HIDE DEF floor
<1>4. high \in Int BY <1>2, <1>3, Scaled
<1>5. PeakStop(r, o) = Max({low} \union IF Profit(o) < 15 * Percent THEN {} ELSE {high})
  BY DEF PeakStop, floor
<1> HIDE DEF low, high
<1>6. CASE Profit(o) < 15 * Percent
  <2>1. PeakStop(r, o) = Max({low, low}) BY <1>5, <1>6
  <2> QED BY <1>1, <2>1, MaxOfTwo
<1>7. CASE ~ (Profit(o) < 15 * Percent)
  <2>1. PeakStop(r, o) = Max({low, high}) BY <1>5, <1>7
  <2> QED BY <1>1, <1>4, <2>1, MaxOfTwo
<1> QED BY <1>6, <1>7

LEMMA TightStopIsNumber ==
    ASSUME NEW r \in TradeRows, NEW o, Market(o)
    PROVE  TightStop(r, o) \in Int
<1> DEFINE top == HighAt(r, o)
<1>1. o.price \in Int /\ r.high \in Int BY MarketNumbers DEF TradeRows
<1>2. top \in Int BY <1>1, StoredInSol DEF HighAt
<1> HIDE DEF top
<1>3. Max({top, o.price}) \in Int BY <1>1, <1>2, MaxOfTwo
<1>4. Below(Max({top, o.price}), Distance(r, o)) \in Int BY <1>3, DistanceIsNumber, Scaled
<1> QED BY <1>4 DEF TightStop, top

LEMMA RunnerStopIsNumber ==
    ASSUME NEW r \in TradeRows, NEW price \in Int
    PROVE  RunnerStop(r, price) \in Int
<1> DEFINE floor == Above(Entry, RunnerFloor)
           most == Max({r.stop, floor})
           limit == (price * 999) \div 1000
<1>1. floor \in Int BY ScaleAssumption, TrailingAssumption, Scaled
<1> HIDE DEF floor
<1>2. most \in Int
  <2>1. r.stop \in Int BY DEF TradeRows
  <2> QED BY <1>1, <2>1, MaxOfTwo
<1>3. limit \in Int OBVIOUS
<1> HIDE DEF most, limit
<1>4. Min({most, limit}) \in Int BY <1>2, <1>3, MinOfTwo
<1> QED BY <1>4 DEF RunnerStop, most, limit, floor

(***************************************************************************)
(* The row and what the ticks have read.                                   *)
(***************************************************************************)
RowInv ==
    /\ row \in TradeRows /\ snap \in [Ticks -> TradeRows]
    /\ obs \in [Ticks -> Observations \union {Nothing}]

LEMMA NewRowTyped == NewRow \in TradeRows
BY ScaleAssumption DEF NewRow, TradeRows

LEMMA ReadTyped ==
    ASSUME RowInv, NEW k \in Ticks, NEW r \in TradeRows, snap' = [snap EXCEPT ![k] = r]
    PROVE  snap' \in [Ticks -> TradeRows]
BY DEF RowInv

\* A tick drops what it knows or keeps it.
LEMMA KnowledgeDropped ==
    ASSUME RowInv, NEW k \in Ticks,
           \/ Release(k) \/ SellAll(k) \/ Ask(k)
           \/ UNCHANGED <<snap, obs>>
    PROVE  snap' \in [Ticks -> TradeRows] /\ obs' \in [Ticks -> Observations \union {Nothing}]
BY NewRowTyped DEF RowInv, Release, SellAll, Ask

LEMMA SoldTyped ==
    ASSUME RowInv, NEW size, NEW price \in Int, Sold(size, price)
    PROVE  row' \in TradeRows
<1>1. RunnerStop(row, price) \in Int BY RunnerStopIsNumber DEF RowInv
<1> DEFINE n == RunnerStop(row, price)
<1>2. row' = [row EXCEPT !.status = "CLOSED"] \/ row' = [row EXCEPT !.tp = TRUE, !.stop = n]
  BY DEF Sold
<1> HIDE DEF n
<1>3. n \in Int BY <1>1 DEF n
<1> QED BY <1>2, <1>3 DEF RowInv, TradeRows

LEMMA TrailTyped ==
    ASSUME RowInv, NEW k \in Ticks, NEW verdict, Trail(k, verdict)
    PROVE  row' \in TradeRows
<1> DEFINE r == snap[k]
           o == obs[k]
           peak == PeakStop(r, o)
           tight == TightStop(r, o)
<1>1. r \in TradeRows /\ Market(o) BY DEF RowInv, Market
<1>2. peak \in Int /\ tight \in Int /\ o.price \in Int
  BY <1>1, PeakStopIsNumber, TightStopIsNumber, MarketNumbers
<1>3. \/ row' = [row EXCEPT !.high = o.price, !.stop = peak]
      \/ row' = [row EXCEPT !.stop = tight]
      \/ row' = row
  BY DEF Trail
<1> HIDE DEF r, o, peak, tight
<1> QED BY <1>2, <1>3 DEF RowInv, TradeRows

LEMMA ExtendTyped ==
    ASSUME RowInv, BudgetInv, NEW k \in Ticks, Extend(k)
    PROVE  row' \in TradeRows
<1>1. Granted(snap[k]) /\ snap[k].defenses < MaxDefenses BY DEF Extend, BudgetInv
<1>2. PICK n \in Extensions :
        row' = IF row.status # "OPEN" THEN row
               ELSE [row EXCEPT !.target = Extended(snap[k], n), !.defenses = @ + 1]
  BY DEF Extend
<1>3. Extended(snap[k], n) \in Int BY <1>1, ExtensionBounded
<1> DEFINE new == Extended(snap[k], n)
<1>4. row' = row \/ row' = [row EXCEPT !.target = new, !.defenses = row.defenses + 1]
  BY <1>2 DEF RowInv, TradeRows
<1>5. row.defenses + 1 \in Nat BY DEF RowInv, TradeRows
<1> HIDE DEF new
<1>6. new \in Int BY <1>3 DEF new
<1> QED BY <1>4, <1>5, <1>6 DEF RowInv, TradeRows

LEMMA RowStep == RowInv /\ BudgetInv /\ [Next]_vars => RowInv'
<1> SUFFICES ASSUME RowInv, BudgetInv, [Next]_vars PROVE RowInv'
  OBVIOUS
<1>1. CASE World \/ UNCHANGED vars
  <2>1. UNCHANGED <<snap, obs>>
    BY <1>1 DEF World, TimerFires, Open, SoldElsewhere, Mature, ZoneRunsOut,
                ConfirmationRunsOut, vars, locals
  <2>2. CASE TimerFires
    <3>1. \A price \in RetryPrices : price \in Int BY CountsAssumption
    <3> QED BY <2>1, <2>2, <3>1, SoldTyped DEF TimerFires, RowInv
  <2>3. CASE SoldElsewhere
    BY <2>1, <2>3, SoldTyped, ScaleAssumption DEF SoldElsewhere, RowInv
  <2>4. CASE Open BY <2>1, <2>4 DEF Open, RowInv, TradeRows
  <2>5. CASE Mature \/ ZoneRunsOut \/ ConfirmationRunsOut \/ UNCHANGED vars
    BY <2>1, <2>5 DEF Mature, ZoneRunsOut, ConfirmationRunsOut, vars, position, RowInv
  <2> QED BY <1>1, <2>2, <2>3, <2>4, <2>5 DEF World
<1>2. ASSUME NEW k \in Ticks, Tick(k) PROVE RowInv'
  <2>1. CASE Read(k) \/ Forget(k) \/ AlreadyClaimed(k)
    <3>1. row' = row /\ obs' = obs
          /\ (snap' = [snap EXCEPT ![k] = row] \/ snap' = [snap EXCEPT ![k] = NewRow])
      BY <2>1 DEF Read, Forget, AlreadyClaimed, position
    <3> QED BY <3>1, ReadTyped, NewRowTyped DEF RowInv
  <2>2. CASE Judge(k)
    <3>1. PICK o \in Observations :
            SellAll(k) \/ (obs' = [obs EXCEPT ![k] = o] /\ snap' = snap)
      BY <2>2 DEF Judge
    <3>2. row' = row BY <2>2 DEF Judge, position
    <3>3. CASE SellAll(k) BY <3>2, <3>3, KnowledgeDropped DEF RowInv
    <3>4. CASE obs' = [obs EXCEPT ![k] = o] /\ snap' = snap BY <3>2, <3>4 DEF RowInv
    <3> QED BY <3>1, <3>3, <3>4
  <2>3. CASE Decide(k)
    <3>1. PICK verdict \in {Verdict(k, FALSE), Verdict(k, MayAdviseExit)} :
            \/ SellAtOnce(k, verdict) \/ LeaveZone(k, verdict) \/ HoldInZone(k, verdict)
            \/ ObeyAdvisor(k, verdict) \/ AwaitConfirmation(k, verdict)
            \/ StopOut(k, verdict) \/ Trail(k, verdict)
      BY <2>3 DEF Decide
    <3>2. row' = row \/ Trail(k, verdict)
      BY <3>1 DEF SellAtOnce, LeaveZone, HoldInZone, ObeyAdvisor, AwaitConfirmation,
                  StopOut, position
    <3>3. SellAll(k) \/ Ask(k) \/ Release(k) \/ UNCHANGED <<snap, obs>>
      BY <3>1 DEF SellAtOnce, LeaveZone, HoldInZone, ObeyAdvisor, AwaitConfirmation,
                  StopOut, HoldOrConsult, Trail, Continue
    <3> QED BY <3>2, <3>3, TrailTyped, KnowledgeDropped DEF RowInv
  <2>4. CASE Extend(k)
    BY <2>4, ExtendTyped, KnowledgeDropped DEF Extend, RowInv
  <2>5. CASE Consult(k) \/ DefenseFails(k) \/ Recovered(k) \/ Confirm(k) \/ TakeHalf(k)
             \/ TrailExit(k) \/ NoExit(k)
    <3>1. row' = row
      BY <2>5 DEF Consult, DefenseFails, Recovered, Confirm, TakeHalf, TrailExit, NoExit, position
    <3>2. SellAll(k) \/ Ask(k) \/ Release(k) \/ UNCHANGED <<snap, obs>>
      BY <2>5 DEF Consult, DefenseFails, Recovered, Confirm, TakeHalf, TrailExit, NoExit,
                  HoldOrConsult
    <3> QED BY <3>1, <3>2, KnowledgeDropped DEF RowInv
  <2>6. CASE SellLands(k)
    <3>1. obs[k].price \in Int
      <4>1. Market(obs[k]) BY DEF RowInv, Market
      <4> QED BY <4>1, MarketNumbers
    <3> QED BY <2>6, <3>1, SoldTyped, KnowledgeDropped DEF SellLands, RowInv
  <2>7. CASE SellRetries(k) \/ Skip(k)
    BY <2>7, KnowledgeDropped DEF SellRetries, Skip, position, RowInv
  <2> QED BY <1>2, <2>1, <2>2, <2>3, <2>4, <2>5, <2>6, <2>7 DEF Tick, Evaluate, Defend
<1> QED BY <1>1, <1>2 DEF Next

(***************************************************************************)
(* The counters and the clocks.                                            *)
(***************************************************************************)
CountersInv ==
    /\ halves \in Nat /\ timers \in 0 .. MaxTimers /\ young \in BOOLEAN
    /\ zone \in {"none", "recent", "overdue"} /\ deep \in {"none", "recent", "overdue"}
    /\ draining \in 0 .. (ConfirmTicks - 1) /\ dumping \in 0 .. (ConfirmTicks - 1)

LEMMA HalvesStep ==
    ASSUME CountersInv, [Next]_vars
    PROVE  halves' \in Nat /\ timers' \in 0 .. MaxTimers
<1>1. ASSUME NEW size, NEW price, Sold(size, price) PROVE halves' \in Nat
  BY <1>1 DEF Sold, CountersInv
<1>2. MaxTimers \in Nat BY CountsAssumption
<1>3. CASE World \/ UNCHANGED vars
  <2>1. CASE TimerFires
    <3>1. timers' \in 0 .. MaxTimers BY <1>2, <2>1 DEF TimerFires, CountersInv
    <3> QED BY <1>1, <2>1, <3>1 DEF TimerFires, CountersInv
  <2>2. CASE SoldElsewhere BY <1>1, <2>2 DEF SoldElsewhere, CountersInv
  <2>3. CASE Open \/ Mature \/ ZoneRunsOut \/ ConfirmationRunsOut \/ UNCHANGED vars
    BY <2>3 DEF Open, Mature, ZoneRunsOut, ConfirmationRunsOut, vars, position, CountersInv
  <2> QED BY <1>3, <2>1, <2>2, <2>3 DEF World
<1>4. ASSUME NEW k \in Ticks, Tick(k) PROVE halves' \in Nat /\ timers' \in 0 .. MaxTimers
  <2>1. CASE SellLands(k) BY <1>1, <2>1 DEF SellLands, CountersInv
  <2>2. CASE SellRetries(k)
    BY <1>2, <2>2 DEF SellRetries, CountersInv
  <2>3. CASE Decide(k)
    BY <2>3 DEF Decide, SellAtOnce, LeaveZone, HoldInZone, ObeyAdvisor, AwaitConfirmation,
                StopOut, Trail, position, CountersInv
  <2>4. CASE ~ Decide(k) /\ ~ SellLands(k) /\ ~ SellRetries(k)
    BY <1>4, <2>4 DEF Tick, Evaluate, Read, Forget, AlreadyClaimed, Judge, Consult,
       Defend, DefenseFails, Recovered, Extend, Confirm, TakeHalf, TrailExit, NoExit,
       Skip, position, CountersInv
  <2> QED BY <2>1, <2>2, <2>3, <2>4
<1> QED BY <1>3, <1>4 DEF Next

\* A drain or a dump that is not confirmed yet counts one tick more.
LEMMA CountsStayShort ==
    ASSUME CountersInv, NEW o
    PROVE  /\ 0 \in 0 .. (ConfirmTicks - 1)
           /\ (Draining(o) /\ ~ Liquidated(o)) => draining + 1 \in 0 .. (ConfirmTicks - 1)
           /\ (WhaleSells(o) /\ ~ WhaleSold(o)) => dumping + 1 \in 0 .. (ConfirmTicks - 1)
<1>1. ConfirmTicks \in Nat \ {0} BY CountsAssumption
<1>2. (Draining(o) /\ ~ Liquidated(o)) => ~ (draining + 1 >= ConfirmTicks) BY DEF Liquidated
<1>3. (WhaleSells(o) /\ ~ WhaleSold(o)) => ~ (dumping + 1 >= ConfirmTicks) BY DEF WhaleSold
<1>4. draining \in 0 .. (ConfirmTicks - 1) /\ dumping \in 0 .. (ConfirmTicks - 1)
  BY DEF CountersInv
<1>5. ~ (draining + 1 >= ConfirmTicks) => draining + 1 \in 0 .. (ConfirmTicks - 1)
  BY <1>1, <1>4
<1>6. ~ (dumping + 1 >= ConfirmTicks) => dumping + 1 \in 0 .. (ConfirmTicks - 1)
  BY <1>1, <1>4
<1>7. 0 \in 0 .. (ConfirmTicks - 1) BY <1>1
<1> QED BY <1>2, <1>3, <1>5, <1>6, <1>7

Confirming == draining' \in 0 .. (ConfirmTicks - 1) /\ dumping' \in 0 .. (ConfirmTicks - 1)

Clocks ==
    /\ zone' \in {"none", "recent", "overdue"} /\ deep' \in {"none", "recent", "overdue"}
    /\ young' \in BOOLEAN

LEMMA DecideCounts ==
    ASSUME CountersInv, NEW k \in Ticks, Decide(k)
    PROVE  Confirming /\ Clocks
<1>1. PICK verdict \in {Verdict(k, FALSE), Verdict(k, MayAdviseExit)} :
        \/ SellAtOnce(k, verdict) \/ LeaveZone(k, verdict) \/ HoldInZone(k, verdict)
        \/ ObeyAdvisor(k, verdict) \/ AwaitConfirmation(k, verdict)
        \/ StopOut(k, verdict) \/ Trail(k, verdict)
  BY DEF Decide
<1>2. draining' = draining
  BY <1>1 DEF SellAtOnce, LeaveZone, HoldInZone, ObeyAdvisor, AwaitConfirmation, StopOut, Trail
<1>3. dumping' \in 0 .. (ConfirmTicks - 1)
  <2> DEFINE o == obs[k]
             n == dumping + 1
  <2>1. dumping' = IF CreatorDumps(o) THEN dumping
                   ELSE IF WhaleSells(o) /\ ~ WhaleSold(o) THEN n ELSE 0
    BY DEF Decide, CountWhale
  <2>2. (WhaleSells(o) /\ ~ WhaleSold(o)) => n \in 0 .. (ConfirmTicks - 1)
    BY CountsStayShort
  <2>3. 0 \in 0 .. (ConfirmTicks - 1) /\ dumping \in 0 .. (ConfirmTicks - 1)
    BY CountsStayShort DEF CountersInv
  <2> HIDE DEF o, n
  <2> QED BY <2>1, <2>2, <2>3
<1>4. Clocks
  BY <1>1 DEF SellAtOnce, LeaveZone, HoldInZone, ObeyAdvisor, AwaitConfirmation, StopOut,
              Trail, CountersInv, Clocks
<1> QED BY <1>2, <1>3, <1>4 DEF Confirming, CountersInv

LEMMA CountersStep == CountersInv /\ [Next]_vars => CountersInv'
<1> SUFFICES ASSUME CountersInv, [Next]_vars PROVE CountersInv'
  OBVIOUS
<1>1. CASE World \/ UNCHANGED vars
  <2>1. Confirming /\ Clocks
    BY <1>1 DEF World, TimerFires, Open, SoldElsewhere, Mature, ZoneRunsOut,
                ConfirmationRunsOut, vars, memory, Confirming, Clocks, CountersInv
  <2> QED BY <2>1, HalvesStep DEF Confirming, Clocks, CountersInv
<1>2. ASSUME NEW k \in Ticks, Tick(k) PROVE CountersInv'
  <2>1. Confirming /\ Clocks
    <3>1. CASE Decide(k) BY <3>1, DecideCounts
    <3>2. CASE Judge(k)
      <4>1. PICK o \in Observations :
              draining' = IF Draining(o) /\ ~ Liquidated(o) THEN draining + 1 ELSE 0
        BY <3>2 DEF Judge
      <4>2. draining' \in 0 .. (ConfirmTicks - 1)
        <5> DEFINE n == draining + 1
        <5>1. (Draining(o) /\ ~ Liquidated(o)) => n \in 0 .. (ConfirmTicks - 1)
          BY CountsStayShort
        <5>2. 0 \in 0 .. (ConfirmTicks - 1) BY CountsStayShort
        <5>3. draining' = IF Draining(o) /\ ~ Liquidated(o) THEN n ELSE 0 BY <4>1
        <5> HIDE DEF n
        <5> QED BY <5>1, <5>2, <5>3
      <4>3. UNCHANGED <<young, zone, deep, dumping>> BY <3>2 DEF Judge
      <4> QED BY <4>2, <4>3 DEF Confirming, Clocks, CountersInv
    <3>3. CASE Forget(k)
      <4>1. 0 \in 0 .. (ConfirmTicks - 1) BY CountsStayShort
      <4> QED BY <3>3, <4>1 DEF Forget, Confirming, Clocks, CountersInv
    <3>4. CASE Consult(k) BY <3>4 DEF Consult, Confirming, Clocks, CountersInv
    <3>5. CASE ~ Decide(k) /\ ~ Judge(k) /\ ~ Forget(k) /\ ~ Consult(k)
      <4>1. UNCHANGED <<memory, young>>
        BY <1>2, <3>5 DEF Tick, Evaluate, Read, AlreadyClaimed, Defend, DefenseFails,
           Recovered, Extend, Confirm, TakeHalf, TrailExit, NoExit, SellLands, SellRetries, Skip
      <4> QED BY <4>1 DEF memory, Confirming, Clocks, CountersInv
    <3> QED BY <3>1, <3>2, <3>3, <3>4, <3>5
  <2> QED BY <2>1, HalvesStep DEF Confirming, Clocks, CountersInv
<1> QED BY <1>1, <1>2 DEF Next

LEMMA MonitorTypes == ClaimInv /\ HalfInv /\ RowInv /\ CountersInv => TypeOK
<1> SUFFICES ASSUME ClaimInv, HalfInv, RowInv, CountersInv PROVE TypeOK
  OBVIOUS
<1>1. \A r \in TradeRows : IsRow(r) BY DEF TradeRows, IsRow
<1>2. IsRow(row) /\ \A k \in Ticks : IsRow(snap[k]) BY <1>1 DEF RowInv
<1> QED BY <1>2 DEF ClaimInv, HalfInv, RowInv, CountersInv, TypeOK

LEMMA MonitorBegins ==
    Init => ClaimInv /\ HalfInv /\ BudgetInv /\ RowInv /\ CountersInv
<1> SUFFICES ASSUME Init PROVE ClaimInv /\ HalfInv /\ BudgetInv /\ RowInv /\ CountersInv
  OBVIOUS
<1>1. ClaimInv BY DEF Init, ClaimInv, OneEvaluation, Evaluating, Stages
<1>2. HalfInv BY DEF Init, HalfInv, Stages, Judging, NewRow
<1>3. BudgetInv BY BudgetBegins
<1>4. RowInv BY NewRowTyped DEF Init, RowInv
<1>5. CountersInv
  <2>1. 0 \in 0 .. (ConfirmTicks - 1) /\ 0 \in 0 .. MaxTimers BY CountsAssumption
  <2> QED BY <2>1 DEF Init, CountersInv
<1> QED BY <1>1, <1>2, <1>3, <1>4, <1>5

\* The prices and stops of the row and of every snapshot stay numbers whatever
\* the market shows, and the counters that confirm a drained pool or a selling
\* whale stop before LIQUIDITY_DROP_ and WHALE_DUMP_CONFIRM_TICKS.
THEOREM MonitorTypeCorrect == Spec => []TypeOK
BY MonitorBegins, ClaimStep, HalfStep, BudgetStep, RowStep, CountersStep, MonitorTypes,
   PTL DEF Spec
=============================================================================
