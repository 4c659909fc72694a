-------------------------- MODULE WithdrawalProofs --------------------------
(***************************************************************************)
(* Theorems about Withdrawal, for every number of presses, every amount,   *)
(* reserve and fee.                                                        *)
(***************************************************************************)
EXTENDS Withdrawal, FiniteSetTheorems, TLAPS

\* How far a call is determines its row and its transaction.
StageInv ==
    \A c \in Calls :
        /\ pc[c] \in {"idle", "called", "read"} => row[c] = "none" /\ tx[c] = "none"
        /\ pc[c] = "created" => row[c] = "PENDING" /\ tx[c] = "none"
        /\ pc[c] \in {"confirming", "failing"} => row[c] = "PENDING"
        /\ pc[c] = "confirmed" => row[c] = "PENDING" /\ tx[c] = "landed"
        /\ pc[c] = "paid" => row[c] = "SUCCESS"

\* A paid address is older than the one that is pending.
SpentInv ==
    \A c \in Calls :
        /\ pays[c] <= entered
        /\ ReportedPaid(c) /\ flow = "armed" => pays[c] < entered

WithdrawInv == TypeOK /\ StageInv /\ RowsMatchChain /\ SpentInv

------------------------------------------------------------------------------

\* The first state satisfies the invariant.
LEMMA WithdrawInit == Init => WithdrawInv
<1> SUFFICES ASSUME Init PROVE WithdrawInv
  OBVIOUS
<1> USE DEF Init
<1>1. TypeOK
  <2>1. /\ pc \in [Calls -> Stages]
        /\ pays \in [Calls -> 0..MaxEntries]
        /\ spendable \in [Calls -> Nat]
        /\ known \in [Calls -> SUBSET Calls]
    BY AmountsAssumption DEF Stages
  <2>2. /\ amount \in [Calls -> Amounts \union {0}]
        /\ row \in [Calls -> {"none", "PENDING", "SUCCESS", "FAILED"}]
        /\ tx \in [Calls -> {"none", "flying", "landed", "failed", "expired"}]
        /\ balance \in Nat
        /\ entered \in 0..MaxEntries
    BY AmountsAssumption
  <2> QED BY <2>1, <2>2 DEF TypeOK
<1>2. StageInv /\ RowsMatchChain
  BY DEF StageInv, RowsMatchChain
<1>3. SpentInv
  BY DEF SpentInv, ReportedPaid
<1> QED BY <1>1, <1>2, <1>3 DEF WithdrawInv

\* What the dialogue does touches no call, and an address typed is a new one.
LEMMA DialogueStep ==
    ASSUME WithdrawInv, Dialogue
    PROVE  WithdrawInv'
<1> USE DEF WithdrawInv
<1>1. UNCHANGED <<pc, pays, spendable, known, amount, row, tx, balance>>
  BY DEF Dialogue, StartFlow, EnterAddress, Navigate, Cancel, calls, chain
<1>2. \/ entered' = entered /\ flow' # "armed"
      \/ entered' = entered + 1 /\ entered < MaxEntries
  BY DEF Dialogue, StartFlow, EnterAddress, Navigate, Cancel
<1>3. flow' \in {"off", "asked", "armed"} /\ menu' \in BOOLEAN
  BY DEF Dialogue, StartFlow, EnterAddress, Navigate, Cancel, TypeOK
<1>4. TypeOK'
  BY <1>1, <1>2, <1>3, AmountsAssumption DEF TypeOK
<1>5. StageInv' /\ RowsMatchChain'
  BY <1>1 DEF StageInv, RowsMatchChain
<1>6. SpentInv'
  <2>1. \A c \in Calls : pays[c] \in Nat /\ pays[c] <= entered /\ entered \in Nat
    BY DEF TypeOK, SpentInv
  <2>2. ASSUME NEW c \in Calls
        PROVE  /\ pays'[c] <= entered'
               /\ ReportedPaid(c)' /\ flow' = "armed" => pays'[c] < entered'
    <3>1. pays'[c] = pays[c] /\ pays[c] \in Nat /\ entered \in Nat /\ pays[c] <= entered
      BY <1>1, <2>1
    <3> QED BY <1>2, <3>1
  <2> QED BY <2>2 DEF SpentInv
<1> QED BY <1>4, <1>5, <1>6

\* A call that only moves to another stage, before it has a row or after, keeps
\* what its new stage demands.
LEMMA MoveStep ==
    ASSUME WithdrawInv, NEW c \in Calls,
           GiveUp(c) \/ SendFails(c) \/ Confirmed(c) \/ FailedOnChain(c)
             \/ ConfirmThrows(c) \/ RecordThrows(c)
    PROVE  WithdrawInv'
<1> USE DEF WithdrawInv
<1>1. UNCHANGED <<dialogue, pays, spendable, known, amount, row, chain>>
  BY DEF GiveUp, SendFails, Confirmed, FailedOnChain, ConfirmThrows, RecordThrows
<1>2. PICK stage \in Stages :
         /\ pc' = [pc EXCEPT ![c] = stage]
         /\ stage \in {"failing", "confirmed"} => row[c] = "PENDING"
         /\ stage = "confirmed" => tx[c] = "landed"
         /\ stage \in {"failing", "confirmed", "done"}
         /\ stage = "done" => row[c] = "none"
  <2>1. CASE GiveUp(c)
    BY <2>1 DEF GiveUp, Goto, StageInv, Stages
  <2>2. CASE SendFails(c) \/ FailedOnChain(c) \/ ConfirmThrows(c) \/ RecordThrows(c)
    BY <2>2 DEF SendFails, FailedOnChain, ConfirmThrows, RecordThrows, Goto, StageInv, Stages
  <2>3. CASE Confirmed(c)
    BY <2>3 DEF Confirmed, Goto, StageInv, Stages
  <2> QED BY <2>1, <2>2, <2>3
<1>3. TypeOK'
  BY <1>1, <1>2 DEF TypeOK, dialogue, chain
<1>4. \A d \in Calls : pc'[d] = IF d = c THEN stage ELSE pc[d]
  BY <1>2 DEF TypeOK
<1>5. StageInv'
  BY <1>1, <1>2, <1>4 DEF StageInv, chain
<1>6. RowsMatchChain' /\ SpentInv'
  BY <1>1, <1>2, <1>4 DEF RowsMatchChain, SpentInv, ReportedPaid, dialogue, chain
<1> QED BY <1>3, <1>5, <1>6

\* A press and the reading of the balance come before the row.
LEMMA EarlyStep ==
    ASSUME WithdrawInv, NEW c \in Calls, Press(c) \/ ReadBalance(c)
    PROVE  WithdrawInv'
<1> USE DEF WithdrawInv
<1>1. UNCHANGED <<dialogue, amount, row, chain>>
  BY DEF Press, ReadBalance
<1>2. pc[c] \in {"idle", "called"}
  BY DEF Press, ReadBalance
<1>3. \A d \in Calls : pc'[d] = pc[d] \/ (d = c /\ pc'[d] \in {"called", "read"})
  BY DEF Press, ReadBalance, Goto, TypeOK
<1>4. \A d \in Calls : pays'[d] = pays[d] \/ (d = c /\ pays'[d] = entered)
  BY DEF Press, ReadBalance, TypeOK
<1>5. TypeOK'
  <2>1. CASE Press(c)
    <3>1. pays' \in [Calls -> 0..MaxEntries] /\ pc' \in [Calls -> Stages]
      BY <2>1 DEF Press, TypeOK, Stages
    <3> QED BY <2>1, <3>1 DEF Press, TypeOK, dialogue, chain
  <2>2. CASE ReadBalance(c)
    <3>1. Spendable(balance) \in Nat
      BY AmountsAssumption DEF Spendable, TypeOK
    <3>2. Landed \in SUBSET Calls
      BY DEF Landed
    <3> QED BY <2>2, <3>1, <3>2 DEF ReadBalance, Goto, TypeOK, Stages, dialogue, chain
  <2> QED BY <2>1, <2>2
<1>6. StageInv'
  BY <1>1, <1>2, <1>3 DEF StageInv, chain
<1>7. RowsMatchChain'
  BY <1>1 DEF RowsMatchChain, chain
<1>8. SpentInv'
  <2>1. row[c] = "none" /\ entered \in Nat
    BY <1>2 DEF StageInv, TypeOK
  <2>2. ASSUME NEW d \in Calls
        PROVE  ReportedPaid(d)' => d # c /\ ReportedPaid(d)
    BY <1>1, <1>3, <2>1 DEF ReportedPaid
  <2> QED BY <1>1, <1>4, <2>1, <2>2 DEF SpentInv, dialogue
<1> QED BY <1>5, <1>6, <1>7, <1>8

\* The row exists before the transaction does.
LEMMA BroadcastStep ==
    ASSUME WithdrawInv, NEW c \in Calls, CreateRow(c) \/ Send(c)
    PROVE  WithdrawInv'
<1> USE DEF WithdrawInv
<1>1. CASE CreateRow(c)
  <2>1. TypeOK'
    BY <1>1 DEF CreateRow, Goto, TypeOK, Stages, dialogue, chain
  <2>2. \A d \in Calls : /\ pc'[d] = IF d = c THEN "created" ELSE pc[d]
                         /\ row'[d] = IF d = c THEN "PENDING" ELSE row[d]
    BY <1>1 DEF CreateRow, Goto, TypeOK
  <2>3. tx[c] = "none" /\ UNCHANGED <<dialogue, pays, chain>>
    BY <1>1 DEF CreateRow, StageInv
  <2>4. StageInv' /\ RowsMatchChain'
    BY <2>2, <2>3 DEF StageInv, RowsMatchChain, chain
  <2>5. SpentInv'
    BY <2>2, <2>3 DEF SpentInv, ReportedPaid, dialogue
  <2> QED BY <2>1, <2>4, <2>5
<1>2. CASE Send(c)
  <2>1. PICK stage \in {"confirming", "failing"} : pc' = [pc EXCEPT ![c] = stage]
    BY <1>2 DEF Send, Goto
  <2>2. TypeOK'
    BY <1>2, <2>1 DEF Send, TypeOK, Stages, dialogue
  <2>3. \A d \in Calls : /\ pc'[d] = IF d = c THEN stage ELSE pc[d]
                         /\ tx'[d] = IF d = c THEN "flying" ELSE tx[d]
    BY <1>2, <2>1 DEF Send, TypeOK
  <2>4. row[c] = "PENDING" /\ UNCHANGED <<dialogue, pays, row>>
    BY <1>2 DEF Send, StageInv
  <2>5. StageInv' /\ RowsMatchChain'
    BY <2>1, <2>3, <2>4 DEF StageInv, RowsMatchChain
  <2>6. SpentInv'
    BY <2>3, <2>4 DEF SpentInv, ReportedPaid, dialogue
  <2> QED BY <2>2, <2>5, <2>6
<1> QED BY <1>1, <1>2

\* SUCCESS is written for a landed payment, which is not reported yet; FAILED,
\* or nothing, is written for the others.
LEMMA RecordStep ==
    ASSUME WithdrawInv, NEW c \in Calls, RecordSuccess(c) \/ RecordFailure(c)
    PROVE  WithdrawInv'
<1> USE DEF WithdrawInv
<1>1. PICK status \in {"SUCCESS", "FAILED", "PENDING"}, stage \in {"paid", "done"} :
         /\ row' = [row EXCEPT ![c] = status]
         /\ pc' = [pc EXCEPT ![c] = stage]
         /\ status = "SUCCESS" => tx[c] = "landed"
         /\ status = "SUCCESS" <=> stage = "paid"
  BY DEF RecordSuccess, RecordFailure, StageInv, Goto
<1>2. UNCHANGED <<dialogue, pays, spendable, known, amount, chain>>
  BY DEF RecordSuccess, RecordFailure
<1>3. TypeOK'
  BY <1>1, <1>2 DEF TypeOK, Stages, dialogue, chain
<1>4. \A d \in Calls : /\ pc'[d] = IF d = c THEN stage ELSE pc[d]
                       /\ row'[d] = IF d = c THEN status ELSE row[d]
  BY <1>1 DEF TypeOK
<1>5. StageInv' /\ RowsMatchChain'
  BY <1>1, <1>2, <1>4 DEF StageInv, RowsMatchChain, chain
<1>6. SpentInv'
  BY <1>1, <1>2, <1>4 DEF SpentInv, ReportedPaid, dialogue
<1> QED BY <1>3, <1>5, <1>6

\* The payment is reported and the dialogue is empty.
LEMMA ForgetStep ==
    ASSUME WithdrawInv, NEW c \in Calls, ForgetAddress(c)
    PROVE  WithdrawInv'
<1> USE DEF WithdrawInv
<1>1. UNCHANGED <<entered, menu, pays, spendable, known, amount, row, chain>>
      /\ flow' = "off" /\ pc' = [pc EXCEPT ![c] = "done"]
  BY DEF ForgetAddress, Goto
<1>2. TypeOK'
  BY <1>1 DEF TypeOK, Stages, chain
<1>3. \A d \in Calls : pc'[d] = IF d = c THEN "done" ELSE pc[d]
  BY <1>1 DEF TypeOK
<1>4. StageInv' /\ RowsMatchChain' /\ SpentInv'
  BY <1>1, <1>3 DEF StageInv, RowsMatchChain, SpentInv, ReportedPaid, chain
<1> QED BY <1>2, <1>4

\* Whatever the network does with a transaction, its row is there.
LEMMA NetworkStep ==
    ASSUME WithdrawInv, NEW c \in Calls, Network(c)
    PROVE  WithdrawInv'
<1> USE DEF WithdrawInv
<1>1. PICK fate \in {"landed", "failed", "expired"} :
         tx[c] = "flying" /\ tx' = [tx EXCEPT ![c] = fate]
  BY DEF Network, Land, FailOnChain, Vanish
<1>2. UNCHANGED <<dialogue, calls>>
  BY DEF Network, Land, FailOnChain, Vanish
<1>3. balance' \in Nat
  <2>1. amount[c] \in Nat /\ balance \in Nat /\ Fee \in Nat
    <3>1. amount[c] \in Amounts \union {0}
      BY DEF TypeOK
    <3>2. Amounts \union {0} \subseteq Nat /\ Fee \in Nat
      BY AmountsAssumption
    <3>3. balance \in Nat
      BY DEF TypeOK
    <3> QED BY <3>1, <3>2, <3>3
  <2> QED BY <2>1 DEF Network, Land, FailOnChain, Vanish
<1>4. TypeOK'
  BY <1>1, <1>2, <1>3 DEF TypeOK, dialogue, calls
<1>5. \A d \in Calls : tx'[d] = IF d = c THEN fate ELSE tx[d]
  BY <1>1 DEF TypeOK
<1>6. StageInv' /\ RowsMatchChain'
  BY <1>1, <1>2, <1>5 DEF StageInv, RowsMatchChain, calls
<1>7. SpentInv'
  BY <1>2 DEF SpentInv, ReportedPaid, dialogue, calls
<1> QED BY <1>4, <1>6, <1>7

\* A crash ends the calls and empties the dialogue.
LEMMA CrashStep ==
    ASSUME WithdrawInv, Crash
    PROVE  WithdrawInv'
<1> USE DEF WithdrawInv
<1>1. UNCHANGED <<entered, menu, pays, spendable, known, amount, row, chain>>
      /\ flow' = "off"
  BY DEF Crash
<1>2. \A c \in Calls : pc'[c] \in {pc[c], "done"}
  BY DEF Crash
<1>3. TypeOK'
  BY <1>1, <1>2 DEF TypeOK, Crash, Stages, chain
<1>4. StageInv' /\ RowsMatchChain' /\ SpentInv'
  BY <1>1, <1>2 DEF StageInv, RowsMatchChain, SpentInv, ReportedPaid, chain
<1> QED BY <1>3, <1>4

\* The invariant holds of every behaviour.
LEMMA WithdrawInvariant == Spec => []WithdrawInv
<1>1. ASSUME WithdrawInv, [Next]_vars PROVE WithdrawInv'
  <2>1. CASE Dialogue
    BY <1>1, <2>1, DialogueStep
  <2>2. CASE Crash
    BY <1>1, <2>2, CrashStep
  <2>3. ASSUME NEW c \in Calls, Call(c) \/ Network(c) PROVE WithdrawInv'
    BY <1>1, <2>3, MoveStep, EarlyStep, BroadcastStep, RecordStep, ForgetStep,
       NetworkStep DEF Call
  <2>4. CASE UNCHANGED vars
    BY <1>1, <2>4
    DEF vars, dialogue, calls, chain, WithdrawInv, TypeOK, StageInv, RowsMatchChain,
        SpentInv, ReportedPaid
  <2> QED BY <1>1, <2>1, <2>2, <2>3, <2>4 DEF Next
<1> QED BY <1>1, WithdrawInit, PTL DEF Spec

\* Every reachable state is well typed: neither the wallet nor a spendable
\* balance goes below zero.
THEOREM WithdrawTypeCorrect == Spec => []TypeOK
<1>1. WithdrawInv => TypeOK
  BY DEF WithdrawInv
<1> QED BY <1>1, WithdrawInvariant, PTL

\* No lamport leaves without a row, and SUCCESS means paid, through every crash
\* and every error.
THEOREM RowsAlwaysMatchChain == Spec => []RowsMatchChain
<1>1. WithdrawInv => RowsMatchChain
  BY DEF WithdrawInv
<1> QED BY <1>1, WithdrawInvariant, PTL

\* An address that was paid and reported paid has to be typed again.
THEOREM AddressPaidOnceReported == Spec => PaidAddressIsSpent
<1>1. ASSUME WithdrawInv, [Next]_vars,
             NEW c \in Calls, NEW d \in Calls, Pressed(c), ReportedPaid(d)
      PROVE  pays'[c] # pays[d]
  <2>1. Press(c)
    <3>1. pc[c] = "idle" /\ pc'[c] = "called"
      BY <1>1 DEF Pressed
    <3>2. CASE Dialogue \/ UNCHANGED vars
      BY <3>1, <3>2
      DEF Dialogue, StartFlow, EnterAddress, Navigate, Cancel, vars, calls
    <3>3. CASE Crash
      BY <3>1, <3>3 DEF Crash, Active
    <3>4. ASSUME NEW e \in Calls, Network(e) PROVE FALSE
      BY <3>1, <3>4 DEF Network, Land, FailOnChain, Vanish, calls
    <3>5. ASSUME NEW e \in Calls, Call(e) PROVE Press(c)
      <4>1. CASE Press(e)
        <5>1. e = c
          BY <1>1, <3>1, <4>1 DEF Press, WithdrawInv, TypeOK
        <5> QED BY <4>1, <5>1
      <4>2. CASE ~Press(e)
        <5>1. PICK stage \in Stages \ {"called"} : pc' = [pc EXCEPT ![e] = stage]
          BY <3>5, <4>2
          DEF Call, ReadBalance, GiveUp, CreateRow, Send, SendFails, Confirmed,
              FailedOnChain, ConfirmThrows, RecordSuccess, ForgetAddress,
              RecordThrows, RecordFailure, Goto, Stages
        <5>2. pc'[c] # "called"
          BY <1>1, <3>1, <5>1 DEF WithdrawInv, TypeOK
        <5> QED BY <3>1, <5>2
      <4> QED BY <4>1, <4>2
    <3> QED BY <1>1, <3>2, <3>3, <3>4, <3>5 DEF Next
  <2>2. pays'[c] = entered /\ flow = "armed"
    BY <1>1, <2>1 DEF Press, WithdrawInv, TypeOK
  <2>3. pays[d] < entered /\ pays[d] \in Nat
    BY <1>1, <2>2 DEF WithdrawInv, SpentInv, ReportedPaid, TypeOK
  <2> QED BY <2>2, <2>3
<1>2. WithdrawInv /\ [Next]_vars =>
        [\A c, d \in Calls : Pressed(c) /\ ReportedPaid(d) => pays'[c] # pays[d]]_vars
  BY <1>1
<1> QED BY <1>2, WithdrawInvariant, PTL DEF Spec, PaidAddressIsSpent

------------------------------------------------------------------------------
(* The reserve *)

Charged == {c \in Calls : tx[c] \in {"landed", "failed"}}

\* What the wallet would hold without the fees: only payments change it.
Principal == balance + Fees

\* While nothing has landed that a call does not know of, what it computed is
\* still covered on top of the reserve.
CoverInv == \A c \in Calls :
    /\ known[c] \subseteq Landed
    /\ amount[c] <= spendable[c]
    /\ tx[c] # "none" \/ pc[c] = "created" => amount[c] > 0
    /\ known[c] = Landed /\ spendable[c] > 0
          => spendable[c] + Reserve <= Principal

\* No amount is chosen before the balance was read.
AmountUnset == \A c \in Calls : pc[c] \in {"idle", "called", "read"} => amount[c] = 0

\* The first payment below the reserve overlapped one that landed before it.
ReserveInv ==
    /\ CoverInv
    /\ AmountUnset
    /\ Start >= Reserve /\ Landed = {} => Principal >= Reserve
    /\ OnlyOverlapBreaksReserve

\* The fees are a number of lamports.
LEMMA FeesType ==
    ASSUME TypeOK
    PROVE  Fees \in Nat /\ Principal \in Nat /\ balance <= Principal
<1>1. IsFiniteSet(Charged)
  BY CallsAssumption, FS_Subset DEF Charged
<1>2. Cardinality(Charged) \in Nat
  BY <1>1, FS_CardinalityType
<1>3. Fee \in Nat /\ balance \in Nat
  BY AmountsAssumption DEF TypeOK
<1>4. Fees = Fee * Cardinality(Charged)
  BY DEF Fees, Charged
<1>5. \A n \in Nat : Fee * n \in Nat
  BY <1>3
<1>6. Fees \in Nat
  BY <1>2, <1>4, <1>5
<1> QED BY <1>3, <1>6 DEF Principal

\* A transaction that is charged adds one fee.
LEMMA FeeCharged ==
    ASSUME TypeOK, NEW c \in Calls, tx[c] = "flying", NEW fate \in {"landed", "failed"},
           tx' = [tx EXCEPT ![c] = fate]
    PROVE  Fees' = Fees + Fee
<1>1. IsFiniteSet(Charged)
  BY CallsAssumption, FS_Subset DEF Charged
<1>2. Charged' = Charged \union {c} /\ c \notin Charged
  BY DEF Charged, TypeOK
<1>3. Cardinality(Charged') = Cardinality(Charged) + 1
  BY <1>1, <1>2, FS_AddElement
<1>4. Cardinality(Charged) \in Nat /\ Fee \in Nat
  BY <1>1, FS_CardinalityType, AmountsAssumption
<1>5. \A n \in Nat : Fee * (n + 1) = Fee * n + Fee
  BY <1>4
<1>6. Fee * Cardinality(Charged') = Fee * Cardinality(Charged) + Fee
  BY <1>3, <1>4, <1>5
<1> QED BY <1>6 DEF Fees, Charged

\* As long as no transaction changes hands, the fees stay what they are.
LEMMA FeesUnchanged ==
    ASSUME \A c \in Calls : tx'[c] \in {"landed", "failed"} <=> tx[c] \in {"landed", "failed"}
    PROVE  Fees' = Fees
<1>1. Charged' = Charged
  BY DEF Charged
<1> QED BY <1>1 DEF Fees, Charged

\* A step that keeps the principal, what landed and what the calls computed
\* keeps the invariant.
LEMMA ReserveQuiet ==
    ASSUME ReserveInv, Principal' = Principal, Landed' = Landed,
           UNCHANGED <<spendable, known, amount>>,
           \A c \in Calls : pc'[c] \in {"idle", "called", "read"} =>
                               pc[c] \in {"idle", "called", "read"},
           \A c \in Calls : tx'[c] # "none" \/ pc'[c] = "created" =>
                               tx[c] # "none" \/ pc[c] = "created"
    PROVE  ReserveInv'
<1>1. CoverInv'
  BY DEF ReserveInv, CoverInv
<1>2. OnlyOverlapBreaksReserve'
  BY DEF ReserveInv, OnlyOverlapBreaksReserve, Overlap, Principal
<1>3. AmountUnset'
  BY DEF ReserveInv, AmountUnset
<1> QED BY <1>1, <1>2, <1>3 DEF ReserveInv

\* The balance is read: the call knows all that has landed, and what it takes
\* for spendable leaves the reserve.
LEMMA ReserveRead ==
    ASSUME WithdrawInv, ReserveInv, NEW c \in Calls, ReadBalance(c)
    PROVE  ReserveInv'
<1>0. TypeOK /\ pc[c] = "called" /\ tx[c] = "none"
  BY DEF ReadBalance, WithdrawInv, StageInv
<1>1. UNCHANGED <<amount, tx, balance>> /\ pc' = [pc EXCEPT ![c] = "read"]
  BY DEF ReadBalance, chain, Goto
<1>2. \A d \in Calls : /\ spendable'[d] = IF d = c THEN Spendable(balance) ELSE spendable[d]
                       /\ known'[d] = IF d = c THEN Landed ELSE known[d]
  BY <1>0 DEF ReadBalance, TypeOK
<1>3. Landed' = Landed /\ Principal' = Principal
  BY <1>1 DEF Landed, Principal, Fees
<1>4. Spendable(balance) > 0 => Spendable(balance) + Reserve <= Principal
  BY <1>0, FeesType, AmountsAssumption DEF Spendable, TypeOK
<1>5. amount[c] <= Spendable(balance)
  <2>1. amount[c] = 0
    BY <1>0 DEF ReserveInv, AmountUnset
  <2> QED BY <2>1, <1>0, AmountsAssumption DEF Spendable, TypeOK
<1>6. CoverInv'
  BY <1>0, <1>1, <1>2, <1>3, <1>4, <1>5 DEF ReserveInv, CoverInv, TypeOK
<1>7. ASSUME NEW a \in Landed, NEW b \in Landed PROVE Overlap(a, b)' <=> Overlap(a, b)
  <2>1. a # c /\ b # c
    BY <1>0 DEF Landed
  <2> QED BY <1>2, <2>1 DEF Overlap, Landed
<1>8. OnlyOverlapBreaksReserve'
  BY <1>3, <1>7 DEF ReserveInv, OnlyOverlapBreaksReserve, Principal
<1>9. AmountUnset'
  BY <1>0, <1>1 DEF ReserveInv, AmountUnset, TypeOK
<1> QED BY <1>3, <1>6, <1>8, <1>9 DEF ReserveInv

\* A row is created for an amount the computed balance covers.
LEMMA ReserveRow ==
    ASSUME WithdrawInv, ReserveInv, NEW c \in Calls, CreateRow(c)
    PROVE  ReserveInv'
<1>0. TypeOK /\ pc[c] = "read"
  BY DEF CreateRow, WithdrawInv
<1>1. UNCHANGED <<spendable, known, tx, balance>> /\ pc' = [pc EXCEPT ![c] = "created"]
  BY DEF CreateRow, chain, Goto
<1>2. PICK a \in Amounts : a > 0 /\ a <= spendable[c] /\ amount' = [amount EXCEPT ![c] = a]
  BY DEF CreateRow
<1>3. Landed' = Landed /\ Principal' = Principal
  BY <1>1 DEF Landed, Principal, Fees
<1>4. \A d \in Calls : /\ amount'[d] = IF d = c THEN a ELSE amount[d]
                       /\ pc'[d] = IF d = c THEN "created" ELSE pc[d]
  BY <1>0, <1>1, <1>2 DEF TypeOK
<1>5. CoverInv'
  BY <1>1, <1>2, <1>3, <1>4 DEF ReserveInv, CoverInv
<1>6. OnlyOverlapBreaksReserve'
  BY <1>1, <1>3 DEF ReserveInv, OnlyOverlapBreaksReserve, Overlap, Principal
<1>7. AmountUnset'
  BY <1>4 DEF ReserveInv, AmountUnset
<1> QED BY <1>3, <1>5, <1>6, <1>7 DEF ReserveInv

\* A payment lands: either the call knew of every payment before it, and what
\* it computed was still covered, or it overlaps one of them.
LEMMA ReserveLand ==
    ASSUME WithdrawInv, ReserveInv, NEW c \in Calls, Land(c)
    PROVE  ReserveInv'
<1>0. TypeOK /\ tx[c] = "flying"
  BY DEF Land, WithdrawInv
<1>1. UNCHANGED <<spendable, known, amount, pc>> /\ tx' = [tx EXCEPT ![c] = "landed"]
      /\ balance' = balance - amount[c] - Fee
  BY DEF Land, calls
<1>2. Landed' = Landed \union {c} /\ c \notin Landed
  BY <1>0, <1>1 DEF Landed, TypeOK
<1>3. amount[c] \in Nat /\ balance \in Nat /\ Fee \in Nat /\ Fees \in Nat
      /\ Reserve \in Nat /\ Start \in Nat /\ spendable[c] \in Nat
  <2>1. amount[c] \in Amounts \union {0} /\ spendable[c] \in Nat /\ balance \in Nat
    BY <1>0 DEF TypeOK
  <2>2. Amounts \union {0} \subseteq Nat
    BY AmountsAssumption
  <2>3. Fees \in Nat
    BY <1>0, FeesType
  <2> QED BY <2>1, <2>2, <2>3, AmountsAssumption
<1>4. Fees' = Fees + Fee
  BY <1>0, <1>1, FeeCharged
<1>5. Principal' = Principal - amount[c] /\ Principal \in Nat
  BY <1>1, <1>3, <1>4 DEF Principal
<1>6. \A d \in Calls : known[d] \subseteq Landed /\ c \notin known[d]
  BY <1>2 DEF ReserveInv, CoverInv
<1>7. CoverInv'
  <2>1. ASSUME NEW d \in Calls
        PROVE  /\ known[d] \subseteq Landed' /\ known[d] # Landed'
               /\ tx'[d] # "none" => tx[d] # "none"
    BY <1>0, <1>1, <1>2, <1>6 DEF TypeOK
  <2> QED BY <1>1, <2>1 DEF ReserveInv, CoverInv
<1>8. ASSUME known[c] = Landed PROVE OnlyOverlapBreaksReserve'
  <2>1. amount[c] > 0 /\ amount[c] <= spendable[c]
    BY <1>0 DEF ReserveInv, CoverInv
  <2>2. spendable[c] + Reserve <= Principal
    BY <1>3, <1>8, <2>1 DEF ReserveInv, CoverInv
  <2>3. Principal' >= Reserve
    BY <1>3, <1>5, <2>1, <2>2
  <2> QED BY <1>3, <1>5, <2>3 DEF OnlyOverlapBreaksReserve, Principal
<1>9. ASSUME known[c] # Landed PROVE OnlyOverlapBreaksReserve'
  <2>1. PICK d \in Landed : d \notin known[c]
    BY <1>6, <1>9
  <2>2. d \in Calls /\ c \notin known[d] /\ c # d
    BY <1>2, <1>6, <2>1 DEF Landed
  <2>3. Overlap(c, d)' /\ c \in Landed' /\ d \in Landed'
    BY <1>1, <1>2, <2>1, <2>2 DEF Overlap
  <2> QED BY <2>3 DEF OnlyOverlapBreaksReserve
<1>10. OnlyOverlapBreaksReserve'
  BY <1>8, <1>9
<1>11. Landed' # {}
  BY <1>2
<1>12. AmountUnset'
  BY <1>1 DEF ReserveInv, AmountUnset
<1> QED BY <1>7, <1>10, <1>11, <1>12 DEF ReserveInv

\* A transaction that fails takes its fee, and nothing else.
LEMMA ReserveFail ==
    ASSUME WithdrawInv, ReserveInv, NEW c \in Calls, FailOnChain(c)
    PROVE  ReserveInv'
<1>0. TypeOK /\ tx[c] = "flying"
  BY DEF FailOnChain, WithdrawInv
<1>1. UNCHANGED <<spendable, known, amount, pc>> /\ tx' = [tx EXCEPT ![c] = "failed"]
      /\ balance' = balance - Fee
  BY DEF FailOnChain, calls
<1>2. Landed' = Landed
  BY <1>0, <1>1 DEF Landed, TypeOK
<1>3. balance \in Nat /\ Fee \in Nat /\ Fees \in Nat
  BY <1>0, FeesType, AmountsAssumption DEF TypeOK
<1>4. Fees' = Fees + Fee
  BY <1>0, <1>1, FeeCharged
<1>5. Principal' = Principal
  BY <1>1, <1>3, <1>4 DEF Principal
<1>6. \A d \in Calls : tx'[d] # "none" => tx[d] # "none"
  BY <1>0, <1>1 DEF TypeOK
<1> QED BY <1>1, <1>2, <1>5, <1>6, ReserveQuiet

\* The other steps move no lamports.
LEMMA ReserveOthers ==
    ASSUME WithdrawInv, ReserveInv, [Next]_vars,
           ~(\E c \in Calls : ReadBalance(c) \/ CreateRow(c) \/ Land(c) \/ FailOnChain(c))
    PROVE  ReserveInv'
<1>0. TypeOK
  BY DEF WithdrawInv
<1>1. UNCHANGED <<spendable, known, amount, balance>>
  BY DEF Next, Dialogue, StartFlow, EnterAddress, Navigate, Cancel, Crash, Call,
     Press, GiveUp, Send, SendFails, Confirmed, FailedOnChain, ConfirmThrows,
     RecordSuccess, ForgetAddress, RecordThrows, RecordFailure, Network, Vanish, vars, calls, chain
<1>2. \/ UNCHANGED tx
      \/ \E c \in Calls : /\ tx[c] \in {"none", "flying"}
                          /\ tx[c] = "none" => pc[c] = "created"
                          /\ \E fate \in {"flying", "expired"} : tx' = [tx EXCEPT ![c] = fate]
  BY DEF Next, Dialogue, StartFlow, EnterAddress, Navigate, Cancel, Crash, Call,
     Press, GiveUp, Send, SendFails, Confirmed, FailedOnChain, ConfirmThrows,
     RecordSuccess, ForgetAddress, RecordThrows, RecordFailure, Network, Vanish, vars, calls,
     chain, WithdrawInv, StageInv
<1>3. \A d \in Calls : /\ tx'[d] \in {"landed", "failed"} <=> tx[d] \in {"landed", "failed"}
                       /\ tx'[d] = "landed" <=> tx[d] = "landed"
                       /\ tx'[d] # "none" => tx[d] # "none" \/ pc[d] = "created"
  BY <1>0, <1>2 DEF TypeOK
<1>4. \A d \in Calls : /\ pc'[d] = "created" => pc[d] = "created"
                       /\ pc'[d] \in {"idle", "called", "read"} => pc[d] \in {"idle", "called", "read"}
  <2>1. CASE UNCHANGED vars \/ Dialogue \/ \E c \in Calls : Network(c)
    <3>1. UNCHANGED pc
      BY <2>1 DEF Dialogue, StartFlow, EnterAddress, Navigate, Cancel, Network,
         Land, FailOnChain, Vanish, vars, calls
    <3> QED BY <3>1
  <2>2. CASE Crash
    BY <2>2 DEF Crash
  <2>3. ASSUME NEW c \in Calls, Call(c)
        PROVE  \E stage \in {"called", "confirming", "confirmed", "failing", "paid", "done"} :
                  /\ pc' = [pc EXCEPT ![c] = stage]
                  /\ stage = "called" => pc[c] = "idle"
    BY <2>3 DEF Call, Press, GiveUp, Send, SendFails, Confirmed, FailedOnChain,
       ConfirmThrows, RecordSuccess, ForgetAddress, RecordThrows, RecordFailure, Goto
  <2>4. CASE \E c \in Calls : Call(c)
    BY <1>0, <2>3, <2>4 DEF TypeOK
  <2> QED BY <2>1, <2>2, <2>4 DEF Next
<1>5. Landed' = Landed
  BY <1>3 DEF Landed
<1>6. Principal' = Principal
  BY <1>1, <1>3, FeesUnchanged DEF Principal
<1> QED BY <1>1, <1>3, <1>4, <1>5, <1>6, ReserveQuiet

\* The reserve is touched by fees only, unless two payments that landed were
\* computed without knowing of each other: for every number of presses, every
\* preset and reserve, and whatever the network and the process do.
THEOREM ReserveKept == Spec => []OnlyOverlapBreaksReserve
<1>1. Init => ReserveInv
  <2> SUFFICES ASSUME Init PROVE ReserveInv
    OBVIOUS
  <2>1. TypeOK /\ Fees \in Nat
    BY WithdrawInit, FeesType DEF WithdrawInv
  <2>2. Landed = {}
    BY DEF Init, Landed
  <2>3. Start >= Reserve => Principal >= Reserve
    BY <2>1, AmountsAssumption DEF Init, Principal
  <2>4. CoverInv /\ AmountUnset
    BY <2>2 DEF Init, CoverInv, AmountUnset
  <2>5. OnlyOverlapBreaksReserve
    BY <2>1, <2>3, AmountsAssumption DEF OnlyOverlapBreaksReserve, Principal, Init
  <2> QED BY <2>2, <2>3, <2>4, <2>5 DEF ReserveInv
<1>2. WithdrawInv /\ ReserveInv /\ [Next]_vars => ReserveInv'
  BY ReserveRead, ReserveRow, ReserveLand, ReserveFail, ReserveOthers
<1>3. ReserveInv => OnlyOverlapBreaksReserve
  BY DEF ReserveInv
<1> QED BY <1>1, <1>2, <1>3, WithdrawInvariant, PTL DEF Spec

=============================================================================
