------------------------- MODULE BuyExecutionProofs -------------------------
(***************************************************************************)
(* Theorems about BuyExecution, for every number of calls, tokens and      *)
(* slots and every size and reserve.                                       *)
(***************************************************************************)
EXTENDS BuyExecution, SumLemmas

------------------------------------------------------------------------------
(* Slots *)

\* slotToUse is a slot number, and one no row of the snapshot has as long as
\* the snapshot is smaller than the number of slots.
LEMMA SlotForFresh ==
    ASSUME NEW c \in Calls, slot \in [Calls -> 1..TotalSlots],
           seen[c] \subseteq Calls
    PROVE  /\ SlotFor(c) \in 1..TotalSlots
           /\ Cardinality(seen[c]) < TotalSlots =>
                 \A q \in seen[c] : slot[q] # SlotFor(c)
<1> DEFINE used == {slot[r] : r \in seen[c]}
           free == (1..TotalSlots) \ used
<1>1. CASE free # {}
  <2>0. free \subseteq Nat
    BY SlotsAssumption
  <2> HIDE DEF free
  <2>1. \E i \in free : \A j \in free : i <= j
    BY <1>1, <2>0, LeastExists
  <2> USE DEF free
  <2>2. SlotFor(c) = CHOOSE i \in free : \A j \in free : i <= j
    BY <1>1 DEF SlotFor
  <2>3. SlotFor(c) \in free
    BY <2>1, <2>2
  <2> QED BY <2>3
<1>2. CASE free = {}
  <2>1. SlotFor(c) = 1
    BY <1>2 DEF SlotFor
  <2>2. 1 \in 1..TotalSlots
    BY SlotsAssumption
  <2>3. IsFiniteSet(seen[c])
    BY FS_Subset, CallsAssumption
  <2>4. IsFiniteSet(used) /\ Cardinality(used) <= Cardinality(seen[c])
    <3> DEFINE f == [r \in seen[c] |-> slot[r]]
    <3>1. f \in Surjection(seen[c], used)
      BY DEF Surjection
    <3> QED BY <2>3, <3>1, FS_Surjection
  <2>5. 1..TotalSlots \subseteq used
    BY <1>2
  <2>6. Cardinality(1..TotalSlots) = TotalSlots
    BY FS_Interval, SlotsAssumption
  <2>7. Cardinality(1..TotalSlots) <= Cardinality(used)
    BY <2>4, <2>5, FS_Subset
  <2>8. Cardinality(seen[c]) \in Nat /\ Cardinality(used) \in Nat
    BY <2>3, <2>4, FS_CardinalityType
  <2>9. ~ (Cardinality(seen[c]) < TotalSlots)
    BY <2>4, <2>6, <2>7, <2>8, SlotsAssumption
  <2> QED BY <2>1, <2>2, <2>9
<1> QED BY <1>1, <1>2

------------------------------------------------------------------------------
(* What the rows and the snapshots have to do with each other *)

Late == (Stages \ {"idle", "looked", "done", "lost"})
Before == Late \ {"auditing"}

\* The types this section needs.
RowTypes ==
    /\ pc \in [Calls -> Stages]
    /\ mint \in [Calls -> Mints]
    /\ seen \in [Calls -> SUBSET Calls]
    /\ before \in [Calls -> SUBSET Calls]
    /\ target \in [Calls -> Calls]
    /\ status \in [Calls -> {"none", "OPEN", "CLOSED"}]
    /\ slot \in [Calls -> 1..TotalSlots]
    /\ created \in Seq(Calls)

\* A row exists once its call has written it.
RowsFollowCalls ==
    \A c \in Calls :
        status[c] # "none" => target[c] = c /\ pc[c] \in {"auditing", "done", "lost"}

\* A snapshot names other rows, and every row that is still open and whose
\* call was over when the snapshot was taken.
SnapshotsHold ==
    \A c \in Calls :
        /\ pc[c] = "idle" => seen[c] = {} /\ before[c] = {}
        /\ \A q \in seen[c] : q # c /\ status[q] # "none"
        /\ \A q \in before[c] : Over(q) /\ (status[q] = "OPEN" => q \in seen[c])

\* A call that makes a row of its own saw no row of its token.
MintsDiffer ==
    \A c \in Calls :
        target[c] = c => \A q \in seen[c] : mint[q] # mint[c]

\* From admission on, such a call saw room, and its slot is not one it saw.
SlotsDiffer ==
    \A c \in Calls :
        target[c] = c /\ (pc[c] \in Late \/ status[c] # "none") =>
            /\ Cardinality(seen[c]) < TotalSlots
            /\ \A q \in seen[c] : slot[q] # slot[c]

\* created lists the rows, and a later row is not of an earlier call.
CreatedInOrder ==
    /\ \A q \in Calls : status[q] # "none" => \E i \in 1..Len(created) : created[i] = q
    /\ \A i \in 1..Len(created) : status[created[i]] # "none"
    /\ \A i, j \in 1..Len(created) : i < j => created[j] \notin before[created[i]]

RowInv ==
    /\ RowTypes
    /\ RowsFollowCalls
    /\ SnapshotsHold
    /\ MintsDiffer
    /\ SlotsDiffer
    /\ CreatedInOrder

LEMMA RowInvInit == Init => RowInv
<1> SUFFICES ASSUME Init PROVE RowInv
  OBVIOUS
<1> USE DEF Init
<1>1. RowTypes
  <2>1. (CHOOSE m \in Mints : TRUE) \in Mints
    BY CallsAssumption
  <2>2. mint \in [Calls -> Mints]
    BY <2>1
  <2>3. created \in Seq(Calls)
    OBVIOUS
  <2> QED BY <2>2, <2>3, SlotsAssumption DEF RowTypes, Stages
<1>2. Len(created) = 0
  OBVIOUS
<1>3. CreatedInOrder
  BY <1>2 DEF CreatedInOrder
<1> QED BY <1>1, <1>3 DEF RowInv, RowsFollowCalls, SnapshotsHold, MintsDiffer, SlotsDiffer, Late

rowView == <<mint, seen, before, target, status, slot, created>>

\* A step that only moves calls forward.
Quiet ==
    /\ UNCHANGED rowView
    /\ pc' \in [Calls -> Stages]
    /\ \A c \in Calls :
          \/ pc'[c] = pc[c]
          \/ /\ pc[c] \notin {"idle", "done", "lost"}
             /\ \/ pc'[c] \in {"done", "lost"}
                \/ pc[c] \in Before /\ pc'[c] \in Before

\* Steps that only move calls keep the invariant.
LEMMA QuietStep == RowInv /\ Quiet => RowInv'
<1> SUFFICES ASSUME RowInv, Quiet PROVE RowInv'
  OBVIOUS
<1> USE DEF Quiet, rowView
<1>1. RowTypes'
  BY DEF RowInv, RowTypes
<1>2. RowsFollowCalls'
  BY DEF RowInv, RowsFollowCalls, Before, Late
<1>3. SnapshotsHold'
  <2>1. \A q \in Calls : Over(q) => Over(q)'
    BY DEF Over
  <2>2. \A c \in Calls : pc'[c] = "idle" => pc[c] = "idle"
    BY DEF Before, Late
  <2>3. \A c \in Calls : before[c] \subseteq Calls
    BY DEF RowInv, RowTypes
  <2> QED BY <2>1, <2>2, <2>3 DEF RowInv, SnapshotsHold
<1>4. MintsDiffer'
  BY DEF RowInv, MintsDiffer
<1>5. SlotsDiffer'
  <2>1. \A c \in Calls : pc'[c] \in Late => pc[c] \in Late
    BY DEF Before, Late
  <2> QED BY <2>1 DEF RowInv, SlotsDiffer
<1>6. CreatedInOrder'
  BY DEF RowInv, CreatedInOrder
<1> QED BY <1>1, <1>2, <1>3, <1>4, <1>5, <1>6 DEF RowInv

\* Every step but four is such a step, or leaves the calls alone.
LEMMA MostStepsQuiet ==
    ASSUME RowInv, [Next]_vars,
           \A c \in Calls : ~ Begin(c) /\ ~ Admit(c) /\ ~ CreateRow(c) /\ ~ RecordClose(c)
    PROVE  Quiet
<1>0. pc \in [Calls -> Stages]
  BY DEF RowInv, RowTypes
<1> USE DEF Quiet, rowView, locals, rows, sales, probeState, Stages, ProbeStages, Late, Before
<1>1. CASE UNCHANGED vars
  BY <1>0, <1>1 DEF vars
<1>2. CASE Crash
  BY <1>0, <1>2 DEF Crash, Active, Over
<1>3. CASE \E m \in Mints : PassTime(m)
  BY <1>0, <1>3 DEF PassTime, Expire
<1>4. ASSUME NEW c \in Calls, Land(c) \/ DoNotLand(c) PROVE Quiet
  BY <1>0, <1>4 DEF Land, DoNotLand
<1>5. ASSUME NEW c \in Calls, Sale(c) PROVE Quiet
  BY <1>0, <1>5 DEF Sale, SellAll, SellHalf, RecordHalf
<1>6. ASSUME NEW c \in Calls, Call(c) PROVE Quiet
  <2>1. CASE PassGuards(c) \/ Refuse(c) \/ Send(c)
    BY <1>0, <2>1 DEF PassGuards, Refuse, Send, Goto
  <2>2. CASE Confirmed(c) \/ Rejected(c) \/ Unconfirmed(c) \/ Reconciled(c) \/ Unreconciled(c)
    BY <1>0, <2>2 DEF Confirmed, Rejected, Unconfirmed, Reconciled, Unreconciled, Goto
  <2>3. CASE Audit(c) \/ ScaleIn(c) \/ ScaleInTooLate(c) \/ WriteThrows(c)
    BY <1>0, <2>3 DEF Audit, ScaleIn, ScaleInTooLate, WriteThrows, Enter, Goto
  <2>4. CASE RunProbe(c)
    <3>1. CASE ReadBlocked(c) \/ ReadCache(c) \/ FindBalance(c) \/ FindNoBalance(c)
      BY <1>0, <2>4, <3>1 DEF RunProbe, ReadBlocked, ReadCache, FindBalance, FindNoBalance, Conclude, Goto
    <3>2. CASE ProbeBuy(c) \/ ProbeBuyFails(c) \/ BalanceMissing(c) \/ ProbeSell(c) \/ ProbeSellFails(c)
      BY <1>0, <2>4, <3>2 DEF RunProbe, ProbeBuy, ProbeBuyFails, BalanceMissing, ProbeSell, ProbeSellFails, Conclude, Goto
    <3>3. CASE JudgeSold(c) \/ JudgeUnsold(c) \/ SaveVerdict(c) \/ ProbeThrows(c)
      BY <1>0, <2>4, <3>3 DEF RunProbe, JudgeSold, JudgeUnsold, SaveVerdict, ProbeThrows, Conclude, Goto
    <3> QED BY <2>4, <3>1, <3>2, <3>3 DEF RunProbe, Probe
  <2> QED BY <1>6, <2>1, <2>2, <2>3, <2>4 DEF Call
<1> QED BY <1>1, <1>2, <1>3, <1>4, <1>5, <1>6 DEF Next

\* A call begins: its snapshot is what is open now.
LEMMA BeginStep == \A c \in Calls : RowInv /\ Begin(c) => RowInv'
<1> SUFFICES ASSUME NEW c \in Calls, RowInv, Begin(c) PROVE RowInv'
  OBVIOUS
<1> DEFINE same == {r \in OpenRows : mint[r] = mint'[c]}
<1> USE DEF rows, probeState
<1>1. RowTypes /\ RowsFollowCalls /\ SnapshotsHold /\ MintsDiffer /\ SlotsDiffer /\ CreatedInOrder
  BY DEF RowInv
<1>2. /\ pc[c] = "idle" /\ pc' = [pc EXCEPT ![c] = "looked"]
      /\ \E m \in Mints : mint' = [mint EXCEPT ![c] = m]
      /\ seen' = [seen EXCEPT ![c] = OpenRows]
      /\ before' = [before EXCEPT ![c] = {d \in Calls : Over(d)}]
      /\ UNCHANGED <<status, slot, created>>
  BY DEF Begin, Goto
<1>3. /\ OpenRows \subseteq Calls /\ c \notin OpenRows /\ status[c] = "none"
      /\ \A q \in OpenRows : status[q] # "none"
  BY <1>1, <1>2 DEF OpenRows, RowsFollowCalls, RowTypes
<1>4. \E r \in (IF same = {} THEN {c} ELSE same) : target' = [target EXCEPT ![c] = r]
  <2>1. PICK m \in Mints :
          /\ mint' = [mint EXCEPT ![c] = m]
          /\ \E r \in (IF {r \in OpenRows : mint[r] = m} = {} THEN {c}
                       ELSE {r \in OpenRows : mint[r] = m}) :
                target' = [target EXCEPT ![c] = r]
    BY DEF Begin
  <2>2. mint'[c] = m
    BY <1>1, <2>1 DEF RowTypes
  <2> QED BY <2>1, <2>2
<1>5. RowTypes'
  <2>1. target' \in [Calls -> Calls]
    BY <1>1, <1>3, <1>4 DEF RowTypes
  <2>2. pc' \in [Calls -> Stages]
    BY <1>1, <1>2 DEF RowTypes, Stages
  <2>3. mint' \in [Calls -> Mints]
    BY <1>1, <1>2 DEF RowTypes
  <2>4. seen' \in [Calls -> SUBSET Calls] /\ before' \in [Calls -> SUBSET Calls]
    BY <1>1, <1>2, <1>3 DEF RowTypes
  <2> QED BY <1>1, <1>2, <2>1, <2>2, <2>3, <2>4 DEF RowTypes
<1>6. \A q \in Calls : q # c => /\ pc'[q] = pc[q] /\ mint'[q] = mint[q] /\ seen'[q] = seen[q]
                               /\ before'[q] = before[q] /\ target'[q] = target[q]
  BY <1>1, <1>2, <1>4 DEF RowTypes
<1>7. seen'[c] = OpenRows /\ before'[c] = {d \in Calls : Over(d)} /\ pc'[c] = "looked"
  BY <1>1, <1>2 DEF RowTypes
<1>8. RowsFollowCalls'
  BY <1>1, <1>2, <1>3, <1>6 DEF RowsFollowCalls
<1>9. SnapshotsHold'
  <2>1. \A q \in Calls : q # c => Over(q)' = Over(q)
    BY <1>6 DEF Over
  <2>2. ~ Over(c)
    BY <1>2 DEF Over
  <2>3. ASSUME NEW d \in Calls
        PROVE  /\ pc'[d] = "idle" => seen'[d] = {} /\ before'[d] = {}
               /\ \A q \in seen'[d] : q # d /\ status'[q] # "none"
               /\ \A q \in before'[d] : Over(q)' /\ (status'[q] = "OPEN" => q \in seen'[d])
    <3>1. CASE d = c
      BY <1>2, <1>3, <1>7, <2>1, <2>2, <3>1 DEF OpenRows
    <3>2. CASE d # c
      <4>1. \A q \in before[d] : q \in Calls /\ q # c
        BY <1>1, <2>2, <3>2 DEF SnapshotsHold, RowTypes
      <4> QED BY <1>1, <1>2, <1>6, <2>1, <3>2, <4>1 DEF SnapshotsHold
    <3> QED BY <3>1, <3>2
  <2> QED BY <2>3 DEF SnapshotsHold
<1>10. MintsDiffer'
  <2>1. ASSUME NEW d \in Calls, target'[d] = d, NEW q \in seen'[d]
        PROVE  mint'[q] # mint'[d]
    <3>1. CASE d = c
      <4>1. same = {}
        BY <1>1, <1>3, <1>4, <2>1, <3>1 DEF RowTypes
      <4>2. q \in OpenRows /\ q # c
        BY <1>3, <1>7, <2>1, <3>1
      <4> QED BY <1>3, <1>6, <3>1, <4>1, <4>2
    <3>2. CASE d # c
      <4>1. q \in seen[d] /\ q \in Calls /\ q # c
        BY <1>1, <1>3, <1>6, <2>1, <3>2 DEF SnapshotsHold, RowTypes
      <4> QED BY <1>1, <1>6, <2>1, <3>2, <4>1 DEF MintsDiffer
    <3> QED BY <3>1, <3>2
  <2> QED BY <2>1 DEF MintsDiffer
<1>11. SlotsDiffer'
  BY <1>1, <1>2, <1>3, <1>6, <1>7 DEF SlotsDiffer, Late
<1>12. CreatedInOrder'
  <2>1. \A i \in 1..Len(created) : created[i] \in Calls /\ created[i] # c
    BY <1>1, <1>3 DEF CreatedInOrder, RowTypes
  <2>2. \A i \in 1..Len(created) : before'[created[i]] = before[created[i]]
    BY <1>6, <2>1
  <2> QED BY <1>1, <1>2, <2>2 DEF CreatedInOrder
<1> QED BY <1>5, <1>8, <1>9, <1>10, <1>11, <1>12 DEF RowInv

\* A call is admitted: there is room, and its slot is new to it.
LEMMA AdmitStep == \A c \in Calls : RowInv /\ Admit(c) => RowInv'
<1> SUFFICES ASSUME NEW c \in Calls, RowInv, Admit(c) PROVE RowInv'
  OBVIOUS
<1> USE DEF locals, probeState
<1>1. RowTypes /\ RowsFollowCalls /\ SnapshotsHold /\ MintsDiffer /\ SlotsDiffer /\ CreatedInOrder
  BY DEF RowInv
<1>2. /\ pc[c] = "looked" /\ pc' = [pc EXCEPT ![c] = "admitted"]
      /\ slot' = IF target[c] = c THEN [slot EXCEPT ![c] = SlotFor(c)] ELSE slot
      /\ ~ (target[c] = c /\ Cardinality(seen[c]) >= TotalSlots)
      /\ UNCHANGED <<mint, seen, before, target, status, created>>
  BY DEF Admit, Goto, IsNew, SlotsFull
<1>3. SlotFor(c) \in 1..TotalSlots
      /\ (Cardinality(seen[c]) < TotalSlots => \A q \in seen[c] : slot[q] # SlotFor(c))
  BY <1>1, SlotForFresh DEF RowTypes
<1>4. status[c] = "none"
  BY <1>1, <1>2 DEF RowsFollowCalls, RowTypes
<1>5. RowTypes'
  <2>1. slot' \in [Calls -> 1..TotalSlots]
    BY <1>1, <1>2, <1>3 DEF RowTypes
  <2>2. pc' \in [Calls -> Stages]
    BY <1>1, <1>2 DEF RowTypes, Stages
  <2> QED BY <1>1, <1>2, <2>1, <2>2 DEF RowTypes
<1>6. \A q \in Calls : q # c => pc'[q] = pc[q] /\ slot'[q] = slot[q]
  BY <1>1, <1>2 DEF RowTypes
<1>7. RowsFollowCalls'
  BY <1>1, <1>2, <1>4, <1>6 DEF RowsFollowCalls
<1>8. SnapshotsHold'
  <2>1. \A q \in Calls : Over(q)' = Over(q)
    BY <1>1, <1>2 DEF Over, RowTypes
  <2>2. \A d \in Calls : before[d] \subseteq Calls
    BY <1>1 DEF RowTypes
  <2>3. \A d \in Calls : pc'[d] = "idle" => pc[d] = "idle"
    BY <1>1, <1>2 DEF RowTypes
  <2> QED BY <1>1, <1>2, <2>1, <2>2, <2>3 DEF SnapshotsHold
<1>9. MintsDiffer'
  BY <1>1, <1>2 DEF MintsDiffer
<1>10. SlotsDiffer'
  <2>1. ASSUME NEW d \in Calls, target[d] = d, pc'[d] \in Late \/ status[d] # "none"
        PROVE  Cardinality(seen[d]) < TotalSlots /\ \A q \in seen[d] : slot'[q] # slot'[d]
    <3>0. \A q \in seen[d] : q \in Calls /\ q # c /\ slot'[q] = slot[q]
      BY <1>1, <1>4, <1>6 DEF SnapshotsHold, RowTypes
    <3>1. CASE d = c
      <4>1. IsFiniteSet(seen[c])
        BY <1>1, FS_Subset, CallsAssumption DEF RowTypes
      <4>2. Cardinality(seen[c]) \in Nat
        BY <4>1, FS_CardinalityType
      <4>3. Cardinality(seen[c]) < TotalSlots
        BY <1>2, <2>1, <3>1, <4>2, SlotsAssumption
      <4>4. slot'[c] = SlotFor(c)
        BY <1>1, <1>2, <2>1, <3>1 DEF RowTypes
      <4> QED BY <1>3, <3>0, <3>1, <4>3, <4>4
    <3>2. CASE d # c
      <4>1. pc'[d] = pc[d] /\ slot'[d] = slot[d]
        BY <1>6, <3>2
      <4> QED BY <1>1, <2>1, <3>0, <3>2, <4>1 DEF SlotsDiffer
    <3> QED BY <3>1, <3>2
  <2> QED BY <1>2, <2>1 DEF SlotsDiffer
<1>11. CreatedInOrder'
  BY <1>1, <1>2 DEF CreatedInOrder
<1> QED BY <1>5, <1>7, <1>8, <1>9, <1>10, <1>11 DEF RowInv

\* A row is created by a call that is not over, so that no snapshot missed it
\* that should have it, and it comes last in the order of creation.
LEMMA CreateRowStep == \A c \in Calls : RowInv /\ CreateRow(c) => RowInv'
<1> SUFFICES ASSUME NEW c \in Calls, RowInv, CreateRow(c) PROVE RowInv'
  OBVIOUS
<1> USE DEF probeState
<1>1. RowTypes /\ RowsFollowCalls /\ SnapshotsHold /\ MintsDiffer /\ SlotsDiffer /\ CreatedInOrder
  BY DEF RowInv
<1>2. /\ pc[c] = "filled" /\ pc' = [pc EXCEPT ![c] = "auditing"]
      /\ target[c] = c
      /\ status' = [status EXCEPT ![c] = "OPEN"]
      /\ created' = Append(created, c)
      /\ UNCHANGED <<mint, seen, before, target, slot>>
  BY DEF CreateRow, Goto, IsNew, Enter
<1>3. /\ \A q \in Calls : q # c => pc'[q] = pc[q] /\ status'[q] = status[q]
      /\ pc'[c] = "auditing" /\ status'[c] = "OPEN"
  BY <1>1, <1>2 DEF RowTypes
<1>4. status[c] = "none"
  BY <1>1, <1>2 DEF RowsFollowCalls, RowTypes
<1>5. RowTypes'
  <2>1. pc' \in [Calls -> Stages]
    BY <1>1, <1>2 DEF RowTypes, Stages
  <2>2. created' \in Seq(Calls)
    BY <1>1, <1>2 DEF RowTypes
  <2>3. status' \in [Calls -> {"none", "OPEN", "CLOSED"}]
    BY <1>1, <1>2 DEF RowTypes
  <2> QED BY <1>1, <1>2, <2>1, <2>2, <2>3 DEF RowTypes
<1>6. RowsFollowCalls'
  BY <1>1, <1>2, <1>3 DEF RowsFollowCalls
<1>7. \A d \in Calls : c \notin before[d]
  BY <1>1, <1>2 DEF SnapshotsHold, Over
<1>8. SnapshotsHold'
  <2>1. \A q \in Calls : Over(q)' = Over(q)
    BY <1>2, <1>3 DEF Over
  <2>2. \A d \in Calls : before[d] \subseteq Calls /\ seen[d] \subseteq Calls
    BY <1>1 DEF RowTypes
  <2>3. \A d \in Calls : pc'[d] = "idle" => pc[d] = "idle"
    BY <1>2, <1>3
  <2> QED BY <1>1, <1>2, <1>3, <1>7, <2>1, <2>2, <2>3 DEF SnapshotsHold
<1>9. MintsDiffer'
  BY <1>1, <1>2 DEF MintsDiffer
<1>10. SlotsDiffer'
  <2>1. \A d \in Calls : pc'[d] \in Late \/ status'[d] # "none" => pc[d] \in Late \/ status[d] # "none"
    BY <1>2, <1>3 DEF Late, Stages
  <2> QED BY <1>1, <1>2, <2>1 DEF SlotsDiffer
<1>11. CreatedInOrder'
  <2> DEFINE n == Len(created)
  <2>1. /\ n \in Nat /\ Len(created') = n + 1 /\ created'[n + 1] = c
        /\ \A i \in 1..n : created'[i] = created[i] /\ created[i] \in Calls
    BY <1>1, <1>2 DEF RowTypes
  <2> HIDE DEF n
  <2>2. \A q \in Calls : status'[q] # "none" => \E i \in 1..(n + 1) : created'[i] = q
    <3>1. ASSUME NEW q \in Calls, status'[q] # "none", q # c
          PROVE  \E i \in 1..(n + 1) : created'[i] = q
      <4>1. PICK i \in 1..n : created[i] = q
        BY <1>1, <1>3, <3>1 DEF CreatedInOrder, n
      <4> QED BY <2>1, <4>1
    <3>2. n + 1 \in 1..(n + 1)
      BY <2>1
    <3> QED BY <2>1, <3>1, <3>2
  <2>3. \A i \in 1..(n + 1) : status'[created'[i]] # "none"
    <3>1. ASSUME NEW i \in 1..(n + 1), i # n + 1 PROVE status'[created'[i]] # "none"
      <4>1. i \in 1..n
        BY <2>1, <3>1
      <4>2. status[created[i]] # "none"
        BY <1>1, <4>1 DEF CreatedInOrder, n
      <4> QED BY <1>3, <2>1, <4>1, <4>2
    <3> QED BY <1>3, <2>1, <3>1
  <2>4. ASSUME NEW i \in 1..(n + 1), NEW j \in 1..(n + 1), i < j
        PROVE  created'[j] \notin before'[created'[i]]
    <3>1. i \in 1..n /\ created'[i] \in Calls
      BY <2>1, <2>4
    <3>2. CASE j = n + 1
      BY <1>2, <1>7, <2>1, <3>1, <3>2
    <3>3. CASE j # n + 1
      <4>1. j \in 1..n
        BY <2>1, <3>3
      <4>2. created[j] \notin before[created[i]]
        BY <1>1, <2>4, <3>1, <4>1 DEF CreatedInOrder, n
      <4> QED BY <1>2, <2>1, <3>1, <4>1, <4>2
    <3> QED BY <3>2, <3>3
  <2> QED BY <2>1, <2>2, <2>3, <2>4 DEF CreatedInOrder
<1> QED BY <1>5, <1>6, <1>8, <1>9, <1>10, <1>11 DEF RowInv

\* Only open rows are sold.
SaleInv ==
    /\ sale \in [Calls -> {"none", "full", "half"}]
    /\ \A r \in Calls : sale[r] # "none" => status[r] = "OPEN"

\* A row closes.
LEMMA RecordCloseStep == \A r \in Calls : RowInv /\ SaleInv /\ RecordClose(r) => RowInv'
<1> SUFFICES ASSUME NEW r \in Calls, RowInv, SaleInv, RecordClose(r) PROVE RowInv'
  OBVIOUS
<1>0. status[r] # "none"
  BY DEF RecordClose, SaleInv
<1> USE DEF probeState, locals
<1>1. RowTypes /\ RowsFollowCalls /\ SnapshotsHold /\ MintsDiffer /\ SlotsDiffer /\ CreatedInOrder
  BY DEF RowInv
<1>2. /\ status' = [status EXCEPT ![r] = "CLOSED"]
      /\ UNCHANGED <<pc, mint, seen, before, target, slot, created>>
  BY DEF RecordClose
<1>3. \A q \in Calls : /\ status'[q] # "none" <=> status[q] # "none"
                       /\ status'[q] = "OPEN" => status[q] = "OPEN"
  BY <1>0, <1>1, <1>2 DEF RowTypes
<1>4. RowTypes'
  BY <1>1, <1>2 DEF RowTypes
<1>5. RowsFollowCalls'
  BY <1>1, <1>2, <1>3 DEF RowsFollowCalls
<1>6. SnapshotsHold'
  <2>1. \A d \in Calls : before[d] \subseteq Calls /\ seen[d] \subseteq Calls
    BY <1>1 DEF RowTypes
  <2>2. \A q \in Calls : Over(q)' = Over(q)
    BY <1>2 DEF Over
  <2> QED BY <1>1, <1>2, <1>3, <2>1, <2>2 DEF SnapshotsHold
<1>7. MintsDiffer'
  BY <1>1, <1>2 DEF MintsDiffer
<1>8. SlotsDiffer'
  BY <1>1, <1>2, <1>3 DEF SlotsDiffer
<1>9. CreatedInOrder'
  <2>1. \A i \in 1..Len(created) : created[i] \in Calls
    BY <1>1 DEF RowTypes
  <2> QED BY <1>1, <1>2, <1>3, <2>1 DEF CreatedInOrder
<1> QED BY <1>4, <1>5, <1>6, <1>7, <1>8, <1>9 DEF RowInv

LEMMA SaleStep == RowInv /\ SaleInv /\ [Next]_vars => SaleInv'
<1> SUFFICES ASSUME RowInv, SaleInv, [Next]_vars PROVE SaleInv'
  OBVIOUS
<1>0. status \in [Calls -> {"none", "OPEN", "CLOSED"}]
  BY DEF RowInv, RowTypes
<1> USE DEF rows, sales, SaleInv
<1>1. ASSUME UNCHANGED <<sale, status>> PROVE SaleInv'
  BY <1>1
<1>2. ASSUME NEW r \in Calls, Sale(r) PROVE SaleInv'
  <2>1. CASE SellAll(r)
    BY <1>0, <2>1 DEF SellAll
  <2>2. CASE SellHalf(r)
    BY <1>0, <2>2 DEF SellHalf
  <2>3. CASE RecordHalf(r)
    BY <1>0, <2>3 DEF RecordHalf
  <2>4. CASE RecordClose(r)
    BY <1>0, <2>4 DEF RecordClose
  <2> QED BY <1>2, <2>1, <2>2, <2>3, <2>4 DEF Sale
<1>3. ASSUME NEW c \in Calls, Call(c) PROVE SaleInv'
  <2>1. CASE CreateRow(c)
    BY <1>0, <2>1 DEF CreateRow
  <2>2. CASE Begin(c) \/ Admit(c) \/ PassGuards(c) \/ Refuse(c) \/ RunProbe(c) \/ Send(c)
    BY <1>1, <2>2 DEF Begin, Admit, PassGuards, Refuse, RunProbe, Send
  <2>3. CASE Confirmed(c) \/ Rejected(c) \/ Unconfirmed(c) \/ Reconciled(c) \/ Unreconciled(c)
    BY <1>1, <2>3 DEF Confirmed, Rejected, Unconfirmed, Reconciled, Unreconciled
  <2>4. CASE Audit(c) \/ ScaleIn(c) \/ ScaleInTooLate(c) \/ WriteThrows(c)
    BY <1>1, <2>4 DEF Audit, ScaleIn, ScaleInTooLate, WriteThrows
  <2> QED BY <1>3, <2>1, <2>2, <2>3, <2>4 DEF Call
<1>4. ASSUME NEW c \in Calls, Land(c) \/ DoNotLand(c) PROVE SaleInv'
  BY <1>1, <1>4 DEF Land, DoNotLand
<1>5. CASE Crash \/ (\E m \in Mints : PassTime(m)) \/ UNCHANGED vars
  BY <1>1, <1>5 DEF Crash, PassTime, vars
<1> QED BY <1>2, <1>3, <1>4, <1>5 DEF Next

\* The rows, the snapshots and the sells of every reachable state.
LEMMA RowsInvariant == Spec => [](RowInv /\ SaleInv)
<1>1. Init => RowInv /\ SaleInv
  BY RowInvInit DEF Init, SaleInv
<1>2. RowInv /\ SaleInv /\ [Next]_vars => RowInv' /\ SaleInv'
  <2> SUFFICES ASSUME RowInv, SaleInv, [Next]_vars PROVE RowInv'
    BY SaleStep
  <2>1. ASSUME NEW c \in Calls, Begin(c) \/ Admit(c) \/ CreateRow(c) \/ RecordClose(c)
        PROVE  RowInv'
    BY <2>1, BeginStep, AdmitStep, CreateRowStep, RecordCloseStep
  <2>2. CASE \A c \in Calls : ~ Begin(c) /\ ~ Admit(c) /\ ~ CreateRow(c) /\ ~ RecordClose(c)
    BY <2>2, MostStepsQuiet, QuietStep
  <2> QED BY <2>1, <2>2
<1> QED BY <1>1, <1>2, PTL DEF Spec

\* Two open rows share a token or a slot only if the calls that created them
\* overlapped (RowsCollideOnlyByOverlap): one call after the other, the
\* snapshot alone keeps rows apart.
THEOREM RowsApart == Spec => []RowsCollideOnlyByOverlap
<1>1. RowInv => RowsCollideOnlyByOverlap
  <2> SUFFICES ASSUME RowInv, NEW r \in OpenRows, NEW q \in OpenRows, r # q,
                      mint[r] = mint[q] \/ slot[r] = slot[q]
               PROVE  Overlap(r, q)
    BY DEF RowsCollideOnlyByOverlap
  <2>1. RowsFollowCalls /\ SnapshotsHold /\ MintsDiffer /\ SlotsDiffer
    BY DEF RowInv
  <2>2. ASSUME NEW c \in OpenRows
        PROVE  /\ c \in Calls /\ status[c] = "OPEN" /\ target[c] = c /\ pc[c] # "idle"
               /\ \A d \in seen[c] : mint[d] # mint[c] /\ slot[d] # slot[c]
    BY <2>1, <2>2 DEF OpenRows, RowsFollowCalls, MintsDiffer, SlotsDiffer
  <2>3. r \notin before[q] /\ q \notin before[r]
    BY <2>1, <2>2 DEF SnapshotsHold
  <2> QED BY <2>2, <2>3 DEF Overlap
<1> QED BY <1>1, RowsInvariant, PTL

\* Of any open rows one was created last.
LEMMA NewestExists ==
    ASSUME RowInv, OpenRows # {}
    PROVE  \E q \in OpenRows : \A r \in OpenRows : q \notin before[r] \/ r = q
<1>1. CreatedInOrder /\ RowTypes
  BY DEF RowInv
<1> DEFINE n == Len(created)
           T == {n - i : i \in {k \in 1..n : created[k] \in OpenRows}}
<1>2. n \in Nat /\ \A i \in 1..n : created[i] \in Calls
  BY <1>1 DEF RowTypes
<1>3. \A q \in OpenRows : \E i \in 1..n : created[i] = q
  BY <1>1 DEF CreatedInOrder, OpenRows
<1>4. \A i, j \in 1..n : i < j => created[j] \notin before[created[i]]
  BY <1>1 DEF CreatedInOrder
<1> HIDE DEF n
<1>5. T \subseteq Nat /\ T # {}
  BY <1>2, <1>3
<1>6. \E t \in T : \A u \in T : t <= u
  BY <1>5, LeastExists
<1>7. PICK i \in 1..n : created[i] \in OpenRows /\ \A u \in T : n - i <= u
  BY <1>6
<1>8. ASSUME NEW r \in OpenRows, r # created[i] PROVE created[i] \notin before[r]
  <2>1. PICK j \in 1..n : created[j] = r
    BY <1>3
  <2>2. n - i <= n - j
    BY <1>7, <2>1
  <2>3. j < i
    BY <1>2, <1>8, <2>1, <2>2
  <2> QED BY <1>4, <2>1, <2>3
<1> QED BY <1>7, <1>8

\* There are more open rows than slots only if two of their creators
\* overlapped (SlotsExceededOnlyByOverlap): otherwise the newest saw all the
\* others when it found room.
THEOREM SlotsSuffice == Spec => []SlotsExceededOnlyByOverlap
<1>1. RowInv => SlotsExceededOnlyByOverlap
  <2> SUFFICES ASSUME RowInv, Cardinality(OpenRows) > TotalSlots,
                      \A r, q \in OpenRows : ~ Overlap(r, q)
               PROVE  FALSE
    BY DEF SlotsExceededOnlyByOverlap
  <2>1. RowTypes /\ RowsFollowCalls /\ SnapshotsHold /\ SlotsDiffer
    BY DEF RowInv
  <2>2. OpenRows \subseteq Calls
    BY DEF OpenRows
  <2>3. IsFiniteSet(OpenRows) /\ Cardinality(OpenRows) \in Nat
    BY <2>2, FS_Subset, FS_CardinalityType, CallsAssumption
  <2>4. OpenRows # {}
    BY <2>3, FS_EmptySet, SlotsAssumption
  <2>5. PICK q \in OpenRows : \A r \in OpenRows : q \notin before[r] \/ r = q
    BY <2>4, NewestExists
  <2>6. \A c \in OpenRows : status[c] = "OPEN" /\ target[c] = c /\ pc[c] # "idle"
    BY <2>1, <2>2 DEF OpenRows, RowsFollowCalls
  <2>7. \A r \in OpenRows \ {q} : r \in seen[q]
    <3>1. ASSUME NEW r \in OpenRows, r # q PROVE r \in seen[q]
      <4>1. r \in before[q]
        BY <2>5, <2>6, <3>1 DEF Overlap
      <4> QED BY <2>1, <2>2, <2>6, <4>1 DEF SnapshotsHold
    <3> QED BY <3>1
  <2>8. Cardinality(seen[q]) < TotalSlots
    BY <2>1, <2>2, <2>6 DEF SlotsDiffer
  <2>9. IsFiniteSet(seen[q]) /\ Cardinality(seen[q]) \in Nat
    BY <2>1, <2>2, FS_Subset, FS_CardinalityType, CallsAssumption DEF RowTypes
  <2>10. Cardinality(OpenRows \ {q}) <= Cardinality(seen[q])
    BY <2>7, <2>9, FS_Subset
  <2>11. Cardinality(OpenRows \ {q}) = Cardinality(OpenRows) - 1
    BY <2>3, FS_RemoveElement
  <2> QED BY <2>3, <2>8, <2>9, <2>10, <2>11, SlotsAssumption
<1> QED BY <1>1, RowsInvariant, PTL

\* A CLOSED row stays closed (ClosedStaysClosed): the call of a closed row is
\* past its creation, and a scale-in that comes late finds no open row.
THEOREM RowsStayClosed == Spec => ClosedStaysClosed
<1>1. RowInv /\ [Next]_vars =>
         [\A r \in Calls : status[r] = "CLOSED" => status'[r] = "CLOSED"]_vars
  <2> SUFFICES ASSUME RowInv, [Next]_vars, NEW r \in Calls, status[r] = "CLOSED"
               PROVE  status'[r] = "CLOSED"
    OBVIOUS
  <2>1. RowTypes /\ RowsFollowCalls
    BY DEF RowInv
  <2>2. CASE \A c \in Calls : ~ Begin(c) /\ ~ Admit(c) /\ ~ CreateRow(c) /\ ~ RecordClose(c)
    BY <2>2, MostStepsQuiet DEF Quiet, rowView
  <2>3. ASSUME NEW c \in Calls, Begin(c) \/ Admit(c) PROVE status'[r] = "CLOSED"
    BY <2>3 DEF Begin, Admit, rows
  <2>4. ASSUME NEW c \in Calls, CreateRow(c) PROVE status'[r] = "CLOSED"
    BY <2>1, <2>4 DEF CreateRow, RowTypes, RowsFollowCalls
  <2>5. ASSUME NEW c \in Calls, RecordClose(c) PROVE status'[r] = "CLOSED"
    BY <2>1, <2>5 DEF RecordClose, RowTypes
  <2> QED BY <2>2, <2>3, <2>4, <2>5
<1> QED BY <1>1, RowsInvariant, PTL DEF ClosedStaysClosed, Spec

------------------------------------------------------------------------------
(* What was bought is written or reported *)

Unsent == ProbeStages \union {"idle", "looked", "admitted", "swapping"}

\* What a call knows about its transaction at each stage.
FillInv ==
    /\ pc \in [Calls -> Stages]
    /\ tx \in [Calls -> {"none", "flying", "landed", "failed", "expired"}]
    /\ written \subseteq Calls /\ alerted \subseteq Calls
    /\ \A c \in Calls :
          /\ Fill(c) \in wallet => tx[c] = "landed"
          /\ pc[c] \in Unsent => tx[c] \in {"none", "failed"}
          /\ pc[c] = "auditing" => c \in written
          /\ pc[c] = "done" => tx[c] \in {"none", "failed"} \/ c \in written \union alerted

LEMMA FillStep == FillInv /\ [Next]_vars => FillInv'
<1> SUFFICES ASSUME FillInv, [Next]_vars PROVE FillInv'
  OBVIOUS
<1> USE DEF FillInv, Goto, Unsent, Stages, ProbeStages, Fill, locals, rows, sales, probeState
<1>1. CASE UNCHANGED vars
  BY <1>1 DEF vars
<1>2. CASE Crash
  BY <1>2 DEF Crash, Active, Over
<1>3. CASE \E m \in Mints : PassTime(m)
  BY <1>3 DEF PassTime, Expire
<1>4. ASSUME NEW c \in Calls, Land(c) \/ DoNotLand(c) PROVE FillInv'
  <2>1. CASE Land(c)
    BY <2>1 DEF Land
  <2>2. CASE DoNotLand(c)
    BY <2>2 DEF DoNotLand
  <2> QED BY <1>4, <2>1, <2>2
<1>5. ASSUME NEW r \in Calls, Sale(r) PROVE FillInv'
  BY <1>5 DEF Sale, SellAll, SellHalf, RecordHalf, RecordClose
<1>6. ASSUME NEW c \in Calls, Call(c) PROVE FillInv'
  <2>1. CASE Begin(c) \/ Admit(c) \/ PassGuards(c) \/ Refuse(c) \/ Send(c)
    BY <2>1 DEF Begin, Admit, PassGuards, Refuse, Send
  <2>2. CASE Confirmed(c) \/ Rejected(c) \/ Unconfirmed(c) \/ Reconciled(c)
    BY <2>2 DEF Confirmed, Rejected, Unconfirmed, Reconciled
  <2>3. CASE Unreconciled(c) \/ ScaleInTooLate(c) \/ WriteThrows(c)
    BY <2>3 DEF Unreconciled, ScaleInTooLate, WriteThrows
  <2>4. CASE CreateRow(c) \/ Audit(c) \/ ScaleIn(c)
    BY <2>4 DEF CreateRow, Audit, ScaleIn, Enter
  <2>5. CASE RunProbe(c)
    <3>1. UNCHANGED <<tx, written, alerted>>
      BY <2>5 DEF RunProbe
    <3>2. CASE ReadBlocked(c) \/ ReadCache(c) \/ FindBalance(c) \/ FindNoBalance(c)
      BY <3>1, <3>2 DEF ReadBlocked, ReadCache, FindBalance, FindNoBalance, Conclude
    <3>3. CASE ProbeBuy(c) \/ ProbeBuyFails(c) \/ BalanceMissing(c)
      BY <3>1, <3>3 DEF ProbeBuy, ProbeBuyFails, BalanceMissing, Conclude
    <3>4. CASE ProbeSell(c) \/ ProbeSellFails(c)
      BY <3>1, <3>4 DEF ProbeSell, ProbeSellFails
    <3>5. CASE JudgeSold(c) \/ JudgeUnsold(c) \/ SaveVerdict(c) \/ ProbeThrows(c)
      BY <3>1, <3>5 DEF JudgeSold, JudgeUnsold, SaveVerdict, ProbeThrows, Conclude
    <3> QED BY <2>5, <3>2, <3>3, <3>4, <3>5 DEF RunProbe, Probe
  <2> QED BY <1>6, <2>1, <2>2, <2>3, <2>4, <2>5 DEF Call
<1> QED BY <1>1, <1>2, <1>3, <1>4, <1>5, <1>6 DEF Next

\* A buy that landed is in a row or was reported once its call returned
\* (LandedIsWrittenOrAlerted): a call only returns quietly before its
\* transaction is sent or after it failed on chain.
THEOREM FillsAccounted == Spec => []LandedIsWrittenOrAlerted
<1>1. Init => FillInv
  BY DEF Init, ProbeInit, FillInv, Unsent, Stages
<1>2. FillInv => LandedIsWrittenOrAlerted
  BY DEF FillInv, LandedIsWrittenOrAlerted
<1> QED BY <1>1, <1>2, FillStep, PTL DEF Spec

------------------------------------------------------------------------------
(* What the probe is for *)

BeforeSend == ProbeStages \union {"idle", "looked", "admitted"}

\* A token that was found safe is no trap, wherever the finding is kept.
TrapInv ==
    /\ pc \in [Calls -> Stages]
    /\ mint \in [Calls -> Mints]
    /\ auto \in [Calls -> BOOLEAN]
    /\ size \in [Calls -> Sizes \union {0}]
    /\ tx \in [Calls -> {"none", "flying", "landed", "failed", "expired"}]
    /\ verdict \in [Mints -> Verdicts]
    /\ result \in [Calls -> {"none", "PASSED", "BLOCKED", "INCONCLUSIVE"}]
    /\ \A m \in Mints : verdict[m] = "PASSED" => m \notin trap
    /\ \A c \in Calls :
          /\ pc[c] \in {"idle", "looked", "admitted"} => result[c] = "none"
          /\ pc[c] \in BeforeSend => tx[c] = "none"
          /\ result[c] = "PASSED" => mint[c] \notin trap
          /\ pc[c] = "sold" => mint[c] \notin trap
          /\ auto[c] /\ size[c] >= ProbeMin /\ (pc[c] = "swapping" \/ tx[c] # "none") =>
                mint[c] \notin trap

LEMMA TrapInvInit == Init => TrapInv
<1> SUFFICES ASSUME Init PROVE TrapInv
  OBVIOUS
<1> USE DEF Init, ProbeInit
<1>1. mint \in [Calls -> Mints]
  <2>1. (CHOOSE m \in Mints : TRUE) \in Mints
    BY CallsAssumption
  <2> QED BY <2>1
<1>2. \A c \in Calls : pc[c] = "idle" /\ tx[c] = "none" /\ result[c] = "none"
  OBVIOUS
<1>3. \A m \in Mints : verdict[m] = "none"
  OBVIOUS
<1> QED BY <1>1, <1>2, <1>3 DEF TrapInv, Stages, Verdicts

\* A step of the probe keeps what was found.
LEMMA TrapProbe ==
    ASSUME NEW c \in Calls, TrapInv, RunProbe(c)
    PROVE  TrapInv'
<1> USE DEF TrapInv, Goto, BeforeSend, Stages, ProbeStages, Verdicts
<1>1. UNCHANGED <<auto, size, tx>>
  BY DEF RunProbe, locals
<1>2. CASE ReadBlocked(c) \/ ReadCache(c) \/ FindBalance(c) \/ FindNoBalance(c)
  BY <1>1, <1>2 DEF ReadBlocked, ReadCache, FindBalance, FindNoBalance, Conclude
<1>3. CASE ProbeBuy(c) \/ ProbeBuyFails(c) \/ BalanceMissing(c)
  BY <1>1, <1>3 DEF ProbeBuy, ProbeBuyFails, BalanceMissing, Conclude
<1>4. CASE ProbeSell(c) \/ ProbeSellFails(c)
  BY <1>1, <1>4 DEF ProbeSell, ProbeSellFails
<1>5. CASE JudgeSold(c) \/ JudgeUnsold(c)
  BY <1>1, <1>5 DEF JudgeSold, JudgeUnsold, Conclude
<1>6. CASE SaveVerdict(c) \/ ProbeThrows(c)
  BY <1>1, <1>6 DEF SaveVerdict, ProbeThrows
<1> QED BY <1>2, <1>3, <1>4, <1>5, <1>6 DEF RunProbe, Probe

LEMMA TrapStep == TrapInv /\ [Next]_vars => TrapInv'
<1> SUFFICES ASSUME TrapInv, [Next]_vars PROVE TrapInv'
  OBVIOUS
<1> USE DEF TrapInv, Goto, BeforeSend, Stages, ProbeStages, locals, rows, sales, probeState
<1>1. CASE UNCHANGED vars
  BY <1>1 DEF vars
<1>2. CASE Crash
  BY <1>2 DEF Crash, Active, Over
<1>3. CASE \E m \in Mints : PassTime(m)
  BY <1>3 DEF PassTime, Expire, Verdicts
<1>4. ASSUME NEW c \in Calls, Land(c) \/ DoNotLand(c) PROVE TrapInv'
  BY <1>4 DEF Land, DoNotLand
<1>5. ASSUME NEW r \in Calls, Sale(r) PROVE TrapInv'
  BY <1>5 DEF Sale, SellAll, SellHalf, RecordHalf, RecordClose
<1>6. ASSUME NEW c \in Calls, Call(c) PROVE TrapInv'
  <2>1. CASE Begin(c)
    <3>1. PICK m \in Mints, a \in BOOLEAN :
            mint' = [mint EXCEPT ![c] = m] /\ auto' = [auto EXCEPT ![c] = a]
      BY <2>1 DEF Begin
    <3> QED BY <2>1, <3>1 DEF Begin
  <2>2. CASE PassGuards(c)
    <3>1. PICK s \in Sizes : size' = [size EXCEPT ![c] = s]
      BY <2>2 DEF PassGuards
    <3> QED BY <2>2, <3>1 DEF PassGuards, Probed
  <2>3. CASE Admit(c) \/ Refuse(c) \/ Send(c)
    BY <2>3 DEF Admit, Refuse, Send
  <2>4. CASE Confirmed(c) \/ Rejected(c) \/ Unconfirmed(c) \/ Reconciled(c) \/ Unreconciled(c)
    BY <2>4 DEF Confirmed, Rejected, Unconfirmed, Reconciled, Unreconciled
  <2>5. CASE CreateRow(c) \/ Audit(c) \/ ScaleIn(c) \/ ScaleInTooLate(c) \/ WriteThrows(c)
    BY <2>5 DEF CreateRow, Audit, ScaleIn, ScaleInTooLate, WriteThrows, Enter
  <2> QED BY <1>6, <2>1, <2>2, <2>3, <2>4, <2>5, TrapProbe DEF Call
<1> QED BY <1>1, <1>2, <1>3, <1>4, <1>5, <1>6 DEF Next

\* An automatic buy of at least the probed size is never sent for a token that
\* cannot be sold (TrapNeverBought): a PASSED verdict, of this call or of an
\* earlier one, stands on a sell that went through.
THEOREM TrapsAvoided == Spec => []TrapNeverBought
<1>1. TrapInv => TrapNeverBought
  BY DEF TrapInv, TrapNeverBought
<1> QED BY <1>1, TrapInvInit, TrapStep, PTL DEF Spec

------------------------------------------------------------------------------
(* Who may forget a BLOCKED verdict *)

Deciding == ProbeStages \ {"probing"}

\* A call that decides on a token that is BLOCKED overlapped a probe that found
\* it to be so.
BlockInv ==
    \A c \in Calls :
        pc[c] \in Deciding /\ verdict[mint[c]] = "BLOCKED" =>
            \E d \in Calls : Over(d) /\ Blocker(d, mint[c]) /\ Overlap(c, d)

BlockTypes ==
    /\ pc \in [Calls -> Stages]
    /\ mint \in [Calls -> Mints]
    /\ before \in [Calls -> SUBSET Calls]
    /\ verdict \in [Mints -> Verdicts]
    /\ result \in [Calls -> {"none", "PASSED", "BLOCKED", "INCONCLUSIVE"}]

\* A call that is over does not change.
OverStays ==
    \A d \in Calls : Over(d) =>
        pc'[d] = pc[d] /\ mint'[d] = mint[d] /\ before'[d] = before[d] /\ result'[d] = result[d]

\* A call decides from the moment it found its token not BLOCKED.
DecidersRead ==
    \A c \in Calls : pc'[c] \in Deciding =>
        /\ mint'[c] = mint[c] /\ before'[c] = before[c]
        /\ \/ pc[c] \in Deciding
           \/ pc[c] = "probing" /\ verdict[mint[c]] # "BLOCKED" /\ verdict' = verdict

\* Only the end of a probe makes a token BLOCKED, or makes it not BLOCKED.
SaversWrite ==
    \A m \in Mints : (verdict[m] = "BLOCKED") # (verdict'[m] = "BLOCKED") =>
        \E e \in Calls :
            /\ pc[e] = "saving" /\ pc'[e] # "saving" /\ mint[e] = m
            /\ UNCHANGED <<mint, before, result>>
            /\ \A d \in Calls : pc'[d] = "idle" => pc[d] = "idle"
            /\ verdict'[m] = "BLOCKED" => Over(e)' /\ result[e] = "BLOCKED"

VerdictMoves == OverStays /\ DecidersRead /\ SaversWrite /\ BlockTypes'

LEMMA ProbeVerdict ==
    ASSUME NEW c \in Calls, BlockTypes, RunProbe(c)
    PROVE  VerdictMoves
<1> USE DEF BlockTypes, VerdictMoves, OverStays, DecidersRead, SaversWrite, Deciding,
            Over, Goto, Stages, ProbeStages, Verdicts
<1>1. UNCHANGED before
  BY DEF RunProbe, locals
<1>2. CASE ReadBlocked(c) \/ ReadCache(c)
  BY <1>1, <1>2 DEF ReadBlocked, ReadCache
<1>3. CASE FindBalance(c) \/ FindNoBalance(c)
  BY <1>1, <1>3 DEF FindBalance, FindNoBalance, Conclude
<1>4. CASE ProbeBuy(c) \/ ProbeBuyFails(c) \/ BalanceMissing(c)
  BY <1>1, <1>4 DEF ProbeBuy, ProbeBuyFails, BalanceMissing, Conclude
<1>5. CASE ProbeSell(c) \/ ProbeSellFails(c)
  BY <1>1, <1>5 DEF ProbeSell, ProbeSellFails
<1>6. CASE JudgeSold(c) \/ JudgeUnsold(c)
  BY <1>1, <1>6 DEF JudgeSold, JudgeUnsold, Conclude
<1>7. CASE ProbeThrows(c)
  BY <1>1, <1>7 DEF ProbeThrows
<1>8. CASE SaveVerdict(c)
  <2>1. /\ pc[c] = "saving" /\ UNCHANGED <<mint, before, result>>
        /\ verdict' = [verdict EXCEPT ![mint[c]] = result[c]]
        /\ pc' = [pc EXCEPT ![c] = IF result[c] = "PASSED" THEN "swapping" ELSE "done"]
    BY <1>1, <1>8 DEF SaveVerdict
  <2>2. BlockTypes'
    BY <2>1
  <2>3. OverStays /\ DecidersRead
    BY <2>1
  <2>4. SaversWrite
    BY <2>1
  <2> QED BY <2>2, <2>3, <2>4
<1> QED BY <1>2, <1>3, <1>4, <1>5, <1>6, <1>7, <1>8 DEF RunProbe, Probe

LEMMA VerdictStep == BlockTypes /\ [Next]_vars => VerdictMoves
<1> SUFFICES ASSUME BlockTypes, [Next]_vars PROVE VerdictMoves
  OBVIOUS
<1> USE DEF BlockTypes, VerdictMoves, OverStays, DecidersRead, SaversWrite, Deciding,
            Over, Goto, Stages, ProbeStages, locals, rows, sales, probeState
<1>1. CASE UNCHANGED vars
  BY <1>1 DEF vars
<1>2. CASE Crash
  BY <1>2 DEF Crash, Active
<1>3. CASE \E m \in Mints : PassTime(m)
  BY <1>3 DEF PassTime, Expire, Verdicts
<1>4. ASSUME NEW c \in Calls, Land(c) \/ DoNotLand(c) PROVE VerdictMoves
  BY <1>4 DEF Land, DoNotLand
<1>5. ASSUME NEW r \in Calls, Sale(r) PROVE VerdictMoves
  BY <1>5 DEF Sale, SellAll, SellHalf, RecordHalf, RecordClose
<1>6. ASSUME NEW c \in Calls, Call(c) PROVE VerdictMoves
  <2>1. CASE Begin(c)
    <3>1. PICK m \in Mints : mint' = [mint EXCEPT ![c] = m]
      BY <2>1 DEF Begin
    <3> QED BY <2>1, <3>1 DEF Begin
  <2>2. CASE Admit(c) \/ PassGuards(c) \/ Refuse(c) \/ Send(c)
    BY <2>2 DEF Admit, PassGuards, Refuse, Send
  <2>3. CASE Confirmed(c) \/ Rejected(c) \/ Unconfirmed(c) \/ Reconciled(c) \/ Unreconciled(c)
    BY <2>3 DEF Confirmed, Rejected, Unconfirmed, Reconciled, Unreconciled
  <2>4. CASE CreateRow(c) \/ Audit(c) \/ ScaleIn(c) \/ ScaleInTooLate(c) \/ WriteThrows(c)
    BY <2>4 DEF CreateRow, Audit, ScaleIn, ScaleInTooLate, WriteThrows, Enter
  <2> HIDE DEF BlockTypes, VerdictMoves
  <2> QED BY <1>6, <2>1, <2>2, <2>3, <2>4, ProbeVerdict DEF Call
<1> QED BY <1>1, <1>2, <1>3, <1>4, <1>5, <1>6 DEF Next

LEMMA BlockStep ==
    ASSUME RowInv, BlockTypes, BlockInv, [Next]_vars
    PROVE  BlockInv'
<1>1. OverStays /\ DecidersRead /\ SaversWrite
  BY VerdictStep DEF VerdictMoves
<1>2. \A x \in Calls : \A y \in before[x] : Over(y)
  BY DEF RowInv, SnapshotsHold
<1> SUFFICES ASSUME NEW c \in Calls, pc'[c] \in Deciding, verdict'[mint'[c]] = "BLOCKED"
             PROVE  \E d \in Calls : Over(d)' /\ Blocker(d, mint[c])' /\ Overlap(c, d)'
  BY DEF BlockInv
<1>3. /\ mint'[c] = mint[c] /\ before'[c] = before[c]
      /\ pc[c] \in ProbeStages /\ mint[c] \in Mints
      /\ verdict[mint[c]] = "BLOCKED" => pc[c] \in Deciding
  BY <1>1 DEF DecidersRead, Deciding, ProbeStages, BlockTypes
<1>4. CASE verdict[mint[c]] = "BLOCKED"
  <2>1. PICK d \in Calls : Over(d) /\ Blocker(d, mint[c]) /\ Overlap(c, d)
    BY <1>3, <1>4 DEF BlockInv
  <2>2. /\ pc'[d] = pc[d] /\ mint'[d] = mint[d]
        /\ before'[d] = before[d] /\ result'[d] = result[d]
    BY <1>1, <2>1 DEF OverStays
  <2>3. Over(d)' /\ Blocker(d, mint[c])'
    BY <1>3, <2>1, <2>2 DEF Over, Blocker
  <2>4. Overlap(c, d)'
    BY <1>3, <2>1, <2>2 DEF Overlap, Deciding, ProbeStages
  <2> QED BY <2>3, <2>4
<1>5. CASE verdict[mint[c]] # "BLOCKED"
  <2>1. PICK e \in Calls :
          /\ pc[e] = "saving" /\ pc'[e] # "saving" /\ mint[e] = mint[c]
          /\ UNCHANGED <<mint, before, result>>
          /\ Over(e)' /\ result[e] = "BLOCKED"
    BY <1>1, <1>3, <1>5 DEF SaversWrite
  <2>2. ~ Over(e) /\ ~ Over(c) /\ pc[c] # "idle" /\ pc[e] # "idle"
    BY <1>3, <2>1 DEF Over, ProbeStages
  <2>3. e \notin before[c] /\ c \notin before[e]
    BY <1>2, <2>2
  <2>4. c # e
    BY <2>1 DEF Over, Deciding, ProbeStages
  <2>5. Overlap(c, e)'
    BY <2>1, <2>3, <2>4 DEF Overlap, Over, Deciding, ProbeStages
  <2>6. Blocker(e, mint[c])'
    BY <1>3, <2>1 DEF Blocker
  <2> QED BY <2>1, <2>5, <2>6
<1> QED BY <1>4, <1>5

\* A BLOCKED verdict is only overwritten by a probe that overlapped the one
\* that found it (BlockedForgottenOnlyByOverlap): the first thing a probe does
\* is to read the verdict, and all others stop there.
THEOREM BlockedKept == Spec => BlockedForgottenOnlyByOverlap
<1>1. Init => BlockTypes /\ BlockInv
  <2> SUFFICES ASSUME Init PROVE BlockTypes /\ BlockInv
    OBVIOUS
  <2>1. RowTypes
    BY RowInvInit DEF RowInv
  <2>2. BlockTypes
    BY <2>1 DEF Init, ProbeInit, BlockTypes, RowTypes, Verdicts
  <2>3. BlockInv
    BY DEF Init, BlockInv, Deciding, ProbeStages
  <2> QED BY <2>2, <2>3
<1>2. BlockTypes /\ [Next]_vars => BlockTypes'
  BY VerdictStep DEF VerdictMoves
<1>3. RowInv /\ BlockTypes /\ BlockInv /\ [Next]_vars => BlockInv'
  BY BlockStep
<1> DEFINE Forgotten ==
      \A m \in Mints :
          verdict[m] = "BLOCKED" /\ verdict'[m] # "BLOCKED" =>
              \E c, d \in Calls :
                  /\ pc[c] = "saving" /\ pc'[c] # "saving" /\ mint[c] = m
                  /\ Blocker(d, m) /\ Overlap(c, d)
<1>4. BlockTypes /\ BlockInv /\ [Next]_vars => [Forgotten]_vars
  <2> SUFFICES ASSUME BlockTypes, BlockInv, [Next]_vars,
                      NEW m \in Mints, verdict[m] = "BLOCKED", verdict'[m] # "BLOCKED"
               PROVE  \E c, d \in Calls :
                         /\ pc[c] = "saving" /\ pc'[c] # "saving" /\ mint[c] = m
                         /\ Blocker(d, m) /\ Overlap(c, d)
    OBVIOUS
  <2>1. PICK c \in Calls : pc[c] = "saving" /\ pc'[c] # "saving" /\ mint[c] = m
    BY VerdictStep DEF VerdictMoves, SaversWrite
  <2>2. pc[c] \in Deciding
    BY <2>1 DEF Deciding, ProbeStages
  <2>3. PICK d \in Calls : Blocker(d, m) /\ Overlap(c, d)
    BY <2>1, <2>2 DEF BlockInv
  <2> QED BY <2>1, <2>3
<1> QED BY <1>1, <1>2, <1>3, <1>4, RowsInvariant, PTL DEF Spec, BlockedForgottenOnlyByOverlap

------------------------------------------------------------------------------
(* Where the tokens of a fill went *)

Collided(m) ==
    \E d, e \in Calls : mint[d] = m /\ mint[e] = m /\ Overlap(d, e)

\* The row a call writes is of its token, and exists unless it is its own.
TargetsFit == \A c \in Calls : pc[c] # "idle" =>
    /\ mint[target[c]] = mint[c]
    /\ target[c] = c \/ status[target[c]] # "none"

\* Only a fill that landed is written, and by the last steps of its call.
LandedFirst == \A c \in Calls :
    /\ pc[c] = "filled" => tx[c] = "landed"
    /\ c \in written => /\ tx[c] = "landed"
                        /\ status[target[c]] # "none"
                        /\ pc[c] \in {"auditing", "done", "lost"}

\* Who lost the tokens of a fill that is written, or may still be.
GoneByOverlap == \A c \in Calls :
    /\ c \in written \/ Active(c)
    /\ tx[c] = "landed" /\ Fill(c) \notin wallet
    => \/ Collided(mint[c])
       \/ status[target[c]] = "CLOSED"
       \/ sale[target[c]] = "full"

\* A probe that is about to sell found nothing of the calls before it.
ProbedEmpty == \A c, d \in Calls :
    pc[d] \in {"buying", "bought"} /\ c \in before[d] /\ c \in written /\ mint[c] = mint[d]
        => Fill(c) \notin wallet

GoneInv == TargetsFit /\ LandedFirst /\ GoneByOverlap /\ ProbedEmpty

\* What a call is about never changes once it has begun.
CallsKept == \A c \in Calls : pc[c] # "idle" =>
    /\ pc'[c] # "idle"
    /\ mint'[c] = mint[c] /\ before'[c] = before[c] /\ target'[c] = target[c]

LEMMA CallsKeep == ASSUME RowInv, [Next]_vars PROVE CallsKept
<1>0. RowTypes
  BY DEF RowInv
<1>1. CASE \A c \in Calls : ~ Begin(c) /\ ~ Admit(c) /\ ~ CreateRow(c) /\ ~ RecordClose(c)
  BY <1>1, MostStepsQuiet DEF Quiet, rowView, CallsKept, Before, Late
<1>2. ASSUME NEW c \in Calls, Begin(c) PROVE CallsKept
  <2>1. PICK m, r : mint' = [mint EXCEPT ![c] = m] /\ target' = [target EXCEPT ![c] = r]
    BY <1>2 DEF Begin
  <2> QED BY <1>0, <1>2, <2>1 DEF Begin, CallsKept, RowTypes, Goto
<1>3. ASSUME NEW c \in Calls, Admit(c) \/ CreateRow(c) \/ RecordClose(c) PROVE CallsKept
  BY <1>0, <1>3 DEF Admit, CreateRow, RecordClose, Enter, CallsKept, RowTypes, Goto,
     locals, probeState
<1> QED BY <1>1, <1>2, <1>3

LEMMA CollidedStays ==
    ASSUME CallsKept, NEW m, Collided(m)
    PROVE  Collided(m)'
BY DEF CallsKept, Collided, Overlap

\* A step that loses no fill, writes none and takes no row away.
Calm ==
    /\ UNCHANGED <<mint, before, target, status, written>>
    /\ \A c \in Calls :
          /\ Fill(c) \in wallet <=> Fill(c) \in wallet'
          /\ tx[c] = "landed" <=> tx'[c] = "landed"
          /\ sale[c] = "full" <=> sale'[c] = "full"
          /\ \/ pc'[c] = pc[c]
             \/ /\ Active(c) /\ c \notin written /\ pc'[c] # "idle"
                /\ pc'[c] = "filled" => tx[c] = "landed"
                /\ pc'[c] \in {"buying", "bought"} =>
                      pc[c] \in {"buying", "bought"} \/ ~ Holds(mint[c])
             \/ Active(c) /\ pc'[c] \in {"done", "lost"}

LEMMA CalmStep ==
    ASSUME RowInv, GoneInv, CallsKept, Calm
    PROVE  GoneInv'
<1>0. RowTypes
  BY DEF RowInv
<1>1. UNCHANGED <<mint, before, target, status, written>>
  BY DEF Calm
<1>2. TargetsFit'
  BY <1>1 DEF GoneInv, TargetsFit, Calm, Active
<1>3. LandedFirst'
  BY <1>1 DEF GoneInv, LandedFirst, Calm
<1>4. GoneByOverlap'
  <2> SUFFICES ASSUME NEW c \in Calls, (c \in written \/ Active(c))',
                      tx'[c] = "landed", Fill(c)' \notin wallet'
               PROVE  \/ Collided(mint[c])'
                      \/ status'[target'[c]] = "CLOSED"
                      \/ sale'[target'[c]] = "full"
    BY DEF GoneByOverlap
  <2>1. tx[c] = "landed" /\ Fill(c) \notin wallet /\ target[c] \in Calls
    BY <1>0 DEF Calm, Fill, RowTypes
  <2>2. c \in written \/ Active(c)
    BY <1>1 DEF Calm, Active, Over
  <2>3. Collided(mint[c]) \/ status[target[c]] = "CLOSED" \/ sale[target[c]] = "full"
    BY <2>1, <2>2 DEF GoneInv, GoneByOverlap
  <2>4. Collided(mint[c]) => Collided(mint[c])'
    <3> SUFFICES ASSUME Collided(mint[c]) PROVE Collided(mint[c])'
      OBVIOUS
    <3> DEFINE m == mint[c]
    <3>1. m' = m
      BY <1>1
    <3>2. \E d, e \in Calls : mint[d] = m /\ mint[e] = m /\ Overlap(d, e)
      BY DEF Collided
    <3> QED BY <1>1, <3>2 DEF Collided, Overlap, CallsKept
  <2> QED BY <1>1, <2>1, <2>3, <2>4 DEF Calm
<1>5. ProbedEmpty'
  <2> SUFFICES ASSUME NEW c \in Calls, NEW d \in Calls,
                      pc'[d] \in {"buying", "bought"}, c \in before'[d], c \in written',
                      mint'[c] = mint'[d]
               PROVE  Fill(c)' \notin wallet'
    BY DEF ProbedEmpty
  <2>1. pc[d] \in {"buying", "bought"} \/ ~ Holds(mint[d])
    BY DEF Calm
  <2>2. ~ Holds(mint[d]) => Fill(c) \notin wallet
    BY <1>1 DEF Holds, LotsOf, Fill
  <2> QED BY <1>1, <2>1, <2>2 DEF GoneInv, ProbedEmpty, Calm, Fill
<1> QED BY <1>2, <1>3, <1>4, <1>5 DEF GoneInv

\* Most steps are calm.
LEMMA MostStepsCalm ==
    ASSUME RowInv, SaleInv, FillInv, GoneInv, [Next]_vars,
           \A c \in Calls : /\ ~ Begin(c) /\ ~ CreateRow(c) /\ ~ ScaleIn(c)
                            /\ ~ Land(c) /\ ~ (RunProbe(c) /\ ProbeSell(c))
                            /\ ~ SellAll(c) /\ ~ RecordClose(c)
    PROVE  Calm
<1>0. /\ pc \in [Calls -> Stages]
      /\ tx \in [Calls -> {"none", "flying", "landed", "failed", "expired"}]
      /\ sale \in [Calls -> {"none", "full", "half"}]
  BY DEF FillInv, SaleInv
<1>w. \A c \in Calls : c \in written => pc[c] \in {"auditing", "done", "lost"}
  BY DEF GoneInv, LandedFirst
<1> USE DEF Calm, Active, Over, Fill, Goto, locals, rows, sales, probeState, Stages, ProbeStages
<1>1. CASE UNCHANGED vars
  BY <1>0, <1>1 DEF vars
<1>2. CASE Crash
  BY <1>0, <1>2 DEF Crash
<1>3. CASE \E m \in Mints : PassTime(m)
  BY <1>0, <1>3 DEF PassTime, Expire
<1>4. ASSUME NEW c \in Calls, DoNotLand(c) PROVE Calm
  BY <1>0, <1>4 DEF DoNotLand
<1>5. ASSUME NEW r \in Calls, SellHalf(r) \/ RecordHalf(r) PROVE Calm
  BY <1>0, <1>5 DEF SellHalf, RecordHalf
<1>6. ASSUME NEW c \in Calls, Call(c), ~ Begin(c), ~ CreateRow(c), ~ ScaleIn(c),
             ~ (RunProbe(c) /\ ProbeSell(c))
      PROVE  Calm
  <2>1. CASE Admit(c) \/ PassGuards(c) \/ Refuse(c)
    BY <1>0, <1>w, <2>1 DEF Admit, PassGuards, Refuse
  <2>2. CASE Send(c)
    <3>1. tx[c] # "landed"
      BY <2>2 DEF Send, FillInv, Unsent
    <3> QED BY <1>0, <1>w, <2>2, <3>1 DEF Send
  <2>3. CASE Confirmed(c) \/ Rejected(c) \/ Unconfirmed(c) \/ Reconciled(c)
    BY <1>0, <1>w, <2>3 DEF Confirmed, Rejected, Unconfirmed, Reconciled
  <2>4. CASE Unreconciled(c) \/ Audit(c) \/ ScaleInTooLate(c) \/ WriteThrows(c)
    BY <1>0, <1>w, <2>4 DEF Unreconciled, Audit, ScaleInTooLate, WriteThrows
  <2>5. CASE RunProbe(c)
    <3>1. UNCHANGED <<before, target, status, written, tx, sale>>
      BY <2>5 DEF RunProbe
    <3>2. CASE ReadBlocked(c) \/ ReadCache(c) \/ FindBalance(c) \/ FindNoBalance(c)
      BY <1>0, <1>w, <3>1, <3>2 DEF ReadBlocked, ReadCache, FindBalance, FindNoBalance, Conclude
    <3>3. CASE ProbeBuy(c) \/ ProbeBuyFails(c) \/ BalanceMissing(c) \/ ProbeSellFails(c)
      BY <1>0, <1>w, <3>1, <3>3 DEF ProbeBuy, ProbeBuyFails, BalanceMissing, ProbeSellFails, Conclude
    <3>4. CASE JudgeSold(c) \/ JudgeUnsold(c) \/ SaveVerdict(c) \/ ProbeThrows(c)
      BY <1>0, <1>w, <3>1, <3>4 DEF JudgeSold, JudgeUnsold, SaveVerdict, ProbeThrows, Conclude
    <3> QED BY <1>6, <2>5, <3>2, <3>3, <3>4 DEF RunProbe, Probe
  <2> QED BY <1>6, <2>1, <2>2, <2>3, <2>4, <2>5 DEF Call
<1> QED BY <1>1, <1>2, <1>3, <1>4, <1>5, <1>6 DEF Next, Sale, RunProbe, Probe

\* A fill is sold with all others of its token: by a full exit of its row, or
\* by somebody whose call overlapped.
LEMMA LotsSold ==
    ASSUME RowInv, SaleInv, FillInv, GoneInv, CallsKept,
           NEW m \in Mints,
           UNCHANGED <<mint, before, target, status, written, tx>>,
           wallet' = wallet \ LotsOf(m),
           \A c \in Calls : /\ Active(c)' => Active(c)
                            /\ pc'[c] = "filled" => pc[c] = "filled"
                            /\ pc'[c] \in {"buying", "bought"} => pc[c] \in {"buying", "bought"}
                            /\ c \in written => pc'[c] = pc[c]
                            /\ pc[c] = "idle" => pc'[c] = "idle",
           \A q \in Calls : sale[q] = "full" => sale'[q] = "full",
           \A c \in Calls :
               /\ c \in written \/ Active(c)
               /\ mint[c] = m /\ tx[c] = "landed" /\ Fill(c) \in wallet
               =>  \/ Collided(m) \/ status[target[c]] = "CLOSED"
                   \/ sale'[target[c]] = "full"
    PROVE  GoneInv'
<1>0. RowTypes
  BY DEF RowInv
<1>1. TargetsFit'
  BY DEF GoneInv, TargetsFit
<1>2. LandedFirst'
  BY DEF GoneInv, LandedFirst
<1>3. GoneByOverlap'
  <2> SUFFICES ASSUME NEW c \in Calls, (c \in written \/ Active(c))',
                      tx'[c] = "landed", Fill(c)' \notin wallet'
               PROVE  \/ Collided(mint[c])'
                      \/ status'[target'[c]] = "CLOSED"
                      \/ sale'[target'[c]] = "full"
    BY DEF GoneByOverlap
  <2>1. (c \in written \/ Active(c)) /\ tx[c] = "landed" /\ target[c] \in Calls
    BY <1>0 DEF RowTypes
  <2>2. Fill(c) \in wallet => mint[c] = m
    BY DEF Fill, LotsOf
  <2>3. Collided(mint[c]) \/ status[target[c]] = "CLOSED" \/ sale'[target[c]] = "full"
    BY <2>1, <2>2 DEF GoneInv, GoneByOverlap
  <2>4. Collided(mint[c]) => Collided(mint[c])'
    BY DEF Collided, Overlap, CallsKept
  <2> QED BY <2>3, <2>4
<1>4. ProbedEmpty'
  BY DEF GoneInv, ProbedEmpty, Fill
<1> QED BY <1>1, <1>2, <1>3, <1>4 DEF GoneInv

\* Two open rows of one token, or one and a call that is about to make a row
\* for the token: their calls overlapped.
LEMMA RowsCollide ==
    ASSUME RowInv, GoneInv, NEW r \in Calls, status[r] = "OPEN",
           NEW c \in Calls, c \in written \/ Active(c), tx[c] = "landed",
           mint[c] = mint[r], target[c] # r, status[target[c]] # "CLOSED"
    PROVE  Collided(mint[r])
<1> DEFINE q == target[c]
<1>1. /\ RowTypes /\ RowsFollowCalls /\ SnapshotsHold /\ MintsDiffer
      /\ q \in Calls /\ pc[c] # "idle"
  BY DEF RowInv, RowTypes, Active, GoneInv, LandedFirst
<1>2. mint[q] = mint[r] /\ (q = c \/ status[q] # "none")
  BY <1>1 DEF GoneInv, TargetsFit
<1>3. ASSUME NEW x \in Calls, NEW y \in Calls, x # y, status[x] = "OPEN",
             target[y] = y, mint[x] = mint[y]
      PROVE  x \notin before[y]
  BY <1>1, <1>3 DEF SnapshotsHold, MintsDiffer
<1>4. target[r] = r /\ pc[r] # "idle"
  BY <1>1 DEF RowsFollowCalls
<1>5. CASE status[q] = "OPEN"
  <2>1. target[q] = q /\ pc[q] # "idle"
    BY <1>1, <1>5 DEF RowsFollowCalls
  <2>2. q \notin before[r] /\ r \notin before[q]
    BY <1>1, <1>2, <1>3, <1>4, <1>5, <2>1
  <2> QED BY <1>1, <1>2, <1>4, <2>1, <2>2 DEF Collided, Overlap
<1>6. CASE status[q] = "none"
  <2>1. q = c /\ c \notin written /\ Active(c)
    BY <1>1, <1>2, <1>6 DEF GoneInv, LandedFirst
  <2>2. c \notin before[r]
    BY <1>1, <2>1 DEF SnapshotsHold, Active
  <2>3. r \notin before[c]
    BY <1>1, <1>3, <2>1
  <2> QED BY <1>1, <1>4, <2>1, <2>2, <2>3 DEF Collided, Overlap
<1> QED BY <1>1, <1>5, <1>6 DEF RowTypes

\* A full exit.
LEMMA SellAllGone ==
    ASSUME RowInv, SaleInv, FillInv, GoneInv, CallsKept, NEW r \in Calls, SellAll(r)
    PROVE  GoneInv'
<1> USE DEF SellAll, locals, rows, probeState
<1>0. RowTypes /\ sale \in [Calls -> {"none", "full", "half"}]
  BY DEF RowInv, SaleInv
<1>1. mint[r] \in Mints
  BY <1>0 DEF RowTypes
<1>2. UNCHANGED <<pc, mint, before, target, status, written, tx>>
  OBVIOUS
<1>3. sale'[r] = "full" /\ \A q \in Calls : sale[q] = "full" => sale'[q] = "full"
  BY <1>0
<1>4. ASSUME NEW c \in Calls, c \in written \/ Active(c), mint[c] = mint[r],
             tx[c] = "landed"
      PROVE  \/ Collided(mint[r]) \/ status[target[c]] = "CLOSED"
             \/ sale'[target[c]] = "full"
  BY <1>3, <1>4, RowsCollide
<1> QED BY <1>1, <1>2, <1>3, <1>4, LotsSold DEF Active, Over

\* The sell of a probe.
LEMMA ProbeSellGone ==
    ASSUME RowInv, SaleInv, FillInv, GoneInv, CallsKept,
           NEW d \in Calls, RunProbe(d), ProbeSell(d)
    PROVE  GoneInv'
<1>0. RowTypes /\ SnapshotsHold
  BY DEF RowInv
<1>1. mint[d] \in Mints
  BY <1>0 DEF RowTypes
<1>2. /\ UNCHANGED <<mint, before, target, status, written, tx, sale>>
      /\ pc[d] = "bought" /\ wallet' = wallet \ LotsOf(mint[d])
      /\ \E x \in {"sold", "unsold"} : pc' = [pc EXCEPT ![d] = x]
  BY DEF RunProbe, ProbeSell, locals, rows, sales, Goto
<1>3. d \notin written
  BY <1>2 DEF GoneInv, LandedFirst
<1>4. tx[d] # "landed"
  BY <1>2 DEF FillInv, Unsent, ProbeStages
<1>5. ASSUME NEW c \in Calls, c \in written \/ Active(c), mint[c] = mint[d],
             tx[c] = "landed", Fill(c) \in wallet
      PROVE  Collided(mint[d])
  <2>1. c # d /\ pc[c] # "idle" /\ pc[d] # "idle"
    BY <1>2, <1>4, <1>5 DEF Active, GoneInv, LandedFirst
  <2>2. d \notin before[c]
    BY <1>0, <1>2 DEF SnapshotsHold, Over
  <2>3. c \notin before[d]
    <3>1. CASE c \in written
      BY <1>2, <1>5, <3>1 DEF GoneInv, ProbedEmpty
    <3>2. CASE Active(c)
      BY <1>0, <3>2 DEF SnapshotsHold, Active
    <3> QED BY <1>5, <3>1, <3>2
  <2> QED BY <1>5, <2>1, <2>2, <2>3 DEF Collided, Overlap
<1>6. \A c \in Calls : /\ Active(c)' => Active(c)
                       /\ pc'[c] = "filled" => pc[c] = "filled"
                       /\ pc'[c] \in {"buying", "bought"} => pc[c] \in {"buying", "bought"}
                       /\ c \in written => pc'[c] = pc[c]
                       /\ pc[c] = "idle" => pc'[c] = "idle"
  BY <1>0, <1>2, <1>3 DEF RowTypes, Active, Over
<1> QED BY <1>1, <1>2, <1>5, <1>6, LotsSold

\* The row of a call is written.
LEMMA WriteGone ==
    ASSUME RowInv, SaleInv, FillInv, GoneInv, CallsKept, NEW c \in Calls,
           CreateRow(c) \/ ScaleIn(c)
    PROVE  GoneInv'
<1>0. RowTypes /\ RowsFollowCalls /\ SnapshotsHold
  BY DEF RowInv
<1>1. /\ pc[c] = "filled" /\ written' = written \union {c}
      /\ UNCHANGED <<mint, before, target, tx, sale, wallet>>
      /\ \E x \in {"auditing", "done"} : pc' = [pc EXCEPT ![c] = x]
      /\ \/ target[c] = c /\ status' = [status EXCEPT ![c] = "OPEN"]
         \/ status[target[c]] = "OPEN" /\ status' = status
  BY DEF CreateRow, ScaleIn, Enter, Goto, IsNew, sales, probeState
<1>2. status[c] = "none" /\ tx[c] = "landed" /\ c \notin written /\ target[c] \in Calls
  BY <1>0, <1>1 DEF RowsFollowCalls, GoneInv, LandedFirst, RowTypes
<1>3. \A q \in Calls : /\ status[q] # "none" => status'[q] = status[q]
                       /\ status'[q] = "none" => status[q] = "none"
  BY <1>0, <1>1, <1>2 DEF RowTypes
<1>4. status'[target[c]] = "OPEN"
  BY <1>0, <1>1 DEF RowTypes
<1>5. TargetsFit'
  BY <1>0, <1>1, <1>3 DEF GoneInv, TargetsFit, RowTypes
<1>6. LandedFirst'
  BY <1>0, <1>1, <1>2, <1>3, <1>4 DEF GoneInv, LandedFirst, RowTypes
<1>7. GoneByOverlap'
  <2> SUFFICES ASSUME NEW d \in Calls, (d \in written \/ Active(d))',
                      tx'[d] = "landed", Fill(d)' \notin wallet'
               PROVE  \/ Collided(mint[d])'
                      \/ status'[target'[d]] = "CLOSED"
                      \/ sale'[target'[d]] = "full"
    BY DEF GoneByOverlap
  <2>1. d \in written \/ Active(d)
    BY <1>0, <1>1 DEF Active, Over, RowTypes
  <2>2. tx[d] = "landed" /\ Fill(d) \notin wallet /\ target[d] \in Calls
    BY <1>0, <1>1 DEF Fill, RowTypes
  <2>3. Collided(mint[d]) \/ status[target[d]] = "CLOSED" \/ sale[target[d]] = "full"
    BY <2>1, <2>2 DEF GoneInv, GoneByOverlap
  <2>4. Collided(mint[d]) => Collided(mint[d])'
    BY <1>1 DEF Collided, Overlap, CallsKept
  <2> QED BY <1>1, <1>3, <2>2, <2>3, <2>4
<1>8. ProbedEmpty'
  <2>1. \A d \in Calls : c \notin before[d]
    BY <1>0, <1>1 DEF SnapshotsHold, Over
  <2> QED BY <1>0, <1>1, <2>1 DEF GoneInv, ProbedEmpty, Fill, RowTypes
<1> QED BY <1>5, <1>6, <1>7, <1>8 DEF GoneInv

\* A row closes after its exit.
LEMMA CloseGone ==
    ASSUME RowInv, SaleInv, GoneInv, CallsKept, NEW r \in Calls, RecordClose(r)
    PROVE  GoneInv'
<1>0. RowTypes /\ sale \in [Calls -> {"none", "full", "half"}] /\ status[r] = "OPEN"
  BY DEF RowInv, SaleInv, RecordClose
<1>1. /\ UNCHANGED <<pc, mint, before, target, tx, wallet, written>>
      /\ status' = [status EXCEPT ![r] = "CLOSED"]
      /\ sale' = [sale EXCEPT ![r] = "none"]
  BY DEF RecordClose, locals, probeState
<1>2. \A q \in Calls : /\ status'[q] = "none" <=> status[q] = "none"
                       /\ status[q] = "CLOSED" => status'[q] = "CLOSED"
                       /\ sale[q] = "full" => sale'[q] = "full" \/ status'[q] = "CLOSED"
  BY <1>0, <1>1 DEF RowTypes
<1>3. \A c \in Calls : target[c] \in Calls
  BY <1>0 DEF RowTypes
<1>4. TargetsFit' /\ LandedFirst'
  BY <1>1, <1>2, <1>3 DEF GoneInv, TargetsFit, LandedFirst
<1>5. GoneByOverlap'
  <2> SUFFICES ASSUME NEW d \in Calls, (d \in written \/ Active(d))',
                      tx'[d] = "landed", Fill(d)' \notin wallet'
               PROVE  \/ Collided(mint[d])'
                      \/ status'[target'[d]] = "CLOSED"
                      \/ sale'[target'[d]] = "full"
    BY DEF GoneByOverlap
  <2>1. Collided(mint[d]) \/ status[target[d]] = "CLOSED" \/ sale[target[d]] = "full"
    BY <1>1 DEF GoneInv, GoneByOverlap, Active, Over, Fill
  <2>2. Collided(mint[d]) => Collided(mint[d])'
    BY <1>1 DEF Collided, Overlap
  <2> QED BY <1>1, <1>2, <1>3, <2>1, <2>2
<1>6. ProbedEmpty'
  BY <1>1 DEF GoneInv, ProbedEmpty, Fill
<1> QED BY <1>4, <1>5, <1>6 DEF GoneInv

\* A buy lands.
LEMMA LandGone ==
    ASSUME RowInv, GoneInv, CallsKept, NEW c \in Calls, Land(c)
    PROVE  GoneInv'
<1>1. /\ UNCHANGED <<pc, mint, before, target, status, sale, written>>
      /\ tx[c] = "flying" /\ tx' = [tx EXCEPT ![c] = "landed"]
      /\ wallet' = wallet \union {Fill(c)}
  BY DEF Land, rows, sales
<1>2. c \notin written
  BY <1>1 DEF GoneInv, LandedFirst
<1>3. \A d \in Calls : tx[d] = "landed" => tx'[d] = "landed"
  BY <1>1
<1>4. \A d \in Calls : d # c => tx'[d] = tx[d]
  BY <1>1
<1>5. TargetsFit' /\ LandedFirst'
  BY <1>1, <1>3 DEF GoneInv, TargetsFit, LandedFirst
<1>6. GoneByOverlap'
  <2> SUFFICES ASSUME NEW d \in Calls, (d \in written \/ Active(d))',
                      tx'[d] = "landed", Fill(d)' \notin wallet'
               PROVE  \/ Collided(mint[d])'
                      \/ status'[target'[d]] = "CLOSED"
                      \/ sale'[target'[d]] = "full"
    BY DEF GoneByOverlap
  <2>1. d # c /\ Fill(d) \notin wallet
    BY <1>1 DEF Fill
  <2>2. Collided(mint[d]) \/ status[target[d]] = "CLOSED" \/ sale[target[d]] = "full"
    BY <1>1, <1>4, <2>1 DEF GoneInv, GoneByOverlap, Active, Over
  <2>3. Collided(mint[d]) => Collided(mint[d])'
    BY <1>1 DEF Collided, Overlap
  <2> QED BY <1>1, <2>2, <2>3
<1>7. ProbedEmpty'
  BY <1>1, <1>2 DEF GoneInv, ProbedEmpty, Fill
<1> QED BY <1>5, <1>6, <1>7 DEF GoneInv

\* A call begins.
LEMMA BeginGone ==
    ASSUME RowInv, FillInv, GoneInv, CallsKept, NEW c \in Calls, Begin(c)
    PROVE  GoneInv'
<1>0. RowTypes /\ RowsFollowCalls /\ SnapshotsHold
  BY DEF RowInv
<1>1. PICK m \in Mints, r \in Calls :
        /\ mint' = [mint EXCEPT ![c] = m] /\ target' = [target EXCEPT ![c] = r]
        /\ r = c \/ (status[r] = "OPEN" /\ mint[r] = m)
  BY DEF Begin, OpenRows
<1>2. /\ pc[c] = "idle" /\ pc' = [pc EXCEPT ![c] = "looked"]
      /\ before' = [before EXCEPT ![c] = {d \in Calls : Over(d)}]
      /\ UNCHANGED <<status, sale, wallet, tx, written>>
  BY DEF Begin, Goto, rows, sales
<1>3. tx[c] # "landed" /\ c \notin written
  BY <1>2 DEF FillInv, Unsent, GoneInv, LandedFirst
<1>4. status[c] = "none"
  BY <1>0, <1>2 DEF RowsFollowCalls
<1>5. \A d \in Calls \ {c} :
        pc'[d] = pc[d] /\ mint'[d] = mint[d] /\ target'[d] = target[d] /\ before'[d] = before[d]
  BY <1>0, <1>1, <1>2 DEF RowTypes
<1>6. pc'[c] = "looked" /\ mint'[c] = m /\ target'[c] = r
  BY <1>0, <1>1, <1>2 DEF RowTypes
<1>7. \A d \in Calls : target[d] \in Calls
  BY <1>0 DEF RowTypes
<1>8. TargetsFit'
  <2> SUFFICES ASSUME NEW d \in Calls, pc'[d] # "idle"
               PROVE  /\ mint'[target'[d]] = mint'[d]
                      /\ target'[d] = d \/ status'[target'[d]] # "none"
    BY DEF TargetsFit
  <2>1. CASE d = c
    BY <1>1, <1>2, <1>4, <1>5, <1>6, <2>1
  <2>2. CASE d # c
    <3>1. mint[target[d]] = mint[d] /\ (target[d] = d \/ status[target[d]] # "none")
      BY <1>5, <2>2 DEF GoneInv, TargetsFit
    <3>2. target[d] # c
      BY <1>4, <2>2, <3>1
    <3> QED BY <1>2, <1>5, <1>7, <2>2, <3>1, <3>2
  <2> QED BY <2>1, <2>2
<1>9. LandedFirst'
  BY <1>2, <1>3, <1>5, <1>6 DEF GoneInv, LandedFirst
<1>10. GoneByOverlap'
  <2> SUFFICES ASSUME NEW d \in Calls, (d \in written \/ Active(d))',
                      tx'[d] = "landed", Fill(d)' \notin wallet'
               PROVE  \/ Collided(mint[d])'
                      \/ status'[target'[d]] = "CLOSED"
                      \/ sale'[target'[d]] = "full"
    BY DEF GoneByOverlap
  <2>1. d # c
    BY <1>2, <1>3
  <2>2. Collided(mint[d]) \/ status[target[d]] = "CLOSED" \/ sale[target[d]] = "full"
    BY <1>2, <1>5, <2>1 DEF GoneInv, GoneByOverlap, Active, Over, Fill
  <2>3. Collided(mint[d]) => Collided(mint[d])'
    <3> SUFFICES ASSUME Collided(mint[d]) PROVE Collided(mint[d])'
      OBVIOUS
    <3>1. PICK x, y \in Calls : mint[x] = mint[d] /\ mint[y] = mint[d] /\ Overlap(x, y)
      BY DEF Collided
    <3>2. x # c /\ y # c
      BY <1>2, <3>1 DEF Overlap
    <3> QED BY <1>5, <2>1, <3>1, <3>2 DEF Collided, Overlap
  <2> QED BY <1>2, <1>5, <2>1, <2>2, <2>3
<1>11. ProbedEmpty'
  <2>1. \A d \in Calls : c \notin before[d]
    BY <1>0, <1>2 DEF SnapshotsHold, Over
  <2> QED BY <1>2, <1>3, <1>5, <1>6 DEF GoneInv, ProbedEmpty, Fill
<1> QED BY <1>8, <1>9, <1>10, <1>11 DEF GoneInv

\* All that is known of the calls, their rows and their fills.
CallsInv == RowInv /\ SaleInv /\ FillInv /\ TrapInv /\ GoneInv

LEMMA CallsInvariant == Spec => []CallsInv
<1> DEFINE Known == RowInv /\ SaleInv /\ FillInv
<1>1. Init => FillInv /\ GoneInv
  BY DEF Init, ProbeInit, FillInv, Unsent, Stages, GoneInv, TargetsFit, LandedFirst,
     GoneByOverlap, ProbedEmpty, Active, Over
<1>2. Known /\ GoneInv /\ [Next]_vars => GoneInv'
  <2> SUFFICES ASSUME Known, GoneInv, [Next]_vars PROVE GoneInv'
    OBVIOUS
  <2>1. CallsKept
    BY CallsKeep
  <2>2. ASSUME NEW c \in Calls, Begin(c) \/ CreateRow(c) \/ ScaleIn(c) \/ Land(c)
        PROVE  GoneInv'
    BY <2>1, <2>2, BeginGone, WriteGone, LandGone
  <2>3. ASSUME NEW c \in Calls, SellAll(c) \/ RecordClose(c)
        PROVE  GoneInv'
    BY <2>1, <2>3, SellAllGone, CloseGone
  <2>4. ASSUME NEW c \in Calls, RunProbe(c), ProbeSell(c) PROVE GoneInv'
    BY <2>1, <2>4, ProbeSellGone
  <2>5. CASE \A c \in Calls : /\ ~ Begin(c) /\ ~ CreateRow(c) /\ ~ ScaleIn(c)
                              /\ ~ Land(c) /\ ~ (RunProbe(c) /\ ProbeSell(c))
                              /\ ~ SellAll(c) /\ ~ RecordClose(c)
    BY <2>1, <2>5, MostStepsCalm, CalmStep
  <2> QED BY <2>2, <2>3, <2>4, <2>5
<1> QED BY <1>1, <1>2, RowsInvariant, FillStep, TrapInvInit, TrapStep, PTL DEF Spec, CallsInv

\* The tokens of an open row are in the wallet, unless calls for its token
\* overlapped (TokensGoneOnlyByOverlap): a full exit takes the tokens of its
\* own row, and a probe that overlaps nobody has looked at the balance since
\* every earlier fill arrived.
THEOREM TokensKept == Spec => []TokensGoneOnlyByOverlap
<1>1. CallsInv => TokensGoneOnlyByOverlap
  <2> SUFFICES ASSUME CallsInv, NEW r \in OpenRows, NEW c \in FillsOf(r),
                      sale[r] # "full", Fill(c) \notin wallet
               PROVE  \E d, e \in Calls :
                         mint[d] = mint[r] /\ mint[e] = mint[r] /\ Overlap(d, e)
    BY DEF TokensGoneOnlyByOverlap
  <2>1. c \in Calls /\ c \in written /\ target[c] = r /\ status[r] = "OPEN"
    BY DEF CallsInv, FillsOf, OpenRows, FillInv
  <2>2. Collided(mint[c]) /\ mint[r] = mint[c]
    BY <2>1 DEF CallsInv, GoneInv, GoneByOverlap, LandedFirst, TargetsFit
  <2> QED BY <2>2 DEF Collided
<1> QED BY <1>1, CallsInvariant, PTL

------------------------------------------------------------------------------
(* Types *)

amountVars == <<exposure, size, share, amount, value, parts, balance>>

AmountTypes ==
    /\ exposure \in [Calls -> Nat]
    /\ size \in [Calls -> Sizes \union {0}]
    /\ share \in [Calls -> Nat]
    /\ amount \in [Calls -> Nat]
    /\ value \in [Calls -> Nat]
    /\ parts \in [Calls -> 0..MaxParts]
    /\ balance \in Nat

LEMMA SizesAreNat ==
    ASSUME AmountTypes, NEW c \in Calls
    PROVE  size[c] \in Nat
<1>1. size[c] \in Sizes \union {0}
  BY DEF AmountTypes
<1>2. \A s \in Sizes : s \in Nat
  BY AmountsAssumption
<1> QED BY <1>1, <1>2

\* Rows are finitely many, and so are the fills of one.
LEMMA RowsFinite == IsFiniteSet(OpenRows) /\ OpenRows \subseteq Calls
<1>1. OpenRows \subseteq Calls
  BY DEF OpenRows
<1> QED BY <1>1, CallsAssumption, FS_Subset

LEMMA ExposureType ==
    ASSUME AmountTypes
    PROVE  SumFunctionOnSet([r \in Calls |-> WorthOf(r)], OpenRows) \in Nat
<1> DEFINE worth == [r \in Calls |-> WorthOf(r)]
<1>1. \A r \in OpenRows : worth[r] \in Nat
  BY RowsFinite, AmountsAssumption DEF WorthOf, AmountTypes
<1> HIDE DEF worth
<1>2. SumFunctionOnSet(worth, OpenRows) \in Nat
  BY <1>1, RowsFinite, SumNat
<1> QED BY <1>2 DEF worth

LEMMA HalfType == \A n \in Nat : n \div 2 \in Nat /\ n \div 2 <= n
OBVIOUS

\* Few steps change an amount.
LEMMA AmountsMove ==
    ASSUME [Next]_vars, ~ UNCHANGED amountVars
    PROVE  \E c \in Calls :
              \/ Begin(c) \/ PassGuards(c) \/ CreateRow(c) \/ Audit(c) \/ ScaleIn(c)
              \/ Land(c) \/ SellAll(c) \/ SellHalf(c) \/ RecordHalf(c)
<1> USE DEF amountVars, locals, rows, sales
<1>1. CASE UNCHANGED vars
  BY <1>1 DEF vars
<1>2. CASE Crash \/ \E m \in Mints : PassTime(m)
  BY <1>2 DEF Crash, PassTime
<1>3. ASSUME NEW c \in Calls, DoNotLand(c) \/ RecordClose(c) PROVE FALSE
  BY <1>3 DEF DoNotLand, RecordClose
<1>4. ASSUME NEW c \in Calls, Call(c), ~ Begin(c), ~ PassGuards(c), ~ CreateRow(c), ~ Audit(c), ~ ScaleIn(c)
      PROVE  FALSE
  <2>1. CASE Admit(c) \/ Refuse(c) \/ RunProbe(c) \/ Send(c) \/ Confirmed(c) \/ Rejected(c)
    BY <2>1 DEF Admit, Refuse, RunProbe, Send, Confirmed, Rejected
  <2>2. CASE Unconfirmed(c) \/ Reconciled(c) \/ Unreconciled(c) \/ ScaleInTooLate(c) \/ WriteThrows(c)
    BY <2>2 DEF Unconfirmed, Reconciled, Unreconciled, ScaleInTooLate, WriteThrows
  <2> QED BY <1>4, <2>1, <2>2 DEF Call
<1> QED BY <1>1, <1>2, <1>3, <1>4 DEF Next, Sale

LEMMA AmountStep ==
    ASSUME RowInv, AmountTypes, [Next]_vars
    PROVE  AmountTypes'
<1> USE DEF AmountTypes
<1>0. target \in [Calls -> Calls] /\ Sizes \subseteq Nat
  BY AmountsAssumption DEF RowInv, RowTypes
<1>1. CASE UNCHANGED amountVars
  BY <1>1 DEF amountVars
<1>2. ASSUME NEW c \in Calls, Begin(c) PROVE AmountTypes'
  BY <1>2, ExposureType DEF Begin, rows, sales
<1>3. ASSUME NEW c \in Calls, PassGuards(c) PROVE AmountTypes'
  BY <1>3 DEF PassGuards, rows, sales
<1>4. ASSUME NEW c \in Calls, CreateRow(c) PROVE AmountTypes'
  <2>1. size[c] \in Nat
    BY SizesAreNat
  <2> QED BY <1>4, <2>1 DEF CreateRow, Enter, sales
<1>5. ASSUME NEW c \in Calls, Audit(c) PROVE AmountTypes'
  <2>1. size[c] \in Nat
    BY SizesAreNat
  <2> QED BY <1>5, <2>1 DEF Audit, locals, sales
<1>6. ASSUME NEW c \in Calls, ScaleIn(c) PROVE AmountTypes'
  <2>1. size[c] \in Nat /\ target[c] \in Calls
    BY <1>0, SizesAreNat
  <2>2. ScaledValue(c) \in Nat /\ amount[target[c]] + size[c] \in Nat
    BY <2>1 DEF ScaledValue
  <2> QED BY <1>6, <2>1, <2>2 DEF ScaleIn, Enter, sales
<1>7. ASSUME NEW c \in Calls, Land(c) PROVE AmountTypes'
  <2>1. size[c] \in Nat
    BY SizesAreNat
  <2>2. balance - size[c] \in Nat
    BY <1>7, <2>1 DEF Land
  <2> QED BY <1>7, <2>2 DEF Land, rows, sales
<1>8. ASSUME NEW r \in Calls, SellAll(r) PROVE AmountTypes'
  <2>1. balance' \in Nat
    BY <1>8, AmountsAssumption DEF SellAll
  <2> QED BY <1>8, <2>1 DEF SellAll, locals, rows
<1>9. ASSUME NEW r \in Calls, SellHalf(r) PROVE AmountTypes'
  <2>1. balance' \in Nat
    <3>1. balance' \in {balance + p : p \in Proceeds}
      BY <1>9 DEF SellHalf
    <3>2. \A p \in Proceeds : balance + p \in Nat
      BY AmountsAssumption
    <3> QED BY <3>1, <3>2
  <2>2. parts[r] + 1 \in 0..MaxParts
    <3>1. parts[r] \in 0..MaxParts /\ parts[r] < MaxParts /\ MaxParts \in Nat
      BY <1>9, AmountsAssumption DEF SellHalf
    <3> QED BY <3>1
  <2> QED BY <1>9, <2>1, <2>2 DEF SellHalf, locals, rows
<1>10. ASSUME NEW r \in Calls, RecordHalf(r) PROVE AmountTypes'
  <2>1. amount' \in [Calls -> Nat] /\ value' \in [Calls -> Nat]
    BY <1>10, HalfType DEF RecordHalf
  <2>2. share' \in [Calls -> Nat]
    BY <1>10, HalfType DEF RecordHalf
  <2> QED BY <1>10, <2>1, <2>2 DEF RecordHalf
<1> QED BY <1>1, <1>2, <1>3, <1>4, <1>5, <1>6, <1>7, <1>8, <1>9, <1>10, AmountsMove

\* The wallet holds lots of calls.
LEMMA WalletStep ==
    ASSUME wallet \subseteq Lots, trap \subseteq Mints, [Next]_vars
    PROVE  wallet' \subseteq Lots /\ trap' \subseteq Mints
<1> USE DEF Lots, locals, rows, sales, probeState
<1>1. CASE UNCHANGED vars \/ Crash \/ \E m \in Mints : PassTime(m)
  BY <1>1 DEF vars, Crash, PassTime, Expire
<1>2. ASSUME NEW c \in Calls, Land(c) \/ DoNotLand(c) PROVE wallet' \subseteq Lots /\ trap' \subseteq Mints
  BY <1>2 DEF Land, DoNotLand, Fill
<1>3. ASSUME NEW c \in Calls, Sale(c) PROVE wallet' \subseteq Lots /\ trap' \subseteq Mints
  BY <1>3 DEF Sale, SellAll, SellHalf, RecordHalf, RecordClose
<1>4. ASSUME NEW c \in Calls, Call(c) PROVE wallet' \subseteq Lots /\ trap' \subseteq Mints
  <2>1. CASE Begin(c) \/ Admit(c) \/ PassGuards(c) \/ Refuse(c) \/ Send(c) \/ Confirmed(c) \/ Rejected(c)
    BY <2>1 DEF Begin, Admit, PassGuards, Refuse, Send, Confirmed, Rejected
  <2>2. CASE \/ Unconfirmed(c) \/ Reconciled(c) \/ Unreconciled(c) \/ CreateRow(c) \/ Audit(c)
             \/ ScaleIn(c) \/ ScaleInTooLate(c) \/ WriteThrows(c)
    BY <2>2 DEF Unconfirmed, Reconciled, Unreconciled, CreateRow, Audit, ScaleIn, ScaleInTooLate, WriteThrows
  <2>3. CASE RunProbe(c)
    <3>1. CASE ProbeBuy(c) \/ ProbeSell(c)
      BY <3>1 DEF ProbeBuy, ProbeSell
    <3>2. CASE ReadBlocked(c) \/ ReadCache(c) \/ FindBalance(c) \/ FindNoBalance(c) \/ ProbeBuyFails(c)
      BY <3>2 DEF ReadBlocked, ReadCache, FindBalance, FindNoBalance, ProbeBuyFails
    <3>3. CASE \/ BalanceMissing(c) \/ ProbeSellFails(c) \/ JudgeSold(c) \/ JudgeUnsold(c)
               \/ SaveVerdict(c) \/ ProbeThrows(c)
      BY <3>3 DEF BalanceMissing, ProbeSellFails, JudgeSold, JudgeUnsold, SaveVerdict, ProbeThrows
    <3> QED BY <2>3, <3>1, <3>2, <3>3 DEF RunProbe, Probe
  <2> QED BY <1>4, <2>1, <2>2, <2>3 DEF Call
<1> QED BY <1>1, <1>2, <1>3, <1>4 DEF Next

\* Every variable keeps its type (TypeOK): a wallet in particular is never
\* overdrawn, and a row never has less than nothing.
THEOREM BuyTypeCorrect == Spec => []TypeOK
<1> DEFINE Types == AmountTypes /\ wallet \subseteq Lots /\ trap \subseteq Mints
<1>1. Init => Types
  BY AmountsAssumption DEF Init, ProbeInit, AmountTypes
<1>2. CallsInv /\ Types /\ [Next]_vars => Types'
  BY AmountStep, WalletStep DEF CallsInv
<1>3. CallsInv /\ Types => TypeOK
  BY DEF CallsInv, RowInv, RowTypes, SaleInv, FillInv, TrapInv, AmountTypes, TypeOK, ProbeTypeOK
<1> QED BY <1>1, <1>2, <1>3, CallsInvariant, PTL DEF Spec

------------------------------------------------------------------------------
(* The principal of a row *)

\* H[k] are amounts that can be halved k times without a rest.
Halves(H) ==
    /\ H \in [0..MaxParts -> SUBSET Nat]
    /\ \A k \in 0..MaxParts : 0 \in H[k] /\ Sizes \subseteq H[k]
    /\ \A k \in 1..MaxParts : \A n \in H[k] : n % 2 = 0 /\ n \div 2 \in H[k - 1]

\* Amounts are counted in a unit small enough for every partial sell of a row.
SizesHalve == \E H : Halves(H)

\* The partial sells of a row that are not recorded yet, or still possible.
HalvesLeft(r) == MaxParts - parts[r] + (IF sale[r] = "half" THEN 1 ELSE 0)

PrincipalInv(H) ==
    /\ \A r \in Calls : sale[r] = "half" => parts[r] > 0
    /\ \A c \in written : share[c] \in H[HalvesLeft(target[c])]
    /\ \A r \in Calls : status[r] = "OPEN" => amount[r] = SumFunctionOnSet(share, FillsOf(r))

LEMMA FillsFinite ==
    ASSUME CallsInv, NEW r
    PROVE  IsFiniteSet(FillsOf(r)) /\ FillsOf(r) \subseteq Calls
<1>1. FillsOf(r) \subseteq Calls
  BY DEF FillsOf, CallsInv, FillInv
<1> QED BY <1>1, CallsAssumption, FS_Subset

\* What is halved is a multiple of two.
LEMMA LeftRange ==
    ASSUME AmountTypes, NEW r \in Calls, sale[r] = "half" => parts[r] > 0
    PROVE  HalvesLeft(r) \in 0..MaxParts /\ (sale[r] = "half" => HalvesLeft(r) \in 1..MaxParts)
<1>1. parts[r] \in 0..MaxParts /\ MaxParts \in Nat
  BY AmountsAssumption DEF AmountTypes
<1> QED BY <1>1 DEF HalvesLeft

\* Most steps write no fill and record no partial sell.
LEMMA PrincipalKeeps ==
    ASSUME NEW H, CallsInv, CallsKept, PrincipalInv(H), UNCHANGED <<written, share, amount>>,
           \A r \in Calls : /\ HalvesLeft(r)' = HalvesLeft(r)
                            /\ sale'[r] = "half" => parts'[r] > 0
                            /\ status'[r] = "OPEN" => status[r] = "OPEN"
    PROVE  PrincipalInv(H)'
<1>1. \A c \in written : c \in Calls /\ target'[c] = target[c] /\ target[c] \in Calls
  BY DEF CallsInv, RowInv, RowTypes, FillInv, GoneInv, LandedFirst, CallsKept
<1>2. \A r \in Calls : FillsOf(r)' = FillsOf(r)
  BY <1>1 DEF FillsOf
<1>3. \A c \in written : share[c] \in H[HalvesLeft(target[c])']
  BY <1>1 DEF PrincipalInv
<1>4. \A c \in written' : share'[c] \in H[HalvesLeft(target[c])']
  BY <1>3
<1>5. \A r \in Calls : status'[r] = "OPEN" => amount'[r] = SumFunctionOnSet(share', FillsOf(r)')
  BY <1>2 DEF PrincipalInv
<1> QED BY <1>4, <1>5 DEF PrincipalInv

LEMMA MostStepsKeepPrincipal ==
    ASSUME NEW H, CallsInv, AmountTypes, PrincipalInv(H), [Next]_vars,
           \A c \in Calls : ~ CreateRow(c) /\ ~ ScaleIn(c) /\ ~ RecordHalf(c)
    PROVE  PrincipalInv(H)'
<1> DEFINE Kept == /\ UNCHANGED <<written, share, amount>>
                   /\ \A r \in Calls : /\ HalvesLeft(r)' = HalvesLeft(r)
                                       /\ sale'[r] = "half" => parts'[r] > 0
                                       /\ status'[r] = "OPEN" => status[r] = "OPEN"
<1>0. /\ \A r \in Calls : sale[r] = "half" => parts[r] > 0
      /\ status \in [Calls -> {"none", "OPEN", "CLOSED"}]
      /\ sale \in [Calls -> {"none", "full", "half"}]
      /\ parts \in [Calls -> 0..MaxParts] /\ MaxParts \in Nat
  BY AmountsAssumption DEF PrincipalInv, AmountTypes, CallsInv, RowInv, RowTypes, SaleInv
<1>1. ASSUME UNCHANGED <<written, share, amount, sale, parts, status>> PROVE Kept
  BY <1>0, <1>1 DEF HalvesLeft
<1>2. ASSUME UNCHANGED vars \/ Crash \/ \E m \in Mints : PassTime(m) PROVE Kept
  BY <1>1, <1>2 DEF vars, Crash, PassTime, locals, rows, sales
<1>3. ASSUME NEW c \in Calls, Land(c) \/ DoNotLand(c) PROVE Kept
  BY <1>1, <1>3 DEF Land, DoNotLand, rows, sales
<1>4. ASSUME NEW r \in Calls, SellAll(r) PROVE Kept
  BY <1>0, <1>4 DEF SellAll, HalvesLeft, locals, rows
<1>5. ASSUME NEW r \in Calls, SellHalf(r) PROVE Kept
  <2>1. /\ sale[r] = "none" /\ sale' = [sale EXCEPT ![r] = "half"]
        /\ parts' = [parts EXCEPT ![r] = @ + 1]
        /\ UNCHANGED <<written, share, amount, status>>
    BY <1>5 DEF SellHalf, locals, rows
  <2>2. HalvesLeft(r)' = HalvesLeft(r) /\ parts'[r] > 0
    BY <1>0, <2>1 DEF HalvesLeft
  <2>3. \A q \in Calls \ {r} : HalvesLeft(q)' = HalvesLeft(q) /\ parts'[q] = parts[q] /\ sale'[q] = sale[q]
    BY <1>0, <2>1 DEF HalvesLeft
  <2> QED BY <1>0, <2>1, <2>2, <2>3
<1>6. ASSUME NEW r \in Calls, RecordClose(r) PROVE Kept
  BY <1>0, <1>6 DEF RecordClose, HalvesLeft, locals
<1>7. ASSUME NEW c \in Calls, Call(c), ~ CreateRow(c), ~ ScaleIn(c) PROVE Kept
  <2> USE DEF locals, rows, sales
  <2>1. CASE Begin(c) \/ Admit(c) \/ PassGuards(c) \/ Refuse(c) \/ RunProbe(c) \/ Send(c)
    BY <1>1, <2>1 DEF Begin, Admit, PassGuards, Refuse, RunProbe, Send
  <2>2. CASE Confirmed(c) \/ Rejected(c) \/ Unconfirmed(c) \/ Reconciled(c) \/ Unreconciled(c)
    BY <1>1, <2>2 DEF Confirmed, Rejected, Unconfirmed, Reconciled, Unreconciled
  <2>3. CASE Audit(c) \/ ScaleInTooLate(c) \/ WriteThrows(c)
    BY <1>1, <2>3 DEF Audit, ScaleInTooLate, WriteThrows
  <2> QED BY <1>7, <2>1, <2>2, <2>3 DEF Call
<1>8. Kept
  <2> HIDE DEF Kept
  <2> QED BY <1>2, <1>3, <1>4, <1>5, <1>6, <1>7 DEF Next, Sale
<1>9. CallsKept
  BY CallsKeep DEF CallsInv
<1> QED BY <1>8, <1>9, PrincipalKeeps

\* A fill is written: its row has one fill more.
LEMMA WritePrincipal ==
    ASSUME NEW H, Halves(H), CallsInv, AmountTypes, PrincipalInv(H),
           NEW c \in Calls, CreateRow(c) \/ ScaleIn(c)
    PROVE  PrincipalInv(H)'
<1> DEFINE r == target[c]
<1>0. /\ r \in Calls /\ target \in [Calls -> Calls] /\ share \in [Calls -> Nat] /\ written \subseteq Calls
      /\ amount \in [Calls -> Nat] /\ size[c] \in Nat /\ size[c] \in Sizes \union {0}
      /\ status \in [Calls -> {"none", "OPEN", "CLOSED"}]
  BY SizesAreNat DEF CallsInv, RowInv, RowTypes, FillInv, AmountTypes
<1>1. /\ pc[c] = "filled" /\ written' = written \union {c}
      /\ share' = [share EXCEPT ![c] = size[c]]
      /\ UNCHANGED <<target, sale, parts>>
  BY DEF CreateRow, ScaleIn, Enter, sales
<1>2. c \notin written
  BY <1>1 DEF CallsInv, GoneInv, LandedFirst
<1>3. /\ \A q \in Calls \ {r} : status'[q] = status[q] /\ amount'[q] = amount[q]
      /\ \/ FillsOf(r) = {} /\ amount'[r] = size[c]
         \/ status[r] = "OPEN" /\ amount'[r] = amount[r] + size[c]
  <2>1. CASE CreateRow(c)
    <3>1. r = c /\ status' = [status EXCEPT ![c] = "OPEN"] /\ amount' = [amount EXCEPT ![c] = size[c]]
      BY <2>1 DEF CreateRow, IsNew
    <3>2. status[c] = "none"
      BY <1>0, <1>1 DEF CallsInv, RowInv, RowsFollowCalls
    <3>3. FillsOf(r) = {}
      BY <3>1, <3>2 DEF FillsOf, CallsInv, FillInv, GoneInv, LandedFirst
    <3> QED BY <1>0, <3>1, <3>3
  <2>2. CASE ScaleIn(c)
    BY <1>0, <2>2 DEF ScaleIn
  <2> QED BY <2>1, <2>2
<1>4. /\ FillsOf(r)' = FillsOf(r) \union {c} /\ c \notin FillsOf(r)
      /\ \A q \in Calls \ {r} : FillsOf(q)' = FillsOf(q)
      /\ \A q \in Calls : c \notin FillsOf(q)
  BY <1>1, <1>2 DEF FillsOf
<1>5. \A q \in Calls : IsFiniteSet(FillsOf(q)) /\ FillsOf(q) \subseteq Calls
  BY FillsFinite
<1>6. \A d \in Calls : d # c => share'[d] = share[d]
  BY <1>0, <1>1
<1>7. share'[c] = size[c] /\ \A d \in Calls : share'[d] \in Int
  BY <1>0, <1>1
<1>8. ASSUME NEW q \in Calls
      PROVE  SumFunctionOnSet(share', FillsOf(q)) = SumFunctionOnSet(share, FillsOf(q))
  <2>1. \A d \in FillsOf(q) : share'[d] = share[d]
    BY <1>4, <1>5, <1>6
  <2> QED BY <1>5, <2>1, SumEqual
<1>9. SumFunctionOnSet(share', FillsOf(r) \union {c}) = SumFunctionOnSet(share, FillsOf(r)) + size[c]
  <2>1. \A d \in FillsOf(r) \union {c} : share'[d] \in Int
    BY <1>0, <1>5, <1>7
  <2>2. SumFunctionOnSet(share', FillsOf(r) \union {c}) = SumFunctionOnSet(share', FillsOf(r)) + share'[c]
    BY <1>0, <1>4, <1>5, <2>1, SumAdd
  <2> QED BY <1>0, <1>7, <1>8, <2>2
<1>10. ASSUME NEW q \in Calls, status'[q] = "OPEN"
       PROVE  amount'[q] = SumFunctionOnSet(share', FillsOf(q)')
  <2>1. CASE q # r
    BY <1>3, <1>4, <1>8, <1>10, <2>1 DEF PrincipalInv
  <2>2. CASE q = r /\ FillsOf(r) = {} /\ amount'[r] = size[c]
    <3>1. SumFunctionOnSet(share, FillsOf(r)) = 0
      BY <2>2, SumEmpty
    <3>2. SumFunctionOnSet(share', FillsOf(q)') = 0 + size[c]
      BY <1>1, <1>4, <1>9, <2>2, <3>1
    <3> QED BY <1>0, <2>2, <3>2
  <2>3. CASE q = r /\ status[r] = "OPEN" /\ amount'[r] = amount[r] + size[c]
    <3>1. amount[r] = SumFunctionOnSet(share, FillsOf(r))
      BY <1>0, <2>3 DEF PrincipalInv
    <3>2. SumFunctionOnSet(share', FillsOf(q)') = SumFunctionOnSet(share, FillsOf(r)) + size[c]
      BY <1>1, <1>4, <1>9, <2>3
    <3> QED BY <2>3, <3>1, <3>2
  <2> QED BY <1>3, <2>1, <2>2, <2>3
<1>11. ASSUME NEW d \in written' PROVE share'[d] \in H[HalvesLeft(target[d])]
  <2>1. CASE d = c
    <3>1. HalvesLeft(r) \in 0..MaxParts
      BY <1>0, LeftRange DEF PrincipalInv
    <3> QED BY <1>0, <1>7, <2>1, <3>1 DEF Halves
  <2>2. CASE d # c
    BY <1>0, <1>1, <1>6, <2>2 DEF PrincipalInv
  <2> QED BY <2>1, <2>2
<1>12. \A d \in written' : HalvesLeft(target[d])' = HalvesLeft(target[d])
  BY <1>1 DEF HalvesLeft
<1>13. \A q \in Calls : sale'[q] = "half" => parts'[q] > 0
  BY <1>1 DEF PrincipalInv
<1> QED BY <1>10, <1>11, <1>12, <1>13 DEF PrincipalInv

\* Half of a row is half of each of its fills.
LEMMA HalfPrincipal ==
    ASSUME NEW H, Halves(H), CallsInv, AmountTypes, PrincipalInv(H), NEW r \in Calls, RecordHalf(r)
    PROVE  PrincipalInv(H)'
<1>0. /\ share \in [Calls -> Nat] /\ amount \in [Calls -> Nat] /\ target \in [Calls -> Calls]
      /\ written \subseteq Calls /\ sale \in [Calls -> {"none", "full", "half"}]
      /\ parts \in [Calls -> 0..MaxParts] /\ MaxParts \in Nat
      /\ status \in [Calls -> {"none", "OPEN", "CLOSED"}]
  BY AmountsAssumption DEF CallsInv, RowInv, RowTypes, SaleInv, FillInv, AmountTypes
<1>1. /\ sale[r] = "half" /\ sale' = [sale EXCEPT ![r] = "none"]
      /\ amount' = [amount EXCEPT ![r] = @ \div 2]
      /\ share' = [c \in Calls |-> IF c \in FillsOf(r) THEN share[c] \div 2 ELSE share[c]]
      /\ UNCHANGED <<target, written, status, parts>>
  BY DEF RecordHalf
<1>2. status[r] = "OPEN"
  BY <1>1 DEF CallsInv, SaleInv
<1>3. HalvesLeft(r) \in 1..MaxParts /\ HalvesLeft(r)' = HalvesLeft(r) - 1
  <2>1. HalvesLeft(r) \in 1..MaxParts
    BY <1>1, LeftRange DEF PrincipalInv
  <2> QED BY <1>0, <1>1, <2>1 DEF HalvesLeft
<1>4. \A q \in Calls \ {r} : HalvesLeft(q)' = HalvesLeft(q)
  BY <1>0, <1>1 DEF HalvesLeft
<1>5. ASSUME NEW c \in FillsOf(r)
      PROVE  /\ c \in Calls /\ share[c] = 2 * share'[c] /\ share'[c] \in Nat
             /\ share'[c] \in H[HalvesLeft(r) - 1]
  <2>1. c \in written /\ c \in Calls /\ target[c] = r
    BY <1>0 DEF FillsOf
  <2>2. share[c] \in H[HalvesLeft(r)] /\ share[c] \in Nat
    BY <1>0, <2>1 DEF PrincipalInv
  <2>3. share[c] % 2 = 0 /\ share[c] \div 2 \in H[HalvesLeft(r) - 1]
    BY <1>3, <2>2 DEF Halves
  <2>4. share'[c] = share[c] \div 2
    BY <1>1, <2>1
  <2> QED BY <2>1, <2>2, <2>3, <2>4
<1>6. \A q \in Calls : IsFiniteSet(FillsOf(q)) /\ FillsOf(q) \subseteq Calls /\ FillsOf(q)' = FillsOf(q)
  BY <1>1, FillsFinite DEF FillsOf
<1>7. ASSUME NEW q \in Calls, status'[q] = "OPEN"
      PROVE  amount'[q] = SumFunctionOnSet(share', FillsOf(q)')
  <2>1. amount[q] = SumFunctionOnSet(share, FillsOf(q))
    BY <1>1, <1>7 DEF PrincipalInv
  <2>2. CASE q = r
    <3>1. \A c \in FillsOf(r) : share'[c] \in Int /\ share[c] = 2 * share'[c]
      BY <1>5
    <3>2. SumFunctionOnSet(share, FillsOf(r)) = 2 * SumFunctionOnSet(share', FillsOf(r))
      BY <1>6, <3>1, SumScale
    <3>3. SumFunctionOnSet(share', FillsOf(r)) \in Int
      BY <1>6, <3>1, SumInt
    <3>4. amount'[r] = amount[r] \div 2
      BY <1>0, <1>1
    <3>5. \A x \in Int, n \in Int : n = 2 * x => n \div 2 = x
      OBVIOUS
    <3>6. amount[r] \in Int /\ amount[r] = 2 * SumFunctionOnSet(share', FillsOf(r))
      BY <1>0, <2>1, <2>2, <3>2
    <3> QED BY <1>6, <2>2, <3>3, <3>4, <3>5, <3>6
  <2>3. CASE q # r
    <3>1. \A c \in FillsOf(q) : c \notin FillsOf(r) /\ c \in Calls
      BY <1>6, <2>3 DEF FillsOf
    <3>2. \A c \in FillsOf(q) : share'[c] = share[c]
      BY <1>1, <3>1
    <3>3. SumFunctionOnSet(share', FillsOf(q)) = SumFunctionOnSet(share, FillsOf(q))
      BY <1>6, <3>2, SumEqual
    <3> QED BY <1>0, <1>1, <1>6, <2>1, <2>3, <3>3
  <2> QED BY <2>2, <2>3
<1>8. ASSUME NEW c \in written' PROVE share'[c] \in H[HalvesLeft(target[c])']
  <2>1. c \in written /\ c \in Calls /\ target[c] \in Calls /\ target'[c] = target[c]
    BY <1>0, <1>1
  <2>2. CASE target[c] = r
    <3>1. c \in FillsOf(r)
      BY <2>1, <2>2 DEF FillsOf
    <3>2. HalvesLeft(target[c])' = HalvesLeft(r) - 1
      BY <1>1, <1>3, <2>2 DEF HalvesLeft
    <3> QED BY <1>5, <3>1, <3>2
  <2>3. CASE target[c] # r
    <3>1. c \notin FillsOf(r)
      BY <2>3 DEF FillsOf
    <3>2. share'[c] = share[c]
      BY <1>1, <2>1, <3>1
    <3>3. HalvesLeft(target[c])' = HalvesLeft(target[c])
      BY <1>0, <1>1, <2>1, <2>3 DEF HalvesLeft
    <3> QED BY <2>1, <3>2, <3>3 DEF PrincipalInv
  <2> QED BY <2>2, <2>3
<1>9. \A q \in Calls : sale'[q] = "half" => parts'[q] > 0
  BY <1>0, <1>1 DEF PrincipalInv
<1> QED BY <1>7, <1>8, <1>9 DEF PrincipalInv

\* The hypothesis of the theorem asks no more than whole lots: sizes that are
\* multiples of 1, 2, 4, ... up to as many halvings as a row can see.
LEMMA WholeLotsHalve ==
    ASSUME NEW P \in [0..MaxParts -> Nat \ {0}],
           \A k \in 1..MaxParts : P[k] = 2 * P[k - 1],
           \A k \in 0..MaxParts : \A s \in Sizes : \E j \in Nat : s = j * P[k]
    PROVE  SizesHalve
<1> DEFINE H == [k \in 0..MaxParts |-> {n \in Nat : \E j \in Nat : n = j * P[k]}]
<1>1. H \in [0..MaxParts -> SUBSET Nat] OBVIOUS
<1>2. ASSUME NEW k \in 0..MaxParts PROVE 0 \in H[k] /\ Sizes \subseteq H[k]
  <2>1. 0 = 0 * P[k] OBVIOUS
  <2>2. Sizes \subseteq Nat BY AmountsAssumption
  <2> QED BY <2>1, <2>2
<1>3. ASSUME NEW k \in 1..MaxParts, NEW n \in H[k]
      PROVE  n % 2 = 0 /\ n \div 2 \in H[k - 1]
  <2>1. k \in 0..MaxParts /\ k - 1 \in 0..MaxParts BY AmountsAssumption
  <2>2. PICK j \in Nat : n = j * P[k] BY <2>1
  <2> DEFINE m == j * P[k - 1]
  <2>3. m \in Nat BY <2>1
  <2>4. n = 2 * m
    <3>1. P[k] = 2 * P[k - 1] /\ P[k - 1] \in Nat BY <2>1
    <3>2. \A p \in Nat : j * (2 * p) = 2 * (j * p) OBVIOUS
    <3> QED BY <2>2, <3>1, <3>2
  <2>5. m \in H[k - 1] BY <2>1, <2>3
  <2> HIDE DEF m, H
  <2>6. n % 2 = 0 /\ n \div 2 = m BY <2>3, <2>4
  <2> QED BY <2>5, <2>6
<1> HIDE DEF H
<1>4. Halves(H) BY <1>1, <1>2, <1>3 DEF Halves
<1> QED BY <1>4 DEF SizesHalve

\* amountInSol of an open row is exactly what is left of the fills written to
\* it (PrincipalExact: executeBuy, scale-in and recordExecutedSell), for
\* amounts that can be halved without a rest.
THEOREM PrincipalIsExact ==
    ASSUME SizesHalve
    PROVE  Spec => []PrincipalExact
<1>1. PICK H : Halves(H)
  BY DEF SizesHalve
<1> DEFINE I == AmountTypes /\ PrincipalInv(H)
<1>2. Init => I
  BY AmountsAssumption DEF Init, AmountTypes, PrincipalInv
<1>3. CallsInv /\ I /\ [Next]_vars => I'
  <2> SUFFICES ASSUME CallsInv, I, [Next]_vars PROVE I'
    OBVIOUS
  <2>1. AmountTypes'
    BY AmountStep DEF CallsInv
  <2>2. ASSUME NEW c \in Calls, CreateRow(c) \/ ScaleIn(c) \/ RecordHalf(c) PROVE PrincipalInv(H)'
    BY <1>1, <2>2, WritePrincipal, HalfPrincipal
  <2>3. CASE \A c \in Calls : ~ CreateRow(c) /\ ~ ScaleIn(c) /\ ~ RecordHalf(c)
    BY <2>1, <2>3, MostStepsKeepPrincipal
  <2> QED BY <2>1, <2>2, <2>3
<1>4. I => PrincipalExact
  BY DEF PrincipalInv, PrincipalExact, OpenRows
<1> HIDE DEF I
<1> QED BY <1>2, <1>3, <1>4, CallsInvariant, PTL DEF Spec

------------------------------------------------------------------------------
(* The capital that stays free *)

\* Rows whose worth the capital guard of a later call can see, or whose call
\* is still on its way.
Counted == {r \in OpenRows : value[r] > 0 \/ Active(r)}

Invested == SumFunctionOnSet(amount, Counted)

\* No calls overlapped, and no fill is outside the rows.
Kept ==
    /\ \A c, d \in Calls : ~ Overlap(c, d)
    /\ \A c \in Calls : tx[c] = "landed" => c \in written \/ Active(c)

Committed == ProbeStages \union {"swapping", "confirming", "reconciling"}

\* A call has its audit before it only for its own row, and a row gets its
\* value from the audit.
AuditsOwn == \A c \in Calls :
    /\ pc[c] = "auditing" => target[c] = c /\ status[c] # "none"
    /\ status[c] = "none" => value[c] = 0

\* What the rows are worth to the guard is what was paid for them, or more.
Covered == \A r \in Calls : status[r] = "OPEN" =>
    /\ value[r] > 0 => amount[r] <= value[r]
    /\ pc[r] = "auditing" => amount[r] <= size[r]

\* What the guard promised, from the snapshot to the fill.
Funded ==
    /\ \A c \in Calls :
          /\ pc[c] \in {"looked", "admitted"} => Invested <= exposure[c]
          /\ pc[c] \in Committed /\ tx[c] # "landed" =>
                Invested + size[c] + MinReserve <= balance
          /\ tx[c] = "landed" /\ c \notin written => Invested + MinReserve <= balance
    /\ Invested + MinReserve <= balance + LargestSize

CapitalInv == AuditsOwn /\ (Kept => Covered /\ Funded)

\* There is a largest size, the reserve is not above its ceiling, and the
\* wallet starts with the reserve but for one buy.
CapitalFits ==
    /\ IsFiniteSet(Sizes) /\ Sizes # {}
    /\ MinReserve <= MaxReserve
    /\ MinReserve <= Start + LargestSize

LEMMA LargestExists ==
    ASSUME CapitalFits
    PROVE  LargestSize \in Nat /\ \A s \in Sizes \union {0} : s <= LargestSize
<1> DEFINE G == {T \in SUBSET Sizes : T # {} => \E x \in T : \A t \in T : t <= x}
<1>0. Sizes \subseteq Nat /\ IsFiniteSet(Sizes) /\ Sizes # {}
  BY AmountsAssumption DEF CapitalFits
<1>1. ASSUME NEW T \in SUBSET Sizes, \A x \in T : T \ {x} \in G PROVE T \in G
  <2> SUFFICES ASSUME T # {} PROVE \E x \in T : \A t \in T : t <= x
    BY <1>1
  <2>1. PICK z : z \in T /\ T \ {z} \in G
    BY <1>1
  <2>2. CASE T \ {z} = {}
    BY <1>0, <2>1, <2>2
  <2>3. CASE T \ {z} # {}
    <3>1. PICK x \in T \ {z} : \A t \in T \ {z} : t <= x
      BY <2>1, <2>3
    <3>2. CASE z <= x
      BY <2>1, <3>1, <3>2
    <3>3. CASE ~ (z <= x)
      BY <1>0, <2>1, <3>1, <3>3
    <3> QED BY <3>2, <3>3
  <2> QED BY <2>2, <2>3
<1>2. Sizes \in G
  <2> HIDE DEF G
  <2> QED BY <1>0, <1>1, AllSubsets
<1>3. \E x \in Sizes : \A t \in Sizes : t <= x
  BY <1>0, <1>2
<1>4. LargestSize \in Sizes /\ \A t \in Sizes : t <= LargestSize
  BY <1>3 DEF LargestSize
<1> QED BY <1>0, <1>4

\* Only one call is on its way.
LEMMA OneActive ==
    ASSUME RowInv, Kept, NEW c \in Calls, NEW d \in Calls, Active(c), Active(d)
    PROVE  c = d
BY DEF RowInv, SnapshotsHold, Kept, Overlap, Active

LEMMA CountedFinite ==
    ASSUME AmountTypes
    PROVE  /\ IsFiniteSet(Counted) /\ Counted \subseteq Calls
           /\ \A r \in Counted : amount[r] \in Nat
           /\ Invested \in Nat
<1>1. Counted \subseteq OpenRows /\ Counted \subseteq Calls
  BY RowsFinite DEF Counted
<1>2. IsFiniteSet(Counted)
  BY <1>1, RowsFinite, FS_Subset
<1>3. \A r \in Counted : amount[r] \in Nat
  BY <1>1 DEF AmountTypes
<1>4. SumFunctionOnSet(amount, Counted) \in Nat
  BY <1>2, <1>3, SumNat
<1> QED BY <1>1, <1>2, <1>3, <1>4 DEF Invested

\* A step that neither spends, nor books, nor promises anything.
Eases ==
    /\ \A c \in Calls :
          /\ status'[c] = "OPEN" => status[c] = "OPEN"
          /\ amount'[c] <= amount[c]
          /\ value'[c] > 0 => value[c] > 0 \/ Active(c)
          /\ Active(c)' => Active(c)
          /\ tx'[c] = "landed" <=> tx[c] = "landed"
          /\ c \in written' <=> c \in written
          /\ pc'[c] \in {"looked", "admitted"} =>
                pc[c] \in {"looked", "admitted"} /\ exposure'[c] = exposure[c]
          /\ pc'[c] \in Committed => pc[c] \in Committed /\ size'[c] = size[c]
    /\ balance' >= balance

LEMMA MostStepsEase ==
    ASSUME CallsInv, AmountTypes, [Next]_vars,
           \A c \in Calls : /\ ~ Begin(c) /\ ~ PassGuards(c) /\ ~ CreateRow(c)
                            /\ ~ ScaleIn(c) /\ ~ Land(c)
    PROVE  Eases
<1>0. /\ pc \in [Calls -> Stages]
      /\ tx \in [Calls -> {"none", "flying", "landed", "failed", "expired"}]
      /\ status \in [Calls -> {"none", "OPEN", "CLOSED"}]
      /\ amount \in [Calls -> Nat] /\ value \in [Calls -> Nat] /\ balance \in Nat
  BY DEF CallsInv, FillInv, RowInv, RowTypes, AmountTypes
<1> USE DEF Active, Over, Goto, locals, rows, sales, probeState, Committed, Stages, ProbeStages
<1>1. CASE UNCHANGED vars
  BY <1>0, <1>1 DEF vars, Eases
<1>2. CASE Crash
  BY <1>0, <1>2 DEF Crash, Eases
<1>3. CASE \E m \in Mints : PassTime(m)
  BY <1>0, <1>3 DEF PassTime, Expire, Eases
<1>4. ASSUME NEW c \in Calls, DoNotLand(c) PROVE Eases
  BY <1>0, <1>4 DEF DoNotLand, Eases
<1>5. ASSUME NEW r \in Calls, Sale(r) PROVE Eases
  <2>1. CASE SellAll(r) \/ SellHalf(r)
    <3>1. balance' >= balance
      BY <1>0, <2>1, AmountsAssumption DEF SellAll, SellHalf
    <3> QED BY <1>0, <2>1, <3>1 DEF SellAll, SellHalf, Eases
  <2>2. CASE RecordHalf(r)
    BY <1>0, <2>2, HalfType DEF RecordHalf, Eases
  <2>3. CASE RecordClose(r)
    BY <1>0, <2>3 DEF RecordClose, Eases
  <2> QED BY <1>5, <2>1, <2>2, <2>3 DEF Sale
<1>6. ASSUME NEW c \in Calls, Call(c), ~ Begin(c), ~ PassGuards(c), ~ CreateRow(c), ~ ScaleIn(c)
      PROVE  Eases
  <2>1. CASE Admit(c) \/ Refuse(c)
    BY <1>0, <2>1 DEF Admit, Refuse, Eases
  <2>2. CASE Send(c)
    <3>1. tx[c] # "landed"
      BY <2>2 DEF Send, CallsInv, FillInv, Unsent
    <3> QED BY <1>0, <2>2, <3>1 DEF Send, Eases
  <2>3. CASE Confirmed(c) \/ Rejected(c) \/ Unconfirmed(c) \/ Reconciled(c)
    BY <1>0, <2>3 DEF Confirmed, Rejected, Unconfirmed, Reconciled, Eases
  <2>4. CASE Unreconciled(c) \/ ScaleInTooLate(c) \/ WriteThrows(c)
    BY <1>0, <2>4 DEF Unreconciled, ScaleInTooLate, WriteThrows, Eases
  <2>5. CASE Audit(c)
    BY <1>0, <2>5 DEF Audit, Eases
  <2>6. CASE RunProbe(c)
    <3>1. UNCHANGED <<exposure, size, tx, written, status, amount, value, balance>>
      BY <2>6 DEF RunProbe
    <3>2. CASE ReadBlocked(c) \/ ReadCache(c) \/ FindBalance(c) \/ FindNoBalance(c)
      BY <1>0, <3>1, <3>2 DEF ReadBlocked, ReadCache, FindBalance, FindNoBalance, Conclude, Eases
    <3>3. CASE ProbeBuy(c) \/ ProbeBuyFails(c) \/ BalanceMissing(c) \/ ProbeSell(c) \/ ProbeSellFails(c)
      BY <1>0, <3>1, <3>3 DEF ProbeBuy, ProbeBuyFails, BalanceMissing, ProbeSell, ProbeSellFails, Conclude, Eases
    <3>4. CASE JudgeSold(c) \/ JudgeUnsold(c) \/ SaveVerdict(c) \/ ProbeThrows(c)
      BY <1>0, <3>1, <3>4 DEF JudgeSold, JudgeUnsold, SaveVerdict, ProbeThrows, Conclude, Eases
    <3> QED BY <2>6, <3>2, <3>3, <3>4 DEF RunProbe, Probe
  <2> QED BY <1>6, <2>1, <2>2, <2>3, <2>4, <2>5, <2>6 DEF Call
<1> QED BY <1>1, <1>2, <1>3, <1>4, <1>5, <1>6 DEF Next

LEMMA EaseStep ==
    ASSUME CapitalFits, AmountTypes, AmountTypes', Eases, Funded
    PROVE  Funded'
<1>1. Counted' \subseteq Counted
  BY DEF Eases, Counted, OpenRows
<1>2. \A r \in Counted' : amount'[r] \in Nat /\ amount'[r] <= amount[r]
  BY <1>1, CountedFinite DEF Eases, AmountTypes
<1>3. SumFunctionOnSet(amount', Counted') <= SumFunctionOnSet(amount, Counted)
  BY <1>1, <1>2, CountedFinite, SumShrinks
<1>4. Invested' <= Invested /\ Invested' \in Nat /\ Invested \in Nat
  <2>1. SumFunctionOnSet(amount', Counted') \in Nat
    BY <1>1, <1>2, CountedFinite, SumShrinks
  <2> QED BY <1>3, <2>1, CountedFinite DEF Invested
<1>5. balance \in Nat /\ balance' \in Nat /\ balance' >= balance /\ MinReserve \in Nat
  BY AmountsAssumption DEF AmountTypes, Eases
<1>6. ASSUME NEW c \in Calls, pc'[c] \in {"looked", "admitted"}
      PROVE  Invested' <= exposure'[c]
  <2>1. Invested <= exposure[c] /\ exposure'[c] = exposure[c] /\ exposure[c] \in Nat
    BY <1>6 DEF Eases, Funded, AmountTypes
  <2> QED BY <1>4, <2>1
<1>7. ASSUME NEW c \in Calls, pc'[c] \in Committed, tx'[c] # "landed"
      PROVE  Invested' + size'[c] + MinReserve <= balance'
  <2>1. Invested + size[c] + MinReserve <= balance /\ size'[c] = size[c]
    BY <1>7 DEF Eases, Funded
  <2>2. size[c] \in Nat
    BY SizesAreNat
  <2> QED BY <1>4, <1>5, <2>1, <2>2
<1>8. ASSUME NEW c \in Calls, tx'[c] = "landed", c \notin written'
      PROVE  Invested' + MinReserve <= balance'
  <2>1. Invested + MinReserve <= balance
    BY <1>8 DEF Eases, Funded
  <2>2. \A i, j, m, b, d \in Nat : i <= j /\ j + m <= b /\ b <= d => i + m <= d
    OBVIOUS
  <2> QED BY <1>4, <1>5, <2>1, <2>2
<1>9. Invested' + MinReserve <= balance' + LargestSize
  BY <1>4, <1>5, LargestExists DEF Funded
<1>10. Committed' = Committed /\ LargestSize' = LargestSize
  BY DEF Committed, ProbeStages
<1> QED BY <1>6, <1>7, <1>8, <1>9, <1>10 DEF Funded

\* What follows the fills and the rows, in steps and backwards.
LEMMA KeptBefore ==
    ASSUME CallsInv, AmountTypes, [Next]_vars, Kept'
    PROVE  Kept
<1>1. CallsKept
  BY CallsKeep DEF CallsInv
<1>2. \A c, d \in Calls : ~ Overlap(c, d)
  BY <1>1 DEF Kept, Overlap, CallsKept
<1>3. ASSUME NEW c \in Calls, tx[c] = "landed"
      PROVE  c \in written \/ Active(c)
  <2>0. pc[c] # "idle"
    BY <1>3 DEF CallsInv, FillInv, Unsent
  <2> SUFFICES tx'[c] = "landed" /\ (c \in written' \/ Active(c)' => c \in written \/ Active(c))
    BY <1>3 DEF Kept
  <2>1. CASE \A d \in Calls : /\ ~ Begin(d) /\ ~ PassGuards(d) /\ ~ CreateRow(d)
                              /\ ~ ScaleIn(d) /\ ~ Land(d)
    BY <1>3, <2>1, MostStepsEase DEF Eases
  <2>2. ASSUME NEW d \in Calls, Begin(d) \/ PassGuards(d)
        PROVE  tx'[c] = "landed" /\ (c \in written' \/ Active(c)' => c \in written \/ Active(c))
    BY <1>3, <2>0, <2>2 DEF Begin, PassGuards, Goto, CallsInv, FillInv, Active, Over
  <2>3. ASSUME NEW d \in Calls, CreateRow(d) \/ ScaleIn(d)
        PROVE  tx'[c] = "landed" /\ (c \in written' \/ Active(c)' => c \in written \/ Active(c))
    BY <1>3, <2>0, <2>3 DEF CreateRow, ScaleIn, Enter, Goto, CallsInv, FillInv, Active, Over
  <2>4. ASSUME NEW d \in Calls, Land(d)
        PROVE  tx'[c] = "landed" /\ (c \in written' \/ Active(c)' => c \in written \/ Active(c))
    BY <1>3, <2>4 DEF Land, CallsInv, FillInv, Active, Over
  <2> QED BY <2>1, <2>2, <2>3, <2>4
<1> QED BY <1>2, <1>3 DEF Kept

\* Only a new row is audited.
LEMMA AuditingFrom ==
    ASSUME CallsInv, [Next]_vars, NEW c \in Calls, pc'[c] = "auditing"
    PROVE  pc[c] = "auditing" \/ CreateRow(c)
<1>0. pc \in [Calls -> Stages]
  BY DEF CallsInv, RowInv, RowTypes
<1>1. ASSUME NEW d \in Calls, Begin(d) \/ PassGuards(d) \/ CreateRow(d) \/ ScaleIn(d) \/ Land(d)
      PROVE  pc[c] = "auditing" \/ CreateRow(c)
  BY <1>0, <1>1 DEF Begin, PassGuards, CreateRow, ScaleIn, Land, Goto
<1>2. CASE \A d \in Calls : ~ CreateRow(d)
  <2>1. CASE UNCHANGED vars \/ Crash \/ \E m \in Mints : PassTime(m)
    BY <1>0, <2>1 DEF vars, Crash, PassTime, Expire, Active, Over
  <2>2. ASSUME NEW d \in Calls, Land(d) \/ DoNotLand(d) \/ Sale(d) PROVE pc[c] = "auditing"
    BY <2>2 DEF Land, DoNotLand, Sale, SellAll, SellHalf, RecordHalf, RecordClose
  <2>3. ASSUME NEW d \in Calls, Call(d), ~ RunProbe(d) PROVE pc[c] = "auditing"
    <3>1. \E st \in Stages \ {"auditing"} : Goto(d, st)
      BY <1>2, <2>3 DEF Call, Begin, Admit, PassGuards, Refuse, Send, Confirmed, Rejected,
         Unconfirmed, Reconciled, Unreconciled, Audit, ScaleIn, ScaleInTooLate, WriteThrows,
         Stages, ProbeStages
    <3> QED BY <1>0, <3>1 DEF Goto
  <2>4. ASSUME NEW d \in Calls, RunProbe(d) PROVE pc[c] = "auditing"
    <3>1. \E st \in Stages \ {"auditing"} : Goto(d, st)
      BY <2>4 DEF RunProbe, Probe, ReadBlocked, ReadCache, FindBalance, FindNoBalance, ProbeBuy,
         ProbeBuyFails, BalanceMissing, ProbeSell, ProbeSellFails, JudgeSold, JudgeUnsold,
         SaveVerdict, ProbeThrows, Conclude, Stages, ProbeStages
    <3> QED BY <1>0, <3>1 DEF Goto
  <2> QED BY <2>1, <2>2, <2>3, <2>4 DEF Next
<1> QED BY <1>1, <1>2

LEMMA AuditsStep ==
    ASSUME CallsInv, AmountTypes, AuditsOwn, [Next]_vars
    PROVE  AuditsOwn'
<1>0. /\ pc \in [Calls -> Stages] /\ target \in [Calls -> Calls]
      /\ status \in [Calls -> {"none", "OPEN", "CLOSED"}] /\ value \in [Calls -> Nat]
  BY DEF CallsInv, RowInv, RowTypes, AmountTypes
<1>1. CallsKept
  BY CallsKeep DEF CallsInv
<1>2. \A c \in Calls : status[c] # "none" => status'[c] # "none"
  <2>1. CASE \A c \in Calls : ~ Begin(c) /\ ~ Admit(c) /\ ~ CreateRow(c) /\ ~ RecordClose(c)
    BY <2>1, MostStepsQuiet DEF Quiet, rowView, CallsInv
  <2>2. ASSUME NEW c \in Calls, Begin(c) \/ Admit(c) \/ CreateRow(c) \/ RecordClose(c)
        PROVE  \A d \in Calls : status[d] # "none" => status'[d] # "none"
    BY <1>0, <2>2 DEF Begin, Admit, CreateRow, RecordClose, rows
  <2> QED BY <2>1, <2>2
<1>3. \A c \in Calls : pc'[c] = "auditing" => pc[c] = "auditing" \/ CreateRow(c)
  BY AuditingFrom
<1>4. ASSUME NEW c \in Calls, pc'[c] = "auditing"
      PROVE  target'[c] = c /\ status'[c] # "none"
  <2>1. CASE pc[c] = "auditing"
    BY <1>1, <1>2, <2>1 DEF AuditsOwn, CallsKept
  <2>2. CASE CreateRow(c)
    BY <1>0, <2>2 DEF CreateRow, Enter, IsNew
  <2> QED BY <1>3, <1>4, <2>1, <2>2
<1>5. ASSUME NEW c \in Calls, status'[c] = "none"
      PROVE  value'[c] = 0
  <2>1. status[c] = "none" /\ value[c] = 0
    BY <1>2, <1>5 DEF AuditsOwn
  <2>2. CASE UNCHANGED amountVars
    BY <2>1, <2>2 DEF amountVars
  <2>3. ASSUME NEW d \in Calls, Begin(d) \/ PassGuards(d) \/ CreateRow(d) \/ Land(d) \/ SellAll(d) \/ SellHalf(d)
        PROVE  value'[c] = 0
    BY <2>1, <2>3 DEF Begin, PassGuards, CreateRow, Land, SellAll, SellHalf, rows
  <2>4. ASSUME NEW d \in Calls, Audit(d) PROVE value'[c] = 0
    BY <2>1, <2>4 DEF Audit, AuditsOwn
  <2>5. ASSUME NEW d \in Calls, ScaleIn(d) PROVE value'[c] = 0
    BY <1>0, <2>1, <2>5 DEF ScaleIn
  <2>6. ASSUME NEW d \in Calls, RecordHalf(d) PROVE value'[c] = 0
    <3>1. value' = [value EXCEPT ![d] = @ \div 2]
      BY <2>6 DEF RecordHalf
    <3>2. 0 \div 2 = 0
      OBVIOUS
    <3> QED BY <1>0, <2>1, <3>1, <3>2
  <2> QED BY <2>2, <2>3, <2>4, <2>5, <2>6, AmountsMove
<1> QED BY <1>4, <1>5 DEF AuditsOwn

\* A row is never worth less to the guard than what it holds.
LEMMA CoveredStep ==
    ASSUME CallsInv, AmountTypes, AuditsOwn, Kept, Covered, [Next]_vars
    PROVE  Covered'
<1>0. /\ pc \in [Calls -> Stages] /\ target \in [Calls -> Calls]
      /\ status \in [Calls -> {"none", "OPEN", "CLOSED"}] /\ value \in [Calls -> Nat]
      /\ amount \in [Calls -> Nat] /\ \A c \in Calls : size[c] \in Nat
  BY SizesAreNat DEF CallsInv, RowInv, RowTypes, AmountTypes
<1>1. ASSUME NEW c \in Calls, CreateRow(c) PROVE Covered'
  <2>1. status[c] = "none" /\ value[c] = 0
    BY <1>0, <1>1 DEF CreateRow, CallsInv, RowInv, RowsFollowCalls, AuditsOwn
  <2> QED BY <1>0, <1>1, <2>1 DEF CreateRow, Enter, Goto, Covered
<1>2. ASSUME NEW c \in Calls, ScaleIn(c) PROVE Covered'
  <2>1. /\ pc[c] = "filled" /\ Goto(c, "done") /\ target[c] \in Calls
        /\ amount' = [amount EXCEPT ![target[c]] = @ + size[c]]
        /\ value' = [value EXCEPT ![target[c]] = ScaledValue(c)]
        /\ UNCHANGED <<size, status>>
    BY <1>0, <1>2 DEF ScaleIn, Enter
  <2>2. \A r \in Calls : pc[r] # "auditing"
    BY <2>1, OneActive DEF CallsInv, Active, Over
  <2>3. \A r \in Calls : pc'[r] # "auditing"
    BY <1>0, <2>1, <2>2 DEF Goto
  <2>4. ASSUME NEW r \in Calls, status[r] = "OPEN", value'[r] > 0 PROVE amount'[r] <= value'[r]
    <3>1. CASE r = target[c]
      <4>1. value'[r] = ScaledValue(c) /\ amount'[r] = amount[r] + size[c]
        BY <1>0, <2>1, <3>1
      <4>2. value[r] > 0 /\ value'[r] = value[r] + size[c]
        BY <1>0, <2>4, <3>1, <4>1 DEF ScaledValue
      <4>3. amount[r] <= value[r]
        BY <2>4, <4>2 DEF Covered
      <4> QED BY <1>0, <4>1, <4>2, <4>3
    <3>2. CASE r # target[c]
      BY <1>0, <2>1, <2>4, <3>2 DEF Covered
    <3> QED BY <3>1, <3>2
  <2> QED BY <2>1, <2>3, <2>4 DEF Covered
<1>3. ASSUME NEW c \in Calls, Audit(c) PROVE Covered'
  BY <1>0, <1>3 DEF Audit, Goto, locals, Covered
<1>4. ASSUME NEW q \in Calls, RecordHalf(q) PROVE Covered'
  <2>1. /\ amount' = [amount EXCEPT ![q] = @ \div 2]
        /\ value' = [value EXCEPT ![q] = @ \div 2]
        /\ UNCHANGED <<pc, size, status>>
    BY <1>4 DEF RecordHalf
  <2>2. \A i, j \in Nat : i <= j => i \div 2 <= j \div 2 /\ i \div 2 <= j /\ i \div 2 \in Nat
    OBVIOUS
  <2>3. \A i \in Nat : i \div 2 > 0 => i > 0
    OBVIOUS
  <2>4. \A r \in Calls \ {q} : amount'[r] = amount[r] /\ value'[r] = value[r]
    BY <1>0, <2>1
  <2>5. amount'[q] = amount[q] \div 2 /\ value'[q] = value[q] \div 2
    BY <1>0, <2>1
  <2>6. status[q] = "OPEN" => /\ value'[q] > 0 => amount'[q] <= value'[q]
                              /\ pc[q] = "auditing" => amount'[q] <= size[q]
    BY <1>0, <2>2, <2>3, <2>5 DEF Covered
  <2> QED BY <2>1, <2>4, <2>6 DEF Covered
<1>5. ASSUME NEW c \in Calls, PassGuards(c) PROVE Covered'
  BY <1>0, <1>5 DEF PassGuards, Goto, Covered, rows
<1>6. ASSUME NEW c \in Calls, Begin(c) \/ Land(c) PROVE Covered'
  BY <1>0, <1>6 DEF Begin, Land, Goto, Covered, rows
<1>7. CASE \A c \in Calls : /\ ~ CreateRow(c) /\ ~ ScaleIn(c) /\ ~ Audit(c) /\ ~ RecordHalf(c)
                            /\ ~ PassGuards(c) /\ ~ Begin(c) /\ ~ Land(c)
  <2>1. UNCHANGED <<amount, value, size>>
    <3>1. CASE UNCHANGED amountVars
      BY <3>1 DEF amountVars
    <3>2. ASSUME NEW c \in Calls, SellAll(c) \/ SellHalf(c) PROVE UNCHANGED <<amount, value, size>>
      BY <3>2 DEF SellAll, SellHalf, locals, rows
    <3> QED BY <1>7, <3>1, <3>2, AmountsMove
  <2>2. Eases
    BY <1>7, MostStepsEase
  <2>3. \A c \in Calls : pc'[c] = "auditing" => pc[c] = "auditing"
    BY <1>7, AuditingFrom
  <2> QED BY <2>1, <2>2, <2>3 DEF Eases, Covered
<1> QED BY <1>1, <1>2, <1>3, <1>4, <1>5, <1>6, <1>7

LEMMA PassFunded ==
    ASSUME CapitalFits, CallsInv, AmountTypes, Funded, NEW c \in Calls, PassGuards(c)
    PROVE  Funded'
<1>0. /\ pc \in [Calls -> Stages] /\ Invested \in Nat /\ balance \in Nat /\ exposure \in [Calls -> Nat]
      /\ size \in [Calls -> Sizes \union {0}] /\ MinReserve \in Nat /\ MaxReserve \in Nat
      /\ ReserveShare \in Nat \ {0}
  BY CountedFinite, AmountsAssumption DEF CallsInv, RowInv, RowTypes, AmountTypes
<1>1. PICK s \in Sizes : Affordable(c, s) /\ size' = [size EXCEPT ![c] = s]
  BY DEF PassGuards
<1>2. /\ pc[c] = "admitted" /\ pc' = [pc EXCEPT ![c] = IF Probed(c) THEN "probing" ELSE "swapping"]
      /\ UNCHANGED <<exposure, tx, written, status, amount, value, balance>>
  BY DEF PassGuards, Goto, rows
<1>3. Counted' = Counted
  BY <1>0, <1>2 DEF Counted, OpenRows, Active, Over
<1>4. Invested' = Invested
  BY <1>2, <1>3 DEF Invested
<1>5. Reserve(balance) >= MinReserve /\ Reserve(balance) \in Nat
  <2>1. balance \div ReserveShare \in Nat
    BY <1>0
  <2> QED BY <1>0, <2>1 DEF Reserve, CapitalFits
<1>6. Invested + s + MinReserve <= balance
  <2>1. Invested <= exposure[c]
    BY <1>2 DEF Funded
  <2>2. exposure[c] + s + Reserve(balance) <= balance /\ s \in Nat /\ exposure[c] \in Nat
    BY <1>0, <1>1, AmountsAssumption DEF Affordable
  <2> QED BY <1>0, <1>5, <2>1, <2>2
<1>7. ASSUME NEW d \in Calls, pc'[d] \in Committed, tx'[d] # "landed"
      PROVE  Invested' + size'[d] + MinReserve <= balance'
  <2>1. CASE d = c
    BY <1>0, <1>1, <1>2, <1>4, <1>6, <2>1
  <2>2. CASE d # c
    BY <1>0, <1>1, <1>2, <1>4, <1>7, <2>2 DEF Funded
  <2> QED BY <2>1, <2>2
<1>8. \A d \in Calls : pc'[d] \in {"looked", "admitted"} => pc[d] \in {"looked", "admitted"}
  BY <1>0, <1>2
<1>9. Committed' = Committed /\ LargestSize' = LargestSize
  BY DEF Committed, ProbeStages
<1> QED BY <1>2, <1>4, <1>7, <1>8, <1>9 DEF Funded

\* The snapshot of a call that runs alone counts at least what the rows hold.
LEMMA BeginFunded ==
    ASSUME CapitalFits, CallsInv, AmountTypes, Covered, Funded, NEW c \in Calls, Begin(c), Kept'
    PROVE  Funded'
<1>0. /\ pc \in [Calls -> Stages] /\ before \in [Calls -> SUBSET Calls]
      /\ exposure \in [Calls -> Nat] /\ Invested \in Nat
  BY CountedFinite DEF CallsInv, RowInv, RowTypes, AmountTypes
<1>1. /\ pc[c] = "idle" /\ pc' = [pc EXCEPT ![c] = "looked"]
      /\ before' = [before EXCEPT ![c] = {d \in Calls : Over(d)}]
      /\ exposure' = [exposure EXCEPT ![c] = SumFunctionOnSet([r \in Calls |-> WorthOf(r)], OpenRows)]
      /\ UNCHANGED <<size, tx, written, status, amount, value, balance>>
  BY DEF Begin, Goto, rows
<1>2. \A d \in Calls : ~ Active(d)
  <2> SUFFICES ASSUME NEW d \in Calls, Active(d) PROVE FALSE
    OBVIOUS
  <2>1. d # c /\ pc'[d] = pc[d] /\ pc[d] # "idle" /\ before'[d] = before[d] /\ pc'[c] = "looked"
    BY <1>0, <1>1 DEF Active
  <2>2. d \notin before'[c]
    BY <1>0, <1>1 DEF Active
  <2>3. c \notin before[d]
    BY <1>1 DEF CallsInv, RowInv, SnapshotsHold, Over
  <2> QED BY <2>1, <2>2, <2>3 DEF Kept, Overlap
<1>3. status[c] = "none"
  BY <1>1 DEF CallsInv, RowInv, RowTypes, RowsFollowCalls
<1>4. Counted' = Counted
  BY <1>0, <1>1, <1>3 DEF Counted, OpenRows, Active, Over
<1>5. Invested' = Invested
  BY <1>1, <1>4 DEF Invested
<1>6. Invested <= exposure'[c]
  <2> DEFINE worth == [r \in Calls |-> WorthOf(r)]
  <2>1. \A r \in OpenRows : worth[r] \in Nat
    BY RowsFinite, AmountsAssumption DEF WorthOf, AmountTypes
  <2>2. \A r \in Counted : value[r] > 0 /\ amount[r] <= value[r] /\ r \in Calls
    BY <1>2 DEF Counted, OpenRows, Covered
  <2>3. \A r \in Counted : amount[r] \in Nat /\ amount[r] <= worth[r]
    BY <2>2, CountedFinite DEF WorthOf
  <2>4. Counted \subseteq OpenRows
    BY DEF Counted
  <2>5. exposure'[c] = SumFunctionOnSet(worth, OpenRows)
    BY <1>0, <1>1
  <2> HIDE DEF worth
  <2>6. SumFunctionOnSet(amount, Counted) <= SumFunctionOnSet(worth, OpenRows)
    BY <2>1, <2>3, <2>4, RowsFinite, SumShrinks
  <2> QED BY <2>5, <2>6 DEF Invested
<1>7. \A d \in Calls : pc'[d] \in {"looked", "admitted"} => Invested' <= exposure'[d]
  BY <1>0, <1>1, <1>5, <1>6 DEF Funded
<1>8. \A d \in Calls : pc'[d] \in Committed => pc[d] \in Committed
  BY <1>0, <1>1 DEF Committed, ProbeStages
<1>9. Committed' = Committed /\ LargestSize' = LargestSize
  BY DEF Committed, ProbeStages
<1> QED BY <1>1, <1>5, <1>7, <1>8, <1>9 DEF Funded

\* What a buy spends when it lands was set aside for it.
LEMMA LandFunded ==
    ASSUME CapitalFits, CallsInv, AmountTypes, Kept, Funded, NEW c \in Calls, Land(c), Kept'
    PROVE  Funded'
<1>0. /\ pc \in [Calls -> Stages] /\ Invested \in Nat /\ balance \in Nat /\ size[c] \in Nat
      /\ tx \in [Calls -> {"none", "flying", "landed", "failed", "expired"}]
      /\ MinReserve \in Nat /\ LargestSize \in Nat
  BY CountedFinite, SizesAreNat, LargestExists, AmountsAssumption
     DEF CallsInv, RowInv, RowTypes, FillInv, AmountTypes
<1>1. /\ tx[c] = "flying" /\ tx' = [tx EXCEPT ![c] = "landed"]
      /\ balance' = balance - size[c]
      /\ UNCHANGED <<pc, exposure, size, written, status, amount, value>>
  BY DEF Land, rows
<1>2. c \notin written
  BY <1>1 DEF CallsInv, GoneInv, LandedFirst
<1>3. Active(c) /\ pc[c] \in Committed
  <2>1. Active(c)
    BY <1>0, <1>1, <1>2 DEF Kept, Active, Over
  <2> QED BY <1>0, <1>1, <1>2, <2>1 DEF Active, Over, CallsInv, FillInv, Unsent, GoneInv,
     LandedFirst, Committed, Stages, ProbeStages
<1>4. \A d \in Calls : Active(d) => d = c
  BY <1>3, OneActive DEF CallsInv
<1>5. Counted' = Counted /\ Invested' = Invested
  BY <1>1 DEF Counted, OpenRows, Active, Over, Invested
<1>6. Invested + size[c] + MinReserve <= balance
  BY <1>1, <1>3 DEF Funded
<1>7. Invested' + MinReserve <= balance' /\ Invested' + MinReserve <= balance' + LargestSize
  BY <1>0, <1>1, <1>5, <1>6
<1>8. \A d \in Calls : pc'[d] \in {"looked", "admitted"} => FALSE
  BY <1>1, <1>3, <1>4 DEF Active, Over, Committed, ProbeStages
<1>9. \A d \in Calls : pc'[d] \in Committed => tx'[d] = "landed"
  BY <1>0, <1>1, <1>4 DEF Active, Over, Committed, ProbeStages
<1>10. Committed' = Committed /\ LargestSize' = LargestSize
  BY DEF Committed, ProbeStages
<1> QED BY <1>7, <1>8, <1>9, <1>10 DEF Funded

\* A fill enters its row: what is invested grows by one buy, the call's own.
LEMMA WriteFunded ==
    ASSUME CapitalFits, CallsInv, AmountTypes, AmountTypes', AuditsOwn, Kept, Funded,
           NEW c \in Calls, CreateRow(c) \/ ScaleIn(c)
    PROVE  Funded'
<1> DEFINE r == target[c]
<1>0. /\ pc \in [Calls -> Stages] /\ Invested \in Nat /\ balance \in Nat /\ size[c] \in Nat
      /\ written \subseteq Calls /\ r \in Calls /\ amount \in [Calls -> Nat] /\ value \in [Calls -> Nat]
      /\ status \in [Calls -> {"none", "OPEN", "CLOSED"}]
      /\ MinReserve \in Nat /\ LargestSize \in Nat /\ size[c] <= LargestSize
  BY CountedFinite, SizesAreNat, LargestExists, AmountsAssumption
     DEF CallsInv, RowInv, RowTypes, FillInv, AmountTypes
<1>1. /\ pc[c] = "filled" /\ written' = written \union {c}
      /\ \/ r = c /\ pc' = [pc EXCEPT ![c] = "auditing"]
         \/ r # c /\ pc' = [pc EXCEPT ![c] = "done"]
      /\ UNCHANGED <<tx, exposure, size, balance>>
  BY DEF CreateRow, ScaleIn, Enter, Goto, IsNew
<1>2. tx[c] = "landed" /\ c \notin written /\ Active(c)
  BY <1>1 DEF CallsInv, GoneInv, LandedFirst, Active, Over
<1>3. \A d \in Calls : Active(d) => d = c
  BY <1>2, OneActive DEF CallsInv
<1>4. Invested + MinReserve <= balance
  BY <1>2 DEF Funded
<1>5. /\ Counted' \subseteq Counted \union {r}
      /\ \A q \in Calls \ {r} : amount'[q] = amount[q]
      /\ amount'[r] <= (IF r \in Counted THEN amount[r] ELSE 0) + size[c] \/ r \notin Counted'
  <2>1. CASE CreateRow(c)
    <3>1. /\ r = c /\ status' = [status EXCEPT ![c] = "OPEN"] /\ value' = value
          /\ amount' = [amount EXCEPT ![c] = size[c]]
      BY <2>1 DEF CreateRow, IsNew
    <3>2. Counted' \subseteq Counted \union {r}
      BY <1>0, <1>1, <3>1 DEF Counted, OpenRows, Active, Over
    <3> QED BY <1>0, <3>1, <3>2
  <2>2. CASE ScaleIn(c)
    <3>1. /\ r # c /\ status' = status
          /\ value' = [value EXCEPT ![r] = ScaledValue(c)]
          /\ amount' = [amount EXCEPT ![r] = @ + size[c]]
      BY <2>2 DEF ScaleIn, IsNew
    <3>2. Counted' \subseteq Counted \union {r}
      BY <1>0, <1>1, <3>1 DEF Counted, OpenRows, Active, Over
    <3>3. r \in Counted' => r \in Counted
      BY <1>0, <1>1, <3>1 DEF Counted, OpenRows, Active, Over, ScaledValue
    <3> QED BY <1>0, <3>1, <3>2, <3>3
  <2> QED BY <2>1, <2>2
<1>6. Invested' <= Invested + size[c] /\ Invested' \in Nat
  <2> DEFINE rest == Counted' \ {r}
             old == Counted \ {r}
  <2>0. IsFiniteSet(Counted) /\ IsFiniteSet(Counted') /\ Counted \subseteq Calls
        /\ Invested' \in Nat /\ \A q \in Calls : amount[q] \in Nat /\ amount'[q] \in Nat
    <3>1. IsFiniteSet(Counted) /\ Counted \subseteq Calls
      BY CountedFinite
    <3>2. Counted' \subseteq Calls
      BY <1>0, <1>5, <3>1
    <3>3. IsFiniteSet(Counted')
      BY <3>2, CallsAssumption, FS_Subset
    <3>4. \A q \in Calls : amount[q] \in Nat /\ amount'[q] \in Nat
      BY DEF AmountTypes
    <3>5. \A q \in Counted' : amount'[q] \in Nat
      BY <3>2, <3>4
    <3>6. SumFunctionOnSet(amount', Counted') \in Nat
      BY <3>3, <3>5, SumNat
    <3> QED BY <3>1, <3>3, <3>4, <3>6 DEF Invested
  <2>1. /\ rest \subseteq old /\ IsFiniteSet(old) /\ IsFiniteSet(rest)
        /\ \A q \in old : amount[q] \in Nat
        /\ \A q \in rest : amount'[q] \in Nat /\ amount'[q] <= amount[q]
    <3>1. IsFiniteSet(old) /\ IsFiniteSet(rest)
      BY <2>0, FS_Subset
    <3>2. rest \subseteq old
      BY <1>5
    <3>3. \A q \in rest : q \in Calls \ {r}
      BY <2>0, <3>2
    <3>4. \A q \in rest : amount'[q] = amount[q]
      BY <1>5, <3>3
    <3>5. \A q \in rest : amount'[q] \in Nat /\ amount'[q] <= amount[q]
      BY <2>0, <3>3, <3>4
    <3>6. \A q \in old : amount[q] \in Nat
      BY <2>0
    <3> QED BY <3>1, <3>2, <3>5, <3>6
  <2>2. SumFunctionOnSet(amount', rest) <= SumFunctionOnSet(amount, old)
        /\ SumFunctionOnSet(amount', rest) \in Nat /\ SumFunctionOnSet(amount, old) \in Nat
    <3> HIDE DEF rest, old
    <3> QED BY <2>1, SumShrinks
  <2>3. r \in Counted => Invested = amount[r] + SumFunctionOnSet(amount, old)
    <3>1. \A q \in Counted : amount[q] \in Int
      BY <2>0
    <3>2. r \in Counted => SumFunctionOnSet(amount, Counted) = amount[r] + SumFunctionOnSet(amount, Counted \ {r})
      BY <2>0, <3>1, SumRemove
    <3> QED BY <3>2 DEF Invested
  <2>4. r \notin Counted => old = Counted
    OBVIOUS
  <2>5. r \in Counted' => Invested' = amount'[r] + SumFunctionOnSet(amount', rest)
    <3>1. \A q \in Counted' : amount'[q] \in Int
      BY <1>0, <1>5, <2>0
    <3>2. r \in Counted' => SumFunctionOnSet(amount', Counted') = amount'[r] + SumFunctionOnSet(amount', Counted' \ {r})
      BY <2>0, <3>1, SumRemove
    <3> QED BY <3>2 DEF Invested
  <2>6. r \notin Counted' => Invested' = SumFunctionOnSet(amount', rest)
    <3>1. r \notin Counted' => rest = Counted'
      OBVIOUS
    <3> QED BY <3>1 DEF Invested
  <2>7. r \notin Counted => Invested = SumFunctionOnSet(amount, old)
    BY <2>4 DEF Invested
  <2>8. amount[r] \in Nat /\ amount'[r] \in Nat
    BY <1>0, <2>0
  <2> HIDE DEF rest, old, r
  <2>9. CASE r \in Counted'
    BY <1>0, <1>5, <2>0, <2>2, <2>3, <2>5, <2>7, <2>8, <2>9
  <2>10. CASE r \notin Counted'
    BY <1>0, <2>0, <2>2, <2>3, <2>6, <2>7, <2>8, <2>10
  <2> QED BY <2>0, <2>9, <2>10
<1>7. Invested' + MinReserve <= balance' + LargestSize
  <2>1. \A i, j, s, m, b, l \in Nat : i <= j + s /\ j + m <= b /\ s <= l => i + m <= b + l
    OBVIOUS
  <2> QED BY <1>0, <1>1, <1>4, <1>6, <2>1
<1>8. \A d \in Calls : pc'[d] \notin Committed /\ pc'[d] \notin {"looked", "admitted"}
  BY <1>0, <1>1, <1>3 DEF Active, Over, Committed, ProbeStages
<1>9. \A d \in Calls : tx'[d] = "landed" => d \in written'
  BY <1>1, <1>3 DEF Kept
<1>10. Committed' = Committed /\ LargestSize' = LargestSize
  BY DEF Committed, ProbeStages
<1> QED BY <1>7, <1>8, <1>9, <1>10 DEF Funded

LEMMA CapitalStep ==
    ASSUME CapitalFits, CallsInv, AmountTypes, CapitalInv, [Next]_vars
    PROVE  CapitalInv'
<1>1. AmountTypes' /\ AuditsOwn'
  BY AmountStep, AuditsStep DEF CallsInv, CapitalInv
<1>2. ASSUME Kept' PROVE Covered' /\ Funded'
  <2>1. Kept /\ Covered /\ Funded /\ AuditsOwn
    BY <1>2, KeptBefore DEF CapitalInv
  <2>2. Covered'
    BY <2>1, CoveredStep
  <2>3. ASSUME NEW c \in Calls, CreateRow(c) \/ ScaleIn(c) PROVE Funded'
    BY <1>1, <2>1, <2>3, WriteFunded
  <2>4. ASSUME NEW c \in Calls, Begin(c) \/ PassGuards(c) \/ Land(c) PROVE Funded'
    BY <1>2, <2>1, <2>4, BeginFunded, PassFunded, LandFunded
  <2>5. CASE \A c \in Calls : /\ ~ Begin(c) /\ ~ PassGuards(c) /\ ~ CreateRow(c)
                              /\ ~ ScaleIn(c) /\ ~ Land(c)
    BY <1>1, <2>1, <2>2, <2>5, MostStepsEase, EaseStep
  <2> QED BY <2>2, <2>3, <2>4, <2>5
<1> QED BY <1>1, <1>2 DEF CapitalInv

\* The free balance covers the reserve and everything invested but the last
\* buy (CapitalKept: the capital guard of attemptBuy), while no calls overlap,
\* no fill is outside the rows and no row has lost its value.
THEOREM CapitalIsKept ==
    ASSUME CapitalFits
    PROVE  Spec => []CapitalKept
<1>1. Init => AmountTypes /\ CapitalInv
  <2> SUFFICES ASSUME Init PROVE AmountTypes /\ CapitalInv
    OBVIOUS
  <2>1. AmountTypes
    BY AmountsAssumption DEF Init, AmountTypes
  <2>2. Counted = {}
    BY DEF Init, Counted, OpenRows
  <2>3. Invested = 0
    BY <2>2, SumEmpty DEF Invested
  <2>4. Funded
    BY <2>3, LargestExists, AmountsAssumption DEF Init, Funded, Committed, ProbeStages, CapitalFits
  <2> QED BY <2>1, <2>4 DEF Init, CapitalInv, AuditsOwn, Covered
<1>2. CallsInv /\ AmountTypes /\ CapitalInv /\ [Next]_vars => (AmountTypes /\ CapitalInv)'
  BY AmountStep, CapitalStep DEF CallsInv
<1>3. CallsInv /\ AmountTypes /\ CapitalInv => CapitalKept
  <2> SUFFICES ASSUME AmountTypes, CapitalInv, Undisturbed
               PROVE  balance + LargestSize >= MinReserve + SumFunctionOnSet(amount, OpenRows)
    BY DEF CapitalKept
  <2>1. Kept /\ OpenRows = Counted
    BY DEF Undisturbed, Kept, Counted
  <2>2. Invested + MinReserve <= balance + LargestSize
    BY <2>1 DEF CapitalInv, Funded
  <2>3. Invested = SumFunctionOnSet(amount, OpenRows) /\ Invested \in Nat /\ MinReserve \in Nat
    BY <2>1, CountedFinite, AmountsAssumption DEF Invested
  <2>4. balance \in Nat /\ LargestSize \in Nat
    BY LargestExists DEF AmountTypes
  <2> QED BY <2>2, <2>3, <2>4
<1> QED BY <1>1, <1>2, <1>3, CallsInvariant, PTL DEF Spec
=============================================================================
