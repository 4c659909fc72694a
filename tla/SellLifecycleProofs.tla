------------------------- MODULE SellLifecycleProofs -------------------------
(***************************************************************************)
(* Theorems about SellLifecycle, for every number of calls, transactions   *)
(* and tokens and every length of the two windows.                         *)
(***************************************************************************)
EXTENDS SellLifecycle, TLAPS


------------------------------------------------------------------------------
(* Types *)

\* The amount of a sell is a number of tokens.
LEMMA SellAmountType ==
    ASSUME NEW e, NEW b \in Nat
    PROVE  SellAmount(e, b) \in Nat
BY DEF SellAmount, IsFull

\* The constant records are well typed.
LEMMA ConstantTypes ==
    /\ NoRecord \in Record
    /\ NoCall \in Call
    /\ Unsent \in Transaction
BY WindowAssumption DEF NoRecord, Record, NoCall, Call, Unsent, Transaction

\* Ageing a record and pruning it on load keep its type.
LEMMA RecordTypes ==
    ASSUME NEW r \in Record
    PROVE  Aged(r) \in Record /\ Kept(r) \in Record
<1>1. Kept(r) \in Record
  BY ConstantTypes DEF Kept
<1>2. CASE r.age <= TTL
  <2>1. r.age \in 0..(TTL + 1)
    BY DEF Record
  <2>2. r.age + 1 \in 0..(TTL + 1)
    BY <1>2, <2>1, WindowAssumption
  <2>3. [r EXCEPT !.age = @ + 1] \in Record
    BY <2>2 DEF Record
  <2> QED BY <1>1, <2>3 DEF Aged
<1>3. CASE ~(r.age <= TTL)
  BY <1>1, <1>3 DEF Aged
<1> QED BY <1>2, <1>3

\* Initially every variable has its type.
LEMMA TypeInit == Init => TypeOK
<1> SUFFICES ASSUME Init PROVE TypeOK
  OBVIOUS
<1> USE DEF Init
<1>1. chain \in [TxIds -> Transaction]
  BY ConstantTypes
<1>2. mem \in Record /\ disk \in Record
  BY ConstantTypes
<1>3. pc \in [Sellers -> Labels]
  BY DEF Labels
<1>4. call \in [Sellers -> Call]
  BY ConstantTypes
<1>5. credit \in [TxIds -> Nat]
  OBVIOUS
<1>6. row \in [status : {"OPEN", "CLOSED"}, exit : {"none", "fill", "zero", "simulated", "manual"}]
  OBVIOUS
<1> QED BY <1>1, <1>2, <1>3, <1>4, <1>5, <1>6, BagAssumption DEF TypeOK

\* A field of a call changes to a value of its type.
LEMMA CallTypes ==
    ASSUME NEW c \in Call
    PROVE  /\ \A e \in Exits : [c EXCEPT !.exit = e] \in Call
           /\ \A d \in BOOLEAN : [c EXCEPT !.dry = d] \in Call
           /\ \A t \in TxIds : [c EXCEPT !.sig = t] \in Call
           /\ \A t \in TxIds, e \in Exits \union {"none"} :
                 [c EXCEPT !.sig = t, !.exit = e] \in Call
           /\ \A n \in Nat : [c EXCEPT !.amount = n] \in Call
           /\ [c EXCEPT !.retry = @ + 1, !.sig = NoTx] \in Call
<1>1. ASSUME NEW e \in Exits PROVE [c EXCEPT !.exit = e] \in Call
  BY DEF Call
<1>2. ASSUME NEW d \in BOOLEAN PROVE [c EXCEPT !.dry = d] \in Call
  BY DEF Call
<1>3. ASSUME NEW t \in TxIds PROVE [c EXCEPT !.sig = t] \in Call
  BY DEF Call
<1>4. ASSUME NEW t \in TxIds, NEW e \in Exits \union {"none"}
      PROVE  [c EXCEPT !.sig = t, !.exit = e] \in Call
  BY DEF Call
<1>5. ASSUME NEW n \in Nat PROVE [c EXCEPT !.amount = n] \in Call
  BY DEF Call
<1>6. [c EXCEPT !.retry = @ + 1, !.sig = NoTx] \in Call
  <2>1. ASSUME NEW n \in Nat PROVE [c EXCEPT !.retry = n, !.sig = NoTx] \in Call
    BY DEF Call
  <2>2. c.retry + 1 \in Nat
    BY DEF Call
  <2> QED BY <2>1, <2>2
<1> QED BY <1>1, <1>2, <1>3, <1>4, <1>5, <1>6

\* Every step of a call keeps the type of the locals.
LEMMA CallStep ==
    ASSUME TypeOK, NEW s \in Sellers, Step(s)
    PROVE  call' \in [Sellers -> Call]
<1>0. call \in [Sellers -> Call] /\ call[s] \in Call
  BY DEF TypeOK
<1>1. CASE Lock(s)
  <2> DEFINE dry == ~ForcesLive(call[s].exit) /\ dryRun
  <2>1. [call[s] EXCEPT !.dry = dry] \in Call
    BY <1>0, CallTypes
  <2>2. call' = [call EXCEPT ![s] = [call[s] EXCEPT !.dry = dry]]
    BY <1>1 DEF Lock
  <2> HIDE DEF dry
  <2> QED BY <1>0, <2>1, <2>2
<1>2. CASE FoundLanded(s)
  <2>1. mem.tx \in TxIds /\ mem.exit \in Exits \union {"none"}
    BY <1>2 DEF FoundLanded, TypeOK, Record
  <2>2. [call[s] EXCEPT !.sig = mem.tx, !.exit = mem.exit] \in Call
    BY <1>0, <2>1, CallTypes
  <2> QED BY <1>0, <1>2, <2>2 DEF FoundLanded
<1>3. CASE ReadBalance(s)
  <2>1. SellAmount(call[s].exit, bag) \in Nat
    BY SellAmountType DEF TypeOK
  <2>2. [call[s] EXCEPT !.amount = SellAmount(call[s].exit, bag)] \in Call
    BY <1>0, <2>1, CallTypes
  <2> QED BY <1>0, <1>3, <2>2 DEF ReadBalance
<1>4. CASE \E t \in TxIds, reached \in BOOLEAN : Broadcast(s, t, reached)
  <2>1. PICK t \in TxIds : call' = [call EXCEPT ![s] = [call[s] EXCEPT !.sig = t]]
    BY <1>4 DEF Broadcast
  <2> QED BY <1>0, <2>1, CallTypes
<1>5. CASE ResendAfterSlippage(s)
  BY <1>0, <1>5, CallTypes DEF ResendAfterSlippage
<1>6. CASE UNCHANGED call \/ Release(s) \/ call' = [call EXCEPT ![s] = NoCall]
  BY <1>0, <1>6, ConstantTypes DEF Release
<1> QED
  BY <1>1, <1>2, <1>3, <1>4, <1>5, <1>6
  DEF Step, SkipLocked, NothingPending, StillUnknown, FoundDead, RecoverFill, RecoverNothing, CloseOnZero, NoBalance, Simulate, SwapNotSent, Confirmed, FailedOnChain, Unconfirmed, WriteRow, RaceClosed, BookProfit, Throw

\* A transaction that is sent is well typed.
LEMMA SentType ==
    ASSUME NEW n \in Nat, NEW st \in {"flying", "dropped"}
    PROVE  [st |-> st, amount |-> n, age |-> 0] \in Transaction
<1>1. 0 \in 0..Lifetime
  BY WindowAssumption
<1>2. CASE st = "flying"
  BY <1>1, <1>2 DEF Transaction
<1>3. CASE st = "dropped"
  BY <1>1, <1>3 DEF Transaction
<1> QED BY <1>2, <1>3

\* A call at the gate or behind it sells for real; one that recovers, confirms
\* or records a real sell holds its signature.  Without this the type of
\* credit, booked and the alerts is not inductive.
HoldsSignature(s) ==
    /\ pc[s] \in {"gate", "recover", "confirm"} => ~call[s].dry
    /\ pc[s] \in {"recover", "confirm"} => call[s].sig \in TxIds
    /\ pc[s] \in {"record", "book"} /\ ~call[s].dry => call[s].sig \in TxIds

SignaturesHeld == \A s \in Sellers : HoldsSignature(s)

\* Every step of a call keeps the types.
LEMMA TypeStep ==
    ASSUME TypeOK, SignaturesHeld, NEW s \in Sellers, Step(s)
    PROVE  TypeOK'
<1>0. call' \in [Sellers -> Call]
  BY CallStep
<1> USE <1>0 DEF TypeOK, Release, Goto, Labels, ledgerRow, world, store, alerts
<1>1. CASE Lock(s)
  BY <1>1 DEF Lock
<1>2. CASE SkipLocked(s)
  BY <1>2 DEF SkipLocked
<1>3. CASE NothingPending(s)
  BY <1>3 DEF NothingPending
<1>4. CASE StillUnknown(s)
  BY <1>4 DEF StillUnknown
<1>5. CASE FoundLanded(s)
  BY <1>5, ConstantTypes DEF FoundLanded, Forget, Save, Persist
<1>6. CASE FoundDead(s)
  BY <1>6, ConstantTypes DEF FoundDead, Forget, Save, Persist, Record
<1>7. CASE RecoverFill(s)
  BY <1>7 DEF RecoverFill
<1>8. CASE RecoverNothing(s)
  BY <1>8 DEF RecoverNothing, SignaturesHeld, HoldsSignature
<1>9. CASE ReadBalance(s)
  BY <1>9 DEF ReadBalance
<1>10. CASE CloseOnZero(s)
  <2>1. \/ row' = [status |-> "CLOSED", exit |-> "zero"]
           /\ booked' = {} /\ erased' = erased \union booked /\ credit' = credit
        \/ row' = row /\ booked' = booked /\ erased' = erased /\ credit' = credit
    BY <1>10 DEF CloseOnZero
  <2>2. /\ row' \in [status : {"OPEN", "CLOSED"},
                     exit : {"none", "fill", "zero", "simulated", "manual"}]
        /\ credit' \in [TxIds -> Nat]
    BY <2>1
  <2>3. booked' \subseteq TxIds /\ erased' \subseteq TxIds
    BY <2>1
  <2>4. /\ pc' \in [Sellers -> Labels] /\ selling' \in BOOLEAN
        /\ UNCHANGED <<chain, bag, mem, disk, dryRun, raced, unrecovered, givenUp>>
    BY <1>10 DEF CloseOnZero
  <2> QED BY <2>2, <2>3, <2>4
<1>11. CASE NoBalance(s)
  BY <1>11 DEF NoBalance
<1>12. CASE Simulate(s)
  BY <1>12 DEF Simulate
<1>13. CASE SwapNotSent(s)
  BY <1>13 DEF SwapNotSent
<1>14. CASE \E t \in TxIds, reached \in BOOLEAN : Broadcast(s, t, reached)
  <2>1. PICK t \in TxIds, reached \in BOOLEAN : Broadcast(s, t, reached)
    BY <1>14
  <2>2. call[s].amount \in Nat
    BY DEF Call
  <2>3. chain' \in [TxIds -> Transaction]
    BY <2>1, <2>2, SentType DEF Broadcast
  <2> QED BY <2>1, <2>3 DEF Broadcast
<1>15. CASE Confirmed(s)
  BY <1>15 DEF Confirmed
<1>16. CASE ResendAfterSlippage(s)
  BY <1>16 DEF ResendAfterSlippage
<1>17. CASE FailedOnChain(s)
  BY <1>17 DEF FailedOnChain
<1>18. CASE Unconfirmed(s)
  <2>1. call[s].sig \in TxIds /\ call[s].exit \in Exits \union {"none"}
    BY <1>18 DEF Unconfirmed, Call, SignaturesHeld, HoldsSignature
  <2>2. [tx |-> call[s].sig, exit |-> call[s].exit, age |-> 0] \in Record
    BY <2>1, WindowAssumption DEF Record
  <2> QED BY <1>18, <2>2 DEF Unconfirmed, Save, Persist
<1>19. CASE WriteRow(s)
  <2>1. row' \in [status : {"OPEN", "CLOSED"},
                  exit : {"none", "fill", "zero", "simulated", "manual"}]
    BY <1>19 DEF WriteRow, CloseKind
  <2>2. credit' \in [TxIds -> Nat]
    BY <1>19 DEF WriteRow, SignaturesHeld, HoldsSignature
  <2> QED BY <1>19, <2>1, <2>2 DEF WriteRow
<1>20. CASE RaceClosed(s)
  BY <1>20 DEF RaceClosed, SignaturesHeld, HoldsSignature
<1>21. CASE BookProfit(s)
  BY <1>21 DEF BookProfit, SignaturesHeld, HoldsSignature
<1>22. CASE Throw(s)
  BY <1>22 DEF Throw
<1> QED
  BY <1>1, <1>2, <1>3, <1>4, <1>5, <1>6, <1>7, <1>8, <1>9, <1>10, <1>11, <1>12, <1>13, <1>14, <1>15, <1>16, <1>17, <1>18, <1>19, <1>20, <1>21, <1>22 DEF Step

\* What the environment does keeps the types.
LEMMA TypeEnvironment ==
    ASSUME TypeOK, Environment
    PROVE  TypeOK'
<1> USE DEF TypeOK, Labels, ledgerRow, world, store, alerts, control
<1>1. CASE \E t \in TxIds : Land(t)
  BY <1>1 DEF Land, Transaction
<1>2. CASE \E t \in TxIds : FailOnChain(t)
  BY <1>2 DEF FailOnChain, Transaction
<1>3. CASE Tick
  <2>1. ASSUME NEW t \in TxIds, chain[t].age < Lifetime
        PROVE  [chain[t] EXCEPT !.age = @ + 1] \in Transaction
    <3>1. chain[t].age + 1 \in 0..Lifetime
      BY <2>1, WindowAssumption DEF Transaction
    <3> QED BY <3>1 DEF Transaction
  <2>2. ASSUME NEW t \in TxIds
        PROVE  [chain[t] EXCEPT !.st = "dropped"] \in Transaction
    BY DEF Transaction
  <2>3. chain' \in [TxIds -> Transaction]
    BY <1>3, <2>1, <2>2 DEF Tick
  <2> QED BY <1>3, <2>3, RecordTypes DEF Tick
<1>4. CASE Crash
  BY <1>4, RecordTypes, ConstantTypes DEF Crash, Persist
<1>5. CASE ToggleDryRun
  BY <1>5 DEF ToggleDryRun
<1>6. CASE OperatorCloses
  BY <1>6 DEF OperatorCloses
<1> QED BY <1>1, <1>2, <1>3, <1>4, <1>5, <1>6 DEF Environment
------------------------------------------------------------------------------
(* One call does not touch another *)

\* A step of one call leaves the program counter and the locals of the others.
LEMMA OthersUntouched ==
    ASSUME TypeOK, NEW s \in Sellers, Step(s), NEW r \in Sellers, r # s
    PROVE  pc'[r] = pc[r] /\ call'[r] = call[r]
<1>1. pc \in [Sellers -> Labels] /\ call \in [Sellers -> Call]
  BY DEF TypeOK
<1> QED
  BY <1>1
  DEF Step, Goto, Release, Lock, SkipLocked, NothingPending,
      StillUnknown, FoundLanded, FoundDead, RecoverFill, RecoverNothing,
      ReadBalance, CloseOnZero, NoBalance, Simulate, SwapNotSent, Broadcast,
      Confirmed, ResendAfterSlippage, FailedOnChain, Unconfirmed, WriteRow,
      RaceClosed, BookProfit, Throw

\* The environment either leaves the calls alone or, on a crash, ends them all.
LEMMA CallsInEnvironment ==
    ASSUME Environment
    PROVE  \/ UNCHANGED <<pc, call, selling>>
           \/ /\ pc' = [s \in Sellers |-> "idle"]
              /\ call' = [s \in Sellers |-> NoCall]
BY DEF Environment, Land, FailOnChain, Tick, Crash, ToggleDryRun,
       OperatorCloses, control

\* Initially no call holds a signature.
LEMMA SignaturesInit == Init => SignaturesHeld
BY DEF Init, SignaturesHeld, HoldsSignature

\* A step of a call keeps its own signature discipline.
LEMMA SignatureOfStep ==
    ASSUME TypeOK, SignaturesHeld, NEW s \in Sellers, Step(s)
    PROVE  HoldsSignature(s)'
<1>0. pc \in [Sellers -> Labels] /\ call \in [Sellers -> Call] /\ HoldsSignature(s)
  BY DEF TypeOK, SignaturesHeld
<1> USE <1>0 DEF HoldsSignature, Goto, Release
<1>1. CASE Lock(s)
  BY <1>1 DEF Lock, Call
<1>2. CASE SkipLocked(s)
  BY <1>2 DEF SkipLocked, Call
<1>3. CASE NothingPending(s)
  BY <1>3 DEF NothingPending, Call
<1>4. CASE StillUnknown(s)
  BY <1>4 DEF StillUnknown, Call
<1>5. CASE FoundLanded(s)
  BY <1>5 DEF FoundLanded, Call, TypeOK, Record
<1>6. CASE FoundDead(s)
  BY <1>6 DEF FoundDead, Call
<1>7. CASE RecoverFill(s)
  BY <1>7 DEF RecoverFill, Call
<1>8. CASE RecoverNothing(s)
  BY <1>8 DEF RecoverNothing, Call
<1>9. CASE ReadBalance(s)
  BY <1>9 DEF ReadBalance, Call
<1>10. CASE CloseOnZero(s)
  BY <1>10 DEF CloseOnZero, Call
<1>11. CASE NoBalance(s)
  BY <1>11 DEF NoBalance, Call
<1>12. CASE Simulate(s)
  BY <1>12 DEF Simulate, Call
<1>13. CASE SwapNotSent(s)
  BY <1>13 DEF SwapNotSent, Call
<1>14. CASE \E t \in TxIds, reached \in BOOLEAN : Broadcast(s, t, reached)
  BY <1>14 DEF Broadcast, Call
<1>15. CASE Confirmed(s)
  BY <1>15 DEF Confirmed, Call
<1>16. CASE ResendAfterSlippage(s)
  BY <1>16 DEF ResendAfterSlippage, Call
<1>17. CASE FailedOnChain(s)
  BY <1>17 DEF FailedOnChain, Call
<1>18. CASE Unconfirmed(s)
  BY <1>18 DEF Unconfirmed, Call
<1>19. CASE WriteRow(s)
  BY <1>19 DEF WriteRow, Call
<1>20. CASE RaceClosed(s)
  BY <1>20 DEF RaceClosed, Call
<1>21. CASE BookProfit(s)
  BY <1>21 DEF BookProfit, Call
<1>22. CASE Throw(s)
  BY <1>22 DEF Throw, Call
<1> QED
  BY <1>1, <1>2, <1>3, <1>4, <1>5, <1>6, <1>7, <1>8, <1>9, <1>10, <1>11,
     <1>12, <1>13, <1>14, <1>15, <1>16, <1>17, <1>18, <1>19, <1>20, <1>21,
     <1>22 DEF Step

\* Every step keeps the signature discipline.
LEMMA SignaturesNext ==
    ASSUME TypeOK, SignaturesHeld, [Next]_vars
    PROVE  SignaturesHeld'
<1>1. ASSUME NEW s \in Sellers, Step(s) PROVE SignaturesHeld'
  BY <1>1, SignatureOfStep, OthersUntouched DEF SignaturesHeld, HoldsSignature
<1>2. ASSUME NEW s \in Sellers, NEW e \in Exits, Begin(s, e) PROVE SignaturesHeld'
  BY <1>2 DEF Begin, Goto, SignaturesHeld, HoldsSignature, TypeOK
<1>3. CASE Environment
  BY <1>3, CallsInEnvironment DEF SignaturesHeld, HoldsSignature
<1>4. CASE UNCHANGED vars
  BY <1>4 DEF vars, SignaturesHeld, HoldsSignature
<1> QED BY <1>1, <1>2, <1>3, <1>4 DEF Next

\* Every step keeps the types.
LEMMA TypeNext ==
    ASSUME TypeOK, SignaturesHeld, [Next]_vars
    PROVE  TypeOK'
<1>1. ASSUME NEW s \in Sellers, NEW e \in Exits, Begin(s, e) PROVE TypeOK'
  <2>1. [call[s] EXCEPT !.exit = e] \in Call
    BY CallTypes DEF TypeOK
  <2>2. call' \in [Sellers -> Call]
    BY <1>1, <2>1 DEF Begin, TypeOK
  <2> QED
    BY <1>1, <2>2 DEF Begin, Goto, TypeOK, Labels, ledgerRow, world, store, alerts
<1>2. CASE UNCHANGED vars
  BY <1>2 DEF vars, TypeOK
<1> QED BY <1>1, <1>2, TypeStep, TypeEnvironment DEF Next

\* Types and signature discipline together are inductive.
LEMMA TypesAndSignatures == Spec => [](TypeOK /\ SignaturesHeld)
<1>1. Init => TypeOK /\ SignaturesHeld
  BY TypeInit, SignaturesInit
<1>2. TypeOK /\ SignaturesHeld /\ [Next]_vars => (TypeOK /\ SignaturesHeld)'
  BY TypeNext, SignaturesNext
<1> QED BY <1>1, <1>2, PTL DEF Spec

\* Every variable of the sell side keeps its type, for every number of calls
\* and transactions.
THEOREM TypeCorrect == Spec => []TypeOK
BY TypesAndSignatures, PTL

------------------------------------------------------------------------------
(* The lock *)

InLock(s) == pc[s] \notin {"idle", "snapshot"}

\* sellingTrades excludes: at most one call is past the lock, and while one is,
\* the trade id is in the set.
LockExcludes ==
    /\ \A s \in Sellers : InLock(s) => selling
    /\ \A s, r \in Sellers : InLock(s) /\ InLock(r) => s = r

\* A step of a call in the lock keeps the lock or leaves it; a call outside
\* enters only a free lock, and cannot release one it does not hold.
LEMMA LockOfStep ==
    ASSUME TypeOK, NEW s \in Sellers, Step(s)
    PROVE  \/ InLock(s) /\ InLock(s)' /\ UNCHANGED selling
           \/ InLock(s) /\ ~InLock(s)' /\ ~selling'
           \/ ~InLock(s) /\ ~InLock(s)' /\ UNCHANGED selling
           \/ ~InLock(s) /\ InLock(s)' /\ ~selling /\ selling'
<1>1. pc \in [Sellers -> Labels]
  BY DEF TypeOK
<1> QED
  BY <1>1
  DEF Step, Goto, Release, InLock, Labels, Lock, SkipLocked,
      NothingPending, StillUnknown, FoundLanded, FoundDead, RecoverFill,
      RecoverNothing, ReadBalance, CloseOnZero, NoBalance, Simulate,
      SwapNotSent, Broadcast, Confirmed, ResendAfterSlippage,
      FailedOnChain, Unconfirmed, WriteRow, RaceClosed, BookProfit,
      Throw

\* The lock excludes, at every moment of every behaviour.
LEMMA LockNext ==
    ASSUME TypeOK, LockExcludes, [Next]_vars
    PROVE  LockExcludes'
<1>1. ASSUME NEW s \in Sellers, Step(s) PROVE LockExcludes'
  <2>1. ASSUME NEW r \in Sellers, r # s PROVE InLock(r)' <=> InLock(r)
    BY <1>1, <2>1, OthersUntouched DEF InLock
  <2> QED BY <1>1, <2>1, LockOfStep DEF LockExcludes
<1>2. ASSUME NEW s \in Sellers, NEW e \in Exits, Begin(s, e) PROVE LockExcludes'
  BY <1>2 DEF Begin, Goto, LockExcludes, InLock, TypeOK
<1>3. CASE Environment
  BY <1>3, CallsInEnvironment DEF LockExcludes, InLock
<1>4. CASE UNCHANGED vars
  BY <1>4 DEF vars, LockExcludes, InLock
<1> QED BY <1>1, <1>2, <1>3, <1>4 DEF Next

\* The lock is taken after the row was read, yet no two calls of executeSell
\* ever work on the trade at the same time.
THEOREM LockIsExclusive == Spec => []LockExcludes
<1>1. Init => LockExcludes
  BY DEF Init, LockExcludes, InLock
<1>2. TypeOK /\ LockExcludes /\ [Next]_vars => LockExcludes'
  BY LockNext
<1> QED BY <1>1, <1>2, TypeCorrect, PTL DEF Spec

------------------------------------------------------------------------------
(* At most one sell in flight *)

Flying(t) == chain[t].st = "flying"

\* The pending record that makes the gate wait for t at least as long as t can
\* still land.
RecordCovers(t) == mem.tx = t /\ mem.age <= chain[t].age

ConfirmCovers(t) == \E s \in Sellers : pc[s] = "confirm" /\ call[s].sig = t

\* Every transaction that can still land is covered by the record or by the
\* call that waits for it.
FlightsCovered == \A t \in TxIds : Flying(t) => RecordCovers(t) \/ ConfirmCovers(t)

\* A call that is about to sell for real, or has sold and waits, has resolved
\* what was pending.
GatePassed(s) ==
    \/ pc[s] \in {"recover", "confirm"}
    \/ pc[s] \in {"balance", "swap"} /\ ~call[s].dry

PendingResolvedBeforeSwap == \A s \in Sellers : GatePassed(s) => mem.tx = NoTx

FlightInv == FlightsCovered /\ PendingResolvedBeforeSwap

\* Past the gate nothing but the transaction of the call itself is in flight.
LEMMA OnlyOwnFlight ==
    ASSUME TypeOK, LockExcludes, FlightInv,
           NEW s \in Sellers, GatePassed(s), NEW t \in TxIds, Flying(t)
    PROVE  pc[s] = "confirm" /\ call[s].sig = t
<1>1. mem.tx = NoTx
  BY DEF FlightInv, PendingResolvedBeforeSwap
<1>2. ~RecordCovers(t)
  BY <1>1, NoTxAssumption DEF RecordCovers
<1>3. PICK r \in Sellers : pc[r] = "confirm" /\ call[r].sig = t
  BY <1>2 DEF FlightInv, FlightsCovered, ConfirmCovers
<1>4. InLock(s) /\ InLock(r)
  BY <1>3 DEF InLock, GatePassed
<1> QED BY <1>3, <1>4 DEF LockExcludes

\* A record that the gate discards belongs to a transaction that cannot land:
\* the window is at least as long as the blockhash lives.
LEMMA DiscardedIsNotFlying ==
    ASSUME TypeOK, LockExcludes, FlightInv, NEW s \in Sellers, pc[s] = "gate",
           mem.tx # NoTx, NEW view \in StatusViews(mem.tx),
           Fate(view, WindowElapsed(mem)) # "UNKNOWN"
    PROVE  ~Flying(mem.tx)
<1> SUFFICES ASSUME Flying(mem.tx) PROVE FALSE
  OBVIOUS
<1>1. mem.tx \in TxIds /\ mem.age \in 0..(TTL + 1)
  BY DEF TypeOK, Record
<1>2. ~ConfirmCovers(mem.tx)
  BY DEF ConfirmCovers, LockExcludes, InLock
<1>3. mem.age <= chain[mem.tx].age
  BY <1>1, <1>2 DEF FlightInv, FlightsCovered, RecordCovers
<1>4. chain[mem.tx].age \in 0..Lifetime
  BY <1>1 DEF TypeOK, Transaction
<1>5. ~WindowElapsed(mem)
  BY <1>1, <1>3, <1>4, WindowAssumption DEF WindowElapsed
<1>6. view \in {"absent", "error"}
  BY DEF StatusViews, Flying
<1> QED BY <1>5, <1>6 DEF Fate

\* The steps of a call keep the cover.
LEMMA FlightStep ==
    ASSUME TypeOK, SignaturesHeld, LockExcludes, FlightInv,
           NEW s \in Sellers, Step(s)
    PROVE  FlightInv'
<1> USE DEF FlightInv
<1>0. pc \in [Sellers -> Labels] /\ call \in [Sellers -> Call]
  BY DEF TypeOK
<1>1. ASSUME NEW r \in Sellers, r # s PROVE pc'[r] = pc[r] /\ call'[r] = call[r]
  BY <1>1, OthersUntouched
\* Steps that touch neither the chain nor the record, outside the wait.
<1>2. ASSUME UNCHANGED <<chain, mem>>, pc[s] # "confirm",
             GatePassed(s)' => GatePassed(s) \/ mem.tx = NoTx
      PROVE  FlightInv'
  <2>1. FlightsCovered'
    BY <1>0, <1>1, <1>2 DEF FlightsCovered, RecordCovers, ConfirmCovers, Flying
  <2>2. PendingResolvedBeforeSwap'
    BY <1>0, <1>1, <1>2 DEF PendingResolvedBeforeSwap, GatePassed
  <2> QED BY <2>1, <2>2
\* Steps at the gate that discard the record.
<1>3. ASSUME UNCHANGED chain, mem' = NoRecord, pc[s] = "gate", mem.tx # NoTx,
             ~Flying(mem.tx)
      PROVE  FlightInv'
  <2>1. FlightsCovered'
    BY <1>0, <1>1, <1>3 DEF FlightsCovered, RecordCovers, ConfirmCovers, Flying
  <2>2. PendingResolvedBeforeSwap'
    BY <1>3 DEF PendingResolvedBeforeSwap, NoRecord
  <2> QED BY <2>1, <2>2
\* Steps that end the wait for a transaction that is decided.
<1>4. ASSUME UNCHANGED <<chain, mem>>, pc[s] = "confirm", ~Flying(call[s].sig)
      PROVE  FlightInv'
  <2>1. FlightsCovered'
    BY <1>0, <1>1, <1>4 DEF FlightsCovered, RecordCovers, ConfirmCovers, Flying
  <2>2. PendingResolvedBeforeSwap'
    BY <1>0, <1>1, <1>4 DEF PendingResolvedBeforeSwap, GatePassed
  <2> QED BY <2>1, <2>2
<1> DEFINE Quiet == UNCHANGED <<chain, mem>> /\ pc[s] # "confirm"
                    /\ (GatePassed(s)' => GatePassed(s) \/ mem.tx = NoTx)
<1>5. CASE Lock(s) \/ SkipLocked(s) \/ NothingPending(s) \/ StillUnknown(s)
  <2>1. Quiet
    BY <1>0, <1>5 DEF Lock, SkipLocked, NothingPending, StillUnknown, Goto,
       Release, GatePassed, world, store, Call
  <2> QED BY <1>2, <2>1
<1>6. CASE FoundLanded(s) \/ FoundDead(s)
  <2>1. PICK view \in StatusViews(mem.tx) : Fate(view, WindowElapsed(mem)) # "UNKNOWN"
    BY <1>6 DEF FoundLanded, FoundDead
  <2>2. pc[s] = "gate" /\ mem.tx # NoTx /\ UNCHANGED chain /\ mem' = NoRecord
    BY <1>6 DEF FoundLanded, FoundDead, Forget, Save, world
  <2>3. ~Flying(mem.tx)
    BY <2>1, <2>2, DiscardedIsNotFlying
  <2> QED BY <1>3, <2>2, <2>3
<1>7. CASE RecoverFill(s) \/ RecoverNothing(s) \/ ReadBalance(s)
           \/ CloseOnZero(s) \/ NoBalance(s) \/ Simulate(s) \/ SwapNotSent(s)
           \/ WriteRow(s) \/ RaceClosed(s) \/ BookProfit(s) \/ Throw(s)
  <2>1. Quiet
    BY <1>0, <1>7 DEF RecoverFill, RecoverNothing, ReadBalance, CloseOnZero,
       NoBalance, Simulate, SwapNotSent, WriteRow, RaceClosed, BookProfit,
       Throw, Goto, Release, GatePassed, world, store, Call
  <2> QED BY <1>2, <2>1
<1>8. CASE \E t \in TxIds, reached \in BOOLEAN : Broadcast(s, t, reached)
  <2>1. PICK t \in TxIds, reached \in BOOLEAN : Broadcast(s, t, reached)
    BY <1>8
  <2>2. GatePassed(s) /\ pc[s] # "confirm"
    BY <2>1 DEF Broadcast, GatePassed
  <2>3. ASSUME NEW u \in TxIds PROVE ~Flying(u)
    BY <2>2, <2>3, OnlyOwnFlight
  <2>4. ASSUME NEW u \in TxIds, u # t PROVE ~Flying(u)'
    BY <2>1, <2>3, <2>4 DEF Broadcast, Flying, TypeOK
  <2>5. pc'[s] = "confirm" /\ call'[s].sig = t
    BY <1>0, <2>1 DEF Broadcast, Goto, Call
  <2>6. FlightsCovered'
    BY <2>4, <2>5 DEF FlightsCovered, ConfirmCovers
  <2>7. mem' = mem /\ mem.tx = NoTx
    BY <2>1, <2>2 DEF Broadcast, store, PendingResolvedBeforeSwap
  <2> QED BY <2>6, <2>7 DEF PendingResolvedBeforeSwap
<1>9. CASE Confirmed(s) \/ ResendAfterSlippage(s) \/ FailedOnChain(s)
  <2>1. UNCHANGED <<chain, mem>> /\ pc[s] = "confirm" /\ ~Flying(call[s].sig)
    BY <1>9 DEF Confirmed, ResendAfterSlippage, FailedOnChain, Flying, world, store
  <2> QED BY <1>4, <2>1
<1>10. CASE Unconfirmed(s)
  <2>1. GatePassed(s) /\ pc[s] = "confirm" /\ UNCHANGED chain
    BY <1>10 DEF Unconfirmed, GatePassed, world
  <2>2. mem' = [tx |-> call[s].sig, exit |-> call[s].exit, age |-> 0]
    BY <1>10 DEF Unconfirmed, Save
  <2>3. ASSUME NEW t \in TxIds, Flying(t)' PROVE RecordCovers(t)'
    <3>1. call[s].sig = t
      BY <2>1, <2>3, OnlyOwnFlight DEF Flying
    <3>2. chain'[t].age \in 0..Lifetime
      BY <2>1 DEF TypeOK, Transaction
    <3> QED BY <2>2, <3>1, <3>2, WindowAssumption DEF RecordCovers
  <2>4. FlightsCovered'
    BY <2>3 DEF FlightsCovered
  <2>5. ASSUME NEW r \in Sellers PROVE ~GatePassed(r)'
    <3>1. CASE r = s
      BY <1>0, <1>10, <3>1 DEF Unconfirmed, Release, GatePassed
    <3>2. CASE r # s
      <4>1. ~InLock(r)
        BY <2>1, <3>2 DEF LockExcludes, InLock
      <4> QED BY <1>1, <3>2, <4>1 DEF InLock, GatePassed
    <3> QED BY <3>1, <3>2
  <2> QED BY <2>4, <2>5 DEF PendingResolvedBeforeSwap
<1> QED
  BY <1>5, <1>6, <1>7, <1>8, <1>9, <1>10 DEF Step

\* Without a crash the environment keeps the cover too.
LEMMA FlightEnvironment ==
    ASSUME TypeOK, FlightInv, Environment, "crash" \notin Faults
    PROVE  FlightInv'
<1> USE DEF FlightInv
<1>1. UNCHANGED <<pc, call>>
  BY DEF Environment, Land, FailOnChain, Tick, Crash, ToggleDryRun,
     OperatorCloses, control
<1>2. ASSUME UNCHANGED mem,
             \A t \in TxIds : Flying(t)' => Flying(t) /\ chain'[t] = chain[t]
      PROVE  FlightInv'
  BY <1>1, <1>2 DEF FlightsCovered, PendingResolvedBeforeSwap, RecordCovers,
     ConfirmCovers, GatePassed
<1>3. CASE \E t \in TxIds : Land(t) \/ FailOnChain(t)
  <2>1. PICK t \in TxIds : Land(t) \/ FailOnChain(t)
    BY <1>3
  <2>2. UNCHANGED mem /\ ~Flying(t)'
    BY <2>1 DEF Land, FailOnChain, store, Flying, TypeOK, Transaction
  <2>3. ASSUME NEW u \in TxIds, u # t PROVE chain'[u] = chain[u]
    BY <2>1, <2>3 DEF Land, FailOnChain, TypeOK
  <2> QED BY <1>2, <2>2, <2>3 DEF Flying
<1>4. CASE Tick
  <2>1. mem'.tx = mem.tx
    BY <1>4 DEF Tick, Aged
  <2>2. ASSUME NEW t \in TxIds, Flying(t)', RecordCovers(t)
        PROVE  RecordCovers(t)'
    <3>1. Flying(t) /\ chain'[t].age = chain[t].age + 1
      BY <1>4, <2>2 DEF Tick, Flying, TypeOK, Transaction
    <3>2. mem.age \in Nat /\ chain[t].age \in Nat
      BY WindowAssumption DEF TypeOK, Record, Transaction
    <3>3. mem'.age = mem.age \/ mem'.age = mem.age + 1
      BY <1>4 DEF Tick, Aged, TypeOK, Record
    <3>4. mem'.age <= chain'[t].age
      BY <2>2, <3>1, <3>2, <3>3 DEF RecordCovers
    <3> QED BY <2>1, <2>2, <3>4 DEF RecordCovers
  <2>3. ASSUME NEW t \in TxIds, Flying(t)' PROVE Flying(t)
    BY <1>4, <2>3 DEF Tick, Flying
  <2>4. FlightsCovered'
    BY <1>1, <2>2, <2>3 DEF FlightsCovered, ConfirmCovers
  <2>5. PendingResolvedBeforeSwap'
    BY <1>1, <2>1 DEF PendingResolvedBeforeSwap, GatePassed
  <2> QED BY <2>4, <2>5
<1>5. CASE ToggleDryRun \/ OperatorCloses
  BY <1>2, <1>5 DEF ToggleDryRun, OperatorCloses, world, store, Flying
<1> QED BY <1>3, <1>4, <1>5 DEF Environment, Crash

\* Without a crash the cover is an invariant.
LEMMA FlightHolds ==
    ASSUME "crash" \notin Faults
    PROVE  Spec => []FlightInv
<1> DEFINE Inv == TypeOK /\ SignaturesHeld /\ LockExcludes
<1>1. Init => FlightInv
  BY DEF Init, FlightInv, FlightsCovered, PendingResolvedBeforeSwap, Flying,
     Unsent, NoRecord
<1>2. ASSUME Inv, FlightInv, [Next]_vars PROVE FlightInv'
  <2>1. ASSUME NEW s \in Sellers, NEW e \in Exits, Begin(s, e) PROVE FlightInv'
    BY <1>2, <2>1 DEF Begin, Goto, FlightInv, FlightsCovered, RecordCovers,
       ConfirmCovers, Flying, PendingResolvedBeforeSwap, GatePassed, TypeOK,
       world, store
  <2>2. CASE UNCHANGED vars
    BY <1>2, <2>2 DEF vars, FlightInv, FlightsCovered, RecordCovers,
       ConfirmCovers, Flying, PendingResolvedBeforeSwap, GatePassed
  <2> QED BY <1>2, <2>1, <2>2, FlightStep, FlightEnvironment DEF Next
<1>3. Spec => []Inv
  BY TypesAndSignatures, LockIsExclusive, PTL
<1> QED BY <1>1, <1>2, <1>3, PTL DEF Spec

\* As long as the process does not die, two sells of the position can never
\* both still execute, whatever the network, the clock, the file, the
\* operator and the dry-run switch do: the gate, the order of its checks and
\* TTL >= Lifetime suffice.
THEOREM SingleFlight ==
    ASSUME "crash" \notin Faults
    PROVE  Spec => []AtMostOneInFlight
<1> DEFINE Inv == TypeOK /\ SignaturesHeld /\ LockExcludes
<1>1. Inv /\ FlightInv => AtMostOneInFlight
  <2> SUFFICES ASSUME Inv, FlightInv, NEW t \in TxIds, NEW u \in TxIds,
                      Flying(t), Flying(u)
               PROVE  t = u
    BY DEF AtMostOneInFlight, Flying
  <2>1. CASE RecordCovers(t) /\ RecordCovers(u)
    BY <2>1 DEF RecordCovers
  <2>2. CASE ConfirmCovers(t)
    BY <2>2, OnlyOwnFlight DEF ConfirmCovers, GatePassed
  <2>3. CASE ConfirmCovers(u)
    BY <2>3, OnlyOwnFlight DEF ConfirmCovers, GatePassed
  <2> QED BY <2>1, <2>2, <2>3 DEF FlightInv, FlightsCovered
<1>2. Spec => []Inv
  BY TypesAndSignatures, LockIsExclusive, PTL
<1> QED BY <1>1, <1>2, FlightHolds, PTL

------------------------------------------------------------------------------
(* Every fill is written once *)

\* The call still has the fill of t to write.
Working(s, t) ==
    /\ pc[s] \in {"confirm", "recover", "record"}
    /\ ~call[s].dry
    /\ call[s].sig = t

\* A transaction somebody still means to write has not been written, and the
\* record and a call never both mean to.
Unwritten(t) ==
    /\ credit[t] <= 1
    /\ mem.tx = t => credit[t] = 0
    /\ chain[t].st = "unsent" => credit[t] = 0 /\ mem.tx # t
    /\ \A s \in Sellers : Working(s, t) =>
          credit[t] = 0 /\ mem.tx # t /\ chain[t].st # "unsent"

\* What a call writes has landed.
WritesLanded == \A s \in Sellers :
    pc[s] \in {"recover", "record"} /\ ~call[s].dry => chain[call[s].sig].st = "ok"

\* The file agrees with the memory, so a restart brings nothing back.
FileAgrees == disk = mem

CreditInv == FileAgrees /\ WritesLanded /\ \A t \in TxIds : Unwritten(t)

\* Only a call in the lock works on a transaction.
LEMMA OneWorker ==
    ASSUME LockExcludes, NEW s \in Sellers, InLock(s),
           NEW r \in Sellers, NEW t \in TxIds, Working(r, t)
    PROVE  r = s
BY DEF LockExcludes, InLock, Working

\* The only steps that disturb a transaction's bookkeeping are those of the
\* call that holds it.
LEMMA CreditStep ==
    ASSUME TypeOK, SignaturesHeld, LockExcludes, CreditInv,
           "persist" \notin Faults, NEW s \in Sellers, Step(s)
    PROVE  CreditInv'
<1> USE DEF CreditInv
<1>0. pc \in [Sellers -> Labels] /\ call \in [Sellers -> Call]
  BY DEF TypeOK
<1>1. ASSUME NEW r \in Sellers, r # s PROVE pc'[r] = pc[r] /\ call'[r] = call[r]
  BY <1>1, OthersUntouched
\* Nothing is gained: chain, record and credit stay, and the call works on
\* no more than before.
<1> DEFINE Quiet ==
      /\ UNCHANGED <<chain, mem, disk, credit>>
      /\ \A t \in TxIds : Working(s, t)' => Working(s, t)
      /\ pc'[s] \in {"recover", "record"} /\ ~call'[s].dry =>
            chain[call'[s].sig].st = "ok"
<1>2. ASSUME Quiet PROVE CreditInv'
  <2>1. ASSUME NEW r \in Sellers, NEW t \in TxIds, Working(r, t)' PROVE Working(r, t)
    BY <1>1, <1>2, <2>1 DEF Working
  <2>2. WritesLanded'
    BY <1>1, <1>2 DEF WritesLanded
  <2> QED BY <1>2, <2>1, <2>2 DEF Unwritten, FileAgrees
<1>3. CASE Lock(s) \/ SkipLocked(s) \/ NothingPending(s) \/ StillUnknown(s)
           \/ RecoverNothing(s) \/ ReadBalance(s)
           \/ CloseOnZero(s) \/ NoBalance(s) \/ SwapNotSent(s)
           \/ ResendAfterSlippage(s) \/ FailedOnChain(s) \/ RaceClosed(s)
           \/ BookProfit(s) \/ Throw(s)
  <2>1. UNCHANGED <<chain, mem, disk, credit>>
    BY <1>3 DEF Lock, SkipLocked, NothingPending, StillUnknown, RecoverNothing,
       ReadBalance, CloseOnZero, NoBalance, SwapNotSent, ResendAfterSlippage,
       FailedOnChain, RaceClosed, BookProfit, Throw, world, store, ledgerRow
  <2>2. pc'[s] \notin {"confirm", "recover", "record"}
    BY <1>0, <1>3 DEF Lock, SkipLocked, NothingPending, StillUnknown,
       RecoverNothing, ReadBalance, CloseOnZero, NoBalance, SwapNotSent,
       ResendAfterSlippage, FailedOnChain, RaceClosed, BookProfit, Throw, Goto,
       Release
  <2> QED BY <1>2, <2>1, <2>2 DEF Working
<1>4. CASE Simulate(s)
  <2>1. UNCHANGED <<chain, mem, disk, credit>> /\ call'[s].dry
    BY <1>4 DEF Simulate, world, store, ledgerRow
  <2> QED BY <1>2, <2>1 DEF Working
<1>5. CASE RecoverFill(s) \/ Confirmed(s)
  <2>1. UNCHANGED <<chain, mem, disk, credit, call>> /\ pc'[s] = "record"
        /\ pc[s] \in {"recover", "confirm"}
    BY <1>0, <1>5 DEF RecoverFill, Confirmed, Goto, world, store, ledgerRow
  <2>2. chain[call[s].sig].st = "ok"
    BY <1>5 DEF RecoverFill, Confirmed, WritesLanded, SignaturesHeld, HoldsSignature
  <2> QED BY <1>2, <2>1, <2>2 DEF Working
<1>6. CASE FoundLanded(s)
  <2>1. PICK view \in StatusViews(mem.tx) : Fate(view, WindowElapsed(mem)) = "LANDED_OK"
    BY <1>6 DEF FoundLanded
  <2>2. view \in {"confirmed", "processed"}
    BY <2>1 DEF Fate
  <2>3. mem.tx \in TxIds /\ chain[mem.tx].st = "ok"
    BY <1>6, <2>2 DEF FoundLanded, StatusViews, TypeOK, Record
  <2>4. call'[s].sig = mem.tx /\ pc'[s] = "recover"
    BY <1>0, <1>6 DEF FoundLanded, Goto, Call
  <2>5. UNCHANGED <<chain, credit>> /\ mem' = NoRecord /\ disk' = mem'
    BY <1>6 DEF FoundLanded, Forget, Save, Persist, world, ledgerRow
  <2>6. ASSUME NEW t \in TxIds PROVE Unwritten(t)'
    <3>1. mem'.tx # t
      BY <2>5, NoTxAssumption DEF NoRecord
    <3>2. ASSUME NEW r \in Sellers, Working(r, t)' PROVE credit[t] = 0 /\ chain[t].st # "unsent"
      <4>1. CASE r = s
        BY <2>3, <2>4, <3>2, <4>1 DEF Working, Unwritten
      <4>2. CASE r # s
        BY <1>1, <3>2, <4>2 DEF Working, Unwritten
      <4> QED BY <4>1, <4>2
    <3> QED BY <2>5, <3>1, <3>2 DEF Unwritten
  <2>7. WritesLanded'
    BY <1>1, <2>3, <2>4, <2>5 DEF WritesLanded
  <2> QED BY <2>5, <2>6, <2>7 DEF FileAgrees
<1>7. CASE FoundDead(s)
  <2>1. UNCHANGED <<chain, credit, call>> /\ mem' = NoRecord /\ disk' = mem'
        /\ pc'[s] = "balance"
    BY <1>0, <1>7 DEF FoundDead, Forget, Save, Persist, Goto, world, ledgerRow
  <2>2. ASSUME NEW r \in Sellers, NEW t \in TxIds, Working(r, t)' PROVE Working(r, t)
    BY <1>1, <2>1, <2>2 DEF Working
  <2>3. \A t \in TxIds : Unwritten(t)'
    BY <2>1, <2>2, NoTxAssumption DEF Unwritten, NoRecord
  <2>4. WritesLanded'
    BY <1>1, <2>1 DEF WritesLanded
  <2> QED BY <2>1, <2>3, <2>4 DEF FileAgrees
<1>8. CASE \E t \in TxIds, reached \in BOOLEAN : Broadcast(s, t, reached)
  <2>1. PICK u \in TxIds, reached \in BOOLEAN : Broadcast(s, u, reached)
    BY <1>8
  <2>2. UNCHANGED <<mem, disk, credit>> /\ chain[u].st = "unsent"
    BY <2>1 DEF Broadcast, store, ledgerRow
  <2>3. chain'[u].st # "unsent" /\ \A t \in TxIds : t # u => chain'[t] = chain[t]
    BY <2>1 DEF Broadcast, TypeOK
  <2>4. pc'[s] = "confirm" /\ call'[s].sig = u /\ pc[s] = "swap"
    BY <1>0, <2>1 DEF Broadcast, Goto, Call
  <2>5. ASSUME NEW t \in TxIds PROVE Unwritten(t)'
    <3>1. CASE t = u
      <4>1. credit[t] = 0 /\ mem.tx # t
        BY <2>2, <3>1 DEF Unwritten
      <4> QED BY <2>2, <2>3, <3>1, <4>1 DEF Unwritten
    <3>2. CASE t # u
      <4>1. ASSUME NEW r \in Sellers, Working(r, t)' PROVE Working(r, t)
        BY <1>1, <2>4, <3>2, <4>1 DEF Working
      <4> QED BY <2>2, <2>3, <3>2, <4>1 DEF Unwritten
    <3> QED BY <3>1, <3>2
  <2>6. ASSUME NEW r \in Sellers, pc'[r] \in {"recover", "record"}, ~call'[r].dry
        PROVE  chain'[call'[r].sig].st = "ok"
    <3>1. r # s /\ pc[r] = pc'[r] /\ call[r] = call'[r]
      BY <1>1, <2>4, <2>6
    <3>2. chain[call[r].sig].st = "ok" /\ call[r].sig \in TxIds
      BY <2>6, <3>1 DEF WritesLanded, SignaturesHeld, HoldsSignature
    <3> QED BY <2>2, <2>3, <3>1, <3>2
  <2> QED BY <2>2, <2>5, <2>6 DEF FileAgrees, WritesLanded
<1>9. CASE Unconfirmed(s)
  <2>1. pc[s] = "confirm" /\ ~call[s].dry /\ call[s].sig \in TxIds
    BY <1>9 DEF Unconfirmed, SignaturesHeld, HoldsSignature
  <2>2. UNCHANGED <<chain, credit>> /\ mem'.tx = call[s].sig /\ disk' = mem'
    BY <1>9 DEF Unconfirmed, Save, Persist, world, ledgerRow
  <2>3. pc'[s] = "idle"
    BY <1>0, <1>9 DEF Unconfirmed, Release
  <2>4. ASSUME NEW r \in Sellers, NEW t \in TxIds PROVE ~Working(r, t)'
    <3>1. CASE r = s
      BY <2>3, <3>1 DEF Working
    <3>2. CASE r # s
      BY <1>1, <2>1, <3>2 DEF Working, LockExcludes, InLock
    <3> QED BY <3>1, <3>2
  <2>5. credit[call[s].sig] = 0 /\ chain[call[s].sig].st # "unsent"
    BY <2>1 DEF Unwritten, Working
  <2>6. \A t \in TxIds : Unwritten(t)'
    BY <2>2, <2>4, <2>5 DEF Unwritten
  <2>7. WritesLanded'
    BY <1>1, <2>2, <2>3 DEF WritesLanded
  <2> QED BY <2>2, <2>6, <2>7 DEF FileAgrees
<1>10. CASE WriteRow(s)
  <2>1. UNCHANGED <<chain, mem, disk, call>> /\ pc[s] = "record" /\ pc'[s] = "book"
    BY <1>0, <1>10 DEF WriteRow, Goto, world, store
  <2>2. CASE call[s].dry
    <3>1. UNCHANGED credit
      BY <1>10, <2>2 DEF WriteRow
    <3> QED BY <1>2, <2>1, <3>1 DEF Working
  <2>3. CASE ~call[s].dry
    <3> DEFINE u == call[s].sig
    <3>1. u \in TxIds /\ Working(s, u)
      BY <2>1, <2>3 DEF Working, SignaturesHeld, HoldsSignature
    <3>2. credit[u] = 0 /\ mem.tx # u /\ chain[u].st # "unsent"
      BY <3>1 DEF Unwritten
    <3>3. credit' = [credit EXCEPT ![u] = @ + 1]
      BY <1>10, <2>3 DEF WriteRow
    <3> HIDE DEF u
    <3>4. credit'[u] = 1 /\ \A t \in TxIds : t # u => credit'[t] = credit[t]
      BY <3>1, <3>2, <3>3 DEF TypeOK
    <3>5. ASSUME NEW r \in Sellers, NEW t \in TxIds PROVE ~Working(r, t)'
      <4>1. CASE r = s
        BY <2>1, <4>1 DEF Working
      <4>2. CASE r # s
        BY <1>1, <2>1, <4>2 DEF Working, LockExcludes, InLock
      <4> QED BY <4>1, <4>2
    <3>6. \A t \in TxIds : Unwritten(t)'
      BY <2>1, <3>2, <3>4, <3>5 DEF Unwritten
    <3>7. WritesLanded'
      BY <1>1, <2>1 DEF WritesLanded
    <3> QED BY <2>1, <3>6, <3>7 DEF FileAgrees
  <2> QED BY <2>2, <2>3
<1> QED
  BY <1>3, <1>4, <1>5, <1>6, <1>7, <1>8, <1>9, <1>10 DEF Step

\* Nor does the environment, crashes included, as long as the file follows.
LEMMA CreditEnvironment ==
    ASSUME TypeOK, SignaturesHeld, CreditInv, "persist" \notin Faults, Environment
    PROVE  CreditInv'
<1> USE DEF CreditInv
<1>1. UNCHANGED credit
  BY DEF Environment, Land, FailOnChain, Tick, Crash, ToggleDryRun,
     OperatorCloses, ledgerRow
<1>2. ASSUME NEW t \in TxIds
      PROVE  /\ chain'[t].st = "unsent" <=> chain[t].st = "unsent"
             /\ chain[t].st = "ok" => chain'[t].st = "ok"
  BY DEF Environment, Land, FailOnChain, Tick, Crash, ToggleDryRun,
     OperatorCloses, world, TypeOK, Transaction
<1>3. disk' = mem' /\ (mem'.tx = mem.tx \/ mem'.tx = NoTx)
  <2>1. CASE Tick
    <3>1. Aged(mem).tx = mem.tx
      BY DEF Aged, TypeOK, Record
    <3> QED BY <2>1, <3>1 DEF Tick, FileAgrees
  <2>2. CASE Crash
    <3>1. mem' = Kept(disk) /\ disk' = Kept(disk)
      BY <2>2 DEF Crash, Persist
    <3>2. Kept(disk) = mem \/ Kept(disk) = NoRecord
      BY DEF Kept, FileAgrees
    <3> QED BY <3>1, <3>2 DEF NoRecord
  <2>3. CASE UNCHANGED store
    BY <2>3 DEF store, FileAgrees
  <2> QED BY <2>1, <2>2, <2>3
          DEF Environment, Land, FailOnChain, ToggleDryRun, OperatorCloses
<1>4. ASSUME NEW s \in Sellers, NEW t \in TxIds, Working(s, t)' PROVE Working(s, t)
  BY <1>4, CallsInEnvironment DEF Working
<1>5. \A t \in TxIds : Unwritten(t)'
  BY <1>1, <1>2, <1>3, <1>4, NoTxAssumption DEF Unwritten
<1>6. ASSUME NEW s \in Sellers, pc'[s] \in {"recover", "record"}, ~call'[s].dry
      PROVE  chain'[call'[s].sig].st = "ok"
  <2>1. pc'[s] = pc[s] /\ call'[s] = call[s]
    BY <1>6, CallsInEnvironment
  <2>2. call[s].sig \in TxIds /\ chain[call[s].sig].st = "ok"
    BY <1>6, <2>1 DEF SignaturesHeld, HoldsSignature, WritesLanded
  <2> QED BY <1>2, <2>1, <2>2
<1> QED BY <1>3, <1>5, <1>6 DEF FileAgrees, WritesLanded

\* The bookkeeping is inductive.
LEMMA CreditNext ==
    ASSUME TypeOK, SignaturesHeld, LockExcludes, CreditInv,
           "persist" \notin Faults, [Next]_vars
    PROVE  CreditInv'
<1>1. ASSUME NEW s \in Sellers, NEW e \in Exits, Begin(s, e) PROVE CreditInv'
  BY <1>1 DEF Begin, Goto, CreditInv, FileAgrees, WritesLanded, Unwritten,
     Working, TypeOK, world, store, ledgerRow
<1>2. CASE UNCHANGED vars
  BY <1>2 DEF vars, CreditInv, FileAgrees, WritesLanded, Unwritten, Working
<1> QED BY <1>1, <1>2, CreditStep, CreditEnvironment DEF Next

LEMMA CreditInit == Init => CreditInv
BY NoTxAssumption
   DEF Init, CreditInv, FileAgrees, WritesLanded, Unwritten, Working, NoRecord

\* As long as the file can be written, every fill is written to the row at most
\* once, whatever crashes and restarts there are.
THEOREM CreditedOnce ==
    ASSUME "persist" \notin Faults
    PROVE  Spec => []CreditedAtMostOnce
<1> DEFINE Inv == TypeOK /\ SignaturesHeld /\ LockExcludes
<1>1. Inv /\ CreditInv /\ [Next]_vars => CreditInv'
  BY CreditNext
<1>2. CreditInv => CreditedAtMostOnce
  BY DEF CreditInv, Unwritten, CreditedAtMostOnce
<1>3. Spec => []Inv
  BY TypesAndSignatures, LockIsExclusive, PTL
<1> QED BY <1>1, <1>2, <1>3, CreditInit, PTL DEF Spec

------------------------------------------------------------------------------
(* Finality and refinement *)

\* A CLOSED row is final: no step of any call, crash or restart rewrites it or
\* writes a fill to it.
THEOREM ClosedForGood == Spec => ClosedIsFinal
<1>1. ASSUME [Next]_vars, row.status = "CLOSED" PROVE UNCHANGED <<row, credit>>
  BY <1>1 DEF Next, Step, Environment, Begin, Lock, SkipLocked, NothingPending,
     StillUnknown, FoundLanded, FoundDead, RecoverFill, RecoverNothing,
     ReadBalance, CloseOnZero, NoBalance, Simulate, SwapNotSent, Broadcast,
     Confirmed, ResendAfterSlippage, FailedOnChain, Unconfirmed, WriteRow,
     RaceClosed, BookProfit, Throw, Land, FailOnChain, Tick, Crash,
     ToggleDryRun, OperatorCloses, ledgerRow, vars
<1> QED BY <1>1, PTL DEF Spec, ClosedIsFinal

\* Which transactions have landed and how the row stands changes in few steps.
Landed == {t \in TxIds : chain[t].st = "ok"}

\* A step that changes none of the three is a stutter of the ledger.
LEMMA LedgerStutter ==
    ASSUME Landed' = Landed, UNCHANGED <<row, credit>>
    PROVE  UNCHANGED Ledger!ledger
BY DEF Ledger!ledger, Landed

\* Every step of a call is a step of the ledger or none.
LEMMA LedgerStep ==
    ASSUME TypeOK, SignaturesHeld, CreditInv, NEW s \in Sellers, Step(s)
    PROVE  [Ledger!LedgerNext]_(Ledger!ledger)
<1>1. Landed' = Landed
  <2>1. CASE UNCHANGED chain
    BY <2>1 DEF Landed
  <2>2. CASE \E t \in TxIds, reached \in BOOLEAN : Broadcast(s, t, reached)
    BY <2>2 DEF Broadcast, Landed, TypeOK
  <2> QED
    BY <2>1, <2>2 DEF Step, Lock, SkipLocked, NothingPending, StillUnknown,
       FoundLanded, FoundDead, RecoverFill, RecoverNothing, ReadBalance,
       CloseOnZero, NoBalance, Simulate, SwapNotSent, Confirmed,
       ResendAfterSlippage, FailedOnChain, Unconfirmed, WriteRow, RaceClosed,
       BookProfit, Throw, world
<1>2. CASE WriteRow(s) /\ ~call[s].dry
  <2> DEFINE u == call[s].sig
  <2>1. u \in TxIds /\ chain[u].st = "ok"
    BY <1>2 DEF WriteRow, SignaturesHeld, HoldsSignature, CreditInv, WritesLanded
  <2>2. credit[u] = 0
    BY <1>2, <2>1 DEF WriteRow, CreditInv, Unwritten, Working
  <2>3. credit' = [credit EXCEPT ![u] = @ + 1] /\ row.status = "OPEN"
    BY <1>2 DEF WriteRow
  <2>4. credit' = [credit EXCEPT ![u] = 1]
    BY <2>1, <2>2, <2>3 DEF TypeOK
  <2> HIDE DEF u
  <2>5. Ledger!Credit(u)
    BY <1>1, <2>1, <2>2, <2>3, <2>4 DEF Ledger!Credit, Landed
  <2> QED BY <2>1, <2>5 DEF Ledger!LedgerNext
<1>3. CASE WriteRow(s) /\ call[s].dry
  <2>1. UNCHANGED credit /\ row.status = "OPEN"
        /\ (row' = row \/ row'.status = "CLOSED")
    BY <1>3 DEF WriteRow
  <2>2. CASE row' = row
    BY <1>1, <2>1, <2>2, LedgerStutter
  <2>3. CASE row'.status = "CLOSED"
    <3>1. Ledger!CloseWithoutFill
      BY <1>1, <2>1, <2>3 DEF Ledger!CloseWithoutFill, Landed
    <3> QED BY <3>1 DEF Ledger!LedgerNext
  <2> QED BY <2>1, <2>2, <2>3
<1>4. CASE CloseOnZero(s)
  <2>1. UNCHANGED credit
        /\ (row' = row \/ (row.status = "OPEN" /\ row'.status = "CLOSED"))
    BY <1>4 DEF CloseOnZero, ledgerRow
  <2>2. CASE row' = row
    BY <1>1, <2>1, <2>2, LedgerStutter
  <2>3. CASE row.status = "OPEN" /\ row'.status = "CLOSED"
    <3>1. Ledger!CloseWithoutFill
      BY <1>1, <2>1, <2>3 DEF Ledger!CloseWithoutFill, Landed
    <3> QED BY <3>1 DEF Ledger!LedgerNext
  <2> QED BY <2>1, <2>2, <2>3
<1>5. CASE UNCHANGED <<row, credit>>
  BY <1>1, <1>5, LedgerStutter
<1> QED
  BY <1>2, <1>3, <1>4, <1>5 DEF Step, Lock, SkipLocked, NothingPending,
     StillUnknown, FoundLanded, FoundDead, RecoverFill, RecoverNothing,
     ReadBalance, NoBalance, Simulate, SwapNotSent, Broadcast, Confirmed,
     ResendAfterSlippage, FailedOnChain, Unconfirmed, RaceClosed, BookProfit,
     Throw, ledgerRow

\* Every step of the environment is a landing, an operator's close or a stutter.
LEMMA LedgerEnvironment ==
    ASSUME TypeOK, Environment
    PROVE  [Ledger!LedgerNext]_(Ledger!ledger)
<1>1. ASSUME NEW t \in TxIds, Land(t) PROVE Ledger!LedgerNext
  <2>1. t \notin Landed /\ Landed' = Landed \union {t} /\ UNCHANGED <<row, credit>>
    BY <1>1 DEF Land, Landed, TypeOK, Transaction, ledgerRow
  <2>2. Ledger!Land(t)
    BY <2>1 DEF Ledger!Land, Landed
  <2> QED BY <2>2 DEF Ledger!LedgerNext
<1>2. ASSUME NEW t \in TxIds, FailOnChain(t) PROVE UNCHANGED Ledger!ledger
  <2>1. Landed' = Landed /\ UNCHANGED <<row, credit>>
    BY <1>2 DEF FailOnChain, Landed, TypeOK, Transaction, ledgerRow
  <2> QED BY <2>1, LedgerStutter
<1>3. CASE Tick
  <2>1. Landed' = Landed /\ UNCHANGED <<row, credit>>
    BY <1>3 DEF Tick, Landed, TypeOK, Transaction, ledgerRow
  <2> QED BY <2>1, LedgerStutter
<1>4. CASE Crash \/ ToggleDryRun
  <2>1. Landed' = Landed /\ UNCHANGED <<row, credit>>
    BY <1>4 DEF Crash, ToggleDryRun, Landed, ledgerRow, world
  <2> QED BY <2>1, LedgerStutter
<1>5. CASE OperatorCloses
  <2>1. Landed' = Landed /\ UNCHANGED credit /\ row.status = "OPEN"
        /\ row'.status = "CLOSED"
    BY <1>5 DEF OperatorCloses, Landed, world
  <2>2. Ledger!CloseWithoutFill
    BY <2>1 DEF Ledger!CloseWithoutFill, Landed
  <2> QED BY <2>2 DEF Ledger!LedgerNext
<1> QED BY <1>1, <1>2, <1>3, <1>4, <1>5 DEF Environment

\* The sell side, with its calls, locks, files and crashes, does nothing but
\* what the ledger of one position allows.
THEOREM SellSideImplementsLedger ==
    ASSUME "persist" \notin Faults
    PROVE  Spec => ImplementsLedger
<1> DEFINE Inv == TypeOK /\ SignaturesHeld /\ LockExcludes
<1>1. Init => Ledger!LedgerInit
  BY DEF Init, Ledger!LedgerInit, Unsent
<1>2. ASSUME Inv, CreditInv, [Next]_vars
      PROVE  [Ledger!LedgerNext]_(Ledger!ledger)
  <2>1. ASSUME NEW s \in Sellers, NEW e \in Exits, Begin(s, e)
        PROVE  UNCHANGED Ledger!ledger
    BY <2>1, LedgerStutter DEF Begin, Landed, ledgerRow, world
  <2>2. CASE UNCHANGED vars
    BY <2>2, LedgerStutter DEF vars, Landed
  <2> QED BY <1>2, <2>1, <2>2, LedgerStep, LedgerEnvironment DEF Next
<1>3. Inv /\ CreditInv /\ [Next]_vars => CreditInv'
  BY CreditNext
<1>4. Spec => []Inv
  BY TypesAndSignatures, LockIsExclusive, PTL
<1> QED
  BY <1>1, <1>2, <1>3, <1>4, CreditInit, PTL
  DEF Spec, ImplementsLedger, Ledger!LedgerSpec

------------------------------------------------------------------------------
(* No tokens are left behind a row that a sell closed *)

\* Executing t empties the wallet, or has emptied it.
Drains(t) ==
    /\ chain[t].st # "unsent"
    /\ bag <= chain[t].amount
    /\ chain[t].st = "ok" => bag = 0

\* A full exit that is pending would empty the wallet.
RecordDrains(record) ==
    record.tx # NoTx /\ IsFull(record.exit) => Drains(record.tx)

\* The amount a full exit has read, and the sell it made of it, cover all that
\* is in the wallet: nothing of this position is ever bought in between.
CallDrains(s) ==
    IsFull(call[s].exit) /\ ~call[s].dry =>
        /\ pc[s] \in {"swap", "confirm"} => bag <= call[s].amount
        /\ pc[s] \in {"confirm", "recover", "record"} => Drains(call[s].sig)

\* Only a fill that landed is recovered or recorded.
FillLanded(s) ==
    pc[s] \in {"recover", "record"} /\ ~call[s].dry => chain[call[s].sig].st = "ok"

DrainInv ==
    /\ RecordDrains(mem)
    /\ RecordDrains(disk)
    /\ \A s \in Sellers : CallDrains(s) /\ FillLanded(s)
    /\ NoAbandonedTokens


\* The wallet never gains tokens, and what drains it goes on draining it: a
\* transaction is sent once, and the amount it carries never changes.
LEMMA DrainsForGood ==
    ASSUME TypeOK, [Next]_vars
    PROVE  /\ bag' \in Nat /\ bag' <= bag
           /\ \A t \in TxIds : Drains(t) => Drains(t)'
<1>0. bag \in Nat /\ chain \in [TxIds -> Transaction]
  BY DEF TypeOK
<1>1. CASE UNCHANGED <<chain, bag>>
  BY <1>0, <1>1 DEF Drains
<1>2. ASSUME NEW s \in Sellers, NEW t \in TxIds, NEW reached \in BOOLEAN,
             Broadcast(s, t, reached)
      PROVE  UNCHANGED bag /\ \A u \in TxIds : Drains(u) => Drains(u)'
  <2>1. UNCHANGED bag /\ chain[t].st = "unsent"
    BY <1>2 DEF Broadcast
  <2>2. ASSUME NEW u \in TxIds, u # t PROVE chain'[u] = chain[u]
    BY <1>0, <1>2, <2>2 DEF Broadcast
  <2> QED BY <2>1, <2>2 DEF Drains
<1>3. ASSUME NEW s \in Sellers, Step(s),
             ~(\E t \in TxIds, reached \in BOOLEAN : Broadcast(s, t, reached))
      PROVE  UNCHANGED <<chain, bag>>
  BY <1>3 DEF Step, Lock, SkipLocked, NothingPending, StillUnknown, FoundLanded,
     FoundDead, RecoverFill, RecoverNothing, ReadBalance, CloseOnZero, NoBalance,
     Simulate, SwapNotSent, Confirmed, ResendAfterSlippage, FailedOnChain,
     Unconfirmed, WriteRow, RaceClosed, BookProfit, Throw, world
<1>4. ASSUME NEW t \in TxIds, Land(t)
      PROVE  bag' \in Nat /\ bag' <= bag /\ \A u \in TxIds : Drains(u) => Drains(u)'
  <2>1. /\ chain[t].st = "flying" /\ chain[t].amount \in Nat
        /\ chain[t].amount <= bag /\ bag' = bag - chain[t].amount
    BY <1>0, <1>4 DEF Land, Transaction
  <2>2. bag' \in Nat /\ bag' <= bag
    BY <1>0, <2>1
  <2>3. ASSUME Drains(t) PROVE Drains(t)'
    <3>1. chain'[t].amount = chain[t].amount /\ chain'[t].st = "ok"
      BY <1>0, <1>4 DEF Land, Transaction
    <3>2. bag' = 0
      BY <1>0, <2>1, <2>3 DEF Drains
    <3> QED BY <2>1, <3>1, <3>2 DEF Drains
  <2>4. ASSUME NEW u \in TxIds, u # t, Drains(u) PROVE Drains(u)'
    <3>1. chain'[u] = chain[u]
      BY <1>0, <1>4, <2>4 DEF Land
    <3>2. chain[u].amount \in Nat
      BY <1>0 DEF Transaction
    <3> QED BY <1>0, <2>1, <2>2, <2>4, <3>1, <3>2 DEF Drains
  <2> QED BY <2>2, <2>3, <2>4
<1>5. ASSUME UNCHANGED bag,
             \A u \in TxIds : /\ chain'[u].amount = chain[u].amount
                              /\ chain'[u].st # "unsent" <=> chain[u].st # "unsent"
                              /\ chain'[u].st = "ok" => chain[u].st = "ok"
      PROVE  \A u \in TxIds : Drains(u) => Drains(u)'
  BY <1>5 DEF Drains
<1>6. ASSUME NEW t \in TxIds, FailOnChain(t)
      PROVE  UNCHANGED bag /\ \A u \in TxIds : Drains(u) => Drains(u)'
  BY <1>0, <1>5, <1>6 DEF FailOnChain, Transaction
<1>7. CASE Tick
  <2>1. ASSUME NEW u \in TxIds
        PROVE  /\ chain'[u].amount = chain[u].amount
               /\ chain'[u].st # "unsent" <=> chain[u].st # "unsent"
               /\ chain'[u].st = "ok" => chain[u].st = "ok"
    <3>1. chain[u] \in Transaction
      BY <1>0
    <3>2. chain'[u] = IF chain[u].st # "flying" THEN chain[u]
                      ELSE IF chain[u].age < Lifetime
                           THEN [chain[u] EXCEPT !.age = @ + 1]
                           ELSE [chain[u] EXCEPT !.st = "dropped"]
      BY <1>7 DEF Tick
    <3> QED BY <3>1, <3>2 DEF Transaction
  <2>2. UNCHANGED bag
    BY <1>7 DEF Tick
  <2> QED BY <1>0, <1>5, <2>1, <2>2
<1>8. CASE UNCHANGED vars
  BY <1>1, <1>8 DEF vars
<1>9. ASSUME NEW s \in Sellers, NEW e \in Exits, Begin(s, e)
      PROVE  UNCHANGED <<chain, bag>>
  BY <1>9 DEF Begin, world
<1>10. CASE Crash \/ ToggleDryRun \/ OperatorCloses
  BY <1>1, <1>10 DEF Crash, ToggleDryRun, OperatorCloses, world
<1>11. ASSUME NEW s \in Sellers, Step(s)
       PROVE  bag' \in Nat /\ bag' <= bag /\ \A u \in TxIds : Drains(u) => Drains(u)'
  BY <1>0, <1>1, <1>2, <1>3, <1>11
<1>12. CASE Environment
  BY <1>0, <1>4, <1>6, <1>7, <1>10, <1>12 DEF Environment
<1> QED BY <1>0, <1>1, <1>8, <1>9, <1>11, <1>12 DEF Next

\* A step of a call keeps what its own exit drains.
LEMMA CallDrainsStep ==
    ASSUME TypeOK, SignaturesHeld, DrainInv, NEW s \in Sellers, Step(s)
    PROVE  CallDrains(s)' /\ FillLanded(s)'
<1>0. /\ pc \in [Sellers -> Labels] /\ call \in [Sellers -> Call]
      /\ call[s] \in Call /\ bag \in Nat /\ mem \in Record
      /\ chain \in [TxIds -> Transaction]
  BY DEF TypeOK
<1>1. CallDrains(s) /\ FillLanded(s) /\ HoldsSignature(s) /\ RecordDrains(mem)
  BY DEF DrainInv, SignaturesHeld
<1> USE DEF Goto, Release
<1>2. ASSUME pc'[s] \in {"idle", "snapshot", "gate", "balance", "book"}
      PROVE  CallDrains(s)' /\ FillLanded(s)'
  BY <1>2 DEF CallDrains, FillLanded
<1>3. CASE Lock(s) \/ SkipLocked(s) \/ NothingPending(s) \/ StillUnknown(s)
           \/ FoundDead(s) \/ RecoverNothing(s) \/ CloseOnZero(s) \/ NoBalance(s)
           \/ SwapNotSent(s) \/ FailedOnChain(s) \/ Unconfirmed(s) \/ WriteRow(s)
           \/ RaceClosed(s) \/ BookProfit(s) \/ Throw(s)
  BY <1>0, <1>2, <1>3 DEF Lock, SkipLocked, NothingPending, StillUnknown,
     FoundDead, RecoverNothing, CloseOnZero, NoBalance, SwapNotSent,
     FailedOnChain, Unconfirmed, WriteRow, RaceClosed, BookProfit, Throw
<1>4. CASE FoundLanded(s)
  <2>1. /\ mem.tx # NoTx /\ chain[mem.tx].st = "ok"
        /\ UNCHANGED <<chain, bag>>
        /\ pc'[s] = "recover"
    BY <1>0, <1>4 DEF FoundLanded, StatusViews, Fate, world
  <2>2. call'[s].sig = mem.tx /\ call'[s].exit = mem.exit
    BY <1>0, <1>4 DEF FoundLanded, Call
  <2> QED BY <1>1, <2>1, <2>2 DEF CallDrains, FillLanded, RecordDrains, Drains
<1>5. CASE RecoverFill(s) \/ Confirmed(s)
  <2>1. /\ UNCHANGED <<chain, bag, call>> /\ pc'[s] = "record"
        /\ pc[s] \in {"confirm", "recover"}
        /\ pc[s] = "confirm" => chain[call[s].sig].st = "ok"
    BY <1>0, <1>5 DEF RecoverFill, Confirmed, world
  <2> QED BY <1>1, <2>1 DEF CallDrains, FillLanded, Drains
<1>6. CASE ReadBalance(s)
  <2>1. UNCHANGED <<chain, bag>> /\ pc'[s] = "swap"
    BY <1>0, <1>6 DEF ReadBalance, world
  <2>2. /\ call'[s].dry = call[s].dry /\ call'[s].exit = call[s].exit
        /\ ~call[s].dry => call'[s].amount = SellAmount(call[s].exit, bag)
    BY <1>0, <1>6 DEF ReadBalance, Call
  <2> QED BY <1>0, <2>1, <2>2 DEF CallDrains, FillLanded, SellAmount
<1>7. CASE Simulate(s)
  BY <1>0, <1>7 DEF Simulate, CallDrains, FillLanded
<1>8. CASE \E t \in TxIds, reached \in BOOLEAN : Broadcast(s, t, reached)
  <2>1. PICK t \in TxIds, reached \in BOOLEAN : Broadcast(s, t, reached)
    BY <1>8
  <2>2. /\ UNCHANGED bag /\ pc[s] = "swap" /\ pc'[s] = "confirm"
    BY <1>0, <2>1 DEF Broadcast
  <2>3. /\ call'[s].sig = t /\ call'[s].exit = call[s].exit
        /\ call'[s].dry = call[s].dry /\ call'[s].amount = call[s].amount
    BY <1>0, <2>1 DEF Broadcast, Call
  <2>4. chain'[t].amount = call[s].amount /\ chain'[t].st \in {"flying", "dropped"}
    BY <1>0, <2>1 DEF Broadcast
  <2> QED BY <1>1, <2>2, <2>3, <2>4 DEF CallDrains, FillLanded, Drains
<1>9. CASE ResendAfterSlippage(s)
  <2>1. UNCHANGED bag /\ pc[s] = "confirm" /\ pc'[s] = "swap"
    BY <1>0, <1>9 DEF ResendAfterSlippage, world
  <2>2. /\ call'[s].exit = call[s].exit /\ call'[s].dry = call[s].dry
        /\ call'[s].amount = call[s].amount
    BY <1>0, <1>9 DEF ResendAfterSlippage, Call
  <2> QED BY <1>1, <2>1, <2>2 DEF CallDrains, FillLanded
<1> QED
  BY <1>3, <1>4, <1>5, <1>6, <1>7, <1>8, <1>9 DEF Step

\* What a call leaves in the record drains the wallet if its exit does.
LEMMA RecordDrainsStep ==
    ASSUME TypeOK, SignaturesHeld, DrainInv, NEW s \in Sellers, Step(s)
    PROVE  RecordDrains(mem)' /\ RecordDrains(disk)'
<1>0. /\ mem \in Record /\ disk \in Record
      /\ RecordDrains(mem) /\ RecordDrains(disk)
      /\ CallDrains(s) /\ HoldsSignature(s)
  BY DEF TypeOK, DrainInv, SignaturesHeld
<1>1. \A t \in TxIds : Drains(t) => Drains(t)'
  BY DrainsForGood DEF Next
<1>2. ASSUME NEW r \in Record, RecordDrains(r) PROVE r.tx # NoTx /\ IsFull(r.exit) => Drains(r.tx)'
  BY <1>1, <1>2 DEF RecordDrains, Record
<1>3. CASE UNCHANGED store
  BY <1>0, <1>2, <1>3 DEF store, RecordDrains
<1>4. ASSUME mem' = NoRecord, Persist(NoRecord)
      PROVE  RecordDrains(mem)' /\ RecordDrains(disk)'
  BY <1>0, <1>2, <1>4 DEF Persist, NoRecord, RecordDrains
<1>5. CASE Unconfirmed(s)
  <2> DEFINE record == [tx |-> call[s].sig, exit |-> call[s].exit, age |-> 0]
  <2>1. mem' = record /\ (disk' = record \/ disk' = disk) /\ pc[s] = "confirm"
    BY <1>5 DEF Unconfirmed, Save, Persist
  <2>2. ~call[s].dry /\ call[s].sig \in TxIds
    BY <1>0, <2>1 DEF HoldsSignature
  <2>3. ASSUME NEW t \in TxIds, t = call[s].sig, IsFull(call[s].exit) PROVE Drains(t)'
    BY <1>0, <1>1, <2>1, <2>2, <2>3 DEF CallDrains
  <2>4. RecordDrains(mem)'
    BY <2>1, <2>2, <2>3 DEF RecordDrains
  <2>5. RecordDrains(disk)'
    <3>1. CASE disk' = record
      BY <2>2, <2>3, <3>1 DEF RecordDrains
    <3>2. CASE disk' = disk
      BY <1>0, <1>2, <3>2 DEF RecordDrains
    <3> QED BY <2>1, <3>1, <3>2
  <2> QED BY <2>4, <2>5
<1>6. CASE FoundLanded(s) \/ FoundDead(s)
  BY <1>4, <1>6 DEF FoundLanded, FoundDead, Forget, Save
<1>7. CASE ~(Unconfirmed(s) \/ FoundLanded(s) \/ FoundDead(s))
  BY <1>3, <1>7 DEF Step, Lock, SkipLocked, NothingPending, StillUnknown,
     RecoverFill, RecoverNothing, ReadBalance, CloseOnZero, NoBalance,
     Simulate, SwapNotSent, Broadcast, Confirmed, ResendAfterSlippage,
     FailedOnChain, WriteRow, RaceClosed, BookProfit, Throw
<1> QED BY <1>5, <1>6, <1>7

\* A call closes the row only over an empty wallet.
LEMMA CloseOverEmpty ==
    ASSUME TypeOK, SignaturesHeld, DrainInv, NEW s \in Sellers, Step(s)
    PROVE  NoAbandonedTokens'
<1>0. bag' \in Nat /\ bag' <= bag /\ bag \in Nat
  BY DrainsForGood DEF Next, TypeOK
<1>1. NoAbandonedTokens /\ CallDrains(s) /\ FillLanded(s)
  BY DEF DrainInv
<1>2. CASE UNCHANGED row
  BY <1>0, <1>1, <1>2 DEF NoAbandonedTokens
<1>3. CASE CloseOnZero(s)
  BY <1>0, <1>1, <1>3 DEF CloseOnZero, NoAbandonedTokens, SellAmount, ledgerRow
<1>4. CASE WriteRow(s)
  <2>1. CASE IsFull(call[s].exit) /\ ~call[s].dry
    BY <1>0, <1>1, <1>4, <2>1 DEF WriteRow, CallDrains, FillLanded, Drains, NoAbandonedTokens
  <2>2. CASE IsFull(call[s].exit) /\ call[s].dry
    BY <1>4, <2>2 DEF WriteRow, CloseKind, NoAbandonedTokens
  <2>3. CASE ~IsFull(call[s].exit)
    BY <1>2, <1>4, <2>3 DEF WriteRow
  <2> QED BY <2>1, <2>2, <2>3
<1>5. CASE ~(CloseOnZero(s) \/ WriteRow(s))
  BY <1>2, <1>5 DEF Step, Lock, SkipLocked, NothingPending, StillUnknown,
     FoundLanded, FoundDead, RecoverFill, RecoverNothing, ReadBalance,
     NoBalance, Simulate, SwapNotSent, Broadcast, Confirmed,
     ResendAfterSlippage, FailedOnChain, Unconfirmed, RaceClosed,
     BookProfit, Throw, ledgerRow
<1> QED BY <1>3, <1>4, <1>5

\* The landing of a transaction, the clock, a crash and the operator keep it.
LEMMA DrainEnvironment ==
    ASSUME TypeOK, SignaturesHeld, DrainInv, Environment
    PROVE  DrainInv'
<1>0. /\ bag' \in Nat /\ bag' <= bag /\ bag \in Nat
      /\ \A t \in TxIds : Drains(t) => Drains(t)'
  BY DrainsForGood DEF Next, TypeOK
<1>1. mem \in Record /\ disk \in Record
  BY DEF TypeOK
<1>2. ASSUME NEW r \in Record, RecordDrains(r), NEW q,
             (q.tx = r.tx /\ q.exit = r.exit) \/ q = NoRecord
      PROVE  q.tx # NoTx /\ IsFull(q.exit) => Drains(q.tx)'
  BY <1>0, <1>2 DEF RecordDrains, Record, NoRecord
<1>3. /\ \/ mem'.tx = mem.tx /\ mem'.exit = mem.exit
         \/ mem'.tx = disk.tx /\ mem'.exit = disk.exit
         \/ mem' = NoRecord
      /\ \/ disk'.tx = disk.tx /\ disk'.exit = disk.exit
         \/ disk' = NoRecord
  <2>1. CASE UNCHANGED store
    BY <2>1 DEF store
  <2>2. CASE Tick
    BY <1>1, <2>2 DEF Tick, Aged, Record
  <2>3. CASE Crash
    <3>1. mem' = Kept(disk) /\ (disk' = Kept(disk) \/ disk' = disk)
      BY <2>3 DEF Crash, Persist
    <3>2. Kept(disk) = disk \/ Kept(disk) = NoRecord
      BY DEF Kept
    <3> QED BY <3>1, <3>2
  <2>4. CASE ~(Tick \/ Crash)
    BY <2>1, <2>4 DEF Environment, Land, FailOnChain, ToggleDryRun, OperatorCloses
  <2> QED BY <2>2, <2>3, <2>4
<1>4. RecordDrains(mem)' /\ RecordDrains(disk)'
  BY <1>1, <1>2, <1>3 DEF DrainInv, RecordDrains
<1>5. NoAbandonedTokens'
  <2>1. UNCHANGED row \/ row'.exit = "manual"
    BY DEF Environment, Land, FailOnChain, Tick, Crash, ToggleDryRun,
       OperatorCloses, ledgerRow
  <2> QED BY <1>0, <2>1 DEF DrainInv, NoAbandonedTokens
<1>6. ASSUME NEW s \in Sellers PROVE CallDrains(s)' /\ FillLanded(s)'
  <2>1. CASE UNCHANGED <<pc, call>>
    <3>1. CallDrains(s) /\ FillLanded(s) /\ HoldsSignature(s) /\ call[s] \in Call
      BY DEF DrainInv, SignaturesHeld, TypeOK
    <3>2. ASSUME NEW t \in TxIds, chain[t].st = "ok" PROVE chain'[t].st = "ok"
      BY <3>2 DEF Environment, Land, FailOnChain, Tick, Crash, ToggleDryRun,
         OperatorCloses, world, TypeOK, Transaction
    <3>3. call[s].amount \in Nat
      BY <3>1 DEF Call
    <3>4. CallDrains(s)'
      BY <1>0, <2>1, <3>1, <3>3 DEF CallDrains, HoldsSignature
    <3>5. FillLanded(s)'
      BY <2>1, <3>1, <3>2 DEF FillLanded, HoldsSignature
    <3> QED BY <3>4, <3>5
  <2>2. CASE pc' = [r \in Sellers |-> "idle"]
    BY <2>2 DEF CallDrains, FillLanded
  <2> QED BY <2>1, <2>2, CallsInEnvironment
<1> QED BY <1>4, <1>5, <1>6 DEF DrainInv

\* Every step keeps the wallet covered.
LEMMA DrainNext ==
    ASSUME TypeOK, SignaturesHeld, DrainInv, [Next]_vars
    PROVE  DrainInv'
<1>0. /\ bag' \in Nat /\ bag' <= bag /\ bag \in Nat
      /\ \A t \in TxIds : Drains(t) => Drains(t)'
  BY DrainsForGood DEF TypeOK
<1>1. ASSUME NEW s \in Sellers, Step(s) PROVE DrainInv'
  <2>1. ASSUME NEW r \in Sellers, r # s PROVE CallDrains(r)' /\ FillLanded(r)'
    <3>1. /\ CallDrains(r) /\ FillLanded(r) /\ HoldsSignature(r)
          /\ call[r].amount \in Nat
      BY DEF DrainInv, SignaturesHeld, TypeOK, Call
    <3>2. pc'[r] = pc[r] /\ call'[r] = call[r]
      BY <1>1, <2>1, OthersUntouched
    <3>3. ASSUME NEW t \in TxIds, chain[t].st = "ok" PROVE chain'[t].st = "ok"
      BY <1>1, <3>3 DEF Step, Lock, SkipLocked, NothingPending, StillUnknown,
         FoundLanded, FoundDead, RecoverFill, RecoverNothing, ReadBalance,
         CloseOnZero, NoBalance, Simulate, SwapNotSent, Broadcast, Confirmed,
         ResendAfterSlippage, FailedOnChain, Unconfirmed, WriteRow, RaceClosed,
         BookProfit, Throw, world, TypeOK
    <3>4. CallDrains(r)'
      BY <1>0, <3>1, <3>2 DEF CallDrains, HoldsSignature
    <3>5. FillLanded(r)'
      BY <3>1, <3>2, <3>3 DEF FillLanded, HoldsSignature
    <3> QED BY <3>4, <3>5
  <2> QED
    BY <1>1, <2>1, CallDrainsStep, RecordDrainsStep, CloseOverEmpty DEF DrainInv
<1>2. ASSUME NEW s \in Sellers, NEW e \in Exits, Begin(s, e) PROVE DrainInv'
  <2>1. UNCHANGED <<row, chain, bag, mem, disk>>
    BY <1>2 DEF Begin, ledgerRow, world, store
  <2>2. \A r \in Sellers : r # s => pc'[r] = pc[r] /\ call'[r] = call[r]
    BY <1>2 DEF Begin, Goto, TypeOK
  <2>3. pc'[s] = "snapshot"
    BY <1>2 DEF Begin, Goto, TypeOK
  <2> QED
    BY <2>1, <2>2, <2>3 DEF DrainInv, RecordDrains, CallDrains, FillLanded, Drains,
       NoAbandonedTokens
<1>3. CASE UNCHANGED vars
  BY <1>3 DEF vars, DrainInv, RecordDrains, CallDrains, FillLanded, Drains,
     NoAbandonedTokens
<1> QED BY <1>1, <1>2, <1>3, DrainEnvironment DEF Next

\* The cover of the wallet is an invariant.
LEMMA DrainHolds == Spec => []DrainInv
<1>1. Init => DrainInv
  BY DEF Init, DrainInv, RecordDrains, CallDrains, FillLanded, NoAbandonedTokens,
     NoRecord
<1>2. TypeOK /\ SignaturesHeld /\ DrainInv /\ [Next]_vars => DrainInv'
  BY DrainNext
<1> QED BY <1>1, <1>2, TypesAndSignatures, PTL DEF Spec

\* Whatever crashes, errors, simulations and operator actions interleave with
\* it, a row that a sell closed leaves no tokens of the position in the
\* wallet: the balance a full exit reads covers the wallet until its sell
\* lands, through every resend and every restart.
THEOREM TokensSold == Spec => []NoAbandonedTokens
<1>1. DrainInv => NoAbandonedTokens
  BY DEF DrainInv
<1> QED BY <1>1, DrainHolds, PTL

------------------------------------------------------------------------------
(* Every landed sell is accounted for *)

\* No call is a simulation.
NeverDry == ~dryRun /\ \A s \in Sellers : ~call[s].dry

\* No sell has closed the row.
Unsold == row.exit \in {"none", "manual"}

\* A sell that can still land, or may have landed, finds the row as a later
\* reconciliation needs it.
UnsoldWhilePending ==
    /\ row.exit # "none" => row.status = "CLOSED"
    /\ row.exit # "simulated"
    /\ mem.tx # NoTx => Unsold
    /\ \A s \in Sellers : pc[s] \in {"swap", "confirm"} => Unsold

\* Whoever is past the gate has no pending record behind it.
NothingBehind == \A s \in Sellers :
    pc[s] \in {"recover", "balance", "swap", "confirm", "record", "book"}
        => mem.tx = NoTx

\* With dry run off and never switched on, every sell is a real one.
LEMMA NeverDryNext ==
    ASSUME TypeOK, NeverDry, "toggle" \notin Faults, [Next]_vars
    PROVE  NeverDry'
<1>0. call \in [Sellers -> Call]
  BY DEF TypeOK
<1>1. ASSUME NEW s \in Sellers, Step(s) PROVE NeverDry'
  <2>1. ~dryRun'
    BY <1>1 DEF NeverDry, Step, Lock, SkipLocked, NothingPending, StillUnknown,
       FoundLanded, FoundDead, RecoverFill, RecoverNothing, ReadBalance,
       CloseOnZero, NoBalance, Simulate, SwapNotSent, Broadcast, Confirmed,
       ResendAfterSlippage, FailedOnChain, Unconfirmed, WriteRow, RaceClosed,
       BookProfit, Throw
  <2>2. ~call'[s].dry
    <3>1. CASE Lock(s)
      BY <1>0, <3>1 DEF Lock, NeverDry, Call
    <3>2. CASE ~Lock(s)
      BY <1>0, <1>1, <3>2 DEF NeverDry, Step, Goto, Release, NoCall, SkipLocked,
         NothingPending, StillUnknown, FoundLanded, FoundDead, RecoverFill,
         RecoverNothing, ReadBalance, CloseOnZero, NoBalance, Simulate,
         SwapNotSent, Broadcast, Confirmed, ResendAfterSlippage, FailedOnChain,
         Unconfirmed, WriteRow, RaceClosed, BookProfit, Throw, Call
    <3> QED BY <3>1, <3>2
  <2>3. ASSUME NEW r \in Sellers, r # s PROVE ~call'[r].dry
    BY <1>1, <2>3, OthersUntouched DEF NeverDry
  <2> QED BY <2>1, <2>2, <2>3 DEF NeverDry
<1>2. ASSUME NEW s \in Sellers, NEW e \in Exits, Begin(s, e) PROVE NeverDry'
  BY <1>0, <1>2 DEF Begin, NeverDry, Call
<1>3. CASE Environment
  <2>1. ~dryRun'
    BY <1>3 DEF NeverDry, Environment, Land, FailOnChain, Tick, Crash, ToggleDryRun,
       OperatorCloses
  <2>2. ~NoCall.dry
    BY DEF NoCall
  <2> QED BY <1>3, <2>1, <2>2, CallsInEnvironment DEF NeverDry
<1>4. CASE UNCHANGED vars
  BY <1>4 DEF vars, NeverDry
<1> QED BY <1>1, <1>2, <1>3, <1>4 DEF Next

\* A record is written only by the call that waits for its transaction, and
\* dropped or left alone by everybody else.
LEMMA RecordOfStep ==
    ASSUME TypeOK, NEW s \in Sellers, Step(s)
    PROVE  \/ mem' = mem
           \/ pc[s] = "gate" /\ mem' = NoRecord
           \/ pc[s] = "confirm" /\ pc'[s] = "idle" /\ mem'.tx = call[s].sig
<1>1. CASE FoundLanded(s) \/ FoundDead(s)
  BY <1>1 DEF FoundLanded, FoundDead, Forget, Save
<1>2. CASE Unconfirmed(s)
  BY <1>2 DEF Unconfirmed, Save, Release, TypeOK
<1>3. CASE ~(FoundLanded(s) \/ FoundDead(s) \/ Unconfirmed(s))
  BY <1>3 DEF Step, Lock, SkipLocked, NothingPending, StillUnknown, RecoverFill,
     RecoverNothing, ReadBalance, CloseOnZero, NoBalance, Simulate, SwapNotSent,
     Broadcast, Confirmed, ResendAfterSlippage, FailedOnChain, WriteRow,
     RaceClosed, BookProfit, Throw, store
<1> QED BY <1>1, <1>2, <1>3

\* Past the gate a step keeps the record empty.
LEMMA NothingBehindNext ==
    ASSUME TypeOK, LockExcludes, NothingBehind, NeverDry, "crash" \notin Faults,
           [Next]_vars
    PROVE  NothingBehind'
<1> DEFINE Past(s) == pc[s] \in {"recover", "balance", "swap", "confirm", "record", "book"}
<1>0. pc \in [Sellers -> Labels] /\ call \in [Sellers -> Call]
  BY DEF TypeOK
<1>1. ASSUME NEW s \in Sellers, Step(s) PROVE NothingBehind'
  <2>1. ASSUME Past(s)' PROVE mem'.tx = NoTx
    <3>1. CASE Past(s)
      BY <1>0, <1>1, <2>1, <3>1, RecordOfStep DEF NothingBehind, NoRecord
    <3>2. CASE ~Past(s)
      BY <1>0, <1>1, <2>1, <3>2
      DEF NeverDry, Step, Goto, Release, Save, Forget, Lock, SkipLocked,
          NothingPending, StillUnknown, FoundLanded, FoundDead, RecoverFill,
          RecoverNothing, ReadBalance, CloseOnZero, NoBalance, Simulate,
          SwapNotSent, Broadcast, Confirmed, ResendAfterSlippage, FailedOnChain,
          Unconfirmed, WriteRow, RaceClosed, BookProfit, Throw, store, NoRecord
    <3> QED BY <3>1, <3>2
  <2>2. ASSUME NEW r \in Sellers, r # s, Past(r)' PROVE mem'.tx = NoTx
    <3>1. Past(r)
      BY <1>1, <2>2, OthersUntouched
    <3>2. ~InLock(s)
      BY <2>2, <3>1 DEF LockExcludes, InLock
    <3> QED BY <1>1, <3>1, <3>2, RecordOfStep DEF InLock, NothingBehind
  <2> QED BY <2>1, <2>2 DEF NothingBehind
<1>2. ASSUME NEW s \in Sellers, NEW e \in Exits, Begin(s, e) PROVE NothingBehind'
  BY <1>0, <1>2 DEF Begin, Goto, NothingBehind, store
<1>3. CASE Environment
  <2>1. UNCHANGED pc
    BY <1>3 DEF Environment, Land, FailOnChain, Tick, Crash, ToggleDryRun,
       OperatorCloses, control
  <2>2. mem'.tx = mem.tx
    BY <1>3 DEF Environment, Land, FailOnChain, Tick, Crash, ToggleDryRun,
       OperatorCloses, store, Aged, TypeOK, Record
  <2> QED BY <2>1, <2>2 DEF NothingBehind
<1>4. CASE UNCHANGED vars
  BY <1>4 DEF vars, NothingBehind
<1> QED BY <1>1, <1>2, <1>3, <1>4 DEF Next

\* A call that has a sell to send, or waits for one, and a record that waits
\* to be reconciled, find a row no sell has closed: once a sell has closed it
\* the wallet is empty, and an empty wallet is not sold.
LEMMA UnsoldNext ==
    ASSUME TypeOK, LockExcludes, DrainInv, NeverDry, NothingBehind,
           UnsoldWhilePending, "crash" \notin Faults, [Next]_vars
    PROVE  UnsoldWhilePending'
<1>0. /\ pc \in [Sellers -> Labels] /\ call \in [Sellers -> Call]
      /\ row \in [status : {"OPEN", "CLOSED"},
                  exit : {"none", "fill", "zero", "simulated", "manual"}]
      /\ bag \in Nat
  BY DEF TypeOK
<1> DEFINE Sending(s) == pc[s] \in {"swap", "confirm"}
<1>1. ASSUME NEW s \in Sellers, Step(s) PROVE UnsoldWhilePending'
  <2>1. CASE CloseOnZero(s) \/ WriteRow(s)
    <3>1. pc[s] \in {"balance", "record"} /\ UNCHANGED mem
      BY <2>1 DEF CloseOnZero, WriteRow, store
    <3>2. mem'.tx = NoTx
      BY <3>1 DEF NothingBehind
    <3>3. ASSUME NEW r \in Sellers PROVE ~Sending(r)'
      <4>1. CASE r = s
        BY <1>0, <2>1, <4>1 DEF CloseOnZero, WriteRow, Goto, Release
      <4>2. CASE r # s
        <5>1. ~InLock(r)
          BY <3>1, <4>2 DEF LockExcludes, InLock
        <5> QED BY <1>1, <4>2, <5>1, OthersUntouched DEF InLock
      <4> QED BY <4>1, <4>2
    <3>4. /\ row'.exit # "none" => row'.status = "CLOSED"
          /\ row'.exit # "simulated"
      BY <2>1 DEF CloseOnZero, WriteRow, CloseKind, NeverDry, UnsoldWhilePending,
         ledgerRow
    <3> QED BY <3>2, <3>3, <3>4 DEF UnsoldWhilePending
  <2>2. CASE ReadBalance(s)
    <3>1. UNCHANGED <<row, mem>>
      BY <2>2 DEF ReadBalance, ledgerRow, store
    <3>2. SellAmount(call[s].exit, bag) > 0
      BY <2>2 DEF ReadBalance, NeverDry
    <3>3. bag # 0
      BY <1>0, <3>2 DEF SellAmount
    <3>4. Unsold
      BY <1>0, <3>3 DEF DrainInv, NoAbandonedTokens, UnsoldWhilePending, Unsold
    <3> QED BY <3>1, <3>4 DEF UnsoldWhilePending, Unsold
  <2>3. CASE ~(CloseOnZero(s) \/ WriteRow(s) \/ ReadBalance(s))
    <3>1. UNCHANGED row
      BY <1>1, <2>3 DEF Step, Lock, SkipLocked, NothingPending, StillUnknown,
         FoundLanded, FoundDead, RecoverFill, RecoverNothing, NoBalance, Simulate,
         SwapNotSent, Broadcast, Confirmed, ResendAfterSlippage, FailedOnChain,
         Unconfirmed, RaceClosed, BookProfit, Throw, ledgerRow
    <3>2. Sending(s)' => Sending(s)
      BY <1>0, <1>1, <2>3 DEF Step, Goto, Release, Lock, SkipLocked,
         NothingPending, StillUnknown, FoundLanded, FoundDead, RecoverFill,
         RecoverNothing, NoBalance, Simulate, SwapNotSent, Broadcast, Confirmed,
         ResendAfterSlippage, FailedOnChain, Unconfirmed, RaceClosed, BookProfit,
         Throw
    <3>3. ASSUME NEW r \in Sellers, Sending(r)' PROVE Sending(r)
      BY <1>1, <3>2, <3>3, OthersUntouched
    <3>4. mem'.tx # NoTx => Unsold
      BY <1>1, RecordOfStep DEF UnsoldWhilePending, NoRecord
    <3> QED BY <3>1, <3>3, <3>4 DEF UnsoldWhilePending, Unsold
  <2> QED BY <2>1, <2>2, <2>3
<1>2. ASSUME NEW s \in Sellers, NEW e \in Exits, Begin(s, e) PROVE UnsoldWhilePending'
  BY <1>0, <1>2 DEF Begin, Goto, UnsoldWhilePending, Unsold, ledgerRow, store
<1>3. CASE Environment
  <2>1. UNCHANGED pc
    BY <1>3 DEF Environment, Land, FailOnChain, Tick, Crash, ToggleDryRun,
       OperatorCloses, control
  <2>2. mem'.tx = mem.tx
    BY <1>3 DEF Environment, Land, FailOnChain, Tick, Crash, ToggleDryRun,
       OperatorCloses, store, Aged, TypeOK, Record
  <2>3. UNCHANGED row \/ row' = [status |-> "CLOSED", exit |-> "manual"]
    BY <1>3 DEF Environment, Land, FailOnChain, Tick, Crash, ToggleDryRun,
       OperatorCloses, ledgerRow
  <2> QED BY <2>1, <2>2, <2>3 DEF UnsoldWhilePending, Unsold
<1>4. CASE UNCHANGED vars
  BY <1>4 DEF vars, UnsoldWhilePending, Unsold
<1> QED BY <1>1, <1>2, <1>3, <1>4 DEF Next

\* A half exit: what it sells leaves as much behind, until it lands.
Halves(exit, amount) == ~IsFull(exit) => amount + amount <= bag

\* What a call has read, and the transaction it waits for, while the sell has
\* not landed.
UnlandedCall(s) ==
    /\ pc[s] \in {"swap", "confirm"}
    /\ pc[s] = "confirm" => chain[call[s].sig].st # "ok"

HalfCall(s) == UnlandedCall(s) =>
    /\ call[s].amount > 0
    /\ Halves(call[s].exit, call[s].amount)
    /\ pc[s] = "confirm" => chain[call[s].sig].amount = call[s].amount

\* The same of the transaction a record waits for.
HalfRecord == mem.tx # NoTx /\ chain[mem.tx].st # "ok" =>
    /\ chain[mem.tx].amount > 0
    /\ Halves(mem.exit, chain[mem.tx].amount)

HalfInv == HalfRecord /\ \A s \in Sellers : HalfCall(s)

\* The full exit that emptied the wallet is still to be written to the row.
FullPending ==
    /\ mem.tx # NoTx
    /\ IsFull(mem.exit)
    /\ chain[mem.tx].st = "ok"

FullHeld(s) ==
    /\ pc[s] \in {"confirm", "recover", "record"}
    /\ IsFull(call[s].exit)
    /\ chain[call[s].sig].st = "ok"

\* An OPEN row over a wallet that sells have emptied has an explanation: a full
\* exit that is pending or in the hands of a call, or a sell that was lost.
EmptyExplained ==
    row.status = "OPEN" /\ bag = 0 /\ (\E t \in TxIds : chain[t].st = "ok") =>
        \/ LostSells # {}
        \/ FullPending
        \/ \E s \in Sellers : FullHeld(s)


AccountInv ==
    /\ NeverDry
    /\ UnsoldWhilePending
    /\ NothingBehind
    /\ HalfInv
    /\ EmptyExplained
    /\ LandedSellAccounted

\* Only a broadcast sends a transaction, and no step of a call moves tokens.
LEMMA ChainOfStep ==
    ASSUME TypeOK, NEW s \in Sellers, Step(s)
    PROVE  /\ UNCHANGED bag
           /\ \/ UNCHANGED chain
              \/ \E t \in TxIds, reached \in BOOLEAN : Broadcast(s, t, reached)
BY DEF Step, Lock, SkipLocked, NothingPending, StillUnknown, FoundLanded,
   FoundDead, RecoverFill, RecoverNothing, ReadBalance, CloseOnZero, NoBalance,
   Simulate, SwapNotSent, Broadcast, Confirmed, ResendAfterSlippage,
   FailedOnChain, Unconfirmed, WriteRow, RaceClosed, BookProfit, Throw, world

\* A step of a call keeps what its own half exit leaves behind.
LEMMA HalfCallStep ==
    ASSUME TypeOK, SignaturesHeld, LockExcludes, NeverDry, HalfInv,
           NEW s \in Sellers, Step(s)
    PROVE  HalfCall(s)'
<1>0. /\ pc \in [Sellers -> Labels] /\ call \in [Sellers -> Call]
      /\ call[s] \in Call /\ bag \in Nat /\ chain \in [TxIds -> Transaction]
      /\ HalfCall(s) /\ HoldsSignature(s) /\ ~call[s].dry
  BY DEF TypeOK, HalfInv, SignaturesHeld, NeverDry
<1> USE DEF Goto, Release
<1>1. ASSUME pc'[s] \notin {"swap", "confirm"} PROVE HalfCall(s)'
  BY <1>1 DEF HalfCall, UnlandedCall
<1>2. CASE ReadBalance(s)
  <2>1. call'[s].amount = SellAmount(call[s].exit, bag) /\ call'[s].exit = call[s].exit
    BY <1>0, <1>2 DEF ReadBalance, Call
  <2>2. pc'[s] = "swap" /\ UNCHANGED bag /\ SellAmount(call[s].exit, bag) > 0
    BY <1>0, <1>2 DEF ReadBalance, world
  <2> QED BY <1>0, <2>1, <2>2 DEF HalfCall, UnlandedCall, Halves, SellAmount
<1>3. CASE \E t \in TxIds, reached \in BOOLEAN : Broadcast(s, t, reached)
  <2>1. PICK t \in TxIds, reached \in BOOLEAN : Broadcast(s, t, reached)
    BY <1>3
  <2>2. /\ pc[s] = "swap" /\ pc'[s] = "confirm" /\ UNCHANGED bag
        /\ chain'[t].amount = call[s].amount
    BY <1>0, <2>1 DEF Broadcast
  <2>3. /\ call'[s].sig = t /\ call'[s].exit = call[s].exit
        /\ call'[s].amount = call[s].amount
    BY <1>0, <2>1 DEF Broadcast, Call
  <2> QED BY <1>0, <2>2, <2>3 DEF HalfCall, UnlandedCall, Halves
<1>4. CASE ResendAfterSlippage(s)
  <2>1. /\ pc[s] = "confirm" /\ chain[call[s].sig].st = "failed"
        /\ pc'[s] = "swap" /\ UNCHANGED <<chain, bag>>
    BY <1>0, <1>4 DEF ResendAfterSlippage, world
  <2>2. call'[s].exit = call[s].exit /\ call'[s].amount = call[s].amount
    BY <1>0, <1>4 DEF ResendAfterSlippage, Call
  <2> QED BY <1>0, <2>1, <2>2 DEF HalfCall, UnlandedCall, Halves
<1>5. CASE ~(ReadBalance(s) \/ ResendAfterSlippage(s)
            \/ \E t \in TxIds, reached \in BOOLEAN : Broadcast(s, t, reached))
  <2>1. pc'[s] \notin {"swap", "confirm"} \/ UNCHANGED <<pc, call, chain, bag>>
    BY <1>0, <1>5 DEF Step, Lock, SkipLocked, NothingPending, StillUnknown,
       FoundLanded, FoundDead, RecoverFill, RecoverNothing, CloseOnZero, NoBalance,
       Simulate, SwapNotSent, Confirmed, FailedOnChain, Unconfirmed, WriteRow,
       RaceClosed, BookProfit, Throw, NeverDry
  <2> QED BY <1>0, <1>1, <2>1 DEF HalfCall, UnlandedCall, Halves
<1> QED BY <1>2, <1>3, <1>4, <1>5

\* A half exit leaves tokens behind until it lands: nothing else can land
\* beside it, because the gate let it pass only after every older sell was
\* resolved.
LEMMA HalfNext ==
    ASSUME TypeOK, SignaturesHeld, LockExcludes, FlightInv, NeverDry,
           NothingBehind, HalfInv, "crash" \notin Faults, [Next]_vars
    PROVE  HalfInv'
<1>0. /\ pc \in [Sellers -> Labels] /\ call \in [Sellers -> Call]
      /\ bag \in Nat /\ chain \in [TxIds -> Transaction] /\ mem \in Record
  BY DEF TypeOK
<1>1. ASSUME NEW s \in Sellers, Step(s) PROVE HalfInv'
  <2>1. ASSUME NEW r \in Sellers PROVE HalfCall(r)'
    <3>1. CASE r = s
      BY <1>1, <3>1, HalfCallStep
    <3>2. CASE r # s
      <4>1. pc'[r] = pc[r] /\ call'[r] = call[r]
        BY <1>1, <3>2, OthersUntouched
      <4>2. ASSUME pc[r] \in {"swap", "confirm"} PROVE UNCHANGED <<chain, bag>>
        BY <1>1, <3>2, <4>2, ChainOfStep DEF Broadcast, LockExcludes, InLock
      <4> QED BY <4>1, <4>2 DEF HalfInv, HalfCall, UnlandedCall, Halves
    <3> QED BY <3>1, <3>2
  <2>2. HalfRecord'
    <3>1. CASE mem'.tx = NoTx
      BY <3>1 DEF HalfRecord
    <3>2. CASE mem' = mem /\ mem.tx # NoTx
      <4>1. UNCHANGED <<chain, bag>>
        BY <1>1, <3>2, ChainOfStep DEF Broadcast, NothingBehind
      <4> QED BY <3>2, <4>1 DEF HalfInv, HalfRecord, Halves
    <3>3. CASE Unconfirmed(s)
      <4>1. /\ pc[s] = "confirm" /\ UNCHANGED <<chain, bag>>
            /\ mem'.tx = call[s].sig /\ mem'.exit = call[s].exit
        BY <3>3 DEF Unconfirmed, Save, world
      <4> QED BY <4>1 DEF HalfInv, HalfRecord, HalfCall, UnlandedCall, Halves
    <3> QED
      <4>1. mem' = mem \/ mem'.tx = NoTx \/ Unconfirmed(s)
        BY <1>1 DEF Step, Lock, SkipLocked, NothingPending, StillUnknown,
           FoundLanded, FoundDead, RecoverFill, RecoverNothing, ReadBalance,
           CloseOnZero, NoBalance, Simulate, SwapNotSent, Broadcast, Confirmed,
           ResendAfterSlippage, FailedOnChain, WriteRow, RaceClosed, BookProfit,
           Throw, store, Forget, Save, NoRecord
      <4> QED BY <3>1, <3>2, <3>3, <4>1
  <2> QED BY <2>1, <2>2 DEF HalfInv
<1>2. ASSUME NEW s \in Sellers, NEW e \in Exits, Begin(s, e) PROVE HalfInv'
  <2>1. UNCHANGED <<chain, bag, mem>> /\ pc'[s] = "snapshot"
    BY <1>0, <1>2 DEF Begin, Goto, world, store
  <2>2. \A r \in Sellers : r # s => pc'[r] = pc[r] /\ call'[r] = call[r]
    BY <1>2 DEF Begin, Goto, TypeOK
  <2> QED BY <2>1, <2>2 DEF HalfInv, HalfRecord, HalfCall, UnlandedCall, Halves
<1>3. CASE Environment
  <2>1. UNCHANGED <<pc, call>>
    BY <1>3 DEF Environment, Land, FailOnChain, Tick, Crash, ToggleDryRun,
       OperatorCloses, control
  <2>2. mem'.tx = mem.tx /\ mem'.exit = mem.exit
    BY <1>0, <1>3 DEF Environment, Land, FailOnChain, Tick, Crash, ToggleDryRun,
       OperatorCloses, store, Aged, Record
  <2>3. ASSUME NEW u \in TxIds
        PROVE  /\ chain'[u].amount = chain[u].amount
               /\ chain[u].st = "ok" => chain'[u].st = "ok"
    <3>1. chain[u] \in Transaction
      BY <1>0
    <3>2. CASE Tick
      BY <3>1, <3>2 DEF Tick, Transaction
    <3>3. CASE ~Tick
      BY <1>0, <1>3, <3>1, <3>3 DEF Environment, Land, FailOnChain, Crash,
         ToggleDryRun, OperatorCloses, world, Transaction
    <3> QED BY <3>2, <3>3
  <2>4. CASE UNCHANGED bag
    BY <1>0, <2>1, <2>2, <2>3, <2>4
    DEF HalfInv, HalfRecord, HalfCall, UnlandedCall, Halves, SignaturesHeld,
        HoldsSignature, Record
  <2>5. ASSUME NEW t \in TxIds, Land(t) PROVE HalfInv'
    <3>1. chain[t].st = "flying" /\ chain'[t].st = "ok"
      BY <1>0, <2>5 DEF Land, Transaction
    <3>2. ASSUME NEW s \in Sellers, pc[s] \in {"swap", "confirm"}
          PROVE  pc[s] = "confirm" /\ call[s].sig = t
      BY <3>1, <3>2, OnlyOwnFlight DEF GatePassed, NeverDry, Flying
    <3>3. \A s \in Sellers : HalfCall(s)'
      BY <2>1, <3>1, <3>2 DEF HalfCall, UnlandedCall
    <3>4. mem.tx # NoTx => mem.tx = t
      BY <3>1 DEF FlightInv, FlightsCovered, Flying, RecordCovers, ConfirmCovers,
         NothingBehind
    <3>5. HalfRecord'
      BY <2>2, <3>1, <3>4 DEF HalfRecord
    <3> QED BY <3>3, <3>5 DEF HalfInv
  <2> QED
    BY <1>3, <2>4, <2>5 DEF Environment, FailOnChain, Tick, Crash, ToggleDryRun,
       OperatorCloses, world
<1>4. CASE UNCHANGED vars
  BY <1>4 DEF vars, HalfInv, HalfRecord, HalfCall, UnlandedCall, Halves
<1> QED BY <1>1, <1>2, <1>3, <1>4 DEF Next

\* A step of a call hands the explanation of an empty wallet on, or closes the
\* row.
LEMMA EmptyStep ==
    ASSUME TypeOK, SignaturesHeld, LockExcludes, NeverDry, NothingBehind,
           EmptyExplained, "throw" \notin Faults, NEW s \in Sellers, Step(s)
    PROVE  EmptyExplained'
<1>0. /\ pc \in [Sellers -> Labels] /\ call \in [Sellers -> Call]
      /\ call[s] \in Call /\ chain \in [TxIds -> Transaction] /\ mem \in Record
  BY DEF TypeOK
<1> SUFFICES ASSUME row'.status = "OPEN", bag' = 0,
                    \E t \in TxIds : chain'[t].st = "ok"
             PROVE  (LostSells # {} \/ FullPending \/ \E r \in Sellers : FullHeld(r))'
  BY DEF EmptyExplained
<1>1. UNCHANGED bag
  BY ChainOfStep
<1>2. \A t \in TxIds : chain'[t].st = "ok" <=> chain[t].st = "ok"
  BY <1>0, ChainOfStep DEF Broadcast
<1>3. row.status = "OPEN"
  BY DEF Step, Lock, SkipLocked, NothingPending, StillUnknown, FoundLanded,
     FoundDead, RecoverFill, RecoverNothing, ReadBalance, CloseOnZero, NoBalance,
     Simulate, SwapNotSent, Broadcast, Confirmed, ResendAfterSlippage,
     FailedOnChain, Unconfirmed, WriteRow, RaceClosed, BookProfit, Throw,
     ledgerRow
<1>4. unrecovered \subseteq unrecovered' /\ givenUp \subseteq givenUp'
  BY DEF Step, Lock, SkipLocked, NothingPending, StillUnknown, FoundLanded,
     FoundDead, RecoverFill, RecoverNothing, ReadBalance, CloseOnZero, NoBalance,
     Simulate, SwapNotSent, Broadcast, Confirmed, ResendAfterSlippage,
     FailedOnChain, Unconfirmed, WriteRow, RaceClosed, BookProfit, Throw, alerts
<1>5. CASE LostSells # {}
  <2>1. PICK t \in LostSells : TRUE
    BY <1>5
  <2>2. t \in unrecovered \union givenUp /\ t \in TxIds /\ chain[t].st = "ok"
    BY <2>1 DEF LostSells, TypeOK
  <2> QED BY <1>2, <1>4, <2>2 DEF LostSells
<1>6. CASE FullPending
  <2>1. mem.tx \in TxIds /\ mem.tx # NoTx /\ chain'[mem.tx].st = "ok"
    BY <1>0, <1>2, <1>6 DEF FullPending, Record
  <2>2. CASE FoundLanded(s)
    <3>1. pc'[s] = "recover" /\ call'[s].sig = mem.tx /\ call'[s].exit = mem.exit
      BY <1>0, <2>2 DEF FoundLanded, Goto, Call
    <3> QED BY <1>6, <2>1, <3>1 DEF FullPending, FullHeld
  <2>3. CASE FoundDead(s)
    BY <2>1, <2>3 DEF FoundDead, LostSells
  <2>4. CASE ~(FoundLanded(s) \/ FoundDead(s))
    <3>1. UNCHANGED mem
      BY <1>0, <2>1, <2>4 DEF NothingBehind, Step, Lock, SkipLocked,
         NothingPending, StillUnknown, RecoverFill, RecoverNothing, ReadBalance,
         CloseOnZero, NoBalance, Simulate, SwapNotSent, Broadcast, Confirmed,
         ResendAfterSlippage, FailedOnChain, Unconfirmed, WriteRow, RaceClosed,
         BookProfit, Throw, store
    <3> QED BY <1>6, <2>1, <3>1 DEF FullPending
  <2> QED BY <2>2, <2>3, <2>4
<1>7. ASSUME NEW r \in Sellers, FullHeld(r)
      PROVE  (LostSells # {} \/ FullPending \/ \E q \in Sellers : FullHeld(q))'
  <2>1. /\ call[r].sig \in TxIds /\ chain[call[r].sig].st = "ok"
        /\ chain'[call[r].sig].st = "ok"
    BY <1>2, <1>7 DEF FullHeld, SignaturesHeld, HoldsSignature, NeverDry
  <2>2. CASE r # s
    <3>1. pc'[r] = pc[r] /\ call'[r] = call[r]
      BY <2>2, OthersUntouched
    <3> QED BY <1>7, <2>1, <3>1 DEF FullHeld
  <2>3. CASE r = s
    <3>0. pc[s] \in {"confirm", "recover", "record"} /\ IsFull(call[s].exit)
      BY <1>7, <2>3 DEF FullHeld
    <3>1. CASE RecoverFill(s) \/ Confirmed(s)
      <4>1. UNCHANGED call /\ pc'[s] = "record"
        BY <1>0, <3>1 DEF RecoverFill, Confirmed, Goto
      <4> QED BY <2>1, <2>3, <3>0, <4>1 DEF FullHeld
    <3>2. CASE RecoverNothing(s)
      BY <2>1, <2>3, <3>2 DEF RecoverNothing, LostSells
    <3>3. CASE Unconfirmed(s)
      <4>1. mem'.tx = call[s].sig /\ mem'.exit = call[s].exit
        BY <3>3 DEF Unconfirmed, Save
      <4> QED BY <2>1, <2>3, <3>0, <4>1, NoTxAssumption DEF FullPending
    <3>4. ~WriteRow(s) /\ ~RaceClosed(s)
      BY <1>3, <3>0 DEF WriteRow, RaceClosed
    <3> QED
      BY <2>1, <2>3, <3>0, <3>1, <3>2, <3>3, <3>4
      DEF Step, Lock, SkipLocked, NothingPending, StillUnknown, FoundLanded,
          FoundDead, ReadBalance, CloseOnZero, NoBalance, Simulate, SwapNotSent,
          Broadcast, ResendAfterSlippage, FailedOnChain, BookProfit, Throw
  <2> QED BY <2>2, <2>3
<1> QED BY <1>1, <1>2, <1>3, <1>5, <1>6, <1>7 DEF EmptyExplained

\* What empties the wallet is a full exit, for a half leaves tokens behind.
LEMMA EmptyNext ==
    ASSUME TypeOK, SignaturesHeld, LockExcludes, FlightInv, NeverDry,
           NothingBehind, HalfInv, EmptyExplained,
           "crash" \notin Faults, "throw" \notin Faults, [Next]_vars
    PROVE  EmptyExplained'
<1>0. /\ pc \in [Sellers -> Labels] /\ call \in [Sellers -> Call]
      /\ bag \in Nat /\ chain \in [TxIds -> Transaction] /\ mem \in Record
  BY DEF TypeOK
<1>1. ASSUME NEW s \in Sellers, Step(s) PROVE EmptyExplained'
  BY <1>1, EmptyStep
<1>2. ASSUME UNCHANGED <<row, bag, unrecovered, givenUp>>,
             mem'.tx = mem.tx, mem'.exit = mem.exit,
             \A t \in TxIds : chain'[t].st = "ok" <=> chain[t].st = "ok",
             \A s \in Sellers : FullHeld(s) => pc'[s] = pc[s] /\ call'[s] = call[s]
      PROVE  EmptyExplained'
  BY <1>0, <1>2 DEF EmptyExplained, LostSells, FullPending, FullHeld, TypeOK, Record,
     SignaturesHeld, HoldsSignature, NeverDry
<1>3. ASSUME NEW s \in Sellers, NEW e \in Exits, Begin(s, e) PROVE EmptyExplained'
  <2>1. UNCHANGED <<row, bag, chain, mem, unrecovered, givenUp>> /\ pc[s] = "idle"
    BY <1>3 DEF Begin, ledgerRow, world, store, alerts
  <2>2. \A r \in Sellers : r # s => pc'[r] = pc[r] /\ call'[r] = call[r]
    BY <1>3 DEF Begin, Goto, TypeOK
  <2> QED BY <1>2, <2>1, <2>2 DEF FullHeld
<1>4. ASSUME NEW t \in TxIds, Land(t) PROVE EmptyExplained'
  <2>1. /\ chain[t].st = "flying" /\ chain'[t].st = "ok"
        /\ chain[t].amount \in Nat /\ bag' = bag - chain[t].amount
        /\ chain[t].amount <= bag
        /\ UNCHANGED <<pc, call, mem>>
    BY <1>0, <1>4 DEF Land, Transaction, control, store
  <2> SUFFICES ASSUME bag' = 0 PROVE FullPending' \/ \E s \in Sellers : FullHeld(s)'
    BY DEF EmptyExplained
  <2>2. CASE RecordCovers(t)
    <3>1. mem.tx = t /\ mem.tx # NoTx
      BY <2>2, NoTxAssumption DEF RecordCovers
    <3>2. IsFull(mem.exit)
      BY <1>0, <2>1, <3>1 DEF HalfInv, HalfRecord, Halves
    <3> QED BY <2>1, <3>1, <3>2 DEF FullPending
  <2>3. CASE ConfirmCovers(t)
    <3>1. PICK s \in Sellers : pc[s] = "confirm" /\ call[s].sig = t
      BY <2>3 DEF ConfirmCovers
    <3>2. IsFull(call[s].exit)
      BY <1>0, <2>1, <3>1 DEF HalfInv, HalfCall, UnlandedCall, Halves
    <3> QED BY <2>1, <3>1, <3>2 DEF FullHeld
  <2> QED BY <2>1, <2>2, <2>3 DEF FlightInv, FlightsCovered, Flying
<1>5. CASE OperatorCloses
  BY <1>5 DEF OperatorCloses, EmptyExplained
<1>6. CASE Environment /\ ~OperatorCloses /\ ~(\E t \in TxIds : Land(t))
  <2>1. UNCHANGED <<row, bag, unrecovered, givenUp, pc, call>>
    BY <1>6 DEF Environment, FailOnChain, Tick, Crash, ToggleDryRun,
       ledgerRow, alerts, control, world
  <2>2. mem'.tx = mem.tx /\ mem'.exit = mem.exit
    BY <1>0, <1>6 DEF Environment, FailOnChain, Tick, Crash, ToggleDryRun,
       store, Aged, Record
  <2>3. ASSUME NEW u \in TxIds PROVE chain'[u].st = "ok" <=> chain[u].st = "ok"
    <3>1. chain[u] \in Transaction
      BY <1>0
    <3>2. CASE Tick
      BY <3>1, <3>2 DEF Tick, Transaction
    <3>3. CASE ~Tick
      BY <1>0, <1>6, <3>1, <3>3 DEF Environment, FailOnChain, Crash,
         ToggleDryRun, world, Transaction
    <3> QED BY <3>2, <3>3
  <2> QED BY <1>2, <2>1, <2>2, <2>3
<1>7. CASE UNCHANGED vars
  BY <1>2, <1>7 DEF vars
<1> QED BY <1>1, <1>3, <1>4, <1>5, <1>6, <1>7 DEF Next, Environment

\* What accounts for t.
Accounted(t) ==
    \/ t \in booked
    \/ t \in erased /\ LostSells # {}
    \/ mem.tx = t /\ Unsold
    \/ Held(t)
    \/ t \in raced \union unrecovered \union givenUp

\* A step of a call hands an accounted sell on: from the record to the call,
\* from the call to the record, the row's ledger or an alert.
LEMMA AccountedStep ==
    ASSUME TypeOK, SignaturesHeld, LockExcludes, AccountInv, "throw" \notin Faults,
           NEW s \in Sellers, Step(s),
           NEW t \in TxIds, chain[t].st = "ok", Accounted(t)
    PROVE  Accounted(t)'
<1>0. pc \in [Sellers -> Labels] /\ call \in [Sellers -> Call]
  BY DEF TypeOK
<1>1. /\ erased \subseteq erased' /\ raced \subseteq raced'
      /\ unrecovered \subseteq unrecovered' /\ givenUp \subseteq givenUp'
  BY DEF Step, Lock, SkipLocked, NothingPending, StillUnknown, FoundLanded,
     FoundDead, RecoverFill, RecoverNothing, ReadBalance, CloseOnZero, NoBalance,
     Simulate, SwapNotSent, Broadcast, Confirmed, ResendAfterSlippage,
     FailedOnChain, Unconfirmed, WriteRow, RaceClosed, BookProfit, Throw,
     ledgerRow, alerts
<1>2. CASE t \in raced \union unrecovered \union givenUp
  BY <1>1, <1>2 DEF Accounted
<1>5. LostSells # {} => LostSells' # {}
  <2>1. \A u \in TxIds : chain[u].st = "ok" => chain'[u].st = "ok"
    BY ChainOfStep DEF Broadcast, TypeOK
  <2> QED BY <1>1, <2>1 DEF LostSells, TypeOK
<1>6. CASE t \in erased /\ LostSells # {}
  BY <1>1, <1>5, <1>6 DEF Accounted
<1>7. CASE t \in booked
  <2>1. CASE CloseOnZero(s) /\ IsFull(call[s].exit) /\ row.status = "OPEN"
    <3>1. /\ pc[s] = "balance" /\ bag = 0 /\ UNCHANGED <<chain, bag>>
          /\ erased' = erased \union booked
      BY <2>1 DEF CloseOnZero, SellAmount, world
    <3>2. mem.tx = NoTx
      BY <3>1 DEF AccountInv, NothingBehind
    <3>3. \A r \in Sellers : ~FullHeld(r)
      BY <3>1 DEF FullHeld, LockExcludes, InLock
    <3>4. LostSells # {}
      BY <2>1, <3>1, <3>2, <3>3 DEF AccountInv, EmptyExplained, FullPending
    <3> QED BY <1>5, <1>7, <3>1, <3>4 DEF Accounted
  <2>2. CASE ~(CloseOnZero(s) /\ IsFull(call[s].exit) /\ row.status = "OPEN")
    <3>1. booked \subseteq booked'
      BY <2>2 DEF Step, Lock, SkipLocked, NothingPending, StillUnknown, FoundLanded,
         FoundDead, RecoverFill, RecoverNothing, ReadBalance, CloseOnZero, NoBalance,
         Simulate, SwapNotSent, Broadcast, Confirmed, ResendAfterSlippage,
         FailedOnChain, Unconfirmed, WriteRow, RaceClosed, BookProfit, Throw,
         ledgerRow
    <3> QED BY <1>7, <3>1 DEF Accounted
  <2> QED BY <2>1, <2>2
<1>3. CASE mem.tx = t /\ Unsold
  <2>0. mem.tx # NoTx
    BY <1>3, NoTxAssumption
  <2>1. pc[s] \notin {"recover", "balance", "swap", "confirm", "record", "book"}
    BY <2>0 DEF AccountInv, NothingBehind
  <2>2. CASE FoundLanded(s)
    <3>1. pc'[s] = "recover" /\ call'[s].sig = t
      BY <1>0, <1>3, <2>2 DEF FoundLanded, Goto, Call
    <3> QED BY <3>1 DEF Accounted, Held
  <2>3. CASE FoundDead(s)
    BY <1>3, <2>3 DEF FoundDead, Accounted
  <2>4. CASE ~(FoundLanded(s) \/ FoundDead(s))
    <3>1. UNCHANGED <<mem, row>>
      BY <2>1, <2>4 DEF Step, Lock, SkipLocked, NothingPending, StillUnknown,
         RecoverFill, RecoverNothing, ReadBalance, CloseOnZero, NoBalance,
         Simulate, SwapNotSent, Broadcast, Confirmed, ResendAfterSlippage,
         FailedOnChain, Unconfirmed, WriteRow, RaceClosed, BookProfit, Throw,
         ledgerRow, store
    <3> QED BY <1>3, <3>1 DEF Accounted, Unsold
  <2> QED BY <2>2, <2>3, <2>4
<1>4. CASE Held(t)
  <2>1. PICK r \in Sellers : /\ call[r].sig = t
                             /\ pc[r] \in {"confirm", "recover", "record", "book"}
    BY <1>4 DEF Held
  <2>2. CASE r # s
    <3>1. pc'[r] = pc[r] /\ call'[r] = call[r]
      BY <2>2, OthersUntouched
    <3> QED BY <2>1, <3>1 DEF Accounted, Held
  <2>3. CASE r = s
    <3>0. call[s].sig = t /\ pc[s] \in {"confirm", "recover", "record", "book"}
      BY <2>1, <2>3
    <3>1. ~call[s].dry
      BY DEF AccountInv, NeverDry
    <3>2. CASE RecoverFill(s) \/ Confirmed(s) \/ WriteRow(s)
      <4>1. UNCHANGED call /\ pc'[s] \in {"record", "book"}
        BY <1>0, <3>2 DEF RecoverFill, Confirmed, WriteRow, Goto
      <4> QED BY <3>0, <4>1 DEF Accounted, Held
    <3>3. CASE RecoverNothing(s)
      BY <3>0, <3>3 DEF RecoverNothing, Accounted
    <3>4. CASE RaceClosed(s)
      BY <3>0, <3>1, <3>4 DEF RaceClosed, Accounted
    <3>5. CASE BookProfit(s)
      BY <3>0, <3>1, <3>5 DEF BookProfit, Accounted
    <3>6. CASE Unconfirmed(s)
      <4>1. mem'.tx = t /\ UNCHANGED row
        BY <3>0, <3>6 DEF Unconfirmed, Save, ledgerRow
      <4>2. Unsold
        BY <3>6 DEF Unconfirmed, AccountInv, UnsoldWhilePending
      <4> QED BY <4>1, <4>2 DEF Accounted, Unsold
    <3> QED
      BY <3>0, <3>2, <3>3, <3>4, <3>5, <3>6
      DEF Step, Lock, SkipLocked, NothingPending, StillUnknown, FoundLanded,
          FoundDead, ReadBalance, CloseOnZero, NoBalance, Simulate, SwapNotSent,
          Broadcast, ResendAfterSlippage, FailedOnChain, Throw
  <2> QED BY <2>2, <2>3
<1> QED BY <1>2, <1>3, <1>4, <1>6, <1>7 DEF Accounted

\* Every step keeps every landed sell accounted for.
LEMMA AccountedNext ==
    ASSUME TypeOK, SignaturesHeld, LockExcludes, FlightInv, AccountInv,
           [Next]_vars, "crash" \notin Faults, "throw" \notin Faults
    PROVE  LandedSellAccounted'
<1> SUFFICES ASSUME NEW t \in TxIds, chain'[t].st = "ok" PROVE Accounted(t)'
  BY DEF LandedSellAccounted, Accounted, Unsold
<1>0. chain \in [TxIds -> Transaction] /\ mem \in Record
  BY DEF TypeOK
<1>1. chain[t].st = "ok" => Accounted(t)
  BY DEF AccountInv, LandedSellAccounted, Accounted, Unsold
<1>2. ASSUME NEW s \in Sellers, Step(s) PROVE Accounted(t)'
  <2>1. chain[t].st = "ok"
    BY <1>0, <1>2 DEF Step, Lock, SkipLocked, NothingPending, StillUnknown,
       FoundLanded, FoundDead, RecoverFill, RecoverNothing, ReadBalance,
       CloseOnZero, NoBalance, Simulate, SwapNotSent, Broadcast, Confirmed,
       ResendAfterSlippage, FailedOnChain, Unconfirmed, WriteRow, RaceClosed,
       BookProfit, Throw, world
  <2> QED BY <1>1, <1>2, <2>1, AccountedStep
<1>3. ASSUME NEW s \in Sellers, NEW e \in Exits, Begin(s, e) PROVE Accounted(t)'
  <2>1. UNCHANGED <<row, booked, erased, chain, mem, raced, unrecovered, givenUp>>
    BY <1>3 DEF Begin, ledgerRow, world, store, alerts
  <2>2. \A r \in Sellers : r # s => pc'[r] = pc[r] /\ call'[r] = call[r]
    BY <1>3 DEF Begin, Goto, TypeOK
  <2>3. pc[s] = "idle"
    BY <1>3 DEF Begin
  <2>4. Held(t) => Held(t)'
    BY <2>2, <2>3 DEF Held
  <2> QED BY <1>1, <2>1, <2>4 DEF Accounted, Unsold, LostSells
<1>4. CASE Environment
  <2>1. /\ UNCHANGED <<booked, erased, raced, unrecovered, givenUp, pc, call>>
        /\ UNCHANGED row \/ row'.exit = "manual"
    BY <1>4 DEF Environment, Land, FailOnChain, Tick, Crash, ToggleDryRun,
       OperatorCloses, ledgerRow, alerts, control
  <2>2. mem'.tx = mem.tx
    BY <1>0, <1>4 DEF Environment, Land, FailOnChain, Tick, Crash, ToggleDryRun,
       OperatorCloses, store, Aged, Record
  <2>6. \A u \in TxIds : chain[u].st = "ok" => chain'[u].st = "ok"
    BY <1>4 DEF Environment, Land, FailOnChain, Tick, Crash, ToggleDryRun,
       OperatorCloses, world, TypeOK, Transaction
  <2>7. LostSells # {} => LostSells' # {}
    BY <2>1, <2>6 DEF LostSells, TypeOK
  <2>3. Accounted(t) => Accounted(t)'
    BY <2>1, <2>2, <2>7 DEF Accounted, Unsold, Held
  <2>4. CASE chain[t].st = "flying"
    <3>1. RecordCovers(t) \/ ConfirmCovers(t)
      BY <2>4 DEF FlightInv, FlightsCovered, Flying
    <3>2. RecordCovers(t) => Accounted(t)
      BY NoTxAssumption DEF RecordCovers, Accounted, AccountInv, UnsoldWhilePending
    <3>3. ConfirmCovers(t) => Accounted(t)
      BY DEF ConfirmCovers, Accounted, Held
    <3> QED BY <2>3, <3>1, <3>2, <3>3
  <2>5. CASE chain[t].st # "flying"
    <3>1. chain[t].st = "ok"
      BY <1>0, <1>4, <2>5 DEF Environment, Land, FailOnChain, Tick, Crash,
         ToggleDryRun, OperatorCloses, world, Transaction
    <3> QED BY <1>1, <2>3, <3>1
  <2> QED BY <2>4, <2>5
<1>5. CASE UNCHANGED vars
  BY <1>1, <1>5 DEF vars, Accounted, Unsold, Held, LostSells
<1> QED BY <1>2, <1>3, <1>4, <1>5 DEF Next

\* A sell that executed is never forgotten, as long as the process does not
\* die between the broadcast and the record, no awaited call of the handler
\* throws and dry run stays off: its profit is in the row, or a zero-balance
\* close erased it over a wallet that a lost sell had emptied, or it waits to be
\* reconciled on a row no other sell can have closed, or a call is working on
\* it, or the operator was told, or the gate waited the whole window for it.
\* A failing file, failing queries, unparsable fills and an operator who closes
\* the row are all allowed.
THEOREM SellsAccounted ==
    ASSUME "crash" \notin Faults, "throw" \notin Faults, "toggle" \notin Faults
    PROVE  Spec => []LandedSellAccounted
<1> DEFINE Inv == TypeOK /\ SignaturesHeld /\ LockExcludes /\ DrainInv /\ FlightInv
<1>1. Init => AccountInv
  BY DEF Init, AccountInv, NeverDry, UnsoldWhilePending, Unsold, NothingBehind,
     HalfInv, HalfRecord, HalfCall, UnlandedCall, EmptyExplained,
     LandedSellAccounted, NoCall, NoRecord, Unsent
<1>2. Inv /\ AccountInv /\ [Next]_vars => AccountInv'
  BY NeverDryNext, NothingBehindNext, UnsoldNext, HalfNext, EmptyNext,
     AccountedNext DEF AccountInv
<1>3. AccountInv => LandedSellAccounted
  BY DEF AccountInv
<1>4. Spec => []Inv
  BY TypesAndSignatures, LockIsExclusive, DrainHolds, FlightHolds, PTL
<1> QED BY <1>1, <1>2, <1>3, <1>4, PTL DEF Spec
==============================================================================
