---------------------------- MODULE ServicesProofs ----------------------------
(***************************************************************************)
(* What the components around the trade promise.  Scanner, for any number of*)
(* monitors, chats and slots: the slots and the token are given back exactly*)
(* once, a monitor buys a token twice for a chat only after a torn rebound,*)
(* and its first buy respects the rest after a trade.  Deposits, for every *)
(* transaction and delivery: the vaults hold what was paid on chain.       *)
(***************************************************************************)
EXTENDS MCServices, GateProofs, PriceMonitorProofs

Places == {"idle", "lookup", "cooldown", "reset", "stagnate", "held", "cool", "enter",
           "look", "rebound", "analyze", "confirm", "rebuying", "chats", "served",
           "rebought", "giveUp"}

Records == [at : Places, found : BOOLEAN, todo : SUBSET Chats, hit : BOOLEAN,
            signal : BOOLEAN, bought : SUBSET LiveChats, torn : BOOLEAN,
            again : BOOLEAN, early : BOOLEAN, outside : BOOLEAN]

\* The places where nothing has been bought yet, unless a rebound was torn.
Unbought == {"lookup", "cooldown", "reset", "stagnate", "held", "cool", "enter",
             "look", "rebound", "analyze", "confirm"}

\* The places after the look at the last trade from which a buy may follow.
Past == {"enter", "look", "rebound", "analyze", "confirm", "rebuying", "chats"}

Resting == LatestTrade \in {"open", "cooling"}

Tidy(r) ==
    /\ r.again => r.torn
    /\ (~ r.torn /\ r.at \in Unbought) => r.bought = {}
    /\ (~ r.torn /\ r.at \in Buying) =>
           r.bought \intersect r.todo = {} /\ (r.bought # {} => r.hit)

Patient(r, resting) ==
    /\ r.early => r.outside
    /\ (r.at \in Past /\ r.bought = {} /\ ~ r.outside) => ~ resting

Typed ==
    /\ active \in Nat /\ others \in Nat /\ processing \in BOOLEAN
    /\ latest \in LiveChats \union {"none"}
    /\ mon \in [Monitors -> Records]
    /\ trade \in [LiveChats -> {"none", "open", "cooling", "over"}]

Slots ==
    /\ \A m, n \in Monitors : mon[m].at # "idle" /\ mon[n].at # "idle" => m = n
    /\ processing <=> \E m \in Monitors : mon[m].at # "idle"
    /\ active = others + (IF processing THEN 1 ELSE 0)

ScanInv ==
    /\ Typed /\ Slots
    /\ \A m \in Monitors : Tidy(mon[m]) /\ Patient(mon[m], Resting)

LEMMA InitHolds == ScanInit => ScanInv
<1> SUFFICES ASSUME ScanInit PROVE ScanInv
  OBVIOUS
<1>1. Idle \in Records
  BY DEF Idle, Records, Places
<1>2. \A m \in Monitors : mon[m] = Idle
  BY DEF ScanInit
<1>3. Typed
  BY <1>1 DEF ScanInit, Typed
<1>4. Slots
  BY <1>2 DEF ScanInit, Slots, Idle
<1>5. Tidy(Idle) /\ Patient(Idle, Resting)
  BY DEF Idle, Tidy, Patient, Unbought, Past, Buying
<1> QED BY <1>2, <1>3, <1>4, <1>5 DEF ScanInv

\* A monitor that goes on inside processNewToken.
LEMMA GoesOn ==
    ASSUME ScanInv, NEW m \in Monitors, NEW r \in Records,
           mon[m].at # "idle", r.at # "idle",
           mon' = [mon EXCEPT ![m] = r],
           Tidy(r), Patient(r, Resting'),
           \A n \in Monitors : mon[n].at = "idle" => Patient(mon[n], Resting'),
           UNCHANGED <<processing, active, others>>,
           latest' \in LiveChats \union {"none"},
           trade' \in [LiveChats -> {"none", "open", "cooling", "over"}]
    PROVE  ScanInv'
<1>1. Typed' BY DEF ScanInv, Typed
<1>2. \A n \in Monitors : mon'[n].at # "idle" <=> mon[n].at # "idle"
  BY DEF ScanInv, Typed
<1>3. Slots' BY <1>2 DEF ScanInv, Slots
<1>4. \A n \in Monitors : n # m => mon'[n] = mon[n] /\ mon[n].at = "idle"
  BY DEF ScanInv, Typed, Slots
<1>5. mon'[m] = r BY DEF ScanInv, Typed
<1>6. \A n \in Monitors : Tidy(mon[n]) BY DEF ScanInv
<1>7. \A n \in Monitors : Tidy(mon'[n]) /\ Patient(mon'[n], Resting')
  BY <1>4, <1>5, <1>6
<1> QED BY <1>1, <1>3, <1>7 DEF ScanInv

\* One that begins, has been idle before and is alone.
LEMMA Begins ==
    ASSUME ScanInv, NEW m \in Monitors, NEW found \in BOOLEAN, Start(m, found),
           UNCHANGED <<others, trade, latest>>
    PROVE  ScanInv'
<1> DEFINE r == [Idle EXCEPT !.at = "lookup", !.found = found]
<1>1. r \in Records /\ r.at = "lookup" /\ r.bought = {}
  BY DEF Records, Idle, Places
<1>2. Tidy(r) /\ Patient(r, Resting')
  BY DEF Idle, Tidy, Patient, Unbought, Past, Buying
<1>3. mon' = [mon EXCEPT ![m] = r]
  BY DEF Start
<1> HIDE DEF r
<1>4. Typed' BY <1>1, <1>3 DEF ScanInv, Typed, Start
<1>5. mon'[m] = r /\ \A n \in Monitors : n # m => mon'[n] = mon[n] /\ mon[n].at = "idle"
  BY <1>3 DEF ScanInv, Typed, Slots, Start
<1>6. Slots'
  BY <1>1, <1>5 DEF ScanInv, Typed, Slots, Start
<1>7. Resting' <=> Resting BY DEF Resting, LatestTrade
<1>8. \A n \in Monitors : Tidy(mon'[n]) /\ Patient(mon'[n], Resting')
  <2> TAKE n \in Monitors
  <2>1. Tidy(mon[n]) /\ Patient(mon[n], Resting) BY DEF ScanInv
  <2> QED BY <2>1, <1>2, <1>5, <1>7 DEF Patient
<1> QED BY <1>4, <1>6, <1>8 DEF ScanInv

\* One that leaves by the finally block.
LEMMA Leaves ==
    ASSUME ScanInv, NEW m \in Monitors, mon[m].at # "idle", End(m),
           UNCHANGED <<others, trade, latest>>
    PROVE  ScanInv'
<1>1. Idle \in Records /\ Idle.at = "idle" /\ Tidy(Idle) /\ Patient(Idle, Resting')
  BY DEF Records, Idle, Places, Tidy, Patient, Unbought, Past, Buying
<1>2. processing /\ active = others + 1
  BY DEF ScanInv, Slots
<1>3. Typed'
  <2>1. others' \in Nat /\ active' = others' /\ processing' = FALSE
    BY <1>2 DEF ScanInv, Typed, End
  <2>2. mon' \in [Monitors -> Records] BY <1>1 DEF ScanInv, Typed, End
  <2>3. latest' = latest /\ latest \in LiveChats \union {"none"}
        /\ trade' = trade /\ trade \in [LiveChats -> {"none", "open", "cooling", "over"}]
    BY DEF ScanInv, Typed
  <2> QED BY <2>1, <2>2, <2>3 DEF Typed
<1>4. mon'[m] = Idle /\ \A n \in Monitors : n # m => mon'[n] = mon[n] /\ mon[n].at = "idle"
  BY DEF ScanInv, Typed, Slots, End
<1>5. \A n \in Monitors : mon'[n].at = "idle" BY <1>1, <1>4
<1>6. Slots' BY <1>2, <1>5 DEF ScanInv, Typed, Slots, End
<1>7. Resting' <=> Resting BY DEF Resting, LatestTrade
<1>8. \A n \in Monitors : Tidy(mon'[n]) /\ Patient(mon'[n], Resting')
  <2> TAKE n \in Monitors
  <2>1. Tidy(mon[n]) /\ Patient(mon[n], Resting) BY DEF ScanInv
  <2> QED BY <2>1, <1>1, <1>4, <1>7
<1> QED BY <1>3, <1>6, <1>8 DEF ScanInv

\* A monitor that goes to another place and changes nothing else of its own.
LEMMA Moves ==
    ASSUME ScanInv, NEW m \in Monitors, NEW place \in Places \ {"idle"},
           mon[m].at # "idle", GoTo(m, place),
           place \in Unbought /\ mon[m].at \notin Unbought
              => mon[m].torn \/ mon[m].bought = {},
           place \in Buying => mon[m].at = place,
           place \in Past => mon[m].at \in Past \/ ~ Resting,
           UNCHANGED <<others, trade, latest>>
    PROVE  ScanInv'
<1> DEFINE r == [mon[m] EXCEPT !.at = place]
<1>1. mon[m] \in Records BY DEF ScanInv, Typed
<1>2. r \in Records /\ r.at = place BY <1>1 DEF Records
<1>3. r.bought = mon[m].bought /\ r.todo = mon[m].todo /\ r.hit = mon[m].hit
      /\ r.torn = mon[m].torn /\ r.again = mon[m].again /\ r.early = mon[m].early
      /\ r.outside = mon[m].outside
  BY <1>1 DEF Records
<1>4. mon' = [mon EXCEPT ![m] = r] /\ UNCHANGED <<processing, active>>
  BY DEF GoTo
<1> HIDE DEF r
<1>5. Tidy(mon[m]) /\ Patient(mon[m], Resting) BY DEF ScanInv
<1>6. Resting' <=> Resting BY DEF Resting, LatestTrade
<1>7. Tidy(r) BY <1>2, <1>3, <1>5 DEF Tidy
<1>8. Patient(r, Resting') BY <1>2, <1>3, <1>5, <1>6 DEF Patient
<1>9. \A n \in Monitors : mon[n].at = "idle" => Patient(mon[n], Resting')
  BY <1>6 DEF ScanInv
<1>10. latest' \in LiveChats \union {"none"}
       /\ trade' \in [LiveChats -> {"none", "open", "cooling", "over"}]
  BY DEF ScanInv, Typed
<1> QED BY <1>2, <1>4, <1>7, <1>8, <1>9, <1>10, GoesOn

\* The chats are asked for on the way from a place before the buys.
LEMMA Serves ==
    ASSUME ScanInv, NEW m \in Monitors, NEW place \in Buying,
           mon[m].at \in {"rebound", "analyze", "confirm"}, Serve(m, place),
           UNCHANGED <<others, trade, latest>>
    PROVE  ScanInv'
<1>1. PICK chats \in SUBSET Chats :
        mon' = [mon EXCEPT ![m].at = place, ![m].todo = chats,
                           ![m].hit = FALSE, ![m].signal = FALSE]
  BY DEF Serve
<1> DEFINE r == [mon[m] EXCEPT !.at = place, !.todo = chats, !.hit = FALSE, !.signal = FALSE]
<1>2. mon[m] \in Records BY DEF ScanInv, Typed
<1>3. r \in Records /\ r.at = place BY <1>2 DEF Records, Buying, Places
<1>4. r.bought = mon[m].bought /\ r.torn = mon[m].torn /\ r.again = mon[m].again
      /\ r.early = mon[m].early /\ r.outside = mon[m].outside
  BY <1>2 DEF Records
<1>5. mon' = [mon EXCEPT ![m] = r] /\ UNCHANGED <<processing, active>>
  BY <1>1 DEF Serve
<1> HIDE DEF r
<1>6. Tidy(mon[m]) /\ Patient(mon[m], Resting) BY DEF ScanInv
<1>7. Resting' <=> Resting BY DEF Resting, LatestTrade
<1>8. Tidy(r) BY <1>3, <1>4, <1>6 DEF Tidy, Unbought, Buying
<1>9. Patient(r, Resting') BY <1>3, <1>4, <1>6, <1>7 DEF Patient, Past, Buying
<1>10. \A n \in Monitors : mon[n].at = "idle" => Patient(mon[n], Resting')
  BY <1>7 DEF ScanInv
<1>11. latest' \in LiveChats \union {"none"}
       /\ trade' \in [LiveChats -> {"none", "open", "cooling", "over"}]
  BY DEF ScanInv, Typed
<1>12. mon[m].at # "idle" /\ r.at # "idle" BY <1>3 DEF Buying
<1> QED BY <1>3, <1>5, <1>8, <1>9, <1>10, <1>11, <1>12, GoesOn

\* A purchase inside the loop.
LEMMA Buys ==
    ASSUME ScanInv, NEW m \in Monitors, NEW c \in Chats, BuySucceeds(m, c)
    PROVE  ScanInv'
<1> DEFINE r == [mon[m] EXCEPT !.todo = @ \ {c}, !.hit = TRUE,
                               !.bought = @ \union {c},
                               !.again = @ \/ c \in mon[m].bought,
                               !.early = @ \/ (mon[m].bought = {} /\ LatestTrade \in {"open", "cooling"})]
<1>1. mon[m] \in Records BY DEF ScanInv, Typed
<1>2. c \in mon[m].todo /\ c \in LiveChats /\ mon[m].at \in Buying BY DEF BuySucceeds
<1>3. r \in Records /\ r.at = mon[m].at BY <1>1, <1>2 DEF Records
<1>4. /\ r.todo = mon[m].todo \ {c} /\ r.hit = TRUE /\ r.bought = mon[m].bought \union {c}
      /\ r.torn = mon[m].torn /\ r.outside = mon[m].outside
      /\ r.again = (mon[m].again \/ c \in mon[m].bought)
      /\ r.early = (mon[m].early \/ (mon[m].bought = {} /\ LatestTrade \in {"open", "cooling"}))
  BY <1>1 DEF Records
<1>5. mon' = [mon EXCEPT ![m] = r] /\ UNCHANGED <<processing, active, others>>
  BY DEF BuySucceeds
<1> HIDE DEF r
<1>6. Tidy(mon[m]) /\ Patient(mon[m], Resting) BY DEF ScanInv
<1>7. Tidy(r)
  <2>1. r.again => r.torn BY <1>2, <1>4, <1>6 DEF Tidy
  <2>2. r.at \notin Unbought BY <1>2, <1>3 DEF Buying, Unbought
  <2>3. ~ r.torn => r.bought \intersect r.todo = {} BY <1>2, <1>4, <1>6 DEF Tidy
  <2> QED BY <2>1, <2>2, <2>3, <1>4 DEF Tidy
<1>8. Patient(r, Resting')
  <2>1. r.bought # {} BY <1>4
  <2>2. mon[m].at \in Past BY <1>2 DEF Buying, Past
  <2>3. r.early => r.outside BY <2>2, <1>4, <1>6 DEF Patient, Resting
  <2> QED BY <2>1, <2>3 DEF Patient
<1>9. \A n \in Monitors : mon[n].at = "idle" => Patient(mon[n], Resting')
  BY DEF ScanInv, Patient, Past
<1>10. latest' \in LiveChats \union {"none"}
       /\ trade' \in [LiveChats -> {"none", "open", "cooling", "over"}]
  BY DEF ScanInv, Typed, BuySucceeds
<1>11. mon[m].at # "idle" BY <1>2 DEF Buying
<1> QED BY <1>3, <1>5, <1>7, <1>8, <1>9, <1>10, <1>11, GoesOn

\* A chat that is served without a purchase.
LEMMA Passes ==
    ASSUME ScanInv, NEW m \in Monitors, NEW c \in Chats,
           SignalChat(m, c) \/ BuyRefused(m, c)
    PROVE  ScanInv'
<1>1. mon[m] \in Records /\ mon[m].at \in Buying
  BY DEF ScanInv, Typed, SignalChat, BuyRefused
<1>2. PICK s \in BOOLEAN :
        mon' = [mon EXCEPT ![m] = [mon[m] EXCEPT !.todo = @ \ {c}, !.signal = s]]
  <2>1. CASE SignalChat(m, c)
    <3>1. mon' = [mon EXCEPT ![m] = [mon[m] EXCEPT !.todo = @ \ {c}, !.signal = TRUE]]
      BY <2>1 DEF SignalChat
    <3> QED BY <3>1
  <2>2. CASE BuyRefused(m, c)
    <3>1. mon[m].signal \in BOOLEAN BY <1>1 DEF Records
    <3>2. [mon[m] EXCEPT !.todo = @ \ {c}] = [mon[m] EXCEPT !.todo = @ \ {c}, !.signal = mon[m].signal]
      BY <1>1 DEF Records
    <3>3. mon' = [mon EXCEPT ![m] = [mon[m] EXCEPT !.todo = @ \ {c}]]
      BY <2>2 DEF BuyRefused
    <3> QED BY <3>1, <3>2, <3>3
  <2> QED BY <2>1, <2>2
<1> DEFINE r == [mon[m] EXCEPT !.todo = @ \ {c}, !.signal = s]
<1>3. r \in Records BY <1>1 DEF Records
<1>4. /\ r.at = mon[m].at /\ r.todo = mon[m].todo \ {c} /\ r.hit = mon[m].hit
      /\ r.bought = mon[m].bought /\ r.torn = mon[m].torn /\ r.again = mon[m].again
      /\ r.early = mon[m].early /\ r.outside = mon[m].outside
  BY <1>1 DEF Records
<1>5. mon' = [mon EXCEPT ![m] = r] BY <1>2
<1> HIDE DEF r
<1>6. Tidy(mon[m]) /\ Patient(mon[m], Resting) BY DEF ScanInv
<1>7. Resting' <=> Resting BY DEF Resting, LatestTrade, SignalChat, BuyRefused
<1>8. Tidy(r) BY <1>4, <1>6 DEF Tidy
<1>9. Patient(r, Resting') BY <1>4, <1>6, <1>7 DEF Patient
<1>10. \A n \in Monitors : mon[n].at = "idle" => Patient(mon[n], Resting')
  BY <1>7 DEF ScanInv
<1>11. /\ latest' \in LiveChats \union {"none"}
       /\ trade' \in [LiveChats -> {"none", "open", "cooling", "over"}]
       /\ UNCHANGED <<processing, active, others>>
  BY DEF ScanInv, Typed, SignalChat, BuyRefused
<1>12. mon[m].at # "idle" /\ r.at # "idle" BY <1>1, <1>4 DEF Buying
<1> QED BY <1>3, <1>5, <1>8, <1>9, <1>10, <1>11, <1>12, GoesOn

\* The rebound path throws.
LEMMA Tears ==
    ASSUME ScanInv, NEW m \in Monitors, ChatThrows(m)
    PROVE  ScanInv'
<1> DEFINE r == [mon[m] EXCEPT !.at = "look", !.torn = @ \/ mon[m].hit, !.todo = {},
                               !.hit = FALSE, !.signal = FALSE]
<1>1. mon[m] \in Records /\ mon[m].at = "rebuying" BY DEF ScanInv, Typed, ChatThrows, At
<1>2. r \in Records /\ r.at = "look" BY <1>1 DEF Records, Places
<1>3. /\ r.bought = mon[m].bought /\ r.torn = (mon[m].torn \/ mon[m].hit)
      /\ r.again = mon[m].again /\ r.early = mon[m].early /\ r.outside = mon[m].outside
  BY <1>1 DEF Records
<1>4. mon' = [mon EXCEPT ![m] = r] /\ UNCHANGED <<processing, active, others, trade, latest>>
  BY DEF ChatThrows
<1> HIDE DEF r
<1>5. Tidy(mon[m]) /\ Patient(mon[m], Resting) BY DEF ScanInv
<1>6. Resting' <=> Resting BY <1>4 DEF Resting, LatestTrade
<1>7. Tidy(r) BY <1>1, <1>2, <1>3, <1>5 DEF Tidy, Buying
<1>8. Patient(r, Resting') BY <1>1, <1>2, <1>3, <1>5, <1>6 DEF Patient, Past
<1>9. \A n \in Monitors : mon[n].at = "idle" => Patient(mon[n], Resting')
  BY <1>6 DEF ScanInv
<1>10. latest' \in LiveChats \union {"none"}
       /\ trade' \in [LiveChats -> {"none", "open", "cooling", "over"}]
  BY <1>4 DEF ScanInv, Typed
<1> QED BY <1>1, <1>2, <1>4, <1>7, <1>8, <1>9, <1>10, GoesOn

\* What changes no monitor.
LEMMA Elsewhere ==
    ASSUME ScanInv, UNCHANGED <<processing, mon, trade, latest>>, NEW d \in Int,
           active' = active + d, others' = others + d, active' \in Nat, others' \in Nat
    PROVE  ScanInv'
<1>1. Typed' BY DEF ScanInv, Typed
<1>2. Slots'
  <2>1. active' = others' + (IF processing THEN 1 ELSE 0)
    <3>1. PICK x \in Nat : x = IF processing THEN 1 ELSE 0 OBVIOUS
    <3>2. active = others + x BY <3>1 DEF ScanInv, Slots
    <3>3. active \in Nat /\ others \in Nat BY DEF ScanInv, Typed
    <3>4. active' = others' + x BY <3>2, <3>3
    <3> QED BY <3>1, <3>4
  <2> QED BY <2>1 DEF ScanInv, Slots
<1>3. Resting' <=> Resting BY DEF Resting, LatestTrade
<1>4. \A n \in Monitors : Tidy(mon'[n]) /\ Patient(mon'[n], Resting')
  BY <1>3 DEF ScanInv
<1> QED BY <1>1, <1>2, <1>4 DEF ScanInv

\* Somebody buys by hand, and time passes for a trade.
LEMMA TradesMove ==
    ASSUME ScanInv, NEW c \in LiveChats, BuysByHand(c) \/ TradeMoves(c)
    PROVE  ScanInv'
<1>1. CASE BuysByHand(c)
  <2>1. \A n \in Monitors : mon[n] \in Records BY DEF ScanInv, Typed
  <2> DEFINE f(n) == IF mon[n].at \in {"idle"} \union (Early \ {"enter"})
                     THEN mon[n] ELSE [mon[n] EXCEPT !.outside = TRUE]
  <2>2. \A n \in Monitors : mon'[n] = f(n) /\ f(n) \in Records
    BY <1>1, <2>1 DEF BuysByHand, Records
  <2>3. mon' \in [Monitors -> Records] BY <1>1, <2>1, <2>2 DEF BuysByHand
  <2>4. \A n \in Monitors :
          /\ mon'[n].at = mon[n].at /\ mon'[n].todo = mon[n].todo /\ mon'[n].hit = mon[n].hit
          /\ mon'[n].bought = mon[n].bought /\ mon'[n].torn = mon[n].torn
          /\ mon'[n].again = mon[n].again /\ mon'[n].early = mon[n].early
          /\ mon[n].outside => mon'[n].outside
          /\ mon[n].at \in Past => mon'[n].outside
    <3> TAKE n \in Monitors
    <3>1. mon[n] \in Records /\ mon'[n] = f(n) BY <2>1, <2>2
    <3>2. CASE mon[n].at \in {"idle"} \union (Early \ {"enter"})
      <4>1. mon'[n] = mon[n] BY <3>1, <3>2
      <4>2. mon[n].at \notin Past BY <3>2 DEF Early, Past
      <4> QED BY <4>1, <4>2
    <3>3. CASE mon[n].at \notin {"idle"} \union (Early \ {"enter"})
      <4>1. mon'[n] = [mon[n] EXCEPT !.outside = TRUE] BY <3>1, <3>3
      <4> QED BY <3>1, <4>1 DEF Records
    <3> QED BY <3>2, <3>3
  <2> HIDE DEF f
  <2>6. Typed' BY <1>1, <2>3 DEF ScanInv, Typed, BuysByHand
  <2>7. Slots' BY <1>1, <2>4 DEF ScanInv, Slots, BuysByHand
  <2>8. \A n \in Monitors : Tidy(mon'[n]) /\ Patient(mon'[n], Resting')
    <3> TAKE n \in Monitors
    <3>1. Tidy(mon[n]) /\ Patient(mon[n], Resting) BY DEF ScanInv
    <3>2. Tidy(mon'[n]) BY <2>4, <3>1 DEF Tidy
    <3>3. Patient(mon'[n], Resting') BY <2>4, <3>1 DEF Patient
    <3> QED BY <3>2, <3>3
  <2> QED BY <2>6, <2>7, <2>8 DEF ScanInv
<1>2. CASE TradeMoves(c)
  <2>1. UNCHANGED <<processing, active, others, latest, mon>> BY <1>2 DEF TradeMoves
  <2>2. trade' \in [LiveChats -> {"none", "open", "cooling", "over"}]
    BY <1>2 DEF ScanInv, Typed, TradeMoves
  <2>3. Resting' => Resting
    <3>1. \A l \in LiveChats : trade'[l] \in {"open", "cooling"} => trade[l] \in {"open", "cooling"}
      BY <1>2 DEF ScanInv, Typed, TradeMoves
    <3>2. latest = "none" \/ latest \in LiveChats BY DEF ScanInv, Typed
    <3> QED BY <2>1, <3>1, <3>2 DEF Resting, LatestTrade
  <2>4. Typed' BY <2>1, <2>2 DEF ScanInv, Typed
  <2>5. Slots' BY <2>1 DEF ScanInv, Slots
  <2>6. \A n \in Monitors : Tidy(mon'[n]) /\ Patient(mon'[n], Resting')
    BY <2>1, <2>3 DEF ScanInv, Patient
  <2> QED BY <2>4, <2>5, <2>6 DEF ScanInv
<1> QED BY <1>1, <1>2

\* Discovery and what comes before the loop.
LEMMA EarlySteps ==
    ASSUME ScanInv, NEW m \in Monitors,
           \/ Discover(m) \/ Radar(m) \/ Webhook(m) \/ Throws(m)
           \/ Lookup(m) \/ RestAfterTrade(m) \/ Reset(m) \/ Stagnate(m)
           \/ Held(m) \/ Cool(m) \/ Enter(m)
    PROVE  ScanInv'
<1>1. CASE Discover(m) \/ Radar(m) \/ Webhook(m)
  BY <1>1, Begins DEF Discover, Radar, Webhook
<1>2. CASE Throws(m) \/ Stagnate(m) \/ Cool(m)
  <2>1. mon[m].at # "idle" BY <1>2 DEF Throws, Stagnate, Cool, At, Early
  <2> QED BY <1>2, <2>1, Leaves DEF Throws, Stagnate, Cool
<1>3. CASE Lookup(m)
  <2>1. mon[m].at = "lookup" /\ UNCHANGED <<others, trade, latest>> BY <1>3 DEF Lookup, At
  <2>2. CASE End(m) BY <2>1, <2>2, Leaves
  <2>3. CASE \E place \in {"cooldown", "stagnate", "held"} : GoTo(m, place)
    BY <2>1, <2>3, Moves DEF Places, Unbought, Past, Buying
  <2> QED BY <1>3, <2>2, <2>3 DEF Lookup
<1>4. CASE RestAfterTrade(m)
  <2>1. mon[m].at = "cooldown" /\ UNCHANGED <<others, trade, latest>>
    BY <1>4 DEF RestAfterTrade, At
  <2>2. CASE End(m) BY <2>1, <2>2, Leaves
  <2>3. CASE GoTo(m, "reset") BY <2>1, <2>3, Moves DEF Places, Unbought, Past, Buying
  <2> QED BY <1>4, <2>2, <2>3 DEF RestAfterTrade
<1>5. CASE Reset(m)
  BY <1>5, Moves DEF Reset, At, Places, Unbought, Past, Buying
<1>6. CASE Held(m)
  <2>1. mon[m].at = "held" /\ UNCHANGED <<others, trade, latest>> BY <1>6 DEF Held, At
  <2>2. CASE LatestTrade = "open" BY <1>6, <2>1, <2>2, Leaves DEF Held
  <2>3. CASE LatestTrade = "cooling"
    <3>1. GoTo(m, "cool") BY <1>6, <2>3 DEF Held
    <3> QED BY <2>1, <3>1, Moves DEF Places, Unbought, Past, Buying
  <2>4. CASE ~ Resting
    <3>1. GoTo(m, "enter") BY <1>6, <2>4 DEF Held, Resting
    <3> QED BY <2>1, <2>4, <3>1, Moves DEF Places, Unbought, Past, Buying
  <2> QED BY <2>2, <2>3, <2>4 DEF Resting
<1>7. CASE Enter(m)
  BY <1>7, Moves DEF Enter, At, Places, Unbought, Past, Buying
<1> QED BY <1>1, <1>2, <1>3, <1>4, <1>5, <1>6, <1>7

\* The loop and the buys.
LEMMA LoopSteps ==
    ASSUME ScanInv, NEW m \in Monitors,
           \/ Break(m) \/ GiveUp(m) \/ Look(m) \/ Rebound(m) \/ Analyze(m)
           \/ ConfirmEntry(m) \/ Served(m) \/ Record(m)
    PROVE  ScanInv'
<1> USE DEF Places, Unbought, Past, Buying
<1>1. CASE Break(m)
  <2>1. GoTo(m, "giveUp") /\ UNCHANGED <<others, trade, latest>> /\ mon[m].at # "idle"
    BY <1>1 DEF Break
  <2> QED BY <2>1, Moves
<1>2. CASE GiveUp(m) \/ Record(m)
  <2>1. End(m) /\ UNCHANGED <<others, trade, latest>> /\ mon[m].at # "idle"
    BY <1>2 DEF GiveUp, Record, At
  <2> QED BY <2>1, Leaves
<1>3. CASE Look(m)
  <2>1. mon[m].at = "look" /\ UNCHANGED <<others, trade, latest>> BY <1>3 DEF Look, At
  <2>2. CASE End(m) BY <2>1, <2>2, Leaves
  <2>3. CASE GoTo(m, "rebound") BY <2>1, <2>3, Moves
  <2> QED BY <1>3, <2>2, <2>3 DEF Look
<1>4. CASE Rebound(m)
  <2>1. mon[m].at = "rebound" /\ UNCHANGED <<others, trade, latest>> BY <1>4 DEF Rebound, At
  <2>2. CASE GoTo(m, "look") BY <2>1, <2>2, Moves
  <2>3. CASE GoTo(m, "analyze") BY <2>1, <2>3, Moves
  <2>4. CASE Serve(m, "rebuying") BY <2>1, <2>4, Serves
  <2> QED BY <1>4, <2>2, <2>3, <2>4 DEF Rebound
<1>5. CASE Analyze(m)
  <2>1. mon[m].at = "analyze" /\ UNCHANGED <<others, trade, latest>> BY <1>5 DEF Analyze, At
  <2>2. CASE End(m) BY <2>1, <2>2, Leaves
  <2>3. CASE GoTo(m, "look") BY <2>1, <2>3, Moves
  <2>4. CASE GoTo(m, "confirm") BY <2>1, <2>4, Moves
  <2>5. CASE Serve(m, "chats") BY <2>1, <2>5, Serves
  <2> QED BY <1>5, <2>2, <2>3, <2>4, <2>5 DEF Analyze, Permanent
<1>6. CASE ConfirmEntry(m)
  <2>1. mon[m].at = "confirm" /\ UNCHANGED <<others, trade, latest>> BY <1>6 DEF ConfirmEntry, At
  <2>2. CASE GoTo(m, "look") BY <2>1, <2>2, Moves
  <2>3. CASE Serve(m, "chats") BY <2>1, <2>3, Serves
  <2> QED BY <1>6, <2>2, <2>3 DEF ConfirmEntry
<1>7. CASE Served(m)
  <2>1. mon[m].at \in Buying /\ UNCHANGED <<others, trade, latest>> BY <1>7 DEF Served
  <2>2. CASE GoTo(m, "served") \/ GoTo(m, "rebought") BY <2>1, <2>2, Moves
  <2>3. CASE GoTo(m, "analyze") /\ ~ mon[m].hit
    <3>1. mon[m].torn \/ mon[m].bought = {}
      BY <2>1, <2>3 DEF ScanInv, Typed, Records, Tidy
    <3> QED BY <2>1, <2>3, <3>1, Moves
  <2> QED BY <1>7, <2>2, <2>3 DEF Served
<1> QED BY <1>1, <1>2, <1>3, <1>4, <1>5, <1>6, <1>7

LEMMA StepKeeps == ScanInv /\ [ScanNext]_scanVars => ScanInv'
<1> SUFFICES ASSUME ScanInv, [ScanNext]_scanVars PROVE ScanInv'
  OBVIOUS
<1>1. active \in Nat /\ others \in Nat BY DEF ScanInv, Typed
<1>2. CASE OtherStarts
  <2>1. UNCHANGED <<processing, mon, trade, latest>> /\ active' = active + 1 /\ others' = others + 1
    BY <1>2 DEF OtherStarts
  <2> QED BY <1>1, <2>1, Elsewhere
<1>3. CASE OtherEnds
  <2>1. UNCHANGED <<processing, mon, trade, latest>> /\ active' = active - 1 /\ others' = others - 1
    BY <1>3 DEF OtherEnds
  <2>2. others > 0 /\ active >= others
    BY <1>1, <1>3 DEF OtherEnds, ScanInv, Slots
  <2>3. active' = active + (-1) /\ others' = others + (-1) /\ active' \in Nat /\ others' \in Nat
    BY <1>1, <2>1, <2>2
  <2> QED BY <2>1, <2>3, Elsewhere
<1>4. CASE DiscoverAgain \/ Purge \/ SeenExpires \/ WindowPasses \/ UNCHANGED scanVars
  <2>1. UNCHANGED <<processing, mon, trade, latest, active, others>>
    BY <1>4 DEF DiscoverAgain, Purge, SeenExpires, WindowPasses, scanVars
  <2>2. active' = active + 0 /\ others' = others + 0 /\ active' \in Nat /\ others' \in Nat
    BY <1>1, <2>1
  <2> QED BY <2>1, <2>2, Elsewhere
<1>5. CASE \E c \in LiveChats : BuysByHand(c) \/ TradeMoves(c)
  BY <1>5, TradesMove
<1>6. ASSUME NEW m \in Monitors, Monitor(m) PROVE ScanInv'
  <2>1. CASE \/ Discover(m) \/ Radar(m) \/ Webhook(m) \/ Throws(m)
             \/ Lookup(m) \/ RestAfterTrade(m) \/ Reset(m) \/ Stagnate(m)
             \/ Held(m) \/ Cool(m) \/ Enter(m)
    BY <2>1, EarlySteps
  <2>2. CASE \/ Break(m) \/ GiveUp(m) \/ Look(m) \/ Rebound(m) \/ Analyze(m)
             \/ ConfirmEntry(m) \/ Served(m) \/ Record(m)
    BY <2>2, LoopSteps
  <2>3. CASE ChatThrows(m) BY <2>3, Tears
  <2>4. CASE \E c \in Chats : SignalChat(m, c) \/ BuyRefused(m, c) BY <2>4, Passes
  <2>5. CASE \E c \in Chats : BuySucceeds(m, c) BY <2>5, Buys
  <2> QED BY <1>6, <2>1, <2>2, <2>3, <2>4, <2>5 DEF Monitor
<1> QED BY <1>2, <1>3, <1>4, <1>5, <1>6 DEF ScanNext, Surroundings

LEMMA ScanInvariant == ScanSpec => []ScanInv
BY InitHolds, StepKeeps, PTL DEF ScanSpec

\* activeMonitoring is always the number of monitors at work, the token has
\* one at most, and processingTokens has it exactly then (processNewToken's
\* entry and its finally block).
THEOREM SlotsReturned == ScanSpec => []SlotsMatchMonitors
<1>1. ScanInv => SlotsMatchMonitors
  <2> SUFFICES ASSUME ScanInv PROVE SlotsMatchMonitors
    OBVIOUS
  <2>1. Running # {} <=> processing BY DEF ScanInv, Slots, Running, At
  <2>2. CASE Running = {}
    <3>1. Cardinality(Running) = 0 BY <2>2, FS_EmptySet
    <3>2. active = others /\ active \in Nat BY <2>1, <2>2 DEF ScanInv, Slots, Typed
    <3> QED BY <2>1, <3>1, <3>2 DEF SlotsMatchMonitors
  <2>3. CASE Running # {}
    <3>1. PICK m \in Running : TRUE BY <2>3
    <3>2. Running = {m} BY <3>1 DEF ScanInv, Slots, Running, At
    <3>3. Cardinality(Running) = 1 BY <3>2, FS_Singleton
    <3>4. active = others + 1 BY <2>1, <2>3 DEF ScanInv, Slots
    <3> QED BY <2>1, <3>3, <3>4 DEF SlotsMatchMonitors
  <2> QED BY <2>2, <2>3
<1> QED BY <1>1, ScanInvariant, PTL

\* A monitor buys the token twice for a chat only when the rebound path threw
\* after a purchase and was tried again (analyzeAndExecuteRebound).
THEOREM TwiceOnlyTorn == ScanSpec => []BuysTwiceOnlyAfterTornRebound
<1>1. ScanInv => BuysTwiceOnlyAfterTornRebound
  BY DEF ScanInv, Tidy, BuysTwiceOnlyAfterTornRebound
<1> QED BY <1>1, ScanInvariant, PTL

\* The first purchase of a monitor finds the latest trade of the token over,
\* unless somebody else bought after the monitor had looked (the anti-repeat
\* check of processNewToken).
THEOREM FirstBuyRests == ScanSpec => []RestsAfterTrade
<1>1. ScanInv => RestsAfterTrade
  BY DEF ScanInv, Patient, RestsAfterTrade
<1> QED BY <1>1, ScanInvariant, PTL

------------------------------------------------------------------------------
(* The row of the watchlist and the number of monitors                      *)

WatchRows == [status : {"none", "PENDING", "FAILED", "TRADED"}, lasting : BOOLEAN,
              checks : 0 .. StagnantChecks, base : {"none", "young", "ripe"}]

WatchInv == watch \in WatchRows /\ seen \in BOOLEAN /\ active <= MaxConcurrent

LEMMA NoRowIsRow == NoRow \in WatchRows
<1>1. 0 \in 0 .. StagnantChecks BY LimitsAssumption
<1> QED BY <1>1 DEF NoRow, WatchRows

LEMMA WatchBegins == ScanInit => WatchInv
<1>1. 0 <= MaxConcurrent BY LimitsAssumption
<1> QED BY <1>1, NoRowIsRow DEF ScanInit, WatchInv

LEMMA ChecksCounted ==
    ASSUME NEW n \in 0 .. StagnantChecks
    PROVE  Checked(n) \in 0 .. StagnantChecks
BY LimitsAssumption DEF Checked

\* A monitor that ends or goes on takes no slot; one that starts finds one.
LEMMA SlotsTaken ==
    ASSUME ScanInv, ScanInv', WatchInv,
           \/ active < MaxConcurrent /\ active' = active + 1
           \/ active' = active - 1 \/ active' = active
    PROVE  active' <= MaxConcurrent
<1>1. active \in Nat /\ active' \in Nat BY DEF ScanInv, Typed
<1> QED BY <1>1, LimitsAssumption DEF WatchInv

\* What the steps of a monitor write to the row.
LEMMA MonitorKeepsRow ==
    ASSUME WatchInv, NEW m \in Monitors, Monitor(m)
    PROVE  watch' \in WatchRows
<1>1. /\ watch \in WatchRows /\ 0 \in 0 .. StagnantChecks /\ 1 \in 0 .. StagnantChecks
      /\ Checked(watch.checks) \in 0 .. StagnantChecks
  BY LimitsAssumption, ChecksCounted DEF WatchInv, WatchRows
<1>2. CASE Discover(m) \/ Radar(m) \/ Webhook(m) \/ Throws(m) \/ Lookup(m)
             \/ RestAfterTrade(m) \/ Held(m) \/ Break(m) \/ Rebound(m) \/ ChatThrows(m)
             \/ Served(m)
             \/ \E c \in Chats : SignalChat(m, c) \/ BuyRefused(m, c) \/ BuySucceeds(m, c)
  <2>1. watch' = watch
    BY <1>2 DEF Discover, Radar, Webhook, Throws, Lookup, RestAfterTrade, Held, Break, Rebound,
                ChatThrows, Served, SignalChat, BuyRefused, BuySucceeds
  <2> QED BY <1>1, <2>1
<1>3. CASE Reset(m) BY <1>1, <1>3 DEF Reset, Update, WatchRows
<1>4. CASE Stagnate(m) BY <1>1, <1>4 DEF Stagnate, Mark, Update, WatchRows
<1>5. CASE Cool(m) BY <1>1, <1>5 DEF Cool, WatchRows
<1>6. CASE Enter(m) BY <1>1, <1>6 DEF Enter, NoRow, WatchRows
<1>7. CASE GiveUp(m) BY <1>1, <1>7 DEF GiveUp, Mark, Update, WatchRows
<1>8. CASE Look(m)
  <2> DEFINE n == Checked(watch.checks)
  <2>1. n \in 0 .. StagnantChecks BY <1>1
  <2>2. \/ watch' = watch
        \/ watch' = [watch EXCEPT !.checks = n, !.status = "FAILED", !.lasting = FALSE]
        \/ watch' = [watch EXCEPT !.checks = n]
    BY <1>8 DEF Look, Update
  <2> HIDE DEF n
  <2> QED BY <1>1, <2>1, <2>2 DEF WatchRows
<1>9. CASE Analyze(m) BY <1>1, <1>9 DEF Analyze, Permanent, Mark, Update, WatchRows
<1>10. CASE ConfirmEntry(m) BY <1>1, <1>10 DEF ConfirmEntry, Update, WatchRows
<1>11. CASE Record(m) BY <1>1, <1>11 DEF Record, Mark, Update, WatchRows
<1> QED BY <1>2, <1>3, <1>4, <1>5, <1>6, <1>7, <1>8, <1>9, <1>10, <1>11 DEF Monitor

LEMMA MonitorKeepsSeen ==
    ASSUME WatchInv, NEW m \in Monitors, Monitor(m)
    PROVE  seen' \in BOOLEAN
BY DEF WatchInv, Monitor, Discover, Radar, Webhook, Throws, Lookup, RestAfterTrade, Reset, Stagnate,
       Held, Cool, Enter, Break, GiveUp, Look, Rebound, Analyze, Permanent, ConfirmEntry,
       ChatThrows, Served, Record, SignalChat, BuyRefused, BuySucceeds

LEMMA MonitorKeepsSlots ==
    ASSUME NEW m \in Monitors, Monitor(m)
    PROVE  \/ active < MaxConcurrent /\ active' = active + 1
           \/ active' = active - 1 \/ active' = active
<1>1. CASE Discover(m) \/ Radar(m) \/ Webhook(m)
  BY <1>1 DEF Discover, Radar, Webhook, Start
<1>2. CASE Throws(m) \/ Lookup(m) \/ RestAfterTrade(m) \/ Reset(m) \/ Stagnate(m)
             \/ Held(m) \/ Cool(m) \/ Enter(m)
  BY <1>2 DEF Throws, Lookup, RestAfterTrade, Reset, Stagnate, Held, Cool, Enter, End, GoTo
<1>3. CASE Break(m) \/ GiveUp(m) \/ Look(m) \/ Rebound(m) \/ Analyze(m) \/ ConfirmEntry(m)
  BY <1>3 DEF Break, GiveUp, Look, Rebound, Analyze, Permanent, ConfirmEntry, End, GoTo, Serve
<1>4. CASE ChatThrows(m) \/ Served(m) \/ Record(m)
             \/ \E c \in Chats : SignalChat(m, c) \/ BuyRefused(m, c) \/ BuySucceeds(m, c)
  BY <1>4 DEF ChatThrows, Served, Record, SignalChat, BuyRefused, BuySucceeds, End, GoTo
<1> QED BY <1>1, <1>2, <1>3, <1>4 DEF Monitor

LEMMA WatchStep == ScanInv /\ ScanInv' /\ WatchInv /\ [ScanNext]_scanVars => WatchInv'
<1> SUFFICES ASSUME ScanInv, ScanInv', WatchInv, [ScanNext]_scanVars PROVE WatchInv'
  OBVIOUS
<1>1. ASSUME NEW m \in Monitors, Monitor(m) PROVE WatchInv'
  BY <1>1, MonitorKeepsRow, MonitorKeepsSeen, MonitorKeepsSlots, SlotsTaken DEF WatchInv
<1>2. CASE OtherStarts \/ OtherEnds
  <2>1. active' <= MaxConcurrent BY <1>2, SlotsTaken DEF OtherStarts, OtherEnds
  <2> QED BY <1>2, <2>1 DEF OtherStarts, OtherEnds, WatchInv
<1>3. CASE Purge \/ WindowPasses
  <2>1. watch' \in WatchRows
    <3>1. CASE Purge BY <3>1, NoRowIsRow DEF Purge
    <3>2. CASE WindowPasses BY <3>2 DEF WindowPasses, WatchInv, WatchRows
    <3> QED BY <1>3, <3>1, <3>2
  <2> QED BY <1>3, <2>1 DEF Purge, WindowPasses, WatchInv
<1>4. CASE \/ DiscoverAgain \/ SeenExpires \/ UNCHANGED scanVars
           \/ \E c \in LiveChats : BuysByHand(c) \/ TradeMoves(c)
  BY <1>4 DEF DiscoverAgain, SeenExpires, BuysByHand, TradeMoves, scanVars, WatchInv
<1> QED BY <1>1, <1>2, <1>3, <1>4 DEF ScanNext, Surroundings

LEMMA ScanTypes == ScanInv /\ WatchInv => ScanTypeOK
<1> SUFFICES ASSUME ScanInv, WatchInv PROVE ScanTypeOK
  OBVIOUS
<1>1. /\ watch.status \in {"none", "PENDING", "FAILED", "TRADED"} /\ watch.lasting \in BOOLEAN
      /\ watch.checks \in 0 .. StagnantChecks /\ watch.base \in {"none", "young", "ripe"}
  BY DEF WatchInv, WatchRows
<1>2. active \in 0 .. MaxConcurrent /\ others \in 0 .. MaxConcurrent
  BY LimitsAssumption DEF ScanInv, Typed, Slots, WatchInv
<1>3. ASSUME NEW m \in Monitors
      PROVE  /\ mon[m].at \in Early \union Buying \union
                    {"idle", "look", "rebound", "analyze", "confirm", "served",
                     "rebought", "giveUp"}
             /\ mon[m].todo \subseteq Chats /\ mon[m].bought \subseteq LiveChats
  <2>1. mon[m] \in Records BY DEF ScanInv, Typed
  <2> QED BY <2>1 DEF Records, Places, Early, Buying
<1> QED BY <1>1, <1>2, <1>3 DEF ScanInv, Typed, WatchInv, ScanTypeOK

LEMMA WatchInvariant == ScanSpec => [](ScanInv /\ WatchInv)
BY InitHolds, StepKeeps, WatchBegins, WatchStep, PTL DEF ScanSpec

\* The row of the watchlist keeps its shape, its checks stop at the limit and
\* the monitors never exceed MAX_CONCURRENT, however many tokens are found at
\* the same time (processNewToken).
THEOREM ScanTypeCorrect == ScanSpec => []ScanTypeOK
BY WatchInvariant, ScanTypes, PTL

------------------------------------------------------------------------------
(* Deposits                                                                 *)

\* The batches that hold the whole of what a signature pays a wallet.
Wholes == {Batch(s, w, PaidOnChain(s, w)) : s \in DOMAIN Transfers, w \in Wallets}

\* A delivery carries nothing but whole payments.
CarriesWholes ==
    delivery \in [Deliveries -> [todo : Seq(DOMAIN Transfers), batches : SUBSET Wholes,
                                 paying : SUBSET Wholes]]

LedgerFinite == \A w \in Wallets : IsFiniteSet(Booked(w))

DepositInv == DepositTypeOK /\ CarriesWholes /\ LedgerFinite /\ VaultsMatchChain

\* What a signature pays a wallet is a natural number.
LEMMA PaidIsNat ==
    ASSUME NEW s \in DOMAIN Transfers, NEW w
    PROVE  PaidOnChain(s, w) \in Nat
<1> DEFINE S == PaidIndexes(s, w)
           R == [to : Wallets, amount : Nat]
           q == Transfers[s]
<1>1. q \in Seq(R)
  BY DepositsAssumption
<1>2. DOMAIN q = 1 .. Len(q) /\ IsFiniteSet(DOMAIN q)
  <2>1. Len(q) \in Nat /\ DOMAIN q = 1 .. Len(q)
    BY <1>1
  <2>2. IsFiniteSet(1 .. Len(q))
    BY <2>1, FS_Interval
  <2> QED BY <2>1, <2>2
<1>3. IsFiniteSet(S) /\ S \subseteq DOMAIN q
  BY <1>2, FS_Subset DEF PaidIndexes
<1>4. \A i \in DOMAIN q : q[i].amount \in Nat
  <2>1. \A r \in R : r.amount \in Nat
    OBVIOUS
  <2> HIDE DEF R, q
  <2>2. \A i \in DOMAIN q : q[i] \in R
    BY <1>1
  <2> QED BY <2>1, <2>2
<1>5. \A i \in S : Amounts(s)[i] \in Nat
  BY <1>3, <1>4 DEF Amounts
<1> HIDE DEF S
<1>6. SumFunctionOnSet(Amounts(s), S) \in Nat
  BY <1>3, <1>5, SumNat
<1> QED BY <1>6 DEF S, PaidOnChain

\* A batch that names the whole of a payment.
LEMMA WholeBatch ==
    ASSUME NEW b \in Wholes
    PROVE  /\ b.signature \in DOMAIN Transfers /\ b.wallet \in Wallets
           /\ b.amount = PaidOnChain(b.signature, b.wallet)
           /\ PaidTo(b.wallet)[b.signature] = b.amount /\ b.amount \in Nat
<1>1. PICK s \in DOMAIN Transfers, w \in Wallets : b = Batch(s, w, PaidOnChain(s, w))
  BY DEF Wholes
<1>2. b.signature = s /\ b.wallet = w /\ b.amount = PaidOnChain(s, w)
  BY <1>1 DEF Batch
<1> QED BY <1>2, PaidIsNat DEF PaidTo

LEMMA GroupedAreWholes ==
    ASSUME NEW s \in DOMAIN Transfers
    PROVE  Grouped(s) \subseteq Wholes
<1> SUFFICES ASSUME NEW b \in Grouped(s) PROVE b \in Wholes
  OBVIOUS
<1>1. b \in {Batch(s, w, PaidOnChain(s, w)) : w \in Wallets}
  BY DEF Grouped, PaidOnChain
<1> QED BY <1>1 DEF Wholes

LEMMA DepositsBegin == DepositInit => DepositInv
<1> SUFFICES ASSUME DepositInit PROVE DepositInv
  OBVIOUS
<1> USE DEF DepositInit
<1>1. DOMAIN ledger = {}
  OBVIOUS
<1>2. DepositTypeOK
  BY <1>1, DepositsAssumption DEF DepositTypeOK
<1>3. CarriesWholes
  BY DEF CarriesWholes, NoDelivery
<1>4. \A w \in Wallets : Booked(w) = {}
  BY <1>1 DEF Booked
<1>5. LedgerFinite
  BY <1>4, FS_EmptySet DEF LedgerFinite
<1>6. ASSUME NEW w \in Wallets PROVE deposited[w] = SumFunctionOnSet(PaidTo(w), Booked(w))
  BY <1>4, SumEmpty
<1>7. VaultsMatchChain
  BY <1>6 DEF VaultsMatchChain
<1> QED BY <1>2, <1>3, <1>5, <1>7 DEF DepositInv

\* A step that leaves vaults and ledger alone.
LEMMA BooksKept ==
    ASSUME DepositInv, UNCHANGED <<deposited, ledger>>, vaults' \subseteq Wallets,
           pushes' \in 0 .. MaxPushes, CarriesWholes'
    PROVE  DepositInv'
<1>1. DepositTypeOK'
  BY DEF DepositInv, DepositTypeOK, CarriesWholes
<1>2. \A w : Booked(w)' = Booked(w)
  BY DEF Booked
<1>3. LedgerFinite'
  BY <1>2 DEF DepositInv, LedgerFinite
<1>4. VaultsMatchChain'
  BY <1>2 DEF DepositInv, VaultsMatchChain
<1> QED BY <1>1, <1>3, <1>4 DEF DepositInv

\* A deposit is booked for the first time.
LEMMA BookDeposit ==
    ASSUME DepositInv, NEW d \in Deliveries, NEW b \in Wholes, ~ InLedger(b), Pay(b),
           delivery' = [delivery EXCEPT ![d].paying = {}], UNCHANGED <<vaults, pushes>>
    PROVE  DepositInv'
<1> DEFINE s0 == b.signature
           w0 == b.wallet
<1>1. /\ s0 \in DOMAIN Transfers /\ w0 \in Wallets
      /\ PaidTo(w0)[s0] = b.amount /\ b.amount \in Nat
  BY WholeBatch
<1>2. /\ DOMAIN ledger' = DOMAIN ledger \union {<<s0, w0>>}
      /\ \A k \in DOMAIN ledger' : ledger'[k] = IF k = <<s0, w0>> THEN b.amount ELSE ledger[k]
      /\ deposited' = [deposited EXCEPT ![w0] = @ + b.amount]
      /\ <<s0, w0>> \notin DOMAIN ledger
  BY DEF Pay, InLedger
<1> HIDE DEF s0, w0
<1>3. CarriesWholes'
  BY DEF DepositInv, CarriesWholes
<1>4. DepositTypeOK'
  <2>1. deposited' \in [Wallets -> Nat]
    BY <1>1, <1>2 DEF DepositInv, DepositTypeOK
  <2>2. DOMAIN ledger' \subseteq (DOMAIN Transfers) \X Wallets
    BY <1>1, <1>2 DEF DepositInv, DepositTypeOK
  <2>3. \A k \in DOMAIN ledger' : ledger'[k] \in Nat
    BY <1>1, <1>2 DEF DepositInv, DepositTypeOK
  <2> QED BY <2>1, <2>2, <2>3 DEF DepositInv, DepositTypeOK
<1>5. /\ Booked(w0)' = Booked(w0) \union {s0} /\ s0 \notin Booked(w0)
      /\ \A w \in Wallets \ {w0} : Booked(w)' = Booked(w)
  BY <1>1, <1>2 DEF Booked
<1>6. LedgerFinite'
  <2>1. IsFiniteSet(Booked(w0) \union {s0})
    BY <1>1, FS_AddElement DEF DepositInv, LedgerFinite
  <2> QED BY <1>5, <2>1 DEF DepositInv, LedgerFinite
<1>7. ASSUME NEW w \in Wallets PROVE deposited'[w] = SumFunctionOnSet(PaidTo(w), Booked(w)')
  <2>1. deposited[w] = SumFunctionOnSet(PaidTo(w), Booked(w))
    BY DEF DepositInv, VaultsMatchChain
  <2>2. IsFiniteSet(Booked(w)) /\ Booked(w) \subseteq DOMAIN Transfers
    BY DEF DepositInv, LedgerFinite, Booked
  <2>3. CASE w # w0
    BY <1>2, <1>5, <2>1, <2>3 DEF DepositInv, DepositTypeOK
  <2>4. CASE w = w0
    <3>1. \A s \in Booked(w) \union {s0} : PaidTo(w)[s] \in Int
      BY <1>1, <2>2, PaidIsNat DEF PaidTo
    <3>2. SumFunctionOnSet(PaidTo(w), Booked(w) \union {s0})
            = SumFunctionOnSet(PaidTo(w), Booked(w)) + PaidTo(w)[s0]
      BY <1>5, <2>2, <2>4, <3>1, SumAdd
    <3>3. deposited'[w] = deposited[w] + PaidTo(w)[s0]
      BY <1>1, <1>2, <2>4 DEF DepositInv, DepositTypeOK
    <3> QED BY <1>5, <2>1, <2>4, <3>2, <3>3
  <2> QED BY <2>3, <2>4
<1>8. VaultsMatchChain'
  BY <1>7 DEF VaultsMatchChain
<1> QED BY <1>3, <1>4, <1>6, <1>8 DEF DepositInv

LEMMA DepositStep == DepositInv /\ [DepositNext]_depositVars => DepositInv'
<1> SUFFICES ASSUME DepositInv, [DepositNext]_depositVars PROVE DepositInv'
  OBVIOUS
<1> USE DepositsAssumption
<1>0. /\ vaults \subseteq Wallets /\ pushes \in 0 .. MaxPushes /\ CarriesWholes
      /\ MaxPushes \in Nat
  BY DEF DepositInv, DepositTypeOK
<1>1. CASE RestartWebhook
  <2>1. CarriesWholes'
    BY <1>1 DEF RestartWebhook, CarriesWholes, NoDelivery
  <2> QED BY <1>0, <1>1, <2>1, BooksKept DEF RestartWebhook
<1>2. ASSUME NEW w \in Wallets, CreateVault(w) PROVE DepositInv'
  <2>1. CarriesWholes'
    BY <1>0, <1>2 DEF CreateVault, CarriesWholes
  <2> QED BY <1>0, <1>2, <2>1, BooksKept DEF CreateVault
<1>3. ASSUME NEW d \in Deliveries, Push(d) PROVE DepositInv'
  <2>1. CarriesWholes'
    BY <1>0, <1>3 DEF Push, CarriesWholes
  <2>2. pushes' \in 0 .. MaxPushes
    BY <1>0, <1>3 DEF Push
  <2> QED BY <1>0, <1>3, <2>1, <2>2, BooksKept DEF Push
<1>4. ASSUME NEW d \in Deliveries, TakeTransaction(d) PROVE DepositInv'
  <2>1. /\ Head(delivery[d].todo) \in DOMAIN Transfers
        /\ Tail(delivery[d].todo) \in Seq(DOMAIN Transfers)
    <3> DEFINE q == delivery[d].todo
               T == DOMAIN Transfers
    <3>1. q \in Seq(T) /\ q # << >>
      BY <1>0, <1>4 DEF TakeTransaction, CarriesWholes
    <3> HIDE DEF q, T
    <3>2. Head(q) \in T /\ Tail(q) \in Seq(T)
      BY <3>1, HeadTailProperties
    <3> QED BY <3>2 DEF q, T
  <2>2. PICK batches \in {Grouped(Head(delivery[d].todo)), {}} :
          delivery' = [delivery EXCEPT ![d].todo = Tail(@), ![d].batches = batches]
    BY <1>4 DEF TakeTransaction
  <2>4. batches \in SUBSET Wholes
    BY <2>1, <2>2, GroupedAreWholes
  <2>3. CarriesWholes'
    BY <1>0, <2>1, <2>2, <2>4 DEF CarriesWholes
  <2> QED BY <1>0, <1>4, <2>3, BooksKept DEF TakeTransaction
<1>5. ASSUME NEW d \in Deliveries, FindVault(d) PROVE DepositInv'
  <2>2. PICK b \in delivery[d].batches :
          delivery' = [delivery EXCEPT ![d].batches = @ \ {b},
                                       ![d].paying = IF b.wallet \in vaults THEN {b} ELSE {}]
    BY <1>5 DEF FindVault
  <2> DEFINE left == delivery[d].batches \ {b}
             kept == IF b.wallet \in vaults THEN {b} ELSE {}
  <2>3. left \in SUBSET Wholes /\ kept \in SUBSET Wholes
    BY <1>0 DEF CarriesWholes
  <2>4. delivery' = [delivery EXCEPT ![d].batches = left, ![d].paying = kept]
    BY <2>2
  <2>1. CarriesWholes'
    <3> HIDE DEF left, kept
    <3> QED BY <1>0, <2>3, <2>4 DEF CarriesWholes
  <2> QED BY <1>0, <1>5, <2>1, BooksKept DEF FindVault
<1>6. ASSUME NEW d \in Deliveries, CreditDeposit(d) PROVE DepositInv'
  <2>1. PICK b \in delivery[d].paying : Pay(b)
    BY <1>6 DEF CreditDeposit
  <2>2. b \in Wholes
    BY <1>0 DEF CarriesWholes
  <2>3. CASE InLedger(b)
    <3>1. CarriesWholes'
      BY <1>0, <1>6 DEF CreditDeposit, CarriesWholes
    <3> QED BY <1>0, <1>6, <2>1, <2>3, <3>1, BooksKept DEF CreditDeposit, Pay
  <2>4. CASE ~ InLedger(b)
    BY <1>6, <2>1, <2>2, <2>4, BookDeposit DEF CreditDeposit
  <2> QED BY <2>3, <2>4
<1>7. ASSUME NEW d \in Deliveries, LoseDeposit(d) PROVE DepositInv'
  <2>1. CarriesWholes'
    BY <1>0, <1>7 DEF LoseDeposit, CarriesWholes
  <2> QED BY <1>0, <1>7, <2>1, BooksKept DEF LoseDeposit
<1>8. CASE UNCHANGED depositVars
  <2>1. CarriesWholes'
    BY <1>0, <1>8 DEF depositVars, CarriesWholes
  <2> QED BY <1>0, <1>8, <2>1, BooksKept DEF depositVars
<1> QED BY <1>1, <1>2, <1>3, <1>4, <1>5, <1>6, <1>7, <1>8 DEF DepositNext

LEMMA DepositInvariant == DepositSpec => []DepositInv
BY DepositsBegin, DepositStep, PTL DEF DepositSpec

THEOREM DepositsTypeCorrect == DepositSpec => []DepositTypeOK
<1>1. DepositInv => DepositTypeOK
  BY DEF DepositInv
<1> QED BY <1>1, DepositInvariant, PTL

THEOREM VaultsHoldDeposits == DepositSpec => []VaultsMatchChain
<1>1. DepositInv => VaultsMatchChain
  BY DEF DepositInv
<1> QED BY <1>1, DepositInvariant, PTL

------------------------------------------------------------------------------
(* The parts together                                                       *)

\* A step of one part leaves the variables of the others alone.
LEMMA PartSteps ==
    [ServicesNext]_serviceVars
        => /\ [Next]_vars /\ [ScanNext]_scanVars
           /\ [DepositNext]_depositVars /\ [GateNext]_gateVars
<1> SUFFICES ASSUME [ServicesNext]_serviceVars
             PROVE  /\ [Next]_vars /\ [ScanNext]_scanVars
                    /\ [DepositNext]_depositVars /\ [GateNext]_gateVars
  OBVIOUS
<1>1. CASE UNCHANGED serviceVars BY <1>1 DEF serviceVars
<1>2. CASE ServicesNext BY <1>2 DEF ServicesNext
<1> QED BY <1>1, <1>2

\* What runs the parts beside one another is a behaviour of each of them, so
\* what is proved of a part holds there as well.
THEOREM PartsBehave ==
    ServicesSpec => Spec /\ ScanSpec /\ DepositSpec /\ GateSpec
<1>1. ServicesInit => Init /\ ScanInit /\ DepositInit /\ GateInit
  BY DEF ServicesInit
<1> QED BY <1>1, PartSteps, PTL
        DEF ServicesSpec, Spec, ScanSpec, DepositSpec, GateSpec

\* The variables of every part keep their types: the slots of the scanner,
\* the counters of the monitor, the deliveries and the records of the safety analysis.
THEOREM ServicesTypeCorrect == ServicesSpec => []AllTypesOK
<1>1. TypeOK /\ ScanTypeOK /\ DepositTypeOK /\ GateTypeOK => AllTypesOK
  BY DEF AllTypesOK
<1> QED BY <1>1, PartsBehave, MonitorTypeCorrect, ScanTypeCorrect,
           DepositsTypeCorrect, GateTypeCorrect, PTL
===============================================================================
