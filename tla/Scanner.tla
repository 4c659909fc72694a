------------------------------- MODULE Scanner -------------------------------
(***************************************************************************)
(* The scanner's handling of one token (processNewToken of                 *)
(* scanner.service.ts): how it is discovered, the watchlist row that       *)
(* remembers it, the cooldown after a trade, the monitor loop with the     *)
(* rebound path and the standard analysis, the entry confirmation and the  *)
(* buys for every active chat.                                             *)
(*                                                                         *)
(* Tokens share only the number of monitors, so the monitors of other      *)
(* tokens are a count.  The analyses answer anything; attemptBuy is        *)
(* modelled by the rows it reads and writes (BuyExecution has the rest).   *)
(* Time is left out: what has run out is chosen, or an action of its own.  *)
(***************************************************************************)
EXTENDS Naturals, FiniteSets

CONSTANTS
    Monitors,        \* calls of processNewToken for the token (a bound)
    Chats,           \* the chats, active or not at any time
    LiveChats,       \* the chats that are not in dry run
    MaxConcurrent,   \* MAX_CONCURRENT
    StagnantChecks   \* the checks after which a token is given up (50)

ASSUME LiveAssumption == LiveChats \subseteq Chats
ASSUME LimitsAssumption ==
    MaxConcurrent \in Nat \ {0} /\ StagnantChecks \in Nat \ {0}

VARIABLES
    watch,       \* the Watchlist row of the token
    seen,        \* seenTokens blocks the token
    processing,  \* processingTokens has the token
    active,      \* activeMonitoring
    others,      \* the monitors of other tokens
    trade,       \* the last trade of the token in every live chat
    latest,      \* the chat whose trade was created last, or "none"
    mon          \* the calls of processNewToken

scanVars == <<watch, seen, processing, active, others, trade, latest, mon>>

NoRow == [status |-> "none", lasting |-> FALSE, checks |-> 0, base |-> "none"]

\* The monitor's own variables, and what it has done: found says who called
\* it, todo the chats it still has to serve, hit and signal how that goes.
Idle == [at |-> "idle", found |-> FALSE, todo |-> {}, hit |-> FALSE,
         signal |-> FALSE, bought |-> {}, torn |-> FALSE, again |-> FALSE,
         early |-> FALSE, outside |-> FALSE]

ScanInit ==
    /\ watch = NoRow /\ seen = FALSE
    /\ processing = FALSE /\ active = 0 /\ others = 0
    /\ trade = [c \in LiveChats |-> "none"] /\ latest = "none"
    /\ mon = [m \in Monitors |-> Idle]

LatestTrade == IF latest = "none" THEN "none" ELSE trade[latest]

At(m, place) == mon[m].at = place
GoTo(m, place) ==
    /\ mon' = [mon EXCEPT ![m].at = place]
    /\ UNCHANGED <<processing, active>>

\* The finally block.
EndKeepingTheSlot(m) ==
    /\ mon' = [mon EXCEPT ![m] = Idle]
    /\ processing' = FALSE
    /\ UNCHANGED active

End(m) ==
    /\ mon' = [mon EXCEPT ![m] = Idle]
    /\ processing' = FALSE
    /\ active' = active - 1

\* updateWatchlistByMint does nothing to a row that is gone.
Update(row) == watch' = IF watch.status = "none" THEN watch ELSE row
Mark(status, lasting) ==
    Update([watch EXCEPT !.status = status, !.lasting = lasting])

(***************************************************************************)
(* Discovery.                                                              *)
(***************************************************************************)
Start(m, found) ==
    /\ At(m, "idle") /\ ~ processing /\ active < MaxConcurrent
    /\ processing' = TRUE
    /\ active' = active + 1
    /\ mon' = [mon EXCEPT ![m] = [Idle EXCEPT !.at = "lookup", !.found = found]]

\* A new pool on the stream, or a poll of boosted and trending tokens.
Discover(m) ==
    /\ ~ seen
    /\ Start(m, TRUE)
    /\ seen' = TRUE
    /\ UNCHANGED <<watch, others, trade, latest>>

\* While a monitor is at work a discovery only blocks the token.
DiscoverAgain ==
    /\ ~ seen /\ processing /\ active < MaxConcurrent
    /\ seen' = TRUE
    /\ UNCHANGED <<watch, processing, active, others, trade, latest, mon>>

Radar(m) ==
    /\ watch.status = "PENDING"
    /\ Start(m, FALSE)
    /\ UNCHANGED <<watch, seen, others, trade, latest>>

Webhook(m) ==
    /\ Start(m, FALSE)
    /\ UNCHANGED <<watch, seen, others, trade, latest>>

(***************************************************************************)
(* Before the loop.                                                        *)
(***************************************************************************)
Early == {"lookup", "cooldown", "reset", "stagnate", "held", "cool", "enter"}

\* An awaited call throws outside the loop: discovery forgets the token.
Throws(m) ==
    /\ mon[m].at \in Early \union {"giveUp"}
    /\ seen' = IF mon[m].found THEN FALSE ELSE seen
    /\ End(m)
    /\ UNCHANGED <<watch, others, trade, latest>>

Lookup(m) ==
    /\ At(m, "lookup")
    /\ IF watch.status = "FAILED" /\ watch.lasting
       THEN seen' = TRUE /\ End(m)
       ELSE /\ GoTo(m, IF watch.status \in {"FAILED", "TRADED"} THEN "cooldown"
                       ELSE IF watch.checks >= StagnantChecks THEN "stagnate"
                       ELSE "held")
            /\ UNCHANGED seen
    /\ UNCHANGED <<watch, others, trade, latest>>

\* A token never traded rests for hours from its last check.
RestAfterTrade(m) ==
    /\ At(m, "cooldown")
    /\ \/ LatestTrade \in {"none", "over"} /\ GoTo(m, "reset") /\ UNCHANGED seen
       \/ LatestTrade # "over" /\ seen' = TRUE /\ End(m)
    /\ UNCHANGED <<watch, others, trade, latest>>

Reset(m) ==
    /\ At(m, "reset")
    /\ Update([watch EXCEPT !.status = "PENDING", !.lasting = FALSE, !.checks = 0])
    /\ seen' = FALSE
    /\ GoTo(m, "held")
    /\ UNCHANGED <<others, trade, latest>>

Stagnate(m) ==
    /\ At(m, "stagnate")
    /\ Mark("FAILED", FALSE)
    /\ seen' = TRUE
    /\ End(m)
    /\ UNCHANGED <<others, trade, latest>>

\* Anti-repeat: the latest trade of the token, whoever's it is.
HeldOnlyIfOpen(m) ==
    /\ At(m, "held")
    /\ IF LatestTrade = "open" THEN End(m) ELSE GoTo(m, "enter")
    /\ UNCHANGED <<watch, seen, others, trade, latest>>

Held(m) ==
    /\ At(m, "held")
    /\ IF LatestTrade = "open" THEN End(m)
       ELSE GoTo(m, IF LatestTrade = "cooling" THEN "cool" ELSE "enter")
    /\ UNCHANGED <<watch, seen, others, trade, latest>>

Cool(m) ==
    /\ At(m, "cool")
    /\ watch' = [watch EXCEPT !.status = "FAILED", !.lasting = FALSE]
    /\ seen' = TRUE
    /\ End(m)
    /\ UNCHANGED <<others, trade, latest>>

Checked(n) == IF n < StagnantChecks THEN n + 1 ELSE n

Enter(m) ==
    /\ At(m, "enter")
    /\ watch' = IF watch.status = "none"
                THEN [NoRow EXCEPT !.status = "PENDING", !.checks = 1]
                ELSE [watch EXCEPT !.checks = Checked(@)]
    /\ GoTo(m, "look")
    /\ UNCHANGED <<seen, others, trade, latest>>

(***************************************************************************)
(* The loop.                                                               *)
(***************************************************************************)
\* An awaited call throws inside the loop, or its time is up.
Break(m) ==
    /\ mon[m].at \in {"look", "analyze", "confirm", "chats", "served", "rebought"}
    /\ GoTo(m, "giveUp")
    /\ UNCHANGED <<watch, seen, others, trade, latest>>

GiveUp(m) ==
    /\ At(m, "giveUp")
    /\ Mark("FAILED", FALSE)
    /\ seen' = FALSE
    /\ End(m)
    /\ UNCHANGED <<others, trade, latest>>

Look(m) ==
    /\ At(m, "look")
    /\ LET n == Checked(watch.checks)
       IN IF watch.status # "PENDING" THEN End(m) /\ UNCHANGED <<watch, seen>>
          ELSE IF n >= StagnantChecks
          THEN /\ Update([watch EXCEPT !.checks = n, !.status = "FAILED", !.lasting = FALSE])
               /\ seen' = TRUE
               /\ End(m)
          ELSE /\ Update([watch EXCEPT !.checks = n])
               /\ GoTo(m, "rebound")
               /\ UNCHANGED seen
    /\ UNCHANGED <<others, trade, latest>>

\* The chats that are active now are asked for on every round.
Serve(m, place) ==
    /\ \E chats \in SUBSET Chats :
        mon' = [mon EXCEPT ![m].at = place, ![m].todo = chats,
                           ![m].hit = FALSE, ![m].signal = FALSE]
    /\ UNCHANGED <<processing, active>>

\* analyzeAndExecuteRebound: a failed safety check is tried again, a failed
\* market filter (and a risky creator) goes on to the standard analysis.
Rebound(m) ==
    /\ At(m, "rebound")
    /\ GoTo(m, "look") \/ GoTo(m, "analyze") \/ Serve(m, "rebuying")
    /\ UNCHANGED <<watch, seen, others, trade, latest>>

Permanent(m) == Mark("FAILED", TRUE) /\ seen' = TRUE /\ End(m)

\* isTokenSafeToBuy.  A missing pair or liquidity and an API error are looked
\* at again while their retries last, then given up or left to the radar like
\* every other passing weakness.
Analyze(m) ==
    /\ At(m, "analyze")
    /\ \/ Permanent(m)
       \/ GoTo(m, "look") /\ UNCHANGED <<watch, seen>>
       \/ End(m) /\ UNCHANGED <<watch, seen>>
       \/ End(m) /\ seen' = TRUE /\ UNCHANGED watch
       \/ GoTo(m, "confirm") /\ UNCHANGED <<watch, seen>>   \* safe, route MICIN
       \/ Serve(m, "chats") /\ UNCHANGED <<watch, seen>>    \* safe, route WHALE
    /\ UNCHANGED <<others, trade, latest>>

\* The entry confirmation compares with a baseline kept in the row.
ConfirmEntry(m) ==
    /\ At(m, "confirm")
    /\ \/ watch.base = "ripe" /\ Update([watch EXCEPT !.base = "none"]) /\ Serve(m, "chats")
       \/ watch.base # "young" /\ Update([watch EXCEPT !.base = "young"]) /\ GoTo(m, "look")
       \/ watch.base = "young" /\ UNCHANGED watch /\ GoTo(m, "look")
    /\ UNCHANGED <<seen, others, trade, latest>>

(***************************************************************************)
(* The chats, in the order the query returns them.                         *)
(***************************************************************************)
Buying == {"rebuying", "chats"}

SignalChat(m, c) ==
    /\ mon[m].at \in Buying /\ c \in mon[m].todo \ LiveChats
    /\ mon' = [mon EXCEPT ![m].todo = @ \ {c}, ![m].signal = TRUE]
    /\ UNCHANGED <<watch, seen, processing, active, others, trade, latest>>

BuyRefused(m, c) ==
    /\ mon[m].at \in Buying /\ c \in mon[m].todo \intersect LiveChats
    /\ mon' = [mon EXCEPT ![m].todo = @ \ {c}]
    /\ UNCHANGED <<watch, seen, processing, active, others, trade, latest>>

\* attemptBuy adds to a trade that is open and refuses one in cooldown.
BuySucceeds(m, c) ==
    /\ mon[m].at \in Buying /\ c \in mon[m].todo \intersect LiveChats
    /\ trade[c] # "cooling"
    /\ trade' = [trade EXCEPT ![c] = "open"]
    /\ latest' = IF trade[c] = "open" THEN latest ELSE c
    /\ mon' = [mon EXCEPT ![m].todo = @ \ {c}, ![m].hit = TRUE,
                          ![m].bought = @ \union {c},
                          ![m].again = @ \/ c \in mon[m].bought,
                          ![m].early = @ \/ (/\ mon[m].bought = {}
                                             /\ LatestTrade \in {"open", "cooling"})]
    /\ UNCHANGED <<watch, seen, processing, active, others>>

\* The rebound path turns an exception into a failed analysis, whatever it
\* has bought by then; the analyzer's path leaves the loop.
ChatThrows(m) ==
    /\ At(m, "rebuying") /\ mon[m].todo \intersect LiveChats # {}
    /\ mon' = [mon EXCEPT ![m].at = "look", ![m].torn = @ \/ mon[m].hit,
                          ![m].todo = {}, ![m].hit = FALSE, ![m].signal = FALSE]
    /\ UNCHANGED <<watch, seen, processing, active, others, trade, latest>>

ServedOnlyBySignals(m) ==
    /\ mon[m].at \in Buying /\ mon[m].todo = {}
    /\ GoTo(m, IF At(m, "chats") THEN "served"
               ELSE IF mon[m].signal THEN "rebought" ELSE "analyze")
    /\ UNCHANGED <<watch, seen, others, trade, latest>>

Served(m) ==
    /\ mon[m].at \in Buying /\ mon[m].todo = {}
    /\ GoTo(m, IF At(m, "chats") THEN "served"
               ELSE IF mon[m].hit \/ mon[m].signal THEN "rebought" ELSE "analyze")
    /\ UNCHANGED <<watch, seen, others, trade, latest>>

\* A token bought by the rebound path is not blocked.
Record(m) ==
    /\ mon[m].at \in {"served", "rebought"}
    /\ IF mon[m].hit THEN Mark("TRADED", FALSE) ELSE Mark("FAILED", ~ mon[m].signal)
    /\ seen' = IF At(m, "rebought") /\ mon[m].hit THEN seen ELSE TRUE
    /\ End(m)
    /\ UNCHANGED <<others, trade, latest>>

(***************************************************************************)
(* The rest of the program and time.                                       *)
(***************************************************************************)
OtherStarts ==
    /\ active < MaxConcurrent
    /\ active' = active + 1 /\ others' = others + 1
    /\ UNCHANGED <<watch, seen, processing, trade, latest, mon>>

OtherEnds ==
    /\ others > 0
    /\ active' = active - 1 /\ others' = others - 1
    /\ UNCHANGED <<watch, seen, processing, trade, latest, mon>>

\* The radar deletes failed and pending rows that are a day old, whether or
\* not a monitor is at work on them.
Purge ==
    /\ watch.status \in {"PENDING", "FAILED"}
    /\ watch' = NoRow
    /\ UNCHANGED <<seen, processing, active, others, trade, latest, mon>>

SeenExpires ==
    /\ seen /\ seen' = FALSE
    /\ UNCHANGED <<watch, processing, active, others, trade, latest, mon>>

WindowPasses ==
    /\ watch.base = "young"
    /\ watch' = [watch EXCEPT !.base = "ripe"]
    /\ UNCHANGED <<seen, processing, active, others, trade, latest, mon>>

\* Somebody buys by hand; monitors that have looked at the trades miss it.
\* (To the scanner a dry chat's purchase by hand is like any other.)
BuysByHand(c) ==
    /\ trade[c] # "open"
    /\ trade' = [trade EXCEPT ![c] = "open"]
    /\ latest' = c
    /\ mon' = [m \in Monitors |-> IF mon[m].at \in {"idle"} \union (Early \ {"enter"})
                                  THEN mon[m] ELSE [mon[m] EXCEPT !.outside = TRUE]]
    /\ UNCHANGED <<watch, seen, processing, active, others>>

TradeMoves(c) ==
    /\ \/ trade[c] = "open" /\ trade' = [trade EXCEPT ![c] = "cooling"]
       \/ trade[c] = "cooling" /\ trade' = [trade EXCEPT ![c] = "over"]
    /\ UNCHANGED <<watch, seen, processing, active, others, latest, mon>>

Monitor(m) ==
    \/ Discover(m) \/ Radar(m) \/ Webhook(m) \/ Throws(m)
    \/ Lookup(m) \/ RestAfterTrade(m) \/ Reset(m) \/ Stagnate(m)
    \/ Held(m) \/ Cool(m) \/ Enter(m)
    \/ Break(m) \/ GiveUp(m) \/ Look(m) \/ Rebound(m) \/ Analyze(m)
    \/ ConfirmEntry(m) \/ ChatThrows(m) \/ Served(m) \/ Record(m)
    \/ \E c \in Chats : SignalChat(m, c) \/ BuyRefused(m, c) \/ BuySucceeds(m, c)

Surroundings ==
    \/ DiscoverAgain \/ OtherStarts \/ OtherEnds \/ Purge \/ SeenExpires \/ WindowPasses
    \/ \E c \in LiveChats : BuysByHand(c) \/ TradeMoves(c)

ScanNext == Surroundings \/ \E m \in Monitors : Monitor(m)

ScanSpec == ScanInit /\ [][ScanNext]_scanVars

(***************************************************************************)
(* Properties.                                                             *)
(***************************************************************************)
Running == {m \in Monitors : ~ At(m, "idle")}

\* The types of the variables.
ScanTypeOK ==
    /\ watch.status \in {"none", "PENDING", "FAILED", "TRADED"}
    /\ watch.lasting \in BOOLEAN
    /\ watch.checks \in 0 .. StagnantChecks /\ watch.base \in {"none", "young", "ripe"}
    /\ seen \in BOOLEAN /\ processing \in BOOLEAN
    /\ active \in 0 .. MaxConcurrent /\ others \in 0 .. MaxConcurrent
    /\ trade \in [LiveChats -> {"none", "open", "cooling", "over"}]
    /\ latest \in LiveChats \union {"none"}
    /\ \A m \in Monitors :
        /\ mon[m].at \in Early \union Buying \union
               {"idle", "look", "rebound", "analyze", "confirm", "served",
                "rebought", "giveUp"}
        /\ mon[m].todo \subseteq Chats /\ mon[m].bought \subseteq LiveChats

\* Every path that leaves processNewToken gives its slot and its token back
\* exactly once, so activeMonitoring is the number of monitors at work and a
\* token has one at most.
SlotsMatchMonitors ==
    /\ active = others + Cardinality(Running)
    /\ Cardinality(Running) <= 1
    /\ processing <=> Running # {}

\* A monitor that has bought the token for a chat buys it for that chat again
\* only when the rebound path threw after a buy and was tried again.
BuysTwiceOnlyAfterTornRebound ==
    \A m \in Monitors : mon[m].again => mon[m].torn

\* However the watchlist row was lost, reset or left behind by a failure, the
\* scanner makes its first buy of a token only when the latest trade of it is
\* over, unless somebody else bought after it had looked.
RestsAfterTrade ==
    \A m \in Monitors : mon[m].early => mon[m].outside
=============================================================================
