------------------------------ MODULE DexLimiter ------------------------------
(***************************************************************************)
(* common/dex-limiter.ts: every DexScreener request of the bot goes        *)
(* through one serial lane with a pause between requests, three attempts   *)
(* on a 429 and a cache of the answers.  helius-limiter.ts is the same     *)
(* lane without a cache (Ttl = 0 for every URL) and with two attempts.     *)
(*                                                                         *)
(* All callers pass a timeout, so a request is answered or fails.  Timers  *)
(* may fire late.                                                          *)
(***************************************************************************)
EXTENDS Naturals, Sequences

CONSTANTS
    Callers,        \* calls of get
    Urls,           \* what they ask for
    Ttl,            \* getTTLForUrl
    Gap,            \* MIN_DELAY_MS
    DexAttempts,    \* retries
    DexBackoff      \* the 1000 ms of the backoff

ASSUME DexAssumption ==
    /\ Ttl \in [Urls -> Nat] /\ Gap \in Nat
    /\ DexAttempts \in Nat \ {0} /\ DexBackoff \in Nat

VARIABLES
    asked,      \* the URL of each call, or how it ended
    line,       \* queue
    lane,       \* where processQueue is; "off" when processing is false
    tries,      \* attempts at the request that is executed
    wait,       \* what is left of the setTimeout of the loop or the backoff
    elapsed,    \* time since lastRequestTime, up to Gap
    kept,       \* how long the cached answer of each URL still lasts
    quiet,      \* history: time since a request was last sent, up to Gap
    crowded     \* history: a request was sent too soon after another

dexVars == <<asked, line, lane, tries, wait, elapsed, kept, quiet, crowded>>

Ended == {"answered", "rejected"}
Served(c) == asked[c] \in Ended

DexInit ==
    /\ asked = [c \in Callers |-> "new"]
    /\ line = << >> /\ lane = "off" /\ tries = 0 /\ wait = 0
    /\ elapsed = Gap /\ quiet = Gap /\ crowded = FALSE
    /\ kept = [u \in Urls |-> 0]

Url(c) == asked[c]
End(c, how) == asked' = [asked EXCEPT ![c] = how]

\* axios.get is called.
Send ==
    /\ lane' = "executing"
    /\ quiet' = 0
    /\ crowded' = (crowded \/ quiet < Gap)

\* get answers from the cache, or queues the call and starts the loop.
Get(c, u) ==
    /\ asked[c] = "new"
    /\ IF kept[u] > 0
       THEN /\ End(c, "answered")
            /\ UNCHANGED <<line, lane>>
       ELSE /\ End(c, u)
            /\ line' = Append(line, c)
            /\ lane' = IF lane = "off" THEN "head" ELSE lane
    /\ UNCHANGED <<tries, wait, elapsed, kept, quiet, crowded>>

(***************************************************************************)
(* processQueue.                                                           *)
(***************************************************************************)
\* Mutant of Stop: processing is not reset.
StopWithoutReset ==
    /\ lane = "head" /\ line = << >>
    /\ lane' = "stuck"
    /\ UNCHANGED <<asked, line, tries, wait, elapsed, kept, quiet, crowded>>

Stop ==
    /\ lane = "head" /\ line = << >>
    /\ lane' = "off"
    /\ UNCHANGED <<asked, line, tries, wait, elapsed, kept, quiet, crowded>>

Pause ==
    /\ lane = "head" /\ line # << >> /\ elapsed < Gap
    /\ lane' = "pausing"
    /\ wait' = Gap - elapsed
    /\ UNCHANGED <<asked, line, tries, elapsed, kept, quiet, crowded>>

MayTake ==
    /\ line # << >>
    /\ \/ lane = "head" /\ elapsed >= Gap
       \/ lane = "pausing" /\ wait = 0

\* Another call has been answered with this URL meanwhile.
TakeFromCache ==
    /\ MayTake /\ kept[Url(Head(line))] > 0
    /\ End(Head(line), "answered")
    /\ line' = Tail(line) /\ lane' = "head"
    /\ UNCHANGED <<tries, wait, elapsed, kept, quiet, crowded>>

\* The item stays at the head of line while it is executed.
Execute ==
    /\ MayTake /\ kept[Url(Head(line))] = 0
    /\ elapsed' = 0
    /\ tries' = 1
    /\ Send
    /\ UNCHANGED <<asked, line, wait, kept>>

(***************************************************************************)
(* executeRequest.                                                         *)
(***************************************************************************)
Leave(how) ==
    /\ End(Head(line), how)
    /\ line' = Tail(line) /\ lane' = "head"

Succeed ==
    /\ lane = "executing"
    /\ kept' = [kept EXCEPT ![Url(Head(line))] = Ttl[Url(Head(line))]]
    /\ Leave("answered")
    /\ UNCHANGED <<tries, wait, elapsed, quiet, crowded>>

\* Any other error, a timeout, or the last 429.
Reject ==
    /\ lane = "executing"
    /\ Leave("rejected")
    /\ UNCHANGED <<tries, wait, elapsed, kept, quiet, crowded>>

Limited ==
    /\ lane = "executing" /\ tries < DexAttempts
    /\ lane' = "backing off"
    /\ wait' = tries * DexBackoff
    /\ UNCHANGED <<asked, line, tries, elapsed, kept, quiet, crowded>>

\* Mutant of TryAgain: lastRequestTime keeps the time of the first attempt.
TryAgainWithoutReset ==
    /\ lane = "backing off" /\ wait = 0
    /\ tries' = tries + 1
    /\ Send
    /\ UNCHANGED <<asked, line, wait, elapsed, kept>>

TryAgain ==
    /\ lane = "backing off" /\ wait = 0
    /\ elapsed' = 0
    /\ tries' = tries + 1
    /\ Send
    /\ UNCHANGED <<asked, line, wait, kept>>

Closer(n) == IF n = 0 THEN 0 ELSE n - 1
Farther(n) == IF n < Gap THEN n + 1 ELSE n

TimePasses ==
    /\ wait' = Closer(wait)
    /\ elapsed' = Farther(elapsed) /\ quiet' = Farther(quiet)
    /\ kept' = [u \in Urls |-> Closer(kept[u])]
    /\ UNCHANGED <<asked, line, lane, tries, crowded>>

DexQueueing == Stop \/ Pause \/ TakeFromCache \/ Execute
DexExecuting == Succeed \/ Reject \/ Limited \/ TryAgain

DexNext ==
    \/ \E c \in Callers, u \in Urls : Get(c, u)
    \/ DexQueueing \/ DexExecuting \/ TimePasses

DexSpec == DexInit /\ [][DexNext]_dexVars

\* The event loop runs what is due, requests time out and time passes.
DexFairSpec ==
    /\ DexSpec
    /\ WF_dexVars(DexQueueing) /\ WF_dexVars(DexExecuting) /\ WF_dexVars(TimePasses)

(***************************************************************************)
(* Properties.                                                             *)
(***************************************************************************)
\* The types of the variables.
DexTypeOK ==
    /\ asked \in [Callers -> Urls \union Ended \union {"new"}]
    /\ line \in Seq(Callers)
    /\ lane \in {"off", "head", "pausing", "executing", "backing off"}
    /\ tries \in 0 .. DexAttempts /\ wait \in Nat
    /\ elapsed \in 0 .. Gap /\ quiet \in 0 .. Gap /\ crowded \in BOOLEAN
    /\ kept \in [Urls -> Nat]

\* Two requests are never sent within MIN_DELAY_MS of each other, retries of
\* a 429 included (processQueue, executeRequest).
NeverCrowded == ~ crowded

\* Whatever the remote side answers, every call of get is settled: a price
\* behind a stop loss waits in this lane (processQueue).
EveryCallSettles == \A c \in Callers : (asked[c] \in Urls) ~> Served(c)
=============================================================================
