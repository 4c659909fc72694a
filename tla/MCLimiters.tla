----------------------------- MODULE MCLimiters -----------------------------
(* The two request limiters for TLC.  They share nothing: `limiter` says     *)
(* which of them a behaviour is about, and the other one stays as it starts. *)
(* Jupiter: two sells of different families and a buy, or one sell and three *)
(* buys, which overfill their lane; the other requests are never made.       *)
(* DexScreener: two callers, two URLs that are kept for different times.     *)
EXTENDS JupiterLimiter, DexLimiter

CONSTANTS x1, x2, b1, b2, b3

MCSells == {x1, x2}
MCBuys == {b1, b2, b3}
MCPrices == {x2, b2}
MCTtl == [pair |-> 3, boosts |-> 5]

VARIABLE limiter

limiterVars == <<vars, dexVars, limiter>>

Load == [sells |-> {x1, x2, b1}, buys |-> {x1, b1, b2, b3}]

Jupiter(step) ==
    /\ limiter \in DOMAIN Load
    /\ step
    /\ \A r \in Requests \ Load[limiter] : state'[r] = "new"
    /\ UNCHANGED <<dexVars, limiter>>
Dex(step) == limiter = "dex" /\ step /\ UNCHANGED <<vars, limiter>>

LimitersInit == limiter \in {"sells", "buys", "dex"} /\ Init /\ DexInit

LimitersNext == Jupiter(Next) \/ Dex(DexNext)

\* FairSpec of the one and DexFairSpec of the other.
LimitersSpec ==
    /\ LimitersInit /\ [][LimitersNext]_limiterVars
    /\ WF_limiterVars(Jupiter(Loop)) /\ WF_limiterVars(Jupiter(Tick))
    /\ \A r \in Requests : WF_limiterVars(Jupiter(Timers(r)))
    /\ WF_limiterVars(Dex(DexQueueing)) /\ WF_limiterVars(Dex(DexExecuting))
    /\ WF_limiterVars(Dex(TimePasses))
=============================================================================
