--------------------------- MODULE MCPriceMonitor ---------------------------
(* A small instance of PriceMonitor for TLC: two ticks and one market for   *)
(* every rule.                                                              *)
EXTENDS PriceMonitor

Calm == [price |-> 10000, fast |-> 0, drop |-> 0, creator |-> 100, top |-> 100,
         buys |-> 6, sells |-> 3, noise |-> {}, alive |-> TRUE, rec |-> 200]

MCObservations ==
    { Calm,
      [Calm EXCEPT !.price = 9500],
      [Calm EXCEPT !.fast = 9100],
      [Calm EXCEPT !.price = 8000],
      [Calm EXCEPT !.price = 12400, !.rec = 400],
      [Calm EXCEPT !.drop = 40, !.sells = 9],
      [Calm EXCEPT !.top = 70, !.sells = 9],
      [Calm EXCEPT !.noise = Noises, !.sells = 9] }

\* A market that has fallen by more than nine tenths, of a token whose entry
\* pair is not the one that is quoted now.
MCCrash == { Calm, [Calm EXCEPT !.price = 900, !.drop = Unknown] }
=============================================================================
