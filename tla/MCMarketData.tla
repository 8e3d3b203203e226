---------------------------- MODULE MCMarketData -----------------------------
(* A window of six days read in pages of two, two assets and two threads.  *)
EXTENDS MarketData

CONSTANTS a1, a2, main, worker

MCUniverse == <<a1, a2>>
MCSignals == { [kind |-> "sma", lookbacks |-> {1}], [kind |-> "momentum", lookbacks |-> {2}] }
MCHistories ==
  { [listed |-> 1..Today, unusable |-> {}],
    [listed |-> 1..Today \ {3}, unusable |-> {Today - 2}],
    [listed |-> (Today - 2)..Today, unusable |-> {}],
    [listed |-> {2}, unusable |-> {2}] }
==============================================================================
