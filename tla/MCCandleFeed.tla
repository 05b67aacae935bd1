----------------------------- MODULE MCCandleFeed -----------------------------
(* CandleFeed on small instances: a symbol that is traded and one that only
   has candles. *)
EXTENDS CandleFeed
CONSTANTS btc, eth
TwoLevels == [s \in {btc, eth} |-> IF s = btc THEN {1, 2} ELSE {1}]
=============================================================================
