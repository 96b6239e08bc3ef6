--------------------------- MODULE MCMarketRollup ---------------------------
(* Model-checking instance of MarketRollup: days of five minutes of two       *)
(* instants; the New York session of a day crosses no local midnight but its *)
(* daily job runs on the next Korean day.                                    *)
EXTENDS MarketRollup, TLC

CONSTANTS KR, US
MCOffset == KR :> 0 @@ US :> 3
MCSession == {0, 1}
MCPrice == [i \in Instant |-> ((5 * i) % 7) + 1]
MCVolume == [i \in Instant |-> 10 + i]
=============================================================================
