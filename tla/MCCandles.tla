----------------------------- MODULE MCCandles ------------------------------
(* Model-checking instance of Candles: a day is two units long, every third   *)
(* and fourth of five days is closed; two overseas stocks share their code;   *)
(* the server's clock is behind Korea's and ahead of New York's.              *)
EXTENDS Candles, TLC

CONSTANTS kr, us, ny, other, crypto, r1, r2, u1, u2
MCSymmetry == Permutations({r1, r2}) \cup Permutations({u1, u2})

Of(market, exchange, code) == [market |-> market, exchange |-> exchange, code |-> code]
MCListing ==
  kr :> Of("KR", "KRX", "A") @@ us :> Of("US", "NASDAQ", "A") @@ ny :> Of("US", "NYSE", "A")
    @@ other :> Of("US", "NONE", "B") @@ crypto :> Of("CRYPTO", "UPBIT", "C")

Ask(s, i, n) == [stock |-> s, interval |-> i, limit |-> n]
MCQuery ==
  {Ask(kr, "1d", 2), Ask(kr, "1m", 2), Ask(us, "1d", 4), Ask(ny, "1d", 4),
   Ask(other, "1d", 1), Ask(crypto, "1m", 1), Ask(Unknown, "1m", 1)}
MCSpan == "1m" :> 1 @@ "1d" :> 2 @@ "1mo" :> 9
MCLife == "1m" :> 1 @@ "1d" :> 2 @@ "1mo" :> 4
MCLeast == "1m" :> 0 @@ "1d" :> 3 @@ "1mo" :> 1
MCBehind == "KR" :> 3 @@ "US" :> -1
MCClosed == "1m" :> {9, 14} @@ "1d" :> {d \in 0 .. 20 : d % 5 \in {2, 3}} @@ "1mo" :> {}

\* Bound: when a second chart is cached, the behaviour ends.
FewCached == Cardinality({k \in Keys : cache[k] # None}) <= 1
=============================================================================
