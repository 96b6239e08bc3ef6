----------------------------- MODULE DailyBoard -----------------------------
(***************************************************************************)
(* What the market data pipeline promises: the bar of a trading day        *)
(* summarises the ticks of that day, of that exchange, in one stage.       *)
(* Whole minutes may be missing from a bar, but never a part of a minute.  *)
(***************************************************************************)
EXTENDS Bars

CONSTANTS
  Exchange,
  MinuteOf(_),      \* the minute of an instant
  TradeDay(_, _)    \* the trading day of a minute at an exchange

VARIABLES ticks, daily

boardVars == <<ticks, daily>>

BoardInit == ticks = {} /\ daily = <<>>

\* Ticks arrive or are dropped.
Collect == daily' = daily

TicksOf(x, d) ==
  {t \in ticks : t.exchange = x /\ TradeDay(x, MinuteOf(t.at)) = d}

CloseDay(x, d) ==
  \E M \in (SUBSET {MinuteOf(t.at) : t \in TicksOf(x, d)}) \ {{}} :
    LET bar == Summary({t \in TicksOf(x, d) : MinuteOf(t.at) \in M}) IN
    /\ daily' = [y \in DOMAIN daily \cup {<<x, d>>} |->
                   IF y = <<x, d>> THEN bar ELSE daily[y]]
    /\ UNCHANGED ticks

BoardNext ==
  \/ Collect
  \/ \E x \in Exchange : \E d \in {TradeDay(x, MinuteOf(t.at)) : t \in ticks} : CloseDay(x, d)

BoardSpec == BoardInit /\ [][BoardNext]_boardVars
=============================================================================
