-------------------------------- MODULE Bars --------------------------------
(***************************************************************************)
(* Price bars of one stock: the two aggregations of the SQL functions      *)
(* rollup_tick_to_minute and rollup_minute_to_daily                        *)
(* (src/prisma/migrations/20260617071148_add_close_krw_to_rollups).  A    *)
(* tick is [at, price, volume]; a bar is named by the time it starts at.   *)
(***************************************************************************)
EXTENDS Integers, FiniteSets, Sums

First(S) == CHOOSE x \in S : \A y \in S : x.at <= y.at
Last(S) == CHOOSE x \in S : \A y \in S : y.at <= x.at

\* Of a nonempty set of ticks.
Summary(T) ==
  [open |-> First(T).price, high |-> Max({t.price : t \in T}),
   low |-> Min({t.price : t \in T}), close |-> Last(T).price,
   volume |-> SumOver([t \in T |-> t.volume], T)]

\* Mutant of Merge: the daily bar opens with the lowest price of the day.
MergeLow(B) ==
  [open |-> Min({b.low : b \in B}), high |-> Max({b.high : b \in B}),
   low |-> Min({b.low : b \in B}), close |-> Last(B).close,
   volume |-> SumOver([b \in B |-> b.volume], B)]

\* Of a nonempty set of bars.
Merge(B) ==
  [open |-> First(B).open, high |-> Max({b.high : b \in B}),
   low |-> Min({b.low : b \in B}), close |-> Last(B).close,
   volume |-> SumOver([b \in B |-> b.volume], B)]
=============================================================================
