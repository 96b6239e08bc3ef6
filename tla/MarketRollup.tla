---------------------------- MODULE MarketRollup ----------------------------
(***************************************************************************)
(* MaintenanceService (src/src/modules/kis/ingest/maintenance.service.ts)  *)
(* and the SQL functions it calls: ticks are rolled into minute bars and   *)
(* these into daily bars, each stage by a job that runs once at its time   *)
(* or, when the process is down, never; ticks live in partitions by Korean *)
(* day that one job creates ahead and another one drops.                   *)
(*                                                                         *)
(* An instant is a Sub-th of a minute; a day has Length minutes and starts *)
(* at Korean midnight.  One stock of one user stands for an exchange.      *)
(***************************************************************************)
EXTENDS Bars

CONSTANTS
  Exchange,
  Sub, Length,
  Offset,      \* Offset[x] minutes are added for the local time at x
  Session,     \* the minutes of the local day in which prices are captured
  RollAt, EnsureAt, RetainAt,   \* the minutes at which jobs run
  Ahead, Keep, \* days of partitions created ahead and kept
  Late,        \* longest time from a capture to its insert
  Price, Volume,   \* of the tick captured at an instant
  MaxTicks, MaxDay \* bounds of the model

MinuteOf(i) == i \div Sub
KoreanDay(m) == m \div Length
TradeDay(x, m) == (m + Offset[x]) \div Length
LocalMinute(x, m) == (m + Offset[x]) % Length
Instant == 0 .. MaxDay * Length * Sub - 1
Minutes == 0 .. MaxDay * Length - 1

ASSUME MarketRollupAssumption ==
  /\ {Sub, Length, MaxDay} \subseteq Nat \ {0}
  /\ {Ahead, Keep, Late, EnsureAt, RetainAt, RollAt, MaxTicks} \subseteq Nat
  /\ Late <= Sub                                   \* the minute's job runs later
  /\ \A m \in Session : m + 2 < RollAt             \* and before the day's
  /\ Offset \in [Exchange -> Nat]
  /\ Price \in [Instant -> Int] /\ Volume \in [Instant -> Int]
  /\ Exchange \cap {"minute", "ensure", "retain"} = {}

\* No job runs at Korean midnight; three days ahead outlast a missed morning; the
\* ticks of a trading day are kept until the job that makes its bar.
ASSUME CalendarAssumption ==
  /\ {EnsureAt, RetainAt} \subseteq 1 .. Length - 1
  /\ Ahead >= 3
  /\ \A x \in Exchange : \A m, w, n \in Minutes :
       /\ LocalMinute(x, m) \in Session /\ LocalMinute(x, n) = RollAt
       /\ TradeDay(x, m) = TradeDay(x, n)
       /\ w <= n /\ w % Length = RetainAt
       => KoreanDay(w) - Keep <= KoreanDay(m)

VARIABLES
  now,
  pending,   \* ticks captured and not yet inserted
  ticks, bars, daily,   \* the tables
  parts,     \* days that have a partition of ticks
  due,       \* jobs to run in this minute
  lost,      \* minutes whose rollup did not run
  asleep,    \* mornings in a row on which no partitions were created
  zone       \* days by which current_date is behind in the database's session

tables == <<ticks, bars, daily>>
rollupVars == <<now, pending, ticks, bars, daily, parts, due, lost, asleep, zone>>

Now == MinuteOf(now)
Tick == [exchange : Exchange, at : Instant, price : Int, volume : Int]
Bar == [open : Int, high : Int, low : Int, close : Int, volume : Int]
Jobs == {"minute", "ensure", "retain"} \cup Exchange

RollupTypeOK ==
  /\ now \in Instant
  /\ pending \subseteq Tick /\ ticks \subseteq Tick
  /\ DOMAIN bars \subseteq Exchange \X Minutes
  /\ \A b \in DOMAIN bars : bars[b].at = b[2]
  /\ \A d \in DOMAIN daily : daily[d] \in Bar
  /\ due \subseteq Jobs
  /\ \A t \in ticks : KoreanDay(MinuteOf(t.at)) \in parts

Put(f, x, v) == [y \in DOMAIN f \cup {x} |-> IF y = x THEN v ELSE f[y]]

\* current_date .. current_date + 3, in the time zone of the session.
Ensured(day) == day - zone .. day - zone + Ahead

\* Midnight: the partitions were last created yesterday or the day before.
RollupInit ==
  /\ now = 0
  /\ pending = {} /\ ticks = {}
  /\ bars = <<>> /\ daily = <<>>
  /\ zone \in {0, 1}
  /\ asleep \in {0, 1}
  /\ parts = Ensured(-1 - asleep)
  /\ due = {} /\ lost = {}

-----------------------------------------------------------------------------
(* The pollers, as far as the rollups are concerned *)

Capture(x) ==
  /\ LocalMinute(x, Now) \in Session
  /\ Cardinality(ticks \cup pending) < MaxTicks
  /\ \A t \in ticks \cup pending : t.exchange = x => t.at # now
  /\ pending' = pending \cup
       {[exchange |-> x, at |-> now, price |-> Price[now], volume |-> Volume[now]]}
  /\ UNCHANGED <<now, tables, parts, due, lost, asleep, zone>>

\* An insert without a partition for its day fails.
InsertTick(t) ==
  /\ t \in pending
  /\ pending' = pending \ {t}
  /\ ticks' = IF KoreanDay(MinuteOf(t.at)) \in parts THEN ticks \cup {t} ELSE ticks
  /\ UNCHANGED <<now, bars, daily, parts, due, lost, asleep, zone>>

-----------------------------------------------------------------------------
(* The jobs *)

Done(job) == due' = due \ {job}

TicksIn(x, m) == {t \in ticks : t.exchange = x /\ MinuteOf(t.at) = m}

\* Mutant of Rolled: the minute that has just ended.
RolledEarly == Now - 1
\* The minute that ended a minute ago.
Rolled == Now - 2

WithTime(bar, m) ==
  [at |-> m, open |-> bar.open, high |-> bar.high, low |-> bar.low,
   close |-> bar.close, volume |-> bar.volume]

RollMinute ==
  LET found == {x \in Exchange : TicksIn(x, Rolled) # {}} IN
  /\ "minute" \in due /\ Done("minute")
  /\ bars' = [b \in DOMAIN bars \cup found \X {Rolled} |->
                IF b \in found \X {Rolled}
                THEN WithTime(Summary(TicksIn(b[1], b[2])), b[2]) ELSE bars[b]]
  /\ UNCHANGED <<now, pending, ticks, daily, parts, lost, asleep, zone>>

DayBars(x, d) ==
  {bars[b] : b \in {c \in DOMAIN bars : c[1] = x /\ TradeDay(x, c[2]) = d}}

\* Today's bar at x; without minute bars, a holiday, nothing.
RollDaily(x) ==
  LET d == TradeDay(x, Now) IN
  /\ x \in due /\ Done(x)
  /\ daily' = IF DayBars(x, d) = {} THEN daily ELSE Put(daily, <<x, d>>, Merge(DayBars(x, d)))
  /\ UNCHANGED <<now, pending, ticks, bars, parts, lost, asleep, zone>>

\* Mutant of EnsurePartitions: only today's partition is created.
EnsureToday ==
  /\ "ensure" \in due /\ Done("ensure")
  /\ parts' = parts \cup {KoreanDay(Now) - zone}
  /\ asleep' = 0
  /\ UNCHANGED <<now, pending, tables, lost, zone>>

EnsurePartitions ==
  /\ "ensure" \in due /\ Done("ensure")
  /\ parts' = parts \cup Ensured(KoreanDay(Now))
  /\ asleep' = 0
  /\ UNCHANGED <<now, pending, tables, lost, zone>>

\* Mutant of Cutoff: today's partition is dropped as well.
CutoffTomorrow == KoreanDay(Now) + 1
\* Partitions that end at or before Keep days ago are dropped.
Cutoff == KoreanDay(Now) - Keep

\* Mutant of Retention: the rows outlive their partition.
RetentionKeepsRows ==
  /\ "retain" \in due /\ Done("retain")
  /\ parts' = {d \in parts : d >= Cutoff}
  /\ UNCHANGED <<now, pending, tables, lost, asleep, zone>>

Retention ==
  /\ "retain" \in due /\ Done("retain")
  /\ parts' = {d \in parts : d >= Cutoff}
  /\ ticks' = {t \in ticks : KoreanDay(MinuteOf(t.at)) >= Cutoff}
  /\ UNCHANGED <<now, pending, bars, daily, lost, asleep, zone>>

\* The process is down when a job is due, or the job fails; it is not down two
\* mornings in a row.
Miss(job) ==
  /\ job \in due /\ Done(job)
  /\ lost' = IF job = "minute" /\ \E x \in Exchange : TicksIn(x, Rolled) # {}
             THEN lost \cup {Rolled} ELSE lost
  /\ asleep' = IF job = "ensure" THEN asleep + 1 ELSE asleep
  /\ asleep' <= 1
  /\ UNCHANGED <<now, pending, tables, parts, zone>>

JobsAt(m) ==
  {"minute"} \cup {x \in Exchange : LocalMinute(x, m) = RollAt}
    \cup {j \in {"ensure"} : m % Length = EnsureAt}
    \cup {j \in {"retain"} : m % Length = RetainAt}

Advance ==
  /\ due = {} /\ now + 1 \in Instant
  /\ \A t \in pending : now < t.at + Late
  /\ now' = now + 1
  /\ due' = IF MinuteOf(now + 1) # Now THEN JobsAt(MinuteOf(now + 1)) ELSE {}
  /\ UNCHANGED <<pending, tables, parts, lost, asleep, zone>>

RollupNext ==
  \/ \E x \in Exchange : Capture(x) \/ RollDaily(x)
  \/ \E t \in pending : InsertTick(t)
  \/ RollMinute \/ EnsurePartitions \/ Retention
  \/ \E job \in Jobs : Miss(job)
  \/ Advance

RollupSpec == RollupInit /\ [][RollupNext]_rollupVars

-----------------------------------------------------------------------------
\* A minute whose job ran has the bar of all its ticks: none comes after it.
BarsExact ==
  \A t \in ticks :
    LET m == MinuteOf(t.at) IN
    m < Rolled /\ m \notin lost =>
      /\ <<t.exchange, m>> \in DOMAIN bars
      /\ bars[<<t.exchange, m>>] = WithTime(Summary(TicksIn(t.exchange, m)), m)

TicksOfDay(x, d) == {t \in ticks : t.exchange = x /\ TradeDay(x, MinuteOf(t.at)) = d}

\* Every tick finds its partition, in whatever zone the session is.
PartitionReady == \A t \in pending : KoreanDay(MinuteOf(t.at)) \in parts

\* Retention leaves the ticks of the last Keep days alone.
TicksKept ==
  [][\A t \in ticks \ ticks' : KoreanDay(MinuteOf(t.at)) + Keep < KoreanDay(Now)]_rollupVars

Board == INSTANCE DailyBoard WITH TradeDay <- TradeDay, MinuteOf <- MinuteOf

\* The two stages together implement the one stage of DailyBoard.
Refinement == Board!BoardSpec

\* "acml_vol: accumulated volume": the volume of a day is that of its last tick.
DailyVolume ==
  \A y \in DOMAIN daily :
    LET T == TicksOfDay(y[1], y[2]) IN
    T # {} /\ (\A t \in T : MinuteOf(t.at) \notin lost) => daily[y].volume <= Last(T).volume
=============================================================================
