------------------------------ MODULE Candles -------------------------------
(***************************************************************************)
(* Charts: StocksService.getCandles (src/src/modules/stocks) with          *)
(* KisChartPriceService and its Redis cache (src/src/modules/kis/price).   *)
(*                                                                         *)
(* One step per await.  The cache is shared by all users.  A candle is     *)
(* known by the interval, counted from the epoch, in which it starts; the  *)
(* ascending list of candles that is answered is the set of its candles.   *)
(* In closed intervals KIS has none (weekends and holidays, for days).     *)
(*                                                                         *)
(* Time is the exchanges'; the server reads its own clock, in its own time *)
(* zone, and sends what it reads to KIS.                                   *)
(***************************************************************************)
EXTENDS Integers, FiniteSets

CONSTANTS
  User, Stock, Request,
  Listing,   \* Listing[s]: market, exchange and code of a stock
  Excd,      \* exchanges KIS is asked for: EXCHANGE_TO_EXCD
  Query,     \* stock (or Unknown), interval and limit, as the DTO lets them pass
  Unknown,
  Span, Life,   \* of an interval: its length and the time its charts are cached
  Closed,    \* of an interval: where it is closed
  Behind,    \* of a market: how far the server's local time is behind it
  Least,     \* of an interval: a domestic chart asks for at least so many
  KisRows,   \* KIS answers so many rows at most
  Delay,     \* longest time from the answer of KIS to its caching
  Start, MaxTime   \* bounds of the model

Interval == DOMAIN Span
Time == Start .. MaxTime

\* Mutant of CacheKey: stocks of all overseas exchanges share one place, too.
CacheKeyMarket(q) == <<Listing[q.stock].market, Listing[q.stock].code, q.interval, q.limit>>
\* candleCacheKey: all domestic stocks share one place.
CacheKey(q) ==
  <<IF Listing[q.stock].market = "KR" THEN "DOMESTIC" ELSE Listing[q.stock].exchange,
    Listing[q.stock].code, q.interval, q.limit>>

Charted == {q \in Query : q.stock # Unknown /\ Listing[q.stock].market \in {"KR", "US"}}
Keys == {CacheKey(q) : q \in Charted}

ASSUME CandlesAssumption ==
  /\ Query \subseteq [stock : Stock \cup {Unknown}, interval : Interval, limit : Nat \ {0}]
  /\ \A s, t \in Stock : s # t =>
       <<Listing[s].exchange, Listing[s].code>> # <<Listing[t].exchange, Listing[t].code>>
  /\ \A s \in Stock : Listing[s].exchange # "DOMESTIC"
  /\ \A q \in Charted : Listing[q.stock].market = "KR" => Listing[q.stock].exchange = "KRX"
  /\ {Start, MaxTime, Delay, KisRows} \subseteq Nat /\ Start <= MaxTime
  /\ {Span, Life} \subseteq [Interval -> Nat \ {0}] /\ Least \in [Interval -> Nat]
  /\ Behind \in [{"KR", "US"} -> Int] /\ \A m \in {"KR", "US"} : Behind[m] <= Start

\* No calendar closes more than half of a stretch as long as the shortest range
\* of dates, and one interval: thirty days, a year of weeks, two of months.
ASSUME CalendarAssumption ==
  \A i \in Interval \ {"1m"} : \A from, to \in 0 .. MaxTime :
    Least[i] <= to - from => 2 * Cardinality(Closed[i] \cap (from .. to)) <= to - from + 2

VARIABLES
  now,
  keyed,    \* users whose KIS key is stored
  cache,    \* Redis
  pc, by, query,
  got       \* the candles a request has been given, and when KIS told them

vars == <<now, keyed, cache, pc, by, query, got>>

None == [at |-> -1]

TypeOK ==
  /\ now \in Time /\ keyed \subseteq User
  /\ \A k \in Keys : cache[k] # None => cache[k].chart.at <= now /\ now < cache[k].until
  /\ pc \in [Request -> {"idle", "stock", "key", "cache", "token", "fetch", "store", "done", "failed"}]
  /\ \A r \in Request :
       /\ pc[r] # "idle" => query[r] \in Query /\ by[r] \in User
       /\ pc[r] \in {"cache", "token", "fetch", "store"} => query[r] \in Charted
       /\ pc[r] = "store" => got[r].at \in Time

Init ==
  /\ now = Start /\ keyed \in SUBSET User
  /\ cache = [k \in Keys |-> None]
  /\ pc = [r \in Request |-> "idle"]
  /\ by = [r \in Request |-> None]
  /\ query = [r \in Request |-> None]
  /\ got = [r \in Request |-> None]

-----------------------------------------------------------------------------
(* StocksService.getCandles *)

Goto(r, l) == pc' = [pc EXCEPT ![r] = l]

Answer(r, chart) ==
  /\ Goto(r, "done")
  /\ got' = [got EXCEPT ![r] = chart]

\* Answered with an error, whichever.
Throw(r) == Goto(r, "failed") /\ UNCHANGED got

Submit(r, u, q) ==
  /\ pc[r] \in {"idle", "done", "failed"}
  /\ Goto(r, "stock")
  /\ by' = [by EXCEPT ![r] = u]
  /\ query' = [query EXCEPT ![r] = q]
  /\ got' = [got EXCEPT ![r] = None]
  /\ UNCHANGED <<now, keyed, cache>>

FindStock(r) ==
  /\ pc[r] = "stock"
  /\ IF query[r].stock = Unknown THEN Throw(r) ELSE Goto(r, "key") /\ UNCHANGED got
  /\ UNCHANGED <<now, keyed, cache, by, query>>

\* Mutant of FindKey: every market goes to the chart client.
FindKeyOnly(r) ==
  /\ pc[r] = "key"
  /\ IF by[r] \notin keyed THEN Throw(r) ELSE Goto(r, "cache") /\ UNCHANGED got
  /\ UNCHANGED <<now, keyed, cache, by, query>>

\* Markets without a chart are answered with an empty one.
FindKey(r) ==
  /\ pc[r] = "key"
  /\ CASE by[r] \notin keyed -> Throw(r)
       [] by[r] \in keyed /\ query[r] \notin Charted -> Answer(r, None)
       [] OTHER -> Goto(r, "cache") /\ UNCHANGED got
  /\ UNCHANGED <<now, keyed, cache, by, query>>

-----------------------------------------------------------------------------
(* KisChartPriceService: the four fetch...Candles methods *)

\* An error of Redis is a miss.
ReadCache(r) ==
  LET hit == cache[CacheKey(query[r])] IN
  /\ pc[r] = "cache"
  /\ \/ hit # None /\ Answer(r, hit.chart)
     \/ Goto(r, "token") /\ UNCHANGED got
  /\ UNCHANGED <<now, keyed, cache, by, query>>

Supported(q) == Listing[q.stock].market = "KR" \/ Listing[q.stock].exchange \in Excd

\* getKisAuthContext; KisAuth models its errors.
GetToken(r) ==
  /\ pc[r] = "token"
  /\ \/ Throw(r)
     \/ /\ by[r] \in keyed
        /\ IF Supported(query[r]) THEN Goto(r, "fetch") /\ UNCHANGED got
           ELSE Answer(r, None)
  /\ UNCHANGED <<now, keyed, cache, by, query>>

IsMinute(q) == q.interval = "1m"
Domestic(q) == Listing[q.stock].market = "KR"

\* The moment a request names is what the server's clock shows: a minute of a
\* day, or the end of a range of days; overseas minutes name none.  KIS has
\* nothing of the future.
Named(q, t) ==
  LET b == Behind[Listing[q.stock].market]
  IN  IF b < 0 \/ (IsMinute(q) /\ ~Domestic(q)) THEN t ELSE t - b

\* The interval it is in.
Until(q, t) == Named(q, t) \div Span[q.interval]

\* getDateRange, in intervals.
Back(q) == IF 2 * q.limit < Least[q.interval] THEN Least[q.interval] ELSE 2 * q.limit

\* Only a domestic chart of days, weeks or months names the start of its range.
From(q, to) ==
  IF Domestic(q) /\ ~IsMinute(q) /\ Back(q) < to THEN to - Back(q) ELSE 0

NewestOf(S, n) == {x \in S : Cardinality({y \in S : y > x}) < n}

\* The last candles of the sorted list.
Slice(S, n) == NewestOf(S, n)

Candles(i, from, to) == (from .. to) \ Closed[i]

\* A chart shows so many candles.
Shown(q) == IF q.limit < KisRows THEN q.limit ELSE KisRows

Rows(q) ==
  LET to == Until(q, now) IN
  NewestOf(Candles(q.interval, From(q, to), to), KisRows)

\* Without rows the chart is empty; an error of KIS or of HTTP is one of the request.
Fetch(r) ==
  LET q == query[r] IN
  /\ pc[r] = "fetch"
  /\ \/ Throw(r)
     \/ /\ got' = [got EXCEPT ![r] = [stock |-> q.stock, interval |-> q.interval,
                                      candles |-> Slice(Rows(q), q.limit), at |-> now]]
        /\ Goto(r, "store")
  /\ UNCHANGED <<now, keyed, cache, by, query>>

\* Mutant of Expiry: one life for all intervals.
ExpiryMonth(q) == now + Life["1mo"]
Expiry(q) == now + Life[q.interval]

\* An error of Redis is swallowed.
Store(r) ==
  /\ pc[r] = "store"
  /\ \/ cache' = [cache EXCEPT ![CacheKey(query[r])] =
                    [chart |-> got[r], until |-> Expiry(query[r])]]
     \/ UNCHANGED cache
  /\ Answer(r, got[r])
  /\ UNCHANGED <<now, keyed, by, query>>

-----------------------------------------------------------------------------
\* A key is registered or rolled back (KisCredential).
ChangeKey(u) ==
  /\ keyed' = IF u \in keyed THEN keyed \ {u} ELSE keyed \cup {u}
  /\ UNCHANGED <<now, cache, pc, by, query, got>>

\* Redis drops what expires.
Tick ==
  /\ now + 1 \in Time
  /\ \A r \in Request : pc[r] = "store" => now < got[r].at + Delay
  /\ now' = now + 1
  /\ cache' = [k \in Keys |-> IF cache[k] # None /\ cache[k].until <= now + 1
                              THEN None ELSE cache[k]]
  /\ UNCHANGED <<keyed, pc, by, query, got>>

Step(r) ==
  \/ FindStock(r) \/ FindKey(r) \/ ReadCache(r) \/ GetToken(r) \/ Fetch(r) \/ Store(r)

Next ==
  \/ \E r \in Request : Step(r) \/ \E u \in User, q \in Query : Submit(r, u, q)
  \/ \E u \in User : ChangeKey(u)
  \/ Tick

Spec == Init /\ [][Next]_vars

-----------------------------------------------------------------------------
Answered(r) == pc[r] = "done" /\ got[r] # None

\* Whoever's request filled the cache: the chart is of the stock and interval
\* asked for, and shows the newest candles there were at the moment named to KIS,
\* as many as the limit allows: the range has that many in spite of weekends.
AnswerFits ==
  \A r \in Request : Answered(r) =>
    LET q == query[r]
        all == Candles(q.interval, 0, Until(q, got[r].at))
    IN  /\ got[r].stock = q.stock /\ got[r].interval = q.interval
        /\ got[r].candles = NewestOf(all, Shown(q))

\* On a server whose clock is not behind the exchanges' these are the newest
\* candles there were when KIS was asked.
AnswerNewest ==
  \A r \in Request : Answered(r) =>
    LET q == query[r] IN
    got[r].candles =
      NewestOf(Candles(q.interval, 0, got[r].at \div Span[q.interval]), Shown(q))

\* A cached chart is not older than the life of its interval and the time it took
\* to cache it, even when slow requests overwrite the charts of faster ones.
ChartFresh ==
  \A q \in Charted :
    LET entry == cache[CacheKey(q)] IN
    entry # None => now < entry.chart.at + Life[q.interval] + Delay
=============================================================================
