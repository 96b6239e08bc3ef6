--------------------------- MODULE Candles_proofs ---------------------------
(***************************************************************************)
(* Proofs about Candles, for every number of users, stocks and requests:   *)
(* an answer shows the candles asked for, whoever's request has filled the *)
(* cache, and no cached chart outlives its interval.                       *)
(***************************************************************************)
EXTENDS Candles, FiniteSetTheorems, TLAPS

\* The chart that query q asks for at chart.at, by the server's clock.
Fits(chart, q) ==
  /\ chart.at \in Time
  /\ chart.stock = q.stock /\ chart.interval = q.interval
  /\ chart.candles =
       NewestOf(Candles(q.interval, 0, Until(q, chart.at)), Shown(q))

Labels == {"idle", "stock", "key", "cache", "token", "fetch", "store", "done", "failed"}

Typed ==
  /\ now \in Time /\ keyed \subseteq User
  /\ DOMAIN cache = Keys
  /\ pc \in [Request -> Labels]
  /\ DOMAIN by = Request /\ DOMAIN query = Request /\ DOMAIN got = Request

\* What a request has in hand.
InHand ==
  \A r \in Request :
    /\ pc[r] # "idle" => query[r] \in Query /\ by[r] \in User
    /\ pc[r] \in {"cache", "token", "fetch", "store"} => query[r] \in Charted
    /\ pc[r] = "store" => /\ Fits(got[r], query[r])
                          /\ got[r].at <= now /\ now <= got[r].at + Delay
    /\ Answered(r) => query[r] \in Charted /\ Fits(got[r], query[r])

\* A cached chart is one that its key asks for.  It expires its life after it was
\* cached, at most Delay after KIS told it.
GoodEntry(entry, q) ==
  /\ Fits(entry.chart, q)
  /\ entry.chart.at <= now /\ now < entry.until
  /\ entry.until \in Int /\ entry.until <= entry.chart.at + Delay + Life[q.interval]

EntriesGood ==
  \A q \in Charted : cache[CacheKey(q)] # None => GoodEntry(cache[CacheKey(q)], q)

\* The inductive invariant.
IInv == Typed /\ InHand /\ EntriesGood

-----------------------------------------------------------------------------
(* The newest of some numbers *)

Above(S, x) == {y \in S : y > x}

\* Of the numbers above x only some are above a greater y.
LEMMA AboveLess ==
  ASSUME NEW S \in SUBSET Int, IsFiniteSet(S), NEW x \in Int, NEW y \in Int, x <= y
  PROVE  /\ IsFiniteSet(Above(S, x)) /\ Above(S, y) \subseteq Above(S, x)
         /\ Cardinality(Above(S, x)) \in Nat /\ Cardinality(Above(S, y)) \in Nat
         /\ Cardinality(Above(S, y)) <= Cardinality(Above(S, x))
<1>1. Above(S, x) \subseteq S /\ Above(S, y) \subseteq Above(S, x)
  <2>1. \A z \in S : z \in Int
    OBVIOUS
  <2>2. \A z \in S : z > y => z > x
    BY <2>1
  <2> QED BY <2>2 DEF Above
<1> QED BY <1>1, FS_Subset, FS_CardinalityType

\* The newest of the newest: of both numbers the lower one counts.
LEMMA NewestTwice ==
  ASSUME NEW S \in SUBSET Int, IsFiniteSet(S), NEW m \in Nat, NEW n \in Nat
  PROVE  NewestOf(NewestOf(S, m), n) = NewestOf(S, IF n < m THEN n ELSE m)
<1> DEFINE N == NewestOf(S, m)
<1>1. N \in SUBSET Int /\ IsFiniteSet(N) /\ N \subseteq S
  BY FS_Subset DEF NewestOf
<1>2. \A x \in S : x \in N <=> Cardinality(Above(S, x)) < m
  BY DEF NewestOf, Above
<1>3. \A x \in N : x \in NewestOf(N, n) <=> Cardinality(Above(N, x)) < n
  BY DEF NewestOf, Above
<1>4. \A x \in S : x \in NewestOf(S, IF n < m THEN n ELSE m) <=>
                     Cardinality(Above(S, x)) < m /\ Cardinality(Above(S, x)) < n
  <2>1. \A x \in S : Cardinality(Above(S, x)) \in Nat
    BY AboveLess
  <2> QED BY <2>1 DEF NewestOf, Above
<1>5. ASSUME NEW x \in N PROVE Above(N, x) = Above(S, x)
  <2>1. ASSUME NEW y \in S, y > x PROVE y \in N
    <3>1. x \in Int /\ y \in Int /\ x <= y /\ x \in S
      BY <1>1, <2>1
    <3>2. /\ Cardinality(Above(S, x)) \in Nat /\ Cardinality(Above(S, y)) \in Nat
          /\ Cardinality(Above(S, y)) <= Cardinality(Above(S, x))
      BY <3>1, AboveLess
    <3> QED BY <1>2, <3>1, <3>2
  <2> QED BY <1>1, <2>1 DEF Above
<1>6. NewestOf(N, n) \subseteq N /\ NewestOf(S, IF n < m THEN n ELSE m) \subseteq S
  BY DEF NewestOf
<1> HIDE DEF N
<1>7. ASSUME NEW x \in S
      PROVE  x \in NewestOf(N, n) <=> x \in NewestOf(S, IF n < m THEN n ELSE m)
  BY <1>2, <1>3, <1>4, <1>5, <1>6
<1>8. NewestOf(N, n) = NewestOf(S, IF n < m THEN n ELSE m)
  BY <1>1, <1>6, <1>7
<1> QED BY <1>8 DEF N

\* The newest n numbers are among any n or more that are newer than all others.
LEMMA NewestAmong ==
  ASSUME NEW S \in SUBSET Int, IsFiniteSet(S), NEW T \in SUBSET S, NEW n \in Nat,
         \A x \in T, y \in S : x <= y => y \in T,
         n <= Cardinality(T)
  PROVE  NewestOf(T, n) = NewestOf(S, n)
<1>1. ASSUME NEW x \in T PROVE Above(T, x) = Above(S, x)
  <2>1. \A y \in S : y > x => y \in T
    <3>1. x \in Int /\ \A y \in S : y \in Int
      OBVIOUS
    <3> QED BY <3>1
  <2> QED BY <2>1 DEF Above
<1>2. ASSUME NEW x \in S \ T PROVE ~(Cardinality(Above(S, x)) < n)
  <2>1. x \in Int /\ \A y \in S : y \in Int
    OBVIOUS
  <2>2. T \subseteq Above(S, x)
    BY <2>1 DEF Above
  <2>3. IsFiniteSet(Above(S, x)) /\ Cardinality(Above(S, x)) \in Nat
    BY <2>1, AboveLess
  <2>4. Cardinality(T) \in Nat /\ Cardinality(T) <= Cardinality(Above(S, x))
    BY <2>2, <2>3, FS_Subset, FS_CardinalityType
  <2> QED BY <2>3, <2>4
<1> QED BY <1>1, <1>2 DEF NewestOf, Above

-----------------------------------------------------------------------------
(* Queries and the charts that answer them *)

\* The numbers among the constants.
LEMMA Numbers ==
  /\ Start \in Nat /\ MaxTime \in Nat /\ Delay \in Nat /\ KisRows \in Nat
  /\ \A t \in Time : t \in Nat
  /\ \A q \in Query : /\ q.interval \in Interval /\ q.limit \in Nat
                      /\ Span[q.interval] \in Nat \ {0} /\ Life[q.interval] \in Nat \ {0}
                      /\ Shown(q) \in Nat
<1>1. \A q \in Query : q.interval \in Interval /\ q.limit \in Nat
  BY CandlesAssumption
<1>2. \A i \in Interval : Span[i] \in Nat \ {0} /\ Life[i] \in Nat \ {0}
  BY CandlesAssumption
<1>3. {Start, MaxTime, Delay, KisRows} \subseteq Nat
  BY CandlesAssumption
<1> QED BY <1>1, <1>2, <1>3 DEF Time, Shown

\* What shares its place in the cache is one query.
LEMMA KeyTells ==
  ASSUME NEW q \in Charted, NEW k \in Charted, CacheKey(q) = CacheKey(k)
  PROVE  q = k
<1>1. /\ q \in [stock : Stock \cup {Unknown}, interval : Interval, limit : Nat \ {0}]
      /\ k \in [stock : Stock \cup {Unknown}, interval : Interval, limit : Nat \ {0}]
  BY CandlesAssumption DEF Charted
<1>2. /\ q.stock \in Stock /\ k.stock \in Stock
      /\ Listing[q.stock].market \in {"KR", "US"} /\ Listing[k.stock].market \in {"KR", "US"}
  BY <1>1 DEF Charted
<1>3. /\ Listing[q.stock].code = Listing[k.stock].code
      /\ q.interval = k.interval /\ q.limit = k.limit
  BY DEF CacheKey
<1>4. Listing[q.stock].exchange = Listing[k.stock].exchange
  <2>1. (Listing[q.stock].market = "KR") = (Listing[k.stock].market = "KR")
    BY <1>2, CandlesAssumption DEF CacheKey
  <2>2. CASE Listing[q.stock].market = "KR"
    BY <2>1, <2>2, CandlesAssumption
  <2>3. CASE Listing[q.stock].market # "KR"
    BY <2>1, <2>3 DEF CacheKey
  <2> QED BY <2>2, <2>3
<1>5. q.stock = k.stock
  BY <1>2, <1>3, <1>4, CandlesAssumption
<1> QED BY <1>1, <1>3, <1>5

\* The interval named to KIS is one of the calendar.
LEMMA NamedInterval ==
  ASSUME NEW q \in Charted, NEW t \in Time
  PROVE  /\ Named(q, t) \in Nat /\ Named(q, t) <= t
         /\ Until(q, t) \in Nat /\ Until(q, t) <= t
<1>1. q \in Query /\ Listing[q.stock].market \in {"KR", "US"}
  BY DEF Charted
<1>2. t \in Nat /\ Start \in Nat /\ Start <= t /\ Span[q.interval] \in Nat \ {0}
  BY <1>1, Numbers DEF Time
<1> DEFINE b == Behind[Listing[q.stock].market]
<1>3. b \in Int /\ b <= Start
  BY <1>1, CandlesAssumption
<1>4. Named(q, t) = t \/ (b >= 0 /\ Named(q, t) = t - b)
  BY <1>3 DEF Named
<1> HIDE DEF b
<1>5. Named(q, t) \in Nat /\ Named(q, t) <= t
  BY <1>2, <1>3, <1>4
<1>6. ASSUME NEW n \in Nat, NEW d \in Nat \ {0}
      PROVE  n \div d \in Nat /\ n \div d <= n
  BY Z3
<1> QED BY <1>2, <1>5, <1>6 DEF Until

\* The range of a domestic chart of days, weeks or months holds as many open
\* intervals as the chart shows: it is twice as long, and at most half of it and
\* one interval are closed.
LEMMA RangeHolds ==
  ASSUME NEW q \in Charted, NEW to \in 0 .. MaxTime, From(q, to) # 0
  PROVE  /\ From(q, to) \in Nat
         /\ Shown(q) <= Cardinality(Candles(q.interval, From(q, to), to))
<1> DEFINE n == Back(q)
           from == From(q, to)
           all == from .. to
           closed == Closed[q.interval] \cap all
<1>1. q \in Query /\ q.interval \in Interval \ {"1m"}
  BY CandlesAssumption DEF Charted, From, IsMinute
<1>2. q.limit \in Nat /\ KisRows \in Nat /\ Shown(q) \in Nat /\ Least[q.interval] \in Nat
  BY <1>1, Numbers, CandlesAssumption
<1>3. n \in Nat /\ 2 * q.limit <= n /\ Least[q.interval] <= n
  BY <1>2 DEF Back
<1>4. from = to - n /\ n < to
  BY DEF From
<1>5. to \in Nat /\ to <= MaxTime /\ MaxTime \in Nat
  BY Numbers
<1> HIDE DEF n, from
<1>6. from \in Nat /\ from \in 0 .. MaxTime /\ from <= to /\ to - from = n
  BY <1>3, <1>4, <1>5
<1>7. 2 * Cardinality(closed) <= n + 2
  BY <1>1, <1>3, <1>6, CalendarAssumption
<1>8. IsFiniteSet(all) /\ Cardinality(all) = n + 1
  <2>1. from \in Int /\ to \in Int /\ ~(from > to)
    BY <1>5, <1>6
  <2>2. /\ IsFiniteSet(from .. to)
        /\ Cardinality(from .. to) = IF from > to THEN 0 ELSE to - from + 1
    BY <2>1, FS_Interval, Zenon
  <2> QED BY <1>3, <1>6, <2>1, <2>2
<1>9. Candles(q.interval, from, to) = all \ closed
  BY DEF Candles
<1>10. IsFiniteSet(closed) /\ Cardinality(closed) \in Nat
  BY <1>8, FS_Subset, FS_CardinalityType
<1>11. Cardinality(all \ closed) = Cardinality(all) - Cardinality(closed)
  <2>1. all \cap closed = closed
    OBVIOUS
  <2> HIDE DEF all, closed
  <2> QED BY <1>8, <2>1, FS_Difference
<1>12. Shown(q) <= q.limit
  BY <1>2 DEF Shown
<1> HIDE DEF all, closed
<1>13. 2 * Cardinality(all \ closed) >= n
  BY <1>3, <1>7, <1>8, <1>10, <1>11
<1>14. Cardinality(all \ closed) \in Int
  BY <1>3, <1>8, <1>10, <1>11
<1>15. q.limit <= Cardinality(all \ closed)
  BY <1>2, <1>3, <1>13, <1>14
<1>16. Shown(q) <= Cardinality(all \ closed)
  BY <1>2, <1>12, <1>14, <1>15
<1> QED BY <1>6, <1>9, <1>16 DEF from

\* KIS tells the newest candles; the range it is asked for does not hide any.
LEMMA RowsFit ==
  ASSUME NEW q \in Charted, now \in Time
  PROVE  Fits([stock |-> q.stock, interval |-> q.interval,
               candles |-> Slice(Rows(q), q.limit), at |-> now], q)
<1> DEFINE to == Until(q, now)
           from == From(q, to)
           S == Candles(q.interval, 0, to)
           T == Candles(q.interval, from, to)
<1>1. q \in Query
  BY DEF Charted
<1>2. /\ now \in Nat /\ q.limit \in Nat /\ KisRows \in Nat /\ Shown(q) \in Nat
      /\ to \in Nat /\ to <= now /\ now <= MaxTime /\ MaxTime \in Nat
  BY <1>1, Numbers, NamedInterval DEF Time
<1>3. from = 0 \/ (from \in Nat /\ Shown(q) <= Cardinality(T))
  <2>1. to \in 0 .. MaxTime
    BY <1>2
  <2> HIDE DEF to
  <2> QED BY <2>1, RangeHolds
<1>4. from \in Nat
  BY <1>3
<1> HIDE DEF to, from
<1>5. S \in SUBSET Int /\ IsFiniteSet(S) /\ T \in SUBSET Int /\ IsFiniteSet(T)
  <2>1. 0 \in Int /\ from \in Int /\ to \in Int
    BY <1>2, <1>4
  <2>2. IsFiniteSet(0 .. to) /\ IsFiniteSet(from .. to)
    BY <2>1, FS_Interval, Zenon
  <2>3. S \subseteq 0 .. to /\ T \subseteq from .. to
    BY DEF Candles
  <2> QED BY <2>1, <2>2, <2>3, FS_Subset
<1>6. Slice(Rows(q), q.limit) = NewestOf(T, Shown(q))
  <2>1. Rows(q) = NewestOf(T, KisRows)
    BY DEF Rows, to, from
  <2> HIDE DEF T
  <2> QED BY <1>2, <1>5, <2>1, NewestTwice DEF Slice, Shown
<1>7. NewestOf(T, Shown(q)) = NewestOf(S, Shown(q))
  <2>1. CASE from = 0
    BY <2>1
  <2>2. CASE Shown(q) <= Cardinality(T)
    <3>1. T \in SUBSET S /\ \A x \in T, y \in S : x <= y => y \in T
      BY <1>2, <1>4, <2>2 DEF Candles
    <3> HIDE DEF S, T
    <3> QED BY <1>2, <1>5, <2>2, <3>1, NewestAmong
  <2> QED BY <1>3, <2>1, <2>2
<1> QED BY <1>6, <1>7 DEF Fits, to

-----------------------------------------------------------------------------
(* Every step keeps the invariant *)

\* Nothing is cached at first, and nobody asks.
LEMMA InitSound == Init => IInv
<1> SUFFICES ASSUME Init PROVE IInv
  OBVIOUS
<1>1. Typed
  BY CandlesAssumption DEF Init, Typed, Labels, Time
<1>2. InHand
  BY DEF Init, InHand, Answered
<1>3. EntriesGood
  BY DEF Init, EntriesGood, Keys
<1> QED BY <1>1, <1>2, <1>3 DEF IInv

\* What holds of the cache goes on to hold when neither it nor the time changes.
LEMMA CacheStays ==
  ASSUME EntriesGood, UNCHANGED <<now, cache>>
  PROVE  EntriesGood'
BY DEF EntriesGood, GoodEntry

\* The other requests go on with what they have in hand.
LEMMA OneRequest ==
  ASSUME Typed, InHand, NEW r \in Request,
         now' = now, UNCHANGED <<keyed, cache>>,
         DOMAIN by' = Request, DOMAIN query' = Request, DOMAIN got' = Request,
         pc' \in [Request -> Labels],
         \A s \in Request \ {r} : /\ pc'[s] = pc[s] /\ by'[s] = by[s]
                                  /\ query'[s] = query[s] /\ got'[s] = got[s],
         query'[r] \in Query /\ by'[r] \in User,
         pc'[r] \in {"cache", "token", "fetch", "store"} => query'[r] \in Charted,
         pc'[r] = "store" => /\ Fits(got'[r], query'[r])
                             /\ got'[r].at <= now /\ now <= got'[r].at + Delay,
         pc'[r] = "done" /\ got'[r] # None => query'[r] \in Charted /\ Fits(got'[r], query'[r])
  PROVE  Typed' /\ InHand'
<1>1. Typed'
  BY DEF Typed
<1>2. ASSUME NEW s \in Request, s # r
      PROVE  /\ pc'[s] # "idle" => query'[s] \in Query /\ by'[s] \in User
             /\ pc'[s] \in {"cache", "token", "fetch", "store"} => query'[s] \in Charted
             /\ pc'[s] = "store" => /\ Fits(got'[s], query'[s])
                                    /\ got'[s].at <= now' /\ now' <= got'[s].at + Delay
             /\ Answered(s)' => query'[s] \in Charted /\ Fits(got'[s], query'[s])
  <2>1. pc'[s] = pc[s] /\ by'[s] = by[s] /\ query'[s] = query[s] /\ got'[s] = got[s]
    BY <1>2
  <2>2. Answered(s)' = Answered(s)
    BY <2>1 DEF Answered
  <2> QED BY <2>1, <2>2 DEF InHand
<1>3. Answered(r)' => query'[r] \in Charted /\ Fits(got'[r], query'[r])
  BY DEF Answered
<1> QED BY <1>1, <1>2, <1>3 DEF InHand

\* A new request has nothing in hand.
LEMMA SubmitKeeps ==
  ASSUME IInv, NEW r \in Request, NEW u \in User, NEW q \in Query, Submit(r, u, q)
  PROVE  IInv'
<1> USE DEF IInv
<1>1. /\ UNCHANGED <<now, keyed, cache>>
      /\ pc' = [pc EXCEPT ![r] = "stock"] /\ by' = [by EXCEPT ![r] = u]
      /\ query' = [query EXCEPT ![r] = q] /\ got' = [got EXCEPT ![r] = None]
  BY DEF Submit, Goto
<1>2. EntriesGood'
  BY <1>1, CacheStays
<1>3. /\ DOMAIN by' = Request /\ DOMAIN query' = Request /\ DOMAIN got' = Request
      /\ pc' \in [Request -> Labels]
      /\ pc'[r] = "stock" /\ by'[r] = u /\ query'[r] = q
      /\ \A s \in Request \ {r} : /\ pc'[s] = pc[s] /\ by'[s] = by[s]
                                  /\ query'[s] = query[s] /\ got'[s] = got[s]
  BY <1>1 DEF Typed, Labels
<1>4. Typed' /\ InHand'
  BY <1>1, <1>3, OneRequest
<1> QED BY <1>2, <1>4

\* A request is at a new label, or fails, or is answered with a chart that fits.
LEMMA MoveKeeps ==
  ASSUME IInv, NEW r \in Request, pc[r] # "idle", UNCHANGED <<now, keyed, cache, by, query>>,
         NEW l \in Labels, Goto(r, l),
         NEW chart, got' = [got EXCEPT ![r] = chart] \/ (got' = got /\ chart = got[r]),
         l \in {"cache", "token", "fetch", "store"} => query[r] \in Charted,
         l = "store" => /\ Fits(chart, query[r])
                        /\ chart.at <= now /\ now <= chart.at + Delay,
         l = "done" /\ chart # None => query[r] \in Charted /\ Fits(chart, query[r])
  PROVE  IInv'
<1> USE DEF IInv
<1>1. EntriesGood'
  BY CacheStays
<1>2. /\ DOMAIN by' = Request /\ DOMAIN query' = Request /\ DOMAIN got' = Request
      /\ pc' \in [Request -> Labels]
      /\ pc'[r] = l /\ by'[r] = by[r] /\ query'[r] = query[r] /\ got'[r] = chart
      /\ \A s \in Request \ {r} : /\ pc'[s] = pc[s] /\ by'[s] = by[s]
                                  /\ query'[s] = query[s] /\ got'[s] = got[s]
  BY DEF Typed, Labels, Goto
<1>3. query[r] \in Query /\ by[r] \in User
  BY DEF InHand
<1>4. Typed' /\ InHand'
  BY <1>2, <1>3, OneRequest
<1> QED BY <1>1, <1>4

\* A request is refused or goes on, with nothing in hand.
LEMMA GoKeeps ==
  ASSUME IInv, NEW r \in Request, pc[r] # "idle", UNCHANGED <<now, keyed, cache, by, query>>,
         \/ Throw(r)
         \/ \E l \in {"key", "cache", "token", "fetch"} :
              Goto(r, l) /\ UNCHANGED got /\ (l # "key" => query[r] \in Charted)
         \/ Answer(r, None)
  PROVE  IInv'
<1>1. CASE Throw(r)
  BY <1>1, MoveKeeps DEF Throw, Labels
<1>2. ASSUME NEW l \in {"key", "cache", "token", "fetch"}, Goto(r, l), UNCHANGED got,
             l # "key" => query[r] \in Charted
      PROVE  IInv'
  BY <1>2, MoveKeeps DEF Labels
<1>3. CASE Answer(r, None)
  BY <1>3, MoveKeeps DEF Answer, Labels
<1> QED BY <1>1, <1>2, <1>3

\* The steps before KIS is asked, but a hit of the cache.
LEMMA EarlyKeeps ==
  ASSUME IInv, NEW r \in Request, FindStock(r) \/ FindKey(r) \/ GetToken(r)
  PROVE  IInv'
<1>1. pc[r] # "idle" /\ UNCHANGED <<now, keyed, cache, by, query>>
  BY DEF FindStock, FindKey, GetToken
<1>2. CASE FindStock(r)
  BY <1>1, <1>2, GoKeeps DEF FindStock
<1>3. CASE FindKey(r)
  BY <1>1, <1>3, GoKeeps DEF FindKey
<1>4. CASE GetToken(r)
  <2>1. query[r] \in Charted
    BY <1>4 DEF GetToken, IInv, InHand
  <2> QED BY <1>1, <1>4, <2>1, GoKeeps DEF GetToken
<1> QED BY <1>2, <1>3, <1>4

\* A chart that is found was asked for by the same query.
LEMMA ReadCacheKeeps ==
  ASSUME IInv, NEW r \in Request, ReadCache(r)
  PROVE  IInv'
<1> DEFINE hit == cache[CacheKey(query[r])]
<1>1. /\ pc[r] = "cache" /\ UNCHANGED <<now, keyed, cache, by, query>>
      /\ (hit # None /\ Answer(r, hit.chart)) \/ (Goto(r, "token") /\ UNCHANGED got)
  BY DEF ReadCache
<1>2. query[r] \in Charted
  BY <1>1 DEF IInv, InHand
<1>3. CASE hit # None /\ Answer(r, hit.chart)
  <2>1. Fits(hit.chart, query[r])
    BY <1>2, <1>3 DEF IInv, EntriesGood, GoodEntry
  <2> HIDE DEF hit
  <2> QED BY <1>1, <1>2, <1>3, <2>1, MoveKeeps DEF Answer, Labels
<1>4. CASE Goto(r, "token") /\ UNCHANGED got
  BY <1>1, <1>2, <1>4, GoKeeps
<1> QED BY <1>1, <1>3, <1>4

\* What KIS tells fits, and is new.
LEMMA FetchKeeps ==
  ASSUME IInv, NEW r \in Request, Fetch(r)
  PROVE  IInv'
<1> DEFINE q == query[r]
           chart == [stock |-> q.stock, interval |-> q.interval,
                     candles |-> Slice(Rows(q), q.limit), at |-> now]
<1>1. /\ pc[r] = "fetch" /\ UNCHANGED <<now, keyed, cache, by, query>>
      /\ Throw(r) \/ (got' = [got EXCEPT ![r] = chart] /\ Goto(r, "store"))
  BY DEF Fetch
<1>2. q \in Charted /\ now \in Time
  BY <1>1 DEF IInv, InHand, Typed
<1>3. Fits(chart, q)
  BY <1>2, RowsFit
<1>4. chart.at <= now /\ now <= chart.at + Delay
  BY <1>2, Numbers
<1> HIDE DEF chart
<1>5. CASE Throw(r)
  BY <1>1, <1>5, GoKeeps
<1>6. CASE got' = [got EXCEPT ![r] = chart] /\ Goto(r, "store")
  BY <1>1, <1>2, <1>3, <1>4, <1>6, MoveKeeps DEF Labels
<1> QED BY <1>1, <1>5, <1>6

\* The chart in hand is cached for its life, or is not.
LEMMA StoreKeeps ==
  ASSUME IInv, NEW r \in Request, Store(r)
  PROVE  IInv'
<1> USE DEF IInv
<1> DEFINE q == query[r]
           entry == [chart |-> got[r], until |-> Expiry(q)]
<1>1. /\ pc[r] = "store" /\ UNCHANGED <<now, keyed, by, query>>
      /\ cache' = [cache EXCEPT ![CacheKey(q)] = entry] \/ UNCHANGED cache
      /\ pc' = [pc EXCEPT ![r] = "done"] /\ got' = [got EXCEPT ![r] = got[r]]
  BY DEF Store, Answer, Goto
<1>2. /\ q \in Charted /\ q \in Query /\ by[r] \in User
      /\ Fits(got[r], q) /\ got[r].at <= now /\ now <= got[r].at + Delay
  BY <1>1 DEF InHand
<1>3. \A s \in Request : got'[s] = got[s] /\ by'[s] = by[s] /\ query'[s] = query[s]
  BY <1>1 DEF Typed
<1>4. \A s \in Request : s # r => pc'[s] = pc[s]
  BY <1>1 DEF Typed
<1>5. Typed'
  BY <1>1 DEF Typed, Labels
<1>6. InHand'
  <2>1. ASSUME NEW s \in Request, s # r PROVE Answered(s)' = Answered(s)
    BY <1>3, <1>4, <2>1 DEF Answered
  <2>2. pc'[r] = "done"
    BY <1>1 DEF Typed
  <2> QED BY <1>1, <1>2, <1>3, <1>4, <2>1, <2>2 DEF InHand
<1>7. GoodEntry(entry, q)
  <2>1. /\ now \in Nat /\ got[r].at \in Nat /\ Delay \in Nat
        /\ Life[q.interval] \in Nat \ {0}
    BY <1>2, Numbers DEF Typed, Fits
  <2>2. entry.until = now + Life[q.interval] /\ entry.chart = got[r]
    BY DEF Expiry
  <2> HIDE DEF entry, q
  <2> QED BY <1>2, <2>1, <2>2 DEF GoodEntry
<1>8. EntriesGood'
  <2> SUFFICES ASSUME NEW k \in Charted, cache'[CacheKey(k)] # None
               PROVE  GoodEntry(cache'[CacheKey(k)], k)
    BY <1>1 DEF EntriesGood, GoodEntry
  <2>1. CacheKey(k) \in DOMAIN cache
    BY DEF Typed, Keys
  <2>2. CASE cache'[CacheKey(k)] = cache[CacheKey(k)]
    BY <2>2 DEF EntriesGood
  <2>3. CASE CacheKey(k) = CacheKey(q) /\ cache'[CacheKey(k)] = entry
    BY <1>2, <1>7, <2>3, KeyTells
  <2> HIDE DEF entry, q
  <2> QED BY <1>1, <2>1, <2>2, <2>3
<1> QED BY <1>5, <1>6, <1>8

\* Keys come and go.
LEMMA ChangeKeyKeeps ==
  ASSUME IInv, NEW u \in User, ChangeKey(u)
  PROVE  IInv'
<1> USE DEF IInv
<1>1. keyed' \subseteq User /\ UNCHANGED <<now, cache, pc, by, query, got>>
  BY DEF ChangeKey, Typed
<1>2. Typed' /\ InHand' /\ EntriesGood'
  BY <1>1, CacheStays DEF Typed, InHand, Answered
<1> QED BY <1>2

\* What expires is dropped; no request waits with a chart for longer than Delay.
LEMMA TickKeeps ==
  ASSUME IInv, Tick
  PROVE  IInv'
<1> USE DEF IInv
<1>1. /\ UNCHANGED <<keyed, pc, by, query, got>> /\ now' = now + 1 /\ now' \in Time
      /\ \A r \in Request : pc[r] = "store" => now < got[r].at + Delay
      /\ cache' = [k \in Keys |-> IF cache[k] # None /\ cache[k].until <= now + 1
                                  THEN None ELSE cache[k]]
  BY DEF Tick
<1>2. now \in Nat /\ Delay \in Nat
  BY Numbers DEF Typed
<1>3. Typed'
  BY <1>1 DEF Typed
<1>4. ASSUME NEW r \in Request, pc[r] = "store"
      PROVE  got[r].at <= now' /\ now' <= got[r].at + Delay
  <2>1. got[r].at \in Nat /\ got[r].at <= now /\ now < got[r].at + Delay
    BY <1>1, <1>4, Numbers DEF InHand, Fits
  <2> QED BY <1>1, <1>2, <2>1
<1>5. InHand'
  BY <1>1, <1>4 DEF InHand, Answered
<1>6. EntriesGood'
  <2> SUFFICES ASSUME NEW q \in Charted, cache'[CacheKey(q)] # None
               PROVE  GoodEntry(cache[CacheKey(q)], q)'
    BY DEF EntriesGood
  <2> DEFINE entry == cache[CacheKey(q)]
  <2>1. entry # None /\ ~(entry.until <= now + 1) /\ cache'[CacheKey(q)] = entry
    BY <1>1 DEF Keys
  <2>2. /\ Fits(entry.chart, q) /\ entry.chart.at \in Nat
        /\ entry.chart.at <= now /\ entry.until \in Int
        /\ entry.until <= entry.chart.at + Delay + Life[q.interval]
    BY <2>1, Numbers DEF EntriesGood, GoodEntry, Fits
  <2>3. entry.chart.at <= now + 1 /\ now + 1 < entry.until
    BY <1>2, <2>1, <2>2
  <2> QED BY <1>1, <2>1, <2>2, <2>3 DEF GoodEntry
<1> QED BY <1>3, <1>5, <1>6

-----------------------------------------------------------------------------
(* The theorems *)

\* The invariant holds in every reachable state.
THEOREM Invariance == Spec => []IInv
<1>1. IInv /\ [Next]_vars => IInv'
  <2> SUFFICES ASSUME IInv, [Next]_vars PROVE IInv'
    OBVIOUS
  <2>1. ASSUME NEW r \in Request, Step(r) PROVE IInv'
    BY <2>1, EarlyKeeps, ReadCacheKeeps, FetchKeeps, StoreKeeps DEF Step
  <2>2. CASE UNCHANGED vars
    BY <2>2 DEF vars, IInv, Typed, InHand, Answered, EntriesGood, GoodEntry
  <2> QED BY <2>1, <2>2, SubmitKeeps, ChangeKeyKeeps, TickKeeps DEF Next
<1> QED BY <1>1, InitSound, PTL DEF Spec

\* The state is always of its type, no cached chart has expired, and only a market
\* with charts gets as far as the cache.
THEOREM TypeCorrect == Spec => []TypeOK
<1>1. IInv => TypeOK
  <2> SUFFICES ASSUME IInv PROVE TypeOK
    OBVIOUS
  <2>1. ASSUME NEW k \in Keys, cache[k] # None
        PROVE  cache[k].chart.at <= now /\ now < cache[k].until
    BY <2>1 DEF IInv, EntriesGood, GoodEntry, Keys
  <2>2. \A r \in Request : pc[r] = "store" => got[r].at \in Time
    BY DEF IInv, InHand, Fits
  <2> QED BY <2>1, <2>2 DEF IInv, Typed, InHand, TypeOK, Labels
<1> QED BY <1>1, Invariance, PTL

\* An answer shows the newest candles of the stock and the interval asked for, as
\* many as the limit allows, that there were at the moment the server's clock
\* named, whoever's request has filled the cache.
THEOREM AnswersFit == Spec => []AnswerFits
<1>1. IInv => AnswerFits
  BY DEF IInv, InHand, Fits, AnswerFits
<1> QED BY <1>1, Invariance, PTL

\* On a server whose clock is behind no exchange's, they are the newest there were
\* when KIS was asked.
THEOREM AnswersNewest ==
  ASSUME \A m \in {"KR", "US"} : Behind[m] <= 0
  PROVE  Spec => []AnswerNewest
<1>1. IInv => AnswerNewest
  <2> SUFFICES ASSUME IInv, NEW r \in Request, Answered(r)
               PROVE  got[r].candles =
                        NewestOf(Candles(query[r].interval, 0, got[r].at \div Span[query[r].interval]),
                                 Shown(query[r]))
    BY DEF AnswerNewest
  <2> DEFINE q == query[r]  t == got[r].at
  <2>1. Fits(got[r], q)
    BY DEF IInv, InHand
  <2>2. q \in Charted
    BY DEF IInv, InHand, Answered
  <2>3. Named(q, t) = t
    <3>1. Listing[q.stock].market \in {"KR", "US"} /\ Behind[Listing[q.stock].market] \in Int
      BY <2>2, CandlesAssumption DEF Charted
    <3>2. Behind[Listing[q.stock].market] <= 0 /\ t \in Nat
      BY <2>1, <3>1, Numbers DEF Fits
    <3> QED BY <3>1, <3>2 DEF Named
  <2> QED BY <2>1, <2>3 DEF Fits, Until
<1> QED BY <1>1, Invariance, PTL

\* No cached chart is older than its life and the longest way from KIS to the cache.
THEOREM ChartsFresh == Spec => []ChartFresh
<1>1. IInv => ChartFresh
  <2> SUFFICES ASSUME IInv, NEW q \in Charted, cache[CacheKey(q)] # None
               PROVE  now < cache[CacheKey(q)].chart.at + Life[q.interval] + Delay
    BY DEF ChartFresh
  <2>1. GoodEntry(cache[CacheKey(q)], q) /\ now \in Nat
    BY Numbers DEF IInv, EntriesGood, Typed
  <2>2. q \in Query /\ Life[q.interval] \in Nat /\ Delay \in Nat
    BY Numbers DEF Charted
  <2>3. cache[CacheKey(q)].chart.at \in Nat
    BY <2>1, Numbers DEF GoodEntry, Fits
  <2> QED BY <2>1, <2>2, <2>3 DEF GoodEntry
<1> QED BY <1>1, Invariance, PTL
=============================================================================
