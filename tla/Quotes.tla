------------------------------- MODULE Quotes -------------------------------
(***************************************************************************)
(* Collecting and reading the current prices: the pollers and ingest       *)
(* services of src/src/modules/kis/ingest, the price clients of            *)
(* src/src/modules/kis/price, and QuoteService with its Redis cache        *)
(* (src/src/modules/quote).                                                *)
(*                                                                         *)
(* A behaviour has one market: domestic and overseas stocks, and indices,  *)
(* are collected by pollers of their own, which differ in what they do     *)
(* with a failed request.  A poller starts a pass at every tick of its     *)
(* cron job, whether or not the previous one is over.  A tick and a cached *)
(* quote are known by the time they were captured at.                      *)
(***************************************************************************)
EXTENDS Integers, FiniteSets

CONSTANTS
  User, Stock,
  Wanted,    \* the stocks of a user's watchlist and positions
  Tracked,   \* the indices: TRACKED_INDICES
  Chunk,     \* the stocks that one request to KIS asks for
  Pass,      \* passes of the poller, by the time their cron job starts them
  Reads,     \* users and stocks that are read
  TTL, Ago,  \* life of a cached quote; how far back a change is measured
  Delay,     \* longest time from a capture to its caching
  Close,     \* the market is open from 0 to Close
  MaxTime    \* bound of the model

Never == -1

ASSUME QuotesAssumption ==
  /\ Wanted \in [User -> SUBSET Stock]
  /\ Tracked \subseteq Stock /\ Reads \subseteq User \X Stock
  /\ Chunk \subseteq SUBSET Stock /\ UNION Chunk = Stock
  /\ Pass \subseteq Nat
  /\ {TTL, Ago, Delay, Close, MaxTime} \subseteq Nat
  /\ TTL > 0 /\ TTL + Delay <= Ago

VARIABLES
  now, market,
  pc, todo,  \* of a pass; the users it has still to visit
  visit,     \* the user it visits, the time of the capture and the stocks answered
  ticks,     \* table ticks
  cache,     \* Redis: capture and expiry of the latest quote
  blank,     \* what KIS left out of its domestic answers: a record no code reads
  reader     \* a read between its queries

vars == <<now, market, pc, todo, visit, ticks, cache, blank, reader>>

Markets == {"domestic", "overseas", "index"}
Time == 0..MaxTime
NoQuote == [at |-> Never, until |-> Never]
NoVisit == [at |-> Never]
Idle == [stage |-> "idle"]

\* isMarketOpen of the pollers and of QuoteService.
Open == now <= Close

\* The stocks to ask for: every user's pass collects all the indices.
Asked(u) == IF market = "index" THEN Tracked ELSE Wanted[u]

Running(p) == pc[p] \notin {"idle", "done", "died"}
Visiting(p) == pc[p] \in {"fetch", "store", "cache"}

TypeOK ==
  /\ now \in Time /\ market \in Markets
  /\ pc \in [Pass -> {"idle", "next", "fetch", "store", "cache", "done", "died"}]
  /\ todo \in [Pass -> SUBSET User]
  /\ \A p \in Pass : visit[p].at \in Time \cup {Never}
  /\ \A p \in Pass : Visiting(p) =>
       visit[p].user \in User \ todo[p] /\ visit[p].got \subseteq Asked(visit[p].user)
  /\ ticks \cup blank \subseteq [user : User, stock : Stock, at : Time]
  /\ cache \in [User \X Stock -> [at : Time \cup {Never}, until : Int]]
  /\ reader.stage \in {"idle", "latest", "past"}
  /\ reader # Idle => <<reader.user, reader.stock>> \in User \X Stock

Init ==
  /\ now = 0 /\ market \in Markets
  /\ pc = [p \in Pass |-> "idle"]
  /\ todo = [p \in Pass |-> {}]
  /\ visit = [p \in Pass |-> NoVisit]
  /\ ticks = {} /\ blank = {}
  /\ cache = [x \in User \X Stock |-> NoQuote]
  /\ reader = Idle

-----------------------------------------------------------------------------
(* A pass of a poller: the users with a key, one after the other. *)

Start(p) ==
  /\ pc[p] = "idle" /\ p = now
  /\ market = "index" \/ Open
  /\ \E users \in SUBSET User : todo' = [todo EXCEPT ![p] = users]
  /\ pc' = [pc EXCEPT ![p] = "next"]
  /\ UNCHANGED <<now, market, visit, ticks, cache, blank, reader>>

\* Indices are stamped before they are asked for.
Visit(p, u) ==
  /\ pc[p] = "next" /\ u \in todo[p]
  /\ todo' = [todo EXCEPT ![p] = @ \ {u}]
  /\ IF Asked(u) = {} THEN UNCHANGED <<pc, visit>>
     ELSE /\ pc' = [pc EXCEPT ![p] = "fetch"]
          /\ visit' = [visit EXCEPT ![p] =
               [user |-> u, got |-> {}, at |-> IF market = "index" THEN now ELSE Never]]
  /\ UNCHANGED <<now, market, ticks, cache, blank, reader>>

Finish(p) ==
  /\ pc[p] = "next" /\ todo[p] = {}
  /\ pc' = [pc EXCEPT ![p] = "done"]
  /\ UNCHANGED <<now, market, todo, visit, ticks, cache, blank, reader>>

EndVisit(p, next) ==
  /\ pc' = [pc EXCEPT ![p] = next]
  /\ visit' = [visit EXCEPT ![p] = NoVisit]

\* Mutant of VisitFails: nothing catches the error.
PassFails(p) == EndVisit(p, "done")
\* The poller catches it and goes on with the next user.
VisitFails(p) == EndVisit(p, "next")

\* Of overseas stocks and of indices a request that fails is skipped.
Skipping(u, failed) == Asked(u) \ UNION failed

\* Mutant of Answered: domestic requests are skipped one by one, too.
AnsweredChunks(u, failed) == Skipping(u, failed)
\* What the client returns when the requests in failed fail: a domestic one
\* fails them all.
Answered(u, failed) ==
  IF market = "domestic" /\ \E c \in failed : c \cap Asked(u) # {}
  THEN {} ELSE Skipping(u, failed)

\* No two passes capture a user's quotes in the same instant.
Distinct(p, u, t) ==
  /\ \A q \in Pass \ {p} : Visiting(q) /\ visit[q].user = u => visit[q].at # t
  /\ \A x \in ticks : x.user = u => x.at # t

RowsOf(u, stocks, t) == {[user |-> u, stock |-> s, at |-> t] : s \in stocks}

\* An answer for several stocks may have blank slots, and codes nobody asked
\* for, instead of those in empty: they are skipped, and what is left, if
\* anything, goes on.  An index has a request of its own.
Fetch(p, failed, empty) ==
  LET u == visit[p].user
      t == IF market = "index" THEN visit[p].at ELSE now
      stocks == Answered(u, failed)
  IN
  /\ pc[p] = "fetch"
  /\ empty \subseteq stocks /\ (market = "index" => empty = {})
  /\ \/ stocks = {} /\ VisitFails(p) /\ UNCHANGED blank
     \/ /\ stocks # {} /\ Distinct(p, u, t)
        /\ pc' = [pc EXCEPT ![p] = "store"]
        /\ visit' = [visit EXCEPT ![p] = [user |-> u, got |-> stocks \ empty, at |-> t]]
        /\ blank' = IF market = "domestic" THEN blank \cup RowsOf(u, empty, t) ELSE blank
  /\ UNCHANGED <<now, market, todo, ticks, cache, reader>>

Captured(p) == RowsOf(visit[p].user, visit[p].got, visit[p].at)

\* Mutant of Store: the quotes are cached even if they could not be stored.
StoreOrCache(p) ==
  /\ pc[p] = "store"
  /\ ticks' \in {ticks \cup Captured(p), ticks}
  /\ pc' = [pc EXCEPT ![p] = "cache"]
  /\ UNCHANGED <<now, market, todo, visit, cache, blank, reader>>

Store(p) ==
  /\ pc[p] = "store"
  /\ \/ /\ ticks' = ticks \cup Captured(p)
        /\ pc' = [pc EXCEPT ![p] = "cache"]
        /\ UNCHANGED visit
     \/ UNCHANGED ticks /\ VisitFails(p)
  /\ UNCHANGED <<now, market, todo, cache, blank, reader>>

\* Mutant of Expiry: the keys have no expiry.
NoExpiry == MaxTime + 1
Expiry == now + TTL

\* The writes of the pipeline that reached Redis; its error is swallowed.
Cache(p) ==
  /\ pc[p] = "cache"
  /\ \E kept \in SUBSET visit[p].got :
       cache' = [x \in User \X Stock |->
                   IF x[1] = visit[p].user /\ x[2] \in kept
                   THEN [at |-> visit[p].at, until |-> Expiry] ELSE cache[x]]
  /\ EndVisit(p, "next")
  /\ UNCHANGED <<now, market, todo, ticks, blank, reader>>

-----------------------------------------------------------------------------
(* getQuotesWithChangeRate *)

Alive(u, s) == cache[<<u, s>>].at # Never

\* Redis misses what expired; an error of Redis is a miss.
ReadCache(u, s) ==
  /\ reader = Idle
  /\ \E hit \in {Never, cache[<<u, s>>].at} :
       reader' = [stage |-> IF hit = Never THEN "latest" ELSE "past",
                  user |-> u, stock |-> s, price |-> hit]
  /\ UNCHANGED <<now, market, pc, todo, visit, ticks, cache, blank>>

\* The newest tick captured until t, or Never.
TickAt(u, s, t) ==
  LET old == {x.at : x \in {y \in ticks : y.user = u /\ y.stock = s /\ y.at <= t}}
  IN  IF old = {} THEN Never ELSE CHOOSE a \in old : \A b \in old : b <= a

\* A miss comes from the table.
ReadLatest ==
  /\ reader.stage = "latest"
  /\ reader' = [reader EXCEPT !.stage = "past",
                              !.price = TickAt(reader.user, reader.stock, now)]
  /\ UNCHANGED <<now, market, pc, todo, visit, ticks, cache, blank>>

\* A change is told while the market is open.
Past == IF Open THEN TickAt(reader.user, reader.stock, now - Ago) ELSE Never

\* Returns the price and Past.
ReadPast ==
  /\ reader.stage = "past"
  /\ reader' = Idle
  /\ UNCHANGED <<now, market, pc, todo, visit, ticks, cache, blank>>

-----------------------------------------------------------------------------
\* Time passes, but not beyond Delay; a read takes less than a unit.  Redis
\* drops the keys that expire.
Tick ==
  /\ now < MaxTime
  /\ \A p \in Pass : visit[p].at # Never => now < visit[p].at + Delay
  /\ reader = Idle
  /\ now' = now + 1
  /\ cache' = [x \in User \X Stock |-> IF cache[x].until <= now + 1 THEN NoQuote ELSE cache[x]]
  /\ UNCHANGED <<market, pc, todo, visit, ticks, blank, reader>>

\* The process restarts; database and Redis stay.
Restart ==
  /\ pc' = [p \in Pass |-> IF Running(p) THEN "died" ELSE pc[p]]
  /\ pc' # pc
  /\ visit' = [p \in Pass |-> NoVisit]
  /\ reader' = Idle
  /\ UNCHANGED <<now, market, todo, ticks, cache, blank>>

PassStep(p) ==
  \/ \E u \in User : Visit(p, u)
  \/ \E failed \in SUBSET Chunk, empty \in SUBSET Stock : Fetch(p, failed, empty)
  \/ Store(p) \/ Cache(p) \/ Finish(p)

Next ==
  \/ \E p \in Pass : Start(p) \/ PassStep(p)
  \/ \E x \in Reads : ReadCache(x[1], x[2])
  \/ ReadLatest \/ ReadPast \/ Tick \/ Restart

Spec == Init /\ [][Next]_vars

\* KIS, the database and Redis answer.
FairSpec == Spec /\ \A p \in Pass : WF_vars(PassStep(p))

-----------------------------------------------------------------------------
\* What the cache tells was stored: a quote is cached after its tick.
CacheBackedByTick ==
  \A u \in User, s \in Stock :
    Alive(u, s) => [user |-> u, stock |-> s, at |-> cache[<<u, s>>].at] \in ticks

\* A quote served from the cache is at most TTL + Delay old, even when passes
\* overlap and an older quote overwrites a newer one.
CacheFresh ==
  \A u \in User, s \in Stock : Alive(u, s) => now <= cache[<<u, s>>].at + TTL + Delay

\* A change of price is measured from an older tick to a newer one: the price
\* comes from the cache or from one query, the past from a later query, and
\* passes store ticks between the two.
ChangeForward ==
  reader.stage = "past" /\ reader.price # Never => Past <= reader.price

\* A domestic capture lacks a stock only if KIS left it out of its answer: a
\* request that fails never leaves a part of a capture.
DomesticWhole ==
  market = "domestic" =>
    \A t \in ticks : \A s \in Wanted[t.user] : [t EXCEPT !.stock = s] \in ticks \cup blank

\* A pass visits every user and ends, whoever's visit fails, unless the process
\* restarts.
PassCompletes ==
  \A p \in Pass : pc[p] = "next" ~> pc[p] = "died" \/ (pc[p] = "done" /\ todo[p] = {})
=============================================================================
