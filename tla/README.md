# A formal model of the Secretly-Greatly backend

TLA+ modules, TLC runs and TLAPS proofs about the back end in `src/`: a NestJS
service (one Node process) over PostgreSQL (through Prisma), Redis, the
brokerage API KIS and socket.io. The repository has no tests; the model covers
what a unit test would hardly reach anyway: requests interleaving between two
`await`s, transactions racing in the database, restarts, lost answers.

Paths below are relative to `src/src/modules/` unless they begin with `src/`.

## 1. Inventory

| Component | State | Operations | Interacts with |
|---|---|---|---|
| KIS access tokens, `kis/kisAuth` | Redis `kis:token:<user>` with a TTL; in-memory map `inflight` | `getAccessToken`, `issueToken` (`invalidateToken` is never called) | read by every KIS client, the pollers and key registration; reads the key columns of `users` |
| KIS key registration, `kis/kisCredential` | columns `kis_app_key_enc`, `kis_app_secret_enc` of `users` | `register`, `getStatus` | writes the columns, calls `getAccessToken` to validate |
| Chat gateway, `chat/chat.gateway.ts` | in-memory `messageHistory`, `bannedUsers`; socket.io rooms | `handleConnection`, `handleJoinRoom`, `handleSendMessage` | calls `ChatService.sendMessage`, broadcasts |
| Chat service, `chat/chat.service.ts` | `chat_rooms`, `chat_messages`, `chat_reports` | `sendMessage`, `reportChat`, two listings | Prisma |
| Watchlist, `stocks/stocks.service.ts` | `watchlists` | add, remove, list, stock and candle queries | Prisma, quotes |
| Positions, `positions` | `positions` | create (several in one transaction), list, update, delete | Prisma |
| Simulation and status bar, `simulation` | `position_simulations` | averaging-down computation, market summary | positions, quotes |
| Accounts and passwords, `auth` | `users` | sign-up, visitor session, login, temporary password by mail, change; JWT verification is stateless | Prisma, SMTP |
| Pollers and ingest, `kis/ingest` | `ticks` | a cron job per market over all users with a key | KIS price clients, Redis quotes |
| Rollups and partitions, `kis/ingest/maintenance.service.ts` and the SQL functions of the migrations | partitioned `ticks`, `minute_bars`, `daily_bars` | rollup of minutes and of days, partition creation, retention | the tables of the pollers |
| Quote cache, `quote` | Redis quotes with a TTL | written by the ingest, read with fallback to ticks | pollers, watchlist, positions |
| Candle charts, `kis/price/kisChartPrice.service.ts` and `StocksService.getCandles` | Redis charts with a TTL per interval | chart of a stock | KIS tokens and keys |
| Alerts and stream, `stream` | `alert_logs`, socket.io rooms | a cron run per minute over all users, the stream gateway | minute bars, watchlist, positions |
| News, `news` | none | proxy of an HTTP API | - |
| Common, `src/src/common` | none | Prisma client with `withUser`, encryption, exception filter | all |

Components share state only through PostgreSQL, Redis and the in-memory maps;
there is one process, so synchronous code is never interrupted and everything
else may be.

What is hard, and what makes each component correct:

* **Tokens.** Many callers find the cache empty at once; an issuance fails at
  any await; the entry's TTL and the token's life start at different moments;
  the process restarts. Correct: one issuance per user, none while a token is
  cached, no entry of `inflight` left behind, every waiting caller answered,
  every token served is still alive.
* **Key registration.** The key is committed before it is validated, the
  validation goes through the shared token cache, and the rollback is
  unconditional; nothing makes a client wait. Correct: unless registrations of
  a user overlap, the user is answered 201 once, and the key stays.
* **Chat reports.** Racing transactions increment one counter and decide on
  blinding; double clicks and lost acknowledgements repeat reports; they wait
  for each other's unique keys and row locks. Correct: reports are atomic, a
  message is blinded exactly at the threshold, nobody waits for ever.
* **Chat limiter.** Pruning, bans and expiries over a long sequence of messages
  from several sockets. Correct: never more than the limit in any window, every
  ban served in full.
* **Watchlist.** Three or four queries without a transaction. Correct: no stock
  twice, rows removed only by their owner, at most 20 rows, exact totals.
* **Positions.** One transaction inserts several unique keys while others insert
  theirs, in an order that JavaScript gives to the properties of an object; updates
  compute three columns from a row read a query earlier; deletions cascade to
  simulations, which find stock and position by a code that exchanges may share.
  Correct: all or nothing, no circle of waits as long as ids are numbers, columns
  that agree, no dangling link.
* **Accounts and passwords.** Two checks before the hashing and a unique index
  after it; a temporary password is stored, mailed, and taken back when the mail
  fails. Correct: identities are unique, and the owner always knows the password
  unless the process died in between.
* **Pollers and quotes.** Passes overlap, requests to KIS fail in part and answers
  have blank slots, tables and Redis fail apart, a reader asks Redis and the table
  one after the other, a pass over many users must survive the failure of one.
  Correct: the cache shows only what was stored, not older than its life and the
  way to it; changes are measured forward in time.
* **Rollups.** Jobs run once or never, ticks come late, an exchange's trading day
  is not the Korean day of its partition, and the session's time zone may be
  another. Correct: bars are functions of the ticks, every tick finds its
  partition, retention spares what it should.
* **Charts.** One cache for all users; a range of days must hold enough candles
  in spite of closed days; it ends where the server's clock, in the server's time
  zone, says; KIS truncates. Correct: the chart is of the stock asked for, complete
  up to the limit and to the moment named, and fresh.
* **Alerts.** Overlapping cron runs, baselines read while bars are written, a
  failing user ends a run. Correct: spaced unless runs overlap, justified by the
  bars, and none forgotten.

`PROJECT.json` lists the hazards at their lines, with the property that covers
each or the reason why none does.

## 2. Modules

Conventions: an action ends where the code awaits, so that requests interleave
exactly where the event loop (or another connection of the database) lets them.
A query outside a transaction is one atomic step. The reply of Redis and the
synchronous code after it are one step: there is one connection and its replies
arrive in order. "The database fails" and "the process exits" are actions where
the code can meet them. `pc` says before which await a request is. Definitions
labelled *Mutant* stand before the definition they vary; they are deliberate
mistakes, no specification uses them, and each shows that a property below is
able to fail.

| Module | Models | Correspondence |
|---|---|---|
| `KisAuth` | `kisAuth.service.ts` | a `Call` is one invocation of `getAccessToken`; `cache` is the Redis entry with its expiry, `inflight` the map, `job[c]` the run of `issueToken` that `c` started, `pc`/`on`/`result` the caller's promise. `ServeCached`, `RedisGetFails`, `JoinInflight`, `StartIssue` are the branches up to the first await; `LookupKey`, `KisIssues`, `StoreToken` the awaits of `issueToken`, `LookupThrows`, `KisRejects`, `NetworkFails` their failures (a lost answer of Redis may come after its SET was executed); `Settle` the `finally` and the resolution of the shared promise. `KeyWritten`, `Tick`, `Restart` are the environment. |
| `KisCredential` | `kisCredential.service.ts` over `KisAuth` | `EXTENDS KisAuth`; registration `r` uses the Call `r`. `reg[r]` is where `register` is or its answer: `CheckExisting`/`RefuseDuplicate`, `SaveKey`, then `TokenStep`s of `KisAuth`, then `Accept`, or `Refuse` and `Rollback`. Nothing keeps a client from registering again meanwhile: `overlapped` is history, for the properties only, of the registrations that were past their check while another of their user was. `DatabaseFails` may lose the answer of a write that was committed. |
| `ReportBoard` | what the report feature promises | a report is one atomic step on (reports, count, hidden) |
| `ChatReports` | `ChatService.reportChat` at READ COMMITTED | the three tables' columns are the committed rows; `seen` and `blind` are what a transaction has written; locks follow from `pc` (`Inserted`: the unique key of `chat_reports`, `Locked`: the row of `chat_messages`). Commit publishes all three writes; its acknowledgement may be lost. `Abort` stands for failures, the 5 s transaction timeout and restarts. |
| `ChatGateway` | `handleSendMessage` and `ChatService.sendMessage` | the limiter (`RefuseBanned`, `BanSpammer`, `PassLimiter`) is synchronous, hence one step; then one step per query. `history[u]` holds messages whose `sentAt` are the times the code keeps. |
| `WatchShelf` | what the watchlist promises a user who waits for each answer | an addition is one step, decided by the shelf as it then is; a removal takes, then tells what is left |
| `Watchlist` | `addStockToWatchlist`, `removeStockFromWatchlist` | one step per query; a row is named by the addition that created it. `Serial` is the set of users whose client waits for each answer. |
| `Positions` | `PositionsService` and `SimulationService.calculateAndSaveSimulation` | `table` are the committed rows, `held[c]` what the transaction of creation `c` has inserted, `left[c]` the property keys its loop has still to visit. Items are grouped by the string that their `stockId` is as a key (`KeysOf`), visited in the order of `Object.entries` (`Current`: canonical integers first, ascending, then the others as in the body) and turned into ids by `Number` (`StockId`): "2" and "02" are two groups of one stock. A creation waits where another holds its key (`WaitsFor`). `seen` is the row an update has read, or the stock and the position a simulation has found, each by the code alone (`CodeOf`). Quantities, prices and totals are integers in the columns' units, with `Math.round` as `RoundDiv`. |
| `Accounts` | `AuthService`, `AuthPasswordsService` | `users` are the rows; a password is named by the request that introduced it. `SendMail` may fail after the mail was accepted; `Die` is a failing query or an exiting process. `Serial` are the addresses for which one reset is requested at a time. |
| `Quotes` | pollers, ingest services, what the price clients make of partial failures, `QuoteCacheService`, `getQuotesWithChangeRate` | a `Pass` is one run of a poller's cron job, known by the time the job starts it; `todo` the users its loop has still to visit, `visit` the capture in hand; `ticks` the table, `cache` the Redis keys. A tick or quote is known by its capture time. `market` is fixed in a behaviour: a behaviour is one poller's, and the three differ in `Asked`, `Answered` and the moment of the time stamp. `Fetch` skips blank slots and codes nobody asked for; `blank` is history, for `DomesticWhole` only, of what they hid. `Cache` may write a part of the pipeline. `reader` is a read at one of its three queries: Redis, the newest tick on a miss (`ReadLatest`), the tick a lookback ago (`ReadPast`). |
| `Sums` | sums over finite sets: `reduce` in the service, `sum` in SQL | `SumOver(f, S)` |
| `Bars` | the aggregation in `rollup_tick_to_minute` and `rollup_minute_to_daily` | `Summary` of ticks, `Merge` of bars |
| `DailyBoard` | what the pipeline promises | a daily bar summarises, in one stage, all ticks of some whole minutes of the day |
| `MarketRollup` | `MaintenanceService` and the four SQL functions | instants are fractions of a minute; `due` holds the jobs of the current minute, each runs or is missed; `TradeDay` uses the exchange's time zone, `KoreanDay` the partition's, `zone` that of the session in which `current_date` is evaluated. Pollers appear as `Capture` and `InsertTick` only. |
| `Candles` | `StocksService.getCandles`, `KisChartPriceService` | one step per await, from the stock's row to the write to Redis; a candle is the number of its interval. Time is the exchanges'; `Behind` is how far the server's local time is behind it, `Named` the moment that the date and the hour sent to KIS denote, `Until` its interval. |
| `Alerts` | `AlertSchedulerService`, `StreamService`, `StreamGateway` | a `Pass` is one run of the scheduler; `VisitStock`, `ReadWindows`, `CheckRecent`, `Create`, `Emit` are the awaits of a stock's check; `room` and `inbox` the sockets. `met` records which runs overlapped, for the properties only. |
| `MC...` | | instances for TLC |
| `KisCredential_proofs` | | theorems about `KisAuth` and `KisCredential` |
| `Chat_proofs` | | about `ChatReports` and `ChatGateway` |
| `Aggregation_proofs` | | about sums, `Positions`, and `MarketRollup` with `Bars` and `DailyBoard` |
| `Watchlist_proofs`, `Accounts_proofs`, `Quotes_proofs`, `Alerts_proofs`, `Candles_proofs` | | about the module they are named for |

A module of proofs that is about two components has the names of both at hand,
so one of the two carries its name in what would clash: `ReportInit`, `ReportNext`,
`ReportSpec`, `ReportTypeOK`; `RollupInit`, `RollupNext`, `RollupSpec`,
`RollupTypeOK`.

How they compose: `KisCredential` is built on `KisAuth`; `ChatReports`
implements `ReportBoard`, `MarketRollup` implements `DailyBoard` and `Watchlist`
implements `WatchShelf` (`INSTANCE`s, the committed rows or the tables being the abstract state). The
other components meet only through tables and are joined by assumption: the
ticks of `MarketRollup` arrive as `Quotes` stores them, the bars of `Alerts` as
`MarketRollup` writes them, tokens in `Candles` come or fail as in `KisAuth`.

## 3. Runs

| Run | Question | Result |
|---|---|---|
| `auth_safety` | Does the map of issuances name exactly the running ones, is no token issued while one is cached; is every served token alive, and reissued in time? | holds |
| `cred_races` | Two registrations of a user that may overlap, and a poller that asks for the same user's token: is 201 answered twice only after an overlap, does an accepted key stay unless there was one, is everyone answered? | holds |
| `reports_races` | Do racing reports blind at the threshold and get consistent answers, implement `ReportBoard`, and never wait for ever? | holds |
| `gateway_limiter` | Do the sliding window and the bans hold? | holds |
| `watchlist_safety` | Two users, one who waits for each answer and one who does not: no stock twice, removals by the owner (both), the cap and the refinement of `WatchShelf` (the first)? | holds |
| `positions_safety` | Bulk creations, updates, a deletion, a simulation, over stocks of one code: no circle of waits unless ids are no numbers, all or nothing, consistent columns, linked simulations? | holds |
| `accounts_safety` | However mails fail and changes overlap: does the owner know the password? | holds |
| `quotes_safety` | Overlapping passes in each market: is the cache backed and fresh, is a change measured forward between the reader's queries, does a domestic capture lack only what KIS left out, does every pass complete? | holds |
| `rollup_safety` | Late ticks, missed jobs, two exchanges and three time zones: exact bars, a partition for each tick, retention, and the refinement of `DailyBoard`? | holds |
| `rollup_volume` | Is the volume of a day at most the accumulated volume of its last tick? | no, see 6 |
| `alerts_safety` | Overlapping runs, failures, restarts: are alerts spaced and justified, is every change told? | holds |
| `candles_cache` | Shared codes, closed days, a server in another time zone, slow answers: does the answer fit the question, are charts fresh? | holds |

Bounds, and why they are enough:

* `auth_safety`: three calls (one issues, one joins, one comes later), two
  users (the map and the cache are per user), a good and a bad key. Times are
  scaled: margin 2, floor 2, delay at most 1, lifetimes 3 (the floor applies)
  and 5 (the margin applies), clock to 4, so that entries expire and issuance
  repeats. `Call` and `User` are symmetric.
* `cred_races`: two registrations, which overlap or not, and one poller call of
  one user; the clock reaches 1, when a cached token has expired. Users do not
  share anything here, which `auth_safety` checks. That a third registration may
  race beside two is left to the proof.
* `reports_races`: three requests by two users on two messages with threshold
  2: a message at the threshold, a repeated report and an unrelated message at
  once. No symmetry, because liveness is checked.
* `gateway_limiter`: limit 2, window 2, ban 3, four messages over five ticks:
  two pass, one starts a ban, one comes during or after it. More users would be
  independent copies (no state is shared); messages without a user are included.
* `watchlist_safety`: cap 1, two listed stocks and one that is not, three
  additions and two removals: enough to fill the cap, free it and fill it again.
* `positions_safety`: two creations with bodies that name the same two stocks in
  opposite orders, by numbers and by keys like "02" (a circle of waits needs no
  more, and forms with the latter), a body that repeats a stock, one that names a
  stock by two keys, one whose quantities cancel, one with an unlisted stock, one
  with the pseudo stock, one with an id that is no number; two stocks that share
  their code; two updates of different columns, one deletion, one simulation whose
  rate may overflow its column. `FewCalls` cuts behaviours with more than five
  requests, a creation counting twice: each property relates at most two creations
  or three requests.
* `accounts_safety`: one address that two sign-ups compete for, two nicknames, a
  visitor, two resets and a change: a reset may overlap the change at each of its
  awaits, and a second one may start from what the first left.
* `quotes_safety`: two passes, started at the instants 0 and 1, two users of whom
  one follows both stocks, two chunks; life 1, delay 1, lookback 2, four instants: a
  slow pass may overwrite the quotes of a fast one, entries expire, and a baseline
  exists. The market stays open, because a change is told only then: a closed one
  starts no pass and shows no change.
* `rollup_safety` and `rollup_volume`: two days of five minutes of two instants;
  two exchanges whose local times are three minutes apart, so that the daily job
  of one runs on the next Korean day; three ticks; retention after the day itself.
* `alerts_safety`: two runs that may overlap, windows of one and two minutes with
  quiet periods of one, four minutes; one user follows more stocks than are
  monitored; one socket that changes hands.
* `candles_cache`: two requests; a domestic stock and two overseas ones that share
  their code, one on an exchange that KIS is not asked for and one of another
  market; days of two units, of which every third and fourth of five are closed,
  and two closed minutes. The clock runs from 13 to 16 and the server's is three
  units behind Korea's, so that a domestic day chart ends on an earlier day and a
  minute chart earlier in the day, and one ahead of New York's. A domestic range of
  days is cut at its start; KIS truncates to three rows, the limits are two and
  four. `FewCached` ends a behaviour when a second chart is cached: every step
  reads and writes one place of the cache, and a wrong chart in it shows at once
  or to the next request that reads it.

The clock bounds `MaxTime` (`MaxDay`, `MaxTicks`) are guards of `Tick`, `Advance`
and `Capture`. `CHECK_DEADLOCK FALSE` is set throughout: when all requests of an
instance are answered and the clock is at its bound the model stops, as it should.

### Fairness

`CredFairness` and `ChatReports!FairSpec` say that what is under way goes on:
PostgreSQL and Redis answer or fail, KIS answers or fails within the 5 s timeout
of its HTTP client (`kis/kisAuth/kisAuth.module.ts:8`), and a handler
whose await has resolved runs. It is weak fairness per request: each has a step
enabled continuously until it is taken, except a statement that waits for a
lock; that no such wait lasts for ever is what `ReportAnswered` says. `Abort`
has no fairness, so nothing relies on the transaction timeout. Nothing obliges
a client to call, KIS to accept, or the process to stay up: after a restart a
caller is "lost".

`Quotes!FairSpec` says the same of a pass: its requests are answered or fail. The
code has no timeout for the price requests, so this is an assumption about KIS
and the network, and so is `Delay`, the longest time from a capture to the cache.

## 4. Properties

* `KisAuth`: `InflightSound` (the map names exactly the running issuances, and
  every waiter waits for a running one of its user), `NoIssueWhileCached`,
  `ServedTokenAlive`, `ReissuedBeforeMargin` (`kisAuth.constant.ts:8`: reissue ten
  minutes early), `CallerAnswered` (liveness).
* `KisCredential`: `DuplicateRefused` (of two registrations answered 201 one
  overlapped another), `AcceptedKeyStays` (the key of an accepted one that
  overlapped none), `RegistrationAnswered` (liveness). No client is assumed to wait.
* `ChatReports`: `HiddenAtThreshold`, `AnswersConsistent`, `ReportAnswered`
  (liveness), `BoardSpec` (refinement).
* `ChatGateway`: `RateLimited`, `BanServed`.
* `Watchlist`: `NoStockTwice`, `RemovedByOwner`, `WithinCap`, `AsIfAtomic`
  (refinement of `WatchShelf`); `TotalsExact` is a part of it and only proved.
* `Positions`: `NoWaitCycle` (creations that name stocks by numbers, as
  `positions/dto` declares them, never wait for each other's keys in a circle
  whatever the order of their bodies), `AllOrNothing`, `RowConsistent` (the columns
  agree up to rounding, whatever partial updates overlap), `SimulationLinked` (a
  simulation's position exists, is its user's, and is in a stock of the simulated
  code, like the stock saved with it).
* `Accounts`: `KnownPassword`.
* `Quotes`: `CacheBackedByTick`, `CacheFresh`, `ChangeForward` (the past read by
  the last query is no newer than the price found by an earlier one),
  `DomesticWhole` (a stock is missing from a domestic capture only if KIS left it
  out), `PassCompletes` (liveness).
* `MarketRollup`: `BarsExact`, `PartitionReady`, `TicksKept`, `Refinement`, and
  `DailyVolume`, which is violated.
* `Alerts`: `AlertsSpaced`, `AlertJustified`, `ChangeTold`.
* `Candles`: `AnswerFits` (the newest candles up to the moment named to KIS),
  `ChartFresh`; `AnswerNewest` (up to the present) holds on servers whose clock is
  not behind, and is only proved.

Each module has one type invariant. Those of `Positions`, `MarketRollup` and
`Candles` say more than types (a rolled-back creation holds nothing, every tick
is in a partition, only charted markets reach the cache), and their runs check
them; all are proved. So are `OneIssuancePerUser`, `ComposesWithKisAuth` (as
`CredImplementsKisAuth`), `CountMatchesReports`, `HistoryBounded`,
`UniqueIdentity`, `VisitorsStayPasswordless`, `EventsOfOwner` and `OnePosition`,
which no run repeats.

## 5. Proofs

All for every number of users, requests, keys, messages and stocks, every
length of a behaviour, and every value of the numeric constants within the
stated assumptions. Each module's proofs first establish the types. Every safety
property, every action property and both refinements that the runs check are
proved; the runs show them on small instances, and show with the mutants that
they can fail.

* `KisAuth` (in `KisCredential_proofs`). `InflightSound` is inductive together with the types and
  implies `OneIssuancePerUser`. `IInv` adds `TokenTiming` (an issued token waits
  at most `MaxDelay` for the cache and a cache entry never outlives its token);
  without it `ServedTokenAlive` is not inductive, because the entry does not
  remember when it was stored. `ReissuedEarly` adds `EntryEndsEarly`, the
  distance between the ends of the entry and of the token. Assumptions:
  `KisAuthAssumption` and `LifetimeAssumption` (the margin, 600 s, covers the
  delay from issue to cache; KIS tokens outlive the TTL floor of 60 s plus that
  delay).
* `KisCredential` (in `KisCredential_proofs`). Every step of the pair is a step of `KisAuth` or a
  stutter (`CredImplementsKisAuth`), so `KisAuth`'s theorems hold of it. `RegInv` is
  inductive and assumes nothing about clients: registrations past their check
  together are recorded (`OverlapsKnown`), one that is alone finds the key where it
  has put it (`SavedKeyKept`), and once one that overlapped none is accepted, none of
  its user is past its check (`AcceptedIsLast`): any other would have had to pass it
  before, which is an overlap, or to find no key after. It yields
  `DuplicatesRefused` and `AcceptedStays`; pollers, failures, lost answers, restarts
  and the races of other registrations are arbitrary.
* `ChatReports` (in `Chat_proofs`). `ReportInv` says what the locks buy: `InsertExclusive` (an
  uncommitted report is nobody else's and not committed), `UpdateExclusive` (the
  holder of the row lock has counted from the committed row) and `BlindDecided`.
  From it the count, the blinding, the answers and, step by step, the refinement
  of `ReportBoard` (`ImplementsBoard`): a commit is one atomic report, every
  other step a stutter.
* `ChatGateway` (in `Chat_proofs`). `Tracked`: unless the user is banned, everything that
  passed less than a window ago is still in the history; and a ban ends at least
  `Ban` after whatever passed before it. `BanInForce`: a ban not yet over is
  recorded. Both are needed because a ban drops the history: the limit then
  survives only because the ban is no shorter than the window, which is the
  assumption `Window <= Ban` (`ChatGatewayAssumption`; 3 s and
  10 s in the code).
* `Watchlist_proofs`. `SafeInv` (unique index, ownership found before the
  delete) needs no assumption about clients. `IInv` adds, for users in `Serial`,
  that one request is under way and that the count an addition has read is still
  right when it inserts; it yields `CapKept` and `TotalsCorrect`. `FoundHolds` adds
  that whatever such a request has found is still so when it writes, since only
  the user's own requests change the user's rows. Hence `ImplementsShelf`: the
  queries of such a user are one step of `WatchShelf` (where a removal takes the
  row and then tells what is left, as in the code), and neither P2002 nor P2025
  reaches them. The shelf is the rows, `taken` the removals about to recount, the
  answers those of the users in `Serial`; other users' requests are stutters.
* `Accounts_proofs`. `UniqueIdentity` needs only the index. `KnownPassword` is
  not inductive: what a reset will restore is not in the row. `IInv` adds that
  the password a reset has read was told to the owner or died with an earlier
  reset, which is where `Serial` is used: with overlapping resets the one that
  fails last may restore the temporary password of the other.
* `Quotes_proofs`. `IInv` adds `Pending` (a pass about to cache has stored its
  capture and is within `Delay`, and what a domestic one lacks was blank),
  `EntriesExpire` (an entry ends at most `TTL + Delay` after its capture) and
  `PriceNewer`: the price a reader has found is as new as any tick a lookback old.
  While the reader waits for its next query, passes store ticks, but none older
  than `Delay`; so `ForwardChange` needs `TTL + Delay <= Ago` and `TTL > 0`
  (`QuotesAssumption`: 60 s and the delay against lookbacks of 15 and 30 minutes).
* `Alerts_proofs`. `IInv` adds `Checked` (an alert that appeared since a pass
  looked was logged by a pass it overlaps), `Fresh` and `Once` (a pass logs one
  alert of a user's stock), `Justified`, and `BarsPast`: a bar is written when its
  minute is over, so nothing written later falls into a window already read. It
  yields the three properties of the run and `OwnerOnly`.

* Sums (in `Aggregation_proofs`). `SumOver` is the community modules' fold, a
  function on the subsets of a set defined by recursion. That there is such a
  function, and one only, is proved from a least counterexample (the order of the
  naturals is well founded, and a finite set has a smallest subset of any kind it
  has at all), since the library's induction theorems cannot be instantiated.
  `SumOverAdd` and `SumOverParts` follow: a sum is the sum of the sums of its
  parts.
* `Positions` (in `Aggregation_proofs`). `RowConsistent` rests on `RoundDivBound`:
  `Math.round` is off by at most a half, whatever the signs. `SimulationLinked` is
  not inductive: a simulation links what it looked up queries earlier.
  `PositionsInv` adds `LinkFits` (what it holds is a position of its user in a stock
  of its code, or gone), for which ids must not be used again (`OldIds`) and a user
  must have one position in a stock (`OnePosition`, the unique index, uncommitted
  rows included). `Progress` says that what a creation holds and the ids of the keys
  it has left are its body and, when its keys are numbers, the former before the
  latter: so among waiting creations of that kind the one whose next stock is the
  greatest waits for none of them (`NoDeadlock`). A commit publishes the whole body
  (`CreationsAtomic`), whatever its keys. `StockFound` adds that the id a creation
  inserts was found. Any number of creations may run; `FewStarted` says they are
  finitely many.
* `MarketRollup` (in `Aggregation_proofs`). `BarsCorrect` needs `TicksTimed`: a tick
  is inserted before the job of its minute runs (`Late <= Sub`), so none arrives
  after it; `BarsRolled` is `BarsExact` without the minute in progress.
  `PartitionsReady` needs `PartsAhead`, which counts from the morning on which
  partitions were last created: three days ahead (`Ahead >= 3`) outlast one missed
  morning and a session that is a day behind. `TwoStages` needs `BarsOwn`: until a
  retention drops the ticks of a minute, its bar sums up exactly these; and
  `MergeOfParts`, that merging bars of minutes is summarising their ticks. That a
  retention spares the ticks of a trading day until its daily job is a fact about
  the hours of the jobs and the zones, not about the code's logic:
  `CalendarAssumption`. It holds of the code with a margin of days: ticks are kept
  for seven, and a trading day ends within 36 hours.
* `Candles_proofs`. `AnswersFit` needs that whatever is cached fits its key
  (`EntriesGood`) and that a key tells the query (`KeyTells`), since the answer
  comes from another user's request. That the newest rows of the newest rows are
  the newest is `NewestTwice`; that the range asked for hides none is `NewestAmong`
  with `RangeHolds`. The latter computes from the range of the code (twice the
  limit, 30 days at least, `kis/price/kisChartPrice.service.ts:343`) that it holds as
  many open intervals as the limit; all it takes from outside is a fact about
  calendars, `CalendarAssumption`: in a stretch as long as the shortest range at most
  half of the intervals, and one, are closed. `NamedInterval` keeps the server's clock
  apart from the exchange's: `AnswersFit` holds for every difference, `AnswersNewest`
  for servers that are not behind. `ChartsFresh` needs that an entry expires at most
  `Delay + Life` after KIS told it, and that no request holds a chart longer than
  `Delay`.

What the proofs found wrong in the models:

* `RoundDiv` rounded to the wrong side when the divisor is negative, as a quantity
  is when a body's negative purchases outweigh the others;
* assumptions the models relied on silently were missing: no partition job at
  midnight, at least three days ahead, ticks kept until the daily job
  (`MarketRollup`); lives and spans above zero, a start before the end, no exchange
  called `DOMESTIC`, a calendar that does not close more than half of the time
  (`Candles`), a life above zero (`Quotes`). TLC evaluates them in every run;
* `Candles` had one set of closed intervals for charts of days and of months.

Only model-checked: liveness (`CallerAnswered`, `RegistrationAnswered`,
`ReportAnswered`, `PassCompletes`), which is out of the prover's reach. The
violation of `DailyVolume` is a counterexample and has no proof.

## 6. Disagreements and what the code does not exclude

`rollup_volume` is the finding: KIS tells the volume accumulated over the day,
the ingest stores it as the tick's volume, and both rollups add volumes up, so a
bar counts the morning's trades once per poll. `PROJECT.json` "findings" quotes
the lines.

The models contain the following behaviours too. No line of the repository
promises otherwise, or a property holds only with the restriction named:

* A registration that joins the issuance a poller started with a key taken back
  meanwhile is answered 201 for a key KIS rejects; two overlapping registrations
  both pass the check, the second overwrites the first's key, both may be answered
  201, and the one that fails removes the key of the other (`overlapped`); a
  timeout of KIS or an error of Redis removes a valid key and answers 422.
* Of two overlapping reports by one user the second is answered 500, not 409.
* Overlapping additions exceed the cap of the watchlist (`Serial`).
* Two overlapping resets whose mails fail leave a temporary password nobody was
  told (`Serial`); a reset's rollback also undoes a change made meanwhile.
* The items of a bulk creation are not validated (an array has no DTO class for the
  `ValidationPipe` of `src/src/main.ts`). Ids like "02" are not ordered by
  `Object.entries`: two creations that name the same stocks so, in opposite orders,
  wait for each other in a circle, which PostgreSQL ends by aborting one with 500.
  "2" and "02" in one body are two groups of one stock, and the creation is refused.
* Where exchanges share a code, a simulation may save the stock of one and link a
  position in the stock of another (`simulation/simulation.service.ts:20-22`, `51-56`,
  `61`). A simulation whose rate does not fit its column is answered 500 and not saved.
* A domestic capture lacks the stocks whose slots KIS left blank or under another
  code (`kis/ingest/domesticIngest.service.ts:73-81`).
* Charts end where the server's clock says. Neither Dockerfile nor compose file sets a
  time zone, so unless the `.env` of the deployment does the server runs in UTC: a
  domestic minute chart then asks for minutes nine hours in the past, and before 9:00
  in Korea a domestic day chart ends the day before.
* An empty answer of KIS is cached as a chart; requests that miss the cache at
  once all ask KIS.
* Alert windows end at the newest bar, not now: when bars stop, the same change
  is announced again after each quiet period. An alert stored just before the
  process exits is never sent. The failure of one user ends the run for the rest.
* Messages of a room are broadcast in the order their inserts return.

## 7. Not modelled, and the plan

Left out for good: request and response formatting, encryption and masking (a
key is a value that KIS accepts or not), Swagger, controllers and DTO validation
(they restrict inputs; the models take every input the service can meet), the
news proxy (no state), JWT verification and `getMe` (stateless), reads that no
property is about (`getWatchlist`, `getStocks`, `getMyPositions`, chat listings,
the status bar), the seed, the socket.io transport.

Simplifications of what is modelled:

* `Positions`: prices and quantities of the unvalidated items are numbers.
* `Quotes`: one market per behaviour; a read takes less than a unit of time (a poll
  interval, against lookbacks of many); prices, sorting of the answer and the
  memoised map of index ids are left out (the indices are seeded before start).
* `MarketRollup`: one stock of one user per exchange, because the SQL groups by
  them; retention of minute bars after a year and the row-level-security policies
  are left out. The functions run under a role that is exempt from the policies,
  as the superuser of `src/docs/setup/prisma-migration-strategy.md:98` is; under
  another role rollups and alerts, which name no user, would see no rows.
* `Alerts`: all users' bars of a stock show the same price; one clock.
* `Candles`: prices, and the conversion of KIS's local times to epochs, are left
  out. `Closed` is shared by the markets; a month counted back from the 31st may roll
  over into the next one (`setMonth`), which shortens a range of twice the limit, 24
  months at least, by one and hides no candle that is shown; KIS has nothing of the
  future when the server is ahead.

The plan of the first stage (`KisAuth`, `KisCredential`, `ChatReports`,
`ChatGateway`, `Watchlist`, `Positions`, `Accounts`, the market pipeline, alerts,
charts) and the proofs of what their runs check are done. What is left:

1. A composition of the pollers with `KisAuth` (a visit starts with a `Call`).
2. An abstract specification of `Accounts`, for owners who wait for each answer,
   and a proof that the queries implement it.
