---------------------------- MODULE Quotes_proofs ----------------------------
(***************************************************************************)
(* Proofs about Quotes, for every number of users, stocks and overlapping  *)
(* passes: the cache is backed by ticks and fresh, a domestic capture      *)
(* lacks only what KIS left out, and a change of price is measured forward *)
(* in time, with ticks stored between its queries.                         *)
(***************************************************************************)
EXTENDS Quotes, WellFoundedInduction, TLAPS

\* What a pass has in hand.
Pending ==
  /\ DOMAIN visit = Pass
  /\ \A p \in Pass :
       /\ visit[p].at # Never => now <= visit[p].at + Delay
       /\ pc[p] \in {"store", "cache"} => visit[p].at # Never
       /\ pc[p] = "fetch" /\ market = "index" => visit[p].at # Never
       /\ pc[p] = "cache" => Captured(p) \subseteq ticks
       /\ market = "domestic" /\ pc[p] \in {"store", "cache"} =>
            \A s \in Wanted[visit[p].user] \ visit[p].got :
              [user |-> visit[p].user, stock |-> s, at |-> visit[p].at] \in blank

\* An entry is dropped in time: it expires at most TTL + Delay after its capture.
EntriesExpire ==
  \A u \in User, s \in Stock :
    Alive(u, s) => /\ now <= cache[<<u, s>>].until
                   /\ cache[<<u, s>>].until <= cache[<<u, s>>].at + TTL + Delay

\* The price a reader has found is as new as the past it is going to read: a
\* pass stores no tick older than Delay while it waits.
PriceNewer ==
  reader.stage = "past" /\ reader.price # Never =>
    /\ reader.price \in Time
    /\ \A x \in ticks : x.user = reader.user /\ x.stock = reader.stock /\ x.at <= now - Ago =>
         x.at <= reader.price

\* The inductive invariant.
IInv ==
  TypeOK /\ Pending /\ CacheBackedByTick /\ EntriesExpire /\ PriceNewer /\ DomesticWhole

-----------------------------------------------------------------------------
\* A set of times has a newest one.
LEMMA NewestExists ==
  ASSUME NEW S \in SUBSET Time, S # {}
  PROVE  \E a \in S : \A b \in S : b <= a
<1> DEFINE R == {x \in Nat \X Nat : x[1] < x[2]}
           T == {MaxTime - a : a \in S}
<1>1. IsWellFoundedOn(R, Nat)
  BY NatLessThanWellFounded, Zenon DEF OpToRel
<1>2. T \subseteq Nat /\ T # {}
  <2>1. \A a \in S : a \in Nat /\ a <= MaxTime
    BY QuotesAssumption DEF Time
  <2>2. T \subseteq Nat
    BY <2>1, QuotesAssumption
  <2>3. T # {}
    OBVIOUS
  <2> QED BY <2>2, <2>3
<1> HIDE DEF R
<1>3. PICK t \in T : \A x \in T : ~(<<x, t>> \in R)
  <2> HIDE DEF T
  <2> QED BY <1>1, <1>2, WFMin
<1>4. PICK a \in S : t = MaxTime - a
  OBVIOUS
<1>5. ASSUME NEW b \in S PROVE b <= a
  <2>1. MaxTime - b \in T
    OBVIOUS
  <2>2. ~(MaxTime - b < MaxTime - a)
    BY <1>2, <1>3, <1>4, <2>1 DEF R
  <2> QED BY <2>2, QuotesAssumption DEF Time
<1> QED BY <1>5

\* The newest tick captured until t.
LEMMA TickAtNewest ==
  ASSUME TypeOK, NEW u, NEW s, NEW t \in Int, TickAt(u, s, t) # Never
  PROVE  /\ TickAt(u, s, t) \in Time /\ TickAt(u, s, t) <= t
         /\ \A x \in ticks : x.user = u /\ x.stock = s /\ x.at <= t => x.at <= TickAt(u, s, t)
         /\ \E x \in ticks : x.user = u /\ x.stock = s /\ x.at = TickAt(u, s, t)
<1> DEFINE old == {x.at : x \in {y \in ticks : y.user = u /\ y.stock = s /\ y.at <= t}}
<1>1. old # {} /\ TickAt(u, s, t) = CHOOSE a \in old : \A b \in old : b <= a
  BY DEF TickAt
<1>2. old \in SUBSET Time
  BY DEF TypeOK
<1>3. TickAt(u, s, t) \in old /\ \A b \in old : b <= TickAt(u, s, t)
  <2> HIDE DEF old
  <2>1. \E a \in old : \A b \in old : b <= a
    BY <1>1, <1>2, NewestExists
  <2> QED BY <1>1, <2>1
<1> QED BY <1>2, <1>3

-----------------------------------------------------------------------------
LEMMA Numbers ==
  /\ TTL \in Nat \ {0} /\ Ago \in Nat /\ Delay \in Nat /\ MaxTime \in Nat
  /\ \A t \in Time : t \in Nat /\ t <= MaxTime /\ t # Never
BY QuotesAssumption DEF Time, Never

LEMMA InitSound == Init => IInv
<1> SUFFICES ASSUME Init PROVE IInv
  OBVIOUS
<1>1. TypeOK
  BY QuotesAssumption DEF Init, TypeOK, Markets, Time, NoVisit, NoQuote, Idle, Visiting, Never
<1>2. Pending /\ PriceNewer
  BY DEF Init, Pending, NoVisit, PriceNewer, Idle
<1>3. CacheBackedByTick /\ EntriesExpire /\ DomesticWhole
  BY DEF Init, CacheBackedByTick, EntriesExpire, DomesticWhole, Alive, NoQuote
<1> QED BY <1>1, <1>2, <1>3 DEF IInv

\* A pass starts, visits the next user, or ends.
LEMMA VisitKeeps ==
  ASSUME IInv, NEW p \in Pass, Start(p) \/ (\E u \in User : Visit(p, u)) \/ Finish(p)
  PROVE  IInv'
<1> USE DEF IInv
<1>1. UNCHANGED <<now, market, ticks, cache, blank, reader>>
  BY DEF Start, Visit, Finish
<1>2. CacheBackedByTick' /\ EntriesExpire' /\ PriceNewer' /\ DomesticWhole'
  BY <1>1 DEF CacheBackedByTick, EntriesExpire, PriceNewer, DomesticWhole, Alive
<1>3. CASE Start(p)
  <2>1. TypeOK'
    BY <1>3 DEF Start, TypeOK, Visiting, Asked
  <2>2. Pending'
    BY <1>3 DEF Start, Pending, Captured, TypeOK
  <2> QED BY <1>2, <2>1, <2>2
<1>4. ASSUME NEW u \in User, Visit(p, u) PROVE IInv'
  <2>1. pc[p] = "next" /\ todo' = [todo EXCEPT ![p] = @ \ {u}] /\ now \in Time
    BY <1>4 DEF Visit, TypeOK
  <2>2. CASE Asked(u) = {}
    <3>1. UNCHANGED <<pc, visit>>
      BY <1>4, <2>2 DEF Visit
    <3>2. TypeOK'
      BY <1>1, <2>1, <3>1 DEF TypeOK, Visiting, Asked
    <3>3. Pending'
      BY <1>1, <3>1 DEF Pending, Captured
    <3> QED BY <1>2, <3>2, <3>3
  <2>3. CASE Asked(u) # {}
    <3> DEFINE t == IF market = "index" THEN now ELSE Never
    <3>1. /\ pc' = [pc EXCEPT ![p] = "fetch"]
          /\ visit' = [visit EXCEPT ![p] = [user |-> u, got |-> {}, at |-> t]]
      BY <1>4, <2>3 DEF Visit
    <3>2. t \in Time \cup {Never} /\ (t # Never => now <= t + Delay)
      BY <2>1, Numbers
    <3>3. market = "index" => t # Never
      BY <2>1, Numbers
    <3> HIDE DEF t
    <3>4. TypeOK'
      BY <1>1, <2>1, <3>1, <3>2 DEF TypeOK, Visiting, Asked, Pending
    <3>5. Pending'
      BY <1>1, <2>1, <3>1, <3>2, <3>3 DEF Pending, Captured, TypeOK
    <3> QED BY <1>2, <3>4, <3>5
  <2> QED BY <2>2, <2>3
<1>5. CASE Finish(p)
  <2>1. TypeOK'
    BY <1>5 DEF Finish, TypeOK, Visiting, Asked
  <2>2. Pending'
    BY <1>5 DEF Finish, Pending, Captured, TypeOK
  <2> QED BY <1>2, <2>1, <2>2
<1> QED BY <1>3, <1>4, <1>5

\* KIS answers: of domestic stocks all that were asked for but what it leaves
\* out, or none.
LEMMA FetchKeeps ==
  ASSUME IInv, NEW p \in Pass, NEW failed \in SUBSET Chunk, NEW empty \in SUBSET Stock,
         Fetch(p, failed, empty)
  PROVE  IInv'
<1> USE DEF IInv
<1> DEFINE u == visit[p].user
           t == IF market = "index" THEN visit[p].at ELSE now
<1>1. /\ UNCHANGED <<now, market, todo, ticks, cache, reader>> /\ pc[p] = "fetch"
      /\ blank \subseteq blank'
  BY DEF Fetch
<1>2. CacheBackedByTick' /\ EntriesExpire' /\ PriceNewer' /\ DomesticWhole'
  BY <1>1 DEF CacheBackedByTick, EntriesExpire, PriceNewer, DomesticWhole, Alive
<1>3. u \in User \ todo[p] /\ Answered(u, failed) \subseteq Asked(u)
  BY <1>1 DEF TypeOK, Visiting, Answered, Skipping
<1>4. t \in Time /\ now <= t + Delay
  BY <1>1, Numbers DEF Pending, TypeOK
<1>5. CASE VisitFails(p) /\ UNCHANGED blank
  <2>1. TypeOK'
    BY <1>1, <1>5 DEF VisitFails, EndVisit, TypeOK, Visiting, Asked, NoVisit
  <2>2. Pending'
    BY <1>1, <1>5 DEF VisitFails, EndVisit, Pending, Captured, RowsOf, TypeOK, NoVisit
  <2> QED BY <1>2, <2>1, <2>2
<1>6. CASE /\ Answered(u, failed) # {} /\ empty \subseteq Answered(u, failed)
           /\ pc' = [pc EXCEPT ![p] = "store"]
           /\ visit' = [visit EXCEPT ![p] =
                [user |-> u, got |-> Answered(u, failed) \ empty, at |-> t]]
           /\ blank' = IF market = "domestic" THEN blank \cup RowsOf(u, empty, t) ELSE blank
  <2> DEFINE got == Answered(u, failed) \ empty
             v == [user |-> u, got |-> got, at |-> t]
  <2>1. got \subseteq Asked(u)
    BY <1>3
  <2>2. RowsOf(u, empty, t) \subseteq [user : User, stock : Stock, at : Time]
    BY <1>3, <1>4 DEF RowsOf
  <2>3. ASSUME market = "domestic", NEW s \in Wanted[u] \ got
        PROVE  [user |-> u, stock |-> s, at |-> t] \in blank'
    <3>1. Answered(u, failed) = Wanted[u]
      BY <1>6, <2>3 DEF Answered, Skipping, Asked
    <3>2. s \in empty
      BY <2>3, <3>1
    <3>3. [user |-> u, stock |-> s, at |-> t] \in RowsOf(u, empty, t)
      BY <3>2 DEF RowsOf
    <3> QED BY <1>6, <2>3, <3>3
  <2>4. /\ visit' = [visit EXCEPT ![p] = v] /\ pc' = [pc EXCEPT ![p] = "store"]
        /\ v.user = u /\ v.got = got /\ v.at = t
    BY <1>6
  <2> HIDE DEF v, got
  <2>5. ticks' \cup blank' \subseteq [user : User, stock : Stock, at : Time]
    BY <1>1, <1>6, <2>2 DEF TypeOK
  <2> HIDE DEF t, u
  <2>6. TypeOK'
    BY <1>1, <1>3, <1>4, <2>1, <2>4, <2>5 DEF TypeOK, Visiting, Asked, Pending
  <2>7. Pending'
    <3>1. t # Never
      BY <1>4, Numbers
    <3>2. DOMAIN visit' = Pass
      BY <2>4 DEF Pending
    <3>3. ASSUME NEW q \in Pass, q # p
          PROVE  visit'[q] = visit[q] /\ pc'[q] = pc[q]
      BY <2>4, <3>3 DEF TypeOK, Pending
    <3>4. visit'[p] = v /\ pc'[p] = "store"
      BY <2>4 DEF TypeOK, Pending
    <3> QED BY <1>1, <1>4, <2>3, <2>4, <3>1, <3>2, <3>3, <3>4 DEF Pending, Captured, RowsOf
  <2> QED BY <1>2, <2>6, <2>7
<1> QED BY <1>5, <1>6 DEF Fetch

\* The ticks of a capture are stored at once.
LEMMA StoreKeeps ==
  ASSUME IInv, NEW p \in Pass, Store(p)
  PROVE  IInv'
<1> USE DEF IInv
<1>1. UNCHANGED <<now, market, todo, cache, blank, reader>> /\ pc[p] = "store"
  BY DEF Store
<1>2. EntriesExpire'
  BY <1>1 DEF EntriesExpire, Alive
<1>3. ticks \subseteq ticks'
  BY DEF Store
<1>4. CacheBackedByTick'
  BY <1>1, <1>3 DEF CacheBackedByTick, Alive
<1>5. CASE VisitFails(p) /\ UNCHANGED ticks
  <2>1. TypeOK'
    BY <1>1, <1>5 DEF VisitFails, EndVisit, TypeOK, Visiting, Asked, NoVisit
  <2>2. Pending' /\ DomesticWhole' /\ PriceNewer'
    BY <1>1, <1>5 DEF VisitFails, EndVisit, Pending, Captured, TypeOK, NoVisit, DomesticWhole,
                      PriceNewer
  <2> QED BY <1>2, <1>4, <2>1, <2>2
<1>6. CASE ticks' = ticks \cup Captured(p) /\ pc' = [pc EXCEPT ![p] = "cache"] /\ UNCHANGED visit
  <2>1. visit[p].user \in User /\ visit[p].got \subseteq Stock /\ visit[p].at \in Time
    BY <1>1, QuotesAssumption DEF TypeOK, Visiting, Asked, Pending
  <2>2. Captured(p) \subseteq [user : User, stock : Stock, at : Time]
    BY <2>1 DEF Captured, RowsOf
  <2>3. TypeOK'
    BY <1>1, <1>6, <2>2 DEF TypeOK, Visiting, Asked
  <2>4. Pending'
    BY <1>1, <1>6 DEF Pending, Captured, TypeOK
  <2>5. ASSUME market = "domestic", NEW x \in Captured(p), NEW s \in Wanted[x.user]
        PROVE  [x EXCEPT !.stock = s] \in Captured(p) \cup blank
    BY <1>1, <2>5 DEF Pending, Captured, RowsOf
  <2>6. DomesticWhole'
    BY <1>1, <1>6, <2>5 DEF DomesticWhole
  <2>7. PriceNewer'
    <3>1. now \in Time /\ visit[p].at \in Nat /\ now <= visit[p].at + Delay
      BY <1>1, <2>1, Numbers DEF TypeOK, Pending
    <3>2. ~(visit[p].at <= now - Ago)
      BY <3>1, Numbers, QuotesAssumption
    <3>3. \A x \in Captured(p) : x.at = visit[p].at
      BY DEF Captured, RowsOf
    <3> QED BY <1>1, <1>6, <3>2, <3>3 DEF PriceNewer
  <2> QED BY <1>2, <1>4, <2>3, <2>4, <2>6, <2>7
<1> QED BY <1>5, <1>6 DEF Store

\* What is cached was stored, and expires TTL from now.
LEMMA CacheKeeps ==
  ASSUME IInv, NEW p \in Pass, Cache(p)
  PROVE  IInv'
<1> USE DEF IInv
<1> DEFINE q == [at |-> visit[p].at, until |-> now + TTL]
           mine(x) == x[1] = visit[p].user /\ x[2] \in visit[p].got
<1>1. /\ UNCHANGED <<now, market, todo, ticks, blank, reader>>
      /\ pc[p] = "cache" /\ EndVisit(p, "next")
  BY DEF Cache
<1>2. PriceNewer' /\ DomesticWhole'
  BY <1>1 DEF PriceNewer, DomesticWhole
<1>3. Pending'
  BY <1>1 DEF EndVisit, Pending, Captured, TypeOK, NoVisit
<1>4. \A x \in User \X Stock : cache'[x] = cache[x] \/ (mine(x) /\ cache'[x] = q)
  BY DEF Cache, Expiry
<1>5. /\ visit[p].at \in Time /\ now \in Time /\ now <= visit[p].at + Delay
      /\ Captured(p) \subseteq ticks
  BY <1>1, Numbers DEF TypeOK, Pending
<1>6. q \in [at : Time \cup {Never}, until : Int] /\ now <= q.until /\ q.until <= q.at + TTL + Delay
  BY <1>5, Numbers
<1>7. cache' \in [User \X Stock -> [at : Time \cup {Never}, until : Int]]
  <2>1. cache \in [User \X Stock -> [at : Time \cup {Never}, until : Int]]
    BY DEF TypeOK
  <2>2. DOMAIN cache' = User \X Stock /\ cache' = [x \in DOMAIN cache' |-> cache'[x]]
    BY DEF Cache
  <2> HIDE DEF q, mine
  <2> QED BY <1>4, <1>6, <2>1, <2>2
<1>8. TypeOK'
  BY <1>1, <1>7 DEF EndVisit, TypeOK, Visiting, Asked, NoVisit
<1>9. ASSUME NEW u \in User, NEW s \in Stock, Alive(u, s)'
      PROVE  /\ [user |-> u, stock |-> s, at |-> cache'[<<u, s>>].at] \in ticks'
             /\ now' <= cache'[<<u, s>>].until
             /\ cache'[<<u, s>>].until <= cache'[<<u, s>>].at + TTL + Delay
  <2>1. CASE cache'[<<u, s>>] = cache[<<u, s>>]
    BY <1>1, <1>9, <2>1 DEF Alive, CacheBackedByTick, EntriesExpire
  <2>2. CASE mine(<<u, s>>) /\ cache'[<<u, s>>] = q
    <3>1. [user |-> u, stock |-> s, at |-> visit[p].at] \in Captured(p)
      BY <2>2 DEF Captured, RowsOf
    <3> QED BY <1>1, <1>5, <1>6, <2>2, <3>1
  <2> QED BY <1>4, <2>1, <2>2
<1> QED BY <1>2, <1>3, <1>8, <1>9 DEF CacheBackedByTick, EntriesExpire

\* A cached price is newer than the past: its entry has not expired.  So is one
\* read from the table: it is the newest.
LEMMA ReadKeeps ==
  ASSUME IInv, (\E x \in Reads : ReadCache(x[1], x[2])) \/ ReadLatest \/ ReadPast \/ UNCHANGED vars
  PROVE  IInv'
<1> USE DEF IInv
<1>1. UNCHANGED <<now, market, pc, todo, visit, ticks, cache, blank>>
  BY DEF ReadCache, ReadLatest, ReadPast, vars
<1>2. Pending' /\ CacheBackedByTick' /\ EntriesExpire' /\ DomesticWhole'
  BY <1>1 DEF Pending, Captured, CacheBackedByTick, EntriesExpire, DomesticWhole, Alive
<1>3. CASE reader' = Idle \/ reader' = reader
  <2>1. TypeOK' /\ PriceNewer'
    BY <1>1, <1>3 DEF TypeOK, Visiting, Asked, PriceNewer, Idle
  <2> QED BY <1>2, <2>1
<1>4. ASSUME NEW x \in Reads, ReadCache(x[1], x[2]) PROVE IInv'
  <2> DEFINE u == x[1]  s == x[2]  at == cache[<<u, s>>].at
  <2>1. u \in User /\ s \in Stock
    BY QuotesAssumption
  <2>2. PICK hit \in {Never, at} :
          reader' = [stage |-> IF hit = Never THEN "latest" ELSE "past",
                     user |-> u, stock |-> s, price |-> hit]
    BY <1>4 DEF ReadCache
  <2>3. TypeOK'
    <3>1. <<reader'.user, reader'.stock>> \in User \X Stock /\ reader'.stage \in {"latest", "past"}
      BY <2>1, <2>2
    <3> QED BY <1>1, <3>1 DEF TypeOK, Visiting, Asked
  <2>4. /\ now \in Time /\ at \in Time \cup {Never}
        /\ cache[<<u, s>>].until \in Int
    BY <2>1 DEF TypeOK
  <2>5. at # Never => now - Ago <= at
    BY <2>1, <2>4, Numbers, QuotesAssumption DEF EntriesExpire, Alive
  <2>6. \A y \in ticks : y.at \in Time
    BY DEF TypeOK
  <2>7. ASSUME reader'.price # Never
        PROVE  /\ reader'.price \in Time
               /\ \A y \in ticks : y.at <= now - Ago => y.at <= reader'.price
    <3>1. reader'.price = at
      BY <2>2, <2>7
    <3>2. \A y \in ticks : y.at <= now - Ago => y.at <= at
      BY <2>4, <2>5, <2>6, <2>7, <3>1, Numbers
    <3> QED BY <2>4, <2>7, <3>1, <3>2
  <2>8. PriceNewer'
    BY <1>1, <2>7 DEF PriceNewer
  <2> QED BY <1>2, <2>3, <2>8
<1>5. CASE ReadLatest
  <2> DEFINE u == reader.user  s == reader.stock  at == TickAt(u, s, now)
  <2>1. /\ reader.stage = "latest" /\ <<u, s>> \in User \X Stock
        /\ reader' = [reader EXCEPT !.stage = "past", !.price = at]
    BY <1>5 DEF ReadLatest, TypeOK, Idle
  <2> HIDE DEF at
  <2>2. reader'.stage = "past" /\ reader'.user = u /\ reader'.stock = s
    BY <2>1
  <2>3. TypeOK'
    BY <1>1, <2>1, <2>2 DEF TypeOK, Visiting, Asked
  <2>4. now \in Int /\ now - Ago <= now /\ now - Ago \in Int
    BY Numbers DEF TypeOK
  <2>5. \A y \in ticks : y.at \in Time
    BY DEF TypeOK
  <2>6. ASSUME at # Never
        PROVE  /\ at \in Time
               /\ \A y \in ticks : y.user = u /\ y.stock = s /\ y.at <= now - Ago => y.at <= at
    <3>1. /\ at \in Time
          /\ \A y \in ticks : y.user = u /\ y.stock = s /\ y.at <= now => y.at <= at
      BY <2>4, <2>6, TickAtNewest DEF at
    <3> QED BY <2>4, <2>5, <3>1, Numbers
  <2>7. reader'.price # Never => reader'.price = at
    BY <2>1
  <2>8. PriceNewer'
    BY <1>1, <2>2, <2>6, <2>7 DEF PriceNewer
  <2> QED BY <1>2, <2>3, <2>8
<1> QED BY <1>3, <1>4, <1>5 DEF ReadPast, vars

\* Redis drops what expires; no pass holds a capture longer than Delay.
LEMMA TickKeeps ==
  ASSUME IInv, Tick
  PROVE  IInv'
<1> USE DEF IInv
<1>1. UNCHANGED <<market, pc, todo, visit, ticks, blank, reader>> /\ reader = Idle /\ now' = now + 1
  BY DEF Tick
<1>2. now' \in Time /\ now \in Nat
  BY <1>1, Numbers DEF Tick, TypeOK, Time
<1>3. PriceNewer' /\ DomesticWhole'
  BY <1>1 DEF PriceNewer, DomesticWhole, Idle
<1>4. \A x \in User \X Stock :
        \/ cache[x].until <= now' /\ cache'[x] = NoQuote
        \/ ~(cache[x].until <= now') /\ cache'[x] = cache[x]
  BY <1>1 DEF Tick
<1>5. TypeOK'
  <2>1. cache' \in [User \X Stock -> [at : Time \cup {Never}, until : Int]]
    BY DEF Tick, TypeOK, NoQuote, Never
  <2> QED BY <1>1, <1>2, <2>1 DEF TypeOK, Visiting, Asked
<1>6. Pending'
  <2>1. ASSUME NEW p \in Pass, visit[p].at # Never PROVE now' <= visit[p].at + Delay
    <3>1. visit[p].at \in Nat /\ now < visit[p].at + Delay
      BY <2>1, Numbers DEF Tick, TypeOK
    <3> QED BY <1>1, <1>2, <3>1, Numbers
  <2> QED BY <1>1, <2>1 DEF Pending, Captured
<1>7. ASSUME NEW u \in User, NEW s \in Stock, Alive(u, s)'
      PROVE  /\ [user |-> u, stock |-> s, at |-> cache'[<<u, s>>].at] \in ticks'
             /\ now' <= cache'[<<u, s>>].until
             /\ cache'[<<u, s>>].until <= cache'[<<u, s>>].at + TTL + Delay
  <2>1. cache'[<<u, s>>] = cache[<<u, s>>] /\ ~(cache[<<u, s>>].until <= now')
    BY <1>4, <1>7 DEF Alive, NoQuote
  <2>2. cache[<<u, s>>].until \in Int
    BY DEF TypeOK
  <2>3. Alive(u, s)
    BY <1>7, <2>1 DEF Alive
  <2> QED BY <1>1, <1>2, <2>1, <2>2, <2>3 DEF CacheBackedByTick, EntriesExpire
<1> QED BY <1>3, <1>5, <1>6, <1>7 DEF CacheBackedByTick, EntriesExpire

LEMMA RestartKeeps ==
  ASSUME IInv, Restart
  PROVE  IInv'
<1> USE DEF IInv
<1>1. /\ UNCHANGED <<now, market, todo, ticks, cache, blank>> /\ reader' = Idle
      /\ pc' = [p \in Pass |-> IF Running(p) THEN "died" ELSE pc[p]]
      /\ visit' = [p \in Pass |-> NoVisit]
  BY DEF Restart
<1>2. \A p \in Pass : pc'[p] \in {"idle", "done", "died"}
  BY <1>1 DEF Running
<1>3. TypeOK' /\ Pending'
  BY <1>1, <1>2 DEF TypeOK, Visiting, Pending, NoVisit, Idle
<1>4. CacheBackedByTick' /\ EntriesExpire' /\ PriceNewer' /\ DomesticWhole'
  BY <1>1 DEF CacheBackedByTick, EntriesExpire, PriceNewer, DomesticWhole, Alive, Idle
<1> QED BY <1>3, <1>4

\* The invariant holds in every reachable state.
THEOREM Invariance == Spec => []IInv
<1>1. IInv /\ [Next]_vars => IInv'
  <2> SUFFICES ASSUME IInv, [Next]_vars PROVE IInv'
    OBVIOUS
  <2>1. ASSUME NEW p \in Pass, Start(p) \/ PassStep(p) PROVE IInv'
    <3>1. ASSUME NEW failed \in SUBSET Chunk, NEW empty \in SUBSET Stock, Fetch(p, failed, empty)
          PROVE  IInv'
      BY <3>1, FetchKeeps
    <3> QED BY <2>1, <3>1, VisitKeeps, StoreKeeps, CacheKeeps DEF PassStep
  <2> QED BY <2>1, ReadKeeps, TickKeeps, RestartKeeps DEF Next
<1> QED BY <1>1, InitSound, PTL DEF Spec

\* The state is always of its type.
THEOREM TypeCorrect == Spec => []TypeOK
BY Invariance, PTL DEF IInv

\* What is cached is in the table of ticks, whichever passes overlap or die.
THEOREM CacheBacked == Spec => []CacheBackedByTick
BY Invariance, PTL DEF IInv

\* A cached quote is never older than its life and the longest way from its
\* capture to the cache.
THEOREM CacheIsFresh == Spec => []CacheFresh
<1>1. IInv => CacheFresh
  <2> SUFFICES ASSUME IInv, NEW u \in User, NEW s \in Stock, Alive(u, s)
               PROVE  now <= cache[<<u, s>>].at + TTL + Delay
    BY DEF CacheFresh
  <2>1. cache[<<u, s>>].at \in Time /\ cache[<<u, s>>].until \in Int /\ now \in Time
    BY DEF IInv, TypeOK, Alive
  <2> QED BY <2>1, Numbers DEF IInv, EntriesExpire
<1> QED BY <1>1, Invariance, PTL

\* What a domestic capture lacks, KIS left out of its answer.
THEOREM CaptureWhole == Spec => []DomesticWhole
BY Invariance, PTL DEF IInv

\* The past a change is measured from is never newer than the price: a cached
\* price is younger than Ago, a stored one was the newest, and no tick stored
\* since is old enough to be the past.
THEOREM ForwardChange == Spec => []ChangeForward
<1>1. IInv => ChangeForward
  <2> SUFFICES ASSUME IInv, reader.stage = "past", reader.price # Never
               PROVE  Past <= reader.price
    BY DEF ChangeForward
  <2> DEFINE t == now - Ago
             past == TickAt(reader.user, reader.stock, t)
  <2>1. TypeOK /\ t \in Int /\ reader.price \in Time
    BY Numbers DEF IInv, TypeOK, PriceNewer
  <2>2. CASE Past = Never
    BY <2>1, <2>2, Numbers DEF Never
  <2>3. CASE Past # Never
    <3>1. Past = past
      BY <2>3 DEF Past
    <3> HIDE DEF t
    <3>2. PICK x \in ticks : x.user = reader.user /\ x.stock = reader.stock /\ x.at = past
      BY <2>1, <2>3, <3>1, TickAtNewest
    <3>3. past <= t
      BY <2>1, <2>3, <3>1, TickAtNewest
    <3>4. x.at <= reader.price
      BY <3>2, <3>3 DEF IInv, PriceNewer, t
    <3> QED BY <3>1, <3>2, <3>4
  <2> QED BY <2>2, <2>3
<1> QED BY <1>1, Invariance, PTL
=============================================================================
