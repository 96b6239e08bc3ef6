------------------------ MODULE KisCredential_proofs ------------------------
(* Proofs about KisAuth and, on top of them, about KisCredential, for any    *)
(* number of users, calls, registrations and keys.                           *)
EXTENDS KisCredential, TLAPS

-----------------------------------------------------------------------------
(* KisAuth *)

\* The tokens and records that the initial state uses have their types.
LEMMA TokenTypes ==
  /\ NoToken \in Token
  /\ NoJob.stage = "none" /\ NoJob.key = None /\ NoJob.token = NoToken
  /\ NoJob \in [stage : {"none", "lookup", "post", "store"},
                key : Key \cup {None}, token : Token]
  /\ Empty \in [token : Token, until : Nat]
  /\ NoResult \in [token : Token, at : Nat]
BY DEF NoToken, Token, NoJob, Empty, NoResult

\* The time to live of any token is a natural number.
LEMMA TtlType == ASSUME NEW t \in Token PROVE Ttl(t) \in Nat
BY KisAuthAssumption DEF Ttl, Token

\* Every step keeps the types.
LEMMA TypeStep == TypeOK /\ [Next]_authVars => TypeOK'
<1> SUFFICES ASSUME TypeOK, [Next]_authVars PROVE TypeOK'
  OBVIOUS
<1> USE DEF TypeOK
<1>1. ASSUME NEW c \in Call, IssueToken(c) PROVE TypeOK'
  <2>1. CASE LookupKey(c)
    BY <2>1, TokenTypes DEF LookupKey
  <2>2. CASE LookupThrows(c)
    BY <2>2, TokenTypes DEF LookupThrows, Settle
  <2>3. CASE KisIssues(c)
    BY <2>3, KisAuthAssumption DEF KisIssues, Token
  <2>4. CASE KisRejects(c)
    BY <2>4, TokenTypes DEF KisRejects, Settle
  <2>5. CASE StoreToken(c) \/ NetworkFails(c)
    <3>1. job[c].token \in Token /\ Ttl(job[c].token) \in Nat
      BY TtlType
    <3>2. cache' \in [User -> [token : Token, until : Nat]]
      BY <2>5, <3>1 DEF StoreToken, NetworkFails, RedisSet
    <3>3. PICK t \in Token : Settle(c, t)
      BY <2>5, <3>1, TokenTypes DEF StoreToken, NetworkFails
    <3> QED BY <3>2, <3>3, TokenTypes DEF Settle
  <2> QED BY <1>1, <2>1, <2>2, <2>3, <2>4, <2>5 DEF IssueToken
<1>2. ASSUME NEW c \in Call, GetAccessToken(c) PROVE TypeOK'
  <2> USE DEF Answer
  <2>1. CASE ServeCached(c)
    BY <2>1 DEF ServeCached
  <2>2. CASE RedisGetFails(c)
    BY <2>2, TokenTypes DEF RedisGetFails
  <2>3. CASE JoinInflight(c)
    BY <2>3 DEF JoinInflight
  <2>4. CASE StartIssue(c)
    BY <2>4, TokenTypes DEF StartIssue
  <2> QED BY <1>2, <2>1, <2>2, <2>3, <2>4 DEF GetAccessToken
<1>3. CASE Tick
  BY <1>3 DEF Tick
<1>4. CASE Restart
  BY <1>4, TokenTypes DEF Restart
<1>5. ASSUME NEW u \in User, NEW k \in Key \cup {None}, KeyWritten(u, k) PROVE TypeOK'
  BY <1>5 DEF KeyWritten
<1>6. CASE UNCHANGED authVars
  BY <1>6 DEF authVars
<1> QED BY <1>1, <1>2, <1>3, <1>4, <1>5, <1>6 DEF Next

\* Every variable keeps its type.
THEOREM TypeCorrect == Spec => []TypeOK
<1>1. Init => TypeOK
  BY TokenTypes DEF Init, TypeOK
<1> QED BY <1>1, TypeStep, PTL DEF Spec

-----------------------------------------------------------------------------
(* The inflight map is exact. *)

\* Settling an issuance empties the right entry and wakes the right callers.
LEMMA SettleKeepsInflight ==
  ASSUME TypeOK, InflightSound, NEW c \in Call, NEW t, Running(c), Settle(c, t)
  PROVE  InflightSound'
<1> USE DEF TypeOK, InflightSound, Running
<1>1. \A u \in User : inflight'[u] # None =>
        inflight'[u] # c /\ inflight'[u] = inflight[u] /\ u # user[c]
  BY DEF Settle
<1>2. \A u \in User : (inflight[u] # None => Running(inflight[u]) /\ user[inflight[u]] = u)'
  BY <1>1, KisAuthAssumption DEF Settle
<1>3. \A d \in Call : (Running(d) => inflight[user[d]] = d)'
  <2> SUFFICES ASSUME NEW d \in Call, Running(d)' PROVE inflight'[user'[d]] = d
    OBVIOUS
  <2>1. d # c /\ Running(d)
    BY TokenTypes DEF Settle
  <2>2. user[d] # user[c]
    BY <2>1
  <2> QED BY <2>1, <2>2 DEF Settle
<1>4. \A d \in Call : (pc[d] = "await" => Running(on[d]) /\ user[on[d]] = user[d])'
  <2> SUFFICES ASSUME NEW d \in Call, pc'[d] = "await"
               PROVE  Running(on[d])' /\ user'[on'[d]] = user'[d]
    OBVIOUS
  <2>1. pc[d] = "await" /\ on[d] # c
    BY DEF Settle
  <2> QED BY <2>1, KisAuthAssumption DEF Settle
<1> QED BY <1>2, <1>3, <1>4

\* The inflight map names exactly the running issuances, for any number of
\* calls and users, through failures, expiries and restarts.
THEOREM InflightCorrect == Spec => []InflightSound
<1>1. Init => InflightSound
  BY TokenTypes DEF Init, InflightSound, Running
<1>2. TypeOK /\ InflightSound /\ [Next]_authVars => InflightSound'
  <2> SUFFICES ASSUME TypeOK, InflightSound, [Next]_authVars PROVE InflightSound'
    OBVIOUS
  <2>1. ASSUME NEW c \in Call, IssueToken(c) PROVE InflightSound'
    <3>1. CASE LookupKey(c)
      BY <3>1 DEF LookupKey, TypeOK, InflightSound, Running
    <3>2. CASE KisIssues(c)
      BY <3>2 DEF KisIssues, TypeOK, InflightSound, Running
    <3>3. CASE LookupThrows(c) \/ KisRejects(c) \/ StoreToken(c) \/ NetworkFails(c)
      <4>1. Running(c)
        BY <3>3 DEF Running, LookupThrows, KisRejects, StoreToken, RedisSet, NetworkFails
      <4>2. \E t : Settle(c, t)
        BY <3>3 DEF LookupThrows, KisRejects, StoreToken, NetworkFails
      <4> QED BY <4>1, <4>2, SettleKeepsInflight
    <3> QED BY <2>1, <3>1, <3>2, <3>3 DEF IssueToken
  <2>2. ASSUME NEW c \in Call, GetAccessToken(c) PROVE InflightSound'
    <3>1. CASE ServeCached(c) \/ RedisGetFails(c)
      BY <3>1 DEF ServeCached, RedisGetFails, Answer, TypeOK, InflightSound, Running
    <3>2. CASE JoinInflight(c)
      BY <3>2, KisAuthAssumption DEF JoinInflight, TypeOK, InflightSound, Running
    <3>3. CASE StartIssue(c)
      BY <3>3, KisAuthAssumption DEF StartIssue, TypeOK, InflightSound, Running
    <3> QED BY <2>2, <3>1, <3>2, <3>3 DEF GetAccessToken
  <2>3. CASE Tick
    BY <2>3 DEF Tick, TypeOK, InflightSound, Running
  <2>4. CASE Restart
    BY <2>4, TokenTypes DEF Restart, TypeOK, InflightSound, Running
  <2>5. ASSUME NEW u \in User, NEW k \in Key \cup {None}, KeyWritten(u, k)
        PROVE  InflightSound'
    BY <2>5 DEF KeyWritten, InflightSound, Running
  <2>6. CASE UNCHANGED authVars
    BY <2>6 DEF authVars, InflightSound, Running
  <2> QED BY <2>1, <2>2, <2>3, <2>4, <2>5, <2>6 DEF Next
<1> QED BY <1>1, <1>2, TypeCorrect, PTL DEF Spec

\* At most one issuance per user runs at any time.
THEOREM IssuanceExclusive == Spec => []OneIssuancePerUser
<1>1. InflightSound => OneIssuancePerUser
  BY DEF InflightSound, OneIssuancePerUser
<1> QED BY <1>1, InflightCorrect, PTL

-----------------------------------------------------------------------------
(* Tokens and time. *)

\* An issued token waits at most MaxDelay to be cached and outlives that
\* delay by the floor of the TTL; a cache entry never outlives its token.
TokenTiming ==
  /\ \A c \in Call : job[c].stage = "store" =>
       /\ job[c].token.iat <= now /\ now <= job[c].token.iat + MaxDelay
       /\ job[c].token.iat + MinTtl + MaxDelay <= job[c].token.exp
  /\ \A u \in User : cache[u].until <= cache[u].token.exp

IInv == TypeOK /\ InflightSound /\ NoIssueWhileCached /\ TokenTiming /\ ServedTokenAlive

\* The entry that caches a token in time expires no later than the token.
LEMMA TtlWithinLife ==
  ASSUME NEW t \in Token, NEW n \in Nat,
         n <= t.iat + MaxDelay, t.iat + MinTtl + MaxDelay <= t.exp
  PROVE  n + Ttl(t) <= t.exp /\ n < t.exp
<1> t.iat \in Nat /\ t.exp \in Nat
  BY DEF Token
<1> DEFINE left == t.exp - t.iat
<1>1. CASE left >= Margin + MinTtl
  BY <1>1, KisAuthAssumption, LifetimeAssumption DEF Ttl
<1>2. CASE ~(left >= Margin + MinTtl)
  BY <1>2, KisAuthAssumption, LifetimeAssumption DEF Ttl
<1> QED BY <1>1, <1>2

\* Settling issuance c with its token, or with none, keeps what was served alive.
LEMMA SettleServesAlive ==
  ASSUME TypeOK, ServedTokenAlive, NEW c \in Call, NEW t \in Token,
         t.key # None => now < t.exp, Settle(c, t)
  PROVE  ServedTokenAlive'
<1> SUFFICES ASSUME NEW d \in Call, pc'[d] = "done", result'[d].token.key # None
             PROVE  result'[d].at < result'[d].token.exp
  BY DEF ServedTokenAlive
<1>1. CASE pc[d] = "await" /\ on[d] = c
  BY <1>1 DEF Settle
<1>2. CASE ~(pc[d] = "await" /\ on[d] = c)
  BY <1>2 DEF Settle, ServedTokenAlive
<1> QED BY <1>1, <1>2

\* Steps that leave the cache and the clock alone and add no issuance.
LEMMA SettleKeepsTiming ==
  ASSUME TypeOK, NoIssueWhileCached, TokenTiming, NEW c \in Call, NEW t,
         Settle(c, t), UNCHANGED cache
  PROVE  NoIssueWhileCached' /\ TokenTiming'
BY TokenTypes DEF TypeOK, NoIssueWhileCached, TokenTiming, Settle, Running, Cached

\* Redis executes the SET, and the issuance settles with its token or, when
\* the reply is lost, with none.
LEMMA RedisSetStep ==
  ASSUME IInv, NEW c \in Call, RedisSet(c), NEW u \in {NoToken, job[c].token}, Settle(c, u)
  PROVE  NoIssueWhileCached' /\ TokenTiming' /\ ServedTokenAlive'
<1> USE DEF IInv
<1> DEFINE t == job[c].token
<1>1. t \in Token /\ user[c] \in User /\ now \in Nat /\ Running(c)
  BY DEF RedisSet, TypeOK, Running
<1>2. now + Ttl(t) <= t.exp /\ now < t.exp
  BY <1>1, TtlWithinLife DEF RedisSet, TokenTiming
<1>3. ServedTokenAlive'
  <2>1. u \in Token /\ (u.key # None => now < u.exp)
    BY <1>1, <1>2, TokenTypes DEF NoToken
  <2> QED BY <2>1, SettleServesAlive
<1>4. \A d \in Call : Running(d)' => d # c /\ Running(d) /\ user'[d] = user[d]
                                     /\ user[d] # user[c]
  BY <1>1, TokenTypes DEF Settle, Running, TypeOK, InflightSound
<1>5. NoIssueWhileCached'
  <2> SUFFICES ASSUME NEW d \in Call, Running(d)' PROVE ~(Cached(user[d]))'
    BY DEF NoIssueWhileCached, Settle
  <2>1. ~Cached(user[d]) /\ user[d] # user[c] /\ now' = now
    BY <1>4 DEF NoIssueWhileCached, Settle
  <2>2. cache'[user[d]] = cache[user[d]]
    BY <2>1 DEF RedisSet, TypeOK
  <2> QED BY <2>1, <2>2 DEF Cached, Settle
<1>6. cache' = [cache EXCEPT ![user[c]] = [token |-> t, until |-> now + Ttl(t)]]
  BY DEF RedisSet
<1>7. \A v \in User : (cache[v].until <= cache[v].token.exp)'
  BY <1>1, <1>2, <1>6 DEF TypeOK, TokenTiming
<1>8. \A d \in Call : (job[d].stage = "store")' =>
          job'[d] = job[d] /\ job[d].stage = "store"
  BY TokenTypes DEF Settle, TypeOK
<1>9. now' = now
  BY DEF Settle
<1>10. TokenTiming'
  BY <1>7, <1>8, <1>9 DEF TokenTiming
<1> QED BY <1>3, <1>5, <1>10

\* One step of an issuance keeps the invariant's parts about tokens.
LEMMA IssueTokenStep ==
  ASSUME IInv, NEW c \in Call, IssueToken(c)
  PROVE  NoIssueWhileCached' /\ TokenTiming' /\ ServedTokenAlive'
<1> USE DEF IInv
<1>1. CASE LookupKey(c)
  BY <1>1 DEF LookupKey, TypeOK, NoIssueWhileCached, TokenTiming, ServedTokenAlive,
              Running, Cached
<1>2. CASE KisIssues(c)
  <2>1. NoIssueWhileCached' /\ ServedTokenAlive'
    BY <1>2 DEF KisIssues, TypeOK, NoIssueWhileCached, ServedTokenAlive, Running, Cached
  <2>2. TokenTiming'
    <3> PICK life \in Lifetimes : job' = [job EXCEPT ![c] =
                 [stage |-> "store", key |-> job[c].key,
                  token |-> [key |-> job[c].key, iat |-> now, exp |-> now + life]]]
      BY <1>2 DEF KisIssues
    <3>1. now' = now /\ cache' = cache
      BY <1>2 DEF KisIssues
    <3>2. MinTtl + MaxDelay <= life /\ life \in Nat /\ now \in Nat
      BY LifetimeAssumption, KisAuthAssumption DEF TypeOK
    <3> QED BY <3>1, <3>2, KisAuthAssumption DEF TypeOK, TokenTiming
  <2> QED BY <2>1, <2>2
<1>3. CASE Settle(c, NoToken) /\ UNCHANGED cache
  <2>1. ServedTokenAlive'
    BY <1>3, SettleServesAlive, TokenTypes DEF NoToken
  <2> QED BY <1>3, <2>1, SettleKeepsTiming
<1>4. CASE RedisSet(c) /\ \E u \in {NoToken, job[c].token} : Settle(c, u)
  BY <1>4, RedisSetStep
<1> QED BY <1>1, <1>2, <1>3, <1>4
        DEF IssueToken, LookupThrows, KisRejects, StoreToken, NetworkFails

\* One step of getAccessToken's synchronous part keeps them too.
LEMMA GetAccessTokenStep ==
  ASSUME IInv, NEW c \in Call, GetAccessToken(c)
  PROVE  NoIssueWhileCached' /\ TokenTiming' /\ ServedTokenAlive'
<1> USE DEF IInv
<1>1. CASE ServeCached(c)
  <2>1. now < cache[user[c]].token.exp
    BY <1>1 DEF ServeCached, Cached, TokenTiming, TypeOK, Token
  <2>2. ServedTokenAlive'
    BY <1>1, <2>1 DEF ServeCached, Answer, ServedTokenAlive, TypeOK
  <2>3. NoIssueWhileCached' /\ TokenTiming'
    BY <1>1 DEF ServeCached, NoIssueWhileCached, TokenTiming, Running, Cached
  <2> QED BY <2>2, <2>3
<1>2. CASE RedisGetFails(c)
  BY <1>2 DEF RedisGetFails, Answer, NoToken, NoIssueWhileCached, TokenTiming,
              ServedTokenAlive, Running, Cached, TypeOK
<1>3. CASE JoinInflight(c)
  BY <1>3 DEF JoinInflight, NoIssueWhileCached, TokenTiming, ServedTokenAlive,
              Running, Cached, TypeOK
<1>4. CASE StartIssue(c)
  BY <1>4 DEF StartIssue, NoIssueWhileCached, TokenTiming, ServedTokenAlive,
              Running, Cached, TypeOK
<1> QED BY <1>1, <1>2, <1>3, <1>4 DEF GetAccessToken

\* The inductive invariant.
THEOREM Invariance == Spec => []IInv
<1>1. Init => IInv
  <2>1. Init => NoIssueWhileCached /\ TokenTiming /\ ServedTokenAlive
    BY TokenTypes DEF Init, NoIssueWhileCached, TokenTiming, ServedTokenAlive, Running,
                      Empty, NoToken
  <2>2. Init => TypeOK /\ InflightSound
    BY TokenTypes DEF Init, TypeOK, InflightSound, Running
  <2> QED BY <2>1, <2>2 DEF IInv
<1>2. IInv /\ TypeOK' /\ InflightSound' /\ [Next]_authVars => IInv'
  <2> SUFFICES ASSUME IInv, [Next]_authVars
               PROVE  NoIssueWhileCached' /\ TokenTiming' /\ ServedTokenAlive'
    BY DEF IInv
  <2>1. CASE \E c \in Call : GetAccessToken(c) \/ IssueToken(c)
    BY <2>1, GetAccessTokenStep, IssueTokenStep
  <2>2. CASE Tick
    <3>1. NoIssueWhileCached' /\ ServedTokenAlive'
      BY <2>2 DEF Tick, IInv, TypeOK, NoIssueWhileCached, ServedTokenAlive, Running, Cached
    <3>2. TokenTiming'
      BY <2>2, KisAuthAssumption DEF Tick, IInv, TypeOK, Token, TokenTiming
    <3> QED BY <3>1, <3>2
  <2>3. CASE Restart
    BY <2>3, TokenTypes DEF Restart, IInv, TypeOK, NoIssueWhileCached, TokenTiming,
                            ServedTokenAlive, Running, Cached
  <2>4. CASE \E u \in User, k \in Key \cup {None} : KeyWritten(u, k)
    BY <2>4 DEF KeyWritten, IInv, NoIssueWhileCached, TokenTiming, ServedTokenAlive,
                Running, Cached
  <2>5. CASE UNCHANGED authVars
    BY <2>5 DEF authVars, IInv, NoIssueWhileCached, TokenTiming, ServedTokenAlive,
                Running, Cached
  <2> QED BY <2>1, <2>2, <2>3, <2>4, <2>5 DEF Next
<1> QED BY <1>1, <1>2, TypeCorrect, InflightCorrect, PTL DEF Spec

\* No token is requested while one is cached, for every instance.
THEOREM NeverIssuesWhileCached == Spec => []NoIssueWhileCached
BY Invariance, PTL DEF IInv

\* Every token returned is still valid, whatever lifetimes KIS grants and
\* however long the answer takes within MaxDelay.
THEOREM ServedAlive == Spec => []ServedTokenAlive
BY Invariance, PTL DEF IInv

-----------------------------------------------------------------------------
\* An entry with a token that lives long enough expires Margin before the
\* token, give or take the delay of storing it.
EntryEndsEarly ==
  \A u \in User :
    LET t == cache[u].token IN
    t.exp - t.iat >= Margin + MinTtl => cache[u].until + Margin <= t.exp + MaxDelay

\* Only storing a token writes the cache.
LEMMA CacheWrites ==
  ASSUME [Next]_authVars PROVE UNCHANGED cache \/ \E c \in Call : RedisSet(c)
BY DEF Next, GetAccessToken, ServeCached, RedisGetFails, JoinInflight, StartIssue, IssueToken,
       LookupKey, LookupThrows, KisIssues, KisRejects, StoreToken, NetworkFails, KeyWritten,
       Tick, Restart, authVars

\* The cache never holds a token in the last Margin seconds of its life.
THEOREM ReissuedEarly == Spec => []ReissuedBeforeMargin
<1>1. Init => EntryEndsEarly
  BY KisAuthAssumption DEF Init, EntryEndsEarly, Empty, NoToken
<1>2. IInv /\ EntryEndsEarly /\ [Next]_authVars => EntryEndsEarly'
  <2> SUFFICES ASSUME IInv, EntryEndsEarly, [Next]_authVars PROVE EntryEndsEarly'
    OBVIOUS
  <2>1. CASE UNCHANGED cache
    BY <2>1 DEF EntryEndsEarly
  <2>2. ASSUME NEW c \in Call, RedisSet(c) PROVE EntryEndsEarly'
    <3> DEFINE t == job[c].token
    <3>1. /\ cache' = [cache EXCEPT ![user[c]] = [token |-> t, until |-> now + Ttl(t)]]
          /\ cache \in [User -> [token : Token, until : Nat]]
          /\ t \in Token /\ now \in Nat /\ now <= t.iat + MaxDelay
      BY <2>2 DEF RedisSet, IInv, TypeOK, TokenTiming
    <3>2. t.iat \in Nat /\ t.exp \in Nat
      BY <3>1 DEF Token
    <3>3. t.exp - t.iat >= Margin + MinTtl => now + Ttl(t) + Margin <= t.exp + MaxDelay
      BY <3>1, <3>2, KisAuthAssumption DEF Ttl
    <3> HIDE DEF t
    <3> QED BY <3>1, <3>3 DEF EntryEndsEarly
  <2> QED BY <2>1, <2>2, CacheWrites
<1>3. TypeOK /\ EntryEndsEarly => ReissuedBeforeMargin
  BY KisAuthAssumption DEF TypeOK, Token, EntryEndsEarly, ReissuedBeforeMargin, Cached
<1> QED BY <1>1, <1>2, <1>3, Invariance, PTL DEF Spec, IInv

-----------------------------------------------------------------------------
(* KisCredential *)

\* A step of the composition is a step of KisAuth or leaves its state alone.
LEMMA CredStep == CredTypeOK /\ [CredNext]_credVars => [Next]_authVars
<1> SUFFICES ASSUME CredTypeOK, [CredNext]_credVars PROVE [Next]_authVars
  OBVIOUS
<1>1. ASSUME NEW r \in Reg, Register(r) PROVE [Next]_authVars
  <2>1. r \in Call /\ user[r] \in User /\ offered[r] \in Key \cup {None}
    BY KisCredentialAssumption DEF CredTypeOK, TypeOK
  <2>2. CASE SaveKey(r)
    BY <2>1, <2>2 DEF SaveKey, Next
  <2>3. CASE Rollback(r)
    BY <2>1, <2>3 DEF Rollback, Next
  <2>4. CASE RefuseDuplicate(r) \/ CheckExisting(r) \/ Accept(r) \/ Refuse(r)
    BY <2>4 DEF RefuseDuplicate, CheckExisting, Accept, Refuse
  <2>5. CASE DatabaseFails(r)
    BY <2>1, <2>5 DEF DatabaseFails, Next
  <2> QED BY <1>1, <2>2, <2>3, <2>4, <2>5 DEF Register
<1>2. ASSUME NEW c \in Call, TokenStep(c) PROVE [Next]_authVars
  BY <1>2 DEF TokenStep, Next
<1>3. CASE CredTick
  BY <1>3 DEF CredTick, Next
<1>4. CASE CredRestart
  BY <1>4 DEF CredRestart, Next
<1>5. CASE UNCHANGED credVars
  BY <1>5 DEF credVars, authVars
<1> QED BY <1>1, <1>2, <1>3, <1>4, <1>5 DEF CredNext

\* Every variable of the composition keeps its type.
THEOREM CredTypeCorrect == CredSpec => []CredTypeOK
<1>1. CredInit => CredTypeOK
  BY TokenTypes DEF CredInit, CredTypeOK, Init, TypeOK
<1>2. CredTypeOK /\ [CredNext]_credVars => CredTypeOK'
  <2> SUFFICES ASSUME CredTypeOK, [CredNext]_credVars PROVE CredTypeOK'
    OBVIOUS
  <2>1. TypeOK'
    BY CredStep, TypeStep DEF CredTypeOK
  <2> USE DEF CredTypeOK, Pending, Answered
  <2>2. ASSUME NEW r \in Reg, Register(r) PROVE CredTypeOK'
    BY <2>1, <2>2 DEF Register, RefuseDuplicate, CheckExisting, SaveKey, Accept, Refuse,
                      Rollback, DatabaseFails, Becomes, Begins, InProgress
  <2>3. ASSUME NEW c \in Call, TokenStep(c) PROVE CredTypeOK'
    BY <2>1, <2>3 DEF TokenStep
  <2>4. CASE CredTick \/ CredRestart
    BY <2>1, <2>4 DEF CredTick, CredRestart
  <2>5. CASE UNCHANGED credVars
    BY <2>1, <2>5 DEF credVars
  <2> QED BY <2>2, <2>3, <2>4, <2>5 DEF CredNext
<1> QED BY <1>1, <1>2, PTL DEF CredSpec

\* The composition implements KisAuth: registrations touch the token cache
\* through KisAuth's operations only.
THEOREM CredImplementsKisAuth == CredSpec => Spec
<1>1. CredInit => Init
  BY DEF CredInit
<1> QED BY <1>1, CredStep, CredTypeCorrect, PTL DEF CredSpec, Spec

\* Racing registrations still share one issuance per user.
THEOREM CredIssuanceExclusive == CredSpec => []OneIssuancePerUser
BY CredImplementsKisAuth, IssuanceExclusive, PTL

-----------------------------------------------------------------------------
(* Registrations, overlapping or not. *)

\* Registrations of one user that are past their check together are recorded.
OverlapsKnown ==
  \A r, s \in Reg :
    /\ reg[r] \in Pending /\ reg[s] \in Pending
    /\ user[r] = user[s] /\ r # s
    => r \in overlapped

\* A registration alone finds the key where it has put it.
SavedKeyKept ==
  \A r \in Reg : reg[r] = "token" /\ r \notin overlapped => keys[user[r]] = offered[r]

\* Once a registration that overlapped none is accepted, none of the same user
\* is past its check, so nothing writes the key any more.
AcceptedIsLast ==
  \A r \in Reg : reg[r] = "created" /\ r \notin overlapped =>
    keys[user[r]] = offered[r] /\ InProgress(user[r]) = {}

RegInv == CredTypeOK /\ OverlapsKnown /\ SavedKeyKept /\ AcceptedIsLast /\ DuplicateRefused

\* A registration passes its check: no key is stored, so no registration that
\* overlapped none has been accepted.
LEMMA CheckStep ==
  ASSUME RegInv, CredTypeOK', NEW r \in Reg, CheckExisting(r)
  PROVE  RegInv'
<1>1. /\ UNCHANGED <<keys, user, offered>> /\ reg'[r] = "save" /\ reg[r] = "idle"
      /\ \A s \in Reg \ {r} : reg'[s] = reg[s]
      /\ overlapped \subseteq overlapped'
      /\ \A s \in Reg \ {r} : user[s] = user[r] /\ reg[s] \in Pending =>
           s \in overlapped' /\ r \in overlapped'
  BY DEF RegInv, CredTypeOK, CheckExisting, Begins, InProgress, authVars
<1>2. \A s \in Reg : user[s] = user[r] /\ reg[s] = "created" => s \in overlapped
  BY KisAuthAssumption DEF RegInv, AcceptedIsLast, CredTypeOK, CheckExisting
<1>3. OverlapsKnown'
  BY <1>1 DEF RegInv, OverlapsKnown
<1>4. SavedKeyKept' /\ DuplicateRefused'
  BY <1>1 DEF RegInv, SavedKeyKept, DuplicateRefused
<1>5. AcceptedIsLast'
  BY <1>1, <1>2 DEF RegInv, AcceptedIsLast, InProgress
<1> QED BY <1>3, <1>4, <1>5 DEF RegInv

\* Another step of a registration: one that writes the key is past its check,
\* so no registration of the user that overlapped none is accepted or waiting.
LEMMA WriteStep ==
  ASSUME RegInv, CredTypeOK', NEW r \in Reg, UNCHANGED <<user, offered, overlapped>>,
         \A s \in Reg \ {r} : reg'[s] = reg[s],
         \A u \in User \ {user[r]} : keys'[u] = keys[u],
         reg[r] \in Pending \/ UNCHANGED keys,
         reg'[r] \in Pending => reg[r] \in Pending,
         reg'[r] = "created" => reg[r] = "token" /\ UNCHANGED keys,
         reg'[r] = "token" => keys'[user[r]] = offered[r]
  PROVE  RegInv'
<1>1. \A s \in Reg : user[s] \in User
  BY KisCredentialAssumption DEF RegInv, CredTypeOK, TypeOK
<1>2. OverlapsKnown'
  BY DEF RegInv, OverlapsKnown
<1>3. SavedKeyKept'
  <2> SUFFICES ASSUME NEW s \in Reg, reg'[s] = "token", s \notin overlapped
               PROVE  keys'[user[s]] = offered[s]
    BY DEF SavedKeyKept
  <2>1. CASE s # r
    <3>1. reg[s] = "token" /\ keys[user[s]] = offered[s]
      BY <2>1 DEF RegInv, SavedKeyKept
    <3>2. keys'[user[s]] = keys[user[s]]
      BY <1>1, <2>1, <3>1 DEF RegInv, OverlapsKnown, Pending
    <3> QED BY <3>1, <3>2
  <2> QED BY <2>1
<1>4. ASSUME NEW s \in Reg, reg'[s] = "created", s \notin overlapped
      PROVE  (keys[user[s]] = offered[s] /\ InProgress(user[s]) = {})'
  <2>1. CASE s = r
    <3>1. keys[user[s]] = offered[s] /\ UNCHANGED keys
      BY <1>4, <2>1 DEF RegInv, SavedKeyKept
    <3>2. \A q \in Reg \ {r} : user[q] = user[r] => reg[q] \notin Pending
      BY <1>4, <2>1 DEF RegInv, OverlapsKnown, Pending
    <3>3. InProgress(user[s])' = {}
      BY <1>4, <2>1, <3>2 DEF InProgress, Pending
    <3> QED BY <3>1, <3>3
  <2>2. CASE s # r
    <3>1. keys[user[s]] = offered[s] /\ InProgress(user[s]) = {}
      BY <1>4, <2>2 DEF RegInv, AcceptedIsLast
    <3>2. \A q \in Reg : user[q] = user[s] => reg[q] \notin Pending
      BY <3>1 DEF InProgress
    <3>3. keys'[user[s]] = keys[user[s]]
      BY <1>1, <3>2
    <3>4. InProgress(user[s])' = {}
      BY <3>2 DEF InProgress
    <3> QED BY <3>1, <3>3, <3>4
  <2> QED BY <2>1, <2>2
<1>5. DuplicateRefused'
  <2> SUFFICES ASSUME NEW s \in Reg, NEW q \in Reg, reg'[s] = "created", reg'[q] = "created",
                      user[s] = user[q], s # q, s \notin overlapped, q \notin overlapped
               PROVE  FALSE
    BY DEF DuplicateRefused
  <2>1. reg[s] = "created" \/ reg[q] = "created"
    OBVIOUS
  <2>2. reg[s] \in Pending \cup {"created"} /\ reg[q] \in Pending \cup {"created"}
    BY DEF Pending
  <2> QED BY <2>1, <2>2 DEF RegInv, DuplicateRefused, AcceptedIsLast, InProgress
<1>6. AcceptedIsLast'
  BY <1>4 DEF AcceptedIsLast
<1> QED BY <1>2, <1>3, <1>5, <1>6 DEF RegInv

\* A step of a registration.
LEMMA RegisterStep ==
  ASSUME RegInv, CredTypeOK', NEW r \in Reg, Register(r), ~CheckExisting(r)
  PROVE  RegInv'
<1> USE DEF Register, RefuseDuplicate, SaveKey, Accept, Refuse, Rollback, DatabaseFails
<1>1. UNCHANGED <<user, offered, overlapped>> /\ \A s \in Reg \ {r} : reg'[s] = reg[s]
  BY DEF RegInv, CredTypeOK, Becomes, KeyWritten, authVars
<1>2. \A u \in User \ {user[r]} : keys'[u] = keys[u]
  BY DEF RegInv, CredTypeOK, TypeOK, KeyWritten, authVars
<1>3. reg[r] \in Pending \/ UNCHANGED keys
  BY DEF Pending, authVars
<1>4. reg'[r] \in Pending => reg[r] \in Pending
  BY DEF RegInv, CredTypeOK, Becomes, Pending
<1>5. reg'[r] = "created" => reg[r] = "token" /\ UNCHANGED keys
  BY DEF RegInv, CredTypeOK, Becomes, authVars
<1>6. reg'[r] = "token" => keys'[user[r]] = offered[r]
  BY KisCredentialAssumption DEF RegInv, CredTypeOK, TypeOK, Becomes, KeyWritten
<1> QED BY <1>1, <1>2, <1>3, <1>4, <1>5, <1>6, WriteStep

\* The invariant of racing registrations, whatever pollers, failures and
\* restarts do.
THEOREM RegInvariance == CredSpec => []RegInv
<1>1. CredInit /\ CredTypeOK => RegInv
  BY DEF CredInit, RegInv, OverlapsKnown, SavedKeyKept, AcceptedIsLast, DuplicateRefused,
         Pending
<1>2. RegInv /\ CredTypeOK' /\ [CredNext]_credVars => RegInv'
  <2> SUFFICES ASSUME RegInv, CredTypeOK', [CredNext]_credVars PROVE RegInv'
    OBVIOUS
  <2>1. ASSUME NEW r \in Reg, Register(r) PROVE RegInv'
    BY <2>1, CheckStep, RegisterStep
  <2>2. ASSUME UNCHANGED <<keys, user, offered, overlapped>>,
               \A s \in Reg : reg'[s] \in Pending \cup {"created"} => reg'[s] = reg[s]
        PROVE  RegInv'
    BY <2>2 DEF RegInv, OverlapsKnown, SavedKeyKept, AcceptedIsLast, InProgress,
                DuplicateRefused, Pending
  <2>3. ASSUME NEW c \in Call, TokenStep(c) PROVE RegInv'
    BY <2>2, <2>3 DEF TokenStep, GetAccessToken, ServeCached, RedisGetFails, JoinInflight,
       StartIssue, IssueToken, LookupKey, LookupThrows, KisIssues, KisRejects, StoreToken,
       NetworkFails, Settle
  <2>4. CASE CredTick \/ CredRestart
    <3>1. UNCHANGED <<keys, user, offered, overlapped>>
      BY <2>4 DEF CredTick, CredRestart, Tick, Restart
    <3>2. \A s \in Reg : reg'[s] \in Pending \cup {"created"} => reg'[s] = reg[s]
      BY <2>4 DEF CredTick, CredRestart, Pending
    <3> QED BY <2>2, <3>1, <3>2
  <2>5. CASE UNCHANGED credVars
    BY <2>2, <2>5 DEF credVars
  <2> QED BY <2>1, <2>3, <2>4, <2>5 DEF CredNext
<1> QED BY <1>1, <1>2, CredTypeCorrect, PTL DEF CredSpec

\* Of two registrations of a user that are both answered 201, one was past its
\* check together with another; every client may send any number of them.
THEOREM DuplicatesRefused == CredSpec => []DuplicateRefused
BY RegInvariance, PTL DEF RegInv

\* The key of an accepted registration that overlapped none stays the stored one.
THEOREM AcceptedStays == CredSpec => []AcceptedKeyStays
<1>1. RegInv => AcceptedKeyStays
  <2> SUFFICES ASSUME RegInv, NEW r \in Reg, reg[r] = "created", r \notin overlapped
               PROVE  GetStatus(user[r]).registered /\ keys[user[r]] = offered[r]
    BY DEF AcceptedKeyStays
  <2>1. keys[user[r]] = offered[r] /\ offered[r] # None
    BY KisAuthAssumption DEF RegInv, AcceptedIsLast, CredTypeOK
  <2> QED BY <2>1 DEF GetStatus
<1> QED BY <1>1, RegInvariance, PTL
=============================================================================
