------------------------------ MODULE KisAuth ------------------------------
(***************************************************************************)
(* KisAuthService (src/src/modules/kis/kisAuth/kisAuth.service.ts): the    *)
(* access tokens of the brokerage API (KIS), one per user, cached in Redis *)
(* and issued at most once at a time per user through the in-memory        *)
(* `inflight` map.                                                         *)
(*                                                                         *)
(* A Call is one invocation of getAccessToken.  Every await of the code    *)
(* ends an action, so calls interleave exactly where the event loop lets   *)
(* them.  The Redis reply and the synchronous code after it are one step:  *)
(* there is one Redis connection and its replies arrive in order, so a     *)
(* reply "no token" is always handled before the reply of a later SET.     *)
(***************************************************************************)
EXTENDS Naturals, FiniteSets

CONSTANTS
  User, Call, Key,
  ValidKey,    \* the keys KIS accepts
  Lifetimes,   \* the values expires_in of a KIS answer may have
  Margin,      \* TOKEN_EXPIRE_MARGIN_SEC
  MinTtl,      \* the floor of the cache entry's time to live
  MaxDelay,    \* from the moment KIS issues a token until Redis has it
  MaxTime,     \* bound on the clock
  None

ASSUME KisAuthAssumption ==
  /\ None \notin User \cup Call \cup Key
  /\ ValidKey \subseteq Key
  /\ Lifetimes \subseteq Nat
  /\ Margin \in Nat /\ MinTtl \in Nat \ {0}
  /\ MaxDelay \in Nat /\ MaxTime \in Nat

\* KIS tokens outlive the floor of the TTL, and the margin exceeds the delay
\* of caching (600 s against a 5 s HTTP timeout and a Redis round trip).
ASSUME LifetimeAssumption ==
  /\ MaxDelay <= Margin
  /\ \A life \in Lifetimes : MinTtl + MaxDelay <= life

VARIABLES
  now,       \* the clock, in seconds
  keys,      \* users.kis_app_key_enc, None when the column is null
  cache,     \* Redis kis:token:<user>: a token and the time the entry expires
  inflight,  \* the map of running issuances: the call that started it
  job,       \* the issuance a call started: stage, key it read, KIS's answer
  user,      \* the userId argument of a call, fixed from the start
  pc,        \* where a call is: "idle", "await", "done" or "lost"
  on,        \* the call whose promise an awaiting call waits for
  result     \* the token a call returned (NoToken: it threw) and when

authVars == <<now, keys, cache, inflight, job, user, pc, on, result>>

Token == [key : Key \cup {None}, iat : Nat, exp : Nat]
NoToken == [key |-> None, iat |-> 0, exp |-> 0]
NoJob == [stage |-> "none", key |-> None, token |-> NoToken]
Empty == [token |-> NoToken, until |-> 0]
NoResult == [token |-> NoToken, at |-> 0]

TypeOK ==
  /\ now \in Nat
  /\ keys \in [User -> Key \cup {None}]
  /\ cache \in [User -> [token : Token, until : Nat]]
  /\ inflight \in [User -> Call \cup {None}]
  /\ job \in [Call -> [stage : {"none", "lookup", "post", "store"},
                       key : Key \cup {None}, token : Token]]
  /\ user \in [Call -> User]
  /\ pc \in [Call -> {"idle", "await", "done", "lost"}]
  /\ on \in [Call -> Call \cup {None}]
  /\ result \in [Call -> [token : Token, at : Nat]]

Init ==
  /\ now = 0
  /\ keys \in [User -> Key \cup {None}]
  /\ cache = [u \in User |-> Empty]
  /\ inflight = [u \in User |-> None]
  /\ job = [c \in Call |-> NoJob]
  /\ user \in [Call -> User]
  /\ pc = [c \in Call |-> "idle"]
  /\ on = [c \in Call |-> None]
  /\ result = [c \in Call |-> NoResult]

Cached(u) == now < cache[u].until

\* Mutants of Ttl: no margin; half of it.
TtlNoMargin(t) == t.exp - t.iat

TtlHalfMargin(t) ==
  LET left == t.exp - t.iat IN
  IF left >= Margin + MinTtl THEN left - Margin \div 2 ELSE MinTtl

\* TTL of a cache entry: Math.max(expires_in - TOKEN_EXPIRE_MARGIN_SEC, 60).
Ttl(t) ==
  LET left == t.exp - t.iat IN
  IF left >= Margin + MinTtl THEN left - Margin ELSE MinTtl

-----------------------------------------------------------------------------
(* getAccessToken: the Redis read and what follows it without an await. *)

Answer(c, t) ==
  /\ pc' = [pc EXCEPT ![c] = "done"]
  /\ result' = [result EXCEPT ![c] = [token |-> t, at |-> now]]

ServeCached(c) ==
  /\ pc[c] = "idle"
  /\ Cached(user[c])
  /\ Answer(c, cache[user[c]].token)
  /\ UNCHANGED <<now, keys, cache, inflight, job, user, on>>

RedisGetFails(c) ==
  /\ pc[c] = "idle"
  /\ Answer(c, NoToken)
  /\ UNCHANGED <<now, keys, cache, inflight, job, user, on>>

JoinInflight(c) ==
  /\ pc[c] = "idle"
  /\ ~Cached(user[c])
  /\ inflight[user[c]] # None
  /\ pc' = [pc EXCEPT ![c] = "await"]
  /\ on' = [on EXCEPT ![c] = inflight[user[c]]]
  /\ UNCHANGED <<now, keys, cache, inflight, job, user, result>>

\* Mutants of StartIssue: the inflight map, then the cache, is not consulted.
StartIssueUnguarded(c) ==
  /\ pc[c] = "idle"
  /\ pc' = [pc EXCEPT ![c] = "await"]
  /\ on' = [on EXCEPT ![c] = c]
  /\ inflight' = [inflight EXCEPT ![user[c]] = c]
  /\ job' = [job EXCEPT ![c] = [NoJob EXCEPT !.stage = "lookup"]]
  /\ UNCHANGED <<now, keys, cache, user, result>>

StartIssueUncached(c) == inflight[user[c]] = None /\ StartIssueUnguarded(c)

StartIssue(c) ==
  /\ pc[c] = "idle"
  /\ ~Cached(user[c])
  /\ inflight[user[c]] = None
  /\ pc' = [pc EXCEPT ![c] = "await"]
  /\ on' = [on EXCEPT ![c] = c]
  /\ inflight' = [inflight EXCEPT ![user[c]] = c]
  /\ job' = [job EXCEPT ![c] = [stage |-> "lookup", key |-> None,
                                token |-> NoToken]]
  /\ UNCHANGED <<now, keys, cache, user, result>>

GetAccessToken(c) ==
  \/ ServeCached(c)
  \/ RedisGetFails(c)
  \/ JoinInflight(c)
  \/ StartIssue(c)

-----------------------------------------------------------------------------
(* issueToken, run by the call that started it. *)

\* Mutants of Settle: `then` instead of `finally`, so that a failure leaves the
\* inflight entry; only the call that started the issuance is answered.
SettleOnSuccess(c, t) ==
  LET awaiting == {d \in Call : pc[d] = "await" /\ on[d] = c} IN
  /\ job' = [job EXCEPT ![c] = NoJob]
  /\ inflight' = [inflight EXCEPT ![user[c]] = IF t = NoToken THEN @ ELSE None]
  /\ pc' = [d \in Call |-> IF d \in awaiting THEN "done" ELSE pc[d]]
  /\ result' = [d \in Call |-> IF d \in awaiting
                                 THEN [token |-> t, at |-> now] ELSE result[d]]
  /\ UNCHANGED <<now, keys, user, on>>

SettleOwner(c, t) ==
  /\ job' = [job EXCEPT ![c] = NoJob]
  /\ inflight' = [inflight EXCEPT ![user[c]] = None]
  /\ Answer(c, t)
  /\ UNCHANGED <<now, keys, user, on>>

\* The promise of issuance c settles: its finally handler empties the
\* inflight entry and every call that awaits the promise gets the outcome.
Settle(c, t) ==
  LET awaiting == {d \in Call : pc[d] = "await" /\ on[d] = c} IN
  /\ job' = [job EXCEPT ![c] = NoJob]
  /\ inflight' = [inflight EXCEPT ![user[c]] = None]
  /\ pc' = [d \in Call |-> IF d \in awaiting THEN "done" ELSE pc[d]]
  /\ result' = [d \in Call |-> IF d \in awaiting
                                 THEN [token |-> t, at |-> now]
                                 ELSE result[d]]
  /\ UNCHANGED <<now, keys, user, on>>

LookupKey(c) ==
  /\ job[c].stage = "lookup"
  /\ keys[user[c]] # None
  /\ job' = [job EXCEPT ![c] = [stage |-> "post", key |-> keys[user[c]],
                                token |-> NoToken]]
  /\ UNCHANGED <<now, keys, cache, inflight, user, pc, on, result>>

\* No key is stored (401 Unauthorized) or the database fails.
LookupThrows(c) ==
  /\ job[c].stage = "lookup"
  /\ Settle(c, NoToken)
  /\ UNCHANGED cache

\* KIS answers the POST with a token that lives for one of the Lifetimes.
KisIssues(c) ==
  /\ job[c].stage = "post"
  /\ job[c].key \in ValidKey
  /\ \E life \in Lifetimes :
       job' = [job EXCEPT ![c] =
                 [stage |-> "store", key |-> job[c].key,
                  token |-> [key |-> job[c].key, iat |-> now,
                             exp |-> now + life]]]
  /\ UNCHANGED <<now, keys, cache, inflight, user, pc, on, result>>

\* KIS rejects the key: axios throws for the 4xx answer.
KisRejects(c) ==
  /\ job[c].stage = "post"
  /\ job[c].key \notin ValidKey
  /\ Settle(c, NoToken)
  /\ UNCHANGED cache

\* Redis executes the SET with its expiry.
RedisSet(c) ==
  /\ job[c].stage = "store"
  /\ cache' = [cache EXCEPT ![user[c]] =
                 [token |-> job[c].token, until |-> now + Ttl(job[c].token)]]

\* The answer of KIS arrives, is cached, and Redis says so.
StoreToken(c) == RedisSet(c) /\ Settle(c, job[c].token)

\* The POST times out or is reset, before or after KIS has issued the token,
\* or Redis refuses the SET, or executes it and the reply is lost.
NetworkFails(c) ==
  /\ job[c].stage \in {"post", "store"}
  /\ Settle(c, NoToken)
  /\ UNCHANGED cache \/ RedisSet(c)

IssueToken(c) ==
  \/ LookupKey(c)
  \/ LookupThrows(c)
  \/ KisIssues(c)
  \/ KisRejects(c)
  \/ StoreToken(c)
  \/ NetworkFails(c)

-----------------------------------------------------------------------------
(* The environment: KisCredentialService writes the key columns of a user, *)
(* time passes, and the Node process restarts, which loses the inflight    *)
(* map and every running call but neither Redis nor the database.          *)

KeyWritten(u, k) ==
  /\ keys' = [keys EXCEPT ![u] = k]
  /\ UNCHANGED <<now, cache, inflight, job, user, pc, on, result>>

Tick ==
  /\ now < MaxTime
  /\ \A c \in Call : job[c].stage = "store" => now < job[c].token.iat + MaxDelay
  /\ now' = now + 1
  /\ UNCHANGED <<keys, cache, inflight, job, user, pc, on, result>>

Restart ==
  /\ inflight' = [u \in User |-> None]
  /\ job' = [c \in Call |-> NoJob]
  /\ pc' = [c \in Call |-> IF pc[c] = "await" THEN "lost" ELSE pc[c]]
  /\ UNCHANGED <<now, keys, cache, user, on, result>>

Next ==
  \/ \E c \in Call : GetAccessToken(c) \/ IssueToken(c)
  \/ \E u \in User, k \in Key \cup {None} : KeyWritten(u, k)
  \/ Tick
  \/ Restart

Spec == Init /\ [][Next]_authVars

-----------------------------------------------------------------------------
Running(c) == job[c].stage # "none"

\* The inflight map names exactly the running issuances and every awaiting
\* call awaits a running issuance of its own user: no entry is left behind by
\* a failed issuance and no caller waits for a promise that is gone.
InflightSound ==
  /\ \A u \in User : inflight[u] # None =>
       Running(inflight[u]) /\ user[inflight[u]] = u
  /\ \A c \in Call : Running(c) => inflight[user[c]] = c
  /\ \A c \in Call : pc[c] = "await" =>
       Running(on[c]) /\ user[on[c]] = user[c]

\* At most one issuance per user runs, however calls, failures, expiries and
\* restarts interleave (KIS limits how often a key may ask for a token).
OneIssuancePerUser ==
  \A c, d \in Call : Running(c) /\ Running(d) /\ user[c] = user[d] => c = d

\* No token is requested from KIS while the cache still holds one.
NoIssueWhileCached == \A c \in Call : Running(c) => ~Cached(user[c])

\* Every token getAccessToken returned was still valid at KIS when it was
\* returned: the margin covers the delay between issue and caching.
ServedTokenAlive ==
  \A c \in Call : pc[c] = "done" /\ result[c].token.key # None =>
    result[c].at < result[c].token.exp

\* Every caller that waits for an issuance, its own or one it joined, is
\* answered with a token or an error, unless the process restarts under it.
CallerAnswered == \A c \in Call : pc[c] = "await" ~> pc[c] \in {"done", "lost"}

\* "Reissue the token 10 minutes before it expires" (kisAuth.constant.ts:8): a
\* token that lives long enough for it is never found in the cache during the
\* last Margin seconds of its life, give or take the delay of storing it.
ReissuedBeforeMargin ==
  \A u \in User :
    LET t == cache[u].token IN
    Cached(u) /\ t.exp - t.iat >= Margin + MinTtl
      => now + Margin < t.exp + MaxDelay
=============================================================================
