---------------------------- MODULE Chat_proofs ----------------------------
(* Proofs about the two components of the chat, for any number of users,     *)
(* messages and requests: ChatGateway and ChatReports share no state.        *)
EXTENDS ChatGateway, ChatReports, FiniteSetTheorems, TLAPS

-----------------------------------------------------------------------------
(* ChatGateway *)

\* Every step keeps the types.
LEMMA TypeStep == TypeOK /\ [Next]_gatewayVars => TypeOK'
<1> SUFFICES ASSUME TypeOK, [Next]_gatewayVars PROVE TypeOK'
  OBVIOUS
<1> USE ChatGatewayAssumption DEF TypeOK, Sending, Passed
<1>1. ASSUME NEW m \in Message, HandleSendMessage(m) PROVE TypeOK'
  <2>1. CASE RefuseUnauthenticated(m) \/ RefuseBanned(m)
    BY <2>1 DEF RefuseUnauthenticated, RefuseBanned, Handle
  <2>2. CASE BanSpammer(m)
    BY <2>2 DEF BanSpammer, Spams, BanEnd, Handle
  <2>3. CASE PassLimiter(m)
    BY <2>3 DEF PassLimiter, Spams, Handle, Recent
  <2> QED BY <1>1, <2>1, <2>2, <2>3 DEF HandleSendMessage
<1>2. ASSUME NEW m \in Message, SendMessage(m) PROVE TypeOK'
  BY <1>2 DEF SendMessage, FindStock, UpsertRoom, CreateMessage, Broadcast, QueryFails, Advance
<1>3. CASE Tick
  BY <1>3 DEF Tick
<1>4. CASE Restart
  BY <1>4 DEF Restart
<1>5. CASE UNCHANGED gatewayVars
  BY <1>5 DEF gatewayVars
<1> QED BY <1>1, <1>2, <1>3, <1>4, <1>5 DEF Next

-----------------------------------------------------------------------------
\* The limiter has not lost track of a user: unless the user is banned, every
\* message that passed less than Window ago is in the history; and a ban ends
\* Ban or more after every message that passed before it.
Tracked ==
  /\ \A m \in Message : sentAt[m] <= now
  /\ \A u \in User : \A x \in PassedOf(u) :
       IF Banned(u) THEN sentAt[x] + Ban <= bannedUntil[u]
                    ELSE now - sentAt[x] < Window => x \in history[u]

\* A ban whose time is not over is still in force.
BanInForce ==
  \A b \in Message :
    /\ stage[b] = "spam"
    /\ now < sentAt[b] + Ban
    => sender[b] \in User /\ sentAt[b] + Ban <= bannedUntil[sender[b]]

IInv == TypeOK /\ Tracked /\ BanInForce /\ RateLimited /\ BanServed /\ HistoryBounded

\* The messages of u that passed in the interval of length Window ending with m.
WindowOf(u, m) ==
  {x \in PassedOf(u) : sentAt[x] <= sentAt[m] /\ sentAt[m] - sentAt[x] < Window}

\* The parts of the invariant about what passed only need that no message
\* passes and none that did is dated anew.
LEMMA NothingPasses ==
  ASSUME IInv,
         \A x \in Message : stage'[x] \in Passed =>
           stage[x] \in Passed /\ sentAt'[x] = sentAt[x] /\ sender'[x] = sender[x],
         \A x \in Message : stage[x] \in Passed => stage'[x] \in Passed,
         sender' = sender
  PROVE  RateLimited'
<1>1. \A u \in User : PassedOf(u)' = PassedOf(u)
  BY DEF PassedOf
<1>2. \A u \in User : \A m \in PassedOf(u) : WindowOf(u, m)' = WindowOf(u, m)
  BY <1>1 DEF WindowOf, PassedOf
<1> QED BY <1>1, <1>2 DEF IInv, RateLimited, WindowOf

\* A message that is refused, by a ban or for want of a user, changes nothing
\* the limiter relies on.
LEMMA RefuseStep ==
  ASSUME IInv, NEW m \in Message, NEW s \in {"refused", "spam"}, Handle(m, s)
  PROVE  RateLimited'
<1>1. \A x \in Message : stage'[x] \in Passed =>
        stage[x] \in Passed /\ sentAt'[x] = sentAt[x] /\ sender'[x] = sender[x]
  BY DEF IInv, TypeOK, Handle, Passed, Sending
<1>2. \A x \in Message : stage[x] \in Passed => stage'[x] \in Passed
  BY DEF IInv, TypeOK, Handle, Passed, Sending
<1> QED BY <1>1, <1>2, NothingPasses DEF Handle

Rest == Tracked /\ BanInForce /\ RateLimited /\ BanServed /\ HistoryBounded

\* Unauthenticated and banned senders.
LEMMA RefusedStep ==
  ASSUME IInv, NEW m \in Message, RefuseUnauthenticated(m) \/ RefuseBanned(m)
  PROVE  Rest'
<1>1. Handle(m, "refused") /\ UNCHANGED <<history, bannedUntil>>
  BY DEF RefuseUnauthenticated, RefuseBanned
<1>2. RateLimited' /\ \A x \in Message : sentAt'[x] <= now'
  <2>1. RateLimited'
    BY <1>1, RefuseStep
  <2>2. \A x \in Message : sentAt'[x] <= now'
    BY <1>1 DEF Handle, IInv, TypeOK, Tracked
  <2> QED BY <2>1, <2>2
<1> USE DEF IInv
<1>3. \A x \in Message : /\ stage'[x] \in Passed =>
                              stage[x] \in Passed /\ sentAt'[x] = sentAt[x]
                         /\ stage'[x] = "spam" => stage[x] = "spam" /\ sentAt'[x] = sentAt[x]
  BY <1>1 DEF TypeOK, Handle, Passed, Sending
<1>4. now' = now /\ sender' = sender
  BY <1>1 DEF Handle
<1>5. Tracked'
  BY <1>1, <1>2, <1>3, <1>4 DEF Tracked, PassedOf, Banned
<1>6. BanInForce'
  BY <1>1, <1>3, <1>4 DEF BanInForce
<1>7. BanServed'
  BY <1>3, <1>4 DEF BanServed
<1>8. HistoryBounded'
  BY <1>1 DEF HistoryBounded
<1> QED BY <1>2, <1>5, <1>6, <1>7, <1>8 DEF Rest

\* A ban starts.
LEMMA BanStep ==
  ASSUME IInv, NEW m \in Message, BanSpammer(m)
  PROVE  Rest'
<1>u. PICK u \in User : u = sender[m]
  BY DEF BanSpammer, Spams, BanEnd, IInv, TypeOK
<1>1. /\ Handle(m, "spam") /\ u \in User /\ ~Banned(u)
      /\ bannedUntil' = [bannedUntil EXCEPT ![u] = now + Ban]
      /\ history' = [history EXCEPT ![u] = {}]
  BY <1>u DEF BanSpammer, Spams, BanEnd
<1>2. RateLimited' /\ \A x \in Message : sentAt'[x] <= now'
  <2>1. RateLimited'
    BY <1>1, RefuseStep
  <2>2. \A x \in Message : sentAt'[x] <= now'
    BY <1>1 DEF Handle, IInv, TypeOK, Tracked
  <2> QED BY <2>1, <2>2
<1> USE <1>u, ChatGatewayAssumption DEF IInv
<1>3. \A x \in Message : /\ stage'[x] \in Passed =>
                              stage[x] \in Passed /\ sentAt'[x] = sentAt[x]
                         /\ stage'[x] = "spam" /\ x # m =>
                              stage[x] = "spam" /\ sentAt'[x] = sentAt[x]
  BY <1>1 DEF TypeOK, Handle, Passed, Sending
<1>4. now' = now /\ sender' = sender /\ sentAt'[m] = now /\ stage'[m] \notin Passed
  BY <1>1 DEF Handle, TypeOK, Passed, Sending
<1>5. now \in Nat /\ \A x \in Message : sentAt[x] \in Nat
  BY DEF TypeOK
<1>6. bannedUntil'[u] = now + Ban /\ history'[u] = {}
  BY <1>1 DEF TypeOK
<1>7. \A v \in User \ {u} : bannedUntil'[v] = bannedUntil[v] /\ history'[v] = history[v]
  BY <1>1 DEF TypeOK
<1>8. Tracked'
  <2> SUFFICES ASSUME NEW v \in User, NEW x \in Message, x \in PassedOf(v)'
               PROVE  IF Banned(v)' THEN sentAt'[x] + Ban <= bannedUntil'[v]
                      ELSE now' - sentAt'[x] < Window => x \in history'[v]
    BY <1>2 DEF Tracked, PassedOf
  <2>1. x \in PassedOf(v) /\ sentAt'[x] = sentAt[x] /\ sentAt[x] <= now
    BY <1>3, <1>4 DEF PassedOf, Tracked
  <2>2. CASE v = u
    BY <1>4, <1>5, <1>6, <2>1, <2>2 DEF Banned
  <2>3. CASE v # u
    BY <1>4, <1>7, <2>1, <2>3 DEF Banned, Tracked
  <2> QED BY <2>2, <2>3
<1>9. BanInForce'
  <2> SUFFICES ASSUME NEW b \in Message, stage'[b] = "spam", now' < sentAt'[b] + Ban
               PROVE  sender'[b] \in User /\ sentAt'[b] + Ban <= bannedUntil'[sender'[b]]
    BY DEF BanInForce
  <2>1. CASE b = m
    BY <1>1, <1>4, <1>5, <1>6, <2>1
  <2>2. CASE b # m
    <3>1. sender[b] \in User /\ sentAt[b] + Ban <= bannedUntil[sender[b]]
          /\ sentAt'[b] = sentAt[b] /\ sentAt[b] <= now
      BY <1>3, <1>4, <2>2 DEF BanInForce, Tracked
    <3> QED BY <1>4, <1>5, <1>6, <1>7, <3>1
  <2> QED BY <2>1, <2>2
<1>10. BanServed'
  BY <1>2, <1>3, <1>4, <1>5 DEF BanServed, Tracked
<1>11. HistoryBounded'
  BY <1>1, <1>6, <1>7, FS_EmptySet DEF HistoryBounded
<1> QED BY <1>2, <1>8, <1>9, <1>10, <1>11 DEF Rest

\* A message passes.
LEMMA PassStep ==
  ASSUME IInv, NEW m \in Message, PassLimiter(m)
  PROVE  Rest'
<1>u. PICK u \in User : u = sender[m]
  BY DEF PassLimiter, IInv, TypeOK
<1> USE <1>u, ChatGatewayAssumption DEF IInv
<1>1. /\ u \in User /\ ~Banned(u)
      /\ bannedUntil' = [bannedUntil EXCEPT ![u] = 0]
      /\ history' = [history EXCEPT ![u] = Recent(u) \cup {m}]
      /\ stage[m] = "idle" /\ now' = now /\ sender' = sender
      /\ sentAt' = [sentAt EXCEPT ![m] = now]
  BY DEF PassLimiter, Handle, TypeOK
<1>c. Cardinality(Recent(u)) < Limit
  <2>1. IsFiniteSet(Recent(u))
    BY FS_Subset DEF Recent, TypeOK
  <2>2. Cardinality(Recent(u)) \in Nat
    BY <2>1, FS_CardinalityType
  <2>3. ~Spams(u)
    BY DEF PassLimiter
  <2> QED BY <2>2, <2>3 DEF Spams
<1>2. stage[m] \notin Passed /\ stage'[m] \in Passed /\ stage'[m] # "spam"
  BY DEF PassLimiter, Handle, TypeOK, Passed, Sending
<1>3. \A x \in Message \ {m} : stage'[x] = stage[x] /\ sentAt'[x] = sentAt[x]
  BY DEF PassLimiter, Handle, TypeOK
<1>4. /\ now \in Nat /\ sentAt'[m] = now /\ bannedUntil[u] \in Nat
      /\ \A x \in Message : sentAt[x] \in Nat /\ sentAt[x] <= now
  BY <1>1 DEF TypeOK, Tracked
<1>5. bannedUntil'[u] = 0 /\ history'[u] = Recent(u) \cup {m}
  BY <1>1 DEF TypeOK
<1>6. \A v \in User \ {u} : bannedUntil'[v] = bannedUntil[v] /\ history'[v] = history[v]
  BY <1>1 DEF TypeOK
<1>7. PassedOf(u)' = PassedOf(u) \cup {m}
      /\ \A v \in User \ {u} : PassedOf(v)' = PassedOf(v)
  BY <1>1, <1>2, <1>3 DEF PassedOf
<1>8. m \notin PassedOf(u) /\ \A v \in User : PassedOf(v) \subseteq Message \ {m}
  BY <1>2 DEF PassedOf
<1>9. Tracked'
  <2> SUFFICES ASSUME NEW v \in User, NEW x \in PassedOf(v)'
               PROVE  IF Banned(v)' THEN sentAt'[x] + Ban <= bannedUntil'[v]
                      ELSE now' - sentAt'[x] < Window => x \in history'[v]
    BY <1>1, <1>3, <1>4 DEF Tracked
  <2>1. CASE v = u /\ x = m
    BY <1>1, <1>4, <1>5, <2>1 DEF Banned
  <2>2. CASE v = u /\ x # m
    <3>1. x \in PassedOf(u) /\ sentAt'[x] = sentAt[x]
      BY <1>3, <1>7, <1>8, <2>2
    <3>2. now - sentAt[x] < Window => x \in history[u]
      BY <1>1, <3>1 DEF Tracked
    <3> QED BY <1>1, <1>4, <1>5, <2>2, <3>1, <3>2 DEF Banned, Recent
  <2>3. CASE v # u
    BY <1>1, <1>3, <1>6, <1>7, <1>8, <2>3 DEF Tracked, Banned
  <2> QED BY <2>1, <2>2, <2>3
<1>10. BanInForce'
  <2> SUFFICES ASSUME NEW b \in Message, stage'[b] = "spam", now' < sentAt'[b] + Ban
               PROVE  sender'[b] \in User /\ sentAt'[b] + Ban <= bannedUntil'[sender'[b]]
    BY DEF BanInForce
  <2>1. b # m /\ stage[b] = "spam" /\ sentAt'[b] = sentAt[b]
    BY <1>2, <1>3
  <2>2. sender[b] \in User /\ sentAt[b] + Ban <= bannedUntil[sender[b]]
    BY <1>1, <2>1 DEF BanInForce
  <2>3. sender[b] # u
    BY <1>1, <1>4, <2>1, <2>2 DEF Banned
  <2> QED BY <1>1, <1>6, <2>1, <2>2, <2>3
<1>11. BanServed'
  <2> SUFFICES ASSUME NEW b \in Message, NEW x \in Message, stage'[b] = "spam",
                      stage'[x] \in Passed, sender'[x] = sender'[b]
               PROVE  sentAt'[x] <= sentAt'[b] \/ sentAt'[x] >= sentAt'[b] + Ban
    BY DEF BanServed
  <2>1. b # m /\ stage[b] = "spam" /\ sentAt'[b] = sentAt[b]
    BY <1>2, <1>3
  <2>2. CASE x = m
    BY <1>1, <1>4, <2>1, <2>2 DEF BanInForce, Banned
  <2>3. CASE x # m
    BY <1>1, <1>3, <2>1, <2>3 DEF BanServed
  <2> QED BY <2>2, <2>3
<1>12. Cardinality(Recent(u) \cup {m}) <= Limit /\ IsFiniteSet(Recent(u) \cup {m})
  <2>1. IsFiniteSet(Recent(u))
    BY <1>1, FS_Subset DEF Recent, TypeOK
  <2>2. Cardinality(Recent(u)) \in Nat
    BY <2>1, FS_CardinalityType
  <2> DEFINE S == Recent(u)
  <2> HIDE DEF S
  <2>3. IsFiniteSet(S \cup {m})
        /\ Cardinality(S \cup {m}) = IF m \in S THEN Cardinality(S) ELSE Cardinality(S) + 1
    BY <2>1, FS_AddElement DEF S
  <2> QED BY <1>c, <1>1, <2>2, <2>3 DEF S
<1>13. HistoryBounded'
  BY <1>5, <1>6, <1>12 DEF HistoryBounded
<1>14. RateLimited'
  <2> SUFFICES ASSUME NEW v \in User, NEW x \in PassedOf(v)'
               PROVE  Cardinality(WindowOf(v, x)') <= Limit
    BY DEF RateLimited, WindowOf
  <2>1. CASE v # u
    <3>1. x \in PassedOf(v) /\ WindowOf(v, x)' = WindowOf(v, x)
      BY <1>3, <1>7, <1>8, <2>1 DEF WindowOf
    <3> QED BY <3>1 DEF RateLimited, WindowOf
  <2>2. CASE v = u /\ sentAt'[x] = now
    <3>1. WindowOf(u, x)' \subseteq Recent(u) \cup {m}
      <4> SUFFICES ASSUME NEW y \in WindowOf(u, x)', y # m PROVE y \in Recent(u)
        OBVIOUS
      <4>1. y \in PassedOf(u) /\ sentAt'[y] = sentAt[y] /\ now - sentAt[y] < Window
        BY <1>3, <1>7, <1>8, <2>2 DEF WindowOf
      <4> QED BY <1>1, <4>1 DEF Tracked, Recent
    <3> QED BY <1>12, <2>2, <3>1, FS_Subset, FS_CardinalityType
  <2>3. CASE v = u /\ sentAt'[x] # now
    <3>1. x # m /\ x \in PassedOf(u) /\ sentAt'[x] = sentAt[x]
      BY <1>3, <1>4, <1>7, <1>8, <2>3
    <3>2. ~(sentAt'[m] <= sentAt'[x])
      BY <1>4, <2>3, <3>1, <1>8
    <3>3. WindowOf(u, x)' = WindowOf(u, x)
      BY <1>3, <1>7, <1>8, <3>1, <3>2 DEF WindowOf
    <3> QED BY <2>3, <3>1, <3>3 DEF RateLimited, WindowOf
  <2> QED BY <2>1, <2>2, <2>3
<1> QED BY <1>9, <1>10, <1>11, <1>13, <1>14 DEF Rest

\* Storing and broadcasting a message that passed.
LEMMA SendStep ==
  ASSUME IInv, NEW m \in Message, SendMessage(m)
  PROVE  Rest'
<1> USE DEF IInv
<1>1. /\ UNCHANGED <<now, history, bannedUntil, sender, sentAt>>
      /\ stage[m] \in Passed
      /\ \E s \in Passed : stage' = [stage EXCEPT ![m] = s]
  BY DEF SendMessage, FindStock, UpsertRoom, CreateMessage, Broadcast, QueryFails, Advance,
         Passed, Sending
<1>2. \A x \in Message : /\ stage'[x] \in Passed <=> stage[x] \in Passed
                         /\ stage'[x] = "spam" <=> stage[x] = "spam"
  BY <1>1 DEF TypeOK, Passed, Sending
<1>3. \A u \in User : PassedOf(u)' = PassedOf(u)
  BY <1>1, <1>2 DEF PassedOf
<1>4. Tracked'
  BY <1>1, <1>3 DEF Tracked, Banned
<1>5. BanInForce' /\ BanServed' /\ HistoryBounded'
  BY <1>1, <1>2 DEF BanInForce, BanServed, HistoryBounded
<1>6. RateLimited'
  BY <1>1, <1>3 DEF RateLimited
<1> QED BY <1>4, <1>5, <1>6 DEF Rest

\* Time passes: what leaves the window was kept long enough, and what passed
\* before a ban has left it when the ban ends.
LEMMA TickStep == ASSUME IInv, Tick PROVE Rest'
<1> USE DEF IInv
<1>1. now' = now + 1 /\ now \in Nat
      /\ UNCHANGED <<history, bannedUntil, sender, sentAt, stage>>
  BY DEF Tick, TypeOK
<1>2. \A u \in User : PassedOf(u)' = PassedOf(u) /\ PassedOf(u) \subseteq Message
  BY <1>1 DEF PassedOf
<1>3. Tracked'
  <2>1. \A x \in Message : sentAt'[x] <= now'
    BY <1>1 DEF TypeOK, Tracked
  <2>2. ASSUME NEW u \in User, NEW x \in PassedOf(u)
        PROVE  IF Banned(u)' THEN sentAt[x] + Ban <= bannedUntil[u]
               ELSE now' - sentAt[x] < Window => x \in history[u]
    <3>1. sentAt[x] \in Nat /\ sentAt[x] <= now /\ bannedUntil[u] \in Nat
      BY <1>2 DEF TypeOK, Tracked
    <3>2. CASE Banned(u)
      <4>1. sentAt[x] + Ban <= bannedUntil[u]
        BY <3>2 DEF Tracked
      <4> QED BY <1>1, <3>1, <4>1, ChatGatewayAssumption DEF Banned
    <3>3. CASE ~Banned(u)
      <4>1. now - sentAt[x] < Window => x \in history[u]
        BY <3>3 DEF Tracked
      <4> QED BY <1>1, <3>1, <3>3, <4>1, ChatGatewayAssumption DEF Banned
    <3> QED BY <3>2, <3>3
  <2> QED BY <1>1, <1>2, <2>1, <2>2 DEF Tracked
<1>4. BanInForce'
  <2> SUFFICES ASSUME NEW b \in Message, stage[b] = "spam", now' < sentAt[b] + Ban
               PROVE  sender[b] \in User /\ sentAt[b] + Ban <= bannedUntil[sender[b]]
    BY <1>1 DEF BanInForce
  <2>1. now < sentAt[b] + Ban
    BY <1>1, ChatGatewayAssumption DEF TypeOK
  <2> QED BY <2>1 DEF BanInForce
<1>5. BanServed' /\ HistoryBounded'
  BY <1>1 DEF BanServed, HistoryBounded
<1>6. RateLimited'
  BY <1>1, <1>2 DEF RateLimited
<1> QED BY <1>3, <1>4, <1>5, <1>6 DEF Rest

\* A restart forgets what passed together with the history.
LEMMA RestartStep == ASSUME IInv, Restart PROVE Rest'
<1>1. /\ UNCHANGED <<now, sender, sentAt>>
      /\ history' = [u \in User |-> {}]
      /\ \A x \in Message : stage'[x] \notin Passed /\ stage'[x] # "spam"
  BY DEF Restart, Passed, Sending
<1>2. \A u \in User : PassedOf(u)' = {}
  BY <1>1 DEF PassedOf
<1>3. Tracked'
  BY <1>1, <1>2 DEF Tracked, IInv
<1>4. BanInForce' /\ BanServed' /\ RateLimited'
  BY <1>1, <1>2 DEF BanInForce, BanServed, RateLimited
<1>5. HistoryBounded'
  BY <1>1, FS_EmptySet, ChatGatewayAssumption DEF HistoryBounded
<1> QED BY <1>3, <1>4, <1>5 DEF Rest

\* The inductive invariant.
THEOREM Invariance == Spec => []IInv
<1>1. Init => IInv
  <2> SUFFICES ASSUME Init PROVE IInv
    OBVIOUS
  <2>1. TypeOK
    BY ChatGatewayAssumption DEF Init, TypeOK
  <2>2. \A u \in User : PassedOf(u) = {} /\ history[u] = {}
    BY DEF Init, PassedOf, Passed, Sending
  <2>3. Tracked /\ RateLimited
    BY <2>2 DEF Init, Tracked, RateLimited
  <2>4. BanInForce /\ BanServed
    BY DEF Init, BanInForce, BanServed
  <2>5. HistoryBounded
    BY <2>2, FS_EmptySet, ChatGatewayAssumption DEF HistoryBounded
  <2> QED BY <2>1, <2>3, <2>4, <2>5 DEF IInv
<1>2. IInv /\ [Next]_gatewayVars => IInv'
  <2> SUFFICES ASSUME IInv, [Next]_gatewayVars PROVE IInv'
    OBVIOUS
  <2>1. TypeOK'
    BY TypeStep DEF IInv
  <2>2. ASSUME NEW m \in Message, HandleSendMessage(m) PROVE Rest'
    BY <2>2, RefusedStep, BanStep, PassStep DEF HandleSendMessage
  <2>3. ASSUME NEW m \in Message, SendMessage(m) PROVE Rest'
    BY <2>3, SendStep
  <2>4. ASSUME Tick PROVE Rest'
    BY <2>4, TickStep
  <2>5. ASSUME Restart PROVE Rest'
    BY <2>5, RestartStep
  <2>6. ASSUME UNCHANGED gatewayVars PROVE Rest'
    BY <2>6 DEF gatewayVars, IInv, Rest, Tracked, BanInForce, RateLimited, BanServed,
                HistoryBounded, PassedOf, Banned
  <2>7. Rest'
    BY <2>2, <2>3, <2>4, <2>5, <2>6 DEF Next
  <2> QED BY <2>1, <2>7 DEF IInv, Rest
<1> QED BY <1>1, <1>2, PTL DEF Spec

\* The variables of the gateway keep their types.
THEOREM TypeCorrect == Spec => []TypeOK
BY Invariance, PTL DEF IInv

\* The sliding-window limit, for every Window, Limit and Ban >= Window.
THEOREM LimiterCorrect == Spec => []RateLimited
BY Invariance, PTL DEF IInv

\* Every ban is served in full.
THEOREM BansServed == Spec => []BanServed
BY Invariance, PTL DEF IInv

\* The limiter keeps at most Limit times per user.
THEOREM HistorySmall == Spec => []HistoryBounded
BY Invariance, PTL DEF IInv

-----------------------------------------------------------------------------
(* ChatReports *)

\* Every variable keeps its type.
LEMMA ReportTypeStep == ReportTypeOK /\ [ReportNext]_reportVars => ReportTypeOK'
<1> SUFFICES ASSUME ReportTypeOK, [ReportNext]_reportVars PROVE ReportTypeOK'
  OBVIOUS
<1> USE DEF ReportTypeOK, Steps, Statuses, Goto, Respond, rows, args
<1>1. ASSUME NEW m \in Msg, Post(m) PROVE ReportTypeOK'
  BY <1>1 DEF Post
<1>2. ASSUME NEW r \in Req, Submit(r) PROVE ReportTypeOK'
  BY <1>2 DEF Submit
<1>3. ASSUME NEW r \in Req, Proceed(r) PROVE ReportTypeOK'
  <2>1. CASE FindMessage(r)
    BY <2>1 DEF FindMessage
  <2>2. CASE CheckReported(r)
    BY <2>2 DEF CheckReported
  <2>3. CASE InsertReport(r)
    BY <2>3 DEF InsertReport
  <2>4. CASE IncrementCount(r)
    BY <2>4 DEF IncrementCount, Increment, RowFree, Reached
  <2>5. CASE HideMessage(r)
    BY <2>5 DEF HideMessage
  <2>6. CASE Commit(r)
    BY <2>6 DEF Commit, Report
  <2> QED BY <1>3, <2>1, <2>2, <2>3, <2>4, <2>5, <2>6 DEF Proceed
<1>4. ASSUME NEW r \in Req, Abort(r) PROVE ReportTypeOK'
  BY <1>4 DEF Abort
<1>5. CASE UNCHANGED reportVars
  BY <1>5 DEF reportVars
<1> QED BY <1>1, <1>2, <1>3, <1>4, <1>5 DEF ReportNext

\* Every variable keeps its type.
THEOREM ReportTypeCorrect == ReportSpec => []ReportTypeOK
<1>1. ReportInit => ReportTypeOK
  BY DEF ReportInit, ReportTypeOK, Steps, Statuses
<1> QED BY <1>1, ReportTypeStep, PTL DEF ReportSpec

-----------------------------------------------------------------------------
(* The locks keep the writes of concurrent transactions apart. *)

\* The unique index: an uncommitted report is nobody else's and not committed.
InsertExclusive ==
  \A r \in Req : Inserted(r) =>
    /\ Report(r) \notin reports
    /\ \A s \in Req : Inserted(s) /\ Report(s) = Report(r) => s = r

\* The row lock: its holder has counted from the committed row, which nobody
\* else can change.
UpdateExclusive ==
  \A r \in Req : Locked(r) =>
    /\ seen[r] = count[msg[r]] + 1
    /\ \A s \in Req : Locked(s) /\ msg[s] = msg[r] => s = r

\* What a transaction is about to publish is blinded as its count demands.
BlindDecided ==
  \A r \in Req :
    /\ pc[r] = "hide" => seen[r] >= Threshold
    /\ pc[r] = "commit" => (blind[r] <=> seen[r] >= Threshold)

ReportInv ==
  /\ ReportTypeOK
  /\ InsertExclusive
  /\ UpdateExclusive
  /\ BlindDecided
  /\ CountMatchesReports
  /\ HiddenAtThreshold

\* A commit adds one reporter to its message and none to the others.
LEMMA ReportersAfterCommit ==
  ASSUME ReportTypeOK, NEW r \in Req, Report(r) \notin reports,
         reports' = reports \cup {Report(r)}, NEW m \in Msg
  PROVE  Cardinality(Reporters(m))' =
           IF m = msg[r] THEN Cardinality(Reporters(m)) + 1
                         ELSE Cardinality(Reporters(m))
<1> msg[r] \in Msg /\ user[r] \in Reporter
  BY DEF ReportTypeOK
<1>1. CASE m = msg[r]
  <2>1. Reporters(m)' = Reporters(m) \cup {user[r]} /\ user[r] \notin Reporters(m)
    BY <1>1 DEF Reporters, Report
  <2>2. IsFiniteSet(Reporters(m))
    BY FS_Subset, ChatReportsAssumption DEF Reporters
  <2> QED BY <1>1, <2>1, <2>2, FS_AddElement
<1>2. CASE m # msg[r]
  BY <1>2 DEF Reporters, Report
<1> QED BY <1>1, <1>2

\* Steps that write no row keep what is said of the rows.
LEMMA RowsUnchanged ==
  ASSUME UNCHANGED rows, CountMatchesReports, HiddenAtThreshold
  PROVE  CountMatchesReports' /\ HiddenAtThreshold'
BY DEF rows, CountMatchesReports, HiddenAtThreshold, Reporters

\* A request that leaves its transaction, or is not in one, disturbs no lock.
LEMMA LocksReleased ==
  ASSUME ReportTypeOK, InsertExclusive, UpdateExclusive, BlindDecided, NEW r \in Req,
         NEW step \in {"find", "check", "insert", "done"}, Goto(r, step),
         UNCHANGED <<rows, args, seen, blind>>
  PROVE  InsertExclusive' /\ UpdateExclusive' /\ BlindDecided'
BY DEF ReportTypeOK, InsertExclusive, UpdateExclusive, BlindDecided, Goto, Inserted, Locked,
       Report, rows, args

\* The commit publishes exactly one report.
LEMMA CommitStep ==
  ASSUME ReportInv, NEW r \in Req, Commit(r)
  PROVE  InsertExclusive' /\ UpdateExclusive' /\ BlindDecided'
         /\ CountMatchesReports' /\ HiddenAtThreshold'
<1> USE DEF ReportInv
<1>1. /\ pc[r] = "commit" /\ Inserted(r) /\ Locked(r)
      /\ pc' = [pc EXCEPT ![r] = "done"]
      /\ reports' = reports \cup {Report(r)}
      /\ count' = [count EXCEPT ![msg[r]] = seen[r]]
      /\ hidden' = [hidden EXCEPT ![msg[r]] = blind[r]]
      /\ UNCHANGED <<msg, user, seen, blind>>
  BY DEF Commit, Respond, Goto, Inserted, Locked, args
<1>2. Report(r) \notin reports /\ seen[r] = count[msg[r]] + 1
      /\ (blind[r] <=> seen[r] >= Threshold)
  BY <1>1 DEF InsertExclusive, UpdateExclusive, BlindDecided
<1>3. InsertExclusive'
  BY <1>1 DEF ReportTypeOK, InsertExclusive, Inserted, Report
<1>4. UpdateExclusive'
  BY <1>1 DEF ReportTypeOK, UpdateExclusive, Locked
<1>5. BlindDecided'
  BY <1>1 DEF ReportTypeOK, BlindDecided
<1>6. CountMatchesReports'
  <2> SUFFICES ASSUME NEW m \in Msg PROVE count'[m] = Cardinality(Reporters(m))'
    BY DEF CountMatchesReports
  <2> QED BY <1>1, <1>2, ReportersAfterCommit DEF ReportTypeOK, CountMatchesReports
<1>7. HiddenAtThreshold'
  BY <1>1, <1>2 DEF ReportTypeOK, HiddenAtThreshold
<1> QED BY <1>3, <1>4, <1>5, <1>6, <1>7

\* Every step of a request keeps the inductive invariant.
LEMMA ProceedStep ==
  ASSUME ReportInv, NEW r \in Req, Proceed(r)
  PROVE  InsertExclusive' /\ UpdateExclusive' /\ BlindDecided'
         /\ CountMatchesReports' /\ HiddenAtThreshold'
<1> USE DEF ReportInv
<1>1. CASE FindMessage(r) \/ CheckReported(r)
  BY <1>1, LocksReleased, RowsUnchanged DEF FindMessage, CheckReported, Respond
<1>2. CASE InsertReport(r)
  <2>1. UNCHANGED <<rows, args, seen, blind>> /\ pc[r] = "insert"
    BY <1>2 DEF InsertReport
  <2>2. CASE Goto(r, "count") /\ Report(r) \notin reports
    <3>1. \A s \in Req : Inserted(s)' => s = r \/ Inserted(s)
      BY <2>2 DEF ReportTypeOK, Goto, Inserted
    <3>2. \A s \in Req \ {r} : Inserted(s) => Report(s) # Report(r)
      BY <1>2 DEF InsertReport
    <3>3. InsertExclusive'
      BY <2>1, <2>2, <3>1, <3>2 DEF InsertExclusive, Report, rows, args
    <3>4. UpdateExclusive' /\ BlindDecided'
      BY <2>1, <2>2 DEF ReportTypeOK, UpdateExclusive, BlindDecided, Goto, Locked, rows, args
    <3> QED BY <2>1, <3>3, <3>4, RowsUnchanged
  <2>3. CASE Goto(r, "done")
    BY <2>1, <2>3, LocksReleased, RowsUnchanged
  <2> QED BY <1>2, <2>2, <2>3 DEF InsertReport, Respond
<1>3. CASE IncrementCount(r)
  <2> DEFINE m == msg[r]
  <2>1. /\ UNCHANGED <<rows, args>> /\ pc[r] = "count"
        /\ seen' = [seen EXCEPT ![r] = count[m] + 1]
        /\ blind' = [blind EXCEPT ![r] = hidden[m]]
        /\ \A s \in Req \ {r} : Locked(s) => msg[s] # m
        /\ pc' = [pc EXCEPT ![r] = IF count[m] + 1 >= Threshold /\ ~hidden[m]
                                     THEN "hide" ELSE "commit"]
    <3>1. seen'[r] = count[m] + 1 /\ blind'[r] = hidden[m]
      BY <1>3 DEF IncrementCount, Increment, ReportTypeOK
    <3> QED BY <1>3, <3>1 DEF IncrementCount, Increment, RowFree, Reached, Goto
  <2>2. InsertExclusive'
    BY <2>1 DEF ReportTypeOK, InsertExclusive, Inserted, Report, rows, args
  <2>3. UpdateExclusive'
    BY <2>1 DEF ReportTypeOK, UpdateExclusive, Locked, rows, args
  <2>4. m \in Msg /\ count[m] \in Nat /\ (hidden[m] <=> count[m] >= Threshold)
    BY DEF ReportTypeOK, HiddenAtThreshold
  <2>5. BlindDecided'
    BY <2>1, <2>4, ChatReportsAssumption DEF ReportTypeOK, BlindDecided
  <2> QED BY <2>1, <2>2, <2>3, <2>5, RowsUnchanged
<1>4. CASE HideMessage(r)
  <2>1. /\ UNCHANGED <<rows, args, seen>> /\ pc[r] = "hide"
        /\ blind' = [blind EXCEPT ![r] = TRUE]
        /\ pc' = [pc EXCEPT ![r] = "commit"]
    BY <1>4 DEF HideMessage, Goto
  <2>2. InsertExclusive' /\ UpdateExclusive'
    BY <2>1 DEF ReportTypeOK, InsertExclusive, UpdateExclusive, Inserted, Locked, Report, rows, args
  <2>3. BlindDecided'
    BY <2>1 DEF ReportTypeOK, BlindDecided
  <2> QED BY <2>1, <2>2, <2>3, RowsUnchanged
<1>5. CASE Commit(r)
  BY <1>5, CommitStep
<1> QED BY <1>1, <1>2, <1>3, <1>4, <1>5 DEF Proceed

\* The inductive invariant.
THEOREM ReportInvariance == ReportSpec => []ReportInv
<1>1. ReportInit => ReportInv
  <2>1. ReportInit => CountMatchesReports
    BY FS_EmptySet DEF ReportInit, CountMatchesReports, Reporters
  <2> QED BY <2>1, ChatReportsAssumption DEF ReportInit, ReportInv, ReportTypeOK, Steps, Statuses, InsertExclusive,
             UpdateExclusive, BlindDecided, HiddenAtThreshold, Inserted, Locked
<1>2. ReportInv /\ [ReportNext]_reportVars => ReportInv'
  <2> SUFFICES ASSUME ReportInv, [ReportNext]_reportVars PROVE ReportInv'
    OBVIOUS
  <2>1. ReportTypeOK'
    BY ReportTypeStep DEF ReportInv
  <2>2. CASE \E m \in Msg : Post(m)
    <3>1. UNCHANGED <<rows, args, pc, seen, blind>>
      BY <2>2 DEF Post
    <3> QED BY <2>1, <3>1, RowsUnchanged DEF ReportInv, InsertExclusive, UpdateExclusive,
               BlindDecided, Inserted, Locked, Report, rows, args
  <2>3. ASSUME NEW r \in Req, Submit(r) \/ Abort(r) PROVE ReportInv'
    <3>1. UNCHANGED <<rows, args, seen, blind>> /\ (Goto(r, "find") \/ Goto(r, "done"))
      BY <2>3 DEF Submit, Abort, Respond
    <3> QED BY <2>1, <3>1, LocksReleased, RowsUnchanged DEF ReportInv
  <2>4. ASSUME NEW r \in Req, Proceed(r) PROVE ReportInv'
    BY <2>1, <2>4, ProceedStep DEF ReportInv
  <2>5. CASE UNCHANGED reportVars
    BY <2>1, <2>5, RowsUnchanged DEF reportVars, ReportInv, InsertExclusive, UpdateExclusive,
       BlindDecided, Inserted, Locked, Report, rows, args
  <2> QED BY <2>2, <2>3, <2>4, <2>5 DEF ReportNext
<1> QED BY <1>1, <1>2, PTL DEF ReportSpec

\* No increment is lost or doubled.
THEOREM CountCorrect == ReportSpec => []CountMatchesReports
BY ReportInvariance, PTL DEF ReportInv

\* A message is blinded exactly at the threshold.
THEOREM BlindingCorrect == ReportSpec => []HiddenAtThreshold
BY ReportInvariance, PTL DEF ReportInv

\* The committed rows implement the atomic promise.
THEOREM ImplementsBoard == ReportSpec => BoardSpec
<1>1. ReportInit => Board!BoardInit
  BY DEF ReportInit, Board!BoardInit
<1>2. ReportInv /\ [ReportNext]_reportVars => [Board!BoardNext]_Board!boardVars
  <2> SUFFICES ASSUME ReportInv, [ReportNext]_reportVars
               PROVE  [Board!BoardNext]_Board!boardVars
    OBVIOUS
  <2> USE DEF Board!boardVars, rows
  <2>1. ASSUME NEW r \in Req, Commit(r) PROVE Board!BoardNext
    <3>1. Report(r) \notin reports /\ seen[r] = count[msg[r]] + 1
          /\ (blind[r] <=> seen[r] >= Threshold)
      BY <2>1 DEF ReportInv, InsertExclusive, UpdateExclusive, BlindDecided, Commit, Inserted,
                  Locked
    <3>2. msg[r] \in Msg /\ user[r] \in Reporter
      BY DEF ReportInv, ReportTypeOK
    <3>3. /\ reports' = reports \cup {<<msg[r], user[r]>>}
          /\ count' = [count EXCEPT ![msg[r]] = seen[r]]
          /\ hidden' = [hidden EXCEPT ![msg[r]] = blind[r]]
      BY <2>1 DEF Commit, Report
    <3>4. count'[msg[r]] = seen[r] /\ count' = [count EXCEPT ![msg[r]] = @ + 1]
      BY <3>1, <3>2, <3>3 DEF ReportInv, ReportTypeOK
    <3>5. blind[r] = (count'[msg[r]] >= Threshold)
      BY <3>1, <3>4 DEF ReportInv, ReportTypeOK
    <3>6. Board!ReportOnce(msg[r], user[r])
      BY <3>1, <3>3, <3>4, <3>5 DEF Board!ReportOnce, Report
    <3> QED BY <3>2, <3>6 DEF Board!BoardNext
  <2>2. ASSUME NEW r \in Req, Proceed(r), ~Commit(r) PROVE UNCHANGED Board!boardVars
    BY <2>2 DEF Proceed, FindMessage, CheckReported, InsertReport, IncrementCount, Increment, RowFree, Reached,
                HideMessage
  <2>3. CASE \E m \in Msg : Post(m)
    BY <2>3 DEF Post
  <2>4. CASE \E r \in Req : Submit(r) \/ Abort(r)
    BY <2>4 DEF Submit, Abort
  <2>5. CASE UNCHANGED reportVars
    BY <2>5 DEF reportVars
  <2> QED BY <2>1, <2>2, <2>3, <2>4, <2>5 DEF ReportNext
<1> QED BY <1>1, <1>2, ReportInvariance, PTL DEF ReportSpec, BoardSpec, Board!BoardSpec

-----------------------------------------------------------------------------
\* An accepted request is over and its report and count are committed.
OkRecorded ==
  \A r \in Req : status[r] = "ok" =>
    /\ pc[r] = "done"
    /\ Report(r) \in reports
    /\ seen[r] <= count[msg[r]]

\* No step but a commit makes an answer "ok" or touches an accepted request.
LEMMA AnswersKept ==
  ASSUME ReportTypeOK, OkRecorded, AnswersConsistent, UNCHANGED <<rows, args>>,
         \A r \in Req : status'[r] = "ok" =>
           /\ status[r] = "ok" /\ pc'[r] = pc[r]
           /\ seen'[r] = seen[r] /\ blind'[r] = blind[r]
  PROVE  OkRecorded' /\ AnswersConsistent'
BY DEF OkRecorded, AnswersConsistent, Report, rows, args

\* Users are told consistent counts: no two accepted reports of a message are
\* told the same count or come from the same user.
THEOREM AnswersCorrect == ReportSpec => []AnswersConsistent
<1> DEFINE J == OkRecorded /\ AnswersConsistent
<1>1. ReportInit => J
  BY DEF ReportInit, OkRecorded, AnswersConsistent
<1>2. ReportInv /\ J /\ [ReportNext]_reportVars => J'
  <2> SUFFICES ASSUME ReportInv, OkRecorded, AnswersConsistent, [ReportNext]_reportVars PROVE J'
    OBVIOUS
  <2> USE DEF ReportInv
  <2>1. ASSUME NEW r \in Req, Commit(r) PROVE J'
    <3>1. /\ pc[r] = "commit" /\ Inserted(r) /\ Locked(r)
          /\ reports' = reports \cup {Report(r)}
          /\ count' = [count EXCEPT ![msg[r]] = seen[r]]
          /\ UNCHANGED <<msg, user, seen, blind>>
          /\ pc' = [pc EXCEPT ![r] = "done"]
          /\ \A s \in Req \ {r} : status'[s] = status[s]
      BY <2>1 DEF Commit, Respond, Goto, Inserted, Locked, args, ReportTypeOK
    <3>2. Report(r) \notin reports /\ seen[r] = count[msg[r]] + 1
          /\ (blind[r] <=> seen[r] >= Threshold)
      BY <3>1 DEF InsertExclusive, UpdateExclusive, BlindDecided
    <3>3. OkRecorded'
      <4> SUFFICES ASSUME NEW s \in Req, status'[s] = "ok"
                   PROVE  pc'[s] = "done" /\ Report(s)' \in reports'
                          /\ seen'[s] <= count'[msg'[s]]
        BY DEF OkRecorded
      <4> QED BY <3>1, <3>2 DEF OkRecorded, Report, ReportTypeOK
    <3>4. \A s \in Req \ {r} : status[s] = "ok" /\ msg[s] = msg[r] =>
            seen[s] # seen[r] /\ user[s] # user[r]
      <4> SUFFICES ASSUME NEW s \in Req \ {r}, status[s] = "ok", msg[s] = msg[r]
                   PROVE  seen[s] # seen[r] /\ user[s] # user[r]
        OBVIOUS
      <4>1. Report(s) \in reports /\ seen[s] <= count[msg[r]]
        BY DEF OkRecorded
      <4>2. seen[s] \in Nat /\ count[msg[r]] \in Nat
        BY DEF ReportTypeOK
      <4>3. user[s] # user[r]
        BY <3>2, <4>1 DEF Report
      <4> QED BY <3>2, <4>1, <4>2, <4>3
    <3>5. AnswersConsistent'
      BY <3>1, <3>2, <3>4 DEF AnswersConsistent
    <3> QED BY <3>3, <3>5
  <2>2. ASSUME NEW r \in Req, Proceed(r), ~Commit(r) PROVE J'
    <3>1. status[r] # "ok"
      BY <2>2 DEF OkRecorded, Proceed, FindMessage, CheckReported, InsertReport,
                  IncrementCount, Increment, RowFree, Reached, HideMessage
    <3>2. UNCHANGED <<rows, args>>
      BY <2>2 DEF Proceed, FindMessage, CheckReported, InsertReport, IncrementCount, Increment, RowFree, Reached,
                  HideMessage
    <3>3. \A s \in Req : status'[s] = "ok" =>
            /\ status[s] = "ok" /\ pc'[s] = pc[s]
            /\ seen'[s] = seen[s] /\ blind'[s] = blind[s]
      BY <2>2, <3>1 DEF ReportTypeOK, Proceed, FindMessage, CheckReported, InsertReport,
                        IncrementCount, Increment, RowFree, Reached, HideMessage, Goto, Respond
    <3> QED BY <3>2, <3>3, AnswersKept
  <2>3. ASSUME NEW r \in Req, Submit(r) \/ Abort(r) PROVE J'
    <3>1. status[r] # "ok"
      BY <2>3 DEF OkRecorded, Submit, Abort, Steps
    <3>2. \A s \in Req : status'[s] = "ok" =>
            /\ status[s] = "ok" /\ pc'[s] = pc[s]
            /\ seen'[s] = seen[s] /\ blind'[s] = blind[s]
      BY <2>3, <3>1 DEF ReportTypeOK, Submit, Abort, Goto, Respond
    <3> QED BY <2>3, <3>2, AnswersKept DEF Submit, Abort
  <2>4. CASE \E m \in Msg : Post(m)
    BY <2>4, AnswersKept DEF Post
  <2>5. CASE UNCHANGED reportVars
    BY <2>5, AnswersKept DEF reportVars
  <2> QED BY <2>1, <2>2, <2>3, <2>4, <2>5 DEF ReportNext
<1> QED BY <1>1, <1>2, ReportInvariance, PTL DEF ReportSpec
=============================================================================
