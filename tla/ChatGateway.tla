---------------------------- MODULE ChatGateway ----------------------------
(***************************************************************************)
(* ChatGateway.handleSendMessage (src/src/modules/chat/chat.gateway.ts)    *)
(* with ChatService.sendMessage (chat.service.ts:27-87): the in-memory     *)
(* spam limiter, then the asynchronous storing and broadcasting of what    *)
(* passes it.                                                              *)
(*                                                                         *)
(* The limiter runs without an await, so it is one step.  The code keeps   *)
(* the times of a user's recent messages; the model keeps the messages,    *)
(* and sentAt gives their times.                                           *)
(***************************************************************************)
EXTENDS Naturals, FiniteSets

CONSTANTS
  User,
  Message,   \* send_message events, over all sockets of all users
  Kinds,     \* what messages may be: "plain", "bannedWord", "unlisted"
  Window,    \* SPAM_WINDOW_MS
  Limit,     \* SPAM_LIMIT
  Ban,       \* BAN_DURATION_MS
  MaxTime,   \* bound on the clock
  None       \* the user of a socket whose token was refused

ASSUME ChatGatewayAssumption ==
  /\ None \notin User
  /\ IsFiniteSet(Message)
  /\ Window \in Nat /\ Limit \in Nat \ {0} /\ Ban \in Nat /\ MaxTime \in Nat
  /\ Window <= Ban

VARIABLES
  now,           \* Date.now()
  history,       \* messageHistory: per user, the messages whose time it keeps
  bannedUntil,   \* bannedUsers: per user, 0 when there is no entry
  sender,        \* client.data.user of a message's socket
  kind,          \* what a message holds
  sentAt,        \* when its event was handled
  stage,         \* how far its handler is
  room,          \* the chat room of the listed stock exists
  stored         \* rows of chat_messages

gatewayVars == <<now, history, bannedUntil, sender, kind, sentAt, stage, room, stored>>

\* Waiting for the database after passing the limiter.
Sending == {"stock", "room", "create", "broadcast"}
Passed == Sending \cup {"delivered", "failed"}

TypeOK ==
  /\ now \in Nat
  /\ history \in [User -> SUBSET Message]
  /\ bannedUntil \in [User -> Nat]
  /\ sender \in [Message -> User \cup {None}]
  /\ kind \in [Message -> Kinds]
  /\ sentAt \in [Message -> Nat]
  /\ stage \in [Message -> {"idle", "refused", "spam", "past"} \cup Passed]
  /\ room \in BOOLEAN
  /\ stored \in SUBSET Message

Init ==
  /\ now = 1
  /\ history = [u \in User |-> {}]
  /\ bannedUntil = [u \in User |-> 0]
  /\ sender \in [Message -> User \cup {None}]
  /\ kind \in [Message -> Kinds]
  /\ sentAt = [m \in Message |-> 0]
  /\ stage = [m \in Message |-> "idle"]
  /\ room = FALSE
  /\ stored = {}

-----------------------------------------------------------------------------
(* handleSendMessage up to its await. *)

Banned(u) == bannedUntil[u] > now

Recent(u) == {x \in history[u] : now - sentAt[x] < Window}

\* Mutant of Spams: one message too many.
SpamsLate(u) == Cardinality(Recent(u)) > Limit
Spams(u) == Cardinality(Recent(u)) >= Limit

\* Mutant of BanEnd: the spam window instead of the ban.
BanEndWindow == now + Window
BanEnd == now + Ban

Handle(m, s) ==
  /\ stage[m] = "idle"
  /\ stage' = [stage EXCEPT ![m] = s]
  /\ sentAt' = [sentAt EXCEPT ![m] = now]
  /\ UNCHANGED <<now, sender, kind, room, stored>>

\* No user: error and disconnect.
RefuseUnauthenticated(m) ==
  /\ sender[m] = None
  /\ Handle(m, "refused")
  /\ UNCHANGED <<history, bannedUntil>>

RefuseBanned(m) ==
  /\ sender[m] # None
  /\ Banned(sender[m])
  /\ Handle(m, "refused")
  /\ UNCHANGED <<history, bannedUntil>>

\* Too many recent messages: a ban starts and the history is dropped.
BanSpammer(m) ==
  LET u == sender[m] IN
  /\ u # None
  /\ ~Banned(u)
  /\ Spams(u)
  /\ Handle(m, "spam")
  /\ bannedUntil' = [bannedUntil EXCEPT ![u] = BanEnd]
  /\ history' = [history EXCEPT ![u] = {}]

\* The message passes and its time is kept; an expired ban is dropped.  The
\* word filter follows at once and may still refuse the message.
PassLimiter(m) ==
  LET u == sender[m] IN
  /\ u # None
  /\ ~Banned(u)
  /\ ~Spams(u)
  /\ Handle(m, IF kind[m] = "bannedWord" THEN "failed" ELSE "stock")
  /\ bannedUntil' = [bannedUntil EXCEPT ![u] = 0]
  /\ history' = [history EXCEPT ![u] = Recent(u) \cup {m}]

HandleSendMessage(m) ==
  \/ RefuseUnauthenticated(m)
  \/ RefuseBanned(m)
  \/ BanSpammer(m)
  \/ PassLimiter(m)

-----------------------------------------------------------------------------
(* ChatService.sendMessage, one step per await, and the broadcast. *)

Advance(m, from, to) ==
  /\ stage[m] = from
  /\ stage' = [stage EXCEPT ![m] = to]
  /\ UNCHANGED <<now, history, bannedUntil, sender, kind, sentAt>>

FindStock(m) ==
  /\ Advance(m, "stock", IF kind[m] = "unlisted" THEN "failed" ELSE "room")
  /\ UNCHANGED <<room, stored>>

UpsertRoom(m) ==
  /\ Advance(m, "room", "create")
  /\ room' = TRUE
  /\ UNCHANGED stored

CreateMessage(m) ==
  /\ Advance(m, "create", "broadcast")
  /\ stored' = stored \cup {m}
  /\ UNCHANGED room

Broadcast(m) ==
  /\ Advance(m, "broadcast", "delivered")
  /\ UNCHANGED <<room, stored>>

\* A query fails: the sender gets chat_error.
QueryFails(m) ==
  /\ stage[m] \in {"stock", "room", "create"}
  /\ Advance(m, stage[m], "failed")
  /\ UNCHANGED <<room, stored>>

SendMessage(m) ==
  \/ FindStock(m)
  \/ UpsertRoom(m)
  \/ CreateMessage(m)
  \/ Broadcast(m)
  \/ QueryFails(m)

-----------------------------------------------------------------------------
Tick ==
  /\ now < MaxTime
  /\ now' = now + 1
  /\ UNCHANGED <<history, bannedUntil, sender, kind, sentAt, stage, room, stored>>

\* A restart forgets both maps and every handler; what it handled is past.
Restart ==
  /\ \E m \in Message : stage[m] \notin {"idle", "past"}
  /\ history' = [u \in User |-> {}]
  /\ bannedUntil' = [u \in User |-> 0]
  /\ stage' = [m \in Message |-> IF stage[m] = "idle" THEN "idle" ELSE "past"]
  /\ UNCHANGED <<now, sender, kind, sentAt, room, stored>>

Next ==
  \/ \E m \in Message : HandleSendMessage(m) \/ SendMessage(m)
  \/ Tick
  \/ Restart

Spec == Init /\ [][Next]_gatewayVars

-----------------------------------------------------------------------------
\* Messages of u that passed the limiter of this process.
PassedOf(u) == {x \in Message : sender[x] = u /\ stage[x] \in Passed}

\* In any interval of length Window that ends with a message of the user, at
\* most Limit of the user's messages passed the limiter, over all sockets,
\* across bans and however many were refused later (chat.gateway.ts:96-110).
RateLimited ==
  \A u \in User : \A m \in PassedOf(u) :
    Cardinality({x \in PassedOf(u) :
                   sentAt[x] <= sentAt[m] /\ sentAt[m] - sentAt[x] < Window}) <= Limit

\* From a ban on, no message of the user passes for Ban
\* (chat.gateway.ts:99-107), whatever the user sends meanwhile.
BanServed ==
  \A b, x \in Message :
    /\ stage[b] = "spam"
    /\ stage[x] \in Passed
    /\ sender[x] = sender[b]
    => sentAt[x] <= sentAt[b] \/ sentAt[x] >= sentAt[b] + Ban

\* A user's entry of messageHistory never holds more than Limit times.
HistoryBounded == \A u \in User : Cardinality(history[u]) <= Limit
=============================================================================
