------------------------------- MODULE Alerts -------------------------------
(***************************************************************************)
(* Alerts of sudden price changes: AlertSchedulerService, StreamService    *)
(* and StreamGateway (src/src/modules/stream).                             *)
(*                                                                         *)
(* A cron job starts a pass every minute, whether or not the previous one  *)
(* is over.  A pass visits every user, one monitored stock after the       *)
(* other, with one query per step; nothing catches an error, which ends    *)
(* the pass.  Time is counted in minutes.  The users' minute bars of a     *)
(* stock, which MarketRollup writes, show the same price.                  *)
(***************************************************************************)
EXTENDS Integers, FiniteSets

CONSTANTS
  User, Stock,
  Watched, Held,    \* stocks of a user's watchlist and positions
  MaxMonitored,
  Window, Percent,  \* of a level: how far back, and how large a change
  Quiet,            \* minutes without another alert of the level
  Close,            \* Close[s][m]: price of stock s at the end of minute m
  Pass, Socket, Nobody,
  MaxTime           \* bound of the model

Level == {"WARN", "CRITICAL"}
Time == 0..MaxTime
Never == -1

ASSUME AlertsAssumption ==
  /\ {Watched, Held} \subseteq [User -> SUBSET Stock]
  /\ {MaxMonitored, Quiet, MaxTime} \subseteq Nat
  /\ {Window, Percent} \subseteq [Level -> Nat]
  /\ Close \in [Stock -> [Time -> Nat \ {0}]]
  /\ Nobody \notin User

VARIABLES
  now,
  bars,     \* the minutes a stock has a bar of
  started,  \* when the last pass started
  pc, todo, \* of a pass; the users it has still to visit
  stocks,   \* the stocks of the user visited, still to check
  visit,    \* user, stock, time of the newest bar, level of its change
  log,      \* table alert_logs
  met,      \* pairs of passes that overlapped
  room,     \* the user whose room a socket is in
  inbox     \* alerts a socket received

passVars == <<pc, todo, stocks, visit>>
vars == <<now, bars, started, passVars, log, met, room, inbox>>

Running(p) == pc[p] \notin {"idle", "done", "failed"}
Checking(p) == pc[p] \in {"windows", "recent", "create", "emit"}
Alert == [user : User, stock : Stock, level : Level, latest : Time, at : Time, by : Pass]
NoVisit == [latest |-> Never]

TypeOK ==
  /\ now \in Time /\ started \in Time \cup {Never}
  /\ bars \in [Stock -> SUBSET Time]
  /\ pc \in [Pass -> {"idle", "next", "windows", "recent", "create", "emit", "done", "failed"}]
  /\ todo \in [Pass -> SUBSET User] /\ stocks \in [Pass -> SUBSET Stock]
  /\ \A p \in Pass : Checking(p) =>
       /\ visit[p].user \in User \ todo[p]
       /\ visit[p].stock \in (Watched[visit[p].user] \cup Held[visit[p].user]) \ stocks[p]
       /\ visit[p].latest \in bars[visit[p].stock]
       /\ pc[p] # "windows" => visit[p].level \in Level
  /\ log \subseteq Alert
  /\ met \subseteq Pass \X Pass
  /\ room \in [Socket -> User \cup {Nobody}]
  /\ inbox \in [Socket -> SUBSET log]

Init ==
  /\ now = 0 /\ started = Never
  /\ bars = [s \in Stock |-> {}]
  /\ pc = [p \in Pass |-> "idle"]
  /\ todo = [p \in Pass |-> {}] /\ stocks = [p \in Pass |-> {}]
  /\ visit = [p \in Pass |-> NoVisit]
  /\ log = {} /\ met = {}
  /\ room = [c \in Socket |-> Nobody]
  /\ inbox = [c \in Socket |-> {}]

-----------------------------------------------------------------------------
(* A pass: checkPriceAlerts, checkUserAlerts, checkStockAlert *)

Goto(p, l) == pc' = [pc EXCEPT ![p] = l]

Start(p) ==
  LET others == {q \in Pass : Running(q)} IN
  /\ pc[p] = "idle" /\ started < now
  /\ started' = now
  /\ Goto(p, "next")
  /\ todo' = [todo EXCEPT ![p] = User]
  /\ met' = met \cup ({p} \X others) \cup (others \X {p})
  /\ UNCHANGED <<now, bars, stocks, visit, log, room, inbox>>

\* At most MaxMonitored, those of the watchlist first.
Monitored(u) ==
  LET all == Watched[u] \cup Held[u] IN
  {M \in SUBSET all :
     /\ Cardinality(M) = IF Cardinality(all) < MaxMonitored THEN Cardinality(all) ELSE MaxMonitored
     /\ M \subseteq Watched[u] \/ Watched[u] \subseteq M}

VisitUser(p, u) ==
  /\ pc[p] = "next" /\ stocks[p] = {} /\ u \in todo[p]
  /\ todo' = [todo EXCEPT ![p] = @ \ {u}]
  /\ \E M \in Monitored(u) : stocks' = [stocks EXCEPT ![p] = M]
  /\ visit' = [visit EXCEPT ![p] = [user |-> u, latest |-> Never]]
  /\ UNCHANGED <<now, bars, started, pc, log, met, room, inbox>>

Newest(S) == CHOOSE m \in S : \A n \in S : n <= m

\* The newest minute bar; without one the stock is skipped.
VisitStock(p, s) ==
  /\ pc[p] = "next" /\ s \in stocks[p]
  /\ stocks' = [stocks EXCEPT ![p] = @ \ {s}]
  /\ IF bars[s] = {} THEN UNCHANGED <<pc, visit>>
     ELSE /\ Goto(p, "windows")
          /\ visit' = [visit EXCEPT ![p] =
               [user |-> @.user, stock |-> s, latest |-> Newest(bars[s])]]
  /\ UNCHANGED <<now, bars, started, todo, log, met, room, inbox>>

Finish(p) ==
  /\ pc[p] = "next" /\ stocks[p] = {} /\ todo[p] = {}
  /\ Goto(p, "done")
  /\ visit' = [visit EXCEPT ![p] = NoVisit]
  /\ UNCHANGED <<now, bars, started, todo, stocks, log, met, room, inbox>>

EndVisit(p) ==
  /\ Goto(p, "next")
  /\ visit' = [visit EXCEPT ![p] = [user |-> @.user, latest |-> Never]]

\* Mutant of Target: the window ends now instead of at the newest bar.
TargetNow(p, level) == now - Window[level]
Target(p, level) == visit[p].latest - Window[level]

\* The price of s moved from minute a to minute b by the percentage of the level.
Moved(s, a, b, level) ==
  LET change == Close[s][b] - Close[s][a] IN
  \/ change * 100 >= Percent[level] * Close[s][a]
  \/ -change * 100 >= Percent[level] * Close[s][a]

\* Since the newest bar at or before the target.
Reached(p, level) ==
  LET s == visit[p].stock
      old == {m \in bars[s] : m <= Target(p, level)}
  IN  old # {} /\ Moved(s, Newest(old), visit[p].latest, level)

ReadWindows(p) ==
  /\ pc[p] = "windows"
  /\ IF \E l \in Level : Reached(p, l)
     THEN LET l == IF Reached(p, "CRITICAL") THEN "CRITICAL" ELSE "WARN" IN
          /\ visit' = [visit EXCEPT ![p] =
               [user |-> @.user, stock |-> @.stock, latest |-> @.latest, level |-> l]]
          /\ Goto(p, "recent")
     ELSE EndVisit(p)
  /\ UNCHANGED <<now, bars, started, todo, stocks, log, met, room, inbox>>

-----------------------------------------------------------------------------
(* createAndEmitAlert *)

AlertsOf(v) ==
  {a \in log : a.user = v.user /\ a.stock = v.stock /\ a.level = v.level}

\* Mutant of Recent: an alert of either level keeps the other one quiet.
RecentAnyLevel(v) == \E a \in log : a.user = v.user /\ a.stock = v.stock /\ a.at >= now - Quiet
\* Mutant of Recent: gt for gte.
RecentShort(v) == \E a \in AlertsOf(v) : a.at > now - Quiet
Recent(v) == \E a \in AlertsOf(v) : a.at >= now - Quiet

CheckRecent(p) ==
  /\ pc[p] = "recent"
  /\ IF Recent(visit[p]) THEN EndVisit(p) ELSE Goto(p, "create") /\ UNCHANGED visit
  /\ UNCHANGED <<now, bars, started, todo, stocks, log, met, room, inbox>>

NewAlert(p) ==
  [user |-> visit[p].user, stock |-> visit[p].stock, level |-> visit[p].level,
   latest |-> visit[p].latest, at |-> now, by |-> p]

Create(p) ==
  /\ pc[p] = "create"
  /\ log' = log \cup {NewAlert(p)}
  /\ Goto(p, "emit")
  /\ UNCHANGED <<now, bars, started, todo, stocks, visit, met, room, inbox>>

AlertCreated(p) == CHOOSE a \in AlertsOf(visit[p]) : a.by = p /\ a.latest = visit[p].latest

Receivers(u) == {c \in Socket : room[c] = u}

Emit(p) ==
  /\ pc[p] = "emit"
  /\ inbox' = [c \in Socket |-> IF c \in Receivers(visit[p].user)
                                THEN inbox[c] \cup {AlertCreated(p)} ELSE inbox[c]]
  /\ EndVisit(p)
  /\ UNCHANGED <<now, bars, started, todo, stocks, log, met, room>>

\* A query fails, or only its answer is lost.
Fail(p) ==
  /\ Running(p) /\ pc[p] # "emit"
  /\ Goto(p, "failed")
  /\ \/ UNCHANGED log
     \/ pc[p] = "create" /\ log' = log \cup {NewAlert(p)}
  /\ todo' = [todo EXCEPT ![p] = {}]
  /\ stocks' = [stocks EXCEPT ![p] = {}]
  /\ visit' = [visit EXCEPT ![p] = NoVisit]
  /\ UNCHANGED <<now, bars, started, met, room, inbox>>

-----------------------------------------------------------------------------
(* The gateway and its environment *)

\* handleConnection: without a valid token the socket is disconnected.
Connect(c, u) ==
  /\ room[c] = Nobody
  /\ room' = [room EXCEPT ![c] = u]
  /\ UNCHANGED <<now, bars, started, passVars, log, met, inbox>>

\* Another socket may take the place of one that is gone.
Disconnect(c) ==
  /\ room[c] # Nobody
  /\ room' = [room EXCEPT ![c] = Nobody]
  /\ inbox' = [inbox EXCEPT ![c] = {}]
  /\ UNCHANGED <<now, bars, started, passVars, log, met>>

\* A minute ends and the bars of some stocks are written.
Tick ==
  /\ now < MaxTime
  /\ now' = now + 1
  /\ \E S \in SUBSET Stock :
       bars' = [s \in Stock |-> IF s \in S THEN bars[s] \cup {now} ELSE bars[s]]
  /\ UNCHANGED <<started, passVars, log, met, room, inbox>>

Restart ==
  /\ \E p \in Pass : Running(p)
  /\ pc' = [p \in Pass |-> IF Running(p) THEN "failed" ELSE pc[p]]
  /\ todo' = [p \in Pass |-> {}] /\ stocks' = [p \in Pass |-> {}]
  /\ visit' = [p \in Pass |-> NoVisit]
  /\ room' = [c \in Socket |-> Nobody]
  /\ inbox' = [c \in Socket |-> {}]
  /\ UNCHANGED <<now, bars, started, log, met>>

PassStep(p) ==
  \/ \E u \in User : VisitUser(p, u)
  \/ \E s \in Stock : VisitStock(p, s)
  \/ ReadWindows(p) \/ CheckRecent(p) \/ Create(p) \/ Emit(p)
  \/ Finish(p) \/ Fail(p)

Next ==
  \/ \E p \in Pass : Start(p) \/ PassStep(p)
  \/ \E c \in Socket : Disconnect(c) \/ \E u \in User : Connect(c, u)
  \/ Tick \/ Restart

Spec == Init /\ [][Next]_vars

-----------------------------------------------------------------------------
\* Two alerts of one level on one stock within Quiet minutes come from passes
\* that overlapped.
AlertsSpaced ==
  \A a, b \in log :
    /\ a # b /\ a.user = b.user /\ a.stock = b.stock /\ a.level = b.level
    /\ a.at <= b.at /\ b.at <= a.at + Quiet
    => <<a.by, b.by>> \in met

\* An alert is justified by the bars, whatever became of them since they were
\* read by two queries: it compares a bar with the newest one that was old enough
\* for its level, and no higher level was due.
AlertJustified ==
  \A a \in log :
    LET Since(l) == {m \in bars[a.stock] : m <= a.latest - Window[l]}
        Due(l) == Since(l) # {} /\ Moved(a.stock, Newest(Since(l)), a.latest, l)
    IN  Due(a.level) /\ (a.level = "WARN" => ~Due("CRITICAL"))

\* A socket receives the alerts of its user only.
EventsOfOwner ==
  \A c \in Socket : \A a \in inbox[c] : a.user = room[c]

\* A visit that finds a sudden change and does not fail leaves an alert of this
\* level not older than Quiet minutes.
ChangeTold ==
  [][\A p \in Pass :
       pc[p] \in {"recent", "create", "emit"} /\ pc'[p] = "next" =>
         \E a \in log' : /\ a.user = visit[p].user /\ a.stock = visit[p].stock
                         /\ a.level = visit[p].level
                         /\ a.at >= now - Quiet \/ a.by = p]_vars
=============================================================================
