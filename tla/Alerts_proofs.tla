---------------------------- MODULE Alerts_proofs ----------------------------
(***************************************************************************)
(* Proofs about Alerts, for every number of users, stocks, sockets and     *)
(* overlapping passes: alerts are spaced, justified by the bars, told, and *)
(* received by their owner only.                                           *)
(***************************************************************************)
EXTENDS Alerts, WellFoundedInduction, TLAPS

Own(u) == Watched[u] \cup Held[u]

\* The stocks still to check belong to the user visited.
Round(p) ==
  /\ pc[p] = "idle" => stocks[p] = {}
  /\ stocks[p] # {} => visit[p].user \in User \ todo[p] /\ stocks[p] \subseteq Own(visit[p].user)

\* A pass has no alert yet of what it has still to check.
Fresh(p) ==
  \A a \in log : a.by = p =>
    /\ pc[p] # "idle"
    /\ a.user \notin todo[p]
    /\ Running(p) /\ a.user = visit[p].user => a.stock \notin stocks[p]
    /\ pc[p] \in {"windows", "recent", "create"} =>
         ~(a.user = visit[p].user /\ a.stock = visit[p].stock)

\* Since a pass checked for recent alerts, only passes it meets have logged one.
Checked(p) ==
  pc[p] = "create" =>
    \A a \in AlertsOf(visit[p]) : a.at + Quiet < now \/ <<a.by, p>> \in met

\* An alert is logged before it is emitted.
Emitting(p) ==
  pc[p] = "emit" => \E a \in AlertsOf(visit[p]) : a.by = p /\ a.latest = visit[p].latest

\* The level is due on the stock, at a bar.
Since(s, latest, l) == {m \in bars[s] : m <= latest - Window[l]}
Due(s, latest, l) ==
  Since(s, latest, l) # {} /\ Moved(s, Newest(Since(s, latest, l)), latest, l)
Right(s, latest, l) ==
  Due(s, latest, l) /\ (l = "WARN" => ~Due(s, latest, "CRITICAL"))
Justified(p) ==
  pc[p] \in {"recent", "create"} => Right(visit[p].stock, visit[p].latest, visit[p].level)

PassInv(p) == Round(p) /\ Fresh(p) /\ Checked(p) /\ Emitting(p) /\ Justified(p)

\* A bar is written when its minute is over.
BarsPast == \A s \in Stock : \A m \in bars[s] : m < now

Overlaps ==
  /\ \A p, q \in Pass : <<p, q>> \in met => <<q, p>> \in met
  /\ \A p, q \in Pass : p # q /\ Running(p) /\ Running(q) => <<p, q>> \in met

\* A pass logs one alert of a user's stock, and not in the future.
Once ==
  /\ \A a \in log : a.at <= now /\ a.latest < now
  /\ \A a, b \in log : a.by = b.by /\ a.user = b.user /\ a.stock = b.stock => a = b

\* The inductive invariant.
IInv ==
  /\ TypeOK /\ DOMAIN visit = Pass
  /\ \A p \in Pass : PassInv(p)
  /\ BarsPast /\ Overlaps /\ Once
  /\ AlertsSpaced /\ AlertJustified /\ EventsOfOwner

-----------------------------------------------------------------------------
LEMMA Numbers ==
  /\ Quiet \in Nat /\ MaxTime \in Nat
  /\ \A t \in Time : t \in Nat /\ t <= MaxTime /\ t # Never
  /\ \A l \in Level : Window[l] \in Nat
BY AlertsAssumption DEF Time, Never

\* The newest of a set of times is one of them.
LEMMA NewestIn ==
  ASSUME NEW S \in SUBSET Time, S # {}
  PROVE  Newest(S) \in S
<1> DEFINE R == {x \in Nat \X Nat : x[1] < x[2]}
           T == {MaxTime - m : m \in S}
<1>1. IsWellFoundedOn(R, Nat)
  BY NatLessThanWellFounded, Zenon DEF OpToRel
<1>2. T \subseteq Nat /\ T # {}
  <2>1. \A m \in S : m \in Nat /\ m <= MaxTime
    BY Numbers
  <2>2. T \subseteq Nat
    BY <2>1, Numbers
  <2>3. T # {}
    OBVIOUS
  <2> QED BY <2>2, <2>3
<1> HIDE DEF R
<1>3. PICK t \in T : \A x \in T : ~(<<x, t>> \in R)
  <2> HIDE DEF T
  <2> QED BY <1>1, <1>2, WFMin
<1>4. PICK m \in S : t = MaxTime - m
  OBVIOUS
<1>5. ASSUME NEW n \in S PROVE n <= m
  <2>1. MaxTime - n \in T
    OBVIOUS
  <2>2. ~(MaxTime - n < MaxTime - m)
    BY <1>2, <1>3, <1>4, <2>1 DEF R
  <2> QED BY <2>2, Numbers
<1>6. \E a \in S : \A n \in S : n <= a
  BY <1>5
<1> QED BY <1>6 DEF Newest

LEMMA InitSound == Init => IInv
<1> SUFFICES ASSUME Init PROVE IInv
  OBVIOUS
<1>1. TypeOK /\ DOMAIN visit = Pass
  BY Numbers DEF Init, TypeOK, Time, Checking
<1>2. \A p \in Pass : PassInv(p)
  BY DEF Init, PassInv, Round, Fresh, Checked, Emitting, Justified
<1>3. BarsPast /\ Overlaps /\ Once
  BY DEF Init, BarsPast, Overlaps, Once, Running
<1>4. AlertsSpaced /\ AlertJustified /\ EventsOfOwner
  BY DEF Init, AlertsSpaced, AlertJustified, EventsOfOwner
<1> QED BY <1>1, <1>2, <1>3, <1>4 DEF IInv

\* A step of p that changes only what the pass has in hand.
PrivateStep(p) ==
  /\ UNCHANGED <<now, bars, started, log, met, room, inbox>>
  /\ \A q \in Pass \ {p} : /\ pc'[q] = pc[q] /\ todo'[q] = todo[q]
                           /\ stocks'[q] = stocks[q] /\ visit'[q] = visit[q]
  /\ DOMAIN visit' = Pass

LEMMA PrivateKeeps ==
  ASSUME IInv, NEW p \in Pass, PrivateStep(p), Running(p), TypeOK', PassInv(p)'
  PROVE  IInv'
<1> USE DEF IInv
<1>1. UNCHANGED <<now, bars, started, log, met, room, inbox>>
  BY DEF PrivateStep
<1>2. \A q \in Pass \ {p} : /\ pc'[q] = pc[q] /\ todo'[q] = todo[q]
                            /\ stocks'[q] = stocks[q] /\ visit'[q] = visit[q]
  BY DEF PrivateStep, TypeOK
<1>3. DOMAIN visit' = Pass
  BY DEF PrivateStep
<1>4. ASSUME NEW q \in Pass PROVE PassInv(q)'
  <2>1. CASE q = p
    BY <2>1
  <2>2. CASE q # p
    <3>1. PassInv(q)
      OBVIOUS
    <3>2. Round(q)' /\ Fresh(q)'
      BY <1>1, <1>2, <2>2, <3>1 DEF PassInv, Round, Fresh, Running
    <3>3. Checked(q)' /\ Emitting(q)'
      BY <1>1, <1>2, <2>2, <3>1 DEF PassInv, Checked, Emitting, AlertsOf
    <3>4. Justified(q)'
      BY <1>1, <1>2, <2>2, <3>1 DEF PassInv, Justified, Right, Due, Since
    <3> QED BY <3>2, <3>3, <3>4 DEF PassInv
  <2> QED BY <2>1, <2>2
<1>5. BarsPast' /\ Once'
  BY <1>1 DEF BarsPast, Once
<1>6. Overlaps'
  BY <1>1, <1>2 DEF Overlaps, Running
<1>7. AlertsSpaced' /\ EventsOfOwner'
  BY <1>1 DEF AlertsSpaced, EventsOfOwner
<1>8. AlertJustified'
  BY <1>1 DEF AlertJustified
<1> QED BY <1>3, <1>4, <1>5, <1>6, <1>7, <1>8

-----------------------------------------------------------------------------
LEMMA StartKeeps ==
  ASSUME IInv, NEW p \in Pass, Start(p)
  PROVE  IInv'
<1> USE DEF IInv
<1> DEFINE others == {q \in Pass : Running(q)}
<1>1. /\ UNCHANGED <<now, bars, stocks, visit, log, room, inbox>> /\ pc[p] = "idle"
      /\ started' = now /\ pc' = [pc EXCEPT ![p] = "next"] /\ todo' = [todo EXCEPT ![p] = User]
      /\ met' = met \cup ({p} \X others) \cup (others \X {p})
  BY DEF Start, Goto
<1>2. TypeOK'
  BY <1>1 DEF TypeOK, Checking
<1>3. ASSUME NEW q \in Pass PROVE PassInv(q)'
  <2>1. PassInv(q) /\ PassInv(p)
    OBVIOUS
  <2>2. Round(q)' /\ Fresh(q)'
    BY <1>1, <2>1 DEF PassInv, Round, Fresh, TypeOK, Running
  <2>3. Checked(q)' /\ Emitting(q)'
    BY <1>1, <2>1 DEF PassInv, Checked, Emitting, AlertsOf, TypeOK
  <2>4. Justified(q)'
    BY <1>1, <2>1 DEF PassInv, Justified, Right, Due, Since, TypeOK
  <2> QED BY <2>2, <2>3, <2>4 DEF PassInv
<1>4. BarsPast' /\ Once'
  BY <1>1 DEF BarsPast, Once
<1>5. Overlaps'
  BY <1>1 DEF Overlaps, Running, TypeOK
<1>6. AlertsSpaced' /\ EventsOfOwner' /\ AlertJustified'
  BY <1>1 DEF AlertsSpaced, EventsOfOwner, AlertJustified
<1> QED BY <1>1, <1>2, <1>3, <1>4, <1>5, <1>6

LEMMA VisitUserKeeps ==
  ASSUME IInv, NEW p \in Pass, NEW u \in User, VisitUser(p, u)
  PROVE  IInv'
<1> USE DEF IInv
<1>1. PICK M \in Monitored(u) : stocks' = [stocks EXCEPT ![p] = M]
  BY DEF VisitUser
<1>2. /\ UNCHANGED <<now, bars, started, pc, log, met, room, inbox>>
      /\ pc[p] = "next" /\ u \in todo[p] /\ todo' = [todo EXCEPT ![p] = @ \ {u}]
      /\ visit' = [visit EXCEPT ![p] = [user |-> u, latest |-> Never]]
  BY DEF VisitUser
<1>3. M \subseteq Own(u) /\ Own(u) \subseteq Stock
  BY AlertsAssumption DEF Monitored, Own
<1>4. TypeOK'
  BY <1>1, <1>2, <1>3 DEF TypeOK, Checking
<1>5. PassInv(p)'
  <2>1. PassInv(p)
    OBVIOUS
  <2>2. Round(p)' /\ Fresh(p)'
    BY <1>1, <1>2, <1>3, <2>1 DEF PassInv, Round, Fresh, TypeOK
  <2>3. Checked(p)' /\ Emitting(p)' /\ Justified(p)'
    BY <1>2 DEF Checked, Emitting, Justified
  <2> QED BY <2>2, <2>3 DEF PassInv
<1>6. PrivateStep(p) /\ Running(p)
  BY <1>1, <1>2 DEF PrivateStep, Running, TypeOK
<1> QED BY <1>4, <1>5, <1>6, PrivateKeeps

LEMMA VisitStockKeeps ==
  ASSUME IInv, NEW p \in Pass, NEW s \in Stock, VisitStock(p, s)
  PROVE  IInv'
<1> USE DEF IInv
<1> DEFINE v == [user |-> visit[p].user, stock |-> s, latest |-> Newest(bars[s])]
<1>1. /\ UNCHANGED <<now, bars, started, todo, log, met, room, inbox>>
      /\ pc[p] = "next" /\ s \in stocks[p] /\ stocks' = [stocks EXCEPT ![p] = @ \ {s}]
  BY DEF VisitStock
<1>2. visit[p].user \in User \ todo[p] /\ s \in Own(visit[p].user)
  BY <1>1 DEF PassInv, Round
<1>3. Running(p) /\ PassInv(p)
  BY <1>1 DEF Running
<1>4. CASE UNCHANGED <<pc, visit>>
  <2>1. TypeOK'
    BY <1>1, <1>4 DEF TypeOK, Checking
  <2>2. Round(p)' /\ Fresh(p)'
    BY <1>1, <1>3, <1>4 DEF PassInv, Round, Fresh, TypeOK, Running
  <2>3. Checked(p)' /\ Emitting(p)' /\ Justified(p)'
    BY <1>1, <1>4 DEF Checked, Emitting, Justified
  <2>4. PrivateStep(p)
    BY <1>1, <1>4 DEF PrivateStep, TypeOK
  <2> QED BY <1>3, <2>1, <2>2, <2>3, <2>4, PrivateKeeps DEF PassInv
<1>5. CASE bars[s] # {} /\ pc' = [pc EXCEPT ![p] = "windows"] /\ visit' = [visit EXCEPT ![p] = v]
  <2>1. Newest(bars[s]) \in bars[s]
    BY <1>5, NewestIn DEF TypeOK
  <2>2. TypeOK'
    BY <1>1, <1>2, <1>5, <2>1 DEF TypeOK, Checking, Own
  <2>3. Round(p)' /\ Fresh(p)'
    BY <1>1, <1>2, <1>3, <1>5 DEF PassInv, Round, Fresh, TypeOK, Running
  <2>4. Checked(p)' /\ Emitting(p)' /\ Justified(p)'
    BY <1>1, <1>5 DEF Checked, Emitting, Justified, TypeOK
  <2>5. PrivateStep(p)
    BY <1>1, <1>5 DEF PrivateStep, TypeOK
  <2> QED BY <1>3, <2>2, <2>3, <2>4, <2>5, PrivateKeeps DEF PassInv
<1> QED BY <1>4, <1>5 DEF VisitStock, Goto

LEMMA EndVisitKeeps ==
  ASSUME IInv, NEW p \in Pass, EndVisit(p), visit[p].user \in User \ todo[p],
         Running(p), UNCHANGED <<now, bars, started, todo, stocks, log, met, room, inbox>>
  PROVE  IInv'
<1> USE DEF IInv
<1>1. /\ pc' = [pc EXCEPT ![p] = "next"]
      /\ visit' = [visit EXCEPT ![p] = [user |-> visit[p].user, latest |-> Never]]
  BY DEF EndVisit, Goto
<1>2. TypeOK'
  BY <1>1 DEF TypeOK, Checking
<1>3. Round(p)' /\ Fresh(p)'
  BY <1>1 DEF PassInv, Round, Fresh, TypeOK, Running
<1>4. Checked(p)' /\ Emitting(p)' /\ Justified(p)'
  BY <1>1 DEF Checked, Emitting, Justified, TypeOK
<1>5. PrivateStep(p)
  BY <1>1 DEF PrivateStep, TypeOK
<1> QED BY <1>2, <1>3, <1>4, <1>5, PrivateKeeps DEF PassInv

LEMMA ReadWindowsKeeps ==
  ASSUME IInv, NEW p \in Pass, ReadWindows(p)
  PROVE  IInv'
<1> USE DEF IInv
<1>1. /\ UNCHANGED <<now, bars, started, todo, stocks, log, met, room, inbox>>
      /\ pc[p] = "windows" /\ Running(p) /\ Checking(p)
  BY DEF ReadWindows, Running, Checking
<1>2. CASE EndVisit(p)
  BY <1>1, <1>2, EndVisitKeeps DEF TypeOK
<1>3. ASSUME \E k \in Level : Reached(p, k), ~EndVisit(p) PROVE IInv'
  <2> DEFINE l == IF Reached(p, "CRITICAL") THEN "CRITICAL" ELSE "WARN"
             v == [user |-> visit[p].user, stock |-> visit[p].stock,
                   latest |-> visit[p].latest, level |-> l]
  <2>1. pc' = [pc EXCEPT ![p] = "recent"] /\ visit' = [visit EXCEPT ![p] = v] /\ l \in Level
    BY <1>3 DEF ReadWindows, Goto, Level
  <2>2. \A k \in Level : Reached(p, k) <=> Due(visit[p].stock, visit[p].latest, k)
    BY DEF Reached, Due, Since, Target
  <2>3. Right(visit[p].stock, visit[p].latest, l)
    BY <1>3, <2>2 DEF Right, Level
  <2> HIDE DEF l
  <2>4. TypeOK'
    BY <1>1, <2>1 DEF TypeOK, Checking
  <2>5. Round(p)' /\ Fresh(p)'
    BY <1>1, <2>1 DEF PassInv, Round, Fresh, TypeOK, Running
  <2>6. Checked(p)' /\ Emitting(p)'
    BY <1>1, <2>1 DEF Checked, Emitting, TypeOK
  <2>7. Justified(p)'
    BY <1>1, <2>1, <2>3 DEF Justified, Right, Due, Since, TypeOK
  <2>8. PrivateStep(p)
    BY <1>1, <2>1 DEF PrivateStep, TypeOK
  <2> QED BY <1>1, <2>4, <2>5, <2>6, <2>7, <2>8, PrivateKeeps DEF PassInv
<1> QED BY <1>2, <1>3 DEF ReadWindows

LEMMA CheckRecentKeeps ==
  ASSUME IInv, NEW p \in Pass, CheckRecent(p)
  PROVE  IInv'
<1> USE DEF IInv
<1>1. /\ UNCHANGED <<now, bars, started, todo, stocks, log, met, room, inbox>>
      /\ pc[p] = "recent" /\ Running(p) /\ Checking(p)
  BY DEF CheckRecent, Running, Checking
<1>2. CASE EndVisit(p)
  BY <1>1, <1>2, EndVisitKeeps DEF TypeOK
<1>3. CASE ~Recent(visit[p]) /\ pc' = [pc EXCEPT ![p] = "create"] /\ UNCHANGED visit
  <2>1. TypeOK'
    BY <1>1, <1>3 DEF TypeOK, Checking
  <2>2. Round(p)' /\ Fresh(p)'
    BY <1>1, <1>3 DEF PassInv, Round, Fresh, TypeOK, Running
  <2>3. Checked(p)'
    <3>1. ASSUME NEW a \in AlertsOf(visit[p]) PROVE a.at + Quiet < now
      <4>1. a.at \in Nat /\ now \in Nat /\ Quiet \in Nat
        BY Numbers DEF AlertsOf, TypeOK, Alert
      <4>2. ~(a.at >= now - Quiet)
        BY <1>3 DEF Recent
      <4> QED BY <4>1, <4>2
    <3> QED BY <1>1, <1>3, <3>1 DEF Checked, AlertsOf
  <2>4. Emitting(p)'
    BY <1>1, <1>3 DEF Emitting, TypeOK
  <2>5. Justified(p)'
    BY <1>1, <1>3 DEF PassInv, Justified, Right, Due, Since
  <2>6. PrivateStep(p)
    BY <1>1, <1>3 DEF PrivateStep, TypeOK
  <2> QED BY <1>1, <2>1, <2>2, <2>3, <2>4, <2>5, <2>6, PrivateKeeps DEF PassInv
<1> QED BY <1>2, <1>3 DEF CheckRecent, Goto

LEMMA FinishKeeps ==
  ASSUME IInv, NEW p \in Pass, Finish(p)
  PROVE  IInv'
<1> USE DEF IInv
<1>1. /\ UNCHANGED <<now, bars, started, todo, stocks, log, met, room, inbox>>
      /\ pc[p] = "next" /\ stocks[p] = {} /\ pc' = [pc EXCEPT ![p] = "done"]
      /\ visit' = [visit EXCEPT ![p] = NoVisit]
  BY DEF Finish, Goto
<1>2. TypeOK'
  BY <1>1 DEF TypeOK, Checking
<1>3. PassInv(p)'
  BY <1>1 DEF PassInv, Round, Fresh, Checked, Emitting, Justified, TypeOK, Running
<1>4. PrivateStep(p) /\ Running(p)
  BY <1>1 DEF PrivateStep, TypeOK, Running
<1> QED BY <1>2, <1>3, <1>4, PrivateKeeps

-----------------------------------------------------------------------------
\* An alert is logged: p is alone in having checked without it, or meets the
\* others.
LEMMA LogKeeps ==
  ASSUME IInv, NEW p \in Pass, pc[p] = "create", log' = log \cup {NewAlert(p)},
         UNCHANGED <<now, bars, started, met, room, inbox>>,
         \A q \in Pass \ {p} : /\ pc'[q] = pc[q] /\ todo'[q] = todo[q]
                              /\ stocks'[q] = stocks[q] /\ visit'[q] = visit[q],
         DOMAIN visit' = Pass, pc'[p] \in {"emit", "failed"}, PassInv(p)', TypeOK'
  PROVE  IInv'
<1> USE DEF IInv
<1> DEFINE n == NewAlert(p)
<1>1. /\ n \in Alert /\ n.by = p /\ n.at = now /\ n.user = visit[p].user /\ n.stock = visit[p].stock
      /\ n.latest = visit[p].latest /\ n.level = visit[p].level /\ n.latest \in bars[n.stock]
  <2>1. /\ visit[p].user \in User /\ visit[p].level \in Level
        /\ visit[p].stock \in Stock /\ visit[p].latest \in bars[visit[p].stock]
    BY AlertsAssumption DEF TypeOK, Checking
  <2>2. visit[p].latest \in Time /\ now \in Time
    BY <2>1 DEF TypeOK
  <2> QED BY <2>1, <2>2 DEF NewAlert, Alert
<1>2. \A a \in log : a.by = p => ~(a.user = n.user /\ a.stock = n.stock)
  BY <1>1 DEF PassInv, Fresh
<1>3. \A a \in log : a.user = n.user /\ a.stock = n.stock /\ a.level = n.level
        => a.at + Quiet < now \/ <<a.by, p>> \in met
  BY <1>1 DEF PassInv, Checked, AlertsOf
<1>4. \A a \in log : a.at \in Nat /\ a.at <= now /\ a.by \in Pass
  BY Numbers DEF TypeOK, Alert, Once
<1>5. now \in Nat /\ Quiet \in Nat
  BY Numbers DEF TypeOK
<1> HIDE DEF n
<1>6. AlertsSpaced'
  <2> SUFFICES ASSUME NEW a \in log', NEW b \in log', a # b, a.user = b.user,
                      a.stock = b.stock, a.level = b.level, a.at <= b.at, b.at <= a.at + Quiet
               PROVE  <<a.by, b.by>> \in met
    BY DEF AlertsSpaced
  <2>1. CASE a \in log /\ b \in log
    BY <2>1 DEF AlertsSpaced
  <2>2. CASE a \in log /\ b = n
    BY <1>1, <1>3, <1>4, <1>5, <2>2
  <2>3. CASE a = n /\ b \in log
    <3>1. <<b.by, p>> \in met
      BY <1>1, <1>3, <1>4, <1>5, <2>3
    <3> QED BY <1>1, <1>4, <2>3, <3>1 DEF Overlaps
  <2> QED BY <2>1, <2>2, <2>3 DEF n
<1>7. AlertJustified'
  <2>1. Right(n.stock, n.latest, n.level)
    BY <1>1 DEF PassInv, Justified
  <2>2. ASSUME NEW a \in log' PROVE Right(a.stock, a.latest, a.level)
    BY <2>1, <2>2 DEF AlertJustified, Right, Due, Since, n
  <2> QED BY <2>2 DEF AlertJustified, Right, Due, Since
<1>8. EventsOfOwner' /\ BarsPast'
  BY DEF EventsOfOwner, BarsPast
<1>9. Once'
  <2>1. n.latest < now
    BY <1>1 DEF BarsPast, Alert
  <2> QED BY <1>1, <1>2, <1>5, <2>1 DEF Once, n
<1>10. Overlaps'
  BY DEF Overlaps, Running
<1>11. ASSUME NEW q \in Pass PROVE PassInv(q)'
  <2>1. CASE q = p
    BY <2>1
  <2>2. CASE q # p
    <3>1. PassInv(q)
      OBVIOUS
    <3>2. Round(q)' /\ Fresh(q)'
      BY <1>1, <2>2, <3>1 DEF PassInv, Round, Fresh, Running, n
    <3>3. ASSUME pc[q] = "create" PROVE <<p, q>> \in met
      BY <2>2, <3>3 DEF Overlaps, Running
    <3>4. Checked(q)'
      BY <1>1, <2>2, <3>1, <3>3 DEF PassInv, Checked, AlertsOf, n
    <3>5. Emitting(q)'
      BY <2>2, <3>1 DEF PassInv, Emitting, AlertsOf
    <3>6. Justified(q)'
      BY <2>2, <3>1 DEF PassInv, Justified, Right, Due, Since
    <3> QED BY <3>2, <3>4, <3>5, <3>6 DEF PassInv
  <2> QED BY <2>1, <2>2
<1> QED BY <1>6, <1>7, <1>8, <1>9, <1>10, <1>11

LEMMA CreateKeeps ==
  ASSUME IInv, NEW p \in Pass, Create(p)
  PROVE  IInv'
<1> USE DEF IInv
<1> DEFINE n == NewAlert(p)
<1>1. /\ UNCHANGED <<now, bars, started, todo, stocks, visit, met, room, inbox>>
      /\ pc[p] = "create" /\ log' = log \cup {n} /\ pc' = [pc EXCEPT ![p] = "emit"]
  BY DEF Create, Goto
<1>2. /\ n \in Alert /\ n.by = p /\ n.user = visit[p].user /\ n.stock = visit[p].stock
      /\ n.level = visit[p].level /\ n.latest = visit[p].latest
      /\ n.user \notin todo[p] /\ n.stock \notin stocks[p]
  BY <1>1, AlertsAssumption DEF TypeOK, Checking, NewAlert, Alert
<1> HIDE DEF n
<1>3. TypeOK'
  BY <1>1, <1>2 DEF TypeOK, Checking
<1>4. PassInv(p)'
  <2>1. Round(p)' /\ Fresh(p)'
    BY <1>1, <1>2 DEF PassInv, Round, Fresh, TypeOK, Running
  <2>2. Checked(p)' /\ Emitting(p)' /\ Justified(p)'
    BY <1>1, <1>2 DEF Checked, Emitting, AlertsOf, Justified, TypeOK
  <2> QED BY <2>1, <2>2 DEF PassInv
<1>5. pc'[p] = "emit" /\ \A q \in Pass \ {p} : pc'[q] = pc[q]
  BY <1>1 DEF TypeOK
<1> QED BY <1>1, <1>3, <1>4, <1>5, LogKeeps DEF n

\* A failed pass holds nothing.
LEMMA FailKeeps ==
  ASSUME IInv, NEW p \in Pass, Fail(p)
  PROVE  IInv'
<1> USE DEF IInv
<1>1. /\ UNCHANGED <<now, bars, started, met, room, inbox>> /\ Running(p)
      /\ pc' = [pc EXCEPT ![p] = "failed"] /\ todo' = [todo EXCEPT ![p] = {}]
      /\ stocks' = [stocks EXCEPT ![p] = {}] /\ visit' = [visit EXCEPT ![p] = NoVisit]
  BY DEF Fail, Goto
<1>2. /\ \A q \in Pass \ {p} : /\ pc'[q] = pc[q] /\ todo'[q] = todo[q]
                             /\ stocks'[q] = stocks[q] /\ visit'[q] = visit[q]
      /\ DOMAIN visit' = Pass /\ pc'[p] = "failed" /\ todo'[p] = {} /\ stocks'[p] = {}
  BY <1>1 DEF TypeOK
<1>3. PassInv(p)'
  BY <1>2 DEF PassInv, Round, Fresh, Running, Checked, Emitting, Justified
<1>4. CASE UNCHANGED log
  <2>1. TypeOK'
    BY <1>1, <1>4 DEF TypeOK, Checking
  <2> QED BY <1>1, <1>2, <1>3, <1>4, <2>1, PrivateKeeps DEF PrivateStep
<1>5. CASE pc[p] = "create" /\ log' = log \cup {NewAlert(p)}
  <2>1. NewAlert(p) \in Alert
    BY <1>5, AlertsAssumption DEF TypeOK, Checking, NewAlert, Alert
  <2>2. TypeOK'
    BY <1>1, <1>5, <2>1 DEF TypeOK, Checking
  <2> QED BY <1>1, <1>2, <1>3, <1>5, <2>2, LogKeeps
<1> QED BY <1>4, <1>5 DEF Fail

LEMMA EmitKeeps ==
  ASSUME IInv, NEW p \in Pass, Emit(p)
  PROVE  IInv'
<1> USE DEF IInv
<1> DEFINE e == AlertCreated(p)
<1>1. /\ UNCHANGED <<now, bars, started, todo, stocks, log, met, room>> /\ pc[p] = "emit"
      /\ pc' = [pc EXCEPT ![p] = "next"]
      /\ visit' = [visit EXCEPT ![p] = [user |-> visit[p].user, latest |-> Never]]
      /\ inbox' = [c \in Socket |-> IF c \in Receivers(visit[p].user)
                                   THEN inbox[c] \cup {e} ELSE inbox[c]]
  BY DEF Emit, EndVisit, Goto
<1>2. visit[p].user \in User \ todo[p]
  BY <1>1 DEF TypeOK, Checking
<1>3. e \in log /\ e.user = visit[p].user
  <2>1. \E a \in AlertsOf(visit[p]) : a.by = p /\ a.latest = visit[p].latest
    BY <1>1 DEF PassInv, Emitting
  <2>2. e \in AlertsOf(visit[p])
    BY <2>1 DEF AlertCreated
  <2> QED BY <2>2 DEF AlertsOf
<1> HIDE DEF e
<1>4. TypeOK'
  <2>1. inbox' \in [Socket -> SUBSET log]
    BY <1>1, <1>3 DEF TypeOK
  <2> QED BY <1>1, <2>1 DEF TypeOK, Checking
<1>5. EventsOfOwner'
  <2> SUFFICES ASSUME NEW c \in Socket, NEW a \in inbox'[c] PROVE a.user = room[c]
    BY <1>1 DEF EventsOfOwner
  <2>1. CASE a \in inbox[c]
    BY <2>1 DEF EventsOfOwner
  <2>2. CASE a = e /\ c \in Receivers(visit[p].user)
    BY <1>3, <2>2 DEF Receivers
  <2> QED BY <1>1, <2>1, <2>2
<1>6. ASSUME NEW q \in Pass PROVE PassInv(q)'
  <2>1. PassInv(q)
    OBVIOUS
  <2>2. CASE q # p
    <3>1. pc'[q] = pc[q] /\ visit'[q] = visit[q]
      BY <1>1, <2>2 DEF TypeOK
    <3>2. Round(q)' /\ Fresh(q)'
      BY <1>1, <2>1, <3>1 DEF PassInv, Round, Fresh, Running
    <3>3. Checked(q)' /\ Emitting(q)'
      BY <1>1, <2>1, <3>1 DEF PassInv, Checked, Emitting, AlertsOf
    <3>4. Justified(q)'
      BY <1>1, <2>1, <3>1 DEF PassInv, Justified, Right, Due, Since
    <3> QED BY <3>2, <3>3, <3>4 DEF PassInv
  <2>3. CASE q = p
    <3>1. pc'[p] = "next" /\ visit'[p].user = visit[p].user
      BY <1>1 DEF TypeOK
    <3>2. Round(p)' /\ Fresh(p)'
      BY <1>1, <1>2, <2>1, <2>3, <3>1 DEF PassInv, Round, Fresh, Running, TypeOK
    <3> QED BY <2>3, <3>1, <3>2 DEF PassInv, Checked, Emitting, Justified
  <2> QED BY <2>2, <2>3
<1>7. BarsPast' /\ Once' /\ AlertsSpaced' /\ AlertJustified'
  BY <1>1 DEF BarsPast, Once, AlertsSpaced, AlertJustified
<1>8. Overlaps'
  BY <1>1 DEF Overlaps, Running, TypeOK
<1> QED BY <1>1, <1>4, <1>5, <1>6, <1>7, <1>8

-----------------------------------------------------------------------------
\* A socket of nobody's has received nothing.
LEMMA GatewayKeeps ==
  ASSUME IInv,
         \/ \E c \in Socket : Disconnect(c) \/ \E u \in User : Connect(c, u)
         \/ UNCHANGED vars
  PROVE  IInv'
<1> USE DEF IInv
<1>1. UNCHANGED <<now, bars, started, pc, todo, stocks, visit, log, met>>
  BY DEF Disconnect, Connect, vars, passVars
<1>2. ASSUME NEW q \in Pass PROVE PassInv(q)'
  <2>1. PassInv(q)
    OBVIOUS
  <2>2. Round(q)' /\ Fresh(q)'
    BY <1>1, <2>1 DEF PassInv, Round, Fresh, Running
  <2>3. Checked(q)' /\ Emitting(q)'
    BY <1>1, <2>1 DEF PassInv, Checked, Emitting, AlertsOf
  <2>4. Justified(q)'
    BY <1>1, <2>1 DEF PassInv, Justified, Right, Due, Since
  <2> QED BY <2>2, <2>3, <2>4 DEF PassInv
<1>3. BarsPast' /\ Once' /\ AlertsSpaced' /\ AlertJustified' /\ Overlaps'
  BY <1>1 DEF BarsPast, Once, AlertsSpaced, AlertJustified, Overlaps, Running
<1>4. TypeOK' /\ EventsOfOwner'
  <2>1. ASSUME NEW c \in Socket, Disconnect(c) PROVE TypeOK' /\ EventsOfOwner'
    <3>1. room' = [room EXCEPT ![c] = Nobody] /\ inbox' = [inbox EXCEPT ![c] = {}]
      BY <2>1 DEF Disconnect
    <3>2. \A d \in Socket : \/ inbox'[d] \subseteq {}
                            \/ inbox'[d] = inbox[d] /\ room'[d] = room[d]
      BY <3>1 DEF TypeOK
    <3>3. TypeOK'
      <4>1. room' \in [Socket -> User \cup {Nobody}]
        BY <3>1 DEF TypeOK
      <4>2. inbox' \in [Socket -> SUBSET log]
        BY <3>1 DEF TypeOK
      <4> QED BY <1>1, <4>1, <4>2 DEF TypeOK, Checking
    <3>4. EventsOfOwner'
      BY <3>2 DEF EventsOfOwner
    <3> QED BY <3>3, <3>4
  <2>2. ASSUME NEW c \in Socket, NEW u \in User, Connect(c, u) PROVE TypeOK' /\ EventsOfOwner'
    <3>1. /\ room[c] = Nobody /\ room' = [room EXCEPT ![c] = u]
          /\ UNCHANGED inbox
      BY <2>2 DEF Connect
    <3>2. inbox[c] = {}
      BY <3>1, AlertsAssumption DEF TypeOK, Alert, EventsOfOwner
    <3>3. TypeOK'
      BY <1>1, <3>1 DEF TypeOK, Checking
    <3> QED BY <1>1, <3>1, <3>2, <3>3 DEF TypeOK, EventsOfOwner
  <2>3. CASE UNCHANGED vars
    <3>1. UNCHANGED <<started, room, inbox>>
      BY <2>3 DEF vars
    <3> QED BY <1>1, <3>1 DEF TypeOK, Checking, EventsOfOwner
  <2> QED BY <2>1, <2>2, <2>3
<1> QED BY <1>1, <1>2, <1>3, <1>4

\* A new bar is newer than all a pass compares.
LEMMA TickKeeps ==
  ASSUME IInv, Tick
  PROVE  IInv'
<1> USE DEF IInv
<1>1. UNCHANGED <<started, pc, todo, stocks, visit, log, met, room, inbox>> /\ now' = now + 1
  BY DEF Tick, passVars
<1>2. now \in Nat /\ now \in Time /\ now' \in Time /\ now' > now
  BY <1>1, Numbers DEF Tick, TypeOK, Time
<1>3. /\ bars' \in [Stock -> SUBSET Time]
      /\ \A s \in Stock : bars[s] \subseteq bars'[s] /\ bars'[s] \subseteq bars[s] \cup {now}
  <2>1. PICK S \in SUBSET Stock :
          bars' = [s \in Stock |-> IF s \in S THEN bars[s] \cup {now} ELSE bars[s]]
    BY DEF Tick
  <2> QED BY <1>2, <2>1 DEF TypeOK
<1>4. TypeOK'
  <2>1. ASSUME NEW p \in Pass, Checking(p) PROVE visit[p].stock \in Stock
    BY <2>1, AlertsAssumption DEF TypeOK
  <2> QED BY <1>1, <1>2, <1>3, <2>1 DEF TypeOK, Checking
<1>5. BarsPast'
  <2> SUFFICES ASSUME NEW s \in Stock, NEW m \in bars'[s] PROVE m < now'
    BY DEF BarsPast
  <2>1. m = now \/ (m \in bars[s] /\ m < now /\ m \in Nat)
    BY <1>3, Numbers DEF BarsPast, TypeOK
  <2> QED BY <1>2, <2>1
<1>6. ASSUME NEW s \in Stock, NEW m \in Time, m < now, NEW l \in Level
      PROVE  Since(s, m, l)' = Since(s, m, l)
  <2>1. m \in Nat /\ Window[l] \in Nat
    BY Numbers
  <2>2. ~(now <= m - Window[l])
    BY <1>2, <1>6, <2>1
  <2> QED BY <1>3, <2>2 DEF Since
<1>7. ASSUME NEW s \in Stock, NEW m \in Time, m < now, NEW l \in Level, Right(s, m, l)
      PROVE  Right(s, m, l)'
  BY <1>6, <1>7 DEF Right, Due, Level
<1>8. AlertJustified'
  <2>1. ASSUME NEW a \in log' PROVE Right(a.stock, a.latest, a.level)'
    <3>1. /\ a.stock \in Stock /\ a.latest \in Time /\ a.level \in Level /\ a.latest < now
          /\ Right(a.stock, a.latest, a.level)
      BY <1>1 DEF TypeOK, Alert, Once, AlertJustified, Right, Due, Since
    <3> QED BY <1>7, <3>1
  <2> QED BY <2>1 DEF AlertJustified, Right, Due, Since
<1>9. ASSUME NEW q \in Pass PROVE PassInv(q)'
  <2>1. PassInv(q)
    OBVIOUS
  <2>2. Round(q)' /\ Fresh(q)' /\ Emitting(q)'
    BY <1>1, <2>1 DEF PassInv, Round, Fresh, Running, Emitting, AlertsOf
  <2>3. Checked(q)'
    <3>1. \A a \in log : a.at \in Nat
      BY Numbers DEF TypeOK, Alert
    <3> QED BY <1>1, <1>2, <2>1, <3>1, Numbers DEF PassInv, Checked, AlertsOf
  <2>4. Justified(q)'
    <3>1. ASSUME pc[q] \in {"recent", "create"}
          PROVE  /\ visit[q].stock \in Stock /\ visit[q].latest \in Time /\ visit[q].level \in Level
                 /\ visit[q].latest < now
      BY <3>1, AlertsAssumption DEF TypeOK, Checking, BarsPast
    <3>2. ASSUME pc[q] \in {"recent", "create"}
          PROVE  Right(visit[q].stock, visit[q].latest, visit[q].level)'
      BY <1>1, <1>7, <2>1, <3>1, <3>2 DEF PassInv, Justified
    <3> QED BY <1>1, <3>2 DEF Justified
  <2> QED BY <2>2, <2>3, <2>4 DEF PassInv
<1>10. Once'
  <2>1. \A a \in log : a.at \in Nat /\ a.latest \in Nat
    BY Numbers DEF TypeOK, Alert
  <2> QED BY <1>1, <1>2, <2>1 DEF Once
<1>11. AlertsSpaced' /\ EventsOfOwner' /\ Overlaps'
  BY <1>1 DEF AlertsSpaced, EventsOfOwner, Overlaps, Running
<1> QED BY <1>1, <1>4, <1>5, <1>8, <1>9, <1>10, <1>11

LEMMA RestartKeeps ==
  ASSUME IInv, Restart
  PROVE  IInv'
<1> USE DEF IInv
<1>1. /\ UNCHANGED <<now, bars, started, log, met>>
      /\ pc' = [p \in Pass |-> IF Running(p) THEN "failed" ELSE pc[p]]
      /\ todo' = [p \in Pass |-> {}] /\ stocks' = [p \in Pass |-> {}]
      /\ visit' = [p \in Pass |-> NoVisit]
      /\ room' = [c \in Socket |-> Nobody] /\ inbox' = [c \in Socket |-> {}]
  BY DEF Restart
<1>2. \A p \in Pass : pc'[p] \in {"idle", "done", "failed"} /\ (pc'[p] = "idle" => pc[p] = "idle")
  BY <1>1 DEF Running
<1>3. TypeOK'
  BY <1>1, <1>2 DEF TypeOK, Checking
<1>4. ASSUME NEW p \in Pass PROVE PassInv(p)'
  BY <1>1, <1>2 DEF PassInv, Round, Fresh, Running, Checked, Emitting, Justified
<1>5. BarsPast' /\ Once' /\ AlertsSpaced' /\ AlertJustified' /\ EventsOfOwner'
  BY <1>1 DEF BarsPast, Once, AlertsSpaced, AlertJustified, EventsOfOwner
<1>6. Overlaps'
  BY <1>1, <1>2 DEF Overlaps, Running
<1> QED BY <1>1, <1>3, <1>4, <1>5, <1>6

\* The invariant is kept by every step of a pass.
LEMMA PassKeeps ==
  ASSUME IInv, NEW p \in Pass, PassStep(p)
  PROVE  IInv'
BY VisitUserKeeps, VisitStockKeeps, ReadWindowsKeeps, CheckRecentKeeps, CreateKeeps, EmitKeeps,
   FinishKeeps, FailKeeps DEF PassStep

\* The invariant holds in every reachable state.
THEOREM Invariance == Spec => []IInv
<1>1. IInv /\ [Next]_vars => IInv'
  BY StartKeeps, PassKeeps, GatewayKeeps, TickKeeps, RestartKeeps DEF Next
<1> QED BY <1>1, InitSound, PTL DEF Spec

\* The state is always of its type.
THEOREM TypeCorrect == Spec => []TypeOK
BY Invariance, PTL DEF IInv

\* Alerts of one level on one stock are Quiet minutes apart, unless their passes
\* overlapped.
THEOREM Spaced == Spec => []AlertsSpaced
BY Invariance, PTL DEF IInv

\* Every alert is justified by the bars of its windows.
THEOREM AlertsRight == Spec => []AlertJustified
BY Invariance, PTL DEF IInv

\* No socket receives another user's alert.
THEOREM OwnerOnly == Spec => []EventsOfOwner
BY Invariance, PTL DEF IInv

\* A sudden change is told or was told.
THEOREM Told == Spec => ChangeTold
<1> DEFINE Logged(v, p) ==
             \E a \in log' : /\ a.user = v.user /\ a.stock = v.stock /\ a.level = v.level
                             /\ a.at >= now - Quiet \/ a.by = p
<1>1. ASSUME IInv, Next, NEW p \in Pass, pc[p] \in {"recent", "create", "emit"}, pc'[p] = "next"
      PROVE  Logged(visit[p], p)
  <2>1. ASSUME NEW q \in Pass, Start(q) \/ PassStep(q), q # p PROVE FALSE
    BY <1>1, <2>1 DEF IInv, TypeOK, PassStep, Start, VisitUser, VisitStock, Finish, ReadWindows,
       CheckRecent, Create, Emit, Fail, EndVisit, Goto
  <2>2. CASE CheckRecent(p)
    <3>1. Recent(visit[p]) /\ UNCHANGED log
      BY <1>1, <2>2 DEF IInv, TypeOK, CheckRecent, Goto
    <3> QED BY <3>1 DEF Recent, AlertsOf
  <2>3. CASE Emit(p)
    <3>1. \E a \in AlertsOf(visit[p]) : a.by = p
      BY <1>1, <2>3 DEF IInv, PassInv, Emitting, Emit
    <3> QED BY <2>3, <3>1 DEF AlertsOf, Emit
  <2>4. CASE Start(p) \/ (PassStep(p) /\ ~CheckRecent(p) /\ ~Emit(p))
    BY <1>1, <2>4 DEF IInv, TypeOK, PassStep, Start, VisitUser, VisitStock, Finish, ReadWindows,
       Create, Fail, Goto
  <2>5. CASE \E c \in Socket : Disconnect(c) \/ \E u \in User : Connect(c, u)
    BY <1>1, <2>5 DEF Disconnect, Connect, passVars
  <2>6. CASE Tick \/ Restart
    BY <1>1, <2>6 DEF Tick, Restart, passVars, IInv, TypeOK, Running
  <2> QED BY <1>1, <2>1, <2>2, <2>3, <2>4, <2>5, <2>6 DEF Next
<1>2. IInv /\ [Next]_vars =>
        [\A p \in Pass :
           pc[p] \in {"recent", "create", "emit"} /\ pc'[p] = "next" =>
             \E a \in log' : /\ a.user = visit[p].user /\ a.stock = visit[p].stock
                             /\ a.level = visit[p].level
                             /\ a.at >= now - Quiet \/ a.by = p]_vars
  BY <1>1
<1> QED BY <1>2, Invariance, PTL DEF Spec, ChangeTold
=============================================================================
