----------------------------- MODULE Positions -----------------------------
(***************************************************************************)
(* PositionsService (src/src/modules/positions/positions.service.ts) and   *)
(* SimulationService.calculateAndSaveSimulation over the tables positions  *)
(* and position_simulations.  A creation runs in one transaction; all      *)
(* other queries commit on their own, and requests interleave between any  *)
(* two queries.                                                            *)
(*                                                                         *)
(* Prices are counted in cents and quantities in 1/Unit of a share, so a   *)
(* total is counted in cents/Unit.  The position that creation c stores    *)
(* for stock s is named <<c, s>>: the database gives every row a fresh id. *)
(***************************************************************************)
EXTENDS Integers, Sequences, FiniteSets, Sums

CONSTANTS
  User,
  Stock,      \* stock ids that clients name
  Listed,     \* those that exist
  Global,     \* the id of the pseudo stock GLOBAL_CHAT
  CodeOf,     \* the code of a stock; several exchanges may use one
  Key,        \* property keys: what an item's stockId is as a string
  IdOf,       \* Number(key): a stock id, or NaN for what is the id of none
  Canonical,  \* keys that are integers as JavaScript writes them: "2", not "02"
  NaN,
  Create, Update, Delete, Simulate,   \* requests
  Body,       \* bodies of creations: sequences of purchases
  Patch,      \* bodies of updates
  Plan,       \* bodies of simulations
  Unit

Req == Create \cup Update \cup Delete \cup Simulate
Id == Create \X Stock
Absent == [given |-> FALSE]
Given(n) == [given |-> TRUE, value |-> n]

Purchase == [key : Key, price : Int, qty : Int]

ASSUME PositionsAssumption ==
  /\ Stock \subseteq Nat /\ Listed \subseteq Stock
  /\ IdOf \in [Key -> Stock \cup {NaN}] /\ NaN \notin Stock
  /\ Canonical \subseteq Key /\ \A k \in Canonical : IdOf[k] \in Stock
  /\ \A k, l \in Canonical : IdOf[k] = IdOf[l] => k = l
  /\ Unit \in Nat \ {0}
  /\ Body \subseteq Seq(Purchase)
  /\ \A p \in Patch : \A field \in {p.qty, p.avg} : field.given => field.value \in Int
  /\ Create \cap Update = {} /\ Delete \cap Simulate = {}
  /\ (Create \cup Update) \cap (Delete \cup Simulate) = {}

VARIABLES
  table,      \* positions: a function from the ids of the committed rows
  held,       \* rows a creation has inserted and not committed, by stock
  left,       \* keys that a creation has still to process
  call,       \* the user and the arguments of a request
  seen,       \* the row that an update has read, or the stock and the position
              \* that a simulation has found
  saved,      \* position_simulations: a function from requests to rows
  pc, status

vars == <<table, held, left, call, seen, saved, pc, status>>

Row == [user : User, stock : Stock, qty : Int, avg : Int, total : Int]
NoRow == [stock |-> "none"]

TypeOK ==
  /\ DOMAIN table \subseteq Id /\ \A id \in DOMAIN table : table[id] \in Row
  /\ \A c \in Create : /\ DOMAIN held[c] \subseteq Stock
                       /\ \A s \in DOMAIN held[c] : held[c][s] \in Row
                       /\ left[c] \in SUBSET Key
                       /\ pc[c] \in {"idle", "done"} => held[c] = <<>>
  /\ DOMAIN saved \subseteq Simulate
  /\ pc \in [Req -> {"idle", "stock", "existing", "insert", "commit",
                     "find", "write", "done"}]

Init ==
  /\ table = <<>>
  /\ held = [c \in Create |-> <<>>]
  /\ left = [c \in Create |-> {}]
  /\ call = [r \in Req |-> <<>>]
  /\ seen = [r \in Update \cup Simulate |-> NoRow]
  /\ saved = <<>>
  /\ pc = [r \in Req |-> "idle"]
  /\ status = [r \in Req |-> "none"]

Goto(r, step) == pc' = [pc EXCEPT ![r] = step] /\ UNCHANGED status
Answer(r, s) ==
  /\ pc' = [pc EXCEPT ![r] = "done"]
  /\ status' = [status EXCEPT ![r] = s]

\* Math.round(n / d): half rounds up, also below zero.
RoundDiv(n, d) ==
  IF d > 0 THEN (2 * n + d) \div (2 * d) ELSE (-(2 * n + d)) \div (-2 * d)

Abs(n) == IF n < 0 THEN -n ELSE n

Without(f, S) == [x \in DOMAIN f \ S |-> f[x]]

-----------------------------------------------------------------------------
(* createPositions *)

\* Items are grouped by the key of their stock, not by its number: the items
\* of the body are not validated, and "2" and "02" are two groups of one stock.
KeysOf(body) == {body[i].key : i \in DOMAIN body}
StocksOf(body) == {IdOf[k] : k \in KeysOf(body)}

\* The purchases of one key are merged into one position.
Purchases(body, k) == {i \in DOMAIN body : body[i].key = k}
Quantity(body, k) == SumOver([i \in DOMAIN body |-> body[i].qty], Purchases(body, k))
Invested(body, k) ==
  SumOver([i \in DOMAIN body |-> body[i].price * body[i].qty], Purchases(body, k))

SubmitCreate(c, u, body) ==
  /\ pc[c] = "idle"
  /\ call' = [call EXCEPT ![c] = [user |-> u, body |-> body]]
  /\ IF body = <<>> THEN Answer(c, "badRequest") /\ UNCHANGED left
     ELSE Goto(c, "stock") /\ left' = [left EXCEPT ![c] = KeysOf(body)]
  /\ UNCHANGED <<table, held, seen, saved>>

FirstInBody(c) ==
  LET body == call[c].body
      places == {i \in DOMAIN body : body[i].key \in left[c]}
  IN  body[CHOOSE i \in places : \A j \in places : i <= j].key

\* Mutant of Current: every key keeps the place it has in the body.
CurrentInBody(c) == FirstInBody(c)

\* Object.entries lists the canonical integer keys first, in ascending order,
\* then the others in the order in which they were added.
Current(c) ==
  LET numbers == left[c] \cap Canonical IN
  IF numbers # {} THEN CHOOSE k \in numbers : \A l \in numbers : IdOf[k] <= IdOf[l]
  ELSE FirstInBody(c)

\* Number(stockIdText)
StockId(c) == IdOf[Current(c)]

\* Mutant of Rollback: what was inserted stays locked.
LeakyRollback(c, s) ==
  /\ Answer(c, s)
  /\ left' = [left EXCEPT ![c] = {}]
  /\ UNCHANGED <<table, held, call, seen, saved>>

Rollback(c, s) ==
  /\ Answer(c, s)
  /\ held' = [held EXCEPT ![c] = <<>>]
  /\ left' = [left EXCEPT ![c] = {}]
  /\ UNCHANGED <<table, call, seen, saved>>

Continue(c, step) ==
  /\ Goto(c, step)
  /\ UNCHANGED <<table, held, left, call, seen, saved>>

CheckStock(c) ==
  /\ pc[c] = "stock"
  /\ \/ StockId(c) = NaN /\ Rollback(c, "error")
     \/ StockId(c) \in Stock \ Listed /\ Rollback(c, "notFound")
     \/ StockId(c) \in Listed /\ StockId(c) = Global /\ Rollback(c, "badRequest")
     \/ StockId(c) \in Listed /\ StockId(c) # Global /\ Continue(c, "existing")

\* What getMyPositions lists for u.
PositionsOf(u) == {id \in DOMAIN table : table[id].user = u}

Owned(u, s) == {id \in PositionsOf(u) : table[id].stock = s}

Taken(u, s) == Owned(u, s) # {}

\* Prisma's default isolation reads what is committed, and what the transaction
\* itself has inserted.
Exists(c, s) == Taken(call[c].user, s) \/ s \in DOMAIN held[c]

CheckExisting(c) ==
  /\ pc[c] = "existing"
  /\ IF Exists(c, StockId(c)) THEN Rollback(c, "conflict") ELSE Continue(c, "insert")

\* Creation c waits until the transaction of d, which inserted the same user
\* and stock, ends.
WaitsFor(c, d) ==
  /\ pc[c] = "insert" /\ c # d
  /\ StockId(c) \in DOMAIN held[d]
  /\ call[c].user = call[d].user

Extend(f, x, v) == [y \in DOMAIN f \cup {x} |-> IF y = x THEN v ELSE f[y]]

NewRow(u, s, q, t) ==
  [user |-> u, stock |-> s, qty |-> q, avg |-> RoundDiv(t, q), total |-> t]

\* Without a quantity the average is no number and Prisma refuses it.
Insert(c) ==
  /\ pc[c] = "insert"
  /\ \A d \in Create : ~WaitsFor(c, d)
  /\ LET k == Current(c)
         s == StockId(c)
         u == call[c].user
         q == Quantity(call[c].body, k)
         t == Invested(call[c].body, k)
     IN  \/ (q = 0 \/ Exists(c, s)) /\ Rollback(c, "error")
         \/ /\ q # 0 /\ ~Exists(c, s)
            /\ held' = [held EXCEPT ![c] = Extend(@, s, NewRow(u, s, q, t))]
            /\ left' = [left EXCEPT ![c] = @ \ {k}]
            /\ Goto(c, IF left[c] = {k} THEN "commit" ELSE "stock")
            /\ UNCHANGED <<table, call, seen, saved>>

\* Mutant of Published: a row is visible only with its last purchase.
PublishedLast(c) == {c} \X {s \in DOMAIN held[c] : \A t \in DOMAIN held[c] : t <= s}
Published(c) == {c} \X DOMAIN held[c]

\* The acknowledgement of the commit may be lost.
Commit(c) ==
  /\ pc[c] = "commit"
  /\ table' = [id \in DOMAIN table \cup Published(c) |->
                 IF id \in DOMAIN table THEN table[id] ELSE held[c][id[2]]]
  /\ held' = [held EXCEPT ![c] = <<>>]
  /\ Answer(c, "created") \/ Answer(c, "error")
  /\ UNCHANGED <<left, call, seen, saved>>

\* The transaction fails, exceeds its five seconds, or the process dies.
Abort(c) ==
  /\ pc[c] \in {"stock", "existing", "insert", "commit"}
  /\ Rollback(c, "error")

-----------------------------------------------------------------------------
(* updatePosition and deletePosition *)

\* A client knows an id from an answer: the row existed when it asked.
Submit(r, arg) ==
  /\ pc[r] = "idle"
  /\ call' = [call EXCEPT ![r] = arg]
  /\ IF r \in Update /\ arg.patch = [qty |-> Absent, avg |-> Absent]
     THEN Answer(r, "badRequest") ELSE Goto(r, "find")
  /\ UNCHANGED <<table, held, left, seen, saved>>

Fail(r, s) == Answer(r, s) /\ UNCHANGED <<table, held, left, call, seen, saved>>

MayUpdate(r, id) == table[id].user = call[r].user

FindForUpdate(r) ==
  LET id == call[r].id IN
  /\ pc[r] = "find"
  /\ \/ id \notin DOMAIN table /\ Fail(r, "notFound")
     \/ id \in DOMAIN table /\ ~MayUpdate(r, id) /\ Fail(r, "forbidden")
     \/ /\ id \in DOMAIN table /\ MayUpdate(r, id)
        /\ seen' = [seen EXCEPT ![r] = table[id]]
        /\ Goto(r, "write")
        /\ UNCHANGED <<table, held, left, call, saved>>

Either(field, old) == IF field.given THEN field.value ELSE old

\* Mutant of Patched: a column that the request leaves out keeps the value the
\* row has by now.
PatchedColumns(now, old, p) ==
  LET q == Either(p.qty, old.qty)
      a == Either(p.avg, old.avg)
  IN  [now EXCEPT !.qty = Either(p.qty, @), !.avg = Either(p.avg, @),
                  !.total = RoundDiv(q * a, Unit) * Unit]

\* All three columns are written, from the row read before.
Patched(now, old, p) ==
  LET q == Either(p.qty, old.qty)
      a == Either(p.avg, old.avg)
  IN  [now EXCEPT !.qty = q, !.avg = a, !.total = RoundDiv(q * a, Unit) * Unit]

\* By the id alone: Prisma throws when the row is gone.
WriteUpdate(r) ==
  LET id == call[r].id IN
  /\ pc[r] = "write"
  /\ \/ id \notin DOMAIN table /\ Fail(r, "error")
     \/ /\ id \in DOMAIN table
        /\ table' = [table EXCEPT ![id] = Patched(@, seen[r], call[r].patch)]
        /\ Answer(r, "updated")
        /\ UNCHANGED <<held, left, call, seen, saved>>

FindForDelete(r) ==
  /\ pc[r] = "find"
  /\ IF call[r].id \in PositionsOf(call[r].user) THEN Continue(r, "write")
     ELSE Fail(r, "notFound")

\* Simulations of a deleted position are deleted with it.
Cascade(id) == Without(saved, {m \in DOMAIN saved : saved[m].position = {id}})

RemoveRow(r) ==
  LET id == call[r].id IN
  /\ pc[r] = "write"
  /\ \/ id \notin DOMAIN table /\ Fail(r, "error")
     \/ /\ id \in DOMAIN table
        /\ table' = Without(table, {id})
        /\ saved' = Cascade(id)
        /\ Answer(r, "deleted")
        /\ UNCHANGED <<held, left, call, seen>>

-----------------------------------------------------------------------------
(* calculateAndSaveSimulation *)

\* The row of position_simulations; rate in 1/100 %, the column holds less
\* than 1000 %.
Simulated(p) ==
  LET q == p.haveQty + p.qty
      t == p.haveAvg * p.haveQty + p.price * p.qty
  IN  [avg |-> RoundDiv(t, q), qty |-> q, profit |-> p.price * q - t,
       rate |-> RoundDiv((p.price * q - t) * 10000, t)]

RateFits(rate) == Abs(rate) < 100000

\* The user's positions in stocks of a code.
OwnedByCode(u, code) == {id \in PositionsOf(u) : CodeOf[table[id].stock] = code}

\* The first stock of the code, then the first position of the user in a stock
\* of the code: both finds are unordered, and the two stocks may differ.
FindSimulated(m) ==
  LET code == call[m].plan.code
      stocks == {s \in Listed : CodeOf[s] = code}
      own == OwnedByCode(call[m].user, code)
  IN  /\ pc[m] = "find"
      /\ \/ stocks = {} /\ Fail(m, "notFound")
         \/ /\ \E s \in stocks, link \in IF own = {} THEN {{}} ELSE {{id} : id \in own} :
                 seen' = [seen EXCEPT ![m] = [stock |-> s, position |-> link]]
            /\ Goto(m, "write")
            /\ UNCHANGED <<table, held, left, call, saved>>

\* Mutant of LinkHolds: position_id has no foreign key.
AlwaysHolds(ids) == TRUE
LinkHolds(ids) == ids \subseteq DOMAIN table

SaveSimulation(m) ==
  LET sim == Simulated(call[m].plan) IN
  /\ pc[m] = "write"
  /\ \/ /\ LinkHolds(seen[m].position) /\ RateFits(sim.rate)
        /\ saved' = Extend(saved, m, [stock |-> seen[m].stock,
                                      position |-> seen[m].position, result |-> sim])
        /\ Answer(m, "saved")
        /\ UNCHANGED <<table, held, left, call, seen>>
     \/ /\ ~LinkHolds(seen[m].position) \/ ~RateFits(sim.rate)
        /\ Fail(m, "error")

-----------------------------------------------------------------------------
Next ==
  \/ \E c \in Create, u \in User, b \in Body : SubmitCreate(c, u, b)
  \/ \E c \in Create :
       CheckStock(c) \/ CheckExisting(c) \/ Insert(c) \/ Commit(c) \/ Abort(c)
  \/ \E r \in Update : FindForUpdate(r) \/ WriteUpdate(r)
  \/ \E r \in Delete : FindForDelete(r) \/ RemoveRow(r)
  \/ \E m \in Simulate : FindSimulated(m) \/ SaveSimulation(m)
  \/ \E u \in User, id \in DOMAIN table :
       \/ \E r \in Update, p \in Patch : Submit(r, [user |-> u, id |-> id, patch |-> p])
       \/ \E r \in Delete : Submit(r, [user |-> u, id |-> id])
  \/ \E u \in User, p \in Plan, m \in Simulate : Submit(m, [user |-> u, plan |-> p])

Spec == Init /\ [][Next]_vars

-----------------------------------------------------------------------------
\* Creation c names its stocks by numbers, as CreatePositionRequestDto
\* declares them (stockId: number).
ByNumber(c) == pc[c] # "idle" /\ KeysOf(call[c].body) \subseteq Canonical

\* Creations that name their stocks by numbers never wait for each other's rows
\* in a circle, whatever the order of their bodies: a circle has a creation in
\* it whose keys keep the order of its body.
NoWaitCycle ==
  \A W \in (SUBSET Create) \ {{}} :
    (\A c \in W : ByNumber(c)) => \E c \in W : \A d \in W : ~WaitsFor(c, d)

\* A creation stores the positions of all its stocks at once, or none.
AllOrNothing ==
  [][\A c \in Create :
       (\E s \in Stock : <<c, s>> \in DOMAIN table' \ DOMAIN table) =>
         {s \in Stock : <<c, s>> \in DOMAIN table'} = StocksOf(call[c].body)]_vars

\* The three columns of a position agree up to the rounding of one of them,
\* whatever partial updates overlap.
RowConsistent ==
  \A id \in DOMAIN table :
    LET row == table[id]
    IN  2 * Abs(row.qty * row.avg - row.total) <=
          IF Abs(row.qty) < Unit THEN Unit ELSE Abs(row.qty)

\* A saved simulation belongs to no position, or to one that exists, is the
\* user's own and is in a stock of the simulated code, like the stock saved with
\* it, although both were looked up queries earlier.
SimulationLinked ==
  \A m \in DOMAIN saved : \A id \in saved[m].position :
    /\ id \in DOMAIN table /\ table[id].user = call[m].user
    /\ CodeOf[table[id].stock] = call[m].plan.code
    /\ CodeOf[saved[m].stock] = call[m].plan.code
=============================================================================
