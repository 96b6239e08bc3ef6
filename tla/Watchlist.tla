----------------------------- MODULE Watchlist -----------------------------
(***************************************************************************)
(* StocksService.addStockToWatchlist and removeStockFromWatchlist          *)
(* (src/src/modules/stocks/stocks.service.ts:101-151, 261-288) over the    *)
(* table watchlists.  Every query is a transaction of its own and requests *)
(* interleave between any two of them.                                     *)
(*                                                                         *)
(* The row that the addition a creates is named by a itself: the database  *)
(* gives every row a fresh id.                                             *)
(***************************************************************************)
EXTENDS Naturals, FiniteSets

CONSTANTS
  User, Stock,
  Listed,    \* the stocks that exist
  Add,       \* requests POST /stocks/watchlist
  Remove,    \* requests DELETE /stocks/watchlist/:watchlistId
  Cap,       \* rows a user may have (20 in the code)
  Serial     \* the users whose client waits for each answer

Req == Add \cup Remove

ASSUME WatchlistAssumption ==
  /\ Listed \subseteq Stock
  /\ IsFiniteSet(Add) /\ Add \cap Remove = {}
  /\ Cap \in Nat
  /\ Serial \subseteq User

VARIABLES
  rows,      \* the table: the additions whose row exists
  user,      \* the authenticated user of a request
  stock,     \* argument stockId of an addition
  target,    \* argument watchlistId of a removal
  pc,        \* the query a request executes next, or "idle" or "done"
  counted,   \* currentCount of an addition
  status,    \* the answer
  told       \* totalRegisteredCount or remainingCount of the answer

args == <<user, stock, target>>
listVars == <<rows, args, pc, counted, status, told>>

Queries == {"stock", "existing", "count", "create", "own", "delete", "recount"}
Statuses == {"none", "notFound", "conflict", "capacity", "created", "deleted",
             "duplicateKey", "recordNotFound", "error"}

TypeOK ==
  /\ rows \in SUBSET Add
  /\ user \in [Req -> User]
  /\ stock \in [Add -> Stock]
  /\ target \in [Remove -> Add]
  /\ pc \in [Req -> {"idle", "done"} \cup Queries]
  /\ counted \in [Add -> Nat]
  /\ status \in [Req -> Statuses]
  /\ told \in [Req -> Nat]

Init ==
  /\ rows = {}
  /\ user \in [Req -> User]
  /\ stock \in [Add -> Stock]
  /\ target \in [Remove -> Add]
  /\ pc = [r \in Req |-> "idle"]
  /\ counted = [a \in Add |-> 0]
  /\ status = [r \in Req |-> "none"]
  /\ told = [r \in Req |-> 0]

RowsOf(u) == {x \in rows : user[x] = u}

Running(r) == pc[r] \in Queries

Goto(r, query) == pc' = [pc EXCEPT ![r] = query]

Respond(r, s, total) ==
  /\ Goto(r, "done")
  /\ status' = [status EXCEPT ![r] = s]
  /\ told' = [told EXCEPT ![r] = total]

Refuse(r, s) == Respond(r, s, 0)

Submit(r) ==
  /\ pc[r] = "idle"
  /\ user[r] \in Serial => \A s \in Req : user[s] = user[r] => ~Running(s)
  /\ Goto(r, IF r \in Add THEN "stock" ELSE "own")
  /\ UNCHANGED <<rows, args, counted, status, told>>

-----------------------------------------------------------------------------
(* addStockToWatchlist *)

FindStock(a) ==
  /\ pc[a] = "stock"
  /\ \/ /\ stock[a] \in Listed
        /\ Goto(a, "existing")
        /\ UNCHANGED <<status, told>>
     \/ /\ stock[a] \notin Listed
        /\ Refuse(a, "notFound")
  /\ UNCHANGED <<rows, args, counted>>

\* The row of the same user and stock, if there is one.
Existing(a) == {x \in RowsOf(user[a]) : stock[x] = stock[a]}

FindExisting(a) ==
  /\ pc[a] = "existing"
  /\ \/ /\ Existing(a) = {}
        /\ Goto(a, "count")
        /\ UNCHANGED <<status, told>>
     \/ /\ Existing(a) # {}
        /\ Refuse(a, "conflict")
  /\ UNCHANGED <<rows, args, counted>>

\* Mutant of Full: `>` for `>=`.
Overfull(n) == n > Cap
Full(n) == n >= Cap

CountRows(a) ==
  /\ pc[a] = "count"
  /\ LET n == Cardinality(RowsOf(user[a])) IN
     \/ /\ ~Full(n)
        /\ counted' = [counted EXCEPT ![a] = n]
        /\ Goto(a, "create")
        /\ UNCHANGED <<status, told>>
     \/ /\ Full(n)
        /\ Refuse(a, "capacity")
        /\ UNCHANGED counted
  /\ UNCHANGED <<rows, args>>

\* Mutants of CreateRow: the table has no unique index; the total told leaves
\* out the new row.
CreateUnindexed(a) ==
  /\ pc[a] = "create"
  /\ rows' = rows \cup {a}
  /\ Respond(a, "created", counted[a] + 1)
  /\ UNCHANGED <<args, counted>>

CreateTellingOld(a) ==
  /\ pc[a] = "create"
  /\ Existing(a) = {}
  /\ rows' = rows \cup {a}
  /\ Respond(a, "created", counted[a])
  /\ UNCHANGED <<args, counted>>

\* The unique index on (user_id, stock_id) refuses a second row (P2002); the
\* acknowledgement of an insert may be lost.
CreateRow(a) ==
  /\ pc[a] = "create"
  /\ \/ /\ Existing(a) = {}
        /\ rows' = rows \cup {a}
        /\ Respond(a, "created", counted[a] + 1) \/ Refuse(a, "error")
     \/ /\ Existing(a) # {}
        /\ Refuse(a, "duplicateKey")
        /\ UNCHANGED rows
  /\ UNCHANGED <<args, counted>>

-----------------------------------------------------------------------------
(* removeStockFromWatchlist *)

\* Mutant of FindOwn: the row is looked up by its id alone.
FindAny(d) ==
  /\ pc[d] = "own"
  /\ \/ /\ target[d] \in rows
        /\ Goto(d, "delete")
        /\ UNCHANGED <<status, told>>
     \/ /\ target[d] \notin rows
        /\ Refuse(d, "notFound")
  /\ UNCHANGED <<rows, args, counted>>

FindOwn(d) ==
  /\ pc[d] = "own"
  /\ \/ /\ target[d] \in RowsOf(user[d])
        /\ Goto(d, "delete")
        /\ UNCHANGED <<status, told>>
     \/ /\ target[d] \notin RowsOf(user[d])
        /\ Refuse(d, "notFound")
  /\ UNCHANGED <<rows, args, counted>>

\* By the id alone; Prisma throws P2025 when the row is gone.
DeleteRow(d) ==
  /\ pc[d] = "delete"
  /\ \/ /\ target[d] \in rows
        /\ rows' = rows \ {target[d]}
        /\ Goto(d, "recount")
        /\ UNCHANGED <<status, told>>
     \/ /\ target[d] \notin rows
        /\ Refuse(d, "recordNotFound")
        /\ UNCHANGED rows
  /\ UNCHANGED <<args, counted>>

Recount(d) ==
  /\ pc[d] = "recount"
  /\ Respond(d, "deleted", Cardinality(RowsOf(user[d])))
  /\ UNCHANGED <<rows, args, counted>>

-----------------------------------------------------------------------------
\* A query fails or the process restarts: what was committed stays.
QueryFails(r) ==
  /\ Running(r)
  /\ Refuse(r, "error")
  /\ UNCHANGED <<rows, args, counted>>

AddStep(a) == FindStock(a) \/ FindExisting(a) \/ CountRows(a) \/ CreateRow(a)

RemoveStep(d) == FindOwn(d) \/ DeleteRow(d) \/ Recount(d)

Next ==
  \/ \E a \in Add : AddStep(a)
  \/ \E d \in Remove : RemoveStep(d)
  \/ \E r \in Req : Submit(r) \/ QueryFails(r)

Spec == Init /\ [][Next]_listVars

-----------------------------------------------------------------------------
\* A user who waits for each answer never has more than Cap rows, whatever the
\* other users, failures and lost acknowledgements do.
WithinCap == \A u \in Serial : Cardinality(RowsOf(u)) <= Cap

\* The total told such a user with a created row is the number of rows the user
\* then has: the count was read a query before the insert.
TotalsExact ==
  [][\A a \in Add :
       user[a] \in Serial /\ status[a] # "created" /\ status'[a] = "created" =>
         told'[a] = Cardinality(RowsOf(user[a])')]_listVars

\* To such users every request is one step on their rows: what an addition or a
\* removal has found is still so queries later, and no race of theirs ends in an
\* error of the database.
AnswerOf(r) ==
  IF user[r] \in Serial THEN [status |-> status[r], told |-> told[r]]
  ELSE [status |-> "none", told |-> 0]

Shelf == INSTANCE WatchShelf WITH
  shelf <- {x \in rows : user[x] \in Serial},
  taken <- {d \in Remove : user[d] \in Serial /\ pc[d] = "recount"},
  answer <- [r \in Req |-> AnswerOf(r)]

AsIfAtomic == Shelf!ShelfSpec

\* A row disappears only by a removal that its own user requested: the delete
\* names the row by its id and relies on a check made a query earlier.
RemovedByOwner ==
  [][\A x \in rows \ rows' :
       \E d \in Remove : pc[d] = "delete" /\ target[d] = x /\ user[d] = user[x]]_listVars

\* A user never has a stock twice, however additions and removals race.
NoStockTwice ==
  \A x, y \in rows : user[x] = user[y] /\ stock[x] = stock[y] => x = y
=============================================================================
