----------------------------- MODULE WatchShelf -----------------------------
(***************************************************************************)
(* What a watchlist promises to a user who waits for each answer: every    *)
(* addition and every removal is one step on the user's shelf, decided by  *)
(* what is on the shelf then; only a lost answer is told as an error.      *)
(***************************************************************************)
EXTENDS Naturals, FiniteSets

CONSTANTS Listed, Add, Remove, Cap, Serial

VARIABLES
  shelf,                 \* the additions of such users that are in force
  user, stock, target,   \* arguments of the requests
  taken,                 \* removals that have taken and not answered
  answer                 \* of the requests of such users

shelfVars == <<shelf, user, stock, target, taken, answer>>

Answered(s, n) == [status |-> s, told |-> n]
Open == Answered("none", 0)

ShelfInit ==
  /\ shelf = {} /\ taken = {}
  /\ answer = [r \in Add \cup Remove |-> Open]

ShelfOf(u) == {x \in shelf : user[x] = u}
Size(u) == Cardinality(ShelfOf(u))

Asks(r) == user[r] \in Serial /\ answer[r] = Open

Answer(r, s, n) ==
  /\ answer' = [answer EXCEPT ![r] = Answered(s, n)]
  /\ taken' = taken \ {r}

Put(a) ==
  /\ stock[a] \in Listed
  /\ \A x \in ShelfOf(user[a]) : stock[x] # stock[a]
  /\ Size(user[a]) < Cap
  /\ shelf' = shelf \cup {a}
  /\ Answer(a, "created", Size(user[a]) + 1) \/ Answer(a, "error", 0)

Keep(a) ==
  /\ \/ stock[a] \notin Listed /\ Answer(a, "notFound", 0)
     \/ (\E x \in ShelfOf(user[a]) : stock[x] = stock[a]) /\ Answer(a, "conflict", 0)
     \/ Size(user[a]) >= Cap /\ Answer(a, "capacity", 0)
  /\ UNCHANGED shelf

Take(d) ==
  /\ d \notin taken
  /\ target[d] \in ShelfOf(user[d])
  /\ shelf' = shelf \ {target[d]}
  /\ taken' = taken \cup {d}
  /\ UNCHANGED answer

Leave(d) ==
  /\ \/ d \in taken /\ Answer(d, "deleted", Size(user[d]))
     \/ d \notin taken /\ target[d] \notin ShelfOf(user[d]) /\ Answer(d, "notFound", 0)
  /\ UNCHANGED shelf

Lose(r) == Answer(r, "error", 0) /\ UNCHANGED shelf

ShelfNext ==
  /\ \E r \in Add \cup Remove :
       /\ Asks(r)
       /\ \/ r \in Add /\ (Put(r) \/ Keep(r))
          \/ r \in Remove /\ (Take(r) \/ Leave(r))
          \/ Lose(r)
  /\ UNCHANGED <<user, stock, target>>

ShelfSpec == ShelfInit /\ [][ShelfNext]_shelfVars
=============================================================================
