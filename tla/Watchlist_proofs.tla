-------------------------- MODULE Watchlist_proofs --------------------------
(***************************************************************************)
(* Proofs about Watchlist, for every value of the constants: the unique    *)
(* index and the ownership check hold for all interleavings; the cap and   *)
(* the totals told hold for the users who wait for each answer, to whom    *)
(* every request is a step of WatchShelf.                                  *)
(***************************************************************************)
EXTENDS Watchlist, FiniteSetTheorems, TLAPS

USE DEF Req

-----------------------------------------------------------------------------
\* Every step keeps the types.
LEMMA TypeStep == TypeOK /\ [Next]_listVars => TypeOK'
<1> SUFFICES ASSUME TypeOK, [Next]_listVars PROVE TypeOK'
  OBVIOUS
<1>0. \A u \in User : Cardinality(RowsOf(u)) \in Nat
  BY WatchlistAssumption, FS_Subset, FS_CardinalityType DEF TypeOK, RowsOf
<1> USE DEF TypeOK, Queries, Statuses, args, Goto, Respond, Refuse
<1>1. ASSUME NEW a \in Add, AddStep(a) PROVE TypeOK'
  <2>1. CASE FindStock(a)
    BY <2>1 DEF FindStock
  <2>2. CASE FindExisting(a)
    BY <2>2 DEF FindExisting
  <2>3. CASE CountRows(a)
    BY <2>3, <1>0 DEF CountRows
  <2>4. CASE CreateRow(a)
    BY <2>4 DEF CreateRow
  <2> QED BY <1>1, <2>1, <2>2, <2>3, <2>4 DEF AddStep
<1>2. ASSUME NEW d \in Remove, RemoveStep(d) PROVE TypeOK'
  <2>1. CASE FindOwn(d)
    BY <2>1 DEF FindOwn
  <2>2. CASE DeleteRow(d)
    BY <2>2 DEF DeleteRow
  <2>3. CASE Recount(d)
    BY <2>3, <1>0 DEF Recount
  <2> QED BY <1>2, <2>1, <2>2, <2>3 DEF RemoveStep
<1>3. ASSUME NEW r \in Req, Submit(r) \/ QueryFails(r) PROVE TypeOK'
  BY <1>3 DEF Submit, QueryFails
<1>4. CASE UNCHANGED listVars
  BY <1>4 DEF listVars
<1> QED BY <1>1, <1>2, <1>3, <1>4 DEF Next

\* The variables keep their types.
THEOREM TypeCorrect == Spec => []TypeOK
<1>1. Init => TypeOK
  BY DEF Init, TypeOK, Queries, Statuses
<1> QED BY <1>1, TypeStep, PTL DEF Spec

-----------------------------------------------------------------------------
(* What holds for all interleavings. *)

\* A removal that is about to delete names a row of its own user.
OwnChecked == \A d \in Remove : pc[d] = "delete" => user[target[d]] = user[d]

SafeInv == TypeOK /\ NoStockTwice /\ OwnChecked

\* Every step keeps the stocks unique and the ownership found.
LEMMA SafeStep == SafeInv /\ [Next]_listVars => SafeInv'
<1> SUFFICES ASSUME SafeInv, [Next]_listVars PROVE SafeInv'
  OBVIOUS
<1>0. TypeOK'
  BY TypeStep DEF SafeInv
<1>1. ASSUME UNCHANGED args, rows' \subseteq rows PROVE NoStockTwice'
  BY <1>1 DEF SafeInv, NoStockTwice, args
<1>2. ASSUME NEW a \in Add, AddStep(a) PROVE NoStockTwice' /\ OwnChecked'
  <2>1. UNCHANGED args /\ \A d \in Remove : pc'[d] = pc[d]
    BY <1>2, WatchlistAssumption
    DEF SafeInv, TypeOK, AddStep, FindStock, FindExisting, CountRows, CreateRow,
        Goto, Respond, Refuse
  <2>2. OwnChecked'
    BY <2>1 DEF SafeInv, OwnChecked, args
  <2>3. rows' = rows \/ (rows' = rows \cup {a} /\ Existing(a) = {})
    BY <1>2 DEF AddStep, FindStock, FindExisting, CountRows, CreateRow
  <2>4. ASSUME rows' = rows \cup {a}, Existing(a) = {} PROVE NoStockTwice'
    <3>1. \A x \in rows : user[x] = user[a] => stock[x] # stock[a]
      BY <2>4 DEF Existing, RowsOf
    <3>2. \A x, y \in rows : user[x] = user[y] /\ stock[x] = stock[y] => x = y
      BY DEF SafeInv, NoStockTwice
    <3>3. user' = user /\ stock' = stock
      BY <2>1 DEF args
    <3> QED BY <2>4, <3>1, <3>2, <3>3 DEF NoStockTwice
  <2> QED BY <1>1, <2>1, <2>2, <2>3, <2>4
<1>3. ASSUME NEW d \in Remove, RemoveStep(d) PROVE NoStockTwice' /\ OwnChecked'
  <2>1. UNCHANGED args /\ rows' \subseteq rows
    BY <1>3 DEF RemoveStep, FindOwn, DeleteRow, Recount
  <2>2. \A e \in Remove \ {d} : pc'[e] = pc[e]
    BY <1>3 DEF SafeInv, TypeOK, RemoveStep, FindOwn, DeleteRow, Recount, Goto, Respond,
                Refuse
  <2>3. pc'[d] = "delete" => target[d] \in RowsOf(user[d])
    BY <1>3 DEF SafeInv, TypeOK, RemoveStep, FindOwn, DeleteRow, Recount, Goto, Respond,
                Refuse
  <2> QED BY <1>1, <2>1, <2>2, <2>3 DEF SafeInv, OwnChecked, RowsOf, args
<1>4. ASSUME NEW r \in Req, Submit(r) \/ QueryFails(r) PROVE NoStockTwice' /\ OwnChecked'
  <2>1. UNCHANGED args /\ rows' = rows
    BY <1>4 DEF Submit, QueryFails
  <2>2. \A d \in Remove : pc'[d] = "delete" => pc[d] = "delete"
    BY <1>4 DEF SafeInv, TypeOK, Submit, QueryFails, Goto, Respond, Refuse
  <2>3. OwnChecked'
    BY <2>1, <2>2 DEF SafeInv, OwnChecked, args
  <2> QED BY <1>1, <2>1, <2>3
<1>5. CASE UNCHANGED listVars
  <2>1. UNCHANGED args /\ rows' = rows /\ pc' = pc
    BY <1>5 DEF listVars
  <2>2. OwnChecked'
    BY <2>1 DEF SafeInv, OwnChecked, args
  <2> QED BY <1>0, <1>1, <2>1, <2>2 DEF SafeInv
<1> QED BY <1>0, <1>2, <1>3, <1>4, <1>5 DEF Next, SafeInv

\* The invariant that needs no serial requests.
THEOREM Safe == Spec => []SafeInv
<1>1. Init => SafeInv
  BY DEF Init, SafeInv, TypeOK, NoStockTwice, OwnChecked, Queries, Statuses
<1> QED BY <1>1, SafeStep, PTL DEF Spec

\* No user has a stock twice.
THEOREM StocksUnique == Spec => []NoStockTwice
BY Safe, PTL DEF SafeInv

\* Rows disappear only by a removal of their own user.
THEOREM RemovalsOwned == Spec => RemovedByOwner
<1>1. SafeInv /\ [Next]_listVars =>
        [\A x \in rows \ rows' :
           \E d \in Remove : pc[d] = "delete" /\ target[d] = x /\ user[d] = user[x]]_listVars
  <2> SUFFICES ASSUME SafeInv, Next, NEW x \in rows \ rows'
               PROVE  \E d \in Remove : pc[d] = "delete" /\ target[d] = x /\ user[d] = user[x]
    OBVIOUS
  <2>1. PICK d \in Remove : DeleteRow(d) /\ x = target[d]
    BY DEF Next, AddStep, RemoveStep, FindStock, FindExisting, CountRows, CreateRow,
           FindOwn, DeleteRow, Recount, Submit, QueryFails
  <2> QED BY <2>1 DEF DeleteRow, SafeInv, OwnChecked
<1> QED BY <1>1, Safe, PTL DEF Spec, RemovedByOwner

-----------------------------------------------------------------------------
(* What holds for the users who wait for each answer. *)

\* Such a user has one request under way.
Exclusive ==
  \A r, s \in Req :
    Running(r) /\ Running(s) /\ user[r] = user[s] /\ user[r] \in Serial => r = s

\* The count an addition of theirs has read is still right when it inserts.
CountFresh ==
  \A a \in Add : pc[a] = "create" /\ user[a] \in Serial =>
    counted[a] = Cardinality(RowsOf(user[a])) /\ counted[a] < Cap

\* A row exists only when its addition has returned.
RowsDone == \A a \in rows : pc[a] = "done"

IInv == TypeOK /\ Exclusive /\ CountFresh /\ RowsDone /\ WithinCap

\* A step of request q moves only q, does not start it, and changes no argument.
Moves(q) ==
  /\ UNCHANGED args
  /\ \A s \in Req \ {q} : pc'[s] = pc[s]
  /\ Running(q)

\* A step of a running request starts no other.
LEMMA ExclusiveKept ==
  ASSUME IInv, NEW q \in Req, Moves(q)
  PROVE  Exclusive'
BY DEF IInv, Exclusive, Moves, Running, args

\* A step that changes no row and does not count.
LEMMA RowsKept ==
  ASSUME IInv, NEW q \in Req, Moves(q), rows' = rows, counted' = counted,
         pc'[q] # "create", pc[q] # "done"
  PROVE  CountFresh' /\ RowsDone' /\ WithinCap'
<1>1. \A u \in User : RowsOf(u)' = RowsOf(u)
  BY DEF RowsOf, Moves, args
<1>2. RowsDone'
  BY DEF IInv, TypeOK, RowsDone, Moves
<1>3. \A a \in Add : user[a] \in User
  BY DEF IInv, TypeOK
<1>4. CountFresh'
  BY <1>1, <1>3 DEF IInv, CountFresh, Moves, args
<1> QED BY <1>1, <1>2, <1>4, WatchlistAssumption DEF IInv, WithinCap

\* The size of a user's rows is a number, and it shrinks with them.
LEMMA RowsFinite ==
  ASSUME TypeOK, NEW u \in User
  PROVE  IsFiniteSet(RowsOf(u)) /\ Cardinality(RowsOf(u)) \in Nat
BY WatchlistAssumption, FS_Subset, FS_CardinalityType DEF TypeOK, RowsOf

\* Every step of an addition.
LEMMA AddKeepsInv ==
  ASSUME IInv, NEW a \in Add, AddStep(a)
  PROVE  Exclusive' /\ CountFresh' /\ RowsDone' /\ WithinCap'
<1>1. Moves(a)
  BY DEF IInv, TypeOK, Moves, Running, Queries, AddStep, FindStock, FindExisting, CountRows,
         CreateRow, Goto, Respond, Refuse
<1>2. Exclusive'
  BY <1>1, ExclusiveKept
<1>t. TypeOK /\ user[a] \in User /\ UNCHANGED args
  BY <1>1 DEF IInv, TypeOK, Moves
<1>3. CASE rows' = rows /\ counted' = counted /\ pc'[a] # "create" /\ pc[a] # "done"
  BY <1>1, <1>2, <1>3, RowsKept
<1>4. CASE CountRows(a) /\ pc'[a] = "create"
  <2> DEFINE n == Cardinality(RowsOf(user[a]))
  <2>1. ~Full(n) /\ counted' = [counted EXCEPT ![a] = n] /\ rows' = rows /\ pc[a] = "count"
    BY <1>4 DEF CountRows, IInv, TypeOK, Refuse, Respond, Goto
  <2>2. n \in Nat
    BY <1>t, RowsFinite
  <2>3. n < Cap
    BY <2>1, <2>2, WatchlistAssumption DEF Full
  <2>4. \A u \in User : RowsOf(u)' = RowsOf(u)
    BY <1>t, <2>1 DEF RowsOf, args
  <2>5. counted'[a] = n /\ \A b \in Add \ {a} : counted'[b] = counted[b]
    BY <2>1 DEF IInv, TypeOK
  <2>6. \A b \in Add : user[b] \in User /\ user'[b] = user[b]
    BY <1>t DEF TypeOK, args
  <2>7. CountFresh'
    <3> SUFFICES ASSUME NEW b \in Add, pc'[b] = "create", user'[b] \in Serial
                 PROVE  (counted[b] = Cardinality(RowsOf(user[b])) /\ counted[b] < Cap)'
      BY DEF CountFresh
    <3>1. CASE b = a
      BY <3>1, <2>3, <2>4, <2>5, <2>6
    <3>2. CASE b # a
      BY <3>2, <1>1, <2>4, <2>5, <2>6 DEF IInv, CountFresh, Moves
    <3> QED BY <3>1, <3>2
  <2>8. RowsDone'
    BY <1>1, <2>1 DEF IInv, TypeOK, RowsDone, Moves
  <2>9. WithinCap'
    BY <2>4, WatchlistAssumption DEF IInv, WithinCap
  <2> QED BY <1>2, <2>7, <2>8, <2>9
<1>5. CASE rows' = rows \cup {a} /\ counted' = counted /\ pc[a] = "create" /\ pc'[a] = "done"
  <2> DEFINE S == RowsOf(user[a])
  <2>1. a \notin rows
    BY <1>5 DEF IInv, RowsDone
  <2>2. IsFiniteSet(S) /\ Cardinality(S) \in Nat /\ a \notin S
    BY <1>t, <2>1, RowsFinite DEF RowsOf
  <2>3. user[a] \in Serial => Cardinality(S) < Cap
    BY <1>5 DEF IInv, CountFresh
  <2>4. \A u \in User : u = user[a] => RowsOf(u)' = S \cup {a}
    BY <1>t, <1>5 DEF RowsOf, args
  <2> HIDE DEF S
  <2>5. Cardinality(S \cup {a}) = Cardinality(S) + 1
    BY <2>2, FS_AddElement
  <2>6. \A u \in User \ {user[a]} : RowsOf(u)' = RowsOf(u)
    BY <1>t, <1>5 DEF RowsOf, args
  <2>7. WithinCap'
    <3> SUFFICES ASSUME NEW u \in Serial PROVE Cardinality(RowsOf(u)') <= Cap
      BY DEF WithinCap
    <3>1. CASE u = user[a]
      <4>1. RowsOf(u)' = S \cup {a} /\ Cardinality(S) < Cap
        BY <3>1, <1>t, <2>3, <2>4
      <4>2. Cardinality(RowsOf(u)') = Cardinality(S) + 1
        BY <4>1, <2>5
      <4> QED BY <4>1, <4>2, <2>2, WatchlistAssumption
    <3>2. CASE u # user[a]
      BY <3>2, <2>6, WatchlistAssumption DEF IInv, WithinCap
    <3> QED BY <3>1, <3>2
  <2>8. CountFresh'
    <3> SUFFICES ASSUME NEW b \in Add, pc'[b] = "create", user'[b] \in Serial
                 PROVE  (counted[b] = Cardinality(RowsOf(user[b])) /\ counted[b] < Cap)'
      BY DEF CountFresh
    <3>1. b # a /\ pc[b] = "create" /\ user'[b] = user[b] /\ user[b] \in User
      BY <1>1, <1>5, <1>t DEF Moves, TypeOK, args
    <3>2. user[b] # user[a]
      BY <3>1, <1>5 DEF IInv, Exclusive, Running, Queries
    <3> QED BY <3>1, <3>2, <2>6, <1>5 DEF IInv, CountFresh
  <2>9. RowsDone'
    BY <1>1, <1>5 DEF IInv, TypeOK, RowsDone, Moves
  <2> QED BY <1>2, <2>7, <2>8, <2>9
<1> QED
  <2>1. CASE FindStock(a)
    BY <2>1, <1>3 DEF FindStock, IInv, TypeOK, Goto, Respond, Refuse
  <2>2. CASE FindExisting(a)
    BY <2>2, <1>3 DEF FindExisting, IInv, TypeOK, Goto, Respond, Refuse
  <2>3. CASE CountRows(a)
    BY <2>3, <1>3, <1>4 DEF CountRows, IInv, TypeOK, Goto, Respond, Refuse
  <2>4. CASE CreateRow(a)
    BY <2>4, <1>3, <1>5 DEF CreateRow, IInv, TypeOK, Goto, Respond, Refuse
  <2> QED BY <2>1, <2>2, <2>3, <2>4 DEF AddStep

\* Every step of a removal.
LEMMA RemoveKeepsInv ==
  ASSUME IInv, SafeInv, NEW d \in Remove, RemoveStep(d)
  PROVE  Exclusive' /\ CountFresh' /\ RowsDone' /\ WithinCap'
<1>1. Moves(d) /\ counted' = counted /\ pc'[d] # "create" /\ pc[d] # "done"
  BY DEF IInv, TypeOK, Moves, Running, Queries, RemoveStep, FindOwn, DeleteRow, Recount,
         Goto, Respond, Refuse
<1>2. Exclusive'
  BY <1>1, ExclusiveKept
<1>3. CASE rows' = rows
  BY <1>1, <1>2, <1>3, RowsKept
<1>4. CASE rows' = rows \ {target[d]} /\ pc[d] = "delete"
  <2>1. user[target[d]] = user[d] /\ user[d] \in User
    BY <1>4 DEF SafeInv, OwnChecked, TypeOK
  <2>2. \A u \in User \ {user[d]} : RowsOf(u)' = RowsOf(u)
    BY <1>1, <1>4, <2>1 DEF RowsOf, Moves, args
  <2>3. \A u \in User : RowsOf(u)' \subseteq RowsOf(u)
    BY <1>1, <1>4 DEF RowsOf, Moves, args
  <2>4. WithinCap'
    <3> SUFFICES ASSUME NEW u \in Serial PROVE Cardinality(RowsOf(u)') <= Cap
      BY DEF WithinCap
    <3>1. IsFiniteSet(RowsOf(u)) /\ Cardinality(RowsOf(u)) \in Nat
      BY RowsFinite, WatchlistAssumption DEF IInv
    <3>2. Cardinality(RowsOf(u)') \in Nat /\ Cardinality(RowsOf(u)') <= Cardinality(RowsOf(u))
      BY <3>1, <2>3, FS_Subset, FS_CardinalityType, WatchlistAssumption
    <3>3. Cardinality(RowsOf(u)) <= Cap
      BY DEF IInv, WithinCap
    <3> QED BY <3>1, <3>2, <3>3, WatchlistAssumption
  <2>5. CountFresh'
    <3> SUFFICES ASSUME NEW b \in Add, pc'[b] = "create", user'[b] \in Serial
                 PROVE  (counted[b] = Cardinality(RowsOf(user[b])) /\ counted[b] < Cap)'
      BY DEF CountFresh
    <3>1. b # d /\ pc[b] = "create" /\ user'[b] = user[b] /\ user[b] \in User
      BY <1>1, WatchlistAssumption DEF Moves, IInv, TypeOK, args
    <3>2. user[b] # user[d]
      BY <3>1, <1>4 DEF IInv, Exclusive, Running, Queries
    <3> QED BY <3>1, <3>2, <2>2, <1>1 DEF IInv, CountFresh
  <2>6. RowsDone'
    BY <1>1, <1>4 DEF IInv, TypeOK, RowsDone, Moves
  <2> QED BY <1>2, <2>4, <2>5, <2>6
<1> QED BY <1>3, <1>4 DEF RemoveStep, FindOwn, DeleteRow, Recount

\* The start of a request.
LEMMA SubmitKeepsInv ==
  ASSUME IInv, NEW r \in Req, Submit(r)
  PROVE  Exclusive' /\ CountFresh' /\ RowsDone' /\ WithinCap'
<1>1. /\ UNCHANGED <<args, rows, counted>>
      /\ \A s \in Req \ {r} : pc'[s] = pc[s]
      /\ pc[r] = "idle" /\ pc'[r] \in {"stock", "own"}
      /\ user[r] \in Serial => \A s \in Req : user[s] = user[r] => ~Running(s)
  BY DEF Submit, Goto, IInv, TypeOK
<1>2. Exclusive'
  BY <1>1 DEF IInv, Exclusive, Running, args
<1>3. \A u \in User : RowsOf(u)' = RowsOf(u)
  BY <1>1 DEF RowsOf, args
<1>4. \A a \in Add : user[a] \in User /\ user'[a] = user[a]
  BY <1>1 DEF IInv, TypeOK, args
<1>5. CountFresh'
  BY <1>1, <1>3, <1>4 DEF IInv, CountFresh
<1>6. RowsDone'
  BY <1>1 DEF IInv, TypeOK, RowsDone
<1>7. WithinCap'
  BY <1>3, WatchlistAssumption DEF IInv, WithinCap
<1> QED BY <1>2, <1>5, <1>6, <1>7

\* The failure of a request.
LEMMA FailKeepsInv ==
  ASSUME IInv, NEW r \in Req, QueryFails(r)
  PROVE  Exclusive' /\ CountFresh' /\ RowsDone' /\ WithinCap'
<1>1. /\ Moves(r) /\ rows' = rows /\ counted' = counted
      /\ pc'[r] # "create" /\ pc[r] # "done"
  BY DEF QueryFails, Moves, Running, Queries, Refuse, Respond, Goto, IInv, TypeOK
<1> QED BY <1>1, ExclusiveKept, RowsKept

\* The inductive invariant.
THEOREM Invariance == Spec => []IInv
<1>1. Init => IInv
  <2> SUFFICES ASSUME Init PROVE IInv
    OBVIOUS
  <2>1. \A u \in User : RowsOf(u) = {}
    BY DEF Init, RowsOf
  <2>2. WithinCap
    BY <2>1, FS_EmptySet, WatchlistAssumption DEF WithinCap
  <2> QED BY <2>2 DEF Init, IInv, TypeOK, Queries, Statuses, Exclusive, Running, CountFresh, RowsDone
<1>2. IInv /\ SafeInv /\ [Next]_listVars => IInv'
  <2> SUFFICES ASSUME IInv, SafeInv, [Next]_listVars PROVE IInv'
    OBVIOUS
  <2>0. TypeOK'
    BY TypeStep DEF IInv
  <2>1. ASSUME NEW a \in Add, AddStep(a) PROVE IInv'
    BY <2>0, <2>1, AddKeepsInv DEF IInv
  <2>2. ASSUME NEW d \in Remove, RemoveStep(d) PROVE IInv'
    BY <2>0, <2>2, RemoveKeepsInv DEF IInv
  <2>3. ASSUME NEW r \in Req, Submit(r) \/ QueryFails(r) PROVE IInv'
    BY <2>0, <2>3, SubmitKeepsInv, FailKeepsInv DEF IInv
  <2>4. CASE UNCHANGED listVars
    <3>1. UNCHANGED <<rows, user, pc, counted>>
      BY <2>4 DEF listVars, args
    <3>2. Exclusive' /\ CountFresh' /\ RowsDone' /\ WithinCap'
      BY <3>1 DEF IInv, Exclusive, CountFresh, RowsDone, WithinCap, RowsOf, Running
    <3> QED BY <2>0, <3>2 DEF IInv
  <2> QED BY <2>1, <2>2, <2>3, <2>4 DEF Next
<1> QED BY <1>1, <1>2, Safe, PTL DEF Spec

\* A user who waits for each answer never has more than Cap rows.
THEOREM CapKept == Spec => []WithinCap
BY Invariance, PTL DEF IInv

\* An insert brings the user's rows to one more than the count read.
LEMMA CreateCounts ==
  ASSUME IInv, NEW a \in Add, UNCHANGED args, rows' = rows \cup {a}, pc[a] = "create",
         user[a] \in Serial
  PROVE  counted[a] + 1 = Cardinality(RowsOf(user[a])')
<1> DEFINE S == RowsOf(user[a])
<1>1. a \notin rows /\ user[a] \in User /\ Cardinality(S) = counted[a]
  BY DEF IInv, TypeOK, RowsDone, CountFresh
<1>2. IsFiniteSet(S) /\ a \notin S
  BY <1>1, RowsFinite DEF IInv, RowsOf
<1>3. RowsOf(user[a])' = S \cup {a}
  BY DEF RowsOf, args
<1> HIDE DEF S
<1>4. Cardinality(S \cup {a}) = Cardinality(S) + 1
  BY <1>2, FS_AddElement
<1> QED BY <1>1, <1>3, <1>4

\* The totals told such a user with created rows are exact.
THEOREM TotalsCorrect == Spec => TotalsExact
<1>1. IInv /\ [Next]_listVars =>
        [\A a \in Add :
           user[a] \in Serial /\ status[a] # "created" /\ status'[a] = "created" =>
             told'[a] = Cardinality(RowsOf(user[a])')]_listVars
  <2> SUFFICES ASSUME IInv, Next, NEW a \in Add, user[a] \in Serial,
                      status[a] # "created", status'[a] = "created"
               PROVE  told'[a] = Cardinality(RowsOf(user[a])')
    OBVIOUS
  <2>1. ASSUME NEW r \in Req, Submit(r) \/ QueryFails(r) PROVE FALSE
    BY <2>1 DEF Submit, QueryFails, Refuse, Respond, IInv, TypeOK
  <2>2. ASSUME NEW d \in Remove, RemoveStep(d) PROVE FALSE
    BY <2>2, WatchlistAssumption
    DEF RemoveStep, FindOwn, DeleteRow, Recount, Refuse, Respond, IInv, TypeOK
  <2>3. PICK b \in Add : AddStep(b)
    BY <2>1, <2>2 DEF Next
  <2>4. a = b /\ CreateRow(a)
    BY <2>3 DEF AddStep, FindStock, FindExisting, CountRows, CreateRow, Refuse, Respond,
                IInv, TypeOK
  <2>5. /\ UNCHANGED args /\ rows' = rows \cup {a} /\ pc[a] = "create"
        /\ told'[a] = counted[a] + 1
    BY <2>4 DEF CreateRow, Refuse, Respond, IInv, TypeOK
  <2> QED BY <2>5, CreateCounts
<1> QED BY <1>1, Invariance, PTL DEF Spec, TotalsExact

-----------------------------------------------------------------------------
(* To such users every request is one step. *)

\* What a request of theirs has found is still so.
FoundStill ==
  /\ \A a \in Add : user[a] \in Serial =>
       /\ pc[a] \in {"existing", "count", "create"} => stock[a] \in Listed
       /\ pc[a] \in {"count", "create"} => Existing(a) = {}
  /\ \A d \in Remove : user[d] \in Serial /\ pc[d] = "delete" => target[d] \in RowsOf(user[d])

\* A request is answered once.
Unanswered == \A r \in Req : pc[r] # "done" => status[r] = "none" /\ told[r] = 0

\* A step of one request changes its own user's rows only.
LEMMA OtherRows ==
  ASSUME IInv, SafeInv, NEW q \in Req, q \in Add => AddStep(q), q \in Remove => RemoveStep(q)
  PROVE  \A u \in User \ {user[q]} : RowsOf(u)' = RowsOf(u)
<1>1. UNCHANGED user
  BY DEF AddStep, FindStock, FindExisting, CountRows, CreateRow, RemoveStep, FindOwn,
         DeleteRow, Recount, args
<1>2. CASE q \in Add
  <2>1. rows' = rows \/ rows' = rows \cup {q}
    BY <1>2 DEF AddStep, FindStock, FindExisting, CountRows, CreateRow
  <2> QED BY <1>1, <2>1 DEF RowsOf
<1>3. CASE q \in Remove
  <2>1. rows' = rows \/ (rows' = rows \ {target[q]} /\ pc[q] = "delete")
    BY <1>3 DEF RemoveStep, FindOwn, DeleteRow, Recount
  <2>2. pc[q] = "delete" => user[target[q]] = user[q]
    BY <1>3 DEF SafeInv, OwnChecked
  <2> QED BY <1>1, <2>1, <2>2 DEF RowsOf
<1> QED BY <1>2, <1>3

\* While a request of such a user is under way, no other of theirs moves.
LEMMA FoundStaysFound ==
  ASSUME IInv, SafeInv, FoundStill, NEW q \in Req,
         q \in Add => AddStep(q), q \in Remove => RemoveStep(q)
  PROVE  FoundStill'
<1>1. /\ UNCHANGED args /\ \A s \in Req \ {q} : pc'[s] = pc[s]
      /\ Running(q)
  BY DEF IInv, TypeOK, Running, Queries, AddStep, FindStock, FindExisting, CountRows, CreateRow,
         RemoveStep, FindOwn, DeleteRow, Recount, Goto, Respond, Refuse
<1>2. \A s \in Req \ {q} : Running(s) /\ user[s] \in Serial => user[s] \in User \ {user[q]}
  BY <1>1 DEF IInv, TypeOK, Exclusive
<1>3. \A u \in User \ {user[q]} : RowsOf(u)' = RowsOf(u)
  BY OtherRows
<1>4. \A s \in Req \ {q} : Running(s) /\ user[s] \in Serial => RowsOf(user[s])' = RowsOf(user[s])
  <2>1. \A u \in User \ {user[q]} : {x \in rows' : user'[x] = u} = {x \in rows : user[x] = u}
    BY <1>3 DEF RowsOf
  <2>2. user' = user
    BY <1>1 DEF args
  <2> QED BY <1>2, <2>1, <2>2 DEF RowsOf
<1>5. ASSUME NEW a \in Add, user'[a] \in Serial
      PROVE  /\ pc'[a] \in {"existing", "count", "create"} => stock[a] \in Listed
             /\ pc'[a] \in {"count", "create"} => Existing(a)' = {}
  <2>1. user[a] \in Serial /\ stock' = stock /\ user' = user
    BY <1>1, <1>5 DEF args
  <2>2. CASE a # q
    <3>1. pc'[a] = pc[a] /\ (Running(a) => RowsOf(user[a])' = RowsOf(user[a]))
      BY <1>1, <1>4, <2>1, <2>2
    <3> QED BY <2>1, <3>1 DEF FoundStill, Existing, Running, Queries
  <2>3. CASE a = q
    <3>1. \/ pc'[a] \notin {"existing", "count", "create"}
          \/ pc[a] = "stock" /\ pc'[a] = "existing" /\ stock[a] \in Listed
          \/ pc[a] = "existing" /\ pc'[a] = "count" /\ Existing(a) = {} /\ rows' = rows
          \/ pc[a] = "count" /\ pc'[a] = "create" /\ rows' = rows
      BY <2>3 DEF IInv, TypeOK, AddStep, FindStock, FindExisting, CountRows, CreateRow, Goto,
                  Respond, Refuse
    <3>2. rows' = rows => Existing(a)' = Existing(a)
      BY <2>1 DEF Existing, RowsOf
    <3> QED BY <2>1, <3>1, <3>2 DEF FoundStill
  <2> QED BY <2>2, <2>3
<1>6. ASSUME NEW d \in Remove, user'[d] \in Serial, pc'[d] = "delete"
      PROVE  target[d] \in RowsOf(user[d])'
  <2>1. user[d] \in Serial
    BY <1>1, <1>6 DEF args
  <2>2. CASE d # q
    <3>1. pc[d] = "delete" /\ RowsOf(user[d])' = RowsOf(user[d])
      BY <1>1, <1>4, <1>6, <2>1, <2>2 DEF Running, Queries
    <3> QED BY <2>1, <3>1 DEF FoundStill
  <2>3. CASE d = q
    <3>1. target[d] \in RowsOf(user[d]) /\ rows' = rows
      BY <1>6, <2>3 DEF IInv, TypeOK, RemoveStep, FindOwn, DeleteRow, Recount, Goto, Respond,
                        Refuse
    <3> QED BY <1>1, <3>1 DEF RowsOf, args
  <2> QED BY <2>2, <2>3
<1> QED BY <1>1, <1>5, <1>6 DEF FoundStill, args

\* A request starts, or fails.
LEMMA FoundKept ==
  ASSUME IInv, FoundStill, NEW r \in Req, Submit(r) \/ QueryFails(r)
  PROVE  FoundStill'
<1>1. /\ UNCHANGED <<rows, args>> /\ \A s \in Req \ {r} : pc'[s] = pc[s]
      /\ pc'[r] \in {"stock", "own", "done"}
  BY DEF Submit, QueryFails, IInv, TypeOK, Goto, Respond, Refuse
<1>2. /\ \A a \in Add : Existing(a)' = Existing(a)
      /\ \A d \in Remove : (target[d] \in RowsOf(user[d]))' = (target[d] \in RowsOf(user[d]))
  BY <1>1 DEF Existing, RowsOf, args
<1> QED BY <1>1, <1>2 DEF FoundStill, args

\* Nothing is answered before its last step.
LEMMA UnansweredKept ==
  ASSUME IInv, Unanswered, [Next]_listVars
  PROVE  Unanswered'
<1>1. ASSUME NEW q \in Req, \A s \in Req \ {q} : UNCHANGED <<pc[s], status[s], told[s]>>,
             \/ pc'[q] = "done"
             \/ UNCHANGED <<status[q], told[q]>> /\ pc[q] # "done"
      PROVE  Unanswered'
  BY <1>1 DEF Unanswered
<1> USE DEF IInv, TypeOK, Goto, Respond, Refuse
<1>2. ASSUME NEW a \in Add, AddStep(a) PROVE Unanswered'
  BY <1>1, <1>2 DEF AddStep, FindStock, FindExisting, CountRows, CreateRow
<1>3. ASSUME NEW d \in Remove, RemoveStep(d) PROVE Unanswered'
  BY <1>1, <1>3 DEF RemoveStep, FindOwn, DeleteRow, Recount
<1>4. ASSUME NEW r \in Req, Submit(r) \/ QueryFails(r) PROVE Unanswered'
  BY <1>1, <1>4 DEF Submit, QueryFails
<1>5. CASE UNCHANGED listVars
  BY <1>5 DEF listVars, Unanswered
<1> QED BY <1>2, <1>3, <1>4, <1>5 DEF Next

\* What the users who wait have found and are owed, in every reachable state.
THEOREM FoundHolds == Spec => [](FoundStill /\ Unanswered)
<1>1. Init => FoundStill /\ Unanswered
  BY DEF Init, FoundStill, Unanswered
<1>2. IInv /\ SafeInv /\ FoundStill /\ Unanswered /\ [Next]_listVars => FoundStill' /\ Unanswered'
  <2> SUFFICES ASSUME IInv, SafeInv, FoundStill, Unanswered, [Next]_listVars
               PROVE  FoundStill' /\ Unanswered'
    OBVIOUS
  <2>1. ASSUME NEW a \in Add, AddStep(a) PROVE FoundStill'
    BY <2>1, FoundStaysFound, WatchlistAssumption
  <2>2. ASSUME NEW d \in Remove, RemoveStep(d) PROVE FoundStill'
    BY <2>2, FoundStaysFound, WatchlistAssumption
  <2>3. ASSUME UNCHANGED listVars PROVE FoundStill'
    BY <2>3 DEF listVars, args, FoundStill, Existing, RowsOf
  <2>4. ASSUME NEW r \in Req, Submit(r) \/ QueryFails(r) PROVE FoundStill'
    BY <2>4, FoundKept
  <2>5. FoundStill'
    BY <2>1, <2>2, <2>3, <2>4 DEF Next
  <2>6. Unanswered'
    BY UnansweredKept
  <2> QED BY <2>5, <2>6
<1> QED BY <1>1, <1>2, Invariance, Safe, PTL DEF Spec

\* The rows of a user who waits are the user's shelf.
LEMMA ShelfIsRows ==
  ASSUME NEW u \in Serial
  PROVE  Shelf!ShelfOf(u) = RowsOf(u) /\ Shelf!Size(u) = Cardinality(RowsOf(u))
<1>1. Shelf!ShelfOf(u) = RowsOf(u)
  BY DEF Shelf!ShelfOf, RowsOf
<1>2. \A S : Shelf!Cardinality(S) = Cardinality(S)
  BY DEF Shelf!Cardinality, Cardinality
<1> QED BY <1>1, <1>2 DEF Shelf!Size

\* A request under way of a user who waits is open.
LEMMA AsksMaps ==
  ASSUME Unanswered, NEW q \in Req, user[q] \in Serial, Running(q)
  PROVE  Shelf!Asks(q)
<1>1. AnswerOf(q) = [status |-> "none", told |-> 0]
  BY DEF Unanswered, Running, Queries, AnswerOf
<1> QED BY <1>1 DEF Shelf!Asks, Shelf!Open, Shelf!Answered

\* An answer is one, and the last step of its request.
LEMMA AnswerMaps ==
  ASSUME IInv, Unanswered, NEW q \in Req, user[q] \in Serial, Running(q), UNCHANGED args,
         NEW s, NEW n, Respond(q, s, n)
  PROVE  Shelf!Asks(q) /\ Shelf!Answer(q, s, n)
<1>1. /\ pc' = [pc EXCEPT ![q] = "done"] /\ status' = [status EXCEPT ![q] = s]
      /\ told' = [told EXCEPT ![q] = n] /\ user' = user
  BY DEF Respond, Goto, args
<1>2. Shelf!Asks(q)
  BY AsksMaps
<1>3. \A r \in Req : AnswerOf(r)' = IF r = q THEN [status |-> s, told |-> n] ELSE AnswerOf(r)
  BY <1>1 DEF IInv, TypeOK, AnswerOf
<1>4. {d \in Remove : user'[d] \in Serial /\ pc'[d] = "recount"} =
        {d \in Remove : user[d] \in Serial /\ pc[d] = "recount"} \ {q}
  BY <1>1 DEF IInv, TypeOK
<1>5. [r \in Req |-> AnswerOf(r)]' =
        [[r \in Req |-> AnswerOf(r)] EXCEPT ![q] = [status |-> s, told |-> n]]
  BY <1>3
<1> QED BY <1>2, <1>4, <1>5
        DEF Shelf!Answer, Shelf!Answered

\* The shelf does not see a step that keeps the rows and the answers of the
\* users who wait.
LEMMA Stutters ==
  ASSUME IInv, TypeOK', UNCHANGED args,
         \A x \in Add : user[x] \in Serial => (x \in rows' <=> x \in rows),
         \A r \in Req : user[r] \in Serial =>
           UNCHANGED <<status[r], told[r]>> /\ (pc'[r] = "recount" <=> pc[r] = "recount")
  PROVE  UNCHANGED Shelf!shelfVars
<1>1. rows \subseteq Add /\ rows' \subseteq Add
  BY DEF IInv, TypeOK
<1>2. user' = user /\ stock' = stock /\ target' = target
  BY DEF args
<1>3. {x \in rows' : user'[x] \in Serial} = {x \in rows : user[x] \in Serial}
  BY <1>1, <1>2
<1>4. {d \in Remove : user'[d] \in Serial /\ pc'[d] = "recount"} =
        {d \in Remove : user[d] \in Serial /\ pc[d] = "recount"}
  BY <1>2
<1>5. \A r \in Req : AnswerOf(r)' = AnswerOf(r)
  BY <1>2 DEF AnswerOf
<1>6. [r \in Req |-> AnswerOf(r)]' = [r \in Req |-> AnswerOf(r)]
  BY <1>5
<1> QED BY <1>2, <1>3, <1>4, <1>6 DEF Shelf!shelfVars

\* The shelf of a step that keeps the rows.
LEMMA ShelfStays ==
  ASSUME UNCHANGED args, rows' = rows
  PROVE  {x \in rows : user[x] \in Serial}' = {x \in rows : user[x] \in Serial}
BY DEF args

\* An addition of a user who waits is one step of the shelf or none.
LEMMA AddMaps ==
  ASSUME IInv, TypeOK', FoundStill, Unanswered, NEW a \in Add, user[a] \in Serial, AddStep(a)
  PROVE  Shelf!ShelfNext \/ UNCHANGED Shelf!shelfVars
<1>1. UNCHANGED args /\ Running(a) /\ a \notin Remove /\ pc[a] # "recount"
  BY WatchlistAssumption
  DEF AddStep, FindStock, FindExisting, CountRows, CreateRow, Running, Queries
<1>2. UNCHANGED <<user, stock, target>>
  BY <1>1 DEF args
<1>3. ASSUME rows' = rows, UNCHANGED <<status, told>>, NEW q \in Queries \ {"recount"}, Goto(a, q)
      PROVE  UNCHANGED Shelf!shelfVars
  <2>1. \A r \in Req : pc'[r] = "recount" <=> pc[r] = "recount"
    BY <1>1, <1>3 DEF IInv, TypeOK, Goto
  <2> QED BY <1>1, <1>3, <2>1, Stutters
<1>4. Shelf!ShelfOf(user[a]) = RowsOf(user[a]) /\ Shelf!Size(user[a]) = Cardinality(RowsOf(user[a]))
  BY ShelfIsRows
<1>5. ASSUME rows' = rows, NEW s, Refuse(a, s) PROVE Shelf!Asks(a) /\ Shelf!Answer(a, s, 0)
  BY <1>1, <1>5, AnswerMaps DEF Refuse
<1>6. Shelf!Asks(a)
  BY <1>1, AsksMaps
<1>7. CASE FindStock(a)
  <2>1. CASE Refuse(a, "notFound") /\ stock[a] \notin Listed
    <3>1. Shelf!Keep(a)
      BY <1>1, <1>5, <1>7, <2>1, ShelfStays DEF FindStock, Shelf!Keep
    <3> QED BY <1>2, <1>6, <3>1 DEF Shelf!ShelfNext
  <2>2. CASE Goto(a, "existing") /\ UNCHANGED <<status, told>>
    BY <1>3, <1>7, <2>2 DEF FindStock, Queries
  <2> QED BY <1>7, <2>1, <2>2 DEF FindStock
<1>8. CASE FindExisting(a)
  <2>1. CASE Refuse(a, "conflict") /\ Existing(a) # {}
    <3>1. \E x \in Shelf!ShelfOf(user[a]) : stock[x] = stock[a]
      BY <1>4, <2>1 DEF Existing
    <3>2. Shelf!Keep(a)
      BY <1>1, <1>5, <1>8, <2>1, <3>1, ShelfStays DEF FindExisting, Shelf!Keep
    <3> QED BY <1>2, <1>6, <3>2 DEF Shelf!ShelfNext
  <2>2. CASE Goto(a, "count") /\ UNCHANGED <<status, told>>
    BY <1>3, <1>8, <2>2 DEF FindExisting, Queries
  <2> QED BY <1>8, <2>1, <2>2 DEF FindExisting
<1>9. CASE CountRows(a)
  <2>1. CASE Refuse(a, "capacity") /\ Full(Cardinality(RowsOf(user[a])))
    <3>1. Shelf!Size(user[a]) >= Cap
      BY <1>4, <2>1 DEF Full
    <3>2. Shelf!Keep(a)
      BY <1>1, <1>5, <1>9, <2>1, <3>1, ShelfStays DEF CountRows, Shelf!Keep
    <3> QED BY <1>2, <1>6, <3>2 DEF Shelf!ShelfNext
  <2>2. CASE Goto(a, "create") /\ UNCHANGED <<status, told>>
    BY <1>3, <1>9, <2>2 DEF CountRows, Queries
  <2> QED BY <1>9, <2>1, <2>2 DEF CountRows
<1>10. CASE CreateRow(a)
  <2>1. /\ stock[a] \in Listed /\ Existing(a) = {}
        /\ counted[a] = Cardinality(RowsOf(user[a])) /\ counted[a] < Cap
    BY <1>10 DEF CreateRow, FoundStill, IInv, CountFresh
  <2>2. \A x \in Shelf!ShelfOf(user[a]) : stock[x] # stock[a]
    BY <1>4, <2>1 DEF Existing
  <2>3. /\ rows' = rows \cup {a}
        /\ Respond(a, "created", counted[a] + 1) \/ Respond(a, "error", 0)
    BY <1>10, <2>1 DEF CreateRow, Refuse
  <2>4. {x \in rows : user[x] \in Serial}' = {x \in rows : user[x] \in Serial} \cup {a}
    BY <1>2, <2>3
  <2>5. \/ Shelf!Answer(a, "created", Shelf!Size(user[a]) + 1)
        \/ Shelf!Answer(a, "error", 0)
    <3>1. PICK n : n = counted[a] + 1
      OBVIOUS
    <3>2. Respond(a, "created", n) \/ Respond(a, "error", 0)
      BY <2>3, <3>1 DEF Respond
    <3>3. Shelf!Answer(a, "created", n) \/ Shelf!Answer(a, "error", 0)
      BY <1>1, <3>2, AnswerMaps
    <3>4. n = Shelf!Size(user[a]) + 1
      BY <1>4, <2>1, <3>1
    <3> QED BY <3>3, <3>4 DEF Shelf!Answer
  <2>6. Shelf!Put(a)
    BY <1>4, <2>1, <2>2, <2>4, <2>5 DEF Shelf!Put
  <2> QED BY <1>2, <1>6, <2>6 DEF Shelf!ShelfNext
<1> QED BY <1>7, <1>8, <1>9, <1>10 DEF AddStep

\* A removal of a user who waits is one step of the shelf or none.
LEMMA RemoveMaps ==
  ASSUME IInv, TypeOK', FoundStill, Unanswered, NEW d \in Remove, user[d] \in Serial,
         RemoveStep(d)
  PROVE  Shelf!ShelfNext \/ UNCHANGED Shelf!shelfVars
<1>1. UNCHANGED args /\ Running(d)
  BY DEF RemoveStep, FindOwn, DeleteRow, Recount, Running, Queries
<1>2. UNCHANGED <<user, stock, target>>
  BY <1>1 DEF args
<1>3. Shelf!Asks(d)
  BY <1>1, AsksMaps
<1>4. Shelf!ShelfOf(user[d]) = RowsOf(user[d]) /\ Shelf!Size(user[d]) = Cardinality(RowsOf(user[d]))
  BY ShelfIsRows
<1> DEFINE taken == {e \in Remove : user[e] \in Serial /\ pc[e] = "recount"}
<1>5. CASE FindOwn(d)
  <2>1. CASE Refuse(d, "notFound") /\ target[d] \notin RowsOf(user[d])
    <3>1. Shelf!Answer(d, "notFound", 0)
      BY <1>1, <2>1, AnswerMaps DEF Refuse
    <3>2. d \notin taken
      BY <1>5 DEF FindOwn
    <3>3. Shelf!Leave(d)
      BY <1>1, <1>4, <1>5, <2>1, <3>1, <3>2, ShelfStays DEF FindOwn, Shelf!Leave
    <3> QED BY <1>2, <1>3, <3>3 DEF Shelf!ShelfNext
  <2>2. CASE Goto(d, "delete") /\ UNCHANGED <<status, told>>
    BY <1>1, <1>5, <2>2, Stutters DEF FindOwn, Goto, IInv, TypeOK
  <2> QED BY <1>5, <2>1, <2>2 DEF FindOwn
<1>6. CASE DeleteRow(d)
  <2>1. target[d] \in RowsOf(user[d]) /\ target[d] \in rows
    BY <1>6 DEF DeleteRow, FoundStill, RowsOf
  <2>2. rows' = rows \ {target[d]} /\ Goto(d, "recount") /\ UNCHANGED <<status, told>>
    BY <1>6, <2>1 DEF DeleteRow
  <2>3. {x \in rows : user[x] \in Serial}' = {x \in rows : user[x] \in Serial} \ {target[d]}
    BY <1>2, <2>2
  <2>4. d \notin taken /\ taken' = taken \cup {d}
    BY <1>2, <1>6, <2>2 DEF DeleteRow, Goto, IInv, TypeOK
  <2>5. [r \in Req |-> AnswerOf(r)]' = [r \in Req |-> AnswerOf(r)]
    BY <1>2, <2>2 DEF AnswerOf
  <2>6. Shelf!Take(d)
    BY <1>4, <2>1, <2>3, <2>4, <2>5 DEF Shelf!Take
  <2> QED BY <1>2, <1>3, <2>6 DEF Shelf!ShelfNext
<1>7. CASE Recount(d)
  <2>1. Shelf!Answer(d, "deleted", Shelf!Size(user[d]))
    <3>1. PICK n : n = Cardinality(RowsOf(user[d]))
      OBVIOUS
    <3>2. Respond(d, "deleted", n)
      BY <1>7, <3>1 DEF Recount, Respond
    <3>3. Shelf!Answer(d, "deleted", n)
      BY <1>1, <3>2, AnswerMaps
    <3> QED BY <1>4, <3>1, <3>3 DEF Shelf!Answer
  <2>2. d \in taken
    BY <1>7 DEF Recount
  <2>3. Shelf!Leave(d)
    BY <1>1, <1>7, <2>1, <2>2, ShelfStays DEF Recount, Shelf!Leave
  <2> QED BY <1>2, <1>3, <2>3 DEF Shelf!ShelfNext
<1> QED BY <1>5, <1>6, <1>7 DEF RemoveStep

\* The requests of the other users do not touch the shelf.
LEMMA OthersStutter ==
  ASSUME IInv, SafeInv, TypeOK', NEW q \in Req, user[q] \notin Serial,
         (q \in Add /\ AddStep(q)) \/ (q \in Remove /\ RemoveStep(q))
  PROVE  UNCHANGED Shelf!shelfVars
<1>1. /\ UNCHANGED args
      /\ \A r \in Req \ {q} : UNCHANGED <<pc[r], status[r], told[r]>>
  BY DEF AddStep, FindStock, FindExisting, CountRows, CreateRow, RemoveStep, FindOwn, DeleteRow,
         Recount, Goto, Respond, Refuse, IInv, TypeOK
<1>2. \/ rows' = rows
      \/ q \in Add /\ rows' = rows \cup {q}
      \/ q \in Remove /\ pc[q] = "delete" /\ rows' = rows \ {target[q]}
  BY DEF AddStep, FindStock, FindExisting, CountRows, CreateRow, RemoveStep, FindOwn, DeleteRow,
         Recount
<1>3. q \in Remove /\ pc[q] = "delete" => user[target[q]] \notin Serial
  BY DEF SafeInv, OwnChecked
<1>4. \A x \in Add : user[x] \in Serial => (x \in rows' <=> x \in rows)
  BY <1>2, <1>3
<1> QED BY <1>1, <1>4, Stutters

\* Requests of users who wait are steps of the shelf, for all interleavings with
\* each other, with failures and with the requests of the other users.
THEOREM ImplementsShelf == Spec => AsIfAtomic
<1>1. Init => Shelf!ShelfInit
  <2> SUFFICES ASSUME Init PROVE Shelf!ShelfInit
    OBVIOUS
  <2>1. \A r \in Req : AnswerOf(r) = [status |-> "none", told |-> 0]
    BY DEF Init, AnswerOf
  <2> QED BY <2>1 DEF Init, Shelf!ShelfInit, Shelf!Open, Shelf!Answered
<1>2. IInv /\ SafeInv /\ FoundStill /\ Unanswered /\ [Next]_listVars =>
        [Shelf!ShelfNext]_(Shelf!shelfVars)
  <2> SUFFICES ASSUME IInv, SafeInv, FoundStill, Unanswered, [Next]_listVars
               PROVE  Shelf!ShelfNext \/ UNCHANGED Shelf!shelfVars
    OBVIOUS
  <2>0. TypeOK'
    BY TypeStep DEF IInv
  <2>1. ASSUME NEW a \in Add, AddStep(a)
        PROVE  Shelf!ShelfNext \/ UNCHANGED Shelf!shelfVars
    BY <2>0, <2>1, AddMaps, OthersStutter
  <2>2. ASSUME NEW d \in Remove, RemoveStep(d)
        PROVE  Shelf!ShelfNext \/ UNCHANGED Shelf!shelfVars
    BY <2>0, <2>2, RemoveMaps, OthersStutter
  <2>3. ASSUME NEW r \in Req, Submit(r) PROVE UNCHANGED Shelf!shelfVars
    <3>1. /\ UNCHANGED <<rows, args, status, told>>
          /\ \A s \in Req : pc'[s] = "recount" <=> pc[s] = "recount"
      BY <2>3 DEF Submit, Goto, IInv, TypeOK
    <3> QED BY <2>0, <3>1, Stutters
  <2>4. ASSUME NEW r \in Req, QueryFails(r)
        PROVE  Shelf!ShelfNext \/ UNCHANGED Shelf!shelfVars
    <3>1. UNCHANGED args /\ rows' = rows /\ Running(r) /\ Respond(r, "error", 0)
      BY <2>4 DEF QueryFails, Refuse
    <3>2. CASE user[r] \in Serial
      <4>1. Shelf!Asks(r) /\ Shelf!Lose(r)
        BY <3>1, <3>2, AnswerMaps, ShelfStays DEF Shelf!Lose
      <4> QED BY <3>1, <4>1 DEF Shelf!ShelfNext, args
    <3>3. CASE user[r] \notin Serial
      <4>1. \A s \in Req \ {r} : UNCHANGED <<pc[s], status[s], told[s]>>
        BY <3>1 DEF Respond, Goto, IInv, TypeOK
      <4> QED BY <2>0, <3>1, <3>3, <4>1, Stutters
    <3> QED BY <3>2, <3>3
  <2>5. CASE UNCHANGED listVars
    <3>1. UNCHANGED <<rows, args, pc, status, told>>
      BY <2>5 DEF listVars
    <3> QED BY <2>0, <3>1, Stutters
  <2> QED BY <2>1, <2>2, <2>3, <2>4, <2>5 DEF Next
<1> QED BY <1>1, <1>2, Invariance, Safe, FoundHolds, PTL
        DEF Spec, AsIfAtomic, Shelf!ShelfSpec
=============================================================================
