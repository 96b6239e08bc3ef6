---------------------------- MODULE MCPositions ----------------------------
(* Model-checking instance of Positions: stocks 1 and 2, which share a code, *)
(* the pseudo stock 3, and 4, which does not exist.  Quantities in tenths.   *)
EXTENDS Positions, TLC

Symmetry ==
  Permutations(User) \cup Permutations(Create) \cup Permutations(Update)

MCCodeOf == <<"shared", "shared", "GLOBAL", "none">>

MCIdOf == "1" :> 1 @@ "2" :> 2 @@ "3" :> 3 @@ "4" :> 4 @@ "01" :> 1 @@ "02" :> 2 @@ "x" :> NaN

Buy(k, p, q) == [key |-> k, price |-> p, qty |-> q]

MCBody ==
  { <<>>, <<Buy("1", 7, 10), Buy("2", 5, 10), Buy("1", 3, 25)>>,
    <<Buy("2", 5, -40), Buy("1", 4, 10), Buy("2", 4, 10)>>,
    <<Buy("1", 1, 10), Buy("1", 2, -10)>>, <<Buy("3", 1, 10)>>,
    <<Buy("1", 3, 10), Buy("4", 1, 10)>>, <<Buy("02", 5, 3), Buy("01", 4, 10)>>,
    <<Buy("02", 2, 10), Buy("2", 1, 10)>>, <<Buy("x", 1, 10)>> }

MCPatch ==
  { [qty |-> Absent, avg |-> Absent], [qty |-> Given(15), avg |-> Absent],
    [qty |-> Absent, avg |-> Given(9)] }

MCPlan ==
  { [code |-> s[1], haveAvg |-> s[2], haveQty |-> 10, price |-> 50, qty |-> 20] :
      s \in {<<"shared", 90>>, <<"shared", 1>>, <<"none", 90>>} }

\* At most this many requests in a behaviour, a creation counting twice.
MaxCalls == 5
Started(kind) == Cardinality({r \in kind : pc[r] # "idle"})
FewCalls == Started(Req) + Started(Create) <= MaxCalls
=============================================================================
