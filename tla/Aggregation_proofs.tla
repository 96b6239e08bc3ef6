-------------------------- MODULE Aggregation_proofs --------------------------
(***************************************************************************)
(* What holds in Positions and in MarketRollup for all values of their     *)
(* constants, and of the sums both compute: that sums over finite sets are *)
(* sums, however the summands are grouped.                                 *)
(***************************************************************************)
EXTENDS Positions, MarketRollup, FiniteSetTheorems, WellFoundedInduction, TLAPS

-----------------------------------------------------------------------------
(* Sums over finite sets *)

\* A nonempty set of numbers has a least one.
LEMMA LeastNat == ASSUME NEW N \in SUBSET Nat, N # {}
                  PROVE  \E n \in N : \A m \in N : n <= m
<1> DEFINE R == {x \in Nat \X Nat : x[1] < x[2]}
<1>1. IsWellFoundedOn(R, Nat)
  BY NatLessThanWellFounded, Zenon DEF OpToRel
<1> HIDE DEF R
<1>2. PICK n \in N : \A m \in N : ~(<<m, n>> \in R)
  BY <1>1, WFMin
<1>3. ASSUME NEW m \in N PROVE n <= m
  <2>1. m \in Nat /\ n \in Nat
    OBVIOUS
  <2>2. ~(m < n)
    BY <1>2, <2>1 DEF R
  <2> QED BY <2>1, <2>2
<1> QED BY <1>3

Chosen(s) == CHOOSE x \in s : TRUE
Sums(f, D, g) ==
  g = [s \in D |-> IF s = {} THEN 0 ELSE f[Chosen(s)] + g[s \ {Chosen(s)}]]
Small(S, n) == {s \in SUBSET S : Cardinality(s) <= n}

\* A sum is the value at the set of a function defined by recursion on its subsets.
LEMMA SumIsChosen == ASSUME NEW f, NEW S
  PROVE SumOver(f, S) = (CHOOSE g : Sums(f, SUBSET S, g))[S]
BY DEF SumOver, MapThenSumSet, MapThenFoldSet, Sums, Chosen

\* The element taken out first.
LEMMA ChosenIn == ASSUME NEW s, s # {} PROVE Chosen(s) \in s
BY DEF Chosen

\* Taking out an element makes a finite set smaller.
LEMMA Smaller == ASSUME NEW S, IsFiniteSet(S), NEW s \in SUBSET S, NEW x \in s
  PROVE /\ s \ {x} \in SUBSET S
        /\ Cardinality(s) \in Nat /\ Cardinality(s \ {x}) \in Nat
        /\ Cardinality(s \ {x}) = Cardinality(s) - 1
BY FS_Subset, FS_RemoveElement, FS_CardinalityType

\* There is such a function: one for the sets of up to n elements, for every n.
LEMMA SumsExist == ASSUME NEW f, NEW S, IsFiniteSet(S)
  PROVE \E g : Sums(f, SUBSET S, g)
<1> DEFINE Bad == {n \in Nat : ~ \E g : Sums(f, Small(S, n), g)}
<1>1. \A s \in SUBSET S : Cardinality(s) \in Nat
  BY FS_Subset, FS_CardinalityType
<1>2. Bad = {}
  <2>1. SUFFICES ASSUME Bad # {} PROVE FALSE
    OBVIOUS
  <2>2. PICK n \in Bad : \A m \in Bad : n <= m
    BY <2>1, LeastNat
  <2>3. CASE n = 0
    <3>1. \A s \in Small(S, 0) : s = {}
      BY <1>1, FS_EmptySet, FS_Subset DEF Small
    <3>2. Sums(f, Small(S, 0), [s \in Small(S, 0) |-> 0])
      BY <3>1 DEF Sums
    <3> QED BY <2>2, <2>3, <3>2
  <2>4. CASE n # 0
    <3>1. n - 1 \in Nat /\ n - 1 \notin Bad
      BY <2>2, <2>4
    <3>2. PICK g : Sums(f, Small(S, n - 1), g)
      BY <3>1
    <3> DEFINE h == [s \in Small(S, n) |->
                       IF s = {} THEN 0 ELSE f[Chosen(s)] + g[s \ {Chosen(s)}]]
    <3>3. ASSUME NEW s \in Small(S, n), s # {}
          PROVE  s \ {Chosen(s)} \in Small(S, n - 1) /\ s \ {Chosen(s)} \in Small(S, n)
      BY <1>1, <2>2, <3>3, ChosenIn, Smaller DEF Small
    <3>4. ASSUME NEW s \in Small(S, n - 1) PROVE s \in Small(S, n) /\ h[s] = g[s]
      <4>1. s \in Small(S, n)
        BY <1>1, <2>2 DEF Small
      <4> QED BY <3>2, <4>1 DEF Sums
    <3>5. h = [s \in Small(S, n) |->
                       IF s = {} THEN 0 ELSE f[Chosen(s)] + h[s \ {Chosen(s)}]]
      BY <3>3, <3>4
    <3> QED BY <2>2, <3>5 DEF Sums
  <2> QED BY <2>3, <2>4
<1>3. Small(S, Cardinality(S)) = SUBSET S
  BY FS_Subset DEF Small
<1>4. Cardinality(S) \in Nat
  BY FS_CardinalityType
<1>5. \E g : Sums(f, Small(S, Cardinality(S)), g)
  BY <1>2, <1>4
<1> QED BY <1>3, <1>5

\* Induction over the subsets of a finite set.
LEMMA SmallestSubset ==
  ASSUME NEW S, IsFiniteSet(S), NEW C \in SUBSET (SUBSET S), C # {}
  PROVE  \E s \in C : \A x \in s : s \ {x} \notin C
<1>1. \A s \in SUBSET S : Cardinality(s) \in Nat
  BY FS_Subset, FS_CardinalityType
<1> DEFINE N == {Cardinality(s) : s \in C}
<1>2. PICK n \in N : \A m \in N : n <= m
  <2>1. N \in SUBSET Nat /\ N # {}
    BY <1>1
  <2> QED BY <2>1, LeastNat
<1>3. PICK s \in C : n = Cardinality(s)
  OBVIOUS
<1>4. ASSUME NEW x \in s, s \ {x} \in C PROVE FALSE
  <2>1. Cardinality(s \ {x}) \in N
    BY <1>4
  <2>2. /\ Cardinality(s) \in Nat /\ Cardinality(s \ {x}) \in Nat
        /\ Cardinality(s \ {x}) = Cardinality(s) - 1
    <3> HIDE DEF N
    <3> QED BY Smaller
  <2> QED BY <1>2, <1>3, <2>1, <2>2
<1> QED BY <1>4

\* Its values are numbers.
LEMMA SumsTyped ==
  ASSUME NEW f, NEW S, IsFiniteSet(S), \A x \in S : f[x] \in Int,
         NEW g, Sums(f, SUBSET S, g)
  PROVE  \A s \in SUBSET S : g[s] \in Int
<1> DEFINE C == {s \in SUBSET S : g[s] \notin Int}
<1>1. SUFFICES ASSUME C # {} PROVE FALSE
  OBVIOUS
<1>2. PICK s \in C : \A x \in s : s \ {x} \notin C
  BY <1>1, SmallestSubset
<1>3. s # {}
  BY <1>2 DEF Sums
<1>4. Chosen(s) \in s /\ g[s \ {Chosen(s)}] \in Int
  BY <1>2, <1>3, ChosenIn
<1>5. g[s] = f[Chosen(s)] + g[s \ {Chosen(s)}]
  BY <1>2, <1>3 DEF Sums
<1> QED BY <1>2, <1>4, <1>5

\* A sum of numbers is a number.
THEOREM SumOverInt ==
  ASSUME NEW f, NEW S, IsFiniteSet(S), \A x \in S : f[x] \in Int
  PROVE  SumOver(f, S) \in Int
<1> DEFINE g == CHOOSE g : Sums(f, SUBSET S, g)
<1>1. Sums(f, SUBSET S, g)
  BY SumsExist
<1>2. g[S] \in Int
  <2> HIDE DEF g
  <2> QED BY <1>1, SumsTyped
<1> QED BY <1>2, SumIsChosen

\* The values of a function on a finite set are finitely many.
LEMMA ImageFinite ==
  ASSUME NEW S, IsFiniteSet(S), NEW f
  PROVE  IsFiniteSet({f[x] : x \in S})
<1> DEFINE Of(s) == {f[x] : x \in s}
           C == {s \in SUBSET S : ~IsFiniteSet(Of(s))}
<1>1. SUFFICES ASSUME C # {} PROVE FALSE
  OBVIOUS
<1>2. PICK s \in C : \A x \in s : s \ {x} \notin C
  BY <1>1, SmallestSubset
<1>3. Of({}) = {}
  OBVIOUS
<1>4. s # {}
  BY <1>2, <1>3, FS_EmptySet
<1>5. PICK x \in s : TRUE
  BY <1>4
<1>6. Of(s) = Of(s \ {x}) \cup {f[x]} /\ IsFiniteSet(Of(s \ {x}))
  BY <1>2, <1>5
<1> DEFINE rest == Of(s \ {x})
<1>7. Of(s) = rest \cup {f[x]} /\ IsFiniteSet(rest)
  BY <1>6
<1> HIDE DEF Of, rest
<1>8. IsFiniteSet(rest \cup {f[x]})
  BY <1>7, FS_AddElement
<1> QED BY <1>2, <1>7, <1>8

SubsetSums(f, S, g) == Sums(f, SUBSET S, g)
Agree(f, h, S) == \A x \in S : f[x] = h[x]

\* Sums of two functions agree wherever the functions do.
LEMMA SumsAgree ==
  ASSUME NEW S, NEW T, NEW U, U \subseteq S, U \subseteq T, IsFiniteSet(U),
         NEW f, NEW h, Agree(f, h, U),
         NEW g, SubsetSums(f, S, g), NEW k, SubsetSums(h, T, k)
  PROVE  g[U] = k[U]
<1> DEFINE C == {s \in SUBSET U : g[s] # k[s]}
<1>1. SUFFICES ASSUME C # {} PROVE FALSE
  OBVIOUS
<1>2. PICK s \in C : \A x \in s : s \ {x} \notin C
  BY <1>1, SmallestSubset
<1>3. s \in SUBSET S /\ s \in SUBSET T /\ s \in SUBSET U
  OBVIOUS
<1>4. s # {}
  BY <1>2, <1>3 DEF Sums, SubsetSums
<1>5. Chosen(s) \in s /\ g[s \ {Chosen(s)}] = k[s \ {Chosen(s)}] /\ f[Chosen(s)] = h[Chosen(s)]
  BY <1>2, <1>3, <1>4, ChosenIn DEF Agree
<1>6. /\ g[s] = f[Chosen(s)] + g[s \ {Chosen(s)}]
      /\ k[s] = h[Chosen(s)] + k[s \ {Chosen(s)}]
  BY <1>3, <1>4 DEF Sums, SubsetSums
<1> QED BY <1>2, <1>5, <1>6

\* The order in which a sum takes the elements does not matter.
LEMMA SumsAny ==
  ASSUME NEW f, NEW S, IsFiniteSet(S), \A x \in S : f[x] \in Int,
         NEW g, Sums(f, SUBSET S, g)
  PROVE  \A s \in SUBSET S : \A x \in s : g[s] = f[x] + g[s \ {x}]
<1> DEFINE C == {s \in SUBSET S : \E x \in s : g[s] # f[x] + g[s \ {x}]}
<1>1. SUFFICES ASSUME C # {} PROVE FALSE
  OBVIOUS
<1>2. PICK s \in C : \A x \in s : s \ {x} \notin C
  BY <1>1, SmallestSubset
<1>3. PICK x \in s : g[s] # f[x] + g[s \ {x}]
  OBVIOUS
<1> DEFINE c == Chosen(s)
<1>4. c \in s /\ g[s] = f[c] + g[s \ {c}]
  BY <1>2, <1>3, ChosenIn DEF Sums
<1> HIDE DEF c
<1>5. c # x
  BY <1>3, <1>4
<1>6. g[s \ {c}] = f[x] + g[(s \ {c}) \ {x}]
  BY <1>2, <1>4, <1>5
<1>7. g[s \ {x}] = f[c] + g[(s \ {x}) \ {c}]
  BY <1>2, <1>4, <1>5
<1>8. (s \ {c}) \ {x} = (s \ {x}) \ {c}
  OBVIOUS
<1>9. f[x] \in Int /\ f[c] \in Int /\ g[(s \ {x}) \ {c}] \in Int
  BY <1>2, <1>4, SumsTyped
<1>10. g[s] = f[c] + (f[x] + g[(s \ {x}) \ {c}])
  BY <1>4, <1>6, <1>8
<1>11. g[s] = f[x] + g[s \ {x}]
  BY <1>7, <1>9, <1>10
<1> QED BY <1>3, <1>11

\* Nothing sums up to zero.
LEMMA SumOverEmpty == ASSUME NEW f PROVE SumOver(f, {}) = 0
<1> DEFINE g == CHOOSE g : Sums(f, SUBSET {}, g)
<1>1. Sums(f, SUBSET {}, g)
  BY SumsExist, FS_EmptySet
<1>2. g[{}] = 0
  <2> HIDE DEF g
  <2> QED BY <1>1 DEF Sums
<1> QED BY <1>2, SumIsChosen

\* A sum depends on the values that it sums up only.
LEMMA SumOverSame ==
  ASSUME NEW f, NEW h, NEW S, IsFiniteSet(S), \A x \in S : f[x] = h[x]
  PROVE  SumOver(f, S) = SumOver(h, S)
<1> DEFINE g == CHOOSE g : Sums(f, SUBSET S, g)
           k == CHOOSE k : Sums(h, SUBSET S, k)
<1>1. SubsetSums(f, S, g) /\ SubsetSums(h, S, k)
  BY SumsExist DEF SubsetSums
<1>2. g[S] = k[S]
  <2> HIDE DEF g, k
  <2>1. S \subseteq S /\ Agree(f, h, S)
    BY DEF Agree
  <2> QED BY <1>1, <2>1, SumsAgree
<1> QED BY <1>2, SumIsChosen

\* One more element adds its value to a sum.
THEOREM SumOverAdd ==
  ASSUME NEW f, NEW S, IsFiniteSet(S), NEW x, x \notin S, \A y \in S \cup {x} : f[y] \in Int
  PROVE  SumOver(f, S \cup {x}) = f[x] + SumOver(f, S)
<1> DEFINE T == S \cup {x}
           g == CHOOSE g : Sums(f, SUBSET S, g)
           k == CHOOSE k : Sums(f, SUBSET T, k)
<1>1. IsFiniteSet(T)
  BY FS_AddElement
<1>2. Sums(f, SUBSET S, g) /\ Sums(f, SUBSET T, k)
  <2> HIDE DEF T
  <2> QED BY <1>1, SumsExist
<1>3. SumOver(f, S) = g[S] /\ SumOver(f, T) = k[T]
  <2> HIDE DEF T
  <2> QED BY SumIsChosen
<1> HIDE DEF g, k
<1>4. g[S] = k[S]
  <2>1. S \subseteq T
    OBVIOUS
  <2> HIDE DEF T
  <2>2. SubsetSums(f, S, g) /\ SubsetSums(f, T, k) /\ Agree(f, f, S)
    BY <1>2 DEF SubsetSums, Agree
  <2> QED BY <2>1, <2>2, SumsAgree
<1>5. k[T] = f[x] + k[T \ {x}]
  <2>1. T \in SUBSET T /\ x \in T /\ \A y \in T : f[y] \in Int
    OBVIOUS
  <2> HIDE DEF T
  <2> QED BY <1>1, <1>2, <2>1, SumsAny
<1>6. T \ {x} = S
  OBVIOUS
<1> QED BY <1>3, <1>4, <1>5, <1>6

\* The sum over two disjoint sets is the sum of the sums.
LEMMA SumOverUnion ==
  ASSUME NEW f, NEW S, IsFiniteSet(S), NEW T, IsFiniteSet(T), S \cap T = {},
         \A x \in S \cup T : f[x] \in Int
  PROVE  SumOver(f, S \cup T) = SumOver(f, S) + SumOver(f, T)
<1> DEFINE C == {s \in SUBSET T : SumOver(f, S \cup s) # SumOver(f, S) + SumOver(f, s)}
<1>1. SUFFICES ASSUME C # {} PROVE FALSE
  OBVIOUS
<1>2. PICK s \in C : \A x \in s : s \ {x} \notin C
  BY <1>1, SmallestSubset
<1>3. SumOver(f, S) \in Int
  BY SumOverInt
<1>4. s # {}
  <2>1. S \cup {} = S
    OBVIOUS
  <2> QED BY <1>2, <1>3, <2>1, SumOverEmpty
<1>5. PICK x \in s : TRUE
  BY <1>4
<1> DEFINE r == s \ {x}
<1>6. /\ s = r \cup {x} /\ S \cup s = (S \cup r) \cup {x} /\ x \notin r /\ x \notin S \cup r
      /\ r \in SUBSET T /\ s \in SUBSET T /\ r \notin C
  BY <1>2, <1>5
<1>7. IsFiniteSet(r) /\ IsFiniteSet(S \cup r)
  BY <1>6, FS_Subset, FS_Union
<1> HIDE DEF r
<1>8. SumOver(f, S \cup r) = SumOver(f, S) + SumOver(f, r) /\ SumOver(f, r) \in Int
  BY <1>6, <1>7, SumOverInt
<1>9. SumOver(f, s) = f[x] + SumOver(f, r)
  <2>1. \A y \in r \cup {x} : f[y] \in Int
    BY <1>6
  <2> QED BY <1>6, <1>7, <2>1, SumOverAdd
<1>10. SumOver(f, S \cup s) = f[x] + SumOver(f, S \cup r)
  <2>1. \A y \in (S \cup r) \cup {x} : f[y] \in Int
    BY <1>6
  <2> QED BY <1>6, <1>7, <2>1, SumOverAdd
<1>11. f[x] \in Int
  BY <1>6
<1> QED BY <1>2, <1>3, <1>8, <1>9, <1>10, <1>11

\* The sum over the parts of a set is the sum of the sums of the parts, each
\* counted by something that stands for it.
THEOREM SumOverParts ==
  ASSUME NEW M, IsFiniteSet(M), NEW T, IsFiniteSet(T),
         NEW f, \A t \in T : f[t] \in Int,
         NEW part, \A m \in M : part[m] \in SUBSET T,
         \A m, n \in M : m # n => part[m] \cap part[n] = {},
         NEW bar, \A m, n \in M : bar[m] = bar[n] => m = n,
         NEW vol, \A m \in M : vol[bar[m]] = SumOver(f, part[m])
  PROVE  SumOver(f, UNION {part[m] : m \in M}) = SumOver(vol, {bar[m] : m \in M})
<1> DEFINE All(N) == UNION {part[m] : m \in N}
           Them(N) == {bar[m] : m \in N}
           C == {N \in SUBSET M : SumOver(f, All(N)) # SumOver(vol, Them(N))}
<1>1. SUFFICES ASSUME C # {} PROVE FALSE
  OBVIOUS
<1>2. PICK N \in C : \A m \in N : N \ {m} \notin C
  BY <1>1, SmallestSubset
<1>3. N # {}
  <2>1. All({}) = {} /\ Them({}) = {}
    OBVIOUS
  <2> QED BY <1>2, <2>1, SumOverEmpty
<1>4. PICK m \in N : TRUE
  BY <1>3
<1> DEFINE R == N \ {m}
<1>5. /\ All(N) = All(R) \cup part[m] /\ All(R) \cap part[m] = {}
      /\ Them(N) = Them(R) \cup {bar[m]} /\ bar[m] \notin Them(R)
      /\ All(R) \subseteq T /\ part[m] \subseteq T
  BY <1>4
<1>6. IsFiniteSet(All(R)) /\ IsFiniteSet(part[m])
  BY <1>5, FS_Subset
<1>7. IsFiniteSet(Them(R))
  <2>1. IsFiniteSet(R)
    BY FS_Subset
  <2> HIDE DEF R
  <2> QED BY <2>1, ImageFinite
<1>8. \A n \in M : SumOver(f, part[n]) \in Int
  <2> SUFFICES ASSUME NEW n \in M PROVE SumOver(f, part[n]) \in Int
    OBVIOUS
  <2>1. IsFiniteSet(part[n]) /\ \A t \in part[n] : f[t] \in Int
    BY FS_Subset
  <2> QED BY <2>1, SumOverInt
<1>9. SumOver(f, All(R)) = SumOver(vol, Them(R))
  BY <1>2, <1>4
<1>10. \A b \in Them(R) \cup {bar[m]} : vol[b] \in Int
  BY <1>4, <1>8
<1> HIDE DEF All, Them, R
<1>11. SumOver(f, All(R) \cup part[m]) = SumOver(f, All(R)) + SumOver(f, part[m])
  <2>1. \A t \in All(R) \cup part[m] : f[t] \in Int
    BY <1>5
  <2> QED BY <1>5, <1>6, <2>1, SumOverUnion
<1>12. SumOver(vol, Them(R) \cup {bar[m]}) = vol[bar[m]] + SumOver(vol, Them(R))
  BY <1>5, <1>7, <1>10, SumOverAdd
<1>13. SumOver(vol, Them(R)) \in Int
  BY <1>7, <1>10, SumOverInt
<1>14. vol[bar[m]] = SumOver(f, part[m]) /\ SumOver(f, part[m]) \in Int
  BY <1>4, <1>8
<1>15. SumOver(f, All(N)) = SumOver(vol, Them(N))
  BY <1>5, <1>9, <1>11, <1>12, <1>13, <1>14
<1> QED BY <1>2, <1>15

\* One of finitely many elements has the greatest value.
LEMMA Greatest ==
  ASSUME NEW S, IsFiniteSet(S), S # {}, NEW f, \A x \in S : f[x] \in Int
  PROVE  \E x \in S : \A y \in S : f[y] <= f[x]
<1> DEFINE Above(x) == {y \in S : f[y] > f[x]}
           N == {Cardinality(Above(x)) : x \in S}
<1>1. \A x \in S : IsFiniteSet(Above(x)) /\ Cardinality(Above(x)) \in Nat
  BY FS_Subset, FS_CardinalityType
<1>2. PICK n \in N : \A m \in N : n <= m
  <2>1. N \in SUBSET Nat /\ N # {}
    BY <1>1
  <2> QED BY <2>1, LeastNat
<1>3. PICK x \in S : n = Cardinality(Above(x))
  OBVIOUS
<1>4. ASSUME NEW y \in S, ~(f[y] <= f[x]) PROVE FALSE
  <2>1. Above(y) \subseteq Above(x) /\ y \in Above(x) /\ y \notin Above(y)
    BY <1>4
  <2>2. Cardinality(Above(y)) \in N
    OBVIOUS
  <2>3. IsFiniteSet(Above(x)) /\ Cardinality(Above(x)) \in Nat /\ Cardinality(Above(y)) \in Nat
    BY <1>1
  <2> HIDE DEF Above, N
  <2>4. /\ Cardinality(Above(y)) <= Cardinality(Above(x))
        /\ Cardinality(Above(y)) # Cardinality(Above(x))
    BY <2>1, <2>3, FS_Subset
  <2> QED BY <1>2, <1>3, <2>2, <2>3, <2>4
<1> QED BY <1>4

\* And one has the least.
LEMMA Least ==
  ASSUME NEW S, IsFiniteSet(S), S # {}, NEW f, \A x \in S : f[x] \in Int
  PROVE  \E x \in S : \A y \in S : f[x] <= f[y]
<1> DEFINE h == [x \in S |-> -f[x]]
<1>1. \A x \in S : h[x] = -f[x] /\ h[x] \in Int
  OBVIOUS
<1> HIDE DEF h
<1>2. PICK x \in S : \A y \in S : h[y] <= h[x]
  BY <1>1, Greatest
<1>3. \A y \in S : f[x] <= f[y]
  BY <1>1, <1>2
<1> QED BY <1>3

-----------------------------------------------------------------------------
(* Positions: the inductive invariant *)

Running(c) == pc[c] \in {"stock", "existing", "insert", "commit"}
Holding == UNION {[S -> Row] : S \in SUBSET Stock}

\* The variables' types, as far as the arguments and the answers matter.
Typed ==
  /\ DOMAIN table \subseteq Id /\ table \in [DOMAIN table -> Row]
  /\ held \in [Create -> Holding] /\ left \in [Create -> SUBSET Key]
  /\ call = [r \in Req |-> call[r]]
  /\ seen = [r \in Update \cup Simulate |-> seen[r]]
  /\ DOMAIN saved \subseteq Simulate /\ saved = [m \in DOMAIN saved |-> saved[m]]
  /\ pc \in [Req -> {"idle", "stock", "existing", "insert", "commit", "find", "write", "done"}]
  /\ \A c \in Create : Running(c) => call[c].user \in User /\ call[c].body \in Body
  /\ \A r \in Update : pc[r] \in {"find", "write"} => call[r].patch \in Patch
  /\ \A r \in Update : pc[r] = "write" => seen[r] \in Row

\* Only finitely many creations have been asked for.
FewStarted == IsFiniteSet({c \in Create : pc[c] # "idle"})

\* What Number makes of some keys.
IdsOf(K) == {IdOf[k] : k \in K}

\* What a creation has inserted and what it has still to process make up its body;
\* stocks named by numbers are processed in ascending order.
Progress ==
  \A c \in Create :
    /\ ~Running(c) => held[c] = <<>>
    /\ Running(c) => /\ left[c] \subseteq KeysOf(call[c].body)
                     /\ DOMAIN held[c] \cup IdsOf(left[c]) = StocksOf(call[c].body)
    /\ pc[c] \in {"stock", "existing", "insert"} => left[c] # {}
    /\ pc[c] = "commit" => left[c] = {}
    /\ Running(c) /\ ByNumber(c) => \A s \in DOMAIN held[c], k \in left[c] : s < IdOf[k]

\* The rows of a creation are its caller's, one for each stock.
HeldOwn ==
  \A c \in Create : \A s \in DOMAIN held[c] :
    held[c][s].user = call[c].user /\ held[c][s].stock = s

\* The columns of a row agree up to the rounding of one of them.
Consistent(row) ==
  2 * Abs(row.qty * row.avg - row.total) <= IF Abs(row.qty) < Unit THEN Unit ELSE Abs(row.qty)

RowsConsistent ==
  /\ \A id \in DOMAIN table : Consistent(table[id])
  /\ \A c \in Create : \A s \in DOMAIN held[c] : Consistent(held[c][s])

\* Ids are those of committed creations: none is used again.
OldIds ==
  /\ \A id \in DOMAIN table : pc[id[1]] = "done"
  /\ \A m \in Simulate : pc[m] = "write" =>
       \A id \in seen[m].position : id \in Id /\ pc[id[1]] = "done"

\* A user has one position in a stock, the uncommitted ones included.
OnePosition ==
  /\ \A i, j \in DOMAIN table :
       table[i].user = table[j].user /\ table[i].stock = table[j].stock => i = j
  /\ \A c \in Create : \A s \in DOMAIN held[c] : ~Taken(call[c].user, s)
  /\ \A c, d \in Create : \A s \in DOMAIN held[c] \cap DOMAIN held[d] :
       call[c].user = call[d].user => c = d

\* The row id is a position, in a stock of the simulated code, of the user who
\* runs m.
Fits(m, id) ==
  table[id].user = call[m].user /\ CodeOf[table[id].stock] = call[m].plan.code

\* A simulation that has looked its stock and its position up links at most that
\* position.
LinkFits ==
  /\ \A m \in Simulate : pc[m] = "write" =>
       /\ CodeOf[seen[m].stock] = call[m].plan.code
       /\ \A i, j \in seen[m].position : i = j
       /\ \A id \in seen[m].position \cap DOMAIN table : Fits(m, id)
  /\ \A m \in DOMAIN saved :
       /\ pc[m] = "done" /\ CodeOf[saved[m].stock] = call[m].plan.code
       /\ \A i, j \in saved[m].position : i = j
       /\ \A id \in saved[m].position : id \in DOMAIN table /\ Fits(m, id)

\* A creation that is past the check of its current stock has found it.
StockFound == \A c \in Create : pc[c] \in {"existing", "insert"} => StockId(c) \in Stock

\* The inductive invariant, together with StockFound.
PositionsInv ==
  /\ Typed /\ FewStarted /\ Progress /\ HeldOwn /\ RowsConsistent
  /\ OldIds /\ OnePosition /\ LinkFits

-----------------------------------------------------------------------------
(* Positions: what its operators return *)

\* Math.round is off by at most a half.
LEMMA RoundDivBound ==
  ASSUME NEW n \in Int, NEW d \in Int, d # 0
  PROVE  RoundDiv(n, d) \in Int /\ 2 * Abs(d * RoundDiv(n, d) - n) <= Abs(d)
<1>1. CASE d > 0
  <2> DEFINE k == (2 * n + d) \div (2 * d)
  <2>1. k \in Int /\ (2 * d) * k <= 2 * n + d /\ 2 * n + d < (2 * d) * k + 2 * d
    BY <1>1
  <2>2. RoundDiv(n, d) = k
    BY <1>1 DEF RoundDiv
  <2> HIDE DEF k
  <2>3. (2 * d) * k = 2 * (d * k) /\ d * k \in Int
    BY <2>1
  <2> QED BY <1>1, <2>1, <2>2, <2>3 DEF Abs
<1>2. CASE d < 0
  <2> DEFINE e == -2 * d
             k == (-(2 * n + d)) \div e
  <2>1. e \in Int /\ e > 0 /\ -(2 * n + d) \in Int
    BY <1>2
  <2>2. k \in Int /\ e * k <= -(2 * n + d) /\ -(2 * n + d) < e * k + e
    <3> HIDE DEF e
    <3> QED BY <2>1
  <2>3. RoundDiv(n, d) = k
    BY <1>2 DEF RoundDiv
  <2> HIDE DEF k
  <2>4. e * k = -2 * (d * k) /\ d * k \in Int
    BY <2>2
  <2> QED BY <1>2, <2>2, <2>3, <2>4 DEF Abs
<1> QED BY <1>1, <1>2

\* The merged quantity and the merged amount are numbers.
LEMMA MergedNumbers ==
  ASSUME NEW body \in Body, NEW s
  PROVE  Quantity(body, s) \in Int /\ Invested(body, s) \in Int
<1> DEFINE qty == [i \in DOMAIN body |-> body[i].qty]
           paid == [i \in DOMAIN body |-> body[i].price * body[i].qty]
<1>1. body \in Seq(Purchase)
  BY PositionsAssumption
<1>2. \A i \in DOMAIN body : body[i] \in Purchase
  BY <1>1
<1>3. IsFiniteSet(Purchases(body, s))
  <2>1. DOMAIN body = 1 .. Len(body) /\ Len(body) \in Nat
    BY <1>1
  <2>2. IsFiniteSet(DOMAIN body)
    BY <2>1, FS_Interval
  <2> QED BY <2>2, FS_Subset DEF Purchases
<1>4. \A i \in Purchases(body, s) : qty[i] \in Int /\ paid[i] \in Int
  BY <1>2 DEF Purchases, Purchase
<1> HIDE DEF qty, paid
<1>5. SumOver(qty, Purchases(body, s)) \in Int /\ SumOver(paid, Purchases(body, s)) \in Int
  BY <1>3, <1>4, SumOverInt
<1> QED BY <1>5 DEF Quantity, Invested, qty, paid

\* The keys of a body.
LEMMA KeysOfBody ==
  ASSUME NEW body \in Body
  PROVE  /\ KeysOf(body) \in SUBSET Key /\ (body # <<>> => KeysOf(body) # {})
         /\ StocksOf(body) = IdsOf(KeysOf(body)) /\ DOMAIN body \subseteq Nat
<1>1. body \in Seq(Purchase)
  BY PositionsAssumption
<1>2. \A i \in DOMAIN body : body[i].key \in Key
  <2>1. \A i \in DOMAIN body : body[i] \in Purchase
    BY <1>1
  <2> QED BY <2>1 DEF Purchase
<1>3. ASSUME body # <<>> PROVE KeysOf(body) # {}
  <2>1. 1 \in DOMAIN body
    BY <1>1, <1>3
  <2> QED BY <2>1 DEF KeysOf
<1>4. DOMAIN body \subseteq Nat
  BY <1>1
<1> QED BY <1>2, <1>3, <1>4 DEF KeysOf, StocksOf, IdsOf

\* A new row is of its type and consistent.
LEMMA NewRowGood ==
  ASSUME NEW u \in User, NEW s \in Stock, NEW q \in Int, NEW t \in Int, q # 0
  PROVE  /\ NewRow(u, s, q, t) \in Row /\ Consistent(NewRow(u, s, q, t))
         /\ NewRow(u, s, q, t).user = u /\ NewRow(u, s, q, t).stock = s
<1>1. RoundDiv(t, q) \in Int /\ 2 * Abs(q * RoundDiv(t, q) - t) <= Abs(q)
  BY RoundDivBound
<1> DEFINE a == RoundDiv(t, q)
<1> HIDE DEF a
<1>2. Consistent([user |-> u, stock |-> s, qty |-> q, avg |-> a, total |-> t])
  <2>1. Abs(q) \in Int
    BY DEF Abs
  <2>2. 2 * Abs(q * a - t) <= Abs(q)
    BY <1>1 DEF a
  <2>3. 2 * Abs(q * a - t) <= IF Abs(q) < Unit THEN Unit ELSE Abs(q)
    <3>1. q * a - t \in Int
      BY <1>1 DEF a
    <3>2. Abs(q * a - t) \in Int
      BY <3>1 DEF Abs
    <3> QED BY <2>1, <2>2, <3>2, PositionsAssumption
  <2> QED BY <2>3 DEF Consistent
<1> QED BY <1>1, <1>2 DEF NewRow, Row, a

\* So is an updated one, which stays the user's row in the same stock.
LEMMA PatchedGood ==
  ASSUME NEW stored \in Row, NEW old \in Row, NEW p \in Patch
  PROVE  /\ Patched(stored, old, p) \in Row /\ Consistent(Patched(stored, old, p))
         /\ Patched(stored, old, p).user = stored.user
         /\ Patched(stored, old, p).stock = stored.stock
<1> DEFINE q == Either(p.qty, old.qty)
           a == Either(p.avg, old.avg)
           k == RoundDiv(q * a, Unit)
<1>1. q \in Int /\ a \in Int
  <2>1. old.qty \in Int /\ old.avg \in Int
    BY DEF Row
  <2>2. p.qty \in {p.qty, p.avg} /\ p.avg \in {p.qty, p.avg}
    OBVIOUS
  <2>3. /\ p.qty.given => p.qty.value \in Int
        /\ p.avg.given => p.avg.value \in Int
    BY <2>2, PositionsAssumption, Zenon
  <2> QED BY <2>1, <2>3 DEF Either
<1> HIDE DEF q, a
<1>2. q * a \in Int /\ Unit \in Int /\ Unit > 0
  BY <1>1, PositionsAssumption
<1> DEFINE m == q * a
<1>3. k \in Int /\ 2 * Abs(Unit * k - m) <= Abs(Unit)
  <2> HIDE DEF m
  <2> QED BY <1>2, RoundDivBound DEF m
<1> HIDE DEF k
<1>4. k * Unit \in Int /\ k * Unit = Unit * k
  BY <1>2, <1>3
<1> DEFINE new == Patched(stored, old, p)
<1>5. /\ new \in Row /\ new.user = stored.user /\ new.stock = stored.stock
      /\ new.qty = q /\ new.avg = a /\ new.total = k * Unit
  <2>1. new = [stored EXCEPT !.qty = q, !.avg = a, !.total = k * Unit]
    BY DEF Patched, q, a, k
  <2> DEFINE z == k * Unit
  <2> HIDE DEF new
  <2>2. z \in Int /\ new = [stored EXCEPT !.qty = q, !.avg = a, !.total = z]
    BY <1>4, <2>1
  <2> HIDE DEF z
  <2>3. /\ new \in Row /\ new.user = stored.user /\ new.stock = stored.stock
        /\ new.qty = q /\ new.avg = a /\ new.total = z
    BY <1>1, <2>2 DEF Row
  <2> QED BY <2>3 DEF z
<1>6. 2 * Abs(m - k * Unit) <= Unit
  <2> HIDE DEF m
  <2> QED BY <1>2, <1>3, <1>4 DEF Abs, m
<1> HIDE DEF new
<1>7. Consistent(new)
  <2>1. Abs(q) \in Int
    BY <1>1 DEF Abs
  <2>2. m - k * Unit \in Int /\ Abs(m - k * Unit) \in Int
    BY <1>2, <1>4 DEF Abs
  <2>3. 2 * Abs(m - k * Unit) <= IF Abs(q) < Unit THEN Unit ELSE Abs(q)
    <3> DEFINE x == Abs(m - k * Unit)
    <3> HIDE DEF x
    <3> QED BY <1>2, <1>6, <2>1, <2>2 DEF x
  <2> QED BY <1>5, <2>3 DEF Consistent
<1> QED BY <1>5, <1>7 DEF new

\* A creation processes a key of its that is left; named by numbers, the stock
\* with the least id.
LEMMA CurrentLeft ==
  ASSUME NEW c, NEW body \in Body, call[c].body = body, left[c] \subseteq KeysOf(body),
         left[c] # {}
  PROVE  /\ Current(c) \in left[c]
         /\ left[c] \subseteq Canonical => \A k \in left[c] : StockId(c) <= IdOf[k]
<1> DEFINE numbers == left[c] \cap Canonical
<1>1. CASE numbers # {}
  <2> DEFINE ids == {IdOf[k] : k \in numbers}
  <2>1. ids \in SUBSET Nat /\ ids # {}
    <3>1. \A k \in numbers : IdOf[k] \in Nat
      BY PositionsAssumption
    <3>2. PICK k : k \in numbers
      BY <1>1
    <3>3. IdOf[k] \in ids
      BY <3>2
    <3> QED BY <3>1, <3>3
  <2>2. PICK n \in ids : \A m \in ids : n <= m
    BY <2>1, LeastNat
  <2>3. \E k \in numbers : \A l \in numbers : IdOf[k] <= IdOf[l]
    BY <2>2
  <2>4. Current(c) \in numbers /\ \A l \in numbers : IdOf[Current(c)] <= IdOf[l]
    BY <1>1, <2>3 DEF Current
  <2> QED BY <2>4 DEF StockId
<1>2. CASE numbers = {}
  <2> DEFINE places == {i \in DOMAIN body : body[i].key \in left[c]}
  <2>1. places \in SUBSET Nat /\ places # {}
    <3>1. DOMAIN body \subseteq Nat
      BY KeysOfBody
    <3>2. PICK k : k \in left[c] /\ k \in KeysOf(body)
      OBVIOUS
    <3>3. PICK i \in DOMAIN body : body[i].key = k
      BY <3>2 DEF KeysOf
    <3>4. i \in places
      BY <3>2, <3>3
    <3> QED BY <3>1, <3>4
  <2>2. \E i \in places : \A j \in places : i <= j
    BY <2>1, LeastNat
  <2>3. (CHOOSE i \in places : \A j \in places : i <= j) \in places
    BY <2>2
  <2>4. Current(c) = FirstInBody(c)
    BY <1>2 DEF Current
  <2>5. Current(c) \in left[c]
    BY <2>3, <2>4 DEF FirstInBody
  <2> QED BY <1>2, <2>5
<1> QED BY <1>1, <1>2

\* A row more in the transaction of a creation.
LEMMA ExtendHolding ==
  ASSUME NEW h \in Holding, NEW s \in Stock, NEW v \in Row
  PROVE  /\ Extend(h, s, v) \in Holding
         /\ DOMAIN Extend(h, s, v) = DOMAIN h \cup {s}
         /\ Extend(h, s, v)[s] = v
         /\ \A t \in DOMAIN h \ {s} : Extend(h, s, v)[t] = h[t]
<1>1. DOMAIN h \in SUBSET Stock /\ h \in [DOMAIN h -> Row]
  BY DEF Holding
<1>2. DOMAIN h \cup {s} \in SUBSET Stock
  BY <1>1
<1>3. Extend(h, s, v) \in [DOMAIN h \cup {s} -> Row]
  BY <1>1 DEF Extend
<1> QED BY <1>2, <1>3 DEF Holding, Extend

\* A creation that has inserted nothing.
LEMMA NoRows == <<>> \in Holding /\ DOMAIN <<>> = {}
<1>1. DOMAIN <<>> = {}
  OBVIOUS
<1>2. <<>> \in [{} -> Row]
  OBVIOUS
<1> QED BY <1>1, <1>2 DEF Holding

-----------------------------------------------------------------------------
(* Positions: what its steps keep *)

\* Requests are of one kind each.
LEMMA Kinds ==
  /\ \A c \in Create : c \in Req /\ c \notin Update /\ c \notin Delete /\ c \notin Simulate
  /\ \A r \in Update : r \in Req /\ r \notin Create /\ r \notin Delete /\ r \notin Simulate
  /\ \A r \in Delete : r \in Req /\ r \notin Create /\ r \notin Update /\ r \notin Simulate
  /\ \A m \in Simulate : m \in Req /\ m \notin Create /\ m \notin Update /\ m \notin Delete
BY PositionsAssumption DEF Req

\* A step of one request starts one creation at most.
LEMMA FewMore ==
  ASSUME FewStarted, NEW c, \A d \in Create \ {c} : pc'[d] = pc[d]
  PROVE  FewStarted'
<1> DEFINE S == {d \in Create : pc[d] # "idle"}
           T == {d \in Create : pc'[d] # "idle"}
<1>1. T \subseteq S \cup {c}
  OBVIOUS
<1>2. IsFiniteSet(S \cup {c})
  BY FS_AddElement DEF FewStarted
<1>3. IsFiniteSet(T)
  <2> HIDE DEF S, T
  <2> QED BY <1>1, <1>2, FS_Subset
<1> QED BY <1>3 DEF FewStarted

\* Steps of other requests leave the simulations alone.
LEMMA LinksStay ==
  ASSUME Typed, LinkFits, UNCHANGED <<table, seen, saved>>,
         \A m \in Simulate : pc'[m] = pc[m] /\ call'[m] = call[m]
  PROVE  LinkFits'
<1>1. \A m \in DOMAIN saved : m \in Simulate
  BY DEF Typed
<1>2. \A m \in Simulate : \A id : Fits(m, id)' <=> Fits(m, id)
  BY DEF Fits
<1> QED BY <1>1, <1>2 DEF LinkFits

\* A rollback.
LEMMA RollbackKeeps ==
  ASSUME PositionsInv, NEW c \in Create, NEW s, Running(c), Rollback(c, s)
  PROVE  PositionsInv'
<1> USE DEF PositionsInv
<1>1. /\ pc' = [pc EXCEPT ![c] = "done"] /\ held' = [held EXCEPT ![c] = <<>>]
      /\ left' = [left EXCEPT ![c] = {}] /\ UNCHANGED <<table, call, seen, saved>>
  BY DEF Rollback, Answer
<1>2. /\ pc'[c] = "done" /\ held'[c] = <<>> /\ left'[c] = {}
      /\ \A r \in Req \ {c} : pc'[r] = pc[r]
      /\ \A d \in Create \ {c} : held'[d] = held[d] /\ left'[d] = left[d]
  BY <1>1, Kinds DEF Typed
<1>3. Typed'
  <2>1. held' \in [Create -> Holding] /\ left' \in [Create -> SUBSET Key]
    BY <1>1, NoRows DEF Typed
  <2>2. pc' \in [Req -> {"idle", "stock", "existing", "insert", "commit",
                         "find", "write", "done"}]
    BY <1>1 DEF Typed
  <2>3. /\ \A d \in Create : Running(d)' => Running(d)
        /\ \A r \in Update : pc'[r] = pc[r]
    BY <1>2, Kinds DEF Running
  <2> QED BY <1>1, <2>1, <2>2, <2>3 DEF Typed
<1>4. FewStarted'
  BY <1>2, FewMore, Kinds
<1>5. Progress'
  BY <1>1, <1>2, NoRows, Kinds DEF Progress, Running, ByNumber
<1>6. HeldOwn'
  BY <1>1, <1>2, NoRows DEF HeldOwn
<1>7. RowsConsistent'
  BY <1>1, <1>2, NoRows DEF RowsConsistent
<1>8. OldIds'
  BY <1>1, <1>2, Kinds DEF OldIds, Typed, Id, Running
<1>9. OnePosition'
  BY <1>1, <1>2, NoRows DEF OnePosition, Taken, Owned, PositionsOf
<1>10. LinkFits'
  BY <1>1, <1>2, Kinds, LinksStay
<1> QED BY <1>3, <1>4, <1>5, <1>6, <1>7, <1>8, <1>9, <1>10

\* A step of a creation on to its next query.
LEMMA ContinueKeeps ==
  ASSUME PositionsInv, NEW c \in Create, NEW step \in {"existing", "insert"},
         pc[c] \in {"stock", "existing"}, Continue(c, step)
  PROVE  PositionsInv'
<1> USE DEF PositionsInv
<1>1. pc' = [pc EXCEPT ![c] = step] /\ UNCHANGED <<table, held, left, call, seen, saved>>
  BY DEF Continue, Goto
<1>2. pc'[c] = step /\ \A r \in Req \ {c} : pc'[r] = pc[r]
  BY <1>1, Kinds DEF Typed
<1>3. Typed'
  BY <1>1, <1>2, Kinds DEF Typed, Running
<1>4. FewStarted'
  BY <1>2, FewMore, Kinds
<1>5. Progress'
  BY <1>1, <1>2, Kinds DEF Progress, Running, ByNumber
<1>6. HeldOwn' /\ RowsConsistent'
  BY <1>1 DEF HeldOwn, RowsConsistent
<1>7. OldIds'
  BY <1>1, <1>2, Kinds DEF OldIds, Typed, Id
<1>8. OnePosition'
  BY <1>1 DEF OnePosition, Taken, Owned, PositionsOf
<1>9. LinkFits'
  BY <1>1, <1>2, Kinds, LinksStay
<1> QED BY <1>3, <1>4, <1>5, <1>6, <1>7, <1>8, <1>9

\* A creation is asked for.
LEMMA SubmitCreateKeeps ==
  ASSUME PositionsInv, NEW c \in Create, NEW u \in User, NEW b \in Body, SubmitCreate(c, u, b)
  PROVE  PositionsInv'
<1> USE DEF PositionsInv
<1>1. /\ pc[c] = "idle" /\ UNCHANGED <<table, held, seen, saved>>
      /\ call' = [call EXCEPT ![c] = [user |-> u, body |-> b]]
      /\ \/ pc' = [pc EXCEPT ![c] = "done"] /\ left' = left
         \/ /\ b # <<>> /\ pc' = [pc EXCEPT ![c] = "stock"]
            /\ left' = [left EXCEPT ![c] = KeysOf(b)]
  BY DEF SubmitCreate, Answer, Goto
<1>2. /\ \A r \in Req \ {c} : pc'[r] = pc[r] /\ call'[r] = call[r]
      /\ \A d \in Create \ {c} : left'[d] = left[d]
      /\ call'[c].user = u /\ call'[c].body = b
      /\ pc'[c] = "done" \/ (pc'[c] = "stock" /\ left'[c] = KeysOf(b) /\ left'[c] # {})
  BY <1>1, Kinds, KeysOfBody DEF Typed
<1>3. held[c] = <<>>
  BY <1>1 DEF Progress, Running, ByNumber
<1>4. Typed'
  <2>1. left' \in [Create -> SUBSET Key]
    BY <1>1, KeysOfBody DEF Typed
  <2>2. call' = [r \in Req |-> call'[r]]
    BY <1>1 DEF Typed
  <2>3. pc' \in [Req -> {"idle", "stock", "existing", "insert", "commit",
                         "find", "write", "done"}]
    BY <1>1 DEF Typed
  <2>4. \A d \in Create : Running(d)' => call'[d].user \in User /\ call'[d].body \in Body
    BY <1>2, Kinds DEF Typed, Running
  <2>5. \A r \in Update : pc'[r] = pc[r] /\ call'[r] = call[r]
    BY <1>2, Kinds
  <2>6. /\ \A r \in Update : pc'[r] \in {"find", "write"} => call'[r].patch \in Patch
        /\ \A r \in Update : pc'[r] = "write" => seen[r] \in Row
    BY <2>5 DEF Typed
  <2>7. held' = held /\ seen' = seen /\ saved' = saved /\ table' = table
    BY <1>1
  <2> QED BY <2>1, <2>2, <2>3, <2>4, <2>6, <2>7 DEF Typed
<1>5. FewStarted'
  BY <1>2, FewMore, Kinds
<1>6. Progress'
  <2>1. StocksOf(b) = IdsOf(KeysOf(b))
    BY KeysOfBody
  <2>2. \A d \in Create \ {c} : ByNumber(d)' <=> ByNumber(d)
    BY <1>2, Kinds DEF ByNumber
  <2>3. Running(c)' => pc'[c] = "stock"
    BY <1>2 DEF Running
  <2> QED BY <1>1, <1>2, <1>3, <2>1, <2>2, <2>3, NoRows, Kinds DEF Progress, Running
<1>7. HeldOwn' /\ RowsConsistent'
  BY <1>1, <1>2, <1>3, NoRows, Kinds DEF HeldOwn, RowsConsistent
<1>8. OldIds'
  BY <1>1, <1>2, Kinds DEF OldIds, Typed, Id
<1>9. OnePosition'
  BY <1>1, <1>2, <1>3, NoRows, Kinds DEF OnePosition, Taken, Owned, PositionsOf
<1>10. LinkFits'
  BY <1>1, <1>2, Kinds, LinksStay
<1> QED BY <1>4, <1>5, <1>6, <1>7, <1>8, <1>9, <1>10

\* A row is inserted.
LEMMA InsertKeeps ==
  ASSUME PositionsInv, StockFound, NEW c \in Create, Insert(c)
  PROVE  PositionsInv'
<1> USE DEF PositionsInv
<1> DEFINE k == Current(c)
           s == StockId(c)
           u == call[c].user
           q == Quantity(call[c].body, k)
           t == Invested(call[c].body, k)
           row == NewRow(u, s, q, t)
<1>1. CASE Rollback(c, "error")
  BY <1>1, RollbackKeeps DEF Insert, Running
<1>2. CASE ~Rollback(c, "error")
  <2>1. /\ pc[c] = "insert" /\ left[c] \in SUBSET Key /\ left[c] # {}
        /\ left[c] \subseteq KeysOf(call[c].body)
    BY DEF Insert, Progress, Typed, Running
  <2>3. u \in User /\ call[c].body \in Body
    BY <2>1 DEF Typed, Running
  <2>2. /\ k \in left[c] /\ k \in Key /\ s = IdOf[k] /\ s \in Stock
        /\ left[c] \subseteq Canonical => \A x \in left[c] : s <= IdOf[x]
    <3>1. /\ k \in left[c]
          /\ left[c] \subseteq Canonical => \A x \in left[c] : s <= IdOf[x]
      BY <2>1, <2>3, CurrentLeft
    <3>2. s \in Stock
      BY <2>1 DEF StockFound
    <3> QED BY <2>1, <3>1, <3>2 DEF StockId
  <2>4. q \in Int /\ t \in Int
    BY <2>3, MergedNumbers
  <2>5. /\ q # 0 /\ ~Taken(u, s) /\ UNCHANGED <<table, call, seen, saved>>
        /\ held' = [held EXCEPT ![c] = Extend(held[c], s, row)]
        /\ left' = [left EXCEPT ![c] = left[c] \ {k}]
        /\ pc' = [pc EXCEPT ![c] = IF left[c] = {k} THEN "commit" ELSE "stock"]
        /\ \A d \in Create : ~WaitsFor(c, d)
    BY <1>2 DEF Insert, Goto, Exists
  <2>6. row \in Row /\ Consistent(row) /\ row.user = u /\ row.stock = s
    BY <2>2, <2>3, <2>4, <2>5, NewRowGood
  <2>7. \A d \in Create \ {c} : call[d].user = u => s \notin DOMAIN held[d]
    BY <2>1, <2>5 DEF WaitsFor
  <2> HIDE DEF k, s, q, t, row
  <2>8. held[c] \in Holding
    BY DEF Typed
  <2>9. /\ held'[c] \in Holding
        /\ DOMAIN held'[c] = DOMAIN held[c] \cup {s}
        /\ held'[c][s] = row /\ \A x \in DOMAIN held[c] \ {s} : held'[c][x] = held[c][x]
    <3>1. held'[c] = Extend(held[c], s, row)
      BY <2>5 DEF Typed
    <3> DEFINE h == held[c]
               more == Extend(h, s, row)
    <3> HIDE DEF h
    <3>2. /\ more \in Holding /\ DOMAIN more = DOMAIN h \cup {s}
          /\ more[s] = row /\ \A x \in DOMAIN h \ {s} : more[x] = h[x]
      <4>1. h \in Holding /\ s \in Stock /\ row \in Row
        BY <2>2, <2>6, <2>8 DEF h
      <4> QED BY <4>1, ExtendHolding
    <3>3. held'[c] = more
      BY <3>1 DEF h
    <3> HIDE DEF more
    <3> QED BY <3>2, <3>3 DEF h
  <2>10. /\ left'[c] = left[c] \ {k} /\ pc'[c] \in {"commit", "stock"}
         /\ pc'[c] = "commit" <=> left'[c] = {}
         /\ \A r \in Req \ {c} : pc'[r] = pc[r]
         /\ \A d \in Create \ {c} : held'[d] = held[d] /\ left'[d] = left[d]
    BY <2>1, <2>2, <2>5, Kinds DEF Typed
  <2>11. Typed'
    <3>1. held' \in [Create -> Holding]
      BY <2>5, <2>9, <2>10 DEF Typed
    <3>2. left' \in [Create -> SUBSET Key]
      BY <2>5 DEF Typed
    <3>3. pc' \in [Req -> {"idle", "stock", "existing", "insert", "commit",
                           "find", "write", "done"}]
      BY <2>5 DEF Typed
    <3>4. \A d \in Create : Running(d)' => call[d].user \in User /\ call[d].body \in Body
      BY <2>3, <2>10, Kinds DEF Typed, Running
    <3>5. \A r \in Update : pc'[r] = pc[r]
      BY <2>10, Kinds
    <3> QED BY <2>5, <3>1, <3>2, <3>3, <3>4, <3>5 DEF Typed
  <2>12. FewStarted'
    BY <2>10, FewMore, Kinds
  <2>13. Progress'
    <3> SUFFICES ASSUME NEW d \in Create
                 PROVE  /\ ~Running(d)' => held'[d] = <<>>
                        /\ Running(d)' =>
                             /\ left'[d] \subseteq KeysOf(call[d].body)
                             /\ DOMAIN held'[d] \cup IdsOf(left'[d]) = StocksOf(call[d].body)
                        /\ pc'[d] \in {"stock", "existing", "insert"} => left'[d] # {}
                        /\ pc'[d] = "commit" => left'[d] = {}
                        /\ Running(d)' /\ ByNumber(d)' =>
                             \A x \in DOMAIN held'[d], y \in left'[d] : x < IdOf[y]
      BY <2>5 DEF Progress
    <3>1. CASE d = c
      <4>1. Running(c) /\ Running(c)'
        BY <2>1, <2>10 DEF Running
      <4>2. DOMAIN held'[c] \cup IdsOf(left'[c]) = StocksOf(call[c].body)
        <5>1. IdsOf(left[c]) = IdsOf(left'[c]) \cup {s}
          BY <2>2, <2>10 DEF IdsOf
        <5> QED BY <2>9, <4>1, <5>1 DEF Progress
      <4>3. ASSUME ByNumber(c)', NEW x \in DOMAIN held'[c], NEW y \in left'[c] PROVE x < IdOf[y]
        <5>1. ByNumber(c) /\ left[c] \subseteq Canonical
          BY <2>1, <2>5, <4>3 DEF ByNumber
        <5>2. y \in left[c] /\ y # k /\ k \in Canonical /\ y \in Canonical
          BY <2>2, <2>10, <4>3, <5>1
        <5>3. IdOf[y] \in Nat /\ s \in Nat /\ s <= IdOf[y] /\ s # IdOf[y]
          BY <2>2, <5>1, <5>2, PositionsAssumption
        <5>4. x \in DOMAIN held[c] \/ x = s
          BY <2>9
        <5> QED BY <4>1, <5>1, <5>2, <5>3, <5>4 DEF Progress
      <4> QED BY <2>1, <2>10, <3>1, <4>1, <4>2, <4>3
    <3>2. CASE d # c
      BY <2>5, <2>10, <3>2, Kinds DEF Progress, Running, ByNumber
    <3> QED BY <3>1, <3>2
  <2>14. HeldOwn'
    BY <2>5, <2>6, <2>9, <2>10 DEF HeldOwn
  <2>15. RowsConsistent'
    BY <2>5, <2>6, <2>9, <2>10 DEF RowsConsistent
  <2>16. OldIds'
    BY <2>1, <2>5, <2>10, Kinds DEF OldIds, Typed, Id
  <2>17. OnePosition'
    <3>1. \A d \in Create : \A x \in DOMAIN held'[d] : ~Taken(call[d].user, x)
      BY <2>5, <2>9, <2>10 DEF OnePosition
    <3>2. ASSUME NEW d \in Create, NEW e \in Create,
                 NEW x \in DOMAIN held'[d] \cap DOMAIN held'[e], call[d].user = call[e].user
          PROVE  d = e
      BY <2>7, <2>9, <2>10, <3>2 DEF OnePosition
    <3> QED BY <2>5, <3>1, <3>2 DEF OnePosition, Taken, Owned, PositionsOf
  <2>18. LinkFits'
    BY <2>5, <2>10, Kinds, LinksStay
  <2> QED BY <2>11, <2>12, <2>13, <2>14, <2>15, <2>16, <2>17, <2>18
<1> QED BY <1>1, <1>2

\* The rows of a creation become visible.
LEMMA CommitKeeps ==
  ASSUME PositionsInv, NEW c \in Create, Commit(c)
  PROVE  PositionsInv'
<1> USE DEF PositionsInv
<1> DEFINE new == Published(c)
<1>1. /\ pc[c] = "commit" /\ pc' = [pc EXCEPT ![c] = "done"]
      /\ held' = [held EXCEPT ![c] = <<>>] /\ UNCHANGED <<left, call, seen, saved>>
      /\ table' = [id \in DOMAIN table \cup new |->
                     IF id \in DOMAIN table THEN table[id] ELSE held[c][id[2]]]
  BY DEF Commit, Answer
<1>2. /\ pc'[c] = "done" /\ held'[c] = <<>>
      /\ \A r \in Req \ {c} : pc'[r] = pc[r]
      /\ \A d \in Create \ {c} : held'[d] = held[d]
  BY <1>1, Kinds DEF Typed
<1>3. /\ held[c] \in Holding /\ DOMAIN held[c] \in SUBSET Stock
      /\ held[c] \in [DOMAIN held[c] -> Row]
  BY DEF Typed, Holding
<1>4. \A id \in new : /\ id \in Id /\ id[1] = c /\ id[2] \in DOMAIN held[c]
                      /\ id = <<c, id[2]>> /\ id \notin DOMAIN table
  BY <1>1, <1>3 DEF Published, Id, OldIds
<1> HIDE DEF new
<1>5. /\ DOMAIN table' = DOMAIN table \cup new
      /\ \A id \in DOMAIN table : table'[id] = table[id]
      /\ \A id \in new : /\ table'[id] = held[c][id[2]] /\ table'[id] \in Row
                         /\ table'[id].user = call[c].user /\ table'[id].stock = id[2]
                         /\ Consistent(table'[id])
  BY <1>1, <1>3, <1>4 DEF HeldOwn, RowsConsistent
<1>6. Typed'
  <2>1. held' \in [Create -> Holding]
    BY <1>1, NoRows DEF Typed
  <2>2. pc' \in [Req -> {"idle", "stock", "existing", "insert", "commit",
                         "find", "write", "done"}]
    BY <1>1 DEF Typed
  <2>3. /\ \A d \in Create : Running(d)' => Running(d)
        /\ \A r \in Update : pc'[r] = pc[r]
    BY <1>2, Kinds DEF Running
  <2>4. DOMAIN table' \subseteq Id
    BY <1>4, <1>5 DEF Typed
  <2>5. table' \in [DOMAIN table' -> Row]
    <3>1. \A id \in DOMAIN table' : table'[id] \in Row
      BY <1>5 DEF Typed
    <3>2. table' = [id \in DOMAIN table' |-> table'[id]]
      BY <1>1
    <3> QED BY <3>1, <3>2
  <2> QED BY <1>1, <2>1, <2>2, <2>3, <2>4, <2>5 DEF Typed
<1>7. FewStarted'
  BY <1>2, FewMore, Kinds
<1>8. Progress'
  BY <1>1, <1>2, NoRows, Kinds DEF Progress, Running, ByNumber
<1>9. HeldOwn'
  BY <1>1, <1>2, NoRows DEF HeldOwn
<1>10. RowsConsistent'
  BY <1>1, <1>2, <1>5, NoRows DEF RowsConsistent
<1>11. OldIds'
  BY <1>1, <1>2, <1>4, <1>5, Kinds DEF OldIds, Typed, Id
<1>12. OnePosition'
  <2>1. ASSUME NEW i \in DOMAIN table', NEW j \in new,
               table'[i].user = table'[j].user, table'[i].stock = table'[j].stock
        PROVE  i = j
    <3>1. j[2] \in DOMAIN held[c] /\ table'[j].user = call[c].user /\ table'[j].stock = j[2]
      BY <1>4, <1>5
    <3>2. i \notin DOMAIN table
      BY <1>5, <2>1, <3>1 DEF OnePosition, Taken, Owned, PositionsOf
    <3> QED BY <1>4, <1>5, <2>1, <3>1, <3>2
  <2>2. \A i, j \in DOMAIN table' :
          table'[i].user = table'[j].user /\ table'[i].stock = table'[j].stock => i = j
    BY <1>5, <2>1 DEF OnePosition
  <2>3. ASSUME NEW d \in Create, NEW s \in DOMAIN held'[d] PROVE ~Taken(call[d].user, s)'
    <3>1. d # c /\ s \in DOMAIN held[d]
      BY <1>2, <2>3, NoRows
    <3>2. \A id \in DOMAIN table : ~(table[id].user = call[d].user /\ table[id].stock = s)
      BY <3>1 DEF OnePosition, Taken, Owned, PositionsOf
    <3>3. \A id \in new : ~(table'[id].user = call[d].user /\ table'[id].stock = s)
      BY <1>4, <1>5, <3>1 DEF OnePosition
    <3> QED BY <1>1, <1>5, <3>2, <3>3 DEF Taken, Owned, PositionsOf
  <2>4. \A d, e \in Create : \A s \in DOMAIN held'[d] \cap DOMAIN held'[e] :
          call[d].user = call[e].user => d = e
    BY <1>2, NoRows DEF OnePosition
  <2> QED BY <1>1, <2>2, <2>3, <2>4 DEF OnePosition
<1>13. LinkFits'
  <2>1. \A m \in Simulate : pc'[m] = pc[m]
    BY <1>2, Kinds
  <2>2. \A m \in Simulate : pc[m] = "write" => \A id \in seen[m].position : id \notin new
    BY <1>1, <1>4 DEF OldIds
  <2>3. \A m, id : id \in DOMAIN table => (Fits(m, id)' <=> Fits(m, id))
    BY <1>1, <1>5 DEF Fits
  <2>4. \A m \in DOMAIN saved : m \in Simulate
    BY DEF Typed
  <2> QED BY <1>1, <1>5, <2>1, <2>2, <2>3, <2>4 DEF LinkFits
<1> QED BY <1>6, <1>7, <1>8, <1>9, <1>10, <1>11, <1>12, <1>13

\* A request that is no creation changes neither the rows nor the simulations.
LEMMA OtherKeeps ==
  ASSUME PositionsInv, NEW r \in Req \ Create, NEW step \in {"find", "write", "done"},
         pc' = [pc EXCEPT ![r] = step], UNCHANGED <<table, held, left, saved>>,
         call' = [q \in Req |-> call'[q]], \A q \in Req \ {r} : call'[q] = call[q],
         seen' = [q \in Update \cup Simulate |-> seen'[q]],
         \A q \in (Update \cup Simulate) \ {r} : seen'[q] = seen[q],
         r \notin DOMAIN saved,
         r \in Update /\ step \in {"find", "write"} => call'[r].patch \in Patch,
         r \in Update /\ step = "write" => seen'[r] \in Row,
         r \in Simulate /\ step = "write" =>
           /\ CodeOf[seen'[r].stock] = call'[r].plan.code
           /\ \A i, j \in seen'[r].position : i = j
           /\ \A id \in seen'[r].position :
                                   /\ id \in DOMAIN table /\ table[id].user = call'[r].user
                                   /\ CodeOf[table[id].stock] = call'[r].plan.code
  PROVE  PositionsInv'
<1> USE DEF PositionsInv
<1>1. pc'[r] = step /\ \A q \in Req \ {r} : pc'[q] = pc[q]
  BY DEF Typed
<1>2. \A c \in Create : pc'[c] = pc[c] /\ call'[c] = call[c]
  BY <1>1, Kinds
<1>3. Typed'
  <2>1. pc' \in [Req -> {"idle", "stock", "existing", "insert", "commit",
                         "find", "write", "done"}]
    BY DEF Typed
  <2>2. \A c \in Create : Running(c)' => call'[c].user \in User /\ call'[c].body \in Body
    BY <1>2 DEF Typed, Running
  <2>3. \A q \in Update : pc'[q] \in {"find", "write"} => call'[q].patch \in Patch
    BY <1>1, Kinds DEF Typed
  <2>4. \A q \in Update : pc'[q] = "write" => seen'[q] \in Row
    BY <1>1, Kinds DEF Typed
  <2> QED BY <2>1, <2>2, <2>3, <2>4 DEF Typed
<1>4. FewStarted'
  BY <1>2, FewMore
<1>5. Progress'
  BY <1>2 DEF Progress, Running, ByNumber
<1>6. HeldOwn' /\ RowsConsistent'
  BY <1>2 DEF HeldOwn, RowsConsistent
<1>7. OldIds'
  <2>1. \A id \in DOMAIN table : id \in Id /\ id[1] \in Create /\ pc'[id[1]] = "done"
    BY <1>2 DEF OldIds, Typed, Id
  <2>2. ASSUME NEW m \in Simulate, pc'[m] = "write", NEW id \in seen'[m].position
        PROVE  id \in Id /\ pc'[id[1]] = "done"
    <3>1. CASE m = r
      BY <1>1, <2>1, <2>2, <3>1
    <3>2. CASE m # r
      <4>1. pc[m] = "write" /\ id \in seen[m].position
        BY <1>1, <2>2, <3>2, Kinds
      <4>2. id \in Id /\ pc[id[1]] = "done"
        BY <4>1 DEF OldIds
      <4> QED BY <1>2, <4>2 DEF Id
    <3> QED BY <3>1, <3>2
  <2> QED BY <2>1, <2>2 DEF OldIds
<1>8. OnePosition'
  BY <1>2 DEF OnePosition, Taken, Owned, PositionsOf
<1>9. LinkFits'
  <2>1. ASSUME NEW m \in Simulate, m # r
        PROVE pc'[m] = pc[m] /\ call'[m] = call[m] /\ seen'[m] = seen[m]
    BY <1>1, <2>1, Kinds
  <2>2. \A m \in Simulate \ {r} : \A id : Fits(m, id)' <=> Fits(m, id)
    BY <2>1 DEF Fits
  <2>3. ASSUME NEW m \in Simulate, pc'[m] = "write"
        PROVE  /\ CodeOf[seen'[m].stock] = call'[m].plan.code
               /\ \A i, j \in seen'[m].position : i = j
               /\ \A id \in seen'[m].position \cap DOMAIN table : Fits(m, id)'
    <3>1. CASE m = r
      BY <1>1, <2>3, <3>1 DEF Fits
    <3>2. CASE m # r
      BY <2>1, <2>2, <2>3, <3>2 DEF LinkFits
    <3> QED BY <3>1, <3>2
  <2>4. ASSUME NEW m \in DOMAIN saved
        PROVE  /\ pc'[m] = "done" /\ CodeOf[saved[m].stock] = call'[m].plan.code
               /\ \A i, j \in saved[m].position : i = j
               /\ \A id \in saved[m].position : id \in DOMAIN table /\ Fits(m, id)'
    <3>1. m \in Simulate /\ m # r
      BY DEF Typed
    <3> QED BY <2>1, <2>2, <3>1 DEF LinkFits
  <2> QED BY <2>3, <2>4 DEF LinkFits
<1> QED BY <1>3, <1>4, <1>5, <1>6, <1>7, <1>8, <1>9

\* An answer without an effect.
LEMMA FailKeeps ==
  ASSUME PositionsInv, NEW r \in Req \ Create, NEW s, pc[r] # "done", Fail(r, s)
  PROVE  PositionsInv'
<1>1. /\ pc' = [pc EXCEPT ![r] = "done"] /\ UNCHANGED <<table, held, left, saved>>
      /\ call' = call /\ seen' = seen
  BY DEF Fail, Answer
<1>2. r \notin DOMAIN saved
  BY DEF PositionsInv, LinkFits
<1>3. call' = [q \in Req |-> call'[q]] /\ seen' = [q \in Update \cup Simulate |-> seen'[q]]
  BY <1>1 DEF PositionsInv, Typed
<1> QED BY <1>1, <1>2, <1>3, OtherKeeps

\* An update, a deletion or a simulation is asked for.
LEMMA SubmitKeeps ==
  ASSUME PositionsInv, NEW r \in Req \ Create, NEW arg, Submit(r, arg),
         r \in Update => arg.patch \in Patch
  PROVE  PositionsInv'
<1>1. /\ pc[r] = "idle" /\ UNCHANGED <<table, held, left, saved>>
      /\ call' = [call EXCEPT ![r] = arg] /\ seen' = seen
      /\ \E step \in {"find", "done"} : pc' = [pc EXCEPT ![r] = step]
  BY DEF Submit, Answer, Goto
<1>2. r \notin DOMAIN saved
  BY <1>1 DEF PositionsInv, LinkFits
<1>3. /\ call' = [q \in Req |-> call'[q]] /\ seen' = [q \in Update \cup Simulate |-> seen'[q]]
      /\ call'[r] = arg /\ \A q \in Req \ {r} : call'[q] = call[q]
  BY <1>1 DEF PositionsInv, Typed
<1>4. PICK step \in {"find", "done"} : pc' = [pc EXCEPT ![r] = step]
  BY <1>1
<1> QED BY <1>1, <1>2, <1>3, <1>4, OtherKeeps

\* An update looks its position up.
LEMMA FindForUpdateKeeps ==
  ASSUME PositionsInv, NEW r \in Update, FindForUpdate(r)
  PROVE  PositionsInv'
<1>1. r \in Req \ Create /\ r \notin Simulate /\ pc[r] = "find"
  BY Kinds DEF FindForUpdate
<1>2. CASE \E s \in {"notFound", "forbidden"} : Fail(r, s)
  BY <1>1, <1>2, FailKeeps
<1>3. CASE ~ \E s \in {"notFound", "forbidden"} : Fail(r, s)
  <2> DEFINE id == call[r].id
  <2>1. /\ id \in DOMAIN table /\ seen' = [seen EXCEPT ![r] = table[id]]
        /\ pc' = [pc EXCEPT ![r] = "write"] /\ UNCHANGED <<table, held, left, call, saved>>
    BY <1>3 DEF FindForUpdate, Goto
  <2>2. table[id] \in Row
    BY <2>1 DEF PositionsInv, Typed
  <2>3. r \notin DOMAIN saved
    BY <1>1 DEF PositionsInv, LinkFits
  <2>4. /\ call' = [q \in Req |-> call'[q]]
        /\ seen' = [q \in Update \cup Simulate |-> seen'[q]]
        /\ seen'[r] = table[id] /\ \A q \in (Update \cup Simulate) \ {r} : seen'[q] = seen[q]
    BY <2>1 DEF PositionsInv, Typed
  <2>5. call'[r].patch \in Patch
    BY <1>1, <2>1 DEF PositionsInv, Typed
  <2> HIDE DEF id
  <2> QED BY <1>1, <2>1, <2>2, <2>3, <2>4, <2>5, OtherKeeps
<1> QED BY <1>2, <1>3

\* A deletion looks its position up.
LEMMA FindForDeleteKeeps ==
  ASSUME PositionsInv, NEW r \in Delete, FindForDelete(r)
  PROVE  PositionsInv'
<1>1. r \in Req \ Create /\ r \notin Simulate /\ r \notin Update /\ pc[r] = "find"
  BY Kinds DEF FindForDelete
<1>2. CASE Fail(r, "notFound")
  BY <1>1, <1>2, FailKeeps
<1>3. CASE ~Fail(r, "notFound")
  <2>1. pc' = [pc EXCEPT ![r] = "write"] /\ UNCHANGED <<table, held, left, call, seen, saved>>
    BY <1>3 DEF FindForDelete, Continue, Goto
  <2>2. r \notin DOMAIN saved
    BY <1>1 DEF PositionsInv, LinkFits
  <2>3. call' = [q \in Req |-> call'[q]] /\ seen' = [q \in Update \cup Simulate |-> seen'[q]]
    BY <2>1 DEF PositionsInv, Typed
  <2> QED BY <1>1, <2>1, <2>2, <2>3, OtherKeeps
<1> QED BY <1>2, <1>3

\* A simulation looks the user's position in its stock up.
LEMMA FindSimulatedKeeps ==
  ASSUME PositionsInv, NEW m \in Simulate, FindSimulated(m)
  PROVE  PositionsInv'
<1>1. m \in Req \ Create /\ m \notin Update /\ pc[m] = "find"
  BY Kinds DEF FindSimulated
<1>2. CASE Fail(m, "notFound")
  BY <1>1, <1>2, FailKeeps
<1>3. CASE ~Fail(m, "notFound")
  <2> DEFINE code == call[m].plan.code
             own == OwnedByCode(call[m].user, code)
  <2>1. /\ \E s \in Listed, link \in SUBSET own :
             /\ CodeOf[s] = code /\ \A i, j \in link : i = j
             /\ seen' = [seen EXCEPT ![m] = [stock |-> s, position |-> link]]
        /\ pc' = [pc EXCEPT ![m] = "write"] /\ UNCHANGED <<table, held, left, call, saved>>
    BY <1>3 DEF FindSimulated, Goto
  <2>2. PICK s \in Listed, link \in SUBSET own :
          /\ CodeOf[s] = code /\ \A i, j \in link : i = j
          /\ seen' = [seen EXCEPT ![m] = [stock |-> s, position |-> link]]
    BY <2>1
  <2>3. \A id \in own : /\ id \in DOMAIN table /\ table[id].user = call[m].user
                        /\ CodeOf[table[id].stock] = code
    BY DEF OwnedByCode, PositionsOf
  <2>4. m \notin DOMAIN saved
    BY <1>1 DEF PositionsInv, LinkFits
  <2> HIDE DEF own, code
  <2>5. /\ call' = [q \in Req |-> call'[q]]
        /\ seen' = [q \in Update \cup Simulate |-> seen'[q]]
        /\ seen'[m] = [stock |-> s, position |-> link]
        /\ \A q \in (Update \cup Simulate) \ {m} : seen'[q] = seen[q]
    BY <2>1, <2>2 DEF PositionsInv, Typed
  <2>6. seen'[m].stock = s /\ seen'[m].position = link
    BY <2>5
  <2>7. /\ CodeOf[seen'[m].stock] = call'[m].plan.code
        /\ \A i, j \in seen'[m].position : i = j
        /\ \A id \in seen'[m].position :
             /\ id \in DOMAIN table /\ table[id].user = call'[m].user
             /\ CodeOf[table[id].stock] = call'[m].plan.code
    BY <2>1, <2>2, <2>3, <2>6 DEF code
  <2> QED BY <1>1, <2>1, <2>4, <2>5, <2>7, OtherKeeps
<1> QED BY <1>2, <1>3

\* A row is updated: it stays the position of its user in its stock.
LEMMA WriteUpdateKeeps ==
  ASSUME PositionsInv, NEW r \in Update, WriteUpdate(r)
  PROVE  PositionsInv'
<1>1. r \in Req \ Create /\ r \notin Simulate /\ pc[r] = "write"
  BY Kinds DEF WriteUpdate
<1>2. CASE Fail(r, "error")
  BY <1>1, <1>2, FailKeeps
<1>3. CASE ~Fail(r, "error")
  <2> USE DEF PositionsInv
  <2> DEFINE id == call[r].id
             row == Patched(table[id], seen[r], call[r].patch)
  <2>1. /\ id \in DOMAIN table /\ table' = [table EXCEPT ![id] = row]
        /\ pc' = [pc EXCEPT ![r] = "done"] /\ UNCHANGED <<held, left, call, seen, saved>>
    BY <1>3 DEF WriteUpdate, Answer
  <2>2. table[id] \in Row /\ seen[r] \in Row /\ call[r].patch \in Patch
    BY <1>1, <2>1 DEF Typed
  <2>3. /\ row \in Row /\ Consistent(row)
        /\ row.user = table[id].user /\ row.stock = table[id].stock
    <3> DEFINE stored == table[id]
               old == seen[r]
               p == call[r].patch
    <3>1. stored \in Row /\ old \in Row /\ p \in Patch
      BY <2>2
    <3> HIDE DEF stored, old, p
    <3>2. /\ Patched(stored, old, p) \in Row /\ Consistent(Patched(stored, old, p))
          /\ Patched(stored, old, p).user = stored.user
          /\ Patched(stored, old, p).stock = stored.stock
      BY <3>1, PatchedGood
    <3> QED BY <3>2 DEF stored, old, p
  <2> HIDE DEF id, row
  <2>4. /\ DOMAIN table' = DOMAIN table /\ table'[id] = row
        /\ \A j \in DOMAIN table \ {id} : table'[j] = table[j]
        /\ \A j \in DOMAIN table :
             table'[j].user = table[j].user /\ table'[j].stock = table[j].stock
    BY <2>1, <2>3
  <2>5. \A q \in Req \ {r} : pc'[q] = pc[q]
    BY <2>1 DEF Typed
  <2>6. \A c \in Create : pc'[c] = pc[c]
    BY <1>1, <2>5, Kinds
  <2>7. Typed'
    <3>1. table' \in [DOMAIN table' -> Row]
      BY <2>1, <2>3 DEF Typed
    <3>2. pc' \in [Req -> {"idle", "stock", "existing", "insert", "commit",
                           "find", "write", "done"}]
      BY <2>1 DEF Typed
    <3>3. \A c \in Create : Running(c)' => Running(c)
      BY <2>6 DEF Running
    <3>4. \A q \in Update : pc'[q] \in {"find", "write"} => pc'[q] = pc[q]
      BY <1>1, <2>1, <2>5, Kinds DEF Typed
    <3> QED BY <2>1, <2>4, <3>1, <3>2, <3>3, <3>4 DEF Typed
  <2>8. FewStarted'
    BY <2>6, FewMore
  <2>9. Progress'
    BY <2>1, <2>6 DEF Progress, Running, ByNumber
  <2>10. HeldOwn'
    BY <2>1 DEF HeldOwn
  <2>11. RowsConsistent'
    BY <2>1, <2>3, <2>4 DEF RowsConsistent
  <2>12. OldIds'
    BY <2>1, <2>4, <2>5, <2>6, <1>1, Kinds DEF OldIds, Typed, Id
  <2>13. OnePosition'
    BY <2>1, <2>4 DEF OnePosition, Taken, Owned, PositionsOf
  <2>14. LinkFits'
    <3>1. \A m \in Simulate : pc'[m] = pc[m]
      BY <1>1, <2>5, Kinds
    <3>2. \A m, j : j \in DOMAIN table => (Fits(m, j)' <=> Fits(m, j))
      BY <2>1, <2>4 DEF Fits
    <3>3. \A m \in DOMAIN saved : m \in Simulate
      BY DEF Typed
    <3> QED BY <2>1, <2>4, <3>1, <3>2, <3>3 DEF LinkFits
  <2> QED BY <2>7, <2>8, <2>9, <2>10, <2>11, <2>12, <2>13, <2>14
<1> QED BY <1>2, <1>3

\* A row is removed, and with it the simulations that link it.
LEMMA RemoveRowKeeps ==
  ASSUME PositionsInv, NEW r \in Delete, RemoveRow(r)
  PROVE  PositionsInv'
<1>1. r \in Req \ Create /\ r \notin Simulate /\ r \notin Update /\ pc[r] = "write"
  BY Kinds DEF RemoveRow
<1>2. CASE Fail(r, "error")
  BY <1>1, <1>2, FailKeeps
<1>3. CASE ~Fail(r, "error")
  <2> USE DEF PositionsInv
  <2> DEFINE id == call[r].id
  <2>1. /\ id \in DOMAIN table /\ table' = Without(table, {id}) /\ saved' = Cascade(id)
        /\ pc' = [pc EXCEPT ![r] = "done"] /\ UNCHANGED <<held, left, call, seen>>
    BY <1>3 DEF RemoveRow, Answer
  <2> HIDE DEF id
  <2>2. /\ DOMAIN table' = DOMAIN table \ {id}
        /\ \A j \in DOMAIN table' : table'[j] = table[j]
        /\ table' = [j \in DOMAIN table' |-> table'[j]]
    BY <2>1 DEF Without
  <2>3. /\ DOMAIN saved' = {m \in DOMAIN saved : saved[m].position # {id}}
        /\ \A m \in DOMAIN saved' : saved'[m] = saved[m]
        /\ saved' = [m \in DOMAIN saved' |-> saved'[m]]
    BY <2>1 DEF Without, Cascade
  <2>4. \A q \in Req \ {r} : pc'[q] = pc[q]
    BY <2>1 DEF Typed
  <2>5. \A q \in Create \cup Update \cup Simulate : pc'[q] = pc[q]
    BY <1>1, <2>4, Kinds
  <2>6. Typed'
    <3>1. table' \in [DOMAIN table' -> Row]
      BY <2>2 DEF Typed
    <3>2. pc' \in [Req -> {"idle", "stock", "existing", "insert", "commit",
                           "find", "write", "done"}]
      BY <2>1 DEF Typed
    <3>3. \A c \in Create : Running(c)' => Running(c)
      BY <2>5 DEF Running
    <3>4. DOMAIN table' \subseteq Id /\ DOMAIN saved' \subseteq Simulate
      BY <2>2, <2>3 DEF Typed
    <3> QED BY <2>1, <2>3, <2>5, <3>1, <3>2, <3>3, <3>4 DEF Typed
  <2>7. FewStarted'
    BY <2>5, FewMore
  <2>8. Progress'
    BY <2>1, <2>5 DEF Progress, Running, ByNumber
  <2>9. HeldOwn' /\ RowsConsistent'
    BY <2>1, <2>2 DEF HeldOwn, RowsConsistent
  <2>10. OldIds'
    BY <2>1, <2>2, <2>5 DEF OldIds, Typed, Id
  <2>11. OnePosition'
    <3>1. \A i, j \in DOMAIN table' :
            table'[i].user = table'[j].user /\ table'[i].stock = table'[j].stock => i = j
      BY <2>2 DEF OnePosition
    <3>2. ASSUME NEW c \in Create, NEW s \in DOMAIN held'[c], NEW i \in DOMAIN table',
                 table'[i].user = call'[c].user, table'[i].stock = s
          PROVE  FALSE
      <4>1. i \in DOMAIN table /\ table[i].user = call[c].user /\ table[i].stock = s
        BY <2>1, <2>2, <3>2
      <4>2. i \in Owned(call[c].user, s)
        BY <4>1 DEF Owned, PositionsOf
      <4>3. s \in DOMAIN held[c]
        BY <2>1
      <4> QED BY <4>2, <4>3 DEF OnePosition, Taken
    <3>3. \A c \in Create : \A s \in DOMAIN held'[c] : ~Taken(call[c].user, s)'
      BY <3>2 DEF Taken, Owned, PositionsOf
    <3>4. \A c, d \in Create : \A s \in DOMAIN held'[c] \cap DOMAIN held'[d] :
            call'[c].user = call'[d].user => c = d
      BY <2>1 DEF OnePosition
    <3> QED BY <3>1, <3>3, <3>4 DEF OnePosition
  <2>12. LinkFits'
    <3>1. \A m, j : j \in DOMAIN table' => (Fits(m, j)' <=> Fits(m, j))
      BY <2>1, <2>2 DEF Fits
    <3>2. \A m \in Simulate : pc'[m] = "write" =>
            /\ CodeOf[seen'[m].stock] = call'[m].plan.code
            /\ \A i, j \in seen'[m].position : i = j
            /\ \A j \in seen'[m].position \cap DOMAIN table' : Fits(m, j)'
      BY <2>1, <2>2, <2>5, <3>1 DEF LinkFits
    <3>3. ASSUME NEW m \in DOMAIN saved'
          PROVE  /\ pc'[m] = "done" /\ CodeOf[saved'[m].stock] = call'[m].plan.code
                 /\ \A i, j \in saved'[m].position : i = j
                 /\ \A j \in saved'[m].position : j \in DOMAIN table' /\ Fits(m, j)'
      <4>1. /\ m \in DOMAIN saved /\ m \in Simulate /\ saved'[m] = saved[m]
            /\ saved[m].position # {id}
        BY <2>3 DEF Typed
      <4>2. id \notin saved[m].position
        BY <4>1 DEF LinkFits
      <4>3. /\ pc[m] = "done" /\ CodeOf[saved[m].stock] = call[m].plan.code
            /\ \A i, j \in saved[m].position : i = j
            /\ \A j \in saved[m].position : j \in DOMAIN table /\ Fits(m, j)
        BY <4>1 DEF LinkFits
      <4>4. pc'[m] = pc[m] /\ call' = call
        BY <2>1, <2>5, <4>1
      <4>5. \A j \in saved[m].position : j \in DOMAIN table' /\ Fits(m, j)'
        BY <2>2, <3>1, <4>2, <4>3
      <4> QED BY <4>1, <4>3, <4>4, <4>5
    <3> QED BY <3>2, <3>3 DEF LinkFits
  <2> QED BY <2>6, <2>7, <2>8, <2>9, <2>10, <2>11, <2>12
<1> QED BY <1>2, <1>3

\* A simulation is saved with the position it found, which still exists.
LEMMA SaveSimulationKeeps ==
  ASSUME PositionsInv, NEW m \in Simulate, SaveSimulation(m)
  PROVE  PositionsInv'
<1>1. m \in Req \ Create /\ m \notin Update /\ pc[m] = "write"
  BY Kinds DEF SaveSimulation
<1>2. CASE Fail(m, "error")
  BY <1>1, <1>2, FailKeeps
<1>3. CASE ~Fail(m, "error")
  <2> USE DEF PositionsInv
  <2> DEFINE row == [stock |-> seen[m].stock, position |-> seen[m].position,
                     result |-> Simulated(call[m].plan)]
  <2>1. /\ seen[m].position \subseteq DOMAIN table /\ saved' = Extend(saved, m, row)
        /\ pc' = [pc EXCEPT ![m] = "done"] /\ UNCHANGED <<table, held, left, call, seen>>
    BY <1>3 DEF SaveSimulation, LinkHolds, Answer
  <2>2. row.position = seen[m].position /\ row.stock = seen[m].stock
    OBVIOUS
  <2> HIDE DEF row
  <2>3. /\ DOMAIN saved' = DOMAIN saved \cup {m} /\ saved'[m] = row
        /\ \A k \in DOMAIN saved \ {m} : saved'[k] = saved[k]
        /\ saved' = [k \in DOMAIN saved' |-> saved'[k]]
    BY <2>1 DEF Extend
  <2>4. pc'[m] = "done" /\ \A q \in Req \ {m} : pc'[q] = pc[q]
    BY <1>1, <2>1 DEF Typed
  <2>5. \A q \in Create \cup Update : pc'[q] = pc[q]
    BY <1>1, <2>4, Kinds
  <2>6. Typed'
    <3>1. pc' \in [Req -> {"idle", "stock", "existing", "insert", "commit",
                           "find", "write", "done"}]
      BY <2>1 DEF Typed
    <3>2. \A c \in Create : Running(c)' => Running(c)
      BY <2>5 DEF Running
    <3>3. DOMAIN saved' \subseteq Simulate
      BY <2>3 DEF Typed
    <3> QED BY <2>1, <2>3, <2>5, <3>1, <3>2, <3>3 DEF Typed
  <2>7. FewStarted'
    BY <2>5, FewMore
  <2>8. Progress'
    BY <2>1, <2>5 DEF Progress, Running, ByNumber
  <2>9. HeldOwn' /\ RowsConsistent'
    BY <2>1 DEF HeldOwn, RowsConsistent
  <2>10. OldIds'
    BY <2>1, <2>4, <2>5, Kinds DEF OldIds, Typed, Id
  <2>11. OnePosition'
    BY <2>1 DEF OnePosition, Taken, Owned, PositionsOf
  <2>12. LinkFits'
    <3>1. \A k, j : Fits(k, j)' <=> Fits(k, j)
      BY <2>1 DEF Fits
    <3>2. \A k \in Simulate \ {m} : pc'[k] = pc[k]
      BY <2>4, Kinds
    <3>3. ASSUME NEW k \in DOMAIN saved'
          PROVE  /\ pc'[k] = "done" /\ CodeOf[saved'[k].stock] = call[k].plan.code
                 /\ \A i, j \in saved'[k].position : i = j
                 /\ \A j \in saved'[k].position : j \in DOMAIN table /\ Fits(k, j)
      <4>1. CASE k = m
        BY <1>1, <2>1, <2>2, <2>3, <2>4, <4>1 DEF LinkFits
      <4>2. CASE k # m
        BY <2>3, <3>2, <4>2 DEF LinkFits, Typed
      <4> QED BY <4>1, <4>2
    <3> QED BY <2>1, <2>4, <3>1, <3>2, <3>3 DEF LinkFits
  <2> QED BY <2>6, <2>7, <2>8, <2>9, <2>10, <2>11, <2>12
<1> QED BY <1>2, <1>3

\* Every step leaves the stock found.
LEMMA FoundStep ==
  ASSUME PositionsInv, StockFound, [Next]_vars
  PROVE  StockFound'
<1> SUFFICES ASSUME NEW c \in Create, pc'[c] \in {"existing", "insert"}
             PROVE  StockId(c)' \in Stock
  BY DEF StockFound
<1>1. ASSUME UNCHANGED <<left, call>> PROVE StockId(c)' = StockId(c)
  BY <1>1 DEF StockId, Current, FirstInBody
<1>2. ASSUME pc[c] = pc'[c], left'[c] = left[c], call'[c] = call[c]
      PROVE  StockId(c)' \in Stock
  <2>1. StockId(c)' = StockId(c)
    BY <1>2 DEF StockId, Current, FirstInBody
  <2> QED BY <1>2, <2>1 DEF StockFound
<1>3. c \in Req
  BY Kinds
<1>4. ASSUME NEW d \in Create, NEW u \in User, NEW b \in Body, SubmitCreate(d, u, b)
      PROVE  StockId(c)' \in Stock
  BY <1>2, <1>3, <1>4 DEF SubmitCreate, Answer, Goto, PositionsInv, Typed
<1>5. ASSUME NEW d \in Create, NEW s, Rollback(d, s) PROVE StockId(c)' \in Stock
  BY <1>2, <1>3, <1>5 DEF Rollback, Answer, PositionsInv, Typed
<1>6. ASSUME NEW d \in Create, CheckStock(d) PROVE StockId(c)' \in Stock
  <2>1. CASE \E s : Rollback(d, s)
    BY <1>5, <2>1
  <2>2. CASE StockId(d) \in Listed /\ Continue(d, "existing")
    <3>1. CASE d = c
      <4>1. StockId(c) \in Stock /\ UNCHANGED <<left, call>>
        BY <2>2, <3>1, PositionsAssumption DEF Continue
      <4> QED BY <1>1, <4>1
    <3>2. CASE d # c
      BY <1>2, <1>3, <2>2, <3>2 DEF Continue, Goto, PositionsInv, Typed
    <3> QED BY <3>1, <3>2
  <2> QED BY <1>6, <2>1, <2>2 DEF CheckStock
<1>7. ASSUME NEW d \in Create, CheckExisting(d) PROVE StockId(c)' \in Stock
  <2>1. CASE \E s : Rollback(d, s)
    BY <1>5, <2>1
  <2>2. CASE pc[d] = "existing" /\ Continue(d, "insert")
    <3>1. UNCHANGED <<left, call>> /\ (pc[c] = pc'[c] \/ pc[c] = "existing")
      BY <1>3, <2>2 DEF Continue, Goto, PositionsInv, Typed
    <3> QED BY <1>1, <3>1 DEF StockFound
  <2> QED BY <1>7, <2>1, <2>2 DEF CheckExisting
<1>8. ASSUME NEW d \in Create, Insert(d) PROVE StockId(c)' \in Stock
  <2>1. CASE \E s : Rollback(d, s)
    BY <1>5, <2>1
  <2>2. CASE ~\E s : Rollback(d, s)
    <3>1. /\ UNCHANGED call /\ left' = [left EXCEPT ![d] = left[d] \ {Current(d)}]
          /\ \E step \in {"commit", "stock"} : pc' = [pc EXCEPT ![d] = step]
      BY <1>8, <2>2 DEF Insert, Goto
    <3> QED BY <1>2, <1>3, <3>1 DEF PositionsInv, Typed
  <2> QED BY <2>1, <2>2
<1>9. ASSUME NEW d \in Create, Commit(d) PROVE StockId(c)' \in Stock
  BY <1>2, <1>3, <1>9 DEF Commit, Answer, PositionsInv, Typed
<1>11. ASSUME NEW r \in Req \ Create, UNCHANGED <<left, call>>,
              \E step : pc' = [pc EXCEPT ![r] = step]
       PROVE  StockId(c)' \in Stock
  BY <1>2, <1>3, <1>11 DEF PositionsInv, Typed
<1>12. ASSUME NEW r \in Update, FindForUpdate(r) \/ WriteUpdate(r)
       PROVE  StockId(c)' \in Stock
  BY <1>11, <1>12, Kinds DEF FindForUpdate, WriteUpdate, Fail, Goto, Answer
<1>13. ASSUME NEW r \in Delete, FindForDelete(r) \/ RemoveRow(r)
       PROVE  StockId(c)' \in Stock
  BY <1>11, <1>13, Kinds DEF FindForDelete, RemoveRow, Fail, Continue, Goto, Answer
<1>14. ASSUME NEW m \in Simulate, FindSimulated(m) \/ SaveSimulation(m)
       PROVE  StockId(c)' \in Stock
  BY <1>11, <1>14, Kinds DEF FindSimulated, SaveSimulation, Fail, Goto, Answer
<1>15. ASSUME NEW r \in Req \ Create, NEW arg, Submit(r, arg)
       PROVE  StockId(c)' \in Stock
  <2>1. /\ UNCHANGED left /\ call' = [call EXCEPT ![r] = arg]
        /\ \E step : pc' = [pc EXCEPT ![r] = step]
    BY <1>15 DEF Submit, Goto, Answer
  <2> QED BY <1>2, <1>3, <2>1 DEF PositionsInv, Typed
<1>16. CASE UNCHANGED vars
  BY <1>2, <1>16 DEF vars
<1> QED
  <2>1. \A r \in Update \cup Delete \cup Simulate : r \in Req \ Create
    BY Kinds
  <2> QED BY <1>4, <1>5, <1>6, <1>7, <1>8, <1>9, <1>12, <1>13, <1>14, <1>15, <1>16, <2>1
          DEF Next, Abort

-----------------------------------------------------------------------------
(* Positions: the theorems *)

\* The invariant holds in every state.
THEOREM Invariance == Spec => [](PositionsInv /\ StockFound)
<1>0. Init => StockFound
  BY Kinds DEF Init, StockFound
<1>1. Init => PositionsInv
  <2> SUFFICES ASSUME Init PROVE PositionsInv
    OBVIOUS
  <2> USE DEF Init
  <2>1. /\ DOMAIN table = {} /\ DOMAIN saved = {}
        /\ table \in [DOMAIN table -> Row] /\ saved = [m \in DOMAIN saved |-> saved[m]]
    BY NoRows
  <2>2. /\ held \in [Create -> Holding]
        /\ \A c \in Create : held[c] = <<>> /\ DOMAIN held[c] = {}
        /\ left \in [Create -> SUBSET Key]
    BY NoRows
  <2>3. \A r \in Req : pc[r] = "idle"
    OBVIOUS
  <2>4. \A c \in Create : ~Running(c) /\ pc[c] = "idle"
    BY <2>3, Kinds DEF Running
  <2>5. Typed
    BY <2>1, <2>2, <2>3, <2>4, Kinds DEF Typed
  <2>6. FewStarted
    <3>1. {c \in Create : pc[c] # "idle"} = {}
      BY <2>4
    <3> QED BY <3>1, FS_EmptySet DEF FewStarted
  <2>7. Progress
    BY <2>2, <2>4 DEF Progress
  <2>8. HeldOwn /\ RowsConsistent
    BY <2>1, <2>2 DEF HeldOwn, RowsConsistent
  <2>9. OldIds
    BY <2>1, <2>3, Kinds DEF OldIds
  <2>10. OnePosition
    BY <2>1, <2>2 DEF OnePosition
  <2>11. LinkFits
    BY <2>1, <2>3, Kinds DEF LinkFits
  <2> QED BY <2>5, <2>6, <2>7, <2>8, <2>9, <2>10, <2>11 DEF PositionsInv
<1>2. PositionsInv /\ StockFound /\ [Next]_vars => PositionsInv'
  <2> SUFFICES ASSUME PositionsInv, StockFound, [Next]_vars PROVE PositionsInv'
    OBVIOUS
  <2>1. ASSUME NEW c \in Create, NEW u \in User, NEW b \in Body, SubmitCreate(c, u, b)
        PROVE  PositionsInv'
    BY <2>1, SubmitCreateKeeps
  <2>2. ASSUME NEW c \in Create,
               CheckStock(c) \/ CheckExisting(c) \/ Insert(c) \/ Commit(c) \/ Abort(c)
        PROVE  PositionsInv'
    <3>1. CASE CheckStock(c)
      <4>1. pc[c] = "stock" /\ Running(c)
        BY <3>1 DEF CheckStock, Running
      <4>2. \/ \E s : Rollback(c, s)
            \/ Continue(c, "existing")
        BY <3>1 DEF CheckStock
      <4> QED BY <4>1, <4>2, RollbackKeeps, ContinueKeeps
    <3>2. CASE CheckExisting(c)
      <4>1. pc[c] = "existing" /\ Running(c)
        BY <3>2 DEF CheckExisting, Running
      <4>2. Rollback(c, "conflict") \/ Continue(c, "insert")
        BY <3>2 DEF CheckExisting
      <4> QED BY <4>1, <4>2, RollbackKeeps, ContinueKeeps
    <3>3. CASE Insert(c)
      BY <3>3, InsertKeeps
    <3>4. CASE Commit(c)
      BY <3>4, CommitKeeps
    <3>5. CASE Abort(c)
      BY <3>5, RollbackKeeps DEF Abort, Running
    <3> QED BY <2>2, <3>1, <3>2, <3>3, <3>4, <3>5
  <2>3. ASSUME NEW r \in Update, FindForUpdate(r) \/ WriteUpdate(r) PROVE PositionsInv'
    BY <2>3, FindForUpdateKeeps, WriteUpdateKeeps
  <2>4. ASSUME NEW r \in Delete, FindForDelete(r) \/ RemoveRow(r) PROVE PositionsInv'
    BY <2>4, FindForDeleteKeeps, RemoveRowKeeps
  <2>5. ASSUME NEW m \in Simulate, FindSimulated(m) \/ SaveSimulation(m) PROVE PositionsInv'
    BY <2>5, FindSimulatedKeeps, SaveSimulationKeeps
  <2>6. ASSUME NEW u \in User, NEW id \in DOMAIN table, NEW r \in Update, NEW p \in Patch,
               Submit(r, [user |-> u, id |-> id, patch |-> p])
        PROVE  PositionsInv'
    <3> DEFINE arg == [user |-> u, id |-> id, patch |-> p]
    <3>1. arg.patch \in Patch /\ r \in Req \ Create
      BY Kinds
    <3> HIDE DEF arg
    <3> QED BY <2>6, <3>1, SubmitKeeps DEF arg
  <2>7. ASSUME NEW u \in User, NEW id \in DOMAIN table, NEW r \in Delete,
               Submit(r, [user |-> u, id |-> id])
        PROVE  PositionsInv'
    BY <2>7, SubmitKeeps, Kinds
  <2>8. ASSUME NEW u \in User, NEW p \in Plan, NEW m \in Simulate,
               Submit(m, [user |-> u, plan |-> p])
        PROVE  PositionsInv'
    BY <2>8, SubmitKeeps, Kinds
  <2>9. CASE UNCHANGED vars
    <3>1. /\ table' = table /\ held' = held /\ left' = left /\ call' = call
          /\ seen' = seen /\ saved' = saved /\ pc' = pc
      BY <2>9 DEF vars
    <3>2. Typed' /\ FewStarted' /\ Progress' /\ HeldOwn' /\ RowsConsistent' /\ OldIds'
      BY <3>1
      DEF PositionsInv, Typed, FewStarted, Progress, HeldOwn, RowsConsistent, OldIds, Running, ByNumber
    <3>3. OnePosition' /\ LinkFits'
      BY <3>1 DEF PositionsInv, OnePosition, LinkFits, Fits, Taken, Owned, PositionsOf
    <3> QED BY <3>2, <3>3 DEF PositionsInv
  <2> QED BY <2>1, <2>2, <2>3, <2>4, <2>5, <2>6, <2>7, <2>8, <2>9 DEF Next
<1>3. PositionsInv /\ StockFound /\ [Next]_vars => StockFound'
  BY FoundStep
<1> QED BY <1>0, <1>1, <1>2, <1>3, PTL DEF Spec

\* The variables keep their types.
THEOREM TypeCorrect == Spec => []TypeOK
<1>1. PositionsInv => TypeOK
  <2> SUFFICES ASSUME PositionsInv PROVE TypeOK
    OBVIOUS
  <2>1. \A id \in DOMAIN table : table[id] \in Row
    BY DEF PositionsInv, Typed
  <2>2. ASSUME NEW c \in Create
        PROVE  /\ DOMAIN held[c] \subseteq Stock
               /\ \A s \in DOMAIN held[c] : held[c][s] \in Row
               /\ left[c] \in SUBSET Key /\ pc[c] \in {"idle", "done"} => held[c] = <<>>
    BY DEF PositionsInv, Typed, Holding, Progress, Running
  <2> QED BY <2>1, <2>2 DEF PositionsInv, Typed, TypeOK
<1> QED BY <1>1, Invariance, PTL

\* The columns of every position agree up to rounding, whatever the numbers.
THEOREM RowsAgree == Spec => []RowConsistent
<1>1. PositionsInv => RowConsistent
  BY DEF PositionsInv, RowsConsistent, Consistent, RowConsistent
<1> QED BY <1>1, Invariance, PTL

\* A saved simulation belongs to an existing position of its user and stock.
THEOREM SimulationsLinked == Spec => []SimulationLinked
<1>1. PositionsInv => SimulationLinked
  BY DEF PositionsInv, LinkFits, Fits, SimulationLinked
<1> QED BY <1>1, Invariance, PTL

\* A user has one position in a stock at most, also while creations overlap.
THEOREM OnePositionEach == Spec => []OnePosition
BY Invariance, PTL DEF PositionsInv

\* Creations that name their stocks by numbers never wait for each other in a
\* circle, however many others run besides.
THEOREM NoDeadlock == Spec => []NoWaitCycle
<1>1. PositionsInv => NoWaitCycle
  <2> SUFFICES ASSUME PositionsInv, NEW W \in (SUBSET Create) \ {{}}, \A c \in W : ByNumber(c),
                      ~\E c \in W : \A d \in W : ~WaitsFor(c, d)
               PROVE  FALSE
    BY DEF NoWaitCycle
  <2>0. W \subseteq Create /\ W # {} /\ \A c \in W : \E d \in W : WaitsFor(c, d)
    OBVIOUS
  <2>1. \A c \in W : pc[c] = "insert" /\ Running(c)
    BY <2>0 DEF WaitsFor, Running
  <2>2. IsFiniteSet(W)
    <3>1. W \subseteq {c \in Create : pc[c] # "idle"}
      BY <2>1
    <3> QED BY <3>1, FS_Subset DEF PositionsInv, FewStarted
  <2>3. \A c \in W : /\ call[c].body \in Body /\ left[c] # {}
                     /\ left[c] \subseteq KeysOf(call[c].body)
    BY <2>1 DEF PositionsInv, Typed, Progress
  <2>4. \A c \in W : Current(c) \in left[c] /\ StockId(c) = IdOf[Current(c)] /\ StockId(c) \in Nat
    <3>1. \A c \in W : Current(c) \in left[c]
      BY <2>3, CurrentLeft
    <3>2. \A c \in W : Current(c) \in Canonical
      BY <2>3, <3>1 DEF ByNumber
    <3> QED BY <3>1, <3>2, PositionsAssumption DEF StockId
  <2> DEFINE f == [c \in W |-> StockId(c)]
  <2>5. PICK c \in W : \A d \in W : f[d] <= f[c]
    <3>1. W # {} /\ \A d \in W : f[d] \in Int
      BY <2>0, <2>4
    <3> HIDE DEF f
    <3> QED BY <2>2, <3>1, Greatest
  <2>6. PICK d \in W : WaitsFor(c, d)
    BY <2>0
  <2>7. StockId(c) \in DOMAIN held[d]
    BY <2>6 DEF WaitsFor
  <2>8. StockId(c) < StockId(d)
    BY <2>1, <2>4, <2>7 DEF PositionsInv, Progress
  <2> QED BY <2>4, <2>5, <2>8
<1> QED BY <1>1, Invariance, PTL

\* A creation stores the positions of all the stocks in its body at once.
THEOREM CreationsAtomic == Spec => AllOrNothing
<1> DEFINE Whole(c) == (\E s \in Stock : <<c, s>> \in DOMAIN table' \ DOMAIN table) =>
                         {s \in Stock : <<c, s>> \in DOMAIN table'} = StocksOf(call[c].body)
<1>1. PositionsInv /\ [Next]_vars => [\A c \in Create : Whole(c)]_vars
  <2> SUFFICES ASSUME PositionsInv, [Next]_vars, NEW c \in Create PROVE Whole(c)
    OBVIOUS
  <2>1. CASE DOMAIN table' \subseteq DOMAIN table
    BY <2>1
  <2>2. ASSUME NEW d \in Create, Commit(d) PROVE Whole(c)
    <3>1. pc[d] = "commit" /\ DOMAIN table' = DOMAIN table \cup ({d} \X DOMAIN held[d])
      BY <2>2 DEF Commit, Published
    <3>2. CASE d = c
      <4>1. DOMAIN held[c] \subseteq Stock
        BY DEF PositionsInv, Typed, Holding
      <4>3. DOMAIN held[c] = StocksOf(call[c].body)
        BY <3>1, <3>2 DEF PositionsInv, Progress, Running, IdsOf
      <4>2. \A s \in Stock : <<c, s>> \notin DOMAIN table
        BY <3>1, <3>2 DEF PositionsInv, OldIds
      <4> QED BY <3>1, <3>2, <4>1, <4>2, <4>3
    <3>3. CASE d # c
      BY <3>1, <3>3
    <3> QED BY <3>2, <3>3
  <2>3. CASE UNCHANGED table
    BY <2>3
  <2>4. ASSUME NEW d \in Create, NEW u \in User, NEW b \in Body, SubmitCreate(d, u, b)
        PROVE  UNCHANGED table
    BY <2>4 DEF SubmitCreate
  <2>5. ASSUME NEW d \in Create, CheckStock(d) \/ CheckExisting(d) \/ Insert(d) \/ Abort(d)
        PROVE  UNCHANGED table
    BY <2>5 DEF CheckStock, CheckExisting, Insert, Abort, Rollback, Continue
  <2>6. ASSUME NEW r \in Update, FindForUpdate(r) \/ WriteUpdate(r)
        PROVE  DOMAIN table' \subseteq DOMAIN table
    BY <2>6 DEF FindForUpdate, WriteUpdate, Fail
  <2>7. ASSUME NEW r \in Delete, FindForDelete(r) \/ RemoveRow(r)
        PROVE  DOMAIN table' \subseteq DOMAIN table
    BY <2>7 DEF FindForDelete, RemoveRow, Fail, Continue, Without
  <2>8. ASSUME NEW m \in Simulate, FindSimulated(m) \/ SaveSimulation(m)
        PROVE  UNCHANGED table
    BY <2>8 DEF FindSimulated, SaveSimulation, Fail
  <2>9. ASSUME NEW r, NEW arg, Submit(r, arg) PROVE UNCHANGED table
    BY <2>9 DEF Submit
  <2>10. CASE UNCHANGED vars
    BY <2>3, <2>10 DEF vars
  <2> QED BY <2>1, <2>2, <2>3, <2>4, <2>5, <2>6, <2>7, <2>8, <2>9, <2>10 DEF Next
<1> QED BY <1>1, Invariance, PTL DEF Spec, AllOrNothing

-----------------------------------------------------------------------------
(* MarketRollup: the inductive invariant *)

Stored == ticks \cup pending

\* The types.  Only finitely many ticks have been captured.
RollupTyped ==
  /\ now \in Instant
  /\ ticks \subseteq Tick /\ pending \subseteq Tick /\ IsFiniteSet(Stored)
  /\ due \subseteq Jobs /\ zone \in {0, 1} /\ asleep \in {0, 1}
  /\ \A y \in DOMAIN daily : daily[y] \in Bar

\* Ticks are captured in the session, one by one, and inserted soon.
TicksTimed ==
  /\ \A t \in Stored : t.at <= now /\ LocalMinute(t.exchange, MinuteOf(t.at)) \in Session
  /\ \A t \in pending : now <= t.at + Late
  /\ \A t, u \in Stored : t.exchange = u.exchange /\ t.at = u.at => t = u

\* A job is only due at its time.
JobsOnTime ==
  /\ "ensure" \in due => Now % Length = EnsureAt
  /\ "retain" \in due => Now % Length = RetainAt
  /\ \A x \in Exchange \cap due : LocalMinute(x, Now) = RollAt

\* The day on which partitions were last created: today, once its job has run.
Past == Now % Length > EnsureAt \/ (Now % Length = EnsureAt /\ "ensure" \notin due)
LastEnsured == IF Past THEN KoreanDay(Now) - asleep ELSE KoreanDay(Now) - 1 - asleep

\* Every tick has its partition, and so have the days to come.
PartsAhead ==
  /\ \A t \in Stored : KoreanDay(MinuteOf(t.at)) \in parts
  /\ KoreanDay(Now) .. LastEnsured - zone + Ahead \subseteq parts

\* The rollup of minute m has run, or will never run.
Finished(m) == m < Rolled \/ (m = Rolled /\ "minute" \notin due)

\* The ticks of a finished minute are in its bar.
BarsRolled ==
  \A x \in Exchange : \A m \in Minutes \ lost :
    Finished(m) /\ TicksIn(x, m) # {} =>
      /\ <<x, m>> \in DOMAIN bars
      /\ bars[<<x, m>>] = WithTime(Summary(TicksIn(x, m)), m)

\* A retention that was due so far drops the ticks of minute m.
Expired(m) ==
  \E w \in Minutes : /\ w <= Now /\ w % Length = RetainAt
                     /\ KoreanDay(m) < KoreanDay(w) - Keep

\* A bar is of a minute that is over, and sums up the ticks of that minute until
\* these are dropped.
BarsOwn ==
  /\ DOMAIN bars \subseteq Exchange \X Minutes
  /\ \A x \in Exchange : \A m \in Minutes : <<x, m>> \in DOMAIN bars =>
       /\ m <= Rolled /\ LocalMinute(x, m) \in Session
       /\ bars[<<x, m>>].at = m
       /\ ~Expired(m) => /\ TicksIn(x, m) # {}
                         /\ bars[<<x, m>>] = WithTime(Summary(TicksIn(x, m)), m)

\* The inductive invariant.
RollupInv ==
  /\ RollupTyped /\ TicksTimed /\ JobsOnTime /\ PartsAhead /\ BarsRolled /\ BarsOwn

-----------------------------------------------------------------------------
(* MarketRollup: minutes and days *)

\* Division with remainder.
LEMMA DivMod ==
  ASSUME NEW n \in Int, NEW k \in Nat \ {0}
  PROVE  /\ n \div k \in Int /\ n % k \in Int
         /\ n = k * (n \div k) + (n % k) /\ 0 <= n % k /\ n % k < k
OBVIOUS

\* Quotient and remainder are unique.
LEMMA DivUnique ==
  ASSUME NEW n \in Int, NEW k \in Nat \ {0}, NEW q \in Int, NEW r \in Int,
         n = k * q + r, 0 <= r, r < k
  PROVE  n \div k = q /\ n % k = r
<1> DEFINE p == n \div k
           s == n % k
<1>1. p \in Int /\ s \in Int /\ k * p + s = k * q + r /\ 0 <= s /\ s < k
  BY DivMod
<1> HIDE DEF p, s
<1>2. k * (p - q) = r - s
  BY <1>1
<1>3. ~(p - q >= 1)
  <2> SUFFICES ASSUME p - q >= 1 PROVE FALSE
    OBVIOUS
  <2>1. k * (p - q) >= k
    BY <1>1
  <2> QED BY <1>1, <1>2, <2>1
<1>4. ~(p - q <= -1)
  <2> SUFFICES ASSUME p - q <= -1 PROVE FALSE
    OBVIOUS
  <2>1. k * (p - q) <= -k
    BY <1>1
  <2> QED BY <1>1, <1>2, <2>1
<1>5. p = q
  BY <1>1, <1>3, <1>4
<1> QED BY <1>1, <1>5 DEF p, s

\* A later moment is not in an earlier interval.
LEMMA DivMono ==
  ASSUME NEW m \in Int, NEW n \in Int, NEW k \in Nat \ {0}, m <= n
  PROVE  m \div k <= n \div k
OBVIOUS

\* The next moment is in the same interval or the first one of the next.
LEMMA NextDiv ==
  ASSUME NEW n \in Int, NEW k \in Nat \ {0}
  PROVE  \/ (n + 1) \div k = n \div k /\ (n + 1) % k = (n % k) + 1
         \/ (n + 1) \div k = (n \div k) + 1 /\ (n + 1) % k = 0 /\ n % k = k - 1
<1> DEFINE q == n \div k
           r == n % k
<1>1. q \in Int /\ r \in Int /\ n = k * q + r /\ 0 <= r /\ r < k
  BY DivMod
<1> HIDE DEF q, r
<1>2. CASE r < k - 1
  <2>1. n + 1 = k * q + (r + 1)
    BY <1>1
  <2>2. (n + 1) \div k = q /\ (n + 1) % k = r + 1
    BY <1>1, <1>2, <2>1, DivUnique
  <2> QED BY <2>2 DEF q, r
<1>3. CASE r = k - 1
  <2>1. n + 1 = k * (q + 1) + 0
    BY <1>1, <1>3
  <2>2. (n + 1) \div k = q + 1 /\ (n + 1) % k = 0
    BY <1>1, <2>1, DivUnique
  <2> QED BY <1>3, <2>2 DEF q, r
<1> QED BY <1>1, <1>2, <1>3

\* Instants lie in the minutes of the model, minutes in days.
LEMMA Calendar ==
  /\ \A i \in Instant : MinuteOf(i) \in Minutes
  /\ Minutes \subseteq Int
  /\ \A m \in Int : KoreanDay(m) \in Int
<1>1. Sub \in Nat \ {0} /\ Length \in Nat \ {0} /\ MaxDay \in Nat
  BY MarketRollupAssumption
<1> DEFINE all == MaxDay * Length
<1>2. all \in Nat
  BY <1>1
<1>3. ASSUME NEW i \in Instant PROVE MinuteOf(i) \in Minutes
  <2> DEFINE q == i \div Sub
             r == i % Sub
  <2>1. i \in Int /\ 0 <= i /\ i < all * Sub
    BY <1>1, <1>2 DEF Instant
  <2>2. q \in Int /\ r \in Int /\ i = Sub * q + r /\ 0 <= r /\ r < Sub
    BY <1>1, <2>1, DivMod
  <2> HIDE DEF q, r, all
  <2>3. ~(q < 0)
    <3> SUFFICES ASSUME q <= -1 PROVE FALSE
      BY <2>2
    <3>1. Sub * q <= -Sub
      BY <1>1, <2>2
    <3> QED BY <1>1, <2>1, <2>2, <3>1
  <2>4. ~(q >= all)
    <3> SUFFICES ASSUME q >= all PROVE FALSE
      OBVIOUS
    <3>1. Sub * q >= all * Sub
      BY <1>1, <1>2, <2>2
    <3> QED BY <1>1, <1>2, <2>1, <2>2, <3>1
  <2>5. q \in 0 .. all - 1
    BY <1>2, <2>2, <2>3, <2>4
  <2> QED BY <2>5 DEF q, all, MinuteOf, Minutes
<1> QED BY <1>1, <1>3, DivMod DEF KoreanDay, Minutes

-----------------------------------------------------------------------------
(* MarketRollup: every step keeps the invariant *)

\* A tick that is still to be inserted is of this minute or of the last one.
LEMMA PendingRecent ==
  ASSUME RollupInv, NEW t \in pending
  PROVE  Now - 1 <= MinuteOf(t.at) /\ MinuteOf(t.at) <= Now
<1>1. /\ t.at \in Int /\ now \in Int /\ t.at <= now /\ now <= t.at + Late
      /\ Late \in Nat /\ Late <= Sub /\ Sub \in Nat \ {0}
  BY MarketRollupAssumption DEF RollupInv, RollupTyped, TicksTimed, Stored, Tick, Instant
<1>2. MinuteOf(t.at) <= MinuteOf(now)
  BY <1>1, DivMono DEF MinuteOf
<1> DEFINE q == now \div Sub
           r == now % Sub
<1>3. q \in Int /\ r \in Int /\ now = Sub * q + r /\ 0 <= r /\ r < Sub
  BY <1>1, DivMod
<1> HIDE DEF q, r
<1>4. now - Sub = Sub * (q - 1) + r
  BY <1>1, <1>3
<1>5. (now - Sub) \div Sub = q - 1
  BY <1>1, <1>3, <1>4, DivUnique
<1>6. (now - Sub) \div Sub <= t.at \div Sub
  <2>1. now - Sub \in Int /\ now - Sub <= t.at
    BY <1>1
  <2> QED BY <1>1, <2>1, DivMono
<1> QED BY <1>2, <1>5, <1>6 DEF q, MinuteOf, Now

\* The current minute and the days of minutes are numbers.
LEMMA NowTyped ==
  ASSUME RollupInv
  PROVE  Now \in Minutes /\ Now \in Int /\ KoreanDay(Now) \in Int /\ Rolled \in Int
<1>1. Now \in Minutes
  BY Calendar DEF RollupInv, RollupTyped, Now
<1>2. Now \in Int
  BY <1>1, Calendar
<1> QED BY <1>1, <1>2, Calendar DEF Rolled

\* What a step that leaves the clock, the bars and the ticks of the minutes that
\* are over alone does to the bars.
LEMMA BarsKept ==
  ASSUME RollupInv, UNCHANGED <<now, bars>>, lost \subseteq lost',
         \A m \in Minutes \ lost' : Finished(m)' => Finished(m),
         \A x \in Exchange, m \in Minutes : m <= Rolled => TicksIn(x, m)' = TicksIn(x, m)
  PROVE  BarsRolled' /\ BarsOwn'
<1>1. Now' = Now /\ Rolled' = Rolled /\ Rolled \in Int
  BY NowTyped DEF Now, Rolled
<1>2. \A m \in Minutes : m \in Int
  BY Calendar
<1>3. ASSUME NEW x \in Exchange, NEW m \in Minutes \ lost', Finished(m)', TicksIn(x, m)' # {}
      PROVE  /\ <<x, m>> \in DOMAIN bars'
             /\ bars'[<<x, m>>] = WithTime(Summary(TicksIn(x, m)'), m)
  <2>1. Finished(m) /\ m \notin lost
    BY <1>3
  <2>2. m <= Rolled
    BY <1>1, <1>2, <2>1 DEF Finished
  <2>3. TicksIn(x, m)' = TicksIn(x, m)
    BY <2>2
  <2> QED BY <1>3, <2>1, <2>3 DEF RollupInv, BarsRolled
<1>4. BarsRolled'
  BY <1>3 DEF BarsRolled, WithTime, Summary
<1>5. ASSUME NEW x \in Exchange, NEW m \in Minutes, <<x, m>> \in DOMAIN bars'
      PROVE  /\ m <= Rolled' /\ LocalMinute(x, m) \in Session
             /\ bars'[<<x, m>>].at = m
             /\ ~Expired(m)' => /\ TicksIn(x, m)' # {}
                                /\ bars'[<<x, m>>] = WithTime(Summary(TicksIn(x, m)'), m)
  <2>1. /\ m <= Rolled /\ LocalMinute(x, m) \in Session /\ bars[<<x, m>>].at = m
        /\ ~Expired(m) => /\ TicksIn(x, m) # {}
                          /\ bars[<<x, m>>] = WithTime(Summary(TicksIn(x, m)), m)
    BY <1>5 DEF RollupInv, BarsOwn
  <2>2. TicksIn(x, m)' = TicksIn(x, m)
    BY <2>1
  <2>3. Expired(m)' <=> Expired(m)
    BY <1>1 DEF Expired
  <2> QED BY <1>1, <2>1, <2>2, <2>3
<1>6. BarsOwn'
  BY <1>5 DEF RollupInv, BarsOwn
<1> QED BY <1>4, <1>6

\* A tick is captured at the current instant, on a day that has its partition.
LEMMA CaptureKeeps ==
  ASSUME RollupInv, NEW x \in Exchange, Capture(x)
  PROVE  RollupInv'
<1> USE DEF RollupInv
<1> DEFINE t == [exchange |-> x, at |-> now, price |-> Price[now], volume |-> Volume[now]]
<1>1. /\ t.exchange = x /\ t.at = now /\ t \in Tick
  BY MarketRollupAssumption DEF RollupTyped, Tick
<1> HIDE DEF t
<1>2. /\ LocalMinute(x, Now) \in Session /\ pending' = pending \cup {t}
      /\ \A u \in Stored : u.exchange = x => u.at # now
      /\ now' = now /\ ticks' = ticks /\ bars' = bars /\ daily' = daily /\ parts' = parts
      /\ due' = due /\ lost' = lost /\ asleep' = asleep /\ zone' = zone
  BY DEF Capture, tables, Stored, t
<1>3. Stored' = Stored \cup {t} /\ Now' = Now
  BY <1>2 DEF Stored, Now
<1>4. RollupTyped'
  <2>1. IsFiniteSet(Stored')
    BY <1>3, FS_AddElement DEF RollupTyped
  <2> QED BY <1>1, <1>2, <2>1 DEF RollupTyped
<1>5. TicksTimed'
  <2>1. now \in Int /\ Late \in Nat
    BY MarketRollupAssumption DEF RollupTyped, Instant
  <2>2. now <= t.at + Late /\ t.at <= now
    BY <1>1, <2>1
  <2> QED BY <1>1, <1>2, <1>3, <2>2 DEF TicksTimed, Now
<1>6. JobsOnTime'
  BY <1>2, <1>3 DEF JobsOnTime
<1>7. PartsAhead'
  <2>1. LastEnsured' = LastEnsured
    BY <1>2, <1>3 DEF LastEnsured, Past
  <2>2. KoreanDay(Now) \in parts
    <3>1. /\ KoreanDay(Now) \in Int /\ zone \in {0, 1} /\ asleep \in {0, 1} /\ Ahead \in Nat
          /\ Ahead >= 3
      BY NowTyped, MarketRollupAssumption, CalendarAssumption DEF RollupTyped
    <3>2. LastEnsured \in Int /\ KoreanDay(Now) - 2 <= LastEnsured
      BY <3>1 DEF LastEnsured
    <3>3. KoreanDay(Now) \in KoreanDay(Now) .. LastEnsured - zone + Ahead
      BY <3>1, <3>2
    <3> QED BY <3>3 DEF PartsAhead
  <2> QED BY <1>1, <1>2, <1>3, <2>1, <2>2 DEF PartsAhead, Now
<1>8. BarsRolled' /\ BarsOwn'
  <2>1. \A e \in Exchange, m \in Minutes : TicksIn(e, m)' = TicksIn(e, m)
    BY <1>2 DEF TicksIn
  <2>2. \A m \in Minutes : Finished(m)' => Finished(m)
    BY <1>2, <1>3 DEF Finished, Rolled
  <2> QED BY <1>2, <2>1, <2>2, BarsKept
<1> QED BY <1>4, <1>5, <1>6, <1>7, <1>8

\* A tick is inserted into the minute of its capture, which is not rolled yet.
LEMMA InsertTickKeeps ==
  ASSUME RollupInv, NEW t \in pending, InsertTick(t)
  PROVE  RollupInv'
<1> USE DEF RollupInv
<1>1. /\ pending' = pending \ {t} /\ ticks' \in {ticks, ticks \cup {t}}
      /\ now' = now /\ bars' = bars /\ daily' = daily /\ parts' = parts
      /\ due' = due /\ lost' = lost /\ asleep' = asleep /\ zone' = zone
  BY DEF InsertTick
<1>2. Stored' \subseteq Stored /\ Now' = Now
  BY <1>1 DEF Stored, Now
<1>3. RollupTyped'
  <2>1. IsFiniteSet(Stored')
    BY <1>2, FS_Subset DEF RollupTyped
  <2> QED BY <1>1, <2>1 DEF RollupTyped
<1>4. TicksTimed'
  BY <1>1, <1>2 DEF TicksTimed
<1>5. JobsOnTime'
  BY <1>1, <1>2 DEF JobsOnTime
<1>6. PartsAhead'
  <2>1. LastEnsured' = LastEnsured
    BY <1>1, <1>2 DEF LastEnsured, Past
  <2> QED BY <1>1, <1>2, <2>1 DEF PartsAhead
<1>7. BarsRolled' /\ BarsOwn'
  <2>1. Rolled < MinuteOf(t.at)
    <3>1. Now \in Int /\ MinuteOf(t.at) \in Int
      BY NowTyped, Calendar DEF RollupTyped, Tick
    <3> QED BY <3>1, PendingRecent DEF Rolled
  <2>2. ASSUME NEW e \in Exchange, NEW m \in Minutes, m <= Rolled
        PROVE  TicksIn(e, m)' = TicksIn(e, m)
    <3>1. m # MinuteOf(t.at)
      BY <2>1, <2>2, NowTyped, Calendar DEF RollupTyped, Tick
    <3> QED BY <1>1, <3>1 DEF TicksIn
  <2>3. \A m \in Minutes : Finished(m)' => Finished(m)
    BY <1>1, <1>2 DEF Finished, Rolled
  <2> QED BY <1>1, <2>2, <2>3, BarsKept
<1> QED BY <1>3, <1>4, <1>5, <1>6, <1>7

\* The rollup of a minute writes the bar of all its ticks.
LEMMA RollMinuteKeeps ==
  ASSUME RollupInv, RollMinute
  PROVE  RollupInv'
<1> USE DEF RollupInv
<1> DEFINE found == {x \in Exchange : TicksIn(x, Rolled) # {}}
<1>1. /\ "minute" \in due /\ due' = due \ {"minute"}
      /\ bars' = [b \in DOMAIN bars \cup found \X {Rolled} |->
                IF b \in found \X {Rolled}
                THEN WithTime(Summary(TicksIn(b[1], b[2])), b[2]) ELSE bars[b]]
      /\ now' = now /\ pending' = pending /\ ticks' = ticks /\ daily' = daily /\ parts' = parts
      /\ lost' = lost /\ asleep' = asleep /\ zone' = zone
  BY DEF RollMinute, Done
<1>2. Stored' = Stored /\ Now' = Now /\ Rolled' = Rolled
  BY <1>1 DEF Stored, Now, Rolled
<1>3. \A x \in Exchange : x \in due' => x \in due
  BY <1>1
<1>4. \A x, m : TicksIn(x, m)' = TicksIn(x, m)
  BY <1>1 DEF TicksIn
<1>5. \A x \in Exchange, m \in Minutes :
        /\ <<x, m>> \in DOMAIN bars' <=>
             <<x, m>> \in DOMAIN bars \/ (x \in found /\ m = Rolled)
        /\ x \in found /\ m = Rolled =>
             bars'[<<x, m>>] = WithTime(Summary(TicksIn(x, m)), m)
        /\ <<x, m>> \in DOMAIN bars /\ ~(x \in found /\ m = Rolled) =>
             bars'[<<x, m>>] = bars[<<x, m>>]
  BY <1>1
<1>6. /\ found \subseteq Exchange
      /\ \A x \in found : Rolled \in Minutes /\ LocalMinute(x, Rolled) \in Session
  <2> SUFFICES ASSUME NEW x \in found
               PROVE  Rolled \in Minutes /\ LocalMinute(x, Rolled) \in Session
    OBVIOUS
  <2>1. PICK t \in ticks : t.exchange = x /\ MinuteOf(t.at) = Rolled
    BY DEF TicksIn
  <2> QED BY <2>1, Calendar DEF RollupTyped, Tick, TicksTimed, Stored
<1>7. \A x \in Exchange : TicksIn(x, Rolled) # {} <=> x \in found
  OBVIOUS
<1>8. DOMAIN bars' \subseteq Exchange \X Minutes
  BY <1>1, <1>6 DEF BarsOwn
<1> HIDE DEF found
<1>9. RollupTyped'
  BY <1>1, <1>2 DEF RollupTyped
<1>10. TicksTimed'
  BY <1>1, <1>2 DEF TicksTimed
<1>11. JobsOnTime'
  BY <1>1, <1>2, <1>3 DEF JobsOnTime
<1>12. PartsAhead'
  <2>1. LastEnsured' = LastEnsured
    BY <1>1, <1>2 DEF LastEnsured, Past
  <2> QED BY <1>1, <1>2, <2>1 DEF PartsAhead
<1>13. BarsRolled'
  <2>1. ASSUME NEW x \in Exchange, NEW m \in Minutes \ lost', Finished(m)', TicksIn(x, m)' # {}
        PROVE  /\ <<x, m>> \in DOMAIN bars'
               /\ bars'[<<x, m>>] = WithTime(Summary(TicksIn(x, m)'), m)
    <3>1. TicksIn(x, m)' = TicksIn(x, m) /\ m \notin lost
      BY <1>1, <1>4
    <3>2. CASE m = Rolled
      BY <1>5, <1>7, <2>1, <3>1, <3>2
    <3>3. CASE m # Rolled
      <4>1. Finished(m)
        BY <1>2, <2>1, <3>3 DEF Finished
      <4> QED BY <1>5, <2>1, <3>1, <3>3, <4>1 DEF BarsRolled
    <3> QED BY <3>2, <3>3
  <2> QED BY <2>1 DEF BarsRolled, WithTime, Summary
<1>14. BarsOwn'
  <2> SUFFICES ASSUME NEW x \in Exchange, NEW m \in Minutes, <<x, m>> \in DOMAIN bars'
               PROVE  /\ m <= Rolled /\ LocalMinute(x, m) \in Session
                      /\ bars'[<<x, m>>].at = m
                      /\ ~Expired(m) => /\ TicksIn(x, m) # {}
                                        /\ bars'[<<x, m>>] =
                                             WithTime(Summary(TicksIn(x, m)), m)
    BY <1>2, <1>4, <1>8 DEF BarsOwn, WithTime, Summary, Expired
  <2>1. CASE x \in found /\ m = Rolled
    <3>1. WithTime(Summary(TicksIn(x, m)), m).at = m
      BY DEF WithTime
    <3> QED BY <1>5, <1>6, <1>7, <2>1, <3>1, NowTyped
  <2>2. CASE ~(x \in found /\ m = Rolled)
    BY <1>5, <2>2 DEF BarsOwn
  <2> QED BY <2>1, <2>2
<1> QED BY <1>9, <1>10, <1>11, <1>12, <1>13, <1>14

\* Partitions are created from yesterday or today on.
LEMMA EnsurePartitionsKeeps ==
  ASSUME RollupInv, EnsurePartitions
  PROVE  RollupInv'
<1> USE DEF RollupInv
<1>1. /\ "ensure" \in due /\ due' = due \ {"ensure"}
      /\ parts' = parts \cup Ensured(KoreanDay(Now)) /\ asleep' = 0
      /\ now' = now /\ pending' = pending /\ ticks' = ticks /\ bars' = bars /\ daily' = daily
      /\ lost' = lost /\ zone' = zone
  BY DEF EnsurePartitions, Done, tables
<1>2. Stored' = Stored /\ Now' = Now
  BY <1>1 DEF Stored, Now
<1>3. RollupTyped' /\ TicksTimed'
  BY <1>1, <1>2 DEF RollupTyped, TicksTimed
<1>4. JobsOnTime'
  <2>1. \A x \in Exchange : x \in due' => x \in due
    BY <1>1
  <2> QED BY <1>1, <1>2, <2>1 DEF JobsOnTime
<1>5. PartsAhead'
  <2>1. Now % Length = EnsureAt
    BY <1>1 DEF JobsOnTime
  <2>2. LastEnsured' = KoreanDay(Now)
    BY <1>1, <1>2, <2>1, NowTyped DEF LastEnsured, Past
  <2>3. KoreanDay(Now) \in Int /\ zone \in {0, 1} /\ Ahead \in Nat
    BY NowTyped, MarketRollupAssumption DEF RollupTyped
  <2>4. KoreanDay(Now) .. KoreanDay(Now) - zone + Ahead \subseteq Ensured(KoreanDay(Now))
    BY <2>3 DEF Ensured
  <2>5. parts \subseteq parts'
    BY <1>1
  <2> QED BY <1>1, <1>2, <2>2, <2>4, <2>5 DEF PartsAhead
<1>6. BarsRolled' /\ BarsOwn'
  <2>1. \A e \in Exchange, m \in Minutes : TicksIn(e, m)' = TicksIn(e, m)
    BY <1>1 DEF TicksIn
  <2>2. \A m \in Minutes : Finished(m)' => Finished(m)
    BY <1>1, <1>2 DEF Finished, Rolled
  <2> QED BY <1>1, <2>1, <2>2, BarsKept
<1> QED BY <1>3, <1>4, <1>5, <1>6

\* The retention keeps today's ticks, those that are still to come included.
LEMMA RetentionKeeps ==
  ASSUME RollupInv, Retention
  PROVE  RollupInv'
<1> USE DEF RollupInv
<1>1. /\ "retain" \in due /\ due' = due \ {"retain"}
      /\ parts' = {d \in parts : d >= Cutoff}
      /\ ticks' = {t \in ticks : KoreanDay(MinuteOf(t.at)) >= Cutoff}
      /\ now' = now /\ pending' = pending /\ bars' = bars /\ daily' = daily
      /\ lost' = lost /\ zone' = zone /\ asleep' = asleep
  BY DEF Retention, Done
<1>2. /\ Stored' = {t \in ticks : KoreanDay(MinuteOf(t.at)) >= Cutoff} \cup pending
      /\ Stored' \subseteq Stored /\ Now' = Now /\ Rolled' = Rolled
  BY <1>1 DEF Stored, Now, Rolled
<1>3. RollupTyped'
  <2>1. IsFiniteSet(Stored')
    BY <1>2, FS_Subset DEF RollupTyped
  <2> QED BY <1>1, <2>1 DEF RollupTyped
<1>4. TicksTimed'
  BY <1>1, <1>2 DEF TicksTimed
<1>5. JobsOnTime'
  <2>1. \A x \in Exchange : x \in due' => x \in due
    BY <1>1
  <2> QED BY <1>1, <1>2, <2>1 DEF JobsOnTime
<1>6. /\ KoreanDay(Now) \in Int /\ Now \in Int /\ Now \in Minutes /\ Keep \in Nat
      /\ Cutoff \in Int
      /\ Cutoff = KoreanDay(Now) - Keep /\ Now % Length = RetainAt
  BY <1>1, NowTyped, MarketRollupAssumption DEF JobsOnTime, Cutoff
<1>7. PartsAhead'
  <2>1. LastEnsured' = LastEnsured
    BY <1>1, <1>2 DEF LastEnsured, Past
  <2>2. \A d \in Int : d \in KoreanDay(Now) .. LastEnsured - zone + Ahead => d >= Cutoff
    BY <1>6
  <2>3. KoreanDay(Now) .. LastEnsured - zone + Ahead \subseteq parts'
    BY <1>1, <2>2 DEF PartsAhead
  <2>4. ASSUME NEW t \in pending PROVE KoreanDay(MinuteOf(t.at)) >= Cutoff
    <3>1. MinuteOf(t.at) \in Int /\ Now - 1 <= MinuteOf(t.at) /\ Length \in Nat \ {0}
      BY PendingRecent, Calendar, MarketRollupAssumption DEF RollupTyped, Tick
    <3>2. KoreanDay(Now - 1) = KoreanDay(Now)
      <4> DEFINE n == Now - 1
      <4>1. n \in Int /\ n + 1 = Now
        BY <1>6
      <4>2. Now % Length # 0
        BY <1>6, <3>1, CalendarAssumption
      <4> HIDE DEF n
      <4>3. (n + 1) \div Length = n \div Length
        BY <3>1, <4>1, <4>2, NextDiv
      <4> QED BY <4>1, <4>3 DEF n, KoreanDay
    <3>3. KoreanDay(Now - 1) <= KoreanDay(MinuteOf(t.at))
      <4>1. Now - 1 \in Int
        BY <1>6
      <4> QED BY <3>1, <4>1, DivMono DEF KoreanDay
    <3> QED BY <1>6, <3>1, <3>2, <3>3, Calendar
  <2>5. \A t \in Stored' : KoreanDay(MinuteOf(t.at)) \in parts'
    BY <1>1, <1>2, <2>4 DEF PartsAhead, Stored
  <2> QED BY <1>1, <1>2, <2>1, <2>3, <2>5 DEF PartsAhead
<1>8. \A x, m : TicksIn(x, m)' = IF KoreanDay(m) >= Cutoff THEN TicksIn(x, m) ELSE {}
  BY <1>1 DEF TicksIn
<1>9. BarsRolled'
  <2>1. ASSUME NEW x \in Exchange, NEW m \in Minutes \ lost', Finished(m)', TicksIn(x, m)' # {}
        PROVE  /\ <<x, m>> \in DOMAIN bars'
               /\ bars'[<<x, m>>] = WithTime(Summary(TicksIn(x, m)'), m)
    <3>1. TicksIn(x, m)' = TicksIn(x, m) /\ m \notin lost
      BY <1>1, <1>8, <2>1
    <3>2. Finished(m)
      BY <1>1, <1>2, <2>1 DEF Finished
    <3> QED BY <1>1, <2>1, <3>1, <3>2 DEF BarsRolled
  <2> QED BY <2>1 DEF BarsRolled, WithTime, Summary
<1>10. BarsOwn'
  <2>1. ASSUME NEW x \in Exchange, NEW m \in Minutes, <<x, m>> \in DOMAIN bars'
        PROVE  /\ m <= Rolled' /\ LocalMinute(x, m) \in Session
               /\ bars'[<<x, m>>].at = m
               /\ ~Expired(m)' => /\ TicksIn(x, m)' # {}
                                  /\ bars'[<<x, m>>] = WithTime(Summary(TicksIn(x, m)'), m)
    <3>1. Expired(m)' <=> Expired(m)
      BY <1>2 DEF Expired
    <3>2. ~Expired(m) => KoreanDay(m) >= Cutoff
      BY <1>6, Calendar DEF Expired
    <3>3. ~Expired(m) => TicksIn(x, m)' = TicksIn(x, m)
      BY <1>8, <3>2
    <3> QED BY <1>1, <1>2, <2>1, <3>1, <3>3 DEF BarsOwn
  <2> QED BY <1>1, <2>1 DEF BarsOwn
<1> QED BY <1>3, <1>4, <1>5, <1>7, <1>9, <1>10

\* A job that does not run leaves everything but the record of it alone.
LEMMA MissKeeps ==
  ASSUME RollupInv, NEW job \in Jobs, Miss(job)
  PROVE  RollupInv'
<1> USE DEF RollupInv
<1>1. /\ job \in due /\ due' = due \ {job}
      /\ lost' = (IF job = "minute" /\ \E x \in Exchange : TicksIn(x, Rolled) # {}
                  THEN lost \cup {Rolled} ELSE lost)
      /\ asleep' = (IF job = "ensure" THEN asleep + 1 ELSE asleep) /\ asleep' <= 1
      /\ now' = now /\ pending' = pending /\ ticks' = ticks /\ bars' = bars /\ daily' = daily
      /\ parts' = parts /\ zone' = zone
  BY DEF Miss, Done, tables
<1>2. Stored' = Stored /\ Now' = Now /\ Rolled' = Rolled
  BY <1>1 DEF Stored, Now, Rolled
<1>3. asleep' \in {0, 1}
  BY <1>1 DEF RollupTyped
<1>4. RollupTyped' /\ TicksTimed'
  BY <1>1, <1>2, <1>3 DEF RollupTyped, TicksTimed
<1>5. JobsOnTime'
  <2>1. \A x \in Exchange : x \in due' => x \in due
    BY <1>1
  <2> QED BY <1>1, <1>2, <2>1 DEF JobsOnTime
<1>6. PartsAhead'
  <2>1. LastEnsured' = LastEnsured
    <3>1. CASE job = "ensure"
      <4>1. Now % Length = EnsureAt
        BY <1>1, <3>1 DEF JobsOnTime
      <4>2. ~Past /\ Past'
        BY <1>1, <1>2, <3>1, <4>1, CalendarAssumption DEF Past
      <4>3. asleep \in Int /\ KoreanDay(Now) \in Int
        BY NowTyped DEF RollupTyped
      <4> QED BY <1>1, <1>2, <3>1, <4>2, <4>3 DEF LastEnsured
    <3>2. CASE job # "ensure"
      BY <1>1, <1>2, <3>2 DEF LastEnsured, Past
    <3> QED BY <3>1, <3>2
  <2> QED BY <1>1, <1>2, <2>1 DEF PartsAhead
<1>7. \A x, m : TicksIn(x, m)' = TicksIn(x, m)
  BY <1>1 DEF TicksIn
<1>8. BarsRolled'
  <2>1. ASSUME NEW x \in Exchange, NEW m \in Minutes \ lost', Finished(m)', TicksIn(x, m)' # {}
        PROVE  /\ <<x, m>> \in DOMAIN bars'
               /\ bars'[<<x, m>>] = WithTime(Summary(TicksIn(x, m)'), m)
    <3>1. TicksIn(x, m)' = TicksIn(x, m)
      BY <1>7
    <3>2. Finished(m) /\ m \notin lost
      BY <1>1, <1>2, <2>1, <3>1 DEF Finished
    <3> QED BY <1>1, <2>1, <3>1, <3>2 DEF BarsRolled
  <2> QED BY <2>1 DEF BarsRolled, WithTime, Summary
<1>9. BarsOwn'
  <2>1. ASSUME NEW x \in Exchange, NEW m \in Minutes, <<x, m>> \in DOMAIN bars'
        PROVE  /\ m <= Rolled' /\ LocalMinute(x, m) \in Session
               /\ bars'[<<x, m>>].at = m
               /\ ~Expired(m)' => /\ TicksIn(x, m)' # {}
                                  /\ bars'[<<x, m>>] = WithTime(Summary(TicksIn(x, m)'), m)
    <3>1. (Expired(m)' <=> Expired(m)) /\ TicksIn(x, m)' = TicksIn(x, m)
      BY <1>2, <1>7 DEF Expired
    <3> QED BY <1>1, <1>2, <2>1, <3>1 DEF BarsOwn
  <2> QED BY <1>1, <2>1 DEF BarsOwn
<1> QED BY <1>4, <1>5, <1>6, <1>8, <1>9

\* Time goes on when all jobs of the minute are through.
LEMMA AdvanceKeeps ==
  ASSUME RollupInv, Advance
  PROVE  RollupInv'
<1> USE DEF RollupInv
<1>1. /\ due = {} /\ now + 1 \in Instant /\ now' = now + 1
      /\ \A t \in pending : now < t.at + Late
      /\ due' = (IF MinuteOf(now + 1) # Now THEN JobsAt(MinuteOf(now + 1)) ELSE {})
      /\ pending' = pending /\ ticks' = ticks /\ bars' = bars /\ daily' = daily
      /\ parts' = parts /\ lost' = lost /\ asleep' = asleep /\ zone' = zone
  BY DEF Advance, tables
<1>2. Stored' = Stored
  BY <1>1 DEF Stored
<1>3. /\ now \in Int /\ Late \in Nat /\ Length \in Nat \ {0} /\ Sub \in Nat \ {0}
      /\ Now \in Int /\ Now \in Minutes /\ KoreanDay(Now) \in Int
      /\ EnsureAt \in Nat \ {0} /\ EnsureAt < Length
  BY NowTyped, MarketRollupAssumption, CalendarAssumption DEF RollupTyped, Instant
<1>4. Now' = Now \/ Now' = Now + 1
  BY <1>1, <1>3, NextDiv DEF Now, MinuteOf
<1>5. RollupTyped'
  <2>1. due' \subseteq Jobs
    BY <1>1 DEF JobsAt, Jobs
  <2> QED BY <1>1, <1>2, <2>1 DEF RollupTyped
<1>6. TicksTimed'
  <2>1. \A t \in Stored : t.at \in Int
    BY DEF RollupTyped, Stored, Tick, Instant
  <2> QED BY <1>1, <1>2, <1>3, <2>1 DEF TicksTimed, Stored
<1>7. Now' # Now => Now' = Now + 1 /\ due' = JobsAt(Now + 1)
  BY <1>1, <1>4 DEF Now
<1>8. Now' = Now => due' = {}
  BY <1>1 DEF Now
<1>9. JobsOnTime'
  <2>1. CASE Now' = Now
    BY <1>8, <2>1 DEF JobsOnTime
  <2>2. CASE Now' # Now
    <3>1. \A x \in Exchange : x \in JobsAt(Now + 1) => LocalMinute(x, Now + 1) = RollAt
      BY MarketRollupAssumption DEF JobsAt
    <3>2. "ensure" \in JobsAt(Now + 1) => (Now + 1) % Length = EnsureAt
      BY MarketRollupAssumption DEF JobsAt
    <3>3. "retain" \in JobsAt(Now + 1) => (Now + 1) % Length = RetainAt
      BY MarketRollupAssumption DEF JobsAt
    <3> QED BY <1>7, <2>2, <3>1, <3>2, <3>3 DEF JobsOnTime
  <2> QED BY <2>1, <2>2
<1>10. PartsAhead'
  <2>1. CASE Now' = Now
    BY <1>1, <1>2, <1>8, <2>1 DEF PartsAhead, LastEnsured, Past
  <2>2. CASE Now' # Now
    <3>1. Now' = Now + 1 /\ due' = JobsAt(Now + 1)
      BY <1>7, <2>2
    <3>2. /\ Now % Length \in Int /\ (Now + 1) % Length \in Int /\ Now + 1 \in Int
      BY <1>3, DivMod
    <3>3. "ensure" \in due' <=> (Now + 1) % Length = EnsureAt
      BY <3>1, MarketRollupAssumption DEF JobsAt
    <3>4. Past' <=> (Now + 1) % Length > EnsureAt
      BY <3>1, <3>3 DEF Past
    <3>5. Past <=> Now % Length >= EnsureAt
      BY <1>1, <1>3, <3>2 DEF Past
    <3>6. \/ KoreanDay(Now + 1) = KoreanDay(Now) /\ (Now + 1) % Length = (Now % Length) + 1
          \/ /\ KoreanDay(Now + 1) = KoreanDay(Now) + 1
             /\ (Now + 1) % Length = 0 /\ Now % Length = Length - 1
      BY <1>3, NextDiv DEF KoreanDay
    <3>7. asleep \in Int /\ asleep' = asleep
      BY <1>1 DEF RollupTyped
    <3>8. LastEnsured' = LastEnsured
      BY <1>3, <3>1, <3>2, <3>4, <3>5, <3>6, <3>7 DEF LastEnsured
    <3>9. KoreanDay(Now) <= KoreanDay(Now)' /\ KoreanDay(Now)' \in Int
      BY <1>3, <3>1, <3>6
    <3>10. KoreanDay(Now)' .. LastEnsured - zone + Ahead \subseteq parts
      BY <1>3, <3>9 DEF PartsAhead
    <3> QED BY <1>1, <1>2, <3>8, <3>10 DEF PartsAhead
  <2> QED BY <2>1, <2>2
<1>11. \A x, m : TicksIn(x, m)' = TicksIn(x, m)
  BY <1>1 DEF TicksIn
<1>12. \A m \in Minutes : Finished(m)' => Finished(m)
  <2>1. CASE Now' = Now
    BY <1>1, <1>8, <2>1 DEF Finished, Rolled
  <2>2. CASE Now' # Now
    <3>1. "minute" \in due'
      BY <1>7, <2>2 DEF JobsAt
    <3>2. \A m \in Minutes : m \in Int
      BY Calendar
    <3> QED BY <1>1, <1>3, <1>7, <2>2, <3>1, <3>2 DEF Finished, Rolled
  <2> QED BY <2>1, <2>2
<1>13. BarsRolled'
  <2>1. ASSUME NEW x \in Exchange, NEW m \in Minutes \ lost', Finished(m)', TicksIn(x, m)' # {}
        PROVE  /\ <<x, m>> \in DOMAIN bars'
               /\ bars'[<<x, m>>] = WithTime(Summary(TicksIn(x, m)'), m)
    BY <1>1, <1>11, <1>12, <2>1 DEF BarsRolled
  <2> QED BY <2>1 DEF BarsRolled, WithTime, Summary
<1>14. BarsOwn'
  <2>1. ASSUME NEW x \in Exchange, NEW m \in Minutes, <<x, m>> \in DOMAIN bars'
        PROVE  /\ m <= Rolled' /\ LocalMinute(x, m) \in Session
               /\ bars'[<<x, m>>].at = m
               /\ ~Expired(m)' => /\ TicksIn(x, m)' # {}
                                  /\ bars'[<<x, m>>] = WithTime(Summary(TicksIn(x, m)'), m)
    <3>1. Expired(m) => Expired(m)'
      <4>1. \A w \in Minutes : w <= Now => w <= Now'
        BY <1>3, <1>4, Calendar
      <4> QED BY <4>1 DEF Expired
    <3>2. m <= Rolled => m <= Rolled'
      BY <1>3, <1>4, Calendar DEF Rolled
    <3> QED BY <1>1, <1>11, <2>1, <3>1, <3>2 DEF BarsOwn
  <2> QED BY <1>1, <2>1 DEF BarsOwn
<1> QED BY <1>5, <1>6, <1>9, <1>10, <1>13, <1>14

-----------------------------------------------------------------------------
(* MarketRollup: two stages of sums and extremes are one *)

\* The ticks of one stock: finitely many, at different instants.
Proper(T) ==
  /\ T \subseteq Tick /\ IsFiniteSet(T) /\ T # {}
  /\ \A t, u \in T : t.at = u.at => t = u

Part(T, m) == {t \in T : MinuteOf(t.at) = m}
MinutesOf(T) == {MinuteOf(t.at) : t \in T}
Prices(T) == {t.price : t \in T}
Volumes(T) == SumOver([t \in T |-> t.volume], T)

\* The earliest element is the first one, if no other is as early.
LEMMA FirstIs ==
  ASSUME NEW S, NEW x \in S, \A y \in S : y.at \in Int /\ x.at <= y.at,
         \A y \in S : y.at = x.at => y = x
  PROVE  First(S) = x
BY DEF First

\* The latest element is the last one, if no other is as late.
LEMMA LastIs ==
  ASSUME NEW S, NEW x \in S, \A y \in S : y.at \in Int /\ y.at <= x.at,
         \A y \in S : y.at = x.at => y = x
  PROVE  Last(S) = x
BY DEF Last

\* What the greatest number is.
LEMMA MaxIs ==
  ASSUME NEW S, NEW x \in S, \A y \in S : y \in Int /\ y <= x
  PROVE  Max(S) = x
BY DEF Max

\* What the least number is.
LEMMA MinIs ==
  ASSUME NEW S, NEW x \in S, \A y \in S : y \in Int /\ x <= y
  PROVE  Min(S) = x
BY DEF Min

\* The bar of some ticks: two of them are its open and close, two its high and low.
LEMMA SummaryFits ==
  ASSUME NEW T, Proper(T)
  PROVE  /\ First(T) \in T /\ \A t \in T : First(T).at <= t.at
         /\ Last(T) \in T /\ \A t \in T : t.at <= Last(T).at
         /\ Max(Prices(T)) \in Prices(T) /\ \A t \in T : t.price <= Max(Prices(T))
         /\ Min(Prices(T)) \in Prices(T) /\ \A t \in T : Min(Prices(T)) <= t.price
         /\ Volumes(T) \in Int
<1> DEFINE when == [t \in T |-> t.at]
           cost == [t \in T |-> t.price]
           size == [t \in T |-> t.volume]
<1>1. /\ IsFiniteSet(T) /\ T # {} /\ \A t, u \in T : t.at = u.at => t = u
      /\ \A t \in T : t.at \in Int /\ t.price \in Int /\ t.volume \in Int
  BY DEF Proper, Tick, Instant
<1>2. \A t \in T : when[t] = t.at /\ cost[t] = t.price /\ size[t] = t.volume
  OBVIOUS
<1>3. \A t \in T : when[t] \in Int /\ cost[t] \in Int /\ size[t] \in Int
  BY <1>1
<1>4. Volumes(T) \in Int
  <2>1. Volumes(T) = SumOver(size, T)
    BY DEF Volumes
  <2> HIDE DEF size
  <2> QED BY <1>1, <1>3, <2>1, SumOverInt
<1> HIDE DEF when, cost, size
<1>5. First(T) \in T /\ \A t \in T : First(T).at <= t.at
  <2>1. PICK t \in T : \A u \in T : when[t] <= when[u]
    BY <1>1, <1>3, Least
  <2>2. First(T) = t
    BY <1>1, <1>2, <2>1, FirstIs
  <2> QED BY <1>2, <2>1, <2>2
<1>6. Last(T) \in T /\ \A t \in T : t.at <= Last(T).at
  <2>1. PICK t \in T : \A u \in T : when[u] <= when[t]
    BY <1>1, <1>3, Greatest
  <2>2. Last(T) = t
    BY <1>1, <1>2, <2>1, LastIs
  <2> QED BY <1>2, <2>1, <2>2
<1>7. Max(Prices(T)) \in Prices(T) /\ \A t \in T : t.price <= Max(Prices(T))
  <2>1. PICK t \in T : \A u \in T : cost[u] <= cost[t]
    BY <1>1, <1>3, Greatest
  <2>2. t.price \in Prices(T) /\ \A p \in Prices(T) : p \in Int /\ p <= t.price
    BY <1>1, <1>2, <2>1 DEF Prices
  <2>3. Max(Prices(T)) = t.price
    BY <2>2, MaxIs
  <2> QED BY <1>2, <2>1, <2>2, <2>3
<1>8. Min(Prices(T)) \in Prices(T) /\ \A t \in T : Min(Prices(T)) <= t.price
  <2>1. PICK t \in T : \A u \in T : cost[t] <= cost[u]
    BY <1>1, <1>3, Least
  <2>2. t.price \in Prices(T) /\ \A p \in Prices(T) : p \in Int /\ t.price <= p
    BY <1>1, <1>2, <2>1 DEF Prices
  <2>3. Min(Prices(T)) = t.price
    BY <2>2, MinIs
  <2> QED BY <1>2, <2>1, <2>2, <2>3
<1> QED BY <1>4, <1>5, <1>6, <1>7, <1>8

\* The columns of a bar.
LEMMA SummaryColumns ==
  ASSUME NEW T
  PROVE  Summary(T) = [open |-> First(T).price, high |-> Max(Prices(T)),
                       low |-> Min(Prices(T)),
                       close |-> Last(T).price, volume |-> Volumes(T)]
BY DEF Summary, Prices, Volumes

\* A bar of ticks consists of numbers.
LEMMA SummaryTyped ==
  ASSUME NEW T, Proper(T)
  PROVE  Summary(T) \in Bar
<1>1. \A t \in T : t.price \in Int
  BY DEF Proper, Tick
<1>2. First(T).price \in Int /\ Last(T).price \in Int /\ Volumes(T) \in Int
  BY <1>1, SummaryFits
<1>3. Max(Prices(T)) \in Int /\ Min(Prices(T)) \in Int
  BY <1>1, SummaryFits DEF Prices
<1> QED BY <1>2, <1>3, SummaryColumns DEF Bar

MinuteBar(T, m) == WithTime(Summary(Part(T, m)), m)

\* The bar of a minute.
LEMMA MinuteBarColumns ==
  ASSUME NEW T, NEW m
  PROVE  /\ MinuteBar(T, m).at = m
         /\ MinuteBar(T, m).open = First(Part(T, m)).price
         /\ MinuteBar(T, m).high = Max(Prices(Part(T, m)))
         /\ MinuteBar(T, m).low = Min(Prices(Part(T, m)))
         /\ MinuteBar(T, m).close = Last(Part(T, m)).price
         /\ MinuteBar(T, m).volume = Volumes(Part(T, m))
BY SummaryColumns DEF MinuteBar, WithTime

\* The ticks of a minute are some of the ticks.
LEMMA PartProper ==
  ASSUME NEW T, Proper(T), NEW m \in MinutesOf(T)
  PROVE  Proper(Part(T, m)) /\ Part(T, m) \subseteq T
<1>1. Part(T, m) \subseteq T /\ Part(T, m) # {}
  BY DEF Part, MinutesOf
<1>2. IsFiniteSet(Part(T, m))
  BY <1>1, FS_Subset DEF Proper
<1> QED BY <1>1, <1>2 DEF Proper

\* The bar of the minute bars is the bar of their ticks.
THEOREM MergeOfParts ==
  ASSUME NEW T, Proper(T), NEW B, B = {MinuteBar(T, m) : m \in MinutesOf(T)}
  PROVE  Merge(B) = Summary(T)
<1> DEFINE M == MinutesOf(T)
<1>1. /\ M \subseteq Int /\ Sub \in Nat \ {0}
      /\ \A t \in T : /\ t.at \in Int /\ t.price \in Int /\ t.volume \in Int
                      /\ MinuteOf(t.at) \in M /\ t \in Part(T, MinuteOf(t.at))
  <2>1. \A t \in T : t.at \in Instant /\ t.price \in Int /\ t.volume \in Int
    BY DEF Proper, Tick
  <2>2. \A t \in T : t.at \in Int /\ MinuteOf(t.at) \in Int
    <3>1. \A t \in T : t.at \in Int
      BY <2>1 DEF Instant
    <3>2. \A t \in T : MinuteOf(t.at) \in Int
      BY <2>1, Calendar
    <3> QED BY <3>1, <3>2
  <2>3. Sub \in Nat \ {0}
    BY MarketRollupAssumption
  <2>4. M \subseteq Int /\ \A t \in T : MinuteOf(t.at) \in M /\ t \in Part(T, MinuteOf(t.at))
    BY <2>2 DEF MinutesOf, Part
  <2> HIDE DEF M
  <2> QED BY <2>1, <2>2, <2>3, <2>4
<1>2. IsFiniteSet(M)
  <2> DEFINE minute == [t \in T |-> MinuteOf(t.at)]
  <2>1. M = {minute[t] : t \in T}
    BY DEF MinutesOf
  <2> HIDE DEF minute, M
  <2> QED BY <2>1, ImageFinite DEF Proper
<1>3. \A m \in M : Proper(Part(T, m)) /\ Part(T, m) \subseteq T
  BY PartProper
<1>4. B = {MinuteBar(T, m) : m \in M}
  OBVIOUS
<1>5. \A m, n \in M : MinuteBar(T, m) = MinuteBar(T, n) => m = n
  BY MinuteBarColumns
<1> HIDE DEF M
<1>6. First(B).open = First(T).price
  <2> DEFINE first == First(T)
             m == MinuteOf(first.at)
  <2>1. first \in T /\ \A t \in T : first.at <= t.at
    BY SummaryFits
  <2> HIDE DEF first
  <2>2. m \in M /\ first \in Part(T, m)
    BY <1>1, <2>1
  <2>3. \A n \in M : m <= n
    <3> SUFFICES ASSUME NEW t \in T PROVE MinuteOf(first.at) <= MinuteOf(t.at)
      BY DEF M, MinutesOf
    <3> QED BY <1>1, <2>1, DivMono DEF MinuteOf
  <2> HIDE DEF m
  <2>4. First(Part(T, m)) = first
    <3>1. \A t \in Part(T, m) : /\ t.at \in Int /\ first.at <= t.at
                                /\ t.at = first.at => t = first
      BY <1>1, <2>1 DEF Part, Proper
    <3> QED BY <2>2, <3>1, FirstIs
  <2>5. First(B) = MinuteBar(T, m)
    <3>1. MinuteBar(T, m) \in B
      BY <1>4, <2>2
    <3>2. \A b \in B : /\ b.at \in Int /\ MinuteBar(T, m).at <= b.at
                       /\ b.at = MinuteBar(T, m).at => b = MinuteBar(T, m)
      BY <1>1, <1>4, <2>3, MinuteBarColumns
    <3> QED BY <3>1, <3>2, FirstIs
  <2> QED BY <2>4, <2>5, MinuteBarColumns DEF first
<1>7. Last(B).close = Last(T).price
  <2> DEFINE last == Last(T)
             m == MinuteOf(last.at)
  <2>1. last \in T /\ \A t \in T : t.at <= last.at
    BY SummaryFits
  <2> HIDE DEF last
  <2>2. m \in M /\ last \in Part(T, m)
    BY <1>1, <2>1
  <2>3. \A n \in M : n <= m
    <3> SUFFICES ASSUME NEW t \in T PROVE MinuteOf(t.at) <= MinuteOf(last.at)
      BY DEF M, MinutesOf
    <3> QED BY <1>1, <2>1, DivMono DEF MinuteOf
  <2> HIDE DEF m
  <2>4. Last(Part(T, m)) = last
    <3>1. \A t \in Part(T, m) : /\ t.at \in Int /\ t.at <= last.at
                                /\ t.at = last.at => t = last
      BY <1>1, <2>1 DEF Part, Proper
    <3> QED BY <2>2, <3>1, LastIs
  <2>5. Last(B) = MinuteBar(T, m)
    <3>1. MinuteBar(T, m) \in B
      BY <1>4, <2>2
    <3>2. \A b \in B : /\ b.at \in Int /\ b.at <= MinuteBar(T, m).at
                       /\ b.at = MinuteBar(T, m).at => b = MinuteBar(T, m)
      BY <1>1, <1>4, <2>3, MinuteBarColumns
    <3> QED BY <3>1, <3>2, LastIs
  <2> QED BY <2>4, <2>5, MinuteBarColumns DEF last
<1>8. Max({b.high : b \in B}) = Max(Prices(T))
  <2> DEFINE top == Max(Prices(T))
  <2>1. top \in Prices(T) /\ \A t \in T : t.price <= top
    BY SummaryFits
  <2> HIDE DEF top
  <2>2. PICK t \in T : t.price = top
    BY <2>1 DEF Prices
  <2>3. \A m \in M : /\ Max(Prices(Part(T, m))) \in Int
                     /\ Max(Prices(Part(T, m))) <= top
    <3> SUFFICES ASSUME NEW m \in M
                 PROVE  Max(Prices(Part(T, m))) \in Int /\ Max(Prices(Part(T, m))) <= top
      OBVIOUS
    <3>1. Max(Prices(Part(T, m))) \in Prices(Part(T, m)) /\ Part(T, m) \subseteq T
      BY <1>3, SummaryFits
    <3> QED BY <1>1, <2>1, <3>1 DEF Prices
  <2> DEFINE m == MinuteOf(t.at)
  <2>4. m \in M /\ t \in Part(T, m)
    BY <1>1
  <2> HIDE DEF m
  <2>5. Max(Prices(Part(T, m))) = top
    <3>1. top <= Max(Prices(Part(T, m)))
      BY <1>3, <2>2, <2>4, SummaryFits
    <3> QED BY <1>1, <2>2, <2>3, <2>4, <3>1
  <2>6. top \in {b.high : b \in B} /\ \A h \in {b.high : b \in B} : h \in Int /\ h <= top
    <3>1. \A n \in M : MinuteBar(T, n).high = Max(Prices(Part(T, n)))
      BY MinuteBarColumns
    <3> QED BY <1>4, <2>3, <2>4, <2>5, <3>1
  <2>7. Max({b.high : b \in B}) = top
    BY <2>6, MaxIs
  <2> QED BY <2>7 DEF top
<1>9. Min({b.low : b \in B}) = Min(Prices(T))
  <2> DEFINE bottom == Min(Prices(T))
  <2>1. bottom \in Prices(T) /\ \A t \in T : bottom <= t.price
    BY SummaryFits
  <2> HIDE DEF bottom
  <2>2. PICK t \in T : t.price = bottom
    BY <2>1 DEF Prices
  <2>3. \A m \in M : /\ Min(Prices(Part(T, m))) \in Int
                     /\ bottom <= Min(Prices(Part(T, m)))
    <3> SUFFICES ASSUME NEW m \in M
                 PROVE  Min(Prices(Part(T, m))) \in Int /\ bottom <= Min(Prices(Part(T, m)))
      OBVIOUS
    <3>1. Min(Prices(Part(T, m))) \in Prices(Part(T, m)) /\ Part(T, m) \subseteq T
      BY <1>3, SummaryFits
    <3> QED BY <1>1, <2>1, <3>1 DEF Prices
  <2> DEFINE m == MinuteOf(t.at)
  <2>4. m \in M /\ t \in Part(T, m)
    BY <1>1
  <2> HIDE DEF m
  <2>5. Min(Prices(Part(T, m))) = bottom
    <3>1. Min(Prices(Part(T, m))) <= bottom
      BY <1>3, <2>2, <2>4, SummaryFits
    <3> QED BY <1>1, <2>2, <2>3, <2>4, <3>1
  <2>6. bottom \in {b.low : b \in B} /\ \A h \in {b.low : b \in B} : h \in Int /\ bottom <= h
    <3>1. \A n \in M : MinuteBar(T, n).low = Min(Prices(Part(T, n)))
      BY MinuteBarColumns
    <3> QED BY <1>4, <2>3, <2>4, <2>5, <3>1
  <2>7. Min({b.low : b \in B}) = bottom
    BY <2>6, MinIs
  <2> QED BY <2>7 DEF bottom
<1>10. SumOver([b \in B |-> b.volume], B) = Volumes(T)
  <2> DEFINE size == [t \in T |-> t.volume]
             part == [m \in M |-> Part(T, m)]
             bar == [m \in M |-> MinuteBar(T, m)]
             vol == [b \in B |-> b.volume]
  <2>1. IsFiniteSet(T) /\ \A t \in T : size[t] \in Int
    BY <1>1 DEF Proper
  <2>2. \A m \in M : part[m] \in SUBSET T /\ bar[m] = MinuteBar(T, m) /\ part[m] = Part(T, m)
    BY <1>3
  <2>3. \A m, n \in M : m # n => part[m] \cap part[n] = {}
    BY DEF Part
  <2>4. \A m, n \in M : bar[m] = bar[n] => m = n
    BY <1>5
  <2>5. B = {bar[m] : m \in M}
    BY <1>4
  <2>6. T = UNION {part[m] : m \in M}
    <3>1. \A t \in T : \E m \in M : t \in part[m]
      BY <1>1
    <3> QED BY <2>2, <3>1
  <2>7. \A m \in M : vol[bar[m]] = MinuteBar(T, m).volume
    BY <1>4
  <2>8. SumOver(size, T) = Volumes(T)
    BY DEF Volumes
  <2>9. \A m \in M : SumOver(size, Part(T, m)) = Volumes(Part(T, m))
    <3> SUFFICES ASSUME NEW m \in M
                 PROVE  SumOver(size, Part(T, m)) = Volumes(Part(T, m))
      OBVIOUS
    <3> DEFINE own == [t \in Part(T, m) |-> t.volume]
    <3>1. \A t \in Part(T, m) : size[t] = own[t]
      BY DEF Part
    <3>2. Volumes(Part(T, m)) = SumOver(own, Part(T, m))
      BY DEF Volumes
    <3>3. IsFiniteSet(Part(T, m))
      BY <1>3 DEF Proper
    <3> HIDE DEF own, size
    <3> QED BY <3>1, <3>2, <3>3, SumOverSame
  <2> HIDE DEF size, part, bar, vol
  <2>10. \A m \in M : vol[bar[m]] = SumOver(size, part[m])
    BY <2>2, <2>7, <2>9, MinuteBarColumns
  <2>11. SumOver(size, UNION {part[m] : m \in M}) = SumOver(vol, {bar[m] : m \in M})
    BY <1>2, <2>1, <2>2, <2>3, <2>4, <2>10, SumOverParts
  <2>12. SumOver(vol, B) = Volumes(T)
    BY <2>5, <2>6, <2>8, <2>11
  <2> QED BY <2>12 DEF vol
<1> QED BY <1>6, <1>7, <1>8, <1>9, <1>10, SummaryColumns DEF Merge

\* The minutes of trading day d that have a bar at exchange x, and their ticks.
BarMinutes(x, d) == {m \in Minutes : <<x, m>> \in DOMAIN bars /\ TradeDay(x, m) = d}
BarTicks(x, d) ==
  {t \in TicksOfDay(x, d) : MinuteOf(t.at) \in BarMinutes(x, d)}

\* When the daily job runs, the minute bars of the day are those of its ticks.
LEMMA DayFromTicks ==
  ASSUME RollupInv, NEW x \in Exchange \cap due,
         DayBars(x, TradeDay(x, Now)) # {}
  PROVE  /\ Proper(BarTicks(x, TradeDay(x, Now)))
         /\ BarMinutes(x, TradeDay(x, Now)) = MinutesOf(BarTicks(x, TradeDay(x, Now)))
         /\ Merge(DayBars(x, TradeDay(x, Now))) = Summary(BarTicks(x, TradeDay(x, Now)))
<1> USE DEF RollupInv
<1> DEFINE d == TradeDay(x, Now)
           M == BarMinutes(x, d)
           T == BarTicks(x, d)
<1> HIDE DEF d
<1>1. M \subseteq Minutes /\ \A m \in M : <<x, m>> \in DOMAIN bars /\ TradeDay(x, m) = d
  BY DEF BarMinutes
<1>2. \A m \in M : ~Expired(m)
  <2> SUFFICES ASSUME NEW m \in M, NEW w \in Minutes, w <= Now, w % Length = RetainAt
               PROVE  ~(KoreanDay(m) < KoreanDay(w) - Keep)
    BY DEF Expired
  <2>1. /\ LocalMinute(x, m) \in Session /\ LocalMinute(x, Now) = RollAt
        /\ TradeDay(x, m) = TradeDay(x, Now)
    BY <1>1 DEF BarsOwn, JobsOnTime, d
  <2>2. KoreanDay(w) - Keep <= KoreanDay(m)
    BY <1>1, <2>1, NowTyped, CalendarAssumption
  <2>3. KoreanDay(w) \in Int /\ KoreanDay(m) \in Int /\ Keep \in Nat
    BY <1>1, Calendar, MarketRollupAssumption
  <2> QED BY <2>2, <2>3
<1>3. \A m \in M : TicksIn(x, m) # {} /\ bars[<<x, m>>] = WithTime(Summary(TicksIn(x, m)), m)
  BY <1>1, <1>2 DEF BarsOwn
<1>4. \A m \in M : TicksIn(x, m) = Part(T, m)
  <2> SUFFICES ASSUME NEW m \in M PROVE TicksIn(x, m) = Part(T, m)
    OBVIOUS
  <2>1. \A t \in ticks : t.exchange = x /\ MinuteOf(t.at) = m => t \in T
    BY <1>1 DEF BarTicks, TicksOfDay
  <2>2. T \subseteq ticks /\ \A t \in T : t.exchange = x
    BY DEF BarTicks, TicksOfDay
  <2> HIDE DEF T
  <2> QED BY <2>1, <2>2 DEF TicksIn, Part
<1>5. M = MinutesOf(T)
  <2>1. \A t \in T : MinuteOf(t.at) \in M
    BY DEF BarTicks
  <2>2. \A m \in M : \E t \in T : MinuteOf(t.at) = m
    BY <1>3, <1>4 DEF Part
  <2> HIDE DEF M, T
  <2> QED BY <2>1, <2>2 DEF MinutesOf
<1>6. DayBars(x, d) = {bars[<<x, m>>] : m \in M}
  <2>1. ASSUME NEW b \in DOMAIN bars, b[1] = x, TradeDay(x, b[2]) = d
        PROVE  b[2] \in M /\ b = <<x, b[2]>>
    BY <2>1 DEF BarsOwn, BarMinutes
  <2>2. \A m \in M : <<x, m>> \in {c \in DOMAIN bars : c[1] = x /\ TradeDay(x, c[2]) = d}
    BY <1>1
  <2> HIDE DEF M
  <2> QED BY <2>1, <2>2 DEF DayBars
<1>7. M # {}
  BY <1>6 DEF d
<1>8. Proper(T)
  <2>1. T \subseteq ticks /\ \A t \in T : t.exchange = x
    BY DEF BarTicks, TicksOfDay
  <2>2. T # {}
    BY <1>5, <1>7 DEF MinutesOf
  <2> HIDE DEF T
  <2>3. IsFiniteSet(T) /\ T \subseteq Tick
    BY <2>1, FS_Subset DEF RollupTyped, Stored
  <2>4. \A t, u \in T : t.at = u.at => t = u
    BY <2>1 DEF TicksTimed, Stored
  <2> QED BY <2>2, <2>3, <2>4 DEF Proper
<1>9. DayBars(x, d) = {MinuteBar(T, m) : m \in MinutesOf(T)}
  <2>1. \A m \in M : bars[<<x, m>>] = MinuteBar(T, m)
    BY <1>3, <1>4 DEF MinuteBar
  <2> HIDE DEF M, T
  <2> QED BY <1>5, <1>6, <2>1
<1> HIDE DEF M, T
<1>10. Merge(DayBars(x, d)) = Summary(T)
  BY <1>8, <1>9, MergeOfParts
<1> QED BY <1>5, <1>8, <1>10 DEF d, M, T

\* The daily job only writes daily bars.
LEMMA RollDailyKeeps ==
  ASSUME RollupInv, NEW x \in Exchange, RollDaily(x)
  PROVE  RollupInv'
<1> USE DEF RollupInv
<1> DEFINE d == TradeDay(x, Now)
<1>1. /\ x \in due /\ due' = due \ {x}
      /\ daily' = IF DayBars(x, d) = {} THEN daily
                  ELSE Put(daily, <<x, d>>, Merge(DayBars(x, d)))
      /\ now' = now /\ pending' = pending /\ ticks' = ticks /\ bars' = bars
      /\ parts' = parts /\ lost' = lost /\ asleep' = asleep /\ zone' = zone
  BY DEF RollDaily, Done
<1>2. Stored' = Stored /\ Now' = Now
  BY <1>1 DEF Stored, Now
<1>3. DayBars(x, d) # {} => Merge(DayBars(x, d)) \in Bar
  BY <1>1, DayFromTicks, SummaryTyped
<1> HIDE DEF d
<1>4. \A y \in DOMAIN daily' : daily'[y] \in Bar
  BY <1>1, <1>3 DEF Put, RollupTyped
<1>5. RollupTyped' /\ TicksTimed'
  BY <1>1, <1>2, <1>4 DEF RollupTyped, TicksTimed
<1>6. JobsOnTime'
  <2>1. \A e \in Exchange : e \in due' => e \in due
    BY <1>1
  <2> QED BY <1>1, <1>2, <2>1 DEF JobsOnTime
<1>7. x \notin {"minute", "ensure", "retain"}
  BY MarketRollupAssumption
<1>8. PartsAhead'
  <2>1. LastEnsured' = LastEnsured
    BY <1>1, <1>2, <1>7 DEF LastEnsured, Past
  <2> QED BY <1>1, <1>2, <2>1 DEF PartsAhead
<1>9. BarsRolled' /\ BarsOwn'
  <2>1. \A e \in Exchange, m \in Minutes : TicksIn(e, m)' = TicksIn(e, m)
    BY <1>1 DEF TicksIn
  <2>2. \A m \in Minutes : Finished(m)' => Finished(m)
    BY <1>1, <1>2, <1>7 DEF Finished, Rolled
  <2> QED BY <1>1, <2>1, <2>2, BarsKept
<1> QED BY <1>5, <1>6, <1>8, <1>9

-----------------------------------------------------------------------------
(* MarketRollup: the theorems *)

\* The invariant holds in every state.
THEOREM RollupInvariance == RollupSpec => []RollupInv
<1>1. RollupInit => RollupInv
  <2> SUFFICES ASSUME RollupInit PROVE RollupInv
    OBVIOUS
  <2> USE DEF RollupInit
  <2>1. Stored = {} /\ DOMAIN bars = {} /\ DOMAIN daily = {} /\ IsFiniteSet(Stored)
    BY FS_EmptySet DEF Stored
  <2>2. 0 \in Instant
    <3>1. MaxDay \in Nat \ {0} /\ Length \in Nat \ {0} /\ Sub \in Nat \ {0}
      BY MarketRollupAssumption
    <3>2. MaxDay * Length \in Nat \ {0}
      BY <3>1
    <3>3. (MaxDay * Length) * Sub \in Nat \ {0}
      BY <3>1, <3>2
    <3> QED BY <3>3 DEF Instant
  <2>3. Now = 0 /\ KoreanDay(Now) = 0 /\ Now % Length = 0 /\ EnsureAt \in Nat \ {0}
    <3>1. Sub \in Nat \ {0} /\ Length \in Nat \ {0} /\ EnsureAt \in Nat \ {0}
      BY MarketRollupAssumption, CalendarAssumption
    <3>2. ASSUME NEW k \in Nat \ {0} PROVE 0 \div k = 0 /\ 0 % k = 0
      <4>1. 0 = k * 0 + 0 /\ 0 < k
        OBVIOUS
      <4> QED BY <4>1, DivUnique
    <3>3. Now = 0
      BY <3>1, <3>2 DEF Now, MinuteOf
    <3> QED BY <3>1, <3>2, <3>3 DEF KoreanDay
  <2>4. RollupTyped
    BY <2>1, <2>2 DEF RollupTyped
  <2>5. TicksTimed /\ JobsOnTime /\ BarsOwn
    BY <2>1 DEF TicksTimed, JobsOnTime, BarsOwn, Stored
  <2>6. PartsAhead
    <3>1. LastEnsured = -1 - asleep
      BY <2>3 DEF LastEnsured, Past
    <3>2. 0 .. (-1 - asleep) - zone + Ahead \subseteq Ensured(-1 - asleep)
      BY MarketRollupAssumption DEF Ensured
    <3> QED BY <2>1, <2>3, <3>1, <3>2 DEF PartsAhead
  <2>7. BarsRolled
    BY DEF BarsRolled, TicksIn
  <2> QED BY <2>4, <2>5, <2>6, <2>7 DEF RollupInv
<1>2. RollupInv /\ [RollupNext]_rollupVars => RollupInv'
  <2> SUFFICES ASSUME RollupInv, [RollupNext]_rollupVars PROVE RollupInv'
    OBVIOUS
  <2>1. ASSUME NEW x \in Exchange, Capture(x) \/ RollDaily(x) PROVE RollupInv'
    BY <2>1, CaptureKeeps, RollDailyKeeps
  <2>2. ASSUME NEW t \in pending, InsertTick(t) PROVE RollupInv'
    BY <2>2, InsertTickKeeps
  <2>3. CASE RollMinute \/ EnsurePartitions \/ Retention \/ Advance
    BY <2>3, RollMinuteKeeps, EnsurePartitionsKeeps, RetentionKeeps, AdvanceKeeps
  <2>4. ASSUME NEW job \in Jobs, Miss(job) PROVE RollupInv'
    BY <2>4, MissKeeps
  <2>5. CASE UNCHANGED rollupVars
    <3>1. /\ now' = now /\ pending' = pending /\ ticks' = ticks /\ bars' = bars
          /\ daily' = daily
          /\ parts' = parts /\ due' = due /\ lost' = lost /\ asleep' = asleep /\ zone' = zone
      BY <2>5 DEF rollupVars
    <3>2. Stored' = Stored /\ Now' = Now
      BY <3>1 DEF Stored, Now
    <3>3. RollupTyped' /\ TicksTimed' /\ JobsOnTime'
      BY <3>1, <3>2 DEF RollupInv, RollupTyped, TicksTimed, JobsOnTime
    <3>4. PartsAhead'
      <4>1. LastEnsured' = LastEnsured
        BY <3>1, <3>2 DEF LastEnsured, Past
      <4> QED BY <3>1, <3>2, <4>1 DEF RollupInv, PartsAhead
    <3>5. BarsRolled' /\ BarsOwn'
      <4>1. \A e \in Exchange, m \in Minutes : TicksIn(e, m)' = TicksIn(e, m)
        BY <3>1 DEF TicksIn
      <4>2. \A m \in Minutes : Finished(m)' => Finished(m)
        BY <3>1, <3>2 DEF Finished, Rolled
      <4> QED BY <3>1, <4>1, <4>2, BarsKept
    <3> QED BY <3>3, <3>4, <3>5 DEF RollupInv
  <2> QED BY <2>1, <2>2, <2>3, <2>4, <2>5 DEF RollupNext
<1> QED BY <1>1, <1>2, PTL DEF RollupSpec

\* The tables keep their types; every stored tick lies in a partition.
THEOREM RollupTypeCorrect == RollupSpec => []RollupTypeOK
<1>1. RollupInv => RollupTypeOK
  <2> SUFFICES ASSUME RollupInv PROVE RollupTypeOK
    OBVIOUS
  <2>1. \A b \in DOMAIN bars : bars[b].at = b[2]
    <3> SUFFICES ASSUME NEW b \in DOMAIN bars PROVE bars[b].at = b[2]
      OBVIOUS
    <3>1. b[1] \in Exchange /\ b[2] \in Minutes /\ b = <<b[1], b[2]>>
      BY DEF RollupInv, BarsOwn
    <3> QED BY <3>1 DEF RollupInv, BarsOwn
  <2> QED BY <2>1 DEF RollupInv, RollupTyped, PartsAhead, BarsOwn, Stored, RollupTypeOK
<1> QED BY <1>1, RollupInvariance, PTL

\* The bar of every minute whose job ran has all the ticks of that minute.
THEOREM BarsCorrect == RollupSpec => []BarsExact
<1>1. RollupInv => BarsExact
  <2> SUFFICES ASSUME RollupInv, NEW t \in ticks,
                      MinuteOf(t.at) < Rolled, MinuteOf(t.at) \notin lost
               PROVE  /\ <<t.exchange, MinuteOf(t.at)>> \in DOMAIN bars
                      /\ bars[<<t.exchange, MinuteOf(t.at)>>] =
                           WithTime(Summary(TicksIn(t.exchange, MinuteOf(t.at))),
                                    MinuteOf(t.at))
    BY DEF BarsExact
  <2>1. t.exchange \in Exchange /\ MinuteOf(t.at) \in Minutes
    BY Calendar DEF RollupInv, RollupTyped, Tick
  <2>2. t \in TicksIn(t.exchange, MinuteOf(t.at))
    BY DEF TicksIn
  <2> QED BY <2>1, <2>2 DEF RollupInv, BarsRolled, Finished
<1> QED BY <1>1, RollupInvariance, PTL

\* No tick is ever captured on a day without a partition, nor loses it before it
\* is inserted.
THEOREM PartitionsReady == RollupSpec => []PartitionReady
<1>1. RollupInv => PartitionReady
  BY DEF RollupInv, PartsAhead, Stored, PartitionReady
<1> QED BY <1>1, RollupInvariance, PTL

\* Only the retention removes ticks, and only old ones.
THEOREM TicksRetained == RollupSpec => TicksKept
<1> DEFINE Old == \A t \in ticks \ ticks' : KoreanDay(MinuteOf(t.at)) + Keep < KoreanDay(Now)
<1>1. RollupInv /\ [RollupNext]_rollupVars => [Old]_rollupVars
  <2> SUFFICES ASSUME RollupInv, [RollupNext]_rollupVars PROVE Old
    OBVIOUS
  <2>1. CASE Retention
    <3> SUFFICES ASSUME NEW t \in ticks \ ticks'
                 PROVE  KoreanDay(MinuteOf(t.at)) + Keep < KoreanDay(Now)
      OBVIOUS
    <3>1. ~(KoreanDay(MinuteOf(t.at)) >= KoreanDay(Now) - Keep)
      BY <2>1 DEF Retention, Cutoff
    <3>2. KoreanDay(MinuteOf(t.at)) \in Int /\ KoreanDay(Now) \in Int /\ Keep \in Nat
      BY NowTyped, Calendar, MarketRollupAssumption DEF RollupInv, RollupTyped, Tick
    <3> QED BY <3>1, <3>2
  <2>2. ASSUME NEW t \in pending, InsertTick(t) PROVE Old
    BY <2>2 DEF InsertTick
  <2>3. CASE UNCHANGED ticks
    BY <2>3
  <2>4. ASSUME NEW x \in Exchange, Capture(x) \/ RollDaily(x) PROVE UNCHANGED ticks
    BY <2>4 DEF Capture, RollDaily, tables
  <2>5. CASE RollMinute \/ EnsurePartitions \/ Advance
    BY <2>3, <2>5 DEF RollMinute, EnsurePartitions, Advance, tables
  <2>6. ASSUME NEW job \in Jobs, Miss(job) PROVE UNCHANGED ticks
    BY <2>6 DEF Miss, tables
  <2>7. CASE UNCHANGED rollupVars
    BY <2>3, <2>7 DEF rollupVars
  <2> QED BY <2>1, <2>2, <2>3, <2>4, <2>5, <2>6, <2>7 DEF RollupNext
<1> QED BY <1>1, RollupInvariance, PTL DEF RollupSpec, TicksKept

\* DailyBoard summarises ticks as Bars does.
LEMMA SummaryOfBoard == \A T : Board!Summary(T) = Summary(T)
<1>1. TAKE T
<1>2. Board!SumOver([t \in T |-> t.volume], T) = SumOver([t \in T |-> t.volume], T)
  BY Zenon DEF SumOver, Board!SumOver, MapThenSumSet, Board!MapThenSumSet,
               MapThenFoldSet, Board!MapThenFoldSet
<1>3. \A S : Board!First(S) = First(S) /\ Board!Last(S) = Last(S)
  BY Zenon DEF First, Last, Board!First, Board!Last
<1>4. \A S : Board!Max(S) = Max(S) /\ Board!Min(S) = Min(S)
  BY Zenon DEF Max, Min, Board!Max, Board!Min
<1> QED BY <1>2, <1>3, <1>4, Zenon DEF Summary, Board!Summary

\* Rolling up in two stages, with missed jobs and late ticks, makes daily bars of
\* whole minutes of ticks, as DailyBoard does in one stage.
THEOREM TwoStages == RollupSpec => Refinement
<1>1. RollupInit => Board!BoardInit
  BY DEF RollupInit, Board!BoardInit
<1>2. RollupInv /\ [RollupNext]_rollupVars => [Board!BoardNext]_(Board!boardVars)
  <2> SUFFICES ASSUME RollupInv, [RollupNext]_rollupVars
               PROVE [Board!BoardNext]_(Board!boardVars)
    OBVIOUS
  <2>1. CASE daily' = daily
    BY <2>1 DEF Board!BoardNext, Board!Collect
  <2>2. ASSUME NEW x \in Exchange, RollDaily(x) PROVE Board!BoardNext
    <3> DEFINE d == TradeDay(x, Now)
               T == BarTicks(x, d)
    <3>1. CASE DayBars(x, d) = {}
      BY <2>2, <3>1 DEF RollDaily, Board!BoardNext, Board!Collect
    <3>2. CASE DayBars(x, d) # {}
      <4>1. /\ x \in due /\ ticks' = ticks
            /\ daily' = Put(daily, <<x, d>>, Merge(DayBars(x, d)))
        BY <2>2, <3>2 DEF RollDaily, Done
      <4>2. /\ Proper(T) /\ BarMinutes(x, d) = MinutesOf(T)
            /\ Merge(DayBars(x, d)) = Summary(T)
        BY <3>2, <4>1, DayFromTicks
      <4> HIDE DEF d
      <4>3. Board!TicksOf(x, d) = TicksOfDay(x, d)
        BY DEF Board!TicksOf, TicksOfDay
      <4> DEFINE M == BarMinutes(x, d)
      <4>4. T = {t \in Board!TicksOf(x, d) : MinuteOf(t.at) \in M}
        BY <4>3 DEF BarTicks
      <4>5. M # {} /\ M \subseteq {MinuteOf(t.at) : t \in Board!TicksOf(x, d)}
        BY <4>2, <4>4 DEF MinutesOf, Proper
      <4> HIDE DEF T, M
      <4>6. M \in (SUBSET {MinuteOf(t.at) : t \in Board!TicksOf(x, d)}) \ {{}}
        BY <4>5
      <4>7. daily' = [y \in DOMAIN daily \cup {<<x, d>>} |->
                        IF y = <<x, d>>
                        THEN Summary({t \in Board!TicksOf(x, d) : MinuteOf(t.at) \in M})
                        ELSE daily[y]]
        BY <4>1, <4>2, <4>4 DEF Put
      <4>8. Board!CloseDay(x, d)
        <5> USE DEF Board!CloseDay
        <5> WITNESS M \in (SUBSET {MinuteOf(t.at) : t \in Board!TicksOf(x, d)}) \ {{}}
        <5> QED BY <4>1, <4>7, SummaryOfBoard
      <4>9. PICK t \in T : TRUE
        BY <4>2 DEF Proper
      <4>10. t \in ticks /\ d = TradeDay(x, MinuteOf(t.at))
        BY <4>3, <4>4, <4>9 DEF TicksOfDay
      <4> QED BY <4>8, <4>10 DEF Board!BoardNext
    <3> QED BY <3>1, <3>2
  <2>3. ASSUME NEW x \in Exchange, Capture(x) PROVE daily' = daily
    BY <2>3 DEF Capture, tables
  <2>4. ASSUME NEW t \in pending, InsertTick(t) PROVE daily' = daily
    BY <2>4 DEF InsertTick
  <2>5. CASE RollMinute \/ EnsurePartitions \/ Retention \/ Advance
    BY <2>1, <2>5 DEF RollMinute, EnsurePartitions, Retention, Advance, tables
  <2>6. ASSUME NEW job \in Jobs, Miss(job) PROVE daily' = daily
    BY <2>6 DEF Miss, tables
  <2>7. CASE UNCHANGED rollupVars
    BY <2>1, <2>7 DEF rollupVars
  <2> QED BY <2>1, <2>2, <2>3, <2>4, <2>5, <2>6, <2>7 DEF RollupNext
<1> QED BY <1>1, <1>2, RollupInvariance, PTL DEF RollupSpec, Refinement, Board!BoardSpec
=============================================================================
