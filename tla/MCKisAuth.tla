----------------------------- MODULE MCKisAuth -----------------------------
(* Model-checking instance of KisAuth. *)
EXTENDS KisAuth, TLC

\* Calls and users are interchangeable.
Symmetry == Permutations(Call) \cup Permutations(User)
=============================================================================
