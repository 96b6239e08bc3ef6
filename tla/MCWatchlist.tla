---------------------------- MODULE MCWatchlist ----------------------------
(* Model-checking instance of Watchlist. *)
EXTENDS Watchlist, TLC

Symmetry ==
  Permutations(Add) \cup Permutations(Remove) \cup Permutations(Listed)
=============================================================================
