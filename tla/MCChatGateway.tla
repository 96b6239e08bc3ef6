---------------------------- MODULE MCChatGateway ----------------------------
(* Model-checking instance of ChatGateway. *)
EXTENDS ChatGateway, TLC

Symmetry == Permutations(User) \cup Permutations(Message)
=============================================================================
