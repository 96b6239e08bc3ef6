---------------------------- MODULE MCChatReports ----------------------------
(* Model-checking instance of ChatReports. *)
EXTENDS ChatReports

=============================================================================
