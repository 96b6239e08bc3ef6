------------------------------ MODULE MCQuotes ------------------------------
(* Model-checking instance of Quotes: a unit of time is a poll interval, and
   the market stays open. *)
EXTENDS Quotes, TLC

CONSTANTS u1, u2, s1, s2
MCWanted == u1 :> {s1, s2} @@ u2 :> {}
MCReads == {<<u1, s1>>}
MCChunk == {{s1}, {s2}}
=============================================================================
