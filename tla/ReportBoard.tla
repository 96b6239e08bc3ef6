---------------------------- MODULE ReportBoard ----------------------------
(***************************************************************************)
(* What the report feature promises (src/src/modules/chat/swagger/         *)
(* reportChat.swagger.ts:1-2): a user reports a message at most once, each *)
(* report counts once, and a message is blinded exactly when it has been   *)
(* reported Threshold times.  A report is one atomic step.                 *)
(***************************************************************************)
EXTENDS Naturals

CONSTANTS Msg, Reporter, Threshold

VARIABLES
  reports,   \* the pairs <<m, u>>: u has reported m
  count,     \* the number shown with the message
  hidden     \* the message is blinded

boardVars == <<reports, count, hidden>>

BoardInit ==
  /\ reports = {}
  /\ count = [m \in Msg |-> 0]
  /\ hidden = [m \in Msg |-> FALSE]

ReportOnce(m, u) ==
  /\ <<m, u>> \notin reports
  /\ reports' = reports \cup {<<m, u>>}
  /\ count' = [count EXCEPT ![m] = @ + 1]
  /\ hidden' = [hidden EXCEPT ![m] = count'[m] >= Threshold]

BoardNext == \E m \in Msg, u \in Reporter : ReportOnce(m, u)

BoardSpec == BoardInit /\ [][BoardNext]_boardVars
=============================================================================
