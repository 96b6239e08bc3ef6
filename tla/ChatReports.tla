---------------------------- MODULE ChatReports ----------------------------
(***************************************************************************)
(* ChatService.reportChat (src/src/modules/chat/chat.service.ts:167-230)   *)
(* over the tables chat_messages and chat_reports in PostgreSQL.           *)
(*                                                                         *)
(* A request makes two reads, each a transaction of its own, and then runs *)
(* an interactive transaction at READ COMMITTED.  Other requests interleave*)
(* between any two statements.  The variables reports, count and hidden    *)
(* are the committed rows; what a transaction has written and not yet      *)
(* committed is in its request (seen, blind), and its locks follow from pc.*)
(***************************************************************************)
EXTENDS Naturals, FiniteSets

CONSTANTS
  Msg, Reporter,
  Req,         \* the requests, retries and double clicks included
  Threshold    \* reports that blind a message (5 in the code)

ASSUME ChatReportsAssumption ==
  /\ IsFiniteSet(Reporter)
  /\ Threshold \in Nat \ {0}

VARIABLES
  posted,    \* the messages that exist
  reports,   \* chat_reports: pairs <<message, user>>
  count,     \* chat_messages.report_count
  hidden,    \* chat_messages.is_hidden
  msg,       \* argument chatId of a request
  user,      \* argument userId of a request
  pc,        \* the statement a request executes next, or "done"
  seen,      \* the reportCount its UPDATE returned
  blind,     \* the isHidden its last UPDATE returned
  status     \* its answer

rows == <<reports, count, hidden>>
args == <<msg, user>>
reportVars == <<posted, rows, args, pc, seen, blind, status>>

Steps == {"find", "check", "insert", "count", "hide", "commit"}
Statuses == {"none", "ok", "notFound", "conflict", "duplicateKey", "error"}

ReportTypeOK ==
  /\ posted \in SUBSET Msg
  /\ reports \in SUBSET (Msg \X Reporter)
  /\ count \in [Msg -> Nat]
  /\ hidden \in [Msg -> BOOLEAN]
  /\ msg \in [Req -> Msg]
  /\ user \in [Req -> Reporter]
  /\ pc \in [Req -> {"idle", "done"} \cup Steps]
  /\ seen \in [Req -> Nat]
  /\ blind \in [Req -> BOOLEAN]
  /\ status \in [Req -> Statuses]

ReportInit ==
  /\ posted = {}
  /\ reports = {}
  /\ count = [m \in Msg |-> 0]
  /\ hidden = [m \in Msg |-> FALSE]
  /\ msg \in [Req -> Msg]
  /\ user \in [Req -> Reporter]
  /\ pc = [r \in Req |-> "idle"]
  /\ seen = [r \in Req |-> 0]
  /\ blind = [r \in Req |-> FALSE]
  /\ status = [r \in Req |-> "none"]

-----------------------------------------------------------------------------
(* Locks of PostgreSQL, held until the transaction ends. *)

\* r has inserted its row of chat_reports: an insert of the same key waits.
Inserted(r) == pc[r] \in {"count", "hide", "commit"}

\* r has updated its row of chat_messages: another update of the row waits.
Locked(r) == pc[r] \in {"hide", "commit"}

Report(r) == <<msg[r], user[r]>>

Goto(r, step) == pc' = [pc EXCEPT ![r] = step]

Respond(r, s) == Goto(r, "done") /\ status' = [status EXCEPT ![r] = s]

-----------------------------------------------------------------------------
\* ChatService.sendMessage creates the row with report_count 0.
Post(m) ==
  /\ m \notin posted
  /\ posted' = posted \cup {m}
  /\ UNCHANGED <<rows, args, pc, seen, blind, status>>

Submit(r) ==
  /\ pc[r] = "idle"
  /\ Goto(r, "find")
  /\ UNCHANGED <<posted, rows, args, seen, blind, status>>

FindMessage(r) ==
  /\ pc[r] = "find"
  /\ \/ /\ msg[r] \in posted
        /\ Goto(r, "check")
        /\ UNCHANGED status
     \/ /\ msg[r] \notin posted
        /\ Respond(r, "notFound")
  /\ UNCHANGED <<posted, rows, args, seen, blind>>

\* Mutant of CheckReported: a repeated report is answered "ok".
CheckLenient(r) ==
  /\ pc[r] = "check"
  /\ \/ /\ Report(r) \notin reports
        /\ Goto(r, "insert")
        /\ UNCHANGED status
     \/ /\ Report(r) \in reports
        /\ Respond(r, "ok")
  /\ UNCHANGED <<posted, rows, args, seen, blind>>

CheckReported(r) ==
  /\ pc[r] = "check"
  /\ \/ /\ Report(r) \notin reports
        /\ Goto(r, "insert")
        /\ UNCHANGED status
     \/ /\ Report(r) \in reports
        /\ Respond(r, "conflict")
  /\ UNCHANGED <<posted, rows, args, seen, blind>>

\* Mutant of InsertReport: the table has no unique index.
InsertUnindexed(r) ==
  /\ pc[r] = "insert"
  /\ Goto(r, "count")
  /\ UNCHANGED <<posted, rows, args, seen, blind, status>>

\* The unique index on (chat_message_id, user_id): an insert waits for an
\* uncommitted row with the same key and fails on a committed one (P2002).
InsertReport(r) ==
  /\ pc[r] = "insert"
  /\ ~\E s \in Req \ {r} : Inserted(s) /\ Report(s) = Report(r)
  /\ \/ /\ Report(r) \notin reports
        /\ Goto(r, "count")
        /\ UNCHANGED status
     \/ /\ Report(r) \in reports
        /\ Respond(r, "duplicateKey")
  /\ UNCHANGED <<posted, rows, args, seen, blind>>

\* No other transaction holds the row of the message.
RowFree(r) == ~\E s \in Req \ {r} : Locked(s) /\ msg[s] = msg[r]

\* Mutant of Reached: `>` for `>=`.
Exceeded(n) == n > Threshold
Reached(n) == n >= Threshold

\* The increment applies to the committed row; the message is hidden next if
\* that reaches the threshold.
Increment(r) ==
  /\ pc[r] = "count"
  /\ seen' = [seen EXCEPT ![r] = count[msg[r]] + 1]
  /\ blind' = [blind EXCEPT ![r] = hidden[msg[r]]]
  /\ Goto(r, IF Reached(seen'[r]) /\ ~blind'[r] THEN "hide" ELSE "commit")
  /\ UNCHANGED <<posted, rows, args, status>>

\* Mutant of IncrementCount: the row is first locked FOR UPDATE, which conflicts
\* with the key-share locks that the inserts of other reporters hold on it.
IncrementForUpdate(r) ==
  (~\E s \in Req \ {r} : Inserted(s) /\ msg[s] = msg[r]) /\ Increment(r)

\* The update waits for the row lock.
IncrementCount(r) == RowFree(r) /\ Increment(r)

HideMessage(r) ==
  /\ pc[r] = "hide"
  /\ blind' = [blind EXCEPT ![r] = TRUE]
  /\ Goto(r, "commit")
  /\ UNCHANGED <<posted, rows, args, seen, status>>

\* The commit publishes the three writes; its acknowledgement may be lost,
\* and then the client is answered with an error.
Commit(r) ==
  /\ pc[r] = "commit"
  /\ reports' = reports \cup {Report(r)}
  /\ count' = [count EXCEPT ![msg[r]] = seen[r]]
  /\ hidden' = [hidden EXCEPT ![msg[r]] = blind[r]]
  /\ \E s \in {"ok", "error"} : Respond(r, s)
  /\ UNCHANGED <<posted, args, seen, blind>>

\* The database or the process fails, or the transaction exceeds its 5 s:
\* nothing of the transaction remains.
Abort(r) ==
  /\ pc[r] \in Steps
  /\ Respond(r, "error")
  /\ UNCHANGED <<posted, rows, args, seen, blind>>

Proceed(r) ==
  \/ FindMessage(r)
  \/ CheckReported(r)
  \/ InsertReport(r)
  \/ IncrementCount(r)
  \/ HideMessage(r)
  \/ Commit(r)

ReportNext ==
  \/ \E m \in Msg : Post(m)
  \/ \E r \in Req : Submit(r) \/ Proceed(r) \/ Abort(r)

ReportSpec == ReportInit /\ [][ReportNext]_reportVars

\* The database executes every statement that no lock holds back.
FairSpec == ReportSpec /\ \A r \in Req : WF_reportVars(Proceed(r))

-----------------------------------------------------------------------------
Reporters(m) == {u \in Reporter : <<m, u>> \in reports}

\* The count shown is the number of users who reported: no increment is lost
\* or applied twice, whatever requests race, fail or are repeated.
CountMatchesReports == \A m \in Msg : count[m] = Cardinality(Reporters(m))

\* A message is blinded exactly when enough users have reported it
\* (chat.service.ts:210), never before and never a report late.
HiddenAtThreshold == \A m \in Msg : hidden[m] <=> count[m] >= Threshold

\* A user is told "ok" at most once per message, and the counts told with two
\* accepted reports of one message differ, each blinded exactly when its own
\* count is at the threshold.
AnswersConsistent ==
  \A r \in Req : status[r] = "ok" =>
    /\ blind[r] <=> seen[r] >= Threshold
    /\ \A s \in Req \ {r} : status[s] = "ok" /\ msg[s] = msg[r] =>
         seen[s] # seen[r] /\ user[s] # user[r]

\* No request waits for ever: the locks of a request are released and none
\* waits in a cycle, without any transaction having to be aborted.
ReportAnswered == \A r \in Req : pc[r] = "find" ~> pc[r] = "done"

\* The committed rows behave like the promise: every change of theirs is one
\* atomic report.
Board == INSTANCE ReportBoard
BoardSpec == Board!BoardSpec
=============================================================================
