--------------------------- MODULE KisCredential ---------------------------
(***************************************************************************)
(* KisCredentialService (src/src/modules/kis/kisCredential/                *)
(* kisCredential.service.ts) composed with KisAuth: a user registers a KIS *)
(* key; the service stores it, validates it by asking KisAuth for an       *)
(* access token and takes it back if that fails.                           *)
(*                                                                         *)
(* A registration r is one invocation of register; its call of             *)
(* getAccessToken is the Call r of KisAuth.  The other Calls are those of  *)
(* the pollers and of the price services.                                  *)
(***************************************************************************)
EXTENDS KisAuth

CONSTANT Reg   \* registrations

ASSUME KisCredentialAssumption == Reg \subseteq Call

VARIABLES
  reg,        \* where a registration is, or the status it was answered with
  offered,    \* the key a registration submits
  overlapped  \* history, for the properties only: the registrations that were
              \* past their check while another one of their user was

credVars ==
  <<now, keys, cache, inflight, job, user, pc, on, result, reg, offered, overlapped>>

Pending == {"save", "token", "rollback"}
Answered == {"created", "conflict", "unprocessable", "error"}

CredTypeOK ==
  /\ TypeOK
  /\ reg \in [Reg -> {"idle", "lost"} \cup Pending \cup Answered]
  /\ offered \in [Reg -> Key]
  /\ overlapped \subseteq Reg

CredInit ==
  /\ Init
  /\ keys = [u \in User |-> None]
  /\ reg = [r \in Reg |-> "idle"]
  /\ offered \in [Reg -> Key]
  /\ overlapped = {}

Becomes(r, s) == reg' = [reg EXCEPT ![r] = s] /\ UNCHANGED <<offered, overlapped>>

\* The registrations of a user that are past their check.
InProgress(u) == {r \in Reg : user[r] = u /\ reg[r] \in Pending}

\* Registration r passes its check.
Begins(r) ==
  LET others == InProgress(user[r]) IN
  /\ reg' = [reg EXCEPT ![r] = "save"]
  /\ overlapped' = overlapped \cup others \cup {s \in {r} : others # {}}
  /\ UNCHANGED offered

-----------------------------------------------------------------------------
(* register *)

\* Mutant of RefuseDuplicate: a repeated registration is accepted at once.
AcceptRepeated(r) ==
  /\ reg[r] = "idle"
  /\ keys[user[r]] = offered[r]
  /\ \E s \in Reg \ {r} : reg[s] = "created" /\ user[s] = user[r]
  /\ Becomes(r, "created")
  /\ UNCHANGED authVars

\* 409: a key is already stored.
RefuseDuplicate(r) ==
  /\ reg[r] = "idle"
  /\ keys[user[r]] # None
  /\ Becomes(r, "conflict")
  /\ UNCHANGED authVars

\* Mutant of CheckExisting: no early return when a key is stored.
CheckNothing(r) == reg[r] = "idle" /\ Begins(r) /\ UNCHANGED authVars

CheckExisting(r) ==
  /\ reg[r] = "idle"
  /\ keys[user[r]] = None
  /\ Begins(r)
  /\ UNCHANGED authVars

SaveKey(r) ==
  /\ reg[r] = "save"
  /\ KeyWritten(user[r], offered[r])
  /\ Becomes(r, "token")

\* The awaited getAccessToken has returned a token: 201.
Accept(r) ==
  /\ reg[r] = "token"
  /\ pc[r] = "done"
  /\ result[r].token.key # None
  /\ Becomes(r, "created")
  /\ UNCHANGED authVars

\* It has thrown.
Refuse(r) ==
  /\ reg[r] = "token"
  /\ pc[r] = "done"
  /\ result[r].token.key = None
  /\ Becomes(r, "rollback")
  /\ UNCHANGED authVars

\* The key columns are set to null, then 422.
Rollback(r) ==
  /\ reg[r] = "rollback"
  /\ KeyWritten(user[r], None)
  /\ Becomes(r, "unprocessable")

\* The database fails under the check, the save or the rollback, or commits
\* the write and its answer is lost: 500.
DatabaseFails(r) ==
  /\ \/ reg[r] \in {"idle", "save", "rollback"} /\ UNCHANGED authVars
     \/ reg[r] = "save" /\ KeyWritten(user[r], offered[r])
     \/ reg[r] = "rollback" /\ KeyWritten(user[r], None)
  /\ Becomes(r, "error")

Register(r) ==
  \/ RefuseDuplicate(r)
  \/ CheckExisting(r)
  \/ SaveKey(r)
  \/ Accept(r)
  \/ Refuse(r)
  \/ Rollback(r)
  \/ DatabaseFails(r)

-----------------------------------------------------------------------------
(* KisAuth's steps around it. *)

TokenStep(c) ==
  /\ GetAccessToken(c) \/ IssueToken(c)
  /\ c \in Reg => reg[c] = "token"
  /\ UNCHANGED <<reg, offered, overlapped>>

CredTick == Tick /\ UNCHANGED <<reg, offered, overlapped>>

CredRestart ==
  /\ Restart
  /\ reg' = [r \in Reg |-> IF reg[r] \in Pending THEN "lost" ELSE reg[r]]
  /\ UNCHANGED <<offered, overlapped>>

CredNext ==
  \/ \E r \in Reg : Register(r)
  \/ \E c \in Call : TokenStep(c)
  \/ CredTick
  \/ CredRestart

\* What is under way goes on: the database, Redis and KIS (within the 5 s HTTP
\* timeout) answer or fail.  Nothing obliges a client to call.
CredFairness ==
  /\ \A r \in Reg : WF_credVars(reg[r] \in Pending /\ Register(r))
  /\ \A c \in Call : WF_credVars(IssueToken(c) /\ TokenStep(c))
  /\ \A r \in Reg : WF_credVars(GetAccessToken(r) /\ TokenStep(r))

CredSpec == CredInit /\ [][CredNext]_credVars
CredFairSpec == CredSpec /\ CredFairness

-----------------------------------------------------------------------------
\* getStatus: what the user is told about the stored key.
GetStatus(u) == [registered |-> keys[u] # None]

\* "Prevent duplicate registration: 409 if one exists" (kisCredential.service.ts:42):
\* a user is answered 201 twice only if one of the two registrations was past
\* its check while another of the user's was; whatever races go on beside it,
\* a registration that overlapped none is refused once there is a key, also one
\* whose saving was told as a failure (:53) or interrupted by a restart.
DuplicateRefused ==
  \A r, s \in Reg :
    /\ reg[r] = "created" /\ reg[s] = "created"
    /\ user[r] = user[s] /\ r # s
    => r \in overlapped \/ s \in overlapped

\* The key of a registration that was answered 201 and overlapped none of its
\* user stays the stored key: no later registration replaces it ("409 if one
\* exists", kisCredential.service.ts:42), and none that was still under way
\* comes to take it back (:68), however registrations race before or after.
AcceptedKeyStays ==
  \A r \in Reg : reg[r] = "created" /\ r \notin overlapped =>
    GetStatus(user[r]).registered /\ keys[user[r]] = offered[r]

\* Every registration under way is answered, unless the process restarts.
RegistrationAnswered ==
  \A r \in Reg : reg[r] = "save" ~> reg[r] \in Answered \cup {"lost"}
=============================================================================
