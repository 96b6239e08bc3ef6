------------------------------ MODULE Accounts ------------------------------
(***************************************************************************)
(* AuthService (src/src/modules/auth/auth.service.ts) and                  *)
(* AuthPasswordsService (passwords/auth-passwords.service.ts) over the     *)
(* table users.  Requests interleave between any two queries and around    *)
(* the mail; the hashing happens between the reads and the write.          *)
(*                                                                         *)
(* A user is named by the request that created it, and a password by the   *)
(* request that introduced it: the sign-up, the change, or the reset that  *)
(* drew a temporary one.                                                   *)
(***************************************************************************)
EXTENDS Naturals, FiniteSets

CONSTANTS
  Email, Nickname,
  Signup, Visit,    \* POST /auth and POST /auth/anonymous
  Reset, Change,    \* POST /auth/passwords/reset-request and PATCH /auth/passwords
  Serial,           \* addresses for which one reset is requested at a time
  None              \* SQL null

Req == Signup \cup Visit \cup Reset \cup Change
Password == Signup \cup Reset \cup Change

ASSUME AccountsAssumption ==
  /\ None \notin Email \cup Password
  /\ Serial \subseteq Email
  /\ Signup \cap Visit = {} /\ Reset \cap Change = {}
  /\ (Signup \cup Visit) \cap (Reset \cup Change) = {}

VARIABLES
  users,     \* a function from the ids of the rows
  tokens,    \* users for whom an access token was issued
  mailed,    \* resets whose mail was delivered
  call,      \* arguments of a request
  original,  \* the password that a reset has read
  pc,
  status     \* the answer; "error" stands for every refusal but a reset's

vars == <<users, tokens, mailed, call, original, pc, status>>

User == [email : Email \cup {None}, nickname : Nickname, password : Password \cup {None}]

TypeOK ==
  /\ DOMAIN users \subseteq Signup \cup Visit
  /\ \A u \in DOMAIN users : users[u] \in User /\ (u \in Visit <=> users[u].email = None)
  /\ tokens \subseteq DOMAIN users
  /\ mailed \subseteq Reset
  /\ original \in [Reset -> Password \cup {None}]
  /\ pc \in [Req -> {"idle", "email", "nickname", "create", "find", "store", "mail",
                     "restore", "done"}]

Init ==
  /\ users = <<>>
  /\ tokens = {} /\ mailed = {}
  /\ call = [r \in Req |-> None]
  /\ original = [r \in Reset |-> None]
  /\ pc = [r \in Req |-> "idle"]
  /\ status = [r \in Req |-> "none"]

ByEmail(e) == {u \in DOMAIN users : users[u].email = e}
ByNickname(n) == {u \in DOMAIN users : users[u].nickname = n}

Running(r) == pc[r] \notin {"idle", "done"}

Goto(r, step) == pc' = [pc EXCEPT ![r] = step] /\ UNCHANGED status
Answer(r, s) ==
  /\ pc' = [pc EXCEPT ![r] = "done"]
  /\ status' = [status EXCEPT ![r] = s]

\* A step that reads, and answers s when the row it needs is missing.
Check(r, ok, next, s) ==
  /\ IF ok THEN Goto(r, next) ELSE Answer(r, s)
  /\ UNCHANGED <<users, tokens, mailed, call, original>>

Insert(r, row) ==
  users' = [u \in DOMAIN users \cup {r} |-> IF u = r THEN row ELSE users[u]]

SetPassword(u, p) == users' = [users EXCEPT ![u].password = p]

-----------------------------------------------------------------------------
(* signup, createAnonymousSession and login *)

\* The controller refuses a password that differs from its confirmation.
SubmitSignup(s, e, n) ==
  /\ pc[s] = "idle"
  /\ call' = [call EXCEPT ![s] = [email |-> e, nickname |-> n]]
  /\ Goto(s, "email") \/ Answer(s, "error")
  /\ UNCHANGED <<users, tokens, mailed, original>>

FindEmail(s) ==
  /\ pc[s] = "email"
  /\ Check(s, ByEmail(call[s].email) = {}, "nickname", "error")

FindNickname(s) ==
  /\ pc[s] = "nickname"
  /\ Check(s, ByNickname(call[s].nickname) = {}, "create", "error")

\* users.email (nulls apart) and users.nickname are unique.
Unique(row) ==
  /\ row.email # None => ByEmail(row.email) = {}
  /\ ByNickname(row.nickname) = {}

\* The user and its settings are inserted in one transaction.
CreateUser(s) ==
  LET row == [email |-> call[s].email, nickname |-> call[s].nickname, password |-> s] IN
  /\ pc[s] = "create"
  /\ IF Unique(row) THEN Insert(s, row) /\ Answer(s, "created")
     ELSE Answer(s, "error") /\ UNCHANGED users
  /\ UNCHANGED <<tokens, mailed, call, original>>

\* n stands for the name drawn for the visitor.
CreateVisitor(v, n) ==
  LET row == [email |-> None, nickname |-> n, password |-> None] IN
  /\ pc[v] = "idle"
  /\ IF Unique(row)
     THEN Insert(v, row) /\ Answer(v, "created") /\ tokens' = tokens \cup {v}
     ELSE Answer(v, "error") /\ UNCHANGED <<users, tokens>>
  /\ UNCHANGED <<mailed, call, original>>

\* The row without a password is refused before the comparison.
Login(u, p) ==
  /\ users[u].email # None /\ users[u].password = p
  /\ tokens' = tokens \cup {u}
  /\ UNCHANGED <<users, mailed, call, original, pc, status>>

-----------------------------------------------------------------------------
(* sendTemporaryPassword *)

SubmitReset(r, e) ==
  /\ pc[r] = "idle"
  /\ e \in Serial => \A x \in Reset : Running(x) => call[x].email # e
  /\ call' = [call EXCEPT ![r] = [email |-> e]]
  /\ Goto(r, "find")
  /\ UNCHANGED <<users, tokens, mailed, original>>

FindForReset(r) ==
  LET found == ByEmail(call[r].email) IN
  /\ pc[r] = "find"
  /\ IF found = {} THEN Answer(r, "notFound") /\ UNCHANGED original
     ELSE /\ Goto(r, "store")
          /\ \E u \in found : original' = [original EXCEPT ![r] = users[u].password]
  /\ UNCHANGED <<users, tokens, mailed, call>>

StoreTemporary(r) ==
  /\ pc[r] = "store"
  /\ \E u \in ByEmail(call[r].email) : SetPassword(u, r)
  /\ Goto(r, "mail")
  /\ UNCHANGED <<tokens, mailed, call, original>>

\* The mailer may fail after the mail was accepted.
SendMail(r) ==
  /\ pc[r] = "mail"
  /\ \/ mailed' = mailed \cup {r} /\ (Answer(r, "sent") \/ Goto(r, "restore"))
     \/ UNCHANGED mailed /\ Goto(r, "restore")
  /\ UNCHANGED <<users, tokens, call, original>>

\* Mutant of Restore: the error is thrown before the password is restored.
ThrowFirst(r) ==
  /\ pc[r] = "restore"
  /\ Answer(r, "mailFailed")
  /\ UNCHANGED <<users, tokens, mailed, call, original>>

Restore(r) ==
  /\ pc[r] = "restore"
  /\ \E u \in ByEmail(call[r].email) : SetPassword(u, original[r])
  /\ Answer(r, "mailFailed")
  /\ UNCHANGED <<tokens, mailed, call, original>>

-----------------------------------------------------------------------------
(* changePassword *)

\* The guard accepts a token whose user exists; the controller compares the
\* new password with its confirmation.
SubmitChange(c, u, p) ==
  /\ pc[c] = "idle"
  /\ u \in tokens
  /\ call' = [call EXCEPT ![c] = [user |-> u, current |-> p]]
  /\ Goto(c, "find") \/ Answer(c, "error")
  /\ UNCHANGED <<users, tokens, mailed, original>>

\* The comparison with the empty string that stands for null fails.
Matches(u, p) == users[u].password = p

FindForChange(c) ==
  /\ pc[c] = "find"
  /\ Check(c, Matches(call[c].user, call[c].current), "store", "error")

StoreChange(c) ==
  /\ pc[c] = "store"
  /\ SetPassword(call[c].user, c)
  /\ Answer(c, "changed")
  /\ UNCHANGED <<tokens, mailed, call, original>>

-----------------------------------------------------------------------------
\* A query fails or the process restarts; a reset may then leave a password
\* that nobody was told.
Die(r) ==
  /\ Running(r)
  /\ Answer(r, IF r \in Reset THEN "died" ELSE "error")
  /\ UNCHANGED <<users, tokens, mailed, call, original>>

ResetStep(r) == FindForReset(r) \/ StoreTemporary(r) \/ SendMail(r) \/ Restore(r)

Next ==
  \/ \E s \in Signup, e \in Email, n \in Nickname : SubmitSignup(s, e, n)
  \/ \E s \in Signup : FindEmail(s) \/ FindNickname(s) \/ CreateUser(s)
  \/ \E v \in Visit, n \in Nickname : CreateVisitor(v, n)
  \/ \E u \in DOMAIN users, p \in Password : Login(u, p)
  \/ \E r \in Reset, e \in Email : SubmitReset(r, e)
  \/ \E r \in Reset : ResetStep(r)
  \/ \E c \in Change, u \in DOMAIN users, p \in Password : SubmitChange(c, u, p)
  \/ \E c \in Change : FindForChange(c) \/ StoreChange(c)
  \/ \E r \in Req : Die(r)

Spec == Init /\ [][Next]_vars

-----------------------------------------------------------------------------
\* No two users share an email or a nickname, although both are checked
\* before the password is hashed.
UniqueIdentity ==
  \A u, v \in DOMAIN users : u # v =>
    /\ users[u].nickname # users[v].nickname
    /\ users[u].email # None => users[u].email # users[v].email

Told == Signup \cup Change \cup mailed

\* The owner was told the password of the account, or a reset is running or
\* died: however mails fail, and whatever changes overlap with the reset.
KnownPassword ==
  \A u \in DOMAIN users : users[u].email \in Serial =>
    LET p == users[u].password IN p \in Told \/ (p \in Reset /\ status[p] \in {"none", "died"})

\* An account without a password, a visitor's, never gets one.
VisitorsStayPasswordless == \A v \in DOMAIN users : v \in Visit => users[v].password = None

=============================================================================
