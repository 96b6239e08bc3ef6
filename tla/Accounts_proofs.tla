-------------------------- MODULE Accounts_proofs ---------------------------
(***************************************************************************)
(* Proofs about Accounts, for every value of the constants: identities are *)
(* unique, visitors stay without a password, and whoever requests one      *)
(* reset at a time was told the password unless a reset runs or died.      *)
(***************************************************************************)
EXTENDS Accounts, TLAPS

Answers == {"none", "error", "created", "notFound", "sent", "mailFailed", "changed", "died"}

\* What each kind of request has read and where it can be.
Progress ==
  /\ status \in [Req -> Answers]
  /\ DOMAIN call = Req
  /\ \A s \in Signup :
       /\ pc[s] \in {"idle", "email", "nickname", "create", "done"}
       /\ pc[s] \in {"email", "nickname", "create"} =>
            call[s] \in [email : Email, nickname : Nickname]
       /\ s \in DOMAIN users => pc[s] = "done"
  /\ \A v \in Visit : pc[v] \in {"idle", "done"} /\ (v \in DOMAIN users => pc[v] = "done")
  /\ \A r \in Reset :
       /\ pc[r] \in {"idle", "find", "store", "mail", "restore", "done"}
       /\ pc[r] # "idle" => call[r] \in [email : Email]
       /\ pc[r] # "done" <=> status[r] = "none"
       /\ pc[r] \in {"store", "mail", "restore"} => original[r] \in Password
  /\ \A c \in Change :
       /\ pc[c] \in {"idle", "find", "store", "done"}
       /\ pc[c] \in {"find", "store"} =>
            call[c] \in [user : DOMAIN users, current : Password]
       /\ pc[c] = "store" => call[c].user \notin Visit

\* Only visitors have no password.
PasswordsFit ==
  /\ VisitorsStayPasswordless
  /\ \A s \in Signup : s \in DOMAIN users => users[s].password # None

\* Everything but the passwords that resets introduce.
SafeInv == TypeOK /\ Progress /\ UniqueIdentity /\ PasswordsFit

\* A password that stays known: it was told, or its reset died.
Settled(p) == p \in Told \/ (p \in Reset /\ status[p] = "died")

\* A temporary password is stored for the address its reset was requested for.
DrawnFor(p, e) ==
  p \in Reset => pc[p] \in {"mail", "restore", "done"} /\ call[p].email = e

\* What a reset would restore.
OriginalSound ==
  \A r \in Reset : pc[r] \in {"store", "mail", "restore"} =>
    /\ DrawnFor(original[r], call[r].email)
    /\ call[r].email \in Serial => Settled(original[r])

PasswordsOwn == \A u \in DOMAIN users : DrawnFor(users[u].password, users[u].email)

\* Resets for one address of Serial do not overlap.
ResetsApart ==
  \A r, x \in Reset :
    r # x /\ Running(r) /\ Running(x) /\ call[r].email = call[x].email
    => call[r].email \notin Serial

\* The inductive invariant.
IInv == SafeInv /\ OriginalSound /\ PasswordsOwn /\ ResetsApart /\ KnownPassword

-----------------------------------------------------------------------------
LEMMA InitSound == Init => IInv
<1> SUFFICES ASSUME Init PROVE IInv
  OBVIOUS
<1>1. DOMAIN users = {}
  BY DEF Init
<1>2. TypeOK
  BY <1>1 DEF Init, TypeOK
<1>3. Progress
  BY <1>1 DEF Init, Progress, Answers, Req
<1>4. UniqueIdentity /\ PasswordsFit
  BY <1>1 DEF UniqueIdentity, PasswordsFit, VisitorsStayPasswordless
<1>5. OriginalSound /\ ResetsApart
  BY DEF Init, OriginalSound, ResetsApart, Running, Req
<1>6. PasswordsOwn /\ KnownPassword
  BY <1>1 DEF PasswordsOwn, KnownPassword
<1> QED BY <1>2, <1>3, <1>4, <1>5, <1>6 DEF IInv, SafeInv

\* The identity and the visitors' passwords survive when one row is inserted
\* under a fresh id, or one password is replaced.
LEMMA InsertSafe ==
  ASSUME SafeInv, NEW r \in Signup \cup Visit, NEW row \in User, r \notin DOMAIN users,
         Unique(row), Insert(r, row), r \in Visit <=> row.email = None,
         r \in Visit <=> row.password = None
  PROVE  /\ DOMAIN users' = DOMAIN users \cup {r}
         /\ users'[r] = row
         /\ \A u \in DOMAIN users : users'[u] = users[u]
         /\ \A u \in DOMAIN users' : users'[u] \in User /\ (u \in Visit <=> users'[u].email = None)
         /\ UniqueIdentity' /\ PasswordsFit'
<1>1. /\ DOMAIN users' = DOMAIN users \cup {r}
      /\ users'[r] = row
      /\ \A u \in DOMAIN users : users'[u] = users[u]
  BY DEF Insert
<1>2. \A u \in DOMAIN users' : users'[u] \in User /\ (u \in Visit <=> users'[u].email = None)
  BY <1>1 DEF SafeInv, TypeOK
<1>3. \A u \in DOMAIN users : /\ users[u].nickname # row.nickname
                              /\ row.email # None => users[u].email # row.email
  BY DEF Unique, ByEmail, ByNickname
<1>4. UniqueIdentity'
  BY <1>1, <1>3 DEF SafeInv, UniqueIdentity
<1>5. PasswordsFit'
  BY <1>1, AccountsAssumption DEF SafeInv, PasswordsFit, VisitorsStayPasswordless
<1> QED BY <1>1, <1>2, <1>4, <1>5

LEMMA SetSafe ==
  ASSUME SafeInv, NEW u \in DOMAIN users, NEW p \in Password, SetPassword(u, p), u \notin Visit
  PROVE  /\ DOMAIN users' = DOMAIN users
         /\ users'[u].password = p
         /\ \A x \in DOMAIN users : x # u => users'[x] = users[x]
         /\ \A x \in DOMAIN users : users'[x].email = users[x].email
         /\ \A x \in DOMAIN users' : users'[x] \in User /\ (x \in Visit <=> users'[x].email = None)
         /\ UniqueIdentity' /\ PasswordsFit'
<1>1. /\ DOMAIN users' = DOMAIN users
      /\ users'[u] = [users[u] EXCEPT !.password = p]
      /\ \A x \in DOMAIN users : x # u => users'[x] = users[x]
  BY DEF SetPassword
<1>2. users[u] \in User
  BY DEF SafeInv, TypeOK
<1>3. /\ users'[u] \in User /\ users'[u].password = p
      /\ users'[u].email = users[u].email /\ users'[u].nickname = users[u].nickname
  BY <1>1, <1>2 DEF User
<1>4. \A x \in DOMAIN users : users'[x].email = users[x].email /\ users'[x].nickname = users[x].nickname
  BY <1>1, <1>3
<1>5. \A x \in DOMAIN users' : users'[x] \in User /\ (x \in Visit <=> users'[x].email = None)
  BY <1>1, <1>3, <1>4 DEF SafeInv, TypeOK
<1>6. UniqueIdentity'
  BY <1>1, <1>4 DEF SafeInv, UniqueIdentity
<1>7. PasswordsFit'
  BY <1>1, <1>3, AccountsAssumption DEF SafeInv, PasswordsFit, VisitorsStayPasswordless
<1> QED BY <1>1, <1>3, <1>4, <1>5, <1>6, <1>7

-----------------------------------------------------------------------------
\* Every step keeps the types, the progress of the requests, the identities and
\* the visitors without a password.
LEMMA SafeStep == SafeInv /\ [Next]_vars => SafeInv'
<1> SUFFICES ASSUME SafeInv, [Next]_vars PROVE SafeInv'
  OBVIOUS
<1> USE DEF Req
<1>s. ASSUME UNCHANGED users PROVE UniqueIdentity' /\ PasswordsFit'
  BY <1>s DEF SafeInv, UniqueIdentity, PasswordsFit, VisitorsStayPasswordless
<1>1. ASSUME NEW s \in Signup, NEW e \in Email, NEW n \in Nickname, SubmitSignup(s, e, n)
      PROVE SafeInv'
  <2>1. TypeOK' /\ Progress'
    BY <1>1, AccountsAssumption
       DEF SubmitSignup, Goto, Answer, SafeInv, TypeOK, Progress, Answers
  <2> QED BY <1>1, <1>s, <2>1 DEF SafeInv, SubmitSignup
<1>2. ASSUME NEW s \in Signup, FindEmail(s) \/ FindNickname(s) PROVE SafeInv'
  <2>1. TypeOK' /\ Progress'
    BY <1>2, AccountsAssumption
       DEF FindEmail, FindNickname, Check, Goto, Answer, SafeInv, TypeOK, Progress, Answers
  <2> QED BY <1>2, <1>s, <2>1 DEF SafeInv, FindEmail, FindNickname, Check
<1>3. ASSUME NEW s \in Signup, CreateUser(s) PROVE SafeInv'
  <2> DEFINE row == [email |-> call[s].email, nickname |-> call[s].nickname, password |-> s]
  <2>1. row \in User /\ s \notin DOMAIN users /\ s \notin Visit /\ row.email # None
       /\ row.password # None
    BY <1>3, AccountsAssumption DEF CreateUser, SafeInv, Progress, User, Password
  <2>2. CASE Unique(row)
    <3>1. Insert(s, row) /\ Answer(s, "created")
      BY <1>3, <2>2 DEF CreateUser
    <3> HIDE DEF row
    <3>2. /\ DOMAIN users' = DOMAIN users \cup {s}
          /\ \A u \in DOMAIN users' : users'[u] \in User /\ (u \in Visit <=> users'[u].email = None)
          /\ UniqueIdentity' /\ PasswordsFit'
      BY <2>1, <2>2, <3>1, InsertSafe
    <3>3. TypeOK' /\ Progress'
      BY <1>3, <3>1, <3>2, AccountsAssumption
         DEF CreateUser, Answer, SafeInv, TypeOK, Progress, Answers
    <3> QED BY <3>2, <3>3 DEF SafeInv
  <2>3. CASE ~Unique(row)
    <3>1. UNCHANGED users /\ Answer(s, "error")
      BY <1>3, <2>3 DEF CreateUser
    <3>2. TypeOK' /\ Progress'
      BY <1>3, <3>1, AccountsAssumption
         DEF CreateUser, Answer, SafeInv, TypeOK, Progress, Answers
    <3> QED BY <1>s, <3>1, <3>2 DEF SafeInv
  <2> QED BY <2>2, <2>3
<1>4. ASSUME NEW v \in Visit, NEW n \in Nickname, CreateVisitor(v, n) PROVE SafeInv'
  <2> DEFINE row == [email |-> None, nickname |-> n, password |-> None]
  <2>1. row \in User /\ v \notin DOMAIN users /\ row.email = None /\ row.password = None
    BY <1>4 DEF CreateVisitor, SafeInv, Progress, User
  <2>2. CASE Unique(row)
    <3>1. Insert(v, row) /\ Answer(v, "created") /\ tokens' = tokens \cup {v}
      BY <1>4, <2>2 DEF CreateVisitor
    <3> HIDE DEF row
    <3>2. /\ DOMAIN users' = DOMAIN users \cup {v}
          /\ \A u \in DOMAIN users' : users'[u] \in User /\ (u \in Visit <=> users'[u].email = None)
          /\ UniqueIdentity' /\ PasswordsFit'
      BY <2>1, <2>2, <3>1, InsertSafe
    <3>3. TypeOK' /\ Progress'
      BY <1>4, <3>1, <3>2, AccountsAssumption
         DEF CreateVisitor, Answer, SafeInv, TypeOK, Progress, Answers
    <3> QED BY <3>2, <3>3 DEF SafeInv
  <2>3. CASE ~Unique(row)
    <3>1. UNCHANGED <<users, tokens>> /\ Answer(v, "error")
      BY <1>4, <2>3 DEF CreateVisitor
    <3>2. TypeOK' /\ Progress'
      BY <1>4, <3>1, AccountsAssumption
         DEF CreateVisitor, Answer, SafeInv, TypeOK, Progress, Answers
    <3> QED BY <1>s, <3>1, <3>2 DEF SafeInv
  <2> QED BY <2>2, <2>3
<1>5. ASSUME NEW u \in DOMAIN users, NEW p \in Password, Login(u, p) PROVE SafeInv'
  <2>1. TypeOK' /\ Progress'
    BY <1>5 DEF Login, SafeInv, TypeOK, Progress
  <2> QED BY <1>5, <1>s, <2>1 DEF SafeInv, Login
<1>6. ASSUME NEW r \in Reset, NEW e \in Email, SubmitReset(r, e) PROVE SafeInv'
  <2>1. TypeOK' /\ Progress'
    BY <1>6, AccountsAssumption DEF SubmitReset, Goto, SafeInv, TypeOK, Progress
  <2> QED BY <1>6, <1>s, <2>1 DEF SafeInv, SubmitReset
<1>7. ASSUME NEW r \in Reset, FindForReset(r) PROVE SafeInv'
  <2>0. \A u \in ByEmail(call[r].email) : users[u].password \in Password
    BY <1>7, AccountsAssumption
       DEF FindForReset, ByEmail, SafeInv, TypeOK, Progress, PasswordsFit, User
  <2>1. TypeOK' /\ Progress'
    <3>1. CASE ByEmail(call[r].email) = {}
      BY <1>7, <3>1, AccountsAssumption
         DEF FindForReset, Answer, SafeInv, TypeOK, Progress, Answers
    <3>2. ASSUME NEW u \in ByEmail(call[r].email), original' = [original EXCEPT ![r] = users[u].password]
          PROVE TypeOK' /\ Progress'
      <4>1. Goto(r, "store") /\ users[u].password \in Password /\ UNCHANGED <<users, tokens, mailed, call>>
        BY <1>7, <2>0, <3>2 DEF FindForReset
      <4> QED
        BY <1>7, <3>2, <4>1, AccountsAssumption
           DEF FindForReset, Goto, SafeInv, TypeOK, Progress, Answers
    <3> QED BY <1>7, <3>1, <3>2 DEF FindForReset
  <2> QED BY <1>7, <1>s, <2>1 DEF SafeInv, FindForReset
<1>8. ASSUME NEW r \in Reset, StoreTemporary(r) \/ Restore(r) PROVE SafeInv'
  <2>1. PICK u \in ByEmail(call[r].email), p \in {r, original[r]} : SetPassword(u, p)
    BY <1>8 DEF StoreTemporary, Restore
  <2>2. u \in DOMAIN users /\ u \notin Visit /\ p \in Password
    BY <1>8, <2>1, AccountsAssumption
       DEF StoreTemporary, Restore, ByEmail, SafeInv, TypeOK, Progress, Password
  <2>3. /\ DOMAIN users' = DOMAIN users
        /\ \A x \in DOMAIN users' : users'[x] \in User /\ (x \in Visit <=> users'[x].email = None)
        /\ UniqueIdentity' /\ PasswordsFit'
    BY <2>1, <2>2, SetSafe
  <2>4. TypeOK' /\ Progress'
    BY <1>8, <2>3, AccountsAssumption
       DEF StoreTemporary, Restore, Goto, Answer, SafeInv, TypeOK, Progress, Answers
  <2> QED BY <2>3, <2>4 DEF SafeInv
<1>9. ASSUME NEW r \in Reset, SendMail(r) PROVE SafeInv'
  <2>1. TypeOK' /\ Progress'
    BY <1>9, AccountsAssumption
       DEF SendMail, Goto, Answer, SafeInv, TypeOK, Progress, Answers
  <2> QED BY <1>9, <1>s, <2>1 DEF SafeInv, SendMail
<1>10. ASSUME NEW c \in Change, NEW u \in DOMAIN users, NEW p \in Password, SubmitChange(c, u, p)
       PROVE SafeInv'
  <2>1. TypeOK' /\ Progress'
    BY <1>10, AccountsAssumption
       DEF SubmitChange, Goto, Answer, SafeInv, TypeOK, Progress, Answers
  <2> QED BY <1>10, <1>s, <2>1 DEF SafeInv, SubmitChange
<1>11. ASSUME NEW c \in Change, FindForChange(c) PROVE SafeInv'
  <2>0. Matches(call[c].user, call[c].current) => call[c].user \notin Visit
    BY <1>11, AccountsAssumption
       DEF FindForChange, Matches, SafeInv, Progress, PasswordsFit, VisitorsStayPasswordless
  <2>1. TypeOK' /\ Progress'
    BY <1>11, <2>0, AccountsAssumption
       DEF FindForChange, Check, Goto, Answer, SafeInv, TypeOK, Progress, Answers
  <2> QED BY <1>11, <1>s, <2>1 DEF SafeInv, FindForChange, Check
<1>12. ASSUME NEW c \in Change, StoreChange(c) PROVE SafeInv'
  <2>1. call[c].user \in DOMAIN users /\ call[c].user \notin Visit /\ c \in Password
    BY <1>12 DEF StoreChange, SafeInv, Progress, Password
  <2>2. /\ DOMAIN users' = DOMAIN users
        /\ \A x \in DOMAIN users' : users'[x] \in User /\ (x \in Visit <=> users'[x].email = None)
        /\ UniqueIdentity' /\ PasswordsFit'
    BY <1>12, <2>1, SetSafe DEF StoreChange
  <2>3. TypeOK' /\ Progress'
    BY <1>12, <2>2, AccountsAssumption
       DEF StoreChange, Answer, SafeInv, TypeOK, Progress, Answers
  <2> QED BY <2>2, <2>3 DEF SafeInv
<1>13. ASSUME NEW r \in Req, Die(r) PROVE SafeInv'
  <2>1. TypeOK' /\ Progress'
    BY <1>13, AccountsAssumption
       DEF Die, Running, Answer, SafeInv, TypeOK, Progress, Answers
  <2> QED BY <1>13, <1>s, <2>1 DEF SafeInv, Die
<1>14. CASE UNCHANGED vars
  <2>1. TypeOK' /\ Progress'
    BY <1>14 DEF vars, SafeInv, TypeOK, Progress
  <2> QED BY <1>14, <1>s, <2>1 DEF SafeInv, vars
<1> QED
  BY <1>1, <1>2, <1>3, <1>4, <1>5, <1>6, <1>7, <1>8, <1>9, <1>10, <1>11, <1>12, <1>13, <1>14
     DEF Next, ResetStep

-----------------------------------------------------------------------------
\* The passwords that resets introduce: steps of other requests only bring in
\* passwords that somebody chose.
LEMMA OthersKeep ==
  ASSUME IInv, SafeInv', UNCHANGED <<original, mailed>>,
         \A r \in Reset : pc'[r] = pc[r] /\ call'[r] = call[r] /\ status'[r] = status[r],
         \A u \in DOMAIN users' :
           \/ /\ u \in DOMAIN users
              /\ users'[u].password = users[u].password /\ users'[u].email = users[u].email
           \/ users'[u].password \in Signup \cup Change \cup {None}
  PROVE  IInv'
<1> USE AccountsAssumption DEF IInv
<1>1. Told' = Told
  BY DEF Told
<1>2. /\ \A p : Settled(p) => Settled(p)'
      /\ \A p, e : DrawnFor(p, e) => DrawnFor(p, e)'
  BY <1>1 DEF Settled, DrawnFor
<1>3. OriginalSound'
  BY <1>2 DEF OriginalSound
<1>4. PasswordsOwn'
  BY <1>2 DEF PasswordsOwn, DrawnFor, Password
<1>5. ResetsApart'
  BY DEF ResetsApart, Running
<1>6. KnownPassword'
  <2> SUFFICES ASSUME NEW u \in DOMAIN users', users'[u].email \in Serial
               PROVE  \/ users'[u].password \in Told
                      \/ users'[u].password \in Reset /\ status'[users'[u].password] \in {"none", "died"}
    BY <1>1 DEF KnownPassword
  <2>1. CASE u \in DOMAIN users /\ users'[u].password = users[u].password /\ users'[u].email = users[u].email
    BY <2>1 DEF KnownPassword
  <2>2. CASE users'[u].password \in Signup \cup Change
    BY <2>2 DEF Told
  <2>3. CASE users'[u].password = None
    <3>1. u \in Visit
      BY <2>3 DEF SafeInv, PasswordsFit, TypeOK
    <3> QED BY <3>1 DEF SafeInv, TypeOK
  <2> QED BY <2>1, <2>2, <2>3
<1> QED BY <1>3, <1>4, <1>5, <1>6

\* A reset is requested, for an address without another one if it is in Serial.
LEMMA SubmitResetKeeps ==
  ASSUME IInv, SafeInv', NEW r \in Reset, NEW e \in Email, SubmitReset(r, e)
  PROVE  IInv'
<1> USE DEF IInv, Req
<1>1. /\ pc[r] = "idle" /\ pc' = [pc EXCEPT ![r] = "find"]
      /\ call' = [call EXCEPT ![r] = [email |-> e]]
      /\ UNCHANGED <<users, tokens, mailed, original, status>>
      /\ e \in Serial => \A x \in Reset : Running(x) => call[x].email # e
  BY DEF SubmitReset, Goto
<1>2. \A x \in Reset \ {r} : pc'[x] = pc[x] /\ call'[x] = call[x]
  BY <1>1 DEF SafeInv, TypeOK, Progress
<1>3. pc'[r] = "find" /\ call'[r].email = e
  BY <1>1 DEF SafeInv, TypeOK, Progress
<1>4. \A p, x : DrawnFor(p, x) => DrawnFor(p, x)'
  BY <1>1, <1>2 DEF DrawnFor
<1>5. \A p : Settled(p) => Settled(p)'
  BY <1>1 DEF Settled, Told
<1>6. OriginalSound'
  BY <1>1, <1>2, <1>3, <1>4, <1>5 DEF OriginalSound
<1>7. PasswordsOwn'
  BY <1>1, <1>4 DEF PasswordsOwn
<1>8. ResetsApart'
  BY <1>1, <1>2, <1>3 DEF ResetsApart, Running
<1>9. KnownPassword'
  BY <1>1 DEF KnownPassword, Told
<1> QED BY <1>6, <1>7, <1>8, <1>9

\* What a reset reads is settled: the temporary password of another reset would
\* be one that no longer runs.
LEMMA FindForResetKeeps ==
  ASSUME IInv, SafeInv', NEW r \in Reset, FindForReset(r)
  PROVE  IInv'
<1> USE DEF IInv, Req
<1>1. /\ pc[r] = "find" /\ UNCHANGED <<users, tokens, mailed, call>>
      /\ pc'[r] \in {"store", "done"}
      /\ pc'[r] = "store" => \E u \in ByEmail(call[r].email) : original'[r] = users[u].password
      /\ \A x \in Reset \ {r} :
           pc'[x] = pc[x] /\ original'[x] = original[x] /\ status'[x] = status[x]
  BY DEF FindForReset, Goto, Answer, SafeInv, TypeOK, Progress
<1>2. \A p, e : DrawnFor(p, e) => DrawnFor(p, e)' /\ p # r
  BY <1>1 DEF DrawnFor
<1>3. \A p : Settled(p) /\ p # r => Settled(p)'
  BY <1>1 DEF Settled, Told
<1>4. OriginalSound'
  <2> SUFFICES ASSUME NEW x \in Reset, pc'[x] \in {"store", "mail", "restore"}
               PROVE  /\ DrawnFor(original[x], call[x].email)'
                      /\ call[x].email \in Serial => Settled(original[x])'
    BY <1>1 DEF OriginalSound
  <2>1. CASE x # r
    BY <1>1, <1>2, <1>3, <2>1 DEF OriginalSound
  <2>2. CASE x = r
    <3>1. PICK u \in ByEmail(call[r].email) : original'[r] = users[u].password
      BY <1>1, <2>2
    <3> DEFINE p == users[u].password
    <3>2. u \in DOMAIN users /\ users[u].email = call[r].email
      BY DEF ByEmail
    <3>3. DrawnFor(p, call[r].email)
      BY <3>2 DEF PasswordsOwn
    <3>4. ASSUME call[r].email \in Serial PROVE Settled(p)
      <4>1. p \in Told \/ (p \in Reset /\ status[p] \in {"none", "died"})
        BY <3>2, <3>4 DEF KnownPassword
      <4>2. ASSUME p \in Reset, status[p] = "none" PROVE FALSE
        <5>1. p # r /\ pc[p] \in {"mail", "restore", "done"} /\ call[p].email = call[r].email
          BY <1>1, <3>3, <4>2 DEF DrawnFor
        <5>2. CASE pc[p] # "done"
          BY <1>1, <3>4, <4>2, <5>1, <5>2 DEF ResetsApart, Running
        <5>3. CASE pc[p] = "done"
          BY <4>2, <5>3 DEF SafeInv, Progress
        <5> QED BY <5>2, <5>3
      <4> QED BY <4>1, <4>2 DEF Settled
    <3> QED BY <1>1, <1>2, <1>3, <2>2, <3>1, <3>3, <3>4
  <2> QED BY <2>1, <2>2
<1>5. PasswordsOwn'
  BY <1>1, <1>2 DEF PasswordsOwn
<1>6. ResetsApart'
  BY <1>1 DEF ResetsApart, Running
<1>7. KnownPassword'
  BY <1>1, <1>2 DEF KnownPassword, Told, PasswordsOwn
<1> QED BY <1>4, <1>5, <1>6, <1>7

\* The temporary password of a reset that is still running.
LEMMA StoreTemporaryKeeps ==
  ASSUME IInv, SafeInv', NEW r \in Reset, StoreTemporary(r)
  PROVE  IInv'
<1> USE DEF IInv, Req
<1>1. PICK u \in ByEmail(call[r].email) : SetPassword(u, r)
  BY DEF StoreTemporary
<1>2. /\ pc[r] = "store" /\ pc'[r] = "mail"
      /\ UNCHANGED <<tokens, mailed, call, original, status>>
      /\ \A x \in Reset \ {r} : pc'[x] = pc[x]
  BY DEF StoreTemporary, Goto, SafeInv, TypeOK, Progress
<1>3. u \in DOMAIN users /\ users[u].email = call[r].email /\ u \notin Visit
  BY <1>2, AccountsAssumption DEF ByEmail, SafeInv, TypeOK, Progress
<1>4. /\ DOMAIN users' = DOMAIN users /\ users'[u].password = r
      /\ \A x \in DOMAIN users : x # u => users'[x] = users[x]
      /\ \A x \in DOMAIN users : users'[x].email = users[x].email
  BY <1>1, <1>3, SetSafe DEF Password
<1>5. \A p, e : DrawnFor(p, e) => DrawnFor(p, e)'
  BY <1>2 DEF DrawnFor
<1>6. \A p : Settled(p) => Settled(p)'
  BY <1>2 DEF Settled, Told
<1>7. OriginalSound'
  BY <1>2, <1>5, <1>6 DEF OriginalSound
<1>8. PasswordsOwn'
  BY <1>2, <1>3, <1>4, <1>5 DEF PasswordsOwn, DrawnFor
<1>9. ResetsApart'
  BY <1>2 DEF ResetsApart, Running
<1>10. status[r] = "none"
  BY <1>2 DEF SafeInv, Progress
<1>11. KnownPassword'
  BY <1>2, <1>4, <1>10 DEF KnownPassword, Told
<1> QED BY <1>7, <1>8, <1>9, <1>11

\* A delivered mail tells the password.
LEMMA SendMailKeeps ==
  ASSUME IInv, SafeInv', NEW r \in Reset, SendMail(r)
  PROVE  IInv'
<1> USE DEF IInv, Req
<1>1. /\ pc[r] = "mail" /\ pc'[r] \in {"done", "restore"}
      /\ UNCHANGED <<users, tokens, call, original>>
      /\ mailed \subseteq mailed'
      /\ pc'[r] = "done" => r \in mailed'
      /\ pc'[r] = "restore" => UNCHANGED status
      /\ \A x \in Reset \ {r} : pc'[x] = pc[x] /\ status'[x] = status[x]
  BY DEF SendMail, Goto, Answer, SafeInv, TypeOK, Progress
<1>2. \A p, e : DrawnFor(p, e) => DrawnFor(p, e)'
  BY <1>1 DEF DrawnFor
<1>3. status[r] = "none"
  BY <1>1 DEF SafeInv, Progress
<1>4. Told \subseteq Told'
  BY <1>1 DEF Told
<1>5. \A p : Settled(p) => Settled(p)'
  BY <1>1, <1>3, <1>4 DEF Settled
<1>6. OriginalSound'
  BY <1>1, <1>2, <1>5 DEF OriginalSound
<1>7. PasswordsOwn'
  BY <1>1, <1>2 DEF PasswordsOwn
<1>8. ResetsApart'
  BY <1>1 DEF ResetsApart, Running
<1>9. \/ r \in Told'
      \/ status'[r] = "none"
  BY <1>1, <1>3 DEF Told
<1>10. KnownPassword'
  BY <1>1, <1>4, <1>9 DEF KnownPassword
<1> QED BY <1>6, <1>7, <1>8, <1>10

\* The restored password was settled when it was read, and nobody else has the
\* temporary one.
LEMMA RestoreKeeps ==
  ASSUME IInv, SafeInv', NEW r \in Reset, Restore(r)
  PROVE  IInv'
<1> USE DEF IInv, Req
<1> DEFINE old == original[r]
<1>1. PICK u \in ByEmail(call[r].email) : SetPassword(u, old)
  BY DEF Restore
<1>2. /\ pc[r] = "restore" /\ pc'[r] = "done"
      /\ UNCHANGED <<tokens, mailed, call, original>>
      /\ \A x \in Reset \ {r} : pc'[x] = pc[x] /\ status'[x] = status[x]
  BY DEF Restore, Answer, SafeInv, TypeOK, Progress
<1>3. u \in DOMAIN users /\ users[u].email = call[r].email /\ u \notin Visit /\ users[u].email # None
  BY <1>2, AccountsAssumption DEF ByEmail, SafeInv, TypeOK, Progress
<1>4. /\ DOMAIN users' = DOMAIN users /\ users'[u].password = old
      /\ \A x \in DOMAIN users : x # u => users'[x] = users[x]
      /\ \A x \in DOMAIN users : users'[x].email = users[x].email
  <2>1. old \in Password
    BY <1>2 DEF SafeInv, Progress
  <2> QED BY <1>1, <1>3, <2>1, SetSafe
<1>5. \A p, e : DrawnFor(p, e) => DrawnFor(p, e)'
  BY <1>2 DEF DrawnFor
<1>6. status[r] = "none"
  BY <1>2 DEF SafeInv, Progress
<1>7. \A p : Settled(p) => Settled(p)'
  BY <1>2, <1>6 DEF Settled, Told
<1>8. OriginalSound'
  BY <1>2, <1>5, <1>7 DEF OriginalSound
<1>9. PasswordsOwn'
  BY <1>2, <1>3, <1>4, <1>5 DEF PasswordsOwn, OriginalSound
<1>10. ResetsApart'
  BY <1>2 DEF ResetsApart, Running
<1>11. KnownPassword'
  <2> SUFFICES ASSUME NEW x \in DOMAIN users', users'[x].email \in Serial
               PROVE  \/ users'[x].password \in Told'
                      \/ users'[x].password \in Reset /\ status'[users'[x].password] \in {"none", "died"}
    BY DEF KnownPassword
  <2>1. CASE x = u
    BY <1>2, <1>3, <1>4, <1>7, <2>1 DEF OriginalSound, Settled
  <2>2. CASE x # u
    <3>1. users[x].email # call[r].email
      BY <1>3, <1>4, <2>2 DEF SafeInv, UniqueIdentity
    <3>2. users[x].password # r
      BY <1>4, <3>1 DEF PasswordsOwn, DrawnFor
    <3> QED BY <1>2, <1>4, <2>2, <3>2 DEF KnownPassword, Told
  <2> QED BY <2>1, <2>2
<1> QED BY <1>8, <1>9, <1>10, <1>11

\* A reset that dies may leave its password, and says so.
LEMMA DieKeeps ==
  ASSUME IInv, SafeInv', NEW r \in Reset, Die(r)
  PROVE  IInv'
<1> USE DEF IInv, Req
<1>1. /\ pc'[r] = "done" /\ status'[r] = "died"
      /\ UNCHANGED <<users, tokens, mailed, call, original>>
      /\ \A x \in Reset \ {r} : pc'[x] = pc[x] /\ status'[x] = status[x]
  BY DEF Die, Answer, SafeInv, TypeOK, Progress
<1>2. \A p, e : DrawnFor(p, e) => DrawnFor(p, e)'
  BY <1>1 DEF DrawnFor
<1>3. \A p : Settled(p) => Settled(p)'
  BY <1>1 DEF Settled, Told
<1>4. OriginalSound'
  BY <1>1, <1>2, <1>3 DEF OriginalSound
<1>5. PasswordsOwn'
  BY <1>1, <1>2 DEF PasswordsOwn
<1>6. ResetsApart'
  BY <1>1 DEF ResetsApart, Running
<1>7. KnownPassword'
  BY <1>1 DEF KnownPassword, Told
<1> QED BY <1>4, <1>5, <1>6, <1>7

-----------------------------------------------------------------------------
LEMMA IStep == IInv /\ [Next]_vars => IInv'
<1> SUFFICES ASSUME IInv, [Next]_vars PROVE IInv'
  OBVIOUS
<1>0. SafeInv'
  BY SafeStep DEF IInv
<1>1. ASSUME NEW r \in Reset, ResetStep(r) PROVE IInv'
  BY <1>0, <1>1, FindForResetKeeps, StoreTemporaryKeeps, SendMailKeeps, RestoreKeeps DEF ResetStep
<1>2. ASSUME NEW r \in Reset, NEW e \in Email, SubmitReset(r, e) PROVE IInv'
  BY <1>0, <1>2, SubmitResetKeeps
<1>3. ASSUME NEW r \in Reset, Die(r) PROVE IInv'
  BY <1>0, <1>3, DieKeeps
<1>4. ASSUME UNCHANGED <<original, mailed>>,
             \A r \in Reset : pc'[r] = pc[r] /\ call'[r] = call[r] /\ status'[r] = status[r],
             UNCHANGED users
      PROVE IInv'
  BY <1>0, <1>4, OthersKeep
<1> USE AccountsAssumption DEF IInv, SafeInv, TypeOK, Progress, Req
<1>5. ASSUME NEW s \in Signup, NEW e \in Email, NEW n \in Nickname, SubmitSignup(s, e, n)
      PROVE IInv'
  <2>1. /\ UNCHANGED <<original, mailed, users>>
        /\ \A r \in Reset : pc'[r] = pc[r] /\ call'[r] = call[r] /\ status'[r] = status[r]
    BY <1>5 DEF SubmitSignup, Goto, Answer
  <2> QED BY <1>4, <2>1
<1>6. ASSUME NEW s \in Signup, FindEmail(s) \/ FindNickname(s) PROVE IInv'
  <2>1. /\ UNCHANGED <<original, mailed, users>>
        /\ \A r \in Reset : pc'[r] = pc[r] /\ call'[r] = call[r] /\ status'[r] = status[r]
    BY <1>6 DEF FindEmail, FindNickname, Check, Goto, Answer
  <2> QED BY <1>4, <2>1
<1>7. ASSUME NEW s \in Signup, CreateUser(s) PROVE IInv'
  <2>1. /\ UNCHANGED <<original, mailed>>
        /\ \A r \in Reset : pc'[r] = pc[r] /\ call'[r] = call[r] /\ status'[r] = status[r]
    BY <1>7 DEF CreateUser, Answer
  <2>2. ASSUME NEW u \in DOMAIN users'
        PROVE  \/ u \in DOMAIN users /\ users'[u] = users[u]
               \/ users'[u].password = s
    BY <1>7 DEF CreateUser, Insert
  <2> HIDE DEF IInv, SafeInv, TypeOK, Progress, Req
  <2> QED BY <1>0, <2>1, <2>2, OthersKeep
<1>8. ASSUME NEW v \in Visit, NEW n \in Nickname, CreateVisitor(v, n) PROVE IInv'
  <2>1. /\ UNCHANGED <<original, mailed>>
        /\ \A r \in Reset : pc'[r] = pc[r] /\ call'[r] = call[r] /\ status'[r] = status[r]
    BY <1>8 DEF CreateVisitor, Answer
  <2>2. ASSUME NEW u \in DOMAIN users'
        PROVE  \/ u \in DOMAIN users /\ users'[u] = users[u]
               \/ users'[u].password = None
    BY <1>8 DEF CreateVisitor, Insert
  <2> HIDE DEF IInv, SafeInv, TypeOK, Progress, Req
  <2> QED BY <1>0, <2>1, <2>2, OthersKeep
<1>9. ASSUME NEW u \in DOMAIN users, NEW p \in Password, Login(u, p) PROVE IInv'
  BY <1>4, <1>9 DEF Login
<1>10. ASSUME NEW c \in Change, NEW u \in DOMAIN users, NEW p \in Password, SubmitChange(c, u, p)
       PROVE IInv'
  <2>1. /\ UNCHANGED <<original, mailed, users>>
        /\ \A r \in Reset : pc'[r] = pc[r] /\ call'[r] = call[r] /\ status'[r] = status[r]
    BY <1>10 DEF SubmitChange, Goto, Answer
  <2> QED BY <1>4, <2>1
<1>11. ASSUME NEW c \in Change, FindForChange(c) PROVE IInv'
  <2>1. /\ UNCHANGED <<original, mailed, users>>
        /\ \A r \in Reset : pc'[r] = pc[r] /\ call'[r] = call[r] /\ status'[r] = status[r]
    BY <1>11 DEF FindForChange, Check, Goto, Answer
  <2> QED BY <1>4, <2>1
<1>12. ASSUME NEW c \in Change, StoreChange(c) PROVE IInv'
  <2>1. /\ UNCHANGED <<original, mailed>>
        /\ \A r \in Reset : pc'[r] = pc[r] /\ call'[r] = call[r] /\ status'[r] = status[r]
    BY <1>12 DEF StoreChange, Answer
  <2>2. call[c].user \in DOMAIN users /\ call[c].user \notin Visit
    BY <1>12 DEF StoreChange
  <2>3. ASSUME NEW u \in DOMAIN users'
        PROVE  /\ u \in DOMAIN users /\ users'[u].email = users[u].email
               /\ users'[u].password = users[u].password \/ users'[u].password = c
    BY <1>12, <2>2, <2>3, SetSafe DEF StoreChange, Password
  <2> HIDE DEF IInv, SafeInv, TypeOK, Progress, Req
  <2> QED BY <1>0, <2>1, <2>3, OthersKeep
<1>13. ASSUME NEW r \in Req \ Reset, Die(r) PROVE IInv'
  <2>1. /\ UNCHANGED <<original, mailed, users>>
        /\ \A x \in Reset : pc'[x] = pc[x] /\ call'[x] = call[x] /\ status'[x] = status[x]
    BY <1>13 DEF Die, Answer
  <2> QED BY <1>4, <2>1
<1>14. CASE UNCHANGED vars
  BY <1>4, <1>14 DEF vars
<1> HIDE DEF IInv, SafeInv, TypeOK, Progress, Req
<1> QED
  BY <1>1, <1>2, <1>3, <1>5, <1>6, <1>7, <1>8, <1>9, <1>10, <1>11, <1>12, <1>13, <1>14 DEF Next

\* The invariant, for all sign-ups, visits, resets and changes.
THEOREM Invariance == Spec => []IInv
BY InitSound, IStep, PTL DEF Spec

\* The variables keep their types.
THEOREM TypeCorrect == Spec => []TypeOK
BY Invariance, PTL DEF IInv, SafeInv

\* Emails and nicknames are unique, however sign-ups overlap (auth.service.ts:23).
THEOREM IdentityUnique == Spec => []UniqueIdentity
BY Invariance, PTL DEF IInv, SafeInv

\* A visitor never gets a password (auth-passwords.service.ts:71).
THEOREM VisitorsCorrect == Spec => []VisitorsStayPasswordless
BY Invariance, PTL DEF IInv, SafeInv, PasswordsFit

\* Whoever requests one reset at a time was told the password, unless a reset
\* runs or died between storing and mailing it (auth-passwords.service.ts:33-58).
THEOREM PasswordKnown == Spec => []KnownPassword
BY Invariance, PTL DEF IInv
=============================================================================
