----------------------------- MODULE Registration -----------------------------
(***************************************************************************)
(* The life of an account: RegisterEmail, VerifyResend, RegisterVerify,    *)
(* SaveProfileInfo, SavePassword and Login of internal/auth/service over   *)
(* the tables "users" and "codes", with the goroutines that send mail.     *)
(*                                                                         *)
(* Every handler reads, decides and only then writes, each in a statement  *)
(* (or a transaction) of its own, and "users" has no unique index on email *)
(* or username: what was checked may no longer hold when it is used.       *)
(* Sessions are module Sessions; here it matters only who was given one.   *)
(***************************************************************************)
CONSTANTS Requests, OldUsers, Emails, Names, None

(* Request r's new user and code; the code an old user was last sent. *)
NewUser(r) == <<"user", r>>
NewCode(r) == <<"code", r>>
OldCode(u) == <<"code", u>>
Users == OldUsers \cup {NewUser(r) : r \in Requests}
Codes == {NewCode(r) : r \in Requests} \cup {OldCode(u) : u \in OldUsers}

(* The tables' rows.  retry_date is one minute and expiry_date five minutes  *)
(* after a code is stored: it is recent, then live, then expired.          *)
Ages == {"recent", "live", "expired"}
Row == [email: Emails, verified: BOOLEAN, name: Names \cup {None}, password: BOOLEAN]
CodeRow == [code: Codes, age: Ages]

ASSUME NoneAssumption == /\ None \notin Users \cup Codes \cup Emails \cup Names
                         /\ None \notin Row /\ None \notin CodeRow
ASSUME FreshAssumption == \A r \in Requests : r \notin OldUsers /\ NewUser(r) \notin OldUsers

VARIABLES
  users,    \* table users: a row, or None
  codes,    \* table codes: a user's verification code and its age, or None
  issued,   \* history: the users a session was ever created for
  inbox,    \* the <<email, code>> mails that arrived
  pc,       \* where each request is
  req,      \* its operation and arguments, and what its reads told it
  stored,   \* history: every <<user, code>> ever committed to codes
  seen      \* history: the requests that had written when each first looked

vars == <<users, codes, issued, inbox, pc, req, stored, seen>>

Ops == {"none", "register", "resend", "verify", "profile", "password", "login"}
NoCall == [op |-> "none", user |-> None, email |-> None, name |-> None, code |-> None,
           verified |-> FALSE]

Exists(u) == users[u] # None
InTable == {u \in Users : Exists(u)}
WithEmail(e) == {u \in InTable : users[u].email = e}

(* An account on its way: just registered, verified, named or complete. *)
NewRow(e) == [email |-> e, verified |-> FALSE, name |-> None, password |-> FALSE]
OldRows == [email: Emails, verified: {TRUE}, name: Names \cup {None}, password: BOOLEAN]
             \cup {NewRow(e) : e \in Emails}

Init ==
  /\ users \in [Users -> OldRows \cup {None}]
  /\ \A r \in Requests : users[NewUser(r)] = None
  /\ \A u, v \in InTable : u # v => /\ users[u].email # users[v].email
                                    /\ users[u].name # None => users[u].name # users[v].name
  /\ codes \in [Users -> CodeRow \cup {None}]
  /\ \A u \in Users : IF Exists(u) THEN codes[u] # None /\ codes[u].code = OldCode(u)
                                   ELSE codes[u] = None
  /\ issued = {u \in InTable : users[u].verified}
  /\ inbox = {<<users[u].email, codes[u].code>> : u \in InTable}
  /\ pc = [r \in Requests |-> "idle"]
  /\ req = [r \in Requests |-> NoCall]
  /\ stored = {<<u, codes[u].code>> : u \in InTable}
  /\ seen = [r \in Requests |-> {}]

-------------------------------------------------------------------------------
tables == <<users, codes, issued, inbox, stored>>

Goto(r, l) == pc' = [pc EXCEPT ![r] = l]

(* A write took effect: what follows it (a SELECT, the answer of COMMIT) may *)
(* still fail, and the client is told so ("lost").                         *)
Reply(r) == Goto(r, "done") \/ Goto(r, "lost")
Wrote(r) == pc[r] \in {"mail", "done", "lost"}

(* The first read of a handler: refuse, or go on with what was read. *)
Refuse(r) == Goto(r, "refused") /\ UNCHANGED <<tables, req, seen>>

Accept(r, op, u, e, n, c, l) ==
  /\ req' = [req EXCEPT ![r] = [op |-> op, user |-> u, email |-> e, name |-> n, code |-> c,
                                verified |-> u # None /\ users[u].verified]]
  /\ seen' = [seen EXCEPT ![r] = {q \in Requests : Wrote(q)}]
  /\ Goto(r, l)
  /\ UNCHANGED tables

(* Operators named Bug... are mistakes the properties have to notice. *)
BugVerifiedOnly(e) == {u \in WithEmail(e) : users[u].verified}

(* GetByEmail returns one of the rows with the email. *)
GetByEmail(e) == WithEmail(e)

(* RegisterEmail *)
RegisterLookup(r, e) ==
  /\ pc[r] = "idle"
  /\ \/ GetByEmail(e) # {} /\ Refuse(r)
     \/ GetByEmail(e) = {} /\ Accept(r, "register", None, e, None, None, "write")

(* The transaction inserts the user and her code.  CheckRecentlyCodeExists  *)
(* inside it looks for codes of a user nobody else can see yet: none.      *)
Register(r) ==
  /\ pc[r] = "write" /\ req[r].op = "register"
  /\ users' = [users EXCEPT ![NewUser(r)] = NewRow(req[r].email)]
  /\ codes' = [codes EXCEPT ![NewUser(r)] = [code |-> NewCode(r), age |-> "recent"]]
  /\ stored' = stored \cup {<<NewUser(r), NewCode(r)>>}
  /\ Goto(r, "mail")
  /\ UNCHANGED <<issued, inbox, req, seen>>

(* VerifyResend *)
ResendLookup(r, e) ==
  /\ pc[r] = "idle"
  /\ \/ (GetByEmail(e) = {} \/ \E u \in GetByEmail(e) : users[u].password) /\ Refuse(r)
     \/ \E u \in GetByEmail(e) :
          ~users[u].password /\ Accept(r, "resend", u, e, None, None, "check")

(* CheckRecentlyCodeExists *)
ResendCheck(r) ==
  /\ pc[r] = "check" /\ req[r].op = "resend"
  /\ Goto(r, IF codes[req[r].user].age = "recent" THEN "refused" ELSE "write")
  /\ UNCHANGED <<tables, req, seen>>

Resend(r) ==
  /\ pc[r] = "write" /\ req[r].op = "resend"
  /\ codes' = [codes EXCEPT ![req[r].user] = [code |-> NewCode(r), age |-> "recent"]]
  /\ stored' = stored \cup {<<req[r].user, NewCode(r)>>}
  /\ Goto(r, "mail")
  /\ UNCHANGED <<users, issued, inbox, req, seen>>

(* The goroutine started after the answer: the mail arrives, or it does not *)
(* (SMTP error, the server stops, or the commit was reported as failed).   *)
SendMail(r) ==
  /\ pc[r] = "mail"
  /\ \/ inbox' = inbox \cup {<<req[r].email, NewCode(r)>>}
     \/ inbox' = inbox
  /\ Goto(r, "done")
  /\ UNCHANGED <<users, codes, issued, req, stored, seen>>

(* RegisterVerify with a code from the mailbox or a wrong one (None). *)
VerifyLookup(r, e, c) ==
  /\ pc[r] = "idle"
  /\ c = None \/ <<e, c>> \in inbox
  /\ \/ (GetByEmail(e) = {} \/ \E u \in GetByEmail(e) : users[u].password) /\ Refuse(r)
     \/ \E u \in GetByEmail(e) :
          ~users[u].password /\ Accept(r, "verify", u, e, None, c, "check")

(* The SELECT lost its user_id: anybody's live code will do. *)
BugAnyonesCode(r) ==
  /\ pc[r] = "check" /\ req[r].op = "verify"
  /\ Goto(r, IF \E u \in InTable : codes[u].code = req[r].code /\ codes[u].age # "expired"
             THEN "write" ELSE "refused")
  /\ UNCHANGED <<tables, req, seen>>

(* CheckNotExpiryCodeExists; the code is not used up. *)
VerifyCheck(r) ==
  /\ pc[r] = "check" /\ req[r].op = "verify"
  /\ LET row == codes[req[r].user] IN
       Goto(r, IF row.code = req[r].code /\ row.age # "expired" THEN "write" ELSE "refused")
  /\ UNCHANGED <<tables, req, seen>>

(* generateTokens commits without the UPDATE of the user. *)
BugVerifyForgotten(r) ==
  /\ pc[r] = "write" /\ req[r].op = "verify"
  /\ issued' = issued \cup {req[r].user}
  /\ Reply(r)
  /\ UNCHANGED <<users, codes, inbox, req, stored, seen>>

(* One transaction verifies the user, unless the first read found her       *)
(* verified, and creates the session.                                      *)
Verify(r) ==
  /\ pc[r] = "write" /\ req[r].op = "verify"
  /\ users' = IF req[r].verified THEN users
              ELSE [users EXCEPT ![req[r].user] = [@ EXCEPT !.verified = TRUE]]
  /\ issued' = issued \cup {req[r].user}
  /\ Reply(r)
  /\ UNCHANGED <<codes, inbox, req, stored, seen>>

(* SaveProfileInfo and SavePassword, of a user with an access token. *)
ProfileLookup(r, u, n) ==
  /\ pc[r] = "idle" /\ u \in issued
  /\ \/ users[u].name # None /\ Refuse(r)
     \/ users[u].name = None /\ Accept(r, "profile", u, None, n, None, "check")

(* CheckUsernameIsAvailable *)
ProfileCheck(r) ==
  /\ pc[r] = "check" /\ req[r].op = "profile"
  /\ Goto(r, IF \E u \in InTable : users[u].name = req[r].name THEN "refused" ELSE "write")
  /\ UNCHANGED <<tables, req, seen>>

(* The arguments of the UPDATE in another order. *)
BugArgumentOrder(r) ==
  /\ pc[r] = "write" /\ req[r].op = "profile"
  /\ users' = [users EXCEPT ![req[r].user] = [@ EXCEPT !.name = users[req[r].user].email]]
  /\ Reply(r)
  /\ UNCHANGED <<codes, issued, inbox, req, stored, seen>>

(* The UPDATE writes the whole user as it was read. *)
BugStaleRow(r) ==
  /\ pc[r] = "write" /\ req[r].op = "profile"
  /\ users' = [users EXCEPT ![req[r].user] = [@ EXCEPT !.name = req[r].name, !.password = FALSE]]
  /\ Reply(r)
  /\ UNCHANGED <<codes, issued, inbox, req, stored, seen>>

SaveProfileInfo(r) ==
  /\ pc[r] = "write" /\ req[r].op = "profile"
  /\ users' = [users EXCEPT ![req[r].user] = [@ EXCEPT !.name = req[r].name]]
  /\ Reply(r)
  /\ UNCHANGED <<codes, issued, inbox, req, stored, seen>>

PasswordLookup(r, u) ==
  /\ pc[r] = "idle" /\ u \in issued
  /\ \/ users[u].password /\ Refuse(r)
     \/ ~users[u].password /\ Accept(r, "password", u, None, None, None, "write")

SavePassword(r) ==
  /\ pc[r] = "write" /\ req[r].op = "password"
  /\ users' = [users EXCEPT ![req[r].user] = [@ EXCEPT !.password = TRUE]]
  /\ Reply(r)
  /\ UNCHANGED <<codes, issued, inbox, req, stored, seen>>

(* Login: the row must be verified and have a password, which must match. *)
LoginLookup(r, e) ==
  /\ pc[r] = "idle"
  /\ \/ Refuse(r)
     \/ \E u \in GetByEmail(e) :
          /\ users[u].verified /\ users[u].password
          /\ Accept(r, "login", u, e, None, None, "write")

Login(r) ==
  /\ pc[r] = "write" /\ req[r].op = "login"
  /\ issued' = issued \cup {req[r].user}
  /\ Reply(r)
  /\ UNCHANGED <<users, codes, inbox, req, stored, seen>>

(* The mail is sent although the transaction failed. *)
BugMailAnyway(r) ==
  /\ pc[r] \in {"check", "write"}
  /\ Goto(r, IF req[r].op \in {"register", "resend"} THEN "mail" ELSE "failed")
  /\ UNCHANGED <<tables, req, seen>>

(* A statement fails, the client goes away, the server stops: rolled back. *)
Fail(r) ==
  /\ pc[r] \in {"check", "write"}
  /\ Goto(r, "failed")
  /\ UNCHANGED <<tables, req, seen>>

(* Time passes for the code of user u. *)
Age(u) ==
  /\ codes[u] # None /\ codes[u].age # "expired"
  /\ codes' = [codes EXCEPT ![u].age = IF @ = "recent" THEN "live" ELSE "expired"]
  /\ UNCHANGED <<users, issued, inbox, pc, req, stored, seen>>

Lookup(r) ==
  \/ \E e \in Emails : RegisterLookup(r, e) \/ ResendLookup(r, e) \/ LoginLookup(r, e)
  \/ \E e \in Emails, c \in Codes \cup {None} : VerifyLookup(r, e, c)
  \/ \E u \in Users : PasswordLookup(r, u) \/ \E n \in Names : ProfileLookup(r, u, n)

Next == \/ \E r \in Requests :
             \/ Lookup(r)
             \/ ResendCheck(r) \/ VerifyCheck(r) \/ ProfileCheck(r)
             \/ Register(r) \/ Resend(r) \/ Verify(r)
             \/ SaveProfileInfo(r) \/ SavePassword(r) \/ Login(r)
             \/ SendMail(r) \/ Fail(r)
        \/ \E u \in Users : Age(u)

Spec == Init /\ [][Next]_vars

-------------------------------------------------------------------------------
TypeOK ==
  /\ users \in [Users -> Row \cup {None}]
  /\ codes \in [Users -> CodeRow \cup {None}]
  /\ issued \subseteq Users
  /\ inbox \subseteq Emails \X Codes
  /\ pc \in [Requests -> {"idle", "check", "write", "mail", "done", "lost", "refused", "failed"}]
  /\ req \in [Requests -> [op: Ops, user: Users \cup {None}, email: Emails \cup {None},
                           name: Names \cup {None}, code: Codes \cup {None}, verified: BOOLEAN]]
  /\ stored \subseteq Users \X Codes
  /\ seen \in [Requests -> SUBSET Requests]

(* Only a verified user gets a session, a username or a password, whatever   *)
(* the handlers had read when they wrote: RegisterVerify skips the UPDATE    *)
(* when its first read found the user verified, Login checks and then writes *)
(* without a transaction.                                                    *)
SessionVerified ==
  \A u \in InTable :
    (u \in issued \/ users[u].name # None \/ users[u].password) => users[u].verified

(* A verified user proved her own address: a code stored for her arrived at  *)
(* it.  GetByEmail may pick either of two users who share an address, and    *)
(* VerifyResend replaces codes while RegisterVerify is checking one.         *)
ProvenAddress ==
  \A u \in InTable : users[u].verified =>
    \E c \in Codes : <<u, c>> \in stored /\ <<users[u].email, c>> \in inbox

(* A mail that arrived, or is about to be sent, carries a code the database  *)
(* accepted for a user with that address: RegisterEmail and VerifyResend     *)
(* start the goroutine only after the commit.                                *)
NoPhantomMail ==
  /\ \A m \in inbox : \E u \in WithEmail(m[1]) : <<u, m[2]>> \in stored
  /\ \A r \in Requests : pc[r] = "mail" =>
       \E u \in WithEmail(req[r].email) : <<u, NewCode(r)>> \in stored

(* Requests that rule each other out (two registrations of an address, two   *)
(* usernames or passwords of a user, a password and a resend or a code) both *)
(* take effect only when they overlap: neither had written when the other    *)
(* first looked.  Each looks and writes in statements of its own, and the    *)
(* answer of a write may be lost.  An old user's address is never taken.     *)
Rivals(q, r) ==
  \/ /\ req[q].op = "register" /\ req[r].op = "register"
     /\ req[q].email = req[r].email
  \/ /\ \/ req[q].op = "profile" /\ req[r].op = "profile"
        \/ req[q].op = "password" /\ req[r].op \in {"password", "resend", "verify"}
     /\ req[q].user = req[r].user

OverlapOnly ==
  \A r \in Requests : Wrote(r) =>
    /\ \A q \in Requests : (q # r /\ Wrote(q) /\ Rivals(q, r)) => q \notin seen[r]
    /\ req[r].op = "register" =>
         \A u \in OldUsers \cap InTable : users[u].email # req[r].email

(* No handler takes back what another one wrote: users stay, keep their      *)
(* address, and stay verified, named and with a password.                    *)
Progress(u) ==
  Exists(u) => /\ Exists(u)'
               /\ users'[u].email = users[u].email
               /\ users[u].verified => users'[u].verified
               /\ users[u].password => users'[u].password
               /\ users[u].name # None => users'[u].name # None
NothingUndone == [][\A u \in Users : Progress(u)]_vars

(* The requests together implement the accounts AccountStore promises: each  *)
(* write and each mail that arrives is one of its steps, a login is none (it *)
(* opens nobody's first session), and everything else changes nothing.      *)
Accounts == INSTANCE AccountStore WITH
              account <- users, given <- stored, arrived <- inbox, sessions <- issued
AccountSpec == Accounts!Spec

(* What tests/auth_test.go and the errors of auth/service/service.go promise *)
(* and a check before the write does not keep: an address has one user,      *)
UniqueEmail == \A u, v \in InTable : users[u].email = users[v].email => u = v

(* a username has one user,                                                  *)
UniqueUsername ==
  \A u, v \in InTable : (users[u].name # None /\ users[u].name = users[v].name) => u = v

(* and no second code is stored while the first may not yet be resent.       *)
OneCodePerWindow ==
  [][\A u \in Users : (codes[u] # None /\ codes[u].age = "recent")
                        => codes'[u].code = codes[u].code]_vars

(* The three are kept as long as no two requests that clash are both past    *)
(* their check and before their write.                                       *)
Clash(q, r) ==
  \/ req[q].op = "register" /\ req[r].op = "register" /\ req[q].email = req[r].email
  \/ /\ req[q].op = "profile" /\ req[r].op = "profile"
     /\ req[q].name = req[r].name /\ req[q].user # req[r].user
  \/ req[q].op = "resend" /\ req[r].op = "resend" /\ req[q].user = req[r].user

Apart ==
  \A q, r \in Requests : q # r /\ pc[q] = "write" /\ pc[r] = "write" => ~Clash(q, r)

-------------------------------------------------------------------------------
(* Why they hold.  The tables: every code row was stored, every user has one *)
(* and nobody else; who has a session has a row.                             *)
TableOK ==
  /\ \A u \in InTable : codes[u] # None /\ <<u, codes[u].code>> \in stored
  /\ \A u \in Users : codes[u] # None => u \in InTable
  /\ issued \subseteq InTable

(* A code is stored once, by the request that made it; who is verified had a *)
(* session.                                                                *)
CodesOnce ==
  /\ \A r \in Requests, u \in Users : <<u, NewCode(r)>> \in stored => Wrote(r)
  /\ \A u \in InTable : users[u].verified => u \in issued

(* What request r read about its user is still true when it writes: rows     *)
(* only grow.  (That nobody else has her username need not be: UniqueUsername *)
(* fails.)                                                                   *)
ReadOK(r) ==
  /\ req[r].op \in {"resend", "verify", "login"} =>
       req[r].user \in WithEmail(req[r].email)
  /\ req[r].op = "verify" =>
       /\ req[r].code = None \/ <<req[r].email, req[r].code>> \in inbox
       /\ req[r].verified => users[req[r].user].verified
       /\ pc[r] = "write" => req[r].code # None /\ <<req[r].user, req[r].code>> \in stored
  /\ req[r].op = "login" => users[req[r].user].verified
  /\ req[r].op \in {"profile", "password"} => req[r].user \in issued

(* What the guards of each operation left in its arguments.                *)
ArgsOK(r) ==
  /\ req[r].op \in {"register", "resend", "verify", "login"} => req[r].email \in Emails
  /\ req[r].op \in {"resend", "verify", "login", "profile", "password"} => req[r].user \in Users
  /\ req[r].op = "profile" => req[r].name \in Names

CallOK(r) ==
  /\ ArgsOK(r)
  /\ pc[r] \in {"check", "write"} => ReadOK(r)
  /\ Exists(NewUser(r)) => /\ pc[r] \in {"mail", "done"}
                           /\ req[r].op = "register"
                           /\ users[NewUser(r)].email = req[r].email
  /\ Wrote(r) => /\ req[r].op = "register" => Exists(NewUser(r))
                 /\ req[r].op \in {"profile", "password"} => Exists(req[r].user)
                 /\ req[r].op = "profile" => users[req[r].user].name # None
                 /\ req[r].op = "password" => users[req[r].user].password
  /\ \A q \in seen[r] : Wrote(q) /\ ~Rivals(q, r)
  /\ req[r].op = "register" =>
       \A u \in OldUsers : Exists(u) => users[u].email # req[r].email

(* The invariant: inductive together with TypeOK.                            *)
Inv ==
  /\ SessionVerified /\ ProvenAddress /\ NoPhantomMail
  /\ TableOK
  /\ \A r \in Requests : CallOK(r)
===============================================================================
