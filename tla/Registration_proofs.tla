-------------------------- MODULE Registration_proofs --------------------------
(***************************************************************************)
(* Theorems about module Registration, for any requests, users, addresses  *)
(* and usernames.  The argument: rows and the history only grow (Grows),   *)
(* so what a request read stays true until it writes.                      *)
(***************************************************************************)
EXTENDS Registration, TLAPS

(* What a step does to the tables as every other request sees it.          *)
Grows ==
  /\ \A u \in Users : Progress(u)
  /\ issued \subseteq issued' /\ inbox \subseteq inbox' /\ stored \subseteq stored'
  /\ \A r \in Requests : Wrote(r) => Wrote(r)' /\ req'[r] = req[r]
  /\ \A u \in OldUsers : Exists(u)' => Exists(u)

(* The types, proved one group of variables at a time. *)
RowTypes == users \in [Users -> Row \cup {None}]
CodeTypes == codes \in [Users -> CodeRow \cup {None}]
ReqTypes == req \in [Requests -> [op: Ops, user: Users \cup {None}, email: Emails \cup {None},
                                  name: Names \cup {None}, code: Codes \cup {None},
                                  verified: BOOLEAN]]

(* The names of the new users and codes are in their sets.                 *)
LEMMA NewNames ==
  /\ \A r \in Requests : NewUser(r) \in Users /\ NewCode(r) \in Codes
  /\ \A u \in OldUsers : u \in Users /\ OldCode(u) \in Codes
  /\ None \notin Users /\ None \notin Codes /\ None \notin Names /\ None \notin Emails
  /\ None \notin Row /\ None \notin CodeRow
BY NoneAssumption DEF Users, Codes

(* The types and the arguments hold at the start.                          *)
LEMMA TypeInit == Init => TypeOK /\ \A r \in Requests : ArgsOK(r)
<1> SUFFICES ASSUME Init PROVE TypeOK /\ \A r \in Requests : ArgsOK(r)
  OBVIOUS
<1>1. OldRows \subseteq Row
  <2>1. \A e \in Emails : NewRow(e) \in Row
    BY DEF Row, NewRow
  <2>2. [email: Emails, verified: {TRUE}, name: Names \cup {None}, password: BOOLEAN] \subseteq Row
    BY DEF Row
  <2> QED BY <2>1, <2>2 DEF OldRows
<1>2. RowTypes
  BY <1>1 DEF RowTypes, Init
<1>3. NoCall \in [op: Ops, user: Users \cup {None}, email: Emails \cup {None},
                  name: Names \cup {None}, code: Codes \cup {None}, verified: BOOLEAN]
  BY DEF NoCall, Ops
<1>4. \A u \in InTable : users[u].email \in Emails /\ codes[u].code \in Codes
  BY <1>2, NewNames DEF Init, InTable, Exists, RowTypes, Row, Ages, CodeRow
<1>5. ReqTypes /\ \A r \in Requests : ArgsOK(r)
  BY <1>3 DEF ReqTypes, ArgsOK, Init, NoCall
<1>6. pc \in [Requests -> {"idle", "check", "write", "mail", "done", "lost", "refused", "failed"}]
  BY DEF Init
<1>7. seen \in [Requests -> SUBSET Requests]
  BY DEF Init
<1>8. issued \subseteq Users /\ inbox \subseteq Emails \X Codes /\ stored \subseteq Users \X Codes
  BY <1>4 DEF Init, InTable
<1>9. CodeTypes
  BY DEF CodeTypes, Init
<1> QED BY <1>2, <1>5, <1>6, <1>7, <1>8, <1>9 DEF TypeOK, RowTypes, CodeTypes, ReqTypes

(* Every step keeps the types and what the operations read.                *)
LEMMA TypeStep ==
  ASSUME TypeOK, Inv, [Next]_vars
  PROVE  TypeOK' /\ \A r \in Requests : ArgsOK(r)'
<1> USE NewNames
<1> DEFINE Places == {"idle", "check", "write", "mail", "done", "lost", "refused", "failed"}
<1> DEFINE Calls == [op: Ops, user: Users \cup {None}, email: Emails \cup {None},
                     name: Names \cup {None}, code: Codes \cup {None}, verified: BOOLEAN]
<1>g. ASSUME NEW r \in Requests, NEW l \in Places, Goto(r, l)
      PROVE  pc' \in [Requests -> Places]
  BY <1>g DEF TypeOK, Goto
<1>r. ASSUME NEW r \in Requests, Reply(r)
      PROVE  pc' \in [Requests -> Places]
  BY <1>r, <1>g DEF Reply
<1>0. \A r \in Requests : ArgsOK(r)
  BY DEF Inv, CallOK
<1>q. ASSUME UNCHANGED req
      PROVE  req' \in [Requests -> Calls] /\ \A r \in Requests : ArgsOK(r)'
  BY <1>q, <1>0 DEF TypeOK, ArgsOK
<1>t. ASSUME UNCHANGED tables
      PROVE  /\ users' \in [Users -> Row \cup {None}] /\ issued' \subseteq Users
             /\ codes' \in [Users -> CodeRow \cup {None}]
             /\ inbox' \subseteq Emails \X Codes /\ stored' \subseteq Users \X Codes
  BY <1>t DEF TypeOK, tables
<1>s. ASSUME UNCHANGED seen
      PROVE  seen' \in [Requests -> SUBSET Requests]
  BY <1>s DEF TypeOK
<1>a. ASSUME NEW r \in Requests, NEW op \in Ops, NEW u \in Users \cup {None},
             NEW e \in Emails \cup {None}, NEW n \in Names \cup {None},
             NEW c \in Codes \cup {None}, NEW l \in Places, Accept(r, op, u, e, n, c, l),
             op \in {"register", "resend", "verify", "login"} => e \in Emails,
             op \in {"resend", "verify", "login", "profile", "password"} =>
               u \in Users /\ Exists(u),
             op = "profile" => n \in Names, u # None => Exists(u)
      PROVE  TypeOK' /\ \A q \in Requests : ArgsOK(q)'
  <2>1. (u # None /\ users[u].verified) \in BOOLEAN
    BY <1>a DEF TypeOK, Exists, Row
  <2>2. req' \in [Requests -> Calls]
    BY <1>a, <2>1 DEF TypeOK, Accept
  <2>3. \A q \in Requests : ArgsOK(q)'
    BY <1>a, <1>0, <2>2 DEF ArgsOK, Accept, TypeOK
  <2>4. seen' \in [Requests -> SUBSET Requests]
    BY <1>a DEF TypeOK, Accept
  <2> QED BY <1>a, <1>g, <1>t, <2>2, <2>3, <2>4 DEF TypeOK, Accept
<1>m. ASSUME NEW r \in Requests, NEW l \in Places, Goto(r, l),
             UNCHANGED <<tables, req, seen>>
      PROVE  TypeOK' /\ \A q \in Requests : ArgsOK(q)'
  BY <1>m, <1>g, <1>q, <1>t, <1>s DEF TypeOK
<1>u. ASSUME NEW r \in Requests, NEW row, row \in Row, NEW u \in Users,
             users' = [users EXCEPT ![u] = row], Reply(r) \/ Goto(r, "mail"),
             issued' \subseteq Users, inbox' = inbox, codes' = codes, req' = req,
             stored' = stored, seen' = seen
      PROVE  TypeOK' /\ \A q \in Requests : ArgsOK(q)'
  <2>1. users' \in [Users -> Row \cup {None}]
    BY <1>u DEF TypeOK
  <2> QED BY <1>u, <2>1, <1>g, <1>r, <1>q DEF TypeOK
<1>c. ASSUME NEW r \in Requests, NEW u \in Users, NEW users0, Goto(r, "mail"),
             codes' = [codes EXCEPT ![u] = [code |-> NewCode(r), age |-> "recent"]],
             stored' = stored \cup {<<u, NewCode(r)>>},
             users' \in [Users -> Row \cup {None}],
             UNCHANGED <<issued, inbox, req, seen>>
      PROVE  TypeOK' /\ \A q \in Requests : ArgsOK(q)'
  <2>1. [code |-> NewCode(r), age |-> "recent"] \in CodeRow
    BY DEF Ages, CodeRow
  <2>2. codes' \in [Users -> CodeRow \cup {None}]
    BY <1>c, <2>1 DEF TypeOK
  <2>3. stored' \subseteq Users \X Codes
    BY <1>c DEF TypeOK
  <2> QED BY <1>c, <2>2, <2>3, <1>g, <1>q DEF TypeOK
<1>x. \A u \in InTable : u \in Users /\ users[u] \in Row /\ users[u].password \in BOOLEAN
  BY DEF TypeOK, InTable, Exists, Row
<1> HIDE DEF Places, Calls
<1>1. ASSUME NEW r \in Requests, Lookup(r)
      PROVE  TypeOK' /\ \A q \in Requests : ArgsOK(q)'
  <2>r. ASSUME Refuse(r) PROVE TypeOK' /\ \A q \in Requests : ArgsOK(q)'
    BY <2>r, <1>m DEF Refuse, Places
  <2>1. ASSUME NEW e \in Emails, RegisterLookup(r, e)
        PROVE  TypeOK' /\ \A q \in Requests : ArgsOK(q)'
    <3>1. CASE Refuse(r)
      BY <3>1, <2>r
    <3>2. CASE Accept(r, "register", None, e, None, None, "write")
      <4>1. "register" \in Ops /\ "write" \in Places
        BY DEF Ops, Places
      <4> QED BY <3>2, <4>1, <1>a
    <3> QED BY <2>1, <3>1, <3>2 DEF RegisterLookup
  <2>2. ASSUME NEW e \in Emails, ResendLookup(r, e)
        PROVE  TypeOK' /\ \A q \in Requests : ArgsOK(q)'
    <3>1. CASE Refuse(r)
      BY <3>1, <2>r
    <3>2. ASSUME NEW u \in GetByEmail(e), Accept(r, "resend", u, e, None, None, "check")
          PROVE  TypeOK' /\ \A q \in Requests : ArgsOK(q)'
      <4>1. u \in Users /\ Exists(u)
        BY DEF GetByEmail, WithEmail, InTable
      <4>2. "resend" \in Ops /\ "check" \in Places
        BY DEF Ops, Places
      <4> QED BY <3>2, <4>1, <4>2, <1>a
    <3> QED BY <2>2, <3>1, <3>2 DEF ResendLookup
  <2>3. ASSUME NEW e \in Emails, LoginLookup(r, e)
        PROVE  TypeOK' /\ \A q \in Requests : ArgsOK(q)'
    <3>1. CASE Refuse(r)
      BY <3>1, <2>r
    <3>2. ASSUME NEW u \in GetByEmail(e), Accept(r, "login", u, e, None, None, "write")
          PROVE  TypeOK' /\ \A q \in Requests : ArgsOK(q)'
      <4>1. u \in Users /\ Exists(u)
        BY DEF GetByEmail, WithEmail, InTable
      <4>2. "login" \in Ops /\ "write" \in Places
        BY DEF Ops, Places
      <4> QED BY <3>2, <4>1, <4>2, <1>a
    <3> QED BY <2>3, <3>1, <3>2 DEF LoginLookup
  <2>4. ASSUME NEW e \in Emails, NEW c \in Codes \cup {None}, VerifyLookup(r, e, c)
        PROVE  TypeOK' /\ \A q \in Requests : ArgsOK(q)'
    <3>1. CASE Refuse(r)
      BY <3>1, <2>r
    <3>2. ASSUME NEW u \in GetByEmail(e), Accept(r, "verify", u, e, None, c, "check")
          PROVE  TypeOK' /\ \A q \in Requests : ArgsOK(q)'
      <4>1. u \in Users /\ Exists(u)
        BY DEF GetByEmail, WithEmail, InTable
      <4>2. "verify" \in Ops /\ "check" \in Places
        BY DEF Ops, Places
      <4> QED BY <3>2, <4>1, <4>2, <1>a
    <3> QED BY <2>4, <3>1, <3>2 DEF VerifyLookup
  <2>5. ASSUME NEW u \in Users, PasswordLookup(r, u)
        PROVE  TypeOK' /\ \A q \in Requests : ArgsOK(q)'
    <3>1. CASE Refuse(r)
      BY <3>1, <2>r
    <3>2. CASE Accept(r, "password", u, None, None, None, "write")
      <4>1. Exists(u)
        BY <2>5 DEF PasswordLookup, Inv, TableOK, InTable
      <4>2. "password" \in Ops /\ "write" \in Places
        BY DEF Ops, Places
      <4> QED BY <3>2, <4>1, <4>2, <1>a
    <3> QED BY <2>5, <3>1, <3>2 DEF PasswordLookup
  <2>6. ASSUME NEW u \in Users, NEW n \in Names, ProfileLookup(r, u, n)
        PROVE  TypeOK' /\ \A q \in Requests : ArgsOK(q)'
    <3>1. CASE Refuse(r)
      BY <3>1, <2>r
    <3>2. CASE Accept(r, "profile", u, None, n, None, "check")
      <4>1. Exists(u)
        BY <2>6 DEF ProfileLookup, Inv, TableOK, InTable
      <4>2. "profile" \in Ops /\ "check" \in Places
        BY DEF Ops, Places
      <4> QED BY <3>2, <4>1, <4>2, <1>a
    <3> QED BY <2>6, <3>1, <3>2 DEF ProfileLookup
  <2> QED BY <1>1, <2>1, <2>2, <2>3, <2>4, <2>5, <2>6 DEF Lookup
<1>2. ASSUME NEW r \in Requests,
             ResendCheck(r) \/ VerifyCheck(r) \/ ProfileCheck(r) \/ Fail(r)
      PROVE  TypeOK' /\ \A q \in Requests : ArgsOK(q)'
  <2>1. PICK l \in Places : Goto(r, l) /\ UNCHANGED <<tables, req, seen>>
    BY <1>2 DEF ResendCheck, VerifyCheck, ProfileCheck, Fail, Places
  <2> QED BY <2>1, <1>m
<1>3. ASSUME NEW r \in Requests, Register(r)
      PROVE  TypeOK' /\ \A q \in Requests : ArgsOK(q)'
  <2>1. NewRow(req[r].email) \in Row
    BY <1>3, <1>0 DEF Register, ArgsOK, NewRow, Row
  <2>2. users' \in [Users -> Row \cup {None}]
    BY <2>1, <1>3 DEF Register, TypeOK
  <2> QED BY <1>3, <2>2, <1>c DEF Register
<1>4. ASSUME NEW r \in Requests, Resend(r)
      PROVE  TypeOK' /\ \A q \in Requests : ArgsOK(q)'
  <2>1. req[r].user \in Users
    BY <1>4, <1>0 DEF Resend, ArgsOK
  <2> QED BY <1>4, <2>1, <1>c DEF Resend, TypeOK
<1>w. ASSUME NEW r \in Requests, pc[r] = "write", req[r].op \in {"verify", "profile", "password"}
      PROVE  req[r].user \in Users /\ users[req[r].user] \in Row
  BY <1>w, <1>x DEF Inv, CallOK, ReadOK, WithEmail, TableOK, InTable
<1>5. ASSUME NEW r \in Requests, Verify(r)
      PROVE  TypeOK' /\ \A q \in Requests : ArgsOK(q)'
  <2>1. req[r].user \in Users /\ users[req[r].user] \in Row
    BY <1>5, <1>w DEF Verify
  <2>2. issued' \subseteq Users
    BY <1>5, <2>1 DEF Verify, TypeOK
  <2>3. [users[req[r].user] EXCEPT !.verified = TRUE] \in Row
    BY <2>1 DEF Row
  <2>4. users' \in [Users -> Row \cup {None}]
    BY <1>5, <2>1, <2>3 DEF Verify, TypeOK
  <2> QED BY <1>5, <2>2, <2>4, <1>r, <1>q DEF Verify, TypeOK, Places, Calls
<1>6. ASSUME NEW r \in Requests, SaveProfileInfo(r)
      PROVE  TypeOK' /\ \A q \in Requests : ArgsOK(q)'
  <2>1. req[r].user \in Users /\ users[req[r].user] \in Row /\ req[r].name \in Names
    BY <1>6, <1>w, <1>0 DEF SaveProfileInfo, ArgsOK
  <2>2. [users[req[r].user] EXCEPT !.name = req[r].name] \in Row
    BY <2>1 DEF Row
  <2> QED BY <1>6, <2>1, <2>2, <1>u DEF SaveProfileInfo, TypeOK
<1>7. ASSUME NEW r \in Requests, SavePassword(r)
      PROVE  TypeOK' /\ \A q \in Requests : ArgsOK(q)'
  <2>1. req[r].user \in Users /\ users[req[r].user] \in Row
    BY <1>7, <1>w DEF SavePassword
  <2>2. [users[req[r].user] EXCEPT !.password = TRUE] \in Row
    BY <2>1 DEF Row
  <2> QED BY <1>7, <2>1, <2>2, <1>u DEF SavePassword, TypeOK
<1>8. ASSUME NEW r \in Requests, Login(r)
      PROVE  TypeOK' /\ \A q \in Requests : ArgsOK(q)'
  <2>1. issued' \subseteq Users
    BY <1>8, <1>0 DEF Login, TypeOK, ArgsOK
  <2> QED BY <1>8, <2>1, <1>r, <1>q DEF Login, TypeOK, Places, Calls
<1>9. ASSUME NEW r \in Requests, SendMail(r)
      PROVE  TypeOK' /\ \A q \in Requests : ArgsOK(q)'
  <2>1. req[r].email \in Emails
    BY <1>9, <1>x DEF SendMail, Inv, NoPhantomMail, WithEmail, Row
  <2>2. inbox' \subseteq Emails \X Codes
    BY <1>9, <2>1 DEF SendMail, TypeOK
  <2> QED BY <1>9, <2>2, <1>g, <1>q DEF SendMail, TypeOK, Places
<1>10. ASSUME NEW u \in Users, Age(u)
       PROVE  TypeOK' /\ \A q \in Requests : ArgsOK(q)'
  <2>1. codes' \in [Users -> CodeRow \cup {None}]
    BY <1>10 DEF Age, TypeOK, Ages, CodeRow
  <2> QED BY <1>10, <2>1, <1>q DEF Age, TypeOK
<1>11. CASE UNCHANGED vars
  BY <1>11, <1>q DEF vars, TypeOK
<1> QED
  BY <1>1, <1>2, <1>3, <1>4, <1>5, <1>6, <1>7, <1>8, <1>9, <1>10, <1>11 DEF Next

-------------------------------------------------------------------------------
(* The invariant holds at the start.                                       *)
LEMMA InvInit == Init => Inv
<1> SUFFICES ASSUME Init PROVE Inv
  OBVIOUS
<1>0. TypeOK /\ \A r \in Requests : ArgsOK(r)
  BY TypeInit
<1>1. \A u \in InTable : /\ users[u].verified \/ (users[u].name = None /\ ~users[u].password)
                         /\ codes[u] # None /\ codes[u].code \in Codes
  <2>1. \A row \in OldRows : row.verified \/ (row.name = None /\ ~row.password)
    <3>1. \A e \in Emails : NewRow(e).name = None /\ ~NewRow(e).password
      BY DEF NewRow
    <3>2. \A row \in [email: Emails, verified: {TRUE}, name: Names \cup {None}, password: BOOLEAN] :
            row.verified
      OBVIOUS
    <3> QED BY <3>1, <3>2 DEF OldRows
  <2>2. \A u \in InTable : users[u] \in OldRows /\ codes[u] # None /\ codes[u] \in CodeRow
    BY DEF Init, InTable, Exists
  <2> QED BY <2>1, <2>2 DEF CodeRow
<1>2. SessionVerified
  BY <1>1 DEF SessionVerified, Init
<1>3. ProvenAddress
  BY <1>1 DEF ProvenAddress, Init
<1>4. NoPhantomMail
  <2>1. \A m \in inbox : \E u \in WithEmail(m[1]) : <<u, m[2]>> \in stored
    BY DEF Init, WithEmail
  <2> QED BY <2>1 DEF NoPhantomMail, Init
<1>5. TableOK
  BY <1>1 DEF TableOK, Init, InTable
<1>6. \A r \in Requests : CallOK(r)
  BY <1>0, NewNames DEF CallOK, Init, NoCall, Exists, Wrote
<1> QED BY <1>2, <1>3, <1>4, <1>5, <1>6 DEF Inv

(* A request at its write reads of a row that exists.                      *)
LEMMA UserInTable ==
  ASSUME TypeOK, Inv, NEW r \in Requests, pc[r] \in {"check", "write"},
         req[r].op \in {"resend", "verify", "login", "profile", "password"}
  PROVE  /\ req[r].user \in InTable /\ ReadOK(r) /\ users[req[r].user] \in Row
         /\ req[r].op \in {"profile", "password"} => users[req[r].user].verified
<1>1. ReadOK(r)
  BY DEF Inv, CallOK
<1>2. req[r].user \in InTable
  BY <1>1 DEF ReadOK, WithEmail, Inv, TableOK
<1> QED BY <1>1, <1>2 DEF ReadOK, Inv, SessionVerified, InTable, Exists, TypeOK

(* A look or a check writes nothing and is nobody else's business.          *)
LEMMA ReadsOnly ==
  ASSUME TypeOK, NEW r \in Requests,
         Lookup(r) \/ ResendCheck(r) \/ VerifyCheck(r) \/ ProfileCheck(r) \/ Fail(r)
  PROVE  UNCHANGED tables /\ \A q \in Requests \ {r} : pc'[q] = pc[q] /\ req'[q] = req[q]
<1>1. ASSUME NEW l, Goto(r, l) PROVE \A q \in Requests \ {r} : pc'[q] = pc[q]
  BY <1>1 DEF Goto, TypeOK
<1>2. Refuse(r) => UNCHANGED <<tables, req>> /\ \A q \in Requests \ {r} : pc'[q] = pc[q]
  BY <1>1 DEF Refuse
<1>3. \A op, u, e, n, c, l : Accept(r, op, u, e, n, c, l) =>
        UNCHANGED tables /\ \A q \in Requests \ {r} : pc'[q] = pc[q] /\ req'[q] = req[q]
  BY <1>1 DEF Accept, TypeOK
<1>4. CASE ResendCheck(r) \/ VerifyCheck(r) \/ ProfileCheck(r) \/ Fail(r)
  BY <1>1, <1>4 DEF ResendCheck, VerifyCheck, ProfileCheck, Fail
<1>5. CASE Lookup(r)
  <2>1. Refuse(r) \/ \E op, u, e, n, c, l : Accept(r, op, u, e, n, c, l)
    BY <1>5 DEF Lookup, RegisterLookup, ResendLookup, LoginLookup, VerifyLookup,
       PasswordLookup, ProfileLookup
  <2> QED BY <1>2, <1>3, <2>1
<1> QED BY <1>4, <1>5

(* No step takes anything away.                                            *)
LEMMA StepGrows ==
  ASSUME TypeOK, Inv, [Next]_vars
  PROVE  Grows
<1>0. \A u \in Users : users[u] \in Row \cup {None}
  BY DEF TypeOK
<1>w. ASSUME NEW r \in Requests, NEW l, Goto(r, l), ~Wrote(r) \/ l = "done", UNCHANGED req
      PROVE  \A q \in Requests : Wrote(q) => Wrote(q)' /\ req'[q] = req[q]
  BY <1>w DEF Goto, Wrote, TypeOK
<1>l. ASSUME NEW r \in Requests, pc[r] = "write", Reply(r), UNCHANGED req
      PROVE  \A q \in Requests : Wrote(q) => Wrote(q)' /\ req'[q] = req[q]
  BY <1>w, <1>l DEF Reply, Wrote
<1>o. ASSUME NEW u \in InTable, \A v \in Users : v # u => users'[v] = users[v]
      PROVE  \A v \in OldUsers : Exists(v)' => Exists(v)
  BY <1>o, NewNames DEF InTable, Exists
<1>1. CASE /\ UNCHANGED <<users, issued, inbox, stored>>
           /\ \A q \in Requests : Wrote(q) => Wrote(q)' /\ req'[q] = req[q]
  BY <1>1 DEF Grows, Progress, Exists
<1>2. ASSUME NEW r \in Requests, Register(r) PROVE Grows
  <2>1. ~Exists(NewUser(r))
    BY <1>2 DEF Register, Inv, CallOK
  <2>2. \A q \in Requests : Wrote(q) => Wrote(q)' /\ req'[q] = req[q]
    BY <1>2, <1>w DEF Register, Wrote
  <2>3. \A u \in OldUsers : u # NewUser(r)
    BY FreshAssumption
  <2>4. \A u \in Users : u # NewUser(r) => users'[u] = users[u]
    BY <1>2 DEF Register, TypeOK
  <2>5. \A u \in Users : Progress(u)
    BY <2>1, <2>4 DEF Progress, Exists
  <2> QED BY <1>2, <2>2, <2>3, <2>4, <2>5, NewNames DEF Register, Grows, Exists
<1>3. ASSUME NEW r \in Requests, Verify(r) PROVE Grows
  <2>1. req[r].user \in InTable /\ users[req[r].user] \in Row
    BY <1>3, UserInTable DEF Verify
  <2>2. \A u \in Users : Progress(u)
    <3>1. \A u \in Users : u # req[r].user => users'[u] = users[u]
      BY <1>3, <2>1 DEF Verify, TypeOK
    <3>2. Progress(req[r].user) /\ req[r].user \in Users
      BY <1>3, <2>1, <1>0, NewNames
         DEF Verify, Progress, Exists, TypeOK, Row, InTable
    <3>3. \A u \in Users : users'[u] = users[u] => Progress(u)
      BY DEF Progress, Exists
    <3> QED BY <3>1, <3>2, <3>3
  <2>3. \A q \in Requests : Wrote(q) => Wrote(q)' /\ req'[q] = req[q]
    BY <1>3, <1>l DEF Verify
  <2>4. \A u \in Users : u # req[r].user => users'[u] = users[u]
    BY <1>3, <2>1 DEF Verify, TypeOK
  <2>5. \A u \in OldUsers : Exists(u)' => Exists(u)
    BY <2>1, <2>4, <1>o
  <2> QED BY <1>3, <2>2, <2>3, <2>5 DEF Verify, Grows
<1>4. ASSUME NEW r \in Requests, SaveProfileInfo(r) PROVE Grows
  <2>1. req[r].user \in InTable /\ users[req[r].user] \in Row /\ req[r].name # None
    BY <1>4, UserInTable, NewNames DEF SaveProfileInfo, Inv, CallOK, ArgsOK
  <2>2. \A u \in Users : Progress(u)
    <3>1. \A u \in Users : u # req[r].user => users'[u] = users[u]
      BY <1>4, <2>1 DEF SaveProfileInfo, TypeOK
    <3>2. Progress(req[r].user) /\ req[r].user \in Users
      BY <1>4, <2>1, <1>0, NewNames
         DEF SaveProfileInfo, Progress, Exists, TypeOK, Row, InTable
    <3>3. \A u \in Users : users'[u] = users[u] => Progress(u)
      BY DEF Progress, Exists
    <3> QED BY <3>1, <3>2, <3>3
  <2>3. \A q \in Requests : Wrote(q) => Wrote(q)' /\ req'[q] = req[q]
    BY <1>4, <1>l DEF SaveProfileInfo
  <2>4. \A u \in Users : u # req[r].user => users'[u] = users[u]
    BY <1>4, <2>1 DEF SaveProfileInfo, TypeOK
  <2>5. \A u \in OldUsers : Exists(u)' => Exists(u)
    BY <2>1, <2>4, <1>o
  <2> QED BY <1>4, <2>2, <2>3, <2>5 DEF SaveProfileInfo, Grows
<1>5. ASSUME NEW r \in Requests, SavePassword(r) PROVE Grows
  <2>1. req[r].user \in InTable /\ users[req[r].user] \in Row
    BY <1>5, UserInTable DEF SavePassword
  <2>2. \A u \in Users : Progress(u)
    <3>1. \A u \in Users : u # req[r].user => users'[u] = users[u]
      BY <1>5, <2>1 DEF SavePassword, TypeOK
    <3>2. Progress(req[r].user) /\ req[r].user \in Users
      BY <1>5, <2>1, <1>0, NewNames
         DEF SavePassword, Progress, Exists, TypeOK, Row, InTable
    <3>3. \A u \in Users : users'[u] = users[u] => Progress(u)
      BY DEF Progress, Exists
    <3> QED BY <3>1, <3>2, <3>3
  <2>3. \A q \in Requests : Wrote(q) => Wrote(q)' /\ req'[q] = req[q]
    BY <1>5, <1>l DEF SavePassword
  <2>4. \A u \in Users : u # req[r].user => users'[u] = users[u]
    BY <1>5, <2>1 DEF SavePassword, TypeOK
  <2>5. \A u \in OldUsers : Exists(u)' => Exists(u)
    BY <2>1, <2>4, <1>o
  <2> QED BY <1>5, <2>2, <2>3, <2>5 DEF SavePassword, Grows
<1>6. ASSUME NEW r \in Requests, Resend(r) \/ Login(r) \/ SendMail(r) PROVE Grows
  <2>1. \A q \in Requests : Wrote(q) => Wrote(q)' /\ req'[q] = req[q]
    BY <1>6, <1>w, <1>l DEF Resend, Login, SendMail, Wrote
  <2> QED BY <1>6, <2>1 DEF Resend, Login, SendMail, Grows, Progress, Exists
<1>7. ASSUME NEW r \in Requests,
             \/ Lookup(r) \/ ResendCheck(r) \/ VerifyCheck(r) \/ ProfileCheck(r) \/ Fail(r)
      PROVE  Grows
  <2>1. ~Wrote(r) /\ UNCHANGED <<users, issued, inbox, stored>>
    <3>1. CASE Lookup(r)
      BY <3>1 DEF Lookup, RegisterLookup, ResendLookup, LoginLookup, VerifyLookup, PasswordLookup,
         ProfileLookup, Refuse, Accept, tables, Wrote
    <3>2. CASE ResendCheck(r) \/ VerifyCheck(r)
      BY <3>2 DEF ResendCheck, VerifyCheck, Refuse, Accept, tables, Wrote
    <3>3. CASE ProfileCheck(r) \/ Fail(r)
      BY <3>3 DEF ProfileCheck, Fail, Refuse, Accept, tables, Wrote
    <3> QED BY <1>7, <3>1, <3>2, <3>3
  <2>2. \A q \in Requests \ {r} : req'[q] = req[q] /\ pc'[q] = pc[q]
    BY <1>7, ReadsOnly
  <2> QED BY <1>1, <2>1, <2>2 DEF Wrote
<1>8. ASSUME NEW u \in Users, Age(u) PROVE Grows
  BY <1>1, <1>8 DEF Age, Wrote
<1>9. CASE UNCHANGED vars
  BY <1>1, <1>9 DEF vars, Wrote
<1> QED BY <1>2, <1>3, <1>4, <1>5, <1>6, <1>7, <1>8, <1>9 DEF Next

(* Rows that grow stay found by their address.                             *)
LEMMA StillFound ==
  ASSUME Grows
  PROVE  /\ InTable \subseteq InTable'
         /\ \A e : \A u \in WithEmail(e) : u \in WithEmail(e)'
BY DEF Grows, Progress, InTable, WithEmail, Exists

(* What a request saw stays written, and was no rival of its own.          *)
LEMMA SeenKeeps ==
  ASSUME TypeOK, Inv, Grows, NEW r \in Requests, req'[r] = req[r], seen'[r] = seen[r]
  PROVE  \A q \in seen'[r] : Wrote(q)' /\ ~Rivals(q, r)'
<1>1. \A q \in seen[r] : q \in Requests /\ Wrote(q) /\ ~Rivals(q, r)
  BY DEF Inv, CallOK, TypeOK
<1> QED BY <1>1 DEF Grows, Rivals

(* A request that did nothing keeps what it knows.                         *)
LEMMA OthersKeep ==
  ASSUME TypeOK, Inv, Grows, NEW q \in Requests, pc'[q] = pc[q], req'[q] = req[q],
         seen'[q] = seen[q], Exists(NewUser(q))' = Exists(NewUser(q))
  PROVE  CallOK(q)'
<1>1. ArgsOK(q)'
  BY DEF Inv, CallOK, ArgsOK
<1>2. ReadOK(q) => ReadOK(q)'
  <2> SUFFICES ASSUME ReadOK(q) PROVE ReadOK(q)'
    OBVIOUS
  <2>1. req[q].op \in {"resend", "verify", "login"} => req[q].user \in WithEmail(req[q].email)'
    BY StillFound DEF ReadOK
  <2>2. req[q].op \in {"verify", "login"} => Progress(req[q].user) /\ Exists(req[q].user)
    BY DEF ReadOK, WithEmail, InTable, Grows
  <2> QED BY <2>1, <2>2 DEF ReadOK, Grows, Progress
<1>3. Exists(NewUser(q))' => /\ pc'[q] \in {"mail", "done"} /\ req'[q].op = "register"
                             /\ users'[NewUser(q)].email = req'[q].email
  <2>1. Exists(NewUser(q))' => Exists(NewUser(q)) /\ Progress(NewUser(q))
    BY NewNames DEF Grows
  <2> QED BY <2>1 DEF Inv, CallOK, Progress
<1>4. req'[q].op = "register" => \A u \in OldUsers : Exists(u)' => users'[u].email # req'[q].email
  BY NewNames DEF Inv, CallOK, Grows, Progress
<1>5. \A p \in seen'[q] : Wrote(p)' /\ ~Rivals(p, q)'
  BY SeenKeeps
<1>6. Wrote(q)' => /\ req'[q].op = "register" => Exists(NewUser(q))'
                   /\ req'[q].op \in {"profile", "password"} => Exists(req[q].user)'
                   /\ req'[q].op = "profile" => users'[req[q].user].name # None
                   /\ req'[q].op = "password" => users'[req[q].user].password
  <2>1. Wrote(q)' <=> Wrote(q)
    BY DEF Wrote
  <2>2. Wrote(q) /\ req[q].op \in {"profile", "password"} => Progress(req[q].user) /\ Exists(req[q].user)
    BY DEF Grows, Inv, CallOK, ArgsOK
  <2> QED BY <2>1, <2>2 DEF Inv, CallOK, Progress
<1> QED BY <1>1, <1>2, <1>3, <1>4, <1>5, <1>6 DEF Inv, CallOK

(* Mails stay stored, whoever is about to send one.                        *)
LEMMA MailsKeep ==
  ASSUME TypeOK, Inv, Grows,
         \A m \in inbox' : m \in inbox \/ \E q \in Requests :
            pc[q] = "mail" /\ m = <<req[q].email, NewCode(q)>>,
         \A q \in Requests : pc'[q] = "mail" =>
            \/ pc[q] = "mail" /\ req'[q] = req[q]
            \/ (\E u \in WithEmail(req[q].email) : <<u, NewCode(q)>> \in stored)'
  PROVE  NoPhantomMail'
<1>1. \A m \in inbox' : \E u \in WithEmail(m[1])' : <<u, m[2]>> \in stored'
  <2> SUFFICES ASSUME NEW m \in inbox' PROVE \E u \in WithEmail(m[1]) : <<u, m[2]>> \in stored
    BY StillFound DEF Grows
  <2> QED BY DEF Inv, NoPhantomMail
<1>2. \A q \in Requests : pc'[q] = "mail" =>
        (\E u \in WithEmail(req[q].email) : <<u, NewCode(q)>> \in stored)'
  <2> SUFFICES ASSUME NEW q \in Requests, pc[q] = "mail", req'[q] = req[q]
               PROVE  (\E u \in WithEmail(req[q].email) : <<u, NewCode(q)>> \in stored)'
    OBVIOUS
  <2>1. PICK u \in WithEmail(req[q].email) : <<u, NewCode(q)>> \in stored
    BY DEF Inv, NoPhantomMail
  <2>2. u \in WithEmail(req[q].email)'
    BY <2>1, StillFound
  <2> QED BY <2>1, <2>2 DEF Grows
<1> QED BY <1>1, <1>2 DEF NoPhantomMail

(* The steps that leave the tables alone: reads, checks, failures.         *)
LEMMA QuietKeeps ==
  ASSUME TypeOK, Inv, Grows, NEW r \in Requests, UNCHANGED tables,
         \A q \in Requests \ {r} : pc'[q] = pc[q] /\ req'[q] = req[q] /\ seen'[q] = seen[q],
         pc'[r] # "mail", CallOK(r)'
  PROVE  Inv'
<1>1. \A q \in Requests : CallOK(q)'
  BY OthersKeep DEF tables, Exists
<1>2. NoPhantomMail'
  BY MailsKeep DEF tables
<1>3. SessionVerified' /\ ProvenAddress' /\ TableOK'
  BY DEF tables, Inv, SessionVerified, ProvenAddress, TableOK, InTable, Exists
<1> QED BY <1>1, <1>2, <1>3 DEF Inv

(* A lookup: what the handler read is what it will use.                    *)
LEMMA LookupKeeps ==
  ASSUME TypeOK, Inv, Grows, NEW r \in Requests, Lookup(r), ArgsOK(r)'
  PROVE  Inv'
<1>0. pc[r] = "idle" /\ ~Exists(NewUser(r))
  BY DEF Lookup, RegisterLookup, ResendLookup, LoginLookup, VerifyLookup, PasswordLookup,
     ProfileLookup, Inv, CallOK
<1>r. ASSUME Refuse(r) PROVE Inv'
  <2>1. CallOK(r)'
    <3>1. UNCHANGED <<users, codes, issued, inbox, stored, req, seen>> /\ pc'[r] = "refused"
      BY <1>r DEF Refuse, Goto, TypeOK, tables
    <3>2. \A q \in seen[r] : Wrote(q)' /\ ~Rivals(q, r)'
      BY <3>1, SeenKeeps
    <3> QED BY <3>1, <3>2, <1>0 DEF CallOK, ArgsOK, Inv, Exists, Wrote
  <2> QED BY <1>r, <2>1, QuietKeeps DEF Refuse, Goto, TypeOK
<1>a. ASSUME NEW op \in Ops, NEW u, NEW e, NEW n, NEW c, NEW l \in {"check", "write"},
             Accept(r, op, u, e, n, c, l), op # "register",
             op = "profile" => users[u].name = None,
             op \in {"resend", "verify", "password"} => ~users[u].password,
             op \in {"resend", "verify", "login"} => u \in WithEmail(e),
             op = "verify" => (c = None \/ <<e, c>> \in inbox) /\ l = "check",
             op = "login" => users[u].verified,
             op \in {"profile", "password"} => u \in issued
      PROVE  Inv'
  <2>1. /\ req'[r].op = op /\ req'[r].user = u /\ req'[r].email = e /\ req'[r].code = c
        /\ req'[r].verified => users[u].verified
        /\ pc'[r] = l
        /\ seen'[r] = {q \in Requests : Wrote(q)} /\ \A q \in Requests \ {r} : seen'[q] = seen[q]
        /\ UNCHANGED tables
    BY <1>a DEF Accept, Goto, TypeOK
  <2>2. ReadOK(r)'
    BY <1>a, <2>1 DEF ReadOK, tables, WithEmail, InTable, Exists
  <2>4. \A q \in seen'[r] : Wrote(q)' /\ ~Rivals(q, r)'
    <3>1. \A q \in Requests : Wrote(q) => Wrote(q)' /\ req'[q] = req[q]
      BY DEF Grows
    <3>2. \A q \in Requests : Wrote(q) /\ req[q].op = "profile" => users[req[q].user].name # None
      BY DEF Inv, CallOK
    <3>3. \A q \in Requests : Wrote(q) /\ req[q].op = "password" => users[req[q].user].password
      BY DEF Inv, CallOK
    <3> QED BY <1>a, <2>1, <3>1, <3>2, <3>3 DEF Rivals
  <2>3. CallOK(r)'
    BY <1>a, <1>0, <2>1, <2>2, <2>4 DEF CallOK, tables, Exists, Wrote
  <2> QED BY <1>a, <2>1, <2>3, QuietKeeps DEF Accept, Goto, TypeOK
<1>1. ASSUME NEW e \in Emails, RegisterLookup(r, e) PROVE Inv'
  <2>1. CASE Refuse(r)
    BY <2>1, <1>r
  <2>2. CASE GetByEmail(e) = {} /\ Accept(r, "register", None, e, None, None, "write")
    <3>1. /\ req'[r].op = "register" /\ req'[r].email = e /\ pc'[r] = "write"
          /\ seen'[r] = {q \in Requests : Wrote(q)} /\ \A q \in Requests \ {r} : seen'[q] = seen[q]
          /\ UNCHANGED tables
      BY <2>2 DEF Accept, Goto, TypeOK
    <3>2. \A u \in Users : Exists(u) => users[u].email # e
      BY <2>2 DEF GetByEmail, WithEmail, InTable
    <3>4. \A q \in Requests : Wrote(q) => Wrote(q)' /\ ~Rivals(q, r)'
      <4>1. \A q \in Requests : Wrote(q) => Wrote(q)' /\ req'[q] = req[q]
        BY DEF Grows
      <4>2. \A q \in Requests : Wrote(q) /\ req[q].op = "register" => req[q].email # e
        BY <3>2, NewNames DEF Inv, CallOK
      <4> QED BY <3>1, <4>1, <4>2 DEF Rivals
    <3>3. CallOK(r)'
      BY <3>1, <3>2, <3>4, <1>0, NewNames DEF CallOK, ReadOK, tables, Exists, Wrote
    <3> QED BY <2>2, <3>1, <3>3, QuietKeeps DEF Accept, Goto, TypeOK
  <2> QED BY <1>1, <2>1, <2>2 DEF RegisterLookup
<1>2. ASSUME NEW e \in Emails, ResendLookup(r, e) PROVE Inv'
  BY <1>2, <1>r, <1>a DEF ResendLookup, GetByEmail, Ops
<1>3. ASSUME NEW e \in Emails, LoginLookup(r, e) PROVE Inv'
  BY <1>3, <1>r, <1>a DEF LoginLookup, GetByEmail, Ops
<1>4. ASSUME NEW e \in Emails, NEW c \in Codes \cup {None}, VerifyLookup(r, e, c) PROVE Inv'
  BY <1>4, <1>r, <1>a DEF VerifyLookup, GetByEmail, Ops
<1>5. ASSUME NEW u \in Users, PasswordLookup(r, u) PROVE Inv'
  BY <1>5, <1>r, <1>a DEF PasswordLookup, Ops
<1>6. ASSUME NEW u \in Users, NEW n \in Names, ProfileLookup(r, u, n) PROVE Inv'
  BY <1>6, <1>r, <1>a DEF ProfileLookup, Ops
<1> QED BY <1>1, <1>2, <1>3, <1>4, <1>5, <1>6 DEF Lookup

(* The checks before a write: only VerifyCheck lets a request go on with    *)
(* more than it had, a code that is stored for its user.                   *)
LEMMA CheckKeeps ==
  ASSUME TypeOK, Inv, Grows, NEW r \in Requests,
         ResendCheck(r) \/ VerifyCheck(r) \/ ProfileCheck(r) \/ Fail(r), ArgsOK(r)'
  PROVE  Inv'
<1>0. pc[r] \in {"check", "write"} /\ ~Exists(NewUser(r)) /\ ReadOK(r)
  BY DEF ResendCheck, VerifyCheck, ProfileCheck, Fail, Inv, CallOK
<1>1. /\ UNCHANGED tables /\ UNCHANGED req /\ UNCHANGED seen
      /\ \A q \in Requests \ {r} : pc'[q] = pc[q]
      /\ pc'[r] \in {"write", "refused", "failed"}
      /\ pc'[r] = "write" /\ req[r].op = "verify" =>
           codes[req[r].user].code = req[r].code
  BY DEF ResendCheck, VerifyCheck, ProfileCheck, Fail, Goto, TypeOK
<1>2. ASSUME pc'[r] = "write", req[r].op = "verify"
      PROVE  req[r].code # None /\ <<req[r].user, req[r].code>> \in stored
  <2>1. req[r].user \in InTable /\ req[r].user \in Users
    BY <1>0, <1>2, UserInTable DEF InTable
  <2>2. codes[req[r].user] \in CodeRow
    BY <2>1 DEF Inv, TableOK, TypeOK
  <2> QED BY <1>1, <1>2, <2>1, <2>2, NewNames DEF Inv, TableOK, CodeRow
<1>3. CallOK(r)'
  <2>2. \A q \in seen[r] : Wrote(q)' /\ ~Rivals(q, r)'
    BY <1>1, SeenKeeps
  <2> QED BY <1>0, <1>1, <1>2, <2>2 DEF CallOK, ReadOK, tables, WithEmail, InTable, Exists, Inv, Wrote
<1> QED BY <1>1, <1>3, QuietKeeps

(* The transaction of RegisterEmail: a row nobody has a session for yet.   *)
LEMMA RegisterKeeps ==
  ASSUME TypeOK, TypeOK', Inv, Grows, NEW r \in Requests, Register(r), ArgsOK(r)'
  PROVE  Inv'
<1> DEFINE n == NewUser(r)
<1>0. /\ n \in Users /\ n \notin InTable /\ n \notin issued /\ pc[r] = "write"
      /\ req[r].op = "register"
  BY NewNames DEF Register, Inv, CallOK, TableOK, InTable
<1>1. /\ users'[n] = NewRow(req[r].email) /\ \A u \in Users : u # n => users'[u] = users[u]
      /\ codes'[n] = [code |-> NewCode(r), age |-> "recent"]
      /\ \A u \in Users : u # n => codes'[u] = codes[u]
      /\ stored' = stored \cup {<<n, NewCode(r)>>}
      /\ UNCHANGED <<issued, inbox, req, seen>>
      /\ pc' = [pc EXCEPT ![r] = "mail"]
  BY <1>0 DEF Register, TypeOK, Goto
<1>2. users'[n] # None /\ codes'[n] # None
  <2>1. NewRow(req[r].email) \in Row
    BY <1>0 DEF Inv, CallOK, ArgsOK, NewRow, Row
  <2>2. codes'[n] \in CodeRow
    BY <1>1, NewNames DEF CodeRow, Ages
  <2> QED BY <1>1, <2>1, <2>2, NewNames
<1>3. InTable' = InTable \cup {n}
  BY <1>0, <1>1, <1>2 DEF InTable, Exists
<1>4. /\ users'[n].email = req[r].email /\ ~users'[n].verified
      /\ users'[n].name = None /\ ~users'[n].password
  BY <1>1 DEF NewRow
<1>5. \A u \in InTable : u \in Users /\ u # n
  BY <1>0 DEF InTable
<1> HIDE DEF n
<1>6. SessionVerified'
  BY <1>0, <1>1, <1>3, <1>4, <1>5 DEF Inv, SessionVerified
<1>7. ProvenAddress'
  BY <1>1, <1>3, <1>4, <1>5 DEF Inv, ProvenAddress
<1>8. TableOK'
  BY <1>1, <1>2, <1>3, <1>5 DEF Inv, TableOK
<1>9. NoPhantomMail'
  <2>1. (\E u \in WithEmail(req[r].email) : <<u, NewCode(r)>> \in stored)'
    BY <1>1, <1>3, <1>4 DEF WithEmail
  <2>2. \A q \in Requests : pc'[q] = "mail" => q = r \/ (pc[q] = "mail" /\ req'[q] = req[q])
    BY <1>1 DEF TypeOK
  <2> QED BY <1>1, <2>1, <2>2, MailsKeep
<1>10. CallOK(r)'
  <2>1. \A u \in OldUsers : Exists(u)' => users'[u].email # req[r].email
    BY <1>0, NewNames DEF Inv, CallOK, Grows, Progress
  <2>3. \A q \in seen[r] : Wrote(q)' /\ ~Rivals(q, r)'
    BY <1>1, SeenKeeps
  <2>4. Exists(n)'
    BY <1>2 DEF Exists
  <2> QED BY <1>0, <1>1, <1>4, <2>1, <2>3, <2>4 DEF CallOK, TypeOK, n
<1>11. ASSUME NEW q \in Requests \ {r} PROVE CallOK(q)'
  <2>1. NewUser(q) # n
    BY DEF n, NewUser
  <2>2. Exists(NewUser(q))' = Exists(NewUser(q))
    BY <1>1, <2>1, NewNames DEF Exists
  <2> QED BY <1>1, <2>2, OthersKeep DEF TypeOK
<1> QED BY <1>6, <1>7, <1>8, <1>9, <1>10, <1>11 DEF Inv

(* A write to the row of a user: verified, named, with a password, logged   *)
(* in.  The row stays, and whoever was promised more has proved her address.*)
LEMMA UpdateKeeps ==
  ASSUME TypeOK, Inv, Grows, NEW r \in Requests, NEW u \in InTable,
         \A v \in Users : v # u => users'[v] = users[v],
         users'[u].verified, users'[u].email = users[u].email, Exists(u)',
         issued' \subseteq issued \cup {u}, users[u].verified \/ \E c \in Codes :
           <<u, c>> \in stored /\ <<users[u].email, c>> \in inbox,
         Reply(r), pc[r] = "write", UNCHANGED <<codes, inbox, req, stored, seen>>,
         req[r].op # "register",
         req[r].op \in {"profile", "password"} => u = req[r].user,
         req[r].op = "profile" => users'[u].name # None,
         req[r].op = "password" => users'[u].password
  PROVE  Inv'
<1>0. InTable' = InTable /\ \A v \in InTable : v \in Users
  BY DEF InTable, Exists
<1>1. SessionVerified'
  BY <1>0 DEF Inv, SessionVerified
<1>2. ProvenAddress'
  BY <1>0 DEF Inv, ProvenAddress
<1>3. TableOK'
  BY <1>0 DEF Inv, TableOK
<1>4. /\ \A q \in Requests \ {r} : pc'[q] = pc[q]
      /\ pc'[r] \in {"done", "lost"}
  BY DEF Reply, Goto, TypeOK
<1>5. NoPhantomMail'
  <2>1. \A q \in Requests : pc'[q] = "mail" => pc[q] = "mail" /\ req'[q] = req[q]
    BY <1>4
  <2> QED BY <2>1, MailsKeep
<1>6. \A q \in Requests : Exists(NewUser(q))' = Exists(NewUser(q))
  <2>1. \A v \in Users : v # u => Exists(v)' = Exists(v)
    BY DEF Exists
  <2>2. Exists(u)' = Exists(u)
    BY DEF InTable
  <2> QED BY <2>1, <2>2, NewNames
<1>7. \A q \in Requests \ {r} : CallOK(q)'
  BY <1>4, <1>6, OthersKeep
<1>8. CallOK(r)'
  <2>1. ArgsOK(r)'
    BY DEF ArgsOK, Inv, CallOK
  <2>3. ~Exists(NewUser(r))
    BY DEF Inv, CallOK
  <2>4. \A q \in seen[r] : Wrote(q)' /\ ~Rivals(q, r)'
    BY SeenKeeps
  <2> QED BY <1>4, <1>6, <2>1, <2>3, <2>4 DEF CallOK
<1> QED BY <1>1, <1>2, <1>3, <1>5, <1>7, <1>8 DEF Inv

(* Every step keeps the invariant.                                         *)
LEMMA InvStep ==
  ASSUME TypeOK, Inv, [Next]_vars
  PROVE  TypeOK' /\ Inv'
<1>0. TypeOK' /\ Grows /\ \A r \in Requests : ArgsOK(r)'
  BY TypeStep, StepGrows
<1>1. ASSUME NEW r \in Requests, Lookup(r) PROVE Inv'
  BY <1>0, <1>1, LookupKeeps
<1>2. ASSUME NEW r \in Requests,
             ResendCheck(r) \/ VerifyCheck(r) \/ ProfileCheck(r) \/ Fail(r)
      PROVE  Inv'
  BY <1>0, <1>2, CheckKeeps
<1>3. ASSUME NEW r \in Requests, Register(r) PROVE Inv'
  BY <1>0, <1>3, RegisterKeeps
<1>4. ASSUME NEW r \in Requests, Resend(r) PROVE Inv'
  <2>1. /\ req[r].user \in WithEmail(req[r].email) /\ req[r].user \in InTable
        /\ req[r].user \in Users /\ req[r].op = "resend" /\ pc[r] = "write"
        /\ ~Exists(NewUser(r))
    BY <1>4, UserInTable DEF Resend, ReadOK, InTable, Inv, CallOK
  <2>2. /\ codes'[req[r].user] = [code |-> NewCode(r), age |-> "recent"]
        /\ \A u \in Users : u # req[r].user => codes'[u] = codes[u]
        /\ stored' = stored \cup {<<req[r].user, NewCode(r)>>}
        /\ pc'[r] = "mail" /\ \A q \in Requests \ {r} : pc'[q] = pc[q]
        /\ UNCHANGED <<users, issued, inbox, req, seen>>
    BY <1>4, <2>1 DEF Resend, TypeOK, Goto
  <2>3. codes'[req[r].user] # None
    <3>1. codes'[req[r].user] \in CodeRow
      BY <2>2, NewNames DEF CodeRow, Ages
    <3> QED BY <3>1, NewNames
  <2>4. SessionVerified' /\ ProvenAddress'
    BY <2>2 DEF Inv, SessionVerified, ProvenAddress, InTable, Exists
  <2>5. TableOK'
    <3>1. InTable' = InTable /\ TableOK
      BY <2>2 DEF Inv, InTable, Exists
    <3> QED BY <2>1, <2>2, <2>3, <3>1 DEF TableOK, InTable
  <2>6. NoPhantomMail'
    <3>1. (\E u \in WithEmail(req[r].email) : <<u, NewCode(r)>> \in stored)'
      BY <2>1, <2>2 DEF WithEmail, InTable, Exists
    <3> QED BY <1>0, <2>2, <3>1, MailsKeep
  <2>7. \A q \in Requests \ {r} : CallOK(q)'
    BY <1>0, <2>2, OthersKeep DEF Exists
  <2>9. \A q \in seen[r] : Wrote(q)' /\ ~Rivals(q, r)'
    BY <1>0, <2>2, SeenKeeps
  <2>8. CallOK(r)'
    BY <1>0, <2>1, <2>2, <2>9 DEF CallOK, Exists
  <2> QED BY <2>4, <2>5, <2>6, <2>7, <2>8 DEF Inv
<1>5. ASSUME NEW r \in Requests, Verify(r) PROVE Inv'
  <2>1. PICK u \in InTable : /\ u = req[r].user /\ users[u] \in Row /\ u \in Users
    BY <1>5, UserInTable DEF Verify, InTable
  <2>2. ReadOK(r) /\ pc[r] = "write" /\ req[r].op = "verify"
    BY <1>5, UserInTable DEF Verify
  <2>3. \E c \in Codes : <<u, c>> \in stored /\ <<users[u].email, c>> \in inbox
    BY <2>1, <2>2 DEF ReadOK, WithEmail, TypeOK
  <2>4. \A v \in Users : v # u => users'[v] = users[v]
    BY <1>5, <2>1 DEF Verify, TypeOK
  <2>5. users'[u].verified /\ users'[u].email = users[u].email
    BY <1>5, <2>1, <2>2 DEF Verify, TypeOK, ReadOK, Row
  <2>6. Exists(u)'
    BY <1>0, <2>1 DEF Grows, Progress, InTable
  <2> QED BY <1>0, <1>5, <2>1, <2>3, <2>4, <2>5, <2>6, UpdateKeeps DEF Verify
<1>6. ASSUME NEW r \in Requests, SaveProfileInfo(r) \/ SavePassword(r) PROVE Inv'
  <2>1. PICK u \in InTable : /\ u = req[r].user /\ users[u] \in Row /\ u \in Users
                             /\ users[u].verified
    BY <1>6, UserInTable DEF SaveProfileInfo, SavePassword, InTable
  <2>2. \A v \in Users : v # u => users'[v] = users[v]
    BY <1>6, <2>1 DEF SaveProfileInfo, SavePassword, TypeOK
  <2>3. Exists(u)' /\ users'[u].verified /\ users'[u].email = users[u].email
    BY <1>0, <2>1 DEF Grows, Progress, InTable
  <2>4. /\ req[r].op = "profile" => users'[u].name # None
        /\ req[r].op = "password" => users'[u].password
    <3>1. CASE SaveProfileInfo(r)
      BY <2>1, <3>1, NewNames DEF SaveProfileInfo, TypeOK, Row, Inv, CallOK, ArgsOK
    <3>2. CASE SavePassword(r)
      BY <2>1, <3>2 DEF SavePassword, TypeOK, Row
    <3> QED BY <1>6, <3>1, <3>2
  <2> QED BY <1>0, <1>6, <2>1, <2>2, <2>3, <2>4, UpdateKeeps DEF SaveProfileInfo, SavePassword
<1>7. ASSUME NEW r \in Requests, Login(r) PROVE Inv'
  <2>1. PICK u \in InTable : u = req[r].user /\ users[u].verified /\ pc[r] = "write"
    BY <1>7, UserInTable DEF Login, ReadOK
  <2> QED BY <1>0, <1>7, <2>1, UpdateKeeps DEF Login, InTable, Exists
<1>8. ASSUME NEW r \in Requests, SendMail(r) PROVE Inv'
  <2>1. /\ inbox' \subseteq inbox \cup {<<req[r].email, NewCode(r)>>} /\ pc[r] = "mail"
        /\ pc'[r] = "done" /\ \A q \in Requests \ {r} : pc'[q] = pc[q]
        /\ UNCHANGED <<users, codes, issued, req, stored, seen>>
    BY <1>8 DEF SendMail, Goto, TypeOK
  <2>2. NoPhantomMail'
    BY <1>0, <2>1, MailsKeep
  <2>3. SessionVerified' /\ ProvenAddress' /\ TableOK'
    BY <1>0, <2>1 DEF Inv, SessionVerified, ProvenAddress, TableOK, InTable, Exists, Grows
  <2>4. \A q \in Requests \ {r} : CallOK(q)'
    BY <1>0, <2>1, OthersKeep DEF Exists
  <2>6. \A q \in seen[r] : Wrote(q)' /\ ~Rivals(q, r)'
    BY <1>0, <2>1, SeenKeeps
  <2>5. CallOK(r)'
    BY <1>0, <2>1, <2>6 DEF CallOK, Inv, Exists, Wrote
  <2> QED BY <2>2, <2>3, <2>4, <2>5 DEF Inv
<1>9. ASSUME NEW u \in Users, Age(u) PROVE Inv'
  <2>1. /\ UNCHANGED <<users, issued, inbox, pc, req, stored, seen>>
        /\ \A v \in InTable : codes[v] # None => codes'[v] # None /\ codes'[v].code = codes[v].code
    <3>1. codes[u] \in CodeRow /\ codes'[u] = [codes[u] EXCEPT !.age = codes'[u].age]
          /\ codes'[u].age \in Ages
      BY <1>9 DEF Age, TypeOK, CodeRow, Ages
    <3>2. codes'[u] \in CodeRow /\ codes'[u].code = codes[u].code
      BY <3>1 DEF CodeRow
    <3> QED BY <1>9, <3>2, NewNames DEF Age, InTable, TypeOK
  <2>2. SessionVerified' /\ ProvenAddress' /\ TableOK' /\ NoPhantomMail'
    <3>1. SessionVerified' /\ ProvenAddress' /\ NoPhantomMail'
      BY <2>1 DEF Inv, SessionVerified, ProvenAddress, NoPhantomMail, WithEmail, InTable, Exists
    <3>2. InTable' = InTable /\ TableOK
      BY <2>1 DEF Inv, InTable, Exists
    <3>3. \A v \in Users : codes'[v] # None => codes[v] # None
      BY <1>9 DEF Age, TypeOK
    <3> QED BY <2>1, <3>1, <3>2, <3>3 DEF TableOK
  <2>3. \A q \in Requests : CallOK(q)'
    BY <1>0, <2>1, OthersKeep DEF Exists
  <2> QED BY <2>2, <2>3 DEF Inv
<1>10. ASSUME UNCHANGED vars PROVE Inv'
  <2>1. SessionVerified' /\ ProvenAddress' /\ TableOK' /\ NoPhantomMail'
    BY <1>10 DEF vars, Inv, SessionVerified, ProvenAddress, TableOK, NoPhantomMail, WithEmail, InTable, Exists
  <2>2. \A q \in Requests : CallOK(q)'
    BY <1>0, <1>10, OthersKeep DEF vars, Exists
  <2> QED BY <2>1, <2>2 DEF Inv
<1>11. Inv'
  BY <1>1, <1>2, <1>3, <1>4, <1>5, <1>6, <1>7, <1>8, <1>9, <1>10 DEF Next
<1> QED BY <1>0, <1>11

-------------------------------------------------------------------------------
(* The types and the invariant hold in every reachable state.              *)
THEOREM Invariance == Spec => [](TypeOK /\ Inv)
<1>1. Init => TypeOK /\ Inv
  BY TypeInit, InvInit
<1>2. TypeOK /\ Inv /\ [Next]_vars => (TypeOK /\ Inv)'
  BY InvStep
<1> QED BY <1>1, <1>2, PTL DEF Spec

(* The types of users, codes, mails and of the requests over them.         *)
THEOREM Types == Spec => []TypeOK
<1> QED BY Invariance, PTL

(* Sessions, usernames and passwords only ever belong to verified users.   *)
THEOREM OnlyVerified == Spec => []SessionVerified
<1>1. Inv => SessionVerified
  BY DEF Inv
<1> QED BY <1>1, Invariance, PTL

(* Whoever is verified had a code stored for her arrive at her address.    *)
THEOREM AddressesProven == Spec => []ProvenAddress
<1>1. Inv => ProvenAddress
  BY DEF Inv
<1> QED BY <1>1, Invariance, PTL

(* Every mail that arrived carries a code the database accepted.           *)
THEOREM MailsHonest == Spec => []NoPhantomMail
<1>1. Inv => NoPhantomMail
  BY DEF Inv
<1> QED BY <1>1, Invariance, PTL

(* Requests that rule each other out both take effect only if they         *)
(* overlapped: an address, a username, a password, a code after a password. *)
THEOREM DuplicatesOverlap == Spec => []OverlapOnly
<1>1. Inv => OverlapOnly
  BY DEF Inv, CallOK, OverlapOnly, InTable
<1> QED BY <1>1, Invariance, PTL

(* No step of any handler undoes what a row had reached.                   *)
THEOREM RowsGrow == Spec => NothingUndone
<1>1. TypeOK /\ Inv /\ [Next]_vars => [\A u \in Users : Progress(u)]_vars
  BY StepGrows DEF Grows
<1> QED BY <1>1, Invariance, PTL DEF Spec, NothingUndone

-------------------------------------------------------------------------------
(* What a check found still holds at the write, if no other request clashes. *)
Window(r) ==
  pc[r] = "write" =>
    /\ req[r].op = "register" => WithEmail(req[r].email) = {}
    /\ req[r].op = "profile" =>
         \A u \in InTable : users[u].name = req[r].name => u = req[r].user
    /\ req[r].op = "resend" => codes[req[r].user].age # "recent"

Settled == UniqueEmail /\ UniqueUsername /\ \A r \in Requests : Window(r)

(* At the start addresses and usernames are unique and nobody is past a check. *)
LEMMA SettledInit == Init => Settled
BY DEF Init, Settled, UniqueEmail, UniqueUsername, Window

(* A step that gives nobody an address, a username or a new code.            *)
LEMMA SettledKept ==
  ASSUME TypeOK, Inv, Settled, InTable' = InTable,
         \A u \in InTable : /\ users'[u].email = users[u].email /\ users'[u].name = users[u].name
                            /\ codes'[u].age = "recent" => codes[u].age = "recent"
  PROVE  /\ UniqueEmail' /\ UniqueUsername'
         /\ \A q \in Requests : (pc'[q] = "write" => pc[q] = "write" /\ req'[q] = req[q]) => Window(q)'
<1>1. UniqueEmail'
  BY DEF Settled, UniqueEmail
<1>2. UniqueUsername'
  BY DEF Settled, UniqueUsername
<1>3. ASSUME NEW q \in Requests, pc'[q] = "write" => pc[q] = "write" /\ req'[q] = req[q]
      PROVE  Window(q)'
  <2>1. Window(q)
    BY DEF Settled
  <2>2. pc[q] = "write" /\ req[q].op = "resend" => req[q].user \in InTable
    BY UserInTable
  <2>3. \A e : {u \in InTable : users'[u].email = e} = {u \in InTable : users[u].email = e}
    OBVIOUS
  <2> QED BY <1>3, <2>1, <2>2, <2>3 DEF Window, WithEmail
<1> QED BY <1>1, <1>2, <1>3

(* Looking and checking: what is found is what the window promises.          *)
LEMMA ChecksSettle ==
  ASSUME TypeOK, Inv, Settled, NEW r \in Requests,
         Lookup(r) \/ ResendCheck(r) \/ VerifyCheck(r) \/ ProfileCheck(r) \/ Fail(r)
  PROVE  Settled'
<1>1. /\ UNCHANGED tables
      /\ \A q \in Requests \ {r} : pc'[q] = pc[q] /\ req'[q] = req[q]
  BY ReadsOnly
<1>2. Window(r)'
  <2>1. CASE Lookup(r)
    <3>1. pc'[r] = "write" => \/ req'[r].op \in {"password", "login"}
                              \/ req'[r].op = "register" /\ WithEmail(req'[r].email) = {}
      <4>1. CASE \E e \in Emails : RegisterLookup(r, e)
        BY <4>1 DEF RegisterLookup, GetByEmail, Refuse, Accept, Goto, TypeOK
      <4>2. CASE \E e \in Emails : ResendLookup(r, e) \/ LoginLookup(r, e)
        BY <4>2 DEF ResendLookup, LoginLookup, Refuse, Accept, Goto, TypeOK
      <4>3. CASE \E e \in Emails, c \in Codes \cup {None} : VerifyLookup(r, e, c)
        BY <4>3 DEF VerifyLookup, Refuse, Accept, Goto, TypeOK
      <4>4. CASE \E u \in Users : PasswordLookup(r, u) \/ \E n \in Names : ProfileLookup(r, u, n)
        BY <4>4 DEF PasswordLookup, ProfileLookup, Refuse, Accept, Goto, TypeOK
      <4> QED BY <2>1, <4>1, <4>2, <4>3, <4>4 DEF Lookup
    <3> QED BY <1>1, <3>1 DEF Window, tables, WithEmail, InTable, Exists
  <2>2. CASE ResendCheck(r)
    BY <2>2 DEF ResendCheck, Goto, tables, TypeOK, Window
  <2>3. CASE VerifyCheck(r)
    BY <2>3 DEF VerifyCheck, Goto, TypeOK, Window
  <2>4. CASE ProfileCheck(r)
    BY <2>4 DEF ProfileCheck, Goto, tables, TypeOK, Window, InTable, Exists
  <2>5. CASE Fail(r)
    BY <2>5 DEF Fail, Goto, TypeOK, Window
  <2> QED BY <2>1, <2>2, <2>3, <2>4, <2>5
<1>3. InTable' = InTable
  BY <1>1 DEF tables, InTable, Exists
<1>4. /\ UniqueEmail' /\ UniqueUsername'
      /\ \A q \in Requests \ {r} : Window(q)'
  BY <1>1, <1>3, SettledKept DEF tables, Window
<1> QED BY <1>2, <1>4 DEF Settled, Window

(* RegisterEmail's transaction: nobody has the address yet.                  *)
LEMMA RegisterSettles ==
  ASSUME TypeOK, Inv, Settled, Apart, NEW r \in Requests, Register(r)
  PROVE  Settled'
<1> DEFINE n == NewUser(r)
<1>0. /\ n \in Users /\ n \notin InTable /\ pc[r] = "write" /\ req[r].op = "register"
      /\ WithEmail(req[r].email) = {} /\ req[r].email \in Emails
  BY NewNames DEF Register, Inv, CallOK, ArgsOK, InTable, Settled, Window
<1>1. /\ users'[n] = NewRow(req[r].email) /\ \A u \in Users : u # n => users'[u] = users[u]
      /\ \A u \in Users : u # n => codes'[u] = codes[u]
      /\ req' = req /\ \A q \in Requests : pc'[q] = "write" => pc[q] = "write" /\ q # r
  BY <1>0 DEF Register, TypeOK, Goto
<1>2. users'[n].email = req[r].email /\ users'[n].name = None /\ users'[n] # None
  <2>1. NewRow(req[r].email) \in Row
    BY <1>0 DEF NewRow, Row
  <2>2. users'[n] # None
    BY <1>1, <2>1, NewNames
  <2>3. users'[n].email = req[r].email /\ users'[n].name = None
    BY <1>1 DEF NewRow
  <2> QED BY <2>2, <2>3
<1>3. InTable' = InTable \cup {n} /\ \A u \in InTable : u \in Users /\ u # n
  BY <1>0, <1>1, <1>2 DEF InTable, Exists
<1> HIDE DEF n
<1>4. UniqueEmail' /\ UniqueUsername'
  BY <1>0, <1>1, <1>2, <1>3 DEF Settled, UniqueEmail, UniqueUsername, WithEmail
<1>5. ASSUME NEW q \in Requests, pc'[q] = "write" PROVE Window(q)'
  <2>1. Window(q) /\ pc[q] = "write" /\ q # r /\ ~Clash(q, r)
    BY <1>0, <1>1, <1>5 DEF Settled, Apart
  <2>2. req[q].op = "register" => WithEmail(req[q].email)' = {}
    BY <1>0, <1>1, <1>2, <1>3, <2>1 DEF Window, WithEmail, Clash
  <2>3. req[q].op = "profile" => req[q].name # None
    BY NewNames DEF Inv, CallOK, ArgsOK
  <2>4. req[q].op = "resend" => req[q].user \in InTable
    BY <2>1, UserInTable
  <2> QED BY <1>1, <1>2, <1>3, <2>1, <2>2, <2>3, <2>4 DEF Window
<1>6. \A q \in Requests : Window(q)'
  BY <1>5 DEF Window
<1> QED BY <1>4, <1>6 DEF Settled

(* A new code: nobody else is about to store one for this user.              *)
LEMMA ResendSettles ==
  ASSUME TypeOK, Inv, Settled, Apart, NEW r \in Requests, Resend(r)
  PROVE  Settled'
<1>1. /\ UNCHANGED <<users, req>> /\ pc[r] = "write" /\ req[r].op = "resend"
      /\ req[r].user \in Users
      /\ \A u \in Users : u # req[r].user => codes'[u] = codes[u]
      /\ \A q \in Requests : pc'[q] = "write" => pc[q] = "write" /\ q # r
  BY DEF Resend, TypeOK, Goto, Inv, CallOK, ArgsOK
<1>2. InTable' = InTable
  BY <1>1 DEF InTable, Exists
<1>3. UniqueEmail' /\ UniqueUsername'
  BY <1>1, <1>2 DEF Settled, UniqueEmail, UniqueUsername
<1>4. ASSUME NEW q \in Requests, pc'[q] = "write" PROVE Window(q)'
  <2>1. Window(q) /\ pc[q] = "write" /\ ~Clash(q, r)
    BY <1>1, <1>4 DEF Settled, Apart
  <2>2. req[q].op = "resend" => req[q].user \in Users /\ req[q].user # req[r].user
    BY <1>1, <2>1 DEF Clash, Inv, CallOK, ArgsOK
  <2> QED BY <1>1, <1>2, <2>1, <2>2 DEF Window, WithEmail
<1>5. \A q \in Requests : Window(q)'
  BY <1>4 DEF Window
<1> QED BY <1>3, <1>5 DEF Settled

(* A username: nobody else has it, and nobody else is about to.              *)
LEMMA ProfileSettles ==
  ASSUME TypeOK, Inv, Settled, Apart, NEW r \in Requests, SaveProfileInfo(r)
  PROVE  Settled'
<1> DEFINE u == req[r].user
<1>1. /\ pc[r] = "write" /\ req[r].op = "profile" /\ u \in InTable /\ u \in Users
      /\ users[u] \in Row /\ req[r].name \in Names
  BY UserInTable DEF SaveProfileInfo, InTable, Inv, CallOK, ArgsOK
<1>2. /\ users'[u] = [users[u] EXCEPT !.name = req[r].name]
      /\ \A v \in Users : v # u => users'[v] = users[v]
      /\ UNCHANGED <<codes, req>>
      /\ \A q \in Requests : pc'[q] = "write" => pc[q] = "write" /\ q # r
  BY <1>1 DEF SaveProfileInfo, TypeOK, Reply, Goto
<1>3. users'[u].name = req[r].name /\ users'[u].email = users[u].email /\ users'[u] # None
  <2>1. users'[u] \in Row
    BY <1>1, <1>2 DEF Row
  <2> QED BY <1>1, <1>2, <2>1, NewNames DEF Row
<1>4. InTable' = InTable /\ \A v \in InTable : v \in Users
  BY <1>1, <1>2, <1>3 DEF InTable, Exists
<1>5. \A v \in InTable : users[v].name = req[r].name => v = u
  BY <1>1 DEF Settled, Window
<1>6. \A v \in InTable : users'[v].email = users[v].email
  BY <1>2, <1>3, <1>4
<1>7. UniqueEmail'
  BY <1>4, <1>6 DEF Settled, UniqueEmail
<1>8. UniqueUsername'
  <2>1. \A v \in InTable : users'[v].name = IF v = u THEN req[r].name ELSE users[v].name
    BY <1>2, <1>3, <1>4
  <2> HIDE DEF u
  <2> QED BY <1>4, <1>5, <2>1 DEF Settled, UniqueUsername
<1>9. ASSUME NEW q \in Requests, pc'[q] = "write" PROVE Window(q)'
  <2>1. Window(q) /\ pc[q] = "write" /\ ~Clash(q, r)
    BY <1>1, <1>2, <1>9 DEF Settled, Apart
  <2>2. req[q].op = "profile" /\ req[q].name = req[r].name => req[q].user = u
    BY <1>1, <2>1 DEF Clash
  <2>3. req[q].op = "profile" =>
          \A v \in InTable : users'[v].name = req[q].name => v = req[q].user
    BY <1>2, <1>3, <1>4, <2>1, <2>2 DEF Window
  <2> QED BY <1>2, <1>4, <1>6, <2>1, <2>3 DEF Window, WithEmail
<1>10. \A q \in Requests : Window(q)'
  BY <1>9 DEF Window
<1> QED BY <1>7, <1>8, <1>10 DEF Settled

(* The writes and mails that have nothing to do with what was checked, and   *)
(* the codes that age.                                                       *)
LEMMA RestSettles ==
  ASSUME TypeOK, Inv, Settled,
         \/ \E r \in Requests : Verify(r) \/ SavePassword(r) \/ Login(r) \/ SendMail(r)
         \/ \E u \in Users : Age(u)
         \/ UNCHANGED vars
  PROVE  Settled'
<1>1. /\ UNCHANGED req /\ \A q \in Requests : pc'[q] = "write" => pc[q] = "write"
      /\ \A u \in InTable : codes'[u].age = "recent" => codes[u].age = "recent"
  <2>1. ASSUME NEW r \in Requests, Verify(r) \/ SavePassword(r) \/ Login(r) \/ SendMail(r)
        PROVE  UNCHANGED <<req, codes>> /\ \A q \in Requests : pc'[q] = "write" => pc[q] = "write"
    BY <2>1 DEF Verify, SavePassword, Login, SendMail, Reply, Goto, TypeOK
  <2>2. ASSUME NEW v \in Users, Age(v)
        PROVE  /\ UNCHANGED <<req, pc>>
               /\ \A u \in InTable : codes'[u].age = "recent" => codes[u].age = "recent"
    <3>1. codes[v] \in CodeRow /\ codes'[v].age # "recent"
      BY <2>2 DEF Age, TypeOK, CodeRow, Ages
    <3>2. UNCHANGED <<req, pc>> /\ \A u \in Users : u # v => codes'[u] = codes[u]
      BY <2>2 DEF Age, TypeOK
    <3> QED BY <3>1, <3>2 DEF InTable
  <2>3. CASE UNCHANGED vars
    BY <2>3 DEF vars
  <2> QED BY <2>1, <2>2, <2>3
<1>2. /\ InTable' = InTable
      /\ \A u \in InTable : users'[u].email = users[u].email /\ users'[u].name = users[u].name
  <2>1. CASE UNCHANGED users
    BY <2>1 DEF InTable, Exists
  <2>2. ASSUME NEW r \in Requests, Verify(r) \/ SavePassword(r), ~UNCHANGED users
        PROVE  /\ InTable' = InTable
               /\ \A u \in InTable : users'[u].email = users[u].email /\ users'[u].name = users[u].name
    <3> DEFINE u == req[r].user
    <3>1. u \in InTable /\ u \in Users /\ users[u] \in Row
      BY <2>2, UserInTable DEF Verify, SavePassword, InTable
    <3>2. /\ users'[u] \in {[users[u] EXCEPT !.verified = TRUE], [users[u] EXCEPT !.password = TRUE]}
          /\ \A v \in Users : v # u => users'[v] = users[v]
      BY <2>2, <3>1 DEF Verify, SavePassword, TypeOK
    <3>3. users'[u] \in Row /\ users'[u].email = users[u].email /\ users'[u].name = users[u].name
      BY <3>1, <3>2 DEF Row
    <3> HIDE DEF u
    <3> QED BY <3>1, <3>2, <3>3, NewNames DEF InTable, Exists
  <2>3. (\E r \in Requests : Login(r) \/ SendMail(r)) \/ (\E u \in Users : Age(u)) \/ UNCHANGED vars
          => UNCHANGED users
    BY DEF Login, SendMail, Age, vars
  <2> QED BY <2>1, <2>2, <2>3
<1>3. /\ UniqueEmail' /\ UniqueUsername'
      /\ \A q \in Requests : Window(q)'
  BY <1>1, <1>2, SettledKept DEF Window
<1> QED BY <1>3 DEF Settled, Window

(* As long as clashing requests keep apart between check and write, nothing   *)
(* takes an address or a username twice...                                   *)
LEMMA SettledStep ==
  ASSUME TypeOK, Inv, Settled, Apart, [Next]_vars
  PROVE  Settled'
BY ChecksSettle, RegisterSettles, ResendSettles, ProfileSettles, RestSettles DEF Next

(* ...nor replaces a code that may not yet be resent.                        *)
LEMMA RecentStays ==
  ASSUME TypeOK, Inv, Settled, [Next]_vars
  PROVE  \A u \in Users : (codes[u] # None /\ codes[u].age = "recent")
                              => codes'[u].code = codes[u].code
<1>1. CASE UNCHANGED codes
  BY <1>1
<1>2. ASSUME NEW r \in Requests, Register(r)
      PROVE  \A u \in Users : codes[u] # None => codes'[u] = codes[u]
  <2>1. codes[NewUser(r)] = None
    BY <1>2, NewNames DEF Register, Inv, CallOK, TableOK, InTable
  <2> QED BY <1>2, <2>1 DEF Register, TypeOK
<1>3. ASSUME NEW r \in Requests, Resend(r)
      PROVE  \A u \in Users : codes[u].age = "recent" => codes'[u] = codes[u]
  BY <1>3 DEF Resend, Settled, Window, TypeOK
<1>4. ASSUME NEW v \in Users, Age(v)
      PROVE  \A u \in Users : codes[u] # None => codes'[u].code = codes[u].code
  <2>1. codes[v] \in CodeRow
    BY <1>4 DEF Age, TypeOK
  <2> QED BY <1>4, <2>1 DEF Age, TypeOK, CodeRow
<1>5. ASSUME NEW r \in Requests,
             \/ Lookup(r) \/ ResendCheck(r) \/ VerifyCheck(r) \/ ProfileCheck(r) \/ Fail(r)
      PROVE  UNCHANGED codes
  BY <1>5 DEF Lookup, RegisterLookup, ResendLookup, LoginLookup, VerifyLookup, PasswordLookup,
              ProfileLookup, Refuse, Accept, tables, ResendCheck, VerifyCheck, ProfileCheck, Fail
<1>6. ASSUME NEW r \in Requests,
             Verify(r) \/ SaveProfileInfo(r) \/ SavePassword(r) \/ Login(r) \/ SendMail(r)
      PROVE  UNCHANGED codes
  BY <1>6 DEF Verify, SaveProfileInfo, SavePassword, Login, SendMail
<1>7. CASE \E r \in Requests : Register(r) \/ Resend(r)
  BY <1>2, <1>3, <1>7
<1>8. CASE \E u \in Users : Age(u)
  BY <1>4, <1>8
<1>9. CASE UNCHANGED vars
  BY <1>1, <1>9 DEF vars
<1> QED BY <1>1, <1>5, <1>6, <1>7, <1>8, <1>9 DEF Next

(* The races of the findings are the only ones: an address and a username     *)
(* have one user, and a code that may not be resent is not replaced, unless  *)
(* two requests for the same are between check and write at the same time.   *)
THEOREM UniqueWhenApart ==
  Spec /\ []Apart => []UniqueEmail /\ []UniqueUsername /\ OneCodePerWindow
<1>1. Init => Settled
  BY SettledInit
<1>2. TypeOK /\ Inv /\ Settled /\ Apart /\ [Next]_vars => Settled'
  BY SettledStep
<1>3. Settled => UniqueEmail /\ UniqueUsername
  BY DEF Settled
<1>4. TypeOK /\ Inv /\ Settled /\ [Next]_vars =>
        [\A u \in Users : (codes[u] # None /\ codes[u].age = "recent")
                              => codes'[u].code = codes[u].code]_vars
  BY RecentStays
<1> QED BY <1>1, <1>2, <1>3, <1>4, Invariance, PTL DEF Spec, OneCodePerWindow
-------------------------------------------------------------------------------
(* What is a step of which account.  At the start every code is an old one.  *)
LEMMA CodesInit == Init => CodesOnce
<1> SUFFICES ASSUME Init PROVE CodesOnce
  OBVIOUS
<1>1. ASSUME NEW r \in Requests, NEW u \in Users PROVE <<u, NewCode(r)>> \notin stored
  <2>1. \A v \in InTable : v \in OldUsers /\ codes[v].code = OldCode(v)
    BY DEF Init, InTable, Exists, Users
  <2>2. \A v \in OldUsers : OldCode(v) # NewCode(r)
    BY FreshAssumption DEF OldCode, NewCode
  <2> QED BY <2>1, <2>2 DEF Init
<1> QED BY <1>1 DEF CodesOnce, Init

(* Only the transactions of RegisterEmail and VerifyResend store a code, and *)
(* only RegisterVerify verifies, with a session.                             *)
LEMMA CodesStep ==
  ASSUME TypeOK, Inv, CodesOnce, [Next]_vars
  PROVE  CodesOnce'
<1>0. /\ \A r \in Requests : Wrote(r) => Wrote(r)'
      /\ issued \subseteq issued'
  BY StepGrows DEF Grows
<1>1. ASSUME UNCHANGED stored, \A u \in Users : users'[u] = users[u] \/ u \in issued'
      PROVE  CodesOnce'
  BY <1>0, <1>1 DEF CodesOnce, InTable, Exists
<1>2. ASSUME NEW r \in Requests, Register(r) \/ Resend(r) PROVE CodesOnce'
  <2>1. /\ \A m \in stored' : m \in stored \/ m[2] = NewCode(r)
        /\ Wrote(r)'
    BY <1>2 DEF Register, Resend, Goto, Wrote, TypeOK
  <2>2. \A q \in Requests : NewCode(q) = NewCode(r) => q = r
    BY DEF NewCode
  <2>3. ASSUME NEW u \in Users, u \in InTable', users'[u].verified PROVE u \in issued'
    <3>1. users'[u] # NewRow(req[r].email)
      BY <2>3 DEF NewRow
    <3>2. users'[u] = users[u]
      BY <1>2, <3>1, NewNames DEF Register, Resend, TypeOK
    <3> QED BY <1>0, <2>3, <3>2 DEF CodesOnce, InTable, Exists
  <2>4. \A q \in Requests, u \in Users : <<u, NewCode(q)>> \in stored' => Wrote(q)'
    BY <1>0, <2>1, <2>2 DEF CodesOnce
  <2> QED BY <2>3, <2>4 DEF CodesOnce, InTable
<1>3. ASSUME NEW r \in Requests,
             \/ Lookup(r) \/ ResendCheck(r) \/ VerifyCheck(r) \/ ProfileCheck(r) \/ Fail(r)
             \/ Login(r) \/ SendMail(r)
      PROVE  CodesOnce'
  <2>1. UNCHANGED <<users, stored>>
    BY <1>3, ReadsOnly DEF tables, Login, SendMail
  <2> QED BY <1>1, <2>1
<1>4. ASSUME NEW r \in Requests, Verify(r) \/ SaveProfileInfo(r) \/ SavePassword(r) PROVE CodesOnce'
  <2>1. \A u \in Users : users'[u] = users[u] \/ u = req[r].user
    BY <1>4 DEF Verify, SaveProfileInfo, SavePassword, TypeOK
  <2>2. req[r].user \in issued'
    BY <1>0, <1>4, UserInTable DEF Verify, SaveProfileInfo, SavePassword, ReadOK
  <2>3. UNCHANGED stored
    BY <1>4 DEF Verify, SaveProfileInfo, SavePassword
  <2> QED BY <1>1, <2>1, <2>2, <2>3
<1>5. ASSUME NEW u \in Users, Age(u) PROVE CodesOnce'
  BY <1>1, <1>5 DEF Age
<1>6. CASE UNCHANGED vars
  BY <1>1, <1>6 DEF vars
<1> QED BY <1>2, <1>3, <1>4, <1>5, <1>6 DEF Next

(* The accounts the server starts on are accounts of AccountStore.           *)
LEMMA AccountsInit == Init => Accounts!Init
<1> SUFFICES ASSUME Init PROVE Accounts!Init
  OBVIOUS
<1> DEFINE last(u) == codes[u].code
<1>1. TypeOK
  BY TypeInit
<1>2. \A u \in InTable : /\ u \in Users /\ users[u] \in Row /\ last(u) = OldCode(u) /\ last(u) \in Codes
                         /\ <<u, last(u)>> \in stored /\ <<users[u].email, last(u)>> \in inbox
  <2>1. \A u \in InTable : u \in OldUsers
    BY DEF Init, InTable, Exists, Users
  <2>2. \A u \in InTable : u \in Users /\ users[u] \in Row
    BY <1>1 DEF InTable, Exists, TypeOK
  <2> QED BY <2>1, <2>2, NewNames DEF Init, InTable, Exists
<1>3. stored = {<<u, last(u)>> : u \in InTable} /\ inbox = {<<users[u].email, last(u)>> : u \in InTable}
  BY DEF Init
<1> HIDE DEF last
<1>4. Accounts!Opened = InTable /\ Accounts!Row = Row
  BY DEF Accounts!Opened, InTable, Exists, Accounts!Row, Row
<1>5. stored \subseteq InTable \X Codes
  BY <1>2, <1>3
<1>6. \A g, h \in stored : g[2] = h[2] => g = h
  BY <1>2, <1>3 DEF OldCode
<1>7. inbox = {<<users[g[1]].email, g[2]>> : g \in stored}
  <2>1. \A g \in stored : <<users[g[1]].email, g[2]>> \in inbox
    BY <1>3
  <2>2. ASSUME NEW m \in inbox PROVE \E g \in stored : m = <<users[g[1]].email, g[2]>>
    <3>1. PICK u \in InTable : m = <<users[u].email, last(u)>>
      BY <1>3
    <3>2. <<u, last(u)>> \in stored
      BY <1>3
    <3> QED BY <3>1, <3>2
  <2> QED BY <2>1, <2>2
<1>8. ASSUME NEW u \in InTable
      PROVE  \/ Accounts!Proven(u) /\ users[u].verified
             \/ ~users[u].verified /\ users[u].name = None /\ ~users[u].password
  <2>1. Accounts!Proven(u)
    BY <1>2 DEF Accounts!Proven
  <2>2. users[u] \in OldRows
    BY <1>2, NewNames DEF Init, InTable, Exists
  <2>3. CASE users[u].verified
    BY <2>1, <2>3
  <2>4. CASE \E e \in Emails : users[u] = NewRow(e)
    BY <2>4 DEF NewRow
  <2>5. users[u].verified \/ \E e \in Emails : users[u] = NewRow(e)
    BY <2>2 DEF OldRows
  <2> QED BY <2>3, <2>4, <2>5
<1>9. issued = {u \in InTable : users[u].verified}
  BY DEF Init
<1> QED BY <1>1, <1>4, <1>5, <1>6, <1>7, <1>8, <1>9 DEF Accounts!Init, TypeOK

(* RegisterEmail's transaction is Open, VerifyResend's is Renew.             *)
LEMMA CodesAreGiven ==
  ASSUME TypeOK, Inv, CodesOnce, NEW r \in Requests, Register(r) \/ Resend(r)
  PROVE  Accounts!Next
<1>1. pc[r] = "write" /\ NewCode(r) \in Codes /\ Accounts!New(NewCode(r))
  BY NewNames DEF Register, Resend, CodesOnce, Wrote, Accounts!New
<1>2. CASE Register(r)
  <2>1. /\ NewUser(r) \in Users /\ users[NewUser(r)] = None /\ req[r].email \in Emails
    BY <1>1, <1>2, NewNames DEF Register, Inv, CallOK, ArgsOK, Exists
  <2>2. Accounts!Open(NewUser(r), req[r].email, NewCode(r))
    BY <1>1, <1>2, <2>1 DEF Register, NewRow, Accounts!Open
  <2> QED BY <1>1, <2>1, <2>2 DEF Accounts!Next
<1>3. CASE Resend(r)
  <2>1. req[r].user \in InTable /\ req[r].user \in Users
    BY <1>3, UserInTable DEF Resend, InTable
  <2>2. Accounts!Renew(req[r].user, NewCode(r))
    BY <1>1, <1>3, <2>1 DEF Resend, Accounts!Renew, Accounts!Opened, InTable, Exists
  <2> QED BY <1>1, <2>1, <2>2 DEF Accounts!Next
<1> QED BY <1>2, <1>3

(* A mail that arrives is Arrive, for a user with the address it was sent to. *)
LEMMA MailsArrive ==
  ASSUME TypeOK, Inv, NEW r \in Requests, SendMail(r), inbox' # inbox
  PROVE  Accounts!Next
<1>1. PICK u \in WithEmail(req[r].email) : <<u, NewCode(r)>> \in stored
  BY DEF SendMail, Inv, NoPhantomMail
<1>2. u \in Users /\ users[u].email = req[r].email /\ NewCode(r) \in Codes
  BY NewNames DEF WithEmail, InTable
<1>3. Accounts!Arrive(u, NewCode(r))
  BY <1>1, <1>2 DEF SendMail, Accounts!Arrive
<1> QED BY <1>2, <1>3 DEF Accounts!Next

(* RegisterVerify's transaction is Verify, also when it found the user        *)
(* verified already; SaveProfileInfo and SavePassword are what they say.     *)
LEMMA UpdatesFit ==
  ASSUME TypeOK, Inv, CodesOnce, NEW r \in Requests, Verify(r) \/ SaveProfileInfo(r) \/ SavePassword(r)
  PROVE  Accounts!Next \/ UNCHANGED <<users, stored, inbox, issued>>
<1> DEFINE u == req[r].user
<1>1. u \in InTable /\ u \in Users /\ ReadOK(r) /\ pc[r] = "write"
  BY UserInTable DEF Verify, SaveProfileInfo, SavePassword, InTable
<1>2. CASE Verify(r) /\ ~req[r].verified
  <2>1. Accounts!Proven(u)
    BY <1>1, <1>2 DEF Verify, ReadOK, WithEmail, Accounts!Proven, TypeOK
  <2>2. Accounts!Verify(u)
    BY <1>1, <1>2, <2>1 DEF Verify, Accounts!Verify, Accounts!Opened, InTable, Exists
  <2> QED BY <1>1, <2>2 DEF Accounts!Next
<1>3. CASE Verify(r) /\ req[r].verified
  BY <1>1, <1>3 DEF Verify, ReadOK, CodesOnce
<1>4. CASE SaveProfileInfo(r)
  <2>1. req[r].name \in Names
    BY <1>4 DEF SaveProfileInfo, Inv, CallOK, ArgsOK
  <2>2. Accounts!SetName(u, req[r].name)
    BY <1>1, <1>4 DEF SaveProfileInfo, ReadOK, Accounts!SetName
  <2> QED BY <1>1, <2>1, <2>2 DEF Accounts!Next
<1>5. CASE SavePassword(r)
  <2>1. Accounts!SetPassword(u)
    BY <1>1, <1>5 DEF SavePassword, ReadOK, Accounts!SetPassword
  <2> QED BY <1>1, <2>1 DEF Accounts!Next
<1> QED BY <1>2, <1>3, <1>4, <1>5

(* A login gives nobody a first session: who can log in was verified, and     *)
(* whoever is had one.                                                       *)
LEMMA LoginStutters ==
  ASSUME TypeOK, Inv, CodesOnce, NEW r \in Requests, Login(r)
  PROVE  UNCHANGED <<users, stored, inbox, issued>>
<1>1. req[r].user \in InTable /\ ReadOK(r) /\ req[r].op = "login"
  BY UserInTable DEF Login
<1>2. req[r].user \in issued
  BY <1>1 DEF ReadOK, CodesOnce
<1> QED BY <1>2 DEF Login

(* Every step of a handler is one of AccountStore or changes no account.      *)
LEMMA AccountsStep == TypeOK /\ Inv /\ CodesOnce /\ [Next]_vars => [Accounts!Next]_Accounts!vars
<1> DEFINE same == UNCHANGED <<users, stored, inbox, issued>>
<1> SUFFICES ASSUME TypeOK, Inv, CodesOnce, [Next]_vars PROVE Accounts!Next \/ same
  BY DEF Accounts!vars
<1>1. ASSUME NEW r \in Requests,
             Lookup(r) \/ ResendCheck(r) \/ VerifyCheck(r) \/ ProfileCheck(r) \/ Fail(r)
      PROVE  same
  BY <1>1, ReadsOnly DEF tables
<1>2. ASSUME NEW r \in Requests, SendMail(r) PROVE Accounts!Next \/ same
  <2>1. UNCHANGED <<users, stored, issued>>
    BY <1>2 DEF SendMail
  <2> QED BY <1>2, <2>1, MailsArrive
<1>3. ASSUME NEW u \in Users, Age(u) PROVE same
  BY <1>3 DEF Age
<1>4. CASE UNCHANGED vars
  BY <1>4 DEF vars
<1> HIDE DEF same
<1>5. ASSUME NEW r \in Requests, Register(r) \/ Resend(r) PROVE Accounts!Next
  BY <1>5, CodesAreGiven
<1>6. ASSUME NEW r \in Requests, Login(r) PROVE same
  BY <1>6, LoginStutters DEF same
<1>7. ASSUME NEW r \in Requests, Verify(r) \/ SaveProfileInfo(r) \/ SavePassword(r)
      PROVE  Accounts!Next \/ same
  BY <1>7, UpdatesFit DEF same
<1> QED BY <1>1, <1>2, <1>3, <1>4, <1>5, <1>6, <1>7 DEF Next

(* The handlers, with their checks and writes in separate statements and     *)
(* their mails under way, implement AccountStore.                            *)
THEOREM Refinement == Spec => AccountSpec
<1>1. Init => CodesOnce /\ Accounts!Init
  BY CodesInit, AccountsInit
<1>2. TypeOK /\ Inv /\ CodesOnce /\ [Next]_vars => CodesOnce'
  BY CodesStep
<1>3. TypeOK /\ Inv /\ CodesOnce /\ [Next]_vars => [Accounts!Next]_Accounts!vars
  BY AccountsStep
<1> QED BY <1>1, <1>2, <1>3, Invariance, PTL DEF Spec, AccountSpec, Accounts!Spec

===============================================================================
