---------------------------- MODULE ConnPool_proofs ----------------------------
(***************************************************************************)
(* Theorems about module ConnPool, for any pool size, requests and users:  *)
(* nothing leaks, some request can always go on unless each connection is  *)
(* with another contender, and no request can go on for ever.              *)
(***************************************************************************)
EXTENDS ConnPool, FiniteSetTheorems, TLAPS

(* The positions of a handler's script between its BEGIN and its COMMIT. *)
OpenAt(op, i) == \/ op \in {"register", "verify"} /\ i \in 3..6
                 \/ op = "refresh" /\ i \in 2..5
                 \/ op \in {"createBrand", "updateBrand", "createStore"} /\ i \in 3..4

(* What the proofs use of a script: where its transaction opens and closes, *)
(* and that no pool query inside it needs a row.                           *)
Fits(op, i, step) ==
  /\ step.do \in {"pool", "begin", "exec", "commit"}
  /\ step.do = "begin" => ~OpenAt(op, i) /\ OpenAt(op, i + 1)
  /\ step.do = "commit" => OpenAt(op, i) /\ ~OpenAt(op, i + 1)
  /\ step.do = "exec" => OpenAt(op, i) /\ OpenAt(op, i + 1)
  /\ step.do = "pool" => OpenAt(op, i) = OpenAt(op, i + 1)
  /\ step.do = "pool" /\ OpenAt(op, i) => step.rows = {}

(* Every handler's script has the shape the invariant relies on. *)
LEMMA ScriptFits ==
  ASSUME NEW r \in Requests, call[r] \in [op: Ops, user: Users]
  PROVE  /\ Len(Script(r)) \in Nat
         /\ \A i \in 1..Len(Script(r)) : Fits(call[r].op, i, Script(r)[i])
         /\ \A i \in Nat : i > Len(Script(r)) => ~OpenAt(call[r].op, i)
         /\ ~OpenAt(call[r].op, 1)
<1> USE DEF Script, Fits, OpenAt, Pool, Begin, Exec, Commit
<1>1. CASE call[r].op = "register"
  BY <1>1 DEF RegisterEmail
<1>2. CASE call[r].op = "verify"
  <2>1. Script(r) = RegisterVerify(r) /\ Len(Script(r)) = 6
    BY <1>2 DEF RegisterVerify
  <2>2. \A i \in 1..6 : i = 1 \/ i = 2 \/ i = 3 \/ i = 4 \/ i = 5 \/ i = 6
    OBVIOUS
  <2>3. /\ Script(r)[1] = Pool({}) /\ Script(r)[2] = Begin
        /\ Script(r)[3] = Exec({UserRow(call[r].user)}) /\ Script(r)[4] = Pool({})
        /\ Script(r)[5] = Exec({SessionRow(call[r].user)}) /\ Script(r)[6] = Commit
    BY <1>2 DEF RegisterVerify
  <2> HIDE DEF Script
  <2>4. \A i \in 1..6 : Fits("verify", i, Script(r)[i])
    BY <2>2, <2>3
  <2> QED BY <1>2, <2>1, <2>4
<1>3. CASE call[r].op = "refresh"
  BY <1>3 DEF Refresh
<1>4. CASE call[r].op = "login"
  BY <1>4 DEF Login
<1>5. CASE call[r].op = "logout"
  BY <1>5 DEF Logout
<1>6. CASE call[r].op = "profile"
  BY <1>6 DEF UpdateProfile
<1>7. CASE call[r].op = "password"
  BY <1>7 DEF SavePassword
<1>8. CASE call[r].op = "createBrand"
  BY <1>8 DEF CreateBrand
<1>9. CASE call[r].op = "updateBrand"
  BY <1>9 DEF UpdateBrand
<1>10. CASE call[r].op = "deleteBrand"
  BY <1>10 DEF DeleteBrand
<1>11. CASE call[r].op = "createStore"
  BY <1>11 DEF CreateStore
<1>12. CASE call[r].op = "other"
  BY <1>12 DEF OneByOne
<1> QED BY <1>1, <1>2, <1>3, <1>4, <1>5, <1>6, <1>7, <1>8, <1>9, <1>10, <1>11, <1>12 DEF Ops

(* The rows a handler's transaction has locked when its script is at i. *)
HeldAt(r, i) ==
  CASE call[r].op = "verify" /\ i \in 4..5 -> {UserRow(call[r].user)}
    [] call[r].op = "verify" /\ i = 6 -> {UserRow(call[r].user), SessionRow(call[r].user)}
    [] call[r].op = "refresh" /\ i \in 3..5 -> {SessionRow(call[r].user)}
    [] call[r].op = "updateBrand" /\ i = 4 -> {BrandRow(call[r].user)}
    [] call[r].op = "createStore" /\ i = 4 -> {KeyShare(r)}
    [] OTHER -> {}

(* What a step of the script does to them, and that a statement of a         *)
(* transaction that has rows asks only for the session's row.              *)
Grasps(r, i, step) ==
  /\ step.rows \subseteq Rows
  /\ step.do \in {"pool", "begin"} => HeldAt(r, i + 1) = HeldAt(r, i)
  /\ step.do = "exec" =>
       /\ HeldAt(r, i + 1) = HeldAt(r, i) \cup step.rows
       /\ HeldAt(r, i) # {} => step.rows \subseteq {SessionRow(call[r].user)}
       /\ SessionRow(call[r].user) \in HeldAt(r, i) => step.rows \subseteq HeldAt(r, i)
  /\ step.do = "commit" => HeldAt(r, i + 1) = {}

(* Every handler's script locks rows in that way. *)
LEMMA ScriptGrasps ==
  ASSUME NEW r \in Requests, call[r] \in [op: Ops, user: Users]
  PROVE  /\ \A i \in 1..Len(Script(r)) : Grasps(r, i, Script(r)[i])
         /\ \A i \in Nat : i > Len(Script(r)) => HeldAt(r, i) = {}
         /\ HeldAt(r, 1) = {}
         /\ Len(Script(r)) \in 0..6
<1> DEFINE u == call[r].user
           op == call[r].op
<1>0. /\ UserRow(u) \in Rows /\ SessionRow(u) \in Rows /\ BrandRow(u) \in Rows
      /\ \A q \in Requests : KeyShare(q) \in Rows
      /\ UserRow(u) # SessionRow(u)
  BY DEF UserRow, SessionRow, BrandRow, KeyShare, Rows
<1>p. ASSUME NEW i \in Nat, NEW asked \in SUBSET Rows, HeldAt(r, i + 1) = HeldAt(r, i)
      PROVE  Grasps(r, i, Pool(asked))
  BY <1>p DEF Grasps, Pool
<1>b. ASSUME NEW i \in Nat, HeldAt(r, i + 1) = HeldAt(r, i) PROVE Grasps(r, i, Begin)
  BY <1>b DEF Grasps, Begin
<1>a. ASSUME op \notin {"verify", "refresh", "updateBrand", "createStore"} PROVE \A i : HeldAt(r, i) = {}
  BY <1>a DEF HeldAt
<1>1. CASE op = "register"
  <2>1. Len(Script(r)) = 6 /\ \A i \in 1..6 : i = 1 \/ i = 2 \/ i = 3 \/ i = 4 \/ i = 5 \/ i = 6
    BY <1>1 DEF Script, RegisterEmail
  <2>2. /\ Script(r)[1] = Pool({})
        /\ Script(r)[2] = Begin
        /\ Script(r)[3] = Exec({})
        /\ Script(r)[4] = Pool({})
        /\ Script(r)[5] = Exec({})
        /\ Script(r)[6] = Commit
    BY <1>1 DEF Script, RegisterEmail
  <2>3. \A i : HeldAt(r, i) = {}
    BY <1>1, <1>a
  <2>4. Grasps(r, 1, Script(r)[1])
    BY <1>p, <2>2, <2>3
  <2>5. Grasps(r, 2, Script(r)[2])
    BY <1>b, <2>2, <2>3
  <2>6. Grasps(r, 3, Script(r)[3])
    BY <2>2, <2>3 DEF Grasps, Exec
  <2>7. Grasps(r, 4, Script(r)[4])
    BY <1>p, <2>2, <2>3
  <2>8. Grasps(r, 5, Script(r)[5])
    BY <2>2, <2>3 DEF Grasps, Exec
  <2>9. Grasps(r, 6, Script(r)[6])
    BY <2>2, <2>3 DEF Grasps, Commit
  <2> QED BY <2>1, <2>3, <2>4, <2>5, <2>6, <2>7, <2>8, <2>9
<1>2. CASE op = "verify"
  <2>1. Len(Script(r)) = 6 /\ \A i \in 1..6 : i = 1 \/ i = 2 \/ i = 3 \/ i = 4 \/ i = 5 \/ i = 6
    BY <1>2 DEF Script, RegisterVerify
  <2>2. /\ Script(r)[1] = Pool({})
        /\ Script(r)[2] = Begin
        /\ Script(r)[3] = Exec({UserRow(u)})
        /\ Script(r)[4] = Pool({})
        /\ Script(r)[5] = Exec({SessionRow(u)})
        /\ Script(r)[6] = Commit
    BY <1>2 DEF Script, RegisterVerify
  <2>3. /\ HeldAt(r, 1) = {}
        /\ HeldAt(r, 2) = {}
        /\ HeldAt(r, 3) = {}
        /\ HeldAt(r, 4) = {UserRow(u)}
        /\ HeldAt(r, 5) = {UserRow(u)}
        /\ HeldAt(r, 6) = {UserRow(u), SessionRow(u)}
        /\ HeldAt(r, 7) = {}
        /\ \A i \in Nat : i > 6 => HeldAt(r, i) = {}
    BY <1>2 DEF HeldAt
  <2>4. Grasps(r, 1, Script(r)[1])
    BY <1>p, <2>2, <2>3
  <2>5. Grasps(r, 2, Script(r)[2])
    BY <1>b, <2>2, <2>3
  <2>6. Grasps(r, 3, Script(r)[3])
    BY <1>0, <2>2, <2>3 DEF Grasps, Exec
  <2>7. Grasps(r, 4, Script(r)[4])
    BY <1>p, <2>2, <2>3
  <2>8. Grasps(r, 5, Script(r)[5])
    BY <1>0, <2>2, <2>3 DEF Grasps, Exec
  <2>9. Grasps(r, 6, Script(r)[6])
    BY <2>2, <2>3 DEF Grasps, Commit
  <2> QED BY <2>1, <2>3, <2>4, <2>5, <2>6, <2>7, <2>8, <2>9
<1>3. CASE op = "refresh"
  <2>1. Len(Script(r)) = 5 /\ \A i \in 1..5 : i = 1 \/ i = 2 \/ i = 3 \/ i = 4 \/ i = 5
    BY <1>3 DEF Script, Refresh
  <2>2. /\ Script(r)[1] = Begin
        /\ Script(r)[2] = Exec({SessionRow(u)})
        /\ Script(r)[3] = Pool({})
        /\ Script(r)[4] = Exec({SessionRow(u)})
        /\ Script(r)[5] = Commit
    BY <1>3 DEF Script, Refresh
  <2>3. /\ HeldAt(r, 1) = {}
        /\ HeldAt(r, 2) = {}
        /\ HeldAt(r, 3) = {SessionRow(u)}
        /\ HeldAt(r, 4) = {SessionRow(u)}
        /\ HeldAt(r, 5) = {SessionRow(u)}
        /\ HeldAt(r, 6) = {}
        /\ \A i \in Nat : i > 5 => HeldAt(r, i) = {}
    BY <1>3 DEF HeldAt
  <2>4. Grasps(r, 1, Script(r)[1])
    BY <1>b, <2>2, <2>3
  <2>5. Grasps(r, 2, Script(r)[2])
    BY <1>0, <2>2, <2>3 DEF Grasps, Exec
  <2>6. Grasps(r, 3, Script(r)[3])
    BY <1>p, <2>2, <2>3
  <2>7. Grasps(r, 4, Script(r)[4])
    BY <1>0, <2>2, <2>3 DEF Grasps, Exec
  <2>8. Grasps(r, 5, Script(r)[5])
    BY <2>2, <2>3 DEF Grasps, Commit
  <2> QED BY <2>1, <2>3, <2>4, <2>5, <2>6, <2>7, <2>8
<1>4. CASE op = "login"
  <2>1. Len(Script(r)) = 2 /\ \A i \in 1..2 : i = 1 \/ i = 2
    BY <1>4 DEF Script, Login
  <2>2. /\ Script(r)[1] = Pool({})
        /\ Script(r)[2] = Pool({SessionRow(u)})
    BY <1>4 DEF Script, Login
  <2>3. \A i : HeldAt(r, i) = {}
    BY <1>4, <1>a
  <2>4. Grasps(r, 1, Script(r)[1])
    BY <1>p, <2>2, <2>3
  <2>5. Grasps(r, 2, Script(r)[2])
    BY <1>0, <1>p, <2>2, <2>3
  <2> QED BY <2>1, <2>3, <2>4, <2>5
<1>5. CASE op = "logout"
  <2>1. Len(Script(r)) = 1 /\ \A i \in 1..1 : i = 1
    BY <1>5 DEF Script, Logout
  <2>2. /\ Script(r)[1] = Pool({SessionRow(u)})
    BY <1>5 DEF Script, Logout
  <2>3. \A i : HeldAt(r, i) = {}
    BY <1>5, <1>a
  <2>4. Grasps(r, 1, Script(r)[1])
    BY <1>0, <1>p, <2>2, <2>3
  <2> QED BY <2>1, <2>3, <2>4
<1>6. CASE op = "profile"
  <2>1. Len(Script(r)) = 3 /\ \A i \in 1..3 : i = 1 \/ i = 2 \/ i = 3
    BY <1>6 DEF Script, UpdateProfile
  <2>2. /\ Script(r)[1] = Pool({})
        /\ Script(r)[2] = Pool({UserRow(u)})
        /\ Script(r)[3] = Pool({})
    BY <1>6 DEF Script, UpdateProfile
  <2>3. \A i : HeldAt(r, i) = {}
    BY <1>6, <1>a
  <2>4. Grasps(r, 1, Script(r)[1])
    BY <1>p, <2>2, <2>3
  <2>5. Grasps(r, 2, Script(r)[2])
    BY <1>0, <1>p, <2>2, <2>3
  <2>6. Grasps(r, 3, Script(r)[3])
    BY <1>p, <2>2, <2>3
  <2> QED BY <2>1, <2>3, <2>4, <2>5, <2>6
<1>7. CASE op = "password"
  <2>1. Len(Script(r)) = 2 /\ \A i \in 1..2 : i = 1 \/ i = 2
    BY <1>7 DEF Script, SavePassword
  <2>2. /\ Script(r)[1] = Pool({})
        /\ Script(r)[2] = Pool({UserRow(u)})
    BY <1>7 DEF Script, SavePassword
  <2>3. \A i : HeldAt(r, i) = {}
    BY <1>7, <1>a
  <2>4. Grasps(r, 1, Script(r)[1])
    BY <1>p, <2>2, <2>3
  <2>5. Grasps(r, 2, Script(r)[2])
    BY <1>0, <1>p, <2>2, <2>3
  <2> QED BY <2>1, <2>3, <2>4, <2>5
<1>8. CASE op = "createBrand"
  <2>1. Len(Script(r)) = 5 /\ \A i \in 1..5 : i = 1 \/ i = 2 \/ i = 3 \/ i = 4 \/ i = 5
    BY <1>8 DEF Script, CreateBrand
  <2>2. /\ Script(r)[1] = Pool({})
        /\ Script(r)[2] = Begin
        /\ Script(r)[3] = Exec({})
        /\ Script(r)[4] = Commit
        /\ Script(r)[5] = Pool({})
    BY <1>8 DEF Script, CreateBrand
  <2>3. \A i : HeldAt(r, i) = {}
    BY <1>8, <1>a
  <2>4. Grasps(r, 1, Script(r)[1])
    BY <1>p, <2>2, <2>3
  <2>5. Grasps(r, 2, Script(r)[2])
    BY <1>b, <2>2, <2>3
  <2>6. Grasps(r, 3, Script(r)[3])
    BY <2>2, <2>3 DEF Grasps, Exec
  <2>7. Grasps(r, 4, Script(r)[4])
    BY <2>2, <2>3 DEF Grasps, Commit
  <2>8. Grasps(r, 5, Script(r)[5])
    BY <1>p, <2>2, <2>3
  <2> QED BY <2>1, <2>3, <2>4, <2>5, <2>6, <2>7, <2>8
<1>9. CASE op = "updateBrand"
  <2>1. Len(Script(r)) = 5 /\ \A i \in 1..5 : i = 1 \/ i = 2 \/ i = 3 \/ i = 4 \/ i = 5
    BY <1>9 DEF Script, UpdateBrand
  <2>2. /\ Script(r)[1] = Pool({})
        /\ Script(r)[2] = Begin
        /\ Script(r)[3] = Exec({BrandRow(u)})
        /\ Script(r)[4] = Commit
        /\ Script(r)[5] = Pool({})
    BY <1>9 DEF Script, UpdateBrand
  <2>3. /\ HeldAt(r, 1) = {}
        /\ HeldAt(r, 2) = {}
        /\ HeldAt(r, 3) = {}
        /\ HeldAt(r, 4) = {BrandRow(u)}
        /\ HeldAt(r, 5) = {}
        /\ HeldAt(r, 6) = {}
        /\ \A i \in Nat : i > 5 => HeldAt(r, i) = {}
    BY <1>9 DEF HeldAt
  <2>4. Grasps(r, 1, Script(r)[1])
    BY <1>p, <2>2, <2>3
  <2>5. Grasps(r, 2, Script(r)[2])
    BY <1>b, <2>2, <2>3
  <2>6. Grasps(r, 3, Script(r)[3])
    BY <1>0, <2>2, <2>3 DEF Grasps, Exec
  <2>7. Grasps(r, 4, Script(r)[4])
    BY <2>2, <2>3 DEF Grasps, Commit
  <2>8. Grasps(r, 5, Script(r)[5])
    BY <1>p, <2>2, <2>3
  <2> QED BY <2>1, <2>3, <2>4, <2>5, <2>6, <2>7, <2>8
<1>10. CASE op = "deleteBrand"
  <2>1. Len(Script(r)) = 2 /\ \A i \in 1..2 : i = 1 \/ i = 2
    BY <1>10 DEF Script, DeleteBrand
  <2>2. /\ Script(r)[1] = Pool({})
        /\ Script(r)[2] = Pool({BrandRow(u)} \cup {KeyShare(q) : q \in Requests})
    BY <1>10 DEF Script, DeleteBrand
  <2>3. \A i : HeldAt(r, i) = {}
    BY <1>10, <1>a
  <2>4. Grasps(r, 1, Script(r)[1])
    BY <1>p, <2>2, <2>3
  <2>5. Grasps(r, 2, Script(r)[2])
    BY <1>0, <1>p, <2>2, <2>3
  <2> QED BY <2>1, <2>3, <2>4, <2>5
<1>11. CASE op = "createStore"
  <2>1. Len(Script(r)) = 5 /\ \A i \in 1..5 : i = 1 \/ i = 2 \/ i = 3 \/ i = 4 \/ i = 5
    BY <1>11 DEF Script, CreateStore
  <2>2. /\ Script(r)[1] = Pool({})
        /\ Script(r)[2] = Begin
        /\ Script(r)[3] = Exec({KeyShare(r)})
        /\ Script(r)[4] = Commit
        /\ Script(r)[5] = Pool({})
    BY <1>11 DEF Script, CreateStore
  <2>3. /\ HeldAt(r, 1) = {}
        /\ HeldAt(r, 2) = {}
        /\ HeldAt(r, 3) = {}
        /\ HeldAt(r, 4) = {KeyShare(r)}
        /\ HeldAt(r, 5) = {}
        /\ HeldAt(r, 6) = {}
        /\ \A i \in Nat : i > 5 => HeldAt(r, i) = {}
    BY <1>11 DEF HeldAt
  <2>4. Grasps(r, 1, Script(r)[1])
    BY <1>p, <2>2, <2>3
  <2>5. Grasps(r, 2, Script(r)[2])
    BY <1>b, <2>2, <2>3
  <2>6. Grasps(r, 3, Script(r)[3])
    BY <1>0, <2>2, <2>3 DEF Grasps, Exec
  <2>7. Grasps(r, 4, Script(r)[4])
    BY <2>2, <2>3 DEF Grasps, Commit
  <2>8. Grasps(r, 5, Script(r)[5])
    BY <1>p, <2>2, <2>3
  <2> QED BY <2>1, <2>3, <2>4, <2>5, <2>6, <2>7, <2>8
<1>12. CASE op = "other"
  <2>1. Len(Script(r)) = 1 /\ \A i \in 1..1 : i = 1
    BY <1>12 DEF Script, OneByOne
  <2>2. /\ Script(r)[1] = Pool({})
    BY <1>12 DEF Script, OneByOne
  <2>3. \A i : HeldAt(r, i) = {}
    BY <1>12, <1>a
  <2>4. Grasps(r, 1, Script(r)[1])
    BY <1>p, <2>2, <2>3
  <2> QED BY <2>1, <2>3, <2>4
<1> QED BY <1>1, <1>2, <1>3, <1>4, <1>5, <1>6, <1>7, <1>8, <1>9, <1>10, <1>11, <1>12 DEF Ops

-------------------------------------------------------------------------------
(* Inductive: a request has a transaction's connection exactly between its  *)
(* BEGIN and its COMMIT, and a second one only while a pool query runs.     *)
Placed(r) == /\ tx[r] # None <=> OpenAt(call[r].op, pc[r])
             /\ extra[r] # None => ~Done(r) /\ Now(r).do = "pool"

Apart == \A q, r \in Requests : q # r =>
           ({tx[q], extra[q]} \cap {tx[r], extra[r]}) \subseteq {None}

LocksInTx == \A row \in Rows : lock[row] # None => tx[lock[row]] # None

Inv == /\ TypeOK
       /\ \A r \in Requests : Placed(r)
       /\ Apart
       /\ LocksInTx

(* A request's script is fixed by its call. *)
LEMMA ScriptSame == ASSUME UNCHANGED call, NEW r \in Requests PROVE Script(r)' = Script(r)
BY DEF Script, RegisterEmail, RegisterVerify, Refresh, Login, Logout, UpdateProfile, SavePassword,
       CreateBrand, UpdateBrand, DeleteBrand, CreateStore, OneByOne

(* All connections are idle at the start. *)
LEMMA InvInit == ASSUME Init PROVE Inv
<1>1. TypeOK
  BY ScriptFits DEF Init, TypeOK
<1>2. \A r \in Requests : Placed(r)
  BY ScriptFits DEF Init, Placed
<1> QED BY <1>1, <1>2 DEF Inv, Apart, LocksInTx, Init

(* What the script says of the step request r is about to take. *)
LEMMA NowFits ==
  ASSUME TypeOK, NEW r \in Requests, ~Done(r)
  PROVE  Fits(call[r].op, pc[r], Now(r)) /\ pc[r] + 1 \in 1..(Len(Script(r)) + 1)
<1>1. call[r] \in [op: Ops, user: Users] /\ pc[r] \in Nat /\ pc[r] \in 1..(Len(Script(r)) + 1)
  BY DEF TypeOK
<1>2. Len(Script(r)) \in Nat /\ \A i \in 1..Len(Script(r)) : Fits(call[r].op, i, Script(r)[i])
  BY <1>1, ScriptFits
<1>3. pc[r] \in 1..Len(Script(r))
  BY <1>1, <1>2 DEF Done
<1> QED BY <1>1, <1>2, <1>3 DEF Now

(* The pool lends out a connection that is idle. *)
LEMMA LendIdle == Idle # {} => Lend \in Idle
BY DEF Lend

(* Moving on leaves a request at a position of its script. *)
LEMMA ForwardType ==
  ASSUME TypeOK, NEW r \in Requests, ~Done(r), Forward(r), UNCHANGED call,
         tx' \in [Requests -> Conns \cup {None}], extra' \in [Requests -> Conns \cup {None}],
         lock' \in [Rows -> Requests \cup {None}]
  PROVE  TypeOK' /\ pc'[r] = pc[r] + 1 /\ \A q \in Requests \ {r} : pc'[q] = pc[q]
<1>1. pc' \in [Requests -> Nat] /\ pc'[r] = pc[r] + 1 /\ \A q \in Requests \ {r} : pc'[q] = pc[q]
  BY DEF Forward, TypeOK
<1>2. \A q \in Requests : Script(q)' = Script(q)
  BY ScriptSame
<1>3. pc[r] + 1 \in 1..(Len(Script(r)) + 1)
  BY NowFits
<1> QED BY <1>1, <1>2, <1>3 DEF TypeOK

(* A request that stays where it is, with the connections it has. *)
LEMMA StayPlaced ==
  ASSUME NEW q \in Requests, Placed(q), UNCHANGED <<call, pc[q], tx[q], extra[q]>>
  PROVE  Placed(q)'
BY ScriptSame DEF Placed, Done, Now

(* The invariant is inductive: one step of the proof per action. *)
LEMMA InvStep == ASSUME Inv, [Next]_vars PROVE Inv'
<1> USE DEF Inv
<1>1. ASSUME NEW r \in Requests, Acquire(r) PROVE Inv'
  <2>1. /\ Lend \in Idle /\ extra' = [extra EXCEPT ![r] = Lend]
        /\ UNCHANGED <<call, pc, tx, lock>>
        /\ ~Done(r) /\ Now(r).do = "pool"
    BY <1>1, LendIdle DEF Acquire
  <2>2. Lend \in Conns /\ Lend # None /\ \A q \in Requests : Lend # tx[q] /\ Lend # extra[q]
    BY <2>1, PoolAssumption DEF Idle
  <2>3. TypeOK'
    BY <2>1, <2>2, ScriptSame DEF TypeOK
  <2>4. Placed(r)'
    BY <2>1, ScriptSame DEF Placed, Done, Now
  <2>5. \A q \in Requests \ {r} : Placed(q)'
    BY <2>1, StayPlaced DEF TypeOK
  <2>6. Apart' /\ LocksInTx'
    BY <2>1, <2>2 DEF Apart, LocksInTx, TypeOK
  <2> QED BY <2>3, <2>4, <2>5, <2>6
<1>2. ASSUME NEW r \in Requests, Query(r) PROVE Inv'
  <2>1. /\ extra' = [extra EXCEPT ![r] = None] /\ UNCHANGED <<call, tx, lock>>
        /\ ~Done(r) /\ Now(r).do = "pool" /\ Forward(r)
    BY <1>2 DEF Query, Release
  <2>2. TypeOK' /\ pc'[r] = pc[r] + 1 /\ \A q \in Requests \ {r} : pc'[q] = pc[q]
    BY <2>1, ForwardType DEF TypeOK
  <2>3. Placed(r)'
    BY <2>1, <2>2, NowFits DEF Placed, Fits, TypeOK
  <2>4. \A q \in Requests \ {r} : Placed(q)'
    BY <2>1, <2>2, StayPlaced DEF TypeOK
  <2>5. Apart' /\ LocksInTx'
    BY <2>1 DEF Apart, LocksInTx, TypeOK
  <2> QED BY <2>2, <2>3, <2>4, <2>5
<1>3. ASSUME NEW r \in Requests, BeginTx(r) PROVE Inv'
  <2>1. /\ Lend \in Idle /\ tx' = [tx EXCEPT ![r] = Lend] /\ UNCHANGED <<call, extra, lock>>
        /\ ~Done(r) /\ Now(r).do = "begin" /\ Forward(r)
    BY <1>3, LendIdle DEF BeginTx
  <2>2. Lend \in Conns /\ Lend # None /\ \A q \in Requests : Lend # tx[q] /\ Lend # extra[q]
    BY <2>1, PoolAssumption DEF Idle
  <2>3. TypeOK' /\ pc'[r] = pc[r] + 1 /\ \A q \in Requests \ {r} : pc'[q] = pc[q]
    BY <2>1, <2>2, ForwardType DEF TypeOK
  <2>4. Placed(r)'
    BY <2>1, <2>2, <2>3, NowFits DEF Placed, Fits, TypeOK
  <2>5. \A q \in Requests \ {r} : Placed(q)'
    BY <2>1, <2>3, StayPlaced DEF TypeOK
  <2>6. Apart' /\ LocksInTx'
    BY <2>1, <2>2 DEF Apart, LocksInTx, TypeOK
  <2> QED BY <2>3, <2>4, <2>5, <2>6
<1>4. ASSUME NEW r \in Requests, ExecInTx(r) PROVE Inv'
  <2>1. /\ lock' = [row \in Rows |-> IF row \in Now(r).rows THEN r ELSE lock[row]]
        /\ UNCHANGED <<call, tx, extra>>
        /\ ~Done(r) /\ Now(r).do = "exec" /\ Forward(r)
    BY <1>4 DEF ExecInTx
  <2>2. OpenAt(call[r].op, pc[r]) /\ OpenAt(call[r].op, pc[r] + 1)
    BY <2>1, NowFits DEF Fits
  <2>3. TypeOK' /\ pc'[r] = pc[r] + 1 /\ \A q \in Requests \ {r} : pc'[q] = pc[q]
    BY <2>1, <2>2, ForwardType DEF TypeOK
  <2>4. tx[r] # None /\ extra[r] = None
    BY <2>1, <2>2 DEF Placed
  <2>5. Placed(r)'
    BY <2>1, <2>2, <2>3, <2>4 DEF Placed
  <2>6. \A q \in Requests \ {r} : Placed(q)'
    BY <2>1, <2>3, StayPlaced DEF TypeOK
  <2>7. Apart' /\ LocksInTx'
    BY <2>1, <2>2, <2>4 DEF Apart, LocksInTx, TypeOK
  <2> QED BY <2>3, <2>5, <2>6, <2>7
<1>5. ASSUME NEW r \in Requests, CommitTx(r) PROVE Inv'
  <2>1. /\ tx' = [tx EXCEPT ![r] = None] /\ lock' = Unlocked(r) /\ UNCHANGED <<call, extra>>
        /\ ~Done(r) /\ Now(r).do = "commit" /\ Forward(r)
    BY <1>5 DEF CommitTx
  <2>2. TypeOK' /\ pc'[r] = pc[r] + 1 /\ \A q \in Requests \ {r} : pc'[q] = pc[q]
    BY <2>1, ForwardType DEF TypeOK, Unlocked
  <2>3. ~OpenAt(call[r].op, pc[r] + 1) /\ extra[r] = None
    BY <2>1, NowFits DEF Fits, Placed
  <2>4. Placed(r)'
    BY <2>1, <2>2, <2>3 DEF Placed, TypeOK
  <2>5. \A q \in Requests \ {r} : Placed(q)'
    BY <2>1, <2>2, StayPlaced DEF TypeOK
  <2>6. Apart' /\ LocksInTx'
    BY <2>1, PoolAssumption DEF Apart, LocksInTx, TypeOK, Unlocked
  <2> QED BY <2>2, <2>4, <2>5, <2>6
<1>6. ASSUME NEW r \in Requests, Fail(r) PROVE Inv'
  <2>1. /\ pc' = [pc EXCEPT ![r] = Len(Script(r)) + 1] /\ tx' = [tx EXCEPT ![r] = None]
        /\ extra' = [extra EXCEPT ![r] = None] /\ lock' = Unlocked(r) /\ UNCHANGED call
    BY <1>6 DEF Fail, Release
  <2>2. Len(Script(r)) \in Nat /\ ~OpenAt(call[r].op, Len(Script(r)) + 1)
    BY ScriptFits DEF TypeOK
  <2>3. TypeOK'
    BY <2>1, <2>2, ScriptSame DEF TypeOK, Unlocked
  <2>4. Placed(r)'
    BY <2>1, <2>2 DEF Placed, TypeOK
  <2>5. \A q \in Requests \ {r} : Placed(q)'
    BY <2>1, StayPlaced DEF TypeOK
  <2>6. Apart' /\ LocksInTx'
    BY <2>1, PoolAssumption DEF Apart, LocksInTx, TypeOK, Unlocked
  <2> QED BY <2>3, <2>4, <2>5, <2>6
<1>7. CASE UNCHANGED vars
  <2>1. TypeOK'
    BY <1>7, ScriptSame DEF vars, TypeOK
  <2>2. \A q \in Requests : Placed(q)'
    BY <1>7, StayPlaced DEF vars
  <2> QED BY <1>7, <2>1, <2>2 DEF vars, Apart, LocksInTx
<1> QED BY <1>1, <1>2, <1>3, <1>4, <1>5, <1>6, <1>7 DEF Next, Step

(* A request has locked exactly the rows its script has asked for. *)
Held == \A r \in Requests, row \in Rows : lock[row] = r <=> row \in HeldAt(r, pc[r])

(* The rows of a script do not change with the state. *)
LEMMA HeldSame == ASSUME UNCHANGED call, NEW r, NEW i PROVE HeldAt(r, i)' = HeldAt(r, i)
BY DEF HeldAt

(* At the start nobody is in a script far enough to have locked a row. *)
LEMMA HeldInit == ASSUME Init PROVE Held
<1>1. \A r \in Requests : pc[r] = 1 /\ call[r] \in [op: Ops, user: Users]
  BY DEF Init
<1>2. \A r \in Requests : HeldAt(r, 1) = {}
  BY <1>1, ScriptGrasps
<1>3. \A row \in Rows : lock[row] = None
  BY DEF Init
<1> QED BY <1>1, <1>2, <1>3, PoolAssumption DEF Held

(* What the step request r is about to take does to its rows. *)
LEMMA NowGrasps ==
  ASSUME TypeOK, NEW r \in Requests, ~Done(r)
  PROVE  Grasps(r, pc[r], Now(r))
<1>1. call[r] \in [op: Ops, user: Users] /\ pc[r] \in Nat /\ pc[r] \in 1..(Len(Script(r)) + 1)
  BY DEF TypeOK
<1>2. Len(Script(r)) \in Nat
  BY <1>1, ScriptFits
<1>3. pc[r] \in 1..Len(Script(r))
  BY <1>1, <1>2 DEF Done
<1> QED BY <1>1, <1>3, ScriptGrasps DEF Now

(* A request that stays where it is keeps its rows if nobody takes them. *)
LEMMA StayHeld ==
  ASSUME Held, UNCHANGED call, NEW q \in Requests, pc'[q] = pc[q],
         \A row \in Rows : lock'[row] = q <=> lock[row] = q
  PROVE  \A row \in Rows : lock'[row] = q <=> row \in HeldAt(q, pc[q])'
<1>1. HeldAt(q, pc[q])' = HeldAt(q, pc[q])
  BY DEF HeldAt
<1> QED BY <1>1 DEF Held

(* Locks are taken and given back as the scripts say. *)
LEMMA HeldStep == ASSUME Inv, Held, [Next]_vars PROVE Held'
<1> USE DEF Inv
<1> DEFINE HeldBy(q) == \A row \in Rows : lock'[row] = q <=> row \in HeldAt(q, pc[q])'
<1>1. ASSUME NEW r \in Requests, Acquire(r) \/ Query(r) \/ BeginTx(r) PROVE Held'
  <2>1. UNCHANGED <<call, lock>> /\ ~Done(r) /\ pc' \in {pc, [pc EXCEPT ![r] = @ + 1]}
        /\ (pc' = pc \/ Now(r).do \in {"pool", "begin"})
    BY <1>1 DEF Acquire, Query, BeginTx, Forward
  <2>2. \A q \in Requests \ {r} : HeldBy(q)
    BY <2>1, StayHeld DEF TypeOK
  <2>3. HeldBy(r)
    <3>1. pc'[r] = pc[r] \/ (pc'[r] = pc[r] + 1 /\ Now(r).do \in {"pool", "begin"})
      BY <2>1 DEF TypeOK
    <3>2. HeldAt(r, pc'[r]) = HeldAt(r, pc[r])
      BY <2>1, <3>1, NowGrasps DEF Grasps
    <3>3. HeldAt(r, pc[r])' = HeldAt(r, pc'[r])
      BY <2>1 DEF HeldAt
    <3> QED BY <2>1, <3>2, <3>3 DEF Held
  <2> QED BY <2>2, <2>3 DEF Held
<1>2. ASSUME NEW r \in Requests, ExecInTx(r) PROVE Held'
  <2>1. /\ UNCHANGED call /\ ~Done(r) /\ Now(r).do = "exec" /\ pc' = [pc EXCEPT ![r] = @ + 1]
        /\ lock' = [row \in Rows |-> IF row \in Now(r).rows THEN r ELSE lock[row]]
        /\ \A row \in Now(r).rows : lock[row] \in {None, r}
    BY <1>2 DEF ExecInTx, Forward, RowsFree
  <2>2. \A q \in Requests \ {r} : HeldBy(q)
    <3>1. ASSUME NEW q \in Requests \ {r}
          PROVE  pc'[q] = pc[q] /\ \A row \in Rows : lock'[row] = q <=> lock[row] = q
      BY <2>1, PoolAssumption DEF TypeOK
    <3> QED BY <2>1, <3>1, StayHeld
  <2>3. HeldBy(r)
    <3>1. pc'[r] = pc[r] + 1
      BY <2>1 DEF TypeOK
    <3>2. HeldAt(r, pc[r] + 1) = HeldAt(r, pc[r]) \cup Now(r).rows
      BY <2>1, NowGrasps DEF Grasps
    <3>3. HeldAt(r, pc[r])' = HeldAt(r, pc[r] + 1)
      BY <2>1, <3>1 DEF HeldAt
    <3>4. \A row \in Rows : lock'[row] = r <=> row \in Now(r).rows \/ lock[row] = r
      BY <2>1
    <3> QED BY <3>2, <3>3, <3>4 DEF Held
  <2> QED BY <2>2, <2>3 DEF Held
<1>3. ASSUME NEW r \in Requests, CommitTx(r) \/ Fail(r) PROVE Held'
  <2>1. /\ UNCHANGED call /\ ~Done(r) /\ lock' = Unlocked(r)
        /\ \/ Now(r).do = "commit" /\ pc' = [pc EXCEPT ![r] = @ + 1]
           \/ pc' = [pc EXCEPT ![r] = Len(Script(r)) + 1]
    BY <1>3 DEF CommitTx, Fail, Forward
  <2>2. \A q \in Requests \ {r} : HeldBy(q)
    <3>1. ASSUME NEW q \in Requests \ {r}
          PROVE  pc'[q] = pc[q] /\ \A row \in Rows : lock'[row] = q <=> lock[row] = q
      BY <2>1, PoolAssumption DEF TypeOK, Unlocked
    <3> QED BY <2>1, <3>1, StayHeld
  <2>3. HeldBy(r)
    <3>1. HeldAt(r, Len(Script(r)) + 1) = {}
      <4>1. Len(Script(r)) \in 0..6 /\ \A i \in Nat : i > Len(Script(r)) => HeldAt(r, i) = {}
        BY ScriptGrasps DEF TypeOK
      <4> QED BY <4>1
    <3>2. HeldAt(r, pc'[r]) = {}
      BY <2>1, <3>1, NowGrasps DEF Grasps, TypeOK
    <3>3. HeldAt(r, pc[r])' = HeldAt(r, pc'[r])
      BY <2>1 DEF HeldAt
    <3>4. \A row \in Rows : lock'[row] # r
      BY <2>1, PoolAssumption DEF Unlocked
    <3> QED BY <3>2, <3>3, <3>4
  <2> QED BY <2>2, <2>3 DEF Held
<1>4. CASE UNCHANGED vars
  BY <1>4, StayHeld DEF vars, Held, HeldAt
<1> QED BY <1>1, <1>2, <1>3, <1>4 DEF Next, Step

-------------------------------------------------------------------------------
(* Connections are placed and rows locked as the scripts say in every reachable state of the pool. *)
THEOREM Invariance == Spec => [](Inv /\ Held)
<1>1. Init => Inv /\ Held
  BY InvInit, HeldInit
<1>2. Inv /\ Held /\ [Next]_vars => Inv' /\ Held'
  BY InvStep, HeldStep
<1> QED BY <1>1, <1>2, PTL DEF Spec

(* Every connection and row lock is one of the pool's, and every request at *)
(* a statement of its script.                                              *)
THEOREM Types == Spec => []TypeOK
<1>1. Inv => TypeOK
  BY DEF Inv
<1> QED BY <1>1, Invariance, PTL

(* A connection serves one request, and an ended request has given back its *)
(* connections and its row locks.                                          *)
THEOREM NoLeak == Spec => []NothingLeaks
<1>1. ASSUME Inv PROVE NothingLeaks
  <2>1. ASSUME NEW r \in Requests, Done(r) PROVE tx[r] = None /\ extra[r] = None
    BY <1>1, <2>1, ScriptFits DEF Inv, Placed, TypeOK, Done
  <2> QED BY <1>1, <2>1 DEF Inv, Apart, LocksInTx, NothingLeaks
<1> QED BY <1>1, Invariance, PTL

(* An exhausted pool with fewer contenders than connections: either a        *)
(* connection belongs to a SELECT that needs no row, or some contender has  *)
(* two of them (the pigeonhole principle), and then its second one runs a   *)
(* SELECT inside its transaction, which waits for nobody.                   *)
LEMMA ExhaustedReady ==
  ASSUME Inv, Idle = {}, Cardinality(Contenders) < Cardinality(Conns)
  PROVE  \E r \in Requests : Ready(r)
<1> USE DEF Inv
<1>0. \A r \in Requests : tx[r] # None \/ extra[r] # None => ~Done(r)
  BY ScriptFits DEF Placed, TypeOK, Done
<1>1. ASSUME NEW r \in Requests, extra[r] # None, Now(r).rows = {} PROVE Ready(r)
  BY <1>0, <1>1 DEF Ready, RowsFree, Placed
<1>2. CASE \A r \in Requests : extra[r] # None => Now(r).rows # {}
  <2> DEFINE holder == [c \in Conns |-> CHOOSE r \in Requests : c \in {tx[r], extra[r]}]
  <2>1. \A c \in Conns : holder[c] \in Requests /\ c \in {tx[holder[c]], extra[holder[c]]}
    BY DEF Idle
  <2>2. holder \in [Conns -> Contenders]
    <3>1. ASSUME NEW r \in Requests, NEW c \in Conns, c \in {tx[r], extra[r]} PROVE r \in Contenders
      <4>1. tx[r] # None \/ extra[r] # None
        BY <3>1, PoolAssumption
      <4> QED BY <1>0, <1>2, <4>1 DEF Contenders
    <3>2. \A c \in Conns : holder[c] \in Contenders
      BY <2>1, <3>1
    <3> QED BY <3>2
  <2> HIDE DEF holder
  <2>3. IsFiniteSet(Contenders)
    BY PoolAssumption, FS_Subset DEF Contenders
  <2>4. \E c, d \in Conns : c # d /\ holder[c] = holder[d]
    BY <2>2, <2>3, PoolAssumption, FS_PigeonHole
  <2>5. PICK c \in Conns, d \in Conns : c # d /\ holder[c] = holder[d]
    BY <2>4
  <2> DEFINE r == holder[c]
  <2>6. r \in Requests /\ tx[r] # None /\ extra[r] # None
    BY <2>1, <2>5, PoolAssumption
  <2> HIDE DEF r
  <2>7. Now(r).rows = {}
    BY <1>0, <2>6, NowFits DEF Placed, Fits
  <2> QED BY <1>1, <2>6, <2>7
<1> QED BY <1>1, <1>2

(* With a connection to lend, a request only waits for rows. *)
LEMMA WaitsForRows ==
  ASSUME Inv, Idle # {}, NEW r \in Requests, ~Done(r), ~Ready(r)
  PROVE  ~RowsFree(r)
BY NowFits DEF Ready, Fits, Inv

(* With a connection of its own it does too, unless it wants a second one. *)
LEMMA OwnerWaitsForRows ==
  ASSUME Inv, NEW r \in Requests, tx[r] # None \/ extra[r] # None, ~Ready(r), ~Starved(r)
  PROVE  /\ ~Done(r) /\ ~RowsFree(r)
         /\ tx[r] # None => Now(r).do = "exec"
<1> USE DEF Inv
<1>1. ~Done(r)
  BY ScriptFits DEF Placed, TypeOK, Done
<1>2. CASE extra[r] # None
  <2>1. Now(r).do = "pool" /\ ~RowsFree(r)
    BY <1>1, <1>2 DEF Placed, Ready
  <2>2. tx[r] = None
    BY <1>1, <2>1, NowFits DEF Fits, Placed, RowsFree
  <2> QED BY <1>1, <2>1, <2>2
<1>3. CASE extra[r] = None
  <2>1. tx[r] # None /\ OpenAt(call[r].op, pc[r])
    BY <1>3 DEF Placed
  <2>2. Now(r).do \notin {"pool", "begin", "commit"}
    BY <1>1, <1>3, <2>1, NowFits DEF Fits, Starved, Ready
  <2>3. Now(r).do = "exec"
    BY <1>1, <2>2, NowFits DEF Fits
  <2> QED BY <1>1, <2>3 DEF Ready
<1> QED BY <1>2, <1>3

(* Who holds a session's row waits for no row, who holds a user's row only   *)
(* for a session's, and who holds any other for none: there is no cycle.    *)
LEMMA HolderReady ==
  ASSUME Inv, Held, \A p \in Requests : ~Starved(p), NEW q \in Requests, HeldAt(q, pc[q]) # {}
  PROVE  \E p \in Requests : Ready(p)
<1> USE DEF Inv
<1> SUFFICES ASSUME \A p \in Requests : ~Ready(p) PROVE FALSE
  OBVIOUS
<1>1. ASSUME NEW p \in Requests, HeldAt(p, pc[p]) # {}
      PROVE  /\ ~Done(p) /\ Now(p).do = "exec" /\ ~RowsFree(p)
             /\ Now(p).rows \subseteq {SessionRow(call[p].user)}
             /\ SessionRow(call[p].user) \notin HeldAt(p, pc[p])
             /\ SessionRow(call[p].user) \in Rows
  <2>1. PICK x \in Rows : x \in HeldAt(p, pc[p])
    <3>1. call[p].user \in Users
      BY DEF TypeOK
    <3> QED BY <1>1, <3>1 DEF HeldAt, Rows, UserRow, SessionRow, BrandRow, KeyShare
  <2>2. tx[p] # None
    BY <2>1, PoolAssumption DEF Held, LocksInTx
  <2>3. ~Done(p) /\ ~RowsFree(p) /\ Now(p).do = "exec"
    BY <2>2, OwnerWaitsForRows
  <2>4. Now(p).rows \subseteq {SessionRow(call[p].user)}
    BY <1>1, <2>3, NowGrasps DEF Grasps
  <2>5. SessionRow(call[p].user) \notin HeldAt(p, pc[p])
    <3> SUFFICES ASSUME SessionRow(call[p].user) \in HeldAt(p, pc[p]) PROVE FALSE
      OBVIOUS
    <3>1. Now(p).rows \subseteq HeldAt(p, pc[p]) /\ Now(p).rows \subseteq Rows
      BY <2>3, NowGrasps DEF Grasps
    <3>2. \A row \in Now(p).rows : lock[row] = p
      BY <3>1 DEF Held
    <3> QED BY <2>3, <3>2 DEF RowsFree
  <2>6. SessionRow(call[p].user) \in Rows
    BY DEF TypeOK, Rows, SessionRow
  <2> QED BY <2>3, <2>4, <2>5, <2>6
<1>2. lock[SessionRow(call[q].user)] \notin {None, q}
  BY <1>1 DEF RowsFree
<1>3. PICK p \in Requests : lock[SessionRow(call[q].user)] = p
  BY <1>1, <1>2 DEF TypeOK
<1>4. SessionRow(call[q].user) \in HeldAt(p, pc[p])
  BY <1>1, <1>3 DEF Held
<1>5. SessionRow(call[q].user) = SessionRow(call[p].user)
  BY <1>4 DEF HeldAt, UserRow, SessionRow, BrandRow, KeyShare
<1> QED BY <1>1, <1>4, <1>5

(* Either a connection is left for who waits, or some request owns one: so  *)
(* unless somebody wants a second connection, whoever waits waits for a row, *)
(* and for one whose transaction can go on.                                *)
LEMMA SomebodyStarves ==
  ASSUME Inv, Held, NEW r \in Requests, ~Done(r), \A p \in Requests : ~Ready(p)
  PROVE  \E p \in Requests : Starved(p)
<1> USE DEF Inv
<1> SUFFICES ASSUME \A p \in Requests : ~Starved(p) PROVE FALSE
  OBVIOUS
<1>1. \E w \in Requests : ~Done(w) /\ ~RowsFree(w)
  <2>1. CASE Idle # {}
    BY <2>1, WaitsForRows
  <2>2. CASE Idle = {}
    <3>1. PICK c \in Conns : TRUE
      BY PoolAssumption
    <3>2. PICK w \in Requests : c \in {tx[w], extra[w]}
      BY <2>2 DEF Idle
    <3>3. tx[w] # None \/ extra[w] # None
      BY <3>2, PoolAssumption
    <3> QED BY <3>3, OwnerWaitsForRows
  <2> QED BY <2>1, <2>2
<1>2. PICK w \in Requests : ~Done(w) /\ ~RowsFree(w)
  BY <1>1
<1>3. PICK row \in Now(w).rows : lock[row] \notin {None, w}
  BY <1>2 DEF RowsFree
<1>4. row \in Rows
  BY <1>2, <1>3, NowGrasps DEF Grasps
<1>5. lock[row] \in Requests
  BY <1>3, <1>4 DEF TypeOK
<1>6. HeldAt(lock[row], pc[lock[row]]) # {}
  BY <1>4, <1>5 DEF Held
<1> QED BY <1>5, <1>6, HolderReady

(* No handler waits for ever for a connection or a row, nor do several of   *)
(* them for each other, unless each connection is with another contender    *)
(* and one of these is at a query nested in its transaction: otherwise, as  *)
(* long as somebody is not served, somebody can go on.                     *)
THEOREM NeverStalls == Spec => []NoStall
<1>1. ASSUME Inv, Held PROVE NoStall
  <2> USE <1>1 DEF Inv
  <2> SUFFICES ASSUME NEW r \in Requests, ~Done(r), \A p \in Requests : ~Ready(p)
               PROVE  Exhausted
    BY DEF NoStall
  <2>1. PICK s \in Requests : Starved(s)
    BY SomebodyStarves
  <2>2. Idle = {}
    BY <2>1 DEF Starved, Ready
  <2>3. ASSUME NEW p \in Requests, tx[p] # None, extra[p] # None PROVE FALSE
    <3>1. ~Starved(p)
      BY <2>3 DEF Starved
    <3>2. Now(p).do = "exec"
      BY <2>3, <3>1, OwnerWaitsForRows
    <3> QED BY <2>3, <3>2 DEF Placed
  <2>4. Cardinality(Contenders) >= Cardinality(Conns)
    <3>1. IsFiniteSet(Contenders)
      BY PoolAssumption, FS_Subset DEF Contenders
    <3>2. Cardinality(Contenders) \in Nat /\ Cardinality(Conns) \in Nat
      BY <3>1, PoolAssumption, FS_CardinalityType
    <3>3. ~(Cardinality(Contenders) < Cardinality(Conns))
      BY <2>2, ExhaustedReady
    <3> QED BY <3>2, <3>3
  <2> QED BY <2>1, <2>2, <2>3, <2>4 DEF Exhausted
<1> QED BY <1>1, Invariance, PTL

(* How far a request has come. *)
Spent(r) == 2 * pc[r] + IF extra[r] = None THEN 0 ELSE 1

OneForward == /\ \A r \in Requests : Spent(r)' >= Spent(r)
              /\ \E r \in Requests : Spent(r)' > Spent(r)
Short == \A r \in Requests : Spent(r) <= 14

(* A step takes one request forward and none back, and no script is longer   *)
(* than six steps: so no handler can keep the others from being served by   *)
(* going on for ever, and with NoStall every one ends, or all end up in an  *)
(* exhausted pool (what Served says).                                      *)
THEOREM NobodyGoesOnForever == Spec => [][OneForward]_vars /\ []Short
<1>1. ASSUME Inv, [Next]_vars PROVE [OneForward]_vars
  <2> USE <1>1 DEF Inv
  <2>1. ASSUME NEW r \in Requests, Step(r) \/ Fail(r) PROVE OneForward
    <3>1. ~Done(r) /\ pc[r] \in Nat /\ Len(Script(r)) \in Nat /\ pc[r] <= Len(Script(r))
      BY <2>1, ScriptFits DEF Step, Fail, Acquire, Query, BeginTx, ExecInTx, CommitTx, TypeOK, Done
    <3>2. \A q \in Requests \ {r} : pc'[q] = pc[q] /\ extra'[q] = extra[q]
      BY <2>1 DEF Step, Fail, Acquire, Query, BeginTx, ExecInTx, CommitTx, Forward, Release, TypeOK
    <3>3. \/ pc'[r] = pc[r] /\ extra[r] = None /\ extra'[r] # None
          \/ pc'[r] \in Nat /\ pc'[r] > pc[r]
      <4>1. CASE Acquire(r)
        <5>1. Lend \in Idle
          BY <4>1, LendIdle DEF Acquire
        <5> QED BY <4>1, <5>1, PoolAssumption DEF Acquire, Idle, TypeOK
      <4>2. CASE Query(r) \/ BeginTx(r) \/ ExecInTx(r) \/ CommitTx(r)
        BY <4>2, <3>1 DEF Query, BeginTx, ExecInTx, CommitTx, Forward, TypeOK
      <4>3. CASE Fail(r)
        BY <4>3, <3>1 DEF Fail, TypeOK
      <4> QED BY <2>1, <4>1, <4>2, <4>3 DEF Step
    <3>4. Spent(r)' > Spent(r)
      BY <3>1, <3>3 DEF Spent
    <3>5. \A q \in Requests \ {r} : Spent(q)' = Spent(q) /\ Spent(q) \in Nat
      BY <3>2 DEF Spent, TypeOK
    <3>6. Spent(r) \in Nat /\ Spent(r)' \in Nat
      BY <3>1, <3>3 DEF Spent
    <3> QED BY <3>4, <3>5, <3>6 DEF OneForward
  <2> QED BY <2>1 DEF Next
<1>2. ASSUME Inv, NEW r \in Requests PROVE Spent(r) <= 14
  <2>1. pc[r] \in 1..(Len(Script(r)) + 1)
    BY <1>2 DEF Inv, TypeOK
  <2>2. PICK n \in 0..6 : n = Len(Script(r))
    BY <1>2, ScriptGrasps DEF Inv, TypeOK
  <2>3. pc[r] > Len(Script(r)) => extra[r] = None
    BY <1>2, ScriptFits DEF Inv, TypeOK, Placed, Done
  <2>4. pc[r] \in Nat /\ (pc[r] <= 6 \/ (pc[r] = 7 /\ extra[r] = None))
    BY <2>1, <2>2, <2>3
  <2> QED BY <2>4 DEF Spent
<1>3. Inv => Short
  BY <1>2 DEF Short
<1> QED BY <1>1, <1>3, Invariance, PTL DEF Spec
===============================================================================
