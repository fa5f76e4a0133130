------------------------------- MODULE ConnPool -------------------------------
(***************************************************************************)
(* The pgxpool connection pool under every handler.  WithinTransaction     *)
(* holds one connection from BEGIN to COMMIT, yet some queries inside the  *)
(* transaction (GetByID, CheckRecentlyCodeExists) run on the pool and so   *)
(* take a second one: requests hold a connection and wait for another.     *)
(* Row locks make it worse: a connection may also be held by a statement   *)
(* that waits for a row of a transaction that itself waits for the pool,   *)
(* a cycle PostgreSQL's deadlock detector cannot see.                      *)
(***************************************************************************)
EXTENDS Naturals, Sequences, FiniteSets

CONSTANTS Conns, Requests, Users, None

Ops == {"register", "verify", "refresh", "login", "logout", "profile", "password",
        "createBrand", "updateBrand", "deleteBrand", "createStore", "other"}

(* The rows a transaction may lock while another request needs them: the    *)
(* user, the session of the user and the one user agent of this model, the *)
(* user's brand, and the brand's key, which every insert of a store shares *)
(* with the others but not with a DELETE of the brand.                     *)
UserRow(u) == <<"user", u>>
SessionRow(u) == <<"session", u>>
BrandRow(u) == <<"brand", u>>
KeyShare(r) == <<"key", r>>
Rows == {"user", "session", "brand"} \X Users \cup {"key"} \X Requests

ASSUME PoolAssumption == /\ IsFiniteSet(Conns) /\ Conns # {} /\ IsFiniteSet(Requests)
                         /\ None \notin Conns \cup Requests

VARIABLES
  call,    \* which handler a request runs, for which user
  pc,      \* the next step of a request's script
  tx,      \* the connection of its open transaction, or None
  extra,   \* the connection of its running pool query, or None
  lock     \* who locked a row by an uncommitted write, or None

vars == <<call, pc, tx, extra, lock>>

-------------------------------------------------------------------------------
(* What a handler does with connections: a statement on the pool, BEGIN, a  *)
(* statement of the transaction, COMMIT.  Statements that follow each other *)
(* on the pool, or in one transaction, and need no row of Rows count as one: *)
(* between two of them a request holds what it held before the first.      *)
Pool(rows) == [do |-> "pool", rows |-> rows]
Begin == [do |-> "begin", rows |-> {}]
Exec(rows) == [do |-> "exec", rows |-> rows]
Commit == [do |-> "commit", rows |-> {}]

(* GetByEmail; users row inserted; CheckRecentlyCodeExists on the pool; the *)
(* code upserted.                                                          *)
RegisterEmail(r) == <<Pool({}), Begin, Exec({}), Pool({}), Exec({}), Commit>>

(* GetByEmail, CheckNotExpiryCodeExists; Verify updates the user in the    *)
(* transaction and reads it back on the pool; the session is upserted.     *)
RegisterVerify(r) == <<Pool({}), Begin, Exec({UserRow(call[r].user)}), Pool({}),
                       Exec({SessionRow(call[r].user)}), Commit>>

(* The session is deleted, GetByID runs on the pool, the session inserted. *)
Refresh(r) == <<Begin, Exec({SessionRow(call[r].user)}), Pool({}), Exec({SessionRow(call[r].user)}), Commit>>

Login(r) == <<Pool({}), Pool({SessionRow(call[r].user)})>>
Logout(r) == <<Pool({SessionRow(call[r].user)})>>

(* SaveProfileInfo and UpdateProfile: checks, UPDATE users, GetByID. *)
UpdateProfile(r) == <<Pool({}), Pool({UserRow(call[r].user)}), Pool({})>>
SavePassword(r) == <<Pool({}), Pool({UserRow(call[r].user)})>>

(* The checks; the row and its lists in a transaction; GetUserBrand. *)
CreateBrand(r) == <<Pool({}), Begin, Exec({}), Commit, Pool({})>>
UpdateBrand(r) == <<Pool({}), Begin, Exec({BrandRow(call[r].user)}), Commit, Pool({})>>
DeleteBrand(r) == <<Pool({}), Pool({BrandRow(call[r].user)} \cup {KeyShare(q) : q \in Requests})>>

(* The foreign key shares the brand's key until the COMMIT. *)
CreateStore(r) == <<Pool({}), Begin, Exec({KeyShare(r)}), Commit, Pool({})>>

(* Every other handler: SELECTs, and upserts of rows no transaction locks. *)
OneByOne(r) == <<Pool({})>>

Script(r) == CASE call[r].op = "register" -> RegisterEmail(r)
               [] call[r].op = "verify" -> RegisterVerify(r)
               [] call[r].op = "refresh" -> Refresh(r)
               [] call[r].op = "login" -> Login(r)
               [] call[r].op = "logout" -> Logout(r)
               [] call[r].op = "profile" -> UpdateProfile(r)
               [] call[r].op = "password" -> SavePassword(r)
               [] call[r].op = "createBrand" -> CreateBrand(r)
               [] call[r].op = "updateBrand" -> UpdateBrand(r)
               [] call[r].op = "deleteBrand" -> DeleteBrand(r)
               [] call[r].op = "createStore" -> CreateStore(r)
               [] call[r].op = "other" -> OneByOne(r)

Done(r) == pc[r] > Len(Script(r))
Now(r) == Script(r)[pc[r]]

-------------------------------------------------------------------------------
Idle == Conns \ ({tx[r] : r \in Requests} \cup {extra[r] : r \in Requests})

(* Which idle connection the pool lends makes no difference. *)
Lend == CHOOSE c \in Idle : TRUE

RowsFree(r) == \A row \in Now(r).rows : lock[row] \in {None, r}

(* As in Sessions, the operators named Bug... are mistakes, not the system. *)
BugKeptRows(r) == extra' = extra

(* The answer has been read: the connection of a pool query goes back. *)
Release(r) == extra' = [extra EXCEPT ![r] = None]

BugSkipsOne(r) == pc' = [pc EXCEPT ![r] = @ + 2]
Forward(r) == pc' = [pc EXCEPT ![r] = @ + 1]

Unlocked(r) == [row \in Rows |-> IF lock[row] = r THEN None ELSE lock[row]]

(* The pool lends a connection for one statement... *)
Acquire(r) == /\ ~Done(r) /\ Now(r).do = "pool" /\ extra[r] = None
              /\ Idle # {} /\ extra' = [extra EXCEPT ![r] = Lend]
              /\ UNCHANGED <<call, pc, tx, lock>>

(* ...which runs, when no transaction holds its rows, in autocommit. *)
Query(r) == /\ ~Done(r) /\ Now(r).do = "pool" /\ extra[r] # None
            /\ RowsFree(r)
            /\ Release(r)
            /\ Forward(r)
            /\ UNCHANGED <<call, tx, lock>>

BeginTx(r) == /\ ~Done(r) /\ Now(r).do = "begin"
              /\ Idle # {} /\ tx' = [tx EXCEPT ![r] = Lend]
              /\ Forward(r)
              /\ UNCHANGED <<call, extra, lock>>

ExecInTx(r) == /\ ~Done(r) /\ Now(r).do = "exec"
               /\ RowsFree(r)
               /\ lock' = [row \in Rows |-> IF row \in Now(r).rows THEN r ELSE lock[row]]
               /\ Forward(r)
               /\ UNCHANGED <<call, tx, extra>>

CommitTx(r) == /\ ~Done(r) /\ Now(r).do = "commit"
               /\ tx' = [tx EXCEPT ![r] = None]
               /\ lock' = Unlocked(r)
               /\ Forward(r)
               /\ UNCHANGED <<call, extra>>

(* fn returns an error without the rollback. *)
BugNoRollback(r) ==
  /\ ~Done(r)
  /\ pc' = [pc EXCEPT ![r] = Len(Script(r)) + 1]
  /\ Release(r)
  /\ UNCHANGED <<call, tx, lock>>

(* A statement fails, ErrNotFound ends the handler or its context is       *)
(* cancelled while it waits: WithinTransaction rolls back.                 *)
Fail(r) == /\ ~Done(r)
           /\ pc' = [pc EXCEPT ![r] = Len(Script(r)) + 1]
           /\ tx' = [tx EXCEPT ![r] = None]
           /\ Release(r)
           /\ lock' = Unlocked(r)
           /\ UNCHANGED call

Step(r) == Acquire(r) \/ Query(r) \/ BeginTx(r) \/ ExecInTx(r) \/ CommitTx(r)

Init == /\ call \in [Requests -> [op: Ops, user: Users]]
        /\ pc = [r \in Requests |-> 1]
        /\ tx = [r \in Requests |-> None]
        /\ extra = [r \in Requests |-> None]
        /\ lock = [row \in Rows |-> None]

Next == \E r \in Requests : Step(r) \/ Fail(r)

Spec == Init /\ [][Next]_vars

(* A goroutine that can go on does; nothing makes a request give up. *)
FairSpec == Spec /\ \A r \in Requests : WF_vars(Step(r))

-------------------------------------------------------------------------------
TypeOK == /\ call \in [Requests -> [op: Ops, user: Users]]
          /\ pc \in [Requests -> Nat]
          /\ \A r \in Requests : pc[r] \in 1..(Len(Script(r)) + 1)
          /\ tx \in [Requests -> Conns \cup {None}]
          /\ extra \in [Requests -> Conns \cup {None}]
          /\ lock \in [Rows -> Requests \cup {None}]

(* pgxpool and WithinTransaction: a connection serves one request, and a   *)
(* request that ended - by commit, error or cancellation - has given back  *)
(* its connections and its row locks.                                      *)
NothingLeaks ==
  /\ \A q, r \in Requests : q # r =>
       ({tx[q], extra[q]} \cap {tx[r], extra[r]}) \subseteq {None}
  /\ \A r \in Requests : Done(r) => tx[r] = None /\ extra[r] = None
  /\ \A row \in Rows : lock[row] # None => tx[lock[row]] # None

(* Some request can always take its next step: the waits for rows and for   *)
(* connections make no cycle...                                            *)
Ready(r) ==
  /\ ~Done(r)
  /\ \/ Now(r).do = "pool" /\ extra[r] = None /\ Idle # {}
     \/ Now(r).do = "pool" /\ extra[r] # None /\ RowsFree(r)
     \/ Now(r).do = "begin" /\ Idle # {}
     \/ Now(r).do = "exec" /\ RowsFree(r)
     \/ Now(r).do = "commit"

(* A request in a transaction, or at a statement that needs a row. *)
Contenders == {r \in Requests : ~Done(r) /\ (tx[r] # None \/ Now(r).rows # {})}

(* A query of RegisterEmail, RegisterVerify or Refresh that is nested in    *)
(* the transaction, and has no connection yet.                             *)
Starved(r) == ~Done(r) /\ tx[r] # None /\ Now(r).do = "pool" /\ extra[r] = None

(* ...unless every connection belongs to a request with no other, one of    *)
(* them for a second one: so there are at least as many contenders as      *)
(* connections.                                                            *)
Exhausted == /\ Idle = {}
             /\ \A r \in Requests : tx[r] = None \/ extra[r] = None
             /\ \E r \in Requests : Starved(r)
             /\ Cardinality(Contenders) >= Cardinality(Conns)

NoStall == (\A r \in Requests : Done(r)) \/ (\E r \in Requests : Ready(r)) \/ Exhausted

(* Every request is served, though none gives up waiting, unless they end   *)
(* up waiting for each other in that one way, out of PostgreSQL's sight.   *)
Stalled == Exhausted /\ \A r \in Requests : ~Ready(r)
Served == (\A r \in Requests : <>Done(r)) \/ <>[]Stalled
===============================================================================
