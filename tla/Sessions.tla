------------------------------- MODULE Sessions -------------------------------
(***************************************************************************)
(* Refresh-token sessions: Login, RegisterVerify, Refresh and Logout of    *)
(* internal/auth/service as concurrent requests over the PostgreSQL table  *)
(* "sessions" (unique on user_agent, user_id).                             *)
(*                                                                         *)
(* A request is a goroutine; each SQL statement is one action.  Refresh    *)
(* and RegisterVerify write inside WithinTransaction, Login and Logout in  *)
(* autocommit.  Transactions are READ COMMITTED: what a transaction wrote  *)
(* is visible to others at its commit, and a statement that needs a row    *)
(* (or a key of the unique index) an open transaction has written waits    *)
(* for that transaction and then looks at the row again.                   *)
(***************************************************************************)
EXTENDS FiniteSets

CONSTANTS Users, Agents, OldTokens, Requests, None

(* uuid.New in request r: a token no other request and no earlier run of    *)
(* the server (OldTokens) has generated.                                   *)
Uuid(r) == <<"uuid", r>>
Tokens == OldTokens \cup {Uuid(r) : r \in Requests}
Keys == Users \X Agents

ASSUME NoneAssumption == None \notin Tokens \cup Requests \cup Keys
ASSUME UuidAssumption == \A r \in Requests : Uuid(r) \notin OldTokens
ASSUME FiniteAssumption == IsFiniteSet(Requests)

VARIABLES
  row,        \* committed table: the token of a (user, user agent), or None
  expired,    \* tokens whose expiry_date has passed
  lock,       \* the request whose open transaction wrote the row, or None
  pc,         \* where each request is
  req,        \* what each request was called with
  work,       \* its transaction: row deleted, key to write, token generated
  known,      \* tokens that reached a client
  born,       \* history: tokens ever committed to the table
  removedBy   \* history: the requests whose commit took a token out

table == <<row, expired>>
history == <<known, born, removedBy>>
vars == <<row, expired, lock, pc, req, work, known, born, removedBy>>

Stored == {row[k] : k \in Keys} \ {None}

Ops == {"none", "login", "verify", "refresh", "logout"}
Running == {"delete", "load", "upsert", "commit"}   \* may touch the database
Final == {"ok", "refused", "failed"}
NoCall == [op |-> "none", tok |-> None, agent |-> None, valid |-> FALSE]
NoWork == [del |-> None, key |-> None, new |-> None]

TypeOK ==
  /\ row \in [Keys -> Tokens \cup {None}]
  /\ expired \subseteq Tokens
  /\ lock \in [Keys -> Requests \cup {None}]
  /\ pc \in [Requests -> {"idle", "answer"} \cup Running \cup Final]
  /\ req \in [Requests -> [op: Ops, tok: Tokens \cup {None},
                           agent: Agents \cup {None}, valid: BOOLEAN]]
  /\ work \in [Requests -> [del: Keys \cup {None}, key: Keys \cup {None},
                            new: Tokens \cup {None}]]
  /\ known \subseteq Tokens
  /\ born \subseteq Tokens
  /\ removedBy \in [Tokens -> SUBSET Requests]

(* The server may start on any table an earlier run of it left behind. *)
Init ==
  /\ row \in [Keys -> OldTokens \cup {None}]
  /\ \A j, k \in Keys : row[j] = row[k] /\ row[j] # None => j = k
  /\ expired = {}
  /\ lock = [k \in Keys |-> None]
  /\ pc = [r \in Requests |-> "idle"]
  /\ req = [r \in Requests |-> NoCall]
  /\ work = [r \in Requests |-> NoWork]
  /\ known = Stored
  /\ born = Stored
  /\ removedBy = [t \in Tokens |-> {}]

-------------------------------------------------------------------------------
(* The operators named Bug... are not part of the system: each is what a    *)
(* mistake in the operator that follows it would make of it, and is there  *)
(* to show that the properties below notice the mistake.                   *)
BugReusedToken(r) == Tokens

(* The tokens generateTokens may come up with in request r. *)
Fresh(r) == {Uuid(r)}

InTx(r) == req[r].op \in {"verify", "refresh"}

BugNoRowLock(r, k) == TRUE

Free(r, k) == lock[k] \in {None, r}

Goto(r, l) == pc' = [pc EXCEPT ![r] = l]

(* COMMIT or ROLLBACK: the locks of request r are gone. *)
Unlock(r) == lock' = [k \in Keys |-> IF lock[k] = r THEN None ELSE lock[k]]

(* The table once the rows in D are deleted and, when n is a token, n is    *)
(* stored under key k.  The history notes that r took out what it deleted,  *)
(* what it overwrote and the token it was called with.                     *)
Write(r, D, k, n) ==
  /\ row' = [j \in Keys |-> IF j = k THEN n ELSE IF j \in D THEN None ELSE row[j]]
  /\ born' = born \cup ({n} \ {None})
  /\ removedBy' = [t \in Tokens |->
                     IF t = req[r].tok \/ \E j \in D \cup {k} : row[j] = t
                     THEN removedBy[t] \cup {r} ELSE removedBy[t]]
  /\ UNCHANGED <<expired, known>>

-------------------------------------------------------------------------------
(* Login and RegisterVerify reach generateTokens for a user who passed the *)
(* checks on the users and codes tables.                                   *)
StartIssue(r, op, k) ==
  /\ pc[r] = "idle"
  /\ req' = [req EXCEPT ![r] = [op |-> op, tok |-> None, agent |-> k[2], valid |-> FALSE]]
  /\ \E n \in Fresh(r) : work' = [work EXCEPT ![r] = [del |-> None, key |-> k, new |-> n]]
  /\ Goto(r, "upsert")
  /\ UNCHANGED <<table, lock, history>>

(* Refresh and Logout are called with the cookie of a client (Logout does *)
(* not look at the user agent: a is None).  NOW() of the *)
(* DELETE is the time its transaction began, so whether the token has      *)
(* expired is settled here, however long the statement then waits.         *)
StartDelete(r, op, t, a) ==
  /\ pc[r] = "idle"
  /\ t \in known
  /\ req' = [req EXCEPT ![r] = [op |-> op, tok |-> t, agent |-> a, valid |-> t \notin expired]]
  /\ Goto(r, "delete")
  /\ UNCHANGED <<table, lock, work, history>>

Matching(r) == {k \in Keys : row[k] = req[r].tok /\ req[r].valid}

BugSkipLocked(r) ==
  /\ pc[r] = "delete"
  /\ \A k \in Matching(r) : ~Free(r, k)
  /\ Goto(r, "refused")
  /\ UNCHANGED <<table, lock, req, work, history>>

(* DELETE ... RETURNING finds no row: ErrNotFound. *)
DeleteMiss(r) ==
  /\ pc[r] = "delete"
  /\ Matching(r) = {}
  /\ Goto(r, "refused")
  /\ UNCHANGED <<table, lock, req, work, history>>

(* The DELETE runs on the pool instead of on the transaction. *)
BugDeleteOnPool(r, k) ==
  /\ pc[r] = "delete" /\ InTx(r)
  /\ k \in Matching(r) /\ Free(r, k)
  /\ Write(r, {k}, k, None)
  /\ work' = [work EXCEPT ![r] = [del |-> k, key |-> <<k[1], req[r].agent>>, new |-> None]]
  /\ Goto(r, "load")
  /\ UNCHANGED <<lock, req>>

(* RETURNING hands the token to the code where the user id is expected. *)
BugWrongColumn(r, k) ==
  /\ pc[r] = "delete" /\ InTx(r)
  /\ k \in Matching(r) /\ Free(r, k)
  /\ lock' = [lock EXCEPT ![k] = r]
  /\ work' = [work EXCEPT ![r] = [del |-> k, key |-> <<row[k], req[r].agent>>, new |-> None]]
  /\ Goto(r, "load")
  /\ UNCHANGED <<table, req, history>>

(* Refresh: the row is deleted inside the transaction and stays locked. *)
DeleteInTx(r, k) ==
  /\ pc[r] = "delete" /\ InTx(r)
  /\ k \in Matching(r) /\ Free(r, k)
  /\ lock' = [lock EXCEPT ![k] = r]
  /\ work' = [work EXCEPT ![r] = [del |-> k, key |-> <<k[1], req[r].agent>>, new |-> None]]
  /\ Goto(r, "load")
  /\ UNCHANGED <<table, req, history>>

(* Logout: DELETE in autocommit; the answer of the database may be lost, *)
(* which the service sees as an error.                                   *)
DeleteNow(r, k) ==
  /\ pc[r] = "delete" /\ ~InTx(r)
  /\ k \in Matching(r) /\ Free(r, k)
  /\ Write(r, {k}, k, None)
  /\ \E l \in {"ok", "failed"} : Goto(r, l)
  /\ UNCHANGED <<lock, req, work>>

(* Refresh: GetByID answers, generateTokens makes the new token. *)
Load(r) ==
  /\ pc[r] = "load"
  /\ \E n \in Fresh(r) : work' = [work EXCEPT ![r] = [del |-> @.del, key |-> @.key, new |-> n]]
  /\ Goto(r, "upsert")
  /\ UNCHANGED <<table, lock, req, history>>

(* CreateSession: INSERT ... ON CONFLICT (user_agent, user_id) DO UPDATE. *)
UpsertInTx(r) ==
  /\ pc[r] = "upsert" /\ InTx(r)
  /\ Free(r, work[r].key)
  /\ lock' = [lock EXCEPT ![work[r].key] = r]
  /\ Goto(r, "commit")
  /\ UNCHANGED <<table, req, work, history>>

UpsertNow(r) ==
  /\ pc[r] = "upsert" /\ ~InTx(r)
  /\ Free(r, work[r].key)
  /\ Write(r, {}, work[r].key, work[r].new)
  /\ Goto(r, "answer")
  /\ UNCHANGED <<lock, req, work>>

(* tx.Commit. *)
Commit(r) ==
  /\ pc[r] = "commit"
  /\ Write(r, {work[r].del} \ {None}, work[r].key, work[r].new)
  /\ Goto(r, "answer")
  /\ Unlock(r)
  /\ UNCHANGED <<req, work>>

(* The error of COMMIT is not looked at. *)
BugCommitErrorIgnored(r) ==
  /\ Unlock(r)
  /\ Goto(r, IF pc[r] = "commit" THEN "answer" ELSE "failed")
  /\ UNCHANGED <<table, req, work, history>>

(* The transaction of a request that failed stays open. *)
BugNoRollback(r) ==
  /\ Goto(r, "failed")
  /\ UNCHANGED <<table, lock, req, work, history>>

(* A statement fails or the request's context is cancelled: WithinTransaction *)
(* rolls back, the request is answered with an error.                         *)
Abort(r) ==
  /\ Unlock(r)
  /\ Goto(r, "failed")
  /\ UNCHANGED <<table, req, work, history>>

Fail(r) == pc[r] \in Running /\ Abort(r)

(* The tokens are stored.  The handler sets the cookie and writes the body, *)
(* or the client never learns its token: the database's reply was lost and  *)
(* the service saw an error, or the client is gone.                        *)
Answer(r) ==
  /\ pc[r] = "answer"
  /\ \/ known' = known \cup {work[r].new} /\ Goto(r, "ok")
     \/ known' = known /\ Goto(r, "failed")
  /\ UNCHANGED <<table, lock, req, work, born, removedBy>>

-------------------------------------------------------------------------------
(* PostgreSQL: r waits for q when the row or key r needs was written by q's *)
(* open transaction; a transaction on a cycle of waits is aborted.          *)
WaitsFor(r, q) ==
  /\ q # r
  /\ \/ pc[r] = "delete" /\ \E k \in Matching(r) : lock[k] = q
     \/ pc[r] = "upsert" /\ lock[work[r].key] = q

BugNoDetector(r) == FALSE

OnCycle(r) == \E S \in SUBSET Requests :
                /\ r \in S
                /\ \A q \in S : \E p \in S : WaitsFor(q, p)
                /\ \A q \in S : \E p \in S : WaitsFor(p, q)

DeadlockAbort(r) == OnCycle(r) /\ Abort(r)

Expire(t) ==
  /\ t \in Stored \ expired
  /\ expired' = expired \cup {t}
  /\ UNCHANGED <<row, lock, pc, req, work, history>>

(* The server dies: its connections close, open transactions roll back. *)
Crash ==
  /\ \E r \in Requests : pc[r] \in Running \cup {"answer"}
  /\ pc' = [r \in Requests |-> IF pc[r] \in Running \cup {"answer"} THEN "failed" ELSE pc[r]]
  /\ lock' = [k \in Keys |-> None]
  /\ UNCHANGED <<table, req, work, history>>

Start(r) == \/ \E k \in Keys, op \in {"login", "verify"} : StartIssue(r, op, k)
            \/ \E t \in Tokens, a \in Agents : StartDelete(r, "refresh", t, a)
            \/ \E t \in Tokens : StartDelete(r, "logout", t, None)

Step(r) == \/ DeleteMiss(r)
           \/ \E k \in Keys : DeleteInTx(r, k) \/ DeleteNow(r, k)
           \/ Load(r)
           \/ UpsertInTx(r)
           \/ UpsertNow(r)
           \/ Commit(r)
           \/ Answer(r)

Next == \/ \E r \in Requests : Start(r) \/ Step(r) \/ Fail(r) \/ DeadlockAbort(r)
        \/ \E t \in Tokens : Expire(t)
        \/ Crash

(* A goroutine that can run its next statement does; the deadlock detector *)
(* of the database runs while a cycle lasts.                               *)
Fairness == \A r \in Requests : WF_vars(Step(r)) /\ WF_vars(DeadlockAbort(r))

Spec == Init /\ [][Next]_vars
FairSpec == Spec /\ Fairness

-------------------------------------------------------------------------------
(* The requests of one kind whose own token their commit took out. *)
Consumed(op) == {r \in Requests : /\ req[r].op = op
                                  /\ req[r].tok \in Tokens
                                  /\ r \in removedBy[req[r].tok]}

(* Refresh and Logout race on one token, and a rotation may also hit the   *)
(* row of another user agent: a token that was stored is either in the     *)
(* table or was taken out by exactly one committed request - a token is    *)
(* never exchanged twice, nor lost by a transaction that rolled back.      *)
TokenAccounting ==
  /\ \A t \in born : t \in Stored <=> removedBy[t] = {}
  /\ \A t \in Tokens : \A p, q \in removedBy[t] : p = q

(* No client is left with a token that is nowhere.  Service.Refresh deletes  *)
(* first and inserts last: whatever fails between (GetByID, the insert, the *)
(* commit, the server), a refresh that used up its token has stored the     *)
(* successor; and a token is only handed out once its row is committed.     *)
SuccessorStored == \A r \in Consumed("refresh") : work[r].new \in born
AnswerStored == known \subseteq born
TokensStored == SuccessorStored /\ AnswerStored

(* Service.Logout: once its DELETE has been answered, with a row or with   *)
(* ErrNotFound, the token is not in the table - also when a refresh of the *)
(* same token held the row meanwhile and then rolled back.                 *)
LogoutFinal ==
  \A r \in Requests :
    req[r].op = "logout" /\ req[r].valid /\ pc[r] \in {"ok", "refused"}
      => req[r].tok \notin Stored

(* A token that left the table (exchanged, revoked or replaced) never comes *)
(* back, whatever is rolled back or retried afterwards.                     *)
NoResurrection == [][\A t \in born : t \notin Stored => t \notin Stored']_vars

(* The requests together implement the table SessionStore promises: every  *)
(* commit is one of its steps and everything else changes nothing.         *)
Store == INSTANCE SessionStore WITH
           row <- row,
           issued <- born,
           exchanged <- {<<req[r].tok, work[r].new>> : r \in Consumed("refresh")},
           revoked <- {req[r].tok : r \in Consumed("logout")}
StoreSpec == Store!Spec

(* Every request ends, with an answer or with the server: neither a row     *)
(* lock nor a cycle of two refreshes, each presenting the other's user      *)
(* agent, stops a handler for ever.                                        *)
Answered == \A r \in Requests : pc[r] # "idle" ~> pc[r] \in Final

-------------------------------------------------------------------------------
(* What a request in flight needs for its next statement to run at once. *)
InFlight == {r \in Requests : pc[r] \in Running \cup {"answer"}}

Ready(r) ==
  \/ pc[r] = "delete" /\ (Matching(r) = {} \/ \E k \in Matching(r) : Free(r, k))
  \/ pc[r] = "upsert" /\ Free(r, work[r].key)
  \/ pc[r] \in {"load", "commit", "answer"}

(* Whom a request waits for, directly or through others, is in every set     *)
(* that has the request and is closed under waiting.                       *)
Closed(W) == \A q \in W, p \in Requests : WaitsFor(q, p) => p \in W

(* A handler that cannot go on waits, directly or through others, for one   *)
(* that can, or for a cycle of row locks, which PostgreSQL sees and breaks: *)
(* nobody waits for a transaction that has ended, or for one that waits for *)
(* something the database knows nothing of.                                *)
NoneStuck ==
  \A W \in SUBSET Requests :
    Closed(W) /\ W \cap InFlight # {} => \E q \in W : Ready(q) \/ OnCycle(q)

-------------------------------------------------------------------------------
(* The inductive invariant behind the properties above; Sessions_proofs     *)
(* shows that every step keeps it.                                          *)

(* A table row names each token once, and only tokens that were committed. *)
RowsOK == /\ \A j, k \in Keys : row[j] = row[k] /\ row[j] # None => j = k
          /\ Stored \subseteq born

(* A row is locked only by a transaction still open that deleted it or     *)
(* wrote it.                                                               *)
LocksOK ==
  \A k \in Keys, r \in Requests : lock[k] = r =>
    /\ InTx(r)
    /\ \/ k = work[r].del /\ pc[r] \in {"load", "upsert", "commit"}
       \/ k = work[r].key /\ pc[r] = "commit"

(* How far request r has come and what it has in hand by then: a refresh    *)
(* between its DELETE and its COMMIT holds the row of its own token.        *)
CallOK(r) ==
  /\ pc[r] = "idle" => req[r] = NoCall
  /\ pc[r] = "idle" \/ req[r].op # "none"
  /\ pc[r] = "delete" => req[r].op \in {"refresh", "logout"}
  /\ req[r].op = "logout" => pc[r] \in {"delete"} \cup Final
  /\ req[r].op = "refresh" => req[r].agent \in Agents
  /\ req[r].op \in {"refresh", "logout"} => req[r].tok \in born
  /\ req[r].op \in {"login", "verify"} => req[r].tok = None

WorkOK(r) ==
  /\ pc[r] \in {"idle", "delete"} => work[r] = NoWork
  /\ pc[r] \in {"load", "upsert", "commit"} => work[r].key \in Keys
  /\ pc[r] \in {"upsert", "commit", "answer"} => work[r].new = Uuid(r)
  /\ pc[r] \in {"load", "commit"} => InTx(r)
  /\ pc[r] = "load" => req[r].op = "refresh"
  /\ req[r].op # "refresh" => work[r].del = None
  /\ req[r].op = "refresh" /\ pc[r] \in {"load", "upsert", "commit"}
       => /\ work[r].del \in Keys
          /\ work[r].del[1] = work[r].key[1]
          /\ row[work[r].del] = req[r].tok
          /\ lock[work[r].del] = r
  /\ pc[r] = "commit" => lock[work[r].key] = r

(* The token request r generates is nowhere before r's commit, and r has    *)
(* taken nothing out before it.                                             *)
HistoryOK(r) ==
  /\ pc[r] \in {"idle"} \cup Running =>
       /\ Uuid(r) \notin born
       /\ \A t \in Tokens : r \notin removedBy[t]
  /\ pc[r] = "answer" => work[r].new \in born

Inv == /\ RowsOK
       /\ LocksOK
       /\ \A r \in Requests : CallOK(r) /\ WorkOK(r) /\ HistoryOK(r)
       /\ \A t \in Tokens : removedBy[t] # {} => t \in born
       /\ TokenAccounting
       /\ SuccessorStored
       /\ LogoutFinal
       /\ AnswerStored
===============================================================================
