---------------------------- MODULE Sessions_proofs ----------------------------
(***************************************************************************)
(* Theorems about module Sessions, for any users, user agents, requests    *)
(* and tokens left over from earlier runs.                                 *)
(***************************************************************************)
EXTENDS Sessions, FiniteSetTheorems, WellFoundedInduction, TLAPS

(* The server's table starts well typed. *)
LEMMA TypeInit == Init => TypeOK
  BY DEF Init, TypeOK, Stored, NoCall, NoWork, Tokens, Ops, Running, Final

(* Every statement of every request keeps the types. *)
LEMMA TypeStep == TypeOK /\ Inv /\ [Next]_vars => TypeOK'
<1> SUFFICES ASSUME TypeOK, Inv, [Next]_vars PROVE TypeOK'
  OBVIOUS
<1> USE DEF TypeOK, Running, Final, Ops, table, history
<1>1. ASSUME NEW r \in Requests, Start(r) PROVE TypeOK'
  <2>1. ASSUME NEW k \in Keys, NEW op \in {"login", "verify"}, StartIssue(r, op, k)
        PROVE  TypeOK'
    BY <2>1 DEF StartIssue, Goto, Fresh, Tokens, Keys
  <2>2. ASSUME NEW t \in Tokens, NEW a \in Agents \cup {None},
               NEW op \in {"refresh", "logout"}, StartDelete(r, op, t, a)
        PROVE  TypeOK'
    BY <2>2 DEF StartDelete, Goto
  <2> QED BY <1>1, <2>1, <2>2 DEF Start
<1>2. ASSUME NEW r \in Requests, Step(r) PROVE TypeOK'
  <2>1. CASE DeleteMiss(r)
    BY <2>1 DEF DeleteMiss, Goto
  <2>2. ASSUME NEW k \in Keys, DeleteInTx(r, k) PROVE TypeOK'
    <3>1. req[r].agent \in Agents
      BY <2>2 DEF DeleteInTx, InTx, Inv, CallOK
    <3>2. <<k[1], req[r].agent>> \in Keys
      BY <3>1 DEF Keys
    <3> QED BY <2>2, <3>2 DEF DeleteInTx, Goto
  <2>3. ASSUME NEW k \in Keys, DeleteNow(r, k) PROVE TypeOK'
    BY <2>3 DEF DeleteNow, Write, Goto
  <2>4. CASE Load(r)
    BY <2>4 DEF Load, Fresh, Tokens, Goto
  <2>5. CASE UpsertInTx(r)
    BY <2>5 DEF UpsertInTx, Goto
  <2>6. CASE UpsertNow(r)
    BY <2>6 DEF UpsertNow, Write, Goto
  <2>7. CASE Commit(r)
    BY <2>7 DEF Commit, Write, Goto, Unlock
  <2>8. CASE Answer(r)
    <3>1. work[r].new \in Tokens
      BY <2>8 DEF Answer, Inv, WorkOK, Tokens
    <3> QED BY <2>8, <3>1 DEF Answer, Goto
  <2> QED BY <1>2, <2>1, <2>2, <2>3, <2>4, <2>5, <2>6, <2>7, <2>8 DEF Step
<1>3. ASSUME NEW r \in Requests, Fail(r) \/ DeadlockAbort(r) PROVE TypeOK'
  BY <1>3 DEF Fail, DeadlockAbort, Abort, Unlock, Goto
<1>4. ASSUME NEW t \in Tokens, Expire(t) PROVE TypeOK'
  BY <1>4 DEF Expire
<1>5. CASE Crash
  BY <1>5 DEF Crash
<1>6. CASE UNCHANGED vars
  BY <1>6 DEF vars
<1> QED BY <1>1, <1>2, <1>3, <1>4, <1>5, <1>6 DEF Next

-------------------------------------------------------------------------------
(* No request is running at the start, so nothing is locked or used up. *)
LEMMA InvInit == Init => Inv
<1> SUFFICES ASSUME Init PROVE Inv
  OBVIOUS
<1>1. RowsOK /\ LocksOK /\ AnswerStored
  BY NoneAssumption DEF Init, RowsOK, LocksOK, AnswerStored
<1>2. ASSUME NEW r \in Requests PROVE CallOK(r) /\ WorkOK(r) /\ HistoryOK(r)
  BY UuidAssumption, NoneAssumption, <1>2
     DEF Init, CallOK, WorkOK, HistoryOK, NoCall, NoWork, Stored, Running, Final, Tokens, Uuid
<1>3. TokenAccounting /\ \A t \in Tokens : removedBy[t] # {} => t \in born
  BY DEF Init, TokenAccounting, Stored, Tokens
<1>4. SuccessorStored /\ LogoutFinal
  BY DEF Init, SuccessorStored, LogoutFinal, Consumed, NoCall
<1> QED BY <1>1, <1>2, <1>3, <1>4 DEF Inv

(* A step that leaves the table and its history alone keeps what Inv says   *)
(* of them.                                                                *)
LEMMA QuietTable ==
  ASSUME Inv, UNCHANGED <<row, born, removedBy, known>>
  PROVE  /\ RowsOK' /\ TokenAccounting' /\ AnswerStored'
         /\ \A t \in Tokens : removedBy'[t] # {} => t \in born'
  BY DEF Inv, RowsOK, TokenAccounting, AnswerStored, Stored

(* The invariant of one request rests on what the request itself holds: a   *)
(* step of another request that leaves its rows and locks alone keeps it.  *)
LEMMA StartKeeps ==
  ASSUME TypeOK, Inv, NEW r \in Requests, Start(r) PROVE Inv'
<1> USE DEF Ops, Running, Final, table, history
<1>0. /\ pc[r] = "idle"
      /\ UNCHANGED <<row, born, removedBy, known, lock>>
      /\ \A q \in Requests \ {r} : UNCHANGED <<pc[q], req[q], work[q]>>
  BY DEF Start, StartIssue, StartDelete, Goto, TypeOK
<1>1. RowsOK' /\ TokenAccounting' /\ AnswerStored'
      /\ \A t \in Tokens : removedBy'[t] # {} => t \in born'
  BY <1>0, QuietTable
<1>2. LocksOK'
  BY <1>0 DEF Inv, LocksOK, InTx, TypeOK
<1>3. ASSUME NEW q \in Requests, q # r
      PROVE  CallOK(q)' /\ WorkOK(q)' /\ HistoryOK(q)'
  BY <1>0, <1>3 DEF Inv, CallOK, WorkOK, HistoryOK, InTx
<1>4. CallOK(r)' /\ WorkOK(r)' /\ HistoryOK(r)'
  <2>0. CallOK(r) /\ WorkOK(r) /\ HistoryOK(r) /\ known \subseteq born
    BY DEF Inv, AnswerStored
  <2>1. ASSUME NEW k \in Keys, NEW op \in {"login", "verify"}, StartIssue(r, op, k)
        PROVE  CallOK(r)' /\ WorkOK(r)' /\ HistoryOK(r)'
    <3>1. PICK n \in Fresh(r) :
               work' = [work EXCEPT ![r] = [del |-> None, key |-> k, new |-> n]]
      BY <2>1 DEF StartIssue
    <3>2. /\ pc'[r] = "upsert"
          /\ req'[r] = [op |-> op, tok |-> None, agent |-> k[2], valid |-> FALSE]
          /\ work'[r] = [del |-> None, key |-> k, new |-> Uuid(r)]
      BY <2>1, <3>1 DEF StartIssue, Goto, Fresh, TypeOK
    <3> QED BY <1>0, <2>0, <3>2 DEF CallOK, WorkOK, HistoryOK
  <2>2. ASSUME NEW t \in Tokens, NEW a \in Agents, StartDelete(r, "refresh", t, a)
        PROVE  CallOK(r)' /\ WorkOK(r)' /\ HistoryOK(r)'
    BY <2>0, <2>2 DEF StartDelete, Goto, InTx, TypeOK, CallOK, WorkOK, HistoryOK
  <2>3. ASSUME NEW t \in Tokens, StartDelete(r, "logout", t, None)
        PROVE  CallOK(r)' /\ WorkOK(r)' /\ HistoryOK(r)'
    BY <2>0, <2>3 DEF StartDelete, Goto, InTx, TypeOK, CallOK, WorkOK, HistoryOK, NoWork
  <2> QED BY <2>1, <2>2, <2>3 DEF Start
<1>5. r \notin Consumed("refresh")' /\ pc[r]' \notin {"ok", "refused"}
  BY <1>0 DEF Start, StartIssue, StartDelete, Goto, TypeOK, Inv, HistoryOK, Consumed
<1>6. SuccessorStored' /\ LogoutFinal'
  BY <1>0, <1>5 DEF Inv, SuccessorStored, LogoutFinal, Consumed, Stored
<1> QED BY <1>1, <1>2, <1>3, <1>4, <1>6 DEF Inv

(* The statements of request r that leave the table alone. *)
LEMMA QuietStepKeeps ==
  ASSUME TypeOK, Inv, NEW r \in Requests,
         \/ DeleteMiss(r) \/ Load(r) \/ UpsertInTx(r)
         \/ \E k \in Keys : DeleteInTx(r, k)
  PROVE  Inv'
<1> USE DEF Running, Final, table, history
<1>0. /\ pc[r] \in {"delete", "load", "upsert"}
      /\ UNCHANGED <<row, born, removedBy, known, req>>
      /\ \A q \in Requests \ {r} : UNCHANGED <<pc[q], work[q]>>
      /\ pc[r]' \in {"refused", "load", "upsert", "commit"}
      /\ \A k \in Keys : lock[k]' # lock[k] => lock[k] \in {None, r} /\ lock[k]' = r
  BY DEF DeleteMiss, Load, UpsertInTx, DeleteInTx, Goto, Free, TypeOK
<1>1. RowsOK' /\ TokenAccounting' /\ AnswerStored'
      /\ \A t \in Tokens : removedBy'[t] # {} => t \in born'
  BY <1>0, QuietTable
<1>2. CallOK(r) /\ WorkOK(r) /\ HistoryOK(r)
  BY DEF Inv
<1>3. ASSUME NEW q \in Requests, q # r
      PROVE  CallOK(q)' /\ WorkOK(q)' /\ HistoryOK(q)'
  <2>1. CallOK(q) /\ WorkOK(q) /\ HistoryOK(q)
    BY DEF Inv
  <2>2. \A k \in Keys : lock[k] = q => lock[k]' = q
    BY <1>0, <1>3, NoneAssumption
  <2> QED BY <1>0, <1>3, <2>1, <2>2 DEF CallOK, WorkOK, HistoryOK, InTx
<1>4. LocksOK' /\ CallOK(r)' /\ WorkOK(r)' /\ HistoryOK(r)'
  <2>1. CASE DeleteMiss(r)
    BY <1>2, <2>1 DEF Inv, LocksOK, DeleteMiss, Goto, InTx, TypeOK, CallOK, WorkOK, HistoryOK
  <2>2. CASE Load(r)
    BY <1>2, <2>2 DEF Inv, LocksOK, Load, Fresh, Goto, InTx, TypeOK, CallOK, WorkOK, HistoryOK
  <2>3. CASE UpsertInTx(r)
    BY <1>2, <2>3 DEF Inv, LocksOK, UpsertInTx, Free, Goto, InTx, TypeOK, CallOK, WorkOK, HistoryOK
  <2>4. ASSUME NEW k \in Keys, DeleteInTx(r, k)
        PROVE  LocksOK' /\ CallOK(r)' /\ WorkOK(r)' /\ HistoryOK(r)'
    BY <1>2, <2>4 DEF Inv, LocksOK, DeleteInTx, Matching, Free, Goto, InTx, TypeOK,
                      CallOK, WorkOK, HistoryOK, Keys
  <2> QED BY <2>1, <2>2, <2>3, <2>4
<1>5. SuccessorStored'
  BY <1>0, <1>2 DEF Inv, SuccessorStored, Consumed, HistoryOK, TypeOK
<1>6. LogoutFinal'
  BY <1>0, <1>2 DEF Inv, LogoutFinal, Stored, DeleteMiss, Load, UpsertInTx, DeleteInTx, Goto,
                    Matching, TypeOK, CallOK
<1> QED BY <1>1, <1>2, <1>3, <1>4, <1>5, <1>6 DEF Inv

(* What Write does to the table and its history: r takes out its own token  *)
(* and those of the rows it deletes or overwrites, and stores n, if it is a *)
(* token, which nobody has stored before.                                  *)
LEMMA WriteTable ==
  ASSUME TypeOK, Inv, NEW r \in Requests, NEW D \in SUBSET Keys, NEW k \in Keys,
         NEW n \in Tokens \cup {None}, n = None \/ n \notin born,
         \A t \in Tokens : r \notin removedBy[t],
         \A j \in D : row[j] = req[r].tok,
         req[r].tok = None \/ \E j \in D : row[j] = req[r].tok,
         Write(r, D, k, n)
  PROVE  /\ RowsOK' /\ TokenAccounting' /\ AnswerStored'
         /\ \A t \in Tokens : removedBy'[t] # {} => t \in born'
         /\ \A t \in born : t \notin Stored => t \notin Stored'
<1> DEFINE Taken == {row[j] : j \in D \cup {k}}
<1>1. /\ \A j \in Keys : row'[j] = IF j = k THEN n ELSE IF j \in D THEN None ELSE row[j]
      /\ born' = born \cup ({n} \ {None})
      /\ known' = known
  BY DEF Write
<1>2. \A t \in Tokens : removedBy'[t] = IF t \in Taken THEN removedBy[t] \cup {r}
                                                        ELSE removedBy[t]
  BY NoneAssumption DEF Write
<1>3. /\ \A i, j \in Keys : row[i] = row[j] /\ row[i] # None => i = j
      /\ Stored \subseteq born
  BY DEF Inv, RowsOK
<1>4. Stored' = (Stored \ Taken) \cup ({n} \ {None})
  BY <1>1, <1>3, NoneAssumption DEF Stored, TypeOK
<1>5. RowsOK'
  <2>1. \A j \in Keys : row[j] # n \/ n = None
    BY <1>3, NoneAssumption DEF Stored
  <2>2. \A i, j \in Keys : row'[i] = row'[j] /\ row'[i] # None => i = j
    BY <1>1, <1>3, <2>1
  <2> QED BY <1>1, <1>3, <1>4, <2>2 DEF RowsOK
<1>6. Taken \subseteq Stored \cup {None}
  BY DEF Stored
<1>7. /\ \A t \in born : t \in Stored <=> removedBy[t] = {}
      /\ \A t \in Tokens : \A p, q \in removedBy[t] : p = q
      /\ \A t \in Tokens : removedBy[t] # {} => t \in born
      /\ known \subseteq born
      /\ born \subseteq Tokens
  BY DEF Inv, TokenAccounting, AnswerStored, TypeOK
<1>8. TokenAccounting'
  <2>1. ASSUME NEW t \in born' PROVE t \in Stored' <=> removedBy'[t] = {}
    <3> HIDE DEF Taken
    <3>1. CASE t \in born
      BY <1>2, <1>4, <1>7, <3>1, NoneAssumption
    <3>2. CASE t = n /\ t \notin born
      <4>1. t \in Tokens /\ t \notin Taken /\ removedBy[t] = {} /\ t # None
        BY <1>1, <1>3, <1>6, <1>7, <3>2, NoneAssumption
      <4> QED BY <1>2, <1>4, <3>2, <4>1
    <3> QED BY <1>1, <3>1, <3>2
  <2>2. ASSUME NEW t \in Tokens PROVE \A p, q \in removedBy'[t] : p = q
    <3> HIDE DEF Taken
    <3>1. CASE t \in Taken
      <4>1. t \in born /\ t \in Stored
        BY <1>3, <1>6, <3>1, NoneAssumption
      <4>2. removedBy'[t] = {r}
        BY <1>2, <1>7, <3>1, <4>1
      <4> QED BY <4>2
    <3>2. CASE t \notin Taken
      BY <1>2, <1>7, <3>2
    <3> QED BY <3>1, <3>2
  <2> QED BY <2>1, <2>2 DEF TokenAccounting
<1>9. \A t \in Tokens : removedBy'[t] # {} => t \in born'
  BY <1>1, <1>2, <1>3, <1>6, <1>7, NoneAssumption
<1>10. \A t \in born : t \notin Stored => t \notin Stored'
  BY <1>4
<1>11. AnswerStored'
  BY <1>1, <1>7 DEF AnswerStored
<1> HIDE DEF Taken
<1> QED BY <1>5, <1>8, <1>9, <1>10, <1>11

(* A logout's DELETE (it commits at once) keeps every request's facts. *)
LEMMA DeleteNowKeeps ==
  ASSUME TypeOK, Inv, NEW r \in Requests, NEW k \in Keys, DeleteNow(r, k)
  PROVE  Inv' /\ \A t \in born : t \notin Stored => t \notin Stored'
<1> USE DEF Running, Final
<1>1. /\ CallOK(r) /\ WorkOK(r) /\ HistoryOK(r)
      /\ pc[r] = "delete" /\ req[r].op = "logout"
      /\ row[k] = req[r].tok /\ req[r].tok \in Tokens
      /\ lock[k] \in {None, r}
      /\ Write(r, {k}, k, None)
      /\ pc' \in {[pc EXCEPT ![r] = l] : l \in {"ok", "failed"}}
      /\ UNCHANGED <<lock, req, work>>
  BY DEF Inv, DeleteNow, Matching, Free, InTx, CallOK, Goto, TypeOK
<1>2. /\ RowsOK' /\ TokenAccounting' /\ AnswerStored'
      /\ \A t \in Tokens : removedBy'[t] # {} => t \in born'
      /\ \A t \in born : t \notin Stored => t \notin Stored'
  <2> DEFINE D == {k}
  <2>1. /\ D \in SUBSET Keys
        /\ \A t \in Tokens : r \notin removedBy[t]
        /\ \A j \in D : row[j] = req[r].tok
        /\ req[r].tok = None \/ \E j \in D : row[j] = req[r].tok
        /\ Write(r, D, k, None)
    BY <1>1 DEF HistoryOK
  <2> HIDE DEF D
  <2> QED BY <2>1, WriteTable
<1>3. LocksOK'
  BY <1>1 DEF Inv, LocksOK, InTx, TypeOK
<1>4. /\ born' = born
      /\ \A j \in Keys : j # k => row'[j] = row[j]
      /\ row'[k] = None
      /\ \A t \in Tokens : removedBy'[t] \subseteq removedBy[t] \cup {r}
  BY <1>1 DEF Write, TypeOK
<1>5. ASSUME NEW q \in Requests, q # r
      PROVE  CallOK(q)' /\ WorkOK(q)' /\ HistoryOK(q)'
  <2>1. CallOK(q) /\ WorkOK(q) /\ HistoryOK(q) /\ pc'[q] = pc[q]
    BY <1>1, <1>5 DEF Inv, TypeOK
  <2>2. work[q].del = k => ~ (req[q].op = "refresh" /\ pc[q] \in {"load", "upsert", "commit"})
    BY <1>1, <1>5, <2>1, NoneAssumption DEF WorkOK
  <2> QED BY <1>1, <1>4, <1>5, <2>1, <2>2 DEF CallOK, WorkOK, HistoryOK, InTx
<1>6. CallOK(r)' /\ WorkOK(r)' /\ HistoryOK(r)'
  BY <1>1, <1>4 DEF CallOK, WorkOK, HistoryOK, InTx, TypeOK
<1>7. SuccessorStored'
  BY <1>1, <1>4 DEF Inv, SuccessorStored, Consumed, TypeOK
<1>8. LogoutFinal'
  <2>1. req[r].tok \notin Stored'
    BY <1>1, <1>4, NoneAssumption DEF Inv, RowsOK, Stored
  <2>2. ASSUME NEW q \in Requests, q # r, req[q].op = "logout", req[q].valid,
               pc'[q] \in {"ok", "refused"}
        PROVE  req[q].tok \notin Stored'
    BY <1>1, <1>2, <2>2 DEF Inv, LogoutFinal, CallOK, TypeOK
  <2> QED BY <1>1, <2>1, <2>2 DEF LogoutFinal
<1> QED BY <1>2, <1>3, <1>5, <1>6, <1>7, <1>8 DEF Inv

(* When a login, a verification or a refresh stores its token: the rows it  *)
(* deletes (one for a refresh, none otherwise), the row it writes, and what *)
(* is known by then.                                                       *)
Dead(r) == {work[r].del} \ {None}
Dest(r) == work[r].key

StoreReady(r) ==
  /\ CallOK(r) /\ WorkOK(r) /\ HistoryOK(r)
  /\ pc[r] \in {"upsert", "commit"} /\ pc' = [pc EXCEPT ![r] = "answer"]
  /\ work[r].new = Uuid(r) /\ Uuid(r) \in Tokens \ born /\ Uuid(r) # None
  /\ req[r].op \in {"login", "verify", "refresh"}
  /\ UNCHANGED <<req, work>>
  /\ Dest(r) \in Keys
  /\ Dead(r) \in SUBSET Keys
  /\ \A j \in Dead(r) : row[j] = req[r].tok /\ lock[j] = r
  /\ req[r].tok = None \/ \E j \in Dead(r) : row[j] = req[r].tok
  /\ Write(r, Dead(r), Dest(r), Uuid(r))

(* What a request about to store its token knows of the table. *)
LEMMA StoreFacts ==
  ASSUME TypeOK, Inv, NEW r \in Requests, Commit(r) \/ UpsertNow(r)
  PROVE  StoreReady(r)
<1> USE DEF Running, Final, Dead, Dest
<1>1. CallOK(r) /\ WorkOK(r) /\ HistoryOK(r)
  BY DEF Inv
<1>2. /\ pc[r] \in {"upsert", "commit"} /\ pc' = [pc EXCEPT ![r] = "answer"]
      /\ UNCHANGED <<req, work>>
  BY DEF Commit, UpsertNow, Goto
<1>3. Dest(r) \in Keys /\ work[r].new = Uuid(r) /\ Uuid(r) \notin born
  BY <1>1, <1>2 DEF WorkOK, HistoryOK
<1>4. Uuid(r) \in Tokens /\ Uuid(r) # None
  BY NoneAssumption DEF Tokens
<1>5. req[r].op \in {"login", "verify", "refresh"}
  BY <1>1, <1>2 DEF CallOK, TypeOK, Ops
<1>6. /\ Dead(r) \in SUBSET Keys
      /\ \A j \in Dead(r) : row[j] = req[r].tok /\ lock[j] = r
      /\ req[r].tok = None \/ \E j \in Dead(r) : row[j] = req[r].tok
      /\ Write(r, Dead(r), Dest(r), Uuid(r))
  <2>1. CASE req[r].op = "refresh"
    BY <1>1, <1>2, <1>3, <2>1, NoneAssumption DEF Commit, UpsertNow, InTx, WorkOK
  <2>2. CASE req[r].op \in {"login", "verify"}
    BY <1>1, <1>2, <1>3, <2>2 DEF Commit, UpsertNow, CallOK, WorkOK
  <2> QED BY <1>5, <2>1, <2>2
<1> QED BY <1>1, <1>2, <1>3, <1>4, <1>5, <1>6 DEF StoreReady

(* No other request holds the rows a commit touches. *)
LEMMA StoreKeeps ==
  ASSUME TypeOK, Inv, NEW r \in Requests, Commit(r) \/ UpsertNow(r)
  PROVE  Inv' /\ \A t \in born : t \notin Stored => t \notin Stored'
<1> USE DEF Running, Final
<1>1. StoreReady(r)
  BY StoreFacts
<1>2. /\ lock[Dest(r)] \in {None, r}
      /\ \A j \in Keys : lock'[j] = IF lock[j] = r THEN None ELSE lock[j]
  <2>1. CASE Commit(r)
    BY <1>1, <2>1 DEF StoreReady, Commit, Unlock, WorkOK, Dest
  <2>2. CASE UpsertNow(r)
    BY <1>1, <2>2 DEF StoreReady, UpsertNow, Free, Inv, LocksOK, Dest
  <2> QED BY <2>1, <2>2
<1>3. /\ RowsOK' /\ TokenAccounting' /\ AnswerStored'
      /\ \A t \in Tokens : removedBy'[t] # {} => t \in born'
      /\ \A t \in born : t \notin Stored => t \notin Stored'
  BY <1>1, WriteTable DEF StoreReady, HistoryOK, Running
<1>4. /\ born' = born \cup {Uuid(r)}
      /\ \A j \in Keys : j # Dest(r) /\ j \notin Dead(r) => row'[j] = row[j]
      /\ \A t \in Tokens : removedBy'[t] \subseteq removedBy[t] \cup {r}
      /\ \A j \in Keys : row'[j] \in {row[j], None, Uuid(r)}
  BY <1>1 DEF StoreReady, Write, TypeOK
<1>5. LocksOK'
  <2> SUFFICES ASSUME NEW j \in Keys, NEW q \in Requests, lock'[j] = q
               PROVE  /\ InTx(q)'
                      /\ \/ j = work'[q].del /\ pc'[q] \in {"load", "upsert", "commit"}
                         \/ j = work'[q].key /\ pc'[q] = "commit"
    BY DEF LocksOK
  <2>1. lock[j] = q /\ q # r
    BY <1>2, NoneAssumption
  <2> QED BY <1>1, <2>1 DEF StoreReady, Inv, LocksOK, InTx, TypeOK
<1>6. ASSUME NEW q \in Requests, q # r
      PROVE  CallOK(q)' /\ WorkOK(q)' /\ HistoryOK(q)'
  <2>1. CallOK(q) /\ WorkOK(q) /\ HistoryOK(q) /\ pc'[q] = pc[q]
    BY <1>1, <1>6 DEF StoreReady, Inv, TypeOK
  <2>2. CallOK(q)'
    BY <1>1, <1>4, <2>1 DEF StoreReady, CallOK
  <2>3. HistoryOK(q)'
    BY <1>1, <1>4, <1>6, <2>1 DEF StoreReady, HistoryOK, Uuid
  <2>4. \A j \in Keys : lock[j] = q => row'[j] = row[j] /\ lock'[j] = q
    BY <1>1, <1>2, <1>4, <1>6, NoneAssumption DEF StoreReady
  <2>5. WorkOK(q)'
    BY <1>1, <2>1, <2>4 DEF StoreReady, WorkOK, InTx
  <2> QED BY <2>2, <2>3, <2>5
<1>7. CallOK(r)' /\ WorkOK(r)' /\ HistoryOK(r)'
  BY <1>1, <1>4 DEF StoreReady, CallOK, WorkOK, HistoryOK, InTx, TypeOK
<1>8. SuccessorStored'
  BY <1>1, <1>4 DEF StoreReady, Inv, SuccessorStored, Consumed, TypeOK
<1>9. LogoutFinal'
  <2> SUFFICES ASSUME NEW q \in Requests, req'[q].op = "logout", req'[q].valid,
                      pc'[q] \in {"ok", "refused"}
               PROVE  req'[q].tok \notin Stored'
    BY DEF LogoutFinal
  <2>1. q # r /\ pc[q] = pc'[q] /\ req'[q] = req[q]
    BY <1>1 DEF StoreReady, TypeOK
  <2>2. req[q].tok \in born /\ req[q].tok \notin Stored
    BY <2>1 DEF Inv, LogoutFinal, CallOK
  <2> QED BY <1>3, <2>1, <2>2
<1> QED BY <1>3, <1>5, <1>6, <1>7, <1>8, <1>9 DEF Inv

(* A rollback, also one of many at a crash: the requests of R lose their    *)
(* locks and end; the table is as it was.                                  *)
LEMMA RollbackKeeps ==
  ASSUME TypeOK, Inv, NEW R \in SUBSET Requests,
         \A r \in R : pc[r] \in Running \cup {"answer"},
         pc' = [r \in Requests |-> IF r \in R THEN "failed" ELSE pc[r]],
         lock' = [k \in Keys |-> IF lock[k] \in R THEN None ELSE lock[k]],
         UNCHANGED <<table, req, work, history>>
  PROVE  Inv'
<1> USE DEF Running, Final, table, history
<1>1. RowsOK' /\ TokenAccounting' /\ AnswerStored'
      /\ \A t \in Tokens : removedBy'[t] # {} => t \in born'
  BY QuietTable
<1>2. LocksOK'
  <2> SUFFICES ASSUME NEW j \in Keys, NEW q \in Requests, lock'[j] = q
               PROVE  /\ InTx(q)'
                      /\ \/ j = work'[q].del /\ pc'[q] \in {"load", "upsert", "commit"}
                         \/ j = work'[q].key /\ pc'[q] = "commit"
    BY DEF LocksOK
  <2>1. lock[j] = q /\ q \notin R
    BY NoneAssumption
  <2> QED BY <2>1 DEF Inv, LocksOK, InTx
<1>3. ASSUME NEW q \in Requests
      PROVE  CallOK(q)' /\ WorkOK(q)' /\ HistoryOK(q)'
  <2>1. CallOK(q) /\ WorkOK(q) /\ HistoryOK(q)
    BY DEF Inv
  <2>2. CASE q \in R
    BY <2>1, <2>2 DEF CallOK, WorkOK, HistoryOK, InTx
  <2>3. CASE q \notin R
    <3>1. pc'[q] = pc[q] /\ \A k \in Keys : lock[k] = q => lock'[k] = q
      BY <2>3
    <3> QED BY <2>1, <3>1 DEF CallOK, WorkOK, HistoryOK, InTx
  <2> QED BY <2>2, <2>3
<1>4. SuccessorStored' /\ LogoutFinal'
  BY DEF Inv, SuccessorStored, LogoutFinal, Consumed, Stored
<1> QED BY <1>1, <1>2, <1>3, <1>4 DEF Inv

(* A failed request rolls back alone. *)
LEMMA AbortKeeps ==
  ASSUME TypeOK, Inv, NEW r \in Requests, Fail(r) \/ DeadlockAbort(r) PROVE Inv'
<1> USE DEF Running
<1>1. Abort(r) /\ pc[r] \in Running
  BY DEF Fail, DeadlockAbort, OnCycle, WaitsFor
<1>2. /\ pc' = [q \in Requests |-> IF q \in {r} THEN "failed" ELSE pc[q]]
      /\ lock' = [k \in Keys |-> IF lock[k] \in {r} THEN None ELSE lock[k]]
      /\ UNCHANGED <<table, req, work, history>>
  BY <1>1 DEF Abort, Unlock, Goto, TypeOK
<1> DEFINE R == {r}
<1>3. R \in SUBSET Requests /\ \A q \in R : pc[q] \in Running \cup {"answer"}
  BY <1>1
<1> HIDE DEF R
<1> QED BY <1>2, <1>3, RollbackKeeps DEF R

(* A crash rolls back every running transaction. *)
LEMMA CrashKeeps == ASSUME TypeOK, Inv, Crash PROVE Inv'
<1> DEFINE R == {r \in Requests : pc[r] \in Running \cup {"answer"}}
<1>1. /\ R \in SUBSET Requests
      /\ \A r \in R : pc[r] \in Running \cup {"answer"}
      /\ pc' = [r \in Requests |-> IF r \in R THEN "failed" ELSE pc[r]]
      /\ UNCHANGED <<table, req, work, history>>
  BY DEF Crash
<1>2. \A k \in Keys : lock[k] \in R \cup {None}
  BY DEF TypeOK, Inv, LocksOK, Running
<1>3. lock' = [k \in Keys |-> IF lock[k] \in R THEN None ELSE lock[k]]
  BY <1>2 DEF Crash
<1> HIDE DEF R
<1> QED BY <1>1, <1>3, RollbackKeeps

(* Answering a request whose work is committed keeps the invariant. *)
LEMMA AnswerKeeps ==
  ASSUME TypeOK, Inv, NEW r \in Requests, Answer(r) PROVE Inv'
<1> USE DEF Running, Final, table
<1>1. /\ CallOK(r) /\ WorkOK(r) /\ HistoryOK(r)
      /\ pc[r] = "answer"
      /\ pc' \in {[pc EXCEPT ![r] = l] : l \in {"ok", "failed"}}
      /\ known' \subseteq known \cup {work[r].new}
      /\ UNCHANGED <<row, lock, req, work, born, removedBy>>
  BY DEF Inv, Answer, Goto
<1>2. RowsOK' /\ TokenAccounting' /\ AnswerStored'
      /\ \A t \in Tokens : removedBy'[t] # {} => t \in born'
  BY <1>1 DEF Inv, RowsOK, TokenAccounting, AnswerStored, Stored, HistoryOK
<1>3. LocksOK'
  BY <1>1 DEF Inv, LocksOK, InTx, TypeOK
<1>4. ASSUME NEW q \in Requests
      PROVE  CallOK(q)' /\ WorkOK(q)' /\ HistoryOK(q)'
  <2>1. CallOK(q) /\ WorkOK(q) /\ HistoryOK(q)
    BY DEF Inv
  <2>2. CASE q = r
    BY <1>1, <2>2 DEF CallOK, WorkOK, HistoryOK, InTx, TypeOK
  <2>3. CASE q # r
    BY <1>1, <2>1, <2>3 DEF CallOK, WorkOK, HistoryOK, InTx, TypeOK
  <2> QED BY <2>2, <2>3
<1>5. SuccessorStored'
  BY <1>1 DEF Inv, SuccessorStored, Consumed
<1>6. LogoutFinal'
  <2>1. req[r].op # "logout"
    BY <1>1 DEF CallOK
  <2> QED BY <1>1, <2>1 DEF Inv, LogoutFinal, Stored, TypeOK
<1> QED BY <1>2, <1>3, <1>4, <1>5, <1>6 DEF Inv

(* A step that changes nothing Inv speaks of: a token expires, or stuttering. *)
LEMMA IdleKeeps ==
  ASSUME Inv, UNCHANGED <<row, lock, pc, req, work, history>> PROVE Inv'
<1> USE DEF history
<1>1. RowsOK' /\ TokenAccounting' /\ AnswerStored'
      /\ \A t \in Tokens : removedBy'[t] # {} => t \in born'
  BY QuietTable
<1>2. LocksOK' /\ SuccessorStored' /\ LogoutFinal'
  BY DEF Inv, LocksOK, InTx, SuccessorStored, LogoutFinal, Consumed, Stored
<1>3. ASSUME NEW q \in Requests
      PROVE  CallOK(q)' /\ WorkOK(q)' /\ HistoryOK(q)'
  BY DEF Inv, CallOK, WorkOK, HistoryOK, InTx
<1> QED BY <1>1, <1>2, <1>3 DEF Inv

(* The invariant is inductive: one step of the proof per action. *)
LEMMA InvStep == TypeOK /\ Inv /\ [Next]_vars => Inv'
<1> SUFFICES ASSUME TypeOK, Inv, [Next]_vars PROVE Inv'
  OBVIOUS
<1>1. ASSUME NEW r \in Requests, Start(r) PROVE Inv'
  BY <1>1, StartKeeps
<1>2. ASSUME NEW r \in Requests, Step(r) PROVE Inv'
  <2>1. CASE DeleteMiss(r) \/ Load(r) \/ UpsertInTx(r) \/ \E k \in Keys : DeleteInTx(r, k)
    BY <2>1, QuietStepKeeps
  <2>2. CASE \E k \in Keys : DeleteNow(r, k)
    BY <2>2, DeleteNowKeeps
  <2>3. CASE Commit(r) \/ UpsertNow(r)
    BY <2>3, StoreKeeps
  <2>4. CASE Answer(r)
    BY <2>4, AnswerKeeps
  <2> QED BY <1>2, <2>1, <2>2, <2>3, <2>4 DEF Step
<1>3. ASSUME NEW r \in Requests, Fail(r) \/ DeadlockAbort(r) PROVE Inv'
  BY <1>3, AbortKeeps
<1>4. CASE Crash
  BY <1>4, CrashKeeps
<1>5. ASSUME NEW t \in Tokens, Expire(t) PROVE Inv'
  BY <1>5, IdleKeeps DEF Expire
<1>6. CASE UNCHANGED vars
  BY <1>6, IdleKeeps DEF vars, history
<1> QED BY <1>1, <1>2, <1>3, <1>4, <1>5, <1>6 DEF Next

-------------------------------------------------------------------------------
(* The types and the inductive invariant hold in every reachable state. *)
THEOREM Invariance == Spec => [](TypeOK /\ Inv)
<1>1. Init => TypeOK /\ Inv
  BY TypeInit, InvInit
<1>2. TypeOK /\ Inv /\ [Next]_vars => TypeOK' /\ Inv'
  BY TypeStep, InvStep
<1> QED BY <1>1, <1>2, PTL DEF Spec

(* No statement leaves a row, a lock or a cookie of another type. *)
THEOREM Types == Spec => []TypeOK
<1> QED BY Invariance, PTL

(* Every stored token is in the table or was taken out by exactly one       *)
(* committed request: refresh and logout never both take one token.        *)
THEOREM Accounting == Spec => []TokenAccounting
<1>1. TypeOK /\ Inv => TokenAccounting
  BY DEF Inv
<1> QED BY <1>1, Invariance, PTL

(* A refresh that used up its token has stored the successor, and no client *)
(* holds a token that was not committed.                                   *)
THEOREM NoSessionLost == Spec => []TokensStored
<1>1. TypeOK /\ Inv => TokensStored
  BY DEF Inv, TokensStored
<1> QED BY <1>1, Invariance, PTL

(* An answered logout has ended the session of its token. *)
THEOREM LogoutEnds == Spec => []LogoutFinal
<1>1. TypeOK /\ Inv => LogoutFinal
  BY DEF Inv
<1> QED BY <1>1, Invariance, PTL

-------------------------------------------------------------------------------
(* No step brings back a token that has left the table. *)
LEMMA GoneStaysGone ==
  TypeOK /\ Inv /\ [Next]_vars => \A t \in born : t \notin Stored => t \notin Stored'
<1> SUFFICES ASSUME TypeOK, Inv, [Next]_vars
             PROVE  \A t \in born : t \notin Stored => t \notin Stored'
  OBVIOUS
<1>1. CASE UNCHANGED row
  BY <1>1 DEF Stored
<1>2. ASSUME NEW r \in Requests, NEW k \in Keys, DeleteNow(r, k)
      PROVE  \A t \in born : t \notin Stored => t \notin Stored'
  BY <1>2, DeleteNowKeeps
<1>3. ASSUME NEW r \in Requests, Commit(r) \/ UpsertNow(r)
      PROVE  \A t \in born : t \notin Stored => t \notin Stored'
  BY <1>3, StoreKeeps
<1> QED BY <1>1, <1>2, <1>3
        DEF Next, Start, StartIssue, StartDelete, Step, DeleteMiss, DeleteInTx, Load, UpsertInTx,
            Answer, Fail, DeadlockAbort, Abort, Expire, Crash, vars, table

(* A token that left the table never comes back. *)
THEOREM TokensStayGone == Spec => NoResurrection
<1>1. TypeOK /\ Inv /\ [Next]_vars => [\A t \in born : t \notin Stored => t \notin Stored']_vars
  BY GoneStaysGone
<1> QED BY <1>1, Invariance, PTL DEF Spec, NoResurrection

-------------------------------------------------------------------------------
(* Who cannot run its next statement waits for a row of another request,    *)
(* whose transaction is open.                                              *)
LEMMA WaitsForOpen ==
  ASSUME TypeOK, Inv, NEW r \in InFlight, ~Ready(r)
  PROVE  \E q \in InFlight : WaitsFor(r, q)
<1>1. CASE pc[r] = "upsert"
  <2>1. work[r].key \in Keys /\ lock[work[r].key] \notin {None, r}
    BY <1>1 DEF Ready, Free, Inv, WorkOK, InFlight
  <2>2. lock[work[r].key] \in Requests
    BY <2>1 DEF TypeOK
  <2>3. lock[work[r].key] \in InFlight
    BY <2>1, <2>2 DEF Inv, LocksOK, InFlight, Running
  <2> QED BY <1>1, <2>1, <2>2, <2>3 DEF WaitsFor
<1>2. CASE pc[r] = "delete"
  <2>1. PICK k \in Keys : k \in Matching(r) /\ lock[k] \notin {None, r}
    BY <1>2 DEF Ready, Free, Matching
  <2>2. lock[k] \in Requests
    BY <2>1 DEF TypeOK
  <2>3. lock[k] \in InFlight
    BY <2>1, <2>2 DEF Inv, LocksOK, InFlight, Running
  <2> QED BY <1>2, <2>1, <2>2, <2>3 DEF WaitsFor
<1> QED BY <1>1, <1>2 DEF InFlight, Ready, Running

(* Nonempty sets of requests in which everybody waits for somebody. *)
Knots(W) == {S \in SUBSET W : S # {} /\ \A q \in S : \E p \in S : WaitsFor(q, p)}

(* Where there are such sets, there is a smallest. *)
LEMMA SmallestKnot ==
  ASSUME NEW W \in SUBSET Requests, W \in Knots(W)
  PROVE  \E S \in Knots(W) : \A T \in Knots(W) : ~(T \subseteq S /\ T # S)
<1> DEFINE Sizes == {Cardinality(S) : S \in Knots(W)}
           Less == OpToRel(<, Nat)
<1>1. \A S \in Knots(W) : IsFiniteSet(S) /\ Cardinality(S) \in Nat
  <2>1. \A S \in Knots(W) : S \subseteq Requests
    BY DEF Knots
  <2> QED BY <2>1, FiniteAssumption, FS_Subset, FS_CardinalityType
<1>2. Sizes \subseteq Nat /\ Sizes # {}
  BY <1>1
<1>3. IsWellFoundedOn(Less, Nat)
  BY NatLessThanWellFounded
<1>4. \E n \in Sizes : \A m \in Sizes : ~(<<m, n>> \in Less)
  <2> HIDE DEF Sizes, Less
  <2> QED BY <1>2, <1>3, WFMin
<1>5. PICK S \in Knots(W) : \A m \in Sizes : ~(<<m, Cardinality(S)>> \in Less)
  BY <1>4
<1>6. ASSUME NEW T \in Knots(W) PROVE ~(T \subseteq S /\ T # S)
  <2>1. ~(Cardinality(T) < Cardinality(S))
    BY <1>1, <1>5 DEF OpToRel
  <2>2. T \subseteq S => Cardinality(T) <= Cardinality(S) /\ (Cardinality(S) = Cardinality(T) => S = T)
    BY <1>1, FS_Subset
  <2> QED BY <1>1, <2>1, <2>2
<1> QED BY <1>6

(* Where everybody waits for somebody, some of them wait in a cycle: in a    *)
(* smallest such set nobody can be spared, so somebody waits for each.     *)
LEMMA KnotHasCycle ==
  ASSUME NEW W \in SUBSET Requests, W \in Knots(W)
  PROVE  \E r \in W : OnCycle(r)
<1>1. PICK S \in Knots(W) : \A T \in Knots(W) : ~(T \subseteq S /\ T # S)
  BY SmallestKnot
<1>2. /\ S \subseteq W /\ S # {}
      /\ \A q \in S : \E p \in S : WaitsFor(q, p)
  BY DEF Knots
<1>3. ASSUME NEW q \in S PROVE \E p \in S : WaitsFor(p, q)
  <2> SUFFICES ASSUME \A p \in S : ~WaitsFor(p, q) PROVE FALSE
    OBVIOUS
  <2>1. S \ {q} # {}
    BY <1>2 DEF WaitsFor
  <2>2. \A s \in S \ {q} : \E p \in S \ {q} : WaitsFor(s, p)
    BY <1>2
  <2>3. S \ {q} \in Knots(W)
    BY <1>2, <2>1, <2>2 DEF Knots
  <2> QED BY <1>1, <2>3
<1>4. PICK r \in S : TRUE
  BY <1>2
<1>5. S \in SUBSET Requests
  BY <1>2
<1>6. OnCycle(r)
  BY <1>2, <1>3, <1>4, <1>5 DEF OnCycle
<1> QED BY <1>2, <1>6

(* Every waiting request waits, directly or through others, for one that can *)
(* run its next statement or for a cycle PostgreSQL breaks.                *)
THEOREM NobodyStuck == Spec => []NoneStuck
<1>1. ASSUME TypeOK, Inv, NEW W \in SUBSET Requests, Closed(W), W \cap InFlight # {}
      PROVE  \E q \in W : Ready(q) \/ OnCycle(q)
  <2> SUFFICES ASSUME \A q \in W : ~Ready(q) PROVE \E q \in W : OnCycle(q)
    OBVIOUS
  <2> DEFINE V == W \cap InFlight
  <2>1. ASSUME NEW q \in V PROVE \E p \in V : WaitsFor(q, p)
    <3>1. PICK p \in InFlight : WaitsFor(q, p)
      BY <1>1, WaitsForOpen
    <3>2. p \in W
      BY <1>1, <3>1 DEF Closed, InFlight
    <3> QED BY <3>1, <3>2
  <2>2. V \in Knots(V) /\ V \in SUBSET Requests
    BY <1>1, <2>1 DEF Knots
  <2> HIDE DEF V
  <2>3. \E q \in V : OnCycle(q)
    BY <2>2, KnotHasCycle
  <2> QED BY <2>3 DEF V
<1>2. TypeOK /\ Inv => NoneStuck
  BY <1>1 DEF NoneStuck
<1> QED BY <1>2, Invariance, PTL

(* How far a request has come. *)
Rank(l) == CASE l = "idle" -> 0
             [] l = "delete" -> 1
             [] l = "load" -> 2
             [] l = "upsert" -> 3
             [] l = "commit" -> 4
             [] l = "answer" -> 5
             [] OTHER -> 6

OnlyForward == \A r \in Requests : pc'[r] = pc[r] \/ Rank(pc'[r]) > Rank(pc[r])

(* A request never goes back to a statement it has run: it is at its end     *)
(* after six steps at most.  So nobody waits for ever behind requests that  *)
(* go on for ever, and with NoneStuck every one ends (what Answered says).  *)
THEOREM NobodyGoesOnForever == Spec => [][OnlyForward]_vars
<1>1. ASSUME TypeOK, [Next]_vars PROVE [OnlyForward]_vars
  <2> USE <1>1 DEF Running, Final
  <2>1. ASSUME NEW r \in Requests, Start(r) \/ Step(r) PROVE OnlyForward
    <3>1. /\ \A q \in Requests \ {r} : pc'[q] = pc[q]
          /\ \/ pc[r] = "idle" /\ pc'[r] \in {"delete", "upsert"}
             \/ pc[r] = "delete" /\ pc'[r] \in {"refused", "load", "ok", "failed"}
             \/ pc[r] = "load" /\ pc'[r] = "upsert"
             \/ pc[r] = "upsert" /\ pc'[r] \in {"commit", "answer"}
             \/ pc[r] = "commit" /\ pc'[r] = "answer"
             \/ pc[r] = "answer" /\ pc'[r] \in {"ok", "failed"}
      <4>1. CASE Start(r)
        BY <4>1 DEF Start, StartIssue, StartDelete, Goto, TypeOK
      <4>2. CASE DeleteMiss(r) \/ \E k \in Keys : DeleteInTx(r, k) \/ DeleteNow(r, k)
        BY <4>2 DEF DeleteMiss, DeleteInTx, DeleteNow, Goto, TypeOK
      <4>3. CASE Load(r) \/ UpsertInTx(r) \/ UpsertNow(r) \/ Commit(r) \/ Answer(r)
        BY <4>3 DEF Load, UpsertInTx, UpsertNow, Commit, Answer, Goto, TypeOK
      <4> QED BY <2>1, <4>1, <4>2, <4>3 DEF Step
    <3> QED BY <3>1 DEF OnlyForward, Rank
  <2>2. ASSUME NEW r \in Requests, Fail(r) \/ DeadlockAbort(r) PROVE OnlyForward
    <3>1. pc[r] \in Running
      BY <2>2 DEF Fail, DeadlockAbort, OnCycle, WaitsFor
    <3>2. \A q \in Requests : pc'[q] = IF q = r THEN "failed" ELSE pc[q]
      BY <2>2 DEF Fail, DeadlockAbort, Abort, Goto, TypeOK
    <3> QED BY <3>1, <3>2 DEF OnlyForward, Rank
  <2>3. CASE Crash
    <3>1. \A q \in Requests :
            pc'[q] = IF pc[q] \in Running \cup {"answer"} THEN "failed" ELSE pc[q]
      BY <2>3 DEF Crash
    <3> QED BY <3>1 DEF OnlyForward, Rank
  <2>4. ASSUME NEW t \in Tokens, Expire(t) PROVE OnlyForward
    BY <2>4 DEF Expire, OnlyForward
  <2> QED BY <2>1, <2>2, <2>3, <2>4 DEF Next
<1>2. TypeOK /\ [Next]_vars => [OnlyForward]_vars
  BY <1>1
<1> QED BY <1>2, Types, PTL DEF Spec

-------------------------------------------------------------------------------
(* The refinement: what SessionStore sees as exchanged and revoked. *)
Exchanged == {<<req[r].tok, work[r].new>> : r \in Consumed("refresh")}
Revoked == {req[r].tok : r \in Consumed("logout")}

(* The tables agree at the start. *)
LEMMA StoreInit == Init => Store!Init
<1> SUFFICES ASSUME Init PROVE Store!Init
  OBVIOUS
<1>1. Exchanged = {} /\ Revoked = {}
  BY DEF Init, Exchanged, Revoked, Consumed, NoCall
<1>2. row \in [Keys -> Tokens \cup {None}] /\ born = Stored
  BY DEF Init, Tokens
<1> QED BY <1>1, <1>2 DEF Store!Init, Store!Keys, Store!Stored, Init, Keys, Stored, Exchanged, Revoked

(* A step that commits nothing is invisible to SessionStore: a request that *)
(* still changes its call or its work has taken no token out yet.          *)
LEMMA HiddenStep ==
  ASSUME TypeOK, Inv, UNCHANGED <<row, born, removedBy>>,
         \A q \in Requests : \/ UNCHANGED <<req[q], work[q]>>
                             \/ pc[q] \in {"idle"} \cup Running
  PROVE  UNCHANGED Store!vars
<1>1. ASSUME NEW q \in Requests, NEW op \in {"refresh", "logout"}
      PROVE  /\ q \in Consumed(op)' <=> q \in Consumed(op)
             /\ q \in Consumed(op) => UNCHANGED <<req[q], work[q]>>
  BY DEF Inv, HistoryOK, Consumed, TypeOK
<1>2. Consumed("refresh")' = Consumed("refresh") /\ Consumed("logout")' = Consumed("logout")
  BY <1>1 DEF Consumed
<1>3. Exchanged' = Exchanged /\ Revoked' = Revoked
  BY <1>1, <1>2 DEF Exchanged, Revoked, Consumed
<1> QED BY <1>3 DEF Store!vars, Exchanged, Revoked

(* What Write adds to the history of the requests' own tokens is r alone. *)
LEMMA WriteConsumes ==
  ASSUME TypeOK, NEW r \in Requests, NEW D \in SUBSET Keys, NEW k \in Keys,
         NEW n, Write(r, D, k, n), UNCHANGED <<req, work>>
  PROVE  /\ Consumed("refresh")' = IF req[r].op = "refresh" /\ req[r].tok \in Tokens
                                   THEN Consumed("refresh") \cup {r} ELSE Consumed("refresh")
         /\ Consumed("logout")' = IF req[r].op = "logout" /\ req[r].tok \in Tokens
                                  THEN Consumed("logout") \cup {r} ELSE Consumed("logout")
<1>1. \A q \in Requests : req[q].tok \in Tokens =>
        (q \in removedBy'[req[q].tok] <=> q \in removedBy[req[q].tok] \/ q = r)
  BY DEF Write, TypeOK
<1> QED BY <1>1 DEF Consumed

(* A logout's DELETE is SessionStore's Revoke. *)
LEMMA RevokeStep ==
  ASSUME TypeOK, Inv, NEW r \in Requests, NEW k \in Keys, DeleteNow(r, k)
  PROVE  Store!Revoke(k)
<1> DEFINE D == {k}
<1>1. /\ req[r].op = "logout" /\ row[k] = req[r].tok /\ row[k] \in Tokens
      /\ D \in SUBSET Keys /\ Write(r, D, k, None) /\ UNCHANGED <<req, work>>
  BY DEF Inv, DeleteNow, Matching, InTx, CallOK, TypeOK
<1>2. row' = [row EXCEPT ![k] = None] /\ born' = born
  BY <1>1 DEF Write, TypeOK
<1> HIDE DEF D
<1>3. /\ Consumed("refresh")' = Consumed("refresh")
      /\ Consumed("logout")' = Consumed("logout") \cup {r}
  BY <1>1, WriteConsumes
<1>4. Exchanged' = Exchanged /\ Revoked' = Revoked \cup {row[k]}
  BY <1>1, <1>3 DEF Exchanged, Revoked
<1> QED BY <1>1, <1>2, <1>4, NoneAssumption DEF Store!Revoke, Exchanged, Revoked

(* Committing a login or a verification is SessionStore's Issue. *)
LEMMA IssueStep ==
  ASSUME TypeOK, Inv, NEW r \in Requests, Commit(r) \/ UpsertNow(r), req[r].op # "refresh"
  PROVE  Store!Issue(Dest(r), Uuid(r))
<1>1. StoreReady(r)
  BY StoreFacts
<1>2. /\ req[r].op \notin {"refresh", "logout"} /\ Dead(r) = {}
      /\ row' = [row EXCEPT ![Dest(r)] = Uuid(r)] /\ born' = born \cup {Uuid(r)}
  BY <1>1 DEF StoreReady, Write, WorkOK, Dead, TypeOK
<1>3. Consumed("refresh")' = Consumed("refresh") /\ Consumed("logout")' = Consumed("logout")
  BY <1>1, <1>2, WriteConsumes DEF StoreReady
<1>4. Exchanged' = Exchanged /\ Revoked' = Revoked
  BY <1>1, <1>3 DEF StoreReady, Exchanged, Revoked
<1> QED BY <1>1, <1>2, <1>4 DEF StoreReady, Store!Issue, Exchanged, Revoked

(* Committing a refresh is SessionStore's Rotate. *)
LEMMA RotateStep ==
  ASSUME TypeOK, Inv, NEW r \in Requests, Commit(r), req[r].op = "refresh"
  PROVE  Store!Rotate(work[r].del, Dest(r), Uuid(r))
<1> DEFINE j == work[r].del
<1>1. StoreReady(r) /\ pc[r] = "commit"
  BY StoreFacts DEF Commit
<1>2. j \in Keys /\ j[1] = Dest(r)[1] /\ row[j] = req[r].tok /\ req[r].tok \in Tokens
  BY <1>1 DEF StoreReady, WorkOK, CallOK, Dest, TypeOK
<1>3. row' = [row EXCEPT ![j] = None, ![Dest(r)] = Uuid(r)] /\ born' = born \cup {Uuid(r)}
  <2>1. Dead(r) = {j}
    BY <1>2, NoneAssumption DEF Dead
  <2>2. \A i \in Keys : row'[i] = IF i = Dest(r) THEN Uuid(r) ELSE IF i = j THEN None ELSE row[i]
    BY <1>1, <2>1 DEF StoreReady, Write
  <2>3. row' = [i \in Keys |-> row'[i]]
    BY <1>1 DEF StoreReady, Write
  <2>4. born' = born \cup {Uuid(r)}
    BY <1>1 DEF StoreReady, Write
  <2> HIDE DEF j
  <2> QED BY <1>2, <2>2, <2>3, <2>4 DEF TypeOK
<1>4. /\ Consumed("refresh")' = Consumed("refresh") \cup {r}
      /\ Consumed("logout")' = Consumed("logout")
  BY <1>1, <1>2, WriteConsumes DEF StoreReady
<1>5. Exchanged' = Exchanged \cup {<<row[j], Uuid(r)>>} /\ Revoked' = Revoked
  BY <1>1, <1>2, <1>4 DEF StoreReady, Exchanged, Revoked
<1> QED BY <1>1, <1>2, <1>3, <1>5, NoneAssumption
        DEF StoreReady, Store!Rotate, Exchanged, Revoked

(* Every step is one of SessionStore or leaves its table alone. *)
LEMMA StoreStep == TypeOK /\ Inv /\ [Next]_vars => [Store!Next]_Store!vars
<1> SUFFICES ASSUME TypeOK, Inv, [Next]_vars PROVE [Store!Next]_Store!vars
  OBVIOUS
<1> USE DEF Running, table, history
<1>1. ASSUME NEW r \in Requests, Start(r) PROVE UNCHANGED Store!vars
  <2>1. /\ UNCHANGED <<row, born, removedBy>> /\ pc[r] = "idle"
        /\ \A q \in Requests \ {r} : UNCHANGED <<req[q], work[q]>>
    BY <1>1 DEF Start, StartIssue, StartDelete, TypeOK
  <2> QED BY <2>1, HiddenStep
<1>2. ASSUME NEW r \in Requests,
             \/ DeleteMiss(r) \/ Load(r) \/ UpsertInTx(r) \/ Answer(r)
             \/ \E k \in Keys : DeleteInTx(r, k)
      PROVE  UNCHANGED Store!vars
  <2>1. /\ UNCHANGED <<row, born, removedBy, req>>
        /\ UNCHANGED work \/ pc[r] \in Running
        /\ \A q \in Requests \ {r} : UNCHANGED work[q]
    BY <1>2 DEF DeleteMiss, Load, UpsertInTx, Answer, DeleteInTx, TypeOK
  <2> QED BY <2>1, HiddenStep
<1>3. ASSUME NEW r \in Requests, NEW k \in Keys, DeleteNow(r, k) PROVE Store!Next
  BY <1>3, RevokeStep DEF Store!Next, Store!Keys, Keys
<1>4. ASSUME NEW r \in Requests, Commit(r) \/ UpsertNow(r) PROVE Store!Next
  <2>1. StoreReady(r)
    BY <1>4, StoreFacts
  <2>2. CASE req[r].op # "refresh"
    BY <1>4, <2>1, <2>2, IssueStep DEF StoreReady, Store!Next, Store!Keys, Keys
  <2>3. CASE req[r].op = "refresh"
    <3>1. Commit(r) /\ work[r].del \in Keys
      BY <1>4, <2>1, <2>3 DEF StoreReady, UpsertNow, InTx, WorkOK
    <3>2. Store!Rotate(work[r].del, Dest(r), Uuid(r))
      BY <2>3, <3>1, RotateStep
    <3> QED BY <2>1, <3>1, <3>2 DEF StoreReady, Store!Next, Store!Keys, Keys
  <2> QED BY <2>2, <2>3
<1>5. CASE \/ \E r \in Requests : Fail(r) \/ DeadlockAbort(r)
           \/ \E t \in Tokens : Expire(t)
           \/ Crash \/ UNCHANGED vars
  <2>1. UNCHANGED <<row, born, removedBy, req, work>>
    BY <1>5 DEF Fail, DeadlockAbort, Abort, Expire, Crash, vars
  <2> QED BY <2>1, HiddenStep
<1> QED BY <1>1, <1>2, <1>3, <1>4, <1>5 DEF Next, Step

(* The concurrent requests implement the table SessionStore specifies: each *)
(* commit is one Issue, Rotate or Revoke, every other step is a stutter.   *)
THEOREM Refinement == Spec => StoreSpec
<1>1. Init => Store!Init
  BY StoreInit
<1>2. TypeOK /\ Inv /\ [Next]_vars => [Store!Next]_Store!vars
  BY StoreStep
<1> QED BY <1>1, <1>2, Invariance, PTL DEF Spec, StoreSpec, Store!Spec
===============================================================================
