-------------------------------- MODULE Brands --------------------------------
(***************************************************************************)
(* CreateBrand, UpdateBrand, DeleteBrand and GetUserBrand of               *)
(* internal/market/brand over the table "brands" and its child tables      *)
(* (states, sub-sections, documents, socials), with the business profile   *)
(* whose verification publishing asks for.                                 *)
(*                                                                         *)
(* An update rewrites a row and its lists in one transaction of many       *)
(* statements; an answer is put together from one SELECT per table, on the *)
(* pool, each with a snapshot of its own.                                  *)
(***************************************************************************)
EXTENDS Naturals

CONSTANTS
  Requests, OldBrands, Users, Names,
  ListCount,  \* the child tables: four in the schema
  Drafts,     \* what the bodies of requests may say
  None

Lists == 1..ListCount

(* A brand created by request r has the identity r.  A brand's row and list  *)
(* rows are named by who wrote them: a request, or the older brand itself.  *)
Brands == OldBrands \cup Requests

(* What a writer writes; "full" are the lists with at least one element. *)
Data == [owner: Users, name: Names, published: BOOLEAN, full: SUBSET Lists]
NoData == [owner |-> None, name |-> None, published |-> FALSE, full |-> {}]
Caller(u) == [NoData EXCEPT !.owner = u]

ASSUME ListAssumption == ListCount \in Nat \ {0}
ASSUME DraftAssumption == Drafts \subseteq Data
ASSUME NoneAssumption == /\ None \notin Brands \cup Users \cup Names
                         /\ None \notin [row: Brands, lists: [Lists -> SUBSET Brands]]
ASSUME FreshAssumption == Requests \cap OldBrands = {}

VARIABLES
  rows,       \* table brands: the writer of each committed row, or None
  lists,      \* the child tables: whose list rows are committed for each brand
  lock,       \* the transaction holding a brand's row, or None
  profile,    \* business_profiles: None, "unverified" or "verified"
  data,       \* what each writer writes (a constant once it is known)
  pc,         \* where each request is
  call,       \* its operation and brand
  step,       \* the child table it deletes from or reads next
  dead,       \* the list rows its open transaction has deleted
  got,        \* the parts of the brand it has read: 0 is the row
  seen,       \* history: the rows its name check looked at
  superseded, \* history: the writers whose row was overwritten or deleted
  lapsed      \* history: publishing writers whose owner lost the verification since

tables == <<rows, lists, lock>>
history == <<seen, superseded, lapsed>>
vars == <<tables, profile, data, pc, call, step, dead, got, history>>

Ops == {"none", "create", "update", "delete", "get"}
NoLists == [i \in Lists |-> {}]
NoParts == [i \in 0..ListCount |-> {}]

(* The list rows writer w leaves behind in child table i. *)
ListRows(w, i) == IF i \in data[w].full THEN {w} ELSE {}
Live == {b \in Brands : rows[b] # None}

Init ==
  /\ data \in [Brands -> Drafts \cup {NoData}]
  /\ \A b \in Brands : b \in Requests <=> data[b] = NoData
  /\ \A a, b \in OldBrands : a # b => data[a].name # data[b].name
  /\ rows = [b \in Brands |-> IF b \in OldBrands THEN b ELSE None]
  /\ lists = [b \in Brands |-> [i \in Lists |-> ListRows(b, i)]]
  /\ lock = [b \in Brands |-> None]
  /\ profile \in [Users -> {None, "unverified", "verified"}]
  /\ \A b \in OldBrands : profile[data[b].owner] # None
  /\ pc = [r \in Requests |-> "idle"]
  /\ call = [r \in Requests |-> [op |-> "none", brand |-> None]]
  /\ step = [r \in Requests |-> 1]
  /\ dead = [r \in Requests |-> NoLists]
  /\ got = [r \in Requests |-> NoParts]
  /\ seen = [r \in Requests |-> {}]
  /\ superseded = {}
  /\ lapsed = {b \in OldBrands : data[b].published /\ profile[data[b].owner] = "unverified"}

-------------------------------------------------------------------------------
Goto(r, l) == pc' = [pc EXCEPT ![r] = l]
Target(r) == call[r].brand

(* ... WHERE id=$1 AND user_id=$2 *)
Owned(r) == /\ rows[Target(r)] # None
            /\ data[rows[Target(r)]].owner = data[r].owner

(* The request arrives, past decoding and validation. *)
Take(r, op, b, d, l) ==
  /\ call' = [call EXCEPT ![r] = [op |-> op, brand |-> b]]
  /\ data' = [data EXCEPT ![r] = d]
  /\ Goto(r, l)
  /\ UNCHANGED <<tables, profile, step, dead, got, history>>

Create(r) == pc[r] = "idle" /\ \E d \in Drafts : Take(r, "create", r, d, "profile")

Other(r) == Brands \ {r}
Update(r) == pc[r] = "idle" /\ \E d \in Drafts, b \in Other(r) : Take(r, "update", b, d, "exists")
Delete(r) == pc[r] = "idle" /\ \E u \in Users, b \in Other(r) : Take(r, "delete", b, Caller(u), "exists")
Get(r) == pc[r] = "idle" /\ \E u \in Users, b \in Other(r) : Take(r, "get", b, Caller(u), "row")

(* CheckBrandExists *)
CheckBrandExists(r) ==
  /\ pc[r] = "exists"
  /\ Goto(r, IF ~Owned(r) THEN "done" ELSE IF call[r].op = "delete" THEN "delete" ELSE "profile")
  /\ UNCHANGED <<tables, profile, data, call, step, dead, got, history>>

(* Operators named Bug... are mistakes the properties have to notice. *)
BugAnyProfile(r) == profile[data[r].owner] # None

(* CheckBusinessProfileExists: verified, if the brand is to be published. *)
ProfileFits(r) == /\ profile[data[r].owner] # None
                  /\ data[r].published => profile[data[r].owner] = "verified"

CheckBusinessProfileExists(r) ==
  /\ pc[r] = "profile"
  /\ Goto(r, IF ProfileFits(r) THEN "name" ELSE "done")
  /\ lapsed' = lapsed \ {r}
  /\ UNCHANGED <<tables, profile, data, call, step, dead, got, seen, superseded>>

(* CheckBrandNameIsAvailable, against the brands of all users but the one   *)
(* that is updated.                                                        *)
OtherRows(r) == {rows[b] : b \in Live \ {Target(r)}}
BugOwnBrands(r) == {w \in OtherRows(r) : data[w].owner = data[r].owner}
Rivals(r) == OtherRows(r)

CheckBrandNameIsAvailable(r) ==
  /\ pc[r] = "name"
  /\ LET free == \A w \in Rivals(r) : data[w].name # data[r].name
     IN  Goto(r, IF free THEN "write" ELSE "done")
  /\ seen' = [seen EXCEPT ![r] = OtherRows(r)]
  /\ UNCHANGED <<tables, profile, data, call, step, dead, got, superseded, lapsed>>

(* BEGIN; INSERT INTO brands: nobody else can see or lock the new row. *)
InsertRow(r) ==
  /\ pc[r] = "write" /\ call[r].op = "create"
  /\ Goto(r, "commit")
  /\ UNCHANGED <<tables, profile, data, call, step, dead, got, history>>

(* The lists are rewritten before the row is locked. *)
BugLocksLate(r) ==
  /\ pc[r] = "write" /\ call[r].op = "update"
  /\ IF Owned(r) THEN lock' = [lock EXCEPT ![Target(r)] = r] /\ Goto(r, "clear")
                 ELSE UNCHANGED lock /\ Goto(r, "done")
  /\ step' = [step EXCEPT ![r] = 1]
  /\ UNCHANGED <<rows, lists, profile, data, call, dead, got, history>>

(* A missing row is inserted. *)
BugUpsert(r) ==
  /\ pc[r] = "write" /\ call[r].op = "update" /\ lock[Target(r)] = None
  /\ lock' = [lock EXCEPT ![Target(r)] = r]
  /\ Goto(r, "clear")
  /\ step' = [step EXCEPT ![r] = 1]
  /\ UNCHANGED <<rows, lists, profile, data, call, dead, got, history>>

(* BEGIN; UPDATE brands: waits for the lock of another transaction and finds *)
(* no row if the brand is deleted by then.                                 *)
UpdateRow(r) ==
  /\ pc[r] = "write" /\ call[r].op = "update" /\ lock[Target(r)] = None
  /\ IF Owned(r) THEN lock' = [lock EXCEPT ![Target(r)] = r] /\ Goto(r, "clear")
                 ELSE UNCHANGED lock /\ Goto(r, "done")
  /\ step' = [step EXCEPT ![r] = 1]
  /\ UNCHANGED <<rows, lists, profile, data, call, dead, got, history>>

(* One child table is forgotten. *)
BugOneListKept(r) ==
  /\ pc[r] = "clear"
  /\ dead' = [dead EXCEPT ![r][step[r]] = lists[Target(r)][step[r]]]
  /\ step' = [step EXCEPT ![r] = @ + 1]
  /\ Goto(r, IF step[r] >= ListCount - 1 THEN "commit" ELSE "clear")
  /\ UNCHANGED <<tables, profile, data, call, got, history>>

(* DELETE FROM brands_...: the rows that are committed when it runs. *)
ClearList(r) ==
  /\ pc[r] = "clear"
  /\ dead' = [dead EXCEPT ![r][step[r]] = lists[Target(r)][step[r]]]
  /\ step' = [step EXCEPT ![r] = @ + 1]
  /\ Goto(r, IF step[r] = ListCount THEN "commit" ELSE "clear")
  /\ UNCHANGED <<tables, profile, data, call, got, history>>

(* What becomes of brand b's lists when r's transaction takes effect. *)
Rewritten(r) == [i \in Lists |-> (lists[Target(r)][i] \ dead[r][i]) \cup ListRows(r, i)]

(* createBrandRelatedEntities, one batch per list that is not empty, and     *)
(* COMMIT.  Nobody sees the batches before the commit; one that fails (the  *)
(* documents may name a URL twice) is Fail.                                *)
Commit(r) ==
  /\ pc[r] = "commit"
  /\ rows' = [rows EXCEPT ![Target(r)] = r]
  /\ lists' = [lists EXCEPT ![Target(r)] = Rewritten(r)]
  /\ lock' = [lock EXCEPT ![Target(r)] = None]
  /\ superseded' = superseded \cup ({rows[Target(r)]} \ {None})
  /\ dead' = [dead EXCEPT ![r] = NoLists]
  /\ Goto(r, "row")
  /\ UNCHANGED <<profile, data, call, step, got, seen, lapsed>>

(* DELETE without its conditions. *)
BugDeletesAny(r) ==
  /\ pc[r] = "delete" /\ lock[Target(r)] = None
  /\ rows' = [rows EXCEPT ![Target(r)] = None]
  /\ lists' = [lists EXCEPT ![Target(r)] = NoLists]
  /\ superseded' = superseded \cup {rows[Target(r)]}
  /\ Goto(r, "done")
  /\ UNCHANGED <<lock, profile, data, call, step, dead, got, seen, lapsed>>

(* DELETE FROM brands, in autocommit; the foreign keys cascade.  A brand     *)
(* that is gone by then is no error.                                       *)
DeleteBrand(r) ==
  /\ pc[r] = "delete" /\ lock[Target(r)] = None
  /\ IF Owned(r) THEN /\ rows' = [rows EXCEPT ![Target(r)] = None]
                      /\ lists' = [lists EXCEPT ![Target(r)] = NoLists]
                      /\ superseded' = superseded \cup {rows[Target(r)]}
                 ELSE UNCHANGED <<rows, lists, superseded>>
  /\ Goto(r, "done")
  /\ UNCHANGED <<lock, profile, data, call, step, dead, got, seen, lapsed>>

(* GetUserBrand: the row, then one child table after the other. *)
ReadRow(r) ==
  /\ pc[r] = "row"
  /\ IF Owned(r) THEN /\ got' = [got EXCEPT ![r][0] = {rows[Target(r)]}]
                      /\ Goto(r, "lists")
                 ELSE UNCHANGED got /\ Goto(r, "done")
  /\ step' = [step EXCEPT ![r] = 1]
  /\ UNCHANGED <<tables, profile, data, call, dead, history>>

ReadList(r) ==
  /\ pc[r] = "lists"
  /\ got' = [got EXCEPT ![r][step[r]] = lists[Target(r)][step[r]]]
  /\ step' = [step EXCEPT ![r] = @ + 1]
  /\ Goto(r, IF step[r] = ListCount THEN "done" ELSE "lists")
  /\ UNCHANGED <<tables, profile, data, call, dead, history>>

(* A statement, a batch or the commit fails, the client leaves, the server   *)
(* stops, or a reference table lacks an id: an open transaction rolls back. *)
(* A COMMIT whose answer is lost is Commit, then Fail.                     *)
Fail(r) ==
  /\ pc[r] \notin {"idle", "done"}
  /\ Goto(r, "done")
  /\ lock' = [b \in Brands |-> IF lock[b] = r THEN None ELSE lock[b]]
  /\ dead' = [dead EXCEPT ![r] = NoLists]
  /\ UNCHANGED <<rows, lists, profile, data, call, step, got, history>>

(* UpdateBusinessProfile: whatever its owner edits is no longer verified;    *)
(* AdminUpdateBusinessProfile decides, for a profile there is.  Both upsert *)
(* in one statement, and a profile is never deleted.                       *)
Unverify(u) ==
  /\ profile' = [profile EXCEPT ![u] = "unverified"]
  /\ lapsed' = lapsed \cup {w \in Brands : data[w].owner = u /\ data[w].published}
  /\ UNCHANGED <<tables, data, pc, call, step, dead, got, seen, superseded>>

UpdateBusinessProfile(u) == Unverify(u)

AdminUpdateBusinessProfile(u) ==
  /\ profile[u] # None
  /\ \/ Unverify(u)
     \/ /\ profile' = [profile EXCEPT ![u] = "verified"]
        /\ UNCHANGED <<tables, data, pc, call, step, dead, got, history>>

-------------------------------------------------------------------------------
Arrive(r) == Create(r) \/ Update(r) \/ Delete(r) \/ Get(r)

Proceed(r) ==
  \/ CheckBrandExists(r) \/ CheckBusinessProfileExists(r) \/ CheckBrandNameIsAvailable(r)
  \/ InsertRow(r) \/ UpdateRow(r) \/ ClearList(r) \/ Commit(r) \/ DeleteBrand(r)
  \/ ReadRow(r) \/ ReadList(r)

Next ==
  \/ \E r \in Requests : Arrive(r) \/ Proceed(r) \/ Fail(r)
  \/ \E u \in Users : UpdateBusinessProfile(u) \/ AdminUpdateBusinessProfile(u)

(* A goroutine whose next statement can run does run it. *)
Fairness == \A r \in Requests : WF_vars(Proceed(r))

Spec == Init /\ [][Next]_vars
FairSpec == Spec /\ Fairness

-------------------------------------------------------------------------------
TypeOK ==
  /\ rows \in [Brands -> Brands \cup {None}]
  /\ lists \in [Brands -> [Lists -> SUBSET Brands]]
  /\ lock \in [Brands -> Requests \cup {None}]
  /\ profile \in [Users -> {None, "unverified", "verified"}]
  /\ data \in [Brands -> [owner: Users \cup {None}, name: Names \cup {None},
                           published: BOOLEAN, full: SUBSET Lists]]
  /\ pc \in [Requests -> {"idle", "exists", "profile", "name", "write", "clear", "commit",
                           "delete", "row", "lists", "done"}]
  /\ call \in [Requests -> [op: Ops, brand: Brands \cup {None}]]
  /\ step \in [Requests -> 1..(ListCount + 1)]
  /\ dead \in [Requests -> [Lists -> SUBSET Brands]]
  /\ got \in [Requests -> [0..ListCount -> SUBSET Brands]]
  /\ seen \in [Requests -> SUBSET Brands]
  /\ superseded \subseteq Brands
  /\ lapsed \subseteq Brands

(* Concurrent UpdateBrand and DeleteBrand, and failures between their        *)
(* statements, never leave the row of one request with list rows of         *)
(* another, nor list rows without a brand.                                 *)
WholeBrand ==
  \A b \in Brands, i \in Lists :
    lists[b][i] = IF rows[b] = None THEN {} ELSE ListRows(rows[b], i)

(* GetUserBrand reads each table on its own, so its answer may mix versions, *)
(* but only forward: a part read later is of the same version unless that   *)
(* one is overwritten or deleted by then.  A create or an update answers    *)
(* with what it wrote or something newer.                                  *)
Parts(r) == IF got[r][0] = {} THEN {} ELSE 0..(step[r] - 1)

Forward(r) ==
  /\ \A i, j \in Parts(r) : i < j =>
       \A w \in got[r][i] : w \in superseded \/ got[r][j] = ListRows(w, j)
  /\ call[r].op \in {"create", "update"} => \A w \in got[r][0] : w = r \/ r \in superseded

AnswerForward == \A r \in Requests : Forward(r)

(* There is no unique index on names, but of two brands with one name        *)
(* neither was there when the other's name was checked.                    *)
NamesChecked ==
  \A a, b \in Live :
    a # b /\ rows[b] \in Requests /\ data[rows[a]].name = data[rows[b]].name
      => rows[a] \notin seen[rows[b]]

(* A brand is published only if its owner's profile was verified when its    *)
(* writer asked; the profile may have lost that since (CreateBrand,         *)
(* UpdateBrand against UpdateBusinessProfile).                             *)
PublishedAllowed ==
  \A b \in Live : LET w == rows[b] IN
    data[w].published => profile[data[w].owner] = "verified" \/ w \in lapsed

(* Brands as one thing each: what the row and its child tables stand for. *)
store == [b \in Brands |->
            IF rows[b] = None /\ lists[b] = NoLists THEN None
                                                    ELSE [row |-> rows[b], lists |-> lists[b]]]
written == superseded \cup {rows[b] : b \in Live}

Store == INSTANCE BrandStore WITH used <- written

(* The statements over five tables implement a store of whole brands. *)
BrandSpec == Store!Spec

(* The parts of the inductive invariant.  A row is of the request that was   *)
(* sent for it, and who was overwritten is in no row.                      *)
RowsOK ==
  /\ \A b \in Live : /\ b \in written
                     /\ rows[b] \notin superseded
                     /\ IF rows[b] \in Requests THEN Target(rows[b]) = b ELSE rows[b] = b
  /\ \A r \in Requests : r \in written =>
       pc[r] \in {"row", "lists", "done"} /\ call[r].op \in {"create", "update"}
  /\ \A w \in written : data[w] \in Drafts

Writing(r) == pc[r] \in {"clear", "commit"}

(* A row that is locked is being updated, and nobody else changes its lists. *)
LocksOK ==
  /\ \A b \in Brands : lock[b] # None =>
       Target(lock[b]) = b /\ b \in Live /\ call[lock[b]].op = "update" /\ Writing(lock[b])
  /\ \A r \in Requests : Writing(r) /\ call[r].op = "update" =>
       /\ lock[Target(r)] = r
       /\ \A i \in Lists : i < step[r] => dead[r][i] = lists[Target(r)][i]

(* Where a request is, and what its checks found. *)
CallOK(r) ==
  /\ pc[r] = "idle" <=> call[r].op = "none"
  /\ pc[r] = "idle" => data[r] = NoData
  /\ pc[r] = "exists" => call[r].op \in {"update", "delete"}
  /\ pc[r] = "delete" => call[r].op = "delete"
  /\ pc[r] = "clear" => call[r].op = "update"
  /\ pc[r] \in {"profile", "name", "write", "clear", "commit"} => call[r].op \in {"create", "update"}
  /\ call[r].op \in {"create", "update"} => data[r] \in Drafts
  /\ call[r].op = "create" => Target(r) = r
  /\ call[r].op \in {"update", "delete", "get"} => Target(r) \in Other(r)
  /\ pc[r] \in {"clear", "lists"} => step[r] \in Lists
  /\ pc[r] = "commit" /\ call[r].op = "update" => step[r] = ListCount + 1
  /\ pc[r] = "row" /\ call[r].op # "get" => r \in written
  /\ seen[r] \subseteq written
  /\ pc[r] \in {"write", "clear", "commit"} => \A w \in seen[r] : data[w].name # data[r].name
  /\ pc[r] \in {"name", "write", "clear", "commit"} /\ data[r].published =>
       profile[data[r].owner] = "verified" \/ r \in lapsed

(* What was read is still there or has been superseded. *)
PartsOK(r) ==
  /\ pc[r] \notin {"lists", "done"} => got[r][0] = {}
  /\ \A i \in Parts(r) : \A w \in got[r][i] : w \in superseded \/ rows[Target(r)] = w

Inv == /\ RowsOK /\ LocksOK
       /\ \A r \in Requests : CallOK(r) /\ PartsOK(r)
       /\ WholeBrand /\ AnswerForward /\ NamesChecked /\ PublishedAllowed

(* Every request is answered: nobody waits for a row lock for ever. *)
Answered == \A r \in Requests : pc[r] # "idle" ~> pc[r] = "done"
===============================================================================
