------------------------------- MODULE Profiles -------------------------------
(***************************************************************************)
(* The profiles of internal/user: GetByID, UpdateProfile, SaveProfileInfo, *)
(* GetUserBusinessProfile, UpdateBusinessProfile and its administrator's   *)
(* variant over the tables "users" and "business_profiles", with the       *)
(* reference tables they point to and the lists a client picks from.       *)
(*                                                                         *)
(* A handler checks each link in a statement of its own, writes in another *)
(* and answers with what a third one reads.  Reference rows and is_admin   *)
(* have no handler: the operator changes them under the requests.          *)
(***************************************************************************)
CONSTANTS
  Requests, Users,
  Owners,                      \* the users whose profiles the requests are about
  Countries, States, Regions,  \* the reference tables of places
  Above,                       \* country_id of a state, state_id of a region
  Forms,                       \* the links the bodies of requests may name
  Deletable,                   \* the reference rows the operator may delete
  None

Kinds == {"country", "state", "region"}
Table == [k \in Kinds |-> CASE k = "country" -> Countries [] k = "state" -> States
                            [] k = "region" -> Regions]
Refs == UNION {Table[k] : k \in Kinds}

(* The foreign keys of a row, or of a request's body; None is NULL, or left out. *)
Links == {at \in [Kinds -> Refs \cup {None}] : \A k \in Kinds : at[k] \in Table[k] \cup {None}}
NoLinks == [k \in Kinds |-> None]
Full(at) == \A k \in Kinds : at[k] # None

ASSUME NoneAssumption == /\ None \notin Refs \cup Requests
                         /\ \A j, k \in Kinds : j # k => Table[j] \cap Table[k] = {}
ASSUME AboveAssumption == /\ DOMAIN Above = States \cup Regions
                          /\ \A s \in States : Above[s] \in Countries
                          /\ \A g \in Regions : Above[g] \in States
ASSUME BoundAssumption == Owners \subseteq Users /\ Forms \subseteq Links /\ Deletable \subseteq Refs

VARIABLES
  refs,      \* the rows of the reference tables
  users,     \* table users: username set, links, and (history) the requests that wrote it
  business,  \* table business_profiles: a row, or None
  admins,    \* the users with is_admin
  pc,        \* where each request is
  call,      \* its operation, the caller, whose profile, the body
  answer,    \* history: the writes that made the row it answers with
  before,    \* history: the requests that had ended when it began
  entitled   \* history: the requests whose caller was an administrator since they began

tables == <<refs, users, business, admins>>
vars == <<tables, pc, call, answer, before, entitled>>

UserRow == [named: BOOLEAN, at: Links, taken: SUBSET Requests]
(* by is the request whose data the row holds, None for an older row.      *)
ProfileRow == [by: Requests \cup {None}, at: Links, verified: BOOLEAN, taken: SUBSET Requests]

ASSUME RowAssumption == None \notin ProfileRow

Reads == {"GetByID", "GetUserBusinessProfile"}
UserWrites == {"UpdateProfile", "SaveProfileInfo"}
Upserts == {"UpdateBusinessProfile", "AdminUpdateBusinessProfile"}
Ops == Reads \cup UserWrites \cup Upserts \cup {"none", "browse"}
OfUsers == {"GetByID"} \cup UserWrites

NoCall == [op |-> "none", user |-> None, of |-> None, at |-> NoLinks, verified |-> FALSE]

(* What the three tests of a business location ask of the reference tables. *)
Chain(at) == /\ at["state"] = Above[at["region"]]
             /\ at["country"] = Above[at["state"]]

OldProfiles == [by: {None}, at: {at \in Links : Full(at) /\ Chain(at)}, verified: BOOLEAN, taken: {{}}]

Init ==
  /\ refs = Refs
  /\ users \in [Owners -> [named: BOOLEAN, at: {NoLinks}, taken: {{}}]]
  /\ business \in [Owners -> OldProfiles \cup {None}]
  /\ admins \in SUBSET Users
  /\ pc = [r \in Requests |-> "idle"]
  /\ call = [r \in Requests |-> NoCall]
  /\ answer = [r \in Requests |-> {}]
  /\ before = [r \in Requests |-> {}]
  /\ entitled = {}

-------------------------------------------------------------------------------
Goto(r, l) == pc' = [pc EXCEPT ![r] = l]

(* "lost": the client has her error, the database still runs the write.    *)
Ended == {"done", "refused", "failed", "lost"}

(* A request arrives, past the token, decoding and validation. *)
Begin(r, op, u, v, at, ok, l) ==
  /\ pc[r] = "idle"
  /\ call' = [call EXCEPT ![r] = [op |-> op, user |-> u, of |-> v, at |-> at, verified |-> ok]]
  /\ before' = [before EXCEPT ![r] = {q \in Requests : pc[q] \in Ended}]
  /\ entitled' = entitled \cup {q \in {r} : u \in admins}
  /\ Goto(r, l)
  /\ UNCHANGED <<tables, answer>>

GetByID(r, u) == Begin(r, "GetByID", u, u, NoLinks, FALSE, "read")
GetUserBusinessProfile(r, u) == Begin(r, "GetUserBusinessProfile", u, u, NoLinks, FALSE, "read")
SaveProfileInfo(r, u) == Begin(r, "SaveProfileInfo", u, u, NoLinks, FALSE, "look")

(* No state without a country, no region without a state. *)
Nested(at) == /\ at["region"] # None => at["state"] # None
              /\ at["state"] # None => at["country"] # None

UpdateProfile(r, u, at) ==
  Begin(r, "UpdateProfile", u, u, at, FALSE, IF Nested(at) THEN "country" ELSE "refused")

UpdateBusinessProfile(r, u, at) ==
  Begin(r, "UpdateBusinessProfile", u, u, at, FALSE, "industry")

AdminUpdateBusinessProfile(r, u, v, at, ok) ==
  Begin(r, "AdminUpdateBusinessProfile", u, v, at, ok, "admin")

Start(r) ==
  \E u \in Owners :
    \/ GetByID(r, u) \/ GetUserBusinessProfile(r, u) \/ SaveProfileInfo(r, u)
    \/ \E at \in Forms : UpdateProfile(r, u, at)
    \/ \E at \in {at \in Forms : Full(at)} :
         \/ UpdateBusinessProfile(r, u, at)
         \/ \E v \in Users, ok \in BOOLEAN : AdminUpdateBusinessProfile(r, v, u, at, ok)

-------------------------------------------------------------------------------
(* A SELECT that lets the request go on from step l to step m, or refuses it. *)
Check(r, l, ok, m) ==
  /\ pc[r] = l
  /\ Goto(r, IF ok THEN m ELSE "refused")
  /\ UNCHANGED <<tables, call, answer, before, entitled>>

Present(r, k) == call[r].at[k] \in refs \cup {None}

(* UpdateProfile asks for each row alone. *)
CheckCountry(r) == Check(r, "country", Present(r, "country"), "state")
CheckState(r) == Check(r, "state", Present(r, "state"), "region")
CheckRegion(r) == Check(r, "region", Present(r, "region"), "write")

IsAdmin(r) == Check(r, "admin", call[r].user \in admins, "exists")
CheckBusinessProfileExists(r) == Check(r, "exists", business[call[r].of] # None, "industry")

KeysHold(r) == \A k \in Kinds : Present(r, k)

(* validateBusinessProfileData: the industry, any or missing, then the place. *)
CheckIndustry(r) == \E ok \in BOOLEAN : Check(r, "industry", ok, "location")
BugThreeRows(r) == Check(r, "location", KeysHold(r), "write")
CheckLocationExists(r) == Check(r, "location", KeysHold(r) /\ Chain(call[r].at), "write")

(* SaveProfileInfo: a username is set once; the name may also be another's,  *)
(* which module Registration is about.                                     *)
Look(r) == \E free \in BOOLEAN : Check(r, "look", free /\ ~users[call[r].of].named, "write")

(* A write runs for the handler, or goes on without it. *)
Writes(r) == pc[r] \in {"write", "lost"}
Written(r) == Goto(r, IF pc[r] = "write" THEN "read" ELSE "failed")

(* The columns in another order. *)
BugColumns(r) == [call[r].at EXCEPT !["state"] = call[r].at["region"], !["region"] = call[r].at["state"]]

(* country_id, state_id and region_id as the statement is given them.      *)
Columns(r) == call[r].at

(* first_name, last_name, age, phone_number and the links, or username,     *)
(* first_name and last_name.                                               *)
NewUser(r) ==
  LET row == users[call[r].of] IN
    IF call[r].op = "UpdateProfile"
    THEN [row EXCEPT !.at = Columns(r), !.taken = row.taken \cup {r}]
    ELSE [row EXCEPT !.named = TRUE, !.taken = row.taken \cup {r}]

(* UPDATE users *)
WriteUser(r) ==
  /\ Writes(r) /\ call[r].op \in UserWrites /\ KeysHold(r)
  /\ users' = [users EXCEPT ![call[r].of] = NewUser(r)]
  /\ Written(r)
  /\ UNCHANGED <<refs, business, admins, call, answer, before, entitled>>

Taken(row) == IF row = None THEN {} ELSE row.taken

(* As in the other modules, operators named Bug... are not the system: an   *)
(* edit that leaves is_verified alone.                                     *)
BugKeepsVerified(r) ==
  [by |-> r, at |-> Columns(r), verified |-> business[call[r].of] # None /\ business[call[r].of].verified,
   taken |-> Taken(business[call[r].of]) \cup {r}]

(* The whole row, is_verified included: FALSE when the owner writes. *)
NewProfile(r) ==
  [by |-> r, at |-> Columns(r), verified |-> call[r].verified,
   taken |-> Taken(business[call[r].of]) \cup {r}]

(* INSERT INTO business_profiles ... ON CONFLICT (user_id) DO UPDATE *)
Upsert(r) ==
  /\ Writes(r) /\ call[r].op \in Upserts /\ KeysHold(r)
  /\ business' = [business EXCEPT ![call[r].of] = NewProfile(r)]
  /\ Written(r)
  /\ UNCHANGED <<refs, users, admins, call, answer, before, entitled>>

(* A foreign key has lost its row since the check: an internal error. *)
KeyLost(r) ==
  /\ Writes(r) /\ ~KeysHold(r)
  /\ Goto(r, "failed")
  /\ UNCHANGED <<tables, call, answer, before, entitled>>

(* Read on the pool while the write is in a transaction, as Verify does. *)
BugReadOutside(r) ==
  /\ pc[r] = "read" /\ call[r].op \in OfUsers
  /\ answer' = [answer EXCEPT ![r] = users[call[r].of].taken \ {r}]
  /\ Goto(r, "done")
  /\ UNCHANGED <<tables, call, before, entitled>>

(* GetByID, at the end of every operation on users. *)
ReadUser(r) ==
  /\ pc[r] = "read" /\ call[r].op \in OfUsers
  /\ answer' = [answer EXCEPT ![r] = users[call[r].of].taken]
  /\ Goto(r, "done")
  /\ UNCHANGED <<tables, call, before, entitled>>

(* GetUserBusinessProfile: null for a missing profile, an internal error when *)
(* a link is NULL, which does not scan into an int.                        *)
ReadProfile(r) ==
  /\ pc[r] = "read" /\ call[r].op \notin OfUsers
  /\ LET row == business[call[r].of] IN
       IF row # None /\ ~Full(row.at)
       THEN Goto(r, "failed") /\ UNCHANGED answer
       ELSE Goto(r, "done") /\ answer' = [answer EXCEPT ![r] = Taken(row)]
  /\ UNCHANGED <<tables, call, before, entitled>>

(* A SELECT fails, the client goes away or the server stops: a running      *)
(* UPDATE or upsert may be over, or still to come.                         *)
Fail(r) ==
  /\ pc[r] \notin Ended \cup {"idle"}
  /\ \/ Goto(r, "failed")
     \/ pc[r] = "write" /\ Goto(r, "lost")
  /\ UNCHANGED <<tables, call, answer, before, entitled>>

(* The statement of a handler that is gone never ran. *)
Drop(r) == /\ pc[r] = "lost"
           /\ Goto(r, "failed")
           /\ UNCHANGED <<tables, call, answer, before, entitled>>

-------------------------------------------------------------------------------
(* A client fills in a form: a GET for each list, what she picks of it.    *)
Browse(r) == Begin(r, "browse", None, None, NoLinks, FALSE, "countries")

StatesOf(c) == {s \in refs \cap States : Above[s] = c}
RegionsOf(s) == {g \in refs \cap Regions : Above[g] = s}

Pick(r, l, k, list, m) ==
  /\ pc[r] = l
  /\ \E x \in list : call' = [call EXCEPT ![r].at[k] = x]
  /\ Goto(r, m)
  /\ UNCHANGED <<tables, answer, before, entitled>>

PickCountry(r) == Pick(r, "countries", "country", refs \cap Countries, "states")
PickState(r) == Pick(r, "states", "state", StatesOf(call[r].at["country"]), "regions")
PickRegion(r) == Pick(r, "regions", "region", RegionsOf(call[r].at["state"]), "done")

-------------------------------------------------------------------------------
(* The operator, in SQL.  States go with their country and regions with     *)
(* their state (CASCADE); a user's link forbids it; a business's becomes   *)
(* NULL.                                                                   *)
Below(x) == {y \in States \cup Regions : Above[y] = x}
Subtree(x) == {x} \cup Below(x) \cup UNION {Below(y) : y \in Below(x)}

SetNull(row, gone) ==
  IF row = None THEN None
  ELSE [row EXCEPT !.at = [k \in Kinds |-> IF row.at[k] \in gone THEN None ELSE row.at[k]]]

DeleteRef(x) ==
  /\ x \in refs
  /\ \A u \in Owners, k \in Kinds : users[u].at[k] \notin Subtree(x)
  /\ refs' = refs \ Subtree(x)
  /\ business' = [u \in Owners |-> SetNull(business[u], Subtree(x))]
  /\ UNCHANGED <<users, admins, pc, call, answer, before, entitled>>

(* UPDATE users SET is_admin *)
SetAdmin(u) ==
  /\ admins' = IF u \in admins THEN admins \ {u} ELSE admins \cup {u}
  /\ entitled' = entitled \cup {r \in Requests : call[r].user \in admins'}
  /\ UNCHANGED <<refs, users, business, pc, call, answer, before>>

Next ==
  \/ \E r \in Requests :
       \/ Start(r) \/ Browse(r)
       \/ CheckCountry(r) \/ CheckState(r) \/ CheckRegion(r)
       \/ IsAdmin(r) \/ CheckBusinessProfileExists(r) \/ CheckIndustry(r) \/ CheckLocationExists(r)
       \/ Look(r) \/ WriteUser(r) \/ Upsert(r) \/ KeyLost(r) \/ ReadUser(r) \/ ReadProfile(r)
       \/ Fail(r) \/ Drop(r)
       \/ PickCountry(r) \/ PickState(r) \/ PickRegion(r)
  \/ \E x \in Deletable : DeleteRef(x)
  \/ \E u \in Users : SetAdmin(u)

Spec == Init /\ [][Next]_vars

-------------------------------------------------------------------------------
Steps == {"idle", "country", "state", "region", "admin", "exists", "industry", "location", "look",
          "write", "read", "countries", "states", "regions"} \cup Ended

TypeOK ==
  /\ refs \subseteq Refs
  /\ users \in [Owners -> UserRow]
  /\ business \in [Owners -> ProfileRow \cup {None}]
  /\ admins \subseteq Users
  /\ pc \in [Requests -> Steps]
  /\ call \in [Requests -> [op: Ops, user: Users \cup {None}, of: Owners \cup {None}, at: Links,
                            verified: BOOLEAN]]
  /\ answer \in [Requests -> SUBSET Requests]
  /\ before \in [Requests -> SUBSET Requests]
  /\ entitled \subseteq Requests

(* A verified profile holds what an administrator sent to be verified, for  *)
(* that user, and no data the owner wrote after she last looked: the owner's *)
(* edit, the administrator's and the loss of is_admin may come in any order, *)
(* and a write may outlive its handler.                                    *)
SentBy(r, u) ==
  /\ call[r].op = "AdminUpdateBusinessProfile" /\ call[r].of = u /\ call[r].verified
  /\ r \in entitled
  /\ \A k \in Kinds : business[u].at[k] \in {call[r].at[k], None}

VerifiedData ==
  \A u \in Owners : (business[u] # None /\ business[u].verified /\ business[u].by # None)
                     => SentBy(business[u].by, u)

(* The links of a row stay in step with the reference tables, though each   *)
(* was looked up in a statement before the write: none dangles; a business  *)
(* is in a region of its state and a state of its country, as far as these  *)
(* are left; a user may name a region of another state, but no region       *)
(* without a state.  What is picked from the lists is a place               *)
(* CheckLocationExists accepts.                                            *)
Fits(at) == /\ at["region"] # None => at["state"] = Above[at["region"]]
            /\ at["state"] # None => at["country"] = Above[at["state"]]

LinksFit ==
  /\ \A u \in Owners : users[u].at \in [Kinds -> refs \cup {None}] /\ Nested(users[u].at)
  /\ \A u \in Owners : business[u] # None =>
       business[u].at \in [Kinds -> refs \cup {None}] /\ Fits(business[u].at)
  /\ \A r \in Requests : (call[r].op = "browse" /\ pc[r] = "done") => Chain(call[r].at)

(* An answer never goes back: that of a write shows the write, or a later    *)
(* one over it, and a request that begins after another was answered sees   *)
(* all that one saw.                                                       *)
SameRow(q, r) == /\ call[q].of = call[r].of
                 /\ call[q].op \in OfUsers <=> call[r].op \in OfUsers

AnswersForward ==
  \A r \in Requests : (pc[r] = "done" /\ call[r].op # "browse") =>
    /\ call[r].op \in UserWrites \cup Upserts => r \in answer[r]
    /\ \A q \in before[r] : SameRow(q, r) => answer[q] \subseteq answer[r]

-------------------------------------------------------------------------------
(* Why they hold.  What the steps of a request behind it say of its call:  *)
Checked(r) ==
  /\ call[r].op \in OfUsers \cup Upserts \cup {"GetUserBusinessProfile"} => call[r].of \in Owners
  /\ pc[r] # "refused" => Nested(call[r].at)
  /\ call[r].op \in OfUsers \ {"UpdateProfile"} => call[r].at = NoLinks
  /\ call[r].op = "UpdateBusinessProfile" => ~call[r].verified
  /\ (pc[r] # "idle" /\ call[r].user \in admins) => r \in entitled
  /\ (call[r].op = "AdminUpdateBusinessProfile"
        /\ pc[r] \in {"exists", "industry", "location", "write", "lost", "read"}) => r \in entitled
  /\ (call[r].op \in Upserts /\ pc[r] \in {"write", "lost"}) => Chain(call[r].at)

(* the lists it has picked from,                                           *)
PickOK(r) ==
  call[r].op = "browse" =>
    /\ pc[r] \in {"states", "regions", "done"} => call[r].at["country"] \in Countries
    /\ pc[r] \in {"regions", "done"} => /\ call[r].at["state"] \in States
                                        /\ call[r].at["country"] = Above[call[r].at["state"]]
    /\ pc[r] = "done" => Chain(call[r].at)

(* which steps belong to which operation,                                  *)
StepOK(r) ==
  /\ pc[r] = "idle" <=> call[r].op = "none"
  /\ pc[r] \in {"countries", "states", "regions"} => call[r].op = "browse"
  /\ pc[r] \in {"industry", "location"} => call[r].op \in Upserts
  /\ pc[r] \in {"admin", "exists"} => call[r].op = "AdminUpdateBusinessProfile"
  /\ pc[r] \in {"country", "state", "region"} => call[r].op = "UpdateProfile"
  /\ pc[r] = "look" => call[r].op = "SaveProfileInfo"
  /\ pc[r] \in {"write", "lost"} => call[r].op \in UserWrites \cup Upserts
  /\ pc[r] = "read" => call[r].op \notin {"none", "browse"}

(* and whose writes a row has taken: of requests at or past their read,     *)
(* and all that answers were made of.                                      *)
Row(r) == IF call[r].op \in OfUsers THEN users[call[r].of].taken ELSE Taken(business[call[r].of])

TakenOK ==
  /\ \A u \in Owners : \A q \in users[u].taken \cup Taken(business[u]) :
       pc[q] \in {"read", "done", "failed"}
  /\ \A r \in Requests :
       /\ (pc[r] = "read" /\ call[r].op \notin Reads) => r \in Row(r)
       /\ answer[r] # {} => pc[r] = "done" /\ call[r].op # "browse" /\ answer[r] \subseteq Row(r)
       /\ \A q \in before[r] : pc[q] \in Ended

(* A row by a request is what the request sent.                            *)
Sender(r, u) ==
  /\ call[r].op \in Upserts /\ call[r].of = u
  /\ business[u].verified = call[r].verified
  /\ call[r].op = "AdminUpdateBusinessProfile" => r \in entitled
  /\ \A k \in Kinds : business[u].at[k] \in {call[r].at[k], None}
  /\ pc[r] \in {"read", "done", "failed"}

Inv ==
  /\ LinksFit /\ AnswersForward /\ TakenOK
  /\ \A r \in Requests : Checked(r) /\ PickOK(r) /\ StepOK(r)
  /\ \A u \in Owners, r \in Requests : (business[u] # None /\ business[u].by = r) => Sender(r, u)
===============================================================================
