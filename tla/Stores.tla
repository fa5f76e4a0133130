-------------------------------- MODULE Stores --------------------------------
(***************************************************************************)
(* internal/market: the brands of module Brands and the stores that hang   *)
(* on them by a foreign key.  CreateStore inserts a store, its pictures    *)
(* and its socials in one transaction; a DELETE of the brand takes all of  *)
(* them along; a store is read by one SELECT per table.                    *)
(***************************************************************************)
EXTENDS Brands

CONSTANTS
  StoreRequests, OldStores,
  StoreDrafts  \* what the bodies of requests may say

(* A store created by request s has the identity s. *)
AllStores == OldStores \cup StoreRequests

StoreData == [owner: Users, published: BOOLEAN, pictures: BOOLEAN, socials: BOOLEAN]
NoStoreData == [owner |-> None, published |-> FALSE, pictures |-> FALSE, socials |-> FALSE]
Viewer(u) == [NoStoreData EXCEPT !.owner = u]

ASSUME StoreDraftAssumption == StoreDrafts \subseteq StoreData
ASSUME FreshStoreAssumption == StoreRequests \cap OldStores = {}
ASSUME NoStoreAssumption ==
  /\ None \notin AllStores
  /\ None \notin [brand: Brands, owner: Users, parts: SUBSET {"row", "pics", "socs"}]

VARIABLES
  stores,   \* table stores: the committed rows
  pics,     \* the stores with rows in stores_pictures
  socs,     \* the stores with rows in stores_socials
  share,    \* the open transactions that hold the key of their brand's row
  place,    \* the brand each store hangs on or is meant for
  body,     \* what each store's writer sends
  spc,      \* where each request for a store is
  target,   \* the store it creates or reads
  shown,    \* the parts of it that it has found
  gone,     \* history: the stores that were deleted
  lapsedStores \* history: published stores whose owner lost the verification since

storeTables == <<stores, pics, socs, share>>
storeVars == <<storeTables, place, body, spc, target, shown, gone, lapsedStores>>
marketVars == <<vars, storeVars>>

(* The lists that are stored: without pictures the socials are left out. *)
HasPictures(s) == body[s].pictures
HasSocials(s) == body[s].pictures /\ body[s].socials

MarketInit ==
  /\ Init
  /\ stores = OldStores
  /\ place \in [AllStores -> OldBrands \cup {None}]
  /\ body \in [AllStores -> StoreDrafts \cup {NoStoreData}]
  /\ \A s \in OldStores : place[s] # None /\ body[s].owner = data[place[s]].owner
  /\ \A s \in StoreRequests : place[s] = None /\ body[s] = NoStoreData
  /\ pics = {s \in OldStores : HasPictures(s)}
  /\ socs = {s \in OldStores : HasSocials(s)}
  /\ share = {}
  /\ spc = [s \in StoreRequests |-> "idle"]
  /\ target = [s \in StoreRequests |-> None]
  /\ shown = [s \in StoreRequests |-> {}]
  /\ gone = {}
  /\ lapsedStores = {s \in OldStores : body[s].published /\ profile[body[s].owner] = "unverified"}

-------------------------------------------------------------------------------
StoreGoto(s, l) == spc' = [spc EXCEPT ![s] = l]

(* The request arrives, past decoding and validation. *)
StoreTake(s, t, b, d, l) ==
  /\ spc[s] = "idle"
  /\ target' = [target EXCEPT ![s] = t]
  /\ place' = [place EXCEPT ![s] = b]
  /\ body' = [body EXCEPT ![s] = d]
  /\ StoreGoto(s, l)
  /\ UNCHANGED <<vars, storeTables, shown, gone, lapsedStores>>

CreateStore(s) == \E b \in Brands, d \in StoreDrafts : StoreTake(s, s, b, d, "profile")
GetUserStore(s) == \E t \in AllStores \ {s}, u \in Users : StoreTake(s, t, None, Viewer(u), "row")

BugAnyStoreProfile(s) == profile[body[s].owner] # None

StoreProfileFits(s) == /\ profile[body[s].owner] # None
                       /\ body[s].published => profile[body[s].owner] = "verified"

CheckStoreProfile(s) ==
  /\ spc[s] = "profile"
  /\ StoreGoto(s, IF StoreProfileFits(s) THEN "brand" ELSE "done")
  /\ lapsedStores' = lapsedStores \ {s}
  /\ UNCHANGED <<vars, storeTables, place, body, target, shown, gone>>

BrandIsOwn(s) == /\ place[s] \in Live
                 /\ data[rows[place[s]]].owner = body[s].owner

CheckStoreBrand(s) ==
  /\ spc[s] = "brand"
  /\ StoreGoto(s, IF BrandIsOwn(s) THEN "insert" ELSE "done")
  /\ UNCHANGED <<vars, storeTables, place, body, target, shown, gone, lapsedStores>>

(* Without a foreign key the brand's row is not locked. *)
BugNoKeyLock(s) ==
  /\ spc[s] = "insert"
  /\ StoreGoto(s, IF rows[place[s]] # None THEN "commit" ELSE "done")
  /\ UNCHANGED <<vars, storeTables, place, body, target, shown, gone, lapsedStores>>

(* BEGIN; INSERT INTO stores: the foreign key fails if the brand is gone, and *)
(* keeps it from being deleted (not from being updated) until the end.      *)
InsertStore(s) ==
  /\ spc[s] = "insert"
  /\ IF rows[place[s]] # None THEN share' = share \cup {s} /\ StoreGoto(s, "commit")
                              ELSE UNCHANGED share /\ StoreGoto(s, "done")
  /\ UNCHANGED <<vars, stores, pics, socs, place, body, target, shown, gone, lapsedStores>>

(* createStoreRelatedEnitities and COMMIT; a batch that fails is FailStore. *)
CommitStore(s) ==
  /\ spc[s] = "commit"
  /\ stores' = stores \cup {s}
  /\ pics' = IF HasPictures(s) THEN pics \cup {s} ELSE pics
  /\ socs' = IF HasSocials(s) THEN socs \cup {s} ELSE socs
  /\ share' = share \ {s}
  /\ StoreGoto(s, "row")
  /\ UNCHANGED <<vars, place, body, target, shown, gone, lapsedStores>>

(* GetStoreByID, table after table. *)
Find(s, part, found, l) ==
  /\ shown' = [shown EXCEPT ![s] = IF found THEN @ \cup {part} ELSE @]
  /\ StoreGoto(s, l)
  /\ UNCHANGED <<vars, storeTables, place, body, target, gone, lapsedStores>>

ReadStore(s) ==
  /\ spc[s] = "row"
  /\ LET found == target[s] \in stores IN Find(s, "row", found, IF found THEN "pics" ELSE "done")

ReadPictures(s) == spc[s] = "pics" /\ Find(s, "pics", target[s] \in pics, "socs")

(* GetUserStore then looks at the owner, which the row's SELECT has brought. *)
OwnerFits(s) == target[s] = s \/ body[target[s]].owner = body[s].owner

ReadSocials(s) ==
  /\ spc[s] = "socs"
  /\ Find(s, "socs", target[s] \in socs, IF OwnerFits(s) THEN "answered" ELSE "done")

(* Without the deferred Rollback. *)
BugNoStoreRollback(s) ==
  /\ spc[s] \notin {"idle", "answered", "done"}
  /\ StoreGoto(s, "done")
  /\ UNCHANGED <<vars, storeTables, place, body, target, shown, gone, lapsedStores>>

(* A statement, a batch or the commit fails, the client leaves, the server   *)
(* stops, or a reference table lacks an id: an open transaction rolls back. *)
FailStore(s) ==
  /\ spc[s] \notin {"idle", "answered", "done"}
  /\ StoreGoto(s, "done")
  /\ share' = share \ {s}
  /\ UNCHANGED <<vars, stores, pics, socs, place, body, target, shown, gone, lapsedStores>>

(* The history takes the brand's id for the store's. *)
BugWrongColumn(r) ==
  LET lost == {s \in stores : place[s] = Target(r)}
  IN /\ \A s \in share : place[s] # Target(r)
     /\ stores' = stores \ lost /\ pics' = pics \ lost /\ socs' = socs \ lost
     /\ gone' = gone \cup {Target(r)}
     /\ UNCHANGED <<share, place, body, spc, target, shown, lapsedStores>>

(* The socials' foreign key does not cascade. *)
BugSocialsStay(r) ==
  LET lost == {s \in stores : place[s] = Target(r)}
  IN /\ \A s \in share : place[s] # Target(r)
     /\ stores' = stores \ lost /\ pics' = pics \ lost
     /\ gone' = gone \cup lost
     /\ UNCHANGED <<socs, share, place, body, spc, target, shown, lapsedStores>>

(* What a DELETE of a brand does to stores: it waits for the transactions    *)
(* that hold the key of the row, and the foreign keys cascade.             *)
Cascade(r) ==
  LET lost == {s \in stores : place[s] = Target(r)}
  IN /\ \A s \in share : place[s] # Target(r)
     /\ stores' = stores \ lost /\ pics' = pics \ lost /\ socs' = socs \ lost
     /\ gone' = gone \cup lost
     /\ UNCHANGED <<share, place, body, spc, target, shown, lapsedStores>>

DeleteCascading(r) ==
  /\ DeleteBrand(r)
  /\ IF Owned(r) THEN Cascade(r) ELSE UNCHANGED storeVars

(* A profile that is edited, by its owner or an administrator. *)
EditProfile(u) ==
  /\ UpdateBusinessProfile(u) \/ AdminUpdateBusinessProfile(u)
  /\ lapsedStores' = IF profile'[u] = "verified" THEN lapsedStores
                     ELSE lapsedStores \cup {s \in AllStores : body[s].owner = u /\ body[s].published}
  /\ UNCHANGED <<storeTables, place, body, spc, target, shown, gone>>

-------------------------------------------------------------------------------
BrandStep(r) == pc[r] # "delete" /\ Proceed(r) /\ UNCHANGED storeVars
BrandProceed(r) == BrandStep(r) \/ DeleteCascading(r)
BrandAside(r) == (Arrive(r) \/ Fail(r)) /\ UNCHANGED storeVars

StoreProceed(s) ==
  \/ CheckStoreProfile(s) \/ CheckStoreBrand(s) \/ InsertStore(s) \/ CommitStore(s)
  \/ ReadStore(s) \/ ReadPictures(s) \/ ReadSocials(s)

MarketNext ==
  \/ \E r \in Requests : BrandProceed(r) \/ BrandAside(r)
  \/ \E s \in StoreRequests : CreateStore(s) \/ GetUserStore(s) \/ StoreProceed(s) \/ FailStore(s)
  \/ \E u \in Users : EditProfile(u)

(* A goroutine whose next statement can run does run it. *)
MarketFairness ==
  /\ \A r \in Requests : WF_marketVars(BrandProceed(r))
  /\ \A s \in StoreRequests : WF_marketVars(StoreProceed(s))

MarketSpec == MarketInit /\ [][MarketNext]_marketVars
MarketFairSpec == MarketSpec /\ MarketFairness

-------------------------------------------------------------------------------
StoresTypeOK ==
  /\ stores \subseteq AllStores /\ pics \subseteq AllStores /\ socs \subseteq AllStores
  /\ share \subseteq StoreRequests
  /\ place \in [AllStores -> Brands \cup {None}]
  /\ body \in [AllStores -> [owner: Users \cup {None}, published: BOOLEAN,
                              pictures: BOOLEAN, socials: BOOLEAN]]
  /\ spc \in [StoreRequests -> {"idle", "profile", "brand", "insert", "commit",
                                 "row", "pics", "socs", "answered", "done"}]
  /\ target \in [StoreRequests -> AllStores \cup {None}]
  /\ shown \in [StoreRequests -> SUBSET {"row", "pics", "socs"}]
  /\ gone \subseteq AllStores /\ lapsedStores \subseteq AllStores

(* CreateStore checks the brand long before it commits; still a store always *)
(* hangs on a brand there is, of the user who created it, and its list rows *)
(* are those it was created with.                                          *)
NoOrphan ==
  /\ \A s \in stores : BrandIsOwn(s)
  /\ pics = {s \in stores : HasPictures(s)}
  /\ socs = {s \in stores : HasSocials(s)}

(* Brands and stores as MarketStore sees them: each store one thing, with    *)
(* the rows it has in the three tables.                                    *)
owners == [b \in Brands |-> IF rows[b] = None THEN None ELSE data[rows[b]].owner]
PartsOf(s) == {p \in {"row", "pics", "socs"} :
                 \/ p = "row" /\ s \in stores
                 \/ p = "pics" /\ s \in pics
                 \/ p = "socs" /\ s \in socs}
shops == [s \in AllStores |->
            IF PartsOf(s) = {} THEN None
            ELSE [brand |-> place[s], owner |-> body[s].owner, parts |-> PartsOf(s)]]
opened == stores \cup gone

Market == INSTANCE MarketStore WITH used <- written, Shops <- AllStores

(* The requests over nine tables implement a market of whole brands and      *)
(* whole stores: a store is created on a brand of its owner that is there,  *)
(* though that was checked long before, keeps its lists and its owner       *)
(* whatever is done to the brand, and goes with the brand in one step.      *)
MarketStoreSpec == Market!MarketSpec

(* GetStoreByID reads three tables one after the other: an answer that lacks *)
(* a part is of a store that is deleted by then, and lacks what comes after. *)
Sent(s) == {"row"} \cup {p \in {"pics"} : HasPictures(s)} \cup {p \in {"socs"} : HasSocials(s)}

StoreAnswers ==
  \A s \in StoreRequests : spc[s] = "answered" =>
    \/ shown[s] = Sent(target[s])
    \/ shown[s] \in {{"row"}, {"row", "pics"}} /\ shown[s] \subseteq Sent(target[s]) /\ target[s] \in gone

(* A store is published only if its owner's profile was verified when it was *)
(* created; the profile may have lost that since.                          *)
StoresAllowed ==
  \A s \in stores : body[s].published =>
    profile[body[s].owner] = "verified" \/ s \in lapsedStores

(* The parts of the inductive invariant.  An open transaction holds the key  *)
(* of a brand there is.                                                    *)
ShareOK ==
  /\ share = {s \in StoreRequests : spc[s] = "commit"}
  /\ \A s \in share : rows[place[s]] # None

(* A request that passed its checks has a brand of its user, or one that was *)
(* deleted; an update under way does not change the owner.                 *)
OwnersOK ==
  \A s \in StoreRequests : spc[s] \in {"insert", "commit"} =>
    place[s] \in written /\ (rows[place[s]] # None => BrandIsOwn(s))

UpdatersOwn == \A b \in Brands : lock[b] # None => data[lock[b]].owner = data[rows[b]].owner

(* Where a request is, and what it has found. *)
StoreCallOK(s) ==
  /\ spc[s] = "idle" => s \notin stores \cup gone
  /\ spc[s] \in {"profile", "brand", "insert", "commit"} =>
       target[s] = s /\ s \notin stores \cup gone
  /\ spc[s] \in {"profile", "brand", "insert", "commit"} => place[s] \in Brands /\ body[s] \in StoreDrafts
  /\ spc[s] \in {"brand", "insert", "commit"} /\ body[s].published =>
       profile[body[s].owner] = "verified" \/ s \in lapsedStores
  /\ spc[s] \notin {"pics", "socs", "answered", "done"} => shown[s] = {}
  /\ spc[s] \in {"pics", "socs", "answered"} => target[s] \in stores \cup gone
  /\ spc[s] = "pics" => shown[s] = {"row"}
  /\ spc[s] = "socs" => \/ shown[s] = Sent(target[s]) \ {"socs"}
                        \/ shown[s] = {"row"} /\ target[s] \in gone

StoresInv ==
  /\ NoOrphan /\ StoreAnswers /\ StoresAllowed /\ ShareOK /\ OwnersOK /\ UpdatersOwn
  /\ stores \cap gone = {}
  /\ \A s \in StoreRequests : StoreCallOK(s)

(* Every request for a brand or a store is answered: nobody waits for ever   *)
(* for the lock of a brand or for the stores that are being created for it. *)
AllAnswered ==
  /\ Answered
  /\ \A s \in StoreRequests : spc[s] # "idle" ~> spc[s] \in {"answered", "done"}

(* What a request for a brand needs for its next statement to run at once. *)
BrandReady(r) ==
  /\ pc[r] \notin {"idle", "done"}
  /\ pc[r] = "write" /\ call[r].op = "update" => lock[Target(r)] = None
  /\ pc[r] = "delete" => /\ lock[Target(r)] = None
                         /\ Owned(r) => \A s \in share : place[s] # Target(r)

(* A request that cannot go on, an update or a delete, waits for an update   *)
(* that can or for a store's transaction, which waits for nobody: there is  *)
(* no chain of waits and no cycle, however many work on one brand.         *)
ShortWaits ==
  \A r \in Requests : pc[r] \notin {"idle", "done"} =>
    \/ BrandReady(r)
    \/ \E q \in Requests : lock[Target(r)] = q /\ BrandReady(q)
    \/ \E s \in share : place[s] = Target(r) /\ spc[s] = "commit"

(* A request never goes back to a statement it has run: from one child table *)
(* it goes to the next, and otherwise to a later stage of its operation.   *)
Stage(l) == CASE l = "idle" -> 0
              [] l = "exists" -> 1
              [] l = "profile" -> 2
              [] l \in {"name", "brand"} -> 3
              [] l \in {"write", "delete", "insert"} -> 4
              [] l = "clear" -> 5
              [] l = "commit" -> 6
              [] l = "row" -> 7
              [] l \in {"lists", "pics"} -> 8
              [] l = "socs" -> 9
              [] OTHER -> 10

NextList(r) == /\ pc[r] \in {"clear", "lists"} /\ pc'[r] = pc[r]
               /\ step'[r] = step[r] + 1 /\ step'[r] <= ListCount

Ahead ==
  /\ \A r \in Requests : \/ pc'[r] = pc[r] /\ step'[r] = step[r]
                         \/ Stage(pc'[r]) > Stage(pc[r])
                         \/ NextList(r)
  /\ \A s \in StoreRequests : spc'[s] = spc[s] \/ Stage(spc'[s]) > Stage(spc[s])
OnlyAhead == [][Ahead]_marketVars
===============================================================================
