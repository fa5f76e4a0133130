----------------------------- MODULE Stores_proofs -----------------------------
(***************************************************************************)
(* Theorems about module Stores, on top of those about module Brands.      *)
(***************************************************************************)
EXTENDS Stores, Brands_proofs

USE ListAssumption, DraftAssumption, FreshAssumption, StoreDraftAssumption, FreshStoreAssumption, NoStoreAssumption

(* Every step of brands and stores is one of Brands or leaves it alone. *)
LEMMA IsBrandsStep == [MarketNext]_marketVars => [Next]_vars
<1> SUFFICES ASSUME [MarketNext]_marketVars PROVE Next \/ UNCHANGED vars
  OBVIOUS
<1>1. ASSUME NEW s \in StoreRequests, CreateStore(s) \/ GetUserStore(s) \/ StoreProceed(s) \/ FailStore(s)
      PROVE  UNCHANGED vars
  BY <1>1 DEF CreateStore, GetUserStore, StoreTake, StoreProceed, CheckStoreProfile, CheckStoreBrand,
              InsertStore, CommitStore, ReadStore, ReadPictures, ReadSocials, Find, FailStore
<1>2. ASSUME NEW r \in Requests, BrandProceed(r) \/ BrandAside(r) PROVE Next
  BY <1>2 DEF BrandProceed, BrandStep, DeleteCascading, BrandAside, Next, Proceed
<1>3. ASSUME NEW u \in Users, EditProfile(u) PROVE Next
  BY <1>3 DEF EditProfile, Next
<1> QED BY <1>1, <1>2, <1>3 DEF MarketNext, marketVars

(* Stores take nothing from the brands: with them, internal/market still     *)
(* behaves as module Brands says, and all that is proved there holds.      *)
THEOREM BrandsKept == MarketSpec => Spec
<1>1. MarketInit => Init
  BY DEF MarketInit
<1> QED BY <1>1, IsBrandsStep, PTL DEF MarketSpec, Spec

-------------------------------------------------------------------------------
StoreColumn == [owner: Users \cup {None}, published: BOOLEAN, pictures: BOOLEAN, socials: BOOLEAN]

(* Bodies of requests for stores are well typed. *)
LEMMA StoreDraftTypes == /\ StoreDrafts \subseteq StoreColumn /\ NoStoreData \in StoreColumn
                         /\ \A u \in Users : Viewer(u) \in StoreColumn
<1>1. StoreData \subseteq StoreColumn
  <2> SUFFICES ASSUME NEW d \in StoreData PROVE d \in StoreColumn
    OBVIOUS
  <2> QED BY DEF StoreData, StoreColumn
<1>2. NoStoreData \in StoreColumn
  BY DEF NoStoreData, StoreColumn
<1>3. ASSUME NEW u \in Users PROVE Viewer(u) \in StoreColumn
  BY DEF Viewer, NoStoreData, StoreColumn
<1> QED BY <1>1, <1>2, <1>3

(* The tables of stores start well typed. *)
LEMMA StoresTypeInit == MarketInit => StoresTypeOK
<1> SUFFICES ASSUME MarketInit PROVE StoresTypeOK
  OBVIOUS
<1>1. body \in [AllStores -> StoreColumn]
  BY StoreDraftTypes DEF MarketInit
<1> QED BY <1>1 DEF MarketInit, StoresTypeOK, StoreColumn, AllStores, Brands

(* Every step keeps the types. *)
LEMMA StoresTypeStep == StoresTypeOK /\ [MarketNext]_marketVars => StoresTypeOK'
<1> SUFFICES ASSUME StoresTypeOK, [MarketNext]_marketVars PROVE StoresTypeOK'
  OBVIOUS
<1> USE DEF StoresTypeOK, StoreGoto, storeVars, storeTables
<1>1. CASE UNCHANGED marketVars
  BY <1>1 DEF marketVars
<1>2. ASSUME NEW s \in StoreRequests, CreateStore(s) \/ GetUserStore(s) PROVE StoresTypeOK'
  <2>1. PICK t \in AllStores, b \in Brands \cup {None}, d \in StoreColumn, l \in {"profile", "row"} :
          StoreTake(s, t, b, d, l)
    BY <1>2, StoreDraftTypes DEF CreateStore, GetUserStore, AllStores
  <2>2. body' \in [AllStores -> StoreColumn]
    BY <2>1 DEF StoreTake, StoreColumn
  <2>3. UNCHANGED <<stores, pics, socs, share, shown, gone, lapsedStores>>
    BY <2>1 DEF StoreTake
  <2>4. /\ target' \in [StoreRequests -> AllStores \cup {None}] /\ place' \in [AllStores -> Brands \cup {None}]
        /\ spc' \in [StoreRequests -> {"idle", "profile", "brand", "insert", "commit",
                                       "row", "pics", "socs", "answered", "done"}]
    BY <2>1 DEF StoreTake
  <2> QED BY <2>2, <2>3, <2>4 DEF StoreColumn
<1>3. ASSUME NEW s \in StoreRequests, StoreProceed(s) \/ FailStore(s) PROVE StoresTypeOK'
  <2>1. CASE CheckStoreProfile(s) \/ CheckStoreBrand(s)
    BY <2>1 DEF CheckStoreProfile, CheckStoreBrand
  <2>4. CASE InsertStore(s)
    <3>1. spc' \in [StoreRequests -> {"idle", "profile", "brand", "insert", "commit",
                                      "row", "pics", "socs", "answered", "done"}]
      BY <2>4 DEF InsertStore
    <3>2. share' \subseteq StoreRequests
      BY <2>4 DEF InsertStore
    <3> QED BY <2>4, <3>1, <3>2 DEF InsertStore
  <2>5. CASE FailStore(s)
    BY <2>5 DEF FailStore
  <2>2. CASE CommitStore(s)
    BY <2>2 DEF CommitStore, AllStores
  <2>3. CASE ReadStore(s) \/ ReadPictures(s) \/ ReadSocials(s)
    BY <2>3 DEF ReadStore, ReadPictures, ReadSocials, Find
  <2> QED BY <1>3, <2>1, <2>2, <2>3, <2>4, <2>5 DEF StoreProceed
<1>4. ASSUME NEW r \in Requests, BrandProceed(r) \/ BrandAside(r) PROVE StoresTypeOK'
  BY <1>4 DEF BrandProceed, BrandStep, BrandAside, DeleteCascading, Cascade
<1>5. ASSUME NEW u \in Users, EditProfile(u) PROVE StoresTypeOK'
  BY <1>5 DEF EditProfile
<1> QED BY <1>1, <1>2, <1>3, <1>4, <1>5 DEF MarketNext

(* The older stores hang on the older brands. *)
LEMMA StoresInvInit == MarketInit => StoresInv
<1> SUFFICES ASSUME MarketInit PROVE StoresInv
  OBVIOUS
<1> USE DEF MarketInit, Init, Brands, AllStores
<1>1. \A s \in OldStores : /\ s \notin StoreRequests /\ place[s] \in OldBrands
                           /\ rows[place[s]] = place[s] /\ place[s] # None
                           /\ body[s].owner = data[place[s]].owner /\ body[s] \in StoreDrafts \cup {NoStoreData}
  BY NoneAssumption
<1>2. NoOrphan
  BY <1>1 DEF NoOrphan, BrandIsOwn, HasPictures, HasSocials, Live
<1>3. StoresAllowed
  <2> SUFFICES ASSUME NEW s \in OldStores, body[s].published, profile[body[s].owner] # "unverified"
               PROVE  profile[body[s].owner] = "verified"
    BY DEF StoresAllowed
  <2>1. place[s] \in OldBrands /\ body[s].owner = data[place[s]].owner
    BY <1>1
  <2>2. data[place[s]] \in Drafts
    BY <2>1, TypeInit DEF NoData
  <2>3. body[s].owner \in Users
    BY <2>1, <2>2 DEF Data
  <2>4. profile[data[place[s]].owner] # None
    BY <2>1
  <2> QED BY <2>1, <2>3, <2>4
<1>4. ShareOK /\ OwnersOK /\ UpdatersOwn /\ StoreAnswers
  BY DEF ShareOK, OwnersOK, UpdatersOwn, StoreAnswers
<1>5. ASSUME NEW s \in StoreRequests PROVE StoreCallOK(s)
  BY <1>1 DEF StoreCallOK
<1> QED BY <1>2, <1>3, <1>4, <1>5 DEF StoresInv
-------------------------------------------------------------------------------
(* What a step of a brand's request must keep for the stores, unless it      *)
(* deletes: the brands that are there and their owners, and that those that *)
(* are gone stay gone.                                                     *)
BrandsStay ==
  /\ \A b \in Brands : rows[b] # None => rows'[b] # None /\ data'[rows'[b]].owner = data[rows[b]].owner
  /\ \A b \in written : rows[b] = None => rows'[b] = None
  /\ written \subseteq written'
  /\ profile' = profile
  /\ \A b \in Brands : lock'[b] # None => data'[lock'[b]].owner = data'[rows'[b]].owner

(* A row is of a known writer. *)
LEMMA RowTypes ==
  ASSUME TypeOK, Inv, NEW b \in Brands, rows[b] # None
  PROVE  b \in Live /\ rows[b] \in Brands /\ rows[b] \in written /\ b \in written
BY DEF TypeOK, Inv, RowsOK, Live, written

(* Steps that write no row keep the brands for the stores. *)
LEMMA RowsUntouched ==
  ASSUME TypeOK, Inv, UpdatersOwn, NEW r \in Requests, Arrive(r) \/ Proceed(r) \/ Fail(r),
         UNCHANGED rows,
         \A b \in Brands : lock'[b] # None =>
           lock'[b] = lock[b] \/ (lock'[b] = r /\ pc[r] = "write" /\ data[r].owner = data[rows[b]].owner)
  PROVE  BrandsStay
<1>1. Aside(r) /\ Grows
  BY StepAside, StepGrows
<1>2. \A b \in Brands : rows[b] # None => data'[rows[b]] = data[rows[b]]
  BY <1>1, RowTypes DEF Grows
<1>3. ASSUME NEW b \in Brands, lock'[b] # None
      PROVE  data'[lock'[b]].owner = data'[rows[b]].owner
  <2>1. CASE lock'[b] = lock[b]
    <3>1. b \in Live /\ Writing(lock[b]) /\ lock[b] \in Requests
      BY <1>3, <2>1 DEF Inv, LocksOK, TypeOK
    <3>2. data'[lock[b]] = data[lock[b]]
      <4>1. CASE lock[b] = r
        <5>1. pc[r] # "idle"
          BY <3>1, <4>1 DEF Writing
        <5>2. data' = data
          BY <5>1 DEF Arrive, Create, Update, Delete, Get, Proceed, CheckBrandExists,
                CheckBusinessProfileExists, CheckBrandNameIsAvailable, InsertRow, UpdateRow, ClearList,
                Commit, DeleteBrand, ReadRow, ReadList, Fail
        <5> QED BY <5>2
      <4>2. CASE lock[b] # r
        BY <1>1, <3>1, <4>2 DEF Aside, Brands
      <4> QED BY <4>1, <4>2
    <3>3. data[lock[b]].owner = data[rows[b]].owner
      BY <1>3, <2>1 DEF UpdatersOwn
    <3> QED BY <1>2, <2>1, <3>1, <3>2, <3>3 DEF Live
  <2>2. CASE lock'[b] # lock[b]
    <3>1. lock'[b] = r /\ pc[r] = "write" /\ data[r].owner = data[rows[b]].owner
      BY <1>3, <2>2
    <3>2. data' = data
      BY <3>1 DEF Arrive, Create, Update, Delete, Get, Proceed, CheckBrandExists,
            CheckBusinessProfileExists, CheckBrandNameIsAvailable, InsertRow, UpdateRow, ClearList,
            Commit, DeleteBrand, ReadRow, ReadList, Fail
    <3> QED BY <3>1, <3>2
  <2> QED BY <2>1, <2>2
<1> QED BY <1>1, <1>2, <1>3 DEF BrandsStay, Grows, Aside

(* The only step that takes a brand from under its stores is a DELETE. *)
LEMMA BrandStepStays ==
  ASSUME TypeOK, Inv, UpdatersOwn, NEW r \in Requests, BrandStep(r) \/ BrandAside(r)
  PROVE  BrandsStay
<1>1. Arrive(r) \/ Proceed(r) \/ Fail(r)
  BY DEF BrandStep, BrandAside
<1>2. ~DeleteBrand(r) \/ Fail(r)
  <2>1. CASE BrandStep(r)
    BY <2>1 DEF BrandStep, DeleteBrand
  <2>2. CASE Arrive(r)
    BY <2>2 DEF Arrive, Create, Update, Delete, Get, DeleteBrand
  <2> QED BY <2>1, <2>2 DEF BrandAside
<1>3. CASE Commit(r)
  <2> DEFINE t == Target(r)
  <2>1. /\ CallOK(r) /\ r \notin written /\ t \in Brands
        /\ rows' = [rows EXCEPT ![t] = r] /\ lock' = [lock EXCEPT ![t] = None]
        /\ data' = data
    BY <1>3, CommitFacts DEF Commit
  <2>2. Aside(r) /\ Grows
    BY <1>1, StepAside, StepGrows
  <2>3. ASSUME NEW b \in Brands, rows[b] # None
        PROVE  rows'[b] # None /\ data'[rows'[b]].owner = data[rows[b]].owner
    <3>1. CASE b # t
      BY <2>1, <2>3, <3>1 DEF TypeOK
    <3>2. CASE b = t
      <4>1. call[r].op = "update"
        <5>1. call[r].op = "create" => t = r /\ r \notin Live
          BY <2>1, RowTypes DEF CallOK, Live
        <5>2. call[r].op \in {"create", "update"}
          BY <1>3, <2>1 DEF CallOK, Commit
        <5> QED BY <2>3, <3>2, <5>1, <5>2 DEF Live
      <4>2. lock[t] = r
        BY <1>3, <4>1 DEF Inv, LocksOK, Writing, Commit
      <4>3. data[r].owner = data[rows[t]].owner
        BY <2>1, <4>2, NoneAssumption DEF UpdatersOwn, Brands
      <4> QED BY <2>1, <3>2, <4>3, NoneAssumption DEF TypeOK, Brands
    <3> QED BY <3>1, <3>2
  <2>4. ASSUME NEW b \in written, rows[b] = None PROVE rows'[b] = None
    <3>1. b # t
      <4>1. call[r].op = "create" => t = r
        BY <2>1 DEF CallOK
      <4>2. call[r].op = "update" => rows[t] # None
        <5>1. call[r].op = "update" => lock[t] = r
          BY <1>3 DEF Inv, LocksOK, Writing, Commit
        <5> QED BY <2>1, <5>1, NoneAssumption DEF Inv, LocksOK, Live, Brands
      <4>3. call[r].op \in {"create", "update"}
        BY <1>3, <2>1 DEF CallOK, Commit
      <4> QED BY <2>1, <2>4, <4>1, <4>2, <4>3
    <3> QED BY <2>1, <2>4, <3>1 DEF TypeOK
  <2>5. ASSUME NEW b \in Brands, lock'[b] # None PROVE data'[lock'[b]].owner = data'[rows'[b]].owner
    <3>1. b # t /\ lock'[b] = lock[b] /\ rows'[b] = rows[b]
      BY <2>1, <2>5 DEF TypeOK
    <3> QED BY <2>1, <2>5, <3>1 DEF UpdatersOwn
  <2> QED BY <2>2, <2>3, <2>4, <2>5 DEF BrandsStay, Grows, Aside
<1>4. CASE ~Commit(r)
  <2>1. UNCHANGED rows
    BY <1>1, <1>2, <1>4 DEF Arrive, Create, Update, Delete, Get, Take, Proceed, CheckBrandExists,
          CheckBusinessProfileExists, CheckBrandNameIsAvailable, InsertRow, UpdateRow, ClearList,
          ReadRow, ReadList, Fail, tables
  <2>2. ASSUME NEW b \in Brands, lock'[b] # None
        PROVE  lock'[b] = lock[b] \/ (lock'[b] = r /\ pc[r] = "write" /\ data[r].owner = data[rows[b]].owner)
    <3>1. CASE UpdateRow(r)
      BY <2>2, <3>1 DEF UpdateRow, Owned, TypeOK
    <3>2. CASE Fail(r)
      BY <2>2, <3>2 DEF Fail
    <3>3. CASE ~UpdateRow(r) /\ ~Fail(r)
      <4>1. UNCHANGED lock
        BY <1>1, <1>2, <1>4, <3>3 DEF Arrive, Create, Update, Delete, Get, Take, Proceed, CheckBrandExists,
              CheckBusinessProfileExists, CheckBrandNameIsAvailable, InsertRow, ClearList,
              ReadRow, ReadList, tables
      <4> QED BY <4>1
    <3> QED BY <3>1, <3>2, <3>3
  <2> QED BY <1>1, <2>1, <2>2, RowsUntouched
<1> QED BY <1>3, <1>4

(* A step that keeps the brands and leaves the stores alone. *)
LEMMA BrandsStayKeeps ==
  ASSUME TypeOK, Inv, StoresTypeOK, StoresInv, BrandsStay, UNCHANGED storeVars
  PROVE  StoresInv'
<1> USE DEF storeVars, storeTables
<1>1. ASSUME NEW s \in AllStores, BrandIsOwn(s) PROVE BrandIsOwn(s)'
  BY <1>1 DEF BrandIsOwn, BrandsStay, Live
<1>2. \A s \in AllStores : HasPictures(s)' = HasPictures(s) /\ HasSocials(s)' = HasSocials(s)
                          /\ Sent(s)' = Sent(s)
  BY DEF HasPictures, HasSocials, Sent
<1>3. NoOrphan'
  <2>1. \A s \in stores : BrandIsOwn(s)'
    BY <1>1 DEF StoresInv, NoOrphan, StoresTypeOK, BrandIsOwn
  <2> QED BY <1>2, <2>1 DEF StoresInv, NoOrphan, StoresTypeOK
<1>4. StoreAnswers' /\ StoresAllowed'
  BY <1>2 DEF StoresInv, StoreAnswers, StoresAllowed, BrandsStay, Sent, HasPictures, HasSocials
<1>5. ShareOK'
  BY DEF StoresInv, ShareOK, BrandsStay, StoresTypeOK, StoreCallOK
<1>6. OwnersOK'
  <2> SUFFICES ASSUME NEW s \in StoreRequests, spc[s] \in {"insert", "commit"}
               PROVE  place[s] \in written' /\ (rows'[place[s]] # None => BrandIsOwn(s)')
    BY DEF OwnersOK
  <2>1. place[s] \in written /\ place[s] \in Brands
    BY DEF StoresInv, OwnersOK, StoreCallOK
  <2> QED BY <1>1, <2>1 DEF StoresInv, OwnersOK, BrandsStay, AllStores
<1>7. UpdatersOwn'
  BY DEF BrandsStay, UpdatersOwn
<1>8. ASSUME NEW s \in StoreRequests PROVE StoreCallOK(s)'
  BY <1>2 DEF StoresInv, StoreCallOK, BrandsStay, Sent, HasPictures, HasSocials
<1> QED BY <1>3, <1>4, <1>5, <1>6, <1>7, <1>8 DEF StoresInv

(* A DELETE takes the stores of the brand along, and no other. *)
LEMMA CascadeKeeps ==
  ASSUME TypeOK, Inv, StoresTypeOK, StoresInv, NEW r \in Requests, DeleteBrand(r), Owned(r), Cascade(r)
  PROVE  StoresInv'
<1> DEFINE t == Target(r)
           lost == {s \in stores : place[s] = t}
<1>1. /\ t \in Brands /\ rows' = [rows EXCEPT ![t] = None] /\ lock[t] = None
      /\ UNCHANGED <<lock, profile, data>>
  BY TargetType DEF Inv, CallOK, DeleteBrand
<1>2. /\ \A s \in share : place[s] # t
      /\ stores' = stores \ lost /\ pics' = pics \ lost /\ socs' = socs \ lost /\ gone' = gone \cup lost
      /\ UNCHANGED <<share, place, body, spc, target, shown, lapsedStores>>
  BY DEF Cascade
<1>3. \A b \in Brands : rows'[b] = IF b = t THEN None ELSE rows[b]
  BY <1>1 DEF TypeOK
<1>4. written \subseteq written'
  BY StepGrows DEF Proceed, Grows
<1>5. \A s \in AllStores : place[s] # t => BrandIsOwn(s)' = BrandIsOwn(s)
  BY <1>1, <1>2, <1>3 DEF BrandIsOwn, Live
<1>6. /\ \A s \in AllStores : HasPictures(s)' = HasPictures(s) /\ HasSocials(s)' = HasSocials(s)
      /\ \A s \in AllStores : Sent(s)' = Sent(s)
  BY <1>2 DEF HasPictures, HasSocials, Sent
<1>7. NoOrphan'
  BY <1>2, <1>5, <1>6 DEF StoresInv, NoOrphan, StoresTypeOK
<1>8. StoreAnswers'
  BY <1>2, <1>6 DEF StoresInv, StoreAnswers, StoreCallOK, StoresTypeOK
<1>9. StoresAllowed'
  BY <1>1, <1>2 DEF StoresInv, StoresAllowed
<1>10. ShareOK'
  BY <1>2, <1>3 DEF StoresInv, ShareOK, StoreCallOK, StoresTypeOK
<1>11. OwnersOK'
  <2> SUFFICES ASSUME NEW s \in StoreRequests, spc[s] \in {"insert", "commit"}
               PROVE  place[s] \in written' /\ (rows'[place[s]] # None => BrandIsOwn(s)')
    BY <1>2 DEF OwnersOK
  <2>1. place[s] \in written /\ place[s] \in Brands /\ (rows[place[s]] # None => BrandIsOwn(s))
    BY DEF StoresInv, OwnersOK, StoreCallOK
  <2> QED BY <1>3, <1>4, <1>5, <2>1 DEF AllStores
<1>12. UpdatersOwn'
  BY <1>1, <1>3 DEF StoresInv, UpdatersOwn
<1>13. ASSUME NEW s \in StoreRequests PROVE StoreCallOK(s)'
  <2>1. StoreCallOK(s)
    BY DEF StoresInv
  <2>2. stores' \subseteq stores /\ stores \cup gone = stores' \cup gone' /\ gone \subseteq gone'
    BY <1>2
  <2>3. spc[s] = "socs" => Sent(target[s])' = Sent(target[s])
    BY <1>2 DEF Sent, HasPictures, HasSocials
  <2> QED BY <1>1, <1>2, <2>1, <2>2, <2>3 DEF StoreCallOK
<1>14. stores' \cap gone' = {}
  BY <1>2 DEF StoresInv
<1> QED BY <1>7, <1>8, <1>9, <1>10, <1>11, <1>12, <1>13, <1>14 DEF StoresInv

(* What is stored was sent by a user, for a brand of hers. *)
LEMMA StoredOwners ==
  ASSUME TypeOK, Inv, StoresInv, NEW s \in stores
  PROVE  body[s].owner \in Users
<1>1. place[s] \in Live /\ body[s].owner = data[rows[place[s]]].owner
  BY DEF StoresInv, NoOrphan, BrandIsOwn
<1>2. data[rows[place[s]]] \in Drafts
  BY <1>1, RowTypes DEF Inv, RowsOK, Live
<1> QED BY <1>1, <1>2 DEF Data

(* An edit of a profile records whose stores it leaves published. *)
LEMMA EditKeeps ==
  ASSUME TypeOK, Inv, StoresTypeOK, StoresInv, NEW u \in Users, EditProfile(u)
  PROVE  StoresInv'
<1>1. /\ UNCHANGED <<rows, lock, data, superseded, stores, pics, socs, share, place, body, spc, target, shown, gone>>
      /\ \A v \in Users : v # u => profile'[v] = profile[v]
      /\ profile'[u] \in {"unverified", "verified"}
  BY DEF EditProfile, UpdateBusinessProfile, AdminUpdateBusinessProfile, Unverify, tables, history,
         storeTables, TypeOK
<1>2. lapsedStores' = IF profile'[u] = "verified" THEN lapsedStores
                      ELSE lapsedStores \cup {s \in AllStores : body[s].owner = u /\ body[s].published}
  BY DEF EditProfile
<1>3. ASSUME NEW s \in AllStores, body[s].owner \in Users, body[s].published,
             profile[body[s].owner] = "verified" \/ s \in lapsedStores
      PROVE  profile'[body[s].owner] = "verified" \/ s \in lapsedStores'
  BY <1>1, <1>2, <1>3
<1>4. Live' = Live /\ written' = written
  BY <1>1 DEF Live, written
<1>5. /\ \A s \in AllStores : BrandIsOwn(s)' = BrandIsOwn(s) /\ Sent(s)' = Sent(s)
      /\ \A s \in AllStores : HasPictures(s)' = HasPictures(s) /\ HasSocials(s)' = HasSocials(s)
  BY <1>1, <1>4 DEF BrandIsOwn, Sent, HasPictures, HasSocials
<1>6. NoOrphan' /\ ShareOK' /\ UpdatersOwn'
  BY <1>1, <1>5 DEF StoresInv, NoOrphan, ShareOK, UpdatersOwn, StoresTypeOK
<1>7. OwnersOK'
  BY <1>1, <1>4, <1>5 DEF StoresInv, OwnersOK, AllStores
<1>8. StoreAnswers'
  BY <1>1 DEF StoresInv, StoreAnswers, Sent, HasPictures, HasSocials
<1>9. StoresAllowed'
  BY <1>1, <1>3, StoredOwners DEF StoresInv, StoresAllowed, StoresTypeOK
<1>10. ASSUME NEW s \in StoreRequests PROVE StoreCallOK(s)'
  <2>1. StoreCallOK(s)
    BY DEF StoresInv
  <2>2. spc[s] \in {"brand", "insert", "commit"} => body[s].owner \in Users
    BY <2>1 DEF StoreCallOK, StoreData
  <2>3. spc[s] \in {"brand", "insert", "commit"} /\ body[s].published =>
          profile'[body[s].owner] = "verified" \/ s \in lapsedStores'
    BY <1>3, <2>1, <2>2 DEF StoreCallOK, AllStores
  <2>4. spc[s] = "socs" => Sent(target[s])' = Sent(target[s])
    BY <1>1 DEF Sent, HasPictures, HasSocials
  <2> QED BY <1>1, <2>1, <2>3, <2>4 DEF StoreCallOK
<1> QED BY <1>1, <1>6, <1>7, <1>8, <1>9, <1>10 DEF StoresInv

(* What a request for a store that was taken does, unless it commits: it     *)
(* moves to l and may find a part or leave its transaction.                *)
StoreMoves(s, l) ==
  /\ UNCHANGED <<vars, stores, pics, socs, place, body, target, gone>>
  /\ spc' = [spc EXCEPT ![s] = l]
  /\ \A q \in StoreRequests \ {s} : shown'[q] = shown[q]
  /\ \A q \in StoreRequests \ {s} : q \in share' <=> q \in share
  /\ \A q \in AllStores \ {s} : q \in lapsedStores => q \in lapsedStores'

(* Such a step need only be checked for the request itself. *)
LEMMA MovesKeep ==
  ASSUME TypeOK, StoresTypeOK, StoresTypeOK', StoresInv, NEW s \in StoreRequests, NEW l, StoreMoves(s, l),
         s \in stores => (s \in lapsedStores => s \in lapsedStores'),
         s \in share' <=> l = "commit",
         l = "commit" => rows[place[s]] # None,
         l \in {"insert", "commit"} => place[s] \in written /\ (rows[place[s]] # None => BrandIsOwn(s)),
         l = "answered" => \/ shown'[s] = Sent(target[s])
                           \/ /\ shown'[s] \in {{"row"}, {"row", "pics"}} /\ shown'[s] \subseteq Sent(target[s])
                              /\ target[s] \in gone,
         StoreCallOK(s)'
  PROVE  StoresInv'
<1>1. /\ UNCHANGED <<rows, lists, lock, data, superseded, profile, stores, pics, socs, place, body, target, gone>>
      /\ Live' = Live /\ written' = written
  BY DEF StoreMoves, vars, tables, history, Live, written
<1>2. /\ spc'[s] = l /\ \A q \in StoreRequests \ {s} : spc'[q] = spc[q] /\ shown'[q] = shown[q]
      /\ \A q \in StoreRequests \ {s} : q \in share' <=> q \in share
      /\ \A q \in AllStores : q \in stores /\ q \in lapsedStores => q \in lapsedStores'
  BY DEF StoreMoves, StoresTypeOK
<1>3. /\ \A q \in AllStores : HasPictures(q)' = HasPictures(q) /\ HasSocials(q)' = HasSocials(q)
      /\ \A q \in AllStores : BrandIsOwn(q)' = BrandIsOwn(q) /\ Sent(q)' = Sent(q)
  BY <1>1 DEF HasPictures, HasSocials, BrandIsOwn, Sent
<1>4. NoOrphan'
  BY <1>1, <1>3 DEF StoresInv, NoOrphan, StoresTypeOK
<1>5. StoreAnswers'
  <2> SUFFICES ASSUME NEW q \in StoreRequests, spc'[q] = "answered"
               PROVE  \/ shown'[q] = Sent(target[q])'
                      \/ /\ shown'[q] \in {{"row"}, {"row", "pics"}} /\ shown'[q] \subseteq Sent(target[q])'
                         /\ target[q] \in gone
    BY <1>1 DEF StoreAnswers
  <2>1. Sent(target[q])' = Sent(target[q])
    BY <1>1 DEF Sent, HasPictures, HasSocials
  <2>2. CASE q = s
    BY <1>2, <2>1, <2>2
  <2>3. CASE q # s
    BY <1>2, <2>1, <2>3 DEF StoresInv, StoreAnswers
  <2> QED BY <2>2, <2>3
<1>6. StoresAllowed'
  BY <1>1, <1>2 DEF StoresInv, StoresAllowed, StoresTypeOK
<1>7. ShareOK'
  <2>1. \A q \in StoreRequests : q \in share' <=> spc'[q] = "commit"
    BY <1>2 DEF StoresInv, ShareOK
  <2>2. share' = {q \in StoreRequests : spc'[q] = "commit"}
    BY <2>1 DEF StoresTypeOK
  <2>3. \A q \in share' : rows'[place'[q]] # None
    BY <1>1, <1>2, <2>2 DEF StoresInv, ShareOK
  <2> QED BY <2>2, <2>3 DEF ShareOK
<1>8. OwnersOK'
  <2> SUFFICES ASSUME NEW q \in StoreRequests, spc'[q] \in {"insert", "commit"}
               PROVE  place[q] \in written /\ (rows[place[q]] # None => BrandIsOwn(q))
    BY <1>1, <1>3 DEF OwnersOK, AllStores
  <2> QED BY <1>2 DEF StoresInv, OwnersOK
<1>9. UpdatersOwn'
  BY <1>1 DEF StoresInv, UpdatersOwn
<1>10. ASSUME NEW q \in StoreRequests, q # s PROVE StoreCallOK(q)'
  <2>1. StoreCallOK(q) /\ q \in AllStores
    BY DEF StoresInv, AllStores
  <2>2. spc[q] = "socs" => Sent(target[q])' = Sent(target[q])
    BY <1>1 DEF Sent, HasPictures, HasSocials
  <2>3. q \in lapsedStores => q \in lapsedStores'
    BY <1>10, <2>1 DEF StoreMoves
  <2> QED BY <1>1, <1>2, <1>10, <2>1, <2>2, <2>3 DEF StoreCallOK
<1> QED BY <1>1, <1>4, <1>5, <1>6, <1>7, <1>8, <1>9, <1>10 DEF StoresInv

(* The checks of CreateStore. *)
LEMMA ChecksKeep ==
  ASSUME TypeOK, Inv, StoresTypeOK, StoresTypeOK', StoresInv, NEW s \in StoreRequests,
         CheckStoreProfile(s) \/ CheckStoreBrand(s) \/ InsertStore(s)
  PROVE  StoresInv'
<1> USE DEF storeTables
<1>1. PICK l : spc' = [spc EXCEPT ![s] = l]
  BY DEF CheckStoreProfile, CheckStoreBrand, InsertStore, StoreGoto
<1>2. spc'[s] = l
  BY <1>1 DEF StoresTypeOK
<1>3. /\ UNCHANGED <<vars, stores, pics, socs, place, body, target, gone, shown>>
      /\ \A q \in StoreRequests \ {s} : q \in share' <=> q \in share
      /\ \A q \in AllStores \ {s} : q \in lapsedStores => q \in lapsedStores'
  BY DEF CheckStoreProfile, CheckStoreBrand, InsertStore
<1>4. StoreMoves(s, l)
  BY <1>1, <1>3 DEF StoreMoves
<1>5. /\ StoreCallOK(s) /\ spc[s] \in {"profile", "brand", "insert"}
      /\ s \notin stores \cup gone /\ place[s] \in Brands /\ body[s] \in StoreDrafts /\ shown[s] = {}
      /\ s \notin share /\ target[s] = s
  BY DEF StoresInv, StoreCallOK, ShareOK, CheckStoreProfile, CheckStoreBrand, InsertStore
<1>6. UNCHANGED profile
  BY <1>3 DEF vars
<1>7. CASE CheckStoreProfile(s)
  <2>1. /\ l = IF StoreProfileFits(s) THEN "brand" ELSE "done"
        /\ UNCHANGED share
    BY <1>2, <1>7 DEF CheckStoreProfile, StoreGoto, StoresTypeOK
  <2>2. StoreCallOK(s)'
    BY <1>2, <1>3, <1>5, <1>6, <2>1 DEF StoreCallOK, StoreProfileFits
  <2> QED BY <1>4, <1>5, <2>1, <2>2, MovesKeep
<1>8. CASE CheckStoreBrand(s)
  <2>1. /\ l = IF BrandIsOwn(s) THEN "insert" ELSE "done"
        /\ UNCHANGED <<share, lapsedStores>> /\ spc[s] = "brand"
    BY <1>2, <1>8 DEF CheckStoreBrand, StoreGoto, StoresTypeOK
  <2>2. StoreCallOK(s)'
    BY <1>2, <1>3, <1>5, <1>6, <2>1 DEF StoreCallOK
  <2>3. BrandIsOwn(s) => place[s] \in written
    BY DEF BrandIsOwn, Inv, RowsOK
  <2> QED BY <1>4, <1>5, <2>1, <2>2, <2>3, MovesKeep
<1>9. CASE InsertStore(s)
  <2>1. /\ l = IF rows[place[s]] # None THEN "commit" ELSE "done"
        /\ share' = IF rows[place[s]] # None THEN share \cup {s} ELSE share
        /\ UNCHANGED lapsedStores /\ spc[s] = "insert"
    BY <1>2, <1>9 DEF InsertStore, StoreGoto, StoresTypeOK
  <2>2. StoreCallOK(s)'
    BY <1>2, <1>3, <1>5, <1>6, <2>1 DEF StoreCallOK
  <2>3. place[s] \in written /\ (rows[place[s]] # None => BrandIsOwn(s))
    BY <2>1 DEF StoresInv, OwnersOK
  <2>4. s \in share' <=> l = "commit"
    BY <1>5, <2>1
  <2> QED BY <1>4, <1>5, <2>1, <2>2, <2>3, <2>4, MovesKeep
<1> QED BY <1>7, <1>8, <1>9

(* The SELECTs of GetStoreByID, and what may fail. *)
LEMMA ReadsKeep ==
  ASSUME TypeOK, Inv, StoresTypeOK, StoresTypeOK', StoresInv, NEW s \in StoreRequests,
         ReadStore(s) \/ ReadPictures(s) \/ ReadSocials(s)
  PROVE  StoresInv'
<1> USE DEF storeTables
<1>1. PICK l \in {"pics", "socs", "answered", "done"} :
        /\ spc' = [spc EXCEPT ![s] = l]
        /\ ReadStore(s) => l = IF target[s] \in stores THEN "pics" ELSE "done"
        /\ ReadPictures(s) => l = "socs"
        /\ ReadSocials(s) => l \in {"answered", "done"}
  BY DEF ReadStore, ReadPictures, ReadSocials, Find, StoreGoto
<1>2. /\ spc' = [spc EXCEPT ![s] = l] /\ spc'[s] = l
      /\ ReadStore(s) => shown'[s] = IF target[s] \in stores THEN shown[s] \cup {"row"} ELSE shown[s]
      /\ ReadPictures(s) => shown'[s] = IF target[s] \in pics THEN shown[s] \cup {"pics"} ELSE shown[s]
      /\ ReadSocials(s) => shown'[s] = IF target[s] \in socs THEN shown[s] \cup {"socs"} ELSE shown[s]
      /\ \A q \in StoreRequests \ {s} : shown'[q] = shown[q]
      /\ UNCHANGED <<vars, stores, pics, socs, share, place, body, target, gone, lapsedStores>>
  <2>1. spc'[s] = l
    BY <1>1 DEF StoresTypeOK
  <2>2. UNCHANGED <<vars, stores, pics, socs, share, place, body, target, gone, lapsedStores>>
    BY DEF ReadStore, ReadPictures, ReadSocials, Find
  <2>3. CASE ReadStore(s)
    BY <1>1, <2>1, <2>2, <2>3 DEF ReadStore, ReadPictures, ReadSocials, Find, StoresTypeOK
  <2>4. CASE ReadPictures(s)
    BY <1>1, <2>1, <2>2, <2>4 DEF ReadStore, ReadPictures, ReadSocials, Find, StoresTypeOK
  <2>5. CASE ReadSocials(s)
    BY <1>1, <2>1, <2>2, <2>5 DEF ReadStore, ReadPictures, ReadSocials, Find, StoresTypeOK
  <2> QED BY <2>3, <2>4, <2>5
<1>3. StoreMoves(s, l)
  BY <1>2 DEF StoreMoves
<1>4. StoreCallOK(s) /\ s \notin share
  BY DEF StoresInv, ShareOK, ReadStore, ReadPictures, ReadSocials
<1>5. spc[s] # "row" => /\ Sent(target[s])' = Sent(target[s])
                        /\ target[s] \in pics <=> target[s] \in stores /\ HasPictures(target[s])
                        /\ target[s] \in socs <=> target[s] \in stores /\ HasSocials(target[s])
  BY <1>2 DEF StoresInv, NoOrphan, Sent, HasPictures, HasSocials
<1>6. stores \cap gone = {}
  BY DEF StoresInv
<1>7. CASE ReadStore(s)
  <2>1. spc[s] = "row" /\ shown[s] = {}
    BY <1>4, <1>7 DEF ReadStore, StoreCallOK
  <2>2. StoreCallOK(s)'
    BY <1>1, <1>2, <1>7, <2>1 DEF StoreCallOK
  <2> QED BY <1>1, <1>2, <1>3, <1>4, <1>7, <2>2, MovesKeep
<1>8. CASE ReadPictures(s)
  <2>1. spc[s] = "pics" /\ shown[s] = {"row"} /\ target[s] \in stores \cup gone
    BY <1>4, <1>8 DEF ReadPictures, StoreCallOK
  <2>2. shown'[s] = IF target[s] \in pics THEN {"row", "pics"} ELSE {"row"}
    <3>1. shown'[s] = IF target[s] \in pics THEN shown[s] \cup {"pics"} ELSE shown[s]
      BY <1>1, <1>2, <1>8
    <3> QED BY <2>1, <3>1
  <2>3. \/ shown'[s] = Sent(target[s]) \ {"socs"}
        \/ shown'[s] = {"row"} /\ target[s] \in gone
    BY <1>5, <2>1, <2>2 DEF Sent
  <2>4. StoreCallOK(s)'
    BY <1>1, <1>2, <1>5, <1>8, <2>1, <2>3 DEF StoreCallOK
  <2> QED BY <1>1, <1>2, <1>3, <1>4, <1>8, <2>4, MovesKeep
<1>9. CASE ReadSocials(s)
  <2>1. /\ spc[s] = "socs" /\ target[s] \in stores \cup gone
        /\ \/ shown[s] = Sent(target[s]) \ {"socs"}
           \/ shown[s] = {"row"} /\ target[s] \in gone
    BY <1>4, <1>9 DEF ReadSocials, StoreCallOK
  <2>2. shown'[s] = IF target[s] \in socs THEN shown[s] \cup {"socs"} ELSE shown[s]
    BY <1>1, <1>2, <1>9
  <2>3. \/ shown'[s] = Sent(target[s])
        \/ /\ shown'[s] \in {{"row"}, {"row", "pics"}} /\ shown'[s] \subseteq Sent(target[s])
           /\ target[s] \in gone
    <3>1. CASE target[s] \in stores
      BY <1>5, <1>6, <2>1, <2>2, <3>1 DEF Sent
    <3>2. CASE target[s] \in gone
      BY <1>5, <1>6, <2>1, <2>2, <3>2 DEF Sent
    <3> QED BY <2>1, <3>1, <3>2
  <2>4. StoreCallOK(s)'
    BY <1>1, <1>2, <1>9, <2>1 DEF StoreCallOK
  <2> QED BY <1>1, <1>2, <1>3, <1>4, <1>9, <2>3, <2>4, MovesKeep
<1> QED BY <1>7, <1>8, <1>9

(* A request that fails leaves its transaction. *)
LEMMA StoreFailKeeps ==
  ASSUME TypeOK, StoresTypeOK, StoresTypeOK', StoresInv, NEW s \in StoreRequests, FailStore(s)
  PROVE  StoresInv'
<1>1. PICK l : l = "done"
  OBVIOUS
<1>2. /\ spc' = [spc EXCEPT ![s] = l] /\ spc'[s] = l /\ share' = share \ {s}
      /\ UNCHANGED <<vars, stores, pics, socs, place, body, target, shown, gone, lapsedStores>>
  BY <1>1 DEF FailStore, StoreGoto, StoresTypeOK
<1>3. StoreMoves(s, l)
  BY <1>2 DEF StoreMoves
<1>4. StoreCallOK(s)'
  BY <1>1, <1>2 DEF StoreCallOK
<1>5. s \notin share' /\ UNCHANGED lapsedStores
  BY <1>2
<1>6. /\ s \in stores => (s \in lapsedStores => s \in lapsedStores')
      /\ s \in share' <=> l = "commit"
      /\ l \notin {"insert", "commit", "answered"}
  BY <1>1, <1>5
<1> QED BY <1>3, <1>4, <1>6, MovesKeep

(* A request arrives for a store of its own or of another. *)
LEMMA TakesKeep ==
  ASSUME TypeOK, Inv, StoresTypeOK, StoresTypeOK', StoresInv, NEW s \in StoreRequests,
         CreateStore(s) \/ GetUserStore(s)
  PROVE  StoresInv'
<1>1. PICK t, b, d, l : /\ StoreTake(s, t, b, d, l)
                        /\ \/ l = "profile" /\ t = s /\ b \in Brands /\ d \in StoreDrafts
                           \/ l = "row"
  BY DEF CreateStore, GetUserStore
<1>2. /\ spc[s] = "idle" /\ s \notin stores \cup gone /\ shown[s] = {} /\ s \in AllStores
      /\ target' = [target EXCEPT ![s] = t] /\ place' = [place EXCEPT ![s] = b]
      /\ body' = [body EXCEPT ![s] = d] /\ spc' = [spc EXCEPT ![s] = l]
      /\ UNCHANGED <<vars, stores, pics, socs, share, shown, gone, lapsedStores>>
  BY <1>1 DEF StoreTake, StoreGoto, StoresInv, StoreCallOK, storeTables, AllStores
<1>3. /\ target'[s] = t /\ place'[s] = b /\ body'[s] = d /\ spc'[s] = l
      /\ \A q \in StoreRequests \ {s} : target'[q] = target[q] /\ spc'[q] = spc[q]
      /\ \A q \in AllStores \ {s} : place'[q] = place[q] /\ body'[q] = body[q]
  BY <1>2 DEF StoresTypeOK
<1>4. /\ UNCHANGED <<rows, lists, lock, data, superseded, profile, stores, pics, socs, share, shown, gone, lapsedStores>>
      /\ Live' = Live /\ written' = written
  BY <1>2 DEF vars, tables, history, Live, written
<1>5. /\ \A q \in AllStores \ {s} : HasPictures(q)' = HasPictures(q) /\ HasSocials(q)' = HasSocials(q)
      /\ \A q \in AllStores \ {s} : BrandIsOwn(q)' = BrandIsOwn(q) /\ Sent(q)' = Sent(q)
  BY <1>3, <1>4 DEF HasPictures, HasSocials, BrandIsOwn, Sent
<1>6. NoOrphan'
  <2>1. /\ NoOrphan /\ stores' = stores /\ pics' = pics /\ socs' = socs
        /\ \A q \in stores : q \in AllStores \ {s}
    BY <1>2, <1>4 DEF StoresInv, StoresTypeOK
  <2>2. \A q \in stores' : BrandIsOwn(q)'
    BY <1>5, <2>1 DEF NoOrphan
  <2>3. pics' = {q \in stores' : HasPictures(q)'}
    BY <1>5, <2>1 DEF NoOrphan
  <2>4. socs' = {q \in stores' : HasSocials(q)'}
    BY <1>5, <2>1 DEF NoOrphan
  <2> QED BY <2>2, <2>3, <2>4 DEF NoOrphan
<1>7. ASSUME NEW q \in StoreRequests, q # s PROVE StoreCallOK(q)'
  <2>1. StoreCallOK(q) /\ q \in AllStores
    BY DEF StoresInv, AllStores
  <2>2. spc[q] = "socs" => Sent(target[q])' = Sent(target[q])
    <3>1. spc[q] = "socs" => target[q] \in AllStores \ {s}
      BY <1>2, <2>1 DEF StoreCallOK, StoresTypeOK
    <3>2. target'[q] = target[q]
      BY <1>3, <1>7
    <3>3. spc[q] = "socs" => body'[target[q]] = body[target[q]]
      BY <1>3, <3>1
    <3> QED BY <3>2, <3>3 DEF Sent, HasPictures, HasSocials
  <2> QED BY <1>3, <1>4, <1>7, <2>1, <2>2 DEF StoreCallOK
<1>8. StoreCallOK(s)'
  BY <1>1, <1>2, <1>3, <1>4 DEF StoreCallOK
<1>9. StoreAnswers'
  <2> SUFFICES ASSUME NEW q \in StoreRequests, spc'[q] = "answered"
               PROVE  \/ shown'[q] = Sent(target[q])'
                      \/ /\ shown'[q] \in {{"row"}, {"row", "pics"}} /\ shown'[q] \subseteq Sent(target[q])'
                         /\ target'[q] \in gone'
    BY DEF StoreAnswers
  <2>1. q # s /\ StoreCallOK(q)
    BY <1>1, <1>3 DEF StoresInv
  <2>2. target[q] \in AllStores \ {s}
    BY <1>2, <1>3, <2>1 DEF StoreCallOK, StoresTypeOK
  <2>3. Sent(target[q])' = Sent(target[q])
    BY <1>3, <2>1, <2>2 DEF Sent, HasPictures, HasSocials
  <2> QED BY <1>3, <1>4, <2>1, <2>3 DEF StoresInv, StoreAnswers
<1>10. StoresAllowed' /\ ShareOK' /\ OwnersOK' /\ UpdatersOwn'
  <2>1. StoresAllowed'
    BY <1>2, <1>3, <1>4 DEF StoresInv, StoresAllowed, StoresTypeOK
  <2>2. ShareOK'
    BY <1>1, <1>2, <1>3, <1>4 DEF StoresInv, ShareOK, StoresTypeOK, AllStores
  <2>3. OwnersOK'
    BY <1>1, <1>3, <1>4, <1>5 DEF StoresInv, OwnersOK, AllStores
  <2>4. UpdatersOwn'
    BY <1>4 DEF StoresInv, UpdatersOwn
  <2> QED BY <2>1, <2>2, <2>3, <2>4
<1>11. stores' \cap gone' = {}
  BY <1>4 DEF StoresInv
<1> QED BY <1>6, <1>7, <1>8, <1>9, <1>10, <1>11 DEF StoresInv

(* The commit makes the store, its pictures and its socials visible at once. *)
LEMMA StoreCommitKeeps ==
  ASSUME TypeOK, Inv, StoresTypeOK, StoresTypeOK', StoresInv, NEW s \in StoreRequests, CommitStore(s)
  PROVE  StoresInv'
<1>1. /\ spc[s] = "commit" /\ s \in share /\ s \in AllStores /\ target[s] = s /\ shown[s] = {}
      /\ s \notin stores \cup gone
      /\ body[s].published => profile[body[s].owner] = "verified" \/ s \in lapsedStores
  BY DEF CommitStore, StoresInv, ShareOK, StoreCallOK, AllStores
<1>2. BrandIsOwn(s)
  BY <1>1 DEF StoresInv, ShareOK, OwnersOK
<1>3. /\ spc' = [spc EXCEPT ![s] = "row"] /\ stores' = stores \cup {s} /\ share' = share \ {s}
      /\ pics' = IF HasPictures(s) THEN pics \cup {s} ELSE pics
      /\ socs' = IF HasSocials(s) THEN socs \cup {s} ELSE socs
      /\ UNCHANGED <<vars, place, body, target, shown, gone, lapsedStores>>
  BY DEF CommitStore, StoreGoto
<1>4. spc'[s] = "row" /\ \A q \in StoreRequests \ {s} : spc'[q] = spc[q]
  BY <1>3 DEF StoresTypeOK
<1>5. /\ UNCHANGED <<rows, lists, lock, data, superseded, profile, place, body, target, shown, gone, lapsedStores>>
      /\ Live' = Live /\ written' = written
  BY <1>3 DEF vars, tables, history, Live, written
<1>6. /\ \A q \in AllStores : HasPictures(q)' = HasPictures(q) /\ HasSocials(q)' = HasSocials(q)
      /\ \A q \in AllStores : BrandIsOwn(q)' = BrandIsOwn(q) /\ Sent(q)' = Sent(q)
  BY <1>5 DEF HasPictures, HasSocials, BrandIsOwn, Sent
<1>7. NoOrphan'
  <2>1. \A q \in stores' : BrandIsOwn(q)'
    BY <1>1, <1>2, <1>3, <1>6 DEF StoresInv, NoOrphan, StoresTypeOK
  <2>2. pics' = {q \in stores' : HasPictures(q)'}
    BY <1>1, <1>3, <1>6 DEF StoresInv, NoOrphan, StoresTypeOK
  <2>3. socs' = {q \in stores' : HasSocials(q)'}
    BY <1>1, <1>3, <1>6 DEF StoresInv, NoOrphan, StoresTypeOK
  <2> QED BY <2>1, <2>2, <2>3 DEF NoOrphan
<1>8. StoreAnswers'
  <2> SUFFICES ASSUME NEW q \in StoreRequests, spc'[q] = "answered"
               PROVE  \/ shown'[q] = Sent(target[q])'
                      \/ /\ shown'[q] \in {{"row"}, {"row", "pics"}} /\ shown'[q] \subseteq Sent(target[q])'
                         /\ target'[q] \in gone'
    BY DEF StoreAnswers
  <2>1. q # s /\ Sent(target[q])' = Sent(target[q])
    BY <1>4, <1>5 DEF Sent, HasPictures, HasSocials
  <2> QED BY <1>4, <1>5, <2>1 DEF StoresInv, StoreAnswers
<1>9. StoresAllowed'
  BY <1>1, <1>3, <1>5 DEF StoresInv, StoresAllowed
<1>10. ShareOK'
  BY <1>1, <1>3, <1>4, <1>5 DEF StoresInv, ShareOK, StoresTypeOK
<1>11. OwnersOK'
  BY <1>4, <1>5, <1>6 DEF StoresInv, OwnersOK, AllStores
<1>12. UpdatersOwn'
  BY <1>5 DEF StoresInv, UpdatersOwn
<1>13. stores' \cap gone' = {}
  BY <1>1, <1>3, <1>5 DEF StoresInv
<1>14. StoreCallOK(s)'
  BY <1>1, <1>4, <1>5 DEF StoreCallOK
<1>15. ASSUME NEW q \in StoreRequests, q # s PROVE StoreCallOK(q)'
  <2>1. StoreCallOK(q)
    BY DEF StoresInv
  <2>2. spc[q] = "socs" => Sent(target[q])' = Sent(target[q])
    BY <1>5 DEF Sent, HasPictures, HasSocials
  <2> QED BY <1>3, <1>4, <1>5, <1>15, <2>1, <2>2 DEF StoreCallOK
<1> QED BY <1>7, <1>8, <1>9, <1>10, <1>11, <1>12, <1>13, <1>14, <1>15 DEF StoresInv

(* Every step keeps the invariant of the stores. *)
LEMMA StoresInvStep ==
  TypeOK /\ Inv /\ StoresTypeOK /\ StoresInv /\ [MarketNext]_marketVars => StoresInv'
<1> SUFFICES ASSUME TypeOK, Inv, StoresTypeOK, StoresInv, [MarketNext]_marketVars PROVE StoresInv'
  OBVIOUS
<1>1. StoresTypeOK'
  BY StoresTypeStep
<1>2. UpdatersOwn
  BY DEF StoresInv
<1>3. CASE UNCHANGED marketVars
  <2>1. UNCHANGED <<vars, storeVars>>
    BY <1>3 DEF marketVars
  <2>2. BrandsStay
    BY <1>2, <2>1 DEF BrandsStay, UpdatersOwn, vars, tables, history, written, Live
  <2> QED BY <2>1, <2>2, BrandsStayKeeps
<1>4. ASSUME NEW s \in StoreRequests, CreateStore(s) \/ GetUserStore(s) \/ StoreProceed(s) \/ FailStore(s)
      PROVE  StoresInv'
  BY <1>1, <1>4, TakesKeep, ChecksKeep, StoreCommitKeeps, ReadsKeep, StoreFailKeeps DEF StoreProceed
<1>5. ASSUME NEW r \in Requests, BrandStep(r) \/ BrandAside(r) PROVE StoresInv'
  BY <1>2, <1>5, BrandStepStays, BrandsStayKeeps DEF BrandStep, BrandAside
<1>6. ASSUME NEW r \in Requests, DeleteCascading(r) PROVE StoresInv'
  <2>1. CASE Owned(r)
    BY <1>6, <2>1, CascadeKeeps DEF DeleteCascading
  <2>2. CASE ~Owned(r)
    <3>1. DeleteBrand(r) /\ UNCHANGED storeVars
      BY <1>6, <2>2 DEF DeleteCascading
    <3>2. UNCHANGED <<rows, lock>>
      BY <2>2, <3>1 DEF DeleteBrand
    <3>3. BrandsStay
      BY <1>2, <3>1, <3>2, RowsUntouched DEF Proceed
    <3> QED BY <3>1, <3>3, BrandsStayKeeps
  <2> QED BY <2>1, <2>2
<1>7. ASSUME NEW u \in Users, EditProfile(u) PROVE StoresInv'
  BY <1>7, EditKeeps
<1> QED BY <1>3, <1>4, <1>5, <1>6, <1>7 DEF MarketNext, BrandProceed

(* The invariant of the stores, on top of that of the brands. *)
THEOREM StoresInvariance == MarketSpec => [](StoresTypeOK /\ StoresInv)
<1>1. Spec => [](TypeOK /\ Inv)
  BY Invariance
<1> QED BY <1>1, BrandsKept, StoresTypeInit, StoresInvInit, StoresTypeStep, StoresInvStep, PTL DEF MarketSpec

(* Inserts, cascades and reads keep the rows of stores and their children of their types. *)
THEOREM StoreTypes == MarketSpec => []StoresTypeOK
<1> QED BY StoresInvariance, PTL

(* CreateStore checks the brand long before it writes, and a DELETE may run  *)
(* in between: still every store hangs on a brand of its owner.            *)
THEOREM StoresHangOn == MarketSpec => []NoOrphan
<1>1. StoresInv => NoOrphan
  BY DEF StoresInv
<1> QED BY <1>1, StoresInvariance, PTL

(* An answer that lacks a part is of a store that was deleted meanwhile. *)
THEOREM StoreAnswersWhole == MarketSpec => []StoreAnswers
<1>1. StoresInv => StoreAnswers
  BY DEF StoresInv
<1> QED BY <1>1, StoresInvariance, PTL

(* No store is published whose owner was not verified when it was created. *)
THEOREM StorePublishing == MarketSpec => []StoresAllowed
<1>1. StoresInv => StoresAllowed
  BY DEF StoresInv
<1> QED BY <1>1, StoresInvariance, PTL

-------------------------------------------------------------------------------
(* Nobody in internal/market waits for one who waits: a locked brand is      *)
(* being updated, and the update needs no other lock; a shared key belongs  *)
(* to a transaction that only has its batches and COMMIT left.             *)
THEOREM WaitsAreShort == MarketSpec => []ShortWaits
<1>1. ASSUME TypeOK, Inv, StoresInv PROVE ShortWaits
  <2> SUFFICES ASSUME NEW r \in Requests, pc[r] \notin {"idle", "done"}, ~BrandReady(r)
               PROVE  \/ \E q \in Requests : lock[Target(r)] = q /\ BrandReady(q)
                      \/ \E s \in share : place[s] = Target(r) /\ spc[s] = "commit"
    BY DEF ShortWaits
  <2>1. Target(r) \in Brands
    BY <1>1 DEF Inv, CallOK, BrandReady, Other
  <2>2. CASE lock[Target(r)] # None
    <3>1. PICK q \in Requests : lock[Target(r)] = q
      BY <1>1, <2>1, <2>2 DEF TypeOK
    <3>2. Writing(q)
      BY <1>1, <2>1, <2>2, <3>1 DEF Inv, LocksOK
    <3>3. BrandReady(q)
      BY <3>2 DEF Writing, BrandReady
    <3> QED BY <3>1, <3>3
  <2>3. CASE lock[Target(r)] = None
    <3>1. PICK s \in share : place[s] = Target(r)
      BY <2>3 DEF BrandReady
    <3>2. spc[s] = "commit"
      BY <1>1, <3>1 DEF StoresInv, ShareOK
    <3> QED BY <3>1, <3>2
  <2> QED BY <2>2, <2>3
<1>2. TypeOK /\ Inv /\ StoresTypeOK /\ StoresInv => ShortWaits
  BY <1>1
<1>3. Spec => [](TypeOK /\ Inv)
  BY Invariance
<1> QED BY <1>2, <1>3, BrandsKept, StoresInvariance, PTL

(* A statement of a request for a brand takes it ahead and no other back. *)
LEMMA BrandAhead ==
  ASSUME TypeOK, Inv, NEW r \in Requests, Arrive(r) \/ Proceed(r) \/ Fail(r)
  PROVE  /\ \A q \in Requests \ {r} : pc'[q] = pc[q] /\ step'[q] = step[q]
         /\ Stage(pc'[r]) > Stage(pc[r]) \/ NextList(r)
<1>1. CASE Arrive(r)
  BY <1>1 DEF Arrive, Create, Update, Delete, Get, Take, Goto, TypeOK, Stage
<1>2. CASE CheckBrandExists(r) \/ CheckBusinessProfileExists(r) \/ CheckBrandNameIsAvailable(r)
  BY <1>2 DEF CheckBrandExists, CheckBusinessProfileExists, CheckBrandNameIsAvailable, Goto, TypeOK, Stage
<1>3. CASE InsertRow(r) \/ Commit(r) \/ DeleteBrand(r)
  BY <1>3 DEF InsertRow, Commit, DeleteBrand, Goto, TypeOK, Stage
<1>4. CASE UpdateRow(r)
  BY <1>4 DEF UpdateRow, Goto, TypeOK, Stage
<1>5. CASE ReadRow(r)
  BY <1>5 DEF ReadRow, Goto, TypeOK, Stage
<1>6. CASE ClearList(r) \/ ReadList(r)
  <2>1. step[r] \in Lists /\ pc[r] \in {"clear", "lists"}
    BY <1>6 DEF ClearList, ReadList, Inv, CallOK
  <2>2. /\ \A q \in Requests \ {r} : pc'[q] = pc[q] /\ step'[q] = step[q]
        /\ step'[r] = step[r] + 1
        /\ pc'[r] = IF step[r] # ListCount THEN pc[r] ELSE IF pc[r] = "clear" THEN "commit" ELSE "done"
    BY <1>6 DEF ClearList, ReadList, Goto, TypeOK
  <2>3. CASE step[r] = ListCount
    BY <2>1, <2>2, <2>3 DEF Stage
  <2>4. CASE step[r] # ListCount
    <3>1. step'[r] <= ListCount
      BY <2>1, <2>2, <2>4 DEF Lists
    <3> QED BY <2>1, <2>2, <2>4, <3>1 DEF NextList
  <2> QED BY <2>2, <2>3, <2>4
<1>7. CASE Fail(r)
  BY <1>7 DEF Fail, Goto, TypeOK, Stage
<1> QED BY <1>1, <1>2, <1>3, <1>4, <1>5, <1>6, <1>7 DEF Proceed

(* So does one of a request for a store. *)
LEMMA StoreAhead ==
  ASSUME StoresTypeOK, NEW s \in StoreRequests,
         CreateStore(s) \/ GetUserStore(s) \/ StoreProceed(s) \/ FailStore(s)
  PROVE  /\ UNCHANGED vars
         /\ \A q \in StoreRequests \ {s} : spc'[q] = spc[q]
         /\ Stage(spc'[s]) > Stage(spc[s])
<1>1. CASE CreateStore(s) \/ GetUserStore(s)
  BY <1>1 DEF CreateStore, GetUserStore, StoreTake, StoreGoto, StoresTypeOK, Stage
<1>2. CASE CheckStoreProfile(s) \/ CheckStoreBrand(s) \/ InsertStore(s)
  BY <1>2 DEF CheckStoreProfile, CheckStoreBrand, InsertStore, StoreGoto, StoresTypeOK, Stage
<1>3. CASE CommitStore(s)
  BY <1>3 DEF CommitStore, StoreGoto, StoresTypeOK, Stage
<1>4. CASE ReadStore(s) \/ ReadPictures(s) \/ ReadSocials(s)
  BY <1>4 DEF ReadStore, ReadPictures, ReadSocials, Find, StoreGoto, StoresTypeOK, Stage
<1>5. CASE FailStore(s)
  BY <1>5 DEF FailStore, StoreGoto, StoresTypeOK, Stage
<1> QED BY <1>1, <1>2, <1>3, <1>4, <1>5 DEF StoreProceed

(* No request in internal/market runs a statement twice or goes back: it is  *)
(* at its end after at most ten stages and one turn per child table.  So    *)
(* nobody waits for ever behind requests that go on for ever, and with      *)
(* ShortWaits every one ends (what AllAnswered says).                      *)
THEOREM NobodyGoesOnForever == MarketSpec => OnlyAhead
<1>1. ASSUME TypeOK, Inv, StoresTypeOK, [MarketNext]_marketVars PROVE [Ahead]_marketVars
  <2> USE <1>1
  <2>1. ASSUME NEW r \in Requests, BrandProceed(r) \/ BrandAside(r) PROVE Ahead
    <3>1. Arrive(r) \/ Proceed(r) \/ Fail(r)
      BY <2>1 DEF BrandProceed, BrandStep, DeleteCascading, BrandAside, Proceed
    <3>2. spc' = spc
      BY <2>1 DEF BrandProceed, BrandStep, DeleteCascading, Cascade, BrandAside, storeVars
    <3> QED BY <3>1, <3>2, BrandAhead DEF Ahead
  <2>2. ASSUME NEW s \in StoreRequests,
               CreateStore(s) \/ GetUserStore(s) \/ StoreProceed(s) \/ FailStore(s)
        PROVE  Ahead
    <3>1. pc' = pc /\ step' = step
      BY <2>2, StoreAhead DEF vars
    <3> QED BY <2>2, <3>1, StoreAhead DEF Ahead
  <2>3. ASSUME NEW u \in Users, EditProfile(u) PROVE Ahead
    BY <2>3 DEF EditProfile, UpdateBusinessProfile, AdminUpdateBusinessProfile, Unverify, Ahead
  <2> QED BY <2>1, <2>2, <2>3 DEF MarketNext
<1>2. TypeOK /\ Inv /\ StoresTypeOK /\ [MarketNext]_marketVars => [Ahead]_marketVars
  BY <1>1
<1>3. Spec => [](TypeOK /\ Inv)
  BY Invariance
<1> QED BY <1>2, <1>3, BrandsKept, StoresInvariance, PTL DEF MarketSpec, OnlyAhead

-------------------------------------------------------------------------------
(* MarketStore's brands are BrandStore's. *)
LEMMA SameInit == Store!Init => Market!Init
BY DEF Store!Init, Market!Init, Store!Whole, Market!Whole

(* So are their creations, ... *)
LEMMA SameCreate == ASSUME NEW b, Store!Create(b) PROVE Market!Create(b)
BY DEF Store!Create, Market!Create, Store!Write, Market!Write, Store!Whole, Market!Whole

(* ... their updates ... *)
LEMMA SameReplace == ASSUME NEW b, NEW w, Store!Replace(b, w) PROVE Market!Replace(b, w)
BY DEF Store!Replace, Market!Replace, Store!Write, Market!Write, Store!Whole, Market!Whole

(* ... and their deletions. *)
LEMMA SameDelete == ASSUME NEW b, Store!Delete(b) PROVE Market!Delete(b)
BY DEF Store!Delete, Market!Delete

(* What a store's writer sends is what MarketStore has a store made of. *)
LEMMA SentTypes == \A s \in AllStores : Sent(s) \in Market!Parts /\ Sent(s) \subseteq {"row", "pics", "socs"} /\ Sent(s) # {}
BY DEF Sent, Market!Parts, HasPictures, HasSocials

(* The market of brands and stores that the nine tables stand for. *)
MarketOK ==
  /\ \A b \in Brands : owners[b] = IF rows[b] = None THEN None ELSE data[rows[b]].owner
  /\ \A b \in Brands : rows[b] # None => owners[b] \in Users
  /\ \A s \in AllStores : shops[s] = IF s \in stores THEN Market!Shop(place[s], Sent(s)) ELSE None
  /\ \A s \in stores : place[s] \in Brands /\ rows[place[s]] # None /\ shops[s] # None

(* Since its rows belong together, a store is one thing. *)
LEMMA MarketIs == TypeOK /\ Inv /\ StoresTypeOK /\ StoresInv => MarketOK
<1> SUFFICES ASSUME TypeOK, Inv, StoresTypeOK, StoresInv PROVE MarketOK
  OBVIOUS
<1>1. \A b \in Brands : owners[b] = IF rows[b] = None THEN None ELSE data[rows[b]].owner
  BY DEF owners
<1>2. ASSUME NEW b \in Brands, rows[b] # None PROVE owners[b] \in Users
  <2>1. rows[b] \in written
    BY <1>2, RowTypes
  <2>2. data[rows[b]] \in Data
    BY <2>1 DEF Inv, RowsOK
  <2> QED BY <1>1, <1>2, <2>2 DEF Data
<1>3. ASSUME NEW s \in AllStores PROVE PartsOf(s) = IF s \in stores THEN Sent(s) ELSE {}
  BY DEF PartsOf, Sent, StoresInv, NoOrphan
<1>4. ASSUME NEW s \in stores
      PROVE  /\ s \in AllStores /\ place[s] \in Brands /\ rows[place[s]] # None
             /\ body[s].owner = owners[place[s]] /\ owners[place[s]] \in Users
  BY <1>1, <1>2 DEF StoresInv, NoOrphan, BrandIsOwn, Live, StoresTypeOK
<1>5. ASSUME NEW s \in AllStores
      PROVE  shops[s] = IF s \in stores THEN Market!Shop(place[s], Sent(s)) ELSE None
  <2>1. CASE s \in stores
    <3>1. shops[s] = [brand |-> place[s], owner |-> body[s].owner, parts |-> Sent(s)]
      BY <1>3, <2>1, SentTypes DEF shops
    <3> QED BY <1>4, <2>1, <3>1 DEF Market!Shop
  <2>2. CASE s \notin stores
    BY <1>3, <2>2 DEF shops
  <2> QED BY <2>1, <2>2
<1>6. ASSUME NEW s \in stores PROVE shops[s] # None
  <2>1. shops[s] = [brand |-> place[s], owner |-> owners[place[s]], parts |-> Sent(s)]
    BY <1>4, <1>5 DEF Market!Shop
  <2>2. shops[s] \in [brand: Brands, owner: Users, parts: SUBSET {"row", "pics", "socs"}]
    BY <1>4, <2>1, SentTypes
  <2> QED BY <2>2
<1> QED BY <1>1, <1>2, <1>4, <1>5, <1>6 DEF MarketOK

(* The older brands and stores are the market at the start. *)
LEMMA MarketStarts == MarketInit => Market!MarketInit
<1> SUFFICES ASSUME MarketInit PROVE Market!MarketInit
  OBVIOUS
<1>1. Init
  BY DEF MarketInit
<1>2. TypeOK /\ Inv /\ StoresTypeOK /\ StoresInv
  BY <1>1, TypeInit, InvInit, StoresTypeInit, StoresInvInit
<1>3. MarketOK /\ StoreOK
  BY <1>2, MarketIs, StoreIs
<1>4. Market!Init
  BY <1>1, StoreInit, SameInit
<1>5. \A b \in Brands : store[b] # None <=> rows[b] # None
  BY <1>3 DEF StoreOK
<1>6. owners \in [Brands -> Users \cup {None}] /\ \A b \in Brands : owners[b] = None <=> store[b] = None
  <2>1. \A b \in Brands : owners[b] \in Users \cup {None} /\ (owners[b] = None <=> store[b] = None)
    BY <1>3, <1>5, NoneAssumption DEF MarketOK
  <2> QED BY <2>1 DEF owners
<1>7. opened = stores /\ stores = OldStores
  BY DEF MarketInit, opened
<1> DEFINE brand == [s \in opened |-> place[s]]
           parts == [s \in opened |-> Sent(s)]
<1>8. brand \in [opened -> {b \in Brands : store[b] # None}]
  BY <1>3, <1>5, <1>7 DEF MarketOK
<1>9. parts \in [opened -> Market!Parts]
  BY <1>7, SentTypes DEF AllStores
<1>10. shops = [s \in AllStores |-> IF s \in opened THEN Market!Shop(brand[s], parts[s]) ELSE None]
  <2>1. \A s \in AllStores : shops[s] = IF s \in opened THEN Market!Shop(brand[s], parts[s]) ELSE None
    BY <1>3, <1>7 DEF MarketOK
  <2> QED BY <2>1 DEF shops
<1>11. opened \subseteq AllStores
  BY <1>7 DEF AllStores
<1> QED BY <1>4, <1>6, <1>8, <1>9, <1>10, <1>11 DEF Market!MarketInit

(* A commit of a brand gives it an owner or leaves it hers. *)
LEMMA MarketCommit ==
  ASSUME TypeOK, Inv, TypeOK', Inv', StoresInv, NEW r \in Requests, Commit(r), UNCHANGED storeVars
  PROVE  Market!MarketNext
<1> DEFINE t == Target(r)
<1>1. /\ CallOK(r) /\ t \in Brands /\ r \in Brands /\ data' = data
      /\ rows' = [rows EXCEPT ![t] = r] /\ lock[t] \in {r, None}
      /\ IF call[r].op = "create" THEN rows[t] = None /\ t = r ELSE rows[t] # None
  BY CommitFacts DEF Brands
<1>2. pc[r] = "commit" /\ data[r] \in Drafts
  BY <1>1 DEF Commit, CallOK
<1>3. UNCHANGED <<shops, opened>>
  BY DEF storeVars, storeTables, shops, PartsOf, opened
<1>4. owners' = [owners EXCEPT ![t] = data[r].owner]
  <2>1. \A b \in Brands : rows'[b] = IF b = t THEN r ELSE rows[b]
    BY <1>1 DEF TypeOK
  <2>2. \A b \in Brands : owners'[b] = IF b = t THEN data[r].owner ELSE owners[b]
    BY <1>1, <2>1, NoneAssumption DEF owners
  <2> QED BY <2>2 DEF owners
<1>5. CASE call[r].op = "create"
  <2>1. t = r /\ Market!Create(r)
    BY <1>5, CommitStep, SameCreate
  <2>2. data[r].owner \in Users
    BY <1>2 DEF Data
  <2>3. Market!CreateBrand(r, data[r].owner)
    BY <1>3, <1>4, <2>1 DEF Market!CreateBrand
  <2> QED BY <1>1, <2>2, <2>3 DEF Market!MarketNext
<1>6. CASE call[r].op # "create"
  <2>1. Market!Replace(t, r)
    BY <1>6, CommitStep, SameReplace
  <2>2. lock[t] = r
    BY <1>1, <1>2, <1>6 DEF Inv, LocksOK, Writing, CallOK
  <2>3. data[r].owner = data[rows[t]].owner
    BY <1>1, <2>2, NoneAssumption DEF StoresInv, UpdatersOwn
  <2>4. data[r].owner = owners[t]
    BY <1>1, <1>6, <2>3 DEF owners
  <2>5. owners' = owners
    BY <1>4, <2>4 DEF owners
  <2>6. Market!UpdateBrand(t, r)
    BY <1>3, <2>1, <2>5 DEF Market!UpdateBrand
  <2> QED BY <1>1, <2>6 DEF Market!MarketNext
<1> QED BY <1>5, <1>6

(* A DELETE takes the brand and its stores out of the market in one step. *)
LEMMA MarketDelete ==
  ASSUME TypeOK, Inv, StoresTypeOK, StoresInv, TypeOK', Inv', StoresTypeOK', StoresInv',
         NEW r \in Requests, DeleteBrand(r), Owned(r), Cascade(r)
  PROVE  Market!MarketNext
<1> DEFINE t == Target(r)
<1>1. t \in Brands /\ Market!Delete(t)
  BY DeleteStep, SameDelete
<1>2. rows' = [rows EXCEPT ![t] = None] /\ data' = data
  BY DEF DeleteBrand
<1>3. owners' = [owners EXCEPT ![t] = None]
  <2>1. \A b \in Brands : rows'[b] = IF b = t THEN None ELSE rows[b]
    BY <1>2 DEF TypeOK
  <2>2. \A b \in Brands : owners'[b] = IF b = t THEN None ELSE owners[b]
    BY <1>2, <2>1 DEF owners
  <2> QED BY <2>2 DEF owners
<1>4. /\ \A s \in AllStores : s \in stores' <=> s \in stores /\ place[s] # t
      /\ stores' \cup gone' = stores \cup gone
      /\ UNCHANGED <<place, body>>
  BY DEF Cascade
<1>5. MarketOK
  BY MarketIs
<1>6. MarketOK'
  BY MarketIs, PTL
<1>7. ASSUME NEW s \in AllStores
      PROVE  shops'[s] = IF shops[s] # None /\ shops[s].brand = t THEN None ELSE shops[s]
  <2>1. CASE s \notin stores
    BY <1>4, <1>5, <1>6, <2>1 DEF MarketOK
  <2>2. CASE s \in stores
    <3>1. /\ shops[s] # None /\ place[s] \in Brands
          /\ shops[s] = [brand |-> place[s], owner |-> owners[place[s]], parts |-> Sent(s)]
      BY <1>5, <2>2 DEF MarketOK, Market!Shop
    <3>2. CASE place[s] = t
      BY <1>4, <1>6, <3>1, <3>2 DEF MarketOK
    <3>3. CASE place[s] # t
      <4>1. shops'[s] = [brand |-> place'[s], owner |-> owners'[place'[s]], parts |-> Sent(s)']
        BY <1>4, <1>6, <2>2, <3>3 DEF MarketOK, Market!Shop
      <4>2. owners'[place[s]] = owners[place[s]]
        BY <1>3, <3>1, <3>3 DEF owners
      <4>3. Sent(s)' = Sent(s)
        BY <1>4 DEF Sent, HasPictures, HasSocials
      <4> QED BY <1>4, <3>1, <3>3, <4>1, <4>2, <4>3
    <3> QED BY <3>2, <3>3
  <2> QED BY <2>1, <2>2
<1>8. shops' = [s \in AllStores |-> IF shops[s] # None /\ shops[s].brand = t THEN None ELSE shops[s]]
  BY <1>7 DEF shops
<1>9. Market!DeleteBrand(t)
  BY <1>1, <1>3, <1>4, <1>8 DEF Market!DeleteBrand, opened
<1> QED BY <1>1, <1>9 DEF Market!MarketNext

(* A store's commit opens it, on a brand of its owner that is there. *)
LEMMA MarketOpen ==
  ASSUME TypeOK, Inv, StoresTypeOK, StoresInv, StoresTypeOK', StoresInv', TypeOK', Inv',
         NEW s \in StoreRequests, CommitStore(s)
  PROVE  Market!MarketNext
<1>1. /\ UNCHANGED <<vars, place, body, gone>> /\ stores' = stores \cup {s} /\ s \in AllStores
      /\ spc[s] = "commit"
  BY DEF CommitStore, AllStores
<1>2. s \notin opened /\ place[s] \in Brands /\ rows[place[s]] # None
  BY <1>1 DEF StoresInv, StoreCallOK, ShareOK, opened
<1>3. UNCHANGED <<store, written, owners>>
  BY <1>1, StoreSame DEF vars, tables, history, owners
<1>4. MarketOK
  BY MarketIs
<1>5. MarketOK'
  BY MarketIs, PTL
<1>6. ASSUME NEW q \in AllStores
      PROVE  shops'[q] = IF q = s THEN Market!Shop(place[s], Sent(s)) ELSE shops[q]
  <2>1. Sent(q)' = Sent(q) /\ place'[q] = place[q] /\ owners' = owners
    BY <1>1, <1>3 DEF Sent, HasPictures, HasSocials
  <2>2. shops[q] = IF q \in stores THEN [brand |-> place[q], owner |-> owners[place[q]], parts |-> Sent(q)] ELSE None
    BY <1>4 DEF MarketOK, Market!Shop
  <2>3. shops'[q] = IF q \in stores' THEN [brand |-> place'[q], owner |-> owners'[place'[q]], parts |-> Sent(q)'] ELSE None
    BY <1>5 DEF MarketOK, Market!Shop
  <2>4. shops'[q] = IF q \in stores' THEN [brand |-> place[q], owner |-> owners[place[q]], parts |-> Sent(q)] ELSE None
    BY <2>1, <2>3
  <2>5. q \in stores' <=> q = s \/ q \in stores
    BY <1>1
  <2> QED BY <2>2, <2>4, <2>5 DEF Market!Shop
<1>7. shops' = [shops EXCEPT ![s] = Market!Shop(place[s], Sent(s))]
  BY <1>6 DEF shops
<1>8. opened' = opened \cup {s}
  BY <1>1 DEF opened
<1>9. store[place[s]] # None
  BY <1>2, StoreIs DEF StoreOK
<1>10. Market!CreateShop(s, place[s], Sent(s))
  BY <1>2, <1>3, <1>7, <1>8, <1>9 DEF Market!CreateShop, Market!vars
<1> QED BY <1>1, <1>2, <1>10, SentTypes DEF Market!MarketNext

(* The rest of what a brand's request does leaves the market alone. *)
LEMMA MarketAside ==
  ASSUME TypeOK, Inv, NEW r \in Requests, UNCHANGED storeVars,
         Arrive(r) \/ Fail(r) \/ (Proceed(r) /\ ~Commit(r) /\ ~(DeleteBrand(r) /\ Owned(r)))
  PROVE  UNCHANGED Market!marketVars
<1>1. UNCHANGED <<rows, lists, superseded>>
  BY BrandsUntouched
<1>2. UNCHANGED <<shops, opened>>
  BY DEF storeVars, storeTables, shops, PartsOf, opened
<1>3. owners' = owners
  <2>1. Grows
    BY StepGrows
  <2>2. \A b \in Brands : rows[b] # None => data'[rows[b]] = data[rows[b]]
    BY <2>1, RowTypes DEF Grows
  <2> QED BY <1>1, <2>2 DEF owners
<1> QED BY <1>1, <1>2, <1>3, StoreSame DEF Market!marketVars, Market!vars

(* So does what a request for a store does before and after its commit. *)
LEMMA MarketStoreAside ==
  ASSUME StoresTypeOK, StoresInv, NEW s \in StoreRequests,
         CreateStore(s) \/ GetUserStore(s) \/ FailStore(s) \/ (StoreProceed(s) /\ ~CommitStore(s))
  PROVE  UNCHANGED Market!marketVars
<1>1. UNCHANGED <<vars, stores, pics, socs, gone>>
  BY DEF CreateStore, GetUserStore, StoreTake, StoreProceed, CheckStoreProfile, CheckStoreBrand,
         InsertStore, ReadStore, ReadPictures, ReadSocials, Find, FailStore, storeTables
<1>2. \A q \in AllStores : PartsOf(q) # {} => place'[q] = place[q] /\ body'[q] = body[q]
  <2>1. CASE CreateStore(s) \/ GetUserStore(s)
    <3>1. spc[s] = "idle"
      BY <2>1 DEF CreateStore, GetUserStore, StoreTake
    <3>2. s \notin stores /\ s \notin pics /\ s \notin socs
      BY <3>1 DEF StoresInv, StoreCallOK, NoOrphan
    <3>3. PartsOf(s) = {}
      BY <3>2 DEF PartsOf
    <3>4. \A q \in AllStores \ {s} : place'[q] = place[q] /\ body'[q] = body[q]
      BY <2>1 DEF CreateStore, GetUserStore, StoreTake, StoresTypeOK
    <3> QED BY <3>3, <3>4
  <2>2. CASE ~(CreateStore(s) \/ GetUserStore(s))
    BY <2>2 DEF StoreProceed, CheckStoreProfile, CheckStoreBrand,
         InsertStore, ReadStore, ReadPictures, ReadSocials, Find, FailStore
  <2> QED BY <2>1, <2>2
<1>3. \A q \in AllStores : PartsOf(q)' = PartsOf(q)
  BY <1>1 DEF PartsOf
<1>4. UNCHANGED <<shops, opened>>
  BY <1>1, <1>2, <1>3 DEF shops, opened
<1>5. UNCHANGED <<rows, lists, superseded, data>>
  BY <1>1 DEF vars, tables, history
<1> QED BY <1>4, <1>5, StoreSame DEF owners, Market!marketVars, Market!vars

(* Every step is one of MarketStore or leaves its brands and stores alone. *)
LEMMA MarketStoreStep ==
  TypeOK /\ Inv /\ StoresTypeOK /\ StoresInv /\ [MarketNext]_marketVars
    => [Market!MarketNext]_Market!marketVars
<1> SUFFICES ASSUME TypeOK, Inv, StoresTypeOK, StoresInv, [MarketNext]_marketVars
             PROVE  Market!MarketNext \/ UNCHANGED Market!marketVars
  OBVIOUS
<1>1. TypeOK' /\ Inv' /\ StoresTypeOK' /\ StoresInv'
  BY IsBrandsStep, TypeStep, InvStep, StoresTypeStep, StoresInvStep
<1>2. ASSUME NEW r \in Requests, BrandStep(r) \/ BrandAside(r)
      PROVE  Market!MarketNext \/ UNCHANGED Market!marketVars
  <2>1. ~(DeleteBrand(r) /\ BrandStep(r))
    BY DEF DeleteBrand, BrandStep
  <2> QED BY <1>1, <1>2, <2>1, MarketCommit, MarketAside DEF BrandStep, BrandAside
<1>3. ASSUME NEW r \in Requests, DeleteCascading(r)
      PROVE  Market!MarketNext \/ UNCHANGED Market!marketVars
  <2>1. CASE Owned(r)
    BY <1>1, <1>3, <2>1, MarketDelete DEF DeleteCascading
  <2>2. CASE ~Owned(r)
    <3>1. UNCHANGED storeVars /\ Proceed(r) /\ ~Commit(r)
      BY <1>3, <2>2 DEF DeleteCascading, Proceed, DeleteBrand, Commit
    <3> QED BY <2>2, <3>1, MarketAside
  <2> QED BY <2>1, <2>2
<1>4. ASSUME NEW s \in StoreRequests, CreateStore(s) \/ GetUserStore(s) \/ StoreProceed(s) \/ FailStore(s)
      PROVE  Market!MarketNext \/ UNCHANGED Market!marketVars
  BY <1>1, <1>4, MarketOpen, MarketStoreAside DEF StoreProceed
<1>5. ASSUME NEW u \in Users, EditProfile(u) PROVE UNCHANGED Market!marketVars
  <2>1. UNCHANGED <<rows, lists, superseded, data, stores, pics, socs, place, body, gone>>
    BY <1>5 DEF EditProfile, UpdateBusinessProfile, AdminUpdateBusinessProfile, Unverify, tables, history,
                storeTables
  <2> QED BY <2>1, StoreSame DEF owners, shops, PartsOf, opened, Market!marketVars, Market!vars
<1>6. CASE UNCHANGED marketVars
  <2>1. UNCHANGED <<rows, lists, superseded, data, stores, pics, socs, place, body, gone>>
    BY <1>6 DEF marketVars, vars, tables, history, storeVars, storeTables
  <2> QED BY <2>1, StoreSame DEF owners, shops, PartsOf, opened, Market!marketVars, Market!vars
<1> QED BY <1>2, <1>3, <1>4, <1>5, <1>6 DEF MarketNext, BrandProceed

(* The statements of concurrent requests over nine tables implement          *)
(* MarketStore: a store is opened whole on a brand of its owner that is     *)
(* there, and goes with it in one step.                                    *)
THEOREM MarketRefinement == MarketSpec => MarketStoreSpec
<1>1. MarketInit => Market!MarketInit
  BY MarketStarts
<1>2. TypeOK /\ Inv /\ StoresTypeOK /\ StoresInv /\ [MarketNext]_marketVars
        => [Market!MarketNext]_Market!marketVars
  BY MarketStoreStep
<1>3. Spec => [](TypeOK /\ Inv)
  BY Invariance
<1> QED BY <1>1, <1>2, <1>3, BrandsKept, StoresInvariance, PTL
        DEF MarketSpec, MarketStoreSpec, Market!MarketSpec
===============================================================================
