----------------------------- MODULE Brands_proofs -----------------------------
(***************************************************************************)
(* Theorems about module Brands, for any requests, brands, users, names,   *)
(* bodies of requests and number of child tables.                          *)
(***************************************************************************)
EXTENDS Brands, TLAPS

USE ListAssumption, DraftAssumption, NoneAssumption, FreshAssumption

Column == [owner: Users \cup {None}, name: Names \cup {None}, published: BOOLEAN, full: SUBSET Lists]

(* Bodies of requests, and what stands for one without a body, are well typed. *)
LEMMA DraftTypes == /\ Drafts \subseteq Column /\ NoData \in Column
                    /\ \A u \in Users : Caller(u) \in Column
<1>1. Data \subseteq Column
  <2> SUFFICES ASSUME NEW d \in Data PROVE d \in Column
    OBVIOUS
  <2> QED BY DEF Data, Column
<1>2. NoData \in Column
  BY DEF NoData, Column
<1>3. ASSUME NEW u \in Users PROVE Caller(u) \in Column
  BY DEF Caller, NoData, Column
<1> QED BY <1>1, <1>2, <1>3

(* A request on its way knows the brand it is about. *)
LEMMA TargetType ==
  ASSUME TypeOK, NEW r \in Requests, CallOK(r), call[r].op # "none"
  PROVE  Target(r) \in Brands
BY DEF TypeOK, CallOK, Target, Other, Brands, Ops

(* The tables start well typed. *)
LEMMA TypeInit == Init => TypeOK
<1> SUFFICES ASSUME Init PROVE TypeOK
  OBVIOUS
<1> USE DEF Init, Brands
<1>1. data \in [Brands -> Column]
  BY DraftTypes
<1>2. \A w \in Brands, i \in Lists : ListRows(w, i) \subseteq Brands
  BY <1>1 DEF ListRows, Column
<1>3. lists \in [Brands -> [Lists -> SUBSET Brands]]
  BY <1>2
<1>4. dead \in [Requests -> [Lists -> SUBSET Brands]] /\ got \in [Requests -> [0..ListCount -> SUBSET Brands]]
  BY DEF NoLists, NoParts
<1>5. call \in [Requests -> [op: Ops, brand: Brands \cup {None}]]
  BY DEF Ops
<1>6. step \in [Requests -> 1..(ListCount + 1)]
  OBVIOUS
<1> QED BY <1>1, <1>3, <1>4, <1>5, <1>6 DEF TypeOK, Column

(* Every statement of every request keeps the types. *)
LEMMA TypeStep == TypeOK /\ Inv /\ [Next]_vars => TypeOK'
<1> SUFFICES ASSUME TypeOK, Inv, [Next]_vars PROVE TypeOK'
  OBVIOUS
<1> USE DEF TypeOK, Goto, tables, history, Lists
<1>1. CASE UNCHANGED vars
  BY <1>1 DEF vars
<1>2. ASSUME NEW r \in Requests, Arrive(r) PROVE TypeOK'
  <2>1. \E op \in Ops, b \in Brands, l \in {"profile", "exists", "row"}, d \in Column :
          Take(r, op, b, d, l)
    BY <1>2, DraftTypes DEF Arrive, Create, Update, Delete, Get, Other, Brands, Ops
  <2> QED BY <2>1 DEF Take, Brands, Column
<1>3. ASSUME NEW r \in Requests, Proceed(r) \/ Fail(r) PROVE TypeOK'
  <2> CallOK(r) BY DEF Inv
  <2>1. pc[r] \notin {"idle", "done"}
    BY <1>3 DEF Proceed, CheckBrandExists, CheckBusinessProfileExists, CheckBrandNameIsAvailable,
                InsertRow, UpdateRow, ClearList, Commit, DeleteBrand, ReadRow, ReadList, Fail
  <2>2. Target(r) \in Brands
    BY <2>1, TargetType DEF CallOK
  <2>0. NoLists \in [Lists -> SUBSET Brands]
    BY DEF NoLists
  <2>3. CASE CheckBrandExists(r) \/ CheckBusinessProfileExists(r) \/ InsertRow(r)
    BY <2>3 DEF CheckBrandExists, CheckBusinessProfileExists, InsertRow
  <2>11. CASE Fail(r)
    BY <2>11, <2>0 DEF Fail
  <2>4. CASE CheckBrandNameIsAvailable(r)
    <3>1. OtherRows(r) \subseteq Brands
      BY DEF OtherRows, Live
    <3> QED BY <2>4, <3>1 DEF CheckBrandNameIsAvailable
  <2>5. CASE UpdateRow(r)
    <3>1. lock' \in [Brands -> Requests \cup {None}]
      <4>1. [lock EXCEPT ![Target(r)] = r] \in [Brands -> Requests \cup {None}]
        OBVIOUS
      <4> QED BY <2>5, <4>1 DEF UpdateRow
    <3>2. step' \in [Requests -> 1..(ListCount + 1)]
      BY <2>5 DEF UpdateRow
    <3>3. pc'[r] \in {"clear", "done"} /\ pc' = [pc EXCEPT ![r] = pc'[r]]
      BY <2>5 DEF UpdateRow
    <3>4. pc' \in [Requests -> {"idle", "exists", "profile", "name", "write", "clear", "commit",
                               "delete", "row", "lists", "done"}]
      BY <3>3
    <3>5. UNCHANGED <<rows, lists, profile, data, call, dead, got, seen, superseded, lapsed>>
      BY <2>5 DEF UpdateRow
    <3> QED BY <3>1, <3>2, <3>4, <3>5
  <2>6. CASE ClearList(r)
    BY <2>6, <2>2 DEF ClearList, CallOK
  <2>7. CASE Commit(r)
    <3>1. Rewritten(r) \in [Lists -> SUBSET Brands]
      BY <2>2 DEF Rewritten, ListRows, Brands
    <3>3. lists' \in [Brands -> [Lists -> SUBSET Brands]] /\ dead' \in [Requests -> [Lists -> SUBSET Brands]]
      BY <2>7, <2>2, <3>1, <2>0 DEF Commit
    <3>4. rows' \in [Brands -> Brands \cup {None}] /\ superseded' \subseteq Brands
      BY <2>7, <2>2 DEF Commit, Brands
    <3>5. lock' \in [Brands -> Requests \cup {None}]
      BY <2>7, <2>2 DEF Commit
    <3> QED BY <2>7, <3>3, <3>4, <3>5 DEF Commit
  <2>8. CASE DeleteBrand(r)
    <3>1. CASE Owned(r)
      <4>1. rows' = [rows EXCEPT ![Target(r)] = None] /\ superseded' \subseteq Brands
        BY <2>8, <2>2, <3>1 DEF DeleteBrand, Owned
      <4>2. lists' \in [Brands -> [Lists -> SUBSET Brands]]
        <5>1. lists' = [lists EXCEPT ![Target(r)] = NoLists]
          BY <2>8, <3>1 DEF DeleteBrand
        <5>2. [lists EXCEPT ![Target(r)] = NoLists] \in [Brands -> [Lists -> SUBSET Brands]]
          BY <2>0
        <5> QED BY <5>1, <5>2
      <4> QED BY <2>8, <3>1, <4>1, <4>2 DEF DeleteBrand
    <3>2. CASE ~Owned(r)
      BY <2>8, <3>2 DEF DeleteBrand
    <3> QED BY <3>1, <3>2
  <2>9. CASE ReadRow(r)
    <3>1. got' \in [Requests -> [0..ListCount -> SUBSET Brands]]
      <4>1. CASE Owned(r)
        <5>1. {rows[Target(r)]} \in SUBSET Brands
          BY <2>2, <4>1 DEF Owned
        <5>2. [got EXCEPT ![r][0] = {rows[Target(r)]}] \in [Requests -> [0..ListCount -> SUBSET Brands]]
          BY <5>1
        <5> QED BY <2>9, <4>1, <5>2 DEF ReadRow
      <4> QED BY <2>9, <4>1 DEF ReadRow
    <3>2. step' \in [Requests -> 1..(ListCount + 1)]
      BY <2>9 DEF ReadRow
    <3>3. pc'[r] \in {"lists", "done"} /\ pc' = [pc EXCEPT ![r] = pc'[r]]
      BY <2>9 DEF ReadRow
    <3>4. UNCHANGED <<rows, lists, lock, profile, data, call, dead, seen, superseded, lapsed>>
      BY <2>9 DEF ReadRow
    <3>5. pc' \in [Requests -> {"idle", "exists", "profile", "name", "write", "clear", "commit",
                               "delete", "row", "lists", "done"}]
      BY <3>3
    <3> QED BY <3>1, <3>2, <3>4, <3>5
  <2>10. CASE ReadList(r)
    <3>1. lists[Target(r)][step[r]] \in SUBSET Brands /\ step[r] \in 1..ListCount
      BY <2>10, <2>2 DEF ReadList, CallOK
    <3>2. got' \in [Requests -> [0..ListCount -> SUBSET Brands]]
      BY <2>10, <3>1 DEF ReadList
    <3>3. step' \in [Requests -> 1..(ListCount + 1)]
      BY <2>10, <3>1 DEF ReadList
    <3> QED BY <2>10, <3>2, <3>3 DEF ReadList
  <2> QED BY <1>3, <2>3, <2>4, <2>5, <2>6, <2>7, <2>8, <2>9, <2>10, <2>11 DEF Proceed
<1>4. ASSUME NEW u \in Users, UpdateBusinessProfile(u) \/ AdminUpdateBusinessProfile(u) PROVE TypeOK'
  BY <1>4 DEF UpdateBusinessProfile, AdminUpdateBusinessProfile, Unverify
<1> QED BY <1>1, <1>2, <1>3, <1>4 DEF Next
-------------------------------------------------------------------------------
(* Everything is idle at the start, and the older brands are whole. *)
LEMMA InvInit == Init => Inv
<1> SUFFICES ASSUME Init PROVE Inv
  OBVIOUS
<1> USE DEF Init, Brands
<1>1. TypeOK
  BY TypeInit
<1>2. Live = OldBrands /\ written = OldBrands
  <2>1. \A b \in OldBrands : b \in Brands /\ rows[b] = b /\ b # None
    OBVIOUS
  <2>2. \A b \in Requests : rows[b] = None
    OBVIOUS
  <2>3. Live = OldBrands
    BY <2>1, <2>2 DEF Live
  <2> QED BY <2>1, <2>3 DEF written
<1>3. \A r \in Requests : data[r] = NoData
  OBVIOUS
<1>4. RowsOK
  <2>1. \A b \in OldBrands : data[b] \in Drafts
    OBVIOUS
  <2> QED BY <1>2, <2>1 DEF RowsOK
<1>5. LocksOK
  BY DEF LocksOK, Writing
<1>6. WholeBrand
  <2>1. \A b \in Requests, i \in Lists : ListRows(b, i) = {}
    BY <1>3 DEF ListRows, NoData
  <2>2. \A b \in Brands, i \in Lists : lists[b][i] = ListRows(b, i)
    OBVIOUS
  <2> QED BY <2>1, <2>2 DEF WholeBrand
<1>7. \A r \in Requests : got[r][0] = {}
  <2>1. 0 \in 0..ListCount
    OBVIOUS
  <2> QED BY <2>1 DEF NoParts
<1>8. AnswerForward
  BY <1>7 DEF AnswerForward, Forward, Parts
<1>9. NamesChecked
  BY <1>2 DEF NamesChecked
<1>10. PublishedAllowed
  <2> SUFFICES ASSUME NEW b \in OldBrands, data[b].published, profile[data[b].owner] # "verified"
               PROVE  b \in lapsed
    BY <1>2 DEF PublishedAllowed
  <2>1. data[b] \in Drafts
    OBVIOUS
  <2>2. data[b].owner \in Users
    BY <2>1 DEF Data
  <2> QED BY <2>2
<1>11. \A r \in Requests : CallOK(r) /\ PartsOK(r)
  BY <1>3, <1>7 DEF CallOK, PartsOK, Parts, NoData
<1> QED BY <1>4, <1>5, <1>6, <1>8, <1>9, <1>10, <1>11 DEF Inv

-------------------------------------------------------------------------------
(* What a step of request r leaves alone. *)
Aside(r) ==
  /\ \A q \in Requests \ {r} :
       /\ pc'[q] = pc[q] /\ call'[q] = call[q] /\ step'[q] = step[q]
       /\ dead'[q] = dead[q] /\ got'[q] = got[q] /\ seen'[q] = seen[q]
  /\ \A w \in Brands \ {r} : data'[w] = data[w]
  /\ \A w \in lapsed \ {r} : w \in lapsed'
  /\ profile' = profile

(* A request touches nothing that belongs to another. *)
LEMMA StepAside ==
  ASSUME TypeOK, NEW r \in Requests, Arrive(r) \/ Proceed(r) \/ Fail(r)
  PROVE  Aside(r)
<1> USE DEF TypeOK, Aside, Goto, tables, history
<1>1. CASE Arrive(r)
  BY <1>1 DEF Arrive, Create, Update, Delete, Get, Take
<1>2. CASE CheckBrandExists(r) \/ CheckBusinessProfileExists(r) \/ CheckBrandNameIsAvailable(r)
  BY <1>2 DEF CheckBrandExists, CheckBusinessProfileExists, CheckBrandNameIsAvailable
<1>3. CASE InsertRow(r) \/ UpdateRow(r) \/ ClearList(r)
  BY <1>3 DEF InsertRow, UpdateRow, ClearList
<1>4. CASE Commit(r) \/ DeleteBrand(r) \/ Fail(r)
  BY <1>4 DEF Commit, DeleteBrand, Fail
<1>5. CASE ReadRow(r) \/ ReadList(r)
  BY <1>5 DEF ReadRow, ReadList
<1> QED BY <1>1, <1>2, <1>3, <1>4, <1>5 DEF Proceed

(* What has been written only grows, and is never changed afterwards; a row  *)
(* that is replaced or deleted is recorded.                                *)
Grows ==
  /\ superseded \subseteq superseded' /\ written \subseteq written'
  /\ \A b \in Live : rows'[b] = rows[b] \/ rows[b] \in superseded'
  /\ \A w \in written : data'[w] = data[w]

(* Who has written is past arriving. *)
LEMMA WrittenFixed ==
  ASSUME TypeOK, Inv, NEW r \in Requests, Arrive(r) \/ Proceed(r) \/ Fail(r), NEW w \in written
  PROVE  w \in Brands /\ data'[w] = data[w]
<1>1. w \in Brands
  BY DEF TypeOK, written, Live
<1>2. Aside(r)
  BY StepAside
<1>3. r \in written => pc[r] # "idle"
  BY DEF Inv, RowsOK
<1>4. pc[r] # "idle" => data' = data
  BY DEF Arrive, Create, Update, Delete, Get, Proceed, CheckBrandExists, CheckBusinessProfileExists,
         CheckBrandNameIsAvailable, InsertRow, UpdateRow, ClearList, Commit, DeleteBrand, ReadRow,
         ReadList, Fail
<1> QED BY <1>1, <1>2, <1>3, <1>4 DEF Aside

(* No step of a request takes back what was written. *)
LEMMA StepGrows ==
  ASSUME TypeOK, Inv, NEW r \in Requests, Arrive(r) \/ Proceed(r) \/ Fail(r)
  PROVE  Grows
<1>1. \A w \in written : data'[w] = data[w]
  BY WrittenFixed
<1>2. CASE UNCHANGED <<rows, superseded>>
  BY <1>1, <1>2 DEF Grows, written, Live
<1>3. ASSUME ~UNCHANGED <<rows, superseded>> PROVE Grows
  <2>1. Commit(r) \/ (DeleteBrand(r) /\ Owned(r))
    BY <1>3 DEF Arrive, Create, Update, Delete, Get, Take, Proceed, CheckBrandExists,
         CheckBusinessProfileExists, CheckBrandNameIsAvailable, InsertRow, UpdateRow, ClearList,
         DeleteBrand, ReadRow, ReadList, Fail, tables, history
  <2>2. Target(r) \in Brands
    <3>1. call[r].op # "none"
      BY <2>1 DEF Inv, CallOK, Commit, DeleteBrand
    <3> QED BY <3>1, TargetType DEF Inv
  <2>3. /\ \A b \in Brands \ {Target(r)} : rows'[b] = rows[b]
        /\ superseded \subseteq superseded'
        /\ Target(r) \in Live => rows[Target(r)] \in superseded'
    BY <2>1, <2>2 DEF Commit, DeleteBrand, Owned, TypeOK, Live
  <2>4. \A b \in Live : rows'[b] = rows[b] \/ rows[b] \in superseded'
    BY <2>3 DEF Live
  <2>5. written \subseteq written'
    BY <2>3, <2>4 DEF written, Live
  <2> QED BY <1>1, <2>3, <2>4, <2>5 DEF Grows
<1> QED BY <1>2, <1>3
-------------------------------------------------------------------------------
(* What was read was written, and its reader knows the brand it is of. *)
LEMMA PartsWritten ==
  ASSUME TypeOK, Inv, NEW q \in Requests, NEW i \in Parts(q), NEW w \in got[q][i]
  PROVE  w \in written /\ w \in Brands /\ Target(q) \in Brands /\ (w \in superseded \/ rows[Target(q)] = w)
<1>1. CallOK(q) /\ PartsOK(q)
  BY DEF Inv
<1>2. i \in 0..ListCount
  BY DEF Parts, TypeOK
<1>3. w \in Brands
  BY <1>2 DEF TypeOK
<1>4. call[q].op # "none"
  BY <1>1 DEF PartsOK, CallOK, Parts
<1>5. Target(q) \in Brands
  BY <1>1, <1>4, TargetType
<1> QED BY <1>1, <1>3, <1>5 DEF PartsOK, written, Live, Brands

(* What a request knows is not disturbed by a step of another. *)
LEMMA OthersKeep ==
  ASSUME TypeOK, TypeOK', Inv, NEW r \in Requests, Aside(r), Grows, NEW q \in Requests \ {r}
  PROVE  CallOK(q)' /\ PartsOK(q)' /\ Forward(q)'
<1>1. CallOK(q) /\ PartsOK(q) /\ Forward(q)
  BY DEF Inv, AnswerForward
<1>2. /\ pc'[q] = pc[q] /\ call'[q] = call[q] /\ step'[q] = step[q] /\ got'[q] = got[q]
      /\ seen'[q] = seen[q] /\ data'[q] = data[q] /\ Target(q)' = Target(q) /\ Parts(q)' = Parts(q)
      /\ profile' = profile /\ (q \in lapsed => q \in lapsed')
  BY DEF Aside, Target, Parts, Brands
<1>3. CallOK(q)'
  <2>1. seen[q] \subseteq written'
    BY <1>1 DEF CallOK, Grows
  <2>2. \A w \in seen[q] : data'[w] = data[w]
    BY <1>1 DEF CallOK, Grows
  <2>3. q \in written => q \in written'
    BY DEF Grows
  <2> QED BY <1>1, <1>2, <2>1, <2>2, <2>3 DEF CallOK, Other
<1>4. \A i \in Parts(q) : \A w \in got[q][i] : w \in superseded' \/ rows'[Target(q)] = w
  <2> SUFFICES ASSUME NEW i \in Parts(q), NEW w \in got[q][i]
               PROVE  w \in superseded' \/ rows'[Target(q)] = w
    OBVIOUS
  <2>1. w \in superseded => w \in superseded'
    BY DEF Grows
  <2>2. rows[Target(q)] = w => Target(q) \in Live
    BY PartsWritten DEF Live
  <2> QED BY <2>1, <2>2, PartsWritten DEF Grows
<1>5. PartsOK(q)'
  BY <1>1, <1>2, <1>4 DEF PartsOK
<1>6. Forward(q)'
  <2>1. ASSUME NEW i \in Parts(q), NEW j \in Parts(q), i < j, NEW w \in got[q][i]
        PROVE  w \in superseded' \/ got[q][j] = ListRows(w, j)'
    <3>1. data'[w] = data[w]
      BY PartsWritten DEF Grows
    <3>2. ListRows(w, j)' = ListRows(w, j)
      BY <3>1 DEF ListRows
    <3> QED BY <1>1, <2>1, <3>2 DEF Forward, Grows
  <2>2. superseded \subseteq superseded'
    BY DEF Grows
  <2> QED BY <1>1, <1>2, <2>1, <2>2 DEF Forward
<1> QED BY <1>3, <1>5, <1>6

(* A step of r that changes none of the tables. *)
Quiet(r) ==
  /\ UNCHANGED <<rows, lists, superseded>>
  /\ r \in written => /\ UNCHANGED <<call, seen, lapsed>>
                       /\ pc'[r] \in {"row", "lists", "done"}

(* The properties of the tables survive it. *)
LEMMA QuietTables ==
  ASSUME TypeOK, Inv, NEW r \in Requests, Aside(r), Grows, Quiet(r)
  PROVE  RowsOK' /\ WholeBrand' /\ NamesChecked' /\ PublishedAllowed'
<1>1. Live' = Live /\ written' = written
  BY DEF Quiet, Live, written
<1>2. \A b \in Live : /\ b \in Brands /\ rows[b] \in written /\ rows[b] \in Brands
                      /\ rows'[b] = rows[b] /\ data'[rows[b]] = data[rows[b]]
  BY DEF Quiet, Grows, written, Live, TypeOK
<1>3. \A q \in Requests : q \in written => call'[q] = call[q] /\ seen'[q] = seen[q]
  BY DEF Aside, Quiet
<1>4. \A w \in written : w \in lapsed => w \in lapsed'
  BY DEF Aside, Quiet
<1>5. RowsOK'
  <2>1. \A q \in Requests : q \in written => pc'[q] \in {"row", "lists", "done"}
    BY DEF Inv, RowsOK, Aside, Quiet
  <2>2. \A b \in Live : rows[b] \in Requests => Target(rows[b])' = Target(rows[b])
    BY <1>2, <1>3 DEF Target, Quiet
  <2>3. \A w \in written : data'[w] \in Drafts
    BY DEF Inv, RowsOK, Grows
  <2> QED BY <1>1, <1>2, <1>3, <2>1, <2>2, <2>3 DEF Inv, RowsOK, Quiet
<1>6. WholeBrand'
  <2> SUFFICES ASSUME NEW b \in Brands, NEW i \in Lists
               PROVE  lists[b][i] = IF rows[b] = None THEN {} ELSE ListRows(rows[b], i)'
    BY DEF WholeBrand, Quiet
  <2>1. rows[b] # None => ListRows(rows[b], i)' = ListRows(rows[b], i)
    BY <1>2 DEF Live, ListRows, Quiet
  <2> QED BY <2>1 DEF Inv, WholeBrand
<1>7. NamesChecked'
  BY <1>1, <1>2, <1>3 DEF Inv, NamesChecked
<1>8. PublishedAllowed'
  BY <1>1, <1>2, <1>4 DEF Inv, PublishedAllowed, Aside
<1> QED BY <1>5, <1>6, <1>7, <1>8

(* Locks, if r has none and gets none. *)
LEMMA QuietLocks ==
  ASSUME TypeOK, Inv, NEW r \in Requests, Aside(r), Quiet(r), UNCHANGED lock,
         ~(Writing(r) /\ call[r].op = "update"), ~(pc'[r] \in {"clear", "commit"} /\ call'[r].op = "update")
  PROVE  LocksOK'
<1>1. \A b \in Brands : lock[b] # r
  BY DEF Inv, LocksOK, TypeOK, NoneAssumption, Brands
<1>2. \A q \in Requests \ {r} : /\ Writing(q)' = Writing(q) /\ Target(q)' = Target(q)
                                 /\ call'[q] = call[q] /\ step'[q] = step[q] /\ dead'[q] = dead[q]
  BY DEF Aside, Writing, Target
<1>3. \A b \in Brands : lock[b] # None => lock[b] \in Requests \ {r}
  BY <1>1 DEF TypeOK
<1>4. Live' = Live /\ lock' = lock /\ lists' = lists
  BY DEF Quiet, Live
<1> QED
  <2>1. ASSUME NEW b \in Brands, lock[b] # None
        PROVE  (Target(lock[b]) = b /\ b \in Live /\ call[lock[b]].op = "update" /\ Writing(lock[b]))'
    <3> PICK q \in Requests \ {r} : lock[b] = q
      BY <1>3, <2>1
    <3>1. Target(q) = b /\ b \in Live /\ call[q].op = "update" /\ Writing(q)
      BY <2>1 DEF Inv, LocksOK
    <3> QED BY <3>1, <1>2, <1>4
  <2>2. ASSUME NEW q \in Requests, Writing(q)', call'[q].op = "update"
        PROVE  /\ lock'[Target(q)'] = q
               /\ \A i \in Lists : i < step'[q] => dead'[q][i] = lists'[Target(q)'][i]
    <3>1. q # r
      BY <2>2 DEF Writing
    <3> QED BY <3>1, <2>2, <1>2, <1>4 DEF Inv, LocksOK
  <2> QED BY <2>1, <2>2, <1>4 DEF LocksOK

(* Before anything is read there are no parts. *)
LEMMA NothingRead ==
  ASSUME Inv, NEW r \in Requests, pc[r] \notin {"lists", "done"}, got'[r] = got[r]
  PROVE  got[r][0] = {} /\ PartsOK(r)' /\ Forward(r)'
<1>1. got[r][0] = {}
  BY DEF Inv, PartsOK
<1> QED BY <1>1 DEF PartsOK, Forward, Parts

(* The parts of Inv, put together after a step of r. *)
LEMMA Together ==
  ASSUME TypeOK, TypeOK', Inv, NEW r \in Requests, Aside(r), Grows, RowsOK', LocksOK', WholeBrand',
         NamesChecked', PublishedAllowed', CallOK(r)', PartsOK(r)', Forward(r)'
  PROVE  Inv'
<1>1. \A q \in Requests : CallOK(q)' /\ PartsOK(q)' /\ Forward(q)'
  BY OthersKeep
<1> QED BY <1>1 DEF Inv, AnswerForward
-------------------------------------------------------------------------------
(* A request arrives: nothing has been written by it. *)
LEMMA ArriveKeeps ==
  ASSUME TypeOK, TypeOK', Inv, NEW r \in Requests, Arrive(r)
  PROVE  Inv'
<1>1. Aside(r) /\ Grows
  BY StepAside, StepGrows
<1>2. pc[r] = "idle" /\ r \notin written
  BY DEF Arrive, Create, Update, Delete, Get, Inv, RowsOK
<1>3. PICK op \in Ops \ {"none"}, b \in Brands, l \in {"profile", "exists", "row"}, d \in Column :
        /\ Take(r, op, b, d, l)
        /\ l = "profile" => op = "create" /\ d \in Drafts
        /\ l = "exists" => op \in {"update", "delete"}
        /\ l = "row" => op = "get"
        /\ op = "create" <=> b = r
        /\ op = "update" => d \in Drafts
  BY DraftTypes DEF Arrive, Create, Update, Delete, Get, Other, Brands, Ops
<1>4. /\ call'[r] = [op |-> op, brand |-> b] /\ data'[r] = d /\ pc'[r] = l
      /\ UNCHANGED <<tables, profile, step, dead, got, history>>
  BY <1>3 DEF Take, Goto, TypeOK, Brands
<1>5. Quiet(r)
  BY <1>2, <1>4 DEF Quiet, tables, history
<1>6. RowsOK' /\ WholeBrand' /\ NamesChecked' /\ PublishedAllowed'
  BY <1>1, <1>5, QuietTables
<1>7. LocksOK'
  BY <1>1, <1>2, <1>3, <1>4, <1>5, QuietLocks DEF Writing, tables
<1>8. PartsOK(r)' /\ Forward(r)'
  BY <1>2, <1>4, NothingRead
<1>9. CallOK(r)'
  <2>1. seen[r] \subseteq written /\ written' = written
    BY <1>4 DEF Inv, CallOK, written, Live, tables, history
  <2> QED BY <1>3, <1>4, <2>1 DEF CallOK, Target, Other, Ops, history
<1> QED BY <1>1, <1>6, <1>7, <1>8, <1>9, Together

(* The statements before the transaction, the INSERT, and an UPDATE that     *)
(* finds no row.                                                           *)
LEMMA CheckKeeps ==
  ASSUME TypeOK, TypeOK', Inv, NEW r \in Requests,
         \/ CheckBrandExists(r) \/ CheckBusinessProfileExists(r) \/ CheckBrandNameIsAvailable(r)
         \/ InsertRow(r) \/ (UpdateRow(r) /\ ~Owned(r))
  PROVE  Inv'
<1>1. Aside(r) /\ Grows
  BY StepAside, StepGrows DEF Proceed
<1>2. pc[r] \in {"exists", "profile", "name", "write"} /\ r \notin written
  BY DEF CheckBrandExists, CheckBusinessProfileExists, CheckBrandNameIsAvailable, InsertRow,
         UpdateRow, Inv, RowsOK
<1>3. UNCHANGED <<tables, profile, data, call, dead, got, superseded>>
  BY DEF CheckBrandExists, CheckBusinessProfileExists, CheckBrandNameIsAvailable, InsertRow,
         UpdateRow, history, tables
<1>4. Quiet(r) /\ written' = written
  BY <1>2, <1>3 DEF Quiet, tables, written, Live
<1>5. RowsOK' /\ WholeBrand' /\ NamesChecked' /\ PublishedAllowed'
  BY <1>1, <1>4, QuietTables
<1>6. ~(pc'[r] \in {"clear", "commit"} /\ call[r].op = "update")
  BY DEF CheckBrandExists, CheckBusinessProfileExists, CheckBrandNameIsAvailable, InsertRow,
         UpdateRow, Goto, TypeOK
<1>7. LocksOK'
  BY <1>1, <1>2, <1>3, <1>4, <1>6, QuietLocks DEF Writing, tables
<1>8. PartsOK(r)' /\ Forward(r)'
  BY <1>2, <1>3, NothingRead
<1>9. CallOK(r)'
  <2> USE DEF CallOK, Goto, Target, Other, TypeOK
  <2>0. CallOK(r)
    BY DEF Inv
  <2>1. CASE CheckBrandExists(r)
    BY <2>0, <2>1, <1>3, <1>4 DEF CheckBrandExists, history
  <2>2. CASE CheckBusinessProfileExists(r)
    BY <2>0, <2>2, <1>3, <1>4 DEF CheckBusinessProfileExists, ProfileFits
  <2>3. CASE CheckBrandNameIsAvailable(r)
    <3>1. OtherRows(r) \subseteq written
      BY DEF OtherRows, written
    <3>2. seen'[r] = OtherRows(r)
      BY <2>3 DEF CheckBrandNameIsAvailable
    <3>3. pc'[r] = "write" => \A w \in OtherRows(r) : data[w].name # data[r].name
      BY <2>3 DEF CheckBrandNameIsAvailable, Rivals
    <3> QED BY <2>0, <2>3, <1>3, <1>4, <3>1, <3>2, <3>3 DEF CheckBrandNameIsAvailable
  <2>4. CASE InsertRow(r)
    BY <2>0, <2>4, <1>3, <1>4 DEF InsertRow, history
  <2>5. CASE UpdateRow(r) /\ ~Owned(r)
    BY <2>0, <2>5, <1>3, <1>4 DEF UpdateRow, history
  <2> QED BY <2>1, <2>2, <2>3, <2>4, <2>5
<1> QED BY <1>1, <1>5, <1>7, <1>8, <1>9, Together
(* The UPDATE finds the row: r has its lock, and nobody had. *)
LEMMA UpdateRowKeeps ==
  ASSUME TypeOK, TypeOK', Inv, NEW r \in Requests, UpdateRow(r), Owned(r)
  PROVE  Inv'
<1>1. Aside(r) /\ Grows
  BY StepAside, StepGrows DEF Proceed
<1>2. /\ pc[r] = "write" /\ call[r].op = "update" /\ lock[Target(r)] = None
      /\ lock' = [lock EXCEPT ![Target(r)] = r] /\ pc'[r] = "clear" /\ step'[r] = 1
      /\ UNCHANGED <<rows, lists, profile, data, call, dead, got, history>>
  BY DEF UpdateRow, Goto, TypeOK
<1>3. r \notin written /\ CallOK(r)
  BY <1>2 DEF Inv, RowsOK
<1>4. Quiet(r) /\ written' = written /\ Live' = Live
  BY <1>2, <1>3 DEF Quiet, history, written, Live
<1>5. RowsOK' /\ WholeBrand' /\ NamesChecked' /\ PublishedAllowed'
  BY <1>1, <1>4, QuietTables
<1>6. Target(r) \in Brands /\ Target(r)' = Target(r)
  BY <1>2, <1>3, TargetType DEF Target
<1>7. LocksOK'
  <2>1. \A q \in Requests \ {r} : /\ Writing(q)' = Writing(q) /\ Target(q)' = Target(q)
                                   /\ call'[q] = call[q] /\ step'[q] = step[q] /\ dead'[q] = dead[q]
    BY <1>1 DEF Aside, Writing, Target
  <2>2. ASSUME NEW b \in Brands, lock'[b] # None
        PROVE  (Target(lock[b]) = b /\ b \in Live /\ call[lock[b]].op = "update" /\ Writing(lock[b]))'
    <3>1. CASE b = Target(r)
      BY <3>1, <1>2, <1>4, <1>6 DEF Owned, Live, Writing, TypeOK
    <3>2. CASE b # Target(r)
      <4>1. lock'[b] = lock[b] /\ lock[b] # None /\ lock[b] \in Requests
        BY <3>2, <2>2, <1>2 DEF TypeOK
      <4> PICK q \in Requests : lock[b] = q
        BY <4>1
      <4>2. Target(q) = b /\ b \in Live /\ call[q].op = "update" /\ Writing(q)
        BY <4>1 DEF Inv, LocksOK
      <4>3. q # r
        BY <4>2, <3>2
      <4> QED BY <4>1, <4>2, <4>3, <2>1, <1>4
    <3> QED BY <3>1, <3>2
  <2>3. ASSUME NEW q \in Requests, Writing(q)', call'[q].op = "update"
        PROVE  /\ lock'[Target(q)'] = q
               /\ \A i \in Lists : i < step'[q] => dead'[q][i] = lists'[Target(q)'][i]
    <3>1. CASE q = r
      BY <3>1, <1>2, <1>6 DEF Lists, TypeOK
    <3>2. CASE q # r
      <4>1. lock[Target(q)] = q /\ \A i \in Lists : i < step[q] => dead[q][i] = lists[Target(q)][i]
        BY <3>2, <2>1, <2>3 DEF Inv, LocksOK
      <4>2. Target(q) # Target(r)
        BY <4>1, <1>2 DEF Brands
      <4> QED BY <3>2, <4>1, <4>2, <2>1, <1>2
    <3> QED BY <3>1, <3>2
  <2> QED BY <2>2, <2>3 DEF LocksOK
<1>8. PartsOK(r)' /\ Forward(r)'
  BY <1>2, NothingRead
<1>9. CallOK(r)'
  BY <1>2, <1>3, <1>4 DEF CallOK, Target, Other, history, Lists
<1> QED BY <1>1, <1>5, <1>7, <1>8, <1>9, Together

(* Under its lock r deletes what is committed of one list. *)
LEMMA ClearListKeeps ==
  ASSUME TypeOK, TypeOK', Inv, NEW r \in Requests, ClearList(r)
  PROVE  Inv'
<1>1. Aside(r) /\ Grows
  BY StepAside, StepGrows DEF Proceed
<1>2. /\ pc[r] = "clear" /\ pc'[r] = IF step[r] = ListCount THEN "commit" ELSE "clear"
      /\ dead' = [dead EXCEPT ![r][step[r]] = lists[Target(r)][step[r]]]
      /\ step'[r] = step[r] + 1
      /\ UNCHANGED <<tables, profile, data, call, got, history>>
  BY DEF ClearList, Goto, TypeOK
<1>3. r \notin written /\ CallOK(r) /\ call[r].op = "update" /\ step[r] \in Lists
  BY <1>2 DEF Inv, RowsOK, CallOK
<1>4. Quiet(r) /\ written' = written /\ Live' = Live
  BY <1>2, <1>3 DEF Quiet, history, tables, written, Live
<1>5. RowsOK' /\ WholeBrand' /\ NamesChecked' /\ PublishedAllowed'
  BY <1>1, <1>4, QuietTables
<1>6. \A q \in Requests : Target(q)' = Target(q) /\ Writing(q)' = Writing(q)
  BY <1>1, <1>2 DEF Target, Writing, Aside
<1>7. LocksOK'
  <2>1. ASSUME NEW b \in Brands, lock'[b] # None
        PROVE  (Target(lock[b]) = b /\ b \in Live /\ call[lock[b]].op = "update" /\ Writing(lock[b]))'
    <3> PICK q \in Requests : lock[b] = q
      BY <2>1, <1>2 DEF TypeOK, tables
    <3>1. Target(q) = b /\ b \in Live /\ call[q].op = "update" /\ Writing(q)
      BY <2>1, <1>2 DEF Inv, LocksOK, tables
    <3> QED BY <3>1, <1>2, <1>4, <1>6 DEF tables
  <2>2. ASSUME NEW q \in Requests, Writing(q)', call'[q].op = "update"
        PROVE  /\ lock'[Target(q)'] = q
               /\ \A i \in Lists : i < step'[q] => dead'[q][i] = lists'[Target(q)'][i]
    <3>1. lock[Target(q)] = q /\ \A i \in Lists : i < step[q] => dead[q][i] = lists[Target(q)][i]
      BY <2>2, <1>2, <1>6 DEF Inv, LocksOK
    <3>2. CASE q = r
      <4>1. ASSUME NEW i \in Lists, i < step'[r] PROVE dead'[r][i] = lists[Target(r)][i]
        <5>1. CASE i = step[r]
          BY <5>1, <1>2 DEF TypeOK
        <5>2. CASE i # step[r]
          <6>1. i < step[r] /\ dead'[r][i] = dead[r][i]
            BY <5>2, <4>1, <1>2, <1>3 DEF TypeOK, Lists
          <6> QED BY <6>1, <3>1, <3>2
        <5> QED BY <5>1, <5>2
      <4> QED BY <4>1, <3>1, <3>2, <1>2, <1>6 DEF tables
    <3>3. CASE q # r
      <4>1. step'[q] = step[q] /\ dead'[q] = dead[q]
        BY <3>3, <1>1 DEF Aside
      <4> QED BY <4>1, <3>1, <1>2, <1>6 DEF tables
    <3> QED BY <3>2, <3>3
  <2> QED BY <2>1, <2>2 DEF LocksOK
<1>8. PartsOK(r)' /\ Forward(r)'
  BY <1>2, NothingRead
<1>9. CallOK(r)'
  BY <1>2, <1>3, <1>4 DEF CallOK, Target, Other, history, Lists
<1> QED BY <1>1, <1>5, <1>7, <1>8, <1>9, Together
(* What is known when a transaction commits: its row replaces what it        *)
(* deleted, or was not there; other brands and locks stay.                 *)
LEMMA CommitFacts ==
  ASSUME TypeOK, Inv, NEW r \in Requests, Commit(r)
  PROVE  /\ CallOK(r) /\ r \notin written /\ Target(r) \in Brands /\ pc'[r] = "row"
         /\ rows' = [rows EXCEPT ![Target(r)] = r]
         /\ lists' = [lists EXCEPT ![Target(r)] = [i \in Lists |-> ListRows(r, i)]]
         /\ superseded' = superseded \cup ({rows[Target(r)]} \ {None})
         /\ lock' = [lock EXCEPT ![Target(r)] = None]
         /\ lock[Target(r)] \in {r, None}
         /\ IF call[r].op = "create" THEN rows[Target(r)] = None /\ Target(r) = r
                                     ELSE rows[Target(r)] # None
         /\ Live' = Live \cup {Target(r)} /\ written' = written \cup {r}
         /\ UNCHANGED <<profile, data, call, step, got, seen, lapsed>>
<1>1. /\ CallOK(r) /\ pc[r] = "commit" /\ pc'[r] = "row" /\ call[r].op \in {"create", "update"}
      /\ r \notin written
  <2>1. CallOK(r) /\ RowsOK
    BY DEF Inv
  <2>2. pc[r] = "commit" /\ pc' = [pc EXCEPT ![r] = "row"]
    BY DEF Commit, Goto
  <2>3. pc'[r] = "row"
    <3>1. DOMAIN pc = Requests
      BY DEF TypeOK
    <3> QED BY <2>2, <3>1
  <2>4. call[r].op \in {"create", "update"}
    BY <2>1, <2>2 DEF CallOK
  <2>5. r \notin written
    <3>1. r \in written => pc[r] \in {"row", "lists", "done"}
      BY <2>1 DEF RowsOK
    <3> QED BY <2>2, <3>1
  <2> QED BY <2>1, <2>2, <2>3, <2>4, <2>5
<1>2. Target(r) \in Brands
  BY <1>1, TargetType
<1>3. ASSUME call[r].op = "create"
      PROVE  /\ Target(r) = r /\ rows[Target(r)] = None /\ lock[Target(r)] = None
             /\ \A i \in Lists : lists[Target(r)][i] = {}
  <2>1. Target(r) = r
    BY <1>1, <1>3 DEF CallOK
  <2>2. rows[r] = None
    BY <1>1, <1>2, <2>1 DEF Inv, RowsOK, Live
  <2>3. lock[r] = None
    BY <1>2, <2>1, <2>2 DEF Inv, LocksOK, Live
  <2>4. \A i \in Lists : lists[r][i] = {}
    BY <1>2, <2>1, <2>2 DEF Inv, WholeBrand
  <2> QED BY <2>1, <2>2, <2>3, <2>4
<1>4. ASSUME call[r].op = "update"
      PROVE  /\ lock[Target(r)] = r /\ rows[Target(r)] # None
             /\ \A i \in Lists : dead[r][i] = lists[Target(r)][i]
  <2>1. step[r] = ListCount + 1
    BY <1>1, <1>4 DEF CallOK
  <2>2. lock[Target(r)] = r /\ \A i \in Lists : dead[r][i] = lists[Target(r)][i]
    BY <1>1, <1>4, <2>1 DEF Inv, LocksOK, Writing, Lists
  <2>3. rows[Target(r)] # None
    BY <1>2, <2>2 DEF Inv, LocksOK, Live, Brands
  <2> QED BY <2>2, <2>3
<1>5. Rewritten(r) = [i \in Lists |-> ListRows(r, i)]
  <2>1. \A i \in Lists : lists[Target(r)][i] \ dead[r][i] = {}
    BY <1>1, <1>3, <1>4
  <2> QED BY <2>1 DEF Rewritten
<1>6. /\ rows' = [rows EXCEPT ![Target(r)] = r]
      /\ superseded' = superseded \cup ({rows[Target(r)]} \ {None})
  BY DEF Commit
<1>7. Live' = Live \cup {Target(r)}
  BY <1>2, <1>6 DEF Live, TypeOK, Brands
<1>8. written' = written \cup {r}
  <2>1. \A b \in Brands : rows'[b] = IF b = Target(r) THEN r ELSE rows[b]
    BY <1>6 DEF TypeOK
  <2>2. ASSUME NEW w \in written PROVE w \in written'
    <3>1. CASE w \in superseded
      BY <3>1, <1>6 DEF written
    <3>2. ASSUME NEW b \in Live, w = rows[b] PROVE w \in written'
      <4>1. CASE b = Target(r)
        BY <3>2, <4>1, <1>6 DEF written, Live
      <4>2. CASE b # Target(r)
        <5>1. b \in Live' /\ rows'[b] = w
          BY <3>2, <4>2, <1>7, <2>1 DEF Live
        <5> QED BY <5>1 DEF written
      <4> QED BY <4>1, <4>2
    <3> QED BY <3>1, <3>2 DEF written
  <2>3. r \in written'
    <3>1. Target(r) \in Live' /\ rows'[Target(r)] = r
      BY <1>2, <1>7, <2>1
    <3> QED BY <3>1 DEF written
  <2>4. ASSUME NEW w \in written' PROVE w \in written \cup {r}
    <3>1. CASE w \in superseded'
      BY <3>1, <1>2, <1>6 DEF written, Live
    <3>2. ASSUME NEW b \in Live', w = rows'[b] PROVE w \in written \cup {r}
      BY <3>2, <1>2, <1>7, <2>1 DEF written, Live
    <3> QED BY <3>1, <3>2 DEF written
  <2> QED BY <2>2, <2>3, <2>4
<1> QED BY <1>1, <1>2, <1>3, <1>4, <1>5, <1>6, <1>7, <1>8 DEF Commit

(* A commit keeps the invariant. *)
LEMMA CommitKeeps ==
  ASSUME TypeOK, TypeOK', Inv, NEW r \in Requests, Commit(r)
  PROVE  Inv'
<1>1. Aside(r) /\ Grows
  BY StepAside, StepGrows DEF Proceed
<1> DEFINE t == Target(r)
<1>2. /\ CallOK(r) /\ r \notin written /\ t \in Brands /\ pc[r] = "commit" /\ pc'[r] = "row"
      /\ rows' = [rows EXCEPT ![t] = r]
      /\ lists' = [lists EXCEPT ![t] = [i \in Lists |-> ListRows(r, i)]]
      /\ superseded' = superseded \cup ({rows[t]} \ {None})
      /\ lock' = [lock EXCEPT ![t] = None]
      /\ lock[t] \in {r, None}
      /\ IF call[r].op = "create" THEN rows[t] = None /\ t = r ELSE rows[t] # None
      /\ Live' = Live \cup {t} /\ written' = written \cup {r}
      /\ UNCHANGED <<profile, data, call, step, got, seen, lapsed>>
  BY CommitFacts DEF Commit
<1>3. \A q \in Requests : Target(q)' = Target(q)
  BY <1>2 DEF Target
<1>4. \A b \in Brands : rows'[b] = IF b = t THEN r ELSE rows[b]
  BY <1>2 DEF TypeOK
<1>5. \A b \in Live : b \in Brands /\ rows[b] \in written /\ rows[b] # r
  BY <1>2 DEF written, Live
<1>6. r \in Brands /\ r # None
  BY DEF Brands
<1>7. RowsOK'
  <2>1. ASSUME NEW b \in Live', NEW w \in Brands, rows'[b] = w
        PROVE  /\ b \in written' /\ w \notin superseded'
               /\ IF w \in Requests THEN Target(w) = b ELSE w = b
    <3>1. CASE b = t
      <4>1. t \in written'
        BY <1>2 DEF Inv, RowsOK, Live
      <4>2. r \notin superseded'
        BY <1>2 DEF written, Live
      <4>3. w = r
        BY <2>1, <3>1, <1>2, <1>4
      <4> QED BY <3>1, <4>1, <4>2, <4>3
    <3>2. CASE b # t
      <4>1. b \in Live /\ rows[b] = w
        BY <2>1, <3>2, <1>2, <1>4, <1>5
      <4>2. b \in written /\ w \notin superseded /\ IF w \in Requests THEN Target(w) = b ELSE w = b
        BY <4>1 DEF Inv, RowsOK
      <4>3. t \in Live => IF rows[t] \in Requests THEN Target(rows[t]) = t ELSE rows[t] = t
        BY DEF Inv, RowsOK
      <4>4. rows[t] # None => t \in Live
        BY <1>2 DEF Live
      <4>5. w \notin {rows[t]} \ {None}
        BY <3>2, <4>2, <4>3, <4>4
      <4> QED BY <4>2, <4>5, <1>2
    <3> QED BY <3>1, <3>2
  <2>2. \A q \in Requests : q \in written' =>
          pc'[q] \in {"row", "lists", "done"} /\ call'[q].op \in {"create", "update"}
    BY <1>1, <1>2 DEF Inv, RowsOK, Aside, CallOK
  <2>3. ASSUME NEW b \in Live'
        PROVE  b \in written' /\ (rows[b] \notin superseded)'
               /\ (IF rows[b] \in Requests THEN Target(rows[b]) = b ELSE rows[b] = b)'
    <3>1. PICK w \in Brands : rows'[b] = w
      BY <1>4, <1>5, <1>2, <1>6 DEF Live, TypeOK
    <3>2. w \in Requests => Target(w)' = Target(w)
      BY <1>3
    <3> QED BY <2>1, <3>1, <3>2
  <2>4. \A w \in written' : data'[w] \in Drafts
    BY <1>2 DEF Inv, RowsOK, CallOK
  <2> QED BY <2>2, <2>3, <2>4 DEF RowsOK
<1>8. LocksOK'
  <2>1. \A q \in Requests \ {r} : /\ Writing(q)' = Writing(q) /\ dead'[q] = dead[q]
    BY <1>1 DEF Aside, Writing
  <2>2. ~Writing(r)'
    BY <1>2 DEF Writing
  <2>3. ASSUME NEW b \in Brands, lock'[b] # None
        PROVE  (Target(lock[b]) = b /\ b \in Live /\ call[lock[b]].op = "update" /\ Writing(lock[b]))'
    <3>1. b # t /\ lock'[b] = lock[b] /\ lock[b] \in Requests
      BY <1>2, <2>3 DEF TypeOK
    <3> PICK q \in Requests : lock[b] = q
      BY <3>1
    <3>2. Target(q) = b /\ b \in Live /\ call[q].op = "update" /\ Writing(q)
      BY <2>3, <3>1 DEF Inv, LocksOK
    <3>3. q # r
      BY <3>1, <3>2
    <3> QED BY <3>1, <3>2, <3>3, <2>1, <1>2, <1>3
  <2>4. ASSUME NEW q \in Requests, Writing(q)', call'[q].op = "update"
        PROVE  /\ lock'[Target(q)'] = q
               /\ \A i \in Lists : i < step'[q] => dead'[q][i] = lists'[Target(q)'][i]
    <3>1. q # r
      BY <2>2, <2>4
    <3>2. lock[Target(q)] = q /\ \A i \in Lists : i < step[q] => dead[q][i] = lists[Target(q)][i]
      BY <2>1, <2>4, <3>1, <1>2 DEF Inv, LocksOK
    <3>3. Target(q) # t
      BY <3>1, <3>2, <1>2 DEF Brands
    <3>4. Target(q) \in Brands
      BY <2>4, <1>2, TargetType DEF Inv
    <3> QED BY <3>1, <3>2, <3>3, <3>4, <2>1, <1>2, <1>3 DEF TypeOK
  <2> QED BY <2>3, <2>4 DEF LocksOK
<1>9. WholeBrand'
  <2> SUFFICES ASSUME NEW b \in Brands, NEW i \in Lists
               PROVE  (lists[b][i] = IF rows[b] = None THEN {} ELSE ListRows(rows[b], i))'
    BY DEF WholeBrand
  <2>1. CASE b = t
    <3>1. ListRows(r, i)' = ListRows(r, i)
      BY <1>2 DEF ListRows
    <3>2. lists'[t] = [k \in Lists |-> ListRows(r, k)]
      BY <1>2 DEF TypeOK
    <3>3. rows'[b] = r
      BY <2>1, <1>2, <1>4
    <3> QED BY <2>1, <3>1, <3>2, <3>3, <1>6
  <2>2. CASE b # t
    <3>1. PICK w \in Brands \cup {None} : rows[b] = w
      BY DEF TypeOK
    <3>2. lists'[b] = lists[b] /\ rows'[b] = w
      BY <2>2, <3>1, <1>2 DEF TypeOK
    <3>3. ListRows(w, i)' = ListRows(w, i)
      BY <1>2 DEF ListRows
    <3> QED BY <3>1, <3>2, <3>3 DEF Inv, WholeBrand
  <2> QED BY <2>1, <2>2
<1>10. NamesChecked'
  <2> SUFFICES ASSUME NEW a \in Live', NEW b \in Live', a # b, rows'[b] \in Requests,
                      data[rows'[a]].name = data[rows'[b]].name
               PROVE  rows'[a] \notin seen[rows'[b]]
    BY <1>2 DEF NamesChecked
  <2>1. CASE a = t
    BY <2>1, <1>2, <1>4, <1>5 DEF Inv, CallOK
  <2>2. CASE b = t
    BY <2>2, <1>2, <1>4, <1>5 DEF CallOK
  <2>3. CASE a # t /\ b # t
    BY <2>3, <1>2, <1>4, <1>5 DEF Inv, NamesChecked
  <2> QED BY <2>1, <2>2, <2>3
<1>11. PublishedAllowed'
  BY <1>2, <1>4, <1>5 DEF Inv, PublishedAllowed, CallOK
<1>12. PartsOK(r)' /\ Forward(r)'
  BY <1>2, NothingRead
<1>13. CallOK(r)'
  BY <1>2, <1>3 DEF CallOK, Other
<1> QED BY <1>1, <1>7, <1>8, <1>9, <1>10, <1>11, <1>12, <1>13, Together
(* A DELETE waits for the lock: nobody is rewriting the brand. *)
LEMMA DeleteKeeps ==
  ASSUME TypeOK, TypeOK', Inv, NEW r \in Requests, DeleteBrand(r)
  PROVE  Inv'
<1>1. Aside(r) /\ Grows
  BY StepAside, StepGrows DEF Proceed
<1> DEFINE t == Target(r)
<1>2. /\ CallOK(r) /\ pc[r] = "delete" /\ pc'[r] = "done" /\ call[r].op = "delete" /\ lock[t] = None
      /\ UNCHANGED <<lock, profile, data, call, step, dead, got, seen, lapsed>>
  BY DEF Inv, DeleteBrand, CallOK, Goto, TypeOK
<1>3. t \in Brands /\ r \notin written
  BY <1>2, TargetType DEF Inv, RowsOK
<1>4. \A q \in Requests : Target(q)' = Target(q)
  BY <1>2 DEF Target
<1>5. PartsOK(r)' /\ Forward(r)'
  BY <1>2, NothingRead
<1>6. seen[r] \subseteq written'
  BY <1>1, <1>2 DEF CallOK, Grows
<1>7. CallOK(r)'
  BY <1>2, <1>4, <1>6 DEF CallOK, Other
<1>8. CASE ~Owned(r)
  <2>1. Quiet(r)
    BY <1>3, <1>8 DEF DeleteBrand, Quiet
  <2>2. RowsOK' /\ WholeBrand' /\ NamesChecked' /\ PublishedAllowed'
    BY <1>1, <2>1, QuietTables
  <2>3. LocksOK'
    BY <1>1, <1>2, <2>1, QuietLocks DEF Writing
  <2> QED BY <1>1, <1>5, <1>7, <2>2, <2>3, Together
<1>9. CASE Owned(r)
  <2>1. /\ rows' = [rows EXCEPT ![t] = None] /\ lists' = [lists EXCEPT ![t] = NoLists]
        /\ superseded' = superseded \cup {rows[t]} /\ t \in Live
    BY <1>3, <1>9 DEF DeleteBrand, Owned, Live
  <2>2. \A b \in Brands : rows'[b] = IF b = t THEN None ELSE rows[b]
    BY <2>1 DEF TypeOK
  <2>3. Live' = Live \ {t}
    BY <2>2 DEF Live
  <2>4. \A b \in Live' : b \in Live /\ b # t /\ b \in Brands /\ rows'[b] = rows[b] /\ rows[b] \in Brands
    BY <2>2, <2>3 DEF Live, TypeOK
  <2>5. written' = written
    <3>1. rows[t] \in written
      BY <2>1 DEF written
    <3>2. written' \subseteq written
      BY <2>1, <2>4, <3>1 DEF written
    <3> QED BY <3>2, <1>1 DEF Grows
  <2>6. RowsOK'
    <3>1. ASSUME NEW b \in Live', NEW w \in Brands, rows[b] = w
          PROVE  /\ b \in written /\ w \notin superseded'
                 /\ IF w \in Requests THEN Target(w) = b ELSE w = b
      <4>1. b \in written /\ w \notin superseded /\ IF w \in Requests THEN Target(w) = b ELSE w = b
        BY <2>4, <3>1 DEF Inv, RowsOK
      <4>2. IF rows[t] \in Requests THEN Target(rows[t]) = t ELSE rows[t] = t
        BY <2>1 DEF Inv, RowsOK
      <4>3. w # rows[t]
        BY <2>4, <4>1, <4>2
      <4> QED BY <4>1, <4>3, <2>1
    <3>2. ASSUME NEW b \in Live'
          PROVE  b \in written' /\ (rows[b] \notin superseded)'
                 /\ (IF rows[b] \in Requests THEN Target(rows[b]) = b ELSE rows[b] = b)'
      <4>1. PICK w \in Brands : rows[b] = w /\ rows'[b] = w
        BY <2>4
      <4>2. w \in Requests => Target(w)' = Target(w)
        BY <1>4
      <4> QED BY <3>1, <4>1, <4>2, <2>5
    <3>3. \A q \in Requests : q \in written' =>
            pc'[q] \in {"row", "lists", "done"} /\ call'[q].op \in {"create", "update"}
      BY <1>1, <1>2, <1>3, <2>5 DEF Inv, RowsOK, Aside
    <3>4. \A w \in written' : data'[w] \in Drafts
      BY <1>2, <2>5 DEF Inv, RowsOK
    <3> QED BY <3>2, <3>3, <3>4 DEF RowsOK
  <2>7. LocksOK'
    <3>1. \A q \in Requests \ {r} : Writing(q)' = Writing(q)
      BY <1>1 DEF Aside, Writing
    <3>2. ~Writing(r) /\ ~Writing(r)'
      BY <1>2 DEF Writing
    <3>3. ASSUME NEW b \in Brands, lock'[b] # None
          PROVE  (Target(lock[b]) = b /\ b \in Live /\ call[lock[b]].op = "update" /\ Writing(lock[b]))'
      <4> PICK q \in Requests : lock[b] = q
        BY <3>3, <1>2 DEF TypeOK
      <4>1. Target(q) = b /\ b \in Live /\ call[q].op = "update" /\ Writing(q)
        BY <3>3, <1>2 DEF Inv, LocksOK
      <4>2. b # t /\ q # r
        BY <4>1, <3>2, <3>3, <1>2
      <4> QED BY <4>1, <4>2, <3>1, <2>3, <1>2, <1>4
    <3>4. ASSUME NEW q \in Requests, Writing(q)', call'[q].op = "update"
          PROVE  /\ lock'[Target(q)'] = q
                 /\ \A i \in Lists : i < step'[q] => dead'[q][i] = lists'[Target(q)'][i]
      <4>1. q # r
        BY <3>2, <3>4
      <4>2. lock[Target(q)] = q /\ \A i \in Lists : i < step[q] => dead[q][i] = lists[Target(q)][i]
        BY <3>1, <3>4, <4>1, <1>2 DEF Inv, LocksOK
      <4>3. Target(q) # t
        BY <4>2, <1>2 DEF Brands
      <4>4. Target(q) \in Brands
        BY <3>4, <1>2, TargetType DEF Inv
      <4> QED BY <4>2, <4>3, <4>4, <2>1, <1>2, <1>4 DEF TypeOK
    <3> QED BY <3>3, <3>4 DEF LocksOK
  <2>8. WholeBrand'
    <3> SUFFICES ASSUME NEW b \in Brands, NEW i \in Lists
                 PROVE  (lists[b][i] = IF rows[b] = None THEN {} ELSE ListRows(rows[b], i))'
      BY DEF WholeBrand
    <3>1. CASE b = t
      BY <3>1, <2>1, <2>2 DEF NoLists, TypeOK
    <3>2. CASE b # t
      <4>1. PICK w \in Brands \cup {None} : rows[b] = w
        BY DEF TypeOK
      <4>2. lists'[b] = lists[b] /\ rows'[b] = w
        BY <3>2, <4>1, <2>1, <2>2 DEF TypeOK
      <4>3. ListRows(w, i)' = ListRows(w, i)
        BY <1>2 DEF ListRows
      <4> QED BY <4>1, <4>2, <4>3 DEF Inv, WholeBrand
    <3> QED BY <3>1, <3>2
  <2>9. NamesChecked'
    BY <1>2, <2>4 DEF Inv, NamesChecked
  <2>10. PublishedAllowed'
    BY <1>2, <2>4 DEF Inv, PublishedAllowed
  <2> QED BY <1>1, <1>5, <1>7, <2>6, <2>7, <2>8, <2>9, <2>10, Together
<1> QED BY <1>8, <1>9

(* GetUserBrand's first SELECT: the request's own row or a later one. *)
LEMMA ReadRowKeeps ==
  ASSUME TypeOK, TypeOK', Inv, NEW r \in Requests, ReadRow(r)
  PROVE  Inv'
<1>1. Aside(r) /\ Grows
  BY StepAside, StepGrows DEF Proceed
<1> DEFINE t == Target(r)
<1>2. /\ CallOK(r) /\ pc[r] = "row" /\ step'[r] = 1 /\ got[r][0] = {}
      /\ UNCHANGED <<tables, profile, data, call, dead, history>>
      /\ IF Owned(r) THEN pc'[r] = "lists" /\ got'[r] = [got[r] EXCEPT ![0] = {rows[t]}]
                     ELSE pc'[r] = "done" /\ got'[r] = got[r]
  BY DEF Inv, PartsOK, ReadRow, Goto, TypeOK
<1>3. Quiet(r) /\ written' = written /\ Live' = Live
  BY <1>2 DEF Quiet, tables, history, written, Live
<1>4. RowsOK' /\ WholeBrand' /\ NamesChecked' /\ PublishedAllowed'
  BY <1>1, <1>3, QuietTables
<1>5. LocksOK'
  BY <1>1, <1>2, <1>3, QuietLocks DEF Writing, tables
<1>6. Target(r)' = Target(r)
  BY <1>2 DEF Target
<1>7. CallOK(r)'
  BY <1>2, <1>3, <1>6 DEF CallOK, Other, Lists, history
<1>8. PartsOK(r)' /\ Forward(r)'
  <2>1. CASE ~Owned(r)
    BY <2>1, <1>2, NothingRead
  <2>2. CASE Owned(r)
    <3>1. got'[r][0] = {rows[t]} /\ pc'[r] = "lists"
      BY <2>2, <1>2 DEF TypeOK
    <3>2. Parts(r)' = {0}
      BY <3>1, <1>2 DEF Parts
    <3>3. PartsOK(r)'
      BY <1>2, <1>6, <3>1, <3>2 DEF PartsOK, tables
    <3>4. call[r].op \in {"create", "update"} => rows[t] = r \/ r \in superseded
      <4> SUFFICES ASSUME call[r].op \in {"create", "update"}, r \notin superseded PROVE rows[t] = r
        OBVIOUS
      <4>1. r \in written
        BY <1>2 DEF CallOK
      <4>2. PICK b \in Live : rows[b] = r
        BY <4>1 DEF written
      <4>3. Target(r) = b
        BY <4>2 DEF Inv, RowsOK
      <4> QED BY <4>2, <4>3
    <3>5. Forward(r)'
      BY <1>2, <3>1, <3>2, <3>4 DEF Forward, history
    <3> QED BY <3>3, <3>5
  <2> QED BY <2>1, <2>2
<1> QED BY <1>1, <1>4, <1>5, <1>7, <1>8, Together

(* GetUserBrand's next SELECT reads the lists of the row that is there now. *)
LEMMA ReadListKeeps ==
  ASSUME TypeOK, TypeOK', Inv, NEW r \in Requests, ReadList(r)
  PROVE  Inv'
<1>1. Aside(r) /\ Grows
  BY StepAside, StepGrows DEF Proceed
<1> DEFINE t == Target(r)
           k == step[r]
<1>2. /\ CallOK(r) /\ PartsOK(r) /\ Forward(r) /\ pc[r] = "lists" /\ k \in Lists /\ step'[r] = k + 1
      /\ UNCHANGED <<tables, profile, data, call, dead, history>>
      /\ pc'[r] = (IF k = ListCount THEN "done" ELSE "lists")
      /\ got'[r] = [got[r] EXCEPT ![k] = lists[t][k]]
  BY DEF Inv, AnswerForward, ReadList, CallOK, Goto, TypeOK
<1>3. Quiet(r) /\ written' = written /\ Live' = Live
  BY <1>2 DEF Quiet, tables, history, written, Live
<1>4. RowsOK' /\ WholeBrand' /\ NamesChecked' /\ PublishedAllowed'
  BY <1>1, <1>3, QuietTables
<1>5. LocksOK'
  BY <1>1, <1>2, <1>3, QuietLocks DEF Writing, tables
<1>6. Target(r)' = Target(r) /\ \A w, i : ListRows(w, i)' = ListRows(w, i)
  BY <1>2 DEF Target, ListRows
<1>7. CallOK(r)'
  BY <1>2, <1>3, <1>6 DEF CallOK, Other, Lists, history
<1>8. /\ got'[r][k] = lists[t][k] /\ \A i \in 0..(k - 1) : got'[r][i] = got[r][i]
      /\ got'[r][0] = got[r][0]
  BY <1>2 DEF TypeOK, Lists
<1>9. Parts(r) \subseteq 0..(k - 1) /\ Parts(r)' \subseteq Parts(r) \cup {k}
  BY <1>2, <1>8 DEF Parts, Lists
<1>10. t \in Brands
  BY <1>2, TargetType DEF CallOK
<1>11. \A w \in lists[t][k] : rows[t] = w
  <2>1. lists[t][k] = IF rows[t] = None THEN {} ELSE ListRows(rows[t], k)
    BY <1>2, <1>10 DEF Inv, WholeBrand
  <2> QED BY <2>1 DEF ListRows
<1>12. PartsOK(r)'
  BY <1>2, <1>6, <1>8, <1>9, <1>11 DEF PartsOK, tables, history
<1>13. Forward(r)'
  <2>1. ASSUME NEW i \in Parts(r)', NEW j \in Parts(r)', i < j, NEW w \in got'[r][i]
        PROVE  w \in superseded \/ got'[r][j] = ListRows(w, j)
    <3>1. i \in Parts(r) /\ w \in got[r][i]
      BY <2>1, <1>2, <1>8, <1>9 DEF Lists
    <3>2. CASE j = k
      <4>1. w \in superseded \/ (rows[t] = w /\ w # None)
        BY <3>1, PartsWritten DEF Brands
      <4> QED BY <3>2, <4>1, <1>2, <1>8, <1>10 DEF Inv, WholeBrand
    <3>3. CASE j # k
      BY <2>1, <3>1, <3>3, <1>2, <1>8, <1>9 DEF Forward
    <3> QED BY <3>2, <3>3
  <2>2. call[r].op \in {"create", "update"} => \A w \in got'[r][0] : w = r \/ r \in superseded
    BY <1>2, <1>8 DEF Forward
  <2> QED BY <2>1, <2>2, <1>2, <1>6 DEF Forward, history
<1> QED BY <1>1, <1>4, <1>5, <1>7, <1>12, <1>13, Together
(* A request ends early: its lock is free again, nothing else has changed. *)
LEMMA FailKeeps ==
  ASSUME TypeOK, TypeOK', Inv, NEW r \in Requests, Fail(r)
  PROVE  Inv'
<1>1. Aside(r) /\ Grows
  BY StepAside, StepGrows
<1>2. /\ CallOK(r) /\ PartsOK(r) /\ Forward(r) /\ pc[r] \notin {"idle", "done"} /\ pc'[r] = "done"
      /\ lock' = [b \in Brands |-> IF lock[b] = r THEN None ELSE lock[b]]
      /\ UNCHANGED <<rows, lists, profile, data, call, step, got, history>>
  BY DEF Inv, AnswerForward, Fail, Goto, TypeOK
<1>3. Quiet(r) /\ written' = written /\ Live' = Live
  BY <1>2 DEF Quiet, history, written, Live
<1>4. RowsOK' /\ WholeBrand' /\ NamesChecked' /\ PublishedAllowed'
  BY <1>1, <1>3, QuietTables
<1>5. \A q \in Requests : Target(q)' = Target(q)
  BY <1>2 DEF Target
<1>6. LocksOK'
  <2>1. \A q \in Requests \ {r} : Writing(q)' = Writing(q) /\ dead'[q] = dead[q]
    BY <1>1 DEF Aside, Writing
  <2>2. ASSUME NEW b \in Brands, lock'[b] # None
        PROVE  (Target(lock[b]) = b /\ b \in Live /\ call[lock[b]].op = "update" /\ Writing(lock[b]))'
    <3> PICK q \in Requests \ {r} : lock[b] = q /\ lock'[b] = q
      BY <2>2, <1>2 DEF TypeOK
    <3>1. Target(q) = b /\ b \in Live /\ call[q].op = "update" /\ Writing(q)
      BY DEF Inv, LocksOK, Brands
    <3> QED BY <3>1, <2>1, <1>2, <1>3, <1>5
  <2>3. ASSUME NEW q \in Requests, Writing(q)', call'[q].op = "update"
        PROVE  /\ lock'[Target(q)'] = q
               /\ \A i \in Lists : i < step'[q] => dead'[q][i] = lists'[Target(q)'][i]
    <3>1. q # r
      BY <2>3, <1>2 DEF Writing
    <3>2. lock[Target(q)] = q /\ \A i \in Lists : i < step[q] => dead[q][i] = lists[Target(q)][i]
      BY <2>1, <2>3, <3>1, <1>2 DEF Inv, LocksOK
    <3>3. Target(q) \in Brands
      BY <2>3, <1>2, TargetType DEF Inv
    <3> QED BY <3>1, <3>2, <3>3, <2>1, <1>2, <1>5
  <2> QED BY <2>2, <2>3 DEF LocksOK
<1>7. CallOK(r)'
  BY <1>2, <1>3, <1>5 DEF CallOK, Other, history
<1>8. Parts(r)' = Parts(r)
  BY <1>2 DEF Parts
<1>9. PartsOK(r)'
  BY <1>2, <1>5, <1>8 DEF PartsOK, history
<1>10. Forward(r)'
  BY <1>2, <1>8 DEF Forward, ListRows, history
<1> QED BY <1>1, <1>4, <1>6, <1>7, <1>9, <1>10, Together

(* A profile changes: the publishing writers of its owner have lapsed, or it *)
(* is verified.                                                            *)
LEMMA ProfileKeeps ==
  ASSUME TypeOK, Inv, NEW u \in Users, UpdateBusinessProfile(u) \/ AdminUpdateBusinessProfile(u)
  PROVE  Inv'
<1>1. UNCHANGED <<tables, data, pc, call, step, dead, got, seen, superseded>>
  BY DEF UpdateBusinessProfile, AdminUpdateBusinessProfile, Unverify, history
<1>2. ASSUME NEW w \in Brands, data[w] \in Drafts, data[w].published,
             profile[data[w].owner] = "verified" \/ w \in lapsed
      PROVE  profile'[data[w].owner] = "verified" \/ w \in lapsed'
  <2>1. data[w].owner \in Users
    BY <1>2 DEF Data
  <2> QED BY <1>2, <2>1 DEF TypeOK, UpdateBusinessProfile, AdminUpdateBusinessProfile, Unverify, history
<1>3. /\ Live' = Live /\ written' = written
      /\ \A q : Target(q)' = Target(q) /\ Writing(q)' = Writing(q) /\ Parts(q)' = Parts(q)
      /\ \A w, i : ListRows(w, i)' = ListRows(w, i)
  BY <1>1 DEF Live, written, Target, Writing, Parts, ListRows, tables
<1>4. RowsOK' /\ LocksOK'
  BY <1>1, <1>3 DEF Inv, RowsOK, LocksOK, tables, Live, written, Target, Writing
<1>5. WholeBrand' /\ NamesChecked'
  BY <1>1, <1>3 DEF Inv, WholeBrand, NamesChecked, tables, ListRows
<1>7. PublishedAllowed'
  <2>1. \A b \in Live : rows[b] \in Brands /\ data[rows[b]] \in Drafts
    BY DEF Inv, RowsOK, Live, written, TypeOK
  <2> QED BY <1>1, <1>2, <1>3, <2>1 DEF Inv, PublishedAllowed, tables
<1>6. ASSUME NEW q \in Requests PROVE CallOK(q)' /\ PartsOK(q)' /\ Forward(q)'
  <2>1. CallOK(q)'
    BY <1>1, <1>2, <1>3 DEF Inv, CallOK, Other, Brands
  <2>2. PartsOK(q)' /\ Forward(q)'
    BY <1>1, <1>3 DEF Inv, AnswerForward, PartsOK, Forward, tables
  <2> QED BY <2>1, <2>2
<1> QED BY <1>4, <1>5, <1>6, <1>7 DEF Inv, AnswerForward

(* The invariant is inductive. *)
LEMMA InvStep == TypeOK /\ Inv /\ [Next]_vars => Inv'
<1> SUFFICES ASSUME TypeOK, Inv, [Next]_vars PROVE Inv'
  OBVIOUS
<1>1. TypeOK'
  BY TypeStep
<1>2. CASE UNCHANGED vars
  <2>1. RowsOK' /\ LocksOK'
    BY <1>2 DEF Inv, vars, tables, history, RowsOK, LocksOK, Live, written, Target, Writing
  <2>2. WholeBrand' /\ NamesChecked' /\ PublishedAllowed'
    BY <1>2 DEF Inv, vars, tables, history, WholeBrand, NamesChecked, PublishedAllowed, ListRows, Live
  <2>4. AnswerForward'
    BY <1>2 DEF Inv, vars, history, AnswerForward, Forward, Parts, ListRows
  <2>3. \A r \in Requests : CallOK(r)' /\ PartsOK(r)'
    BY <1>2 DEF Inv, vars, tables, history, CallOK, PartsOK, Parts, Target, Other, written, Live
  <2> QED BY <2>1, <2>2, <2>3, <2>4 DEF Inv
<1>3. ASSUME NEW r \in Requests, Arrive(r) \/ Proceed(r) \/ Fail(r) PROVE Inv'
  BY <1>1, <1>3, ArriveKeeps, CheckKeeps, UpdateRowKeeps, ClearListKeeps, CommitKeeps, DeleteKeeps,
     ReadRowKeeps, ReadListKeeps, FailKeeps DEF Proceed
<1>4. ASSUME NEW u \in Users, UpdateBusinessProfile(u) \/ AdminUpdateBusinessProfile(u) PROVE Inv'
  BY <1>4, ProfileKeeps
<1> QED BY <1>2, <1>3, <1>4 DEF Next

(* The types and the inductive invariant hold in every reachable state. *)
THEOREM Invariance == Spec => [](TypeOK /\ Inv)
<1>1. Init => TypeOK /\ Inv
  BY TypeInit, InvInit
<1>2. TypeOK /\ Inv /\ [Next]_vars => TypeOK' /\ Inv'
  BY TypeStep, InvStep
<1> QED BY <1>1, <1>2, PTL DEF Spec

(* The statements store the data of requests in the right rows and lists. *)
THEOREM Types == Spec => []TypeOK
<1> QED BY Invariance, PTL

(* UpdateBrand, DeleteBrand and failures never mix the rows of two requests. *)
THEOREM AlwaysWhole == Spec => []WholeBrand
<1>1. Inv => WholeBrand
  BY DEF Inv
<1> QED BY <1>1, Invariance, PTL

(* An answer of GetUserBrand goes only forward, and one of CreateBrand or    *)
(* UpdateBrand starts no earlier than its own commit.                      *)
THEOREM AnswersForward == Spec => []AnswerForward
<1>1. Inv => AnswerForward
  BY DEF Inv
<1> QED BY <1>1, Invariance, PTL

(* Two brands with one name come only from checks that overlapped. *)
THEOREM NamesOverlap == Spec => []NamesChecked
<1>1. Inv => NamesChecked
  BY DEF Inv
<1> QED BY <1>1, Invariance, PTL

(* A brand is published by someone whose profile was verified when asked. *)
THEOREM PublishingChecked == Spec => []PublishedAllowed
<1>1. Inv => PublishedAllowed
  BY DEF Inv
<1> QED BY <1>1, Invariance, PTL
-------------------------------------------------------------------------------
(* The store of whole brands that the five tables stand for. *)
StoreOK ==
  \A b \in Brands :
    /\ store[b] = IF rows[b] = None THEN None ELSE Store!Whole(rows[b], data[rows[b]].full)
    /\ rows[b] # None => store[b] # None

(* Since the tables hold whole brands, they are the store. *)
LEMMA StoreIs == TypeOK /\ Inv => StoreOK
<1> SUFFICES ASSUME TypeOK, Inv, NEW b \in Brands
             PROVE  /\ store[b] = IF rows[b] = None THEN None ELSE Store!Whole(rows[b], data[rows[b]].full)
                    /\ rows[b] # None => store[b] # None
  BY DEF StoreOK
<1>1. \A i \in Lists : lists[b][i] = IF rows[b] = None THEN {} ELSE ListRows(rows[b], i)
  BY DEF Inv, WholeBrand
<1>2. lists[b] \in [Lists -> SUBSET Brands]
  BY DEF TypeOK
<1>3. CASE rows[b] = None
  <2>1. lists[b] = NoLists
    BY <1>1, <1>2, <1>3 DEF NoLists
  <2> QED BY <1>3, <2>1 DEF store
<1>4. CASE rows[b] # None
  <2>1. lists[b] = [i \in Lists |-> IF i \in data[rows[b]].full THEN {rows[b]} ELSE {}]
    BY <1>1, <1>2, <1>4 DEF ListRows
  <2>2. store[b] = [row |-> rows[b], lists |-> lists[b]]
    BY <1>4 DEF store
  <2>3. rows[b] \in Brands
    BY <1>4 DEF TypeOK
  <2>4. store[b] \in [row: Brands, lists: [Lists -> SUBSET Brands]]
    BY <1>2, <2>2, <2>3
  <2> QED BY <1>4, <2>1, <2>2, <2>4 DEF Store!Whole
<1> QED BY <1>3, <1>4

(* The older brands are the store at the start. *)
LEMMA StoreInit == Init => Store!Init
<1> SUFFICES ASSUME Init PROVE Store!Init
  OBVIOUS
<1>1. TypeOK /\ Inv
  BY TypeInit, InvInit
<1> DEFINE full == [w \in written |-> data[w].full]
<1>2. written = OldBrands /\ \A b \in Brands : rows[b] = IF b \in written THEN b ELSE None
  <2>1. \A b \in Brands : rows[b] = IF b \in OldBrands THEN b ELSE None
    BY DEF Init
  <2>2. Live = OldBrands /\ superseded = {}
    BY <2>1 DEF Init, Live, Brands
  <2>3. written = OldBrands
    BY <2>1, <2>2 DEF written, Brands
  <2> QED BY <2>1, <2>3
<1>3. full \in [written -> SUBSET Lists]
  BY <1>1, <1>2 DEF TypeOK, Brands
<1>4. \A b \in Brands : store[b] = IF b \in written THEN Store!Whole(b, full[b]) ELSE None
  BY <1>1, <1>2, StoreIs DEF StoreOK, Brands
<1>5. store = [b \in Brands |-> IF b \in written THEN Store!Whole(b, full[b]) ELSE None]
  BY <1>4 DEF store
<1>6. written \subseteq Brands
  BY <1>2 DEF Brands
<1> QED BY <1>3, <1>5, <1>6 DEF Store!Init

(* A commit is Create or Replace. *)
LEMMA CommitStep ==
  ASSUME TypeOK, Inv, TypeOK', Inv', NEW r \in Requests, Commit(r)
  PROVE  IF call[r].op = "create" THEN Target(r) = r /\ Store!Create(r) ELSE Store!Replace(Target(r), r)
<1> DEFINE t == Target(r)
<1>1. /\ t \in Brands /\ r \in Brands /\ r # None /\ r \notin written
      /\ rows' = [rows EXCEPT ![t] = r] /\ written' = written \cup {r}
      /\ IF call[r].op = "create" THEN rows[t] = None /\ t = r ELSE rows[t] # None
      /\ data' = data
  BY CommitFacts DEF Brands
<1>2. \A b \in Brands : rows'[b] = IF b = t THEN r ELSE rows[b]
  BY <1>1 DEF TypeOK
<1>3. StoreOK
  BY StoreIs
<1>4. StoreOK'
  BY StoreIs, PTL
<1>5. \A b \in Brands : store'[b] = IF b = t THEN Store!Whole(r, data[r].full) ELSE store[b]
  <2> SUFFICES ASSUME NEW b \in Brands
               PROVE  store'[b] = IF b = t THEN Store!Whole(r, data[r].full) ELSE store[b]
    OBVIOUS
  <2>1. PICK w : rows'[b] = w
    OBVIOUS
  <2>2. store'[b] = IF w = None THEN None ELSE Store!Whole(w, data'[w].full)
    BY <1>4, <2>1 DEF StoreOK
  <2>3. CASE b = t
    BY <1>1, <1>2, <2>1, <2>2, <2>3
  <2>4. CASE b # t
    <3>1. rows[b] = w
      BY <1>2, <2>1, <2>4
    <3>2. store[b] = IF w = None THEN None ELSE Store!Whole(w, data[w].full)
      BY <1>3, <3>1 DEF StoreOK
    <3> QED BY <1>1, <2>2, <2>4, <3>2
  <2> QED BY <2>3, <2>4
<1>6. store' = [store EXCEPT ![t] = Store!Whole(r, data[r].full)]
  BY <1>5 DEF store
<1>7. data[r].full \in SUBSET Lists
  BY <1>1 DEF TypeOK
<1>8. Store!Write(t, r)
  BY <1>1, <1>6, <1>7 DEF Store!Write
<1>9. CASE call[r].op = "create"
  BY <1>1, <1>3, <1>8, <1>9 DEF StoreOK, Store!Create
<1>10. CASE call[r].op # "create"
  BY <1>1, <1>3, <1>8, <1>10 DEF StoreOK, Store!Replace
<1> QED BY <1>9, <1>10

(* A DELETE that finds the brand is Delete. *)
LEMMA DeleteStep ==
  ASSUME TypeOK, Inv, NEW r \in Requests, DeleteBrand(r), Owned(r)
  PROVE  Target(r) \in Brands /\ Store!Delete(Target(r))
<1> DEFINE t == Target(r)
<1>1. t \in Brands
  BY TargetType DEF Inv, CallOK, DeleteBrand
<1>2. /\ rows' = [rows EXCEPT ![t] = None] /\ lists' = [lists EXCEPT ![t] = NoLists]
      /\ superseded' = superseded \cup {rows[t]} /\ t \in Live
  BY <1>1 DEF DeleteBrand, Owned, Live
<1>3. \A b \in Brands : rows'[b] = (IF b = t THEN None ELSE rows[b]) /\ lists'[b] = IF b = t THEN NoLists ELSE lists[b]
  BY <1>2 DEF TypeOK
<1>4. \A b \in Brands : store'[b] = IF b = t THEN None ELSE store[b]
  BY <1>3 DEF store, NoLists
<1>5. store' = [store EXCEPT ![t] = None]
  BY <1>4 DEF store
<1>6. written' = written
  <2>1. \A b \in Live' : b \in Live /\ rows'[b] = rows[b]
    BY <1>3 DEF Live
  <2>2. \A b \in Live : b = t \/ (b \in Live' /\ rows'[b] = rows[b])
    BY <1>3 DEF Live
  <2> QED BY <1>2, <2>1, <2>2 DEF written
<1>7. store[t] # None
  BY <1>1, <1>2, StoreIs DEF StoreOK, Live
<1> QED BY <1>1, <1>5, <1>6, <1>7 DEF Store!Delete

(* All other statements leave the committed brands as they are.               *)
LEMMA BrandsUntouched ==
  ASSUME NEW r \in Requests,
         Arrive(r) \/ Fail(r) \/ (Proceed(r) /\ ~Commit(r) /\ ~(DeleteBrand(r) /\ Owned(r)))
  PROVE  UNCHANGED <<rows, lists, superseded>>
<1>1. CASE Arrive(r) \/ Fail(r)
  BY <1>1 DEF Arrive, Create, Update, Delete, Get, Take, Fail, tables, history
<1>2. CASE Proceed(r) /\ ~Commit(r) /\ ~(DeleteBrand(r) /\ Owned(r))
  BY <1>2 DEF Proceed, CheckBrandExists, CheckBusinessProfileExists, CheckBrandNameIsAvailable,
              InsertRow, UpdateRow, ClearList, DeleteBrand, ReadRow, ReadList, tables, history
<1> QED BY <1>1, <1>2

(* What the rows and lists stand for does not change unless they do.          *)
LEMMA StoreSame == UNCHANGED <<rows, lists, superseded>> => UNCHANGED <<store, written>>
BY DEF store, written, Live, NoLists

(* Every step is one of BrandStore or leaves its brands alone. *)
LEMMA StoreStep == TypeOK /\ Inv /\ [Next]_vars => [Store!Next]_Store!vars
<1> SUFFICES ASSUME TypeOK, Inv, [Next]_vars PROVE Store!Next \/ UNCHANGED <<store, written>>
  BY DEF Store!vars
<1>1. TypeOK' /\ Inv'
  BY TypeStep, InvStep
<1>2. CASE UNCHANGED <<rows, lists, superseded>>
  BY <1>2, StoreSame
<1>3. ASSUME NEW r \in Requests, Commit(r) PROVE Store!Next
  <2>1. Target(r) \in Brands /\ r \in Brands
    BY <1>3, CommitFacts DEF Brands
  <2> QED BY <1>1, <1>3, <2>1, CommitStep DEF Store!Next
<1>4. ASSUME NEW r \in Requests, DeleteBrand(r), Owned(r) PROVE Store!Next
  BY <1>4, DeleteStep DEF Store!Next
<1>5. CASE Next
  <2>1. ASSUME NEW r \in Requests, Arrive(r) \/ Fail(r) PROVE UNCHANGED <<rows, lists, superseded>>
    BY <2>1, BrandsUntouched
  <2>2. ASSUME NEW r \in Requests, Proceed(r), ~Commit(r), ~(DeleteBrand(r) /\ Owned(r))
        PROVE  UNCHANGED <<rows, lists, superseded>>
    BY <2>2, BrandsUntouched
  <2>3. ASSUME NEW u \in Users, UpdateBusinessProfile(u) \/ AdminUpdateBusinessProfile(u)
        PROVE  UNCHANGED <<rows, lists, superseded>>
    BY <2>3 DEF UpdateBusinessProfile, AdminUpdateBusinessProfile, Unverify, tables, history
  <2> QED BY <1>2, <1>3, <1>4, <1>5, <2>1, <2>2, <2>3 DEF Next
<1> QED BY <1>2, <1>5 DEF vars, tables, history

(* The statements of concurrent requests implement BrandStore: each commit   *)
(* and each DELETE is one of its steps, everything else is a stutter.      *)
THEOREM Refinement == Spec => BrandSpec
<1>1. Init => Store!Init
  BY StoreInit
<1>2. TypeOK /\ Inv /\ [Next]_vars => [Store!Next]_Store!vars
  BY StoreStep
<1> QED BY <1>1, <1>2, Invariance, PTL DEF Spec, BrandSpec, Store!Spec
===============================================================================
