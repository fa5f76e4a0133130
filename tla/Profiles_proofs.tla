--------------------------- MODULE Profiles_proofs ---------------------------
(***************************************************************************)
(* Theorems about module Profiles, for any requests, users, places and     *)
(* forms.  The argument: a row only takes more writes, and a request       *)
(* changes a row only in its one write, after which it reads.              *)
(***************************************************************************)
EXTENDS Profiles, TLAPS

(* The tables of the three kinds of links.                                 *)
LEMMA Tables ==
  /\ Table["country"] = Countries /\ Table["state"] = States /\ Table["region"] = Regions
  /\ Countries \cup States \cup Regions \subseteq Refs
  /\ Countries \cap States = {} /\ Countries \cap Regions = {} /\ States \cap Regions = {}
  /\ None \notin Countries /\ None \notin States /\ None \notin Regions
<1>1. /\ Table["country"] = Countries /\ Table["state"] = States /\ Table["region"] = Regions
  BY DEF Table, Kinds
<1>2. Countries \cup States \cup Regions \subseteq Refs
  BY <1>1 DEF Refs, Kinds
<1>3. \A j, k \in Kinds : j # k => Table[j] \cap Table[k] = {}
  BY NoneAssumption
<1>4. /\ Countries \cap States = {} /\ Countries \cap Regions = {} /\ States \cap Regions = {}
  BY <1>1, <1>3 DEF Kinds
<1>5. None \notin Countries /\ None \notin States /\ None \notin Regions
  BY <1>2, NoneAssumption
<1> QED BY <1>1, <1>2, <1>4, <1>5

(* What a member of Links is, and how one is changed.                      *)
LEMMA LinkFacts ==
  /\ NoLinks \in Links
  /\ \A at \in Links : /\ at \in [Kinds -> Refs \cup {None}]
                       /\ at["country"] \in Countries \cup {None}
                       /\ at["state"] \in States \cup {None}
                       /\ at["region"] \in Regions \cup {None}
  /\ \A at \in Links, k \in Kinds : \A x \in Table[k] : [at EXCEPT ![k] = x] \in Links
  /\ \A at \in Links : \A S : [k \in Kinds |-> IF at[k] \in S THEN None ELSE at[k]] \in Links
<1>1. NoLinks \in Links
  BY DEF NoLinks, Links
<1>2. ASSUME NEW at \in Links
      PROVE  /\ at \in [Kinds -> Refs \cup {None}]
             /\ at["country"] \in Countries \cup {None}
             /\ at["state"] \in States \cup {None}
             /\ at["region"] \in Regions \cup {None}
  BY Tables DEF Links, Kinds
<1>3. ASSUME NEW at \in Links, NEW k \in Kinds, NEW x \in Table[k]
      PROVE  [at EXCEPT ![k] = x] \in Links
  <2>1. x \in Refs
    BY DEF Refs
  <2> QED BY <2>1 DEF Links
<1>4. ASSUME NEW at \in Links, NEW S
      PROVE  [k \in Kinds |-> IF at[k] \in S THEN None ELSE at[k]] \in Links
  BY DEF Links
<1> QED BY <1>1, <1>2, <1>3, <1>4

(* A chain fits and nests.                                                 *)
LEMMA ChainFits ==
  ASSUME NEW at \in Links, Chain(at)
  PROVE  Fits(at)
BY DEF Chain, Fits

-------------------------------------------------------------------------------
(* The invariant holds at the start.                                       *)
LEMMA InvInit == Init => TypeOK /\ Inv
<1> SUFFICES ASSUME Init PROVE TypeOK /\ Inv
  OBVIOUS
<1> USE LinkFacts
<1>1. \A u \in Owners : /\ users[u].at = NoLinks /\ users[u].taken = {} /\ users[u] \in UserRow
  BY DEF Init, UserRow
<1>2. OldProfiles \subseteq ProfileRow
  BY DEF OldProfiles, ProfileRow
<1>3. \A u \in Owners : business[u] # None =>
        /\ business[u] \in ProfileRow /\ business[u].by = None /\ business[u].taken = {}
        /\ Chain(business[u].at) /\ business[u].at \in Links
  BY <1>2 DEF Init, OldProfiles
<1>4. NoCall \in [op: Ops, user: Users \cup {None}, of: Owners \cup {None}, at: Links, verified: BOOLEAN]
  BY DEF NoCall, Ops
<1>5. TypeOK
  <2>1. users \in [Owners -> UserRow] /\ business \in [Owners -> ProfileRow \cup {None}]
    BY <1>1, <1>2, <1>3 DEF Init
  <2>2. pc \in [Requests -> Steps]
    BY DEF Init, Steps
  <2> QED BY <1>4, <2>1, <2>2 DEF TypeOK, Init
<1>6. LinksFit
  <2>1. \A u \in Owners : users[u].at \in [Kinds -> refs \cup {None}] /\ Nested(users[u].at)
    BY <1>1 DEF Init, Nested, NoLinks, Kinds
  <2>2. \A u \in Owners : business[u] # None =>
          business[u].at \in [Kinds -> refs \cup {None}] /\ Fits(business[u].at)
    BY <1>3, ChainFits DEF Init
  <2> QED BY <2>1, <2>2 DEF LinksFit, Init, NoCall
<1>7. AnswersForward
  BY DEF AnswersForward, Init
<1>8. TakenOK
  <2>1. \A u \in Owners : Taken(business[u]) = {}
    BY <1>3 DEF Taken
  <2> QED BY <1>1, <2>1 DEF TakenOK, Init
<1>9. \A r \in Requests : Checked(r) /\ PickOK(r) /\ StepOK(r)
  BY DEF Checked, Nested, Chain, PickOK, StepOK, Init, NoCall, OfUsers, UserWrites, Upserts, Nested, NoLinks, Kinds
<1>10. \A u \in Owners, r \in Requests : (business[u] # None /\ business[u].by = r) => Sender(r, u)
  BY <1>3, NoneAssumption
<1> QED BY <1>5, <1>6, <1>7, <1>8, <1>9, <1>10 DEF Inv

-------------------------------------------------------------------------------
(* A step that only moves request r on, before its write, or ends it.      *)
LEMMA PcStep ==
  ASSUME TypeOK, Inv, NEW r \in Requests, NEW m \in Steps \ {"idle", "done", "read", "states", "regions"},
         pc[r] \notin {"idle", "done", "refused", "failed"},
         pc[r] \in {"read", "lost"} => m = "failed",
         pc' = [pc EXCEPT ![r] = m], UNCHANGED <<tables, call, answer, before, entitled>>,
         Checked(r)', StepOK(r)'
  PROVE  TypeOK' /\ Inv'
<1>1. TypeOK'
  BY DEF TypeOK, tables
<1>2. /\ pc'[r] = m /\ \A q \in Requests \ {r} : pc'[q] = pc[q]
      /\ refs' = refs /\ users' = users /\ business' = business /\ call' = call /\ answer' = answer
      /\ before' = before /\ entitled' = entitled /\ admins' = admins
  BY DEF TypeOK, tables
<1>3. \A q \in Requests : pc'[q] \in {"done", "idle"} => pc[q] = pc'[q]
  BY <1>2
<1>4. LinksFit'
  BY <1>2, <1>3 DEF Inv, LinksFit
<1>5. AnswersForward'
  BY <1>2, <1>3 DEF Inv, AnswersForward, SameRow
<1>6. TakenOK'
  <2>1. \A q \in Requests : pc[q] \in Ended => pc'[q] \in Ended
    BY <1>2 DEF Ended
  <2>2. \A u \in Owners : \A q \in users[u].taken \cup Taken(business[u]) :
          q \in Requests /\ pc[q] \in {"read", "done", "failed"}
    BY DEF Inv, TakenOK, TypeOK, UserRow, ProfileRow, Taken
  <2>3. \A u \in Owners : \A q \in users[u].taken \cup Taken(business[u]) :
          pc'[q] \in {"read", "done", "failed"}
    BY <1>2, <2>2
  <2>4. \A q \in Requests : answer[q] # {} => pc'[q] = "done"
    BY <1>2 DEF Inv, TakenOK
  <2>5. \A q \in Requests : pc'[q] \in {"read", "idle"} => pc[q] = pc'[q]
    BY <1>2
  <2> QED BY <1>2, <2>1, <2>3, <2>4, <2>5 DEF Inv, TakenOK, Row, Taken, TypeOK
<1>7. \A q \in Requests : (Checked(q) /\ PickOK(q) /\ StepOK(q))'
  <2>1. PickOK(r)'
    <3>1. call[r].op = "browse" /\ m \in {"states", "regions", "done"} => FALSE
      BY DEF Steps
    <3> QED BY <1>2, <3>1 DEF PickOK
  <2>2. \A q \in Requests \ {r} : (Checked(q) /\ PickOK(q) /\ StepOK(q))'
    BY <1>2 DEF Inv, Checked, Nested, Chain, PickOK, StepOK
  <2> QED BY <2>1, <2>2
<1>8. \A u \in Owners, q \in Requests : (business'[u] # None /\ business'[u].by = q) => Sender(q, u)'
  <2>1. \A q \in Requests : pc[q] \in {"read", "done", "failed"} => pc'[q] \in {"read", "done", "failed"}
    BY <1>2
  <2> QED BY <1>2, <2>1 DEF Inv, Sender
<1> QED BY <1>1, <1>4, <1>5, <1>6, <1>7, <1>8 DEF Inv

(* A request that goes on keeps what was checked of it.                    *)
LEMMA CheckedKept ==
  ASSUME NEW r \in Requests, NEW m, Checked(r), pc[r] \notin {"idle", "refused"},
         pc'[r] = m, call' = call, admins' = admins, entitled' = entitled,
         (call[r].op = "AdminUpdateBusinessProfile"
            /\ m \in {"exists", "industry", "location", "write", "lost", "read"}) => r \in entitled,
         (call[r].op \in Upserts /\ m \in {"write", "lost"}) => Chain(call[r].at)
  PROVE  Checked(r)'
<1>1. (call[r].op \in OfUsers \cup Upserts \cup {"GetUserBusinessProfile"} => call[r].of \in Owners)'
  BY DEF Checked
<1>2. (pc[r] # "refused" => Nested(call[r].at))'
  BY DEF Checked, Nested
<1>3. (call[r].op \in OfUsers \ {"UpdateProfile"} => call[r].at = NoLinks)'
  BY DEF Checked
<1>4. (call[r].op = "UpdateBusinessProfile" => ~call[r].verified)'
  BY DEF Checked
<1>5. ((pc[r] # "idle" /\ call[r].user \in admins) => r \in entitled)'
  BY DEF Checked
<1>6. ((call[r].op = "AdminUpdateBusinessProfile"
         /\ pc[r] \in {"exists", "industry", "location", "write", "lost", "read"}) => r \in entitled)'
  OBVIOUS
<1>7. ((call[r].op \in Upserts /\ pc[r] \in {"write", "lost"}) => Chain(call[r].at))'
  BY DEF Chain
<1> QED BY <1>1, <1>2, <1>3, <1>4, <1>5, <1>6, <1>7 DEF Checked

(* The steps that only check, fail or end a request.                       *)
LEMMA Checks ==
  ASSUME TypeOK, Inv, NEW r \in Requests,
         \/ CheckCountry(r) \/ CheckState(r) \/ CheckRegion(r)
         \/ IsAdmin(r) \/ CheckBusinessProfileExists(r) \/ CheckIndustry(r) \/ CheckLocationExists(r)
         \/ Look(r) \/ KeyLost(r) \/ Fail(r) \/ Drop(r)
  PROVE  TypeOK' /\ Inv'
<1> DEFINE Frame == UNCHANGED <<tables, call, answer, before, entitled>>
           Entitled(m) == (call[r].op = "AdminUpdateBusinessProfile"
                             /\ m \in {"exists", "industry", "location", "write", "lost"}) => r \in entitled
           Placed(m) == (call[r].op \in Upserts /\ m \in {"write", "lost"}) => Chain(call[r].at)
           Follows(m) ==
             /\ m # "idle" /\ call[r].op # "none"
             /\ m \notin {"countries", "states", "regions"}
             /\ m \in {"industry", "location"} => call[r].op \in Upserts
             /\ m \in {"admin", "exists"} => call[r].op = "AdminUpdateBusinessProfile"
             /\ m \in {"country", "state", "region"} => call[r].op = "UpdateProfile"
             /\ m = "look" => call[r].op = "SaveProfileInfo"
             /\ m \in {"write", "lost"} => call[r].op \in UserWrites \cup Upserts
<1>0. Checked(r) /\ StepOK(r) /\ pc[r] \in Steps
  BY DEF Inv, TypeOK
<1>1. ASSUME NEW m \in Steps \ {"idle", "done", "read", "states", "regions"},
             pc[r] \notin {"idle", "done", "refused", "failed"},
             pc[r] \in {"read", "lost"} => m = "failed",
             pc' = [pc EXCEPT ![r] = m], Frame, Entitled(m), Placed(m), Follows(m)
      PROVE  TypeOK' /\ Inv'
  <2>1. pc'[r] = m /\ call' = call /\ admins' = admins /\ entitled' = entitled
    BY <1>1 DEF TypeOK, tables
  <2>2. Checked(r)'
    BY <2>1, <1>0, <1>1, CheckedKept
  <2>3. StepOK(r)'
    BY <2>1, <1>1 DEF StepOK
  <2> QED BY <2>2, <2>3, <1>1, PcStep
<1>2. ASSUME NEW m \in {"refused", "failed"}
      PROVE  /\ Entitled(m) /\ Placed(m) /\ (pc[r] # "idle" => Follows(m))
             /\ m \in Steps \ {"idle", "done", "read", "states", "regions"}
  BY <1>0, <1>2 DEF StepOK, Steps, Ended
<1> HIDE DEF Frame
<1>3. ASSUME NEW l, NEW ok, NEW m, Check(r, l, ok, m),
             l \in Steps \ {"idle", "done", "refused", "failed", "read", "lost"},
             m \in Steps \ {"idle", "done", "read", "states", "regions"},
             ok => Entitled(m) /\ Placed(m) /\ Follows(m)
      PROVE  TypeOK' /\ Inv'
  <2> HIDE DEF Entitled, Placed, Follows
  <2>1. pc[r] = l /\ Frame /\ pc' = [pc EXCEPT ![r] = IF ok THEN m ELSE "refused"]
    BY <1>3 DEF Check, Goto, Frame
  <2>2. CASE ok
    BY <2>1, <2>2, <1>1, <1>3
  <2>3. CASE ~ok
    BY <2>1, <2>3, <1>1, <1>2, <1>3
  <2> QED BY <2>2, <2>3
<1>4. CASE CheckCountry(r)
  BY <1>0, <1>3, <1>4 DEF CheckCountry, Check, Steps, StepOK, Upserts
<1>5. CASE CheckState(r)
  BY <1>0, <1>3, <1>5 DEF CheckState, Check, Steps, StepOK, Upserts
<1>6. CASE CheckRegion(r)
  BY <1>0, <1>3, <1>6 DEF CheckRegion, Check, Steps, StepOK, UserWrites, Upserts
<1>7. CASE IsAdmin(r)
  <2>1. pc[r] = "admin" /\ (call[r].user \in admins => r \in entitled)
    BY <1>0, <1>7 DEF IsAdmin, Check, Checked
  <2> QED BY <2>1, <1>0, <1>3, <1>7 DEF IsAdmin, Steps, StepOK
<1>8. CASE CheckBusinessProfileExists(r)
  <2>1. pc[r] = "exists" /\ r \in entitled
    BY <1>0, <1>8 DEF CheckBusinessProfileExists, Check, Checked, StepOK
  <2> QED BY <2>1, <1>0, <1>3, <1>8 DEF CheckBusinessProfileExists, Steps, StepOK, Upserts
<1>9. CASE CheckIndustry(r)
  <2>1. PICK ok \in BOOLEAN : Check(r, "industry", ok, "location")
    BY <1>9 DEF CheckIndustry
  <2>2. pc[r] = "industry" /\ Entitled("location")
    BY <2>1, <1>0 DEF Check, Checked
  <2> QED BY <2>1, <2>2, <1>0, <1>3 DEF Steps, StepOK
<1>10. CASE CheckLocationExists(r)
  <2>1. pc[r] = "location" /\ Entitled("write")
    BY <1>0, <1>10 DEF CheckLocationExists, Check, Checked
  <2> QED BY <2>1, <1>0, <1>3, <1>10 DEF CheckLocationExists, Steps, StepOK
<1>11. CASE Look(r)
  <2>1. PICK free \in BOOLEAN : Check(r, "look", free /\ ~users[call[r].of].named, "write")
    BY <1>11 DEF Look
  <2>2. pc[r] = "look"
    BY <2>1 DEF Check
  <2> QED BY <2>1, <2>2, <1>0, <1>3 DEF Steps, StepOK, UserWrites, Upserts
<1>12. ASSUME pc' = [pc EXCEPT ![r] = "failed"], Frame, pc[r] \notin {"idle", "done", "refused", "failed"}
       PROVE  TypeOK' /\ Inv'
  <2> HIDE DEF Entitled, Placed, Follows
  <2> QED BY <1>1, <1>2, <1>12
<1>13. CASE KeyLost(r)
  BY <1>12, <1>13 DEF KeyLost, Goto, Frame, Writes
<1>14. CASE Drop(r)
  BY <1>12, <1>14 DEF Drop, Goto, Frame
<1>15. CASE Fail(r)
  <2>1. CASE Goto(r, "failed")
    BY <2>1, <1>12, <1>15 DEF Fail, Goto, Frame, Ended
  <2>2. CASE pc[r] = "write" /\ Goto(r, "lost")
    <3>1. pc' = [pc EXCEPT ![r] = "lost"] /\ Frame
      BY <2>2, <1>15 DEF Fail, Goto, Frame
    <3>2. Entitled("lost") /\ Placed("lost") /\ Follows("lost")
      BY <2>2, <1>0 DEF Checked, StepOK
    <3>3. "lost" \in Steps \ {"idle", "done", "read", "states", "regions"}
      BY DEF Steps, Ended
    <3> HIDE DEF Entitled, Placed, Follows
    <3> QED BY <2>2, <3>1, <3>2, <3>3, <1>1
  <2> QED BY <2>1, <2>2, <1>15 DEF Fail
<1> QED BY <1>4, <1>5, <1>6, <1>7, <1>8, <1>9, <1>10, <1>11, <1>13, <1>14, <1>15

-------------------------------------------------------------------------------
(* A request that arrives.                                                 *)
LEMMA BeginStep ==
  ASSUME TypeOK, Inv, NEW r \in Requests, NEW op \in Ops \ {"none"}, NEW u \in Users \cup {None},
         NEW v \in Owners \cup {None}, NEW at \in Links, NEW ok \in BOOLEAN,
         NEW l \in {"read", "look", "country", "refused", "industry", "admin", "countries"},
         Begin(r, op, u, v, at, ok, l),
         op # "browse" => v \in Owners,
         l # "refused" => Nested(at),
         op \in OfUsers \ {"UpdateProfile"} => at = NoLinks,
         op = "UpdateBusinessProfile" => ~ok,
         l = "read" => op \in Reads,
         l = "industry" => op = "UpdateBusinessProfile",
         l = "countries" => op = "browse",
         l = "look" => op = "SaveProfileInfo",
         l = "country" => op = "UpdateProfile",
         l = "admin" => op = "AdminUpdateBusinessProfile"
  PROVE  TypeOK' /\ Inv'
<1>1. /\ pc[r] = "idle" /\ pc'[r] = l /\ \A q \in Requests \ {r} : pc'[q] = pc[q]
      /\ call'[r] = [op |-> op, user |-> u, of |-> v, at |-> at, verified |-> ok]
      /\ \A q \in Requests \ {r} : call'[q] = call[q] /\ before'[q] = before[q]
      /\ before'[r] = {q \in Requests : pc[q] \in Ended}
      /\ \A q \in Requests \ {r} : q \in entitled' <=> q \in entitled
      /\ u \in admins => r \in entitled'
      /\ refs' = refs /\ users' = users /\ business' = business /\ answer' = answer /\ admins' = admins
  BY DEF Begin, Goto, TypeOK, tables
<1>2. TypeOK'
  <2>1. l \in Steps
    BY DEF Steps, Ended
  <2> QED BY <2>1 DEF TypeOK, Begin, Goto, tables
<1>3. \A q \in Requests : pc[q] \in Ended => pc'[q] \in Ended /\ q # r
  BY <1>1 DEF Ended
<1>4. \A q \in Requests : pc'[q] = "done" => pc[q] = "done" /\ q # r
  BY <1>1
<1>5. LinksFit'
  BY <1>1, <1>4 DEF Inv, LinksFit
<1>6. \A q \in Requests : \A p \in before[q] : p \in Requests /\ p # r
  BY <1>3 DEF Inv, TakenOK, TypeOK
<1>7. AnswersForward'
  <2> SUFFICES ASSUME NEW q \in Requests, pc'[q] = "done", call'[q].op # "browse"
               PROVE  /\ call'[q].op \in UserWrites \cup Upserts => q \in answer[q]
                      /\ \A p \in before'[q] : SameRow(p, q)' => answer[p] \subseteq answer[q]
    BY <1>1 DEF AnswersForward
  <2>1. q # r /\ pc[q] = "done" /\ call'[q] = call[q] /\ before'[q] = before[q]
    BY <1>1, <1>4
  <2>2. \A p \in before[q] : SameRow(p, q)' <=> SameRow(p, q)
    BY <1>1, <1>6, <2>1 DEF SameRow
  <2> QED BY <2>1, <2>2 DEF Inv, AnswersForward
<1>8. TakenOK'
  <2>1. \A w \in Owners : \A q \in users[w].taken \cup Taken(business[w]) :
          q \in Requests /\ pc[q] \in {"read", "done", "failed"}
    BY DEF Inv, TakenOK, TypeOK, UserRow, ProfileRow, Taken
  <2>2. \A w \in Owners : \A q \in users[w].taken \cup Taken(business[w]) :
          pc'[q] \in {"read", "done", "failed"}
    BY <1>1, <2>1
  <2>3. \A q \in Requests \ {r} : Row(q)' = Row(q)
    BY <1>1 DEF Row, Taken
  <2>4. answer[r] = {}
    BY <1>1 DEF Inv, TakenOK
  <2>5. (pc'[r] = "read" => call'[r].op \in Reads)
    BY <1>1
  <2>6. \A q \in Requests : \A p \in before'[q] : pc'[p] \in Ended
    BY <1>1, <1>3 DEF Inv, TakenOK, TypeOK
  <2>7. \A q \in Requests : (pc'[q] = "read" /\ call'[q].op \notin Reads) => q \in Row(q)'
    BY <1>1, <2>3, <2>5 DEF Inv, TakenOK
  <2>8. \A q \in Requests : answer[q] # {} => pc'[q] = "done" /\ call'[q].op # "browse" /\ answer[q] \subseteq Row(q)'
    BY <1>1, <2>3, <2>4 DEF Inv, TakenOK
  <2> HIDE DEF Row
  <2> QED BY <1>1, <2>2, <2>6, <2>7, <2>8 DEF TakenOK, Taken
<1>9. \A q \in Requests : (Checked(q) /\ PickOK(q) /\ StepOK(q))'
  <2>1. \A q \in Requests \ {r} : (Checked(q) /\ PickOK(q) /\ StepOK(q))'
    BY <1>1 DEF Inv, Checked, Nested, Chain, PickOK, StepOK
  <2>2. Checked(r)'
    BY <1>1 DEF Checked, Nested, Chain, OfUsers, UserWrites, Upserts, Reads, Ops
  <2>3. PickOK(r)' /\ StepOK(r)'
    BY <1>1 DEF PickOK, StepOK, Upserts, Reads
  <2> QED BY <2>1, <2>2, <2>3
<1>10. \A w \in Owners, q \in Requests : (business'[w] # None /\ business'[w].by = q) => Sender(q, w)'
  BY <1>1 DEF Inv, Sender
<1> QED BY <1>2, <1>5, <1>7, <1>8, <1>9, <1>10 DEF Inv

(* Every operation begins so.                                              *)
LEMMA Begins ==
  ASSUME TypeOK, Inv, NEW r \in Requests, Start(r) \/ Browse(r)
  PROVE  TypeOK' /\ Inv'
<1>1. NoLinks \in Links /\ Nested(NoLinks) /\ Owners \subseteq Users /\ Forms \subseteq Links
  BY LinkFacts, BoundAssumption DEF Nested, NoLinks, Kinds
<1>2. CASE Browse(r)
  BY <1>1, <1>2, BeginStep DEF Browse, Ops, OfUsers, UserWrites
<1>3. ASSUME NEW u \in Owners, GetByID(r, u) \/ GetUserBusinessProfile(r, u) \/ SaveProfileInfo(r, u)
      PROVE  TypeOK' /\ Inv'
  <2>1. CASE GetByID(r, u)
    BY <1>1, <2>1, BeginStep DEF GetByID, Ops, Reads, OfUsers
  <2>2. CASE GetUserBusinessProfile(r, u)
    BY <1>1, <2>2, BeginStep DEF GetUserBusinessProfile, Ops, Reads, OfUsers
  <2>3. CASE SaveProfileInfo(r, u)
    BY <1>1, <2>3, BeginStep DEF SaveProfileInfo, Ops, UserWrites
  <2> QED BY <1>3, <2>1, <2>2, <2>3
<1>4. ASSUME NEW u \in Owners, NEW at \in Forms, UpdateProfile(r, u, at)
      PROVE  TypeOK' /\ Inv'
  BY <1>1, <1>4, BeginStep DEF UpdateProfile, Ops, UserWrites
<1>5. ASSUME NEW at, Full(at) PROVE Nested(at)
  BY <1>5 DEF Full, Nested, Kinds
<1>6. ASSUME NEW u \in Owners, NEW at \in Forms, Full(at), UpdateBusinessProfile(r, u, at)
      PROVE  TypeOK' /\ Inv'
  BY <1>1, <1>5, <1>6, BeginStep DEF UpdateBusinessProfile, Ops, Upserts, OfUsers, UserWrites
<1>7. ASSUME NEW u \in Owners, NEW v \in Users, NEW ok \in BOOLEAN, NEW at \in Forms, Full(at),
             AdminUpdateBusinessProfile(r, v, u, at, ok)
      PROVE  TypeOK' /\ Inv'
  BY <1>1, <1>5, <1>7, BeginStep DEF AdminUpdateBusinessProfile, Ops, Upserts, OfUsers, UserWrites
<1> QED BY <1>2, <1>3, <1>4, <1>6, <1>7 DEF Start

-------------------------------------------------------------------------------
(* What a reading request answers with.                                    *)
LEMMA AnswerStep ==
  ASSUME TypeOK, Inv, NEW r \in Requests, pc[r] = "read",
         answer' = [answer EXCEPT ![r] = Row(r)], Goto(r, "done"),
         UNCHANGED <<tables, call, before, entitled>>
  PROVE  TypeOK' /\ Inv'
<1>1. /\ pc'[r] = "done" /\ \A q \in Requests \ {r} : pc'[q] = pc[q] /\ answer'[q] = answer[q]
      /\ refs' = refs /\ users' = users /\ business' = business /\ call' = call /\ answer'[r] = Row(r)
      /\ before' = before /\ entitled' = entitled /\ admins' = admins
  BY DEF Goto, TypeOK, tables
<1>2. call[r].op \notin {"none", "browse"} /\ call[r].of \in Owners
  BY DEF Inv, StepOK, Checked, TypeOK, Ops, OfUsers, Upserts, Reads
<1>3. Row(r) \subseteq Requests
  BY <1>2 DEF Row, Taken, TypeOK, UserRow, ProfileRow
<1>4. \A q \in Requests : Row(q)' = Row(q)
  BY <1>1 DEF Row, Taken
<1>5. \A q \in Requests : pc[q] \in Ended => pc'[q] \in Ended /\ q # r
  BY <1>1 DEF Ended
<1>6. \A q \in Requests : \A p \in before[q] : p \in Requests /\ p # r /\ pc'[p] \in Ended
  BY <1>5 DEF Inv, TakenOK, TypeOK
<1>7. TypeOK'
  <2>1. "done" \in Steps
    BY DEF Steps, Ended
  <2> QED BY <1>3, <2>1 DEF TypeOK, Goto, tables
<1>8. LinksFit'
  BY <1>1, <1>2 DEF Inv, LinksFit
<1>9. AnswersForward'
  <2> SUFFICES ASSUME NEW q \in Requests, pc'[q] = "done", call[q].op # "browse"
               PROVE  /\ call[q].op \in UserWrites \cup Upserts => q \in answer'[q]
                      /\ \A p \in before[q] : SameRow(p, q) => answer'[p] \subseteq answer'[q]
    BY <1>1 DEF AnswersForward, SameRow
  <2>1. CASE q = r
    <3>1. call[r].op \in UserWrites \cup Upserts => r \in Row(r)
      BY DEF Inv, TakenOK, UserWrites, Upserts, Reads
    <3>2. ASSUME NEW p \in before[r], SameRow(p, r) PROVE answer[p] \subseteq Row(r)
      <4>1. p \in Requests /\ (answer[p] = {} \/ answer[p] \subseteq Row(p))
        BY <1>6 DEF Inv, TakenOK
      <4>2. Row(p) = Row(r)
        BY <3>2 DEF SameRow, Row
      <4> QED BY <4>1, <4>2
    <3> QED BY <1>1, <1>6, <2>1, <3>1, <3>2
  <2>2. CASE q # r
    <3>1. pc[q] = "done" /\ answer'[q] = answer[q]
      BY <1>1, <2>2
    <3> QED BY <1>1, <1>6, <3>1 DEF Inv, AnswersForward
  <2> QED BY <2>1, <2>2
<1>10. TakenOK'
  <2>1. \A w \in Owners : \A q \in users[w].taken \cup Taken(business[w]) :
          q \in Requests /\ pc[q] \in {"read", "done", "failed"}
    BY DEF Inv, TakenOK, TypeOK, UserRow, ProfileRow, Taken
  <2>2. \A w \in Owners : \A q \in users[w].taken \cup Taken(business[w]) :
          pc'[q] \in {"read", "done", "failed"}
    BY <1>1, <2>1
  <2>3. \A q \in Requests : (pc'[q] = "read" /\ call[q].op \notin Reads) => q \in Row(q)
    BY <1>1 DEF Inv, TakenOK
  <2>4. \A q \in Requests : answer'[q] # {} => pc'[q] = "done" /\ call[q].op # "browse" /\ answer'[q] \subseteq Row(q)
    BY <1>1, <1>2 DEF Inv, TakenOK
  <2> QED BY <1>1, <1>4, <1>6, <2>2, <2>3, <2>4 DEF TakenOK, Taken
<1>11. \A q \in Requests : (Checked(q) /\ PickOK(q) /\ StepOK(q))'
  <2>1. \A q \in Requests \ {r} : (Checked(q) /\ PickOK(q) /\ StepOK(q))'
    BY <1>1 DEF Inv, Checked, Nested, Chain, PickOK, StepOK
  <2>2. Checked(r)'
    BY <1>1, CheckedKept DEF Inv
  <2>3. PickOK(r)' /\ StepOK(r)'
    BY <1>1, <1>2 DEF PickOK, StepOK
  <2> QED BY <2>1, <2>2, <2>3
<1>12. \A w \in Owners, q \in Requests : (business'[w] # None /\ business'[w].by = q) => Sender(q, w)'
  BY <1>1 DEF Inv, Sender
<1> QED BY <1>7, <1>8, <1>9, <1>10, <1>11, <1>12 DEF Inv

(* The two reads.                                                          *)
LEMMA Answers ==
  ASSUME TypeOK, Inv, NEW r \in Requests, ReadUser(r) \/ ReadProfile(r)
  PROVE  TypeOK' /\ Inv'
<1>1. CASE ReadUser(r)
  BY <1>1, AnswerStep DEF ReadUser, Row
<1>2. CASE ReadProfile(r) /\ answer' = [answer EXCEPT ![r] = Taken(business[call[r].of])] /\ Goto(r, "done")
  BY <1>2, AnswerStep DEF ReadProfile, Row
<1>3. CASE ReadProfile(r) /\ Goto(r, "failed") /\ UNCHANGED answer
  BY <1>3, Checks DEF ReadProfile, Fail, Ended
<1> QED BY <1>1, <1>2, <1>3 DEF ReadProfile

-------------------------------------------------------------------------------
(* A pick from a list: the call names one more place.                      *)
LEMMA PickStep ==
  ASSUME TypeOK, Inv, NEW r \in Requests, NEW k \in Kinds, NEW x \in Table[k],
         NEW m \in {"states", "regions", "done"}, pc[r] \in {"countries", "states", "regions"},
         call' = [call EXCEPT ![r].at[k] = x],
         Goto(r, m), UNCHANGED <<tables, answer, before, entitled>>,
         Nested(call'[r].at), PickOK(r)'
  PROVE  TypeOK' /\ Inv'
<1>1. /\ pc'[r] = m /\ \A q \in Requests \ {r} : pc'[q] = pc[q] /\ call'[q] = call[q]
      /\ refs' = refs /\ users' = users /\ business' = business /\ answer' = answer
      /\ before' = before /\ entitled' = entitled /\ admins' = admins
  BY DEF Goto, TypeOK, tables
<1>2. /\ call[r].op = "browse" /\ call'[r].op = "browse" /\ call'[r].of = call[r].of
      /\ call'[r].user = call[r].user
  BY DEF Inv, StepOK, TypeOK
<1>3. TypeOK'
  <2>1. m \in Steps
    BY DEF Steps, Ended
  <2>2. [call[r].at EXCEPT ![k] = x] \in Links
    BY LinkFacts DEF TypeOK
  <2> DEFINE Calls == [op: Ops, user: Users \cup {None}, of: Owners \cup {None}, at: Links, verified: BOOLEAN]
             new == [call[r] EXCEPT !.at = [call[r].at EXCEPT ![k] = x]]
  <2>5. call[r] \in Calls /\ call \in [Requests -> Calls]
    BY DEF TypeOK
  <2>6. new \in Calls
    BY <2>2, <2>5
  <2>7. call' = [call EXCEPT ![r] = new]
    OBVIOUS
  <2> HIDE DEF Calls, new
  <2>3. call' \in [Requests -> Calls]
    BY <2>5, <2>6, <2>7
  <2>4. pc' \in [Requests -> Steps]
    BY <2>1 DEF TypeOK, Goto
  <2> QED BY <1>1, <2>3, <2>4 DEF TypeOK, Calls
<1>4. \A q \in Requests : \A p \in before[q] : p \in Requests /\ p # r /\ pc'[p] \in Ended
  BY <1>1 DEF Inv, TakenOK, TypeOK, Ended
<1>5. LinksFit'
  <2>1. m = "done" => Chain(call'[r].at)
    BY <1>1, <1>2 DEF PickOK, Chain
  <2> QED BY <1>1, <2>1 DEF Inv, LinksFit, Chain
<1>6. AnswersForward'
  <2> SUFFICES ASSUME NEW q \in Requests, pc'[q] = "done", call'[q].op # "browse"
               PROVE  /\ call'[q].op \in UserWrites \cup Upserts => q \in answer[q]
                      /\ \A p \in before[q] : SameRow(p, q)' => answer[p] \subseteq answer[q]
    BY <1>1 DEF AnswersForward
  <2>1. q # r /\ pc[q] = "done" /\ call'[q] = call[q]
    BY <1>1, <1>2
  <2>2. \A p \in before[q] : SameRow(p, q)' <=> SameRow(p, q)
    BY <1>1, <1>4, <2>1 DEF SameRow
  <2> QED BY <2>1, <2>2 DEF Inv, AnswersForward
<1>7. TakenOK'
  <2>1. \A w \in Owners : \A q \in users[w].taken \cup Taken(business[w]) :
          q \in Requests /\ pc[q] \in {"read", "done", "failed"}
    BY DEF Inv, TakenOK, TypeOK, UserRow, ProfileRow, Taken
  <2>2. \A w \in Owners : \A q \in users[w].taken \cup Taken(business[w]) :
          pc'[q] \in {"read", "done", "failed"}
    BY <1>1, <2>1
  <2>3. \A q \in Requests : Row(q)' = Row(q) /\ call'[q].op = call[q].op
    BY <1>1, <1>2 DEF Row, Taken
  <2>4. answer[r] = {}
    BY DEF Inv, TakenOK
  <2>5. \A q \in Requests : (pc'[q] = "read" /\ call'[q].op \notin Reads) => q \in Row(q)'
    BY <1>1, <2>3 DEF Inv, TakenOK
  <2>6. \A q \in Requests : answer[q] # {} => pc'[q] = "done" /\ call'[q].op # "browse" /\ answer[q] \subseteq Row(q)'
    BY <1>1, <2>3, <2>4 DEF Inv, TakenOK
  <2> HIDE DEF Row
  <2> QED BY <1>1, <1>4, <2>2, <2>5, <2>6 DEF TakenOK, Taken
<1>8. \A q \in Requests : (Checked(q) /\ PickOK(q) /\ StepOK(q))'
  <2>1. \A q \in Requests \ {r} : (Checked(q) /\ PickOK(q) /\ StepOK(q))'
    BY <1>1 DEF Inv, Checked, Nested, Chain, PickOK, StepOK
  <2>2. Checked(r)'
    <3>1. pc[r] # "idle" /\ ((pc[r] # "idle" /\ call[r].user \in admins) => r \in entitled)
      BY DEF Inv, Checked
    <3>2. (pc[r] # "refused" => Nested(call[r].at))'
      BY DEF Nested
    <3> QED BY <1>1, <1>2, <3>1, <3>2 DEF Checked, OfUsers, UserWrites, Upserts
  <2>3. StepOK(r)'
    BY <1>1, <1>2 DEF StepOK
  <2> QED BY <2>1, <2>2, <2>3
<1>9. \A w \in Owners, q \in Requests : (business'[w] # None /\ business'[w].by = q) => Sender(q, w)'
  BY <1>1 DEF Inv, Sender
<1> QED BY <1>3, <1>5, <1>6, <1>7, <1>8, <1>9 DEF Inv

(* The three picks.                                                        *)
LEMMA Picks ==
  ASSUME TypeOK, Inv, NEW r \in Requests, PickCountry(r) \/ PickState(r) \/ PickRegion(r)
  PROVE  TypeOK' /\ Inv'
<1>1. /\ pc[r] \in {"countries", "states", "regions"} => call[r].op = "browse"
      /\ PickOK(r) /\ (pc[r] # "refused" => Nested(call[r].at))
      /\ call[r].at \in [Kinds -> Refs \cup {None}]
  BY LinkFacts DEF Inv, StepOK, Checked, TypeOK
<1>2. ASSUME NEW k \in Kinds, NEW x, call' = [call EXCEPT ![r].at[k] = x]
      PROVE  /\ call'[r].op = call[r].op /\ call'[r].at[k] = x
             /\ \A j \in Kinds \ {k} : call'[r].at[j] = call[r].at[j]
  <2> DEFINE new == [call[r] EXCEPT !.at = [call[r].at EXCEPT ![k] = x]]
  <2>3. call' = [call EXCEPT ![r] = new]
    BY <1>2
  <2> HIDE DEF new
  <2>1. call'[r] = new
    BY <2>3 DEF TypeOK
  <2>2. call'[r].at = [call[r].at EXCEPT ![k] = x] /\ call'[r].op = call[r].op
    BY <2>1 DEF TypeOK, new
  <2> QED BY <1>1, <2>2
<1>3. ASSUME NEW m, Goto(r, m) PROVE pc'[r] = m
  BY <1>3 DEF Goto, TypeOK
<1>4. CASE PickCountry(r)
  <2>1. PICK x \in refs \cap Countries :
          call' = [call EXCEPT ![r].at["country"] = x]
    BY <1>4 DEF PickCountry, Pick
  <2>2. pc[r] = "countries" /\ Goto(r, "states") /\ pc'[r] = "states" /\ UNCHANGED <<tables, answer, before, entitled>>
    BY <1>3, <1>4 DEF PickCountry, Pick
  <2>3. call'[r].at["country"] = x /\ call'[r].at["state"] = call[r].at["state"]
        /\ call'[r].at["region"] = call[r].at["region"]
    BY <1>2, <2>1 DEF Kinds
  <2>4. Nested(call'[r].at)
    BY <1>1, <2>2, <2>3, Tables DEF Nested
  <2>5. PickOK(r)'
    BY <2>2, <2>3 DEF PickOK
  <2>6. x \in Table["country"] /\ "country" \in Kinds
    BY Tables DEF Kinds
  <2> QED BY <2>1, <2>2, <2>4, <2>5, <2>6, PickStep
<1>5. CASE PickState(r)
  <2>1. PICK x \in StatesOf(call[r].at["country"]) :
          call' = [call EXCEPT ![r].at["state"] = x]
    BY <1>5 DEF PickState, Pick
  <2>2. pc[r] = "states" /\ Goto(r, "regions") /\ pc'[r] = "regions" /\ UNCHANGED <<tables, answer, before, entitled>>
    BY <1>3, <1>5 DEF PickState, Pick
  <2>3. call'[r].at["state"] = x /\ call'[r].at["country"] = call[r].at["country"]
        /\ call'[r].at["region"] = call[r].at["region"]
    BY <1>2, <2>1 DEF Kinds
  <2>4. x \in States /\ Above[x] = call[r].at["country"]
    BY DEF StatesOf
  <2>5. call[r].at["country"] \in Countries
    BY <1>1, <2>2 DEF PickOK
  <2>6. Nested(call'[r].at)
    BY <1>1, <2>2, <2>3, <2>4, <2>5, Tables DEF Nested
  <2>7. PickOK(r)'
    BY <2>2, <2>3, <2>4, <2>5 DEF PickOK
  <2>8. x \in Table["state"] /\ "state" \in Kinds
    BY <2>4, Tables DEF Kinds
  <2> QED BY <2>1, <2>2, <2>6, <2>7, <2>8, PickStep
<1>6. CASE PickRegion(r)
  <2>1. PICK x \in RegionsOf(call[r].at["state"]) :
          call' = [call EXCEPT ![r].at["region"] = x]
    BY <1>6 DEF PickRegion, Pick
  <2>2. pc[r] = "regions" /\ Goto(r, "done") /\ pc'[r] = "done" /\ UNCHANGED <<tables, answer, before, entitled>>
    BY <1>3, <1>6 DEF PickRegion, Pick
  <2>3. call'[r].at["region"] = x /\ call'[r].at["country"] = call[r].at["country"]
        /\ call'[r].at["state"] = call[r].at["state"]
    BY <1>2, <2>1 DEF Kinds
  <2>4. x \in Regions /\ Above[x] = call[r].at["state"]
    BY DEF RegionsOf
  <2>5. /\ call[r].at["country"] \in Countries /\ call[r].at["state"] \in States
        /\ call[r].at["country"] = Above[call[r].at["state"]]
    BY <1>1, <2>2 DEF PickOK
  <2>6. Nested(call'[r].at)
    BY <2>3, <2>5, Tables DEF Nested
  <2>7. PickOK(r)'
    BY <2>2, <2>3, <2>4, <2>5 DEF PickOK, Chain
  <2>8. x \in Table["region"] /\ "region" \in Kinds
    BY <2>4, Tables DEF Kinds
  <2> QED BY <2>1, <2>2, <2>6, <2>7, <2>8, PickStep
<1> QED BY <1>4, <1>5, <1>6

-------------------------------------------------------------------------------
(* The statement of a request that writes users.                           *)
LEMMA WriteUserStep ==
  ASSUME TypeOK, Inv, NEW r \in Requests, WriteUser(r)
  PROVE  TypeOK' /\ Inv'
<1> DEFINE u == call[r].of
           m == IF pc[r] = "write" THEN "read" ELSE "failed"
<1>1. /\ u \in Owners /\ pc[r] \in {"write", "lost"} /\ call[r].op \in UserWrites
      /\ Nested(call[r].at) /\ call[r].at \in [Kinds -> refs \cup {None}] /\ call[r].at \in Links
  BY LinkFacts DEF WriteUser, Writes, Inv, Checked, OfUsers, TypeOK, KeysHold, Present
<1>2. /\ pc'[r] = m /\ \A q \in Requests \ {r} : pc'[q] = pc[q]
      /\ refs' = refs /\ business' = business /\ call' = call /\ answer' = answer
      /\ before' = before /\ entitled' = entitled /\ admins' = admins
  BY DEF WriteUser, Written, Goto, TypeOK
<1>3. /\ users'[u].taken = users[u].taken \cup {r} /\ users'[u].at \in {users[u].at, call[r].at}
      /\ users'[u] \in UserRow /\ \A w \in Owners \ {u} : users'[w] = users[w]
      /\ users' \in [Owners -> UserRow]
  <2>1. users[u] \in UserRow
    BY <1>1 DEF TypeOK
  <2>2. users' = [users EXCEPT ![u] = NewUser(r)]
    BY DEF WriteUser
  <2>3. /\ NewUser(r) \in UserRow /\ NewUser(r).taken = users[u].taken \cup {r}
        /\ NewUser(r).at \in {users[u].at, call[r].at}
    BY <1>1, <2>1 DEF UserRow, NewUser, Columns
  <2> HIDE DEF u
  <2> QED BY <1>1, <2>2, <2>3 DEF TypeOK
<1>4. TypeOK'
  <2>1. pc' \in [Requests -> Steps]
    BY DEF TypeOK, WriteUser, Written, Goto, Steps, Ended
  <2> QED BY <1>2, <1>3, <2>1 DEF TypeOK
<1>5. \A q \in Requests : pc[q] \in Ended => pc'[q] \in Ended
  BY <1>1, <1>2 DEF Ended
<1>6. \A q \in Requests : pc'[q] \in {"done", "idle"} => pc[q] = pc'[q]
  BY <1>1, <1>2
<1>7. LinksFit'
  <2>1. \A w \in Owners : users'[w].at \in [Kinds -> refs \cup {None}] /\ Nested(users'[w].at)
    BY <1>1, <1>3 DEF Inv, LinksFit
  <2> QED BY <1>2, <1>6, <2>1 DEF Inv, LinksFit, Nested
<1>8. AnswersForward'
  BY <1>2, <1>6 DEF Inv, AnswersForward, SameRow
<1> HIDE DEF u, m
<1>9. TakenOK'
  <2>1. \A w \in Owners : \A q \in users[w].taken \cup Taken(business[w]) :
          q \in Requests /\ pc[q] \in {"read", "done", "failed"}
    BY DEF Inv, TakenOK, TypeOK, UserRow, ProfileRow, Taken
  <2>2. \A w \in Owners : \A q \in users'[w].taken \cup Taken(business[w]) :
          pc'[q] \in {"read", "done", "failed"}
    BY <1>2, <1>3, <2>1 DEF m
  <2>3. ASSUME NEW q \in Requests PROVE Row(q) \subseteq Row(q)'
    <3>1. CASE call[q].op \in OfUsers
      <4>1. call[q].of \in Owners
        BY <3>1 DEF Inv, Checked
      <4>2. users[call[q].of].taken \subseteq users'[call[q].of].taken
        BY <1>3, <4>1
      <4> QED BY <1>2, <3>1, <4>2 DEF Row
    <3>2. CASE call[q].op \notin OfUsers
      BY <1>2, <3>2 DEF Row, Taken
    <3> QED BY <3>1, <3>2
  <2>4. r \in Row(r)'
    BY <1>1, <1>2, <1>3 DEF Row, u, OfUsers
  <2>5. \A q \in Requests : (pc'[q] = "read" /\ call[q].op \notin Reads) => q \in Row(q)'
    BY <1>2, <2>3, <2>4 DEF Inv, TakenOK
  <2>6. \A q \in Requests : answer[q] # {} => pc'[q] = "done" /\ call'[q].op # "browse" /\ answer[q] \subseteq Row(q)'
    BY <1>1, <1>2, <2>3 DEF Inv, TakenOK
  <2>7. \A q \in Requests : \A p \in before[q] : pc'[p] \in Ended
    BY <1>5 DEF Inv, TakenOK, TypeOK
  <2> HIDE DEF Row
  <2> QED BY <1>2, <2>2, <2>5, <2>6, <2>7 DEF TakenOK, Taken
<1>10. \A q \in Requests : (Checked(q) /\ PickOK(q) /\ StepOK(q))'
  <2>1. \A q \in Requests \ {r} : (Checked(q) /\ PickOK(q) /\ StepOK(q))'
    BY <1>2 DEF Inv, Checked, Nested, Chain, PickOK, StepOK
  <2>2. Checked(r)'
    BY <1>1, <1>2, CheckedKept DEF Inv, m, UserWrites
  <2>3. PickOK(r)' /\ StepOK(r)'
    BY <1>1, <1>2 DEF PickOK, StepOK, UserWrites, m, Inv
  <2> QED BY <2>1, <2>2, <2>3
<1>11. \A w \in Owners, q \in Requests : (business'[w] # None /\ business'[w].by = q) => Sender(q, w)'
  BY <1>1, <1>2 DEF Inv, Sender
<1> QED BY <1>4, <1>7, <1>8, <1>9, <1>10, <1>11 DEF Inv

(* The statement of a request that writes business_profiles.               *)
LEMMA UpsertStep ==
  ASSUME TypeOK, Inv, NEW r \in Requests, Upsert(r)
  PROVE  TypeOK' /\ Inv'
<1> DEFINE u == call[r].of
           m == IF pc[r] = "write" THEN "read" ELSE "failed"
<1>1. /\ u \in Owners /\ pc[r] \in {"write", "lost"} /\ call[r].op \in Upserts
      /\ Chain(call[r].at) /\ call[r].at \in [Kinds -> refs \cup {None}] /\ call[r].at \in Links
      /\ call[r].verified \in BOOLEAN
      /\ call[r].op = "AdminUpdateBusinessProfile" => r \in entitled
  BY LinkFacts DEF Upsert, Writes, Inv, Checked, TypeOK, KeysHold, Present
<1>2. /\ pc'[r] = m /\ \A q \in Requests \ {r} : pc'[q] = pc[q]
      /\ refs' = refs /\ users' = users /\ call' = call /\ answer' = answer
      /\ before' = before /\ entitled' = entitled /\ admins' = admins
  BY DEF Upsert, Written, Goto, TypeOK
<1>3. /\ business'[u] # None /\ Taken(business'[u]) = Taken(business[u]) \cup {r}
      /\ business'[u].at = call[r].at /\ business'[u].by = r /\ business'[u].verified = call[r].verified
      /\ \A w \in Owners \ {u} : business'[w] = business[w]
      /\ business' \in [Owners -> ProfileRow \cup {None}]
  <2>1. Taken(business[u]) \subseteq Requests
    BY <1>1 DEF TypeOK, ProfileRow, Taken
  <2>2. NewProfile(r) \in ProfileRow
    BY <1>1, <2>1 DEF NewProfile, ProfileRow, Columns
  <2>3. business'[u] = NewProfile(r) /\ \A w \in Owners \ {u} : business'[w] = business[w]
    BY <1>1 DEF Upsert, TypeOK
  <2>4. business'[u] # None
    BY <2>2, <2>3, RowAssumption
  <2>5. Taken(business'[u]) = Taken(business[u]) \cup {r}
    BY <2>3, <2>4 DEF NewProfile, Taken
  <2>6. business' \in [Owners -> ProfileRow \cup {None}]
    BY <2>2 DEF Upsert, TypeOK
  <2> QED BY <2>3, <2>4, <2>5, <2>6 DEF NewProfile, Columns
<1>4. TypeOK'
  <2>1. pc' \in [Requests -> Steps]
    BY DEF TypeOK, Upsert, Written, Goto, Steps, Ended
  <2> QED BY <1>2, <1>3, <2>1 DEF TypeOK
<1>5. \A q \in Requests : pc[q] \in Ended => pc'[q] \in Ended
  BY <1>1, <1>2 DEF Ended
<1>6. \A q \in Requests : pc'[q] \in {"done", "idle"} => pc[q] = pc'[q]
  BY <1>1, <1>2
<1>7. LinksFit'
  <2>1. \A w \in Owners : business'[w] # None =>
          business'[w].at \in [Kinds -> refs \cup {None}] /\ Fits(business'[w].at)
    BY <1>1, <1>3, ChainFits DEF Inv, LinksFit
  <2> QED BY <1>2, <1>6, <2>1 DEF Inv, LinksFit, Fits
<1>8. AnswersForward'
  BY <1>2, <1>6 DEF Inv, AnswersForward, SameRow
<1> HIDE DEF u, m
<1>9. TakenOK'
  <2>1. \A w \in Owners : \A q \in users[w].taken \cup Taken(business[w]) :
          q \in Requests /\ pc[q] \in {"read", "done", "failed"}
    BY DEF Inv, TakenOK, TypeOK, UserRow, ProfileRow, Taken
  <2>2. \A w \in Owners : Taken(business'[w]) \subseteq Taken(business[w]) \cup {r}
                           /\ Taken(business[w]) \subseteq Taken(business'[w])
    BY <1>3 DEF Taken
  <2>3. \A w \in Owners : \A q \in users[w].taken \cup Taken(business'[w]) :
          pc'[q] \in {"read", "done", "failed"}
    BY <1>2, <2>1, <2>2 DEF m
  <2>4. ASSUME NEW q \in Requests, call[q].op \notin {"none", "browse"} PROVE Row(q) \subseteq Row(q)'
    <3>1. CASE call[q].op \in OfUsers
      BY <1>2, <3>1 DEF Row
    <3>2. CASE call[q].op \notin OfUsers
      <4>1. call[q].of \in Owners
        BY <2>4, <3>2 DEF Inv, Checked, TypeOK, Ops, Reads, OfUsers
      <4> QED BY <1>2, <2>2, <3>2, <4>1 DEF Row, Taken
    <3> QED BY <3>1, <3>2
  <2>5. r \in Row(r)'
    BY <1>1, <1>2, <1>3 DEF Row, u, OfUsers, Upserts, UserWrites, Taken
  <2>6. \A q \in Requests : pc[q] = "read" \/ answer[q] # {} => call[q].op \notin {"none", "browse"}
    BY DEF Inv, StepOK, TakenOK
  <2>7. \A q \in Requests : (pc'[q] = "read" /\ call[q].op \notin Reads) => q \in Row(q)'
    BY <1>2, <2>4, <2>5, <2>6 DEF Inv, TakenOK
  <2>8. \A q \in Requests : answer[q] # {} => pc'[q] = "done" /\ call'[q].op # "browse" /\ answer[q] \subseteq Row(q)'
    BY <1>1, <1>2, <2>4, <2>6 DEF Inv, TakenOK
  <2>9. \A q \in Requests : \A p \in before[q] : pc'[p] \in Ended
    BY <1>5 DEF Inv, TakenOK, TypeOK
  <2> HIDE DEF Row
  <2> QED BY <1>2, <2>3, <2>7, <2>8, <2>9 DEF TakenOK, Taken
<1>10. \A q \in Requests : (Checked(q) /\ PickOK(q) /\ StepOK(q))'
  <2>1. \A q \in Requests \ {r} : (Checked(q) /\ PickOK(q) /\ StepOK(q))'
    BY <1>2 DEF Inv, Checked, Nested, Chain, PickOK, StepOK
  <2>2. Checked(r)'
    BY <1>1, <1>2, CheckedKept DEF Inv, m
  <2>3. PickOK(r)' /\ StepOK(r)'
    BY <1>1, <1>2 DEF PickOK, StepOK, Upserts, m, Inv
  <2> QED BY <2>1, <2>2, <2>3
<1>11. ASSUME NEW w \in Owners, NEW q \in Requests, business'[w] # None, business'[w].by = q
       PROVE  Sender(q, w)'
  <2>1. CASE w = u
    <3>1. q = r
      BY <1>3, <1>11, <2>1
    <3>2. call[r].of = u
      BY DEF u
    <3>3. pc'[r] \in {"read", "done", "failed"}
      BY <1>2 DEF m
    <3> QED BY <1>1, <1>2, <1>3, <2>1, <3>1, <3>2, <3>3 DEF Sender
  <2>2. CASE w # u
    <3>1. Sender(q, w) /\ business'[w] = business[w]
      BY <1>3, <1>11, <2>2 DEF Inv
    <3>2. pc'[q] = pc[q]
      BY <1>1, <1>2, <3>1 DEF Sender
    <3> QED BY <1>2, <3>1, <3>2 DEF Sender
  <2> QED BY <2>1, <2>2
<1> QED BY <1>4, <1>7, <1>8, <1>9, <1>10, <1>11 DEF Inv

-------------------------------------------------------------------------------
(* What a subtree takes with it: with a row's state its region, with its   *)
(* country its state.                                                      *)
LEMMA SubtreeClosed ==
  ASSUME NEW x, NEW y \in States \cup Regions, Above[y] \in Subtree(x)
  PROVE  y \in Subtree(x)
<1>1. CASE Above[y] \in {x} \cup Below(x)
  <2>1. y \in Below(Above[y])
    BY DEF Below
  <2> QED BY <1>1, <2>1 DEF Subtree
<1>2. ASSUME NEW z \in Below(x), Above[y] \in Below(z) PROVE FALSE
  <2>1. z \in States \cup Regions /\ Above[y] \in States \cup Regions /\ Above[Above[y]] = z
    BY <1>2 DEF Below
  <2>2. Above[y] \in States
    BY <2>1, Tables, AboveAssumption
  <2> QED BY <2>1, <2>2, Tables, AboveAssumption
<1> QED BY <1>1, <1>2 DEF Subtree

(* The operator deletes a place.                                           *)
LEMMA DeleteRefStep ==
  ASSUME TypeOK, Inv, NEW x \in Deletable, DeleteRef(x)
  PROVE  TypeOK' /\ Inv'
<1>1. /\ refs' = refs \ Subtree(x) /\ users' = users /\ pc' = pc /\ call' = call /\ answer' = answer
      /\ before' = before /\ entitled' = entitled /\ admins' = admins
      /\ \A u \in Owners, k \in Kinds : users[u].at[k] \notin Subtree(x)
      /\ business' = [u \in Owners |-> SetNull(business[u], Subtree(x))]
  BY DEF DeleteRef
<1> DEFINE Nulled(at) == [k \in Kinds |-> IF at[k] \in Subtree(x) THEN None ELSE at[k]]
<1>2. ASSUME NEW u \in Owners
      PROVE  /\ business'[u] = None <=> business[u] = None
             /\ business[u] # None =>
                  /\ business[u] \in ProfileRow /\ business'[u] \in ProfileRow
                  /\ business'[u].by = business[u].by /\ business'[u].taken = business[u].taken
                  /\ business'[u].verified = business[u].verified
                  /\ business'[u].at = Nulled(business[u].at)
  <2>1. CASE business[u] = None
    BY <1>1, <2>1 DEF SetNull
  <2>2. CASE business[u] # None
    <3>1. business[u] \in ProfileRow
      BY <2>2 DEF TypeOK
    <3>2. Nulled(business[u].at) \in Links
      BY <3>1, LinkFacts DEF ProfileRow
    <3>3. business'[u] = [business[u] EXCEPT !.at = Nulled(business[u].at)]
      BY <1>1, <2>2 DEF SetNull
    <3> HIDE DEF Nulled
    <3>4. business'[u] \in ProfileRow
      BY <3>1, <3>2, <3>3 DEF ProfileRow
    <3> QED BY <2>2, <3>1, <3>3, <3>4, RowAssumption DEF ProfileRow
  <2> QED BY <2>1, <2>2
<1>3. TypeOK'
  <2>1. business' \in [Owners -> ProfileRow \cup {None}]
    BY <1>1, <1>2
  <2> QED BY <1>1, <2>1 DEF TypeOK
<1>4. LinksFit'
  <2>1. \A u \in Owners : users[u].at \in [Kinds -> refs' \cup {None}] /\ Nested(users[u].at)
    <3>1. \A u \in Owners : users[u].at \in [Kinds -> refs \cup {None}] /\ Nested(users[u].at)
      BY DEF Inv, LinksFit
    <3> QED BY <1>1, <3>1
  <2>2. ASSUME NEW u \in Owners, business'[u] # None
        PROVE  business'[u].at \in [Kinds -> refs' \cup {None}] /\ Fits(business'[u].at)
    <3> DEFINE at == business[u].at
    <3>1. at \in [Kinds -> refs \cup {None}] /\ Fits(at) /\ at \in Links /\ business'[u].at = Nulled(at)
      BY <1>2, <2>2 DEF Inv, LinksFit, ProfileRow
    <3> HIDE DEF at
    <3>2. business'[u].at \in [Kinds -> refs' \cup {None}]
      BY <1>1, <3>1
    <3>3. ASSUME at["region"] # None, at["region"] \notin Subtree(x)
          PROVE  at["state"] = Above[at["region"]] /\ at["state"] \notin Subtree(x)
      <4>1. at["region"] \in Regions /\ at["state"] = Above[at["region"]]
        BY <3>1, <3>3, LinkFacts DEF Fits
      <4> QED BY <4>1, <3>3, SubtreeClosed
    <3>4. ASSUME at["state"] # None, at["state"] \notin Subtree(x)
          PROVE  at["country"] = Above[at["state"]] /\ at["country"] \notin Subtree(x)
      <4>1. at["state"] \in States /\ at["country"] = Above[at["state"]]
        BY <3>1, <3>4, LinkFacts DEF Fits
      <4> QED BY <4>1, <3>4, SubtreeClosed
    <3>5. Fits(Nulled(at))
      BY <3>3, <3>4 DEF Fits, Kinds
    <3> QED BY <3>1, <3>2, <3>5
  <2>3. \A r \in Requests : (call[r].op = "browse" /\ pc[r] = "done") => Chain(call[r].at)
    BY DEF Inv, LinksFit
  <2> QED BY <1>1, <2>1, <2>2, <2>3 DEF LinksFit, Chain, Nested
<1> HIDE DEF Nulled
<1>5. AnswersForward'
  BY <1>1 DEF Inv, AnswersForward, SameRow
<1>6. \A u \in Owners : Taken(business'[u]) = Taken(business[u])
  BY <1>2 DEF Taken
<1>7. TakenOK'
  <2>1. ASSUME NEW q \in Requests, pc[q] = "read" \/ answer[q] # {}
        PROVE  Row(q)' = Row(q)
    <3>1. CASE call[q].op \in OfUsers
      BY <1>1, <3>1 DEF Row
    <3>2. CASE call[q].op \notin OfUsers
      <4>1. call[q].of \in Owners
        BY <2>1, <3>2 DEF Inv, StepOK, TakenOK, Checked, TypeOK, Ops, Reads, OfUsers
      <4> QED BY <1>1, <1>6, <3>2, <4>1 DEF Row, Taken
    <3> QED BY <3>1, <3>2
  <2>2. \A q \in Requests : (pc[q] = "read" /\ call[q].op \notin Reads) => q \in Row(q)'
    BY <2>1 DEF Inv, TakenOK
  <2>3. \A q \in Requests : answer[q] # {} => answer[q] \subseteq Row(q)'
    BY <2>1 DEF Inv, TakenOK
  <2>4. \A u \in Owners : \A q \in users[u].taken \cup Taken(business'[u]) : pc[q] \in {"read", "done", "failed"}
    BY <1>6 DEF Inv, TakenOK
  <2> HIDE DEF Row
  <2> QED BY <1>1, <2>2, <2>3, <2>4 DEF Inv, TakenOK, Taken
<1>8. \A q \in Requests : (Checked(q) /\ PickOK(q) /\ StepOK(q))'
  BY <1>1 DEF Inv, Checked, Nested, Chain, PickOK, StepOK
<1>9. ASSUME NEW w \in Owners, NEW q \in Requests, business'[w] # None, business'[w].by = q
      PROVE  Sender(q, w)'
  <2>1. Sender(q, w) /\ business[w] # None
    BY <1>2, <1>9 DEF Inv
  <2>2. \A k \in Kinds : business'[w].at[k] \in {call[q].at[k], None}
    BY <1>2, <2>1 DEF Sender, Nulled
  <2> QED BY <1>1, <1>2, <2>1, <2>2 DEF Sender
<1> QED BY <1>3, <1>4, <1>5, <1>7, <1>8, <1>9 DEF Inv

(* The operator makes an administrator, or no longer.                      *)
LEMMA SetAdminStep ==
  ASSUME TypeOK, Inv, NEW u \in Users, SetAdmin(u)
  PROVE  TypeOK' /\ Inv'
<1>1. /\ refs' = refs /\ users' = users /\ business' = business /\ pc' = pc /\ call' = call
      /\ answer' = answer /\ before' = before /\ entitled \subseteq entitled'
      /\ \A r \in Requests : call[r].user \in admins' => r \in entitled'
  BY DEF SetAdmin
<1>2. TypeOK'
  BY DEF TypeOK, SetAdmin
<1>3. LinksFit' /\ AnswersForward'
  BY <1>1 DEF Inv, LinksFit, Nested, Fits, Chain, AnswersForward, SameRow
<1>4. TakenOK'
  BY <1>1 DEF Inv, TakenOK, Row, Taken
<1>5. \A r \in Requests : (Checked(r) /\ PickOK(r) /\ StepOK(r))'
  BY <1>1 DEF Inv, Checked, Nested, Chain, PickOK, StepOK
<1>6. \A w \in Owners, q \in Requests : (business'[w] # None /\ business'[w].by = q) => Sender(q, w)'
  BY <1>1 DEF Inv, Sender
<1> QED BY <1>2, <1>3, <1>4, <1>5, <1>6 DEF Inv

-------------------------------------------------------------------------------
(* Every step keeps the invariant.                                         *)
LEMMA InvNext == TypeOK /\ Inv /\ [Next]_vars => TypeOK' /\ Inv'
<1> SUFFICES ASSUME TypeOK, Inv, [Next]_vars PROVE TypeOK' /\ Inv'
  OBVIOUS
<1>1. ASSUME NEW r \in Requests, Start(r) \/ Browse(r) PROVE TypeOK' /\ Inv'
  BY <1>1, Begins
<1>2. ASSUME NEW r \in Requests,
             \/ CheckCountry(r) \/ CheckState(r) \/ CheckRegion(r)
             \/ IsAdmin(r) \/ CheckBusinessProfileExists(r) \/ CheckIndustry(r) \/ CheckLocationExists(r)
             \/ Look(r) \/ KeyLost(r) \/ Fail(r) \/ Drop(r)
      PROVE  TypeOK' /\ Inv'
  BY <1>2, Checks
<1>3. ASSUME NEW r \in Requests, WriteUser(r) PROVE TypeOK' /\ Inv'
  BY <1>3, WriteUserStep
<1>4. ASSUME NEW r \in Requests, Upsert(r) PROVE TypeOK' /\ Inv'
  BY <1>4, UpsertStep
<1>5. ASSUME NEW r \in Requests, ReadUser(r) \/ ReadProfile(r) PROVE TypeOK' /\ Inv'
  BY <1>5, Answers
<1>6. ASSUME NEW r \in Requests, PickCountry(r) \/ PickState(r) \/ PickRegion(r) PROVE TypeOK' /\ Inv'
  BY <1>6, Picks
<1>7. ASSUME NEW x \in Deletable, DeleteRef(x) PROVE TypeOK' /\ Inv'
  BY <1>7, DeleteRefStep
<1>8. ASSUME NEW u \in Users, SetAdmin(u) PROVE TypeOK' /\ Inv'
  BY <1>8, SetAdminStep
<1>9. CASE UNCHANGED vars
  <2>1. /\ refs' = refs /\ users' = users /\ business' = business /\ admins' = admins /\ pc' = pc
        /\ call' = call /\ answer' = answer /\ before' = before /\ entitled' = entitled
    BY <1>9 DEF vars, tables
  <2>2. TypeOK'
    BY <2>1 DEF TypeOK
  <2>3. LinksFit' /\ AnswersForward' /\ TakenOK'
    BY <2>1 DEF Inv, LinksFit, Nested, Fits, Chain, AnswersForward, SameRow, TakenOK, Row, Taken
  <2>4. \A r \in Requests : (Checked(r) /\ PickOK(r) /\ StepOK(r))'
    BY <2>1 DEF Inv, Checked, Nested, Chain, PickOK, StepOK
  <2>5. \A w \in Owners, q \in Requests : (business'[w] # None /\ business'[w].by = q) => Sender(q, w)'
    BY <2>1 DEF Inv, Sender
  <2> QED BY <2>2, <2>3, <2>4, <2>5 DEF Inv
<1> QED BY <1>1, <1>2, <1>3, <1>4, <1>5, <1>6, <1>7, <1>8, <1>9 DEF Next

(* The types, and why the three properties hold: rows only take more       *)
(* writes, and what a request wrote is what it sent and had checked.       *)
THEOREM Invariance == Spec => [](TypeOK /\ Inv)
<1> QED BY InvInit, InvNext, PTL DEF Spec

(* The types of users, business_profiles, their reference tables and of    *)
(* the requests over them.                                                 *)
THEOREM Types == Spec => []TypeOK
<1> QED BY Invariance, PTL

(* No link dangles, a business is in a region of its state and a state of  *)
(* its country, and what is picked from the lists passes                   *)
(* CheckLocationExists.                                                    *)
THEOREM PlacesFit == Spec => []LinksFit
<1>1. Inv => LinksFit
  BY DEF Inv
<1> QED BY <1>1, Invariance, PTL

(* An answer of GetByID or GetUserBusinessProfile never goes back.         *)
THEOREM AnswersAreFresh == Spec => []AnswersForward
<1>1. Inv => AnswersForward
  BY DEF Inv
<1> QED BY <1>1, Invariance, PTL

(* is_verified only ever stands beside the data an administrator sent: the *)
(* owner's upsert takes it back with the row it overwrites.                *)
THEOREM OnlyAdminsVerify == Spec => []VerifiedData
<1>1. TypeOK /\ Inv => VerifiedData
  <2> SUFFICES ASSUME TypeOK, Inv, NEW u \in Owners,
                      business[u] # None, business[u].verified, business[u].by # None
               PROVE  SentBy(business[u].by, u)
    BY DEF VerifiedData
  <2> DEFINE r == business[u].by
  <2>1. r \in Requests
    BY DEF TypeOK, ProfileRow
  <2>2. Sender(r, u) /\ Checked(r)
    BY <2>1 DEF Inv
  <2> HIDE DEF r
  <2>3. call[r].op = "AdminUpdateBusinessProfile"
    BY <2>2 DEF Sender, Checked, Upserts
  <2> QED BY <2>2, <2>3 DEF Sender, SentBy, r
<1> QED BY <1>1, Invariance, PTL
===============================================================================
