----------------------------- MODULE Lookups_proofs -----------------------------
(***************************************************************************)
(* Theorems about module Lookups: the two loops and the count are right    *)
(* for every list, table and main section.                                 *)
(***************************************************************************)
EXTENDS Lookups, FiniteSetTheorems, TLAPS

USE InputAssumption, NoIdAssumption

(* Every step keeps the types. *)
LEMMA TypeStep == TypeOK /\ [Next]_vars => TypeOK'
<1> SUFFICES ASSUME TypeOK, [Next]_vars PROVE TypeOK'
  OBVIOUS
<1> USE DEF TypeOK
<1>1. CASE RemoveDuplicates
  <2>1. i \in 1..Len(listed)
    BY <1>1 DEF RemoveDuplicates
  <2>2. listed[i] \in Entry
    BY <2>1
  <2>3. listed[i].id \in Ids
    BY <2>2 DEF Entry
  <2>4. out' \in Seq(Entry)
    <3>1. out' = out \/ out' = Append(out, listed[i])
      BY <1>1 DEF RemoveDuplicates
    <3>2. Append(out, listed[i]) \in Seq(Entry)
      BY <2>2
    <3> QED BY <3>1, <3>2
  <2>5. seen' \subseteq Ids /\ i' \in Nat \ {0}
    BY <1>1, <2>3 DEF RemoveDuplicates
  <2>6. UNCHANGED <<table, main, listed, args, verdict, pc>>
    BY <1>1 DEF RemoveDuplicates
  <2> QED BY <2>4, <2>5, <2>6
<1>2. CASE Collect
  <2>1. args' \in Seq(Ids)
    BY <1>2 DEF Collect
  <2> QED BY <1>2, <2>1 DEF Collect
<1>3. CASE Gather
  <2>1. i \in 1..Len(out)
    BY <1>3 DEF Gather
  <2>2. out[i] \in Entry
    BY <2>1
  <2>3. out[i].id \in Ids
    BY <2>2 DEF Entry
  <2> QED BY <1>3, <2>3 DEF Gather
<1>4. CASE CheckExist
  BY <1>4 DEF CheckExist
<1>5. CASE UNCHANGED vars
  BY <1>5 DEF vars
<1> QED BY <1>1, <1>2, <1>3, <1>4, <1>5 DEF Next

(* One more entry is looked at: if its id is new it is the first with it. *)
LEMMA DedupStep ==
  ASSUME TypeOK, LoopInv, RemoveDuplicates
  PROVE  LoopInv'
<1>0. PICK n \in Nat, m \in Nat, len \in Nat : n = i - 1 /\ m = i /\ m = n + 1 /\ len = Len(out)
  <2>1. i \in Nat /\ i - 1 \in Nat /\ i = (i - 1) + 1
    BY DEF TypeOK
  <2>2. Len(out) \in Nat
    BY DEF TypeOK
  <2> QED BY <2>1, <2>2
<1> DEFINE e == listed[m]
<1>1. /\ pc = "dedup" /\ pc' = "dedup" /\ i' = m + 1 /\ listed' = listed
      /\ m \in 1..Len(listed) /\ Len(listed) \in Nat /\ 1..m = 1..n \cup {m} /\ i' - 1 = m
  BY <1>0 DEF TypeOK, RemoveDuplicates
<1>2. DedupOK(n)
  BY <1>0, <1>1 DEF LoopInv
<1>3. \A k \in Nat : IsFirst(k)' <=> IsFirst(k)
  BY <1>1 DEF IsFirst
<1> SUFFICES DedupOK(m)'
  BY <1>1 DEF LoopInv
<1>6. CASE e.id \in seen
  <2>1. UNCHANGED <<seen, out>>
    BY <1>0, <1>6 DEF RemoveDuplicates
  <2>2. seen' = {listed'[k].id : k \in 1..m}
    BY <1>1, <1>2, <1>6, <2>1 DEF DedupOK
  <2>3. IdsOf(out)' = seen'
    BY <1>2, <2>1 DEF DedupOK, IdsOf
  <2>4. ASSUME NEW a \in 1..Len(out) PROVE \E j \in 1..m : IsFirst(j)' /\ out[a] = listed[j]
    <3>1. PICK j \in 1..n : IsFirst(j) /\ out[a] = listed[j]
      BY <1>2 DEF DedupOK
    <3>2. j \in 1..m /\ j \in Nat
      BY <1>0
    <3> QED BY <1>3, <3>1, <3>2
  <2>5. ASSUME NEW a \in 1..Len(out), NEW b \in 1..Len(out), a < b
        PROVE  \E j, k \in 1..m : /\ j < k /\ IsFirst(j)' /\ IsFirst(k)'
                                  /\ out[a] = listed[j] /\ out[b] = listed[k]
    <3>1. PICK j \in 1..n, k \in 1..n : /\ j < k /\ IsFirst(j) /\ IsFirst(k)
                                        /\ out[a] = listed[j] /\ out[b] = listed[k]
      BY <1>2, <2>5 DEF DedupOK
    <3>2. j \in 1..m /\ k \in 1..m /\ j \in Nat /\ k \in Nat
      BY <1>0
    <3> QED BY <1>3, <3>1, <3>2
  <2> QED BY <1>1, <2>1, <2>2, <2>3, <2>4, <2>5 DEF DedupOK
<1>7. CASE e.id \notin seen
  <2>1. seen' = seen \cup {e.id} /\ out' = Append(out, e)
    BY <1>0, <1>7 DEF RemoveDuplicates
  <2>2. e \in Entry /\ out \in Seq(Entry)
    BY <1>1 DEF TypeOK
  <2>3. Len(out') = len + 1 /\ out'[len + 1] = e
    BY <1>0, <2>1, <2>2
  <2>4. \A a \in 1..len : out'[a] = out[a]
    BY <1>0, <2>1, <2>2
  <2>5. 1..Len(out') = 1..len \cup {len + 1}
    BY <2>3
  <2>6. IsFirst(m)
    <3>1. \A j \in 1..n : listed[j].id # e.id
      BY <1>2, <1>7 DEF DedupOK
    <3> QED BY <1>0, <3>1 DEF IsFirst
  <2>7. seen' = {listed'[k].id : k \in 1..m}
    <3>1. seen = {listed[k].id : k \in 1..n}
      BY <1>2 DEF DedupOK
    <3>2. {listed[k].id : k \in 1..m} = {listed[k].id : k \in 1..n} \cup {e.id}
      BY <1>1
    <3> QED BY <1>1, <2>1, <3>1, <3>2
  <2>8. IdsOf(out)' = seen'
    <3>1. IdsOf(out)' = {out'[a].id : a \in 1..len \cup {len + 1}}
      BY <2>5 DEF IdsOf
    <3>2. {out'[a].id : a \in 1..len \cup {len + 1}} = {out[a].id : a \in 1..len} \cup {e.id}
      BY <2>3, <2>4
    <3> QED BY <1>0, <1>2, <2>1, <3>1, <3>2 DEF DedupOK, IdsOf
  <2>9. ASSUME NEW a \in 1..Len(out') PROVE \E j \in 1..m : IsFirst(j)' /\ out'[a] = listed'[j]
    <3>1. CASE a \in 1..len
      BY <1>0, <1>1, <1>2, <1>3, <2>4, <3>1 DEF DedupOK
    <3>2. CASE a = len + 1
      BY <1>1, <1>3, <2>3, <2>6, <3>2
    <3> QED BY <2>5, <3>1, <3>2
  <2>10. ASSUME NEW a \in 1..Len(out'), NEW b \in 1..Len(out'), a < b
         PROVE  \E j, k \in 1..m : /\ j < k /\ IsFirst(j)' /\ IsFirst(k)'
                                   /\ out'[a] = listed'[j] /\ out'[b] = listed'[k]
    <3>1. a \in 1..len
      BY <2>3, <2>10
    <3>2. CASE b \in 1..len
      <4>1. PICK j \in 1..n, k \in 1..n : /\ j < k /\ IsFirst(j) /\ IsFirst(k)
                                          /\ out[a] = listed[j] /\ out[b] = listed[k]
        BY <1>0, <1>2, <2>10, <3>1, <3>2 DEF DedupOK
      <4>2. j \in 1..m /\ k \in 1..m /\ j \in Nat /\ k \in Nat
        BY <1>0
      <4>3. out'[a] = listed'[j] /\ out'[b] = listed'[k]
        BY <1>1, <2>4, <3>1, <3>2, <4>1
      <4> QED BY <1>3, <4>1, <4>2, <4>3
    <3>3. CASE b = len + 1
      <4>1. PICK j \in 1..n : IsFirst(j) /\ out[a] = listed[j]
        BY <1>0, <1>2, <3>1 DEF DedupOK
      <4>2. j < m /\ j \in 1..m /\ m \in 1..m
        BY <1>0, <1>1
      <4> QED BY <1>1, <1>3, <2>3, <2>4, <2>6, <3>1, <3>3, <4>1, <4>2
    <3> QED BY <2>5, <3>2, <3>3
  <2> QED BY <2>7, <2>8, <2>9, <2>10 DEF DedupOK
<1> QED BY <1>6, <1>7

(* Nothing that the first loop has left is changed afterwards. *)
LEMMA DedupStays ==
  ASSUME UNCHANGED <<listed, seen, out>>, DedupOK(Len(listed))
  PROVE  DedupOK(Len(listed))'
<1>1. \A k : IsFirst(k)' <=> IsFirst(k)
  BY DEF IsFirst
<1>2. IdsOf(out)' = IdsOf(out)
  BY DEF IdsOf
<1> QED BY <1>1, <1>2 DEF DedupOK

(* The ids that are kept are different from each other. *)
LEMMA KeptOnce ==
  ASSUME TypeOK, DedupOK(Len(listed)), NEW a \in 1..Len(out), NEW b \in 1..Len(out), a # b
  PROVE  out[a].id # out[b].id
<1>0. Len(listed) \in Nat /\ Len(out) \in Nat
  BY DEF TypeOK
<1>1. ASSUME NEW c \in 1..Len(out), NEW d \in 1..Len(out), c < d PROVE out[c].id # out[d].id
  <2>1. PICK j, k \in 1..Len(listed) : /\ j < k /\ IsFirst(j) /\ IsFirst(k)
                                       /\ out[c] = listed[j] /\ out[d] = listed[k]
    BY <1>1 DEF DedupOK
  <2>2. j \in 1..(k - 1)
    BY <1>0, <2>1
  <2> QED BY <2>1, <2>2 DEF IsFirst
<1>2. a < b \/ b < a
  BY <1>0
<1> QED BY <1>1, <1>2

(* The second loop starts with the main section, if there is one. *)
LEMMA CollectStep ==
  ASSUME TypeOK, LoopInv, Collect
  PROVE  LoopInv'
<1>1. /\ pc = "dedup" /\ pc' = "gather" /\ i - 1 = Len(listed) /\ i' = 1 /\ Len(out) \in Nat
      /\ UNCHANGED <<main, listed, seen, out>>
      /\ args' = IF main = None THEN <<>> ELSE <<main>>
  BY DEF Collect, TypeOK
<1>2. DedupOK(Len(listed))'
  BY <1>1, DedupStays DEF LoopInv
<1>3. i' - 1 = 0 /\ 1..0 = {}
  BY <1>1
<1>4. Asked' = {main} \ {None}
  BY <1>1 DEF Asked
<1>5. ArgsOK(i - 1)'
  BY <1>1, <1>3, <1>4 DEF ArgsOK
<1> QED BY <1>1, <1>2, <1>5 DEF LoopInv

(* It asks for each kept id that is not the main section's. *)
LEMMA GatherStep ==
  ASSUME TypeOK, LoopInv, Gather
  PROVE  LoopInv'
<1>0. PICK n \in Nat, m \in Nat, len \in Nat : n = i - 1 /\ m = i /\ m = n + 1 /\ len = Len(args)
  <2>1. i \in Nat /\ i - 1 \in Nat /\ i = (i - 1) + 1
    BY DEF TypeOK
  <2>2. Len(args) \in Nat
    BY DEF TypeOK
  <2> QED BY <2>1, <2>2
<1>1. /\ pc = "gather" /\ pc' = "gather" /\ i' = m + 1 /\ i' - 1 = m /\ m \in 1..Len(out)
      /\ UNCHANGED <<main, listed, seen, out>>
      /\ Len(out) \in Nat /\ 1..m = 1..n \cup {m} /\ args \in Seq(Ids)
  BY <1>0 DEF Gather, TypeOK
<1>2. out[m].id \in Ids
  <2>1. out[m] \in Entry
    BY <1>1 DEF TypeOK
  <2> QED BY <2>1 DEF Entry
<1>3. DedupOK(Len(listed)) /\ ArgsOK(n)
  BY <1>0, <1>1 DEF LoopInv
<1>4. DedupOK(Len(listed))'
  BY <1>1, <1>3, DedupStays
<1> SUFFICES ArgsOK(m)'
  BY <1>0, <1>1, <1>4 DEF LoopInv
<1>5. CASE out[m].id = main
  <2>1. args' = args
    BY <1>0, <1>5 DEF Gather
  <2>2. Asked' = Asked
    BY <2>1 DEF Asked
  <2>3. {out[k].id : k \in 1..m} = {out[k].id : k \in 1..n} \cup {main}
    BY <1>1, <1>5
  <2>4. main # None
    BY <1>2, <1>5
  <2>5. Asked' = {out'[k].id : k \in 1..m} \cup ({main'} \ {None})
    BY <1>1, <1>3, <2>2, <2>3, <2>4 DEF ArgsOK
  <2> QED BY <1>3, <2>1, <2>5 DEF ArgsOK
<1>6. CASE out[m].id # main
  <2>1. args' = Append(args, out[m].id)
    BY <1>0, <1>6 DEF Gather
  <2>2. Len(args') = len + 1 /\ args'[len + 1] = out[m].id
    BY <1>0, <1>1, <1>2, <2>1
  <2>3. \A a \in 1..len : args'[a] = args[a]
    BY <1>0, <1>1, <1>2, <2>1
  <2>4. 1..Len(args') = 1..len \cup {len + 1}
    BY <2>2
  <2>5. Asked' = Asked \cup {out[m].id}
    BY <1>0, <2>2, <2>3, <2>4 DEF Asked
  <2>6. {out[k].id : k \in 1..m} = {out[k].id : k \in 1..n} \cup {out[m].id}
    BY <1>1
  <2>7. out[m].id \notin Asked
    <3>1. \A k \in 1..n : out[k].id # out[m].id
      <4> SUFFICES ASSUME NEW k \in 1..n PROVE out[k].id # out[m].id
        OBVIOUS
      <4>1. k \in 1..Len(out) /\ k # m
        BY <1>0, <1>1
      <4> QED BY <1>1, <1>3, <4>1, KeptOnce
    <3> QED BY <1>3, <1>6, <3>1 DEF ArgsOK
  <2>8. \A a \in 1..len : args'[a] # out[m].id
    BY <1>0, <2>3, <2>7 DEF Asked
  <2>9. \A a, b \in 1..Len(args') : a # b => args'[a] # args'[b]
    BY <1>0, <1>3, <2>2, <2>3, <2>4, <2>8 DEF ArgsOK
  <2>10. Asked' = {out'[k].id : k \in 1..m} \cup ({main'} \ {None})
    BY <1>1, <1>3, <2>5, <2>6 DEF ArgsOK
  <2> QED BY <2>9, <2>10 DEF ArgsOK
<1> QED BY <1>5, <1>6

(* Every step keeps the loop invariants. *)
LEMMA LoopStep == TypeOK /\ LoopInv /\ [Next]_vars => LoopInv'
<1> SUFFICES ASSUME TypeOK, LoopInv, [Next]_vars PROVE LoopInv'
  OBVIOUS
<1>1. ASSUME UNCHANGED <<table, main, listed, i, seen, out, args>>
      PROVE  /\ \A k \in {i - 1, Len(listed)} : DedupOK(k) => DedupOK(k)'
             /\ ArgsOK(i - 1) => ArgsOK(i - 1)'
             /\ Asked' = Asked
  <2>1. \A k : IsFirst(k)' <=> IsFirst(k)
    BY <1>1 DEF IsFirst
  <2>2. IdsOf(out)' = IdsOf(out) /\ Asked' = Asked
    BY <1>1 DEF IdsOf, Asked
  <2>3. ASSUME NEW k, DedupOK(k) PROVE DedupOK(k)'
    BY <1>1, <2>1, <2>2, <2>3 DEF DedupOK
  <2>4. ArgsOK(i - 1) => ArgsOK(i - 1)'
    BY <1>1, <2>2 DEF ArgsOK
  <2> QED BY <2>2, <2>3, <2>4
<1>2. CASE CheckExist
  <2>1. /\ pc = "gather" /\ pc' = "done" /\ i = Len(out) + 1
        /\ UNCHANGED <<table, main, listed, i, seen, out, args>>
        /\ verdict' = (args = <<>> \/ Cardinality(table \cap Asked) = Len(args))
    BY <1>2 DEF CheckExist
  <2> QED BY <1>1, <2>1 DEF LoopInv
<1>3. CASE UNCHANGED vars
  <2>1. UNCHANGED <<table, main, listed, i, seen, out, args, verdict, pc>>
    BY <1>3 DEF vars
  <2> QED BY <1>1, <2>1 DEF LoopInv
<1> QED BY <1>2, <1>3, DedupStep, CollectStep, GatherStep DEF Next

(* The invariants hold of every list, table and main section. *)
THEOREM Loops == Spec => [](TypeOK /\ LoopInv)
<1>1. Init => TypeOK /\ LoopInv
  <2> SUFFICES ASSUME Init PROVE TypeOK /\ LoopInv
    OBVIOUS
  <2>1. /\ listed \in Seq(Entry) /\ i = 1 /\ pc = "dedup" /\ seen = {} /\ out = <<>> /\ Len(listed) \in Nat
        /\ i - 1 = 0 /\ 1..0 = {} /\ Len(out) = 0
    BY DEF Init
  <2>2. TypeOK
    <3>1. out \in Seq(Entry) /\ args \in Seq(Ids)
      BY DEF Init
    <3>2. table \subseteq Ids /\ main \in Ids \cup {None} /\ verdict \in BOOLEAN
      BY DEF Init
    <3> QED BY <2>1, <3>1, <3>2 DEF TypeOK
  <2>3. DedupOK(0)
    BY <2>1 DEF DedupOK, IdsOf
  <2> QED BY <2>1, <2>2, <2>3 DEF LoopInv
<1> QED BY <1>1, TypeStep, LoopStep, PTL DEF Spec

(* The loops build lists of ids and entries, at most as long as the body's. *)
THEOREM Types == Spec => []TypeOK
<1> QED BY Loops, PTL

(* What is kept is what was sent, each id once and the first of it. *)
THEOREM KeepsFirsts == Spec => []Kept
<1>1. TypeOK /\ LoopInv => Kept
  <2> SUFFICES ASSUME TypeOK, LoopInv, pc # "dedup" PROVE Kept
    BY DEF Kept
  <2>1. DedupOK(Len(listed))
    BY DEF LoopInv
  <2> QED BY <2>1 DEF DedupOK, Kept, IdsOf
<1> QED BY <1>1, Loops, PTL

(* As the ids that are asked for differ, there are as many as arguments. *)
LEMMA AskedCount ==
  ASSUME TypeOK, NEW n, ArgsOK(n)
  PROVE  IsFiniteSet(Asked) /\ Cardinality(Asked) = Len(args)
<1>1. Len(args) \in Nat /\ DOMAIN args = 1..Len(args)
  BY DEF TypeOK
<1>2. IsFiniteSet(1..Len(args)) /\ Cardinality(1..Len(args)) = Len(args)
  <2>1. PICK len \in Nat : len = Len(args)
    BY <1>1
  <2>2. IsFiniteSet(1..len) /\ Cardinality(1..len) = IF 1 > len THEN 0 ELSE len - 1 + 1
    BY FS_Interval
  <2> QED BY <2>1, <2>2
<1> DEFINE f == [k \in 1..Len(args) |-> args[k]]
<1>3. f \in Surjection(1..Len(args), Asked)
  BY DEF Surjection, Asked
<1>4. f \in Injection(1..Len(args), Asked)
  BY DEF Injection, IsInjective, Asked, ArgsOK
<1> QED BY <1>2, <1>3, <1>4, FS_Surjection

(* Comparing a COUNT with a length tells exactly whether all references      *)
(* exist, since the two loops leave no id twice.                           *)
THEOREM CountingIsExact == Spec => []ExactCheck
<1>1. TypeOK /\ LoopInv => ExactCheck
  <2> SUFFICES ASSUME TypeOK, LoopInv, pc = "done"
               PROVE  verdict <=> IdsOf(listed) \cup ({main} \ {None}) \subseteq table
    BY DEF ExactCheck
  <2>1. DedupOK(Len(listed)) /\ ArgsOK(Len(out))
    BY DEF LoopInv, TypeOK
  <2>2. Asked = IdsOf(listed) \cup ({main} \ {None})
    BY <2>1 DEF DedupOK, ArgsOK, IdsOf
  <2>3. IsFiniteSet(Asked) /\ Cardinality(Asked) = Len(args)
    BY <2>1, AskedCount
  <2>4. Cardinality(table \cap Asked) = Cardinality(Asked) <=> Asked \subseteq table
    BY <2>3, FS_Subset
  <2>5. args = <<>> => Asked = {}
    BY DEF Asked
  <2> QED BY <2>2, <2>3, <2>4, <2>5 DEF LoopInv
<1> QED BY <1>1, Loops, PTL
===============================================================================
