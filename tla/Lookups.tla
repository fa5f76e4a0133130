-------------------------------- MODULE Lookups --------------------------------
(***************************************************************************)
(* How a request's list of references (states, market sections, socials)   *)
(* is made free of duplicates, joined by the brand's main section, and     *)
(* checked against its reference table by comparing a COUNT with a length: *)
(* utils.RemoveDuplicates, the two ToDomain, validateBrandData and         *)
(* validateStoreData, and the repositories' Check...Exist.                 *)
(***************************************************************************)
EXTENDS Naturals, Sequences, FiniteSets

CONSTANTS
  Ids,
  Urls,    \* what an entry says of its id: a social's URL
  Inputs,  \* the lists that requests may send
  None

Entry == [id: Ids, url: Urls]

ASSUME InputAssumption == Inputs \subseteq Seq(Entry)
ASSUME NoIdAssumption == None \notin Ids

VARIABLES
  table,   \* the ids in the reference table, which no request writes
  main,    \* the brand's main section, for a list of sub-sections, or None
  listed,  \* the list as it was sent
  i,       \* the next entry the loop looks at
  seen,    \* the ids it has met
  out,     \* the entries it has kept
  args,    \* the ids the query asks for
  verdict, \* whether the reference check lets the request pass
  pc

vars == <<table, main, listed, i, seen, out, args, verdict, pc>>

IdsOf(s) == {s[k].id : k \in 1..Len(s)}
Asked == {args[k] : k \in 1..Len(args)}

Init ==
  /\ table \in SUBSET Ids
  /\ main \in Ids \cup {None}
  /\ listed \in Inputs
  /\ i = 1
  /\ seen = {}
  /\ out = <<>>
  /\ args = <<>>
  /\ verdict = FALSE
  /\ pc = "dedup"

(* A later entry replaces an earlier one with its id. *)
BugLastWins ==
  /\ pc = "dedup" /\ i <= Len(listed)
  /\ LET e == listed[i]
         known == {k \in 1..Len(out) : out[k].id = e.id}
     IN  /\ seen' = seen \cup {e.id}
         /\ out' = IF known = {} THEN Append(out, e)
                   ELSE [k \in 1..Len(out) |-> IF k \in known THEN e ELSE out[k]]
  /\ i' = i + 1
  /\ UNCHANGED <<table, main, listed, args, verdict, pc>>

(* The loop of RemoveDuplicates, and of ToDomain over the socials. *)
RemoveDuplicates ==
  /\ pc = "dedup" /\ i <= Len(listed)
  /\ LET e == listed[i]
     IN  IF e.id \in seen THEN UNCHANGED <<seen, out>>
                          ELSE seen' = seen \cup {e.id} /\ out' = Append(out, e)
  /\ i' = i + 1
  /\ UNCHANGED <<table, main, listed, args, verdict, pc>>

(* A list without a main section is taken for one with it. *)
BugMainAlways ==
  /\ pc = "dedup" /\ i = Len(listed) + 1
  /\ i' = 1
  /\ args' = <<main>>
  /\ pc' = "gather"
  /\ UNCHANGED <<table, main, listed, seen, out, verdict>>

(* The main section leads the query's arguments. *)
Collect ==
  /\ pc = "dedup" /\ i = Len(listed) + 1
  /\ i' = 1
  /\ args' = IF main = None THEN <<>> ELSE <<main>>
  /\ pc' = "gather"
  /\ UNCHANGED <<table, main, listed, seen, out, verdict>>

(* The main section is asked for twice if it is also listed. *)
BugMainTwice ==
  /\ pc = "gather" /\ i <= Len(out)
  /\ args' = Append(args, out[i].id)
  /\ i' = i + 1
  /\ UNCHANGED <<table, main, listed, seen, out, verdict, pc>>

Gather ==
  /\ pc = "gather" /\ i <= Len(out)
  /\ args' = IF out[i].id = main THEN args ELSE Append(args, out[i].id)
  /\ i' = i + 1
  /\ UNCHANGED <<table, main, listed, seen, out, verdict, pc>>

(* SELECT COUNT(id) FROM ... WHERE id IN (...), unless there is nothing to ask. *)
CheckExist ==
  /\ pc = "gather" /\ i = Len(out) + 1
  /\ verdict' = (args = <<>> \/ Cardinality(table \cap Asked) = Len(args))
  /\ pc' = "done"
  /\ UNCHANGED <<table, main, listed, i, seen, out, args>>

Next == RemoveDuplicates \/ Collect \/ Gather \/ CheckExist

Spec == Init /\ [][Next]_vars

-------------------------------------------------------------------------------
TypeOK ==
  /\ table \subseteq Ids /\ main \in Ids \cup {None}
  /\ listed \in Seq(Entry) /\ out \in Seq(Entry) /\ args \in Seq(Ids)
  /\ i \in Nat \ {0} /\ seen \subseteq Ids
  /\ verdict \in BOOLEAN /\ pc \in {"dedup", "gather", "done"}

(* Entry e of the list is the first with its id. *)
IsFirst(k) == \A j \in 1..(k - 1) : listed[j].id # listed[k].id

(* What is kept for the INSERTs: of each id that was sent its first entry,   *)
(* in the order they were sent, and each once, so that no batch violates   *)
(* the primary key of a child table.                                       *)
Kept ==
  pc # "dedup" =>
    /\ IdsOf(out) = IdsOf(listed)
    /\ \A a, b \in 1..Len(out) : a < b =>
         \E j, k \in 1..Len(listed) : /\ j < k /\ IsFirst(j) /\ IsFirst(k)
                                      /\ out[a] = listed[j] /\ out[b] = listed[k]
    /\ \A a \in 1..Len(out) : \E j \in 1..Len(listed) : IsFirst(j) /\ out[a] = listed[j]

(* Counting is exact: a request passes if and only if every reference it     *)
(* makes, the main section's included, is in the table.  Duplicates in the  *)
(* list, and a main section that is listed as well, do not make it fail.    *)
ExactCheck ==
  pc = "done" => (verdict <=> IdsOf(listed) \cup ({main} \ {None}) \subseteq table)

(* The loop invariants: what the first i - 1 entries have left, and which    *)
(* ids the query asks for so far, each once.                               *)
DedupOK(n) ==
  /\ seen = {listed[k].id : k \in 1..n}
  /\ IdsOf(out) = seen
  /\ \A a, b \in 1..Len(out) : a < b =>
       \E j, k \in 1..n : /\ j < k /\ IsFirst(j) /\ IsFirst(k)
                          /\ out[a] = listed[j] /\ out[b] = listed[k]
  /\ \A a \in 1..Len(out) : \E j \in 1..n : IsFirst(j) /\ out[a] = listed[j]

ArgsOK(n) ==
  /\ Asked = {out[k].id : k \in 1..n} \cup ({main} \ {None})
  /\ \A a, b \in 1..Len(args) : a # b => args[a] # args[b]

LoopInv ==
  /\ pc = "dedup" => i <= Len(listed) + 1 /\ DedupOK(i - 1)
  /\ pc # "dedup" => DedupOK(Len(listed)) /\ i <= Len(out) + 1 /\ ArgsOK(i - 1)
  /\ pc = "done" => i = Len(out) + 1 /\ verdict = (args = <<>> \/ Cardinality(table \cap Asked) = Len(args))
===============================================================================
