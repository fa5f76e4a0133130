------------------------------ MODULE BrandStore ------------------------------
(***************************************************************************)
(* What internal/market/brand promises of its tables: a brand is one       *)
(* thing, its row and its lists written together by one request, each      *)
(* request writes at most once, and a deleted brand does not come back.    *)
(***************************************************************************)
CONSTANTS
  Brands,  \* identities of brands, and of the requests that write them
  Lists,   \* the child tables
  None

VARIABLES
  store,   \* the brands
  used     \* those who have written

vars == <<store, used>>

(* What w writes: the lists of "full" are not empty. *)
Whole(w, full) ==
  [row |-> w, lists |-> [i \in Lists |-> IF i \in full THEN {w} ELSE {}]]

Init ==
  /\ used \subseteq Brands
  /\ \E full \in [used -> SUBSET Lists] :
       store = [b \in Brands |-> IF b \in used THEN Whole(b, full[b]) ELSE None]

Write(b, w) ==
  /\ w \notin used
  /\ \E full \in SUBSET Lists : store' = [store EXCEPT ![b] = Whole(w, full)]
  /\ used' = used \cup {w}

Create(b) == store[b] = None /\ Write(b, b)
Replace(b, w) == store[b] # None /\ Write(b, w)
Delete(b) ==
  /\ store[b] # None
  /\ store' = [store EXCEPT ![b] = None]
  /\ UNCHANGED used

Next == \E b \in Brands : Create(b) \/ Delete(b) \/ \E w \in Brands : Replace(b, w)

Spec == Init /\ [][Next]_vars
===============================================================================
