----------------------------- MODULE MarketStore -----------------------------
(***************************************************************************)
(* What internal/market promises of brands and stores together: a brand    *)
(* keeps its owner for life, a store is opened once, whole, on a brand of  *)
(* its owner, stays as it is, and goes with the brand and only with it, in *)
(* one step.  Module Stores models the code and is shown to implement it.  *)
(***************************************************************************)
EXTENDS BrandStore

CONSTANTS Users, Shops

VARIABLES
  owners,  \* whose each brand is
  shops,   \* the stores
  opened   \* those that ever were

marketVars == <<vars, owners, shops, opened>>

(* Socials are only stored with pictures. *)
Parts == {{"row"}, {"row", "pics"}, {"row", "pics", "socs"}}
Shop(b, p) == [brand |-> b, owner |-> owners[b], parts |-> p]

MarketInit ==
  /\ Init
  /\ owners \in [Brands -> Users \cup {None}]
  /\ \A b \in Brands : owners[b] = None <=> store[b] = None
  /\ opened \subseteq Shops
  /\ \E brand \in [opened -> {b \in Brands : store[b] # None}], parts \in [opened -> Parts] :
       shops = [s \in Shops |-> IF s \in opened THEN Shop(brand[s], parts[s]) ELSE None]

CreateBrand(b, u) ==
  /\ Create(b)
  /\ owners' = [owners EXCEPT ![b] = u]
  /\ UNCHANGED <<shops, opened>>

UpdateBrand(b, w) == Replace(b, w) /\ UNCHANGED <<owners, shops, opened>>

DeleteBrand(b) ==
  /\ Delete(b)
  /\ owners' = [owners EXCEPT ![b] = None]
  /\ shops' = [s \in Shops |-> IF shops[s] # None /\ shops[s].brand = b THEN None ELSE shops[s]]
  /\ UNCHANGED opened

CreateShop(s, b, p) ==
  /\ s \notin opened
  /\ store[b] # None
  /\ shops' = [shops EXCEPT ![s] = Shop(b, p)]
  /\ opened' = opened \cup {s}
  /\ UNCHANGED <<vars, owners>>

MarketNext ==
  \E b \in Brands :
    \/ \E u \in Users : CreateBrand(b, u)
    \/ \E w \in Brands : UpdateBrand(b, w)
    \/ DeleteBrand(b)
    \/ \E s \in Shops, p \in Parts : CreateShop(s, b, p)

MarketSpec == MarketInit /\ [][MarketNext]_marketVars
===============================================================================
