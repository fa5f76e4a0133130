------------------------------ MODULE MCProfiles ------------------------------
(* Profiles on a small instance. *)
EXTENDS Profiles, TLC

CONSTANTS c1, c2, s1, g1

OneRegion == (s1 :> c1) @@ (g1 :> s1)

(* A place, a region of another country, no place, a region without a country. *)
Place(c, s, g) == [k \in Kinds |-> CASE k = "country" -> c [] k = "state" -> s [] k = "region" -> g]
FourForms == {Place(c, s1, g1) : c \in {c1, c2, None}} \cup {NoLinks}

Symmetry == Permutations(Requests) \cup Permutations(Owners) \cup Permutations(Users \ Owners)

(* Of a request that was refused nothing is left but when it ended. *)
View == <<refs, users, business, admins, pc,
          [r \in Requests |-> IF pc[r] = "refused" THEN NoCall ELSE call[r]], answer, before,
          {r \in entitled : pc[r] # "refused"}>>
===============================================================================
