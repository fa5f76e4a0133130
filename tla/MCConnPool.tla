------------------------------ MODULE MCConnPool ------------------------------
(***************************************************************************)
(* ConnPool for three requests: any two handlers with a third that runs    *)
(* one statement, or three with queries nested in their transactions.      *)
(* Requests are interchangeable, so one order of the chosen handlers is    *)
(* enough (the run has a liveness property, for which SYMMETRY would not   *)
(* be sound).                                                              *)
(***************************************************************************)
EXTENDS ConnPool

CONSTANTS r1, r2, r3

Nested == {"register", "verify", "refresh"}
Order == <<"register", "verify", "refresh", "login", "logout", "profile", "password",
           "createBrand", "updateBrand", "deleteBrand", "createStore", "other">>
Rank(r) == CHOOSE i \in DOMAIN Order : Order[i] = call[r].op

MCInit == /\ Init
          /\ Rank(r1) <= Rank(r2)
          /\ \/ call[r3].op = "other"
             \/ call[r1].op \in Nested /\ call[r3].op \in Nested /\ Rank(r2) <= Rank(r3)

MCSpec == MCInit /\ [][Next]_vars /\ \A r \in Requests : WF_vars(Step(r))
===============================================================================
