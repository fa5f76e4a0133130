------------------------------- MODULE MCBrands -------------------------------
(* Brands on small instances. *)
EXTENDS Brands, TLC

CONSTANTS u1, u2, n1, n2

(* A published brand with all lists, a hidden one with its first list empty. *)
TwoDrafts == {[owner |-> u1, name |-> n1, published |-> TRUE, full |-> Lists],
              [owner |-> u1, name |-> n2, published |-> FALSE, full |-> Lists \ {1}]}

(* The same, and a brand of another user with the first one's name. *)
ThreeDrafts == TwoDrafts \cup
             {[owner |-> u2, name |-> n1, published |-> FALSE, full |-> Lists]}

Symmetry == Permutations(Requests)
===============================================================================
