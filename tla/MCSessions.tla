------------------------------ MODULE MCSessions ------------------------------
(* Sessions on small sets; the values are in the .cfg files. *)
EXTENDS Sessions, TLC

(* Old tokens and requests are interchangeable: the safety run uses it. *)
Symmetry == Permutations(OldTokens) \cup Permutations(Requests)
===============================================================================
