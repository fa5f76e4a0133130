------------------------------- MODULE MCStores -------------------------------
(* Stores on a small instance. *)
EXTENDS Stores

CONSTANTS u1, n1

(* A hidden brand, and a published store with pictures and socials. *)
OneDraft == {[owner |-> u1, name |-> n1, published |-> FALSE, full |-> Lists]}
OneStoreDraft == {[owner |-> u1, published |-> TRUE, pictures |-> TRUE, socials |-> TRUE]}
===============================================================================
