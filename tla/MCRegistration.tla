---------------------------- MODULE MCRegistration ----------------------------
(* Registration on a small instance. *)
EXTENDS Registration, TLC

(* Requests, old users, addresses and usernames are interchangeable. *)
Symmetry == Permutations(Requests) \cup Permutations(OldUsers)
              \cup Permutations(Emails) \cup Permutations(Names)
===============================================================================
