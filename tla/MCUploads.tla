------------------------------- MODULE MCUploads -------------------------------
(* Three uploads and a reader; the names of model values do not matter. *)
EXTENDS Uploads, TLC

Symmetry == Permutations(Senders)
===============================================================================
