------------------------------- MODULE MCLookups -------------------------------
(* Every list of up to three entries over three ids and two URLs. *)
EXTENDS Lookups

MaxLength == 3
ShortLists == UNION {[1..n -> Entry] : n \in 0..MaxLength}
===============================================================================
