----------------------------- MODULE SessionStore -----------------------------
(***************************************************************************)
(* What the "sessions" table promises to its callers, with no request,    *)
(* transaction or lock in sight: one refresh token per user and user      *)
(* agent, a token is stored at most once, and a rotation takes the old     *)
(* token out and puts the new one in as one step.  Module Sessions models  *)
(* the code and is shown to implement this module.                         *)
(***************************************************************************)
CONSTANTS Users, Agents, Tokens, None

VARIABLES row,        \* the token stored for a user and user agent, or None
          issued,     \* every token that has ever been stored
          exchanged,  \* the pairs <<old token, new token>> of all rotations
          revoked     \* the tokens logouts took out

vars == <<row, issued, exchanged, revoked>>

Keys == Users \X Agents
Stored == {row[k] : k \in Keys} \ {None}

Init == /\ row \in [Keys -> Tokens \cup {None}]
        /\ \A j, k \in Keys : row[j] = row[k] /\ row[j] # None => j = k
        /\ issued = Stored
        /\ exchanged = {}
        /\ revoked = {}

(* A login or a verified registration: the key's previous token, if any, is *)
(* replaced.                                                                *)
Issue(k, n) == /\ n \notin issued
               /\ row' = [row EXCEPT ![k] = n]
               /\ issued' = issued \cup {n}
               /\ UNCHANGED <<exchanged, revoked>>

(* A refresh: the token of key j is exchanged for n, stored under a key of *)
(* the same user.                                                           *)
Rotate(j, k, n) == /\ row[j] # None
                   /\ j[1] = k[1]
                   /\ n \notin issued
                   /\ row' = [row EXCEPT ![j] = None, ![k] = n]
                   /\ issued' = issued \cup {n}
                   /\ exchanged' = exchanged \cup {<<row[j], n>>}
                   /\ UNCHANGED revoked

(* A logout. *)
Revoke(k) == /\ row[k] # None
             /\ row' = [row EXCEPT ![k] = None]
             /\ revoked' = revoked \cup {row[k]}
             /\ UNCHANGED <<issued, exchanged>>

Next == \/ \E k \in Keys : Revoke(k)
        \/ \E k \in Keys, n \in Tokens : Issue(k, n)
        \/ \E j, k \in Keys, n \in Tokens : Rotate(j, k, n)

Spec == Init /\ [][Next]_vars
===============================================================================
