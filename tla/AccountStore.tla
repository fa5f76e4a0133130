----------------------------- MODULE AccountStore -----------------------------
(***************************************************************************)
(* What internal/auth promises of an account, with no request, check or    *)
(* mail goroutine in sight: it is opened with a code; a code is stored for *)
(* one account and travels to the address of that account only; a code     *)
(* that arrived there verifies the account and opens its first session;    *)
(* only then has it a username and a password; and nothing is taken back.  *)
(* Module Registration models the code and is shown to implement this one. *)
(* That an address or a username belongs to one account is not promised.   *)
(***************************************************************************)
CONSTANTS Users, Emails, Codes, Names, None

VARIABLES
  account,   \* what an account has reached, or None
  given,     \* the <<user, code>> ever stored
  arrived,   \* the <<email, code>> that reached a mailbox
  sessions   \* who ever had a session

vars == <<account, given, arrived, sessions>>

Row == [email: Emails, verified: BOOLEAN, name: Names \cup {None}, password: BOOLEAN]
Opened == {u \in Users : account[u] # None}
New(c) == \A u \in Users : <<u, c>> \notin given
Proven(u) == \E c \in Codes : <<u, c>> \in given /\ <<account[u].email, c>> \in arrived

(* Any accounts an earlier run of the server left behind. *)
Init ==
  /\ account \in [Users -> Row \cup {None}]
  /\ given \subseteq Opened \X Codes
  /\ \A g, h \in given : g[2] = h[2] => g = h
  /\ arrived = {<<account[g[1]].email, g[2]>> : g \in given}
  /\ sessions = {u \in Opened : account[u].verified}
  /\ \A u \in Opened : \/ Proven(u) /\ account[u].verified
                       \/ ~account[u].verified /\ account[u].name = None /\ ~account[u].password

Open(u, e, c) ==
  /\ account[u] = None /\ New(c)
  /\ account' = [account EXCEPT ![u] = [email |-> e, verified |-> FALSE,
                                        name |-> None, password |-> FALSE]]
  /\ given' = given \cup {<<u, c>>}
  /\ UNCHANGED <<arrived, sessions>>

(* Another code for an account. *)
Renew(u, c) ==
  /\ u \in Opened /\ New(c)
  /\ given' = given \cup {<<u, c>>}
  /\ UNCHANGED <<account, arrived, sessions>>

Arrive(u, c) ==
  /\ <<u, c>> \in given
  /\ arrived' = arrived \cup {<<account[u].email, c>>}
  /\ UNCHANGED <<account, given, sessions>>

Verify(u) ==
  /\ u \in Opened /\ Proven(u)
  /\ account' = [account EXCEPT ![u].verified = TRUE]
  /\ sessions' = sessions \cup {u}
  /\ UNCHANGED <<given, arrived>>

SetName(u, n) ==
  /\ u \in sessions
  /\ account' = [account EXCEPT ![u].name = n]
  /\ UNCHANGED <<given, arrived, sessions>>

SetPassword(u) ==
  /\ u \in sessions
  /\ account' = [account EXCEPT ![u].password = TRUE]
  /\ UNCHANGED <<given, arrived, sessions>>

Next == \E u \in Users :
          \/ \E c \in Codes : Renew(u, c) \/ Arrive(u, c) \/ \E e \in Emails : Open(u, e, c)
          \/ Verify(u) \/ SetPassword(u) \/ \E n \in Names : SetName(u, n)

Spec == Init /\ [][Next]_vars
===============================================================================
