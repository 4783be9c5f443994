------------------------------ MODULE MCSignIns ------------------------------
(***************************************************************************)
(* Constants of the runs of SignIns.  One person has a Google account whose*)
(* Firebase user has taken an Apple id since (Merged), and the Apple id    *)
(* with a relay address; another has a Google account, whose address a     *)
(* request body may give.                                                  *)
(***************************************************************************)
EXTENDS SignIns, TLC

Alike == Permutations(Accounts) \cup Permutations(Requests)

CONSTANTS g1, g2, f1, a1, e1, e2, r1

Token(u, e, a) == [uid |-> u, email |-> e, apple |-> a]
Merged   == Token(g1, e1, a1)
Relay    == Token(f1, r1, a1)
Stranger == Token(g2, e2, Null)

AllFirebase == {Merged, Relay, Stranger}
AllApple    == {[apple |-> a1, email |-> r1], [apple |-> a1, email |-> Null]}
AllWritten  == {e2, Null}
=============================================================================
