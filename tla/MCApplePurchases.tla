--------------------------- MODULE MCApplePurchases ---------------------------
(***************************************************************************)
(* Constants of the runs of ApplePurchases: two accounts, and a third that *)
(* is registered with the address of the first once that is deleted.       *)
(***************************************************************************)
EXTENDS ApplePurchases, TLC

CONSTANTS a1, a2, b, r1, r2

AllUsers == {a1, a2, b}
SubscriptionIds == {r1, r2}

\* The two accounts of one address, the workers and the ids are alike.
Alike == Permutations({a1, a2}) \cup Permutations(Workers) \cup Permutations(SubscriptionIds)

Mail == (a1 :> "a") @@ (a2 :> "a") @@ (b :> "b")
=============================================================================
