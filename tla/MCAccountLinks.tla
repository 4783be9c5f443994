---------------------------- MODULE MCAccountLinks ----------------------------
(* Constants of the run of AccountLinks: the accounts and the workers are alike. *)
EXTENDS AccountViews, TLC

Alike == Permutations(Users) \cup Permutations(Workers)
=============================================================================
