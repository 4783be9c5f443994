---------------------------- MODULE MCStripeEvents ----------------------------
(***************************************************************************)
(* Constants of the runs of StripeEvents.                                  *)
(***************************************************************************)
EXTENDS StripeEvents, TLC

AlikeHooks == Permutations(Hooks)
=============================================================================
