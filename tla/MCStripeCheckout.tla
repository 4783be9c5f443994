------------------------- MODULE MCStripeCheckout -------------------------
EXTENDS StripeCheckout, TLC

CONSTANTS r1, r2
MCRequests == {r1, r2}
RequestSymmetry == Permutations(Requests)
=============================================================================
