------------------------------- MODULE MCTrials -------------------------------
EXTENDS Trials, TLC

CONSTANTS d1, w1, w2, c1
OneUser   == {1}
TwoUsers  == {1, 2}
OneDevice == {d1}
OneGrant  == {w1}
TwoGrants == {w1, w2}
OneCheck  == {c1}
NoChecks  == {}
GrantSymmetry == Permutations(Grants)
=============================================================================
