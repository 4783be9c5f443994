----------------------------- MODULE MCNodePeers -----------------------------
EXTENDS NodePeers, TLC

CONSTANTS n1, n2, k1, k2, k3, q1, q2
TwoNodes  == {n1, n2}
TwoKeys   == {k1, k2}
ThreeKeys == {k1, k2, k3}
OneRequest  == {q1}
TwoRequests == {q1, q2}
OneCarriesAll == q1 :> Keys
EachCarriesOne == q1 :> {k1} @@ q2 :> {k2}
=============================================================================
