-------------------------- MODULE MCSpecLifecycle ---------------------------
EXTENDS SpecLifecycle, TLC

CONSTANTS q1, q2

\* The edge that clients name beside the supersedes of specs 1 and 2.
OneEdge == {<<2, 1>>}

Symm == Permutations({q1, q2})
=============================================================================
