--------------------------- MODULE MCClaimLease ----------------------------
EXTENDS ClaimLease, TLC

CONSTANTS s1, s2, a1, a2, r1, r2

Symm == Permutations({a1, a2}) \cup Permutations({r1, r2})
=============================================================================
