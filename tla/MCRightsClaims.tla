--------------------------- MODULE MCRightsClaims ---------------------------
(* Small instances of RightsClaims for TLC.  Shares are thirds.            *)
EXTENDS RightsClaims, TLC

CONSTANTS r1, r2, c1, c2, u1, u2, world, period

MCSymmetry == Permutations(Claims) \cup Permutations(Users) \cup Permutations(Recordings)

=============================================================================
