--------------------------- MODULE MCRadioArchive ---------------------------
(* Small instances of RadioArchive for TLC.                                *)
EXTENDS RadioArchive

CONSTANTS r1, r2, r3, m1, a1, a2, t1, t2, w1, j1, j2

MCLegacyRec == [a \in Legacy |-> r1]
MCTargetRec == [t \in Targets |-> r1]

=============================================================================
