-------------------------- MODULE MCRadioMastering --------------------------
(* Small instances of RadioMastering for TLC.                              *)
EXTENDS RadioMastering, TLC

CONSTANTS r1, r2, m1, m2, a1, a2, t1, t2, w1, w2

\* Two radio files of one recording, so that its fallback is ambiguous until
\* one is activated; the targets belong to the same recording.
MCLegacyRec == [a \in Legacy |-> r1]
MCTargetRec == [t \in Targets |-> r1]

MCWorkers == Permutations(Workers)

=============================================================================
