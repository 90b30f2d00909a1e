------------------------- MODULE MCArchiveMaintenance -------------------------
(***************************************************************************)
(* Small instances of ArchiveMaintenance for TLC: one recording with two   *)
(* files in different folders, and one with a single file.                 *)
(***************************************************************************)
EXTENDS ArchiveMaintenance, TLC

CONSTANTS r1, r2

MCRecordingOf == [p \in Path |-> IF p = 3 THEN r2 ELSE r1]
MCScopes == {{1, 3}}

MCSymmetry == Permutations(Worker) \cup Permutations(Job)
=============================================================================
