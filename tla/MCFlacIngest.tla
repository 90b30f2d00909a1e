---------------------------- MODULE MCFlacIngest ----------------------------
(***************************************************************************)
(* Small instances of FlacIngest for TLC: two files with one ISRC whose    *)
(* metadata contradict, a retagged version of the first, and a file with   *)
(* the P7UUID of a recording.                                              *)
(***************************************************************************)
EXTENDS FlacIngest, TLC

CONSTANTS r1, r2, r3, r4, ca, cb, cc, cd, ta, tb, ia, x1, x2, y1, y2

MCTags(i, u, a, t) == [isrc |-> i, uuid |-> u, audio |-> a, title |-> t]

MCTagsOf ==
  [c \in Content |->
     CASE c = ca -> MCTags(ia, None, x1, ta)
       [] c = cb -> MCTags(ia, None, x2, tb)
       [] c = cc -> MCTags(None, None, x1, ta)
       [] c = cd -> MCTags(ia, r1, x1, tb)]

\* The files at the start.
MCDisk == [p \in Path |-> IF p = 1 THEN ca ELSE cb]

\* One recording is in the database, r1 is only in a backup.
MCCatalogued == [r \in Recording |-> IF r = r2 THEN tb ELSE None]

\* Imports, assets and the recordings they create are interchangeable.
MCSymmetry == Permutations(Worker) \cup Permutations(Asset)
                \cup Permutations(Recording \ {r1, r2})
                \cup Permutations(Batch)
=============================================================================
