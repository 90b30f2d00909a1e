---------------------------- MODULE MCMusicDesk -----------------------------
(* A release with two tracks; the recording of the first is governed and has *)
(* a linked radio file.                                                      *)
EXTENDS MusicDesk, TLC

CONSTANTS n1, l1, l2, e1, e2, w1, w2

R == 1..3
T == 1..3
MCTitle == {"song", "Song", "tune"}
MCFolded == [x \in MCTitle \cup {n1, l1, l2} |-> IF x = "Song" THEN "song" ELSE x]
MCInitial == [r \in R |->
  IF r = 1 THEN [title |-> "song", isrc |-> None, credit |-> None]
  ELSE IF r = 2 THEN [title |-> "tune", isrc |-> None, credit |-> n1] ELSE None]
MCListed == [t \in T |-> IF t = 3 THEN None ELSE t]
MCClaimed == [r \in R |-> IF r = 1 THEN "confirmed" ELSE "none"]
\* Nothing tells the editors, the workers or the titles of the release from
\* each other.
MCSymmetry == Permutations({e1, e2}) \cup Permutations({w1, w2}) \cup Permutations({l1, l2})
MCRecOf == [a \in {1} |-> 1]
MCTrackOf == [a \in {1} |-> 1]

=============================================================================
