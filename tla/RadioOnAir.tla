----------------------------- MODULE RadioOnAir -----------------------------
(***************************************************************************)
(* What the mastering service promises, without workers, rows or files: a  *)
(* recording has one authoritative master, a radio file is made from one   *)
(* master and never remade, a file goes on the air only when it was made   *)
(* from the master that is authoritative at that moment, and a file that   *)
(* was taken off the air never returns to it.                              *)
(***************************************************************************)
CONSTANTS Recordings, Masters, Radios, None

VARIABLES
  authoritative,   \* the chosen master of a recording
  onAir,           \* the radio file a recording was explicitly given
  retired,         \* radio files taken off the air
  madeFrom         \* the master a radio file was made from

vars == <<authoritative, onAir, retired, madeFrom>>

Init ==
  /\ authoritative = [r \in Recordings |-> None]
  /\ onAir = [r \in Recordings |-> None]
  /\ retired = {}
  /\ madeFrom = [a \in Radios |-> None]

Choose(r, m) ==
  /\ authoritative' = [authoritative EXCEPT ![r] = m]
  /\ UNCHANGED <<onAir, retired, madeFrom>>

Make(a, m) ==
  /\ madeFrom[a] = None
  /\ madeFrom' = [madeFrom EXCEPT ![a] = m]
  /\ UNCHANGED <<authoritative, onAir, retired>>

\* The file a replaces what recording r had; others retires along with it.
PutOnAir(r, a, others) ==
  /\ a \notin retired
  /\ madeFrom[a] = authoritative[r] /\ madeFrom[a] # None
  /\ \A q \in Recordings : onAir[q] # a
  /\ a \notin others
  /\ onAir[r] # None => onAir[r] \in others
  /\ \A q \in Recordings \ {r} : onAir[q] \notin others
  /\ onAir' = [onAir EXCEPT ![r] = a]
  /\ retired' = retired \cup others
  /\ UNCHANGED <<authoritative, madeFrom>>

Next ==
  \/ \E r \in Recordings, m \in Masters : Choose(r, m)
  \/ \E a \in Radios, m \in Masters : Make(a, m)
  \/ \E r \in Recordings, a \in Radios, others \in SUBSET Radios : PutOnAir(r, a, others)

Spec == Init /\ [][Next]_vars

=============================================================================
