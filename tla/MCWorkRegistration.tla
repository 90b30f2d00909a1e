------------------------- MODULE MCWorkRegistration -------------------------
(* Small instances of WorkRegistration for TLC: an imported work may carry *)
(* the identifier the program would make up for another one.               *)
EXTENDS WorkRegistration, TLC

CONSTANTS w1, w2, u1, u2, pub, new, given, i1

Given == {given, AutoId(pub, w2)}
Record(id, iswc) == [id |-> id, iswc |-> iswc, status |-> "accepted"]
Files == {<<Record(AutoId(pub, w1), i1), Record(AutoId(pub, w2), i1)>>,
          <<Record(given, Null), Record(given, i1)>>}

=============================================================================
