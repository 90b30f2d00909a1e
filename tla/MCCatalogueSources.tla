-------------------------- MODULE MCCatalogueSources --------------------------
(***************************************************************************)
(* Small instances of CatalogueSources for TLC.  Assertions created later, *)
(* stewards and imports are interchangeable.                               *)
(***************************************************************************)
EXTENDS CatalogueSources, TLC

MCSymmetry == Permutations(Assertion \ {Legacy}) \cup Permutations(Steward)
                \cup Permutations(Import)
=============================================================================
