----------------------------- MODULE ListFolds ------------------------------
(***************************************************************************)
(* What the computations do with lists.                                    *)
(***************************************************************************)
EXTENDS Sequences, SequencesExt

If(condition, list) == IF condition THEN list ELSE <<>>

\* The lists, one after another.
Concat(lists) == FoldLeft(LAMBDA all, list : all \o list, <<>>, lists)

\* What passes the test, in its order: SelectSeq, of which proofs know nothing.
Filtered(list, Test(_)) == Concat([i \in DOMAIN list |-> If(Test(list[i]), <<list[i]>>)])

\* Each element where it comes first.
EachOnce(list) ==
  FoldLeft(LAMBDA seen, x : IF x \in Range(seen) THEN seen ELSE Append(seen, x), <<>>, list)

\* A table with some of its entries replaced.
Updated(table, entries) ==
  [key \in DOMAIN table |-> IF key \in DOMAIN entries THEN entries[key] ELSE table[key]]

=============================================================================
