-------------------------- MODULE RoyaltyStatement --------------------------
(***************************************************************************)
(* The distribution of one row of an incoming royalty statement over the   *)
(* controlled writers of the work it names (music_publisher:               *)
(* RoyaltyCalculation).  Every amount of the output is exact; only the     *)
(* part of a writer in the amount received is rounded, half to even, to a  *)
(* fixed number of decimals: to Unit parts of the whole (10^6 in the code).*)
(*                                                                         *)
(* Shares and fees are percentages.  A line has the writer's share of the  *)
(* work, of any sign, and the fee agreed for the work or, with the writer, *)
(* in general.                                                             *)
(***************************************************************************)
EXTENDS WriterShares

CONSTANTS
  Unit,     \* rounded parts are multiples of 1 / Unit
  Split,    \* percentage of each right that goes to the publisher
  NoFee,    \* a fee that is not entered
  NoAmount  \* an amount that is not a number

\* Hundredths of an amount are exact: 10^6 is a multiple of 100.
ASSUME UnitAssumption == Unit \in Nat \ {0} /\ Unit % 100 = 0
ASSUME SplitAssumption == Split \in [{"p", "m", "s"} -> 0..100]

-----------------------------------------------------------------------------
\* get_work_queryset: the controlled lines of all works that carry the identifier,
\* each of them once.  The dictionary they are kept in has one entry for all works
\* of an identifier.
AddControlled(lines, l) == IF l.controlled THEN Append(lines, l) ELSE lines
AddWork(lines, w, id) == IF id \in w.ids THEN FoldLeft(AddControlled, lines, w.lines) ELSE lines
LinesOf(works, id) == FoldLeft(LAMBDA lines, w : AddWork(lines, w, id), <<>>, works)

Controlled(lines) == Added([i \in DOMAIN lines |-> lines[i].share])

\* Mutant of HalfEven: amounts are cut off.
RoundedDown(n, d) == (n * Unit) \div d

\* Decimal.quantize: n / d in multiples of 1 / Unit, half to even.
HalfEven(n, d) ==
  LET q == (n * Unit) \div d
      r == (n * Unit) % d
  IN  IF 2 * r > d \/ (2 * r = d /\ q % 2 = 1) THEN q + 1 ELSE q
Rounded(n, d) == IF d < 0 THEN HalfEven(- n, - d) ELSE HalfEven(n, d)

-----------------------------------------------------------------------------
\* A fee of zero reads as none at all.
Entered(fee) == fee # NoFee /\ fee # 0
FeeOf(l, default) ==
  IF Entered(l.fee) THEN l.fee ELSE IF Entered(l.general) THEN l.general ELSE default

\* "fee": split by manuscript share and apply fees.  The amount before the fee, the
\* fee and the net amount, the last two in hundredths of the first one's unit.
ByFee(lines, amount, default) ==
  [i \in DOMAIN lines |->
     LET before == amount * Rounded(lines[i].share, Controlled(lines))
         kept   == before * FeeOf(lines[i], default)
     IN  [before |-> before, fee |-> kept, net |-> 100 * before - kept]]

\* "share": split by calculated share.  One line per writer, none when the writers
\* of the right get nothing, and a last one with the publisher's part.
ByShare(lines, amount, right) ==
  LET owned(l) == l.share * (100 - Split[right])
      net(l)   == amount * Rounded(owned(l), 100 * Controlled(lines))
  IN  (IF Split[right] = 100 THEN <<>> ELSE [i \in DOMAIN lines |-> net(lines[i])])
      \o <<(amount * Unit * Split[right]) \div 100>>

\* process_row: the output of a row, or why there is none.
ProcessRow(lines, row) ==
  IF lines = <<>> THEN [error |-> "Work not found"]
  ELSE IF row.amount = NoAmount THEN [error |-> "Invalid amount"]
  ELSE IF Controlled(lines) = 0 THEN [error |-> "Controlled share is zero"]
  ELSE IF row.algo = "fee" THEN [paid |-> ByFee(lines, row.amount, row.default)]
  ELSE [paid |-> ByShare(lines, row.amount, row.right)]

=============================================================================
