-------------------------- MODULE OwnershipSummary --------------------------
(***************************************************************************)
(* The conclusion the overviews draw from the ownership claims of one      *)
(* recording (rights/summaries): who owns the master, as far as confirmed  *)
(* claims tell.                                                            *)
(*                                                                         *)
(* claims maps identities to ownership claims.  A claim has the status of  *)
(* its decision, the holder, the share (Unstated when it is not known),    *)
(* whether it is for the whole world, and whether its period covers the    *)
(* day that is asked about.  local is the local organisation, or Nobody    *)
(* when there is not exactly one.                                          *)
(***************************************************************************)
EXTENDS Integers, FiniteSets, FiniteSetsExt

CONSTANTS
  Unstated,   \* the share of a claim of unknown extent
  Nobody      \* no local organisation

Statuses == {"unverified", "confirmed", "disputed", "rejected", "superseded"}
Categories == {"full", "partial", "not_owned", "unresolved", "disputed"}

-----------------------------------------------------------------------------
\* The claims that count on the day.
Active(claims) ==
  {c \in DOMAIN claims : claims[c].status \notin {"rejected", "superseded"} /\ claims[c].current}

\* Mutant of Confirmed: what nobody disputes counts.
Asserted(claims) == {c \in Active(claims) : claims[c].status # "disputed"}

Confirmed(claims) == {c \in Active(claims) : claims[c].status = "confirmed"}

LocalClaims(claims, local) == {c \in Confirmed(claims) : claims[c].holder = local}
OtherClaims(claims, local) == Confirmed(claims) \ LocalClaims(claims, local)

Known(claims, cs) == {c \in cs : claims[c].share # Unstated}
World(claims, cs) == {c \in cs : claims[c].world}
TotalShare(claims, cs) == MapThenSumSet(LAMBDA c : claims[c].share, Known(claims, cs))
WorldTotal(claims, cs) == TotalShare(claims, World(claims, cs))

\* Every claim of the set is worldwide and stated, and together they are the whole.
MakesWhole(claims, cs) ==
  World(claims, cs) = cs /\ Known(claims, cs) = cs /\ TotalShare(claims, cs) = 100

\* Confirmed claims that cannot all hold.
Conflicting(claims, local) ==
  LET mine == LocalClaims(claims, local)
      theirs == OtherClaims(claims, local)
  IN  \/ WorldTotal(claims, mine) + WorldTotal(claims, theirs) > 100
      \/ WorldTotal(claims, mine) >= 100 /\ theirs # {}
      \/ WorldTotal(claims, theirs) >= 100 /\ mine # {}

Contested(claims) == \E c \in Active(claims) : claims[c].status = "disputed"

\* classify_ownership.
Category(claims, local) ==
  LET mine == LocalClaims(claims, local)
      theirs == OtherClaims(claims, local)
      silent == Confirmed(claims) = {} \/ local = Nobody
  IN  IF Contested(claims) THEN "disputed"
      ELSE IF silent THEN "unresolved"
      ELSE IF Conflicting(claims, local) THEN "disputed"
      ELSE IF MakesWhole(claims, mine) /\ theirs = {} THEN "full"
      ELSE IF mine # {} THEN "partial"
      ELSE IF MakesWhole(claims, theirs) THEN "not_owned"
      ELSE "unresolved"

=============================================================================
