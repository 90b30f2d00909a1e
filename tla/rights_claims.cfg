\* Two claims of two thirds, or of no known extent, on two recordings, decided by two users.
SPECIFICATION Spec
CONSTANTS
  r1 = r1 r2 = r2 c1 = c1 c2 = c2 u1 = u1 u2 = u2 world = world period = period
  Recordings = {r1, r2}
  Claims = {c1, c2}
  Users = {u1, u2}
  Scopes = {world, period}
  WorldScope = world
  Shares = {2}
  Whole = 3
  Verdicts = {"confirmed", "rejected"}
  None = None
INVARIANTS ConfirmedWithinWhole
PROPERTIES DecisionsSettleStatus
SYMMETRY MCSymmetry
