SPECIFICATION FairSpec
CONSTANTS
  r1 = r1 r2 = r2 m1 = m1 m2 = m2 a1 = a1 a2 = a2 t1 = t1 t2 = t2 w1 = w1 w2 = w2
  Recordings = {r1}
  Masters = {m1, m2}
  Legacy = {a1}
  Targets = {t1, t2}
  LegacyRec <- MCLegacyRec
  TargetRec <- MCTargetRec
  Workers = {w1, w2}
  None = None
  NoFile = NoFile
  Foreign = Foreign
  MaxVersion = 1
  MaxFaults = 1
INVARIANTS TypeOK CurrentRadioAgrees ClaimIsExclusive VerifiedCandidate
PROPERTIES NeverOverwritten PlaybackMovesOnActivation OnAirRefinement GenerationSettles
CHECK_DEADLOCK FALSE
