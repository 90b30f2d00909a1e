\* Two pages, edits, decisions, corrections, admin edits and the bulk
\* confirmation of one recording, while an import confirms its own.
SPECIFICATION SourcesSpec
CONSTANTS
  Steward = {u1, u2}
  Import = {i1}
  Assertion = {a0, a1}
  Legacy = a0
  Title = {t0, t1}
  FirstTitle = t0
  None = None
  ReviewChoices = {"REJECTED"}
  MaxRevision = 3
INVARIANTS PageIsHonest AppliedLogTrue ImportLogTrue
PROPERTY ReplacesWhatWasSeen
SYMMETRY MCSymmetry
