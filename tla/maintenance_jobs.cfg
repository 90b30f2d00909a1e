SPECIFICATION Spec
CONSTANTS
  r1 = r1 r2 = r2
  Recording = {r1, r2}
  Path = {1, 2, 3}
  Job = {j1, j2}
  Worker = {w1, w2}
  RecordingOf <- MCRecordingOf
  Scopes <- MCScopes
  MaxEvents = 2
  None = None
INVARIANTS ExecutedOnceAndClean ActiveFileListed
PROPERTIES KnowledgeIsKept
CHECK_DEADLOCK FALSE
SYMMETRY MCSymmetry
