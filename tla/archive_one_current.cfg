SPECIFICATION ArchiveSpec
CONSTANTS
  r1 = r1 r2 = r2 r3 = r3 m1 = m1 a1 = a1 a2 = a2 t1 = t1 t2 = t2 w1 = w1 j1 = j1 j2 = j2
  Recordings = {r1, r2, r3}
  Established = {r1}
  Managed = {}
  Masters = {m1}
  Legacy = {a1, a2}
  Targets = {t1, t2}
  LegacyRec <- MCLegacyRec
  TargetRec <- MCTargetRec
  Workers = {w1}
  Jobs = {j1, j2}
  None = None
  NoFile = NoFile
  Foreign = Foreign
  MaxVersion = 0
  MaxFaults = 0
INVARIANTS OneCurrentPerRecording
CHECK_DEADLOCK FALSE
