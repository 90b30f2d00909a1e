\* Two works and three exports, one request at a time.
SPECIFICATION RegistrationSpec
CONSTANTS
  w1 = w1 w2 = w2 u1 = u1 u2 = u2 pub = pub new = new given = given i1 = i1
  Works = {w1, w2}
  Writers = {p1}
  Exports = {x1, x2, x3}
  LegacyExport = {x3}
  Staff = {u1}
  Codes = {pub, new}
  FirstCode = pub
  GivenIds <- Given
  Iswcs = {i1}
  AckFiles <- Files
  Statuses = {"accepted"}
  Overlap = FALSE
  MaxYear = 2
  Null = Null
INVARIANTS NumbersUnique ExportedIdKept AcknowledgedOnce
