\* Two users at once: the whole row of an edit undoes what an export wrote.
SPECIFICATION RegistrationSpec
CONSTANTS
  w1 = w1 w2 = w2 u1 = u1 u2 = u2 pub = pub new = new given = given i1 = i1
  Works = {w1, w2}
  Writers = {p1}
  Exports = {x1}
  LegacyExport = {}
  Staff = {u1, u2}
  Codes = {pub, new}
  FirstCode = pub
  GivenIds <- Given
  Iswcs = {i1}
  AckFiles <- Files
  Statuses = {"accepted"}
  Overlap = TRUE
  MaxYear = 2
  Null = Null
INVARIANT ExportedIdKept
