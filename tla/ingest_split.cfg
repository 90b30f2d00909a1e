SPECIFICATION Spec
CONSTANTS
  r1 = r1 r2 = r2 r3 = r3 r4 = r4 ca = ca cb = cb cc = cc cd = cd
  ta = ta tb = tb ia = ia x1 = x1 x2 = x2 y1 = y1 y2 = y2
  Path = {1, 2}
  Content = {ca, cb}
  TagsOf <- MCTagsOf
  OnDisk <- MCDisk
  Recording = {r1, r2, r3, r4}
  Asset = {y1, y2}
  Batch = {b1, b2}
  Worker = {w1}
  Isrc = {ia}
  Title = {ta, tb}
  Audio = {x1, x2}
  Catalogued <- MCCatalogued
  Forced = {FALSE}
  Recovery = {TRUE}
  MaxEvents = 2
  None = None
PROPERTIES SplitIsKept
CHECK_DEADLOCK FALSE
SYMMETRY MCSymmetry
