CONSTANTS
  Rec <- R
  Track <- T
  Title <- MCTitle
  Isrc = {1}
  Folded <- MCFolded
  n1 = n1
  l1 = l1
  l2 = l2
  e1 = e1
  e2 = e2
  w1 = w1
  w2 = w2
  Name = {n1}
  Label = {l1, l2}
  Barcode = {1}
  Position = {1, 2, 3}
  Asset = {1}
  RecOf <- MCRecOf
  TrackOf <- MCTrackOf
  Initial <- MCInitial
  Listed <- MCListed
  Claimed <- MCClaimed
  Validity = {"ahead", "within"}
  Editor = {e1, e2}
  Worker = {w1, w2}
  MaxEdits = 2
  MaxBusy = 2
  Gone = Gone
  None = None
SYMMETRY MCSymmetry
SPECIFICATION Spec
INVARIANT TrackLinkAgrees
CHECK_DEADLOCK FALSE
