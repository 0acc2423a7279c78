CONSTANTS
  b1 = b1
  b2 = b2
  b3 = b3
  a = a
  c = c
  d = d
  v1 = v1
  v2 = v2
  Rows = {1, 2, 3, 4, 5}
  Files = {1, 2, 3, 4, 5, 6}
  Brews = {b1, b2, b3}
  Utility = {}
  Words = {a, c, d}
  Versions = {v1, v2}
  NoBrew = NoBrew
  NoDoc = NoDoc
  NoVersion = NoVersion
  NoRow = 0
  NoFile = 0
  MaxFailures = 2
  Quiet = 2
  Scenes <- MCScenes
SYMMETRY MCSymmetry
SPECIFICATION Spec
INVARIANTS ListOK Settles
PROPERTIES NothingLost NeverUnasked SelectionStays ResetIsAsked
