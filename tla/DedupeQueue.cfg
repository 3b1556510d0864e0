CONSTANTS
  Place = {p1, p2, p3}
  Mention = {m1}
  Press = {d1}
  Nowhere = Nowhere
  JunkNamed = {p1, p2, p3}
  MaxEntries = 2
  Rows = 3
  g1 = g1
  g2 = g2
  Bare = Bare
  Looks <- MCLooks
SPECIFICATION PlacesSpec
SYMMETRY Interchangeable
CONSTRAINT Explored
INVARIANT QueuedIsNotMerged
\* every decision may have been taken
CHECK_DEADLOCK FALSE
