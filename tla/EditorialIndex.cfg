CONSTANTS
  Article = {a1}
  Request = {r1, r2}
  stay = stay
  plain = plain
  Text <- MCText
  RivalTitle <- MCRivalTitle
  Event <- MCEvent
  Jobs <- MCNoJobs
  Batch = 2
  MaxStream = 3
  MaxFaults = 1
  MaxSaves = 3
  MaxMentions = 0
SPECIFICATION Spec
SYMMETRY Symmetry
INVARIANTS
  TypeOK
  PublishedIsIndexed
  
  EmbeddedWasLive
CHECK_DEADLOCK FALSE
