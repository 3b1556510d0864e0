CONSTANTS
  Article = {a1}
  Request = {r1}
  stay = stay
  plain = plain
  Text <- MCText
  RivalTitle <- MCRivalTitle
  Event <- MCEvent
  Jobs <- MCNoJobs
  Batch = 2
  MaxStream = 3
  MaxFaults = 0
  MaxSaves = 3
  MaxMentions = 0
SPECIFICATION Spec
INVARIANTS
  FreshWithinDelivery
CHECK_DEADLOCK FALSE
