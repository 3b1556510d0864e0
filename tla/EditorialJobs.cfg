CONSTANTS
  Article = {a1, a2}
  Request = {r1}
  stay = stay
  plain = plain
  Text <- MCText
  RivalTitle <- MCRivalTitle
  Event <- MCEvent
  Jobs <- MCJobs
  Batch = 2
  MaxStream = 2
  MaxFaults = 0
  MaxSaves = 2
  MaxMentions = 0
SPECIFICATION Spec
INVARIANTS
  PublishedIsIndexed
CHECK_DEADLOCK FALSE
