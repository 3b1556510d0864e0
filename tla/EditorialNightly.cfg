CONSTANTS
  Article = {a1}
  Request = {r1}
  stay = stay
  plain = plain
  Text <- MCText
  RivalTitle <- MCRivalTitle
  Event <- MCEvent
  Jobs <- MCNightly
  Batch = 2
  MaxStream = 3
  MaxFaults = 1
  MaxSaves = 2
  MaxMentions = 1
SPECIFICATION FairSpec
PROPERTIES
  FlagsConverge
CHECK_DEADLOCK FALSE
