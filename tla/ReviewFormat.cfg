CONSTANTS
  eat = eat
  drink = drink
  unknown = unknown
  news = news
  guide = guide
  None = None
  ann = ann
  bob = bob
  Term <- FormatTerms
  CmsKnows <- FormatTerms
  Sentinel = None
  Multi = FALSE
  HasField = TRUE
  Reviewer <- OneReviewer
  MaxRows = 2
  MaxEvents = 2
  MaxRuns = 2
  MaxFaults = 1
SPECIFICATION FairSpec
INVARIANTS
  EngineFollowsDecisions
  
PROPERTIES
  RunSparesSettledField
  DecisionLands
CHECK_DEADLOCK FALSE
