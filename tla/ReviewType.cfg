CONSTANTS
  eat = eat
  drink = drink
  unknown = unknown
  news = news
  guide = guide
  None = None
  ann = ann
  bob = bob
  Term <- AllTypeTerms
  CmsKnows <- KnownTypeTerms
  Sentinel = unknown
  Multi = FALSE
  HasField = TRUE
  Reviewer <- TwoReviewers
  MaxRows = 2
  MaxEvents = 2
  MaxRuns = 2
  MaxFaults = 0
SPECIFICATION Spec
SYMMETRY Reviewers
INVARIANTS
  FieldMeetsEngine
PROPERTIES
  RunSparesDecisions
CHECK_DEADLOCK FALSE
