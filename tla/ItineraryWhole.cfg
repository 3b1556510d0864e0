CONSTANTS
  MaxDay = 1
  Ahead = 1
  FirstAhead = 0
  Retention = 1
  Page = {home, story}
  Entity = {story}
  NoPage = NoPage
  FlushSize = 3
  MaxVisits = 2
  MaxEvents = 2
  MaxEras = 1
  MaxPauses = 1
  p1 = p1
  a1 = a1
  Item = {p1, a1}
  Reach <- MCReach
  Cap <- MCCap
  RerankPool = 1
  ArticlePool = 1
  Type = {"stay", "news", "unknown"}
  Unknown = "unknown"
  NoType = "none"
  Overlay = "stay"
  Worlds <- MCWorlds
  Worker = {w1}
  Call = {c1, c2}
  Absent = Absent
  MaxAge = 1
  Ttl = 1
  Latency = 1
  MaxItems = 1
  MaxTime = 4
  MaxEdits = 1
  r1 = r1
  r2 = r2
  act = act
  chain = chain
  Place = {r1, r2, act}
  NoPlace = NoPlace
  NoOrg = NoOrg
  NoLimit = NoLimit
  stop <- MCstop
  Request <- MCRequest
  Leg <- MCLeg
  MaxCandidates = 2
  Weekday = 2
SPECIFICATION ReadingSpec
INVARIANT PlanIsValid
\* the answer has been given
CHECK_DEADLOCK FALSE
