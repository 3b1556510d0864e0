CONSTANTS
  Request = {r1, r2}
  MaxAttempts = 3
  MaxTokens = 2
  MaxFailures = 7
  Site = {s1}
  Type = {"stay", "spa"}
  Command = {c1, c2}
  Seeds <- MCSeeds
  Policy <- MCPolicy
  Base = {"stay"}
  Unset = Unset
  Claimer = {k1, k2, k3}
  Holder = {h1, h2}
  NoClaimer = NoClaimer
  Caps = {1, 2}
SPECIFICATION PlatformSpec
SYMMETRY Interchangeable
INVARIANTS
  AccountTypeOK
  LinksBounded
  SpentBounded
  GuessesBounded
  ServedIsProvisioned
  
PROPERTIES
  
  CapHolds
\* a row lock may be waited for, and every command may have ended
CHECK_DEADLOCK FALSE
