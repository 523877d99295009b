CONSTANTS
  Plain = {"gemini"}
  Flags <- MCFlags
  Secrets = {"s1", "s2"}
  MaxSlots = 4
  MaxUpdates = 3
  MaxDeploys = 2
  Strange = Strange
  None = None
  Images <- MCImages
  Catalog <- MCCatalog
  Routes <- MCRoutes
  Coverages <- MCCoverages
  Fallback <- MCFallback
  Born <- MCBorn
  Elsewhere <- MCElsewhere
  Workers = {w1, w2}
  Foreign = {w2}
  Unlisted = "hx"
  Lookups = {"routes", "legacy"}
  Discounts = {100}
  MaxMoves = 2
  MaxCmds = 1
  Sourcing = {"near"}
  Keyed = {"anthropic", "openai", "near"}
  Revisions = {7}
  Snapshot = 9
  Here = Here
  DerivedSlot = "s0"
  U32Max = 60000
  Refused = Refused
  MAX_PAGE_SIZE = 2
  ALL_CAP = 3
  PageLimits = {1, 2}
  MaxId = 6
  Gaps = {0, 125, 150, 1000}
SPECIFICATION MCSpec
INVARIANTS DeployableBoots SlotsAgree CloudSupplyFenced ProbesFit ViewsTrue
CHECK_DEADLOCK FALSE
