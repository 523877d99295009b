CONSTANTS
  Hotkeys = {h1}
  PhalaKeys = {p1, p2}
  Funded = {p1}
  MaxSessions = 1
  MaxInits = 2
  Template <- MCTemplate
  Built <- MCBuilt
  RootSets <- MCRootSets
  Releases = {2, 3}
  Own = Own
  Nets = {"test", "main"}
  MaxPublished = 2
  MaxDeploys = 1
  None = None
SPECIFICATION MCSpec
INVARIANTS OnboardingHonest DeployedAsApproved
CHECK_DEADLOCK FALSE
