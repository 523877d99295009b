SPECIFICATION FairSpec
CONSTANTS
  Pages = 2
  Configs <- MCConfigs
  TargetSeq <- MCTargetSeq
  Account <- MCAccount
  Sinks <- MCSinks
  Interval = 2
  Deployment = 1
  Limit = 2
INVARIANTS VerdictJust FreshWhileUp
PROPERTIES SinkStops CalmServes
