SPECIFICATION PartSpec
CONSTANTS
  MaxName = 3
  MaxVersion = 2
  MaxDepth = 1
  Stubborn = {}
  Filters = {"all"}
  ClockGoesBack = FALSE
  Reverts = FALSE
  RetainCount = 1
  MaxManaged = 3
  MaxManual = 1
  Strategies = {"full", "incremental"}
  r1 = r1
  r2 = r2
  none = none
  s1 = s1
  Repositories = {r1, r2}
  NoRepository = none
  Snapshots = {s1}
INVARIANTS
  OneWorkAtATime
  ListIsOfTheRepository
  LockFollowsThePlan
  ChainsStayRestorable
  VerifiedManifestsTellTheTruth
  SkipMeansSaved
PROPERTIES
  NoRecordIsLost
  RetentionSparesTheNewest
CHECK_DEADLOCK FALSE
