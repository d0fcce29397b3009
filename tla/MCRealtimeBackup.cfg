SPECIFICATION Spec
CONSTANTS
  MaxName = 3
  MaxVersion = 3
  MaxDepth = 1
  MaxManual = 1
  Stubborn = {"marker"}
  Filters = {"all"}
  ClockGoesBack = FALSE
  Reverts = FALSE
  RetainCount = 1
  Strategies = {"full", "incremental"}
INVARIANTS
  MarkersNameTheirArchive
PROPERTIES
  SnapshotsAreAtomic
  RetentionTakesOnlyItsOwn
CHECK_DEADLOCK FALSE
