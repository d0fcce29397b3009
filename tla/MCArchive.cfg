SPECIFICATION Spec
CONSTANTS
  Last = 4
  Parent <- DirectoryOf
  MayBe <- KindsOf
  Stamps = {0, 1}
  Sources <- Trees
  Exclusions <- Filters
  Streams <- ForeignStreams
  Edits = 2
INVARIANTS
  BackupsReadBack
  DestinationIsAllOrNothing
  RestoredTreeIsTheSource
CHECK_DEADLOCK FALSE
