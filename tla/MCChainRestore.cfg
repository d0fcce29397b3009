SPECIFICATION Spec
CONSTANTS
  Pids = {p1, p2}
  Deltas = 2
  MaxRuns = 3
  MaxUser = 1
SYMMETRY PidsAreAlike
INVARIANTS
  PublishedIsWhole
  ResidueIsReclaimed
PROPERTIES
  OthersAreLeftAlone
CHECK_DEADLOCK FALSE
