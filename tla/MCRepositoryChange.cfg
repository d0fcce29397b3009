SPECIFICATION GuiSpec
CONSTANTS
  r1 = r1
  r2 = r2
  none = none
  s1 = s1
  Repositories = {r1, r2}
  NoRepository = none
  Snapshots = {s1}
PROPERTY RepositoryChangeRunsWhatWaits
CHECK_DEADLOCK FALSE
