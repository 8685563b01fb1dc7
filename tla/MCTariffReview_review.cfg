SPECIFICATION Spec
CONSTANTS
  Codes = {1, 2}
  Family = Family
  Tracked = {1}
  Initial = lower
  d1 = d1
  d2 = d2
  lower = lower
  higher = higher
  Contents = {lower, higher}
  Absent = Absent
  MaxRelease = 3
  MeasureIds = {1, 2, 3, 4}
  None = None
  LastDay = 2
  Exclusive = {1, 2}
  Deciders = {d1, d2}
  Syncs = {s1}
  MaxDecisions = 3
  MaxSyncs = 3
  Feeds <- MCFeeds
SYMMETRY Symmetry
INVARIANTS
  OneOpenRevision
  WindowsTile
  EveryChangeProposed
  NothingStranded
PROPERTIES
  Implements
CHECK_DEADLOCK FALSE
