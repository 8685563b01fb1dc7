CONSTANTS
  Drains = {d1}
  Slots = {s1}
  Manuals = {m1}
  Changers = {}
  Entries = {e1, e2}
  MaxRuns = 4
  RunIds <- MCRunIds
  Limit = 1
  MaxRetries = 2
  MaxRequests = 1
  MaxFaults = 1
  NoRun = NoRun
  NoEntry = NoEntry
SPECIFICATION FairSpec
PROPERTIES
  FirstRun
  PendingClaimed
  RunningEnds
