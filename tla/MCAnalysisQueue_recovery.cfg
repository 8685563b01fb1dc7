CONSTANTS
  Drains = {d1, d2}
  Slots = {s1}
  Manuals = {}
  Changers = {c1}
  Entries = {e1}
  MaxRuns = 3
  RunIds <- MCRunIds
  Limit = 2
  MaxRetries = 1
  MaxRequests = 1
  MaxFaults = 2
  NoRun = NoRun
  NoEntry = NoEntry
SPECIFICATION Spec
SYMMETRY ProcessSymmetry
INVARIANTS
  OnePending
  DocumentChangeServed
  SoleRunner
  RetriesBounded
PROPERTIES
  OutcomeFinal
