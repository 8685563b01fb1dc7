CONSTANTS
  Drains = {d1}
  Slots = {s1}
  Manuals = {}
  Changers = {c1}
  Entries = {e1}
  MaxRuns = 3
  RunIds <- MCRunIds
  Limit = 2
  MaxRetries = 2
  MaxRequests = 1
  MaxFaults = 0
  NoRun = NoRun
  NoEntry = NoEntry
SPECIFICATION Spec
INVARIANTS
  TariffChangeServed
