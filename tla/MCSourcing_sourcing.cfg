SPECIFICATION SourcingSpec
CONSTANTS
  Days = {1, 2}
  Open = Open
  cheap = cheap
  dear = dear
  r1 = r1
  r2 = r2
  Requests = {r1, r2}
  Costs = {cheap, dear}
  QuoteDates = {0, 1}
  SourceIds = {1, 2, 3}
  LineIds = {1, 2}
  None = None
  MaxRequests = 4
  MaxItems = 2
SYMMETRY Symmetry
CHECK_DEADLOCK FALSE
INVARIANTS SourcesTile NeverInverted AppliedOnce
PROPERTIES HistoryStands DecisionStands
