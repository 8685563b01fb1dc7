CONSTANTS
  Bases = {b1, b2}
  Texts = {t1, t2}
  NoText = NoText
  MaxReport = 2
  Writers = {w1, w2}
  Humans = {h1}
  MaxReconciles = 2
  MaxDecisions = 2
  Headings <- MCHeadings
  Lines <- MCLines
  StackingRules <- MCStacking
  SailDays = {1, 2}
  Unset = Unset
  MaxHeadings = 3
  Requests = {w1, w2}
  HtsCodes = {t1, t2}
  NoCode = NoCode
  WindowIds = {1, 2, 3}
  ItemIds = {1, 2}
  None = None
  Days = {1, 2}
  Open = Open
  MaxRequests = 4
SPECIFICATION RecordsSpec
SYMMETRY Symmetry
CHECK_DEADLOCK FALSE
INVARIANTS
  Healed
  ExpectationStands
  FindingsFair
  Tiled
  CodeIsCurrentWindow
  PendingShown
PROPERTIES
  JudgmentKept
