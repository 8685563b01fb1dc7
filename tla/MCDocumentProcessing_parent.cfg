CONSTANTS
  Packets = {p1}
  Plain = {x1}
  QuoteSheets = {x1}
  Roles = {r1}
  Primary = {r1}
  Requests = {q1}
  Sweeps = {s1}
  Slots = {k1, k2}
  None = None
  MaxSplits = 4
  MaxRequests = 1
  MaxFaults = 2
SPECIFICATION OneUploadSpec

PROPERTY ParentStands
