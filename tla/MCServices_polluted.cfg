SPECIFICATION ServicesSpec
CONSTANTS
  Days = {1, 2}
  Open = Open
  BaseCodes = {codeA, codeB}
  Rates = {lo, hi}
  Absent = Absent
  NoRow = NoRow
  Releases = {1, 2}
  ItemIds = {1, 2}
  Reviewers = {d1, d2}
  BaseSyncs = {sync}
  MinPrepared = 1
  Established = 2
  MaxEditions = 2
  MaxApprovals = 2
  Documents = {e1, e2, e3, r1, t1, i1, i2, s1, q1, q2, l1, c1}
  Content <- MCContent
  Numbers = {n1, n2, n1x}
  Digits <- MCDigits
  Bols = {bol, bolx}
  BolKey <- MCBolKey
  Nothing = Nothing
  MaxReruns = 1
  MaxArrivals = 3
  MaxAtOnce = 2
  Audited = {x1}
  Filings = {f1, f2}
  Catalogs = {k1, k2}
  References = {v1, v2}
  Raises <- MCRaises
  NoText = NoText
  Nobody = Nobody
  Auditors = {a1, a2}
  MaxUpdates = 2
  MaxJudgments = 2
  e1 = e1
  e2 = e2
  e3 = e3
  r1 = r1
  t1 = t1
  i1 = i1
  i2 = i2
  s1 = s1
  q1 = q1
  q2 = q2
  l1 = l1
  c1 = c1
  n1 = n1
  n2 = n2
  n1x = n1x
  bol = bol
  bolx = bolx
  inv = inv
  inv2 = inv2
  po = po
  sku = sku
  packet = packet
  f1 = f1
  f2 = f2
  k1 = k1
  k2 = k2
  v1 = v1
  v2 = v2
  text1 = text1
  text2 = text2
  Turns = {u1, u2, u3}
  Calls = {call1, call2}
  MaxFails = 2
  u1 = u1
  u2 = u2
  u3 = u3
  call1 = call1
  call2 = call2
  codeA = codeA
  codeB = codeB
  lo = lo
  hi = hi
  d1 = d1
  d2 = d2
INVARIANT
  InferenceYields
CHECK_DEADLOCK FALSE
