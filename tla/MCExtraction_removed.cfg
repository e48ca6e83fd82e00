\* As MCExtraction_safety, and no request dies halfway.
SPECIFICATION MCSpec
CONSTANTS
  d1 = d1
  d2 = d2
  s1 = s1
  s2 = s2
  x1 = x1
  x2 = x2
  x3 = x3
  Document = {d1}
  Extraction = {x1, x2}
  Schema = {s1}
  Run = {r1, r2, r3}
  Remover = {p1}
  Value = {v1, v2}
  Null = Null
  Deleted = Deleted
  Doc <- MCDoc
  Of <- MCOf
  AbandonTicks = 2
  HardLimit = 1
  May = {}
  r1 = r1
  r2 = r2
  r3 = r3
  u1 = u1
  u2 = u2
  n1 = n1
  l1 = l1
  v1 = v1
  SchemaId = {s1, s2}
  Name = {n1, n2}
  Label = {l1, l2}
  Update = {u1, u2}
  MaxFields = 2
  Part = {"extraction"}
INVARIANTS FactsHaveExtraction
CHECK_DEADLOCK FALSE
