\* Two pages, two workers; users change four things and two go wrong.
SPECIFICATION MCSpec
CONSTANTS
  p1 = p1
  p2 = p2
  t1 = t1
  t2 = t2
  w1 = w1
  w2 = w2
  Page = {p1, p2}
  Text = {t1, t2}
  Body <- MCBody
  Slot = {w1, w2}
  Null = Null
  Lease = 2
  PartialLease = 1
  HardLimit = 1
  Interval = 1
  Config <- MCConfig
  MaxVersion = 3
  MaxMessages = 2
  MaxChanges = 4
  MaxFaults = 2
INVARIANTS ExecutionsHoldSource
PROPERTIES MirrorHolds MirroredInTheEnd RequestsEnd
CHECK_DEADLOCK FALSE
