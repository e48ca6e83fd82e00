\* Two documents, reset once; nothing goes wrong, or one kind of mishap or three.
SPECIFICATION MCSpec
CONSTANTS
  d1 = d1
  d2 = d2
  w1 = w1
  w2 = w2
  Document = {d1, d2}
  Slot = {w1, w2}
  Null = Null
  Name = {1, 2}
  Open <- MCOpen
  Room = 2
  Scenarios <- MCScenarios
  MaxChanges = 1
  MaxClock = 3
INVARIANTS Inv QuietIsFreshUnlessMishap
PROPERTIES ReadyGetsAsked
CHECK_DEADLOCK FALSE
