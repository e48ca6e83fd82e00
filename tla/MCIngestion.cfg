\* Two documents and two worker slots, or one document that must settle; owners ask
\* once, two attempts are made.
SPECIFICATION MCSpec
CONSTANTS
  Document = {d1, d2, d3}
  Worker = {w1, w2, w3, w4}
  Content = {c1, c2, c3, c4}
  PairDocument = {d1, d2}
  PairWorker = {w1, w2}
  PairContent = {c1, c2}
  Null = Null
  MaxAttempts = 2
  LeaseTicks = 2
  HardLimit = 1
  Throttle = 0
  MaxResets = 1
  Backoff <- MCBackoff
SYMMETRY Interchangeable
INVARIANTS ReadyMatchesFile
PROPERTIES ClaimHeld LifecycleSpec SingleSettles
