\* Everything may go wrong.  Keys: three requests, the collection changes once.
\* Rates: four visits, two at once and two a day, two days.  Attempts: three from two
\* addresses at two emails, two windows.
SPECIFICATION MCSpec
CONSTANTS
  Request = {r1, r2, r3}
  Question = {q1, q2}
  Null = Null
  May = {"failure", "crash", "redis", "purge"}
  MaxVersion = 1
  Visit = {r1, r2, r3, v4}
  Attempt = {r1, r2, r3}
  Address = {q1, q2}
  Email = {u1, u2}
  Limit <- MCLimit
  MaxWindow = 1
  Cost = 1
  Rate = 1
  Expiry = 2
  MaxDelay = 1
  DayTicks = 3
  DayLimit = 2
  MaxTime = 5
  Kind = {"document", "blocks", "units", "deltas", "spans", "lists", "sizes", "context", "scores", "rule",
          "markdown", "fonts", "print", "scan", "pages", "answers", "objects", "page", "quoted", "overlaps", "cited",
          "fields", "passages", "evidence", "boxes", "excerpts", "roles", "locked", "ranked", "drafts",
          "marker", "labels", "starters"}
SYMMETRY Interchangeable
INVARIANTS OneRunning FailureReleases LimitsHold PassagesHold AnswersHold DraftsHold
PROPERTIES ReplayIsCurrent
CHECK_DEADLOCK FALSE
