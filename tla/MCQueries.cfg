\* Budget: three calls of guests and two accounts at two addresses, two days.
\* Conversations: three queries, three passages, the corpus changes twice.
\* Lists: three conversations, two queries, three instants, a row a page.
\* Search: two documents, one of two texts and one with facts, two changes.
SPECIFICATION MCSpec
CONSTANTS
  Ip = {i1, i2}
  User = {u1, u2}
  Call = {q1, q2, q3}
  None = None
  Limit = 2
  MaxAmount = 1
  MaxDay = 1
  Query = {q1, q2, q3}
  Conv = {v1}
  Guest = {g1}
  Account = {x1}
  Role = {low, high}
  Chunk = {c1, c2, f1}
  Facts = {f1}
  Stored = {c1, f1}
  Readers <- MCReaders
  MaxTurns = 2
  MaxChanges = 2
  MaxStreams = 1
  MaxCited = 1
  Batches = 2
  MaxDeltas = 2
  MaxPlanned = 3
  Usages = {0, 1, 2}
  Chat = {1, 2, 3}
  Asked = {11, 12}
  Migrated = {3}
  PageSize = 1
  Instants = 2
  Passage = {"old", "oldLocked", "new", "newLocked", "other", "facts"}
  FactPassages = {"facts"}
  Old = {"old", "oldLocked", "other"}
  DocumentOf <- MCDocumentOf
  LabelOf <- MCLabelOf
  Near <- MCNear
  Matches <- MCMatches
  Readable = {"all"}
  Labels = {"all", "hr"}
  Threshold = 1
  Margin = 1
  K = 1
  Scale = 6
  TopK = 2
  Returned = 2
  Searches = 1
  Reranker = FALSE
  i1 = i1
  i2 = i2
  u1 = u1
  u2 = u2
  c1 = c1
  c2 = c2
  f1 = f1
  low = low
  high = high
  g1 = g1
  v1 = v1
  x1 = x1
  Null = Null
SYMMETRY Symmetric
INVARIANTS ChargedToOwner ConversationsHold AttemptsPaid ListsHold RetrievalHolds
PROPERTIES SpendingHolds AnswersRecorded StreamHolds
CHECK_DEADLOCK FALSE
