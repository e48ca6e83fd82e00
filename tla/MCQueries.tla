----------------------------- MODULE MCQueries -----------------------------
(* What a question costs and what becomes of it, on small instances.  The parts *)
(* share no state: a behaviour is one part's, and the others stay as they began. *)
(* "owners" and "chain" are conversations over passages that two roles may read, *)
(* one of them made by an extraction: the first has a guest who may sign in or   *)
(* out, two queries and one change of the corpus; the second an account that     *)
(* asks three complete queries, each after the first of one before it, and two   *)
(* changes.  "stream" is QueryStream, one query in every form; "call" is         *)
(* Providers, one piece of work of every kind for every payer; "history" is      *)
(* History, three conversations, of which a guest may have made one, and two     *)
(* queries, of that one or of the account alone, on pages of one row, whose       *)
(* reader reads one list to its end; "search" is Retrieval, a document of two      *)
(* texts and a second one with facts that come and go, and a planned question.     *)
EXTENDS Budget, TLC

CONSTANTS
  Query, Conv, Guest, Account, Role, Chunk, Facts, Stored, Readers,
  MaxTurns, MaxChanges, MaxStreams, MaxCited,     \* Conversations
  MaxDeltas, MaxPlanned,                          \* QueryStream
  Batches, Usages,                                \* Providers
  Chat, Asked, Migrated, PageSize, Instants,      \* History
  Passage, Old, FactPassages, DocumentOf, LabelOf, Near, Matches, Readable, Labels, Threshold, Margin,
  K, Scale, TopK, Returned, Searches, Reranker,       \* Retrieval
  i1, i2, u1, u2, c1, c2, f1, low, high, g1, v1, x1, Null

VARIABLES
  part,
  coll, chunk, guest, conv, row, req,  \* Conversations
  convo, transport, changed, at, facets, attempts, deltas, parts, metered, attempted, record, out, sent, reply,
                                       \* QueryStream
  call, work, payer, step, format, repairs, batch, tries, ledger, ticket, reports, result,
                                       \* Providers
  time, chat, asked, reader,           \* History
  stored, ready, collection, search    \* Retrieval

MCReaders == [c \in Chunk |-> IF c = c2 THEN {high} ELSE Role]

C == INSTANCE Conversations WITH User <- Account

S == INSTANCE QueryStream WITH
  pc <- at, tries <- attempts, row <- record, MaxFacets <- MaxPlanned

P == INSTANCE Providers WITH pc <- step

H == INSTANCE History WITH
  Conv <- Chat, Query <- Asked, Legacy <- Migrated, Limit <- PageSize, MaxTime <- Instants,
  conv <- chat, query <- asked

R == INSTANCE Retrieval WITH First <- Old, Limit <- Returned, MaxFacets <- Searches,
                               Allowed <- Readable, Budget <- 0

MCDocumentOf == [p \in Passage |-> IF p \in {"other", "facts"} THEN 2 ELSE 1]
MCLabelOf == [p \in Passage |-> IF p \in {"oldLocked", "newLocked"} THEN "hr" ELSE "all"]
MCNear == <<[p \in Passage |-> CASE p = "other" -> 1 [] p \in {"old", "newLocked"} -> 2 [] OTHER -> 3],
            [p \in Passage |-> IF p = "other" THEN 3 ELSE 1]>>
MCMatches == <<{"old", "other"}, Passage>>

Symmetric == Permutations(Query)

ASSUME ConversationAssumption == C!Settings

ASSUME PriceAssumption == P!Settings

ASSUME StreamAssumption == S!Settings

ASSUME ListAssumption == H!Settings

ASSUME SearchAssumption == R!Settings

NoRows == [q \in Query |-> Null]

talk == <<coll, chunk, guest, conv, row, req>>
stream == <<convo, transport, changed, at, facets, attempts, deltas, parts, metered, attempted, record, out, sent, reply>>
calls == <<call, work, payer, step, format, repairs, batch, tries, ledger, ticket, reports, result>>
lists == <<time, chat, asked, reader>>
found == <<stored, ready, collection, search>>
allVars == <<part, vars, talk, stream, calls, lists, found>>

MCInit ==
  /\ part \in {"budget", "owners", "chain", "stream", "call", "history", "search"}
  /\ Init /\ C!Init /\ S!Init /\ P!Init /\ H!Init /\ R!Init
  /\ part # "stream" => convo = "alone" /\ transport = "sse"
  /\ part # "call" => call = [kind |-> "stream", local |-> TRUE, enabled |-> FALSE] /\ work = [actor |-> "guest"]

InPart ==
  /\ part = "owners" => /\ Cardinality({q \in Query : req'[q] # Null}) <= 2
                        /\ coll'.version + coll'.generation <= 1
  /\ part = "chain" => /\ guest' = guest
                       /\ conv'[v1] # g1
                       /\ \A q \in Query : req'[q] # Null => req'[q].at # "error"
                       /\ Cardinality({q \in Query : row[q] # Null}) = 2 =>
                            \A q \in Query : C!Open(q) => row'[q] = Null /\ req'[q].cites = {}
                       /\ \A q \in Query : row'[q] # Null => row'[q].outcome = "complete"
                       /\ \A q \in Query : req'[q] # Null /\ req'[q].at \in {"fetched", "loaded"} =>
                            req'[q].conv # Null /\ (req'[q].parent = Null => row = NoRows)

\* Which address, and which account, a charge first counts for makes no difference.
Charged == {r[2] : r \in alloc}

InOrder ==
  /\ i2 \in Charged' => i1 \in Charged
  /\ u2 \in Charged' => u1 \in Charged

MCNext ==
  /\ UNCHANGED part
  /\ \/ part = "budget" /\ Next /\ InOrder /\ UNCHANGED <<talk, stream, calls, lists, found>>
     \/ part \in {"owners", "chain"} /\ C!Next /\ InPart /\ UNCHANGED <<vars, stream, calls, lists, found>>
     \/ part = "stream" /\ S!Next /\ UNCHANGED <<vars, talk, calls, lists, found>>
     \/ part = "call" /\ P!Next /\ UNCHANGED <<vars, talk, stream, lists, found>>
     \/ /\ part = "history" /\ UNCHANGED <<vars, talk, stream, calls, found>>
        /\ (reader # Null => reader.at = "open") /\ H!Next
        /\ \A q \in Asked : asked'[q] # Null => asked'[q].conv \in {1, Null}
        /\ chat'[2] # Null => chat'[2].owner = "user"
        /\ \A q \in Asked : asked'[q] # Null /\ asked'[q].conv = Null => asked'[q].owner = "user"
        /\ reader' # Null /\ reader'.list.of = "conversations" => reader'.list.filter # "archived"
        /\ reader' # Null /\ reader'.list.of = "collection" => reader'.actor = "user"
        /\ reader' # Null /\ reader'.list.of = "transcript" => reader'.list.conv = 1
     \/ part = "search" /\ R!Next /\ UNCHANGED <<vars, talk, stream, calls, lists>>

MCSpec == MCInit /\ [][MCNext]_allVars

(* No address and no account is admitted beyond the daily limit, in whatever order calls *)
(* are admitted and settled, and what a guest has spent at an address counts for the      *)
(* account that signs in there (billing/service.py).                                      *)
SpendingHolds == []WithinLimit /\ GuestSpendingFollows

(* Conversations and the queries recorded in them agree on their owners, also when *)
(* one is claimed while a query streams, and a kept context is of one source and   *)
(* one role (conversations/service.py, conversations/context.py).                  *)
ConversationsHold ==
  C!TypeOK /\ C!OwnersAgree /\ C!NothingLeftBehind /\ C!ContextOfOneSource

(* What is recorded was drawn from the corpus as it is, whoever is told that a query  *)
(* of a conversation is done finds it recorded, and every passage that the answers of  *)
(* a kept context were drawn from is still stored, and the one who asks may read it     *)
(* (generation/service.py).                                                             *)
AnswersRecorded == C!EvidenceStands /\ C!RecordedOfTheCorpus /\ C!DoneIsRecorded /\ C!TranscriptsStay

(* Whoever pages through a list sees nothing twice and misses nothing that stays, and a *)
(* query is listed after what it follows up and for its conversation's owner            *)
(* (api/v1/history.py, conversations/service.py).                                       *)
ListsHold == H!NothingTwice /\ H!NothingSkipped /\ H!ParentsFirst /\ H!PreviewIsLast /\ H!OwnersAgree

(* Whatever becomes of a query, the client hears of it in order and of no end for which *)
(* a record was not tried, one record at most is left and stays, and what is told agrees *)
(* with it (generation/service.py, api/v1/query.py).                                      *)
StreamHolds ==
  [](S!TypeOK /\ S!EventsInOrder /\ S!AlwaysAccountedFor /\ S!ToldIsRecorded /\ S!UsageIsWhole) /\ S!RecordStays

(* No HTTP attempt that a visitor pays for goes out without a reservation of its own, and *)
(* it is settled for just what the provider reported, unless its work ends there with the  *)
(* budget (billing/providers.py, billing/service.py).                                       *)
AttemptsPaid == P!TypeOK /\ P!EachAttemptReserved /\ P!KnownUsageKept /\ P!AttemptsBounded

(* The passages of an answer are stored together, unless the data version that its        *)
(* record compares has moved or they are of facts, and what a role is told to be missing   *)
(* is hidden from it (retrieval/service.py, generation/service.py).                         *)
RetrievalHolds == R!TypeOK /\ R!OneCorpus /\ R!HintTrue
=============================================================================
