# TLA+ verification of DocQA

DocQA answers questions about uploaded documents. A FastAPI process serves
requests, Celery workers ingest documents, extract fields, synchronise
connected sources and draft suggested questions; PostgreSQL (with pgvector)
holds all durable state, Redis the message queue, rate limits and idempotency
keys, and an object store the files. Every process may die at any moment, every
message may be lost or delivered twice, and many transactions touch the same
rows. These modules model the parts of `src/app/` and `src/deploy/` in which that
matters, and the algorithms whose results other parts rely on; TLC checks them
on small instances, and TLAPS proves what matters most for every instance.

Contents: [inventory](#inventory), [modules](#modules), [runs](#runs),
[theorems](#theorems), [findings](#findings), [observations](#observations),
[what is not modelled](#not-modelled), [plan](#plan).

## Inventory

| Component (`src/app/` unless said) | State | Operations | What makes it correct |
|---|---|---|---|
| Ingestion pipeline (`ingestion/tasks.py`, `ingestion/service.py`) | a `documents` row: status, token, lease, attempts, `next_attempt_at`, `last_enqueued_at`; messages in the broker | upload, retry, claim, parse and embed, store chunks, fail, retry later, recover, `reprocess`, delete | one execution owns a document at a time; a late one changes nothing; what is ready was made from the present file; what is in flight settles |
| Stored originals (`storage/`, `ingestion/service.py`) | files named by tenant and SHA-256, the lock of the tenant's row; versions in a bucket, a local cache | upload, delete, source update, removal of an unreferenced file; store, read, migrate | no committed reference loses its file; orphans only from named causes; the quota is kept; a confirmed file survives, a move to a bucket too, and a bucket's is served verified |
| Suggested questions (`generation/tasks.py`, `generation/suggestions.py`) | `data_version`, `suggestion_revision`, `suggested_questions` of a collection | refresh when ingestions settle, sample, draft, check, rank, store, fall back | questions never quote removed text; idle means drafted from the present corpus; a ready document that the sample has room for is asked about eventually; each role gets questions it can have answered |
| Idempotent queries (`core/idempotency.py`) | one Redis key per tenant and `Idempotency-Key` | claim, run, store, release, replay, expire, purge | one execution at a time; a replay answers the same question from the present corpus; failures free the key |
| Daily allowance (`billing/`) | `spend_reservations` and their allocations to an address and an account | reserve, import of guest spending, summarise, settle; every provider call in between | concurrent calls never admit more than the limit; logging in or changing address resets nothing and charges nobody else; no attempt goes out unpaid |
| Source synchronisation (`sources/`) | a `sources` row: status, token, lease; the source's documents | request, schedule, list, fetch, upsert, remove, finish, detach | one synchronisation at a time; at rest the collection mirrors the workspace; a partial listing removes nothing |
| Structured extraction (`extraction/`, `api/v1/extraction.py`) | an `extractions` row: status, token, fields, facts chunk; schemas; chunks of the corpus | define, request, run, finish, correct by hand, delete, recover, export | corrections outlive re-runs; no late run overwrites; facts belong to an extraction and are for who may read their evidence; a stored definition can be run |
| Conversations and history (`conversations/`, `api/v1/history.py`) | conversations, queries, citations, context chain | create, ask, record, claim by an account, rename, archive, delete, page through | a record is made from the corpus that was read; context never crosses owners, sources or roles; paging skips and repeats nothing |
| Query pipeline (`generation/service.py`, `api/v1/query.py`, `retrieval/`) | none durable but the record; the stream of events | normalise, retrieve, plan, rank, generate, filter, cite, record, cancel | events in order; no end without an attempt at one record, whatever is cancelled; usage is whole; what is told agrees with the record |
| Accounts and Google sign-in (`accounts/`) | users, sessions, mail tokens, Google states, Google's keys | register, verify, reset, log in, revoke, link | a token works once; a reset revokes everything older; nobody gets an account but through its mailbox |
| Rate limits and counted attempts (`core/rate_limit.py`, `accounts/limits.py`) | buckets and daily counters in Redis; counters in PostgreSQL | consume, try | never more than capacity plus refill; open when Redis fails; no deadlock between counters |
| Access control (`access/`, `api/deps.py`) | labels of chunks, roles, scopes, visibility of collections | authenticate, authorise, filter | nothing outside the caller's labels is read; an unclear marker closes a section |
| Parsing, chunking, quotes (`ingestion/parsers/`, `ingestion/chunking.py`, `generation/quotes.py`) | none | pure functions | every text is in some chunk, under its own label; a quote is where it says |
| Embeddings, language models, reranking, OCR (`embeddings/`, `generation/llm/`, `retrieval/rerank/`, `ingestion/ocr/`) | cooldowns; the ledger | calls with retries, repairs and fallback | attempts are bounded; each that a visitor pays for is reserved and settled for what was reported; what has no tariff is refused |
| Backup and restore (`src/deploy/scripts/backup.py`) | a lock, the project's services, bundles | stop, dump, snapshot, verify, publish, check a restore | a bundle that counts is one state of database and files; the services come back |
| Web client, evaluation, corpora, migrations, configuration, logging | — | — | not part of the running server's core |

**How they interact.** A request commits a row and then publishes a message; the
row is the real queue and a beat task publishes it again
(`recover_ingestion`, `recover_extractions`, `schedule_syncs`). Workers claim a
row under its lock, work outside any transaction, and come back with a token
that fences them off if the row was reset, reclaimed or deleted meanwhile. All
writers of a corpus lock the collection before the document, raise
`data_version` when a query made earlier must not be recorded or replayed, and
`suggestion_revision` when a draft in progress must be dropped. Files are stored
before and removed after the commit that refers to them, under the lock of the
tenant's row. A question reads the corpus in several statements, without a
lock, and its record compares the collection's `data_version` with the one it
began with; the generation tells a later follow-up whether its context still
stands. A provider call reserves money before each HTTP attempt and settles it
afterwards, in transactions of their own; hosted reranking and recognition,
which have no tariff, are refused to visitors.

**What is hard.** Executions that outlive their claim; messages lost, doubled or
late; crashes between a commit and the message, or between two transactions;
values read before a lock and used under it (`documents.py:418`,
`cli.py:165-189`, the deletions of `extraction.py`); two transactions where one would
be needed (a sync's file and its row); the order of two ingestions that settle
a collection at once; a limit that many calls approach together; a generator
that may be closed at every `yield`; a guest who signs in while a question
streams; texts that are quoted, normalised or cut where nobody tested.
`PROJECT.json` lists these hazards at their lines with the properties that
cover them.

## Modules

Each component has a module with its state, one action per operation, `Init` and
`Next` (and `Spec` where it is run or proved by itself), a type invariant, the
properties, and the inductive invariant `IInv` where a proof exists. A definition
marked `(* Mutant: ... *)` is a wrong variant of the action before it, used by no specification: put in its place, it
shows that the properties notice. `PROJECT.json` has one for every property of a run;
properties that are conjunctions were also tried against wrong variants of their other parts.

### State machines

**`DocumentLifecycle`** is the abstract specification of documents: each is
absent, pending, processing, ready or failed, and has a file and perhaps chunks. It
says what any history may look like: only `Finish` makes a document ready, and
with chunks of its present file; a document that is done stays done until its
owner, its source or a command resets it; one that is removed never returns.

**`Ingestion`** implements it: rows with token, lease, attempts and times,
the documents with a message in the queue, worker
slots, the recovery task and the reprocess command. A transaction is one action.
`ingest_document` is `Claim` (the transaction that claims, lines 225-271), then
one of `Busy`, `StoreChunks`, `MarkFailed`, `RetryLater`, or `WorkerLost`;
what it read at its claim (token and file) is in its job. `reprocess` is two
actions, `ReprocessLoad` and `ReprocessCommit`, since it reads documents
without locking them: an update then writes the columns that differ from
what was read, which `Rewritten` models. Time is abstract: every stored instant is
the number of ticks until it is past, and `Tick` counts them down.

**`FileStore`** has files, rows and the tenant lock. `SaveUpload` takes the
lock and stores the bytes, `CommitUpload` commits and releases it;
`DeleteDocument`, `CommitDelete`, `CheckReferences`, `Unlink` are a deletion; a
sync's `UpsertStore` and `UpsertCommit` are its two transactions.
**`OriginalStore`** looks below it at one file: the bucket with versions and delete markers,
versioning that may be suspended, the local cache and what a power loss leaves of
it, readers that fill it while a deletion runs, and the move from the disk to a bucket: `UseBucket` (the services are
started again with `STORAGE_PROVIDER=s3`) and `Migrate`, the copy that `migrate_originals` makes of one file, which goes
through the steps of a store. `confirmed` says where the last store was confirmed.
**`Backup`** has the services of a project, the database and the two stores, jobs that
stop writers, dump, snapshot, verify and publish, restore checks, and a kill anywhere. The script prunes nothing.

**`Access`** has actors with tenants, sessions and keys, collections that are published and
withdrawn, documents whose chunks carry labels, and requests of several statements each. What
a request decided on (role, labels, row) is in its record; between statements everything may change.

**`Suggestions`** has the columns of one collection, the refresh at the end of an
ingestion (`_refresh_suggestions_if_settled`) and the drafting task in three
steps (`TaskStart`, `TaskSample`, `TaskStore` or `TaskFail`), with every
operation that changes the corpus or the names of its documents. A draft is the sample it was made from: `SamplesOf` takes
unrestricted chunks by filename up to `Room`, in any order among equal filenames, as `sample_excerpts` does.
Chunks are taken to be of one size, so that the limits on rows and on tokens are one number.
The constant `Scenarios` says what may go wrong, together, in one behaviour.

**`Idempotency`** has one key: the requests that carry it, the Redis value, the
collection's version, and every Redis call of `run_idempotent` as an action,
each of which may fail. `disturbed` is a history variable: some Redis call failed,
or a wipe purged the key. **`RateLimit`** has the token bucket and the daily counter with
clocks that arrive late; `ideal` is a history variable, a bucket that is not rounded or expired.
**`Attempts`** has the counters of addresses and emails, which a login locks one after the other.
**`Admission`** puts these three together, with its own definitions of who a request is taken for: how cookie, key
and origin become an actor (`Authenticate`), or are refused. `LimitsHold` is stated there.

**`Budget`** has the ledger of one tenant kind: reservations
with address, account, day, reserved and actual cost, and the allocations that say at which scopes they
count. `reserve`, `summary` and `settle` are transactions under one lock and so
one action each; amounts are small numbers. **`Providers`** is one piece of work that calls a provider,
attempt by attempt: who pays (`billing/context.py`, `billing/jobs.py`), retries, the
repair of structured replies, fallback from one response format to the other, several
usage reports, a failed settlement, cancellation.

**`Conversations`** has conversations with owners, passages, the recorded queries and what
each request under way has read: the context chain, the corpus, the actor. **`QueryStream`** is one
request from admission to its last event: `run_query` may be closed or cancelled at every wait and yield; what
the client took is `sent`, what is recorded is `row`. `record_incomplete` resolves the quotes of what was streamed before it
records, and may raise there (finding 4): `RaiseInRecord` ends a query so, without a record or an event. **`Retrieval`** is
the statements of one search beside ingestions that hide, replace and remove passages, which moves the data version, and extractions that
replace those of facts (`ReplaceFacts`), which moves the generation alone. **`History`** is the lists and
transcripts that a client pages through while rows are added, renamed and claimed.

**`Extraction`** has rows of extractions, executions of the worker (each
with a token and at most one facts chunk, which has its name), requests that
delete an extraction or a schema in several transactions, and the recovery. What
a field holds is a value and whether a human wrote it. `StoreChunks` and
`DeleteDocument` are the document's side: they take the facts with the chunks.
**`Schemas`** has the definitions: creation under a unique name, updates that read without
a lock and write the attributes they were given, corrections, runs, export.

**`SourceSync`** has a workspace whose pages users edit, archive and restore, the source's row with lease and
interval, messages, and executions that list, remove, read and upsert page by page, each a
transaction. A page's version says which text it has (`Body`), so that two versions may hold one text. A listing takes many requests: an
execution in the phase "listing" collects what each page was meanwhile (`was`), `List` shows each page as it was at one of these moments, and an answer
with more but no cursor, one of the faults, makes it miss some (`missed`).

**`Accounts`** has people, mailboxes and accounts at Google, users with passwords and the number of
times their proofs changed, sessions, mailed tokens and states, each used once. A request that reads in one
transaction and writes in another is in `req` between them. **`GoogleKeys`** is the key cache
of one API process: an exchange waits, refreshes or gives up while Google rotates.

### Algorithms

Each is an operator, with its properties beside it; strings are sequences of the few
symbols the algorithm tells apart, and scores are small numbers.

| Module | Models |
|---|---|
| `Parsing` | headings of Markdown, of fonts in a PDF and of scans; which pages are recognised; the access markers of sections (`ingestion/parsers/`, `ingestion/ocr/`, `ingestion/access.py`) |
| `Chunking` | sections and their labels, windows with overlap, tables with repeated headers (`ingestion/chunking.py`) |
| `Ranking` | reciprocal rank fusion, round robin of planned queries, selection for the prompt, the budget of a context, the probe for hidden passages (`retrieval/`, `generation/prompts.py`, `conversations/context.py`) |
| `Quotes` | the stream splitter, the sentinel of a refusal, citations; spans of evidence, the location of a quote in a text (`generation/`) |
| `Fields` | the expressions of cross-field rules; types, evidence, excerpts and the label of facts (`extraction/`) |
| `Starters` | samples of a corpus, drafts, roles of questions, ranking and final choice (`generation/suggestions.py`) |
| `Notion` | retries with `Retry-After`, paging, the scope of a page under its parents, rendering of blocks (`sources/notion/`) |

`MC*` modules give the constants definitions and symmetry, and compose modules into one
run; `*Proofs` hold theorems. Where a component's module is an instance in its run's `MC` module, the proofs extend
the `MC` module, and so are about the property of the run, under the name it has there: `AccountsProofs` (`K`, `GoogleKeys`),
`ExtractionProofs` (`S`, `Schemas`), `FileStoreProofs` (`A`, `O` and `B`: `Access`, `OriginalStore`, `Backup`) and
`QueriesProofs` (`C`, `S`, `P`, `H`, `R`: `Conversations`, `QueryStream`, `Providers`, `History`, `Retrieval`). The
definitions of the `MC` module (scenarios, order, symmetry) occur in no theorem. `IdempotencyProofs` extends `Admission` (`R`, `T`: `RateLimit`, `Attempts`).

## Runs

Eight runs pass and four find a violation. Components that share no state are parts of
one run: the variable `part` (`instance`, `Kind`) says which one a behaviour is about,
and the others stay as they began, so that the states add up instead of multiplying.
A property that is a conjunction names its parts in its comment.

| Run | Parts and bounds | What it shows |
|---|---|---|
| `ingestion` | a pair: 2 documents, 2 slots, 2 contents, 2 attempts, leases of 2 ticks over limits of 1, one reset, and messages that stay until they are taken; or a single document with 2 slots | no stale or overlapping execution publishes, fails or requeues what it does not own (`ReadyMatchesFile`, `ClaimHeld`), `Ingestion` implements `DocumentLifecycle` (`LifecycleSpec`), and a single document in flight becomes ready or failed, or is deleted (`SingleSettles`) |
| `filestore_safety` | *files*: 4 documents of two collections, 2 of a source, 3 requests, 2 contents, quota 2; *readers*, *writers*: `Access` with an account, a guest and a key, two collections, one document, an open and a restricted file, two requests; *original*: two readers, three versions, both back ends and the move from the disk to a bucket; *backup*: two jobs, two documents, both back ends | uploads keep their files, the quota is passed by at most one file of each source, orphans have a named cause (`UploadsStored`, `FilesHold`); confirmed originals survive, and a bucket's are served verified (`OriginalsHold`); bundles are whole (`BackupsHold`); restricted files stay with their readers, read-only collections still (`AccessHolds`) |
| `filestore_reference` | *files* with 2 requests | a violation: finding 1 |
| `suggestions` | 2 documents, 2 slots, one reset, two filenames, room for 2 chunks; the first document's text grows to 2 chunks, the second's becomes restricted; five scenarios: no mishap, failures, a broker that is down, renames, or a provider's failure, a crash and a document that vanishes together | questions never come from text that left the corpus (`Inv`); idle means drafted from a sample of the present corpus unless a mishap came between; without mishaps a document that any sample would have gets asked about |
| `admission` | *key*: 3 requests, 2 questions, 1 change; *rate*: 4 visits, a cost and a rate of 1, day limit 2, clocks up to 1 late, 2 days; *attempts*: 3 attempts, 2 addresses, 2 emails, 2 windows; *asked*: every request under every setting, as initial states; *input*: 33 kinds of inputs of the algorithms, each built an element at a time to the length in `Bound` | replays are current, one request runs, failures free the key; limits hold, and nothing writes unauthorised (`LimitsHold`); the algorithms come out as their properties say, exceptions included (`PassagesHold`, `AnswersHold`, `DraftsHold`) |
| `queries` | *budget*: 2 addresses, 2 accounts, 3 calls that reserve 1 and cost up to 2, limit 2, 2 days; *owners*: 1 conversation, 2 queries, 1 change, a guest who may sign in; *chain*: 3 complete queries of an account, 2 changes; *stream*: one query of every form, 2 deltas, 3 facets; *call*: every kind of work for every payer, 2 batches, usages 0 to 2; *history*: 3 conversations, of which a guest may have made one, 2 queries of that one or of the account alone, 3 instants, pages of one row; *search*: 6 passages of 2 documents, one of them of 2 texts, the other with a passage of facts, 2 changes, one planned question | `SpendingHolds`, `ChargedToOwner`; `ConversationsHold`, `AnswersRecorded`; `StreamHolds`; `AttemptsPaid`; `ListsHold`; `RetrievalHolds` |
| `extraction` | *extraction*: an extraction and its successor, 3 executions, 1 removal, 2 values, crashes; *schemas*: 2 schemas, 2 names, 2 fields, 2 updates | a live execution holds its claim; corrections outlive runs; facts show the row's field; facts are left behind in two named ways only; every claim ends; definitions stay what each request accepted |
| `extraction_removed` | *extraction*, no removal dies halfway | a violation: finding 2 |
| `sources` | 2 pages with 3 versions of 2 texts, 2 slots, 2 messages, 4 changes by users, 2 faults, listings capped at 1 or 2 | one execution owns the source; what a document has seen is what it holds, a listing removes only what was away or missed (`MirrorHolds`); at rest the collection mirrors the workspace; requests are served or their sync ends |
| `accounts` | *accounts*: a person with 2 mailboxes and 2 accounts at Google, and a stranger; 3 sessions, two links and one state or one link and two states, 2 requests; *keys*: 2 keys, 2 sign-ins, 4 ticks | a verified account is only in the hands of its mailbox, and sessions carry the present credentials (`AccountsHold`); what ended stays ended (`NothingComesBack`); no withdrawn key outlives its time (`KeysHold`) |
| `labels` | documents of up to 4 blocks | a violation: finding 3 |
| `offsets` | a text and a quote, together of up to 5 letters, one of which folds into two | a violation: finding 4 |

**Why the bounds are enough.** Two slots give every pair of executions of one
document: one that lost its claim and the one that has it now, and two
documents the interplay of a command with the recovery. Two attempts have a first, a
last and an exhausted claim. A lease of two ticks and a hard limit of one keep the relation the code
has (660 s over 600 s): a live execution never sees its lease run out. Two
contents are enough to tell a file from its replacement. In `FileStore` three
requests and a source are an uploader, a remover and a second remover of the
same text. Three idempotent requests have an original, a retry and a retry
that finds the retry's token. Three executions of an extraction are one that ends
late, one that took over, and one of the row's successor, or of a re-run. Three calls against a limit of two are the fewest
that can pass it, and two days see a reservation age. Three queries are a chain whose
middle one may be invalidated. Three versions in a bucket are an object, a delete marker and what comes after.
Two pages can swap their texts, and a cap of one cuts a listing of two; four changes archive a page, restore it and edit it, within a listing or after it. Room for two chunks is filled by one document or shared by two. A parent in `Notion` may be one hop too far up (`MaxHops`, 64 in the code, is 1). Two sign-ins through
Google are one that refreshes and one that waits. The algorithms keep windows, caps and
budgets at three to six units, so that inputs of four to seven elements fill, pass and miss them. Bounds on counters
(`MaxResets`, `MaxChanges`, `MaxClock`, `MaxVersion`, `MaxDay`, `MaxTime`, `MaxFaults`, `MaxProofs`, ...) stop an otherwise
endless state space; each is a guard of the action that would pass it.

Some parts leave out what only multiplies. The `MC` modules state these restrictions (`MCInit`, `InAccess`,
`InBackup`, `InPart`, `InOrder`); none of them is in a component's module or under a theorem.

- `filestore_safety`: a key is revoked only among the writers; readers are two requests one of which reads the
  file, or one that reads beside one that uploads or connects a source; writers write one at a time, unless two connect sources. No backup begins after
  another one is finished or after a kill, the database, the disk's files and the services stand still once a bundle is finished, and there is one release.
- `queries`: *owners* and *chain* divide the actions of `Conversations`: in the first the owner changes, in the
  second the corpus does, twice, under complete queries of an account, the third of which reads and records nothing further than its context.
  In *history* a client reads one list to its end; the transcript is the first conversation's, the
  collection is the account's, and the filter for archived conversations alone is left out. In *search* the context has no budget (`Ranking` checks that over its inputs).
- `suggestions`: the second document's filename is not before the first's. Where something may go wrong the first is also uploaded first, and their names
  differ unless renames are what goes wrong; where the broker fails there is one slot.
- `extraction`, *schemas*: runs find one value and users write the other, rules name one field, and the second schema only takes a name.
- *Order.* Where a symmetry set would not be sound, or would cost more than it saves, which of two equal things comes first is
  fixed by a guard: the first address and account charged (`queries`), the free slot (`suggestions`),
  the first page and free slot (`sources`), executions, extractions and updates (`extraction`). Each guard picks one
  of the behaviours that differ in names only. The fairness conditions of `suggestions` and `sources` are the component's own. They are the same for both slots, and
  names need to be exchanged only while both slots are free, when no step of a slot is due, so that a behaviour which is fair stays so under its new names.

**Symmetry.** Permuted are ids which no definition tells apart: contents in `filestore_safety` (of all its ids, only
they may be exchanged in every part), requests and questions in `admission`, queries in `queries`, all but persons in `accounts`. Parts of a run
share their model values, since only the size of the group costs. In `ingestion` the single
instance, whose liveness is checked, is made of values which no permutation moves. No other
run with a temporal property beyond `[][A]_v` has symmetry.

**Fairness.** `Ingestion` (`SingleFairness`): time passes; every execution ends, by Celery's hard
limit if by nothing else (weak fairness of `TaskStep`); a `reprocess` command that
holds its lock commits. Beat runs the recovery every minute
(`workers/celery_app.py:29-36`), and a recovery that stays due for a document
infinitely often also publishes it infinitely often (strong fairness): single
runs may fail. The pool takes messages from the queue, and one that is there
again and again is taken at last, although each may be lost (strong fairness of
`GiveUp` and `Claim`). No fairness is assumed for the message that the request
itself publishes, or for success of an ingestion. `Suggestions` (`FairSpec`): the pool's steps
are weakly fair, and `ReadyGetsAsked` is of the scenario without mishaps, since nothing in the code
enqueues a refresh again. `Extraction` (`Fairness`): time passes, executions end, and a recovery
that stays due for a claim gets to it; nothing is assumed of messages, so the
property is of claims, not of requests that wait. `SourceSync` (`FairSpec`): time passes, executions go on or end,
beat schedules what stays due and the pool takes what stays queued; faults and users' changes are bounded,
which is what "in the end" means.

**Deadlock** is checked for `ingestion`. The other systems stop when their
requests are served, an input is complete or a bound is reached.

## Theorems

TLC checks the instances above; the following holds for every value of the
constants that satisfies the modules' assumptions (how many documents, workers,
requests, attempts; which limits), and is checked by TLAPS.

| Module | Theorem | States |
|---|---|---|
| `IngestionProofs` | `Invariance`, `TypeCorrect` | `IInv`, and with it the types |
| | `ReadyCorrect` | a ready document's chunks are of its present file |
| | `ClaimsAreHeld` | no execution loses a claim it holds to another one or to the recovery |
| | `Refinement` | `Ingestion` implements `DocumentLifecycle` |
| `FileStoreProofs` | `Invariance`, `UploadsAreStored` | the lock covers every upload and removal; an uploaded document keeps its file |
| | `FilesAreHeld` | uploads are within the quota but for what running sources bring, and orphans come from crashes or from a source and a deletion that overtake each other (`FilesHold`) |
| | `OriginalsStay` | of `OriginalStore`: what a bucket confirmed is recoverable, what a disk confirmed is on it until it fails, through a move from the one to the other; what is served from a bucket is verified (`OriginalsHold`) |
| | `BackupsAreWhole` | of `Backup`: bundles are whole, verdicts right, services come back (`BackupsHold`) |
| | `AccessIsGuarded` | of `Access`: restricted files stay with their readers, read-only collections still, sources bounded (`AccessHolds`) |
| `SuggestionsProofs` | `Invariance`, `QuestionsCanBeAnswered` | stored questions are of texts that are in the corpus (`Inv`) |
| | `IdleMeansFresh` | without mishaps, those of an idle pool are of a sample of the present corpus (`QuietIsFreshUnlessMishap`) |
| `IdempotencyProofs` | `Invariance`, `ReplaysAreCurrent` | a replay is of the same question and the present version, whatever fails |
| | `RunsAlone`, `FailuresRelease` | until Redis fails or a purge: one request runs, and a failed one leaves the key |
| | `LimitsAreKept` | of `Admission`: the rate in every window, the day's quota, the attempts at an address and an email; no attempts wait in a circle; no combination of cookie, key and origin writes unauthorised (`LimitsHold`) |
| `QueriesProofs` | `Invariance`, `NobodyElsePays`, `NothingEscapes` | of `Budget`: every charge counts at its own address and account, and never stops to |
| | `SpendingIsBounded` | what an address, or an account, is admitted to spend in a day sums to no more than the limit (`SpendingHolds`) |
| | `CallsArePaid` | of `Providers`: an attempt that a visitor pays for is reserved before it is sent, and settled for what was reported unless its work ends there with the budget; attempts are bounded (`AttemptsPaid`) |
| | `StreamIsTold` | of `QueryStream`: events in order, one record that stays, told as recorded, and no end told before it was tried (`StreamHolds`) |
| | `ConversationsAreTheirs`, `AnswersStand` | of `Conversations`: owners agree and contexts never mix; an answer is recorded of what can be retrieved, and done is recorded (`ConversationsHold`, `AnswersRecorded`) |
| | `ListsAreComplete` | of `History`: paging shows nothing twice and skips nothing that stays (`ListsHold`) |
| | `AnswersOfOneCorpus` | of `Retrieval`: what an answer is made of is stored together unless the data version moved, or it is of facts; hints are of hidden passages (`RetrievalHolds`) |
| | `RankingIsFair` | of `Ranking`, for lists of any length: what both searches find ranks first, every planned query is heard, a probe says when it was cut (three parts of `AnswersHold`) |
| `ExtractionProofs` | `Invariance`, `LiveClaims`, `FactsAreCurrent`, `CorrectionsOutliveRuns` | as the properties of the run |
| | `StraysAreExplained` | facts lose their row in the two named ways only (`StrayFactsExplained`) |
| | `DefinitionsAreKept` | of `Schemas`: names are unique, a definition that can be run stays so unless an update overtakes another one, and a correction is exported until what removes it (`DefinitionsHold`) |
| `SourceSyncProofs` | `ExecutionHolds` | an execution holds its source, whatever is asked, scheduled or delivered twice |
| | `MirrorIsTrue` | a recorded version tells the text; a synchronisation removes only what was away, or was missed, during its listing, and touches no detached document (`MirrorHolds`) |
| `AccountsProofs` | `Invariance`, `AccountsAreTheirs` | a verified account is only in the hands of its mailbox, sessions are current, links and states good once (`AccountsHold`) |
| | `NothingReturns` | links are used up, ended sessions open no other, subjects keep their account (`NothingComesBack`) |
| | `KeysAreFresh` | of `GoogleKeys`: no withdrawn key is used after a longest life, and refreshes are apart (`KeysHold`) |

**Assumptions.** That `Null`, `None` and `Deleted` are none of the values they stand
beside; that limits are naturals, periods positive, ids of lists numbers (they break ties), and the sets whose members are counted finite. Beyond these, which
say what kind of thing a constant is, the following are about the code:

- in `Ingestion`, `Extraction` and `SourceSync`, a lease outlives the hard limit of a task (600 s, and 660 s for each lease);
- in `GoogleKeys`, an exchange ends before a key's longest life (20 s and 3600 s, `Timeout < MaxLife`);
- in `Conversations`, guests are no accounts, and at least one turn is kept;
- in `Attempts`, no address is an email; in `Access`, a collection may have a source (`MaxSources > 0`);
- in `Ranking`, `Scale` is a multiple of the denominators `K + 1` to `K + TopK`, so that the shares of a fused score are
  integers (`Scaled`): scores are compared exactly, not rounded. `RankingIsFair` also takes `TopK <= K + 1` (20 and 60), without which
  a passage at the end of two lists may score less than the first of one, and at least one passage kept.

A component that is run as an instance collects its assumptions in `Settings`, which its theorem takes as a hypothesis
(`ASSUME R!Settings PROVE ...`; `LimitsAssumption` in `Admission`) and which its `MC` module assumes, so that TLC evaluates them.
The instances leave the components' constants free but for two: `Retrieval` is proved without a budget for the context (`Budget <- 0`), which plays no part
in `RetrievalHolds`, and the jobs of `Backup` are at least one.

**The argument.** Each proof is of an inductive invariant `IInv`, which TLC checked on the
instance of the run first. It is needed because the properties alone are not inductive:

- `Ingestion`: token and lease are set exactly while a
  row is processing, an execution whose token is in the row works on the
  row's present file under a lease longer than its own deadline, and what a
  `reprocess` loaded is not older than the row's way to a terminal state. Without the
  middle part, the token check of `_store_chunks` would not show whose file the chunks are of.
- `FileStore`: who holds the lock in each phase; an upload's file is there from storing to committing; no
  uploaded document refers to a file about to be unlinked. For `FilesHold` also `QuotaInv`: what the rows use,
  with the upload in the making, is at most the limit and one file of each source that has begun, so
  that a source's commit, which checks nothing, uses up its own allowance; and `HandConsistent`, which says of
  every file that no row refers to who still has it in hand.
- `Suggestions`: what a task sampled is superseded (a lower version or revision) or still true of each document
  it found ready, so that the check of both columns at the end suffices; a failing ingestion keeps its document in
  flight. For idle freshness (`FreshOnesCome`): when all has settled, whoever made the last document ready is about to ask
  (`Asking`), as long as stored questions or a fresh draft are no sample of the present corpus; this is what `Latest` is for.
- `Idempotency`: a stored result, or one about to be stored, was made from the version its request accepted;
  a request in its handler owns the key unless something disturbed it.
  `RateLimit`: a second bucket, `ideal`, is never rounded, late or dropped. It holds at least what the code's bucket would hold if it were read now, times `Expiry`,
  and is full again before the other is dropped. The proof corrected the property: an earlier bound had left out what late readings give away around the moment at which
  Redis drops the bucket, and only the small bounds of the run had hidden this. `Attempts`: whoever is in a row's lock has counted there and goes on; it takes the address before
  the email, so that one who waits at an address holds nothing, and a holder waits at its email only: somebody is always free to go on. Who a request is taken
  for is a distinction of cases.
- `Budget`: a reservation and its allocations agree, and what is admitted at each address and for each account of a day sums to at most the limit (`Within`). The rows are finitely many
  at any time, though their number is not bounded; sums over them are handled by lemmas on adding, removing and comparing, whose induction takes a smallest part of a finite set that
  fails.
- `Providers`: a metered attempt has, before it is sent, the last reservation, which no other attempt has; retries, repairs and batches that were
  counted bound how many went out.
- `QueryStream`: each event is in the place its kind has, counting those that were taken and those that wait; the stage tells how many there are; the record is attempted once, at the end and before the last event, and agrees with it; each
  call of a model is counted before its usage can be told.
- `Conversations`: a request remembers no later corpus than there is, and while the documents are those it found, nothing it
  took from them is hidden; a row comes once, after what it follows up. The version that `_record_query` compares then shows that the passages can be retrieved.
- `History`: a page is what a finite set has first in one strict order. What has been shown is not after the cursor; what was there at the start and has not
  moved has been shown or is after it; stamps only grow.
- `Retrieval`: what is found stands (`Standing`): it is in the table until the generation moves, and a passage of a text, whose document
  is searched, until the data version does, which moves before an ingestion may replace a document's passages. This is what fusion, round robin and reranking keep: each is a list of what it was made
  from, sorted in a strict order. A probe's places are counted by an injection into what is hidden.
- `Ranking`: fusion, merge and probe sort a finite set by an order that is total and transitive, so that the place of a passage is one more
  than the number ahead of it (`SortedOf`). The first of a list has only firsts of earlier lists ahead, fewer than there is room for; two shares of the
  whole, each over no more than 2k + 1, sum to more than one over k + 1; a close passage that the probe misses has as many close ones ahead as it keeps.
- `OriginalStore`: a store that goes on has confirmed the last version; a deletion first takes the confirmation back; before the move to a bucket there is no version; a marked file's copy
  is explained at every step but that which removes it. `Backup`: a job under way has the lock; undisturbed, nobody writes
  from its last look at services and clients to its last read, and what should run either runs or is remembered by the job that stopped
  it. `Access`: who is about to be served a file holds its document's row, and was let in as that row is; and what is public is read-only.
- `Extraction`: an unfinished execution holds a row whose field is the one it read, under a
  longer lease, and facts belong to one row and show its field. `Schemas`: an update
  which overlaps no other one has read what is stored, so that what it validated is what it commits.
- `SourceSync`: one live execution is in the source's row, under a lease that outlasts it; what it saw, listed, fetched and rendered was
  the page's at some earlier version; what it is about to remove was away or missed in its listing; a recorded version is not above the page's, and, where it equals
  it, the text is its body.
- `Accounts`: the password of a verified account is its mailbox's reader's or none, a session belongs to an account that is there
  and, while it lives, has that account's present number of proofs, a subject's account is of the same person and of no other subject,
  and a request acts on a state that is used up. Who registered an address for somebody else has a session, and a
  password, only until the mailbox's reader proves it, since proving ends every session (`UserAlone`).
  `GoogleKeys`: what is cached, and what a refresh was served, was published when it was asked for, so that its
  expiry is at most a life after its withdrawal; and one exchange refreshes at a time.

A lemma for each action, or for actions that change the state alike, shows what it does to
the rows; a lemma that they share (`Calm`) says what is left to show when a step only adds to what is there.
Action properties (`NothingComesBack`, `MirrorHolds`, `StrayFactsExplained`, ...) follow from the invariant and from
lemmas that say which steps touch which rows.

**Only model-checked.**

- *Liveness*, and anything under fairness: `SingleSettles`, `ReadyGetsAsked`, `ClaimsEnd`, `MirroredInTheEnd`, `RequestsEnd`. It is out of the provers' reach, as is `ENABLED`.
- *What the algorithms compute*: `PassagesHold`, `AnswersHold` and `DraftsHold` (`Parsing`, `Chunking`, `Quotes`, `Fields`, `Starters`, `Notion`, and what of
  `Ranking` fits a prompt and a context). They are folds and recursions over sequences, on all inputs up to a length. The library's induction theorems take an operator as a
  parameter, which these provers cannot instantiate. Induction in first-order form (a smallest counterexample) can be done, as for the sums of `Budget` and the lists of
  `History` and `Retrieval`, but needs every fold restated as a function of its length. The fusion, the round robin and the probe of `Ranking`
  are no folds but sorts by an order, and are proved (`RankingIsFair`): the place of a passage is the number of those ahead of it.

## Findings

1. *A synced document may lose its file* (`filestore_reference`). `_upsert` stores the
   file under the tenant lock and commits the row in a second transaction
   without it; a removal of the same text in between unlinks the file.
   `storage/lifecycle.py:3-5` promises the opposite. `UploadsStored` shows that
   uploads are safe.
2. *Facts may outlive their extraction* (`extraction_removed`). The deletion reads the
   id of the facts chunk before it deletes the row; `docs.md:228` promises that
   facts are removed with it.
3. *A marked section may lose its label* (`labels`). `_build_sections` recognises the next heading by
   its text alone, so that a paragraph of the same text, earlier on, consumes it;
   `chunking.py:98-99` says that a marker right after a heading labels its section.
4. *A quote after an `ß` is not where the index says* (`offsets`). Case folding makes two characters of one, and
   the index has one entry for both (`quotes.py:111-112` says otherwise); looking a later quote
   up raises an `IndexError`, or finds a shifted span. `record_incomplete` looks it up again before it records, so that such a query leaves no record and
   no event of its end.

## Observations

Smaller things met while reading and modelling; the models do as the code does.

*Storage and sources.* A sync that finds its document deleted or its source detached leaves the file it
stored, and a deletion that read the row before a sync replaced its text leaves the new file
(the exceptions of `OrphansComeFromCrashes`). A source without automatic synchronisation whose
worker died stays syncing until its owner asks again (`RequestsEnd` says so of automatic ones only; `sources/tasks.py:3-4` says it of all). Two pages that swap their texts never synchronise, since each finds
the other's text in the collection (`docs.md:247`). `create_source` counts the collection's sources before
it asks the connector for its credentials, so overlapping creations may exceed the limit by as many. With S3, a reader may put a deleted file back into the
cache, and a store while versioning is suspended leaves a version that `get_object` refuses. The
lock of a backup is one per user id, and a killed backup leaves the services stopped. A page that was archived while it was listed and
is back before the removal loses its document, and its extractions with it, and so does one that the listing missed since an answer had more but no cursor
(`sync.py:130-133`, `client.py:124-126`); the next synchronisation makes it anew (`ExistingPagesKept` names both cases). A sync that removes a page clears the
questions and asks for no new ones; one that renames a page may change what would be sampled, and asks for none either.

*Questions.* "The query row is recorded no matter how the stream ends" (`generation/service.py:12-13`) does not hold outside a conversation,
where a failure to record is only logged, nor where the quotes of what was streamed cannot be resolved: all handlers resolve them again before they
record (`service.py:384-388`, called from 655, 711 and 718), so nothing is attempted (the exception in `AlwaysAccountedFor`). A query outside a conversation has no version check either.
An answer that cites facts which were replaced meanwhile passes that check, since only the generation moves, and fails to be recorded by the citation's foreign key. Errors outside a conversation come without `meta`, and refusals send
`done` without `sources` (`query.py:3` gives another order). Transcripts show passages whatever
role asks now, and lose those whose chunks are replaced. A role with full access is told that
nothing is hidden, though a label that no role has may hide something. `_overlap_tail` is not
"bounded to the last half of the window" when the window is one unit. The docstring of fusion (found by
both ranks first) holds while `top_k <= k + 1`. An invalid citation may reach the client in a
delta, since deltas are streamed raw (`citations.py:3-5`), and `[8[9]]` becomes `[8]`. The text after a `QUOTES` marker that is
cut in mid-line is hidden. A list is paged by `accepted_at`, so a query that is recorded late may
appear on a page that was read.

*Ingestion and suggestions.* "First chunk of each ready document" (`suggestions.py:110`) are all unrestricted chunks by filename, 12 at most and until a budget of tokens is
used up: a restricted document, a later filename or one behind a long document is never drafted from (`Due` says of which documents it is certain). Passages of facts are sampled too, and their replacement asks for no refresh.
A document that fails last hides from the questions that others became
ready (`ingestion/tasks.py:117`; it is why `QuietIsFresh` is stated up to mishaps). `draft_candidates` discards a first, short completion for a second that may be
worse. With `keep = 1`, `select_final` cannot give both its guarantees. `Access: H.R. only` and groups longer
than 60 characters label nothing, and `Access: all - except HR` labels `all`, though
`access.py:16-18` says that a typo never opens a section (`MarkersHold` says what does hold); a marker line that text follows directly is no marker.

*Extraction.* Overlapping `update_schema` calls may store a rule that names a field the other removed; the next run then
raises inside its claim and the row stays pending, is enqueued by every recovery, and cannot be corrected
(409) (`DefinitionsStand` is stated up to this). `validate.py:3` promises issues and never exceptions, but
an integer field with an infinite number raises at line 99, and every field of the run is lost (the exception in `NothingLostInSilence`). A rule
whose `and`, `or` or chain is decided by its first operands fails although another one is missing, where `rules.py:4-6` has it unknown (`VerdictStands`). The date `2025-99-99` is accepted. A re-run drops the corrections of fields which the new
definition lacks, and its issues are about the model's values even where an edit is kept.

*Money and accounts.* `complete_json` presents partial sums of usage as complete. A stream that reports
two different usages keeps the first, whichever is more, and ends as `budget_unavailable` (`billing/service.py:180-183`; the exception in `KnownUsageKept`). A query's totals and its daily row are separate statements, in
which an unknown cost counts as none. A refresh of Google's keys that hangs or is cancelled throttles other sign-ins for 30 s,
and one key of another type in Google's answer fails a whole refresh. `writable` is true for an API key
that comes with an `Origin`, whose writes are refused.

*Notion.* `has_more` without a cursor ends a listing as if complete (`ListingHolds` says so). A page whose root is more than 64 levels up
is out of scope, and the answer is cached for all that lies on its way, so that which of them are listed depends on what is asked first (`connector.py:111-123`; the exception in `ScopeHolds`); a quote block without text drops its children.

## Not modelled

- *Web client, evaluation, corpus generation, audit and migrations* (`src/ui/`, `src/eval/`, `src/scripts/`, `src/corpus/`, `src/audit/`, `src/alembic/`): a client, and tools
  that run offline, one at a time. They share no state with a running server but what they do to it through its API or as its administrator.
- *Configuration, logging, error pages, rendering of mails and of JSON*: constants, outcomes and layout.
- *What libraries do*: image processing and Tesseract, PDF, DOCX and HTTP libraries, password hashing and encryption, PostgreSQL's full-text and vector
  search (which appear as "matches" and "near"). Their outcomes are inputs.
- *What models answer*, and the wording of prompts. Any output of the right shape is possible.
- *Searchable copies of scanned PDFs*: an ingestion writes one before it stores the chunks, and
  a deletion removes it as it does the original; a reader may ask for it instead of the original (`Access` has one file for both).
- *Seeding, listing and printing* of `cli.py`; the parts of `reprocess`, `wipe` and of publication that touch the modelled
  state are in `Ingestion`, `Suggestions`, `Idempotency` and `Access`.

## Plan

1. Proofs about the algorithms that are folds: the windows of `Chunking`, the spans of `Quotes` and the prompt of `Ranking`, as functions of the length.
2. Refinements: `Idempotency` of an abstract single execution; `Extraction` and `Ingestion` of one abstract claim; `Budget` of a plain
   sum with a limit.
3. Composition: `SourceSync` with `FileStore`, which each model what the other one sees of it; `Conversations` with `Accounts` at login.
