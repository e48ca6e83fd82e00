----------------------------- MODULE Ingestion -----------------------------
(* The life of the documents of one collection: app/ingestion/tasks.py (the *)
(* Celery task, its lease, its retries and the periodic recovery), with the *)
(* requests that reset or remove a document: the upload and the owner's     *)
(* retry (ingestion/service.py), the operator's reprocess (cli.py), a       *)
(* source's new text (sources/sync.py) and deletion (api/v1/documents.py).  *)
(*                                                                          *)
(* Time is counted in ticks: a timestamp of a row is the number of ticks    *)
(* until it is past, 0 when it is past, Null when the column is NULL.  A     *)
(* claim's token is the worker slot that made it: a slot runs one execution *)
(* of the task at a time, so two executions alive together never have the   *)
(* same token, as with uuid4.                                               *)
EXTENDS Integers, FiniteSets

CONSTANTS
  Document,     \* document ids, each used for one document only
  Worker,       \* slots of the Celery worker pool
  Content,      \* contents a stored file can have (its sha256)
  Null,
  MaxAttempts,  \* MAX_ATTEMPTS
  LeaseTicks,   \* LEASE_SECONDS
  HardLimit,    \* task_time_limit of workers/celery_app.py
  Backoff,      \* delay before attempt n + 1 when attempt n met a provider failure
  Throttle,     \* the 60 seconds between two publications by the recovery task
  MaxResets     \* bound: how many times owners ask for a document to be ingested again

ASSUME NullAssumption == Null \notin Document \cup Worker \cup Content \cup Nat
ASSUME AttemptsAssumption == MaxAttempts \in Nat /\ MaxAttempts > 0
ASSUME ResetsAssumption == MaxResets \in Nat
ASSUME TimeAssumption ==
  /\ LeaseTicks \in Nat /\ HardLimit \in Nat /\ Throttle \in Nat
  /\ Backoff \in [1 .. MaxAttempts -> Nat]
(* "ensure the persisted lease outlives the worker hard limit" *)
ASSUME LeaseAssumption == LeaseTicks > HardLimit

VARIABLES
  row,     \* the documents table, with the content each document's chunks came from
  job,     \* what each worker slot is executing, between its two transactions
  queue,   \* documents for which the broker holds a message
  loaded,  \* rows read by a running reprocess command, which holds the collection
  resets   \* how many times owners have asked, up to MaxResets

vars == <<row, job, queue, loaded, resets>>

Status == {"absent", "pending", "processing", "ready", "failed", "deleted"}
Live == {"pending", "processing", "ready", "failed"}
InFlight == {"pending", "processing"}

Time == Nat \cup {Null}
Row == [status : Status, token : Worker \cup {Null}, lease : Time,
        attempts : 0 .. MaxAttempts, wait : Time, throttle : Time,
        sha : Content \cup {Null}, chunks : Content \cup {Null}]
Job == [doc : Document \cup {Null}, sha : Content \cup {Null},
        attempt : 0 .. MaxAttempts, deadline : Nat]

NoRow(s) == [status |-> s, token |-> Null, lease |-> Null, attempts |-> 0,
             wait |-> Null, throttle |-> Null, sha |-> Null, chunks |-> Null]
NoJob == [doc |-> Null, sha |-> Null, attempt |-> 0, deadline |-> 0]

Init ==
  /\ row = [d \in Document |-> NoRow("absent")]
  /\ job = [w \in Worker |-> NoJob]
  /\ queue = {}
  /\ loaded = [d \in Document |-> Null]
  /\ resets = 0

-----------------------------------------------------------------------------
(* The broker. *)

(* A publication that fails is logged and dropped: the row is the durable entry. *)
Publish(d) == queue' \in {queue, queue \cup {d}}

(* A message may have been published twice, or be delivered again: it may stay. *)
Deliver(w, d) ==
  /\ job[w] = NoJob
  /\ d \in queue
  /\ queue' \in {queue, queue \ {d}}

LoseMessage(d) ==
  /\ d \in queue
  /\ queue' = queue \ {d}
  /\ UNCHANGED <<row, job, loaded, resets>>

-----------------------------------------------------------------------------
(* ingest_document: the claim. *)

Past(t) == t \in {Null, 0}

(* Mutant: the claim forgets the lease of a document being processed. *)
LeaseIgnored(r) == FALSE

LeaseLive(r) == ~Past(r.lease)

(* Mutant: expired leases are nobody's business. *)
PendingOnly(r) == r.status = "pending" /\ Past(r.wait)

Claimable(r) ==
  \/ r.status = "pending" /\ Past(r.wait)
  \/ r.status = "processing" /\ ~LeaseLive(r)

Exhausted(r) == r.attempts >= MaxAttempts

(* Deleted, terminal, held by a live lease, or not due: the message is dropped. *)
IgnoreMessage(w, d) ==
  /\ Deliver(w, d)
  /\ ~Claimable(row[d])
  /\ UNCHANGED <<row, job, loaded, resets>>

GiveUp(w, d) ==
  /\ Deliver(w, d)
  /\ Claimable(row[d])
  /\ Exhausted(row[d])
  /\ row' = [row EXCEPT ![d] = [@ EXCEPT !.status = "failed", !.token = Null, !.lease = Null]]
  /\ UNCHANGED <<job, loaded, resets>>

Claim(w, d) ==
  /\ Deliver(w, d)
  /\ Claimable(row[d])
  /\ ~Exhausted(row[d])
  /\ row' = [row EXCEPT ![d] = [@ EXCEPT !.status = "processing", !.token = w,
                                         !.lease = LeaseTicks,
                                         !.attempts = row[d].attempts + 1]]
  /\ job' = [job EXCEPT ![w] = [doc |-> d, sha |-> row[d].sha,
                                attempt |-> row[d].attempts + 1, deadline |-> HardLimit]]
  /\ UNCHANGED <<loaded, resets>>

-----------------------------------------------------------------------------
(* ingest_document: parsing and embedding happen outside any transaction,   *)
(* on the file the claim read; one of these transactions ends them.         *)

(* A running reprocess holds the collection row. *)
CollectionFree == \A d \in Document : loaded[d] = Null

Busy(w) == job[w].doc # Null
HoldsToken(w) == row[job[w].doc].token = w
Finished(w) == job' = [job EXCEPT ![w] = NoJob]

(* Mutant: the chunks are stored whoever holds the document by then. *)
StoreWithoutToken(w) ==
  /\ Busy(w)
  /\ CollectionFree
  /\ row' = [row EXCEPT ![job[w].doc] =
               [@ EXCEPT !.status = "ready", !.token = Null, !.lease = Null,
                         !.chunks = job[w].sha]]
  /\ Finished(w)
  /\ UNCHANGED <<queue, loaded, resets>>

StoreChunks(w) ==
  /\ Busy(w)
  /\ CollectionFree
  /\ row' = IF HoldsToken(w)
            THEN [row EXCEPT ![job[w].doc] =
                    [@ EXCEPT !.status = "ready", !.token = Null, !.lease = Null,
                              !.chunks = job[w].sha]]
            ELSE row
  /\ Finished(w)
  /\ UNCHANGED <<queue, loaded, resets>>

(* Mutant: so is the failure. *)
FailWithoutToken(w) ==
  /\ Busy(w)
  /\ row' = [row EXCEPT ![job[w].doc] =
               [@ EXCEPT !.status = "failed", !.token = Null, !.lease = Null]]
  /\ Finished(w)
  /\ UNCHANGED <<queue, loaded, resets>>

(* A budget, parser or unexpected error, the soft time limit, or the provider *)
(* failing the last attempt.                                                  *)
MarkFailed(w) ==
  /\ Busy(w)
  /\ row' = IF HoldsToken(w)
            THEN [row EXCEPT ![job[w].doc] =
                    [@ EXCEPT !.status = "failed", !.token = Null, !.lease = Null]]
            ELSE row
  /\ Finished(w)
  /\ UNCHANGED <<queue, loaded, resets>>

(* The embedding provider failed and attempts are left. *)
RetryLater(w) ==
  /\ Busy(w)
  /\ job[w].attempt < MaxAttempts
  /\ \/ /\ HoldsToken(w)
        /\ row' = [row EXCEPT ![job[w].doc] =
                     [@ EXCEPT !.status = "pending", !.token = Null, !.lease = Null,
                               !.wait = Backoff[job[w].attempt]]]
        /\ Publish(job[w].doc)
     \/ ~HoldsToken(w) /\ UNCHANGED <<row, queue>>
  /\ Finished(w)
  /\ UNCHANGED <<loaded, resets>>

(* The slot's process dies or meets the hard limit: the message is acknowledged *)
(* late, so it may come back.                                                   *)
WorkerLost(w) ==
  /\ Busy(w)
  /\ Publish(job[w].doc)
  /\ Finished(w)
  /\ UNCHANGED <<row, loaded, resets>>

-----------------------------------------------------------------------------
(* recover_ingestion, from beat. *)

Due(d) ==
  /\ Claimable(row[d])
  /\ Past(row[d].throttle)

(* It takes at most 100 rows and skips the locked ones, so any of the due rows; *)
(* the publications that fail leave the throttle behind.                        *)
RecoverIngestion(taken) ==
  /\ \A d \in taken : Due(d)
  /\ row' = [d \in Document |->
               IF d \in taken THEN [row[d] EXCEPT !.throttle = Throttle] ELSE row[d]]
  /\ queue' \in {queue \cup published : published \in SUBSET taken}
  /\ UNCHANGED <<job, loaded, resets>>

-----------------------------------------------------------------------------
(* Requests of owners and operators. *)

AsNew(r, c) == [r EXCEPT !.status = "pending", !.token = Null, !.lease = Null, !.attempts = 0,
                         !.wait = Null, !.throttle = Null, !.sha = c]

(* The unique constraint on (collection_id, sha256). *)
Unique(d, c) == \A e \in Document \ {d} : row[e].sha # c

SaveUpload(d, c) ==
  /\ CollectionFree
  /\ row[d].status = "absent"
  /\ Unique(d, c)
  /\ row' = [row EXCEPT ![d] = AsNew(@, c)]
  /\ Publish(d)
  /\ UNCHANGED <<job, loaded, resets>>

Asked == resets < MaxResets /\ resets' = resets + 1

RetryFailedDocument(d) ==
  /\ CollectionFree
  /\ row[d].status = "failed"
  /\ row' = [row EXCEPT ![d] = AsNew(@, @.sha)]
  /\ Publish(d)
  /\ Asked
  /\ UNCHANGED <<job, loaded>>

(* A source sync found other text for the document. *)
UpdateFromSource(d, c) ==
  /\ CollectionFree
  /\ row[d].status \in Live
  /\ c # row[d].sha
  /\ Unique(d, c)
  /\ row' = [row EXCEPT ![d] = AsNew(@, c)]
  /\ Publish(d)
  /\ Asked
  /\ UNCHANGED <<job, loaded>>

(* The reprocess command reads the documents under the collection's lock but  *)
(* does not lock them: a claim or a failure may commit before its own commit. *)
ReprocessLoad(D) ==
  /\ CollectionFree
  /\ D # {}
  /\ \A d \in D : row[d].status \in Live
  /\ loaded' = [d \in Document |-> IF d \in D THEN row[d] ELSE Null]
  /\ Asked
  /\ UNCHANGED <<row, job, queue>>

(* The commit writes the columns whose new value differs from the one read; the *)
(* others keep what the row has become.                                         *)
Rewritten(now, read) ==
  LET new == AsNew(read, read.sha)
      Column(c, before, after) == IF before = after THEN c ELSE after
  IN  [now EXCEPT !.status = Column(@, read.status, new.status),
                  !.token = Column(@, read.token, new.token),
                  !.lease = Column(@, read.lease, new.lease),
                  !.attempts = Column(@, read.attempts, new.attempts),
                  !.wait = Column(@, read.wait, new.wait),
                  !.throttle = Column(@, read.throttle, new.throttle)]

(* The messages are published after the commit; one that fails stops the rest. *)
ReprocessCommit(published) ==
  /\ ~CollectionFree
  /\ published \subseteq {d \in Document : loaded[d] # Null}
  /\ row' = [d \in Document |->
               IF loaded[d] = Null THEN row[d] ELSE Rewritten(row[d], loaded[d])]
  /\ queue' = queue \cup published
  /\ loaded' = [d \in Document |-> Null]
  /\ UNCHANGED <<job, resets>>

(* Deletion by the owner, by a wipe, or because the source dropped the page. *)
DeleteDocument(d) ==
  /\ CollectionFree
  /\ row[d].status \in Live
  /\ row' = [row EXCEPT ![d] = NoRow("deleted")]
  /\ UNCHANGED <<job, queue, loaded, resets>>

-----------------------------------------------------------------------------
(* A tick passes only while no execution is at its hard limit: the pool kills *)
(* such an execution first.                                                   *)
Less(t) == IF Past(t) THEN t ELSE t - 1

Tick ==
  /\ \A w \in Worker : Busy(w) => job[w].deadline > 0
  /\ row' = [d \in Document |-> [row[d] EXCEPT !.lease = Less(@), !.wait = Less(@),
                                               !.throttle = Less(@)]]
  /\ job' = [w \in Worker |-> [job[w] EXCEPT !.deadline = Less(@)]]
  /\ UNCHANGED <<queue, loaded, resets>>

-----------------------------------------------------------------------------
TaskStep(w) == StoreChunks(w) \/ MarkFailed(w) \/ RetryLater(w) \/ WorkerLost(w)

Next ==
  \/ \E w \in Worker, d \in Document : IgnoreMessage(w, d) \/ GiveUp(w, d) \/ Claim(w, d)
  \/ \E w \in Worker : TaskStep(w)
  \/ \E d \in Document : LoseMessage(d) \/ RetryFailedDocument(d) \/ DeleteDocument(d)
  \/ \E d \in Document, c \in Content : SaveUpload(d, c) \/ UpdateFromSource(d, c)
  \/ \E D \in SUBSET Document :
       RecoverIngestion(D) \/ ReprocessLoad(D) \/ ReprocessCommit(D)
  \/ Tick

Spec == Init /\ [][Next]_vars

(* Time passes; beat runs the recovery every minute and its publications succeed *)
(* now and then; the pool takes messages in order, and ends every execution, by  *)
(* the hard limit if by nothing else; a command that holds a lock commits.       *)
Fairness ==
  /\ WF_vars(Tick)
  /\ \A w \in Worker : WF_vars(TaskStep(w))
  /\ \A d \in Document :
       /\ SF_vars(\E D \in SUBSET Document : d \in D /\ RecoverIngestion(D) /\ d \in queue')
       /\ SF_vars(\E w \in Worker : GiveUp(w, d) \/ Claim(w, d))
  /\ WF_vars(\E D \in SUBSET Document : ReprocessCommit(D))

FairSpec == Spec /\ Fairness

-----------------------------------------------------------------------------
TypeOK ==
  /\ row \in [Document -> Row]
  /\ job \in [Worker -> Job]
  /\ queue \subseteq Document
  /\ loaded \in [Document -> Row \cup {Null}]
  /\ resets \in 0 .. MaxResets

(* What search reads from a ready document was made from the file it has now,   *)
(* whatever claims were outstanding when a source replaced that file: the token *)
(* check of _store_chunks.                                                      *)
ReadyMatchesFile ==
  \A d \in Document : row[d].status = "ready" => row[d].chunks = row[d].sha

(* A claim is lost only by what its own execution does, or because an owner reset *)
(* or deleted the document: no other execution, and no recovery, takes a document *)
(* from an execution that is still running (LEASE_SECONDS against the hard limit, *)
(* and the token checks of the failure paths).                                    *)
ClaimHeld ==
  [][\A w \in Worker :
       Busy(w) /\ HoldsToken(w) =>
         LET d == job[w].doc IN
           \/ row'[d].token = w
           \/ job'[w] = NoJob
           \/ row'[d].status = "deleted"
           \/ row'[d].status = "pending" /\ <<resets, loaded>>' # <<resets, loaded>>]_vars

(* Ingestion does what DocumentLifecycle promises. *)
Lifecycle == INSTANCE DocumentLifecycle WITH
  phase <- [d \in Document |-> row[d].status],
  file <- [d \in Document |-> row[d].sha],
  index <- [d \in Document |-> row[d].chunks]

LifecycleSpec == Lifecycle!Spec

(* Every document in flight is settled: lost messages, dead workers, failed      *)
(* publications and provider failures delay it, and the owners' requests are     *)
(* bounded (recover_ingestion and the attempts counter of ingest_document).      *)
InFlightSettles ==
  \A d \in Document : row[d].status \in InFlight ~> row[d].status \notin InFlight

-----------------------------------------------------------------------------
(* The inductive invariant: what the claims, the rows and a running reprocess   *)
(* know of each other.                                                          *)

(* The token and the lease are set exactly while a row is being processed, and *)
(* a row that exists has a file.                                               *)
RowConsistent(r) ==
  /\ r.status = "processing" <=> r.token # Null
  /\ r.token = Null <=> r.lease = Null
  /\ r.status \in Live <=> r.sha # Null
  /\ r.status = "ready" => r.chunks = r.sha

(* An execution that holds the token works on the current file, under a lease  *)
(* that outlives it.                                                           *)
ClaimConsistent(w) ==
  Busy(w) =>
    /\ job[w].sha # Null /\ job[w].attempt # 0
    /\ HoldsToken(w) => /\ row[job[w].doc].sha = job[w].sha
                        /\ row[job[w].doc].lease > job[w].deadline

(* Nothing leaves a terminal state, and nothing becomes ready, under reprocess. *)
LoadedConsistent(d) ==
  loaded[d] # Null =>
    /\ RowConsistent(loaded[d])
    /\ loaded[d].status \in Live
    /\ row[d].status \in Live
    /\ loaded[d].status \in {"ready", "failed"} => row[d].status = loaded[d].status

IInv ==
  /\ TypeOK
  /\ \A d \in Document : RowConsistent(row[d]) /\ LoadedConsistent(d)
  /\ \A w \in Worker : ClaimConsistent(w)
=============================================================================
