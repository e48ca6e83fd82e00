---------------------------- MODULE Suggestions ----------------------------
(* The suggested questions of one collection: the refresh at the end of an  *)
(* ingestion (ingestion/tasks.py), the task that drafts the questions       *)
(* (generation/tasks.py), and the requests that change the corpus under it. *)
(* A document's text is a number that a source's update raises; questions   *)
(* are identified with the texts they were drafted from.  A sample takes     *)
(* unrestricted chunks only, by filename, as many as it has room for; chunks *)
(* are taken to be of one size, so that its two limits are one number.       *)
(* The passages of facts, which it takes as well, are left out.              *)
EXTENDS Integers, FiniteSets, FiniteSetsExt

CONSTANTS
  Document,    \* document ids, each used once
  Slot,        \* slots of the Celery worker pool
  Null,
  Name,        \* filenames, in their order
  Open,        \* the number of unrestricted chunks of each text of a document
  Room,        \* SAMPLE_MAX_DOCS, or as many chunks as SAMPLE_TOKEN_CAP has room for
  Scenarios,   \* sets of Mishap: an execution meets the mishaps of one of them
  MaxChanges,  \* bound: how many times documents are reset
  MaxClock     \* bound: a failing ingestion reads the clock only before this

Mishap == {"failure", "broker", "provider", "crash", "vanish", "rename"}

ASSUME ScenariosAssumption == Scenarios \subseteq SUBSET Mishap
ASSUME BoundsAssumption == MaxChanges \in Nat /\ MaxClock \in Nat
ASSUME SampleAssumption ==
  /\ Name \subseteq Nat /\ Room \in Nat \ {0}
  /\ Open \in [Document -> [1 .. MaxChanges + 1 -> Nat]]

VARIABLES
  doc,       \* the documents: status, text, and when they were last processed (0: NULL)
  name,      \* the documents' filenames
  coll,      \* the columns of the collection
  slot,      \* what each worker slot is doing
  queue,     \* revisions for which the broker holds a suggest_questions message
  clock,     \* the workers' clock, which advances at each reading
  changes,   \* resets so far, up to MaxChanges
  may        \* the scenario: what may go wrong, or happen without a refresh

vars == <<doc, name, coll, slot, queue, clock, changes, may>>

Status == {"absent", "inflight", "ready", "failed", "deleted"}
Live == {"inflight", "ready", "failed"}

Init ==
  /\ doc = [d \in Document |-> [st |-> "absent", text |-> 0, processed |-> 0]]
  /\ name \in [Document -> Name]
  /\ coll = [questions |-> Null, version |-> 0, revision |-> 0]
  /\ slot = [w \in Slot |-> Null]
  /\ queue = {}
  /\ clock = 0
  /\ changes = 0
  /\ may \in Scenarios

-----------------------------------------------------------------------------
(* The texts of the ready documents, 0 for the others. *)
Corpus == [d \in Document |-> IF doc[d].st = "ready" THEN doc[d].text ELSE 0]
Empty == [d \in Document |-> 0]

(* What sample_excerpts may read of a corpus: the texts whose unrestricted chunks come *)
(* first by filename, up to Room chunks; those of one filename come in any order.      *)
SamplesOf(corpus, names) ==
  LET public == {d \in Document : corpus[d] # 0 /\ Open[d][corpus[d]] > 0}
      chunks(D) == MapThenSumSet(LAMBDA d : Open[d][corpus[d]], D)
      last(D) == {d \in D : \A e \in D : names[e] <= names[d]}
      taken(D) == /\ \A d \in D, e \in public \ D : names[d] <= names[e]
                  /\ chunks(D \ last(D)) + Cardinality(last(D)) <= Room
                  /\ D = public \/ chunks(D) >= Room
  IN  {[d \in Document |-> IF d \in D THEN corpus[d] ELSE 0] :
         D \in {S \in SUBSET public : taken(S)}}

Samples == SamplesOf(Corpus, name)

Enter(w, job) == slot[w] = Null /\ slot' = [slot EXCEPT ![w] = job]
Leave(w) == slot' = [slot EXCEPT ![w] = Null]
At(w, at) == slot[w] # Null /\ slot[w].at = at

(* A failing ingestion holds its document's row from its reading to its commit. *)
Free(d) == \A w \in Slot : At(w, "failing") => slot[w].doc # d

Publish(r) == queue' \in {queue \cup {r}} \cup (IF "broker" \in may THEN {queue} ELSE {})

(* The corpus changes: questions in the making are fenced off, those stored dropped. *)
Changed(revision) ==
  coll' = [questions |-> Null, version |-> coll.version + 1, revision |-> revision]

-----------------------------------------------------------------------------
(* Requests. *)

Named(d) == \E n \in Name : name' = [name EXCEPT ![d] = n]

SaveUpload(d) ==
  /\ doc[d].st = "absent"
  /\ doc' = [doc EXCEPT ![d] = [st |-> "inflight", text |-> 1, processed |-> 0]]
  /\ UNCHANGED <<name, coll, slot, queue, clock, changes, may>>

Reset(new) ==
  /\ changes < MaxChanges
  /\ changes' = changes + 1
  /\ doc' = new
  /\ Changed(coll.revision)
  /\ UNCHANGED <<slot, queue, clock, may>>

RetryFailedDocument(d) ==
  /\ doc[d].st = "failed"
  /\ Reset([doc EXCEPT ![d].st = "inflight", ![d].processed = 0])
  /\ UNCHANGED name

UpdateFromSource(d) ==
  /\ doc[d].st \in Live /\ Free(d)
  /\ Reset([doc EXCEPT ![d] = [st |-> "inflight", text |-> @.text + 1, processed |-> 0]])
  /\ Named(d)

(* A page of another title, but of the same text: the row says so, and nothing else does. *)
RenameFromSource(d) ==
  /\ "rename" \in may
  /\ doc[d].st \in Live /\ Free(d)
  /\ Named(d)
  /\ UNCHANGED <<doc, coll, slot, queue, clock, changes, may>>

(* The operator's command keeps processed_at. *)
Reprocess(D) ==
  /\ D # {}
  /\ \A d \in D : doc[d].st \in Live /\ Free(d)
  /\ Reset([d \in Document |-> IF d \in D THEN [doc[d] EXCEPT !.st = "inflight"] ELSE doc[d]])
  /\ UNCHANGED name

Removed(d) ==
  /\ doc[d].st \in Live /\ Free(d)
  /\ doc' = [doc EXCEPT ![d] = [st |-> "deleted", text |-> 0, processed |-> 0]]

DeleteDocument(d) ==
  /\ Removed(d)
  /\ Changed(coll.revision + 1)
  /\ Publish(coll.revision + 1)
  /\ UNCHANGED <<name, slot, clock, changes, may>>

(* A sync removes a page that its source dropped. *)
RemoveVanished(d) ==
  /\ "vanish" \in may
  /\ Removed(d)
  /\ Changed(coll.revision)
  /\ UNCHANGED <<name, slot, queue, clock, changes, may>>

-----------------------------------------------------------------------------
(* The end of an ingestion. *)

(* _store_chunks reads the clock while it holds the collection. *)
StoreChunks(w, d) ==
  /\ doc[d].st = "inflight" /\ Free(d)
  /\ doc' = [doc EXCEPT ![d].st = "ready", ![d].processed = clock + 1]
  /\ clock' = clock + 1
  /\ Enter(w, [at |-> "refresh", doc |-> d, changed |-> TRUE])
  /\ UNCHANGED <<name, coll, queue, changes, may>>

(* _mark_failed and the exhausted claim hold the document only: other documents *)
(* may be processed between their reading of the clock and their commit.        *)
MarkFailed(w, d) ==
  /\ "failure" \in may /\ clock < MaxClock
  /\ doc[d].st = "inflight" /\ Free(d)
  /\ clock' = clock + 1
  /\ Enter(w, [at |-> "failing", doc |-> d, processed |-> clock + 1])
  /\ UNCHANGED <<doc, name, coll, queue, changes, may>>

CommitFailed(w) ==
  /\ At(w, "failing")
  /\ doc' = [doc EXCEPT ![slot[w].doc].st = "failed",
                        ![slot[w].doc].processed = slot[w].processed]
  /\ slot' = [slot EXCEPT ![w] = [at |-> "refresh", doc |-> slot[w].doc, changed |-> FALSE]]
  /\ UNCHANGED <<name, coll, queue, clock, changes, may>>

(* Mutant: the first document to settle asks, not the last. *)
Earliest(d) ==
  /\ doc[d].processed # 0
  /\ \A e \in Document : doc[e].processed # 0 => doc[e].processed >= doc[d].processed

Latest(d) ==
  /\ doc[d].processed # 0
  /\ \A e \in Document : doc[e].processed <= doc[d].processed

Settled == \A d \in Document : doc[d].st # "inflight"

(* _refresh_suggestions_if_settled. *)
Refresh(w) ==
  LET asks == /\ Settled
              /\ Latest(slot[w].doc)
              /\ slot[w].changed \/ coll.questions = Null
  IN  /\ At(w, "refresh")
      /\ \/ /\ asks
            /\ coll' = [coll EXCEPT !.revision = @ + 1]
            /\ Publish(coll.revision + 1)
         \/ ~asks /\ UNCHANGED <<coll, queue>>
      /\ Leave(w)
      /\ UNCHANGED <<doc, name, clock, changes, may>>

-----------------------------------------------------------------------------
(* suggest_questions. *)

(* A message whose trigger was superseded is dropped. *)
TaskStart(w, r) ==
  /\ r \in queue
  /\ queue' \in {queue \ {r}} \cup (IF "broker" \in may THEN {queue} ELSE {})
  /\ slot[w] = Null
  /\ IF r = coll.revision
     THEN Enter(w, [at |-> "sampling", revision |-> r, version |-> coll.version])
     ELSE UNCHANGED slot
  /\ UNCHANGED <<doc, name, coll, clock, changes, may>>

TaskSample(w) ==
  /\ At(w, "sampling")
  /\ \E sample \in Samples :
       slot' = [slot EXCEPT ![w] = [at |-> "drafting", revision |-> @.revision,
                                    version |-> @.version, sample |-> sample]]
  /\ UNCHANGED <<doc, name, coll, queue, clock, changes, may>>

(* Mutants: half of the fence each. *)
FreshRevision(job) == coll.revision = job.revision
FreshVersion(job) == coll.version = job.version

(* With no excerpts the questions are cleared, or are one about the filename of a     *)
(* restricted document; with some they are drafted outside any transaction; either is *)
(* stored only if nothing superseded the snapshot.                                    *)
Fresh(job) == coll.version = job.version /\ coll.revision = job.revision

TaskStore(w) ==
  /\ At(w, "drafting")
  /\ \E drafted \in {slot[w].sample} \cup (IF slot[w].sample = Empty THEN {Null} ELSE {}) :
       coll' = IF Fresh(slot[w]) THEN [coll EXCEPT !.questions = drafted] ELSE coll
  /\ Leave(w)
  /\ UNCHANGED <<doc, name, queue, clock, changes, may>>

(* A provider failure is retried until it has failed four times; a budget or an  *)
(* unexpected error, and an empty completion, are not.                           *)
TaskFail(w) ==
  /\ "provider" \in may
  /\ At(w, "drafting")
  /\ slot[w].sample # Empty
  /\ queue' \in {queue, queue \cup {slot[w].revision}}
  /\ Leave(w)
  /\ UNCHANGED <<doc, name, coll, clock, changes, may>>

(* The message of an interrupted ingestion that is delivered again finds a settled *)
(* document, or one to ingest again; that of suggest_questions starts it over.     *)
Crash(w) ==
  /\ "crash" \in may
  /\ slot[w] # Null
  /\ Leave(w)
  /\ IF slot[w].at \in {"sampling", "drafting"}
     THEN queue' \in {queue, queue \cup {slot[w].revision}}
     ELSE UNCHANGED queue
  /\ UNCHANGED <<doc, name, coll, clock, changes, may>>

-----------------------------------------------------------------------------
WorkerStep(w) ==
  \/ \E d \in Document : StoreChunks(w, d) \/ MarkFailed(w, d)
  \/ CommitFailed(w) \/ Refresh(w)
  \/ \E r \in queue : TaskStart(w, r)
  \/ TaskSample(w) \/ TaskStore(w) \/ TaskFail(w) \/ Crash(w)

Next ==
  \/ \E w \in Slot : WorkerStep(w)
  \/ \E d \in Document : \/ SaveUpload(d) \/ RetryFailedDocument(d) \/ UpdateFromSource(d)
                         \/ DeleteDocument(d) \/ RemoveVanished(d) \/ RenameFromSource(d)
  \/ \E D \in SUBSET Document : Reprocess(D)

Spec == Init /\ [][Next]_vars

(* The pool goes on working: what is in flight is ingested (Ingestion), messages *)
(* are taken and every task ends.                                                *)
Fairness ==
  /\ \A d \in Document : WF_vars(\E w \in Slot : StoreChunks(w, d))
  /\ \A w \in Slot : WF_vars(CommitFailed(w) \/ Refresh(w) \/ TaskSample(w) \/ TaskStore(w))
  /\ WF_vars(\E w \in Slot, r \in queue : TaskStart(w, r))

FairSpec == Spec /\ Fairness

-----------------------------------------------------------------------------
Texts == [Document -> Nat]
Job == [at : {"refresh"}, doc : Document, changed : BOOLEAN]
       \cup [at : {"failing"}, doc : Document, processed : Nat]
       \cup [at : {"sampling"}, revision : Nat, version : Nat]
       \cup [at : {"drafting"}, revision : Nat, version : Nat, sample : Texts]

ASSUME JobAssumption == Null \notin Job \cup Texts

TypeOK ==
  /\ doc \in [Document -> [st : Status, text : Nat, processed : Nat]]
  /\ name \in [Document -> Name]
  /\ coll \in [questions : Texts \cup {Null}, version : Nat, revision : Nat]
  /\ slot \in [Slot -> Job \cup {Null}]
  /\ queue \subseteq Nat
  /\ clock \in Nat
  /\ changes \in 0 .. MaxChanges
  /\ may \in Scenarios

(* "Every question must be answerable": each text the stored questions were drafted *)
(* from is in the corpus, whatever was removed, replaced or reset while a task was  *)
(* drafting them (the version and revision that suggest_questions checks at the     *)
(* end, and every request that raises them).                                        *)
QuestionsAnswerable ==
  coll.questions # Null =>
    \A d \in Document : coll.questions[d] # 0 => coll.questions[d] = Corpus[d]

(* The rows keep their types, and what is suggested can be answered.          *)
Inv == TypeOK /\ QuestionsAnswerable

Quiet == Settled /\ queue = {} /\ \A w \in Slot : slot[w] = Null

(* "when nothing is left in flight, a suggested-questions refresh is enqueued": once *)
(* the pool is idle, questions that exist were drafted from a sample of the corpus   *)
(* as it is now, not of an earlier one.                                              *)
QuietIsFresh == Quiet => coll.questions \in {Null} \cup Samples

(* The same where no ingestion fails, no message is lost, no worker dies, and a sync *)
(* neither removes nor renames a document: those two ask for no refresh.             *)
QuietIsFreshUnlessMishap == may = {} => QuietIsFresh

(* Without mishaps, a document that any sample would have is drafted from, unless it is *)
(* reset or removed, or others take its place in the sample (the refresh of the last    *)
(* document to settle, and the task it asks).  Restricted documents, and those that the *)
(* sample has no room for, need never be.                                               *)
Asked(d) == coll.questions # Null /\ coll.questions[d] = doc[d].text

Due(d) == \A sample \in Samples : sample[d] # 0

ReadyGetsAsked == may = {} => \A d \in Document : Due(d) ~> Asked(d) \/ ~Due(d)

-----------------------------------------------------------------------------
(* The inductive invariant.  What a task read is superseded, or still true of every *)
(* document that it found ready; a failing ingestion keeps its document in flight.   *)
TaskConsistent(w) ==
  /\ slot[w] # Null /\ slot[w].at \in {"sampling", "drafting"} =>
       slot[w].version <= coll.version /\ slot[w].revision <= coll.revision
  /\ At(w, "drafting") /\ slot[w].version = coll.version =>
       \A d \in Document : slot[w].sample[d] # 0 => slot[w].sample[d] = Corpus[d]

FailingConsistent(w) ==
  At(w, "failing") =>
    /\ may # {} /\ doc[slot[w].doc].st = "inflight" /\ slot[w].processed <= clock
    /\ \A v \in Slot : At(v, "failing") /\ slot[v].doc = slot[w].doc => v = w

(* The last document to settle is about to ask for questions. *)
Asking == \E v \in Slot : At(v, "refresh") /\ slot[v].changed /\ Latest(slot[v].doc)

(* They are asked for, or in the making. *)
Coming ==
  \/ Asking
  \/ coll.revision \in queue
  \/ \E v \in Slot : At(v, "sampling") /\ Fresh(slot[v])
  \/ \E v \in Slot : At(v, "drafting") /\ Fresh(slot[v]) /\ slot[v].sample \in Samples

(* Without mishaps, questions and drafts of an earlier sample will be replaced. *)
FreshOnesCome ==
  may = {} /\ Settled =>
    /\ coll.questions \notin {Null} \cup Samples => Coming
    /\ \A w \in Slot :
         At(w, "drafting") /\ Fresh(slot[w]) /\ slot[w].sample \notin Samples => Asking

IInv ==
  /\ Inv
  /\ \A d \in Document : doc[d].processed <= clock
  /\ \A w \in Slot : TaskConsistent(w) /\ FailingConsistent(w)
  /\ FreshOnesCome
=============================================================================
