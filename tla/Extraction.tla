----------------------------- MODULE Extraction -----------------------------
(* Structured extraction: the rows of one tenant's extractions and the facts   *)
(* chunks they add to the corpus.  Requests, corrections and deletions are in  *)
(* api/v1/extraction.py, the worker's execution in extraction/service.py, the  *)
(* task and the recovery in extraction/tasks.py.  An extraction has one field. *)
(* A facts chunk has the name of the run that made it, for ids never return.   *)
EXTENDS Integers, FiniteSets

CONSTANTS
  Document,
  Extraction,    \* extraction ids, each used for one row only
  Schema,
  Run,           \* executions of the task, each with a token of its own
  Remover,       \* requests that delete an extraction or a schema
  Value,         \* values the field can have, absence included
  Null,
  Deleted,
  Doc, Of,       \* the document and the schema of each extraction
  AbandonTicks,  \* the 660 seconds after which a claim is abandoned
  HardLimit,     \* task_time_limit of workers/celery_app.py
  May            \* what may go wrong beside lost work: "crash" of a remover

ASSUME NullAssumption ==
  /\ {Null, Deleted} \cap (Run \cup Extraction \cup Schema) = {}
  /\ Null # Deleted
  /\ Extraction \cap Schema = {}
ASSUME OwnerAssumption ==
  Doc \in [Extraction -> Document] /\ Of \in [Extraction -> Schema]
ASSUME TimeAssumption ==
  AbandonTicks \in Nat /\ HardLimit \in Nat /\ HardLimit < AbandonTicks

VARIABLES
  row,      \* the extractions; Null before, Deleted after
  gone,     \* documents and schemas that were deleted
  facts,    \* the facts chunk each run left in the corpus, or Null
  run,      \* what each execution works on; Null before, Deleted after
  remover,  \* what each removing request has read
  queue     \* extractions with a message in the broker

vars == <<row, gone, facts, run, remover, queue>>

Field == [value : Value, edited : BOOLEAN]
Row == [status : {"pending", "processing", "ready", "failed"},
        token : Run \cup {Null}, field : Field \cup {Null},
        chunk : Run \cup {Null}, lease : 0 .. AbandonTicks]
Chunk == [doc : Document, value : Value]
Job == [ext : Extraction, kept : Field \cup {Null}, deadline : 0 .. HardLimit]
Removal == [target : Extraction \cup Schema, done : BOOLEAN, chunks : SUBSET (Document \X Run)]

ASSUME RecordAssumption == {Null, Deleted} \cap (Row \cup Job \cup Removal) = {}

Init ==
  /\ row = [x \in Extraction |-> Null]
  /\ gone = {}
  /\ facts = [r \in Run |-> Null]
  /\ run = [r \in Run |-> Null]
  /\ remover = [p \in Remover |-> Null]
  /\ queue = {}

-----------------------------------------------------------------------------
Stored(x) == row[x] \notin {Null, Deleted}
Working(r) == run[r] \notin {Null, Deleted}

(* The facts that are left when the chunk with the id c goes from document d. *)
Without(d, c) ==
  [r \in Run |-> IF r = c /\ facts[r] # Null /\ facts[r].doc = d THEN Null ELSE facts[r]]

(* The message may fail to be published, and the row waits for the recovery. *)
Publish(X) == \E P \in SUBSET X : queue' = queue \cup P

(* The broker delivers at least once. *)
Consume(x) == x \in queue /\ (queue' = queue \/ queue' = queue \ {x})

(* The unique constraint on (document_id, schema_id). *)
Unique(x) == \A y \in Extraction \ {x} : Stored(y) => Doc[y] # Doc[x] \/ Of[y] # Of[x]

(* request_extraction, for the first time. *)
RequestFirst(x) ==
  /\ row[x] = Null /\ Unique(x)
  /\ Doc[x] \notin gone /\ Of[x] \notin gone
  /\ row' = [row EXCEPT ![x] = [status |-> "pending", token |-> Null, field |-> Null,
                                chunk |-> Null, lease |-> 0]]
  /\ Publish({x})
  /\ UNCHANGED <<gone, facts, run, remover>>

(* request_extraction again; with force it discards what a human wrote. *)
RequestAgain(x, force) ==
  /\ Stored(x)
  /\ row[x].status # "processing"
  /\ row' = [row EXCEPT ![x].status = "pending", ![x].token = Null,
                        ![x].field = IF force THEN Null ELSE @]
  /\ Publish({x})
  /\ UNCHANGED <<gone, facts, run, remover>>

(* A message for a row that is gone, done, or in another worker's hands; and the *)
(* broker's losses, and claims whose transaction fails (_billing may raise).     *)
DropMessage(x) ==
  /\ x \in queue
  /\ queue' = queue \ {x}
  /\ UNCHANGED <<row, gone, facts, run, remover>>

(* Mutant: another execution's claim is no reason to stop. *)
ClaimAnyway(r, x) ==
  /\ run[r] = Null
  /\ Consume(x)
  /\ Stored(x)
  /\ row[x].status \in {"pending", "processing"}
  /\ row' = [row EXCEPT ![x].status = "processing", ![x].token = r, ![x].lease = AbandonTicks]
  /\ run' = [run EXCEPT ![r] = [ext |-> x, kept |-> row[x].field, deadline |-> HardLimit]]
  /\ UNCHANGED <<gone, facts, remover>>

(* run_extraction: its first transaction claims the row and reads the fields. *)
Claim(r, x) ==
  /\ run[r] = Null
  /\ Consume(x)
  /\ Stored(x)
  /\ row[x].status = "pending"
  /\ row' = [row EXCEPT ![x].status = "processing", ![x].token = r, ![x].lease = AbandonTicks]
  /\ run' = [run EXCEPT ![r] = [ext |-> x, kept |-> row[x].field, deadline |-> HardLimit]]
  /\ UNCHANGED <<gone, facts, remover>>

HoldsToken(r) == Stored(run[r].ext) /\ row[run[r].ext].token = r

Ended(r) == run' = [run EXCEPT ![r] = Deleted]

(* A human's correction outlives re-runs. *)
Merge(kept, v) ==
  IF kept # Null /\ kept.edited THEN kept ELSE [value |-> v, edited |-> FALSE]

(* The execution ends with a value; its facts replace the ones the row has now, *)
(* or remove them when the schema does not index, or the embedding failed.      *)
Finalize(r, v, indexed) ==
  LET x == run[r].ext
      field == Merge(run[r].kept, v)
  IN  /\ Working(r)
      /\ HoldsToken(r)
      /\ row' = [row EXCEPT ![x].status = "ready", ![x].token = Null, ![x].field = field,
                            ![x].chunk = IF indexed THEN r ELSE Null]
      /\ facts' = [Without(Doc[x], row[x].chunk) EXCEPT
                     ![r] = IF indexed THEN [doc |-> Doc[x], value |-> field.value] ELSE Null]
      /\ Ended(r)
      /\ UNCHANGED <<gone, remover, queue>>

(* A provider, a budget or the worker's code fails the execution. *)
Fail(r) ==
  /\ Working(r)
  /\ HoldsToken(r)
  /\ row' = [row EXCEPT ![run[r].ext].status = "failed", ![run[r].ext].token = Null]
  /\ Ended(r)
  /\ UNCHANGED <<gone, facts, remover, queue>>

(* The worker dies, or comes back without its token. *)
EndLost(r) ==
  /\ Working(r)
  /\ Ended(r)
  /\ UNCHANGED <<row, gone, facts, remover, queue>>

(* Mutant: abandoned claims are nobody's business. *)
DuePending(x) == Stored(x) /\ row[x].status = "pending"

(* The rows that the recovery selects; a pending one is due within a tick. *)
Due(x) ==
  /\ Stored(x)
  /\ \/ row[x].status = "pending"
     \/ row[x].status = "processing" /\ row[x].lease = 0

(* recover_extractions handles the rows that nobody else has locked. *)
RecoverExtractions(X) ==
  /\ X # {} /\ \A x \in X : Due(x)
  /\ row' = [x \in Extraction |->
               IF x \in X /\ row[x].status = "processing"
               THEN [row[x] EXCEPT !.status = "failed", !.token = Null]
               ELSE row[x]]
  /\ Publish({x \in X : row[x].status = "pending"})
  /\ UNCHANGED <<gone, facts, run, remover>>

-----------------------------------------------------------------------------
(* Mutant: a human corrects an extraction while it is running again. *)
PatchAnytime(x, v) ==
  /\ Stored(x)
  /\ row' = [row EXCEPT ![x].field = [value |-> v, edited |-> TRUE], ![x].chunk = Null]
  /\ facts' = Without(Doc[x], row[x].chunk)
  /\ UNCHANGED <<gone, run, remover, queue>>

(* Mutant: the facts wait for the next run. *)
PatchKeepingFacts(x, v) ==
  /\ Stored(x)
  /\ row[x].status \in {"ready", "failed"}
  /\ row' = [row EXCEPT ![x].field = [value |-> v, edited |-> TRUE]]
  /\ UNCHANGED <<gone, facts, run, remover, queue>>

(* patch_extraction: a value is set or cleared, and the facts go with the old one. *)
PatchExtraction(x, v) ==
  /\ Stored(x)
  /\ row[x].status \in {"ready", "failed"}
  /\ row' = [row EXCEPT ![x].field = [value |-> v, edited |-> TRUE], ![x].chunk = Null]
  /\ facts' = Without(Doc[x], row[x].chunk)
  /\ UNCHANGED <<gone, run, remover, queue>>

(* What goes when an extraction or a schema is deleted. *)
Targets(t) == {x \in Extraction : Stored(x) /\ t \in {x, Of[x]}}

Deleting(X) == row' = [x \in Extraction |-> IF x \in X THEN Deleted ELSE row[x]]

(* delete_extraction and delete_schema read the ids of the facts, without a lock. *)
ReadFacts(p, t) ==
  /\ remover[p] = Null
  /\ t \in Schema \ gone \/ (t \in Extraction /\ Stored(t))
  /\ remover' = [remover EXCEPT ![p] =
       [target |-> t, done |-> FALSE,
        chunks |-> {<<Doc[x], row[x].chunk>> : x \in {y \in Targets(t) : row[y].chunk # Null}}]]
  /\ UNCHANGED <<row, gone, facts, run, queue>>

(* Mutant: the facts are left to the cascade, which does not know of them. *)
CommitDeleteOnly(p) ==
  /\ remover[p] \notin {Null, Deleted} /\ ~remover[p].done
  /\ Deleting(Targets(remover[p].target))
  /\ gone' = gone \cup ({remover[p].target} \cap Schema)
  /\ remover' = [remover EXCEPT ![p].done = TRUE, ![p].chunks = {}]
  /\ UNCHANGED <<facts, run, queue>>

(* They delete the row, or the schema with every row that it has by then. *)
CommitDelete(p) ==
  /\ remover[p] \notin {Null, Deleted} /\ ~remover[p].done
  /\ Deleting(Targets(remover[p].target))
  /\ gone' = gone \cup ({remover[p].target} \cap Schema)
  /\ remover' = [remover EXCEPT ![p].done = TRUE]
  /\ UNCHANGED <<facts, run, queue>>

(* remove_facts_chunk for one of the ids, in a transaction of its own. *)
RemoveFactsChunk(p, c) ==
  /\ remover[p] \notin {Null, Deleted} /\ remover[p].done
  /\ c \in remover[p].chunks
  /\ facts' = Without(c[1], c[2])
  /\ remover' = [remover EXCEPT ![p].chunks = @ \ {c}]
  /\ UNCHANGED <<row, gone, run, queue>>

(* The request dies, or the database fails it, between its transactions. *)
RemoverCrash(p) ==
  /\ "crash" \in May
  /\ remover[p] \notin {Null, Deleted}
  /\ remover' = [remover EXCEPT ![p] = Deleted]
  /\ UNCHANGED <<row, gone, facts, run, queue>>

(* A document is deleted, with its extractions and chunks. *)
DeleteDocument(d) ==
  /\ d \notin gone
  /\ gone' = gone \cup {d}
  /\ Deleting({x \in Extraction : Stored(x) /\ Doc[x] = d})
  /\ facts' = [r \in Run |-> IF facts[r] # Null /\ facts[r].doc = d THEN Null ELSE facts[r]]
  /\ UNCHANGED <<run, remover, queue>>

(* An ingestion of the document replaces all its chunks, the facts among them. *)
StoreChunks(d) ==
  /\ d \notin gone
  /\ facts' = [r \in Run |-> IF facts[r] # Null /\ facts[r].doc = d THEN Null ELSE facts[r]]
  /\ UNCHANGED <<row, gone, run, remover, queue>>

Less(n) == IF n = 0 THEN 0 ELSE n - 1

(* Time passes; the hard limit lets no execution pass its deadline. *)
Tick ==
  /\ \A r \in Run : Working(r) => run[r].deadline > 0
  /\ row' = [x \in Extraction |->
               IF Stored(x) THEN [row[x] EXCEPT !.lease = Less(@)] ELSE row[x]]
  /\ run' = [r \in Run |->
               IF Working(r) THEN [run[r] EXCEPT !.deadline = Less(@)] ELSE run[r]]
  /\ UNCHANGED <<gone, facts, remover, queue>>

-----------------------------------------------------------------------------
RunStep(r) ==
  Fail(r) \/ EndLost(r) \/ \E v \in Value, indexed \in BOOLEAN : Finalize(r, v, indexed)

RemoverStep(p) ==
  \/ CommitDelete(p) \/ RemoverCrash(p)
  \/ \E d \in Document, r \in Run : RemoveFactsChunk(p, <<d, r>>)

Next ==
  \/ \E x \in Extraction :
       \/ RequestFirst(x) \/ DropMessage(x)
       \/ \E force \in BOOLEAN : RequestAgain(x, force)
       \/ \E v \in Value : PatchExtraction(x, v)
       \/ \E r \in Run : Claim(r, x)
  \/ \E r \in Run : RunStep(r)
  \/ \E X \in SUBSET Extraction : RecoverExtractions(X)
  \/ \E p \in Remover : RemoverStep(p) \/ \E t \in Extraction \cup Schema : ReadFacts(p, t)
  \/ \E d \in Document : DeleteDocument(d) \/ StoreChunks(d)
  \/ Tick

Spec == Init /\ [][Next]_vars

(* Time passes, the hard limit ends every execution, and beat runs the recovery. *)
Fairness ==
  /\ WF_vars(Tick)
  /\ \A r \in Run : WF_vars(RunStep(r))
  /\ \A x \in Extraction :
       SF_vars(\E X \in SUBSET Extraction :
                 x \in X /\ Stored(x) /\ row[x].status = "processing" /\ RecoverExtractions(X))

-----------------------------------------------------------------------------
TypeOK ==
  /\ row \in [Extraction -> Row \cup {Null, Deleted}]
  /\ gone \subseteq Document \cup Schema
  /\ facts \in [Run -> Chunk \cup {Null}]
  /\ run \in [Run -> Job \cup {Null, Deleted}]
  /\ remover \in [Remover -> Removal \cup {Null, Deleted}]
  /\ queue \subseteq Extraction

(* "A live worker cannot lose its claim" (extraction/tasks.py): an execution that *)
(* has not ended holds its extraction, unless that was deleted.                   *)
ClaimsAreLive ==
  \A r \in Run : Working(r) => row[run[r].ext] = Deleted \/ HoldsToken(r)

(* "A human's correction outlives re-runs" (extraction/service.py): an edited field *)
(* gives way to another edit, to force, or to deletion, never to a run.             *)
EditsKept ==
  [][\A x \in Extraction :
       Stored(x) /\ row[x].field # Null /\ row[x].field.edited =>
         \/ row'[x] = Deleted
         \/ row'[x].field = Null /\ row'[x].status = "pending"
         \/ row'[x].field.edited /\ (row'[x].field = row[x].field \/ row'[x].chunk = Null)]_vars

(* "Outdated values must not remain answerable" (the tests of extraction): the facts *)
(* in the corpus are those of the row, unless force has just emptied it.             *)
FactsAnswerable ==
  \A x \in Extraction :
    Stored(x) /\ row[x].chunk # Null /\ facts[row[x].chunk] # Null /\ row[x].field # Null =>
      facts[row[x].chunk] = [doc |-> Doc[x], value |-> row[x].field.value]

(* "Replaced on re-run, removed with the extraction or the schema" (docs.md): a facts *)
(* chunk belongs to a row, or a request that removes it has its id.                   *)
InHand(r) == \E p \in Remover :
  /\ remover[p] \notin {Null, Deleted}
  /\ \E c \in remover[p].chunks : c[2] = r

FactsHaveExtraction ==
  \A r \in Run : facts[r] # Null =>
    InHand(r) \/ \E x \in Extraction : Stored(x) /\ row[x].chunk = r

(* Two things only leave facts behind: a request that dies halfway, and a deletion *)
(* that had read the ids before a run replaced them.                               *)
ReadTooEarly ==
  \E p \in Remover : CommitDelete(p) /\
    \E x \in Targets(remover[p].target) :
      row[x].chunk # Null /\ <<Doc[x], row[x].chunk>> \notin remover[p].chunks

StrayFactsExplained ==
  [][FactsHaveExtraction =>
       FactsHaveExtraction' \/ ReadTooEarly \/ \E p \in Remover : RemoverCrash(p)]_vars

(* A claim ends: its execution does, or the recovery gives it up. *)
ClaimsEnd ==
  \A x \in Extraction :
    Stored(x) /\ row[x].status = "processing" ~>
      ~(Stored(x) /\ row[x].status = "processing")

-----------------------------------------------------------------------------
(* The inductive invariant: what a claim, its execution and the facts of a row *)
(* know of each other.                                                         *)
RowConsistent(x) ==
  Stored(x) =>
    /\ row[x].status = "processing" <=> row[x].token # Null
    /\ row[x].token # Null =>
         /\ run[row[x].token] # Null
         /\ Working(row[x].token) => run[row[x].token].ext = x
    /\ row[x].chunk # Null =>
         /\ run[row[x].chunk] = Deleted
         /\ facts[row[x].chunk] # Null => facts[row[x].chunk].doc = Doc[x]

RunConsistent(r) ==
  /\ run[r] = Null => facts[r] = Null
  /\ Working(r) =>
       /\ facts[r] = Null
       /\ row[run[r].ext] # Null
       /\ Stored(run[r].ext) => /\ row[run[r].ext].token = r
                                /\ row[run[r].ext].field = run[r].kept
                                /\ row[run[r].ext].lease > run[r].deadline

OwnFacts ==
  \A x, y \in Extraction :
    Stored(x) /\ Stored(y) /\ row[x].chunk # Null /\ row[x].chunk = row[y].chunk => x = y

IInv ==
  /\ TypeOK
  /\ FactsAnswerable
  /\ OwnFacts
  /\ \A x \in Extraction : RowConsistent(x)
  /\ \A r \in Run : RunConsistent(r)

(* What a removing request has in hand is a chunk of an execution that has ended, *)
(* under the document that it read beside it.                                      *)
RemoverConsistent(p) ==
  remover[p] \notin {Null, Deleted} =>
    \A c \in remover[p].chunks :
      run[c[2]] = Deleted /\ (facts[c[2]] # Null => facts[c[2]].doc = c[1])

HandInv == \A p \in Remover : RemoverConsistent(p)
=============================================================================
