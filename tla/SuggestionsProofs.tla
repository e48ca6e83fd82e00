------------------------- MODULE SuggestionsProofs -------------------------
(* The suggested questions, for any number of documents, workers and resets. *)
EXTENDS Suggestions, TLAPS

(* What a worker slot holds, with its types. *)
LEMMA Jobs ==
  ASSUME TypeOK, NEW w \in Slot, slot[w] # Null
  PROVE  /\ slot[w] \in Job /\ slot[w].at \in {"refresh", "failing", "sampling", "drafting"}
         /\ slot[w].at \in {"refresh", "failing"} => slot[w].doc \in Document
         /\ slot[w].at = "failing" => slot[w].processed \in Nat
         /\ slot[w].at \in {"sampling", "drafting"} => slot[w].version \in Nat /\ slot[w].revision \in Nat
         /\ slot[w].at = "drafting" => slot[w].sample \in Texts
BY DEF TypeOK, Job

(* The rows, with their types. *)
LEMMA Rows ==
  ASSUME TypeOK
  PROVE  /\ \A d \in Document : /\ doc[d] \in [st : Status, text : Nat, processed : Nat]
                                /\ doc[d].text \in Nat /\ doc[d].processed \in Nat
         /\ coll.version \in Nat /\ coll.revision \in Nat /\ coll.questions \in Texts \cup {Null}
         /\ Corpus \in Texts /\ Empty \in Texts
BY DEF TypeOK, Corpus, Empty, Texts

(* A sample has the texts that the corpus has, and no others. *)
LEMMA Sampled ==
  ASSUME TypeOK, NEW sample \in Samples
  PROVE  sample \in Texts /\ \A d \in Document : sample[d] # 0 => sample[d] = Corpus[d]
<1>1. PICK D : sample = [d \in Document |-> IF d \in D THEN Corpus[d] ELSE 0]
  BY DEF Samples, SamplesOf
<1>2. Corpus \in [Document -> Nat]
  BY Rows DEF Texts
<1> QED BY <1>1, <1>2 DEF Texts

(* The samples of a corpus are those of its texts and filenames. *)
LEMMA SameSamples == ASSUME Corpus' = Corpus, UNCHANGED name PROVE Samples' = Samples
BY DEF Samples

(* A document has a filename. *)
LEMMA Naming ==
  ASSUME TypeOK, NEW d \in Document, Named(d)
  PROVE  name' \in [Document -> Name]
BY DEF TypeOK, Named

(* The initial state satisfies the invariant. *)
LEMMA InitIInv == Init => IInv
<1> SUFFICES ASSUME Init PROVE IInv
  OBVIOUS
<1>1. TypeOK
  BY BoundsAssumption DEF Init, TypeOK, Status
<1>2. QuestionsAnswerable
  BY DEF Init, QuestionsAnswerable
<1>3. FreshOnesCome
  BY DEF Init, FreshOnesCome, At
<1> QED BY <1>1, <1>2, <1>3 DEF Init, IInv, Inv, TaskConsistent, FailingConsistent, At

(* A worker's step that leaves the version, and what is ready, as they were. *)
LEMMA Calm ==
  ASSUME IInv, TypeOK', NEW w \in Slot, \A v \in Slot : v # w => slot'[v] = slot[v],
         UNCHANGED may, clock <= clock', coll'.version = coll.version, coll.revision <= coll'.revision,
         NEW present, present = Corpus, \A d \in Document : present[d] # 0 => Corpus'[d] = present[d],
         \A v \in Slot : v # w /\ At(v, "failing") => doc'[slot[v].doc].st = "inflight",
         \A d \in Document : doc'[d].processed <= clock',
         QuestionsAnswerable', TaskConsistent(w)', FailingConsistent(w)', FreshOnesCome'
  PROVE  IInv'
<1>1. ASSUME NEW v \in Slot, v # w PROVE TaskConsistent(v)'
  <2>1. slot'[v] = slot[v] /\ TaskConsistent(v)
    BY <1>1 DEF IInv
  <2>2. ASSUME slot[v] # Null, slot[v].at \in {"sampling", "drafting"}
        PROVE  slot[v].version <= coll'.version /\ slot[v].revision <= coll'.revision
    <3>1. slot[v].version \in Nat /\ slot[v].revision \in Nat
      BY <2>2, Jobs DEF IInv, Inv
    <3>2. coll.revision \in Nat /\ coll'.revision \in Nat
      BY Rows DEF IInv, Inv, TypeOK
    <3> QED BY <2>1, <2>2, <3>1, <3>2 DEF TaskConsistent
  <2>3. ASSUME At(v, "drafting"), slot[v].version = coll.version, NEW d \in Document, slot[v].sample[d] # 0
        PROVE  slot[v].sample[d] = Corpus'[d]
    <3>1. slot[v].sample[d] = present[d]
      BY <2>1, <2>3 DEF TaskConsistent
    <3> QED BY <2>3, <3>1
  <2> QED BY <2>1, <2>2, <2>3 DEF TaskConsistent, At
<1>2. ASSUME NEW v \in Slot, v # w PROVE FailingConsistent(v)'
  <2>1. slot'[v] = slot[v] /\ FailingConsistent(v)
    BY <1>2 DEF IInv
  <2>2. SUFFICES ASSUME At(v, "failing")
                 PROVE  /\ may # {} /\ doc'[slot[v].doc].st = "inflight" /\ slot[v].processed <= clock'
                        /\ \A u \in Slot : At(u, "failing")' /\ slot'[u].doc = slot[v].doc => u = v
    BY <2>1 DEF FailingConsistent, At
  <2>3. slot[v].processed \in Nat /\ clock \in Nat /\ clock' \in Nat
    BY <2>2, Jobs DEF At, IInv, Inv, TypeOK
  <2>4. \A u \in Slot : u # w /\ At(u, "failing")' /\ slot'[u].doc = slot[v].doc => u = v
    BY <2>1, <2>2 DEF FailingConsistent, At
  <2>5. ~(At(w, "failing")' /\ slot'[w].doc = slot[v].doc)
    BY <1>2, <2>1, <2>2 DEF FailingConsistent, At
  <2> QED BY <1>2, <2>1, <2>2, <2>3, <2>4, <2>5 DEF FailingConsistent
<1> QED BY <1>1, <1>2 DEF IInv, Inv

(* A request that changes the corpus: what was stored or sampled is superseded. *)
LEMMA Superseded ==
  ASSUME IInv, NEW r \in Nat, coll.revision <= r, Changed(r), UNCHANGED <<slot, clock, may>>,
         doc' \in [Document -> [st : Status, text : Nat, processed : Nat]],
         name' \in [Document -> Name],
         \A d \in Document : doc'[d].processed \in {0, doc[d].processed},
         \A d \in Document : Free(d) \/ doc[d].st # "inflight" \/ doc'[d] = doc[d],
         queue' \subseteq Nat, changes' \in 0 .. MaxChanges
  PROVE  IInv'
<1>1. /\ coll' = [questions |-> Null, version |-> coll.version + 1, revision |-> r]
      /\ coll.version \in Nat /\ coll.revision \in Nat
  BY Rows DEF Changed, IInv, Inv
<1>2. coll'.version = coll.version + 1 /\ coll'.revision = r /\ coll'.questions = Null
  BY <1>1
<1>3. TypeOK'
  BY <1>1 DEF IInv, Inv, TypeOK
<1>4. QuestionsAnswerable'
  BY <1>2 DEF QuestionsAnswerable
<1>5. \A d \in Document : doc'[d].processed <= clock'
  BY DEF IInv, Inv, TypeOK
<1>6. ASSUME NEW w \in Slot, slot[w] # Null, slot[w].at \in {"sampling", "drafting"}
      PROVE  slot[w].version < coll'.version /\ slot[w].revision <= coll'.revision
  <2>1. slot[w].version \in Nat /\ slot[w].revision \in Nat
    BY <1>6, Jobs DEF IInv, Inv
  <2>2. slot[w].version <= coll.version /\ slot[w].revision <= coll.revision
    BY <1>6 DEF IInv, TaskConsistent
  <2> QED BY <1>1, <1>2, <2>1, <2>2
<1>7. ASSUME NEW w \in Slot PROVE TaskConsistent(w)'
  <2>1. slot[w] # Null /\ slot[w].at \in {"sampling", "drafting"} =>
          slot[w].version \in Nat /\ slot[w].version < coll.version + 1
    BY <1>2, <1>6, Jobs DEF IInv, Inv
  <2>2. slot[w] # Null /\ slot[w].at \in {"sampling", "drafting"} =>
          slot[w].version <= coll'.version /\ slot[w].revision <= coll'.revision /\ slot[w].version # coll'.version
    BY <1>1, <1>2, <1>6, <2>1
  <2> QED BY <2>2 DEF TaskConsistent, At
<1>8. ASSUME NEW w \in Slot PROVE FailingConsistent(w)'
  BY Jobs DEF IInv, Inv, FailingConsistent, At, Free
<1>9. FreshOnesCome'
  <2>1. ASSUME NEW w \in Slot, At(w, "drafting") PROVE slot[w].version # coll'.version
    <3>1. slot[w].version < coll'.version /\ slot[w].version \in Nat
      BY <1>6, <2>1, Jobs DEF At, IInv, Inv
    <3> QED BY <1>1, <1>2, <3>1
  <2> QED BY <1>2, <2>1 DEF FreshOnesCome, Fresh, At
<1> QED BY <1>3, <1>4, <1>5, <1>7, <1>8, <1>9 DEF IInv, Inv
(* Documents are reset: one, or several by the operator. *)
LEMMA ResetIInv ==
  ASSUME IInv,
         \/ \E d \in Document : RetryFailedDocument(d) \/ UpdateFromSource(d)
         \/ \E D \in SUBSET Document : Reprocess(D)
  PROVE  IInv'
<1>1. ASSUME NEW new, Reset(new), new \in [Document -> [st : Status, text : Nat, processed : Nat]],
             \A d \in Document : new[d].processed \in {0, doc[d].processed},
             \A d \in Document : Free(d) \/ doc[d].st # "inflight" \/ new[d] = doc[d],
             name' \in [Document -> Name]
      PROVE  IInv'
  <2>1. changes' \in 0 .. MaxChanges /\ queue' \subseteq Nat
    <3>1. changes \in 0 .. MaxChanges /\ queue \subseteq Nat
      BY DEF IInv, Inv, TypeOK
    <3> QED BY <1>1, <3>1, BoundsAssumption DEF Reset
  <2>2. coll.revision \in Nat /\ coll.revision <= coll.revision
    BY Rows DEF IInv, Inv
  <2> QED BY <1>1, <2>1, <2>2, Superseded DEF Reset
<1>2. ASSUME NEW d \in Document, RetryFailedDocument(d) PROVE IInv'
  <2>1. PICK new : new = [doc EXCEPT ![d].st = "inflight", ![d].processed = 0]
    OBVIOUS
  <2>2. new[d] = [doc[d] EXCEPT !.st = "inflight", !.processed = 0] /\ \A e \in Document : e # d => new[e] = doc[e]
    BY <2>1 DEF IInv, Inv, TypeOK
  <2>3. new[d] \in [st : Status, text : Nat, processed : Nat] /\ new[d].processed = 0
    <3>1. doc[d] \in [st : Status, text : Nat, processed : Nat]
      BY Rows DEF IInv, Inv
    <3>2. new[d] = [st |-> "inflight", text |-> doc[d].text, processed |-> 0]
      BY <2>2, <3>1
    <3>3. doc[d].text \in Nat
      BY Rows DEF IInv, Inv
    <3> QED BY <3>2, <3>3 DEF Status
  <2>4. new \in [Document -> [st : Status, text : Nat, processed : Nat]]
    BY <2>1, <2>2, <2>3 DEF IInv, Inv, TypeOK
  <2>5. name' \in [Document -> Name]
    BY <1>2 DEF RetryFailedDocument, IInv, Inv, TypeOK
  <2> QED BY <1>1, <1>2, <2>1, <2>2, <2>3, <2>4, <2>5 DEF RetryFailedDocument
<1>3. ASSUME NEW d \in Document, UpdateFromSource(d) PROVE IInv'
  <2>1. PICK new : new = [doc EXCEPT ![d] = [st |-> "inflight", text |-> @.text + 1, processed |-> 0]]
    OBVIOUS
  <2>2. /\ new[d] = [st |-> "inflight", text |-> doc[d].text + 1, processed |-> 0]
        /\ \A e \in Document : e # d => new[e] = doc[e]
    BY <2>1 DEF IInv, Inv, TypeOK
  <2>3. new[d] \in [st : Status, text : Nat, processed : Nat] /\ new[d].processed = 0
    <3>1. doc[d].text + 1 \in Nat
      BY Rows DEF IInv, Inv
    <3> QED BY <2>2, <3>1 DEF Status
  <2>4. new \in [Document -> [st : Status, text : Nat, processed : Nat]]
    BY <2>1, <2>2, <2>3 DEF IInv, Inv, TypeOK
  <2>5. name' \in [Document -> Name]
    BY <1>3, Naming DEF UpdateFromSource, IInv, Inv
  <2> QED BY <1>1, <1>3, <2>1, <2>2, <2>3, <2>4, <2>5 DEF UpdateFromSource
<1>4. ASSUME NEW D \in SUBSET Document, Reprocess(D) PROVE IInv'
  <2>1. PICK new : new = [d \in Document |-> IF d \in D THEN [doc[d] EXCEPT !.st = "inflight"] ELSE doc[d]]
    OBVIOUS
  <2>2. \A d \in Document : /\ d \in D => new[d] = [doc[d] EXCEPT !.st = "inflight"]
                            /\ d \notin D => new[d] = doc[d]
    BY <2>1
  <2>3. \A d \in Document : new[d] \in [st : Status, text : Nat, processed : Nat] /\ new[d].processed = doc[d].processed
    BY <2>2, Rows DEF Status, IInv, Inv
  <2>4. new \in [Document -> [st : Status, text : Nat, processed : Nat]]
    BY <2>1, <2>3
  <2>5. \A d \in Document : Free(d) \/ new[d] = doc[d]
    BY <1>4, <2>2 DEF Reprocess
  <2>6. name' \in [Document -> Name]
    BY <1>4 DEF Reprocess, IInv, Inv, TypeOK
  <2> QED BY <1>1, <1>4, <2>1, <2>3, <2>4, <2>5, <2>6 DEF Reprocess
<1> QED BY <1>2, <1>3, <1>4

(* A document is removed, by a request or because its source dropped it. *)
LEMMA RemoveIInv ==
  ASSUME IInv, NEW d \in Document, DeleteDocument(d) \/ RemoveVanished(d)
  PROVE  IInv'
<1>1. Removed(d) /\ UNCHANGED <<slot, clock, changes, may>>
  BY DEF DeleteDocument, RemoveVanished
<1>2. /\ doc'[d] = [st |-> "deleted", text |-> 0, processed |-> 0]
      /\ \A e \in Document : e # d => doc'[e] = doc[e]
  BY <1>1 DEF Removed, IInv, Inv, TypeOK
<1>3. doc' \in [Document -> [st : Status, text : Nat, processed : Nat]]
  BY <1>1 DEF Removed, IInv, Inv, TypeOK, Status
<1>4. /\ \A e \in Document : doc'[e].processed \in {0, doc[e].processed}
      /\ \A e \in Document : Free(e) \/ doc[e].st # "inflight" \/ doc'[e] = doc[e]
  BY <1>1, <1>2 DEF Removed
<1>5. PICK r \in {coll.revision, coll.revision + 1} : Changed(r) /\ (queue' = queue \/ queue' = queue \cup {r})
  BY DEF DeleteDocument, RemoveVanished, Publish
<1>6. r \in Nat /\ coll.revision <= r
  <2>1. coll.revision \in Nat
    BY Rows DEF IInv, Inv
  <2> QED BY <1>5, <2>1
<1>7. queue' \subseteq Nat /\ changes' \in 0 .. MaxChanges /\ name' \in [Document -> Name]
  BY <1>1, <1>5, <1>6 DEF DeleteDocument, RemoveVanished, IInv, Inv, TypeOK
<1> QED BY <1>1, <1>3, <1>4, <1>5, <1>6, <1>7, Superseded

(* An upload is in flight: nothing is ready that was not. *)
LEMMA UploadIInv ==
  ASSUME IInv, NEW d \in Document, SaveUpload(d)
  PROVE  IInv'
<1>1. /\ doc'[d] = [st |-> "inflight", text |-> 1, processed |-> 0]
      /\ \A e \in Document : e # d => doc'[e] = doc[e]
      /\ UNCHANGED <<name, coll, slot, queue, clock, changes, may>>
      /\ doc' \in [Document -> [st : Status, text : Nat, processed : Nat]]
  BY DEF SaveUpload, IInv, Inv, TypeOK, Status
<1>2. TypeOK' /\ \A e \in Document : doc'[e].processed <= clock'
  BY <1>1 DEF IInv, Inv, TypeOK
<1>3. Corpus' = Corpus
  BY <1>1 DEF Corpus, SaveUpload
<1>4. QuestionsAnswerable'
  BY <1>1, <1>3 DEF IInv, Inv, QuestionsAnswerable
<1>5. ASSUME NEW w \in Slot PROVE TaskConsistent(w)' /\ FailingConsistent(w)'
  <2>1. TaskConsistent(w)'
    BY <1>1, <1>3 DEF IInv, TaskConsistent, At
  <2>2. At(w, "failing") => slot[w].doc \in Document /\ slot[w].doc # d
    BY Jobs DEF SaveUpload, At, IInv, Inv, FailingConsistent
  <2>3. FailingConsistent(w)'
    BY <1>1, <2>2 DEF IInv, FailingConsistent, At
  <2> QED BY <2>1, <2>3
<1>6. ~Settled'
  BY <1>1 DEF Settled
<1>7. FreshOnesCome'
  BY <1>6 DEF FreshOnesCome
<1> QED BY <1>2, <1>4, <1>5, <1>7 DEF IInv, Inv

(* Another filename: what is there, and may be asked about, stays. *)
LEMMA RenameIInv ==
  ASSUME IInv, NEW d \in Document, RenameFromSource(d)
  PROVE  IInv'
<1>1. UNCHANGED <<doc, coll, slot, queue, clock, changes, may>> /\ may # {}
  BY DEF RenameFromSource
<1>2. name' \in [Document -> Name]
  BY Naming DEF RenameFromSource, IInv, Inv
<1>3. TypeOK' /\ \A e \in Document : doc'[e].processed <= clock'
  BY <1>1, <1>2 DEF IInv, Inv, TypeOK
<1>4. Corpus' = Corpus
  BY <1>1 DEF Corpus
<1>5. QuestionsAnswerable'
  BY <1>1, <1>4 DEF IInv, Inv, QuestionsAnswerable
<1>6. \A w \in Slot : TaskConsistent(w)' /\ FailingConsistent(w)'
  BY <1>1, <1>4 DEF IInv, TaskConsistent, FailingConsistent, At
<1>7. FreshOnesCome'
  BY <1>1 DEF FreshOnesCome
<1> QED BY <1>3, <1>5, <1>6, <1>7 DEF IInv, Inv

(* A worker slot takes up something, or is free again. *)
LEMMA Slots ==
  ASSUME TypeOK, NEW w \in Slot, NEW job \in Job \cup {Null}, slot' = [slot EXCEPT ![w] = job]
  PROVE  /\ slot' \in [Slot -> Job \cup {Null}] /\ slot'[w] = job
         /\ \A v \in Slot : v # w => slot'[v] = slot[v]
BY DEF TypeOK

(* What is ready does not change while no document does. *)
LEMMA SameCorpus ==
  ASSUME IInv, UNCHANGED <<doc, clock>>
  PROVE  /\ Corpus' = Corpus /\ \A d \in Document : doc'[d].processed <= clock'
         /\ \A v \in Slot : At(v, "failing") => doc'[slot[v].doc].st = "inflight"
         /\ clock <= clock'
<1>1. clock \in Nat
  BY DEF IInv, Inv, TypeOK
<1> QED BY <1>1 DEF IInv, Corpus, FailingConsistent

(* A document is ready, or has failed. *)
LEMMA Settling ==
  ASSUME TypeOK, NEW d \in Document, NEW st \in Status, NEW p \in Nat,
         doc' = [doc EXCEPT ![d].st = st, ![d].processed = p]
  PROVE  /\ doc' \in [Document -> [st : Status, text : Nat, processed : Nat]]
         /\ doc'[d].st = st /\ doc'[d].text = doc[d].text /\ doc'[d].processed = p
         /\ \A e \in Document : e # d => doc'[e] = doc[e]
<1>1. doc[d] \in [st : Status, text : Nat, processed : Nat] /\ doc[d].text \in Nat
  BY Rows
<1>2. \A e \in Document : e # d => doc'[e] = doc[e]
  BY DEF TypeOK
<1>3. doc'[d] = [st |-> st, text |-> doc[d].text, processed |-> p]
  <2>1. doc'[d] = [doc[d] EXCEPT !.st = st, !.processed = p]
    BY DEF TypeOK
  <2>2. PICK row \in [st : Status, text : Nat, processed : Nat] : row = doc[d]
    BY <1>1
  <2>3. doc'[d] = [row EXCEPT !.st = st, !.processed = p]
    BY <2>1, <2>2
  <2> QED BY <2>2, <2>3
<1>4. doc'[d] \in [st : Status, text : Nat, processed : Nat]
  BY <1>1, <1>3
<1> QED BY <1>2, <1>3, <1>4 DEF TypeOK

(* A document is ready: its slot will ask for questions, and no other is later. *)
LEMMA StoreChunksIInv ==
  ASSUME IInv, NEW w \in Slot, NEW d \in Document, StoreChunks(w, d)
  PROVE  IInv'
<1> DEFINE job == [at |-> "refresh", doc |-> d, changed |-> TRUE]
<1>0. /\ doc' = [doc EXCEPT ![d].st = "ready", ![d].processed = clock + 1] /\ doc[d].st = "inflight" /\ Free(d)
      /\ slot' = [slot EXCEPT ![w] = job] /\ clock' = clock + 1 /\ UNCHANGED <<name, coll, queue, changes, may>>
      /\ clock \in Nat /\ doc[d] \in [st : Status, text : Nat, processed : Nat]
  BY Rows DEF StoreChunks, Enter, IInv, Inv, TypeOK
<1>1. job \in Job
  BY DEF Job
<1>2. job # Null
  BY <1>1, JobAssumption
<1>3. /\ slot' \in [Slot -> Job \cup {Null}] /\ slot'[w] = job
      /\ \A v \in Slot : v # w => slot'[v] = slot[v]
  BY <1>0, <1>1, Slots DEF IInv, Inv
<1>4. /\ doc'[d].st = "ready" /\ doc'[d].text = doc[d].text /\ doc'[d].processed = clock + 1
      /\ \A e \in Document : e # d => doc'[e] = doc[e]
      /\ doc' \in [Document -> [st : Status, text : Nat, processed : Nat]]
  <2>1. "ready" \in Status /\ clock + 1 \in Nat
    BY <1>0 DEF Status
  <2> QED BY <1>0, <2>1, Settling DEF IInv, Inv
<1>6. TypeOK'
  BY <1>0, <1>3, <1>4 DEF IInv, Inv, TypeOK
<1>7. \A e \in Document : doc'[e].processed <= clock' /\ doc'[e].processed <= doc'[d].processed
  BY <1>0, <1>4, Rows DEF IInv, Inv
<1>8. PICK present : present = Corpus
  OBVIOUS
<1>9. \A e \in Document : present[e] # 0 => Corpus'[e] = present[e]
  BY <1>0, <1>4, <1>8 DEF Corpus
<1>10. QuestionsAnswerable'
  BY <1>0, <1>8, <1>9 DEF IInv, Inv, QuestionsAnswerable
<1>11. \A v \in Slot : v # w /\ At(v, "failing") => doc'[slot[v].doc].st = "inflight"
  BY <1>0, <1>4, Jobs DEF IInv, Inv, FailingConsistent, Free, At
<1>12. TaskConsistent(w)' /\ FailingConsistent(w)'
  BY <1>3 DEF TaskConsistent, FailingConsistent, At
<1>13. Asking'
  <2>1. Latest(d)'
    BY <1>0, <1>4, <1>7 DEF Latest
  <2> QED BY <1>2, <1>3, <2>1 DEF Asking, At
<1>14. FreshOnesCome'
  BY <1>13 DEF FreshOnesCome, Coming
<1>15. clock <= clock' /\ coll'.version = coll.version /\ coll.revision <= coll'.revision /\ UNCHANGED may
  BY <1>0, Rows DEF IInv, Inv
<1> QED BY <1>3, <1>6, <1>7, <1>8, <1>9, <1>10, <1>11, <1>12, <1>14, <1>15, Calm

(* The steps of mishaps: a failing ingestion, a task that fails, a worker that dies. *)
LEMMA MishapIInv ==
  ASSUME IInv, NEW w \in Slot,
         CommitFailed(w) \/ TaskFail(w) \/ Crash(w) \/ \E d \in Document : MarkFailed(w, d)
  PROVE  IInv'
<1>1. may # {} /\ UNCHANGED <<name, coll, changes, may>>
  BY DEF CommitFailed, TaskFail, Crash, MarkFailed, IInv, FailingConsistent
<1>2. FreshOnesCome'
  BY <1>1 DEF FreshOnesCome
<1>3. coll'.version = coll.version /\ coll.revision <= coll'.revision /\ clock \in Nat
  BY <1>1, Rows DEF IInv, Inv, TypeOK
<1>4. CASE TaskFail(w) \/ Crash(w)
  <2>1. slot[w] # Null /\ slot' = [slot EXCEPT ![w] = Null] /\ UNCHANGED <<doc, clock>>
    BY <1>4 DEF TaskFail, Crash, At, Leave
  <2>2. /\ slot' \in [Slot -> Job \cup {Null}] /\ slot'[w] = Null
        /\ \A v \in Slot : v # w => slot'[v] = slot[v]
    BY <2>1, Slots DEF IInv, Inv
  <2>3. queue' \subseteq Nat
    BY <1>4, Jobs DEF TaskFail, Crash, At, IInv, Inv, TypeOK
  <2>4. TypeOK'
    BY <1>1, <2>1, <2>2, <2>3 DEF IInv, Inv, TypeOK
  <2>5. QuestionsAnswerable'
    BY <1>1, <2>1, SameCorpus DEF IInv, Inv, QuestionsAnswerable
  <2>6. TaskConsistent(w)' /\ FailingConsistent(w)'
    BY <2>2 DEF TaskConsistent, FailingConsistent, At
  <2>7. PICK present : present = Corpus
    OBVIOUS
  <2> QED BY <1>1, <1>2, <1>3, <2>1, <2>2, <2>4, <2>5, <2>6, <2>7, SameCorpus, Calm
<1>5. ASSUME NEW d \in Document, MarkFailed(w, d) PROVE IInv'
  <2>1. PICK job : job = [at |-> "failing", doc |-> d, processed |-> clock + 1]
    OBVIOUS
  <2>2. slot' = [slot EXCEPT ![w] = job] /\ UNCHANGED <<doc, queue>> /\ clock' = clock + 1
    BY <1>5, <2>1 DEF MarkFailed, Enter
  <2>3. job \in Job
    BY <1>3, <2>1 DEF Job
  <2>4. /\ slot' \in [Slot -> Job \cup {Null}] /\ slot'[w] = job
        /\ \A v \in Slot : v # w => slot'[v] = slot[v]
    BY <2>2, <2>3, Slots DEF IInv, Inv
  <2>5. clock' \in Nat /\ clock <= clock'
    BY <1>3, <2>2
  <2>6. TypeOK'
    BY <1>1, <2>2, <2>4, <2>5 DEF IInv, Inv, TypeOK
  <2>7. Corpus' = Corpus
    BY <2>2 DEF Corpus
  <2>8. QuestionsAnswerable'
    BY <1>1, <2>7 DEF IInv, Inv, QuestionsAnswerable
  <2>9. \A e \in Document : doc'[e].processed <= clock'
    BY <1>3, <2>2, Rows DEF IInv, Inv
  <2>10. \A v \in Slot : At(v, "failing") => doc'[slot[v].doc].st = "inflight" /\ slot[v].doc # d
    BY <1>5, <2>2 DEF MarkFailed, Free, IInv, FailingConsistent
  <2>11. TaskConsistent(w)' /\ FailingConsistent(w)'
    <3>1. job.at = "failing" /\ job.doc = d /\ job.processed = clock + 1
      BY <2>1
    <3>2. TaskConsistent(w)'
      BY <2>4, <3>1 DEF TaskConsistent, At
    <3>3. \A v \in Slot : v # w => ~(At(v, "failing")' /\ slot'[v].doc = d)
      BY <2>4, <2>10 DEF At
    <3>4. doc'[d].st = "inflight" /\ clock + 1 <= clock'
      BY <1>3, <1>5, <2>2 DEF MarkFailed
    <3> QED BY <1>1, <2>4, <3>1, <3>2, <3>3, <3>4 DEF FailingConsistent
  <2>12. PICK present : present = Corpus
    OBVIOUS
  <2> QED BY <1>1, <1>2, <1>3, <2>4, <2>5, <2>6, <2>7, <2>8, <2>9, <2>10, <2>11, <2>12, Calm
<1>6. CASE CommitFailed(w)
  <2>1. PICK d \in Document : d = slot[w].doc
    BY <1>6, Jobs DEF CommitFailed, At, IInv, Inv
  <2>2. PICK job : job = [at |-> "refresh", doc |-> d, changed |-> FALSE]
    OBVIOUS
  <2>3. job \in Job
    BY <2>2 DEF Job
  <2>4. /\ slot' = [slot EXCEPT ![w] = job] /\ UNCHANGED <<queue, clock>>
        /\ doc' = [doc EXCEPT ![d].st = "failed", ![d].processed = slot[w].processed]
        /\ slot[w].processed \in Nat /\ slot[w].processed <= clock /\ doc[d].st = "inflight"
        /\ doc[d] \in [st : Status, text : Nat, processed : Nat]
        /\ \A v \in Slot : At(v, "failing") /\ slot[v].doc = d => v = w
    BY <1>6, <2>1, <2>2, Jobs, Rows DEF CommitFailed, At, IInv, Inv, FailingConsistent
  <2>5. /\ slot' \in [Slot -> Job \cup {Null}] /\ slot'[w] = job
        /\ \A v \in Slot : v # w => slot'[v] = slot[v]
    BY <2>3, <2>4, Slots DEF IInv, Inv
  <2>6. /\ doc'[d].st = "failed" /\ doc'[d].processed = slot[w].processed
        /\ \A e \in Document : e # d => doc'[e] = doc[e]
        /\ doc' \in [Document -> [st : Status, text : Nat, processed : Nat]]
    <3>1. PICK st \in Status, p \in Nat : st = "failed" /\ p = slot[w].processed
      BY <2>4 DEF Status
    <3>2. TypeOK /\ doc' = [doc EXCEPT ![d].st = st, ![d].processed = p]
      BY <2>4, <3>1 DEF IInv, Inv
    <3>3. /\ doc' \in [Document -> [st : Status, text : Nat, processed : Nat]]
          /\ doc'[d].st = st /\ doc'[d].text = doc[d].text /\ doc'[d].processed = p
          /\ \A e \in Document : e # d => doc'[e] = doc[e]
      BY <3>2, Settling
    <3> QED BY <3>1, <3>3
  <2>8. TypeOK'
    BY <1>1, <2>4, <2>5, <2>6 DEF IInv, Inv, TypeOK
  <2>9. PICK present : present = Corpus
    OBVIOUS
  <2>10. Corpus' = Corpus
    BY <2>4, <2>6 DEF Corpus
  <2>11. QuestionsAnswerable'
    BY <1>1, <2>10 DEF IInv, Inv, QuestionsAnswerable
  <2>12. \A e \in Document : doc'[e].processed <= clock'
    BY <2>4, <2>6 DEF IInv
  <2>13. \A v \in Slot : v # w /\ At(v, "failing") => doc'[slot[v].doc].st = "inflight"
    BY <2>4, <2>6, Jobs DEF IInv, Inv, FailingConsistent, At
  <2>14. TaskConsistent(w)' /\ FailingConsistent(w)'
    BY <2>2, <2>5 DEF TaskConsistent, FailingConsistent, At
  <2>15. clock <= clock'
    BY <1>3, <2>4
  <2> QED BY <1>1, <1>2, <1>3, <2>5, <2>8, <2>9, <2>10, <2>11, <2>12, <2>13, <2>14, <2>15, Calm
<1> QED BY <1>4, <1>5, <1>6
(* Who asks still asks when another slot moves on. *)
LEMMA StillAsking ==
  ASSUME IInv, Asking, NEW w \in Slot, \A v \in Slot : v # w => slot'[v] = slot[v], UNCHANGED doc,
         ~(At(w, "refresh") /\ slot[w].changed /\ Latest(slot[w].doc))
  PROVE  Asking'
<1>1. PICK v \in Slot : At(v, "refresh") /\ slot[v].changed /\ Latest(slot[v].doc) /\ v # w
  BY DEF Asking
<1>2. At(v, "refresh")' /\ slot'[v].changed /\ slot'[v].doc = slot[v].doc
  BY <1>1 DEF At
<1>3. Latest(slot[v].doc)'
  BY <1>1 DEF Latest
<1> QED BY <1>2, <1>3 DEF Asking, Latest

(* The end of an ingestion: whoever asks supersedes what is drafted. *)
LEMMA RefreshIInv ==
  ASSUME IInv, NEW w \in Slot, Refresh(w)
  PROVE  IInv'
<1> DEFINE asks == Settled /\ Latest(slot[w].doc) /\ (slot[w].changed \/ coll.questions = Null)
<1>0. /\ At(w, "refresh") /\ slot' = [slot EXCEPT ![w] = Null] /\ UNCHANGED <<doc, name, clock, changes, may>>
      /\ \/ asks /\ coll' = [coll EXCEPT !.revision = coll.revision + 1] /\ Publish(coll.revision + 1)
         \/ ~asks /\ UNCHANGED <<coll, queue>>
      /\ coll \in [questions : Texts \cup {Null}, version : Nat, revision : Nat]
      /\ coll.revision \in Nat
  BY Rows DEF Refresh, Leave, IInv, Inv, TypeOK
<1>1. /\ slot' \in [Slot -> Job \cup {Null}] /\ slot'[w] = Null
      /\ \A v \in Slot : v # w => slot'[v] = slot[v]
  BY <1>0, Slots DEF IInv, Inv
<1>2. /\ coll' \in [questions : Texts \cup {Null}, version : Nat, revision : Nat]
      /\ coll'.version = coll.version /\ coll'.questions = coll.questions
      /\ coll.revision <= coll'.revision
      /\ queue' \subseteq Nat
  <2>1. CASE UNCHANGED <<coll, queue>>
    BY <1>0, <2>1 DEF IInv, Inv, TypeOK
  <2>2. CASE coll' = [coll EXCEPT !.revision = coll.revision + 1] /\ Publish(coll.revision + 1)
    <3>1. /\ coll' \in [questions : Texts \cup {Null}, version : Nat, revision : Nat]
          /\ coll'.version = coll.version /\ coll'.questions = coll.questions
          /\ coll'.revision = coll.revision + 1
      BY <1>0, <2>2
    <3>2. queue' \subseteq Nat
      BY <1>0, <2>2 DEF Publish, IInv, Inv, TypeOK
    <3> QED BY <1>0, <3>1, <3>2
  <2> QED BY <1>0, <2>1, <2>2
<1>3. TypeOK'
  BY <1>0, <1>1, <1>2 DEF IInv, Inv, TypeOK
<1>4. Corpus' = Corpus /\ Samples' = Samples /\ Settled' = Settled
  <2>1. Corpus' = Corpus
    BY <1>0 DEF Corpus
  <2> QED BY <1>0, <2>1, SameSamples DEF Settled
<1>5. QuestionsAnswerable'
  BY <1>2, <1>4 DEF IInv, Inv, QuestionsAnswerable
<1>6. TaskConsistent(w)' /\ FailingConsistent(w)'
  BY <1>1 DEF TaskConsistent, FailingConsistent, At
<1>7. ASSUME asks, coll' = [coll EXCEPT !.revision = coll.revision + 1], Publish(coll.revision + 1)
      PROVE  FreshOnesCome'
  <2>1. coll'.revision = coll.revision + 1
    BY <1>0, <1>7
  <2>2. may = {} => coll'.revision \in queue'
    BY <1>7, <2>1 DEF Publish
  <2>3. ASSUME NEW v \in Slot, At(v, "drafting")' PROVE slot'[v].revision # coll'.revision
    <3>1. At(v, "drafting") /\ slot'[v] = slot[v]
      BY <1>1, <2>3 DEF At
    <3>2. slot[v].revision <= coll.revision /\ slot[v].revision \in Nat
      BY <3>1, Jobs DEF At, IInv, Inv, TaskConsistent
    <3> QED BY <1>0, <2>1, <3>1, <3>2
  <2> QED BY <1>0, <2>2, <2>3 DEF FreshOnesCome, Coming, Fresh
<1>8. ASSUME ~asks, UNCHANGED <<coll, queue>> PROVE FreshOnesCome'
  <2>1. SUFFICES ASSUME may = {}, Settled
                 PROVE  /\ coll.questions \notin {Null} \cup Samples => Coming'
                        /\ \A v \in Slot :
                             (At(v, "drafting") /\ Fresh(slot[v]) /\ slot[v].sample \notin Samples)' => Asking'
    BY <1>0, <1>4, <1>8 DEF FreshOnesCome
  <2>2. Asking => Asking'
    BY <1>0, <1>1, <1>8, <2>1, StillAsking
  <2>3. ASSUME NEW v \in Slot, At(v, "drafting")', Fresh(slot[v])', slot'[v].sample \notin Samples PROVE Asking'
    <3>1. slot'[v] = slot[v] /\ At(v, "drafting")
      BY <1>1, <2>3 DEF At
    <3>2. Fresh(slot[v]) /\ slot[v].sample \notin Samples
      BY <1>8, <2>3, <3>1 DEF Fresh
    <3> QED BY <2>1, <2>2, <3>1, <3>2 DEF IInv, FreshOnesCome
  <2>4. ASSUME Coming PROVE Coming'
    <3>1. ASSUME NEW v \in Slot, At(v, "sampling"), Fresh(slot[v]) PROVE Coming'
      BY <1>0, <1>1, <1>8, <3>1 DEF Coming, Fresh, At
    <3>2. ASSUME NEW v \in Slot, At(v, "drafting"), Fresh(slot[v]), slot[v].sample \in Samples PROVE Coming'
      BY <1>0, <1>1, <1>4, <1>8, <3>2 DEF Coming, Fresh, At
    <3> QED BY <1>8, <2>2, <2>4, <3>1, <3>2 DEF Coming
  <2>5. coll.questions \notin {Null} \cup Samples => Coming
    BY <2>1 DEF IInv, FreshOnesCome
  <2> QED BY <1>4, <2>3, <2>4, <2>5
<1>9. PICK present : present = Corpus
  OBVIOUS
<1> QED BY <1>0, <1>1, <1>2, <1>3, <1>4, <1>5, <1>6, <1>7, <1>8, <1>9, SameCorpus, Calm
(* A message is taken: a task of the present revision begins, an older one is dropped. *)
LEMMA TaskStartIInv ==
  ASSUME IInv, NEW w \in Slot, NEW r \in queue, TaskStart(w, r)
  PROVE  IInv'
<1>0. /\ UNCHANGED <<doc, name, coll, clock, changes, may>> /\ slot[w] = Null
      /\ coll.revision \in Nat /\ coll.version \in Nat /\ r \in Nat
      /\ queue' \subseteq Nat /\ (may = {} => queue' = queue \ {r})
  BY Rows DEF TaskStart, IInv, Inv, TypeOK
<1>1. PICK job : job = IF r = coll.revision
                       THEN [at |-> "sampling", revision |-> r, version |-> coll.version] ELSE Null
  OBVIOUS
<1>2. job \in Job \cup {Null} /\ slot' = [slot EXCEPT ![w] = job]
  <2>1. CASE r = coll.revision
    BY <1>0, <1>1, <2>1 DEF TaskStart, Enter, Job
  <2>2. CASE r # coll.revision
    BY <1>0, <1>1, <2>2 DEF TaskStart, IInv, Inv, TypeOK
  <2> QED BY <2>1, <2>2
<1>3. /\ slot' \in [Slot -> Job \cup {Null}] /\ slot'[w] = job
      /\ \A v \in Slot : v # w => slot'[v] = slot[v]
  BY <1>2, Slots DEF IInv, Inv
<1>4. TypeOK'
  BY <1>0, <1>3 DEF IInv, Inv, TypeOK
<1>5. Corpus' = Corpus /\ Samples' = Samples /\ Settled' = Settled
  <2>1. Corpus' = Corpus
    BY <1>0 DEF Corpus
  <2> QED BY <1>0, <2>1, SameSamples DEF Settled
<1>6. QuestionsAnswerable'
  BY <1>0, <1>5 DEF IInv, Inv, QuestionsAnswerable
<1>7. TaskConsistent(w)' /\ FailingConsistent(w)'
  BY <1>0, <1>1, <1>3 DEF TaskConsistent, FailingConsistent, At
<1>8. Asking => Asking'
  BY <1>0, <1>3, StillAsking DEF At
<1>9. ASSUME may = {}, Coming PROVE Coming'
  <2>1. CASE coll.revision \in queue /\ r # coll.revision
    BY <1>0, <1>9, <2>1 DEF Coming
  <2>2. CASE r = coll.revision
    <3>1. job = [at |-> "sampling", revision |-> r, version |-> coll.version]
      BY <1>1, <2>2
    <3>2. job # Null
      BY <1>0, <3>1, JobAssumption DEF Job
    <3>3. At(w, "sampling")' /\ Fresh(slot[w])'
      BY <1>0, <1>3, <2>2, <3>1, <3>2 DEF At, Fresh
    <3> QED BY <3>3 DEF Coming
  <2>3. ASSUME NEW v \in Slot, At(v, "sampling"), Fresh(slot[v]) PROVE Coming'
    BY <1>0, <1>3, <2>3 DEF Coming, Fresh, At
  <2>4. ASSUME NEW v \in Slot, At(v, "drafting"), Fresh(slot[v]), slot[v].sample \in Samples PROVE Coming'
    BY <1>0, <1>3, <1>5, <2>4 DEF Coming, Fresh, At
  <2> QED BY <1>8, <1>9, <2>1, <2>2, <2>3, <2>4 DEF Coming
<1>10. ASSUME NEW v \in Slot, At(v, "drafting")'
       PROVE  slot'[v] = slot[v] /\ At(v, "drafting")
  BY <1>1, <1>3, <1>10 DEF At
<1>11. FreshOnesCome'
  BY <1>0, <1>5, <1>8, <1>9, <1>10 DEF IInv, FreshOnesCome, Fresh
<1>12. PICK present : present = Corpus
  OBVIOUS
<1>13. coll.revision <= coll'.revision /\ coll'.version = coll.version
  BY <1>0
<1> QED BY <1>0, <1>3, <1>4, <1>5, <1>6, <1>7, <1>11, <1>12, <1>13, SameCorpus, Calm

(* The excerpts are read: the draft is of a sample of the corpus as it is. *)
LEMMA TaskSampleIInv ==
  ASSUME IInv, NEW w \in Slot, TaskSample(w)
  PROVE  IInv'
<1>0. /\ UNCHANGED <<doc, name, coll, queue, clock, changes, may>> /\ At(w, "sampling")
      /\ coll.revision \in Nat /\ coll.version \in Nat /\ \A sample \in Samples : sample \in Texts
      /\ slot[w].version \in Nat /\ slot[w].revision \in Nat
      /\ slot[w].version <= coll.version /\ slot[w].revision <= coll.revision
  BY Rows, Jobs, Sampled DEF TaskSample, IInv, Inv, TaskConsistent, At
<1>. PICK sample \in Samples :
       slot' = [slot EXCEPT ![w] = [at |-> "drafting", revision |-> slot[w].revision,
                                    version |-> slot[w].version, sample |-> sample]]
  BY DEF TaskSample
<1>1. PICK job : job = [at |-> "drafting", revision |-> slot[w].revision, version |-> slot[w].version,
                        sample |-> sample]
  OBVIOUS
<1>2. job \in Job /\ slot' = [slot EXCEPT ![w] = job]
  BY <1>0, <1>1 DEF Job
<1>3. /\ slot' \in [Slot -> Job \cup {Null}] /\ slot'[w] = job
      /\ \A v \in Slot : v # w => slot'[v] = slot[v]
  BY <1>2, Slots DEF IInv, Inv
<1>4. TypeOK'
  BY <1>0, <1>3 DEF IInv, Inv, TypeOK
<1>5. Corpus' = Corpus /\ Samples' = Samples /\ Settled' = Settled
  <2>1. Corpus' = Corpus
    BY <1>0 DEF Corpus
  <2> QED BY <1>0, <2>1, SameSamples DEF Settled
<1>6. QuestionsAnswerable'
  BY <1>0, <1>5 DEF IInv, Inv, QuestionsAnswerable
<1>7. /\ job.at = "drafting" /\ job.sample \in Samples /\ job # Null
      /\ job.version = slot[w].version /\ job.revision = slot[w].revision
  <2>1. job # Null
    BY <1>2, JobAssumption
  <2> QED BY <1>1, <2>1
<1>8. TaskConsistent(w)' /\ FailingConsistent(w)'
  <2>1. \A d \in Document : job.sample[d] # 0 => job.sample[d] = Corpus[d]
    BY <1>7, Sampled DEF IInv, Inv
  <2> QED BY <1>0, <1>3, <1>5, <1>7, <2>1 DEF TaskConsistent, FailingConsistent, At
<1>9. Asking => Asking'
  BY <1>0, <1>3, StillAsking DEF At
<1>10. ASSUME Coming PROVE Coming'
  <2>1. ASSUME Fresh(slot[w]) PROVE Coming'
    <3>1. At(w, "drafting")' /\ Fresh(slot[w])' /\ slot'[w].sample \in Samples'
      BY <1>0, <1>3, <1>5, <1>7, <2>1 DEF At, Fresh
    <3> QED BY <3>1 DEF Coming
  <2>2. ASSUME NEW v \in Slot, v # w, At(v, "sampling"), Fresh(slot[v]) PROVE Coming'
    BY <1>0, <1>3, <2>2 DEF Coming, Fresh, At
  <2>3. ASSUME NEW v \in Slot, At(v, "drafting"), Fresh(slot[v]), slot[v].sample \in Samples PROVE Coming'
    BY <1>0, <1>3, <1>5, <2>3 DEF Coming, Fresh, At
  <2>4. coll.revision \in queue => Coming'
    BY <1>0 DEF Coming
  <2> QED BY <1>9, <1>10, <2>1, <2>2, <2>3, <2>4 DEF Coming
<1>11. ASSUME NEW v \in Slot, At(v, "drafting")', slot'[v].sample \notin Samples
       PROVE  slot'[v] = slot[v] /\ At(v, "drafting")
  BY <1>3, <1>7, <1>11 DEF At
<1>12. FreshOnesCome'
  BY <1>0, <1>5, <1>9, <1>10, <1>11 DEF IInv, FreshOnesCome, Fresh
<1>13. PICK present : present = Corpus
  OBVIOUS
<1>14. coll.revision <= coll'.revision /\ coll'.version = coll.version
  BY <1>0
<1> QED BY <1>0, <1>3, <1>4, <1>5, <1>6, <1>8, <1>12, <1>13, <1>14, SameCorpus, Calm

(* A draft is stored if it is fresh: its texts are there, or somebody will ask again. *)
LEMMA TaskStoreIInv ==
  ASSUME IInv, NEW w \in Slot, TaskStore(w)
  PROVE  IInv'
<1>0. /\ UNCHANGED <<doc, name, queue, clock, changes, may>> /\ At(w, "drafting")
      /\ slot' = [slot EXCEPT ![w] = Null]
      /\ coll \in [questions : Texts \cup {Null}, version : Nat, revision : Nat]
      /\ coll.revision \in Nat /\ slot[w].sample \in Texts
  BY Rows, Jobs DEF TaskStore, Leave, At, IInv, Inv, TypeOK
<1>1. PICK stored \in {slot[w].sample, Null} :
        coll' = IF Fresh(slot[w]) THEN [coll EXCEPT !.questions = stored] ELSE coll
  BY DEF TaskStore
<1>2. /\ coll'.version = coll.version /\ coll'.revision = coll.revision
      /\ coll' \in [questions : Texts \cup {Null}, version : Nat, revision : Nat]
      /\ coll'.questions = IF Fresh(slot[w]) THEN stored ELSE coll.questions
  <2>1. CASE Fresh(slot[w])
    <3>1. coll' = [coll EXCEPT !.questions = stored] /\ stored \in Texts \cup {Null}
      BY <1>0, <1>1, <2>1
    <3> QED BY <1>0, <2>1, <3>1
  <2>2. CASE ~Fresh(slot[w])
    BY <1>0, <1>1, <2>2
  <2> QED BY <2>1, <2>2
<1>3. /\ slot' \in [Slot -> Job \cup {Null}] /\ slot'[w] = Null
      /\ \A v \in Slot : v # w => slot'[v] = slot[v]
  BY <1>0, Slots DEF IInv, Inv
<1>4. TypeOK'
  BY <1>0, <1>2, <1>3 DEF IInv, Inv, TypeOK
<1>5. Corpus' = Corpus /\ Samples' = Samples /\ Settled' = Settled
  <2>1. Corpus' = Corpus
    BY <1>0 DEF Corpus
  <2> QED BY <1>0, <2>1, SameSamples DEF Settled
<1>6. QuestionsAnswerable'
  <2>1. ASSUME Fresh(slot[w]), NEW d \in Document, slot[w].sample[d] # 0
        PROVE  slot[w].sample[d] = Corpus[d]
    BY <1>0, <2>1 DEF Fresh, IInv, TaskConsistent
  <2> QED BY <1>1, <1>2, <1>5, <2>1 DEF IInv, Inv, QuestionsAnswerable
<1>7. TaskConsistent(w)' /\ FailingConsistent(w)'
  BY <1>3 DEF TaskConsistent, FailingConsistent, At
<1>8. Asking => Asking'
  BY <1>0, <1>3, StillAsking DEF At
<1>9. ASSUME Coming, ~Fresh(slot[w]) PROVE Coming'
  <2>1. ASSUME NEW v \in Slot, At(v, "sampling"), Fresh(slot[v]) PROVE Coming'
    BY <1>2, <1>3, <1>9, <2>1 DEF Coming, Fresh, At
  <2>2. ASSUME NEW v \in Slot, At(v, "drafting"), Fresh(slot[v]), slot[v].sample \in Samples PROVE Coming'
    BY <1>2, <1>3, <1>5, <1>9, <2>2 DEF Coming, Fresh, At
  <2>3. coll.revision \in queue => Coming'
    BY <1>0, <1>2 DEF Coming
  <2> QED BY <1>8, <1>9, <2>1, <2>2, <2>3 DEF Coming
<1>10. ASSUME may = {}, Settled, coll'.questions \notin {Null} \cup Samples PROVE Coming'
  <2>1. CASE Fresh(slot[w])
    <3>1. slot[w].sample \notin Samples
      BY <1>1, <1>2, <1>10, <2>1
    <3> QED BY <1>0, <1>8, <1>10, <2>1, <3>1 DEF IInv, FreshOnesCome, Coming
  <2>2. CASE ~Fresh(slot[w])
    BY <1>2, <1>9, <1>10, <2>2 DEF IInv, FreshOnesCome
  <2> QED BY <2>1, <2>2
<1>11. ASSUME NEW v \in Slot, At(v, "drafting")'
       PROVE  slot'[v] = slot[v] /\ At(v, "drafting") /\ (Fresh(slot[v])' => Fresh(slot[v]))
  BY <1>2, <1>3, <1>11 DEF At, Fresh
<1>12. FreshOnesCome'
  BY <1>0, <1>5, <1>8, <1>10, <1>11 DEF IInv, FreshOnesCome
<1>13. PICK present : present = Corpus
  OBVIOUS
<1>14. coll.revision <= coll'.revision /\ coll'.version = coll.version
  BY <1>0, <1>2
<1> QED BY <1>0, <1>3, <1>4, <1>5, <1>6, <1>7, <1>12, <1>13, <1>14, SameCorpus, Calm

(* Every step keeps the invariant. *)
LEMMA NextIInv == ASSUME IInv, [Next]_vars PROVE IInv'
<1>1. ASSUME NEW w \in Slot, WorkerStep(w) PROVE IInv'
  BY <1>1, StoreChunksIInv, MishapIInv, RefreshIInv, TaskStartIInv, TaskSampleIInv, TaskStoreIInv
     DEF WorkerStep
<1>2. ASSUME NEW d \in Document,
             SaveUpload(d) \/ RetryFailedDocument(d) \/ UpdateFromSource(d) \/ DeleteDocument(d) \/ RemoveVanished(d)
             \/ RenameFromSource(d)
      PROVE  IInv'
  BY <1>2, UploadIInv, RenameIInv, ResetIInv, RemoveIInv
<1>3. ASSUME NEW D \in SUBSET Document, Reprocess(D) PROVE IInv'
  BY <1>3, ResetIInv
<1>4. CASE UNCHANGED vars
  <2>1. Corpus' = Corpus /\ Samples' = Samples
    <3>1. Corpus' = Corpus
      BY <1>4 DEF vars, Corpus
    <3> QED BY <1>4, <3>1, SameSamples DEF vars
  <2>2. Inv'
    BY <1>4, <2>1 DEF vars, IInv, Inv, TypeOK, QuestionsAnswerable
  <2>3. \A w \in Slot : TaskConsistent(w)' /\ FailingConsistent(w)'
    BY <1>4, <2>1 DEF vars, IInv, TaskConsistent, FailingConsistent, At
  <2>4. FreshOnesCome'
    BY <1>4, <2>1 DEF vars, IInv, FreshOnesCome, Settled, Coming, Asking, Latest, Fresh, At
  <2> QED BY <1>4, <2>2, <2>3, <2>4 DEF vars, IInv
<1> QED BY <1>1, <1>2, <1>3, <1>4 DEF Next

(* The invariant holds for any number of documents, workers, resets and mishaps. *)
THEOREM Invariance == Spec => []IInv
BY InitIInv, NextIInv, PTL DEF Spec

(* "Every question must be answerable": the texts that the stored questions were drafted *)
(* from are in the corpus, whatever changed meanwhile (generation/tasks.py).              *)
THEOREM QuestionsCanBeAnswered == Spec => []Inv
<1>1. IInv => Inv
  BY DEF IInv
<1> QED BY <1>1, Invariance, PTL

(* Once the pool is idle, questions that exist were drafted from a sample of the corpus  *)
(* as it is now, if no ingestion failed, no message was lost, no worker died and no sync *)
(* removed or renamed a document (ingestion/tasks.py, generation/suggestions.py).        *)
THEOREM IdleMeansFresh == Spec => []QuietIsFreshUnlessMishap
<1>1. ASSUME IInv PROVE QuietIsFreshUnlessMishap
  BY <1>1 DEF IInv, FreshOnesCome, Coming, Asking, At, Quiet, QuietIsFresh, QuietIsFreshUnlessMishap
<1> QED BY <1>1, Invariance, PTL
=============================================================================
