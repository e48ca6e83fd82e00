-------------------------- MODULE IngestionProofs --------------------------
(* Theorems about Ingestion for any documents, workers, contents and bounds. *)
EXTENDS Ingestion, TLAPS

(* The row of a document not yet uploaded, or deleted, is consistent (NoRow). *)
LEMMA NoRowOK ==
  ASSUME NEW s \in {"absent", "deleted"}
  PROVE  NoRow(s) \in Row /\ RowConsistent(NoRow(s))
<1>1. NoRow(s) \in Row
  <2>1. s \in Status /\ Null \in Time
    BY DEF Status, Time
  <2>2. 0 \in 0 .. MaxAttempts
    BY AttemptsAssumption
  <2> QED BY <2>1, <2>2 DEF NoRow, Row
<1>2. RowConsistent(NoRow(s))
  BY DEF NoRow, RowConsistent, Live
<1> QED BY <1>1, <1>2

(* What an upload, a retry or a source update writes is a consistent row. *)
LEMMA AsNewOK ==
  ASSUME NEW r \in Row, NEW c \in Content
  PROVE  AsNew(r, c) \in Row /\ RowConsistent(AsNew(r, c))
<1>1. AsNew(r, c) \in Row
  <2>1. "pending" \in Status /\ Null \in Time
    BY DEF Status, Time
  <2>2. 0 \in 0 .. MaxAttempts
    BY AttemptsAssumption
  <2> QED BY <2>1, <2>2 DEF AsNew, Row
<1>2. RowConsistent(AsNew(r, c))
  BY NullAssumption DEF AsNew, Row, RowConsistent, Live
<1> QED BY <1>1, <1>2

(* Time passing clears no timestamp, and keeps a longer wait the longer one. *)
LEMMA LessOK ==
  ASSUME NEW t \in Time
  PROVE  /\ Less(t) \in Time
         /\ Less(t) = Null <=> t = Null
         /\ \A u \in Nat : t # Null /\ t > u /\ u > 0 => Less(t) > Less(u)
         /\ t \in Nat => Less(t) \in Nat
BY NullAssumption DEF Time, Less, Past

(* Time passing keeps a row consistent: no column becomes NULL or stops being so. *)
LEMMA TickRowOK ==
  ASSUME NEW r \in Row, RowConsistent(r)
  PROVE  LET t == [r EXCEPT !.lease = Less(@), !.wait = Less(@), !.throttle = Less(@)]
         IN  t \in Row /\ RowConsistent(t)
BY LessOK DEF Row, RowConsistent

(* A row stays a row whatever values the columns an UPDATE writes get. *)
LEMMA ColumnsOK ==
  ASSUME NEW r \in Row, NEW s \in Status, NEW t \in Worker \cup {Null}, NEW l \in Time,
         NEW a \in 0 .. MaxAttempts, NEW u \in Time, NEW v \in Time
  PROVE  [r EXCEPT !.status = s, !.token = t, !.lease = l, !.attempts = a,
                   !.wait = u, !.throttle = v] \in Row
BY DEF Row

(* The claim of ingest_document writes a row. *)
LEMMA ClaimedRowOK ==
  ASSUME NEW r \in Row, NEW w \in Worker, NEW n \in 0 .. MaxAttempts, NEW t \in Time
  PROVE  [r EXCEPT !.status = "processing", !.token = w, !.lease = t, !.attempts = n] \in Row
BY DEF Row, Status

(* The transactions that give a claim up write a row. *)
LEMMA ReleasedRowOK ==
  ASSUME NEW r \in Row, NEW s \in Status
  PROVE  [r EXCEPT !.status = s, !.token = Null, !.lease = Null] \in Row
BY DEF Row, Time

(* Whatever a row has become since reprocess read it, the columns that reprocess *)
(* writes leave it consistent.                                                   *)
LEMMA RewrittenOK ==
  ASSUME NEW r \in Row, NEW read \in Row, RowConsistent(r), RowConsistent(read),
         read.status \in Live, r.status \in Live,
         read.status \in {"ready", "failed"} => r.status = read.status
  PROVE  LET n == Rewritten(r, read)
         IN  /\ n \in Row
             /\ RowConsistent(n)
             /\ n.status = (IF read.status = "pending" THEN r.status ELSE "pending")
             /\ n.token \in {r.token, Null}
             /\ n.token # Null => n.lease = r.lease
             /\ n.sha = r.sha
             /\ n.chunks = r.chunks
<1> DEFINE n == Rewritten(r, read)
<1>0. "pending" \in Status /\ Null \in Time /\ 0 \in 0 .. MaxAttempts
  BY AttemptsAssumption DEF Status, Time
<1>1. /\ n.status = IF read.status = "pending" THEN r.status ELSE "pending"
      /\ n.token = IF read.token = Null THEN r.token ELSE Null
      /\ n.lease = IF read.lease = Null THEN r.lease ELSE Null
      /\ n.sha = r.sha
      /\ n.chunks = r.chunks
  BY DEF Rewritten, AsNew, Row
<1>2. n \in Row
  <2> DEFINE Column(c, before, after) == IF before = after THEN c ELSE after
  <2>1. /\ Column(r.status, read.status, "pending") \in Status
        /\ Column(r.token, read.token, Null) \in Worker \cup {Null}
        /\ Column(r.lease, read.lease, Null) \in Time
        /\ Column(r.attempts, read.attempts, 0) \in 0 .. MaxAttempts
        /\ Column(r.wait, read.wait, Null) \in Time
        /\ Column(r.throttle, read.throttle, Null) \in Time
    BY <1>0 DEF Row
  <2>2. n = [r EXCEPT !.status = Column(@, read.status, "pending"),
                      !.token = Column(@, read.token, Null),
                      !.lease = Column(@, read.lease, Null),
                      !.attempts = Column(@, read.attempts, 0),
                      !.wait = Column(@, read.wait, Null),
                      !.throttle = Column(@, read.throttle, Null)]
    BY DEF Rewritten, AsNew, Row
  <2> DEFINE s == Column(r.status, read.status, "pending")
             t == Column(r.token, read.token, Null)
             l == Column(r.lease, read.lease, Null)
             a == Column(r.attempts, read.attempts, 0)
             u == Column(r.wait, read.wait, Null)
             v == Column(r.throttle, read.throttle, Null)
  <2>3. /\ s \in Status /\ t \in Worker \cup {Null} /\ l \in Time
        /\ a \in 0 .. MaxAttempts /\ u \in Time /\ v \in Time
    BY <2>1
  <2>4. n = [r EXCEPT !.status = s, !.token = t, !.lease = l, !.attempts = a, !.wait = u, !.throttle = v]
    BY <2>2
  <2> HIDE DEF s, t, l, a, u, v, n
  <2> QED BY <2>3, <2>4, ColumnsOK
<1>3. RowConsistent(n)
  <2> HIDE DEF n
  <2> QED BY <1>1 DEF RowConsistent, Live
<1> QED BY <1>1, <1>2, <1>3 DEF RowConsistent

(* The inductive invariant holds of an empty collection with idle workers. *)
LEMMA InitInv == Init => IInv
<1> SUFFICES ASSUME Init PROVE IInv
  OBVIOUS
<1>1. NoRow("absent") \in Row /\ RowConsistent(NoRow("absent"))
  BY NoRowOK
<1>2. NoJob \in Job
  BY AttemptsAssumption DEF NoJob, Job
<1>3. TypeOK
  BY <1>1, <1>2, ResetsAssumption DEF TypeOK, Init
<1>4. \A d \in Document : RowConsistent(row[d]) /\ LoadedConsistent(d)
  BY <1>1 DEF Init, LoadedConsistent
<1>5. \A w \in Worker : ClaimConsistent(w)
  BY DEF Init, ClaimConsistent, Busy, NoJob
<1> QED BY <1>3, <1>4, <1>5 DEF IInv

(* A step that only moves messages or ends an execution. *)
LEMMA QuietInv ==
  ASSUME IInv, UNCHANGED <<row, loaded>>, queue' \subseteq Document,
         resets' \in 0 .. MaxResets,
         job' = job \/ \E w \in Worker : job' = [job EXCEPT ![w] = NoJob]
  PROVE  IInv'
<1>1. NoJob \in Job /\ NoJob.doc = Null
  BY AttemptsAssumption DEF NoJob, Job
<1>2. job' \in [Worker -> Job] /\ \A v \in Worker : job'[v] = job[v] \/ job'[v].doc = Null
  BY <1>1 DEF IInv, TypeOK
<1>3. TypeOK'
  BY <1>2 DEF IInv, TypeOK
<1>4. \A e \in Document : RowConsistent(row'[e]) /\ LoadedConsistent(e)'
  BY DEF IInv, LoadedConsistent
<1>5. \A v \in Worker : ClaimConsistent(v)'
  BY <1>2 DEF IInv, ClaimConsistent, Busy, HoldsToken
<1> QED BY <1>3, <1>4, <1>5 DEF IInv

(* A step that puts one row in a state without a claim: it settles it, puts it *)
(* back in the queue, or is an owner's.                                        *)
LEMMA ReleaseInv ==
  ASSUME IInv, NEW d \in Document, NEW new \in Row,
         row' = [row EXCEPT ![d] = new], RowConsistent(new), new.token = Null,
         loaded[d] = Null \/ (row[d].status \in InFlight /\ new.status \in Live),
         UNCHANGED loaded, queue' \subseteq Document, resets' \in 0 .. MaxResets,
         job' = job \/ \E w \in Worker : job' = [job EXCEPT ![w] = NoJob]
  PROVE  IInv'
<1>1. NoJob \in Job /\ NoJob.doc = Null
  BY AttemptsAssumption DEF NoJob, Job
<1>2. job' \in [Worker -> Job] /\ \A v \in Worker : job'[v] = job[v] \/ job'[v].doc = Null
  BY <1>1 DEF IInv, TypeOK
<1>3. row' \in [Document -> Row] /\ row'[d] = new /\ \A e \in Document : e # d => row'[e] = row[e]
  BY DEF IInv, TypeOK
<1>4. TypeOK'
  BY <1>2, <1>3 DEF IInv, TypeOK
<1>5. \A e \in Document : RowConsistent(row'[e])
  BY <1>3 DEF IInv
<1>6. \A e \in Document : LoadedConsistent(e)'
  <2> SUFFICES ASSUME NEW e \in Document, loaded[e] # Null
               PROVE  LoadedConsistent(e)'
    BY DEF LoadedConsistent
  <2>1. CASE e = d
    BY <1>3, <2>1 DEF IInv, LoadedConsistent, InFlight, Live
  <2>2. CASE e # d
    BY <1>3, <2>2 DEF IInv, LoadedConsistent
  <2> QED BY <2>1, <2>2
<1>7. \A v \in Worker : ClaimConsistent(v)'
  <2> SUFFICES ASSUME NEW v \in Worker, Busy(v)'
               PROVE  ClaimConsistent(v)'
    BY DEF ClaimConsistent
  <2>1. job'[v] = job[v] /\ job[v].doc \in Document
    BY <1>2 DEF IInv, TypeOK, Busy, Job
  <2>2. CASE job[v].doc = d
    BY <1>3, <2>1, <2>2, NullAssumption DEF IInv, ClaimConsistent, HoldsToken, Busy
  <2>3. CASE job[v].doc # d
    BY <1>3, <2>1, <2>3 DEF IInv, ClaimConsistent, HoldsToken, Busy
  <2> QED BY <2>2, <2>3
<1> QED BY <1>4, <1>5, <1>6, <1>7 DEF IInv

(* A claim finds the file of the row it claims, and its new lease (LEASE_SECONDS) *)
(* outlives the execution's hard limit.                                         *)
LEMMA ClaimInv ==
  ASSUME IInv, NEW w \in Worker, NEW d \in Document, Claim(w, d)
  PROVE  IInv'
<1> USE DEF IInv
<1> DEFINE r == row[d]
           new == [r EXCEPT !.status = "processing", !.token = w,
                            !.lease = LeaseTicks, !.attempts = r.attempts + 1]
<1>1. r \in Row /\ RowConsistent(r) /\ r.attempts < MaxAttempts /\ r.status \in InFlight
  BY AttemptsAssumption DEF TypeOK, Row, Claim, Exhausted, Claimable, InFlight
<1>2. new \in Row /\ RowConsistent(new)
  <2>1. r.attempts + 1 \in 0 .. MaxAttempts
    BY <1>1, AttemptsAssumption DEF Row
  <2>2. LeaseTicks \in Time /\ LeaseTicks # Null /\ w # Null /\ "processing" \in Status
    BY NullAssumption, TimeAssumption DEF Time, Status
  <2>3. new \in Row
    BY <1>1, <2>1, <2>2, ClaimedRowOK
  <2>4. RowConsistent(new)
    BY <1>1, <2>2 DEF Row, RowConsistent, Live, InFlight
  <2> QED BY <2>3, <2>4
<1>3. row' = [row EXCEPT ![d] = new]
  BY DEF Claim
<1>4. [doc |-> d, sha |-> r.sha, attempt |-> r.attempts + 1, deadline |-> HardLimit] \in Job
  BY <1>1, AttemptsAssumption, TimeAssumption DEF Job, Row
<1>5. TypeOK'
  <2>1. row' \in [Document -> Row]
    BY <1>2, <1>3 DEF TypeOK
  <2>2. job' \in [Worker -> Job]
    BY <1>4 DEF TypeOK, Claim
  <2> QED BY <2>1, <2>2 DEF TypeOK, Claim, Deliver
<1>6. \A e \in Document : RowConsistent(row'[e])
  BY <1>2, <1>3 DEF TypeOK
<1>7. \A e \in Document : LoadedConsistent(e)'
  <2> SUFFICES ASSUME NEW e \in Document, loaded[e] # Null
               PROVE  LoadedConsistent(e)'
    BY DEF LoadedConsistent, Claim
  <2>1. CASE e = d
    BY <1>1, <1>3, <2>1 DEF LoadedConsistent, Claim, TypeOK, InFlight, Live, Row
  <2>2. CASE e # d
    BY <1>3, <2>2 DEF LoadedConsistent, Claim, TypeOK
  <2> QED BY <2>1, <2>2
<1>8. \A v \in Worker : ClaimConsistent(v)'
  <2> SUFFICES ASSUME NEW v \in Worker, Busy(v)'
               PROVE  ClaimConsistent(v)'
    BY DEF ClaimConsistent
  <2>1. CASE v = w
    BY <1>1, <1>3, <2>1, LeaseAssumption
       DEF ClaimConsistent, Claim, TypeOK, HoldsToken, RowConsistent, InFlight, Live, Row
  <2>2. CASE v # w
    <3>1. job'[v] = job[v]
      BY <2>2 DEF Claim, TypeOK
    <3>2. job[v].doc \in Document
      BY <3>1 DEF TypeOK, Busy, Job
    <3>3. CASE job[v].doc = d
      BY <1>1, <1>3, <2>2, <3>1, <3>2, <3>3 DEF ClaimConsistent, TypeOK, HoldsToken, Busy, Row
    <3>4. CASE job[v].doc # d
      BY <1>3, <2>2, <3>1, <3>2, <3>4 DEF ClaimConsistent, TypeOK, HoldsToken, Busy
    <3> QED BY <3>3, <3>4
  <2> QED BY <2>1, <2>2
<1> QED BY <1>5, <1>6, <1>7, <1>8

(* What an execution that holds the token knows of its document. *)
LEMMA HolderFacts ==
  ASSUME IInv, NEW w \in Worker, Busy(w)
  PROVE  /\ job[w].doc \in Document
         /\ job[w].sha \in Content
         /\ row[job[w].doc] \in Row
         /\ HoldsToken(w) => /\ row[job[w].doc].status = "processing"
                             /\ row[job[w].doc].sha = job[w].sha
<1>1. job[w] \in Job /\ job[w].doc \in Document /\ job[w].sha \in Content
  BY DEF IInv, TypeOK, Busy, Job, ClaimConsistent
<1>2. row[job[w].doc] \in Row /\ RowConsistent(row[job[w].doc])
  BY <1>1 DEF IInv, TypeOK
<1>3. w # Null
  BY NullAssumption
<1> QED BY <1>1, <1>2, <1>3 DEF IInv, ClaimConsistent, HoldsToken, RowConsistent

(* Failing a document that used its attempts up disturbs no execution: no live *)
(* claim is on it.                                                             *)
LEMMA GiveUpInv ==
  ASSUME IInv, NEW w \in Worker, NEW d \in Document, GiveUp(w, d)
  PROVE  IInv'
<1> DEFINE new == [row[d] EXCEPT !.status = "failed", !.token = Null, !.lease = Null]
<1>1. row[d] \in Row /\ RowConsistent(row[d]) /\ row[d].status \in InFlight
  BY DEF IInv, TypeOK, GiveUp, Claimable, InFlight
<1>2. new \in Row
  BY <1>1, ReleasedRowOK DEF Status
<1>3. RowConsistent(new) /\ new.token = Null /\ new.status \in Live
  BY <1>1 DEF Row, RowConsistent, Live, InFlight
<1>4. /\ row' = [row EXCEPT ![d] = new] /\ job' = job /\ loaded' = loaded
      /\ queue' \subseteq Document /\ resets' \in 0 .. MaxResets
  BY DEF IInv, TypeOK, GiveUp, Deliver
<1> HIDE DEF new
<1> QED BY <1>1, <1>2, <1>3, <1>4, ReleaseInv

(* The chunks written under the token are those of the current file. *)
LEMMA StoreChunksInv ==
  ASSUME IInv, NEW w \in Worker, StoreChunks(w)
  PROVE  IInv'
<1> DEFINE d == job[w].doc
           new == [row[d] EXCEPT !.status = "ready", !.token = Null, !.lease = Null,
                                 !.chunks = job[w].sha]
<1>1. /\ loaded' = loaded /\ queue' \subseteq Document /\ resets' \in 0 .. MaxResets
      /\ job' = [job EXCEPT ![w] = NoJob]
  BY DEF IInv, TypeOK, StoreChunks, Finished
<1>2. Busy(w)
  BY DEF StoreChunks
<1>3. CASE HoldsToken(w)
  <2>1. row' = [row EXCEPT ![d] = new]
    BY <1>3 DEF StoreChunks
  <2>2. /\ d \in Document /\ row[d] \in Row /\ row[d].status = "processing"
        /\ row[d].sha = job[w].sha /\ job[w].sha \in Content
    BY <1>2, <1>3, HolderFacts
  <2>3. new \in Row
    BY <2>2 DEF Row, Status, Time
  <2>4. RowConsistent(new) /\ new.token = Null
    BY <2>2, NullAssumption DEF Row, RowConsistent, Live
  <2>5. loaded[d] = Null
    BY <2>2 DEF StoreChunks, CollectionFree
  <2> HIDE DEF new, d
  <2> QED BY <1>1, <2>1, <2>2, <2>3, <2>4, <2>5, ReleaseInv
<1>4. CASE ~HoldsToken(w)
  BY <1>1, <1>4, QuietInv DEF StoreChunks
<1> QED BY <1>3, <1>4

(* _mark_failed and the other failure paths keep the invariant. *)
LEMMA MarkFailedInv ==
  ASSUME IInv, NEW w \in Worker, MarkFailed(w)
  PROVE  IInv'
<1> DEFINE d == job[w].doc
           new == [row[d] EXCEPT !.status = "failed", !.token = Null, !.lease = Null]
<1>1. /\ loaded' = loaded /\ queue' \subseteq Document /\ resets' \in 0 .. MaxResets
      /\ job' = [job EXCEPT ![w] = NoJob]
  BY DEF IInv, TypeOK, MarkFailed, Finished
<1>2. Busy(w)
  BY DEF MarkFailed
<1>3. CASE HoldsToken(w)
  <2>1. row' = [row EXCEPT ![d] = new]
    BY <1>3 DEF MarkFailed
  <2>2. /\ d \in Document /\ row[d] \in Row /\ RowConsistent(row[d])
        /\ row[d].status = "processing"
    BY <1>2, <1>3, HolderFacts DEF IInv
  <2>3. new \in Row
    BY <2>2, ReleasedRowOK DEF Status
  <2>4. RowConsistent(new) /\ new.token = Null /\ new.status \in Live
    BY <2>2 DEF Row, RowConsistent, Live
  <2>5. row[d].status \in InFlight
    BY <2>2 DEF InFlight
  <2> HIDE DEF new, d
  <2> QED BY <1>1, <2>1, <2>2, <2>3, <2>4, <2>5, ReleaseInv
<1>4. CASE ~HoldsToken(w)
  BY <1>1, <1>4, QuietInv DEF MarkFailed
<1> QED BY <1>3, <1>4

(* Putting the document back in the queue keeps the invariant. *)
LEMMA RetryLaterInv ==
  ASSUME IInv, NEW w \in Worker, RetryLater(w)
  PROVE  IInv'
<1> DEFINE d == job[w].doc
           new == [row[d] EXCEPT !.status = "pending", !.token = Null, !.lease = Null,
                                 !.wait = Backoff[job[w].attempt]]
<1>1. /\ loaded' = loaded /\ resets' \in 0 .. MaxResets
      /\ job' = [job EXCEPT ![w] = NoJob]
  BY DEF IInv, TypeOK, RetryLater, Finished
<1>2. Busy(w) /\ d \in Document
  BY HolderFacts DEF RetryLater
<1>3. CASE HoldsToken(w)
  <2>1. row' = [row EXCEPT ![d] = new] /\ queue' \subseteq Document
    BY <1>2, <1>3 DEF RetryLater, Publish, IInv, TypeOK
  <2>2. /\ row[d] \in Row /\ RowConsistent(row[d])
        /\ row[d].status = "processing"
    BY <1>2, <1>3, HolderFacts DEF IInv
  <2>3. Backoff[job[w].attempt] \in Time
    <3>1. job[w].attempt \in 0 .. MaxAttempts
      BY DEF IInv, TypeOK, Job
    <3>2. job[w].attempt # 0
      BY <1>2 DEF IInv, ClaimConsistent
    <3>3. job[w].attempt \in 1 .. MaxAttempts
      BY <3>1, <3>2, AttemptsAssumption
    <3> QED BY <3>3, TimeAssumption DEF Time
  <2>4. new \in Row
    BY <2>2, <2>3 DEF Row, Status, Time
  <2>5. RowConsistent(new) /\ new.token = Null /\ new.status \in Live
    BY <2>2 DEF Row, RowConsistent, Live
  <2>6. row[d].status \in InFlight
    BY <2>2 DEF InFlight
  <2> HIDE DEF new, d
  <2> QED BY <1>1, <1>2, <2>1, <2>2, <2>4, <2>5, <2>6, ReleaseInv
<1>4. CASE ~HoldsToken(w)
  <2>1. row' = row /\ queue' = queue
    BY <1>4 DEF RetryLater
  <2> QED BY <1>1, <2>1, QuietInv DEF IInv, TypeOK
<1> QED BY <1>3, <1>4

(* Uploading, retrying, replacing and deleting keep the invariant: they clear the *)
(* token, so that no outstanding execution writes.                              *)
LEMMA OwnerInv ==
  ASSUME IInv, NEW d \in Document,
         \/ RetryFailedDocument(d)
         \/ DeleteDocument(d)
         \/ \E c \in Content : SaveUpload(d, c) \/ UpdateFromSource(d, c)
  PROVE  IInv'
<1>1. /\ row[d] \in Row /\ RowConsistent(row[d]) /\ loaded[d] = Null
      /\ loaded' = loaded /\ job' = job
      /\ queue' \subseteq Document /\ resets' \in 0 .. MaxResets
  <2>1. resets' \in 0 .. MaxResets
    BY ResetsAssumption
       DEF IInv, TypeOK, RetryFailedDocument, DeleteDocument, SaveUpload, UpdateFromSource, Asked
  <2> QED BY <2>1 DEF IInv, TypeOK, RetryFailedDocument, DeleteDocument, SaveUpload,
                      UpdateFromSource, Publish, CollectionFree
<1>2. CASE DeleteDocument(d)
  <2>1. row' = [row EXCEPT ![d] = NoRow("deleted")]
    BY <1>2 DEF DeleteDocument
  <2>2. NoRow("deleted").token = Null
    BY DEF NoRow
  <2> QED BY <1>1, <2>1, <2>2, NoRowOK, ReleaseInv
<1>3. CASE RetryFailedDocument(d) \/ \E c \in Content : SaveUpload(d, c) \/ UpdateFromSource(d, c)
  <2>1. PICK c \in Content : row' = [row EXCEPT ![d] = AsNew(row[d], c)]
    <3>1. CASE RetryFailedDocument(d)
      <4>1. row[d].sha \in Content
        BY <1>1, <3>1 DEF RetryFailedDocument, RowConsistent, Live, Row
      <4> QED BY <3>1, <4>1 DEF RetryFailedDocument
    <3>2. CASE \E c \in Content : SaveUpload(d, c) \/ UpdateFromSource(d, c)
      BY <3>2 DEF SaveUpload, UpdateFromSource
    <3> QED BY <1>3, <3>1, <3>2
  <2>2. AsNew(row[d], c).token = Null
    BY <1>1 DEF AsNew, Row
  <2> QED BY <1>1, <2>1, <2>2, AsNewOK, ReleaseInv
<1> QED BY <1>2, <1>3

(* recover_ingestion only moves the publication times of rows that are due. *)
LEMMA RecoverInv ==
  ASSUME IInv, NEW D \in SUBSET Document, RecoverIngestion(D)
  PROVE  IInv'
<1>1. /\ loaded' = loaded /\ queue' \subseteq Document /\ resets' \in 0 .. MaxResets
      /\ job' = job
  BY DEF IInv, TypeOK, RecoverIngestion
<1>2. ASSUME NEW d \in Document
      PROVE  /\ row'[d] \in Row /\ RowConsistent(row'[d])
             /\ row'[d].status = row[d].status /\ row'[d].sha = row[d].sha
             /\ row'[d].token = row[d].token /\ row'[d].lease = row[d].lease
  <2>1. row'[d] \in {row[d], [row[d] EXCEPT !.throttle = Throttle]}
    BY DEF RecoverIngestion
  <2>2. row[d] \in Row /\ RowConsistent(row[d]) /\ Throttle \in Time
    BY TimeAssumption DEF IInv, TypeOK, Time
  <2> QED BY <2>1, <2>2 DEF Row, RowConsistent
<1>3. TypeOK'
  <2>1. row' \in [Document -> Row]
    BY <1>2 DEF RecoverIngestion
  <2> QED BY <1>1, <2>1 DEF IInv, TypeOK
<1>4. \A d \in Document : LoadedConsistent(d)'
  BY <1>1, <1>2 DEF IInv, LoadedConsistent
<1>5. \A w \in Worker : ClaimConsistent(w)'
  <2> SUFFICES ASSUME NEW w \in Worker, Busy(w)
               PROVE  ClaimConsistent(w)'
    BY <1>1 DEF ClaimConsistent, Busy
  <2>1. job[w].doc \in Document
    BY HolderFacts
  <2> QED BY <1>1, <1>2, <2>1 DEF IInv, ClaimConsistent, HoldsToken
<1> QED BY <1>2, <1>3, <1>4, <1>5 DEF IInv

(* What a reprocess command reads is what the rows are at that moment. *)
LEMMA ReprocessLoadInv ==
  ASSUME IInv, NEW D \in SUBSET Document, ReprocessLoad(D)
  PROVE  IInv'
<1>1. /\ row' = row /\ queue' = queue /\ job' = job /\ resets' \in 0 .. MaxResets
  BY ResetsAssumption DEF IInv, TypeOK, ReprocessLoad, Asked
<1>2. \A d \in Document : loaded'[d] = Null \/ (loaded'[d] = row[d] /\ row[d].status \in Live)
  BY DEF ReprocessLoad
<1>3. loaded' \in [Document -> Row \cup {Null}]
  BY DEF ReprocessLoad, IInv, TypeOK
<1>4. TypeOK'
  BY <1>1, <1>3 DEF IInv, TypeOK
<1>5. \A d \in Document : RowConsistent(row'[d]) /\ LoadedConsistent(d)'
  BY <1>1, <1>2 DEF IInv, LoadedConsistent
<1>6. \A w \in Worker : ClaimConsistent(w)'
  BY <1>1 DEF IInv, ClaimConsistent, Busy, HoldsToken
<1> QED BY <1>4, <1>5, <1>6 DEF IInv

(* What a commit of reprocess does to one document. *)
LEMMA CommitRow ==
  ASSUME IInv, NEW D \in SUBSET Document, ReprocessCommit(D), NEW d \in Document
  PROVE  /\ row'[d] \in Row /\ RowConsistent(row'[d])
         /\ row'[d].token \in {row[d].token, Null}
         /\ row'[d].token # Null => row'[d].lease = row[d].lease
         /\ row'[d].sha = row[d].sha /\ row'[d].chunks = row[d].chunks
         /\ row'[d].status = IF loaded[d] # Null /\ loaded[d].status # "pending"
                             THEN "pending" ELSE row[d].status
         /\ loaded[d] # Null => row[d].status \in Live
<1>1. row[d] \in Row /\ RowConsistent(row[d])
  BY DEF IInv, TypeOK
<1>2. CASE loaded[d] = Null
  BY <1>1, <1>2 DEF ReprocessCommit
<1>3. CASE loaded[d] # Null
  <2>1. /\ loaded[d] \in Row /\ RowConsistent(loaded[d]) /\ loaded[d].status \in Live
        /\ row[d].status \in Live
        /\ loaded[d].status \in {"ready", "failed"} => row[d].status = loaded[d].status
    BY <1>3 DEF IInv, TypeOK, LoadedConsistent
  <2>2. row'[d] = Rewritten(row[d], loaded[d])
    BY <1>3 DEF ReprocessCommit
  <2> QED BY <1>1, <1>3, <2>1, <2>2, RewrittenOK
<1> QED BY <1>2, <1>3

(* Writing only the columns that changed since the read keeps the rows consistent, *)
(* whatever claims and failures were committed in between.                       *)
LEMMA ReprocessCommitInv ==
  ASSUME IInv, NEW D \in SUBSET Document, ReprocessCommit(D)
  PROVE  IInv'
<1>1. /\ queue' \subseteq Document /\ job' = job /\ resets' = resets
      /\ loaded' = [d \in Document |-> Null]
  BY DEF IInv, TypeOK, ReprocessCommit
<1>2. TypeOK'
  <2>1. row' \in [Document -> Row]
    BY CommitRow DEF ReprocessCommit
  <2> QED BY <1>1, <2>1 DEF IInv, TypeOK
<1>3. \A d \in Document : RowConsistent(row'[d]) /\ LoadedConsistent(d)'
  BY <1>1, CommitRow DEF LoadedConsistent
<1>4. \A w \in Worker : ClaimConsistent(w)'
  <2> SUFFICES ASSUME NEW w \in Worker, Busy(w)
               PROVE  ClaimConsistent(w)'
    BY <1>1 DEF ClaimConsistent, Busy
  <2>1. job[w].doc \in Document
    BY HolderFacts
  <2>2. w # Null
    BY NullAssumption
  <2> QED BY <1>1, <2>1, <2>2, CommitRow DEF IInv, ClaimConsistent, HoldsToken
<1> QED BY <1>2, <1>3, <1>4 DEF IInv

(* Time passing keeps each holder's lease ahead of its deadline. *)
LEMMA TickInv ==
  ASSUME IInv, Tick
  PROVE  IInv'
<1>1. /\ queue' = queue /\ loaded' = loaded /\ resets' = resets
  BY DEF Tick
<1>2. ASSUME NEW d \in Document
      PROVE  /\ row'[d] \in Row /\ RowConsistent(row'[d])
             /\ row'[d].status = row[d].status /\ row'[d].sha = row[d].sha
             /\ row'[d].token = row[d].token /\ row'[d].lease = Less(row[d].lease)
  <2>1. row[d] \in Row /\ RowConsistent(row[d])
    BY DEF IInv, TypeOK
  <2>2. row'[d] = [row[d] EXCEPT !.lease = Less(@), !.wait = Less(@), !.throttle = Less(@)]
    BY DEF Tick
  <2>3. row'[d] \in Row /\ RowConsistent(row'[d])
    BY <2>1, <2>2, TickRowOK
  <2> QED BY <2>1, <2>2, <2>3 DEF Row
<1>3. ASSUME NEW w \in Worker
      PROVE  /\ job'[w] \in Job
             /\ job'[w].doc = job[w].doc /\ job'[w].sha = job[w].sha
             /\ job'[w].attempt = job[w].attempt /\ job'[w].deadline = Less(job[w].deadline)
  <2>1. job[w] \in Job /\ job'[w] = [job[w] EXCEPT !.deadline = Less(@)]
    BY DEF IInv, TypeOK, Tick
  <2>2. Less(job[w].deadline) \in Nat
    BY <2>1, LessOK DEF Job, Time
  <2> QED BY <2>1, <2>2 DEF Job
<1>4. TypeOK'
  <2>1. row' \in [Document -> Row] /\ job' \in [Worker -> Job]
    BY <1>2, <1>3 DEF Tick
  <2> QED BY <1>1, <2>1 DEF IInv, TypeOK
<1>5. \A d \in Document : LoadedConsistent(d)'
  BY <1>1, <1>2 DEF IInv, LoadedConsistent
<1>6. \A w \in Worker : ClaimConsistent(w)'
  <2> SUFFICES ASSUME NEW w \in Worker, Busy(w)
               PROVE  ClaimConsistent(w)'
    BY <1>3 DEF ClaimConsistent, Busy
  <2>1. job[w].doc \in Document /\ job[w].deadline \in Nat /\ job[w].deadline > 0
    BY HolderFacts DEF IInv, TypeOK, Job, Tick
  <2>2. HoldsToken(w)' <=> HoldsToken(w)
    BY <1>2, <1>3, <2>1 DEF HoldsToken
  <2>3. ASSUME HoldsToken(w)
        PROVE  row'[job'[w].doc].lease > job'[w].deadline
    <3> DEFINE r == row[job[w].doc]
    <3>1. r \in Row /\ RowConsistent(r) /\ r.token # Null /\ r.lease > job[w].deadline
      BY <2>1, <2>3, NullAssumption DEF IInv, TypeOK, HoldsToken, ClaimConsistent
    <3>2. r.lease \in Time /\ r.lease # Null
      BY <3>1 DEF RowConsistent, Row
    <3>3. Less(r.lease) > Less(job[w].deadline)
      BY <2>1, <3>1, <3>2, LessOK
    <3> QED BY <1>2, <1>3, <2>1, <3>3
  <2> QED BY <1>2, <1>3, <2>1, <2>2, <2>3 DEF IInv, ClaimConsistent, HoldsToken
<1> QED BY <1>2, <1>4, <1>5, <1>6 DEF IInv

(* The invariant is inductive: one case per action. *)
LEMMA StepInv == IInv /\ [Next]_vars => IInv'
<1> SUFFICES ASSUME IInv, [Next]_vars PROVE IInv'
  OBVIOUS
<1>1. CASE UNCHANGED vars
  BY <1>1, QuietInv DEF vars, IInv, TypeOK
<1>2. CASE \E w \in Worker, d \in Document : IgnoreMessage(w, d) \/ GiveUp(w, d) \/ Claim(w, d)
  <2> PICK w \in Worker, d \in Document : IgnoreMessage(w, d) \/ GiveUp(w, d) \/ Claim(w, d)
    BY <1>2
  <2>1. CASE IgnoreMessage(w, d)
    BY <2>1, QuietInv DEF IgnoreMessage, Deliver, IInv, TypeOK
  <2>2. CASE GiveUp(w, d)
    BY <2>2, GiveUpInv
  <2>3. CASE Claim(w, d)
    BY <2>3, ClaimInv
  <2> QED BY <2>1, <2>2, <2>3
<1>3. CASE \E w \in Worker : TaskStep(w)
  <2> PICK w \in Worker : TaskStep(w)
    BY <1>3
  <2>1. CASE WorkerLost(w)
    BY <2>1, QuietInv, HolderFacts DEF WorkerLost, Finished, Publish, IInv, TypeOK
  <2> QED BY <2>1, StoreChunksInv, MarkFailedInv, RetryLaterInv DEF TaskStep
<1>4. CASE \E d \in Document : LoseMessage(d) \/ RetryFailedDocument(d) \/ DeleteDocument(d)
  <2> PICK d \in Document : LoseMessage(d) \/ RetryFailedDocument(d) \/ DeleteDocument(d)
    BY <1>4
  <2>1. CASE LoseMessage(d)
    BY <2>1, QuietInv DEF LoseMessage, IInv, TypeOK
  <2> QED BY <2>1, OwnerInv
<1>5. CASE \E d \in Document, c \in Content : SaveUpload(d, c) \/ UpdateFromSource(d, c)
  BY <1>5, OwnerInv
<1>6. CASE \E D \in SUBSET Document :
             RecoverIngestion(D) \/ ReprocessLoad(D) \/ ReprocessCommit(D)
  BY <1>6, RecoverInv, ReprocessLoadInv, ReprocessCommitInv
<1> QED BY <1>1, <1>2, <1>3, <1>4, <1>5, <1>6, TickInv DEF Next

(* The rows, the executions and a running reprocess stay consistent with each other. *)
THEOREM Invariance == Spec => []IInv
BY InitInv, StepInv, PTL DEF Spec

(* Every variable keeps its type: the attempts counter never exceeds MAX_ATTEMPTS. *)
THEOREM TypeCorrect == Spec => []TypeOK
<1>1. IInv => TypeOK
  BY DEF IInv
<1> QED BY <1>1, Invariance, PTL

(* A ready document's chunks are those of its current file, for any number of      *)
(* documents, workers, retries and resets: the token check of _store_chunks suffices. *)
THEOREM ReadyCorrect == Spec => []ReadyMatchesFile
<1>1. IInv => ReadyMatchesFile
  BY DEF IInv, RowConsistent, ReadyMatchesFile
<1> QED BY <1>1, Invariance, PTL

-----------------------------------------------------------------------------
(* A document under a live claim: its lease runs, so no delivery can claim it. *)
LEMMA HeldIsNotClaimable ==
  ASSUME IInv, NEW w \in Worker, Busy(w), HoldsToken(w)
  PROVE  ~Claimable(row[job[w].doc])
<1> DEFINE r == row[job[w].doc]
<1>1. /\ r.status = "processing" /\ r.lease > job[w].deadline /\ r \in Row
      /\ RowConsistent(r) /\ r.token # Null
  BY HolderFacts, NullAssumption DEF IInv, ClaimConsistent, HoldsToken
<1>2. r.lease \in Nat /\ job[w].deadline \in Nat
  BY <1>1 DEF RowConsistent, Row, Time, IInv, TypeOK, Job
<1>3. r.lease \notin {Null, 0}
  BY <1>1, <1>2, NullAssumption
<1> QED BY <1>1, <1>3 DEF Claimable, LeaseLive, Past

(* Each step takes a claim away only as ClaimHeld allows. *)
LEMMA StepHeld ==
  ASSUME IInv, Next, NEW w \in Worker, Busy(w), HoldsToken(w)
  PROVE  \/ row'[job[w].doc].token = w
         \/ job'[w] = NoJob
         \/ row'[job[w].doc].status = "deleted"
         \/ row'[job[w].doc].status = "pending" /\ <<resets, loaded>>' # <<resets, loaded>>
<1> DEFINE d == job[w].doc
<1>1. /\ d \in Document /\ row[d] \in Row /\ row[d].token = w /\ w # Null
      /\ row[d].status = "processing" /\ ~Claimable(row[d]) /\ row \in [Document -> Row]
      /\ d # Null
  BY HolderFacts, HeldIsNotClaimable, NullAssumption DEF HoldsToken, IInv, TypeOK
<1> SUFFICES ASSUME row'[d] # row[d], row'[d].token # w, job'[w] # NoJob,
                    row'[d].status # "deleted"
             PROVE  row'[d].status = "pending" /\ <<resets, loaded>>' # <<resets, loaded>>
  BY <1>1
<1>2. ASSUME NEW v \in Worker, NEW e \in Document,
             IgnoreMessage(v, e) \/ GiveUp(v, e) \/ Claim(v, e)
      PROVE  FALSE
  <2>1. row' = row \/ (Claimable(row[e]) /\ \E new : row' = [row EXCEPT ![e] = new])
    BY <1>2 DEF IgnoreMessage, GiveUp, Claim
  <2> QED BY <1>1, <2>1
<1>3. ASSUME NEW v \in Worker, TaskStep(v)
      PROVE  FALSE
  <2>1. job' = [job EXCEPT ![v] = NoJob] /\ job \in [Worker -> Job]
    BY <1>3 DEF TaskStep, StoreChunks, MarkFailed, RetryLater, WorkerLost, Finished, IInv, TypeOK
  <2>2. v # w
    BY <2>1
  <2>3. row' = row \/ (HoldsToken(v) /\ \E new : row' = [row EXCEPT ![job[v].doc] = new])
    BY <1>3 DEF TaskStep, StoreChunks, MarkFailed, RetryLater, WorkerLost
  <2> QED BY <1>1, <2>2, <2>3 DEF HoldsToken
<1>4. ASSUME NEW e \in Document, LoseMessage(e) \/ RetryFailedDocument(e) \/ DeleteDocument(e)
      PROVE  FALSE
  <2>1. CASE LoseMessage(e)
    BY <2>1 DEF LoseMessage
  <2>2. CASE RetryFailedDocument(e)
    BY <1>1, <2>2 DEF RetryFailedDocument
  <2>3. CASE DeleteDocument(e)
    <3>1. row' = [row EXCEPT ![e] = NoRow("deleted")] /\ NoRow("deleted").status = "deleted"
      BY <2>3 DEF DeleteDocument, NoRow
    <3> QED BY <1>1, <3>1
  <2> QED BY <1>4, <2>1, <2>2, <2>3
<1>5. ASSUME NEW e \in Document, NEW c \in Content, SaveUpload(e, c) \/ UpdateFromSource(e, c)
      PROVE  row'[d].status = "pending" /\ resets' # resets
  <2>1. CASE SaveUpload(e, c)
    BY <1>1, <2>1 DEF SaveUpload
  <2>2. CASE UpdateFromSource(e, c)
    <3>1. row' = [row EXCEPT ![e] = AsNew(row[e], c)] /\ resets' # resets
      BY <2>2 DEF UpdateFromSource, Asked, IInv, TypeOK
    <3>2. e = d
      BY <1>1, <3>1
    <3> QED BY <1>1, <3>1, <3>2 DEF AsNew, Row
  <2> QED BY <1>5, <2>1, <2>2
<1>6. ASSUME NEW D \in SUBSET Document, RecoverIngestion(D) \/ ReprocessLoad(D)
      PROVE  FALSE
  <2>1. CASE RecoverIngestion(D)
    <3>1. ~Due(d)
      BY <1>1 DEF Due
    <3> QED BY <1>1, <2>1, <3>1 DEF RecoverIngestion
  <2>2. CASE ReprocessLoad(D)
    BY <2>2 DEF ReprocessLoad
  <2> QED BY <1>6, <2>1, <2>2
<1>7. ASSUME NEW D \in SUBSET Document, ReprocessCommit(D)
      PROVE  row'[d].status = "pending" /\ loaded' # loaded
  <2>1. row'[d].token = Null /\ RowConsistent(row'[d])
    BY <1>1, <1>7, CommitRow
  <2>2. row'[d].status # "processing"
    BY <2>1 DEF RowConsistent
  <2>3. row'[d].status = "pending"
    BY <1>1, <1>7, <2>2, CommitRow
  <2>4. loaded' = [e \in Document |-> Null] /\ \E e \in Document : loaded[e] # Null
    BY <1>7 DEF ReprocessCommit, CollectionFree
  <2>5. loaded' # loaded
    BY <2>4
  <2> QED BY <2>3, <2>5
<1>8. ASSUME Tick PROVE FALSE
  <2>1. row'[d].token = row[d].token
    BY <1>1, <1>8 DEF Tick, Row
  <2> QED BY <1>1, <2>1
<1> QED BY <1>2, <1>3, <1>4, <1>5, <1>6, <1>7, <1>8 DEF Next

(* No delivery or recovery takes a document from an execution still running. *)
THEOREM ClaimsAreHeld == Spec => ClaimHeld
<1>1. IInv /\ [Next]_vars =>
        [\A w \in Worker :
           Busy(w) /\ HoldsToken(w) =>
             LET d == job[w].doc IN
               \/ row'[d].token = w
               \/ job'[w] = NoJob
               \/ row'[d].status = "deleted"
               \/ row'[d].status = "pending" /\ <<resets, loaded>>' # <<resets, loaded>>]_vars
  BY StepHeld
<1> QED BY <1>1, Invariance, PTL DEF Spec, ClaimHeld

-----------------------------------------------------------------------------
(* Ingestion implements DocumentLifecycle. *)

phase == [d \in Document |-> row[d].status]
file == [d \in Document |-> row[d].sha]
index == [d \in Document |-> row[d].chunks]

(* A step that leaves status, content and chunks of every row alone is a stutter. *)
LEMMA MapNone ==
  ASSUME \A d \in Document : /\ row'[d].status = row[d].status
                             /\ row'[d].sha = row[d].sha
                             /\ row'[d].chunks = row[d].chunks
  PROVE  UNCHANGED <<phase, file, index>>
BY DEF phase, file, index

(* The actions of the lifecycle on one document are steps of the lifecycle. *)
LEMMA OneStep ==
  ASSUME NEW d \in Document,
         \/ Lifecycle!Start(d) \/ Lifecycle!Requeue(d) \/ Lifecycle!Finish(d)
         \/ Lifecycle!Fail(d) \/ Lifecycle!Remove(d)
         \/ \E c \in Content : Lifecycle!Submit(d, c) \/ Lifecycle!Replace(d, c)
  PROVE  Lifecycle!Next
BY DEF Lifecycle!Next

(* Claiming starts a document or restarts it unseen; giving up fails it. *)
LEMMA RefineDelivery ==
  ASSUME IInv, NEW w \in Worker, NEW d \in Document,
         IgnoreMessage(w, d) \/ GiveUp(w, d) \/ Claim(w, d)
  PROVE  Lifecycle!Next \/ UNCHANGED <<phase, file, index>>
<1>1. row \in [Document -> Row] /\ row[d] \in Row
  BY DEF IInv, TypeOK
<1>2. CASE IgnoreMessage(w, d)
  BY <1>2, MapNone DEF IgnoreMessage
<1>3. CASE GiveUp(w, d)
  <2> DEFINE new == [row[d] EXCEPT !.status = "failed", !.token = Null, !.lease = Null]
  <2>1. row' = [row EXCEPT ![d] = new] /\ row[d].status \in InFlight
    BY <1>3 DEF GiveUp, Claimable, InFlight
  <2>2. new.status = "failed" /\ new.sha = row[d].sha /\ new.chunks = row[d].chunks
    BY <1>1 DEF Row
  <2> HIDE DEF new
  <2>3. phase' = [phase EXCEPT ![d] = "failed"] /\ file' = file /\ index' = index
    BY <1>1, <2>1, <2>2 DEF phase, file, index
  <2>4. Lifecycle!Fail(d)
    BY <2>1, <2>3 DEF Lifecycle!Fail, Lifecycle!InFlight, InFlight, phase, file, index
  <2> QED BY <2>4, OneStep
<1>4. CASE Claim(w, d)
  <2> DEFINE new == [row[d] EXCEPT !.status = "processing", !.token = w, !.lease = LeaseTicks,
                                   !.attempts = row[d].attempts + 1]
  <2>1. row' = [row EXCEPT ![d] = new] /\ row[d].status \in InFlight
    BY <1>4 DEF Claim, Claimable, InFlight
  <2>2. new.status = "processing" /\ new.sha = row[d].sha /\ new.chunks = row[d].chunks
    BY <1>1 DEF Row
  <2> HIDE DEF new
  <2>3. phase' = [phase EXCEPT ![d] = "processing"] /\ file' = file /\ index' = index
    BY <1>1, <2>1, <2>2 DEF phase, file, index
  <2>4. CASE row[d].status = "pending"
    <3>1. Lifecycle!Start(d)
      BY <2>3, <2>4 DEF Lifecycle!Start, phase, file, index
    <3> QED BY <3>1, OneStep
  <2>5. CASE row[d].status = "processing"
    BY <2>3, <2>5 DEF phase, file, index
  <2> QED BY <2>1, <2>4, <2>5 DEF InFlight
<1> QED BY <1>2, <1>3, <1>4

(* The end of an execution finishes, fails or requeues its document, or does *)
(* nothing when it lost its token.                                           *)
LEMMA RefineTask ==
  ASSUME IInv, NEW w \in Worker, TaskStep(w)
  PROVE  Lifecycle!Next \/ UNCHANGED <<phase, file, index>>
<1>1. CASE row' = row
  BY <1>1, MapNone
<1>2. CASE HoldsToken(w) /\ row' # row
  <2>0. PICK d \in Document : d = job[w].doc
    BY <1>2, HolderFacts DEF TaskStep, StoreChunks, MarkFailed, RetryLater, WorkerLost
  <2>1. /\ row \in [Document -> Row] /\ row[d] \in Row
        /\ row[d].status = "processing" /\ row[d].sha = job[w].sha
    BY <1>2, <2>0, HolderFacts
       DEF TaskStep, StoreChunks, MarkFailed, RetryLater, WorkerLost, IInv, TypeOK
  <2>2. CASE StoreChunks(w)
    <3> DEFINE new == [row[d] EXCEPT !.status = "ready", !.token = Null, !.lease = Null,
                                     !.chunks = job[w].sha]
    <3>1. row' = [row EXCEPT ![d] = new]
      BY <1>2, <2>0, <2>2 DEF StoreChunks
    <3>2. new.status = "ready" /\ new.sha = row[d].sha /\ new.chunks = row[d].sha
      BY <2>1 DEF Row
    <3> HIDE DEF new
    <3>3. /\ phase' = [phase EXCEPT ![d] = "ready"] /\ file' = file
          /\ index' = [index EXCEPT ![d] = file[d]]
      BY <2>1, <3>1, <3>2 DEF phase, file, index
    <3>4. Lifecycle!Finish(d)
      BY <2>1, <3>3 DEF Lifecycle!Finish, phase, file, index
    <3> QED BY <2>1, <3>4, OneStep
  <2>3. CASE MarkFailed(w)
    <3> DEFINE new == [row[d] EXCEPT !.status = "failed", !.token = Null, !.lease = Null]
    <3>1. row' = [row EXCEPT ![d] = new]
      BY <1>2, <2>0, <2>3 DEF MarkFailed
    <3>2. new.status = "failed" /\ new.sha = row[d].sha /\ new.chunks = row[d].chunks
      BY <2>1 DEF Row
    <3> HIDE DEF new
    <3>3. phase' = [phase EXCEPT ![d] = "failed"] /\ file' = file /\ index' = index
      BY <2>1, <3>1, <3>2 DEF phase, file, index
    <3>4. Lifecycle!Fail(d)
      BY <2>1, <3>3 DEF Lifecycle!Fail, Lifecycle!InFlight, phase, file, index
    <3> QED BY <2>1, <3>4, OneStep
  <2>4. CASE RetryLater(w)
    <3> DEFINE new == [row[d] EXCEPT !.status = "pending", !.token = Null, !.lease = Null,
                                     !.wait = Backoff[job[w].attempt]]
    <3>1. row' = [row EXCEPT ![d] = new]
      BY <1>2, <2>0, <2>4 DEF RetryLater
    <3>2. new.status = "pending" /\ new.sha = row[d].sha /\ new.chunks = row[d].chunks
      BY <2>1 DEF Row
    <3> HIDE DEF new
    <3>3. phase' = [phase EXCEPT ![d] = "pending"] /\ file' = file /\ index' = index
      BY <2>1, <3>1, <3>2 DEF phase, file, index
    <3>4. Lifecycle!Requeue(d)
      BY <2>1, <3>3 DEF Lifecycle!Requeue, phase, file, index
    <3> QED BY <2>1, <3>4, OneStep
  <2>5. ~WorkerLost(w)
    BY <1>2 DEF WorkerLost
  <2> QED BY <2>2, <2>3, <2>4, <2>5 DEF TaskStep
<1>3. HoldsToken(w) \/ row' = row
  BY DEF TaskStep, StoreChunks, MarkFailed, RetryLater, WorkerLost
<1> QED BY <1>1, <1>2, <1>3

(* The requests of owners are Submit, Replace and Remove. *)
LEMMA RefineOwner ==
  ASSUME IInv, NEW d \in Document,
         \/ LoseMessage(d) \/ RetryFailedDocument(d) \/ DeleteDocument(d)
         \/ \E c \in Content : SaveUpload(d, c) \/ UpdateFromSource(d, c)
  PROVE  Lifecycle!Next \/ UNCHANGED <<phase, file, index>>
<1>1. row \in [Document -> Row] /\ row[d] \in Row /\ RowConsistent(row[d])
  BY DEF IInv, TypeOK
<1>2. CASE LoseMessage(d)
  BY <1>2, MapNone DEF LoseMessage
<1>3. CASE DeleteDocument(d)
  <2>1. row' = [row EXCEPT ![d] = NoRow("deleted")] /\ row[d].status \in Live
    BY <1>3 DEF DeleteDocument
  <2>2. LET n == NoRow("deleted")
        IN  n.status = "deleted" /\ n.sha = Null /\ n.chunks = Null
    BY DEF NoRow
  <2>3. /\ phase' = [phase EXCEPT ![d] = "deleted"] /\ file' = [file EXCEPT ![d] = Null]
        /\ index' = [index EXCEPT ![d] = Null]
    BY <1>1, <2>1, <2>2 DEF phase, file, index
  <2>4. Lifecycle!Remove(d)
    BY <2>1, <2>3
       DEF Lifecycle!Remove, Lifecycle!Live, Lifecycle!Terminal, Lifecycle!InFlight, Live,
           phase, file, index
  <2> QED BY <2>4, OneStep
<1>4. ASSUME NEW c \in Content, row' = [row EXCEPT ![d] = AsNew(row[d], c)]
      PROVE  /\ phase' = [phase EXCEPT ![d] = "pending"] /\ file' = [file EXCEPT ![d] = c]
             /\ index' = index
  <2>1. LET n == AsNew(row[d], c)
        IN  n.status = "pending" /\ n.sha = c /\ n.chunks = row[d].chunks
    BY <1>1 DEF AsNew, Row
  <2> QED BY <1>1, <1>4, <2>1 DEF phase, file, index
<1>5. CASE RetryFailedDocument(d)
  <2>0. PICK c \in Content : c = row[d].sha
    BY <1>1, <1>5 DEF RetryFailedDocument, RowConsistent, Live, Row
  <2>1. row[d].status = "failed"
    BY <1>5 DEF RetryFailedDocument
  <2>2. /\ phase' = [phase EXCEPT ![d] = "pending"] /\ file' = [file EXCEPT ![d] = c]
        /\ index' = index
    BY <1>4, <1>5, <2>0 DEF RetryFailedDocument
  <2>3. Lifecycle!Replace(d, c)
    BY <2>1, <2>2
       DEF Lifecycle!Replace, Lifecycle!Live, Lifecycle!Terminal, phase, file, index
  <2> QED BY <2>1, <2>3, OneStep
<1>6. ASSUME NEW c \in Content, SaveUpload(d, c)
      PROVE  Lifecycle!Next
  <2>1. row[d].status = "absent"
    BY <1>6 DEF SaveUpload
  <2>2. /\ phase' = [phase EXCEPT ![d] = "pending"] /\ file' = [file EXCEPT ![d] = c]
        /\ index' = index
    BY <1>4, <1>6 DEF SaveUpload
  <2>3. Lifecycle!Submit(d, c)
    BY <2>1, <2>2 DEF Lifecycle!Submit, phase, file, index
  <2> QED BY <2>3, OneStep
<1>7. ASSUME NEW c \in Content, UpdateFromSource(d, c)
      PROVE  Lifecycle!Next
  <2>1. row[d].status \in Live
    BY <1>7 DEF UpdateFromSource
  <2>2. /\ phase' = [phase EXCEPT ![d] = "pending"] /\ file' = [file EXCEPT ![d] = c]
        /\ index' = index
    BY <1>4, <1>7 DEF UpdateFromSource
  <2>3. Lifecycle!Replace(d, c)
    BY <2>1, <2>2
       DEF Lifecycle!Replace, Lifecycle!Live, Lifecycle!Terminal, Lifecycle!InFlight, Live,
           phase, file, index
  <2> QED BY <2>3, OneStep
<1> QED BY <1>2, <1>3, <1>5, <1>6, <1>7

(* Recovery is unseen; a reprocess command resets the documents it read settled *)
(* or being processed.                                                         *)
LEMMA RefineBatch ==
  ASSUME IInv, NEW D \in SUBSET Document,
         RecoverIngestion(D) \/ ReprocessLoad(D) \/ ReprocessCommit(D)
  PROVE  Lifecycle!Next \/ UNCHANGED <<phase, file, index>>
<1>1. row \in [Document -> Row]
  BY DEF IInv, TypeOK
<1>2. CASE RecoverIngestion(D)
  BY <1>1, <1>2, MapNone DEF RecoverIngestion, Row
<1>3. CASE ReprocessLoad(D)
  BY <1>3, MapNone DEF ReprocessLoad
<1>4. CASE ReprocessCommit(D)
  <2>0. PICK R \in SUBSET Document :
               R = {d \in Document : loaded[d] # Null /\ loaded[d].status # "pending"}
    OBVIOUS
  <2>1. ASSUME NEW d \in Document
        PROVE  /\ row'[d].sha = row[d].sha /\ row'[d].chunks = row[d].chunks
               /\ row'[d].status = IF d \in R THEN "pending" ELSE row[d].status
               /\ d \in R => row[d].status \in Live
    BY <1>4, <2>0, CommitRow
  <2>2. /\ phase' = [d \in Document |-> IF d \in R THEN "pending" ELSE phase[d]]
        /\ file' = file /\ index' = index
    BY <2>1 DEF phase, file, index
  <2>3. \A d \in R : phase[d] \in Live
    BY <2>1 DEF phase
  <2>4. Lifecycle!Reprocess(R)
    BY <2>2, <2>3
       DEF Lifecycle!Reprocess, Lifecycle!Live, Lifecycle!Terminal, Lifecycle!InFlight, Live,
           phase, file, index
  <2> QED BY <2>4 DEF Lifecycle!Next
<1> QED BY <1>2, <1>3, <1>4

(* Every step of Ingestion is a step of DocumentLifecycle or a stutter. *)
LEMMA RefineStep == IInv /\ [Next]_vars => [Lifecycle!Next]_(Lifecycle!vars)
<1> SUFFICES ASSUME IInv, [Next]_vars
             PROVE  Lifecycle!Next \/ UNCHANGED <<phase, file, index>>
  BY DEF Lifecycle!vars, phase, file, index
<1>1. CASE UNCHANGED vars
  BY <1>1, MapNone DEF vars
<1>2. CASE Tick
  BY <1>2, MapNone DEF Tick, IInv, TypeOK, Row
<1> QED BY <1>1, <1>2, RefineDelivery, RefineTask, RefineOwner, RefineBatch DEF Next

(* Ingestion implements DocumentLifecycle under the mapping of Lifecycle. *)
THEOREM Refinement == Spec => LifecycleSpec
<1>1. Init => Lifecycle!Init
  BY DEF Init, Lifecycle!Init, NoRow
<1> QED BY <1>1, RefineStep, Invariance, PTL DEF Spec, LifecycleSpec, Lifecycle!Spec
====
