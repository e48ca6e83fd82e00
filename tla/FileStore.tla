----------------------------- MODULE FileStore -----------------------------
(* The stored originals of one personal tenant and the documents that refer *)
(* to them: storage/lifecycle.py (the tenant lock), uploads and the removal *)
(* of unreferenced files (ingestion/service.py), deletion                   *)
(* (api/v1/documents.py) and the synchronisation of connected sources       *)
(* (sources/sync.py).  A file is named by its content; all have size 1.     *)
EXTENDS Integers, FiniteSets

CONSTANTS
  Document,  \* document ids, each used for one row only
  Content,   \* contents a file can have (its sha256)
  Request,   \* requests being served: uploads and deletions
  Sync,      \* connected sources, each run by at most one task
  Home,      \* the collection of each document
  Source,    \* the source that makes each document, Null when it is uploaded
  Null,
  Deleted,
  Limit      \* ACCOUNT_STORAGE_LIMIT_BYTES, in files

Process == Request \cup Sync

ASSUME DistinctAssumption ==
  /\ Null \notin Process \cup Document \cup Content \cup {Deleted}
  /\ Deleted \notin Content
  /\ Request \cap Sync = {}
ASSUME SourceAssumption == Source \in [Document -> Sync \cup {Null}]
ASSUME LimitAssumption == Limit \in Nat
ASSUME FiniteAssumption == IsFiniteSet(Document) /\ IsFiniteSet(Sync)

VARIABLES
  row,    \* the content each document's row refers to; Null before, Deleted after
  files,  \* contents that are stored
  lock,   \* who holds the row lock of the tenant
  proc    \* where each process is, with the document and the content it works on

vars == <<row, files, lock, proc>>

Locking == {"uploading", "removing", "unlinking"}
Phase == Locking \cup {"idle", "syncing", "cleaning"}

Idle == [at |-> "idle", doc |-> Null, sha |-> Null, todo |-> {}]

Init ==
  /\ row = [d \in Document |-> Null]
  /\ files = {}
  /\ lock = Null
  /\ proc = [p \in Process |-> Idle]

-----------------------------------------------------------------------------
Stored(d) == row[d] \in Content

Referenced(c) == \E d \in Document : row[d] = c

(* The unique constraint on (collection_id, sha256). *)
Unique(d, c) == \A e \in Document \ {d} : Home[e] = Home[d] => row[e] # c

Used == Cardinality({d \in Document : Stored(d)})

Goto(p, at, d, c) ==
  proc' = [proc EXCEPT ![p] = [at |-> at, doc |-> d, sha |-> c, todo |-> {}]]

Done(p) == proc' = [proc EXCEPT ![p] = Idle]

(* Go on removing the files of T, one transaction each. *)
CleanUp(p, T) ==
  proc' = [proc EXCEPT ![p] =
             IF T = {} THEN Idle ELSE [at |-> "cleaning", doc |-> Null, sha |-> Null, todo |-> T]]

-----------------------------------------------------------------------------
(* save_upload: the file is stored and its row committed under the lock. *)
SaveUpload(p, d, c) ==
  /\ proc[p] = Idle
  /\ lock = Null
  /\ Source[d] = Null /\ row[d] = Null
  /\ Unique(d, c)
  /\ Used + 1 <= Limit
  /\ files' = files \cup {c}
  /\ lock' = p
  /\ Goto(p, "uploading", d, c)
  /\ UNCHANGED row

(* An IntegrityError means that a source brought the same text meanwhile. *)
CommitUpload(p) ==
  LET d == proc[p].doc
      c == proc[p].sha
  IN  /\ proc[p].at = "uploading"
      /\ row' = IF Unique(d, c) THEN [row EXCEPT ![d] = c] ELSE row
      /\ lock' = Null
      /\ Done(p)
      /\ UNCHANGED files

(* delete_document: the row is read under the lock, and its deletion committed. *)
DeleteDocument(p, d) ==
  /\ proc[p] = Idle
  /\ lock = Null
  /\ Stored(d)
  /\ lock' = p
  /\ Goto(p, "removing", d, row[d])
  /\ UNCHANGED <<row, files>>

(* Mutant: the row is deleted and its file forgotten. *)
CommitDeleteOnly(p) ==
  /\ proc[p].at = "removing"
  /\ row' = [row EXCEPT ![proc[p].doc] = Deleted]
  /\ lock' = Null
  /\ Done(p)
  /\ UNCHANGED files

CommitDelete(p) ==
  /\ proc[p].at = "removing"
  /\ row' = [row EXCEPT ![proc[p].doc] = Deleted]
  /\ lock' = Null
  /\ CleanUp(p, {proc[p].sha})
  /\ UNCHANGED files

(* Mutant: the references are looked for without waiting for the lock. *)
CheckUnlocked(p, c) ==
  /\ proc[p].at = "cleaning" /\ c \in proc[p].todo
  /\ IF Referenced(c)
     THEN CleanUp(p, proc[p].todo \ {c}) /\ UNCHANGED lock
     ELSE /\ proc' = [proc EXCEPT ![p] = [at |-> "unlinking", doc |-> Null, sha |-> c,
                                         todo |-> proc[p].todo \ {c}]]
          /\ lock' = p
  /\ UNCHANGED <<row, files>>

(* delete_document_file_if_unreferenced, and _delete_file_if_unreferenced of a *)
(* sync: the lock is taken again, references are looked for, the file removed. *)
CheckReferences(p, c) ==
  /\ proc[p].at = "cleaning" /\ c \in proc[p].todo
  /\ lock = Null
  /\ IF Referenced(c)
     THEN CleanUp(p, proc[p].todo \ {c}) /\ UNCHANGED lock
     ELSE /\ proc' = [proc EXCEPT ![p] = [at |-> "unlinking", doc |-> Null, sha |-> c,
                                         todo |-> proc[p].todo \ {c}]]
          /\ lock' = p
  /\ UNCHANGED <<row, files>>

Unlink(p) ==
  /\ proc[p].at = "unlinking"
  /\ files' = files \ {proc[p].sha}
  /\ lock' = Null
  /\ CleanUp(p, proc[p].todo)
  /\ UNCHANGED row

-----------------------------------------------------------------------------
(* _upsert: the file is stored in a transaction that holds the lock, and the row *)
(* committed in another one that does not.  The task may work from a listing     *)
(* older than the document's deletion.                                           *)
UpsertStore(s, d, c) ==
  /\ proc[s] = Idle
  /\ lock = Null
  /\ Source[d] = s
  /\ row[d] # c
  /\ Used - (IF Stored(d) THEN 1 ELSE 0) + 1 <= Limit
  /\ files' = files \cup {c}
  /\ Goto(s, "syncing", d, c)
  /\ UNCHANGED <<row, lock>>

UpsertCommit(s) ==
  LET d == proc[s].doc
      c == proc[s].sha
  IN  /\ proc[s].at = "syncing"
      /\ \/ /\ row[d] = Deleted
            /\ Done(s)
            /\ UNCHANGED row
         \/ /\ row[d] # Deleted
            /\ Unique(d, c)
            /\ row' = [row EXCEPT ![d] = c]
            /\ CleanUp(s, {row[d]} \cap Content)
         \/ /\ row[d] # Deleted
            /\ ~Unique(d, c)
            /\ CleanUp(s, {c})
            /\ UNCHANGED row
      /\ UNCHANGED <<files, lock>>

(* _remove_vanished: the pages that the source does not list any more. *)
RemoveVanished(s, D) ==
  /\ proc[s] = Idle
  /\ D # {}
  /\ \A d \in D : Source[d] = s /\ Stored(d)
  /\ row' = [d \in Document |-> IF d \in D THEN Deleted ELSE row[d]]
  /\ CleanUp(s, {row[d] : d \in D})
  /\ UNCHANGED <<files, lock>>

-----------------------------------------------------------------------------
(* The process dies, or the storage fails it: its transaction is rolled back and *)
(* its lock released.                                                            *)
Crash(p) ==
  /\ proc[p] # Idle
  /\ lock' = IF lock = p THEN Null ELSE lock
  /\ Done(p)
  /\ UNCHANGED <<row, files>>

Next ==
  \/ \E p \in Request, d \in Document :
       DeleteDocument(p, d) \/ \E c \in Content : SaveUpload(p, d, c)
  \/ \E p \in Request : CommitUpload(p) \/ CommitDelete(p)
  \/ \E s \in Sync, d \in Document, c \in Content : UpsertStore(s, d, c)
  \/ \E s \in Sync, D \in SUBSET Document : RemoveVanished(s, D)
  \/ \E s \in Sync : UpsertCommit(s)
  \/ \E p \in Process, c \in Content : CheckReferences(p, c)
  \/ \E p \in Process : Unlink(p) \/ Crash(p)

Spec == Init /\ [][Next]_vars

-----------------------------------------------------------------------------
TypeOK ==
  /\ row \in [Document -> Content \cup {Null, Deleted}]
  /\ files \subseteq Content
  /\ lock \in Process \cup {Null}
  /\ proc \in [Process -> [at : Phase, doc : Document \cup {Null},
                           sha : Content \cup {Null}, todo : SUBSET Content]]

(* "[Removal] cannot destroy a committed surviving reference": the file of every *)
(* committed row is stored (storage/lifecycle.py).                               *)
ReferencesStored == \A d \in Document : Stored(d) => row[d] \in files

(* The same of uploaded documents, whatever sources sync meanwhile. *)
UploadsStored ==
  \A d \in Document : Source[d] = Null /\ Stored(d) => row[d] \in files

(* Quotas are checked under the lock; a sync commits its row after giving the lock *)
(* up, so each source that is running can bring the tenant one file over.          *)
QuotaKept == Used <= Limit + Cardinality(Sync)

(* "A crash may leave an orphan file": nothing else does, as long as no source is  *)
(* involved.  A sync leaves the file it stored when it finds its document deleted, *)
(* and a deletion the file that a sync gave its document after the deletion read   *)
(* the row.                                                                        *)
InHand(c) == \E p \in Process : proc[p].sha = c \/ c \in proc[p].todo
NoOrphan == \A c \in files : Referenced(c) \/ InHand(c)

SyncTooLate == \E s \in Sync : UpsertCommit(s) /\ row[proc[s].doc] = Deleted
DeletedUnread ==
  \E p \in Request : LET d == proc[p].doc IN
    CommitDelete(p) /\ Source[d] # Null /\ row[d] # proc[p].sha

OrphansComeFromCrashes ==
  [][NoOrphan => NoOrphan' \/ SyncTooLate \/ DeletedUnread \/ \E p \in Process : Crash(p)]_vars

(* Whatever overlaps, an upload is within the quota but for what a running source   *)
(* brings, and a file without a document is left by a crash or by a deletion that     *)
(* overtakes a source (api/v1/documents.py, sources/sync.py).                         *)
FilesHold == []QuotaKept /\ OrphansComeFromCrashes

(* The inductive invariant: the lock covers an upload from the moment its file is *)
(* stored, and a removal from the moment it found no reference.                   *)
LockConsistent(p) == proc[p].at \in Locking <=> lock = p

HandConsistent(p) ==
  /\ proc[p].at \in {"uploading", "removing", "syncing"} =>
       proc[p].doc \in Document /\ proc[p].sha \in Content /\ proc[p].todo = {}
  /\ proc[p].at = "cleaning" => proc[p].sha = Null
  /\ proc[p].at = "uploading" => /\ p \in Request
                                 /\ Source[proc[p].doc] = Null /\ row[proc[p].doc] = Null
                                 /\ proc[p].sha \in files
  /\ proc[p].at = "removing" => Source[proc[p].doc] # Null \/ row[proc[p].doc] = proc[p].sha
  /\ proc[p].at = "syncing" => Source[proc[p].doc] = p
  /\ proc[p].at = "unlinking" =>
       \A d \in Document : Source[d] = Null => row[d] # proc[p].sha

IInv ==
  /\ TypeOK
  /\ UploadsStored
  /\ \A p \in Process : LockConsistent(p) /\ HandConsistent(p)

(* What uploads and sources are about to add counts towards the quota already: the   *)
(* one upload under the lock, and the rows that syncing sources have yet to create.  *)
Uploading == {p \in Request : proc[p].at = "uploading"}
Bringing == {s \in Sync : proc[s].at = "syncing" /\ row[proc[s].doc] = Null}

QuotaInv ==
  Used + Cardinality(Uploading) + Cardinality(Bringing) <= Limit + Cardinality(Sync)
=============================================================================
