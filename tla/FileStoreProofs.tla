-------------------------- MODULE FileStoreProofs --------------------------
(* The tenant lock protects uploads, for any number of requests and sources;  *)
(* an original survives in its bucket or on its disk; a backup is whole; and    *)
(* files go out to those who may read them, for any number of actors, roles,    *)
(* collections and documents.                                                   *)
EXTENDS MCFileStore, FiniteSetTheorems, SequenceTheorems, TLAPS

(* Nothing is stored, referenced or locked at first. *)
LEMMA InitInv == Init => IInv
<1> SUFFICES ASSUME Init PROVE IInv
  OBVIOUS
<1>1. TypeOK
  BY DEF Init, TypeOK, Idle, Phase, Locking
<1>2. UploadsStored
  BY DistinctAssumption DEF Init, UploadsStored, Stored
<1>3. ASSUME NEW p \in Process
      PROVE  LockConsistent(p) /\ HandConsistent(p)
  BY <1>3, DistinctAssumption DEF Init, LockConsistent, HandConsistent, Idle, Locking
<1> QED BY <1>1, <1>2, <1>3 DEF IInv

(* The lock is taken as the file is stored, so no removal is between its check and *)
(* its unlink.                                                                    *)
LEMMA SaveUploadInv ==
  ASSUME IInv, NEW p \in Request, NEW d \in Document, NEW c \in Content, SaveUpload(p, d, c)
  PROVE  IInv'
<1>1. p \in Process /\ proc[p] = Idle /\ lock = Null /\ lock' = p /\ row' = row
      /\ files' = files \cup {c} /\ Source[d] = Null /\ row[d] = Null
      /\ proc' = [proc EXCEPT ![p] = [at |-> "uploading", doc |-> d, sha |-> c, todo |-> {}]]
  BY DEF SaveUpload, Goto, Process
<1>2. TypeOK'
  BY <1>1 DEF IInv, TypeOK, Phase, Locking
<1>3. UploadsStored'
  BY <1>1 DEF IInv, UploadsStored, Stored
<1>4. ASSUME NEW q \in Process
      PROVE  LockConsistent(q)' /\ HandConsistent(q)'
  BY <1>1, DistinctAssumption
     DEF IInv, TypeOK, LockConsistent, HandConsistent, Locking, UploadsStored, Stored
<1> QED BY <1>2, <1>3, <1>4 DEF IInv

(* The lock is still held, so the file is still stored. *)
LEMMA CommitUploadInv ==
  ASSUME IInv, NEW p \in Request, CommitUpload(p)
  PROVE  IInv'
<1> DEFINE d == proc[p].doc
           c == proc[p].sha
<1>1. /\ p \in Process /\ lock = p /\ lock' = Null /\ files' = files
      /\ d \in Document /\ c \in Content /\ c \in files /\ Source[d] = Null
      /\ proc' = [proc EXCEPT ![p] = Idle]
      /\ row' = row \/ row' = [row EXCEPT ![d] = c]
  BY DEF CommitUpload, Done, Process, IInv, LockConsistent, HandConsistent, Locking
<1> HIDE DEF d, c
<1>2. TypeOK'
  BY <1>1 DEF IInv, TypeOK, Phase, Locking, Idle
<1>3. UploadsStored'
  BY <1>1 DEF IInv, TypeOK, UploadsStored, Stored
<1>4. ASSUME NEW q \in Process
      PROVE  LockConsistent(q)' /\ HandConsistent(q)'
  BY <1>1, DistinctAssumption
     DEF IInv, TypeOK, LockConsistent, HandConsistent, Locking, Idle
<1> QED BY <1>2, <1>3, <1>4 DEF IInv

(* What the end of a transaction leaves a process with. *)
LEMMA CleanUpOK ==
  ASSUME NEW p, NEW T \in SUBSET Content, CleanUp(p, T)
  PROVE  \E new \in [at : {"idle", "cleaning"}, doc : {Null}, sha : {Null}, todo : SUBSET Content] :
           proc' = [proc EXCEPT ![p] = new]
<1>1. CASE T = {}
  <2>1. Idle \in [at : {"idle", "cleaning"}, doc : {Null}, sha : {Null}, todo : SUBSET Content]
    BY DEF Idle
  <2> QED BY <1>1, <2>1 DEF CleanUp
<1>2. CASE T # {}
  BY <1>2 DEF CleanUp
<1> QED BY <1>1, <1>2

(* A process gives the lock up, or goes on without it, and its step neither adds a *)
(* reference of an upload nor removes a file.                                      *)
LEMMA LeaveInv ==
  ASSUME IInv, NEW p \in Process,
         NEW new \in [at : {"idle", "cleaning"}, doc : {Null}, sha : {Null}, todo : SUBSET Content],
         proc' = [proc EXCEPT ![p] = new],
         lock' = IF lock = p THEN Null ELSE lock,
         files' = files,
         row' \in [Document -> Content \cup {Null, Deleted}],
         \A d \in Document : row'[d] # row[d] => Source[d] # Null \/ (row'[d] = Deleted /\ lock = p)
  PROVE  IInv'
<1>1. TypeOK'
  BY DEF IInv, TypeOK, Phase, Locking
<1>2. UploadsStored'
  BY DistinctAssumption DEF IInv, TypeOK, UploadsStored, Stored
<1>3. ASSUME NEW q \in Process
      PROVE  LockConsistent(q)' /\ HandConsistent(q)'
  <2>1. CASE q = p
    BY <2>1, DistinctAssumption DEF IInv, TypeOK, LockConsistent, HandConsistent, Locking
  <2>2. CASE q # p
    <3>1. proc'[q] = proc[q]
      BY <2>2 DEF IInv, TypeOK
    <3> QED BY <2>2, <3>1, DistinctAssumption
            DEF IInv, TypeOK, LockConsistent, HandConsistent, Locking
  <2> QED BY <2>1, <2>2
<1> QED BY <1>1, <1>2, <1>3 DEF IInv

(* A deletion holds the lock from the reading of the row to its commit. *)
LEMMA DeleteDocumentInv ==
  ASSUME IInv, NEW p \in Request, NEW d \in Document, DeleteDocument(p, d)
  PROVE  IInv'
<1>1. /\ p \in Process /\ proc[p] = Idle /\ lock = Null /\ lock' = p /\ row' = row
      /\ files' = files /\ row[d] \in Content
      /\ proc' = [proc EXCEPT ![p] = [at |-> "removing", doc |-> d, sha |-> row[d], todo |-> {}]]
  BY DEF DeleteDocument, Goto, Process, Stored
<1>2. TypeOK'
  BY <1>1 DEF IInv, TypeOK, Phase, Locking
<1>3. UploadsStored'
  BY <1>1 DEF IInv, UploadsStored, Stored
<1>4. ASSUME NEW q \in Process
      PROVE  LockConsistent(q)' /\ HandConsistent(q)'
  BY <1>1, DistinctAssumption DEF IInv, TypeOK, LockConsistent, HandConsistent, Locking
<1> QED BY <1>2, <1>3, <1>4 DEF IInv

(* The lock goes with the commit: the file is removed later. *)
LEMMA CommitDeleteInv ==
  ASSUME IInv, NEW p \in Request, CommitDelete(p)
  PROVE  IInv'
<1>1. /\ p \in Process /\ lock = p /\ proc[p].doc \in Document /\ proc[p].sha \in Content
  BY DEF CommitDelete, Process, IInv, LockConsistent, HandConsistent, Locking
<1>2. PICK new \in [at : {"idle", "cleaning"}, doc : {Null}, sha : {Null}, todo : SUBSET Content] :
        proc' = [proc EXCEPT ![p] = new]
  BY <1>1, CleanUpOK DEF CommitDelete
<1>3. /\ lock' = IF lock = p THEN Null ELSE lock
      /\ files' = files
      /\ row' = [row EXCEPT ![proc[p].doc] = Deleted]
  BY <1>1 DEF CommitDelete
<1>4. /\ row' \in [Document -> Content \cup {Null, Deleted}]
      /\ \A d \in Document : row'[d] # row[d] => Source[d] # Null \/ (row'[d] = Deleted /\ lock = p)
  BY <1>1, <1>3 DEF IInv, TypeOK
<1> QED BY <1>1, <1>2, <1>3, <1>4, LeaveInv

(* What has no reference under the lock gets no upload's before it is unlinked. *)
LEMMA CheckReferencesInv ==
  ASSUME IInv, NEW p \in Process, NEW c \in Content, CheckReferences(p, c)
  PROVE  IInv'
<1>1. proc[p].todo \ {c} \in SUBSET Content /\ lock = Null /\ row' = row /\ files' = files
  BY DEF CheckReferences, IInv, TypeOK
<1>2. CASE Referenced(c)
  <2>1. PICK new \in [at : {"idle", "cleaning"}, doc : {Null}, sha : {Null}, todo : SUBSET Content] :
          proc' = [proc EXCEPT ![p] = new]
    BY <1>1, <1>2, CleanUpOK DEF CheckReferences
  <2>2. lock' = IF lock = p THEN Null ELSE lock
    BY <1>1, <1>2 DEF CheckReferences
  <2>3. /\ row' \in [Document -> Content \cup {Null, Deleted}]
        /\ \A d \in Document : row'[d] # row[d] => Source[d] # Null \/ (row'[d] = Deleted /\ lock = p)
    BY <1>1 DEF IInv, TypeOK
  <2> QED BY <1>1, <2>1, <2>2, <2>3, LeaveInv
<1>3. CASE ~Referenced(c)
  <2> DEFINE new == [at |-> "unlinking", doc |-> Null, sha |-> c, todo |-> proc[p].todo \ {c}]
  <2>1. /\ proc' = [proc EXCEPT ![p] = new] /\ lock' = p
        /\ \A d \in Document : row[d] # c
    BY <1>3 DEF CheckReferences, Referenced
  <2>2. /\ new \in [at : Phase, doc : Document \cup {Null}, sha : Content \cup {Null},
                    todo : SUBSET Content]
        /\ new.at = "unlinking" /\ new.sha = c
    BY <1>1 DEF Phase, Locking
  <2> HIDE DEF new
  <2>3. TypeOK'
    BY <1>1, <2>1, <2>2 DEF IInv, TypeOK
  <2>4. UploadsStored'
    BY <1>1 DEF IInv, UploadsStored, Stored
  <2>5. ASSUME NEW q \in Process
        PROVE  LockConsistent(q)' /\ HandConsistent(q)'
    BY <1>1, <2>1, <2>2, DistinctAssumption
       DEF IInv, TypeOK, LockConsistent, HandConsistent, Locking
  <2> QED BY <2>3, <2>4, <2>5 DEF IInv
<1> QED BY <1>2, <1>3

(* No upload refers to the file that is removed, and none is under way. *)
LEMMA UnlinkInv ==
  ASSUME IInv, NEW p \in Process, Unlink(p)
  PROVE  IInv'
<1>1. /\ lock = p /\ lock' = Null /\ row' = row /\ files' = files \ {proc[p].sha}
      /\ \A d \in Document : Source[d] = Null => row[d] # proc[p].sha
      /\ proc[p].todo \in SUBSET Content
  BY DEF Unlink, IInv, TypeOK, LockConsistent, HandConsistent, Locking
<1>2. PICK new \in [at : {"idle", "cleaning"}, doc : {Null}, sha : {Null}, todo : SUBSET Content] :
        proc' = [proc EXCEPT ![p] = new]
  BY <1>1, CleanUpOK DEF Unlink
<1>3. TypeOK'
  BY <1>1, <1>2 DEF IInv, TypeOK, Phase, Locking
<1>4. UploadsStored'
  BY <1>1 DEF IInv, UploadsStored, Stored
<1>5. ASSUME NEW q \in Process
      PROVE  LockConsistent(q)' /\ HandConsistent(q)'
  BY <1>1, <1>2, DistinctAssumption DEF IInv, TypeOK, LockConsistent, HandConsistent, Locking
<1> QED BY <1>3, <1>4, <1>5 DEF IInv

(* The file of a source's document is stored under the lock, which is given up. *)
LEMMA UpsertStoreInv ==
  ASSUME IInv, NEW s \in Sync, NEW d \in Document, NEW c \in Content, UpsertStore(s, d, c)
  PROVE  IInv'
<1>1. /\ s \in Process /\ proc[s] = Idle /\ lock' = lock /\ row' = row /\ Source[d] = s
      /\ files' = files \cup {c}
      /\ proc' = [proc EXCEPT ![s] = [at |-> "syncing", doc |-> d, sha |-> c, todo |-> {}]]
  BY DEF UpsertStore, Goto, Process
<1>2. TypeOK'
  BY <1>1 DEF IInv, TypeOK, Phase, Locking
<1>3. UploadsStored'
  BY <1>1 DEF IInv, UploadsStored, Stored
<1>4. ASSUME NEW q \in Process
      PROVE  LockConsistent(q)' /\ HandConsistent(q)'
  BY <1>1, DistinctAssumption DEF IInv, TypeOK, LockConsistent, HandConsistent, Locking, Idle
<1> QED BY <1>2, <1>3, <1>4 DEF IInv

(* A sync writes the rows of its own documents only. *)
LEMMA UpsertCommitInv ==
  ASSUME IInv, NEW s \in Sync, UpsertCommit(s)
  PROVE  IInv'
<1> DEFINE d == proc[s].doc
           c == proc[s].sha
<1>1. /\ s \in Process /\ d \in Document /\ c \in Content /\ Source[d] # Null
      /\ lock' = lock /\ lock # s /\ files' = files
  BY DistinctAssumption
     DEF UpsertCommit, Process, IInv, LockConsistent, HandConsistent, Locking
<1>2. row' = row \/ row' = [row EXCEPT ![d] = c]
  BY DEF UpsertCommit
<1>3. Done(s) \/ CleanUp(s, {row[d]} \cap Content) \/ CleanUp(s, {c})
  BY DEF UpsertCommit
<1> HIDE DEF d, c
<1>4. PICK new \in [at : {"idle", "cleaning"}, doc : {Null}, sha : {Null}, todo : SUBSET Content] :
        proc' = [proc EXCEPT ![s] = new]
  <2>1. Idle \in [at : {"idle", "cleaning"}, doc : {Null}, sha : {Null}, todo : SUBSET Content]
    BY DEF Idle
  <2>2. CASE Done(s)
    BY <2>1, <2>2 DEF Done
  <2>3. CASE CleanUp(s, {row[d]} \cap Content)
    BY <2>3, CleanUpOK
  <2>4. CASE CleanUp(s, {c})
    BY <1>1, <2>4, CleanUpOK
  <2> QED BY <1>3, <2>2, <2>3, <2>4
<1>5. /\ row' \in [Document -> Content \cup {Null, Deleted}]
      /\ \A e \in Document : row'[e] # row[e] => Source[e] # Null \/ (row'[e] = Deleted /\ lock = s)
  BY <1>1, <1>2 DEF IInv, TypeOK
<1> QED BY <1>1, <1>4, <1>5, LeaveInv

(* So does the removal of vanished pages. *)
LEMMA RemoveVanishedInv ==
  ASSUME IInv, NEW s \in Sync, NEW D \in SUBSET Document, RemoveVanished(s, D)
  PROVE  IInv'
<1>1. /\ s \in Process /\ lock' = lock /\ lock # s /\ files' = files
      /\ {row[d] : d \in D} \in SUBSET Content
  BY DistinctAssumption DEF RemoveVanished, Process, IInv, LockConsistent, Locking, Idle, Stored
<1>2. PICK new \in [at : {"idle", "cleaning"}, doc : {Null}, sha : {Null}, todo : SUBSET Content] :
        proc' = [proc EXCEPT ![s] = new]
  BY <1>1, CleanUpOK DEF RemoveVanished
<1>3. /\ row' \in [Document -> Content \cup {Null, Deleted}]
      /\ \A d \in Document : row'[d] # row[d] => Source[d] # Null \/ (row'[d] = Deleted /\ lock = s)
  BY DistinctAssumption DEF RemoveVanished, Process, IInv, TypeOK
<1> QED BY <1>1, <1>2, <1>3, LeaveInv

(* A crash leaves the committed rows and the files as they are. *)
LEMMA CrashInv ==
  ASSUME IInv, NEW p \in Process, Crash(p)
  PROVE  IInv'
<1>1. Idle \in [at : {"idle", "cleaning"}, doc : {Null}, sha : {Null}, todo : SUBSET Content]
  BY DEF Idle
<1>2. /\ proc' = [proc EXCEPT ![p] = Idle]
      /\ lock' = IF lock = p THEN Null ELSE lock
      /\ files' = files
      /\ row' = row
  BY DEF Crash, Done
<1>3. /\ row' \in [Document -> Content \cup {Null, Deleted}]
      /\ \A d \in Document : row'[d] # row[d] => Source[d] # Null \/ (row'[d] = Deleted /\ lock = p)
  BY <1>2 DEF IInv, TypeOK
<1> QED BY <1>1, <1>2, <1>3, LeaveInv

(* The invariant is inductive: one case per action. *)
LEMMA StepInv == IInv /\ [Next]_vars => IInv'
<1> SUFFICES ASSUME IInv, [Next]_vars PROVE IInv'
  OBVIOUS
<1>1. CASE UNCHANGED vars
  BY <1>1 DEF vars, IInv, TypeOK, UploadsStored, Stored, LockConsistent, HandConsistent
<1> QED BY <1>1, SaveUploadInv, CommitUploadInv, DeleteDocumentInv, CommitDeleteInv,
           CheckReferencesInv, UnlinkInv, UpsertStoreInv, UpsertCommitInv, RemoveVanishedInv,
           CrashInv DEF Next

(* The lock, the rows and what each process has in hand stay consistent. *)
THEOREM Invariance == Spec => []IInv
BY InitInv, StepInv, PTL DEF Spec

(* "cannot destroy a committed surviving reference" (storage/lifecycle.py) holds of *)
(* every uploaded document, however many requests and sources run and crash.       *)
THEOREM UploadsAreStored == Spec => []UploadsStored
<1>1. IInv => UploadsStored
  BY DEF IInv
<1> QED BY <1>1, Invariance, PTL

-----------------------------------------------------------------------------
(* The end of a transaction keeps in hand exactly the files that are to be removed. *)
LEMMA CleanUpKeeps ==
  ASSUME NEW p, NEW T \in SUBSET Content, CleanUp(p, T)
  PROVE  \E new : new.todo = T /\ proc' = [proc EXCEPT ![p] = new]
<1>1. CASE T = {}
  <2>1. Idle.todo = T
    BY <1>1 DEF Idle
  <2> QED BY <1>1, <2>1 DEF CleanUp
<1>2. CASE T # {}
  BY <1>2 DEF CleanUp
<1> QED BY <1>1, <1>2

LEMMA GotoHolds ==
  ASSUME NEW p, NEW at, NEW d, NEW c, Goto(p, at, d, c)
  PROVE  \E new : new.sha = c /\ proc' = [proc EXCEPT ![p] = new]
<1> DEFINE new == [at |-> at, doc |-> d, sha |-> c, todo |-> {}]
<1>1. new.sha = c
  OBVIOUS
<1>2. proc' = [proc EXCEPT ![p] = new]
  BY DEF Goto
<1> HIDE DEF new
<1> QED BY <1>1, <1>2

(* A step of one process orphans no file if what it stores stays in its hand, and a *)
(* file it lets go of, or takes the reference of, is still referred to or in hand.  *)
LEMMA KeepsHold ==
  ASSUME IInv, NoOrphan, NEW p \in Process, NEW new, proc' = [proc EXCEPT ![p] = new],
         \A c \in files' : c \in files \/ c = new.sha,
         \A c \in files' : proc[p].sha = c \/ c \in proc[p].todo \/ Referenced(c) =>
           new.sha = c \/ c \in new.todo \/ \E d \in Document : row'[d] = c
  PROVE  NoOrphan'
<1> SUFFICES ASSUME NEW c \in files' PROVE Referenced(c)' \/ InHand(c)'
  BY DEF NoOrphan
<1>1. proc'[p] = new /\ \A q \in Process \ {p} : proc'[q] = proc[q]
  BY DEF IInv, TypeOK
<1>2. CASE c \notin files
  BY <1>1, <1>2 DEF InHand
<1>3. CASE c \in files /\ (proc[p].sha = c \/ c \in proc[p].todo \/ Referenced(c))
  BY <1>1, <1>3 DEF InHand, Referenced
<1>4. CASE \E q \in Process \ {p} : proc[q].sha = c \/ c \in proc[q].todo
  BY <1>1, <1>4 DEF InHand
<1> QED BY <1>2, <1>3, <1>4 DEF NoOrphan, InHand

(* One case per action: only a crash, a sync that comes too late and a deletion that *)
(* did not see what a sync wrote leave a file behind.                                *)
LEMMA StepOrphans ==
  ASSUME IInv, [Next]_vars, NoOrphan
  PROVE  NoOrphan' \/ SyncTooLate \/ DeletedUnread \/ \E p \in Process : Crash(p)
<1>0. /\ Request \subseteq Process /\ Sync \subseteq Process
      /\ files \subseteq Content /\ Null \notin Content
      /\ \A c : row' = row /\ Referenced(c) => \E d \in Document : row'[d] = c
  BY DistinctAssumption DEF Process, IInv, TypeOK, Referenced
<1>1. CASE UNCHANGED vars
  BY <1>1 DEF vars, NoOrphan, Referenced, InHand
<1>2. ASSUME NEW p \in Request, NEW d \in Document, NEW c \in Content, SaveUpload(p, d, c)
      PROVE  NoOrphan'
  <2>1. proc[p].sha = Null /\ proc[p].todo = {} /\ row' = row /\ files' = files \cup {c}
    BY <1>2 DEF SaveUpload, Idle
  <2>2. PICK new : new.sha = c /\ proc' = [proc EXCEPT ![p] = new]
    BY <1>2, GotoHolds DEF SaveUpload
  <2>3. \A b \in files' : proc[p].sha = b \/ b \in proc[p].todo \/ Referenced(b) =>
          new.sha = b \/ b \in new.todo \/ \E e \in Document : row'[e] = b
    BY <1>0, <2>1, <2>2
  <2> QED BY <1>0, <2>1, <2>2, <2>3, KeepsHold
<1>3. ASSUME NEW p \in Request, CommitUpload(p)
      PROVE  NoOrphan'
  <2>1. /\ proc[p].doc \in Document /\ proc[p].sha \in Content /\ row[proc[p].doc] = Null
        /\ proc[p].todo = {} /\ proc' = [proc EXCEPT ![p] = Idle] /\ files' = files
    BY <1>0, <1>3 DEF CommitUpload, Done, IInv, HandConsistent
  <2>2. \E d \in Document : row'[d] = proc[p].sha
    BY <1>3, <2>1 DEF CommitUpload, Unique, IInv, TypeOK
  <2>3. \A c \in Content : Referenced(c) => \E d \in Document : row'[d] = c
    BY <1>3, <2>1, DistinctAssumption DEF CommitUpload, Referenced, IInv, TypeOK
  <2>4. \A b \in files' : proc[p].sha = b \/ b \in proc[p].todo \/ Referenced(b) =>
          Idle.sha = b \/ b \in Idle.todo \/ \E d \in Document : row'[d] = b
    BY <1>0, <2>1, <2>2, <2>3
  <2> QED BY <1>0, <2>1, <2>4, KeepsHold
<1>4. ASSUME NEW p \in Request, NEW d \in Document, DeleteDocument(p, d)
      PROVE  NoOrphan'
  <2>1. proc[p].sha = Null /\ proc[p].todo = {} /\ row' = row /\ files' = files
    BY <1>4 DEF DeleteDocument, Idle
  <2>2. PICK new : new.sha = row[d] /\ proc' = [proc EXCEPT ![p] = new]
    BY <1>4, GotoHolds DEF DeleteDocument
  <2>3. \A b \in files' : proc[p].sha = b \/ b \in proc[p].todo \/ Referenced(b) =>
          new.sha = b \/ b \in new.todo \/ \E e \in Document : row'[e] = b
    BY <1>0, <2>1, <2>2
  <2> QED BY <1>0, <2>1, <2>2, <2>3, KeepsHold
<1>5. ASSUME NEW p \in Request, CommitDelete(p), ~DeletedUnread
      PROVE  NoOrphan'
  <2>1. /\ proc[p].doc \in Document /\ proc[p].sha \in Content /\ proc[p].todo = {}
        /\ row[proc[p].doc] = proc[p].sha
        /\ row' = [row EXCEPT ![proc[p].doc] = Deleted] /\ files' = files
    BY <1>0, <1>5 DEF CommitDelete, DeletedUnread, IInv, HandConsistent
  <2>2. PICK new : new.todo = {proc[p].sha} /\ proc' = [proc EXCEPT ![p] = new]
    BY <1>5, <2>1, CleanUpKeeps DEF CommitDelete
  <2>3. \A c \in Content : Referenced(c) => c = proc[p].sha \/ \E d \in Document : row'[d] = c
    BY <2>1 DEF Referenced, IInv, TypeOK
  <2>4. \A b \in files' : proc[p].sha = b \/ b \in proc[p].todo \/ Referenced(b) =>
          new.sha = b \/ b \in new.todo \/ \E d \in Document : row'[d] = b
    BY <1>0, <2>1, <2>2, <2>3
  <2> QED BY <1>0, <2>1, <2>2, <2>4, KeepsHold
<1>6. ASSUME NEW p \in Process, NEW c \in Content, CheckReferences(p, c)
      PROVE  NoOrphan'
  <2>1. /\ proc[p].sha = Null /\ proc[p].todo \subseteq Content
        /\ row' = row /\ files' = files /\ files \subseteq Content
    BY <1>6 DEF CheckReferences, IInv, TypeOK, HandConsistent
  <2>2. PICK new : /\ proc' = [proc EXCEPT ![p] = new]
                   /\ new.todo = proc[p].todo \ {c}
                   /\ Referenced(c) \/ new.sha = c
    <3>1. CASE Referenced(c)
      BY <1>6, <2>1, <3>1, CleanUpKeeps DEF CheckReferences
    <3>2. CASE ~Referenced(c)
      <4> DEFINE new == [at |-> "unlinking", doc |-> Null, sha |-> c, todo |-> proc[p].todo \ {c}]
      <4>1. proc' = [proc EXCEPT ![p] = new]
        BY <1>6, <3>2 DEF CheckReferences
      <4>2. new.todo = proc[p].todo \ {c} /\ new.sha = c
        OBVIOUS
      <4> HIDE DEF new
      <4> QED BY <4>1, <4>2
    <3> QED BY <3>1, <3>2
  <2>3. \A b \in files' : proc[p].sha = b \/ b \in proc[p].todo \/ Referenced(b) =>
          new.sha = b \/ b \in new.todo \/ \E d \in Document : row'[d] = b
    BY <1>0, <2>1, <2>2
  <2> QED BY <2>1, <2>2, <2>3, KeepsHold
<1>7. ASSUME NEW p \in Process, Unlink(p)
      PROVE  NoOrphan'
  <2>1. /\ proc[p].todo \subseteq Content /\ row' = row /\ files' = files \ {proc[p].sha}
    BY <1>7 DEF Unlink, IInv, TypeOK
  <2>2. PICK new : new.todo = proc[p].todo /\ proc' = [proc EXCEPT ![p] = new]
    BY <1>7, <2>1, CleanUpKeeps DEF Unlink
  <2>3. \A b \in files' : b \in files /\ b # proc[p].sha
    BY <2>1
  <2>4. \A b \in files' : proc[p].sha = b \/ b \in proc[p].todo \/ Referenced(b) =>
          new.sha = b \/ b \in new.todo \/ \E d \in Document : row'[d] = b
    BY <1>0, <2>1, <2>2, <2>3
  <2> QED BY <2>2, <2>3, <2>4, KeepsHold
<1>8. ASSUME NEW s \in Sync, NEW d \in Document, NEW c \in Content, UpsertStore(s, d, c)
      PROVE  NoOrphan'
  <2>1. proc[s].sha = Null /\ proc[s].todo = {} /\ row' = row /\ files' = files \cup {c}
    BY <1>8 DEF UpsertStore, Idle
  <2>2. PICK new : new.sha = c /\ proc' = [proc EXCEPT ![s] = new]
    BY <1>8, GotoHolds DEF UpsertStore
  <2>3. \A b \in files' : proc[s].sha = b \/ b \in proc[s].todo \/ Referenced(b) =>
          new.sha = b \/ b \in new.todo \/ \E e \in Document : row'[e] = b
    BY <1>0, <2>1, <2>2
  <2> QED BY <1>0, <2>1, <2>2, <2>3, KeepsHold
<1>9. ASSUME NEW s \in Sync, NEW D \in SUBSET Document, RemoveVanished(s, D)
      PROVE  NoOrphan'
  <2>1. /\ {row[d] : d \in D} \in SUBSET Content /\ files' = files
        /\ proc[s].sha = Null /\ proc[s].todo = {}
        /\ row' = [d \in Document |-> IF d \in D THEN Deleted ELSE row[d]]
    BY <1>9 DEF RemoveVanished, Stored, Idle
  <2>2. PICK new : new.todo = {row[d] : d \in D} /\ proc' = [proc EXCEPT ![s] = new]
    BY <1>9, <2>1, CleanUpKeeps DEF RemoveVanished
  <2>3. \A c \in Content : Referenced(c) => c \in new.todo \/ \E d \in Document : row'[d] = c
    BY <2>1, <2>2 DEF Referenced
  <2>4. \A b \in files' : proc[s].sha = b \/ b \in proc[s].todo \/ Referenced(b) =>
          new.sha = b \/ b \in new.todo \/ \E d \in Document : row'[d] = b
    BY <1>0, <2>1, <2>2, <2>3
  <2> QED BY <1>0, <2>1, <2>2, <2>4, KeepsHold
<1>10. ASSUME NEW s \in Sync, UpsertCommit(s), ~SyncTooLate
       PROVE  NoOrphan'
  <2> DEFINE d == proc[s].doc
             c == proc[s].sha
  <2>1. /\ d \in Document /\ c \in Content /\ proc[s].todo = {} /\ row[d] # Deleted
        /\ files' = files /\ files \subseteq Content
    BY <1>0, <1>10 DEF UpsertCommit, SyncTooLate, IInv, TypeOK, HandConsistent
  <2>2. CASE Unique(d, c) /\ row' = [row EXCEPT ![d] = c] /\ CleanUp(s, {row[d]} \cap Content)
    <3>1. PICK new : new.todo = {row[d]} \cap Content /\ proc' = [proc EXCEPT ![s] = new]
      BY <2>2, CleanUpKeeps
    <3>2. row'[d] = c /\ \A e \in Document \ {d} : row'[e] = row[e]
      BY <2>1, <2>2 DEF IInv, TypeOK
    <3> HIDE DEF d, c
    <3>3. \A b \in Content : Referenced(b) => b \in new.todo \/ \E e \in Document : row'[e] = b
      BY <2>1, <3>1, <3>2 DEF Referenced
    <3>4. \A b \in files' : proc[s].sha = b => \E e \in Document : row'[e] = b
      BY <2>1, <3>2 DEF c
    <3> QED BY <1>0, <2>1, <3>1, <3>3, <3>4, KeepsHold
  <2>3. CASE ~Unique(d, c) /\ row' = row /\ CleanUp(s, {c})
    <3>1. PICK new : new.todo = {c} /\ proc' = [proc EXCEPT ![s] = new]
      BY <2>1, <2>3, CleanUpKeeps
    <3>2. s \in Process /\ proc[s].todo = {} /\ files' = files
      BY <1>0, <2>1
    <3>3. \A b \in files' : proc[s].sha = b => b \in new.todo
      BY <3>1
    <3>4. \A b \in files' : Referenced(b) => \E e \in Document : row'[e] = b
      BY <1>0, <2>3
    <3> HIDE DEF d, c
    <3> QED BY <3>1, <3>2, <3>3, <3>4, KeepsHold
  <2> QED BY <1>10, <2>1, <2>2, <2>3 DEF UpsertCommit
<1> QED BY <1>1, <1>2, <1>3, <1>4, <1>5, <1>6, <1>7, <1>8, <1>9, <1>10 DEF Next

-----------------------------------------------------------------------------
(* How a finite set that loses or gains an element counts. *)
LEMMA NoMore ==
  ASSUME NEW S, IsFiniteSet(S), NEW T, T \subseteq S
  PROVE  IsFiniteSet(T) /\ Cardinality(T) \in Nat /\ Cardinality(T) <= Cardinality(S)
<1>1. IsFiniteSet(T) /\ Cardinality(T) <= Cardinality(S)
  BY FS_Subset
<1> QED BY <1>1, FS_CardinalityType

LEMMA OneMore ==
  ASSUME NEW S, IsFiniteSet(S), NEW x, NEW T, T \subseteq S \cup {x}
  PROVE  Cardinality(T) \in Nat /\ Cardinality(T) <= Cardinality(S) + 1
<1>1. /\ IsFiniteSet(S \cup {x}) /\ Cardinality(S) \in Nat
      /\ Cardinality(S \cup {x}) \in {Cardinality(S), Cardinality(S) + 1}
  BY FS_AddElement, FS_CardinalityType
<1>2. Cardinality(T) \in Nat /\ Cardinality(T) <= Cardinality(S \cup {x})
  BY <1>1, NoMore
<1> QED BY <1>1, <1>2

LEMMA OneLess ==
  ASSUME NEW S, IsFiniteSet(S), NEW x \in S, NEW T, T \subseteq S \ {x}
  PROVE  Cardinality(T) \in Nat /\ Cardinality(T) <= Cardinality(S) - 1
<1>1. /\ IsFiniteSet(S \ {x}) /\ Cardinality(S) \in Nat
      /\ Cardinality(S \ {x}) = Cardinality(S) - 1
  BY FS_RemoveElement, FS_CardinalityType
<1>2. Cardinality(T) \in Nat /\ Cardinality(T) <= Cardinality(S \ {x})
  BY <1>1, NoMore
<1> QED BY <1>1, <1>2

(* The sets that are counted are finite; one upload runs at a time, under the lock. *)
LEMMA Counting ==
  ASSUME IInv
  PROVE  /\ IsFiniteSet({d \in Document : Stored(d)}) /\ Used \in Nat
         /\ IsFiniteSet(Uploading) /\ Cardinality(Uploading) \in {0, 1}
         /\ lock = Null => Uploading = {}
         /\ IsFiniteSet(Bringing) /\ Cardinality(Bringing) \in Nat
         /\ Cardinality(Sync) \in Nat /\ Cardinality(Bringing) <= Cardinality(Sync)
<1>1. Uploading \subseteq {lock} /\ (lock = Null => Uploading = {})
  BY DistinctAssumption DEF Uploading, IInv, LockConsistent, Locking, Process
<1>2. IsFiniteSet(Uploading) /\ Cardinality(Uploading) \in {0, 1}
  <2>1. Uploading = {} \/ Uploading = {lock}
    BY <1>1
  <2> QED BY <2>1, FS_EmptySet, FS_Singleton
<1>3. {d \in Document : Stored(d)} \subseteq Document /\ Bringing \subseteq Sync
  BY DEF Bringing
<1>4. /\ IsFiniteSet({d \in Document : Stored(d)}) /\ IsFiniteSet(Bringing)
      /\ Cardinality(Bringing) <= Cardinality(Sync)
  BY <1>3, FiniteAssumption, FS_Subset
<1> QED BY <1>1, <1>2, <1>4, FiniteAssumption, FS_CardinalityType DEF Used

(* A step that adds neither a document nor one to come keeps within the quota. *)
LEMMA QuotaShrinks ==
  ASSUME IInv, QuotaInv,
         \A d \in Document : Stored(d)' => Stored(d),
         Uploading' \subseteq Uploading, Bringing' \subseteq Bringing
  PROVE  QuotaInv'
<1> DEFINE Docs == {d \in Document : Stored(d)}
<1>1. /\ Used \in Nat /\ Cardinality(Uploading) \in Nat /\ Cardinality(Bringing) \in Nat
      /\ Cardinality(Sync) \in Nat
      /\ IsFiniteSet(Docs) /\ IsFiniteSet(Uploading) /\ IsFiniteSet(Bringing)
  BY Counting
<1>2. Docs' \subseteq Docs /\ Used = Cardinality(Docs) /\ Used' = Cardinality(Docs')
  BY DEF Used
<1> HIDE DEF Docs
<1>3. /\ Used' \in Nat /\ Used' <= Used
      /\ Cardinality(Uploading') \in Nat /\ Cardinality(Uploading') <= Cardinality(Uploading)
      /\ Cardinality(Bringing') \in Nat /\ Cardinality(Bringing') <= Cardinality(Bringing)
  BY <1>1, <1>2, NoMore
<1> QED BY <1>1, <1>3, LimitAssumption DEF QuotaInv

(* A process that neither uploads nor brings a document after its step adds to neither *)
(* set, and the others stay in the sets they are in.                                  *)
LEMMA OthersStay ==
  ASSUME IInv, NEW p \in Process, NEW new, proc' = [proc EXCEPT ![p] = new],
         new.at \notin {"uploading", "syncing"},
         \A d \in Document : row'[d] = Null => row[d] = Null
  PROVE  Uploading' \subseteq Uploading \ {p} /\ Bringing' \subseteq Bringing \ {p}
<1>1. proc'[p] = new /\ \A q \in Process \ {p} : proc'[q] = proc[q]
  BY DEF IInv, TypeOK
<1>2. Uploading' \subseteq Uploading \ {p}
  BY <1>1 DEF Uploading, Process
<1>3. \A s \in Sync : proc[s].at = "syncing" => proc[s].doc \in Document
  BY DEF IInv, HandConsistent, Process
<1>4. Bringing' \subseteq Bringing \ {p}
  BY <1>1, <1>3 DEF Bringing, Process
<1> QED BY <1>2, <1>4

(* One case per action. *)
LEMMA StepQuota ==
  ASSUME IInv, [Next]_vars, QuotaInv
  PROVE  QuotaInv'
<1>0. /\ Request \subseteq Process /\ Sync \subseteq Process
      /\ Deleted \notin Content /\ Null \notin Content /\ Null # Deleted
      /\ \A p \in Process : proc[p].sha \in Content => proc[p].sha # Null
  BY DistinctAssumption DEF Process
<1>1. CASE UNCHANGED vars
  BY <1>1 DEF vars, QuotaInv, Used, Stored, Uploading, Bringing
<1>2. ASSUME NEW p \in Request, NEW d \in Document, NEW c \in Content, SaveUpload(p, d, c)
      PROVE  QuotaInv'
  <2>1. /\ Used + 1 <= Limit /\ row' = row
        /\ proc' = [proc EXCEPT ![p] = [at |-> "uploading", doc |-> d, sha |-> c, todo |-> {}]]
    BY <1>2 DEF SaveUpload, Goto
  <2>2. Uploading = {} /\ \A q \in Process \ {p} : proc'[q] = proc[q]
    BY <1>2, <2>1, Counting DEF SaveUpload, IInv, TypeOK
  <2>3. Uploading' \subseteq {p}
    BY <1>0, <2>2 DEF Uploading
  <2>4. Cardinality(Uploading') \in Nat /\ Cardinality(Uploading') <= 1
    <3>1. IsFiniteSet({p}) /\ Cardinality({p}) = 1
      BY FS_Singleton
    <3> QED BY <2>3, <3>1, NoMore
  <2>5. Bringing' = Bringing
    BY <1>0, <1>2, <2>1, <2>2, DistinctAssumption DEF Bringing, SaveUpload, Idle
  <2>6. Used' = Used
    BY <2>1 DEF Used, Stored
  <2> QED BY <2>1, <2>4, <2>5, <2>6, Counting, LimitAssumption DEF QuotaInv
<1>3. ASSUME NEW p \in Request, CommitUpload(p)
      PROVE  QuotaInv'
  <2> DEFINE d == proc[p].doc
             c == proc[p].sha
             Docs == {e \in Document : Stored(e)}
  <2>1. /\ p \in Uploading /\ d \in Document /\ Source[d] = Null /\ row[d] = Null /\ c \in Content
        /\ row' = row \/ row' = [row EXCEPT ![d] = c]
        /\ proc' = [proc EXCEPT ![p] = Idle]
    BY <1>0, <1>3 DEF CommitUpload, Done, Uploading, IInv, HandConsistent
  <2>2. Docs' \subseteq Docs \cup {d}
    BY <2>1 DEF Stored, IInv, TypeOK
  <2>3. Used' \in Nat /\ Used' <= Used + 1
    <3>1. IsFiniteSet(Docs) /\ Used = Cardinality(Docs) /\ Used' = Cardinality(Docs')
      BY Counting DEF Used
    <3> HIDE DEF Docs
    <3> QED BY <2>2, <3>1, OneMore
  <2>4. \A e \in Document : row'[e] = Null => row[e] = Null
    BY <1>0, <2>1 DEF IInv, TypeOK
  <2>5. Uploading' \subseteq Uploading \ {p} /\ Bringing' \subseteq Bringing \ {p}
    BY <1>0, <2>1, <2>4, OthersStay DEF Idle
  <2>6. Cardinality(Uploading') \in Nat /\ Cardinality(Uploading') <= Cardinality(Uploading) - 1
    BY <2>1, <2>5, Counting, OneLess
  <2>7. Cardinality(Bringing') \in Nat /\ Cardinality(Bringing') <= Cardinality(Bringing)
    BY <2>5, Counting, NoMore
  <2> QED BY <2>3, <2>6, <2>7, Counting, LimitAssumption DEF QuotaInv
<1>4. ASSUME NEW p \in Process, NEW new, proc' = [proc EXCEPT ![p] = new],
             new.at \notin {"uploading", "syncing"},
             \A d \in Document : row'[d] \in {row[d], Deleted}
      PROVE  QuotaInv'
  <2>1. \A d \in Document : (Stored(d)' => Stored(d)) /\ (row'[d] = Null => row[d] = Null)
    BY <1>0, <1>4 DEF Stored
  <2>2. Uploading' \subseteq Uploading \ {p} /\ Bringing' \subseteq Bringing \ {p}
    BY <1>4, <2>1, OthersStay
  <2>3. Uploading' \subseteq Uploading /\ Bringing' \subseteq Bringing
    BY <2>2
  <2> QED BY <2>1, <2>3, QuotaShrinks
<1>5. ASSUME NEW p \in Process, NEW T \in SUBSET Content, CleanUp(p, T),
             \A d \in Document : row'[d] \in {row[d], Deleted}
      PROVE  QuotaInv'
  <2>1. PICK new \in [at : {"idle", "cleaning"}, doc : {Null}, sha : {Null}, todo : SUBSET Content] :
          proc' = [proc EXCEPT ![p] = new]
    BY <1>5, CleanUpOK
  <2>2. new.at \notin {"uploading", "syncing"}
    BY <2>1
  <2> QED BY <1>4, <1>5, <2>1, <2>2
<1>6. ASSUME NEW p \in Request, NEW d \in Document, DeleteDocument(p, d)
      PROVE  QuotaInv'
  <2> DEFINE new == [at |-> "removing", doc |-> d, sha |-> row[d], todo |-> {}]
  <2>1. proc' = [proc EXCEPT ![p] = new] /\ row' = row
    BY <1>6 DEF DeleteDocument, Goto
  <2>2. new.at \notin {"uploading", "syncing"}
    OBVIOUS
  <2> HIDE DEF new
  <2> QED BY <1>0, <1>4, <2>1, <2>2
<1>7. ASSUME NEW p \in Request, CommitDelete(p)
      PROVE  QuotaInv'
  <2>1. /\ {proc[p].sha} \in SUBSET Content /\ CleanUp(p, {proc[p].sha})
        /\ row' = [row EXCEPT ![proc[p].doc] = Deleted]
    BY <1>0, <1>7 DEF CommitDelete, IInv, HandConsistent
  <2>2. \A d \in Document : row'[d] \in {row[d], Deleted}
    BY <2>1 DEF IInv, TypeOK
  <2> QED BY <1>0, <1>5, <2>1, <2>2
<1>8. ASSUME NEW p \in Process, NEW c \in Content, CheckReferences(p, c)
      PROVE  QuotaInv'
  <2>1. proc[p].todo \ {c} \in SUBSET Content /\ row' = row
    BY <1>8 DEF CheckReferences, IInv, TypeOK
  <2>2. CASE Referenced(c)
    BY <1>5, <1>8, <2>1, <2>2 DEF CheckReferences
  <2>3. CASE ~Referenced(c)
    <3> DEFINE new == [at |-> "unlinking", doc |-> Null, sha |-> c, todo |-> proc[p].todo \ {c}]
    <3>1. proc' = [proc EXCEPT ![p] = new]
      BY <1>8, <2>3 DEF CheckReferences
    <3>2. new.at \notin {"uploading", "syncing"}
      OBVIOUS
    <3> HIDE DEF new
    <3> QED BY <1>4, <2>1, <3>1, <3>2
  <2> QED BY <2>2, <2>3
<1>9. ASSUME NEW p \in Process, Unlink(p)
      PROVE  QuotaInv'
  <2>1. proc[p].todo \in SUBSET Content /\ CleanUp(p, proc[p].todo) /\ row' = row
    BY <1>9 DEF Unlink, IInv, TypeOK
  <2> QED BY <1>5, <2>1
<1>10. ASSUME NEW p \in Process, proc' = [proc EXCEPT ![p] = Idle], row' = row
       PROVE  QuotaInv'
  BY <1>4, <1>10 DEF Idle
<1>11. ASSUME NEW s \in Sync, NEW d \in Document, NEW c \in Content, UpsertStore(s, d, c)
       PROVE  QuotaInv'
  <2>1. /\ row' = row /\ proc' = [proc EXCEPT ![s] = [at |-> "syncing", doc |-> d, sha |-> c, todo |-> {}]]
        /\ proc[s].at = "idle"
    BY <1>11 DEF UpsertStore, Goto, Idle
  <2>2. /\ proc'[s] = [at |-> "syncing", doc |-> d, sha |-> c, todo |-> {}]
        /\ \A q \in Process \ {s} : proc'[q] = proc[q]
    BY <1>0, <2>1 DEF IInv, TypeOK
  <2>3. Uploading' = Uploading /\ Used' = Used
    BY <1>0, <2>1, <2>2, DistinctAssumption DEF Uploading, Used, Stored
  <2>4. CASE Stored(d)
    <3>1. Bringing' \subseteq Bringing
      BY <1>0, <2>1, <2>2, <2>4 DEF Bringing, Stored
    <3>2. Uploading' \subseteq Uploading /\ \A e \in Document : Stored(e)' => Stored(e)
      BY <2>1, <2>3 DEF Stored
    <3> QED BY <3>1, <3>2, QuotaShrinks
  <2>5. CASE ~Stored(d)
    <3>1. Used + 1 <= Limit
      BY <1>11, <2>5, Counting, LimitAssumption DEF UpsertStore
    <3>2. Bringing' \subseteq Sync
      BY DEF Bringing
    <3>3. Cardinality(Bringing') \in Nat /\ Cardinality(Bringing') <= Cardinality(Sync)
      BY <3>2, NoMore, FiniteAssumption
    <3> QED BY <2>3, <3>1, <3>3, Counting, LimitAssumption DEF QuotaInv
  <2> QED BY <2>4, <2>5
<1>12. ASSUME NEW s \in Sync, UpsertCommit(s)
       PROVE  QuotaInv'
  <2> DEFINE d == proc[s].doc
             c == proc[s].sha
             Docs == {e \in Document : Stored(e)}
  <2>1. /\ d \in Document /\ c \in Content /\ proc[s].at = "syncing"
    BY <1>0, <1>12 DEF UpsertCommit, IInv, HandConsistent
  <2>2. CASE Done(s) /\ row' = row
    BY <1>0, <1>10, <2>2 DEF Done
  <2>3. CASE row' = row /\ CleanUp(s, {c})
    BY <1>0, <1>5, <2>1, <2>3
  <2>4. CASE /\ row[d] # Deleted /\ row' = [row EXCEPT ![d] = c]
             /\ CleanUp(s, {row[d]} \cap Content)
    <3>1. PICK new \in [at : {"idle", "cleaning"}, doc : {Null}, sha : {Null}, todo : SUBSET Content] :
            proc' = [proc EXCEPT ![s] = new]
      BY <2>4, CleanUpOK
    <3>2. \A e \in Document : row'[e] = Null => row[e] = Null
      BY <1>0, <2>1, <2>4 DEF IInv, TypeOK
    <3>3. Uploading' \subseteq Uploading \ {s} /\ Bringing' \subseteq Bringing \ {s}
      BY <1>0, <3>1, <3>2, OthersStay
    <3>4. /\ Cardinality(Uploading') \in Nat /\ Cardinality(Uploading') <= Cardinality(Uploading)
          /\ Cardinality(Bringing') \in Nat /\ Cardinality(Bringing') <= Cardinality(Bringing)
      BY <3>3, Counting, NoMore
    <3>5. IsFiniteSet(Docs) /\ Used = Cardinality(Docs) /\ Used' = Cardinality(Docs')
      BY Counting DEF Used
    <3>6. CASE row[d] = Null
      <4>1. s \in Bringing
        BY <2>1, <3>6 DEF Bringing
      <4>2. Cardinality(Bringing') <= Cardinality(Bringing) - 1
        BY <3>3, <4>1, Counting, OneLess
      <4>3. Docs' \subseteq Docs \cup {d}
        BY <2>1, <2>4 DEF Stored, IInv, TypeOK
      <4> HIDE DEF Docs
      <4>4. Used' \in Nat /\ Used' <= Used + 1
        BY <3>5, <4>3, OneMore
      <4> QED BY <3>4, <4>2, <4>4, Counting, LimitAssumption DEF QuotaInv
    <3>7. CASE row[d] # Null
      <4>1. Stored(d) /\ \A e \in Document : Stored(e)' => Stored(e)
        BY <2>1, <2>4, <3>7 DEF Stored, IInv, TypeOK
      <4>2. Uploading' \subseteq Uploading /\ Bringing' \subseteq Bringing
        BY <3>3
      <4> QED BY <4>1, <4>2, QuotaShrinks
    <3> QED BY <3>6, <3>7
  <2> QED BY <1>12, <2>2, <2>3, <2>4 DEF UpsertCommit
<1>13. ASSUME NEW s \in Sync, NEW D \in SUBSET Document, RemoveVanished(s, D)
       PROVE  QuotaInv'
  <2>1. /\ {row[d] : d \in D} \in SUBSET Content /\ CleanUp(s, {row[d] : d \in D})
        /\ \A d \in Document : row'[d] \in {row[d], Deleted}
    BY <1>13 DEF RemoveVanished, Stored
  <2> QED BY <1>0, <1>5, <2>1
<1>14. ASSUME NEW p \in Process, Crash(p)
       PROVE  QuotaInv'
  BY <1>10, <1>14 DEF Crash, Done
<1> QED BY <1>1, <1>2, <1>3, <1>6, <1>7, <1>8, <1>9, <1>11, <1>12, <1>13, <1>14 DEF Next

(* The tenant is never over its quota by more than a file for each source, and a file *)
(* that no document has was left by a crash, or by a deletion and a source that       *)
(* crossed (api/v1/documents.py, sources/sync.py).                                    *)
THEOREM FilesAreHeld == Spec => FilesHold
<1>1. Init => QuotaInv
  <2> SUFFICES ASSUME Init PROVE QuotaInv
    OBVIOUS
  <2>1. /\ {d \in Document : Stored(d)} = {} /\ Uploading = {} /\ Bringing = {}
    BY DistinctAssumption DEF Init, Stored, Uploading, Bringing, Idle, Process
  <2>2. Used = 0 /\ Cardinality(Uploading) = 0 /\ Cardinality(Bringing) = 0
    BY <2>1, FS_EmptySet DEF Used
  <2>3. Cardinality(Sync) \in Nat
    BY FiniteAssumption, FS_CardinalityType
  <2> QED BY <2>2, <2>3, LimitAssumption DEF QuotaInv
<1>2. IInv /\ QuotaInv => QuotaKept
  <2> SUFFICES ASSUME IInv, QuotaInv PROVE QuotaKept
    OBVIOUS
  <2>1. Cardinality(Uploading) \in Nat
    BY Counting
  <2> QED BY <2>1, Counting, LimitAssumption DEF QuotaInv, QuotaKept
<1>3. IInv /\ [Next]_vars =>
        [NoOrphan => NoOrphan' \/ SyncTooLate \/ DeletedUnread \/ \E p \in Process : Crash(p)]_vars
  BY StepOrphans
<1>4. IInv /\ [Next]_vars /\ QuotaInv => QuotaInv'
  BY StepQuota
<1> QED BY <1>1, <1>2, <1>3, <1>4, Invariance, PTL DEF Spec, FilesHold, OrphansComeFromCrashes

-----------------------------------------------------------------------------
(* The stored original: its versions in the bucket and its copy on the disk. *)

(* The original's versions are a sequence to which one is added at a time. *)
LEMMA VersionAdded ==
  ASSUME O!IInv, NEW v \in O!Object \cup O!Marker, remote' = Append(remote, v), Len(remote) < MaxVersions
  PROVE  /\ remote' \in Seq(O!Object \cup O!Marker) /\ Len(remote') <= MaxVersions
         /\ remote' # <<>> /\ O!Last(remote') = v
         /\ v \notin O!Marker /\ O!Recoverable => O!Recoverable'
         /\ v = "object" => O!Recoverable'
<1>1. remote \in Seq(O!Object \cup O!Marker) /\ Len(remote) \in Nat /\ MaxVersions \in Nat
  <2>1. remote \in Seq(O!Object \cup O!Marker)
    BY DEF O!IInv, O!TypeOK
  <2> QED BY <2>1, LenProperties, Bounds DEF Bounds
<1>2. /\ remote' \in Seq(O!Object \cup O!Marker) /\ Len(remote') = Len(remote) + 1
      /\ remote'[Len(remote) + 1] = v /\ \A i \in 1 .. Len(remote) : remote'[i] = remote[i]
  BY <1>1
<1>3. DOMAIN remote = 1 .. Len(remote) /\ DOMAIN remote' = 1 .. Len(remote')
  BY <1>1, <1>2, LenProperties
<1>4. remote' # <<>> /\ O!Last(remote') = v /\ Len(remote') <= MaxVersions
  BY <1>1, <1>2 DEF O!Last
<1>5. ASSUME v \notin O!Marker, O!Recoverable PROVE O!Recoverable'
  <2>1. PICK i \in 1 .. Len(remote) : remote[i] = "object" /\ \A j \in i .. Len(remote) : remote[j] \notin O!Marker
    BY <1>3, <1>5 DEF O!Recoverable
  <2>2. i \in DOMAIN remote' /\ remote'[i] = "object"
    BY <1>1, <1>2, <1>3, <2>1
  <2>3. ASSUME NEW j \in i .. Len(remote') PROVE remote'[j] \notin O!Marker
    <3>1. j \in i .. Len(remote) \/ j = Len(remote) + 1
      BY <1>1, <1>2, <2>1
    <3> QED BY <1>2, <1>5, <2>1, <3>1
  <2> QED BY <2>2, <2>3 DEF O!Recoverable, O!Marker
<1>6. ASSUME v = "object" PROVE O!Recoverable'
  <2>1. v \notin O!Marker
    BY <1>6 DEF O!Marker
  <2>2. Len(remote') \in DOMAIN remote' /\ remote'[Len(remote')] = "object"
    BY <1>1, <1>2, <1>3, <1>6
  <2>3. \A j \in Len(remote') .. Len(remote') : remote'[j] \notin O!Marker
    BY <1>1, <1>2, <2>1
  <2> QED BY <2>2, <2>3 DEF O!Recoverable, O!Marker
<1> QED BY <1>2, <1>4, <1>5, <1>6

(* Every step of the store, of its readers and of its surroundings keeps the original. *)
LEMMA OriginalStep == ASSUME O!IInv, [O!Next]_(O!vars) PROVE O!IInv'
<1> USE DEF O!Object, O!Marker, O!Intact, O!Replaced, O!Place
<1>1. ASSUME O!BeginStore \/ O!CheckVersioning \/ O!BeginDelete \/ O!SwitchVersioning \/ O!Migrate PROVE O!IInv'
  <2>1. UNCHANGED <<remote, provider, disk, reader, ghost>> /\ confirmed' \in {confirmed, "no"}
    BY <1>1 DEF O!BeginStore, O!CheckVersioning, O!BeginDelete, O!SwitchVersioning, O!Migrate
  <2>2. O!Stored' = O!Stored /\ O!Recoverable' = O!Recoverable
    BY <2>1 DEF O!Stored, O!Recoverable
  <2>3. O!TypeOK'
    <3>1. O!TypeOK
      BY DEF O!IInv
    <3>2. writer' \in {"idle", "versioned?", "put", "copy", "sync", "deletable?", "mark", "unlink", "failed"}
      BY <1>1, <3>1 DEF O!BeginStore, O!CheckVersioning, O!BeginDelete, O!SwitchVersioning, O!Migrate, O!TypeOK
    <3>3. upload' \in BOOLEAN /\ confirmed' \in {"no", "disk", "bucket"} /\ versioning' \in BOOLEAN
      BY <1>1, <3>1 DEF O!BeginStore, O!CheckVersioning, O!BeginDelete, O!SwitchVersioning, O!Migrate, O!TypeOK
    <3> QED BY <2>1, <3>1, <3>2, <3>3 DEF O!TypeOK
  <2>4. O!ConfirmedIsDurable' /\ O!ServedIsVerified'
    BY <2>1, <2>2 DEF O!IInv, O!ConfirmedIsDurable, O!ServedIsVerified
  <2>5. O!GhostsExplained' /\ O!WriterConsistent'
    BY <1>1, <2>1, <2>2 DEF O!BeginStore, O!CheckVersioning, O!BeginDelete, O!SwitchVersioning, O!Migrate, O!IInv,
       O!TypeOK, O!GhostsExplained, O!WriterConsistent
  <2> QED BY <2>3, <2>4, <2>5 DEF O!IInv
<1>2. CASE O!PutObject
  <2> DEFINE v == IF versioning THEN "object" ELSE "null object"
  <2>1. v \in O!Object \cup O!Marker /\ v \notin O!Marker /\ remote' = Append(remote, v) /\ Len(remote) < MaxVersions
    BY <1>2 DEF O!PutObject
  <2>2. /\ remote' \in Seq(O!Object \cup O!Marker) /\ Len(remote') <= MaxVersions
        /\ remote' # <<>> /\ O!Last(remote') = v
        /\ O!Recoverable => O!Recoverable'
    BY <2>1, VersionAdded
  <2>3. O!TypeOK'
    BY <1>2, <2>2 DEF O!PutObject, O!IInv, O!TypeOK
  <2>4. O!ConfirmedIsDurable' /\ O!ServedIsVerified'
    BY <1>2, <2>2 DEF O!PutObject, O!IInv, O!ConfirmedIsDurable, O!ServedIsVerified
  <2>5. O!GhostsExplained' /\ O!WriterConsistent'
    BY <1>2, <2>2 DEF O!PutObject, O!IInv, O!GhostsExplained, O!WriterConsistent, O!Stored
  <2> QED BY <2>3, <2>4, <2>5 DEF O!IInv
<1>3. CASE O!MarkDeleted
  <2> DEFINE v == IF versioning THEN "marker" ELSE "null marker"
  <2>1. v \in O!Object \cup O!Marker /\ remote' = Append(remote, v) /\ Len(remote) < MaxVersions
    BY <1>3 DEF O!MarkDeleted
  <2>2. /\ remote' \in Seq(O!Object \cup O!Marker) /\ Len(remote') <= MaxVersions
        /\ remote' # <<>> /\ O!Last(remote') = v
    BY <2>1, VersionAdded
  <2>3. O!TypeOK'
    BY <1>3, <2>2 DEF O!MarkDeleted, O!IInv, O!TypeOK
  <2>4. O!ConfirmedIsDurable' /\ O!ServedIsVerified'
    BY <1>3 DEF O!MarkDeleted, O!IInv, O!ConfirmedIsDurable, O!ServedIsVerified, O!WriterConsistent
  <2>5. O!GhostsExplained' /\ O!WriterConsistent'
    BY <1>3, <2>2 DEF O!MarkDeleted, O!IInv, O!GhostsExplained, O!WriterConsistent, O!Stored
  <2> QED BY <2>3, <2>4, <2>5 DEF O!IInv
<1>4. ASSUME O!Replace \/ O!SyncAndUnlink \/ O!UnlinkCache \/ O!Fail PROVE O!IInv'
  <2>1. UNCHANGED <<remote, provider, reader>>
    BY <1>4 DEF O!Replace, O!SyncAndUnlink, O!UnlinkCache, O!Fail
  <2>2. O!Stored' = O!Stored /\ O!Recoverable' = O!Recoverable
    BY <2>1 DEF O!Stored, O!Recoverable
  <2>3. provider = "s3" /\ writer = "sync" => O!Recoverable
    <3>1. ASSUME remote # <<>>, O!Last(remote) = "object" PROVE O!Recoverable
      <4>1. remote \in Seq(O!Object \cup O!Marker)
        BY DEF O!IInv, O!TypeOK
      <4> DEFINE n == Len(remote)
      <4>2. n \in Nat /\ DOMAIN remote = 1 .. n /\ n # 0 /\ remote[n] = "object"
        BY <3>1, <4>1, LenProperties, EmptySeq DEF O!Last
      <4> HIDE DEF n
      <4>3. n \in DOMAIN remote /\ \A j \in n .. n : j = n
        BY <4>2
      <4> QED BY <4>2, <4>3 DEF O!Recoverable, n
    <3> QED BY <3>1 DEF O!IInv, O!WriterConsistent
  <2>4. O!TypeOK'
    BY <1>4 DEF O!Replace, O!SyncAndUnlink, O!UnlinkCache, O!Fail, O!IInv, O!TypeOK
  <2>5. O!ConfirmedIsDurable' /\ O!ServedIsVerified'
    <3>1. O!ServedIsVerified'
      BY <2>1 DEF O!IInv, O!ServedIsVerified
    <3>2. CASE O!SyncAndUnlink
      BY <2>1, <2>2, <2>3, <3>1, <3>2 DEF O!SyncAndUnlink, O!IInv, O!TypeOK, O!ConfirmedIsDurable, O!WriterConsistent
    <3>3. CASE O!UnlinkCache
      <4>1. confirmed = "no" /\ confirmed' = confirmed
        BY <3>3 DEF O!UnlinkCache, O!IInv, O!WriterConsistent
      <4> QED BY <3>1, <4>1 DEF O!ConfirmedIsDurable
    <3>4. CASE O!Replace \/ O!Fail
      <4>1. confirmed' = confirmed /\ (disk = "durable" => disk' = "durable")
        BY <3>4 DEF O!Replace, O!Fail
      <4> QED BY <2>1, <2>2, <3>1, <4>1 DEF O!IInv, O!ConfirmedIsDurable
    <3> QED BY <1>4, <3>2, <3>3, <3>4
  <2>6. O!GhostsExplained' /\ O!WriterConsistent'
    BY <1>4, <2>1, <2>2 DEF O!Replace, O!SyncAndUnlink, O!UnlinkCache, O!Fail, O!IInv, O!TypeOK,
       O!GhostsExplained, O!WriterConsistent, O!Stored
  <2> QED BY <2>4, <2>5, <2>6 DEF O!IInv
<1>5. ASSUME NEW r \in Content, O!Read(r) \/ O!GetObject(r) \/ O!Publish(r) \/ O!Return(r) PROVE O!IInv'
  <2>1. UNCHANGED <<remote, provider, writer, confirmed>>
    BY <1>5 DEF O!Read, O!GetObject, O!Publish, O!Return
  <2>2. O!Stored' = O!Stored /\ O!Recoverable' = O!Recoverable
    BY <2>1 DEF O!Stored, O!Recoverable
  <2>3. O!TypeOK'
    <3>1. O!TypeOK /\ UNCHANGED <<provider, versioning, remote, writer, upload, confirmed>>
      BY <1>5 DEF O!Read, O!GetObject, O!Publish, O!Return, O!IInv
    <3>2. reader' \in [Content -> {"idle", "get", "publish", "served", "served bad", "failed"}]
      BY <1>5, <3>1 DEF O!Read, O!GetObject, O!Publish, O!Return, O!TypeOK
    <3>3. disk' \in {"absent", "renamed", "durable", "bad"} /\ ghost' \in BOOLEAN
      BY <1>5, <3>1 DEF O!Read, O!GetObject, O!Publish, O!Return, O!TypeOK, O!Replaced
    <3> QED BY <3>1, <3>2, <3>3 DEF O!TypeOK
  <2>4. O!ServedIsVerified'
    BY <1>5 DEF O!Read, O!GetObject, O!Publish, O!Return, O!IInv, O!TypeOK, O!ServedIsVerified
  <2>5. O!ConfirmedIsDurable' /\ O!GhostsExplained' /\ O!WriterConsistent'
    BY <1>5, <2>1, <2>2 DEF O!Read, O!GetObject, O!Publish, O!Return, O!IInv, O!TypeOK, O!ConfirmedIsDurable,
       O!GhostsExplained, O!WriterConsistent
  <2> QED BY <2>3, <2>4, <2>5 DEF O!IInv
<1>6. ASSUME O!PowerLoss \/ O!HostLost \/ O!Rot PROVE O!IInv'
  <2>1. UNCHANGED <<remote, provider>>
    BY <1>6 DEF O!PowerLoss, O!HostLost, O!Rot
  <2>2. O!Stored' = O!Stored /\ O!Recoverable' = O!Recoverable
    BY <2>1 DEF O!Stored, O!Recoverable
  <2>3. O!TypeOK' /\ O!ServedIsVerified'
    BY <1>6 DEF O!PowerLoss, O!HostLost, O!Rot, O!IInv, O!TypeOK, O!ServedIsVerified
  <2>4. O!ConfirmedIsDurable' /\ O!GhostsExplained' /\ O!WriterConsistent'
    <3>1. /\ confirmed' \in {confirmed, "no"}
          /\ disk' # "durable" => confirmed' # "disk" \/ disk # "durable"
          /\ disk' # "absent" => disk # "absent"
          /\ writer' # "sync" /\ (writer' = "idle" \/ writer' = writer)
          /\ writer = "unlink" /\ writer' # "unlink" /\ disk' # "absent" => ghost'
          /\ ghost => ghost'
      <4>1. CASE O!PowerLoss
        BY <4>1 DEF O!PowerLoss
      <4>2. CASE O!HostLost
        <5>1. ghost => ghost'
          BY <4>2, Zenon DEF O!HostLost
        <5>2. confirmed' \in {confirmed, "no"} /\ confirmed' # "disk"
          BY <4>2 DEF O!HostLost
        <5> QED BY <4>2, <5>1, <5>2 DEF O!HostLost
      <4>3. CASE O!Rot
        <5>1. ghost => ghost'
          BY <4>3, Zenon DEF O!Rot
        <5>2. confirmed' \in {confirmed, "no"} /\ confirmed' # "disk"
          BY <4>3 DEF O!Rot
        <5> QED BY <4>3, <5>1, <5>2 DEF O!Rot
      <4> QED BY <1>6, <4>1, <4>2, <4>3
    <3>2. O!ConfirmedIsDurable'
      BY <2>1, <2>2, <3>1 DEF O!IInv, O!TypeOK, O!ConfirmedIsDurable
    <3>3. O!WriterConsistent' /\ O!GhostsExplained'
      BY <2>1, <2>2, <3>1 DEF O!IInv, O!WriterConsistent, O!GhostsExplained
    <3> QED BY <3>2, <3>3
  <2> QED BY <2>3, <2>4 DEF O!IInv
<1>7. CASE UNCHANGED O!vars
  <2>1. /\ UNCHANGED <<provider, versioning, remote, disk, writer, upload, reader, confirmed, ghost>>
        /\ O!Stored' = O!Stored /\ O!Recoverable' = O!Recoverable /\ O!Intact' = O!Intact
    BY <1>7 DEF O!vars, O!Stored, O!Recoverable, O!Intact
  <2>2. O!TypeOK' /\ O!ServedIsVerified'
    BY <2>1 DEF O!IInv, O!TypeOK, O!ServedIsVerified
  <2>3. O!ConfirmedIsDurable' /\ O!GhostsExplained' /\ O!WriterConsistent'
    BY <2>1 DEF O!IInv, O!ConfirmedIsDurable, O!GhostsExplained, O!WriterConsistent
  <2> QED BY <2>2, <2>3 DEF O!IInv
<1>8. CASE O!UseBucket
  <2>1. UNCHANGED <<remote, disk, writer, upload, confirmed, ghost>> /\ writer = "idle" /\ remote = <<>>
    BY <1>8 DEF O!UseBucket, O!IInv, O!WriterConsistent
  <2>2. O!Recoverable' = O!Recoverable
    BY <2>1 DEF O!Recoverable
  <2>3. provider' = "s3" /\ versioning' \in BOOLEAN /\ reader' = [r \in Content |-> "idle"]
    BY <1>8 DEF O!UseBucket
  <2>4. O!TypeOK' /\ O!ServedIsVerified'
    BY <2>1, <2>3 DEF O!IInv, O!TypeOK, O!ServedIsVerified
  <2>5. O!ConfirmedIsDurable'
    BY <2>1, <2>2 DEF O!IInv, O!ConfirmedIsDurable
  <2>6. O!GhostsExplained' /\ O!WriterConsistent'
    BY <2>1, <2>3 DEF O!GhostsExplained, O!WriterConsistent
  <2> QED BY <2>4, <2>5, <2>6 DEF O!IInv
<1> QED BY <1>1, <1>2, <1>3, <1>4, <1>5, <1>6, <1>7, <1>8 DEF O!Next

(* What a bucket of versions confirmed can be recovered, through later stores, a loss of   *)
(* power or of the host and a migration; what a disk alone confirmed is there until a       *)
(* deletion begins, the disk is lost or the file goes bad; with a bucket only verified       *)
(* bytes are served.  For every number of readers and of versions.                            *)
THEOREM OriginalsStay == O!Spec => []OriginalsHold
<1>1. O!Init => O!IInv
  <2> SUFFICES ASSUME O!Init PROVE O!IInv
    OBVIOUS
  <2>1. remote = <<>> /\ Len(remote) = 0 /\ remote \in Seq(O!Object \cup O!Marker) /\ MaxVersions >= 0
    BY Bounds, EmptySeq DEF O!Init, Bounds
  <2>2. O!TypeOK
    BY <2>1 DEF O!Init, O!TypeOK
  <2> QED BY <2>2 DEF O!Init, O!IInv, O!ConfirmedIsDurable, O!ServedIsVerified, O!GhostsExplained, O!WriterConsistent
<1>2. O!IInv /\ [O!Next]_(O!vars) => O!IInv'
  BY OriginalStep
<1>3. O!IInv => OriginalsHold
  BY DEF O!IInv, OriginalsHold
<1> QED BY <1>1, <1>2, <1>3, PTL DEF O!Spec

-----------------------------------------------------------------------------
(* Backups: one job at a time stops, reads and starts again. *)

(* What Backup counts is counted by the library's operator. *)
LEMMA CountIsCardinality ==
  ASSUME NEW S PROVE B!Cardinality(S) = Cardinality(S) /\ (B!IsFiniteSet(S) <=> IsFiniteSet(S))
BY DEF B!Cardinality, Cardinality, B!IsFiniteSet, IsFiniteSet

JobOfBackup == Sync \cup {d1}
Resting == {"idle", "done"}

(* What one job's step does to the others: they rest, or it leaves alone what they rely on. *)
LEMMA OneJob ==
  ASSUME B!Settings, B!IInv, NEW j \in JobOfBackup, NEW b \in B!Bundle, job' = [job EXCEPT ![j] = b],
         job[j].at \notin Resting \/ (UNCHANGED <<db, running, client>> /\ (holder' = holder \/ holder = Null)),
         b.at \in Resting \/ holder' = j,
         B!BundleConsistent(b)',
         b.verdict = "bad" => b.disturbed \/ ~b.intact, b.verdict = "ok" => b.dump \subseteq b.files
  PROVE  /\ job' \in [JobOfBackup -> B!Bundle] /\ job'[j] = b
         /\ \A k \in JobOfBackup \ {j} : job'[k] = job[k]
         /\ job[j].at \notin Resting \/ holder = Null => \A k \in JobOfBackup \ {j} : job[k].at \in Resting
         /\ B!Exclusive' /\ B!BundlesConsistent' /\ B!VerdictsRight'
<1>1. job \in [JobOfBackup -> B!Bundle]
  BY DEF B!IInv, B!TypeOK, JobOfBackup
<1>2. job' \in [JobOfBackup -> B!Bundle] /\ job'[j] = b /\ \A k \in JobOfBackup \ {j} : job'[k] = job[k]
  BY <1>1
<1>3. Null \notin JobOfBackup
  BY DEF B!Settings, JobOfBackup
<1>4. ASSUME job[j].at \notin Resting \/ holder = Null, NEW k \in JobOfBackup \ {j} PROVE job[k].at \in Resting
  BY <1>3, <1>4 DEF B!IInv, B!Exclusive, Resting, JobOfBackup
<1>5. B!Exclusive'
  <2> SUFFICES ASSUME NEW k \in JobOfBackup, job'[k].at \notin Resting PROVE holder' = k
    BY DEF B!Exclusive, Resting, JobOfBackup
  <2>1. CASE k = j
    BY <1>2, <2>1
  <2>2. CASE k # j
    <3>1. job[k].at \notin Resting
      BY <1>2, <2>2
    <3>2. holder = k /\ holder' = holder
      BY <1>3, <1>4, <2>2, <3>1 DEF B!IInv, B!Exclusive, Resting, JobOfBackup
    <3> QED BY <3>2
  <2> QED BY <2>1, <2>2
<1>6. B!BundlesConsistent'
  <2> SUFFICES ASSUME NEW k \in JobOfBackup PROVE B!BundleConsistent(job[k])'
    BY DEF B!BundlesConsistent, JobOfBackup
  <2>1. CASE k = j
    BY <1>2, <2>1 DEF B!BundleConsistent
  <2>2. CASE k # j
    <3>1. job'[k] = job[k] /\ B!BundleConsistent(job[k])
      BY <1>2, <2>2 DEF B!IInv, B!BundlesConsistent, JobOfBackup
    <3>2. CASE UNCHANGED <<db, running, client>>
      BY <3>1, <3>2 DEF B!BundleConsistent
    <3>3. CASE job[j].at \notin Resting
      <4>1. job[k].at \in Resting
        BY <1>4, <2>2, <3>3
      <4> QED BY <3>1, <4>1 DEF B!BundleConsistent, B!Checked, Resting
    <3> QED BY <3>2, <3>3
  <2> QED BY <2>1, <2>2
<1>7. B!VerdictsRight'
  BY <1>2 DEF B!IInv, B!VerdictsRight, JobOfBackup
<1> QED BY <1>2, <1>4, <1>5, <1>6, <1>7

(* What is stopped is remembered by the one job that stops it. *)
LEMMA Stopping ==
  ASSUME B!Settings, B!IInv, NEW j \in JobOfBackup, NEW b \in B!Bundle, job'[j] = b,
         \A k \in JobOfBackup \ {j} : job'[k] = job[k] /\ job[k].at \in Resting,
         job[j].at \notin {"idle", "lock", "done"}, b.at \notin {"idle", "lock", "done"},
         b.writers = job[j].writers, running \subseteq running' \cup b.writers, UNCHANGED <<intended, mishap>>
  PROVE  B!ServicesComeBack' /\ B!StoppedRemembered'
<1>1. ASSUME ~mishap PROVE intended \subseteq running \cup job[j].writers
  BY <1>1 DEF B!IInv, B!StoppedRemembered, JobOfBackup
<1>2. B!StoppedRemembered'
  BY <1>1 DEF B!StoppedRemembered, JobOfBackup, Resting
<1>3. B!ServicesComeBack'
  BY DEF B!ServicesComeBack, JobOfBackup
<1> QED BY <1>2, <1>3

(* When a job ends, or has only begun, and what it remembered runs, everything runs. *)
LEMMA Started ==
  ASSUME B!Settings, B!IInv, NEW j \in JobOfBackup, NEW b \in B!Bundle, job'[j] = b,
         \A k \in JobOfBackup \ {j} : job'[k] = job[k], b.at \in {"idle", "lock", "done"},
         \/ mishap'
         \/ mishap' = mishap /\ running \subseteq running' /\ intended' = intended /\ job[j].at \in {"idle", "lock", "done"}
         \/ mishap' = mishap /\ running \cup job[j].writers \subseteq running' /\ intended' = intended
  PROVE  B!ServicesComeBack' /\ B!StoppedRemembered'
<1>1. ASSUME ~mishap' PROVE B!StoppedRemembered' /\ B!ServicesComeBack'
  <2>1. ~mishap /\ running \subseteq running' /\ intended' = intended
    BY <1>1
  <2>2. B!StoppedRemembered'
    BY <2>1 DEF B!IInv, B!StoppedRemembered, JobOfBackup
  <2>3. ASSUME \A k \in JobOfBackup : job'[k].at \in {"idle", "lock", "done"} PROVE intended \subseteq running'
    <3>1. CASE job[j].at \in {"idle", "lock", "done"}
      <4>1. \A k \in JobOfBackup : job[k].at \in {"idle", "lock", "done"}
        BY <2>3, <3>1
      <4> QED BY <2>1, <4>1 DEF B!IInv, B!ServicesComeBack, JobOfBackup
    <3>2. CASE job[j].at \notin {"idle", "lock", "done"}
      <4>1. intended \subseteq running \cup job[j].writers
        BY <2>1, <3>2 DEF B!IInv, B!StoppedRemembered, JobOfBackup
      <4> QED BY <1>1, <3>2, <4>1
    <3> QED BY <3>1, <3>2
  <2> QED BY <2>1, <2>2, <2>3 DEF B!ServicesComeBack, JobOfBackup
<1>2. CASE mishap'
  BY <1>2 DEF B!StoppedRemembered, B!ServicesComeBack
<1> QED BY <1>1, <1>2

(* A job that goes on, with the lock and what it remembers. *)
LEMMA JobGoesOn ==
  ASSUME B!Settings, B!IInv, NEW j \in JobOfBackup, NEW b \in B!Bundle, job' = [job EXCEPT ![j] = b],
         job[j].at \notin {"idle", "lock", "done"}, b.at \notin {"idle", "lock", "done"},
         b.writers = job[j].writers, b.verdict = job[j].verdict, B!BundleConsistent(b)',
         running' \subseteq running, running \subseteq running' \cup b.writers,
         UNCHANGED <<copies, db, bucket, client, intended, holder, mishap>>, volume' \subseteq Content
  PROVE  B!IInv'
<1>1. holder = j /\ job[j].verdict = Null
  BY DEF B!IInv, B!Exclusive, B!BundlesConsistent, B!BundleConsistent, JobOfBackup
<1>2. b.verdict # "bad" /\ b.verdict # "ok"
  BY <1>1 DEF B!Settings
<1>3. /\ job' \in [JobOfBackup -> B!Bundle] /\ job'[j] = b
      /\ \A k \in JobOfBackup \ {j} : job'[k] = job[k] /\ job[k].at \in Resting
      /\ B!Exclusive' /\ B!BundlesConsistent' /\ B!VerdictsRight'
  BY <1>1, <1>2, OneJob DEF Resting
<1>4. B!ServicesComeBack' /\ B!StoppedRemembered'
  BY <1>3, Stopping
<1>5. B!TypeOK'
  BY <1>3 DEF B!IInv, B!TypeOK, JobOfBackup
<1> QED BY <1>3, <1>4, <1>5 DEF B!IInv

(* The steps that stop the services and look who is left. *)
LEMMA StopKeeps ==
  ASSUME B!Settings, B!IInv, NEW j \in JobOfBackup,
         B!StopBeat(j) \/ B!StopOthers(j) \/ B!CheckStopped(j) \/ B!CheckClients(j) \/ B!Fail(j)
  PROVE  B!IInv'
<1>1. PICK at \in B!Step :
        /\ job' = [job EXCEPT ![j].at = at]
        /\ \/ job[j].at = "beat" /\ at = "others" /\ running' = running \ (job[j].writers \cap {"beat"})
           \/ job[j].at = "others" /\ at = "remaining" /\ running' = running \ (job[j].writers \ {"beat"})
           \/ job[j].at = "remaining" /\ at = "clients" /\ running' = running /\ running \cap B!Writers = {}
           \/ job[j].at = "clients" /\ at = "counts" /\ running' = running /\ ~client
           \/ job[j].at \in B!Quiet \cup {"verify"} /\ at = "resume" /\ running' = running
  BY DEF B!StopBeat, B!StopOthers, B!CheckStopped, B!CheckClients, B!Fail, B!At, B!Goto, B!Step, B!Quiet, B!services
<1>2. UNCHANGED <<copies, db, volume, bucket, client, intended, holder, mishap>>
  BY DEF B!StopBeat, B!StopOthers, B!CheckStopped, B!CheckClients, B!Fail, B!corpus, B!services
<1> DEFINE e == [job[j] EXCEPT !.at = at]
<1>3. job[j] \in B!Bundle /\ B!BundleConsistent(job[j]) /\ volume \subseteq Content
  BY DEF B!IInv, B!TypeOK, B!BundlesConsistent, JobOfBackup
<1>4. /\ e \in B!Bundle /\ job' = [job EXCEPT ![j] = e]
      /\ e.at = at /\ e.ok = job[j].ok /\ e.writers = job[j].writers /\ e.count = job[j].count /\ e.refs = job[j].refs
      /\ e.dump = job[j].dump /\ e.files = job[j].files /\ e.disturbed = job[j].disturbed /\ e.verdict = job[j].verdict
  BY <1>1, <1>3 DEF B!Bundle
<1> HIDE DEF e
<1>8. PICK b \in B!Bundle : b = e
  BY <1>4
<1>5. job[j].at \notin {"idle", "lock", "done"} /\ at \notin {"idle", "lock", "done"}
  BY <1>1 DEF B!Quiet
<1>6. B!BundleConsistent(b)'
  BY <1>1, <1>2, <1>3, <1>4, <1>8 DEF B!BundleConsistent, B!Checked, B!Quiet
<1>7. running' \subseteq running /\ running \subseteq running' \cup b.writers
  BY <1>1, <1>4, <1>8
<1> QED BY <1>2, <1>3, <1>4, <1>5, <1>6, <1>7, <1>8, JobGoesOn

(* The steps that read the database and the files. *)
LEMMA ReadKeeps ==
  ASSUME B!Settings, B!IInv, NEW j \in JobOfBackup,
         B!ReadCounts(j) \/ B!ReadReferences(j) \/ B!Snapshot(j) \/ B!Dump(j) \/ B!Tar(j) \/ B!Verify(j)
  PROVE  B!IInv'
<1>1. /\ UNCHANGED <<copies, db, bucket, client, intended, holder, mishap, running>>
      /\ job[j].at \in {"counts", "references", "snapshot", "dump", "tar", "verify"}
  BY DEF B!ReadCounts, B!ReadReferences, B!Snapshot, B!Dump, B!Tar, B!Verify, B!corpus, B!services, B!At
<1>2. job[j] \in B!Bundle /\ B!BundleConsistent(job[j]) /\ volume \subseteq Content /\ db \subseteq Content
  BY DEF B!IInv, B!TypeOK, B!BundlesConsistent, JobOfBackup
<1>3. B!Cardinality(db) \in 0 .. B!Cardinality(Content)
  <2>1. IsFiniteSet(Content)
    BY CountIsCardinality DEF B!Settings
  <2>2. IsFiniteSet(db) /\ Cardinality(db) <= Cardinality(Content)
    BY <1>2, <2>1, FS_Subset
  <2> QED BY <2>1, <2>2, FS_CardinalityType, CountIsCardinality
<1>4. volume' \subseteq Content
  BY <1>2 DEF B!ReadCounts, B!ReadReferences, B!Snapshot, B!Dump, B!Tar, B!Verify, B!corpus
<1>5. ASSUME NEW b \in B!Bundle, job' = [job EXCEPT ![j] = b], b.at \notin {"idle", "lock", "done"},
             b.writers = job[j].writers, b.verdict = job[j].verdict, B!BundleConsistent(b)'
      PROVE  B!IInv'
  BY <1>1, <1>2, <1>4, <1>5, JobGoesOn
<1>6. CASE B!ReadCounts(j)
  <2> DEFINE e == [job[j] EXCEPT !.at = "references", !.count = B!Cardinality(db)]
  <2>1. job' = [job EXCEPT ![j] = e] /\ job[j].at = "counts"
    BY <1>6 DEF B!ReadCounts, B!At
  <2>2. /\ e \in B!Bundle /\ e.at = "references" /\ e.count = B!Cardinality(db)
        /\ e.ok = job[j].ok /\ e.writers = job[j].writers /\ e.refs = job[j].refs /\ e.dump = job[j].dump
        /\ e.files = job[j].files /\ e.disturbed = job[j].disturbed /\ e.verdict = job[j].verdict
    BY <1>2, <1>3 DEF B!Bundle, B!Step
  <2> HIDE DEF e
  <2>3. PICK b \in B!Bundle : b = e
    BY <2>2
  <2>4. B!BundleConsistent(b)'
    BY <1>1, <1>2, <2>1, <2>2, <2>3 DEF B!BundleConsistent, B!Checked
  <2> QED BY <1>5, <2>1, <2>2, <2>3, <2>4
<1>7. CASE B!ReadReferences(j)
  <2> DEFINE e == [job[j] EXCEPT !.at = "snapshot", !.refs = db]
  <2>1. job' = [job EXCEPT ![j] = e] /\ job[j].at = "references"
    BY <1>7 DEF B!ReadReferences, B!At
  <2>2. /\ e \in B!Bundle /\ e.at = "snapshot" /\ e.refs = db
        /\ e.ok = job[j].ok /\ e.writers = job[j].writers /\ e.count = job[j].count /\ e.dump = job[j].dump
        /\ e.files = job[j].files /\ e.disturbed = job[j].disturbed /\ e.verdict = job[j].verdict
    BY <1>2 DEF B!Bundle, B!Step
  <2> HIDE DEF e
  <2>3. PICK b \in B!Bundle : b = e
    BY <2>2
  <2>4. B!BundleConsistent(b)'
    BY <1>1, <1>2, <2>1, <2>2, <2>3 DEF B!BundleConsistent, B!Checked
  <2> QED BY <1>5, <2>1, <2>2, <2>3, <2>4
<1>8. CASE B!Snapshot(j)
  <2>1. PICK at \in {"dump", "resume"} : job' = [job EXCEPT ![j].at = at] /\ job[j].at = "snapshot"
    BY <1>8 DEF B!Snapshot, B!At, B!Goto
  <2> DEFINE e == [job[j] EXCEPT !.at = at]
  <2>2. /\ e \in B!Bundle /\ e.at = at /\ job' = [job EXCEPT ![j] = e]
        /\ e.ok = job[j].ok /\ e.writers = job[j].writers /\ e.count = job[j].count /\ e.dump = job[j].dump
        /\ e.refs = job[j].refs /\ e.files = job[j].files /\ e.disturbed = job[j].disturbed /\ e.verdict = job[j].verdict
    BY <1>2, <2>1 DEF B!Bundle, B!Step
  <2> HIDE DEF e
  <2>3. PICK b \in B!Bundle : b = e
    BY <2>2
  <2>4. B!BundleConsistent(b)'
    BY <1>1, <1>2, <2>1, <2>2, <2>3 DEF B!BundleConsistent, B!Checked
  <2> QED BY <1>5, <2>2, <2>3, <2>4
<1>9. CASE B!Dump(j)
  <2> DEFINE e == [job[j] EXCEPT !.at = "tar", !.dump = db]
  <2>1. job' = [job EXCEPT ![j] = e] /\ job[j].at = "dump"
    BY <1>9 DEF B!Dump, B!At
  <2>2. /\ e \in B!Bundle /\ e.at = "tar" /\ e.dump = db
        /\ e.ok = job[j].ok /\ e.writers = job[j].writers /\ e.count = job[j].count /\ e.refs = job[j].refs
        /\ e.files = job[j].files /\ e.disturbed = job[j].disturbed /\ e.verdict = job[j].verdict
    BY <1>2 DEF B!Bundle, B!Step
  <2> HIDE DEF e
  <2>3. PICK b \in B!Bundle : b = e
    BY <2>2
  <2>4. B!BundleConsistent(b)'
    BY <1>1, <1>2, <2>1, <2>2, <2>3 DEF B!BundleConsistent, B!Checked
  <2> QED BY <1>5, <2>1, <2>2, <2>3, <2>4
<1>10. CASE B!Tar(j)
  <2> DEFINE e == [job[j] EXCEPT !.at = "verify", !.files = volume]
  <2>1. job' = [job EXCEPT ![j] = e] /\ job[j].at = "tar"
    BY <1>10 DEF B!Tar, B!At
  <2>2. /\ e \in B!Bundle /\ e.at = "verify" /\ e.files = volume
        /\ e.ok = job[j].ok /\ e.writers = job[j].writers /\ e.count = job[j].count /\ e.refs = job[j].refs
        /\ e.dump = job[j].dump /\ e.disturbed = job[j].disturbed /\ e.verdict = job[j].verdict
    BY <1>2 DEF B!Bundle, B!Step
  <2> HIDE DEF e
  <2>3. PICK b \in B!Bundle : b = e
    BY <2>2
  <2>4. B!BundleConsistent(b)'
    BY <1>1, <1>2, <2>1, <2>2, <2>3 DEF B!BundleConsistent, B!Checked
  <2> QED BY <1>5, <2>1, <2>2, <2>3, <2>4
<1>11. CASE B!Verify(j)
  <2> DEFINE e == [job[j] EXCEPT !.at = "resume", !.ok = (job[j].refs \subseteq job[j].files)]
  <2>1. job' = [job EXCEPT ![j] = e] /\ job[j].at = "verify"
    BY <1>11 DEF B!Verify, B!At
  <2>2. /\ e \in B!Bundle /\ e.at = "resume" /\ (e.ok => job[j].refs \subseteq job[j].files)
        /\ e.writers = job[j].writers /\ e.count = job[j].count /\ e.refs = job[j].refs /\ e.files = job[j].files
        /\ e.dump = job[j].dump /\ e.disturbed = job[j].disturbed /\ e.verdict = job[j].verdict
    BY <1>2 DEF B!Bundle, B!Step
  <2> HIDE DEF e
  <2>3. PICK b \in B!Bundle : b = e
    BY <2>2
  <2>4. B!BundleConsistent(b)'
    BY <1>1, <1>2, <2>1, <2>2, <2>3 DEF B!BundleConsistent, B!Checked
  <2> QED BY <1>5, <2>1, <2>2, <2>3, <2>4
<1> QED BY <1>6, <1>7, <1>8, <1>9, <1>10, <1>11

LEMMA NoBundleRests ==
  ASSUME B!Settings
  PROVE  /\ B!NoBundle \in B!Bundle /\ B!NoBundle.at = "idle" /\ B!NoBundle.verdict = Null /\ ~B!NoBundle.ok
         /\ B!NoBundle.writers = {}
<1>1. B!Cardinality(Content) \in Nat
  BY CountIsCardinality, FS_CardinalityType DEF B!Settings
<1>2. 0 \in 0 .. B!Cardinality(Content)
  BY <1>1
<1> QED BY <1>2 DEF B!NoBundle, B!Bundle, B!Step

(* A job that ends gives the lock back, and rests. *)
LEMMA JobEnds ==
  ASSUME B!Settings, B!IInv, NEW j \in JobOfBackup, NEW b \in B!Bundle, job' = [job EXCEPT ![j] = b],
         job[j].at \notin Resting, b.verdict = Null,
         b = B!NoBundle \/ (b.at = "done" /\ b.ok /\ B!BundleConsistent(b)'),
         holder' = B!Unlocked(j), UNCHANGED <<copies, db, volume, bucket, client, intended>>,
         running' \subseteq B!Writers \cup {"migrate"}, mishap' \in BOOLEAN,
         \/ mishap'
         \/ mishap' = mishap /\ running \subseteq running' /\ job[j].at = "lock"
         \/ mishap' = mishap /\ running \cup job[j].writers \subseteq running'
  PROVE  B!IInv'
<1>1. holder = j /\ holder' = Null
  BY DEF B!IInv, B!Exclusive, B!Unlocked, JobOfBackup, Resting
<1>2. b.at \in Resting /\ b.at \in {"idle", "lock", "done"}
  BY NoBundleRests DEF Resting
<1>3. b.verdict # "bad" /\ b.verdict # "ok"
  BY DEF B!Settings
<1>4. B!BundleConsistent(b)'
  BY NoBundleRests DEF B!BundleConsistent, B!Checked
<1>5. /\ job' \in [JobOfBackup -> B!Bundle] /\ job'[j] = b
      /\ \A k \in JobOfBackup \ {j} : job'[k] = job[k]
      /\ B!Exclusive' /\ B!BundlesConsistent' /\ B!VerdictsRight'
  BY <1>2, <1>3, <1>4, OneJob
<1>6. B!ServicesComeBack' /\ B!StoppedRemembered'
  BY <1>2, <1>5, Started
<1>7. B!TypeOK'
  BY <1>1, <1>5 DEF B!IInv, B!TypeOK, JobOfBackup
<1> QED BY <1>5, <1>6, <1>7 DEF B!IInv

(* A job begins alone, and lists what runs. *)
LEMMA BeginKeeps ==
  ASSUME B!Settings, B!IInv, NEW j \in JobOfBackup, B!Lock(j) \/ B!ListServices(j) PROVE B!IInv'
<1>1. job[j] \in B!Bundle /\ B!BundleConsistent(job[j])
  BY DEF B!IInv, B!TypeOK, B!BundlesConsistent, JobOfBackup
<1>2. CASE B!Lock(j)
  <2> DEFINE e == [job[j] EXCEPT !.at = "lock"]
  <2>1. /\ e \in B!Bundle /\ job' = [job EXCEPT ![j] = e] /\ job[j].at = "idle" /\ holder = Null /\ holder' = j
        /\ UNCHANGED <<copies, db, volume, bucket, client, running, intended, mishap>>
    BY <1>1, <1>2 DEF B!Lock, B!At, B!Goto, B!corpus, B!services, B!Bundle, B!Step
  <2>2. /\ e.at = "lock" /\ e.ok = job[j].ok /\ e.verdict = job[j].verdict /\ e.disturbed = job[j].disturbed
        /\ e.dump = job[j].dump /\ e.refs = job[j].refs /\ e.files = job[j].files
    BY <1>1 DEF B!Bundle
  <2> HIDE DEF e
  <2>3. PICK b \in B!Bundle : b = e
    BY <2>1
  <2>4. ~b.ok /\ b.verdict = Null /\ b.verdict # "bad" /\ b.verdict # "ok"
    BY <1>1, <2>1, <2>2, <2>3 DEF B!BundleConsistent, B!Settings
  <2>5. B!BundleConsistent(b)'
    BY <2>2, <2>3, <2>4 DEF B!BundleConsistent, B!Checked
  <2>6. /\ job' \in [JobOfBackup -> B!Bundle] /\ job'[j] = b
        /\ \A k \in JobOfBackup \ {j} : job'[k] = job[k]
        /\ B!Exclusive' /\ B!BundlesConsistent' /\ B!VerdictsRight'
    BY <2>1, <2>3, <2>4, <2>5, OneJob
  <2>7. B!ServicesComeBack' /\ B!StoppedRemembered'
    BY <2>1, <2>2, <2>3, <2>6, Started
  <2>8. B!TypeOK'
    BY <2>1, <2>6 DEF B!IInv, B!TypeOK, JobOfBackup
  <2> QED BY <2>6, <2>7, <2>8 DEF B!IInv
<1>3. CASE B!ListServices(j) /\ "migrate" \in running
  <2>1. /\ job' = [job EXCEPT ![j] = B!NoBundle] /\ holder' = B!Unlocked(j) /\ job[j].at = "lock"
        /\ UNCHANGED <<copies, db, volume, bucket, client, running, intended, mishap>>
    BY <1>3 DEF B!ListServices, B!At, B!corpus, B!services
  <2>2. running' \subseteq B!Writers \cup {"migrate"} /\ mishap' \in BOOLEAN
    BY <2>1 DEF B!IInv, B!TypeOK
  <2> QED BY <2>1, <2>2, JobEnds, NoBundleRests DEF Resting
<1>4. CASE B!ListServices(j) /\ "migrate" \notin running
  <2> DEFINE e == [job[j] EXCEPT !.at = "beat", !.writers = running \cap B!Writers]
  <2>1. /\ job' = [job EXCEPT ![j] = e] /\ job[j].at = "lock" /\ holder' = holder
        /\ UNCHANGED <<copies, db, volume, bucket, client, running, intended, mishap>>
    BY <1>4 DEF B!ListServices, B!At, B!corpus, B!services
  <2>2. /\ e \in B!Bundle /\ e.at = "beat" /\ e.ok = job[j].ok /\ e.verdict = job[j].verdict
        /\ e.disturbed = job[j].disturbed /\ e.writers = running \cap B!Writers
        /\ e.dump = job[j].dump /\ e.refs = job[j].refs /\ e.files = job[j].files
    BY <1>1 DEF B!Bundle, B!Step
  <2> HIDE DEF e
  <2>3. PICK b \in B!Bundle : b = e
    BY <2>2
  <2>4. ~b.ok /\ b.verdict = Null /\ b.verdict # "bad" /\ b.verdict # "ok"
    BY <1>1, <2>1, <2>2, <2>3 DEF B!BundleConsistent, B!Settings
  <2>5. B!BundleConsistent(b)'
    BY <2>2, <2>3, <2>4 DEF B!BundleConsistent, B!Checked
  <2>6. holder = j /\ job[j].at \notin Resting
    BY <2>1 DEF B!IInv, B!Exclusive, JobOfBackup, Resting
  <2>7. /\ job' \in [JobOfBackup -> B!Bundle] /\ job'[j] = b
        /\ \A k \in JobOfBackup \ {j} : job'[k] = job[k] /\ job[k].at \in Resting
        /\ B!Exclusive' /\ B!BundlesConsistent' /\ B!VerdictsRight'
    BY <2>1, <2>3, <2>4, <2>5, <2>6, OneJob
  <2>8. ~mishap => intended \subseteq running
    <3>1. \A k \in JobOfBackup : job[k].at \in {"idle", "lock", "done"}
      BY <2>1, <2>7 DEF Resting
    <3> QED BY <3>1 DEF B!IInv, B!ServicesComeBack, JobOfBackup
  <2>9. B!ServicesComeBack'
    BY <2>2, <2>3, <2>7 DEF B!ServicesComeBack, JobOfBackup
  <2>10. B!StoppedRemembered'
    BY <2>1, <2>7, <2>8 DEF B!StoppedRemembered, JobOfBackup, Resting
  <2>11. B!TypeOK'
    BY <2>1, <2>7 DEF B!IInv, B!TypeOK, JobOfBackup
  <2> QED BY <2>7, <2>9, <2>10, <2>11 DEF B!IInv
<1> QED BY <1>2, <1>3, <1>4

(* What was stopped is started again, or the operator is told. *)
LEMMA EndKeeps ==
  ASSUME B!Settings, B!IInv, NEW j \in JobOfBackup, B!Resume(j) \/ B!Die(j) PROVE B!IInv'
<1>1. /\ job[j] \in B!Bundle /\ B!BundleConsistent(job[j]) /\ job[j].writers \subseteq B!Writers
      /\ running \subseteq B!Writers \cup {"migrate"} /\ mishap \in BOOLEAN
  BY DEF B!IInv, B!TypeOK, B!BundlesConsistent, JobOfBackup, B!Bundle
<1>2. /\ job[j].at \notin Resting /\ holder' = B!Unlocked(j)
      /\ UNCHANGED <<copies, db, volume, bucket, client, intended>>
  BY DEF B!Resume, B!Die, B!At, B!corpus, B!services, Resting
<1>3. job[j].verdict = Null
  BY <1>1, <1>2 DEF B!BundleConsistent, Resting
<1>4. CASE B!Resume(j) /\ job[j].ok /\ job' = [job EXCEPT ![j] = [job[j] EXCEPT !.at = "done"]] /\ running' = running \cup job[j].writers
  <2> DEFINE e == [job[j] EXCEPT !.at = "done"]
  <2>1. /\ e \in B!Bundle /\ job' = [job EXCEPT ![j] = e] /\ e.at = "done" /\ e.ok = job[j].ok /\ e.verdict = job[j].verdict
        /\ e.disturbed = job[j].disturbed /\ e.count = job[j].count
        /\ e.dump = job[j].dump /\ e.refs = job[j].refs /\ e.files = job[j].files
    BY <1>1, <1>4 DEF B!Bundle, B!Step
  <2> HIDE DEF e
  <2>2. PICK b \in B!Bundle : b = e
    BY <2>1
  <2>3. B!BundleConsistent(b)'
    BY <1>1, <1>4, <2>1, <2>2 DEF B!BundleConsistent, B!Checked
  <2>4. mishap' = mishap \/ mishap'
    BY <1>4 DEF B!Resume
  <2>5. mishap' \in BOOLEAN
    BY <1>1, <1>4, Zenon DEF B!Resume
  <2> QED BY <1>1, <1>2, <1>3, <1>4, <2>1, <2>2, <2>3, <2>4, <2>5, JobEnds
<1>5. CASE job' = [job EXCEPT ![j] = B!NoBundle]
  <2>1. running' \subseteq B!Writers \cup {"migrate"}
    BY <1>1, <1>5 DEF B!Resume, B!Die, B!services
  <2>2. mishap' \in BOOLEAN
    BY <1>1, <1>5, Zenon DEF B!Resume, B!Die
  <2>3. \/ mishap'
        \/ mishap' = mishap /\ running \cup job[j].writers \subseteq running'
    BY <1>1, <1>5 DEF B!Resume, B!Die, B!services
  <2> QED BY <1>2, <1>5, <2>1, <2>2, <2>3, JobEnds, NoBundleRests
<1> QED BY <1>4, <1>5 DEF B!Resume, B!Die

(* A finished bundle is checked, or damaged. *)
LEMMA CheckKeeps ==
  ASSUME B!Settings, B!IInv, NEW j \in JobOfBackup, B!RestoreCheck(j) \/ B!Damage(j) PROVE B!IInv'
<1>1. /\ job[j] \in B!Bundle /\ B!BundleConsistent(job[j]) /\ job[j].at = "done"
      /\ UNCHANGED <<copies, db, volume, bucket, client, running, intended, holder, mishap>>
  BY DEF B!IInv, B!TypeOK, B!BundlesConsistent, JobOfBackup, B!RestoreCheck, B!Damage, B!At, B!corpus, B!services
<1>2. ASSUME NEW b \in B!Bundle, job' = [job EXCEPT ![j] = b], b.at = "done", B!BundleConsistent(b)',
             b.verdict = "bad" => b.disturbed \/ ~b.intact, b.verdict = "ok" => b.dump \subseteq b.files
      PROVE  B!IInv'
  <2>1. /\ job' \in [JobOfBackup -> B!Bundle] /\ job'[j] = b
        /\ \A k \in JobOfBackup \ {j} : job'[k] = job[k]
        /\ B!Exclusive' /\ B!BundlesConsistent' /\ B!VerdictsRight'
    BY <1>1, <1>2, OneJob DEF Resting
  <2>2. B!ServicesComeBack' /\ B!StoppedRemembered'
    BY <1>1, <1>2, <2>1, Started
  <2>3. B!TypeOK'
    BY <1>1, <2>1 DEF B!IInv, B!TypeOK, JobOfBackup
  <2> QED BY <2>1, <2>2, <2>3 DEF B!IInv
<1>3. CASE B!RestoreCheck(j)
  <2> DEFINE v == IF B!Passes(job[j]) THEN "ok" ELSE "bad"
             e == [job[j] EXCEPT !.verdict = v]
  <2>1. /\ e \in B!Bundle /\ job' = [job EXCEPT ![j] = e] /\ e.at = "done" /\ e.ok = job[j].ok /\ e.verdict = v
        /\ e.disturbed = job[j].disturbed /\ e.count = job[j].count /\ e.intact = job[j].intact
        /\ e.dump = job[j].dump /\ e.refs = job[j].refs /\ e.files = job[j].files
    BY <1>1, <1>3 DEF B!Bundle, B!RestoreCheck
  <2> HIDE DEF e
  <2>2. PICK b \in B!Bundle : b = e
    BY <2>1
  <2>3. B!BundleConsistent(b)'
    BY <1>1, <2>1, <2>2 DEF B!BundleConsistent, B!Checked
  <2>4. b.verdict = "ok" => b.dump \subseteq b.files
    BY <2>1, <2>2 DEF B!Passes
  <2>5. b.verdict = "bad" => b.disturbed \/ ~b.intact
    <3> SUFFICES ASSUME ~job[j].disturbed, job[j].intact PROVE B!Passes(job[j])
      BY <2>1, <2>2
    <3>1. /\ job[j].dump = job[j].refs /\ job[j].refs \subseteq job[j].files
          /\ job[j].count = B!Cardinality(job[j].dump)
      BY <1>1 DEF B!BundleConsistent
    <3> QED BY <3>1 DEF B!Passes
  <2> QED BY <1>2, <2>1, <2>2, <2>3, <2>4, <2>5
<1>4. CASE B!Damage(j)
  <2> DEFINE e == [job[j] EXCEPT !.intact = FALSE, !.verdict = Null]
  <2>1. /\ e \in B!Bundle /\ job' = [job EXCEPT ![j] = e] /\ e.at = "done" /\ e.ok = job[j].ok /\ e.verdict = Null
        /\ e.disturbed = job[j].disturbed /\ e.count = job[j].count
        /\ e.dump = job[j].dump /\ e.refs = job[j].refs /\ e.files = job[j].files
    BY <1>1, <1>4 DEF B!Bundle, B!Damage
  <2> HIDE DEF e
  <2>2. PICK b \in B!Bundle : b = e
    BY <2>1
  <2>3. B!BundleConsistent(b)'
    BY <1>1, <2>1, <2>2 DEF B!BundleConsistent, B!Checked
  <2> QED BY <1>2, <2>1, <2>2, <2>3 DEF B!Settings
<1> QED BY <1>3, <1>4

(* While a job that nobody disturbed reads, nobody writes. *)
LEMMA WriteKeeps ==
  ASSUME B!Settings, B!IInv, NEW d \in Content, B!AddDocument(d) \/ B!RemoveDocument(d) \/ B!LoseFiles(d)
  PROVE  B!IInv'
<1>1. UNCHANGED <<copies, running, intended, client, holder, job, mishap>>
  BY DEF B!AddDocument, B!RemoveDocument, B!LoseFiles, B!services
<1>2. ASSUME NEW j \in JobOfBackup PROVE B!BundleConsistent(job[j])'
  <2>1. B!BundleConsistent(job[j])
    BY DEF B!IInv, B!BundlesConsistent, JobOfBackup
  <2>2. db' = db \/ client \/ running \cap {"api", "worker"} # {}
    BY DEF B!AddDocument, B!RemoveDocument, B!LoseFiles, B!Writing
  <2>3. CASE db' = db
    BY <1>1, <2>1, <2>3 DEF B!BundleConsistent
  <2>4. CASE client \/ running \cap {"api", "worker"} # {}
    <3>1. job[j].disturbed \/ job[j].at \notin B!Checked
      BY <2>1, <2>4 DEF B!BundleConsistent, B!Writers
    <3> QED BY <1>1, <2>1, <3>1 DEF B!BundleConsistent, B!Checked
  <2> QED BY <2>2, <2>3, <2>4
<1>3. B!TypeOK'
  BY DEF B!AddDocument, B!RemoveDocument, B!LoseFiles, B!services, B!IInv, B!TypeOK
<1>4. B!VerdictsRight' /\ B!ServicesComeBack' /\ B!Exclusive' /\ B!StoppedRemembered'
  BY <1>1 DEF B!IInv, B!VerdictsRight, B!ServicesComeBack, B!Exclusive, B!StoppedRemembered
<1>5. B!BundlesConsistent'
  BY <1>2 DEF B!BundlesConsistent, JobOfBackup
<1> QED BY <1>3, <1>4, <1>5 DEF B!IInv

(* Whoever connects or releases disturbs the jobs that read. *)
LEMMA Disturbed ==
  ASSUME B!Settings, B!IInv, NEW steps, B!Disturb(steps)
  PROVE  /\ job' \in [JobOfBackup -> B!Bundle]
         /\ \A j \in JobOfBackup :
              /\ ~job'[j].disturbed => ~job[j].disturbed /\ job[j].at \notin steps
              /\ job[j].disturbed => job'[j].disturbed
              /\ job'[j].at = job[j].at /\ job'[j].ok = job[j].ok /\ job'[j].writers = job[j].writers
              /\ job'[j].count = job[j].count /\ job'[j].refs = job[j].refs /\ job'[j].dump = job[j].dump
              /\ job'[j].files = job[j].files /\ job'[j].intact = job[j].intact /\ job'[j].verdict = job[j].verdict
<1> DEFINE e(j) == [job[j] EXCEPT !.disturbed = @ \/ job[j].at \in steps]
<1>1. job' = [j \in JobOfBackup |-> e(j)]
  BY DEF B!Disturb, JobOfBackup
<1>2. ASSUME NEW j \in JobOfBackup
      PROVE  /\ e(j) \in B!Bundle /\ e(j).disturbed = (job[j].disturbed \/ job[j].at \in steps)
             /\ e(j).at = job[j].at /\ e(j).ok = job[j].ok /\ e(j).writers = job[j].writers
             /\ e(j).count = job[j].count /\ e(j).refs = job[j].refs /\ e(j).dump = job[j].dump
             /\ e(j).files = job[j].files /\ e(j).intact = job[j].intact /\ e(j).verdict = job[j].verdict
  <2>1. job[j] \in B!Bundle
    BY DEF B!IInv, B!TypeOK, JobOfBackup
  <2>2. PICK f \in BOOLEAN : f = (job[j].disturbed \/ job[j].at \in steps)
    BY Zenon
  <2>3. e(j) = [job[j] EXCEPT !.disturbed = f]
    BY <2>2
  <2> HIDE DEF e
  <2> QED BY <2>1, <2>2, <2>3 DEF B!Bundle
<1> HIDE DEF e
<1>3. \A j \in JobOfBackup : job'[j] = e(j)
  BY <1>1
<1> QED BY <1>1, <1>2, <1>3

LEMMA SurroundingsKeep ==
  ASSUME B!Settings, B!IInv, B!Connect \/ B!Disconnect \/ B!BeginRelease \/ B!EndRelease PROVE B!IInv'
<1>1. UNCHANGED <<copies, db, volume, bucket, holder>>
  BY DEF B!Connect, B!Disconnect, B!BeginRelease, B!EndRelease, B!corpus
<1>2. CASE B!Disconnect
  <2>1. UNCHANGED <<copies, db, volume, bucket, holder, job, running, intended, mishap>> /\ client' = FALSE
    BY <1>2 DEF B!Disconnect, B!corpus, B!services
  <2>2. B!BundlesConsistent'
    BY <2>1 DEF B!IInv, B!BundlesConsistent, B!BundleConsistent
  <2> QED BY <2>1, <2>2 DEF B!IInv, B!TypeOK, B!VerdictsRight, B!ServicesComeBack, B!Exclusive, B!StoppedRemembered
<1>3. ASSUME NEW steps,
             B!Disturb(steps),
             \/ steps = B!Checked /\ UNCHANGED <<running, intended, mishap>> /\ client' = TRUE
             \/ steps = B!Quiet /\ UNCHANGED <<intended, mishap, client>> /\ running' = running \cup {"migrate"}
             \/ steps = B!Quiet /\ UNCHANGED client /\ running' = B!Writers /\ intended' = B!Writers /\ mishap' = FALSE
      PROVE  B!IInv'
  <2>1. /\ job' \in [JobOfBackup -> B!Bundle]
        /\ \A j \in JobOfBackup :
             /\ ~job'[j].disturbed => ~job[j].disturbed /\ job[j].at \notin steps
             /\ job[j].disturbed => job'[j].disturbed
             /\ job'[j].at = job[j].at /\ job'[j].ok = job[j].ok /\ job'[j].writers = job[j].writers
             /\ job'[j].count = job[j].count /\ job'[j].refs = job[j].refs /\ job'[j].dump = job[j].dump
             /\ job'[j].files = job[j].files /\ job'[j].intact = job[j].intact /\ job'[j].verdict = job[j].verdict
    BY <1>3, Disturbed
  <2>2. B!TypeOK'
    <3>1. B!TypeOK
      BY DEF B!IInv
    <3>2. /\ running' \subseteq B!Writers \cup {"migrate"} /\ intended' \subseteq B!Writers
          /\ client' \in BOOLEAN /\ mishap' \in BOOLEAN
      BY <1>3, <3>1 DEF B!TypeOK
    <3>3. job' \in [JobOfBackup -> B!Bundle]
      BY <2>1
    <3> QED BY <1>1, <3>1, <3>2, <3>3 DEF B!TypeOK, JobOfBackup
  <2>3. B!VerdictsRight' /\ B!Exclusive'
    BY <1>1, <2>1 DEF B!IInv, B!VerdictsRight, B!Exclusive, JobOfBackup
  <2>4. B!ServicesComeBack' /\ B!StoppedRemembered'
    BY <1>3, <2>1 DEF B!IInv, B!ServicesComeBack, B!StoppedRemembered, JobOfBackup
  <2>5. ASSUME NEW j \in JobOfBackup PROVE B!BundleConsistent(job[j])'
    <3>1. B!BundleConsistent(job[j])
      BY DEF B!IInv, B!BundlesConsistent, JobOfBackup
    <3>2. CASE job'[j].disturbed
      BY <2>1, <3>1, <3>2 DEF B!BundleConsistent
    <3>3. CASE ~job'[j].disturbed
      <4>1. ~job[j].disturbed /\ job[j].at \notin steps
        BY <2>1, <3>3
      <4> QED BY <1>1, <1>3, <2>1, <3>1, <4>1 DEF B!BundleConsistent, B!Checked, B!Quiet
    <3> QED BY <3>2, <3>3
  <2>6. B!BundlesConsistent'
    BY <2>5 DEF B!BundlesConsistent, JobOfBackup
  <2> QED BY <2>2, <2>3, <2>4, <2>6 DEF B!IInv
<1> QED BY <1>2, <1>3 DEF B!Connect, B!BeginRelease, B!EndRelease, B!services

LEMMA BackupStep == ASSUME B!Settings, B!IInv, [B!Next]_(B!vars) PROVE B!IInv'
<1>1. ASSUME NEW j \in JobOfBackup,
             \/ B!Lock(j) \/ B!ListServices(j) \/ B!StopBeat(j) \/ B!StopOthers(j) \/ B!CheckStopped(j)
             \/ B!CheckClients(j) \/ B!ReadCounts(j) \/ B!ReadReferences(j) \/ B!Snapshot(j) \/ B!Dump(j)
             \/ B!Tar(j) \/ B!Verify(j) \/ B!Fail(j) \/ B!Resume(j) \/ B!Die(j) \/ B!RestoreCheck(j) \/ B!Damage(j)
      PROVE  B!IInv'
  BY <1>1, BeginKeeps, StopKeeps, ReadKeeps, EndKeeps, CheckKeeps
<1>2. ASSUME NEW d \in Content, B!AddDocument(d) \/ B!RemoveDocument(d) \/ B!LoseFiles(d) PROVE B!IInv'
  BY <1>2, WriteKeeps
<1>3. ASSUME B!Connect \/ B!Disconnect \/ B!BeginRelease \/ B!EndRelease PROVE B!IInv'
  BY <1>3, SurroundingsKeep
<1>4. CASE UNCHANGED B!vars
  BY <1>4 DEF B!vars, B!IInv, B!TypeOK, B!VerdictsRight, B!ServicesComeBack, B!Exclusive, B!BundlesConsistent,
     B!BundleConsistent, B!StoppedRemembered
<1> QED BY <1>1, <1>2, <1>3, <1>4 DEF B!Next, JobOfBackup

(* Whatever stops, fails or is killed in a backup, for every number of documents and of     *)
(* jobs: a bundle that is finished in quiet is one state of the system, a check's verdict     *)
(* can be relied on, and the services that should run do again.                               *)
THEOREM BackupsAreWhole == ASSUME B!Settings PROVE B!Spec => []BackupsHold
<1>1. ASSUME B!Init PROVE B!IInv
  <2>1. job \in [JobOfBackup -> B!Bundle] /\ \A j \in JobOfBackup : job[j] = B!NoBundle
    BY <1>1, NoBundleRests DEF B!Init, JobOfBackup
  <2>2. B!TypeOK
    BY <1>1, <2>1 DEF B!Init, B!TypeOK, JobOfBackup
  <2>3. B!VerdictsRight /\ B!Exclusive /\ B!BundlesConsistent /\ B!StoppedRemembered /\ B!ServicesComeBack
    BY <1>1, <2>1, NoBundleRests DEF B!Init, B!VerdictsRight, B!Exclusive, B!BundlesConsistent, B!BundleConsistent, B!Checked,
       B!StoppedRemembered, B!ServicesComeBack, JobOfBackup, B!Settings
  <2> QED BY <2>2, <2>3 DEF B!IInv
<1>2. B!IInv /\ [B!Next]_(B!vars) => B!IInv'
  BY BackupStep
<1>3. B!IInv => BackupsHold
  BY DEF B!IInv, BackupsHold, B!BundlesWhole, B!BundlesConsistent, B!BundleConsistent, B!At
<1> QED BY <1>1, <1>2, <1>3, PTL DEF B!Spec

-----------------------------------------------------------------------------
(* Access: who is served a file, and what changes a collection's documents. *)

(* Where the parts of the invariant look, they see the same. *)
LEMMA AccessTyped ==
  ASSUME A!Settings, A!TypeOK
  PROVE  /\ coll \in [Collection -> A!CollRow \cup {Null}] /\ doc \in [Doc -> A!Row \cup {Null}] /\ source \in [Collection -> Nat]
         /\ live \subseteq Actor /\ verified \subseteq Actor
         /\ req \in [Call -> A!Reading \cup A!Writing \cup A!Served \cup {Null}]
         /\ Null \notin A!CollRow /\ Null \notin File /\ Null \notin A!Row
         /\ Null \notin A!Reading /\ Null \notin A!Writing /\ Null \notin A!Served
BY DEF A!Settings, A!TypeOK

(* The instance's own sizes of sets are sizes of sets. *)
LEMMA SizesAgree == ASSUME NEW S PROVE (A!IsFiniteSet(S) <=> IsFiniteSet(S)) /\ A!Cardinality(S) = Cardinality(S)
BY DEF A!IsFiniteSet, IsFiniteSet, A!Cardinality, Cardinality

(* Requests that connect a source to c, each after it has counted the sources. *)
LEMMA ConnectingCounted ==
  ASSUME A!Settings, NEW c \in Collection
  PROVE  /\ IsFiniteSet(A!Connecting(c)) /\ Cardinality(A!Connecting(c)) \in Nat
         /\ Cardinality(A!Connecting(c)) <= Cardinality(Call) /\ Cardinality(Call) \in Nat
<1>1. A!Connecting(c) \subseteq Call /\ IsFiniteSet(Call)
  BY SizesAgree DEF A!Connecting, A!Settings
<1> QED BY <1>1, FS_Subset, FS_CardinalityType

(* Fewer requests that connect sources, and no source more: the bound stays. *)
LEMMA SourcesStay ==
  ASSUME A!Settings, A!TypeOK, A!SourcesBounded, source' \in [Collection -> Nat],
         \A c \in Collection : source'[c] <= source[c] /\ A!Connecting(c)' \subseteq A!Connecting(c)
  PROVE  A!SourcesBounded'
<1>1. SUFFICES ASSUME NEW c \in Collection
               PROVE  source'[c] + Cardinality(A!Connecting(c)') <= MaxSources - 1 + Cardinality(Call)
  BY SizesAgree DEF A!SourcesBounded
<1>2. source[c] + Cardinality(A!Connecting(c)) <= MaxSources - 1 + Cardinality(Call)
  BY SizesAgree DEF A!SourcesBounded
<1>3. IsFiniteSet(A!Connecting(c)) /\ Cardinality(A!Connecting(c)) \in Nat /\ Cardinality(Call) \in Nat
  BY ConnectingCounted
<1>4. Cardinality(A!Connecting(c)') \in Nat /\ Cardinality(A!Connecting(c)') <= Cardinality(A!Connecting(c))
  BY <1>3, FS_Subset, FS_CardinalityType
<1>5. source[c] \in Nat /\ source'[c] \in Nat /\ MaxSources \in Nat
  BY AccessTyped DEF A!Settings
<1> QED BY <1>2, <1>3, <1>4, <1>5

LEMMA AccessInit == ASSUME A!Settings, A!Init PROVE A!IInv
<1>1. coll \in [Collection -> A!CollRow \cup {Null}]
  <2>1. [public |-> FALSE, readOnly |-> FALSE] \in A!CollRow
    BY DEF A!CollRow
  <2> QED BY <2>1 DEF A!Init
<1>2. A!TypeOK
  BY <1>1 DEF A!Init, A!TypeOK
<1>3. A!ReadyIsCurrent /\ \A r \in Call : A!ReadingConsistent(r)
  BY DEF A!Init, A!ReadyIsCurrent, A!ReadingConsistent, A!Held
<1>4. A!PublicIsReadOnly
  BY DEF A!Init, A!PublicIsReadOnly, A!Exists
<1>5. A!SourcesBounded
  <2>1. SUFFICES ASSUME NEW c \in Collection
                 PROVE  source[c] + Cardinality(A!Connecting(c)) <= MaxSources - 1 + Cardinality(Call)
    BY SizesAgree DEF A!SourcesBounded
  <2>2. A!Connecting(c) = {} /\ source[c] = 0
    BY DEF A!Init, A!Connecting
  <2>3. Cardinality(A!Connecting(c)) = 0 /\ Cardinality(Call) \in Nat
    BY <2>2, FS_EmptySet, FS_CardinalityType, SizesAgree DEF A!Settings
  <2> QED BY <2>2, <2>3 DEF A!Settings
<1> QED BY <1>2, <1>3, <1>4, <1>5 DEF A!IInv

(* What a step does to who reads and what there is: a file goes only to whoever may read all of *)
(* it, and a read-only collection without a source keeps its documents, but for a reset.        *)
AccessMove ==
  /\ \A r \in Call :
       req[r] # Null /\ req[r].op = "file" /\ req'[r] # Null /\ req'[r].op = "served" =>
         req'[r].role = A!Owner \/ Labels[req'[r].file] \subseteq Sees[req'[r].role]
  /\ \A c \in Collection :
       A!Exists(c) /\ coll[c].readOnly /\ source[c] = 0 /\ A!Members(c)' # A!Members(c) =>
         ~coll[c].public /\ A!WipeCollection(c)

(* A step of one request that changes only the request. *)
LEMMA CallKeeps ==
  ASSUME A!Settings, A!IInv, UNCHANGED <<coll, doc, source, live, verified>>, NEW r \in Call,
         NEW x \in A!Reading \cup A!Writing \cup A!Served \cup {Null}, req' = [req EXCEPT ![r] = x],
         A!ReadingConsistent(r)',
         x # Null /\ x.op = "source" => source[x.coll] < MaxSources,
         req[r] # Null /\ req[r].op = "file" /\ x # Null /\ x.op = "served" =>
           x.role = A!Owner \/ Labels[x.file] \subseteq Sees[x.role]
  PROVE  A!IInv' /\ AccessMove
<1>1. req \in [Call -> A!Reading \cup A!Writing \cup A!Served \cup {Null}] /\ req'[r] = x
      /\ \A s \in Call : s # r => req'[s] = req[s]
  BY AccessTyped DEF A!IInv
<1>2. A!TypeOK' /\ A!ReadyIsCurrent' /\ A!PublicIsReadOnly'
  BY <1>1 DEF A!IInv, A!TypeOK, A!ReadyIsCurrent, A!PublicIsReadOnly, A!Held, A!Exists
<1>3. A!SourcesBounded'
  <2>1. SUFFICES ASSUME NEW c \in Collection
                 PROVE  source[c] + Cardinality(A!Connecting(c)') <= MaxSources - 1 + Cardinality(Call)
    BY SizesAgree DEF A!SourcesBounded
  <2>2. IsFiniteSet(Call) /\ source[c] \in Nat /\ MaxSources \in Nat
    <3>1. A!TypeOK
      BY DEF A!IInv
    <3> QED BY <3>1, AccessTyped, SizesAgree DEF A!Settings
  <2>3. A!Connecting(c)' \subseteq Call
    BY DEF A!Connecting
  <2>4. Cardinality(A!Connecting(c)') \in Nat /\ Cardinality(Call) \in Nat /\ Cardinality(A!Connecting(c)') <= Cardinality(Call)
    BY <2>2, <2>3, FS_Subset, FS_CardinalityType
  <2>5. CASE source[c] < MaxSources
    BY <2>2, <2>4, <2>5
  <2>6. CASE ~(source[c] < MaxSources)
    <3>1. A!Connecting(c)' \subseteq A!Connecting(c)
      BY <1>1, <2>6 DEF A!Connecting
    <3>2. IsFiniteSet(A!Connecting(c)) /\ Cardinality(A!Connecting(c)) \in Nat
      BY ConnectingCounted
    <3>3. Cardinality(A!Connecting(c)') <= Cardinality(A!Connecting(c))
      BY <3>1, <3>2, FS_Subset
    <3>4. source[c] + Cardinality(A!Connecting(c)) <= MaxSources - 1 + Cardinality(Call)
      BY SizesAgree DEF A!IInv, A!SourcesBounded
    <3> QED BY <2>2, <2>4, <3>2, <3>3, <3>4
  <2> QED BY <2>5, <2>6
<1>4. ASSUME NEW s \in Call PROVE A!ReadingConsistent(s)'
  <2>1. CASE s = r
    BY <2>1
  <2>2. CASE s # r
    BY <1>1, <2>2 DEF A!IInv, A!ReadingConsistent
  <2> QED BY <2>1, <2>2
<1>5. AccessMove
  BY <1>1 DEF AccessMove, A!Members, A!Held
<1> QED BY <1>2, <1>3, <1>4, <1>5 DEF A!IInv

LEMMA LoadKeeps ==
  ASSUME A!Settings, A!IInv, NEW r \in Call, NEW op \in {"file", "passages"}, NEW a \in Actor, NEW d \in Doc,
         NEW role \in Role, A!Load(r, op, a, d, role)
  PROVE  A!IInv' /\ AccessMove
<1> DEFINE new == [op |-> op, at |-> "loaded", actor |-> a, doc |-> d, row |-> doc[d], role |-> role, labels |-> {}]
<1>1. req[r] = Null /\ doc[d] # Null /\ req' = [req EXCEPT ![r] = new] /\ UNCHANGED <<coll, doc, source, live, verified>>
  BY DEF A!Load, A!Held, A!Put
<1>2. doc[d] \in A!Row /\ req'[r] = new
  BY <1>1, AccessTyped DEF A!IInv
<1>3. new \in A!Reading /\ new.op # "source" /\ new.op # "served" /\ new.doc = d /\ new.row = doc[d] /\ new.at = "loaded"
      /\ new.role \in Role
  BY <1>2 DEF A!Reading
<1> HIDE DEF new
<1>4. A!ReadingConsistent(r)'
  BY <1>1, <1>2, <1>3 DEF A!ReadingConsistent
<1> QED BY <1>1, <1>3, <1>4, CallKeeps

(* A request that reads is one. *)
LEMMA ReadingOpen ==
  ASSUME A!Settings, A!IInv, NEW r \in Call, req[r] # Null, req[r].op \in {"file", "passages"}
  PROVE  req[r] \in A!Reading
BY AccessTyped DEF A!IInv, A!Writing, A!Served

(* A request ends. *)
LEMMA LeaveKeeps ==
  ASSUME A!Settings, A!IInv, NEW r \in Call, req' = [req EXCEPT ![r] = Null], UNCHANGED <<coll, doc, source, live, verified>>
  PROVE  A!IInv' /\ AccessMove
<1>1. req'[r] = Null
  BY AccessTyped DEF A!IInv
<1>2. A!ReadingConsistent(r)'
  BY <1>1 DEF A!ReadingConsistent
<1> QED BY <1>1, <1>2, CallKeeps

LEMMA DecideKeeps ==
  ASSUME A!Settings, A!IInv, NEW r \in Call, A!Decide(r)
  PROVE  A!IInv' /\ AccessMove
<1> DEFINE c == req[r].row.coll
           a == req[r].actor
           role == IF A!IsOwner(a, c) THEN A!Owner ELSE req[r].role
           new == [req[r] EXCEPT !.at = "decided", !.role = role, !.labels = A!PrincipalLabels(a, c, req[r].role)]
<1>1. /\ req[r] # Null /\ req[r].op \in {"file", "passages"} /\ req[r].at = "loaded"
      /\ UNCHANGED <<coll, doc, source, live, verified>>
      /\ IF A!InScope(a, c) /\ (role = A!Owner \/ req[r].row.status = "ready")
         THEN req' = [req EXCEPT ![r] = new] ELSE req' = [req EXCEPT ![r] = Null]
  BY DEF A!Decide, A!Put
<1>2. req[r] \in A!Reading
  BY <1>1, ReadingOpen
<1>3. CASE ~(A!InScope(a, c) /\ (role = A!Owner \/ req[r].row.status = "ready"))
  BY <1>1, <1>3, LeaveKeeps
<1>4. CASE A!InScope(a, c) /\ (role = A!Owner \/ req[r].row.status = "ready")
  <2>1. A!ReadingConsistent(r) /\ req[r].role \in Role /\ req[r].labels \in SUBSET A!Label
    BY <1>1, <1>2 DEF A!IInv, A!ReadingConsistent, A!Reading
  <2>2. A!PrincipalLabels(a, c, req[r].role) \subseteq A!Label
    <3>1. ASSUME NEW d \in Doc PROVE A!ChunkLabels(d) \subseteq A!Label
      <4>1. doc[d] # Null => doc[d] \in A!Row
        BY AccessTyped DEF A!IInv
      <4>2. doc[d] # Null /\ doc[d].chunks # Null => doc[d].chunks \in File
        BY <4>1 DEF A!Row
      <4> QED BY <4>2 DEF A!ChunkLabels, A!Held, A!Label
    <3>2. A!AllLabels \subseteq A!Label
      BY DEF A!AllLabels, A!Label
    <3>3. Sees[req[r].role] \subseteq A!Label
      BY <2>1 DEF A!Label
    <3>4. UNION {A!ChunkLabels(d) : d \in A!Members(c)} \subseteq A!Label
      BY <3>1 DEF A!Members
    <3> QED BY <3>2, <3>3, <3>4 DEF A!PrincipalLabels
  <2>3. new \in A!Reading
    BY <1>2, <2>1, <2>2 DEF A!Reading
  <2>4. /\ new.op = req[r].op /\ new.at = "decided" /\ new.doc = req[r].doc /\ new.row = req[r].row
        /\ new.role = role /\ new.labels = A!PrincipalLabels(a, c, req[r].role)
    BY <1>2 DEF A!Reading
  <2>5. role # A!Owner => new.row.status = "ready" /\ new.labels = Sees[role]
    BY <1>4, <2>4 DEF A!PrincipalLabels
  <2> HIDE DEF new, role
  <2>6. req' = [req EXCEPT ![r] = new] /\ req'[r] = new
    <3>1. req' = [req EXCEPT ![r] = new]
      BY <1>1, <1>4
    <3> QED BY <3>1, AccessTyped DEF A!IInv
  <2>7. A!ReadingConsistent(r)'
    BY <1>1, <2>1, <2>4, <2>5, <2>6 DEF A!ReadingConsistent
  <2> QED BY <1>1, <2>3, <2>4, <2>6, <2>7, CallKeeps
<1> QED BY <1>3, <1>4

(* The file that goes out is the one whose sections were looked at. *)
LEMMA ServeFileKeeps ==
  ASSUME A!Settings, A!IInv, NEW r \in Call, A!ServeFile(r)
  PROVE  A!IInv' /\ AccessMove
<1> DEFINE new == [op |-> "served", file |-> req[r].row.file, role |-> req[r].role, labels |-> {}]
<1>1. /\ req[r] # Null /\ req[r].op = "file" /\ req[r].at = "decided" /\ UNCHANGED <<coll, doc, source, live, verified>>
      /\ IF A!ChunkLabels(req[r].doc) \subseteq req[r].labels
         THEN req' = [req EXCEPT ![r] = new] ELSE req' = [req EXCEPT ![r] = Null]
  BY DEF A!ServeFile, A!Put
<1>2. req[r] \in A!Reading /\ A!ReadingConsistent(r)
  BY <1>1, ReadingOpen DEF A!IInv
<1>3. CASE ~(A!ChunkLabels(req[r].doc) \subseteq req[r].labels)
  BY <1>1, <1>3, LeaveKeeps
<1>4. CASE A!ChunkLabels(req[r].doc) \subseteq req[r].labels
  <2>1. req[r].row \in A!Row /\ req[r].row.file \in File /\ req[r].doc \in Doc /\ req[r].role \in Role \cup {A!Owner}
    BY <1>2 DEF A!Reading, A!Row
  <2>2. new \in A!Served /\ new.op = "served" /\ new.file = req[r].row.file /\ new.role = req[r].role
    BY <2>1 DEF A!Served
  <2>3. ASSUME req[r].role # A!Owner PROVE Labels[req[r].row.file] \subseteq Sees[req[r].role]
    <3>1. /\ doc[req[r].doc] = req[r].row /\ req[r].row.status = "ready" /\ req[r].row # Null
          /\ req[r].labels \subseteq Sees[req[r].role]
      BY <1>1, <1>2, <2>1, <2>3, AccessTyped DEF A!ReadingConsistent, A!IInv
    <3>2. req[r].row.chunks = req[r].row.file /\ req[r].row.file # Null
      BY <2>1, <3>1, AccessTyped DEF A!IInv, A!ReadyIsCurrent, A!Held
    <3>3. A!ChunkLabels(req[r].doc) = Labels[req[r].row.file]
      BY <3>1, <3>2 DEF A!ChunkLabels, A!Held
    <3> QED BY <1>4, <3>1, <3>3
  <2> HIDE DEF new
  <2>4. req' = [req EXCEPT ![r] = new] /\ req'[r] = new
    <3>1. req' = [req EXCEPT ![r] = new]
      BY <1>1, <1>4
    <3> QED BY <3>1, AccessTyped DEF A!IInv
  <2>5. A!ReadingConsistent(r)'
    BY <2>2, <2>4 DEF A!ReadingConsistent
  <2> QED BY <1>1, <2>2, <2>3, <2>4, <2>5, CallKeeps
<1> QED BY <1>3, <1>4

LEMMA ServePassagesKeeps ==
  ASSUME A!Settings, A!IInv, NEW r \in Call, A!ServePassages(r)
  PROVE  A!IInv' /\ AccessMove
<1> DEFINE new == [op |-> "served", file |-> Null, role |-> req[r].role,
                   labels |-> A!ChunkLabels(req[r].doc) \cap req[r].labels]
<1>1. /\ req[r] # Null /\ req[r].op = "passages" /\ UNCHANGED <<coll, doc, source, live, verified>>
      /\ req' = [req EXCEPT ![r] = new]
  BY DEF A!ServePassages, A!Put
<1>2. req[r] \in A!Reading
  BY <1>1, ReadingOpen
<1>3. new \in A!Served /\ new.op = "served"
  <2>1. req[r].labels \subseteq A!Label /\ req[r].role \in Role \cup {A!Owner}
    BY <1>2 DEF A!Reading
  <2> QED BY <2>1 DEF A!Served
<1> HIDE DEF new
<1>4. req'[r] = new
  BY <1>1, AccessTyped DEF A!IInv
<1>5. A!ReadingConsistent(r)'
  BY <1>3, <1>4 DEF A!ReadingConsistent
<1> QED BY <1>1, <1>3, <1>5, CallKeeps

(* A write is taken on. *)
LEMMA WriteBegins ==
  ASSUME A!Settings, A!IInv, NEW r \in Call, NEW op \in {"upload", "delete", "retry", "source", "disconnect"},
         NEW a \in Actor, NEW c \in Collection, A!BeginWrite(r, op, a, c) \/ A!BeginLocked(r, op, a, c)
  PROVE  A!IInv' /\ AccessMove
<1> DEFINE new == [op |-> op, actor |-> a, verified |-> a \in verified, coll |-> c]
<1>1. /\ req[r] = Null /\ (op = "source" => source[c] < MaxSources) /\ req' = [req EXCEPT ![r] = new]
      /\ UNCHANGED <<coll, doc, source, live, verified>>
  BY DEF A!BeginWrite, A!BeginLocked, A!Put
<1>2. new \in A!Writing /\ new.op = op /\ new.coll = c
  BY DEF A!Writing
<1> HIDE DEF new
<1>3. req'[r] = new
  BY <1>1, AccessTyped DEF A!IInv
<1>4. A!ReadingConsistent(r)'
  BY <1>2, <1>3 DEF A!ReadingConsistent
<1> QED BY <1>1, <1>2, <1>4, CallKeeps

(* Documents change, other than those whose row is held, and requests end. *)
LEMMA DocsKeep ==
  ASSUME A!Settings, A!IInv, UNCHANGED <<coll, source, live, verified>>,
         doc' \in [Doc -> A!Row \cup {Null}], A!ReadyIsCurrent',
         req' \in [Call -> A!Reading \cup A!Writing \cup A!Served \cup {Null}],
         \A r \in Call : req'[r] = req[r] \/ req'[r] = Null,
         \A d \in Doc : ~A!RowFree(d) => doc'[d] = doc[d],
         \A c \in Collection :
           A!Exists(c) /\ coll[c].readOnly /\ source[c] = 0 /\ A!Members(c)' # A!Members(c) =>
             ~coll[c].public /\ A!WipeCollection(c)
  PROVE  A!IInv' /\ AccessMove
<1>1. A!TypeOK' /\ A!PublicIsReadOnly'
  BY DEF A!IInv, A!TypeOK, A!PublicIsReadOnly, A!Exists
<1>2. A!SourcesBounded'
  <2>1. source' \in [Collection -> Nat] /\ \A c \in Collection : source'[c] = source[c] /\ source[c] \in Nat
    BY AccessTyped DEF A!IInv
  <2>2. \A c \in Collection : A!Connecting(c)' \subseteq A!Connecting(c)
    BY DEF A!Connecting
  <2> QED BY <2>1, <2>2, SourcesStay DEF A!IInv
<1>3. ASSUME NEW r \in Call PROVE A!ReadingConsistent(r)'
  <2>1. CASE req'[r] = Null
    BY <2>1 DEF A!ReadingConsistent
  <2>2. CASE req'[r] = req[r] /\ req[r] # Null
    <3>1. req[r].op \in {"file", "passages"} => req[r] \in A!Reading
      BY <2>2, ReadingOpen
    <3>2. req[r].op = "file" => req[r].doc \in Doc /\ ~A!RowFree(req[r].doc)
      BY <2>2, <3>1 DEF A!Reading, A!RowFree
    <3>3. req[r].op = "file" => doc'[req[r].doc] = doc[req[r].doc]
      BY <3>2
    <3> QED BY <2>2, <3>3 DEF A!IInv, A!ReadingConsistent
  <2> QED BY <2>1, <2>2
<1>4. ASSUME NEW r \in Call, req[r] # Null, req'[r] # Null, req[r].op = "file" PROVE req'[r].op # "served"
  BY <1>4
<1> QED BY <1>1, <1>2, <1>3, <1>4 DEF A!IInv, AccessMove

(* One document changes. *)
LEMMA RowKeeps ==
  ASSUME A!Settings, A!IInv, UNCHANGED <<coll, source, live, verified>>,
         NEW d \in Doc, NEW x \in A!Row \cup {Null}, doc' = [doc EXCEPT ![d] = x], doc[d] = Null \/ A!RowFree(d),
         x # Null /\ x.status = "ready" => x.chunks = x.file,
         req' \in [Call -> A!Reading \cup A!Writing \cup A!Served \cup {Null}],
         \A r \in Call : req'[r] = req[r] \/ req'[r] = Null,
         \A c \in Collection :
           A!Exists(c) /\ coll[c].readOnly /\ source[c] = 0 =>
             (doc[d] # Null /\ doc[d].coll = c <=> x # Null /\ x.coll = c)
  PROVE  A!IInv' /\ AccessMove
<1>1. doc \in [Doc -> A!Row \cup {Null}]
  BY AccessTyped DEF A!IInv
<1>2. doc'[d] = x /\ \A e \in Doc : e # d => doc'[e] = doc[e]
  BY <1>1
<1>3. doc' \in [Doc -> A!Row \cup {Null}] /\ A!ReadyIsCurrent'
  BY <1>1, <1>2 DEF A!IInv, A!ReadyIsCurrent, A!Held
<1>4. ASSUME NEW e \in Doc, ~A!RowFree(e) PROVE doc'[e] = doc[e]
  <2>1. PICK r \in Call : req[r] # Null /\ req[r].op = "file" /\ req[r].doc = e
    BY <1>4 DEF A!RowFree
  <2>2. req[r] \in A!Reading /\ doc[e] = req[r].row
    BY <2>1, ReadingOpen DEF A!IInv, A!ReadingConsistent
  <2>3. req[r].row \in A!Row /\ doc[e] # Null
    BY <2>2, AccessTyped DEF A!IInv, A!Reading
  <2> QED BY <1>2, <1>4, <2>3
<1>5. ASSUME NEW c \in Collection, A!Exists(c), coll[c].readOnly, source[c] = 0 PROVE A!Members(c)' = A!Members(c)
  BY <1>2, <1>5 DEF A!Members, A!Held
<1> QED BY <1>3, <1>4, <1>5, DocsKeep

(* A request that writes ends with its change. *)
LEMMA WrittenEnds ==
  ASSUME A!Settings, A!IInv, NEW r \in Call, req' = [req EXCEPT ![r] = Null]
  PROVE  /\ req' \in [Call -> A!Reading \cup A!Writing \cup A!Served \cup {Null}]
         /\ req'[r] = Null /\ \A s \in Call : s # r => req'[s] = req[s]
BY AccessTyped DEF A!IInv

LEMMA WritingOpen ==
  ASSUME A!Settings, A!IInv, NEW r \in Call, req[r] # Null,
         req[r].op \in {"upload", "delete", "retry", "source", "disconnect"}
  PROVE  req[r] \in A!Writing /\ req[r].coll \in Collection
<1>1. req[r] \in A!Writing
  BY AccessTyped DEF A!IInv, A!Reading, A!Served
<1> QED BY <1>1 DEF A!Writing

LEMMA UploadKeeps ==
  ASSUME A!Settings, A!IInv, NEW r \in Call, NEW d \in Doc, NEW f \in File, A!SaveUpload(r, d, f)
  PROVE  A!IInv' /\ AccessMove
<1> DEFINE x == [coll |-> req[r].coll, file |-> f, status |-> "pending", chunks |-> Null]
<1>1. /\ req[r] # Null /\ req[r].op = "upload" /\ doc[d] = Null /\ ~coll[req[r].coll].readOnly
      /\ doc' = [doc EXCEPT ![d] = x] /\ req' = [req EXCEPT ![r] = Null] /\ UNCHANGED <<coll, source, live, verified>>
  BY DEF A!SaveUpload, A!Held, A!Put
<1>2. req[r].coll \in Collection
  BY <1>1, WritingOpen
<1>3. x \in A!Row /\ x.status # "ready" /\ x.coll = req[r].coll
  BY <1>2 DEF A!Row, A!Status
<1> HIDE DEF x
<1>4. /\ req' \in [Call -> A!Reading \cup A!Writing \cup A!Served \cup {Null}]
      /\ \A s \in Call : req'[s] = req[s] \/ req'[s] = Null
  BY <1>1, WrittenEnds
<1>5. ASSUME NEW c \in Collection, A!Exists(c), coll[c].readOnly, source[c] = 0
      PROVE  (doc[d] # Null /\ doc[d].coll = c) <=> (x # Null /\ x.coll = c)
  BY <1>1, <1>3, <1>5
<1>6. /\ x \in A!Row \cup {Null}
      /\ doc[d] = Null \/ A!RowFree(d)
      /\ x # Null /\ x.status = "ready" => x.chunks = x.file
  BY <1>1, <1>3
<1>7. /\ req' \in [Call -> A!Reading \cup A!Writing \cup A!Served \cup {Null}]
      /\ \A s \in Call : req'[s] = req[s] \/ req'[s] = Null
  BY <1>4
<1>8. doc' = [doc EXCEPT ![d] = x] /\ UNCHANGED <<coll, source, live, verified>>
  BY <1>1
<1>9. \A c \in Collection :
        A!Exists(c) /\ coll[c].readOnly /\ source[c] = 0 =>
          (doc[d] # Null /\ doc[d].coll = c <=> x # Null /\ x.coll = c)
  BY <1>5
<1> QED BY <1>6, <1>7, <1>8, <1>9, RowKeeps

LEMMA DeleteKeeps ==
  ASSUME A!Settings, A!IInv, NEW r \in Call, NEW d \in Doc, A!DeleteDocument(r, d)
  PROVE  A!IInv' /\ AccessMove
<1>1. /\ doc[d] # Null /\ doc[d].coll = req[r].coll /\ A!RowFree(d) /\ ~coll[req[r].coll].readOnly
      /\ doc' = [doc EXCEPT ![d] = Null] /\ req' = [req EXCEPT ![r] = Null] /\ UNCHANGED <<coll, source, live, verified>>
  BY DEF A!DeleteDocument, A!MayChange, A!MayWrite, A!Held, A!Put
<1>2. /\ req' \in [Call -> A!Reading \cup A!Writing \cup A!Served \cup {Null}]
      /\ \A s \in Call : req'[s] = req[s] \/ req'[s] = Null
  BY <1>1, WrittenEnds
<1> QED BY <1>1, <1>2, RowKeeps

LEMMA RetryKeeps ==
  ASSUME A!Settings, A!IInv, NEW r \in Call, NEW d \in Doc, A!RetryDocument(r, d)
  PROVE  A!IInv' /\ AccessMove
<1> DEFINE x == [doc[d] EXCEPT !.status = "pending"]
<1>1. /\ doc[d] # Null /\ A!RowFree(d)
      /\ doc' = [doc EXCEPT ![d].status = "pending"] /\ req' = [req EXCEPT ![r] = Null] /\ UNCHANGED <<coll, source, live, verified>>
  BY DEF A!RetryDocument, A!MayChange, A!Held, A!Put
<1>2. doc[d] \in A!Row /\ doc' = [doc EXCEPT ![d] = x]
  BY <1>1, AccessTyped DEF A!IInv
<1>3. x \in A!Row /\ x.status # "ready" /\ x.coll = doc[d].coll /\ x # Null
  <2>1. x \in A!Row /\ x.status # "ready" /\ x.coll = doc[d].coll
    BY <1>2 DEF A!Row, A!Status
  <2> QED BY <2>1, AccessTyped DEF A!IInv
<1> HIDE DEF x
<1>4. /\ req' \in [Call -> A!Reading \cup A!Writing \cup A!Served \cup {Null}]
      /\ \A s \in Call : req'[s] = req[s] \/ req'[s] = Null
  BY <1>1, WrittenEnds
<1>5. ASSUME NEW c \in Collection PROVE (doc[d] # Null /\ doc[d].coll = c) <=> (x # Null /\ x.coll = c)
  BY <1>1, <1>3
<1>6. doc' = [doc EXCEPT ![d] = x] /\ A!RowFree(d) /\ UNCHANGED <<coll, source, live, verified>>
  BY <1>1, <1>2
<1> QED BY <1>3, <1>4, <1>5, <1>6, RowKeeps

(* Ingestion and a source change one document, whose row nobody holds. *)
LEMMA IngestKeeps ==
  ASSUME A!Settings, A!IInv, NEW d \in Doc, A!Ingest(d) \/ A!Reprocess(d)
  PROVE  A!IInv' /\ AccessMove
<1>1. doc[d] # Null /\ A!RowFree(d) /\ UNCHANGED <<coll, source, live, verified, req>>
  BY DEF A!Ingest, A!Reprocess, A!Held
<1>2. doc[d] \in A!Row /\ req \in [Call -> A!Reading \cup A!Writing \cup A!Served \cup {Null}]
  BY <1>1, AccessTyped DEF A!IInv
<1>3. PICK s \in A!Status, k \in {doc[d].file, doc[d].chunks} :
        doc' = [doc EXCEPT ![d] = [doc[d] EXCEPT !.status = s, !.chunks = k]] /\ (s = "ready" => k = doc[d].file)
  <2>1. ASSUME doc' = [doc EXCEPT ![d].status = "ready", ![d].chunks = doc[d].file]
        PROVE  doc' = [doc EXCEPT ![d] = [doc[d] EXCEPT !.status = "ready", !.chunks = doc[d].file]]
    BY <1>2, <2>1, AccessTyped DEF A!IInv
  <2>2. ASSUME NEW s, doc' = [doc EXCEPT ![d].status = s]
        PROVE  doc' = [doc EXCEPT ![d] = [doc[d] EXCEPT !.status = s, !.chunks = doc[d].chunks]]
    <3>1. [doc[d] EXCEPT !.status = s, !.chunks = doc[d].chunks] = [doc[d] EXCEPT !.status = s]
      BY <1>2 DEF A!Row
    <3> QED BY <1>2, <2>2, <3>1, AccessTyped DEF A!IInv
  <2> QED BY <2>1, <2>2 DEF A!Ingest, A!Reprocess, A!Status
<1> DEFINE x == [doc[d] EXCEPT !.status = s, !.chunks = k]
<1>4. x \in A!Row /\ x.status = s /\ x.chunks = k /\ x.file = doc[d].file /\ x.coll = doc[d].coll /\ x # Null
  <2>1. x \in A!Row /\ x.status = s /\ x.chunks = k /\ x.file = doc[d].file /\ x.coll = doc[d].coll
    BY <1>2 DEF A!Row
  <2> QED BY <2>1, AccessTyped DEF A!IInv
<1>5. doc' = [doc EXCEPT ![d] = x] /\ \A r \in Call : req'[r] = req[r]
  BY <1>1, <1>3
<1> HIDE DEF x
<1>6. ASSUME NEW c \in Collection PROVE (doc[d] # Null /\ doc[d].coll = c) <=> (x # Null /\ x.coll = c)
  BY <1>1, <1>4
<1>7. (x.status = "ready" => x.chunks = x.file) /\ x \in A!Row /\ x # Null
  BY <1>3, <1>4
<1> QED BY <1>1, <1>2, <1>5, <1>6, <1>7, RowKeeps

LEMMA SynchroniseKeeps ==
  ASSUME A!Settings, A!IInv, NEW d \in Doc, NEW c \in Collection, NEW f \in File, A!Synchronise(d, c, f)
  PROVE  A!IInv' /\ AccessMove
<1>1. /\ source[c] > 0 /\ UNCHANGED <<coll, source, live, verified, req>>
      /\ source \in [Collection -> Nat] /\ doc \in [Doc -> A!Row \cup {Null}]
      /\ req \in [Call -> A!Reading \cup A!Writing \cup A!Served \cup {Null}] /\ Null \notin A!Row
  BY AccessTyped DEF A!Synchronise, A!IInv
<1>2. ASSUME NEW x \in A!Row \cup {Null}, doc' = [doc EXCEPT ![d] = x], x # Null => x.coll = c /\ x.status # "ready",
             doc[d] = Null \/ (doc[d].coll = c /\ A!RowFree(d))
      PROVE  A!IInv' /\ AccessMove
  <2>1. ASSUME NEW b \in Collection, source[b] = 0
        PROVE  (doc[d] # Null /\ doc[d].coll = b) <=> (x # Null /\ x.coll = b)
    BY <1>1, <1>2, <2>1
  <2> QED BY <1>1, <1>2, <2>1, RowKeeps
<1>3. CASE doc[d] = Null /\ doc' = [doc EXCEPT ![d] = [coll |-> c, file |-> f, status |-> "pending", chunks |-> Null]]
  <2> DEFINE x == [coll |-> c, file |-> f, status |-> "pending", chunks |-> Null]
  <2>1. x \in A!Row /\ x.coll = c /\ x.status # "ready"
    BY DEF A!Row, A!Status
  <2> HIDE DEF x
  <2>2. doc' = [doc EXCEPT ![d] = x]
    BY <1>3 DEF x
  <2> QED BY <1>2, <1>3, <2>1, <2>2
<1>4. CASE doc[d] # Null /\ doc[d].coll = c /\ A!RowFree(d) /\ doc' = [doc EXCEPT ![d].file = f, ![d].status = "pending"]
  <2> DEFINE x == [doc[d] EXCEPT !.file = f, !.status = "pending"]
  <2>1. doc[d] \in A!Row /\ doc' = [doc EXCEPT ![d] = x]
    BY <1>1, <1>4
  <2>2. x \in A!Row /\ x.coll = c /\ x.status # "ready"
    BY <1>4, <2>1 DEF A!Row, A!Status
  <2> HIDE DEF x
  <2> QED BY <1>2, <1>4, <2>1, <2>2
<1>5. CASE doc[d] # Null /\ doc[d].coll = c /\ A!RowFree(d) /\ doc' = [doc EXCEPT ![d] = Null]
  BY <1>2, <1>5
<1> QED BY <1>3, <1>4, <1>5 DEF A!Synchronise, A!Held

LEMMA WipeKeeps ==
  ASSUME A!Settings, A!IInv, NEW c \in Collection, A!WipeCollection(c)
  PROVE  A!IInv' /\ AccessMove
<1>1. /\ ~coll[c].public /\ (\A d \in A!Members(c) : A!RowFree(d))
      /\ doc' = [d \in Doc |-> IF d \in A!Members(c) THEN Null ELSE doc[d]] /\ UNCHANGED <<coll, source, live, verified, req>>
  BY DEF A!WipeCollection
<1>2. doc \in [Doc -> A!Row \cup {Null}] /\ req \in [Call -> A!Reading \cup A!Writing \cup A!Served \cup {Null}]
  BY AccessTyped DEF A!IInv
<1>3. doc' \in [Doc -> A!Row \cup {Null}] /\ A!ReadyIsCurrent'
  BY <1>1, <1>2 DEF A!IInv, A!ReadyIsCurrent, A!Held
<1>4. ASSUME NEW b \in Collection, A!Members(b)' # A!Members(b) PROVE b = c
  BY <1>1, <1>4 DEF A!Members, A!Held
<1>5. \A d \in Doc : ~A!RowFree(d) => doc'[d] = doc[d]
  BY <1>1
<1>6. \A r \in Call : req'[r] = req[r]
  BY <1>1
<1>7. \A b \in Collection : A!Members(b)' # A!Members(b) => ~coll[b].public /\ A!WipeCollection(b)
  BY <1>1, <1>4
<1> QED BY <1>1, <1>2, <1>3, <1>5, <1>6, <1>7, DocsKeep

(* A source is connected by one that was counted, or is disconnected. *)
LEMMA SourceKeeps ==
  ASSUME A!Settings, A!IInv, NEW r \in Call, A!CreateSource(r) \/ A!DeleteSource(r)
  PROVE  A!IInv' /\ AccessMove
<1> DEFINE c == req[r].coll
<1>1. /\ req[r] # Null /\ req[r].op \in {"source", "disconnect"} /\ req' = [req EXCEPT ![r] = Null]
      /\ UNCHANGED <<coll, doc, live, verified>>
  BY DEF A!CreateSource, A!DeleteSource, A!Put
<1>2. c \in Collection
  BY <1>1, WritingOpen
<1>3. /\ req' \in [Call -> A!Reading \cup A!Writing \cup A!Served \cup {Null}]
      /\ req'[r] = Null /\ \A s \in Call : s # r => req'[s] = req[s]
  BY <1>1, WrittenEnds
<1>4. source \in [Collection -> Nat]
  BY AccessTyped DEF A!IInv
<1>5. A!ReadyIsCurrent' /\ A!PublicIsReadOnly' /\ \A s \in Call : A!ReadingConsistent(s)'
  BY <1>1, <1>3 DEF A!IInv, A!ReadyIsCurrent, A!PublicIsReadOnly, A!ReadingConsistent, A!Held, A!Exists
<1>6. \A b \in Collection : A!Connecting(b)' \subseteq A!Connecting(b)
  BY <1>3 DEF A!Connecting
<1>7. source' \in [Collection -> Nat] /\ A!SourcesBounded'
  <2>1. CASE A!DeleteSource(r)
    <3>1. source[c] > 0 /\ source' = [source EXCEPT ![c] = @ - 1]
      BY <2>1 DEF A!DeleteSource
    <3>2. source' \in [Collection -> Nat] /\ \A b \in Collection : source'[b] <= source[b]
      BY <1>2, <1>4, <3>1
    <3> QED BY <1>6, <3>2, SourcesStay DEF A!IInv
  <2>2. CASE A!CreateSource(r)
    <3>1. req[r].op = "source" /\ source' = [source EXCEPT ![c] = @ + 1]
      BY <2>2 DEF A!CreateSource
    <3>2. source' \in [Collection -> Nat] /\ source'[c] = source[c] + 1 /\ \A b \in Collection : b # c => source'[b] = source[b]
      BY <1>2, <1>4, <3>1
    <3>3. SUFFICES ASSUME NEW b \in Collection
                   PROVE  source'[b] + Cardinality(A!Connecting(b)') <= MaxSources - 1 + Cardinality(Call)
      BY <3>2, SizesAgree DEF A!SourcesBounded
    <3>4. source[b] + Cardinality(A!Connecting(b)) <= MaxSources - 1 + Cardinality(Call)
      BY SizesAgree DEF A!IInv, A!SourcesBounded
    <3>5. IsFiniteSet(A!Connecting(b)) /\ Cardinality(A!Connecting(b)) \in Nat /\ Cardinality(Call) \in Nat
      BY ConnectingCounted
    <3>6. CASE b # c
      <4>1. Cardinality(A!Connecting(b)') \in Nat /\ Cardinality(A!Connecting(b)') <= Cardinality(A!Connecting(b))
        BY <1>6, <3>5, FS_Subset, FS_CardinalityType
      <4>2. source'[b] = source[b] /\ source[b] \in Nat /\ MaxSources \in Nat
        BY <1>4, <3>2, <3>6 DEF A!Settings
      <4> QED BY <3>4, <3>5, <4>1, <4>2
    <3>7. CASE b = c
      <4>1. r \in A!Connecting(b) /\ A!Connecting(b)' = A!Connecting(b) \ {r}
        BY <1>1, <1>3, <3>1, <3>7 DEF A!Connecting
      <4>2. Cardinality(A!Connecting(b)') = Cardinality(A!Connecting(b)) - 1
        BY <3>5, <4>1, FS_RemoveElement
      <4>3. source'[b] = source[b] + 1 /\ source[b] \in Nat /\ MaxSources \in Nat
        BY <1>4, <3>2, <3>7 DEF A!Settings
      <4> QED BY <3>4, <3>5, <4>2, <4>3
    <3> QED BY <3>6, <3>7
  <2> QED BY <2>1, <2>2
<1>8. A!TypeOK'
  BY <1>1, <1>3, <1>7 DEF A!IInv, A!TypeOK
<1>9. AccessMove
  <2>1. \A s \in Call : req[s] # Null /\ req[s].op = "file" /\ req'[s] # Null => req'[s].op = "file"
    BY <1>3
  <2>2. \A b \in Collection : A!Members(b)' = A!Members(b)
    BY <1>1 DEF A!Members, A!Held
  <2> QED BY <2>1, <2>2 DEF AccessMove
<1> QED BY <1>5, <1>7, <1>8, <1>9 DEF A!IInv

(* Collections, keys and accounts change, which are no part of what a request holds. *)
LEMMA OthersKeep ==
  ASSUME A!Settings, A!IInv, UNCHANGED <<doc, source, req>>, coll' \in [Collection -> A!CollRow \cup {Null}],
         A!PublicIsReadOnly', live' \subseteq Actor, verified' \subseteq Actor
  PROVE  A!IInv' /\ AccessMove
<1>1. A!TypeOK' /\ A!ReadyIsCurrent' /\ \A r \in Call : A!ReadingConsistent(r)'
  BY DEF A!IInv, A!TypeOK, A!ReadyIsCurrent, A!ReadingConsistent, A!Held
<1>2. A!SourcesBounded'
  <2>1. source' \in [Collection -> Nat] /\ \A c \in Collection : source'[c] = source[c] /\ source[c] \in Nat
    BY AccessTyped DEF A!IInv
  <2>2. \A c \in Collection : A!Connecting(c)' \subseteq A!Connecting(c)
    BY DEF A!Connecting
  <2> QED BY <2>1, <2>2, SourcesStay DEF A!IInv
<1>3. AccessMove
  <2>1. \A b \in Collection : A!Members(b)' = A!Members(b)
    BY DEF A!Members, A!Held
  <2>2. \A s \in Call : req'[s] = req[s]
    OBVIOUS
  <2> QED BY <2>1, <2>2 DEF AccessMove
<1> QED BY <1>1, <1>2, <1>3 DEF A!IInv

LEMMA CollectionKeeps ==
  ASSUME A!Settings, A!IInv, NEW c \in Collection,
         \/ \E a \in Actor : A!CreateCollection(a, c)
         \/ A!Publish(c) \/ A!Withdraw(c)
         \/ \E writable \in BOOLEAN : A!MarkReadOnly(c, writable)
  PROVE  A!IInv' /\ AccessMove
<1>1. coll \in [Collection -> A!CollRow \cup {Null}] /\ live \subseteq Actor /\ verified \subseteq Actor
  BY AccessTyped DEF A!IInv
<1>2. /\ UNCHANGED <<doc, source, req, live, verified>>
      /\ \E x \in A!CollRow : coll' = [coll EXCEPT ![c] = x] /\ (x.public => x.readOnly)
  <2>1. ASSUME NEW writable \in BOOLEAN, A!MarkReadOnly(c, writable)
        PROVE  \E x \in A!CollRow : coll' = [coll EXCEPT ![c] = x] /\ (x.public => x.readOnly)
    <3>1. coll[c] \in A!CollRow /\ coll' = [coll EXCEPT ![c].readOnly = ~writable] /\ (writable => ~coll[c].public)
      BY <1>1, <2>1 DEF A!MarkReadOnly, A!Exists
    <3> DEFINE x == [coll[c] EXCEPT !.readOnly = ~writable]
    <3>2. x \in A!CollRow /\ x.public = coll[c].public /\ x.readOnly = ~writable /\ coll' = [coll EXCEPT ![c] = x]
      BY <1>1, <3>1 DEF A!CollRow
    <3> QED BY <3>1, <3>2
  <2>2. \A p, o \in BOOLEAN : [public |-> p, readOnly |-> o] \in A!CollRow
    BY DEF A!CollRow
  <2>3. ASSUME A!Publish(c) \/ A!Withdraw(c) \/ \E a \in Actor : A!CreateCollection(a, c)
        PROVE  \E x \in A!CollRow : coll' = [coll EXCEPT ![c] = x] /\ (x.public => x.readOnly)
    <3>1. PICK p, o \in BOOLEAN : coll' = [coll EXCEPT ![c] = [public |-> p, readOnly |-> o]] /\ (p => o)
      BY <2>3 DEF A!Publish, A!Withdraw, A!CreateCollection
    <3>2. [public |-> p, readOnly |-> o].public = p /\ [public |-> p, readOnly |-> o].readOnly = o
      OBVIOUS
    <3> QED BY <2>2, <3>1, <3>2
  <2> QED BY <2>1, <2>3 DEF A!CreateCollection, A!Publish, A!Withdraw, A!MarkReadOnly
<1>3. PICK x \in A!CollRow : coll' = [coll EXCEPT ![c] = x] /\ (x.public => x.readOnly)
  BY <1>2
<1>4. coll' \in [Collection -> A!CollRow \cup {Null}] /\ A!PublicIsReadOnly'
  BY <1>1, <1>3 DEF A!IInv, A!PublicIsReadOnly, A!Exists
<1> QED BY <1>1, <1>2, <1>4, OthersKeep

LEMMA AccessStep ==
  ASSUME A!Settings, A!IInv, [A!Next]_(A!vars)
  PROVE  A!IInv' /\ AccessMove
<1>1. ASSUME NEW r \in Call, A!Read(r) PROVE A!IInv' /\ AccessMove
  <2>1. CASE A!Leave(r)
    BY <2>1, LeaveKeeps DEF A!Leave, A!Put
  <2> QED BY <1>1, <2>1, LoadKeeps, DecideKeeps, ServeFileKeeps, ServePassagesKeeps DEF A!Read
<1>2. ASSUME NEW r \in Call, A!Write(r) PROVE A!IInv' /\ AccessMove
  BY <1>2, WriteBegins, UploadKeeps, DeleteKeeps, RetryKeeps, SourceKeeps DEF A!Write
<1>3. ASSUME NEW c \in Collection, A!Operate(c) PROVE A!IInv' /\ AccessMove
  BY <1>3, CollectionKeeps, WipeKeeps DEF A!Operate
<1>4. ASSUME NEW d \in Doc, A!Ingest(d) \/ A!Reprocess(d) \/ \E c \in Collection, f \in File : A!Synchronise(d, c, f)
      PROVE  A!IInv' /\ AccessMove
  BY <1>4, IngestKeeps, SynchroniseKeeps
<1>5. ASSUME UNCHANGED <<coll, doc, source, req>>, live' \subseteq Actor, verified' \subseteq Actor
      PROVE  A!IInv' /\ AccessMove
  <2>1. A!PublicIsReadOnly' /\ coll' \in [Collection -> A!CollRow \cup {Null}]
    BY <1>5, AccessTyped DEF A!IInv, A!PublicIsReadOnly, A!Exists
  <2> QED BY <1>5, <2>1, OthersKeep
<1>6. live \subseteq Actor /\ verified \subseteq Actor
  BY AccessTyped DEF A!IInv
<1>7. ASSUME NEW a \in Actor, A!RevokeKey(a) \/ A!VerifyEmail(a) PROVE A!IInv' /\ AccessMove
  BY <1>5, <1>6, <1>7 DEF A!RevokeKey, A!VerifyEmail
<1>8. CASE UNCHANGED A!vars
  BY <1>5, <1>6, <1>8 DEF A!vars
<1> QED BY <1>1, <1>2, <1>3, <1>4, <1>7, <1>8 DEF A!Next

(* What the interface offers to change is what may be changed. *)
LEMMA OfferedIsAllowed == ASSUME A!Settings, A!IInv PROVE A!WritableHolds
<1>1. SUFFICES ASSUME NEW a \in Actor \ Browser, NEW c \in Collection, A!Exists(c)
               PROVE  /\ A!Writable(a, c) <=> A!InScope(a, c) /\ A!MayWrite(a, a \in verified, c)
                      /\ coll[c].public => coll[c].readOnly
  BY DEF A!WritableHolds
<1>2. coll[c].public => coll[c].readOnly
  BY <1>1 DEF A!IInv, A!PublicIsReadOnly
<1> QED BY <1>1, <1>2 DEF A!Writable, A!InScope, A!MayWrite, A!MayCreate

(* Whoever asks, uploads, publishes and replaces documents meanwhile, and for any number of them: *)
(* a file goes out only to whoever may read all of it, a read-only collection without a source     *)
(* keeps its documents but for a reset, what the interface offers to change is what may be         *)
(* changed, and the sources of a collection pass their limit by no more than the requests do.      *)
THEOREM AccessIsGuarded == ASSUME A!Settings PROVE A!Spec => AccessHolds
<1>1. A!Init => A!IInv
  BY AccessInit
<1>2. A!IInv /\ [A!Next]_(A!vars) => A!IInv'
  BY AccessStep
<1>3. A!IInv => A!TypeOK /\ A!WritableHolds /\ A!SourcesBounded
  BY OfferedIsAllowed DEF A!IInv
<1>4. A!IInv /\ [A!Next]_(A!vars) =>
        [\A r \in Call :
           req[r] # Null /\ req[r].op = "file" /\ req'[r] # Null /\ req'[r].op = "served" =>
             req'[r].role = A!Owner \/ Labels[req'[r].file] \subseteq Sees[req'[r].role]]_(A!vars)
  BY AccessStep DEF AccessMove
<1>5. A!IInv /\ [A!Next]_(A!vars) =>
        [\A c \in Collection :
           A!Exists(c) /\ coll[c].readOnly /\ source[c] = 0 /\ A!Members(c)' # A!Members(c) =>
             ~coll[c].public /\ A!WipeCollection(c)]_(A!vars)
  BY AccessStep DEF AccessMove
<1> QED BY <1>1, <1>2, <1>3, <1>4, <1>5, PTL
        DEF A!Spec, AccessHolds, A!FilesServedToReaders, A!ReadOnlyHoldsStill
=============================================================================
