---------------------------- MODULE MCFileStore ----------------------------
(* What becomes of stored files, and who gets at them, on small instances.  The *)
(* parts share no state: a behaviour is one part's, and the others stay as they  *)
(* began.                                                                        *)
(* "files": FileStore with two collections; d1 and d2 are in the first one; d2   *)
(* and d4 are the documents that the source makes.                               *)
(* "readers" and "writers": Access with an account, a guest and an API key; the  *)
(* first has two requests that read, one of them the file, or one that uploads or  *)
(* connects a source, while collections are created, published and withdrawn; the  *)
(* second one request at a time that writes, or two that connect a source.         *)
(* "original": OriginalStore, one file.  "backup": Backup with two jobs, one     *)
(* release, and no backup begun after one that is finished or was killed.          *)
EXTENDS FileStore, TLC

CONSTANTS
  d1, d2, d3, d4,
  Part,                               \* the parts that are checked
  Actor, Collection, File, Role, Tenant, Doc, Call, Kind, Of, Browser, HomeOf, Service,
  PublicTenant, Labels, Sees, MaxSources, \* Access: a call is a request, of a collection's document
  user, anyone, key, personal, public,
  MaxVersions                         \* of a file in the bucket

ASSUME Bounds == MaxVersions \in Nat

VARIABLES
  part,
  coll, doc, source, live, verified, req,                                  \* Access
  provider, versioning, remote, disk, writer, upload, reader, confirmed, ghost,  \* OriginalStore
  copies, db, volume, bucket, running, intended, client, holder, job, mishap     \* Backup

MCHome == [d \in Document |-> IF d \in {d1, d2} THEN 1 ELSE 2]

OneSource == [d \in Document |-> IF d \in {d2, d4} THEN CHOOSE s \in Sync : TRUE ELSE Null]

(* The parts share their model values, which keeps the group of permutations small. *)
Interchangeable == Permutations(Content)

-----------------------------------------------------------------------------
MCKind == [a \in Actor |-> CASE a = user -> "account" [] a = anyone -> "guest" [] a = key -> "api_key"]
MCOf == [a \in Actor |-> IF a = user THEN personal ELSE public]
MCHomeOf == [c \in Collection |-> c]
MCLabels == [f \in File |-> IF f = "open" THEN {"all"} ELSE {"all", "leadership"}]
MCSees == [r \in Role |-> IF r = "employee" THEN {"all"} ELSE {"all", "leadership"}]

A == INSTANCE Access WITH Document <- Doc, Request <- Call, Home <- HomeOf

ASSUME AccessAssumption == A!Settings

O == INSTANCE OriginalStore WITH Reader <- Content, source <- upload, mishap <- ghost

B == INSTANCE Backup WITH
  Document <- Content, Job <- Sync \cup {d1}, provider <- copies, disk <- volume, remote <- bucket

ASSUME BackupAssumption == B!Settings

access == <<coll, doc, source, live, verified, req>>
original == <<provider, versioning, remote, disk, writer, upload, reader, confirmed, ghost>>
backup == <<copies, db, volume, bucket, running, intended, client, holder, job, mishap>>
allVars == <<part, vars, access, original, backup>>

MCInit ==
  /\ part \in Part
  /\ Init /\ A!Init
  /\ O!Init /\ (part # "original" => provider = "local")
  /\ B!Init /\ intended \in {B!Writers, {"api"}}
  /\ part # "backup" => copies = "local" /\ intended = {"api"}

Reading == {"file", "passages", "served"}
\* What the parts leave out.
InAccess ==
  /\ live' # live => part = "writers" /\ live' = live \ {key}
  /\ part = "readers" =>
       /\ \A r \in Call : req'[r] # Null => req'[r].op \in Reading \cup {"upload", "source"}
       /\ (\A r \in Call : req'[r] # Null) => \E r \in Call : req'[r].op = "file"
       /\ \A r, s \in Call : req'[r] # Null /\ req'[s] # Null /\ req'[r].op \notin Reading => r = s
       /\ verified' = verified
       /\ \A c \in Collection : coll'[c] # coll[c] => coll[c] = Null \/ coll'[c].public # coll[c].public
  /\ part = "writers" =>
       /\ \A r, s \in Call : req'[r] # Null /\ req'[s] # Null => r = s \/ req'[r].op = "source"
       /\ \A r \in Call : req'[r] # Null => req'[r].op \notin Reading
       /\ doc[d1] = Null /\ doc'[d1] # Null => doc'[d1].file = "open"

InBackup ==
  /\ "migrate" \in running' \ running => intended # B!Writers
  /\ (\E j \in DOMAIN job : job[j].at = "done") => UNCHANGED <<db, volume, running, client>>
  /\ mishap \/ (\E j \in DOMAIN job : job[j].at = "done") =>
       \A j \in DOMAIN job : job[j].at = "idle" => job'[j].at = "idle"

MCNext ==
  /\ UNCHANGED part
  /\ \/ part = "files" /\ Next /\ UNCHANGED <<access, original, backup>>
     \/ part \in {"readers", "writers"} /\ A!Next /\ InAccess /\ UNCHANGED <<vars, original, backup>>
     \/ part = "original" /\ O!Next /\ UNCHANGED <<vars, access, backup>>
     \/ part = "backup" /\ B!Next /\ InBackup /\ UNCHANGED <<vars, access, original>>

MCSpec == MCInit /\ [][MCNext]_allVars

(* A file with a restricted section never goes out to a role that may not read all of *)
(* it, a read-only collection's documents only change by its source and the operator,  *)
(* what the interface calls writable is what a write is let through for, and the        *)
(* sources of a collection are bounded (api/v1/documents.py, api/deps.py,                *)
(* sources/service.py).                                                                  *)
AccessHolds ==
  [](A!TypeOK /\ A!WritableHolds /\ A!SourcesBounded) /\ A!FilesServedToReaders /\ A!ReadOnlyHoldsStill

(* A confirmed file survives power loss and, in a bucket, the host, also one that was   *)
(* moved from the disk to a bucket; only verified bytes are served from a bucket; a      *)
(* deleted file stays in the cache only by a mishap (storage/s3.py, storage/local.py,     *)
(* storage/migrate_originals.py).                                                         *)
OriginalsHold == O!TypeOK /\ O!ConfirmedIsDurable /\ O!ServedIsVerified /\ O!GhostsExplained

(* A finished bundle is one state of database and files, restore-check tells whole     *)
(* bundles from others, and the services run again (deploy/scripts/backup.py).          *)
BackupsHold == B!TypeOK /\ B!BundlesWhole /\ B!VerdictsRight /\ B!ServicesComeBack
=============================================================================
