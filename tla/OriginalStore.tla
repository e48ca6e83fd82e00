--------------------------- MODULE OriginalStore ---------------------------
(* One stored file, by its content: the bucket of versions and the local     *)
(* cache of storage/s3.py, or the local disk alone (storage/local.py).  Its  *)
(* callers store and delete under the tenant's lock (FileStore), so at most  *)
(* one of them at a time; downloads and ingestion read whenever they like.   *)
(* An operator may move from the disk to a bucket: the services are started   *)
(* again with the bucket, and migrate_originals.py copies what the disk has.   *)
EXTENDS Integers, Sequences, SequencesExt

CONSTANTS
  Reader,      \* processes that read
  Null,
  MaxVersions  \* bound: versions and delete markers in the bucket

VARIABLES
  provider,   \* STORAGE_PROVIDER: "s3" or "local"
  versioning, \* whether the bucket's versioning is enabled
  remote,     \* versions of the object, oldest first
  disk,       \* the local file: "absent", "renamed" (not yet durable), "durable" or "bad"
  writer,     \* the store or delete under way
  source,     \* whether the file to be stored is still there
  reader,     \* what each reader is doing
  confirmed,  \* where the last store was confirmed: "disk" or "bucket"; "no" once a delete began
  mishap      \* why the local file may outlive its deletion

vars == <<provider, versioning, remote, disk, writer, source, reader, confirmed, mishap>>

Init ==
  /\ provider \in {"s3", "local"} /\ versioning \in (IF provider = "s3" THEN BOOLEAN ELSE {FALSE})
  /\ remote = <<>> /\ disk = "absent"
  /\ writer = "idle" /\ source = FALSE
  /\ reader = [r \in Reader |-> "idle"]
  /\ confirmed = "no" /\ mishap = FALSE

Object == {"object", "null object"}    \* what is put while versioning is suspended is null
Marker == {"marker", "null marker"}
Stored == remote # <<>> /\ Last(remote) \in Object
Recoverable == \E i \in DOMAIN remote :
  remote[i] = "object" /\ \A j \in i .. Len(remote) : remote[j] \notin Marker
Intact == disk \in {"renamed", "durable"}

(* os.replace puts the whole file in place, until sync_directory only in memory: *)
(* where there was the same file before, it makes no difference.                  *)
Replaced == IF disk = "durable" THEN "durable" ELSE "renamed"

-----------------------------------------------------------------------------
(* store: the source's digest is verified first. *)
BeginStore ==
  /\ writer = "idle"
  /\ source' = TRUE
  /\ writer' = IF provider = "s3" THEN "versioned?" ELSE "copy"
  /\ UNCHANGED <<provider, versioning, remote, disk, reader, confirmed, mishap>>

CheckVersioning ==
  /\ writer \in {"versioned?", "deletable?"}
  /\ writer' = IF ~versioning THEN "failed" ELSE IF writer = "versioned?" THEN "put" ELSE "mark"
  /\ UNCHANGED <<provider, versioning, remote, disk, source, reader, confirmed, mishap>>

(* put_object, which confirms a version only while versioning is on. *)
PutObject ==
  /\ writer = "put" /\ Len(remote) < MaxVersions
  /\ remote' = Append(remote, IF versioning THEN "object" ELSE "null object")
  /\ writer' = IF versioning THEN "copy" ELSE "failed"
  /\ UNCHANGED <<provider, versioning, disk, source, reader, confirmed, mishap>>

(* LocalStorage.store: a copy beside the destination, then renamed over it. *)
Replace ==
  /\ writer = "copy"
  /\ disk' = Replaced
  /\ writer' = "sync"
  /\ UNCHANGED <<provider, versioning, remote, source, reader, confirmed, mishap>>

Place == IF provider = "s3" THEN "bucket" ELSE "disk"

(* Mutant: the source is moved before the copy is durable. *)
UnlinkEarly ==
  /\ writer = "sync"
  /\ source' = FALSE
  /\ writer' = "idle" /\ confirmed' = Place
  /\ UNCHANGED <<provider, versioning, remote, disk, reader, mishap>>

(* "Retain the caller's source until every durability operation succeeds." *)
SyncAndUnlink ==
  /\ writer = "sync"
  /\ disk' = IF disk = "renamed" THEN "durable" ELSE disk
  /\ source' = FALSE
  /\ writer' = "idle" /\ confirmed' = Place
  /\ UNCHANGED <<provider, versioning, remote, reader, mishap>>

(* delete: a delete marker, confirmed, and then the local file. *)
BeginDelete ==
  /\ writer = "idle" /\ confirmed # "no"
  /\ confirmed' = "no"
  /\ writer' = IF provider = "s3" THEN "deletable?" ELSE "unlink"
  /\ UNCHANGED <<provider, versioning, remote, disk, source, reader, mishap>>

MarkDeleted ==
  /\ writer = "mark" /\ Len(remote) < MaxVersions
  /\ remote' = Append(remote, IF versioning THEN "marker" ELSE "null marker")
  /\ writer' = IF versioning THEN "unlink" ELSE "failed"
  /\ mishap' = (mishap \/ ~versioning)
  /\ UNCHANGED <<provider, versioning, disk, source, reader, confirmed>>

UnlinkCache ==
  /\ writer = "unlink"
  /\ disk' = "absent"
  /\ writer' = "idle"
  /\ UNCHANGED <<provider, versioning, remote, source, reader, confirmed, mishap>>

(* The network, the bucket or the disk refuses a step: the caller is told, and keeps *)
(* the source; what was put or marked stays.                                          *)
Fail ==
  /\ writer # "idle"
  /\ writer' = "idle"
  /\ source' = FALSE   \* the caller removes its upload
  /\ mishap' = (mishap \/ writer = "unlink")
  /\ UNCHANGED <<provider, versioning, remote, disk, reader, confirmed>>

-----------------------------------------------------------------------------
(* path_for: S3Storage takes the cached file if its digest is right; LocalStorage only *)
(* names the file.                                                                      *)
Read(r) ==
  /\ reader[r] = "idle"
  /\ reader' = [reader EXCEPT ![r] =
       IF Intact THEN "served"
       ELSE IF provider = "s3" THEN "get"
       ELSE IF disk = "bad" THEN "served bad" ELSE "failed"]
  /\ UNCHANGED <<provider, versioning, remote, disk, writer, source, confirmed, mishap>>

(* get_object: the latest version, if that is one and has an id. *)
GetObject(r) ==
  /\ reader[r] = "get"
  /\ reader' = [reader EXCEPT ![r] = IF Stored /\ Last(remote) = "object" THEN "publish" ELSE "failed"]
  /\ UNCHANGED <<provider, versioning, remote, disk, writer, source, confirmed, mishap>>

(* cache.store, which verifies the digest of what was fetched. *)
Publish(r) ==
  /\ reader[r] = "publish"
  /\ disk' = Replaced
  /\ reader' = [reader EXCEPT ![r] = "served"]
  /\ mishap' = (mishap \/ ~Stored)
  /\ UNCHANGED <<provider, versioning, remote, writer, source, confirmed>>

Return(r) ==
  /\ reader[r] # "idle"
  /\ reader' = [reader EXCEPT ![r] = "idle"]
  /\ UNCHANGED <<provider, versioning, remote, disk, writer, source, confirmed, mishap>>

-----------------------------------------------------------------------------
(* The host loses power: a rename that is not yet durable is there or is not. *)
PowerLoss ==
  /\ disk' \in IF disk = "renamed" THEN {"absent", "durable"} ELSE {disk}
  /\ writer' = "idle"
  /\ mishap' = (mishap \/ writer = "unlink")
  /\ reader' = [r \in Reader |-> "idle"]
  /\ UNCHANGED <<provider, versioning, remote, source, confirmed>>

(* The host is replaced, and its processes with it. *)
HostLost ==
  /\ disk' = "absent"
  /\ writer' = "idle" /\ source' = FALSE
  /\ reader' = [r \in Reader |-> "idle"]
  /\ confirmed' = IF confirmed = "disk" THEN "no" ELSE confirmed
  /\ UNCHANGED <<provider, versioning, remote, mishap>>

(* A file that lies on the disk goes bad. *)
Rot ==
  /\ disk = "durable" /\ writer # "sync"
  /\ disk' = "bad"
  /\ confirmed' = IF confirmed = "disk" THEN "no" ELSE confirmed
  /\ UNCHANGED <<provider, versioning, remote, writer, source, reader, mishap>>

(* The bucket's versioning is switched. *)
SwitchVersioning ==
  /\ provider = "s3"
  /\ versioning' = ~versioning
  /\ UNCHANGED <<provider, remote, disk, writer, source, reader, confirmed, mishap>>

(* The operator turns from the disk to a bucket, and starts the services again. *)
UseBucket ==
  /\ provider = "local" /\ writer = "idle"
  /\ provider' = "s3" /\ versioning' \in BOOLEAN
  /\ reader' = [r \in Reader |-> "idle"]
  /\ UNCHANGED <<remote, disk, writer, source, confirmed, mishap>>

(* migrate_originals, while nothing else is stored or deleted: a copy of the verified *)
(* local file is stored like an upload (its last verify_remote only reads); a file     *)
(* that has to be fetched first is fetched like a reader's.                             *)
Migrate ==
  /\ provider = "s3" /\ writer = "idle" /\ confirmed # "no" /\ Intact
  /\ source' = TRUE
  /\ writer' = "versioned?"
  /\ UNCHANGED <<provider, versioning, remote, disk, reader, confirmed, mishap>>

Next ==
  \/ BeginStore \/ CheckVersioning \/ PutObject \/ Replace \/ SyncAndUnlink
  \/ BeginDelete \/ MarkDeleted \/ UnlinkCache \/ Fail
  \/ \E r \in Reader : Read(r) \/ GetObject(r) \/ Publish(r) \/ Return(r)
  \/ PowerLoss \/ HostLost \/ Rot \/ SwitchVersioning \/ UseBucket \/ Migrate

Spec == Init /\ [][Next]_vars

-----------------------------------------------------------------------------
TypeOK ==
  /\ provider \in {"s3", "local"} /\ versioning \in BOOLEAN
  /\ remote \in Seq(Object \cup Marker) /\ Len(remote) <= MaxVersions
  /\ disk \in {"absent", "renamed", "durable", "bad"}
  /\ writer \in {"idle", "versioned?", "put", "copy", "sync", "deletable?", "mark", "unlink", "failed"}
  /\ source \in BOOLEAN /\ confirmed \in {"no", "disk", "bucket"} /\ mishap \in BOOLEAN
  /\ reader \in [Reader -> {"idle", "get", "publish", "served", "served bad", "failed"}]

(* A file whose storage was confirmed survives the loss of power; confirmed by a bucket *)
(* of versions it also survives the loss of the host ("local files are a replaceable    *)
(* cache"), even if versioning is suspended in the middle of a later store.  What the    *)
(* disk confirmed stays there while it is copied to the bucket, and a copy that failed   *)
(* changes nothing ("a failed copy stops without deleting originals").                   *)
ConfirmedIsDurable ==
  /\ confirmed = "bucket" => Recoverable
  /\ confirmed = "disk" => disk = "durable"

(* With a bucket, only bytes that were verified are served (s3.py:64, local.py:61). *)
ServedIsVerified == provider = "s3" => \A r \in Reader : reader[r] # "served bad"

(* A deleted file is gone from the cache too, unless its deletion was cut short or a *)
(* reader that had fetched it put it back.                                            *)
GhostsExplained ==
  provider = "s3" /\ remote # <<>> /\ ~Stored /\ disk # "absent" /\ writer = "idle" => mishap

-----------------------------------------------------------------------------
(* The inductive invariant.  A store that goes on to the disk has confirmed the last *)
(* version and what it renamed stays until it is durable; a deletion begins with      *)
(* taking the confirmation back; the disk alone knows no version and no step of the    *)
(* bucket's; and a marked file's copy is explained at every step but the one that      *)
(* removes it.                                                                         *)
WriterConsistent ==
  /\ writer = "sync" => Intact
  /\ writer \in {"deletable?", "mark", "unlink"} => confirmed = "no"
  /\ provider = "s3" /\ writer \in {"copy", "sync"} => remote # <<>> /\ Last(remote) = "object"
  /\ provider = "local" => remote = <<>> /\ writer \in {"idle", "copy", "sync", "unlink"}
  /\ provider = "s3" /\ remote # <<>> /\ ~Stored /\ disk # "absent" /\ writer # "unlink" => mishap

IInv == TypeOK /\ ConfirmedIsDurable /\ ServedIsVerified /\ GhostsExplained /\ WriterConsistent
=============================================================================
