------------------------------- MODULE Backup -------------------------------
(* Backups of one Compose project (deploy/scripts/backup.py): each stops the *)
(* services that write, reads the database and the files into a bundle, and  *)
(* starts again what it stopped; bundles are restored into fresh containers  *)
(* to check them.  A document here has one file, which is stored before and  *)
(* removed with its row; what orphans and missing files uploads leave is in  *)
(* FileStore.                                                                *)
EXTENDS Integers, FiniteSets

CONSTANTS Document, Job, Null

VARIABLES
  provider, \* "local", or "s3" with the local files as a cache
  db,       \* documents with a committed row
  disk,     \* documents whose file is on the volume /app/data
  remote,   \* documents whose file is in the bucket
  running,  \* services that run
  intended, \* services that should run when no backup is under way
  client,   \* whether another client of the database is connected
  holder,   \* the job that holds the project's lock
  job,      \* what each job is doing, and the bundle it makes
  mishap    \* a backup died, or could not start what it stopped

vars == <<provider, db, disk, remote, running, intended, client, holder, job, mishap>>

Writers == {"beat", "api", "worker"}
Step == {"idle", "lock", "list", "beat", "others", "remaining", "clients", "counts", "references",
         "snapshot", "dump", "tar", "verify", "resume", "done"}
\* Between the last look at the services and at the database's clients and the last
\* read of the files, nobody is meant to start either.
Quiet == {"beat", "others", "remaining", "clients", "counts", "references", "snapshot", "dump", "tar"}
Checked == {"counts", "references", "snapshot", "dump", "tar"}

Bundle == [at : Step, ok : BOOLEAN, writers : SUBSET Writers, count : 0 .. Cardinality(Document),
           refs : SUBSET Document, dump : SUBSET Document, files : SUBSET Document,
           disturbed : BOOLEAN, intact : BOOLEAN, verdict : {Null, "ok", "bad"}]

NoBundle == [at |-> "idle", ok |-> FALSE, writers |-> {}, count |-> 0, refs |-> {}, dump |-> {},
             files |-> {}, disturbed |-> FALSE, intact |-> TRUE, verdict |-> Null]

Init ==
  /\ provider \in {"local", "s3"}
  /\ db = {} /\ disk = {} /\ remote = {}
  /\ intended \in SUBSET Writers
  /\ running = intended
  /\ client = FALSE
  /\ holder = Null
  /\ job = [j \in Job |-> NoBundle]
  /\ mishap = FALSE

At(j, step) == job[j].at = step
Goto(j, step) == job' = [job EXCEPT ![j].at = step]
corpus == <<db, disk, remote>>
services == <<running, intended>>

-----------------------------------------------------------------------------
(* project_lock: a second backup of the project is refused, not queued. *)
Lock(j) ==
  /\ At(j, "idle") /\ holder = Null
  /\ holder' = j /\ Goto(j, "lock")
  /\ UNCHANGED <<provider, corpus, services, client, mishap>>

Unlocked(j) == IF holder = j THEN Null ELSE holder

(* What it will stop and start again; not during a migration. *)
ListServices(j) ==
  /\ At(j, "lock")
  /\ IF "migrate" \in running
     THEN job' = [job EXCEPT ![j] = NoBundle] /\ holder' = Unlocked(j)
     ELSE /\ job' = [job EXCEPT ![j].at = "beat", ![j].writers = running \cap Writers]
          /\ UNCHANGED holder
  /\ UNCHANGED <<provider, corpus, services, client, mishap>>

StopBeat(j) ==
  /\ At(j, "beat")
  /\ running' = running \ (job[j].writers \cap {"beat"})
  /\ Goto(j, "others")
  /\ UNCHANGED <<provider, corpus, intended, client, holder, mishap>>

(* 660 seconds to finish, and then they are killed. *)
StopOthers(j) ==
  /\ At(j, "others")
  /\ running' = running \ (job[j].writers \ {"beat"})
  /\ Goto(j, "remaining")
  /\ UNCHANGED <<provider, corpus, intended, client, holder, mishap>>

CheckStopped(j) ==
  /\ At(j, "remaining")
  /\ Goto(j, IF running \cap Writers = {} THEN "clients" ELSE "resume")
  /\ UNCHANGED <<provider, corpus, services, client, holder, mishap>>

CheckClients(j) ==
  /\ At(j, "clients")
  /\ Goto(j, IF client THEN "resume" ELSE "counts")
  /\ UNCHANGED <<provider, corpus, services, client, holder, mishap>>

ReadCounts(j) ==
  /\ At(j, "counts")
  /\ job' = [job EXCEPT ![j].at = "references", ![j].count = Cardinality(db)]
  /\ UNCHANGED <<provider, corpus, services, client, holder, mishap>>

ReadReferences(j) ==
  /\ At(j, "references")
  /\ job' = [job EXCEPT ![j].at = "snapshot", ![j].refs = db]
  /\ UNCHANGED <<provider, corpus, services, client, holder, mishap>>

(* app.storage.snapshot: every committed file is fetched and verified, or none will do. *)
Snapshot(j) ==
  /\ At(j, "snapshot")
  /\ IF db \subseteq disk \cup (IF provider = "s3" THEN remote ELSE {})
     THEN disk' = disk \cup db /\ Goto(j, "dump")
     ELSE UNCHANGED disk /\ Goto(j, "resume")
  /\ UNCHANGED <<provider, db, remote, services, client, holder, mishap>>

Dump(j) ==
  /\ At(j, "dump")
  /\ job' = [job EXCEPT ![j].at = "tar", ![j].dump = db]
  /\ UNCHANGED <<provider, corpus, services, client, holder, mishap>>

Tar(j) ==
  /\ At(j, "tar")
  /\ job' = [job EXCEPT ![j].at = "verify", ![j].files = disk]
  /\ UNCHANGED <<provider, corpus, services, client, holder, mishap>>

(* verify_originals, the manifest and verify_bundle. *)
Verify(j) ==
  /\ At(j, "verify")
  /\ job' = [job EXCEPT ![j].at = "resume", ![j].ok = job[j].refs \subseteq job[j].files]
  /\ UNCHANGED <<provider, corpus, services, client, holder, mishap>>

(* Mutant: a command that fails ends the backup there. *)
FailAtOnce(j) ==
  /\ job[j].at \in (Quiet \cup {"verify"})
  /\ job' = [job EXCEPT ![j] = NoBundle]
  /\ holder' = Unlocked(j)
  /\ UNCHANGED <<provider, corpus, services, client, mishap>>

(* Any command fails, and with it the backup. *)
Fail(j) ==
  /\ job[j].at \in (Quiet \cup {"verify"})
  /\ Goto(j, "resume")
  /\ UNCHANGED <<provider, corpus, services, client, holder, mishap>>

(* finally: what was stopped is started, and a bundle that is complete gets its name. *)
Resume(j) ==
  /\ At(j, "resume")
  /\ holder' = Unlocked(j)
  /\ \/ /\ running' = running \cup job[j].writers
        /\ job' = [job EXCEPT ![j] = IF job[j].ok THEN [job[j] EXCEPT !.at = "done"] ELSE NoBundle]
        /\ UNCHANGED mishap
     \/ /\ job[j].writers # {}
        /\ running' \in {running \cup some : some \in SUBSET job[j].writers}
        /\ job' = [job EXCEPT ![j] = NoBundle]
        /\ mishap' = TRUE
  /\ UNCHANGED <<provider, corpus, intended, client>>

(* The backup is killed: the lock goes with it, and nobody starts the services. *)
Die(j) ==
  /\ job[j].at \notin {"idle", "done"}
  /\ job' = [job EXCEPT ![j] = NoBundle]
  /\ holder' = Unlocked(j)
  /\ mishap' = (mishap \/ job[j].writers # {})
  /\ UNCHANGED <<provider, corpus, services, client>>

(* restore-check: the bundle's own checksums, then the restored database against the  *)
(* manifest and against the restored files.                                            *)
Passes(b) ==
  /\ b.intact
  /\ b.dump \subseteq b.files
  /\ Cardinality(b.dump) = Cardinality(b.refs)
  /\ Cardinality(b.dump) = b.count

RestoreCheck(j) ==
  /\ At(j, "done")
  /\ job' = [job EXCEPT ![j].verdict = IF Passes(job[j]) THEN "ok" ELSE "bad"]
  /\ UNCHANGED <<provider, corpus, services, client, holder, mishap>>

Damage(j) ==
  /\ At(j, "done")
  /\ job' = [job EXCEPT ![j].intact = FALSE, ![j].verdict = Null]
  /\ UNCHANGED <<provider, corpus, services, client, holder, mishap>>

-----------------------------------------------------------------------------
Writing == client \/ running \cap {"api", "worker"} # {}

AddDocument(d) ==
  /\ Writing /\ d \notin db
  /\ db' = db \cup {d} /\ disk' = disk \cup {d}
  /\ remote' = IF provider = "s3" THEN remote \cup {d} ELSE remote
  /\ UNCHANGED <<provider, services, client, holder, job, mishap>>

RemoveDocument(d) ==
  /\ Writing /\ d \in db
  /\ db' = db \ {d} /\ disk' = disk \ {d} /\ remote' = remote \ {d}
  /\ UNCHANGED <<provider, services, client, holder, job, mishap>>

(* Files of the volume are lost: the host is replaced, or a disk fails. *)
LoseFiles(d) ==
  /\ d \in disk
  /\ disk' = disk \ {d}
  /\ UNCHANGED <<provider, db, remote, services, client, holder, job, mishap>>

Disturb(steps) == job' = [j \in Job |-> [job[j] EXCEPT !.disturbed = @ \/ job[j].at \in steps]]

(* An operator's or a seed job's connection. *)
Connect ==
  /\ ~client
  /\ client' = TRUE
  /\ Disturb(Checked)
  /\ UNCHANGED <<provider, corpus, services, holder, mishap>>

Disconnect ==
  /\ client
  /\ client' = FALSE
  /\ UNCHANGED <<provider, corpus, services, holder, job, mishap>>

(* A release migrates, and then runs every service. *)
BeginRelease ==
  /\ "migrate" \notin running
  /\ running' = running \cup {"migrate"}
  /\ Disturb(Quiet)
  /\ UNCHANGED <<provider, corpus, intended, client, holder, mishap>>

EndRelease ==
  /\ "migrate" \in running
  /\ running' = Writers /\ intended' = Writers
  /\ Disturb(Quiet)
  /\ mishap' = FALSE
  /\ UNCHANGED <<provider, corpus, client, holder>>

Next ==
  \/ \E j \in Job :
       \/ Lock(j) \/ ListServices(j) \/ StopBeat(j) \/ StopOthers(j)
       \/ CheckStopped(j) \/ CheckClients(j) \/ ReadCounts(j) \/ ReadReferences(j)
       \/ Snapshot(j) \/ Dump(j) \/ Tar(j) \/ Verify(j) \/ Fail(j) \/ Resume(j) \/ Die(j)
       \/ RestoreCheck(j) \/ Damage(j)
  \/ \E d \in Document : AddDocument(d) \/ RemoveDocument(d) \/ LoseFiles(d)
  \/ Connect \/ Disconnect \/ BeginRelease \/ EndRelease

Spec == Init /\ [][Next]_vars

-----------------------------------------------------------------------------
TypeOK ==
  /\ provider \in {"local", "s3"}
  /\ db \subseteq Document /\ disk \subseteq Document /\ remote \subseteq Document
  /\ running \subseteq Writers \cup {"migrate"} /\ intended \subseteq Writers
  /\ client \in BOOLEAN /\ mishap \in BOOLEAN
  /\ holder \in Job \cup {Null}
  /\ job \in [Job -> Bundle]

(* A finished bundle is one state of the system: its database is the one whose files  *)
(* were verified, unless somebody started a service or connected behind the backup's  *)
(* back (deploy/runbook.md, section 5, asks operators not to).                         *)
BundlesWhole ==
  \A j \in Job : At(j, "done") /\ ~job[j].disturbed =>
    job[j].dump = job[j].refs /\ job[j].dump \subseteq job[j].files

(* restore-check rejects no bundle that was made in quiet and is intact, and passes   *)
(* none that would lose a file, however it was made.                                   *)
VerdictsRight ==
  \A j \in Job :
    /\ job[j].verdict = "bad" => job[j].disturbed \/ ~job[j].intact
    /\ job[j].verdict = "ok" => job[j].dump \subseteq job[j].files

(* When no backup is under way, the services that should run do, unless one died or   *)
(* could not start them.                                                               *)
ServicesComeBack ==
  (\A j \in Job : job[j].at \in {"idle", "lock", "done"}) /\ ~mishap => intended \subseteq running

-----------------------------------------------------------------------------
(* There are finitely many documents, and Null is no job and no verdict. *)
Settings == IsFiniteSet(Document) /\ Null \notin Job /\ Null \notin {"ok", "bad"}

(* The inductive invariant.  A job that is under way has the lock.  While nobody has  *)
(* disturbed it, nobody writes from its last look at the services and the clients to  *)
(* its last read, and what it has read is what the database holds; a bundle that was   *)
(* verified keeps its files.  And what should run either runs or is remembered by the   *)
(* job that stopped it.                                                                  *)
Exclusive == \A j \in Job : job[j].at \notin {"idle", "done"} => holder = j

BundleConsistent(b) ==
  /\ b.ok => b.at \in {"resume", "done"} /\ b.refs \subseteq b.files
  /\ b.at = "done" => b.ok
  /\ b.verdict # Null => b.at = "done"
  /\ ~b.disturbed =>
       /\ b.at \in Checked \cup {"clients"} => running \cap Writers = {}
       /\ b.at \in Checked => ~client
       /\ b.at \in Checked \ {"counts"} => b.count = Cardinality(db)
       /\ b.at \in {"snapshot", "dump", "tar"} => b.refs = db
       /\ b.at = "tar" => b.dump = db
       /\ b.at = "verify" \/ b.ok => b.dump = b.refs /\ b.count = Cardinality(b.dump)

BundlesConsistent == \A j \in Job : BundleConsistent(job[j])

StoppedRemembered ==
  ~mishap => \A j \in Job :
    job[j].at \notin {"idle", "lock", "done"} => intended \subseteq running \cup job[j].writers

IInv ==
  /\ TypeOK /\ VerdictsRight /\ ServicesComeBack
  /\ Exclusive /\ BundlesConsistent /\ StoppedRemembered
=============================================================================
