------------------------------- MODULE Access -------------------------------
(* Who may read and who may change what: authentication and scopes            *)
(* (api/deps.py, accounts/actor.py, access/roles.py), the requests of         *)
(* api/v1/collections.py, documents.py and sources.py that depend on them,    *)
(* and the operator's commands (cli.py).  A request is a transaction of       *)
(* several statements, each of which sees what was committed before it; what  *)
(* holds the tenant's file lock from its first statement to its commit is one *)
(* action.  The bytes of files, versions and leases are in FileStore,         *)
(* Suggestions and Ingestion.                                                  *)
EXTENDS Integers, FiniteSets

CONSTANTS
  Actor, Collection, Document, File, Role, Request, Tenant, Null,
  Kind,         \* "account", "guest" or "api_key", of each actor
  Of,           \* the tenant of each actor
  Browser,      \* the actors whose requests carry an Origin header
  Home,         \* the tenant of each collection
  Service,      \* the tenants that are not personal
  PublicTenant, \* public_tenant_id
  Labels,       \* the access labels of the chunks made from each file
  Sees,         \* access_roles: the labels each role may read
  MaxSources    \* source_max_per_collection

VARIABLES
  coll,     \* rows of collections
  doc,      \* rows of documents, with the file their chunks were made from
  source,   \* how many sources are connected to each collection
  live,     \* actors whose session or key is good
  verified, \* accounts whose email is verified
  req       \* requests under way

vars == <<coll, doc, source, live, verified, req>>

(* PROCESSING is "pending", too: nothing here tells the two apart. *)
Status == {"pending", "ready", "failed"}
Label == (UNION {Labels[f] : f \in File}) \cup (UNION {Sees[r] : r \in Role})
CollRow == [public : BOOLEAN, readOnly : BOOLEAN]
Row == [coll : Collection, file : File, status : Status, chunks : File \cup {Null}]
Owner == "owner"
Reading == [op : {"file", "passages"}, at : {"loaded", "decided"}, actor : Actor, doc : Document,
            row : Row, role : Role \cup {Owner}, labels : SUBSET Label]
Writing == [op : {"upload", "delete", "retry", "source", "disconnect"}, actor : Actor,
            verified : BOOLEAN, coll : Collection]
Served == [op : {"served"}, file : File \cup {Null}, role : Role \cup {Owner},
           labels : SUBSET Label]

\* What the constants are: whoever asks is of one kind, everything has its tenant, Null is
\* none of the rows.
Settings ==
  /\ Kind \in [Actor -> {"account", "guest", "api_key"}] /\ Of \in [Actor -> Tenant]
  /\ Home \in [Collection -> Tenant] /\ Service \subseteq Tenant
  /\ Null \notin CollRow \cup File \cup Row \cup Reading \cup Writing \cup Served
  /\ IsFiniteSet(Request) /\ MaxSources \in Nat \ {0}

Init ==
  /\ coll = [c \in Collection |->
       IF Home[c] \in Service THEN [public |-> FALSE, readOnly |-> FALSE] ELSE Null]
  /\ doc = [d \in Document |-> Null]
  /\ source = [c \in Collection |-> 0]
  /\ live = Actor
  /\ verified = {}
  /\ req = [r \in Request |-> Null]

-----------------------------------------------------------------------------
Exists(c) == coll[c] # Null
Held(d) == doc[d] # Null
Members(c) == {d \in Document : Held(d) /\ doc[d].coll = c}

(* collection_scope: what an actor can address at all. *)
Public(c) == coll[c].public /\ coll[c].readOnly /\ Home[c] = PublicTenant

InScope(a, c) ==
  /\ Exists(c)
  /\ \/ Kind[a] # "guest" /\ Home[c] = Of[a]
     \/ Kind[a] # "api_key" /\ Public(c)

(* require_write_access, without a collection and with one. *)
MayCreate(a, isVerified) ==
  /\ Kind[a] # "guest"
  /\ ~(Kind[a] = "api_key" /\ a \in Browser)
  /\ Kind[a] = "account" => isVerified

MayWrite(a, isVerified, c) ==
  /\ MayCreate(a, isVerified)
  /\ Home[c] = Of[a]
  /\ ~coll[c].readOnly /\ ~coll[c].public

(* CollectionOut.writable, as list_collections tells it. *)
Writable(a, c) ==
  /\ Kind[a] # "guest"
  /\ Home[c] = Of[a]
  /\ ~coll[c].readOnly /\ ~coll[c].public
  /\ Kind[a] = "account" => a \in verified

(* collection_principal: owners also read labels that no role has any more. *)
AllLabels == UNION {Sees[r] : r \in Role}
ChunkLabels(d) == IF Held(d) /\ doc[d].chunks # Null THEN Labels[doc[d].chunks] ELSE {}

IsOwner(a, c) == Kind[a] = "account" /\ Of[a] = Home[c] /\ ~coll[c].public

PrincipalLabels(a, c, role) ==
  IF IsOwner(a, c) THEN AllLabels \cup UNION {ChunkLabels(d) : d \in Members(c)} ELSE Sees[role]

(* get_document_file keeps the row of its document locked. *)
RowFree(d) == \A r \in Request : req[r] # Null /\ req[r].op = "file" => req[r].doc # d

Put(r, x) == req' = [req EXCEPT ![r] = x]

-----------------------------------------------------------------------------
(* get_document_file and get_document_passages: the document in the caller's scope, *)
(* the first one for update.                                                         *)
Load(r, op, a, d, role) ==
  /\ req[r] = Null /\ a \in live
  /\ Held(d) /\ InScope(a, doc[d].coll)
  /\ op = "file" => RowFree(d)
  /\ Put(r, [op |-> op, at |-> "loaded", actor |-> a, doc |-> d, row |-> doc[d],
             role |-> role, labels |-> {}])
  /\ UNCHANGED <<coll, doc, source, live, verified>>

(* fetch_collection, collection_principal and the document's status. *)
Decide(r) ==
  /\ req[r] # Null /\ req[r].op \in {"file", "passages"} /\ req[r].at = "loaded"
  /\ LET c == req[r].row.coll
         a == req[r].actor
         role == IF IsOwner(a, c) THEN Owner ELSE req[r].role
     IN  IF InScope(a, c) /\ (role = Owner \/ req[r].row.status = "ready")
         THEN Put(r, [req[r] EXCEPT !.at = "decided", !.role = role,
                                    !.labels = PrincipalLabels(a, c, req[r].role)])
         ELSE Put(r, Null)
  /\ UNCHANGED <<coll, doc, source, live, verified>>

(* Mutant: the file is served whatever its chunks are labelled. *)
ServeAny(r) ==
  /\ req[r] # Null /\ req[r].op = "file" /\ req[r].at = "decided"
  /\ Put(r, [op |-> "served", file |-> req[r].row.file, role |-> req[r].role, labels |-> {}])
  /\ UNCHANGED <<coll, doc, source, live, verified>>

(* A file with a section that the principal does not see is refused as a whole. *)
ServeFile(r) ==
  /\ req[r] # Null /\ req[r].op = "file" /\ req[r].at = "decided"
  /\ IF ChunkLabels(req[r].doc) \subseteq req[r].labels
     THEN Put(r, [op |-> "served", file |-> req[r].row.file, role |-> req[r].role,
                  labels |-> {}])
     ELSE Put(r, Null)
  /\ UNCHANGED <<coll, doc, source, live, verified>>

(* The page of a document's passages holds those that the principal sees. *)
ServePassages(r) ==
  /\ req[r] # Null /\ req[r].op = "passages" /\ req[r].at = "decided"
  /\ Put(r, [op |-> "served", file |-> Null, role |-> req[r].role,
             labels |-> ChunkLabels(req[r].doc) \cap req[r].labels])
  /\ UNCHANGED <<coll, doc, source, live, verified>>

(* A request is over, was refused or lost its connection. *)
Leave(r) ==
  /\ req[r] # Null
  /\ Put(r, Null)
  /\ UNCHANGED <<coll, doc, source, live, verified>>

-----------------------------------------------------------------------------
CreateCollection(a, c) ==
  /\ a \in live /\ ~Exists(c) /\ Home[c] = Of[a]
  /\ MayCreate(a, a \in verified)
  /\ coll' = [coll EXCEPT ![c] = [public |-> FALSE, readOnly |-> FALSE]]
  /\ UNCHANGED <<doc, source, live, verified, req>>

(* upload_document, create_source and delete_source decide on the collection as they *)
(* find it; the body of an upload and the credentials of a source take their time.   *)
BeginWrite(r, op, a, c) ==
  /\ req[r] = Null /\ a \in live /\ op \in {"upload", "source", "disconnect"}
  /\ InScope(a, c) /\ MayWrite(a, a \in verified, c)
  /\ op = "source" => source[c] < MaxSources
  /\ op = "disconnect" => source[c] > 0
  /\ Put(r, [op |-> op, actor |-> a, verified |-> a \in verified, coll |-> c])
  /\ UNCHANGED <<coll, doc, source, live, verified>>

(* delete_document and retry_document wait for the tenant's lock first. *)
BeginLocked(r, op, a, c) ==
  /\ req[r] = Null /\ a \in live /\ op \in {"delete", "retry"}
  /\ Put(r, [op |-> op, actor |-> a, verified |-> a \in verified, coll |-> c])
  /\ UNCHANGED <<coll, doc, source, live, verified>>

(* save_upload "re-read[s] policy after waiting for a concurrent mutation". *)
SaveUpload(r, d, f) ==
  /\ req[r] # Null /\ req[r].op = "upload"
  /\ ~Held(d)
  /\ ~coll[req[r].coll].readOnly
  /\ doc' = [doc EXCEPT ![d] = [coll |-> req[r].coll, file |-> f, status |-> "pending",
                                chunks |-> Null]]
  /\ Put(r, Null)
  /\ UNCHANGED <<coll, source, live, verified>>

MayChange(r, d) ==
  /\ Held(d) /\ doc[d].coll = req[r].coll /\ RowFree(d)
  /\ InScope(req[r].actor, req[r].coll)
  /\ MayWrite(req[r].actor, req[r].verified, req[r].coll)

DeleteDocument(r, d) ==
  /\ req[r] # Null /\ req[r].op = "delete" /\ MayChange(r, d)
  /\ doc' = [doc EXCEPT ![d] = Null]
  /\ Put(r, Null)
  /\ UNCHANGED <<coll, source, live, verified>>

RetryDocument(r, d) ==
  /\ req[r] # Null /\ req[r].op = "retry" /\ MayChange(r, d)
  /\ doc[d].status = "failed"
  /\ doc' = [doc EXCEPT ![d].status = "pending"]
  /\ Put(r, Null)
  /\ UNCHANGED <<coll, source, live, verified>>

CreateSource(r) ==
  /\ req[r] # Null /\ req[r].op = "source"
  /\ source' = [source EXCEPT ![req[r].coll] = @ + 1]
  /\ Put(r, Null)
  /\ UNCHANGED <<coll, doc, live, verified>>

DeleteSource(r) ==
  /\ req[r] # Null /\ req[r].op = "disconnect" /\ source[req[r].coll] > 0
  /\ source' = [source EXCEPT ![req[r].coll] = @ - 1]
  /\ Put(r, Null)
  /\ UNCHANGED <<coll, doc, live, verified>>

-----------------------------------------------------------------------------
(* Ingestion and a source change documents, which waits for the lock of their row. *)
Ingest(d) ==
  /\ Held(d) /\ doc[d].status = "pending" /\ RowFree(d)
  /\ \/ doc' = [doc EXCEPT ![d].status = "ready", ![d].chunks = doc[d].file]
     \/ doc' = [doc EXCEPT ![d].status = "failed"]
  /\ UNCHANGED <<coll, source, live, verified, req>>

Reprocess(d) ==
  /\ Held(d) /\ RowFree(d)
  /\ doc' = [doc EXCEPT ![d].status = "pending"]
  /\ UNCHANGED <<coll, source, live, verified, req>>

Synchronise(d, c, f) ==
  /\ source[c] > 0
  /\ \/ /\ ~Held(d)
        /\ doc' = [doc EXCEPT ![d] = [coll |-> c, file |-> f, status |-> "pending",
                                      chunks |-> Null]]
     \/ /\ Held(d) /\ doc[d].coll = c /\ RowFree(d)
        /\ \/ doc' = [doc EXCEPT ![d].file = f, ![d].status = "pending"]
           \/ doc' = [doc EXCEPT ![d] = Null]
  /\ UNCHANGED <<coll, source, live, verified, req>>

(* publish_collection, of one of the public tenant's collections, and back. *)
Publish(c) ==
  /\ Exists(c) /\ Home[c] = PublicTenant
  /\ coll' = [coll EXCEPT ![c] = [public |-> TRUE, readOnly |-> TRUE]]
  /\ UNCHANGED <<doc, source, live, verified, req>>

Withdraw(c) ==
  /\ Exists(c) /\ Home[c] \in Service
  /\ coll' = [coll EXCEPT ![c] = [public |-> FALSE, readOnly |-> TRUE]]
  /\ UNCHANGED <<doc, source, live, verified, req>>

MarkReadOnly(c, writable) ==
  /\ Exists(c)
  /\ writable => ~coll[c].public
  /\ coll' = [coll EXCEPT ![c].readOnly = ~writable]
  /\ UNCHANGED <<doc, source, live, verified, req>>

WipeCollection(c) ==
  /\ Exists(c) /\ Home[c] \in Service /\ ~coll[c].public
  /\ \A d \in Members(c) : RowFree(d)
  /\ doc' = [d \in Document |-> IF d \in Members(c) THEN Null ELSE doc[d]]
  /\ UNCHANGED <<coll, source, live, verified, req>>

RevokeKey(a) ==
  /\ a \in live
  /\ live' = live \ {a}
  /\ UNCHANGED <<coll, doc, source, verified, req>>

VerifyEmail(a) ==
  /\ Kind[a] = "account" /\ a \notin verified
  /\ verified' = verified \cup {a}
  /\ UNCHANGED <<coll, doc, source, live, req>>

-----------------------------------------------------------------------------
Read(r) ==
  \/ \E op \in {"file", "passages"}, a \in Actor, d \in Document, role \in Role : Load(r, op, a, d, role)
  \/ Decide(r) \/ ServeFile(r) \/ ServePassages(r) \/ Leave(r)

Write(r) ==
  \/ \E op \in {"upload", "source", "disconnect"}, a \in Actor, c \in Collection : BeginWrite(r, op, a, c)
  \/ \E op \in {"delete", "retry"}, a \in Actor, c \in Collection : BeginLocked(r, op, a, c)
  \/ \E d \in Document, f \in File : SaveUpload(r, d, f)
  \/ \E d \in Document : DeleteDocument(r, d) \/ RetryDocument(r, d)
  \/ CreateSource(r) \/ DeleteSource(r)

Operate(c) ==
  \/ \E a \in Actor : CreateCollection(a, c)
  \/ Publish(c) \/ Withdraw(c) \/ WipeCollection(c)
  \/ \E writable \in BOOLEAN : MarkReadOnly(c, writable)

Next ==
  \/ \E r \in Request : Read(r) \/ Write(r)
  \/ \E c \in Collection : Operate(c)
  \/ \E d \in Document : \/ Ingest(d) \/ Reprocess(d)
                         \/ \E c \in Collection, f \in File : Synchronise(d, c, f)
  \/ \E a \in Actor : RevokeKey(a) \/ VerifyEmail(a)

Spec == Init /\ [][Next]_vars

-----------------------------------------------------------------------------
TypeOK ==
  /\ coll \in [Collection -> CollRow \cup {Null}]
  /\ doc \in [Document -> Row \cup {Null}]
  /\ source \in [Collection -> Nat]
  /\ live \subseteq Actor /\ verified \subseteq Actor
  /\ req \in [Request -> Reading \cup Writing \cup Served \cup {Null}]

(* What the interface calls writable is what a write is let through for, and nothing *)
(* published ever is (collections.py against deps.py, from a client that is no       *)
(* browser).                                                                         *)
WritableHolds ==
  \A a \in Actor \ Browser, c \in Collection :
    Exists(c) => /\ Writable(a, c) <=> InScope(a, c) /\ MayWrite(a, a \in verified, c)
                 /\ coll[c].public => coll[c].readOnly

Connecting(c) == {r \in Request : req[r] # Null /\ req[r].op = "source" /\ req[r].coll = c}

(* The number of sources is read before the credentials are checked: what overlaps may *)
(* pass the limit, by no more than the requests under way (sources/service.py).          *)
SourcesBounded ==
  \A c \in Collection :
    source[c] + Cardinality(Connecting(c)) <= MaxSources - 1 + Cardinality(Request)

(* "Keep status and classification stable [...] until access has been decided": a file *)
(* only goes out whole to somebody who may read all that its text is labelled with,    *)
(* whatever replaces, resets or reads the document again meanwhile.                    *)
FilesServedToReaders ==
  [][\A r \in Request :
       req[r] # Null /\ req[r].op = "file" /\ req'[r] # Null /\ req'[r].op = "served" =>
         req'[r].role = Owner \/ Labels[req'[r].file] \subseteq Sees[req'[r].role]]_vars

(* While a collection is public, or otherwise read-only, only a connected source and  *)
(* the operator's reset change which documents it has, and the reset not if public:   *)
(* an upload or a deletion that was accepted before does not.                          *)
ReadOnlyHoldsStill ==
  [][\A c \in Collection :
       Exists(c) /\ coll[c].readOnly /\ source[c] = 0 /\ Members(c)' # Members(c) =>
         ~coll[c].public /\ WipeCollection(c)]_vars

-----------------------------------------------------------------------------
(* What the properties rest on, inductively.                                   *)

(* A document that is ready is searched by what its file says. *)
ReadyIsCurrent == \A d \in Document : Held(d) /\ doc[d].status = "ready" => doc[d].chunks = doc[d].file

(* Whoever is served a file holds its document's row, and was let in as the row is. *)
ReadingConsistent(r) ==
  req[r] # Null /\ req[r].op \in {"file", "passages"} =>
    /\ req[r].at = "loaded" => req[r].role \in Role
    /\ req[r].op = "file" =>
         /\ doc[req[r].doc] = req[r].row
         /\ req[r].at = "decided" /\ req[r].role # Owner =>
              req[r].row.status = "ready" /\ req[r].labels \subseteq Sees[req[r].role]

PublicIsReadOnly == \A c \in Collection : Exists(c) /\ coll[c].public => coll[c].readOnly

IInv ==
  /\ TypeOK /\ ReadyIsCurrent /\ PublicIsReadOnly /\ SourcesBounded
  /\ \A r \in Request : ReadingConsistent(r)

=============================================================================
