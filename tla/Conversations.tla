--------------------------- MODULE Conversations ---------------------------
(* Conversations over one collection: their owners (conversations/service.py), *)
(* the context a follow-up is resolved with (conversations/context.py), the    *)
(* query pipeline and the recording of its outcome (generation/service.py,     *)
(* api/v1/query.py), while passages are replaced and guests sign in.  A query  *)
(* holds no lock and no connection between its steps.  Each chunk id is used   *)
(* once; what an answer says is not modelled, only what it was drawn from.     *)
EXTENDS Integers, FiniteSets

CONSTANTS
  Conv,       \* conversation ids, each used for one row only
  Query,      \* query ids: one request each
  Guest,      \* anonymous browser sessions
  User,
  Role,
  Chunk,
  Stored,     \* the chunks there are at the start
  Facts,      \* the chunks that extractions make
  Readers,    \* the roles that may read each chunk, by its access label
  Null,
  MaxTurns,   \* conversation_context_max_turns
  MaxChanges, \* bound: how often the corpus changes
  MaxStreams, \* bound: how many queries are under way at once
  MaxCited    \* bound: how many passages a query draws from

Actor == Guest \cup User

VARIABLES
  coll,    \* data_version and source_generation of the collection
  chunk,   \* where each chunk is
  guest,   \* what became of each guest session: itself, the user, or Null (logged out)
  conv,    \* the owner of each conversation; Null before it is created
  row,     \* the recorded queries
  req      \* what each query's request works on and what its client was told

vars == <<coll, chunk, guest, conv, row, req>>

Place == {"none", "ready", "hidden", "gone"}
(* "complete" is answered or refused, "incomplete" failed or cancelled. *)
Continued == {"complete", "clarification"}
Outcome == Continued \cup {"incomplete"}
Ended == [at : {"done", "error"}]

Row == [conv : Conv \cup {Null}, parent : Query \cup {Null}, user : User \cup {Null},
        role : Role, generation : Nat, reset : BOOLEAN, outcome : Outcome,
        cites : SUBSET Chunk]
Request == [at : {"fetched", "loaded"}, actor : Actor, conv : Conv \cup {Null}, parent : Query \cup {Null},
            role : Role, version : Nat, generation : Nat, reset : BOOLEAN,
            turns : SUBSET Query, cites : SUBSET Chunk]

\* What the constants are: ids name nothing else, and nothing of the kind is Null.
Settings ==
  /\ Guest \cap User = {}
  /\ Null \notin Actor \cup Conv \cup Query \cup Row \cup Request \cup Ended
  /\ Facts \cup Stored \subseteq Chunk /\ Readers \in [Chunk -> SUBSET Role]
  /\ MaxTurns \in Nat \ {0}

Init ==
  /\ coll = [version |-> 0, generation |-> 0]
  /\ chunk = [c \in Chunk |-> IF c \in Stored THEN "ready" ELSE "none"]
  /\ guest = [s \in Guest |-> s]
  /\ conv = [c \in Conv |-> Null]
  /\ row = [q \in Query |-> Null]
  /\ req = [q \in Query |-> Null]

-----------------------------------------------------------------------------
Changes == coll.version + coll.generation
ReadyChunks == {c \in Chunk : chunk[c] = "ready"}
Exists(c) == chunk[c] \in {"ready", "hidden"}
Fresh(C) == \A c \in C : chunk[c] = "none"

(* A session that is revoked no longer answers for its guest. *)
LiveActor(a) == a \in Guest => guest[a] = a
UserOf(a) == IF a \in User THEN a ELSE Null

Put(C, place) == chunk' = [c \in Chunk |-> IF c \in C THEN place ELSE chunk[c]]

(* Documents are removed, and their chunks with them (delete_document, a source's *)
(* vanished pages, cleanup).                                                      *)
RemoveDocuments(C) ==
  /\ Changes + 2 <= MaxChanges
  /\ C # {} /\ \A c \in C : Exists(c)
  /\ Put(C, "gone")
  /\ coll' = [version |-> coll.version + 1, generation |-> coll.generation + 1]
  /\ UNCHANGED <<guest, conv, row, req>>

(* Documents are reset, and their chunks hidden until the ingestion ends. *)
ResetDocuments(C) ==
  /\ Changes + 1 <= MaxChanges
  /\ C # {} /\ C \subseteq ReadyChunks
  /\ Put(C, "hidden")
  /\ coll' = [coll EXCEPT !.version = @ + 1]
  /\ UNCHANGED <<guest, conv, row, req>>

(* Mutant: the new chunks replace the old ones in silence. *)
StoreSilently(old, new) ==
  /\ Changes + 1 <= MaxChanges
  /\ new # {} /\ Fresh(new) /\ new \cap Facts = {}
  /\ old = {c \in Chunk : chunk[c] = "hidden"}
  /\ chunk' = [c \in Chunk |-> IF c \in new THEN "ready" ELSE
                               IF c \in old THEN "gone" ELSE chunk[c]]
  /\ UNCHANGED <<coll, guest, conv, row, req>>

(* _store_chunks: new chunks, in place of those of the document that was reset. *)
StoreChunks(old, new) ==
  /\ Changes + 1 <= MaxChanges
  /\ new # {} /\ Fresh(new) /\ new \cap Facts = {}
  /\ old = {c \in Chunk : chunk[c] = "hidden"}
  /\ chunk' = [c \in Chunk |-> IF c \in new THEN "ready" ELSE
                               IF c \in old THEN "gone" ELSE chunk[c]]
  /\ coll' = [coll EXCEPT !.generation = @ + 1]
  /\ UNCHANGED <<guest, conv, row, req>>

(* An extraction replaces or removes its facts: the data version stays. *)
ReplaceFacts(old, new) ==
  /\ Changes + 1 <= MaxChanges
  /\ old \cup new # {} /\ old \cup new \subseteq Facts
  /\ Fresh(new) /\ \A c \in old : Exists(c)
  /\ chunk' = [c \in Chunk |-> IF c \in new THEN "ready" ELSE
                               IF c \in old THEN "gone" ELSE chunk[c]]
  /\ coll' = [coll EXCEPT !.generation = @ + 1]
  /\ UNCHANGED <<guest, conv, row, req>>

-----------------------------------------------------------------------------
(* create_conversation: the request's session was loaded some time ago, and a *)
(* guest's is locked and looked at again.                                     *)
CreateConversation(c, a) ==
  /\ conv[c] = Null
  /\ LiveActor(a)
  /\ conv' = [conv EXCEPT ![c] = a]
  /\ UNCHANGED <<coll, chunk, guest, row, req>>

Owned(s) == {c \in Conv : conv[c] = s}

(* claim_guest_conversations and the rotation of the session, in one transaction. *)
SignIn(s, u) ==
  /\ guest[s] = s
  /\ guest' = [guest EXCEPT ![s] = u]
  /\ conv' = [c \in Conv |-> IF c \in Owned(s) THEN u ELSE conv[c]]
  /\ row' = [q \in Query |-> IF row[q] # Null /\ row[q].conv \in Owned(s)
                             THEN [row[q] EXCEPT !.user = u] ELSE row[q]]
  /\ UNCHANGED <<coll, chunk, req>>

Logout(s) ==
  /\ guest[s] = s
  /\ guest' = [guest EXCEPT ![s] = Null]
  /\ UNCHANGED <<coll, chunk, conv, row, req>>

-----------------------------------------------------------------------------
Open(q) == req[q] # Null /\ req[q].at \in {"fetched", "loaded"}

(* The request is admitted, and reads the data version with its collection. *)
(* It names a conversation and a query that there are, or it is refused.    *)
FetchCollection(q, a, c, parent, role) ==
  /\ req[q] = Null
  /\ Cardinality({s \in Query : Open(s)}) < MaxStreams
  /\ LiveActor(a)
  /\ c # Null => conv[c] = a
  /\ parent # Null => c # Null /\ row[parent] # Null
  /\ req' = [req EXCEPT ![q] =
       [at |-> "fetched", actor |-> a, conv |-> c, parent |-> parent, role |-> role,
        version |-> coll.version, generation |-> 0, reset |-> FALSE,
        turns |-> {}, cites |-> {}]]
  /\ UNCHANGED <<coll, chunk, guest, conv, row>>

(* The questions that a follow-up of q builds on: q and, one after the other, what each  *)
(* follows up, up to MaxTurns of them, one that was asked anew, or one that is not there. *)
Continues(q, c) == row[q] # Null /\ row[q].conv = c /\ row[q].outcome \in Continued

Chain(q, c) ==
  {t \in Query :
     \E n \in 1 .. MaxTurns : \E turn \in [1 .. n -> Query] :
       /\ turn[1] = q /\ turn[n] = t
       /\ \A i \in 1 .. n - 1 :
            ~row[turn[i]].reset /\ row[turn[i]].parent = turn[i + 1] /\ Continues(turn[i + 1], c)}

SameContext(q, role) == row[q].generation = coll.generation /\ row[q].role = role

(* load_conversation_context: the conversation must be the caller's, the *)
(* parent a completed query of it.  A question asked of other sources, or in other *)
(* role, resets the context; so does a parent too long for the token budget.       *)
LoadContext(q, fits) ==
  LET r == req[q]
      chain == IF r.parent = Null THEN {} ELSE Chain(r.parent, r.conv)
      reset == r.parent # Null /\ (~fits \/ \E t \in chain : ~SameContext(t, r.role))
  IN  /\ r # Null /\ r.at = "fetched" /\ r.conv # Null
      /\ conv[r.conv] = r.actor
      /\ r.parent # Null => Continues(r.parent, r.conv)
      /\ req' = [req EXCEPT ![q].at = "loaded", ![q].generation = coll.generation,
                            ![q].reset = reset, ![q].turns = IF reset THEN {} ELSE chain]
      /\ UNCHANGED <<coll, chunk, guest, conv, row>>

(* A query outside any conversation has no context. *)
StartAlone(q) ==
  /\ req[q] # Null /\ req[q].at = "fetched" /\ req[q].conv = Null
  /\ req' = [req EXCEPT ![q].at = "loaded"]
  /\ UNCHANGED <<coll, chunk, guest, conv, row>>

(* Retrieval, of the question and of the facets that are planned for it, takes a *)
(* passage into the answer's context.                                            *)
Retrieve(q, c) ==
  /\ req[q] # Null /\ req[q].at = "loaded"
  /\ Cardinality(req[q].cites) < MaxCited
  /\ c \in ReadyChunks \ req[q].cites /\ req[q].role \in Readers[c]
  /\ req' = [req EXCEPT ![q].cites = @ \cup {c}]
  /\ UNCHANGED <<coll, chunk, guest, conv, row>>

(* Mutant: the owner is the one who asked. *)
AskedBy(q) == UserOf(req[q].actor)

(* The owner that the conversation, which is locked, has now. *)
OwnerOf(q) == IF req[q].conv = Null THEN UserOf(req[q].actor) ELSE UserOf(conv[req[q].conv])

(* The documents are those that the request found, under the collection's lock. *)
Unchanged(q) == req[q].version = coll.version

RowOf(q, outcome) ==
  [conv |-> req[q].conv, parent |-> req[q].parent, user |-> OwnerOf(q), role |-> req[q].role,
   generation |-> req[q].generation, reset |-> req[q].reset, outcome |-> outcome,
   cites |-> req[q].cites]

(* What the client hears, if it still listens.  A query outside any conversation *)
(* is answered whether or not it could be recorded.                              *)
Reply(q, saved, outcome) ==
  IF outcome \in Continued /\ (saved \/ req[q].conv = Null) THEN "done" ELSE "error"

(* The ways a pipeline ends: a clarification comes before any retrieval, and only *)
(* for a follow-up; the model refuses with passages before it, the gate without.  *)
Possible(q, outcome) == outcome = "clarification" => req[q].parent # Null /\ req[q].cites = {}

(* _record_query, in one transaction; a chunk that is gone breaks its foreign key. *)
Record(q, outcome) ==
  LET saved == Unchanged(q) /\ \A c \in req[q].cites : Exists(c)
  IN  /\ req[q] # Null /\ req[q].at = "loaded"
      /\ Possible(q, outcome)
      /\ row' = IF saved THEN [row EXCEPT ![q] = RowOf(q, outcome)] ELSE row
      /\ req' = [req EXCEPT ![q] = [at |-> Reply(q, saved, outcome)]]
      /\ UNCHANGED <<coll, chunk, guest, conv>>

(* The connection to the client or the process is lost: before the pipeline ran, *)
(* or with no record of it.                                                      *)
Crash(q) ==
  /\ Open(q)
  /\ req' = [req EXCEPT ![q] = [at |-> "error"]]
  /\ UNCHANGED <<coll, chunk, guest, conv, row>>

(* build_history_page: what a transcript shows of a recorded query, the passages it cites *)
(* that are still stored, whatever role asks.                                              *)
Shown(q) == {c \in row[q].cites : Exists(c)}

Corpus ==
  \E old, new \in SUBSET Chunk :
    \/ new = {} /\ (RemoveDocuments(old) \/ ResetDocuments(old))
    \/ StoreChunks(old, new)
    \/ ReplaceFacts(old, new)

Owners ==
  \/ \E c \in Conv, a \in Actor : CreateConversation(c, a)
  \/ \E s \in Guest : Logout(s) \/ \E u \in User : SignIn(s, u)

Ask(q) ==
  \/ \E a \in Actor, c \in Conv \cup {Null}, p \in Query \cup {Null}, r \in Role :
       FetchCollection(q, a, c, p, r)
  \/ \E fits \in BOOLEAN : LoadContext(q, fits)
  \/ StartAlone(q)
  \/ \E c \in Chunk : Retrieve(q, c)
  \/ \E outcome \in Outcome : Record(q, outcome)
  \/ Crash(q)

Next == Corpus \/ Owners \/ \E q \in Query : Ask(q)

Spec == Init /\ [][Next]_vars

-----------------------------------------------------------------------------
TypeOK ==
  /\ coll \in [version : Nat, generation : Nat]
  /\ chunk \in [Chunk -> Place]
  /\ guest \in [Guest -> Actor \cup {Null}]
  /\ conv \in [Conv -> Actor \cup {Null}]
  /\ row \in [Query -> Row \cup {Null}]
  /\ req \in [Query -> Request \cup Ended \cup {Null}]

(* A conversation's queries belong to whoever owns the conversation, also when *)
(* it was claimed while one of them was streaming.                             *)
OwnersAgree ==
  \A q \in Query :
    row[q] # Null /\ row[q].conv # Null => row[q].user = UserOf(conv[row[q].conv])

(* Signing in leaves no conversation with the session that it revokes, also when *)
(* one is created at the same moment.                                            *)
NothingLeftBehind ==
  \A c \in Conv :
    conv[c] \in Guest => guest[conv[c]] \notin User

(* A follow-up that kept its context was asked of the sources, and in the role, of *)
(* the query that it follows.                                                      *)
ContextOfOneSource ==
  \A q \in Query :
    row[q] # Null /\ row[q].parent # Null /\ ~row[q].reset =>
      LET p == row[row[q].parent]
      IN  p.conv = row[q].conv /\ p.generation = row[q].generation /\ p.role = row[q].role

(* Every passage that the answers of a kept context were drawn from is still stored, *)
(* and the one who asks may read it.                                                 *)
EvidenceStands ==
  [][\A q \in Query :
       req[q] # Null /\ req[q].at = "fetched" /\ req'[q].at = "loaded" =>
         \A t \in req'[q].turns :
           row[t].cites \subseteq {c \in Chunk : Exists(c) /\ req[q].role \in Readers[c]}]_vars

(* A recorded answer cites only passages that could be retrieved at the moment it *)
(* was recorded: nothing was removed or reset since they were.                    *)
RecordedOfTheCorpus ==
  [][\A q \in Query :
       row[q] = Null /\ row'[q] # Null => row'[q].cites \subseteq ReadyChunks]_vars

(* What a transcript shows of an answer changes only with the generation of the sources, *)
(* after which no follow-up keeps the answer as its context.                              *)
TranscriptsStay ==
  [][\A q \in Query :
       row[q] # Null /\ Shown(q)' # Shown(q) => coll'.generation > coll.generation]_vars

(* Whoever is told that a query of a conversation is done finds it in the history, *)
(* and can follow it up.                                                           *)
DoneIsRecorded ==
  [][\A q \in Query :
       Open(q) /\ req'[q].at = "done" /\ req[q].conv # Null => row'[q] # Null]_vars

-----------------------------------------------------------------------------
(* What the properties rest on, inductively.                                   *)

(* A record comes once, at its query's end, after what it follows up; while the sources are *)
(* those it was drawn from, its passages are there.                                          *)
RowConsistent(q) ==
  row[q] # Null =>
    /\ req[q] # Null /\ ~Open(q)
    /\ row[q].conv # Null => conv[row[q].conv] # Null
    /\ row[q].parent # Null => row[row[q].parent] # Null
    /\ row[q].generation <= coll.generation
    /\ row[q].generation = coll.generation => \A c \in row[q].cites : Exists(c)
    /\ \A c \in row[q].cites : row[q].role \in Readers[c]

(* A request remembers no later corpus than there is, and, while the documents are those that *)
(* it found, nothing that it took from them is hidden.                                         *)
RequestConsistent(q) ==
  Open(q) =>
    /\ req[q].conv # Null => conv[req[q].conv] # Null
    /\ req[q].parent # Null => req[q].conv # Null /\ row[req[q].parent] # Null
    /\ req[q].version <= coll.version /\ req[q].generation <= coll.generation
    /\ req[q].version = coll.version => \A c \in req[q].cites : chunk[c] \in {"ready", "gone"}
    /\ \A c \in req[q].cites : req[q].role \in Readers[c]
    /\ req[q].at = "fetched" => req[q].turns = {}
    /\ req[q].at = "loaded" /\ req[q].parent # Null /\ ~req[q].reset =>
         LET p == row[req[q].parent]
         IN  p.conv = req[q].conv /\ p.generation = req[q].generation /\ p.role = req[q].role

IInv ==
  /\ TypeOK /\ OwnersAgree /\ NothingLeftBehind /\ ContextOfOneSource
  /\ \A q \in Query : RowConsistent(q) /\ RequestConsistent(q)
=============================================================================
