---------------------------- MODULE Idempotency ----------------------------
(* One Idempotency-Key in Redis and the non-streaming queries that carry it: *)
(* core/idempotency.py, with the fingerprint and the cache check that        *)
(* api/v1/query.py passes and the purge of a wipe (cli.py).  The collection  *)
(* is its data_version; an answer is the version it was retrieved from.      *)
EXTENDS Integers, FiniteSets

CONSTANTS
  Request,    \* requests with this key; a client's retry is another request
  Question,   \* everything the fingerprint binds but the version
  Null,
  May,        \* what may go wrong, and whether a wipe may purge the key
  MaxVersion  \* bound: how often the collection changes

Mishap == {"failure", "crash", "redis", "purge"}

Version == 0 .. MaxVersion
Result == [question : Question, accepted : Version, made : Version]

(* What Redis holds is a token, a result or nothing. *)
ASSUME ValueAssumption == Null \notin Request /\ (Request \cup {Null}) \cap Result = {}
ASSUME MayAssumption == May \subseteq Mishap
ASSUME VersionAssumption == MaxVersion \in Nat

VARIABLES
  version,  \* Collection.data_version
  key,      \* the value in Redis: Null, the token of a request, or a stored result
  req,      \* where each request is
  disturbed \* history: Redis has failed a call, or a wipe has purged the key

vars == <<version, key, req, disturbed>>

Running == {"handling", "answered", "storing", "releasing"}
Handling == Running \cup {"unkeyed"}
Ended == {"done", "failed", "conflict", "refused", "replayed", "dead"}
Phase == {"new", "accepted", "unkeyed", "lost", "checking"} \cup Running \cup Ended

Unsent == [at |-> "new", question |-> Null, accepted |-> 0, made |-> 0, found |-> Null]

Init ==
  /\ version = 0
  /\ key = Null
  /\ req = [r \in Request |-> Unsent]
  /\ disturbed = FALSE

-----------------------------------------------------------------------------
Goto(r, from, to) == req[r].at = from /\ req' = [req EXCEPT ![r].at = to]

(* The collection is read, and its version bound into the fingerprint. *)
Accept(r, q) ==
  /\ req[r].at = "new"
  /\ req' = [req EXCEPT ![r] = [Unsent EXCEPT !.at = "accepted", !.question = q,
                                              !.accepted = version]]
  /\ UNCHANGED <<version, key, disturbed>>

(* Mutant: SET without NX. *)
SetAlways(r) ==
  /\ Goto(r, "accepted", "handling")
  /\ key' = r
  /\ UNCHANGED <<version, disturbed>>

(* SET NX. *)
SetIfAbsent(r) ==
  /\ \/ key = Null /\ Goto(r, "accepted", "handling") /\ key' = r
     \/ key # Null /\ Goto(r, "accepted", "lost") /\ UNCHANGED key
  /\ UNCHANGED <<version, disturbed>>

(* "Redis down: fail open". *)
FailOpen(r) ==
  /\ "redis" \in May
  /\ Goto(r, "accepted", "unkeyed")
  /\ disturbed' = TRUE
  /\ UNCHANGED <<version, key>>

EndUnkeyed(r) ==
  /\ Goto(r, "unkeyed", "done")
  /\ UNCHANGED <<version, key, disturbed>>

(* The handler answers from the chunks there are now. *)
Answer(r) ==
  /\ req[r].at = "handling"
  /\ req' = [req EXCEPT ![r].at = "answered", ![r].made = version]
  /\ UNCHANGED <<version, key, disturbed>>

(* _RELEASE_LUA and _STORE_LUA compare the value with the request's own token. *)
Release(r) == key' = IF key = r THEN Null ELSE key

Store(r) ==
  key' = IF key = r
         THEN [question |-> req[r].question, accepted |-> req[r].accepted, made |-> req[r].made]
         ELSE key

(* Redis may be gone by then: the token stays until it expires. *)
OrNot(A) ==
  \/ A /\ UNCHANGED disturbed
  \/ "redis" \in May /\ UNCHANGED key /\ disturbed' = TRUE

(* Mutant: an error locks the key for the whole TTL. *)
FailLocked(r) ==
  /\ "failure" \in May
  /\ Goto(r, "handling", "failed")
  /\ UNCHANGED <<version, key, disturbed>>

Fail(r) ==
  /\ "failure" \in May
  /\ Goto(r, "handling", "failed")
  /\ OrNot(Release(r))
  /\ UNCHANGED version

CacheValid(r) == version = req[r].accepted

(* cache_valid after the handler: what it found may be outdated when it is used. *)
CheckAnswer(r) ==
  /\ Goto(r, "answered", IF CacheValid(r) THEN "storing" ELSE "releasing")
  /\ UNCHANGED <<version, key, disturbed>>

EndStoring(r) ==
  /\ Goto(r, "storing", "done")
  /\ OrNot(Store(r))
  /\ UNCHANGED version

EndReleasing(r) ==
  /\ Goto(r, "releasing", "done")
  /\ OrNot(Release(r))
  /\ UNCHANGED version

(* The request that lost reads the value: 409 while another one runs, or if the *)
(* value is gone.                                                               *)
Get(r) ==
  /\ \/ key \in Request \cup {Null} /\ Goto(r, "lost", "conflict")
     \/ /\ key \notin Request \cup {Null}
        /\ req[r].at = "lost"
        /\ req' = [req EXCEPT ![r].at = "checking", ![r].found = key]
  /\ UNCHANGED <<version, key, disturbed>>

(* Mutant: the fingerprint leaves the data version out. *)
SameQuestion(r) == req[r].found.question = req[r].question

SameFingerprint(r) ==
  /\ req[r].found.question = req[r].question
  /\ req[r].found.accepted = req[r].accepted

Replay(r) ==
  /\ Goto(r, "checking", IF CacheValid(r) /\ SameFingerprint(r) THEN "replayed" ELSE "refused")
  /\ UNCHANGED <<version, key, disturbed>>

-----------------------------------------------------------------------------
(* A document is deleted, replaced or reset, or the collection is wiped. *)
ChangeCollection ==
  /\ version < MaxVersion
  /\ version' = version + 1
  /\ UNCHANGED <<key, req, disturbed>>

(* The wipe goes on to delete the tenant's keys, tokens included. *)
PurgeTenantCache ==
  /\ "purge" \in May
  /\ version > 0
  /\ key # Null
  /\ key' = Null
  /\ disturbed' = TRUE
  /\ UNCHANGED <<version, req>>

(* The server dies while it serves a request. *)
Crash(r) ==
  /\ "crash" \in May
  /\ req[r].at \notin {"new"} \cup Ended
  /\ req' = [req EXCEPT ![r].at = "dead"]
  /\ UNCHANGED <<version, key, disturbed>>

(* The value expires: a request runs for less than the time to live of its token. *)
Expire ==
  /\ key # Null
  /\ key \in Request => req[key].at \in Ended
  /\ key' = Null
  /\ UNCHANGED <<version, req, disturbed>>

Step(r) ==
  \/ SetIfAbsent(r) \/ FailOpen(r) \/ EndUnkeyed(r)
  \/ Answer(r) \/ Fail(r) \/ CheckAnswer(r) \/ EndStoring(r) \/ EndReleasing(r)
  \/ Get(r) \/ Replay(r)

Next ==
  \/ \E r \in Request : Step(r) \/ Crash(r) \/ \E q \in Question : Accept(r, q)
  \/ ChangeCollection \/ PurgeTenantCache \/ Expire

Spec == Init /\ [][Next]_vars

-----------------------------------------------------------------------------
TypeOK ==
  /\ disturbed \in BOOLEAN
  /\ version \in Version
  /\ key \in Request \cup Result \cup {Null}
  /\ req \in [Request -> [at : Phase, question : Question \cup {Null}, accepted : Version,
                          made : Version, found : Result \cup {Null}]]

(* A replayed response answers the question that was asked from the collection as *)
(* it is when the replay is decided: nothing that was removed comes back, though  *)
(* it was checked and stored in separate calls.                                   *)
ReplayIsCurrent ==
  [][\A r \in Request :
       req'[r].at = "replayed" /\ req[r].at # "replayed" =>
         /\ req[r].found.question = req[r].question
         /\ req[r].found.made = version]_vars

(* A request removes or replaces no token but its own, however late it ends. *)
OthersTokenKept ==
  [][\A r \in Request : key = r /\ req[r].at \in Running /\ ~PurgeTenantCache =>
       key' = r \/ req'[r].at # req[r].at]_vars

(* "a concurrent duplicate": one request at a time runs the handler for the key, *)
(* as long as Redis has worked and no wipe has purged it.                        *)
OneRunning ==
  disturbed \/ \A r, s \in Request : {req[r].at, req[s].at} \subseteq Handling => r = s

(* "an error must not lock the key for the whole TTL": a failed request leaves no *)
(* token behind, as long as Redis has worked.                                     *)
FailureReleases == disturbed \/ \A r \in Request : req[r].at = "failed" => key # r

(* The inductive invariant: a result that is stored, or about to be, was made from *)
(* the version its request accepted, and without outages or purges a request owns  *)
(* the key exactly while it runs.                                                  *)
ResultConsistent(v) == v \in Result => v.made = v.accepted

RequestConsistent(r) ==
  /\ req[r].accepted <= version /\ req[r].made <= version
  /\ req[r].at # "new" => req[r].question \in Question
  /\ req[r].at = "answered" => req[r].accepted <= req[r].made
  /\ req[r].at = "storing" => req[r].accepted = req[r].made
  /\ req[r].at = "checking" => req[r].found \in Result
  /\ ResultConsistent(req[r].found)

KeyOwned(r) ==
  \/ disturbed
  \/ /\ req[r].at \in Handling => key = r
     /\ req[r].at = "failed" => key # r

IInv ==
  /\ TypeOK
  /\ ResultConsistent(key)
  /\ \A r \in Request : RequestConsistent(r) /\ KeyOwned(r)
=============================================================================
