------------------------- MODULE IdempotencyProofs -------------------------
(* Theorems about what a request passes before its handler: one idempotency key, for any *)
(* number of requests and changes; the bucket and the daily quota of a visitor, the       *)
(* counted attempts, and who a request is taken for, at any rates and limits.              *)
EXTENDS Admission, FiniteSetTheorems, TLAPS

(* Nothing is stored and no request has been sent. *)
LEMMA InitInv == Init => IInv
<1> SUFFICES ASSUME Init PROVE IInv
  OBVIOUS
<1>1. 0 \in Version
  BY VersionAssumption DEF Version
<1>2. TypeOK
  BY <1>1 DEF Init, TypeOK, Unsent, Phase
<1>3. ResultConsistent(key)
  BY ValueAssumption DEF Init, ResultConsistent
<1>4. ASSUME NEW r \in Request
      PROVE  RequestConsistent(r) /\ KeyOwned(r)
  BY <1>4, ValueAssumption DEF Init, RequestConsistent, KeyOwned, ResultConsistent, Unsent, Handling, Running
<1> QED BY <1>2, <1>3, <1>4 DEF IInv

(* A step that moves one request to another phase without touching what it carries. *)
LEMMA MoveInv ==
  ASSUME IInv, NEW r \in Request, NEW to \in Phase,
         req' = [req EXCEPT ![r].at = to], version' = version,
         req[r].at # "new",
         to \notin {"answered", "checking"},
         to = "storing" => req[r].accepted = req[r].made,
         key' \in Request \cup Result \cup {Null},
         ResultConsistent(key'),
         \A s \in Request : s # r /\ KeyOwned(s) => KeyOwned(s)',
         disturbed' \in BOOLEAN,
         \/ disturbed'
         \/ (to \in Handling => key' = r) /\ (to = "failed" => key' # r)
  PROVE  IInv'
<1>1. TypeOK'
  BY DEF IInv, TypeOK
<1>2. ASSUME NEW s \in Request
      PROVE  RequestConsistent(s)' /\ KeyOwned(s)'
  <2>1. CASE s = r
    BY <2>1 DEF IInv, TypeOK, RequestConsistent, KeyOwned
  <2>2. CASE s # r
    BY <2>2 DEF IInv, TypeOK, RequestConsistent
  <2> QED BY <2>1, <2>2
<1>3. ResultConsistent(key)'
  BY DEF ResultConsistent, Result
<1> QED BY <1>1, <1>2, <1>3 DEF IInv

(* Accepting a request binds it to the version there is. *)
LEMMA AcceptInv ==
  ASSUME IInv, NEW r \in Request, NEW q \in Question, Accept(r, q)
  PROVE  IInv'
<1> DEFINE new == [Unsent EXCEPT !.at = "accepted", !.question = q, !.accepted = version]
<1>1. req' = [req EXCEPT ![r] = new] /\ version' = version /\ key' = key /\ disturbed' = disturbed
  BY DEF Accept
<1>0. 0 \in Version /\ version \in Version /\ "accepted" \in Phase
  BY VersionAssumption DEF Version, Phase, IInv, TypeOK
<1>2. /\ new \in [at : Phase, question : Question \cup {Null}, accepted : Version,
                  made : Version, found : Result \cup {Null}]
      /\ new.at = "accepted" /\ new.question = q /\ new.accepted = version
      /\ new.made = 0 /\ new.found = Null
  BY <1>0 DEF Unsent
<1> HIDE DEF new
<1>3. TypeOK'
  BY <1>1, <1>2 DEF IInv, TypeOK
<1>4. ASSUME NEW s \in Request
      PROVE  RequestConsistent(s)' /\ KeyOwned(s)'
  <2>1. CASE s = r
    BY <1>1, <1>2, <2>1, ValueAssumption
       DEF IInv, TypeOK, Version, RequestConsistent, KeyOwned, ResultConsistent, Handling, Running
  <2>2. CASE s # r
    BY <1>1, <2>2 DEF IInv, TypeOK, RequestConsistent, KeyOwned
  <2> QED BY <2>1, <2>2
<1>5. ResultConsistent(key)'
  BY <1>1 DEF IInv, ResultConsistent, Result
<1> QED BY <1>3, <1>4, <1>5 DEF IInv

(* What an answer is made from is not older than what its request accepted. *)
LEMMA AnswerInv ==
  ASSUME IInv, NEW r \in Request, Answer(r)
  PROVE  IInv'
<1>1. /\ req' = [req EXCEPT ![r].at = "answered", ![r].made = version]
      /\ version' = version /\ key' = key /\ disturbed' = disturbed
      /\ req[r].at = "handling"
  BY DEF Answer
<1>2. TypeOK'
  BY <1>1 DEF IInv, TypeOK, Phase, Running
<1>3. ASSUME NEW s \in Request
      PROVE  RequestConsistent(s)' /\ KeyOwned(s)'
  <2>1. CASE s = r
    BY <1>1, <2>1 DEF IInv, TypeOK, Version, RequestConsistent, KeyOwned, Handling, Running
  <2>2. CASE s # r
    BY <1>1, <2>2 DEF IInv, TypeOK, RequestConsistent, KeyOwned
  <2> QED BY <2>1, <2>2
<1>4. ResultConsistent(key)'
  BY <1>1 DEF IInv, ResultConsistent, Result
<1> QED BY <1>2, <1>3, <1>4 DEF IInv

(* A result is picked up as it was stored. *)
LEMMA GetInv ==
  ASSUME IInv, NEW r \in Request, Get(r)
  PROVE  IInv'
<1>1. CASE Goto(r, "lost", "conflict")
  <2>1. /\ req' = [req EXCEPT ![r].at = "conflict"] /\ req[r].at = "lost"
        /\ version' = version /\ key' = key /\ disturbed' = disturbed
    BY <1>1 DEF Get, Goto
  <2>2. "conflict" \in Phase \ Handling
    BY DEF Phase, Handling, Running, Ended
  <2>3. /\ key' \in Request \cup Result \cup {Null}
        /\ ResultConsistent(key')
        /\ \A s \in Request : s # r /\ KeyOwned(s) => KeyOwned(s)'
        /\ disturbed' \in BOOLEAN
    BY <2>1 DEF IInv, TypeOK, KeyOwned
  <2>4. "conflict" \notin {"answered", "checking", "storing", "failed"} \cup Handling
    BY DEF Handling, Running
  <2> QED BY <2>1, <2>2, <2>3, <2>4, MoveInv
<1>2. CASE /\ key \notin Request \cup {Null} /\ req[r].at = "lost"
           /\ req' = [req EXCEPT ![r].at = "checking", ![r].found = key]
  <2>1. version' = version /\ key' = key /\ key \in Result /\ disturbed' = disturbed
    BY <1>2 DEF Get, IInv, TypeOK
  <2>2. TypeOK'
    <3> DEFINE Record == [at : Phase, question : Question \cup {Null}, accepted : Version,
                          made : Version, found : Result \cup {Null}]
    <3>1. req \in [Request -> Record] /\ "checking" \in Phase
      BY DEF IInv, TypeOK, Phase
    <3>2. [req[r] EXCEPT !.at = "checking", !.found = key] \in Record
      BY <2>1, <3>1
    <3>3. req' = [req EXCEPT ![r] = [req[r] EXCEPT !.at = "checking", !.found = key]]
      BY <1>2
    <3> HIDE DEF Record
    <3>4. req' \in [Request -> Record]
      BY <3>1, <3>2, <3>3
    <3> QED BY <2>1, <3>4 DEF IInv, TypeOK, Record
  <2>3. ASSUME NEW s \in Request
        PROVE  RequestConsistent(s)' /\ KeyOwned(s)'
    <3>1. CASE s = r
      BY <1>2, <2>1, <3>1 DEF IInv, TypeOK, RequestConsistent, KeyOwned, Handling, Running, ResultConsistent
    <3>2. CASE s # r
      BY <1>2, <2>1, <3>2 DEF IInv, TypeOK, RequestConsistent, KeyOwned
    <3> QED BY <3>1, <3>2
  <2>4. ResultConsistent(key)'
    BY <2>1 DEF IInv, ResultConsistent, Result
  <2> QED BY <2>2, <2>3, <2>4 DEF IInv
<1> QED BY <1>1, <1>2 DEF Get

(* The steps that leave the key alone, or touch it only if it is the request's own. *)
LEMMA StoreOK ==
  ASSUME IInv, NEW r \in Request, req[r].at \in Running,
         OrNot(Release(r)) \/ (req[r].at = "storing" /\ OrNot(Store(r)))
  PROVE  /\ key' \in Request \cup Result \cup {Null}
         /\ ResultConsistent(key')
         /\ \A s \in Request : s # r => (key = s <=> key' = s)
         /\ disturbed' = TRUE \/ (disturbed' = disturbed /\ key' # r)
<1> DEFINE new == [question |-> req[r].question, accepted |-> req[r].accepted,
                   made |-> req[r].made]
<1>1. CASE key' = key /\ (key # r \/ disturbed') /\ disturbed' \in {disturbed, TRUE}
  BY <1>1 DEF IInv, TypeOK
<1>2. CASE key = r /\ key' = Null /\ disturbed' = disturbed
  BY <1>2, ValueAssumption DEF ResultConsistent
<1>3. CASE req[r].at = "storing" /\ key = r /\ key' = new /\ disturbed' = disturbed
  <2>1. new \in Result /\ new.made = new.accepted
    BY <1>3 DEF IInv, TypeOK, RequestConsistent, Result, Running
  <2>2. new \notin Request
    BY <2>1, ValueAssumption
  <2> QED BY <1>3, <2>1, <2>2 DEF ResultConsistent
<1>4. CASE OrNot(Release(r))
  BY <1>1, <1>2, <1>4 DEF OrNot, Release
<1>5. CASE req[r].at = "storing" /\ OrNot(Store(r))
  BY <1>1, <1>3, <1>5 DEF OrNot, Store
<1> QED BY <1>4, <1>5

(* A request that ends, well or not, leaves others' tokens alone. *)
LEMMA RunningInv ==
  ASSUME IInv, NEW r \in Request, Fail(r) \/ EndStoring(r) \/ EndReleasing(r)
  PROVE  IInv'
<1>1. PICK to \in {"failed", "done"} :
        /\ req' = [req EXCEPT ![r].at = to] /\ version' = version
  BY DEF Fail, EndStoring, EndReleasing, Goto
<1>2. /\ req[r].at \in Running
      /\ OrNot(Release(r)) \/ (req[r].at = "storing" /\ OrNot(Store(r)))
  BY DEF Fail, EndStoring, EndReleasing, Goto, Running
<1>3. /\ key' \in Request \cup Result \cup {Null}
      /\ ResultConsistent(key')
      /\ \A s \in Request : s # r => (key = s <=> key' = s)
      /\ disturbed' = TRUE \/ (disturbed' = disturbed /\ key' # r)
  BY <1>2, StoreOK
<1>4. \A s \in Request : s # r /\ KeyOwned(s) => KeyOwned(s)'
  BY <1>1, <1>3 DEF KeyOwned, IInv, TypeOK
<1>5. to \in Phase \ Handling /\ to \notin {"answered", "checking", "storing"}
  BY DEF Phase, Handling, Running, Ended
<1>6. req[r].at # "new" /\ disturbed' \in BOOLEAN
  BY <1>2, <1>3 DEF Running, IInv, TypeOK
<1> QED BY <1>1, <1>3, <1>4, <1>5, <1>6, MoveInv

(* The steps that move a request on; the only token taken is of a key that has none. *)
LEMMA QuietInv ==
  ASSUME IInv, NEW r \in Request,
         \/ SetIfAbsent(r) \/ FailOpen(r) \/ EndUnkeyed(r) \/ CheckAnswer(r)
         \/ Replay(r) \/ Crash(r)
  PROVE  IInv'
<1>1. version' = version
  BY DEF SetIfAbsent, FailOpen, EndUnkeyed, CheckAnswer, Replay, Crash
<1>2. CASE SetIfAbsent(r) /\ key = Null
  <2>1. req' = [req EXCEPT ![r].at = "handling"] /\ key' = r /\ req[r].at = "accepted"
    BY <1>2 DEF SetIfAbsent, Goto
  <2>2. "handling" \in Phase /\ disturbed' = disturbed /\ disturbed \in BOOLEAN
    BY <1>2 DEF Phase, Running, SetIfAbsent, IInv, TypeOK
  <2>3. ResultConsistent(key')
    BY <2>1, ValueAssumption DEF ResultConsistent
  <2>4. \A s \in Request : s # r /\ KeyOwned(s) => KeyOwned(s)'
    BY <1>2, <2>1, <2>2, ValueAssumption DEF KeyOwned, IInv, TypeOK
  <2> QED BY <1>1, <2>1, <2>2, <2>3, <2>4, MoveInv
<1>3. CASE key' = key /\ ~(SetIfAbsent(r) /\ key = Null)
  <2>1. PICK to \in {"lost", "unkeyed", "done", "storing", "releasing", "replayed", "refused",
                     "dead"} :
          /\ req' = [req EXCEPT ![r].at = to]
          /\ req[r].at # "new"
          /\ to = "storing" => req[r].at = "answered" /\ version = req[r].accepted
          /\ to \in Running => req[r].at = "answered"
          /\ disturbed' = disturbed \/ disturbed' = TRUE
          /\ to = "unkeyed" => disturbed'
    BY <1>3 DEF SetIfAbsent, FailOpen, EndUnkeyed, CheckAnswer, Replay, Crash, Goto, CacheValid,
                Running
  <2>2. to \in Phase
    BY DEF Phase, Running, Ended
  <2>3. to = "storing" => req[r].accepted = req[r].made
    BY <2>1 DEF IInv, TypeOK, RequestConsistent, Version
  <2>4. /\ key' \in Request \cup Result \cup {Null}
        /\ ResultConsistent(key')
        /\ disturbed' \in BOOLEAN
    BY <1>3, <2>1 DEF IInv, TypeOK
  <2>5. \A s \in Request : s # r /\ KeyOwned(s) => KeyOwned(s)'
    BY <1>3, <2>1 DEF KeyOwned, IInv, TypeOK
  <2>6. /\ to # "failed"
        /\ disturbed' \/ (to \in Handling => key' = r)
    BY <1>3, <2>1 DEF IInv, KeyOwned, Handling, Running
  <2> QED BY <1>1, <2>1, <2>2, <2>3, <2>4, <2>5, <2>6, MoveInv
<1>4. key' = key \/ (SetIfAbsent(r) /\ key = Null)
  BY DEF SetIfAbsent, FailOpen, EndUnkeyed, CheckAnswer, Replay, Crash
<1> QED BY <1>2, <1>3, <1>4

(* The collection only gets newer, and a key that is gone was a purge's or the token *)
(* of a request that has ended.                                                      *)
LEMMA EnvironmentInv ==
  ASSUME IInv, ChangeCollection \/ PurgeTenantCache \/ Expire
  PROVE  IInv'
<1>1. CASE ChangeCollection
  <2>1. /\ version' = version + 1 /\ version' \in Version /\ key' = key /\ req' = req
        /\ disturbed' = disturbed
    BY <1>1, VersionAssumption DEF ChangeCollection, IInv, TypeOK, Version
  <2>2. TypeOK' /\ ResultConsistent(key)'
    BY <2>1 DEF IInv, TypeOK, ResultConsistent
  <2>3. ASSUME NEW s \in Request
        PROVE  RequestConsistent(s)' /\ KeyOwned(s)'
    BY <2>1 DEF IInv, TypeOK, RequestConsistent, ResultConsistent, KeyOwned, Version
  <2> QED BY <2>2, <2>3 DEF IInv
<1>2. CASE PurgeTenantCache \/ Expire
  <2>1. /\ key' = Null /\ req' = req /\ version' = version
        /\ \/ disturbed' = TRUE
           \/ disturbed' = disturbed /\ \A s \in Request : key = s => req[s].at \in Ended
    BY <1>2 DEF PurgeTenantCache, Expire
  <2>2. TypeOK' /\ ResultConsistent(key)'
    BY <2>1, ValueAssumption DEF IInv, TypeOK, ResultConsistent
  <2>3. ASSUME NEW s \in Request
        PROVE  RequestConsistent(s)' /\ KeyOwned(s)'
    BY <2>1, ValueAssumption
       DEF IInv, TypeOK, RequestConsistent, ResultConsistent, KeyOwned, Handling, Running, Ended
  <2> QED BY <2>2, <2>3 DEF IInv
<1> QED BY <1>1, <1>2

(* The invariant is inductive: one case per action. *)
LEMMA StepInv == IInv /\ [Next]_vars => IInv'
<1> SUFFICES ASSUME IInv, [Next]_vars PROVE IInv'
  OBVIOUS
<1>1. CASE UNCHANGED vars
  BY <1>1 DEF vars, IInv, TypeOK, RequestConsistent, ResultConsistent, KeyOwned
<1> QED BY <1>1, AcceptInv, AnswerInv, GetInv, RunningInv, QuietInv, EnvironmentInv
        DEF Next, Step

(* Results were made from the version their request accepted, and without outages *)
(* or purges a running request owns the key.                                     *)
THEOREM Invariance == Spec => []IInv
BY InitInv, StepInv, PTL DEF Spec

(* At most one request runs the handler for a key while Redis works and no wipe *)
(* purges it (run_idempotent).                                                  *)
THEOREM RunsAlone == Spec => []OneRunning
<1>1. IInv => OneRunning
  BY DEF IInv, KeyOwned, OneRunning
<1> QED BY <1>1, Invariance, PTL

(* A request that fails leaves no token behind while Redis works. *)
THEOREM FailuresRelease == Spec => []FailureReleases
<1>1. IInv => FailureReleases
  BY DEF IInv, KeyOwned, FailureReleases
<1> QED BY <1>1, Invariance, PTL

(* A replay is decided on the same question and the current version, for any number *)
(* of concurrent duplicates and changes of the collection (fingerprint, cache_valid). *)
THEOREM ReplaysAreCurrent == Spec => ReplayIsCurrent
<1>1. ASSUME IInv, [Next]_vars, NEW r \in Request,
             req'[r].at = "replayed" /\ req[r].at # "replayed"
      PROVE  /\ req[r].found.question = req[r].question
             /\ req[r].found.made = version
  <2>1. PICK s \in Request : Step(s) \/ Crash(s) \/ \E q \in Question : Accept(s, q)
    BY <1>1 DEF Next, vars, ChangeCollection, PurgeTenantCache, Expire
  <2>2. req \in [Request -> [at : Phase, question : Question \cup {Null}, accepted : Version,
                            made : Version, found : Result \cup {Null}]]
    BY <1>1 DEF IInv, TypeOK
  <2>3. req'[s].at # "replayed" \/ Replay(s)
    <3>1. CASE \E q \in Question : Accept(s, q)
      BY <2>2, <3>1 DEF Accept, Unsent
    <3>2. CASE Answer(s) \/ Get(s)
      BY <2>2, <3>2 DEF Answer, Get, Goto
    <3>3. CASE SetIfAbsent(s) \/ FailOpen(s) \/ EndUnkeyed(s) \/ CheckAnswer(s) \/ Crash(s)
      BY <2>2, <3>3 DEF SetIfAbsent, FailOpen, EndUnkeyed, CheckAnswer, Crash, Goto
    <3>4. CASE Fail(s) \/ EndStoring(s) \/ EndReleasing(s)
      BY <2>2, <3>4 DEF Fail, EndStoring, EndReleasing, Goto
    <3> QED BY <2>1, <3>1, <3>2, <3>3, <3>4 DEF Step
  <2>4. Replay(r)
    <3>1. \E new : req' = [req EXCEPT ![s] = new]
      <4>1. CASE \E q \in Question : Accept(s, q)
        BY <4>1 DEF Accept
      <4>2. CASE Answer(s) \/ Get(s)
        BY <4>2 DEF Answer, Get, Goto
      <4>3. CASE \/ SetIfAbsent(s) \/ FailOpen(s) \/ EndUnkeyed(s) \/ CheckAnswer(s)
                 \/ Crash(s) \/ Replay(s)
        BY <4>3 DEF SetIfAbsent, FailOpen, EndUnkeyed, CheckAnswer, Crash, Replay, Goto
      <4>4. CASE Fail(s) \/ EndStoring(s) \/ EndReleasing(s)
        BY <4>4 DEF Fail, EndStoring, EndReleasing, Goto
      <4> QED BY <2>1, <4>1, <4>2, <4>3, <4>4 DEF Step
    <3>2. s = r
      BY <1>1, <2>2, <3>1
    <3> QED BY <1>1, <2>3, <3>2
  <2>5. /\ req[r].at = "checking" /\ version = req[r].accepted
        /\ req[r].found.question = req[r].question
        /\ req[r].found.accepted = req[r].accepted
    BY <1>1, <2>2, <2>4 DEF Replay, Goto, CacheValid, SameFingerprint
  <2> QED BY <1>1, <2>5 DEF IInv, RequestConsistent, ResultConsistent
<1>2. IInv /\ [Next]_vars =>
        [\A r \in Request :
           req'[r].at = "replayed" /\ req[r].at # "replayed" =>
             /\ req[r].found.question = req[r].question
             /\ req[r].found.made = version]_vars
  BY <1>1
<1> QED BY <1>2, Invariance, PTL DEF Spec, ReplayIsCurrent

-----------------------------------------------------------------------------
(* FiniteSets is instantiated with the parts. *)
LEMMA RateSizes == ASSUME NEW S PROVE (R!IsFiniteSet(S) <=> IsFiniteSet(S)) /\ R!Cardinality(S) = Cardinality(S)
BY DEF R!IsFiniteSet, R!Cardinality, IsFiniteSet, Cardinality

LEMMA TrySizes == ASSUME NEW S PROVE (T!IsFiniteSet(S) <=> IsFiniteSet(S)) /\ T!Cardinality(S) = Cardinality(S)
BY DEF T!IsFiniteSet, T!Cardinality, IsFiniteSet, Cardinality

(* Of a finite set, a part is no larger, and one more element makes it one larger. *)
LEMMA AtMostOneMore ==
  ASSUME NEW S, IsFiniteSet(S), NEW x, NEW U, U \subseteq S \cup {x}
  PROVE  IsFiniteSet(U) /\ Cardinality(U) \in Nat /\ Cardinality(S) \in Nat /\ Cardinality(U) <= Cardinality(S) + 1
<1>1. IsFiniteSet(S \cup {x}) /\ Cardinality(S \cup {x}) \in Nat /\ Cardinality(S) \in Nat
      /\ Cardinality(S \cup {x}) <= Cardinality(S) + 1
  BY FS_AddElement, FS_CardinalityType
<1> QED BY <1>1, FS_Subset, FS_CardinalityType

-----------------------------------------------------------------------------
(* Tokens in Expiry-ths. *)

LEMMA Grows == ASSUME NEW a \in Int, NEW b \in Int, a <= b, NEW k \in Nat PROVE a * k <= b * k
OBVIOUS

LEMMA Splits == ASSUME NEW a \in Int, NEW b \in Int, NEW k \in Int
                PROVE  (a + b) * k = a * k + b * k /\ (a - b) * k = a * k - b * k /\ a * k \in Int /\ b * k \in Int
OBVIOUS

(* The sizes of both buckets. *)
LEMMA SizesType ==
  /\ R!Capacity \in Nat /\ R!Slack \in Nat /\ R!Full \in Nat
  /\ Cost \in Nat /\ Cost > 0 /\ Rate \in Nat /\ Expiry \in Nat /\ Expiry > 0 /\ MaxDelay \in Nat /\ DayLimit \in Nat
  /\ MaxTime \in Nat /\ DayTicks \in Nat /\ DayTicks > 0
<1>1. /\ Cost \in Nat /\ Cost > 0 /\ Rate \in Nat /\ Expiry \in Nat /\ Expiry > 0 /\ MaxDelay \in Nat /\ DayLimit \in Nat
      /\ MaxTime \in Nat /\ DayTicks \in Nat /\ DayTicks > 0
  BY LimitsAssumption DEF R!Settings
<1>2. R!Capacity \in Nat /\ R!Slack \in Nat
  BY <1>1 DEF R!Capacity, R!Slack
<1>3. R!Full \in Nat
  BY <1>1, <1>2 DEF R!Full
<1> QED BY <1>1, <1>2, <1>3

LEMMA RateInit == R!Init => R!IInv
<1> SUFFICES ASSUME R!Init PROVE R!IInv
  OBVIOUS
<1>1. R!TypeOK
  BY SizesType DEF R!Init, R!TypeOK, R!Phase
<1>2. R!WithinRate /\ ideal <= R!Full /\ R!Bounded
  BY SizesType DEF R!Init, R!WithinRate, R!Bounded
<1>3. \A d \in R!Day : R!PassedOn(d) = {}
  BY DEF R!Init, R!PassedOn, R!At
<1>4. R!DailyQuota /\ R!PassedCounted
  BY <1>3, SizesType, RateSizes, FS_EmptySet DEF R!DailyQuota, R!PassedCounted, R!Init
<1>5. \A r \in Visit : R!ReadingRecent(r)
  BY DEF R!Init, R!ReadingRecent, R!At
<1> QED BY <1>1, <1>2, <1>4, <1>5 DEF R!IInv

(* Where a step that counts nothing leaves the day's counters. *)
LEMMA RateMove ==
  ASSUME R!IInv, NEW r \in Visit, NEW at \in R!Phase \ {"passed"}, NEW read \in Nat, ~R!At(r, "passed"),
         request' = [request EXCEPT ![r] = [at |-> at, read |-> read]], now' = now,
         at = "consuming" => read <= now /\ now - read <= MaxDelay,
         at = "counting" => read \in R!Day
  PROVE  /\ request' \in [Visit -> [at : R!Phase, read : Nat]]
         /\ \A s \in Visit : R!ReadingRecent(s)'
         /\ \A d \in R!Day : R!PassedOn(d)' = R!PassedOn(d)
<1>1. request' \in [Visit -> [at : R!Phase, read : Nat]]
  BY DEF R!IInv, R!TypeOK
<1>2. ASSUME NEW s \in Visit PROVE R!ReadingRecent(s)'
  <2>1. CASE s = r
    BY <2>1 DEF R!IInv, R!TypeOK, R!ReadingRecent, R!At
  <2>2. CASE s # r
    BY <2>2 DEF R!IInv, R!TypeOK, R!ReadingRecent, R!At
  <2> QED BY <2>1, <2>2
<1>3. ASSUME NEW d \in R!Day PROVE R!PassedOn(d)' = R!PassedOn(d)
  <2>1. \A s \in Visit : (R!At(s, "passed") /\ request[s].read = d)' <=> R!At(s, "passed") /\ request[s].read = d
    BY DEF R!IInv, R!TypeOK, R!At
  <2> QED BY <2>1 DEF R!PassedOn
<1> QED BY <1>1, <1>2, <1>3

LEMMA ReadClockInv == ASSUME R!IInv, NEW r \in Visit, R!ReadClock(r) PROVE R!IInv'
<1>1. /\ request' = [request EXCEPT ![r] = [at |-> "consuming", read |-> now]] /\ R!At(r, "new")
      /\ now' = now /\ bucket' = bucket /\ used' = used /\ ideal' = ideal /\ now \in Nat
  BY SizesType DEF R!ReadClock, R!Goto, R!IInv, R!TypeOK
<1>2. /\ request' \in [Visit -> [at : R!Phase, read : Nat]]
      /\ \A s \in Visit : R!ReadingRecent(s)'
      /\ \A d \in R!Day : R!PassedOn(d)' = R!PassedOn(d)
  <2>1. /\ "consuming" \in R!Phase \ {"passed"} /\ ~R!At(r, "passed")
        /\ "consuming" = "consuming" => now <= now /\ now - now <= MaxDelay
        /\ "consuming" = "counting" => now \in R!Day
    BY <1>1, SizesType DEF R!Phase, R!At
  <2> QED BY <1>1, <2>1, RateMove
<1>3. R!TypeOK' /\ R!WithinRate' /\ ideal' <= R!Full
  BY <1>1, <1>2 DEF R!IInv, R!TypeOK, R!WithinRate
<1>4. R!Bounded'
  BY <1>1 DEF R!IInv, R!Bounded, R!LiveBucket, R!Held
<1>5. R!DailyQuota' /\ R!PassedCounted'
  BY <1>1, <1>2 DEF R!IInv, R!DailyQuota, R!PassedCounted
<1> QED BY <1>2, <1>3, <1>4, <1>5 DEF R!IInv

(* The day that is read is one of those there are. *)
LEMMA ReadDayInv == ASSUME R!IInv, NEW r \in Visit, R!ReadDay(r) PROVE R!IInv'
<1> DEFINE day == now \div DayTicks
<1>1. day \in R!Day /\ day \in Nat
  <2>1. now \in 0 .. MaxTime
    BY DEF R!IInv, R!TypeOK
  <2>2. day \in Nat
    BY <2>1, SizesType
  <2> QED BY <2>1, <2>2 DEF R!Day
<1> HIDE DEF day
<1>2. /\ request' = [request EXCEPT ![r] = [at |-> "counting", read |-> day]] /\ R!At(r, "consumed")
      /\ now' = now /\ bucket' = bucket /\ used' = used /\ ideal' = ideal
  BY DEF R!ReadDay, R!Goto, day
<1>3. /\ request' \in [Visit -> [at : R!Phase, read : Nat]]
      /\ \A s \in Visit : R!ReadingRecent(s)'
      /\ \A d \in R!Day : R!PassedOn(d)' = R!PassedOn(d)
  <2>1. /\ "counting" \in R!Phase \ {"passed"} /\ ~R!At(r, "passed")
        /\ "counting" = "consuming" => day <= now /\ now - day <= MaxDelay
        /\ "counting" = "counting" => day \in R!Day
    BY <1>1, <1>2 DEF R!Phase, R!At
  <2> QED BY <1>1, <1>2, <2>1, RateMove
<1>4. R!TypeOK' /\ R!WithinRate' /\ ideal' <= R!Full
  BY <1>2, <1>3 DEF R!IInv, R!TypeOK, R!WithinRate
<1>5. R!Bounded'
  BY <1>2 DEF R!IInv, R!Bounded, R!LiveBucket, R!Held
<1>6. R!DailyQuota' /\ R!PassedCounted'
  BY <1>2, <1>3 DEF R!IInv, R!DailyQuota, R!PassedCounted
<1> QED BY <1>3, <1>4, <1>5, <1>6 DEF R!IInv

LEMMA RateOpenInv == ASSUME R!IInv, NEW r \in Visit, R!FailOpen(r) PROVE R!IInv'
<1>1. /\ request' = [request EXCEPT ![r] = [at |-> "open", read |-> 0]] /\ ~R!At(r, "passed")
      /\ now' = now /\ bucket' = bucket /\ used' = used /\ ideal' = ideal
  BY DEF R!FailOpen, R!At
<1>2. /\ request' \in [Visit -> [at : R!Phase, read : Nat]]
      /\ \A s \in Visit : R!ReadingRecent(s)'
      /\ \A d \in R!Day : R!PassedOn(d)' = R!PassedOn(d)
  <2>1. /\ "open" \in R!Phase \ {"passed"} /\ 0 \in Nat
        /\ "open" = "consuming" => 0 <= now /\ now - 0 <= MaxDelay
        /\ "open" = "counting" => 0 \in R!Day
    BY DEF R!Phase
  <2> QED BY <1>1, <2>1, RateMove
<1>3. R!TypeOK' /\ R!WithinRate' /\ ideal' <= R!Full
  BY <1>1, <1>2 DEF R!IInv, R!TypeOK, R!WithinRate
<1>4. R!Bounded'
  BY <1>1 DEF R!IInv, R!Bounded, R!LiveBucket, R!Held
<1>5. R!DailyQuota' /\ R!PassedCounted'
  BY <1>1, <1>2 DEF R!IInv, R!DailyQuota, R!PassedCounted
<1> QED BY <1>2, <1>3, <1>4, <1>5 DEF R!IInv

(* Each that passes has counted itself first. *)
LEMMA IncrementInv == ASSUME R!IInv, NEW r \in Visit, R!Increment(r) PROVE R!IInv'
<1> DEFINE day == request[r].read
           n == used[day] + 1
           at == IF n <= DayLimit THEN "passed" ELSE "denied"
<1>1. /\ R!At(r, "counting") /\ request' = [request EXCEPT ![r] = [at |-> at, read |-> day]]
      /\ used' = [used EXCEPT ![day] = n] /\ now' = now /\ bucket' = bucket /\ ideal' = ideal
  BY DEF R!Increment, R!Goto, R!Passes
<1>2. day \in R!Day /\ day \in Nat /\ n \in Nat /\ at \in R!Phase
  BY <1>1 DEF R!IInv, R!TypeOK, R!ReadingRecent, R!Phase
<1>3. R!TypeOK' /\ R!WithinRate' /\ ideal' <= R!Full
  BY <1>1, <1>2 DEF R!IInv, R!TypeOK, R!WithinRate
<1>4. R!Bounded'
  BY <1>1 DEF R!IInv, R!Bounded, R!LiveBucket, R!Held
<1>5. ASSUME NEW s \in Visit PROVE R!ReadingRecent(s)'
  <2>1. CASE s = r
    BY <1>1, <1>2, <2>1 DEF R!IInv, R!TypeOK, R!ReadingRecent, R!At
  <2>2. CASE s # r
    BY <1>1, <2>2 DEF R!IInv, R!TypeOK, R!ReadingRecent, R!At
  <2> QED BY <2>1, <2>2
<1>6. ASSUME NEW d \in R!Day
      PROVE  R!Cardinality(R!PassedOn(d))' <= DayLimit /\ R!Cardinality(R!PassedOn(d))' <= used'[d]
  <2>0. R!Cardinality(R!PassedOn(d)) <= DayLimit /\ R!Cardinality(R!PassedOn(d)) <= used[d] /\ used[d] \in Nat
    BY DEF R!IInv, R!DailyQuota, R!PassedCounted, R!TypeOK
  <2>1. CASE d = day /\ at = "passed"
    <3>1. R!PassedOn(d)' \subseteq R!PassedOn(d) \cup {r}
      BY <1>1, <2>1 DEF R!PassedOn, R!At, R!IInv, R!TypeOK
    <3>2. IsFiniteSet(R!PassedOn(d))
      BY LimitsAssumption, RateSizes, FS_Subset DEF R!Settings, R!PassedOn
    <3>3. /\ Cardinality(R!PassedOn(d)') \in Nat /\ Cardinality(R!PassedOn(d)) \in Nat
          /\ Cardinality(R!PassedOn(d)') <= Cardinality(R!PassedOn(d)) + 1
      BY <3>1, <3>2, AtMostOneMore
    <3>4. n = used[d] + 1 /\ n <= DayLimit /\ used'[d] = n
      BY <1>1, <1>2, <2>1 DEF R!IInv, R!TypeOK
    <3>5. R!Cardinality(R!PassedOn(d)') = Cardinality(R!PassedOn(d)') /\ R!Cardinality(R!PassedOn(d)) = Cardinality(R!PassedOn(d))
      BY RateSizes
    <3> QED BY <2>0, <3>3, <3>4, <3>5, SizesType
  <2>2. CASE ~(d = day /\ at = "passed")
    <3>1. \A s \in Visit : (R!At(s, "passed") /\ request[s].read = d)' <=> R!At(s, "passed") /\ request[s].read = d
      BY <1>1, <2>2 DEF R!IInv, R!TypeOK, R!At
    <3>2. R!PassedOn(d)' = R!PassedOn(d)
      BY <3>1 DEF R!PassedOn
    <3>3. used[d] <= used'[d] /\ used'[d] \in Nat
      BY <1>1, <1>2, <2>0 DEF R!IInv, R!TypeOK
    <3>4. R!Cardinality(R!PassedOn(d)) \in Nat
      <4>1. IsFiniteSet(R!PassedOn(d))
        BY LimitsAssumption, RateSizes, FS_Subset DEF R!Settings, R!PassedOn
      <4> QED BY <4>1, RateSizes, FS_CardinalityType
    <3> QED BY <2>0, <3>2, <3>3, <3>4
  <2> QED BY <2>1, <2>2
<1> QED BY <1>3, <1>4, <1>5, <1>6 DEF R!IInv, R!DailyQuota, R!PassedCounted

(* What the bucket holds when it is read late, and what would be in it now. *)
LEMMA ScriptBounded ==
  ASSUME R!IInv, NEW r \in Visit, R!At(r, "consuming")
  PROVE  LET tokens == R!Refilled(request[r].read)
             now0 == tokens + (now - request[r].read) * Rate
         IN  /\ tokens \in Int /\ now0 \in Int /\ tokens <= now0 /\ now0 <= R!Capacity + R!Slack
             /\ now0 * Expiry <= ideal
<1> DEFINE read == request[r].read
           tokens == R!Refilled(read)
           late == (now - read) * Rate
           sum == tokens + late
<1>1. /\ read \in Nat /\ now \in Nat /\ read <= now /\ now - read <= MaxDelay /\ ideal \in Int
      /\ R!Bounded /\ ideal <= R!Full
  BY SizesType DEF R!IInv, R!TypeOK, R!ReadingRecent
<1>2. 0 * Rate <= late /\ late <= MaxDelay * Rate /\ late \in Int
  BY <1>1, SizesType, Grows
<1>3. 0 <= late /\ late <= R!Slack
  BY <1>2, SizesType DEF R!Slack
<1>4. R!Full = (R!Capacity + R!Slack) * Expiry
  BY DEF R!Full
<1>5. CASE ~R!LiveBucket
  <2>1. tokens = R!Capacity /\ ideal = R!Full
    BY <1>1, <1>5 DEF R!Refilled, R!Bounded, R!LiveBucket
  <2>2. sum \in Int /\ sum <= R!Capacity + R!Slack /\ tokens <= sum
    BY <1>2, <1>3, <2>1, SizesType
  <2>3. sum * Expiry <= (R!Capacity + R!Slack) * Expiry
    BY <2>2, SizesType, Grows
  <2> QED BY <1>4, <2>1, <2>2, <2>3, SizesType
<1>6. CASE R!LiveBucket
  <2> DEFINE held == bucket.tokens + (now - bucket.ts) * Rate
             raw == bucket.tokens + (read - bucket.ts) * Rate
  <2>1. bucket.tokens \in Int /\ bucket.ts \in Nat /\ bucket # Null
    BY <1>6 DEF R!LiveBucket, R!IInv, R!TypeOK, R!Bucket
  <2>2. /\ raw \in Int /\ held \in Int /\ raw + late = held
    <3>1. (read - bucket.ts) * Rate + (now - read) * Rate = (now - bucket.ts) * Rate
      BY <1>1, <2>1, SizesType, Splits
    <3>2. (read - bucket.ts) * Rate \in Int /\ (now - bucket.ts) * Rate \in Int
      BY <1>1, <2>1, SizesType
    <3> QED BY <1>2, <2>1, <3>1, <3>2
  <2>3. tokens = R!Least(R!Capacity, raw)
    BY <1>6 DEF R!Refilled
  <2>4. tokens \in Int /\ tokens <= R!Capacity /\ tokens <= raw
    BY <2>2, <2>3, SizesType DEF R!Least
  <2>5. sum \in Int /\ tokens <= sum /\ sum <= R!Capacity + R!Slack /\ sum <= held
    BY <1>2, <1>3, <2>2, <2>4, SizesType
  <2>6. IF held < R!Capacity + R!Slack THEN held * Expiry <= ideal ELSE ideal = R!Full
    BY <1>1, <1>6, <2>1 DEF R!Bounded, R!Held
  <2>7. sum * Expiry <= held * Expiry /\ sum * Expiry <= (R!Capacity + R!Slack) * Expiry
    BY <2>2, <2>5, SizesType, Grows
  <2>8. sum * Expiry \in Int /\ held * Expiry \in Int
    BY <2>2, <2>5, SizesType
  <2> QED BY <1>1, <1>4, <2>4, <2>5, <2>6, <2>7, <2>8, SizesType
<1> QED BY <1>5, <1>6

(* What is taken from the bucket is in the bounding one. *)
LEMMA ScriptInv == ASSUME R!IInv, NEW r \in Visit, R!Script(r) PROVE R!IInv'
<1> DEFINE read == request[r].read
           tokens == R!Refilled(read)
           late == (now - read) * Rate
           enough == tokens >= Cost
           left == IF enough THEN tokens - Cost ELSE tokens
           at == IF enough THEN "consumed" ELSE "denied"
<1>1. /\ R!At(r, "consuming") /\ request' = [request EXCEPT ![r] = [at |-> at, read |-> 0]]
      /\ bucket' = [tokens |-> left, ts |-> read, expires |-> now + Expiry]
      /\ ideal' = IF enough THEN ideal - Cost * Expiry ELSE ideal
      /\ now' = now /\ used' = used
  BY DEF R!Script, R!Goto
<1>2. /\ read \in Nat /\ now \in Nat /\ read <= now /\ ideal \in Int /\ 0 <= ideal /\ ideal <= R!Full
  BY <1>1, SizesType DEF R!IInv, R!TypeOK, R!ReadingRecent, R!WithinRate
<1>3. /\ tokens \in Int /\ tokens + late \in Int /\ tokens <= tokens + late
      /\ tokens + late <= R!Capacity + R!Slack /\ (tokens + late) * Expiry <= ideal
  BY <1>1, ScriptBounded
<1>4. late \in Int /\ left \in Int /\ Cost * Expiry \in Nat /\ left <= tokens
  BY <1>2, <1>3, SizesType
<1>5. /\ request' \in [Visit -> [at : R!Phase, read : Nat]]
      /\ \A s \in Visit : R!ReadingRecent(s)'
      /\ \A d \in R!Day : R!PassedOn(d)' = R!PassedOn(d)
  <2>1. /\ at \in R!Phase \ {"passed"} /\ ~R!At(r, "passed") /\ 0 \in Nat
        /\ at = "consuming" => 0 <= now /\ now - 0 <= MaxDelay
        /\ at = "counting" => 0 \in R!Day
    BY <1>1 DEF R!Phase, R!At
  <2> QED BY <1>1, <2>1, RateMove
<1>6. bucket' \in R!Bucket /\ bucket' # Null
  <2>1. bucket' \in R!Bucket
    BY <1>1, <1>2, <1>4, SizesType DEF R!Bucket
  <2> QED BY <2>1, LimitsAssumption DEF R!Settings
<1>7. R!WithinRate' /\ ideal' \in Int /\ ideal' <= R!Full
  <2>1. enough => Cost * Expiry <= (tokens + late) * Expiry
    BY <1>3, SizesType, Grows
  <2>2. (tokens + late) * Expiry \in Int
    BY <1>3, SizesType
  <2> QED BY <1>1, <1>2, <1>3, <1>4, <2>1, <2>2, SizesType DEF R!WithinRate
<1>8. R!TypeOK'
  BY <1>1, <1>5, <1>6, <1>7 DEF R!IInv, R!TypeOK
<1>9. R!Bounded'
  <2> DEFINE held == left + late
  <2>0. /\ bucket'.tokens = left /\ bucket'.ts = read /\ bucket'.expires = now + Expiry /\ now' = now
        /\ R!Held' = held /\ R!LiveBucket'
    BY <1>1, <1>2, <1>6, SizesType DEF R!Held, R!LiveBucket
  <2>1. R!Full = (R!Capacity + R!Slack) * Expiry /\ (R!Capacity + R!Slack) * Expiry = Expiry * (R!Capacity + R!Slack)
    BY SizesType DEF R!Full
  <2>2. IF held < R!Capacity + R!Slack THEN held * Expiry <= ideal' ELSE ideal' = R!Full
    <3>1. CASE enough
      <4>1. held = (tokens + late) - Cost
        BY <1>3, <1>4, <3>1, SizesType
      <4>2. held * Expiry = (tokens + late) * Expiry - Cost * Expiry
        BY <1>3, <4>1, SizesType, Splits
      <4>3. held < R!Capacity + R!Slack
        BY <1>3, <4>1, SizesType
      <4>4. (tokens + late) * Expiry \in Int
        BY <1>3, SizesType
      <4> QED BY <1>1, <1>2, <1>3, <1>4, <3>1, <4>2, <4>3, <4>4
    <3>2. CASE ~enough
      <4>1. held = tokens + late /\ ideal' = ideal
        BY <1>1, <3>2
      <4>2. CASE held < R!Capacity + R!Slack
        BY <1>3, <4>1, <4>2
      <4>3. CASE ~(held < R!Capacity + R!Slack)
        <5>1. held = R!Capacity + R!Slack
          BY <1>3, <4>1, <4>3, SizesType
        <5> QED BY <1>2, <1>3, <2>1, <4>1, <4>3, <5>1, SizesType
      <4> QED BY <4>2, <4>3
    <3> QED BY <3>1, <3>2
  <2>3. ideal' + ((now + Expiry) - now) * (R!Capacity + R!Slack) >= R!Full
    <3>1. (now + Expiry) - now = Expiry
      BY <1>2, SizesType
    <3> QED BY <1>7, <2>1, <3>1, SizesType DEF R!WithinRate
  <2> QED BY <1>2, <1>6, <2>0, <2>2, <2>3 DEF R!Bounded
<1>10. R!DailyQuota' /\ R!PassedCounted'
  BY <1>1, <1>5 DEF R!IInv, R!DailyQuota, R!PassedCounted
<1> QED BY <1>5, <1>7, <1>8, <1>9, <1>10 DEF R!IInv

(* The bounding bucket fills no slower, and is full when the other is dropped. *)
LEMMA TickInv == ASSUME R!IInv, R!Tick PROVE R!IInv'
<1> DEFINE both == R!Capacity + R!Slack
<1>1. /\ now < MaxTime /\ now' = now + 1 /\ bucket' = bucket /\ used' = used /\ request' = request
      /\ ideal' = IF R!Full < ideal + both THEN R!Full ELSE ideal + both
      /\ \A r \in Visit : R!At(r, "consuming") => now - request[r].read < MaxDelay
  BY SizesType DEF R!Tick, R!Least, R!IInv, R!TypeOK
<1>2. now \in Nat /\ ideal \in Int /\ 0 <= ideal /\ ideal <= R!Full /\ both \in Nat /\ R!Capacity \in Nat
  BY SizesType DEF R!IInv, R!TypeOK, R!WithinRate
<1>3. /\ ideal' \in Int /\ ideal' <= R!Full /\ R!WithinRate' /\ (ideal = R!Full => ideal' = R!Full)
      /\ ideal' = R!Full \/ ideal' = ideal + both
  BY <1>1, <1>2, SizesType DEF R!WithinRate
<1>4. R!TypeOK'
  BY <1>1, <1>3, SizesType DEF R!IInv, R!TypeOK
<1>5. ASSUME NEW r \in Visit PROVE R!ReadingRecent(r)'
  BY <1>1, <1>2, SizesType DEF R!IInv, R!TypeOK, R!ReadingRecent, R!At
<1>6. R!DailyQuota' /\ R!PassedCounted'
  BY <1>1 DEF R!IInv, R!DailyQuota, R!PassedCounted, R!PassedOn, R!At
<1>7. R!Bounded'
  <2>1. CASE bucket = Null
    BY <1>1, <1>3, <2>1 DEF R!Bounded, R!IInv
  <2>2. CASE bucket # Null
    <3> DEFINE held == bucket.tokens + (now - bucket.ts) * Rate
               later == bucket.tokens + ((now + 1) - bucket.ts) * Rate
    <3>1. /\ bucket.tokens \in Int /\ bucket.ts \in Nat /\ bucket.expires \in Nat /\ bucket.ts <= now
          /\ R!LiveBucket <=> bucket.expires > now
      BY <2>2 DEF R!IInv, R!TypeOK, R!Bucket, R!Bounded, R!LiveBucket
    <3>2. R!LiveBucket' <=> bucket.expires > now + 1
      BY <1>1, <2>2 DEF R!LiveBucket
    <3>3. held \in Int /\ later \in Int /\ later = held + Rate
      <4>1. (now + 1) - bucket.ts = (now - bucket.ts) + 1 /\ now - bucket.ts \in Int
        BY <1>2, <3>1
      <4>2. ((now - bucket.ts) + 1) * Rate = (now - bucket.ts) * Rate + 1 * Rate /\ (now - bucket.ts) * Rate \in Int
        BY <4>1, SizesType, Splits
      <4> QED BY <3>1, <4>1, <4>2, SizesType
    <3>4. R!LiveBucket => IF held < both THEN held * Expiry <= ideal ELSE ideal = R!Full
      BY <2>2 DEF R!IInv, R!Bounded, R!Held
    <3>5. IF R!LiveBucket THEN ideal + (bucket.expires - now) * both >= R!Full ELSE ideal = R!Full
      BY <2>2 DEF R!IInv, R!Bounded
    <3>6. R!LiveBucket' => IF later < both THEN later * Expiry <= ideal' ELSE ideal' = R!Full
      <4> SUFFICES ASSUME R!LiveBucket'
                   PROVE  IF later < both THEN later * Expiry <= ideal' ELSE ideal' = R!Full
        OBVIOUS
      <4>0. R!LiveBucket
        BY <1>2, <3>1, <3>2
      <4>1. later * Expiry = held * Expiry + Rate * Expiry /\ held * Expiry \in Int /\ Rate * Expiry = R!Capacity
        BY <3>3, SizesType, Splits DEF R!Capacity
      <4>2. R!Full = both * Expiry /\ R!Full \in Nat
        BY SizesType DEF R!Full
      <4>3. later < both => later * Expiry <= both * Expiry
        BY <1>2, <3>3, SizesType, Grows
      <4>4. ~(later < both) => both * Expiry <= later * Expiry
        BY <1>2, <3>3, SizesType, Grows
      <4>5. CASE ideal' = R!Full
        BY <4>2, <4>3, <4>5
      <4>6. CASE ideal' # R!Full
        <5>1. ideal' = ideal + both /\ held * Expiry <= ideal
          BY <1>3, <3>4, <4>0, <4>6
        <5>2. later * Expiry <= ideal'
          BY <1>2, <4>1, <5>1, SizesType
        <5> QED BY <1>2, <1>3, <3>3, <4>1, <4>2, <4>4, <4>6, <5>2, SizesType
      <4> QED BY <4>5, <4>6
    <3>7. IF R!LiveBucket' THEN ideal' + (bucket.expires - (now + 1)) * both >= R!Full ELSE ideal' = R!Full
      <4>1. CASE R!LiveBucket
        <5> DEFINE rest == bucket.expires - (now + 1)
        <5>1. rest \in Nat /\ bucket.expires - now = rest + 1
          BY <1>2, <3>1, <4>1
        <5>2. (rest + 1) * both = rest * both + both /\ rest * both \in Int
          BY <1>2, <5>1, Splits
        <5>3. 0 * both <= rest * both
          BY <1>2, <5>1, Grows
        <5>4. ideal + rest * both + both >= R!Full
          BY <1>2, <3>5, <4>1, <5>1, <5>2, SizesType
        <5>5. CASE R!LiveBucket'
          <6> HIDE DEF rest
          <6>1. ideal' + rest * both >= R!Full
            BY <1>2, <1>3, <5>2, <5>3, <5>4, SizesType
          <6> QED BY <5>5, <6>1 DEF rest
        <5>6. CASE ~R!LiveBucket'
          <6>1. rest = 0
            BY <1>2, <3>1, <3>2, <4>1, <5>6
          <6>2. rest * both = 0
            BY <1>2, <6>1
          <6> QED BY <1>2, <1>3, <5>4, <5>6, <6>2, SizesType
        <5> QED BY <5>5, <5>6
      <4>2. CASE ~R!LiveBucket
        <5>1. ~R!LiveBucket'
          BY <1>2, <3>1, <3>2, <4>2
        <5> QED BY <1>3, <3>5, <4>2, <5>1
      <4> QED BY <4>1, <4>2
    <3> QED BY <1>1, <1>2, <2>2, <3>1, <3>6, <3>7 DEF R!Bounded, R!Held
  <2> QED BY <2>1, <2>2
<1> QED BY <1>3, <1>4, <1>5, <1>6, <1>7 DEF R!IInv

LEMMA RateStutter == ASSUME R!IInv, UNCHANGED R!vars PROVE R!IInv'
BY DEF R!IInv, R!vars, R!TypeOK, R!WithinRate, R!Bounded, R!LiveBucket, R!Held, R!DailyQuota, R!PassedCounted,
       R!PassedOn, R!ReadingRecent, R!At

LEMMA RateInvariant == R!Spec => []R!IInv
<1>1. R!IInv /\ [R!Next]_R!vars => R!IInv'
  BY ReadClockInv, ScriptInv, ReadDayInv, IncrementInv, RateOpenInv, TickInv, RateStutter DEF R!Next
<1> QED BY <1>1, RateInit, PTL DEF R!Spec

-----------------------------------------------------------------------------
(* Attempts. *)

LEMMA TryInit == T!Init => T!IInv
<1> SUFFICES ASSUME T!Init PROVE T!IInv
  OBVIOUS
<1>0. MaxWindow \in Nat /\ Limit \in [T!Scope -> Nat] /\ Null \notin Attempt
  BY LimitsAssumption DEF T!Settings
<1>1. T!TypeOK
  BY <1>0 DEF T!Init, T!TypeOK, T!Try, T!Unmade, T!Window
<1>2. ASSUME NEW s \in T!Scope, NEW w \in T!Window
      PROVE  /\ T!Cardinality({a \in T!Made(s, w) : T!At(a, "tried")}) <= Limit[s]
             /\ count[<<s, w>>] = T!Cardinality(T!Made(s, w))
  <2>1. T!Made(s, w) = {} /\ {a \in T!Made(s, w) : T!At(a, "tried")} = {}
    BY DEF T!Init, T!Made, T!Unmade, T!At
  <2>2. count[<<s, w>>] = 0
    <3>1. <<s, w>> \in T!Row
      BY DEF T!Row
    <3> QED BY <3>1 DEF T!Init
  <2>3. T!Cardinality({}) = 0 /\ Limit[s] \in Nat
    BY <1>0, TrySizes, FS_EmptySet
  <2> QED BY <2>1, <2>2, <2>3
<1>3. T!LocksHeld
  BY DEF T!Init, T!LocksHeld
<1>4. \A a \in Attempt : T!Counting(a)
  BY DEF T!Init, T!Counting, T!At, T!Unmade
<1> QED BY <1>1, <1>2, <1>3, <1>4 DEF T!IInv, T!TriedWithinLimit, T!RefusalsCount

(* An attempt that goes on, or is refused for want of a database, is not one of those that count. *)
LEMMA TryMove ==
  ASSUME T!IInv, NEW a \in Attempt, NEW new \in T!Try, attempt' = [attempt EXCEPT ![a] = new], count' = count,
         attempt[a].at \in {"new", "counting"}, new.at \notin {"tried", "limited"}
  PROVE  T!TriedWithinLimit' /\ T!RefusalsCount' /\ attempt' \in [Attempt -> T!Try]
<1>1. attempt' \in [Attempt -> T!Try]
  BY DEF T!IInv, T!TypeOK
<1>2. ASSUME NEW s, NEW w
      PROVE  T!Made(s, w)' = T!Made(s, w) /\ {b \in T!Made(s, w) : T!At(b, "tried")}' = {b \in T!Made(s, w) : T!At(b, "tried")}
  BY DEF T!Made, T!At, T!IInv, T!TypeOK
<1> QED BY <1>1, <1>2 DEF T!IInv, T!TriedWithinLimit, T!RefusalsCount

(* It has counted nowhere yet. *)
LEMMA CheckInv ==
  ASSUME T!IInv, NEW a \in Attempt, NEW scopes, scopes \subseteq T!Scope, T!Check(a, scopes),
         \A X \in {Address, Email} : \A s, t \in scopes \cap X : s = t
  PROVE  T!IInv'
<1> DEFINE new == [at |-> "counting", scopes |-> scopes, window |-> window, left |-> scopes, allowed |-> TRUE]
<1>1. /\ attempt' = [attempt EXCEPT ![a] = new] /\ attempt[a].at = "new"
      /\ count' = count /\ lock' = lock /\ window' = window
  BY DEF T!Check, T!At
<1>2. new \in T!Try
  BY DEF T!IInv, T!TypeOK, T!Try
<1>3. T!TriedWithinLimit' /\ T!RefusalsCount' /\ attempt' \in [Attempt -> T!Try]
  <2>1. attempt[a].at \in {"new", "counting"} /\ new.at \notin {"tried", "limited"}
    BY <1>1
  <2> HIDE DEF new
  <2> QED BY <1>1, <1>2, <2>1, TryMove
<1>4. T!TypeOK'
  BY <1>1, <1>3 DEF T!IInv, T!TypeOK
<1>5. T!LocksHeld'
  <2> SUFFICES ASSUME NEW s \in T!Row, lock[s] # Null
               PROVE  T!At(lock[s], "counting")' /\ s \in T!Counted(lock[s])'
    BY <1>1 DEF T!LocksHeld
  <2>1. lock[s] \in Attempt /\ T!At(lock[s], "counting") /\ s \in T!Counted(lock[s])
    BY DEF T!IInv, T!TypeOK, T!LocksHeld
  <2>2. attempt'[lock[s]] = attempt[lock[s]]
    BY <1>1, <2>1 DEF T!At, T!IInv, T!TypeOK
  <2> QED BY <1>1, <2>1, <2>2 DEF T!At, T!Counted, T!RowOf
<1>6. ASSUME NEW b \in Attempt PROVE T!Counting(b)'
  <2>1. CASE b = a
    <3>1. attempt'[b] = new
      BY <1>1, <2>1 DEF T!IInv, T!TypeOK
    <3> QED BY <3>1 DEF T!Counting
  <2>2. CASE b # a
    <3>1. attempt'[b] = attempt[b]
      BY <1>1, <2>2 DEF T!IInv, T!TypeOK
    <3> QED BY <1>1, <3>1 DEF T!IInv, T!Counting, T!At, T!RowOf
  <2> QED BY <2>1, <2>2
<1> QED BY <1>3, <1>4, <1>5, <1>6 DEF T!IInv

(* A row that is free is locked by the one that counts in it. *)
LEMMA UpsertInv == ASSUME T!IInv, NEW a \in Attempt, NEW s \in T!Scope, T!Upsert(a, s) PROVE T!IInv'
<1> DEFINE row == T!RowOf(a, s)
           room == attempt[a].allowed /\ count[row] + 1 <= Limit[s]
           new == [attempt[a] EXCEPT !.left = @ \ {s}, !.allowed = room]
<1>0. /\ attempt[a] \in T!Try /\ attempt[a].at = "counting" /\ Null \notin Attempt /\ Address \cap Email = {}
      /\ row \in T!Row /\ row = <<s, attempt[a].window>>
  BY LimitsAssumption DEF T!IInv, T!TypeOK, T!Upsert, T!At, T!Settings, T!RowOf, T!Row, T!Try
<1>1. /\ attempt' = [attempt EXCEPT ![a] = new] /\ lock' = [lock EXCEPT ![row] = a]
      /\ count' = count /\ window' = window /\ lock[row] = Null /\ s \in T!NextScope(a) /\ s \in attempt[a].left
  <2>1. /\ s \in T!NextScope(a) /\ s \in attempt[a].left /\ lock[row] = Null /\ count' = count /\ window' = window
        /\ lock' = [lock EXCEPT ![row] = a]
    BY DEF T!Upsert, T!Waits, T!NextScope
  <2>2. attempt' = [attempt EXCEPT ![a].left = @ \ {s}, ![a].allowed = @ /\ count[row] + 1 <= Limit[s]]
    BY DEF T!Upsert
  <2>3. [attempt EXCEPT ![a].left = @ \ {s}, ![a].allowed = @ /\ count[row] + 1 <= Limit[s]]
          = [attempt EXCEPT ![a] = new]
    <3>1. attempt \in [Attempt -> T!Try]
      BY DEF T!IInv, T!TypeOK
    <3> QED BY <3>1
  <2> QED BY <2>1, <2>2, <2>3
<1>2. new \in T!Try
  <2>1. room \in BOOLEAN
    OBVIOUS
  <2> HIDE DEF room
  <2> QED BY <1>0, <2>1 DEF T!Try
<1>10. new.at = "counting" /\ new.scopes = attempt[a].scopes /\ new.window = attempt[a].window
      /\ new.left = attempt[a].left \ {s} /\ new.allowed = room
  <2> HIDE DEF room
  <2> QED BY <1>0 DEF T!Try
<1>3. T!TriedWithinLimit' /\ T!RefusalsCount' /\ attempt' \in [Attempt -> T!Try]
  <2>1. attempt[a].at \in {"new", "counting"} /\ new.at \notin {"tried", "limited"}
    BY <1>0
  <2> HIDE DEF new
  <2> QED BY <1>1, <1>2, <2>1, TryMove
<1>4. T!TypeOK'
  BY <1>0, <1>1, <1>3 DEF T!IInv, T!TypeOK
<1>5. attempt'[a] = new /\ \A b \in Attempt \ {a} : attempt'[b] = attempt[b]
  BY <1>1 DEF T!IInv, T!TypeOK
<1>11. /\ attempt'[a].at = "counting" /\ attempt'[a].scopes = attempt[a].scopes /\ attempt'[a].window = attempt[a].window
       /\ attempt'[a].left = attempt[a].left \ {s} /\ attempt'[a].allowed = room
  <2> HIDE DEF new
  <2> QED BY <1>5, <1>10
<1> HIDE DEF new
<1>6. lock'[row] = a /\ \A r \in T!Row \ {row} : lock'[r] = lock[r]
  BY <1>0, <1>1 DEF T!IInv, T!TypeOK
<1>7. T!LocksHeld'
  <2> SUFFICES ASSUME NEW r \in T!Row, lock'[r] # Null
               PROVE  T!At(lock[r], "counting")' /\ r \in T!Counted(lock[r])'
    BY DEF T!LocksHeld, T!At, T!Counted, T!RowOf
  <2>1. CASE r = row
    <3>1. s \in attempt'[a].scopes \ attempt'[a].left /\ attempt'[a].at = "counting" /\ attempt'[a].window = attempt[a].window
      <4>1. s \in attempt[a].scopes
        BY <1>0, <1>1 DEF T!IInv, T!Counting, T!At
      <4> QED BY <1>1, <1>11, <4>1
    <3> QED BY <1>0, <1>6, <2>1, <3>1 DEF T!At, T!Counted, T!RowOf
  <2>2. CASE r # row
    <3>1. lock'[r] = lock[r] /\ lock[r] \in Attempt /\ T!At(lock[r], "counting") /\ r \in T!Counted(lock[r])
      BY <1>6, <2>2 DEF T!IInv, T!TypeOK, T!LocksHeld
    <3>2. CASE lock[r] = a
      BY <1>11, <3>1, <3>2 DEF T!At, T!Counted, T!RowOf
    <3>3. CASE lock[r] # a
      BY <1>5, <3>1, <3>3 DEF T!At, T!Counted, T!RowOf
    <3> QED BY <3>2, <3>3
  <2> QED BY <2>1, <2>2
<1>8. T!Counting(a)'
  <2>1. /\ attempt[a].left \subseteq attempt[a].scopes
        /\ \A X \in {Address, Email} : \A x, y \in attempt[a].scopes \cap X : x = y
        /\ attempt[a].left \cap Address # {} => attempt[a].left = attempt[a].scopes
        /\ \A x \in attempt[a].scopes \ attempt[a].left :
             /\ lock[T!RowOf(a, x)] = a
             /\ attempt[a].allowed => count[T!RowOf(a, x)] + 1 <= Limit[x]
    BY <1>0 DEF T!IInv, T!Counting, T!At
  <2>2. (attempt[a].left \ {s}) \cap Address = {}
    BY <1>0, <1>1, <2>1 DEF T!NextScope
  <2>3. ASSUME NEW x \in attempt[a].scopes \ (attempt[a].left \ {s})
        PROVE  lock'[T!RowOf(a, x)] = a /\ (room => count[T!RowOf(a, x)] + 1 <= Limit[x])
    <3>1. CASE x = s
      BY <1>6, <3>1
    <3>2. CASE x # s
      <4>1. T!RowOf(a, x) # row /\ T!RowOf(a, x) \in T!Row
        BY <1>0, <3>2 DEF T!RowOf, T!Row, T!Try
      <4> QED BY <1>6, <2>1, <2>3, <3>2, <4>1
    <3> QED BY <3>1, <3>2
  <2>4. \A x : T!RowOf(a, x)' = T!RowOf(a, x)
    BY <1>11 DEF T!RowOf
  <2> HIDE DEF room
  <2> QED BY <1>1, <1>11, <2>1, <2>2, <2>3, <2>4 DEF T!Counting
<1>9. ASSUME NEW b \in Attempt, b # a PROVE T!Counting(b)'
  <2>1. attempt'[b] = attempt[b] /\ attempt[b] \in T!Try
    BY <1>5, <1>9 DEF T!IInv, T!TypeOK
  <2>2. T!At(b, "counting") => \A x \in attempt[b].scopes \ attempt[b].left : lock'[T!RowOf(b, x)] = b
    <3> SUFFICES ASSUME T!At(b, "counting"), NEW x \in attempt[b].scopes \ attempt[b].left
                 PROVE  lock'[T!RowOf(b, x)] = b
      OBVIOUS
    <3>1. lock[T!RowOf(b, x)] = b /\ T!RowOf(b, x) \in T!Row
      BY <2>1 DEF T!IInv, T!Counting, T!RowOf, T!Row, T!Try
    <3>2. T!RowOf(b, x) # row
      BY <1>0, <1>1, <3>1
    <3> QED BY <1>6, <3>1, <3>2
  <2>3. T!Counting(b)
    BY DEF T!IInv
  <2>4. (\A x : T!RowOf(b, x)' = T!RowOf(b, x)) /\ (T!At(b, "counting")' <=> T!At(b, "counting"))
    BY <2>1 DEF T!RowOf, T!At
  <2> QED BY <1>1, <2>1, <2>2, <2>3, <2>4 DEF T!Counting
<1> QED BY <1>3, <1>4, <1>7, <1>8, <1>9 DEF T!IInv

(* What a step of one attempt that lets its rows go leaves of the others'. *)
LEMMA TryRelease ==
  ASSUME T!IInv, NEW a \in Attempt, NEW new \in T!Try, attempt' = [attempt EXCEPT ![a] = new],
         lock' = T!Released(a), new.at # "counting",
         \A r \in T!Row : lock[r] # a => count'[r] = count[r]
  PROVE  T!LocksHeld' /\ lock' \in [T!Row -> Attempt \cup {Null}] /\ \A b \in Attempt : T!Counting(b)'
<1>0. Null \notin Attempt
  BY LimitsAssumption DEF T!Settings
<1>1. attempt'[a] = new /\ \A b \in Attempt \ {a} : attempt'[b] = attempt[b]
  BY DEF T!IInv, T!TypeOK
<1>2. \A r \in T!Row : lock'[r] = IF lock[r] = a THEN Null ELSE lock[r]
  BY DEF T!Released
<1>3. lock' \in [T!Row -> Attempt \cup {Null}]
  BY DEF T!Released, T!IInv, T!TypeOK
<1>4. T!LocksHeld'
  <2> SUFFICES ASSUME NEW r \in T!Row, lock'[r] # Null
               PROVE  T!At(lock[r], "counting")' /\ r \in T!Counted(lock[r])'
    BY <1>2 DEF T!LocksHeld, T!At, T!Counted, T!RowOf
  <2>1. lock[r] \in Attempt \ {a} /\ T!At(lock[r], "counting") /\ r \in T!Counted(lock[r])
    BY <1>2 DEF T!IInv, T!TypeOK, T!LocksHeld
  <2> QED BY <1>1, <1>2, <2>1 DEF T!At, T!Counted, T!RowOf
<1>5. ASSUME NEW b \in Attempt PROVE T!Counting(b)'
  <2>1. CASE b = a
    BY <1>1, <2>1 DEF T!Counting, T!At
  <2>2. CASE b # a
    <3>1. attempt'[b] = attempt[b] /\ attempt[b] \in T!Try /\ T!Counting(b)
      BY <1>1, <2>2 DEF T!IInv, T!TypeOK
    <3>2. (\A x : T!RowOf(b, x)' = T!RowOf(b, x)) /\ (T!At(b, "counting")' <=> T!At(b, "counting"))
      BY <3>1 DEF T!RowOf, T!At
    <3>3. ASSUME T!At(b, "counting"), NEW x \in attempt[b].scopes \ attempt[b].left
          PROVE  /\ lock'[T!RowOf(b, x)] = b
                 /\ attempt[b].allowed => count'[T!RowOf(b, x)] + 1 <= Limit[x]
      <4>1. lock[T!RowOf(b, x)] = b /\ T!RowOf(b, x) \in T!Row /\ (attempt[b].allowed => count[T!RowOf(b, x)] + 1 <= Limit[x])
        BY <3>1, <3>3 DEF T!Counting, T!RowOf, T!Row, T!Try
      <4> QED BY <1>2, <2>2, <4>1
    <3> QED BY <3>1, <3>2, <3>3 DEF T!Counting
  <2> QED BY <2>1, <2>2
<1> QED BY <1>3, <1>4, <1>5

LEMMA UnavailableInv == ASSUME T!IInv, NEW a \in Attempt, T!Unavailable(a) PROVE T!IInv'
<1> DEFINE new == [attempt[a] EXCEPT !.at = "refused"]
<1>1. /\ attempt[a].at = "counting" /\ attempt' = [attempt EXCEPT ![a] = new] /\ lock' = T!Released(a)
      /\ window' = window /\ count' = count
  BY DEF T!Unavailable, T!At
<1>2. new \in T!Try /\ new.at = "refused"
  BY DEF T!IInv, T!TypeOK, T!Try
<1> HIDE DEF new
<1>3. T!TriedWithinLimit' /\ T!RefusalsCount' /\ attempt' \in [Attempt -> T!Try]
  <2>1. attempt[a].at \in {"new", "counting"} /\ new.at \notin {"tried", "limited"}
    BY <1>1, <1>2
  <2> QED BY <1>1, <1>2, <2>1, TryMove
<1>4. T!LocksHeld' /\ lock' \in [T!Row -> Attempt \cup {Null}] /\ \A b \in Attempt : T!Counting(b)'
  <2>1. new.at # "counting" /\ \A r \in T!Row : lock[r] # a => count'[r] = count[r]
    BY <1>1, <1>2
  <2> QED BY <1>1, <1>2, <2>1, TryRelease
<1>5. T!TypeOK'
  BY <1>1, <1>3, <1>4 DEF T!IInv, T!TypeOK
<1> QED BY <1>3, <1>4, <1>5 DEF T!IInv

(* Where it counts it holds the row, and there was room if it is tried. *)
LEMMA CommitInv == ASSUME T!IInv, NEW a \in Attempt, T!Commit(a) PROVE T!IInv'
<1> DEFINE at == IF attempt[a].allowed THEN "tried" ELSE "limited"
           new == [attempt[a] EXCEPT !.at = at]
<1>1. /\ attempt[a].at = "counting" /\ attempt[a].left = {} /\ attempt' = [attempt EXCEPT ![a] = new]
      /\ lock' = T!Released(a) /\ window' = window
      /\ count' = [s \in T!Row |-> IF s \in T!Counted(a) THEN count[s] + 1 ELSE count[s]]
  BY DEF T!Commit, T!At
<1>2. /\ new \in T!Try /\ new.at = at /\ new.scopes = attempt[a].scopes /\ new.window = attempt[a].window
      /\ at \in {"tried", "limited"} /\ attempt[a] \in T!Try
  BY DEF T!IInv, T!TypeOK, T!Try
<1> HIDE DEF new
<1>3. attempt' \in [Attempt -> T!Try] /\ attempt'[a] = new /\ \A b \in Attempt \ {a} : attempt'[b] = attempt[b]
  BY <1>1, <1>2 DEF T!IInv, T!TypeOK
<1>4. \A r \in T!Counted(a) : lock[r] = a
  BY <1>1 DEF T!IInv, T!Counting, T!At, T!Counted
<1>5. T!LocksHeld' /\ lock' \in [T!Row -> Attempt \cup {Null}] /\ \A b \in Attempt : T!Counting(b)'
  <2>1. new.at # "counting" /\ \A r \in T!Row : lock[r] # a => count'[r] = count[r]
    BY <1>1, <1>2, <1>4
  <2> QED BY <1>1, <1>2, <2>1, TryRelease
<1>6. T!TypeOK'
  BY <1>1, <1>3, <1>5 DEF T!IInv, T!TypeOK
<1>7. ASSUME NEW s \in T!Scope, NEW w \in T!Window
      PROVE  /\ T!Cardinality({b \in T!Made(s, w)' : attempt'[b].at = "tried"}) <= Limit[s]
             /\ count'[<<s, w>>] = T!Cardinality(T!Made(s, w)')
  <2> DEFINE old == T!Made(s, w)
             made == T!Made(s, w)'
             tried == {b \in made : attempt'[b].at = "tried"}
             before == {b \in old : T!At(b, "tried")}
             row == <<s, w>>
  <2>0. /\ row \in T!Row /\ IsFiniteSet(old) /\ IsFiniteSet(Attempt) /\ made \subseteq Attempt
        /\ count[row] = Cardinality(old) /\ Cardinality(before) <= Limit[s] /\ Limit[s] \in Nat
    <3>1. IsFiniteSet(Attempt) /\ Limit[s] \in Nat
      BY LimitsAssumption, TrySizes DEF T!Settings
    <3>2. old \subseteq Attempt /\ made \subseteq Attempt
      BY DEF T!Made
    <3>3. count[row] = Cardinality(old) /\ Cardinality(before) <= Limit[s]
      BY TrySizes DEF T!IInv, T!RefusalsCount, T!TriedWithinLimit
    <3> QED BY <3>1, <3>2, <3>3, FS_Subset DEF T!Row
  <2>1. CASE row \in T!Counted(a)
    <3>1. s \in attempt[a].scopes /\ w = attempt[a].window
      BY <1>1, <2>1 DEF T!Counted, T!RowOf
    <3>2. made = old \cup {a} /\ a \notin old
      BY <1>1, <1>2, <1>3, <3>1 DEF T!Made
    <3>3. Cardinality(made) = Cardinality(old) + 1 /\ IsFiniteSet(made) /\ Cardinality(old) \in Nat
      BY <2>0, <3>2, FS_AddElement, FS_CardinalityType
    <3>4. count'[row] = Cardinality(made)
      BY <1>1, <2>0, <2>1, <3>3
    <3>5. Cardinality(tried) <= Limit[s]
      <4>1. CASE attempt[a].allowed
        <5>1. count[row] + 1 <= Limit[s]
          BY <1>1, <3>1, <4>1 DEF T!IInv, T!Counting, T!At, T!RowOf
        <5>2. Cardinality(tried) <= Cardinality(made) /\ Cardinality(tried) \in Nat /\ Cardinality(made) \in Nat
          BY <3>3, FS_Subset, FS_CardinalityType
        <5> QED BY <2>0, <3>3, <5>1, <5>2
      <4>2. CASE ~attempt[a].allowed
        <5>1. tried = before
          BY <1>1, <1>2, <1>3, <3>2, <4>2 DEF T!At, T!Made
        <5> QED BY <2>0, <5>1
      <4> QED BY <4>1, <4>2
    <3> QED BY <3>4, <3>5, TrySizes
  <2>2. CASE row \notin T!Counted(a)
    <3>1. ~(s \in attempt[a].scopes /\ attempt[a].window = w)
      BY <1>1, <2>2 DEF T!Counted, T!RowOf
    <3>2. made = old
      BY <1>1, <1>2, <1>3, <3>1 DEF T!Made
    <3>3. tried = before
      BY <1>1, <1>2, <1>3, <3>1, <3>2 DEF T!At, T!Made
    <3>4. count'[row] = count[row]
      BY <1>1, <2>0, <2>2
    <3> QED BY <2>0, <3>2, <3>3, <3>4, TrySizes
  <2> QED BY <2>1, <2>2
<1>8. T!TriedWithinLimit'
  BY <1>7 DEF T!TriedWithinLimit, T!At
<1>9. T!RefusalsCount'
  BY <1>7 DEF T!RefusalsCount
<1> QED BY <1>5, <1>6, <1>8, <1>9 DEF T!IInv

LEMMA NextWindowInv == ASSUME T!IInv, T!NextWindow PROVE T!IInv'
<1>1. window' = window + 1 /\ window < MaxWindow /\ count' = count /\ lock' = lock /\ attempt' = attempt /\ MaxWindow \in Nat
  BY LimitsAssumption DEF T!NextWindow, T!Settings
<1> QED BY <1>1 DEF T!IInv, T!TypeOK, T!Window, T!TriedWithinLimit, T!RefusalsCount, T!Made, T!At, T!LocksHeld,
                    T!Counted, T!RowOf, T!Counting

LEMMA TryStutter == ASSUME T!IInv, UNCHANGED T!vars PROVE T!IInv'
BY DEF T!IInv, T!vars, T!TypeOK, T!TriedWithinLimit, T!RefusalsCount, T!Made, T!At, T!LocksHeld,
       T!Counted, T!RowOf, T!Counting

LEMMA TryInvariant == T!Spec => []T!IInv
<1>1. ASSUME T!IInv, NEW a \in Attempt, NEW ip \in Address, NEW e \in Email,
             T!Check(a, {ip}) \/ T!Check(a, {ip, e})
      PROVE  T!IInv'
  <2> DEFINE Fits(scopes) == /\ scopes \in SUBSET T!Scope
                             /\ \A X \in {Address, Email} : \A s, t \in scopes \cap X : s = t
  <2>1. Fits({ip}) /\ Fits({ip, e})
    BY LimitsAssumption DEF T!Settings, T!Scope
  <2>2. \A scopes : Fits(scopes) /\ T!Check(a, scopes) => T!IInv'
    BY <1>1, CheckInv
  <2> HIDE DEF Fits
  <2> QED BY <1>1, <2>1, <2>2
<1>2. T!IInv /\ [T!Next]_T!vars => T!IInv'
  BY <1>1, UpsertInv, CommitInv, UnavailableInv, NextWindowInv, TryStutter DEF T!Next
<1> QED BY <1>2, TryInit, PTL DEF T!Spec

(* Who waits at an address has counted nowhere; who holds what it waits for waits, if at all, *)
(* at its email, and who holds that has nothing left to count.                                 *)
LEMMA NoCircle == T!IInv => T!Unblocked
<1> SUFFICES ASSUME T!IInv, NEW a \in Attempt, T!At(a, "counting"),
                    \A b \in Attempt : T!At(b, "counting") =>
                      attempt[b].left # {} /\ \A s \in T!NextScope(b) : T!Waits(b, s)
             PROVE  FALSE
  BY DEF T!Unblocked
<1>0. Null \notin Attempt /\ Address \cap Email = {}
  BY LimitsAssumption DEF T!Settings
<1>1. ASSUME NEW b \in Attempt, T!At(b, "counting")
      PROVE  \E c \in Attempt, s \in T!NextScope(b) :
               T!At(c, "counting") /\ s \in attempt[c].scopes \ attempt[c].left
  <2>1. PICK s \in T!NextScope(b) : T!Waits(b, s)
    BY <1>1 DEF T!NextScope
  <2>2. s \in attempt[b].left /\ T!RowOf(b, s) \in T!Row
    BY <1>1, <2>1 DEF T!NextScope, T!RowOf, T!Row, T!IInv, T!TypeOK, T!Try
  <2> DEFINE c == lock[T!RowOf(b, s)]
  <2>3. c \in Attempt /\ T!At(c, "counting") /\ T!RowOf(b, s) \in T!Counted(c)
    BY <2>1, <2>2 DEF T!Waits, T!IInv, T!TypeOK, T!LocksHeld
  <2>4. s \in attempt[c].scopes \ attempt[c].left
    BY <2>3 DEF T!Counted, T!RowOf
  <2> QED BY <2>1, <2>3, <2>4
<1>2. ASSUME NEW c \in Attempt, T!At(c, "counting"), NEW s \in attempt[c].scopes \ attempt[c].left
      PROVE  \E e \in Email : e \in attempt[c].left /\ T!NextScope(c) = attempt[c].left
  <2>1. attempt[c].left \cap Address = {} /\ attempt[c].left \subseteq T!Scope /\ attempt[c].left # {}
    BY <1>2 DEF T!IInv, T!Counting, T!TypeOK, T!Try
  <2> QED BY <2>1 DEF T!NextScope, T!Scope
<1>3. PICK c \in Attempt, s \in T!NextScope(a) : T!At(c, "counting") /\ s \in attempt[c].scopes \ attempt[c].left
  BY <1>1
<1>4. PICK e \in Email : e \in attempt[c].left /\ T!NextScope(c) = attempt[c].left
  BY <1>2, <1>3
<1>5. PICK d \in Attempt, t \in T!NextScope(c) : T!At(d, "counting") /\ t \in attempt[d].scopes \ attempt[d].left
  BY <1>1, <1>3
<1>6. PICK f \in Email : f \in attempt[d].left
  BY <1>2, <1>5
<1>7. t \in Email
  <2>1. t \in attempt[c].left /\ attempt[c].left \cap Address = {} /\ t \in T!Scope
    BY <1>3, <1>4, <1>5 DEF T!IInv, T!Counting, T!TypeOK, T!Try
  <2> QED BY <2>1 DEF T!Scope
<1>8. t = f
  <2>1. /\ attempt[d].left \subseteq attempt[d].scopes
        /\ \A x, y \in attempt[d].scopes \cap Email : x = y
    BY <1>5 DEF T!IInv, T!Counting
  <2> QED BY <1>5, <1>6, <1>7, <2>1
<1> QED BY <1>5, <1>6, <1>8

-----------------------------------------------------------------------------
(* Who may write has a live session of its own browser, or a live key that came alone. *)
LEMMA RequestJudged ==
  ASSUME NEW shown \in Requests, NEW settings \in Settings
  PROVE  WritesAuthorised(shown, settings) /\ GuestsStayGuests(shown, settings)
<1> DEFINE actor == Authenticate(shown, settings)
<1>0. /\ shown.cookie \in {"none", "stale", "guest", "account", "closed"}
      /\ shown.key \in {"none", "malformed", "unknown", "service", "public", "inactive"}
      /\ {shown.unsafe, shown.csrf, shown.origin, shown.verified} \subseteq BOOLEAN
      /\ {settings.accounts, settings.budget, settings.open} \subseteq BOOLEAN
  BY DEF Requests, Settings, Cookies, Keys
<1>1. CASE shown.cookie \in {"stale", "closed"}
  <2>1. Session(shown, settings) = "invalid"
    BY <1>1 DEF Session
  <2>2. actor = Refused("session")
    BY <2>1 DEF Authenticate
  <2>3. actor.kind = "refused"
    BY <2>2 DEF Refused
  <2> QED BY <1>1, <2>3 DEF WritesAuthorised, GuestsStayGuests, MayWrite
<1>2. CASE shown.cookie = "guest"
  <2>1. actor.kind \in {"refused", "guest"}
    BY <1>2 DEF Authenticate, Session, Refused, Guest, Actor
  <2> QED BY <1>2, <2>1 DEF WritesAuthorised, GuestsStayGuests, MayWrite
<1>3. CASE shown.cookie = "account"
  <2>1. \/ actor.kind = "refused"
        \/ actor = Actor("account", "personal") /\ ~Forged(shown) /\ settings.accounts
    <3>1. Session(shown, settings) = IF settings.accounts THEN "account" ELSE "invalid"
      BY <1>0, <1>3 DEF Session
    <3>2. CASE ~settings.accounts
      BY <3>1, <3>2 DEF Authenticate, Refused
    <3>3. CASE settings.accounts /\ Forged(shown)
      BY <3>1, <3>3 DEF Authenticate, Refused
    <3>4. CASE settings.accounts /\ ~Forged(shown)
      BY <3>1, <3>4 DEF Authenticate
    <3> QED BY <3>2, <3>3, <3>4
  <2>2. CASE actor.kind = "refused"
    BY <1>3, <2>2 DEF WritesAuthorised, GuestsStayGuests, MayWrite
  <2>3. CASE actor = Actor("account", "personal") /\ ~Forged(shown) /\ settings.accounts
    BY <1>3, <2>3 DEF WritesAuthorised, GuestsStayGuests, MayWrite, Actor, Forged
  <2> QED BY <2>1, <2>2, <2>3
<1>4. CASE shown.cookie = "none"
  <2>1. \/ actor.kind \in {"refused", "guest"}
        \/ shown.key = "service" /\ actor = Actor("api_key", "service")
        \/ shown.key = "public" /\ actor = Actor("api_key", "public") /\ ~settings.accounts
    BY <1>4 DEF Authenticate, Session, Refused, Guest, Actor, ByKey
  <2>2. CASE actor.kind \in {"refused", "guest"}
    BY <1>4, <2>2 DEF WritesAuthorised, GuestsStayGuests, MayWrite
  <2>3. CASE shown.key = "service" /\ actor = Actor("api_key", "service")
    BY <1>4, <2>3 DEF WritesAuthorised, GuestsStayGuests, MayWrite, Actor
  <2>4. CASE shown.key = "public" /\ actor = Actor("api_key", "public") /\ ~settings.accounts
    BY <1>4, <2>4 DEF WritesAuthorised, GuestsStayGuests, MayWrite, Actor
  <2> QED BY <2>1, <2>2, <2>3, <2>4
<1> QED BY <1>0, <1>1, <1>2, <1>3, <1>4

LEMMA AskedJudged == Asking => []RequestsHold
<1>1. asked \in [shown : Requests, settings : Settings] => RequestsHold
  BY RequestJudged DEF RequestsHold
<1>2. asked \in [shown : Requests, settings : Settings] /\ [FALSE]_asked
        => (asked \in [shown : Requests, settings : Settings])'
  OBVIOUS
<1> QED BY <1>1, <1>2, PTL DEF Asking

(* Requests pass at a bounded rate and within the day's quota, whatever their clocks read  *)
(* and whenever Redis drops the bucket (core/rate_limit.py); no more attempts are tried    *)
(* than an address or an email has, refused ones count, and none wait in a circle           *)
(* (accounts/limits.py); and who presents a request may write no more than it should        *)
(* (api/deps.py).                                                                            *)
THEOREM LimitsAreKept == R!Spec /\ T!Spec /\ Asking => []LimitsHold
<1>1. R!IInv => R!WithinRate /\ R!DailyQuota
  BY DEF R!IInv
<1>2. T!IInv => T!TriedWithinLimit /\ T!RefusalsCount /\ T!Unblocked
  BY NoCircle DEF T!IInv
<1>3. R!IInv /\ T!IInv /\ RequestsHold => LimitsHold
  BY <1>1, <1>2 DEF LimitsHold
<1> QED BY <1>3, RateInvariant, TryInvariant, AskedJudged, PTL
=============================================================================
