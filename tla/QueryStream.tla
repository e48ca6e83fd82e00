---------------------------- MODULE QueryStream ----------------------------
(* One query from its admission to the last event its client receives:       *)
(* run_query (generation/service.py) as a generator that may be closed or    *)
(* cancelled wherever it waits or yields, the two ways its events are        *)
(* delivered (api/v1/query.py), and what the model's outputs decide in the   *)
(* follow-up normalizer and the retrieval planner.  What is recorded against *)
(* which corpus, and for whom, is in Conversations; here the record is an    *)
(* outcome, and whether it keeps text.                                       *)
EXTENDS Integers, Sequences, SequencesExt

CONSTANTS
  Null,
  MaxDeltas,  \* bound: deltas that an attempt to answer yields
  MaxFacets   \* MAX_PLANNED_QUERIES

VARIABLES
  convo,     \* "alone", or the "first" or a "followup" query of a conversation
  transport, \* "sse" or "json"
  changed,   \* whether the collection's documents changed since the request
  pc,        \* where the pipeline is
  facets,    \* facets that are still to be searched
  tries,     \* attempts to answer that were begun
  deltas,    \* deltas of this attempt
  parts,     \* what this attempt has produced: "none", "blank" or "text"
  metered,   \* UsageAccumulator: of each call of a model, whether its usage came
  attempted, \* record_attempted
  row,       \* what is recorded
  out,       \* events to be yielded before the pipeline goes on
  sent,      \* events that the client's side took
  reply      \* the status of a JSON response

pipeline == <<pc, facets, tries, deltas, parts, metered, attempted, row, out>>
vars == <<convo, transport, changed, pc, facets, tries, deltas, parts, metered, attempted, row, out, sent, reply>>

Convo == {"alone", "first", "followup"}
Over == {"ended", "raised", "cancelled", "dead"}
Running == {"normalise", "clarify", "retrieve", "refuse", "plan", "facets", "build", "attempt", "stream",
            "ending"}
Code == {"provider_unavailable", "quota_exceeded", "budget_unavailable", "query_source_changed",
         "query_persistence_failed"}
Event == [e : {"meta", "sources", "delta", "done"}] \cup [e : {"error"}, code : Code]
Outcome == {"answered", "refused", "clarification", "failed", "cancelled"}

Name(e) == [e |-> e]
Error(code) == [e |-> "error", code |-> code]
Told == {sent[i].e : i \in DOMAIN sent}

Init ==
  /\ convo \in Convo /\ transport \in {"sse", "json"}
  /\ changed = FALSE
  /\ pc = IF convo = "followup" THEN "normalise" ELSE "retrieve"
  /\ facets = 0 /\ tries = 0 /\ deltas = 0
  /\ parts = "none" /\ metered = <<>>
  /\ attempted = FALSE /\ row = Null
  /\ out = <<>> /\ sent = <<>> /\ reply = Null

At(p) == pc = p /\ out = <<>>
Goto(p) == pc' = p

-----------------------------------------------------------------------------
(* What _record_query comes to: not at all when the documents changed, and any *)
(* exception of the database is a failure.                                      *)
Results == IF changed THEN {"source_changed", "failed"} ELSE {"recorded", "failed"}

(* total: a sum is only told when there is a call and the usage of each is known. *)
Complete == metered # <<>> /\ \A i \in DOMAIN metered : metered[i]

(* Mutant: every call records. *)
RecordAgain(outcome, text, result) ==
  /\ attempted' = TRUE
  /\ row' = IF result = "recorded" THEN [outcome |-> outcome, text |-> text, usage |-> Complete'] ELSE row

(* record_once *)
RecordOnce(outcome, text, result) ==
  /\ attempted' = TRUE
  /\ row' = IF ~attempted /\ result = "recorded" THEN [outcome |-> outcome, text |-> text, usage |-> Complete'] ELSE row

(* persistence_error, or the event that was meant. *)
Answer(result) ==
  IF convo = "alone" \/ result = "recorded" THEN Name("done")
  ELSE Error(IF result = "source_changed" THEN "query_source_changed" ELSE "query_persistence_failed")

(* The pipeline comes to an end of its own: it records, then says so. *)
Finish(outcome, text) ==
  \E result \in Results :
    /\ RecordOnce(outcome, text, result)
    /\ out' = <<Answer(result)>>
    /\ Goto("ending")

(* record_incomplete: what was streamed so far is kept, unless it is blank.  Where its *)
(* quotes cannot be resolved it raises before it records: RaiseInRecord.               *)
RecordIncomplete(outcome) == \E result \in Results : RecordOnce(outcome, parts = "text", result)

Introduced == \E i \in DOMAIN sent : sent[i].e = "meta"

(* A provider or the budget fails: a conversation's client gets its meta first. *)
Fail(code) ==
  /\ RecordIncomplete("failed")
  /\ out' = (IF convo # "alone" /\ ~Introduced THEN <<Name("meta")>> ELSE <<>>) \o <<Error(code)>>
  /\ Goto("ending")

BudgetCode == {"quota_exceeded", "budget_unavailable"}
\* What a call of a model or of the embeddings can raise.
Failure == {"provider_unavailable"} \cup BudgetCode

-----------------------------------------------------------------------------
Word == {"fits", "other", "long", "blank", "no text"}

(* parse_normalizer_output: anything but the one object that was asked for clarifies. *)
NormalizerOutput ==
  [overflow : BOOLEAN, object : BOOLEAN, action : {"search", "clarify", "?"}, exactKeys : BOOLEAN,
   question : Word]

Decision(o) ==
  IF ~o.overflow /\ o.object /\ o.exactKeys /\ o.action = "search" /\ o.question \in {"fits", "other"}
  THEN "search" ELSE "clarify"

(* plan_queries: one list of distinct queries that fit, or nothing. *)
PlannerOutput == [overflow : BOOLEAN, object : BOOLEAN, queries : UNION {[1 .. n -> Word] : n \in 0 .. MaxFacets + 1}]

Planned(o) ==
  IF /\ ~o.overflow /\ o.object
     /\ Len(o.queries) <= MaxFacets
     /\ \A i \in DOMAIN o.queries : o.queries[i] \in {"fits", "other"}
     /\ IsInjective(o.queries)
  THEN Len(o.queries) ELSE 0

-----------------------------------------------------------------------------
\* What neither the corpus, nor the client, nor the request's form changes.
Kept == UNCHANGED <<convo, transport, changed, sent, reply>>

(* Each call of a model counts from its start, whether or not its usage comes. *)
Metering == {Append(metered, known) : known \in BOOLEAN}

(* What is cut off while a prompt is under way leaves its call behind, or came before it. *)
Interrupted ==
  \/ UNCHANGED metered
  \/ pc \in {"normalise", "plan"} /\ out = <<>> /\ metered' \in Metering

Normalise ==
  /\ At("normalise")
  /\ metered' \in Metering
  /\ \/ /\ \E o \in NormalizerOutput :
             IF Decision(o) = "search" THEN Goto("retrieve") /\ out' = <<>>
             ELSE Goto("clarify") /\ out' = <<Name("meta"), Name("sources")>>
        /\ UNCHANGED <<attempted, row>>
     \/ \E code \in Failure : Fail(code)
  /\ UNCHANGED <<facets, tries, deltas, parts>> /\ Kept

Clarify ==
  /\ At("clarify")
  /\ UNCHANGED metered
  /\ Finish("clarification", TRUE)
  /\ UNCHANGED <<facets, tries, deltas, parts>> /\ Kept

(* The question is embedded, and below the threshold it is refused before any model. *)
Retrieve ==
  /\ At("retrieve")
  /\ UNCHANGED metered
  /\ \/ /\ \/ Goto("refuse") \/ Goto("plan") \/ Goto("build")   \* query_planning_enabled or not
        /\ out' = <<Name("meta")>>
        /\ UNCHANGED <<attempted, row>>
     \/ \E code \in Failure : Fail(code)
  /\ UNCHANGED <<facets, tries, deltas, parts>> /\ Kept

RefuseAtGate ==
  /\ At("refuse")
  /\ UNCHANGED metered
  /\ Finish("refused", FALSE)
  /\ UNCHANGED <<facets, tries, deltas, parts>> /\ Kept

(* A planner that fails plans nothing; only the budget ends the query. *)
Plan ==
  /\ At("plan")
  /\ metered' \in Metering
  /\ \/ /\ \/ facets' = 0
           \/ \E o \in PlannerOutput : facets' = Planned(o)
        /\ Goto("facets")
        /\ UNCHANGED <<attempted, row, out>>
     \/ UNCHANGED facets /\ \E code \in BudgetCode : Fail(code)
  /\ UNCHANGED <<tries, deltas, parts>> /\ Kept

(* A facet whose embedding fails is left out. *)
SearchFacet ==
  /\ At("facets") /\ facets > 0
  /\ UNCHANGED metered
  /\ \/ facets' = facets - 1 /\ UNCHANGED <<pc, attempted, row, out>>
     \/ UNCHANGED facets /\ \E code \in BudgetCode : Fail(code)
  /\ UNCHANGED <<tries, deltas, parts>> /\ Kept

BuildSources ==
  /\ At("build") \/ (At("facets") /\ facets = 0)
  /\ out' = <<Name("sources")>>
  /\ Goto("attempt")
  /\ UNCHANGED <<facets, tries, deltas, parts, metered, attempted, row>> /\ Kept

StartAttempt ==
  /\ At("attempt")
  /\ tries' = tries + 1 /\ deltas' = 0 /\ parts' = "none"
  /\ metered' = Append(metered, FALSE)
  /\ Goto("stream")
  /\ UNCHANGED <<facets, attempted, row, out>> /\ Kept

(* observe: the usage of the latest call, which a stream may tell at any time. *)
Observe ==
  /\ At("stream") /\ ~Last(metered)
  /\ metered' = Front(metered) \o <<TRUE>>
  /\ UNCHANGED <<pc, facets, tries, deltas, parts, attempted, row, out>> /\ Kept

(* Text that the sentinel and the quotes' splitter let through: it is kept, then sent. *)
Delta(text) ==
  /\ At("stream") /\ deltas < MaxDeltas
  /\ deltas' = deltas + 1
  /\ parts' = IF text \/ parts = "text" THEN "text" ELSE "blank"
  /\ out' = <<Name("delta")>>
  /\ UNCHANGED <<pc, facets, tries, metered, attempted, row>> /\ Kept

(* The model's first words were NO_ANSWER, which is not let through. *)
RefuseByModel ==
  /\ At("stream") /\ parts = "none"
  /\ UNCHANGED metered
  /\ Finish("refused", FALSE)
  /\ UNCHANGED <<facets, tries, deltas, parts>> /\ Kept

FinishAnswer ==
  /\ At("stream") /\ parts = "text"
  /\ UNCHANGED metered
  /\ Finish("answered", TRUE)
  /\ UNCHANGED <<facets, tries, deltas, parts>> /\ Kept

(* An empty completion is tried once more. *)
EmptyCompletion ==
  /\ At("stream") /\ parts # "text"
  /\ UNCHANGED metered
  /\ IF tries = 1 THEN Goto("attempt") /\ UNCHANGED <<attempted, row, out>>
     ELSE Fail("provider_unavailable")
  /\ UNCHANGED <<facets, tries, deltas, parts>> /\ Kept

BreakStream ==
  /\ At("stream")
  /\ UNCHANGED metered
  /\ \E code \in Failure : Fail(code)
  /\ UNCHANGED <<facets, tries, deltas, parts>> /\ Kept

(* Any other exception, from any of these steps, is recorded and raised. *)
Raise ==
  /\ pc \in Running \ {"ending"} /\ out = <<>>
  /\ Interrupted
  /\ RecordIncomplete("failed")
  /\ Goto("raised")
  /\ UNCHANGED <<facets, tries, deltas, parts, out>> /\ Kept

(* resolve_quotes raises about what was streamed, at the end of the answer or where    *)
(* record_incomplete, called for any other end, evaluates it before record_once; the   *)
(* handlers and the finally that follow call record_incomplete again, which raises too.*)
RaiseInRecord ==
  /\ pc \in Running /\ parts = "text"
  /\ out' = <<>>
  /\ Goto("raised")
  /\ UNCHANGED <<facets, tries, deltas, parts, metered, attempted, row>> /\ Kept

-----------------------------------------------------------------------------
(* The client goes away: GeneratorExit at a yield, a cancellation at any await.  The *)
(* record itself is shielded.                                                         *)
Cancel ==
  /\ pc \in Running
  /\ Interrupted
  /\ RecordIncomplete("cancelled")
  /\ out' = <<>>
  /\ Goto("cancelled")
  /\ UNCHANGED <<facets, tries, deltas, parts>> /\ Kept

(* The process dies. *)
Die ==
  /\ pc \in Running
  /\ out' = <<>>
  /\ Goto("dead")
  /\ UNCHANGED <<facets, tries, deltas, parts, metered, attempted, row>> /\ Kept

(* The last event is out, and the generator returns. *)
End ==
  /\ At("ending")
  /\ Goto("ended")
  /\ UNCHANGED <<facets, tries, deltas, parts, metered, attempted, row, out>> /\ Kept

(* A document was deleted, reset or replaced meanwhile. *)
CollectionChanges ==
  /\ ~changed
  /\ changed' = TRUE
  /\ UNCHANGED <<convo, transport, pipeline, sent, reply>>

-----------------------------------------------------------------------------
(* _sse_stream: each event is a frame. *)
SendFrame ==
  /\ transport = "sse" /\ out # <<>>
  /\ sent' = Append(sent, Head(out))
  /\ out' = Tail(out)
  /\ UNCHANGED <<convo, transport, changed, pc, facets, tries, deltas, parts, metered, attempted, row, reply>>

\* The status of each error, as its exception is answered (core/errors.py).
StatusOf == [code \in Code |->
  CASE code = "quota_exceeded" -> 429
    [] code = "query_source_changed" -> 409
    [] OTHER -> 503]

(* _collect_json: the first error or the answer is the response, and closes the generator. *)
Collect ==
  /\ transport = "json" /\ out # <<>>
  /\ LET event == Head(out)
     IN  /\ sent' = Append(sent, event)
         /\ reply' = CASE event.e = "error" -> StatusOf[event.code]
                       [] event.e = "done" -> 200
                       [] OTHER -> Null
  /\ out' = Tail(out)
  /\ UNCHANGED <<convo, transport, changed, pc, facets, tries, deltas, parts, metered, attempted, row>>

Next ==
  \/ Normalise \/ Clarify \/ Retrieve \/ RefuseAtGate \/ Plan \/ SearchFacet \/ BuildSources
  \/ StartAttempt \/ Observe \/ (\E text \in BOOLEAN : Delta(text))
  \/ RefuseByModel \/ FinishAnswer \/ EmptyCompletion \/ BreakStream
  \/ Raise \/ RaiseInRecord \/ Cancel \/ Die \/ End
  \/ CollectionChanges \/ SendFrame \/ Collect

Spec == Init /\ [][Next]_vars

-----------------------------------------------------------------------------
TypeOK ==
  /\ convo \in Convo /\ transport \in {"sse", "json"} /\ changed \in BOOLEAN
  /\ pc \in Running \cup Over
  /\ facets \in 0 .. MaxFacets /\ tries \in 0 .. 2 /\ deltas \in 0 .. MaxDeltas
  /\ parts \in {"none", "blank", "text"} /\ attempted \in BOOLEAN
  /\ row = Null \/ row \in [outcome : Outcome, text : BOOLEAN, usage : BOOLEAN]
  /\ \A s \in {out, sent} : \A i \in DOMAIN s : s[i] \in Event
  /\ reply \in {Null, 200, 409, 429, 503}

Terminal(event) == event.e \in {"done", "error"}

(* The order in which a client hears of its query (api/v1/query.py:3-5): meta once and *)
(* first, sources once and before any text, one last event; only outside any           *)
(* conversation can an error come alone.                                               *)
EventsInOrder ==
  \A i \in DOMAIN sent :
    /\ sent[i].e = "meta" <=> i = 1 /\ ~(convo = "alone" /\ sent[i].e = "error")
    /\ sent[i].e = "sources" => i = 2
    /\ sent[i].e = "delta" => sent[2].e = "sources"
    /\ Terminal(sent[i]) => i = Len(sent)

(* A query that began has tried to leave a record before its client is told any end,   *)
(* and whatever ended it, unless the process died, or the query was raised from after  *)
(* text was streamed: the quotes of that text may be what raised, in record_incomplete *)
(* itself.  So "no matter how the stream ends" (service.py:12-13) has that exception.  *)
AlwaysAccountedFor ==
  /\ \A i \in DOMAIN sent : Terminal(sent[i]) => attempted
  /\ pc \in Over \ {"dead"} => attempted \/ (pc = "raised" /\ parts = "text")

(* What is told agrees with what is recorded: an answer of a conversation is in it, an *)
(* error is no answer there, and text that was seen is kept.                            *)
ToldIsRecorded ==
  /\ "done" \in Told =>
       IF row = Null THEN convo = "alone" ELSE row.outcome \in {"answered", "refused", "clarification"}
  /\ "error" \in Told => row = Null \/ row.outcome = "failed"
  /\ row # Null /\ row.outcome \notin {"refused", "clarification"} /\ parts = "text" => row.text
  /\ reply # Null => (reply = 200 <=> "done" \in Told)

(* A recorded usage covers every call that was made for the query up to then, the *)
(* normalizer's and the first of two attempts included.                            *)
UsageIsWhole ==
  row # Null /\ row.usage =>
    Len(metered) >= tries + (IF convo = "followup" THEN 1 ELSE 0) /\ Complete

(* The record stays what it first was. *)
RecordStays == [][row # Null => row' = row]_vars

-----------------------------------------------------------------------------
(* What the properties rest on, inductively.                                   *)
Record == [outcome : Outcome, text : BOOLEAN, usage : BOOLEAN]

\* What the code's values give: names for nothing are none of them.
Settings ==
  /\ MaxDeltas \in Nat /\ MaxFacets \in Nat
  /\ Null \notin Record \cup {200, 409, 429, 503}

Waiting == Running \ {"ending"}

(* All events of the pipeline: those that were taken, then those to be taken. *)
Length == Len(sent) + Len(out)

InPlace(e, i) ==
  /\ Terminal(e) => i = Length /\ (i = 1 => convo = "alone" /\ e.e = "error")
  /\ ~Terminal(e) => e = Name(CASE i = 1 -> "meta" [] i = 2 -> "sources" [] OTHER -> "delta")

StoryInOrder ==
  /\ sent \in Seq(Event) /\ out \in Seq(Event)
  /\ \A i \in DOMAIN sent : InPlace(sent[i], i)
  /\ \A i \in DOMAIN out : InPlace(out[i], Len(sent) + i)
  /\ pc \in Over => out = <<>>
  /\ transport = "sse" => reply = Null

(* How far the story is at each step; and only its end ends it. *)
StageConsistent ==
  pc \in Waiting =>
    /\ pc \in {"normalise", "retrieve"} => Length = 0
    /\ pc \in {"refuse", "plan", "facets", "build"} => Length = 1
    /\ pc = "clarify" => Length = 2
    /\ pc \in {"attempt", "stream"} => Length >= 2
    /\ \A i \in DOMAIN sent : ~Terminal(sent[i])
    /\ \A i \in DOMAIN out : ~Terminal(out[i])

RecordConsistent ==
  /\ pc \in Waiting => ~attempted
  /\ pc \in {"ending", "ended", "cancelled"} => attempted
  /\ pc = "raised" => attempted \/ parts = "text"
  /\ ~attempted => row = Null
  /\ \A s \in {sent, out} : \A i \in DOMAIN s :
       /\ s[i].e = "done" => IF row = Null THEN convo = "alone" ELSE row.outcome \in {"answered", "refused", "clarification"}
       /\ s[i].e = "error" => row = Null \/ row.outcome = "failed"
       /\ Terminal(s[i]) => attempted

(* Each call of a model is counted before its usage can be told. *)
Calls == tries + (IF convo = "followup" /\ pc # "normalise" THEN 1 ELSE 0)

CountConsistent ==
  /\ metered \in Seq(BOOLEAN)
  /\ pc \in Waiting => Len(metered) >= Calls
  /\ pc = "normalise" => metered = <<>> /\ convo = "followup"
  /\ pc \in Waiting \ {"attempt", "stream"} => tries = 0
  /\ pc = "attempt" => tries < 2
  /\ pc = "stream" => tries > 0

IInv ==
  /\ TypeOK /\ ToldIsRecorded /\ UsageIsWhole
  /\ StoryInOrder /\ StageConsistent /\ RecordConsistent /\ CountConsistent
=============================================================================
