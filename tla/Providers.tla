----------------------------- MODULE Providers -----------------------------
(* One piece of work that calls a provider over HTTP, attempt by attempt, and *)
(* the reservations its attempts make: billing/providers.py around            *)
(* generation/llm/openai_compat.py, embeddings/openai.py, ocr/vision.py and   *)
(* rerank/cohere.py, for a payer that billing/context.py, billing/jobs.py or  *)
(* extraction/service.py names.  Which reservations the day admits is in      *)
(* Budget: here a reservation is granted or not.                              *)
EXTENDS Integers, Sequences, FiniteSets

CONSTANTS
  Null,
  Batches,  \* batches of texts to embed
  Usages    \* usages a provider reports, in money; 0 is among them

Reserved == 1 \* what an attempt reserves: a usage above it is an overrun

VARIABLES
  call,     \* what is called: the kind, whether at a local url, and whether the budget is on
  work,     \* the request or the job that calls
  payer,    \* on whose account it runs: "operator", "visitor" or Null
  pc,
  format,   \* the response format of a structured completion: "schema" or "object"
  repairs,  \* replies that were sent back
  batch,    \* batches that are embedded
  tries,    \* attempts at this batch
  ledger,   \* reservations in the order made, with what they were settled with
  ticket,   \* the reservation of the attempt under way, 0 for none
  reports,  \* for each HTTP attempt its reservation and the usages it reported
  result

vars == <<call, work, payer, pc, format, repairs, batch, tries, ledger, ticket, reports, result>>

Kind == {"stream", "json", "embed", "ocr", "rerank"}
\* Embeddings and rerankers that cost are never local.
KindOfCall == [kind : {"stream", "json", "ocr"}, local : BOOLEAN, enabled : BOOLEAN]
        \cup [kind : {"embed", "rerank"}, local : {FALSE}, enabled : BOOLEAN]
\* What a job finds: the collection and its data version, its tenant's kind, the owner,
\* and the identity saved with the document or the suggestions' revision it is for.
Job == [active : BOOLEAN, service : BOOLEAN, owner : BOOLEAN, current : BOOLEAN, saved : BOOLEAN]
\* What an extraction's run finds: its tenant's kind, its owner, and the identity saved
\* with its row.
Run == [service : BOOLEAN, owner : BOOLEAN, saved : BOOLEAN]
Work == [actor : {"account", "guest", "api_key"}] \cup [job : Job] \cup [run : Run]
Failures == {"provider", "quota_exceeded", "budget_unavailable"}

Init ==
  /\ call \in KindOfCall /\ work \in Work
  /\ payer = Null /\ pc = "bind"
  /\ format = "schema" /\ repairs = 0 /\ batch = 0 /\ tries = 0
  /\ ledger = <<>> /\ ticket = 0 /\ reports = <<>>
  /\ result = Null

Unmoved == UNCHANGED <<call, work>>
Progress == <<format, repairs, batch, tries>>

End(r) == pc' = "ended" /\ result' = r

-----------------------------------------------------------------------------
(* bind_request_actor *)
RequestPayer(actor) == IF actor = "api_key" THEN "operator" ELSE "visitor"

(* collection_billing: the job's payer, or Null when it has none. *)
JobPayer(job) ==
  IF ~job.active \/ ~job.current THEN Null
  ELSE IF job.service THEN "operator"
  ELSE IF job.owner /\ job.saved THEN "visitor" ELSE Null

(* _billing, of an extraction. *)
RunPayer(run) ==
  IF run.service THEN "operator" ELSE IF run.saved /\ run.owner THEN "visitor" ELSE Null

Payer ==
  CASE "actor" \in DOMAIN work -> RequestPayer(work.actor)
    [] "job" \in DOMAIN work   -> JobPayer(work.job)
    [] "run" \in DOMAIN work   -> RunPayer(work.run)

Bind ==
  /\ pc = "bind"
  /\ payer' = IF call.enabled THEN Payer ELSE Null
  /\ IF call.enabled /\ payer' = Null THEN End("budget_unavailable")
     ELSE pc' = "admit" /\ result' = Null
  /\ UNCHANGED <<ledger, ticket, reports, Progress>> /\ Unmoved

(* Whether an attempt needs a reservation: local models are free, and the operator pays *)
(* for API keys and for the public corpus.                                               *)
Metered == call.enabled /\ payer # "operator" /\ ~call.local

(* Neither hosted vision nor a hosted reranker has a tariff. *)
Unpriced == call.kind \in {"ocr", "rerank"}

(* Mutant: an operation is admitted once, whatever it has to repeat. *)
AdmitOnce ==
  /\ pc = "admit"
  /\ IF Metered /\ Unpriced THEN End("budget_unavailable") /\ UNCHANGED <<ledger, ticket>>
     ELSE IF Metered /\ ledger = <<>>
     THEN \/ /\ ledger' = Append(ledger, Null)
             /\ ticket' = Len(ledger')
             /\ pc' = "request" /\ UNCHANGED result
          \/ \E r \in {"quota_exceeded", "budget_unavailable"} : End(r) /\ UNCHANGED <<ledger, ticket>>
     ELSE pc' = "request" /\ UNCHANGED <<ledger, ticket, result>>
  /\ UNCHANGED <<payer, reports, Progress>> /\ Unmoved

(* before_call, once for every HTTP attempt. *)
Admit ==
  /\ pc = "admit"
  /\ IF Metered /\ Unpriced THEN End("budget_unavailable") /\ UNCHANGED <<ledger, ticket>>
     ELSE IF Metered
     THEN \/ /\ ledger' = Append(ledger, Null)
             /\ ticket' = Len(ledger')
             /\ pc' = "request" /\ UNCHANGED result
          \/ \E r \in {"quota_exceeded", "budget_unavailable"} : End(r) /\ UNCHANGED <<ledger, ticket>>
     ELSE ticket' = 0 /\ pc' = "request" /\ UNCHANGED <<ledger, result>>
  /\ UNCHANGED <<payer, reports, Progress>> /\ Unmoved

(* The attempt is made: from now on it may cost. *)
Send ==
  /\ pc = "request"
  /\ reports' = Append(reports, [ticket |-> ticket, usages |-> {}])
  /\ pc' = call.kind
  /\ UNCHANGED <<payer, ledger, ticket, result, Progress>> /\ Unmoved

-----------------------------------------------------------------------------
(* after_call and settle: a known usage is stored once, then told apart from the estimate;  *)
(* a second, different one is refused, and a database that fails leaves the reservation.     *)
Settlements(usage) ==
  IF ticket = 0 \/ usage = Null THEN {[ledger |-> ledger, fails |-> FALSE]}
  ELSE {[ledger |-> ledger, fails |-> TRUE],
        IF ledger[ticket] # Null THEN [ledger |-> ledger, fails |-> ledger[ticket] # usage]
        ELSE [ledger |-> [ledger EXCEPT ![ticket] = usage], fails |-> usage > Reserved]}

Report(usage) ==
  IF usage = Null THEN reports
  ELSE [reports EXCEPT ![Len(reports)].usages = @ \cup {usage}]

(* A usage event of a stream; a provider may send several. *)
StreamUsage(usage) ==
  /\ pc = "stream" /\ usage # Null
  /\ reports' = Report(usage)
  /\ \E s \in Settlements(usage) :
       /\ ledger' = s.ledger
       /\ IF s.fails THEN End("budget_unavailable") ELSE UNCHANGED <<pc, result>>
  /\ UNCHANGED <<payer, ticket, Progress>> /\ Unmoved

(* The last line, or a status, a deadline, the network or a malformed line before it. *)
StreamEnds(r) ==
  /\ pc = "stream" /\ r \in {"ok", "provider"}
  /\ End(r)
  /\ UNCHANGED <<payer, ledger, ticket, reports, Progress>> /\ Unmoved

(* complete_json: one reply settles its attempt before another is admitted.  A reply is a *)
(* refusal of the format (400), no JSON object, one, or an error: another status, another   *)
(* body, or none.                                                                           *)
Reply == {"rejected", "error", "not json", "json"}

JsonReply(reply, usage) ==
  /\ pc = "json" /\ reply \in Reply
  /\ reply = "rejected" => usage = Null
  /\ reports' = Report(usage)
  /\ \E s \in Settlements(usage) :
       /\ ledger' = s.ledger
       /\ IF s.fails THEN End("budget_unavailable") /\ UNCHANGED <<format, repairs>>
          ELSE IF reply = "rejected" /\ format = "schema"
          THEN format' = "object" /\ pc' = "admit" /\ UNCHANGED <<repairs, result>>
          ELSE IF reply = "not json" /\ repairs = 0
          THEN repairs' = 1 /\ pc' = "admit" /\ UNCHANGED <<format, result>>
          ELSE End(IF reply = "json" THEN "ok" ELSE "provider") /\ UNCHANGED <<format, repairs>>
  /\ UNCHANGED <<payer, ticket, batch, tries>> /\ Unmoved

(* One batch is embedded, in at most three attempts. *)
EmbedReply(reply, usage) ==
  /\ pc = "embed" /\ reply \in {"ok", "retryable", "error"}
  /\ reply = "retryable" => usage = Null
  /\ reports' = Report(usage)
  /\ \E s \in Settlements(usage) :
       /\ ledger' = s.ledger
       /\ IF s.fails THEN End("budget_unavailable") /\ UNCHANGED <<batch, tries>>
          ELSE IF reply = "ok"
          THEN /\ batch' = batch + 1 /\ tries' = 0
               /\ IF batch' = Batches THEN End("ok") ELSE pc' = "admit" /\ UNCHANGED result
          ELSE IF reply = "retryable" /\ tries < 2
          THEN tries' = tries + 1 /\ pc' = "admit" /\ UNCHANGED <<batch, result>>
          ELSE End("provider") /\ UNCHANGED <<batch, tries>>
  /\ UNCHANGED <<payer, ticket, format, repairs>> /\ Unmoved

(* A page is transcribed at once or not at all. *)
TranscribeReply(usage) ==
  /\ pc = "ocr"
  /\ reports' = Report(usage)
  /\ \E s \in Settlements(usage) :
       /\ ledger' = s.ledger
       /\ IF s.fails THEN End("budget_unavailable") ELSE End("ok") \/ End("provider")
  /\ UNCHANGED <<payer, ticket, Progress>> /\ Unmoved

(* "Graceful degradation is the contract": a reranker that fails leaves the fused order. *)
RerankReply ==
  /\ pc = "rerank"
  /\ End("ok")
  /\ UNCHANGED <<payer, ledger, ticket, reports, Progress>> /\ Unmoved

(* The caller goes away or the process dies: what was reserved stays reserved. *)
Abandon ==
  /\ pc # "ended"
  /\ End("abandoned")
  /\ UNCHANGED <<payer, ledger, ticket, reports, Progress>> /\ Unmoved

Next ==
  \/ Bind \/ Admit \/ Send
  \/ \E usage \in Usages \cup {Null} :
       \/ StreamUsage(usage) \/ TranscribeReply(usage)
       \/ \E reply \in Reply : JsonReply(reply, usage)
       \/ \E reply \in {"ok", "retryable", "error"} : EmbedReply(reply, usage)
  \/ \E r \in {"ok", "provider"} : StreamEnds(r)
  \/ RerankReply \/ Abandon

Spec == Init /\ [][Next]_vars

-----------------------------------------------------------------------------
TypeOK ==
  /\ call \in KindOfCall /\ work \in Work /\ payer \in {"operator", "visitor", Null}
  /\ pc \in {"bind", "admit", "request", "ended"} \cup Kind
  /\ format \in {"schema", "object"} /\ repairs \in 0 .. 1
  /\ batch \in 0 .. Batches /\ tries \in 0 .. 2
  /\ \A i \in DOMAIN ledger : ledger[i] \in Usages \cup {Null}
  /\ ticket \in 0 .. Len(ledger)
  /\ \A i \in DOMAIN reports : reports[i] \in [ticket : 0 .. Len(ledger), usages : SUBSET Usages]
  /\ result \in {Null, "ok", "abandoned"} \cup Failures

(* "Provider adapters call admission once per HTTP attempt, settlement once per usage" *)
(* (billing/providers.py:1): no attempt of a visitor's work goes out without a          *)
(* reservation of its own, and none is settled with what another attempt reported.      *)
EachAttemptReserved ==
  /\ Metered => \A i, j \in DOMAIN reports : reports[i].ticket # 0 /\ (reports[i].ticket = reports[j].ticket => i = j)
  /\ \A t \in DOMAIN ledger :
       ledger[t] # Null => \E i \in DOMAIN reports : reports[i].ticket = t /\ ledger[t] \in reports[i].usages

(* What a provider said an attempt cost is not lost to a failure or a retry: the attempt  *)
(* is settled for just that, or it is the last one and its work ends with the budget: the  *)
(* settlement failed, and the whole reservation stays, or a stream reported another usage   *)
(* than that it was settled for, which is refused whether it is more or less.               *)
KnownUsageKept ==
  \A i \in DOMAIN reports :
    reports[i].ticket # 0 /\ reports[i].usages # {} =>
      \/ reports[i].usages = {ledger[reports[i].ticket]}
      \/ i = Len(reports) /\ result = "budget_unavailable"

(* Repairs, formats and retries end: at most three attempts for a structured completion *)
(* and for each batch; and a visitor's work never reaches what has no price.            *)
AttemptsBounded ==
  /\ Len(reports) <= IF call.kind = "embed" THEN 3 * Batches ELSE IF call.kind = "json" THEN 3 ELSE 1
  /\ Metered /\ Unpriced => reports = <<>>

-----------------------------------------------------------------------------
(* The settings: there is a batch to embed, and what a provider reports is money. *)
Settings ==
  /\ Batches \in Nat \ {0} /\ Usages \subseteq Nat /\ Null \notin Usages
  /\ Null \notin {"operator", "visitor"} \cup Failures

(* The inductive invariant.  Before it is sent, a metered attempt has the last         *)
(* reservation, which no other attempt has and nothing has settled; the attempt under  *)
(* way is the last one; and the retries that were counted bound the attempts.          *)
StepConsistent ==
  /\ pc \in Kind => pc = call.kind
  /\ pc # "ended" => result = Null
  /\ pc = "bind" => ledger = <<>> /\ reports = <<>>
  /\ Metered /\ Unpriced => reports = <<>> /\ pc \notin Kind \cup {"request"}

TicketConsistent ==
  /\ ledger \in Seq(Usages \cup {Null})
  /\ reports \in Seq([ticket : Nat, usages : SUBSET Usages])
  /\ ~Metered => ledger = <<>>
  /\ Metered /\ pc = "request" =>
       /\ ticket # 0 /\ ledger[ticket] = Null
       /\ \A i \in DOMAIN reports : reports[i].ticket # ticket
  /\ pc \in Kind => reports # <<>> /\ reports[Len(reports)].ticket = ticket

Allowed ==
  IF call.kind = "embed" THEN 3 * batch + tries
  ELSE IF call.kind = "json" THEN repairs + (IF format = "object" THEN 1 ELSE 0) ELSE 0

CountConsistent ==
  pc # "ended" =>
    /\ batch < Batches
    /\ Len(reports) <= Allowed + (IF pc \in Kind THEN 1 ELSE 0)

IInv ==
  /\ TypeOK /\ EachAttemptReserved /\ KnownUsageKept /\ AttemptsBounded
  /\ StepConsistent /\ TicketConsistent /\ CountConsistent
=============================================================================
