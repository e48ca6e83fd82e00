----------------------------- MODULE SourceSync -----------------------------
(* A connected source and the documents it makes: requests and deletion     *)
(* (sources/service.py), the task, its lease and the beat's schedule        *)
(* (sources/tasks.py), one synchronisation (sources/sync.py).  A page of    *)
(* the source has one body in each version; what the body becomes in the    *)
(* tenant's storage is in FileStore, its ingestion in Ingestion.            *)
EXTENDS Integers, FiniteSets

CONSTANTS
  Page,         \* external ids
  Text,         \* what pages render to
  Body,         \* the text of each version of each page
  Slot,         \* places for executions in the worker pool
  Null,
  Lease,        \* LEASE_SECONDS
  PartialLease, \* PARTIAL_LEASE_SECONDS
  HardLimit,    \* task_time_limit of workers/celery_app.py
  Interval,     \* auto_sync_interval_s
  Config,       \* what the source and the settings may say
  MaxVersion,   \* bound: versions of a page
  MaxMessages,  \* bound: messages in the broker at a time; more of them are lost
  MaxChanges,   \* bound: what users of the source and of the collection do
  MaxFaults     \* bound: what goes wrong

Version == 1 .. MaxVersion

ASSUME NullAssumption == Null \notin Slot
ASSUME BodyAssumption == Body \in [Page -> [Version -> Text]]
ASSUME ConfigAssumption == Config \subseteq [auto : BOOLEAN, cap : Nat]
ASSUME TimeAssumption ==
  /\ {Lease, PartialLease, HardLimit, Interval} \subseteq Nat
  /\ HardLimit < Lease
ASSUME BoundAssumption == {MaxVersion, MaxMessages, MaxChanges, MaxFaults} \subseteq Nat

VARIABLES
  config,   \* automatic synchronisation, and source_max_documents
  source,   \* the row; lease and wait are what is left of lease_expires_at and of
            \* the interval since last_sync_at
  messages, \* how many messages for the source the broker holds
  job,      \* what each slot executes, or Null
  page,     \* the version of each page; 0 before it is created, negative while archived
  doc,      \* the document of each page, or Null
  others,   \* texts of the collection's other documents
  changes, faults

vars == <<config, source, messages, job, page, doc, others, changes, faults>>

Status == {"idle", "queued", "syncing", "partial", "failed", "deleted"}
Row == [status : Status, token : Slot \cup {Null}, lease : 0 .. Lease \cup 0 .. PartialLease,
        wait : 0 .. Interval]
Doc == [seen : Version, made : Version, mine : BOOLEAN]
Item == [version : Version, known : Text \cup {Null}]
Phase == {"listing", "listed", "rendered"}
NoItems == [p \in {} |-> Null]
Job == [at : Phase, left : 0 .. HardLimit, was : [Page -> SUBSET (0 .. MaxVersion)],
        missed : SUBSET Page, vanished : SUBSET Page,
        todo : UNION {[P -> Item] : P \in SUBSET Page},
        page : Page \cup {Null}, made : 0 .. MaxVersion]

ASSUME RecordAssumption == Null \notin Doc \cup Job \cup Page \cup Text

Init ==
  /\ config \in Config
  /\ source = [status |-> "queued", token |-> Null, lease |-> Lease, wait |-> 0]
  /\ messages \in {0, 1} \cap 0 .. MaxMessages
  /\ job = [w \in Slot |-> Null]
  /\ page = [p \in Page |-> 0]
  /\ doc = [p \in Page |-> Null]
  /\ others = {}
  /\ changes = 0 /\ faults = 0

-----------------------------------------------------------------------------
There(p) == page[p] > 0
Latest(p) == IF page[p] < 0 THEN -page[p] ELSE page[p]
Mine(p) == doc[p] # Null /\ doc[p].mine
TextOf(p) == Body[p][doc[p].made]
Free(p, t) == t \notin others /\ \A q \in Page \ {p} : doc[q] # Null => TextOf(q) # t
Alive == source.status # "deleted"
LeaseLive == source.lease > 0

Change == changes < MaxChanges /\ changes' = changes + 1
Fault == faults < MaxFaults /\ faults' = faults + 1

(* One more message, unless the broker fails and it is lost. *)
Publish ==
  \/ messages' = (IF messages < MaxMessages THEN messages + 1 ELSE messages) /\ UNCHANGED faults
  \/ Fault /\ UNCHANGED messages

-----------------------------------------------------------------------------
(* request_sync *)
RequestSync ==
  /\ Change
  /\ Alive
  /\ ~(source.status \in {"queued", "syncing"} /\ LeaseLive)
  /\ source' = [source EXCEPT !.status = "queued", !.lease = Lease]
  /\ Publish
  /\ UNCHANGED <<config, job, page, doc, others>>

(* delete_source: the documents stay, and their source_id becomes null. *)
DeleteSource ==
  /\ Change
  /\ Alive
  /\ source' = [status |-> "deleted", token |-> Null, lease |-> 0, wait |-> 0]
  /\ doc' = [p \in Page |-> IF Mine(p) THEN [doc[p] EXCEPT !.mine = FALSE] ELSE doc[p]]
  /\ UNCHANGED <<config, messages, job, page, others, faults>>

(* Mutant: only sources that synchronise automatically are scheduled. *)
ScheduleAutomatic ==
  /\ Alive
  /\ ~LeaseLive
  /\ config.auto /\ source.wait = 0
  /\ source' = [source EXCEPT !.status = "queued", !.lease = Lease]
  /\ Publish
  /\ UNCHANGED <<config, job, page, doc, others, changes>>

(* Mutant: of the automatic ones, only those that ended well are scheduled. *)
ScheduleIdle ==
  /\ Alive
  /\ ~LeaseLive
  /\ source.status \in {"queued", "partial"}
     \/ (config.auto /\ source.wait = 0 /\ source.status = "idle")
  /\ source' = [source EXCEPT !.status = "queued", !.lease = Lease]
  /\ Publish
  /\ UNCHANGED <<config, job, page, doc, others, changes>>

(* schedule_syncs: what was lost, and automatic synchronisations that are due. *)
ScheduleSyncs ==
  /\ Alive
  /\ ~LeaseLive
  /\ source.status \in {"queued", "partial"} \/ (config.auto /\ source.wait = 0)
  /\ source' = [source EXCEPT !.status = "queued", !.lease = Lease]
  /\ Publish
  /\ UNCHANGED <<config, job, page, doc, others, changes>>

(* sync_source ignores the message of a source that is gone or in other hands. *)
IgnoreMessage ==
  /\ messages > 0
  /\ ~Alive \/ (source.status = "syncing" /\ LeaseLive)
  /\ messages' = messages - 1
  /\ UNCHANGED <<config, source, job, page, doc, others, changes, faults>>

(* What a listing shows of a page now: its version, or 0. *)
Shown(p) == IF There(p) THEN page[p] ELSE 0

Started == [at |-> "listing", left |-> HardLimit, was |-> [p \in Page |-> {Shown(p)}],
            missed |-> {}, vanished |-> {}, todo |-> NoItems, page |-> Null, made |-> 0]

(* Mutant: another worker's lease is no reason to stop. *)
ClaimAnyway(w) ==
  /\ messages > 0
  /\ job[w] = Null
  /\ Alive
  /\ messages' = messages - 1
  /\ source' = [source EXCEPT !.status = "syncing", !.token = w, !.lease = Lease]
  /\ job' = [job EXCEPT ![w] = Started]
  /\ UNCHANGED <<config, page, doc, others, changes, faults>>

Claim(w) ==
  /\ messages > 0
  /\ job[w] = Null
  /\ Alive
  /\ ~(source.status = "syncing" /\ LeaseLive)
  /\ messages' = messages - 1
  /\ source' = [source EXCEPT !.status = "syncing", !.token = w, !.lease = Lease]
  /\ job' = [job EXCEPT ![w] = Started]
  /\ UNCHANGED <<config, page, doc, others, changes, faults>>

-----------------------------------------------------------------------------
(* Mutant: a capped listing is taken for the whole workspace. *)
VanishedAnyway(items, known, truncated) == known \ items

(* "A capped listing says nothing about what lies beyond the cap." *)
Vanished(items, known, truncated) == IF truncated THEN {} ELSE known \ items

(* What was seen of some pages, and nothing of the others. *)
Only(was, pages) == [p \in Page |-> IF p \in pages THEN was[p] ELSE {}]

(* list_items pages through the workspace while users change it: each page is listed *)
(* as it was at some moment of the listing, and an answer that has more but no cursor *)
(* ends it early.  Then _existing (a deletion in between does not change what comes   *)
(* of it), and the comparison of versions that run() makes item by item.              *)
ListAs(w, seen, missed, items) ==
  LET listed == {p \in Page \ missed : seen[p] > 0}
      gone == Vanished(items, {p \in Page : Mine(p)}, items # listed)
  IN  /\ (missed = {} /\ UNCHANGED faults) \/ Fault
      /\ items \subseteq listed
      /\ Cardinality(items) <= config.cap
      /\ items = listed \/ Cardinality(items) = config.cap
      /\ job' = [job EXCEPT
           ![w].at = "listed",
           ![w].was = Only(@, gone),
           ![w].missed = missed \cap gone,
           ![w].vanished = gone,
           ![w].todo = [p \in {q \in items : Mine(q) => doc[q].seen # seen[q]} |->
                          [version |-> seen[p], known |-> IF Mine(p) THEN TextOf(p) ELSE Null]]]
      /\ UNCHANGED <<config, source, messages, page, doc, others, changes>>

Sights(w) == {seen \in [Page -> 0 .. MaxVersion] : \A p \in Page : seen[p] \in job[w].was[p]}

List(w) ==
  /\ job[w] # Null /\ job[w].at = "listing"
  /\ \E seen \in Sights(w), missed \in SUBSET Page :
       \E items \in SUBSET (Page \ missed) : ListAs(w, seen, missed, items)

(* _remove_vanished, in one transaction. *)
RemoveVanished(w) ==
  /\ job[w] # Null /\ job[w].at = "listed"
  /\ job[w].vanished # {}
  /\ doc' = [p \in Page |-> IF p \in job[w].vanished /\ Mine(p) THEN Null ELSE doc[p]]
  /\ job' = [job EXCEPT ![w].was = Only(@, {}), ![w].missed = {}, ![w].vanished = {}]
  /\ UNCHANGED <<config, source, messages, page, others, changes, faults>>

Less(f, p) == [q \in DOMAIN f \ {p} |-> f[q]]

At(w, phase) == job[w] # Null /\ job[w].at = phase /\ job[w].vanished = {}

(* The page's properties are those of the listing, its blocks those of now: the *)
(* text is that of either version, where one of the two did not change.         *)
Render(w, p) ==
  /\ At(w, "listed")
  /\ p \in DOMAIN job[w].todo
  /\ There(p)
  /\ \E v \in {job[w].todo[p].version, page[p]} :
       job' = [job EXCEPT ![w].at = "rendered", ![w].page = p, ![w].made = v]
  /\ UNCHANGED <<config, source, messages, page, doc, others, changes, faults>>

(* A page that cannot be rendered any more, is too large or over the quota. *)
SkipItem(w, p) ==
  /\ At(w, "listed")
  /\ p \in DOMAIN job[w].todo
  /\ (~There(p) /\ UNCHANGED faults) \/ Fault
  /\ job' = [job EXCEPT ![w].todo = Less(@, p)]
  /\ UNCHANGED <<config, source, messages, page, doc, others, changes>>

(* What _upsert writes: the version only, when the text is the one it knew; else *)
(* a new row or new contents, unless the text is another document's.             *)
Writes(p, item, t) ==
  \/ item.known = t /\ Mine(p)
  \/ item.known = Null /\ Alive /\ doc[p] = Null /\ Free(p, t)
  \/ item.known \notin {t, Null} /\ Mine(p) /\ Free(p, t)

Written(p, item, made) ==
  IF item.known = Body[p][made]
  THEN [doc[p] EXCEPT !.seen = item.version]
  ELSE [seen |-> item.version, made |-> made, mine |-> TRUE]

Upsert(w) ==
  LET p == job[w].page
      item == job[w].todo[p]
  IN  /\ At(w, "rendered")
      /\ doc' = IF Writes(p, item, Body[p][job[w].made])
                THEN [doc EXCEPT ![p] = Written(p, item, job[w].made)] ELSE doc
      /\ job' = [job EXCEPT ![w].at = "listed", ![w].page = Null, ![w].made = 0,
                            ![w].todo = Less(@, p)]
      /\ UNCHANGED <<config, source, messages, page, others, changes, faults>>

-----------------------------------------------------------------------------
(* _finish: only the execution whose token the row has may end it. *)
Finished(w, status) ==
  IF Alive /\ source.token = w
  THEN [status |-> status, token |-> Null,
        lease |-> IF status = "partial" THEN PartialLease ELSE 0,
        wait |-> IF status = "failed" THEN source.wait ELSE Interval]
  ELSE source

End(w, status) ==
  /\ source' = Finished(w, status)
  /\ job' = [job EXCEPT ![w] = Null]
  /\ UNCHANGED <<config, page, doc, others, changes>>

Complete(w) ==
  /\ At(w, "listed")
  /\ job[w].todo = NoItems
  /\ End(w, "idle")
  /\ UNCHANGED <<messages, faults>>

(* The soft time limit: the task ends, and asks to be run again. *)
Interrupt(w) ==
  /\ job[w] # Null
  /\ Fault
  /\ End(w, "partial")
  /\ messages' \in {messages, messages + 1} \cap 0 .. MaxMessages

(* A source that is gone, credentials that are rejected, a provider that fails. *)
Fail(w) ==
  /\ job[w] # Null
  /\ (job[w].at = "listing" /\ ~Alive /\ UNCHANGED faults) \/ Fault
  /\ End(w, "failed")
  /\ UNCHANGED messages

(* The process dies, or the hard limit kills it; its message may come again. *)
Crash(w) ==
  /\ job[w] # Null
  /\ Fault
  /\ job' = [job EXCEPT ![w] = Null]
  /\ messages' \in {messages, messages + 1} \cap 0 .. MaxMessages
  /\ UNCHANGED <<config, source, page, doc, others, changes>>

Sooner(n) == IF n = 0 THEN 0 ELSE n - 1

Tick ==
  /\ \A w \in Slot : job[w] # Null => job[w].left > 0
  /\ job' = [w \in Slot |-> IF job[w] = Null THEN Null ELSE [job[w] EXCEPT !.left = @ - 1]]
  /\ source' = [source EXCEPT !.lease = Sooner(@), !.wait = Sooner(@)]
  /\ UNCHANGED <<config, messages, page, doc, others, changes, faults>>

-----------------------------------------------------------------------------
(* A page of the workspace changes, under the eyes of whoever is listing it. *)
Becomes(p, n) ==
  /\ page' = [page EXCEPT ![p] = n]
  /\ job' = [w \in Slot |->
               IF job[w] # Null /\ job[w].at = "listing"
               THEN [job[w] EXCEPT !.was[p] = @ \cup {Shown(p)'}] ELSE job[w]]
  /\ UNCHANGED <<config, source, messages, doc, others, faults>>

(* A page is created or edited, archived or moved out of scope, and brought back. *)
Edit(p) ==
  /\ Change
  /\ page[p] \in 0 .. MaxVersion - 1
  /\ Becomes(p, page[p] + 1)

Archive(p) ==
  /\ Change
  /\ There(p)
  /\ Becomes(p, -page[p])

Restore(p) ==
  /\ Change
  /\ page[p] < 0
  /\ Becomes(p, -page[p])

(* delete_document, of a document that the source made. *)
DeleteDocument(p) ==
  /\ Change
  /\ doc[p] # Null
  /\ doc' = [doc EXCEPT ![p] = Null]
  /\ UNCHANGED <<config, source, messages, job, page, others, faults>>

(* save_upload and delete_document, of the collection's other documents. *)
ChangeOthers(t) ==
  /\ Change
  /\ \/ t \in others /\ others' = others \ {t}
     \/ /\ t \notin others
        /\ \A p \in Page : doc[p] # Null => TextOf(p) # t
        /\ others' = others \cup {t}
  /\ UNCHANGED <<config, source, messages, job, page, doc, faults>>

WorkerStep(w) ==
  \/ List(w) \/ RemoveVanished(w) \/ Upsert(w) \/ Complete(w)
  \/ \E p \in Page : Render(w, p)
  \/ \E p \in Page : SkipItem(w, p)
  \/ Fail(w)

Next ==
  \/ RequestSync \/ DeleteSource \/ ScheduleSyncs \/ IgnoreMessage \/ Tick
  \/ \E w \in Slot : Claim(w) \/ WorkerStep(w) \/ Interrupt(w) \/ Crash(w)
  \/ \E p \in Page : Edit(p) \/ Archive(p) \/ Restore(p) \/ DeleteDocument(p)
  \/ \E t \in Text : ChangeOthers(t)

Spec == Init /\ [][Next]_vars

(* The beat and the broker go on, and so does every execution that does not fail. *)
Fairness ==
  /\ WF_vars(Tick) /\ WF_vars(ScheduleSyncs) /\ WF_vars(IgnoreMessage)
  /\ WF_vars(\E w \in Slot : Claim(w))
  /\ \A w \in Slot : WF_vars(WorkerStep(w))

FairSpec == Spec /\ Fairness

-----------------------------------------------------------------------------
TypeOK ==
  /\ config \in Config
  /\ source \in Row
  /\ messages \in 0 .. MaxMessages
  /\ job \in [Slot -> Job \cup {Null}]
  /\ page \in [Page -> -MaxVersion .. MaxVersion]
  /\ doc \in [Page -> Doc \cup {Null}]
  /\ others \subseteq Text
  /\ changes \in 0 .. MaxChanges /\ faults \in 0 .. MaxFaults

(* "> task_time_limit (600) so a killed worker's lease expires after it": an       *)
(* execution holds its source until it ends, so that no other one changes the      *)
(* source's documents beside it, whatever was asked, scheduled or delivered twice. *)
ExecutionsHoldSource ==
  Alive => \A w \in Slot : job[w] # Null =>
             source.status = "syncing" /\ source.token = w /\ LeaseLive

(* "equal -> nothing to re-render": a document whose recorded version is the page's *)
(* current one has its current text, although pages are edited between the listing, *)
(* the rendering and the commit, and executions are interrupted anywhere.           *)
VersionTellsText ==
  \A p \in Page : Mine(p) /\ doc[p].seen = Latest(p) => TextOf(p) = Body[p][Latest(p)]

(* An execution removes what it found to have vanished, the page's document with it:  *)
(* the page was away at a moment of its listing, or an answer with more but no cursor *)
(* made the listing miss it.                                                          *)
RemovesUnlisted(w, p) == RemoveVanished(w) /\ (0 \in job[w].was[p] \/ p \in job[w].missed)

(* A synchronisation removes no document of a page that was there throughout its      *)
(* listing and was not missed by it.  A page that is back by the time of the removal  *)
(* still loses its document, until the next synchronisation makes it anew.            *)
ExistingPagesKept ==
  [][\A p \in Page : doc[p] # Null /\ doc'[p] = Null =>
       DeleteDocument(p) \/ \E w \in Slot : RemovesUnlisted(w, p)]_vars

(* "Deleting the source keeps them as plain documents": a synchronisation that is *)
(* still running neither changes nor removes them.                                *)
DetachedKept ==
  [][\A p \in Page : doc[p] # Null /\ ~doc[p].mine /\ doc'[p] # doc[p] =>
       DeleteDocument(p)]_vars

(* What a synchronisation leaves alone. *)
PagesKept == ExistingPagesKept /\ DetachedKept

(* What a document says it has seen of its page is what it holds; a listing in which a *)
(* page was throughout, and that did not miss it, never removes the page's document,   *)
(* capped or not; and only its deletion touches a detached one (sources/sync.py).      *)
MirrorHolds == []VersionTellsText /\ PagesKept

(* Once users and failures let it be, an automatically synchronised source that fits *)
(* the cap is mirrored for good, except for texts that another document holds.       *)
Mirrored(p) ==
  IF There(p) THEN \/ Mine(p) /\ doc[p].seen = page[p]
                   \/ ~Free(p, Body[p][page[p]])
              ELSE ~Mine(p)

MirroredInTheEnd ==
  <>[](Alive /\ config.auto /\ config.cap >= Cardinality(Page) => \A p \in Page : Mirrored(p))

(* "Re-publishes lost QUEUED rows", and the partial ones: what was asked for is run. *)
WaitingIsServed == source.status \in {"queued", "partial"} ~>
                     source.status \notin {"queued", "partial"}

(* "A crashed worker never wedges a source": an automatic one does not stay syncing. *)
SyncingEnds == config.auto /\ source.status = "syncing" ~> source.status # "syncing"

(* Requests are served, and synchronisations end. *)
RequestsEnd == WaitingIsServed /\ SyncingEnds

-----------------------------------------------------------------------------
(* The inductive invariant.  The lease outlives its execution, of which there is one *)
(* at a time; versions only grow, so that neither a document nor an execution has     *)
(* seen one that is still to come; and what an execution knows of a document's text   *)
(* is so for as long as the document is there.                                        *)
LeaseOutlives ==
  Alive => \A w \in Slot : job[w] # Null =>
             source.status = "syncing" /\ source.token = w /\ source.lease > job[w].left

OneExecution == \A v, w \in Slot : job[v] # Null /\ job[w] # Null => v = w

Reached(p, v) == v <= Latest(p)

SeenIsPast == \A p \in Page : doc[p] # Null => Reached(p, doc[p].seen)

ItemConsistent(p, item) ==
  Reached(p, item.version) /\ (Mine(p) => item.known = TextOf(p))

RenderedConsistent(j) ==
  /\ j.page \in DOMAIN j.todo
  /\ j.made \in Version
  /\ j.made = j.todo[j.page].version \/ Latest(j.page) # j.todo[j.page].version

WorkConsistent(j) ==
  /\ \A p \in Page : \A v \in j.was[p] : Reached(p, v)
  /\ \A p \in j.vanished : 0 \in j.was[p] \/ p \in j.missed
  /\ \A p \in DOMAIN j.todo : ItemConsistent(p, j.todo[p])
  /\ j.at = "rendered" => RenderedConsistent(j)

IInv ==
  /\ TypeOK
  /\ LeaseOutlives /\ OneExecution
  /\ VersionTellsText /\ SeenIsPast
  /\ \A w \in Slot : job[w] # Null => WorkConsistent(job[w])
=============================================================================
