-------------------------- MODULE SourceSyncProofs --------------------------
(* A source is synchronised by one execution at a time, and what its documents *)
(* say of their pages is so: for any number of pages, workers and versions.    *)
EXTENDS SourceSync, TLAPS

Todo == UNION {[P -> Item] : P \in SUBSET Page}

(* The list that is left when an item is done. *)
LEMMA LessTodo ==
  ASSUME NEW f \in Todo, NEW p
  PROVE  /\ Less(f, p) \in Todo
         /\ DOMAIN Less(f, p) = DOMAIN f \ {p}
         /\ \A q \in DOMAIN f \ {p} : Less(f, p)[q] = f[q]
<1>1. PICK P \in SUBSET Page : f \in [P -> Item]
  BY DEF Todo
<1>2. Less(f, p) \in [P \ {p} -> Item] /\ P \ {p} \in SUBSET Page
  BY <1>1 DEF Less
<1> QED BY <1>1, <1>2 DEF Less, Todo

(* The fields of an execution, with their types. *)
LEMMA JobFields ==
  ASSUME NEW j \in Job
  PROVE  /\ j.at \in Phase /\ j.left \in 0 .. HardLimit /\ j.vanished \subseteq Page
         /\ j.was \in [Page -> SUBSET (0 .. MaxVersion)] /\ j.missed \subseteq Page
         /\ j.todo \in Todo /\ DOMAIN j.todo \subseteq Page
         /\ \A p \in DOMAIN j.todo : j.todo[p] \in Item
         /\ j.page \in Page \cup {Null} /\ j.made \in 0 .. MaxVersion
         /\ j # Null
<1>1. j.todo \in Todo
  BY DEF Job, Todo
<1>2. PICK P \in SUBSET Page : j.todo \in [P -> Item]
  BY <1>1 DEF Todo
<1> QED BY <1>1, <1>2, RecordAssumption DEF Job

(* What is to come has not been seen, however pages change. *)
Grows == \A p \in Page : Latest(p)' \in Nat /\ Latest(p) <= Latest(p)'

(* Documents go, or are detached, and keep what they hold. *)
Loses == \A p \in Page : doc'[p] # Null =>
           /\ doc[p] # Null
           /\ doc'[p].seen = doc[p].seen /\ doc'[p].made = doc[p].made
           /\ doc'[p].mine => doc[p].mine

(* What a page is at, and what a listing shows of it. *)
LEMMA LatestFits ==
  ASSUME TypeOK, NEW p \in Page
  PROVE  /\ page[p] \in Int /\ Latest(p) \in 0 .. MaxVersion
         /\ Shown(p) \in 0 .. MaxVersion /\ Reached(p, Shown(p))
         /\ ~There(p) => Shown(p) = 0
<1>1. page[p] \in -MaxVersion .. MaxVersion /\ MaxVersion \in Nat
  BY BoundAssumption DEF TypeOK
<1> QED BY <1>1 DEF Latest, Shown, There, Reached

LEMMA GrowsStill ==
  ASSUME TypeOK, page' = page
  PROVE  Grows
<1> SUFFICES ASSUME NEW p \in Page PROVE Latest(p)' \in Nat /\ Latest(p) <= Latest(p)'
  BY DEF Grows
<1>1. Latest(p)' = Latest(p)
  BY DEF Latest
<1>2. Latest(p) \in Nat
  BY LatestFits, BoundAssumption
<1> QED BY <1>1, <1>2

LEMMA ReachedStays ==
  ASSUME TypeOK, Grows, NEW p \in Page, NEW v \in Nat, Reached(p, v)
  PROVE  /\ Reached(p, v)'
         /\ Latest(p) # v => Latest(p)' # v
         /\ Latest(p)' = v => Latest(p) = v
<1>1. Latest(p) \in Nat /\ Latest(p)' \in Nat /\ Latest(p) <= Latest(p)' /\ v <= Latest(p)
  BY LatestFits, BoundAssumption DEF Grows, Reached
<1>2. Reached(p, v)' <=> v <= Latest(p)'
  BY DEF Reached
<1> QED BY <1>1, <1>2

(* Versions are numbers. *)
LEMMA VersionFits == Version \subseteq 1 .. MaxVersion /\ Version \subseteq Nat /\ 0 .. MaxVersion \subseteq Nat
BY BoundAssumption DEF Version

(* Then documents tell the truth about their pages as before. *)
LEMMA TruthStays ==
  ASSUME IInv, Grows, Loses
  PROVE  VersionTellsText' /\ SeenIsPast'
<1>1. ASSUME NEW p \in Page, doc'[p] # Null
      PROVE  /\ doc[p] # Null /\ doc[p].seen \in Version /\ doc'[p].seen = doc[p].seen
             /\ Reached(p, doc[p].seen)
  BY <1>1 DEF Loses, IInv, TypeOK, SeenIsPast, Doc
<1>2. SeenIsPast'
  <2>1. ASSUME NEW p \in Page, doc'[p] # Null
        PROVE  Reached(p, doc[p].seen)'
    <3>1. doc[p].seen \in Nat /\ Reached(p, doc[p].seen) /\ doc'[p].seen = doc[p].seen
      BY <1>1, <2>1, VersionFits
    <3>2. PICK v \in Nat : v = doc[p].seen
      BY <3>1
    <3>3. Reached(p, v)'
      BY <3>1, <3>2, ReachedStays DEF IInv
    <3> QED BY <3>1, <3>2, <3>3 DEF Reached
  <2> QED BY <2>1 DEF SeenIsPast
<1>3. ASSUME NEW p \in Page, Mine(p)', doc'[p].seen = Latest(p)'
      PROVE  TextOf(p)' = Body[p][Latest(p)']
  <2>1. doc'[p] # Null /\ doc'[p].made = doc[p].made /\ Mine(p) /\ doc'[p].seen = doc[p].seen
    BY <1>3 DEF Mine, Loses
  <2>2. Latest(p) = Latest(p)'
    <3>1. doc[p].seen \in Nat /\ Reached(p, doc[p].seen)
      BY <1>1, <2>1, VersionFits
    <3> QED BY <1>3, <2>1, <3>1, ReachedStays DEF IInv
  <2> QED BY <1>3, <2>1, <2>2 DEF IInv, VersionTellsText, TextOf
<1> QED BY <1>2, <1>3 DEF VersionTellsText

(* And an execution that does nothing meanwhile knows what it knew. *)
LEMMA WorkStays ==
  ASSUME TypeOK, Grows, Loses, NEW j \in Job, WorkConsistent(j)
  PROVE  WorkConsistent(j)'
<1>1. ASSUME NEW p \in Page, NEW v \in j.was[p] PROVE Reached(p, v)'
  <2>1. v \in Nat /\ Reached(p, v)
    BY JobFields, VersionFits DEF WorkConsistent
  <2> QED BY <2>1, ReachedStays
<1>2. ASSUME NEW p \in DOMAIN j.todo
      PROVE  ItemConsistent(p, j.todo[p])'
  <2>1. p \in Page /\ j.todo[p].version \in Version
    BY JobFields DEF Item
  <2>2. Reached(p, j.todo[p].version) /\ (Mine(p) => j.todo[p].known = TextOf(p))
    BY DEF WorkConsistent, ItemConsistent
  <2>3. Mine(p)' => Mine(p) /\ TextOf(p)' = TextOf(p)
    BY <2>1 DEF Loses, Mine, TextOf
  <2>4. Reached(p, j.todo[p].version)'
    BY <2>1, <2>2, VersionFits, ReachedStays
  <2> QED BY <2>2, <2>3, <2>4 DEF ItemConsistent
<1>3. ASSUME RenderedConsistent(j) PROVE RenderedConsistent(j)'
  <2>1. j.page \in Page /\ j.todo[j.page].version \in Version /\ j.page \in DOMAIN j.todo
    BY <1>3, JobFields DEF Item, RenderedConsistent
  <2>2. Reached(j.page, j.todo[j.page].version)
    BY <2>1 DEF WorkConsistent, ItemConsistent
  <2>3. Latest(j.page) # j.todo[j.page].version => Latest(j.page)' # j.todo[j.page].version
    BY <2>1, <2>2, VersionFits, ReachedStays
  <2> QED BY <1>3, <2>3 DEF RenderedConsistent
<1> QED BY <1>1, <1>2, <1>3 DEF WorkConsistent

(* The same of an execution that is named by its slot. *)
LEMMA WorkOfSlot ==
  ASSUME NEW w \in Slot, NEW j, j = job'[w], WorkConsistent(j)'
  PROVE  WorkConsistent(job[w])'
BY DEF WorkConsistent, ItemConsistent, RenderedConsistent

(* What a step must show of the executions, when pages and documents only change so. *)
LEMMA Calm ==
  ASSUME IInv, Grows, Loses, TypeOK', LeaseOutlives', OneExecution',
         \A w \in Slot : job'[w] # Null => job'[w] = job[w] \/ WorkConsistent(job[w])'
  PROVE  IInv'
<1>1. ASSUME NEW w \in Slot, job'[w] # Null PROVE WorkConsistent(job[w])'
  <2>1. CASE job'[w] = job[w]
    <3>1. PICK j \in Job : j = job[w] /\ WorkConsistent(j)
      BY <1>1, <2>1 DEF IInv, TypeOK
    <3>2. WorkConsistent(j)'
      BY <3>1, WorkStays DEF IInv
    <3> QED BY <2>1, <3>1, <3>2, WorkOfSlot
  <2> QED BY <1>1, <2>1
<1> QED BY <1>1, TruthStays DEF IInv

(* The first state, with no execution and no document. *)
LEMMA InitInv == Init => IInv
<1> SUFFICES ASSUME Init PROVE IInv
  OBVIOUS
<1>1. TypeOK
  <2>1. source \in Row
    BY TimeAssumption DEF Init, Row, Status
  <2>2. messages \in 0 .. MaxMessages /\ changes \in 0 .. MaxChanges /\ faults \in 0 .. MaxFaults
    BY BoundAssumption DEF Init
  <2>3. page \in [Page -> -MaxVersion .. MaxVersion]
    BY BoundAssumption DEF Init
  <2>4. job \in [Slot -> Job \cup {Null}] /\ doc \in [Page -> Doc \cup {Null}]
    BY DEF Init
  <2>5. config \in Config /\ others \subseteq Text
    BY DEF Init
  <2> QED BY <2>1, <2>2, <2>3, <2>4, <2>5 DEF TypeOK
<1>2. \A w \in Slot : job[w] = Null
  BY DEF Init
<1>3. \A p \in Page : doc[p] = Null
  BY DEF Init
<1> QED BY <1>1, <1>2, <1>3
        DEF IInv, LeaseOutlives, OneExecution, VersionTellsText, SeenIsPast, Mine

(* Requests and the beat touch a source that no execution holds; messages, nothing else. *)
LEMMA OwnersKeep ==
  ASSUME IInv, RequestSync \/ ScheduleSyncs \/ IgnoreMessage
  PROVE  IInv'
<1>1. /\ config' = config /\ job' = job /\ page' = page /\ doc' = doc /\ others' = others
      /\ changes' \in 0 .. MaxChanges /\ faults' \in 0 .. MaxFaults
      /\ messages' \in 0 .. MaxMessages
  <2>1. MaxChanges \in Nat /\ MaxFaults \in Nat /\ MaxMessages \in Nat
    BY BoundAssumption
  <2> QED BY <2>1 DEF IInv, TypeOK, RequestSync, ScheduleSyncs, IgnoreMessage, Publish, Fault, Change
<1>2. source' \in Row
  <2>1. source \in Row /\ Lease \in 0 .. Lease \cup 0 .. PartialLease
    BY TimeAssumption DEF IInv, TypeOK
  <2>2. source' = source \/ source' = [source EXCEPT !.status = "queued", !.lease = Lease]
    BY DEF RequestSync, ScheduleSyncs, IgnoreMessage
  <2> QED BY <2>1, <2>2 DEF Row, Status
<1>3. TypeOK'
  BY <1>1, <1>2 DEF IInv, TypeOK
<1>4. LeaseOutlives'
  <2>1. CASE source' = source
    BY <1>1, <2>1 DEF IInv, LeaseOutlives, Alive
  <2>2. CASE source' # source
    <3>1. Alive /\ ~(source.status = "syncing" /\ LeaseLive)
      BY <2>2 DEF RequestSync, ScheduleSyncs, IgnoreMessage
    <3>2. ASSUME NEW w \in Slot, job[w] # Null PROVE FALSE
      <4>1. source.status = "syncing" /\ source.lease > job[w].left /\ job[w].left \in Nat
            /\ source.lease \in Int
        BY <3>1, <3>2, JobFields, TimeAssumption DEF IInv, LeaseOutlives, TypeOK, Row
      <4> QED BY <3>1, <4>1 DEF LeaseLive
    <3> QED BY <1>1, <3>2 DEF LeaseOutlives
  <2> QED BY <2>1, <2>2
<1>5. OneExecution' /\ Grows /\ Loses
  BY <1>1, GrowsStill DEF IInv, OneExecution, Loses
<1> QED BY <1>1, <1>3, <1>4, <1>5, Calm

(* A deleted source holds no execution back, and leaves its documents. *)
LEMMA DeleteSourceKeeps ==
  ASSUME IInv, DeleteSource
  PROVE  IInv'
<1>1. /\ config' = config /\ job' = job /\ page' = page /\ others' = others
      /\ messages' = messages /\ faults' = faults /\ changes' \in 0 .. MaxChanges
  BY BoundAssumption DEF DeleteSource, Change, IInv, TypeOK
<1>2. source' \in Row /\ source'.status = "deleted"
  BY TimeAssumption DEF DeleteSource, Row, Status
<1>3. ASSUME NEW p \in Page
      PROVE  /\ doc'[p] \in Doc \cup {Null}
             /\ doc'[p] # Null => /\ doc[p] # Null
                                  /\ doc'[p].seen = doc[p].seen /\ doc'[p].made = doc[p].made
                                  /\ doc'[p].mine => doc[p].mine
  <2>1. doc[p] \in Doc \cup {Null} /\ (doc'[p] = doc[p] \/ (Mine(p) /\ doc'[p] = [doc[p] EXCEPT !.mine = FALSE]))
    BY DEF DeleteSource, IInv, TypeOK
  <2> QED BY <2>1 DEF Doc, Mine
<1>4. TypeOK'
  <2>1. doc' \in [Page -> Doc \cup {Null}]
    BY <1>3 DEF DeleteSource
  <2> QED BY <1>1, <1>2, <2>1 DEF IInv, TypeOK
<1>5. LeaseOutlives' /\ OneExecution' /\ Grows /\ Loses
  BY <1>1, <1>2, <1>3, GrowsStill DEF IInv, OneExecution, LeaseOutlives, Alive, Loses
<1> QED BY <1>1, <1>4, <1>5, Calm

(* The message of a source that nobody holds starts the one execution. *)
LEMMA ClaimKeeps ==
  ASSUME IInv, NEW w \in Slot, Claim(w)
  PROVE  IInv'
<1>1. ASSUME NEW v \in Slot, job[v] # Null PROVE FALSE
  <2>1. /\ source.status = "syncing" /\ source.lease > job[v].left
        /\ job[v].left \in Nat /\ source.lease \in Int
    BY <1>1, JobFields, TimeAssumption DEF IInv, LeaseOutlives, TypeOK, Row, Claim
  <2> QED BY <2>1 DEF Claim, LeaseLive
<1>2. PICK new : new = Started
  OBVIOUS
<1>3. new \in Job /\ new.left = HardLimit /\ DOMAIN new.todo = {}
  <2>1. NoItems \in UNION {[P -> Item] : P \in SUBSET Page}
    <3>1. NoItems \in [{} -> Item]
      BY DEF NoItems
    <3> QED BY <3>1
  <2>2. HardLimit \in 0 .. HardLimit /\ 0 \in 0 .. MaxVersion
    BY TimeAssumption, BoundAssumption
  <2>3. [p \in Page |-> {Shown(p)}] \in [Page -> SUBSET (0 .. MaxVersion)]
    BY LatestFits DEF IInv
  <2> QED BY <1>2, <2>1, <2>2, <2>3 DEF Started, Job, Phase, NoItems
<1>4. /\ job' = [job EXCEPT ![w] = new] /\ messages' = messages - 1 /\ messages > 0
      /\ source' = [source EXCEPT !.status = "syncing", !.token = w, !.lease = Lease]
      /\ config' = config /\ page' = page /\ doc' = doc /\ others' = others
      /\ changes' = changes /\ faults' = faults
  BY <1>2 DEF Claim
<1>5. job'[w] = new /\ \A v \in Slot \ {w} : job'[v] = Null
  BY <1>1, <1>4 DEF IInv, TypeOK
<1>6. source' \in Row /\ source'.status = "syncing" /\ source'.token = w /\ source'.lease = Lease
  <2>1. source \in Row /\ Lease \in 0 .. Lease \cup 0 .. PartialLease
    BY TimeAssumption DEF IInv, TypeOK
  <2>2. "syncing" \in Status /\ w \in Slot \cup {Null}
    BY DEF Status
  <2> QED BY <1>4, <2>1, <2>2 DEF Row
<1>7. TypeOK'
  <2>1. messages' \in 0 .. MaxMessages /\ job' \in [Slot -> Job \cup {Null}]
    BY <1>3, <1>4, BoundAssumption DEF IInv, TypeOK
  <2> QED BY <1>4, <1>6, <2>1 DEF IInv, TypeOK
<1>8. LeaseOutlives'
  BY <1>3, <1>5, <1>6, TimeAssumption DEF LeaseOutlives
<1>9. OneExecution'
  BY <1>5 DEF OneExecution
<1>10. WorkConsistent(new)'
  <2>1. \A p \in Page : new.was[p] = {Shown(p)} /\ Reached(p, Shown(p))
    BY <1>2, LatestFits DEF Started, IInv
  <2>2. \A p \in Page : \A v \in new.was[p] : Reached(p, v)'
    BY <1>4, <2>1 DEF Reached, Latest
  <2>3. new.at = "listing" /\ new.vanished = {}
    BY <1>2 DEF Started
  <2> QED BY <1>3, <2>2, <2>3 DEF WorkConsistent
<1>11. WorkConsistent(job[w])'
  BY <1>5, <1>10, WorkOfSlot
<1>12. Grows /\ Loses
  BY <1>4, GrowsStill DEF Loses, IInv
<1> QED BY <1>5, <1>7, <1>8, <1>9, <1>11, <1>12, Calm

(* A step of an execution that goes on: what it must show of the new record. *)
LEMMA OneStep ==
  ASSUME IInv, Grows, Loses, NEW w \in Slot, job[w] # Null,
         NEW j \in Job, j.left = job[w].left, job' = [job EXCEPT ![w] = j], WorkConsistent(j)',
         UNCHANGED <<config, source, messages, page, others, changes>>,
         faults' \in 0 .. MaxFaults, doc' \in [Page -> Doc \cup {Null}]
  PROVE  IInv'
<1>1. job'[w] = j /\ \A v \in Slot \ {w} : job'[v] = job[v]
  BY DEF IInv, TypeOK
<1>2. TypeOK'
  <2>1. job' \in [Slot -> Job \cup {Null}]
    BY DEF IInv, TypeOK
  <2> QED BY <2>1 DEF IInv, TypeOK
<1>3. LeaseOutlives' /\ OneExecution'
  BY <1>1 DEF IInv, LeaseOutlives, OneExecution, Alive
<1>4. WorkConsistent(job[w])'
  BY <1>1, WorkOfSlot
<1> QED BY <1>1, <1>2, <1>3, <1>4, Calm

(* What was listed holds of the documents and pages of that moment. *)
LEMMA ListKeeps ==
  ASSUME IInv, NEW w \in Slot, List(w)
  PROVE  IInv'
<1>1. job[w] \in Job /\ job[w].at = "listing" /\ job[w] # Null /\ WorkConsistent(job[w])
  <2>1. job[w] # Null /\ job[w].at = "listing"
    BY DEF List
  <2> QED BY <2>1 DEF IInv, TypeOK
<1>list. PICK seen \in [Page -> 0 .. MaxVersion], missed \in SUBSET Page, items \in SUBSET Page :
        seen \in Sights(w) /\ ListAs(w, seen, missed, items)
  <2>1. PICK seen \in Sights(w), missed \in SUBSET Page :
          \E items \in SUBSET (Page \ missed) : ListAs(w, seen, missed, items)
    BY DEF List
  <2> QED BY <2>1 DEF Sights
<1>2. PICK gone : gone = Vanished(items, {p \in Page : Mine(p)}, items # {p \in Page \ missed : seen[p] > 0})
  OBVIOUS
<1>3. PICK todo : todo = [p \in {q \in items : Mine(q) => doc[q].seen # seen[q]} |->
                           [version |-> seen[p], known |-> IF Mine(p) THEN TextOf(p) ELSE Null]]
  OBVIOUS
<1>4. PICK j : j = [job[w] EXCEPT !.at = "listed", !.was = Only(@, gone), !.missed = missed \cap gone,
                                  !.vanished = gone, !.todo = todo]
  OBVIOUS
<1>5. job' = [job EXCEPT ![w] = j]
  BY <1>list, <1>2, <1>3, <1>4 DEF ListAs, IInv, TypeOK
<1>6. \A p \in gone : p \in Page /\ (seen[p] = 0 \/ p \in missed)
  <2>1. \A p \in gone : p \in Page /\ p \notin items
                        /\ items = {q \in Page \ missed : seen[q] > 0}
    BY <1>2 DEF Vanished
  <2>2. \A p \in Page : seen[p] \in 0 .. MaxVersion
    OBVIOUS
  <2> QED BY <2>1, <2>2, BoundAssumption
<1>7. \A p \in items : p \in Page /\ seen[p] \in Version /\ Reached(p, seen[p])
  <2>1. ASSUME NEW p \in items PROVE p \in Page /\ seen[p] > 0 /\ seen[p] \in 0 .. MaxVersion
    BY <1>list, <2>1 DEF ListAs
  <2>2. ASSUME NEW p \in items PROVE Reached(p, seen[p])
    BY <1>1, <1>list, <2>1, <2>2 DEF Sights, WorkConsistent
  <2> QED BY <2>1, <2>2, BoundAssumption DEF Version
<1>8. DOMAIN todo \subseteq Page /\ todo \in [DOMAIN todo -> Item]
  <2>1. ASSUME NEW p \in DOMAIN todo PROVE p \in Page /\ todo[p] \in Item
    <3>1. p \in items
      BY <1>3, <2>1
    <3>2. Mine(p) => TextOf(p) \in Text
      BY <1>7, <3>1, BodyAssumption DEF Mine, TextOf, IInv, TypeOK, Doc
    <3> QED BY <1>3, <1>7, <2>1, <3>1, <3>2 DEF Item
  <2> QED BY <1>3, <2>1
<1>9. /\ j \in Job /\ j.left = job[w].left /\ j.at = "listed"
      /\ j.was = Only(job[w].was, gone) /\ j.missed = missed \cap gone
      /\ j.vanished = gone /\ j.todo = todo
  <2>1. todo \in UNION {[P -> Item] : P \in SUBSET Page} /\ gone \subseteq Page
    BY <1>6, <1>8
  <2>2. Only(job[w].was, gone) \in [Page -> SUBSET (0 .. MaxVersion)]
    BY <1>1, JobFields DEF Only
  <2> QED BY <1>1, <1>4, <2>1, <2>2 DEF Job, Phase
<1>10. UNCHANGED <<config, source, messages, page, doc, others, changes>>
       /\ faults' \in 0 .. MaxFaults
  <2>1. faults' = faults \/ Fault
    BY <1>list DEF ListAs
  <2>2. faults' \in 0 .. MaxFaults
    BY <2>1, BoundAssumption DEF Fault, IInv, TypeOK
  <2> QED BY <1>list, <2>2 DEF ListAs
<1>11. Grows /\ Loses /\ doc' \in [Page -> Doc \cup {Null}]
  BY <1>10, GrowsStill DEF Loses, IInv, TypeOK
<1>12. WorkConsistent(j)
  <2>1. ASSUME NEW p \in DOMAIN todo PROVE ItemConsistent(p, todo[p])
    BY <1>3, <1>7, <2>1 DEF ItemConsistent
  <2>2. \A p \in Page : \A v \in j.was[p] : Reached(p, v)
    BY <1>1, <1>9 DEF Only, WorkConsistent
  <2>3. \A p \in gone : 0 \in j.was[p] \/ p \in j.missed
    <3>1. ASSUME NEW p \in gone, p \notin missed PROVE 0 \in j.was[p]
      <4>1. p \in Page /\ seen[p] = 0
        BY <1>6, <3>1
      <4>2. 0 \in job[w].was[p]
        BY <1>list, <4>1 DEF Sights
      <4> QED BY <1>9, <4>1, <4>2 DEF Only
    <3>2. \A p \in gone : p \in missed => p \in j.missed
      BY <1>9
    <3> QED BY <3>1, <3>2
  <2> QED BY <1>9, <2>1, <2>2, <2>3 DEF WorkConsistent
<1>13. WorkConsistent(j)'
  BY <1>9, <1>11, <1>12, WorkStays DEF IInv
<1> QED BY <1>1, <1>5, <1>9, <1>10, <1>11, <1>13, OneStep

(* The documents of pages that were not listed are removed. *)
LEMMA RemoveVanishedKeeps ==
  ASSUME IInv, NEW w \in Slot, RemoveVanished(w)
  PROVE  IInv'
<1>1. job[w] \in Job /\ job[w].at = "listed" /\ job[w] # Null /\ WorkConsistent(job[w])
  BY DEF IInv, TypeOK, RemoveVanished
<1>2. PICK j : j = [job[w] EXCEPT !.was = Only(@, {}), !.missed = {}, !.vanished = {}]
  OBVIOUS
<1>3. job' = [job EXCEPT ![w] = j]
  BY <1>2 DEF RemoveVanished, IInv, TypeOK
<1>4. j \in Job /\ j.left = job[w].left /\ j.vanished = {} /\ j.todo = job[w].todo /\ j.at = "listed"
      /\ j.was = Only(job[w].was, {})
  <2>1. Only(job[w].was, {}) \in [Page -> SUBSET (0 .. MaxVersion)]
    BY DEF Only
  <2> QED BY <1>1, <1>2, <2>1 DEF Job
<1>5. \A p \in Page : doc'[p] = Null \/ doc'[p] = doc[p]
  BY DEF RemoveVanished
<1>6. UNCHANGED <<config, source, messages, page, others, changes, faults>>
  BY DEF RemoveVanished
<1>7. Grows /\ Loses
  BY <1>5, <1>6, GrowsStill DEF Loses, IInv
<1>8. doc' \in [Page -> Doc \cup {Null}] /\ faults' \in 0 .. MaxFaults
  BY <1>6 DEF RemoveVanished, IInv, TypeOK
<1>9. WorkConsistent(j)'
  <2>1. WorkConsistent(j)
    <3>1. \A p \in Page : j.was[p] = {}
      BY <1>4 DEF Only
    <3> QED BY <1>1, <1>4, <3>1 DEF WorkConsistent
  <2> QED BY <1>4, <1>7, <2>1, WorkStays DEF IInv
<1> QED BY <1>1, <1>3, <1>4, <1>6, <1>7, <1>8, <1>9, OneStep

(* What is rendered is of the listed version, or the page has changed since. *)
LEMMA RenderKeeps ==
  ASSUME IInv, NEW w \in Slot, NEW p \in Page, Render(w, p)
  PROVE  IInv'
<1>1. job[w] \in Job /\ job[w].at = "listed" /\ job[w] # Null /\ WorkConsistent(job[w])
      /\ p \in DOMAIN job[w].todo
  BY DEF IInv, TypeOK, Render, At
<1>2. PICK v \in {job[w].todo[p].version, page[p]} :
        job' = [job EXCEPT ![w].at = "rendered", ![w].page = p, ![w].made = v]
  BY DEF Render
<1>3. PICK j : j = [job[w] EXCEPT !.at = "rendered", !.page = p, !.made = v]
  OBVIOUS
<1>4. job' = [job EXCEPT ![w] = j]
  BY <1>2, <1>3 DEF IInv, TypeOK
<1>5. v \in Version
  <2>1. job[w].todo[p].version \in Version
    BY <1>1, JobFields DEF Item
  <2>2. page[p] \in Version
    <3>1. page[p] \in -MaxVersion .. MaxVersion /\ page[p] > 0
      BY DEF IInv, TypeOK, Render, There
    <3> QED BY <3>1, BoundAssumption DEF Version
  <2> QED BY <2>1, <2>2
<1>6. v \in 0 .. MaxVersion
  BY <1>5, BoundAssumption DEF Version
<1>7. j \in Job /\ j.left = job[w].left /\ j.vanished = job[w].vanished /\ j.todo = job[w].todo
      /\ j.page = p /\ j.made = v /\ j.was = job[w].was /\ j.missed = job[w].missed
  BY <1>1, <1>3, <1>6 DEF Job, Phase
<1>8. WorkConsistent(j)
  <2>1. RenderedConsistent(j)
    <3>1. Latest(p) = page[p]
      BY LatestFits DEF Latest, Render, There, IInv
    <3> QED BY <1>1, <1>2, <1>5, <1>7, <3>1 DEF RenderedConsistent
  <2> QED BY <1>1, <1>7, <2>1 DEF WorkConsistent
<1>9. UNCHANGED <<config, source, messages, page, doc, others, changes, faults>>
  BY DEF Render
<1>10. Grows /\ Loses /\ doc' \in [Page -> Doc \cup {Null}] /\ faults' \in 0 .. MaxFaults
  BY <1>9, GrowsStill DEF Loses, IInv, TypeOK
<1>11. WorkConsistent(j)'
  BY <1>7, <1>8, <1>10, WorkStays DEF IInv
<1> QED BY <1>1, <1>4, <1>7, <1>9, <1>10, <1>11, OneStep

(* A shorter list is consistent as the longer one was. *)
LEMMA LessConsistent ==
  ASSUME NEW j \in Job, NEW k, NEW p, WorkConsistent(j), k.vanished = j.vanished,
         k.was = j.was, k.missed = j.missed,
         k.todo = Less(j.todo, p), k.at = "listed"
  PROVE  WorkConsistent(k)
<1>1. PICK f \in Todo : f = j.todo
  BY JobFields
<1>2. DOMAIN Less(f, p) = DOMAIN f \ {p} /\ \A q \in DOMAIN f \ {p} : Less(f, p)[q] = f[q]
  BY LessTodo
<1>3. DOMAIN k.todo = DOMAIN j.todo \ {p} /\ \A q \in DOMAIN k.todo : k.todo[q] = j.todo[q]
  BY <1>1, <1>2
<1> QED BY <1>3 DEF WorkConsistent

LEMMA SkipItemKeeps ==
  ASSUME IInv, NEW w \in Slot, NEW p \in Page, SkipItem(w, p)
  PROVE  IInv'
<1>1. job[w] \in Job /\ job[w].at = "listed" /\ job[w] # Null /\ WorkConsistent(job[w])
  BY DEF IInv, TypeOK, SkipItem, At
<1>2. PICK j : j = [job[w] EXCEPT !.todo = Less(job[w].todo, p)]
  OBVIOUS
<1>3. job' = [job EXCEPT ![w] = j]
  BY <1>2 DEF SkipItem, IInv, TypeOK
<1>4. j \in Job /\ j.left = job[w].left /\ j.vanished = job[w].vanished /\ j.at = "listed"
      /\ j.todo = Less(job[w].todo, p) /\ j.was = job[w].was /\ j.missed = job[w].missed
  <2>1. Less(job[w].todo, p) \in UNION {[P -> Item] : P \in SUBSET Page}
    BY <1>1, JobFields, LessTodo DEF Todo
  <2> QED BY <1>1, <1>2, <2>1 DEF Job
<1>5. WorkConsistent(j)
  BY <1>1, <1>4, LessConsistent
<1>6. UNCHANGED <<config, source, messages, page, doc, others, changes>>
  BY DEF SkipItem
<1>7. Grows /\ Loses /\ doc' \in [Page -> Doc \cup {Null}] /\ faults' \in 0 .. MaxFaults
  BY <1>6, GrowsStill, BoundAssumption DEF Loses, IInv, TypeOK, SkipItem, Fault
<1>8. WorkConsistent(j)'
  BY <1>4, <1>5, <1>7, WorkStays DEF IInv
<1> QED BY <1>1, <1>3, <1>4, <1>6, <1>7, <1>8, OneStep

(* An execution that ends leaves none. *)
LEMMA EndKeeps ==
  ASSUME IInv, NEW w \in Slot, Complete(w) \/ Interrupt(w) \/ Fail(w) \/ Crash(w)
  PROVE  IInv'
<1>1. /\ config' = config /\ page' = page /\ doc' = doc /\ others' = others /\ changes' = changes
      /\ job' = [job EXCEPT ![w] = Null] /\ job[w] # Null
      /\ source' = source \/ \E status \in Status : source' = Finished(w, status)
  BY DEF Complete, Interrupt, Fail, Crash, End, At, Status
<1>2. messages' \in 0 .. MaxMessages
  BY DEF IInv, TypeOK, Complete, Interrupt, Fail, Crash
<1>3. faults' \in 0 .. MaxFaults
  BY BoundAssumption DEF IInv, TypeOK, Complete, Interrupt, Fail, Crash, Fault
<1>4. source' \in Row
  <2>1. ASSUME NEW status \in Status PROVE Finished(w, status) \in Row
    <3>1. /\ source \in Row /\ source.wait \in 0 .. Interval /\ Interval \in 0 .. Interval
          /\ PartialLease \in 0 .. PartialLease /\ 0 \in 0 .. Lease
      BY TimeAssumption DEF IInv, TypeOK, Row
    <3> QED BY <3>1 DEF Finished, Row
  <2> QED BY <1>1, <2>1 DEF IInv, TypeOK
<1>5. \A v \in Slot : job'[v] = Null
  BY <1>1 DEF IInv, TypeOK, OneExecution
<1>6. TypeOK'
  <2>1. job' \in [Slot -> Job \cup {Null}]
    BY <1>1 DEF IInv, TypeOK
  <2> QED BY <1>1, <1>2, <1>3, <1>4, <2>1 DEF IInv, TypeOK
<1>7. LeaseOutlives' /\ OneExecution' /\ Grows /\ Loses
  BY <1>1, <1>5, GrowsStill DEF LeaseOutlives, OneExecution, Loses, IInv
<1> QED BY <1>5, <1>6, <1>7, Calm

(* The lease runs out no sooner than the time of its execution. *)
LEMMA TickKeeps ==
  ASSUME IInv, Tick
  PROVE  IInv'
<1>1. UNCHANGED <<config, messages, page, doc, others, changes, faults>>
  BY DEF Tick
<1>2. source' \in Row /\ source'.status = source.status /\ source'.token = source.token
      /\ source'.lease = Sooner(source.lease)
  <2>1. source \in Row /\ Sooner(source.wait) \in 0 .. Interval
        /\ Sooner(source.lease) \in 0 .. Lease \cup 0 .. PartialLease
    BY TimeAssumption DEF IInv, TypeOK, Row, Sooner
  <2> QED BY <2>1 DEF Tick, Row
<1>3. ASSUME NEW w \in Slot, job[w] # Null
      PROVE  /\ job'[w] \in Job /\ job'[w] # Null /\ job'[w] = [job[w] EXCEPT !.left = @ - 1]
             /\ job'[w].left = job[w].left - 1 /\ job[w].left \in Nat
             /\ WorkConsistent(job[w])'
  <2>1. job[w] \in Job /\ job[w].left \in 0 .. HardLimit /\ job[w].left > 0 /\ WorkConsistent(job[w])
    BY <1>3, JobFields DEF IInv, TypeOK, Tick
  <2>2. PICK j : j = [job[w] EXCEPT !.left = @ - 1]
    OBVIOUS
  <2>3. job'[w] = j
    BY <1>3, <2>2 DEF Tick
  <2>4. j \in Job /\ j.left = job[w].left - 1
        /\ j.at = job[w].at /\ j.vanished = job[w].vanished /\ j.todo = job[w].todo
        /\ j.page = job[w].page /\ j.made = job[w].made
        /\ j.was = job[w].was /\ j.missed = job[w].missed
    <3>1. job[w].left - 1 \in 0 .. HardLimit
      BY <2>1, TimeAssumption
    <3> QED BY <2>1, <2>2, <3>1 DEF Job
  <2>5. WorkConsistent(j)
    BY <2>1, <2>4 DEF WorkConsistent, RenderedConsistent
  <2>6. Grows /\ Loses
    BY <1>1, GrowsStill DEF Loses, IInv
  <2>7. WorkConsistent(j)'
    BY <2>4, <2>5, <2>6, WorkStays DEF IInv
  <2>8. WorkConsistent(job[w])'
    BY <2>3, <2>7, WorkOfSlot
  <2> QED BY <2>1, <2>2, <2>3, <2>4, <2>8, JobFields, TimeAssumption
<1>4. \A w \in Slot : job[w] = Null => job'[w] = Null
  BY DEF Tick
<1>5. TypeOK'
  <2>1. job' \in [Slot -> Job \cup {Null}]
    BY <1>3, <1>4 DEF Tick
  <2> QED BY <1>1, <1>2, <2>1 DEF IInv, TypeOK
<1>6. LeaseOutlives'
  <2>1. ASSUME Alive, NEW w \in Slot, job[w] # Null
        PROVE  source'.status = "syncing" /\ source'.token = w /\ source'.lease > job'[w].left
    <3>1. source.status = "syncing" /\ source.token = w /\ source.lease > job[w].left
          /\ source.lease \in Int
      BY <2>1, TimeAssumption DEF IInv, LeaseOutlives, TypeOK, Row
    <3>2. job'[w].left = job[w].left - 1 /\ job[w].left \in Nat
      BY <1>3, <2>1
    <3>3. Sooner(source.lease) > job[w].left - 1
      BY <3>1, <3>2 DEF Sooner
    <3> QED BY <1>2, <3>1, <3>2, <3>3
  <2>2. Alive' => Alive
    BY <1>2 DEF Alive
  <2> QED BY <1>4, <2>1, <2>2 DEF LeaseOutlives
<1>7. OneExecution' /\ Grows /\ Loses
  BY <1>1, <1>4, GrowsStill DEF IInv, OneExecution, Loses
<1> QED BY <1>3, <1>4, <1>5, <1>6, <1>7, Calm

(* A page that changes is seen by whoever lists it, and never goes back to an earlier *)
(* version.                                                                           *)
LEMMA BecomesKeeps ==
  ASSUME IInv, NEW p \in Page, NEW n \in -MaxVersion .. MaxVersion, Becomes(p, n), Change,
         Latest(p) <= IF n < 0 THEN -n ELSE n
  PROVE  IInv'
<1>1. UNCHANGED <<config, source, messages, doc, others, faults>> /\ changes' \in 0 .. MaxChanges
  BY BoundAssumption DEF Becomes, Change, IInv, TypeOK
<1>2. page'[p] = n /\ page' \in [Page -> -MaxVersion .. MaxVersion]
      /\ \A q \in Page \ {p} : page'[q] = page[q]
  BY DEF Becomes, IInv, TypeOK
<1>3. Grows
  <2>1. Latest(p)' = (IF n < 0 THEN -n ELSE n) /\ Latest(p)' \in Nat
    BY <1>2, BoundAssumption DEF Latest
  <2>2. ASSUME NEW q \in Page \ {p} PROVE Latest(q)' = Latest(q) /\ Latest(q) \in Nat
    <3>1. Latest(q) \in Nat
      BY LatestFits, BoundAssumption DEF IInv
    <3> QED BY <1>2, <3>1 DEF Latest
  <2> QED BY <2>1, <2>2 DEF Grows
<1>4. Loses
  BY <1>1 DEF Loses
<1>5. ASSUME NEW q \in Page PROVE Shown(q)' \in 0 .. MaxVersion /\ Reached(q, Shown(q))'
  <2>1. page'[q] \in -MaxVersion .. MaxVersion /\ MaxVersion \in Nat
    BY <1>2, BoundAssumption
  <2> QED BY <2>1 DEF Shown, Reached, There, Latest
<1>6. ASSUME NEW w \in Slot, job[w] # Null
      PROVE  job'[w] \in Job /\ job'[w].left = job[w].left /\ WorkConsistent(job[w])'
  <2>1. PICK k \in Job : k = job[w] /\ WorkConsistent(k)
    BY <1>6 DEF IInv, TypeOK
  <2>2. WorkConsistent(k)'
    BY <1>3, <1>4, <2>1, WorkStays DEF IInv
  <2>3. CASE job'[w] = k
    BY <2>1, <2>2, <2>3, WorkOfSlot
  <2>4. CASE k.at = "listing" /\ job'[w] # k
    <3>1. PICK v \in 0 .. MaxVersion : v = Shown(p)' /\ Reached(p, v)'
      <4>1. Reached(p, Shown(p))' /\ Shown(p)' \in 0 .. MaxVersion
        BY <1>5
      <4> QED BY <4>1 DEF Reached
    <3>2. PICK j : j = [k EXCEPT !.was[p] = @ \cup {v}]
      OBVIOUS
    <3>3. job'[w] = j
      BY <1>6, <2>1, <2>4, <3>1, <3>2 DEF Becomes
    <3>4. /\ j \in Job /\ j.left = k.left /\ j.vanished = k.vanished /\ j.missed = k.missed
          /\ j.todo = k.todo /\ j.at = "listing"
          /\ j.was = [k.was EXCEPT ![p] = @ \cup {v}]
      <4>1. k.was \in [Page -> SUBSET (0 .. MaxVersion)]
        BY JobFields
      <4>2. [k.was EXCEPT ![p] = @ \cup {v}] \in [Page -> SUBSET (0 .. MaxVersion)]
        BY <4>1
      <4> QED BY <2>4, <3>2, <4>2 DEF Job
    <3>5. \A q \in Page : k.was[q] \subseteq j.was[q]
                         /\ \A u \in j.was[q] : u \in k.was[q] \/ (q = p /\ u = v)
      BY <3>4, JobFields
    <3>6. \A q \in Page : \A u \in j.was[q] : Reached(q, u)'
      BY <2>2, <3>1, <3>5 DEF WorkConsistent, Reached
    <3>7. \A q \in j.vanished : 0 \in j.was[q] \/ q \in j.missed
      <4>1. j.vanished \subseteq Page
        BY <3>4, JobFields
      <4> QED BY <2>1, <3>4, <3>5, <4>1 DEF WorkConsistent
    <3>8. WorkConsistent(j)'
      BY <2>2, <3>4, <3>6, <3>7 DEF WorkConsistent
    <3> QED BY <2>1, <3>3, <3>4, <3>8, WorkOfSlot
  <2> QED BY <1>6, <2>1, <2>3, <2>4 DEF Becomes
<1>7. \A w \in Slot : job[w] = Null => job'[w] = Null
  BY DEF Becomes
<1>8. TypeOK'
  <2>1. job' \in [Slot -> Job \cup {Null}]
    BY <1>6, <1>7 DEF Becomes
  <2> QED BY <1>1, <1>2, <2>1 DEF IInv, TypeOK
<1>9. LeaseOutlives' /\ OneExecution'
  BY <1>1, <1>6, <1>7 DEF IInv, LeaseOutlives, OneExecution, Alive
<1> QED BY <1>3, <1>4, <1>6, <1>7, <1>8, <1>9, Calm

(* What users do with pages. *)
LEMMA PagesKeep ==
  ASSUME IInv, NEW p \in Page, Edit(p) \/ Archive(p) \/ Restore(p)
  PROVE  IInv'
<1>1. page[p] \in -MaxVersion .. MaxVersion /\ MaxVersion \in Nat
  BY BoundAssumption DEF IInv, TypeOK
<1>2. CASE Edit(p)
  <2>1. page[p] + 1 \in -MaxVersion .. MaxVersion
        /\ Latest(p) <= IF page[p] + 1 < 0 THEN -(page[p] + 1) ELSE page[p] + 1
    BY <1>1, <1>2 DEF Edit, Latest
  <2> QED BY <1>2, <2>1, BecomesKeeps DEF Edit
<1>3. CASE Archive(p) \/ Restore(p)
  <2>1. -page[p] \in -MaxVersion .. MaxVersion
        /\ Latest(p) <= IF -page[p] < 0 THEN -(-page[p]) ELSE -page[p]
    BY <1>1 DEF Latest
  <2> QED BY <1>3, <2>1, BecomesKeeps DEF Archive, Restore
<1> QED BY <1>2, <1>3

(* What users do with documents. *)
LEMMA DocumentsKeep ==
  ASSUME IInv, (\E p \in Page : DeleteDocument(p)) \/ (\E t \in Text : ChangeOthers(t))
  PROVE  IInv'
<1>1. UNCHANGED <<config, source, messages, job, page, faults>> /\ changes' \in 0 .. MaxChanges
  BY BoundAssumption DEF DeleteDocument, ChangeOthers, Change, IInv, TypeOK
<1>2. Loses /\ doc' \in [Page -> Doc \cup {Null}]
  <2>1. CASE doc' = doc
    BY <2>1 DEF Loses, IInv, TypeOK
  <2>2. ASSUME NEW p \in Page, DeleteDocument(p)
        PROVE  Loses /\ doc' \in [Page -> Doc \cup {Null}]
    BY <2>2 DEF Loses, DeleteDocument, IInv, TypeOK
  <2> QED BY <2>1, <2>2 DEF ChangeOthers
<1>3. others' \subseteq Text
  BY DEF DeleteDocument, ChangeOthers, IInv, TypeOK
<1>4. TypeOK' /\ LeaseOutlives' /\ OneExecution'
  BY <1>1, <1>2, <1>3 DEF IInv, TypeOK, LeaseOutlives, OneExecution, Alive
<1> QED BY <1>1, <1>2, <1>4, GrowsStill, Calm DEF IInv

(* A document with the listed version and the rendered text. *)
LEMMA WrittenIsDoc ==
  ASSUME IInv, NEW p \in Page, NEW item \in Item, NEW made \in Version,
         Mine(p) => item.known = TextOf(p), Writes(p, item, Body[p][made])
  PROVE  /\ Written(p, item, made) \in Doc
         /\ Written(p, item, made).seen = item.version
         /\ Body[p][Written(p, item, made).made] = Body[p][made]
<1>1. item.version \in Version
  BY DEF Item
<1>2. CASE item.known = Body[p][made]
  <2>1. Body[p][made] \in Text
    BY BodyAssumption
  <2>2. Mine(p)
    BY <1>2, <2>1, RecordAssumption DEF Writes
  <2>3. doc[p] \in Doc /\ Body[p][doc[p].made] = Body[p][made]
    BY <1>2, <2>2 DEF Mine, TextOf, IInv, TypeOK
  <2> QED BY <1>1, <1>2, <2>3 DEF Written, Doc
<1>3. CASE item.known # Body[p][made]
  BY <1>1, <1>3 DEF Written, Doc
<1> QED BY <1>2, <1>3

(* What an execution writes: the version it was listed with and, if that is the page's *)
(* current one, its text.  Nobody else works on the source meanwhile.                  *)
LEMMA UpsertKeeps ==
  ASSUME IInv, NEW w \in Slot, Upsert(w)
  PROVE  IInv'
<1>1. PICK j \in Job : j = job[w] /\ WorkConsistent(j) /\ j.at = "rendered" /\ j.vanished = {}
  BY DEF IInv, TypeOK, Upsert, At
<1>2. PICK p \in Page : p = j.page /\ p \in DOMAIN j.todo
  BY <1>1, JobFields DEF WorkConsistent, RenderedConsistent
<1>3. PICK item \in Item : item = j.todo[p]
  BY <1>2, JobFields
<1>4. PICK made \in Version : made = j.made
  BY <1>1 DEF WorkConsistent, RenderedConsistent
<1>5. /\ Reached(p, item.version) /\ (Mine(p) => item.known = TextOf(p))
      /\ made = item.version \/ Latest(p) # item.version
      /\ item.version \in Version
  BY <1>1, <1>2, <1>3, <1>4 DEF WorkConsistent, RenderedConsistent, ItemConsistent, Item
<1>6. \/ doc' = doc
      \/ Writes(p, item, Body[p][made]) /\ doc' = [doc EXCEPT ![p] = Written(p, item, made)]
  BY <1>1, <1>2, <1>3, <1>4 DEF Upsert
<1>7. PICK k : k = [j EXCEPT !.at = "listed", !.page = Null, !.made = 0, !.todo = Less(j.todo, p)]
  OBVIOUS
<1>8. job' = [job EXCEPT ![w] = k] /\ UNCHANGED <<config, source, messages, page, others, changes, faults>>
  BY <1>1, <1>2, <1>7 DEF Upsert, IInv, TypeOK
<1>9. /\ k \in Job /\ k.left = j.left /\ k.at = "listed" /\ k.vanished = {} /\ k.todo = Less(j.todo, p)
      /\ k.was = j.was /\ k.missed = j.missed
  <2>1. Less(j.todo, p) \in UNION {[P -> Item] : P \in SUBSET Page}
    BY <1>1, JobFields, LessTodo DEF Todo
  <2>2. 0 \in 0 .. MaxVersion
    BY BoundAssumption
  <2> QED BY <1>1, <1>7, <2>1, <2>2 DEF Job, Phase
<1>10. CASE doc' = doc
  <2>1. WorkConsistent(k)
    BY <1>1, <1>9, LessConsistent
  <2>2. Grows /\ Loses /\ doc' \in [Page -> Doc \cup {Null}] /\ faults' \in 0 .. MaxFaults
    BY <1>8, <1>10, GrowsStill DEF Loses, IInv, TypeOK
  <2>3. WorkConsistent(k)'
    BY <1>9, <2>1, <2>2, WorkStays DEF IInv
  <2> QED BY <1>1, <1>8, <1>9, <2>2, <2>3, JobFields, OneStep
<1>11. CASE Writes(p, item, Body[p][made]) /\ doc' = [doc EXCEPT ![p] = Written(p, item, made)]
  <2>1. PICK d : d = Written(p, item, made)
    OBVIOUS
  <2>2. doc' = [doc EXCEPT ![p] = d] /\ doc'[p] = d /\ \A q \in Page \ {p} : doc'[q] = doc[q]
    BY <1>11, <2>1 DEF IInv, TypeOK
  <2>3. d \in Doc /\ d.seen = item.version /\ Body[p][d.made] = Body[p][made]
    BY <1>5, <1>11, <2>1, WrittenIsDoc
  <2>4. \A v \in Slot : job'[v] # Null => v = w
    BY <1>1, <1>8, JobFields DEF IInv, TypeOK, OneExecution
  <2>5. job'[w] = k
    BY <1>8 DEF IInv, TypeOK
  <2>6. TypeOK'
    <3>1. doc' \in [Page -> Doc \cup {Null}] /\ job' \in [Slot -> Job \cup {Null}]
      BY <1>8, <1>9, <2>2, <2>3 DEF IInv, TypeOK
    <3> QED BY <1>8, <3>1 DEF IInv, TypeOK
  <2>7. LeaseOutlives' /\ OneExecution'
    BY <1>1, <1>8, <1>9, <2>4, <2>5, JobFields DEF IInv, LeaseOutlives, OneExecution, Alive
  <2>8. SeenIsPast'
    BY <1>5, <1>8, <2>2, <2>3 DEF IInv, SeenIsPast, Reached, Latest
  <2>9. VersionTellsText'
    <3>1. ASSUME d.seen = Latest(p) PROVE Body[p][d.made] = Body[p][Latest(p)]
      BY <1>5, <2>3, <3>1
    <3>2. ASSUME NEW q \in Page, Mine(q)', doc'[q].seen = Latest(q)'
          PROVE  Body[q][doc'[q].made] = Body[q][Latest(q)']
      <4>0. Latest(q)' = Latest(q)
        BY <1>8 DEF Latest
      <4>1. CASE q = p
        BY <2>2, <3>1, <3>2, <4>0, <4>1
      <4>2. CASE q # p
        BY <2>2, <3>2, <4>0, <4>2 DEF IInv, VersionTellsText, Mine, TextOf
      <4> QED BY <4>1, <4>2
    <3> QED BY <3>2 DEF VersionTellsText, TextOf
  <2>10. WorkConsistent(k)'
    <3>1. WorkConsistent(k)
      BY <1>1, <1>9, LessConsistent
    <3>2. PICK f \in Todo : f = j.todo
      BY JobFields
    <3>3. DOMAIN k.todo \subseteq Page \ {p}
      <4>1. DOMAIN Less(f, p) = DOMAIN f \ {p}
        BY LessTodo
      <4>2. DOMAIN f \subseteq Page
        BY <3>2, JobFields
      <4> QED BY <1>9, <3>2, <4>1, <4>2
    <3>4. \A q \in DOMAIN k.todo : ItemConsistent(q, k.todo[q])'
      BY <1>8, <2>2, <3>1, <3>3 DEF WorkConsistent, ItemConsistent, Reached, Latest, Mine, TextOf
    <3>5. \A q \in Page : \A v \in k.was[q] : Reached(q, v)'
      BY <1>8, <3>1 DEF WorkConsistent, Reached, Latest
    <3> QED BY <1>9, <3>4, <3>5 DEF WorkConsistent
  <2>11. WorkConsistent(job[w])'
    BY <2>5, <2>10, WorkOfSlot
  <2> QED BY <2>4, <2>6, <2>7, <2>8, <2>9, <2>11 DEF IInv
<1> QED BY <1>6, <1>10, <1>11

LEMMA WorkerKeeps ==
  ASSUME IInv, NEW w \in Slot, WorkerStep(w)
  PROVE  IInv'
BY ListKeeps, RemoveVanishedKeeps, UpsertKeeps, EndKeeps, RenderKeeps, SkipItemKeeps DEF WorkerStep

LEMMA StepInv == IInv /\ [Next]_vars => IInv'
<1> SUFFICES ASSUME IInv, [Next]_vars PROVE IInv'
  OBVIOUS
<1>1. CASE RequestSync \/ DeleteSource \/ ScheduleSyncs \/ IgnoreMessage \/ Tick
  BY <1>1, OwnersKeep, DeleteSourceKeeps, TickKeeps
<1>2. ASSUME NEW w \in Slot, Claim(w) \/ WorkerStep(w) \/ Interrupt(w) \/ Crash(w)
      PROVE  IInv'
  BY <1>2, ClaimKeeps, WorkerKeeps, EndKeeps
<1>3. CASE \/ \E p \in Page : Edit(p) \/ Archive(p) \/ Restore(p) \/ DeleteDocument(p)
           \/ \E t \in Text : ChangeOthers(t)
  BY <1>3, PagesKeep, DocumentsKeep
<1>4. CASE UNCHANGED vars
  BY <1>4 DEF vars, IInv, TypeOK, LeaseOutlives, OneExecution, VersionTellsText, SeenIsPast,
     WorkConsistent, ItemConsistent, RenderedConsistent, Reached, Latest, Alive, Mine, TextOf
<1> QED BY <1>1, <1>2, <1>3, <1>4 DEF Next

LEMMA Invariance == Spec => []IInv
<1>1. Init => IInv
  BY InitInv
<1>2. IInv /\ [Next]_vars => IInv'
  BY StepInv
<1> QED BY <1>1, <1>2, PTL DEF Spec

(* "task_time_limit (600) so a killed worker's lease expires after it": whoever        *)
(* synchronises a source that is not deleted holds its row and its lease, so that two  *)
(* never write its documents at a time (sources/tasks.py, sources/sync.py).            *)
THEOREM ExecutionHolds == Spec => []ExecutionsHoldSource
<1>1. ASSUME IInv PROVE ExecutionsHoldSource
  <2>1. ASSUME Alive, NEW w \in Slot, job[w] # Null
        PROVE  source.status = "syncing" /\ source.token = w /\ LeaseLive
    <3>1. source.status = "syncing" /\ source.token = w /\ source.lease > job[w].left
      BY <1>1, <2>1 DEF IInv, LeaseOutlives
    <3>2. job[w].left \in Nat /\ source.lease \in Int
      BY <1>1, <2>1, JobFields, TimeAssumption DEF IInv, TypeOK, Row
    <3> QED BY <3>1, <3>2 DEF LeaseLive
  <2> QED BY <2>1 DEF ExecutionsHoldSource
<1> QED BY <1>1, Invariance, PTL

(* The documents that steps other than a deletion may take away or change: those of the *)
(* source, and of these an execution removes what it found to have vanished.            *)
LEMMA StepKeepsPages ==
  ASSUME IInv, [Next]_vars, NEW p \in Page, doc[p] # Null, doc'[p] # doc[p], ~DeleteDocument(p)
  PROVE  /\ doc[p].mine
         /\ doc'[p] = Null => \E w \in Slot : RemovesUnlisted(w, p)
<1>1. CASE DeleteSource
  <2>1. Mine(p) /\ doc[p] \in Doc /\ doc'[p] = [doc[p] EXCEPT !.mine = FALSE]
    BY <1>1 DEF DeleteSource, IInv, TypeOK
  <2>2. doc'[p] \in Doc
    BY <2>1 DEF Doc
  <2> QED BY <2>1, <2>2, RecordAssumption DEF Mine
<1>2. ASSUME NEW w \in Slot, RemoveVanished(w)
      PROVE  doc[p].mine /\ RemovesUnlisted(w, p)
  <2>1. p \in job[w].vanished /\ Mine(p) /\ WorkConsistent(job[w])
    BY <1>2 DEF RemoveVanished, IInv
  <2> QED BY <1>2, <2>1 DEF WorkConsistent, Mine, RemovesUnlisted
<1>3. ASSUME NEW w \in Slot, Upsert(w)
      PROVE  doc[p].mine /\ doc'[p] # Null
  <2>1. PICK j \in Job : j = job[w] /\ j.at = "rendered" /\ WorkConsistent(j)
    BY <1>3 DEF IInv, TypeOK, Upsert, At
  <2>2. p = j.page /\ Writes(p, j.todo[p], Body[p][j.made]) /\ doc'[p] = Written(p, j.todo[p], j.made)
    BY <1>3, <2>1 DEF Upsert, IInv, TypeOK
  <2>3. j.made \in Version /\ j.todo[p] \in Item /\ (Mine(p) => j.todo[p].known = TextOf(p))
    BY <2>1, <2>2, JobFields DEF WorkConsistent, RenderedConsistent, ItemConsistent
  <2>4. doc'[p] \in Doc
    BY <2>2, <2>3, WrittenIsDoc
  <2> QED BY <2>2, <2>4, RecordAssumption DEF Mine, Writes
<1>4. ASSUME NEW q \in Page, DeleteDocument(q) PROVE FALSE
  BY <1>4 DEF DeleteDocument, IInv, TypeOK
<1>5. CASE doc' = doc
  BY <1>5
<1>6. ASSUME NEW w \in Slot, Claim(w) \/ WorkerStep(w) \/ Interrupt(w) \/ Crash(w)
      PROVE  doc' = doc \/ RemoveVanished(w) \/ Upsert(w)
  <2>1. List(w) => doc' = doc
    <3>1. ASSUME NEW seen, NEW missed, NEW items, ListAs(w, seen, missed, items)
          PROVE  doc' = doc
      BY <3>1 DEF ListAs
    <3> QED BY <3>1 DEF List
  <2>2. \A q \in Page : Render(w, q) \/ SkipItem(w, q) => doc' = doc
    BY DEF Render, SkipItem
  <2>3. Claim(w) \/ Complete(w) \/ Fail(w) \/ Interrupt(w) \/ Crash(w) => doc' = doc
    BY DEF Claim, Complete, Fail, Interrupt, Crash, End
  <2> QED BY <1>6, <2>1, <2>2, <2>3 DEF WorkerStep
<1>7. ASSUME NEW q \in Page, Edit(q) \/ Archive(q) \/ Restore(q)
      PROVE  doc' = doc
  BY <1>7 DEF Edit, Archive, Restore, Becomes
<1>8. CASE RequestSync \/ ScheduleSyncs \/ IgnoreMessage \/ Tick \/ UNCHANGED vars
           \/ \E t \in Text : ChangeOthers(t)
  BY <1>5, <1>8 DEF RequestSync, ScheduleSyncs, IgnoreMessage, Tick, ChangeOthers, vars
<1> QED
  BY <1>1, <1>2, <1>3, <1>4, <1>5, <1>6, <1>7, <1>8 DEF Next

(* What a document says it has seen of its page is what it holds; a listing in which a  *)
(* page was throughout, and that did not miss it for want of a cursor, never removes    *)
(* the page's document; and only its deletion touches a detached one; whatever is       *)
(* edited, archived, restored, lost, interrupted or delivered twice (sources/sync.py).  *)
THEOREM MirrorIsTrue == Spec => MirrorHolds
<1>1. IInv => VersionTellsText
  BY DEF IInv
<1>2. IInv /\ [Next]_vars
        => [\A p \in Page : doc[p] # Null /\ doc'[p] = Null =>
              DeleteDocument(p) \/ \E w \in Slot : RemovesUnlisted(w, p)]_vars
  BY StepKeepsPages
<1>3. IInv /\ [Next]_vars
        => [\A p \in Page : doc[p] # Null /\ ~doc[p].mine /\ doc'[p] # doc[p]
              => DeleteDocument(p)]_vars
  BY StepKeepsPages
<1> QED BY <1>1, <1>2, <1>3, Invariance, PTL
        DEF Spec, MirrorHolds, PagesKept, ExistingPagesKept, DetachedKept

=============================================================================
