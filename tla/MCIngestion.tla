---------------------------- MODULE MCIngestion ----------------------------
(* Ingestion on two small instances, each behaviour being about one: a pair *)
(* of documents, and a single document that must settle.  The permutations  *)
(* leave every value of the single instance alone and fairness is asked of  *)
(* it only, so its temporal property is checked on its full graph.          *)
EXTENDS Ingestion, TLC

CONSTANTS PairDocument, PairWorker, PairContent

VARIABLE instance

MCBackoff == [n \in 1 .. MaxAttempts |-> 2 ^ (n - 1)]

Interchangeable ==
  Permutations(PairDocument) \cup Permutations(PairWorker) \cup Permutations(PairContent)

Single == instance = "single"
SingleDocument == Document \ PairDocument
SingleWorker == Worker \ PairWorker

(* Nothing of the other instance is touched, and every document of the pair keeps a *)
(* message, so that whatever a delivery may do it may do at any time.                 *)
OfInstance ==
  LET others == IF Single THEN PairDocument ELSE SingleDocument
      idle == IF Single THEN PairWorker ELSE SingleWorker
      contents == IF Single THEN Content \ PairContent ELSE PairContent
  IN  /\ ~Single => {d \in PairDocument : row[d].status # "absent"} \subseteq queue
      /\ \A d \in others : row[d].status = "absent"
      /\ \A w \in idle : job[w].doc = Null
      /\ \A d \in Document : row[d].sha \in contents \cup {Null}

allVars == <<vars, instance>>

MCInit == Init /\ instance \in {"pair", "single"}

MCNext == Next /\ UNCHANGED instance /\ OfInstance'

(* Fairness of Ingestion, for the single document. *)
SingleFairness ==
  /\ WF_allVars(Single /\ Tick /\ UNCHANGED instance)
  /\ \A w \in SingleWorker : WF_allVars(Single /\ TaskStep(w) /\ UNCHANGED instance)
  /\ \A d \in SingleDocument :
       /\ SF_allVars(Single /\ RecoverIngestion({d}) /\ d \in queue' /\ UNCHANGED instance)
       /\ SF_allVars(/\ Single
                     /\ \E w \in SingleWorker : GiveUp(w, d) \/ Claim(w, d)
                     /\ UNCHANGED instance)
  /\ WF_allVars(Single /\ (\E D \in SUBSET SingleDocument : ReprocessCommit(D)) /\ UNCHANGED instance)

MCSpec == MCInit /\ [][MCNext]_allVars /\ SingleFairness

(* InFlightSettles, of the single instance. *)
SingleSettles == Single => InFlightSettles
=============================================================================
