----------------------------- MODULE Retrieval -----------------------------
(* What a query finds (retrieval/service.py, vector.py, fulltext.py): a search *)
(* by meaning, one by words and a probe for what the role may not see, each a   *)
(* statement that sees the corpus of its own moment, for the question and then   *)
(* for each planned one (generation/service.py); and beside it the ingestion     *)
(* that hides, replaces and removes passages, and the extractions that replace    *)
(* those of facts.  Scores are whole numbers.                                     *)
EXTENDS Ranking

CONSTANTS
  Passage,
  First,      \* the passages there are at the start
  FactPassages, \* those that extractions write, not ingestions
  DocumentOf, LabelOf,
  Near,       \* similarity of each passage, by question
  Matches,    \* the passages with the words of each question
  Allowed,    \* the labels of the one who asks
  Labels,     \* the labels of all roles together
  Threshold, Margin,
  MaxFacets,  \* MAX_PLANNED_QUERIES
  Reranker,   \* whether one is configured
  MaxChanges, \* bound: how often the corpus changes
  Null

VARIABLES
  stored,     \* passages in the table
  ready,      \* documents that are searched
  collection, \* how often its data version and its source generation have moved
  search

retrieval == <<stored, ready, collection, search>>

Document == {DocumentOf[p] : p \in Passage}
Question == 1 .. 1 + MaxFacets

Counts == [version : Nat, generation : Nat]
Hint == [passages : Nat, truncated : BOOLEAN, outranking : Nat]
Search ==
  [step : {"vector", "words", "probe", "rank", "plan", "refused", "answer"}, question : Question,
   reveal : BOOLEAN, groups : Seq(Seq(Passage)), vector : Seq(Passage), words : Seq(Passage),
   hint : Hint \cup {Null}, read : Counts]

\* What the constants are: passages of documents with a likeness to each question, and no
\* search and no hint is Null.
Settings ==
  /\ Scaled /\ Limit \in Nat /\ MaxFacets \in Nat /\ Margin \in Nat /\ Threshold \in Int
  /\ IsFiniteSet(Passage) /\ First \cup FactPassages \subseteq Passage
  /\ Near \in [Question -> [Passage -> Int]]
  /\ Null \notin Search \cup Hint

Init ==
  /\ stored = First /\ ready = Document
  /\ collection = [version |-> 0, generation |-> 0]
  /\ search = Null

-----------------------------------------------------------------------------
TextOf(d) == {p \in stored : DocumentOf[p] = d}
Searched == {p \in stored : DocumentOf[p] \in ready}
Visible == {p \in Searched : LabelOf[p] \in Allowed}
Hidden == Searched \ Visible

Moved(version, generation) ==
  /\ collection.version + collection.generation < MaxChanges
  /\ collection' = [version |-> collection.version + version,
                    generation |-> collection.generation + generation]

(* Mutant: a reset that counts as a new text. *)
ResetAsNew(d) ==
  /\ d \in ready /\ Moved(0, 1)
  /\ ready' = ready \ {d}
  /\ UNCHANGED <<stored, search>>

(* A document is reset, and its passages are searched no more. *)
Reset(d) ==
  /\ d \in ready /\ Moved(1, 0)
  /\ ready' = ready \ {d}
  /\ UNCHANGED <<stored, search>>

(* _store_chunks: a new text in place of the old one. *)
StoreChunks(d, new) ==
  /\ d \notin ready /\ new # {} /\ \A p \in new : DocumentOf[p] = d
  /\ new \cap (First \cup FactPassages \cup stored) = {} /\ Moved(0, 1)
  /\ stored' = (stored \ TextOf(d)) \cup new /\ ready' = ready \cup {d}
  /\ UNCHANGED search

(* _replace_facts, remove_facts_chunk and patch_extraction: an extraction's passage goes, *)
(* comes or is replaced, and the generation alone moves.                                   *)
ReplaceFacts(d, old, new) ==
  /\ TextOf(d) # {} /\ old \cup new # {}
  /\ old \subseteq TextOf(d)
  /\ new \cap (First \cup stored) = {} /\ \A p \in new : DocumentOf[p] = d
  /\ Moved(0, 1)
  /\ stored' = (stored \ old) \cup new
  /\ UNCHANGED <<ready, search>>

DeleteDocument(d) ==
  /\ TextOf(d) # {} /\ Moved(1, 1)
  /\ stored' = stored \ TextOf(d) /\ ready' = ready \ {d}
  /\ UNCHANGED search

-----------------------------------------------------------------------------
(* Up to n of a set, in some order: the index is approximate and its order relaxed. *)
Found(S, n) == {list \in [1..Min({n, Cardinality(S)}) -> S] : Distinct(list)}

(* The query has read the collection; what it finds is compared with that. *)
Begin(reveal) ==
  /\ search = Null
  /\ search' = [step |-> "vector", question |-> 1, reveal |-> reveal, groups |-> <<>>,
                vector |-> <<>>, words |-> <<>>, hint |-> Null, read |-> collection]
  /\ UNCHANGED <<stored, ready, collection>>

At(step) == search # Null /\ search.step = step
Update(new) == search' = new /\ UNCHANGED <<stored, ready, collection>>

VectorSearch ==
  /\ At("vector")
  /\ \E hits \in Found(Visible, TopK) :
       Update([search EXCEPT !.step = "words", !.vector = hits])

FulltextSearch ==
  /\ At("words")
  /\ \E hits \in Found(Visible \cap Matches[search.question], TopK) :
       Update([search EXCEPT !.words = hits,
                 !.step = IF search.question = 1 /\ search.reveal THEN "probe" ELSE "rank"])

Best == IF search.vector = <<>> THEN 0 ELSE Near[search.question][search.vector[1]]

(* A role that sees what any role does is told of nothing, without a look. *)
Told(hits) == IF Labels \subseteq Allowed THEN <<>> ELSE [k \in DOMAIN hits |-> Near[1][hits[k]]]

Probe ==
  /\ At("probe")
  /\ \E hits \in Found(Hidden, Limit) :
       Update([search EXCEPT !.step = "rank",
                 !.hint = HiddenProbe(Told(hits), Max({Threshold, Best - Margin}), Best)])

Ranked ==
  LET fused == UpTo(Fusion(<<search.vector, search.words>>), Limit)
  IN  IF Reranker THEN Found(Range(fused), Limit) ELSE {fused}

(* The score that decides: of the first by meaning, or what a reranker says. *)
GatePasses ==
  IF Reranker THEN {TRUE, FALSE}
  ELSE {search.vector = <<>> \/ Near[1][search.vector[1]] >= Threshold}

(* The first retrieval may end the query. *)
Rank ==
  /\ At("rank")
  /\ \E list \in Ranked, passes \in GatePasses :
       LET refused == search.question = 1 /\ (list = <<>> \/ ~passes)
       IN  Update([search EXCEPT !.groups = Append(@, list),
                     !.step = IF refused THEN "refused" ELSE "plan"])

(* The next planned question, a facet that is skipped for a failed embedding, or no more. *)
NextFacet ==
  /\ At("plan") /\ search.question < 1 + MaxFacets
  /\ \E step \in {"vector", "plan"} :
       Update([search EXCEPT !.step = step, !.question = @ + 1, !.vector = <<>>, !.words = <<>>])

Merge ==
  /\ At("plan")
  /\ Update([search EXCEPT !.step = "answer", !.groups = <<RoundRobin(@, Limit)>>])

Next ==
  \/ \E d \in Document :
       \/ Reset(d) \/ DeleteDocument(d)
       \/ \E new \in SUBSET Passage : StoreChunks(d, new)
       \/ \E old, new \in {{}} \cup {{p} : p \in FactPassages} : ReplaceFacts(d, old, new)
  \/ \E reveal \in BOOLEAN : Begin(reveal)
  \/ VectorSearch \/ FulltextSearch \/ Probe \/ Rank \/ NextFacet \/ Merge

Spec == Init /\ [][Next]_retrieval

-----------------------------------------------------------------------------
StillVersion == collection.version = search.read.version
StillGeneration == collection.generation = search.read.generation

(* The passages that an answer is made of are stored together, those of planned questions  *)
(* with those of the first, as long as the data version has not moved, which is all that    *)
(* its record compares (generation/service.py, _record_query); except those of facts: they  *)
(* are replaced with the generation alone, and a record that cites one that went fails.      *)
OneCorpus ==
  At("answer") =>
    /\ StillVersion => Range(search.groups[1]) \subseteq stored \cup FactPassages
    /\ StillGeneration => Range(search.groups[1]) \subseteq stored

(* What the first question finds close by, hidden from the role. *)
Close == {p \in Hidden : Near[1][p] >= Threshold}

HintOfHidden ==
  /\ search.hint.passages <= Cardinality(Close)
  /\ search.hint.outranking <= search.hint.passages
  /\ (Cardinality(Hidden) <= Limit /\ At("rank") /\ search.question = 1) =>
       search.hint.outranking = Cardinality({p \in Close : Near[1][p] >= Best})

(* When nothing has changed since, the role is told of no more than there is close by and   *)
(* hidden from it; and where nothing is cut off, of each that comes before what it sees.      *)
HintTrue ==
  (search # Null /\ search.hint # Null /\ collection = search.read /\ ~(Labels \subseteq Allowed)) =>
    HintOfHidden

-----------------------------------------------------------------------------
TypeOK ==
  /\ stored \subseteq Passage /\ ready \subseteq Document
  /\ collection \in Counts /\ search \in Search \cup {Null}

(* What is still in the table if it was there when the query read the collection: all of *)
(* it until the generation moves, and until the version does the texts, of documents that  *)
(* no ingestion replaces, for they are searched.                                            *)
Standing ==
  {p \in Passage :
     /\ StillGeneration => p \in stored
     /\ StillVersion => DocumentOf[p] \in ready /\ p \in stored \cup FactPassages}

FoundStands ==
  /\ Range(search.vector) \cup Range(search.words) \subseteq Standing
  /\ \A g \in DOMAIN search.groups : Range(search.groups[g]) \subseteq Standing

(* What a query read of the collection is not ahead of it, and the first question is *)
(* probed for once its searches are done.                                             *)
InItsTurn ==
  /\ search.read.version <= collection.version /\ search.read.generation <= collection.generation
  /\ search.hint # Null /\ search.question = 1 => search.step \notin {"vector", "words"}
  /\ search.step = "answer" => Len(search.groups) = 1

IInv == TypeOK /\ (search # Null => FoundStands /\ InItsTurn) /\ HintTrue
=============================================================================
