------------------------------ MODULE Starters ------------------------------
(* The suggested questions of a collection (generation/suggestions.py): what  *)
(* the model is shown, what of its drafts is kept, which role each question   *)
(* is for and which ones are stored.  When that happens is in Suggestions.    *)
EXTENDS Integers, Sequences, SequencesExt, FiniteSets, FiniteSetsExt

CONSTANTS
  Role,        \* the roles in the order of access_roles
  Sees,        \* the labels of each role
  All,         \* LABEL_ALL
  Default,     \* access_default_role
  Threshold,   \* refusal_threshold
  Margin,      \* MIN_ROLE_MARGIN
  SampleCap,   \* SAMPLE_TOKEN_CAP
  SampleMax    \* SAMPLE_MAX_DOCS

-----------------------------------------------------------------------------
(* sample_excerpts, of the sizes of the public chunks in the order of their files: up *)
(* to the first that does not fit; the first is always taken.                          *)
Sample(sizes) ==
  LET Total(n) == FoldFunctionOnSet(+, 0, sizes, 1..n)
      Fits(n) == n <= 1 \/ Total(n) <= SampleCap
      most == Min({SampleMax, Len(sizes)})
  IN  Max({n \in 0..most : \A m \in 1..n : Fits(m)})

(* locked_document_hint, of the chunks of the documents in the order of their names:  *)
(* the first document that the default role cannot read whole, for the role with the  *)
(* fewest labels that can.                                                             *)
LabelsOf(chunks, d) == {chunks[i].label : i \in {k \in DOMAIN chunks : chunks[k].doc = d}} \ {All}
RolesFor(labels) == {r \in Range(Role) : labels \subseteq Sees[r]}
LeastOf(roles) ==
  CHOOSE r \in roles : \A s \in roles : Cardinality(Sees[r]) <= Cardinality(Sees[s])
Hint(chunks) ==
  LET locked == {i \in DOMAIN chunks :
                   LET labels == LabelsOf(chunks, chunks[i].doc)
                   IN  labels # {} /\ ~labels \subseteq Sees[Default] /\ RolesFor(labels) # {}}
      first == chunks[Min(locked)].doc
  IN  IF locked = {} THEN <<>>
      ELSE <<[doc |-> first, role |-> LeastOf(RolesFor(LabelsOf(chunks, first)))]>>

(* parse_questions and drop_leaky: of a completion's strings, each with the text that *)
(* tells it apart, those that can be asked.                                            *)
Parse(items) ==
  LET Keep(kept, q) ==
        IF q.bad \/ (\E k \in DOMAIN kept : kept[k].text = q.text) THEN kept ELSE Append(kept, q)
  IN  SelectSeq(FoldLeft(Keep, <<>>, items), LAMBDA q : ~q.leaky)

(* draft_candidates: a second completion replaces the first, whatever it holds. *)
Draft(first, second, count) ==
  IF Len(Parse(first)) >= count THEN Parse(first) ELSE Parse(second)

-----------------------------------------------------------------------------
(* _best_score of a question for a role, over the chunks it may retrieve. *)
BestScore(chunks, role) ==
  Max({0} \cup {chunks[i].score : i \in {k \in DOMAIN chunks : chunks[k].label \in Sees[role]}})

(* choose_min_role *)
MinRole(chunks) ==
  LET best == Max({BestScore(chunks, r) : r \in Range(Role)})
      able == {i \in DOMAIN Role : /\ BestScore(chunks, Role[i]) >= Threshold
                                   /\ BestScore(chunks, Role[i]) >= best - Margin}
  IN  IF able = {} THEN Default ELSE Role[Min(able)]

(* ensure: an open question, or one for another role, takes the place of the last one *)
(* kept, or of the one before it when that is protected.                                *)
Ensure(s, open, protect) ==
  LET Wanted(q) == (q.role = Default) = open
      wanted == {i \in DOMAIN s.rest : Wanted(s.rest[i])}
      last == Len(s.top)
      at == IF last = protect /\ last > 1 THEN last - 1 ELSE last
  IN  IF s.top = <<>> \/ wanted = {} \/ \E i \in DOMAIN s.top : Wanted(s.top[i])
      THEN [s EXCEPT !.swapped = 0]
      ELSE [top |-> [s.top EXCEPT ![at] = s.rest[Min(wanted)]],
            rest |-> Append(RemoveAt(s.rest, Min(wanted)), s.top[at]), swapped |-> at]

(* select_final, of the candidates from the best grounded one on. *)
SelectFinal(ranked, keep, restricted) ==
  LET kept == Min({keep, Len(ranked)})
      s == [top |-> SubSeq(ranked, 1, kept), rest |-> SubSeq(ranked, kept + 1, Len(ranked)), swapped |-> 0]
      locked == IF restricted THEN Ensure(s, FALSE, 0) ELSE s
  IN  Ensure(locked, TRUE, locked.swapped).top

(* rank_questions: of each question the scores of the collection's chunks.  Equal *)
(* scores keep the order of the drafts; a score of 0 stands for no such chunk.     *)
RankQuestions(questions, keep) ==
  LET Of(i) == [question |-> i, role |-> MinRole(questions[i]),
                score |-> Max({BestScore(questions[i], r) : r \in Range(Role)})]
      ranked == SetToSortSeq({Of(i) : i \in DOMAIN questions},
                             LAMBDA q, p : \/ q.score > p.score
                                           \/ q.score = p.score /\ q.question < p.question)
      restricted == \E i \in DOMAIN questions : \E k \in DOMAIN questions[i] :
                      questions[i][k].score > 0 /\ questions[i][k].label # All
  IN  SelectFinal(ranked, keep, restricted)

(* suggest_questions: a hint takes the last place if no locked question is there. *)
Stored(top, keep, hint) ==
  IF hint # <<>> /\ (\A i \in DOMAIN top : top[i].role = Default)
  THEN Append(SubSeq(top, 1, Min({keep - 1, Len(top)})), [role |-> hint[1].role, score |-> 0]) ELSE top

-----------------------------------------------------------------------------
(* What the model is shown fits its budget, or is one excerpt. *)
SampleFits(sizes) ==
  LET n == Sample(sizes)
  IN  /\ n <= SampleMax /\ (sizes # <<>> => n > 0)
      /\ n > 1 => FoldFunctionOnSet(+, 0, sizes, 1..n) <= SampleCap

(* A question is for a role whose own retrieval passes the gate with it, if there is   *)
(* any, and so does that of every role that sees at least as much; the default role     *)
(* is not sent away from a question that it can answer as well as any.                  *)
RolesHold(chunks) ==
  LET role == MinRole(chunks)
      Passes(r) == BestScore(chunks, r) >= Threshold
  IN  /\ (\E r \in Range(Role) : Passes(r)) => Passes(role)
      /\ Passes(role) => \A r \in Range(Role) : Sees[role] \subseteq Sees[r] => Passes(r)

(* A hint names a document that somebody who asks by default cannot read whole, for a  *)
(* role that can, and no role with fewer labels could.                                  *)
HintHolds(chunks) ==
  Hint(chunks) # <<>> =>
    LET hint == Hint(chunks)[1]
        labels == LabelsOf(chunks, hint.doc)
    IN  /\ ~labels \subseteq Sees[Default] /\ labels \subseteq Sees[hint.role]
        /\ \A r \in Range(Role) : labels \subseteq Sees[r] =>
             Cardinality(Sees[hint.role]) <= Cardinality(Sees[r])

(* "at least one locked question when the collection has restricted content, and at    *)
(* least one open question", where there is room for both and the candidates allow; no  *)
(* question comes twice, and the best grounded one stays unless its kind must make room. *)
SelectionHolds(ranked, keep) ==
  \A restricted \in BOOLEAN :
    LET top == SelectFinal(ranked, keep, restricted)
        Has(seq, open) == \E i \in DOMAIN seq : (seq[i].role = Default) = open
    IN  /\ Len(top) = Min({keep, Len(ranked)})
        /\ keep > 1 /\ restricted /\ Has(ranked, FALSE) => Has(top, FALSE)
        /\ keep > 1 /\ Has(ranked, TRUE) => Has(top, TRUE)
        /\ IsInjective(ranked) => IsInjective(top)
        /\ keep > 1 /\ ranked # <<>> => top[1] = ranked[1]

(* The same of what is stored.  A hint, which is of a document with restricted content, *)
(* leaves an open question where more than one is kept.                                   *)
StoredHolds(ranked, keep, hint) ==
  LET stored == Stored(SelectFinal(ranked, keep, hint # <<>>), keep, hint)
  IN  /\ Len(stored) <= keep
      /\ hint # <<>> => \E i \in DOMAIN stored : stored[i].role # Default
      /\ keep > 1 /\ (\E i \in DOMAIN ranked : ranked[i].role = Default) =>
           \E i \in DOMAIN stored : stored[i].role = Default

(* Of the drafts, the best grounded one is kept where there is room for two; a question *)
(* is locked only if asking it by default finds less, and one is open if any can be.     *)
StartersHold(questions, keep) ==
  LET top == RankQuestions(questions, keep)
      Found(i, role) == BestScore(questions[i], role)
  IN  /\ \A i \in DOMAIN top : top[i].role # Default =>
           /\ Found(top[i].question, top[i].role) >= Threshold
           /\ Found(top[i].question, Default) < Found(top[i].question, top[i].role)
      /\ keep > 1 => \A i \in DOMAIN questions :
           Found(i, Default) = top[1].score => \E k \in DOMAIN top : top[k].role = Default
      /\ keep > 1 /\ questions # <<>> =>
           \A i \in DOMAIN questions, r \in Range(Role) : Found(i, r) <= top[1].score

(* What is drafted can be asked and comes once, and is enough if the first completion was *)
(* or the second is.                                                                        *)
DraftHolds(first, second, count) ==
  LET draft == Draft(first, second, count)
  IN  /\ \A i \in DOMAIN draft : ~draft[i].bad /\ ~draft[i].leaky
      /\ \A i, j \in DOMAIN draft : draft[i].text = draft[j].text => i = j
      /\ (\E items \in {first, second} : Len(Parse(items)) >= count) => Len(draft) >= count
=============================================================================
