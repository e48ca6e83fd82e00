------------------------------ MODULE Ranking ------------------------------
(* The lists of passages between the searches and the prompt: the fusion of   *)
(* the two searches (retrieval/fusion.py), the merge of the planned queries   *)
(* (retrieval/planning.py), the passages that fit the prompt                  *)
(* (generation/prompts.py), the probe for what the role may not see           *)
(* (retrieval/vector.py), and the questions of a conversation that fit theirs *)
(* (conversations/context.py).  A search returns each passage once.           *)
EXTENDS Integers, Sequences, SequencesExt, FiniteSets, FiniteSetsExt

CONSTANTS
  K,        \* rrf_k
  Scale,    \* the parts in which scores are counted, of which 1 / (K + rank) is a whole number
  TopK,     \* top_k_vector and top_k_fts
  Limit,    \* the passages of a query that are kept: rrf_top_n, rerank_top_n
  Budget    \* tokens: context_token_budget, conversation_context_token_budget

Scaled == K \in Nat /\ TopK \in Nat /\ Scale \in Nat /\ \A r \in 1..TopK : Scale % (K + r) = 0

Distinct(list) == IsInjective(list)
SumOf(sizes) == FoldLeft(LAMBDA a, b : a + b, 0, sizes)
UpTo(list, n) == SubSeq(list, 1, Min({n, Len(list)}))

(* All that some list has, and which lists have it. *)
Anywhere(lists) == UNION {Range(lists[l]) : l \in DOMAIN lists}
Having(lists, c) == {l \in DOMAIN lists : c \in Range(lists[l])}

RankIn(list, c) == IF c \in Range(list) THEN CHOOSE r \in DOMAIN list : list[r] = c ELSE 0

(* The items in an order: at each place the one with so many before it. *)
Sorted(items, before) ==
  [i \in 1..Cardinality(items) |->
     CHOOSE c \in items : Cardinality({d \in items : <<d, c>> \in before}) = i - 1]

-----------------------------------------------------------------------------
Worth(r) == IF r = 0 THEN 0 ELSE Scale \div (K + r)

Fused(lists, c) == SumFunction([l \in DOMAIN lists |-> Worth(RankIn(lists[l], c))])

FoundFirst(lists, c) == Min(Having(lists, c))

(* By score, equals in the order in which they were found. *)
Above(lists, c, d) ==
  \/ Fused(lists, c) > Fused(lists, d)
  \/ /\ Fused(lists, c) = Fused(lists, d)
     /\ \/ FoundFirst(lists, c) < FoundFirst(lists, d)
        \/ /\ FoundFirst(lists, c) = FoundFirst(lists, d)
           /\ RankIn(lists[FoundFirst(lists, c)], c) < RankIn(lists[FoundFirst(lists, d)], d)

(* reciprocal_rank_fusion *)
Fusion(lists) ==
  LET found == Anywhere(lists)
  IN  Sorted(found, {p \in found \X found : Above(lists, p[1], p[2])})

-----------------------------------------------------------------------------
(* The best rank that a query gives a passage, and the first query that gives it. *)
BestRank(groups, c) == Min({RankIn(groups[g], c) : g \in Having(groups, c)})
HeardFrom(groups, c) == Min({g \in Having(groups, c) : RankIn(groups[g], c) = BestRank(groups, c)})

(* By rank, and by query within a rank. *)
Sooner(groups, c, d) ==
  \/ BestRank(groups, c) < BestRank(groups, d)
  \/ /\ BestRank(groups, c) = BestRank(groups, d)
     /\ HeardFrom(groups, c) < HeardFrom(groups, d)

(* round_robin_chunks: each passage once, up to the limit. *)
RoundRobin(groups, limit) ==
  LET found == Anywhere(groups)
  IN  UpTo(Sorted(found, {p \in found \X found : Sooner(groups, p[1], p[2])}), limit)

-----------------------------------------------------------------------------
FitsPrompt(total, size) == total + size <= Budget

(* build_context_blocks: in order while they fit; the first always goes in. *)
ContextBlocks(sizes) ==
  LET Step(s, size) ==
        IF s.full \/ (s.n > 0 /\ ~FitsPrompt(s.total, size)) THEN [s EXCEPT !.full = TRUE]
        ELSE [s EXCEPT !.n = @ + 1, !.total = @ + size]
  IN  FoldLeft(Step, [n |-> 0, total |-> 0, full |-> FALSE], sizes).n

FitsContext(total, size) == total + size <= Budget

(* fit_safe_context: the newest questions, then references, in their order, that fit. *)
SafeContext(turns, references) ==
  LET Turn(s, i) ==
        IF s.full \/ ~FitsContext(s.total, turns[i]) THEN [s EXCEPT !.full = TRUE]
        ELSE [s EXCEPT !.first = i, !.total = @ + turns[i]]
      newest == FoldRight(LAMBDA i, s : Turn(s, i), [i \in DOMAIN turns |-> i],
                          [first |-> Len(turns) + 1, total |-> 0, full |-> FALSE])
      Reference(s, r) ==
        IF r.chunk \in {k.chunk : k \in Range(s.kept)} \/ Len(s.kept) = Limit
           \/ ~FitsContext(s.total, r.size)
        THEN s ELSE [kept |-> Append(s.kept, r), total |-> s.total + r.size]
      end == FoldLeft(Reference, [kept |-> <<>>, total |-> newest.total], references)
  IN  [first |-> newest.first, kept |-> end.kept, total |-> end.total]

-----------------------------------------------------------------------------
FullWindow(n) == n = Limit /\ Limit > 0

(* The best of some scores. *)
Nearest(scores) ==
  {k \in DOMAIN scores :
     Cardinality({j \in DOMAIN scores :
                    scores[j] > scores[k] \/ (scores[j] = scores[k] /\ j < k)}) < Limit}

(* hidden_probe: of the passages that the role may not see, the best Limit, the   *)
(* scores of those at least as good as the floor, and of those that would have    *)
(* come first.                                                                    *)
HiddenProbe(hidden, floor, best) ==
  LET relevant == {k \in Nearest(hidden) : hidden[k] >= floor}
  IN  [passages |-> Cardinality(relevant), truncated |-> FullWindow(Cardinality(relevant)),
       outranking |-> Cardinality({k \in relevant : hidden[k] >= best})]

-----------------------------------------------------------------------------
(* "a chunk found by both searches naturally rises above single-source hits": it does *)
(* while the searches return no more than k + 1 passages.                             *)
BothRise(lists) ==
  LET fused == Fusion(lists)
      Both(c) == \A l \in DOMAIN lists : c \in Range(lists[l])
  IN  \A i, j \in DOMAIN fused : Both(fused[i]) /\ ~Both(fused[j]) => i < j

(* Every planned query is heard: its best passage is kept if there is room for one of  *)
(* each, no passage comes twice, and one is kept only if some query found it and all    *)
(* that this query found before it is kept too (round_robin_chunks).                    *)
EveryQueryHeard(groups) ==
  LET kept == RoundRobin(groups, Limit) IN
    /\ Distinct(kept)
    /\ Len(groups) <= Limit =>
         \A g \in DOMAIN groups : groups[g] # <<>> => groups[g][1] \in Range(kept)
    /\ \A c \in Range(kept) : \E g \in DOMAIN groups : \E r \in DOMAIN groups[g] :
         groups[g][r] = c /\ \A q \in 1..r : groups[g][q] \in Range(kept)

(* The prompt keeps the best passages: those left out come after all that are in, and  *)
(* only a first passage that is too long by itself goes over the budget.               *)
PromptFits(sizes) ==
  LET n == ContextBlocks(sizes) IN
    /\ SumOf(SubSeq(sizes, 1, n)) <= Budget \/ n = 1
    /\ n < Len(sizes) => SumOf(SubSeq(sizes, 1, n + 1)) > Budget

(* What is told of a conversation fits its budget, misses no question between two that *)
(* it has, and refers to no passage twice.                                              *)
ContextFits(turns, references) ==
  LET context == SafeContext(turns, references) IN
    /\ SumOf(SubSeq(turns, context.first, Len(turns)))
         + SumOf([k \in DOMAIN context.kept |-> context.kept[k].size]) <= Budget
    /\ Len(context.kept) <= Limit
    /\ \A i, j \in DOMAIN context.kept :
         i # j => context.kept[i].chunk # context.kept[j].chunk

(* "passages is a lower bound" exactly when the probe says that it is cut: otherwise   *)
(* its numbers are those of all that is hidden.                                         *)
ProbeHonest(hidden, floor, best) ==
  LET probe == HiddenProbe(hidden, floor, best)
      All(least) == Cardinality({k \in DOMAIN hidden : hidden[k] >= least})
  IN  /\ probe.passages <= All(floor)
      /\ ~probe.truncated => /\ probe.passages = All(floor)
                             /\ best >= floor => probe.outranking = All(best)
=============================================================================
