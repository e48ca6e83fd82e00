--------------------------- MODULE MCSourceSync ---------------------------
(* SourceSync with two pages that can swap their texts, and one edit of *)
(* each that does not show.                                                 *)
EXTENDS SourceSync

CONSTANTS p1, p2, t1, t2, w1, w2

MCBody == [p \in Page |-> IF p = p1 THEN <<t1, t2, t2>> ELSE <<t2, t1, t1>>]

MCConfig == {[auto |-> FALSE, cap |-> 2], [auto |-> TRUE, cap |-> 1], [auto |-> TRUE, cap |-> 2]}

\* Which of the two pages is the first one, and which of two free places in the
\* pool an execution takes, makes no difference.
InOrder ==
  /\ page'[p2] # 0 => page[p1] # 0
  /\ job[w2] = Null /\ job'[w2] # Null => job[w1] # Null

MCNext == Next /\ InOrder

MCSpec == Init /\ [][MCNext]_vars /\ Fairness
=============================================================================
