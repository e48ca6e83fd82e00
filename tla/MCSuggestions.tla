--------------------------- MODULE MCSuggestions ---------------------------
(* Suggestions on small instances. *)
EXTENDS Suggestions

CONSTANTS d1, d2, w1, w2

(* Nothing goes wrong, or mishaps of one kind or three do. *)
MCScenarios == {{}, {"failure"}, {"broker"}, {"rename"}, {"provider", "crash", "vanish"}}

(* The first document becomes too long to leave room for another one in a sample, *)
(* the second restricted.                                                         *)
MCOpen == [d \in Document |-> IF d = d1 THEN <<1, 2>> ELSE <<1, 0>>]

(* The second document comes after the first by its filename, or has the same one. *)
(* Where something goes wrong, it has a name of its own unless that is what goes   *)
(* wrong.                                                                          *)
MCInit ==
  /\ Init
  /\ name[d1] = 1
  /\ may # {} /\ "rename" \notin may => name[d2] = 2

(* The names stay so, and where something goes wrong the second document is also the   *)
(* second to be uploaded.  Which of two free workers takes a task makes no difference; *)
(* where the broker fails, there is one.                                               *)
InOrder ==
  /\ name'[d1] = 1
  /\ may # {} /\ "rename" \notin may => name'[d2] = 2
  /\ may # {} /\ doc'[d2].st # "absent" => doc'[d1].st # "absent"
  /\ slot[w2] = Null /\ slot'[w2] # Null => slot[w1] # Null /\ "broker" \notin may

MCNext == Next /\ InOrder

MCSpec == MCInit /\ [][MCNext]_vars /\ Fairness
=============================================================================
