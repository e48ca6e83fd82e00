---------------------------- MODULE MCAdmission ----------------------------
(* What a request passes before its handler, on small instances, with the    *)
(* algorithms on their small inputs.  The parts share no state: a behaviour  *)
(* is one part's, and the others stay as they began.                         *)
EXTENDS Admission, MCAlgorithms, TLC

VARIABLE part

MCLimit == [s \in Address \cup Email |-> IF s \in Address THEN 2 ELSE 1]

(* The parts share their model values, which keeps the group of permutations small. *)
Interchangeable == Permutations(Request) \cup Permutations(Question)

(* A request that presents nothing, where there are no accounts. *)
Bare == [cookie |-> "none", key |-> "none", unsafe |-> FALSE, csrf |-> FALSE, origin |-> FALSE, verified |-> FALSE]
Closed == [accounts |-> FALSE, budget |-> FALSE, open |-> FALSE]

rates == <<now, bucket, used, request, ideal>>
counters == <<window, count, lock, attempt>>
allVars == <<part, vars, rates, counters, asked, input>>

MCInit ==
  /\ part \in {"key", "rate", "attempts", "asked", "input"}
  /\ Init /\ R!Init /\ T!Init
  /\ IF part = "asked" THEN asked \in [shown : Requests, settings : Settings]
     ELSE asked = [shown |-> Bare, settings |-> Closed]
  /\ IF part = "input" THEN InputInit ELSE input = [of |-> "nothing", seq |-> <<>>]

MCNext ==
  /\ UNCHANGED <<part, asked>>
  /\ \/ part = "key" /\ Next /\ UNCHANGED <<rates, counters, input>>
     \/ part = "rate" /\ R!Next /\ UNCHANGED <<vars, counters, input>>
     \/ part = "attempts" /\ T!Next /\ UNCHANGED <<vars, rates, input>>
     \/ part = "input" /\ InputNext /\ UNCHANGED <<vars, rates, counters>>

MCSpec == MCInit /\ [][MCNext]_allVars
=============================================================================
