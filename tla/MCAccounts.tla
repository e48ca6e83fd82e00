---------------------------- MODULE MCAccounts ----------------------------
(* A person with two mailboxes and two accounts at Google, and a stranger; and, as *)
(* a part of its own that shares no state with it, two sign-ins that look for       *)
(* one of two keys of Google's.                                                      *)
EXTENDS Accounts, TLC

CONSTANTS ann, bob,
  Throttle, MinLife, MaxLife, Timeout, MaxClock  \* GoogleKeys

VARIABLES
  part,
  clock, published, withdrawn, cache, exchange  \* GoogleKeys

K == INSTANCE GoogleKeys WITH Kid <- Token, Exchange <- Request

allVars == <<part, vars, clock, published, withdrawn, cache, exchange>>

MCHolder == [e \in Email |-> ann]
MCAccount == [i \in Subject |-> ann]
Symmetric ==
  Permutations(Session) \cup Permutations(Token) \cup Permutations(State)
    \cup Permutations(Request) \cup Permutations(Subject) \cup Permutations(Email)

\* Two links and one state, or one link and two states.
InPart ==
  ~(/\ Cardinality({g \in State : state'[g] # Null}) > 1
    /\ Cardinality({t \in Token : token'[t] # Null}) > 1)

MCInit ==
  /\ part \in {"accounts", "keys"}
  /\ Init /\ K!Init

MCNext ==
  /\ UNCHANGED part
  /\ \/ part = "accounts" /\ Next /\ InPart /\ UNCHANGED <<clock, published, withdrawn, cache, exchange>>
     \/ part = "keys" /\ K!Next /\ UNCHANGED <<user, session, token, state, identity, req>>

MCSpec == MCInit /\ [][MCNext]_allVars

(* Whatever refreshes fail, hang or overlap with a rotation, nobody signs in with a    *)
(* key that Google withdrew longer ago than a lifetime, and refreshes, failed ones too, *)
(* are apart (accounts/google_provider.py).                                             *)
KeysHold == K!WithdrawnExpire /\ []K!RefreshesApart
===========================================================================
