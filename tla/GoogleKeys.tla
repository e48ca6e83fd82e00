---------------------------- MODULE GoogleKeys ----------------------------
(* The keys that Google signs identities with, as one process of the API keeps *)
(* them (accounts/google_provider.py): sign-ins exchange their codes at the same *)
(* time, one of them at a time looks for its key, and Google rotates its keys.    *)
EXTENDS Integers, FiniteSets

CONSTANTS
  Kid,
  Exchange,   \* sign-ins, each exchanges one code
  Throttle,   \* the 30 seconds between refreshes
  MinLife, MaxLife, \* what max-age is clamped to: 30 and 3600 seconds
  Timeout,    \* of an exchange, 20 seconds
  MaxClock,   \* bound
  Null

VARIABLES
  clock,
  published,  \* the keys that Google signs with and publishes
  withdrawn,  \* since when a key is not, or Null
  cache,      \* what the process keeps: keys, when they expire, when it last asked
  exchange

keyVars == <<clock, published, withdrawn, cache, exchange>>

Ended == {"signed in", "refused"}

Init ==
  /\ clock = 0
  /\ published = Kid
  /\ withdrawn = [k \in Kid |-> Null]
  /\ cache = [keys |-> {}, expires |-> 0, fetched |-> -Throttle]
  /\ exchange = [x \in Exchange |-> Null]

-----------------------------------------------------------------------------
Is(x, steps) == exchange[x] # Null /\ exchange[x].at \in steps
Underway(x) == exchange[x] # Null /\ exchange[x].at \notin Ended
Locked == \E x \in Exchange : Is(x, {"fetching", "served"})

Rotate(kids) ==
  /\ kids # {} /\ kids # published
  /\ published' = kids
  /\ withdrawn' = [k \in Kid |-> IF k \in kids THEN Null
                                 ELSE IF k \in published THEN clock ELSE withdrawn[k]]
  /\ UNCHANGED <<clock, cache, exchange>>

(* The code is exchanged for a token, whose header names a key. *)
Start(x, kid) ==
  /\ exchange[x] = Null
  /\ exchange' = [exchange EXCEPT ![x] =
       [at |-> "waiting", kid |-> kid, began |-> clock, asked |-> Null, seen |-> {}]]
  /\ UNCHANGED <<clock, published, withdrawn, cache>>

End(x, outcome) == exchange' = [exchange EXCEPT ![x] = [at |-> outcome, asked |-> @.asked]]

(* With its key an identity is verified; its claims may still be refused. *)
Verify(x) == \E outcome \in Ended : End(x, outcome)

(* Mutant: a key that was once there will do. *)
KnownOnce(kid) == kid \in cache.keys

Known(kid) == kid \in cache.keys /\ clock < cache.expires

UseKey(x) ==
  /\ Is(x, {"waiting"}) /\ ~Locked
  /\ Known(exchange[x].kid)
  /\ Verify(x)
  /\ UNCHANGED <<clock, published, withdrawn, cache>>

Throttled(x) ==
  /\ Is(x, {"waiting"}) /\ ~Locked
  /\ ~Known(exchange[x].kid) /\ clock - cache.fetched < Throttle
  /\ End(x, "refused")
  /\ UNCHANGED <<clock, published, withdrawn, cache>>

(* The refresh is counted before it is asked for. *)
Fetch(x) ==
  /\ Is(x, {"waiting"}) /\ ~Locked
  /\ ~Known(exchange[x].kid) /\ clock - cache.fetched >= Throttle
  /\ cache' = [cache EXCEPT !.fetched = clock]
  /\ exchange' = [exchange EXCEPT ![x].at = "fetching", ![x].asked = clock]
  /\ UNCHANGED <<clock, published, withdrawn>>

Serve(x) ==
  /\ Is(x, {"fetching"})
  /\ exchange' = [exchange EXCEPT ![x].at = "served", ![x].seen = published]
  /\ UNCHANGED <<clock, published, withdrawn, cache>>

(* What came replaces what was there, and expires by when it was asked for. *)
Store(x, lifetime) ==
  /\ Is(x, {"served"})
  /\ cache' = [cache EXCEPT !.keys = exchange[x].seen, !.expires = exchange[x].asked + lifetime]
  /\ IF exchange[x].kid \in exchange[x].seen THEN Verify(x) ELSE End(x, "refused")
  /\ UNCHANGED <<clock, published, withdrawn>>

(* A timeout anywhere, or an answer that is refused: the old keys stay. *)
GiveUp(x) ==
  /\ Underway(x)
  /\ End(x, "refused")
  /\ UNCHANGED <<clock, published, withdrawn, cache>>

Tick ==
  /\ clock < MaxClock
  /\ \A x \in Exchange : Underway(x) => clock < exchange[x].began + Timeout
  /\ clock' = clock + 1
  /\ UNCHANGED <<published, withdrawn, cache, exchange>>

SignIn(x) ==
  \/ \E kid \in Kid : Start(x, kid)
  \/ UseKey(x) \/ Throttled(x) \/ Fetch(x) \/ Serve(x) \/ GiveUp(x)
  \/ \E lifetime \in MinLife..MaxLife : Store(x, lifetime)

Next == (\E x \in Exchange : SignIn(x)) \/ (\E kids \in SUBSET Kid : Rotate(kids)) \/ Tick

Spec == Init /\ [][Next]_keyVars

-----------------------------------------------------------------------------
(* "Stale keys are never used after TTL": a key that Google has withdrawn signs nobody *)
(* in once the longest lifetime has passed, however long a refresh hung or failed.       *)
WithdrawnExpire ==
  [][\A x \in Exchange : Underway(x) /\ Is(x, Ended)' /\ exchange'[x].at = "signed in" =>
       LET since == withdrawn[exchange[x].kid] IN since = Null \/ clock < since + MaxLife]_keyVars

(* "At most once per 30 seconds": with failed refreshes and ones that time out. *)
RefreshesApart ==
  \A x, y \in Exchange :
    x # y /\ exchange[x] # Null /\ exchange[y] # Null
    /\ exchange[x].asked # Null /\ exchange[y].asked # Null =>
      \/ exchange[x].asked - exchange[y].asked >= Throttle
      \/ exchange[y].asked - exchange[x].asked >= Throttle

-----------------------------------------------------------------------------
(* The settings: no exchange takes as long as a key may live. *)
Settings ==
  /\ Throttle \in Nat /\ MinLife \in Nat /\ MaxLife \in Nat /\ Timeout \in Nat
  /\ Timeout < MaxLife

Instant == Int \cup {Null}
Open == [at : {"waiting", "fetching", "served"}, kid : Kid, began : Int, asked : Instant, seen : SUBSET Kid]
Closed == [at : Ended, asked : Instant]

Types ==
  /\ clock \in Nat
  /\ published \in SUBSET Kid
  /\ withdrawn \in [Kid -> Instant]
  /\ cache \in [keys : SUBSET Kid, expires : Int, fetched : Int]
  /\ exchange \in [Exchange -> {Null} \cup Open \cup Closed]

(* No refresh was asked for after the last that was counted. *)
AllCounted == \A x \in Exchange : exchange[x] # Null /\ exchange[x].asked # Null => exchange[x].asked <= cache.fetched

(* Whoever waits for an answer asked for it while his exchange lasted. *)
AskedInTime ==
  \A x \in Exchange : Underway(x) =>
    /\ exchange[x].began <= clock /\ clock <= exchange[x].began + Timeout
    /\ Is(x, {"fetching", "served"}) =>
         exchange[x].asked \in Int /\ exchange[x].began <= exchange[x].asked /\ exchange[x].asked <= clock

(* What an answer holds was published when it was asked for, or later. *)
ServedSince ==
  \A x \in Exchange : Is(x, {"served"}) =>
    \A k \in exchange[x].seen : withdrawn[k] # Null => exchange[x].asked <= withdrawn[k]

CacheExpires ==
  /\ cache.expires <= clock + MaxLife
  /\ \A k \in cache.keys : withdrawn[k] # Null => cache.expires <= withdrawn[k] + MaxLife

IInv ==
  /\ Types /\ RefreshesApart /\ AllCounted /\ AskedInTime /\ ServedSince /\ CacheExpires
  /\ \A k \in published : withdrawn[k] = Null
=============================================================================
