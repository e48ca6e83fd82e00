------------------------------ MODULE Attempts ------------------------------
(* accounts/limits.py: the durable counters of attempts, each a row of the  *)
(* table auth_attempts per operation, scope and window.  One transaction    *)
(* counts an attempt at its address and at its email, in that order, and    *)
(* commits before the operation is tried: a row is locked from its upsert   *)
(* to the end of the transaction.                                           *)
EXTENDS Integers, FiniteSets

CONSTANTS
  Attempt,   \* attempts at one operation (login, say)
  Address, Email,
  Null,
  Limit,     \* auth_attempt_ip_limit of an address, auth_attempt_account_limit of an email
  MaxWindow  \* bound: how often a window ends

Scope == Address \cup Email
Window == 0 .. MaxWindow

VARIABLES
  window,
  count,     \* the committed rows
  lock,      \* whose transaction holds the row of a scope and window
  attempt    \* where each attempt is: its scopes, its window, the scopes still to count

vars == <<window, count, lock, attempt>>

Unmade == [at |-> "new", scopes |-> {}, window |-> 0, left |-> {}, allowed |-> TRUE]
Row == Scope \X Window
Try == [at : {"new", "counting", "tried", "limited", "refused"}, scopes : SUBSET Scope, window : Window,
        left : SUBSET Scope, allowed : BOOLEAN]

Settings ==
  /\ Address \cap Email = {} /\ Null \notin Attempt /\ IsFiniteSet(Attempt)
  /\ Limit \in [Scope -> Nat] /\ MaxWindow \in Nat

Init ==
  /\ window = 0
  /\ count = [s \in Row |-> 0]
  /\ lock = [s \in Row |-> Null]
  /\ attempt = [a \in Attempt |-> Unmade]

-----------------------------------------------------------------------------
At(a, at) == attempt[a].at = at

Check(a, scopes) ==
  /\ At(a, "new")
  /\ attempt' = [attempt EXCEPT ![a] =
       [at |-> "counting", scopes |-> scopes, window |-> window, left |-> scopes,
        allowed |-> TRUE]]
  /\ UNCHANGED <<window, count, lock>>

(* Mutant: the scopes in whatever order. *)
AnyScope(a) == attempt[a].left

(* The address before the email. *)
NextScope(a) ==
  IF attempt[a].left \cap Address # {} THEN attempt[a].left \cap Address ELSE attempt[a].left

RowOf(a, s) == <<s, attempt[a].window>>
Waits(a, s) == lock[RowOf(a, s)] # Null

(* The upsert returns the count with this attempt. *)
Upsert(a, s) ==
  /\ At(a, "counting")
  /\ s \in NextScope(a)
  /\ ~Waits(a, s)
  /\ lock' = [lock EXCEPT ![RowOf(a, s)] = a]
  /\ attempt' = [attempt EXCEPT ![a].left = @ \ {s},
                                ![a].allowed = @ /\ count[RowOf(a, s)] + 1 <= Limit[s]]
  /\ UNCHANGED <<window, count>>

Counted(a) == {RowOf(a, s) : s \in attempt[a].scopes \ attempt[a].left}
Released(a) == [s \in Row |-> IF lock[s] = a THEN Null ELSE lock[s]]

(* The attempt counts whether or not it is allowed, and whatever comes of it. *)
Commit(a) ==
  /\ At(a, "counting") /\ attempt[a].left = {}
  /\ count' = [s \in Row |-> IF s \in Counted(a) THEN count[s] + 1 ELSE count[s]]
  /\ lock' = Released(a)
  /\ attempt' = [attempt EXCEPT ![a].at = IF attempt[a].allowed THEN "tried" ELSE "limited"]
  /\ UNCHANGED window

(* The database fails or a command times out: the attempt is refused. *)
Unavailable(a) ==
  /\ At(a, "counting")
  /\ lock' = Released(a)
  /\ attempt' = [attempt EXCEPT ![a].at = "refused"]
  /\ UNCHANGED <<window, count>>

NextWindow ==
  /\ window < MaxWindow
  /\ window' = window + 1
  /\ UNCHANGED <<count, lock, attempt>>

Next ==
  \/ \E a \in Attempt :
       \/ \E ip \in Address, e \in Email : Check(a, {ip}) \/ Check(a, {ip, e})
       \/ \E s \in Scope : Upsert(a, s)
       \/ Commit(a) \/ Unavailable(a)
  \/ NextWindow

Spec == Init /\ [][Next]_vars

-----------------------------------------------------------------------------
(* The attempts that count in a row. *)
Made(s, w) ==
  {a \in Attempt : attempt[a].at \in {"tried", "limited"} /\ s \in attempt[a].scopes /\ attempt[a].window = w}

(* No more attempts of a window than its limit are tried at an address or at an     *)
(* email, from whatever mix of addresses and emails and however many at once: each  *)
(* counts before it is tried ("committed even if authentication fails").            *)
TriedWithinLimit ==
  \A s \in Scope, w \in Window : Cardinality({a \in Made(s, w) : At(a, "tried")}) <= Limit[s]

(* An attempt that was refused for its number counts as well: going on guessing     *)
(* does not make room in either scope.                                              *)
RefusalsCount ==
  \A s \in Scope, w \in Window :
    count[<<s, w>>] = Cardinality(Made(s, w))

(* Attempts do not wait for each other in a circle: one that is counting can always *)
(* go on (the order of check_attempts's scopes).                                    *)
Unblocked ==
  (\E a \in Attempt : At(a, "counting")) =>
    \E a \in Attempt :
      At(a, "counting") /\ (attempt[a].left = {} \/ \E s \in NextScope(a) : ~Waits(a, s))

-----------------------------------------------------------------------------
(* What the properties rest on, inductively.                                   *)

TypeOK ==
  /\ window \in Window
  /\ count \in [Row -> Nat] /\ lock \in [Row -> Attempt \cup {Null}]
  /\ attempt \in [Attempt -> Try]

(* Who is counting, at an address and at most an email, holds the rows it has counted in, *)
(* in which there was room for it if it is still allowed; its email comes last.            *)
Counting(a) ==
  At(a, "counting") =>
    /\ attempt[a].left \subseteq attempt[a].scopes
    /\ \A X \in {Address, Email} : \A s, t \in attempt[a].scopes \cap X : s = t
    /\ attempt[a].left \cap Address # {} => attempt[a].left = attempt[a].scopes
    /\ \A s \in attempt[a].scopes \ attempt[a].left :
         /\ lock[RowOf(a, s)] = a
         /\ attempt[a].allowed => count[RowOf(a, s)] + 1 <= Limit[s]

(* A row is locked by one that has counted in it and goes on. *)
LocksHeld == \A s \in Row : lock[s] # Null => At(lock[s], "counting") /\ s \in Counted(lock[s])

IInv ==
  /\ TypeOK /\ TriedWithinLimit /\ RefusalsCount /\ LocksHeld
  /\ \A a \in Attempt : Counting(a)

=============================================================================
