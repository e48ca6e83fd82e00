------------------------------- MODULE Budget -------------------------------
(* The daily allowance: app/billing/service.py, with the calls that          *)
(* app/billing/providers.py makes around every provider attempt and the      *)
(* import at login (accounts/router.py, accounts/google_accounts.py).  Every *)
(* transaction here holds the advisory lock _ADMISSION_LOCK to its end, so   *)
(* each is one action; between Reserve and Settle no lock is held.  A        *)
(* transaction that is refused or that fails rolls back, the import with it, *)
(* and is no step.                                                           *)
EXTENDS Integers, FiniteSets, Functions

CONSTANTS
  Ip,        \* client addresses (their digests)
  User,
  Call,      \* provider attempts: a retry is another call
  None,      \* no payer (a guest), no reservation, no known cost
  Limit,     \* budget_daily_usd
  MaxAmount, \* bound: the largest charge reserved (free models reserve nothing);
             \* a cost may exceed what was reserved for it by one
  MaxDay     \* bound: how often the day turns

Scope == Ip \cup User
Day == 0 .. MaxDay
Reservation == [day : Day, ip : Ip, payer : User \cup {None},
                reserved : 0 .. MaxAmount, actual : 0 .. (MaxAmount + 1) \cup {None}]

ASSUME ScopeAssumption == Ip \cap User = {} /\ None \notin Ip \cup User
ASSUME AmountAssumption == Limit \in Nat /\ MaxAmount \in Nat /\ MaxDay \in Nat
ASSUME NullAssumption == None \notin Reservation

VARIABLES
  today,       \* the UTC day
  reservation, \* rows of spend_reservations, by the call that made them
  alloc        \* rows of spend_allocations: pairs of a reservation and a scope

vars == <<today, reservation, alloc>>

Init ==
  /\ today = 0
  /\ reservation = [c \in Call |-> None]
  /\ alloc = {}

-----------------------------------------------------------------------------
Made == {c \in Call : reservation[c] # None}

Scopes(ip, payer) == {ip} \cup ({payer} \cap User)

(* Mutant: whatever was reserved at the address is imported. *)
CallsAt(ip) == {c \in Made : reservation[c].day = today /\ reservation[c].ip = ip}

(* The rows _import_guest selects: what guests reserved today at this address. *)
GuestCalls(ip) ==
  {c \in Made : /\ reservation[c].day = today
                /\ reservation[c].ip = ip
                /\ reservation[c].payer = None}

Import(ip, payer) == alloc \cup GuestCalls(ip) \X ({payer} \cap User)

(* A call with no known cost counts with what it reserved. *)
Charge(c) ==
  IF reservation[c].actual = None THEN reservation[c].reserved ELSE reservation[c].actual

Charges == [c \in Made |-> Charge(c)]

Total(rows, scope) ==
  SumFunctionOnSet(Charges, {c \in Made : <<c, scope>> \in rows /\ reservation[c].day = today})

(* Mutants: an admission that imports nothing; one whose row counts at the *)
(* address only.                                                           *)
ReserveAlone(c, ip, payer, amount) ==
  /\ reservation[c] = None
  /\ \A s \in Scopes(ip, payer) : Total(alloc, s) + amount <= Limit
  /\ reservation' = [reservation EXCEPT ![c] =
       [day |-> today, ip |-> ip, payer |-> payer, reserved |-> amount, actual |-> None]]
  /\ alloc' = alloc \cup {c} \X Scopes(ip, payer)
  /\ UNCHANGED today

ReserveAtAddress(c, ip, payer, amount) ==
  /\ reservation[c] = None
  /\ \A s \in Scopes(ip, payer) : Total(Import(ip, payer), s) + amount <= Limit
  /\ reservation' = [reservation EXCEPT ![c] =
       [day |-> today, ip |-> ip, payer |-> payer, reserved |-> amount, actual |-> None]]
  /\ alloc' = Import(ip, payer) \cup {<<c, ip>>}
  /\ UNCHANGED today

(* The import and the totals see the same rows; the new one is added to both. *)
Reserve(c, ip, payer, amount) ==
  /\ reservation[c] = None
  /\ \A s \in Scopes(ip, payer) : Total(Import(ip, payer), s) + amount <= Limit
  /\ reservation' = [reservation EXCEPT ![c] =
       [day |-> today, ip |-> ip, payer |-> payer, reserved |-> amount, actual |-> None]]
  /\ alloc' = Import(ip, payer) \cup {c} \X Scopes(ip, payer)
  /\ UNCHANGED today

(* GET /v1/budget, and every login. *)
Summary(ip, payer) ==
  /\ alloc' = Import(ip, payer)
  /\ UNCHANGED <<today, reservation>>

(* Known usage replaces the charge, once, whatever the day is by then; an      *)
(* overrun is stored before it is reported.  A call with no usage, or whose    *)
(* process dies, never gets here: its row stays as it is.                      *)
Settle(c, actual) ==
  /\ reservation[c] # None
  /\ reservation[c].actual = None
  /\ reservation' = [reservation EXCEPT ![c].actual = actual]
  /\ UNCHANGED <<today, alloc>>

Midnight ==
  /\ today < MaxDay
  /\ today' = today + 1
  /\ UNCHANGED <<reservation, alloc>>

Next ==
  \/ \E c \in Call, ip \in Ip, payer \in User \cup {None}, amount \in 1 .. MaxAmount :
        Reserve(c, ip, payer, amount)
  \/ \E ip \in Ip, payer \in User : Summary(ip, payer)
  \/ \E c \in Made : \E actual \in 0 .. (reservation[c].reserved + 1) : Settle(c, actual)
  \/ Midnight

Spec == Init /\ [][Next]_vars

-----------------------------------------------------------------------------
(* The type invariant of the two ledger tables and the day. *)
TypeOK ==
  /\ today \in Day
  /\ reservation \in [Call -> Reservation \cup {None}]
  /\ alloc \subseteq Call \X Scope

(* What the admission answers for: an overrun of the estimate is beyond it. *)
Admitted(c) ==
  IF reservation[c].actual = None \/ reservation[c].actual > reservation[c].reserved
  THEN reservation[c].reserved ELSE reservation[c].actual

Admissions == [c \in Made |-> Admitted(c)]

(* At no address do the calls of a day, guests' and any account's, cost more   *)
(* than the limit beyond the overruns of their own estimates: no order of      *)
(* reserving, settling, logging in or out, or changing account admits more     *)
(* (docs/billing.md: "login, logout or a second account cannot reset the       *)
(* current IP's budget").                                                      *)
AddressWithinLimit ==
  \A ip \in Ip, d \in Day :
    SumFunctionOnSet(Admissions, {c \in Made : reservation[c].ip = ip /\ reservation[c].day = d})
      <= Limit

(* Nor do the calls an account itself made in a day, on whatever addresses     *)
(* ("Changing networks does not reset an account's accumulated spending").     *)
AccountWithinLimit ==
  \A u \in User, d \in Day :
    SumFunctionOnSet(Admissions, {c \in Made : reservation[c].payer = u /\ reservation[c].day = d})
      <= Limit

(* Neither an address nor an account is admitted beyond the limit (billing/budget.py). *)
WithinLimit == AddressWithinLimit /\ AccountWithinLimit

(* A guest's spending follows the account: when a call is admitted for an      *)
(* account, its own calls of the day on any address and the guests' at this    *)
(* one fit the limit together, though neither address nor account has both.    *)
GuestSpendingFollows ==
  [][\A c \in Call :
       reservation[c] = None /\ reservation'[c] # None /\ reservation'[c].payer \in User =>
         reservation'[c].reserved
         + SumFunctionOnSet(Charges,
             {b \in Made : /\ reservation[b].day = today
                           /\ \/ reservation[b].payer = reservation'[c].payer
                              \/ reservation[b].payer = None
                                 /\ reservation[b].ip = reservation'[c].ip})
         <= Limit]_vars

(* Nobody pays for another account: a charge is associated with its own        *)
(* address and its own account, or with an account only if a guest made it.    *)
ChargedToOwner ==
  \A c \in Call, s \in Scope :
    <<c, s>> \in alloc =>
      /\ reservation[c] # None
      /\ s \in Ip => s = reservation[c].ip
      /\ s \in User => reservation[c].payer \in {s, None}

(* The rows and their associations agree: every reservation counts at its own  *)
(* address and, when it has one, against its own account.                      *)
EveryChargeCounts ==
  \A c \in Made : \A s \in Scopes(reservation[c].ip, reservation[c].payer) : <<c, s>> \in alloc

IInv == TypeOK /\ ChargedToOwner /\ EveryChargeCounts
=============================================================================
