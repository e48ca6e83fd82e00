----------------------------- MODULE Admission -----------------------------
(* What a request passes before its handler: who it is taken for (api/deps.py, with *)
(* accounts/sessions.py), how fast and how often it may come, how often a login may   *)
(* be tried, and the key that it carries.  The parts share no state.                  *)
EXTENDS Idempotency

CONSTANTS
  Visit, Cost, Rate, Expiry, MaxDelay, DayTicks, DayLimit, MaxTime,   \* RateLimit
  Attempt, Address, Email, Limit, MaxWindow                           \* Attempts

VARIABLES
  now, bucket, used, request, ideal,   \* RateLimit
  window, count, lock, attempt,        \* Attempts
  asked                                \* what a request presents, and the settings

R == INSTANCE RateLimit WITH Request <- Visit
T == INSTANCE Attempts

ASSUME LimitsAssumption == R!Settings /\ T!Settings

-----------------------------------------------------------------------------
(* A request may present a cookie, a key, both or none; what it presents is known by  *)
(* what the tables say of it.                                                          *)

(* Cookies: none, one that is not a session's, of a guest, of an account, of one   *)
(* that is no longer active.  Keys: none, no key's form, a key of no live row, of a *)
(* service tenant, of the public one, of one that is not active.                    *)
Cookies == {"none", "stale", "guest", "account", "closed"}
Keys == {"none", "malformed", "unknown", "service", "public", "inactive"}

Requests ==
  [cookie : Cookies, key : Keys, unsafe : BOOLEAN, csrf : BOOLEAN, origin : BOOLEAN, verified : BOOLEAN]
Settings == [accounts : BOOLEAN, budget : BOOLEAN, open : BOOLEAN] \* open: the public tenant is active

Refused(why) == [kind |-> "refused", tenant |-> why]
Actor(kind, tenant) == [kind |-> kind, tenant |-> tenant]

Guest(settings) ==
  IF settings.open THEN Actor("guest", "public") ELSE Refused("sign in")

(* A key of the public tenant is a guest's, once there are accounts or budgets. *)
ByKey(shown, settings) ==
  CASE shown.key = "service" -> Actor("api_key", "service")
    [] shown.key = "public" ->
         IF ~settings.open THEN Refused("tenant inactive")
         ELSE Actor(IF settings.accounts \/ settings.budget THEN "guest" ELSE "api_key", "public")
    [] shown.key = "inactive" -> Refused("tenant inactive")
    [] OTHER -> Refused("invalid key")

(* load_session: no cookie is no session; one that is not good is an error. *)
Session(shown, settings) ==
  CASE shown.cookie = "none" -> "none"
    [] shown.cookie # "none" /\ (~settings.accounts \/ shown.cookie \in {"stale", "closed"}) -> "invalid"
    [] OTHER -> shown.cookie

(* check_csrf: the origin is the service's own, and the token the session's. *)
Forged(shown) == shown.unsafe /\ ~(shown.csrf /\ shown.origin)

Authenticate(shown, settings) ==
  LET session == Session(shown, settings)
  IN  CASE session = "invalid" -> Refused("session")
        [] session \in {"guest", "account"} /\ Forged(shown) -> Refused("csrf")
        [] session = "account" /\ ~Forged(shown) -> Actor("account", "personal")
        [] session = "guest" /\ ~Forged(shown) -> Guest(settings)
        [] session = "none" /\ shown.key = "none" ->
             IF settings.accounts THEN Guest(settings) ELSE Refused("missing key")
        [] OTHER -> ByKey(shown, settings)

(* require_write_access, with the collection that is written. *)
MayWrite(shown, settings, collection) ==
  LET actor == Authenticate(shown, settings)
  IN  /\ actor.kind \notin {"refused", "guest"}
      /\ ~(settings.accounts /\ actor.kind = "api_key" /\ shown.origin)
      /\ collection.tenant = actor.tenant /\ ~collection.readOnly /\ ~collection.public
      /\ actor.kind = "account" => shown.verified

-----------------------------------------------------------------------------
(* However cookies, keys and origins are combined, a write is by an account of its own   *)
(* browser, with a token and a verified address, or by a live key that no browser has      *)
(* sent where there are accounts; and it is into what the writer's own tenant holds: a     *)
(* cookie that has ended never leaves the request to the key beside it.                    *)
WritesAuthorised(shown, settings) ==
  \A collection \in [tenant : {"personal", "service", "public"}, readOnly : BOOLEAN, public : BOOLEAN] :
    MayWrite(shown, settings, collection) /\ shown.unsafe =>
      /\ ~collection.readOnly /\ ~collection.public
      /\ \/ collection.tenant = "personal" /\ shown.cookie = "account"
            /\ shown.csrf /\ shown.origin /\ shown.verified
         \/ collection.tenant = shown.key /\ shown.cookie = "none"
            /\ (settings.accounts => ~shown.origin /\ shown.key = "service")

(* Nobody is refused for want of accounts who reads as a guest, and a guest's session is  *)
(* never an account's or a key's.                                                          *)
GuestsStayGuests(shown, settings) ==
  LET actor == Authenticate(shown, settings)
  IN  /\ shown.cookie = "guest" => actor.kind \in {"guest", "refused"}
      /\ actor.kind = "account" => shown.cookie = "account" /\ settings.accounts
      /\ actor.kind = "api_key" => shown.cookie = "none"

-----------------------------------------------------------------------------
Asking == asked \in [shown : Requests, settings : Settings] /\ [][FALSE]_asked

(* Whatever a request presents, who it is taken for may do no more than it should. *)
RequestsHold ==
  WritesAuthorised(asked.shown, asked.settings) /\ GuestsStayGuests(asked.shown, asked.settings)

(* A write is authorised, however cookies, keys and origins are combined (api/deps.py).  *)
(* In any time the requests that pass are bounded, and a day's stay within their number,  *)
(* whatever clock a request brings (core/rate_limit.py); no more attempts are tried in a   *)
(* window than an address or an email has, refusals count too, and no two wait for each     *)
(* other (accounts/limits.py).                                                              *)
LimitsHold ==
  /\ R!WithinRate /\ R!DailyQuota
  /\ T!TriedWithinLimit /\ T!RefusalsCount /\ T!Unblocked
  /\ RequestsHold
=============================================================================
