----------------------------- MODULE RateLimit -----------------------------
(* core/rate_limit.py: one bucket of tokens and the daily counters of one    *)
(* visitor in Redis, and the requests that pass both gates.  A request reads *)
(* its process's clock before Redis runs the script, so readings may reach   *)
(* the bucket late and out of order.  Tokens are counted in parts, Cost of   *)
(* them a request, so that a tick refills a whole number.                    *)
EXTENDS Integers, FiniteSets

CONSTANTS
  Request,   \* requests of this visitor
  Null,
  Cost,      \* one token, in parts
  Rate,      \* parts refilled in a tick; a full bucket holds Rate * Expiry
  Expiry,    \* ticks: PEXPIRE 60000, the time in which an empty bucket is full again
  MaxDelay,  \* ticks between reading the clock and the script, at most
  DayTicks,  \* ticks of a day
  DayLimit,  \* rate_limit_query_per_day
  MaxTime    \* bound: when the clock stops

VARIABLES
  now,
  bucket,    \* the hash in Redis: tokens, time of their count, and when Redis drops it
  used,      \* the daily counters
  request,   \* where each request is, and what it read
  ideal      \* history: what a bucket would hold that bounds what this one lets through

vars == <<now, bucket, used, request, ideal>>

Capacity == Rate * Expiry
Slack == Rate * MaxDelay
Day == {t \div DayTicks : t \in 0 .. MaxTime}
Phase == {"new", "consuming", "consumed", "counting", "passed", "denied", "open"}
Bucket == [tokens : Int, ts : Nat, expires : Nat]

(* The bounding bucket holds, besides, what late readings can hide, and is full again as *)
(* soon as an empty one can have expired; counted in Expiry-ths of a part.               *)
Full == (Capacity + Slack) * Expiry

Settings ==
  /\ IsFiniteSet(Request) /\ Null \notin Bucket
  /\ {Cost, Rate, Expiry, DayTicks} \subseteq Nat \ {0} /\ {MaxDelay, DayLimit, MaxTime} \subseteq Nat

Init ==
  /\ now = 0
  /\ bucket = Null
  /\ used = [d \in Day |-> 0]
  /\ request = [r \in Request |-> [at |-> "new", read |-> 0]]
  /\ ideal = Full

-----------------------------------------------------------------------------
Least(m, n) == IF m < n THEN m ELSE n

At(r, at) == request[r].at = at
Goto(r, from, to, read) ==
  At(r, from) /\ request' = [request EXCEPT ![r] = [at |-> to, read |-> read]]

(* consume: now_ms. *)
ReadClock(r) ==
  /\ Goto(r, "new", "consuming", now)
  /\ UNCHANGED <<now, bucket, used, ideal>>

LiveBucket == bucket # Null /\ bucket.expires > now

(* A reading older than the bucket's takes away what was refilled since. *)
Refilled(reading) ==
  IF LiveBucket THEN Least(Capacity, bucket.tokens + (reading - bucket.ts) * Rate) ELSE Capacity

(* The script of _TOKEN_BUCKET_LUA, which Redis runs alone. *)
Script(r) ==
  LET tokens == Refilled(request[r].read)
      enough == tokens >= Cost
  IN  /\ Goto(r, "consuming", IF enough THEN "consumed" ELSE "denied", 0)
      /\ bucket' = [tokens |-> IF enough THEN tokens - Cost ELSE tokens,
                    ts |-> request[r].read, expires |-> now + Expiry]
      /\ ideal' = IF enough THEN ideal - Cost * Expiry ELSE ideal
      /\ UNCHANGED <<now, used>>

(* consume_daily: the counter of the day it reads. *)
ReadDay(r) ==
  /\ Goto(r, "consumed", "counting", now \div DayTicks)
  /\ UNCHANGED <<now, bucket, used, ideal>>

Passes(n) == n <= DayLimit

(* INCR; a key that gets no EXPIRE is not read again after its day. *)
Increment(r) ==
  LET n == used[request[r].read] + 1 IN
    /\ Goto(r, "counting", IF Passes(n) THEN "passed" ELSE "denied", request[r].read)
    /\ used' = [used EXCEPT ![request[r].read] = n]
    /\ UNCHANGED <<now, bucket, ideal>>

(* Redis is unavailable, or answers after it has run the command: the request passes. *)
FailOpen(r) ==
  /\ request[r].at \in {"consuming", "counting"}
  /\ request' = [request EXCEPT ![r] = [at |-> "open", read |-> 0]]
  /\ UNCHANGED <<now, bucket, used, ideal>>

Tick ==
  /\ now < MaxTime
  /\ \A r \in Request : At(r, "consuming") => now - request[r].read < MaxDelay
  /\ now' = now + 1
  /\ ideal' = Least(Full, ideal + Capacity + Slack)
  /\ UNCHANGED <<bucket, used, request>>

Next ==
  \/ \E r \in Request : ReadClock(r) \/ Script(r) \/ ReadDay(r) \/ Increment(r) \/ FailOpen(r)
  \/ Tick

Spec == Init /\ [][Next]_vars

-----------------------------------------------------------------------------
(* In every window of time the bucket lets through what it holds when full and what late *)
(* readings can hide, and as much again for every Expiry ticks of it, however the readings *)
(* are ordered and whenever Redis drops the bucket (the script of rate_limit.py).           *)
WithinRate == ideal >= 0

PassedOn(d) == {r \in Request : At(r, "passed") /\ request[r].read = d}

(* Of the requests counted on a day, however many are counted at once and around     *)
(* midnight, no more than the quota pass (consume_daily).                            *)
DailyQuota == \A d \in Day : Cardinality(PassedOn(d)) <= DayLimit

-----------------------------------------------------------------------------
(* What the properties rest on, inductively.                                   *)

TypeOK ==
  /\ now \in 0 .. MaxTime /\ ideal \in Int
  /\ bucket \in Bucket \cup {Null}
  /\ used \in [Day -> Nat]
  /\ request \in [Request -> [at : Phase, read : Nat]]

(* A reading is no older than the delay, and a day that was read is one. *)
ReadingRecent(r) ==
  /\ At(r, "consuming") => request[r].read <= now /\ now - request[r].read <= MaxDelay
  /\ At(r, "counting") \/ At(r, "passed") => request[r].read \in Day

(* What the bucket would hold if it were read now, without its bound. *)
Held == bucket.tokens + (now - bucket.ts) * Rate

(* The bounding bucket holds as much as this one does or would, up to its own bound, and *)
(* what is left until it is full comes in before the other is dropped.                    *)
Bounded ==
  IF bucket = Null THEN ideal = Full
  ELSE /\ bucket.ts <= now
       /\ LiveBucket => IF Held < Capacity + Slack THEN Held * Expiry <= ideal ELSE ideal = Full
       /\ IF LiveBucket THEN ideal + (bucket.expires - now) * (Capacity + Slack) >= Full ELSE ideal = Full

(* Each that has passed is in the day's counter. *)
PassedCounted == \A d \in Day : Cardinality(PassedOn(d)) <= used[d]

IInv ==
  /\ TypeOK /\ WithinRate /\ ideal <= Full /\ Bounded /\ DailyQuota /\ PassedCounted
  /\ \A r \in Request : ReadingRecent(r)

=============================================================================
