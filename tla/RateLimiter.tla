------------------------------ MODULE RateLimiter ------------------------------
(***************************************************************************)
(* The limiter of the panel (apps/web/src/lib/rate-limit.ts), shared by    *)
(* all its processes through the table rate_limits.  An attempt to log in  *)
(* reserves a hit of its address, then one of its e-mail; each reservation *)
(* is two statements, each with a now() of its own: the expired rows are   *)
(* pruned, and one conditional upsert counts the hit or refuses it.  A     *)
(* statement takes its now() before it waits for the row, so two           *)
(* reservations may apply in the other order.                              *)
(***************************************************************************)
EXTENDS Integers, Sequences

CONSTANTS
  Attempt,   \* attempts under way at once
  Bucket,    \* the counters an attempt needs, in order: <<"ip", "email">>
  MaxHits,   \* MaxHits[k]: RATE_LIMITS[...].max of counter k
  Window,    \* windowMs
  MaxTime    \* bound on the clock

VARIABLES
  time,      \* the clock of the database
  row,       \* row[k]: the row of counter k
  try,       \* try[a]: the reservation attempt a is executing
  granted    \* granted[k]: the times of the hits of k that were let through (history)

vars == <<time, row, try, granted>>

BucketName == DOMAIN Bucket
\* Every statement treats a counter without a row like one that has expired.
NoRow == [hits |-> 0, expires |-> 0]
Idle == [pc |-> "idle", key |-> 0, now |-> 0, cause |-> TRUE]

Init ==
  /\ time = 0
  /\ row = [k \in BucketName |-> NoRow]
  /\ try = [a \in Attempt |-> Idle]
  /\ granted = [k \in BucketName |-> <<>>]

\* A statement waits for the row less than a window: at most one tick.
Tick ==
  /\ time < MaxTime /\ \A a \in Attempt : try[a].pc = "upsert" => try[a].now = time
  /\ time' = time + 1
  /\ UNCHANGED <<row, try, granted>>

\* checkLoginRateLimit: the first counter.
Start(a) ==
  /\ try[a].pc = "idle"
  /\ try' = [try EXCEPT ![a] = [Idle EXCEPT !.pc = "prune", !.key = 1]]
  /\ UNCHANGED <<time, row, granted>>

\* delete from rate_limits where expires_at < now(): at most a hundred rows, so
\* some of the expired ones.
Prune(a) ==
  /\ try[a].pc = "prune"
  /\ \E gone \in SUBSET {k \in BucketName : row[k].expires < time} :
       row' = [k \in BucketName |-> IF k \in gone THEN NoRow ELSE row[k]]
  /\ try' = [try EXCEPT ![a].pc = "take"]
  /\ UNCHANGED <<time, granted>>

TakeNow(a) ==
  /\ try[a].pc = "take"
  /\ try' = [try EXCEPT ![a].pc = "upsert", ![a].now = time]
  /\ UNCHANGED <<time, row, granted>>

Over(k, now) == row[k].expires <= now

\* Mutant: a window that a hit prolongs.
HitProlongs(k, now) ==
  IF Over(k, now) THEN [hits |-> 1, expires |-> now + Window]
  ELSE [hits |-> row[k].hits + 1, expires |-> now + Window]

\* on conflict do update set
Hit(k, now) ==
  IF Over(k, now) THEN [hits |-> 1, expires |-> now + Window]
  ELSE [row[k] EXCEPT !.hits = @ + 1]

MayHit(k, now) == Over(k, now) \/ row[k].hits < MaxHits[k]

\* A limit of hits of k was let through less than a window before t.
Recent(k, t) ==
  LET n == Len(granted[k]) - MaxHits[k] + 1 IN n > 0 /\ granted[k][n] > t - Window

\* The conditional upsert lets the hit through ...
Grant(a) ==
  LET k == try[a].key now == try[a].now IN
  /\ try[a].pc = "upsert" /\ MayHit(k, now)
  /\ row' = [row EXCEPT ![k] = Hit(k, now)]
  /\ granted' = [granted EXCEPT ![k] = Append(@, time)]
  /\ try' = [try EXCEPT ![a] =
       IF k + 1 \in BucketName THEN [@ EXCEPT !.pc = "prune", !.key = k + 1] ELSE Idle]
  /\ UNCHANGED time

\* ... or touches no row: the attempt is refused, and keeps what it reserved.
Refuse(a) ==
  LET k == try[a].key IN
  /\ try[a].pc = "upsert" /\ ~ MayHit(k, try[a].now)
  /\ try' = [try EXCEPT ![a] = [Idle EXCEPT !.cause = Recent(k, try[a].now)]]
  /\ UNCHANGED <<time, row, granted>>

Next ==
  \/ Tick
  \/ \E a \in Attempt : Start(a) \/ Prune(a) \/ TakeNow(a) \/ Grant(a) \/ Refuse(a)

Spec == Init /\ [][Next]_vars

-----------------------------------------------------------------------------

TypeOK ==
  /\ time \in 0 .. MaxTime
  /\ \A k \in BucketName : row[k].hits \in 0 .. MaxHits[k] /\ row[k].expires \in 0 .. MaxTime + Window
  /\ \A a \in Attempt : try[a].pc \in {"idle", "prune", "take", "upsert"}
=============================================================================
