-------------------------------- MODULE Limits --------------------------------
(***************************************************************************)
(* What the two kinds of limits of the platform must keep true however     *)
(* many use them at once: the guards of a plan, which look before the work *)
(* is done that counts (PlanGuard: apps/worker/src/lib/plan-guard.ts), and *)
(* the limiter, which counts before it lets go on (RateLimiter:            *)
(* apps/web/src/lib/rate-limit.ts).                                        *)
(***************************************************************************)
EXTENDS Integers, FiniteSets

CONSTANTS
  Work,     \* generations and panel requests under way at once
  MaxHits,  \* MaxHits[k]: RATE_LIMITS[...].max of counter k
  Window    \* windowMs

VARIABLES
  used,     \* used[k]: what a workspace uses of kind k
  peak,     \* history: peak[k], the most a guard may have allowed of k (of posts, this month)
  granted,  \* history: the times of the hits of a counter that were let through
  try       \* try[a]: the reservation attempt a is executing

\* The guards are not atomic with the use: a plan is exceeded, but by no more
\* than the works under way at once, less the last of them, whatever happens to
\* the plan, the keys and the month between the two.
UseBounded ==
  \A k \in DOMAIN used : used[k] <= peak[k] + Cardinality(Work) - 1

\* Whatever the order in which parallel attempts reach the row, no more than
\* two limits of hits go through in less than a window (one window ends, the
\* next begins): of any more than that the last comes a window after the first.
BurstBounded ==
  \A k \in DOMAIN granted : \A i, j \in DOMAIN granted[k] :
    j = i + 2 * MaxHits[k] => granted[k][j] >= granted[k][i] + Window

\* Only hits that went through less than a window ago keep a user out: a
\* refusal neither counts nor prolongs the wait.
RefusedForCause == \A a \in DOMAIN try : try[a].cause

\* Guards that count before the work and add after it, a limiter that adds
\* first: concurrency exceeds neither by more than what is under way at once,
\* and the limiter refuses nobody it should let in.
LimitsHold == UseBounded /\ BurstBounded /\ RefusedForCause
=============================================================================
