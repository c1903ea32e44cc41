------------------------------- MODULE Schedule -------------------------------
(***************************************************************************)
(* What the scheduler promises of the dates it serves and of the runs it   *)
(* opens.                                                                  *)
(***************************************************************************)
EXTENDS Naturals

VARIABLES
  enabled,   \* enabled; entries not created yet are disabled
  next,      \* next_run_at: future, or the past: due, or missed while paused
  tick,      \* the table, what it read of it, the entry it is at, and the step
  open,      \* how many runs of an entry are running
  sent,      \* how many messages of an entry wait or are active
  lost,      \* history: how many ticks broke off with an unsent run of an entry
  crossed    \* history: entries an update that had read them paused gave back,
             \* after they were resumed, the date they had missed

\* The tick has opened a run of the entry and not yet settled it.
Unsettled(e) == tick.at = e /\ tick.step \in {"send", "cancel"}

\* "avoids running after past times" (jobs.ts 168): what came due while an
\* entry was paused is not made up for when it is resumed, whatever the tick
\* and other requests of the panel do to the entry between a select and its
\* update - but for one case, an update that read the entry paused, overlaps
\* its resumption, and writes the old date last.
NoCatchUp == \A e \in DOMAIN enabled : enabled[e] /\ next[e] = "missed" => e \in crossed

\* An open run is what forbids to delete its job: each has a message that
\* will close it, or the tick is about to send or to cancel it, or broke off
\* before it did.
OpenRunsAreCarried ==
  \A e \in DOMAIN open : open[e] = sent[e] + lost[e] + IF Unsettled(e) THEN 1 ELSE 0

\* The tick leaves neither a date of the past to be made up for nor an open
\* run that nobody will close.
NothingIsLeftOver == NoCatchUp /\ OpenRunsAreCarried
=============================================================================
