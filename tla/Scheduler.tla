------------------------------ MODULE Scheduler ------------------------------
(***************************************************************************)
(* Jobs and autopilots run by a date: next_run_at of content_jobs and of   *)
(* autopilot_configs. scheduler-tick.ts moves the date of what is due,     *)
(* opens a run and sends its message; the panel (actions/jobs.ts,          *)
(* actions/autopilot.ts) creates, updates, pauses and resumes.             *)
(***************************************************************************)
EXTENDS Schedule, FiniteSets

CONSTANTS
  Job, Autopilot,   \* the rows of the two tables
  NoEntry,
  Form,             \* requests of the panel that may be under way at once
  Limit,            \* how many a tick takes of each table, one or more
  MaxDue,           \* bound: how often a date may pass, or a past one come back
  MaxFaults         \* bound: how many ticks break off

Entry == Job \cup Autopilot

VARIABLES
  form,      \* requests of the panel between their select and their update
  dues, faults   \* bounded

vars == <<enabled, next, tick, open, sent, lost, crossed, form, dues, faults>>

Resting == [pc |-> "rest", todo |-> {}, at |-> NoEntry, step |-> "none"]
NoForm == [of |-> NoEntry, kind |-> "none", on |-> FALSE, next |-> "future"]

Init ==
  /\ enabled = [e \in Entry |-> FALSE] /\ next = [e \in Entry |-> "none"]
  /\ tick = Resting
  /\ open = [e \in Entry |-> 0] /\ sent = open /\ lost = open
  /\ crossed = {} /\ form = [q \in Form |-> NoForm] /\ dues = 0 /\ faults = 0

\* The date of an entry passes. Nobody looks at it while the entry is paused.
DatePasses(e) ==
  /\ next[e] = "future" /\ dues < MaxDue
  /\ next' = [next EXCEPT ![e] = IF enabled[e] THEN "due" ELSE "missed"]
  /\ dues' = dues + 1
  /\ UNCHANGED <<enabled, tick, open, sent, lost, crossed, form, faults>>

-----------------------------------------------------------------------------
(* handleSchedulerTick: first the jobs, then the autopilots                *)

Due(table) == {e \in table : enabled[e] /\ next[e] \in {"due", "missed"}}

\* The select has a limit and no order.
Select(from, table, to) ==
  /\ tick.pc = from /\ tick.todo = {} /\ tick.at = NoEntry
  /\ \E D \in SUBSET Due(table) :
       /\ Cardinality(D) = IF Cardinality(Due(table)) < Limit THEN Cardinality(Due(table)) ELSE Limit
       /\ tick' = [Resting EXCEPT !.pc = to, !.todo = D]
  /\ UNCHANGED <<enabled, next, open, sent, lost, crossed, form, dues, faults>>

\* Mutant: a tick with no job to start returns at once.
SelectJobsOrReturn == Due(Job) # {} /\ Select("rest", Job, "jobs")

SelectJobs == Select("rest", Job, "jobs")
SelectAutopilots == Select("jobs", Autopilot, "autopilots")

\* Whatever the panel has done to the entry since the select.
MoveDate(e) ==
  /\ tick.at = NoEntry /\ e \in tick.todo
  /\ next' = [next EXCEPT ![e] = "future"] /\ crossed' = crossed \ {e}
  /\ tick' = [tick EXCEPT !.todo = @ \ {e}, !.at = e, !.step = "insert"]
  /\ UNCHANGED <<enabled, open, sent, lost, form, dues, faults>>

InsertRun ==
  /\ tick.step = "insert"
  /\ open' = [open EXCEPT ![tick.at] = @ + 1]
  /\ tick' = [tick EXCEPT !.step = "send"]
  /\ UNCHANGED <<enabled, next, sent, lost, crossed, form, dues, faults>>

Leave == tick' = [tick EXCEPT !.at = NoEntry, !.step = "none"]

\* The singletonKey may refuse a second message of the entry.
SendRun ==
  /\ tick.step = "send"
  /\ \/ sent' = [sent EXCEPT ![tick.at] = @ + 1] /\ Leave
     \/ sent[tick.at] > 0 /\ tick' = [tick EXCEPT !.step = "cancel"] /\ UNCHANGED sent
  /\ UNCHANGED <<enabled, next, open, lost, crossed, form, dues, faults>>

CancelRefused ==
  /\ tick.step = "cancel"
  /\ open' = [open EXCEPT ![tick.at] = @ - 1]
  /\ Leave
  /\ UNCHANGED <<enabled, next, sent, lost, crossed, form, dues, faults>>

Rest ==
  /\ tick.pc = "autopilots" /\ tick.todo = {} /\ tick.at = NoEntry
  /\ tick' = Resting
  /\ UNCHANGED <<enabled, next, open, sent, lost, crossed, form, dues, faults>>

\* A statement fails, or the worker dies: the rest of the tick is not done.
TickFails ==
  /\ tick.pc # "rest" /\ faults < MaxFaults
  /\ faults' = faults + 1
  /\ lost' = [e \in Entry |-> lost[e] + IF Unsettled(e) THEN 1 ELSE 0]
  /\ tick' = Resting
  /\ UNCHANGED <<enabled, next, open, sent, crossed, form, dues>>

\* The worker closes the run of an entry.
RunEnds(e) ==
  /\ sent[e] > 0
  /\ sent' = [sent EXCEPT ![e] = @ - 1] /\ open' = [open EXCEPT ![e] = @ - 1]
  /\ UNCHANGED <<enabled, next, tick, lost, crossed, form, dues, faults>>

Tick ==
  \/ SelectJobs \/ SelectAutopilots \/ InsertRun \/ SendRun \/ CancelRefused \/ Rest
  \/ \E e \in Entry : MoveDate(e)

-----------------------------------------------------------------------------
(* The panel                                                               *)

\* createJobAction, createAutopilotAction
Create(e) ==
  /\ next[e] = "none"
  /\ enabled' = [enabled EXCEPT ![e] = TRUE]
  /\ next' = [next EXCEPT ![e] = "future"]
  /\ UNCHANGED <<tick, open, sent, lost, crossed, form, dues, faults>>

\* The select of updateJobAction and of toggleJobAction.
AskChange(q, e) ==
  /\ form[q].of = NoEntry /\ next[e] # "none"
  /\ \E k \in {"update", "pause", "resume"} :
       form' = [form EXCEPT ![q] = [of |-> e, kind |-> k, on |-> enabled[e], next |-> next[e]]]
  /\ UNCHANGED <<enabled, next, tick, open, sent, lost, crossed, dues, faults>>

\* The date a request holds passes, be it still the entry's or not.
CopyPasses(q) ==
  /\ form[q].of # NoEntry /\ form[q].next = "future"
  /\ form' = [form EXCEPT ![q].next = IF enabled[form[q].of] THEN "due" ELSE "missed"]
  /\ UNCHANGED <<enabled, next, tick, open, sent, lost, crossed, dues, faults>>

\* Mutant: resuming keeps the date.
ComputedNever(f) == f.kind = "update" /\ f.on

\* The date is computed again when the entry is active, or becomes so.
Computed(f) == f.kind = "resume" \/ (f.kind = "update" /\ f.on)

\* Or written back as it was read. What a pause finds due is missed now.
Written(f) == IF Computed(f) THEN "future"
              ELSE IF f.kind = "pause" /\ f.next = "due" THEN "missed" ELSE f.next

\* An update that had read the entry paused gives an active one a past date.
Crosses(f) == f.kind = "update" /\ ~ f.on /\ enabled[f.of] /\ f.next \in {"due", "missed"}

Change(q) ==
  LET f == form[q]
      e == f.of
  IN  /\ e # NoEntry
      /\ enabled' = [enabled EXCEPT ![e] = IF f.kind = "update" THEN @ ELSE f.kind = "resume"]
      /\ next' = [next EXCEPT ![e] = Written(f)]
      /\ form' = [form EXCEPT ![q] = NoForm]
      /\ IF Crosses(f)
         THEN dues < MaxDue /\ dues' = dues + 1 /\ crossed' = crossed \cup {e}
         ELSE UNCHANGED dues /\ crossed' = crossed \ {e}
      /\ UNCHANGED <<tick, open, sent, lost, faults>>

-----------------------------------------------------------------------------
Next ==
  \/ Tick \/ TickFails
  \/ \E e \in Entry : DatePasses(e) \/ RunEnds(e) \/ Create(e)
  \/ \E q \in Form : Change(q) \/ CopyPasses(q) \/ \E e \in Entry : AskChange(q, e)

Spec == Init /\ [][Next]_vars
FairSpec == Spec /\ WF_vars(Tick)

TypeOK ==
  /\ enabled \in [Entry -> BOOLEAN]
  /\ next \in [Entry -> {"none", "future", "due", "missed"}]
  /\ tick.pc \in {"rest", "jobs", "autopilots"} /\ tick.todo \subseteq Entry
  /\ tick.step \in {"none", "insert", "send", "cancel"}
  /\ open \in [Entry -> 0 .. MaxDue] /\ sent \in [Entry -> 0 .. MaxDue]

\* What is due is started, or skipped because its last run is not over.
DueIsServed ==
  \A e \in Entry : enabled[e] /\ next[e] = "due" ~> next[e] # "due" \/ ~ enabled[e]
=============================================================================
