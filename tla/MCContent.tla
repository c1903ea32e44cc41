------------------------------ MODULE MCContent ------------------------------
(***************************************************************************)
(* What has to go on by itself, each component on instances of its own:    *)
(* the discoveries of one autopilot, the scheduler, the pages of a browser *)
(* whose session may end. A behaviour is one of one of them, the others    *)
(* stay where they start.                                                  *)
(***************************************************************************)
EXTENDS Autopilot, Credentials, Schedule

CONSTANTS t1, t2, d1, d2, x1, x2, j1, j2, p1, f1, f2, r1

VARIABLES
  part,                  \* the instance that runs
  form, dues, cFaults,   \* Scheduler
  aClock, aReq           \* Accounts

C == INSTANCE Scheduler WITH
       Job <- {j1, j2}, Autopilot <- {p1}, NoEntry <- None,
       Form <- {f1, f2}, Limit <- 1, MaxDue <- 2,
       MaxFaults <- 1, faults <- cFaults

A == INSTANCE Accounts WITH
       Request <- {r1}, MaxTokens <- 1, MaxClock <- 4,
       Env <- {"reset", "moderate", "logout"}, clock <- aClock, req <- aReq

scheduler == <<enabled, next, tick, open, sent, lost, crossed, form, dues, cFaults>>
browser == <<user, tokens, cookie, page, aClock, aReq>>
all == <<vars, part, scheduler, browser>>

\* Several discoveries one after the other, one whose handlers overrun, and
\* the panel beside one that finds a single topic; entries of both tables,
\* and requests about a single entry.
ofAutopilot == {"discoveries", "overruns", "panel"}
ofScheduler == {"tables", "requests"}

MCInit ==
  /\ Init /\ C!Init /\ A!Init
  /\ part \in ofAutopilot \cup ofScheduler \cup {"browser"}
  /\ part # "panel" => ~ config.auto
  /\ part # "browser" => user.status = "active"

-----------------------------------------------------------------------------
(* What each instance leaves out                                           *)

\* Equal handlers, runs and topics are taken in order.
InOrder ==
  /\ loop' = x2 /\ loop # x2 => at[x1] # Idle
  /\ run'[d2] # "none" => run'[d1] # "none"
  /\ (\E x \in Exec : t2 \in at'[x].keep \ at[x].keep) => t1 \notin Fresh'

InTime == \A x \in Exec : at'[x] # Idle => x = loop'

Narrow ==
  /\ part \in {"discoveries", "panel"} => InTime
  /\ part \in {"discoveries", "overruns"} => click' = click
  /\ part \in {"overruns", "panel"} => run'[d2] = "none"
  /\ part = "overruns" => asked' <= 1
  /\ part = "panel" => \A x \in Exec : t2 \notin at'[x].keep
  /\ part = "tables" => /\ form'[f2] = C!NoForm /\ form'[f1].of \in {None, j1}
                        /\ form'[f1].next = form[f1].next \/ form'[f1].of # form[f1].of
  /\ part = "requests" => \A e \in {j1, j2} : next'[e] = "none"

Autopilot(step) ==
  part \in ofAutopilot /\ step /\ InOrder /\ Narrow /\ UNCHANGED <<part, scheduler, browser>>
Scheduler(step) ==
  part \in ofScheduler /\ step /\ Narrow /\ UNCHANGED <<part, vars, browser>>
Pages(step) == part = "browser" /\ step /\ UNCHANGED <<part, vars, scheduler>>

MCNext == Autopilot(Next) \/ Scheduler(C!Next) \/ Pages(A!Next)

\* The tick, the worker loop and the server go on: the fairness of each.
Served == Autopilot(Loop) \/ Scheduler(C!Tick) \/ (\E b \in Browser : Pages(A!Serve(b)))

MCSpec == MCInit /\ [][MCNext]_all /\ WF_all(Served)

-----------------------------------------------------------------------------
(* The properties of the components, which their modules state and explain *)

\* What is due is started in the end.
DueIsServed == C!DueIsServed
=============================================================================
