------------------------------ MODULE RunLedger ------------------------------
(***************************************************************************)
(* What an update run promises to the person who reads the Runs page: a    *)
(* run is opened once, the posts it will visit are fixed once, every post  *)
(* gets at most one outcome, and a run that reports a result reports it    *)
(* about all of its posts.  How the handlers, the queue and the database   *)
(* get there is UpdateRun.                                                 *)
(***************************************************************************)
CONSTANTS
  Run,    \* identities of runs
  Post,   \* posts of the site
  Bad,    \* outcomes that count as failures
  Good    \* outcomes that count as successes

VARIABLES
  status,   \* what the Runs page shows
  planned,  \* runs whose posts are fixed
  plan,     \* those posts
  outcome   \* what happened to each of them

ledger == <<status, planned, plan, outcome>>

Pending == "none"

Result(r) ==
  LET got == {outcome[r][p] : p \in plan[r]} IN
    IF got \cap Bad = {} THEN "success"
    ELSE IF got \cap Good = {} THEN "failed" ELSE "partial"

Init ==
  /\ status = [r \in Run |-> "none"]
  /\ planned = {}
  /\ plan = [r \in Run |-> {}]
  /\ outcome = [r \in Run |-> [p \in Post |-> Pending]]

Open(r) ==
  /\ status[r] = "none"
  /\ status' = [status EXCEPT ![r] = "running"]
  /\ \/ UNCHANGED <<planned, plan>>
     \/ \E p \in Post : /\ planned' = planned \cup {r}
                        /\ plan' = [plan EXCEPT ![r] = {p}]
  /\ UNCHANGED outcome

Plan(r, L) ==
  /\ status[r] # "none"
  /\ r \notin planned
  /\ planned' = planned \cup {r}
  /\ plan' = [plan EXCEPT ![r] = L]
  /\ UNCHANGED <<status, outcome>>

\* A post already being processed when its run is stopped still reports.
Report(r, p, o) ==
  /\ r \in planned /\ p \in plan[r]
  /\ outcome[r][p] = Pending
  /\ o # Pending
  /\ outcome' = [outcome EXCEPT ![r][p] = o]
  /\ UNCHANGED <<status, planned, plan>>

Close(r) ==
  /\ status[r] = "running"
  /\ r \in planned
  /\ \A p \in plan[r] : outcome[r][p] # Pending
  /\ status' = [status EXCEPT ![r] = Result(r)]
  /\ UNCHANGED <<planned, plan, outcome>>

Stop(r) ==
  /\ status[r] = "running"
  /\ status' = [status EXCEPT ![r] = "cancelled"]
  /\ UNCHANGED <<planned, plan, outcome>>

\* The run ends before any post reported: not started, not listed, or empty.
Abandon(r, s) ==
  /\ status[r] # "none"
  /\ \A p \in Post : outcome[r][p] = Pending
  /\ s = "success" => r \in planned /\ plan[r] = {}
  /\ status' = [status EXCEPT ![r] = s]
  /\ UNCHANGED <<planned, plan, outcome>>

Next ==
  \E r \in Run :
    \/ Open(r)
    \/ \E L \in SUBSET Post : Plan(r, L)
    \/ \E p \in Post, o \in Bad \cup Good \cup {"budget_exceeded"} :
         Report(r, p, o)
    \/ Close(r)
    \/ Stop(r)
    \/ \E s \in {"success", "failed", "cancelled"} : Abandon(r, s)

Spec == Init /\ [][Next]_ledger
=============================================================================
