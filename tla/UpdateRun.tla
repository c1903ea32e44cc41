------------------------------ MODULE UpdateRun ------------------------------
(***************************************************************************)
(* An update run, from the insert of its `runs` row to the row that closes *)
(* it: the panel or the scheduler opens the run and sends a job.run        *)
(* message; job.run lists the posts of the site and sends one post.process *)
(* message per post; every post.process reads the post, runs the pipeline, *)
(* publishes to WordPress, records a run item and tries to close the run.  *)
(* Messages live in pg-boss (an external queue: at-least-once, retries).   *)
(*                                                                         *)
(* An action is the code of a handler between two points where another     *)
(* process can observe or change shared state: one database statement or   *)
(* one WordPress call, with the local work around it.                      *)
(***************************************************************************)
EXTENDS Integers, FiniteSets

CONSTANTS
  Job,          \* content jobs (content_jobs rows)
  Run,          \* identities of the runs that may be opened (bounds the model)
  Post,         \* posts of the WordPress site
  NoPost,       \* the post of a job.run message
  NoJob,        \* the job of a run that was not opened
  Original,     \* what a post holds before any run writes it
  NoContent,    \* no backup
  JobRunTries,  \* deliveries of a job.run message (retryLimit + 1)
  PostTries,    \* deliveries of a post.process message (retryLimit + 1)
  BatchSize,    \* WORKER_CONCURRENCY
  MaxFaults,    \* bound on worker crashes and failed statements
  Outcome,      \* pipeline outcomes explored
  Env           \* what the environment may do besides the normal course

Event == {"crash", "overrun", "db", "drift", "dup", "suspend", "delete",
          "cancel", "retry", "restore"}
PipelineStatus == {"ready", "no_change", "skipped", "validation_failed",
                   "llm_failed", "budget_exceeded", "thrown"}

ASSUME TriesAreCounts == JobRunTries \in Nat \ {0} /\ PostTries \in Nat \ {0}
ASSUME PostsAreFinite == IsFiniteSet(Post)
ASSUME BoundsAreCounts == BatchSize \in Nat \ {0} /\ MaxFaults \in Nat
ASSUME NullsAreDistinct == /\ NoPost \notin Post /\ NoJob \notin Job
                           /\ Original \notin Run
                           /\ NoContent \notin Run \cup {Original}
ASSUME ChoicesAreKnown == Outcome \subseteq PipelineStatus /\ Env \subseteq Event

VARIABLES
  run,        \* the runs table; `listed` and `by` are history: which posts
              \* expected_items counts, and who closed the run
  items,      \* the run_items table
  queue,      \* pg-boss: state of each message and how often it was delivered
  held,       \* messages a worker loop holds
  pc,         \* next step of each execution of a handler
  mem,        \* its locals
  wp,         \* which run wrote what each post holds now
  wrote,      \* history: <<run, post>> pairs written to WordPress
  hash,       \* post_source_state: the posts of a job whose sources are known
  processed,  \* history: <<job, post>> pairs published or found up to date
  live,       \* content jobs not deleted
  wsActive,   \* workspace status = 'active'
  opener,     \* requests that inserted a run and have not sent its message
  stopping,   \* cancelRunAction between its update and the queue
  deleting,   \* deleteJobAction between its check and the delete
  faults      \* faults so far

qVars == <<queue, held>>
xVars == <<pc, mem>>
dbVars == <<run, items, hash>>
wpVars == <<wp, wrote, processed>>
userVars == <<live, wsActive, opener, stopping, deleting>>
vars == <<run, items, queue, held, pc, mem, wp, wrote, hash, processed,
          live, wsActive, opener, stopping, deleting, faults>>

-----------------------------------------------------------------------------
(* Messages, executions and items.                                         *)

Attempt == 1..(IF JobRunTries > PostTries THEN JobRunTries ELSE PostTries)

\* A message is named by its run, its post and the delivery of job.run that
\* sent it (1 for the message that opens the run).
Msg == Run \X (Post \cup {NoPost}) \X Attempt
RunOf(m) == m[1]
PostOf(m) == m[2]
IsJobRun(m) == PostOf(m) = NoPost
Tries(m) == IF IsJobRun(m) THEN JobRunTries ELSE PostTries
SameQueue(m, n) == IsJobRun(m) <=> IsJobRun(n)

\* An execution is one delivery of a message.
Exec == Msg \X Attempt
MsgOf(x) == x[1]
RunX(x) == RunOf(x[1])
PostX(x) == PostOf(x[1])
JobX(x) == run[RunX(x)].job

Busy(x) == pc[x] \notin {"off", "done"}
Owned(x) == MsgOf(x) \in held /\ queue[MsgOf(x)].tries = x[2]
SameKey(x, y) == RunX(x) = RunX(y) /\ PostX(x) = PostX(y)

Waiting == {"created", "retry"}
MsgState == Waiting \cup {"free", "active", "completed", "failed", "cancelled"}

ItemStatus == {"updated", "no_change", "skipped", "validation_failed",
               "llm_failed", "budget_exceeded", "wp_failed", "failed"}
Failures == {"llm_failed", "wp_failed", "failed", "validation_failed"}
Successes == {"updated", "no_change", "skipped"}
Retryable == Failures \cup {"budget_exceeded"}
RunClosed == {"success", "partial", "failed", "cancelled"}

ItemsOf(r, p) == {i \in items : i.run = r /\ i.post = p}
ItemsIn(r) == {i \in items : i.run = r}

\* maybeFinalizeRun: the status of a run whose items have these statuses.
Verdict(S) == IF S \cap Failures = {} THEN "success"
              ELSE IF S \cap Successes = {} THEN "failed" ELSE "partial"
VerdictOf(r) == Verdict({i.status : i \in ItemsIn(r)})

NotListed == -1   \* expected_items IS NULL
NoRun == [status |-> "none", job |-> NoJob, expected |-> NotListed,
              listed |-> {}, by |-> "nobody"]
Blank == [phase |-> "before", base |-> NoContent, known |-> FALSE,
          status |-> "none", want |-> NotListed, todo |-> {}]
Idle == [step |-> "none", post |-> NoPost]

Init ==
  /\ run = [r \in Run |-> NoRun]
  /\ items = {}
  /\ queue = [m \in Msg |-> [state |-> "free", tries |-> 0]]
  /\ held = {}
  /\ pc = [x \in Exec |-> "off"]
  /\ mem = [x \in Exec |-> Blank]
  /\ wp = [p \in Post |-> Original]
  /\ wrote = {}
  /\ hash = [j \in Job |-> {}]
  /\ processed = {}
  /\ live = Job
  /\ wsActive = TRUE
  /\ opener = [r \in Run |-> Idle]
  /\ stopping = {}
  /\ deleting = {}
  /\ faults = 0

-----------------------------------------------------------------------------
(* pg-boss, as the worker and the panel use it.                            *)

\* boss.send with a singletonKey returns null while a message with that key
\* waits or runs.  "dup": the queue accepts it all the same.
Key(m) == IF IsJobRun(m) THEN <<run[RunOf(m)].job, NoPost>>
          ELSE <<RunOf(m), PostOf(m)>>
Refused(m) ==
  /\ "dup" \notin Env
  /\ \E n \in Msg : /\ queue[n].state \in Waiting \cup {"active"}
                    /\ SameQueue(m, n) /\ Key(m) = Key(n)

Send(m) == queue' = [queue EXCEPT ![m].state = "created"]

Batch(m) == {n \in held : SameQueue(m, n)}

\* Mutant: a delivery that failed is not retried.
ReturnedNever(m) == [queue[m] EXCEPT !.state = "failed"]

\* A delivery that failed is retried while deliveries remain.
Returned(m) == [queue[m] EXCEPT !.state =
                  IF queue[m].tries < Tries(m) THEN "retry" ELSE "failed"]
FailBatch(m) ==
  /\ queue' = [n \in Msg |-> IF n \in Batch(m) THEN Returned(n) ELSE queue[n]]
  /\ held' = held \ Batch(m)

Entry(m) == IF IsJobRun(m) THEN "run" ELSE "item"

\* A worker loop takes its next batch: one job.run, up to BatchSize posts.
\* Without "overrun" a handler the queue has given up on ends before the
\* message is delivered again.
Fetch(S) ==
  /\ S # {}
  /\ \A m \in S : queue[m].state \in Waiting /\ queue[m].tries < Tries(m)
  /\ \/ \A m \in S : ~IsJobRun(m) /\ Cardinality(S) <= BatchSize
     \/ \E m \in S : IsJobRun(m) /\ S = {m}
  /\ \A m \in S : Batch(m) = {}
  /\ "overrun" \in Env \/ \A x \in Exec : Busy(x) =>
         ~\E m \in S : RunOf(m) = RunX(x) /\ PostOf(m) = PostX(x)
  /\ queue' = [m \in Msg |-> IF m \in S
                 THEN [state |-> "active", tries |-> queue[m].tries + 1]
                 ELSE queue[m]]
  /\ pc' = [x \in Exec |->
              IF MsgOf(x) \in S /\ x[2] = queue[MsgOf(x)].tries + 1
              THEN Entry(MsgOf(x)) ELSE pc[x]]
  /\ held' = held \cup S
  /\ UNCHANGED <<mem, dbVars, wpVars, userVars, faults>>

\* Every handler of the batch returned: pg-boss completes its messages.
Settle(m) ==
  /\ m \in held
  /\ \A n \in Batch(m) : pc[<<n, queue[n].tries>>] = "done"
  /\ queue' = [n \in Msg |-> IF n \in Batch(m)
                 THEN [queue[n] EXCEPT !.state = "completed"] ELSE queue[n]]
  /\ held' = held \ Batch(m)
  /\ UNCHANGED <<xVars, dbVars, wpVars, userVars, faults>>

\* The batch outlives expireInSeconds: its messages go back to the queue
\* while the handlers run on.
TimeOut(m) ==
  /\ "overrun" \in Env
  /\ m \in held
  /\ FailBatch(m)
  /\ UNCHANGED <<xVars, dbVars, wpVars, userVars, faults>>

\* The worker process dies: its handlers are gone, and so is a run opened by
\* the scheduler of that process whose message was not sent yet.
Crash ==
  /\ "crash" \in Env
  /\ faults < MaxFaults
  /\ faults' = faults + 1
  /\ pc' = [x \in Exec |-> "off"]
  /\ mem' = [x \in Exec |-> Blank]
  /\ held' = {}
  /\ \E lost \in SUBSET {r \in Run : opener[r] # Idle} :
       opener' = [r \in Run |-> IF r \in lost THEN Idle ELSE opener[r]]
  /\ UNCHANGED <<queue, dbVars, wpVars, live, wsActive, stopping, deleting>>

\* A message that was active when its worker died expires.
Expire(m) ==
  /\ queue[m].state = "active"
  /\ m \notin held
  /\ queue' = [queue EXCEPT ![m] = Returned(m)]
  /\ UNCHANGED <<held, xVars, dbVars, wpVars, userVars, faults>>

-----------------------------------------------------------------------------
(* Opening a run: scheduler.tick, runJobNowAction, retryRunItemAction.     *)

\* The row of a run gets the status s, from the party `who`.
CloseRun(r, s, who) == run' = [run EXCEPT ![r].status = s, ![r].by = who]

OpenRun(r, j) ==
  /\ run[r].status = "none"
  /\ j \in live
  /\ run' = [run EXCEPT ![r].status = "running", ![r].job = j]
  /\ opener' = [opener EXCEPT ![r] = [step |-> "send", post |-> NoPost]]
  /\ UNCHANGED <<items, hash, qVars, xVars, wpVars, live, wsActive,
                 stopping, deleting, faults>>

RetryItem(i, r) ==
  /\ "retry" \in Env
  /\ i.status \in Retryable
  /\ run[i.run].job \in live
  /\ run[r].status = "none"
  /\ run' = [run EXCEPT ![r] = [status |-> "running", job |-> run[i.run].job,
                                expected |-> 1, listed |-> {i.post},
                                by |-> "nobody"]]
  /\ opener' = [opener EXCEPT ![r] = [step |-> "send", post |-> i.post]]
  /\ UNCHANGED <<items, hash, qVars, xVars, wpVars, live, wsActive,
                 stopping, deleting, faults>>

SendOpener(r) ==
  /\ opener[r].step = "send"
  /\ LET m == <<r, opener[r].post, 1>> IN
       IF Refused(m)
       THEN /\ opener' = [opener EXCEPT ![r].step = "refused"]
            /\ UNCHANGED queue
       ELSE /\ opener' = [opener EXCEPT ![r] = Idle]
            /\ Send(m)
  /\ UNCHANGED <<held, xVars, dbVars, wpVars, live, wsActive, stopping,
                 deleting, faults>>

CancelRefused(r) ==
  /\ opener[r].step = "refused"
  /\ opener' = [opener EXCEPT ![r] = Idle]
  /\ CloseRun(r, "cancelled", "opener")
  /\ UNCHANGED <<items, hash, qVars, xVars, wpVars, live, wsActive,
                 stopping, deleting, faults>>
-----------------------------------------------------------------------------
(* Steps common to the two handlers.                                       *)

Goto(x, l) == pc' = [pc EXCEPT ![x] = l]

\* The handler returns.
Finish(x) == Goto(x, "done") /\ mem' = [mem EXCEPT ![x] = Blank]

\* The handler throws: the whole batch goes back to the queue, unless the
\* queue has already taken this delivery back.
Throw(x) ==
  /\ Goto(x, "off")
  /\ mem' = [mem EXCEPT ![x] = Blank]
  /\ IF Owned(x) THEN FailBatch(MsgOf(x)) ELSE UNCHANGED qVars

\* The run row is read: a run that is not running is left alone.
CheckRun(x) ==
  /\ pc[x] = "run"
  /\ IF run[RunX(x)].status = "running"
     THEN Goto(x, "job") /\ UNCHANGED mem
     ELSE Finish(x)
  /\ UNCHANGED <<qVars, dbVars, wpVars, userVars, faults>>

\* The job, the workspace and the site are read: without them it throws.
LoadJob(x) ==
  /\ pc[x] = "job"
  /\ IF JobX(x) \in live /\ wsActive
     THEN /\ Goto(x, IF IsJobRun(MsgOf(x)) THEN "list" ELSE "read")
          /\ mem' = [mem EXCEPT ![x].phase = "try"]
          /\ UNCHANGED qVars
     ELSE Throw(x)
  /\ UNCHANGED <<dbVars, wpVars, userVars, faults>>

-----------------------------------------------------------------------------
(* job.run: handleJobRun.                                                  *)

\* The row of the run is written by id alone, whatever its status is by now.
CloseByLister(r, s) == CloseRun(r, s, "lister")

\* The plan's token ceiling is reached, or WordPress does not list.
GiveUp(x) ==
  /\ pc[x] = "list"
  /\ \E s \in {"cancelled", "failed"} : CloseByLister(RunX(x), s)
  /\ Finish(x)
  /\ UNCHANGED <<items, hash, qVars, wpVars, userVars, faults>>

\* Without "drift" every delivery of the message lists the same posts.
ListPosts(x, L) ==
  /\ pc[x] = "list"
  /\ "drift" \in Env \/ run[RunX(x)].expected = NotListed
                     \/ L = run[RunX(x)].listed
  /\ run' = [run EXCEPT ![RunX(x)].expected = Cardinality(L),
                        ![RunX(x)].listed = L]
  /\ mem' = [mem EXCEPT ![x].todo = L]
  /\ Goto(x, IF L = {} THEN "empty" ELSE "send")
  /\ UNCHANGED <<items, hash, qVars, wpVars, userVars, faults>>

CloseEmpty(x) ==
  /\ pc[x] = "empty"
  /\ CloseByLister(RunX(x), "success")
  /\ Finish(x)
  /\ UNCHANGED <<items, hash, qVars, wpVars, userVars, faults>>

\* One post.process per post; whether the queue refused it is not looked at.
SendPost(x, p) ==
  /\ pc[x] = "send"
  /\ p \in mem[x].todo
  /\ LET m == <<RunX(x), p, x[2]>> IN
       IF Refused(m) THEN UNCHANGED queue ELSE Send(m)
  /\ IF mem[x].todo = {p}
     THEN Finish(x)
     ELSE mem' = [mem EXCEPT ![x].todo = @ \ {p}] /\ UNCHANGED pc
  /\ UNCHANGED <<held, dbVars, wpVars, userVars, faults>>

-----------------------------------------------------------------------------
(* post.process: handlePostProcess.                                        *)

\* Mutant: the handler does not look for an item of an earlier delivery.
CheckItemNever(x) ==
  /\ pc[x] = "item"
  /\ Goto(x, "run")
  /\ UNCHANGED <<mem, qVars, dbVars, wpVars, userVars, faults>>

\* A post this run already has an item for is not processed again.
CheckItem(x) ==
  /\ pc[x] = "item"
  /\ Goto(x, IF ItemsOf(RunX(x), PostX(x)) # {} THEN "finRun" ELSE "run")
  /\ UNCHANGED <<mem, qVars, dbVars, wpVars, userVars, faults>>

\* Credentials, template or post are missing: an item says so.
PreflightFails(x) ==
  /\ pc[x] = "read"
  /\ mem' = [mem EXCEPT ![x].status = "failed"]
  /\ Goto(x, "record")
  /\ UNCHANGED <<qVars, dbVars, wpVars, userVars, faults>>

\* Mutant: the sources are remembered when they are read.
ReadPostHashes(x) ==
  /\ pc[x] = "read"
  /\ mem' = [mem EXCEPT ![x].base = wp[PostX(x)],
                        ![x].known = PostX(x) \in hash[JobX(x)]]
  /\ hash' = IF JobX(x) \in live
             THEN [hash EXCEPT ![JobX(x)] = @ \cup {PostX(x)}] ELSE hash
  /\ Goto(x, "pipe")
  /\ UNCHANGED <<qVars, run, items, wpVars, userVars, faults>>

\* The post and what is known of its sources.  Nothing is known of the post
\* between the two reads that a later read of both would not show.
ReadPost(x) ==
  /\ pc[x] = "read"
  /\ mem' = [mem EXCEPT ![x].base = wp[PostX(x)],
                        ![x].known = PostX(x) \in hash[JobX(x)]]
  /\ Goto(x, "pipe")
  /\ UNCHANGED <<qVars, dbVars, wpVars, userVars, faults>>

\* Mutant: a thrown pipeline is recorded under its own name.
StatusOfRaw(o) == o

StatusOf(o) == IF o = "thrown" THEN "failed" ELSE o

\* Mutant: sources are remembered whatever the result.
AfterAnyResult(s) == {"hash", "record"}

\* Where the handler goes with a result: the sources of a post are
\* remembered, if the pipeline hashed them, only when it was published or is
\* up to date.
AfterResult(s) == IF s \in {"updated", "no_change"} THEN {"hash", "record"}
                  ELSE {"record"}

\* Sources known from an earlier run may end the pipeline before any model
\* is called.
RunPipeline(x, o) ==
  /\ pc[x] = "pipe"
  /\ o = "skipped" => mem[x].known
  /\ IF o = "ready"
     THEN Goto(x, "write") /\ UNCHANGED mem
     ELSE /\ mem' = [mem EXCEPT ![x].base = NoContent,
                                ![x].status = StatusOf(o)]
          /\ \E l \in AfterResult(StatusOf(o)) : Goto(x, l)
  /\ processed' = IF o = "no_change"
                  THEN processed \cup {<<JobX(x), PostX(x)>>} ELSE processed
  /\ UNCHANGED <<qVars, dbVars, wp, wrote, userVars, faults>>

\* Mutant: the backup is taken from WordPress after the write.
WritePostThenBackup(x, ok) ==
  /\ pc[x] = "write"
  /\ \/ /\ wp' = [wp EXCEPT ![PostX(x)] = RunX(x)]
        /\ wrote' = wrote \cup {<<RunX(x), PostX(x)>>}
     \/ ~ok /\ UNCHANGED <<wp, wrote>>
  /\ LET s == IF ok THEN "updated" ELSE "wp_failed" IN
       /\ mem' = [mem EXCEPT ![x].status = s, ![x].base = wp'[PostX(x)]]
       /\ \E l \in AfterResult(s) : Goto(x, l)
  /\ processed' = IF ok THEN processed \cup {<<JobX(x), PostX(x)>>}
                  ELSE processed
  /\ UNCHANGED <<qVars, dbVars, userVars, faults>>

\* Mutant: a failed call is taken for a publication.
WritePostOptimistic(x, ok) ==
  /\ pc[x] = "write"
  /\ mem' = [mem EXCEPT ![x].status = "updated"]
  /\ \E l \in AfterResult("updated") : Goto(x, l)
  /\ \/ /\ wp' = [wp EXCEPT ![PostX(x)] = RunX(x)]
        /\ wrote' = wrote \cup {<<RunX(x), PostX(x)>>}
     \/ ~ok /\ UNCHANGED <<wp, wrote>>
  /\ processed' = processed \cup {<<JobX(x), PostX(x)>>}
  /\ UNCHANGED <<qVars, dbVars, userVars, faults>>

\* wp.updatePost.  A call that fails may still have changed the post.
WritePost(x, ok) ==
  /\ pc[x] = "write"
  /\ LET s == IF ok THEN "updated" ELSE "wp_failed" IN
       /\ mem' = [mem EXCEPT ![x].status = s]
       /\ \E l \in AfterResult(s) : Goto(x, l)
  /\ \/ /\ wp' = [wp EXCEPT ![PostX(x)] = RunX(x)]
        /\ wrote' = wrote \cup {<<RunX(x), PostX(x)>>}
     \/ ~ok /\ UNCHANGED <<wp, wrote>>
  /\ processed' = IF ok THEN processed \cup {<<JobX(x), PostX(x)>>}
                  ELSE processed
  /\ UNCHANGED <<qVars, dbVars, userVars, faults>>

\* The catch of the handler: an item without backup is recorded.
Caught(x) ==
  /\ mem' = [mem EXCEPT ![x] = [Blank EXCEPT !.phase = "catch",
                                             !.status = "failed"]]
  /\ Goto(x, "record")

\* post_source_state is upserted; the row of a deleted job refuses it.
SaveHash(x) ==
  /\ pc[x] = "hash"
  /\ IF JobX(x) \in live
     THEN /\ hash' = [hash EXCEPT ![JobX(x)] = @ \cup {PostX(x)}]
          /\ Goto(x, "record")
          /\ UNCHANGED mem
     ELSE Caught(x) /\ UNCHANGED hash
  /\ UNCHANGED <<qVars, run, items, wpVars, userVars, faults>>

Item(x) == [by |-> x, phase |-> mem[x].phase, run |-> RunX(x),
            post |-> PostX(x), status |-> mem[x].status,
            backup |-> mem[x].base]

Record(x) ==
  /\ pc[x] = "record"
  /\ items' = items \cup {Item(x)}
  /\ Goto(x, "finRun")
  /\ UNCHANGED <<mem, qVars, run, hash, wpVars, userVars, faults>>

\* A database statement fails: before the try it throws, inside it a failed
\* item is recorded, inside the catch it throws.
StatementFails(x) ==
  /\ "db" \in Env
  /\ faults < MaxFaults
  /\ Busy(x) /\ pc[x] # "write"
  /\ faults' = faults + 1
  /\ IF mem[x].phase = "try" /\ ~IsJobRun(MsgOf(x))
     THEN Caught(x) /\ UNCHANGED qVars
     ELSE Throw(x)
  /\ UNCHANGED <<dbVars, wpVars, userVars>>

-----------------------------------------------------------------------------
(* maybeFinalizeRun: the row, the items (two selects of a set that only    *)
(* grows, so the second one decides), the guarded update.                  *)

FinRun(x) ==
  /\ pc[x] = "finRun"
  /\ LET r == run[RunX(x)] IN
       IF r.status = "running" /\ r.expected # NotListed
       THEN /\ mem' = [mem EXCEPT ![x].want = r.expected]
            /\ Goto(x, "finItems")
       ELSE Finish(x)
  /\ UNCHANGED <<qVars, dbVars, wpVars, userVars, faults>>

\* Mutant: one item is not waited for.
FinItemsEarly(x) ==
  /\ pc[x] = "finItems"
  /\ IF Cardinality(ItemsIn(RunX(x))) + 1 >= mem[x].want
     THEN /\ mem' = [mem EXCEPT ![x].status = VerdictOf(RunX(x))]
          /\ Goto(x, "finClose")
     ELSE Finish(x)
  /\ UNCHANGED <<qVars, dbVars, wpVars, userVars, faults>>

FinItems(x) ==
  /\ pc[x] = "finItems"
  /\ IF Cardinality(ItemsIn(RunX(x))) >= mem[x].want
     THEN /\ mem' = [mem EXCEPT ![x].status = VerdictOf(RunX(x))]
          /\ Goto(x, "finClose")
     ELSE Finish(x)
  /\ UNCHANGED <<qVars, dbVars, wpVars, userVars, faults>>

\* Mutant: the update that closes a run does not ask for a running one.
FinCloseAnyway(x) ==
  /\ pc[x] = "finClose"
  /\ CloseRun(RunX(x), mem[x].status, "items")
  /\ Finish(x)
  /\ UNCHANGED <<items, hash, qVars, wpVars, userVars, faults>>

FinClose(x) ==
  /\ pc[x] = "finClose"
  /\ IF run[RunX(x)].status = "running"
     THEN CloseRun(RunX(x), mem[x].status, "items")
     ELSE UNCHANGED run
  /\ Finish(x)
  /\ UNCHANGED <<items, hash, qVars, wpVars, userVars, faults>>

-----------------------------------------------------------------------------
(* The user and the administrator.                                         *)

\* cancelRunAction: first the row, then the messages still waiting.
CancelRun(r) ==
  /\ "cancel" \in Env
  /\ run[r].status = "running"
  /\ CloseRun(r, "cancelled", "user")
  /\ stopping' = stopping \cup {r}
  /\ UNCHANGED <<items, hash, qVars, xVars, wpVars, live, wsActive, opener,
                 deleting, faults>>

CancelMessages(r) ==
  /\ r \in stopping
  /\ queue' = [m \in Msg |->
                IF RunOf(m) = r /\ queue[m].state \in Waiting
                THEN [queue[m] EXCEPT !.state = "cancelled"] ELSE queue[m]]
  /\ stopping' = stopping \ {r}
  /\ UNCHANGED <<held, xVars, dbVars, wpVars, live, wsActive, opener,
                 deleting, faults>>

RestoreItem(i) ==
  /\ "restore" \in Env
  /\ i.backup # NoContent
  /\ run[i.run].job \in live
  /\ wp' = [wp EXCEPT ![i.post] = i.backup]
  /\ UNCHANGED <<wrote, processed, qVars, xVars, dbVars, userVars, faults>>

\* deleteJobAction: first the check, then the delete with its cascade.
CheckDelete(j) ==
  /\ "delete" \in Env
  /\ j \in live \ deleting
  /\ ~\E r \in Run : run[r].job = j /\ run[r].status = "running"
  /\ deleting' = deleting \cup {j}
  /\ UNCHANGED <<qVars, xVars, dbVars, wpVars, live, wsActive, opener,
                 stopping, faults>>

DeleteJob(j) ==
  /\ j \in deleting
  /\ deleting' = deleting \ {j}
  /\ live' = live \ {j}
  /\ hash' = [hash EXCEPT ![j] = {}]
  /\ UNCHANGED <<run, items, qVars, xVars, wpVars, wsActive, opener,
                 stopping, faults>>

SetWorkspaceStatus ==
  /\ "suspend" \in Env
  /\ wsActive' = ~wsActive
  /\ UNCHANGED <<qVars, xVars, dbVars, wpVars, live, opener, stopping,
                 deleting, faults>>

-----------------------------------------------------------------------------
JobRunStep(x) ==
  /\ IsJobRun(MsgOf(x))
  /\ \/ CheckRun(x) \/ LoadJob(x) \/ GiveUp(x) \/ CloseEmpty(x)
     \/ \E L \in SUBSET Post : ListPosts(x, L)
     \/ \E p \in Post : SendPost(x, p)

PostStep(x) ==
  /\ ~IsJobRun(MsgOf(x))
  /\ \/ CheckItem(x) \/ CheckRun(x) \/ LoadJob(x)
     \/ PreflightFails(x) \/ ReadPost(x)
     \/ \E o \in Outcome : RunPipeline(x, o)
     \/ \E ok \in BOOLEAN : WritePost(x, ok)
     \/ SaveHash(x) \/ Record(x)
     \/ FinRun(x) \/ FinItems(x) \/ FinClose(x)

QueueStep ==
  \/ \E S \in SUBSET {m \in Msg : queue[m].state \in Waiting} : Fetch(S)
  \/ \E m \in Msg : Settle(m) \/ Expire(m) \/ TimeOut(m)

OpenerStep == \E r \in Run : SendOpener(r) \/ CancelRefused(r)

UserStep ==
  \/ \E r \in Run, j \in Job : OpenRun(r, j)
  \/ \E i \in items, r \in Run : RetryItem(i, r)
  \/ \E r \in Run : CancelRun(r) \/ CancelMessages(r)
  \/ \E i \in items : RestoreItem(i)
  \/ \E j \in Job : CheckDelete(j) \/ DeleteJob(j)
  \/ SetWorkspaceStatus

FaultStep == Crash \/ \E x \in Exec : StatementFails(x)

Next ==
  \/ \E x \in Exec : JobRunStep(x) \/ PostStep(x)
  \/ QueueStep
  \/ OpenerStep
  \/ UserStep
  \/ FaultStep

Spec == Init /\ [][Next]_vars
-----------------------------------------------------------------------------
(* Fairness: the worker loops and pg-boss go on while their process lives. *)
(* Nobody has to click, and nothing has to fail.                           *)

WorkerStep == \E x \in Exec : JobRunStep(x) \/ PostStep(x)
QueueServes ==
  \/ \E S \in SUBSET {m \in Msg : queue[m].state \in Waiting} : Fetch(S)
  \/ \E m \in Msg : Settle(m) \/ Expire(m)

FairSpec == Spec /\ WF_vars(WorkerStep) /\ WF_vars(QueueServes)

-----------------------------------------------------------------------------
(* Types.                                                                  *)

PcJobRun == {"off", "run", "job", "list", "empty", "send", "done"}
PcPost == {"off", "item", "run", "job", "read", "pipe", "write", "hash",
           "record", "finRun", "finItems", "finClose", "done"}
Content == Run \cup {Original}
RunStatus == RunClosed \cup {"none", "running"}

Closer == {"nobody", "opener", "lister", "items", "user"}
RunRow == [status : RunStatus, job : Job \cup {NoJob}, expected : Int,
           listed : SUBSET Post, by : Closer]
ItemRow == [by : Exec, phase : {"try", "catch"}, run : Run, post : Post,
            status : ItemStatus, backup : Content \cup {NoContent}]
Locals == [phase : {"before", "try", "catch"}, base : Content \cup {NoContent},
           known : BOOLEAN, status : ItemStatus \cup RunStatus, want : Int,
           todo : SUBSET Post]

\* Every variable holds a value of its kind.
TypeOK ==
  /\ run \in [Run -> RunRow]
  /\ items \subseteq ItemRow
  /\ queue \in [Msg -> [state : MsgState, tries : Nat]]
  /\ held \subseteq Msg
  /\ pc \in [Exec -> PcJobRun \cup PcPost]
  /\ mem \in [Exec -> Locals]
  /\ wp \in [Post -> Content]
  /\ wrote \subseteq Run \X Post
  /\ hash \in [Job -> SUBSET Post]
  /\ processed \subseteq (Job \cup {NoJob}) \X Post
  /\ live \subseteq Job
  /\ wsActive \in BOOLEAN
  /\ opener \in [Run -> [step : {"none", "send", "refused"},
                         post : Post \cup {NoPost}]]
  /\ stopping \subseteq Run
  /\ deleting \subseteq Job
  /\ faults \in 0..MaxFaults

-----------------------------------------------------------------------------
(* Safety.                                                                 *)

\* A run records one item per post: maybeFinalizeRun counts items, so a
\* second item of one post would stand for a post nobody visited.
OneItemPerPost ==
  \A a, b \in items : a.run = b.run /\ a.post = b.post => a = b

\* A run closed by its items has one for every post it listed: no post is
\* dropped in silence because the run closed under it.
ClosedRunIsComplete ==
  \A r \in Run : run[r].by = "items" =>
    \A p \in run[r].listed : ItemsOf(r, p) # {}

\* The status a run was closed with is the verdict of the items it shows:
\* nothing recorded after the count contradicts it.
VerdictMatchesItems ==
  \A r \in Run : run[r].by = "items" => run[r].status = VerdictOf(r)

\* What the panel shows of a run closed by its items is all there is.
ClosedRunIsRight == ClosedRunIsComplete /\ VerdictMatchesItems

\* A post is skipped because its sources did not change only if a run of
\* that job published it or found it up to date: an update WordPress refused
\* is tried again, however many runs later.
SkippedWasProcessed ==
  \A i \in items : i.status = "skipped" =>
    <<run[i.run].job, i.post>> \in processed

\* An item that says `updated` is about a post its run did write.
UpdatedWasWritten ==
  \A i \in items : i.status = "updated" => <<i.run, i.post>> \in wrote

\* What a closed run did to a post can be undone from the panel: some item
\* keeps what the post held before the run wrote it.
WritesCanBeUndone ==
  \A r \in Run, p \in Post :
    (run[r].by = "items" /\ run[r].job \in live /\ <<r, p>> \in wrote) =>
      \E i \in ItemsOf(r, p) : i.backup \notin {NoContent, r}

(* Liveness: a run whose message reached the queue is closed in the end,   *)
(* whatever the pipelines return and although a worker may die on the way. *)
Sent(r) == \E m \in Msg : RunOf(m) = r /\ queue[m].state # "free"
EverySentRunCloses ==
  \A r \in Run : Sent(r) ~> run[r].status \in RunClosed

-----------------------------------------------------------------------------
(* An update run keeps the promise of RunLedger.                           *)

OutcomeOf(r, p) == IF ItemsOf(r, p) = {} THEN "none"
                   ELSE (CHOOSE i \in ItemsOf(r, p) : TRUE).status
Ledger == INSTANCE RunLedger WITH
  status <- [r \in Run |-> run[r].status],
  planned <- {r \in Run : run[r].expected # NotListed},
  plan <- [r \in Run |-> run[r].listed],
  outcome <- [r \in Run |-> [p \in Post |-> OutcomeOf(r, p)]],
  Bad <- Failures, Good <- Successes
KeepsLedger == Ledger!Spec
=============================================================================
