--------------------------- MODULE BriefGeneration ---------------------------
(***************************************************************************)
(* A brief becomes a post: the panel opens a run for the brief and sends   *)
(* brief.generate; the worker checks the plan and the topic, runs the      *)
(* pipeline, illustrates, creates the post in WordPress, records a run     *)
(* item, updates the brief and closes the run.  Meanwhile the user stops,  *)
(* edits, generates again, publishes and deletes.                          *)
(*                                                                         *)
(* One worker loop serves brief.generate, one message at a time.  An       *)
(* action is a handler's code between two points where the panel or        *)
(* another delivery can see or change shared state.                        *)
(***************************************************************************)
EXTENDS Naturals, FiniteSets

CONSTANTS
  Brief,      \* identities of briefs (bounds the model)
  Run,        \* identities of generation runs (bounds the model)
  NoBrief,    \* the brief of a run that was not opened
  NoPost,     \* no post
  Tries,      \* deliveries of a message (retryLimit + 1)
  MaxFaults,  \* bound on crashes, overruns and failed statements
  Outcome,    \* pipeline outcomes explored
  Env         \* what may happen besides the normal course:
    \* crash       the worker dies
    \* overrun     a handler outlives expireInSeconds and runs on
    \* db          a statement fails
    \* lost        a WordPress call fails although it was carried out
    \* suspend     a delivery finds the workspace suspended
    \* slow        time passes between the check of a request and its effect
    \* twice       a user asks twice at once to generate a brief again
    \* keyed, dup  the queue may refuse, may accept a second message of a brief
    \* cancel, edit, regenerate, publish, delete      what the user does

Event == {"crash", "overrun", "db", "lost", "suspend", "slow", "twice", "keyed",
          "dup", "cancel", "edit", "regenerate", "publish", "delete"}

ASSUME TriesIsCount == Tries \in Nat \ {0}
ASSUME FaultsAreCount == MaxFaults \in Nat
ASSUME BriefsAreNot == NoBrief \notin Brief /\ NoPost \notin Run \X (1..Tries)
ASSUME EnvIsKnown == Env \subseteq Event
ASSUME KeysAreDecided == {"keyed", "dup"} \cap Env # {}
ASSUME OutcomesAreKnown ==
  Outcome \subseteq {"ready", "validation_failed", "llm_failed", "refused", "thrown"}

VARIABLES
  brief,     \* the briefs table: status ("none" and "deleted": no row), mode
             \* (publishMode) and post (createdWpPostId)
  run,       \* the runs table; `by` is history: who closed the run
  items,     \* the run_items table
  queue,     \* pg-boss: the message of each run
  held,      \* messages the worker loop holds
  pc,        \* next step of each delivery
  mem,       \* its locals
  site,      \* the posts of the WordPress site, by the delivery that made them
  opener,    \* enqueueBriefGeneration of each run: what it does next
  stopping,  \* cancelRunAction between its update and the queue
  checked,   \* requests on a brief that are past their check
  going,     \* publishBriefAction between WordPress and its row
  faults

qVars == <<queue, held>>
xVars == <<pc, mem>>
dbVars == <<brief, run, items>>
panelVars == <<opener, stopping, checked, going>>
vars == <<brief, run, items, queue, held, pc, mem, site, opener, stopping,
          checked, going, faults>>

-----------------------------------------------------------------------------
Exec == Run \X (1..Tries)
RunX(x) == x[1]
BriefX(x) == run[RunX(x)].brief
Busy(x) == pc[x] \notin {"off", "done"}
Owned(x) == RunX(x) \in held /\ queue[RunX(x)].tries = x[2]

Waiting == {"created", "retry"}
RunClosed == {"success", "partial", "failed", "cancelled"}
BriefStatus == {"none", "pending", "queued", "generating", "ready_for_review",
                "published", "failed", "deleted"}
Exists(b) == b \in Brief /\ brief[b].status \notin {"none", "deleted"}
Mode == {"draft", "publish"}
Failures == {"failed", "validation_failed", "llm_failed"}

MessageState == Waiting \cup {"free", "active", "completed", "cancelled", "failed"}
Step == {"off", "run", "brief", "expect", "plan", "mark", "pipe", "create",
         "failBrief", "item", "update", "count", "close", "done"}

NoRun == [status |-> "none", brief |-> NoBrief, expected |-> 0, by |-> "nobody"]

\* What the user asks and the post that the check finds.  Two requests to
\* generate again are two, told apart by the run each will open.
Request ==
  [op : {"edit", "publish", "delete"}, brief : Brief, post : Exec \cup {NoPost}]
  \cup [op : {"regenerate"}, brief : Brief, post : Exec \cup {NoPost}, run : Run]

Unborn == [status |-> "none", mode |-> "draft", post |-> NoPost]
Blank == [mode |-> "draft", cover |-> FALSE, item |-> "none",
          phase |-> "before", verdict |-> "none"]

Init ==
  /\ brief = [b \in Brief |-> Unborn]
  /\ run = [r \in Run |-> NoRun]
  /\ items = {}
  /\ queue = [r \in Run |-> [state |-> "free", tries |-> 0]]
  /\ held = {}
  /\ pc = [x \in Exec |-> "off"]
  /\ mem = [x \in Exec |-> Blank]
  /\ site = [x \in Exec |-> [status |-> "none", cover |-> FALSE]]
  /\ opener = [r \in Run |-> "none"]
  /\ stopping = {}
  /\ checked = {}
  /\ going = {}
  /\ faults = 0

-----------------------------------------------------------------------------
(* The queue.                                                              *)

\* A message of the same brief (the singletonKey) waits or runs.  "keyed":
\* the queue may refuse a second one, "dup": it may take it.
Clash(r) ==
  \E s \in Run : /\ run[s].brief = run[r].brief
                 /\ queue[s].state \in Waiting \cup {"active"}

\* A delivery that failed is retried while deliveries remain.
Returned(r) == [queue[r] EXCEPT !.state =
                  IF queue[r].tries < Tries THEN "retry" ELSE "failed"]
GiveBack(r) == /\ queue' = [queue EXCEPT ![r] = Returned(r)]
               /\ held' = held \ {r}

Fetch(r) ==
  /\ held = {}
  /\ queue[r].state \in Waiting /\ queue[r].tries < Tries
  /\ queue' = [queue EXCEPT ![r] = [state |-> "active", tries |-> @.tries + 1]]
  /\ pc' = [pc EXCEPT ![<<r, queue[r].tries + 1>>] = "run"]
  /\ held' = {r}
  /\ UNCHANGED <<mem, dbVars, site, panelVars, faults>>

Settle(r) ==
  /\ r \in held
  /\ pc[<<r, queue[r].tries>>] = "done"
  /\ queue' = [queue EXCEPT ![r].state = "completed"]
  /\ held' = held \ {r}
  /\ UNCHANGED <<xVars, dbVars, site, panelVars, faults>>

\* The handler outlives expireInSeconds and runs on.
TimeOut(r) ==
  /\ "overrun" \in Env
  /\ faults < MaxFaults
  /\ faults' = faults + 1
  /\ r \in held
  /\ GiveBack(r)
  /\ UNCHANGED <<xVars, dbVars, site, panelVars>>

Crash ==
  /\ "crash" \in Env
  /\ faults < MaxFaults
  /\ faults' = faults + 1
  /\ pc' = [x \in Exec |-> "off"]
  /\ mem' = [x \in Exec |-> Blank]
  /\ held' = {}
  /\ UNCHANGED <<queue, dbVars, site, panelVars>>

\* A message that was active when its worker died expires.
Expire(r) ==
  /\ queue[r].state = "active" /\ r \notin held
  /\ queue' = [queue EXCEPT ![r] = Returned(r)]
  /\ UNCHANGED <<held, xVars, dbVars, site, panelVars, faults>>

-----------------------------------------------------------------------------
(* The panel.                                                              *)

\* A request that will open run r for b; the row comes with OpenRun.
Promise(r, b) ==
  /\ run[r] = NoRun
  /\ run' = [run EXCEPT ![r].brief = b]
  /\ opener' = [opener EXCEPT ![r] = "insert"]

CreateBrief(b, r, mode) ==
  /\ brief[b].status = "none"
  /\ brief' = [brief EXCEPT ![b] = [status |-> "queued", mode |-> mode,
                                    post |-> NoPost]]
  /\ Promise(r, b)
  /\ UNCHANGED <<items, qVars, xVars, site, stopping, checked, going, faults>>

\* Mutant: a draft may be generated again.
AllowedRedo(q) ==
  LET read == brief[q.brief] IN
  /\ read.post = q.post
  /\ CASE q.op = "edit" -> read.status \in {"pending", "failed"}
       [] q.op = "regenerate" -> read.status \in {"failed", "ready_for_review"}
       [] q.op = "publish" -> read.status = "ready_for_review" /\ q.post # NoPost
       [] q.op = "delete" -> /\ Exists(q.brief)
                             /\ read.status \notin {"generating", "queued"}

\* What each request asks of the brief it read.
Allowed(q) ==
  LET read == brief[q.brief] IN
  /\ read.post = q.post
  /\ CASE q.op = "edit" -> read.status \in {"pending", "failed"}
       [] q.op = "regenerate" -> read.status = "failed"
       [] q.op = "publish" -> read.status = "ready_for_review" /\ q.post # NoPost
       [] q.op = "delete" -> /\ Exists(q.brief)
                             /\ read.status \notin {"generating", "queued"}

\* Without "slow" nothing happens between the check of a request and what
\* it does next.
Check(q) ==
  /\ {"slow", q.op} \subseteq Env
  /\ q \notin checked
  /\ q.op = "regenerate" =>
       /\ run[q.run] = NoRun
       /\ "twice" \in Env \/ \A p \in checked : p.op # q.op \/ p.brief # q.brief
  /\ Allowed(q)
  /\ checked' = checked \cup {q}
  /\ UNCHANGED <<dbVars, qVars, xVars, site, opener, stopping, going, faults>>

Passed(q) ==
  /\ q.op \in Env
  /\ IF "slow" \in Env THEN q \in checked ELSE Allowed(q)
  /\ checked' = checked \ {q}

SetBrief(b, row) ==
  brief' = IF Exists(b) THEN [brief EXCEPT ![b] = row] ELSE brief

UpdateBrief(q, mode) ==
  /\ q.op = "edit"
  /\ Passed(q)
  /\ SetBrief(q.brief, [brief[q.brief] EXCEPT !.mode = mode])
  /\ UNCHANGED <<run, items, qVars, xVars, site, opener, stopping, going, faults>>

Regenerate(q) ==
  /\ q.op = "regenerate"
  /\ Passed(q)
  /\ SetBrief(q.brief, [brief[q.brief] EXCEPT !.status = "queued"])
  /\ Promise(q.run, q.brief)
  /\ UNCHANGED <<items, qVars, xVars, site, stopping, going, faults>>

\* Mutant: the row is written although WordPress refused.
PublishPostNot(q) ==
  /\ q.op = "publish"
  /\ Passed(q)
  /\ going' = going \cup {q}
  /\ UNCHANGED <<site, dbVars, qVars, xVars, opener, stopping, faults>>

\* publishBriefAction: WordPress, then the row.  "lost": the call fails
\* although WordPress published the post.
PublishPost(q) ==
  /\ q.op = "publish"
  /\ Passed(q)
  /\ site' = [site EXCEPT ![q.post].status = "publish"]
  /\ \/ going' = going \cup {q}
     \/ "lost" \in Env /\ UNCHANGED going
  /\ UNCHANGED <<dbVars, qVars, xVars, opener, stopping, faults>>

PublishRow(q) ==
  /\ q \in going
  /\ SetBrief(q.brief, [brief[q.brief] EXCEPT !.status = "published"])
  /\ going' = going \ {q}
  /\ UNCHANGED <<run, items, qVars, xVars, site, opener, stopping, checked, faults>>

\* The runs of the brief stay; their brief_id becomes null.
DeleteBrief(q) ==
  /\ q.op = "delete"
  /\ Passed(q)
  /\ SetBrief(q.brief, [Unborn EXCEPT !.status = "deleted"])
  /\ UNCHANGED <<run, items, qVars, xVars, site, opener, stopping, going, faults>>

\* enqueueBriefGeneration: the run, then the message.  A run cannot be
\* inserted for a brief that is gone.
OpenRun(r) ==
  /\ opener[r] = "insert"
  /\ IF Exists(run[r].brief)
     THEN /\ run' = [run EXCEPT ![r].status = "running"]
          /\ opener' = [opener EXCEPT ![r] = "send"]
     ELSE opener' = [opener EXCEPT ![r] = "none"] /\ UNCHANGED run
  /\ UNCHANGED <<brief, items, qVars, xVars, site, stopping, checked, going, faults>>

SendRun(r) ==
  /\ opener[r] = "send"
  /\ \/ /\ Clash(r) /\ "keyed" \in Env
        /\ opener' = [opener EXCEPT ![r] = "refused"]
        /\ UNCHANGED queue
     \/ /\ Clash(r) => "dup" \in Env
        /\ opener' = [opener EXCEPT ![r] = "none"]
        /\ queue' = [queue EXCEPT ![r].state = "created"]
  /\ UNCHANGED <<held, xVars, dbVars, site, stopping, checked, going, faults>>

CloseRun(r, s, who) == run' = [run EXCEPT ![r].status = s, ![r].by = who]

CancelRefused(r) ==
  /\ opener[r] = "refused"
  /\ opener' = [opener EXCEPT ![r] = "none"]
  /\ CloseRun(r, "cancelled", "opener")
  /\ UNCHANGED <<brief, items, qVars, xVars, site, stopping, checked, going, faults>>

CancelRun(r) ==
  /\ "cancel" \in Env
  /\ run[r].status = "running"
  /\ CloseRun(r, "cancelled", "user")
  /\ stopping' = stopping \cup {r}
  /\ UNCHANGED <<brief, items, qVars, xVars, site, opener, checked, going, faults>>

CancelMessage(r) ==
  /\ r \in stopping
  /\ queue' = IF queue[r].state \in Waiting
              THEN [queue EXCEPT ![r].state = "cancelled"] ELSE queue
  /\ stopping' = stopping \ {r}
  /\ UNCHANGED <<held, xVars, dbVars, site, opener, checked, going, faults>>

-----------------------------------------------------------------------------
(* brief.generate: handleBriefGenerate.                                    *)

Goto(x, l) == pc' = [pc EXCEPT ![x] = l]
Finish(x) == Goto(x, "done") /\ mem' = [mem EXCEPT ![x] = Blank]
Throw(x) ==
  /\ Goto(x, "off")
  /\ mem' = [mem EXCEPT ![x] = Blank]
  /\ IF Owned(x) THEN GiveBack(RunX(x)) ELSE UNCHANGED qVars

CheckRun(x) ==
  /\ pc[x] = "run"
  /\ IF run[RunX(x)].status = "running"
     THEN Goto(x, "brief") /\ UNCHANGED mem
     ELSE Finish(x)
  /\ UNCHANGED <<qVars, dbVars, site, panelVars, faults>>

\* The brief is read once: its mode is the one the post is created with.
\* assertWorkerWorkspace: a suspended workspace throws.
LoadBrief(x) ==
  /\ pc[x] = "brief"
  /\ \/ /\ Exists(BriefX(x))
        /\ mem' = [mem EXCEPT ![x].mode = brief[BriefX(x)].mode]
        /\ Goto(x, "expect")
        /\ UNCHANGED qVars
     \/ (Exists(BriefX(x)) => "suspend" \in Env) /\ Throw(x)
  /\ UNCHANGED <<dbVars, site, panelVars, faults>>

ExpectOne(x) ==
  /\ pc[x] = "expect"
  /\ run' = [run EXCEPT ![RunX(x)].expected = 1]
  /\ mem' = [mem EXCEPT ![x].phase = "try"]
  /\ Goto(x, "plan")
  /\ UNCHANGED <<brief, items, qVars, site, panelVars, faults>>

\* fail() is called in the try for an expected reason, and by the catch.
Fail(x, phase) ==
  /\ mem' = [mem EXCEPT ![x].item = "failed", ![x].phase = phase]
  /\ Goto(x, "failBrief")

\* assertPlanAllowsGeneration: the plan has room, or it has none.
CheckPlan(x) ==
  /\ pc[x] = "plan"
  /\ \/ Goto(x, "mark") /\ UNCHANGED mem
     \/ Fail(x, "try")
  /\ UNCHANGED <<qVars, dbVars, site, panelVars, faults>>

MarkGenerating(x) ==
  /\ pc[x] = "mark"
  /\ SetBrief(BriefX(x), [brief[BriefX(x)] EXCEPT !.status = "generating"])
  /\ Goto(x, "pipe")
  /\ UNCHANGED <<mem, run, items, qVars, site, panelVars, faults>>

\* "refused": the preflight or the topic guard calls fail().  A result that
\* is not ready is recorded before the brief fails.  cover is FALSE when
\* the template wants images and none became the cover.
RunPipeline(x, o) ==
  /\ pc[x] = "pipe"
  /\ \/ /\ o \in {"validation_failed", "llm_failed"}
        /\ mem' = [mem EXCEPT ![x].item = o]
        /\ Goto(x, "item")
     \/ o = "refused" /\ Fail(x, "try")
     \/ o = "thrown" /\ Fail(x, "catch")
     \/ /\ o = "ready"
        /\ \E cover \in BOOLEAN : mem' = [mem EXCEPT ![x].cover = cover]
        /\ Goto(x, "create")
  /\ UNCHANGED <<qVars, dbVars, site, panelVars, faults>>

\* A cover is mandatory: without one the post is a draft.
PublishMode(x) == IF mem[x].cover THEN mem[x].mode ELSE "draft"

\* Mutant: a post is created by a call that reports a failure.
CreatePostUnsure(x, ok) ==
  /\ pc[x] = "create"
  /\ site' = [site EXCEPT ![x] = [status |-> PublishMode(x),
                                 cover |-> mem[x].cover]]
  /\ IF ok
     THEN mem' = [mem EXCEPT ![x].item = "created"] /\ Goto(x, "item")
     ELSE Fail(x, "catch")
  /\ UNCHANGED <<qVars, dbVars, panelVars, faults>>

\* wp.createPost.  "lost": a call that fails may have created the post.
CreatePost(x, ok) ==
  /\ pc[x] = "create"
  /\ \/ /\ ok \/ "lost" \in Env
        /\ site' = [site EXCEPT ![x] = [status |-> PublishMode(x),
                                       cover |-> mem[x].cover]]
     \/ ~ok /\ UNCHANGED site
  /\ IF ok
     THEN mem' = [mem EXCEPT ![x].item = "created"] /\ Goto(x, "item")
     ELSE Fail(x, "catch")
  /\ UNCHANGED <<qVars, dbVars, panelVars, faults>>

\* fail(): the brief, then the item.
FailBrief(x) ==
  /\ pc[x] = "failBrief"
  /\ SetBrief(BriefX(x), [brief[BriefX(x)] EXCEPT !.status = "failed"])
  /\ Goto(x, "item")
  /\ UNCHANGED <<mem, run, items, qVars, site, panelVars, faults>>

\* Mutant: only a created post updates the brief.
RecordOnlyCreated(x) ==
  /\ pc[x] = "item"
  /\ items' = items \cup {[by |-> x, phase |-> mem[x].phase, run |-> RunX(x),
                          status |-> mem[x].item]}
  /\ Goto(x, IF mem[x].item = "created" THEN "update" ELSE "count")
  /\ UNCHANGED <<mem, brief, run, qVars, site, panelVars, faults>>

\* fail() has updated the brief already.
Item(x) == [by |-> x, phase |-> mem[x].phase, run |-> RunX(x),
            status |-> mem[x].item]
Record(x) ==
  /\ pc[x] = "item"
  /\ items' = items \cup {Item(x)}
  /\ Goto(x, IF mem[x].item = "failed" THEN "count" ELSE "update")
  /\ UNCHANGED <<mem, brief, run, qVars, site, panelVars, faults>>

\* Mutant: the status of the item is stored in the brief.
StatusOfItem(x) == mem[x].item

StatusOf(x) == IF mem[x].item # "created" THEN "failed"
               ELSE IF PublishMode(x) = "publish" THEN "published"
               ELSE "ready_for_review"
UpdateRow(x) ==
  /\ pc[x] = "update"
  /\ LET b == BriefX(x) IN
       SetBrief(b, [brief[b] EXCEPT !.status = StatusOf(x),
                      !.post = IF mem[x].item = "created" THEN x ELSE @])
  /\ Goto(x, "count")
  /\ UNCHANGED <<mem, run, items, qVars, site, panelVars, faults>>

\* Mutant: one created post makes a success.
VerdictBest(S) == IF "created" \in S THEN "success" ELSE "failed"

\* Mutant: a draft that failed validation is not counted as a failure.
VerdictLoose(S) == IF S \cap (Failures \ {"validation_failed"}) = {}
                   THEN "success"
                   ELSE IF "created" \notin S THEN "failed" ELSE "partial"

\* maybeFinalizeRun.  The items of a run only grow, so its three selects
\* decide like the last one; the update asks for a running run again.
Verdict(S) == IF S \cap Failures = {} THEN "success"
              ELSE IF "created" \notin S THEN "failed" ELSE "partial"
Count(x) ==
  /\ pc[x] = "count"
  /\ LET r == RunX(x)
         S == {i \in items : i.run = r} IN
       IF run[r].status = "running" /\ Cardinality(S) >= run[r].expected
       THEN /\ mem' = [mem EXCEPT ![x].verdict = Verdict({i.status : i \in S})]
            /\ Goto(x, "close")
       ELSE Finish(x)
  /\ UNCHANGED <<qVars, dbVars, site, panelVars, faults>>

\* Mutant: the update does not ask for a running run.
CloseAnyway(x) ==
  /\ pc[x] = "close"
  /\ CloseRun(RunX(x), mem[x].verdict, "items")
  /\ Finish(x)
  /\ UNCHANGED <<brief, items, qVars, site, panelVars, faults>>

Close(x) ==
  /\ pc[x] = "close"
  /\ IF run[RunX(x)].status = "running"
     THEN CloseRun(RunX(x), mem[x].verdict, "items")
     ELSE UNCHANGED run
  /\ Finish(x)
  /\ UNCHANGED <<brief, items, qVars, site, panelVars, faults>>

\* A statement fails: before the try the handler throws, inside it fail() is
\* called, inside the catch it throws.
StatementFails(x) ==
  /\ "db" \in Env
  /\ faults < MaxFaults
  /\ Busy(x) /\ pc[x] \notin {"create", "pipe"}
  /\ faults' = faults + 1
  /\ IF mem[x].phase = "try"
     THEN Fail(x, "catch") /\ UNCHANGED qVars
     ELSE Throw(x)
  /\ UNCHANGED <<dbVars, site, panelVars>>

-----------------------------------------------------------------------------
HandlerStep(x) ==
  \/ CheckRun(x) \/ LoadBrief(x) \/ ExpectOne(x) \/ CheckPlan(x)
  \/ MarkGenerating(x)
  \/ \E o \in Outcome : RunPipeline(x, o)
  \/ \E ok \in BOOLEAN : CreatePost(x, ok)
  \/ FailBrief(x) \/ Record(x) \/ UpdateRow(x) \/ Count(x) \/ Close(x)

QueueServes == \E r \in Run : Fetch(r) \/ Settle(r) \/ Expire(r)

EnqueueStep == \E r \in Run : OpenRun(r) \/ SendRun(r) \/ CancelRefused(r)

RequestStep ==
  \/ \E b \in Brief, r \in Run, mode \in Mode : CreateBrief(b, r, mode)
  \/ \E q \in Request : \/ Check(q)
                        \/ \E mode \in Mode : UpdateBrief(q, mode)
                        \/ Regenerate(q) \/ DeleteBrief(q)
                        \/ PublishPost(q) \/ PublishRow(q)
  \/ \E r \in Run : CancelRun(r) \/ CancelMessage(r)

FaultStep ==
  \/ \E r \in Run : TimeOut(r)
  \/ Crash
  \/ \E x \in Exec : StatementFails(x)

WorkerStep == \E x \in Exec : HandlerStep(x)
Next == WorkerStep \/ QueueServes \/ EnqueueStep \/ RequestStep \/ FaultStep

Spec == Init /\ [][Next]_vars
FairSpec ==
  Spec /\ WF_vars(WorkerStep) /\ WF_vars(QueueServes) /\ WF_vars(EnqueueStep)
-----------------------------------------------------------------------------
(* Properties.                                                             *)

BriefRow == [status : BriefStatus, mode : Mode, post : Exec \cup {NoPost}]
RunRow == [status : {"none", "running"} \cup RunClosed,
           brief : Brief \cup {NoBrief}, expected : {0, 1},
           by : {"nobody", "items", "opener", "user"}]
ItemRow == [by : Exec, phase : {"try", "catch"}, run : Run,
            status : {"created"} \cup Failures]
Message == [state : MessageState, tries : 0..Tries]
Locals == [mode : Mode, cover : BOOLEAN, item : {"none", "created"} \cup Failures,
           phase : {"before", "try", "catch"}, verdict : {"none"} \cup RunClosed]
SitePost == [status : {"none"} \cup Mode, cover : BOOLEAN]

\* Every variable keeps its type.
TypeOK ==
  /\ brief \in [Brief -> BriefRow]
  /\ run \in [Run -> RunRow]
  /\ items \subseteq ItemRow
  /\ queue \in [Run -> Message]
  /\ held \subseteq Run
  /\ pc \in [Exec -> Step]
  /\ mem \in [Exec -> Locals]
  /\ site \in [Exec -> SitePost]
  /\ opener \in [Run -> {"none", "insert", "send", "refused"}]
  /\ stopping \subseteq Run
  /\ checked \subseteq Request /\ going \subseteq Request
  /\ faults \in 0..MaxFaults

PostsOf(b) == {x \in Exec : BriefX(x) = b /\ site[x].status # "none"}
Delivered == {"ready_for_review", "published"}

\* A brief puts one post into WordPress, however often it is generated
\* again after a failure or stopped on the way (briefs.ts 146).
OnePostPerBrief == \A b \in Brief : Cardinality(PostsOf(b)) <= 1

\* A delivered brief keeps its status and its post until it is published or
\* deleted: no generation that is still under way takes them back.
DeliveredStays ==
  [][\A b \in Brief : brief[b].status \in Delivered =>
       \/ brief'[b].status = "deleted"
       \/ /\ brief'[b].post = brief[b].post
          /\ brief'[b].status \in {brief[b].status, "published"}]_brief

\* The post of a published brief is public: the panel says so to the user
\* and offers no second publication.
PublishedIsPublic ==
  \A b \in Brief : brief[b].status = "published" =>
    brief[b].post # NoPost /\ site[brief[b].post].status = "publish"

\* A run closed as a success delivered: its brief shows the post this very
\* run created, or the user has deleted the brief, although deliveries of
\* the run before may have died after creating a post.
SuccessMeansDelivered ==
  [][\A r \in Run :
       LET b == run[r].brief IN
       run[r].status = "running" /\ run'[r].status = "success" /\ Exists(b) =>
         /\ brief[b].status \in Delivered
         /\ RunX(brief[b].post) = r]_run

\* No success without a post: a run reported as a success put a post into
\* WordPress, whatever failed, overran or was done by the user meanwhile.
SuccessHasPost ==
  \A r \in Run : run[r].status = "success" =>
    \E x \in Exec : RunX(x) = r /\ site[x].status # "none"

\* What a closed run reports is final: neither a handler that outlived its
\* delivery nor a refused request rewrites it.
ClosedStaysClosed ==
  [][\A r \in Run : run[r].status \in RunClosed =>
       run'[r].status = run[r].status]_run

\* A generation that reached the queue closes its run in the end.
EveryGenerationCloses ==
  \A r \in Run : queue[r].state = "created" ~> run[r].status \in RunClosed

\* A brief does not stay queued or generating: in both the panel neither
\* edits, nor generates again, nor deletes it.
Stuck == {"queued", "generating"}
BriefSettles ==
  \A b \in Brief : brief[b].status \in Stuck ~> brief[b].status \notin Stuck

\* A generation ends for the run and for the brief.
EveryGenerationSettles == EveryGenerationCloses /\ BriefSettles

(* What the repository says and the code does not do.                      *)

\* "Wait for the generation to end (or stop the run) before deleting"
\* (briefs.ts 279): once no run of the brief is open, no handler of one is
\* busy and no request is under way, the brief can be deleted.
StoppedBriefCanGo ==
  \A b \in Brief :
    (\A r \in Run : run[r].brief = b =>
       /\ run[r].status \in RunClosed
       /\ queue[r].state \notin Waiting \cup {"active"}
       /\ opener[r] = "none" /\ r \notin stopping)
    => brief[b].status \notin Stuck
=============================================================================
