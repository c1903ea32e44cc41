--------------------------- MODULE UpdateRunProofs ---------------------------
(***************************************************************************)
(* Theorems about UpdateRun for every number of runs, posts, deliveries    *)
(* and every batch size: types, what the items of a run say, what a closed *)
(* run says, and the refinement of RunLedger.                              *)
(***************************************************************************)
EXTENDS UpdateRun, FiniteSetTheorems, TLAPS

-----------------------------------------------------------------------------
(* Types.  TypeOK alone is not inductive: a run item is built from the     *)
(* locals of its handler, whose content depends on where the handler is.   *)

LocalsAt(l, loc) ==
  /\ l \in {"read", "pipe", "write", "hash"} => loc.phase = "try"
  /\ l = "record" => loc.phase \in {"try", "catch"}
  /\ l \in {"hash", "record"} => loc.status \in ItemStatus
  /\ l = "finClose" => loc.status \in RunClosed
LocalsOK(x) == LocalsAt(pc[x], mem[x])

TypeInv == TypeOK /\ \A x \in Exec : LocalsOK(x)

\* An execution has a message and a delivery; its message has a run, and a
\* post unless it is a job.run.
LEMMA ExecParts ==
  ASSUME NEW x \in Exec
  PROVE  /\ MsgOf(x) \in Msg /\ x[2] \in Attempt
         /\ RunX(x) \in Run /\ PostX(x) \in Post \cup {NoPost}
         /\ ~IsJobRun(MsgOf(x)) => PostX(x) \in Post
         /\ x = <<MsgOf(x), x[2]>>
  BY NullsAreDistinct DEF Exec, Msg, MsgOf, RunX, PostX, RunOf, PostOf, IsJobRun

LEMMA InitType == Init => TypeInv
  BY TriesAreCounts, BoundsAreCounts
  DEF Init, TypeInv, TypeOK, LocalsOK, LocalsAt, NoRun, Blank, Idle, RunRow, Locals,
      RunStatus, Content, MsgState, Waiting, PcJobRun, PcPost, NotListed,
      ItemRow, Closer

\* A row that gets another status is still a row.
LEMMA CloseRunType ==
  ASSUME TypeOK, NEW r \in Run, NEW s \in RunStatus, NEW who \in Closer,
         CloseRun(r, s, who)
  PROVE  run' \in [Run -> RunRow]
<1>1. run[r] \in RunRow
  BY DEF TypeOK
<1>2. [run[r] EXCEPT !.status = s, !.by = who] \in RunRow
  BY <1>1 DEF RunRow
<1>3. run' = [run EXCEPT ![r] = [run[r] EXCEPT !.status = s, !.by = who]]
  BY DEF CloseRun, TypeOK
<1> QED
  BY <1>2, <1>3 DEF TypeOK

\* A failed delivery leaves the queue well typed.
LEMMA FailBatchType ==
  ASSUME TypeOK, NEW m \in Msg, FailBatch(m)
  PROVE  /\ queue' \in [Msg -> [state : MsgState, tries : Nat]]
         /\ held' \subseteq Msg
  BY DEF TypeOK, FailBatch, Batch, Returned, MsgState, Waiting

LEMMA ThrowType ==
  ASSUME TypeInv, NEW x \in Exec, Throw(x)
  PROVE  /\ queue' \in [Msg -> [state : MsgState, tries : Nat]]
         /\ held' \subseteq Msg
         /\ pc' \in [Exec -> PcJobRun \cup PcPost]
         /\ mem' \in [Exec -> Locals]
         /\ \A y \in Exec : LocalsOK(y)'
<1>1. queue' \in [Msg -> [state : MsgState, tries : Nat]] /\ held' \subseteq Msg
  BY ExecParts, FailBatchType DEF Throw, TypeInv, TypeOK, qVars
<1>2. /\ pc' \in [Exec -> PcJobRun \cup PcPost]
      /\ mem' \in [Exec -> Locals]
      /\ \A y \in Exec : LocalsOK(y)'
  BY NullsAreDistinct
  DEF Throw, Goto, TypeInv, TypeOK, LocalsOK, LocalsAt, PcJobRun, PcPost, Locals, Blank,
      NotListed, RunStatus
<1> QED BY <1>1, <1>2

\* A handler moves to the step l with the locals loc.
LEMMA MoveType ==
  ASSUME TypeInv, NEW x \in Exec, NEW l \in PcJobRun \cup PcPost,
         NEW loc \in Locals, LocalsAt(l, loc), Goto(x, l),
         mem' = [mem EXCEPT ![x] = loc]
  PROVE  /\ pc' \in [Exec -> PcJobRun \cup PcPost]
         /\ mem' \in [Exec -> Locals]
         /\ \A y \in Exec : LocalsOK(y)'
<1>1. pc \in [Exec -> PcJobRun \cup PcPost] /\ mem \in [Exec -> Locals]
  BY DEF TypeInv, TypeOK
<1>2. /\ pc' \in [Exec -> PcJobRun \cup PcPost]
      /\ mem' \in [Exec -> Locals]
  BY <1>1 DEF Goto
<1>3. ASSUME NEW y \in Exec PROVE LocalsOK(y)'
  <2>1. pc'[y] = (IF y = x THEN l ELSE pc[y]) /\ mem'[y] = (IF y = x THEN loc ELSE mem[y])
    BY <1>1 DEF Goto
  <2>2. LocalsAt(pc[y], mem[y])
    BY DEF TypeInv, LocalsOK
  <2> QED
    BY <2>1, <2>2 DEF LocalsOK
<1> QED
  BY <1>2, <1>3

\* A handler returns.
LEMMA FinishType ==
  ASSUME TypeInv, NEW x \in Exec, Finish(x)
  PROVE  /\ pc' \in [Exec -> PcJobRun \cup PcPost]
         /\ mem' \in [Exec -> Locals]
         /\ \A y \in Exec : LocalsOK(y)'
<1>1. Blank \in Locals /\ LocalsAt("done", Blank)
  BY DEF Blank, Locals, LocalsAt, NotListed, RunStatus
<1>2. "done" \in PcJobRun \cup PcPost
  BY DEF PcPost
<1> QED
  BY <1>1, <1>2, MoveType DEF Finish

\* A handler catches an error.
LEMMA CaughtType ==
  ASSUME TypeInv, NEW x \in Exec, Caught(x)
  PROVE  /\ pc' \in [Exec -> PcJobRun \cup PcPost]
         /\ mem' \in [Exec -> Locals]
         /\ \A y \in Exec : LocalsOK(y)'
<1> DEFINE loc == [Blank EXCEPT !.phase = "catch", !.status = "failed"]
<1>1. loc \in Locals /\ LocalsAt("record", loc)
  <2>1. Blank \in Locals
    BY DEF Blank, Locals, NotListed, RunStatus
  <2>2. "failed" \in ItemStatus
    BY DEF ItemStatus
  <2> QED BY <2>1, <2>2 DEF Locals, LocalsAt
<1>2. "record" \in PcJobRun \cup PcPost
  BY DEF PcPost
<1>3. Goto(x, "record") /\ mem' = [mem EXCEPT ![x] = loc]
  BY DEF Caught
<1> HIDE DEF loc
<1> QED
  BY <1>1, <1>2, <1>3, MoveType

\* Steps of the queue.
LEMMA QueueType ==
  ASSUME TypeInv, QueueStep PROVE TypeInv'
<1> USE DEF TypeInv, TypeOK
<1>1. ASSUME NEW S \in SUBSET Msg, Fetch(S) PROVE TypeInv'
  <2>1. queue' \in [Msg -> [state : MsgState, tries : Nat]] /\ held' \subseteq Msg
    BY <1>1 DEF Fetch, MsgState
  <2>2. pc' \in [Exec -> PcJobRun \cup PcPost]
    BY <1>1 DEF Fetch, Entry, PcJobRun, PcPost
  <2>3. \A x \in Exec : LocalsOK(x)'
    BY <1>1 DEF Fetch, Entry, LocalsOK, LocalsAt
  <2> QED
    BY <1>1, <2>1, <2>2, <2>3 DEF Fetch, dbVars, wpVars, userVars, LocalsOK, LocalsAt
<1>2. ASSUME NEW m \in Msg, Settle(m) PROVE TypeInv'
  BY <1>2 DEF Settle, xVars, dbVars, wpVars, userVars, MsgState, LocalsOK, LocalsAt
<1>3. ASSUME NEW m \in Msg, Expire(m) PROVE TypeInv'
  BY <1>3 DEF Expire, Returned, xVars, dbVars, wpVars, userVars, MsgState, Waiting, LocalsOK, LocalsAt
<1>4. ASSUME NEW m \in Msg, TimeOut(m) PROVE TypeInv'
  BY <1>4, FailBatchType DEF TimeOut, xVars, dbVars, wpVars, userVars, LocalsOK, LocalsAt
<1> QED
  BY <1>1, <1>2, <1>3, <1>4 DEF QueueStep

\* Steps of the openers.
LEMMA OpenerType ==
  ASSUME TypeInv, OpenerStep PROVE TypeInv'
<1> USE DEF TypeInv, TypeOK
<1>1. ASSUME NEW r \in Run, SendOpener(r) PROVE TypeInv'
  <2>1. <<r, opener[r].post, 1>> \in Msg
    BY TriesAreCounts DEF Msg, Attempt
  <2>2. queue' \in [Msg -> [state : MsgState, tries : Nat]]
    <3>1. queue' = queue \/ Send(<<r, opener[r].post, 1>>)
      BY <1>1 DEF SendOpener
    <3>2. queue \in [Msg -> [state : MsgState, tries : Nat]]
      OBVIOUS
    <3> HIDE DEF TypeInv, TypeOK
    <3> QED BY <2>1, <3>1, <3>2 DEF Send, MsgState, Waiting
  <2>3. opener' \in [Run -> [step : {"none", "send", "refused"}, post : Post \cup {NoPost}]]
    BY <1>1 DEF SendOpener, Idle
  <2> QED
    BY <1>1, <2>2, <2>3 DEF SendOpener, xVars, dbVars, wpVars, LocalsOK, LocalsAt
<1>2. ASSUME NEW r \in Run, CancelRefused(r) PROVE TypeInv'
  <2>1. run' \in [Run -> RunRow]
    BY <1>2, CloseRunType DEF CancelRefused, RunStatus, RunClosed, Closer
  <2>2. opener' \in [Run -> [step : {"none", "send", "refused"}, post : Post \cup {NoPost}]]
    BY <1>2 DEF CancelRefused, Idle
  <2> QED
    BY <1>2, <2>1, <2>2 DEF CancelRefused, qVars, xVars, wpVars, LocalsOK, LocalsAt
<1> QED
  BY <1>1, <1>2 DEF OpenerStep

\* Steps of the user and the administrator.
LEMMA UserType ==
  ASSUME TypeInv, UserStep PROVE TypeInv'
<1> USE DEF TypeInv, TypeOK
<1>1. ASSUME NEW r \in Run, NEW j \in Job, OpenRun(r, j) PROVE TypeInv'
  <2>1. [run[r] EXCEPT !.status = "running", !.job = j] \in RunRow
    <3>1. run[r] \in RunRow
      OBVIOUS
    <3> HIDE DEF TypeInv, TypeOK
    <3> QED BY <3>1 DEF RunRow, RunStatus
  <2>2. run' = [run EXCEPT ![r] = [run[r] EXCEPT !.status = "running", !.job = j]]
    BY <1>1 DEF OpenRun
  <2>3. opener' \in [Run -> [step : {"none", "send", "refused"}, post : Post \cup {NoPost}]]
    BY <1>1 DEF OpenRun
  <2>4. run' \in [Run -> RunRow]
    BY <2>1, <2>2
  <2> QED
    BY <1>1, <2>3, <2>4 DEF OpenRun, qVars, xVars, wpVars, LocalsOK, LocalsAt
<1>2. ASSUME NEW i \in items, NEW r \in Run, RetryItem(i, r) PROVE TypeInv'
  <2>1. i \in ItemRow /\ run[i.run].job \in Job
    BY <1>2 DEF RetryItem
  <2>2. run' \in [Run -> RunRow]
    <3> DEFINE row == [status |-> "running", job |-> run[i.run].job,
                       expected |-> 1, listed |-> {i.post}, by |-> "nobody"]
    <3>1. row \in RunRow
      <4> HIDE DEF TypeInv, TypeOK
      <4> QED BY <2>1 DEF RunRow, RunStatus, Closer, ItemRow
    <3>2. run' = [run EXCEPT ![r] = row]
      BY <1>2 DEF RetryItem
    <3> HIDE DEF row
    <3> QED BY <3>1, <3>2
  <2> QED
    BY <1>2, <2>1, <2>2 DEF RetryItem, qVars, xVars, wpVars, ItemRow, LocalsOK, LocalsAt
<1>3. ASSUME NEW r \in Run, CancelRun(r) PROVE TypeInv'
  <2>1. run' \in [Run -> RunRow]
    BY <1>3, CloseRunType DEF CancelRun, RunStatus, RunClosed, Closer
  <2> QED
    BY <1>3, <2>1 DEF CancelRun, qVars, xVars, wpVars, LocalsOK, LocalsAt
<1>4. ASSUME NEW r \in Run, CancelMessages(r) PROVE TypeInv'
  BY <1>4 DEF CancelMessages, xVars, dbVars, wpVars, MsgState, LocalsOK, LocalsAt
<1>5. ASSUME NEW i \in items, RestoreItem(i) PROVE TypeInv'
  BY <1>5 DEF RestoreItem, qVars, xVars, dbVars, userVars, ItemRow, LocalsOK, LocalsAt
<1>6. ASSUME NEW j \in Job, CheckDelete(j) PROVE TypeInv'
  BY <1>6 DEF CheckDelete, qVars, xVars, dbVars, wpVars, LocalsOK, LocalsAt
<1>7. ASSUME NEW j \in Job, DeleteJob(j) PROVE TypeInv'
  BY <1>7 DEF DeleteJob, qVars, xVars, wpVars, LocalsOK, LocalsAt
<1>8. ASSUME SetWorkspaceStatus PROVE TypeInv'
  BY <1>8 DEF SetWorkspaceStatus, qVars, xVars, dbVars, wpVars, LocalsOK, LocalsAt
<1> QED
  BY <1>1, <1>2, <1>3, <1>4, <1>5, <1>6, <1>7, <1>8 DEF UserStep

-----------------------------------------------------------------------------
\* Steps of a handler.
LEMMA CommonType ==
  ASSUME TypeInv, NEW x \in Exec, CheckRun(x) \/ LoadJob(x) PROVE TypeInv'
<1>1. mem[x] \in Locals /\ RunX(x) \in Run
  BY ExecParts DEF TypeInv, TypeOK
<1>2. CASE CheckRun(x) /\ run[RunX(x)].status = "running"
  <2>1. LocalsAt("job", mem[x]) /\ "job" \in PcJobRun \cup PcPost
    BY DEF LocalsAt, PcPost
  <2>2. Goto(x, "job") /\ mem' = [mem EXCEPT ![x] = mem[x]]
    BY <1>2 DEF CheckRun, TypeInv, TypeOK
  <2> QED
    BY <1>1, <1>2, <2>1, <2>2, MoveType
    DEF CheckRun, TypeInv, TypeOK, qVars, dbVars, wpVars, userVars
<1>3. CASE CheckRun(x) /\ run[RunX(x)].status # "running"
  BY <1>3, FinishType DEF CheckRun, TypeInv, TypeOK, qVars, dbVars, wpVars, userVars
<1>4. CASE LoadJob(x) /\ JobX(x) \in live /\ wsActive
  <2> DEFINE l == IF IsJobRun(MsgOf(x)) THEN "list" ELSE "read"
             loc == [mem[x] EXCEPT !.phase = "try"]
  <2>1. LocalsAt(l, loc) /\ l \in PcJobRun \cup PcPost /\ loc \in Locals
    BY <1>1 DEF LocalsAt, PcPost, PcJobRun, Locals
  <2>2. Goto(x, l) /\ mem' = [mem EXCEPT ![x] = loc]
    BY <1>4 DEF LoadJob
  <2> HIDE DEF l, loc
  <2> QED
    BY <1>4, <2>1, <2>2, MoveType
    DEF LoadJob, TypeInv, TypeOK, qVars, dbVars, wpVars, userVars
<1>5. CASE LoadJob(x) /\ ~(JobX(x) \in live /\ wsActive)
  <2>1. Throw(x)
    BY <1>5 DEF LoadJob
  <2> QED
    BY <1>5, <2>1, ThrowType
    DEF LoadJob, TypeInv, TypeOK, dbVars, wpVars, userVars
<1> QED
  BY <1>2, <1>3, <1>4, <1>5

LEMMA JobRunType ==
  ASSUME TypeInv, NEW x \in Exec, JobRunStep(x) PROVE TypeInv'
<1>1. /\ mem[x] \in Locals /\ RunX(x) \in Run /\ run[RunX(x)] \in RunRow
      /\ x[2] \in Attempt /\ 1 \in Attempt
  BY ExecParts, TriesAreCounts DEF TypeInv, TypeOK, Attempt
<1>2. CASE GiveUp(x)
  <2>1. run' \in [Run -> RunRow]
    BY <1>1, <1>2, CloseRunType
    DEF GiveUp, CloseByLister, TypeInv, RunStatus, RunClosed, Closer
  <2> QED
    BY <1>2, <2>1, FinishType DEF GiveUp, TypeInv, TypeOK, qVars, wpVars, userVars
<1>3. CASE CloseEmpty(x)
  <2>1. run' \in [Run -> RunRow]
    BY <1>1, <1>3, CloseRunType
    DEF CloseEmpty, CloseByLister, TypeInv, RunStatus, RunClosed, Closer
  <2> QED
    BY <1>3, <2>1, FinishType DEF CloseEmpty, TypeInv, TypeOK, qVars, wpVars, userVars
<1>4. ASSUME NEW L \in SUBSET Post, ListPosts(x, L) PROVE TypeInv'
  <2>1. Cardinality(L) \in Int
    BY PostsAreFinite, FS_Subset, FS_CardinalityType
  <2> DEFINE row == [run[RunX(x)] EXCEPT !.expected = Cardinality(L), !.listed = L]
             loc == [mem[x] EXCEPT !.todo = L]
             l == IF L = {} THEN "empty" ELSE "send"
  <2>2. row \in RunRow /\ loc \in Locals
    BY <1>1, <2>1 DEF RunRow, Locals
  <2>3. LocalsAt(l, loc) /\ l \in PcJobRun \cup PcPost
    BY DEF LocalsAt, PcJobRun
  <2>4. run' = [run EXCEPT ![RunX(x)] = row] /\ mem' = [mem EXCEPT ![x] = loc] /\ Goto(x, l)
    BY <1>4 DEF ListPosts
  <2> HIDE DEF row, loc, l
  <2>5. run' \in [Run -> RunRow]
    BY <2>2, <2>4 DEF TypeInv, TypeOK
  <2> QED
    BY <1>4, <2>2, <2>3, <2>4, <2>5, MoveType
    DEF ListPosts, TypeInv, TypeOK, qVars, wpVars, userVars
<1>5. ASSUME NEW p \in Post, SendPost(x, p) PROVE TypeInv'
  <2>1. <<RunX(x), p, x[2]>> \in Msg
    BY <1>1 DEF Msg
  <2>2. queue' \in [Msg -> [state : MsgState, tries : Nat]]
    <3>1. queue' = queue \/ Send(<<RunX(x), p, x[2]>>)
      BY <1>5 DEF SendPost
    <3>2. queue \in [Msg -> [state : MsgState, tries : Nat]]
      BY DEF TypeInv, TypeOK
    <3> QED BY <2>1, <3>1, <3>2 DEF Send, MsgState, Waiting
  <2>3. /\ pc' \in [Exec -> PcJobRun \cup PcPost]
        /\ mem' \in [Exec -> Locals]
        /\ \A y \in Exec : LocalsOK(y)'
    <3>1. CASE mem[x].todo = {p}
      BY <1>5, <3>1, FinishType DEF SendPost
    <3>2. CASE mem[x].todo # {p}
      <4> DEFINE loc == [mem[x] EXCEPT !.todo = @ \ {p}]
      <4>1. loc \in Locals /\ LocalsAt("send", loc) /\ "send" \in PcJobRun \cup PcPost
        BY <1>1 DEF Locals, LocalsAt, PcJobRun
      <4>2. mem' = [mem EXCEPT ![x] = loc] /\ Goto(x, "send")
        BY <1>5, <3>2 DEF SendPost, Goto, TypeInv, TypeOK
      <4> HIDE DEF loc
      <4> QED BY <4>1, <4>2, MoveType
    <3> QED BY <3>1, <3>2
  <2> QED
    BY <1>5, <2>2, <2>3 DEF SendPost, TypeInv, TypeOK, dbVars, wpVars, userVars
<1> QED
  BY <1>2, <1>3, <1>4, <1>5, CommonType DEF JobRunStep

\* Steps of post.process before maybeFinalizeRun.
LEMMA PostType ==
  ASSUME TypeInv, NEW x \in Exec, ~IsJobRun(MsgOf(x)),
         \/ CheckItem(x) \/ PreflightFails(x) \/ ReadPost(x)
         \/ \E o \in Outcome : RunPipeline(x, o)
         \/ \E ok \in BOOLEAN : WritePost(x, ok)
         \/ SaveHash(x) \/ Record(x)
  PROVE  TypeInv'
<1> DEFINE loc == mem[x]
<1>1. /\ loc \in Locals /\ LocalsOK(x)
      /\ RunX(x) \in Run /\ PostX(x) \in Post
      /\ JobX(x) \in Job \cup {NoJob}
  BY ExecParts DEF TypeInv, TypeOK, JobX, RunRow
<1>2. CASE CheckItem(x)
  <2> DEFINE l == IF ItemsOf(RunX(x), PostX(x)) # {} THEN "finRun" ELSE "run"
  <2>1. LocalsAt(l, loc) /\ l \in PcJobRun \cup PcPost
    BY DEF LocalsAt, PcPost
  <2>2. Goto(x, l) /\ mem' = [mem EXCEPT ![x] = loc]
    BY <1>2 DEF CheckItem, TypeInv, TypeOK
  <2> HIDE DEF l
  <2> QED
    BY <1>1, <1>2, <2>1, <2>2, MoveType
    DEF CheckItem, TypeInv, TypeOK, qVars, dbVars, wpVars, userVars
<1>3. CASE PreflightFails(x)
  <2> DEFINE new == [loc EXCEPT !.status = "failed"]
  <2>1. new \in Locals /\ LocalsAt("record", new) /\ "record" \in PcJobRun \cup PcPost
    BY <1>1, <1>3 DEF PreflightFails, LocalsOK, LocalsAt, Locals, PcPost, ItemStatus
  <2>2. Goto(x, "record") /\ mem' = [mem EXCEPT ![x] = new]
    BY <1>3 DEF PreflightFails
  <2> HIDE DEF new
  <2> QED
    BY <1>3, <2>1, <2>2, MoveType
    DEF PreflightFails, TypeInv, TypeOK, qVars, dbVars, wpVars, userVars
<1>4. CASE ReadPost(x)
  <2> DEFINE known == PostX(x) \in hash[JobX(x)]
             new == [loc EXCEPT !.base = wp[PostX(x)], !.known = known]
  <2>1. wp[PostX(x)] \in Content
    BY <1>1 DEF TypeInv, TypeOK
  <2>2. new \in Locals
    <3>1. known \in BOOLEAN
      OBVIOUS
    <3> HIDE DEF known
    <3> QED BY <1>1, <2>1, <3>1 DEF Locals
  <2>3. LocalsAt("pipe", new) /\ "pipe" \in PcJobRun \cup PcPost
    BY <1>1, <1>4 DEF ReadPost, LocalsOK, LocalsAt, PcPost, Locals
  <2>4. Goto(x, "pipe") /\ mem' = [mem EXCEPT ![x] = new]
    BY <1>4 DEF ReadPost
  <2> HIDE DEF new
  <2> QED
    BY <1>4, <2>2, <2>3, <2>4, MoveType
    DEF ReadPost, TypeInv, TypeOK, qVars, dbVars, wpVars, userVars
<1>5. ASSUME NEW o \in Outcome, RunPipeline(x, o) PROVE TypeInv'
  <2>1. processed' \subseteq (Job \cup {NoJob}) \X Post
    <3>1. processed' \subseteq processed \cup {<<JobX(x), PostX(x)>>}
      <4>1. processed' = IF o = "no_change"
                         THEN processed \cup {<<JobX(x), PostX(x)>>} ELSE processed
        BY <1>5 DEF RunPipeline
      <4> QED BY <4>1
    <3>2. processed \subseteq (Job \cup {NoJob}) \X Post
      BY DEF TypeInv, TypeOK
    <3> QED BY <1>1, <3>1, <3>2
  <2>2. /\ pc' \in [Exec -> PcJobRun \cup PcPost]
        /\ mem' \in [Exec -> Locals]
        /\ \A y \in Exec : LocalsOK(y)'
    <3>1. CASE o = "ready"
      <4>1. LocalsAt("write", loc) /\ "write" \in PcJobRun \cup PcPost
        BY <1>1, <1>5 DEF RunPipeline, LocalsOK, LocalsAt, PcPost
      <4>2. Goto(x, "write") /\ mem' = [mem EXCEPT ![x] = loc]
        BY <1>5, <3>1 DEF RunPipeline, TypeInv, TypeOK
      <4> QED BY <1>1, <4>1, <4>2, MoveType
    <3>2. CASE o # "ready"
      <4> DEFINE new == [loc EXCEPT !.base = NoContent, !.status = StatusOf(o)]
      <4>1. PICK l \in {"hash", "record"} : Goto(x, l) /\ mem' = [mem EXCEPT ![x] = new]
        BY <1>5, <3>2 DEF RunPipeline, AfterResult
      <4>2. StatusOf(o) \in ItemStatus
        BY <3>2, ChoicesAreKnown DEF PipelineStatus, StatusOf, ItemStatus
      <4>3. new \in Locals
        BY <1>1, <4>2 DEF Locals
      <4>4. LocalsAt(l, new) /\ l \in PcJobRun \cup PcPost
        BY <1>1, <1>5, <4>2 DEF RunPipeline, LocalsOK, LocalsAt, PcPost, Locals
      <4> HIDE DEF new
      <4> QED BY <4>1, <4>3, <4>4, MoveType
    <3> QED BY <3>1, <3>2
  <2> QED
    BY <1>5, <2>1, <2>2 DEF RunPipeline, TypeInv, TypeOK, qVars, dbVars, userVars
<1>6. ASSUME NEW ok \in BOOLEAN, WritePost(x, ok) PROVE TypeInv'
  <2> DEFINE s == IF ok THEN "updated" ELSE "wp_failed"
             new == [loc EXCEPT !.status = s]
  <2>1. /\ processed' \subseteq (Job \cup {NoJob}) \X Post
        /\ wp' \in [Post -> Content]
        /\ wrote' \subseteq Run \X Post
    BY <1>1, <1>6 DEF WritePost, TypeInv, TypeOK, Content
  <2>2. PICK l \in {"hash", "record"} : Goto(x, l) /\ mem' = [mem EXCEPT ![x] = new]
    BY <1>6 DEF WritePost, AfterResult
  <2>3. s \in ItemStatus
    BY DEF ItemStatus
  <2> HIDE DEF s
  <2>4. new \in Locals
    BY <1>1, <2>3 DEF Locals
  <2>5. LocalsAt(l, new) /\ l \in PcJobRun \cup PcPost
    BY <1>1, <1>6, <2>3 DEF WritePost, LocalsOK, LocalsAt, PcPost, Locals
  <2> HIDE DEF new
  <2> QED
    BY <1>6, <2>1, <2>2, <2>4, <2>5, MoveType
    DEF WritePost, TypeInv, TypeOK, qVars, dbVars, userVars
<1>7. CASE SaveHash(x)
  <2>1. /\ pc' \in [Exec -> PcJobRun \cup PcPost]
        /\ mem' \in [Exec -> Locals]
        /\ \A y \in Exec : LocalsOK(y)'
        /\ hash' \in [Job -> SUBSET Post]
    <3>1. CASE JobX(x) \in live
      <4>1. LocalsAt("record", loc) /\ "record" \in PcJobRun \cup PcPost
        BY <1>1, <1>7 DEF SaveHash, LocalsOK, LocalsAt, PcPost
      <4>2. Goto(x, "record") /\ mem' = [mem EXCEPT ![x] = loc]
        BY <1>7, <3>1 DEF SaveHash, TypeInv, TypeOK
      <4>3. hash' \in [Job -> SUBSET Post]
        BY <1>1, <1>7, <3>1 DEF SaveHash, TypeInv, TypeOK
      <4> QED BY <1>1, <4>1, <4>2, <4>3, MoveType
    <3>2. CASE JobX(x) \notin live
      <4>1. Caught(x) /\ UNCHANGED hash
        BY <1>7, <3>2 DEF SaveHash
      <4> QED BY <4>1, CaughtType DEF TypeInv, TypeOK
    <3> QED BY <3>1, <3>2
  <2> QED
    BY <1>7, <2>1 DEF SaveHash, TypeInv, TypeOK, qVars, wpVars, userVars
<1>8. CASE Record(x)
  <2>1. Item(x) \in ItemRow
    BY <1>1, <1>8 DEF Record, Item, ItemRow, LocalsOK, LocalsAt, Locals
  <2>2. LocalsAt("finRun", loc) /\ "finRun" \in PcJobRun \cup PcPost
    BY DEF LocalsAt, PcPost
  <2>3. Goto(x, "finRun") /\ mem' = [mem EXCEPT ![x] = loc]
    BY <1>8 DEF Record, TypeInv, TypeOK
  <2>4. items' \subseteq ItemRow
    BY <1>8, <2>1 DEF Record, TypeInv, TypeOK
  <2> QED
    BY <1>1, <1>8, <2>2, <2>3, <2>4, MoveType
    DEF Record, TypeInv, TypeOK, qVars, wpVars, userVars
<1> QED
  BY <1>2, <1>3, <1>4, <1>5, <1>6, <1>7, <1>8

\* Steps of maybeFinalizeRun.
LEMMA FinalizeType ==
  ASSUME TypeInv, NEW x \in Exec, FinRun(x) \/ FinItems(x) \/ FinClose(x)
  PROVE  TypeInv'
<1>1. /\ mem[x] \in Locals /\ LocalsOK(x)
      /\ RunX(x) \in Run /\ run[RunX(x)] \in RunRow
  BY ExecParts DEF TypeInv, TypeOK
<1>2. CASE FinRun(x)
  <2>1. CASE Finish(x)
    BY <1>2, <2>1, FinishType
    DEF FinRun, TypeInv, TypeOK, qVars, dbVars, wpVars, userVars
  <2>2. CASE ~Finish(x)
    <3> DEFINE new == [mem[x] EXCEPT !.want = run[RunX(x)].expected]
    <3>1. /\ new \in Locals /\ LocalsAt("finItems", new)
          /\ "finItems" \in PcJobRun \cup PcPost
      BY <1>1 DEF Locals, LocalsAt, PcPost, RunRow
    <3>2. Goto(x, "finItems") /\ mem' = [mem EXCEPT ![x] = new]
      BY <1>2, <2>2 DEF FinRun
    <3> HIDE DEF new
    <3> QED
      BY <1>2, <3>1, <3>2, MoveType
      DEF FinRun, TypeInv, TypeOK, qVars, dbVars, wpVars, userVars
  <2> QED BY <2>1, <2>2
<1>3. CASE FinItems(x)
  <2>1. CASE Finish(x)
    BY <1>3, <2>1, FinishType
    DEF FinItems, TypeInv, TypeOK, qVars, dbVars, wpVars, userVars
  <2>2. CASE ~Finish(x)
    <3> DEFINE v == VerdictOf(RunX(x))
               new == [mem[x] EXCEPT !.status = v]
    <3>1. v \in RunClosed
      BY DEF VerdictOf, Verdict, RunClosed
    <3>2. Goto(x, "finClose") /\ mem' = [mem EXCEPT ![x] = new]
      BY <1>3, <2>2 DEF FinItems
    <3> HIDE DEF v
    <3>3. /\ new \in Locals /\ LocalsAt("finClose", new)
          /\ "finClose" \in PcJobRun \cup PcPost
      BY <1>1, <3>1 DEF Locals, LocalsAt, PcPost, RunStatus
    <3> HIDE DEF new
    <3> QED
      BY <1>3, <3>2, <3>3, MoveType
      DEF FinItems, TypeInv, TypeOK, qVars, dbVars, wpVars, userVars
  <2> QED BY <2>1, <2>2
<1>4. CASE FinClose(x)
  <2>1. mem[x].status \in RunStatus
    BY <1>1, <1>4 DEF FinClose, LocalsOK, LocalsAt, RunStatus
  <2>2. run' \in [Run -> RunRow]
    <3>1. CASE CloseRun(RunX(x), mem[x].status, "items")
      BY <1>1, <2>1, <3>1, CloseRunType DEF Closer, TypeInv
    <3>2. CASE UNCHANGED run
      BY <3>2 DEF TypeInv, TypeOK
    <3> QED BY <1>4, <3>1, <3>2 DEF FinClose
  <2> QED
    BY <1>4, <2>2, FinishType DEF FinClose, TypeInv, TypeOK, qVars, wpVars, userVars
<1> QED BY <1>2, <1>3, <1>4

\* Faults.
LEMMA FaultType ==
  ASSUME TypeInv, FaultStep PROVE TypeInv'
<1>1. CASE Crash
  <2>1. /\ opener' \in [Run -> [step : {"none", "send", "refused"},
                               post : Post \cup {NoPost}]]
        /\ faults' \in 0..MaxFaults
    BY <1>1, BoundsAreCounts DEF Crash, Idle, TypeInv, TypeOK
  <2>2. Blank \in Locals /\ LocalsAt("off", Blank)
    BY DEF Blank, Locals, LocalsAt, NotListed, RunStatus
  <2>3. pc' \in [Exec -> PcJobRun \cup PcPost] /\ mem' \in [Exec -> Locals]
    BY <1>1, <2>2 DEF Crash, PcPost
  <2>4. \A y \in Exec : LocalsOK(y)'
    BY <1>1, <2>2 DEF Crash, LocalsOK
  <2> QED
    BY <1>1, <2>1, <2>3, <2>4 DEF Crash, TypeInv, TypeOK, dbVars, wpVars
<1>2. ASSUME NEW x \in Exec, StatementFails(x) PROVE TypeInv'
  <2>1. faults' \in 0..MaxFaults
    BY <1>2, BoundsAreCounts DEF StatementFails, TypeInv, TypeOK
  <2>2. CASE Caught(x) /\ UNCHANGED qVars
    BY <1>2, <2>1, <2>2, CaughtType
    DEF StatementFails, TypeInv, TypeOK, qVars, dbVars, wpVars, userVars
  <2>3. CASE Throw(x)
    BY <1>2, <2>1, <2>3, ThrowType
    DEF StatementFails, TypeInv, TypeOK, dbVars, wpVars, userVars
  <2> QED BY <1>2, <2>2, <2>3 DEF StatementFails
<1> QED BY <1>1, <1>2 DEF FaultStep

LEMMA StepType == ASSUME TypeInv, [Next]_vars PROVE TypeInv'
<1>1. CASE Next
  <2>1. ASSUME NEW x \in Exec, PostStep(x) PROVE TypeInv'
    BY <2>1, CommonType, PostType, FinalizeType DEF PostStep
  <2> QED
    BY <1>1, <2>1, JobRunType, QueueType, OpenerType, UserType, FaultType DEF Next
<1>2. CASE UNCHANGED vars
  BY <1>2 DEF vars, TypeInv, TypeOK, LocalsOK
<1> QED BY <1>1, <1>2

\* Every variable always holds a value of its kind, whatever happens.
THEOREM TypeCorrect == Spec => []TypeOK
<1>1. Init => TypeInv
  BY InitType
<1>2. TypeInv /\ [Next]_vars => TypeInv'
  BY StepType
<1>3. TypeInv => TypeOK
  BY DEF TypeInv
<1> QED
  BY <1>1, <1>2, <1>3, PTL DEF Spec

-----------------------------------------------------------------------------
(* The items of a run.  A run records one item per post, as long as        *)
(*   - a handler does not outlive its delivery (no "overrun"),             *)
(*   - no database statement fails in a handler (no "db"), and             *)
(*   - the queue refuses a message whose key waits or runs (no "dup").     *)
(* The runs of TLC show that each of these is needed.                      *)
(*                                                                         *)
(* What the items say about WordPress and about the sources is true in     *)
(* every environment: handlers that outlive their delivery, failing        *)
(* statements, duplicated messages and lists that change.                  *)

Steady == Env \cap {"overrun", "db", "dup"} = {}

InQueue == Waiting \cup {"active"}
PostMsg(m) == ~IsJobRun(m)
Twins(m, n) == PostMsg(m) /\ PostMsg(n) /\ RunOf(m) = RunOf(n) /\ PostOf(m) = PostOf(n)
Working == {"run", "job", "read", "pipe", "write", "hash", "record"}

\* What a worker holds is active.
HeldIsActive == \A m \in held : queue[m].state = "active"

\* Of the messages of one post and run, one at most waits or runs.
OneMessage ==
  \A m, n \in Msg : Twins(m, n) /\ queue[m].state \in InQueue
                    /\ queue[n].state \in InQueue => m = n

\* Of the handlers of one post and run, one at most is busy.
OneHandler ==
  \A x, y \in Exec : Twins(MsgOf(x), MsgOf(y)) /\ Busy(x) /\ Busy(y) => x = y

\* A handler that has checked for an item and not recorded one is right:
\* there is none.
NoItemYet ==
  \A x \in Exec : PostMsg(MsgOf(x)) /\ pc[x] \in Working =>
    ItemsOf(RunX(x), PostX(x)) = {}

OnceInv ==
  /\ HeldIsActive
  /\ OneMessage
  /\ OneHandler
  /\ NoItemYet
  /\ OneItemPerPost

-----------------------------------------------------------------------------
(* The queue.                                                              *)

\* A step that brings no message into the queue keeps OneMessage.
LEMMA NoNewMessage ==
  ASSUME OneMessage,
         \A n \in Msg : queue'[n].state \in InQueue => queue[n].state \in InQueue
  PROVE  OneMessage'
  BY DEF OneMessage, Twins, PostMsg

\* Sending with a singletonKey brings in a message whose key is free.
LEMMA SendOnce ==
  ASSUME Steady, TypeInv, HeldIsActive, OneMessage, NEW m \in Msg,
         ~Refused(m), Send(m), UNCHANGED held
  PROVE  HeldIsActive' /\ OneMessage'
<1>1. \A n \in Msg : queue[n].state \in InQueue => ~Twins(m, n)
  BY DEF Steady, Refused, Twins, PostMsg, SameQueue, Key, InQueue
<1>2. queue[m].state \notin InQueue \/ IsJobRun(m)
  BY <1>1 DEF Twins, PostMsg
<1>3. \A n \in Msg : queue'[n].state = (IF n = m THEN "created" ELSE queue[n].state)
  BY DEF Send, TypeInv, TypeOK
<1>4. m \notin held
  <2>1. queue[m].state \in InQueue => Refused(m)
    BY DEF Steady, Refused, SameQueue, InQueue
  <2> QED BY <2>1 DEF HeldIsActive, InQueue
<1>5. HeldIsActive'
  BY <1>3, <1>4 DEF HeldIsActive, TypeInv, TypeOK
<1>6. OneMessage'
  BY <1>1, <1>3 DEF OneMessage, Twins, PostMsg
<1> QED BY <1>5, <1>6

\* A batch that goes back to the queue was active.
LEMMA FailBatchOnce ==
  ASSUME TypeInv, HeldIsActive, OneMessage, NEW m \in held, FailBatch(m)
  PROVE  HeldIsActive' /\ OneMessage'
<1>1. \A n \in Msg : queue'[n] = (IF n \in Batch(m) THEN Returned(n) ELSE queue[n])
  BY DEF FailBatch
<1>2. Batch(m) \subseteq held /\ held' = held \ Batch(m) /\ held \subseteq Msg
  BY DEF FailBatch, Batch, TypeInv, TypeOK
<1>3. HeldIsActive'
  BY <1>1, <1>2 DEF HeldIsActive
<1>4. \A n \in Batch(m) : queue[n].state \in InQueue
  BY <1>2 DEF HeldIsActive, InQueue
<1>5. \A n \in Msg : queue'[n].state \in InQueue => queue[n].state \in InQueue
  BY <1>1, <1>4
<1> QED BY <1>3, <1>5, NoNewMessage

-----------------------------------------------------------------------------
(* The handlers.                                                           *)

\* A busy handler that takes a step without recording an item.
LEMMA MoveOnce ==
  ASSUME TypeInv, OnceInv, NEW x \in Exec, NEW l, Busy(x), Goto(x, l),
         UNCHANGED items,
         PostMsg(MsgOf(x)) /\ l \in Working =>
           pc[x] \in Working \/ ItemsOf(RunX(x), PostX(x)) = {}
  PROVE  OneHandler' /\ NoItemYet' /\ OneItemPerPost'
<1>1. \A y \in Exec : pc'[y] = (IF y = x THEN l ELSE pc[y])
  BY DEF Goto, TypeInv, TypeOK
<1>2. OneHandler'
  BY <1>1 DEF OnceInv, OneHandler, Busy, Twins, PostMsg
<1>3. NoItemYet'
  BY <1>1 DEF OnceInv, NoItemYet, ItemsOf
<1>4. OneItemPerPost'
  BY DEF OnceInv, OneItemPerPost
<1> QED BY <1>2, <1>3, <1>4

\* A handler that throws.
LEMMA ThrowOnce ==
  ASSUME TypeInv, OnceInv, NEW x \in Exec, Busy(x), Throw(x), UNCHANGED items
  PROVE  OnceInv'
<1>1. OneHandler' /\ NoItemYet' /\ OneItemPerPost'
  BY MoveOnce DEF Throw, Working
<1>2. HeldIsActive' /\ OneMessage'
  <2>1. CASE Owned(x)
    BY <2>1, FailBatchOnce DEF Throw, Owned, OnceInv
  <2>2. CASE ~Owned(x)
    BY <2>2 DEF Throw, qVars, OnceInv, HeldIsActive, OneMessage
  <2> QED BY <2>1, <2>2
<1> QED BY <1>1, <1>2 DEF OnceInv

\* Steps that leave the queue alone and record nothing.
LEMMA QuietOnce ==
  ASSUME TypeInv, OnceInv, NEW x \in Exec, NEW l, Busy(x), Goto(x, l),
         UNCHANGED <<items, queue, held>>,
         PostMsg(MsgOf(x)) /\ l \in Working =>
           pc[x] \in Working \/ ItemsOf(RunX(x), PostX(x)) = {}
  PROVE  OnceInv'
<1>1. OneHandler' /\ NoItemYet' /\ OneItemPerPost'
  BY MoveOnce
<1>2. HeldIsActive' /\ OneMessage'
  BY DEF OnceInv, HeldIsActive, OneMessage
<1> QED BY <1>1, <1>2 DEF OnceInv

\* The one step that records an item.
LEMMA RecordOnce ==
  ASSUME TypeInv, OnceInv, NEW x \in Exec, PostMsg(MsgOf(x)), Record(x)
  PROVE  OnceInv'
<1>1. Busy(x) /\ pc[x] \in Working
  BY DEF Record, Busy, Working
<1>2. \A y \in Exec : pc'[y] = (IF y = x THEN "finRun" ELSE pc[y])
  BY DEF Record, Goto, TypeInv, TypeOK
<1>3. ItemsOf(RunX(x), PostX(x)) = {}
  BY <1>1 DEF OnceInv, NoItemYet
<1>4. /\ items' = items \cup {Item(x)}
      /\ Item(x).run = RunX(x) /\ Item(x).post = PostX(x)
  BY DEF Record, Item
<1>5. OneItemPerPost'
  BY <1>3, <1>4 DEF OneItemPerPost, OnceInv, ItemsOf
<1>6. OneHandler'
  BY <1>1, <1>2 DEF OnceInv, OneHandler, Busy, Twins, PostMsg
<1>7. NoItemYet'
  <2> SUFFICES ASSUME NEW y \in Exec, PostMsg(MsgOf(y)), pc'[y] \in Working
               PROVE  ItemsOf(RunX(y), PostX(y))' = {}
    BY DEF NoItemYet
  <2>1. y # x /\ pc[y] \in Working
    BY <1>2 DEF Working
  <2>2. ItemsOf(RunX(y), PostX(y)) = {}
    BY <2>1 DEF OnceInv, NoItemYet
  <2>3. Busy(y)
    BY <2>1 DEF Busy, Working
  <2>4. ~(RunX(y) = RunX(x) /\ PostX(y) = PostX(x))
    BY <1>1, <2>1, <2>3 DEF OnceInv, OneHandler, Twins, RunX, PostX, MsgOf
  <2> QED BY <1>4, <2>2, <2>4 DEF ItemsOf
<1>8. HeldIsActive' /\ OneMessage'
  BY DEF Record, qVars, OnceInv, HeldIsActive, OneMessage
<1> QED BY <1>5, <1>6, <1>7, <1>8 DEF OnceInv

-----------------------------------------------------------------------------
(* Every step.                                                             *)

\* job.run sends a post once.
LEMMA JobRunOnce ==
  ASSUME Steady, TypeInv, OnceInv, NEW x \in Exec, JobRunStep(x)
  PROVE  OnceInv'
<1>1. ~PostMsg(MsgOf(x)) /\ Busy(x)
  BY DEF JobRunStep, PostMsg, Busy, CheckRun, LoadJob, GiveUp, CloseEmpty,
         ListPosts, SendPost
<1>2. CASE CheckRun(x) \/ GiveUp(x) \/ CloseEmpty(x) \/ \E L \in SUBSET Post : ListPosts(x, L)
  <2>1. UNCHANGED <<items, queue, held>> /\ \E l \in PcJobRun : Goto(x, l)
    BY <1>2 DEF CheckRun, GiveUp, CloseEmpty, ListPosts, Finish, qVars, dbVars, PcJobRun
  <2> QED BY <1>1, <2>1, QuietOnce
<1>3. CASE LoadJob(x)
  <2>1. UNCHANGED items
    BY <1>3 DEF LoadJob, dbVars
  <2>2. CASE Throw(x)
    BY <1>1, <2>1, <2>2, ThrowOnce
  <2>3. CASE ~Throw(x)
    <3>1. UNCHANGED <<queue, held>> /\ \E l \in {"list", "read"} : Goto(x, l)
      BY <1>3, <2>3 DEF LoadJob, qVars
    <3> QED BY <1>1, <2>1, <3>1, QuietOnce
  <2> QED BY <2>2, <2>3
<1>4. ASSUME NEW p \in Post, SendPost(x, p) PROVE OnceInv'
  <2> DEFINE m == <<RunX(x), p, x[2]>>
  <2>1. m \in Msg
    BY ExecParts DEF Msg
  <2>2. UNCHANGED <<items, held>> /\ (UNCHANGED queue \/ (~Refused(m) /\ Send(m)))
    BY <1>4 DEF SendPost, dbVars
  <2>3. HeldIsActive' /\ OneMessage'
    <3>1. CASE UNCHANGED queue
      BY <2>2, <3>1 DEF OnceInv, HeldIsActive, OneMessage
    <3>2. CASE ~Refused(m) /\ Send(m)
      BY <2>1, <2>2, <3>2, SendOnce DEF OnceInv
    <3> QED BY <2>2, <3>1, <3>2
  <2>4. \E l \in {"done", "send"} : Goto(x, l)
    BY <1>4 DEF SendPost, Finish, Goto, TypeInv, TypeOK
  <2> QED BY <1>1, <2>2, <2>3, <2>4, MoveOnce DEF OnceInv
<1> QED BY <1>2, <1>3, <1>4 DEF JobRunStep

\* A handler of post.process records for its own message.
LEMMA PostOnce ==
  ASSUME Steady, TypeInv, OnceInv, NEW x \in Exec, PostStep(x)
  PROVE  OnceInv'
<1>1. PostMsg(MsgOf(x)) /\ Busy(x)
  BY DEF PostStep, PostMsg, Busy, CheckItem, CheckRun, LoadJob, PreflightFails,
         ReadPost, RunPipeline, WritePost, SaveHash, Record, FinRun, FinItems,
         FinClose
<1>2. CASE CheckItem(x)
  <2>1. CASE ItemsOf(RunX(x), PostX(x)) # {}
    BY <1>1, <1>2, <2>1, QuietOnce DEF CheckItem, qVars, dbVars, Working
  <2>2. CASE ItemsOf(RunX(x), PostX(x)) = {}
    BY <1>1, <1>2, <2>2, QuietOnce DEF CheckItem, qVars, dbVars
  <2> QED BY <2>1, <2>2
<1>3. CASE CheckRun(x) \/ PreflightFails(x) \/ ReadPost(x)
           \/ (\E o \in Outcome : RunPipeline(x, o))
           \/ (\E ok \in BOOLEAN : WritePost(x, ok)) \/ SaveHash(x)
  <2>1. UNCHANGED <<items, queue, held>> /\ pc[x] \in Working
    BY <1>3 DEF CheckRun, PreflightFails, ReadPost, RunPipeline, WritePost,
                SaveHash, qVars, dbVars, Working
  <2>2. \E l : Goto(x, l)
    BY <1>3 DEF CheckRun, PreflightFails, ReadPost, RunPipeline, WritePost,
                SaveHash, Finish, Caught, AfterResult
  <2> QED BY <1>1, <2>1, <2>2, QuietOnce
<1>4. CASE LoadJob(x)
  <2>1. UNCHANGED items /\ pc[x] \in Working
    BY <1>4 DEF LoadJob, dbVars, Working
  <2>2. CASE Throw(x)
    BY <1>1, <2>1, <2>2, ThrowOnce
  <2>3. CASE ~Throw(x)
    <3>1. UNCHANGED <<queue, held>> /\ \E l : Goto(x, l)
      BY <1>4, <2>3 DEF LoadJob, qVars
    <3> QED BY <1>1, <2>1, <3>1, QuietOnce
  <2> QED BY <2>2, <2>3
<1>5. CASE Record(x)
  BY <1>1, <1>5, RecordOnce
<1>6. CASE FinRun(x) \/ FinItems(x) \/ FinClose(x)
  <2>1. UNCHANGED <<items, queue, held>> /\ \E l \in {"finItems", "finClose", "done"} : Goto(x, l)
    BY <1>6 DEF FinRun, FinItems, FinClose, Finish, qVars, dbVars
  <2> QED BY <1>1, <2>1, QuietOnce DEF Working
<1> QED BY <1>2, <1>3, <1>4, <1>5, <1>6 DEF PostStep

\* A batch is delivered: one handler more per message, of a key no handler
\* is busy with.
LEMMA FetchOnce ==
  ASSUME Steady, TypeInv, OnceInv,
         NEW S \in SUBSET {m \in Msg : queue[m].state \in Waiting}, Fetch(S)
  PROVE  OnceInv'
<1>1. /\ \A m \in Msg : queue'[m].state =
                        (IF m \in S THEN "active" ELSE queue[m].state)
      /\ held' = held \cup S
      /\ UNCHANGED items
  BY DEF Fetch, dbVars
<1>2. \A x \in Exec :
        pc'[x] = (IF MsgOf(x) \in S /\ x[2] = queue[MsgOf(x)].tries + 1
                  THEN Entry(MsgOf(x)) ELSE pc[x])
  BY DEF Fetch
<1>3. \A x \in Exec, m \in S : Busy(x) => ~(RunOf(m) = RunX(x) /\ PostOf(m) = PostX(x))
  BY DEF Fetch, Steady
<1>4. HeldIsActive' /\ OneMessage'
  <2>1. HeldIsActive'
    BY <1>1 DEF OnceInv, HeldIsActive, TypeInv, TypeOK
  <2> QED BY <1>1, <2>1, NoNewMessage DEF OnceInv, InQueue
<1>5. OneHandler'
  <2> SUFFICES ASSUME NEW x \in Exec, NEW y \in Exec, Twins(MsgOf(x), MsgOf(y)),
                      Busy(x)', Busy(y)'
               PROVE  x = y
    BY DEF OneHandler, Twins, PostMsg
  <2>1. ASSUME NEW u \in Exec, NEW v \in Exec, Twins(MsgOf(u), MsgOf(v)),
               MsgOf(u) \in S, Busy(v)
        PROVE  FALSE
    BY <1>3, <2>1 DEF Twins, RunX, PostX, MsgOf
  <2>2. CASE pc'[x] = pc[x] /\ pc'[y] = pc[y]
    BY <2>2 DEF OnceInv, OneHandler, Busy
  <2>3. CASE pc'[x] # pc[x] /\ pc'[y] # pc[y]
    <3>1. /\ MsgOf(x) \in S /\ x[2] = queue[MsgOf(x)].tries + 1
          /\ MsgOf(y) \in S /\ y[2] = queue[MsgOf(y)].tries + 1
      BY <1>2, <2>3
    <3>2. MsgOf(x) = MsgOf(y)
      BY <3>1, ExecParts DEF OnceInv, OneMessage, InQueue
    <3> QED BY <3>1, <3>2, ExecParts
  <2>4. CASE pc'[x] # pc[x] /\ pc'[y] = pc[y]
    BY <1>2, <2>1, <2>4 DEF Busy
  <2>5. CASE pc'[x] = pc[x] /\ pc'[y] # pc[y]
    BY <1>2, <2>1, <2>5 DEF Busy, Twins
  <2> QED BY <2>2, <2>3, <2>4, <2>5
<1>6. NoItemYet'
  <2> SUFFICES ASSUME NEW x \in Exec, PostMsg(MsgOf(x)), pc'[x] \in Working
               PROVE  ItemsOf(RunX(x), PostX(x)) = {}
    BY <1>1 DEF NoItemYet, ItemsOf
  <2>1. pc'[x] = pc[x]
    BY <1>2 DEF Entry, Working, PostMsg
  <2> QED BY <2>1 DEF OnceInv, NoItemYet
<1>7. OneItemPerPost'
  BY <1>1 DEF OnceInv, OneItemPerPost
<1> QED BY <1>4, <1>5, <1>6, <1>7 DEF OnceInv

\* Steps that leave handlers and items alone.
LEMMA IdleOnce ==
  ASSUME OnceInv, UNCHANGED <<pc, items>> PROVE OneHandler' /\ NoItemYet' /\ OneItemPerPost'
  BY DEF OnceInv, OneHandler, NoItemYet, OneItemPerPost, Busy, ItemsOf

\* A message is delivered to one handler at a time.
LEMMA QueueOnce ==
  ASSUME Steady, TypeInv, OnceInv, QueueStep PROVE OnceInv'
<1>1. ASSUME NEW m \in Msg, Settle(m) PROVE OnceInv'
  <2>1. /\ \A n \in Msg : queue'[n].state =
                          (IF n \in Batch(m) THEN "completed" ELSE queue[n].state)
        /\ held' = held \ Batch(m)
    BY <1>1 DEF Settle, TypeInv, TypeOK
  <2>2. HeldIsActive'
    BY <2>1 DEF OnceInv, HeldIsActive, TypeInv, TypeOK
  <2>3. OneMessage'
    BY <2>1, NoNewMessage DEF OnceInv, InQueue, Waiting
  <2> QED BY <1>1, <2>2, <2>3, IdleOnce DEF Settle, xVars, dbVars, OnceInv
<1>2. ASSUME NEW m \in Msg, Expire(m) PROVE OnceInv'
  <2>1. /\ \A n \in Msg : n # m => queue'[n] = queue[n]
        /\ queue[m].state \in InQueue /\ m \notin held /\ UNCHANGED held
    BY <1>2 DEF Expire, TypeInv, TypeOK, InQueue
  <2>2. HeldIsActive'
    BY <2>1 DEF OnceInv, HeldIsActive, TypeInv, TypeOK
  <2>3. OneMessage'
    BY <2>1, NoNewMessage DEF OnceInv
  <2> QED BY <1>2, <2>2, <2>3, IdleOnce DEF Expire, xVars, dbVars, OnceInv
<1>3. ASSUME NEW m \in Msg, TimeOut(m) PROVE OnceInv'
  BY <1>3 DEF TimeOut, Steady
<1> QED BY <1>1, <1>2, <1>3, FetchOnce DEF QueueStep

\* What opens a run sends its first message.
LEMMA OpenerOnce ==
  ASSUME Steady, TypeInv, OnceInv, OpenerStep PROVE OnceInv'
<1>1. ASSUME NEW r \in Run, SendOpener(r) PROVE OnceInv'
  <2> DEFINE m == <<r, opener[r].post, 1>>
  <2>1. m \in Msg
    BY TriesAreCounts DEF Msg, Attempt, TypeInv, TypeOK
  <2>2. UNCHANGED <<pc, items, held>> /\ (UNCHANGED queue \/ (~Refused(m) /\ Send(m)))
    BY <1>1 DEF SendOpener, xVars, dbVars
  <2>3. HeldIsActive' /\ OneMessage'
    <3>1. CASE UNCHANGED queue
      BY <2>2, <3>1 DEF OnceInv, HeldIsActive, OneMessage
    <3>2. CASE ~Refused(m) /\ Send(m)
      BY <2>1, <2>2, <3>2, SendOnce DEF OnceInv
    <3> QED BY <2>2, <3>1, <3>2
  <2> QED BY <2>2, <2>3, IdleOnce DEF OnceInv
<1>2. ASSUME NEW r \in Run, CancelRefused(r) PROVE OnceInv'
  BY <1>2, IdleOnce
  DEF CancelRefused, qVars, xVars, OnceInv, HeldIsActive, OneMessage
<1> QED BY <1>1, <1>2 DEF OpenerStep

\* Users only withdraw messages and open runs.
LEMMA UserOnce ==
  ASSUME TypeInv, OnceInv, UserStep PROVE OnceInv'
<1>1. ASSUME NEW r \in Run, CancelMessages(r) PROVE OnceInv'
  <2>1. \A n \in Msg : queue'[n] = queue[n] \/
          (queue[n].state \in Waiting /\ queue'[n].state = "cancelled")
    BY <1>1 DEF CancelMessages, TypeInv, TypeOK
  <2>2. HeldIsActive'
    BY <1>1, <2>1 DEF CancelMessages, OnceInv, HeldIsActive, TypeInv, TypeOK, Waiting
  <2>3. OneMessage'
    BY <2>1, NoNewMessage DEF OnceInv, InQueue
  <2> QED BY <1>1, <2>2, <2>3, IdleOnce DEF CancelMessages, xVars, dbVars, OnceInv
<1>2. CASE ~\E r \in Run : CancelMessages(r)
  <2>1. UNCHANGED <<pc, items, queue, held>>
    BY <1>2 DEF UserStep, OpenRun, RetryItem, CancelRun, RestoreItem, CheckDelete,
                DeleteJob, SetWorkspaceStatus, qVars, xVars, dbVars
  <2> QED BY <2>1, IdleOnce DEF OnceInv, HeldIsActive, OneMessage
<1> QED BY <1>1, <1>2

\* A crash leaves the messages of its handlers to be delivered again.
LEMMA FaultOnce ==
  ASSUME Steady, TypeInv, OnceInv, FaultStep PROVE OnceInv'
<1>1. CASE Crash
  BY <1>1 DEF Crash, dbVars, OnceInv, HeldIsActive, OneMessage, OneHandler,
              NoItemYet, OneItemPerPost, Busy, Working
<1>2. ASSUME NEW x \in Exec, StatementFails(x) PROVE FALSE
  BY <1>2 DEF StatementFails, Steady
<1> QED BY <1>1, <1>2 DEF FaultStep

\* The invariant holds at first.
LEMMA InitOnce == Init => OnceInv
  BY DEF Init, OnceInv, HeldIsActive, OneMessage, OneHandler, NoItemYet,
         OneItemPerPost, Busy, InQueue, Waiting, Working

\* Without overruns, failed statements and duplicated keys, a run records one
\* item per post, although workers die, users stop runs and messages are
\* delivered again.
THEOREM OneItemPerPostHolds == Steady => (Spec => []OneItemPerPost)
<1> SUFFICES ASSUME Steady PROVE Spec => []OneItemPerPost
  OBVIOUS
<1> DEFINE Inv == TypeInv /\ OnceInv
<1>1. Init => Inv
  BY InitType, InitOnce
<1>2. Inv /\ [Next]_vars => Inv'
  <2> SUFFICES ASSUME Inv, [Next]_vars PROVE Inv'
    OBVIOUS
  <2>1. TypeInv'
    BY StepType
  <2>2. CASE Next
    BY <2>1, <2>2, JobRunOnce, PostOnce, QueueOnce, OpenerOnce, UserOnce,
       FaultOnce DEF Next
  <2>3. CASE UNCHANGED vars
    BY <2>1, <2>3, IdleOnce DEF vars, OnceInv, HeldIsActive, OneMessage
  <2> QED BY <2>2, <2>3
<1>3. Inv => OneItemPerPost
  BY DEF OnceInv
<1> QED
  <2> HIDE DEF Inv
  <2> QED BY <1>1, <1>2, <1>3, PTL DEF Spec

-----------------------------------------------------------------------------
(* A row is opened once, and keeps its job.                                *)

RowsKept == \A r \in Run : run[r].status # "none" =>
              run'[r].status # "none" /\ run'[r].job = run[r].job

\* Closing a run takes no other row.
LEMMA ClosedRowsKept ==
  ASSUME TypeInv, NEW r \in Run, NEW s, NEW who, s # "none", CloseRun(r, s, who)
  PROVE  RowsKept
  BY DEF CloseRun, RowsKept, TypeInv, TypeOK, RunRow

\* No step takes back that a run was opened, or changes its job.
LEMMA StepKeepsRows == ASSUME TypeInv, [Next]_vars PROVE RowsKept
<1>1. CASE UNCHANGED run
  BY <1>1 DEF RowsKept
<1>2. ASSUME NEW x \in Exec, JobRunStep(x) PROVE RowsKept
  <2>1. RunX(x) \in Run
    BY ExecParts
  <2>2. CASE GiveUp(x) \/ CloseEmpty(x)
    BY <2>1, <2>2, ClosedRowsKept DEF GiveUp, CloseEmpty, CloseByLister
  <2>3. ASSUME NEW L \in SUBSET Post, ListPosts(x, L) PROVE RowsKept
    BY <2>1, <2>3 DEF ListPosts, RowsKept, TypeInv, TypeOK, RunRow
  <2> QED BY <1>1, <1>2, <2>2, <2>3 DEF JobRunStep, CheckRun, LoadJob, SendPost, dbVars
<1>3. ASSUME NEW x \in Exec, PostStep(x) PROVE RowsKept
  <2>1. CASE FinClose(x) /\ CloseRun(RunX(x), mem[x].status, "items")
    <3>1. mem[x].status # "none"
      BY <2>1 DEF FinClose, TypeInv, LocalsOK, LocalsAt, RunClosed
    <3> QED BY <2>1, <3>1, ExecParts, ClosedRowsKept
  <2>2. CASE ~(FinClose(x) /\ CloseRun(RunX(x), mem[x].status, "items"))
    <3>1. UNCHANGED run
      BY <1>3, <2>2 DEF PostStep, CheckItem, CheckRun, LoadJob, PreflightFails, ReadPost,
         RunPipeline, WritePost, SaveHash, Record, FinRun, FinItems, FinClose, dbVars
    <3> QED BY <1>1, <3>1
  <2> QED BY <2>1, <2>2
<1>4. CASE QueueStep
  BY <1>1, <1>4 DEF QueueStep, Fetch, Settle, Expire, TimeOut, dbVars
<1>5. CASE OpenerStep
  <2>1. ASSUME NEW r \in Run, CancelRefused(r) PROVE RowsKept
    BY <2>1, ClosedRowsKept DEF CancelRefused
  <2> QED BY <1>1, <1>5, <2>1 DEF OpenerStep, SendOpener, dbVars
<1>6. CASE UserStep
  <2>1. ASSUME NEW r \in Run, CancelRun(r) PROVE RowsKept
    BY <2>1, ClosedRowsKept DEF CancelRun
  <2>2. ASSUME NEW r \in Run, NEW j \in Job, OpenRun(r, j) PROVE RowsKept
    BY <2>2 DEF OpenRun, RowsKept, TypeInv, TypeOK, RunRow
  <2>3. ASSUME NEW r \in Run, NEW i \in items, RetryItem(i, r) PROVE RowsKept
    BY <2>3 DEF RetryItem, RowsKept, TypeInv, TypeOK, RunRow
  <2> QED
    BY <1>1, <1>6, <2>1, <2>2, <2>3
    DEF UserStep, CancelMessages, RestoreItem, CheckDelete, DeleteJob,
        SetWorkspaceStatus, dbVars
<1>7. CASE FaultStep
  BY <1>1, <1>7 DEF FaultStep, Crash, StatementFails, dbVars
<1> QED BY <1>1, <1>2, <1>3, <1>4, <1>5, <1>6, <1>7 DEF Next, vars

\* Whatever belongs to a run belongs to an opened one.
Opened ==
  /\ \A r \in Run : run[r].status # "none" => run[r].job \in Job
  /\ \A i \in items : run[i.run].status # "none"
  /\ \A x \in Exec : Busy(x) => run[RunX(x)].status # "none"
  /\ \A m \in Msg : queue[m].state # "free" => run[RunOf(m)].status # "none"
  /\ \A m \in held : queue[m].state # "free"
  /\ \A r \in Run : opener[r] # Idle => run[r].status # "none"

\* Items come from handlers, handlers from messages, messages from handlers
\* and openers, openers from rows just opened.
Descends ==
  /\ \A r \in Run : run'[r].status # "none" => run[r].status # "none" \/ run'[r].job \in Job
  /\ \A i \in items' : i \in items \/ \E x \in Exec : Busy(x) /\ i.run = RunX(x)
  /\ \A x \in Exec : Busy(x)' => Busy(x) \/ queue[MsgOf(x)].state # "free"
  /\ \A m \in Msg : queue'[m].state # "free" =>
       \/ queue[m].state # "free"
       \/ \E x \in Exec : Busy(x) /\ RunOf(m) = RunX(x)
       \/ opener[RunOf(m)] # Idle
  /\ \A m \in held' : queue'[m].state # "free"
  /\ \A r \in Run : opener'[r] # Idle => opener[r] # Idle \/ run'[r].status # "none"

\* What descends from an opened run belongs to an opened run.
LEMMA DescendsOpened ==
  ASSUME TypeInv, TypeInv', Opened, RowsKept, Descends PROVE Opened'
<1>1. \A m \in Msg : RunOf(m) \in Run
  BY DEF Msg, RunOf
<1>2. \A x \in Exec : MsgOf(x) \in Msg /\ RunX(x) = RunOf(MsgOf(x)) /\ RunX(x) \in Run
  BY ExecParts DEF RunX, MsgOf
<1>3. \A i \in items : i.run \in Run
  BY DEF TypeInv, TypeOK, ItemRow
<1>4. (\A r \in Run : run[r].status # "none" => run[r].job \in Job)'
  BY DEF Opened, RowsKept, Descends
<1>5. (\A i \in items : run[i.run].status # "none")'
  BY <1>2, <1>3 DEF Opened, RowsKept, Descends
<1>6. (\A x \in Exec : Busy(x) => run[RunX(x)].status # "none")'
  BY <1>2 DEF Opened, RowsKept, Descends, RunX
<1>7. (\A m \in Msg : queue[m].state # "free" => run[RunOf(m)].status # "none")'
  BY <1>1, <1>2 DEF Opened, RowsKept, Descends
<1>8. (\A m \in held : queue[m].state # "free")'
  BY DEF Descends
<1>9. (\A r \in Run : opener[r] # Idle => run[r].status # "none")'
  BY DEF Opened, RowsKept, Descends
<1> QED BY <1>4, <1>5, <1>6, <1>7, <1>8, <1>9 DEF Opened

\* A batch that goes back to the queue came from it.
LEMMA FailBatchDescends ==
  ASSUME TypeInv, Opened, NEW m \in Msg, FailBatch(m)
  PROVE  /\ \A n \in Msg : queue'[n].state # "free" <=> queue[n].state # "free"
         /\ held' \subseteq held
<1>1. \A n \in Msg : queue'[n] = (IF n \in Batch(m) THEN Returned(n) ELSE queue[n])
  BY DEF FailBatch
<1>2. Batch(m) \subseteq held /\ held' \subseteq held
  BY DEF FailBatch, Batch
<1>3. \A n \in Msg : Returned(n).state # "free"
  BY DEF Returned, TypeInv, TypeOK
<1> QED BY <1>1, <1>2, <1>3 DEF Opened

\* A step of a busy handler that sends nothing.
LEMMA MoveDescends ==
  ASSUME TypeInv, Opened, NEW x \in Exec, Busy(x), NEW l, Goto(x, l),
         \A r \in Run : run'[r].status # "none" => run[r].status # "none" \/ run'[r].job \in Job,
         items' \subseteq items \cup {Item(x)}, UNCHANGED opener,
         \/ UNCHANGED <<queue, held>>
         \/ FailBatch(MsgOf(x))
         \/ UNCHANGED held /\ \E p \in Post, k \in Attempt : Send(<<RunX(x), p, k>>)
  PROVE  Descends
<1>1. \A y \in Exec : Busy(y)' => Busy(y)
  BY DEF Goto, Busy, TypeInv, TypeOK
<1>2. \A i \in items' : i \in items \/ i.run = RunX(x)
  BY DEF Item
<1>3. \A m \in Msg : queue'[m].state # "free" => queue[m].state # "free" \/ RunOf(m) = RunX(x)
  <2>1. CASE FailBatch(MsgOf(x))
    BY <2>1, FailBatchDescends, ExecParts
  <2>2. ASSUME NEW p \in Post, NEW k \in Attempt, Send(<<RunX(x), p, k>>)
        PROVE  \A m \in Msg : queue'[m].state # "free" => queue[m].state # "free" \/ RunOf(m) = RunX(x)
    BY <2>2 DEF Send, RunOf, TypeInv, TypeOK
  <2> QED BY <2>1, <2>2
<1>4. \A m \in held' : queue'[m].state # "free"
  <2>1. CASE FailBatch(MsgOf(x))
    BY <2>1, FailBatchDescends, ExecParts DEF Opened, TypeInv, TypeOK
  <2>2. ASSUME NEW p \in Post, NEW k \in Attempt, Send(<<RunX(x), p, k>>), UNCHANGED held
        PROVE  \A m \in held' : queue'[m].state # "free"
    BY <2>2 DEF Send, Opened, TypeInv, TypeOK
  <2> QED BY <2>1, <2>2 DEF Opened
<1> QED BY <1>1, <1>2, <1>3, <1>4 DEF Descends, Busy

\* Steps of the handlers.
LEMMA HandlerDescends ==
  ASSUME TypeInv, TypeInv', Opened, NEW x \in Exec,
         \/ JobRunStep(x) \/ PostStep(x) \/ StatementFails(x)
  PROVE  Descends
<1>1. Busy(x)
  BY DEF JobRunStep, PostStep, StatementFails, Busy, CheckRun, LoadJob, GiveUp, CloseEmpty,
         ListPosts, SendPost, CheckItem, PreflightFails, ReadPost, RunPipeline, WritePost,
         SaveHash, Record, FinRun, FinItems, FinClose
<1>2. \E l : Goto(x, l)
  <2>1. ASSUME NEW p \in Post, SendPost(x, p) PROVE \E l : Goto(x, l)
    BY <2>1 DEF SendPost, Finish, Goto, TypeInv, TypeOK
  <2>2. CASE \E o \in Outcome : RunPipeline(x, o)
    BY <2>2 DEF RunPipeline
  <2>3. CASE \E ok \in BOOLEAN : WritePost(x, ok)
    BY <2>3 DEF WritePost
  <2> QED
    BY <2>1, <2>2, <2>3
    DEF JobRunStep, PostStep, StatementFails, CheckRun, LoadJob, GiveUp, CloseEmpty,
        ListPosts, CheckItem, PreflightFails, ReadPost, SaveHash, Record, FinRun, FinItems,
        FinClose, Finish, Throw, Caught
<1>3. \A r \in Run : run'[r].status # "none" => run[r].status # "none" \/ run'[r].job \in Job
  <2>1. run[RunX(x)].status # "none"
    BY <1>1 DEF Opened
  <2>2. \A r \in Run : r # RunX(x) => run'[r] = run[r]
    BY DEF JobRunStep, PostStep, StatementFails, CheckRun, LoadJob, GiveUp, CloseEmpty,
           ListPosts, SendPost, CheckItem, PreflightFails, ReadPost, RunPipeline, WritePost,
           SaveHash, Record, FinRun, FinItems, FinClose, CloseByLister, CloseRun, dbVars,
           TypeInv, TypeOK
  <2> QED BY <2>1, <2>2
<1>4. items' \subseteq items \cup {Item(x)} /\ UNCHANGED opener
  BY DEF JobRunStep, PostStep, StatementFails, CheckRun, LoadJob, GiveUp, CloseEmpty,
         ListPosts, SendPost, CheckItem, PreflightFails, ReadPost, RunPipeline, WritePost,
         SaveHash, Record, FinRun, FinItems, FinClose, dbVars, userVars
<1>5. \/ UNCHANGED <<queue, held>>
      \/ FailBatch(MsgOf(x))
      \/ UNCHANGED held /\ \E p \in Post, k \in Attempt : Send(<<RunX(x), p, k>>)
  <2>1. ASSUME NEW p \in Post, SendPost(x, p)
        PROVE  UNCHANGED held /\ (UNCHANGED queue \/ \E k \in Attempt : Send(<<RunX(x), p, k>>))
    BY <2>1, ExecParts DEF SendPost
  <2> QED
    BY <2>1
    DEF JobRunStep, PostStep, StatementFails, CheckRun, LoadJob, GiveUp, CloseEmpty,
        ListPosts, CheckItem, PreflightFails, ReadPost, RunPipeline, WritePost,
        SaveHash, Record, FinRun, FinItems, FinClose, Throw, qVars
<1> QED BY <1>1, <1>2, <1>3, <1>4, <1>5, MoveDescends

\* Steps of the queue.
LEMMA QueueDescends ==
  ASSUME TypeInv, Opened, QueueStep PROVE Descends
<1>1. ASSUME NEW S \in SUBSET {m \in Msg : queue[m].state \in Waiting}, Fetch(S) PROVE Descends
  <2>1. /\ \A m \in Msg : queue'[m].state = (IF m \in S THEN "active" ELSE queue[m].state)
        /\ held' = held \cup S /\ UNCHANGED <<run, items, opener>>
    BY <1>1 DEF Fetch, dbVars, userVars
  <2>2. ASSUME NEW x \in Exec, Busy(x)' PROVE Busy(x) \/ MsgOf(x) \in S
    BY <1>1, <2>2 DEF Fetch, Busy
  <2>3. \A m \in S : queue[m].state # "free"
    BY DEF Waiting
  <2>4. \A m \in Msg : queue'[m].state # "free" => queue[m].state # "free"
    BY <2>1, <2>3
  <2>5. \A m \in held' : queue'[m].state # "free"
    BY <2>1 DEF Opened, TypeInv, TypeOK
  <2> QED BY <2>1, <2>2, <2>3, <2>4, <2>5 DEF Descends
<1>2. ASSUME NEW m \in Msg, Settle(m) PROVE Descends
  <2>1. /\ \A n \in Msg : queue'[n].state = (IF n \in Batch(m) THEN "completed" ELSE queue[n].state)
        /\ held' \subseteq held /\ Batch(m) \subseteq held
        /\ UNCHANGED <<run, items, opener, pc>>
    BY <1>2 DEF Settle, Batch, xVars, dbVars, userVars, TypeInv, TypeOK
  <2> QED BY <2>1 DEF Descends, Opened, Busy, TypeInv, TypeOK
<1>3. ASSUME NEW m \in Msg, Expire(m) PROVE Descends
  <2>1. /\ \A n \in Msg : queue'[n].state # "free" <=> queue[n].state # "free"
        /\ UNCHANGED <<run, items, opener, pc, held>>
    BY <1>3 DEF Expire, Returned, xVars, dbVars, userVars, TypeInv, TypeOK
  <2> QED BY <2>1 DEF Descends, Opened, Busy, TypeInv, TypeOK
<1>4. ASSUME NEW m \in Msg, TimeOut(m) PROVE Descends
  <2>1. UNCHANGED <<run, items, opener, pc>> /\ FailBatch(m)
    BY <1>4 DEF TimeOut, xVars, dbVars, userVars
  <2> QED BY <2>1, FailBatchDescends DEF Descends, Opened, Busy, TypeInv, TypeOK
<1> QED BY <1>1, <1>2, <1>3, <1>4 DEF QueueStep

\* Steps of the openers.
LEMMA OpenerDescends ==
  ASSUME TypeInv, Opened, OpenerStep PROVE Descends
<1>1. ASSUME NEW r \in Run, SendOpener(r) PROVE Descends
  <2> DEFINE m == <<r, opener[r].post, 1>>
  <2>1. opener[r] # Idle /\ RunOf(m) = r
    BY <1>1 DEF SendOpener, Idle, RunOf
  <2>2. UNCHANGED <<run, items, pc, held>> /\ (UNCHANGED queue \/ Send(m))
    BY <1>1 DEF SendOpener, xVars, dbVars
  <2>3. \A q \in Run : opener'[q] # Idle => opener[q] # Idle
    BY <1>1, <2>1 DEF SendOpener, TypeInv, TypeOK
  <2> HIDE DEF m
  <2>4. \A n \in Msg : /\ queue'[n].state # "free" => queue[n].state # "free" \/ n = m
                       /\ queue[n].state # "free" => queue'[n].state # "free"
    BY <2>2 DEF Send, TypeInv, TypeOK
  <2> QED BY <2>1, <2>2, <2>3, <2>4 DEF Descends, Opened, Busy, TypeInv, TypeOK
<1>2. ASSUME NEW r \in Run, CancelRefused(r) PROVE Descends
  <2>1. opener[r] # Idle
    BY <1>2 DEF CancelRefused, Idle
  <2>2. /\ UNCHANGED <<items, queue, held, pc>>
        /\ \A q \in Run : run'[q].status # "none" => run[q].status # "none" \/ q = r
        /\ \A q \in Run : opener'[q] # Idle => opener[q] # Idle
    BY <1>2 DEF CancelRefused, CloseRun, qVars, xVars, TypeInv, TypeOK
  <2> QED BY <2>1, <2>2 DEF Descends, Opened, Busy
<1> QED BY <1>1, <1>2 DEF OpenerStep

\* Steps of the user and the administrator.
LEMMA UserDescends ==
  ASSUME TypeInv, Opened, UserStep PROVE Descends
<1>1. ASSUME NEW r \in Run, NEW j \in Job, OpenRun(r, j) PROVE Descends
  <2>1. /\ UNCHANGED <<items, queue, held, pc>>
        /\ \A q \in Run : q # r => run'[q] = run[q] /\ opener'[q] = opener[q]
        /\ run'[r].status = "running" /\ run'[r].job = j
    BY <1>1 DEF OpenRun, qVars, xVars, TypeInv, TypeOK, RunRow
  <2> QED BY <2>1 DEF Descends, Opened, Busy
<1>2. ASSUME NEW i \in items, NEW r \in Run, RetryItem(i, r) PROVE Descends
  <2>1. /\ UNCHANGED <<items, queue, held, pc>>
        /\ \A q \in Run : q # r => run'[q] = run[q] /\ opener'[q] = opener[q]
        /\ run'[r].status = "running" /\ run'[r].job \in Job
    BY <1>2 DEF RetryItem, qVars, xVars, TypeInv, TypeOK
  <2> QED BY <2>1 DEF Descends, Opened, Busy
<1>3. ASSUME NEW r \in Run, CancelRun(r) PROVE Descends
  <2>1. /\ UNCHANGED <<items, queue, held, pc, opener>>
        /\ \A q \in Run : q # r => run'[q] = run[q]
        /\ run[r].status # "none"
    BY <1>3 DEF CancelRun, CloseRun, qVars, xVars, TypeInv, TypeOK
  <2> QED BY <2>1 DEF Descends, Opened, Busy
<1>4. ASSUME NEW r \in Run, CancelMessages(r) PROVE Descends
  <2>1. /\ UNCHANGED <<run, items, held, pc, opener>>
        /\ \A m \in Msg : queue'[m].state # "free" <=> queue[m].state # "free"
    BY <1>4 DEF CancelMessages, xVars, dbVars, Waiting, TypeInv, TypeOK
  <2> QED BY <2>1 DEF Descends, Opened, Busy, TypeInv, TypeOK
<1>5. CASE UNCHANGED <<run, items, queue, held, pc, opener>>
  BY <1>5 DEF Descends, Opened, Busy
<1> QED
  BY <1>1, <1>2, <1>3, <1>4, <1>5
  DEF UserStep, RestoreItem, CheckDelete, DeleteJob, SetWorkspaceStatus, qVars, xVars,
      dbVars, userVars

\* Every step.
LEMMA StepOpened == ASSUME TypeInv, Opened, [Next]_vars PROVE Opened'
<1>1. TypeInv' /\ RowsKept
  BY StepType, StepKeepsRows
<1>2. CASE Crash
  <2>1. /\ UNCHANGED <<run, items, queue>> /\ held' = {}
        /\ \A x \in Exec : ~Busy(x)'
        /\ \A r \in Run : opener'[r] # Idle => opener[r] # Idle
    BY <1>2 DEF Crash, dbVars, Busy
  <2> QED BY <1>1, <2>1, DescendsOpened DEF Descends
<1>3. CASE UNCHANGED vars
  BY <1>3 DEF vars, Opened, Busy
<1> QED
  BY <1>1, <1>2, <1>3, DescendsOpened, HandlerDescends, QueueDescends, OpenerDescends, UserDescends
  DEF Next, FaultStep

\* No run is open at first.
LEMMA InitOpened == Init => Opened
  BY DEF Init, Opened, NoRun, Busy

-----------------------------------------------------------------------------
(* What a handler knows between two of its statements.                     *)

DoneBefore(x) == <<JobX(x), PostX(x)>> \in processed

TruthAt(x) ==
  /\ pc[x] = "pipe" /\ mem[x].known => DoneBefore(x)
  /\ pc[x] = "hash" => DoneBefore(x)
  /\ pc[x] = "record" /\ mem[x].status = "skipped" => DoneBefore(x)
  /\ pc[x] \in {"hash", "record"} /\ mem[x].status = "updated" =>
       <<RunX(x), PostX(x)>> \in wrote

Truth ==
  /\ \A j \in Job : \A p \in hash[j] : <<j, p>> \in processed
  /\ \A x \in Exec : TruthAt(x)
  /\ SkippedWasProcessed
  /\ UpdatedWasWritten

\* Nothing that was processed or written is forgotten, sources are remembered
\* of what was processed, and an item says what its handler knew.
Grows ==
  /\ processed \subseteq processed' /\ wrote \subseteq wrote'
  /\ \A j \in Job : \A p \in hash'[j] : p \in hash[j] \/ <<j, p>> \in processed'
  /\ \A i \in items' : i \in items \/ \E x \in Exec : pc[x] = "record" /\ i = Item(x)
  /\ \A x \in Exec : TruthAt(x)' \/ (pc'[x] = pc[x] /\ mem'[x] = mem[x])

\* A step that only adds what is true keeps the truth.
LEMMA GrowsTruth ==
  ASSUME TypeInv, Opened, Truth, RowsKept, Grows PROVE Truth'
<1>1. ASSUME NEW x \in Exec, Busy(x) PROVE JobX(x)' = JobX(x)
  BY <1>1, ExecParts DEF Opened, RowsKept, JobX
<1>2. (\A j \in Job : \A p \in hash[j] : <<j, p>> \in processed)'
  BY DEF Truth, Grows
<1>3. ASSUME NEW x \in Exec PROVE TruthAt(x)'
  <2>1. CASE pc'[x] = pc[x] /\ mem'[x] = mem[x]
    <3>1. TruthAt(x)
      BY DEF Truth
    <3> QED BY <1>1, <2>1, <3>1 DEF TruthAt, DoneBefore, Grows, Busy, JobX, RunX, PostX
  <2> QED BY <2>1 DEF Grows
<1>4. ASSUME NEW i \in items', i \notin items
      PROVE  \E x \in Exec : /\ pc[x] = "record" /\ Busy(x)
                             /\ i.run = RunX(x) /\ i.post = PostX(x) /\ i.status = mem[x].status
  BY <1>4 DEF Grows, Item, Busy
<1>5. ASSUME NEW i \in items', i.status = "skipped"
      PROVE  <<run'[i.run].job, i.post>> \in processed'
  <2>1. CASE i \in items
    BY <1>5, <2>1 DEF Truth, SkippedWasProcessed, Opened, RowsKept, Grows, TypeInv, TypeOK, ItemRow
  <2>2. CASE i \notin items
    <3>1. PICK x \in Exec : /\ pc[x] = "record" /\ Busy(x)
                            /\ i.run = RunX(x) /\ i.post = PostX(x) /\ i.status = mem[x].status
      BY <1>4, <2>2
    <3> QED BY <1>1, <1>5, <3>1 DEF Truth, TruthAt, DoneBefore, Grows, JobX, RunX
  <2> QED BY <2>1, <2>2
<1>6. ASSUME NEW i \in items', i.status = "updated" PROVE <<i.run, i.post>> \in wrote'
  BY <1>4, <1>6 DEF Truth, TruthAt, UpdatedWasWritten, Grows
<1> QED BY <1>2, <1>3, <1>5, <1>6 DEF Truth, SkippedWasProcessed, UpdatedWasWritten

\* One handler takes a step, and reaches l.
LEMMA MoveGrows ==
  ASSUME TypeInv, NEW x \in Exec, NEW l, NEW loc, Goto(x, l), mem' = [mem EXCEPT ![x] = loc],
         UNCHANGED run, processed \subseteq processed', wrote \subseteq wrote',
         \A j \in Job : \A p \in hash'[j] : p \in hash[j] \/ <<j, p>> \in processed',
         items' \subseteq items \/ (pc[x] = "record" /\ items' \subseteq items \cup {Item(x)}),
         l = "pipe" /\ loc.known => <<JobX(x), PostX(x)>> \in processed',
         l = "hash" => <<JobX(x), PostX(x)>> \in processed',
         l = "record" /\ loc.status = "skipped" => <<JobX(x), PostX(x)>> \in processed',
         l \in {"hash", "record"} /\ loc.status = "updated" => <<RunX(x), PostX(x)>> \in wrote'
  PROVE  Grows
<1>1. /\ pc'[x] = l /\ mem'[x] = loc
      /\ \A y \in Exec : y # x => pc'[y] = pc[y] /\ mem'[y] = mem[y]
  BY DEF Goto, TypeInv, TypeOK
<1>2. TruthAt(x)'
  BY <1>1 DEF TruthAt, DoneBefore, JobX
<1> QED BY <1>1, <1>2 DEF Grows

\* Steps after which the handler knows nothing the properties are about.
LEMMA IdleGrows ==
  ASSUME TypeInv, UNCHANGED <<processed, wrote>>, items' = items,
         \A j \in Job : hash'[j] \subseteq hash[j],
         \A x \in Exec : \/ pc'[x] = pc[x] /\ mem'[x] = mem[x]
                         \/ pc'[x] \notin {"pipe", "hash", "record"}
  PROVE  Grows
  BY DEF Grows, TruthAt

\* Steps of post.process.
LEMMA PostGrows ==
  ASSUME TypeInv, Opened, Truth, NEW x \in Exec, PostStep(x) PROVE Grows
<1>1. /\ RunX(x) \in Run /\ PostX(x) \in Post /\ mem[x] \in Locals /\ TruthAt(x)
      /\ Busy(x) => JobX(x) \in Job
  BY ExecParts DEF PostStep, TypeInv, TypeOK, Truth, Opened, JobX
<1>2. CASE CheckItem(x) \/ CheckRun(x) \/ LoadJob(x) \/ FinRun(x) \/ FinItems(x) \/ FinClose(x)
  BY <1>2, IdleGrows
  DEF CheckItem, CheckRun, LoadJob, FinRun, FinItems, FinClose, Finish, Throw, Goto,
      dbVars, wpVars, TypeInv, TypeOK, PostStep
<1>3. CASE PreflightFails(x)
  <2> DEFINE loc == [mem[x] EXCEPT !.status = "failed"]
  <2>1. Goto(x, "record") /\ mem' = [mem EXCEPT ![x] = loc] /\ loc.status = "failed"
    BY <1>1, <1>3 DEF PreflightFails, Locals
  <2> HIDE DEF loc
  <2> QED BY <1>3, <2>1, MoveGrows DEF PreflightFails, dbVars, wpVars
<1>4. CASE ReadPost(x)
  <2> DEFINE known == PostX(x) \in hash[JobX(x)]
             loc == [mem[x] EXCEPT !.base = wp[PostX(x)], !.known = known]
  <2>1. Goto(x, "pipe") /\ mem' = [mem EXCEPT ![x] = loc] /\ loc.known = known
    BY <1>1, <1>4 DEF ReadPost, Locals
  <2>2. known => <<JobX(x), PostX(x)>> \in processed
    BY <1>1, <1>4 DEF Truth, ReadPost, Busy
  <2> HIDE DEF loc, known
  <2> QED BY <1>4, <2>1, <2>2, MoveGrows DEF ReadPost, dbVars, wpVars
<1>5. ASSUME NEW o \in Outcome, RunPipeline(x, o) PROVE Grows
  <2>1. /\ processed \subseteq processed' /\ UNCHANGED <<run, items, hash, wrote>>
        /\ o = "no_change" => <<JobX(x), PostX(x)>> \in processed'
        /\ o = "skipped" => <<JobX(x), PostX(x)>> \in processed
    BY <1>1, <1>5 DEF RunPipeline, TruthAt, DoneBefore, dbVars
  <2>2. CASE o = "ready"
    <3>1. Goto(x, "write") /\ mem' = [mem EXCEPT ![x] = mem[x]]
      BY <1>5, <2>2 DEF RunPipeline, TypeInv, TypeOK
    <3> QED BY <2>1, <3>1, MoveGrows
  <2>3. CASE o # "ready"
    <3> DEFINE loc == [mem[x] EXCEPT !.base = NoContent, !.status = StatusOf(o)]
    <3>1. PICK l \in AfterResult(StatusOf(o)) : Goto(x, l) /\ mem' = [mem EXCEPT ![x] = loc]
      BY <1>5, <2>3 DEF RunPipeline
    <3>2. loc.status = StatusOf(o)
      BY <1>1 DEF Locals
    <3>3. /\ StatusOf(o) # "updated" /\ (StatusOf(o) = "skipped" => o = "skipped")
          /\ StatusOf(o) = "no_change" => o = "no_change"
      BY <2>3, ChoicesAreKnown DEF StatusOf, PipelineStatus
    <3>4. l = "hash" => o = "no_change"
      BY <3>3 DEF AfterResult
    <3>5. l # "pipe"
      BY DEF AfterResult
    <3> HIDE DEF loc
    <3> QED BY <2>1, <3>1, <3>2, <3>3, <3>4, <3>5, MoveGrows
  <2> QED BY <2>2, <2>3
<1>6. ASSUME NEW ok \in BOOLEAN, WritePost(x, ok) PROVE Grows
  <2> DEFINE s == IF ok THEN "updated" ELSE "wp_failed"
             loc == [mem[x] EXCEPT !.status = s]
  <2>1. PICK l \in AfterResult(s) : Goto(x, l) /\ mem' = [mem EXCEPT ![x] = loc]
    BY <1>6 DEF WritePost
  <2>2. loc.status = s
    BY <1>1 DEF Locals
  <2>3. /\ processed \subseteq processed' /\ wrote \subseteq wrote' /\ UNCHANGED <<run, items, hash>>
        /\ ok => /\ <<JobX(x), PostX(x)>> \in processed'
                 /\ <<RunX(x), PostX(x)>> \in wrote'
    BY <1>6 DEF WritePost, dbVars
  <2>4. (l = "hash" => ok) /\ l # "pipe"
    BY DEF AfterResult
  <2>5. s # "skipped" /\ (s = "updated" => ok)
    OBVIOUS
  <2> HIDE DEF loc, s
  <2> QED BY <2>1, <2>2, <2>3, <2>4, <2>5, MoveGrows
<1>7. CASE SaveHash(x)
  <2>1. CASE JobX(x) \in live
    <3>1. Goto(x, "record") /\ mem' = [mem EXCEPT ![x] = mem[x]] /\ UNCHANGED <<run, items, wpVars>>
      BY <1>7, <2>1 DEF SaveHash, TypeInv, TypeOK
    <3>2. <<JobX(x), PostX(x)>> \in processed
      BY <1>1, <1>7 DEF SaveHash, TruthAt, DoneBefore
    <3>3. \A j \in Job : \A p \in hash'[j] : p \in hash[j] \/ <<j, p>> \in processed
      BY <1>7, <2>1, <3>2 DEF SaveHash, TypeInv, TypeOK
    <3>4. mem[x].status = "updated" => <<RunX(x), PostX(x)>> \in wrote
      BY <1>1, <1>7 DEF SaveHash, TruthAt
    <3> QED BY <3>1, <3>2, <3>3, <3>4, MoveGrows DEF wpVars
  <2>2. CASE JobX(x) \notin live
    <3> DEFINE loc == [Blank EXCEPT !.phase = "catch", !.status = "failed"]
    <3>1. Goto(x, "record") /\ mem' = [mem EXCEPT ![x] = loc]
      BY <1>7, <2>2 DEF SaveHash, Caught
    <3>2. loc.status = "failed" /\ UNCHANGED <<run, items, hash, wpVars>>
      BY <1>7, <2>2 DEF SaveHash, Blank
    <3> HIDE DEF loc
    <3> QED BY <3>1, <3>2, MoveGrows DEF wpVars
  <2> QED BY <2>1, <2>2
<1>8. CASE Record(x)
  <2>1. Goto(x, "finRun") /\ mem' = [mem EXCEPT ![x] = mem[x]]
    BY <1>8 DEF Record, TypeInv, TypeOK
  <2> QED BY <1>8, <2>1, MoveGrows DEF Record, wpVars
<1> QED BY <1>2, <1>3, <1>4, <1>5, <1>6, <1>7, <1>8 DEF PostStep

\* Steps of job.run.
LEMMA JobRunGrows ==
  ASSUME TypeInv, NEW x \in Exec, JobRunStep(x) PROVE Grows
<1>1. UNCHANGED <<items, hash, wrote, processed>>
  BY DEF JobRunStep, CheckRun, LoadJob, GiveUp, CloseEmpty, ListPosts, SendPost, dbVars, wpVars
<1>2. ASSUME NEW p \in Post, SendPost(x, p) PROVE \A y \in Exec : y # x => pc'[y] = pc[y] /\ mem'[y] = mem[y]
  BY <1>2 DEF SendPost, Finish, Goto, TypeInv, TypeOK
<1>3. \A y \in Exec : y # x => pc'[y] = pc[y] /\ mem'[y] = mem[y]
  BY <1>2 DEF JobRunStep, CheckRun, LoadJob, GiveUp, CloseEmpty, ListPosts, Finish, Throw,
              Goto, TypeInv, TypeOK
<1>4. ASSUME NEW p \in Post, SendPost(x, p) PROVE pc'[x] \in {"send", "done"}
  BY <1>4 DEF SendPost, Finish, Goto, TypeInv, TypeOK
<1>5. pc'[x] \notin {"pipe", "hash", "record"}
  BY <1>4 DEF JobRunStep, CheckRun, LoadJob, GiveUp, CloseEmpty, ListPosts, Finish, Throw,
              Goto, TypeInv, TypeOK
<1> QED BY <1>1, <1>3, <1>5, IdleGrows

\* Steps of the queue, the openers and the user, and crashes.
LEMMA OtherGrows ==
  ASSUME TypeInv, QueueStep \/ OpenerStep \/ UserStep \/ Crash PROVE Grows
<1>1. ASSUME NEW S \in SUBSET {m \in Msg : queue[m].state \in Waiting}, Fetch(S) PROVE Grows
  BY <1>1, IdleGrows DEF Fetch, Entry, dbVars, wpVars
<1>2. CASE Crash
  BY <1>2, IdleGrows DEF Crash, dbVars, wpVars
<1>3. ASSUME NEW j \in Job, DeleteJob(j) PROVE Grows
  <2>1. \A k \in Job : hash'[k] \subseteq hash[k]
    BY <1>3 DEF DeleteJob, TypeInv, TypeOK
  <2> QED BY <1>3, <2>1, IdleGrows DEF DeleteJob, xVars, wpVars
<1>4. CASE UNCHANGED <<items, hash, wrote, processed, pc, mem>>
  BY <1>4, IdleGrows
<1>5. CASE QueueStep /\ ~\E S \in SUBSET {m \in Msg : queue[m].state \in Waiting} : Fetch(S)
  BY <1>4, <1>5 DEF QueueStep, Settle, Expire, TimeOut, xVars, dbVars, wpVars
<1>6. CASE OpenerStep
  BY <1>4, <1>6 DEF OpenerStep, SendOpener, CancelRefused, xVars, dbVars, wpVars
<1>7. CASE UserStep
  BY <1>3, <1>4, <1>7
  DEF UserStep, OpenRun, RetryItem, CancelRun, CancelMessages, RestoreItem, CheckDelete,
      SetWorkspaceStatus, xVars, dbVars, wpVars
<1> QED BY <1>1, <1>2, <1>5, <1>6, <1>7

\* A statement that fails.
LEMMA FaultGrows ==
  ASSUME TypeInv, NEW x \in Exec, StatementFails(x) PROVE Grows
<1>1. UNCHANGED <<run, items, hash, wrote, processed>>
  BY DEF StatementFails, dbVars, wpVars
<1>2. CASE Caught(x)
  <2> DEFINE loc == [Blank EXCEPT !.phase = "catch", !.status = "failed"]
  <2>1. Goto(x, "record") /\ mem' = [mem EXCEPT ![x] = loc] /\ loc.status = "failed"
    BY <1>2 DEF Caught, Blank
  <2> HIDE DEF loc
  <2> QED BY <1>1, <2>1, MoveGrows
<1>3. CASE Throw(x)
  BY <1>1, <1>3, IdleGrows DEF Throw, Goto, TypeInv, TypeOK
<1> QED BY <1>2, <1>3 DEF StatementFails

ResultInv == TypeInv /\ Opened /\ Truth

\* Every step.
LEMMA StepResult == ASSUME ResultInv, [Next]_vars PROVE ResultInv'
<1> USE DEF ResultInv
<1>1. TypeInv' /\ Opened' /\ RowsKept
  BY StepType, StepOpened, StepKeepsRows
<1>2. CASE Next
  <2>1. Grows
    BY <1>2, PostGrows, JobRunGrows, OtherGrows, FaultGrows DEF Next, FaultStep
  <2> QED BY <1>1, <2>1, GrowsTruth
<1>3. CASE UNCHANGED vars
  <2>1. Grows
    BY <1>3, IdleGrows DEF vars
  <2> QED BY <1>1, <2>1, GrowsTruth
<1> QED BY <1>2, <1>3

\* The invariant holds at first,
LEMMA InitResult == Init => ResultInv
<1> SUFFICES ASSUME Init PROVE Truth
  BY InitType, InitOpened DEF ResultInv
<1> QED BY DEF Init, Truth, TruthAt, SkippedWasProcessed, UpdatedWasWritten

\* and always.
LEMMA ResultsAreTrue == Spec => []ResultInv
  BY InitResult, StepResult, PTL DEF Spec

\* A post is skipped only if a run of its job published it or found it up to
\* date, in every environment.
THEOREM SkippedWasProcessedHolds == Spec => []SkippedWasProcessed
<1>1. ResultInv => SkippedWasProcessed
  BY DEF ResultInv, Truth
<1> QED BY <1>1, ResultsAreTrue, PTL

\* An item that says `updated` is about a post its run wrote, in every
\* environment.
THEOREM UpdatedWasWrittenHolds == Spec => []UpdatedWasWritten
<1>1. ResultInv => UpdatedWasWritten
  BY DEF ResultInv, Truth
<1> QED BY <1>1, ResultsAreTrue, PTL

-----------------------------------------------------------------------------
(* What a closed run says.  Beyond the assumptions above, the site lists   *)
(* the same posts to every delivery of job.run (no "drift").               *)
(*                                                                         *)
(* A run closed by its items has one for every post it listed, and its     *)
(* status is their verdict, although workers die.  If they do not, what a  *)
(* run wrote can be undone, and the run keeps the promise of RunLedger.    *)

Settled == Steady /\ "drift" \notin Env

-----------------------------------------------------------------------------
(* The posts of a run are fixed once, and nobody visits another one.       *)

Planned(r) == run[r].expected # NotListed
Visits(r, p) == Planned(r) /\ p \in run[r].listed

PlanInv ==
  /\ \A r \in Run : Planned(r) => run[r].expected = Cardinality(run[r].listed)
  /\ \A x \in Exec : PostMsg(MsgOf(x)) /\ Busy(x) => Visits(RunX(x), PostX(x))
  /\ \A m \in Msg : PostMsg(m) /\ queue[m].state # "free" => Visits(RunOf(m), PostOf(m))
  /\ \A i \in items : Visits(i.run, i.post)
  /\ \A r \in Run : opener[r].post # NoPost => Visits(r, opener[r].post)
  /\ \A x \in Exec : pc[x] = "send" => \A p \in mem[x].todo : Visits(RunX(x), p)
  /\ \A x \in Exec : pc[x] = "finItems" =>
       Planned(RunX(x)) /\ mem[x].want = run[RunX(x)].expected


PlanKept == \A r \in Run : run[r].status # "none" /\ Planned(r) =>
              run'[r].expected = run[r].expected /\ run'[r].listed = run[r].listed

\* Whatever stands for a post of a run comes from something that stood for it,
\* or from the plan.
PlanFollows ==
  /\ \A r \in Run : Planned(r)' => run'[r].expected = Cardinality(run'[r].listed)
  /\ \A x \in Exec : Busy(x)' => Busy(x) \/ queue[MsgOf(x)].state # "free"
  /\ \A m \in Msg : PostMsg(m) /\ queue'[m].state # "free" =>
       \/ queue[m].state # "free"
       \/ PostOf(m) = opener[RunOf(m)].post
       \/ \E x \in Exec : pc[x] = "send" /\ RunX(x) = RunOf(m) /\ PostOf(m) \in mem[x].todo
  /\ \A i \in items' : \/ i \in items
                       \/ \E x \in Exec : /\ PostMsg(MsgOf(x)) /\ Busy(x)
                                          /\ i.run = RunX(x) /\ i.post = PostX(x)
  /\ \A r \in Run : opener'[r].post # NoPost =>
       \/ opener'[r].post = opener[r].post
       \/ Planned(r)' /\ opener'[r].post \in run'[r].listed
  /\ \A x \in Exec : pc'[x] = "send" =>
       \/ pc[x] = "send" /\ mem'[x].todo \subseteq mem[x].todo
       \/ \A p \in mem'[x].todo : Visits(RunX(x), p)'
  /\ \A x \in Exec : pc'[x] = "finItems" =>
       \/ pc[x] = "finItems" /\ mem'[x].want = mem[x].want
       \/ Busy(x) /\ Planned(RunX(x)) /\ mem'[x].want = run[RunX(x)].expected

\* A step that follows the plan keeps the invariant.
LEMMA FollowsPlan ==
  ASSUME TypeInv, TypeInv', Opened, PlanInv, PlanKept, PlanFollows PROVE PlanInv'
<1>1. \A m \in Msg : RunOf(m) \in Run
  BY DEF Msg, RunOf
<1>2. \A x \in Exec : MsgOf(x) \in Msg /\ RunX(x) = RunOf(MsgOf(x)) /\ PostX(x) = PostOf(MsgOf(x))
                      /\ RunX(x) \in Run
  BY ExecParts DEF RunX, PostX, MsgOf
<1>3. \A i \in items : i.run \in Run
  BY DEF TypeInv, TypeOK, ItemRow
<1>4. ASSUME NEW r \in Run, NEW p, Visits(r, p), run[r].status # "none" PROVE Visits(r, p)'
  BY <1>4 DEF PlanKept, Visits, Planned
<1>5. \A r \in Run : opener[r].post # NoPost => opener[r] # Idle
  BY DEF Idle
<1>6. \A m \in Msg : PostMsg(m) => PostOf(m) # NoPost
  BY DEF PostMsg, IsJobRun
<1>7. (\A r \in Run : Planned(r) => run[r].expected = Cardinality(run[r].listed))'
  BY DEF PlanFollows
<1>8. (\A x \in Exec : PostMsg(MsgOf(x)) /\ Busy(x) => Visits(RunX(x), PostX(x)))'
  BY <1>2, <1>4 DEF PlanFollows, PlanInv, Opened, PostMsg, IsJobRun
<1>9. (\A m \in Msg : PostMsg(m) /\ queue[m].state # "free" => Visits(RunOf(m), PostOf(m)))'
  BY <1>1, <1>4, <1>5, <1>6 DEF PlanFollows, PlanInv, Opened, PostMsg, IsJobRun, Busy
<1>10. (\A i \in items : Visits(i.run, i.post))'
  BY <1>2, <1>3, <1>4 DEF PlanFollows, PlanInv, Opened
<1>11. (\A r \in Run : opener[r].post # NoPost => Visits(r, opener[r].post))'
  BY <1>4, <1>5 DEF PlanFollows, PlanInv, Opened, Visits, Planned
<1>12. (\A x \in Exec : pc[x] = "send" => \A p \in mem[x].todo : Visits(RunX(x), p))'
  BY <1>2, <1>4 DEF PlanFollows, PlanInv, Opened, Busy
<1>13. (\A x \in Exec : pc[x] = "finItems" =>
          Planned(RunX(x)) /\ mem[x].want = run[RunX(x)].expected)'
  BY <1>2 DEF PlanFollows, PlanInv, PlanKept, Opened, Planned, Busy
<1> QED BY <1>7, <1>8, <1>9, <1>10, <1>11, <1>12, <1>13 DEF PlanInv

\* A step that leaves the rows of the runs keeps every plan.
LEMMA RowsPlan ==
  ASSUME TypeInv, \A r \in Run : run'[r].expected = run[r].expected /\ run'[r].listed = run[r].listed
  PROVE  PlanKept /\ (PlanInv => \A r \in Run : Planned(r)' => run'[r].expected = Cardinality(run'[r].listed))
  BY DEF PlanKept, PlanInv, Planned

\* Closing a run does not change its plan.
LEMMA ClosedPlan ==
  ASSUME TypeInv, NEW r \in Run, NEW s, NEW who, CloseRun(r, s, who)
  PROVE  \A q \in Run : run'[q].expected = run[q].expected /\ run'[q].listed = run[q].listed
  BY DEF CloseRun, TypeInv, TypeOK, RunRow

\* A handler of post.process stays with the post of its message.
LEMMA PostPlan ==
  ASSUME TypeInv, Opened, PlanInv, NEW x \in Exec, PostStep(x) PROVE PlanKept /\ PlanFollows
<1>1. PostMsg(MsgOf(x)) /\ Busy(x)
  BY DEF PostStep, PostMsg, Busy, CheckItem, CheckRun, LoadJob, PreflightFails,
         ReadPost, RunPipeline, WritePost, SaveHash, Record, FinRun, FinItems,
         FinClose
<1>2. \A r \in Run : run'[r].expected = run[r].expected /\ run'[r].listed = run[r].listed
  <2>1. UNCHANGED run \/ \E s, who : CloseRun(RunX(x), s, who)
    BY DEF PostStep, CheckItem, CheckRun, LoadJob, PreflightFails, ReadPost, RunPipeline,
           WritePost, SaveHash, Record, FinRun, FinItems, FinClose, dbVars
  <2> QED BY <2>1, ClosedPlan, ExecParts
<1>3. \A y \in Exec : y # x => pc'[y] = pc[y] /\ mem'[y] = mem[y]
  BY DEF PostStep, CheckItem, CheckRun, LoadJob, PreflightFails, ReadPost, RunPipeline,
         WritePost, SaveHash, Record, FinRun, FinItems, FinClose, Finish, Throw, Caught, Goto,
         TypeInv, TypeOK
<1>4. /\ \A m \in Msg : queue'[m].state # "free" => queue[m].state # "free"
      /\ UNCHANGED opener
  <2>1. CASE LoadJob(x)
    BY <2>1, FailBatchDescends, ExecParts DEF LoadJob, Throw, qVars, userVars
  <2>2. CASE ~LoadJob(x)
    BY <2>2 DEF PostStep, CheckItem, CheckRun, PreflightFails, ReadPost, RunPipeline,
         WritePost, SaveHash, Record, FinRun, FinItems, FinClose, qVars, userVars
  <2> QED BY <2>1, <2>2
<1>5. \A i \in items' : i \in items \/ (i.run = RunX(x) /\ i.post = PostX(x))
  BY DEF PostStep, CheckItem, CheckRun, LoadJob, PreflightFails, ReadPost, RunPipeline,
         WritePost, SaveHash, Record, Item, FinRun, FinItems, FinClose, dbVars
<1>6. pc'[x] # "send"
  BY DEF PostStep, CheckItem, CheckRun, LoadJob, PreflightFails, ReadPost, RunPipeline,
         WritePost, SaveHash, Record, FinRun, FinItems, FinClose, Finish, Throw, Caught, Goto,
         AfterResult, PostMsg, TypeInv, TypeOK
<1>7. pc'[x] = "finItems" => Planned(RunX(x)) /\ mem'[x].want = run[RunX(x)].expected
  <2>1. CASE FinRun(x)
    BY <2>1 DEF FinRun, Planned, Finish, Goto, TypeInv, TypeOK, Locals
  <2>2. CASE ~FinRun(x)
    BY <2>2 DEF PostStep, CheckItem, CheckRun, LoadJob, PreflightFails, ReadPost, RunPipeline,
         WritePost, SaveHash, Record, FinItems, FinClose, Finish, Throw, Caught, Goto,
         AfterResult, TypeInv, TypeOK
  <2> QED BY <2>1, <2>2
<1>8. PlanFollows
  BY <1>1, <1>2, <1>3, <1>4, <1>5, <1>6, <1>7, RowsPlan DEF PlanFollows, Busy
<1> QED BY <1>2, <1>8, RowsPlan

\* job.run fixes the plan of a run that has none, and sends only its posts.
LEMMA JobRunPlan ==
  ASSUME Settled, TypeInv, Opened, PlanInv, NEW x \in Exec, JobRunStep(x)
  PROVE  PlanKept /\ PlanFollows
<1>1. ~PostMsg(MsgOf(x)) /\ Busy(x) /\ RunX(x) \in Run /\ run[RunX(x)].status # "none"
  BY ExecParts
  DEF JobRunStep, PostMsg, Busy, CheckRun, LoadJob, GiveUp, CloseEmpty, ListPosts, SendPost, Opened
<1>2. UNCHANGED <<items, opener>>
  BY DEF JobRunStep, CheckRun, LoadJob, GiveUp, CloseEmpty, ListPosts, SendPost, dbVars, userVars
<1>3. ASSUME NEW p \in Post, SendPost(x, p)
      PROVE  /\ \A y \in Exec : y # x => pc'[y] = pc[y] /\ mem'[y] = mem[y]
             /\ pc'[x] \in {"send", "done"}
             /\ pc'[x] = "send" => pc[x] = "send" /\ mem'[x].todo \subseteq mem[x].todo
  BY <1>3 DEF SendPost, Finish, Goto, TypeInv, TypeOK, Locals
<1>4. /\ \A y \in Exec : y # x => pc'[y] = pc[y] /\ mem'[y] = mem[y]
      /\ pc'[x] # "finItems"
  BY <1>3
  DEF JobRunStep, CheckRun, LoadJob, GiveUp, CloseEmpty, ListPosts, Finish, Throw, Goto,
      TypeInv, TypeOK
<1>5. CASE CheckRun(x) \/ LoadJob(x) \/ GiveUp(x) \/ CloseEmpty(x)
  <2>1. \A r \in Run : run'[r].expected = run[r].expected /\ run'[r].listed = run[r].listed
    <3>1. UNCHANGED run \/ \E s, who : CloseRun(RunX(x), s, who)
      BY <1>5 DEF CheckRun, LoadJob, GiveUp, CloseEmpty, CloseByLister, dbVars
    <3> QED BY <1>1, <3>1, ClosedPlan
  <2>2. \A m \in Msg : queue'[m].state # "free" => queue[m].state # "free"
    BY <1>5, FailBatchDescends, ExecParts
    DEF CheckRun, LoadJob, GiveUp, CloseEmpty, Throw, qVars
  <2>3. pc'[x] # "send"
    BY <1>5 DEF CheckRun, LoadJob, GiveUp, CloseEmpty, Finish, Throw, Goto, TypeInv, TypeOK
  <2> QED BY <1>1, <1>2, <1>4, <2>1, <2>2, <2>3, RowsPlan DEF PlanFollows, Busy
<1>6. ASSUME NEW L \in SUBSET Post, ListPosts(x, L) PROVE PlanKept /\ PlanFollows
  <2>1. /\ run'[RunX(x)].expected = Cardinality(L) /\ run'[RunX(x)].listed = L
        /\ \A r \in Run : r # RunX(x) => run'[r] = run[r]
        /\ pc'[x] = "send" => mem'[x].todo = L
        /\ UNCHANGED <<queue, held>>
    BY <1>1, <1>6 DEF ListPosts, Goto, qVars, TypeInv, TypeOK, RunRow, Locals
  <2>2. Planned(RunX(x)) => L = run[RunX(x)].listed
    BY <1>6 DEF ListPosts, Planned, Settled
  <2>3. Planned(RunX(x))'
    <3>1. Cardinality(L) \in Nat
      BY PostsAreFinite, FS_Subset, FS_CardinalityType
    <3> QED BY <2>1, <3>1 DEF Planned, NotListed
  <2>4. PlanKept
    BY <2>1, <2>2 DEF PlanKept, PlanInv, Planned
  <2>5. \A r \in Run : Planned(r)' => run'[r].expected = Cardinality(run'[r].listed)
    BY <2>1 DEF PlanInv, Planned
  <2>6. \A p \in L : Visits(RunX(x), p)'
    BY <2>1, <2>3 DEF Visits
  <2>7. PlanFollows
    BY <1>1, <1>2, <1>4, <2>1, <2>5, <2>6 DEF PlanFollows, Busy
  <2> QED BY <2>4, <2>7
<1>7. ASSUME NEW p \in Post, SendPost(x, p) PROVE PlanKept /\ PlanFollows
  <2>1. UNCHANGED run
    BY <1>7 DEF SendPost, dbVars
  <2>2. \A m \in Msg : queue'[m].state # "free" =>
          queue[m].state # "free" \/ (RunOf(m) = RunX(x) /\ PostOf(m) \in mem[x].todo)
    BY <1>7 DEF SendPost, Send, RunOf, PostOf, TypeInv, TypeOK
  <2>3. pc[x] = "send"
    BY <1>7 DEF SendPost
  <2>4. PlanKept /\ \A r \in Run : Planned(r)' => run'[r].expected = Cardinality(run'[r].listed)
    BY <2>1, RowsPlan
  <2> QED BY <1>1, <1>2, <1>3, <1>4, <1>7, <2>2, <2>3, <2>4 DEF PlanFollows, Busy
<1> QED BY <1>5, <1>6, <1>7 DEF JobRunStep

\* The queue delivers the messages it has.
LEMMA QueuePlan ==
  ASSUME TypeInv, Opened, PlanInv, QueueStep PROVE PlanKept /\ PlanFollows
<1>1. Descends
  BY QueueDescends
<1>2. UNCHANGED <<run, items, opener, mem>>
  BY DEF QueueStep, Fetch, Settle, Expire, TimeOut, xVars, dbVars, userVars
<1>3. \A x \in Exec : pc'[x] = pc[x] \/ pc'[x] \in {"run", "item"}
  BY DEF QueueStep, Fetch, Entry, Settle, Expire, TimeOut, xVars
<1>4. \A m \in Msg : queue'[m].state # "free" => queue[m].state # "free"
  <2>1. ASSUME NEW S \in SUBSET {m \in Msg : queue[m].state \in Waiting}, Fetch(S)
        PROVE  \A m \in Msg : queue'[m].state # "free" => queue[m].state # "free"
    BY <2>1 DEF Fetch, Waiting
  <2>2. ASSUME NEW n \in Msg, Settle(n)
        PROVE  \A m \in Msg : queue'[m].state # "free" => queue[m].state # "free"
    BY <2>2 DEF Settle, Batch, Opened, TypeInv, TypeOK
  <2>3. ASSUME NEW n \in Msg, Expire(n)
        PROVE  \A m \in Msg : queue'[m].state # "free" => queue[m].state # "free"
    BY <2>3 DEF Expire, TypeInv, TypeOK
  <2>4. ASSUME NEW n \in Msg, TimeOut(n)
        PROVE  \A m \in Msg : queue'[m].state # "free" => queue[m].state # "free"
    BY <2>4, FailBatchDescends DEF TimeOut
  <2> QED BY <2>1, <2>2, <2>3, <2>4 DEF QueueStep
<1>5. \A r \in Run : run'[r].expected = run[r].expected /\ run'[r].listed = run[r].listed
  BY <1>2
<1> QED BY <1>1, <1>2, <1>3, <1>4, <1>5, RowsPlan DEF PlanFollows, Descends

\* What opens a run gives it the plan of one post, or none yet.
LEMMA OpenerPlan ==
  ASSUME TypeInv, Opened, PlanInv, OpenerStep PROVE PlanKept /\ PlanFollows
<1>1. UNCHANGED <<items, pc, mem>>
  BY DEF OpenerStep, SendOpener, CancelRefused, xVars, dbVars
<1>2. \A r \in Run : run'[r].expected = run[r].expected /\ run'[r].listed = run[r].listed
  <2>1. UNCHANGED run \/ \E r \in Run : \E s, who : CloseRun(r, s, who)
    BY DEF OpenerStep, SendOpener, CancelRefused, dbVars
  <2> QED BY <2>1, ClosedPlan
<1>3. \A r \in Run : opener'[r].post # NoPost => opener'[r].post = opener[r].post
  BY DEF OpenerStep, SendOpener, CancelRefused, Idle, TypeInv, TypeOK
<1>4. \A m \in Msg : queue'[m].state # "free" =>
        queue[m].state # "free" \/ PostOf(m) = opener[RunOf(m)].post
  BY DEF OpenerStep, SendOpener, CancelRefused, Send, RunOf, PostOf, qVars, TypeInv, TypeOK
<1> QED BY <1>1, <1>2, <1>3, <1>4, RowsPlan DEF PlanFollows, Busy

\* Users stop, restore and delete without changing a plan.
LEMMA UserPlan ==
  ASSUME TypeInv, Opened, PlanInv, UserStep PROVE PlanKept /\ PlanFollows
<1>1. UNCHANGED <<items, pc, mem>>
  BY DEF UserStep, OpenRun, RetryItem, CancelRun, CancelMessages, RestoreItem, CheckDelete,
         DeleteJob, SetWorkspaceStatus, xVars, dbVars
<1>2. \A m \in Msg : queue'[m].state # "free" => queue[m].state # "free"
  BY DEF UserStep, OpenRun, RetryItem, CancelRun, CancelMessages, RestoreItem, CheckDelete,
         DeleteJob, SetWorkspaceStatus, qVars, Waiting, TypeInv, TypeOK
<1>3. ASSUME NEW i \in items, NEW r \in Run, RetryItem(i, r) PROVE PlanKept /\ PlanFollows
  <2>1. /\ run[r].status = "none" /\ run'[r].expected = 1 /\ run'[r].listed = {i.post}
        /\ opener'[r].post = i.post
        /\ \A q \in Run : q # r => run'[q] = run[q] /\ opener'[q] = opener[q]
    BY <1>3 DEF RetryItem, TypeInv, TypeOK
  <2>2. PlanKept
    BY <2>1 DEF PlanKept
  <2>3. \A q \in Run : Planned(q)' => run'[q].expected = Cardinality(run'[q].listed)
    <3>1. Cardinality({i.post}) = 1
      BY FS_Singleton
    <3> QED BY <2>1, <3>1 DEF PlanInv, Planned
  <2>4. Planned(r)' /\ opener'[r].post \in run'[r].listed
    BY <2>1 DEF Planned, NotListed
  <2> QED BY <1>1, <1>2, <2>1, <2>2, <2>3, <2>4 DEF PlanFollows, Busy
<1>4. ASSUME \A r \in Run : run'[r].expected = run[r].expected /\ run'[r].listed = run[r].listed,
             \A r \in Run : opener'[r].post # NoPost => opener'[r].post = opener[r].post
      PROVE  PlanKept /\ PlanFollows
  BY <1>1, <1>2, <1>4, RowsPlan DEF PlanFollows, Busy
<1>5. ASSUME NEW r \in Run, NEW j \in Job, OpenRun(r, j) PROVE PlanKept /\ PlanFollows
  BY <1>4, <1>5 DEF OpenRun, TypeInv, TypeOK, RunRow
<1>6. ASSUME NEW r \in Run, CancelRun(r) PROVE PlanKept /\ PlanFollows
  BY <1>4, <1>6, ClosedPlan DEF CancelRun
<1>7. CASE UNCHANGED <<run, opener>>
  BY <1>4, <1>7
<1> QED
  BY <1>3, <1>5, <1>6, <1>7
  DEF UserStep, CancelMessages, RestoreItem, CheckDelete, DeleteJob, SetWorkspaceStatus,
      dbVars, userVars

\* Nor does the death of a worker.
LEMMA FaultPlan ==
  ASSUME Settled, TypeInv, Opened, PlanInv, FaultStep PROVE PlanKept /\ PlanFollows
<1>1. Crash
  BY DEF FaultStep, StatementFails, Settled, Steady
<1>2. UNCHANGED <<run, items, queue>> /\ \A x \in Exec : pc'[x] = "off"
  BY <1>1 DEF Crash, dbVars
<1>3. \A r \in Run : opener'[r].post # NoPost => opener'[r].post = opener[r].post
  BY <1>1 DEF Crash, Idle
<1> QED BY <1>2, <1>3, RowsPlan DEF PlanFollows, Busy

\* Every step follows the plan.
LEMMA StepPlan ==
  ASSUME Settled, TypeInv, Opened, PlanInv, [Next]_vars PROVE PlanKept /\ PlanInv'
<1>1. PlanKept /\ PlanFollows
  <2>1. CASE UNCHANGED vars
    BY <2>1, RowsPlan DEF vars, PlanFollows, Busy
  <2> QED BY <2>1, PostPlan, JobRunPlan, QueuePlan, OpenerPlan, UserPlan, FaultPlan DEF Next
<1> QED BY <1>1, StepType, FollowsPlan

-----------------------------------------------------------------------------
(* A run with an item for every post gets no other one, so a count of its  *)
(* items that reached the plan stays right until the row is written and    *)
(* ever after.                                                             *)

Complete(r) == Planned(r) /\ \A p \in run[r].listed : ItemsOf(r, p) # {}

CloseInv ==
  /\ \A x \in Exec : pc[x] = "finClose" =>
       Complete(RunX(x)) /\ mem[x].status = VerdictOf(RunX(x))
  /\ \A r \in Run : run[r].by = "items" =>
       Complete(r) /\ run[r].status = VerdictOf(r)

\* Items are only added, by handlers that have checked for one; a handler
\* closes after it counted; a run closed by its items was closed by such a
\* handler, and is left alone.
CloseFollows ==
  /\ items \subseteq items'
  /\ \A i \in items' : \/ i \in items
                       \/ \E x \in Exec : /\ PostMsg(MsgOf(x)) /\ pc[x] = "record"
                                          /\ i.run = RunX(x) /\ i.post = PostX(x)
  /\ \A x \in Exec : pc'[x] = "finClose" =>
       \/ pc[x] = "finClose" /\ mem'[x].status = mem[x].status
       \/ /\ pc[x] = "finItems"
          /\ Cardinality(ItemsIn(RunX(x))) >= mem[x].want
          /\ mem'[x].status = VerdictOf(RunX(x))
  /\ \A r \in Run : run'[r].by = "items" =>
       \/ run[r].by = "items" /\ run'[r].status = run[r].status
       \/ \E x \in Exec : pc[x] = "finClose" /\ RunX(x) = r /\ run'[r].status = mem[x].status

\* As many items as posts, one per post and each of a listed post: every post
\* has one.
LEMMA CountIsComplete ==
  ASSUME TypeInv, OneItemPerPost, PlanInv, NEW r \in Run, Planned(r),
         Cardinality(ItemsIn(r)) >= run[r].expected
  PROVE  Complete(r)
<1> SUFFICES ASSUME NEW p \in run[r].listed, ItemsOf(r, p) = {} PROVE FALSE
  BY DEF Complete
<1> DEFINE L == run[r].listed
           S == ItemsIn(r)
           f == [i \in S |-> i.post]
<1>1. L \in SUBSET Post
  BY DEF TypeInv, TypeOK, RunRow
<1>2. IsFiniteSet(L) /\ IsFiniteSet(L \ {p}) /\ Cardinality(L) \in Nat
      /\ Cardinality(L \ {p}) = Cardinality(L) - 1
  <2>1. IsFiniteSet(L)
    BY <1>1, PostsAreFinite, FS_Subset
  <2> QED BY <2>1, FS_CardinalityType, FS_RemoveElement
<1>3. f \in Injection(S, L \ {p})
  <2>1. \A i \in S : i.post \in L \ {p}
    BY DEF ItemsIn, ItemsOf, PlanInv, Visits
  <2>2. \A a, b \in S : a.post = b.post => a = b
    BY DEF ItemsIn, OneItemPerPost
  <2> QED BY <2>1, <2>2 DEF Injection, IsInjective
<1>4. IsFiniteSet(S) /\ Cardinality(S) <= Cardinality(L) - 1
  <2> HIDE DEF f, S, L
  <2> QED BY <1>2, <1>3, FS_Injection
<1>5. Cardinality(S) \in Nat
  BY <1>4, FS_CardinalityType
<1>6. run[r].expected = Cardinality(L)
  BY DEF PlanInv
<1> HIDE DEF S, L
<1>7. Cardinality(S) >= Cardinality(L)
  BY <1>6 DEF S
<1> QED BY <1>2, <1>4, <1>5, <1>7

\* Nobody records an item of a complete run.
LEMMA CompleteIsFrozen ==
  ASSUME TypeInv, OnceInv, PlanInv, PlanKept, CloseFollows, NEW r \in Run, Complete(r),
         run[r].status # "none"
  PROVE  Complete(r)' /\ ItemsIn(r)' = ItemsIn(r) /\ VerdictOf(r)' = VerdictOf(r)
<1>1. ASSUME NEW x \in Exec, PostMsg(MsgOf(x)), pc[x] = "record" PROVE RunX(x) # r
  <2>1. ItemsOf(RunX(x), PostX(x)) = {}
    BY <1>1 DEF OnceInv, NoItemYet, Working
  <2>2. Visits(RunX(x), PostX(x))
    BY <1>1 DEF PlanInv, Busy
  <2> QED BY <2>1, <2>2 DEF Complete, Visits
<1>2. ItemsIn(r)' = ItemsIn(r)
  BY <1>1 DEF CloseFollows, ItemsIn
<1>3. Complete(r)'
  <2>1. run'[r].expected = run[r].expected /\ run'[r].listed = run[r].listed
    BY DEF PlanKept, Complete
  <2>2. \A p : ItemsOf(r, p)' = ItemsOf(r, p)
    BY <1>2 DEF ItemsOf, ItemsIn
  <2> QED BY <2>1, <2>2 DEF Complete, Planned
<1> QED BY <1>2, <1>3 DEF VerdictOf

\* A step that closes as allowed keeps the invariant of closed runs.
LEMMA FollowsClose ==
  ASSUME TypeInv, OnceInv, Opened, PlanInv, CloseInv, PlanKept, CloseFollows PROVE CloseInv'
<1>1. ASSUME NEW x \in Exec, pc'[x] = "finClose"
      PROVE  Complete(RunX(x))' /\ mem'[x].status = VerdictOf(RunX(x))'
  <2>1. RunX(x) \in Run /\ run[RunX(x)].status # "none"
    BY <1>1, ExecParts DEF CloseFollows, Opened, Busy
  <2>2. Complete(RunX(x)) /\ mem'[x].status = VerdictOf(RunX(x))
    <3>1. CASE pc[x] = "finClose" /\ mem'[x].status = mem[x].status
      BY <3>1 DEF CloseInv
    <3>2. CASE ~(pc[x] = "finClose" /\ mem'[x].status = mem[x].status)
      <4>1. /\ pc[x] = "finItems" /\ mem'[x].status = VerdictOf(RunX(x))
            /\ Cardinality(ItemsIn(RunX(x))) >= mem[x].want
        BY <1>1, <3>2 DEF CloseFollows
      <4>2. Planned(RunX(x)) /\ mem[x].want = run[RunX(x)].expected
        BY <4>1 DEF PlanInv
      <4> QED BY <2>1, <4>1, <4>2, CountIsComplete DEF OnceInv
    <3> QED BY <3>1, <3>2
  <2> QED BY <2>1, <2>2, CompleteIsFrozen
<1>2. ASSUME NEW r \in Run, run'[r].by = "items"
      PROVE  Complete(r)' /\ run'[r].status = VerdictOf(r)'
  <2>1. CASE run[r].by = "items" /\ run'[r].status = run[r].status
    <3>1. Complete(r) /\ run[r].status = VerdictOf(r)
      BY <2>1 DEF CloseInv
    <3>2. run[r].status # "none"
      BY <3>1 DEF VerdictOf, Verdict
    <3> QED BY <2>1, <3>1, <3>2, CompleteIsFrozen
  <2>2. CASE ~(run[r].by = "items" /\ run'[r].status = run[r].status)
    <3>1. PICK x \in Exec : pc[x] = "finClose" /\ RunX(x) = r /\ run'[r].status = mem[x].status
      BY <1>2, <2>2 DEF CloseFollows
    <3>2. Complete(r) /\ run'[r].status = VerdictOf(r) /\ run[r].status # "none"
      BY <3>1 DEF CloseInv, Opened, Busy
    <3> QED BY <3>2, CompleteIsFrozen
  <2> QED BY <2>1, <2>2
<1> QED BY <1>1, <1>2 DEF CloseInv, RunX, MsgOf, RunOf

\* The handler that counts the last item closes the run with their verdict.
LEMMA PostCloses ==
  ASSUME TypeInv, NEW x \in Exec, PostStep(x) PROVE CloseFollows
<1>1. \A y \in Exec : y # x => pc'[y] = pc[y] /\ mem'[y] = mem[y]
  BY DEF PostStep, CheckItem, CheckRun, LoadJob, PreflightFails, ReadPost, RunPipeline,
         WritePost, SaveHash, Record, FinRun, FinItems, FinClose, Finish, Throw, Caught, Goto,
         TypeInv, TypeOK
<1>2. /\ items \subseteq items'
      /\ \A i \in items' : \/ i \in items
                           \/ pc[x] = "record" /\ i.run = RunX(x) /\ i.post = PostX(x)
  BY DEF PostStep, CheckItem, CheckRun, LoadJob, PreflightFails, ReadPost, RunPipeline,
         WritePost, SaveHash, Record, Item, FinRun, FinItems, FinClose, dbVars
<1>3. pc'[x] = "finClose" => /\ pc[x] = "finItems"
                             /\ Cardinality(ItemsIn(RunX(x))) >= mem[x].want
                             /\ mem'[x].status = VerdictOf(RunX(x))
  <2>1. CASE FinItems(x)
    BY <2>1 DEF FinItems, Finish, Goto, TypeInv, TypeOK, Locals
  <2>2. CASE ~FinItems(x)
    BY <2>2 DEF PostStep, CheckItem, CheckRun, LoadJob, PreflightFails, ReadPost, RunPipeline,
         WritePost, SaveHash, Record, FinRun, FinClose, Finish, Throw, Caught, Goto,
         AfterResult, TypeInv, TypeOK
  <2> QED BY <2>1, <2>2
<1>4. \A r \in Run : run'[r].by = "items" =>
        \/ run'[r] = run[r]
        \/ pc[x] = "finClose" /\ RunX(x) = r /\ run'[r].status = mem[x].status
  <2>1. CASE FinClose(x)
    BY <2>1, ExecParts DEF FinClose, CloseRun, TypeInv, TypeOK, RunRow
  <2>2. CASE ~FinClose(x)
    BY <2>2 DEF PostStep, CheckItem, CheckRun, LoadJob, PreflightFails, ReadPost, RunPipeline,
         WritePost, SaveHash, Record, FinRun, FinItems, dbVars
  <2> QED BY <2>1, <2>2
<1> QED BY <1>1, <1>2, <1>3, <1>4 DEF CloseFollows, PostStep, PostMsg

\* Steps that record nothing and close no run by its items.
LEMMA QuietCloses ==
  ASSUME TypeInv, UNCHANGED items,
         \A x \in Exec : pc'[x] = "finClose" => pc[x] = "finClose" /\ mem'[x] = mem[x],
         \/ UNCHANGED run
         \/ \E r \in Run : \E s, who : who # "items" /\ CloseRun(r, s, who)
         \/ \E r \in Run : /\ run[r].by # "items" => run'[r].by # "items"
                           /\ run'[r].status = run[r].status \/ run'[r].by # "items"
                           /\ \A q \in Run : q # r => run'[q] = run[q]
  PROVE  CloseFollows
<1>1. ASSUME NEW r \in Run, NEW s, NEW who, who # "items", CloseRun(r, s, who)
      PROVE  \A q \in Run : run'[q].by = "items" => run'[q] = run[q]
  BY <1>1 DEF CloseRun, TypeInv, TypeOK, RunRow
<1> QED BY <1>1 DEF CloseFollows

\* job.run closes with an item-less verdict only what has no items to come.
LEMMA JobRunCloses ==
  ASSUME TypeInv, NEW x \in Exec, JobRunStep(x) PROVE CloseFollows
<1>1. UNCHANGED items /\ RunX(x) \in Run
  BY ExecParts DEF JobRunStep, CheckRun, LoadJob, GiveUp, CloseEmpty, ListPosts, SendPost, dbVars
<1>2. ASSUME NEW p \in Post, SendPost(x, p)
      PROVE  \A y \in Exec : pc'[y] = "finClose" => pc[y] = "finClose" /\ mem'[y] = mem[y]
  BY <1>2 DEF SendPost, Finish, Goto, TypeInv, TypeOK
<1>3. \A y \in Exec : pc'[y] = "finClose" => pc[y] = "finClose" /\ mem'[y] = mem[y]
  BY <1>2 DEF JobRunStep, CheckRun, LoadJob, GiveUp, CloseEmpty, ListPosts, Finish, Throw,
              Goto, TypeInv, TypeOK
<1>4. CASE CheckRun(x) \/ LoadJob(x) \/ \E p \in Post : SendPost(x, p)
  BY <1>1, <1>3, <1>4, QuietCloses DEF CheckRun, LoadJob, SendPost, dbVars
<1>5. CASE GiveUp(x) \/ CloseEmpty(x)
  BY <1>1, <1>3, <1>5, QuietCloses DEF GiveUp, CloseEmpty, CloseByLister
<1>6. ASSUME NEW L \in SUBSET Post, ListPosts(x, L) PROVE CloseFollows
  <2>1. /\ run'[RunX(x)].by = run[RunX(x)].by /\ run'[RunX(x)].status = run[RunX(x)].status
        /\ \A q \in Run : q # RunX(x) => run'[q] = run[q]
    BY <1>1, <1>6 DEF ListPosts, TypeInv, TypeOK, RunRow
  <2> QED BY <1>1, <1>3, <2>1, QuietCloses
<1> QED BY <1>4, <1>5, <1>6 DEF JobRunStep

\* Everybody else stops a run or leaves it.
LEMMA OtherCloses ==
  ASSUME TypeInv, CloseInv, QueueStep \/ OpenerStep \/ UserStep \/ Crash PROVE CloseFollows
<1>1. UNCHANGED items
  BY DEF QueueStep, Fetch, Settle, Expire, TimeOut, OpenerStep, SendOpener, CancelRefused,
         UserStep, OpenRun, RetryItem, CancelRun, CancelMessages, RestoreItem, CheckDelete,
         DeleteJob, SetWorkspaceStatus, Crash, dbVars
<1>2. \A x \in Exec : pc'[x] = "finClose" => pc[x] = "finClose" /\ mem'[x] = mem[x]
  BY DEF QueueStep, Fetch, Entry, Settle, Expire, TimeOut, OpenerStep, SendOpener,
         CancelRefused, UserStep, OpenRun, RetryItem, CancelRun, CancelMessages, RestoreItem,
         CheckDelete, DeleteJob, SetWorkspaceStatus, Crash, xVars
<1>3. CASE \E r \in Run : CancelRefused(r) \/ CancelRun(r)
  BY <1>1, <1>2, <1>3, QuietCloses DEF CancelRefused, CancelRun
<1>4. ASSUME NEW r \in Run, NEW j \in Job, OpenRun(r, j) PROVE CloseFollows
  <2>1. /\ run'[r].by = run[r].by /\ run[r].status = "none"
        /\ \A q \in Run : q # r => run'[q] = run[q]
    BY <1>4 DEF OpenRun, TypeInv, TypeOK, RunRow
  <2>2. run[r].by # "items"
    BY <2>1 DEF CloseInv, VerdictOf, Verdict
  <2> QED BY <1>1, <1>2, <2>1, <2>2, QuietCloses
<1>5. ASSUME NEW i \in items, NEW r \in Run, RetryItem(i, r) PROVE CloseFollows
  <2>1. run'[r].by = "nobody" /\ \A q \in Run : q # r => run'[q] = run[q]
    BY <1>5 DEF RetryItem, TypeInv, TypeOK
  <2> QED BY <1>1, <1>2, <2>1, QuietCloses
<1>6. CASE UNCHANGED run
  BY <1>1, <1>2, <1>6, QuietCloses
<1> QED
  BY <1>3, <1>4, <1>5, <1>6
  DEF QueueStep, Fetch, Settle, Expire, TimeOut, OpenerStep, SendOpener, UserStep,
      CancelMessages, RestoreItem, CheckDelete, DeleteJob, SetWorkspaceStatus, Crash, dbVars

\* Every step closes as allowed.
LEMMA StepCloses ==
  ASSUME Settled, TypeInv, CloseInv, [Next]_vars PROVE CloseFollows
<1>1. CASE UNCHANGED vars
  BY <1>1, QuietCloses DEF vars
<1>2. CASE FaultStep
  <2>1. Crash
    BY <1>2 DEF FaultStep, StatementFails, Settled, Steady
  <2> QED BY <2>1, OtherCloses
<1> QED BY <1>1, <1>2, PostCloses, JobRunCloses, OtherCloses DEF Next

-----------------------------------------------------------------------------
(* All of it is invariant.                                                 *)

ClosedInv == TypeInv /\ OnceInv /\ Opened /\ PlanInv /\ CloseInv

\* The invariant holds at first,
LEMMA InitClosed == Init => ClosedInv
<1> SUFFICES ASSUME Init PROVE PlanInv /\ CloseInv
  BY InitType, InitOnce, InitOpened DEF ClosedInv
<1> QED BY DEF Init, PlanInv, CloseInv, NoRun, Idle, Planned, Busy

\* every step keeps it,
LEMMA StepClosed == ASSUME Settled, ClosedInv, [Next]_vars PROVE ClosedInv'
<1> USE DEF ClosedInv
<1>1. TypeInv' /\ Opened'
  BY StepType, StepOpened
<1>2. OnceInv'
  <2>1. CASE Next
    BY <2>1, JobRunOnce, PostOnce, QueueOnce, OpenerOnce, UserOnce, FaultOnce
    DEF Next, Settled
  <2>2. CASE UNCHANGED vars
    BY <1>1, <2>2, IdleOnce DEF vars, OnceInv, HeldIsActive, OneMessage
  <2> QED BY <2>1, <2>2
<1>3. PlanKept /\ PlanInv'
  BY StepPlan
<1>4. CloseInv'
  BY <1>3, StepCloses, FollowsClose
<1> QED BY <1>1, <1>2, <1>3, <1>4

\* so it always holds.
LEMMA ClosedAlways == ASSUME Settled PROVE Spec => []ClosedInv
<1>1. ClosedInv /\ [Next]_vars => ClosedInv'
  BY StepClosed
<1> QED BY <1>1, InitClosed, PTL DEF Spec

\* A run closed by its items has an item for every post it listed, and its
\* status is the verdict of the items it shows, although workers die, users
\* stop runs and messages are delivered again.
THEOREM ClosedRunIsRightHolds == Settled => (Spec => []ClosedRunIsRight)
<1> SUFFICES ASSUME Settled PROVE Spec => []ClosedRunIsRight
  OBVIOUS
<1>1. ClosedInv => ClosedRunIsRight
  BY DEF ClosedInv, CloseInv, Complete, ClosedRunIsRight, ClosedRunIsComplete,
         VerdictMatchesItems
<1> QED BY <1>1, ClosedAlways, PTL

-----------------------------------------------------------------------------
(* The worker process does not die: users still stop, retry, restore and   *)
(* delete, workspaces are suspended, batches fail together and are         *)
(* delivered again.                                                        *)

Calm == Settled /\ "crash" \notin Env

\* Nothing fails by itself.
LEMMA NoFault == ASSUME Calm PROVE ~FaultStep
  BY DEF Calm, Settled, Steady, FaultStep, Crash, StatementFails

-----------------------------------------------------------------------------
(* Content written by a run is known as such wherever it goes, and a       *)
(* handler that may write holds what the post held before its run.         *)

Writing == {"run", "job", "read", "pipe", "write"}
Kept(r, p) == \E i \in ItemsOf(r, p) : i.backup \notin {NoContent, r}
Keeping(x) == pc[x] \in {"hash", "record"} /\ mem[x].base \notin {NoContent, RunX(x)}

UndoInv ==
  /\ \A p \in Post : wp[p] \in Run => <<wp[p], p>> \in wrote
  /\ \A i \in items : i.backup \in Run => <<i.backup, i.post>> \in wrote
  /\ \A x \in Exec : PostMsg(MsgOf(x)) /\ mem[x].base \in Run => <<mem[x].base, PostX(x)>> \in wrote
  /\ \A x \in Exec : PostMsg(MsgOf(x)) /\ pc[x] \in Writing /\ JobX(x) \in live =>
       <<RunX(x), PostX(x)>> \notin wrote
  /\ \A x \in Exec : PostMsg(MsgOf(x)) /\ pc[x] \in {"pipe", "write"} /\ JobX(x) \in live =>
       mem[x].base \notin {NoContent, RunX(x)}
  /\ \A r \in Run, p \in Post : <<r, p>> \in wrote => run[r].status # "none"
  /\ \A r \in Run, p \in Post : <<r, p>> \in wrote /\ run[r].job \in live =>
       Kept(r, p) \/ \E x \in Exec : RunX(x) = r /\ PostX(x) = p /\ Keeping(x)

UndoFollows ==
  /\ items \subseteq items' /\ live' \subseteq live /\ wrote \subseteq wrote'
  /\ \A p \in Post : \/ wp'[p] = wp[p]
                     \/ <<wp'[p], p>> \in wrote'
                     \/ \E i \in items : i.post = p /\ wp'[p] = i.backup
  /\ \A i \in items' : \/ i \in items
                       \/ \E x \in Exec : PostMsg(MsgOf(x)) /\ pc[x] = "record" /\ i = Item(x)
  /\ \A x \in Exec : PostMsg(MsgOf(x)) =>
       \/ mem'[x].base \in {mem[x].base, NoContent}
       \/ mem'[x].base = wp[PostX(x)]
  /\ \A x \in Exec : PostMsg(MsgOf(x)) /\ pc'[x] \in Writing =>
       \/ pc[x] \in Writing
       \/ pc[x] = "item" /\ ItemsOf(RunX(x), PostX(x)) = {}
  /\ \A x \in Exec : PostMsg(MsgOf(x)) /\ pc'[x] \in {"pipe", "write"} =>
       \/ pc[x] \in {"pipe", "write"} /\ mem'[x].base = mem[x].base
       \/ pc[x] = "read" /\ mem'[x].base = wp[PostX(x)]
  /\ \A r \in Run, p \in Post : <<r, p>> \in wrote' =>
       \/ <<r, p>> \in wrote
       \/ \E x \in Exec : /\ PostMsg(MsgOf(x)) /\ RunX(x) = r /\ PostX(x) = p
                          /\ pc[x] = "write" /\ pc'[x] \in {"hash", "record"}
                          /\ mem'[x].base = mem[x].base
  /\ \A x \in Exec : PostMsg(MsgOf(x)) /\ pc[x] \in {"hash", "record"} /\ JobX(x) \in live' =>
       \/ pc'[x] \in {"hash", "record"} /\ mem'[x].base = mem[x].base
       \/ Item(x) \in items'

\* A step that writes as allowed keeps the invariant.
LEMMA FollowsUndo ==
  ASSUME TypeInv, TypeInv', OnceInv, Opened, UndoInv, RowsKept, UndoFollows PROVE UndoInv'
<1>1. \A x \in Exec : /\ RunX(x) \in Run /\ PostX(x) \in Post \cup {NoPost}
                      /\ PostMsg(MsgOf(x)) => PostX(x) \in Post
                      /\ PostX(x) \in Post => PostMsg(MsgOf(x))
  BY ExecParts, NullsAreDistinct DEF PostMsg, IsJobRun, PostX, MsgOf
<1>2. ASSUME NEW r \in Run, run[r].status # "none", run'[r].job \in live'
      PROVE  run[r].job \in live /\ run'[r].job = run[r].job /\ run'[r].status # "none"
  BY <1>2 DEF RowsKept, UndoFollows
<1>3. \A x \in Exec : Item(x).backup = mem[x].base /\ Item(x).post = PostX(x) /\ Item(x).run = RunX(x)
  BY DEF Item
<1>4. (\A p \in Post : wp[p] \in Run => <<wp[p], p>> \in wrote)'
  BY DEF UndoInv, UndoFollows
<1>5. (\A i \in items : i.backup \in Run => <<i.backup, i.post>> \in wrote)'
  BY <1>3 DEF UndoInv, UndoFollows
<1>6. ASSUME NEW x \in Exec, PostMsg(MsgOf(x)), mem'[x].base \in Run
      PROVE  <<mem'[x].base, PostX(x)>> \in wrote'
  BY <1>1, <1>6, NullsAreDistinct DEF UndoInv, UndoFollows
<1>7. ASSUME NEW x \in Exec, PostMsg(MsgOf(x)), pc'[x] \in Writing, run'[RunX(x)].job \in live'
      PROVE  <<RunX(x), PostX(x)>> \notin wrote'
  <2>1. Busy(x) /\ run[RunX(x)].job \in live
    BY <1>1, <1>2, <1>7 DEF UndoFollows, Opened, Busy, Writing
  <2>2. <<RunX(x), PostX(x)>> \notin wrote
    <3>1. CASE pc[x] \in Writing
      BY <1>7, <2>1, <3>1 DEF UndoInv, JobX
    <3>2. CASE pc[x] = "item" /\ ItemsOf(RunX(x), PostX(x)) = {}
      <4>1. ASSUME NEW y \in Exec, RunX(y) = RunX(x), PostX(y) = PostX(x), Keeping(y) PROVE FALSE
        <5>1. y = x
          BY <1>1, <1>7, <2>1, <4>1
          DEF OnceInv, OneHandler, Twins, Keeping, Busy, RunX, PostX, MsgOf
        <5> QED BY <3>2, <4>1, <5>1 DEF Keeping
      <4> QED BY <1>1, <1>7, <2>1, <3>2, <4>1 DEF UndoInv, Kept
    <3> QED BY <1>7, <3>1, <3>2 DEF UndoFollows
  <2>3. ASSUME NEW y \in Exec, PostMsg(MsgOf(y)), RunX(y) = RunX(x), PostX(y) = PostX(x),
               pc[y] = "write", pc'[y] \in {"hash", "record"}
        PROVE  FALSE
    <3>1. y = x
      BY <1>7, <2>1, <2>3 DEF OnceInv, OneHandler, Twins, Busy, RunX, PostX, MsgOf
    <3> QED BY <1>7, <2>3, <3>1 DEF Writing
  <2> QED BY <1>1, <1>7, <2>2, <2>3 DEF UndoFollows
<1>8. ASSUME NEW x \in Exec, PostMsg(MsgOf(x)), pc'[x] \in {"pipe", "write"}, run'[RunX(x)].job \in live'
      PROVE  mem'[x].base \notin {NoContent, RunX(x)}
  <2>1. run[RunX(x)].job \in live
    BY <1>1, <1>2, <1>8 DEF UndoFollows, Opened, Busy
  <2>2. CASE pc[x] \in {"pipe", "write"} /\ mem'[x].base = mem[x].base
    BY <1>8, <2>1, <2>2 DEF UndoInv, JobX
  <2>3. CASE pc[x] = "read" /\ mem'[x].base = wp[PostX(x)]
    <3>1. wp[PostX(x)] # NoContent
      BY <1>1, <1>8, NullsAreDistinct DEF TypeInv, TypeOK, Content
    <3>2. <<RunX(x), PostX(x)>> \notin wrote
      BY <1>8, <2>1, <2>3 DEF UndoInv, JobX, Writing
    <3> QED BY <1>1, <1>8, <2>3, <3>1, <3>2 DEF UndoInv
  <2> QED BY <1>8, <2>2, <2>3 DEF UndoFollows
<1>9. ASSUME NEW r \in Run, NEW p \in Post, <<r, p>> \in wrote'
      PROVE  run[r].status # "none" /\ run'[r].status # "none"
  BY <1>9 DEF UndoInv, UndoFollows, Opened, Busy, RowsKept
<1>10. ASSUME NEW r \in Run, NEW p \in Post, <<r, p>> \in wrote', run'[r].job \in live'
       PROVE  Kept(r, p)' \/ \E x \in Exec : RunX(x) = r /\ PostX(x) = p /\ Keeping(x)'
  <2>1. run[r].job \in live /\ run'[r].job = run[r].job
    BY <1>2, <1>9, <1>10
  <2>2. CASE Kept(r, p)
    BY <2>2 DEF Kept, ItemsOf, UndoFollows
  <2>3. ASSUME NEW x \in Exec, RunX(x) = r, PostX(x) = p, Keeping(x)
        PROVE  Kept(r, p)' \/ Keeping(x)'
    <3>1. CASE Item(x) \in items'
      BY <1>3, <2>3, <3>1 DEF Kept, Keeping, ItemsOf
    <3>2. CASE Item(x) \notin items'
      BY <1>1, <1>10, <2>1, <2>3, <3>2 DEF Keeping, UndoFollows, JobX, RunX, MsgOf
    <3> QED BY <3>1, <3>2
  <2>4. ASSUME NEW x \in Exec, PostMsg(MsgOf(x)), RunX(x) = r, PostX(x) = p,
               pc[x] = "write", pc'[x] \in {"hash", "record"}, mem'[x].base = mem[x].base
        PROVE  Keeping(x)'
    <3>1. mem[x].base \notin {NoContent, RunX(x)}
      BY <2>1, <2>4 DEF UndoInv, JobX
    <3> QED BY <2>4, <3>1 DEF Keeping, RunX, MsgOf
  <2> QED BY <1>10, <2>1, <2>2, <2>3, <2>4 DEF UndoInv, UndoFollows
<1> QED
  BY <1>4, <1>5, <1>6, <1>7, <1>8, <1>9, <1>10 DEF UndoInv, JobX, RunX, PostX, MsgOf

\* A handler of post.process writes once, and records what it replaced.
LEMMA PostUndoes ==
  ASSUME TypeInv, NEW x \in Exec, PostStep(x) PROVE UndoFollows
<1>1. \A y \in Exec : y # x => pc'[y] = pc[y] /\ mem'[y] = mem[y]
  BY DEF PostStep, CheckItem, CheckRun, LoadJob, PreflightFails, ReadPost, RunPipeline,
         WritePost, SaveHash, Record, FinRun, FinItems, FinClose, Finish, Throw, Caught, Goto,
         TypeInv, TypeOK
<1>2. PostMsg(MsgOf(x)) /\ RunX(x) \in Run /\ PostX(x) \in Post
  BY ExecParts DEF PostStep, PostMsg
<1>3. /\ items \subseteq items' /\ UNCHANGED live
      /\ \A i \in items' : i \in items \/ (pc[x] = "record" /\ i = Item(x))
  BY DEF PostStep, CheckItem, CheckRun, LoadJob, PreflightFails, ReadPost, RunPipeline,
         WritePost, SaveHash, Record, FinRun, FinItems, FinClose, dbVars, userVars
<1>4. \/ UNCHANGED <<wp, wrote>>
      \/ /\ wp' = [wp EXCEPT ![PostX(x)] = RunX(x)]
         /\ wrote' = wrote \cup {<<RunX(x), PostX(x)>>}
         /\ pc[x] = "write" /\ pc'[x] \in {"hash", "record"} /\ mem'[x].base = mem[x].base
  <2>1. ASSUME NEW ok \in BOOLEAN, WritePost(x, ok)
        PROVE  /\ pc[x] = "write" /\ pc'[x] \in {"hash", "record"} /\ mem'[x].base = mem[x].base
               /\ \/ UNCHANGED <<wp, wrote>>
                  \/ /\ wp' = [wp EXCEPT ![PostX(x)] = RunX(x)]
                     /\ wrote' = wrote \cup {<<RunX(x), PostX(x)>>}
    BY <2>1 DEF WritePost, AfterResult, Goto, TypeInv, TypeOK, Locals
  <2> QED
    BY <2>1 DEF PostStep, CheckItem, CheckRun, LoadJob, PreflightFails, ReadPost, RunPipeline,
                SaveHash, Record, FinRun, FinItems, FinClose, wpVars
<1>5. CASE CheckItem(x) \/ CheckRun(x) \/ FinRun(x) \/ FinItems(x) \/ FinClose(x) \/ LoadJob(x)
  <2>1. /\ mem'[x].base \in {mem[x].base, NoContent} /\ UNCHANGED <<wp, wrote>>
        /\ pc[x] \notin {"hash", "record"} /\ pc'[x] \notin {"pipe", "write"}
        /\ pc'[x] \in Writing =>
             pc[x] \in Writing \/ (pc[x] = "item" /\ ItemsOf(RunX(x), PostX(x)) = {})
    BY <1>5
    DEF CheckItem, CheckRun, FinRun, FinItems, FinClose, LoadJob, Finish, Throw, Goto, Blank,
        Writing, wpVars, TypeInv, TypeOK, Locals
  <2> QED BY <1>1, <1>2, <1>3, <2>1 DEF UndoFollows
<1>6. CASE PreflightFails(x) \/ ReadPost(x)
  <2>1. /\ mem'[x].base \in {mem[x].base, wp[PostX(x)]} /\ UNCHANGED <<wp, wrote>>
        /\ pc[x] = "read"
        /\ pc'[x] = "record" \/ (pc'[x] = "pipe" /\ mem'[x].base = wp[PostX(x)])
    BY <1>6 DEF PreflightFails, ReadPost, Goto, wpVars, TypeInv, TypeOK, Locals
  <2> QED BY <1>1, <1>2, <1>3, <2>1 DEF UndoFollows, Writing
<1>7. ASSUME NEW o \in Outcome, RunPipeline(x, o) PROVE UndoFollows
  <2>1. /\ mem'[x].base \in {mem[x].base, NoContent} /\ UNCHANGED <<wp, wrote>>
        /\ pc[x] = "pipe"
        /\ pc'[x] \in {"hash", "record"} \/ (pc'[x] = "write" /\ mem'[x].base = mem[x].base)
    BY <1>7 DEF RunPipeline, AfterResult, Goto, wpVars, TypeInv, TypeOK, Locals
  <2> QED BY <1>1, <1>2, <1>3, <2>1 DEF UndoFollows, Writing
<1>8. ASSUME NEW ok \in BOOLEAN, WritePost(x, ok) PROVE UndoFollows
  <2>1. pc[x] = "write" /\ pc'[x] \in {"hash", "record"} /\ mem'[x].base = mem[x].base
    BY <1>8 DEF WritePost, AfterResult, Goto, TypeInv, TypeOK, Locals
  <2>2. /\ \A p \in Post : wp'[p] = wp[p] \/ <<wp'[p], p>> \in wrote'
        /\ wrote \subseteq wrote'
        /\ \A r \in Run, p \in Post : <<r, p>> \in wrote' =>
             <<r, p>> \in wrote \/ (r = RunX(x) /\ p = PostX(x))
    BY <1>2, <1>4 DEF TypeInv, TypeOK
  <2> QED BY <1>1, <1>2, <1>3, <2>1, <2>2 DEF UndoFollows, Writing
<1>9. CASE SaveHash(x)
  <2>1. /\ pc[x] = "hash" /\ pc'[x] = "record" /\ UNCHANGED <<wp, wrote>>
        /\ mem'[x].base \in {mem[x].base, NoContent}
        /\ JobX(x) \in live => mem'[x].base = mem[x].base
    <3>1. UNCHANGED <<wp, wrote>> /\ pc[x] = "hash" /\ pc'[x] = "record"
      BY <1>9 DEF SaveHash, Caught, Goto, wpVars, TypeInv, TypeOK
    <3>2. CASE JobX(x) \in live
      BY <1>9, <3>1, <3>2 DEF SaveHash
    <3>3. CASE JobX(x) \notin live
      BY <1>9, <3>1, <3>3 DEF SaveHash, Caught, Blank, TypeInv, TypeOK
    <3> QED BY <3>2, <3>3
  <2> QED BY <1>1, <1>2, <1>3, <2>1 DEF UndoFollows, Writing
<1>10. CASE Record(x)
  <2>1. /\ pc[x] = "record" /\ pc'[x] = "finRun" /\ UNCHANGED <<wp, wrote, mem>>
        /\ Item(x) \in items'
    BY <1>10 DEF Record, Goto, wpVars, TypeInv, TypeOK
  <2> QED BY <1>1, <1>2, <1>3, <2>1 DEF UndoFollows, Writing
<1> QED BY <1>5, <1>6, <1>7, <1>8, <1>9, <1>10 DEF PostStep

\* Steps that are not of post.process keep what its handlers hold; a restore
\* puts back what an item kept.
LEMMA QuietUndoes ==
  ASSUME TypeInv, UNCHANGED <<items, wrote>>, live' \subseteq live,
         \/ UNCHANGED wp
         \/ \E i \in items : wp' = [wp EXCEPT ![i.post] = i.backup],
         \A x \in Exec : PostMsg(MsgOf(x)) =>
           mem'[x] = mem[x] /\ (pc'[x] = pc[x] \/ (pc'[x] = "item" /\ ~Busy(x)))
  PROVE  UndoFollows
<1>1. \A p \in Post : wp'[p] = wp[p] \/ \E i \in items : i.post = p /\ wp'[p] = i.backup
  BY DEF TypeInv, TypeOK
<1> QED BY <1>1 DEF UndoFollows, Writing, Busy

\* job.run writes nothing to the site.
LEMMA JobRunUndoes ==
  ASSUME TypeInv, NEW x \in Exec, JobRunStep(x) PROVE UndoFollows
<1>1. UNCHANGED <<items, wrote, live, wp>> /\ ~PostMsg(MsgOf(x))
  BY DEF JobRunStep, CheckRun, LoadJob, GiveUp, CloseEmpty, ListPosts, SendPost, dbVars, wpVars,
         userVars, PostMsg
<1>2. ASSUME NEW p \in Post, SendPost(x, p)
      PROVE  \A y \in Exec : y # x => pc'[y] = pc[y] /\ mem'[y] = mem[y]
  BY <1>2 DEF SendPost, Finish, Goto, TypeInv, TypeOK
<1>3. \A y \in Exec : y # x => pc'[y] = pc[y] /\ mem'[y] = mem[y]
  BY <1>2
  DEF JobRunStep, CheckRun, LoadJob, GiveUp, CloseEmpty, ListPosts, Finish, Throw, Goto,
      TypeInv, TypeOK
<1> QED BY <1>1, <1>3, QuietUndoes

\* A restore puts back content that is known as such.
LEMMA OtherUndoes ==
  ASSUME Calm, TypeInv, OnceInv, QueueStep \/ OpenerStep \/ UserStep PROVE UndoFollows
<1>1. UNCHANGED <<items, wrote>> /\ live' \subseteq live
  BY DEF QueueStep, Fetch, Settle, Expire, TimeOut, OpenerStep, SendOpener, CancelRefused,
         UserStep, OpenRun, RetryItem, CancelRun, CancelMessages, RestoreItem, CheckDelete,
         DeleteJob, SetWorkspaceStatus, dbVars, wpVars, userVars
<1>2. UNCHANGED mem
  BY DEF QueueStep, Fetch, Settle, Expire, TimeOut, OpenerStep, SendOpener, CancelRefused,
         UserStep, OpenRun, RetryItem, CancelRun, CancelMessages, RestoreItem, CheckDelete,
         DeleteJob, SetWorkspaceStatus, xVars
<1>3. ASSUME NEW S \in SUBSET {m \in Msg : queue[m].state \in Waiting}, Fetch(S)
      PROVE  \A x \in Exec : PostMsg(MsgOf(x)) => pc'[x] = pc[x] \/ (pc'[x] = "item" /\ ~Busy(x))
  <2>1. \A x \in Exec : MsgOf(x) \in S => ~Busy(x)
    BY <1>3 DEF Fetch, Calm, Settled, Steady, RunX, PostX, MsgOf
  <2> QED BY <1>3, <2>1 DEF Fetch, Entry, PostMsg
<1>4. \A x \in Exec : PostMsg(MsgOf(x)) => pc'[x] = pc[x] \/ (pc'[x] = "item" /\ ~Busy(x))
  BY <1>3
  DEF QueueStep, Settle, Expire, TimeOut, OpenerStep, SendOpener, CancelRefused,
      UserStep, OpenRun, RetryItem, CancelRun, CancelMessages, RestoreItem, CheckDelete,
      DeleteJob, SetWorkspaceStatus, xVars
<1>5. UNCHANGED wp \/ \E i \in items : wp' = [wp EXCEPT ![i.post] = i.backup]
  BY DEF QueueStep, Fetch, Settle, Expire, TimeOut, OpenerStep, SendOpener, CancelRefused,
         UserStep, OpenRun, RetryItem, CancelRun, CancelMessages, RestoreItem, CheckDelete,
         DeleteJob, SetWorkspaceStatus, wpVars
<1> QED BY <1>1, <1>2, <1>4, <1>5, QuietUndoes

\* Every step writes as allowed.
LEMMA StepUndo ==
  ASSUME Calm, ClosedInv, UndoInv, [Next]_vars PROVE UndoInv'
<1> USE DEF ClosedInv
<1>1. TypeInv' /\ RowsKept
  BY StepType, StepKeepsRows
<1>2. UndoFollows
  <2>1. CASE UNCHANGED vars
    BY <2>1, QuietUndoes DEF vars
  <2> QED BY <2>1, NoFault, PostUndoes, JobRunUndoes, OtherUndoes DEF Next
<1> QED BY <1>1, <1>2, FollowsUndo

\* Nothing is written at first.
LEMMA InitUndo == Init => UndoInv
  BY NullsAreDistinct DEF Init, UndoInv, Blank, Writing

\* What a run closed by its items wrote can be undone from the panel as long
\* as its job exists, unless a worker dies while it processes a post.
THEOREM WritesCanBeUndoneHolds == Calm => (Spec => []WritesCanBeUndone)
<1> SUFFICES ASSUME Calm PROVE Spec => []WritesCanBeUndone
  OBVIOUS
<1>1. Settled
  BY DEF Calm
<1>2. ClosedInv /\ UndoInv => WritesCanBeUndone
  <2> SUFFICES ASSUME ClosedInv, UndoInv, NEW r \in Run, NEW p \in Post, run[r].by = "items",
                      run[r].job \in live, <<r, p>> \in wrote
               PROVE  Kept(r, p)
    BY DEF WritesCanBeUndone, Kept
  <2>1. Complete(r)
    BY DEF ClosedInv, CloseInv
  <2>2. ASSUME NEW x \in Exec, RunX(x) = r, PostX(x) = p, Keeping(x) PROVE FALSE
    <3>1. PostMsg(MsgOf(x))
      BY <2>2, NullsAreDistinct DEF PostMsg, IsJobRun, PostX, MsgOf
    <3>2. ItemsOf(r, p) = {} /\ p \in run[r].listed
      BY <2>2, <3>1
      DEF ClosedInv, OnceInv, NoItemYet, PlanInv, Visits, Keeping, Working, Busy
    <3> QED BY <2>1, <3>2 DEF Complete
  <2> QED BY <2>2 DEF UndoInv
<1>3. UndoInv /\ ClosedInv /\ [Next]_vars => UndoInv'
  BY StepUndo
<1> QED BY <1>1, <1>2, <1>3, ClosedAlways, InitUndo, PTL DEF Spec

-----------------------------------------------------------------------------
(* The posts of a run are listed once: of its job.run message there is one *)
(* delivery at a time, it belongs to the handler that is busy with it, and *)
(* it does not come back once the posts are listed.  Until the message is  *)
(* sent, the run has nothing but its row.                                  *)

ListInv ==
  /\ \A m \in Msg : queue[m].state = "active" => m \in held
  /\ \A m, n \in held : IsJobRun(m) /\ IsJobRun(n) => m = n
  /\ \A m \in Msg : IsJobRun(m) /\ queue[m].state # "free" => m[3] = 1
  /\ \A x \in Exec : Busy(x) => queue[MsgOf(x)].state # "free"
  /\ \A x \in Exec : IsJobRun(MsgOf(x)) /\ Busy(x) => Owned(x)
  /\ \A m \in Msg : IsJobRun(m) /\ queue[m].state \in Waiting => ~Planned(RunOf(m))
  /\ \A x \in Exec : IsJobRun(MsgOf(x)) /\ pc[x] \in {"run", "job", "list"} => ~Planned(RunX(x))
  /\ \A x \in Exec : pc[x] = "empty" => Planned(RunX(x)) /\ run[RunX(x)].listed = {}
  /\ \A r \in Run : opener[r] # Idle =>
       /\ \A m \in Msg : RunOf(m) = r => queue[m].state = "free"
       /\ ItemsIn(r) = {}
       /\ opener[r].post = NoPost => ~Planned(r)
  /\ \A r \in Run : run[r].status = "none" => ~Planned(r)

ListFollows ==
  /\ \A m \in Msg : queue[m].state # "free" => queue'[m].state # "free"
  /\ \A m \in Msg : queue'[m].state # "free" =>
       \/ queue[m].state # "free"
       \/ opener[RunOf(m)] # Idle /\ opener'[RunOf(m)] = Idle /\ m[3] = 1
       \/ PostMsg(m) /\ \E x \in Exec : Busy(x) /\ RunX(x) = RunOf(m)
  /\ \A m \in Msg : queue'[m].state = "active" => m \in held'
  /\ \A m, n \in held' : IsJobRun(m) /\ IsJobRun(n) => m = n
  /\ \A x \in Exec : IsJobRun(MsgOf(x)) /\ Busy(x)' => Owned(x)'
  /\ \A m \in Msg : IsJobRun(m) /\ queue'[m].state \in Waiting =>
       \/ queue[m].state \in Waiting
       \/ opener[RunOf(m)] # Idle /\ opener[RunOf(m)].post = NoPost
       \/ \E x \in Exec : MsgOf(x) = m /\ pc[x] = "job"
  /\ \A r \in Run : Planned(r)' =>
       \/ Planned(r)
       \/ run[r].status = "none" /\ run'[r].status # "none" /\ opener'[r].post # NoPost
       \/ \E x \in Exec : /\ IsJobRun(MsgOf(x)) /\ RunX(x) = r
                          /\ pc[x] = "list" /\ pc'[x] \in {"send", "empty"}
  /\ \A x \in Exec : IsJobRun(MsgOf(x)) /\ pc'[x] \in {"run", "job", "list"} =>
       pc[x] \in {"run", "job", "list"} \/ queue[MsgOf(x)].state \in Waiting
  /\ \A x \in Exec : pc'[x] = "empty" =>
       pc[x] = "empty" \/ (Planned(RunX(x))' /\ run'[RunX(x)].listed = {})
  /\ \A r \in Run : opener'[r] # Idle =>
       \/ opener[r] # Idle /\ opener'[r].post = opener[r].post
       \/ run[r].status = "none"

\* A run has one job.run message, and one handler is busy with it.
LEMMA OneLister ==
  ASSUME ListInv, NEW x \in Exec, NEW m \in Msg, IsJobRun(MsgOf(x)), Busy(x), IsJobRun(m),
         queue[m].state # "free", RunOf(m) = RunX(x)
  PROVE  MsgOf(x) = m /\ Owned(x) /\ \A y \in Exec : MsgOf(y) = m /\ Busy(y) => y = x
<1>1. MsgOf(x) \in Msg /\ \A y \in Exec : y = <<MsgOf(y), y[2]>>
  BY ExecParts
<1>2. MsgOf(x)[3] = 1 /\ m[3] = 1 /\ Owned(x)
  BY <1>1 DEF ListInv
<1>3. MsgOf(x) = m
  BY <1>1, <1>2 DEF Msg, RunX, RunOf, IsJobRun, PostOf, MsgOf
<1>4. \A y \in Exec : MsgOf(y) = m /\ Busy(y) => y[2] = x[2]
  BY <1>2, <1>3 DEF ListInv, Owned
<1> QED BY <1>1, <1>2, <1>3, <1>4

\* A step that is allowed by ListFollows keeps the invariant.
LEMMA FollowsList ==
  ASSUME TypeInv, TypeInv', HeldIsActive, Opened, PlanKept, RowsKept, ListInv, Descends, ListFollows
  PROVE  ListInv'
<1>1. \A x \in Exec : MsgOf(x) \in Msg /\ RunX(x) = RunOf(MsgOf(x)) /\ RunX(x) \in Run
  BY ExecParts DEF RunX, MsgOf
<1>2. \A m \in Msg : RunOf(m) \in Run
  BY DEF Msg, RunOf
<1>3. \A i \in items : i.run \in Run
  BY DEF TypeInv, TypeOK, ItemRow
<1>4. (\A m \in Msg : IsJobRun(m) /\ queue[m].state # "free" => m[3] = 1)'
  BY DEF ListFollows, ListInv, PostMsg
<1>5. (\A x \in Exec : Busy(x) => queue[MsgOf(x)].state # "free")'
  BY <1>1 DEF ListFollows, ListInv, Descends
\* What waits or has not listed its posts still has none listed.
<1>6. ASSUME NEW y \in Exec, IsJobRun(MsgOf(y)), pc[y] = "list"
      PROVE  /\ Busy(y) /\ MsgOf(y) \in held /\ queue[MsgOf(y)].state = "active"
             /\ opener[RunX(y)] = Idle
  BY <1>1, <1>6 DEF ListInv, Busy, Owned, HeldIsActive
<1>7. ASSUME NEW m \in Msg, IsJobRun(m), queue[m].state \in Waiting PROVE ~Planned(RunOf(m))'
  <2>1. ~Planned(RunOf(m)) /\ run[RunOf(m)].status # "none" /\ queue[m].state # "free"
    BY <1>7 DEF ListInv, Opened, Waiting
  <2>2. ASSUME NEW y \in Exec, IsJobRun(MsgOf(y)), RunX(y) = RunOf(m), pc[y] = "list" PROVE FALSE
    BY <1>6, <1>7, <2>1, <2>2, OneLister DEF Waiting
  <2> QED BY <1>2, <2>1, <2>2 DEF ListFollows
<1>8. ASSUME NEW x \in Exec, IsJobRun(MsgOf(x)), pc[x] \in {"run", "job", "list"},
             pc[x] = "list" => pc'[x] \notin {"send", "empty"}
      PROVE  ~Planned(RunX(x))'
  <2>1. ~Planned(RunX(x)) /\ run[RunX(x)].status # "none" /\ Busy(x)
    BY <1>8 DEF ListInv, Opened, Busy
  <2>2. ASSUME NEW y \in Exec, IsJobRun(MsgOf(y)), RunX(y) = RunX(x), pc[y] = "list" PROVE y = x
    <3>1. queue[MsgOf(y)].state # "free" /\ Busy(y)
      BY <1>6, <2>2
    <3> QED BY <1>1, <1>8, <2>1, <2>2, <3>1, OneLister
  <2> QED BY <1>1, <1>8, <2>1, <2>2 DEF ListFollows
<1>9. (\A m \in Msg : IsJobRun(m) /\ queue[m].state \in Waiting => ~Planned(RunOf(m)))'
  <2> SUFFICES ASSUME NEW m \in Msg, IsJobRun(m), queue'[m].state \in Waiting
               PROVE  ~Planned(RunOf(m))'
    BY DEF IsJobRun, PostOf
  <2>1. ASSUME opener[RunOf(m)] # Idle, opener[RunOf(m)].post = NoPost PROVE ~Planned(RunOf(m))'
    <3>1. ~Planned(RunOf(m)) /\ run[RunOf(m)].status # "none"
      BY <1>2, <2>1 DEF ListInv, Opened
    <3>2. \A y \in Exec : IsJobRun(MsgOf(y)) /\ pc[y] = "list" => RunX(y) # RunOf(m)
      BY <1>6, <2>1
    <3> QED BY <1>2, <3>1, <3>2 DEF ListFollows
  <2>2. ASSUME NEW x \in Exec, MsgOf(x) = m, pc[x] = "job" PROVE ~Planned(RunOf(m))'
    BY <1>1, <1>8, <2>2
  <2> QED BY <1>7, <2>1, <2>2 DEF ListFollows
<1>10. (\A x \in Exec : IsJobRun(MsgOf(x)) /\ pc[x] \in {"run", "job", "list"} => ~Planned(RunX(x)))'
  BY <1>1, <1>7, <1>8 DEF ListFollows, IsJobRun, PostOf, MsgOf, RunX
<1>11. ASSUME NEW x \in Exec, pc'[x] = "empty" PROVE Planned(RunX(x))' /\ run'[RunX(x)].listed = {}
  BY <1>1, <1>11 DEF ListFollows, ListInv, Opened, PlanKept, Planned, Busy
<1>12. ASSUME NEW r \in Run, opener'[r] # Idle
       PROVE  /\ \A m \in Msg : RunOf(m) = r => queue'[m].state = "free"
              /\ ItemsIn(r)' = {}
              /\ opener'[r].post = NoPost => ~Planned(r)'
  <2>1. \A x \in Exec : Busy(x) => RunX(x) # r
    BY <1>1, <1>12 DEF ListFollows, ListInv, Opened
  <2>2. \A m \in Msg : RunOf(m) = r => queue[m].state = "free"
    BY <1>12 DEF ListFollows, ListInv, Opened
  <2>3. ItemsIn(r) = {}
    BY <1>12 DEF ListFollows, ListInv, Opened, ItemsIn
  <2>4. opener'[r].post = NoPost => ~Planned(r)
    BY <1>12 DEF ListFollows, ListInv
  <2>5. \A m \in Msg : RunOf(m) = r => queue'[m].state = "free"
    BY <1>12, <2>1, <2>2 DEF ListFollows
  <2>6. ItemsIn(r)' = {}
    BY <2>1, <2>3 DEF Descends, ItemsIn
  <2>7. opener'[r].post = NoPost => ~Planned(r)'
    BY <1>6, <2>1, <2>4 DEF ListFollows
  <2> QED BY <2>5, <2>6, <2>7
<1>13. (\A r \in Run : run[r].status = "none" => ~Planned(r))'
  BY <1>1, <1>6 DEF ListFollows, ListInv, RowsKept, Opened
<1>14. (\A m \in Msg : queue[m].state = "active" => m \in held)'
       /\ (\A m, n \in held : IsJobRun(m) /\ IsJobRun(n) => m = n)'
  BY DEF ListFollows, IsJobRun, PostOf
<1>15. (\A x \in Exec : IsJobRun(MsgOf(x)) /\ Busy(x) => Owned(x))'
  BY DEF ListFollows, IsJobRun, PostOf, MsgOf
<1> QED
  BY <1>4, <1>5, <1>9, <1>10, <1>11, <1>12, <1>13, <1>14, <1>15 DEF ListInv, RunX, MsgOf, RunOf

\* Steps that leave the messages alone and plan nothing.
LEMMA QuietList ==
  ASSUME TypeInv, ListInv, UNCHANGED <<queue, held>>,
         \A r \in Run : Planned(r)' => Planned(r),
         \A x \in Exec : IsJobRun(MsgOf(x)) =>
           /\ Busy(x)' => Busy(x)
           /\ pc'[x] \in {"run", "job", "list"} => pc[x] \in {"run", "job", "list"},
         \A x \in Exec : pc'[x] = "empty" => pc[x] = "empty",
         \A r \in Run : opener'[r] # Idle =>
           opener[r] # Idle /\ opener'[r].post = opener[r].post
  PROVE  ListFollows
<1>1. \A x \in Exec : Owned(x)' <=> Owned(x)
  BY DEF Owned, MsgOf
<1> QED BY <1>1 DEF ListFollows, ListInv

\* A batch goes back to the queue.
LEMMA FailBatchList ==
  ASSUME TypeInv, HeldIsActive, ListInv, NEW x \in Exec, Busy(x), Throw(x),
         IsJobRun(MsgOf(x)) => pc[x] = "job", UNCHANGED run,
         \A r \in Run : opener'[r] # Idle => opener[r] # Idle /\ opener'[r].post = opener[r].post
  PROVE  ListFollows
<1>1. /\ MsgOf(x) \in Msg /\ x = <<MsgOf(x), x[2]>>
      /\ \A y \in Exec : y = <<MsgOf(y), y[2]>> /\ MsgOf(y) \in Msg
  BY ExecParts
<1>2. \A y \in Exec : pc'[y] = (IF y = x THEN "off" ELSE pc[y])
  BY DEF Throw, Goto, TypeInv, TypeOK
<1>3. \A r \in Run : Planned(r)' => Planned(r)
  BY DEF Planned
<1>4. CASE ~Owned(x)
  BY <1>2, <1>3, <1>4, QuietList DEF Throw, qVars, Busy
<1>5. CASE Owned(x)
  <2>1. /\ \A n \in Msg : queue'[n] = (IF n \in Batch(MsgOf(x)) THEN Returned(n) ELSE queue[n])
        /\ held' = held \ Batch(MsgOf(x)) /\ held \subseteq Msg
    BY <1>5 DEF Throw, FailBatch, TypeInv, TypeOK
  <2>2. \A n \in Msg : /\ Returned(n).state \in {"retry", "failed"}
                       /\ Returned(n).tries = queue[n].tries
    BY DEF Returned, TypeInv, TypeOK
  <2>3. \A n \in Batch(MsgOf(x)) : /\ n \in held /\ queue[n].state = "active"
                                   /\ IsJobRun(n) => n = MsgOf(x) /\ pc[x] = "job"
    BY <1>1, <1>5 DEF Batch, SameQueue, HeldIsActive, ListInv, Owned
  <2>4. ASSUME NEW y \in Exec, IsJobRun(MsgOf(y)), Busy(y)' PROVE Owned(y)'
    <3>1. Busy(y) /\ y # x
      BY <1>2, <2>4 DEF Busy
    <3>2. Owned(y)
      BY <2>4, <3>1 DEF ListInv
    <3>3. MsgOf(y) \notin Batch(MsgOf(x))
      <4>1. MsgOf(y) = MsgOf(x) => y = x
        BY <1>1, <1>5, <3>2 DEF Owned
      <4> QED BY <2>3, <2>4, <3>1, <4>1
    <3>4. MsgOf(y) \in held' /\ queue'[MsgOf(y)].tries = y[2]
      BY <1>1, <2>1, <3>2, <3>3 DEF Owned
    <3> QED BY <3>4 DEF Owned, MsgOf
  <2>5. /\ \A m \in Msg : queue[m].state # "free" <=> queue'[m].state # "free"
        /\ \A m \in Msg : queue'[m].state = "active" => m \in held'
        /\ \A m, n \in held' : IsJobRun(m) /\ IsJobRun(n) => m = n
    BY <2>1, <2>2, <2>3 DEF ListInv
  <2>6. \A m \in Msg : IsJobRun(m) /\ queue'[m].state \in Waiting =>
          queue[m].state \in Waiting \/ (MsgOf(x) = m /\ pc[x] = "job")
    BY <2>1, <2>3
  <2> QED BY <1>2, <1>3, <2>4, <2>5, <2>6 DEF ListFollows
<1> QED BY <1>4, <1>5

\* job.run plans its own run, while its message is the only one of its kind.
LEMMA JobRunList ==
  ASSUME TypeInv, HeldIsActive, Opened, ListInv, NEW x \in Exec, JobRunStep(x) PROVE ListFollows
<1>1. IsJobRun(MsgOf(x)) /\ Busy(x) /\ RunX(x) \in Run /\ UNCHANGED opener
  BY ExecParts
  DEF JobRunStep, Busy, CheckRun, LoadJob, GiveUp, CloseEmpty, ListPosts, SendPost, userVars
<1>2. CASE CheckRun(x) \/ GiveUp(x) \/ CloseEmpty(x)
  <2>1. \A r \in Run : run'[r].expected = run[r].expected
    <3>1. UNCHANGED run \/ \E s, who : CloseRun(RunX(x), s, who)
      BY <1>2 DEF CheckRun, GiveUp, CloseEmpty, CloseByLister, dbVars
    <3> QED BY <1>1, <3>1, ClosedPlan
  <2>2. UNCHANGED <<queue, held>>
    BY <1>2 DEF CheckRun, GiveUp, CloseEmpty, qVars
  <2>3. \A y \in Exec : pc'[y] = pc[y] \/ (y = x /\ (pc'[x] = "done" \/ (pc[x] = "run" /\ pc'[x] = "job")))
    BY <1>2 DEF CheckRun, GiveUp, CloseEmpty, Finish, Goto, TypeInv, TypeOK
  <2> QED BY <1>1, <2>1, <2>2, <2>3, QuietList DEF Planned, Busy
<1>3. CASE LoadJob(x)
  <2>1. UNCHANGED run /\ pc[x] = "job"
    BY <1>3 DEF LoadJob, dbVars
  <2>2. CASE Throw(x)
    BY <1>1, <2>1, <2>2, FailBatchList
  <2>3. CASE ~Throw(x)
    <3>1. UNCHANGED <<queue, held>> /\ Goto(x, "list")
      BY <1>1, <1>3, <2>3 DEF LoadJob, qVars
    <3>2. \A y \in Exec : pc'[y] = (IF y = x THEN "list" ELSE pc[y])
      BY <3>1 DEF Goto, TypeInv, TypeOK
    <3> QED BY <1>1, <2>1, <3>1, <3>2, QuietList DEF Planned, Busy
  <2> QED BY <2>2, <2>3
<1>4. ASSUME NEW L \in SUBSET Post, ListPosts(x, L) PROVE ListFollows
  <2>1. /\ UNCHANGED <<queue, held>> /\ pc[x] = "list"
        /\ run'[RunX(x)].expected = Cardinality(L) /\ run'[RunX(x)].listed = L
        /\ \A r \in Run : r # RunX(x) => run'[r] = run[r]
        /\ \A y \in Exec : y # x => pc'[y] = pc[y]
        /\ pc'[x] = (IF L = {} THEN "empty" ELSE "send")
    BY <1>1, <1>4 DEF ListPosts, Goto, qVars, TypeInv, TypeOK, RunRow
  <2>2. Planned(RunX(x))'
    <3>1. Cardinality(L) \in Nat
      BY PostsAreFinite, FS_Subset, FS_CardinalityType
    <3> QED BY <2>1, <3>1 DEF Planned, NotListed
  <2>3. \A y \in Exec : Busy(y)' => Busy(y)
    BY <1>1, <2>1 DEF Busy
  <2>4. \A y \in Exec : Owned(y)' <=> Owned(y)
    BY <2>1 DEF Owned, MsgOf
  <2>5. \A r \in Run : Planned(r)' => Planned(r) \/ r = RunX(x)
    BY <2>1 DEF Planned
  <2> QED BY <1>1, <2>1, <2>2, <2>3, <2>4, <2>5 DEF ListFollows, ListInv
<1>5. ASSUME NEW p \in Post, SendPost(x, p) PROVE ListFollows
  <2> DEFINE m == <<RunX(x), p, x[2]>>
  <2>1. m \in Msg /\ PostMsg(m) /\ RunOf(m) = RunX(x)
    BY <1>1, ExecParts, NullsAreDistinct DEF Msg, PostMsg, IsJobRun, PostOf, RunOf
  <2>2. UNCHANGED <<run, held>> /\ (UNCHANGED queue \/ Send(m))
    BY <1>5 DEF SendPost, dbVars
  <2>3. \A n \in Msg : queue'[n].tries = queue[n].tries
                       /\ (queue'[n].state = queue[n].state \/ (n = m /\ queue'[n].state = "created"))
    <3> HIDE DEF m
    <3>1. CASE UNCHANGED queue
      BY <3>1
    <3>2. CASE Send(m)
      BY <2>1, <3>2 DEF Send, TypeInv, TypeOK
    <3> QED BY <2>2, <3>1, <3>2
  <2>4. /\ pc[x] = "send" /\ pc'[x] \in {"send", "done"}
        /\ \A y \in Exec : y # x => pc'[y] = pc[y]
    BY <1>5 DEF SendPost, Finish, Goto, TypeInv, TypeOK
  <2>5. \A y \in Exec : Busy(y)' => Busy(y)
    BY <1>1, <2>4 DEF Busy
  <2>6. \A y \in Exec : Owned(y) => Owned(y)'
    BY <2>2, <2>3, ExecParts DEF Owned, MsgOf
  <2>7. \A r \in Run : Planned(r)' => Planned(r)
    BY <2>2 DEF Planned
  <2> HIDE DEF m
  <2> QED BY <1>1, <2>1, <2>2, <2>3, <2>4, <2>5, <2>6, <2>7 DEF ListFollows, ListInv, PostMsg, Waiting
<1> QED BY <1>2, <1>3, <1>4, <1>5 DEF JobRunStep

\* post.process neither plans nor sends job.run.
LEMMA PostList ==
  ASSUME TypeInv, HeldIsActive, Opened, ListInv, NEW x \in Exec, PostStep(x) PROVE ListFollows
<1>1. PostMsg(MsgOf(x)) /\ Busy(x) /\ UNCHANGED opener
  BY DEF PostStep, PostMsg, Busy, CheckItem, CheckRun, LoadJob, PreflightFails, ReadPost,
         RunPipeline, WritePost, SaveHash, Record, FinRun, FinItems, FinClose, userVars
<1>2. CASE LoadJob(x) /\ Throw(x)
  BY <1>1, <1>2, FailBatchList DEF LoadJob, dbVars, PostMsg
<1>3. CASE ~(LoadJob(x) /\ Throw(x))
  <2>1. UNCHANGED <<queue, held>>
    BY <1>3 DEF PostStep, CheckItem, CheckRun, LoadJob, PreflightFails, ReadPost, RunPipeline,
         WritePost, SaveHash, Record, FinRun, FinItems, FinClose, qVars
  <2>2. \A r \in Run : Planned(r)' => Planned(r)
    <3>1. UNCHANGED run \/ \E s, who : CloseRun(RunX(x), s, who)
      BY DEF PostStep, CheckItem, CheckRun, LoadJob, PreflightFails, ReadPost, RunPipeline,
         WritePost, SaveHash, Record, FinRun, FinItems, FinClose, dbVars
    <3> QED BY <3>1, ClosedPlan, ExecParts DEF Planned
  <2>3. \A y \in Exec : y # x => pc'[y] = pc[y]
    BY DEF PostStep, CheckItem, CheckRun, LoadJob, PreflightFails, ReadPost, RunPipeline,
         WritePost, SaveHash, Record, FinRun, FinItems, FinClose, Finish, Throw, Caught, Goto,
         TypeInv, TypeOK
  <2>4. pc'[x] # "empty"
    BY DEF PostStep, CheckItem, CheckRun, LoadJob, PreflightFails, ReadPost, RunPipeline,
         WritePost, SaveHash, Record, FinRun, FinItems, FinClose, Finish, Throw, Caught, Goto,
         AfterResult, TypeInv, TypeOK
  <2> QED BY <1>1, <2>1, <2>2, <2>3, <2>4, QuietList DEF PostMsg, Busy
<1> QED BY <1>2, <1>3

\* The queue delivers job.run alone, for a run without a plan.
LEMMA QueueList ==
  ASSUME Calm, TypeInv, HeldIsActive, ListInv, QueueStep PROVE ListFollows
<1>1. UNCHANGED <<run, opener>>
  BY DEF QueueStep, Fetch, Settle, Expire, TimeOut, dbVars, userVars
<1>2. \A y \in Exec : MsgOf(y) \in Msg /\ y = <<MsgOf(y), y[2]>>
  BY ExecParts
<1>3. ASSUME NEW S \in SUBSET {m \in Msg : queue[m].state \in Waiting}, Fetch(S) PROVE ListFollows
  <2>1. /\ \A m \in S : queue'[m].state = "active" /\ queue'[m].tries = queue[m].tries + 1
        /\ \A m \in Msg : m \notin S => queue'[m] = queue[m]
        /\ held' = held \cup S
        /\ \A y \in Exec : pc'[y] = (IF MsgOf(y) \in S /\ y[2] = queue[MsgOf(y)].tries + 1
                                     THEN Entry(MsgOf(y)) ELSE pc[y])
    BY <1>3 DEF Fetch
  <2>2. \A m, n \in held' : IsJobRun(m) /\ IsJobRun(n) => m = n
    <3>1. \A m \in S : IsJobRun(m) => S = {m} /\ \A n \in held : ~IsJobRun(n)
      <4>1. /\ \A m \in S : Batch(m) = {}
            /\ \A m \in S : IsJobRun(m) => S = {m}
        BY <1>3 DEF Fetch
      <4>2. ASSUME NEW m \in S, IsJobRun(m), NEW n \in held, IsJobRun(n) PROVE FALSE
        <5>1. n \in Batch(m)
          BY <4>2 DEF Batch, SameQueue
        <5> QED BY <4>1, <5>1
      <4> QED BY <4>1, <4>2
    <3> QED BY <2>1, <3>1 DEF ListInv
  <2>3. ASSUME NEW y \in Exec, IsJobRun(MsgOf(y)), Busy(y)' PROVE Owned(y)'
    <3>1. CASE MsgOf(y) \in S /\ y[2] = queue[MsgOf(y)].tries + 1
      BY <1>2, <2>1, <3>1 DEF Owned, MsgOf
    <3>2. CASE ~(MsgOf(y) \in S /\ y[2] = queue[MsgOf(y)].tries + 1)
      <4>1. Owned(y)
        BY <2>1, <2>3, <3>2 DEF ListInv, Busy
      <4>2. MsgOf(y) \notin S
        BY <1>2, <4>1 DEF HeldIsActive, Owned, Waiting
      <4> QED BY <1>2, <2>1, <4>1, <4>2 DEF Owned, MsgOf
    <3> QED BY <3>1, <3>2
  <2>4. \A y \in Exec : pc'[y] # pc[y] => MsgOf(y) \in S /\ pc'[y] \in {"run", "item"}
    BY <2>1 DEF Entry
  <2>5. \A m \in S : queue[m].state \in Waiting
    OBVIOUS
  <2>6. \A m \in Msg : queue'[m].state = "active" => m \in held'
    BY <2>1 DEF ListInv
  <2>7. \A m \in Msg : /\ queue[m].state # "free" <=> queue'[m].state # "free"
                       /\ queue'[m].state \in Waiting => queue[m].state \in Waiting
    BY <2>1, <2>5 DEF Waiting
  <2> QED BY <1>1, <1>2, <2>2, <2>3, <2>4, <2>5, <2>6, <2>7 DEF ListFollows, Planned
<1>4. ASSUME NEW m \in Msg, Settle(m) PROVE ListFollows
  <2>1. /\ \A n \in Msg : /\ n \in Batch(m) => queue'[n].state = "completed"
                          /\ n \notin Batch(m) => queue'[n] = queue[n]
        /\ held' = held \ Batch(m) /\ UNCHANGED pc
        /\ \A n \in Batch(m) : pc[<<n, queue[n].tries>>] = "done"
    BY <1>4 DEF Settle, xVars, TypeInv, TypeOK
  <2>2. ASSUME NEW y \in Exec, IsJobRun(MsgOf(y)), Busy(y)' PROVE Owned(y)'
    <3>1. Owned(y) /\ Busy(y)
      BY <2>1, <2>2 DEF ListInv, Busy
    <3>2. MsgOf(y) \notin Batch(m)
      BY <1>2, <2>1, <3>1 DEF Owned, Busy
    <3> QED BY <1>2, <2>1, <3>1, <3>2 DEF Owned, MsgOf
  <2>3. \A n \in Batch(m) : n \in held
    BY DEF Batch
  <2> QED BY <1>1, <1>2, <2>1, <2>2, <2>3 DEF ListFollows, ListInv, HeldIsActive, Waiting, Planned
<1>5. ASSUME NEW m \in Msg, Expire(m) PROVE FALSE
  BY <1>5 DEF Expire, ListInv
<1>6. ASSUME NEW m \in Msg, TimeOut(m) PROVE FALSE
  BY <1>6 DEF TimeOut, Calm, Settled, Steady
<1> QED BY <1>3, <1>4, <1>5, <1>6 DEF QueueStep

\* What opens a run sends the first message of it.
LEMMA OpenerList ==
  ASSUME TypeInv, Opened, ListInv, OpenerStep PROVE ListFollows
<1>1. ASSUME NEW r \in Run, SendOpener(r) PROVE ListFollows
  <2> DEFINE m == <<r, opener[r].post, 1>>
  <2>1. /\ m \in Msg /\ RunOf(m) = r /\ m[3] = 1 /\ opener[r] # Idle
        /\ IsJobRun(m) <=> opener[r].post = NoPost
    BY <1>1, TriesAreCounts
    DEF Msg, Attempt, RunOf, PostOf, IsJobRun, SendOpener, Idle, TypeInv, TypeOK
  <2>2. /\ UNCHANGED <<run, held, pc>>
        /\ \/ UNCHANGED queue /\ opener' = [opener EXCEPT ![r].step = "refused"]
           \/ Send(m) /\ opener' = [opener EXCEPT ![r] = Idle]
    BY <1>1 DEF SendOpener, xVars, dbVars
  <2>3. queue[m].state = "free" /\ m \notin held
    BY <2>1 DEF ListInv, Opened
  <2> HIDE DEF m
  <2>4. \A q \in Run : opener'[q] # Idle => opener[q] # Idle /\ opener'[q].post = opener[q].post
    BY <2>1, <2>2 DEF TypeInv, TypeOK
  <2>5. CASE UNCHANGED queue
    BY <2>2, <2>4, <2>5, QuietList DEF Planned, Busy
  <2>6. CASE Send(m) /\ opener' = [opener EXCEPT ![r] = Idle]
    <3>1. \A n \in Msg : /\ queue'[n].tries = queue[n].tries
                         /\ n # m => queue'[n] = queue[n]
                         /\ n = m => queue'[n].state = "created"
      BY <2>1, <2>6 DEF Send, TypeInv, TypeOK
    <3>2. \A y \in Exec : Owned(y) => Owned(y)'
      BY <2>2, <3>1, ExecParts DEF Owned, MsgOf
    <3>3. opener'[r] = Idle
      BY <2>6 DEF TypeInv, TypeOK
    <3> QED BY <2>1, <2>2, <2>3, <2>4, <3>1, <3>2, <3>3 DEF ListFollows, ListInv, Planned, Busy
  <2> QED BY <2>2, <2>5, <2>6
<1>2. ASSUME NEW r \in Run, CancelRefused(r) PROVE ListFollows
  <2>1. \A q \in Run : Planned(q)' => Planned(q)
    BY <1>2, ClosedPlan DEF CancelRefused, Planned
  <2>2. UNCHANGED <<queue, held, pc>>
        /\ \A q \in Run : opener'[q] # Idle => opener'[q] = opener[q]
    BY <1>2 DEF CancelRefused, qVars, xVars, TypeInv, TypeOK
  <2> QED BY <2>1, <2>2, QuietList DEF Busy
<1> QED BY <1>1, <1>2 DEF OpenerStep

\* A run that a user opens has neither messages nor items yet.
LEMMA UserList ==
  ASSUME TypeInv, ListInv, UserStep PROVE ListFollows
<1>1. ASSUME NEW r \in Run, NEW j \in Job, OpenRun(r, j) PROVE ListFollows
  <2>1. /\ UNCHANGED <<queue, held, pc>> /\ run[r].status = "none"
        /\ \A q \in Run : run'[q].expected = run[q].expected
        /\ \A q \in Run : q # r => opener'[q] = opener[q]
    BY <1>1 DEF OpenRun, qVars, xVars, TypeInv, TypeOK, RunRow
  <2>2. \A y \in Exec : Owned(y)' <=> Owned(y)
    BY <2>1 DEF Owned, MsgOf
  <2> QED BY <2>1, <2>2 DEF ListFollows, ListInv, Planned, Busy
<1>2. ASSUME NEW i \in items, NEW r \in Run, RetryItem(i, r) PROVE ListFollows
  <2>1. /\ UNCHANGED <<queue, held, pc>> /\ run[r].status = "none" /\ run'[r].status = "running"
        /\ opener'[r].post = i.post /\ i.post # NoPost
        /\ \A q \in Run : q # r => run'[q] = run[q] /\ opener'[q] = opener[q]
    BY <1>2, NullsAreDistinct DEF RetryItem, qVars, xVars, TypeInv, TypeOK, ItemRow
  <2>2. \A y \in Exec : Owned(y)' <=> Owned(y)
    BY <2>1 DEF Owned, MsgOf
  <2> QED BY <2>1, <2>2 DEF ListFollows, ListInv, Planned, Busy
<1>3. ASSUME NEW r \in Run, CancelRun(r) PROVE ListFollows
  <2>1. \A q \in Run : Planned(q)' => Planned(q)
    BY <1>3, ClosedPlan DEF CancelRun, Planned
  <2> QED BY <1>3, <2>1, QuietList DEF CancelRun, qVars, xVars, Busy
<1>4. ASSUME NEW r \in Run, CancelMessages(r) PROVE ListFollows
  <2>1. /\ UNCHANGED <<run, held, pc, opener>>
        /\ \A m \in Msg : \/ queue'[m] = queue[m]
                          \/ /\ queue[m].state \in Waiting /\ queue'[m].state = "cancelled"
                             /\ queue'[m].tries = queue[m].tries
    BY <1>4 DEF CancelMessages, xVars, dbVars, TypeInv, TypeOK
  <2>2. \A y \in Exec : Owned(y)' <=> Owned(y)
    BY <2>1, ExecParts DEF Owned, MsgOf
  <2> QED BY <2>1, <2>2 DEF ListFollows, ListInv, Planned, Busy, Waiting
<1>5. CASE UNCHANGED <<run, queue, held, pc, opener>>
  BY <1>5, QuietList DEF Planned, Busy
<1> QED
  BY <1>1, <1>2, <1>3, <1>4, <1>5
  DEF UserStep, RestoreItem, CheckDelete, DeleteJob, SetWorkspaceStatus, qVars, xVars, dbVars, userVars

\* Every step is allowed by ListFollows.
LEMMA StepList ==
  ASSUME Calm, ClosedInv, ListInv, [Next]_vars PROVE ListInv'
<1> USE DEF ClosedInv, OnceInv
<1>1. TypeInv' /\ RowsKept /\ PlanKept
  BY StepType, StepKeepsRows, StepPlan DEF Calm
<1>2. CASE Next
  <2>1. Descends
    BY <1>1, <1>2, NoFault, HandlerDescends, QueueDescends, OpenerDescends, UserDescends DEF Next
  <2>2. ListFollows
    BY <1>2, NoFault, PostList, JobRunList, QueueList, OpenerList, UserList DEF Next
  <2> QED BY <1>1, <2>1, <2>2, FollowsList
<1>3. CASE UNCHANGED vars
  <2>1. ListFollows
    BY <1>3, QuietList DEF vars, Planned, Busy
  <2>2. Descends
    BY <1>3 DEF vars, Descends, Opened, Busy
  <2> QED BY <1>1, <2>1, <2>2, FollowsList
<1> QED BY <1>2, <1>3

\* Nothing is sent or planned at first.
LEMMA InitList == Init => ListInv
  BY DEF Init, ListInv, NoRun, Busy, Waiting, Planned

-----------------------------------------------------------------------------
(* The refinement: what RunLedger calls status, planned, plan and outcome. *)

Shown == [r \in Run |-> run[r].status]
PlannedRuns == {r \in Run : run[r].expected # NotListed}
Plans == [r \in Run |-> run[r].listed]
Outcomes == [r \in Run |-> [p \in Post |-> OutcomeOf(r, p)]]

\* The only item of a post is its outcome.
LEMMA OutcomeOfItem ==
  ASSUME OneItemPerPost, NEW i \in items PROVE OutcomeOf(i.run, i.post) = i.status
<1>1. ItemsOf(i.run, i.post) = {i}
  BY DEF OneItemPerPost, ItemsOf
<1> QED BY <1>1 DEF OutcomeOf

\* A run without items has no outcome.
LEMMA NoOutcome ==
  ASSUME TypeInv, NEW r, NEW p PROVE OutcomeOf(r, p) = "none" <=> ItemsOf(r, p) = {}
<1>1. \A i \in items : i.status # "none"
  BY DEF TypeInv, TypeOK, ItemRow, ItemStatus
<1>2. ASSUME ItemsOf(r, p) # {} PROVE (CHOOSE i \in ItemsOf(r, p) : TRUE) \in items
  BY <1>2 DEF ItemsOf
<1> QED BY <1>1, <1>2 DEF OutcomeOf

\* A run without items has no outcome.
LEMMA NothingYet ==
  ASSUME TypeInv, NEW r \in Run, ItemsIn(r) = {}
  PROVE  \A p \in Post : OutcomeOf(r, p) = "none"
  BY NoOutcome DEF ItemsIn, ItemsOf

\* Outcomes change with items only.
LEMMA SameOutcomes == ASSUME UNCHANGED items PROVE UNCHANGED Outcomes
  BY DEF Outcomes, OutcomeOf, ItemsOf

\* Steps the reader of the Runs page does not see.
LEMMA Unseen ==
  ASSUME UNCHANGED <<run, items>> PROVE UNCHANGED Ledger!ledger
  BY SameOutcomes DEF Ledger!ledger, Outcomes

\* Closing a run changes what the Runs page shows of it, and no plan.
LEMMA ShownClosed ==
  ASSUME TypeInv, NEW r \in Run, NEW s, NEW who, CloseRun(r, s, who)
  PROVE  Shown' = [Shown EXCEPT ![r] = s] /\ UNCHANGED <<PlannedRuns, Plans>>
<1>1. \A q \in Run : /\ run'[q].status = (IF q = r THEN s ELSE run[q].status)
                     /\ run'[q].expected = run[q].expected /\ run'[q].listed = run[q].listed
  BY DEF CloseRun, TypeInv, TypeOK, RunRow
<1> QED BY <1>1 DEF Shown, PlannedRuns, Plans

\* The run ends before any post reported.
LEMMA Abandons ==
  ASSUME TypeInv, NEW r \in Run, NEW s \in {"success", "failed", "cancelled"}, NEW who,
         CloseRun(r, s, who), UNCHANGED items, run[r].status # "none", ItemsIn(r) = {},
         s = "success" => Planned(r) /\ run[r].listed = {}
  PROVE  Ledger!Next
<1>1. Ledger!Abandon(r, s)
  BY ShownClosed, SameOutcomes, NothingYet
  DEF Ledger!Abandon, Ledger!Pending, Shown, PlannedRuns, Plans, Outcomes, Planned
<1> QED BY <1>1 DEF Ledger!Next

\* A step of job.run is a Plan, an Abandon, or leaves the ledger alone.
LEMMA JobRunLedger ==
  ASSUME ClosedInv, ListInv, NEW x \in Exec, JobRunStep(x) PROVE [Ledger!Next]_Ledger!ledger
<1> USE DEF ClosedInv
<1>1. RunX(x) \in Run /\ IsJobRun(MsgOf(x)) /\ UNCHANGED items
  BY ExecParts DEF JobRunStep, CheckRun, LoadJob, GiveUp, CloseEmpty, ListPosts, SendPost, dbVars
<1>2. CASE CheckRun(x) \/ LoadJob(x) \/ \E p \in Post : SendPost(x, p)
  BY <1>2, Unseen DEF CheckRun, LoadJob, SendPost, dbVars
<1>3. ASSUME pc[x] \in {"list", "empty"}
      PROVE  /\ run[RunX(x)].status # "none" /\ ItemsIn(RunX(x)) = {}
             /\ pc[x] = "list" => ~Planned(RunX(x))
             /\ pc[x] = "empty" => Planned(RunX(x)) /\ run[RunX(x)].listed = {}
  BY <1>1, <1>3 DEF Opened, Busy, ListInv, PlanInv, ItemsIn, Visits
<1>4. CASE GiveUp(x) \/ CloseEmpty(x)
  BY <1>1, <1>3, <1>4, Abandons DEF GiveUp, CloseEmpty, CloseByLister
<1>5. ASSUME NEW L \in SUBSET Post, ListPosts(x, L) PROVE Ledger!Next
  <2>1. /\ \A q \in Run : run'[q].status = run[q].status
        /\ \A q \in Run : q # RunX(x) => run'[q] = run[q]
        /\ run'[RunX(x)].listed = L /\ run'[RunX(x)].expected = Cardinality(L)
    BY <1>1, <1>5 DEF ListPosts, TypeInv, TypeOK, RunRow
  <2>2. Cardinality(L) # NotListed
    <3>1. Cardinality(L) \in Nat
      BY PostsAreFinite, FS_Subset, FS_CardinalityType
    <3> QED BY <3>1 DEF NotListed
  <2>3. /\ Shown' = Shown
        /\ PlannedRuns' = PlannedRuns \cup {RunX(x)}
        /\ Plans' = [Plans EXCEPT ![RunX(x)] = L]
        /\ Outcomes' = Outcomes
    BY <1>1, <2>1, <2>2, SameOutcomes DEF Shown, PlannedRuns, Plans
  <2>4. run[RunX(x)].status # "none" /\ RunX(x) \notin PlannedRuns
    BY <1>3, <1>5 DEF ListPosts, PlannedRuns, Planned
  <2>5. Ledger!Plan(RunX(x), L)
    BY <1>1, <2>3, <2>4 DEF Ledger!Plan, Shown, PlannedRuns, Plans, Outcomes
  <2> QED BY <1>1, <2>5 DEF Ledger!Next
<1> QED BY <1>2, <1>4, <1>5 DEF JobRunStep

StatusIn(S) == IF S = {} THEN "none" ELSE (CHOOSE i \in S : TRUE).status

\* The first item of a post changes the outcome of that post alone.
LEMMA NewOutcome ==
  ASSUME NEW r \in Run, NEW p \in Post, NEW i, i.run = r, i.post = p,
         items' = items \cup {i}, ItemsOf(r, p) = {}
  PROVE  Outcomes' = [Outcomes EXCEPT ![r][p] = i.status]
<1>1. ItemsOf(r, p)' = {i}
  BY DEF ItemsOf
<1>2. \A q \in Run, z \in Post : ~(q = r /\ z = p) => ItemsOf(q, z)' = ItemsOf(q, z)
  BY DEF ItemsOf
<1>3. OutcomeOf(r, p)' = i.status
  BY <1>1 DEF OutcomeOf
<1>4. ASSUME NEW q \in Run, NEW z \in Post, ~(q = r /\ z = p)
      PROVE  OutcomeOf(q, z)' = OutcomeOf(q, z)
  <2>1. ItemsOf(q, z)' = ItemsOf(q, z)
    BY <1>2, <1>4
  <2>2. /\ OutcomeOf(q, z) = StatusIn(ItemsOf(q, z))
        /\ OutcomeOf(q, z)' = StatusIn(ItemsOf(q, z)')
    BY DEF OutcomeOf, StatusIn
  <2> QED BY <2>1, <2>2
<1> QED BY <1>3, <1>4 DEF Outcomes

\* What a handler records is the first outcome of its post.
LEMMA Reports ==
  ASSUME ClosedInv, OnceInv', NEW x \in Exec, PostMsg(MsgOf(x)), Record(x) PROVE Ledger!Next
<1> USE DEF ClosedInv
<1> DEFINE r == RunX(x)
           p == PostX(x)
           o == mem[x].status
<1>1. r \in Run /\ p \in Post
  BY ExecParts DEF PostMsg
<1>2. /\ UNCHANGED run /\ items' = items \cup {Item(x)}
      /\ Item(x).run = r /\ Item(x).post = p /\ Item(x).status = o
  BY DEF Record, Item
<1>3. o \in ItemStatus
  BY DEF Record, TypeInv, LocalsOK, LocalsAt
<1>4. ItemsOf(r, p) = {} /\ Planned(r) /\ p \in run[r].listed
  BY DEF Record, OnceInv, NoItemYet, Working, PlanInv, Visits, Busy
<1> HIDE DEF r, p, o
<1>5. Outcomes' = [Outcomes EXCEPT ![r][p] = o]
  BY <1>1, <1>2, <1>4, NewOutcome
<1>6. o # "none" /\ o \in Failures \cup Successes \cup {"budget_exceeded"}
  BY <1>3 DEF ItemStatus, Failures, Successes
<1>7. Outcomes[r][p] = "none" /\ r \in PlannedRuns /\ p \in Plans[r]
  BY <1>1, <1>4, NoOutcome DEF Outcomes, PlannedRuns, Plans, Planned
<1>8. UNCHANGED <<Shown, PlannedRuns, Plans>>
  BY <1>2 DEF Shown, PlannedRuns, Plans
<1>9. Ledger!Report(r, p, o)
  BY <1>5, <1>6, <1>7, <1>8
  DEF Ledger!Report, Ledger!Pending, Shown, PlannedRuns, Plans, Outcomes
<1> QED BY <1>1, <1>6, <1>9 DEF Ledger!Next

\* The outcomes of a complete run are the statuses of its items.
LEMMA CompleteOutcomes ==
  ASSUME ClosedInv, NEW r \in Run, Complete(r)
  PROVE  /\ \A p \in run[r].listed : OutcomeOf(r, p) # "none"
         /\ {OutcomeOf(r, p) : p \in run[r].listed} = {i.status : i \in ItemsIn(r)}
<1> USE DEF ClosedInv, OnceInv
<1>1. \A p \in run[r].listed : ItemsOf(r, p) # {} /\ OutcomeOf(r, p) # "none"
  BY NoOutcome DEF Complete
<1>2. ASSUME NEW p \in run[r].listed PROVE \E i \in ItemsIn(r) : i.status = OutcomeOf(r, p)
  <2>1. PICK i \in items : i.run = r /\ i.post = p
    BY <1>1 DEF ItemsOf
  <2> QED BY <2>1, OutcomeOfItem DEF ItemsIn
<1>3. ASSUME NEW i \in ItemsIn(r) PROVE i.post \in run[r].listed /\ i.status = OutcomeOf(r, i.post)
  BY OutcomeOfItem DEF ItemsIn, PlanInv, Visits
<1> QED BY <1>1, <1>2, <1>3

\* The update that closes a run by its items is a Close.
LEMMA Closes ==
  ASSUME ClosedInv, NEW x \in Exec, FinClose(x) PROVE [Ledger!Next]_Ledger!ledger
<1> USE DEF ClosedInv
<1> DEFINE r == RunX(x)
<1>1. r \in Run /\ UNCHANGED items
  BY ExecParts DEF FinClose
<1>2. CASE run[r].status # "running"
  BY <1>1, <1>2, Unseen DEF FinClose
<1>3. CASE run[r].status = "running"
  <2>1. CloseRun(r, VerdictOf(r), "items") /\ Complete(r)
    BY <1>3 DEF FinClose, CloseInv
  <2>2. Shown' = [Shown EXCEPT ![r] = VerdictOf(r)] /\ UNCHANGED <<PlannedRuns, Plans, Outcomes>>
    BY <1>1, <2>1, ShownClosed, SameOutcomes
  <2>3. Plans[r] = run[r].listed /\ Shown[r] = "running" /\ r \in PlannedRuns
    BY <1>1, <1>3, <2>1 DEF Plans, Shown, PlannedRuns, Complete, Planned
  <2>4. \A p \in run[r].listed : Outcomes[r][p] = OutcomeOf(r, p)
    BY <1>1 DEF Outcomes, TypeInv, TypeOK, RunRow
  <2>5. Ledger!Result(r) = VerdictOf(r)
    <3>1. {Outcomes[r][p] : p \in Plans[r]} = {i.status : i \in ItemsIn(r)}
      BY <1>1, <2>1, <2>3, <2>4, CompleteOutcomes
    <3> QED BY <3>1 DEF Ledger!Result, VerdictOf, Verdict, Outcomes, Plans
  <2>6. \A p \in Plans[r] : Outcomes[r][p] # "none"
    BY <1>1, <2>1, <2>3, <2>4, CompleteOutcomes
  <2> HIDE DEF r
  <2>7. Ledger!Close(r)
    BY <2>2, <2>3, <2>5, <2>6
    DEF Ledger!Close, Ledger!Pending, Shown, PlannedRuns, Plans, Outcomes
  <2> QED BY <1>1, <2>7 DEF Ledger!Next
<1> QED BY <1>2, <1>3

\* A step of post.process is a Report, a Close, or leaves the ledger alone.
LEMMA PostLedger ==
  ASSUME ClosedInv, OnceInv', NEW x \in Exec, PostStep(x) PROVE [Ledger!Next]_Ledger!ledger
<1>1. CASE Record(x)
  BY <1>1, Reports DEF PostStep, PostMsg
<1>2. CASE FinClose(x)
  BY <1>2, Closes
<1>3. CASE ~Record(x) /\ ~FinClose(x)
  <2>1. UNCHANGED <<run, items>>
    BY <1>3 DEF PostStep, CheckItem, CheckRun, LoadJob, PreflightFails, ReadPost, RunPipeline,
         WritePost, SaveHash, FinRun, FinItems, dbVars
  <2> QED BY <2>1, Unseen
<1> QED BY <1>1, <1>2, <1>3

\* What opens a run is an Open, or an Abandon when its message is refused.
LEMMA OpenerLedger ==
  ASSUME ClosedInv, ListInv, OpenerStep PROVE [Ledger!Next]_Ledger!ledger
<1> USE DEF ClosedInv
<1>1. ASSUME NEW r \in Run, CancelRefused(r) PROVE Ledger!Next
  <2>1. opener[r] # Idle
    BY <1>1 DEF CancelRefused, Idle
  <2>2. run[r].status # "none" /\ ItemsIn(r) = {}
    BY <2>1 DEF Opened, ListInv
  <2> QED BY <1>1, <2>2, Abandons DEF CancelRefused
<1>2. ASSUME NEW r \in Run, SendOpener(r) PROVE UNCHANGED Ledger!ledger
  BY <1>2, Unseen DEF SendOpener, dbVars
<1> QED BY <1>1, <1>2 DEF OpenerStep

\* A stop by the user is a Stop; the rest leaves the ledger alone.
LEMMA UserLedger ==
  ASSUME ClosedInv, ListInv, UserStep PROVE [Ledger!Next]_Ledger!ledger
<1> USE DEF ClosedInv
<1>1. ASSUME NEW r \in Run, NEW j \in Job, OpenRun(r, j) PROVE Ledger!Next
  <2>1. /\ UNCHANGED items /\ run[r].status = "none"
        /\ \A q \in Run : run'[q].status = (IF q = r THEN "running" ELSE run[q].status)
        /\ \A q \in Run : run'[q].expected = run[q].expected /\ run'[q].listed = run[q].listed
    BY <1>1 DEF OpenRun, TypeInv, TypeOK, RunRow
  <2>2. /\ Shown[r] = "none" /\ Shown' = [Shown EXCEPT ![r] = "running"]
        /\ UNCHANGED <<PlannedRuns, Plans, Outcomes>>
    BY <2>1, SameOutcomes DEF Shown, PlannedRuns, Plans
  <2>3. Ledger!Open(r)
    BY <2>2 DEF Ledger!Open, Shown, PlannedRuns, Plans, Outcomes
  <2> QED BY <2>3 DEF Ledger!Next
<1>2. ASSUME NEW i \in items, NEW r \in Run, RetryItem(i, r) PROVE Ledger!Next
  <2>1. /\ UNCHANGED items /\ run[r].status = "none" /\ i.post \in Post
        /\ run'[r].status = "running" /\ run'[r].expected = 1 /\ run'[r].listed = {i.post}
        /\ \A q \in Run : q # r => run'[q] = run[q]
    BY <1>2 DEF RetryItem, TypeInv, TypeOK, ItemRow
  <2>2. /\ Shown[r] = "none" /\ Shown' = [Shown EXCEPT ![r] = "running"]
        /\ PlannedRuns' = PlannedRuns \cup {r}
        /\ Plans' = [Plans EXCEPT ![r] = {i.post}]
        /\ UNCHANGED Outcomes
    <3>1. \A q \in Run : run'[q].expected # NotListed <=> (q = r \/ run[q].expected # NotListed)
      BY <2>1 DEF NotListed
    <3> QED BY <2>1, <3>1, SameOutcomes DEF Shown, PlannedRuns, Plans
  <2>3. Ledger!Open(r)
    BY <2>1, <2>2 DEF Ledger!Open, Shown, PlannedRuns, Plans, Outcomes
  <2> QED BY <2>3 DEF Ledger!Next
<1>3. ASSUME NEW r \in Run, CancelRun(r) PROVE Ledger!Next
  <2>1. /\ Shown[r] = "running" /\ Shown' = [Shown EXCEPT ![r] = "cancelled"]
        /\ UNCHANGED <<PlannedRuns, Plans, Outcomes>>
    BY <1>3, ShownClosed, SameOutcomes DEF CancelRun, Shown
  <2>2. Ledger!Stop(r)
    BY <2>1 DEF Ledger!Stop, Shown, PlannedRuns, Plans, Outcomes
  <2> QED BY <2>2 DEF Ledger!Next
<1>4. CASE UNCHANGED <<run, items>>
  BY <1>4, Unseen
<1> QED
  BY <1>1, <1>2, <1>3, <1>4
  DEF UserStep, CancelMessages, RestoreItem, CheckDelete, DeleteJob, SetWorkspaceStatus, dbVars

\* Every step is a step of the ledger or leaves it alone.
LEMMA StepLedger ==
  ASSUME Calm, ClosedInv, ClosedInv', ListInv, [Next]_vars PROVE [Ledger!Next]_Ledger!ledger
<1>1. CASE QueueStep \/ UNCHANGED vars
  BY <1>1, Unseen DEF QueueStep, Fetch, Settle, Expire, TimeOut, dbVars, vars
<1> QED
  BY <1>1, NoFault, JobRunLedger, PostLedger, OpenerLedger, UserLedger DEF Next, ClosedInv

\* The initial states map to those of the ledger.
LEMMA InitLedger == Init => Ledger!Init
<1> SUFFICES ASSUME Init PROVE Ledger!Init
  OBVIOUS
<1>1. \A r \in Run, p \in Post : OutcomeOf(r, p) = "none"
  BY DEF Init, OutcomeOf, ItemsOf
<1> QED BY <1>1 DEF Init, Ledger!Init, Ledger!Pending, NoRun, NotListed

\* Without crashes, overruns, failed statements, duplicated messages and
\* lists that change, an update run keeps the promise of RunLedger: one plan
\* per run, one outcome per post, a result about all of its posts.
THEOREM KeepsLedgerHolds == Calm => (Spec => KeepsLedger)
<1> SUFFICES ASSUME Calm PROVE Spec => KeepsLedger
  OBVIOUS
<1>1. Settled
  BY DEF Calm
<1>2. ListInv /\ ClosedInv /\ [Next]_vars => ListInv'
  BY StepList
<1>3. ClosedInv /\ ClosedInv' /\ ListInv /\ [Next]_vars => [Ledger!Next]_Ledger!ledger
  BY StepLedger
<1> QED BY <1>1, <1>2, <1>3, ClosedAlways, InitList, InitLedger, PTL DEF Spec, KeepsLedger, Ledger!Spec
=============================================================================
