------------------------ MODULE BriefGenerationProofs ------------------------
(***************************************************************************)
(* Theorems about the generation of a brief, for every number of briefs,   *)
(* runs, deliveries and faults and in every environment; about the topics  *)
(* that are not to be covered twice (Topics); about the pictures that are  *)
(* found for its article (Candidates); and about what the review makes of  *)
(* the article and where its images and embeds come to (Editorial).        *)
(***************************************************************************)
EXTENDS BriefGeneration, Coverage, Gallery, Drafts, FiniteSetTheorems,
        WellFoundedInduction, NaturalsInduction, TLAPS

CONSTANTS
  Topic, PerCycle, MaxFound, MaxCycles, MaxAgain,                                      \* Topics
  Pages, Web, Open, Score, Sides, Official, Keep, MaxCandidates, Few, Inline,         \* Candidates
  Link, Number, Image, Lengths, InlineMax, MaxTweets, Templates, MaxHints             \* Editorial

VARIABLES
  titles, generation, again,                                 \* Topics
  picking, sources, slot, pool, prepared, retried, used,     \* Candidates
  images, taken, waiting, exhausted                          \* Editorial

T == INSTANCE Topics WITH gen <- generation
C == INSTANCE Candidates WITH pc <- picking
Ed == INSTANCE Editorial WITH used <- taken, queue <- waiting

-----------------------------------------------------------------------------
(* Types.  TypeOK is not inductive: an item and the status of a run are    *)
(* taken from the locals of a handler, which hold them at some steps only. *)

Tried == {"plan", "mark", "pipe", "create", "failBrief", "item", "update",
          "count", "close"}

LocalsAt(l, loc) ==
  /\ l \in Tried => loc.phase \in {"try", "catch"}
  /\ l \in {"failBrief", "item", "update"} => loc.item # "none"
  /\ l = "close" => loc.verdict # "none"

TypeInv == TypeOK /\ \A x \in Exec : LocalsAt(pc[x], mem[x])

HandlersTyped == /\ pc \in [Exec -> Step]
                 /\ mem \in [Exec -> Locals]
                 /\ \A x \in Exec : LocalsAt(pc[x], mem[x])

LEMMA ExecParts ==
  ASSUME NEW x \in Exec PROVE RunX(x) \in Run /\ x[2] \in 1..Tries
  BY DEF Exec, RunX

\* What a request names.
LEMMA RequestParts ==
  ASSUME NEW q \in Request
  PROVE  /\ q.brief \in Brief /\ q.post \in Exec \cup {NoPost}
         /\ q.op = "regenerate" => q.run \in Run
  BY DEF Request

LEMMA InitType == Init => TypeInv
  BY TriesIsCount, FaultsAreCount
  DEF Init, TypeInv, TypeOK, LocalsAt, Tried, Unborn, NoRun, Blank, BriefRow, RunRow,
      Message, Locals, SitePost, BriefStatus, Mode, MessageState, Step

\* A handler moves to the step l with the locals loc.
LEMMA MoveType ==
  ASSUME TypeInv, NEW x \in Exec, NEW l \in Step, NEW loc \in Locals,
         LocalsAt(l, loc), Goto(x, l), mem' = [mem EXCEPT ![x] = loc]
  PROVE  HandlersTyped'
<1>1. pc \in [Exec -> Step] /\ mem \in [Exec -> Locals]
  BY DEF TypeInv, TypeOK
<1>2. pc' \in [Exec -> Step] /\ mem' \in [Exec -> Locals]
  BY <1>1 DEF Goto
<1>3. ASSUME NEW y \in Exec PROVE LocalsAt(pc[y], mem[y])'
  <2>1. /\ pc'[y] = (IF y = x THEN l ELSE pc[y])
        /\ mem'[y] = (IF y = x THEN loc ELSE mem[y])
    BY <1>1 DEF Goto
  <2>2. LocalsAt(pc[y], mem[y])
    BY DEF TypeInv
  <2>3. LocalsAt(pc'[y], mem'[y])
    BY <2>1, <2>2
  <2> QED
    BY <2>3 DEF LocalsAt, Tried
<1> QED
  BY <1>2, <1>3 DEF HandlersTyped

\* A handler moves to the step l and keeps its locals.
LEMMA StayType ==
  ASSUME TypeInv, NEW x \in Exec, NEW l \in Step, LocalsAt(l, mem[x]),
         Goto(x, l), UNCHANGED mem
  PROVE  HandlersTyped'
<1>1. mem[x] \in Locals /\ mem' = [mem EXCEPT ![x] = mem[x]]
  BY DEF TypeInv, TypeOK
<1> QED
  BY <1>1, MoveType

LEMMA BlankType == Blank \in Locals
  BY DEF Blank, Locals, Mode

LEMMA FinishType ==
  ASSUME TypeInv, NEW x \in Exec, Finish(x) PROVE HandlersTyped'
<1>1. "done" \in Step /\ LocalsAt("done", Blank)
  BY DEF Step, LocalsAt, Tried
<1> QED
  BY <1>1, BlankType, MoveType DEF Finish

LEMMA FailType ==
  ASSUME TypeInv, NEW x \in Exec, NEW phase \in {"try", "catch"}, Fail(x, phase)
  PROVE  HandlersTyped'
<1> DEFINE loc == [mem[x] EXCEPT !.item = "failed", !.phase = phase]
<1>1. mem[x] \in Locals
  BY DEF TypeInv, TypeOK
<1>2. loc \in Locals /\ LocalsAt("failBrief", loc) /\ "failBrief" \in Step
  BY <1>1 DEF Locals, Failures, LocalsAt, Step
<1>3. mem' = [mem EXCEPT ![x] = loc] /\ Goto(x, "failBrief")
  BY DEF Fail
<1> HIDE DEF loc
<1> QED
  BY <1>2, <1>3, MoveType

\* A message given back is a message.
LEMMA GiveBackType ==
  ASSUME TypeOK, NEW r \in Run, GiveBack(r)
  PROVE  queue' \in [Run -> Message] /\ held' \subseteq Run
  BY DEF TypeOK, GiveBack, Returned, Message, MessageState, Waiting

LEMMA ThrowType ==
  ASSUME TypeInv, NEW x \in Exec, Throw(x)
  PROVE  HandlersTyped' /\ queue' \in [Run -> Message] /\ held' \subseteq Run
<1>1. HandlersTyped'
  <2>1. "off" \in Step /\ LocalsAt("off", Blank)
    BY DEF Step, LocalsAt, Tried
  <2> QED
    BY <2>1, BlankType, MoveType DEF Throw
<1>2. queue' \in [Run -> Message] /\ held' \subseteq Run
  BY ExecParts, GiveBackType DEF Throw, TypeInv, TypeOK, qVars
<1> QED
  BY <1>1, <1>2

\* An update of one brief leaves a table of briefs.
LEMMA SetBriefType ==
  ASSUME TypeOK, NEW b, NEW row, b \in Brief => row \in BriefRow, SetBrief(b, row)
  PROVE  brief' \in [Brief -> BriefRow]
  BY DEF TypeOK, SetBrief

LEMMA CloseRunType ==
  ASSUME TypeOK, NEW r \in Run, NEW s \in RunClosed,
         NEW who \in {"items", "opener", "user"}, CloseRun(r, s, who)
  PROVE  run' \in [Run -> RunRow]
<1>1. [run[r] EXCEPT !.status = s, !.by = who] \in RunRow
  BY DEF TypeOK, RunRow
<1>2. run' = [run EXCEPT ![r] = [run[r] EXCEPT !.status = s, !.by = who]]
  BY DEF CloseRun, TypeOK
<1> QED
  BY <1>1, <1>2 DEF TypeOK

\* The queue and its failures.
LEMMA QueueType ==
  ASSUME TypeInv, QueueServes \/ Crash \/ \E r \in Run : TimeOut(r)
  PROVE  TypeInv'
<1> USE DEF TypeInv, TypeOK
<1>1. ASSUME NEW r \in Run, Fetch(r) PROVE TypeInv'
  <2>1. queue' \in [Run -> Message]
    <3>1. queue[r].tries + 1 \in 0..Tries /\ "active" \in MessageState
      BY <1>1, TriesIsCount DEF Fetch, Message, MessageState
    <3> QED
      BY <1>1, <3>1 DEF Fetch, Message
  <2>2. HandlersTyped'
    <3>1. Goto(<<r, queue[r].tries + 1>>, "run") /\ UNCHANGED mem
      BY <1>1 DEF Fetch, Goto
    <3>2. queue[r].tries + 1 \in 1..Tries
      BY <1>1, TriesIsCount DEF Fetch, Message
    <3>3. <<r, queue[r].tries + 1>> \in Exec
      BY <3>2 DEF Exec
    <3>4. "run" \in Step /\ LocalsAt("run", mem[<<r, queue[r].tries + 1>>])
      BY DEF Step, LocalsAt, Tried
    <3> QED
      BY <3>1, <3>3, <3>4, StayType
  <2> QED
    BY <1>1, <2>1, <2>2 DEF Fetch, HandlersTyped, dbVars, panelVars
<1>2. ASSUME NEW r \in Run, Settle(r) PROVE TypeInv'
  <2>1. queue' \in [Run -> Message]
    BY <1>2 DEF Settle, Message, MessageState
  <2> QED
    BY <1>2, <2>1 DEF Settle, xVars, dbVars, panelVars
<1>3. ASSUME NEW r \in Run, Expire(r) PROVE TypeInv'
  <2>1. queue' \in [Run -> Message]
    BY <1>3 DEF Expire, Returned, Message, MessageState, Waiting
  <2> QED
    BY <1>3, <2>1 DEF Expire, xVars, dbVars, panelVars
<1>4. ASSUME NEW r \in Run, TimeOut(r) PROVE TypeInv'
  <2>1. faults' \in 0..MaxFaults
    BY <1>4, FaultsAreCount DEF TimeOut
  <2> QED
    BY <1>4, <2>1, GiveBackType DEF TimeOut, xVars, dbVars, panelVars
<1>5. ASSUME Crash PROVE TypeInv'
  <2>1. HandlersTyped'
    BY <1>5, BlankType DEF Crash, HandlersTyped, Step, LocalsAt, Tried
  <2>2. faults' \in 0..MaxFaults
    BY <1>5, FaultsAreCount DEF Crash
  <2> QED
    BY <1>5, <2>1, <2>2 DEF Crash, HandlersTyped, dbVars, panelVars
<1> QED
  BY <1>1, <1>2, <1>3, <1>4, <1>5 DEF QueueServes

\* The enqueueing of a run.
LEMMA EnqueueType ==
  ASSUME TypeInv, EnqueueStep PROVE TypeInv'
<1> USE DEF TypeInv, TypeOK
<1>1. ASSUME NEW r \in Run, OpenRun(r) PROVE TypeInv'
  <2>1. run' \in [Run -> RunRow]
    BY <1>1 DEF OpenRun, RunRow
  <2> QED
    BY <1>1, <2>1 DEF OpenRun, qVars, xVars
<1>2. ASSUME NEW r \in Run, SendRun(r) PROVE TypeInv'
  <2>1. queue' \in [Run -> Message]
    BY <1>2 DEF SendRun, Message, MessageState, Waiting
  <2>2. opener' \in [Run -> {"none", "insert", "send", "refused"}]
    BY <1>2 DEF SendRun
  <2> QED
    BY <1>2, <2>1, <2>2 DEF SendRun, xVars, dbVars
<1>3. ASSUME NEW r \in Run, CancelRefused(r) PROVE TypeInv'
  <2>1. run' \in [Run -> RunRow]
    BY <1>3, CloseRunType DEF CancelRefused, RunClosed
  <2> QED
    BY <1>3, <2>1 DEF CancelRefused, qVars, xVars
<1> QED
  BY <1>1, <1>2, <1>3 DEF EnqueueStep

\* What the user does.
LEMMA RequestType ==
  ASSUME TypeInv, RequestStep PROVE TypeInv'
<1> USE DEF TypeInv, TypeOK
<1>p. ASSUME NEW r \in Run, NEW b \in Brief, Promise(r, b)
      PROVE  /\ run' \in [Run -> RunRow]
             /\ opener' \in [Run -> {"none", "insert", "send", "refused"}]
  BY <1>p DEF Promise, RunRow
<1>q. ASSUME NEW q \in Request, Passed(q)
      PROVE  q.brief \in Brief /\ checked' \subseteq Request
  BY <1>q, RequestParts DEF Passed
<1>1. ASSUME NEW b \in Brief, NEW r \in Run, NEW mode \in Mode,
             CreateBrief(b, r, mode)
      PROVE  TypeInv'
  <2>1. brief' \in [Brief -> BriefRow]
    BY <1>1 DEF CreateBrief, BriefRow, BriefStatus
  <2> QED
    BY <1>1, <1>p, <2>1 DEF CreateBrief, qVars, xVars
<1>2. ASSUME NEW q \in Request, Check(q) PROVE TypeInv'
  BY <1>2 DEF Check, dbVars, qVars, xVars
<1>3. ASSUME NEW q \in Request, NEW mode \in Mode, UpdateBrief(q, mode)
      PROVE  TypeInv'
  <2>1. [brief[q.brief] EXCEPT !.mode = mode] \in BriefRow
    BY <1>3, <1>q DEF UpdateBrief, BriefRow
  <2> QED
    BY <1>3, <1>q, <2>1, SetBriefType DEF UpdateBrief, qVars, xVars
<1>4. ASSUME NEW q \in Request, Regenerate(q) PROVE TypeInv'
  <2>1. [brief[q.brief] EXCEPT !.status = "queued"] \in BriefRow
    BY <1>4, <1>q DEF Regenerate, BriefRow, BriefStatus
  <2>2. q.run \in Run
    BY <1>4, RequestParts DEF Regenerate
  <2> QED
    BY <1>4, <1>p, <1>q, <2>1, <2>2, SetBriefType DEF Regenerate, qVars, xVars
<1>5. ASSUME NEW q \in Request, PublishPost(q) PROVE TypeInv'
  <2>1. site' \in [Exec -> SitePost]
    BY <1>5 DEF PublishPost, SitePost, Mode
  <2> QED
    BY <1>5, <1>q, <2>1 DEF PublishPost, dbVars, qVars, xVars
<1>6. ASSUME NEW q \in Request, PublishRow(q) PROVE TypeInv'
  <2>1. [brief[q.brief] EXCEPT !.status = "published"] \in BriefRow
    BY RequestParts DEF BriefRow, BriefStatus
  <2> QED
    BY <1>6, <2>1, SetBriefType DEF PublishRow, qVars, xVars
<1>7. ASSUME NEW q \in Request, DeleteBrief(q) PROVE TypeInv'
  <2>1. [Unborn EXCEPT !.status = "deleted"] \in BriefRow
    BY DEF Unborn, BriefRow, BriefStatus, Mode
  <2> QED
    BY <1>7, <1>q, <2>1, SetBriefType DEF DeleteBrief, qVars, xVars
<1>8. ASSUME NEW r \in Run, CancelRun(r) PROVE TypeInv'
  <2>1. run' \in [Run -> RunRow]
    BY <1>8, CloseRunType DEF CancelRun, RunClosed
  <2> QED
    BY <1>8, <2>1 DEF CancelRun, qVars, xVars
<1>9. ASSUME NEW r \in Run, CancelMessage(r) PROVE TypeInv'
  <2>1. queue' \in [Run -> Message]
    BY <1>9 DEF CancelMessage, Message, MessageState
  <2> QED
    BY <1>9, <2>1 DEF CancelMessage, xVars, dbVars
<1> QED
  BY <1>1, <1>2, <1>3, <1>4, <1>5, <1>6, <1>7, <1>8, <1>9 DEF RequestStep


\* A handler's steps before the post is created.
LEMMA StartType ==
  ASSUME TypeInv, NEW x \in Exec,
         \/ CheckRun(x) \/ LoadBrief(x) \/ ExpectOne(x) \/ CheckPlan(x)
         \/ MarkGenerating(x)
  PROVE  TypeInv'
<1> USE DEF TypeInv, TypeOK
<1>0. mem[x] \in Locals /\ run[RunX(x)] \in RunRow /\ LocalsAt(pc[x], mem[x])
  BY ExecParts
<1>1. CASE CheckRun(x)
  <2>1. "brief" \in Step /\ LocalsAt("brief", mem[x])
    BY DEF Step, LocalsAt, Tried
  <2>2. HandlersTyped'
    BY <1>1, <2>1, StayType, FinishType DEF CheckRun
  <2> QED
    BY <1>1, <2>2 DEF CheckRun, HandlersTyped, qVars, dbVars, panelVars
<1>2. CASE LoadBrief(x) /\ ~Throw(x)
  <2> DEFINE loc == [mem[x] EXCEPT !.mode = brief[BriefX(x)].mode]
  <2>1. loc \in Locals /\ LocalsAt("expect", loc) /\ "expect" \in Step
    BY <1>0, <1>2 DEF LoadBrief, Exists, BriefRow, Locals, Step, LocalsAt, Tried
  <2>2. mem' = [mem EXCEPT ![x] = loc] /\ Goto(x, "expect")
    BY <1>2 DEF LoadBrief
  <2>3. HandlersTyped'
    <3> HIDE DEF loc
    <3> QED BY <2>1, <2>2, MoveType
  <2> QED
    BY <1>2, <2>3 DEF LoadBrief, HandlersTyped, qVars, dbVars, panelVars
<1>3. CASE LoadBrief(x) /\ Throw(x)
  <2> QED
    BY <1>3, ThrowType DEF LoadBrief, HandlersTyped, dbVars, panelVars
<1>4. CASE ExpectOne(x)
  <2> DEFINE loc == [mem[x] EXCEPT !.phase = "try"]
  <2>1. loc \in Locals /\ LocalsAt("plan", loc) /\ "plan" \in Step
    BY <1>0 DEF Locals, Step, LocalsAt
  <2>2. mem' = [mem EXCEPT ![x] = loc] /\ Goto(x, "plan")
    BY <1>4 DEF ExpectOne
  <2>3. HandlersTyped'
    <3> HIDE DEF loc
    <3> QED BY <2>1, <2>2, MoveType
  <2>4. run' \in [Run -> RunRow]
    BY <1>4, ExecParts DEF ExpectOne, RunRow
  <2> QED
    BY <1>4, <2>3, <2>4 DEF ExpectOne, HandlersTyped, qVars, panelVars
<1>5. CASE CheckPlan(x)
  <2>1. "mark" \in Step /\ LocalsAt("mark", mem[x])
    BY <1>0, <1>5 DEF CheckPlan, Step, LocalsAt, Tried
  <2>2. HandlersTyped'
    BY <1>5, <2>1, StayType, FailType DEF CheckPlan
  <2> QED
    BY <1>5, <2>2 DEF CheckPlan, HandlersTyped, qVars, dbVars, panelVars
<1>6. CASE MarkGenerating(x)
  <2>1. "pipe" \in Step /\ LocalsAt("pipe", mem[x])
    BY <1>0, <1>6 DEF MarkGenerating, Step, LocalsAt, Tried
  <2>2. HandlersTyped'
    BY <1>6, <2>1, StayType DEF MarkGenerating
  <2>3. BriefX(x) \in Brief =>
          [brief[BriefX(x)] EXCEPT !.status = "generating"] \in BriefRow
    BY DEF BriefRow, BriefStatus
  <2>4. brief' \in [Brief -> BriefRow]
    BY <1>6, <2>3, SetBriefType DEF MarkGenerating
  <2> QED
    BY <1>6, <2>2, <2>4 DEF MarkGenerating, HandlersTyped, qVars, panelVars
<1> QED BY <1>1, <1>2, <1>3, <1>4, <1>5, <1>6

\* The pipeline, the post and what follows an error.
LEMMA PostType ==
  ASSUME TypeInv, NEW x \in Exec,
         \/ \E o \in Outcome : RunPipeline(x, o)
         \/ \E ok \in BOOLEAN : CreatePost(x, ok)
         \/ FailBrief(x) \/ StatementFails(x)
  PROVE  TypeInv'
<1> USE DEF TypeInv, TypeOK
<1>0. mem[x] \in Locals /\ LocalsAt(pc[x], mem[x])
  BY ExecParts
<1>1. ASSUME NEW o \in Outcome, RunPipeline(x, o) PROVE TypeInv'
  <2>0. mem[x].phase \in {"try", "catch"}
    BY <1>0, <1>1 DEF RunPipeline, LocalsAt, Tried
  <2>1. CASE o \in {"validation_failed", "llm_failed"}
    <3> DEFINE loc == [mem[x] EXCEPT !.item = o]
    <3>1. loc \in Locals /\ LocalsAt("item", loc) /\ "item" \in Step
      BY <1>0, <2>0, <2>1 DEF Locals, Failures, Step, LocalsAt
    <3>2. mem' = [mem EXCEPT ![x] = loc] /\ Goto(x, "item")
      BY <1>1, <2>1 DEF RunPipeline
    <3> HIDE DEF loc
    <3>3. HandlersTyped'
      BY <3>1, <3>2, MoveType
    <3> QED
      BY <1>1, <3>3 DEF RunPipeline, HandlersTyped, qVars, dbVars, panelVars
  <2>2. CASE o \in {"refused", "thrown"}
    <3>1. HandlersTyped'
      BY <1>1, <2>2, FailType DEF RunPipeline
    <3> QED
      BY <1>1, <3>1 DEF RunPipeline, HandlersTyped, qVars, dbVars, panelVars
  <2>3. CASE o = "ready"
    <3>1. PICK c \in BOOLEAN : mem' = [mem EXCEPT ![x].cover = c]
      BY <1>1, <2>3 DEF RunPipeline
    <3> DEFINE loc == [mem[x] EXCEPT !.cover = c]
    <3>2. loc \in Locals /\ LocalsAt("create", loc) /\ "create" \in Step
      BY <1>0, <2>0 DEF Locals, Step, LocalsAt
    <3>3. mem' = [mem EXCEPT ![x] = loc] /\ Goto(x, "create")
      BY <1>1, <2>3, <3>1 DEF RunPipeline
    <3> HIDE DEF loc
    <3>4. HandlersTyped'
      BY <3>2, <3>3, MoveType
    <3> QED
      BY <1>1, <3>4 DEF RunPipeline, HandlersTyped, qVars, dbVars, panelVars
  <2> QED
    BY <1>1, <2>1, <2>2, <2>3 DEF RunPipeline
<1>2. ASSUME NEW ok \in BOOLEAN, CreatePost(x, ok) PROVE TypeInv'
  <2>0. mem[x].phase \in {"try", "catch"}
    BY <1>0, <1>2 DEF CreatePost, LocalsAt, Tried
  <2>1. site' \in [Exec -> SitePost]
    <3>1. [status |-> PublishMode(x), cover |-> mem[x].cover] \in SitePost
      BY <1>0 DEF PublishMode, SitePost, Locals, Mode
    <3> QED
      BY <1>2, <3>1 DEF CreatePost
  <2>2. HandlersTyped'
    <3>1. CASE ok
      <4> DEFINE loc == [mem[x] EXCEPT !.item = "created"]
      <4>1. loc \in Locals /\ LocalsAt("item", loc) /\ "item" \in Step
        BY <1>0, <2>0 DEF Locals, Step, LocalsAt
      <4>2. mem' = [mem EXCEPT ![x] = loc] /\ Goto(x, "item")
        BY <1>2, <3>1 DEF CreatePost
      <4> HIDE DEF loc
      <4> QED BY <4>1, <4>2, MoveType
    <3>2. CASE ~ok
      BY <1>2, <3>2, FailType DEF CreatePost
    <3> QED BY <3>1, <3>2
  <2> QED
    BY <1>2, <2>1, <2>2 DEF CreatePost, HandlersTyped, qVars, dbVars, panelVars
<1>3. CASE FailBrief(x)
  <2>1. "item" \in Step /\ LocalsAt("item", mem[x])
    BY <1>0, <1>3 DEF FailBrief, Step, LocalsAt, Tried
  <2>2. HandlersTyped'
    BY <1>3, <2>1, StayType DEF FailBrief
  <2>3. BriefX(x) \in Brief =>
          [brief[BriefX(x)] EXCEPT !.status = "failed"] \in BriefRow
    BY DEF BriefRow, BriefStatus
  <2>4. brief' \in [Brief -> BriefRow]
    BY <1>3, <2>3, SetBriefType DEF FailBrief
  <2> QED
    BY <1>3, <2>2, <2>4 DEF FailBrief, HandlersTyped, qVars, panelVars
<1>4. CASE StatementFails(x)
  <2>1. HandlersTyped' /\ queue' \in [Run -> Message] /\ held' \subseteq Run
    BY <1>4, FailType, ThrowType DEF StatementFails, qVars
  <2>2. faults' \in 0..MaxFaults
    BY <1>4, FaultsAreCount DEF StatementFails
  <2> QED
    BY <1>4, <2>1, <2>2 DEF StatementFails, HandlersTyped, dbVars, panelVars
<1> QED BY <1>1, <1>2, <1>3, <1>4


\* A handler records its result and closes the run.
LEMMA EndType ==
  ASSUME TypeInv, NEW x \in Exec,
         Record(x) \/ UpdateRow(x) \/ Count(x) \/ Close(x)
  PROVE  TypeInv'
<1> USE DEF TypeInv, TypeOK
<1>0. /\ mem[x] \in Locals /\ LocalsAt(pc[x], mem[x])
      /\ RunX(x) \in Run
  BY ExecParts
<1>1. CASE Record(x)
  <2>1. mem[x].phase \in {"try", "catch"} /\ mem[x].item \in {"created"} \cup Failures
    BY <1>0, <1>1 DEF Record, LocalsAt, Tried, Locals
  <2>2. Item(x) \in ItemRow
    BY <1>0, <2>1 DEF Item, ItemRow
  <2> DEFINE l == IF mem[x].item = "failed" THEN "count" ELSE "update"
  <2>3. l \in Step /\ LocalsAt(l, mem[x])
    BY <2>1 DEF Step, LocalsAt, Failures
  <2>4. HandlersTyped'
    BY <1>1, <2>3, StayType DEF Record
  <2> QED
    BY <1>1, <2>2, <2>4 DEF Record, HandlersTyped, qVars, panelVars
<1>2. CASE UpdateRow(x)
  <2>1. "count" \in Step /\ LocalsAt("count", mem[x])
    BY <1>0, <1>2 DEF UpdateRow, Step, LocalsAt, Tried
  <2>2. HandlersTyped'
    BY <1>2, <2>1, StayType DEF UpdateRow
  <2> DEFINE row == [brief[BriefX(x)] EXCEPT !.status = StatusOf(x),
                       !.post = IF mem[x].item = "created" THEN x ELSE @]
  <2>3. BriefX(x) \in Brief => row \in BriefRow
    BY DEF StatusOf, BriefRow, BriefStatus
  <2>4. SetBrief(BriefX(x), row)
    BY <1>2 DEF UpdateRow
  <2>5. brief' \in [Brief -> BriefRow]
    <3> HIDE DEF row
    <3> QED BY <2>3, <2>4, SetBriefType
  <2> QED
    BY <1>2, <2>2, <2>5 DEF UpdateRow, HandlersTyped, qVars, panelVars
<1>3. CASE Count(x)
  <2> DEFINE S == {i \in items : i.run = RunX(x)}
             v == Verdict({i.status : i \in S})
             loc == [mem[x] EXCEPT !.verdict = v]
  <2>1. v \in RunClosed
    BY DEF Verdict, RunClosed
  <2>2. loc \in Locals /\ LocalsAt("close", loc) /\ "close" \in Step
    <3> HIDE DEF v
    <3> QED
      BY <1>0, <1>3, <2>1 DEF Count, Locals, LocalsAt, Tried, Step, RunClosed
  <2>3. Finish(x) \/ (mem' = [mem EXCEPT ![x] = loc] /\ Goto(x, "close"))
    BY <1>3 DEF Count
  <2>4. HandlersTyped'
    <3> HIDE DEF loc
    <3> QED BY <2>2, <2>3, FinishType, MoveType
  <2> QED
    BY <1>3, <2>4 DEF Count, HandlersTyped, qVars, dbVars, panelVars
<1>4. CASE Close(x)
  <2>1. mem[x].verdict \in RunClosed
    BY <1>0, <1>4 DEF Close, LocalsAt, Locals
  <2>2. run' \in [Run -> RunRow]
    BY <1>0, <1>4, <2>1, CloseRunType DEF Close
  <2>3. HandlersTyped'
    BY <1>4, FinishType DEF Close
  <2> QED
    BY <1>4, <2>2, <2>3 DEF Close, HandlersTyped, qVars, panelVars
<1> QED BY <1>1, <1>2, <1>3, <1>4

LEMMA NextType == TypeInv /\ [Next]_vars => TypeInv'
<1> SUFFICES ASSUME TypeInv, [Next]_vars PROVE TypeInv'
  OBVIOUS
<1>1. CASE WorkerStep
  BY <1>1, StartType, PostType, EndType DEF WorkerStep, HandlerStep
<1>2. CASE QueueServes
  BY <1>2, QueueType
<1>3. CASE EnqueueStep
  BY <1>3, EnqueueType
<1>4. CASE RequestStep
  BY <1>4, RequestType
<1>5. CASE FaultStep
  BY <1>5, QueueType, PostType DEF FaultStep
<1>6. CASE UNCHANGED vars
  BY <1>6 DEF vars, TypeInv, TypeOK, LocalsAt
<1> QED
  BY <1>1, <1>2, <1>3, <1>4, <1>5, <1>6 DEF Next

\* Every variable of a brief's generation keeps its type, in every
\* environment.
THEOREM BriefTypeCorrect == Spec => []TypeOK
<1>1. Spec => []TypeInv
  BY InitType, NextType, PTL DEF Spec
<1>2. TypeInv => TypeOK
  BY DEF TypeInv
<1> QED
  BY <1>1, <1>2, PTL


-----------------------------------------------------------------------------
(* No success without a post.  A run closes as a success when the items    *)
(* counted hold no failure; they then hold a created one, because a        *)
(* handler that counts has set expected_items to 1; and an item says       *)
(* created only after WordPress answered with the post.                    *)

HasCreated(r) == \E i \in items : i.run = r /\ i.status = "created"

ItemsBacked ==
  \A i \in items : /\ i.run = RunX(i.by)
                   /\ i.status = "created" => site[i.by].status # "none"
LocalsBacked ==
  \A x \in Exec : mem[x].item = "created" => site[x].status # "none"
TriedExpects ==
  \A x \in Exec : pc[x] \in Tried => run[RunX(x)].expected = 1
VerdictBacked ==
  \A x \in Exec : pc[x] = "close" /\ mem[x].verdict = "success"
                    => HasCreated(RunX(x))
SuccessBacked ==
  \A r \in Run : run[r].status = "success" => HasCreated(r)

Backed == /\ ItemsBacked /\ LocalsBacked /\ TriedExpects
          /\ VerdictBacked /\ SuccessBacked

\* What a step that is not the end of a generation leaves alone.
PostsStay ==
  \A x \in Exec : site[x].status # "none" => site'[x].status # "none"
RunsStay ==
  \A r \in Run : /\ run[r].expected = 1 => run'[r].expected = 1
                 /\ run'[r].status = "success" => run[r].status = "success"
HandlersStay ==
  \A x \in Exec :
    /\ pc'[x] \in Tried => pc[x] \in Tried \/ run'[RunX(x)].expected = 1
    /\ mem'[x].item = "created" => mem[x].item = "created" \/ site'[x].status # "none"
    /\ pc'[x] = "close" => pc[x] = "close" /\ mem'[x] = mem[x]

LEMMA QuietStep ==
  ASSUME TypeInv, Backed, PostsStay, RunsStay, HandlersStay, UNCHANGED items
  PROVE  Backed'
<1>1. \A x \in Exec : RunX(x) \in Run
  BY ExecParts
<1>2. \A i \in items : i.by \in Exec
  BY DEF TypeInv, TypeOK, ItemRow
<1>3. ItemsBacked'
  BY <1>2 DEF Backed, ItemsBacked, PostsStay, RunX
<1>4. LocalsBacked'
  BY DEF Backed, LocalsBacked, HandlersStay, PostsStay
<1>5. TriedExpects'
  BY <1>1 DEF Backed, TriedExpects, HandlersStay, RunsStay, RunX
<1>6. VerdictBacked'
  BY DEF Backed, VerdictBacked, HandlersStay, HasCreated, RunX
<1>7. SuccessBacked'
  BY DEF Backed, SuccessBacked, RunsStay, HasCreated
<1> QED BY <1>3, <1>4, <1>5, <1>6, <1>7 DEF Backed

\* Closing a run touches its status and nothing a count depends on.
LEMMA CloseRunFrame ==
  ASSUME TypeOK, NEW r \in Run, NEW st \in RunClosed, NEW who, CloseRun(r, st, who)
  PROVE  \A t \in Run : /\ run'[t].expected = run[t].expected
                        /\ run'[t].brief = run[t].brief
                        /\ run'[t].status = IF t = r THEN st ELSE run[t].status
<1>1. run \in [Run -> RunRow] /\ run[r] \in RunRow
  BY DEF TypeOK
<1>2. run' = [run EXCEPT ![r] = [run[r] EXCEPT !.status = st, !.by = who]]
  BY <1>1 DEF CloseRun
<1>3. ASSUME NEW t \in Run
      PROVE  /\ run'[t].expected = run[t].expected
             /\ run'[t].brief = run[t].brief
             /\ run'[t].status = IF t = r THEN st ELSE run[t].status
  <2>1. CASE t = r
    <3>1. run'[t] = [run[r] EXCEPT !.status = st, !.by = who]
      BY <1>1, <1>2, <2>1
    <3> QED BY <1>1, <2>1, <3>1 DEF RunRow
  <2>2. CASE t # r
    BY <1>1, <1>2, <2>2
  <2> QED BY <2>1, <2>2
<1> QED BY <1>3

\* Nobody but a handler ends a generation.
LEMMA OthersQuiet ==
  ASSUME TypeInv,
         QueueServes \/ EnqueueStep \/ RequestStep \/ Crash \/ \E r \in Run : TimeOut(r)
  PROVE  PostsStay /\ RunsStay /\ HandlersStay /\ UNCHANGED items
<1> USE DEF PostsStay, RunsStay, HandlersStay, dbVars, xVars, qVars, panelVars
<1>1. run \in [Run -> RunRow] /\ pc \in [Exec -> Step] /\ site \in [Exec -> SitePost]
  BY DEF TypeInv, TypeOK
<1>2. CASE QueueServes
  BY <1>1, <1>2 DEF QueueServes, Fetch, Settle, Expire, Tried
<1>3. CASE EnqueueStep
  <2>1. ASSUME NEW r \in Run, OpenRun(r) \/ SendRun(r)
        PROVE  PostsStay /\ RunsStay /\ HandlersStay /\ UNCHANGED items
    <3>1. \A t \in Run : /\ run'[t].expected = run[t].expected
                        /\ run'[t].status \in {run[t].status, "running"}
      BY <1>1, <2>1 DEF OpenRun, SendRun, RunRow
    <3>2. UNCHANGED <<items, site, pc, mem>>
      BY <2>1 DEF OpenRun, SendRun
    <3> QED BY <3>1, <3>2, ExecParts
  <2>2. ASSUME NEW r \in Run, CancelRefused(r)
        PROVE  PostsStay /\ RunsStay /\ HandlersStay /\ UNCHANGED items
    <3>1. \A t \in Run : /\ run'[t].expected = run[t].expected
                        /\ run'[t].status = IF t = r THEN "cancelled" ELSE run[t].status
      BY <2>2, CloseRunFrame DEF CancelRefused, TypeInv, RunClosed
    <3> QED BY <1>1, <2>2, <3>1, ExecParts DEF CancelRefused
  <2> QED BY <1>3, <2>1, <2>2 DEF EnqueueStep
<1>4. CASE RequestStep
  <2>1. ASSUME NEW b \in Brief, NEW r \in Run, NEW mode \in Mode,
               CreateBrief(b, r, mode)
        PROVE  PostsStay /\ RunsStay /\ HandlersStay /\ UNCHANGED items
    BY <1>1, <2>1 DEF CreateBrief, Promise
  <2>2. ASSUME NEW q \in Request,
               \/ Check(q) \/ \E mode \in Mode : UpdateBrief(q, mode)
               \/ PublishRow(q) \/ DeleteBrief(q)
        PROVE  PostsStay /\ RunsStay /\ HandlersStay /\ UNCHANGED items
    BY <1>1, <2>2 DEF Check, UpdateBrief, PublishRow, DeleteBrief
  <2>3. ASSUME NEW q \in Request, Regenerate(q)
        PROVE  PostsStay /\ RunsStay /\ HandlersStay /\ UNCHANGED items
    BY <1>1, <2>3, RequestParts DEF Regenerate, Promise
  <2>4. ASSUME NEW q \in Request, PublishPost(q)
        PROVE  PostsStay /\ RunsStay /\ HandlersStay /\ UNCHANGED items
    BY <1>1, <2>4 DEF PublishPost
  <2>5. ASSUME NEW r \in Run, CancelRun(r)
        PROVE  PostsStay /\ RunsStay /\ HandlersStay /\ UNCHANGED items
    <3>1. \A t \in Run : /\ run'[t].expected = run[t].expected
                        /\ run'[t].status = IF t = r THEN "cancelled" ELSE run[t].status
      BY <2>5, CloseRunFrame DEF CancelRun, TypeInv, RunClosed
    <3> QED BY <1>1, <2>5, <3>1, ExecParts DEF CancelRun
  <2>6. ASSUME NEW r \in Run, CancelMessage(r)
        PROVE  PostsStay /\ RunsStay /\ HandlersStay /\ UNCHANGED items
    BY <1>1, <2>6 DEF CancelMessage
  <2> QED
    BY <1>4, <2>1, <2>2, <2>3, <2>4, <2>5, <2>6 DEF RequestStep
<1>5. CASE Crash
  BY <1>1, <1>5 DEF Crash, Blank, Tried
<1>6. CASE \E r \in Run : TimeOut(r)
  BY <1>1, <1>6 DEF TimeOut
<1> QED BY <1>2, <1>3, <1>4, <1>5, <1>6

\* Nor does a handler before it records.
LEMMA HandlerQuiet ==
  ASSUME TypeInv, NEW x \in Exec,
         \/ CheckRun(x) \/ LoadBrief(x) \/ ExpectOne(x) \/ CheckPlan(x)
         \/ MarkGenerating(x)
         \/ \E o \in Outcome : RunPipeline(x, o)
         \/ \E ok \in BOOLEAN : CreatePost(x, ok)
         \/ FailBrief(x) \/ UpdateRow(x) \/ StatementFails(x)
  PROVE  PostsStay /\ RunsStay /\ HandlersStay /\ UNCHANGED items
<1> USE DEF PostsStay, RunsStay, HandlersStay, dbVars, xVars, qVars, panelVars,
            Goto, Finish, Throw, Fail
<1>1. /\ run \in [Run -> RunRow] /\ pc \in [Exec -> Step]
      /\ mem \in [Exec -> Locals] /\ site \in [Exec -> SitePost]
      /\ RunX(x) \in Run /\ mem[x] \in Locals /\ LocalsAt(pc[x], mem[x])
  BY ExecParts DEF TypeInv, TypeOK
<1>2. CASE CheckRun(x) \/ LoadBrief(x) \/ MarkGenerating(x) \/ CheckPlan(x)
  BY <1>1, <1>2 DEF CheckRun, LoadBrief, MarkGenerating, CheckPlan, Blank, Tried, Locals
<1>3. CASE ExpectOne(x)
  BY <1>1, <1>3 DEF ExpectOne, Locals, RunRow
<1>4. ASSUME NEW o \in Outcome, RunPipeline(x, o)
      PROVE  PostsStay /\ RunsStay /\ HandlersStay /\ UNCHANGED items
  BY <1>1, <1>4 DEF RunPipeline, Tried, Locals
<1>5. ASSUME NEW ok \in BOOLEAN, CreatePost(x, ok)
      PROVE  PostsStay /\ RunsStay /\ HandlersStay /\ UNCHANGED items
  <2>1. PublishMode(x) # "none"
    BY <1>1 DEF PublishMode, Locals, Mode
  <2>2. PostsStay /\ UNCHANGED items
    BY <1>1, <1>5, <2>1 DEF CreatePost
  <2>3. RunsStay
    BY <1>5 DEF CreatePost
  <2>4. pc[x] = "create" /\ UNCHANGED run
    BY <1>5 DEF CreatePost
  <2>5. CASE ok
    <3>1. site'[x].status # "none"
      BY <1>1, <1>5, <2>1, <2>5 DEF CreatePost
    <3>2. /\ pc' = [pc EXCEPT ![x] = "item"]
          /\ mem' = [mem EXCEPT ![x].item = "created"]
      BY <1>5, <2>5 DEF CreatePost
    <3>3. HandlersStay
      BY <1>1, <2>4, <3>1, <3>2 DEF Tried
    <3> QED BY <2>2, <2>3, <3>3
  <2>6. CASE ~ok
    <3>1. /\ pc' = [pc EXCEPT ![x] = "failBrief"]
          /\ mem' = [mem EXCEPT ![x].item = "failed", ![x].phase = "catch"]
      BY <1>5, <2>6 DEF CreatePost
    <3>2. HandlersStay
      BY <1>1, <2>4, <3>1 DEF Tried, Locals
    <3> QED BY <2>2, <2>3, <3>2
  <2> QED BY <2>5, <2>6
<1>6. CASE FailBrief(x) \/ UpdateRow(x)
  BY <1>1, <1>6 DEF FailBrief, UpdateRow, Tried
<1>7. CASE StatementFails(x)
  BY <1>1, <1>7 DEF StatementFails, Blank, Tried, Locals
<1> QED BY <1>2, <1>3, <1>4, <1>5, <1>6, <1>7


\* An item says created only for a post its handler created.
LEMMA RecordBacked ==
  ASSUME TypeInv, Backed, NEW x \in Exec, Record(x) PROVE Backed'
<1>1. /\ items' = items \cup {Item(x)} /\ UNCHANGED <<mem, run, site>>
      /\ pc' = [pc EXCEPT ![x] = IF mem[x].item = "failed" THEN "count" ELSE "update"]
      /\ pc[x] = "item"
  BY DEF Record, Goto
<1>2. /\ Item(x).run = RunX(x) /\ Item(x).by = x
      /\ Item(x).status = "created" => site[x].status # "none"
  BY DEF Item, Backed, LocalsBacked
<1>3. \A r \in Run : HasCreated(r) => HasCreated(r)'
  BY <1>1 DEF HasCreated
<1>4. pc \in [Exec -> Step]
  BY DEF TypeInv, TypeOK
<1>5. ItemsBacked'
  BY <1>1, <1>2 DEF Backed, ItemsBacked, RunX
<1>6. LocalsBacked'
  BY <1>1 DEF Backed, LocalsBacked
<1>7. TriedExpects'
  BY <1>1, <1>4 DEF Backed, TriedExpects, RunX, Tried
<1>8. VerdictBacked'
  BY <1>1, <1>3, <1>4, ExecParts DEF Backed, VerdictBacked, RunX
<1>9. SuccessBacked'
  BY <1>1, <1>3 DEF Backed, SuccessBacked
<1> QED BY <1>5, <1>6, <1>7, <1>8, <1>9 DEF Backed

\* A count of at least one with no failure among the items finds a created one.
LEMMA CountBacked ==
  ASSUME TypeInv, Backed, NEW x \in Exec, Count(x) PROVE Backed'
<1> DEFINE S == {i \in items : i.run = RunX(x)}
           v == Verdict({i.status : i \in S})
<1>0. /\ pc \in [Exec -> Step] /\ mem \in [Exec -> Locals]
      /\ items \subseteq ItemRow /\ run \in [Run -> RunRow] /\ RunX(x) \in Run
  BY ExecParts DEF TypeInv, TypeOK
<1>1. UNCHANGED <<items, run, site>> /\ pc[x] = "count"
  BY DEF Count, dbVars
<1>2. run[RunX(x)].expected = 1
  BY <1>1 DEF Backed, TriedExpects, Tried
<1>3. ASSUME Cardinality(S) >= 1, v = "success" PROVE HasCreated(RunX(x))
  <2>1. S # {}
    BY <1>3, FS_EmptySet
  <2>2. PICK i \in S : TRUE
    BY <2>1
  <2>3. i.status \in {j.status : j \in S}
    BY <2>2
  <2>4. {j.status : j \in S} \cap Failures = {}
    BY <1>3 DEF Verdict
  <2>5. i.status \in {"created"} \cup Failures
    BY <1>0, <2>2 DEF ItemRow
  <2> QED
    BY <2>2, <2>3, <2>4, <2>5 DEF HasCreated
<1>4. \/ /\ pc' = [pc EXCEPT ![x] = "close"]
         /\ mem' = [mem EXCEPT ![x].verdict = v]
         /\ Cardinality(S) >= 1
      \/ /\ pc' = [pc EXCEPT ![x] = "done"]
         /\ mem' = [mem EXCEPT ![x] = Blank]
  BY <1>2 DEF Count, Goto, Finish
<1> HIDE DEF v, S
<1>5. \A y \in Exec : mem'[y].item = "created" => mem[y].item = "created"
  BY <1>0, <1>4 DEF Blank, Locals
<1>6. LocalsBacked'
  BY <1>1, <1>5 DEF Backed, LocalsBacked
<1>7. TriedExpects'
  BY <1>0, <1>1, <1>2, <1>4 DEF Backed, TriedExpects, Tried, RunX
<1>8. VerdictBacked'
  <2> SUFFICES ASSUME NEW y \in Exec, pc'[y] = "close", mem'[y].verdict = "success"
               PROVE  HasCreated(RunX(y))
    BY <1>1 DEF VerdictBacked, HasCreated, RunX
  <2>1. CASE y = x
    <3>1. pc'[x] = "close"
      BY <2>1
    <3>2. /\ mem' = [mem EXCEPT ![x].verdict = v]
          /\ Cardinality(S) >= 1
      BY <1>0, <1>4, <3>1
    <3>3. mem'[x].verdict = v
      BY <1>0, <3>2 DEF Locals
    <3> QED BY <1>3, <2>1, <3>2, <3>3
  <2>2. CASE y # x
    <3>1. pc[y] = "close" /\ mem[y].verdict = "success"
      BY <1>0, <1>4, <2>2
    <3> QED BY <3>1 DEF Backed, VerdictBacked
  <2> QED BY <2>1, <2>2
<1>9. ItemsBacked' /\ SuccessBacked'
  BY <1>1 DEF Backed, ItemsBacked, SuccessBacked, HasCreated, RunX
<1> QED BY <1>6, <1>7, <1>8, <1>9 DEF Backed

LEMMA CloseBacked ==
  ASSUME TypeInv, Backed, NEW x \in Exec, Close(x) PROVE Backed'
<1>0. /\ pc \in [Exec -> Step] /\ mem \in [Exec -> Locals]
      /\ run \in [Run -> RunRow] /\ RunX(x) \in Run
      /\ mem[x] \in Locals /\ LocalsAt(pc[x], mem[x])
  BY ExecParts DEF TypeInv, TypeOK
<1>1. /\ UNCHANGED <<items, site>> /\ pc[x] = "close"
      /\ pc' = [pc EXCEPT ![x] = "done"] /\ mem' = [mem EXCEPT ![x] = Blank]
  BY DEF Close, Finish, Goto
<1>2. mem[x].verdict \in RunClosed
  BY <1>0, <1>1 DEF LocalsAt, Locals
<1>3. \A t \in Run :
        /\ run'[t].expected = run[t].expected
        /\ run'[t].status = "success" =>
             run[t].status = "success" \/ (t = RunX(x) /\ mem[x].verdict = "success")
  <2>1. CASE UNCHANGED run
    BY <2>1
  <2>2. CASE CloseRun(RunX(x), mem[x].verdict, "items")
    <3>1. \A t \in Run :
            /\ run'[t].expected = run[t].expected
            /\ run'[t].status = IF t = RunX(x) THEN mem[x].verdict ELSE run[t].status
      BY <1>0, <1>2, <2>2, CloseRunFrame DEF TypeInv
    <3> QED BY <3>1
  <2> QED BY <2>1, <2>2 DEF Close
<1>4. ItemsBacked'
  BY <1>1 DEF Backed, ItemsBacked, RunX
<1>5. LocalsBacked'
  BY <1>0, <1>1 DEF Backed, LocalsBacked, Blank
<1>6. TriedExpects'
  BY <1>0, <1>1, <1>3, ExecParts DEF Backed, TriedExpects, Tried, RunX
<1>7. VerdictBacked'
  BY <1>0, <1>1 DEF Backed, VerdictBacked, HasCreated, RunX
<1>8. SuccessBacked'
  BY <1>1, <1>3 DEF Backed, SuccessBacked, VerdictBacked, HasCreated
<1> QED BY <1>4, <1>5, <1>6, <1>7, <1>8 DEF Backed

LEMMA NextBacked == TypeInv /\ Backed /\ [Next]_vars => Backed'
<1> SUFFICES ASSUME TypeInv, Backed, [Next]_vars PROVE Backed'
  OBVIOUS
<1>1. ASSUME NEW x \in Exec, HandlerStep(x) PROVE Backed'
  BY <1>1, HandlerQuiet, QuietStep, RecordBacked, CountBacked, CloseBacked
  DEF HandlerStep
<1>2. CASE QueueServes \/ EnqueueStep \/ RequestStep
  BY <1>2, OthersQuiet, QuietStep
<1>3. CASE FaultStep
  BY <1>3, OthersQuiet, HandlerQuiet, QuietStep DEF FaultStep
<1>4. CASE UNCHANGED vars
  BY <1>4 DEF vars, Backed, ItemsBacked, LocalsBacked, TriedExpects, VerdictBacked,
              SuccessBacked, HasCreated, RunX
<1> QED
  BY <1>1, <1>2, <1>3, <1>4 DEF Next, WorkerStep

\* No success without a post: whatever crashes, overruns, fails, is sent
\* twice or is done by the user meanwhile, a run reported as a success put
\* a post into WordPress.
THEOREM SuccessHasPostHolds == Spec => []SuccessHasPost
<1>1. Init => Backed
  BY DEF Init, Backed, ItemsBacked, LocalsBacked, TriedExpects, VerdictBacked,
         SuccessBacked, Blank, NoRun, Tried
<1>2. TypeInv /\ Backed => SuccessHasPost
  <2> SUFFICES ASSUME TypeInv, Backed, NEW r \in Run, run[r].status = "success"
               PROVE  \E x \in Exec : RunX(x) = r /\ site[x].status # "none"
    BY DEF SuccessHasPost
  <2>1. PICK i \in items : i.run = r /\ i.status = "created"
    BY DEF Backed, SuccessBacked, HasCreated
  <2>2. i.by \in Exec /\ RunX(i.by) = r /\ site[i.by].status # "none"
    BY <2>1 DEF Backed, ItemsBacked, TypeInv, TypeOK, ItemRow
  <2> QED BY <2>2
<1>3. Spec => [](TypeInv /\ Backed)
  BY <1>1, InitType, NextType, NextBacked, PTL DEF Spec
<1> QED
  BY <1>2, <1>3, PTL

-----------------------------------------------------------------------------
(* How a run is opened.  Before its message is sent nobody works on it, so *)
(* nobody but the user can have closed it; afterwards its opener is done.  *)

UnusedRun ==
  \A r \in Run : run[r].brief = NoBrief =>
    run[r].status = "none" /\ opener[r] = "none" /\ queue[r].state = "free"
UnsentRun ==
  \A r \in Run : opener[r] # "none" =>
    /\ queue[r].state = "free"
    /\ opener[r] = "insert" => run[r].status = "none"
    /\ opener[r] # "insert" => run[r].status \in {"running", "cancelled"}
SentIsBusy == \A x \in Exec : Busy(x) => queue[RunX(x)].state # "free"
RunHasBrief ==
  \A r \in Run : run[r].brief # NoBrief => brief[run[r].brief].status # "none"

HeldIsSent == \A r \in held : queue[r].state # "free"
AskedExists == \A q \in checked : brief[q.brief].status # "none"

OpenInv == /\ UnusedRun /\ UnsentRun /\ RunHasBrief
           /\ SentIsBusy /\ HeldIsSent /\ AskedExists

\* What a step may do to a run and to the request that opens it.
RunMoves(r) ==
  \/ /\ run'[r].brief = run[r].brief
     /\ \/ run'[r].status = run[r].status /\ opener'[r] \in {opener[r], "none"}
        \/ run'[r].status = run[r].status /\ opener[r] = "send" /\ opener'[r] = "refused"
        \/ /\ opener[r] = "insert" /\ opener'[r] = "send"
           /\ run'[r].status = "running"
        \/ /\ run[r].status = "running" /\ run'[r].status = "cancelled"
           /\ opener'[r] = opener[r]
        \/ /\ opener[r] = "refused" /\ opener'[r] = "none"
           /\ run'[r].status = "cancelled"
        \/ /\ run[r].status = "running" /\ run'[r].status \in RunClosed
           /\ queue[r].state # "free" /\ opener'[r] = opener[r]
  \/ /\ run[r].brief = NoBrief /\ run'[r].brief # NoBrief
     /\ run'[r].status = run[r].status /\ opener'[r] = "insert"
     /\ brief'[run'[r].brief].status # "none"

OpenMoves ==
  /\ \A r \in Run : RunMoves(r)
  /\ \A b \in Brief : brief[b].status # "none" => brief'[b].status # "none"
  /\ \A r \in Run : queue[r].state # "free" => queue'[r].state # "free"
  /\ \A r \in Run : queue'[r].state # "free" =>
       queue[r].state # "free" \/ (opener[r] = "send" /\ opener'[r] = "none")
  /\ \A x \in Exec : Busy(x)' => Busy(x) \/ queue'[RunX(x)].state # "free"
  /\ \A r \in held' : r \in held \/ queue'[r].state # "free"
  /\ \A q \in checked' : q \in checked \/ brief[q.brief].status # "none"

\* A step that moves runs as it may keeps the invariant.
LEMMA MovesOpen ==
  ASSUME TypeInv, TypeInv', OpenInv, OpenMoves PROVE OpenInv'
<1>1. /\ run \in [Run -> RunRow]
      /\ \A r \in Run : run[r].brief \in Brief \cup {NoBrief}
  BY DEF TypeInv, TypeOK, RunRow
<1>2. UnusedRun'
  BY DEF OpenInv, OpenMoves, RunMoves, UnusedRun, UnsentRun
<1>3. UnsentRun'
  BY DEF OpenInv, OpenMoves, RunMoves, UnusedRun, UnsentRun
<1>4. SentIsBusy'
  BY ExecParts DEF OpenInv, OpenMoves, SentIsBusy, RunX
<1>5. HeldIsSent'
  BY DEF OpenInv, OpenMoves, HeldIsSent, TypeInv, TypeOK
<1>6. RunHasBrief'
  BY <1>1 DEF OpenInv, OpenMoves, RunMoves, RunHasBrief
<1>7. AskedExists'
  BY RequestParts DEF OpenInv, OpenMoves, AskedExists, TypeInv, TypeOK
<1> QED BY <1>2, <1>3, <1>4, <1>5, <1>6, <1>7 DEF OpenInv

\* And what a closed run reports stays.
LEMMA MovesClosed ==
  ASSUME OpenInv, OpenMoves, NEW r \in Run, run[r].status \in RunClosed
  PROVE  run'[r].status = run[r].status
  BY DEF OpenInv, OpenMoves, RunMoves, UnusedRun, UnsentRun, RunClosed

\* SetBrief changes the row of one brief that exists.
LEMMA SetBriefFrame ==
  ASSUME TypeOK, NEW b, NEW row, SetBrief(b, row)
  PROVE  \A c \in Brief : \/ brief'[c] = brief[c]
                          \/ c = b /\ Exists(b) /\ brief'[c] = row
  BY DEF SetBrief, TypeOK

\* A message that is given back was sent.
LEMMA GiveBackFrame ==
  ASSUME TypeOK, NEW r \in Run, GiveBack(r)
  PROVE  \A t \in Run : /\ t # r => queue'[t] = queue[t]
                        /\ queue'[r].state \in {"retry", "failed"}
                        /\ queue'[r].tries = queue[r].tries
                        /\ queue[r].tries >= Tries => queue'[r].state = "failed"
<1>1. /\ queue \in [Run -> Message] /\ queue[r] \in Message
      /\ queue' = [queue EXCEPT ![r] = Returned(r)]
  BY DEF TypeOK, GiveBack
<1>2. /\ Returned(r).state \in {"retry", "failed"} /\ Returned(r).tries = queue[r].tries
      /\ queue[r].tries >= Tries => Returned(r).state = "failed"
  BY <1>1, TriesIsCount DEF Returned, Message
<1> QED BY <1>1, <1>2

\* A handler throws its delivery away, or leaves the queue.
LEMMA HandlerQueue ==
  ASSUME TypeInv, NEW x \in Exec, HandlerStep(x) \/ StatementFails(x)
  PROVE  /\ UNCHANGED qVars \/ (Owned(x) /\ GiveBack(RunX(x)) /\ pc'[x] = "off")
         /\ Busy(x)
         /\ \A y \in Exec : y # x => pc'[y] = pc[y] /\ mem'[y] = mem[y]
  BY DEF HandlerStep, CheckRun, LoadBrief, ExpectOne, CheckPlan, MarkGenerating, RunPipeline,
         CreatePost, FailBrief, Record, UpdateRow, Count, Close, StatementFails, Goto, Fail,
         Throw, Finish, Busy, qVars, TypeInv, TypeOK

\* A handler writes the row of its brief, if there is one, and no mode.
LEMMA HandlerBrief ==
  ASSUME TypeInv, NEW x \in Exec, HandlerStep(x) \/ StatementFails(x)
  PROVE  \A c \in Brief :
           \/ brief'[c] = brief[c]
           \/ /\ c = BriefX(x) /\ Exists(c)
              /\ brief'[c].status \in {"generating", "failed"} \cup Delivered
<1>1. brief \in [Brief -> BriefRow]
  BY DEF TypeInv, TypeOK
<1>2. CASE MarkGenerating(x)
  <2>1. SetBrief(BriefX(x), [brief[BriefX(x)] EXCEPT !.status = "generating"])
    BY <1>2 DEF MarkGenerating
  <2> QED BY <1>1, <2>1, SetBriefFrame DEF TypeInv, BriefRow
<1>3. CASE FailBrief(x)
  <2>1. SetBrief(BriefX(x), [brief[BriefX(x)] EXCEPT !.status = "failed"])
    BY <1>3 DEF FailBrief
  <2> QED BY <1>1, <2>1, SetBriefFrame DEF TypeInv, BriefRow
<1>4. CASE UpdateRow(x)
  <2> DEFINE b == BriefX(x)
             row == [brief[b] EXCEPT !.status = StatusOf(x),
                       !.post = IF mem[x].item = "created" THEN x ELSE @]
  <2>1. SetBrief(b, row)
    BY <1>4 DEF UpdateRow
  <2>2. StatusOf(x) \in {"failed"} \cup Delivered
    BY DEF StatusOf, Delivered
  <2>3. ASSUME Exists(b) PROVE row.status = StatusOf(x)
    BY <1>1, <2>3 DEF Exists, BriefRow
  <2> HIDE DEF row
  <2> QED BY <2>1, <2>2, <2>3, SetBriefFrame DEF TypeInv
<1>5. CASE ~MarkGenerating(x) /\ ~FailBrief(x) /\ ~UpdateRow(x)
  BY <1>5 DEF HandlerStep, CheckRun, LoadBrief, ExpectOne, CheckPlan, RunPipeline,
         CreatePost, Record, Count, Close, StatementFails, dbVars
<1> QED BY <1>2, <1>3, <1>4, <1>5

\* A handler changes a status only when it closes its running run.
LEMMA HandlerRun ==
  ASSUME TypeInv, NEW x \in Exec, HandlerStep(x) \/ StatementFails(x)
  PROVE  \A r \in Run :
           /\ run'[r].brief = run[r].brief
           /\ \/ run'[r].status = run[r].status
              \/ r = RunX(x) /\ run[r].status = "running" /\ run'[r].status \in RunClosed
<1>1. run \in [Run -> RunRow] /\ mem \in [Exec -> Locals] /\ RunX(x) \in Run
  BY ExecParts DEF TypeInv, TypeOK
<1>2. CASE ExpectOne(x)
  BY <1>1, <1>2 DEF ExpectOne, RunRow
<1>3. CASE Close(x)
  <2>1. LocalsAt(pc[x], mem[x]) /\ pc[x] = "close" /\ mem[x] \in Locals
    BY <1>1, <1>3 DEF Close, TypeInv
  <2>2. mem[x].verdict \in RunClosed
    BY <2>1 DEF LocalsAt, Locals
  <2>3. \/ UNCHANGED run
        \/ run[RunX(x)].status = "running" /\ CloseRun(RunX(x), mem[x].verdict, "items")
    BY <1>3 DEF Close
  <2> QED BY <1>1, <2>2, <2>3, CloseRunFrame DEF TypeInv
<1>4. CASE ~ExpectOne(x) /\ ~Close(x)
  BY <1>4 DEF HandlerStep, CheckRun, LoadBrief, CheckPlan, MarkGenerating, RunPipeline,
         CreatePost, FailBrief, Record, UpdateRow, Count, StatementFails, dbVars
<1> QED BY <1>2, <1>3, <1>4

\* Handlers move runs as they may.
LEMMA HandlerOpens ==
  ASSUME TypeInv, OpenInv, NEW x \in Exec, HandlerStep(x) \/ StatementFails(x)
  PROVE  OpenMoves
<1>1. RunX(x) \in Run /\ queue[RunX(x)].state # "free"
  BY ExecParts, HandlerQueue DEF OpenInv, SentIsBusy
<1>2. UNCHANGED <<opener, checked>>
  BY DEF HandlerStep, CheckRun, LoadBrief, ExpectOne, CheckPlan, MarkGenerating, RunPipeline,
         CreatePost, FailBrief, Record, UpdateRow, Count, Close, StatementFails, panelVars
<1>3. \A r \in Run : RunMoves(r)
  BY <1>1, <1>2, HandlerRun DEF RunMoves
<1>4. \A b \in Brief : brief[b].status # "none" => brief'[b].status # "none"
  BY HandlerBrief DEF Delivered
<1>5. \A r \in Run : queue'[r].state = "free" <=> queue[r].state = "free"
  BY <1>1, HandlerQueue, GiveBackFrame DEF TypeInv, qVars
<1>6. \A y \in Exec : Busy(y)' => Busy(y)
  BY HandlerQueue DEF Busy
<1>7. held' \subseteq held
  BY HandlerQueue DEF GiveBack, qVars
<1> QED BY <1>2, <1>3, <1>4, <1>5, <1>6, <1>7 DEF OpenMoves

\* The queue moves no run.
LEMMA QueueOpens ==
  ASSUME TypeInv, OpenInv, QueueServes \/ Crash \/ \E r \in Run : TimeOut(r)
  PROVE  OpenMoves
<1>1. UNCHANGED <<run, brief, opener, checked>>
  BY DEF QueueServes, Fetch, Settle, Expire, Crash, TimeOut, dbVars, panelVars
<1>2. queue \in [Run -> Message] /\ held \subseteq Run /\ pc \in [Exec -> Step]
  BY DEF TypeInv, TypeOK
<1>3. ASSUME NEW r \in Run, Fetch(r) PROVE OpenMoves
  <2>1. \A t \in Run : queue'[t].state = (IF t = r THEN "active" ELSE queue[t].state)
    BY <1>2, <1>3 DEF Fetch
  <2>2. queue[r].state # "free" /\ held' = {r}
    BY <1>3 DEF Fetch, Waiting
  <2>3. \A y \in Exec : Busy(y)' => Busy(y) \/ RunX(y) = r
    BY <1>2, <1>3 DEF Fetch, Busy, RunX
  <2> QED BY <1>1, <2>1, <2>2, <2>3 DEF OpenMoves, RunMoves
<1>4. ASSUME NEW r \in Run, Settle(r) PROVE OpenMoves
  <2>1. \A t \in Run : queue'[t].state = (IF t = r THEN "completed" ELSE queue[t].state)
    BY <1>2, <1>4 DEF Settle, Message
  <2>2. queue[r].state # "free" /\ held' \subseteq held /\ UNCHANGED pc
    BY <1>4 DEF Settle, OpenInv, HeldIsSent, xVars
  <2> QED BY <1>1, <2>1, <2>2 DEF OpenMoves, RunMoves, Busy
<1>5. ASSUME NEW r \in Run, TimeOut(r) PROVE OpenMoves
  <2>1. /\ GiveBack(r) /\ queue[r].state # "free" /\ held' \subseteq held /\ UNCHANGED pc
    BY <1>5 DEF TimeOut, GiveBack, OpenInv, HeldIsSent, xVars
  <2>2. \A t \in Run : queue'[t].state = "free" <=> queue[t].state = "free"
    BY <2>1, GiveBackFrame DEF TypeInv
  <2> QED BY <1>1, <2>1, <2>2 DEF OpenMoves, RunMoves, Busy
<1>6. ASSUME NEW r \in Run, Expire(r) PROVE OpenMoves
  <2>1. \A t \in Run : queue'[t].state = "free" <=> queue[t].state = "free"
    BY <1>2, <1>6 DEF Expire, Returned, Message
  <2>2. UNCHANGED <<held, pc>>
    BY <1>6 DEF Expire, xVars
  <2> QED BY <1>1, <2>1, <2>2 DEF OpenMoves, RunMoves, Busy
<1>7. CASE Crash
  BY <1>1, <1>7 DEF Crash, OpenMoves, RunMoves, Busy
<1> QED BY <1>3, <1>4, <1>5, <1>6, <1>7 DEF QueueServes

\* enqueueBriefGeneration opens its run, sends its message, or gives up.
LEMMA EnqueueOpens ==
  ASSUME TypeInv, OpenInv, EnqueueStep PROVE OpenMoves
<1>1. /\ run \in [Run -> RunRow] /\ queue \in [Run -> Message]
      /\ opener \in [Run -> {"none", "insert", "send", "refused"}]
  BY DEF TypeInv, TypeOK
<1>2. UNCHANGED <<brief, held, pc, checked>>
  BY DEF EnqueueStep, OpenRun, SendRun, CancelRefused, qVars, xVars, dbVars
<1>3. ASSUME NEW r \in Run, OpenRun(r) PROVE OpenMoves
  <2>1. UNCHANGED queue
    BY <1>3 DEF OpenRun, qVars
  <2>2. ASSUME NEW t \in Run PROVE RunMoves(t)
    <3>1. CASE t = r
      BY <1>1, <1>3, <3>1 DEF OpenRun, RunMoves, RunRow
    <3>2. CASE t # r
      BY <1>1, <1>3, <3>2 DEF OpenRun, RunMoves, RunRow
    <3> QED BY <3>1, <3>2
  <2> QED BY <1>2, <2>1, <2>2 DEF OpenMoves, Busy
<1>4. ASSUME NEW r \in Run, SendRun(r) PROVE OpenMoves
  <2>1. UNCHANGED run /\ opener[r] = "send" /\ opener'[r] \in {"none", "refused"}
        /\ \A t \in Run : t # r => opener'[t] = opener[t]
    BY <1>1, <1>4 DEF SendRun, dbVars
  <2>2. \/ UNCHANGED queue
        \/ /\ opener'[r] = "none"
           /\ \A t \in Run : queue'[t].state = (IF t = r THEN "created" ELSE queue[t].state)
    BY <1>1, <1>4 DEF SendRun, Message
  <2> QED BY <1>2, <2>1, <2>2 DEF OpenMoves, RunMoves, Busy
<1>5. ASSUME NEW r \in Run, CancelRefused(r) PROVE OpenMoves
  <2>1. UNCHANGED queue /\ opener[r] = "refused" /\ CloseRun(r, "cancelled", "opener")
        /\ \A t \in Run : opener'[t] = (IF t = r THEN "none" ELSE opener[t])
    BY <1>1, <1>5 DEF CancelRefused, qVars
  <2>2. \A t \in Run : /\ run'[t].brief = run[t].brief
                       /\ run'[t].status = (IF t = r THEN "cancelled" ELSE run[t].status)
    BY <2>1, CloseRunFrame DEF TypeInv, RunClosed
  <2> QED BY <1>2, <2>1, <2>2 DEF OpenMoves, RunMoves, Busy
<1> QED BY <1>3, <1>4, <1>5 DEF EnqueueStep

\* A request opens a run that was never used; the user stops a running one.
LEMMA RequestOpens ==
  ASSUME TypeInv, OpenInv, RequestStep PROVE OpenMoves
<1>1. /\ run \in [Run -> RunRow] /\ queue \in [Run -> Message] /\ brief \in [Brief -> BriefRow]
      /\ opener \in [Run -> {"none", "insert", "send", "refused"}]
  BY DEF TypeInv, TypeOK
<1>2. UNCHANGED <<held, pc>>
  BY DEF RequestStep, CreateBrief, Check, UpdateBrief, Regenerate, PublishPost, PublishRow,
         DeleteBrief, CancelRun, CancelMessage, qVars, xVars
<1>3. ASSUME NEW r \in Run, NEW b \in Brief, Promise(r, b), brief'[b].status # "none"
      PROVE  \A t \in Run : RunMoves(t)
  <2>1. /\ run[r].brief = NoBrief /\ run'[r].brief = b /\ b # NoBrief
        /\ run'[r].status = run[r].status /\ opener'[r] = "insert"
        /\ \A t \in Run : t # r => run'[t] = run[t] /\ opener'[t] = opener[t]
    BY <1>1, <1>3, BriefsAreNot DEF Promise, NoRun, RunRow
  <2> QED BY <1>3, <2>1 DEF RunMoves
<1>4. ASSUME NEW b \in Brief, NEW r \in Run, NEW mode \in Mode, CreateBrief(b, r, mode)
      PROVE  OpenMoves
  <2>1. \A c \in Brief : brief'[c] = brief[c] \/ brief'[c].status = "queued"
    BY <1>1, <1>4 DEF CreateBrief
  <2>2. /\ UNCHANGED <<queue, checked>> /\ Promise(r, b)
        /\ brief'[b].status # "none"
    BY <1>1, <1>4 DEF CreateBrief, qVars
  <2> QED BY <1>2, <1>3, <2>1, <2>2 DEF OpenMoves, Busy
<1>5. ASSUME NEW q \in Request, Regenerate(q) PROVE OpenMoves
  <2>1. SetBrief(q.brief, [brief[q.brief] EXCEPT !.status = "queued"])
    BY <1>5 DEF Regenerate
  <2>2. \A c \in Brief : brief'[c] = brief[c] \/ brief'[c].status = "queued"
    BY <1>1, <2>1, SetBriefFrame DEF TypeInv, BriefRow
  <2>3. /\ UNCHANGED queue /\ Promise(q.run, q.brief) /\ q.run \in Run /\ q.brief \in Brief
        /\ checked' \subseteq checked
    BY <1>5, RequestParts DEF Regenerate, Passed, qVars
  <2>4. q \in checked \/ Allowed(q)
    BY <1>5 DEF Regenerate, Passed
  <2>5. brief[q.brief].status # "none"
    BY <2>4 DEF OpenInv, AskedExists, Allowed, Exists, Request
  <2>6. brief'[q.brief].status # "none"
    BY <2>2, <2>3, <2>5
  <2> QED BY <1>2, <1>3, <2>2, <2>3, <2>6 DEF OpenMoves, Busy
<1>6. ASSUME NEW q \in Request, Check(q) \/ PublishPost(q) PROVE OpenMoves
  <2>1. UNCHANGED <<brief, run, queue, opener>>
    BY <1>6 DEF Check, PublishPost, dbVars, qVars
  <2>2. checked' \subseteq checked \/ (checked' = checked \cup {q} /\ Allowed(q))
    BY <1>6 DEF Check, PublishPost, Passed
  <2>3. Allowed(q) => brief[q.brief].status # "none"
    BY DEF Allowed, Exists, Request
  <2> QED BY <1>2, <2>1, <2>2, <2>3 DEF OpenMoves, RunMoves, Busy
<1>7. ASSUME NEW q \in Request, NEW row \in BriefRow, SetBrief(q.brief, row),
             row.status # "none", UNCHANGED <<run, queue, opener>>, checked' \subseteq checked
      PROVE  OpenMoves
  BY <1>2, <1>7, SetBriefFrame DEF OpenMoves, RunMoves, Busy, TypeInv
<1>8. ASSUME NEW q \in Request, NEW mode \in Mode, UpdateBrief(q, mode) PROVE OpenMoves
  <2> DEFINE row == [brief[q.brief] EXCEPT !.mode = mode]
  <2>1. CASE Exists(q.brief)
    <3>1. row \in BriefRow /\ row.status # "none"
      BY <1>1, <2>1, RequestParts DEF Exists, BriefRow
    <3> QED BY <1>7, <1>8, <3>1 DEF UpdateBrief, Passed, qVars
  <2>2. CASE ~Exists(q.brief)
    <3>1. UNCHANGED <<brief, run, queue, opener>> /\ checked' \subseteq checked
      BY <1>8, <2>2 DEF UpdateBrief, SetBrief, Passed, qVars
    <3> QED BY <1>2, <3>1 DEF OpenMoves, RunMoves, Busy
  <2> QED BY <2>1, <2>2
<1>9. ASSUME NEW q \in Request, PublishRow(q) PROVE OpenMoves
  <2> DEFINE row == [brief[q.brief] EXCEPT !.status = "published"]
  <2>1. row \in BriefRow /\ row.status # "none"
    BY <1>1, RequestParts DEF BriefRow, BriefStatus
  <2> QED BY <1>7, <1>9, <2>1 DEF PublishRow, qVars
<1>10. ASSUME NEW q \in Request, DeleteBrief(q) PROVE OpenMoves
  <2> DEFINE row == [Unborn EXCEPT !.status = "deleted"]
  <2>1. row \in BriefRow /\ row.status # "none"
    BY DEF Unborn, BriefRow, BriefStatus, Mode
  <2> QED BY <1>7, <1>10, <2>1 DEF DeleteBrief, Passed, qVars
<1>11. ASSUME NEW r \in Run, CancelRun(r) PROVE OpenMoves
  <2>1. \A t \in Run : /\ run'[t].brief = run[t].brief
                       /\ run'[t].status = (IF t = r THEN "cancelled" ELSE run[t].status)
    BY <1>11, CloseRunFrame DEF CancelRun, TypeInv, RunClosed
  <2>2. run[r].status = "running" /\ UNCHANGED <<brief, queue, opener, checked>>
    BY <1>11 DEF CancelRun, qVars
  <2> QED BY <1>2, <2>1, <2>2 DEF OpenMoves, RunMoves, Busy
<1>12. ASSUME NEW r \in Run, CancelMessage(r) PROVE OpenMoves
  <2>1. \A t \in Run : queue'[t].state = "free" <=> queue[t].state = "free"
    BY <1>1, <1>12 DEF CancelMessage, Waiting, Message
  <2>2. UNCHANGED <<run, brief, opener, checked>>
    BY <1>12 DEF CancelMessage, dbVars
  <2> QED BY <1>2, <2>1, <2>2 DEF OpenMoves, RunMoves, Busy
<1> QED
  BY <1>4, <1>5, <1>6, <1>8, <1>9, <1>10, <1>11, <1>12 DEF RequestStep

\* Every step does.
LEMMA NextOpens == ASSUME TypeInv, OpenInv, Next PROVE OpenMoves
  BY HandlerOpens, QueueOpens, EnqueueOpens, RequestOpens DEF Next, WorkerStep, FaultStep

LEMMA InitOpen == Init => OpenInv
  BY DEF Init, OpenInv, UnusedRun, UnsentRun, SentIsBusy, HeldIsSent, AskedExists,
         RunHasBrief, NoRun, Busy

LEMMA StepOpen == TypeInv /\ OpenInv /\ [Next]_vars => OpenInv'
<1> SUFFICES ASSUME TypeInv, OpenInv, [Next]_vars PROVE OpenInv'
  OBVIOUS
<1>1. CASE Next
  BY <1>1, NextOpens, NextType, MovesOpen
<1>2. CASE UNCHANGED vars
  BY <1>2 DEF vars, OpenInv, UnusedRun, UnsentRun, SentIsBusy, HeldIsSent, AskedExists,
              RunHasBrief, Busy, RunX
<1> QED BY <1>1, <1>2

LEMMA AlwaysOpen == Spec => [](TypeInv /\ OpenInv)
  BY InitType, NextType, InitOpen, StepOpen, PTL DEF Spec

\* A closed run reports for ever what it reported when it was closed: the
\* refused request, the stop and the handler that ends late find it closed.
THEOREM ClosedStaysClosedHolds == Spec => ClosedStaysClosed
<1>1. ASSUME TypeInv, OpenInv, [Next]_vars
      PROVE  [\A r \in Run : run[r].status \in RunClosed =>
                run'[r].status = run[r].status]_run
  BY <1>1, NextOpens, MovesClosed DEF vars
<1> QED BY <1>1, AlwaysOpen, PTL DEF Spec, ClosedStaysClosed

-----------------------------------------------------------------------------
(* One post for a brief.  The user may be slow, stop, edit, publish and    *)
(* delete, the queue may take a message twice, a delivery may find the     *)
(* workspace suspended.  But the worker does not die, no statement fails,  *)
(* WordPress says what it did, nobody asks twice at once for a generation, *)
(* and a handler outlives its delivery only if there is no other.          *)
Single == /\ Env \cap {"crash", "db", "lost", "twice"} = {}
          /\ "overrun" \in Env => Tries = 1

\* A message is active while it is held, and its last delivery alone runs.
ActiveIsHeld == \A r \in Run : queue[r].state = "active" <=> r \in held
ActiveIsCounted == \A r \in Run : queue[r].state = "active" => queue[r].tries >= 1
LastRuns == \A x \in Exec : Busy(x) => /\ queue[RunX(x)].state \notin Waiting
                                       /\ queue[RunX(x)].tries = x[2]
FailsWithItem == \A x \in Exec : pc[x] = "failBrief" => mem[x].item = "failed"

LastInv == ActiveIsHeld /\ ActiveIsCounted /\ LastRuns /\ FailsWithItem

\* A run claims its brief from the request on until its last word about it.
Working(x) == \/ pc[x] \in {"run", "brief", "expect", "plan", "mark", "pipe", "create",
                            "failBrief", "update"}
              \/ pc[x] = "item" /\ mem[x].item # "failed"
Claims(r) == \/ opener[r] \in {"insert", "send"}
             \/ queue[r].state \in Waiting
             \/ \E x \in Exec : RunX(x) = r /\ Working(x)
Claimed(b) == \E r \in Run : run[r].brief = b /\ Claims(r)
Delivering(x) == pc[x] \in {"item", "update"} /\ mem[x].item = "created"

OneClaim ==
  \A r, s \in Run : Claims(r) /\ Claims(s) /\ run[r].brief = run[s].brief => r = s
ClaimedIsOpen ==
  \A r \in Run : Claims(r) => brief[run[r].brief].status \in Stuck \cup {"deleted"}
ClaimedPosts ==
  \A r \in Run : Claims(r) =>
    \A x \in PostsOf(run[r].brief) : RunX(x) = r /\ Delivering(x)
FailedHasNone == \A b \in Brief : brief[b].status = "failed" => PostsOf(b) = {}
OnePost == \A b \in Brief : \A x, y \in PostsOf(b) : x = y

ClaimInv == OneClaim /\ ClaimedIsOpen /\ ClaimedPosts /\ FailedHasNone /\ OnePost

\* A delivered row names a post, public if the row says so, and what the
\* user asked for the row is still true of it, or the brief is gone.
Shows(b, x) == \/ brief[b].status = "deleted"
               \/ brief[b].status \in Delivered /\ brief[b].post = x
PostSent == \A x \in Exec : site[x].status # "none" => queue[RunX(x)].state # "free"
RowsHavePosts ==
  \A b \in Brief : brief[b].status \in Delivered =>
    /\ brief[b].post \in Exec /\ site[brief[b].post].status # "none"
    /\ brief[b].status = "published" => site[brief[b].post].status = "publish"
DeliveringHasPost ==
  \A x \in Exec : Delivering(x) =>
    /\ site[x].status # "none"
    /\ PublishMode(x) = "publish" => site[x].status = "publish"
GoingIsPublic ==
  \A q \in going : /\ q.post \in Exec /\ site[q.post].status = "publish"
                   /\ Shows(q.brief, q.post)
AskedPublish ==
  \A q \in checked : q.op = "publish" =>
    /\ q.post \in Exec /\ site[q.post].status # "none"
    /\ Shows(q.brief, q.post)
AskedAgain ==
  \A q \in checked : q.op = "regenerate" =>
    /\ brief[q.brief].status \in {"failed", "deleted"}
    /\ PostsOf(q.brief) = {} /\ ~Claimed(q.brief)
    /\ \A p \in checked : p.op = q.op /\ p.brief = q.brief => p = q
AskedSlowly == checked # {} => "slow" \in Env

PostInv == /\ PostSent /\ RowsHavePosts /\ DeliveringHasPost
           /\ GoingIsPublic /\ AskedPublish /\ AskedAgain /\ AskedSlowly

\* Whoever works for a run works for its last delivery, alone, and the request
\* that opened the run is done.
LEMMA SoleHandler ==
  ASSUME TypeInv, OpenInv, LastInv, NEW x \in Exec, Busy(x)
  PROVE  /\ RunX(x) \in Run /\ opener[RunX(x)] = "none"
         /\ queue[RunX(x)].state \notin Waiting
         /\ \A y \in Exec : Busy(y) /\ RunX(y) = RunX(x) => y = x
<1>1. RunX(x) \in Run /\ queue[RunX(x)].state # "free"
  BY ExecParts DEF OpenInv, SentIsBusy
<1>2. queue[RunX(x)].state \notin Waiting
  BY DEF LastInv, LastRuns
<1>3. ASSUME NEW y \in Exec, Busy(y), RunX(y) = RunX(x) PROVE y = x
  <2>1. y[2] = x[2]
    BY <1>3 DEF LastInv, LastRuns
  <2> QED BY <1>3, <2>1 DEF Exec, RunX
<1> QED BY <1>1, <1>2, <1>3 DEF OpenInv, UnsentRun

LEMMA HandlerLast ==
  ASSUME Single, TypeInv, TypeInv', OpenInv, LastInv, NEW x \in Exec, HandlerStep(x)
  PROVE  LastInv'
<1>1. /\ Busy(x) /\ RunX(x) \in Run
      /\ \A y \in Exec : y # x => pc'[y] = pc[y] /\ mem'[y] = mem[y]
      /\ UNCHANGED qVars \/ (Owned(x) /\ GiveBack(RunX(x)) /\ pc'[x] = "off")
  BY HandlerQueue, ExecParts
<1>2. \A y \in Exec : y # x => Busy(y)' = Busy(y)
  BY <1>1 DEF Busy
<1>3. pc'[x] = "failBrief" => mem'[x].item = "failed"
  <2>1. CASE pc[x] = "failBrief"
    BY <2>1 DEF HandlerStep, CheckRun, LoadBrief, ExpectOne, CheckPlan, MarkGenerating, RunPipeline,
         CreatePost, FailBrief, Record, UpdateRow, Count, Close, Goto, TypeInv, TypeOK
  <2>2. CASE pc[x] # "failBrief"
    <3>1. pc'[x] # "failBrief" \/ Fail(x, "try") \/ Fail(x, "catch")
      BY <2>2 DEF HandlerStep, CheckRun, LoadBrief, ExpectOne, CheckPlan, MarkGenerating,
         RunPipeline, CreatePost, FailBrief, Record, UpdateRow, Count, Close, Goto, Throw,
         Finish, TypeInv, TypeOK
    <3>2. mem \in [Exec -> Locals] /\ mem[x] \in Locals
      BY DEF TypeInv, TypeOK
    <3> QED
      BY <3>1, <3>2 DEF Fail, Locals
  <2> QED BY <2>1, <2>2
<1>4. FailsWithItem'
  BY <1>1, <1>3 DEF FailsWithItem, LastInv
<1>5. CASE UNCHANGED qVars
  BY <1>1, <1>2, <1>4, <1>5, ExecParts
  DEF LastInv, ActiveIsHeld, ActiveIsCounted, LastRuns, qVars, RunX
<1>6. CASE Owned(x) /\ GiveBack(RunX(x)) /\ pc'[x] = "off"
  <2>1. /\ \A t \in Run : t # RunX(x) => queue'[t] = queue[t]
        /\ queue'[RunX(x)].state \in {"retry", "failed"}
        /\ held' = held \ {RunX(x)}
    BY <1>1, <1>6, GiveBackFrame DEF GiveBack, TypeInv
  <2>2. ~Busy(x)'
    BY <1>6 DEF Busy
  <2>3. \A y \in Exec : Busy(y)' => Busy(y) /\ RunX(y) # RunX(x)
    BY <1>1, <1>2, <2>2, SoleHandler
  <2> QED BY <1>4, <2>1, <2>3, ExecParts
          DEF LastInv, ActiveIsHeld, ActiveIsCounted, LastRuns, RunX
<1> QED BY <1>1, <1>5, <1>6

LEMMA QueueLast ==
  ASSUME Single, TypeInv, OpenInv, LastInv, QueueServes \/ \E r \in Run : TimeOut(r)
  PROVE  LastInv'
<1>1. /\ queue \in [Run -> Message] /\ held \subseteq Run /\ pc \in [Exec -> Step]
      /\ \A t \in Run : queue[t].tries \in 0..Tries
  BY DEF TypeInv, TypeOK, Message
<1>2. UNCHANGED mem
  BY DEF QueueServes, Fetch, Settle, Expire, TimeOut, xVars
<1>3. ASSUME NEW r \in Run, Fetch(r) PROVE LastInv'
  <2>1. /\ \A t \in Run : t # r => queue'[t] = queue[t]
        /\ queue'[r].state = "active" /\ queue'[r].tries = queue[r].tries + 1
        /\ queue[r].state \in Waiting /\ held = {} /\ held' = {r}
        /\ pc' = [pc EXCEPT ![<<r, queue[r].tries + 1>>] = "run"]
    BY <1>1, <1>3 DEF Fetch
  <2>2. ASSUME NEW y \in Exec, Busy(y)', y # <<r, queue[r].tries + 1>>
        PROVE  Busy(y) /\ RunX(y) # r
    <3>1. pc'[y] = pc[y]
      BY <1>1, <2>1, <2>2
    <3>2. Busy(y)
      BY <2>2, <3>1 DEF Busy
    <3> QED BY <2>1, <3>2 DEF LastInv, LastRuns
  <2>3. LastRuns'
    BY <2>1, <2>2, ExecParts DEF LastInv, LastRuns, RunX, Waiting
  <2>4. ActiveIsHeld' /\ ActiveIsCounted' /\ FailsWithItem'
    BY <1>1, <1>2, <2>1 DEF LastInv, ActiveIsHeld, ActiveIsCounted, FailsWithItem
  <2> QED BY <2>3, <2>4 DEF LastInv
<1>4. ASSUME NEW r \in Run, Settle(r) PROVE LastInv'
  <2>1. /\ \A t \in Run : /\ queue'[t].state = (IF t = r THEN "completed" ELSE queue[t].state)
                          /\ queue'[t].tries = queue[t].tries
        /\ held' = held \ {r} /\ UNCHANGED pc
    BY <1>1, <1>4 DEF Settle, Message, xVars
  <2> QED BY <1>1, <1>2, <2>1, ExecParts
          DEF LastInv, ActiveIsHeld, ActiveIsCounted, LastRuns, FailsWithItem, Busy, RunX, Waiting
<1>5. ASSUME NEW r \in Run, TimeOut(r) PROVE LastInv'
  <2>1. queue[r].state = "active" /\ queue[r].tries >= Tries
    BY <1>1, <1>5 DEF TimeOut, Single, LastInv, ActiveIsHeld, ActiveIsCounted
  <2>2. /\ \A t \in Run : t # r => queue'[t] = queue[t]
        /\ queue'[r].state = "failed" /\ queue'[r].tries = queue[r].tries
        /\ held' = held \ {r} /\ UNCHANGED pc
    BY <1>5, <2>1, GiveBackFrame DEF TimeOut, GiveBack, TypeInv, xVars
  <2> QED BY <1>1, <1>2, <2>2, ExecParts
          DEF LastInv, ActiveIsHeld, ActiveIsCounted, LastRuns, FailsWithItem, Busy, RunX, Waiting
<1>6. ASSUME NEW r \in Run, Expire(r) PROVE LastInv'
  BY <1>6 DEF Expire, LastInv, ActiveIsHeld
<1> QED BY <1>3, <1>4, <1>5, <1>6 DEF QueueServes

LEMMA OtherLast ==
  ASSUME TypeInv, OpenInv, LastInv, EnqueueStep \/ RequestStep PROVE LastInv'
<1>1. queue \in [Run -> Message]
  BY DEF TypeInv, TypeOK
<1>2. UNCHANGED <<held, pc, mem>>
  BY DEF EnqueueStep, OpenRun, SendRun, CancelRefused, RequestStep, CreateBrief, Check,
         UpdateBrief, Regenerate, PublishPost, PublishRow, DeleteBrief, CancelRun,
         CancelMessage, qVars, xVars
<1>3. \A r \in Run : \/ queue'[r] = queue[r]
                     \/ queue[r].state = "free" /\ queue'[r].state = "created"
                     \/ /\ queue[r].state \in Waiting /\ queue'[r].state = "cancelled"
                        /\ queue'[r].tries = queue[r].tries
  <2>1. ASSUME NEW r \in Run, SendRun(r)
        PROVE  \A t \in Run : \/ queue'[t] = queue[t]
                              \/ queue[t].state = "free" /\ queue'[t].state = "created"
    <3>1. queue[r].state = "free"
      BY <2>1 DEF SendRun, OpenInv, UnsentRun
    <3> QED BY <1>1, <2>1, <3>1 DEF SendRun, Message
  <2>2. ASSUME NEW r \in Run, CancelMessage(r)
        PROVE  \A t \in Run : \/ queue'[t] = queue[t]
                              \/ /\ queue[t].state \in Waiting /\ queue'[t].state = "cancelled"
                                 /\ queue'[t].tries = queue[t].tries
    BY <1>1, <2>2 DEF CancelMessage, Message
  <2>3. CASE ~\E r \in Run : SendRun(r) \/ CancelMessage(r)
    BY <2>3 DEF EnqueueStep, OpenRun, CancelRefused, RequestStep, CreateBrief, Check,
         UpdateBrief, Regenerate, PublishPost, PublishRow, DeleteBrief, CancelRun, qVars
  <2> QED BY <2>1, <2>2, <2>3
<1>4. \A x \in Exec : Busy(x) => queue[RunX(x)].state # "free"
  BY DEF OpenInv, SentIsBusy
<1> QED
  BY <1>2, <1>3, <1>4, ExecParts
  DEF LastInv, ActiveIsHeld, ActiveIsCounted, LastRuns, FailsWithItem, Busy, RunX, Waiting

LEMMA StepLast == ASSUME Single, TypeInv, OpenInv, LastInv, Next PROVE LastInv'
<1>1. TypeInv'
  BY NextType
<1>2. ~Crash /\ ~\E x \in Exec : StatementFails(x)
  BY DEF Single, Crash, StatementFails
<1> QED
  BY <1>1, <1>2, HandlerLast, QueueLast, OtherLast DEF Next, WorkerStep, FaultStep

\* What a step that neither asks for a generation nor creates a post may do.
RowShows(b) ==
  /\ brief[b].post \in Exec /\ site[brief[b].post].status # "none"
  /\ brief[b].status = "published" => site[brief[b].post].status = "publish"
PostsKept ==
  /\ \A r \in Run : run'[r].brief = run[r].brief
  /\ \A x \in Exec : /\ site'[x].status = "none" <=> site[x].status = "none"
                     /\ site[x].status = "publish" => site'[x].status = "publish"
BriefMoves(b) ==
  \/ brief'[b].status = brief[b].status /\ brief'[b].post = brief[b].post
  \/ brief'[b].status = "deleted"
  \/ /\ brief[b].status \in Delivered /\ brief'[b].status = "published"
     /\ brief'[b].post = brief[b].post /\ RowShows(b)'
  \/ Claimed(b) /\ Exists(b) /\ brief'[b].status = "generating"
  \/ /\ Claimed(b) /\ Exists(b) /\ ~Claimed(b)'
     /\ \/ brief'[b].status = "failed" /\ PostsOf(b) = {}
        \/ brief'[b].status \in Delivered /\ RowShows(b)'
QuietMoves ==
  /\ PostsKept
  /\ \A r \in Run : Claims(r)' => Claims(r)
  /\ \A x \in Exec : Delivering(x)' => Delivering(x) /\ mem'[x] = mem[x]
  /\ \A x \in Exec : Delivering(x) /\ Claims(RunX(x))' => Delivering(x)'
  /\ \A b \in Brief : BriefMoves(b)
  /\ checked' \subseteq checked
  /\ \A q \in going' :
       q \in going \/ (/\ q.post \in Exec /\ site'[q.post].status = "publish"
                       /\ Shows(q.brief, q.post)')

\* A run that claims a brief has one.
LEMMA ClaimsBrief ==
  ASSUME TypeInv, OpenInv, NEW r \in Run, Claims(r) PROVE run[r].brief \in Brief
<1>1. run[r].brief \in Brief \cup {NoBrief}
  BY DEF TypeInv, TypeOK, RunRow
<1>2. queue[r].state # "free" \/ opener[r] # "none"
  BY DEF Claims, Waiting, OpenInv, SentIsBusy, Working, Busy
<1> QED BY <1>1, <1>2 DEF OpenInv, UnusedRun

\* The posts of a brief stay its posts.
LEMMA KeptPosts == ASSUME PostsKept, NEW b PROVE PostsOf(b)' = PostsOf(b)
  BY ExecParts DEF PostsKept, PostsOf, BriefX, RunX

\* What is said of a row stays true when nobody claims its brief.
LEMMA ShowsStays ==
  ASSUME TypeInv, OpenInv, ClaimedIsOpen, NEW b \in Brief, BriefMoves(b), NEW x, Shows(b, x)
  PROVE  Shows(b, x)'
<1>1. Claimed(b) => brief[b].status \in Stuck \cup {"deleted"}
  BY DEF Claimed, ClaimedIsOpen
<1> QED BY <1>1 DEF BriefMoves, Shows, Stuck, Delivered, Exists

\* A quiet step keeps the invariants.
LEMMA QuietClaims ==
  ASSUME TypeInv, OpenInv, ClaimInv, QuietMoves PROVE ClaimInv'
<1>1. \A b : PostsOf(b)' = PostsOf(b)
  BY KeptPosts DEF QuietMoves
<1>2. \A r \in Run : run'[r].brief = run[r].brief /\ (Claims(r)' => Claims(r))
  BY DEF QuietMoves, PostsKept
<1>3. OneClaim'
  BY <1>2 DEF ClaimInv, OneClaim
<1>4. ASSUME NEW r \in Run, Claims(r)'
      PROVE  brief'[run'[r].brief].status \in Stuck \cup {"deleted"}
  <2>1. PICK b \in Brief : b = run[r].brief
    BY <1>2, <1>4, ClaimsBrief
  <2>2. brief[b].status \in Stuck \cup {"deleted"} /\ Claimed(b)'
    BY <1>2, <1>4, <2>1 DEF ClaimInv, ClaimedIsOpen, Claimed
  <2>3. BriefMoves(b)
    BY DEF QuietMoves
  <2>4. brief'[b].status \in Stuck \cup {"deleted"}
    BY <2>2, <2>3 DEF BriefMoves, Stuck, Delivered
  <2> QED BY <1>2, <2>1, <2>4
<1>5. ClaimedIsOpen'
  BY <1>4 DEF ClaimedIsOpen
<1>6. ASSUME NEW r \in Run, Claims(r)', NEW x \in PostsOf(run[r].brief)
      PROVE  RunX(x) = r /\ Delivering(x)'
  <2>1. x \in Exec /\ RunX(x) = r /\ Delivering(x)
    BY <1>2, <1>6 DEF ClaimInv, ClaimedPosts, PostsOf
  <2> QED BY <1>6, <2>1 DEF QuietMoves
<1>7. ClaimedPosts'
  BY <1>1, <1>2, <1>6 DEF ClaimedPosts, RunX
<1>8. FailedHasNone'
  BY <1>1 DEF ClaimInv, FailedHasNone, QuietMoves, BriefMoves, Delivered
<1>9. OnePost'
  BY <1>1 DEF ClaimInv, OnePost
<1> QED BY <1>3, <1>5, <1>7, <1>8, <1>9 DEF ClaimInv

LEMMA QuietPosts ==
  ASSUME TypeInv, TypeInv', OpenInv, OpenMoves, ClaimInv, PostInv, QuietMoves PROVE PostInv'
<1>1. \A b : PostsOf(b)' = PostsOf(b)
  BY KeptPosts DEF QuietMoves
<1>2. /\ \A x \in Exec : RunX(x) \in Run
      /\ \A q \in checked \cup going \cup going' : q \in Request /\ q.brief \in Brief
  BY ExecParts, RequestParts DEF TypeInv, TypeOK
<1>3. \A b \in Brief : \A x : Shows(b, x) => Shows(b, x)'
  BY ShowsStays DEF QuietMoves, ClaimInv
<1>4. PostSent'
  BY <1>2 DEF PostInv, PostSent, QuietMoves, PostsKept, OpenMoves, RunX
<1>5. RowsHavePosts'
  BY DEF PostInv, RowsHavePosts, QuietMoves, PostsKept, BriefMoves, RowShows, Delivered
<1>6. DeliveringHasPost'
  BY DEF PostInv, DeliveringHasPost, QuietMoves, PostsKept, PublishMode
<1>7. GoingIsPublic'
  BY <1>2, <1>3 DEF PostInv, GoingIsPublic, QuietMoves, PostsKept
<1>8. AskedPublish'
  BY <1>2, <1>3 DEF PostInv, AskedPublish, QuietMoves, PostsKept
<1>9. ASSUME NEW q \in checked', q.op = "regenerate"
      PROVE  /\ brief'[q.brief].status \in {"failed", "deleted"}
             /\ ~Claimed(q.brief)'
  <2>1. /\ q \in checked /\ brief[q.brief].status \in {"failed", "deleted"}
        /\ ~Claimed(q.brief)
    BY <1>9 DEF QuietMoves, PostInv, AskedAgain
  <2>2. ~Claimed(q.brief)'
    BY <2>1 DEF Claimed, QuietMoves, PostsKept
  <2> QED BY <1>2, <2>1, <2>2 DEF QuietMoves, BriefMoves, Delivered
<1>10. AskedAgain' /\ AskedSlowly'
  BY <1>1, <1>9 DEF PostInv, AskedAgain, AskedSlowly, QuietMoves
<1> QED BY <1>4, <1>5, <1>6, <1>7, <1>8, <1>10 DEF PostInv

\* Where a handler goes that does not create the post: it stays at work or
\* gives up its claim with its last word.
LEMMA HandlerWorks ==
  ASSUME TypeInv, LastInv, NEW x \in Exec, HandlerStep(x),
         ~\E ok \in BOOLEAN : CreatePost(x, ok)
  PROVE  /\ Working(x)' => Working(x)
         /\ pc'[x] = "off" => Working(x)
         /\ Delivering(x)' => Delivering(x) /\ mem'[x] = mem[x]
         /\ Delivering(x) => Delivering(x)' \/ (~Working(x)' /\ pc'[x] # "off")
<1>1. pc \in [Exec -> Step] /\ mem \in [Exec -> Locals] /\ mem[x] \in Locals
  BY DEF TypeInv, TypeOK
<1> USE DEF Working, Delivering
<1>2. CASE CheckRun(x) \/ LoadBrief(x) \/ ExpectOne(x)
  BY <1>1, <1>2 DEF CheckRun, LoadBrief, ExpectOne, Goto, Finish, Throw
<1>3. CASE CheckPlan(x) \/ MarkGenerating(x)
  BY <1>1, <1>3 DEF CheckPlan, MarkGenerating, Goto, Fail
<1>4. ASSUME NEW o \in Outcome, RunPipeline(x, o) PROVE
         /\ Working(x)' => Working(x)
         /\ pc'[x] # "off"
         /\ ~Delivering(x) /\ ~Delivering(x)'
  <2>1. pc[x] = "pipe"
    BY <1>4 DEF RunPipeline
  <2>2. CASE mem' = [mem EXCEPT ![x].item = o] /\ Goto(x, "item") /\ o # "created"
    BY <1>1, <2>1, <2>2 DEF Goto, Locals
  <2>3. CASE pc' \in {[pc EXCEPT ![x] = "failBrief"], [pc EXCEPT ![x] = "create"]}
    BY <1>1, <2>1, <2>3
  <2> QED BY <1>4, <2>2, <2>3 DEF RunPipeline, Goto, Fail
<1>5. CASE FailBrief(x)
  BY <1>1, <1>5 DEF FailBrief, Goto, LastInv, FailsWithItem
<1>6. CASE Record(x) \/ UpdateRow(x) \/ Count(x) \/ Close(x)
  BY <1>1, <1>6 DEF Record, UpdateRow, Count, Close, Goto, Finish
<1> QED BY <1>2, <1>3, <1>4, <1>5, <1>6 DEF HandlerStep

\* What that means for the claims.
LEMMA HandlerClaims ==
  ASSUME TypeInv, OpenInv, LastInv, NEW x \in Exec, HandlerStep(x),
         ~\E ok \in BOOLEAN : CreatePost(x, ok)
  PROVE  /\ \A r \in Run : Claims(r)' => Claims(r)
         /\ \A y \in Exec : Delivering(y)' => Delivering(y) /\ mem'[y] = mem[y]
         /\ \A y \in Exec : Delivering(y) /\ Claims(RunX(y))' => Delivering(y)'
         /\ ~Working(x)' /\ pc'[x] # "off" => ~Claims(RunX(x))'
<1>1. /\ Busy(x)
      /\ \A y \in Exec : y # x => pc'[y] = pc[y] /\ mem'[y] = mem[y]
      /\ UNCHANGED qVars \/ (GiveBack(RunX(x)) /\ pc'[x] = "off")
  BY HandlerQueue
<1>2. /\ RunX(x) \in Run /\ opener[RunX(x)] = "none" /\ queue[RunX(x)].state \notin Waiting
      /\ \A y \in Exec : Busy(y) /\ RunX(y) = RunX(x) => y = x
  BY <1>1, SoleHandler
<1>3. UNCHANGED opener
  BY DEF HandlerStep, CheckRun, LoadBrief, ExpectOne, CheckPlan, MarkGenerating, RunPipeline,
         CreatePost, FailBrief, Record, UpdateRow, Count, Close, panelVars
<1>4. \A r \in Run : r # RunX(x) => queue'[r] = queue[r]
  BY <1>1, <1>2, GiveBackFrame DEF TypeInv, qVars
<1>5. \A y \in Exec : Working(y) => Busy(y)
  BY DEF Working, Busy
<1>6. \A y \in Exec : y # x => /\ Working(y)' = Working(y)
                               /\ Delivering(y)' = Delivering(y)
  BY <1>1 DEF Working, Delivering
<1>7. ~Working(x)' /\ pc'[x] # "off" => ~Claims(RunX(x))'
  <2> SUFFICES ASSUME ~Working(x)', pc'[x] # "off" PROVE ~Claims(RunX(x))'
    OBVIOUS
  <2>1. UNCHANGED queue
    BY <1>1 DEF qVars
  <2>2. ~\E y \in Exec : RunX(y) = RunX(x) /\ Working(y)'
    BY <1>2, <1>5, <1>6
  <2>3. \A y : RunX(y)' = RunX(y)
    BY DEF RunX
  <2> QED BY <1>2, <1>3, <2>1, <2>2, <2>3 DEF Claims
<1>8. ASSUME NEW r \in Run, Claims(r)' PROVE Claims(r)
  <2>1. CASE r = RunX(x)
    <3>1. Working(x)
      BY <1>7, <1>8, <2>1, HandlerWorks
    <3> QED BY <2>1, <3>1 DEF Claims
  <2>2. CASE r # RunX(x)
    BY <1>3, <1>4, <1>6, <1>8, <2>2 DEF Claims, RunX
  <2> QED BY <2>1, <2>2
<1>9. ASSUME NEW y \in Exec
      PROVE  /\ Delivering(y)' => Delivering(y) /\ mem'[y] = mem[y]
             /\ Delivering(y) /\ Claims(RunX(y))' => Delivering(y)'
  BY <1>1, <1>6, <1>7, HandlerWorks
<1> QED BY <1>7, <1>8, <1>9

\* A handler with no word left leaves its brief unclaimed, and the only post
\* of the brief can be the one it made.
LEMMA LastWord ==
  ASSUME TypeInv, OpenInv, LastInv, ClaimInv, NEW x \in Exec, Working(x),
         HandlerStep(x), ~\E ok \in BOOLEAN : CreatePost(x, ok),
         ~Working(x)', pc'[x] # "off", NEW b \in Brief, BriefX(x) = b
  PROVE  /\ Claimed(b) /\ ~Claimed(b)'
         /\ ~Delivering(x) => PostsOf(b) = {}
<1>1. RunX(x) \in Run /\ Claims(RunX(x)) /\ ~Claims(RunX(x))'
  BY HandlerClaims, ExecParts DEF Claims
<1>2. Claimed(b)
  BY <1>1 DEF Claimed, BriefX
<1>3. ~Claimed(b)'
  BY <1>1, HandlerClaims, HandlerRun DEF Claimed, BriefX, ClaimInv, OneClaim
<1>4. ~Delivering(x) => PostsOf(b) = {}
  <2> SUFFICES ASSUME NEW y \in PostsOf(b) PROVE Delivering(x)
    OBVIOUS
  <2>1. y \in Exec /\ RunX(y) = RunX(x) /\ Delivering(y)
    BY <1>1 DEF ClaimInv, ClaimedPosts, PostsOf, BriefX
  <2>2. Busy(x) /\ Busy(y)
    BY <2>1 DEF Working, Delivering, Busy
  <2> QED BY <2>1, <2>2, SoleHandler
<1> QED BY <1>2, <1>3, <1>4

LEMMA HandlerQuiets ==
  ASSUME TypeInv, OpenInv, LastInv, ClaimInv, PostInv, NEW x \in Exec, HandlerStep(x),
         ~\E ok \in BOOLEAN : CreatePost(x, ok)
  PROVE  QuietMoves
<1>1. UNCHANGED <<site, checked, going>>
  BY DEF HandlerStep, CheckRun, LoadBrief, ExpectOne, CheckPlan, MarkGenerating, RunPipeline,
         FailBrief, Record, UpdateRow, Count, Close, panelVars
<1>2. PostsKept
  BY <1>1, HandlerRun DEF PostsKept
<1>3. brief \in [Brief -> BriefRow] /\ pc \in [Exec -> Step] /\ mem \in [Exec -> Locals]
  BY DEF TypeInv, TypeOK
<1>4. ASSUME NEW b \in Brief PROVE BriefMoves(b)
  <2>1. CASE brief'[b] = brief[b]
    BY <2>1 DEF BriefMoves
  <2>2. CASE brief'[b] # brief[b]
    <3>1. b = BriefX(x) /\ Exists(b)
      BY <2>2, HandlerBrief
    <3>2. CASE MarkGenerating(x)
      <4>1. SetBrief(b, [brief[b] EXCEPT !.status = "generating"]) /\ Working(x)
        BY <3>1, <3>2 DEF MarkGenerating, Working
      <4>2. brief'[b].status = "generating"
        BY <1>3, <2>2, <4>1, SetBriefFrame DEF TypeInv, BriefRow
      <4>3. Claimed(b)
        BY <3>1, <4>1, ExecParts DEF Claimed, Claims, BriefX
      <4> QED BY <3>1, <4>2, <4>3 DEF BriefMoves
    <3>3. CASE FailBrief(x)
      <4>1. /\ SetBrief(b, [brief[b] EXCEPT !.status = "failed"])
            /\ Working(x) /\ ~Delivering(x) /\ ~Working(x)' /\ pc'[x] # "off"
        BY <1>3, <3>1, <3>3 DEF FailBrief, Working, Delivering, Goto, LastInv, FailsWithItem
      <4>2. brief'[b].status = "failed"
        BY <1>3, <2>2, <4>1, SetBriefFrame DEF TypeInv, BriefRow
      <4>3. Claimed(b) /\ ~Claimed(b)' /\ PostsOf(b) = {}
        BY <3>1, <4>1, LastWord
      <4> QED BY <3>1, <4>2, <4>3 DEF BriefMoves
    <3>4. CASE UpdateRow(x)
      <4> DEFINE row == [brief[b] EXCEPT !.status = StatusOf(x),
                           !.post = IF mem[x].item = "created" THEN x ELSE @]
      <4>1. /\ SetBrief(b, row)
            /\ Working(x) /\ ~Working(x)' /\ pc'[x] # "off" /\ pc[x] = "update"
        BY <1>3, <3>1, <3>4 DEF UpdateRow, Working, Goto
      <4>2. Claimed(b) /\ ~Claimed(b)' /\ (~Delivering(x) => PostsOf(b) = {})
        BY <3>1, <4>1, LastWord
      <4>3. /\ row.status = StatusOf(x)
            /\ mem[x].item = "created" => row.post = x
        BY <1>3 DEF BriefRow
      <4>4. brief'[b] = row
        <5> HIDE DEF row
        <5> QED BY <2>2, <4>1, SetBriefFrame DEF TypeInv
      <4> HIDE DEF row
      <4>5. CASE mem[x].item = "created"
        <5>1. Delivering(x)
          BY <4>1, <4>5 DEF Delivering
        <5>2. /\ site[x].status # "none"
              /\ PublishMode(x) = "publish" => site[x].status = "publish"
          BY <5>1 DEF PostInv, DeliveringHasPost
        <5>3. /\ StatusOf(x) \in Delivered
              /\ StatusOf(x) = "published" => PublishMode(x) = "publish"
          BY <4>5 DEF StatusOf, Delivered
        <5>4. RowShows(b)'
          BY <1>1, <4>3, <4>4, <4>5, <5>2, <5>3 DEF RowShows
        <5> QED BY <3>1, <4>2, <4>3, <4>4, <5>3, <5>4 DEF BriefMoves
      <4>6. CASE mem[x].item # "created"
        <5>1. StatusOf(x) = "failed"
          BY <4>6 DEF StatusOf
        <5>2. ~Delivering(x)
          BY <4>6 DEF Delivering
        <5> QED BY <3>1, <4>2, <4>3, <4>4, <5>1, <5>2 DEF BriefMoves
      <4> QED BY <4>5, <4>6
    <3>5. CASE ~MarkGenerating(x) /\ ~FailBrief(x) /\ ~UpdateRow(x)
      BY <2>2, <3>5 DEF HandlerStep, CheckRun, LoadBrief, ExpectOne, CheckPlan, RunPipeline,
         Record, Count, Close, dbVars
    <3> QED BY <3>2, <3>3, <3>4, <3>5
  <2> QED BY <2>1, <2>2
<1> QED BY <1>1, <1>2, <1>4, HandlerClaims DEF QuietMoves

\* The queue hands claims on.
LEMMA QueueQuiets ==
  ASSUME Single, TypeInv, OpenInv, LastInv, QueueServes \/ \E r \in Run : TimeOut(r)
  PROVE  QuietMoves
<1>1. /\ queue \in [Run -> Message] /\ pc \in [Exec -> Step] /\ held \subseteq Run
      /\ \A t \in Run : queue[t].tries \in 0..Tries
  BY DEF TypeInv, TypeOK, Message
<1>2. UNCHANGED <<run, brief, site, mem, checked, going, opener>>
  BY DEF QueueServes, Fetch, Settle, Expire, TimeOut, xVars, dbVars, panelVars
<1>3. PostsKept /\ \A b \in Brief : BriefMoves(b)
  BY <1>2 DEF PostsKept, BriefMoves
<1>4. ASSUME NEW r \in Run, Fetch(r) PROVE QuietMoves
  <2>1. /\ queue[r].state \in Waiting
        /\ \A t \in Run : queue'[t].state \in Waiting => queue[t].state \in Waiting
        /\ pc' = [pc EXCEPT ![<<r, queue[r].tries + 1>>] = "run"]
    BY <1>1, <1>4 DEF Fetch, Waiting
  <2>2. \A y \in Exec : RunX(y) = r => ~Busy(y)
    BY <2>1 DEF LastInv, LastRuns
  <2>3. \A y \in Exec : pc'[y] = pc[y] \/ (RunX(y) = r /\ pc'[y] = "run")
    BY <1>1, <2>1 DEF RunX
  <2>4. \A y \in Exec : Delivering(y)' = Delivering(y)
    BY <1>2, <2>2, <2>3 DEF Delivering, Busy
  <2>5. \A y \in Exec : Working(y)' => Working(y) \/ RunX(y) = r
    BY <1>2, <2>3 DEF Working
  <2>6. \A t \in Run : Claims(t)' => Claims(t)
    BY <1>2, <2>1, <2>5 DEF Claims, RunX
  <2> QED BY <1>2, <1>3, <2>4, <2>6 DEF QuietMoves
<1>5. CASE ~\E r \in Run : Fetch(r)
  <2>1. \A t \in Run : queue'[t].state \in Waiting => queue[t].state \in Waiting
    <3>1. ASSUME NEW r \in Run, Settle(r)
          PROVE  \A t \in Run : queue'[t].state \in Waiting => queue[t].state \in Waiting
      BY <1>1, <3>1 DEF Settle, Waiting, Message
    <3>2. ASSUME NEW r \in Run, TimeOut(r)
          PROVE  \A t \in Run : queue'[t].state \in Waiting => queue[t].state \in Waiting
      <4>1. queue[r].tries >= Tries
        BY <1>1, <3>2 DEF TimeOut, Single, LastInv, ActiveIsHeld, ActiveIsCounted
      <4> QED BY <3>2, <4>1, GiveBackFrame DEF TimeOut, TypeInv, Waiting
    <3>3. ASSUME NEW r \in Run, Expire(r) PROVE FALSE
      BY <3>3 DEF Expire, LastInv, ActiveIsHeld
    <3> QED BY <1>5, <3>1, <3>2, <3>3 DEF QueueServes
  <2>2. UNCHANGED pc
    BY <1>5 DEF QueueServes, Settle, Expire, TimeOut, xVars
  <2> QED BY <1>2, <1>3, <2>1, <2>2 DEF QuietMoves, Claims, Delivering, Working, RunX
<1> QED BY <1>4, <1>5

\* A request that is under way keeps its claim until its message has it.
LEMMA EnqueueQuiets ==
  ASSUME TypeInv, EnqueueStep PROVE QuietMoves
<1>1. /\ run \in [Run -> RunRow] /\ queue \in [Run -> Message]
      /\ opener \in [Run -> {"none", "insert", "send", "refused"}]
  BY DEF TypeInv, TypeOK
<1>2. UNCHANGED <<brief, site, pc, mem, checked, going>>
  BY DEF EnqueueStep, OpenRun, SendRun, CancelRefused, xVars, dbVars, panelVars
<1>3. \A r \in Run : run'[r].brief = run[r].brief
  <2>1. ASSUME NEW r \in Run, OpenRun(r) PROVE \A t \in Run : run'[t].brief = run[t].brief
    BY <1>1, <2>1 DEF OpenRun, RunRow
  <2>2. ASSUME NEW r \in Run, SendRun(r) PROVE \A t \in Run : run'[t].brief = run[t].brief
    BY <2>2 DEF SendRun, dbVars
  <2>3. ASSUME NEW r \in Run, CancelRefused(r) PROVE \A t \in Run : run'[t].brief = run[t].brief
    BY <2>3, CloseRunFrame DEF CancelRefused, TypeInv, RunClosed
  <2> QED BY <2>1, <2>2, <2>3 DEF EnqueueStep
<1>4. ASSUME NEW t \in Run, Claims(t)' PROVE Claims(t)
  <2>1. \/ opener[t] \in {"insert", "send"}
        \/ /\ opener'[t] \in {"insert", "send"} => opener[t] \in {"insert", "send"}
           /\ queue'[t] = queue[t]
    <3>1. ASSUME NEW r \in Run, OpenRun(r)
          PROVE  /\ opener'[t] \in {"insert", "send"} => opener[t] \in {"insert", "send"}
                 /\ queue'[t] = queue[t]
      BY <1>1, <3>1 DEF OpenRun, qVars
    <3>2. ASSUME NEW r \in Run, SendRun(r)
          PROVE  \/ opener[t] \in {"insert", "send"}
                 \/ opener'[t] = opener[t] /\ queue'[t] = queue[t]
      BY <1>1, <3>2 DEF SendRun
    <3>3. ASSUME NEW r \in Run, CancelRefused(r)
          PROVE  /\ opener'[t] \in {"insert", "send"} => opener[t] \in {"insert", "send"}
                 /\ queue'[t] = queue[t]
      BY <1>1, <3>3 DEF CancelRefused, qVars
    <3> QED BY <3>1, <3>2, <3>3 DEF EnqueueStep
  <2> QED BY <1>2, <1>4, <2>1 DEF Claims, Working, RunX
<1> QED BY <1>2, <1>3, <1>4 DEF QuietMoves, PostsKept, BriefMoves, Delivering

\* A request on a brief that writes nothing but what its user saw.
LEMMA RowQuiets ==
  ASSUME TypeInv, UNCHANGED <<run, queue, opener, pc, mem>>,
         \A x \in Exec : /\ site'[x].status = "none" <=> site[x].status = "none"
                         /\ site[x].status = "publish" => site'[x].status = "publish",
         \A b \in Brief : BriefMoves(b), checked' \subseteq checked,
         \A q \in going' :
           q \in going \/ (/\ q.post \in Exec /\ site'[q.post].status = "publish"
                           /\ Shows(q.brief, q.post)')
  PROVE  QuietMoves
<1>1. \A r \in Run : Claims(r)' => Claims(r)
  BY DEF Claims, Working, RunX
<1> QED BY <1>1 DEF QuietMoves, PostsKept, Delivering

\* Editing, deleting, stopping and publishing claim nothing.
LEMMA RequestQuiets ==
  ASSUME Single, TypeInv, PostInv, NEW q \in Request,
         \/ \E mode \in Mode : UpdateBrief(q, mode)
         \/ DeleteBrief(q) \/ PublishPost(q) \/ PublishRow(q)
  PROVE  QuietMoves
<1>1. /\ brief \in [Brief -> BriefRow] /\ site \in [Exec -> SitePost]
      /\ q.brief \in Brief /\ UNCHANGED <<run, queue, opener, pc, mem>>
  BY RequestParts DEF TypeInv, TypeOK, UpdateBrief, DeleteBrief, PublishPost, PublishRow,
     dbVars, qVars, xVars
<1>2. ASSUME NEW mode \in Mode, UpdateBrief(q, mode) PROVE QuietMoves
  <2> DEFINE row == [brief[q.brief] EXCEPT !.mode = mode]
  <2>1. row.status = brief[q.brief].status /\ row.post = brief[q.brief].post
    BY <1>1 DEF BriefRow
  <2>2. SetBrief(q.brief, row)
    BY <1>2 DEF UpdateBrief
  <2> HIDE DEF row
  <2>3. \A b \in Brief : BriefMoves(b)
    BY <2>1, <2>2, SetBriefFrame DEF BriefMoves, TypeInv
  <2> QED BY <1>1, <1>2, <2>3, RowQuiets DEF UpdateBrief, Passed
<1>3. CASE DeleteBrief(q)
  <2> DEFINE row == [Unborn EXCEPT !.status = "deleted"]
  <2>1. row.status = "deleted"
    BY DEF Unborn
  <2>2. SetBrief(q.brief, row)
    BY <1>3 DEF DeleteBrief
  <2> HIDE DEF row
  <2>3. \A b \in Brief : BriefMoves(b)
    BY <2>1, <2>2, SetBriefFrame DEF BriefMoves, TypeInv
  <2> QED BY <1>1, <1>3, <2>3, RowQuiets DEF DeleteBrief, Passed
<1>4. CASE PublishPost(q)
  <2>1. q \in checked \/ Allowed(q)
    BY <1>4 DEF PublishPost, Passed
  <2>2. /\ q.op = "publish" /\ UNCHANGED brief /\ checked' \subseteq checked
        /\ site' = [site EXCEPT ![q.post].status = "publish"]
        /\ going' = going \cup {q}
    BY <1>4 DEF PublishPost, Passed, dbVars, Single
  <2>3. /\ q.post \in Exec /\ site[q.post].status # "none" /\ Shows(q.brief, q.post)
    <3>1. CASE q \in checked
      BY <2>2, <3>1 DEF PostInv, AskedPublish
    <3>2. CASE Allowed(q)
      BY <1>1, <2>2, <3>2 DEF Allowed, PostInv, RowsHavePosts, Shows, Delivered
    <3> QED BY <2>1, <3>1, <3>2
  <2>4. \A x \in Exec : site'[x].status = (IF x = q.post THEN "publish" ELSE site[x].status)
    BY <1>1, <2>2, <2>3 DEF SitePost
  <2>5. Shows(q.brief, q.post)'
    BY <2>2, <2>3 DEF Shows
  <2>6. \A b \in Brief : BriefMoves(b)
    BY <2>2 DEF BriefMoves
  <2> QED BY <1>1, <2>2, <2>3, <2>4, <2>5, <2>6, RowQuiets
<1>5. CASE PublishRow(q)
  <2> DEFINE row == [brief[q.brief] EXCEPT !.status = "published"]
  <2>1. row.status = "published" /\ row.post = brief[q.brief].post
    BY <1>1 DEF BriefRow
  <2>2. SetBrief(q.brief, row) /\ q \in going /\ UNCHANGED <<site, checked>>
        /\ going' \subseteq going
    BY <1>5 DEF PublishRow
  <2>3. q.post \in Exec /\ site[q.post].status = "publish" /\ Shows(q.brief, q.post)
    BY <2>2 DEF PostInv, GoingIsPublic
  <2> HIDE DEF row
  <2>4. ASSUME NEW b \in Brief PROVE BriefMoves(b)
    <3>1. CASE brief'[b] = brief[b]
      BY <3>1 DEF BriefMoves
    <3>2. CASE b = q.brief /\ Exists(b) /\ brief'[b] = row
      <4>1. brief[b].status \in Delivered /\ brief[b].post = q.post
        BY <2>3, <3>2 DEF Shows, Exists
      <4>2. RowShows(b)'
        BY <2>1, <2>2, <2>3, <3>2, <4>1 DEF RowShows
      <4> QED BY <2>1, <3>2, <4>1, <4>2 DEF BriefMoves
    <3> QED BY <2>2, <3>1, <3>2, SetBriefFrame DEF TypeInv
  <2> QED BY <1>1, <2>2, <2>4, RowQuiets
<1> QED BY <1>2, <1>3, <1>4, <1>5

LEMMA StopQuiets ==
  ASSUME TypeInv, NEW r \in Run, CancelRun(r) \/ CancelMessage(r) PROVE QuietMoves
<1>1. UNCHANGED <<brief, site, pc, mem, opener, checked, going>> /\ queue \in [Run -> Message]
  BY DEF CancelRun, CancelMessage, dbVars, xVars, TypeInv, TypeOK
<1>2. \A t \in Run : run'[t].brief = run[t].brief
  BY CloseRunFrame DEF CancelRun, CancelMessage, dbVars, TypeInv, RunClosed
<1>3. \A t \in Run : queue'[t].state \in Waiting => queue[t].state \in Waiting
  BY <1>1 DEF CancelRun, CancelMessage, qVars, Waiting, Message
<1>4. \A t \in Run : Claims(t)' => Claims(t)
  BY <1>1, <1>3 DEF Claims, Working, RunX
<1> QED BY <1>1, <1>2, <1>4 DEF QuietMoves, PostsKept, BriefMoves, Delivering

\* The brief whose post is being created has none: every post of a claimed
\* brief was made by the handler that claims it.
LEMMA CreatesFirst ==
  ASSUME TypeInv, OpenInv, LastInv, ClaimInv, NEW x \in Exec, pc[x] = "create"
  PROVE  /\ Claims(RunX(x)) /\ PostsOf(BriefX(x)) = {} /\ site[x].status = "none"
         /\ brief[BriefX(x)].status \in Stuck \cup {"deleted"}
<1>1. RunX(x) \in Run /\ Claims(RunX(x)) /\ Busy(x)
  BY ExecParts DEF Claims, Working, Busy
<1>2. ASSUME NEW y \in PostsOf(BriefX(x)) PROVE FALSE
  <2>1. y \in Exec /\ RunX(y) = RunX(x) /\ Delivering(y)
    BY <1>1 DEF ClaimInv, ClaimedPosts, PostsOf, BriefX
  <2>2. Busy(y)
    BY <2>1 DEF Delivering, Busy
  <2>3. y = x
    BY <1>1, <2>1, <2>2, SoleHandler
  <2> QED BY <2>1, <2>3 DEF Delivering
<1>3. PostsOf(BriefX(x)) = {}
  BY <1>2
<1>4. site[x].status = "none"
  BY <1>3 DEF PostsOf
<1> QED BY <1>1, <1>3, <1>4 DEF ClaimInv, ClaimedIsOpen, BriefX

\* The post is the first of its brief and its handler is about to say so.
LEMMA CreateKeeps ==
  ASSUME Single, TypeInv, OpenInv, LastInv, ClaimInv, PostInv,
         NEW x \in Exec, CreatePost(x, TRUE)
  PROVE  ClaimInv' /\ PostInv'
<1>1. /\ site \in [Exec -> SitePost] /\ mem \in [Exec -> Locals] /\ pc \in [Exec -> Step]
      /\ mem[x] \in Locals
  BY DEF TypeInv, TypeOK
<1>2. /\ pc[x] = "create" /\ pc' = [pc EXCEPT ![x] = "item"]
      /\ mem' = [mem EXCEPT ![x].item = "created"]
      /\ site' = [site EXCEPT ![x] = [status |-> PublishMode(x), cover |-> mem[x].cover]]
      /\ UNCHANGED <<brief, run, queue, opener, checked, going>>
  BY DEF CreatePost, Goto, dbVars, qVars, panelVars
<1>3. /\ Claims(RunX(x)) /\ PostsOf(BriefX(x)) = {} /\ site[x].status = "none"
      /\ brief[BriefX(x)].status \in Stuck \cup {"deleted"} /\ RunX(x) \in Run
  BY <1>2, CreatesFirst, ExecParts
<1>4. PublishMode(x) \in Mode /\ "none" \notin Mode
  BY <1>1 DEF PublishMode, Locals, Mode
<1>5. /\ site'[x].status = PublishMode(x) /\ pc'[x] = "item"
      /\ mem'[x].item = "created" /\ PublishMode(x)' = PublishMode(x)
      /\ \A y \in Exec : y # x => site'[y] = site[y] /\ mem'[y] = mem[y] /\ pc'[y] = pc[y]
  <2>1. mem'[x] = [mem[x] EXCEPT !.item = "created"]
    BY <1>1, <1>2
  <2>2. mem'[x].item = "created" /\ mem'[x].mode = mem[x].mode /\ mem'[x].cover = mem[x].cover
    BY <1>1, <2>1 DEF Locals
  <2> QED BY <1>1, <1>2, <2>2 DEF PublishMode
<1>6. Delivering(x)' /\ \A y \in Exec : y # x => Delivering(y)' = Delivering(y)
  BY <1>5 DEF Delivering
<1>7. \A y \in Exec : Working(y)' = Working(y)
  BY <1>2, <1>5 DEF Working
<1>8. \A r \in Run : Claims(r)' = Claims(r)
  BY <1>2, <1>7 DEF Claims, RunX
<1>9. \A b : Claimed(b)' = Claimed(b)
  BY <1>2, <1>8 DEF Claimed
<1>10. \A b : PostsOf(b)' = IF b = BriefX(x) THEN {x} ELSE PostsOf(b)
  BY <1>2, <1>3, <1>4, <1>5 DEF PostsOf, BriefX, RunX
<1>11. OneClaim' /\ ClaimedIsOpen'
  BY <1>2, <1>8 DEF ClaimInv, OneClaim, ClaimedIsOpen
<1>12. ASSUME NEW r \in Run, Claims(r), NEW y \in PostsOf(run[r].brief)'
       PROVE  RunX(y) = r /\ Delivering(y)'
  <2>1. CASE run[r].brief = BriefX(x)
    <3>1. y \in {x}
      BY <1>2, <1>10, <1>12, <2>1 DEF PostsOf
    <3>2. RunX(x) = r
      BY <1>3, <1>12, <2>1 DEF ClaimInv, OneClaim, BriefX
    <3> QED BY <1>6, <3>1, <3>2
  <2>2. CASE run[r].brief # BriefX(x)
    <3>1. y \in PostsOf(run[r].brief) /\ y \in Exec /\ y # x
      BY <1>2, <1>10, <1>12, <2>2 DEF PostsOf
    <3> QED BY <1>6, <1>12, <3>1 DEF ClaimInv, ClaimedPosts
  <2> QED BY <2>1, <2>2
<1>13. ClaimedPosts'
  BY <1>2, <1>8, <1>12 DEF ClaimedPosts, RunX
<1>14. FailedHasNone' /\ OnePost'
  BY <1>2, <1>3, <1>10 DEF ClaimInv, FailedHasNone, OnePost, Stuck
<1>15. ClaimInv'
  BY <1>11, <1>13, <1>14 DEF ClaimInv
<1>16. PostSent'
  <2>1. queue[RunX(x)].state # "free"
    BY <1>2 DEF OpenInv, SentIsBusy, Busy
  <2> QED BY <1>2, <1>5, <2>1 DEF PostInv, PostSent, RunX
<1>17. RowsHavePosts' /\ GoingIsPublic' /\ AskedPublish'
  BY <1>2, <1>3, <1>5 DEF PostInv, RowsHavePosts, GoingIsPublic, AskedPublish, Shows
<1>18. DeliveringHasPost'
  BY <1>4, <1>5, <1>6 DEF PostInv, DeliveringHasPost, PublishMode
<1>19. AskedAgain'
  <2>1. Claimed(BriefX(x))
    BY <1>3 DEF Claimed, BriefX
  <2> QED BY <1>2, <1>9, <1>10, <2>1 DEF PostInv, AskedAgain
<1>20. AskedSlowly'
  BY <1>2 DEF PostInv, AskedSlowly
<1> QED BY <1>15, <1>16, <1>17, <1>18, <1>19, <1>20 DEF PostInv

\* A call to WordPress that failed created nothing.
LEMMA RefusedQuiets ==
  ASSUME Single, TypeInv, NEW x \in Exec, CreatePost(x, FALSE) PROVE QuietMoves
<1>1. /\ pc[x] = "create" /\ pc' = [pc EXCEPT ![x] = "failBrief"]
      /\ UNCHANGED <<site, brief, run, queue, opener, checked, going>>
      /\ \A y \in Exec : y # x => mem'[y] = mem[y]
      /\ pc \in [Exec -> Step]
  BY DEF CreatePost, Fail, Goto, Single, dbVars, qVars, panelVars, TypeInv, TypeOK
<1>2. \A y \in Exec : /\ Working(y)' = Working(y)
                      /\ Delivering(y)' = Delivering(y)
                      /\ Delivering(y) => mem'[y] = mem[y]
  BY <1>1 DEF Working, Delivering
<1>3. \A r \in Run : Claims(r)' = Claims(r)
  BY <1>1, <1>2 DEF Claims, RunX
<1> QED BY <1>1, <1>2, <1>3 DEF QuietMoves, PostsKept, BriefMoves

\* A generation is asked for a brief that nobody claims and that has no post.
LEMMA GenerationKeeps ==
  ASSUME TypeInv, OpenInv, ClaimInv, PostInv, NEW r \in Run, NEW b \in Brief,
         Promise(r, b), UNCHANGED <<queue, pc, mem, site, going>>,
         ~Claimed(b), PostsOf(b) = {},
         \A c \in Brief : c # b => brief'[c] = brief[c],
         \/ brief[b].status \in {"none", "failed"} /\ brief'[b].status = "queued"
         \/ brief[b].status = "deleted" /\ brief'[b].status = "deleted",
         checked' \subseteq checked,
         \A p \in checked' : p.op = "regenerate" => p.brief # b
  PROVE  ClaimInv' /\ PostInv'
<1>1. run \in [Run -> RunRow] /\ opener \in [Run -> {"none", "insert", "send", "refused"}]
  BY DEF TypeInv, TypeOK
<1>2. /\ run[r].brief = NoBrief /\ run'[r].brief = b /\ b # NoBrief
      /\ \A t \in Run : t # r => run'[t] = run[t] /\ opener'[t] = opener[t]
  BY <1>1, BriefsAreNot DEF Promise, NoRun, RunRow
<1>3. queue[r].state = "free" /\ ~Claims(r)
  BY <1>2 DEF OpenInv, UnusedRun, SentIsBusy, Claims, Waiting, Working, Busy
<1>4. \A x \in Exec : RunX(x) \in Run /\ (RunX(x) = r => site[x].status = "none")
  BY <1>3, ExecParts DEF PostInv, PostSent
<1>5. \A c \in Brief : PostsOf(c)' = PostsOf(c)
  BY <1>2, <1>4 DEF PostsOf, BriefX, RunX
<1>6. /\ \A x \in Exec : Working(x)' = Working(x) /\ Delivering(x)' = Delivering(x)
      /\ \A x \in Exec : PublishMode(x)' = PublishMode(x)
  BY DEF Working, Delivering, PublishMode
<1>7. \A t \in Run : t # r => Claims(t)' = Claims(t)
  BY <1>2, <1>6 DEF Claims, RunX
<1>8. \A c \in Brief : c # b => (Claimed(c)' <=> Claimed(c))
  BY <1>2, <1>7, BriefsAreNot DEF Claimed
<1>9. \A t \in Run : Claims(t)' /\ run'[t].brief = b => t = r
  BY <1>2, <1>7 DEF Claimed
<1>10. ASSUME NEW t \in Run, Claims(t)', t # r
       PROVE  Claims(t) /\ run'[t].brief = run[t].brief
              /\ run[t].brief \in Brief /\ run[t].brief # b
  BY <1>2, <1>7, <1>10, ClaimsBrief DEF Claimed
<1>11. OneClaim'
  BY <1>2, <1>9, <1>10 DEF ClaimInv, OneClaim
<1>12. ClaimedIsOpen'
  BY <1>2, <1>10 DEF ClaimInv, ClaimedIsOpen, Stuck
<1>14. ASSUME NEW t \in Run, Claims(t)'
       PROVE  \A x \in (PostsOf(run[t].brief))' : RunX(x)' = t /\ Delivering(x)'
  <2>1. CASE t = r
    <3>1. (PostsOf(run[t].brief))' = PostsOf(b)'
      BY <1>2, <2>1 DEF PostsOf
    <3> QED BY <1>5, <3>1
  <2>2. CASE t # r
    <3>1. PICK c \in Brief : c = run[t].brief /\ run'[t].brief = c
      BY <1>10, <1>14, <2>2
    <3>2. (PostsOf(run[t].brief))' = PostsOf(c)
      BY <1>5, <3>1 DEF PostsOf
    <3>3. \A x \in PostsOf(c) : x \in Exec /\ RunX(x) = t /\ Delivering(x)
      BY <1>10, <1>14, <2>2, <3>1 DEF ClaimInv, ClaimedPosts, PostsOf
    <3> QED BY <1>6, <3>2, <3>3 DEF RunX
  <2> QED BY <2>1, <2>2
<1>15. ClaimedPosts'
  BY <1>14 DEF ClaimedPosts
<1>16. FailedHasNone' /\ OnePost'
  BY <1>5 DEF ClaimInv, FailedHasNone, OnePost
<1>17. ClaimInv'
  BY <1>11, <1>12, <1>15, <1>16 DEF ClaimInv
<1>18. \A c \in Brief : \A x : Shows(c, x) => Shows(c, x)'
  BY DEF Shows, Delivered
<1>19. \A q \in checked \cup going : q.brief \in Brief
  BY RequestParts DEF TypeInv, TypeOK
<1>20. PostSent' /\ DeliveringHasPost' /\ AskedSlowly'
  BY <1>6 DEF PostInv, PostSent, DeliveringHasPost, AskedSlowly, RunX
<1>21. RowsHavePosts'
  BY DEF PostInv, RowsHavePosts, Delivered
<1>22. GoingIsPublic' /\ AskedPublish'
  BY <1>18, <1>19 DEF PostInv, GoingIsPublic, AskedPublish
<1>23. AskedAgain'
  BY <1>5, <1>8, <1>19 DEF PostInv, AskedAgain
<1> QED BY <1>17, <1>20, <1>21, <1>22, <1>23 DEF PostInv

\* A new brief has no run, hence no claim and no post.
LEMMA CreateBriefKeeps ==
  ASSUME TypeInv, OpenInv, ClaimInv, PostInv,
         NEW b \in Brief, NEW r \in Run, NEW mode \in Mode, CreateBrief(b, r, mode)
  PROVE  ClaimInv' /\ PostInv'
<1>1. /\ brief \in [Brief -> BriefRow] /\ b # NoBrief /\ \A x \in Exec : RunX(x) \in Run
      /\ \A q \in checked : q.brief \in Brief
  BY ExecParts, RequestParts, BriefsAreNot DEF TypeInv, TypeOK
<1>2. /\ brief[b].status = "none" /\ Promise(r, b)
      /\ UNCHANGED <<queue, pc, mem, site, going, checked>>
      /\ brief' = [brief EXCEPT ![b] = [status |-> "queued", mode |-> mode, post |-> NoPost]]
  BY DEF CreateBrief, qVars, xVars
<1>3. \A t \in Run : run[t].brief # b
  BY <1>1, <1>2 DEF OpenInv, RunHasBrief
<1>4. ~Claimed(b) /\ PostsOf(b) = {}
  BY <1>1, <1>3 DEF Claimed, PostsOf, BriefX
<1>5. brief'[b].status = "queued" /\ \A c \in Brief : c # b => brief'[c] = brief[c]
  BY <1>1, <1>2
<1>6. \A p \in checked : p.brief # b
  BY <1>2 DEF OpenInv, AskedExists
<1> QED BY <1>2, <1>4, <1>5, <1>6, GenerationKeeps

\* What failed has no post, and whoever asks again asks alone.
LEMMA RegenerateKeeps ==
  ASSUME TypeInv, OpenInv, ClaimInv, PostInv, NEW q \in Request, Regenerate(q)
  PROVE  ClaimInv' /\ PostInv'
<1>1. /\ brief \in [Brief -> BriefRow] /\ q.op = "regenerate"
      /\ q.brief \in Brief /\ q.run \in Run /\ Promise(q.run, q.brief)
      /\ UNCHANGED <<queue, pc, mem, site, going>> /\ checked' = checked \ {q}
      /\ SetBrief(q.brief, [brief[q.brief] EXCEPT !.status = "queued"])
      /\ IF "slow" \in Env THEN q \in checked ELSE Allowed(q)
  BY RequestParts DEF Regenerate, Passed, qVars, xVars, TypeInv, TypeOK
<1>2. PICK b \in Brief : b = q.brief
  BY <1>1
<1>3. /\ brief[b].status \in {"failed", "deleted"} /\ ~Claimed(b) /\ PostsOf(b) = {}
      /\ \A p \in checked' : p.op = "regenerate" => p.brief # b
  <2>1. CASE "slow" \in Env
    BY <1>1, <1>2, <2>1 DEF PostInv, AskedAgain
  <2>2. CASE "slow" \notin Env
    <3>1. brief[b].status = "failed" /\ checked = {}
      BY <1>1, <1>2, <2>2 DEF Allowed, PostInv, AskedSlowly
    <3>2. ~Claimed(b)
      BY <3>1 DEF Claimed, ClaimInv, ClaimedIsOpen, Stuck
    <3>3. PostsOf(b) = {}
      BY <3>1 DEF ClaimInv, FailedHasNone
    <3> QED BY <1>1, <3>1, <3>2, <3>3
  <2> QED BY <2>1, <2>2
<1>4. /\ \A c \in Brief : c # b => brief'[c] = brief[c]
      /\ \/ brief[b].status = "failed" /\ brief'[b].status = "queued"
         \/ brief[b].status = "deleted" /\ brief'[b].status = "deleted"
  BY <1>1, <1>2, <1>3 DEF SetBrief, Exists, BriefRow
<1> QED BY <1>1, <1>2, <1>3, <1>4, GenerationKeeps

\* What a request found stays true of its brief until it acts on it.
LEMMA CheckKeeps ==
  ASSUME Single, TypeInv, OpenInv, ClaimInv, PostInv, NEW q \in Request, Check(q)
  PROVE  ClaimInv' /\ PostInv'
<1>1. /\ UNCHANGED <<brief, run, queue, pc, mem, site, opener, going>>
      /\ checked' = checked \cup {q} /\ "slow" \in Env /\ Allowed(q)
      /\ q.op = "regenerate" =>
           \A p \in checked : p.op # "regenerate" \/ p.brief # q.brief
      /\ q.brief \in Brief
  BY RequestParts DEF Check, Single, dbVars, qVars, xVars
<1>2. /\ \A b : PostsOf(b)' = PostsOf(b)
      /\ \A r : Claims(r)' <=> Claims(r)
      /\ \A b : Claimed(b)' <=> Claimed(b)
      /\ \A x : Delivering(x)' <=> Delivering(x)
  BY <1>1 DEF PostsOf, BriefX, RunX, Claims, Claimed, Working, Delivering
<1>3. ClaimInv'
  <2>1. OneClaim' /\ ClaimedIsOpen'
    BY <1>1, <1>2 DEF ClaimInv, OneClaim, ClaimedIsOpen
  <2>2. FailedHasNone' /\ OnePost'
    BY <1>1, <1>2 DEF ClaimInv, FailedHasNone, OnePost
  <2>3. ClaimedPosts'
    BY <1>1, <1>2 DEF ClaimInv, ClaimedPosts, RunX, PostsOf, BriefX
  <2> QED BY <2>1, <2>2, <2>3 DEF ClaimInv
<1>4. AskedPublish'
  <2>1. q.op = "publish" => /\ q.post \in Exec /\ site[q.post].status # "none"
                            /\ Shows(q.brief, q.post)
    BY <1>1 DEF Allowed, PostInv, RowsHavePosts, Shows, Delivered
  <2> QED BY <1>1, <2>1 DEF PostInv, AskedPublish, Shows
<1>5. AskedAgain'
  <2> SUFFICES ASSUME q.op = "regenerate"
               PROVE  /\ brief[q.brief].status = "failed"
                      /\ PostsOf(q.brief) = {} /\ ~Claimed(q.brief)
    BY <1>1, <1>2 DEF PostInv, AskedAgain
  <2>1. brief[q.brief].status = "failed"
    BY <1>1 DEF Allowed
  <2>2. ~Claimed(q.brief)
    BY <2>1 DEF Claimed, ClaimInv, ClaimedIsOpen, Stuck
  <2> QED BY <1>1, <2>1, <2>2 DEF ClaimInv, FailedHasNone
<1>6. PostSent' /\ RowsHavePosts' /\ GoingIsPublic' /\ AskedSlowly'
  BY <1>1 DEF PostInv, PostSent, RowsHavePosts, GoingIsPublic, AskedSlowly, Shows, RunX
<1>7. DeliveringHasPost'
  BY <1>1, <1>2 DEF PostInv, DeliveringHasPost, PublishMode
<1> QED BY <1>3, <1>4, <1>5, <1>6, <1>7 DEF PostInv

\* What every step does: a quiet one, or one of the four above.
LEMMA NextSingle ==
  ASSUME Single, TypeInv, OpenInv, LastInv, ClaimInv, PostInv, Next
  PROVE  \/ QuietMoves
         \/ \E x \in Exec : CreatePost(x, TRUE)
         \/ \E b \in Brief, r \in Run, mode \in Mode : CreateBrief(b, r, mode)
         \/ \E q \in Request : Regenerate(q) \/ Check(q)
<1>1. ASSUME NEW x \in Exec, HandlerStep(x) PROVE QuietMoves \/ CreatePost(x, TRUE)
  BY <1>1, HandlerQuiets, RefusedQuiets
<1>2. CASE QueueServes \/ \E r \in Run : TimeOut(r)
  BY <1>2, QueueQuiets
<1>3. CASE EnqueueStep
  BY <1>3, EnqueueQuiets
<1>4. CASE RequestStep
  BY <1>4, RequestQuiets, StopQuiets DEF RequestStep
<1>5. ~Crash /\ ~\E x \in Exec : StatementFails(x)
  BY DEF Single, Crash, StatementFails
<1> QED BY <1>1, <1>2, <1>3, <1>4, <1>5 DEF Next, WorkerStep, FaultStep

LEMMA StepClaims ==
  ASSUME Single, TypeInv, OpenInv, LastInv, ClaimInv, PostInv, Next
  PROVE  ClaimInv' /\ PostInv'
<1>1. TypeInv' /\ OpenMoves
  BY NextType, NextOpens
<1>2. QuietMoves => ClaimInv' /\ PostInv'
  BY <1>1, QuietClaims, QuietPosts
<1> QED
  BY <1>2, NextSingle, CreateKeeps, CreateBriefKeeps, RegenerateKeeps, CheckKeeps

\* What a delivered brief shows stays.
Kept(b) == brief[b].status \in Delivered =>
  \/ brief'[b].status = "deleted"
  \/ /\ brief'[b].post = brief[b].post
     /\ brief'[b].status \in {brief[b].status, "published"}

LEMMA StepKeeps ==
  ASSUME Single, TypeInv, OpenInv, LastInv, ClaimInv, PostInv, Next, NEW b \in Brief
  PROVE  Kept(b)
<1>1. brief \in [Brief -> BriefRow]
  BY DEF TypeInv, TypeOK
<1>2. CASE QuietMoves
  <2>1. Claimed(b) => brief[b].status \in Stuck \cup {"deleted"}
    BY DEF Claimed, ClaimInv, ClaimedIsOpen
  <2> QED BY <1>2, <2>1 DEF QuietMoves, BriefMoves, Kept, Stuck, Delivered
<1>3. ASSUME NEW x \in Exec, CreatePost(x, TRUE) PROVE Kept(b)
  BY <1>3 DEF CreatePost, dbVars, Kept
<1>4. ASSUME NEW c \in Brief, NEW r \in Run, NEW mode \in Mode, CreateBrief(c, r, mode)
      PROVE  Kept(b)
  BY <1>1, <1>4 DEF CreateBrief, Kept, Delivered
<1>5. ASSUME NEW q \in Request, Check(q) PROVE Kept(b)
  BY <1>5 DEF Check, dbVars, Kept
<1>6. ASSUME NEW q \in Request, Regenerate(q) PROVE Kept(b)
  <2>1. brief[q.brief].status \notin Delivered
    <3>1. q \in checked => brief[q.brief].status \in {"failed", "deleted"}
      BY <1>6 DEF PostInv, AskedAgain, Regenerate
    <3>2. Allowed(q) => brief[q.brief].status = "failed"
      BY <1>6 DEF Allowed, Regenerate
    <3> QED BY <1>6, <3>1, <3>2 DEF Regenerate, Passed, Delivered
  <2>2. SetBrief(q.brief, [brief[q.brief] EXCEPT !.status = "queued"])
    BY <1>6 DEF Regenerate
  <2>3. b # q.brief => brief'[b] = brief[b]
    BY <2>2, SetBriefFrame DEF TypeInv
  <2> QED BY <2>1, <2>3 DEF Kept
<1> QED BY <1>2, <1>3, <1>4, <1>5, <1>6, NextSingle

SingleInv == TypeInv /\ OpenInv /\ LastInv /\ ClaimInv /\ PostInv

LEMMA InitSingle == Init => LastInv /\ ClaimInv /\ PostInv
<1> SUFFICES ASSUME Init PROVE LastInv /\ ClaimInv /\ PostInv
  OBVIOUS
<1>1. /\ \A b \in Brief : brief[b] = Unborn
      /\ \A r \in Run : queue[r].state = "free" /\ opener[r] = "none"
      /\ \A x \in Exec : pc[x] = "off" /\ site[x].status = "none"
      /\ held = {} /\ checked = {} /\ going = {}
  BY DEF Init
<1>2. \A r \in Run : ~Claims(r)
  BY <1>1 DEF Claims, Waiting, Working
<1>3. \A b : PostsOf(b) = {}
  BY <1>1 DEF PostsOf
<1>4. LastInv
  BY <1>1 DEF LastInv, ActiveIsHeld, ActiveIsCounted, LastRuns, FailsWithItem, Busy
<1>5. ClaimInv
  BY <1>2, <1>3 DEF ClaimInv, OneClaim, ClaimedIsOpen, ClaimedPosts, FailedHasNone, OnePost
<1>6. PostInv
  BY <1>1, <1>3 DEF PostInv, PostSent, RowsHavePosts, DeliveringHasPost, GoingIsPublic,
     AskedPublish, AskedAgain, AskedSlowly, Delivering, Delivered, Unborn
<1> QED BY <1>4, <1>5, <1>6

LEMMA StepSingle == Single /\ SingleInv /\ [Next]_vars => SingleInv'
<1> SUFFICES ASSUME Single, SingleInv, [Next]_vars PROVE SingleInv'
  OBVIOUS
<1> USE DEF SingleInv
<1>1. TypeInv' /\ OpenInv'
  BY NextType, StepOpen
<1>2. CASE Next
  BY <1>1, <1>2, StepLast, StepClaims
<1>3. CASE UNCHANGED vars
  <2>1. LastInv'
    BY <1>3 DEF vars, LastInv, ActiveIsHeld, ActiveIsCounted, LastRuns, FailsWithItem, Busy,
                RunX, Waiting
  <2>2. ClaimInv'
    BY <1>3 DEF vars, ClaimInv, OneClaim, ClaimedIsOpen, ClaimedPosts, FailedHasNone, OnePost,
                Claims, Working, Delivering, PostsOf, BriefX, RunX
  <2>3. PostInv'
    BY <1>3 DEF vars, PostInv, PostSent, RowsHavePosts, DeliveringHasPost, GoingIsPublic,
                AskedPublish, AskedAgain, AskedSlowly, Delivering, PublishMode, Shows, Claimed,
                Claims, Working, PostsOf, BriefX, RunX
  <2> QED BY <1>1, <2>1, <2>2, <2>3
<1> QED BY <1>2, <1>3

LEMMA AlwaysSingle == Single => (Spec => []SingleInv)
<1> SUFFICES ASSUME Single PROVE Spec => []SingleInv
  OBVIOUS
<1>1. Init => SingleInv
  BY InitType, InitOpen, InitSingle DEF SingleInv
<1>2. SingleInv /\ [Next]_vars => SingleInv'
  BY StepSingle
<1> QED BY <1>1, <1>2, PTL DEF Spec

\* A brief puts at most one post into WordPress, as long as the worker lives,
\* its statements succeed, WordPress says what it did and nobody asks twice
\* at once for a generation: briefs.ts 146.
THEOREM OnePostPerBriefHolds == Single => (Spec => []OnePostPerBrief)
<1> SUFFICES ASSUME Single PROVE Spec => []OnePostPerBrief
  OBVIOUS
<1>1. SingleInv => OnePostPerBrief
  <2> SUFFICES ASSUME SingleInv, NEW b \in Brief PROVE Cardinality(PostsOf(b)) <= 1
    BY DEF OnePostPerBrief
  <2>1. CASE PostsOf(b) = {}
    BY <2>1, FS_EmptySet
  <2>2. CASE PostsOf(b) # {}
    <3>1. PICK x : PostsOf(b) = {x}
      BY <2>2 DEF SingleInv, ClaimInv, OnePost
    <3>2. Cardinality({x}) = 1
      BY FS_Singleton
    <3> QED BY <3>1, <3>2
  <2> QED BY <2>1, <2>2
<1> QED BY <1>1, AlwaysSingle, PTL

\* What the panel calls published is public in WordPress.
THEOREM PublishedIsPublicHolds == Single => (Spec => []PublishedIsPublic)
<1> SUFFICES ASSUME Single PROVE Spec => []PublishedIsPublic
  OBVIOUS
<1>1. SingleInv => PublishedIsPublic
  BY BriefsAreNot DEF SingleInv, PostInv, RowsHavePosts, PublishedIsPublic, Delivered, Exec
<1> QED BY <1>1, AlwaysSingle, PTL

\* A delivered brief keeps its post until it is deleted: no generation that is
\* still under way takes it back.
THEOREM DeliveredStaysHolds == Single => (Spec => DeliveredStays)
<1> SUFFICES ASSUME Single PROVE Spec => DeliveredStays
  OBVIOUS
<1>1. ASSUME SingleInv, [Next]_vars
      PROVE  [\A b \in Brief : brief[b].status \in Delivered =>
                \/ brief'[b].status = "deleted"
                \/ /\ brief'[b].post = brief[b].post
                   /\ brief'[b].status \in {brief[b].status, "published"}]_brief
  BY <1>1, StepKeeps DEF SingleInv, Kept, vars
<1> QED BY <1>1, AlwaysSingle, PTL DEF Spec, DeliveredStays

-----------------------------------------------------------------------------
(* What a success means.  Handlers end within their delivery and requests  *)
(* act on what they just read; the worker may die, statements may fail,    *)
(* WordPress may lie, the queue may take a message twice.                  *)
Prompt == Env \cap {"overrun", "slow"} = {}

\* One message is held and one handler works, on its last delivery.
AloneInv ==
  /\ \A r, s \in held : r = s
  /\ \A x \in Exec : Busy(x) => RunX(x) \in held /\ queue[RunX(x)].tries = x[2]

\* Who counts has recorded its item, and told the brief of the post it created.
Told(x) == \/ ~Exists(BriefX(x))
           \/ brief[BriefX(x)].status \in Delivered /\ brief[BriefX(x)].post = x
WordAt(x) ==
  /\ pc[x] \in {"update", "count", "close"} => Item(x) \in items
  /\ pc[x] \in {"count", "close"} /\ mem[x].item = "created" => Told(x)
  /\ pc[x] = "close" /\ mem[x].verdict = "success" => mem[x].item = "created"
WordInv == \A x \in Exec : WordAt(x)

LEMMA AloneBusy ==
  ASSUME AloneInv, NEW x \in Exec, NEW y \in Exec, Busy(x), Busy(y) PROVE x = y
<1>1. RunX(x) = RunX(y) /\ x[2] = y[2]
  BY DEF AloneInv
<1> QED BY <1>1 DEF Exec, RunX

\* Without overruns the loop is never ahead of its handler.
LEMMA StepAlone ==
  ASSUME Prompt, TypeInv, AloneInv, Next PROVE AloneInv'
<1>1. /\ queue \in [Run -> Message] /\ held \subseteq Run /\ pc \in [Exec -> Step]
  BY DEF TypeInv, TypeOK
<1>2. ASSUME NEW x \in Exec, HandlerStep(x) \/ StatementFails(x) PROVE AloneInv'
  <2>1. /\ Busy(x) /\ RunX(x) \in Run
        /\ \A y \in Exec : y # x => pc'[y] = pc[y]
        /\ UNCHANGED qVars \/ (GiveBack(RunX(x)) /\ pc'[x] = "off")
    BY <1>2, HandlerQueue, ExecParts
  <2>2. \A y \in Exec : Busy(y)' => y = x /\ UNCHANGED qVars
    BY <2>1, AloneBusy DEF Busy
  <2>3. held' \subseteq held
    BY <2>1 DEF qVars, GiveBack
  <2> QED BY <2>1, <2>2, <2>3 DEF AloneInv, qVars, RunX
<1>3. ASSUME NEW r \in Run, Fetch(r) PROVE AloneInv'
  <2>1. /\ held' = {r} /\ \A x \in Exec : ~Busy(x)
        /\ queue'[r].tries = queue[r].tries + 1
        /\ pc' = [pc EXCEPT ![<<r, queue[r].tries + 1>>] = "run"]
    BY <1>1, <1>3 DEF Fetch, AloneInv
  <2>2. \A y \in Exec : Busy(y)' => y = <<r, queue[r].tries + 1>>
    BY <1>1, <2>1 DEF Busy
  <2> QED BY <2>1, <2>2 DEF AloneInv, RunX
<1>4. ASSUME NEW r \in Run, Settle(r) PROVE AloneInv'
  <2>1. /\ r \in held /\ pc[<<r, queue[r].tries>>] = "done"
        /\ held' \subseteq held /\ UNCHANGED pc
    BY <1>4 DEF Settle, xVars
  <2>2. ASSUME NEW x \in Exec, Busy(x) PROVE FALSE
    <3>1. RunX(x) = r /\ queue[r].tries = x[2]
      BY <2>1, <2>2 DEF AloneInv
    <3>2. x = <<r, queue[r].tries>>
      BY <3>1 DEF Exec, RunX
    <3> QED BY <2>1, <2>2, <3>2 DEF Busy
  <2> QED BY <2>1, <2>2 DEF AloneInv, Busy
<1>5. CASE Crash
  BY <1>5 DEF Crash, AloneInv, Busy
<1>6. ASSUME EnqueueStep \/ RequestStep \/ \E r \in Run : Expire(r) PROVE AloneInv'
  <2>1. UNCHANGED <<held, pc>>
    BY <1>6 DEF EnqueueStep, OpenRun, SendRun, CancelRefused, RequestStep, CreateBrief, Check,
         UpdateBrief, Regenerate, PublishPost, PublishRow, DeleteBrief, CancelRun,
         CancelMessage, Expire, qVars, xVars
  <2>2. \A r \in Run : queue'[r].tries = queue[r].tries
    <3>1. ASSUME NEW r \in Run, SendRun(r) \/ CancelMessage(r) \/ Expire(r)
          PROVE  \A t \in Run : queue'[t].tries = queue[t].tries
      BY <1>1, <3>1 DEF SendRun, CancelMessage, Expire, Returned, Message
    <3>2. CASE ~\E r \in Run : SendRun(r) \/ CancelMessage(r) \/ Expire(r)
      BY <1>6, <3>2 DEF EnqueueStep, OpenRun, CancelRefused, RequestStep, CreateBrief, Check,
         UpdateBrief, Regenerate, PublishPost, PublishRow, DeleteBrief, CancelRun, qVars
    <3> QED BY <3>1, <3>2
  <2> QED BY <2>1, <2>2, ExecParts DEF AloneInv, Busy, RunX
<1>7. ~\E r \in Run : TimeOut(r)
  BY DEF Prompt, TimeOut
<1> QED
  BY <1>2, <1>3, <1>4, <1>5, <1>6, <1>7 DEF Next, WorkerStep, QueueServes, FaultStep

\* Nobody but a handler takes a delivered brief back.
LEMMA OthersKeepBriefs ==
  ASSUME Prompt, TypeInv, NEW b \in Brief,
         QueueServes \/ EnqueueStep \/ RequestStep \/ Crash
  PROVE  \/ brief'[b].status = brief[b].status /\ brief'[b].post = brief[b].post
         \/ brief'[b].status = "deleted"
         \/ /\ brief'[b].status = "published" /\ brief'[b].post = brief[b].post
            /\ brief[b].status # "deleted"
         \/ brief[b].status \in {"none", "failed"}
<1>1. brief \in [Brief -> BriefRow]
  BY DEF TypeInv, TypeOK
<1>2. ASSUME NEW c \in Brief, NEW r \in Run, NEW mode \in Mode, CreateBrief(c, r, mode)
      PROVE  brief'[b] = brief[b] \/ brief[b].status = "none"
  BY <1>1, <1>2 DEF CreateBrief
<1>3. ASSUME NEW q \in Request, NEW mode \in Mode, UpdateBrief(q, mode)
      PROVE  brief'[b].status = brief[b].status /\ brief'[b].post = brief[b].post
  <2>1. SetBrief(q.brief, [brief[q.brief] EXCEPT !.mode = mode])
    BY <1>3 DEF UpdateBrief
  <2> QED BY <1>1, <2>1, SetBriefFrame DEF TypeInv, BriefRow
<1>4. ASSUME NEW q \in Request, Regenerate(q)
      PROVE  brief'[b] = brief[b] \/ brief[b].status = "failed"
  <2>1. /\ SetBrief(q.brief, [brief[q.brief] EXCEPT !.status = "queued"])
        /\ brief[q.brief].status = "failed"
    BY <1>4 DEF Regenerate, Passed, Prompt, Allowed
  <2> QED BY <1>1, <2>1, SetBriefFrame DEF TypeInv
<1>5. ASSUME NEW q \in Request, PublishRow(q)
      PROVE  brief'[b] = brief[b]
             \/ /\ brief'[b].status = "published" /\ brief'[b].post = brief[b].post
                /\ brief[b].status # "deleted"
  <2>1. SetBrief(q.brief, [brief[q.brief] EXCEPT !.status = "published"])
    BY <1>5 DEF PublishRow
  <2> QED BY <1>1, <2>1, SetBriefFrame DEF TypeInv, BriefRow, Exists
<1>6. ASSUME NEW q \in Request, DeleteBrief(q)
      PROVE  brief'[b] = brief[b] \/ brief'[b].status = "deleted"
  <2>1. SetBrief(q.brief, [Unborn EXCEPT !.status = "deleted"])
    BY <1>6 DEF DeleteBrief
  <2> QED BY <1>1, <2>1, SetBriefFrame DEF TypeInv, Unborn
<1>7. CASE UNCHANGED brief
  BY <1>7
<1> QED
  BY <1>2, <1>3, <1>4, <1>5, <1>6, <1>7
  DEF QueueServes, Fetch, Settle, Expire, EnqueueStep, OpenRun, SendRun, CancelRefused,
      RequestStep, Check, PublishPost, CancelRun, CancelMessage, Crash, dbVars

\* What a working handler told stays told while others move.
LEMMA OthersKeepWord ==
  ASSUME Prompt, TypeInv, OpenInv, OpenMoves, WordInv,
         QueueServes \/ EnqueueStep \/ RequestStep \/ Crash
  PROVE  WordInv'
<1>1. UNCHANGED items /\ pc \in [Exec -> Step] /\ mem \in [Exec -> Locals]
  BY OthersQuiet DEF TypeInv, TypeOK
<1>2. ASSUME NEW x \in Exec, pc'[x] \in {"update", "count", "close"}
      PROVE  pc'[x] = pc[x] /\ mem'[x] = mem[x]
  <2>1. CASE Crash
    BY <1>2, <2>1 DEF Crash
  <2>2. CASE \E r \in Run : Fetch(r)
    BY <1>1, <1>2, <2>2 DEF Fetch
  <2>3. CASE UNCHANGED <<pc, mem>>
    BY <2>3
  <2> QED BY <2>1, <2>2, <2>3 DEF QueueServes, Settle, Expire, EnqueueStep, OpenRun, SendRun,
       CancelRefused, RequestStep, CreateBrief, Check, UpdateBrief, Regenerate, PublishPost,
       PublishRow, DeleteBrief, CancelRun, CancelMessage, xVars
<1>3. ASSUME NEW x \in Exec, Busy(x), Told(x) PROVE Told(x)'
  <2>1. RunX(x) \in Run /\ queue[RunX(x)].state # "free"
    BY <1>3, ExecParts DEF OpenInv, SentIsBusy
  <2>2. run[RunX(x)].brief # NoBrief
    BY <2>1 DEF OpenInv, UnusedRun
  <2>3. run'[RunX(x)].brief = run[RunX(x)].brief
    BY <2>1, <2>2 DEF OpenMoves, RunMoves
  <2>4. PICK b \in Brief : b = BriefX(x)
    BY <2>1, <2>2 DEF BriefX, TypeInv, TypeOK, RunRow
  <2>5. BriefX(x)' = b /\ brief[b].status # "none"
    BY <2>1, <2>2, <2>3, <2>4 DEF BriefX, RunX, OpenInv, RunHasBrief
  <2>6. \/ brief[b].status = "deleted"
        \/ brief[b].status \in Delivered /\ brief[b].post = x
    BY <1>3, <2>4, <2>5 DEF Told, Exists
  <2>7. \/ brief'[b].status = "deleted"
        \/ brief'[b].status \in Delivered /\ brief'[b].post = x
    BY <2>6, OthersKeepBriefs DEF Delivered
  <2> QED BY <2>5, <2>7 DEF Told, Exists
<1> QED BY <1>1, <1>2, <1>3 DEF WordInv, WordAt, Busy, Item, RunX

\* A handler that works keeps its word.
LEMMA HandlerKeepsWord ==
  ASSUME TypeInv, AloneInv, WordInv, NEW x \in Exec, HandlerStep(x) \/ StatementFails(x)
  PROVE  WordInv'
<1>1. /\ brief \in [Brief -> BriefRow] /\ items \subseteq ItemRow
      /\ pc \in [Exec -> Step] /\ mem \in [Exec -> Locals]
  BY DEF TypeInv, TypeOK
<1>2. ASSUME NEW y \in Exec, y # x PROVE WordAt(y)'
  <2>1. pc'[y] = pc[y] /\ ~Busy(y)
    BY <1>2, HandlerQueue, AloneBusy
  <2> QED BY <2>1 DEF Busy, WordAt
<1>3. CASE Record(x)
  <2>1. /\ items' = items \cup {Item(x)} /\ UNCHANGED mem
        /\ pc'[x] = IF mem[x].item = "failed" THEN "count" ELSE "update"
    BY <1>1, <1>3 DEF Record, Goto
  <2>2. Item(x)' = Item(x)
    BY <2>1 DEF Item
  <2>3. WordAt(x)'
    BY <2>1, <2>2 DEF WordAt
  <2> QED BY <1>2, <2>3 DEF WordInv
<1>4. CASE UpdateRow(x)
  <2>1. /\ pc[x] = "update" /\ UNCHANGED <<mem, run, items>> /\ pc'[x] = "count"
    BY <1>1, <1>4 DEF UpdateRow, Goto
  <2>2. Item(x)' = Item(x) /\ BriefX(x)' = BriefX(x)
    BY <2>1 DEF Item, BriefX
  <2>3. ASSUME mem[x].item = "created" PROVE Told(x)'
    <3>1. PICK b : b = BriefX(x)
      OBVIOUS
    <3>2. /\ SetBrief(b, [brief[b] EXCEPT !.status = StatusOf(x), !.post = x])
          /\ StatusOf(x) \in Delivered
      BY <1>4, <2>3, <3>1 DEF UpdateRow, StatusOf, Delivered
    <3>3. CASE Exists(b)
      <4>1. brief'[b] = [brief[b] EXCEPT !.status = StatusOf(x), !.post = x]
        BY <1>1, <3>2, <3>3 DEF SetBrief, Exists
      <4>2. brief'[b].status = StatusOf(x) /\ brief'[b].post = x
        BY <1>1, <3>3, <4>1 DEF Exists, BriefRow
      <4> QED BY <2>2, <3>1, <3>2, <4>2 DEF Told
    <3>4. CASE ~Exists(b)
      BY <2>2, <3>1, <3>2, <3>4 DEF SetBrief, Told, Exists
    <3> QED BY <3>3, <3>4
  <2>4. WordAt(x)'
    BY <2>1, <2>2, <2>3 DEF WordAt, WordInv
  <2> QED BY <1>2, <2>4 DEF WordInv
<1>5. CASE Count(x)
  <2> DEFINE S == {i \in items : i.run = RunX(x)}
             v == Verdict({i.status : i \in S})
  <2>1. UNCHANGED <<brief, run, items>> /\ pc[x] = "count"
    BY <1>5 DEF Count, dbVars
  <2>2. \/ pc'[x] = "done"
        \/ pc'[x] = "close" /\ mem' = [mem EXCEPT ![x].verdict = v]
    BY <1>1, <1>5 DEF Count, Goto, Finish
  <2>3. /\ Item(x) \in items
        /\ mem[x].item = "created" => Told(x)
    BY <2>1 DEF WordInv, WordAt
  <2>4. Item(x) \in S /\ Item(x).status = mem[x].item
    BY <2>3 DEF Item
  <2>5. v = "success" => mem[x].item = "created"
    <3>1. mem[x].item \in {"created"} \cup Failures
      BY <1>1, <2>3, <2>4 DEF ItemRow
    <3>2. mem[x].item \in {i.status : i \in S}
      BY <2>4
    <3> QED BY <3>1, <3>2 DEF Verdict
  <2> HIDE DEF v, S
  <2>6. ASSUME pc'[x] = "close" PROVE WordAt(x)'
    <3>1. /\ mem'[x].verdict = v /\ mem'[x].item = mem[x].item
          /\ mem'[x].phase = mem[x].phase
      BY <1>1, <2>2, <2>6 DEF Locals
    <3>2. Item(x)' = Item(x) /\ BriefX(x)' = BriefX(x) /\ (Told(x) => Told(x)')
      BY <2>1, <3>1 DEF Item, BriefX, Told, Exists
    <3> QED BY <2>1, <2>3, <2>5, <2>6, <3>1, <3>2 DEF WordAt
  <2>7. WordAt(x)'
    BY <2>2, <2>6 DEF WordAt
  <2> QED BY <1>2, <2>7 DEF WordInv
<1>6. CASE ~Record(x) /\ ~UpdateRow(x) /\ ~Count(x)
  <2>1. pc'[x] \notin {"update", "count", "close"}
    BY <1>1, <1>6 DEF HandlerStep, CheckRun, LoadBrief, ExpectOne, CheckPlan, MarkGenerating,
       RunPipeline, CreatePost, FailBrief, Close, StatementFails, Goto, Fail, Throw, Finish
  <2> QED BY <1>2, <2>1 DEF WordInv, WordAt
<1> QED BY <1>3, <1>4, <1>5, <1>6

WordsInv == TypeInv /\ OpenInv /\ AloneInv /\ WordInv

LEMMA StepWords == Prompt /\ WordsInv /\ [Next]_vars => WordsInv'
<1> SUFFICES ASSUME Prompt, WordsInv, [Next]_vars PROVE WordsInv'
  OBVIOUS
<1>1. TypeInv' /\ OpenInv'
  BY NextType, StepOpen DEF WordsInv
<1>2. CASE Next
  <2>1. OpenMoves /\ AloneInv'
    BY <1>2, NextOpens, StepAlone DEF WordsInv
  <2>2. ~\E r \in Run : TimeOut(r)
    BY DEF Prompt, TimeOut
  <2>3. CASE QueueServes \/ EnqueueStep \/ RequestStep \/ Crash
    BY <1>1, <2>1, <2>3, OthersKeepWord DEF WordsInv
  <2>4. CASE \E x \in Exec : HandlerStep(x) \/ StatementFails(x)
    BY <1>1, <2>1, <2>4, HandlerKeepsWord DEF WordsInv
  <2> QED BY <1>2, <2>2, <2>3, <2>4 DEF Next, WorkerStep, FaultStep
<1>3. CASE UNCHANGED vars
  <2>1. AloneInv'
    BY <1>3 DEF vars, dbVars, xVars, qVars, panelVars, WordsInv, AloneInv, Busy, RunX
  <2>2. WordInv'
    BY <1>3 DEF vars, dbVars, xVars, qVars, panelVars, WordsInv, WordInv, WordAt, Told, Item,
       BriefX, RunX, Exists
  <2> QED BY <1>1, <2>1, <2>2 DEF WordsInv
<1> QED BY <1>2, <1>3

LEMMA AlwaysWords == Prompt => (Spec => []WordsInv)
<1> SUFFICES ASSUME Prompt PROVE Spec => []WordsInv
  OBVIOUS
<1>1. Init => WordsInv
  <2> SUFFICES ASSUME Init PROVE AloneInv /\ WordInv
    BY InitType, InitOpen DEF WordsInv
  <2>1. held = {} /\ \A x \in Exec : pc[x] = "off"
    BY DEF Init
  <2> QED BY <2>1 DEF AloneInv, WordInv, WordAt, Busy
<1>2. WordsInv /\ [Next]_vars => WordsInv'
  BY StepWords
<1> QED BY <1>1, <1>2, PTL DEF Spec

\* When a run is reported as a success, the brief it generated, unless it
\* was deleted meanwhile, is delivered with a post of this very run: the
\* handler updates the brief before it counts (brief-generate.ts), and only
\* an item it recorded itself can make its count a success.  Crashes and
\* failing statements do not break this; a handler that outlives its
\* delivery or a request that acts on an old answer would.
THEOREM SuccessMeansDeliveredHolds == Prompt => (Spec => SuccessMeansDelivered)
<1> SUFFICES ASSUME Prompt PROVE Spec => SuccessMeansDelivered
  OBVIOUS
<1>1. ASSUME WordsInv, Next, NEW r \in Run, NEW b, b = run[r].brief,
             run[r].status = "running", run'[r].status = "success", Exists(b)
      PROVE  brief[b].status \in Delivered /\ RunX(brief[b].post) = r
  <2>1. ~RunsStay
    BY <1>1 DEF RunsStay
  <2>2. TypeInv /\ WordInv
    BY <1>1 DEF WordsInv
  <2>3. PICK x \in Exec : Close(x)
    <3>1. ~(QueueServes \/ EnqueueStep \/ RequestStep \/ Crash \/ \E t \in Run : TimeOut(t))
      BY <2>1, <2>2, OthersQuiet
    <3>2. PICK x \in Exec : HandlerStep(x) \/ StatementFails(x)
      BY <1>1, <3>1 DEF Next, WorkerStep, FaultStep
    <3>3. Record(x) \/ Count(x) \/ Close(x)
      BY <2>1, <2>2, <3>2, HandlerQuiet DEF HandlerStep
    <3>4. run' # run
      BY <1>1
    <3> QED BY <3>3, <3>4 DEF Record, Count, dbVars
  <2>4. pc[x] = "close" /\ mem[x].verdict = "success" /\ r = RunX(x)
    <3>1. run \in [Run -> RunRow] /\ RunX(x) \in Run
      BY <2>2, ExecParts DEF TypeInv, TypeOK
    <3>2. CloseRun(RunX(x), mem[x].verdict, "items") /\ pc[x] = "close"
      BY <1>1, <2>3 DEF Close
    <3> QED BY <1>1, <3>1, <3>2 DEF CloseRun, RunRow
  <2>5. Told(x)
    BY <2>2, <2>4 DEF WordInv, WordAt
  <2> QED BY <1>1, <2>4, <2>5 DEF Told, BriefX
<1>2. ASSUME WordsInv, [Next]_vars
      PROVE  [\A r \in Run :
                LET b == run[r].brief IN
                run[r].status = "running" /\ run'[r].status = "success" /\ Exists(b) =>
                  /\ brief[b].status \in Delivered
                  /\ RunX(brief[b].post) = r]_run
  BY <1>1, <1>2 DEF vars
<1> QED BY <1>2, AlwaysWords, PTL DEF Spec, SuccessMeansDelivered

-----------------------------------------------------------------------------
(* Elements by their rank.                                                 *)

\* Where sets grow with their owners and no two are the same, there is an owner
\* of each size.
LEMMA RanksAreTaken ==
  ASSUME NEW I, IsFiniteSet(I), NEW below \in [I -> SUBSET I],
         \A x \in I : x \in below[x],
         \A x, y \in I : x # y => /\ below[x] # below[y]
                                  /\ below[x] \subseteq below[y] \/ below[y] \subseteq below[x],
         NEW k \in 1 .. Cardinality(I)
  PROVE  \E x \in I : Cardinality(below[x]) = k
<1> DEFINE rank == [x \in I |-> Cardinality(below[x])]
<1> DEFINE N == 1 .. Cardinality(I)
<1>1. Cardinality(I) \in Nat
  BY FS_CardinalityType
<1>2. \A x \in I : IsFiniteSet(below[x]) /\ Cardinality(below[x]) \in N
  <2> SUFFICES ASSUME NEW x \in I PROVE IsFiniteSet(below[x]) /\ Cardinality(below[x]) \in N
    OBVIOUS
  <2>1. IsFiniteSet(below[x]) /\ Cardinality(below[x]) <= Cardinality(I)
    BY FS_Subset
  <2>2. Cardinality(below[x]) \in Nat /\ Cardinality(below[x]) # 0
    BY <2>1, FS_CardinalityType, FS_EmptySet
  <2> QED BY <1>1, <2>1, <2>2
<1>3. \A x, y \in I : x # y => Cardinality(below[x]) # Cardinality(below[y])
  <2> SUFFICES ASSUME NEW x \in I, NEW y \in I, x # y, below[x] \subseteq below[y]
               PROVE  Cardinality(below[x]) # Cardinality(below[y])
    OBVIOUS
  <2>1. Cardinality(below[y]) = Cardinality(below[x]) => below[y] = below[x]
    BY <1>2, FS_Subset
  <2> QED BY <2>1
<1>4. rank \in Injection(I, N)
  BY <1>2, <1>3 DEF Injection, IsInjective
<1>5. IsFiniteSet(N) /\ Cardinality(N) = Cardinality(I)
  BY <1>1, FS_Interval
<1>6. rank \in Surjection(I, N)
  BY <1>4, <1>5, FS_Injection
<1> QED BY <1>6 DEF Surjection

InOrder(s, I) ==
  [k \in 1 .. Cardinality(I) |-> s[CHOOSE i \in I : Cardinality({j \in I : j <= i}) = k]]

\* The elements are those at some places that go up.
LEMMA InOrderPicks ==
  ASSUME NEW n \in Nat, NEW I \in SUBSET (1 .. n)
  PROVE  /\ Cardinality(I) \in Nat
         /\ \E f \in [1 .. Cardinality(I) -> I] :
              /\ \A k, l \in 1 .. Cardinality(I) : k < l => f[k] < f[l]
              /\ \A s : InOrder(s, I) = [k \in 1 .. Cardinality(I) |-> s[f[k]]]
<1> DEFINE below == [i \in I |-> {j \in I : j <= i}]
<1> DEFINE f == [k \in 1 .. Cardinality(I) |-> CHOOSE i \in I : Cardinality({j \in I : j <= i}) = k]
<1>a. \A i \in I : i \in Nat
  OBVIOUS
<1>0. IsFiniteSet(1 .. n)
  BY FS_Interval
<1>1. IsFiniteSet(I) /\ Cardinality(I) \in Nat
  BY <1>0, FS_Subset, FS_CardinalityType
<1>2. \A k \in 1 .. Cardinality(I) : \E i \in I : Cardinality(below[i]) = k
  <2>1. below \in [I -> SUBSET I] /\ (\A x \in I : x \in below[x])
    OBVIOUS
  <2>2. \A x, y \in I : x # y => /\ below[x] # below[y]
                                 /\ below[x] \subseteq below[y] \/ below[y] \subseteq below[x]
    <3> SUFFICES ASSUME NEW x \in I, NEW y \in I, x < y
                 PROVE  below[x] # below[y] /\ below[x] \subseteq below[y]
      OBVIOUS
    <3>1. y \in below[y] /\ y \notin below[x]
      OBVIOUS
    <3>2. \A j \in I : j <= x => j <= y
      OBVIOUS
    <3> QED BY <3>1, <3>2
  <2> HIDE DEF below
  <2> QED BY <1>1, <2>1, <2>2, RanksAreTaken
<1>3. \A k \in 1 .. Cardinality(I) : f[k] \in I /\ Cardinality(below[f[k]]) = k
  BY <1>2
<1>4. \A k, l \in 1 .. Cardinality(I) : k < l => f[k] < f[l]
  <2> SUFFICES ASSUME NEW k \in 1 .. Cardinality(I), NEW l \in 1 .. Cardinality(I), k < l,
                      ~ (f[k] < f[l])
               PROVE  FALSE
    OBVIOUS
  <2>0. f[k] \in I /\ f[l] \in I
    BY <1>3
  <2>1. f[k] \in Nat /\ f[l] \in Nat
    <3> HIDE DEF f
    <3> QED BY <2>0, <1>a
  <2> DEFINE K == below[f[k]]
             L == below[f[l]]
  <2>2. L \in SUBSET K /\ K \in SUBSET I
    <3> HIDE DEF f
    <3>1. f[l] <= f[k]
      BY <2>1
    <3>2. K = {j \in I : j <= f[k]} /\ L = {j \in I : j <= f[l]}
      BY <2>0
    <3>3. \A j \in I : j <= f[l] => j <= f[k]
      BY <1>a, <2>1, <3>1
    <3> QED BY <3>2, <3>3
  <2>3. Cardinality(K) = k /\ Cardinality(L) = l
    BY <1>3
  <2> HIDE DEF K, L
  <2>4. Cardinality(L) <= Cardinality(K)
    BY <1>1, <2>2, FS_Subset
  <2> QED BY <2>3, <2>4
<1>5. f \in [1 .. Cardinality(I) -> I]
  BY <1>3
<1>6. \A s : InOrder(s, I) = [k \in 1 .. Cardinality(I) |-> s[f[k]]]
  BY DEF InOrder
<1> QED BY <1>1, <1>4, <1>5, <1>6

LEMMA InOrderIsSeq ==
  ASSUME NEW S, NEW s \in Seq(S), NEW I \in SUBSET DOMAIN s
  PROVE  /\ InOrder(s, I) \in Seq(S)
         /\ DOMAIN InOrder(s, I) = 1 .. Len(InOrder(s, I))
         /\ \A k \in DOMAIN InOrder(s, I) : \E i \in I : InOrder(s, I)[k] = s[i]
<1>1. Len(s) \in Nat /\ DOMAIN s = 1 .. Len(s) /\ I \in SUBSET (1 .. Len(s))
  OBVIOUS
<1>2. Cardinality(I) \in Nat
  BY <1>1, InOrderPicks
<1>3. PICK f \in [1 .. Cardinality(I) -> I] :
        \A t : InOrder(t, I) = [k \in 1 .. Cardinality(I) |-> t[f[k]]]
  BY <1>1, InOrderPicks
<1>4. InOrder(s, I) = [k \in 1 .. Cardinality(I) |-> s[f[k]]]
  BY <1>3
<1> QED BY <1>1, <1>2, <1>4

-----------------------------------------------------------------------------
(* What the proof speaks of: a discovery knows what the earlier ones found, *)
(* and the guard let no two briefs through that are near.                   *)

DiscStep == {"idle", "search", "keep"}
CoverTypes ==
  /\ disc.pc \in DiscStep /\ disc.kept \in Seq(T!Candidate)
  /\ DOMAIN disc = {"pc", "known", "kept", "told"}
  /\ cycles \in Nat
  /\ status \in [Brief -> {"none", "queued", "generating", "ready", "failed", "deleted"}]
  /\ DOMAIN subject = Brief
  /\ generation \in [Brief -> {"idle", "guard", "write"}]

EarlierIsKnown ==
  disc.pc = "search" => \A r \in rows : r.topic = {} \/ r.topic \in disc.known

LetThrough(b) == generation[b] = "write" \/ status[b] = "ready"

Marked == \A b \in Brief : generation[b] # "idle" => status[b] = "generating"
LetThroughAreApart == \A b, c \in Brief : b # c /\ LetThrough(b) /\ LetThrough(c) => ~ Near(subject[b], subject[c])

CoverInv ==
  CoverTypes /\ EarlierIsKnown /\ Marked /\ LetThroughAreApart /\ FoundOnce /\ VerdictsFollow

LEMMA TopicSizesAgree == ASSUME NEW S PROVE T!Cardinality(S) = Cardinality(S)
BY DEF T!Cardinality, Cardinality
LEMMA NearAgrees == ASSUME NEW s, NEW t PROVE T!Near(s, t) <=> Near(s, t)
BY TopicSizesAgree DEF T!Near, Near
LEMMA NearIsMutual == \A s, t : Near(s, t) = Near(t, s)
<1> SUFFICES ASSUME NEW s, NEW t PROVE Near(s, t) = Near(t, s)
  OBVIOUS
<1>1. s \cap t = t \cap s /\ s \cup t = t \cup s
  OBVIOUS
<1> QED BY <1>1 DEF Near
LEMMA NothingIsNear == \A s : ~ Near(s, {})
BY DEF Near

LEMMA TopicOrderAgrees == ASSUME NEW s, NEW I PROVE T!InOrder(s, I) = InOrder(s, I)
BY DEF T!InOrder, InOrder, T!Cardinality, Cardinality

\* What is kept of an answer is of it, near nothing known, and not covered.
LEMMA KeptIsNew ==
  ASSUME T!TopicsAssumption, NEW answer \in T!Answers, NEW known,
         NEW covered \in SUBSET DOMAIN T!Uncertain(T!Normalized(answer), known),
         NEW kept, kept = T!Kept(T!Normalized(answer), known, covered)
  PROVE  /\ kept \in Seq(T!Candidate)
         /\ \A i \in DOMAIN kept : ~ T!IsNear(kept[i].topic, known)
         /\ \A i \in DOMAIN kept : kept[i] \notin T!Dropped(T!Normalized(answer), known, covered)
<1> DEFINE Found == T!Candidate
<1>1. answer \in Seq(Found)
  BY DEF T!Answers, T!TopicsAssumption
<1>2. T!Normalized(answer) \in Seq(Found)
  BY <1>1, InOrderIsSeq, TopicOrderAgrees DEF T!Normalized
<1> DEFINE found == T!Normalized(answer)
<1> HIDE DEF found, Found
<1>3. T!Grounded(found) \in Seq(Found)
  BY <1>2, InOrderIsSeq, TopicOrderAgrees DEF T!Grounded, found
<1> DEFINE after == T!AfterDeterministic(found, known)
<1>4. after \in Seq(Found) /\ \A i \in DOMAIN after : ~ T!IsNear(after[i].topic, known)
  <2> DEFINE s == T!Grounded(found)
             I == {i \in DOMAIN s : ~ T!IsNear(s[i].topic, known)}
  <2>1. after = InOrder(s, I)
    BY TopicOrderAgrees DEF T!AfterDeterministic
  <2>2. I \in SUBSET DOMAIN s /\ s \in Seq(Found) /\ \A i \in I : ~ T!IsNear(s[i].topic, known)
    BY <1>3
  <2> HIDE DEF s, I, after
  <2> QED BY <2>1, <2>2, InOrderIsSeq
<1> DEFINE D == T!Dropped(found, known, covered)
           J == {i \in DOMAIN after : after[i] \notin D}
           left == InOrder(after, J)
<1>5. left \in Seq(Found) /\ DOMAIN left = 1 .. Len(left)
      /\ \A k \in DOMAIN left : \E i \in J : left[k] = after[i]
  <2>1. J \in SUBSET DOMAIN after
    OBVIOUS
  <2> HIDE DEF after, J
  <2> QED BY <1>4, <2>1, InOrderIsSeq
<1> DEFINE n == IF Len(left) < PerCycle THEN Len(left) ELSE PerCycle
<1>6. kept = SubSeq(left, 1, n)
  BY TopicOrderAgrees DEF T!Kept, found
<1>7. \A i \in J : ~ T!IsNear(after[i].topic, known) /\ after[i] \notin D
  BY <1>4
<1>8. n \in Nat /\ n <= Len(left)
  <2> HIDE DEF left
  <2> QED BY <1>5 DEF T!TopicsAssumption
<1>9. kept \in Seq(Found) /\ DOMAIN kept = 1 .. n /\ \A i \in 1 .. n : kept[i] = left[i] /\ i \in DOMAIN left
  <2> HIDE DEF left, n
  <2> QED BY <1>5, <1>6, <1>8
<1> HIDE DEF left, n, J, D, after
<1>10. \A i \in DOMAIN kept : \E j \in J : kept[i] = after[j]
  BY <1>5, <1>9
<1>11. \A i \in DOMAIN kept : ~ T!IsNear(kept[i].topic, known) /\ kept[i] \notin D
  BY <1>7, <1>10
<1> QED BY <1>9, <1>11 DEF D, Found, found

LEMMA InitCover == T!Init => CoverInv
BY DEF T!Init, CoverInv, CoverTypes, DiscStep, EarlierIsKnown, Marked, LetThroughAreApart, LetThrough, FoundOnce,
       VerdictsFollow, T!NotDiscovering, T!NoTopic

LEMMA DiscoverCover == T!TopicsAssumption /\ CoverInv /\ T!Discover => CoverInv'
<1> SUFFICES ASSUME T!TopicsAssumption, CoverInv, T!Discover PROVE CoverInv'
  OBVIOUS
<1> USE DEF CoverInv
<1>1. PICK answer \in T!Answers :
        \E covered \in SUBSET DOMAIN T!Uncertain(T!Normalized(answer), disc.known) :
          /\ disc' = [disc EXCEPT !.pc = "keep",
                        !.kept = T!Kept(T!Normalized(answer), disc.known, covered),
                        !.told = {T!Uncertain(T!Normalized(answer), disc.known)[i] : i \in covered},
                        !.known = {}]
          /\ rows' = rows \cup {[topic |-> t, cycle |-> cycles] :
                          t \in T!Discarded(T!Normalized(answer), disc.known, covered)}
  BY DEF T!Discover
<1>2. PICK covered \in SUBSET DOMAIN T!Uncertain(T!Normalized(answer), disc.known) :
          /\ disc' = [disc EXCEPT !.pc = "keep",
                        !.kept = T!Kept(T!Normalized(answer), disc.known, covered),
                        !.told = {T!Uncertain(T!Normalized(answer), disc.known)[i] : i \in covered},
                        !.known = {}]
          /\ rows' = rows \cup {[topic |-> t, cycle |-> cycles] :
                          t \in T!Discarded(T!Normalized(answer), disc.known, covered)}
  BY <1>1
<1> DEFINE kept == T!Kept(T!Normalized(answer), disc.known, covered)
           dropped == T!Dropped(T!Normalized(answer), disc.known, covered)
<1>3. /\ kept \in Seq(T!Candidate)
      /\ \A i \in DOMAIN kept : ~ T!IsNear(kept[i].topic, disc.known)
      /\ \A i \in DOMAIN kept : kept[i] \notin dropped
  BY KeptIsNew
<1>4. disc.pc = "search" /\ UNCHANGED <<status, subject, titles, generation, cycles, again>>
  BY DEF T!Discover
<1>5. /\ disc'.pc = "keep" /\ disc'.kept = kept /\ disc'.told = dropped
      /\ DOMAIN disc' = {"pc", "known", "kept", "told"}
  BY <1>2 DEF CoverTypes, T!Dropped
<1> HIDE DEF kept, dropped
<1>6. CoverTypes'
  BY <1>3, <1>4, <1>5 DEF CoverTypes, DiscStep
<1>7. EarlierIsKnown'
  BY <1>5 DEF EarlierIsKnown
<1>8. Marked' /\ LetThroughAreApart'
  BY <1>4 DEF Marked, LetThroughAreApart, LetThrough
<1>9. FoundOnce'
  <2> SUFFICES ASSUME NEW i \in DOMAIN kept, NEW r \in rows', r.cycle < cycles
               PROVE  ~ Near(kept[i].topic, r.topic)
    BY <1>4, <1>5 DEF FoundOnce
  <2>1. r \in rows
    BY <1>2 DEF CoverTypes
  <2>2. r.topic = {} \/ r.topic \in disc.known
    BY <1>4, <2>1 DEF EarlierIsKnown
  <2> QED BY <1>3, <2>2, NearAgrees, NothingIsNear DEF T!IsNear
<1>10. VerdictsFollow'
  BY <1>3, <1>5 DEF VerdictsFollow
<1> QED BY <1>6, <1>7, <1>8, <1>9, <1>10

LEMMA RestCover == CoverInv /\ [T!Next]_(T!vars) /\ ~ T!Discover => CoverInv'
<1> SUFFICES ASSUME CoverInv, [T!Next]_(T!vars), ~ T!Discover PROVE CoverInv'
  OBVIOUS
<1> USE DEF CoverInv
<1>1. CASE T!ReadInventory
  <2>1. PICK onSite : disc' = [T!NotDiscovering EXCEPT !.pc = "search", !.known = T!Inventory(onSite)]
    BY <1>1 DEF T!ReadInventory
  <2>2. /\ disc'.pc = "search" /\ disc'.kept = <<>> /\ disc'.known = T!Inventory(onSite)
        /\ DOMAIN disc' = {"pc", "known", "kept", "told"}
    BY <2>1 DEF T!NotDiscovering
  <2>3. cycles' = cycles + 1 /\ UNCHANGED <<status, subject, titles, rows, generation, again>>
    BY <1>1 DEF T!ReadInventory
  <2>4. CoverTypes'
    BY <2>2, <2>3 DEF CoverTypes, DiscStep
  <2>5. EarlierIsKnown'
    BY <2>2, <2>3 DEF EarlierIsKnown, T!Inventory, T!NoTopic
  <2>6. Marked' /\ LetThroughAreApart' /\ FoundOnce' /\ VerdictsFollow'
    BY <2>2, <2>3 DEF Marked, LetThroughAreApart, LetThrough, FoundOnce, VerdictsFollow
  <2> QED BY <2>4, <2>5, <2>6
<1>2. CASE T!DiscoveryFails \/ T!EndDiscovery
  <2>1. disc' = T!NotDiscovering /\ UNCHANGED <<status, subject, titles, rows, generation, cycles, again>>
    BY <1>2 DEF T!DiscoveryFails, T!EndDiscovery
  <2>2. /\ disc'.pc = "idle" /\ disc'.kept = <<>>
        /\ DOMAIN disc' = {"pc", "known", "kept", "told"}
    BY <2>1 DEF T!NotDiscovering
  <2> QED BY <2>1, <2>2 DEF CoverTypes, DiscStep, EarlierIsKnown, Marked, LetThroughAreApart, LetThrough, FoundOnce,
                            VerdictsFollow
<1>3. ASSUME NEW b \in Brief, T!KeepTopic(b) PROVE CoverInv'
  <2>1. /\ disc.pc = "keep" /\ disc.kept # <<>> /\ status[b] = "none"
        /\ subject' = [subject EXCEPT ![b] = Head(disc.kept).topic]
        /\ status' = [status EXCEPT ![b] = "queued"]
        /\ rows' = rows \cup {[topic |-> Head(disc.kept).topic, cycle |-> cycles]}
        /\ disc' = [disc EXCEPT !.kept = Tail(@), !.told = {}]
        /\ UNCHANGED <<titles, generation, cycles, again>>
    BY <1>3 DEF T!KeepTopic
  <2>2. /\ disc'.pc = "keep" /\ disc'.kept = Tail(disc.kept) /\ disc'.told = {}
        /\ DOMAIN disc' = {"pc", "known", "kept", "told"}
    BY <2>1 DEF CoverTypes
  <2>3. /\ Tail(disc.kept) \in Seq(T!Candidate)
        /\ \A i \in DOMAIN Tail(disc.kept) : i + 1 \in DOMAIN disc.kept /\ Tail(disc.kept)[i] = disc.kept[i + 1]
    BY <2>1 DEF CoverTypes
  <2>4. CoverTypes'
    BY <2>1, <2>2, <2>3 DEF CoverTypes, DiscStep
  <2>5. Marked'
    BY <2>1 DEF Marked, CoverTypes
  <2>6. LetThroughAreApart'
    BY <2>1 DEF LetThroughAreApart, LetThrough, CoverTypes, Marked
  <2>7. FoundOnce'
    <3> SUFFICES ASSUME NEW i \in DOMAIN Tail(disc.kept), NEW r \in rows', r.cycle < cycles
                 PROVE  ~ Near(Tail(disc.kept)[i].topic, r.topic)
      BY <2>1, <2>2 DEF FoundOnce
    <3>1. r \in rows
      BY <2>1 DEF CoverTypes
    <3> QED BY <2>3, <3>1 DEF FoundOnce
  <2> QED BY <2>2, <2>4, <2>5, <2>6, <2>7 DEF EarlierIsKnown, VerdictsFollow
<1>4. ASSUME NEW b \in Brief, T!CreateBrief(b) \/ T!Regenerate(b) \/ T!DeleteBrief(b) \/ T!MarkGenerating(b)
      PROVE  CoverInv'
  <2>1. /\ UNCHANGED <<rows, disc, cycles>>
        /\ status[b] \notin {"generating"}
        /\ \E s \in {"queued", "generating", "deleted"} : status' = [status EXCEPT ![b] = s]
        /\ DOMAIN subject' = DOMAIN subject /\ \A c \in Brief \ {b} : subject'[c] = subject[c]
        /\ \/ generation' = generation
           \/ status'[b] = "generating" /\ generation' = [generation EXCEPT ![b] = "guard"]
    <3>1. CASE T!CreateBrief(b)
      BY <3>1 DEF T!CreateBrief, CoverTypes
    <3>2. CASE T!Regenerate(b)
      BY <3>2 DEF T!Regenerate, CoverTypes
    <3>3. CASE T!DeleteBrief(b)
      BY <3>3 DEF T!DeleteBrief, CoverTypes
    <3>4. CASE T!MarkGenerating(b)
      BY <3>4 DEF T!MarkGenerating, T!Goto, CoverTypes
    <3> QED BY <1>4, <3>1, <3>2, <3>3, <3>4
  <2>2. CoverTypes'
    BY <2>1 DEF CoverTypes
  <2>3. Marked'
    BY <2>1 DEF Marked, CoverTypes
  <2>4. LetThroughAreApart'
    BY <2>1, <2>3 DEF LetThroughAreApart, LetThrough, CoverTypes, Marked
  <2> QED BY <2>1, <2>2, <2>3, <2>4 DEF EarlierIsKnown, FoundOnce, VerdictsFollow
<1>5. ASSUME NEW b \in Brief, T!Guard(b) PROVE CoverInv'
  <2>1. generation[b] = "guard" /\ UNCHANGED <<subject, titles, rows, disc, cycles, again>>
    BY <1>5 DEF T!Guard
  <2>2. PICK onSite : LET known == onSite \cup T!Covers(b) IN
          \/ status' = [status EXCEPT ![b] = "failed"] /\ T!Goto(b, "idle")
          \/ ~ T!IsNear(subject[b], known) /\ T!Goto(b, "write") /\ UNCHANGED status
    BY <1>5 DEF T!Guard
  <2>3. CASE status' = [status EXCEPT ![b] = "failed"] /\ T!Goto(b, "idle")
    BY <2>1, <2>3 DEF T!Goto, CoverTypes, EarlierIsKnown, Marked, LetThroughAreApart, LetThrough, FoundOnce, VerdictsFollow
  <2>4. CASE ~ T!IsNear(subject[b], onSite \cup T!Covers(b)) /\ T!Goto(b, "write") /\ UNCHANGED status
    <3>1. generation' = [generation EXCEPT ![b] = "write"]
      BY <2>4 DEF T!Goto
    <3>2. \A c \in Brief : c # b /\ LetThrough(c) => ~ Near(subject[b], subject[c])
      BY <2>4, NearAgrees DEF T!IsNear, T!Covers, T!Covering, LetThrough, Marked
    <3>3. LetThroughAreApart'
      BY <2>1, <2>4, <3>1, <3>2, NearIsMutual DEF LetThroughAreApart, LetThrough, CoverTypes
    <3> QED BY <2>1, <2>4, <3>1, <3>3 DEF CoverTypes, EarlierIsKnown, Marked, FoundOnce, VerdictsFollow
  <2> QED BY <2>2, <2>3, <2>4
<1>6. ASSUME NEW b \in Brief, T!Write(b) PROVE CoverInv'
  <2>1. /\ generation[b] = "write" /\ UNCHANGED <<subject, rows, disc, cycles, again>>
        /\ \E s \in {"ready", "failed"} : status' = [status EXCEPT ![b] = s]
        /\ generation' = [generation EXCEPT ![b] = "idle"]
    BY <1>6 DEF T!Write, T!Goto
  <2>2. LetThroughAreApart'
    BY <2>1 DEF LetThroughAreApart, LetThrough, CoverTypes
  <2> QED BY <2>1, <2>2 DEF CoverTypes, EarlierIsKnown, Marked, FoundOnce, VerdictsFollow
<1>7. CASE UNCHANGED T!vars
  BY <1>7 DEF T!vars, CoverTypes, EarlierIsKnown, Marked, LetThroughAreApart, LetThrough, FoundOnce, VerdictsFollow
<1> QED BY <1>1, <1>2, <1>3, <1>4, <1>5, <1>6, <1>7 DEF T!Next

\* No topic is covered twice, whatever the briefs, the titles of the site and
\* the answers of the models: no two briefs are ready of topics that are near
\* one another, no discovery keeps what an earlier one found, and none keeps
\* what the model called covered, at whatever position of the list it was sent.
\* The generations of two briefs that overlap are kept apart because each is
\* among the statuses the other's guard takes for covered (topic-guard.ts).
THEOREM TopicsStayApartHolds == T!TopicsAssumption => (T!Spec => []TopicsStayApart)
<1> SUFFICES ASSUME T!TopicsAssumption PROVE T!Spec => []TopicsStayApart
  OBVIOUS
<1>1. CoverInv /\ [T!Next]_(T!vars) => CoverInv'
  BY DiscoverCover, RestCover
<1>2. CoverInv => TopicsStayApart
  BY DEF CoverInv, TopicsStayApart, OnePostOfATopic, LetThroughAreApart, LetThrough, CoverTypes
<1> QED BY InitCover, <1>1, <1>2, PTL DEF T!Spec

-----------------------------------------------------------------------------
(* The pictures of an article: the lists of candidates.                    *)

LEMMA PictureSizesAgree == ASSUME NEW S PROVE C!Cardinality(S) = Cardinality(S)
BY DEF C!Cardinality, Cardinality
LEMMA PictureOrderAgrees == ASSUME NEW s, NEW I PROVE C!InOrder(s, I) = InOrder(s, I)
BY DEF C!InOrder, InOrder, C!Cardinality, Cardinality
LEMMA GoodAgrees == \A c, s : C!GoodEnough(c, s) = GoodEnough(c, s)
BY DEF C!GoodEnough, GoodEnough

Cand == [url : C!Url, by : {"source", "web", "open"}]

\* Every element of s is one of t.
TakenFrom(s, t) == \A i \in DOMAIN s : \E j \in DOMAIN t : s[i] = t[j]

LEMMA ExceptIs ==
  ASSUME NEW s \in Seq(Cand), NEW urls
  PROVE  /\ C!Except(s, urls) \in Seq(Cand)
         /\ TakenFrom(C!Except(s, urls), s)
         /\ \A i \in DOMAIN C!Except(s, urls) : C!Except(s, urls)[i].url \notin urls
<1> DEFINE I == {i \in DOMAIN s : s[i].url \notin urls}
<1>1. C!Except(s, urls) = InOrder(s, I)
  BY PictureOrderAgrees DEF C!Except
<1>2. I \in SUBSET DOMAIN s /\ \A i \in I : s[i].url \notin urls
  OBVIOUS
<1> HIDE DEF I
<1>3. InOrder(s, I) \in Seq(Cand)
  BY <1>2, InOrderIsSeq
<1>4. \A k \in DOMAIN InOrder(s, I) : \E i \in I : InOrder(s, I)[k] = s[i]
  BY <1>2, InOrderIsSeq
<1> QED BY <1>1, <1>2, <1>3, <1>4 DEF TakenFrom

LEMMA FirstOfIs ==
  ASSUME NEW S, NEW s \in Seq(S), NEW n \in Nat
  PROVE  /\ C!FirstOf(s, n) \in Seq(S)
         /\ DOMAIN C!FirstOf(s, n) \subseteq DOMAIN s
         /\ \A i \in DOMAIN C!FirstOf(s, n) : C!FirstOf(s, n)[i] = s[i]
         /\ s # <<>> /\ n # 0 => C!FirstOf(s, n) # <<>>
<1> DEFINE m == IF Len(s) < n THEN Len(s) ELSE n
<1>1. m \in Nat /\ m <= Len(s) /\ C!FirstOf(s, n) = SubSeq(s, 1, m)
  BY DEF C!FirstOf
<1>2. s # <<>> /\ n # 0 => m # 0
  OBVIOUS
<1> HIDE DEF m
<1>3. /\ SubSeq(s, 1, m) \in Seq(S) /\ DOMAIN SubSeq(s, 1, m) = 1 .. m
      /\ \A i \in 1 .. m : SubSeq(s, 1, m)[i] = s[i] /\ i \in DOMAIN s
  BY <1>1
<1> QED BY <1>1, <1>2, <1>3

LEMMA FoundIs ==
  ASSUME NEW urls \in Seq(C!Url), NEW by \in {"source", "web", "open"}
  PROVE  C!Found(by, urls) \in Seq(Cand)
<1>1. Len(urls) \in Nat /\ DOMAIN urls = 1 .. Len(urls) /\ \A i \in 1 .. Len(urls) : urls[i] \in C!Url
  OBVIOUS
<1>2. C!Found(by, urls) \in [1 .. Len(urls) -> Cand]
  BY <1>1 DEF C!Found, Cand
<1> QED BY <1>1, <1>2

LEMMA SubsequencesAre ==
  ASSUME NEW s \in Seq(C!Url), NEW t \in C!Subsequences(s)
  PROVE  t \in Seq(C!Url)
BY InOrderIsSeq, PictureOrderAgrees DEF C!Subsequences

LEMMA CombinedIs ==
  ASSUME NEW web \in Seq(C!Url), NEW open \in Seq(C!Url)
  PROVE  C!Combined(web, open) \in Seq(Cand)
<1>1. C!Found("web", web) \in Seq(Cand) /\ C!Found("open", open) \in Seq(Cand)
  BY FoundIs
<1>2. C!Except(C!Found("open", open), C!Elements(web)) \in Seq(Cand)
  BY <1>1, ExceptIs
<1> QED BY <1>1, <1>2 DEF C!Combined

\* The ranking only chooses: every title has a place of its own.
LEMMA RankedIs ==
  ASSUME C!CandidatesAssumption, NEW s \in Seq(Cand)
  PROVE  C!Ranked(s) \in Seq(Cand) /\ TakenFrom(C!Ranked(s), s)
<1> DEFINE better(i, j) == \/ Score[s[i].url] > Score[s[j].url]
                           \/ Score[s[i].url] = Score[s[j].url] /\ i <= j
           best(k) == CHOOSE i \in DOMAIN s : Cardinality({j \in DOMAIN s : better(j, i)}) = k
           I == DOMAIN s
           below == [i \in I |-> {j \in I : better(j, i)}]
<1>1. CASE Len(s) <= Keep
  BY <1>1 DEF C!Ranked, TakenFrom
<1>2. CASE ~ (Len(s) <= Keep)
  <2>1. C!Ranked(s) = [k \in 1 .. Keep |-> s[best(k)]]
    BY <1>2 DEF C!Ranked, C!Cardinality, Cardinality
  <2>2. Len(s) \in Nat /\ I = 1 .. Len(s) /\ Keep \in Nat /\ Keep < Len(s)
    BY <1>2 DEF C!CandidatesAssumption
  <2>3. IsFiniteSet(I) /\ Cardinality(I) = Len(s)
    BY <2>2, FS_Interval
  <2>4. \A i \in I : Score[s[i].url] \in Nat /\ i \in Nat
    <3> SUFFICES ASSUME NEW i \in I PROVE Score[s[i].url] \in Nat /\ i \in Nat
      OBVIOUS
    <3>1. s[i] \in Cand /\ i \in Nat
      BY <2>2
    <3>2. s[i].url \in C!Url
      BY <3>1 DEF Cand
    <3> HIDE DEF I
    <3> QED BY <3>1, <3>2 DEF C!CandidatesAssumption
  <2>5. \A i \in I : better(i, i)
    BY <2>4
  <2>6. \A i, j \in I : better(i, j) \/ better(j, i)
    BY <2>4
  <2>7. \A i, j \in I : better(i, j) /\ better(j, i) => i = j
    BY <2>4
  <2>8. \A i, j, k \in I : better(i, j) /\ better(j, k) => better(i, k)
    BY <2>4
  <2> HIDE DEF better
  <2>9. below \in [I -> SUBSET I] /\ \A x \in I : x \in below[x]
    BY <2>5
  <2>10. \A x, y \in I : x # y => /\ below[x] # below[y]
                                  /\ below[x] \subseteq below[y] \/ below[y] \subseteq below[x]
    <3> SUFFICES ASSUME NEW x \in I, NEW y \in I, x # y, better(x, y)
                 PROVE  below[x] # below[y] /\ below[x] \subseteq below[y]
      BY <2>6
    <3>1. y \in below[y] /\ y \notin below[x]
      BY <2>5, <2>7
    <3> QED BY <3>1, <2>8
  <2>11. \A k \in 1 .. Keep : \E i \in I : Cardinality(below[i]) = k
    <3> HIDE DEF below, I
    <3> SUFFICES ASSUME NEW k \in 1 .. Keep PROVE \E i \in I : Cardinality(below[i]) = k
      OBVIOUS
    <3>1. k \in 1 .. Cardinality(I)
      BY <2>2, <2>3
    <3> QED BY <2>3, <2>9, <2>10, <3>1, RanksAreTaken
  <2>12. \A k \in 1 .. Keep : best(k) \in I
    BY <2>11
  <2> HIDE DEF best
  <2> QED BY <2>1, <2>2, <2>12 DEF TakenFrom
<1> QED BY <1>1, <1>2

-----------------------------------------------------------------------------
(* The invariant                                                           *)

How == {"none", "made", "seen"}
Picture == [slot : Nat, url : C!Url \cup {"none"}, how : How, approved : C!Url \cup {"none"}]

Filling == picking \in {"search", "prepare", "look", "generate"}
Unused(s) == \A i \in DOMAIN s : s[i].url \notin used

PictureTypes ==
  /\ picking \in {"search", "prepare", "look", "generate", "cover", "inline"}
  /\ slot \in Nat
  /\ sources \in Seq(Cand) /\ pool \in Seq(Cand) /\ prepared \in Seq(Cand)
  /\ got \in Seq(Picture) /\ inline \in Seq(Picture)
  /\ trying \in Picture /\ cover \in Picture

\* The candidates of a slot are nobody else's, and good enough once prepared.
SlotInv ==
  Filling =>
    /\ Unused(pool) /\ Unused(prepared)
    /\ \A i \in DOMAIN prepared : GoodEnough(prepared[i], slot)
    /\ picking = "look" => prepared # <<>>
    /\ \A i \in DOMAIN got : got[i].slot < slot /\ (got[i].how = "seen" => got[i].url \in used)
    /\ trying = C!NoPicture /\ cover = C!NoPicture /\ inline = <<>>

Pictures == {cover, trying} \cup {inline[i] : i \in DOMAIN inline} \cup {got[i] : i \in DOMAIN got}

Judged(p) ==
  IF p.how = "seen" THEN /\ p.url # "none" /\ p.approved \in {p.url, "none"}
                         /\ GoodEnough(p, p.slot)
  ELSE p.url = "none"

\* Each picture is judged, and none is in two places.
PictureInv ==
  /\ \A p \in Pictures : Judged(p)
  /\ \A p, q \in Pictures : p # q /\ p.how = "seen" => p.url # q.url

Ascends(s) == \A i, j \in DOMAIN s : i < j => s[i].slot < s[j].slot
Precedes(p, s) == p = C!NoPicture \/ \A i \in DOMAIN s : p.slot < s[i].slot

\* They go to WordPress in the order of their slots, the cover first.
OrderInv ==
  /\ Ascends(got) /\ Ascends(inline)
  /\ Precedes(trying, got) /\ Precedes(cover, got) /\ Precedes(cover, inline)
  /\ \A i \in DOMAIN inline, j \in DOMAIN got : inline[i].slot < got[j].slot
  /\ picking = "cover" => cover = C!NoPicture /\ inline = <<>>
  /\ picking = "inline" => trying = C!NoPicture

GalleryInv == PictureTypes /\ SlotInv /\ PictureInv /\ OrderInv

LEMMA NoPictureIs ==
  C!CandidatesAssumption =>
    /\ C!NoPicture \in Picture /\ C!NoPicture.how = "none" /\ Judged(C!NoPicture)
BY DEF C!CandidatesAssumption, C!NoPicture, Picture, How, Judged

LEMMA InitGallery == C!CandidatesAssumption /\ C!Init => GalleryInv
<1> SUFFICES ASSUME C!CandidatesAssumption, C!Init PROVE GalleryInv
  OBVIOUS
<1>1. /\ picking = "search" /\ slot = 0 /\ pool = <<>> /\ prepared = <<>> /\ used = {} /\ got = <<>>
      /\ trying = C!NoPicture /\ cover = C!NoPicture /\ inline = <<>>
  BY DEF C!Init
<1>2. sources \in Seq(Cand)
  <2>1. PICK s \in C!Subsequences(Pages) : sources = C!Found("source", s)
    BY DEF C!Init
  <2> QED BY <2>1, SubsequencesAre, FoundIs DEF C!CandidatesAssumption
<1>3. PictureTypes
  BY <1>1, <1>2, NoPictureIs DEF PictureTypes
<1>4. Pictures = {C!NoPicture}
  BY <1>1 DEF Pictures
<1> QED BY <1>1, <1>3, <1>4, NoPictureIs
        DEF GalleryInv, SlotInv, PictureInv, OrderInv, Filling, Unused, Ascends, Precedes

-----------------------------------------------------------------------------
(* Its steps                                                               *)

\* Nothing of what was chosen changes.
NothingChosen == UNCHANGED <<side, sources, used, got, trying, cover, inline>>

LEMMA NothingChosenKeeps ==
  ASSUME GalleryInv, NothingChosen PROVE PictureInv' /\ (picking' \notin {"cover", "inline"} => OrderInv')
<1>1. Pictures' = Pictures
  BY DEF NothingChosen, Pictures
<1> QED BY <1>1 DEF NothingChosen, GalleryInv, PictureInv, OrderInv, Judged, GoodEnough, Ascends, Precedes

LEMMA SearchGallery == C!CandidatesAssumption /\ GalleryInv /\ C!Search => GalleryInv'
<1> SUFFICES ASSUME C!CandidatesAssumption, GalleryInv, C!Search PROVE GalleryInv'
  OBVIOUS
<1> DEFINE official == C!FirstOf(C!Fresh(sources), Official)
           others(web, open) == C!Except(C!Fresh(C!Combined(web, open)), C!Urls(official))
<1>1. PICK web \in C!Subsequences(Web), open \in C!Subsequences(Open) :
        pool' = official \o C!Ranked(others(web, open))
  BY DEF C!Search
<1>2. /\ picking = "search" /\ picking' = "prepare"
      /\ UNCHANGED <<side, sources, slot, prepared, retried, used, got, trying, cover, inline>>
  BY DEF C!Search, C!ready, C!uploads
<1>3. official \in Seq(Cand) /\ Unused(official)
  <2>1. C!Fresh(sources) \in Seq(Cand) /\ Unused(C!Fresh(sources))
    BY ExceptIs DEF GalleryInv, PictureTypes, C!Fresh, Unused
  <2>2. Official \in Nat
    BY DEF C!CandidatesAssumption
  <2>3. /\ C!FirstOf(C!Fresh(sources), Official) \in Seq(Cand)
        /\ DOMAIN C!FirstOf(C!Fresh(sources), Official) \subseteq DOMAIN C!Fresh(sources)
        /\ \A i \in DOMAIN C!FirstOf(C!Fresh(sources), Official) :
             C!FirstOf(C!Fresh(sources), Official)[i] = C!Fresh(sources)[i]
    BY <2>1, <2>2, FirstOfIs
  <2> QED BY <2>1, <2>3 DEF Unused
<1> DEFINE rest == others(web, open)
<1>4. rest \in Seq(Cand) /\ Unused(rest)
  <2>1. web \in Seq(C!Url) /\ open \in Seq(C!Url)
    BY SubsequencesAre DEF C!CandidatesAssumption
  <2>2. C!Combined(web, open) \in Seq(Cand)
    BY <2>1, CombinedIs
  <2>3. C!Fresh(C!Combined(web, open)) \in Seq(Cand) /\ Unused(C!Fresh(C!Combined(web, open)))
    BY <2>2, ExceptIs DEF C!Fresh, Unused
  <2>4. /\ rest \in Seq(Cand) /\ TakenFrom(rest, C!Fresh(C!Combined(web, open)))
    BY <2>3, ExceptIs
  <2> HIDE DEF rest
  <2> QED BY <2>3, <2>4 DEF Unused, TakenFrom
<1> HIDE DEF official, rest
<1>5. C!Ranked(rest) \in Seq(Cand) /\ Unused(C!Ranked(rest))
  <2>1. C!Ranked(rest) \in Seq(Cand) /\ TakenFrom(C!Ranked(rest), rest)
    BY <1>4, RankedIs
  <2> QED BY <1>4, <2>1 DEF Unused, TakenFrom
<1>6. pool' \in Seq(Cand) /\ Unused(pool')
  <2>1. pool' = official \o C!Ranked(rest)
    BY <1>1 DEF rest
  <2> DEFINE ranked == C!Ranked(rest)
  <2>2. ranked \in Seq(Cand) /\ Unused(ranked) /\ pool' = official \o ranked
    BY <1>5, <2>1
  <2> HIDE DEF ranked
  <2>3. \A i \in DOMAIN pool' : \/ i \in DOMAIN official /\ pool'[i] = official[i]
                                \/ i - Len(official) \in DOMAIN ranked /\ pool'[i] = ranked[i - Len(official)]
    BY <1>3, <2>2
  <2> QED BY <1>3, <2>2, <2>3 DEF Unused
<1>7. PictureTypes'
  BY <1>2, <1>6 DEF GalleryInv, PictureTypes
<1>8. SlotInv'
  BY <1>2, <1>6 DEF GalleryInv, SlotInv, Filling, Unused, GoodEnough
<1> QED BY <1>2, <1>7, <1>8, NothingChosenKeeps DEF NothingChosen, GalleryInv

LEMMA PrepareGallery == C!CandidatesAssumption /\ GalleryInv /\ C!Prepare => GalleryInv'
<1> SUFFICES ASSUME C!CandidatesAssumption, GalleryInv, C!Prepare PROVE GalleryInv'
  OBVIOUS
<1> DEFINE Good(failed) == {i \in DOMAIN pool : pool[i].url \notin failed /\ C!GoodEnough(pool[i], slot)}
<1>1. PICK failed \in SUBSET C!Urls(pool) :
        LET usable == InOrder(pool, Good(failed)) IN
        /\ prepared' = C!FirstOf(usable, MaxCandidates)
        /\ picking' = IF usable = <<>> THEN "generate" ELSE "look"
  BY PictureOrderAgrees DEF C!Prepare
<1> DEFINE I == Good(failed)
           usable == InOrder(pool, I)
<1>2. /\ picking = "prepare"
      /\ UNCHANGED <<side, sources, slot, pool, retried, used, got, trying, cover, inline>>
  BY DEF C!Prepare, C!ready, C!uploads
<1>3. I \in SUBSET DOMAIN pool /\ \A i \in I : GoodEnough(pool[i], slot)
  BY GoodAgrees
<1>4. /\ usable \in Seq(Cand)
      /\ \A k \in DOMAIN usable : \E i \in I : usable[k] = pool[i]
  <2> HIDE DEF I
  <2> QED BY <1>3, InOrderIsSeq DEF GalleryInv, PictureTypes
<1>5. prepared' = C!FirstOf(usable, MaxCandidates) /\ picking' = IF usable = <<>> THEN "generate" ELSE "look"
  BY <1>1
<1> HIDE DEF I, usable
<1>6. MaxCandidates \in Nat /\ MaxCandidates # 0
  BY DEF C!CandidatesAssumption
<1>7. /\ prepared' \in Seq(Cand) /\ DOMAIN prepared' \subseteq DOMAIN usable
      /\ \A k \in DOMAIN prepared' : prepared'[k] = usable[k]
      /\ usable # <<>> => prepared' # <<>>
  BY <1>4, <1>5, <1>6, FirstOfIs
<1>8. \A k \in DOMAIN prepared' : \E i \in I : prepared'[k] = pool[i]
  BY <1>4, <1>7
<1>9. PictureTypes'
  BY <1>2, <1>5, <1>7 DEF GalleryInv, PictureTypes
<1>10. SlotInv'
  BY <1>2, <1>3, <1>5, <1>7, <1>8 DEF GalleryInv, SlotInv, Filling, Unused, GoodEnough
<1> QED BY <1>2, <1>5, <1>9, <1>10, NothingChosenKeeps DEF NothingChosen, GalleryInv

LEMMA SlotsAreNumbers ==
  GalleryInv => slot \in Nat /\ \A i \in DOMAIN got : got[i].slot \in Nat
<1> SUFFICES ASSUME GalleryInv PROVE slot \in Nat /\ \A i \in DOMAIN got : got[i].slot \in Nat
  OBVIOUS
<1>1. slot \in Nat /\ \A i \in DOMAIN got : got[i] \in Picture
  BY DEF GalleryInv, PictureTypes
<1> QED BY <1>1 DEF Picture

\* A picture is added at its slot.
LEMMA AddKeeps ==
  ASSUME C!CandidatesAssumption, GalleryInv, Filling, NEW p \in Picture, p.slot = slot, Judged(p),
         p.how = "seen" => p.url \notin used /\ p.url \in used',
         used \subseteq used', got' = Append(got, p), C!NextSlot,
         UNCHANGED <<side, sources, trying, cover, inline>>
  PROVE  GalleryInv'
<1>1. got' \in Seq(Picture) /\ Len(got') = Len(got) + 1 /\ got'[Len(got')] = p
      /\ \A i \in DOMAIN got' : i # Len(got') => i \in DOMAIN got /\ got'[i] = got[i]
  BY DEF GalleryInv, PictureTypes
<1>2. /\ slot' = slot + 1 /\ picking' = "search" /\ pool' = <<>> /\ prepared' = <<>>
      /\ trying = C!NoPicture /\ cover = C!NoPicture /\ inline = <<>>
      /\ \A i \in DOMAIN got : got[i].slot < slot /\ (got[i].how = "seen" => got[i].url \in used)
  BY DEF C!NextSlot, GalleryInv, SlotInv
<1>3. PictureTypes'
  BY <1>1, <1>2 DEF GalleryInv, PictureTypes
<1>4. SlotInv'
  <2>1. slot \in Nat /\ \A i \in DOMAIN got : got[i].slot \in Nat
    BY SlotsAreNumbers
  <2>2. \A i \in DOMAIN got' : got'[i].slot < slot' /\ (got'[i].how = "seen" => got'[i].url \in used')
    <3> SUFFICES ASSUME NEW i \in DOMAIN got'
                 PROVE  got'[i].slot < slot' /\ (got'[i].how = "seen" => got'[i].url \in used')
      OBVIOUS
    <3>1. CASE i = Len(got')
      BY <1>1, <1>2, <2>1, <3>1
    <3>2. CASE i # Len(got')
      <4>1. i \in DOMAIN got /\ got'[i] = got[i]
        BY <1>1, <3>2
      <4> QED BY <1>2, <2>1, <4>1
    <3> QED BY <3>1, <3>2
  <2> QED BY <1>2, <2>2 DEF SlotInv, Filling, Unused
<1>5. PictureInv'
  <2>1. Pictures' \subseteq Pictures \cup {p}
    BY <1>1, <1>2 DEF Pictures
  <2>2. \A q \in Pictures : q.how = "seen" => q.url \in used
    BY <1>2, NoPictureIs DEF Pictures
  <2>3. \A q \in Pictures : q.how = "seen" => q.url # p.url
    <3> SUFFICES ASSUME NEW q \in Pictures, q.how = "seen", q.url = p.url PROVE FALSE
      OBVIOUS
    <3>1. q.url # "none" /\ q.url \in used
      BY <2>2 DEF GalleryInv, PictureInv, Judged
    <3>2. p.how = "seen"
      BY <3>1 DEF Judged
    <3> QED BY <3>1, <3>2
  <2>4. p.how = "seen" => \A q \in Pictures : p.url # q.url
    <3> SUFFICES ASSUME p.how = "seen", NEW q \in Pictures, p.url = q.url PROVE FALSE
      OBVIOUS
    <3>1. p.url # "none" /\ p.url \notin used
      BY DEF Judged
    <3>2. q.how # "seen"
      BY <2>2, <3>1
    <3> QED BY <3>1, <3>2 DEF GalleryInv, PictureInv, Judged
  <2> QED BY <2>1, <2>3, <2>4 DEF GalleryInv, PictureInv, Judged, GoodEnough
<1>6. OrderInv'
  BY <1>1, <1>2 DEF GalleryInv, OrderInv, Ascends, Precedes
<1> QED BY <1>3, <1>4, <1>5, <1>6 DEF GalleryInv

LEMMA TakeGallery ==
  ASSUME C!CandidatesAssumption, GalleryInv, picking = "look",
         NEW i \in DOMAIN prepared, NEW approved \in {prepared[i].url, "none"}, C!Take(i, approved)
  PROVE  GalleryInv'
<1> DEFINE p == [slot |-> slot, url |-> prepared[i].url, how |-> "seen", approved |-> approved]
<1>1. prepared[i] \in Cand /\ prepared[i].url \notin used /\ GoodEnough(prepared[i], slot)
  BY DEF GalleryInv, PictureTypes, SlotInv, Filling, Unused
<1>2. prepared[i].url \in C!Url /\ prepared[i].url # "none"
  BY <1>1 DEF Cand, C!CandidatesAssumption
<1>3. p \in Picture /\ p.slot = slot /\ p.how = "seen" /\ p.url = prepared[i].url /\ p.approved = approved
  BY <1>2 DEF GalleryInv, PictureTypes, Picture, How
<1>4. /\ got' = Append(got, p) /\ used' = used \cup {p.url} /\ C!NextSlot
      /\ UNCHANGED <<side, sources, trying, cover, inline>>
  BY DEF C!Take, C!Picked, C!ready, C!uploads
<1>5. GoodEnough(p, p.slot)
  BY <1>1, <1>3 DEF GoodEnough
<1> HIDE DEF p
<1>6. Judged(p)
  BY <1>2, <1>3, <1>5 DEF Judged
<1> QED BY <1>1, <1>3, <1>4, <1>6, AddKeeps DEF Filling

LEMMA LookGallery ==
  C!CandidatesAssumption /\ GalleryInv /\ (C!Approve \/ C!ApproveNothing) => GalleryInv'
<1> SUFFICES ASSUME C!CandidatesAssumption, GalleryInv, C!Approve \/ C!ApproveNothing PROVE GalleryInv'
  OBVIOUS
<1>1. picking = "look" /\ prepared # <<>> /\ prepared \in Seq(Cand)
  BY DEF C!Approve, C!ApproveNothing, GalleryInv, SlotInv, Filling, PictureTypes
<1>2. CASE C!Approve
  <2>1. PICK i \in DOMAIN C!Shown : C!Take(i, C!Shown[i].url)
    BY <1>2 DEF C!Approve
  <2>2. i \in DOMAIN prepared /\ C!Shown[i] = prepared[i]
    <3>1. CASE retried
      <4>1. Few \in Nat /\ C!Shown = C!FirstOf(prepared, Few)
        BY <3>1 DEF C!CandidatesAssumption, C!Shown
      <4> QED BY <1>1, <2>1, <4>1, FirstOfIs
    <3>2. CASE ~ retried
      BY <2>1, <3>2 DEF C!Shown
    <3> QED BY <3>1, <3>2
  <2> QED BY <1>1, <2>1, <2>2, TakeGallery
<1>3. CASE C!ApproveNothing
  <2>1. C!Take(1, "none") /\ 1 \in DOMAIN prepared
    BY <1>1, <1>3 DEF C!ApproveNothing
  <2> QED BY <1>1, <2>1, TakeGallery
<1> QED BY <1>2, <1>3

LEMMA PassGallery ==
  C!CandidatesAssumption /\ GalleryInv /\ (C!Reject \/ C!VisionFails \/ C!Generate) => GalleryInv'
<1> SUFFICES ASSUME C!CandidatesAssumption, GalleryInv, C!Reject \/ C!VisionFails \/ C!Generate
             PROVE  GalleryInv'
  OBVIOUS
<1>1. CASE C!Reject \/ C!VisionFails
  <2>1. /\ NothingChosen /\ UNCHANGED <<slot, pool, prepared>> /\ picking' \in {"look", "generate"} /\ picking = "look"
    BY <1>1 DEF C!Reject, C!VisionFails, C!ready, C!found, C!uploads, NothingChosen
  <2>2. PictureTypes'
    BY <2>1 DEF GalleryInv, PictureTypes, NothingChosen
  <2>3. SlotInv'
    BY <2>1 DEF GalleryInv, SlotInv, NothingChosen, Filling, Unused, GoodEnough
  <2> QED BY <2>1, <2>2, <2>3, NothingChosenKeeps DEF GalleryInv
<1>2. CASE C!Generate
  <2>1. picking = "generate" /\ C!NextSlot /\ UNCHANGED <<side, sources, used, trying, cover, inline>>
    BY <1>2 DEF C!Generate, C!ready, C!uploads
  <2>2. CASE got' = Append(got, C!Made(slot))
    <3> DEFINE p == C!Made(slot)
    <3>1. p \in Picture /\ p.slot = slot /\ p.how = "made" /\ p.url = "none"
      BY DEF C!Made, Picture, How, GalleryInv, PictureTypes
    <3> HIDE DEF p
    <3>2. Judged(p)
      BY <3>1 DEF Judged
    <3>3. got' = Append(got, p)
      BY <2>2 DEF p
    <3> QED BY <2>1, <3>1, <3>2, <3>3, AddKeeps DEF Filling
  <2>3. CASE got' = got
    <3>1. NothingChosen /\ picking' = "search" /\ slot' = slot + 1 /\ pool' = <<>> /\ prepared' = <<>>
      BY <2>1, <2>3 DEF NothingChosen, C!NextSlot
    <3>2. PictureTypes'
      BY <3>1 DEF GalleryInv, PictureTypes, NothingChosen
    <3>3. slot \in Nat /\ \A i \in DOMAIN got : got[i].slot \in Nat /\ got[i].slot < slot
      BY <2>1, SlotsAreNumbers DEF GalleryInv, SlotInv, Filling
    <3>4. \A i \in DOMAIN got : got[i].slot < slot + 1
      BY <3>3
    <3>5. SlotInv'
      BY <2>1, <3>1, <3>4 DEF GalleryInv, SlotInv, NothingChosen, Filling, Unused
    <3> QED BY <3>1, <3>2, <3>5, NothingChosenKeeps DEF GalleryInv
  <2> QED BY <1>2, <2>2, <2>3 DEF C!Generate
<1> QED BY <1>1, <1>2

LEMMA EndGallery == C!CandidatesAssumption /\ GalleryInv /\ C!EndFilling => GalleryInv'
<1> SUFFICES ASSUME C!CandidatesAssumption, GalleryInv, C!EndFilling PROVE GalleryInv'
  OBVIOUS
<1> DEFINE I == {i \in DOMAIN got : got[i].slot > 0}
<1>1. /\ picking \in {"search", "look"} /\ picking' = "cover"
      /\ trying' = IF got # <<>> /\ Head(got).slot = 0 THEN Head(got) ELSE C!NoPicture
      /\ got' = InOrder(got, I)
      /\ slot' = Inline + 1 /\ pool' = <<>> /\ prepared' = <<>>
      /\ UNCHANGED <<side, sources, cover, inline>>
  BY PictureOrderAgrees DEF C!EndFilling, C!ready
<1>2. got \in Seq(Picture) /\ Len(got) \in Nat /\ DOMAIN got = 1 .. Len(got) /\ Ascends(got)
      /\ cover = C!NoPicture /\ inline = <<>>
  BY <1>1 DEF GalleryInv, PictureTypes, OrderInv, SlotInv, Filling
<1>3. I \in SUBSET (1 .. Len(got)) /\ \A i \in I : got[i].slot > 0
  BY <1>2
<1> HIDE DEF I
<1>4. got' \in Seq(Picture)
  BY <1>1, <1>2, <1>3, InOrderIsSeq
<1>5. Cardinality(I) \in Nat
  BY <1>2, <1>3, InOrderPicks
<1>6. PICK f \in [1 .. Cardinality(I) -> I] :
        /\ \A k, l \in 1 .. Cardinality(I) : k < l => f[k] < f[l]
        /\ \A s : InOrder(s, I) = [k \in 1 .. Cardinality(I) |-> s[f[k]]]
  BY <1>2, <1>3, InOrderPicks
<1>7. DOMAIN got' = 1 .. Cardinality(I) /\ \A k \in DOMAIN got' : f[k] \in I /\ got'[k] = got[f[k]]
  <2>1. InOrder(got, I) = [k \in 1 .. Cardinality(I) |-> got[f[k]]]
    BY <1>6
  <2> QED BY <1>1, <1>6, <2>1
<1>8. Ascends(got')
  <2> SUFFICES ASSUME NEW k \in DOMAIN got', NEW l \in DOMAIN got', k < l
               PROVE  got'[k].slot < got'[l].slot
    BY DEF Ascends
  <2>1. f[k] \in DOMAIN got /\ f[l] \in DOMAIN got /\ f[k] < f[l]
    BY <1>2, <1>3, <1>6, <1>7
  <2> QED BY <1>2, <1>7, <2>1 DEF Ascends
<1>9. trying' \in Picture /\ (trying' = C!NoPicture \/ (trying'.slot = 0 /\ \E i \in DOMAIN got : trying' = got[i]))
  <2>1. CASE got # <<>> /\ Head(got).slot = 0
    <3>1. 1 \in DOMAIN got /\ Head(got) = got[1] /\ got[1] \in Picture
      BY <1>2, <2>1
    <3> QED BY <1>1, <2>1, <3>1
  <2>2. CASE ~ (got # <<>> /\ Head(got).slot = 0)
    BY <1>1, <2>2, NoPictureIs
  <2> QED BY <2>1, <2>2
<1>10. Precedes(trying', got')
  BY <1>2, <1>3, <1>4, <1>7, <1>9 DEF Precedes, Picture
<1>11. Pictures' \subseteq Pictures
  <2>1. \A i \in DOMAIN got' : got'[i] \in {got[j] : j \in DOMAIN got}
    <3> SUFFICES ASSUME NEW k \in DOMAIN got' PROVE got'[k] \in {got[j] : j \in DOMAIN got}
      OBVIOUS
    <3>1. f[k] \in DOMAIN got /\ got'[k] = got[f[k]]
      BY <1>2, <1>3, <1>7
    <3> QED BY <3>1
  <2>2. trying' \in {cover} \cup {got[j] : j \in DOMAIN got}
    <3>1. trying' = cover \/ \E i \in DOMAIN got : trying' = got[i]
      BY <1>2, <1>9
    <3> QED BY <3>1
  <2>3. cover' = cover /\ inline' = inline
    BY <1>1
  <2> QED BY <2>1, <2>2, <2>3, Zenon DEF Pictures
<1>12. PictureInv'
  BY <1>1, <1>11 DEF GalleryInv, PictureInv, Judged, GoodEnough
<1>13. Inline + 1 \in Nat
  BY DEF C!CandidatesAssumption
<1>14. PictureTypes'
  BY <1>1, <1>4, <1>9, <1>13 DEF GalleryInv, PictureTypes
<1>15. OrderInv'
  BY <1>1, <1>2, <1>8, <1>10 DEF OrderInv, Ascends, Precedes
<1>16. SlotInv'
  BY <1>1 DEF SlotInv, Filling
<1> QED BY <1>12, <1>14, <1>15, <1>16 DEF GalleryInv

LEMMA TailIs ==
  ASSUME NEW s \in Seq(Picture), s # <<>>
  PROVE  /\ Tail(s) \in Seq(Picture) /\ Head(s) = s[1] /\ 1 \in DOMAIN s /\ s[1] \in Picture
         /\ \A i \in DOMAIN Tail(s) : i \in Nat /\ i + 1 \in DOMAIN s /\ 1 < i + 1 /\ Tail(s)[i] = s[i + 1]
OBVIOUS

LEMMA SendCoverGallery == C!CandidatesAssumption /\ GalleryInv /\ C!SendCover => GalleryInv'
<1> SUFFICES ASSUME C!CandidatesAssumption, GalleryInv, C!SendCover PROVE GalleryInv'
  OBVIOUS
<1>1. /\ picking = "cover" /\ UNCHANGED <<side, sources, slot, pool, prepared, used, inline>>
      /\ cover = C!NoPicture /\ inline = <<>>
  BY DEF C!SendCover, C!ready, C!found, GalleryInv, OrderInv
<1>2. CASE picking' = "inline" /\ cover' = trying /\ trying' = C!NoPicture /\ got' = got
  <2>1. Pictures' = Pictures
    BY <1>1, <1>2 DEF Pictures
  <2>2. PictureInv'
    BY <1>1, <2>1 DEF GalleryInv, PictureInv, Judged, GoodEnough
  <2>3. PictureTypes'
    BY <1>1, <1>2, NoPictureIs DEF GalleryInv, PictureTypes
  <2>4. OrderInv'
    BY <1>1, <1>2 DEF GalleryInv, OrderInv, Ascends, Precedes
  <2> QED BY <1>1, <1>2, <2>2, <2>3, <2>4 DEF GalleryInv, SlotInv, Filling
<1>3. CASE got = <<>> /\ trying' = C!NoPicture /\ UNCHANGED <<picking, cover, got>>
  <2>1. Pictures' \subseteq Pictures
    BY <1>1, <1>3 DEF Pictures
  <2>2. PictureInv'
    BY <1>1, <2>1 DEF GalleryInv, PictureInv, Judged, GoodEnough
  <2>3. PictureTypes'
    BY <1>1, <1>3, NoPictureIs DEF GalleryInv, PictureTypes
  <2>4. OrderInv'
    BY <1>1, <1>3 DEF GalleryInv, OrderInv, Ascends, Precedes
  <2> QED BY <1>1, <1>3, <2>2, <2>3, <2>4 DEF GalleryInv, SlotInv, Filling
<1>4. CASE got # <<>> /\ trying' = Head(got) /\ got' = Tail(got) /\ UNCHANGED <<picking, cover>>
  <2>1. /\ got' \in Seq(Picture) /\ trying' = got[1] /\ 1 \in DOMAIN got /\ got[1] \in Picture
        /\ \A i \in DOMAIN got' : i \in Nat /\ i + 1 \in DOMAIN got /\ 1 < i + 1 /\ got'[i] = got[i + 1]
    BY <1>4, TailIs DEF GalleryInv, PictureTypes
  <2>2. Pictures' \subseteq Pictures
    BY <1>1, <1>4, <2>1 DEF Pictures
  <2>3. PictureInv'
    BY <1>1, <2>2 DEF GalleryInv, PictureInv, Judged, GoodEnough
  <2>4. PictureTypes'
    BY <1>1, <1>4, <2>1 DEF GalleryInv, PictureTypes
  <2>5. Ascends(got') /\ Precedes(trying', got')
    BY <2>1 DEF GalleryInv, OrderInv, Ascends, Precedes
  <2>6. OrderInv'
    BY <1>1, <1>4, <2>5 DEF OrderInv, Ascends, Precedes
  <2> QED BY <1>1, <1>4, <2>3, <2>4, <2>6 DEF GalleryInv, SlotInv, Filling
<1> QED BY <1>2, <1>3, <1>4 DEF C!SendCover

LEMMA SendInlineGallery == C!CandidatesAssumption /\ GalleryInv /\ C!SendInline => GalleryInv'
<1> SUFFICES ASSUME C!CandidatesAssumption, GalleryInv, C!SendInline PROVE GalleryInv'
  OBVIOUS
<1>1. /\ picking = "inline" /\ UNCHANGED <<side, sources, slot, pool, prepared, used, picking, trying, cover>>
      /\ got # <<>> /\ got' = Tail(got) /\ inline' \in {inline, Append(inline, Head(got))}
      /\ trying = C!NoPicture
  BY DEF C!SendInline, C!ready, C!found, GalleryInv, OrderInv
<1>2. /\ got' \in Seq(Picture) /\ Head(got) = got[1] /\ 1 \in DOMAIN got /\ got[1] \in Picture
      /\ \A i \in DOMAIN got' : i \in Nat /\ i + 1 \in DOMAIN got /\ 1 < i + 1 /\ got'[i] = got[i + 1]
  BY <1>1, TailIs DEF GalleryInv, PictureTypes
<1>3. /\ inline' \in Seq(Picture)
      /\ \A i \in DOMAIN inline' : \/ i \in DOMAIN inline /\ inline'[i] = inline[i]
                                   \/ i = Len(inline) + 1 /\ inline'[i] = got[1]
  <2>1. inline \in Seq(Picture)
    BY DEF GalleryInv, PictureTypes
  <2>2. CASE inline' = inline
    BY <2>1, <2>2
  <2>3. CASE inline' = Append(inline, got[1])
    BY <1>2, <2>1, <2>3
  <2> QED BY <1>1, <1>2, <2>2, <2>3
<1>4. Pictures' \subseteq Pictures
  BY <1>1, <1>2, <1>3 DEF Pictures
<1>5. PictureInv'
  BY <1>1, <1>4 DEF GalleryInv, PictureInv, Judged, GoodEnough
<1>6. PictureTypes'
  BY <1>1, <1>2, <1>3 DEF GalleryInv, PictureTypes
<1>7. Ascends(got') /\ Precedes(got[1], got')
  BY <1>2 DEF GalleryInv, OrderInv, Ascends, Precedes
<1>8. \A i \in DOMAIN inline', j \in DOMAIN got' : inline'[i].slot < got'[j].slot
  BY <1>2, <1>3 DEF GalleryInv, OrderInv, Ascends
<1>9. Ascends(inline')
  <2> SUFFICES ASSUME NEW i \in DOMAIN inline', NEW j \in DOMAIN inline', i < j
               PROVE  inline'[i].slot < inline'[j].slot
    BY DEF Ascends
  <2>1. Len(inline) \in Nat /\ DOMAIN inline = 1 .. Len(inline)
    BY DEF GalleryInv, PictureTypes
  <2>2. i \in DOMAIN inline /\ inline'[i] = inline[i]
    BY <1>1, <1>3, <2>1
  <2> QED BY <1>2, <1>3, <2>2 DEF GalleryInv, OrderInv, Ascends
<1>10. Precedes(cover, got') /\ Precedes(cover, inline')
  BY <1>2, <1>3 DEF GalleryInv, OrderInv, Precedes
<1>11. OrderInv'
  BY <1>1, <1>7, <1>8, <1>9, <1>10 DEF OrderInv, Precedes
<1> QED BY <1>1, <1>5, <1>6, <1>11 DEF GalleryInv, SlotInv, Filling

LEMMA NextGallery == C!CandidatesAssumption /\ GalleryInv /\ [C!Next]_(C!vars) => GalleryInv'
<1> SUFFICES ASSUME C!CandidatesAssumption, GalleryInv, [C!Next]_(C!vars) PROVE GalleryInv'
  OBVIOUS
<1>1. CASE UNCHANGED C!vars
  <2>1. Pictures' = Pictures
    BY <1>1 DEF C!vars, Pictures
  <2> QED BY <1>1, <2>1 DEF C!vars, GalleryInv, PictureTypes, SlotInv, Filling, Unused, PictureInv, OrderInv,
                            Judged, GoodEnough, Ascends, Precedes
<1> QED BY <1>1, SearchGallery, PrepareGallery, LookGallery, PassGallery, EndGallery,
           SendCoverGallery, SendInlineGallery DEF C!Next

LEMMA GalleryIsJudged == C!CandidatesAssumption /\ GalleryInv => PicturesAreJudged
<1> SUFFICES ASSUME C!CandidatesAssumption, GalleryInv PROVE PicturesAreJudged
  OBVIOUS
<1> DEFINE a == Len(inline)
           b == Len(got)
           sent == <<cover, trying>> \o inline \o got
<1>1. /\ a \in Nat /\ b \in Nat /\ DOMAIN inline = 1 .. a /\ DOMAIN got = 1 .. b
      /\ inline \in Seq(Picture) /\ got \in Seq(Picture) /\ cover \in Picture /\ trying \in Picture
  BY DEF GalleryInv, PictureTypes
<1>2. DOMAIN sent = 1 .. (2 + a + b)
  BY <1>1
<1>3. /\ sent[1] = cover /\ sent[2] = trying
      /\ \A i \in 3 .. (2 + a) : i - 2 \in 1 .. a /\ sent[i] = inline[i - 2]
      /\ \A i \in (3 + a) .. (2 + a + b) : i - 2 - a \in 1 .. b /\ sent[i] = got[i - 2 - a]
  BY <1>1
<1> HIDE DEF sent, a, b
<1>4. \A i \in DOMAIN sent : sent[i] \in Pictures
  <2> SUFFICES ASSUME NEW i \in 1 .. (2 + a + b) PROVE sent[i] \in Pictures
    BY <1>2
  <2>1. CASE i \in {1, 2}
    BY <1>3, <2>1 DEF Pictures
  <2>2. CASE i \in 3 .. (2 + a)
    BY <1>1, <1>3, <2>2 DEF Pictures
  <2>3. CASE i \in (3 + a) .. (2 + a + b)
    BY <1>1, <1>3, <2>3 DEF Pictures
  <2> QED BY <1>1, <2>1, <2>2, <2>3
<1>5. \A i \in DOMAIN sent : sent[i].how = "seen" =>
        sent[i].approved \in {sent[i].url, "none"} /\ GoodEnough(sent[i], sent[i].slot)
  BY <1>4 DEF GalleryInv, PictureInv, Judged
<1>6. cover = C!NoPicture \/ trying = C!NoPicture
  BY DEF GalleryInv, PictureTypes, SlotInv, Filling, OrderInv
<1>7. \A p \in Pictures : p.slot \in Nat
  <2>1. \A p \in Pictures : p \in Picture
    BY <1>1 DEF Pictures
  <2> QED BY <2>1 DEF Picture
<1>8. \A i, j \in DOMAIN sent :
        i < j => sent[i].slot < sent[j].slot \/ sent[i] = C!NoPicture \/ sent[j] = C!NoPicture
  <2> SUFFICES ASSUME NEW i \in 1 .. (2 + a + b), NEW j \in 1 .. (2 + a + b), i < j
               PROVE  sent[i].slot < sent[j].slot \/ sent[i] = C!NoPicture \/ sent[j] = C!NoPicture
    BY <1>2
  <2>0. /\ i \in {1, 2} \/ i \in 3 .. (2 + a) \/ i \in (3 + a) .. (2 + a + b)
        /\ j \in {1, 2} \/ j \in 3 .. (2 + a) \/ j \in (3 + a) .. (2 + a + b)
    BY <1>1
  <2>1. CASE j \in {1, 2}
    BY <1>1, <1>3, <1>6, <2>1
  <2>2. CASE i \in {1, 2} /\ j \in 3 .. (2 + a)
    <3>1. Precedes(cover, inline) /\ (trying = C!NoPicture \/ a = 0)
      BY <1>1 DEF GalleryInv, PictureTypes, SlotInv, OrderInv, Filling, a
    <3> QED BY <1>1, <1>3, <2>2, <3>1 DEF Precedes
  <2>3. CASE i \in {1, 2} /\ j \in (3 + a) .. (2 + a + b)
    BY <1>1, <1>3, <2>3 DEF GalleryInv, OrderInv, Precedes
  <2>4. CASE i \in 3 .. (2 + a) /\ j \in 3 .. (2 + a)
    <3>1. i - 2 \in DOMAIN inline /\ j - 2 \in DOMAIN inline /\ i - 2 < j - 2
      BY <1>1, <1>3, <2>4
    <3> QED BY <1>3, <2>4, <3>1 DEF GalleryInv, OrderInv, Ascends
  <2>5. CASE i \in 3 .. (2 + a) /\ j \in (3 + a) .. (2 + a + b)
    <3>1. i - 2 \in DOMAIN inline /\ j - 2 - a \in DOMAIN got
      BY <1>1, <1>3, <2>5
    <3> QED BY <1>3, <2>5, <3>1 DEF GalleryInv, OrderInv
  <2>6. CASE i \in (3 + a) .. (2 + a + b) /\ j \in (3 + a) .. (2 + a + b)
    <3>1. i - 2 - a \in DOMAIN got /\ j - 2 - a \in DOMAIN got /\ i - 2 - a < j - 2 - a
      BY <1>1, <1>3, <2>6
    <3> QED BY <1>3, <2>6, <3>1 DEF GalleryInv, OrderInv, Ascends
  <2>7. i \in (3 + a) .. (2 + a + b) => j \in (3 + a) .. (2 + a + b)
    BY <1>1
  <2>8. i \in 3 .. (2 + a) => j \notin {1, 2}
    BY <1>1
  <2> QED BY <2>0, <2>1, <2>2, <2>3, <2>4, <2>5, <2>6, <2>7, <2>8
<1>9. \A i, j \in DOMAIN sent : i # j /\ sent[i].how = "seen" => sent[i].url # sent[j].url
  <2> SUFFICES ASSUME NEW i \in DOMAIN sent, NEW j \in DOMAIN sent, i # j, sent[i].how = "seen"
               PROVE  sent[i].url # sent[j].url
    OBVIOUS
  <2>1. i < j \/ j < i
    BY <1>1, <1>2
  <2>2. sent[i] # C!NoPicture
    BY NoPictureIs
  <2>3. CASE sent[j] = C!NoPicture
    <3>1. sent[i].url # "none" /\ sent[j].url = "none"
      BY <1>4, <2>3, NoPictureIs DEF GalleryInv, PictureInv, Judged
    <3> QED BY <3>1
  <2>4. CASE sent[j] # C!NoPicture
    <3>1. sent[i].slot < sent[j].slot \/ sent[j].slot < sent[i].slot
      BY <1>8, <2>1, <2>2, <2>4
    <3>2. sent[i].slot \in Nat /\ sent[j].slot \in Nat
      BY <1>4, <1>7
    <3>3. sent[i] # sent[j]
      BY <3>1, <3>2
    <3> QED BY <1>4, <3>3 DEF GalleryInv, PictureInv
  <2> QED BY <2>3, <2>4
<1>10. \A i, j \in DOMAIN inline : i < j => inline[i].slot < inline[j].slot
  BY DEF GalleryInv, OrderInv, Ascends
<1>11. \A i \in DOMAIN inline : cover.slot < inline[i].slot \/ cover.how = "none"
  BY NoPictureIs DEF GalleryInv, OrderInv, Precedes
<1> QED BY <1>5, <1>9, <1>10, <1>11 DEF PicturesAreJudged, sent

\* Whatever the searches find, WordPress refuses or the vision answers, and
\* however many pictures it is shown: a picture that was found is the one it
\* pointed at, or the first when it pointed at none, is large enough for the
\* place it was chosen for and in one place only, and the pictures of the text
\* come in the order of their places after the cover (illustrate.ts).
THEOREM PicturesAreJudgedHolds == C!CandidatesAssumption => (C!Spec => []PicturesAreJudged)
<1> SUFFICES ASSUME C!CandidatesAssumption PROVE C!Spec => []PicturesAreJudged
  OBVIOUS
<1>1. C!Init => GalleryInv
  BY InitGallery
<1>2. GalleryInv /\ [C!Next]_(C!vars) => GalleryInv'
  BY NextGallery
<1>3. GalleryInv => PicturesAreJudged
  BY GalleryIsJudged
<1> QED BY <1>1, <1>2, <1>3, PTL DEF C!Spec

-----------------------------------------------------------------------------
(* The review of a draft                                                   *)

\* What goes out is the draft, or a revision with a title judged on it.
ReviewInv ==
  /\ draft.text \in Ed!Text /\ text \in Ed!Text
  /\ draft.text.links \subseteq text.links
  /\ text.numbers \subseteq draft.text.numbers \cup draft.sourced
  /\ text.title \subseteq draft.text.title \cup text.numbers \cup draft.sourced

LEMMA ReviewInit == Ed!Init => ReviewInv
BY DEF Ed!Init, ReviewInv, Ed!Text

\* Every way a revision is taken, in full, without its title, or not at all.
LEMMA ReviewedIsAcceptable ==
  ASSUME NEW r \in Ed!Text, NEW sound \in BOOLEAN, NEW fits \in BOOLEAN, draft.text \in Ed!Text
  PROVE  LET t == Ed!Reviewed(r, sound, fits)
         IN  /\ t \in Ed!Text /\ draft.text.links \subseteq t.links
             /\ t.numbers \subseteq draft.text.numbers \cup draft.sourced
             /\ t.title \subseteq draft.text.title \cup t.numbers \cup draft.sourced
<1>1. CASE sound /\ Ed!Acceptable(r) /\ fits /\ Ed!AcceptableTitle(r)
  <2>1. Ed!Reviewed(r, sound, fits) = r
    BY <1>1 DEF Ed!Reviewed, Ed!Text
  <2> QED BY <1>1, <2>1 DEF Ed!Acceptable, Ed!AcceptableTitle
<1>2. CASE sound /\ Ed!Acceptable(r) /\ ~ (fits /\ Ed!AcceptableTitle(r))
  <2>1. Ed!Reviewed(r, sound, fits) = [r EXCEPT !.title = draft.text.title]
    BY <1>2 DEF Ed!Reviewed
  <2> QED BY <1>2, <2>1 DEF Ed!Acceptable, Ed!Text
<1>3. CASE ~ (sound /\ Ed!Acceptable(r))
  <2>1. Ed!Reviewed(r, sound, fits) = draft.text
    BY <1>3 DEF Ed!Reviewed
  <2> QED BY <2>1
<1> QED BY <1>1, <1>2, <1>3

LEMMA ReviewNext == ReviewInv /\ [Ed!Next]_Ed!vars => ReviewInv'
<1> SUFFICES ASSUME ReviewInv, [Ed!Next]_Ed!vars PROVE ReviewInv'
  OBVIOUS
<1>1. ASSUME UNCHANGED <<draft, text>> PROVE ReviewInv'
  BY <1>1 DEF ReviewInv
<1>2. CASE Ed!Review
  <2>1. draft' = draft /\ (text' = text \/ \E r \in Ed!Text, sound, fits \in BOOLEAN : text' = Ed!Reviewed(r, sound, fits))
    BY <1>2 DEF Ed!Review
  <2>2. CASE text' = text
    BY <1>1, <2>1, <2>2
  <2>3. ASSUME NEW r \in Ed!Text, NEW sound \in BOOLEAN, NEW fits \in BOOLEAN,
               text' = Ed!Reviewed(r, sound, fits)
        PROVE  ReviewInv'
    BY <2>1, <2>3, ReviewedIsAcceptable DEF ReviewInv
  <2> QED BY <2>1, <2>2, <2>3
<1>3. CASE \/ Ed!Illustrate \/ Ed!FillSlot \/ Ed!EndFilling \/ Ed!UploadCover \/ Ed!UploadInline
           \/ Ed!FindEmbeds \/ Ed!CreatePost \/ Ed!Throws \/ Ed!Exhaust
  BY <1>1, <1>3 DEF Ed!Illustrate, Ed!FillSlot, Ed!EndFilling, Ed!UploadCover, Ed!UploadInline,
     Ed!FindEmbeds, Ed!CreatePost, Ed!Throws, Ed!Exhaust, Ed!review
<1>4. CASE UNCHANGED Ed!vars
  BY <1>1, <1>4 DEF Ed!vars
<1> QED BY <1>2, <1>3, <1>4 DEF Ed!Next

\* Whatever the reviewer returns, for any links and numbers: the post keeps the
\* links of the draft, and takes no number from nowhere (acceptRevision,
\* acceptTitle of packages/core/src/pipeline/review.ts).
THEOREM PostKeepsDraftHolds == Ed!Spec => []PostKeepsDraft
<1>1. ReviewInv => PostKeepsDraft
  BY DEF ReviewInv, PostKeepsDraft
<1> QED BY <1>1, ReviewInit, ReviewNext, PTL DEF Ed!Spec

-----------------------------------------------------------------------------
(* Loops: what a recursive function over 0 .. n makes, round by round.     *)

LEMMA SomeLeast ==
  ASSUME NEW S, S \subseteq Nat, S # {}
  PROVE  \E m \in S : \A y \in S : m <= y
<1>1. PICK m \in S : \A y \in S : ~ (<<y, m>> \in OpToRel(<, Nat))
  <2>1. IsWellFoundedOn(OpToRel(<, Nat), Nat)
    BY NatLessThanWellFounded
  <2> QED BY <2>1, WFMin
<1>2. \A y \in S : ~ (y < m)
  BY <1>1 DEF OpToRel
<1> QED BY <1>2

\* Induction over a loop of n rounds.
LEMMA Rounds ==
  ASSUME NEW n \in Nat, NEW S, 0 \in S, \A i \in 1 .. n : i - 1 \in S => i \in S
  PROVE  0 .. n \subseteq S
<1> DEFINE B == {i \in 0 .. n : i \notin S}
<1>1. SUFFICES ASSUME B # {} PROVE FALSE
  OBVIOUS
<1>2. PICK m \in B : \A y \in B : m <= y
  <2>1. B \subseteq Nat
    OBVIOUS
  <2> HIDE DEF B
  <2> QED BY <1>1, <2>1, SomeLeast
<1>3. m \in 1 .. n /\ m - 1 \in 0 .. n /\ m - 1 \notin B
  BY <1>2
<1> QED BY <1>2, <1>3

\* A loop that makes an X of an X in each of n rounds: it ends.
Loop(n, X) == [1 .. n -> [X -> X]]
Runs(f, n, X, x, G) ==
  f \in [0 .. n -> X] /\ f[0] = x /\ \A i \in 1 .. n : f[i] = G[i][f[i - 1]]

LEMMA LoopRuns ==
  ASSUME NEW n, NEW X, NEW x, NEW G, n \in Nat, x \in X, G \in Loop(n, X)
  PROVE  \E f : Runs(f, n, X, x, G)
<1> USE DEF Loop
<1> DEFINE S == {m \in 0 .. n : \E f \in [0 .. m -> X] : f[0] = x /\ \A i \in 1 .. m : f[i] = G[i][f[i - 1]]}
<1>1. 0 \in S
  <2> DEFINE f == [i \in 0 .. 0 |-> x]
  <2>1. f \in [0 .. 0 -> X] /\ f[0] = x
    OBVIOUS
  <2>2. 1 .. 0 = {}
    OBVIOUS
  <2>3. \A i \in 1 .. 0 : f[i] = G[i][f[i - 1]]
    BY <2>2
  <2>4. 0 \in 0 .. n
    OBVIOUS
  <2> HIDE DEF f
  <2> QED BY <2>1, <2>3, <2>4
<1>2. ASSUME NEW m \in 1 .. n, m - 1 \in S PROVE m \in S
  <2>1. PICK f \in [0 .. m - 1 -> X] : f[0] = x /\ \A i \in 1 .. m - 1 : f[i] = G[i][f[i - 1]]
    BY <1>2
  <2> DEFINE g == [i \in 0 .. m |-> IF i < m THEN f[i] ELSE G[m][f[m - 1]]]
  <2>2. G[m][f[m - 1]] \in X
    BY <2>1
  <2>3. g \in [0 .. m -> X] /\ g[0] = x
    BY <2>1, <2>2
  <2>4. \A i \in 1 .. m : g[i] = G[i][g[i - 1]]
    <3> SUFFICES ASSUME NEW i \in 1 .. m PROVE g[i] = G[i][g[i - 1]]
      OBVIOUS
    <3>1. i \in 0 .. m /\ i - 1 \in 0 .. m /\ i - 1 < m /\ (i < m \/ i = m)
      OBVIOUS
    <3>2. g[i - 1] = f[i - 1]
      BY <3>1
    <3>3. CASE i < m
      <4>1. g[i] = f[i] /\ i \in 1 .. m - 1
        BY <3>1, <3>3
      <4> QED BY <2>1, <3>2, <4>1
    <3>4. CASE i = m
      <4>1. g[i] = G[m][f[m - 1]]
        BY <3>1, <3>4
      <4> HIDE DEF g
      <4> QED BY <3>2, <3>4, <4>1
    <3> HIDE DEF g
    <3> QED BY <3>1, <3>3, <3>4
  <2>5. m \in 0 .. n
    OBVIOUS
  <2> HIDE DEF g
  <2> QED BY <2>3, <2>4, <2>5
<1>3. 0 .. n \subseteq S
  <2> HIDE DEF S
  <2> QED BY <1>1, <1>2, Rounds
<1> QED BY <1>3 DEF Runs

-----------------------------------------------------------------------------
(* Where images and embeds come to                                         *)

LEMMA PlaceSizesAgree == ASSUME NEW S PROVE Ed!Cardinality(S) = Cardinality(S)
BY DEF Ed!Cardinality, Cardinality
LEMMA PlaceOrderAgrees == ASSUME NEW s, NEW I PROVE Ed!InOrder(s, I) = InOrder(s, I)
BY DEF Ed!InOrder, InOrder, Ed!Cardinality, Cardinality

\* The sections the reviewer named, as many as fit.
LEMMA PreferredIs ==
  ASSUME NEW n \in Nat, NEW k \in Nat, NEW H \in Seq(0 .. n)
  PROVE  LET P == Ed!Preferred(k, H) IN
         /\ P \subseteq Range(H) \ {0}
         /\ Cardinality(P) \in 0 .. k
         /\ Cardinality(P) = k \/ Range(H) \ {0} \subseteq P
<1> DEFINE OneMore(i, c) == IF H[i] = 0 \/ Ed!Cardinality(c) >= k THEN c ELSE c \cup {H[i]}
           Is(f) == f = [i \in 0 .. Len(H) |-> IF i = 0 THEN {} ELSE OneMore(i, f[i - 1])]
           f == CHOOSE g : Is(g)
<1>1. Ed!Preferred(k, H) = f[Len(H)]
  BY DEF Ed!Preferred
<1>0. Len(H) \in Nat /\ \A i \in 1 .. Len(H) : H[i] \in 0 .. n
  OBVIOUS
<1> DEFINE X == SUBSET (0 .. n)
<1> DEFINE G == [i \in 1 .. Len(H) |-> [c \in X |-> OneMore(i, c)]]
<1>2. \E g : Is(g)
  <2>1. G \in [1 .. Len(H) -> [X -> X]]
    <3> SUFFICES ASSUME NEW i \in 1 .. Len(H), NEW c \in X PROVE OneMore(i, c) \in X
      OBVIOUS
    <3> QED BY <1>0
  <2>2. {} \in X
    OBVIOUS
  <2>3. PICK g \in [0 .. Len(H) -> X] : g[0] = {} /\ \A i \in 1 .. Len(H) : g[i] = G[i][g[i - 1]]
    <3>1. G \in Loop(Len(H), X)
      BY <2>1 DEF Loop
    <3> HIDE DEF G, X
    <3>2. \E g : Runs(g, Len(H), X, {}, G)
      BY <1>0, <2>2, <3>1, LoopRuns
    <3> QED BY <3>2 DEF Runs
  <2>4. \A i \in 1 .. Len(H) : g[i] = OneMore(i, g[i - 1])
    <3> SUFFICES ASSUME NEW i \in 1 .. Len(H) PROVE g[i] = OneMore(i, g[i - 1])
      OBVIOUS
    <3>1. g[i - 1] \in X
      BY <1>0, <2>3
    <3>2. G[i][g[i - 1]] = OneMore(i, g[i - 1])
      <4> HIDE DEF X, OneMore
      <4> QED BY <3>1
    <3> QED BY <2>3, <3>2
  <2>5. Is(g)
    <3> HIDE DEF OneMore, G, X
    <3>1. g = [i \in 0 .. Len(H) |-> g[i]]
      BY <2>3
    <3>2. \A i \in 0 .. Len(H) : g[i] = IF i = 0 THEN {} ELSE OneMore(i, g[i - 1])
      <4>1. \A i \in 0 .. Len(H) : i = 0 \/ i \in 1 .. Len(H)
        BY <1>0
      <4>2. g[0] = {}
        BY <2>3
      <4> QED BY <2>4, <4>1, <4>2, Zenon
    <3> QED BY <3>1, <3>2
  <2> HIDE DEF Is
  <2> QED BY <2>5
<1>3. f[0] = {} /\ \A i \in 1 .. Len(H) : f[i] = OneMore(i, f[i - 1])
  <2> DEFINE h(g) == [i \in 0 .. Len(H) |-> IF i = 0 THEN {} ELSE OneMore(i, g[i - 1])]
  <2>1. f = h(f)
    <3> HIDE DEF OneMore
    <3> QED BY <1>2
  <2> HIDE DEF f, OneMore
  <2>2. h(f)[0] = {} /\ \A i \in 1 .. Len(H) : h(f)[i] = OneMore(i, f[i - 1])
    BY <1>0
  <2> HIDE DEF h
  <2> QED BY <2>1, <2>2
<1> DEFINE So(i) == {H[j] : j \in 1 .. i} \ {0}
           S == {i \in 0 .. Len(H) : /\ f[i] \subseteq So(i)
                                     /\ IsFiniteSet(f[i]) /\ Cardinality(f[i]) \in 0 .. k
                                     /\ Cardinality(f[i]) = k \/ So(i) \subseteq f[i]}
<1>4. 0 \in S
  <2>1. f[0] = {} /\ So(0) = {} /\ 0 \in 0 .. Len(H) /\ 0 \in 0 .. k
    <3> HIDE DEF f
    <3> QED BY <1>0, <1>3
  <2>2. IsFiniteSet(f[0]) /\ Cardinality(f[0]) = 0
    BY <2>1, FS_EmptySet
  <2> HIDE DEF f, So
  <2> QED BY <2>1, <2>2
<1>5. ASSUME NEW i \in 1 .. Len(H), i - 1 \in S PROVE i \in S
  <2> HIDE DEF f
  <2> DEFINE c == f[i - 1]
  <2>1. /\ c \subseteq So(i - 1) /\ IsFiniteSet(c) /\ Cardinality(c) \in 0 .. k
        /\ Cardinality(c) = k \/ So(i - 1) \subseteq c
    BY <1>5
  <2>2. So(i) = So(i - 1) \cup ({H[i]} \ {0})
    BY <1>0
  <2>3. f[i] = IF H[i] = 0 \/ Cardinality(c) >= k THEN c ELSE c \cup {H[i]}
    BY <1>3, PlaceSizesAgree
  <2>4. i \in 0 .. Len(H)
    BY <1>0
  <2> HIDE DEF So, c
  <2>5. CASE H[i] = 0 \/ Cardinality(c) >= k
    <3>1. f[i] = c
      BY <2>3, <2>5
    <3> QED BY <2>1, <2>2, <2>4, <2>5, <3>1
  <2>6. CASE ~ (H[i] = 0 \/ Cardinality(c) >= k)
    <3>1. f[i] = c \cup {H[i]} /\ Cardinality(c) < k
      BY <2>1, <2>3, <2>6
    <3>2. IsFiniteSet(f[i]) /\ Cardinality(f[i]) \in 0 .. k
      <4>1. IsFiniteSet(c) /\ Cardinality(c) \in 0 .. k
        BY <2>1
      <4>2. IsFiniteSet(c \cup {H[i]}) /\ (Cardinality(c \cup {H[i]}) = Cardinality(c) \/ Cardinality(c \cup {H[i]}) = Cardinality(c) + 1)
        BY <4>1, FS_AddElement
      <4> HIDE DEF f
      <4> QED BY <3>1, <4>1, <4>2
    <3>3. f[i] \subseteq So(i) /\ So(i) \subseteq f[i]
      BY <2>1, <2>2, <2>6, <3>1
    <3> QED BY <2>1, <2>4, <3>1, <3>2, <3>3
  <2> QED BY <2>5, <2>6
<1>6. 0 .. Len(H) \subseteq S
  <2> HIDE DEF S
  <2> QED BY <1>0, <1>4, <1>5, Rounds
<1>7. So(Len(H)) = Range(H) \ {0}
  BY <1>0 DEF Range
<1>8. Len(H) \in S
  <2> HIDE DEF S
  <2> QED BY <1>0, <1>6
<1> HIDE DEF f, So
<1> QED BY <1>1, <1>7, <1>8

LEMMA SomeGreatest ==
  ASSUME NEW n \in Nat, NEW S, S \subseteq 1 .. n, S # {}
  PROVE  \E m \in S : \A y \in S : m >= y
<1> DEFINE R == {n - y : y \in S}
<1>1. R \subseteq Nat /\ R # {}
  <2>1. \A y \in S : n - y \in Nat
    <3> SUFFICES ASSUME NEW y \in S PROVE n - y \in Nat
      OBVIOUS
    <3>1. y \in 1 .. n
      OBVIOUS
    <3> QED BY <3>1
  <2> QED BY <2>1
<1>2. PICK r \in R : \A y \in R : r <= y
  <2> HIDE DEF R
  <2> QED BY <1>1, SomeLeast
<1>3. PICK m \in S : r = n - m
  OBVIOUS
<1>4. ASSUME NEW y \in S PROVE m >= y
  <2>1. n - y \in R /\ y \in 1 .. n /\ m \in 1 .. n
    OBVIOUS
  <2>2. n - m <= n - y
    BY <1>2, <1>3, <2>1
  <2> QED BY <2>1, <2>2
<1> QED BY <1>4

LEMMA WithinIs == ASSUME NEW n \in Nat, n >= 1, NEW x \in Int PROVE Ed!Within(n, x) \in 1 .. n
BY DEF Ed!Within, Ed!Least

LEMMA RoundedIs == ASSUME NEW a \in Int, NEW b \in Nat, b >= 1 PROVE Ed!Rounded(a, b) \in Int
BY DEF Ed!Rounded

\* A paragraph that is free, while there is one.
LEMMA FreeFromIs ==
  ASSUME NEW n \in Nat, NEW t \in 1 .. n, NEW c \in SUBSET (1 .. n)
  PROVE  /\ Ed!FreeFrom(n, t, c) \in SUBSET (1 .. n)
         /\ c # 1 .. n => \E x \in (1 .. n) \ c : Ed!FreeFrom(n, t, c) = {x}
<1> DEFINE after == (t .. n) \ c
           before == (1 .. t) \ c
<1>1. after \subseteq Nat /\ after \subseteq 1 .. n /\ before \subseteq 1 .. n
  OBVIOUS
<1>2. Ed!FreeFrom(n, t, c) = IF after # {} THEN {Ed!Min(after)} ELSE IF before # {} THEN {Ed!Max(before)} ELSE {}
  BY DEF Ed!FreeFrom
<1>3. CASE after # {}
  <2> HIDE DEF after, before
  <2>1. \E m \in after : \A y \in after : m <= y
    BY <1>1, <1>3, SomeLeast
  <2>2. Ed!Min(after) \in after
    BY <2>1 DEF Ed!Min
  <2>3. Ed!Min(after) \in (1 .. n) \ c
    BY <1>1, <2>2 DEF after
  <2> QED BY <1>2, <1>3, <2>3
<1>4. CASE after = {} /\ before # {}
  <2> HIDE DEF after, before
  <2>1. \E m \in before : \A y \in before : m >= y
    BY <1>1, <1>4, SomeGreatest
  <2>2. Ed!Max(before) \in before
    BY <2>1 DEF Ed!Max
  <2>3. Ed!Max(before) \in (1 .. n) \ c
    BY <1>1, <2>2 DEF before
  <2> QED BY <1>2, <1>4, <2>3
<1>5. CASE after = {} /\ before = {}
  <2>1. \A x \in 1 .. n : x \in t .. n \/ x \in 1 .. t
    OBVIOUS
  <2>2. c = 1 .. n
    BY <1>5, <2>1
  <2> QED BY <1>2, <1>5, <2>2
<1> QED BY <1>3, <1>4, <1>5

\* The paragraphs go up, are of the text, and as many as wanted and possible.
Ascending(s) == \A i, j \in DOMAIN s : i < j => s[i] < s[j]

\* A set of numbers in their order: one after the other, each of them once.
LEMMA SortedIs ==
  ASSUME NEW n \in Nat, NEW c \in SUBSET (1 .. n)
  PROVE  LET s == Ed!InOrder([p \in 1 .. n |-> p], c) IN
         /\ s \in Seq(1 .. n) /\ Ascending(s) /\ Range(s) = c
         /\ Cardinality(DOMAIN s) = Cardinality(c)
<1> DEFINE s == Ed!InOrder([p \in 1 .. n |-> p], c)
<1>1. IsFiniteSet(1 .. n) /\ Cardinality(c) \in Nat
  <2>1. Cardinality(c) \in Nat
    BY InOrderPicks
  <2> QED BY <2>1, FS_Interval
<1>2. PICK f \in [1 .. Cardinality(c) -> c] :
        /\ \A k, l \in 1 .. Cardinality(c) : k < l => f[k] < f[l]
        /\ \A t : InOrder(t, c) = [k \in 1 .. Cardinality(c) |-> t[f[k]]]
  BY InOrderPicks
<1>3. s = [k \in 1 .. Cardinality(c) |-> [p \in 1 .. n |-> p][f[k]]]
  BY <1>2, PlaceOrderAgrees
<1>4. DOMAIN s = 1 .. Cardinality(c) /\ \A k \in 1 .. Cardinality(c) : s[k] = f[k] /\ s[k] \in c
  <2> HIDE DEF s
  <2>1. \A k \in 1 .. Cardinality(c) : f[k] \in c /\ f[k] \in 1 .. n
    BY <1>2
  <2> QED BY <1>3, <2>1
<1> HIDE DEF s
<1>5. s \in Seq(1 .. n)
  <2>1. \A k \in 1 .. Cardinality(c) : s[k] \in 1 .. n
    BY <1>4
  <2>2. s \in [1 .. Cardinality(c) -> 1 .. n]
    BY <1>3, <1>4, <2>1
  <2> QED BY <1>1, <2>2
<1>6. Ascending(s)
  BY <1>2, <1>4 DEF Ascending
<1>7. Cardinality(DOMAIN s) = Cardinality(c)
  BY <1>1, <1>4, FS_Interval
<1>8. Range(s) \in SUBSET c /\ \A k \in DOMAIN s : s[k] \in Range(s)
  BY <1>4 DEF Range
<1>9. Cardinality(Range(s)) = Cardinality(c)
  <2>1. IsFiniteSet(c)
    BY <1>1, FS_Subset
  <2>2. IsFiniteSet(Range(s)) /\ Cardinality(Range(s)) <= Cardinality(c) /\ Cardinality(Range(s)) \in Nat
    BY <1>8, <2>1, FS_Subset, FS_CardinalityType
  <2>3. s \in [1 .. Cardinality(c) -> Range(s)]
    BY <1>3, <1>4, <1>8
  <2>4. \A k, l \in 1 .. Cardinality(c) : s[k] = s[l] => k = l
    <3> SUFFICES ASSUME NEW k \in 1 .. Cardinality(c), NEW l \in 1 .. Cardinality(c), k < l PROVE s[k] # s[l]
      BY <1>1
    <3>1. s[k] < s[l] /\ s[k] \in 1 .. n /\ s[l] \in 1 .. n
      BY <1>4, <1>6 DEF Ascending
    <3> QED BY <3>1
  <2>5. s \in Injection(1 .. Cardinality(c), Range(s))
    BY <2>3, <2>4 DEF Injection, IsInjective
  <2>6. Cardinality(1 .. Cardinality(c)) <= Cardinality(Range(s))
    BY <2>2, <2>5, FS_Injection
  <2>7. Cardinality(1 .. Cardinality(c)) = Cardinality(c)
    BY <1>1, FS_Interval
  <2> QED BY <1>1, <2>2, <2>6, <2>7
<1>10. Range(s) = c
  <2>1. IsFiniteSet(c)
    BY <1>1, FS_Subset
  <2> QED BY <1>8, <1>9, <2>1, FS_Subset
<1> QED BY <1>5, <1>6, <1>7, <1>10 DEF s

\* As many paragraphs as wanted and possible, the named ones before others.
LEMMA PlanIs ==
  ASSUME NEW n \in Nat, NEW count \in Nat, NEW H \in Seq(0 .. n)
  PROVE  LET at == Ed!Plan(n, count, H) named == Range(H) \ {0} IN
         /\ at \in Seq(1 .. n) /\ Ascending(at)
         /\ Cardinality(DOMAIN at) = Least(count, n)
         /\ Cardinality(Range(at)) = Least(count, n)
         /\ named \subseteq Range(at) \/ Range(at) \subseteq named
<1> DEFINE k == Least(count, n)
           first == Ed!Preferred(k, H)
           rest == k - Cardinality(first)
           OneMore(i, c) == c \cup Ed!FreeFrom(n, Ed!Within(n, Ed!Rounded(i * n, rest + 1)), c)
           Is(f) == f = [i \in 0 .. rest |-> IF i = 0 THEN first ELSE OneMore(i, f[i - 1])]
           f == CHOOSE g : Is(g)
           X == SUBSET (1 .. n)
<1>1. Ed!Plan(n, count, H) = Ed!InOrder([p \in 1 .. n |-> p], f[rest])
  BY PlaceSizesAgree DEF Ed!Plan, Ed!Least, Least
<1>2. k \in Nat /\ k <= n
  BY DEF Least
<1>3. /\ first \subseteq Range(H) \ {0} /\ Cardinality(first) \in 0 .. k
      /\ Cardinality(first) = k \/ Range(H) \ {0} \subseteq first
  <2> HIDE DEF k
  <2> QED BY <1>2, PreferredIs
<1>4. Range(H) \ {0} \subseteq 1 .. n
  BY DEF Range
<1>5. first \in X /\ rest \in Nat /\ rest <= k
  <2> HIDE DEF k, first
  <2>1. first \in X
    BY <1>3, <1>4
  <2> QED BY <1>2, <1>3, <2>1
<1>6. \A i \in 1 .. rest, c \in X :
        /\ OneMore(i, c) \in X
        /\ c # 1 .. n => \E x \in (1 .. n) \ c : OneMore(i, c) = c \cup {x}
  <2> SUFFICES ASSUME NEW i \in 1 .. rest, NEW c \in X
               PROVE  /\ OneMore(i, c) \in X
                      /\ c # 1 .. n => \E x \in (1 .. n) \ c : OneMore(i, c) = c \cup {x}
    OBVIOUS
  <2> HIDE DEF k, first, rest
  <2>1. n >= 1 /\ i * n \in Int /\ rest + 1 \in Nat /\ rest + 1 >= 1
    BY <1>2, <1>5
  <2>2. Ed!Within(n, Ed!Rounded(i * n, rest + 1)) \in 1 .. n
    <3>1. Ed!Rounded(i * n, rest + 1) \in Int
      BY <2>1, RoundedIs
    <3> QED BY <2>1, <3>1, WithinIs
  <2> DEFINE t == Ed!Within(n, Ed!Rounded(i * n, rest + 1))
  <2> HIDE DEF t
  <2>3. /\ Ed!FreeFrom(n, t, c) \in SUBSET (1 .. n)
        /\ c # 1 .. n => \E x \in (1 .. n) \ c : Ed!FreeFrom(n, t, c) = {x}
    BY <2>2, FreeFromIs DEF t
  <2>4. OneMore(i, c) = c \cup Ed!FreeFrom(n, t, c)
    BY DEF t
  <2> HIDE DEF OneMore
  <2> QED BY <2>3, <2>4
<1> HIDE DEF k, first, rest, OneMore
<1>7. \E g : Is(g)
  <2> DEFINE G == [i \in 1 .. rest |-> [c \in X |-> OneMore(i, c)]]
  <2>1. G \in Loop(rest, X)
    BY <1>6 DEF Loop
  <2>2. \A i \in 1 .. rest, c \in X : G[i][c] = OneMore(i, c)
    OBVIOUS
  <2> HIDE DEF G, X
  <2>3. PICK g : Runs(g, rest, X, first, G)
    BY <1>5, <2>1, LoopRuns
  <2>4. g \in [0 .. rest -> X] /\ g[0] = first /\ \A i \in 1 .. rest : g[i] = OneMore(i, g[i - 1])
    BY <1>5, <2>2, <2>3 DEF Runs
  <2> QED BY <1>5, <2>4
<1>8. f[0] = first /\ \A i \in 1 .. rest : f[i] = OneMore(i, f[i - 1])
  <2> DEFINE h(g) == [i \in 0 .. rest |-> IF i = 0 THEN first ELSE OneMore(i, g[i - 1])]
  <2>1. f = h(f)
    BY <1>7
  <2> HIDE DEF f
  <2>2. h(f)[0] = first /\ \A i \in 1 .. rest : h(f)[i] = OneMore(i, f[i - 1])
    BY <1>5
  <2> HIDE DEF h
  <2> QED BY <2>1, <2>2
<1> HIDE DEF f
<1> DEFINE S == {i \in 0 .. rest : /\ f[i] \in X /\ first \subseteq f[i]
                                   /\ Cardinality(f[i]) = Cardinality(first) + i}
<1>9. 0 \in S
  <2>1. f[0] \in X /\ first \subseteq f[0] /\ 0 \in 0 .. rest
    BY <1>5, <1>8
  <2>2. Cardinality(first) = Cardinality(first) + 0
    BY <1>3
  <2>3. Cardinality(f[0]) = Cardinality(first) + 0
    BY <1>8, <2>2
  <2> QED BY <2>1, <2>3
<1>10. ASSUME NEW i \in 1 .. rest, i - 1 \in S PROVE i \in S
  <2> DEFINE c == f[i - 1]
  <2>1. c \in X /\ first \subseteq c /\ Cardinality(c) = Cardinality(first) + (i - 1)
    BY <1>10
  <2>2. f[i] = OneMore(i, c) /\ i \in 0 .. rest
    <3>1. f[i] = OneMore(i, c)
      BY <1>8
    <3>2. i \in 0 .. rest
      BY <1>5
    <3> QED BY <3>1, <3>2
  <2> HIDE DEF c
  <2>3. Cardinality(c) < n
    BY <1>2, <1>3, <1>5, <2>1 DEF rest
  <2>4. IsFiniteSet(1 .. n) /\ Cardinality(1 .. n) = n
    BY FS_Interval
  <2>5. c # 1 .. n /\ IsFiniteSet(c)
    <3>1. IsFiniteSet(c)
      BY <2>1, <2>4, FS_Subset
    <3>2. c # 1 .. n
      BY <2>3, <2>4
    <3> QED BY <3>1, <3>2
  <2>6. PICK x \in (1 .. n) \ c : OneMore(i, c) = c \cup {x}
    BY <1>6, <2>1, <2>5
  <2>7. Cardinality(c \cup {x}) = Cardinality(c) + 1
    BY <2>5, FS_AddElement
  <2>8. Cardinality(f[i]) = Cardinality(first) + i
    BY <1>3, <2>1, <2>2, <2>6, <2>7
  <2> QED BY <2>1, <2>2, <2>6, <2>8
<1>11. 0 .. rest \subseteq S
  <2> HIDE DEF S
  <2> QED BY <1>5, <1>9, <1>10, Rounds
<1>12. f[rest] \in X /\ first \subseteq f[rest] /\ Cardinality(f[rest]) = k
  <2>1. rest \in S
    BY <1>5, <1>11
  <2> HIDE DEF S
  <2>2. f[rest] \in X /\ first \subseteq f[rest] /\ Cardinality(f[rest]) = Cardinality(first) + rest
    BY <2>1 DEF S
  <2> QED BY <1>2, <1>3, <2>2 DEF rest
<1>13. Range(H) \ {0} \subseteq f[rest] \/ f[rest] \subseteq Range(H) \ {0}
  <2>1. CASE Range(H) \ {0} \subseteq first
    BY <1>12, <2>1
  <2>2. CASE Cardinality(first) = k
    <3>1. rest = 0
      BY <1>2, <2>2 DEF rest
    <3> QED BY <1>3, <1>8, <3>1
  <2> QED BY <1>3, <2>1, <2>2
<1> DEFINE s == Ed!InOrder([p \in 1 .. n |-> p], f[rest])
<1>14. /\ s \in Seq(1 .. n) /\ Ascending(s) /\ Range(s) = f[rest]
       /\ Cardinality(DOMAIN s) = Cardinality(f[rest])
  BY <1>12, SortedIs
<1> HIDE DEF s
<1> QED BY <1>1, <1>12, <1>13, <1>14 DEF s, k

\* The free paragraph that is nearest.
LEMMA NearestIs ==
  ASSUME NEW n \in Nat, NEW t \in 1 .. n, NEW c \in SUBSET (1 .. n)
  PROVE  /\ Ed!Nearest(n, t, c) \in 1 .. n
         /\ c # 1 .. n => Ed!Nearest(n, t, c) \notin c
<1> DEFINE free == (1 .. n) \ c
<1>1. CASE free = {}
  <2>1. Ed!Nearest(n, t, c) = t
    BY <1>1 DEF Ed!Nearest
  <2> QED BY <1>1, <2>1
<1>2. CASE free # {}
  <2> DEFINE key(p) == IF p < t THEN 2 * (t - p) + 1 ELSE 2 * (p - t)
             K == {key(p) : p \in free}
  <2>1. K \subseteq Nat /\ K # {}
    <3>1. \A p \in free : key(p) \in Nat
      OBVIOUS
    <3> QED BY <1>2, <3>1
  <2>2. PICK m \in K : \A y \in K : m <= y
    <3> HIDE DEF K
    <3> QED BY <2>1, SomeLeast
  <2>3. PICK p \in free : m = key(p)
    OBVIOUS
  <2>4. ASSUME NEW q \in free
        PROVE  \/ Ed!Distance(p, t) < Ed!Distance(q, t)
               \/ Ed!Distance(p, t) = Ed!Distance(q, t) /\ p >= q
    <3>1. key(p) <= key(q)
      BY <2>2, <2>3
    <3>2. p \in 1 .. n /\ q \in 1 .. n
      OBVIOUS
    <3> QED BY <3>1, <3>2 DEF Ed!Distance
  <2>5. Ed!Nearest(n, t, c) = CHOOSE x \in free : \A q \in free :
             Ed!Distance(x, t) < Ed!Distance(q, t) \/ (Ed!Distance(x, t) = Ed!Distance(q, t) /\ x >= q)
    BY <1>2 DEF Ed!Nearest
  <2>6. Ed!Nearest(n, t, c) \in free
    <3> HIDE DEF free
    <3> QED BY <2>3, <2>4, <2>5
  <2> QED BY <2>6
<1> QED BY <1>1, <1>2

LEMMA WantedIs == ASSUME NEW n \in Nat, n >= 1, NEW i \in Nat PROVE Ed!Wanted(n, i) \in 1 .. n
<1> DEFINE x == n * (IF i = 0 THEN 35 ELSE IF i = 1 THEN 60 ELSE 85)
<1>1. x \in Int
  OBVIOUS
<1> HIDE DEF x
<1>2. Ed!Rounded(x, 100) \in Int
  BY <1>1, RoundedIs
<1>3. Ed!Wanted(n, i) = Ed!Within(n, Ed!Rounded(x, 100))
  BY DEF Ed!Wanted, x
<1> QED BY <1>2, <1>3, WithinIs

\* A paragraph taken is a paragraph more, until all of them are.
LEMMA TakenIsMore ==
  ASSUME NEW n \in Nat, NEW c \in SUBSET (1 .. n), NEW m \in Nat, Cardinality(c) = Least(n, m),
         NEW a \in 1 .. n, c # 1 .. n => a \notin c
  PROVE  Cardinality(c \cup {a}) = Least(n, m + 1)
<1>1. IsFiniteSet(1 .. n) /\ Cardinality(1 .. n) = n
  BY FS_Interval
<1>2. IsFiniteSet(c)
  BY <1>1, FS_Subset
<1>3. CASE c = 1 .. n
  <2>1. c \cup {a} = c
    BY <1>3
  <2> QED BY <1>1, <1>3, <2>1 DEF Least
<1>4. CASE c # 1 .. n
  <2>1. Cardinality(c) # n /\ Cardinality(c) <= n
    BY <1>1, <1>4, FS_Subset
  <2>2. Cardinality(c \cup {a}) = Cardinality(c) + 1
    BY <1>2, <1>4, FS_AddElement
  <2> QED BY <2>1, <2>2 DEF Least
<1> QED BY <1>3, <1>4

LEMMA SeqIs == ASSUME NEW S, NEW k \in Nat, NEW s \in [1 .. k -> S] PROVE s \in Seq(S)
OBVIOUS

LEMMA RangeIs == ASSUME NEW S, NEW s \in Seq(S) PROVE Range(s) \subseteq S
<1>1. \A j \in DOMAIN s : s[j] \in S
  OBVIOUS
<1> QED BY <1>1 DEF Range

LEMMA AppendIs ==
  ASSUME NEW S, NEW s \in Seq(S), NEW a \in S
  PROVE  /\ Range(s) \subseteq S
         /\ Append(s, a) \in Seq(S) /\ Len(Append(s, a)) = Len(s) + 1
         /\ Range(Append(s, a)) = Range(s) \cup {a}
<1>1. Len(s) \in Nat /\ DOMAIN s = 1 .. Len(s) /\ \A j \in DOMAIN s : s[j] \in S
  OBVIOUS
<1>2. /\ Append(s, a) \in Seq(S) /\ Len(Append(s, a)) = Len(s) + 1
      /\ DOMAIN Append(s, a) = DOMAIN s \cup {Len(s) + 1} /\ Append(s, a)[Len(s) + 1] = a
      /\ \A j \in DOMAIN s : Append(s, a)[j] = s[j]
  BY <1>1
<1> QED BY <1>1, <1>2 DEF Range

\* The embeds come to free paragraphs as long as there are any.
LEMMA EmbedsAre ==
  ASSUME NEW n \in Nat, NEW kinds \in Seq(Nat), NEW avoid \in SUBSET (1 .. n)
  PROVE  LET E == Ed!PlanEmbeds(n, kinds, avoid) IN
         /\ E \in Seq(1 .. n)
         /\ Cardinality(avoid \cup Range(E)) = Least(n, Cardinality(avoid) + Cardinality(DOMAIN E))
<1>1. IsFiniteSet(1 .. n) /\ Cardinality(1 .. n) = n
  BY FS_Interval
<1>2. Cardinality(avoid) \in Nat /\ Cardinality(avoid) <= n
  <2>1. IsFiniteSet(avoid) /\ Cardinality(avoid) <= n
    BY <1>1, FS_Subset
  <2> QED BY <2>1, FS_CardinalityType
<1>3. Cardinality(avoid) = Least(n, Cardinality(avoid) + 0)
  BY <1>2 DEF Least
<1>4. ASSUME NEW E, E = <<>>
      PROVE  /\ E \in Seq(1 .. n)
             /\ Cardinality(avoid \cup Range(E)) = Least(n, Cardinality(avoid) + Cardinality(DOMAIN E))
  <2>1. DOMAIN E = {} /\ Range(E) = {} /\ E \in Seq(1 .. n)
    BY <1>4 DEF Range
  <2>2. Cardinality(DOMAIN E) = 0 /\ avoid \cup Range(E) = avoid
    BY <2>1, FS_EmptySet
  <2> QED BY <1>3, <2>1, <2>2
<1>5. CASE n < 2
  <2>1. Ed!PlanEmbeds(n, kinds, avoid) = <<>>
    BY <1>5 DEF Ed!PlanEmbeds
  <2> QED BY <1>4, <2>1
<1>6. CASE n >= 2
  <2> DEFINE rest == Len(kinds)
             OneMore(i, at) == Append(at, Ed!Nearest(n, Ed!Wanted(n, kinds[i]), avoid \cup Ed!Range(at)))
             Is(f) == f = [i \in 0 .. rest |-> IF i = 0 THEN <<>> ELSE OneMore(i, f[i - 1])]
             f == CHOOSE g : Is(g)
             X == Seq(1 .. n)
  <2>0. \A at : Ed!Range(at) = Range(at)
    BY DEF Ed!Range, Range
  <2>1. Ed!PlanEmbeds(n, kinds, avoid) = f[rest]
    BY <1>6 DEF Ed!PlanEmbeds
  <2>2. rest \in Nat /\ \A i \in 1 .. rest : kinds[i] \in Nat
    OBVIOUS
  <2>3. \A i \in 1 .. rest, at \in X :
          \E a \in 1 .. n : /\ OneMore(i, at) = Append(at, a)
                            /\ avoid \cup Range(at) \in SUBSET (1 .. n)
                            /\ avoid \cup Range(at) # 1 .. n => a \notin avoid \cup Range(at)
    <3> SUFFICES ASSUME NEW i \in 1 .. rest, NEW at \in X
                 PROVE  \E a \in 1 .. n :
                          /\ OneMore(i, at) = Append(at, a)
                          /\ avoid \cup Range(at) \in SUBSET (1 .. n)
                          /\ avoid \cup Range(at) # 1 .. n => a \notin avoid \cup Range(at)
      OBVIOUS
    <3> DEFINE c == avoid \cup Range(at)
               t == Ed!Wanted(n, kinds[i])
    <3>1. c \in SUBSET (1 .. n)
      <4>1. 1 \in 1 .. n /\ at \in Seq(1 .. n)
        BY <1>6
      <4> QED BY <4>1, AppendIs
    <3>2. t \in 1 .. n
      <4>1. n >= 1 /\ kinds[i] \in Nat
        BY <1>6, <2>2
      <4> QED BY <4>1, WantedIs
    <3>4. OneMore(i, at) = Append(at, Ed!Nearest(n, t, c))
      BY <2>0
    <3> HIDE DEF c, t, OneMore
    <3>3. Ed!Nearest(n, t, c) \in 1 .. n /\ (c # 1 .. n => Ed!Nearest(n, t, c) \notin c)
      BY <3>1, <3>2, NearestIs
    <3> QED BY <3>1, <3>3, <3>4 DEF c
  <2>4. \A i \in 1 .. rest, at \in X : OneMore(i, at) \in X
    <3> SUFFICES ASSUME NEW i \in 1 .. rest, NEW at \in X PROVE OneMore(i, at) \in X
      OBVIOUS
    <3> HIDE DEF OneMore
    <3>1. PICK a \in 1 .. n : OneMore(i, at) = Append(at, a)
      BY <2>3
    <3>2. Append(at, a) \in X
      BY AppendIs
    <3> QED BY <3>1, <3>2
  <2> HIDE DEF rest, OneMore
  <2>5. \E g : Is(g)
    <3> DEFINE G == [i \in 1 .. rest |-> [c \in X |-> OneMore(i, c)]]
    <3>1. G \in Loop(rest, X)
      BY <2>4 DEF Loop
    <3>2. \A i \in 1 .. rest, c \in X : G[i][c] = OneMore(i, c)
      OBVIOUS
    <3>3. <<>> \in X
      OBVIOUS
    <3> HIDE DEF G, X
    <3>4. PICK g : Runs(g, rest, X, <<>>, G)
      BY <2>2, <3>1, <3>3, LoopRuns
    <3>5. g \in [0 .. rest -> X] /\ g[0] = <<>>
      BY <3>4 DEF Runs
    <3>6. \A i \in 1 .. rest : g[i] = OneMore(i, g[i - 1])
      <4> SUFFICES ASSUME NEW i \in 1 .. rest PROVE g[i] = OneMore(i, g[i - 1])
        OBVIOUS
      <4>1. g[i - 1] \in X
        BY <2>2, <3>5
      <4>2. g[i] = G[i][g[i - 1]]
        BY <3>4 DEF Runs
      <4> QED BY <3>2, <4>1, <4>2
    <3> QED BY <2>2, <3>5, <3>6
  <2>6. f[0] = <<>> /\ \A i \in 1 .. rest : f[i] = OneMore(i, f[i - 1])
    <3> DEFINE h(g) == [i \in 0 .. rest |-> IF i = 0 THEN <<>> ELSE OneMore(i, g[i - 1])]
    <3>1. f = h(f)
      BY <2>5
    <3> HIDE DEF f
    <3>2. h(f)[0] = <<>> /\ \A i \in 1 .. rest : h(f)[i] = OneMore(i, f[i - 1])
      BY <2>2
    <3> HIDE DEF h
    <3> QED BY <3>1, <3>2
  <2> HIDE DEF f
  <2> DEFINE S == {i \in 0 .. rest : /\ f[i] \in X /\ Len(f[i]) = i
                                     /\ Cardinality(avoid \cup Range(f[i])) = Least(n, Cardinality(avoid) + i)}
  <2>7. 0 \in S
    <3>1. f[0] \in X /\ Len(f[0]) = 0 /\ avoid \cup Range(f[0]) = avoid /\ 0 \in 0 .. rest
      BY <2>2, <2>6 DEF Range
    <3> QED BY <1>3, <3>1
  <2>8. ASSUME NEW i \in 1 .. rest, i - 1 \in S PROVE i \in S
    <3> DEFINE at == f[i - 1]
    <3>1. /\ at \in X /\ Len(at) = i - 1
          /\ Cardinality(avoid \cup Range(at)) = Least(n, Cardinality(avoid) + (i - 1))
      BY <2>8
    <3>2. f[i] = OneMore(i, at) /\ i \in 0 .. rest
      BY <2>2, <2>6
    <3> HIDE DEF at
    <3>3. PICK a \in 1 .. n : /\ OneMore(i, at) = Append(at, a)
                              /\ avoid \cup Range(at) \in SUBSET (1 .. n)
                              /\ avoid \cup Range(at) # 1 .. n => a \notin avoid \cup Range(at)
      BY <2>3, <3>1
    <3>4. f[i] \in X /\ Len(f[i]) = i /\ Range(f[i]) = Range(at) \cup {a}
      <4>1. f[i] = Append(at, a) /\ Len(at) + 1 = i
        BY <2>2, <3>1, <3>2, <3>3
      <4> QED BY <3>1, <4>1, AppendIs
    <3>5. Cardinality((avoid \cup Range(at)) \cup {a}) = Least(n, Cardinality(avoid) + i)
      <4> DEFINE m == Cardinality(avoid) + (i - 1)
                 c == avoid \cup Range(at)
      <4>1. m \in Nat /\ Cardinality(avoid) + i = m + 1
        BY <1>2
      <4>2. c \in SUBSET (1 .. n) /\ Cardinality(c) = Least(n, m) /\ (c # 1 .. n => a \notin c)
        BY <3>1, <3>3
      <4> HIDE DEF m, c
      <4>3. Cardinality(c \cup {a}) = Least(n, m + 1)
        BY <4>1, <4>2, TakenIsMore
      <4> QED BY <4>1, <4>3 DEF c
    <3>6. avoid \cup Range(f[i]) = (avoid \cup Range(at)) \cup {a}
      BY <3>4
    <3> QED BY <3>2, <3>4, <3>5, <3>6
  <2>9. 0 .. rest \subseteq S
    <3> HIDE DEF S
    <3> QED BY <2>2, <2>7, <2>8, Rounds
  <2>10. rest \in S
    <3> HIDE DEF S
    <3> QED BY <2>2, <2>9
  <2>11. f[rest] \in X /\ DOMAIN f[rest] = 1 .. rest
    BY <2>10
  <2>12. Cardinality(DOMAIN f[rest]) = rest
    <3>1. Cardinality(1 .. rest) = rest
      <4> HIDE DEF S, X
      <4> QED BY <2>2, FS_Interval
    <3> QED BY <2>11, <3>1
  <2> QED BY <2>1, <2>10, <2>11, <2>12
<1> QED BY <1>5, <1>6

-----------------------------------------------------------------------------
(* The layout.  What the proof speaks of: what the slots got is different, *)
(* the images of the text go up, and none of them is the cover.            *)

EdStep == {"review", "illustrate", "fill", "cover", "inline", "embeds", "create", "done", "failed"}
Pictured == Image \cup {Generated}
Shown == [image : Pictured, of : 1 .. Length]

Unlike(x, y) == x = y => x = Generated
Mounting(s) == \A i, j \in DOMAIN s : i < j => s[i].of < s[j].of /\ Unlike(s[i].image, s[j].image)
Beneath(s, t) == \A i \in DOMAIN s, j \in DOMAIN t : s[i].of < t[j].of /\ Unlike(s[i].image, t[j].image)
Uncovering(s) == \A i \in DOMAIN s : Unlike(s[i].image, featured)

LayoutTypes ==
  /\ stage \in EdStep
  /\ Length \in Nat
  /\ stage \in {"review", "illustrate", "fill"} => hints \in Seq(0 .. Length)
  /\ featured \in Pictured \cup {NoImage}
  /\ waiting \in Seq(Shown) /\ uploaded \in Seq(Shown)

SlotsInv ==
  stage = "fill" =>
    /\ slots.at \in Seq(1 .. Length) /\ Ascending(slots.at)
    /\ PlanIsFull

ImagesInv ==
  stage \in {"review", "illustrate", "fill"} =>
    /\ images \in Seq(Pictured \cup {NoImage})
    /\ stage # "fill" => images = <<>>
    /\ stage = "fill" => Len(images) <= Len(slots.at) + 1
    /\ \A i \in DOMAIN images : images[i] \in Image => images[i] \in taken
    /\ \A i, j \in DOMAIN images : i < j /\ images[i] \in Image => images[i] # images[j]

ShownInv ==
  /\ stage \in {"review", "illustrate", "fill"} => featured = NoImage /\ waiting = <<>>
  /\ stage \in {"review", "illustrate", "fill", "cover"} => uploaded = <<>>
  /\ Mounting(uploaded) /\ Mounting(waiting) /\ Beneath(uploaded, waiting)
  /\ Uncovering(uploaded) /\ Uncovering(waiting)

EmbedsInv ==
  /\ stage \notin {"create", "done"} => embeds = <<>> \/ stage = "failed"
  /\ stage \in {"create", "done"} =>
       Cardinality({p.at : p \in Injected} \cup Range(embeds))
         = Least(Length, Cardinality(DOMAIN uploaded) + Cardinality(DOMAIN embeds))

CoveredInv == stage = "done" => (post = "publish" /\ job.images => featured # NoImage)

LayoutInv == LayoutTypes /\ SlotsInv /\ ImagesInv /\ ShownInv /\ EmbedsInv /\ CoveredInv

\* The images of the text are at as many paragraphs.
LEMMA InjectedIs ==
  ASSUME Length \in Nat, uploaded \in Seq(Shown), Mounting(uploaded)
  PROVE  /\ {p.at : p \in Injected} \in SUBSET (1 .. Length)
         /\ Cardinality({p.at : p \in Injected}) = Cardinality(DOMAIN uploaded)
         /\ Cardinality(DOMAIN uploaded) \in Nat /\ Cardinality(DOMAIN uploaded) <= Length
<1> DEFINE at == {p.at : p \in Injected}
           f == [i \in DOMAIN uploaded |-> uploaded[i].of]
<1>1. Len(uploaded) \in Nat /\ DOMAIN uploaded = 1 .. Len(uploaded)
  OBVIOUS
<1>2. \A i \in DOMAIN uploaded : uploaded[i].of \in 1 .. Length
  <2>1. \A i \in DOMAIN uploaded : uploaded[i] \in Shown
    OBVIOUS
  <2> QED BY <2>1 DEF Shown
<1>3. at = {uploaded[i].of : i \in DOMAIN uploaded}
  <2> DEFINE F(i) == [image |-> uploaded[i].image, of |-> uploaded[i].of, at |-> uploaded[i].of]
  <2>1. Injected = {F(i) : i \in DOMAIN uploaded}
    BY DEF Injected
  <2>2. \A i : F(i).at = uploaded[i].of
    OBVIOUS
  <2> HIDE DEF F
  <2> QED BY <2>1, <2>2
<1>4. f \in Surjection(DOMAIN uploaded, at)
  BY <1>3 DEF Surjection
<1>5. \A i, j \in DOMAIN uploaded : f[i] = f[j] => i = j
  <2> SUFFICES ASSUME NEW i \in DOMAIN uploaded, NEW j \in DOMAIN uploaded, i < j PROVE f[i] # f[j]
    BY <1>1
  <2>1. uploaded[i].of < uploaded[j].of
    BY DEF Mounting
  <2> QED BY <1>2, <2>1
<1>6. f \in Bijection(DOMAIN uploaded, at)
  <2>1. f \in Injection(DOMAIN uploaded, at)
    BY <1>3, <1>5 DEF Injection, IsInjective
  <2> QED BY <1>4, <2>1 DEF Bijection
<1>7. IsFiniteSet(DOMAIN uploaded) /\ Cardinality(DOMAIN uploaded) = Len(uploaded)
  BY <1>1, FS_Interval
<1>8. at \in SUBSET (1 .. Length)
  BY <1>2, <1>3
<1>9. IsFiniteSet(1 .. Length) /\ Cardinality(1 .. Length) = Length
  BY FS_Interval
<1> HIDE DEF at, f
<1>10. IsFiniteSet(at) /\ Cardinality(at) <= Length
  BY <1>8, <1>9, FS_Subset
<1>11. Cardinality(at) = Cardinality(DOMAIN uploaded)
  <2>1. ExistsBijection(DOMAIN uploaded, at)
    BY <1>6 DEF ExistsBijection
  <2> QED BY <1>7, <2>1, FS_Bijection
<1> QED BY <1>1, <1>7, <1>8, <1>10, <1>11 DEF at

LEMMA LayoutIsLaid == Ed!EditorialAssumption /\ LayoutInv => PostIsLaidOut
<1> SUFFICES ASSUME Ed!EditorialAssumption, LayoutInv PROVE PlanIsFull /\ LaidOut
  BY DEF PostIsLaidOut
<1>1. PlanIsFull
  BY DEF LayoutInv, SlotsInv, PlanIsFull
<1>2. LaidOut
  <2> SUFFICES ASSUME stage = "done" PROVE LaidOut
    BY DEF LaidOut
  <2>1. /\ uploaded \in Seq(Shown) /\ Mounting(uploaded) /\ Uncovering(uploaded)
        /\ Cardinality({p.at : p \in Injected} \cup Range(embeds))
             = Least(Length, Cardinality(DOMAIN uploaded) + Cardinality(DOMAIN embeds))
        /\ post = "publish" /\ job.images => featured # NoImage
    BY DEF LayoutInv, LayoutTypes, ShownInv, EmbedsInv, CoveredInv
  <2>2. NoImage \notin Pictured
    BY DEF Ed!EditorialAssumption, Pictured, Ed!Generated, Generated
  <2>3. \A i \in DOMAIN uploaded : uploaded[i].image \in Pictured /\ uploaded[i].image # NoImage
    <3>1. \A i \in DOMAIN uploaded : uploaded[i] \in Shown
      BY <2>1
    <3>2. \A p \in Shown : p.image \in Pictured
      BY DEF Shown
    <3> QED BY <2>2, <3>1, <3>2
  <2>4. \A i, j \in DOMAIN uploaded : i # j => Unlike(uploaded[i].image, uploaded[j].image)
    <3> SUFFICES ASSUME NEW i \in DOMAIN uploaded, NEW j \in DOMAIN uploaded, i < j
                 PROVE  Unlike(uploaded[i].image, uploaded[j].image)
      BY <2>1 DEF Unlike
    <3> QED BY <2>1 DEF Mounting
  <2>5. \A p \in Injected : \E i \in DOMAIN uploaded :
          p = [image |-> uploaded[i].image, of |-> uploaded[i].of, at |-> uploaded[i].of]
    BY DEF Injected
  <2> DEFINE blank == [image |-> NoImage, of |-> 0, at |-> 0]
             own == Injected \cup {blank}
  <2>6. ASSUME NEW p \in own, NEW q \in own, p # q, p.image # Generated PROVE p.image # q.image
    <3>1. CASE p \in Injected /\ q \in Injected
      <4>1. PICK i \in DOMAIN uploaded : p = [image |-> uploaded[i].image, of |-> uploaded[i].of, at |-> uploaded[i].of]
        BY <2>5, <3>1
      <4>2. PICK j \in DOMAIN uploaded : q = [image |-> uploaded[j].image, of |-> uploaded[j].of, at |-> uploaded[j].of]
        BY <2>5, <3>1
      <4>3. i # j
        BY <2>6, <4>1, <4>2
      <4> QED BY <2>4, <2>6, <4>1, <4>2, <4>3 DEF Unlike
    <3>2. \A r \in Injected : r.image # NoImage
      BY <2>3, <2>5
    <3>3. blank.image = NoImage
      OBVIOUS
    <3> HIDE DEF blank
    <3>4. p = blank \/ p \in Injected
      OBVIOUS
    <3>5. q = blank \/ q \in Injected
      OBVIOUS
    <3> QED BY <2>6, <3>1, <3>2, <3>3, <3>4, <3>5
  <2>7. ASSUME NEW p \in Injected, p.image # Generated PROVE p.image # featured
    <3>1. PICK i \in DOMAIN uploaded : p.image = uploaded[i].image
      BY <2>5
    <3> QED BY <2>1, <2>7, <3>1 DEF Uncovering, Unlike
  <2>8. \A p \in Injected : p.at = p.of
    BY <2>5
  <2> QED BY <2>1, <2>6, <2>7, <2>8 DEF LaidOut
<1> QED BY <1>1, <1>2

LEMMA LengthStays == ASSUME draft' = draft PROVE Length' = Length /\ Shown' = Shown /\ Ed!Length = Length
BY DEF Length, Ed!Length, Shown

LEMMA InitLayout == Ed!EditorialAssumption /\ Ed!Init => LayoutInv
<1> SUFFICES ASSUME Ed!EditorialAssumption, Ed!Init PROVE LayoutInv
  OBVIOUS
<1>1. /\ stage = "review" /\ hints = <<>> /\ images = <<>> /\ featured = NoImage /\ waiting = <<>>
      /\ uploaded = <<>> /\ embeds = <<>> /\ Length \in Nat
  BY DEF Ed!Init, Ed!EditorialAssumption, Length
<1> QED BY <1>1 DEF LayoutInv, LayoutTypes, SlotsInv, ImagesInv, ShownInv, EmbedsInv, CoveredInv, EdStep,
        Mounting, Beneath, Uncovering

LEMMA ReviewLayout == Ed!EditorialAssumption /\ LayoutInv /\ Ed!Review => LayoutInv'
<1> SUFFICES ASSUME Ed!EditorialAssumption, LayoutInv, Ed!Review PROVE LayoutInv'
  OBVIOUS
<1>1. /\ stage = "review" /\ stage' = "illustrate"
      /\ UNCHANGED <<job, draft, slots, images, taken, featured, waiting, uploaded, embeds, post>>
      /\ hints' = hints \/ hints' \in Ed!Hints
  BY DEF Ed!Review, Ed!pictures, Ed!uploads
<1>2. Length' = Length /\ Shown' = Shown /\ Ed!Length = Length
  BY <1>1, LengthStays
<1>3. hints' \in Seq(0 .. Length)
  <2>1. hints \in Seq(0 .. Length)
    BY <1>1 DEF LayoutInv, LayoutTypes
  <2>2. ASSUME hints' \in Ed!Hints PROVE hints' \in Seq(0 .. Length)
    <3>1. PICK k \in 0 .. MaxHints : hints' \in [1 .. k -> 0 .. Length]
      BY <1>2, <2>2 DEF Ed!Hints
    <3>2. k \in Nat
      BY DEF Ed!EditorialAssumption
    <3> DEFINE P == 0 .. Length
    <3>3. hints' \in [1 .. k -> P]
      BY <3>1
    <3> HIDE DEF P
    <3>4. hints' \in Seq(P)
      BY <3>2, <3>3, SeqIs
    <3> QED BY <3>4 DEF P
  <2> QED BY <1>1, <2>1, <2>2
<1>4. LayoutTypes'
  BY <1>1, <1>2, <1>3 DEF LayoutInv, LayoutTypes, EdStep
<1>5. ImagesInv'
  BY <1>1 DEF LayoutInv, ImagesInv
<1>6. ShownInv'
  BY <1>1 DEF LayoutInv, ShownInv, Mounting, Beneath, Uncovering
<1> QED BY <1>1, <1>4, <1>5, <1>6 DEF LayoutInv, SlotsInv, EmbedsInv, CoveredInv

LEMMA IllustrateLayout == Ed!EditorialAssumption /\ LayoutInv /\ Ed!Illustrate => LayoutInv'
<1> SUFFICES ASSUME Ed!EditorialAssumption, LayoutInv, Ed!Illustrate PROVE LayoutInv'
  OBVIOUS
<1>1. /\ stage = "illustrate"
      /\ UNCHANGED <<job, draft, text, images, taken, featured, waiting, uploaded, embeds, post>>
  BY DEF Ed!Illustrate, Ed!uploads
<1>2. Length' = Length /\ Shown' = Shown /\ Ed!Length = Length
  BY <1>1, LengthStays
<1>0. /\ hints \in Seq(0 .. Length) /\ Length \in Nat /\ images = <<>>
      /\ embeds = <<>> /\ uploaded = <<>> /\ featured = NoImage /\ waiting = <<>>
  BY <1>1 DEF LayoutInv, LayoutTypes, ImagesInv, ShownInv, EmbedsInv
<1>3. CASE stage' = "embeds"
  BY <1>0, <1>1, <1>2, <1>3 DEF LayoutInv, LayoutTypes, SlotsInv, ImagesInv, ShownInv, EmbedsInv, CoveredInv, EdStep,
        Mounting, Beneath, Uncovering
<1>4. CASE stage' # "embeds"
  <2>1. stage' = "fill" /\ hints' = hints
    BY <1>4 DEF Ed!Illustrate
  <2>2. PICK suggested \in 0 .. InlineMax :
          LET count == Ed!Least(InlineMax, IF suggested < Len(hints) THEN Len(hints) ELSE suggested)
          IN  slots' = [wanted |-> count, at |-> Ed!Plan(Length, count, hints)]
    BY <1>2, <1>4 DEF Ed!Illustrate
  <2> DEFINE count == Ed!Least(InlineMax, IF suggested < Len(hints) THEN Len(hints) ELSE suggested)
  <2>3. count \in Nat
    BY <1>0 DEF Ed!Least, Ed!EditorialAssumption
  <2>4. slots' = [wanted |-> count, at |-> Ed!Plan(Length, count, hints)]
    BY <2>2
  <2> HIDE DEF count
  <2> DEFINE at == Ed!Plan(Length, count, hints)
             named == Range(hints) \ {0}
  <2>5. /\ at \in Seq(1 .. Length) /\ Ascending(at)
        /\ Cardinality(DOMAIN at) = Least(count, Length)
        /\ Cardinality(Range(at)) = Least(count, Length)
        /\ named \subseteq Range(at) \/ Range(at) \subseteq named
    BY <1>0, <2>3, PlanIs
  <2>6. slots'.wanted = count /\ slots'.at = at
    BY <2>4
  <2> HIDE DEF at
  <2>7. Range(at) \subseteq 1 .. Length
    <3> DEFINE P == 1 .. Length
    <3>1. at \in Seq(P)
      BY <2>5
    <3> HIDE DEF P
    <3>2. Range(at) \subseteq P
      BY <3>1, RangeIs
    <3> QED BY <3>2 DEF P
  <2>8. PlanIsFull'
    BY <1>2, <2>1, <2>5, <2>6, <2>7 DEF PlanIsFull
  <2>9. SlotsInv'
    BY <1>2, <2>5, <2>6, <2>8 DEF SlotsInv, Ascending
  <2>10. ImagesInv'
    <3>1. Len(at) \in Nat /\ DOMAIN images = {} /\ Len(images) = 0
      BY <1>0, <2>5
    <3> QED BY <1>0, <1>1, <2>1, <2>6, <3>1 DEF ImagesInv
  <2>11. LayoutTypes'
    BY <1>0, <1>1, <1>2, <2>1 DEF LayoutInv, LayoutTypes, EdStep
  <2>12. ShownInv'
    BY <1>0, <1>1, <2>1 DEF ShownInv, Mounting, Beneath, Uncovering
  <2> QED BY <1>0, <1>1, <2>1, <2>9, <2>10, <2>11, <2>12 DEF LayoutInv, EmbedsInv, CoveredInv
<1> QED BY <1>3, <1>4

LEMMA FillSlotLayout == Ed!EditorialAssumption /\ LayoutInv /\ Ed!FillSlot => LayoutInv'
<1> SUFFICES ASSUME Ed!EditorialAssumption, LayoutInv, Ed!FillSlot PROVE LayoutInv'
  OBVIOUS
<1>1. /\ stage = "fill" /\ stage' = stage /\ Len(images) <= Len(slots.at)
      /\ UNCHANGED <<job, draft, text, hints, slots, featured, waiting, uploaded, embeds, post>>
  BY DEF Ed!FillSlot, Ed!Filling, Ed!review, Ed!uploads
<1>2. Length' = Length /\ Shown' = Shown
  BY <1>1, LengthStays
<1>3. PICK x \in Pictured \cup {NoImage} :
        /\ images' = Append(images, x)
        /\ x \in Image => x \notin taken /\ x \in taken'
        /\ taken \subseteq taken'
  <2>1. Generated \notin Image /\ NoImage \notin Image
    BY DEF Ed!EditorialAssumption, Ed!Generated, Generated
  <2>2. \/ \E x \in Image \ taken : images' = Append(images, x) /\ taken' = taken \cup {x}
        \/ images' = Append(images, Generated) /\ taken' = taken
        \/ images' = Append(images, NoImage) /\ taken' = taken
    BY DEF Ed!FillSlot, Ed!Got, Ed!Fresh, Ed!Generated, Generated
  <2> QED BY <2>1, <2>2 DEF Pictured
<1>4. /\ images \in Seq(Pictured \cup {NoImage})
      /\ \A i \in DOMAIN images : images[i] \in Image => images[i] \in taken
      /\ \A i, j \in DOMAIN images : i < j /\ images[i] \in Image => images[i] # images[j]
      /\ slots.at \in Seq(1 .. Length)
  BY <1>1 DEF LayoutInv, ImagesInv, SlotsInv
<1>5. /\ images' \in Seq(Pictured \cup {NoImage}) /\ Len(images') = Len(images) + 1 /\ Len(images) \in Nat
      /\ DOMAIN images' = DOMAIN images \cup {Len(images) + 1} /\ images'[Len(images) + 1] = x
      /\ \A i \in DOMAIN images : images'[i] = images[i] /\ i < Len(images) + 1 /\ ~ (Len(images) + 1 < i)
  BY <1>3, <1>4
<1>6. ImagesInv'
  <2>1. Len(slots.at) \in Nat /\ Len(images') <= Len(slots.at) + 1
    BY <1>1, <1>4, <1>5
  <2>2. \A i \in DOMAIN images' : images'[i] \in Image => images'[i] \in taken'
    BY <1>3, <1>4, <1>5
  <2>3. \A i, j \in DOMAIN images' : i < j /\ images'[i] \in Image => images'[i] # images'[j]
    <3> SUFFICES ASSUME NEW i \in DOMAIN images', NEW j \in DOMAIN images', i < j, images'[i] \in Image
                 PROVE  images'[i] # images'[j]
      OBVIOUS
    <3>1. CASE i \in DOMAIN images /\ j \in DOMAIN images
      BY <1>4, <1>5, <3>1
    <3>2. CASE i \in DOMAIN images /\ j = Len(images) + 1
      BY <1>3, <1>4, <1>5, <3>2
    <3>3. CASE i = Len(images) + 1
      BY <1>5, <3>3
    <3> QED BY <1>5, <3>1, <3>2, <3>3
  <2> QED BY <1>1, <1>5, <2>1, <2>2, <2>3 DEF ImagesInv
<1>7. LayoutTypes'
  BY <1>1, <1>2 DEF LayoutInv, LayoutTypes
<1>8. SlotsInv'
  BY <1>1, <1>2 DEF LayoutInv, SlotsInv, PlanIsFull, Ascending
<1>9. ShownInv'
  BY <1>1 DEF LayoutInv, ShownInv, Mounting, Beneath, Uncovering
<1> QED BY <1>1, <1>6, <1>7, <1>8, <1>9 DEF LayoutInv, EmbedsInv, CoveredInv

LEMMA EndFillingLayout == Ed!EditorialAssumption /\ LayoutInv /\ Ed!EndFilling => LayoutInv'
<1> SUFFICES ASSUME Ed!EditorialAssumption, LayoutInv, Ed!EndFilling PROVE LayoutInv'
  OBVIOUS
<1>1. /\ stage = "fill" /\ stage' = "cover"
      /\ featured' = IF images = <<>> THEN NoImage ELSE images[1]
      /\ waiting' = Ed!Chosen
      /\ UNCHANGED <<job, draft, text, uploaded, embeds, post>>
  BY DEF Ed!EndFilling
<1>2. Length' = Length /\ Shown' = Shown
  BY <1>1, LengthStays
<1>3. /\ images \in Seq(Pictured \cup {NoImage}) /\ Len(images) <= Len(slots.at) + 1
      /\ \A i, j \in DOMAIN images : i < j /\ images[i] \in Image => images[i] # images[j]
      /\ slots.at \in Seq(1 .. Length) /\ Ascending(slots.at)
      /\ uploaded = <<>> /\ embeds = <<>> /\ Length \in Nat
  BY <1>1 DEF LayoutInv, LayoutTypes, ImagesInv, SlotsInv, ShownInv, EmbedsInv
<1>4. /\ Len(images) \in Nat /\ Len(slots.at) \in Nat /\ DOMAIN images = 1 .. Len(images)
      /\ DOMAIN slots.at = 1 .. Len(slots.at)
  BY <1>3
<1> DEFINE m == Len(images) - 1
           mine == [i \in 1 .. m |-> [image |-> images[i + 1], of |-> slots.at[i]]]
           I == {i \in 1 .. m : images[i + 1] # NoImage}
           q == waiting'
<1>5. q = InOrder(mine, I)
  BY <1>1, PlaceOrderAgrees DEF Ed!Chosen
<1>6. I \in SUBSET (1 .. Len(slots.at))
  BY <1>3, <1>4
<1>7. PICK f \in [1 .. Cardinality(I) -> I] :
        /\ \A k, l \in 1 .. Cardinality(I) : k < l => f[k] < f[l]
        /\ \A s : InOrder(s, I) = [k \in 1 .. Cardinality(I) |-> s[f[k]]]
  <2> HIDE DEF I
  <2> QED BY <1>4, <1>6, InOrderPicks
<1>8. Cardinality(I) \in Nat
  <2> HIDE DEF I
  <2> QED BY <1>4, <1>6, InOrderPicks
<1> DEFINE N == Cardinality(I)
<1>9. \A i \in I : /\ i \in DOMAIN slots.at /\ i + 1 \in DOMAIN images /\ 1 < i + 1 /\ i \in Nat
                   /\ images[i + 1] \in Pictured
                   /\ mine[i] = [image |-> images[i + 1], of |-> slots.at[i]]
  BY <1>3, <1>4
<1>10. DOMAIN q = 1 .. N /\ \A k \in 1 .. N : /\ f[k] \in I
                                              /\ q[k] = [image |-> images[f[k] + 1], of |-> slots.at[f[k]]]
  <2>1. q = [k \in 1 .. N |-> mine[f[k]]]
    BY <1>5, <1>7
  <2> HIDE DEF q, mine, I
  <2>2. \A k \in 1 .. N : f[k] \in I /\ q[k] = mine[f[k]]
    BY <1>7, <2>1
  <2> QED BY <1>9, <2>1, <2>2
<1>11. q = [k \in 1 .. N |-> q[k]]
  BY <1>5, <1>7
<1> HIDE DEF q, mine, I, N
<1>12. \A k \in DOMAIN q : q[k].image = images[f[k] + 1] /\ q[k].of = slots.at[f[k]]
  BY <1>10
<1>13. q \in Seq(Shown)
  <2>1. \A k \in 1 .. N : q[k] \in Shown
    <3> SUFFICES ASSUME NEW k \in 1 .. N PROVE q[k] \in Shown
      OBVIOUS
    <3>1. f[k] \in I /\ q[k] = [image |-> images[f[k] + 1], of |-> slots.at[f[k]]]
      BY <1>10
    <3>2. images[f[k] + 1] \in Pictured /\ slots.at[f[k]] \in 1 .. Length
      BY <1>3, <1>9, <3>1
    <3> QED BY <3>1, <3>2 DEF Shown
  <2>2. q \in [1 .. N -> Shown]
    BY <1>11, <2>1
  <2> QED BY <1>8, <2>2, SeqIs DEF N
<1>14. \A i, j \in DOMAIN images : i < j => Unlike(images[i], images[j]) \/ images[i] = NoImage
  <2> SUFFICES ASSUME NEW i \in DOMAIN images, NEW j \in DOMAIN images, i < j, images[i] # NoImage,
                      images[i] = images[j]
               PROVE  images[i] = Generated
    BY DEF Unlike
  <2>1. images[i] \in Pictured \cup {NoImage}
    BY <1>3
  <2>2. images[i] \notin Image
    BY <1>3
  <2> QED BY <2>1, <2>2 DEF Pictured
<1>15. Mounting(q)
  <2> SUFFICES ASSUME NEW k \in DOMAIN q, NEW l \in DOMAIN q, k < l
               PROVE  q[k].of < q[l].of /\ Unlike(q[k].image, q[l].image)
    BY DEF Mounting
  <2>1. f[k] \in I /\ f[l] \in I /\ f[k] < f[l]
    BY <1>7, <1>10 DEF N
  <2>2. slots.at[f[k]] < slots.at[f[l]]
    BY <1>3, <1>9, <2>1 DEF Ascending
  <2>3. f[k] + 1 \in DOMAIN images /\ f[l] + 1 \in DOMAIN images /\ f[k] + 1 < f[l] + 1
    <3> DEFINE a == f[k]
               b == f[l]
    <3>1. a \in I /\ b \in I /\ a < b
      BY <2>1
    <3> HIDE DEF a, b
    <3>2. a + 1 \in DOMAIN images /\ b + 1 \in DOMAIN images /\ a \in Nat /\ b \in Nat
      BY <1>9, <3>1
    <3>3. a + 1 < b + 1
      BY <3>1, <3>2
    <3> QED BY <3>2, <3>3 DEF a, b
  <2>4. images[f[k] + 1] # NoImage
    BY <2>1 DEF I
  <2>5. Unlike(images[f[k] + 1], images[f[l] + 1])
    BY <1>14, <2>3, <2>4
  <2> QED BY <1>12, <2>2, <2>5
<1>16. featured' \in Pictured \cup {NoImage} /\ \A k \in DOMAIN q : Unlike(q[k].image, featured')
  <2>1. CASE images = <<>>
    <3>1. featured' = NoImage /\ N = 0
      <4>1. 1 .. m = {}
        BY <2>1
      <4>2. I = {}
        BY <4>1 DEF I
      <4> QED BY <1>1, <2>1, <4>2, FS_EmptySet DEF N
    <3> QED BY <1>10, <3>1
  <2>2. CASE images # <<>>
    <3>1. 1 \in DOMAIN images /\ featured' = images[1]
      BY <1>1, <1>3, <1>4, <2>2
    <3>2. ASSUME NEW k \in DOMAIN q PROVE Unlike(q[k].image, featured')
      <4>1. f[k] \in I /\ f[k] + 1 \in DOMAIN images /\ 1 < f[k] + 1
        BY <1>9, <1>10
      <4>2. Unlike(images[1], images[f[k] + 1]) \/ images[1] = NoImage
        BY <1>14, <3>1, <4>1
      <4>3. images[f[k] + 1] # NoImage
        BY <4>1 DEF I
      <4> QED BY <1>12, <3>1, <4>2, <4>3 DEF Unlike
    <3> QED BY <1>3, <3>1, <3>2
  <2> QED BY <2>1, <2>2
<1>17. LayoutTypes'
  BY <1>1, <1>2, <1>3, <1>13, <1>16 DEF LayoutTypes, EdStep, q
<1>18. ShownInv'
  <2>1. uploaded' = <<>> /\ DOMAIN uploaded' = {}
    BY <1>1, <1>3
  <2> QED BY <1>1, <1>15, <1>16, <2>1 DEF ShownInv, Mounting, Beneath, Uncovering, q
<1> QED BY <1>1, <1>3, <1>17, <1>18 DEF LayoutInv, SlotsInv, ImagesInv, EmbedsInv, CoveredInv

\* Without its first image the rest is as it was.
LEMMA TailIsShown ==
  ASSUME NEW s \in Seq(Shown), s # <<>>
  PROVE  /\ Tail(s) \in Seq(Shown) /\ Head(s) = s[1] /\ 1 \in DOMAIN s /\ s[1] \in Shown
         /\ \A i \in DOMAIN Tail(s) : i \in Nat /\ i + 1 \in DOMAIN s /\ 1 < i + 1 /\ Tail(s)[i] = s[i + 1]
OBVIOUS

LEMMA TailIsMounting ==
  ASSUME NEW s \in Seq(Shown), s # <<>>, Mounting(s)
  PROVE  /\ Mounting(Tail(s))
         /\ \A i \in DOMAIN Tail(s) : s[1].of < Tail(s)[i].of /\ Unlike(s[1].image, Tail(s)[i].image)
<1>1. 1 \in DOMAIN s /\ \A i \in DOMAIN Tail(s) : i \in Nat /\ i + 1 \in DOMAIN s /\ 1 < i + 1 /\ Tail(s)[i] = s[i + 1]
  BY TailIsShown
<1>2. \A i, j \in DOMAIN Tail(s) : i < j => i + 1 < j + 1
  BY <1>1
<1> QED BY <1>1, <1>2 DEF Mounting

LEMMA CoverLayout == Ed!EditorialAssumption /\ LayoutInv /\ Ed!UploadCover => LayoutInv'
<1> SUFFICES ASSUME Ed!EditorialAssumption, LayoutInv, Ed!UploadCover PROVE LayoutInv'
  OBVIOUS
<1>1. /\ stage = "cover" /\ stage' \in {"cover", "inline"}
      /\ UNCHANGED <<job, draft, text, hints, slots, images, taken, uploaded, embeds, post>>
      /\ \/ UNCHANGED <<featured, waiting>>
         \/ waiting = <<>> /\ featured' = NoImage /\ waiting' = waiting
         \/ waiting # <<>> /\ featured' = Head(waiting).image /\ waiting' = Tail(waiting)
  BY DEF Ed!UploadCover, Ed!review, Ed!pictures
<1>2. Length' = Length /\ Shown' = Shown
  BY <1>1, LengthStays
<1>3. /\ uploaded = <<>> /\ embeds = <<>> /\ waiting \in Seq(Shown) /\ Mounting(waiting) /\ Uncovering(waiting)
      /\ Length \in Nat /\ featured \in Pictured \cup {NoImage}
  BY <1>1 DEF LayoutInv, LayoutTypes, ShownInv, EmbedsInv
<1>4. /\ waiting' \in Seq(Shown) /\ featured' \in Pictured \cup {NoImage} /\ Mounting(waiting)'
      /\ \A i \in DOMAIN waiting' : Unlike(waiting'[i].image, featured')
  <2>1. CASE UNCHANGED <<featured, waiting>>
    BY <1>3, <2>1 DEF Mounting, Uncovering
  <2>2. CASE waiting = <<>> /\ featured' = NoImage /\ waiting' = waiting
    BY <1>3, <2>2 DEF Mounting
  <2>3. CASE waiting # <<>> /\ featured' = Head(waiting).image /\ waiting' = Tail(waiting)
    <3>1. Tail(waiting) \in Seq(Shown) /\ Head(waiting) = waiting[1] /\ waiting[1] \in Shown
      BY <1>3, <2>3, TailIsShown
    <3>2. /\ Mounting(Tail(waiting))
          /\ \A i \in DOMAIN Tail(waiting) : Unlike(waiting[1].image, Tail(waiting)[i].image)
      BY <1>3, <2>3, TailIsMounting
    <3>3. featured' = waiting[1].image /\ waiting[1].image \in Pictured
      BY <2>3, <3>1 DEF Shown
    <3>4. Mounting(waiting)'
      BY <2>3, <3>2 DEF Mounting
    <3> QED BY <2>3, <3>1, <3>2, <3>3, <3>4 DEF Unlike
  <2> QED BY <1>1, <2>1, <2>2, <2>3
<1>5. LayoutTypes'
  BY <1>1, <1>2, <1>3, <1>4 DEF LayoutTypes, EdStep
<1>6. ShownInv'
  <2>1. uploaded' = <<>> /\ DOMAIN uploaded' = {}
    BY <1>1, <1>3
  <2> QED BY <1>1, <1>4, <2>1 DEF ShownInv, Mounting, Beneath, Uncovering
<1> QED BY <1>1, <1>3, <1>5, <1>6 DEF LayoutInv, SlotsInv, ImagesInv, EmbedsInv, CoveredInv

LEMMA InlineLayout == Ed!EditorialAssumption /\ LayoutInv /\ Ed!UploadInline => LayoutInv'
<1> SUFFICES ASSUME Ed!EditorialAssumption, LayoutInv, Ed!UploadInline PROVE LayoutInv'
  OBVIOUS
<1>1. /\ stage = "inline" /\ stage' \in {"inline", "embeds"}
      /\ UNCHANGED <<job, draft, text, hints, slots, images, taken, featured, embeds, post>>
      /\ \/ UNCHANGED <<waiting, uploaded>>
         \/ waiting # <<>> /\ waiting' = Tail(waiting) /\ uploaded' \in {uploaded, Append(uploaded, Head(waiting))}
  BY DEF Ed!UploadInline, Ed!review, Ed!pictures
<1>2. Length' = Length /\ Shown' = Shown
  BY <1>1, LengthStays
<1>3. /\ embeds = <<>> /\ waiting \in Seq(Shown) /\ uploaded \in Seq(Shown)
      /\ Mounting(uploaded) /\ Mounting(waiting) /\ Beneath(uploaded, waiting)
      /\ Uncovering(uploaded) /\ Uncovering(waiting)
      /\ Length \in Nat /\ featured \in Pictured \cup {NoImage}
  BY <1>1 DEF LayoutInv, LayoutTypes, ShownInv, EmbedsInv
<1>4. /\ waiting' \in Seq(Shown) /\ uploaded' \in Seq(Shown)
      /\ Mounting(uploaded)' /\ Mounting(waiting)' /\ Beneath(uploaded, waiting)'
      /\ Uncovering(uploaded)' /\ Uncovering(waiting)'
  <2>1. CASE UNCHANGED <<waiting, uploaded>>
    BY <1>1, <1>3, <2>1 DEF Mounting, Uncovering, Beneath
  <2>2. CASE waiting # <<>> /\ waiting' = Tail(waiting) /\ uploaded' \in {uploaded, Append(uploaded, Head(waiting))}
    <3>1. /\ Tail(waiting) \in Seq(Shown) /\ Head(waiting) = waiting[1] /\ waiting[1] \in Shown /\ 1 \in DOMAIN waiting
          /\ \A i \in DOMAIN Tail(waiting) : i + 1 \in DOMAIN waiting /\ Tail(waiting)[i] = waiting[i + 1]
      BY <1>3, <2>2, TailIsShown
    <3>2. /\ Mounting(Tail(waiting))
          /\ \A i \in DOMAIN Tail(waiting) : /\ waiting[1].of < Tail(waiting)[i].of
                                             /\ Unlike(waiting[1].image, Tail(waiting)[i].image)
      BY <1>3, <2>2, TailIsMounting
    <3>3. waiting' \in Seq(Shown) /\ Mounting(waiting)' /\ Uncovering(waiting)'
      <4>1. waiting' \in Seq(Shown) /\ Mounting(waiting)'
        BY <2>2, <3>1, <3>2 DEF Mounting
      <4>2. Uncovering(waiting)'
        BY <1>1, <1>3, <2>2, <3>1 DEF Uncovering
      <4> QED BY <4>1, <4>2
    <3>4. CASE uploaded' = uploaded
      <4>1. Beneath(uploaded, Tail(waiting))
        BY <1>3, <3>1 DEF Beneath
      <4> QED BY <1>1, <1>3, <2>2, <3>3, <3>4, <4>1 DEF Mounting, Beneath, Uncovering
    <3>5. CASE uploaded' = Append(uploaded, Head(waiting))
      <4> DEFINE m == Len(uploaded) + 1
      <4>1. /\ uploaded' \in Seq(Shown) /\ m \in Nat
            /\ DOMAIN uploaded' = DOMAIN uploaded \cup {m} /\ uploaded'[m] = waiting[1]
            /\ \A i \in DOMAIN uploaded : uploaded'[i] = uploaded[i] /\ i < m /\ ~ (m < i)
        BY <1>3, <3>1, <3>5
      <4> HIDE DEF m
      <4>2. \A i \in DOMAIN uploaded : uploaded[i].of < waiting[1].of /\ Unlike(uploaded[i].image, waiting[1].image)
        BY <1>3, <3>1 DEF Beneath
      <4>3. Mounting(uploaded)'
        <5> SUFFICES ASSUME NEW i \in DOMAIN uploaded', NEW j \in DOMAIN uploaded', i < j
                     PROVE  uploaded'[i].of < uploaded'[j].of /\ Unlike(uploaded'[i].image, uploaded'[j].image)
          BY DEF Mounting
        <5>1. CASE i \in DOMAIN uploaded /\ j \in DOMAIN uploaded
          BY <1>3, <4>1, <5>1 DEF Mounting
        <5>2. CASE i \in DOMAIN uploaded /\ j = m
          BY <4>1, <4>2, <5>2
        <5>3. CASE i = m
          BY <4>1, <5>3
        <5> QED BY <4>1, <5>1, <5>2, <5>3
      <4>4. Beneath(uploaded, waiting)'
        <5> SUFFICES ASSUME NEW i \in DOMAIN uploaded', NEW j \in DOMAIN Tail(waiting)
                     PROVE  /\ uploaded'[i].of < Tail(waiting)[j].of
                            /\ Unlike(uploaded'[i].image, Tail(waiting)[j].image)
          BY <2>2 DEF Beneath
        <5>1. CASE i \in DOMAIN uploaded
          BY <1>3, <3>1, <4>1, <5>1 DEF Beneath
        <5>2. CASE i = m
          BY <3>2, <4>1, <5>2
        <5> QED BY <4>1, <5>1, <5>2
      <4>5. Uncovering(uploaded)'
        BY <1>1, <1>3, <3>1, <4>1 DEF Uncovering
      <4> QED BY <3>3, <4>1, <4>3, <4>4, <4>5
    <3> QED BY <2>2, <3>4, <3>5
  <2> QED BY <1>1, <2>1, <2>2
<1>5. LayoutTypes'
  BY <1>1, <1>2, <1>3, <1>4 DEF LayoutTypes, EdStep
<1>6. ShownInv'
  BY <1>1, <1>4 DEF ShownInv
<1> QED BY <1>1, <1>3, <1>5, <1>6 DEF LayoutInv, SlotsInv, ImagesInv, EmbedsInv, CoveredInv

LEMMA FindEmbedsLayout == Ed!EditorialAssumption /\ LayoutInv /\ Ed!FindEmbeds => LayoutInv'
<1> SUFFICES ASSUME Ed!EditorialAssumption, LayoutInv, Ed!FindEmbeds PROVE LayoutInv'
  OBVIOUS
<1>1. /\ stage = "embeds" /\ stage' = "create"
      /\ UNCHANGED <<job, draft, text, hints, slots, images, taken, featured, waiting, uploaded, post>>
      /\ \/ embeds' = embeds
         \/ \E v \in 0 .. 1, t \in 0 .. MaxTweets :
              embeds' = Ed!PlanEmbeds(Ed!Length, [i \in 1 .. v + t |-> i - v], {p.at : p \in Ed!Injected})
  BY DEF Ed!FindEmbeds, Ed!review, Ed!pictures, Ed!uploads
<1>2. Length' = Length /\ Shown' = Shown /\ Ed!Length = Length
  BY <1>1, LengthStays
<1>3. /\ embeds = <<>> /\ uploaded \in Seq(Shown) /\ Mounting(uploaded) /\ Length \in Nat
  BY <1>1 DEF LayoutInv, LayoutTypes, ShownInv, EmbedsInv
<1> DEFINE avoid == {p.at : p \in Injected}
           N == Cardinality(DOMAIN uploaded)
<1>4. avoid \in SUBSET (1 .. Length) /\ Cardinality(avoid) = N /\ N \in Nat /\ N <= Length
  BY <1>3, InjectedIs
<1>5. {p.at : p \in Ed!Injected} = avoid
  BY DEF Ed!Injected, Injected
<1>6. Injected' = Injected /\ uploaded' = uploaded
  BY <1>1 DEF Injected
<1> HIDE DEF avoid, N
<1>7. Cardinality(avoid \cup Range(embeds')) = Least(Length, N + Cardinality(DOMAIN embeds'))
  <2>1. CASE embeds' = embeds
    <3>1. Range(embeds') = {} /\ DOMAIN embeds' = {}
      BY <1>3, <2>1 DEF Range
    <3>2. Cardinality(DOMAIN embeds') = 0
      BY <3>1, FS_EmptySet
    <3>3. N = Least(Length, N + 0)
      BY <1>3, <1>4 DEF Least
    <3> QED BY <1>4, <3>1, <3>2, <3>3
  <2>2. ASSUME NEW v \in 0 .. 1, NEW t \in 0 .. MaxTweets,
               embeds' = Ed!PlanEmbeds(Ed!Length, [i \in 1 .. v + t |-> i - v], {p.at : p \in Ed!Injected})
        PROVE  Cardinality(avoid \cup Range(embeds')) = Least(Length, N + Cardinality(DOMAIN embeds'))
    <3> DEFINE kinds == [i \in 1 .. v + t |-> i - v]
    <3>1. kinds \in Seq(Nat)
      <4>1. v + t \in Nat /\ \A i \in 1 .. v + t : i - v \in Nat
        BY DEF Ed!EditorialAssumption
      <4>2. kinds \in [1 .. v + t -> Nat]
        BY <4>1
      <4> HIDE DEF kinds
      <4> QED BY <4>1, <4>2, SeqIs
    <3> DEFINE E == Ed!PlanEmbeds(Length, kinds, avoid)
    <3>2. embeds' = E
      BY <1>2, <1>5, <2>2
    <3> HIDE DEF kinds
    <3>3. Cardinality(avoid \cup Range(E)) = Least(Length, Cardinality(avoid) + Cardinality(DOMAIN E))
      BY <1>3, <1>4, <3>1, EmbedsAre
    <3> HIDE DEF E
    <3> QED BY <1>4, <3>2, <3>3
  <2> QED BY <1>1, <2>1, <2>2
<1>8. EmbedsInv'
  <2>1. Cardinality({p.at : p \in Injected'} \cup Range(embeds'))
          = Least(Length', Cardinality(DOMAIN uploaded') + Cardinality(DOMAIN embeds'))
    BY <1>2, <1>6, <1>7 DEF avoid, N
  <2> QED BY <1>1, <2>1 DEF EmbedsInv
<1>9. LayoutTypes'
  BY <1>1, <1>2 DEF LayoutInv, LayoutTypes, EdStep
<1>10. ShownInv'
  BY <1>1 DEF LayoutInv, ShownInv, Mounting, Beneath, Uncovering
<1> QED BY <1>1, <1>8, <1>9, <1>10 DEF LayoutInv, SlotsInv, ImagesInv, CoveredInv

\* Nothing is laid out any more.
LEMMA CreateLayout == LayoutInv /\ Ed!CreatePost => LayoutInv'
<1> SUFFICES ASSUME LayoutInv, Ed!CreatePost PROVE LayoutInv'
  OBVIOUS
<1>1. /\ stage = "create" /\ stage' = "done" /\ post' = Ed!Mode
      /\ UNCHANGED <<job, draft, text, hints, slots, images, taken, featured, waiting, uploaded, embeds>>
  BY DEF Ed!CreatePost, Ed!review, Ed!pictures, Ed!uploads
<1>2. Length' = Length /\ Shown' = Shown /\ Injected' = Injected
  BY <1>1, LengthStays DEF Injected
<1>3. CoveredInv'
  BY <1>1 DEF CoveredInv, Ed!Mode
<1>4. LayoutTypes'
  BY <1>1, <1>2 DEF LayoutInv, LayoutTypes, EdStep
<1>5. ShownInv'
  BY <1>1 DEF LayoutInv, ShownInv, Mounting, Beneath, Uncovering
<1>6. EmbedsInv'
  BY <1>1, <1>2 DEF LayoutInv, EmbedsInv
<1> QED BY <1>1, <1>3, <1>4, <1>5, <1>6 DEF LayoutInv, SlotsInv, ImagesInv

LEMMA ThrowsLayout == Ed!EditorialAssumption /\ LayoutInv /\ Ed!Throws => LayoutInv'
<1> SUFFICES ASSUME Ed!EditorialAssumption, LayoutInv, Ed!Throws PROVE LayoutInv'
  OBVIOUS
<1>1. /\ stage' = "failed" /\ featured' = NoImage /\ waiting' = <<>>
      /\ UNCHANGED <<job, draft, text, uploaded, embeds, post>>
  BY DEF Ed!Throws
<1>2. Length' = Length /\ Shown' = Shown
  BY <1>1, LengthStays
<1>3. LayoutTypes'
  BY <1>1, <1>2 DEF LayoutInv, LayoutTypes, EdStep
<1>4. ShownInv'
  <2>1. Mounting(uploaded) /\ \A i \in DOMAIN uploaded : uploaded[i] \in Shown
    BY DEF LayoutInv, LayoutTypes, ShownInv
  <2>2. \A p \in Shown : p.image # NoImage
    BY DEF Shown, Pictured, Ed!EditorialAssumption, Ed!Generated, Generated
  <2>3. Uncovering(uploaded)'
    BY <1>1, <2>1, <2>2 DEF Uncovering, Unlike
  <2> QED BY <1>1, <2>1, <2>3 DEF ShownInv, Mounting, Beneath, Uncovering
<1> QED BY <1>1, <1>3, <1>4 DEF LayoutInv, SlotsInv, ImagesInv, EmbedsInv, CoveredInv

LEMMA QuietLayout ==
  ASSUME LayoutInv,
         UNCHANGED <<stage, job, draft, text, hints, slots, images, taken, featured, waiting, uploaded, embeds, post>>
  PROVE  LayoutInv'
<1>1. Length' = Length /\ Shown' = Shown /\ Injected' = Injected
  BY LengthStays DEF Injected
<1>2. LayoutTypes' /\ ImagesInv' /\ CoveredInv' /\ EmbedsInv'
  BY <1>1 DEF LayoutInv, LayoutTypes, ImagesInv, CoveredInv, EmbedsInv
<1>3. SlotsInv'
  BY <1>1 DEF LayoutInv, SlotsInv, PlanIsFull, Ascending
<1>4. ShownInv'
  BY DEF LayoutInv, ShownInv, Mounting, Beneath, Uncovering
<1> QED BY <1>2, <1>3, <1>4 DEF LayoutInv

LEMMA NextLayout == Ed!EditorialAssumption /\ LayoutInv /\ [Ed!Next]_Ed!vars => LayoutInv'
<1> SUFFICES ASSUME Ed!EditorialAssumption, LayoutInv, [Ed!Next]_Ed!vars PROVE LayoutInv'
  OBVIOUS
<1>1. CASE Ed!Exhaust \/ UNCHANGED Ed!vars
  BY <1>1, QuietLayout DEF Ed!Exhaust, Ed!vars, Ed!review, Ed!pictures, Ed!uploads
<1>2. CASE Ed!Next
  BY <1>1, <1>2, ReviewLayout, IllustrateLayout, FillSlotLayout, EndFillingLayout, CoverLayout, InlineLayout,
     FindEmbedsLayout, CreateLayout, ThrowsLayout DEF Ed!Next
<1> QED BY <1>1, <1>2

\* For any article, any sections named, and whichever images fail: the images and
\* the embeds come where they were planned for, each of them once, and nothing is
\* public uncovered (planInlineInsertions and injectAfterParagraphs of
\* packages/core/src/images, brief-generate.ts).
THEOREM PostIsLaidOutHolds == Ed!EditorialAssumption => (Ed!Spec => []PostIsLaidOut)
<1> SUFFICES ASSUME Ed!EditorialAssumption PROVE Ed!Spec => []PostIsLaidOut
  OBVIOUS
<1>1. Ed!Init => LayoutInv
  BY InitLayout
<1>2. LayoutInv /\ [Ed!Next]_Ed!vars => LayoutInv'
  BY NextLayout
<1>3. LayoutInv => PostIsLaidOut
  BY LayoutIsLaid
<1> QED BY <1>1, <1>2, <1>3, PTL DEF Ed!Spec
=============================================================================
