----------------------------- MODULE ArticleEdit -----------------------------
(***************************************************************************)
(* Editing an article that is already in WordPress: image.regenerate in    *)
(* the worker (image-regenerate.ts) swaps an image for a generated one, and *)
(* the panel (lib/brief-edit.ts) uploads an image, changes the SEO of one  *)
(* or saves text. Each reads the report of the images from the row of the  *)
(* brief and the post from WordPress, works, and writes both back whole.   *)
(*                                                                         *)
(* A field of the post holds the request that wrote it. The article has a  *)
(* cover and two images in its body; the edits are of the first, as the    *)
(* second is no different.                                                 *)
(***************************************************************************)
EXTENDS Naturals, Sequences, FiniteSets

CONSTANTS
  Edit,        \* requests of the panel
  Swap,        \* runs of image.regenerate
  MaxAsked, MaxFaults,   \* bounds: requests and runs, and faults, in a behaviour
  Original,    \* what the generation of the article wrote
  Visitor,     \* what somebody wrote in WordPress itself
  NoImage

ASSUME NamesAreDistinct ==
  /\ Edit \cap Swap = {}
  /\ {Original, Visitor, NoImage} \cap (Edit \cup Swap) = {}
  /\ MaxAsked \in Nat /\ MaxFaults \in Nat

VARIABLES
  post,        \* in WordPress: cover, and the content (image, its seo, the other image, text)
  report,      \* briefs.imageReport: slot -> media; extra are the inline-u slots
  page,        \* the post as the preview page last showed it
  pc, kind, target,
  aim,         \* the image and the text the user saw when asking
  row,         \* the report a request read
  copy,        \* the post a request read
  seen,        \* history: runs opened when the edit asked for a busy one
  since,       \* history: who wrote the post since the request read it
  run, items,  \* runs.status and run_items of a swap
  msg, held,   \* the messages, and the one the worker loop holds
  faults       \* how often something has gone wrong

vars == <<post, report, page, pc, kind, target, aim, row, copy, seen, since, run, items, msg,
          held, faults>>
asked == <<kind, target, aim>>
reads == <<row, copy, seen, since>>
queue == <<msg, held>>
swapVars == <<run, items, queue>>

Request == Edit \cup Swap
Media == Request \cup {Original, Visitor, NoImage}
Field == {"cover", "image", "seo", "other", "text"}
Untouched == [f \in Field |-> Original]
NoReport == [cover |-> NoImage, inline |-> NoImage, other |-> NoImage, extra |-> {}]

Init ==
  /\ \E c \in {Original, NoImage} :
       /\ post = [Untouched EXCEPT !.cover = c]
       /\ report = [cover |-> c, inline |-> Original, other |-> Original, extra |-> {}]
  /\ page = post
  /\ pc = [x \in Request |-> "idle"]
  /\ kind = [x \in Request |-> IF x \in Swap THEN "swap" ELSE "none"]
  /\ target = [x \in Request |-> "inline"]
  /\ aim = [e \in Edit |-> Untouched]
  /\ row = [x \in Request |-> NoReport] /\ copy = [x \in Request |-> Untouched]
  /\ seen = [e \in Edit |-> {}] /\ since = [x \in Request |-> {}]
  /\ run = [s \in Swap |-> "none"] /\ items = [s \in Swap |-> <<>>]
  /\ msg = [s \in Swap |-> "none"] /\ held = NoImage
  /\ faults = 0

Goto(x, l) == pc' = [pc EXCEPT ![x] = l]

\* What has returned takes its variables with it.
Return(x) ==
  /\ row' = [row EXCEPT ![x] = NoReport]
  /\ copy' = [copy EXCEPT ![x] = Untouched] /\ since' = [since EXCEPT ![x] = {}]
  /\ aim' = [e \in Edit |-> IF e = x THEN Untouched ELSE aim[e]]
  /\ target' = [target EXCEPT ![x] = "inline"]
  /\ Goto(x, "done")

Fault == faults < MaxFaults /\ faults' = faults + 1

MayAsk(x) ==
  /\ pc[x] = "idle"
  /\ Cardinality({y \in Request : pc[y] # "idle"}) < MaxAsked

\* loadBriefPreview: the page shows the post of this moment.
OpenPage ==
  /\ page # post
  /\ \E e \in Edit : MayAsk(e)
  /\ page' = post
  /\ UNCHANGED <<post, report, pc, asked, reads, swapVars, faults>>

-----------------------------------------------------------------------------
(* What both do to the post and to the report                              *)

\* splitArticle: is the image at t one of the content?
Holds(content, t, image) ==
  content[IF t = "other" THEN "other" ELSE "image"] = image /\ image # NoImage

\* What replaceImageBlock, updateImageBlockSeo and applyTextEdits change in
\* the content.
Block == {"image", "seo"}
Changed(x) ==
  CASE kind[x] = "text" -> {"text"}
    [] kind[x] = "seo" -> {"seo"}
    [] kind[x] = "swap" /\ target[x] = "other" -> {"other"}
    [] OTHER -> Block

\* The cover is a field of its own; the content goes back whole, as it was read
\* but for the change.
Written(x) ==
  IF target[x] # "cover"
  THEN [f \in Field |-> IF f = "cover" THEN post.cover
                        ELSE IF f \in Changed(x) THEN x ELSE copy[x][f]]
  ELSE IF kind[x] \in {"swap", "upload"} THEN [post EXCEPT !.cover = x] ELSE post

\* The others that have read the post and not written it yet.
HasCopy(x) == pc[x] \in {"work", "write", "generate", "put"}
PutBack(x) ==
  /\ post' = Written(x)
  /\ since' = [y \in Request |-> IF y = x THEN {}
                                ELSE IF HasCopy(y) THEN since[y] \cup {x} ELSE since[y]]

\* withReplacedImage on the report the request read: the slot is the key.
Reported(x) ==
  LET r == row[x]
  IN  IF target[x] = "cover" THEN [r EXCEPT !.cover = x]
      ELSE IF target[x] = "other" THEN [r EXCEPT !.other = x]
      ELSE IF x \in Swap \/ r.inline = aim[x].image THEN [r EXCEPT !.inline = x]
      ELSE [r EXCEPT !.extra = (@ \ {aim[x].image}) \cup {x}]

-----------------------------------------------------------------------------
(* A request of the panel                                                  *)

\* The editor of the page sends what its user saw.
Submit(e) ==
  /\ MayAsk(e)
  /\ \E k \in {"upload", "seo", "text"}, t \in {"cover", "inline"} :
       /\ k = "text" => t = "inline"
       /\ kind' = [kind EXCEPT ![e] = k] /\ target' = [target EXCEPT ![e] = t]
  /\ aim' = [aim EXCEPT ![e] = page]
  /\ \/ Goto(e, "row")
     \/ kind'[e] = "upload" /\ Goto(e, "download")
  /\ UNCHANGED <<post, report, page, reads, swapVars, faults>>

\* The image is on the web: downloadRemoteImage gets it, or refuses.
Download(e) ==
  /\ pc[e] = "download"
  /\ \E l \in {"row", "end"} : Goto(e, l)
  /\ UNCHANGED <<post, report, page, asked, reads, swapVars, faults>>

ReadRow(e) ==
  /\ pc[e] = "row"
  /\ row' = [row EXCEPT ![e] = report]
  /\ Goto(e, "busy")
  /\ UNCHANGED <<post, report, page, asked, copy, seen, since, swapVars, faults>>

\* Mutant: nobody asks whether a swap is running.
AskBusyNot(e) ==
  /\ pc[e] = "busy"
  /\ seen' = [seen EXCEPT ![e] = {s \in Swap : run[s] # "none"}]
  /\ Goto(e, "get")
  /\ UNCHANGED <<post, report, page, asked, row, copy, since, swapVars, faults>>

AskBusy(e) ==
  /\ pc[e] = "busy"
  /\ seen' = [seen EXCEPT ![e] = {s \in Swap : run[s] # "none"}]
  /\ Goto(e, IF \E s \in Swap : run[s] = "running" THEN "end" ELSE "get")
  /\ UNCHANGED <<post, report, page, asked, row, copy, since, swapVars, faults>>

GetPost(e) ==
  /\ pc[e] = "get"
  /\ copy' = [copy EXCEPT ![e] = post]
  /\ Goto(e, "work")
  /\ UNCHANGED <<post, report, page, asked, row, seen, since, swapVars, faults>>

\* applyTextEdits: the text of the post is the one the user saw.
SameText(e) == copy[e].text = aim[e].text

\* Is what the user aimed at still there?
StillThere(e) ==
  IF kind[e] = "text" THEN SameText(e)
  ELSE IF target[e] = "inline" THEN Holds(copy[e], "inline", aim[e].image)
  ELSE kind[e] = "seo" => copy[e].cover # NoImage \/ row[e].cover # NoImage

\* The check of presence, the conversion and the upload, which may fail.
Work(e) ==
  /\ pc[e] = "work"
  /\ \E l \in {"write", "end"} :
       /\ l = "write" => StillThere(e)
       /\ Goto(e, l)
  /\ UNCHANGED <<post, report, page, asked, reads, swapVars, faults>>

Write(e) ==
  /\ pc[e] = "write"
  /\ PutBack(e)
  /\ Goto(e, IF kind[e] = "text" THEN "end" ELSE "report")
  /\ UNCHANGED <<report, page, asked, row, copy, seen, swapVars, faults>>

\* A change of SEO stores the report it read, when its image is in there.
InReport(e) ==
  IF target[e] = "inline" THEN aim[e].image \in {row[e].inline} \cup row[e].extra
  ELSE copy[e].cover \in {row[e].cover, NoImage}

StoreReport(e) ==
  /\ pc[e] = "report"
  /\ report' = CASE kind[e] = "upload" -> Reported(e)
                 [] kind[e] = "seo" -> IF InReport(e) THEN row[e] ELSE report
  /\ Goto(e, "end")
  /\ UNCHANGED <<post, page, asked, reads, swapVars, faults>>

\* WordPress or the database fails: the action answers with an error.
EditFails(e) ==
  /\ Fault
  /\ pc[e] \in {"row", "busy", "get", "write", "report"}
  /\ Goto(e, "end")
  /\ UNCHANGED <<post, report, page, asked, reads, swapVars>>

\* The action answers.
Answer(e) ==
  /\ pc[e] = "end"
  /\ Return(e)
  /\ UNCHANGED <<post, report, page, kind, seen, swapVars, faults>>

EditStep(e) ==
  \/ Submit(e) \/ Download(e) \/ ReadRow(e) \/ AskBusy(e) \/ GetPost(e) \/ Work(e)
  \/ Write(e) \/ StoreReport(e) \/ EditFails(e) \/ Answer(e)

-----------------------------------------------------------------------------
(* A swap: regenerateImageAction opens the run, then sends the message     *)

Click(s) ==
  /\ MayAsk(s)
  /\ \E t \in {"cover", "inline", "other"} : target' = [target EXCEPT ![s] = t]
  /\ run' = [run EXCEPT ![s] = "running"]
  /\ Goto(s, "send")
  /\ UNCHANGED <<post, report, page, kind, aim, reads, items, queue, faults>>

SameArticle(s) == {t \in Swap \ {s} : msg[t] \in {"created", "active"}}

Send(s) ==
  /\ pc[s] = "send"
  /\ \/ /\ msg' = [msg EXCEPT ![s] = "created"]
        /\ Goto(s, "queued")
     \/ /\ SameArticle(s) # {}
        /\ Goto(s, "refused")
        /\ UNCHANGED msg
  /\ UNCHANGED <<post, report, page, asked, reads, run, items, held, faults>>

CancelRefused(s) ==
  /\ pc[s] = "refused"
  /\ run' = [run EXCEPT ![s] = "cancelled"]
  /\ Goto(s, "done")
  /\ UNCHANGED <<post, report, page, asked, reads, items, queue, faults>>

\* cancelRunAction: the handler is not told.
Stop(s) ==
  /\ run[s] = "running"
  /\ run' = [run EXCEPT ![s] = "cancelled"]
  /\ msg' = [msg EXCEPT ![s] = IF @ = "created" THEN "cancelled" ELSE @]
  /\ UNCHANGED <<post, report, page, pc, asked, reads, items, held, faults>>

-----------------------------------------------------------------------------
(* The worker loop of image.regenerate, one message at a time, no retry     *)

Fetch(s) ==
  /\ held = NoImage /\ msg[s] = "created"
  /\ msg' = [msg EXCEPT ![s] = "active"] /\ held' = s
  /\ Goto(s, "run")
  /\ UNCHANGED <<post, report, page, asked, reads, run, items, faults>>

Settle(s) ==
  /\ held = s /\ pc[s] \in {"end", "threw"}
  /\ held' = NoImage
  /\ msg' = [msg EXCEPT ![s] = IF pc[s] = "end" THEN "completed" ELSE "failed"]
  /\ Return(s)
  /\ UNCHANGED <<post, report, page, kind, seen, run, items, faults>>

\* expireInSeconds: the loop goes on, and so does the handler.
TimeOut(s) ==
  /\ Fault /\ held = s
  /\ held' = NoImage
  /\ msg' = [msg EXCEPT ![s] = "failed"]
  /\ UNCHANGED <<post, report, page, pc, asked, reads, run, items>>

\* The process dies and comes back: its handler is gone, its message expires.
Crash ==
  /\ Fault /\ held # NoImage
  /\ msg' = [msg EXCEPT ![held] = "failed"] /\ held' = NoImage
  /\ Return(held)
  /\ UNCHANGED <<post, report, page, kind, seen, run, items>>

-----------------------------------------------------------------------------
(* handleImageRegenerate                                                   *)

CheckRun(s) ==
  /\ pc[s] = "run"
  /\ Goto(s, IF run[s] = "running" THEN "brief" ELSE "end")
  /\ UNCHANGED <<post, report, page, asked, reads, swapVars, faults>>

ReadBrief(s) ==
  /\ pc[s] = "brief"
  /\ row' = [row EXCEPT ![s] = report]
  /\ Goto(s, "fetchPost")
  /\ UNCHANGED <<post, report, page, asked, copy, seen, since, swapVars, faults>>

FetchPost(s) ==
  LET current == IF target[s] = "other" THEN row[s].other ELSE row[s].inline IN
  /\ pc[s] = "fetchPost"
  /\ copy' = [copy EXCEPT ![s] = post]
  /\ Goto(s, IF target[s] # "cover" /\ ~ Holds(post, target[s], current)
             THEN "failed" ELSE "generate")
  /\ UNCHANGED <<post, report, page, asked, row, seen, since, swapVars, faults>>

\* The generation, the conversion and the upload.
Generate(s) ==
  /\ pc[s] = "generate"
  /\ \E l \in {"put", "failed"} : Goto(s, l)
  /\ UNCHANGED <<post, report, page, asked, reads, swapVars, faults>>

Put(s) ==
  /\ pc[s] = "put"
  /\ PutBack(s)
  /\ Goto(s, "store")
  /\ UNCHANGED <<report, page, asked, row, copy, seen, swapVars, faults>>

Store(s) ==
  /\ pc[s] = "store"
  /\ report' = Reported(s)
  /\ Goto(s, "updated")
  /\ UNCHANGED <<post, page, asked, reads, swapVars, faults>>

\* Mutant: the catch only writes to the log.
FinishUpdatedOnly(s) ==
  /\ pc[s] \in {"updated", "failed"}
  /\ items' = [items EXCEPT ![s] = Append(@, pc[s])]
  /\ Goto(s, IF pc[s] = "updated" THEN "close" ELSE "end")
  /\ UNCHANGED <<post, report, page, asked, reads, run, queue, faults>>

\* finish(): the item first ...
Finish(s) ==
  /\ pc[s] \in {"updated", "failed"}
  /\ items' = [items EXCEPT ![s] = Append(@, pc[s])]
  /\ Goto(s, IF pc[s] = "updated" THEN "close" ELSE "lastClose")
  /\ UNCHANGED <<post, report, page, asked, reads, run, queue, faults>>

\* maybeFinalizeRun
Verdict(s) ==
  LET have == {items[s][i] : i \in DOMAIN items[s]}
  IN  IF have = {"updated"} THEN "success"
      ELSE IF have = {"failed"} THEN "failed" ELSE "partial"

\* ... then expectedItems = 1 and maybeFinalizeRun.
Close(s) ==
  /\ pc[s] \in {"close", "lastClose"}
  /\ run' = [run EXCEPT ![s] = IF @ = "running" THEN Verdict(s) ELSE @]
  /\ Goto(s, "end")
  /\ UNCHANGED <<post, report, page, asked, reads, items, queue, faults>>

\* The catch, which calls finish() again; nothing catches its own failure,
\* nor assertWorkerWorkspace, which stands before the try.
StatementFails(s) ==
  /\ \/ pc[s] \in {"fetchPost", "put", "store", "updated", "close"} /\ Goto(s, "failed")
     \/ pc[s] \in {"run", "brief", "failed", "lastClose"} /\ Goto(s, "threw")
  /\ Fault
  /\ UNCHANGED <<post, report, page, asked, reads, swapVars>>

Handler(s) ==
  CheckRun(s) \/ ReadBrief(s) \/ FetchPost(s) \/ Generate(s) \/ Put(s) \/ Store(s)
  \/ Finish(s) \/ Close(s)

Loop(s) == Fetch(s) \/ Settle(s) \/ Handler(s)

-----------------------------------------------------------------------------
\* Somebody edits the post in WordPress, or takes the image out.
Visit ==
  /\ Fault
  /\ \A f \in Field : post[f] # Visitor
  /\ \A x \in Request : pc[x] # "done"
  /\ \/ post' = [post EXCEPT !.text = Visitor]
     \/ post' = [post EXCEPT !.image = NoImage, !.text = Visitor]
  /\ UNCHANGED <<report, page, pc, asked, reads, swapVars>>

Next ==
  \/ OpenPage \/ Visit \/ Crash
  \/ \E e \in Edit : EditStep(e)
  \/ \E s \in Swap : \/ Click(s) \/ Send(s) \/ CancelRefused(s) \/ Stop(s)
                     \/ TimeOut(s) \/ StatementFails(s) \/ Loop(s)

Spec == Init /\ [][Next]_vars

\* The worker loop and the server go on; nobody has to click.
Serves == \E s \in Swap : Send(s) \/ CancelRefused(s) \/ Loop(s)
FairSpec == Spec /\ WF_vars(Serves)

-----------------------------------------------------------------------------
(* Properties                                                              *)

TypeOK ==
  /\ post \in [Field -> Media] /\ page \in [Field -> Media]
  /\ report.cover \in Media /\ report.inline \in Media
  /\ report.other \in Media /\ report.extra \subseteq Media
  /\ \A s \in Swap :
       /\ run[s] \in {"none", "running", "success", "partial", "failed", "cancelled"}
       /\ msg[s] \in {"none", "created", "active", "completed", "failed", "cancelled"}
       /\ Len(items[s]) <= 2
  /\ held \in Swap \cup {NoImage}

\* x puts back an older state of a field that y has written meanwhile.
Erases(x, y) ==
  /\ pc[x] \in {"write", "put"} /\ pc'[x] # pc[x] /\ y \in since[x]
  /\ \E f \in Field : post[f] = y /\ post'[f] \notin {x, y}

\* "nothing runs at the same time as an image swap of the same article"
\* (brief-edit.ts 31): two swaps erase each other only when one overran its
\* ten minutes, a swap and an edit only when the edit had asked before the
\* run of the swap was opened, or that run was closed under the handler.
SwapsAreProtected ==
  [][\A x, y \in Request :
       Erases(x, y) =>
         /\ {x, y} \subseteq Swap => \E s \in {x, y} : msg[s] = "failed"
         /\ \A s \in {x, y} \cap Swap, e \in {x, y} \cap Edit :
              s \notin seen[e] \/ run[s] = "cancelled"]_vars

\* The run of a swap is closed, so that the article can be edited again
\* (brief-edit.ts 74-79), unless its message failed: there is no retry, and
\* then nobody closes it.
EverySwapCloses ==
  \A s \in Swap : run[s] = "running" ~> run[s] # "running" \/ msg[s] = "failed"
=============================================================================
