-------------------------- MODULE ArticleEditProofs --------------------------
(***************************************************************************)
(* Swaps and edits of one article do not undo one another but in the ways  *)
(* that SwapsAreProtected names, for any number of swaps, edits and faults;*)
(* and what its dialogs send replaces what the user saw there, whatever    *)
(* the paragraphs, the slots, and what others change meanwhile. What the   *)
(* dialog of a run shows of it is how it went, for any runs and stages.    *)
(***************************************************************************)
EXTENDS ArticleEdit, Panel, FiniteSetTheorems, WellFoundedInduction, TLAPS

CONSTANTS
  Paragraph, Segments, Text, Blank, Title, MaxTyped, MaxForeign, MaxLoads, MaxSaves, \* TextEditor
  Slot, Cover, First, File, Address, Other, NoPicture, MaxSteps, MaxSubmits, \* ImageDialog
  Post, Window, MaxErrors, MaxFlushes, MaxTracks, MaxLost \* RunWatch

VARIABLES
  xPage, screen, alive, original, edits, title, editing, xLoad, typed, xSpent, \* TextEditor
  iPage, dialog, running, iLoad, iSpent, \* ImageDialog
  flushes, polls, tracks \* RunWatch

X == INSTANCE TextEditor WITH page <- xPage, load <- xLoad, spent <- xSpent

I == INSTANCE ImageDialog WITH
       NoImage <- NoPicture, page <- iPage, load <- iLoad, spent <- iSpent

W == INSTANCE RunWatch WITH status <- state, lost <- dropped

-----------------------------------------------------------------------------
(* The invariant                                                           *)

\* Where a request of the panel is: before the question for a running swap,
\* between its answer and the write, after the write or the refusal.
Early == {"idle", "download", "row", "busy"}
Asked == {"get", "work", "write"}
Late == {"report", "end", "done"}

\* Where the handler of a swap is: before it closes its run, and until the
\* loop has settled its message.
Handling == {"run", "brief", "fetchPost", "generate", "put", "store", "updated", "failed",
             "close", "lastClose"}
Busy == Handling \cup {"end", "threw"}
Unsent == {"idle", "send", "refused"}
SwapPc == Unsent \cup {"queued", "done"} \cup Busy

Types ==
  /\ pc \in [Request -> Early \cup Asked \cup Late \cup SwapPc]
  /\ \A e \in Edit : pc[e] \in Early \cup Asked \cup Late
  /\ \A s \in Swap : pc[s] \in SwapPc
  /\ run \in [Swap -> {"none", "running", "success", "partial", "failed", "cancelled"}]
  /\ msg \in [Swap -> {"none", "created", "active", "completed", "failed", "cancelled"}]
  /\ held \in Swap \cup {NoImage}
  /\ seen \in [Edit -> SUBSET Swap]
  /\ since \in [Request -> SUBSET Request]

\* One handler works whose message did not fail, and a run that is closed has
\* no handler which might still write, unless a user closed it.
LoopInv ==
  \A s \in Swap :
    /\ pc[s] \in Busy => held = s \/ msg[s] = "failed"
    /\ held = s => pc[s] \in Busy /\ msg[s] = "active"
    /\ pc[s] \in Unsent => msg[s] = "none"
    /\ msg[s] = "created" => pc[s] = "queued"
    /\ pc[s] = "idle" => run[s] = "none"
    /\ pc[s] \in {"send", "refused", "queued"} \cup Handling => run[s] \in {"running", "cancelled"}

\* An edit goes on when no run is open that it has seen.
AskInv ==
  \A e \in Edit :
    /\ pc[e] \in Early => seen[e] = {} /\ since[e] = {}
    /\ pc[e] \in Asked => \A s \in seen[e] : run[s] \notin {"none", "running"}

\* What SwapsAreProtected allows.
MayMeet(x, y) ==
  /\ {x, y} \subseteq Swap => \E s \in {x, y} : msg[s] = "failed"
  /\ \A s \in {x, y} \cap Swap, e \in {x, y} \cap Edit : s \notin seen[e] \/ run[s] = "cancelled"

SinceInv ==
  \A x \in Request : \A y \in since[x] :
    /\ MayMeet(x, y)
    /\ y \in Edit => pc[y] \in Late

IInv == Types /\ LoopInv /\ AskInv /\ SinceInv

LEMMA InitHolds == Init => IInv
BY NamesAreDistinct DEF Init, IInv, Types, LoopInv, AskInv, SinceInv, Request, Early, SwapPc, Unsent,
   Asked, Busy, Handling, Late

-----------------------------------------------------------------------------
(* Meeting                                                                 *)

\* Whoever holds a copy of the post when another writes may meet it.
LEMMA CopiesMayMeet ==
  ASSUME IInv, NEW x \in Request, NEW y \in Request, x # y, HasCopy(x), HasCopy(y)
  PROVE  MayMeet(x, y)
<1>1. \A s \in Swap : HasCopy(s) =>
        (held = s \/ msg[s] = "failed") /\ run[s] \in {"running", "cancelled"}
  BY DEF IInv, Types, LoopInv, HasCopy, Busy, Handling, SwapPc, Unsent
<1>2. \A e \in Edit : HasCopy(e) => \A s \in seen[e] : run[s] \notin {"none", "running"}
  BY DEF IInv, Types, AskInv, HasCopy, Early, Asked, Late
<1>3. {x, y} \subseteq Swap => \E s \in {x, y} : msg[s] = "failed"
  BY <1>1
<1>4. ASSUME NEW s \in {x, y} \cap Swap, NEW e \in {x, y} \cap Edit
      PROVE  s \notin seen[e] \/ run[s] = "cancelled"
  BY <1>1, <1>2
<1> QED BY <1>3, <1>4 DEF MayMeet

\* What may meet may meet later: messages stay failed, runs cancelled.
LEMMA MeetingStays ==
  ASSUME NEW x \in Request, NEW y \in Request, MayMeet(x, y),
         \A s \in Swap : msg[s] = "failed" => msg'[s] = "failed",
         \A s \in Swap : run[s] = "cancelled" => run'[s] = "cancelled",
         \A e \in {x, y} \cap Edit : seen'[e] = seen[e]
  PROVE  MayMeet(x, y)'
BY DEF MayMeet

-----------------------------------------------------------------------------
(* Steps of a request of the panel                                         *)

\* An edit moves on, and forgets perhaps what it read.
LEMMA EditMoves ==
  ASSUME IInv, NEW e \in Edit, NEW l, pc' = [pc EXCEPT ![e] = l],
         UNCHANGED <<run, msg, held, seen>>, since' \in {since, [since EXCEPT ![e] = {}]},
         l \in Early \cup Asked \cup Late, l \in Early => pc[e] \in Early,
         l \in Asked => pc[e] \in Asked, pc[e] \in Late => l \in Late
  PROVE  IInv'
<1>1. \A s \in Swap : pc'[s] = pc[s]
  BY NamesAreDistinct DEF IInv, Types, Request
<1>2. e \in Request /\ \A x \in Request : since'[x] \subseteq since[x]
  BY DEF IInv, Types, Request
<1>3. Types'
  BY <1>1, NamesAreDistinct DEF IInv, Types, Request
<1>4. LoopInv'
  BY <1>1 DEF IInv, LoopInv
<1>5. AskInv'
  BY <1>2, NamesAreDistinct DEF IInv, Types, AskInv, Request, Early, Asked, Late
<1>6. SinceInv'
  BY <1>2, NamesAreDistinct DEF IInv, Types, SinceInv, MayMeet, Request
<1> QED BY <1>3, <1>4, <1>5, <1>6 DEF IInv

LEMMA AskKeeps ==
  ASSUME IInv, NEW e \in Edit, AskBusy(e)
  PROVE  IInv'
<1>1. /\ pc[e] = "busy" /\ UNCHANGED <<run, msg, held, since>>
      /\ pc' = [pc EXCEPT ![e] = IF \E s \in Swap : run[s] = "running" THEN "end" ELSE "get"]
      /\ seen' = [seen EXCEPT ![e] = {s \in Swap : run[s] # "none"}]
  BY DEF AskBusy, Goto, swapVars, queue
<1>2. \A s \in Swap : pc'[s] = pc[s]
  BY <1>1, NamesAreDistinct DEF IInv, Types, Request
<1>3. Types'
  BY <1>1, <1>2, NamesAreDistinct DEF IInv, Types, Request, Asked, Late
<1>4. LoopInv'
  BY <1>1, <1>2 DEF IInv, LoopInv
<1>5. AskInv'
  BY <1>1, NamesAreDistinct DEF IInv, Types, AskInv, Request, Early, Asked, Late
<1>6. since[e] = {} /\ \A x \in Request : e \notin since[x]
  BY <1>1 DEF IInv, AskInv, SinceInv, Early, Late, Types
<1>7. SinceInv'
  <2> SUFFICES ASSUME NEW x \in Request, NEW y \in since[x]
               PROVE  MayMeet(x, y)' /\ (y \in Edit => pc'[y] \in Late)
    BY <1>1 DEF SinceInv
  <2>1. x # e /\ y # e /\ y \in Request /\ MayMeet(x, y) /\ (y \in Edit => pc[y] \in Late)
    BY <1>6 DEF IInv, SinceInv, Types
  <2>2. \A d \in {x, y} \cap Edit : seen'[d] = seen[d]
    BY <1>1, <2>1 DEF IInv, Types
  <2>3. MayMeet(x, y)'
    BY <1>1, <2>1, <2>2, MeetingStays
  <2> QED BY <1>1, <2>1, <2>3 DEF IInv, Types
<1> QED BY <1>3, <1>4, <1>5, <1>7 DEF IInv

\* The write of an edit, or of a swap.
LEMMA WriteMeets ==
  ASSUME IInv, NEW x \in Request, HasCopy(x), PutBack(x), UNCHANGED <<run, msg, held, seen>>,
         NEW l, pc' = [pc EXCEPT ![x] = l], x \in Edit => l \in Late
  PROVE  SinceInv' /\ since' \in [Request -> SUBSET Request]
                   /\ \A e \in Edit : pc[e] \in Early => since'[e] = since[e] \/ e = x
<1>1. ASSUME NEW y \in Request
      PROVE  since'[y] = IF y = x THEN {} ELSE IF HasCopy(y) THEN since[y] \cup {x} ELSE since[y]
  BY <1>1 DEF PutBack
<1>2. since' \in [Request -> SUBSET Request]
  BY DEF PutBack, IInv, Types
<1>3. ASSUME NEW y \in Request, NEW z \in since'[y]
      PROVE  MayMeet(y, z)' /\ (z \in Edit => pc'[z] \in Late)
  <2>1. y # x /\ (z \in since[y] \/ (z = x /\ HasCopy(y))) /\ z \in Request
    BY <1>1, <1>2, <1>3
  <2>2. MayMeet(y, z)
    BY <2>1, CopiesMayMeet DEF IInv, SinceInv
  <2>3. MayMeet(y, z)'
    BY <2>2 DEF MayMeet
  <2>4. z \in Edit => pc'[z] \in Late
    BY <2>1 DEF IInv, SinceInv, Types
  <2> QED BY <2>3, <2>4
<1>4. \A e \in Edit : pc[e] \in Early => since'[e] = since[e] \/ e = x
  BY <1>1 DEF HasCopy, Early, Request
<1> QED BY <1>2, <1>3, <1>4 DEF SinceInv

LEMMA WriteKeeps ==
  ASSUME IInv, NEW e \in Edit, Write(e)
  PROVE  IInv'
<1>1. PICK l \in {"end", "report"} : pc' = [pc EXCEPT ![e] = l]
  BY DEF Write, Goto
<1>2. pc[e] = "write" /\ PutBack(e) /\ UNCHANGED <<run, msg, held, seen>> /\ e \in Request
  BY DEF Write, swapVars, queue, Request
<1>3. SinceInv' /\ since' \in [Request -> SUBSET Request]
        /\ \A d \in Edit : pc[d] \in Early => since'[d] = since[d] \/ d = e
  BY <1>1, <1>2, WriteMeets DEF HasCopy, Late
<1>4. \A s \in Swap : pc'[s] = pc[s]
  BY <1>1, NamesAreDistinct DEF IInv, Types, Request
<1>5. Types'
  BY <1>1, <1>2, <1>3, <1>4, NamesAreDistinct DEF IInv, Types, Request, Late
<1>6. LoopInv'
  BY <1>2, <1>4 DEF IInv, LoopInv
<1>7. AskInv'
  BY <1>1, <1>2, <1>3 DEF IInv, Types, AskInv, Request, Early, Asked, Late
<1> QED BY <1>3, <1>5, <1>6, <1>7 DEF IInv

LEMMA EditKeeps ==
  ASSUME IInv, NEW e \in Edit, EditStep(e)
  PROVE  IInv'
<1> USE DEF Goto, swapVars, queue, reads, Early, Asked, Late
<1>1. CASE Submit(e)
  BY <1>1, EditMoves DEF Submit, MayAsk
<1>2. CASE Download(e)
  BY <1>2, EditMoves DEF Download
<1>3. CASE ReadRow(e)
  BY <1>3, EditMoves DEF ReadRow
<1>4. CASE AskBusy(e)
  BY <1>4, AskKeeps
<1>5. CASE GetPost(e)
  BY <1>5, EditMoves DEF GetPost
<1>6. CASE Work(e)
  BY <1>6, EditMoves DEF Work
<1>7. CASE Write(e)
  BY <1>7, WriteKeeps
<1>8. CASE StoreReport(e)
  BY <1>8, EditMoves DEF StoreReport
<1>9. CASE EditFails(e)
  BY <1>9, EditMoves DEF EditFails
<1>10. CASE Answer(e)
  BY <1>10, EditMoves DEF Answer, Return
<1> QED BY <1>1, <1>2, <1>3, <1>4, <1>5, <1>6, <1>7, <1>8, <1>9, <1>10 DEF EditStep

-----------------------------------------------------------------------------
(* Steps of a swap                                                         *)

\* A swap, its run and its message move on as SwapMoves allows.
LEMMA SwapMoves ==
  ASSUME IInv, NEW s \in Swap,
         pc' \in [Request -> Early \cup Asked \cup Late \cup SwapPc],
         \A x \in Request \ {s} : pc'[x] = pc[x], pc'[s] \in SwapPc,
         \A t \in Swap \ {s} : run'[t] = run[t] /\ msg'[t] = msg[t],
         run' \in [Swap -> {"none", "running", "success", "partial", "failed", "cancelled"}],
         msg' \in [Swap -> {"none", "created", "active", "completed", "failed", "cancelled"}],
         held' \in Swap \cup {NoImage}, \A t \in Swap \ {s} : held' = t <=> held = t,
         UNCHANGED seen, since' \in {since, [since EXCEPT ![s] = {}]},
         LoopInv', msg[s] = "failed" => msg'[s] = "failed",
         run[s] \notin {"none", "running"} => run'[s] = run[s]
  PROVE  IInv'
<1>1. \A e \in Edit : pc'[e] = pc[e] /\ e # s /\ e \in Request
  BY NamesAreDistinct DEF IInv, Types, Request
<1>2. s \in Request /\ since' \in [Request -> SUBSET Request]
        /\ \A x \in Request : since'[x] \subseteq since[x]
  BY DEF IInv, Types, Request
<1>3. Types'
  BY <1>1, <1>2 DEF IInv, Types, Request
<1>4. AskInv'
  BY <1>1, <1>2 DEF IInv, Types, AskInv
<1>5. ASSUME NEW x \in Request, NEW y \in since'[x]
      PROVE  MayMeet(x, y)' /\ (y \in Edit => pc'[y] \in Late)
  <2>1. y \in Request /\ MayMeet(x, y) /\ (y \in Edit => pc[y] \in Late)
    BY <1>2, <1>5 DEF IInv, SinceInv
  <2>2. \A t \in Swap : /\ msg[t] = "failed" => msg'[t] = "failed"
                        /\ run[t] = "cancelled" => run'[t] = "cancelled"
    BY DEF IInv, Types
  <2>3. MayMeet(x, y)'
    BY <2>1, <2>2, MeetingStays
  <2> QED BY <1>1, <2>1, <2>3
<1> QED BY <1>3, <1>4, <1>5 DEF IInv, SinceInv

\* The handler goes on.
LEMMA HandlerMoves ==
  ASSUME IInv, NEW s \in Swap, NEW l \in Busy, pc' = [pc EXCEPT ![s] = l],
         pc[s] \in Handling, UNCHANGED <<run, msg, held, seen, since>>
  PROVE  IInv'
<1>1. s \in Request /\ pc'[s] = l /\ \A x \in Request \ {s} : pc'[x] = pc[x]
  BY DEF IInv, Types, Request
<1>2. l \in SwapPc
  BY DEF SwapPc
<1>3. pc' \in [Request -> Early \cup Asked \cup Late \cup SwapPc]
  BY <1>2 DEF IInv, Types
<1>4. LoopInv'
  BY <1>1 DEF IInv, LoopInv, Busy, Handling, Unsent, Request
<1> QED BY <1>1, <1>2, <1>3, <1>4, SwapMoves DEF IInv, Types

LEMMA PutKeeps ==
  ASSUME IInv, NEW s \in Swap, Put(s)
  PROVE  IInv'
<1>1. /\ pc[s] = "put" /\ PutBack(s) /\ UNCHANGED <<run, msg, held, seen>> /\ s \in Request
      /\ pc' = [pc EXCEPT ![s] = "store"] /\ s \notin Edit
  BY NamesAreDistinct DEF Put, Goto, swapVars, queue, Request
<1>2. SinceInv' /\ since' \in [Request -> SUBSET Request]
        /\ \A e \in Edit : pc[e] \in Early => since'[e] = since[e] \/ e = s
  BY <1>1, WriteMeets DEF HasCopy
<1>3. \A x \in Request \ {s} : pc'[x] = pc[x]
  BY DEF IInv, Types, Put, Goto
<1>4. Types'
  BY <1>1, <1>2, <1>3 DEF IInv, Types, Request, SwapPc, Busy, Handling
<1>5. LoopInv'
  BY <1>1, <1>3 DEF IInv, LoopInv, Types, Request, Busy, Handling, Unsent
<1>6. AskInv'
  BY <1>1, <1>2, <1>3 DEF IInv, AskInv, Request
<1> QED BY <1>2, <1>4, <1>5, <1>6 DEF IInv

LEMMA HandlerKeeps ==
  ASSUME IInv, NEW s \in Swap, Handler(s) \/ StatementFails(s)
  PROVE  IInv'
<1> USE DEF Goto, swapVars, queue, reads, Busy, Handling
<1>1. CASE CheckRun(s)
  BY <1>1, HandlerMoves DEF CheckRun
<1>2. CASE ReadBrief(s)
  BY <1>2, HandlerMoves DEF ReadBrief
<1>3. CASE FetchPost(s)
  BY <1>3, HandlerMoves DEF FetchPost
<1>4. CASE Generate(s)
  BY <1>4, HandlerMoves DEF Generate
<1>5. CASE Put(s)
  BY <1>5, PutKeeps
<1>6. CASE Store(s)
  BY <1>6, HandlerMoves DEF Store
<1>7. CASE Finish(s)
  BY <1>7, HandlerMoves DEF Finish
<1>8. CASE Close(s)
  <2>1. /\ pc[s] \in {"close", "lastClose"} /\ UNCHANGED <<msg, held, seen, since>>
        /\ pc' = [pc EXCEPT ![s] = "end"]
        /\ run' = [run EXCEPT ![s] = IF @ = "running" THEN Verdict(s) ELSE @]
    BY <1>8 DEF Close
  <2>2. Verdict(s) \in {"success", "failed", "partial"}
    BY DEF Verdict
  <2>3. /\ run'[s] = IF run[s] = "running" THEN Verdict(s) ELSE run[s]
        /\ run' \in [Swap -> {"none", "running", "success", "partial", "failed", "cancelled"}]
        /\ \A t \in Swap \ {s} : run'[t] = run[t]
    BY <2>1, <2>2 DEF IInv, Types
  <2>4. /\ s \in Request /\ pc'[s] = "end" /\ \A x \in Request \ {s} : pc'[x] = pc[x]
        /\ pc' \in [Request -> Early \cup Asked \cup Late \cup SwapPc] /\ "end" \in SwapPc
    BY <2>1 DEF IInv, Types, Request, SwapPc
  <2>5. LoopInv'
    BY <2>1, <2>3, <2>4 DEF IInv, LoopInv, Unsent, Request
  <2> QED BY <2>1, <2>3, <2>4, <2>5, SwapMoves DEF IInv, Types
<1>9. CASE StatementFails(s)
  BY <1>9, HandlerMoves DEF StatementFails
<1> QED BY <1>1, <1>2, <1>3, <1>4, <1>5, <1>6, <1>7, <1>8, <1>9 DEF Handler

LEMMA PanelKeeps ==
  ASSUME IInv, NEW s \in Swap, Click(s) \/ Send(s) \/ CancelRefused(s) \/ Stop(s)
  PROVE  IInv'
<1> USE DEF Goto, swapVars, queue, reads
<1>0. s \in Request /\ \A t \in Swap : t \in Request
  BY DEF Request
<1>1. /\ UNCHANGED <<held, seen, since>> /\ \A x \in Request \ {s} : pc'[x] = pc[x]
      /\ pc' \in [Request -> Early \cup Asked \cup Late \cup SwapPc] /\ pc'[s] \in SwapPc
  BY <1>0 DEF IInv, Types, Click, Send, CancelRefused, Stop, SwapPc, Unsent
<1>2. /\ \A t \in Swap \ {s} : run'[t] = run[t] /\ msg'[t] = msg[t]
      /\ run' \in [Swap -> {"none", "running", "success", "partial", "failed", "cancelled"}]
      /\ msg' \in [Swap -> {"none", "created", "active", "completed", "failed", "cancelled"}]
  BY DEF IInv, Types, Click, Send, CancelRefused, Stop
<1>3. /\ msg[s] = "failed" => msg'[s] = "failed"
      /\ run[s] \notin {"none", "running"} => run'[s] = run[s]
  BY <1>0 DEF IInv, Types, LoopInv, Click, MayAsk, Send, CancelRefused, Stop, Unsent
<1>4. LoopInv'
  <2>1. CASE Click(s)
    BY <2>1, <1>0, <1>1, <1>2
       DEF IInv, Types, LoopInv, Click, MayAsk, Unsent, Busy, Handling
  <2>2. CASE Send(s)
    BY <2>2, <1>0, <1>1, <1>2 DEF IInv, Types, LoopInv, Send, Unsent, Busy, Handling
  <2>3. CASE CancelRefused(s)
    BY <2>3, <1>0, <1>1, <1>2 DEF IInv, Types, LoopInv, CancelRefused, Unsent, Busy, Handling
  <2>4. CASE Stop(s)
    BY <2>4, <1>0, <1>1, <1>2 DEF IInv, Types, LoopInv, Stop, Unsent, Busy, Handling
  <2> QED BY <2>1, <2>2, <2>3, <2>4
<1> QED BY <1>1, <1>2, <1>3, <1>4, SwapMoves DEF IInv, Types

LEMMA LoopKeeps ==
  ASSUME IInv, NEW s \in Swap, Fetch(s) \/ Settle(s) \/ TimeOut(s) \/ (Crash /\ held = s)
  PROVE  IInv'
<1> USE DEF Goto, swapVars, queue, reads
<1>0. s \in Request /\ s # NoImage /\ \A t \in Swap : t \in Request /\ t # NoImage
  BY NamesAreDistinct DEF Request
<1>1. /\ UNCHANGED <<seen, run>> /\ \A x \in Request \ {s} : pc'[x] = pc[x]
      /\ since' \in {since, [since EXCEPT ![s] = {}]}
      /\ pc' \in [Request -> Early \cup Asked \cup Late \cup SwapPc] /\ pc'[s] \in SwapPc
  BY <1>0 DEF IInv, Types, Fetch, Settle, TimeOut, Crash, Return, SwapPc, Busy, Handling
<1>2. /\ \A t \in Swap \ {s} : msg'[t] = msg[t] /\ (held' = t <=> held = t)
      /\ msg' \in [Swap -> {"none", "created", "active", "completed", "failed", "cancelled"}]
      /\ held' \in Swap \cup {NoImage}
  BY <1>0 DEF IInv, Types, Fetch, Settle, TimeOut, Crash
<1>3. msg[s] = "failed" => msg'[s] = "failed"
  BY DEF IInv, Types, LoopInv, Fetch, Settle, TimeOut, Crash
<1>4. LoopInv'
  <2>1. CASE Fetch(s)
    BY <2>1, <1>0, <1>1, <1>2 DEF IInv, Types, LoopInv, Fetch, Unsent, Busy, Handling
  <2>2. CASE Settle(s)
    BY <2>2, <1>0, <1>1, <1>2 DEF IInv, Types, LoopInv, Settle, Return, Unsent, Busy, Handling
  <2>3. CASE TimeOut(s)
    BY <2>3, <1>0, <1>1, <1>2 DEF IInv, Types, LoopInv, TimeOut, Unsent, Busy, Handling
  <2>4. CASE Crash /\ held = s
    BY <2>4, <1>0, <1>1, <1>2 DEF IInv, Types, LoopInv, Crash, Return, Unsent, Busy, Handling
  <2> QED BY <2>1, <2>2, <2>3, <2>4
<1> QED BY <1>1, <1>2, <1>3, <1>4, SwapMoves DEF IInv, Types

-----------------------------------------------------------------------------

LEMMA StutterKeeps ==
  ASSUME IInv, UNCHANGED <<pc, run, msg, held, seen, since>>
  PROVE  IInv'
BY DEF IInv, Types, LoopInv, AskInv, SinceInv, MayMeet

LEMMA NextKeeps == IInv /\ [Next]_vars => IInv'
<1> SUFFICES ASSUME IInv, [Next]_vars PROVE IInv'
  OBVIOUS
<1>1. CASE OpenPage \/ Visit \/ UNCHANGED vars
  BY <1>1, StutterKeeps DEF OpenPage, Visit, vars, reads, swapVars, queue
<1>2. CASE Crash
  <2>1. held \in Swap
    BY <1>2 DEF Crash, IInv, Types
  <2> QED BY <1>2, <2>1, LoopKeeps
<1>3. CASE \E e \in Edit : EditStep(e)
  BY <1>3, EditKeeps
<1>4. CASE \E s \in Swap : \/ Click(s) \/ Send(s) \/ CancelRefused(s) \/ Stop(s)
                           \/ TimeOut(s) \/ StatementFails(s) \/ Loop(s)
  BY <1>4, PanelKeeps, LoopKeeps, HandlerKeeps DEF Loop
<1> QED BY <1>1, <1>2, <1>3, <1>4 DEF Next

\* Two swaps of one article erase each other only when one overran its time,
\* a swap and an edit only when the edit had asked before the swap was opened
\* or its run was closed under the handler: the question of brief-edit.ts and
\* the one-at-a-time loop of image.regenerate keep them apart otherwise.
THEOREM SwapsAreProtectedHolds == Spec => SwapsAreProtected
<1>1. IInv /\ [Next]_vars =>
        [\A x, y \in Request :
           Erases(x, y) =>
             /\ {x, y} \subseteq Swap => \E s \in {x, y} : msg[s] = "failed"
             /\ \A s \in {x, y} \cap Swap, e \in {x, y} \cap Edit :
                  s \notin seen[e] \/ run[s] = "cancelled"]_vars
  BY DEF IInv, SinceInv, Erases, MayMeet
<1> QED BY <1>1, InitHolds, NextKeeps, PTL DEF Spec, SwapsAreProtected

-----------------------------------------------------------------------------
(* The text editor: its invariant                                          *)

Content == [Paragraph -> Text \cup {Blank}]
Article == [text : Content, title : Title]
AsTyped == [Paragraph -> Text \cup {Blank, "none"}]
AnEdit == {X!NoEdit} \cup [before : Text \cup {Blank}, after : Text \cup {Blank}]

TextTypes ==
  /\ article \in Article /\ xPage \in Article
  /\ screen \in Content /\ original \in Content /\ began \in Content
  /\ title \in Title /\ edits \in [Paragraph -> AnEdit] /\ typed \in AsTyped
  /\ alive \subseteq Paragraph /\ editing \in BOOLEAN /\ blurred \in BOOLEAN
  /\ foreign \subseteq Paragraph
  /\ request \in [step : {"idle", "asked", "read", "answered"}, edits : [Paragraph -> AnEdit],
                  typed : AsTyped, title : Title \cup {"none"}, read : Article,
                  content : SUBSET Content,
                  answer : {"none", "saved", "lost", "refused", "conflict", "empty"}]
  /\ request.step # "answered" => request.answer = "none"
  /\ xLoad \in [step : {"none", "asked", "drawn"}, post : Article, foreign : SUBSET Paragraph,
               old : BOOLEAN, again : BOOLEAN]
  /\ xLoad.foreign \subseteq foreign

\* The edit of a paragraph of which t was typed last.
EditOf(p, t) ==
  IF t \in {"none", original[p]} THEN X!NoEdit ELSE [before |-> original[p], after |-> t]

\* The edits are those between what was there when editing began and what was
\* typed, of the screen and of a request; and an element that is editable
\* shows what was typed in it.
TypingInv ==
  /\ original = began
  /\ editing =>
       \A p \in Paragraph :
         /\ edits[p] = EditOf(p, typed[p])
         /\ p \in alive => screen[p] = IF typed[p] = "none" THEN original[p] ELSE typed[p]
  /\ ~ editing => edits = X!NoEdits /\ alive = {} /\ request.step = "idle"
  /\ request.step # "idle" => \A p \in Paragraph : request.edits[p] = EditOf(p, request.typed[p])

\* A request that was read found what the user saw where the user typed.
ReadInv ==
  request.step = "read" =>
    /\ \A p \in TypedOver : request.read.text[p] = began[p]
    /\ request.content =
         IF TypedOver = {} THEN {}
         ELSE {[p \in Paragraph |-> IF p \in TypedOver THEN request.typed[p]
                                    ELSE request.read.text[p]]}

Landed == request.step = "answered" /\ request.answer = "saved"

\* A paragraph nobody else has changed is in WordPress as the user saw it, or
\* as a save that was not yet answered left it.
Known ==
  ~ blurred =>
    \A p \in Paragraph \ foreign :
      /\ ~ editing => screen[p] = article.text[p]
      /\ editing =>
           /\ article.text[p] = IF Landed /\ p \in TypedOver THEN request.typed[p] ELSE began[p]
           /\ p \notin alive => screen[p] = began[p] \/ (Landed /\ p \in TypedOver)
      /\ request.step = "read" => request.read.text[p] = began[p]

\* A page on its way says what WordPress says, but for the changes of others.
LoadInv ==
  xLoad.step = "drawn" /\ ~ xLoad.old =>
    \A p \in Paragraph \ xLoad.foreign : xLoad.post.text[p] = article.text[p]

TextInv == TextTypes /\ TypingInv /\ ReadInv /\ Known /\ LoadInv

LEMMA TextInit == X!Init => TextInv
<1> SUFFICES ASSUME X!Init PROVE TextInv
  OBVIOUS
<1>1. PICK t \in [Paragraph -> Text], n \in Title : article = [text |-> t, title |-> n]
  BY DEF X!Init
<1>2. article \in Article
  BY <1>1 DEF Article, Content
<1>3. TextTypes
  BY <1>2 DEF X!Init, TextTypes, Article, Content, AsTyped, AnEdit, X!NoEdits, X!Untyped, X!None
<1>4. TypingInv /\ ReadInv /\ Known /\ LoadInv
  BY <1>2 DEF X!Init, TypingInv, ReadInv, Known, LoadInv, X!NoEdits, X!Untyped, X!None, EditOf
<1> QED BY <1>3, <1>4 DEF TextInv

-----------------------------------------------------------------------------
(* The text editor: its steps                                              *)

LEMMA TextStartKeeps ==
  ASSUME TextInv, X!Start
  PROVE  TextInv'
<1> USE DEF X!Start, TextInv
<1>1. TextTypes'
  BY DEF TextTypes, X!Untyped, X!None, AsTyped
<1>2. request.step = "idle" /\ edits = X!NoEdits
  BY DEF TypingInv
<1>3. TypingInv'
  BY <1>2 DEF TextTypes, TypingInv, EditOf, X!NoEdits, X!Untyped, X!None
<1>4. ReadInv' /\ Known' /\ LoadInv'
  BY <1>2 DEF TextTypes, ReadInv, Known, LoadInv, Landed, TypingInv
<1> QED BY <1>1, <1>3, <1>4

LEMMA TextTypeKeeps ==
  ASSUME TextInv, X!TextAssumption, NEW p \in Paragraph, NEW x \in Text \cup {Blank}, X!Type(p, x)
  PROVE  TextInv'
<1> USE DEF X!Type, TextInv
<1>1. TextTypes'
  BY DEF TextTypes, Content, AsTyped, AnEdit
<1>2. TypingInv'
  BY DEF X!TextAssumption, X!None, TextTypes, Content, AsTyped, TypingInv, EditOf
<1>3. ReadInv' /\ Known' /\ LoadInv'
  BY DEF TextTypes, TypingInv, ReadInv, Known, LoadInv, Landed, TypedOver, Content
<1> QED BY <1>1, <1>2, <1>3

LEMMA TextCancelKeeps ==
  ASSUME TextInv, X!Cancel
  PROVE  TextInv'
<1> USE DEF X!Cancel, X!Exit, X!Saving, TextInv, X!history
<1>1. TextTypes'
  BY DEF TextTypes, X!Restored, X!NoEdits, Content, AnEdit, Article
<1>2. TypingInv' /\ ReadInv' /\ LoadInv'
  BY DEF TypingInv, ReadInv, LoadInv, TypedOver
<1>3. Known'
  BY DEF TextTypes, TypingInv, Known, Landed, X!Restored, Content
<1> QED BY <1>1, <1>2, <1>3

LEMMA TextSaveKeeps ==
  ASSUME TextInv, X!Save
  PROVE  TextInv'
<1> USE DEF X!Save, X!Saving, TextInv, X!history, X!browser
<1>1. TextTypes'
  BY DEF TextTypes, X!TitleChanged, X!None
<1>2. request'.step = "asked" /\ request'.edits = edits /\ request'.typed = typed
  BY DEF TextTypes
<1>3. TypingInv'
  BY <1>2 DEF TypingInv, EditOf
<1>4. ReadInv' /\ Known' /\ LoadInv'
  BY <1>2 DEF ReadInv, LoadInv, Known, Landed
<1> QED BY <1>1, <1>3, <1>4

\* What was sent is what was typed over the text the user had on the screen.
LEMMA SentIsTyped ==
  ASSUME TextInv, request.step # "idle"
  PROVE  /\ X!Sent = TypedOver
         /\ \A p \in TypedOver : /\ p \in Paragraph /\ request.typed[p] # began[p]
                                 /\ request.edits[p].before = began[p]
                                 /\ request.edits[p].after = request.typed[p]
<1>1. DOMAIN began = Paragraph
  BY DEF TextInv, TextTypes, Content
<1>2. ASSUME NEW p \in Paragraph
      PROVE  /\ request.edits[p] # X!NoEdit <=> request.typed[p] \notin {"none", began[p]}
             /\ request.typed[p] \notin {"none", began[p]} =>
                  /\ request.edits[p].before = began[p]
                  /\ request.edits[p].after = request.typed[p]
  <2>1. request.edits[p] = IF request.typed[p] \in {"none", began[p]} THEN X!NoEdit
                           ELSE [before |-> began[p], after |-> request.typed[p]]
    BY DEF TextInv, TypingInv, EditOf
  <2> QED BY <2>1 DEF X!NoEdit, X!None
<1> QED BY <1>1, <1>2 DEF X!Sent, TypedOver

\* Where nobody else changed what the user typed over, WordPress has it.
LEMMA ConflictIsForeign ==
  ASSUME TextInv, request.step = "asked", ~ blurred, X!Conflicts # {}
  PROVE  TypedOver \cap foreign # {}
<1>1. PICK p \in X!Sent : request.edits[p].before # article.text[p]
  BY DEF X!Conflicts
<1>2. p \in TypedOver /\ request.edits[p].before = began[p]
  BY <1>1, SentIsTyped
<1>3. p \in Paragraph /\ editing
  BY <1>1 DEF X!Sent, TextInv, TextTypes, TypingInv
<1>4. p \in foreign
  BY <1>1, <1>2, <1>3 DEF TextInv, Known, Landed
<1> QED BY <1>2, <1>4

LEMMA TextReadKeeps ==
  ASSUME TextInv, X!ReadPost
  PROVE  TextInv'
<1> USE DEF X!history, X!browser
<1>0. /\ request.step = "asked" /\ editing
      /\ UNCHANGED <<article, xPage, screen, alive, original, edits, title, editing, xLoad,
                     began, typed, foreign, blurred>>
  BY DEF X!ReadPost, TextInv, TypingInv, TextTypes
<1>1. ASSUME NEW why \in {"refused", "conflict", "empty", "saved"}, X!Answer(why),
             why = "saved" => X!Conflicts = {} /\ X!Applied = article.text
      PROVE  TextInv'
  <2>1. /\ request'.step = "answered" /\ request'.answer = why /\ request'.typed = request.typed
        /\ request'.edits = request.edits
    BY <1>1 DEF X!Answer, TextInv, TextTypes
  <2>2. TypedOver' = TypedOver
    BY <1>0, <2>1 DEF TypedOver
  <2>3. TextTypes'
    BY <1>0, <1>1 DEF X!Answer, TextInv, TextTypes
  <2>4. TypingInv' /\ ReadInv' /\ LoadInv'
    BY <1>0, <2>1 DEF TextInv, TypingInv, ReadInv, LoadInv, EditOf
  <2>5. ASSUME why = "saved", NEW p \in TypedOver
        PROVE  article.text[p] = request.typed[p]
    <3>1. p \in X!Sent /\ request.edits[p].after = request.typed[p]
      BY <1>0, <2>5, SentIsTyped
    <3> QED BY <1>1, <2>5, <3>1 DEF X!Applied, X!Sent
  <2>6. Known'
    BY <1>0, <2>1, <2>2, <2>5 DEF TextInv, Known, Landed
  <2> QED BY <2>3, <2>4, <2>6 DEF TextInv
<1>2. ASSUME X!Conflicts = {}, 
             request' = [request EXCEPT !.step = "read", !.read = article,
                           !.content = IF X!Applied = article.text THEN {} ELSE {X!Applied}]
      PROVE  TextInv'
  <2>1. /\ request'.step = "read" /\ request'.typed = request.typed /\ request'.read = article
        /\ request'.content = IF X!Applied = article.text THEN {} ELSE {X!Applied}
        /\ request'.edits = request.edits
    BY <1>2 DEF TextInv, TextTypes
  <2>2. TypedOver' = TypedOver
    BY <1>0, <2>1 DEF TypedOver
  <2>3. \A p \in TypedOver :
           /\ article.text[p] = began[p] /\ request.typed[p] # began[p]
           /\ p \in Paragraph /\ request.edits[p].after = request.typed[p]
    BY <1>0, <1>2, SentIsTyped DEF X!Conflicts, X!Sent, TypedOver
  <2>4. X!Applied = [p \in Paragraph |-> IF p \in TypedOver THEN request.typed[p]
                                         ELSE article.text[p]]
    BY <1>0, <2>3, SentIsTyped DEF X!Applied
  <2>5. X!Applied = article.text <=> TypedOver = {}
    BY <2>3, <2>4 DEF TextInv, TextTypes, Article, Content
  <2>6. X!Applied \in Content
    BY <2>3, <2>4 DEF TextInv, TextTypes, Article, Content, AsTyped, TypedOver
  <2>7. TextTypes'
    BY <1>0, <1>2, <2>6 DEF TextInv, TextTypes
  <2>8. TypingInv' /\ LoadInv'
    BY <1>0, <2>1 DEF TextInv, TypingInv, LoadInv, EditOf
  <2>9. ReadInv'
    BY <1>0, <2>1, <2>2, <2>3, <2>4, <2>5 DEF ReadInv
  <2>10. Known'
    BY <1>0, <2>1, <2>2 DEF TextInv, Known, Landed
  <2> QED BY <2>7, <2>8, <2>9, <2>10 DEF TextInv
<1>3. CASE X!Answer("refused") \/ (X!Conflicts # {} /\ X!Answer("conflict"))
             \/ (X!Empties # {} /\ X!Answer("empty"))
  BY <1>1, <1>3
<1>4. CASE /\ X!Conflicts = {} /\ X!Empties = {}
           /\ IF X!Applied = article.text /\ request.title \in {X!None, article.title}
              THEN X!Answer("saved")
              ELSE request' = [request EXCEPT !.step = "read", !.read = article,
                                 !.content = IF X!Applied = article.text THEN {} ELSE {X!Applied}]
  BY <1>1, <1>2, <1>4
<1> QED BY <1>3, <1>4 DEF X!ReadPost

\* What a write puts into WordPress.
LEMMA WrittenIsTyped ==
  ASSUME TextInv, request.step = "read"
  PROVE  /\ X!Written \in Article
         /\ \A p \in Paragraph :
              X!Written.text[p] = IF TypedOver = {} THEN article.text[p]
                                  ELSE IF p \in TypedOver THEN request.typed[p]
                                  ELSE request.read.text[p]
         /\ request.content = {} <=> TypedOver = {}
<1>1. CASE TypedOver = {}
  BY <1>1 DEF TextInv, TextTypes, ReadInv, X!Written, Article, X!None
<1>2. CASE TypedOver # {}
  <2> DEFINE c == [p \in Paragraph |-> IF p \in TypedOver THEN request.typed[p]
                                       ELSE request.read.text[p]]
  <2>1. request.content = {c} /\ c \in Content
    BY <1>2 DEF TextInv, TextTypes, ReadInv
  <2>2. X!Written.text = c
    BY <2>1 DEF X!Written
  <2>3. X!Written \in Article
    BY <2>1, <2>2 DEF X!Written, TextInv, TextTypes, Article, X!None
  <2> QED BY <1>2, <2>1, <2>2, <2>3
<1> QED BY <1>1, <1>2

LEMMA TextWriteKeeps ==
  ASSUME TextInv, X!WritePost
  PROVE  TextInv'
<1> USE DEF X!browser
<1>1. PICK answer \in {"saved", "lost"} :
        /\ request' = [request EXCEPT !.step = "answered", !.answer = answer]
        /\ blurred' = (blurred \/ answer = "lost")
  BY DEF X!WritePost
<1>2. /\ request.step = "read" /\ editing /\ article' = X!Written
      /\ xLoad' = [xLoad EXCEPT !.old = (xLoad.step = "drawn")]
      /\ UNCHANGED <<xPage, screen, alive, original, edits, title, editing, began, typed, foreign>>
  BY DEF X!WritePost, TextInv, TextTypes, TypingInv
<1>3. /\ request'.step = "answered" /\ request'.answer = answer /\ request'.typed = request.typed
      /\ request'.edits = request.edits
  BY <1>1 DEF TextInv, TextTypes
<1>4. TypedOver' = TypedOver
  BY <1>2, <1>3 DEF TypedOver
<1>5. TextTypes'
  BY <1>1, <1>2, WrittenIsTyped DEF TextInv, TextTypes
<1>6. TypingInv' /\ ReadInv'
  BY <1>2, <1>3 DEF TextInv, TypingInv, ReadInv, EditOf
<1>8. LoadInv'
  BY <1>2 DEF TextInv, TextTypes, LoadInv
<1>7. Known'
  BY <1>1, <1>2, <1>3, <1>4, WrittenIsTyped DEF TextInv, Known, Landed
<1> QED BY <1>5, <1>6, <1>7, <1>8 DEF TextInv

LEMMA TextFailureKeeps ==
  ASSUME TextInv, X!WriteFails
  PROVE  TextInv'
<1> USE DEF X!WriteFails, X!browser, X!history, TextInv
<1>1. /\ request'.step = "answered" /\ request'.answer = "refused"
      /\ request'.typed = request.typed /\ request'.edits = request.edits
  BY DEF TextTypes
<1>2. TextTypes'
  BY DEF TextTypes
<1>3. TypingInv' /\ ReadInv' /\ LoadInv'
  BY <1>1 DEF TypingInv, ReadInv, LoadInv, EditOf
<1>4. Known'
  BY <1>1 DEF Known, Landed
<1> QED BY <1>2, <1>3, <1>4

LEMMA TextAnsweredKeeps ==
  ASSUME TextInv, X!Answered
  PROVE  TextInv'
<1>0. /\ request.step = "answered" /\ request'.step = "idle" /\ editing
      /\ UNCHANGED <<article, xPage, screen, original, title, began, typed, foreign>>
      /\ IF request.answer = "saved"
         THEN /\ X!Exit /\ xLoad' = X!Refresh(xLoad)
              /\ blurred' = (\/ blurred \/ typed # request.typed
                            \/ \E p \in X!Sent : screen[p] # request.edits[p].after)
         ELSE UNCHANGED <<edits, editing, alive, xLoad, blurred>>
  BY DEF X!Answered, TextInv, TextTypes, TypingInv
<1>1. /\ xLoad'.step = "drawn" => xLoad.step = "drawn"
      /\ xLoad'.post = xLoad.post /\ xLoad'.old = xLoad.old /\ xLoad'.foreign = xLoad.foreign
  BY <1>0 DEF X!Refresh, TextInv, TextTypes
<1>2. TextTypes'
  <2>1. edits' \in [Paragraph -> AnEdit] /\ alive' \subseteq Paragraph /\ editing' \in BOOLEAN
        /\ blurred' \in BOOLEAN
    BY <1>0 DEF X!Exit, TextInv, TextTypes, X!NoEdits, AnEdit
  <2>2. xLoad' \in [step : {"none", "asked", "drawn"}, post : Article, foreign : SUBSET Paragraph,
                    old : BOOLEAN, again : BOOLEAN]
    BY <1>0 DEF X!Refresh, TextInv, TextTypes
  <2>3. X!NoEdits \in [Paragraph -> AnEdit] /\ X!Untyped \in AsTyped
    BY DEF X!NoEdits, X!Untyped, X!None, AnEdit, AsTyped
  <2>4. request' = [request EXCEPT !.step = "idle", !.edits = X!NoEdits, !.typed = X!Untyped,
                                   !.title = "none", !.content = {}, !.answer = "none"]
    BY DEF X!Answered, X!None
  <2>5. request' \in [step : {"idle", "asked", "read", "answered"}, edits : [Paragraph -> AnEdit],
                     typed : AsTyped, title : Title \cup {"none"}, read : Article,
                     content : SUBSET Content,
                     answer : {"none", "saved", "lost", "refused", "conflict", "empty"}]
        /\ request'.answer = "none"
    BY <2>3, <2>4 DEF TextInv, TextTypes
  <2>6. xLoad'.foreign \subseteq foreign'
    BY <1>0, <1>1 DEF TextInv, TextTypes
  <2>7. /\ article' \in Article /\ xPage' \in Article
        /\ screen' \in Content /\ original' \in Content /\ began' \in Content
        /\ title' \in Title /\ typed' \in AsTyped /\ foreign' \subseteq Paragraph
    BY <1>0 DEF TextInv, TextTypes
  <2> QED BY <2>1, <2>2, <2>5, <2>6, <2>7 DEF TextTypes
<1>3. TypingInv' /\ ReadInv' /\ LoadInv'
  <2>1. TypingInv'
    BY <1>0 DEF TextInv, TypingInv, EditOf, X!Exit
  <2>2. ReadInv' /\ LoadInv'
    BY <1>0, <1>1 DEF TextInv, ReadInv, LoadInv
  <2> QED BY <2>1, <2>2
<1>4. Known'
  <2>1. CASE request.answer = "saved" /\ ~ blurred'
    <3>0. editing' = FALSE /\ UNCHANGED <<screen, article, foreign>>
      BY <1>0, <2>1 DEF X!Exit
    <3> SUFFICES ASSUME NEW p \in Paragraph \ foreign PROVE screen[p] = article.text[p]
      BY <1>0, <3>0 DEF Known
    <3>1. article.text[p] = IF p \in TypedOver THEN request.typed[p] ELSE began[p]
      BY <1>0, <2>1 DEF TextInv, Known, Landed
    <3>2. CASE p \in TypedOver
      BY <1>0, <2>1, <3>1, <3>2, SentIsTyped
    <3>3. CASE p \notin TypedOver
      <4>1. typed[p] \in {"none", began[p]}
        BY <1>0, <2>1, <3>3 DEF TypedOver, TextInv, TextTypes, Content
      <4> QED BY <1>0, <2>1, <3>1, <3>3, <4>1 DEF TextInv, TypingInv, Known
    <3> QED BY <3>2, <3>3
  <2>2. CASE request.answer # "saved"
    BY <1>0, <2>2 DEF TextInv, Known, Landed
  <2>3. CASE blurred'
    BY <2>3 DEF Known
  <2> QED BY <2>1, <2>2, <2>3
<1> QED BY <1>2, <1>3, <1>4 DEF TextInv

LEMMA TextPageKeeps ==
  ASSUME TextInv, X!AskPage \/ X!DrawPage
  PROVE  TextInv'
<1> USE DEF X!browser, X!history
<1>1. UNCHANGED <<article, xPage, screen, alive, original, edits, title, editing, request, began,
                  typed, foreign, blurred>>
  BY DEF X!AskPage, X!DrawPage
<1>2. TextTypes'
  BY DEF X!AskPage, X!DrawPage, X!Refresh, TextInv, TextTypes
<1>3. TypingInv' /\ ReadInv' /\ Known'
  BY <1>1 DEF TextInv, TypingInv, ReadInv, Known, EditOf, Landed, TypedOver
<1>4. LoadInv'
  BY DEF X!AskPage, X!DrawPage, X!Refresh, TextInv, TextTypes, LoadInv
<1> QED BY <1>2, <1>3, <1>4 DEF TextInv

LEMMA TextArrivalKeeps ==
  ASSUME TextInv, X!PageArrives
  PROVE  TextInv'
<1>0. /\ xLoad.step = "drawn" /\ xPage' = xLoad.post
      /\ screen' = [p \in Paragraph |-> IF p \in X!Redrawn THEN xLoad.post.text[p] ELSE screen[p]]
      /\ alive' = alive \ X!Redrawn
      /\ IF editing
         THEN blurred' = (blurred \/ xLoad.old) /\ UNCHANGED foreign
         ELSE blurred' = (xLoad.old \/ screen' # xLoad.post.text) /\ foreign' = xLoad.foreign
      /\ UNCHANGED <<article, original, edits, editing, request, began, typed>>
  BY DEF X!PageArrives
<1>1. xLoad'.step # "drawn"
  BY DEF X!PageArrives, TextInv, TextTypes
<1>2. TextTypes'
  BY DEF X!PageArrives, TextInv, TextTypes, Article, Content
<1>3. TypingInv' /\ ReadInv' /\ LoadInv'
  BY <1>0, <1>1 DEF TextInv, TextTypes, TypingInv, ReadInv, LoadInv, EditOf, TypedOver
<1>4. TypedOver' = TypedOver
  BY <1>0 DEF TypedOver
<1>5. Known'
  <2> SUFFICES ASSUME ~ blurred', NEW p \in Paragraph, p \notin foreign'
               PROVE  /\ ~ editing => screen'[p] = article.text[p]
                      /\ editing =>
                           /\ article.text[p] = IF Landed /\ p \in TypedOver
                                                THEN request.typed[p] ELSE began[p]
                           /\ p \notin alive' =>
                                screen'[p] = began[p] \/ (Landed /\ p \in TypedOver)
                      /\ request.step = "read" => request.read.text[p] = began[p]
    BY <1>0, <1>4 DEF Known, Landed
  <2>1. xLoad.post.text[p] = article.text[p]
    BY <1>0 DEF TextInv, TextTypes, LoadInv
  <2>2. CASE editing
    BY <1>0, <2>1, <2>2 DEF TextInv, Known
  <2>3. CASE ~ editing
    BY <1>0, <2>1, <2>3 DEF TextInv, TypingInv
  <2> QED BY <2>2, <2>3
<1> QED BY <1>2, <1>3, <1>5 DEF TextInv

LEMMA TextForeignKeeps ==
  ASSUME TextInv, NEW p \in Paragraph, NEW x \in Text, X!Foreign(p, x)
  PROVE  TextInv'
<1> USE DEF X!Foreign, X!browser, TextInv
<1>1. \A q \in Paragraph \ {p} : article'.text[q] = article.text[q]
  BY DEF TextTypes, Article, Content
<1>2. TextTypes'
  BY DEF TextTypes, Article, Content
<1>3. TypingInv' /\ ReadInv'
  BY DEF TypingInv, ReadInv, EditOf, TypedOver
<1>4. Known'
  BY <1>1 DEF Known, Landed, TypedOver
<1>5. LoadInv'
  BY <1>1 DEF LoadInv, TextTypes
<1> QED BY <1>2, <1>3, <1>4, <1>5

LEMMA TextTitleKeeps ==
  ASSUME TextInv, NEW n \in Title, X!TypeTitle(n)
  PROVE  TextInv'
BY DEF X!TypeTitle, X!history, TextInv, TextTypes, TypingInv, ReadInv, Known, LoadInv, EditOf,
   Landed, TypedOver

LEMMA TextStutters ==
  ASSUME TextInv, UNCHANGED X!vars
  PROVE  TextInv'
BY DEF X!vars, TextInv, TextTypes, TypingInv, ReadInv, Known, LoadInv, EditOf, Landed, TypedOver

LEMMA TextNext == X!TextAssumption /\ TextInv /\ [X!Next]_X!vars => TextInv'
<1> SUFFICES ASSUME X!TextAssumption, TextInv, [X!Next]_X!vars PROVE TextInv'
  OBVIOUS
<1>1. CASE UNCHANGED X!vars
  BY <1>1, TextStutters
<1>2. CASE X!Next
  BY <1>2, TextStartKeeps, TextCancelKeeps, TextSaveKeeps, TextReadKeeps, TextWriteKeeps,
     TextFailureKeeps, TextAnsweredKeeps, TextPageKeeps, TextArrivalKeeps, TextTypeKeeps,
     TextTitleKeeps, TextForeignKeeps DEF X!Next
<1> QED BY <1>1, <1>2

\* A step is as TextIsAsSeen says: what is written, and who hears of a conflict.
LEMMA TextSteps ==
  ASSUME TextInv, [X!Next]_X!vars
  PROVE  [ /\ Writes =>
                \A p \in DOMAIN began :
                  IF p \in TypedOver
                  THEN request.read.text[p] = began[p] /\ article'.text[p] = request.typed[p]
                  ELSE article'.text[p] = request.read.text[p]
           /\ (request.step = "asked" /\ request'.answer = "conflict" /\ ~ blurred) =>
                TypedOver \cap foreign # {} ]_<<article, request>>
<1>1. DOMAIN began = Paragraph
  BY DEF TextInv, TextTypes, Content
<1>2. CASE X!WritePost
  <2>1. request.step = "read" /\ article' = X!Written
    BY <1>2 DEF X!WritePost
  <2> QED BY <1>1, <2>1, WrittenIsTyped DEF TextInv, ReadInv, Writes
<1>3. CASE X!WriteFails
  <2>1. request.step = "read" /\ request'.answer = "refused"
    BY <1>3 DEF X!WriteFails, TextInv, TextTypes
  <2> QED BY <2>1 DEF Writes
<1>4. CASE X!ReadPost
  <2>1. request.step = "asked"
    BY <1>4 DEF X!ReadPost
  <2>2. request'.answer = "conflict" => X!Conflicts # {}
    BY <1>4 DEF X!ReadPost, X!Answer, TextInv, TextTypes
  <2> QED BY <2>1, <2>2, ConflictIsForeign DEF Writes
<1>5. CASE X!Save \/ X!Answered
  <2>1. request.step \in {"idle", "answered"}
    BY <1>5 DEF X!Save, X!Saving, X!Answered
  <2> QED BY <2>1 DEF Writes
<1>6. CASE UNCHANGED request
  BY <1>6 DEF TextInv, TextTypes, Writes
<1>7. X!WritePost \/ X!WriteFails \/ X!ReadPost \/ X!Save \/ X!Answered \/ UNCHANGED request
  BY DEF X!Next, X!Start, X!Cancel, X!AskPage, X!DrawPage, X!PageArrives, X!Type, X!TypeTitle,
     X!Foreign, X!vars
<1> QED BY <1>2, <1>3, <1>4, <1>5, <1>6, <1>7

-----------------------------------------------------------------------------
(* The dialog of an image: its invariant                                   *)

Shots == I!Image \cup {NoPicture}
Caption == I!Image \cup {"none", "typed"}
Shot == [image : Shots, caption : Caption]
Shown == [Slot -> Shot]

\* What the dialog and its request may hold.
AnyDialog ==
  [slot : Slot \cup {"none"}, moved : BOOLEAN, file : Shots, url : Shots, preview : Shots,
   caption : Caption, busy : BOOLEAN]

AnyChange ==
  [step : {"idle", "asked", "read", "done", "refused"}, slot : Slot \cup {"none"},
   target : Shot \cup {I!Of(NoPicture)}, moved : BOOLEAN, new : Shots, shown : Shots,
   caption : Caption, read : Shot \cup {I!Of(NoPicture)}]

ImageTypes ==
  /\ images \in Shown /\ iPage \in Shown
  /\ iLoad \in [step : {"none", "asked", "drawn"}, post : Shown]
  /\ dialog \in AnyDialog /\ change \in AnyChange /\ running \in Slot \cup {"none"}

\* The caption in a dialog under which the page did not change is that of the
\* image on the page, which a new image does not take.
DialogInv ==
  dialog # I!Closed =>
    /\ dialog.slot \in Slot /\ dialog.preview = dialog.file
    /\ ~ dialog.moved =>
         /\ dialog.caption \in {"none", "typed", iPage[dialog.slot].caption}
         /\ I!Sent # NoPicture => dialog.caption \in {"none", "typed"}

\* The caption a request brings, what it read, and the dialog that waits for it.
ChangeInv ==
  /\ change.step \in {"asked", "read"} =>
       /\ change.slot \in Slot
       /\ ~ change.moved /\ change.caption \notin {"none", "typed"} =>
            change.new = NoPicture /\ change.caption = change.target.caption
  /\ change.step # "idle" => dialog # I!Closed /\ dialog.busy
  /\ change.step = "read" => change.read = images[change.slot] /\ running = "none"

ImageInv == ImageTypes /\ DialogInv /\ ChangeInv /\ CaptionsFollowImages

LEMMA ImageInit == I!Init => ImageInv
<1> SUFFICES ASSUME I!Init PROVE ImageInv
  OBVIOUS
<1>1. \A s \in Slot : First[s] \in I!Image
  BY DEF I!Image
<1>2. images \in Shown
  BY <1>1 DEF I!Init, I!Of, Shown, Shot, Shots, Caption
<1>3. ImageTypes
  BY <1>2 DEF I!Init, ImageTypes, AnyDialog, AnyChange, I!Closed, I!Quiet, I!None, Shots, Caption
<1>4. DialogInv /\ ChangeInv /\ CaptionsFollowImages
  BY DEF I!Init, DialogInv, ChangeInv, CaptionsFollowImages, I!Quiet, I!Of
<1> QED BY <1>3, <1>4 DEF ImageInv

-----------------------------------------------------------------------------
(* The dialog of an image: its steps                                       *)

LEMMA ImageOpenKeeps ==
  ASSUME ImageInv, NEW s \in Slot, NEW b \in I!Brought \cup {I!Nothing}, I!Open(s, b)
  PROVE  ImageInv'
<1>1. b.file \in Shots /\ b.url \in Shots /\ "none" \in Caption /\ iPage[s].caption \in Caption
  BY DEF I!Brought, I!Nothing, I!Image, Shots, Caption, ImageInv, ImageTypes, Shown, Shot
<1>2. PICK c \in {"none", iPage[s].caption} :
        /\ dialog' = [slot |-> s, moved |-> FALSE, file |-> b.file, url |-> b.url,
                      preview |-> b.file, caption |-> c, busy |-> FALSE]
        /\ b.file # NoPicture \/ b.url # NoPicture => c = "none"
  <2> DEFINE c == IF b = I!Nothing THEN iPage[s].caption ELSE "none"
  <2>1. dialog' = [slot |-> s, moved |-> FALSE, file |-> b.file, url |-> b.url,
                   preview |-> b.file, caption |-> c, busy |-> FALSE]
    BY DEF I!Open, I!Closed, I!None
  <2>2. b.file # NoPicture \/ b.url # NoPicture => c = "none"
    BY DEF I!Nothing
  <2> HIDE DEF c
  <2>3. c \in {"none", iPage[s].caption}
    BY DEF c
  <2> QED BY <2>1, <2>2, <2>3
<1>3. UNCHANGED <<images, iPage, change, running, iLoad, strayed>> /\ dialog = I!Closed
  BY DEF I!Open
<1>4. dialog' \in AnyDialog
  BY <1>1, <1>2 DEF AnyDialog
<1>5. ImageTypes'
  BY <1>3, <1>4 DEF ImageInv, ImageTypes
<1>6. DialogInv'
  BY <1>2, <1>3 DEF DialogInv, I!Sent
<1>7. ChangeInv' /\ CaptionsFollowImages'
  BY <1>3 DEF ImageInv, ChangeInv, CaptionsFollowImages
<1> QED BY <1>5, <1>6, <1>7 DEF ImageInv

\* A dialog that is open stays of its slot, and its caption is as DialogInv says.
LEMMA DialogMoves ==
  ASSUME ImageInv, dialog # I!Closed, UNCHANGED <<images, iPage, change, running, iLoad, strayed>>,
         dialog' \in AnyDialog, dialog'.preview = dialog'.file,
         dialog'.slot = dialog.slot, dialog'.moved = dialog.moved, dialog'.busy = dialog.busy,
         dialog'.caption \in {"none", "typed", dialog.caption},
         dialog'.caption \in {"none", "typed"} \/ dialog'.caption # iPage[dialog.slot].caption
           \/ (dialog'.file = NoPicture /\ dialog'.url = NoPicture)
           \/ (dialog.file # NoPicture \/ dialog.url # NoPicture)
  PROVE  ImageInv'
<1>1. ImageTypes'
  BY DEF ImageInv, ImageTypes
<1>2. DialogInv'
  BY DEF ImageInv, DialogInv, I!Sent
<1>3. ChangeInv' /\ CaptionsFollowImages'
  BY DEF ImageInv, ChangeInv, CaptionsFollowImages, I!Closed
<1> QED BY <1>1, <1>2, <1>3 DEF ImageInv

LEMMA DialogKeeps ==
  ASSUME ImageInv,
         \/ \E f \in File : I!ChooseFile(f)
         \/ \E u \in Address : I!DropAddress(u)
         \/ \E u \in Address \cup {NoPicture} : I!TypeAddress(u)
         \/ \E c \in {"typed", "none"} : I!TypeCaption(c)
         \/ I!DiscardNew
  PROVE  ImageInv'
<1> USE DEF I!InDialog, I!Noted, I!Current, ImageInv, DialogInv
<1>0. /\ dialog # I!Closed /\ dialog \in AnyDialog /\ NoPicture \in Shots
      /\ File \subseteq Shots /\ Address \subseteq Shots /\ {"none", "typed"} \subseteq Caption
      /\ UNCHANGED <<images, iPage, change, running, iLoad, strayed>>
  BY DEF I!ChooseFile, I!DropAddress, I!TypeAddress, I!TypeCaption, I!DiscardNew, ImageTypes,
     Shots, Caption, I!Image
<1>a. I!Noted \in {"none", "typed", dialog.caption} /\ I!Noted \in Caption
  BY <1>0 DEF AnyDialog, I!None
<1>b. ASSUME NEW f \in Shots, NEW u \in Shots,
             dialog' = [dialog EXCEPT !.file = f, !.preview = f, !.url = u, !.caption = I!Noted]
      PROVE  ImageInv'
  <2> DEFINE noted == I!Noted
  <2>1. \/ noted \in {"none", "typed"} \/ noted # iPage[dialog.slot].caption
        \/ (dialog.file # NoPicture \/ dialog.url # NoPicture)
    BY <1>0 DEF I!None
  <2>2. dialog' = [dialog EXCEPT !.file = f, !.preview = f, !.url = u, !.caption = noted]
    BY <1>b
  <2>3. noted \in Caption /\ noted \in {"none", "typed", dialog.caption}
    BY <1>a
  <2> HIDE DEF noted
  <2>4. /\ dialog' \in AnyDialog /\ dialog'.preview = dialog'.file
        /\ dialog'.slot = dialog.slot /\ dialog'.moved = dialog.moved /\ dialog'.busy = dialog.busy
        /\ dialog'.caption = noted
    BY <1>0, <2>2, <2>3 DEF AnyDialog
  <2> QED BY <1>0, <2>1, <2>3, <2>4, DialogMoves
<1>1. CASE \E f \in File : I!ChooseFile(f)
  <2>1. PICK f \in File : dialog' = [dialog EXCEPT !.file = f, !.preview = f, !.url = NoPicture,
                                                   !.caption = I!Noted]
    BY <1>1 DEF I!ChooseFile
  <2> QED BY <1>0, <1>b, <2>1
<1>2. CASE \E u \in Address : I!DropAddress(u)
  <2>1. PICK u \in Address : dialog' = [dialog EXCEPT !.file = NoPicture, !.preview = NoPicture,
                                                     !.url = u, !.caption = I!Noted]
    BY <1>2 DEF I!DropAddress
  <2> QED BY <1>0, <1>b, <2>1
<1>3. CASE \E u \in Address \cup {NoPicture} : I!TypeAddress(u)
  BY <1>0, <1>3, DialogMoves DEF I!TypeAddress, AnyDialog, I!None
<1>4. CASE \E c \in {"typed", "none"} : I!TypeCaption(c)
  BY <1>0, <1>4, DialogMoves DEF I!TypeCaption, AnyDialog
<1>5. CASE I!DiscardNew
  BY <1>0, <1>5, DialogMoves DEF I!DiscardNew, AnyDialog
<1> QED BY <1>1, <1>2, <1>3, <1>4, <1>5

LEMMA ImageCloseKeeps ==
  ASSUME ImageInv, I!Close
  PROVE  ImageInv'
BY DEF I!Close, I!Closed, I!None, ImageInv, ImageTypes, AnyDialog, AnyChange, DialogInv, ChangeInv,
   CaptionsFollowImages, Shots, Caption

LEMMA ImageSubmitKeeps ==
  ASSUME ImageInv, I!Submit
  PROVE  ImageInv'
<1> USE DEF I!Submit, ImageInv
<1>1. /\ change'.step = "asked" /\ change'.slot = dialog.slot /\ change'.moved = dialog.moved
      /\ change'.target = iPage[dialog.slot] /\ change'.new = I!Sent /\ change'.shown = I!Shown
      /\ change'.caption = dialog.caption
  BY DEF I!Current
<1>2. /\ dialog'.busy /\ dialog'.slot = dialog.slot /\ dialog'.moved = dialog.moved
      /\ dialog'.file = dialog.file /\ dialog'.url = dialog.url
      /\ dialog'.preview = dialog.preview /\ dialog'.caption = dialog.caption
  BY DEF ImageTypes, AnyDialog, AnyChange
<1>3. dialog.slot \in Slot
  BY DEF DialogInv
<1>4. ImageTypes'
  BY <1>3 DEF ImageTypes, AnyDialog, AnyChange, I!Current, I!Sent, I!Shown, Shown
<1>5. DialogInv'
  BY <1>2 DEF DialogInv, I!Sent
<1>6. dialog' # I!Closed
  BY <1>2 DEF I!Closed
<1>7. ChangeInv'
  BY <1>1, <1>2, <1>3, <1>6 DEF ChangeInv, DialogInv
<1>8. CaptionsFollowImages'
  BY <1>1 DEF CaptionsFollowImages, DialogInv, I!Sent, I!Shown
<1> QED BY <1>4, <1>5, <1>7, <1>8

LEMMA ImageServerKeeps ==
  ASSUME ImageInv, I!Refused \/ I!Read
  PROVE  ImageInv'
<1> USE DEF I!Refused, I!Read, I!Answer, ImageInv
<1>1. UNCHANGED <<images, iPage, dialog, running, iLoad, strayed>>
  OBVIOUS
<1>2. /\ change.step # "idle" /\ change'.slot = change.slot /\ change'.moved = change.moved
      /\ change'.new = change.new /\ change'.target = change.target
      /\ change'.caption = change.caption /\ change'.shown = change.shown
      /\ change'.step \in {"read", "refused"}
      /\ change'.step = "read" => change.step = "asked" /\ change'.read = images[change.slot]
                                  /\ running = "none"
  BY DEF ImageTypes, AnyChange, I!None
<1>3. ImageTypes'
  BY DEF ImageTypes, AnyChange, ChangeInv, Shown
<1>4. DialogInv' /\ ChangeInv' /\ CaptionsFollowImages'
  BY <1>1, <1>2 DEF DialogInv, ChangeInv, CaptionsFollowImages, I!Sent
<1> QED BY <1>3, <1>4

LEMMA ImageChangeKeeps ==
  ASSUME ImageInv, I!Replace \/ I!Adjust
  PROVE  ImageInv'
<1> USE DEF I!Replace, I!Adjust, I!Answer, ImageInv
<1>1. /\ change.step = "read" /\ change' = [change EXCEPT !.step = "done"]
      /\ UNCHANGED <<iPage, dialog, running, iLoad>>
      /\ change.slot \in Slot /\ change.read = images[change.slot]
  BY DEF ChangeInv
<1>2. /\ change'.step = "done" /\ change'.new = change.new /\ change'.shown = change.shown
  BY <1>1 DEF ImageTypes, AnyChange
<1>3. images' \in Shown
  <2>1. PICK n \in {change.new, change.read.image} :
          images' = [images EXCEPT ![change.slot] = [image |-> n, caption |-> change.caption]]
    BY <1>1
  <2>2. n \in Shots /\ change.caption \in Caption
    BY <1>1, <2>1 DEF ImageTypes, AnyChange, Shown, Shot
  <2> QED BY <1>1, <2>1, <2>2 DEF ImageTypes, Shown, Shot
<1>4. ImageTypes'
  BY <1>1, <1>3 DEF ImageTypes, AnyChange
<1>5. DialogInv' /\ ChangeInv'
  BY <1>1, <1>2 DEF DialogInv, ChangeInv, I!Sent
<1>6. \A s \in Slot \ {change.slot} : images'[s] = images[s] /\ (s \in strayed' <=> s \in strayed)
  BY <1>1 DEF ImageTypes, Shown
<1>7. change.slot \notin strayed' =>
        images'[change.slot].caption \in {"none", "typed", images'[change.slot].image}
  <2>1. CASE I!Replace
    BY <1>1, <2>1 DEF ImageTypes, Shown, ChangeInv
  <2>2. CASE I!Adjust
    BY <1>1, <2>2 DEF ImageTypes, Shown, ChangeInv, CaptionsFollowImages
  <2> QED BY <2>1, <2>2
<1>8. CaptionsFollowImages'
  BY <1>2, <1>3, <1>6, <1>7 DEF CaptionsFollowImages, ImageTypes, Shown
<1> QED BY <1>4, <1>5, <1>8

LEMMA ImageEndKeeps ==
  ASSUME ImageInv, I!Answered
  PROVE  ImageInv'
<1> USE DEF I!Answered, I!Ask, ImageInv
<1>1. /\ UNCHANGED <<images, iPage, running, strayed>> /\ change' = I!Quiet
      /\ dialog' = I!Closed \/ (dialog' = [dialog EXCEPT !.busy = FALSE] /\ dialog # I!Closed)
  BY DEF ChangeInv
<1>2. change'.step = "idle" /\ change'.new = change'.shown
  BY <1>1 DEF I!Quiet
<1>3. NoPicture \in Shots /\ "none" \in Caption
  BY DEF Shots, Caption
<1>7. I!Closed \in AnyDialog /\ I!Quiet \in AnyChange
  BY <1>3 DEF I!Closed, I!Quiet, I!None, AnyDialog, AnyChange
<1>4. ImageTypes'
  BY <1>1, <1>7 DEF ImageTypes, AnyDialog
<1>5. DialogInv'
  BY <1>1 DEF ImageTypes, AnyDialog, DialogInv, I!Sent
<1>6. ChangeInv' /\ CaptionsFollowImages'
  BY <1>1, <1>2 DEF ChangeInv, CaptionsFollowImages
<1> QED BY <1>4, <1>5, <1>6

LEMMA ImageBringKeeps ==
  ASSUME ImageInv, NEW m \in Other, NEW s \in Slot, I!Bring(s, m), change.step # "read",
         running' \in {"none", running},
         iLoad' \in {iLoad, [iLoad EXCEPT !.step = "asked"]}, UNCHANGED <<iPage, dialog, change>>
  PROVE  ImageInv'
<1> USE DEF I!Bring, I!Of, ImageInv
<1>1. m \in Shots /\ m \in Caption
  BY DEF Shots, Caption, I!Image
<1>2. images' \in Shown
  BY <1>1 DEF ImageTypes, Shown, Shot
<1>3. ImageTypes'
  BY <1>2 DEF ImageTypes
<1>4. DialogInv' /\ ChangeInv'
  BY DEF DialogInv, ChangeInv, I!Sent
<1>5. CaptionsFollowImages'
  BY <1>2 DEF CaptionsFollowImages, ImageTypes, Shown
<1> QED BY <1>3, <1>4, <1>5

LEMMA ImageOthersKeep ==
  ASSUME ImageInv,
         \/ \E m \in Other : I!Swapped(m) \/ \E s \in Slot : I!Foreign(s, m)
         \/ \E s \in Slot : I!Regenerate(s)
         \/ I!DrawPage
  PROVE  ImageInv'
<1>1. CASE \E m \in Other : I!Swapped(m)
  BY <1>1, ImageBringKeeps DEF I!Swapped, I!Ask, I!None, ImageInv, ImageTypes, ChangeInv
<1>2. CASE \E m \in Other, s \in Slot : I!Foreign(s, m)
  BY <1>2, ImageBringKeeps DEF I!Foreign
<1>3. CASE \E s \in Slot : I!Regenerate(s)
  BY <1>3 DEF I!Regenerate, ImageInv, ImageTypes, DialogInv, ChangeInv, CaptionsFollowImages, I!Sent
<1>4. CASE I!DrawPage
  BY <1>4 DEF I!DrawPage, ImageInv, ImageTypes, DialogInv, ChangeInv, CaptionsFollowImages, I!Sent
<1> QED BY <1>1, <1>2, <1>3, <1>4

LEMMA ImageDrawnKeeps ==
  ASSUME ImageInv, I!PageArrives
  PROVE  ImageInv'
<1> USE DEF I!PageArrives, ImageInv
<1>1. dialog' \in AnyDialog
  <2>1. CASE dialog = I!Closed
    BY <2>1 DEF ImageTypes
  <2>2. CASE dialog # I!Closed
    BY <2>2 DEF ImageTypes, AnyDialog
  <2> QED BY <2>1, <2>2
<1>4. ImageTypes'
  BY <1>1 DEF ImageTypes
<1>2. DialogInv'
  BY DEF ImageTypes, AnyDialog, DialogInv, I!Sent
<1>3. ChangeInv' /\ CaptionsFollowImages'
  BY DEF ImageTypes, AnyDialog, ChangeInv, CaptionsFollowImages, I!Closed
<1> QED BY <1>2, <1>3, <1>4

LEMMA ImageNext == ImageInv /\ [I!Next]_I!vars => ImageInv'
<1> SUFFICES ASSUME ImageInv, [I!Next]_I!vars PROVE ImageInv'
  OBVIOUS
<1>1. CASE UNCHANGED I!vars
  BY <1>1 DEF I!vars, ImageInv, ImageTypes, DialogInv, ChangeInv, CaptionsFollowImages, I!Sent
<1>2. CASE I!Next
  BY <1>2, ImageOpenKeeps, DialogKeeps, ImageCloseKeeps, ImageSubmitKeeps, ImageServerKeeps,
     ImageChangeKeeps, ImageEndKeeps, ImageOthersKeep, ImageDrawnKeeps DEF I!Next, I!Typed, I!None
<1> QED BY <1>1, <1>2

-----------------------------------------------------------------------------

\* Whatever others change in WordPress, however answers are lost and pages come
\* late, a save of the text writes over what its user saw and nothing else, a
\* conflict is somebody else's change, and an image takes its caption with it
\* (saveBriefText, applyTextEdits, ImageEditor): each dialog on an article of
\* its own, as the model has them.
THEOREM EditsReplaceWhatWasSeenHolds ==
  X!TextAssumption => (X!Spec /\ I!Spec => EditsReplaceWhatWasSeen)
<1> SUFFICES ASSUME X!TextAssumption
             PROVE  X!Spec /\ I!Spec => EditsReplaceWhatWasSeen
  OBVIOUS
<1>1. TextInv /\ [X!Next]_X!vars => TextInv'
  BY TextNext
<1>2. TextInv /\ [X!Next]_X!vars =>
        [ /\ Writes =>
               \A p \in DOMAIN began :
                 IF p \in TypedOver
                 THEN request.read.text[p] = began[p] /\ article'.text[p] = request.typed[p]
                 ELSE article'.text[p] = request.read.text[p]
          /\ (request.step = "asked" /\ request'.answer = "conflict" /\ ~ blurred) =>
               TypedOver \cap foreign # {} ]_<<article, request>>
  BY TextSteps
<1>3. ImageInv => CaptionsFollowImages
  BY DEF ImageInv
<1> QED BY <1>1, <1>2, <1>3, TextInit, ImageInit, ImageNext, PTL
       DEF X!Spec, I!Spec, EditsReplaceWhatWasSeen, TextIsAsSeen

-----------------------------------------------------------------------------
(* A watched run                                                           *)

Open == {"running"} \cup Ended
Snapshot == [status : Open, lines : SUBSET (1 .. Stages)]
Snapshots == UNION {[D -> Snapshot] : D \in SUBSET Post}
Underway == {"topics", "children", "logs", "answered", "json"}
APoll == [run : W!Watched, cancelled : BOOLEAN, at : {"timer", "run"} \cup Underway, errors : Nat,
          status : {"absent"} \cup Open, topics : SUBSET Post, posts : Snapshots]

WatchTypes ==
  /\ state \in [W!Watched -> W!NotOpen \cup Open] /\ state[Discovery] \in Open
  /\ said \in [Post -> Seq(1 .. Stages)]
  /\ stored \in [Post -> Seq(1 .. Stages)] /\ batch \in [Post -> Seq(1 .. Stages)]
  /\ buffer \in [Post -> Seq(1 .. Stages)]
  /\ dropped \in [Post -> SUBSET (1 .. Stages)]

\* Of what was said, each line is in one place, dropped or not, and the places
\* have their order.
Before(s, t) == \A x \in Range(s), y \in Range(t) : x < y
LogInv ==
  \A p \in Post :
    /\ Ascends(said[p]) /\ Ascends(stored[p]) /\ Ascends(batch[p]) /\ Ascends(buffer[p])
    /\ Before(stored[p], batch[p]) /\ Before(stored[p], buffer[p]) /\ Before(batch[p], buffer[p])
    /\ Range(stored[p]) \cup Range(batch[p]) \cup Range(buffer[p]) = Range(said[p]) \ dropped[p]
    /\ dropped[p] \subseteq Range(said[p])

\* A success has come through all that is not optional.
SuccessInv ==
  \A p \in Post : state[p] = "success" =>
    \A x \in 1 .. Stages : x \in Optional \/ x \in Range(said[p])

\* What an answer tells: a run it calls ended has ended so, of an ended
\* discovery all that was opened is in it, and a line was said.
Told(r, s, posts) ==
  /\ r \in W!Watched /\ state[r] \in Open
  /\ s \in Open /\ (s \in Ended => state[r] = s)
  /\ posts \in Snapshots
  /\ \A p \in DOMAIN posts :
       /\ state[p] \in Open
       /\ posts[p].status \in Ended => state[p] = posts[p].status
       /\ posts[p].lines \subseteq Range(said[p])
  /\ r = Discovery /\ s \in Ended => \A p \in Post \ DOMAIN posts : state[p] \in W!NotOpen

PollInv(e) ==
  /\ e \in APoll /\ state[e.run] \in Open
  /\ e.at \in Underway => e.status \in Open /\ (e.status \in Ended => state[e.run] = e.status)
  /\ e.at = "children" /\ e.run = Discovery /\ e.status \in Ended =>
       \A p \in Post : state[p] \in Open => p \in e.topics
  /\ e.at \in {"logs", "answered", "json"} => Told(e.run, e.status, e.posts)

LoadedInv ==
  \/ loaded = <<>>
  \/ loaded.error = TRUE
  \/ /\ Told(loaded.run, loaded.status, loaded.posts)
     /\ loaded.done => /\ loaded.status \in Ended
                       /\ \A p \in DOMAIN loaded.posts : loaded.posts[p].status \in Ended

WatchInv ==
  /\ WatchTypes /\ LogInv /\ SuccessInv
  /\ \A e \in polls : PollInv(e)
  /\ LoadedInv

\* What the worker may do to what was told.
WorkerMoves ==
  /\ \A r \in W!Watched : state[r] \in Open => state'[r] \in Open
  /\ \A r \in W!Watched : state[r] \in Ended => state'[r] = state[r]
  /\ state[Discovery] \in Ended => \A p \in Post : state[p] \in W!NotOpen => state'[p] \in W!NotOpen
  /\ \A p \in Post : Range(said[p]) \subseteq Range(said'[p])

LEMMA StatesDiffer == W!NotOpen \cap Open = {} /\ Ended \subseteq Open
BY DEF W!NotOpen, Open, Ended

LEMMA DomainsInPost == ASSUME NEW posts \in Snapshots PROVE DOMAIN posts \subseteq Post
BY DEF Snapshots

\* What was told stays true.
LEMMA ToldStays ==
  ASSUME WatchTypes, WorkerMoves, NEW r, NEW s, NEW posts, Told(r, s, posts)
  PROVE  Told(r, s, posts)'
<1>1. r \in W!Watched /\ state'[r] \in Open
  BY DEF Told, WorkerMoves
<1>2. s \in Open /\ (s \in Ended => state'[r] = s)
  BY DEF Told, WorkerMoves
<1>3. posts \in Snapshots
  BY DEF Told
<1>4. ASSUME NEW p \in DOMAIN posts
      PROVE  /\ state'[p] \in Open
             /\ posts[p].status \in Ended => state'[p] = posts[p].status
             /\ posts[p].lines \subseteq Range(said'[p])
  <2>1. p \in Post /\ p \in W!Watched
    BY <1>3, DomainsInPost DEF W!Watched
  <2> QED BY <2>1 DEF Told, WorkerMoves
<1>5. ASSUME r = Discovery, s \in Ended, NEW p \in Post \ DOMAIN posts PROVE state'[p] \in W!NotOpen
  BY <1>5 DEF Told, WorkerMoves
<1> QED BY <1>1, <1>2, <1>3, <1>4, <1>5 DEF Told

LEMMA PollStays ==
  ASSUME WatchTypes, WorkerMoves, NEW e, PollInv(e)
  PROVE  PollInv(e)'
<1>1. e \in APoll /\ e.run \in W!Watched /\ state'[e.run] \in Open
  BY DEF PollInv, WorkerMoves, APoll
<1>2. e.at \in Underway => e.status \in Open /\ (e.status \in Ended => state'[e.run] = e.status)
  BY <1>1 DEF PollInv, WorkerMoves
<1>3. ASSUME e.at = "children", e.run = Discovery, e.status \in Ended, NEW p \in Post, state'[p] \in Open
      PROVE  p \in e.topics
  <2>1. state[Discovery] \in Ended
    BY <1>3 DEF PollInv, Underway
  <2>2. state[p] \in W!NotOpen \cup Open
    BY DEF WatchTypes, W!Watched
  <2>3. state[p] \in Open
    BY <1>3, <2>1, <2>2, StatesDiffer DEF WorkerMoves
  <2> QED BY <1>3, <2>3 DEF PollInv
<1>4. e.at \in {"logs", "answered", "json"} => Told(e.run, e.status, e.posts)'
  BY ToldStays DEF PollInv
<1> QED BY <1>1, <1>2, <1>3, <1>4 DEF PollInv

LEMMA LoadedStays ==
  ASSUME WatchTypes, WorkerMoves, LoadedInv, UNCHANGED loaded
  PROVE  LoadedInv'
<1>1. CASE loaded = <<>> \/ loaded.error = TRUE
  BY <1>1 DEF LoadedInv
<1>2. CASE ~ (loaded = <<>> \/ loaded.error = TRUE)
  <2>1. Told(loaded.run, loaded.status, loaded.posts)
    BY <1>2 DEF LoadedInv
  <2>2. \A r, s, posts : Told(r, s, posts) => Told(r, s, posts)'
    BY ToldStays
  <2>3. PICK l : l = loaded
    OBVIOUS
  <2>4. Told(l.run, l.status, l.posts)'
    BY <2>1, <2>2, <2>3
  <2>5. Told(loaded.run, loaded.status, loaded.posts)'
    BY <2>3, <2>4 DEF Told
  <2> QED BY <1>2, <2>5 DEF LoadedInv
<1> QED BY <1>1, <1>2

LEMMA StillIsAMove ==
  ASSUME WatchTypes, UNCHANGED <<state, said>> PROVE WorkerMoves
BY DEF WorkerMoves

\* Places and what is at them.
LEMMA RangeOfLog == ASSUME NEW s \in Seq(1 .. Stages) PROVE Range(s) \subseteq 1 .. Stages
<1>1. \A i \in DOMAIN s : s[i] \in 1 .. Stages
  <2> DEFINE S == 1 .. Stages
  <2> HIDE DEF S
  <2>1. s \in Seq(S)
    BY DEF S
  <2>2. \A i \in DOMAIN s : s[i] \in S
    BY <2>1
  <2> QED BY <2>2 DEF S
<1> QED BY <1>1 DEF Range

LEMMA RangeOfAppend ==
  ASSUME NEW s \in Seq(1 .. Stages), NEW x \in 1 .. Stages
  PROVE  Append(s, x) \in Seq(1 .. Stages) /\ Range(Append(s, x)) = Range(s) \cup {x}
<1>1. Append(s, x) \in Seq(1 .. Stages) /\ Len(Append(s, x)) = Len(s) + 1 /\ Len(s) \in Nat
  OBVIOUS
<1>2. DOMAIN Append(s, x) = 1 .. Len(s) + 1 /\ DOMAIN s = 1 .. Len(s)
  BY <1>1
<1>3. \A i \in DOMAIN s : i \in DOMAIN Append(s, x) /\ Append(s, x)[i] = s[i]
  BY <1>1, <1>2
<1>4. Append(s, x)[Len(s) + 1] = x /\ Len(s) + 1 \in DOMAIN Append(s, x)
  BY <1>1, <1>2
<1>5. \A i \in DOMAIN Append(s, x) : i \in DOMAIN s \/ i = Len(s) + 1
  BY <1>1, <1>2
<1> QED BY <1>1, <1>3, <1>4, <1>5 DEF Range

LEMMA AppendAscends ==
  ASSUME NEW s \in Seq(1 .. Stages), NEW x \in 1 .. Stages, Stages \in Nat,
         Ascends(s), \A y \in Range(s) : y < x
  PROVE  Ascends(Append(s, x))
<1>1. Len(s) \in Nat /\ DOMAIN s = 1 .. Len(s) /\ DOMAIN Append(s, x) = 1 .. Len(s) + 1
  OBVIOUS
<1>2. SUFFICES ASSUME NEW i \in 1 .. Len(s) + 1, NEW j \in 1 .. Len(s) + 1, i < j
               PROVE  Append(s, x)[i] < Append(s, x)[j]
  BY <1>1 DEF Ascends
<1>3. i \in DOMAIN s /\ Append(s, x)[i] = s[i] /\ s[i] \in Range(s)
  BY <1>1, <1>2 DEF Range
<1>4. CASE j = Len(s) + 1
  <2>1. Append(s, x)[j] = x
    BY <1>4
  <2> QED BY <1>3, <2>1
<1>5. CASE j # Len(s) + 1
  <2>1. j \in DOMAIN s /\ Append(s, x)[j] = s[j]
    BY <1>1, <1>2, <1>5
  <2> QED BY <1>2, <1>3, <2>1 DEF Ascends
<1> QED BY <1>4, <1>5

LEMMA RangeOfConcat ==
  ASSUME NEW s \in Seq(1 .. Stages), NEW t \in Seq(1 .. Stages)
  PROVE  s \o t \in Seq(1 .. Stages) /\ Range(s \o t) = Range(s) \cup Range(t)
<1>1. /\ s \o t \in Seq(1 .. Stages) /\ Len(s \o t) = Len(s) + Len(t) /\ Len(s) \in Nat /\ Len(t) \in Nat
      /\ DOMAIN s = 1 .. Len(s) /\ DOMAIN t = 1 .. Len(t) /\ DOMAIN (s \o t) = 1 .. Len(s) + Len(t)
  OBVIOUS
<1>2. \A i \in DOMAIN s : i \in DOMAIN (s \o t) /\ (s \o t)[i] = s[i]
  BY <1>1
<1>3. \A i \in DOMAIN t : Len(s) + i \in DOMAIN (s \o t) /\ (s \o t)[Len(s) + i] = t[i]
  BY <1>1
<1>4. \A i \in DOMAIN (s \o t) : i \in DOMAIN s \/ \E j \in DOMAIN t : i = Len(s) + j
  <2> SUFFICES ASSUME NEW i \in DOMAIN (s \o t), i \notin DOMAIN s
               PROVE  \E j \in DOMAIN t : i = Len(s) + j
    OBVIOUS
  <2>1. i - Len(s) \in DOMAIN t /\ i = Len(s) + (i - Len(s))
    BY <1>1
  <2> QED BY <2>1
<1>5. \A x : x \in Range(s \o t) => x \in Range(s) \cup Range(t)
  BY <1>2, <1>3, <1>4 DEF Range
<1>6. \A x : x \in Range(s) \cup Range(t) => x \in Range(s \o t)
  BY <1>2, <1>3 DEF Range
<1> QED BY <1>1, <1>5, <1>6

LEMMA ConcatAscends ==
  ASSUME NEW s \in Seq(1 .. Stages), NEW t \in Seq(1 .. Stages), Stages \in Nat,
         Ascends(s), Ascends(t), Before(s, t)
  PROVE  Ascends(s \o t)
<1>1. /\ Len(s) \in Nat /\ Len(t) \in Nat
      /\ DOMAIN s = 1 .. Len(s) /\ DOMAIN t = 1 .. Len(t) /\ DOMAIN (s \o t) = 1 .. Len(s) + Len(t)
  OBVIOUS
<1>2. SUFFICES ASSUME NEW i \in 1 .. Len(s) + Len(t), NEW j \in 1 .. Len(s) + Len(t), i < j
               PROVE  (s \o t)[i] < (s \o t)[j]
  BY <1>1 DEF Ascends
<1>3. CASE j <= Len(s)
  <2>1. i \in DOMAIN s /\ j \in DOMAIN s /\ (s \o t)[i] = s[i] /\ (s \o t)[j] = s[j]
    BY <1>1, <1>2, <1>3
  <2> QED BY <1>2, <2>1 DEF Ascends
<1>4. CASE i > Len(s)
  <2>1. /\ i - Len(s) \in DOMAIN t /\ j - Len(s) \in DOMAIN t /\ i - Len(s) < j - Len(s)
        /\ (s \o t)[i] = t[i - Len(s)] /\ (s \o t)[j] = t[j - Len(s)]
    BY <1>1, <1>2, <1>4
  <2> QED BY <2>1 DEF Ascends
<1>5. CASE i <= Len(s) /\ j > Len(s)
  <2>1. i \in DOMAIN s /\ j - Len(s) \in DOMAIN t /\ (s \o t)[i] = s[i] /\ (s \o t)[j] = t[j - Len(s)]
    BY <1>1, <1>2, <1>5
  <2>2. s[i] \in Range(s) /\ t[j - Len(s)] \in Range(t)
    BY <2>1 DEF Range
  <2> QED BY <2>1, <2>2 DEF Before
<1>6. j <= Len(s) \/ i > Len(s) \/ (i <= Len(s) /\ j > Len(s))
  BY <1>1
<1> QED BY <1>3, <1>4, <1>5, <1>6

LEMMA LogIs ==
  ASSUME W!WatchAssumption, WatchTypes, LogInv PROVE LogIsWhole
<1> SUFFICES ASSUME NEW p \in Post
             PROVE  LET log == stored[p] \o batch[p] \o buffer[p]
                    IN  Ascends(said[p]) /\ Ascends(log) /\ Range(log) = Range(said[p]) \ dropped[p]
  BY DEF LogIsWhole, WatchTypes
<1> DEFINE a == stored[p]
           b == batch[p]
           c == buffer[p]
<1>1. a \in Seq(1 .. Stages) /\ b \in Seq(1 .. Stages) /\ c \in Seq(1 .. Stages) /\ Stages \in Nat
  BY DEF WatchTypes, W!WatchAssumption
<1>2. /\ Ascends(said[p]) /\ Ascends(a) /\ Ascends(b) /\ Ascends(c)
      /\ Before(a, b) /\ Before(a, c) /\ Before(b, c)
      /\ Range(a) \cup Range(b) \cup Range(c) = Range(said[p]) \ dropped[p]
  BY DEF LogInv
<1> HIDE DEF a, b, c
<1>3. a \o b \in Seq(1 .. Stages) /\ Range(a \o b) = Range(a) \cup Range(b)
  BY <1>1, RangeOfConcat
<1>4. Ascends(a \o b)
  BY <1>1, <1>2, ConcatAscends
<1>5. Range((a \o b) \o c) = Range(a) \cup Range(b) \cup Range(c)
  BY <1>1, <1>3, RangeOfConcat
<1>6. Before(a \o b, c)
  BY <1>2, <1>3 DEF Before
<1>7. Ascends((a \o b) \o c)
  BY <1>1, <1>2, <1>3, <1>4, <1>6, ConcatAscends
<1>8. Ascends(said[p]) /\ Ascends((a \o b) \o c) /\ Range((a \o b) \o c) = Range(said[p]) \ dropped[p]
  BY <1>2, <1>5, <1>7
<1> QED BY <1>8 DEF a, b, c

\* A step of the worker or the logger.
LEMMA StepOfWorker ==
  ASSUME WatchInv, WorkerMoves, UNCHANGED <<polls, loaded>>
  PROVE  (\A e \in polls' : PollInv(e)') /\ LoadedInv'
<1>1. \A e \in polls : PollInv(e)'
  BY PollStays DEF WatchInv
<1> QED BY <1>1, LoadedStays DEF WatchInv

LEMMA KeepTopicWatch ==
  ASSUME W!WatchAssumption, WatchInv, NEW p \in Post, W!KeepTopic(p) PROVE WatchInv'
<1>1. WatchTypes /\ p # Discovery /\ p \in W!Watched /\ state[p] = "absent" /\ state' = [state EXCEPT ![p] = "topic"]
  BY DEF W!KeepTopic, WatchInv, W!Watched, W!WatchAssumption
<1>2. WatchTypes' /\ WorkerMoves
  BY <1>1 DEF WatchTypes, WorkerMoves, W!KeepTopic, W!worker, W!logger, W!panel, W!Watched, W!NotOpen, Open, Ended
<1>3. LogInv'
  BY DEF WatchInv, LogInv, W!KeepTopic, W!logger
<1>4. SuccessInv'
  BY <1>1 DEF WatchInv, SuccessInv, W!KeepTopic, WatchTypes, W!Watched
<1> QED BY <1>2, <1>3, <1>4, StepOfWorker DEF WatchInv, W!KeepTopic, W!panel

LEMMA OpenGenerationWatch ==
  ASSUME W!WatchAssumption, WatchInv, NEW p \in Post, W!OpenGeneration(p) PROVE WatchInv'
<1>1. /\ WatchTypes /\ p # Discovery /\ p \in W!Watched /\ state[p] = "topic" /\ state[Discovery] = "running"
      /\ state' = [state EXCEPT ![p] = "running"]
  BY DEF W!OpenGeneration, WatchInv, W!Watched, W!WatchAssumption
<1>2. WatchTypes' /\ WorkerMoves
  BY <1>1 DEF WatchTypes, WorkerMoves, W!OpenGeneration, W!worker, W!logger, W!panel, W!Watched, W!NotOpen, Open, Ended
<1>3. LogInv'
  BY DEF WatchInv, LogInv, W!OpenGeneration, W!logger
<1>4. SuccessInv'
  BY <1>1 DEF WatchInv, SuccessInv, W!OpenGeneration, WatchTypes, W!Watched
<1> QED BY <1>2, <1>3, <1>4, StepOfWorker DEF WatchInv, W!OpenGeneration, W!panel

LEMMA AnnounceWatch ==
  ASSUME W!WatchAssumption, WatchInv, NEW p \in Post, W!Announce(p) PROVE WatchInv'
<1>1. PICK x \in 1 .. Stages :
        /\ \A i \in DOMAIN said[p] : said[p][i] < x
        /\ said' = [said EXCEPT ![p] = Append(@, x)]
        /\ buffer' = [buffer EXCEPT ![p] = Append(@, x)]
  BY DEF W!Announce
<1>2. WatchTypes /\ LogInv /\ SuccessInv /\ Stages \in Nat
  BY DEF WatchInv, W!WatchAssumption
<1>3. state[p] = "running" /\ UNCHANGED <<state, batch, stored, dropped, polls, loaded>>
  BY DEF W!Announce, W!panel
<1>4. \A y \in Range(said[p]) : y < x
  BY <1>1 DEF Range
<1>5. /\ said'[p] = Append(said[p], x) /\ said[p] \in Seq(1 .. Stages)
      /\ buffer'[p] = Append(buffer[p], x) /\ buffer[p] \in Seq(1 .. Stages)
  BY <1>1, <1>2 DEF WatchTypes
<1>6. Range(said'[p]) = Range(said[p]) \cup {x} /\ Range(buffer'[p]) = Range(buffer[p]) \cup {x}
  BY <1>5, RangeOfAppend
<1>7. Append(said[p], x) \in Seq(1 .. Stages) /\ Append(buffer[p], x) \in Seq(1 .. Stages)
  BY <1>5
<1>8. WatchTypes'
  BY <1>1, <1>2, <1>3, <1>7 DEF WatchTypes
<1>9. \A q \in Post \ {p} : said'[q] = said[q] /\ buffer'[q] = buffer[q]
  BY <1>1, <1>2 DEF WatchTypes
<1>10. WorkerMoves
  BY <1>3, <1>6, <1>9 DEF WorkerMoves
<1>11. LogInv'
  <2> SUFFICES ASSUME NEW q \in Post
               PROVE  /\ Ascends(said'[q]) /\ Ascends(stored[q]) /\ Ascends(batch[q]) /\ Ascends(buffer'[q])
                      /\ Before(stored[q], batch[q]) /\ Before(stored[q], buffer'[q]) /\ Before(batch[q], buffer'[q])
                      /\ Range(stored[q]) \cup Range(batch[q]) \cup Range(buffer'[q]) = Range(said'[q]) \ dropped[q]
                      /\ dropped[q] \subseteq Range(said'[q])
    BY <1>3 DEF LogInv
  <2>1. CASE q # p
    BY <1>2, <1>9, <2>1 DEF LogInv
  <2>2. CASE q = p
    <3>1. /\ Ascends(said[p]) /\ Ascends(stored[p]) /\ Ascends(batch[p]) /\ Ascends(buffer[p])
          /\ Before(stored[p], batch[p]) /\ Before(stored[p], buffer[p]) /\ Before(batch[p], buffer[p])
          /\ Range(stored[p]) \cup Range(batch[p]) \cup Range(buffer[p]) = Range(said[p]) \ dropped[p]
          /\ dropped[p] \subseteq Range(said[p])
      BY <1>2 DEF LogInv
    <3>2. Ascends(said'[p])
      BY <1>2, <1>4, <1>5, <3>1, AppendAscends
    <3>3. Ascends(buffer'[p])
      BY <1>2, <1>4, <1>5, <3>1, AppendAscends
    <3>4. Before(stored[p], buffer'[p]) /\ Before(batch[p], buffer'[p])
      BY <1>4, <1>6, <3>1 DEF Before
    <3>5. x \notin Range(said[p])
      BY <1>4
    <3>6. x \notin dropped[p]
      BY <3>1, <3>5
    <3>7. Range(stored[p]) \cup Range(batch[p]) \cup Range(buffer'[p]) = Range(said'[p]) \ dropped[p]
      BY <1>6, <3>1, <3>6
    <3> QED BY <1>6, <2>2, <3>1, <3>2, <3>3, <3>4, <3>7
  <2> QED BY <2>1, <2>2
<1>12. SuccessInv'
  BY <1>2, <1>3, <1>6, <1>9 DEF SuccessInv
<1> QED BY <1>3, <1>8, <1>10, <1>11, <1>12, StepOfWorker DEF WatchInv

LEMMA CloseWatch ==
  ASSUME W!WatchAssumption, WatchInv, NEW r \in W!Watched, W!Close(r) PROVE WatchInv'
<1>1. PICK s \in W!Closed :
        /\ r \in Post /\ s = "success" => \A x \in 1 .. Stages : x \in Optional \/ x \in Range(said[r])
        /\ state' = [state EXCEPT ![r] = s]
  BY DEF W!Close, W!Range, Range
<1>2. /\ WatchTypes /\ LogInv /\ SuccessInv /\ state[r] = "running" /\ s \in Ended
      /\ UNCHANGED <<said, buffer, batch, stored, dropped, polls, loaded>>
  BY DEF WatchInv, W!Close, W!panel, W!Closed, Ended
<1>3. state'[r] = s /\ \A q \in W!Watched \ {r} : state'[q] = state[q]
  BY <1>1, <1>2 DEF WatchTypes
<1>4. WatchTypes' /\ WorkerMoves
  <2>1. state' \in [W!Watched -> W!NotOpen \cup Open]
    BY <1>1, <1>2, StatesDiffer DEF WatchTypes
  <2>2. state'[Discovery] \in Open
    BY <1>2, <1>3, StatesDiffer DEF WatchTypes, W!Watched
  <2>3. WatchTypes'
    BY <1>2, <2>1, <2>2 DEF WatchTypes
  <2>4. state[r] \notin Ended /\ state[r] \in Open /\ state'[r] \in Open /\ state[r] \notin W!NotOpen
    BY <1>2, <1>3 DEF Ended, Open, W!NotOpen
  <2>5. WorkerMoves
    BY <1>2, <1>3, <2>4 DEF WorkerMoves, W!Watched
  <2> QED BY <2>3, <2>5
<1>5. LogInv'
  BY <1>2 DEF LogInv
<1>6. SuccessInv'
  BY <1>1, <1>2, <1>3 DEF SuccessInv, W!Watched
<1> QED BY <1>2, <1>4, <1>5, <1>6, StepOfWorker DEF WatchInv

LEMMA AskFlushWatch ==
  ASSUME WatchInv, NEW p \in Post, W!AskFlush(p) \/ W!TakeNothing(p) PROVE WatchInv'
<1>1. UNCHANGED <<state, said, buffer, batch, stored, dropped, polls, loaded>>
  BY DEF W!AskFlush, W!TakeNothing, W!worker, W!panel
<1>2. WatchTypes' /\ LogInv' /\ SuccessInv'
  BY <1>1 DEF WatchInv, WatchTypes, LogInv, SuccessInv
<1> QED BY <1>1, <1>2, StepOfWorker, StillIsAMove DEF WatchInv

LEMMA EmptyLog == <<>> \in Seq(1 .. Stages) /\ Range(<<>>) = {} /\ Ascends(<<>>)
<1>1. <<>> \in Seq(1 .. Stages) /\ Len(<<>>) = 0 /\ DOMAIN <<>> = {}
  OBVIOUS
<1> QED BY <1>1 DEF Range, Ascends

LEMMA TakeWatch ==
  ASSUME WatchInv, NEW p \in Post, W!Take(p) PROVE WatchInv'
<1>1. /\ WatchTypes /\ LogInv /\ batch[p] = <<>>
      /\ batch' = [batch EXCEPT ![p] = buffer[p]] /\ buffer' = [buffer EXCEPT ![p] = <<>>]
      /\ UNCHANGED <<state, said, stored, dropped, polls, loaded>>
  BY DEF WatchInv, W!Take, W!worker, W!panel
<1>2. WatchTypes' /\ SuccessInv'
  BY <1>1, EmptyLog DEF WatchInv, WatchTypes, SuccessInv
<1>3. LogInv'
  <2> SUFFICES ASSUME NEW q \in Post
               PROVE  /\ Ascends(said[q]) /\ Ascends(stored[q]) /\ Ascends(batch'[q]) /\ Ascends(buffer'[q])
                      /\ Before(stored[q], batch'[q]) /\ Before(stored[q], buffer'[q]) /\ Before(batch'[q], buffer'[q])
                      /\ Range(stored[q]) \cup Range(batch'[q]) \cup Range(buffer'[q]) = Range(said[q]) \ dropped[q]
                      /\ dropped[q] \subseteq Range(said[q])
    BY <1>1 DEF LogInv
  <2>1. CASE q # p
    <3>1. batch'[q] = batch[q] /\ buffer'[q] = buffer[q]
      BY <1>1, <2>1 DEF WatchTypes
    <3> QED BY <1>1, <3>1 DEF LogInv
  <2>2. CASE q = p
    <3>1. batch'[p] = buffer[p] /\ buffer'[p] = <<>> /\ batch[p] = <<>>
      BY <1>1 DEF WatchTypes
    <3> QED BY <1>1, <2>2, <3>1, EmptyLog DEF LogInv, Before
  <2> QED BY <2>1, <2>2
<1> QED BY <1>1, <1>2, <1>3, StepOfWorker, StillIsAMove DEF WatchInv

LEMMA InsertWatch ==
  ASSUME W!WatchAssumption, WatchInv, NEW p \in Post, W!Insert(p) PROVE WatchInv'
<1>1. /\ WatchTypes /\ LogInv /\ Stages \in Nat
      /\ batch' = [batch EXCEPT ![p] = <<>>]
      /\ UNCHANGED <<state, said, buffer, polls, loaded>>
  BY DEF WatchInv, W!Insert, W!worker, W!panel, W!WatchAssumption
<1>2. /\ stored[p] \in Seq(1 .. Stages) /\ batch[p] \in Seq(1 .. Stages) /\ batch'[p] = <<>>
      /\ \A q \in Post \ {p} : batch'[q] = batch[q]
  BY <1>1 DEF WatchTypes
<1>3. /\ Ascends(said[p]) /\ Ascends(stored[p]) /\ Ascends(batch[p]) /\ Ascends(buffer[p])
      /\ Before(stored[p], batch[p]) /\ Before(stored[p], buffer[p]) /\ Before(batch[p], buffer[p])
      /\ Range(stored[p]) \cup Range(batch[p]) \cup Range(buffer[p]) = Range(said[p]) \ dropped[p]
      /\ dropped[p] \subseteq Range(said[p])
  BY <1>1 DEF LogInv
<1>4. ASSUME NEW st, NEW dr, stored' = [stored EXCEPT ![p] = st], dropped' = [dropped EXCEPT ![p] = dr],
             st \in Seq(1 .. Stages), dr \in SUBSET (1 .. Stages),
             Ascends(st), Before(st, buffer[p]), Range(st) \cup Range(buffer[p]) = Range(said[p]) \ dr,
             dr \subseteq Range(said[p])
      PROVE  WatchTypes' /\ LogInv'
  <2>1. WatchTypes'
    BY <1>1, <1>4, EmptyLog DEF WatchTypes
  <2>2. stored'[p] = st /\ dropped'[p] = dr /\ \A q \in Post \ {p} : stored'[q] = stored[q] /\ dropped'[q] = dropped[q]
    BY <1>1, <1>4 DEF WatchTypes
  <2>3. ASSUME NEW q \in Post
        PROVE  /\ Ascends(said[q]) /\ Ascends(stored'[q]) /\ Ascends(batch'[q]) /\ Ascends(buffer[q])
               /\ Before(stored'[q], batch'[q]) /\ Before(stored'[q], buffer[q]) /\ Before(batch'[q], buffer[q])
               /\ Range(stored'[q]) \cup Range(batch'[q]) \cup Range(buffer[q]) = Range(said[q]) \ dropped'[q]
               /\ dropped'[q] \subseteq Range(said[q])
    <3>1. CASE q # p
      BY <1>1, <1>2, <2>2, <3>1 DEF LogInv
    <3>2. CASE q = p
      BY <1>2, <1>3, <1>4, <2>2, <3>2, EmptyLog DEF Before
    <3> QED BY <3>1, <3>2
  <2> QED BY <1>1, <2>1, <2>3 DEF LogInv
<1>5. ASSUME stored' = [stored EXCEPT ![p] = @ \o batch[p]], dropped' = dropped
      PROVE  WatchTypes' /\ LogInv'
  <2>1. stored[p] \o batch[p] \in Seq(1 .. Stages) /\ Range(stored[p] \o batch[p]) = Range(stored[p]) \cup Range(batch[p])
    BY <1>2, RangeOfConcat
  <2>2. Ascends(stored[p] \o batch[p])
    BY <1>1, <1>2, <1>3, ConcatAscends
  <2>3. Before(stored[p] \o batch[p], buffer[p])
    BY <1>3, <2>1 DEF Before
  <2>4. dropped' = [dropped EXCEPT ![p] = dropped[p]] /\ dropped[p] \in SUBSET (1 .. Stages)
    BY <1>1, <1>5 DEF WatchTypes
  <2>5. PICK st : st = stored[p] \o batch[p]
    OBVIOUS
  <2>6. /\ stored' = [stored EXCEPT ![p] = st] /\ st \in Seq(1 .. Stages) /\ Ascends(st) /\ Before(st, buffer[p])
        /\ Range(st) \cup Range(buffer[p]) = Range(said[p]) \ dropped[p]
    BY <1>3, <1>5, <2>1, <2>2, <2>3, <2>5
  <2> QED BY <1>3, <1>4, <2>4, <2>6
<1>6. ASSUME dropped' = [dropped EXCEPT ![p] = @ \cup Range(batch[p])], stored' = stored
      PROVE  WatchTypes' /\ LogInv'
  <2>1. stored' = [stored EXCEPT ![p] = stored[p]]
    BY <1>1, <1>6 DEF WatchTypes
  <2>2. Range(batch[p]) \subseteq Range(said[p]) /\ said[p] \in Seq(1 .. Stages)
    BY <1>1, <1>3 DEF WatchTypes
  <2>3. Range(said[p]) \subseteq 1 .. Stages
    BY <2>2, RangeOfLog
  <2>4. Range(stored[p]) \cap Range(batch[p]) = {} /\ Range(buffer[p]) \cap Range(batch[p]) = {}
    <3>1. Range(batch[p]) \subseteq Int
      BY <2>2, <2>3
    <3> QED BY <1>3, <3>1 DEF Before
  <2>5. Range(stored[p]) \cup Range(buffer[p]) = Range(said[p]) \ (dropped[p] \cup Range(batch[p]))
    BY <1>3, <2>4
  <2>6. dropped[p] \cup Range(batch[p]) \subseteq Range(said[p])
    BY <1>3, <2>2
  <2>7. dropped[p] \cup Range(batch[p]) \in SUBSET (1 .. Stages)
    BY <2>3, <2>6
  <2>8. PICK dr : dr = dropped[p] \cup Range(batch[p])
    OBVIOUS
  <2>9. /\ dropped' = [dropped EXCEPT ![p] = dr] /\ dr \in SUBSET (1 .. Stages) /\ dr \subseteq Range(said[p])
        /\ Range(stored[p]) \cup Range(buffer[p]) = Range(said[p]) \ dr
    BY <1>6, <2>5, <2>6, <2>7, <2>8
  <2> QED BY <1>2, <1>3, <1>4, <2>1, <2>9
<1>7. WatchTypes' /\ LogInv'
  <2>1. \/ stored' = [stored EXCEPT ![p] = @ \o batch[p]] /\ dropped' = dropped
        \/ dropped' = [dropped EXCEPT ![p] = @ \cup W!Range(batch[p])] /\ stored' = stored
    BY DEF W!Insert
  <2>2. W!Range(batch[p]) = Range(batch[p])
    BY DEF W!Range, Range
  <2> QED BY <1>5, <1>6, <2>1, <2>2
<1>8. SuccessInv'
  BY <1>1 DEF WatchInv, SuccessInv
<1> QED BY <1>1, <1>7, <1>8, StepOfWorker, StillIsAMove DEF WatchInv

\* A step of the dialog or of the server that answers it.
LEMMA StepOfPanel ==
  ASSUME WatchInv, UNCHANGED <<state, said, stored, batch, buffer, dropped>>
  PROVE  /\ WatchTypes' /\ LogInv' /\ SuccessInv'
         /\ \A e \in polls : PollInv(e)'
         /\ \A e : PollInv(e) => PollInv(e)'
         /\ \A r, s, posts : Told(r, s, posts) => Told(r, s, posts)'
<1>1. WorkerMoves
  BY StillIsAMove DEF WatchInv
<1>2. WatchTypes' /\ LogInv' /\ SuccessInv'
  BY DEF WatchInv, WatchTypes, LogInv, SuccessInv
<1> QED BY <1>1, <1>2, PollStays, ToldStays DEF WatchInv

\* One poll becomes another, and what is loaded stays.
LEMMA BecomesWatch ==
  ASSUME WatchInv, UNCHANGED <<state, said, stored, batch, buffer, dropped, loaded>>,
         NEW e \in polls, NEW f, W!Becomes(e, f), PollInv(f)
  PROVE  WatchInv'
<1>1. polls' = (polls \ {e}) \cup {f}
  BY DEF W!Becomes
<1>2. \A g \in polls' : PollInv(g)'
  BY <1>1, StepOfPanel
<1>3. LoadedInv'
  BY LoadedStays, StillIsAMove DEF WatchInv
<1> QED BY <1>2, <1>3, StepOfPanel DEF WatchInv

LEMMA NoSnapshots == <<>> \in Snapshots
<1>1. <<>> \in [1 .. 0 -> Snapshot] /\ 1 .. 0 \in SUBSET Post
  OBVIOUS
<1> QED BY <1>1 DEF Snapshots

LEMMA PollIs ==
  ASSUME NEW r \in W!Watched, state[r] \in Open
  PROVE  W!Poll(r) \in APoll /\ PollInv(W!Poll(r))
<1>1. W!Poll(r) \in APoll
  BY NoSnapshots DEF W!Poll, APoll, Underway
<1>2. W!Poll(r).run = r /\ W!Poll(r).at = "run"
  BY DEF W!Poll
<1> QED BY <1>1, <1>2 DEF PollInv, Underway

\* An effect that rests before it asks again.
LEMMA RestIs ==
  ASSUME NEW r \in W!Watched, state[r] \in Open, NEW n \in Nat, NEW c \in BOOLEAN
  PROVE  /\ PollInv([W!Poll(r) EXCEPT !.at = "timer", !.errors = n, !.cancelled = c])
         /\ PollInv([W!Poll(r) EXCEPT !.at = "timer", !.cancelled = c])
<1>1. W!Poll(r) \in APoll
  BY PollIs
<1> DEFINE f == [W!Poll(r) EXCEPT !.at = "timer", !.errors = n, !.cancelled = c]
           g == [W!Poll(r) EXCEPT !.at = "timer", !.cancelled = c]
<1>2. f \in APoll /\ g \in APoll
  BY <1>1 DEF APoll
<1>3. f.run = r /\ g.run = r /\ f.at = "timer" /\ g.at = "timer"
  BY <1>1 DEF APoll, W!Poll
<1> HIDE DEF f, g
<1>4. PollInv(f) /\ PollInv(g)
  BY <1>2, <1>3 DEF PollInv, Underway
<1> QED BY <1>4 DEF f, g

LEMMA ReadRunWatch ==
  ASSUME W!WatchAssumption, WatchInv, NEW e \in polls, W!ReadRun(e) PROVE WatchInv'
<1> DEFINE f == [e EXCEPT !.at = IF e.run = Discovery THEN "topics" ELSE "logs",
                          !.status = state[e.run],
                          !.topics = IF e.run = Discovery THEN {} ELSE {e.run},
                          !.posts = IF e.run = Discovery THEN <<>>
                                    ELSE [p \in {e.run} |-> [status |-> state[p], lines |-> {}]]]
<1>1. e \in APoll /\ state[e.run] \in Open /\ e.run \in W!Watched
  BY DEF WatchInv, PollInv, APoll
<1>2. W!Becomes(e, f) /\ UNCHANGED <<state, said, stored, batch, buffer, dropped, loaded>>
  BY DEF W!ReadRun, W!Asking, W!worker, W!logger
<1>3. CASE e.run = Discovery
  <2>1. f = [e EXCEPT !.at = "topics", !.status = state[e.run], !.topics = {}, !.posts = <<>>]
    BY <1>3
  <2> HIDE DEF f
  <2>2. f \in APoll /\ f.run = e.run /\ f.at = "topics" /\ f.status = state[e.run]
    BY <1>1, <2>1, NoSnapshots DEF APoll, Underway
  <2>3. PollInv(f)
    BY <1>1, <2>2 DEF PollInv
  <2> QED BY <1>2, <2>3, BecomesWatch
<1>4. CASE e.run # Discovery
  <2> DEFINE posts == [p \in {e.run} |-> [status |-> state[p], lines |-> {}]]
  <2>1. f = [e EXCEPT !.at = "logs", !.status = state[e.run], !.topics = {e.run}, !.posts = posts]
    BY <1>4
  <2>2. e.run \in Post
    BY <1>1, <1>4 DEF W!Watched
  <2>3. posts \in [{e.run} -> Snapshot]
    BY <1>1 DEF Snapshot
  <2>4. posts \in Snapshots /\ DOMAIN posts = {e.run} /\ posts[e.run].status = state[e.run] /\ posts[e.run].lines = {}
    BY <2>2, <2>3 DEF Snapshots
  <2> HIDE DEF f, posts
  <2>5. /\ f \in APoll /\ f.run = e.run /\ f.at = "logs" /\ f.status = state[e.run] /\ f.posts = posts
    BY <1>1, <2>1, <2>2, <2>4 DEF APoll, Underway
  <2>6. Told(e.run, state[e.run], posts)
    BY <1>1, <1>4, <2>4 DEF Told
  <2>7. PollInv(f)
    BY <1>1, <2>5, <2>6 DEF PollInv
  <2> QED BY <1>2, <2>7, BecomesWatch
<1> QED BY <1>3, <1>4

LEMMA ReadTopicsWatch ==
  ASSUME WatchInv, NEW e \in polls, W!ReadTopics(e) PROVE WatchInv'
<1> DEFINE topics == {p \in Post : state[p] # "absent"}
           f == [e EXCEPT !.at = "children", !.topics = topics]
<1>1. e \in APoll /\ PollInv(e) /\ e.at = "topics"
  BY DEF WatchInv, PollInv, W!ReadTopics
<1>2. W!Becomes(e, f) /\ UNCHANGED <<state, said, stored, batch, buffer, dropped, loaded>>
  BY DEF W!ReadTopics, W!Asking, W!worker, W!logger
<1>3. topics \in SUBSET Post /\ \A p \in Post : state[p] \in Open => p \in topics
  BY DEF Open, Ended
<1> HIDE DEF topics
<1>4. f \in APoll /\ f.run = e.run /\ f.at = "children" /\ f.status = e.status /\ f.topics = topics
  BY <1>1, <1>3 DEF APoll, Underway
<1> HIDE DEF f
<1>5. PollInv(f)
  BY <1>1, <1>3, <1>4 DEF PollInv, Underway
<1> QED BY <1>2, <1>5, BecomesWatch

LEMMA ReadChildrenWatch ==
  ASSUME WatchInv, NEW e \in polls, W!ReadChildren(e) PROVE WatchInv'
<1> DEFINE D == {q \in e.topics : state[q] \notin W!NotOpen}
           posts == [p \in D |-> [status |-> state[p], lines |-> {}]]
           f == [e EXCEPT !.at = "logs", !.status = e.status, !.posts = posts]
<1>1. e \in APoll /\ PollInv(e) /\ e.at = "children" /\ WatchTypes
  BY DEF WatchInv, PollInv, W!ReadChildren
<1>2. e.status \in Open /\ e.status # "unread"
  BY <1>1 DEF PollInv, Underway, Open, Ended
<1>3. W!Becomes(e, f) /\ UNCHANGED <<state, said, stored, batch, buffer, dropped, loaded>>
  BY <1>2 DEF W!ReadChildren, W!Asking, W!worker, W!logger
<1>4. D \subseteq Post /\ \A p \in D : state[p] \in Open
  BY <1>1 DEF APoll, WatchTypes, W!Watched
<1>5. posts \in [D -> Snapshot]
  BY <1>4 DEF Snapshot
<1>6. posts \in Snapshots /\ DOMAIN posts = D /\ \A p \in D : posts[p].status = state[p] /\ posts[p].lines = {}
  BY <1>4, <1>5 DEF Snapshots
<1>7. ASSUME e.run = Discovery, e.status \in Ended, NEW p \in Post \ D PROVE state[p] \in W!NotOpen
  BY <1>1, <1>7 DEF PollInv, WatchTypes, W!Watched
<1> HIDE DEF D, posts
<1>8. f \in APoll /\ f.run = e.run /\ f.at = "logs" /\ f.status = e.status /\ f.posts = posts
  BY <1>1, <1>2, <1>6 DEF APoll, Underway
<1> HIDE DEF f
<1>9. Told(e.run, e.status, posts)
  BY <1>1, <1>2, <1>4, <1>6, <1>7 DEF Told, PollInv, APoll, Underway
<1>10. PollInv(f)
  BY <1>1, <1>2, <1>8, <1>9 DEF PollInv, Underway
<1> QED BY <1>3, <1>10, BecomesWatch

LEMMA ReadLogsWatch ==
  ASSUME WatchInv, NEW e \in polls, W!ReadLogs(e) PROVE WatchInv'
<1> DEFINE D == DOMAIN e.posts
           posts == [p \in D |-> [e.posts[p] EXCEPT !.lines = W!LastLines(p)]]
           f == [e EXCEPT !.at = "answered", !.posts = posts]
<1>1. e \in APoll /\ PollInv(e) /\ e.at = "logs" /\ WatchTypes /\ LogInv /\ Told(e.run, e.status, e.posts)
  BY DEF WatchInv, PollInv, W!ReadLogs
<1>2. W!Becomes(e, f) /\ UNCHANGED <<state, said, stored, batch, buffer, dropped, loaded>>
  BY DEF W!ReadLogs, W!Asking, W!worker, W!logger
<1>3. D \subseteq Post /\ e.posts \in [D -> Snapshot]
  BY <1>1 DEF Told, Snapshots
<1>4. ASSUME NEW p \in D PROVE W!LastLines(p) \subseteq Range(said[p]) /\ W!LastLines(p) \subseteq 1 .. Stages
  <2>1. p \in Post /\ said[p] \in Seq(1 .. Stages)
    BY <1>1, <1>3 DEF WatchTypes
  <2>2. W!LastLines(p) \subseteq Range(stored[p])
    BY DEF W!LastLines, Range
  <2>3. Range(stored[p]) \subseteq Range(said[p])
    BY <1>1, <2>1 DEF LogInv
  <2> QED BY <2>1, <2>2, <2>3, RangeOfLog
<1>5. \A p \in D : /\ posts[p] \in Snapshot /\ posts[p].status = e.posts[p].status
                   /\ posts[p].lines = W!LastLines(p)
  <2> SUFFICES ASSUME NEW p \in D PROVE /\ posts[p] \in Snapshot /\ posts[p].status = e.posts[p].status
                                        /\ posts[p].lines = W!LastLines(p)
    OBVIOUS
  <2>1. e.posts[p] \in Snapshot
    BY <1>3
  <2>2. posts[p] = [e.posts[p] EXCEPT !.lines = W!LastLines(p)]
    OBVIOUS
  <2>3. W!LastLines(p) \in SUBSET (1 .. Stages)
    BY <1>4
  <2> HIDE DEF posts
  <2> QED BY <2>1, <2>2, <2>3 DEF Snapshot
<1>6. posts \in [D -> Snapshot]
  BY <1>5
<1>7. posts \in Snapshots /\ DOMAIN posts = D
  BY <1>3, <1>6 DEF Snapshots
<1> HIDE DEF posts
<1>8. f \in APoll /\ f.run = e.run /\ f.at = "answered" /\ f.status = e.status /\ f.posts = posts
  BY <1>1, <1>7 DEF APoll, Underway
<1> HIDE DEF f
<1>9. Told(e.run, e.status, posts)
  BY <1>1, <1>4, <1>5, <1>7 DEF Told
<1>10. PollInv(f)
  BY <1>1, <1>8, <1>9 DEF PollInv, Underway
<1> QED BY <1>2, <1>10, BecomesWatch

LEMMA AnswerWatch ==
  ASSUME WatchInv, NEW e \in polls, W!Answer(e) PROVE WatchInv'
<1>1. e \in APoll /\ PollInv(e) /\ e.at = "answered" /\ Told(e.run, e.status, e.posts)
  BY DEF WatchInv, PollInv, W!Answer
<1>2. UNCHANGED <<state, said, stored, batch, buffer, dropped, loaded>>
  BY DEF W!Answer, W!Asking, W!worker, W!logger
<1>3. CASE e.cancelled /\ polls' = polls \ {e}
  <2>1. \A g \in polls' : PollInv(g)'
    BY <1>2, <1>3, StepOfPanel
  <2>2. LoadedInv'
    BY <1>2, LoadedStays, StillIsAMove DEF WatchInv
  <2> QED BY <1>2, <2>1, <2>2, StepOfPanel DEF WatchInv
<1>4. CASE W!Becomes(e, [e EXCEPT !.at = "json"])
  <2> DEFINE f == [e EXCEPT !.at = "json"]
  <2>1. f \in APoll /\ f.run = e.run /\ f.at = "json" /\ f.status = e.status /\ f.posts = e.posts
    BY <1>1 DEF APoll, Underway
  <2> HIDE DEF f
  <2>2. PollInv(f)
    BY <1>1, <2>1 DEF PollInv, Underway
  <2>3. W!Becomes(e, f)
    BY <1>4 DEF f
  <2> QED BY <1>2, <2>2, <2>3, BecomesWatch
<1> QED BY <1>3, <1>4 DEF W!Answer

LEMMA AskAgainWatch ==
  ASSUME WatchInv, NEW e \in polls, W!AskAgain(e) PROVE WatchInv'
<1> DEFINE f == [e EXCEPT !.at = "run"]
<1>1. e \in APoll /\ PollInv(e)
  BY DEF WatchInv, PollInv
<1>2. W!Becomes(e, f) /\ UNCHANGED <<state, said, stored, batch, buffer, dropped, loaded>>
  BY DEF W!AskAgain, W!Asking, W!worker, W!logger
<1>3. f \in APoll /\ f.run = e.run /\ f.at = "run"
  BY <1>1 DEF APoll, Underway
<1> HIDE DEF f
<1>4. PollInv(f)
  BY <1>1, <1>3 DEF PollInv, Underway
<1> QED BY <1>2, <1>4, BecomesWatch

\* A step that sets the answer.
LEMMA LoadsWatch ==
  ASSUME WatchInv, UNCHANGED <<state, said, stored, batch, buffer, dropped>>, LoadedInv',
         NEW e \in polls,
         \/ polls' = polls \ {e}
         \/ \E f : W!Becomes(e, f) /\ PollInv(f)
  PROVE  WatchInv'
<1>1. \A g \in polls' : PollInv(g)'
  BY StepOfPanel DEF W!Becomes
<1> QED BY <1>1, StepOfPanel DEF WatchInv

LEMMA LoadWatch ==
  ASSUME WatchInv, NEW e \in polls, W!Load(e) PROVE WatchInv'
<1>1. /\ e \in APoll /\ PollInv(e) /\ e.at = "json" /\ Told(e.run, e.status, e.posts)
      /\ state[e.run] \in Open /\ e.run \in W!Watched /\ e.cancelled \in BOOLEAN
  BY DEF WatchInv, PollInv, W!Load, APoll
<1>2. UNCHANGED <<state, said, stored, batch, buffer, dropped>>
  BY DEF W!Load, W!worker, W!logger
<1>3. /\ loaded'.run = e.run /\ loaded'.status = e.status /\ loaded'.posts = e.posts
      /\ loaded'.done = W!Done(e)
  BY DEF W!Load, W!Shown
<1>4. Told(e.run, e.status, e.posts)'
  BY <1>1, <1>2, StepOfPanel
<1>5. W!Done(e) => e.status \in Ended /\ \A p \in DOMAIN e.posts : e.posts[p].status \in Ended
  <2>1. e.status \in Open
    BY <1>1 DEF Told
  <2>2. \A p \in DOMAIN e.posts : e.posts[p].status \in Open
    BY <1>1 DEF Told, Snapshots, Snapshot
  <2> QED BY <2>1, <2>2 DEF W!Done, Open
<1>6. LoadedInv'
  BY <1>3, <1>4, <1>5 DEF LoadedInv, Told
<1>7. polls' = polls \ {e} \/ \E f : W!Becomes(e, f) /\ PollInv(f)
  BY <1>1, RestIs DEF W!Load
<1> QED BY <1>2, <1>6, <1>7, LoadsWatch

LEMMA RefuseWatch ==
  ASSUME WatchInv, NEW e \in polls, W!Refuse(e) PROVE WatchInv'
<1>1. UNCHANGED <<state, said, stored, batch, buffer, dropped>> /\ polls' = polls \ {e}
  BY DEF W!Refuse, W!worker, W!logger
<1>2. loaded'.error = TRUE
  BY DEF W!Refuse, W!Failed
<1>3. LoadedInv'
  BY <1>2 DEF LoadedInv
<1> QED BY <1>1, <1>3, LoadsWatch

LEMMA LoseWatch ==
  ASSUME WatchInv, NEW e \in polls, W!Lose(e) PROVE WatchInv'
<1>1. UNCHANGED <<state, said, stored, batch, buffer, dropped>>
  BY DEF W!Lose, W!worker, W!logger
<1>2. state[e.run] \in Open /\ e.run \in W!Watched /\ e.cancelled \in BOOLEAN /\ e.errors + 1 \in Nat
  BY DEF WatchInv, PollInv, APoll
<1>3. CASE polls' = polls \ {e} /\ loaded' = W!Failed(e.run)
  <2>1. loaded'.error = TRUE
    BY <1>3 DEF W!Failed
  <2>2. LoadedInv'
    BY <2>1 DEF LoadedInv
  <2> QED BY <1>1, <1>3, <2>2, LoadsWatch
<1>4. CASE /\ W!Becomes(e, [W!Poll(e.run) EXCEPT !.at = "timer", !.errors = e.errors + 1,
                                                 !.cancelled = e.cancelled])
           /\ UNCHANGED loaded
  <2>1. LoadedInv'
    BY <1>1, <1>4, LoadedStays, StillIsAMove DEF WatchInv
  <2>2. \E f : W!Becomes(e, f) /\ PollInv(f)
    BY <1>2, <1>4, RestIs
  <2> QED BY <1>1, <2>1, <2>2, LoadsWatch
<1> QED BY <1>3, <1>4 DEF W!Lose

LEMMA TrackWatch ==
  ASSUME WatchInv, NEW r \in W!Watched \cup {W!NoRun}, W!Track(r) PROVE WatchInv'
<1>1. UNCHANGED <<state, said, stored, batch, buffer, dropped, loaded>>
  BY DEF W!Track, W!worker, W!logger
<1>2. polls' = {[e EXCEPT !.cancelled = TRUE] : e \in {f \in polls : f.at # "timer" \/ f.cancelled}}
                 \cup IF r = W!NoRun THEN {} ELSE {W!Poll(r)}
  BY DEF W!Track
<1>3. ASSUME NEW e \in polls PROVE PollInv([e EXCEPT !.cancelled = TRUE])
  <2> DEFINE f == [e EXCEPT !.cancelled = TRUE]
  <2>1. e \in APoll /\ PollInv(e)
    BY DEF WatchInv, PollInv
  <2>2. /\ f \in APoll /\ f.run = e.run /\ f.at = e.at /\ f.status = e.status /\ f.topics = e.topics
        /\ f.posts = e.posts
    BY <2>1 DEF APoll
  <2> HIDE DEF f
  <2>3. PollInv(f)
    BY <2>1, <2>2 DEF PollInv
  <2> QED BY <2>3 DEF f
<1>4. r # W!NoRun => PollInv(W!Poll(r))
  <2> SUFFICES ASSUME r # W!NoRun PROVE PollInv(W!Poll(r))
    OBVIOUS
  <2>1. r \in W!Watched /\ state[r] \notin W!NotOpen
    BY DEF W!Track
  <2>2. state[r] \in Open
    BY <2>1 DEF WatchInv, WatchTypes
  <2> QED BY <2>1, <2>2, PollIs
<1>5. \A g \in polls' : PollInv(g)
  BY <1>2, <1>3, <1>4
<1>6. \A g \in polls' : PollInv(g)'
  BY <1>1, <1>5, StepOfPanel
<1>7. LoadedInv'
  BY <1>1, LoadedStays, StillIsAMove DEF WatchInv
<1> QED BY <1>1, <1>6, <1>7, StepOfPanel DEF WatchInv

LEMMA WatchInit == W!WatchAssumption /\ W!Init => WatchInv
<1> SUFFICES ASSUME W!WatchAssumption, W!Init PROVE WatchInv
  OBVIOUS
<1>1. /\ state = [r \in W!Watched |-> IF r = Discovery THEN "running" ELSE "absent"]
      /\ said = [p \in Post |-> <<>>] /\ buffer = said /\ batch = said /\ stored = said
      /\ dropped = [p \in Post |-> {}] /\ polls = {} /\ loaded = <<>>
  BY DEF W!Init
<1>2. WatchTypes
  <2>1. state \in [W!Watched -> W!NotOpen \cup Open] /\ state[Discovery] \in Open
    BY <1>1 DEF W!Watched, W!NotOpen, Open
  <2>2. said \in [Post -> Seq(1 .. Stages)]
    BY <1>1, EmptyLog
  <2> QED BY <1>1, <2>1, <2>2 DEF WatchTypes
<1>3. LogInv
  <2>1. \A p \in Post : said[p] = <<>> /\ dropped[p] = {}
    BY <1>1
  <2> QED BY <1>1, <2>1, EmptyLog DEF LogInv, Before
<1>4. SuccessInv
  BY <1>1 DEF SuccessInv, W!Watched
<1> QED BY <1>1, <1>2, <1>3, <1>4 DEF WatchInv, LoadedInv

LEMMA WatchNext == W!WatchAssumption /\ WatchInv /\ [W!Next]_W!vars => WatchInv'
<1> SUFFICES ASSUME W!WatchAssumption, WatchInv, [W!Next]_W!vars PROVE WatchInv'
  OBVIOUS
<1>1. CASE UNCHANGED W!vars
  <2>1. UNCHANGED <<state, said, stored, batch, buffer, dropped, polls, loaded>>
    BY <1>1 DEF W!vars, W!worker, W!logger, W!panel
  <2> QED BY <2>1, StepOfPanel, LoadedStays, StillIsAMove DEF WatchInv
<1>2. ASSUME NEW p \in Post,
             W!KeepTopic(p) \/ W!OpenGeneration(p) \/ W!Announce(p) \/ W!AskFlush(p) \/ W!Take(p)
               \/ W!TakeNothing(p) \/ W!Insert(p)
      PROVE  WatchInv'
  BY <1>2, KeepTopicWatch, OpenGenerationWatch, AnnounceWatch, AskFlushWatch, TakeWatch, InsertWatch
<1>3. ASSUME NEW e \in polls,
             W!ReadRun(e) \/ W!ReadTopics(e) \/ W!ReadChildren(e) \/ W!ReadLogs(e) \/ W!Answer(e)
               \/ W!Load(e) \/ W!Refuse(e) \/ W!Lose(e) \/ W!AskAgain(e)
      PROVE  WatchInv'
  BY <1>3, ReadRunWatch, ReadTopicsWatch, ReadChildrenWatch, ReadLogsWatch, AnswerWatch, LoadWatch,
     RefuseWatch, LoseWatch, AskAgainWatch
<1> QED BY <1>1, <1>2, <1>3, CloseWatch, TrackWatch DEF W!Next

-----------------------------------------------------------------------------
(* What is shown of it                                                     *)

LEMMA SomeGreatest ==
  ASSUME NEW n \in Nat, NEW S, S \subseteq 1 .. n, S # {}
  PROVE  \E m \in S : \A y \in S : m >= y
<1> DEFINE R == {n - y : y \in S}
<1>1. R \subseteq Nat /\ R # {}
  <2>1. \A y \in S : n - y \in Nat
    <3> SUFFICES ASSUME NEW y \in S PROVE n - y \in Nat
      OBVIOUS
    <3>1. y \in 1 .. n
      OBVIOUS
    <3> QED BY <3>1
  <2> QED BY <2>1
<1>2. PICK r \in R : \A y \in R : ~ (<<y, r>> \in OpToRel(<, Nat))
  <2> HIDE DEF R
  <2>1. IsWellFoundedOn(OpToRel(<, Nat), Nat)
    BY NatLessThanWellFounded
  <2> QED BY <1>1, <2>1, WFMin
<1>3. PICK m \in S : r = n - m
  OBVIOUS
<1>4. ASSUME NEW y \in S PROVE m >= y
  <2>1. n - y \in R /\ y \in 1 .. n /\ m \in 1 .. n
    OBVIOUS
  <2>2. ~ (n - y < r)
    BY <1>1, <1>2, <2>1 DEF OpToRel
  <2> QED BY <1>3, <2>1, <2>2
<1> QED BY <1>4

\* One stage is the last that a log came to, the first of an empty one; in
\* a failed run it is the one that failed.
LEMMA OneFails ==
  ASSUME W!WatchAssumption, NEW lines \in SUBSET (1 .. Stages)
  PROVE  Cardinality({i \in 1 .. Stages : Stage(i, lines, "failed") = "failed"}) = 1
<1> DEFINE Last(i) == ~ (\E x \in lines : x > i) /\ (i \in lines \/ (i = 1 /\ lines = {}))
<1>0. Stages \in Nat /\ 1 \in 1 .. Stages
  BY DEF W!WatchAssumption
<1>1. \A i \in 1 .. Stages : Stage(i, lines, "failed") = "failed" <=> Last(i)
  BY DEF Stage
<1>2. PICK m \in 1 .. Stages : Last(m) /\ \A y \in lines : m >= y
  <2>1. CASE lines = {}
    BY <1>0, <2>1
  <2>2. CASE lines # {}
    <3>1. PICK m \in lines : \A y \in lines : m >= y
      BY <1>0, <2>2, SomeGreatest
    <3> QED BY <1>0, <3>1
  <2> QED BY <2>1, <2>2
<1>3. ASSUME NEW i \in 1 .. Stages, Last(i) PROVE i = m
  <2>1. CASE lines = {}
    BY <1>2, <1>3, <2>1
  <2>2. CASE lines # {}
    <3>1. i \in lines /\ m \in lines /\ ~ (m > i) /\ m >= i
      BY <1>2, <1>3, <2>2
    <3> QED BY <1>0, <3>1
  <2> QED BY <2>1, <2>2
<1> HIDE DEF Last
<1>4. {i \in 1 .. Stages : Stage(i, lines, "failed") = "failed"} = {m}
  BY <1>1, <1>2, <1>3
<1> QED BY <1>4, FS_Singleton

\* What is shown of a stage, of a log that has only what was said.
LEMMA StageIs ==
  ASSUME NEW R \in SUBSET (1 .. Stages), NEW lines \in SUBSET R, NEW i \in 1 .. Stages, NEW s \in Open,
         s = "success" => i \in Optional \/ i \in R
  PROVE  /\ Stage(i, lines, s) \in {"active", "done", "failed"} => i = 1 \/ \E x \in R : x >= i
         /\ s \in Ended => Stage(i, lines, s) \in {"done", "skipped", "failed", "pending"}
         /\ s = "success" => Stage(i, lines, s) \in {"done", "skipped"}
<1> DEFINE passed == \E x \in lines : x > i
           last == ~ passed /\ (i \in lines \/ (i = 1 /\ lines = {}))
           gone == IF i \in Optional THEN "skipped" ELSE "done"
           is == Stage(i, lines, s)
<1>1. is = IF passed THEN IF i \in lines THEN "done" ELSE gone
           ELSE IF last /\ s = "running" THEN "active"
           ELSE IF last /\ s = "failed" THEN "failed"
           ELSE IF s # "success" THEN "pending"
           ELSE IF i \in lines THEN "done" ELSE gone
  BY DEF Stage
<1> HIDE DEF is
<1>2. s \in {"running", "success", "failed"}
  BY DEF Open, Ended
<1>3. is \in {"active", "done", "failed"} => i = 1 \/ \E x \in R : x >= i
  <2> SUFFICES ASSUME is \in {"active", "done", "failed"}, i # 1 PROVE \E x \in R : x >= i
    OBVIOUS
  <2>1. CASE passed
    <3>1. PICK x \in lines : x > i
      BY <2>1
    <3>2. x \in R /\ x \in 1 .. Stages
      OBVIOUS
    <3> QED BY <3>1, <3>2
  <2>2. CASE ~ passed
    <3>1. i \in R
      BY <1>1, <1>2, <2>2
    <3> QED BY <3>1
  <2> QED BY <2>1, <2>2
<1>4. s \in Ended => is \in {"done", "skipped", "failed", "pending"}
  BY <1>1 DEF Ended
<1>5. s = "success" => is \in {"done", "skipped"}
  BY <1>1
<1> QED BY <1>3, <1>4, <1>5 DEF is

LEMMA DialogIs ==
  ASSUME W!WatchAssumption, WatchInv PROVE DialogIsTrue
<1> SUFFICES ASSUME NEW v \in View
             PROVE  /\ v.done => /\ state[tracked] = v.status
                                 /\ tracked = Discovery => \A p \in DOMAIN said : state[p] # "running"
                    /\ \A p \in DOMAIN v.posts :
                         LET shown == [i \in 1 .. Stages |-> Stage(i, v.posts[p].lines, v.posts[p].status)]
                         IN  /\ \A i \in 1 .. Stages :
                                  shown[i] \in {"active", "done", "failed"} => i = 1 \/ \E x \in Range(said[p]) : x >= i
                             /\ v.posts[p].status \in Ended =>
                                  /\ state[p] = v.posts[p].status
                                  /\ {shown[i] : i \in 1 .. Stages} \subseteq
                                       IF state[p] = "success" THEN {"done", "skipped"} ELSE {"done", "skipped", "failed", "pending"}
                                  /\ Cardinality({i \in 1 .. Stages : shown[i] = "failed"}) = IF state[p] = "failed" THEN 1 ELSE 0
  BY DEF DialogIsTrue
<1>1. v = loaded /\ loaded # <<>> /\ v.run = tracked /\ ~ v.error
  BY DEF View
<1>2. /\ Told(v.run, v.status, v.posts)
      /\ v.done => /\ v.status \in Ended
                   /\ \A p \in DOMAIN v.posts : v.posts[p].status \in Ended
  BY <1>1 DEF WatchInv, LoadedInv
<1>3. WatchTypes /\ SuccessInv
  BY DEF WatchInv
<1>4. ASSUME v.done, tracked = Discovery, NEW p \in Post PROVE state[p] # "running"
  <2>1. CASE p \in DOMAIN v.posts
    BY <1>2, <1>4, <2>1 DEF Told, Ended
  <2>2. CASE p \notin DOMAIN v.posts
    BY <1>1, <1>2, <1>4, <2>2 DEF Told, W!NotOpen
  <2> QED BY <2>1, <2>2
<1>5. v.done => /\ state[tracked] = v.status
                /\ tracked = Discovery => \A p \in DOMAIN said : state[p] # "running"
  <2>1. DOMAIN said = Post
    BY <1>3 DEF WatchTypes
  <2>2. v.done => state[tracked] = v.status
    BY <1>1, <1>2 DEF Told
  <2> QED BY <1>4, <2>1, <2>2
<1>6. ASSUME NEW p \in DOMAIN v.posts
      PROVE  LET shown == [i \in 1 .. Stages |-> Stage(i, v.posts[p].lines, v.posts[p].status)]
             IN  /\ \A i \in 1 .. Stages :
                      shown[i] \in {"active", "done", "failed"} => i = 1 \/ \E x \in Range(said[p]) : x >= i
                 /\ v.posts[p].status \in Ended =>
                      /\ state[p] = v.posts[p].status
                      /\ {shown[i] : i \in 1 .. Stages} \subseteq
                           IF state[p] = "success" THEN {"done", "skipped"} ELSE {"done", "skipped", "failed", "pending"}
                      /\ Cardinality({i \in 1 .. Stages : shown[i] = "failed"}) = IF state[p] = "failed" THEN 1 ELSE 0
  <2> DEFINE lines == v.posts[p].lines
             s == v.posts[p].status
             R == Range(said[p])
             shown == [i \in 1 .. Stages |-> Stage(i, lines, s)]
  <2>1. p \in Post /\ lines \in SUBSET R /\ s \in Open /\ (s \in Ended => state[p] = s)
    <3>1. p \in Post /\ v.posts[p] \in Snapshot
      BY <1>2 DEF Told, Snapshots
    <3> QED BY <1>2, <3>1 DEF Told, Snapshot
  <2>2. R \in SUBSET (1 .. Stages)
    BY <1>3, <2>1, RangeOfLog DEF WatchTypes
  <2>3. s = "success" => \A i \in 1 .. Stages : i \in Optional \/ i \in R
    BY <1>3, <2>1 DEF SuccessInv, Ended
  <2>4. \A i \in 1 .. Stages : shown[i] = Stage(i, lines, s)
    OBVIOUS
  <2> HIDE DEF lines, s, R, shown
  <2>5. \A i \in 1 .. Stages :
          /\ shown[i] \in {"active", "done", "failed"} => i = 1 \/ \E x \in R : x >= i
          /\ s \in Ended => shown[i] \in {"done", "skipped", "failed", "pending"}
          /\ s = "success" => shown[i] \in {"done", "skipped"}
    BY <2>1, <2>2, <2>3, <2>4, StageIs
  <2>6. ASSUME s \in Ended
        PROVE  Cardinality({i \in 1 .. Stages : shown[i] = "failed"}) = IF s = "failed" THEN 1 ELSE 0
    <3>1. CASE s = "failed"
      <4>1. {i \in 1 .. Stages : shown[i] = "failed"} = {i \in 1 .. Stages : Stage(i, lines, "failed") = "failed"}
        BY <2>4, <3>1
      <4>2. lines \in SUBSET (1 .. Stages)
        BY <2>1, <2>2
      <4> QED BY <3>1, <4>1, <4>2, OneFails
    <3>2. CASE s = "success"
      <4>1. {i \in 1 .. Stages : shown[i] = "failed"} = {}
        BY <2>5, <3>2
      <4> QED BY <3>2, <4>1, FS_EmptySet
    <3> QED BY <2>6, <3>1, <3>2 DEF Ended
  <2>7. s \in Ended =>
          /\ state[p] = s
          /\ {shown[i] : i \in 1 .. Stages} \subseteq
               IF state[p] = "success" THEN {"done", "skipped"} ELSE {"done", "skipped", "failed", "pending"}
          /\ Cardinality({i \in 1 .. Stages : shown[i] = "failed"}) = IF state[p] = "failed" THEN 1 ELSE 0
    BY <2>1, <2>5, <2>6
  <2>8. /\ \A i \in 1 .. Stages :
             shown[i] \in {"active", "done", "failed"} => i = 1 \/ \E x \in R : x >= i
        /\ s \in Ended =>
             /\ state[p] = s
             /\ {shown[i] : i \in 1 .. Stages} \subseteq
                  IF state[p] = "success" THEN {"done", "skipped"} ELSE {"done", "skipped", "failed", "pending"}
             /\ Cardinality({i \in 1 .. Stages : shown[i] = "failed"}) = IF state[p] = "failed" THEN 1 ELSE 0
    BY <2>5, <2>7
  <2> QED BY <2>8 DEF lines, s, R, shown
<1> QED BY <1>5, <1>6

\* For any runs, stages and dialogs, however flushes, inserts, answers and
\* effects interleave and fail: the log is what was said but for failed inserts,
\* and what the dialog shows of a run, of an earlier tracking too, is how it
\* went (createRunLogger, getRunProgress, useRunProgress, deriveStages).
THEOREM PanelTellsTheRunHolds == W!WatchAssumption => (W!Spec => []PanelTellsTheRun)
<1> SUFFICES ASSUME W!WatchAssumption PROVE W!Spec => []PanelTellsTheRun
  OBVIOUS
<1>1. W!Init => WatchInv
  BY WatchInit
<1>2. WatchInv /\ [W!Next]_W!vars => WatchInv'
  BY WatchNext
<1>3. WatchInv => PanelTellsTheRun
  BY LogIs, DialogIs DEF PanelTellsTheRun, WatchInv
<1> QED BY <1>1, <1>2, <1>3, PTL DEF W!Spec
===============================================================================
