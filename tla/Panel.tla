-------------------------------- MODULE Panel --------------------------------
(***************************************************************************)
(* What a user can rely on who watches a run (RunWatch), or edits a        *)
(* published article on its preview: the text (TextEditor), the images     *)
(* (ImageDialog).                                                          *)
(***************************************************************************)
EXTENDS Integers, FiniteSets, Sequences, Functions

CONSTANTS
  Discovery,  \* a run that discovers
  Stages,     \* how many stages a generation has
  Optional    \* those a template may turn off

VARIABLES
  \* of RunWatch
  state,      \* the status of each run
  said,       \* stages announced by the worker
  stored,     \* run_logs
  batch,      \* lines of the insert under way
  buffer,     \* lines not yet in an insert
  dropped,    \* lines of failed inserts
  tracked,    \* runId of the dialog
  loaded,     \* the last answer that was set
  \* of TextEditor
  article,    \* the post in WordPress
  request,    \* saveTextEditsAction
  began,      \* the screen when editing began
  foreign,    \* paragraphs changed by others since the page was drawn
  blurred,    \* the screen shows what this user did, and WordPress may say otherwise
  \* of ImageDialog
  images,     \* what each slot of the post shows
  change,     \* the request
  strayed     \* slots whose caption was written for another image

-----------------------------------------------------------------------------
(* A run                                                                   *)

Ended == {"success", "failed"}

\* deriveStages
Stage(i, lines, s) ==
  LET passed == \E x \in lines : x > i
      last == ~ passed /\ (i \in lines \/ (i = 1 /\ lines = {}))
      gone == IF i \in Optional THEN "skipped" ELSE "done"
  IN  IF passed THEN IF i \in lines THEN "done" ELSE gone
      ELSE IF last /\ s = "running" THEN "active"
      ELSE IF last /\ s = "failed" THEN "failed"
      ELSE IF s # "success" THEN "pending"
      ELSE IF i \in lines THEN "done" ELSE gone

Ascends(s) == \A i, j \in DOMAIN s : i < j => s[i] < s[j]

\* What the logger has stored, is storing and keeps is what was said, in its
\* order and once, without the lines of failed inserts.
LogIsWhole ==
  \A p \in DOMAIN said :
    LET log == stored[p] \o batch[p] \o buffer[p]
    IN  Ascends(said[p]) /\ Ascends(log) /\ Range(log) = Range(said[p]) \ dropped[p]

\* What the dialog shows: an answer about another run counts as none.
View == IF loaded # <<>> /\ loaded.run = tracked /\ ~ loaded.error THEN {loaded} ELSE {}

\* A dialog that says "done", and asks no more, tells of runs that have ended:
\* the discovery and every generation it opened, each with the status it has.
\* A stage is under way, done or failed only if the worker came to it, and a
\* run that has ended has no stage under way, and one failed if it failed.
DialogIsTrue ==
  \A v \in View :
    /\ v.done => /\ state[tracked] = v.status
                 /\ tracked = Discovery => \A p \in DOMAIN said : state[p] # "running"
    /\ \A p \in DOMAIN v.posts :
         LET shown == [i \in 1 .. Stages |-> Stage(i, v.posts[p].lines, v.posts[p].status)]
         IN  /\ \A i \in 1 .. Stages :
                  shown[i] \in {"active", "done", "failed"} => i = 1 \/ \E x \in Range(said[p]) : x >= i
             /\ v.posts[p].status \in Ended =>
                  /\ state[p] = v.posts[p].status
                  /\ {shown[i] : i \in 1 .. Stages} \subseteq
                       IF state[p] = "success" THEN {"done", "skipped"} ELSE {"done", "skipped", "failed", "pending"}
                  /\ Cardinality({i \in 1 .. Stages : shown[i] = "failed"}) = IF state[p] = "failed" THEN 1 ELSE 0

\* What the user sees of a run is what the run did: the two above, the log and
\* what is derived from it.
PanelTellsTheRun == LogIsWhole /\ DialogIsTrue

-----------------------------------------------------------------------------
(* An article                                                              *)

\* WordPress takes the text, whether or not its answer arrives.
Writes ==
  /\ request.step = "read" /\ request.content # {}
  /\ request'.answer \in {"saved", "lost"}

\* A text was typed over the one the user had on the screen.
TypedOver == {p \in DOMAIN began : request.typed[p] \notin {"none", began[p]}}

\* A save writes every paragraph the user changed, as last typed, each only over
\* the text that was on the screen when editing began, and the others as they
\* were read; and who is told that the text changed in WordPress is told so of
\* someone else's change, unless the screen shows a save whose answer was lost
\* or a text typed, or a page redrawn, while one was under way.
TextIsAsSeen ==
  [][ /\ Writes =>
           \A p \in DOMAIN began :
             IF p \in TypedOver
             THEN request.read.text[p] = began[p] /\ article'.text[p] = request.typed[p]
             ELSE article'.text[p] = request.read.text[p]
      /\ (request.step = "asked" /\ request'.answer = "conflict" /\ ~ blurred) =>
           TypedOver \cap foreign # {} ]_<<article, request>>

\* Under every image stands its own caption, one the user typed, or none,
\* unless the page changed under the dialog, or showed a caption that is no more,
\* and it was submitted all the same; and the image a request brings is the one
\* the dialog was showing.
CaptionsFollowImages ==
  /\ \A s \in DOMAIN images \ strayed :
       images[s].caption \in {"none", "typed", images[s].image}
  /\ change.new = change.shown

\* The dialogs of a published article replace what the user saw there: a
\* paragraph that changed meanwhile stays, an image takes its caption with it.
EditsReplaceWhatWasSeen == TextIsAsSeen /\ []CaptionsFollowImages
=============================================================================
