----------------------------- MODULE ImageDialog ----------------------------
(***************************************************************************)
(* The dialog that changes an image of an article (ImageEditor) and the    *)
(* request it makes, while images are swapped by others: in WordPress, or  *)
(* by a generation whose end draws the page again under the open dialog.   *)
(* A caption is that of an image (who it is from), one the user typed, or  *)
(* none. The alternative text and the title follow no rule of their own.   *)
(***************************************************************************)
EXTENDS Naturals, FiniteSets

CONSTANTS
  Slot,       \* the places of the article, the cover one of them
  Cover,
  First,      \* the image each slot begins with
  File,       \* images of the user's computer
  Address,    \* images of the web
  Other,      \* images that others bring
  NoImage,
  MaxSteps,   \* bound: what a user does in the dialogs
  MaxSubmits  \* bound: requests

VARIABLES
  images,     \* what each slot of the post shows
  page,       \* what the server drew last: target and current
  dialog,
  change,     \* the request
  running,    \* the slot a generation is swapping
  load,       \* the page drawn by the server, on its way
  strayed,    \* slots whose caption was written for another image
  spent       \* the bounds used

vars == <<images, page, dialog, change, running, load, strayed, spent>>

Image == {First[s] : s \in Slot} \cup File \cup Address \cup Other
None == "none"
Typed == "typed"
Of(m) == [image |-> m, caption |-> m]

Closed == [slot |-> None, moved |-> FALSE, file |-> NoImage, url |-> NoImage,
           preview |-> NoImage, caption |-> None, busy |-> FALSE]
Quiet == [step |-> "idle", slot |-> None, target |-> Of(NoImage), moved |-> FALSE,
          new |-> NoImage, shown |-> NoImage, caption |-> None, read |-> Of(NoImage)]

Init ==
  /\ images = [s \in Slot |-> Of(First[s])]
  /\ page = images
  /\ dialog = Closed /\ change = Quiet /\ running = None
  /\ load = [step |-> "none", post |-> images]
  /\ strayed = {}
  /\ spent = [steps |-> 0, submits |-> 0, others |-> {}]

Step == spent.steps < MaxSteps /\ spent' = [spent EXCEPT !.steps = @ + 1]

-----------------------------------------------------------------------------
(* The dialog                                                              *)

\* imageFromTransfer, imageFromClipboard: a file, or else an address of the web.
Brought == [file : File, url : {NoImage}] \cup [file : {NoImage}, url : Address]
Nothing == [file |-> NoImage, url |-> NoImage]

\* The old caption is of the image that goes.
Open(s, b) ==
  /\ dialog = Closed
  /\ Step
  /\ dialog' = [Closed EXCEPT !.slot = s, !.file = b.file,
                             !.url = b.url, !.preview = b.file,
                             !.caption = IF b = Nothing THEN page[s].caption ELSE None]
  /\ UNCHANGED <<images, page, change, running, load, strayed>>

Current == page[dialog.slot]

\* noteNewImage
Noted == IF dialog.caption = Current.caption THEN None ELSE dialog.caption

InDialog == dialog # Closed /\ Step /\ UNCHANGED <<images, page, change, running, load, strayed>>

\* A file of another kind, or too large, changes nothing.
ChooseFile(f) ==
  /\ InDialog
  /\ dialog' = [dialog EXCEPT !.file = f, !.preview = f, !.url = NoImage, !.caption = Noted]

\* The field of the address is disabled while there is a file.
TypeAddress(u) ==
  /\ InDialog /\ dialog.file = NoImage
  /\ dialog' = [dialog EXCEPT !.url = u, !.caption = IF u = NoImage THEN @ ELSE Noted]

DropAddress(u) ==
  /\ InDialog
  /\ dialog' = [dialog EXCEPT !.file = NoImage, !.preview = NoImage, !.url = u, !.caption = Noted]

\* The caption that was cleared is not put back.
DiscardNew ==
  /\ InDialog
  /\ dialog.file # NoImage \/ dialog.url # NoImage
  /\ dialog' = [dialog EXCEPT !.file = NoImage, !.preview = NoImage, !.url = NoImage]

TypeCaption(c) ==
  /\ InDialog /\ c # dialog.caption
  /\ dialog' = [dialog EXCEPT !.caption = c]

Close ==
  /\ dialog # Closed /\ ~ dialog.busy
  /\ dialog' = Closed
  /\ UNCHANGED <<images, page, change, running, load, strayed, spent>>

Sent == IF dialog.file # NoImage THEN dialog.file ELSE dialog.url
Shown == IF dialog.preview # NoImage THEN dialog.preview ELSE dialog.url

\* target and current are those of the page as last drawn, whatever the dialog
\* opened on; the cover has no other identity than that.
Submit ==
  /\ dialog # Closed /\ ~ dialog.busy
  /\ spent.submits < MaxSubmits /\ spent' = [spent EXCEPT !.submits = @ + 1]
  /\ dialog' = [dialog EXCEPT !.busy = TRUE]
  /\ change' = [step |-> "asked", slot |-> dialog.slot, target |-> Current,
                 moved |-> dialog.moved, new |-> Sent, shown |-> Shown,
                 caption |-> dialog.caption, read |-> Of(NoImage)]
  /\ UNCHANGED <<images, page, running, load, strayed>>

-----------------------------------------------------------------------------
(* The server                                                              *)

Answer(why) == change' = [change EXCEPT !.step = why]

Refused ==
  /\ change.step \in {"asked", "read"}
  /\ Answer("refused")
  /\ UNCHANGED <<images, page, dialog, running, load, strayed, spent>>

\* The whole content is read; what is not there any more is not changed.
Read ==
  /\ change.step = "asked"
  /\ IF running # None \/ (change.slot # Cover /\ images[change.slot].image # change.target.image)
     THEN Answer("refused")
     ELSE change' = [change EXCEPT !.step = "read", !.read = images[change.slot]]
  /\ UNCHANGED <<images, page, dialog, running, load, strayed, spent>>

\* processUploadedImage comes before anything is sent: a file that does not
\* serve is Refused.
Replace ==
  /\ change.step = "read" /\ change.new # NoImage
  /\ Answer("done")
  /\ images' = [images EXCEPT ![change.slot] = [image |-> change.new, caption |-> change.caption]]
  /\ strayed' = IF change.moved THEN strayed \cup {change.slot} ELSE strayed \ {change.slot}
  /\ UNCHANGED <<page, dialog, running, load, spent>>

\* Only the caption: of the block that was read, or of what the cover is now. A
\* page drawn before the last change shows a caption that was another image's.
Adjust ==
  /\ change.step = "read" /\ change.new = NoImage
  /\ Answer("done")
  /\ images' = [images EXCEPT ![change.slot] =
                  [image |-> change.read.image, caption |-> change.caption]]
  /\ strayed' = IF change.moved \/ change.target # change.read THEN strayed \cup {change.slot}
                ELSE strayed
  /\ UNCHANGED <<page, dialog, running, load, spent>>

Ask == load' = [load EXCEPT !.step = "asked"]

\* What is typed while the request is under way goes with the dialog.
Answered ==
  /\ change.step \in {"done", "refused"}
  /\ change' = Quiet
  /\ IF change.step = "done"
     THEN dialog' = Closed /\ Ask
     ELSE dialog' = [dialog EXCEPT !.busy = FALSE] /\ UNCHANGED load
  /\ UNCHANGED <<images, page, running, strayed, spent>>

-----------------------------------------------------------------------------
(* The others                                                              *)

\* RegenerateImageButton: its dialog is another one.
Regenerate(s) ==
  /\ running = None /\ dialog = Closed
  /\ Other \ spent.others # {}
  /\ running' = s
  /\ UNCHANGED <<images, page, dialog, change, load, strayed, spent>>

Bring(s, m) ==
  /\ m \in Other \ spent.others
  /\ spent' = [spent EXCEPT !.others = @ \cup {m}]
  /\ images' = [images EXCEPT ![s] = Of(m)]
  /\ strayed' = strayed \ {s}

\* The panel that follows the run draws the page again when it ends.
Swapped(m) ==
  /\ running # None
  /\ Bring(running, m)
  /\ running' = None /\ Ask
  /\ UNCHANGED <<page, dialog, change>>

Foreign(s, m) ==
  /\ change.step # "read"
  /\ Bring(s, m)
  /\ UNCHANGED <<page, dialog, change, running, load>>

DrawPage ==
  /\ load.step = "asked"
  /\ load' = [step |-> "drawn", post |-> images]
  /\ UNCHANGED <<images, page, dialog, change, running, strayed, spent>>

\* The dialog is of the slot, by position: it stays, and what it holds.
PageArrives ==
  /\ load.step = "drawn"
  /\ page' = load.post /\ load' = [load EXCEPT !.step = "none"]
  /\ dialog' = IF dialog = Closed THEN Closed
               ELSE [dialog EXCEPT !.moved = @ \/ page'[dialog.slot] # page[dialog.slot]]
  /\ UNCHANGED <<images, change, running, strayed, spent>>

Next ==
  \/ \E s \in Slot : Regenerate(s) \/ \E b \in Brought \cup {Nothing} : Open(s, b)
  \/ \E f \in File : ChooseFile(f)
  \/ \E u \in Address : DropAddress(u)
  \/ \E u \in Address \cup {NoImage} : TypeAddress(u)
  \/ \E c \in {Typed, None} : TypeCaption(c)
  \/ DiscardNew \/ Close \/ Submit
  \/ Refused \/ Read \/ Replace \/ Adjust \/ Answered
  \/ \E m \in Other : Swapped(m) \/ \E s \in Slot : Foreign(s, m)
  \/ DrawPage \/ PageArrives

Spec == Init /\ [][Next]_vars
=============================================================================
