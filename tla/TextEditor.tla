----------------------------- MODULE TextEditor -----------------------------
(***************************************************************************)
(* Text edited on the preview of an article (TextEditProvider and          *)
(* HtmlSegment), and saveBriefText, which writes it to WordPress. The      *)
(* paragraphs are in segments, the elements React redraws as a whole when  *)
(* their HTML changes. Others edit the same post in WordPress meanwhile.   *)
(* A text is what sanitizeInlineHtml leaves of it.                         *)
(***************************************************************************)
EXTENDS Naturals, FiniteSets

CONSTANTS
  Paragraph,
  Segments,      \* a partition of Paragraph
  Text,          \* what a paragraph may say
  Blank,         \* a text with nothing in it
  Title,         \* what a title may say, of at least three characters
  MaxTyped,      \* bound: changes typed
  MaxForeign,    \* bound: changes made in WordPress
  MaxLoads,      \* bound: times the page is asked for again
  MaxSaves       \* bound: requests

VARIABLES
  article,    \* the post in WordPress
  page,       \* what the server drew last: the props
  screen,     \* the DOM of each paragraph
  alive,      \* paragraphs whose element is editable: those of the effect of HtmlSegment
  original,   \* what the effect found in them
  edits,      \* edits.current
  title,
  editing,
  request,    \* saveTextEditsAction
  load,       \* router.refresh(): one under way, another asked for
  \* what the property speaks of
  began,      \* the screen when editing began
  typed,      \* what the user typed last since
  foreign,    \* paragraphs changed by others since the page was drawn
  blurred,    \* the screen shows what this user did, and WordPress may say otherwise
  spent       \* the bounds used

vars == <<article, page, screen, alive, original, edits, title, editing, request, load, began,
          typed, foreign, blurred, spent>>
browser == <<screen, alive, original, edits, title, editing>>
history == <<began, typed, foreign, blurred>>

None == "none"

\* "none" is no text: it says that nothing was typed.
TextAssumption == None \notin Text \cup {Blank}

NoEdit == [before |-> None, after |-> None]
NoEdits == [p \in Paragraph |-> NoEdit]
Untyped == [p \in Paragraph |-> None]

Init ==
  /\ \E t \in [Paragraph -> Text], n \in Title : article = [text |-> t, title |-> n]
  /\ page = article /\ screen = article.text /\ title = article.title
  /\ alive = {} /\ original = article.text /\ editing = FALSE /\ edits = NoEdits
  /\ request = [step |-> "idle", edits |-> NoEdits, typed |-> Untyped, title |-> None,
                read |-> article, content |-> {}, answer |-> None]
  /\ load = [step |-> "none", post |-> article, foreign |-> {}, old |-> FALSE, again |-> FALSE]
  /\ began = article.text /\ typed = Untyped /\ foreign = {} /\ blurred = FALSE
  /\ spent = [typed |-> 0, foreign |-> 0, loads |-> 0, saves |-> 0]

Spend(what, most) == spent[what] < most /\ spent' = [spent EXCEPT ![what] = @ + 1]

-----------------------------------------------------------------------------
(* The browser                                                             *)

Edited == {p \in Paragraph : edits[p] # NoEdit}
TitleChanged == title # page.title
Saving == request.step # "idle"

\* The effect of every segment runs when editing turns on.
Start ==
  /\ ~ editing
  /\ editing' = TRUE /\ alive' = Paragraph /\ original' = screen
  /\ began' = screen /\ typed' = Untyped
  /\ UNCHANGED <<article, page, screen, edits, title, request, load, foreign, blurred, spent>>

\* onInput: the elements stay editable while a request is under way.
Type(p, x) ==
  /\ p \in alive /\ x # screen[p]
  /\ Spend("typed", MaxTyped)
  /\ screen' = [screen EXCEPT ![p] = x]
  /\ edits' = [edits EXCEPT ![p] = IF x = original[p] THEN NoEdit
                                   ELSE [before |-> original[p], after |-> x]]
  /\ typed' = [typed EXCEPT ![p] = x]
  /\ UNCHANGED <<article, page, alive, original, title, editing, request, load, began, foreign,
                 blurred>>

TypeTitle(n) ==
  /\ editing /\ n # title
  /\ Spend("typed", MaxTyped)
  /\ title' = n
  /\ UNCHANGED <<article, page, screen, alive, original, edits, editing, request, load, history>>

Exit == edits' = NoEdits /\ editing' = FALSE /\ alive' = {}

\* The resets of the effects; those of elements that are gone change nothing.
Restored == [p \in Paragraph |-> IF p \in alive THEN original[p] ELSE screen[p]]

Cancel ==
  /\ editing /\ ~ Saving
  /\ Exit
  /\ screen' = Restored /\ title' = page.title
  /\ UNCHANGED <<article, page, original, request, load, history, spent>>

Save ==
  /\ editing /\ ~ Saving
  /\ Edited # {} \/ TitleChanged
  /\ Spend("saves", MaxSaves)
  /\ request' = [request EXCEPT !.step = "asked", !.edits = edits, !.typed = typed,
                                !.title = IF TitleChanged THEN title ELSE None]
  /\ UNCHANGED <<article, page, browser, load, history>>

-----------------------------------------------------------------------------
(* The server                                                              *)

Sent == {p \in Paragraph : request.edits[p] # NoEdit}

\* Mutant: the edits that fit are applied, the others left out.
ConflictsAll ==
  {p \in Sent : \A q \in Sent : request.edits[q].before # article.text[q]}

\* applyTextEdits: the first edit that does not fit decides.
Conflicts == {p \in Sent : request.edits[p].before # article.text[p]}
Empties == {p \in Sent : request.edits[p].after = Blank}

Applied == [p \in Paragraph |-> IF p \in Sent THEN request.edits[p].after ELSE article.text[p]]

Answer(why) == request' = [request EXCEPT !.step = "answered", !.answer = why, !.read = article]

\* load may refuse: the status of the brief, a swap under way, WordPress. What
\* is read is what is written, whole, unless no paragraph changes.
ReadPost ==
  /\ request.step = "asked"
  /\ \/ Answer("refused")
     \/ Conflicts # {} /\ Answer("conflict")
     \/ Empties # {} /\ Answer("empty")
     \/ /\ Conflicts = {} /\ Empties = {}
        /\ IF Applied = article.text /\ request.title \in {None, article.title}
           THEN Answer("saved")
           ELSE request' = [request EXCEPT !.step = "read", !.read = article,
                              !.content = IF Applied = article.text THEN {} ELSE {Applied}]
  /\ UNCHANGED <<article, page, browser, load, history, spent>>

Written ==
  [text  |-> IF request.content = {} THEN article.text ELSE CHOOSE c \in request.content : TRUE,
   title |-> IF request.title = None THEN article.title ELSE request.title]

\* The answer may be lost after WordPress has the post.
WritePost ==
  /\ request.step = "read"
  /\ article' = Written
  /\ \E answer \in {"saved", "lost"} :
       /\ request' = [request EXCEPT !.step = "answered", !.answer = answer]
       /\ blurred' = (blurred \/ answer = "lost")
  /\ load' = [load EXCEPT !.old = (load.step = "drawn")]
  /\ UNCHANGED <<page, browser, began, typed, foreign, spent>>

WriteFails ==
  /\ request.step = "read"
  /\ request' = [request EXCEPT !.step = "answered", !.answer = "refused"]
  /\ UNCHANGED <<article, page, browser, load, history, spent>>

-----------------------------------------------------------------------------
(* The answer, and the page again                                          *)

Refresh(l) == IF l.step = "none" THEN [l EXCEPT !.step = "asked"] ELSE [l EXCEPT !.again = TRUE]

\* A save that worked leaves editing, with what was typed since.
Answered ==
  /\ request.step = "answered"
  /\ request' = [request EXCEPT !.step = "idle", !.edits = NoEdits, !.typed = Untyped,
                                !.title = None, !.content = {}, !.answer = None]
  /\ IF request.answer = "saved"
     THEN /\ Exit /\ load' = Refresh(load)
          /\ blurred' = (\/ blurred \/ typed # request.typed
                        \/ \E p \in Sent : screen[p] # request.edits[p].after)
     ELSE UNCHANGED <<edits, editing, alive, load, blurred>>
  /\ UNCHANGED <<article, page, screen, original, title, began, typed, foreign, spent>>

\* Another edit of the article, or the end of a swap, asks for the page.
AskPage ==
  /\ Spend("loads", MaxLoads)
  /\ load' = Refresh(load)
  /\ UNCHANGED <<article, page, browser, request, history>>

DrawPage ==
  /\ load.step = "asked"
  /\ load' = [load EXCEPT !.step = "drawn", !.post = article, !.foreign = {}, !.old = FALSE]
  /\ UNCHANGED <<article, page, browser, request, history, spent>>

\* A segment whose HTML is as it was drawn before is left as it is.
Redrawn == UNION {s \in Segments : \E p \in s : load.post.text[p] # page.text[p]}

PageArrives ==
  /\ load.step = "drawn"
  /\ page' = load.post
  /\ screen' = [p \in Paragraph |-> IF p \in Redrawn THEN page'.text[p] ELSE screen[p]]
  /\ alive' = alive \ Redrawn
  /\ title' = IF page'.title # page.title THEN page'.title ELSE title
  /\ load' = [load EXCEPT !.step = IF load.again THEN "asked" ELSE "none", !.again = FALSE,
                          !.post = page', !.foreign = {}, !.old = FALSE]
  /\ IF editing
     THEN blurred' = (blurred \/ load.old) /\ UNCHANGED foreign
     ELSE blurred' = (load.old \/ screen' # page'.text) /\ foreign' = load.foreign
  /\ UNCHANGED <<article, original, edits, editing, request, began, typed, spent>>

\* Someone edits the post in WordPress.
Foreign(p, x) ==
  /\ x # article.text[p]
  /\ Spend("foreign", MaxForeign)
  /\ article' = [article EXCEPT !.text[p] = x]
  /\ foreign' = foreign \cup {p}
  /\ load' = [load EXCEPT !.foreign = @ \cup {p}]
  /\ UNCHANGED <<page, browser, request, began, typed, blurred>>

Next ==
  \/ Start \/ Cancel \/ Save \/ ReadPost \/ WritePost \/ WriteFails \/ Answered
  \/ AskPage \/ DrawPage \/ PageArrives
  \/ \E p \in Paragraph, x \in Text \cup {Blank} : Type(p, x)
  \/ \E n \in Title : TypeTitle(n)
  \/ \E p \in Paragraph, x \in Text : Foreign(p, x)

Spec == Init /\ [][Next]_vars
=============================================================================
