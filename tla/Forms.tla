------------------------------- MODULE Forms -------------------------------
(***************************************************************************)
(* The dialogs that make and edit a brief, a job or an autopilot: what is  *)
(* chosen is state of a component that outlives each opening and is set    *)
(* from the row once, when the component is first drawn; what is typed is  *)
(* in text boxes drawn anew with each opening. One dialog, one row.        *)
(***************************************************************************)
EXTENDS Dialog, Naturals

CONSTANTS
  Site,
  MaxEdits,    \* bound: changes by the user of the dialog
  MaxForeign   \* bound: changes of the row by others

VARIABLES
  form,      \* whose dialog: of a brief, a job or an autopilot, new or stored
  more,      \* moreOpen
  cats,      \* categories: the site they are of, and were they listed
  sent,      \* the submission under way
  late,      \* fields changed since it was sent
  edits, foreign

vars == <<form, record, drawn, open, held, typed, more, cats, sent, touched, late, adrift, edits, foreign>>
stored == <<form, record, drawn, foreign>>
history == <<touched, late, adrift, edits>>

Presets == {{"daily"}, {"twice"}}

Default == [site |-> "none", cron |-> {"daily"}, choice |-> "usual", category |-> "none", text |-> "empty"]
Stored ==
  [site : Site, cron : {{"daily"}, {"typed"}}, choice : {"usual"}, category : {"none"}, text : {"stored"}]

NoList == [of |-> "none", listed |-> FALSE]
NotSent == [step |-> "none", row |-> Default]

\* Only the dialog of a job has a builder for what is no preset.
Known(f, cron) == f.of # "job" \/ cron \in Presets

Drawn(f, p) ==
  [site |-> p.site, choice |-> p.choice, category |-> p.category,
   preset |-> IF Known(f, p.cron) THEN p.cron ELSE Custom,
   raw |-> ~ Known(f, p.cron), typed |-> IF Known(f, p.cron) THEN {} ELSE p.cron,
   weekly |-> FALSE, days |-> Day]

Init ==
  /\ form \in [of : {"brief", "job", "autopilot"}, new : BOOLEAN]
  /\ drawn \in IF form.new THEN {Default} ELSE Stored
  /\ record = drawn /\ held = Drawn(form, drawn)
  /\ open = FALSE /\ typed = drawn.text /\ more = FALSE
  /\ cats = NoList /\ sent = NotSent
  /\ touched = {} /\ late = {} /\ adrift = {} /\ edits = 0 /\ foreign = 0

-----------------------------------------------------------------------------
(* The dialog                                                              *)

\* The text boxes are drawn anew.
Open ==
  /\ ~ open /\ open' = TRUE
  /\ typed' = drawn.text
  /\ UNCHANGED <<stored, held, more, cats, sent, history>>

LeaveBehind(fields) == adrift' = adrift \cup (fields \ {"text"}) /\ touched' = {}

Close ==
  /\ open /\ open' = FALSE
  /\ LeaveBehind(touched)
  /\ UNCHANGED <<stored, held, typed, more, cats, sent, late, edits>>

Edit(fields) ==
  /\ open /\ edits < MaxEdits /\ edits' = edits + 1
  /\ touched' = touched \cup fields
  /\ late' = IF sent = NotSent THEN late ELSE late \cup fields
  /\ UNCHANGED <<stored, open, sent, adrift>>

TypeText ==
  /\ Edit({"text"}) /\ typed' = "typed"
  /\ UNCHANGED <<held, more, cats>>

\* Language, mode and depth of the search, what is done in the end.
Choose ==
  /\ Edit({"choice"})
  /\ held' = [held EXCEPT !.choice = IF @ = "usual" THEN "other" ELSE "usual"]
  /\ UNCHANGED <<typed, more, cats>>

\* Mutant: the category stays.
WithSiteOnly(s) == [held EXCEPT !.site = s]

\* The category was of the other site.
WithSite(s) == [held EXCEPT !.site = s, !.category = "none"]

\* A stored brief keeps its site.
ChooseSite ==
  /\ form.of = "brief" /\ form.new
  /\ Edit({"site", "category"})
  /\ \E s \in Site \ {held.site} : held' = WithSite(s)
  /\ UNCHANGED <<typed, more, cats>>

\* One of the sites, or one connected on the spot.
ConnectSite ==
  /\ form.of # "brief" /\ Edit({"site"})
  /\ \E s \in Site \ {held.site} : held' = [held EXCEPT !.site = s]
  /\ UNCHANGED <<typed, more, cats>>

ToggleMore ==
  /\ open /\ form.of = "brief" /\ more' = ~ more
  /\ UNCHANGED <<stored, open, held, typed, cats, sent, history>>

\* They are asked for again whenever the site, or the block, changes, and an
\* answer for another site is dropped.
Loading == form.new /\ more /\ held.site # "none" /\ cats.of # held.site

CategoriesArrive ==
  /\ form.of = "brief" /\ Loading
  /\ \E listed \in BOOLEAN : cats' = [of |-> held.site, listed |-> listed]
  /\ UNCHANGED <<stored, open, held, typed, more, sent, history>>

\* From the list, or an identifier when there is none; it stands for a site.
ChooseCategory ==
  /\ form.of = "brief" /\ more /\ ~ Loading
  /\ Edit({"category"})
  /\ held' = [held EXCEPT !.category = IF @ = held.site THEN "none" ELSE held.site]
  /\ UNCHANGED <<typed, more, cats>>

ChoosePreset ==
  /\ form.of # "brief" /\ Edit({"cron"})
  /\ \E p \in Presets \cup (IF form.of = "job" THEN {Custom} ELSE {}) : held' = [held EXCEPT !.preset = p]
  /\ UNCHANGED <<typed, more, cats>>

Building == form.of = "job" /\ held.preset = Custom

ChooseFrequency ==
  /\ Building /\ Edit({"cron"})
  /\ held' = [held EXCEPT !.weekly = ~ @]
  /\ UNCHANGED <<typed, more, cats>>

\* The last day stays.
ToggleDay ==
  /\ Building /\ held.weekly /\ Edit({"cron"})
  /\ \E d \in Day :
       held' = [held EXCEPT !.days = IF d \notin @ THEN @ \cup {d} ELSE IF @ = {d} THEN @ ELSE @ \ {d}]
  /\ UNCHANGED <<typed, more, cats>>

TypeCron ==
  /\ Building /\ Edit({"cron"})
  /\ \/ held' = [held EXCEPT !.raw = ~ @]
     \/ held.raw /\ \E c \in {Bad, {"typed"}} : held' = [held EXCEPT !.typed = c]
  /\ UNCHANGED <<typed, more, cats>>

-----------------------------------------------------------------------------
(* Saving                                                                  *)

\* One at a time: submittingRef.
Submit ==
  /\ open /\ sent = NotSent /\ held.site # "none"
  /\ sent' = [step |-> "asked", row |-> OnScreen] /\ late' = {}
  /\ UNCHANGED <<stored, open, held, typed, more, cats, touched, adrift, edits>>

\* createJobAction, updateJobAction and those of the others.
Save ==
  /\ sent.step = "asked" /\ Valid(sent.row)
  /\ record' = sent.row /\ sent' = [sent EXCEPT !.step = "ok"]
  /\ UNCHANGED <<form, drawn, foreign, open, held, typed, more, cats, history>>

\* A schedule that is none, a limit, a site or a row that is gone.
Refuse ==
  /\ sent.step = "asked"
  /\ sent' = [sent EXCEPT !.step = "refused"]
  /\ UNCHANGED <<stored, open, held, typed, more, cats, history>>

\* The page comes with the answer. What was chosen stays for the next opening.
Saved ==
  /\ sent.step = "ok" /\ sent' = NotSent
  /\ open' = FALSE
  /\ IF form.new THEN LeaveBehind(touched) /\ UNCHANGED drawn
     ELSE drawn' = record /\ touched' = {}
          /\ adrift' = {f \in Field \ {"text"} : f \in late \/ record[f] # sent.row[f]}
  /\ UNCHANGED <<form, record, foreign, held, typed, more, cats, late, edits>>

\* The form is reset when its action ends: the text boxes show the page again.
Refused ==
  /\ sent.step = "refused" /\ sent' = NotSent
  /\ typed' = drawn.text /\ touched' = touched \ {"text"}
  /\ UNCHANGED <<stored, open, held, more, cats, late, adrift, edits>>

-----------------------------------------------------------------------------
(* Others                                                                  *)

Foreign ==
  /\ ~ form.new /\ foreign < MaxForeign /\ foreign' = foreign + 1
  /\ \/ record' = [record EXCEPT !.text = "foreign"]
     \/ record' = [record EXCEPT !.choice = "other"]
     \/ form.of # "brief" /\ record' = [record EXCEPT !.cron = {"twice"}]
  /\ UNCHANGED <<form, drawn, open, held, typed, more, cats, sent, history>>

\* A text box that was not touched follows; what is chosen does not.
PageArrives ==
  /\ ~ form.new /\ drawn # record /\ drawn' = record
  /\ typed' = IF "text" \in touched THEN typed ELSE record.text
  /\ adrift' = adrift \cup {f \in Field \ {"text"} : record[f] # drawn[f]}
  /\ UNCHANGED <<form, record, foreign, open, held, more, cats, sent, touched, late, edits>>

Next ==
  \/ Open \/ Close \/ TypeText \/ Choose \/ ChooseSite \/ ConnectSite \/ ToggleMore \/ CategoriesArrive
  \/ ChooseCategory \/ ChoosePreset \/ ChooseFrequency \/ ToggleDay \/ TypeCron
  \/ Submit \/ Save \/ Refuse \/ Saved \/ Refused \/ Foreign \/ PageArrives

Spec == Init /\ [][Next]_vars
=============================================================================
