------------------------------- MODULE Dialog -------------------------------
(***************************************************************************)
(* What a dialog over a stored row shows and saves: the row as the page    *)
(* had it when it was drawn, what the user chose, what he typed.           *)
(***************************************************************************)

CONSTANT Day

VARIABLES
  record,    \* the row stored; of a new one, the last that was made
  drawn,     \* initial: the row as the page was last drawn, or what a new one begins with
  open,
  held,      \* what is chosen
  typed,     \* what the text boxes show
  touched,   \* fields changed since the dialog was opened
  adrift     \* chosen fields that an earlier opening, or another page, left behind

Field == {"site", "cron", "choice", "category", "text"}

\* A schedule is the set of the days it names, or a name for the others.
Custom == {}
Bad == {"bad"}

Composed(h) == IF h.weekly THEN h.days ELSE Day

Cron(h) == IF h.preset # Custom THEN h.preset ELSE IF h.raw THEN h.typed ELSE Composed(h)

OnScreen == [site |-> held.site, cron |-> Cron(held), choice |-> held.choice,
             category |-> held.category, text |-> typed]

Valid(r) == r.cron \notin {{}, Bad}

-----------------------------------------------------------------------------
(* What must hold                                                          *)

\* Each save writes every field. One that the user did not touch in this opening
\* is shown, and so written back, as the page has it, unless an earlier opening
\* or another page left it adrift. A brief goes to a category of its own site,
\* whichever list was on the screen, and no schedule is stored that names no time.
FormsKeepWhatIsThere ==
  /\ open => \A f \in Field \ (touched \cup adrift) : OnScreen[f] = drawn[f]
  /\ record.category \in {"none", record.site}
  /\ Valid(record)
=============================================================================
