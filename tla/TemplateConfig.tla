--------------------------- MODULE TemplateConfig ---------------------------
(***************************************************************************)
(* The templates of a workspace, as the tabs of the editor show them and   *)
(* as the worker reads them. Of a config: whether it extracts data, the    *)
(* review (which stands for the blocks whose default depends on it), the   *)
(* images (whose default the schema writes), the prompts and the default   *)
(* language.                                                               *)
(***************************************************************************)

CONSTANTS
  Builtin, Own, Copy,   \* the rows
  Locale

VARIABLES
  rows,      \* content_templates
  inUse,     \* templates of jobs and briefs
  cfg,       \* the state of the editor, open on Own
  saved      \* what the editor shows is what it was told is saved

Id == {Builtin, Own, Copy}
Unset == "unset"
NoRow == "none"

\* A locale has no prompts, all that the schema asks for (full), or not (partial).
Begin(l) == [structured |-> FALSE, review |-> Unset, images |-> "off",
             prompts |-> [m \in Locale |-> IF m = l THEN "full" ELSE NoRow], language |-> l]

Here == {i \in Id : rows[i].here}

\* Mutant: the schema has a default of its own for the review.
ParsedFilled(c) == [c EXCEPT !.images = IF @ = Unset THEN "off" ELSE @,
                             !.review = IF @ = Unset THEN "on" ELSE @]

\* parseTemplateConfig: what the schema fills in is what is stored.
Parsed(c) == [c EXCEPT !.images = IF @ = Unset THEN "off" ELSE @]

-----------------------------------------------------------------------------
(* What must hold                                                          *)

\* The tabs, with the defaults of policy.ts for what the config leaves out.
Shown(c) == [review |-> IF c.review = Unset THEN ~ c.structured ELSE c.review = "on",
             images |-> c.images = "on",
             prompts |-> {l \in Locale : c.prompts[l] # NoRow}]

\* The worker: parseTemplateConfig again, isReviewEnabled, promptsForLanguage.
Done(c) ==
  LET p == Parsed(c) IN
  [review |-> IF p.review = Unset THEN ~ p.structured ELSE p.review = "on",
   images |-> p.images = "on",
   prompts |-> {l \in Locale : p.prompts[l] = "full"}]

\* What an editor shows after it was told that it is saved, and until it or
\* another session changes something, is what the worker does; what a job or a
\* brief uses exists, two templates never share a slug, and nothing changes a
\* builtin one.
TemplatesKeepTheirWord ==
  /\ saved => Shown(cfg) = Done(rows[Own].config)
  /\ inUse \subseteq Here
  /\ \A i, j \in Here : i # j => rows[i].slug # rows[j].slug
  /\ \E l \in Locale : rows[Builtin].config = Begin(l)
=============================================================================
