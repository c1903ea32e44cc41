------------------------------ MODULE Templates -----------------------------
(***************************************************************************)
(* The templates of a workspace: cloned, edited on the tabs of             *)
(* TemplateEditor or as JSON, saved, deleted while jobs and briefs begin   *)
(* to use them.                                                            *)
(***************************************************************************)
EXTENDS TemplateConfig, Naturals, Sequences

CONSTANTS
  MaxEdits,             \* bound: changes in the editor
  MaxOthers,            \* bound: saves of another session
  MaxLife               \* bound: templates cloned, used, deleted

VARIABLES
  draft,     \* jsonDraft, jsonError
  locale,
  saving,    \* updateTemplateAction
  cloning,   \* cloneTemplateAction: what it read, the slug it took
  deleting,  \* deleteTemplateAction
  spent      \* the bounds used

vars == <<rows, inUse, cfg, draft, locale, saving, cloning, deleting, saved, spent>>
editor == <<cfg, draft, locale, saved>>
requests == <<saving, cloning, deleting>>

TemplatesAssumption ==
  Builtin # Own /\ Own # Copy /\ Copy # Builtin /\ NoRow \notin Id /\ Locale # {}

NoSaving == [step |-> "idle", config |-> Begin(CHOOSE l \in Locale : TRUE), mine |-> FALSE]
NoDraft == [step |-> NoRow, config |-> Begin(CHOOSE l \in Locale : TRUE)]
NoClone == [from |-> NoRow, slug |-> <<>>, config |-> Begin(CHOOSE l \in Locale : TRUE)]

\* The slug of a copy is the one of its source and a number.
Init ==
  /\ \E l \in Locale :
       /\ rows = [i \in Id |-> [here |-> i # Copy, slug |-> <<i>>, config |-> Begin(l)]]
       /\ cfg = Begin(l) /\ locale = l
  /\ inUse = {Builtin}
  /\ draft = NoDraft /\ saving = NoSaving
  /\ cloning = NoClone /\ deleting = NoRow /\ saved = TRUE
  /\ spent = [edits |-> 0, others |-> 0, life |-> 0]

-----------------------------------------------------------------------------
(* The editor                                                              *)

Edit(c) ==
  /\ c # cfg
  /\ spent.edits < MaxEdits /\ spent' = [spent EXCEPT !.edits = @ + 1]
  /\ cfg' = c /\ saved' = FALSE
  /\ UNCHANGED <<rows, inUse, requests>>

\* Only the field changed is written in its block.
SetReview == /\ \E v \in {"on", "off"} : Edit([cfg EXCEPT !.review = v])
             /\ UNCHANGED <<draft, locale>>

SetImages == /\ \E v \in {"on", "off"} : Edit([cfg EXCEPT !.images = v])
             /\ UNCHANGED <<draft, locale>>

\* A text field: any language, with prompts or not.
SetLanguage == /\ \E l \in Locale : Edit([cfg EXCEPT !.language = l])
               /\ UNCHANGED <<draft, locale>>

\* A prompt emptied stays in the config, as an empty text.
SetPrompt == /\ \E p \in {"partial", "full"} : Edit([cfg EXCEPT !.prompts[locale] = p])
             /\ UNCHANGED <<draft, locale>>

Some(c) == IF c.prompts[locale] # NoRow THEN c.prompts[locale]
           ELSE LET have == {l \in Locale : c.prompts[l] # NoRow} IN
                IF have = {} THEN "partial" ELSE c.prompts[CHOOSE l \in have : TRUE]

ChooseLocale(l) ==
  /\ cfg.prompts[l] # NoRow /\ locale' = l
  /\ UNCHANGED <<rows, inUse, cfg, draft, requests, saved, spent>>

AddLocale(l) ==
  /\ cfg.prompts[l] = NoRow
  /\ Edit([cfg EXCEPT !.prompts[l] = Some(cfg)])
  /\ locale' = l /\ UNCHANGED draft

\* The default language is not looked at.
RemoveLocale ==
  LET left == {l \in Locale : cfg.prompts[l] # NoRow} \ {locale} IN
  /\ left # {}
  /\ Edit([cfg EXCEPT !.prompts[locale] = NoRow])
  /\ locale' \in left /\ UNCHANGED draft

\* The text shown is the draft when there is one, however old.
Json == IF draft.step \in {NoRow, "stuck"} THEN cfg ELSE draft.config

TypeJson ==
  /\ \E c \in {[Json EXCEPT !.structured = ~ @], [Json EXCEPT !.review = Unset],
               [Json EXCEPT !.images = Unset]} :
       c # Json /\ Edit(c) /\ draft' = [step |-> "good", config |-> c]
  /\ UNCHANGED locale

\* Nothing else of the editor changes, and Save is disabled.
TypeBadJson ==
  /\ draft.step # "bad"
  /\ draft' = [step |-> "bad", config |-> Json]
  /\ UNCHANGED <<rows, inUse, cfg, locale, requests, saved, spent>>

-----------------------------------------------------------------------------
(* The actions                                                             *)

Save ==
  /\ saving.step = "idle" /\ draft.step \notin {"bad", "stuck"}
  /\ saving' = [step |-> "asked", config |-> cfg, mine |-> FALSE]
  /\ UNCHANGED <<rows, inUse, editor, cloning, deleting, spent>>

Valid(c) == \A l \in Locale : c.prompts[l] # "partial"

Update ==
  /\ saving.step = "asked"
  /\ IF Own \in Here /\ Valid(saving.config)
     THEN /\ rows' = [rows EXCEPT ![Own].config = Parsed(saving.config)]
          /\ saving' = [saving EXCEPT !.step = "saved", !.mine = TRUE]
     ELSE saving' = [saving EXCEPT !.step = "refused"] /\ UNCHANGED rows
  /\ UNCHANGED <<inUse, editor, cloning, deleting, spent>>

\* The draft goes, the error of a draft typed meanwhile stays.
Answered ==
  /\ saving.step \in {"saved", "refused"}
  /\ saving' = NoSaving
  /\ IF saving.step = "saved"
     THEN /\ draft' = IF draft.step \in {"bad", "stuck"} THEN [NoDraft EXCEPT !.step = "stuck"] ELSE NoDraft
          /\ saved' = (saving.mine /\ cfg = saving.config)
     ELSE UNCHANGED <<draft, saved>>
  /\ UNCHANGED <<rows, inUse, cfg, locale, cloning, deleting, spent>>

\* Another session saves the whole config it has.
OtherSave ==
  /\ Own \in Here
  /\ spent.others < MaxOthers /\ spent' = [spent EXCEPT !.others = @ + 1]
  /\ rows' = [rows EXCEPT ![Own].config.review = IF @ = "on" THEN "off" ELSE "on"]
  /\ saving' = [saving EXCEPT !.mine = FALSE] /\ saved' = FALSE
  /\ UNCHANGED <<inUse, cfg, draft, locale, cloning, deleting>>

Living == spent.life < MaxLife /\ spent' = [spent EXCEPT !.life = @ + 1]

\* The slugs are read, and the first free one taken.
AskClone(i) ==
  LET taken == {rows[j].slug : j \in Here}
      free(n) == Append(rows[i].slug, n) \notin taken
  IN
  /\ cloning = NoClone /\ i \in Here /\ Copy \notin Here
  /\ Living
  /\ cloning' = [from |-> i, config |-> rows[i].config,
                slug |-> Append(rows[i].slug, IF free(1) THEN 1 ELSE 2)]
  /\ UNCHANGED <<rows, inUse, editor, saving, deleting>>

Row(c) == [here |-> TRUE, slug |-> c.slug, config |-> c.config]

\* The index of the slugs refuses a second one.
Clone ==
  /\ cloning # NoClone
  /\ cloning' = NoClone
  /\ rows' = IF \E i \in Here : rows[i].slug = cloning.slug THEN rows
             ELSE [rows EXCEPT ![Copy] = Row(cloning)]
  /\ UNCHANGED <<inUse, editor, saving, deleting, spent>>

\* Another tab clones the same builtin at the same time, in one request.
OtherClone ==
  /\ Own \notin Here /\ cloning.from = Builtin
  /\ Living
  /\ rows' = [rows EXCEPT ![Own] = Row(cloning)]
  /\ UNCHANGED <<inUse, editor, requests>>

\* A job, a brief or an autopilot of a template.
Use(i) ==
  /\ i \in Here \ inUse
  /\ Living
  /\ inUse' = inUse \cup {i}
  /\ UNCHANGED <<rows, editor, requests>>

AskDelete(i) ==
  /\ deleting = NoRow /\ i \in Here \ inUse
  /\ Living
  /\ deleting' = i
  /\ UNCHANGED <<rows, inUse, editor, saving, cloning>>

\* The foreign keys refuse what the check did not see.
Delete ==
  /\ deleting # NoRow
  /\ deleting' = NoRow
  /\ rows' = IF deleting \in inUse \cup {Builtin} THEN rows ELSE [rows EXCEPT ![deleting].here = FALSE]
  /\ saved' = (saved /\ rows'[Own].here)
  /\ saving' = [saving EXCEPT !.mine = @ /\ rows'[Own].here]
  /\ UNCHANGED <<inUse, cfg, draft, locale, cloning, spent>>

Next ==
  \/ SetReview \/ SetImages \/ SetLanguage \/ SetPrompt \/ RemoveLocale
  \/ \E l \in Locale : ChooseLocale(l) \/ AddLocale(l)
  \/ TypeJson \/ TypeBadJson \/ Save \/ Update \/ Answered \/ OtherSave
  \/ Clone \/ OtherClone \/ Delete
  \/ \E i \in Id : AskClone(i) \/ Use(i) \/ AskDelete(i)

Spec == Init /\ [][Next]_vars
=============================================================================
