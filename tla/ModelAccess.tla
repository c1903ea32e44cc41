----------------------------- MODULE ModelAccess -----------------------------
(***************************************************************************)
(* The tables that the keys and the models of the steps are chosen from,   *)
(* as the user, the operator and the sync of the catalogue change them.    *)
(* The profile of the installation is complete from the seed on, and the   *)
(* preference is left alone by whoever is suspended.                       *)
(***************************************************************************)
EXTENDS Access, SequencesExt

CONSTANTS
  Other,       \* models besides the default ones
  Blind,       \* models that take no image
  MaxChanges   \* bound: changes to keys, settings, profile and catalogue

VARIABLES
  form,        \* saves of settings that read the row and have not written it
  changes      \* how many there were

vars == <<owner, own, platform, site, settings, profile, catalog, form, changes>>

Provider == ToSet(Order)

\* A provider is not what stands for none, and images are one of the steps.
AccessAssumption == /\ Order \in Seq(STRING) /\ NoKey \notin Provider
                    /\ "illustrate" \in Purpose

Model == {Default(p, s) : p \in Provider, s \in Purpose} \cup Provider \X Other

NoSettings == [chosen |-> NoModel, preferOwn |-> TRUE, image |-> FALSE]

Init ==
  /\ owner \in BOOLEAN
  /\ own \in SUBSET (Provider \cup {"tavily"})
  /\ platform \in IF owner THEN SUBSET (Provider \cup {"tavily"}) ELSE SUBSET Provider
  /\ site \in BOOLEAN
  /\ settings = NoSettings
  /\ profile = [s \in Purpose |-> Default("openai", s)]
  /\ catalog = {} /\ form = {} /\ changes = 0

Change == changes < MaxChanges /\ changes' = changes + 1

-----------------------------------------------------------------------------
(* What the user and the operator change                                   *)

CreateCredential ==
  /\ Change
  /\ \E t \in Provider \cup {"tavily"} : t \notin own /\ own' = own \cup {t}
  /\ UNCHANGED <<owner, platform, site, settings, profile, catalog, form>>

\* The last of its type; nobody looks at the settings that name it.
DeleteCredential ==
  /\ Change
  /\ \E t \in own : own' = own \ {t}
  /\ UNCHANGED <<owner, platform, site, settings, profile, catalog, form>>

PlatformKey ==
  /\ Change
  /\ \E t \in Provider : platform' = (platform \ {t}) \cup ({t} \ platform)
  /\ UNCHANGED <<owner, own, site, settings, profile, catalog, form>>

\* The provider's own list answers for the model, or does not answer.
\* The model of images that is in the row is read, then written back.
ReadForText ==
  /\ Change
  /\ \A f \in form : f.of # "text"
  /\ \E m \in {x \in Model : x[1] \in own} \cup {NoModel}, prefer \in BOOLEAN :
       form' = form \cup {[of |-> "text",
                          row |-> [chosen |-> m, preferOwn |-> prefer, image |-> settings.image]]}
  /\ UNCHANGED <<owner, own, platform, site, settings, profile, catalog>>

ReadForImage ==
  /\ Change
  /\ \A f \in form : f.of # "image"
  /\ \E on \in BOOLEAN :
       /\ on => "openai" \in own
       /\ form' = form \cup {[of |-> "image", row |-> [settings EXCEPT !.image = on]]}
  /\ UNCHANGED <<owner, own, platform, site, settings, profile, catalog>>

Save ==
  /\ \E f \in form : settings' = f.row /\ form' = form \ {f}
  /\ UNCHANGED <<owner, own, platform, site, profile, catalog, changes>>

\* setProfileEntryAction: the model of images must be known to take them.
SetProfile ==
  /\ owner /\ Change
  /\ \E s \in Purpose, m \in Model :
       /\ s = "illustrate" => \E r \in catalog : r.model = m /\ r.vision
       /\ profile' = [profile EXCEPT ![s] = m]
  /\ UNCHANGED <<owner, own, platform, site, settings, catalog, form>>

-----------------------------------------------------------------------------
(* The catalogue                                                           *)

\* matchOpenRouterPricing: OpenAI says nothing of images, OpenRouter does.
Sighted(m, answered) ==
  \/ m[1] = "anthropic"
  \/ m \notin Blind /\ (m[1] = "openai" => "openrouter" \in answered)

\* OpenRouter lists for everyone, the others for a key of the installation.
\* Who does not answer keeps its rows; those of the others are replaced, and
\* models a provider has withdrawn are no longer available.
Sync ==
  /\ Change
  /\ \E answered \in SUBSET ({"openrouter"} \cup platform) \cap SUBSET Provider,
        withdrawn \in {{}} \cup {{m} : m \in Provider \X Other} :
       catalog' = {r \in catalog : r.model[1] \notin answered}
             \cup {[model |-> m, vision |-> Sighted(m, answered)] :
                     m \in {x \in Model \ withdrawn : x[1] \in answered}}
  /\ UNCHANGED <<owner, own, platform, site, settings, profile, form>>

Next ==
  \/ CreateCredential \/ DeleteCredential \/ PlatformKey
  \/ ReadForText \/ ReadForImage \/ Save \/ SetProfile \/ Sync

Spec == Init /\ [][Next]_vars
=============================================================================
