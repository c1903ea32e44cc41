------------------------------- MODULE Access -------------------------------
(***************************************************************************)
(* Which key and which model each step of the pipeline uses. The worker    *)
(* decides when the step runs (resolveLlmCredential); the panel decides    *)
(* before, from the same tables, whether the workspace may run at all      *)
(* (getWorkspaceReadiness). The two are written apart and must agree.      *)
(***************************************************************************)
EXTENDS Naturals, Sequences, FiniteSetsExt

CONSTANTS
  Order,       \* providers, the preferred first
  Purpose      \* steps that need a model; "illustrate" shows it images

VARIABLES
  owner,       \* the workspace is that of ADMIN_EMAIL
  own,         \* types of the credentials of the workspace
  platform,    \* types of those of the installation
  site,        \* a site is connected
  settings,    \* workspace_ai_settings, or NoSettings
  profile,     \* the model of each step
  catalog      \* rows of model_catalog

NoKey == "none"
NoModel == <<>>

\* byokDefaultModel: a model for text, one that takes images.
Default(p, step) ==
  IF step = "illustrate" /\ p # "openai" THEN <<p, "vision">> ELSE <<p, "text">>

-----------------------------------------------------------------------------
(* The worker                                                              *)

\* preferredOwnLlmCredential
FirstOwn ==
  LET mine == {i \in DOMAIN Order : Order[i] \in own} IN
  IF mine = {} THEN NoKey ELSE Order[Min(mine)]

Failed == [key |-> NoKey, model |-> NoModel]
Mine(m) == [key |-> "own", model |-> m]
System(m) == [key |-> "platform", model |-> m]

\* canUsePlatformKeys
MayUsePlatform == owner

\* Mutant: a removed key gives way to another one.
ByokOfAny(step) ==
  IF settings.chosen # NoModel /\ settings.chosen[1] \in own THEN Mine(settings.chosen)
  ELSE IF FirstOwn # NoKey THEN Mine(Default(FirstOwn, step)) ELSE Failed

\* resolveByokLlmCredential: the provider that was chosen, and no other.
Byok(step) ==
  IF settings.chosen # NoModel
  THEN IF settings.chosen[1] \in own THEN Mine(settings.chosen) ELSE Failed
  ELSE IF FirstOwn # NoKey THEN Mine(Default(FirstOwn, step)) ELSE Failed

\* resolveLlmCredential
Resolve(step) ==
  LET task == profile[step]
      system == MayUsePlatform /\ task[1] \in platform
  IN  IF system /\ ~ settings.preferOwn THEN System(task)
      ELSE IF Byok(step) # Failed THEN Byok(step)
      ELSE IF system /\ settings.chosen = NoModel THEN System(task)
      ELSE Failed

\* resolveSearchClient
SearchKey == "tavily" \in own \/ (MayUsePlatform /\ "tavily" \in platform)

\* resolveImageGenProvider
ImageKey == settings.image /\ ("openai" \in own \/ (MayUsePlatform /\ "openai" \in platform))

-----------------------------------------------------------------------------
(* The panel                                                               *)

Available == IF owner THEN own \cup platform ELSE own

ByokProvider == IF settings.chosen # NoModel THEN settings.chosen[1] ELSE FirstOwn

ForceByok == ~ owner \/ settings.preferOwn

\* The model chosen by the user, else the default of the provider.
Chosen(step) == IF settings.chosen # NoModel THEN settings.chosen ELSE Default(ByokProvider, step)

\* resolved: what the panel believes a step will use.
Expected(step) ==
  LET task == profile[step]
  IN  IF ForceByok THEN IF ByokProvider = NoKey THEN Failed ELSE Mine(Chosen(step))
      ELSE IF task[1] \in Available \/ ByokProvider = NoKey THEN System(task)
      ELSE Mine(Chosen(step))

HasKey(e) == e.model[1] \in IF e.key = "own" THEN own ELSE Available

\* A provider the catalogue does not cover cannot be judged.
Covered(p) == \E r \in catalog : r.model[1] = p
Listed(m) == \E r \in catalog : r.model = m
TakesImages(m) == \E r \in catalog : r.model = m /\ r.vision

ModelRefused(step) ==
  LET e == Expected(step)
  IN  /\ e # Failed /\ HasKey(e) /\ Covered(e.model[1])
      /\ ~ Listed(e.model) \/ (step = "illustrate" /\ ~ TakesImages(e.model))

KeyMissing(step) == Expected(step) = Failed \/ ~ HasKey(Expected(step))

\* No issue blocks.
Ready ==
  /\ site /\ "tavily" \in Available
  /\ \A s \in Purpose : ~ KeyMissing(s) /\ ~ ModelRefused(s)

NoImageGenerator == ~ settings.image \/ "openai" \notin Available

-----------------------------------------------------------------------------
(* Properties                                                              *)

\* The owner prefers the installation's keys, but only the workspace has a key
\* of the provider in the profile: the panel counts it, the worker does not.
Miscounted ==
  /\ owner /\ ~ settings.preferOwn
  /\ \E s \in Purpose : profile[s][1] \in own \ platform

\* "the same rule as the worker" (readiness.ts 76, 139): what the panel lets
\* run finds, at every step, the key and the model the panel judged, a key to
\* search, and no blind model to choose images where the catalogue knows; and
\* the panel announces posts without generated images exactly when the worker
\* will have none. A client is kept out only when a step would fail or the
\* catalogue speaks against a model.
PanelKnowsWorker ==
  /\ Ready /\ ~ Miscounted =>
       /\ SearchKey
       /\ \A s \in Purpose : Resolve(s) = Expected(s)
       /\ LET m == Resolve("illustrate").model IN Covered(m[1]) => TakesImages(m)
  /\ NoImageGenerator <=> ~ ImageKey
  /\ ~ owner /\ site /\ SearchKey /\ (\A s \in Purpose : Resolve(s) # Failed /\ ~ ModelRefused(s)) => Ready
=============================================================================
