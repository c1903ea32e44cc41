------------------------------ MODULE Pipeline ------------------------------
(***************************************************************************)
(* runPipeline for the posts of one run: sources, pre-check, writing,      *)
(* verification, deterministic validation, repair, and what post-process.ts *)
(* and retryRunItemAction do with its result. A value is a code or a coupon *)
(* of the two verbatim lists of a template; a call of a model is one unit   *)
(* of the run's token budget.                                              *)
(***************************************************************************)
EXTENDS Backing, FiniteSets

CONSTANTS
  Target,    \* the posts of the run
  Value,     \* values a model may write
  Counts,    \* how many sources a search may find
  Configs,   \* the jobs: [update, eco, skip, widget, extract : BOOLEAN]
  MaxTries,  \* bound: runs a post is tried in
  MaxFaults  \* bound: exceptions

VARIABLES
  kept,      \* run_items: the sources of the post's last failure
  last,      \* post_source_state.lastExtractedData
  faults     \* bounded

vars == <<conf, it, kept, last, spent, recorded, lost, faults>>
accounts == <<spent, recorded, lost>>

\* A post is written, verified where values are extracted, and repaired once.
PipelineAssumption ==
  /\ IsFiniteSet(Target) /\ Counts \subseteq Nat
  /\ Configs \subseteq [update : BOOLEAN, eco : BOOLEAN, skip : BOOLEAN, widget : BOOLEAN,
                       extract : BOOLEAN]
  /\ Budget \in Nat /\ Workers \in Nat \ {0} /\ MinSources \in Nat
  /\ CallsOfAPost = IF Value = {} THEN 2 ELSE 3

NoSources == [values |-> {}, count |-> 0]
Lists == [active : SUBSET Value, expired : SUBSET Value]
NoLists == [active |-> {}, expired |-> {}]

\* What the model returns: the lists, noDataFound, and whether the HTML and the
\* title pass the checks of their form.
Draft == [lists : Lists, none : BOOLEAN, sound : BOOLEAN]
NoDraft == [lists |-> NoLists, none |-> FALSE, sound |-> FALSE]

Fresh(n) == [pc |-> "none", tries |-> n, sources |-> NoSources, prompt |-> {},
             draft |-> NoDraft, calls |-> 0]

Init ==
  /\ conf \in Configs
  /\ it = [i \in Target |-> Fresh(0)]
  /\ kept = [i \in Target |-> NoSources]
  /\ last = [i \in Target |-> NoLists]
  /\ spent = 0 /\ recorded = 0 /\ lost = 0 /\ faults = 0

Running == {i \in Target : it[i].pc \notin {"none", "done", "failed"}}
Become(i, r) == it' = [it EXCEPT ![i] = r]
Quiet == UNCHANGED <<conf, kept, last, faults>>

\* Every end goes through the record of the item.
End(i, s) == Become(i, [it[i] EXCEPT !.pc = s])

-----------------------------------------------------------------------------
(* Sources                                                                 *)

\* A retry takes the sources of the failure it repeats.
Start(i) ==
  /\ it[i].pc = "none" /\ Cardinality(Running) < Workers
  /\ Become(i, IF kept[i].count > 0
               THEN [Fresh(it[i].tries + 1) EXCEPT !.pc = "check", !.sources = kept[i]]
               ELSE [Fresh(it[i].tries + 1) EXCEPT !.pc = "search"])
  /\ Quiet /\ UNCHANGED accounts

\* Search, selection and extract: the values that the text of the sources has.
Search(i) ==
  /\ it[i].pc = "search"
  /\ \/ \E S \in [values : SUBSET Value, count : Counts] :
          /\ S.count = 0 => S.values = {}
          /\ Become(i, [it[i] EXCEPT !.pc = "check", !.sources = S])
     \/ conf.update /\ conf.skip /\ End(i, "skipped_sources_unchanged")
  /\ Quiet /\ UNCHANGED accounts

PreChecked(i) == conf.eco /\ conf.update /\ conf.extract /\ Values(last[i]) # {}

\* prePassCheck: an active value that is gone, or one that looks like a new code.
Changed(i, new) == ~ (last[i].active \subseteq it[i].sources.values) \/ new # {}

\* Unchanged: the block is rendered from the last data, without a model.
\* Changed: the model sees what is around the values, up to a length.
PreCheck(i) ==
  /\ it[i].pc = "check" /\ PreChecked(i)
  /\ \E new \in SUBSET (it[i].sources.values \ Values(last[i])) :
       IF Changed(i, new)
       THEN \E P \in SUBSET it[i].sources.values :
              Become(i, [it[i] EXCEPT !.pc = "write", !.prompt = P])
       ELSE IF conf.widget
       THEN Become(i, [it[i] EXCEPT !.pc = "refreshed", !.draft.lists = last[i]])
       ELSE End(i, "no_change")
  /\ Quiet /\ UNCHANGED accounts

\* A template may have no prompt for the language.
WholeContext(i) ==
  /\ it[i].pc = "check" /\ ~ PreChecked(i)
  /\ \/ Become(i, [it[i] EXCEPT !.pc = "write", !.prompt = it[i].sources.values])
     \/ End(i, "llm_failed")
  /\ Quiet /\ UNCHANGED accounts

-----------------------------------------------------------------------------
(* Calls of a model                                                        *)

\* A call that fails has no tokens.
Pay(i, n, r) ==
  /\ Become(i, [r EXCEPT !.calls = @ + n])
  /\ spent' = spent + n
  /\ UNCHANGED <<recorded, lost>>

Refuse(i) == OutOfBudget /\ End(i, "budget_exceeded") /\ UNCHANGED accounts

Verified(d) == ~ conf.eco /\ conf.extract /\ Values(d.lists) # {}

Write(i) ==
  /\ it[i].pc = "write"
  /\ \/ Refuse(i)
     \/ /\ ~ OutOfBudget
        /\ \/ \E n \in 0 .. 1 : Pay(i, n, [it[i] EXCEPT !.pc = "llm_failed"])
           \/ conf.update /\ Pay(i, 1, [it[i] EXCEPT !.pc = "no_change"])
           \/ \E d \in Draft :
                Pay(i, 1, [it[i] EXCEPT !.pc = IF Verified(d) THEN "verify" ELSE "validate",
                                        !.draft = d])
  /\ Quiet

\* A verification that fails lets everything through; else what is not
\* approved, list by list, is taken out.
Verify(i) ==
  /\ it[i].pc = "verify"
  /\ \/ Refuse(i)
     \/ /\ ~ OutOfBudget
        /\ \/ \E n \in 0 .. 1 : Pay(i, n, [it[i] EXCEPT !.pc = "validate"])
           \/ \E A \in SUBSET it[i].draft.lists.active, E \in SUBSET it[i].draft.lists.expired :
                Pay(i, 1, [it[i] EXCEPT !.pc = "validate",
                                        !.draft.lists = [active |-> A, expired |-> E]])
  /\ Quiet

\* The lists without what the text does not have, each value in its first list.
Checked(l, text) == [active |-> l.active \cap text, expired |-> (l.expired \cap text) \ l.active]

\* Mutant: against all the sources, not what the model saw.
CheckedInSources(i, d) == [d EXCEPT !.lists = Checked(@, it[i].sources.values)]

Validated(i, d) == IF conf.extract THEN [d EXCEPT !.lists = Checked(@, it[i].prompt)] ELSE d

Passes(i, d) ==
  /\ d.sound
  /\ conf.extract =>
       /\ it[i].sources.count > 0
       /\ d.none => it[i].sources.count >= MinSources
       /\ ~ d.none => Values(Validated(i, d).lists) # {}

Validate(i) ==
  /\ it[i].pc = "validate"
  /\ LET d == it[i].draft
     IN  Become(i, [it[i] EXCEPT !.pc = IF Passes(i, d) THEN "ready" ELSE "repair",
                                 !.draft = Validated(i, d)])
  /\ Quiet /\ UNCHANGED accounts

\* Mutant: repaired until it passes.
RepairAgain(i) ==
  /\ it[i].pc = "repair"
  /\ \/ Refuse(i)
     \/ /\ ~ OutOfBudget
        /\ \E d \in Draft :
             Pay(i, 1, IF Passes(i, d) THEN [it[i] EXCEPT !.pc = "ready", !.draft = Validated(i, d)]
                       ELSE it[i])
  /\ Quiet

\* One repair, validated like the draft but not verified again.
Repair(i) ==
  /\ it[i].pc = "repair"
  /\ \/ Refuse(i)
     \/ /\ ~ OutOfBudget
        /\ \/ \E n \in 0 .. 1 : Pay(i, n, [it[i] EXCEPT !.pc = "validation_failed"])
           \/ \E d \in Draft :
                Pay(i, 1, IF Passes(i, d)
                          THEN [it[i] EXCEPT !.pc = "ready", !.draft = Validated(i, d)]
                          ELSE [it[i] EXCEPT !.pc = "validation_failed"])
  /\ Quiet

-----------------------------------------------------------------------------
(* handlePostProcess after the pipeline                                    *)

Published == {"ready", "refreshed"}
Failures == {"llm_failed", "validation_failed", "budget_exceeded"}

CallsOf(i) == it[i].calls

\* updatePost, the state of the post, the item, and its calls. WordPress may
\* refuse: the item can be retried with the same sources.
Record(i) ==
  /\ it[i].pc \in Published \cup Failures \cup {"no_change", "skipped_sources_unchanged"}
  /\ \E put \in BOOLEAN :
       /\ ~ put => it[i].pc \in Published
       /\ LET failed == ~ put \/ it[i].pc \in Failures
          IN  /\ it' = [it EXCEPT ![i] = [Fresh(@.tries) EXCEPT !.pc = IF failed THEN "failed" ELSE "done"]]
              /\ kept' = [kept EXCEPT ![i] = IF failed THEN it[i].sources ELSE @]
              /\ last' = [last EXCEPT ![i] = IF put /\ it[i].pc \in Published /\ conf.extract
                                             THEN it[i].draft.lists ELSE @]
  /\ recorded' = recorded + CallsOf(i)
  /\ UNCHANGED <<conf, spent, lost, faults>>

\* An exception is recorded as a failed item, without sources and calls.
Throws(i) ==
  /\ i \in Running /\ faults < MaxFaults
  /\ faults' = faults + 1
  /\ Become(i, [Fresh(it[i].tries) EXCEPT !.pc = "failed"])
  /\ kept' = [kept EXCEPT ![i] = NoSources]
  /\ lost' = lost + it[i].calls
  /\ UNCHANGED <<conf, last, spent, recorded>>

\* retryRunItemAction, or the next run of the job: a run of its own, with its
\* own budget, here once the run before it is over.
NextRun(i) ==
  /\ \A j \in Target : it[j].pc \in {"done", "failed"}
  /\ it[i].tries < MaxTries
  /\ it' = [j \in Target |-> IF j = i THEN Fresh(it[i].tries) ELSE [it[j] EXCEPT !.pc = "done"]]
  /\ kept' = IF it[i].pc = "failed" THEN kept ELSE [kept EXCEPT ![i] = NoSources]
  /\ spent' = 0 /\ recorded' = 0 /\ lost' = 0
  /\ UNCHANGED <<conf, last, faults>>

Next ==
  \E i \in Target :
    \/ Start(i) \/ Search(i) \/ PreCheck(i) \/ WholeContext(i)
    \/ Write(i) \/ Verify(i) \/ Validate(i) \/ Repair(i)
    \/ Record(i) \/ Throws(i) \/ NextRun(i)

Spec == Init /\ [][Next]_vars

-----------------------------------------------------------------------------
(* Properties                                                              *)

TypeOK ==
  /\ \A i \in Target : /\ it[i].draft \in Draft /\ it[i].prompt \subseteq it[i].sources.values
                     /\ it[i].calls \in 0 .. 3 /\ it[i].tries \in 0 .. MaxTries
  /\ kept \in [Target -> [values : SUBSET Value, count : Counts \cup {0}]]
  /\ last \in [Target -> Lists]
=============================================================================
