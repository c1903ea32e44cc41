---------------------------- MODULE PipelineProofs ----------------------------
(***************************************************************************)
(* What is published is backed by sources, and a run stays within its      *)
(* token budget but for the posts under way, for any number of posts,      *)
(* values, workers and jobs. What the clients of WordPress, of the search  *)
(* and of the models tell of their calls is so, for any number of calls.   *)
(***************************************************************************)
EXTENDS Pipeline, Calls, FiniteSetTheorems, TLAPS

CONSTANTS MaxCalls, MaxUnsure     \* Outbound
VARIABLES call, throttle, marking \* Outbound

O == INSTANCE Outbound

-----------------------------------------------------------------------------
(* Types                                                                   *)

Step == {"none", "search", "check", "write", "verify", "validate", "repair", "ready", "refreshed",
         "no_change", "skipped_sources_unchanged", "llm_failed", "validation_failed",
         "budget_exceeded", "done", "failed"}
Found == [values : SUBSET Value, count : Nat]
Post == [pc : Step, tries : Nat, sources : Found, prompt : SUBSET Value, draft : Draft, calls : Nat]
Job == [update : BOOLEAN, eco : BOOLEAN, skip : BOOLEAN, widget : BOOLEAN, extract : BOOLEAN]

Types ==
  /\ conf \in Job
  /\ it \in [Target -> Post]
  /\ kept \in [Target -> Found]
  /\ last \in [Target -> Lists]
  /\ spent \in Nat /\ recorded \in Nat /\ lost \in Nat

-----------------------------------------------------------------------------
(* Calls                                                                   *)

\* What a post has called when it is at a step: it is written, verified where
\* values are extracted, repaired.
Idle == {"none", "done", "failed"}
Uncalled == Idle \cup {"search", "check", "write", "refreshed", "skipped_sources_unchanged"}
BeforeRepair == IF Value = {} THEN 1 ELSE 2

CallsAreAt(p) ==
  /\ p.calls <= CallsOfAPost
  /\ p.pc \in Uncalled => p.calls = 0
  /\ p.pc = "verify" => p.calls = 1 /\ Value # {}
  /\ p.pc \in {"validate", "repair"} => p.calls <= BeforeRepair

\* The calls that no row of llm_calls shows.
Unrecorded == {t \in Target \X (1 .. 3) : t[2] <= it[t[1]].calls}

BudgetInv ==
  /\ \A i \in Target : CallsAreAt(it[i])
  /\ Cardinality(Running) <= Workers
  /\ spent = recorded + lost + Cardinality(Unrecorded)
  /\ SpendBounded

-----------------------------------------------------------------------------
(* Steps                                                                   *)

\* What PublishedIsBacked says of a post.
IsBacked(p) ==
  LET l == p.draft.lists
  IN  /\ p.pc = "refreshed" => l.active \subseteq p.sources.values
      /\ p.pc = "ready" /\ conf.extract =>
           /\ Values(l) \subseteq p.prompt
           /\ l.active \cap l.expired = {}
           /\ Values(l) = {} => p.draft.none
           /\ p.draft.none => p.sources.count >= MinSources

\* A post goes on, with a call or without.
Advance(i, p, n) ==
  /\ it' = [it EXCEPT ![i] = p] /\ spent' = spent + n /\ p.calls = it[i].calls + n
  /\ UNCHANGED <<conf, kept, last, recorded, lost>>
  /\ n = 1 => recorded < Budget
  /\ it[i].pc \in Idle => Cardinality(Running) < Workers
  /\ CallsAreAt(p) /\ IsBacked(p)

IInv == Types /\ PublishedIsBacked /\ BudgetInv

LEMMA PostsAre ==
  ASSUME Types, NEW i \in Target, NEW p \in Post, it' = [it EXCEPT ![i] = p]
  PROVE  /\ it' \in [Target -> Post]
         /\ \A j \in Target : it'[j] = IF j = i THEN p ELSE it[j]
BY DEF Types

LEMMA FoundPost ==
  ASSUME Types, NEW i \in Target
  PROVE  it[i] \in Post
BY DEF Types

LEMMA OnItsWay ==
  ASSUME NEW x \in Post, NEW l \in Step, NEW S \in Found
  PROVE  /\ \E p \in Post : p = [x EXCEPT !.pc = l, !.sources = S] /\ p.pc = l /\ p.calls = x.calls
         /\ \E p \in Post : p = [x EXCEPT !.pc = l] /\ p.pc = l /\ p.calls = x.calls
<1>1. [x EXCEPT !.pc = l, !.sources = S] \in Post
  BY DEF Post
<1>2. [x EXCEPT !.pc = l] \in Post
  BY DEF Post
<1> QED BY <1>1, <1>2 DEF Post

LEMMA StartAdvances ==
  ASSUME PipelineAssumption, Types, BudgetInv, NEW i \in Target, Start(i)
  PROVE  \E p \in Post, n \in 0 .. 1 : Advance(i, p, n)
<1>1. it[i] \in Post /\ it[i].pc = "none" /\ it[i].calls = 0 /\ kept[i] \in Found
  BY FoundPost DEF Types, BudgetInv, CallsAreAt, Uncalled, Idle, Start, Post
<1>2. PICK m \in Nat : m = it[i].tries + 1
  BY <1>1 DEF Post
<1>3. NoSources \in Found /\ NoDraft \in Draft
  BY DEF NoSources, NoDraft, Found, Draft, NoLists, Lists
<1>4. Fresh(m) \in Post /\ Fresh(m).calls = 0
  BY <1>3 DEF Fresh, Post, Step
<1>5. ASSUME NEW p \in Post, it' = [it EXCEPT ![i] = p], p.pc \in {"check", "search"}, p.calls = 0
      PROVE  Advance(i, p, 0)
  <2>1. p.calls = it[i].calls + 0 /\ spent' = spent + 0
    BY <1>1, <1>5 DEF Start, accounts, Types
  <2>2. CallsAreAt(p)
    BY <1>5 DEF CallsAreAt, PipelineAssumption
  <2>3. IsBacked(p)
    BY <1>5 DEF IsBacked
  <2>4. Cardinality(Running) < Workers /\ UNCHANGED <<conf, kept, last, recorded, lost>>
    BY DEF Start, Quiet, accounts
  <2> QED BY <1>5, <2>1, <2>2, <2>3, <2>4 DEF Advance
<1>6. PICK x \in Post : x = Fresh(m) /\ x.calls = 0
  BY <1>4
<1> "check" \in Step /\ "search" \in Step
  BY DEF Step
<1>7. CASE kept[i].count > 0
  <2>1. PICK p \in Post : p = [x EXCEPT !.pc = "check", !.sources = kept[i]] /\ p.pc = "check" /\ p.calls = 0
    <3>1. PICK S \in Found : S = kept[i]
      BY <1>1
    <3>2. \E p \in Post : p = [x EXCEPT !.pc = "check", !.sources = S] /\ p.pc = "check" /\ p.calls = x.calls
      BY OnItsWay, "check" \in Step
    <3> QED BY <1>6, <3>1, <3>2
  <2>2. it' = [it EXCEPT ![i] = p]
    BY <1>2, <1>6, <1>7, <2>1 DEF Start, Become
  <2>3. Advance(i, p, 0)
    BY <1>5, <2>1, <2>2
  <2> QED BY <2>3
<1>8. CASE ~ (kept[i].count > 0)
  <2>1. PICK p \in Post : p = [x EXCEPT !.pc = "search"] /\ p.pc = "search" /\ p.calls = 0
    BY <1>3, <1>6, OnItsWay, "search" \in Step
  <2>2. it' = [it EXCEPT ![i] = p]
    BY <1>2, <1>6, <1>8, <2>1 DEF Start, Become
  <2>3. Advance(i, p, 0)
    BY <1>5, <2>1, <2>2
  <2> QED BY <2>3
<1> QED BY <1>7, <1>8

\* A step without a model, and one that calls it and is answered.
LEMMA NoCall ==
  ASSUME Types, BudgetInv, PipelineAssumption, NEW i \in Target, it[i].pc \notin Idle,
         NEW p \in Post, it' = [it EXCEPT ![i] = p], p.calls = it[i].calls,
         UNCHANGED <<conf, kept, last, spent, recorded, lost>>,
         p.pc \in {"check", "write", "refreshed", "skipped_sources_unchanged"} =>
           it[i].pc \in Uncalled,
         p.pc # "verify",
         p.pc \in {"validate", "repair"} => it[i].pc = "validate",
         p.pc \notin {"none", "done", "failed", "search"},
         IsBacked(p)
  PROVE  Advance(i, p, 0)
<1>1. it[i] \in Post /\ CallsAreAt(it[i])
  BY FoundPost DEF BudgetInv
<1>2. CallsAreAt(p)
  BY <1>1 DEF CallsAreAt, Uncalled, Idle
<1>3. p.calls = it[i].calls + 0 /\ spent' = spent + 0
  BY <1>1 DEF Types, Post
<1> QED BY <1>2, <1>3 DEF Advance

LEMMA SearchAdvances ==
  ASSUME PipelineAssumption, Types, BudgetInv, NEW i \in Target, Search(i)
  PROVE  \E p \in Post, n \in 0 .. 1 : Advance(i, p, n)
<1>1. it[i] \in Post /\ it[i].pc = "search"
  BY FoundPost DEF Search
<1>2. UNCHANGED <<conf, kept, last, spent, recorded, lost>>
  BY DEF Search, Quiet, accounts
<1>3. CASE \E S \in [values : SUBSET Value, count : Counts] :
             Become(i, [it[i] EXCEPT !.pc = "check", !.sources = S])
  <2>1. PICK S \in Found : it' = [it EXCEPT ![i] = [it[i] EXCEPT !.pc = "check", !.sources = S]]
    BY <1>3 DEF Become, Found, PipelineAssumption
  <2> DEFINE p == [it[i] EXCEPT !.pc = "check", !.sources = S]
  <2>2. p \in Post /\ p.pc = "check" /\ p.calls = it[i].calls
    BY <1>1 DEF Post, Step
  <2>3. IsBacked(p) /\ it' = [it EXCEPT ![i] = p]
    BY <2>1, <2>2 DEF IsBacked
  <2> HIDE DEF p
  <2>4. Advance(i, p, 0)
    BY <1>1, <1>2, <2>2, <2>3, NoCall DEF Uncalled, Idle
  <2> QED BY <2>2, <2>4
<1>4. CASE End(i, "skipped_sources_unchanged")
  <2> DEFINE p == [it[i] EXCEPT !.pc = "skipped_sources_unchanged"]
  <2>2. p \in Post /\ p.pc = "skipped_sources_unchanged" /\ p.calls = it[i].calls
    BY <1>1 DEF Post, Step
  <2>3. IsBacked(p) /\ it' = [it EXCEPT ![i] = p]
    BY <1>4, <2>2 DEF IsBacked, End, Become
  <2> HIDE DEF p
  <2>4. Advance(i, p, 0)
    BY <1>1, <1>2, <2>2, <2>3, NoCall DEF Uncalled, Idle
  <2> QED BY <2>2, <2>4
<1> QED BY <1>3, <1>4 DEF Search

LEMMA CheckAdvances ==
  ASSUME PipelineAssumption, Types, BudgetInv, NEW i \in Target, PreCheck(i) \/ WholeContext(i)
  PROVE  \E p \in Post, n \in 0 .. 1 : Advance(i, p, n)
<1>1. it[i] \in Post /\ it[i].pc = "check" /\ last[i] \in Lists
  BY FoundPost DEF PreCheck, WholeContext, Types
<1>2. UNCHANGED <<conf, kept, last, spent, recorded, lost>>
  BY DEF PreCheck, WholeContext, Quiet, accounts
<1>3. ASSUME NEW P \in SUBSET it[i].sources.values,
             Become(i, [it[i] EXCEPT !.pc = "write", !.prompt = P])
      PROVE  \E p \in Post, n \in 0 .. 1 : Advance(i, p, n)
  <2> DEFINE p == [it[i] EXCEPT !.pc = "write", !.prompt = P]
  <2>1. P \in SUBSET Value
    BY <1>1 DEF Post, Found
  <2>2. p \in Post /\ p.pc = "write" /\ p.calls = it[i].calls
    BY <1>1, <2>1 DEF Post, Step
  <2>3. IsBacked(p) /\ it' = [it EXCEPT ![i] = p]
    BY <1>3, <2>2 DEF IsBacked, Become
  <2> HIDE DEF p
  <2>4. Advance(i, p, 0)
    BY <1>1, <1>2, <2>2, <2>3, NoCall DEF Uncalled, Idle
  <2> QED BY <2>2, <2>4
<1>4. ASSUME NEW s \in {"no_change", "llm_failed"}, End(i, s)
      PROVE  \E p \in Post, n \in 0 .. 1 : Advance(i, p, n)
  <2> DEFINE p == [it[i] EXCEPT !.pc = s]
  <2>2. p \in Post /\ p.pc = s /\ p.calls = it[i].calls
    BY <1>1 DEF Post, Step
  <2>3. IsBacked(p) /\ it' = [it EXCEPT ![i] = p]
    BY <1>4, <2>2 DEF IsBacked, End, Become
  <2> HIDE DEF p
  <2>4. Advance(i, p, 0)
    BY <1>1, <1>2, <2>2, <2>3, NoCall DEF Uncalled, Idle
  <2> QED BY <2>2, <2>4
<1>5. ASSUME NEW new, ~ Changed(i, new),
             Become(i, [it[i] EXCEPT !.pc = "refreshed", !.draft.lists = last[i]])
      PROVE  \E p \in Post, n \in 0 .. 1 : Advance(i, p, n)
  <2> DEFINE d == [lists |-> last[i], none |-> it[i].draft.none, sound |-> it[i].draft.sound]
             p == [it[i] EXCEPT !.pc = "refreshed", !.draft = d]
  <2>1. d \in Draft /\ [it[i].draft EXCEPT !.lists = last[i]] = d
    BY <1>1 DEF Post, Draft
  <2>2. /\ p \in Post /\ p.pc = "refreshed" /\ p.calls = it[i].calls
        /\ p.draft.lists = last[i] /\ p.sources = it[i].sources
    BY <1>1, <2>1 DEF Post, Step
  <2>3. IsBacked(p)
    BY <1>5, <2>2 DEF IsBacked, Changed
  <2>4. [it[i] EXCEPT !.pc = "refreshed", !.draft.lists = last[i]] = p
    BY <1>1, <2>1 DEF Post, Draft
  <2>5. it' = [it EXCEPT ![i] = p]
    BY <1>5, <2>4 DEF Become
  <2> HIDE DEF p
  <2>6. Advance(i, p, 0)
    BY <1>1, <1>2, <2>2, <2>3, <2>5, NoCall DEF Uncalled, Idle
  <2> QED BY <2>2, <2>6
<1> QED BY <1>3, <1>4, <1>5 DEF PreCheck, WholeContext

LEMMA CallAdvances ==
  ASSUME PipelineAssumption, Types, BudgetInv, NEW i \in Target, NEW n \in 0 .. 1,
         it[i].pc \in {"write", "verify", "repair"}, ~ OutOfBudget,
         NEW r \in Post, r.calls = it[i].calls, Pay(i, n, r), Quiet, IsBacked(r),
         r.pc \notin Uncalled,
         r.pc = "verify" => it[i].pc = "write" /\ n = 1 /\ Value # {},
         r.pc \in {"validate", "repair"} => it[i].pc \in {"write", "verify"}
  PROVE  \E p \in Post, k \in 0 .. 1 : Advance(i, p, k)
<1>1. it[i] \in Post /\ CallsAreAt(it[i]) /\ it[i].calls \in Nat
  BY FoundPost DEF BudgetInv, Post
<1>2. PICK m \in Nat : m = it[i].calls + n
  BY <1>1
<1> DEFINE p == [r EXCEPT !.calls = m]
<1>3. /\ p \in Post /\ p.pc = r.pc /\ p.calls = m /\ p.draft = r.draft /\ p.sources = r.sources
      /\ p.prompt = r.prompt
  BY DEF Post
<1>4. it' = [it EXCEPT ![i] = p] /\ spent' = spent + n
  BY <1>2 DEF Pay, Become
<1>5. IsBacked(p)
  BY <1>3 DEF IsBacked
<1> HIDE DEF p
<1>6. CallsAreAt(p)
  <2>1. /\ it[i].pc = "write" => it[i].calls = 0
        /\ it[i].pc = "verify" => it[i].calls = 1 /\ Value # {}
        /\ it[i].pc = "repair" => it[i].calls <= BeforeRepair
    BY <1>1 DEF CallsAreAt, Uncalled
  <2>2. BeforeRepair + 1 = CallsOfAPost /\ BeforeRepair \in 1 .. 2 /\ (Value # {} => BeforeRepair = 2)
    BY DEF BeforeRepair, PipelineAssumption
  <2>3. p.calls <= CallsOfAPost
    BY <1>1, <1>2, <1>3, <2>1, <2>2
  <2>4. p.pc = "verify" => p.calls = 1 /\ Value # {}
    BY <1>2, <1>3, <2>1
  <2>5. p.pc \in {"validate", "repair"} => p.calls <= BeforeRepair
    BY <1>1, <1>2, <1>3, <2>1, <2>2
  <2> QED BY <1>3, <2>3, <2>4, <2>5 DEF CallsAreAt
<1>7. recorded < Budget /\ it[i].pc \notin Idle /\ UNCHANGED <<conf, kept, last, recorded, lost>>
  BY DEF OutOfBudget, Pay, Quiet, Types, PipelineAssumption, Idle
<1>8. Advance(i, p, n)
  BY <1>2, <1>3, <1>4, <1>5, <1>6, <1>7 DEF Advance
<1> QED BY <1>3, <1>8

\* The guard refuses, before any call.
LEMMA RefuseAdvances ==
  ASSUME PipelineAssumption, Types, BudgetInv, NEW i \in Target, it[i].pc \notin Idle, Refuse(i), Quiet
  PROVE  \E p \in Post, n \in 0 .. 1 : Advance(i, p, n)
<1> DEFINE p == [it[i] EXCEPT !.pc = "budget_exceeded"]
<1>1. p \in Post /\ p.pc = "budget_exceeded" /\ p.calls = it[i].calls
  BY FoundPost DEF Post, Step
<1>2. IsBacked(p) /\ it' = [it EXCEPT ![i] = p]
  BY <1>1 DEF IsBacked, Refuse, End, Become
<1>3. UNCHANGED <<conf, kept, last, spent, recorded, lost>>
  BY DEF Refuse, Quiet, accounts
<1> HIDE DEF p
<1>4. Advance(i, p, 0)
  BY <1>1, <1>2, <1>3, NoCall
<1> QED BY <1>1, <1>4

LEMMA WriteAdvances ==
  ASSUME PipelineAssumption, Types, BudgetInv, NEW i \in Target, Write(i)
  PROVE  \E p \in Post, n \in 0 .. 1 : Advance(i, p, n)
<1>1. it[i] \in Post /\ it[i].pc = "write" /\ it[i].pc \notin Idle /\ Quiet
  BY FoundPost DEF Write, Idle
<1>2. CASE Refuse(i)
  BY <1>1, <1>2, RefuseAdvances
<1>3. ASSUME ~ OutOfBudget, NEW n \in 0 .. 1, NEW l \in {"llm_failed", "no_change"},
             Pay(i, n, [it[i] EXCEPT !.pc = l])
      PROVE  \E p \in Post, k \in 0 .. 1 : Advance(i, p, k)
  <2> DEFINE r == [it[i] EXCEPT !.pc = l]
  <2>1. r \in Post /\ r.pc = l /\ r.calls = it[i].calls
    BY <1>1 DEF Post, Step
  <2>2. IsBacked(r) /\ r.pc \notin Uncalled
    BY <2>1 DEF IsBacked, Uncalled, Idle
  <2> HIDE DEF r
  <2>3. Pay(i, n, r)
    BY <1>3 DEF r
  <2> QED BY <1>1, <1>3, <2>1, <2>2, <2>3, CallAdvances
<1>4. ASSUME ~ OutOfBudget, NEW d \in Draft,
             Pay(i, 1, [it[i] EXCEPT !.pc = IF Verified(d) THEN "verify" ELSE "validate",
                                     !.draft = d])
      PROVE  \E p \in Post, k \in 0 .. 1 : Advance(i, p, k)
  <2>1. PICK l \in {"verify", "validate"} : l = IF Verified(d) THEN "verify" ELSE "validate"
    OBVIOUS
  <2>2. l = "verify" => Value # {}
    BY <2>1 DEF Verified, Values, Draft, Lists
  <2> DEFINE r == [it[i] EXCEPT !.pc = l, !.draft = d]
  <2>3. r \in Post /\ r.pc = l /\ r.calls = it[i].calls
    BY <1>1 DEF Post, Step
  <2>4. IsBacked(r) /\ r.pc \notin Uncalled
    BY <2>3 DEF IsBacked, Uncalled, Idle
  <2>5. Pay(i, 1, r)
    BY <1>4, <2>1
  <2> HIDE DEF r
  <2>6. 1 \in 0 .. 1 /\ (r.pc = "verify" => it[i].pc = "write" /\ 1 = 1 /\ Value # {})
    BY <1>1, <2>2, <2>3
  <2> QED BY <1>1, <1>4, <2>3, <2>4, <2>5, <2>6, CallAdvances
<1>5. ASSUME ~ OutOfBudget, NEW n \in 0 .. 1, Pay(i, n, [it[i] EXCEPT !.pc = "llm_failed"])
      PROVE  \E p \in Post, k \in 0 .. 1 : Advance(i, p, k)
  BY <1>3, <1>5, "llm_failed" \in {"llm_failed", "no_change"}
<1>6. ASSUME ~ OutOfBudget, Pay(i, 1, [it[i] EXCEPT !.pc = "no_change"])
      PROVE  \E p \in Post, k \in 0 .. 1 : Advance(i, p, k)
  BY <1>3, <1>6, "no_change" \in {"llm_failed", "no_change"}, 1 \in 0 .. 1
<1> QED BY <1>2, <1>4, <1>5, <1>6 DEF Write

LEMMA VerifyAdvances ==
  ASSUME PipelineAssumption, Types, BudgetInv, NEW i \in Target, Verify(i)
  PROVE  \E p \in Post, n \in 0 .. 1 : Advance(i, p, n)
<1>1. it[i] \in Post /\ it[i].pc = "verify" /\ it[i].pc \notin Idle /\ Quiet
  BY FoundPost DEF Verify, Idle
<1>2. CASE Refuse(i)
  BY <1>1, <1>2, RefuseAdvances
<1>3. ASSUME ~ OutOfBudget, NEW n \in 0 .. 1, Pay(i, n, [it[i] EXCEPT !.pc = "validate"])
      PROVE  \E p \in Post, k \in 0 .. 1 : Advance(i, p, k)
  <2> DEFINE r == [it[i] EXCEPT !.pc = "validate"]
  <2>1. r \in Post /\ r.pc = "validate" /\ r.calls = it[i].calls
    BY <1>1 DEF Post, Step
  <2>2. IsBacked(r) /\ r.pc \notin Uncalled
    BY <2>1 DEF IsBacked, Uncalled, Idle
  <2>3. Pay(i, n, r)
    BY <1>3
  <2> HIDE DEF r
  <2> QED BY <1>1, <1>3, <2>1, <2>2, <2>3, CallAdvances
<1>4. ASSUME ~ OutOfBudget,
             NEW A \in SUBSET it[i].draft.lists.active, NEW E \in SUBSET it[i].draft.lists.expired,
             Pay(i, 1, [it[i] EXCEPT !.pc = "validate",
                                     !.draft.lists = [active |-> A, expired |-> E]])
      PROVE  \E p \in Post, k \in 0 .. 1 : Advance(i, p, k)
  <2>1. PICK l \in Lists : l = [active |-> A, expired |-> E]
    BY <1>1 DEF Post, Draft, Lists
  <2>2. PICK d \in Draft : d = [it[i].draft EXCEPT !.lists = l]
    BY <1>1 DEF Post, Draft
  <2> DEFINE r == [it[i] EXCEPT !.pc = "validate", !.draft = d]
  <2>3. r \in Post /\ r.pc = "validate" /\ r.calls = it[i].calls
    BY <1>1 DEF Post, Step
  <2>4. IsBacked(r) /\ r.pc \notin Uncalled
    BY <2>3 DEF IsBacked, Uncalled, Idle
  <2>5. Pay(i, 1, r)
    <3>1. [it[i] EXCEPT !.pc = "validate", !.draft.lists = l] = r
      BY <1>1, <2>2 DEF Post
    <3> QED BY <1>4, <2>1, <3>1
  <2> HIDE DEF r
  <2>6. 1 \in 0 .. 1
    OBVIOUS
  <2> QED BY <1>1, <1>4, <2>3, <2>4, <2>5, <2>6, CallAdvances
<1> QED BY <1>1, <1>2, <1>3, <1>4 DEF Verify

\* What validation keeps is in the text the model saw, and in one list only.
LEMMA ValidatedLists ==
  ASSUME NEW i \in Target, NEW d \in Draft
  PROVE  \E e \in Draft : /\ Validated(i, d) = IF conf.extract THEN e ELSE d
                          /\ e.lists = Checked(d.lists, it[i].prompt) /\ e.none = d.none
<1> DEFINE l == Checked(d.lists, it[i].prompt)
<1>1. l \in Lists
  BY DEF Checked, Draft, Lists
<1>2. PICK e \in Draft : e = [d EXCEPT !.lists = l]
  BY <1>1 DEF Draft
<1>3. e.lists = l /\ e.none = d.none
  BY <1>2 DEF Draft
<1> QED BY <1>2, <1>3 DEF Validated

LEMMA ValidatedIsBacked ==
  ASSUME NEW i \in Target, NEW d \in Draft, Passes(i, d), NEW p \in Post, p.pc = "ready",
         p.draft = Validated(i, d), p.prompt = it[i].prompt, p.sources = it[i].sources
  PROVE  IsBacked(p)
<1> DEFINE l == Checked(d.lists, it[i].prompt)
<1>1. PICK e \in Draft : /\ Validated(i, d) = IF conf.extract THEN e ELSE d
                        /\ e.lists = l /\ e.none = d.none
  BY ValidatedLists
<1>2. CASE ~ conf.extract
  BY <1>2 DEF IsBacked
<1>3. CASE conf.extract
  <2>1. p.draft.lists = l /\ p.draft.none = d.none /\ Validated(i, d).lists = l
    BY <1>1, <1>3
  <2>2. Values(l) \subseteq p.prompt /\ l.active \cap l.expired = {}
    BY DEF Values, Checked
  <2>3. /\ d.none => it[i].sources.count >= MinSources
        /\ ~ d.none => Values(l) # {}
    BY <1>3, <2>1 DEF Passes
  <2>4. d.none \in BOOLEAN
    BY DEF Draft
  <2> HIDE DEF l
  <2> QED BY <2>1, <2>2, <2>3, <2>4 DEF IsBacked
<1> QED BY <1>2, <1>3

LEMMA ValidateAdvances ==
  ASSUME PipelineAssumption, Types, BudgetInv, NEW i \in Target, Validate(i)
  PROVE  \E p \in Post, n \in 0 .. 1 : Advance(i, p, n)
<1>1. /\ it[i] \in Post /\ it[i].pc = "validate" /\ it[i].pc \notin Idle /\ it[i].draft \in Draft
      /\ UNCHANGED <<conf, kept, last, spent, recorded, lost>>
  BY FoundPost DEF Validate, Idle, Quiet, accounts, Post
<1>2. PICK l \in {"ready", "repair"} : l = IF Passes(i, it[i].draft) THEN "ready" ELSE "repair"
  OBVIOUS
<1>3. PICK d \in Draft : d = Validated(i, it[i].draft)
  BY <1>1, ValidatedLists
<1> DEFINE p == [it[i] EXCEPT !.pc = l, !.draft = d]
<1>4. /\ p \in Post /\ p.pc = l /\ p.calls = it[i].calls /\ p.draft = d
      /\ p.prompt = it[i].prompt /\ p.sources = it[i].sources
  BY <1>1 DEF Post, Step
<1>5. it' = [it EXCEPT ![i] = p]
  BY <1>2, <1>3 DEF Validate, Become
<1> HIDE DEF p
<1>6. IsBacked(p)
  <2>1. CASE l = "ready"
    BY <1>1, <1>2, <1>3, <1>4, <2>1, ValidatedIsBacked
  <2>2. CASE l # "ready"
    BY <1>2, <1>4, <2>2 DEF IsBacked
  <2> QED BY <2>1, <2>2
<1>7. Advance(i, p, 0)
  BY <1>1, <1>4, <1>5, <1>6, NoCall
<1> QED BY <1>4, <1>7

LEMMA RepairAdvances ==
  ASSUME PipelineAssumption, Types, BudgetInv, NEW i \in Target, Repair(i)
  PROVE  \E p \in Post, n \in 0 .. 1 : Advance(i, p, n)
<1>1. it[i] \in Post /\ it[i].pc = "repair" /\ it[i].pc \notin Idle /\ Quiet
  BY FoundPost DEF Repair, Idle
<1>2. CASE Refuse(i)
  BY <1>1, <1>2, RefuseAdvances
<1>3. ASSUME ~ OutOfBudget, NEW n \in 0 .. 1, Pay(i, n, [it[i] EXCEPT !.pc = "validation_failed"])
      PROVE  \E p \in Post, k \in 0 .. 1 : Advance(i, p, k)
  <2> DEFINE r == [it[i] EXCEPT !.pc = "validation_failed"]
  <2>1. r \in Post /\ r.pc = "validation_failed" /\ r.calls = it[i].calls
    BY <1>1 DEF Post, Step
  <2>2. IsBacked(r) /\ r.pc \notin Uncalled
    BY <2>1 DEF IsBacked, Uncalled, Idle
  <2>3. Pay(i, n, r)
    BY <1>3
  <2> HIDE DEF r
  <2> QED BY <1>1, <1>3, <2>1, <2>2, <2>3, CallAdvances
<1>4. ASSUME ~ OutOfBudget, NEW d \in Draft, Passes(i, d),
             Pay(i, 1, [it[i] EXCEPT !.pc = "ready", !.draft = Validated(i, d)])
      PROVE  \E p \in Post, k \in 0 .. 1 : Advance(i, p, k)
  <2>1. PICK e \in Draft : e = Validated(i, d)
    BY ValidatedLists
  <2> DEFINE r == [it[i] EXCEPT !.pc = "ready", !.draft = e]
  <2>2. /\ r \in Post /\ r.pc = "ready" /\ r.calls = it[i].calls /\ r.draft = e
        /\ r.prompt = it[i].prompt /\ r.sources = it[i].sources
    BY <1>1 DEF Post, Step
  <2>3. Pay(i, 1, r)
    BY <1>4, <2>1
  <2> HIDE DEF r
  <2>4. IsBacked(r) /\ r.pc \notin Uncalled /\ 1 \in 0 .. 1
    BY <1>4, <2>1, <2>2, ValidatedIsBacked DEF Uncalled, Idle
  <2> QED BY <1>1, <1>4, <2>2, <2>3, <2>4, CallAdvances
<1>5. ASSUME ~ OutOfBudget, NEW d \in Draft,
             Pay(i, 1, IF Passes(i, d) THEN [it[i] EXCEPT !.pc = "ready", !.draft = Validated(i, d)]
                       ELSE [it[i] EXCEPT !.pc = "validation_failed"])
      PROVE  \E p \in Post, k \in 0 .. 1 : Advance(i, p, k)
  <2>1. CASE Passes(i, d)
    BY <1>4, <1>5, <2>1
  <2>2. CASE ~ Passes(i, d)
    <3>1. Pay(i, 1, [it[i] EXCEPT !.pc = "validation_failed"])
      BY <1>5, <2>2
    <3> QED BY <1>3, <1>5, <3>1, 1 \in 0 .. 1
  <2> QED BY <2>1, <2>2
<1> QED BY <1>2, <1>3, <1>5 DEF Repair

-----------------------------------------------------------------------------
(* What the steps keep                                                     *)

\* The posts under way have few calls between them that are not recorded.
LEMMA CallsAreFew ==
  ASSUME PipelineAssumption, NEW f \in [Target -> Post], \A i \in Target : CallsAreAt(f[i]),
         NEW R, R = {i \in Target : f[i].pc \notin Idle}, Cardinality(R) <= Workers,
         NEW U, U = {t \in Target \X (1 .. 3) : t[2] <= f[t[1]].calls}
  PROVE  IsFiniteSet(U) /\ Cardinality(U) \in Nat /\ Cardinality(U) <= Workers * CallsOfAPost
<1>1. IsFiniteSet(R) /\ Cardinality(R) \in Nat
  BY FS_Subset, FS_CardinalityType DEF PipelineAssumption
<1>2. CallsOfAPost \in 2 .. 3
  BY DEF PipelineAssumption
<1>3. IsFiniteSet(1 .. CallsOfAPost) /\ Cardinality(1 .. CallsOfAPost) = CallsOfAPost
  BY <1>2, FS_Interval
<1>4. /\ IsFiniteSet(R \X (1 .. CallsOfAPost))
      /\ Cardinality(R \X (1 .. CallsOfAPost)) = Cardinality(R) * CallsOfAPost
  BY <1>1, <1>3, FS_Product
<1>5. U \subseteq R \X (1 .. CallsOfAPost)
  <2> SUFFICES ASSUME NEW t \in U PROVE t[1] \in R /\ t[2] \in 1 .. CallsOfAPost /\ t = <<t[1], t[2]>>
    BY Zenon
  <2>1. t[1] \in Target /\ t[2] \in 1 .. 3 /\ t = <<t[1], t[2]>> /\ t[2] <= f[t[1]].calls
    OBVIOUS
  <2>2. CallsAreAt(f[t[1]]) /\ f[t[1]].calls \in Nat
    BY <2>1 DEF Post
  <2>3. t[2] <= CallsOfAPost
    BY <1>2, <2>1, <2>2 DEF CallsAreAt
  <2>4. f[t[1]].calls # 0
    BY <2>1, <2>2
  <2>5. f[t[1]].pc \notin Idle
    BY <2>2, <2>4 DEF CallsAreAt, Uncalled
  <2> QED BY <1>2, <2>1, <2>3, <2>5
<1>6. IsFiniteSet(U) /\ Cardinality(U) \in Nat /\ Cardinality(U) <= Cardinality(R) * CallsOfAPost
  BY <1>4, <1>5, FS_Subset, FS_CardinalityType
<1>7. Cardinality(R) * CallsOfAPost <= Workers * CallsOfAPost
  <2>1. PICK k \in Nat, w \in Nat : k = Cardinality(R) /\ w = Workers
    BY <1>1 DEF PipelineAssumption
  <2>2. CASE CallsOfAPost = 2
    BY <2>1, <2>2
  <2>3. CASE CallsOfAPost = 3
    BY <2>1, <2>3
  <2> QED BY <1>2, <2>2, <2>3
<1>8. PICK c \in Nat, k \in Nat, w \in Nat :
        c = Cardinality(U) /\ k = Cardinality(R) * CallsOfAPost /\ w = Workers * CallsOfAPost
  <2>1. \A a, b \in Nat : a * b \in Nat
    OBVIOUS
  <2>2. Cardinality(R) * CallsOfAPost \in Nat /\ Workers * CallsOfAPost \in Nat
    BY <1>1, <1>2, <2>1 DEF PipelineAssumption
  <2> QED BY <1>6, <2>2
<1> QED BY <1>6, <1>7, <1>8

LEMMA RunningIs ==
  ASSUME PipelineAssumption, Types
  PROVE  /\ Running = {i \in Target : it[i].pc \notin Idle}
         /\ IsFiniteSet(Running) /\ Cardinality(Running) \in Nat
<1>1. Running = {i \in Target : it[i].pc \notin Idle}
  BY DEF Running, Idle
<1> QED BY <1>1, FS_Subset, FS_CardinalityType DEF PipelineAssumption

LEMMA AdvanceKeepsTypes ==
  ASSUME Types, NEW i \in Target, NEW p \in Post, NEW n \in 0 .. 1, Advance(i, p, n)
  PROVE  Types'
<1>1. it' \in [Target -> Post]
  BY PostsAre DEF Advance
<1>2. spent' \in Nat
  BY DEF Advance, Types
<1> QED BY <1>1, <1>2 DEF Advance, Types

LEMMA BackedIs ==
  ASSUME Types
  PROVE  PublishedIsBacked <=> \A i \in Target : IsBacked(it[i])
<1>1. DOMAIN it = Target
  BY DEF Types
<1> QED BY <1>1 DEF PublishedIsBacked, IsBacked

LEMMA AdvanceKeeps ==
  ASSUME PipelineAssumption, IInv, NEW i \in Target, NEW p \in Post, NEW n \in 0 .. 1,
         Advance(i, p, n)
  PROVE  IInv'
<1>0. Types /\ BudgetInv /\ PublishedIsBacked
  BY DEF IInv
<1>1. /\ it' \in [Target -> Post] /\ it'[i] = p
      /\ \A j \in Target : it'[j] = IF j = i THEN p ELSE it[j]
  BY <1>0, PostsAre DEF Advance
<1>2. Types'
  BY <1>0, AdvanceKeepsTypes
<1>3. PublishedIsBacked'
  <2>1. DOMAIN it' = Target /\ conf' = conf
    BY <1>1 DEF Advance
  <2>2. ASSUME NEW j \in Target PROVE IsBacked(it[j])' 
    BY <1>0, <1>1, BackedIs DEF Advance, IsBacked
  <2> QED BY <2>1, <2>2 DEF PublishedIsBacked, IsBacked
<1>4. \A j \in Target : CallsAreAt(it'[j])
  BY <1>0, <1>1 DEF BudgetInv, Advance
<1>5. Cardinality(Running') <= Workers
  <2>1. IsFiniteSet(Running) /\ Cardinality(Running) \in Nat /\ Cardinality(Running) <= Workers
    BY <1>0, RunningIs DEF BudgetInv
  <2>2. Running' \subseteq Running \cup {i}
    BY <1>1 DEF Running
  <2>3. CASE i \in Running
    <3>1. Running' \subseteq Running
      BY <2>2, <2>3
    <3>2. IsFiniteSet(Running') /\ Cardinality(Running') <= Cardinality(Running)
      BY <2>1, <3>1, FS_Subset
    <3>3. Cardinality(Running') \in Nat
      BY <3>2, FS_CardinalityType
    <3> QED BY <2>1, <3>2, <3>3 DEF PipelineAssumption
  <2>4. CASE i \notin Running
    <3>1. Cardinality(Running) < Workers
      BY <1>0, <2>4, RunningIs DEF Advance
    <3>2. IsFiniteSet(Running \cup {i}) /\ Cardinality(Running \cup {i}) = Cardinality(Running) + 1
      BY <2>1, <2>4, FS_AddElement
    <3>3. IsFiniteSet(Running') /\ Cardinality(Running') <= Cardinality(Running \cup {i})
      BY <2>2, <3>2, FS_Subset
    <3>4. Cardinality(Running') \in Nat
      BY <3>3, FS_CardinalityType
    <3> QED BY <2>1, <3>1, <3>2, <3>3, <3>4 DEF PipelineAssumption
  <2> QED BY <2>3, <2>4
<1>6. /\ IsFiniteSet(Unrecorded') /\ Cardinality(Unrecorded') \in Nat
      /\ Cardinality(Unrecorded') <= Workers * CallsOfAPost
  <2>1. Running' = {j \in Target : it'[j].pc \notin Idle}
    BY DEF Running, Idle
  <2>2. Unrecorded' = {t \in Target \X (1 .. 3) : t[2] <= it'[t[1]].calls}
    BY DEF Unrecorded
  <2> QED BY <1>1, <1>4, <1>5, <2>1, <2>2, CallsAreFew
<1>7. /\ IsFiniteSet(Unrecorded) /\ Cardinality(Unrecorded) \in Nat
  BY <1>0, RunningIs, CallsAreFew DEF Unrecorded, BudgetInv, Types
<1>8. Cardinality(Unrecorded') = Cardinality(Unrecorded) + n
  <2>1. it[i].calls \in Nat /\ p.calls = it[i].calls + n /\ p.calls \in Nat /\ p.calls <= 3
    BY <1>0, <1>1, <1>4, FoundPost DEF Advance, Post, CallsAreAt, PipelineAssumption
  <2>2. CASE n = 0
    <3>1. \A j \in Target : it'[j].calls = it[j].calls
      BY <1>1, <2>1, <2>2
    <3>2. Unrecorded' = Unrecorded
      BY <3>1 DEF Unrecorded
    <3> QED BY <1>7, <2>2, <3>2
  <2>3. CASE n = 1
    <3>1. <<i, p.calls>> \notin Unrecorded
      BY <2>1, <2>3 DEF Unrecorded
    <3>2. Unrecorded' = Unrecorded \cup {<<i, p.calls>>}
      <4>1. ASSUME NEW t \in Target \X (1 .. 3)
            PROVE  t[2] <= it'[t[1]].calls <=> t[2] <= it[t[1]].calls \/ t = <<i, p.calls>>
        <5>1. t[1] \in Target /\ t[2] \in 1 .. 3 /\ t = <<t[1], t[2]>>
          OBVIOUS
        <5>2. CASE t[1] # i
          BY <1>1, <5>1, <5>2
        <5>3. CASE t[1] = i
          <6>1. PICK k \in 1 .. 3, c \in Nat : k = t[2] /\ c = it[i].calls
            BY <2>1, <5>1
          <6>2. p.calls = c + 1 /\ it'[t[1]].calls = c + 1 /\ it[t[1]].calls = c
            BY <1>1, <2>1, <2>3, <5>3, <6>1
          <6>3. t = <<i, p.calls>> <=> k = c + 1
            BY <5>1, <5>3, <6>1, <6>2
          <6>4. k <= c + 1 <=> k <= c \/ k = c + 1
            BY <6>1
          <6> QED BY <6>1, <6>2, <6>3, <6>4
        <5> QED BY <5>2, <5>3
      <4>2. <<i, p.calls>> \in Target \X (1 .. 3)
        BY <2>1, <2>3
      <4> QED BY <4>1, <4>2 DEF Unrecorded
    <3> QED BY <1>7, <2>3, <3>1, <3>2, FS_AddElement
  <2> QED BY <2>2, <2>3
<1>9. spent' = recorded' + lost' + Cardinality(Unrecorded') /\ SpendBounded'
  <2>1. /\ spent = recorded + lost + Cardinality(Unrecorded) /\ SpendBounded
        /\ recorded \in Nat /\ lost \in Nat /\ spent \in Nat
    BY <1>0 DEF BudgetInv, Types
  <2>2. /\ spent' = spent + n /\ recorded' = recorded /\ lost' = lost
        /\ n = 1 => recorded < Budget
    BY DEF Advance
  <2>3. PICK u \in Nat, v \in Nat, w \in Nat :
          u = Cardinality(Unrecorded) /\ v = Cardinality(Unrecorded') /\ w = Workers * CallsOfAPost
    BY <1>6, <1>7 DEF PipelineAssumption
  <2>4. v = u + n /\ v <= w
    BY <1>6, <1>8, <2>3
  <2>5. spent' = recorded' + lost' + v
    BY <2>1, <2>2, <2>3, <2>4
  <2>6. spent' <= Budget - 1 + w + lost'
    <3>1. Budget \in Nat /\ spent <= Budget - 1 + w + lost
      BY <2>1, <2>3 DEF SpendBounded, PipelineAssumption
    <3>2. CASE n = 0
      BY <2>1, <2>2, <3>1, <3>2
    <3>3. CASE n = 1
      BY <2>1, <2>2, <2>4, <2>5, <3>1, <3>3
    <3> QED BY <3>2, <3>3
  <2> QED BY <2>3, <2>5, <2>6 DEF SpendBounded
<1> QED BY <1>2, <1>3, <1>4, <1>5, <1>9 DEF IInv, BudgetInv

-----------------------------------------------------------------------------
(* The end of a post, and of a run                                         *)

\* A post that ends takes its calls along.
LEMMA EndKeeps ==
  ASSUME PipelineAssumption, IInv, NEW i \in Target, NEW p \in Post, it' = [it EXCEPT ![i] = p],
         p.pc \in {"done", "failed"}, p.calls = 0,
         conf' = conf, kept' \in [Target -> Found], last' \in [Target -> Lists], spent' = spent,
         \/ recorded' = recorded + it[i].calls /\ lost' = lost
         \/ lost' = lost + it[i].calls /\ recorded' = recorded
  PROVE  IInv'
<1>0. Types /\ BudgetInv /\ PublishedIsBacked
  BY DEF IInv
<1>1. /\ it' \in [Target -> Post] /\ it'[i] = p
      /\ \A j \in Target : it'[j] = IF j = i THEN p ELSE it[j]
  BY <1>0, PostsAre
<1>2. it[i].calls \in Nat /\ it[i].calls <= 3
  BY <1>0, FoundPost DEF Post, BudgetInv, CallsAreAt, PipelineAssumption
<1>3. Types'
  BY <1>0, <1>1, <1>2 DEF Types
<1>4. PublishedIsBacked'
  <2>1. DOMAIN it' = Target
    BY <1>1
  <2>2. ASSUME NEW j \in Target PROVE IsBacked(it[j])'
    BY <1>0, <1>1, BackedIs DEF IsBacked
  <2> QED BY <2>1, <2>2 DEF PublishedIsBacked, IsBacked
<1>5. \A j \in Target : CallsAreAt(it'[j])
  BY <1>0, <1>1 DEF BudgetInv, CallsAreAt, PipelineAssumption
<1>6. IsFiniteSet(Running) /\ Cardinality(Running) \in Nat /\ Cardinality(Running) <= Workers
  BY <1>0, RunningIs DEF BudgetInv
<1>7. Cardinality(Running') <= Workers
  <2>1. Running' \subseteq Running
    BY <1>1 DEF Running
  <2>2. IsFiniteSet(Running') /\ Cardinality(Running') <= Cardinality(Running)
    BY <1>6, <2>1, FS_Subset
  <2>3. Cardinality(Running') \in Nat
    BY <2>2, FS_CardinalityType
  <2> QED BY <1>6, <2>2, <2>3 DEF PipelineAssumption
<1>8. IsFiniteSet(Unrecorded) /\ Cardinality(Unrecorded) \in Nat
  BY <1>0, RunningIs, CallsAreFew DEF Unrecorded, BudgetInv, Types
<1>9. Cardinality(Unrecorded) = Cardinality(Unrecorded') + it[i].calls /\ Cardinality(Unrecorded') \in Nat
  <2>0. PICK c \in Nat : c = it[i].calls
    BY <1>2
  <2> DEFINE D == {i} \X (1 .. c)
  <2>1. IsFiniteSet(1 .. c) /\ Cardinality(1 .. c) = c
    BY FS_Interval
  <2>2. IsFiniteSet(D) /\ Cardinality(D) = c
    <3>1. IsFiniteSet({i}) /\ Cardinality({i}) = 1
      BY FS_Singleton
    <3>2. IsFiniteSet({i} \X (1 .. c)) /\ Cardinality({i} \X (1 .. c)) = Cardinality({i}) * Cardinality(1 .. c)
      BY <2>1, <3>1, FS_Product
    <3>3. Cardinality({i} \X (1 .. c)) = 1 * c
      BY <2>1, <3>1, <3>2
    <3> QED BY <3>2, <3>3
  <2>3. Unrecorded' = Unrecorded \ D
    <3>1. ASSUME NEW t \in Target \X (1 .. 3)
          PROVE  t[2] <= it'[t[1]].calls <=> t[2] <= it[t[1]].calls /\ t \notin D
      <4>1. t[1] \in Target /\ t[2] \in 1 .. 3 /\ t = <<t[1], t[2]>>
        OBVIOUS
      <4>2. CASE t[1] # i
        BY <1>1, <4>1, <4>2
      <4>3. CASE t[1] = i
        <5>1. ~ (t[2] <= it'[t[1]].calls)
          BY <1>1, <4>1, <4>3
        <5>2. t[2] <= it[t[1]].calls => t \in D
          BY <2>0, <4>1, <4>3
        <5> QED BY <5>1, <5>2
      <4> QED BY <4>2, <4>3
    <3> QED BY <3>1 DEF Unrecorded
  <2>4. Unrecorded \cap D = D
    <3>1. D \subseteq Unrecorded
      <4> SUFFICES ASSUME NEW k \in 1 .. c PROVE <<i, k>> \in Unrecorded
        OBVIOUS
      <4> QED BY <1>2, <2>0 DEF Unrecorded
    <3> QED BY <3>1
  <2> HIDE DEF D
  <2>5. IsFiniteSet(Unrecorded') /\ Cardinality(Unrecorded') = Cardinality(Unrecorded) - Cardinality(D)
    <3>1. /\ IsFiniteSet(Unrecorded \ D)
          /\ Cardinality(Unrecorded \ D) = Cardinality(Unrecorded) - Cardinality(Unrecorded \cap D)
      BY <1>8, FS_Difference
    <3> QED BY <2>3, <2>4, <3>1
  <2>6. Cardinality(Unrecorded') \in Nat
    BY <2>5, FS_CardinalityType
  <2> QED BY <1>8, <2>0, <2>2, <2>5, <2>6
<1>10. spent' = recorded' + lost' + Cardinality(Unrecorded')
  <2>1. /\ spent = recorded + lost + Cardinality(Unrecorded)
        /\ recorded \in Nat /\ lost \in Nat /\ spent \in Nat
    BY <1>0 DEF BudgetInv, Types
  <2> QED BY <1>2, <1>8, <1>9, <2>1
<1>11. SpendBounded'
  <2>1. spent <= Budget - 1 + Workers * CallsOfAPost + lost /\ spent' = spent
    BY <1>0 DEF BudgetInv, SpendBounded
  <2>2. lost' \in Nat /\ lost \in Nat /\ lost <= lost' /\ spent \in Nat
    BY <1>0, <1>2 DEF Types
  <2>3. \A a, b \in Nat : a * b \in Nat
    OBVIOUS
  <2>4. PICK w \in Nat : w = Workers * CallsOfAPost
    BY <2>3 DEF PipelineAssumption
  <2>5. spent <= Budget - 1 + w + lost /\ Budget \in Nat
    BY <2>1, <2>4 DEF PipelineAssumption
  <2>6. spent <= Budget - 1 + w + lost'
    <3>1. \A s, b, k, y, z \in Nat : s <= b - 1 + k + y /\ y <= z => s <= b - 1 + k + z
      OBVIOUS
    <3> QED BY <2>2, <2>4, <2>5, <3>1
  <2> QED BY <2>1, <2>4, <2>6 DEF SpendBounded
<1> QED BY <1>3, <1>4, <1>5, <1>7, <1>10, <1>11 DEF IInv, BudgetInv

\* A post that has ended, or waits to be tried again.
LEMMA EndedIsPost ==
  ASSUME NEW m \in Nat, NEW l \in {"done", "failed"}
  PROVE  /\ Fresh(m) \in Post /\ Fresh(m).pc = "none" /\ Fresh(m).calls = 0
         /\ \E p \in Post : p = [Fresh(m) EXCEPT !.pc = l] /\ p.pc = l /\ p.calls = 0
<1>1. NoSources \in Found /\ NoDraft \in Draft
  BY DEF NoSources, NoDraft, Found, Draft, NoLists, Lists
<1>2. Fresh(m) \in Post /\ Fresh(m).pc = "none" /\ Fresh(m).calls = 0
  BY <1>1 DEF Fresh, Post, Step
<1>3. PICK x \in Post : x = Fresh(m) /\ x.calls = 0
  BY <1>2
<1>4. l \in Step
  BY DEF Step
<1>5. \E p \in Post : p = [x EXCEPT !.pc = l] /\ p.pc = l /\ p.calls = x.calls
  BY <1>1, <1>4, OnItsWay
<1> QED BY <1>2, <1>3, <1>5

LEMMA RecordKeeps ==
  ASSUME PipelineAssumption, IInv, NEW i \in Target, Record(i)
  PROVE  IInv'
<1>0. Types /\ it[i] \in Post /\ it[i].tries \in Nat /\ it[i].sources \in Found /\ it[i].draft.lists \in Lists
  BY FoundPost DEF IInv, Post, Draft
<1>1. PICK put \in BOOLEAN, l \in {"done", "failed"} :
        /\ it' = [it EXCEPT ![i] = [Fresh(it[i].tries) EXCEPT !.pc = l]]
        /\ kept' = [kept EXCEPT ![i] = IF l = "failed" THEN it[i].sources ELSE kept[i]]
        /\ last' = [last EXCEPT ![i] = IF put /\ it[i].pc \in Published /\ conf.extract
                                       THEN it[i].draft.lists ELSE last[i]]
  BY <1>0 DEF Record, Types
<1>2. PICK p \in Post : it' = [it EXCEPT ![i] = p] /\ p.pc = l /\ p.calls = 0
  <2>1. \E p \in Post : p = [Fresh(it[i].tries) EXCEPT !.pc = l] /\ p.pc = l /\ p.calls = 0
    BY <1>0, EndedIsPost
  <2> QED BY <1>1, <2>1
<1>3. kept' \in [Target -> Found]
  BY <1>0, <1>1 DEF Types
<1>4. last' \in [Target -> Lists]
  BY <1>0, <1>1 DEF Types
<1>5. conf' = conf /\ spent' = spent /\ lost' = lost /\ recorded' = recorded + it[i].calls
  BY DEF Record, CallsOf
<1> QED BY <1>2, <1>3, <1>4, <1>5, EndKeeps

LEMMA ThrowsKeeps ==
  ASSUME PipelineAssumption, IInv, NEW i \in Target, Throws(i)
  PROVE  IInv'
<1>0. Types /\ it[i] \in Post /\ it[i].tries \in Nat /\ NoSources \in Found
  BY FoundPost DEF IInv, Post, Found, NoSources
<1>1. PICK p \in Post : it' = [it EXCEPT ![i] = p] /\ p.pc = "failed" /\ p.calls = 0
  BY <1>0, EndedIsPost DEF Throws, Become
<1>2. kept' \in [Target -> Found] /\ last' \in [Target -> Lists]
  BY <1>0 DEF Throws, Types
<1>3. conf' = conf /\ spent' = spent /\ recorded' = recorded /\ lost' = lost + it[i].calls
  BY DEF Throws
<1> QED BY <1>1, <1>2, <1>3, EndKeeps

\* The next run starts with no calls, and none of the posts under way has any.
LEMMA NextRunKeeps ==
  ASSUME PipelineAssumption, IInv, NEW i \in Target, NextRun(i)
  PROVE  IInv'
<1>0. Types /\ BudgetInv /\ it[i].tries \in Nat /\ NoSources \in Found
  BY FoundPost DEF IInv, Post, Found, NoSources
<1>1. ASSUME NEW j \in Target
      PROVE  it'[j] \in Post /\ it'[j].pc \in {"none", "done"} /\ it'[j].calls = 0
  <2>1. CASE j = i
    <3>1. it'[j] = Fresh(it[i].tries)
      BY <2>1 DEF NextRun
    <3> QED BY <1>0, <3>1, EndedIsPost
  <2>2. CASE j # i
    <3>1. it'[j] = [it[j] EXCEPT !.pc = "done"] /\ it[j].pc \in {"done", "failed"}
      BY <2>2 DEF NextRun
    <3>2. it[j] \in Post /\ it[j].calls = 0
      BY <1>0, <3>1, FoundPost DEF BudgetInv, CallsAreAt, Uncalled, Idle
    <3> QED BY <3>1, <3>2 DEF Post, Step
  <2> QED BY <2>1, <2>2
<1>2. it' \in [Target -> Post]
  <2>1. DOMAIN it' = Target /\ it' = [j \in Target |-> it'[j]]
    BY DEF NextRun
  <2> QED BY <1>1, <2>1
<1>3. kept' \in [Target -> Found] /\ last' = last /\ conf' = conf
  BY <1>0 DEF NextRun, Types
<1>4. spent' = 0 /\ recorded' = 0 /\ lost' = 0
  BY DEF NextRun
<1>5. Types'
  BY <1>0, <1>2, <1>3, <1>4 DEF Types
<1>6. PublishedIsBacked'
  BY <1>1, <1>2 DEF PublishedIsBacked
<1>7. \A j \in Target : CallsAreAt(it'[j])
  BY <1>1 DEF CallsAreAt, PipelineAssumption
<1>8. Running' = {} /\ Unrecorded' = {}
  <2>1. Running' = {}
    BY <1>1 DEF Running
  <2>2. ASSUME NEW t \in Target \X (1 .. 3) PROVE ~ (t[2] <= it'[t[1]].calls)
    <3>1. t[1] \in Target /\ t[2] \in 1 .. 3
      OBVIOUS
    <3> QED BY <1>1, <3>1
  <2> QED BY <2>1, <2>2 DEF Unrecorded
<1>9. Cardinality(Running') = 0 /\ Cardinality(Unrecorded') = 0
  BY <1>8, FS_EmptySet
<1>10. BudgetInv'
  <2>1. \A a \in Nat \ {0}, b \in 2 .. 3 : a * b \in Nat \ {0}
    OBVIOUS
  <2>2. PICK w \in Nat \ {0} : w = Workers * CallsOfAPost
    BY <2>1 DEF PipelineAssumption
  <2>3. SpendBounded'
    BY <1>4, <2>2 DEF SpendBounded, PipelineAssumption
  <2>4. 0 <= Workers /\ spent' = recorded' + lost' + Cardinality(Unrecorded')
    BY <1>4, <1>9 DEF PipelineAssumption
  <2> QED BY <1>7, <1>9, <2>3, <2>4 DEF BudgetInv
<1> QED BY <1>5, <1>6, <1>10 DEF IInv

-----------------------------------------------------------------------------
(* The theorems                                                            *)

LEMMA AlwaysInv == PipelineAssumption => (Spec => []IInv)
<1> SUFFICES ASSUME PipelineAssumption PROVE Spec => []IInv
  OBVIOUS
<1>1. Init => IInv
  <2> SUFFICES ASSUME Init PROVE IInv
    OBVIOUS
  <2>1. NoSources \in Found /\ NoLists \in Lists /\ Fresh(0) \in Post
        /\ Fresh(0).pc = "none" /\ Fresh(0).calls = 0
    BY EndedIsPost DEF NoSources, Found, NoLists, Lists
  <2>2. \A i \in Target : it[i] \in Post /\ it[i].pc = "none" /\ it[i].calls = 0
    BY <2>1 DEF Init
  <2>3. Types
    BY <2>1 DEF Init, Types, PipelineAssumption, Job
  <2>4. PublishedIsBacked
    BY <2>2, <2>3 DEF PublishedIsBacked, Types
  <2>5. \A i \in Target : CallsAreAt(it[i])
    BY <2>2 DEF CallsAreAt, PipelineAssumption
  <2>6. Running = {} /\ Unrecorded = {}
    <3>1. Running = {}
      BY <2>2 DEF Running
    <3>2. ASSUME NEW t \in Target \X (1 .. 3) PROVE ~ (t[2] <= it[t[1]].calls)
      <4>1. t[1] \in Target /\ t[2] \in 1 .. 3
        OBVIOUS
      <4> QED BY <2>2, <4>1
    <3> QED BY <3>1, <3>2 DEF Unrecorded
  <2>7. Cardinality(Running) = 0 /\ Cardinality(Unrecorded) = 0
    BY <2>6, FS_EmptySet
  <2>8. spent = 0 /\ recorded = 0 /\ lost = 0
    BY DEF Init
  <2>9. SpendBounded
    <3>1. \A a \in Nat \ {0}, b \in 2 .. 3 : a * b \in Nat \ {0}
      OBVIOUS
    <3>2. PICK w \in Nat \ {0} : w = Workers * CallsOfAPost
      BY <3>1 DEF PipelineAssumption
    <3> QED BY <2>8, <3>2 DEF SpendBounded, PipelineAssumption
  <2>10. 0 <= Workers /\ spent = recorded + lost + Cardinality(Unrecorded)
    BY <2>7, <2>8 DEF PipelineAssumption
  <2> QED BY <2>3, <2>4, <2>5, <2>7, <2>9, <2>10 DEF IInv, BudgetInv
<1>2. IInv /\ [Next]_vars => IInv'
  <2> SUFFICES ASSUME IInv, [Next]_vars PROVE IInv'
    OBVIOUS
  <2>0. Types /\ BudgetInv
    BY DEF IInv
  <2>1. CASE UNCHANGED vars
    BY <2>1 DEF vars, IInv, Types, PublishedIsBacked, BudgetInv, Running, Unrecorded, SpendBounded
  <2>2. ASSUME NEW i \in Target, NEW p \in Post, NEW n \in 0 .. 1, Advance(i, p, n)
        PROVE  IInv'
    BY <2>2, AdvanceKeeps
  <2>3. ASSUME NEW i \in Target,
               \/ Start(i) \/ Search(i) \/ PreCheck(i) \/ WholeContext(i)
               \/ Write(i) \/ Verify(i) \/ Validate(i) \/ Repair(i)
        PROVE  IInv'
    <3>1. \E p \in Post, n \in 0 .. 1 : Advance(i, p, n)
      BY <2>0, <2>3, StartAdvances, SearchAdvances, CheckAdvances, WriteAdvances, VerifyAdvances,
         ValidateAdvances, RepairAdvances
    <3> QED BY <2>2, <3>1
  <2>4. ASSUME NEW i \in Target, Record(i) \/ Throws(i) \/ NextRun(i)
        PROVE  IInv'
    BY <2>4, RecordKeeps, ThrowsKeeps, NextRunKeeps
  <2> QED BY <2>1, <2>3, <2>4 DEF Next
<1> QED BY <1>1, <1>2, PTL DEF Spec

\* Whatever a model writes, and whatever fails: what is about to be published
\* has each value from the text the model saw, in one list, and is empty only
\* where sources say so (runPipeline, validate-output.ts, prePassCheck).
THEOREM PublishedIsBackedHolds == PipelineAssumption => (Spec => []PublishedIsBacked)
<1>1. IInv => PublishedIsBacked
  BY DEF IInv
<1> QED BY <1>1, AlwaysInv, PTL

\* A run exceeds its token budget by no more than the posts under way spend,
\* and what exceptions left unrecorded: makeBudgetGuard, for every number of
\* workers and posts.
THEOREM SpendBoundedHolds == PipelineAssumption => (Spec => []SpendBounded)
<1>1. IInv => SpendBounded
  BY DEF IInv, BudgetInv
<1> QED BY <1>1, AlwaysInv, PTL

-----------------------------------------------------------------------------
(* Calls to other services                                                 *)

Asked == O!Kind \cup {"alt"}
Attempt == [n : O!Call, kind : Asked, step : {"sent", "ended"}, attempt : Nat, ok : BOOLEAN]

CallTypes ==
  /\ call \in {O!Idle} \cup Attempt
  /\ kind \in [O!Call -> O!Kind \cup {"none"}]
  /\ told \in [O!Call -> {"none", "ok", "thrown", "error", "empty"}]
  /\ made \in [O!Call -> Nat] /\ flight \in [O!Call -> Nat] /\ unsure \in [O!Call -> Nat]
  /\ accepted \subseteq O!Call /\ writer \in Nat
  /\ overtaken \in BOOLEAN /\ marking \in BOOLEAN /\ lastUsed \in BOOLEAN
  /\ throttle \in BOOLEAN /\ presumed \in BOOLEAN

\* What is asked of a call that was begun: the text of an image is asked for when
\* the image is there.
KindOfCall(c) ==
  kind[c.n] = c.kind \/ (c.kind = "alt" /\ kind[c.n] = "upload" /\ c.n \in accepted)

\* The call under way is the last one; it has succeeded, or no answer with
\* success was had yet, and it was not refused.
CallInv ==
  call # O!Idle =>
    /\ KindOfCall(call) /\ told[call.n] = "none"
    /\ \A n \in O!Call : kind[n] # "none" => n <= call.n
    /\ call.kind # "alt" => (call.n \in accepted <=> call.ok)
    /\ call.step = "sent" => ~ call.ok
    /\ call.step = "sent" \/ call.ok => call.n \notin refused
    /\ call.ok /\ call.kind = "update" => writer >= call.n \/ overtaken

\* Calls are made one after the other, and leave no trace before.
Unmade(n) == n \notin refused \cup accepted /\ made[n] = 0 /\ flight[n] = 0 /\ told[n] = "none"

OrderInv ==
  \A n \in O!Call :
    /\ kind[n] # "none" => \A m \in 1 .. n - 1 : kind[m] # "none"
    /\ kind[n] = "none" => Unmade(n)
    /\ n \in accepted => made[n] > 0

\* The write of the last use that is under way was called for.
UseInv == marking => accepted # {} \/ presumed

CallsInv == CallTypes /\ CallInv /\ OrderInv /\ UseInv /\ CallsAreHonest

LEMMA CallsInit ==
  ASSUME O!OutboundAssumption, O!Init
  PROVE  CallsInv
<1> USE DEF O!Init
<1>1. CallTypes
  BY DEF CallTypes, O!OutboundAssumption, O!Call
<1>2. CallInv /\ OrderInv /\ UseInv
  BY DEF CallInv, OrderInv, Unmade, UseInv
<1>3. CallsAreHonest
  BY DEF CallsAreHonest
<1> QED BY <1>1, <1>2, <1>3 DEF CallsInv

\* A call under way is of its number and kind.
LEMMA UnderWay ==
  ASSUME CallsInv, call # O!Idle
  PROVE  /\ call \in Attempt /\ kind[call.n] # "none"
         /\ call.kind # "alt" => kind[call.n] = call.kind
         /\ call.kind = "alt" => kind[call.n] = "upload" /\ call.n \in accepted
BY DEF CallsInv, CallTypes, CallInv, KindOfCall, Attempt, Asked, O!Kind

LEMMA AskKeeps ==
  ASSUME O!OutboundAssumption, CallsInv, O!Ask
  PROVE  CallsInv'
<1>1. PICK n \in O!Call, k \in O!Kind :
        /\ kind[n] = "none" /\ \A m \in 1 .. n - 1 : kind[m] # "none"
        /\ kind' = [kind EXCEPT ![n] = k]
        /\ call' = O!Asking(n, k)
  BY DEF O!Ask
<1>2. UNCHANGED <<told, made, flight, unsure, refused, accepted, alts, writer, overtaken, throttle,
                  marking, lastUsed, presumed>>
  BY DEF O!Ask, O!server, O!usage
<1> USE <1>1, <1>2 DEF CallsInv
<1>3. call' \in Attempt
  BY DEF Attempt, O!Asking, Asked
<1>4. CallTypes' /\ UseInv'
  BY <1>3 DEF CallTypes, UseInv
<1>5. \A m \in O!Call : kind[m] # "none" => m <= n
  <2> SUFFICES ASSUME NEW m \in O!Call, kind[m] # "none", m > n PROVE FALSE
    BY DEF O!Call, O!OutboundAssumption
  <2> QED BY DEF OrderInv, O!Call, O!OutboundAssumption
<1>6. CallInv'
  <2>1. Unmade(n)
    BY DEF OrderInv
  <2> QED BY <2>1, <1>5 DEF CallInv, CallTypes, KindOfCall, Unmade, O!Asking, O!Call, O!OutboundAssumption
<1>7. OrderInv'
  BY DEF OrderInv, CallTypes, Unmade, O!Kind, O!Call, O!OutboundAssumption
<1>8. CallsAreHonest'
  <2>1. Unmade(n)
    BY DEF OrderInv
  <2> QED BY <2>1 DEF CallsAreHonest, CallTypes, Unmade
<1> QED BY <1>4, <1>6, <1>7, <1>8

LEMMA AcceptedKeeps ==
  ASSUME O!OutboundAssumption, CallsInv, O!Accepted
  PROVE  CallsInv'
<1> USE DEF CallsInv
<1>0. call # O!Idle
  BY DEF O!Accepted, O!Sent, O!Idle
<1> DEFINE n == call.n
<1>1. /\ call \in Attempt /\ n \in O!Call /\ kind[n] # "none" /\ KindOfCall(call)
      /\ n \notin refused /\ ~ call.ok /\ call.step = "sent"
      /\ call' = [call EXCEPT !.step = "ended", !.ok = TRUE]
      /\ accepted' = accepted \cup {n}
      /\ made' = [made EXCEPT ![n] = IF call.kind = "alt" THEN @ ELSE @ + 1]
      /\ writer' = IF kind[n] = "update" THEN n ELSE writer
      /\ UNCHANGED <<kind, told, flight, unsure, refused, alts, overtaken, throttle, marking, lastUsed, presumed>>
  BY <1>0, UnderWay DEF O!Accepted, O!Done, O!Sent, O!usage, CallInv, Attempt
<1> HIDE DEF n
<1>2. call' \in Attempt
  BY <1>1 DEF Attempt
<1>3. CallTypes' /\ UseInv'
  BY <1>1, <1>2 DEF CallTypes, UseInv, O!OutboundAssumption, O!Call
<1>4. CallInv'
  <2>1. call'.n = n /\ call'.kind = call.kind /\ call'.step = "ended" /\ call'.ok
    BY <1>1 DEF Attempt, n
  <2>2. KindOfCall(call)'
    BY <1>1, <2>1 DEF KindOfCall, n
  <2>3. \A m \in O!Call : kind'[m] # "none" => m <= call'.n
    BY <1>0, <1>1, <2>1 DEF CallInv, n
  <2>4. call'.kind = "update" => writer' >= n
    BY <1>1, <2>1 DEF KindOfCall, O!Call, n
  <2>5. told'[n] = "none"
    BY <1>0, <1>1 DEF CallInv, n
  <2> QED BY <1>1, <2>1, <2>2, <2>3, <2>4, <2>5 DEF CallInv
<1>5. OrderInv'
  <2>1. made'[n] > 0
    BY <1>0, <1>1, UnderWay DEF OrderInv, CallTypes, n
  <2> QED BY <1>1, <2>1 DEF OrderInv, CallTypes, Unmade
<1>6. CallsAreHonest'
  <2>1. \A m \in O!Call : kind[m] # "none" => m <= n
    BY <1>0 DEF CallInv, n
  <2>2. \A m \in O!Call : told[m] = "ok" => kind[m] # "none"
    BY DEF OrderInv, Unmade
  <2>3. \A m \in O!Call : made'[m] + flight'[m] <= unsure'[m] + (IF m \in accepted' THEN 1 ELSE 0)
    <3>1. call.kind # "alt" => n \notin accepted
      BY <1>0, <1>1 DEF CallInv, n
    <3>2. call.kind = "alt" => n \in accepted
      BY <1>0, <1>1, UnderWay DEF n
    <3> QED BY <1>1, <3>1, <3>2 DEF CallsAreHonest, CallTypes
  <2>4. \A m \in O!Call : told'[m] = "ok" => m \notin refused' /\ made'[m] > 0
    BY <1>1 DEF CallsAreHonest, CallTypes
  <2>5. \A m \in O!Call : told'[m] = "ok" /\ kind'[m] = "update" => writer' >= m \/ overtaken'
    BY <1>1, <2>1, <2>2 DEF CallsAreHonest, CallTypes, O!Call
  <2>6. \A m \in O!Call : told'[m] = "ok" /\ kind'[m] = "upload" => m \in alts'
    BY <1>1 DEF CallsAreHonest, CallTypes
  <2>7. (lastUsed => accepted # {} \/ presumed)' /\ DOMAIN told' = O!Call
    BY <1>1 DEF CallsAreHonest, CallTypes
  <2> QED BY <2>3, <2>4, <2>5, <2>6, <2>7 DEF CallsAreHonest
<1> QED BY <1>3, <1>4, <1>5, <1>6

\* An attempt that fails: the call is sent again or ends, without success.
LEMMA AgainKeeps ==
  ASSUME O!OutboundAssumption, CallsInv, NEW status, O!Sent, O!Again(status),
         status = "4xx" \/ call.n \notin refused'
  PROVE  /\ call \in Attempt /\ call' \in Attempt /\ call # O!Idle /\ call' # O!Idle
         /\ call'.n = call.n /\ call'.kind = call.kind /\ ~ call'.ok /\ ~ call.ok
         /\ call'.step = "ended" \/ call.n \notin refused'
<1>1. call # O!Idle /\ call.step = "sent"
  BY DEF O!Sent, O!Idle
<1>2. call \in Attempt /\ ~ call.ok
  BY <1>1 DEF CallsInv, CallTypes, CallInv
<1>3. call' \in {[call EXCEPT !.step = "ended"], [call EXCEPT !.attempt = @ + 1]}
  BY DEF O!Again
<1>4. status = "4xx" => call' = [call EXCEPT !.step = "ended"]
  BY DEF O!Again, O!Definitive
<1>5. call' # O!Idle
  BY <1>2, <1>3 DEF Attempt, Asked, O!Kind, O!Idle
<1>6. call' \in Attempt
  BY <1>2, <1>3 DEF Attempt
<1> QED BY <1>1, <1>2, <1>3, <1>4, <1>5, <1>6 DEF Attempt

LEMMA RefusedKeeps ==
  ASSUME O!OutboundAssumption, CallsInv, O!Refused
  PROVE  CallsInv'
<1>1. /\ call \in Attempt /\ call' \in Attempt /\ call # O!Idle /\ call' # O!Idle
      /\ call'.n = call.n /\ call'.kind = call.kind /\ ~ call'.ok /\ ~ call.ok
      /\ call'.step = "ended"
  <2>1. call.n \in refused' /\ O!Sent /\ O!Again("4xx")
    BY DEF O!Refused
  <2> QED BY <2>1, AgainKeeps
<1>2. /\ refused' = refused \cup {call.n}
      /\ UNCHANGED <<kind, told, made, flight, writer, overtaken, unsure, accepted, alts, throttle,
                     marking, lastUsed, presumed>>
  BY DEF O!Refused, O!server, O!usage
<1> USE <1>1, <1>2 DEF CallsInv
<1>3. CallTypes' /\ UseInv'
  BY DEF CallTypes, UseInv
<1>4. CallInv'
  BY DEF CallInv, KindOfCall
<1>5. OrderInv'
  BY UnderWay DEF OrderInv, Unmade
<1>6. CallsAreHonest'
  <2>1. told[call.n] # "ok"
    BY DEF CallInv
  <2> QED BY <2>1 DEF CallsAreHonest, CallTypes
<1> QED BY <1>3, <1>4, <1>5, <1>6

LEMMA UnansweredKeeps ==
  ASSUME O!OutboundAssumption, CallsInv, O!Unanswered
  PROVE  CallsInv'
<1> DEFINE n == call.n
<1>1. /\ call \in Attempt /\ call' \in Attempt /\ call # O!Idle /\ call' # O!Idle
      /\ call'.n = n /\ call'.kind = call.kind /\ ~ call'.ok /\ ~ call.ok
      /\ n \in O!Call /\ n \notin refused /\ kind[n] # "none"
  <2>1. call # O!Idle
    BY DEF O!Unanswered, O!Sent, O!Idle
  <2>2. call.n \notin refused'
    BY <2>1 DEF CallsInv, CallInv, O!Unanswered, O!Sent
  <2>3. O!Sent /\ O!Again("5xx") /\ refused' = refused
    BY DEF O!Unanswered
  <2> QED BY <2>1, <2>2, <2>3, AgainKeeps, UnderWay DEF Attempt
<1>2. /\ unsure' = [unsure EXCEPT ![n] = @ + 1]
      /\ UNCHANGED <<kind, told, refused, accepted, alts, overtaken, throttle, marking, lastUsed, presumed>>
  BY DEF O!Unanswered, O!usage
<1>3. \/ /\ made' \in {made, [made EXCEPT ![n] = @ + 1]} /\ flight' = flight
         /\ writer' = IF kind[n] = "update" THEN n ELSE writer
      \/ flight' = [flight EXCEPT ![n] = @ + 1] /\ made' = made /\ writer' = writer
      \/ made' = made /\ writer' = writer /\ flight' = flight
  <2>1. made' = made \/ made' = [made EXCEPT ![n] = @ + 1] \/ ~ O!Done(n)
    BY DEF O!Done, CallsInv, CallTypes
  <2> QED BY <2>1 DEF O!Unanswered, O!Done
<1> HIDE DEF n
<1>0. O!Call \subseteq Nat
  BY DEF O!OutboundAssumption, O!Call
<1> USE <1>1, <1>2, <1>3 DEF CallsInv
<1>4. CallTypes' /\ UseInv'
  <2>1. made' \in [O!Call -> Nat] /\ flight' \in [O!Call -> Nat] /\ unsure' \in [O!Call -> Nat]
    BY DEF CallTypes
  <2>2. writer' \in Nat
    BY <1>0 DEF CallTypes
  <2> QED BY <2>1, <2>2 DEF CallTypes, UseInv
<1>5. CallInv'
  BY DEF CallInv, KindOfCall, n
<1>6. OrderInv'
  BY DEF OrderInv, Unmade, CallTypes
<1>7. CallsAreHonest'
  <2>1. \A m \in O!Call : kind[m] # "none" => m <= n
    BY DEF CallInv, n
  <2>2. \A m \in O!Call : told[m] = "ok" => kind[m] # "none"
    BY DEF OrderInv, Unmade
  <2>3. \A m \in O!Call : made'[m] + flight'[m] <= unsure'[m] + (IF m \in accepted' THEN 1 ELSE 0)
    BY DEF CallsAreHonest, CallTypes
  <2>4. \A m \in O!Call : told'[m] = "ok" => m \notin refused' /\ made'[m] > 0
    BY DEF CallsAreHonest, CallTypes
  <2>5. \A m \in O!Call : told'[m] = "ok" /\ kind'[m] = "update" => writer' >= m \/ overtaken'
    BY <2>1, <2>2 DEF CallsAreHonest, CallTypes, O!Call
  <2>6. \A m \in O!Call : told'[m] = "ok" /\ kind'[m] = "upload" => m \in alts'
    BY DEF CallsAreHonest, CallTypes
  <2>7. (lastUsed => accepted # {} \/ presumed)' /\ DOMAIN told' = O!Call
    BY DEF CallsAreHonest, CallTypes
  <2> QED BY <2>3, <2>4, <2>5, <2>6, <2>7 DEF CallsAreHonest
<1> QED BY <1>4, <1>5, <1>6, <1>7

\* An attempt that lands late goes over the post; over a later write it is known.
LEMMA LateKeeps ==
  ASSUME O!OutboundAssumption, CallsInv, O!Late
  PROVE  CallsInv'
<1>1. PICK n \in O!Call :
        /\ flight[n] > 0
        /\ flight' = [flight EXCEPT ![n] = @ - 1]
        /\ made' = [made EXCEPT ![n] = @ + 1]
        /\ writer' = IF kind[n] = "update" THEN n ELSE writer
        /\ overtaken' = (overtaken \/ (kind[n] = "update" /\ n < writer))
  BY DEF O!Late
<1>2. UNCHANGED <<call, told, kind, unsure, refused, accepted, alts, throttle, marking, lastUsed, presumed>>
  BY DEF O!Late, O!history, O!usage
<1>0. O!Call \subseteq Nat
  BY DEF O!OutboundAssumption, O!Call
<1> USE <1>1, <1>2 DEF CallsInv
<1>3. CallTypes' /\ UseInv'
  <2>1. made' \in [O!Call -> Nat] /\ flight' \in [O!Call -> Nat]
    BY DEF CallTypes
  <2>2. writer' \in Nat
    BY <1>0 DEF CallTypes
  <2> QED BY <2>1, <2>2 DEF CallTypes, UseInv
<1>7. ASSUME NEW m \in Nat, writer >= m \/ overtaken
      PROVE  writer' >= m \/ overtaken'
  <2>1. CASE overtaken \/ (kind[n] = "update" /\ n < writer)
    BY <2>1
  <2>2. CASE ~ overtaken /\ ~ (kind[n] = "update" /\ n < writer)
    BY <1>0, <1>7, <2>2 DEF CallTypes
  <2> QED BY <2>1, <2>2
<1>4. CallInv'
  <2>1. call # O!Idle => call.n \in Nat
    BY <1>0 DEF CallTypes, Attempt
  <2> QED BY <1>7, <2>1 DEF CallInv, KindOfCall
<1>5. OrderInv'
  BY DEF OrderInv, Unmade, CallTypes
<1>6. CallsAreHonest'
  <2>1. \A m \in O!Call : told'[m] = "ok" /\ kind'[m] = "update" => writer' >= m \/ overtaken'
    BY <1>0, <1>7 DEF CallsAreHonest, CallTypes
  <2>2. \A m \in O!Call : made'[m] + flight'[m] <= unsure'[m] + (IF m \in accepted' THEN 1 ELSE 0)
    BY DEF CallsAreHonest, CallTypes
  <2>3. \A m \in O!Call : told'[m] = "ok" => m \notin refused' /\ made'[m] > 0
    BY DEF CallsAreHonest, CallTypes
  <2> QED BY <2>1, <2>2, <2>3 DEF CallsAreHonest, CallTypes
<1> QED BY <1>3, <1>4, <1>5, <1>6

LEMMA MarkedKeeps ==
  ASSUME CallsInv, O!Marked \/ O!Minute
  PROVE  CallsInv'
<1>1. UNCHANGED <<call, told, made, flight, writer, overtaken, kind, unsure, refused, accepted, alts,
                  presumed>>
  BY DEF O!Marked, O!Minute, O!server, O!history
<1>2. /\ throttle' = throttle \/ throttle' = FALSE
      /\ marking' = marking \/ marking' = FALSE
      /\ lastUsed' = lastUsed \/ (marking /\ lastUsed' = TRUE)
  BY DEF O!Marked, O!Minute
<1> USE <1>1, <1>2 DEF CallsInv
<1>3. CallTypes'
  <2>1. throttle' \in BOOLEAN /\ marking' \in BOOLEAN /\ lastUsed' \in BOOLEAN
    BY DEF CallTypes
  <2> QED BY <1>1, <2>1 DEF CallTypes
<1>6. UseInv'
  BY DEF UseInv
<1>4. CallInv' /\ OrderInv'
  BY DEF CallInv, KindOfCall, OrderInv, Unmade
<1>5. CallsAreHonest'
  BY DEF CallsAreHonest, UseInv
<1> QED BY <1>3, <1>4, <1>5, <1>6

-----------------------------------------------------------------------------
(* What a caller is told                                                   *)

\* A client that tells what became of its call tells the truth when it says "ok"
\* of a call that succeeded, an image with its text included.
LEMMA TellKeeps ==
  ASSUME CallsInv, call.step = "ended", NEW v \in {"ok", "thrown", "error", "empty"},
         O!Tell(v), v = "ok" => call.ok /\ (kind[call.n] = "upload" => call.n \in alts'),
         UNCHANGED <<made, flight, writer, overtaken, kind, unsure, refused, accepted>>,
         alts \subseteq alts', presumed' \in BOOLEAN, presumed => presumed',
         throttle' \in BOOLEAN, marking' \in BOOLEAN, lastUsed' \in BOOLEAN,
         marking' \/ lastUsed' => accepted # {} \/ presumed'
  PROVE  CallsInv'
<1> DEFINE n == call.n
<1>1. call # O!Idle /\ call \in Attempt /\ n \in O!Call /\ KindOfCall(call) /\ kind[n] # "none"
  <2>1. call # O!Idle
    BY DEF O!Idle
  <2> QED BY <2>1, UnderWay DEF CallsInv, CallInv, Attempt
<1>2. call' = O!Idle /\ told' = [told EXCEPT ![n] = v]
  BY DEF O!Tell
<1>3. v = "ok" =>
        /\ n \notin refused /\ made[n] > 0
        /\ kind[n] = "update" => writer >= n \/ overtaken
  <2> SUFFICES ASSUME v = "ok" PROVE /\ n \notin refused /\ made[n] > 0
                                     /\ kind[n] = "update" => writer >= n \/ overtaken
    OBVIOUS
  <2>1. n \in accepted
    BY <1>1, UnderWay DEF CallsInv, CallInv
  <2>2. kind[n] = "update" => call.kind = "update"
    BY <1>1 DEF KindOfCall
  <2> QED BY <1>1, <2>1, <2>2 DEF CallsInv, CallInv, OrderInv
<1> HIDE DEF n
<1> USE <1>1, <1>2 DEF CallsInv
<1>4. CallTypes' /\ CallInv' /\ UseInv'
  BY DEF CallTypes, CallInv, UseInv
<1>5. OrderInv'
  BY DEF CallTypes, OrderInv, Unmade
<1>6. CallsAreHonest'
  <2>1. v = "ok" /\ kind[n] = "upload" => n \in alts'
    BY DEF n
  <2> QED BY <1>3, <2>1 DEF CallsAreHonest, CallTypes
<1> QED BY <1>4, <1>5, <1>6

\* A write of the last use is called for by a use.
LEMMA TouchKeeps ==
  ASSUME CallsInv, NEW late \in BOOLEAN, O!Touch(late),
         presumed => presumed', late => accepted # {} \/ presumed'
  PROVE  /\ throttle' \in BOOLEAN /\ marking' \in BOOLEAN /\ lastUsed' \in BOOLEAN
         /\ marking' \/ lastUsed' => accepted # {} \/ presumed'
<1>1. throttle' \in BOOLEAN /\ marking' \in BOOLEAN /\ lastUsed' = lastUsed
  BY DEF O!Touch
<1>2. marking' => marking \/ late
  BY DEF O!Touch
<1> QED BY <1>1, <1>2 DEF CallsInv, CallTypes, UseInv, CallsAreHonest

\* Who succeeded was accepted.
LEMMA EndedWell ==
  ASSUME CallsInv, call.step = "ended"
  PROVE  /\ call \in Attempt /\ call # O!Idle /\ call.ok \in BOOLEAN /\ KindOfCall(call)
         /\ call.ok => accepted # {}
<1>1. call # O!Idle
  BY DEF O!Idle
<1> QED BY <1>1, UnderWay DEF CallsInv, CallInv, Attempt

LEMMA RequestKeeps ==
  ASSUME CallsInv, O!Request \/ O!Search
  PROVE  CallsInv'
<1>1. /\ call.step = "ended" /\ call.kind \in {"update", "create", "search", "extract"}
      /\ \E v \in {"ok", "thrown", "error"} : O!Tell(v) /\ (v = "ok" => call.ok)
      /\ O!Touch(call.ok)
      /\ UNCHANGED <<made, flight, writer, overtaken, kind, unsure, refused, accepted, alts, presumed>>
  BY DEF O!Request, O!Search, O!Ended, O!Result, O!server, O!history
<1>2. kind[call.n] # "upload"
  BY <1>1, EndedWell DEF KindOfCall
<1>3. presumed' = presumed /\ presumed \in BOOLEAN
  BY <1>1 DEF CallsInv, CallTypes
<1>4. /\ throttle' \in BOOLEAN /\ marking' \in BOOLEAN /\ lastUsed' \in BOOLEAN
      /\ marking' \/ lastUsed' => accepted # {} \/ presumed'
  BY <1>1, <1>3, EndedWell, TouchKeeps
<1> QED BY <1>1, <1>2, <1>3, <1>4, TellKeeps

LEMMA CompleteKeeps ==
  ASSUME CallsInv, O!Complete \/ O!Generate
  PROVE  CallsInv'
<1>1. /\ call.step = "ended" /\ call.kind \in {"complete", "generate"}
      /\ UNCHANGED <<made, flight, writer, overtaken, kind, unsure, refused, accepted, alts, presumed>>
  BY DEF O!Complete, O!Generate, O!Ended, O!server, O!history
<1>2. PICK sound \in BOOLEAN :
        O!Tell(IF call.ok /\ sound THEN "ok" ELSE "thrown") /\ O!Touch(call.ok /\ sound)
  BY DEF O!Complete, O!Generate
<1>3. kind[call.n] # "upload"
  BY <1>1, EndedWell DEF KindOfCall
<1>4. presumed' = presumed /\ presumed \in BOOLEAN
  BY <1>1 DEF CallsInv, CallTypes
<1>5. (call.ok /\ sound) \in BOOLEAN /\ (call.ok /\ sound => accepted # {})
  BY <1>1, EndedWell
<1>6. /\ throttle' \in BOOLEAN /\ marking' \in BOOLEAN /\ lastUsed' \in BOOLEAN
      /\ marking' \/ lastUsed' => accepted # {} \/ presumed'
  BY <1>2, <1>4, <1>5, TouchKeeps
<1>7. \E v \in {"ok", "thrown"} : O!Tell(v) /\ (v = "ok" => call.ok)
  BY <1>2
<1> QED BY <1>1, <1>3, <1>4, <1>6, <1>7, TellKeeps

\* A list that is empty for an error counts as a use: it is presumed.
LEMMA SearchImagesKeeps ==
  ASSUME CallsInv, O!SearchImages
  PROVE  CallsInv'
<1>1. /\ call.step = "ended" /\ call.kind = "searchImages"
      /\ UNCHANGED <<made, flight, writer, overtaken, kind, unsure, refused, accepted, alts>>
      /\ presumed' = (presumed \/ ~ call.ok) /\ O!Touch(TRUE)
      /\ \E v \in {"ok", "empty"} : O!Tell(v) /\ (v = "ok" => call.ok)
  BY DEF O!SearchImages, O!Ended, O!server, O!history
<1>2. kind[call.n] # "upload"
  BY <1>1, EndedWell DEF KindOfCall
<1>3. presumed' \in BOOLEAN /\ (presumed => presumed') /\ (accepted # {} \/ presumed')
  BY <1>1, EndedWell
<1>4. /\ throttle' \in BOOLEAN /\ marking' \in BOOLEAN /\ lastUsed' \in BOOLEAN
      /\ marking' \/ lastUsed' => accepted # {} \/ presumed'
  BY <1>1, <1>3, TouchKeeps
<1> QED BY <1>1, <1>2, <1>3, <1>4, TellKeeps

\* So does the last use that the test of a site writes.
LEMMA TestKeeps ==
  ASSUME CallsInv, O!Test
  PROVE  CallsInv'
<1>1. /\ call.step = "ended" /\ call.kind = "test" /\ lastUsed' = TRUE
      /\ UNCHANGED <<made, flight, writer, overtaken, kind, unsure, refused, accepted, alts, throttle, marking>>
      /\ presumed' = (presumed \/ ~ call.ok)
      /\ \E v \in {"ok", "error"} : O!Tell(v) /\ (v = "ok" => call.ok)
  BY DEF O!Test, O!Ended, O!server, O!history
<1>2. kind[call.n] # "upload"
  BY <1>1, EndedWell DEF KindOfCall
<1>3. presumed' \in BOOLEAN /\ (presumed => presumed') /\ (accepted # {} \/ presumed')
  BY <1>1, EndedWell
<1>4. throttle' \in BOOLEAN /\ marking' \in BOOLEAN
  BY <1>1 DEF CallsInv, CallTypes
<1> QED BY <1>1, <1>2, <1>3, <1>4, TellKeeps

\* An image is told of when its text is there, or without "ok".
LEMMA MediaKeeps ==
  ASSUME CallsInv, O!UpdateMedia
  PROVE  CallsInv'
<1>1. /\ call.step = "ended" /\ O!Touch(call.ok)
      /\ UNCHANGED <<made, flight, writer, overtaken, kind, unsure, refused, accepted, presumed>>
      /\ alts' = IF call.ok THEN alts \cup {call.n} ELSE alts
      /\ \E v \in {"ok", "thrown"} : O!Tell(v) /\ (v = "ok" => call.ok)
  BY DEF O!UpdateMedia, O!Ended, O!Result, O!server, O!history
<1>2. presumed' = presumed /\ presumed \in BOOLEAN /\ alts \subseteq alts' /\ (call.ok => call.n \in alts')
  BY <1>1 DEF CallsInv, CallTypes
<1>3. /\ throttle' \in BOOLEAN /\ marking' \in BOOLEAN /\ lastUsed' \in BOOLEAN
      /\ marking' \/ lastUsed' => accepted # {} \/ presumed'
  BY <1>1, <1>2, EndedWell, TouchKeeps
<1> QED BY <1>1, <1>2, <1>3, TellKeeps

LEMMA UploadKeeps ==
  ASSUME CallsInv, O!Upload
  PROVE  CallsInv'
<1>1. /\ call.step = "ended" /\ call.kind = "upload"
      /\ UNCHANGED <<made, flight, writer, overtaken, kind, unsure, refused, accepted, alts, presumed>>
  BY DEF O!Upload, O!Ended, O!server, O!history
<1>2. presumed' = presumed /\ presumed \in BOOLEAN
  BY <1>1 DEF CallsInv, CallTypes
<1>3. CASE ~ call.ok
  <2>1. O!Tell("thrown") /\ O!Touch(FALSE)
    BY <1>3 DEF O!Upload
  <2>2. /\ throttle' \in BOOLEAN /\ marking' \in BOOLEAN /\ lastUsed' \in BOOLEAN
        /\ marking' \/ lastUsed' => accepted # {} \/ presumed'
    BY <1>2, <2>1, TouchKeeps
  <2> QED BY <1>1, <1>2, <2>1, <2>2, TellKeeps
<1>4. CASE call.ok
  <2>1. /\ call' = O!Asking(call.n, "alt")
        /\ UNCHANGED <<told, throttle, marking, lastUsed>>
    BY <1>4 DEF O!Upload, O!usage
  <2>2. call # O!Idle /\ call \in Attempt /\ kind[call.n] = "upload" /\ call.n \in accepted
    BY <1>1, <1>4, EndedWell DEF CallsInv, CallInv, KindOfCall
  <2>3. /\ call' \in Attempt /\ call'.n = call.n /\ call'.kind = "alt" /\ ~ call'.ok
        /\ call'.step = "sent"
    BY <2>1, <2>2 DEF Attempt, Asked, O!Asking
  <2> USE <1>1, <2>1 DEF CallsInv
  <2>4. CallTypes' /\ UseInv'
    BY <2>3 DEF CallTypes, UseInv
  <2>5. CallInv'
    BY <1>4, <2>2, <2>3 DEF CallInv, KindOfCall
  <2>6. OrderInv' /\ CallsAreHonest'
    BY DEF OrderInv, Unmade, CallsAreHonest
  <2> QED BY <2>4, <2>5, <2>6
<1>5. call.ok \in BOOLEAN
  BY <1>1, EndedWell
<1> QED BY <1>3, <1>4, <1>5

\* Whatever is lost on the way, and whenever a request given up is carried out
\* all the same: what fetchWithRetry and the clients tell is so, and a key shown
\* as used was.
THEOREM CallsAreHonestHolds == O!OutboundAssumption => (O!Spec => []CallsAreHonest)
<1> SUFFICES ASSUME O!OutboundAssumption PROVE O!Spec => []CallsAreHonest
  OBVIOUS
<1>1. O!Init => CallsInv
  BY CallsInit
<1>2. CallsInv /\ [O!Next]_O!vars => CallsInv'
  <2> SUFFICES ASSUME CallsInv, [O!Next]_O!vars PROVE CallsInv'
    OBVIOUS
  <2>1. CASE UNCHANGED O!vars
    BY <2>1 DEF O!vars, CallsInv, CallTypes, CallInv, KindOfCall, OrderInv, Unmade, UseInv, CallsAreHonest
  <2>2. CASE O!Next
    BY <2>2, AskKeeps, AcceptedKeeps, RefusedKeeps, UnansweredKeeps, LateKeeps, MarkedKeeps,
       RequestKeeps, UploadKeeps, MediaKeeps, TestKeeps, SearchImagesKeeps, CompleteKeeps DEF O!Next
  <2> QED BY <2>1, <2>2
<1>3. CallsInv => CallsAreHonest
  BY DEF CallsInv
<1> QED BY <1>1, <1>2, <1>3, PTL DEF O!Spec
=============================================================================
