------------------------------- MODULE Backing -------------------------------
(***************************************************************************)
(* What must be true of a text before it is published, and of what a run   *)
(* has spent: the promises of packages/core/src/pipeline, seen from        *)
(* outside. A call of a model is one unit of the run's token budget, and   *)
(* is in llm_calls only when its post has ended.                           *)
(***************************************************************************)
EXTENDS Naturals

CONSTANTS
  MinSources,    \* extraction.minSourcesForEmptyClaim
  Budget,        \* tokenBudgetPerRun
  Workers,       \* WORKER_CONCURRENCY: posts at a time
  CallsOfAPost   \* the calls that one post may make

VARIABLES
  conf,       \* the job and its template
  it,         \* the posts: step, sources, what the model sees, the draft
  spent,      \* tokens the run has used
  recorded,   \* tokens in llm_calls
  lost        \* history: tokens of exceptions, which are not recorded

Values(l) == l.active \cup l.expired

\* "every value published appears literally in the text of the sources"
\* (validate-output.ts 92), whichever of the two model calls, the verification
\* that failed open, the repair or an earlier run it comes from; no value is at
\* once active and expired, and a post without values says that there are none
\* and had the sources to say so.
PublishedIsBacked ==
  \A i \in DOMAIN it :
    LET l == it[i].draft.lists
    IN  /\ it[i].pc = "refreshed" => l.active \subseteq it[i].sources.values
        /\ it[i].pc = "ready" /\ conf.extract =>
             /\ Values(l) \subseteq it[i].prompt
             /\ l.active \cap l.expired = {}
             /\ Values(l) = {} => it[i].draft.none
             /\ it[i].draft.none => it[i].sources.count >= MinSources

\* makeBudgetGuard sums what is recorded.
OutOfBudget == recorded >= Budget

\* The budget is asked before each call, of what finished posts have recorded:
\* the posts under way when it runs out may finish, and what an exception left
\* unrecorded is spent again.
SpendBounded == spent <= Budget - 1 + Workers * CallsOfAPost + lost
=============================================================================
