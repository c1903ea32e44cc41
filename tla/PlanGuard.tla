------------------------------- MODULE PlanGuard -------------------------------
(***************************************************************************)
(* What a plan allows a workspace (packages/core/src/billing/plans.ts,     *)
(* apps/worker/src/lib/plan-guard.ts, apps/web/src/lib/billing.ts): posts  *)
(* in a month, sites, autopilots.  A guard reads the plan, whether the     *)
(* workspace has a key of its own, and what is used, and only then the     *)
(* work is done that counts as use: minutes later for a post.              *)
(***************************************************************************)
EXTENDS Integers

CONSTANTS
  Work,     \* generations and panel requests under way at once
  Limit,    \* Limit[p][k]: what plan p allows of kind k
  MaxUse    \* bound on what is used

VARIABLES
  account,  \* the subscription, billingBypass, and whether a key of its own is stored
  used,     \* used[k]: posts created this month, sites
  work,     \* work[w]: what w is about to use, and what it has read
  peak      \* history: peak[k], the most a guard may have allowed of k (of posts, this month)

vars == <<account, used, work, peak>>

\* "site" stands for autopilots too: the same guard with a limit of its own.
Kind == {"post", "site"}
PlanId == {"free", "starter", "unlimited"}
Boundless == 1000000
Idle == [kind |-> "none", pc |-> "idle", plan |-> "free", limit |-> 0]

\* getWorkspacePlan and effectivePlan: the exemption first, then the
\* subscription ("active" stands for trialing and past_due too).
WorkspacePlan(a) ==
  IF a.bypass THEN "unlimited"
  ELSE IF a.status = "active" THEN a.plan ELSE "free"

Raw(p, k) == IF p = "unlimited" THEN Boundless ELSE Limit[p][k]

\* withByokConsumption: a key of its own lifts the limits of consumption only.
LimitOf(p, k, byok) == IF byok /\ k = "post" THEN Boundless ELSE Raw(p, k)

Greatest(a, b) == IF a > b THEN a ELSE b
Allowed(a, k) == IF a.byok /\ k = "post" THEN Boundless ELSE Raw(WorkspacePlan(a), k)

Init ==
  /\ account = [plan |-> "free", status |-> "active", bypass |-> FALSE, byok |-> FALSE]
  /\ used = [k \in Kind |-> 0]
  /\ work = [w \in Work |-> Idle]
  /\ peak = [k \in Kind |-> Raw("free", k)]

Now(a) ==
  /\ account' = a
  /\ peak' = [k \in Kind |-> Greatest(peak[k], Allowed(a, k))]
  /\ UNCHANGED <<used, work>>

\* The webhook of Stripe.
Subscribe(p, s) ==
  /\ <<p, s>> # <<account.plan, account.status>>
  /\ Now([account EXCEPT !.plan = p, !.status = s])

\* workspaces.billingBypass, which nothing in the panel writes.
Exempt == ~ account.bypass /\ Now([account EXCEPT !.bypass = TRUE])

\* createCredentialAction and deleteCredentialAction.
ToggleOwnKey == Now([account EXCEPT !.byok = ~ @])

\* monthStart: the posts of an earlier month no longer count.
NewMonth ==
  /\ used["post"] > 0
  /\ used' = [used EXCEPT !["post"] = 0]
  /\ peak' = [peak EXCEPT !["post"] = Allowed(account, "post")]
  /\ UNCHANGED <<account, work>>

-----------------------------------------------------------------------------

ReadPlan(w, k) ==
  /\ work[w] = Idle
  /\ work' = [work EXCEPT ![w] =
       [kind |-> k, pc |-> "plan", plan |-> WorkspacePlan(account), limit |-> 0]]
  /\ UNCHANGED <<account, used, peak>>

\* consumptionPlan: the keys are read after the plan.
ReadKeys(w) ==
  /\ work[w].pc = "plan"
  /\ work' = [work EXCEPT ![w].pc = "limit",
                          ![w].limit = LimitOf(work[w].plan, work[w].kind, account.byok)]
  /\ UNCHANGED <<account, used, peak>>

Passes(use, limit) == use < limit

\* The guard: PlanLimitError, or the work goes on.
ReadUse(w) ==
  /\ work[w].pc = "limit"
  /\ work' = [work EXCEPT ![w] =
       IF Passes(used[work[w].kind], work[w].limit) THEN [@ EXCEPT !.pc = "act"] ELSE Idle]
  /\ UNCHANGED <<account, used, peak>>

\* The insert of the item "created", of the site, of the autopilot.
Use(w) ==
  /\ work[w].pc = "act" /\ used[work[w].kind] < MaxUse
  /\ used' = [used EXCEPT ![work[w].kind] = @ + 1]
  /\ work' = [work EXCEPT ![w] = Idle]
  /\ UNCHANGED <<account, peak>>

\* The generation fails or is stopped, the form is refused for another reason.
GiveUp(w) ==
  /\ work[w].pc = "act"
  /\ work' = [work EXCEPT ![w] = Idle]
  /\ UNCHANGED <<account, used, peak>>

\* deleteSiteAction, deleteAutopilotAction.
Remove(k) ==
  /\ k # "post" /\ used[k] > 0
  /\ used' = [used EXCEPT ![k] = @ - 1]
  /\ UNCHANGED <<account, work, peak>>

Next ==
  \/ \E p \in {"free", "starter"}, s \in {"active", "canceled"} : Subscribe(p, s)
  \/ Exempt \/ ToggleOwnKey \/ NewMonth
  \/ \E w \in Work :
       \/ ReadKeys(w) \/ ReadUse(w) \/ Use(w) \/ GiveUp(w)
       \/ \E k \in Kind : ReadPlan(w, k)
  \/ \E k \in Kind : Remove(k)

Spec == Init /\ [][Next]_vars

-----------------------------------------------------------------------------

TypeOK ==
  /\ account \in [plan : {"free", "starter"}, status : {"active", "canceled"},
                  bypass : BOOLEAN, byok : BOOLEAN]
  /\ used \in [Kind -> 0 .. MaxUse]
  /\ work \in [Work -> [kind : Kind \cup {"none"}, pc : {"idle", "plan", "limit", "act"},
                        plan : PlanId, limit : Nat]]
=============================================================================
