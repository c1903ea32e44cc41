----------------------------- MODULE Subscription -----------------------------
(***************************************************************************)
(* The plan of a workspace and the subscriptions that pay for it: what the *)
(* webhook of Stripe must keep true (apps/web/src/app/api/stripe/webhook,  *)
(* packages/core/src/billing/plans.ts).                                    *)
(***************************************************************************)
EXTENDS Integers, Sequences

CONSTANT Hook  \* webhook requests handled at once

VARIABLES
  subs,     \* Stripe: subs[i] is the i-th subscription of the workspace
  events,   \* Stripe: events[n] is the n-th event, and whether it was answered
  row,      \* the row of subscriptions
  hook,     \* hook[h]: the event request h handles, and what it fetched
  straight  \* history: one subscription at a time, its events delivered once, in order

Plan == {"starter", "pro"}
Handling == {hook[h].event : h \in Hook} \ {0}

\* effectivePlan (packages/core/src/billing/plans.ts).
Effective(r) == IF r.status \in {"active", "past_due"} THEN r.plan ELSE "free"

\* The plan the subscriptions of the workspace pay for.
Paid == {subs[i].price : i \in {j \in DOMAIN subs : subs[j].status \in {"active", "past_due"}}}

Quiet == (\A n \in DOMAIN events : events[n].done) /\ Handling = {}

\* When every event was delivered once, in the order it was made, to a workspace
\* with one subscription at a time, the panel says what Stripe charges.
ChargedAsPaid ==
  straight /\ Quiet /\ Paid \subseteq Plan => Effective(row) \in (IF Paid = {} THEN {"free"} ELSE Paid)

\* The comment of the webhook: events repeated or out of order converge to the
\* present state of the subscription at Stripe.
Converges ==
  Quiet /\ Len(subs) = 1 /\ (\A n \in DOMAIN events : events[n].sub.price \in Plan) =>
    Effective(row) \in (IF Paid = {} THEN {"free"} ELSE Paid)
=============================================================================
