----------------------------- MODULE StripeWebhook -----------------------------
(***************************************************************************)
(* The paid plan of one workspace: Stripe, which owns the subscriptions    *)
(* and sends events about them in any order and more than once, and the    *)
(* row of subscriptions that the webhook (apps/web/src/app/api/stripe/     *)
(* webhook/route.ts) and the checkout (actions/billing.ts) keep.            *)
(*                                                                         *)
(* An event carries the subscription as it was when the event was made;    *)
(* only checkout.session.completed asks Stripe for it again.               *)
(***************************************************************************)
EXTENDS Subscription, FiniteSets, Sequences

CONSTANTS
  Checkout,   \* checkouts the user may open
  MaxEvents,  \* bound on the events Stripe sends
  Env         \* "retry" an answer lost, "fail" the handler throws, "unmapped" a price of no plan

VARIABLE session  \* session[s]: a checkout of the user

vars == <<subs, events, row, session, hook, straight>>

Status == {"active", "past_due", "unpaid", "canceled"}
Price == Plan \cup {"other"}

NoRow == [plan |-> "free", status |-> "active", sub |-> 0, customer |-> 0]
NoSession == [is |-> "none", customer |-> 0]
NoWork == [event |-> 0, sub |-> [price |-> "other", status |-> "canceled", customer |-> 0]]

Init ==
  /\ subs = <<>> /\ events = <<>>
  /\ row = NoRow
  /\ session = [s \in Checkout |-> NoSession]
  /\ hook = [h \in Hook |-> NoWork]
  /\ straight = TRUE

Event(type, i, snap) == [type |-> type, id |-> i, sub |-> snap, done |-> FALSE]
Emit(new) == Len(events) + Len(new) <= MaxEvents /\ events' = events \o new

\* The subscription lives: it may be charged.
Alive(i) == subs[i].status \notin {"canceled"}

-----------------------------------------------------------------------------
(* The panel *)

\* createCheckoutSessionAction: refused while the row knows a subscription.  The
\* customer is the one the row knows, or a new one (0).
MayCheckout == row.sub = 0 \/ row.status = "canceled"

OpenCheckout(s) ==
  /\ session[s] = NoSession /\ MayCheckout
  /\ session' = [session EXCEPT ![s] = [is |-> "open", customer |-> row.customer]]
  /\ UNCHANGED <<subs, events, row, hook, straight>>

-----------------------------------------------------------------------------
(* Stripe *)

\* The user pays: Stripe makes the subscription and sends two events.
Pay(s, price) ==
  LET i == Len(subs) + 1
      new == [price |-> price, status |-> "active",
              customer |-> IF session[s].customer = 0 THEN i ELSE session[s].customer] IN
  /\ session[s].is = "open" /\ (price = "other" => "unmapped" \in Env)
  /\ subs' = Append(subs, new)
  /\ Emit(<<Event("created", i, new), Event("checkout", i, new)>>)
  /\ session' = [session EXCEPT ![s].is = "paid"]
  /\ straight' = (straight /\ \A j \in DOMAIN subs : ~ Alive(j))
  /\ UNCHANGED <<row, hook>>

\* The portal of Stripe and its billing cycle: another plan, a failed or a late payment.
Change(i, price, status) ==
  LET new == [subs[i] EXCEPT !.price = price, !.status = status] IN
  /\ Alive(i) /\ new # subs[i] /\ new.status # "canceled"
  /\ (new.price = "other" => "unmapped" \in Env)
  /\ subs' = [subs EXCEPT ![i] = new]
  /\ Emit(<<Event("updated", i, new)>> \o
          IF new.status = "past_due" /\ subs[i].status # "past_due"
          THEN <<Event("payment_failed", i, new)>> ELSE <<>>)
  /\ UNCHANGED <<row, session, hook, straight>>

Cancel(i) ==
  /\ Alive(i)
  /\ subs' = [subs EXCEPT ![i].status = "canceled"]
  /\ Emit(<<Event("deleted", i, subs'[i])>>)
  /\ UNCHANGED <<row, session, hook, straight>>

-----------------------------------------------------------------------------
(* The webhook *)

\* A delivery: an event is sent until it is answered, and may come again.
Deliver(h, n) ==
  /\ hook[h].event = 0
  /\ events[n].done => "retry" \in Env
  /\ hook' = [hook EXCEPT ![h] =
       [event |-> n,
        sub |-> IF events[n].type = "checkout" THEN subs[events[n].id] ELSE events[n].sub]]
  /\ straight' = (straight /\ ~ events[n].done /\ Handling = {}
                           /\ \A m \in 1 .. n - 1 : events[m].done)
  /\ UNCHANGED <<subs, events, row, session>>

\* planFromPriceId: no plan for a price that is not in the environment.
PlanOf(price) == IF price \in Plan THEN price ELSE "none"

\* Mutant: a subscription that stopped being paid is taken for a canceled one.
ApplyLapsed(i, sub) ==
  [plan |-> IF sub.status = "past_due" THEN "free" ELSE sub.price,
   status |-> sub.status, sub |-> i, customer |-> sub.customer]

\* applySubscription: an upsert; a price of no plan leaves the plan as it was.
ApplySubscription(i, sub) ==
  [plan |-> IF PlanOf(sub.price) = "none" THEN row.plan ELSE PlanOf(sub.price),
   status |-> sub.status, sub |-> i, customer |-> sub.customer]

\* customer.subscription.deleted, whichever subscription of the workspace it was.
Clear == [row EXCEPT !.plan = "free", !.status = "canceled", !.sub = 0]

Answered(h) ==
  /\ events' = [events EXCEPT ![hook[h].event].done = TRUE]
  /\ hook' = [hook EXCEPT ![h] = NoWork]

\* The one write of a handler.
Handle(h) ==
  LET e == events[hook[h].event] IN
  /\ hook[h].event # 0
  /\ row' = CASE e.type \in {"checkout", "created", "updated"} -> ApplySubscription(e.id, hook[h].sub)
              [] e.type = "deleted" -> IF row = NoRow THEN row ELSE Clear
              [] e.type = "payment_failed" ->
                   IF row.customer = e.sub.customer THEN [row EXCEPT !.status = "past_due"] ELSE row
  /\ Answered(h)
  /\ UNCHANGED <<subs, session, straight>>

\* The handler throws and answers 500: Stripe tries again.
HandlerFails(h) ==
  /\ "fail" \in Env /\ hook[h].event # 0
  /\ hook' = [hook EXCEPT ![h] = NoWork]
  /\ UNCHANGED <<subs, events, row, session, straight>>

Next ==
  \/ \E s \in Checkout : OpenCheckout(s) \/ \E p \in Price : Pay(s, p)
  \/ \E i \in DOMAIN subs :
       \/ Cancel(i)
       \/ \E p \in Price, t \in Status : Change(i, p, t)
  \/ \E h \in Hook :
       \/ Handle(h) \/ HandlerFails(h)
       \/ \E n \in DOMAIN events : Deliver(h, n)

Spec == Init /\ [][Next]_vars

-----------------------------------------------------------------------------
(* Properties *)

TypeOK ==
  /\ \A i \in DOMAIN subs : subs[i] \in [price : Price, status : Status, customer : 1 .. i]
  /\ \A n \in DOMAIN events : events[n].id \in DOMAIN subs
  /\ row \in [plan : Plan \cup {"free"}, status : Status, sub : 0 .. Len(subs), customer : 0 .. Len(subs)]
  /\ \A h \in Hook : hook[h].event \in 0 .. Len(events)
=============================================================================
